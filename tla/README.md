# A TLA+ model of NzbStreamer

NzbStreamer presents the files an nzb names (usenet articles, possibly in rar volumes) as a directory
tree over webdav and a fuse mount, and loads articles only when a file is read. This directory holds a
formal model of it: TLA+ modules translated from the Go source, TLC configurations that check them on
small instances, and theorems checked by TLAPS. Paths below are relative to the root of the repository
(`src/...` in `PROJECT.json`).

- `PROJECT.json` lists components, runs, mutants, the map from definitions to source lines, the
  disagreements found, the hazards and the theorems.
- `tlc -config X.cfg MCModule.tla` repeats a run; `tlapm XProofs.tla` checks the proofs.
- Definitions introduced by "Faulty:" are used by no specification. They are plausible bugs, each
  the mutated form of the definition below it, and show that a property would notice.

## 1. Inventory

From a read at the top to an article at the bottom:

```
 main, shutdown manager                         start and end               Serving
      |
 webdav server      fuse mount                  requests, reads at offsets  WebdavFS, Serving
      \                /
       presenters' trees                        paths                       FileTree
            |
       nzb service  <------ folder watcher      registration of nzbs        Library
            |
       parser, record factory, file health      what an nzb comes to        NzbFiles

 an open file:
      readahead over circular buffer            per open file               Readahead, CircularBuffer
            |
      rar reader                                file of an archive          RarFile, RarVolumes,
            |                                                               DecodeWindow
      adaptive parallel merger                  file = segments             ParallelMerger
            |
      segment cache (FullCacheResource)         segment = article           SegmentCache
            |            \
      post resource       disk cache            one file per item           DiskCache
            |
      nntp client
```

| Component | State | Operations | Correct when | Hard because |
|---|---|---|---|---|
| Disk cache `pkg/diskcache` | index of items, `currentSize`, files in `CacheDir` and `TmpCacheDir`, a read-write lock per item, one mutex | `NewCache`, `SetWithReader`, `GetWithReader` and its reader, `Remove`, eviction of the least recently used | index, counter and directory agree, readers keep their items, files are whole after a crash, `MaxSize` is kept approximately | each chunk of a set starts an eviction goroutine, which shares `err` with the set and keeps the mutex while it waits for readers; the rename and the index entry are two steps; crashes |
| Segment cache `pkg/resource/fullcacheresource` | `cachedSize` and its accuracy, mutex per key, a position and an underlying reader per reader | `Open`, `Close`, `Read`, `Seek`, `Size`, `IsSizeAccurate` | a Read is served from the whole segment and ends at its end only | items are evicted between the steps of a Read; sizes are cached from hints; fills fail and are repeated |
| Post resource `pkg/resource/nzbpostresource` | size hint, is it exact | `Open`, `Read`, `Size` | the hint becomes exact when the article was opened | a network that fails in the middle of an article |
| Circular buffer `pkg/circularbuffer` | slice, `readPos`, `writePos`, `size`, a condition variable | `Read`, `ExposeWriteSpace`/`CommitWrite`, `Seek`, `Resize`, `Clear`, `Flush` | a bounded queue | positions modulo a capacity that changes; exposed space is written outside of the package |
| Readahead `pkg/resource/adaptivereadaheadcache` | a buffer, `index`, `readaheadRunning`, `underlyingReaderEOF`, speed statistics | `Open`, `Read`, `Seek`, `Close`, the goroutine `readahead` | bytes in order; every Read returns | a goroutine fills while the caller drains, seeks and waits |
| Rar file `pkg/resource/rarfileresource` | `rarReader`, `index`, the readers of the volumes | `Open`, `Read`, `Seek`, `Close`, `GetRarFiles` | a file like any other | the reader only goes forwards: a Seek back moves all volumes, concurrently, and begins again |
| Rar decoder `pkg/rardecode` | volume and buffer, header flags, a chain of readers; a window and its filters | `NewMultiReader`, `Next`, `Read` | the bytes that were packed, or an error | volumes that are missing, cut, out of order or fail; headers and data that are encrypted; a circular window with queued filters |
| Adaptive parallel merger `pkg/resource/adaptiveparallelmergerresource` | a reader per segment, `index`, `readerIndex`, `readerByteIndex` | `Open`, `Read` and `Seek` (a goroutine per segment), `Size`, `Close` | the bytes of the segments in order; position, segment reader and index agree | sizes are hints until a segment was read; responses in any order; errors in the middle |
| Nzb service `internal/service/nzbservice` | `nzbFiledata`, `nzbFiles`, one mutex | `Init`, `AddNzb`, `RemoveNzb` | one nzb of a name; presenters show what is tracked, each file under a readable name of its own | parallel callers; the mutex is released between registration and publication; renamed paths may meet |
| Folder watcher `internal/trigger/folderwatcher` | `processedFiles`, watcher or ticker | first scan, watch, scans, `processFile` | each new nzb reaches the service, once | scans, events and first scan are concurrent; a file may be incomplete |
| Presenters' trees `internal/presentation/webdav`, `fusemount` | a tree | `AddFile`, `RemoveFile`, lookups | folders exist as long as files need them | paths collide; folders shared between nzbs |
| Webdav file system and server | the tree's `RWMutex`, a reader per GET | `Stat`, `Open`, `ReadDir`, the writing calls; `Listen` | answers are of one moment, and come | a listing of a whole tree takes the read lock once more for each folder; `Size` may be a hint |
| Mount, `pkg/readeratwrapper` | open files, a position and a mutex for each | `Open`, `Read` at an offset, `Mount` | each read has the bytes of its own offset | reads of one file come at a time, and its reader has one position |
| Parser, analyzer, file names, record factory | none | name and plausibility of an nzb, groups and order of volumes, size hints, resources | volumes in their order, the file in an archive is found | names are all there is to go by |
| File health `internal/filehealth` | none | a probe read of each file | the share of healthy files is judged right | an early end is no error |
| Shutdown manager `pkg/ShutdownManager`, `cmd/nzbstreamer` | wait group, timer, exit code | register, shutdown | the program ends, with 0 only when its services are through | cancelled contexts, files still open, failures of one service while the other is asked to end |
| Folder blackhole, seekahead, `mergerresource`, `parallelmergerresource`, bytes/file/reader/hooked resources, `ReadSeekerBatchedAt`, folder store | | | | used by tests or not at all by the program |
| 7z adapter, nntp client, configuration, profiling | | | | set-up and adapters of libraries outside of the repository |

How they interact. `main` initialises the service before the folder watcher, so the watcher's
listener is there before the first scan, and starts webdav and mount as services that end with one
context. A scan calls `AddNzb` in one goroutine per file and waits for all of them. `AddNzb` builds the
files without its mutex (which reads the headers of archives), and calls both presenters with it. An
open file is a chain of readers, each of which calls the next with its own mutex held: readahead, rar
reader, merger, one goroutine per segment, segment cache (mutex per key), disk cache. The disk cache and
`mutexMap` are shared by all files; everything above is per open file, except the sizes of a segment,
which are shared by all its readers.

`PROJECT.json` has the hazards of this code line by line and names the properties that are stated
because of them. A hazard without a property says why.

## 2. Modules

| Module | Models | State and actions against the code |
|---|---|---|
| `DiskCache` | `pkg/diskcache` | `mu`, `indexed`, `size`, `currentSize` are fields of `Cache`; `disk`, `tmp` the two directories; `torn` and `synced` are what a crash may take from a file. A call is a sequence of actions split where other goroutines may run: `SetBegin`, `SetChunk`* or `SetFail`, `SetSync`, `SetRename`, `SetRenamed` or `SetRenameError`, `SetPublish`; `GetBegin`, `GetOpen`, `ReaderClose`; `RemoveBegin`, `RemoveEnd`; `EvictStart`, `EvictItem`*, one of the three ends. `err` is the captured variable that the set and its evictions assign. `Crash`, `LoadExistingItems`, `BootEvict`, `Booted` are a crash and `NewCache` |
| `SegmentCache` | `fullcacheresource` over `nzbpostresource` | extends `DiskCache`: a reader is one of its callers, and each action of a Read is an action of the disk cache with what the resource adds to it (`FillDone` is `SetPublish` and the release of the underlying reader, and so on) |
| `CircularBuffer` | `pkg/circularbuffer` as it is used | operators on the five fields; they become steps in `Readahead` |
| `BoundedFifo` | what the buffer promises | abstract specification: `Put` and `Drop` on a sequence |
| `Readahead` | `adaptivereadaheadcache` | `client` is the goroutine that calls, `ra` the readahead goroutine (one phase for each place where it takes and gives up the buffer's mutex), `eof`, `index` the fields, `under` the underlying reader. The measured speed becomes any amount between the bounds of the cache |
| `ParallelMerger` | `adaptiveparallelmergerresource` | `Request` (one goroutine started), `Respond...` (it answers, in any order), `Process` (a response merged, in order), `ReadReturn`, `ReadError`, `Drain`, `Unlock` (the deferred goroutine); `SeekAsk`, `SeekRespond`, `Forward...`, `Backward...`, `SeekReturn`; `SeekEnd`, `SeekEndFails`; `Open`, `Close`. `known` is what segments know of their sizes, which other readers change |
| `RarVolumes` | `rardecode`: `volume.go`, `archive15.go`, `archive50.go`, `packedFileReader` | a volume is a sequence of cells (signature, header, salt, data byte); `at`, `vi`, `buf` are the readers, the current volume and its buffer; the search for the next file header is a step per header (`step`), in both formats |
| `RarFile` | `rarfileresource`, `Reader`, limit, checksum and cipher readers | extends `RarVolumes`: `Open`, `Read`, `Seek...` begin a call, the actions after it are the layers a read goes through; `SeekBack`, `RewindVolume`, `Reopen` the way back |
| `SeqFile` | what an `io.ReadSeeker` promises | abstract specification: a position, answers, and a place that may be lost |
| `DecodeWindow` | `decode_reader.go`, `filters.go` as it is queued and applied, `nextFile` | `win`, `size`, `r`, `w`, `fl`, `tot`, `outbuf`, `err` are the fields of `decodeReader`; `Literal`, `Match`, `Filter`, `End` are what a decoder finds, `bytes` and `marks` what was packed; `Fill`, `Plain`, `Collect`, `ProcessFilter` the reader; `Begin` is `init` |
| `FileTree` | the trees of the presenters | a function from paths to `Folder` or a file; additions and removals of webdav and mount as operators |
| `NzbFiles` | `nzbparser`, `filenameops`, `nzbfileanalyzer`, `nzbrecordfactory`, `filehealth`, the names of `nzbservice` | no state: operators from an nzb to its name, plausibility, groups, volumes, files, sizes, health and paths |
| `Library` | folder watcher, service, presenters | `Scan`, `Parse`, `Register`, `Build`, `Track`, `Publish`, `Published`, `RemoveNzb`, and the folder itself. `Outcome` is what `NzbFiles` makes of the nzb of a file |
| `WebdavFS` | `webdav/filesystem.go`, and the handler as it uses it | `writer`, `held`, `waits` are `fs.mu`, a Go `RWMutex`; `Stat`, `ReadDir`, `Entry`, `Open`, `SeekEnd`, `Seek`, `Read` the steps of a request, `frames` the calls of `ReadDir`; `Change`, `Lock`, `Unlock` the service |
| `Serving` | `main`, `ShutdownManager`, `webdav.Listen`, `fusemount`'s `Mount`, `Open` and `Read`, `ReadSeekerAt` | `main`, `web`, `mount`, `wg` are how far each is; `Lock`, `Seek`, `ReadSome`, `ReadNothing` the steps of a `ReadAt` |
| `SegmentCacheProofs` (with the theorems about `DiskCache`), `ReadaheadProofs`, `ParallelMergerProofs`, `LibraryProofs`, `ServingProofs`, `RarFileProofs`, `DecodeWindowProofs`, `WebdavProofs` | | theorems |
| `MC...` | | values and symmetry for TLC |

What is composed: `SegmentCache` with `DiskCache` (its steps are joint steps), `Readahead` with
`CircularBuffer`, `RarFile` with `RarVolumes`, `Library` with `FileTree` and `NzbFiles`, `WebdavFS` with
`FileTree`. Refinements: `Readahead` implements `BoundedFifo` (`queue <- Contents`), `RarFile`
implements `SeqFile` (`pos <- index`), both checked by TLC and proved; `SegmentCache` implements
`DiskCache`, which is proved.
The merger assumes of its segments what `SegmentCache` states: a Read that starts
at a segment's start returns its bytes in order and makes its size exact; it may fail. `RarFile` and
`Serving` assume of the readers below them no more than `SeqFile` says of one.

Choices of abstraction. Lengths in the disk cache are in chunks of `ReadBufferSize`. A byte is its
offset in the file (`Readahead`, `ParallelMerger`, `RarFile`, `WebdavFS`, `Serving`), so that order and
loss are visible. Access times are the relation `older`. A Read of the segment cache takes one chunk
from the item. A block of a cipher is right if the one before it was right; a filter adds what it was
told to each byte of its block. A file name is a base and one or two extensions, an extension a word
and a number (`NzbFiles`): this is what grouping, order and renaming look at.

## 3. Runs

Passing runs. Every property is one that a mutant of the code, listed in `PROJECT.json`, violates.

**`disk_cache_safety`** (`MCDiskCache`, 3 items, 2 callers, 2 evictions, items of 1 or 2 chunks, room
for 1, copies and renames that fail). `Accounting`: `currentSize` is the sum of the indexed sizes.
`ReadersProtected`: no eviction or removal takes an item from a reader, also between the look-up and the
open. `NoTornFile`: what is under `CacheDir` is whole, at every crash. `IndexedHasFile`, `NoOrphan`: index
and directory agree but for the moment between rename and index entry. `SettledBound`: what a quiet
cache may hold above `MaxSize` is one item for every further concurrent set. The last three are stated
until a rename or an eviction has failed since the start (`health`), since what the code does then is
another matter (section 6). Two callers and room for one small item make sets, readers and evictions
compete; three items are needed to exceed the bound; an item of 2 chunks fits nowhere, so that an
eviction empties the index and fails, in the middle of a set.

**`segment_cache_evict`** (2 readers, 2 segments of 2 chunks, room for one, hints of 1 chunk, crashes).
`ServesWholeSegment`: the item may be evicted, filled by the other reader, or found after a restart between
any two steps, and a Read still is served from a whole segment. `SizeKnownOnceServed`: from the first Read
that was served on, the size that is cached is that of the segment, so that no Read ends early and a Seek from
the end goes to the end; it may not fall back to the hint, which is too small here, nor to what the
article says of itself. Before that Read the hint does end it early (section 5), so the run has both.

**`segment_cache_progress`** (2 readers, one segment, every file operation may fail, crashes).
`CallersAreExclusive`: the mutex per key gives the disk cache the callers it relies on (its guard
`MaySet`). `GivesUpOnlyCached`: a reader gives up its article only with the segment in the cache, whatever
fails, and only an eviction takes it from there. `ReadReturns`, `EvictReturns`: the mutexes of key, cache
and item, which are taken in different orders by readers and evictions, lock nobody out.

**`readahead_fifo`** (a file of 5 bytes, buffer of 2 to 4, Reads of up to 3, low-water mark 1; reads of the
underlying reader that give bytes, none, the end or an error, and seeks of it that fail).
`InOrder`: whatever order Reads, seeks, resizes and readaheads come in, the buffer holds the bytes that
follow `index`, and the underlying reader stands behind them. `ImplementsFifo`: each step of buffer and
readahead is a step of `BoundedFifo` or none. `WokenByReadahead`: a Read that waits gets the bytes its
readahead finds, unless that ends without any (section 6). Capacity 2, 3 and 4 with a file longer than
each make positions wrap at different capacities, partially and exactly.

**`merger_order`** (4 segments of 2, 1, 2 and 1 bytes, hints 3, 1, 3, 2, Reads of 1 to 5 bytes, any
seek, failures, another reader of the file, readers one after the other). `Aligned`: between calls,
index, position and segment readers agree. `CopiesInOrder`, `OneGoroutineEach`, `EndsAtEnd`,
`MergerReadReturns`: bytes are merged in order, a segment is read by one goroutine at a time, the end is
reported at the end only, and every Read returns and releases the mutex, also after an error. Hints that
are exact and too large, segments of one byte and Reads that span up to four segments are the cases the
loops tell apart. Segments are known or not in every combination at the start.

**`rar_read`** (eleven archives of a file of 5 bytes: in one to five volumes of both formats, with other
files, service blocks and directories around it, a volume without a byte of it, encrypted data with a
block in three volumes, encrypted headers in three volumes, and volumes that are missing, swapped or cut; a buffer
of 2 cells; Reads of up to 3 bytes; one failure of a volume). `ImplementsSeqFile`: through every layer and
across volumes the file of a whole archive is an `io.ReadSeeker`; only a Seek that failed half-way and a
read that failed inside a block of the cipher, or between a salt and its header, lose the place, until a
Seek finds it again. `EOFIsWhole`:
the end of the file is told after the whole file only, whatever the volumes are like. The exception is a
reader that could not be put back to its start. `OnlyPasswordIsLost`: where no volume fails, an error
for a place within a whole archive comes from the password, which a Seek back does not pass on, and
nothing panics. `CallReturns`: calls end; `GetRarFiles` but for archives whose first entry is a directory.

**`rar_window`** (windows of 3 and 4 bytes, two files, solid and not, up to 6 bytes with one copy and
three filters, Reads of 1 and 2). `DeliversThePacked`: what Reads return is the file as it was packed, and all of it
before `io.EOF`, through turns of the window, blocks across its end, filters upon filters and a window
enlarged half-way. `RefusesTheBroken`: no file that is well packed is refused, for example for a filter
left over from the file before. Both are stated while `lost = "no"`: a copy that does not fit before the
end of the window loses the rest ("cut", `decode_reader.go:108`), and a filter queued for a block a whole
window ahead or while another block is collected is applied elsewhere ("far", `:161`; "inside", `:151`
against `:196-214`). 6 bytes and windows of 3 and 4 make each window turn at least once, and each of
copy, filter and end meet its end.

**`library`** (3 nzb files: two of one name, two with a common folder; archives of many, of one and of
old-style volumes, two archives that are taken for one, an archive that begins with a directory, files under
one path, an nzb that does not parse, one from before 1970, one file without a size; probe reads that give
bytes, the end, an error, or never return). `OneOfAName`, `ShowsTheTracked`, `TreesWellFormed`:
parallel parsers register one nzb of a name; both presenters show exactly the tracked files, and no
folder stays without a file or disappears from above one. `KeptApart`: names made readable are distinct,
unless a folder was taken out (`flattenPath`) or an archive has one volume. `VolumesFollow`: the volumes
of an archive that were grouped by their names, and nothing else with them, are read in their order.
`ParsedOnce`, `NewFilesNotified`, `ScanReturns`: a file reaches the service once, and does reach it when it
was whole as it came to a watched folder, or before the first scan, and every scan ends: no event is lost
while a scan holds the mutex, and no lock of service or watcher stays taken. Both are stated but for
executions in which an `AddNzb` never returns (`SomeStuck`), which keeps its scan for ever: `GetRarFiles` stays at an
archive that begins with a directory, and a probe read may wait for ever (`Waits`). Section 6 has what is
lost then.

**`webdav_requests`** (2 requests of every kind, a service that adds and removes a file, a folder in its
place, and a file below another). `ListIsOfOneMoment`: a listing, also one of a whole tree with its folders one
after the other, is of one moment. `GetGivesTheRange`: a GET that ends well has the bytes from the offset
asked for up to the Size told, each in its place. `StuckOnlyByDeepList`: every request is answered and
every `AddFile` returns, unless a listing of a whole tree meets a writer between two folders, which then
stops all of them for ever (`filesystem.go:258`). One path below another gives every answer of the tree;
two requests are one that waits and one that holds.

**`serving`** (2 calls of the kernel, 2 open files of 2 bytes, every way to start and end).
`ReadsOwnOffset`: reads of one open file at a time each have the bytes of their own offset, and nothing
without an error only at its end. `ExitZeroIsClean`: code 0 only with both services through and no file of
the mount open. `SignalEnds`: a signal ends the program, without the time-out and without a read
returning. Two calls on one handle and one on another are what the mutex has to tell apart.

Runs that end in a violation. Each states what a comment of the source says, and TLC gives the
execution in which the code does otherwise.

| Run | The comment | What happens |
|---|---|---|
| `readahead_resize` | "adjusts the buffer's actual capacity [...] if it is not less than the current amount of data" (`CircularBuffer.go:277`) | a full buffer with both positions equal is resized and its content replaced by zeros. It takes a low-water mark equal to the initial size, which is the default (`cmd/nzbstreamer/config.go:34-40`) |
| `merger_seek` | "It [...] can handle their size to be unknown" (`AdaptiveParallelMergerResource.go:17`) | where hints are larger than segments, both loops of a Seek turn for ever with the mutex held |

Deadlock is checked in the runs of the disk cache and the segment cache. It is not in the others: a
process that has panicked or ended, a Read that waits for ever, a window at its bounds, a listing that
waits for itself and a library whose folder no longer changes do stop, and progress is stated by the
liveness properties instead.

### Bounds

Callers, evictions, keys, lengths, file sizes, archives, requests, calls and paths are bounds on finite
sets. A set that finds no free eviction goroutine waits for one in the model (`Evictors`), which removes
executions and adds none; the disk cache's run has two, the segment runs one, and the proofs are for any
set of them. A caller makes any number of calls, and crashes and restarts may come any number of times.
Positions are within the file. What counts up is bounded by name: failures of volumes in `RarFile`
(`MaxFaults`, one; two failures of one call cannot meet, since the first ends it, and a reader that has
lost its place is a state of the run), and bytes, copies, filters and files in `DecodeWindow`
(`MaxBytes`, `MaxMatches`, `MaxFilters`, `MaxFiles`; the window turns within 6 bytes).

### Fairness

- `SegFairness`: a Read in progress and a running eviction take their next step. It is strong fairness
  since a mutex may be free again and again when it is somebody else's turn; Go's `sync.Mutex` and
  `RWMutex` hand over to a waiter after a millisecond, and a writer that waits keeps new readers out. No
  fairness is assumed of callers that begin calls, nor of crashes and restarts.
- `FairRaheadSpec`: weak for the readahead goroutine, strong for a Read, which competes for the mutex of
  the buffer. A Read of the underlying reader is assumed to return, with bytes, with none, the end or an
  error.
- `FairMergerSpec`: weak, of the goroutines of a call in progress; they share no mutex.
- `FairRarSpec`: weak, of the call in progress, which one goroutine runs (but for the concurrent seeks
  of the volumes, which share nothing).
- `FairLibSpec`: weak for the watcher, scans, parsers and `AddNzb`, which may choose never to return (`Build`). `Create`, `Complete` and `RemoveNzb`
  are not fair: nobody has to do them.
- `FairDavSpec`: weak for each request, which has a goroutine, and for the service once it waits for the
  lock. A `sync.RWMutex` hands over: a writer that waits gets the lock when its readers have left,
  and the readers that wait get it when the writer leaves (`Unlock`), so weak fairness is enough.
- `FairServingSpec`: weak for the goroutines of the two services and the wait of `main`. Neither the
  time-out nor an answer to the kernel is relied upon.

## 4. Proofs

| Theorem | Statement | Assumes |
|---|---|---|
| `TypeCorrect` | `Spec => []TypeOK` | `CacheAssumption` |
| `AccountingCorrect` | `Spec => []Accounting` | `CacheAssumption` |
| `IndexCorrect` | `Spec => []IndexedHasFile` | `CacheAssumption` |
| `WholeFilesCorrect` | `Spec => []NoTornFile` | `CacheAssumption` |
| `ProtectedCorrect` | `Spec => []ReadersProtected` | `CacheAssumption` |
| `OrphanCorrect` | `Spec => []NoOrphan` | `CacheAssumption` |
| `BoundCorrect` | `Spec => []SettledBound` | `CacheAssumption`, `Callers # {}` |
| `SegImplementsCache` | `SegSpec => Spec` | `CacheAssumption`, `SegmentAssumption` |
| `ExclusiveCorrect` | `SegSpec => []CallersAreExclusive` | the same |
| `WholeCorrect` | `SegSpec => []ServesWholeSegment` | and `Unfailing` |
| `EndCorrect` | `SegSpec => SizeKnownOnceServed` | the same, for any hint |
| `GiveUpCorrect` | `SegSpec => GivesUpOnlyCached` | `CacheAssumption`, `SegmentAssumption` |
| `RaheadTypeCorrect` | `RaheadSpec => []RaheadTypeOK` | `BufferAssumption`, `ReadaheadAssumption` |
| `OrderCorrect` | `RaheadSpec => []InOrder` | and `LowWater < InitialSize` |
| `FifoCorrect` | `RaheadSpec => ImplementsFifo` | the same |
| `ReadersCorrect` | `MergerSpec => []OneGoroutineEach` | `MergerAssumption` |
| `AlignedCorrect` | `MergerSpec => []Aligned` | `MergerAssumption` |
| `CopyCorrect` | `MergerSpec => []CopiesInOrder` | `MergerAssumption` |
| `MergerEndCorrect` | `MergerSpec => EndsAtEnd` | `MergerAssumption` |
| `NameCorrect` | `LibSpec => []OneOfAName` | none |
| `ParseCorrect` | `LibSpec => ParsedOnce` | none |
| `TreesCorrect` | `LibSpec => []TreesWellFormed` | `LibraryAssumption`, `OutcomeAssumption` |
| `ShownCorrect` | `LibSpec => []ShowsTheTracked` | the same, `NzbsApart`, `Sized` |
| `KeptCorrect` | `LibSpec => []KeptApart` | the same, `NzbsApart`, `NamesApart` |
| `VolumesCorrect` | `LibSpec => []VolumesFollow` | `LibraryAssumption`, `VolumesNamed` |
| `ExitCorrect` | `ServingSpec => []ExitZeroIsClean` | none |
| `ReadsCorrect` | `ServingSpec => []ReadsOwnOffset` | `ServingAssumption` |
| `EOFCorrect` | `RarSpec => []EOFIsWhole` | none |
| `SeqFileCorrect` | `RarSpec => ImplementsSeqFile` | `RarAssumption`, `VolumesAssumption`, `WellPacked(from)` |
| `OnlyPasswordCorrect` | `RarSpec => []OnlyPasswordIsLost` | the same, `WellFound(from, walk)` |
| `DeliversCorrect` | `DwSpec => []DeliversThePacked` | `WindowAssumption` |
| `RefusesCorrect` | `DwSpec => []RefusesTheBroken` | `WindowAssumption` |
| `GetCorrect` | `DavSpec => []GetGivesTheRange` | `WebdavAssumption` |
| `LockCorrect` | `DavSpec => StableUnderLock /\ []LocksReturned` | none |
| `ListCorrect` | `DavSpec => ListIsOfOneMoment` | `WebdavAssumption` |

They hold for any number of items, callers, evictions, segments, nzbs, calls, open files, volumes,
filters and requests, any sizes and any length of a file.

*Disk cache.* `Accounting` alone is not inductive: a set adds its length to `currentSize` without asking
whether the item is indexed already. `IndexInv` adds that no two calls fill one item (`Exclusive`), that
an item being filled is not indexed (`Unindexed`), that what is not indexed has no size (`Sized`), and
that no call runs in a process that is not up. `Total` is the cardinality of a set of pairs, and the
lemmas `ChunksAdd` and `ChunksRemove` say what an item adds to it and takes from it. `FileInv` extends it
to the files: a removal and a running eviction hold the mutex (`MutexHeld`), the temporary file of a set
holds what was written and is synced at the rename (`Filled`), and between rename and publication the
file is in its place (`Placed`). `Placed` and `IndexedHasFile` hold while `health = "sound"`. A rename that
fails assigns `err`, which an eviction may overwrite with nil before it is tested (`cache.go:158`,
`:189-190`), and the set then indexes an item without a file. `NoTornFile` and `ReadersProtected` need no
such condition. `OrphanInv` adds to `NoOrphan` that no error is set while all is sound, so that a set
that has renamed its file goes on to index it, and that a restart indexes all it finds. `BoundInv` is
about the size: an eviction that ends for all a set has written leaves room for it, the last one to end leaves room for
an item at least, and each other caller has at most one item that fits. `SettledBound` is what remains of it when no
call runs; it needs a caller to exist, since the bound counts them.

*Segment cache.* `SegInv` says of each reader in which call of the cache it is (its `pc`, by its `at`),
that it holds the mutex of its key from the look-up to the end, and that its segment is not
indexed after a miss; `OthersKeep` is the frame, that another reader's step changes none of it because
the mutex is not its own. It is inductive together with `IndexInv` only: a step of a reader is a step of
the cache if the guard `MaySet` holds, which `SegInv` gives, and what the cache then keeps is what the
next step of the reader needs. `SegStepImplements` is that step. `WholeInv`: an underlying reader has its
article whole, is given up, or is being read into the one temporary file of its segment; so what is
renamed is whole. `Unfailing` (no file operation fails, and one segment fits) is
needed: after a failed rename the article is read again from where it is, its end (section 6).
`Sizing` says that from the first Read of a segment that was served (`served`) to the end of the process its
cached size is that of the segment and taken for accurate, which neither an eviction nor another opening
changes: `Size`, `IsSizeAccurate` and a Seek from the end only take what is in the index, a whole segment, or
what is cached already (`KnownSizes`). `EndCorrect` needs it since the size is read without the mutex. It
assumes nothing of the hint; with fills that fail it would be false (section 6).
`GiveUpCorrect` follows from `SegInv` alone, whatever
fails: a reader gives up its article in `FillDone` only, which indexes its key, and of a running process
only an eviction takes a key out.

*Readahead.* `RaheadTypeOK` needs to know that `size` is the distance from `readPos` to `writePos` modulo
the capacity (`Positions`), and what the readahead goroutine still knows of the buffer after it has given
up its mutex, although Reads go on (`RaKnows`): Reads only shrink `size`, so room it has seen stays. That
is `BufInv`. `OrderInv` adds that no buffer about to be resized is full (`RoomToGrow`) and that item `i`
is byte `index + i` (`NextItems`). The lemmas `CommitItems`, `ReadItems` and `ResizeItems` say for each
operation of the buffer which items it leaves where. `LowWater < InitialSize` is used by `RoomToGrow`
only, and `readahead_resize` shows that it is needed. From the same lemmas follows `FifoCorrect`: a commit
appends to the abstract queue, a Read and a Seek within the cache (`SeekItems`) drop from its front, a
Seek out of the cache and `Close` empty it, and a resize leaves it as it is. The order proved is that of executions before the
readahead goroutine panics (section 6).

*Merger.* `OneGoroutineEach` is inductive with `Onward`: the loop that asks segments has not gone
further than one past the last it asked, but for a request that was for less than its segment has left, after
which it ends. `MergerType` has the one fact about the place that this needs: past the last segment,
`readerByteIndex` is 0.

The order of the bytes is `PlaceInv`, inductive together with these. It says of each phase where the
place is, in terms of `Offset`, the sums that the loops of the code add up one segment at a time.
`Requests`: the requests of a Read are for segments that follow one another, and each but the last asks for
all its segment has left, because hints are no smaller than sizes; none begins beyond what was asked
for. So what `ReadReturn` returns short, it returns at the end of the file (`EndsAtEnd` also needs that a segment
whose end was reached has its size known). `ProcessInv`: the position is `index` after each response,
whichever answer came first. `ForwardInv`: a Seek asks no segment it does not need, so the response it
lands in is the last, and no reader further on was moved. `BackwardInv`: the segments it has passed
are back at their start. After an error in the middle (`lost`) nothing is claimed: the place is
then wrong (section 5).

*Library.* `LibInv`: a file `processFile` was called for is in `processedFiles`, which scans pass over;
none of its steps leads out of "done"; and the check of a name and its registration are one critical
section (`Register`). `ServiceInv` says of each nzb and step of `AddNzb` what is registered and which files
are published. `TreesInv` keeps every folder above a file in the tree (`TreesCorrect`), and `ShownInv` that
each file of a tracked nzb is shown by all the file systems that have taken it. An `AddFile` leaves what is in the tree, and
`RemoveNzb`, a fold over the files of an nzb, takes only what is at their paths: the fold is unfolded by
induction over a set of numbers, as the least number at which the claim fails. `NzbsApart` is
needed: `RemoveNzb` takes what is at the paths of its nzb, also a file of another nzb, and nothing in the
code keeps the files of nzbs of different names apart. `MCNzbsApart` states it of the run's nzbs. `Sized` says
that the files of an nzb have sizes, without which a file system refuses them.
For `KeptApart`, `HeldInv` adds that what the tree has at a path is a file that was added for it, of the nzb
whose path it is, and that a file that was added finds its path taken, if not by itself. What is left is about
names: `deobfuscateFilename` gives no two files of an nzb one path (`DeobsApart`), whatever it takes for similar, because
it renames only the one file of its extension in a folder, and puts the extension behind (`RenamedToNone`,
`RenamedInFolder`, `RenamedAcross`); so two files at one path are there by `flattenPath`, and a file is above
another one only as the single volume of its archive (`PlacesBelow`). `NamesApart` has what this needs of the
names of an nzb, and nothing in the code sees to: a file that has no extension is given the whole
`MetaName`, with what looks like an extension in it, which another file may have for its name; a `MetaName` with
slashes is several folders; a file may have the name of a folder; names that differ may be spelled alike.
It compares the names of the files before they are put anywhere, not their places. `MCNamesApart` states it of the run's nzbs.
`VolumesFollow` says nothing of steps, only of names: `Before` puts names that differ in one growing number in
the order of that number (`CountedInOrder`), and a set of names has one such order at most (`SortedIs`),
since a growing function from `1 .. n` to itself is the identity (`GrowingIsIdentity`, by counting).
`VolumesNamed` asks that an archive which is a whole group is an rar archive with volumes numbered that
way, or with a single one; `MCVolumesNamed` states it of the run's nzbs. Old names (`rar`, `r00`) are never one
group and nothing is said of them.

*Serving.* `ExitInv`: `wg` counts the services that have not returned, and files are open only on a mount
that is there. `HoldsHandle`: a call between its Seek and its Read holds the mutex of its handle, and the
position is its offset.

*Rar file.* What `EOFIsWhole` says of a Read at its end is kept by `EOFInv`: a reader without a file
header is one that a Seek back has left behind, and such a Seek is forgotten only once the file is found
again, so no end is told before the search for the file (`Looking`) has ended.

`SeqFileCorrect` follows the bytes of a whole archive from the volumes to the caller. Its hypothesis
`WellPacked(from)` says what "whole" means for any archive: `from` counts the bytes of the file before each cell,
each block of the file holds the bytes that follow, one block is the first, and each can be reached
from the start of its volume; `MCWellPacked` checks it of the run's archives. The invariant `SeqInv` joins
`EOFInv` with `CallInv` (which calls may be where, and that a Seek back has lost the place) and `FileInv`,
which says of a reader that has its place (`Sound`) or is in the file (`InFile`): the volume is read where the
search for headers thinks it is (`Placed`); the bytes taken from the packed data so far are those
before what is left of the block, or before the next block (`Sited`); what was delivered is the file up to
`index` (`StreamInv`); and what the cipher holds, decrypted, undecrypted or as a part of a block, comes
next, in this order (`CipherInv`). The lemmas about `Run` say what appending, cutting and decrypting
consecutive bytes gives (`BlocksAt`, by induction over the blocks). `Sited` is not inductive without an
exception: a read of a volume that fails between a salt and its header makes the next try take the
header for a salt (section 6), after which the place is lost (`HeaderMissed`). `Mapped` is what a step may look
like to `SeqFile`; one lemma per group of actions shows it.

`OnlyPasswordCorrect` needs more of the archive, that its headers lead through the whole file. In its hypothesis
`WellFound(from, walk)`, `walk` is a set of places at which the search for headers can go on: a volume and a cell
of it, whether headers are encrypted from there, whether the archive is said to be of many volumes, and the
file whose last block has not come. From each of them the search comes to another (`Continues`) or to the last
block of the file. A block of the file that is not the last ends before its length, the last one does not
and is padded to whole cipher blocks where the file is encrypted (`GoesToEnd`); an archive with an encrypted
file is one that is opened with a password (`locked`). `MCWellFound` checks this of the run's archives, with
the greatest such set (`MCWalk`). The invariant `SureInv` stands beside `SeqInv`. As long as no volume fails it is
`Calm`: the first volume is found and nothing panics. A reader that is `Able` (the archive needs no
password, or it is there and no Seek has lost the place) is `Sure`: the search stands at a place of the walk
(`Walked`, `Searched`), the blocks up to the one in hand come to the end of the file with its last (`Counted`), and the cipher has
decrypted whole blocks (`Aligned`). So no step of the search misses a header
(`NeverNoHeader`), no volume ends before its block does (`NeverNothing`), the last block ends where a block of the
cipher does (`EmptyBlockSure`), and a Read that comes to the limit has the whole file (`LimitSure`). `WellPacked`
is not enough for this: it says what a block holds, not that another one follows.

*WebDAV.* `Reached`: what a GET has read are the bytes from its offset, and the reader stands behind them.
`GetOf` adds that a GET lists nothing, that a reader with bytes is past its `Seek`, and that the status is
"ok" only of a request that was answered, so that the reader no longer moves. The lock and the tree do
not occur in it: the file that was opened is read although the tree has lost it.
`LockCorrect` is about the lock: while a request holds it, also between two folders of a listing, the
tree does not change, and a request that is answered holds it no more. Its invariant `LockInv` counts: a
request holds the lock once for each `ReadDir` under way and once more between a lock and the end of what
that is for, and the writer has it only when nobody does.

It is one half of `ListCorrect`. The other is the walk, `WalkInv`: the entries of a request are the
names of what is below its folder without what remains to be listed (`Walks`). What remains is all that is at
or below the children left to some call, and below the folder about to be listed. What is left to a call are
children of its folder, and the calls after it are below the child it listed last (`Chain`), so a child is
listed once and what is below it by one call only. `ReadDirWalks`, `EntryWalks` and
`ReturnWalks` are the steps of a walk; for them a path below a folder is below exactly one of its children
(`BelowChildren`), because `TreeInv` has every folder above a path in the tree. The
names are a bag, made by a fold that chooses its own order; `NamesCount` shows by induction over the number of
paths that it counts them.

*Window.* `DwInv` says, while nothing was lost, that the stream is `Working` or the file was `Refused`. The
window: `Holds`, the last bytes of all files are behind `w`, going round its end, which a write (`WriteHolds`),
a turn in `fill` and a window that is laid anew (`RelaidHolds`) keep; so a copy is one of the bytes (`CopyIs`)
and what is between `r` and `w` comes next (`SliceIs`). The place: `Position`, what was given, what
`bufBytes` has collected and what is between `r` and `w` are all that was decoded. The filters: those in `fl` are
the last that were queued, each by its distance from the one before, the first from what was given (`Waiting`;
`SumIs` is why `queueFilter` subtracts the sum of the distances); the others are of blocks that were given, or of
the one that is collected (`Done`), whose bytes have been through these (`BlockInv`). Blocks are in order
and do not overlap (`Ordered`), so a filter that waits changes no byte that was given (`ThroughRest`), nor does
one that is queued later (`GivenOfMark`). `Places` has the facts that make it inductive: a block is
collected while `fl` begins with its filter, and between the files of a solid archive no filter is left. The end
is told only after all blocks (`Ends`, `EndedBehind`), hence no file ends inside a block. Folds over sequences
are unfolded by induction over a set of numbers (`UnfoldSum`, `UnfoldThrough`). What the theorems assume
of the constants is that a copy is shorter than the smallest window (`WindowAssumption`; the code: some
4100 bytes at most, `slotToLength` in `decode50.go`, and `minWindowSize` is 0x40000).

Only model-checked: all liveness, also `WokenByReadahead`: liveness under fairness is beyond the prover. Each
safety property of the passing runs is a theorem. Lemmas with an operator as a parameter are out of reach too; induction is
done instead on the least counterexample (`Induct`), where a set or a fold needs it. `SortSeq` has no
definition in the prover: that the segments of a file are merged by their index stays with TLC, and
`Sorted` of `NzbFiles` chooses among `SetToSeqs` instead.

## 5. Assumptions and limits

- `DiskCache`: callers fill an item only after a miss and one at a time (`MaySet`), which
  `ExclusiveCorrect` proves of the only user. `Cache.Get` always returns an error (`cache.go:287`) and
  is left out. `MaxSizeEvictBlocking` is off: `cache.go:146` tests it on the default options, which the
  caller's do not change. A crash may lose the content of a file that was renamed but never synced.
- `SegmentCache`: all segments have one length. A hint that is too small ends a Read early until one of the
  segment was served: `SizeKnownOnceServed` begins there, and the README of the repository warns of it
  (`Readme.md:80`). The analyzer
  estimates a segment with the least overhead of yEnc (`GetEstimatedSegmentSize`), that is, from above,
  unless it takes it for one of a known size, and then says that the hint is exact (`NzbFiles!SizeHint`):
  an article of a larger size that is up to 4.5 percent above a known one gets a hint that is too small.
- `Readahead`: one goroutine uses a reader. `InOrder` excludes executions with a Seek inside the cache
  (`moved`): such a Seek also moves the underlying reader (`AdaptiveReadaheadCache.go:133`), and what is
  read ahead next does not follow what is cached. A Seek of the underlying reader
  that fails (`SeekFails`) keeps its position but may have lost its place, so it sets `moved` as well; what
  is read from then on is still named by that position, a bound of the model.
- `ParallelMerger`: hints are not below the sizes (`MergerAssumption`): one Read is all a segment gets
  (`:221`), so that the rest of one with a smaller hint would be skipped. Mergers of mergers (7z volumes)
  need several Reads and are not modelled. `lost` marks a reader that no longer knows its
  place, after a Read that failed (`TODO` at `:290`) and after Seeks that end at the end of a segment or
  beyond the file; `Aligned` is about the others.
- `RarVolumes`, `RarFile`: volumes are given to the reader open (`NewMultiReader`), never found by name.
  A header takes one cell; one whose checksum fails is not consumed. The file is stored, not compressed,
  and has a checksum and a known size; `DecodeWindow` is about compressed ones. One file of an archive is
  read by name, as the factory does. After a Seek back whose volumes could not be put back ("stale"), only
  another Seek back is followed.
- `DecodeWindow`: packed data are those of an archive that was packed well, and may end in an error
  anywhere. Filters keep the length of their block, as the standard ones of `filters.go` do.
- `Library`: a file that is created between the first scan and the watch, or is incomplete when it is
  scanned, is not promised to arrive (it is marked as processed before it is parsed, `folderWatcher.go:110`).
  A `ReadDir` that fails drops its event and is not modelled. `RemoveNzb` runs apart from an `AddNzb` that
  publishes: it takes no lock (`nzbService.go:335`), and nothing in the repository calls it.
- `Library`, `NzbFiles`: a build of files never returns only where an archive says so (`endless`). Nothing of a 7z
  archive is built, so that the library which refuses a `.zip` is taken to come to an end.
- `NzbFiles`: no base of a name begins with another one. `Similar` stands for the distance of Levenshtein.
  `flattenPath` looks for paths by prefix of a string, without a slash at its end (`WithPrefix`).
- `WebdavFS`: one `AddFile` or `RemoveFile` at a time, which the service's mutex sees to. go-webdav and
  net/http are taken as `ServeContent` and `PROPFIND` use a file system.
- `Serving`: go-fuse and the kernel are taken as the mount uses them; an unmount is refused while a file is
  open.

Not modelled, and why. The bit reader, the Huffman, LZ and PPM decoders and the virtual machine of
`rardecode` turn packed bits into symbols: functions on data without an order of events; `DecodeWindow`
takes their symbols as given. The 7z adapter hands a merger to a library outside of the repository, and no
nzb reaches it with a 7z archive: the name of a group loses the dot of `.7z` with its number
(`NzbFiles!Is7z`). The nntp client is a library; the loss of a connection is the failure of an article. The
configuration and profiling are values and set-up. The folder blackhole, seekahead, the other mergers, the
hooked and simple resources, `ReaderAt`, `ReadSeekerBatchedAt` and the folder store have no user in the
program.

## 6. Seen in the code and not checked

The first four contradict a comment. The model has them, and the properties of section 3 are stated around
them, each by the one condition that lets it happen. Of the others no comment, assertion or test says otherwise.

- `FullCacheResource.go:204`: a copy or a rename that fails after a part of the article was read lets the next Read go on
  with the same underlying reader and index what is left, or nothing, as the segment, against "FullCacheResource
  caches underlying Record by fully reading its content into cache" (`:18`). Hence `Unfailing`.
- `FullCacheResource.go:208-212`: "Free resources, we wont need it anymore", but a reader whose item is evicted after it
  gave up its article, for instance by an eviction that its own set started, fills the cache from nil at its next Read,
  and panics (`SegmentCache!Panic`). `GivesUpOnlyCached` says that it takes such an eviction.
- `AdaptiveReadaheadCache.go:284`: "Immediately commit the result (even if n==0) so that the cache unblocks waiting
  reads". A commit of 0 bytes wakes the Read, which finds the buffer empty and waits again
  (`CircularBuffer.go:209-211`), while the readahead ends: for ever, at the end of the file, after an error, and where a
  merger returns `(0, nil)` at a segment that is exhausted (`RaEOF`, `RaError`, `RaNothing`).
- `RarFileResource.go:90`: `GetRarFiles` turns for ever on an archive whose first entry is a directory. Its `AddNzb` does
  not return, the scan keeps the mutex of the watcher, and no later file is given to the service, against
  "FolderWatcher notifies listeners about new files in directory" (`folderWatcher.go:20`): `SomeStuck`.
- `cache.go:158`, `:189-190`: an eviction that fails (an item above `MaxSize`, a file that cannot be
  removed) between a successful rename and its test leaves a file outside the index until the next start;
  one that succeeds after a rename that failed leaves an indexed item without a file.
- `cache.go:170`: whether a temporary file is removed after a failure depends on the order of deferred
  function and goroutine.
- `FullCacheResource.go:165`: a Seek from the end may use a size cached from a hint.
- `CircularBuffer.go:375`: after a Read across the end `readPos` is beyond the slice until the next Read,
  and the readahead goroutine panics on a slice expression (`RaGrowPanics`, `RaExposePanics`).
- `AdaptiveReadaheadCache.go:166`: a Read that begins before `readaheadRunning` is cleared waits for ever.
- `AdaptiveParallelMergerResource.go`: a forward Seek to exactly the end of a segment (`:481`), or past the
  end, changes nothing; `:646-669` a Seek from the end after the end leaves `readerByteIndex` at 0; `:125-147`
  the deferred reset skips late responses; `:258` a slice expression panics when a failed fill reports
  more bytes than were asked for (`FullCacheResource.go:206`), which `RespondPanics` models; a Read at the
  end returns `(0, nil)`; the `break` at `:211-213` leaves its `select` only.
- `RarFileResource.go:197`: a Seek back forgets the password, so that an encrypted file cannot be read
  after it; where it fails, `rarReader` is nil and the next Read panics; `GetRarFiles(1)` finds the first file
  only.
- `reader.go:428`: a reader whose `Next` failed reports the end of the file. `decrypt_reader.go:87`: a
  read that fails within a block loses the part of it that was read. `archive15.go:358-385`: so does one
  that fails between the salt of an encrypted header and the header: a retry reads a new salt first.
- `decode_reader.go:108-143`, `:151`, `:161`: the three cases of `lost` in `DecodeWindow`.
- `group.go:19-25`: archives whose volumes differ in a number only (`se101`, `se102`) are taken for one, and
  `.7z` loses its dot. `nzbFileRecordFactory.go:178`: the first group of a
  file is used, although an empty one is passed as plausible next to another (`plausabilityChecks.go:73`).
- `nzbService.go:144`, `:159`: an nzb whose build failed stays registered and is refused afterwards.
  `:206-207`: two files of one nzb may come to one path; webdav keeps the first, the mount the last.
- `checker.go`: a file that ends before the bytes asked for is healthy.
- `folderWatcher.go:67`: `watcher.Errors` is never read. `parser.go:72`: `Files[0]` of an nzb without files.
- `filesystem.go:258`: a recursive `RLock` (`StuckOnlyByDeepList`); `:139`: `ensurePath` walks through a file
  that has the name of a folder. `fs.go:123`: a file from before 1970 is listed in the mount and cannot be
  looked up; `:230`: inodes are not persistent; a file has no `Release`, so that its reader is never closed.
  `readSeekerAt.go:31`: short reads. `webdav/setup.go:57`: the shutdown context derives from the cancelled
  one, and requests are not waited for.

## 7. Plan

Order: first what can lose or corrupt data, then what decides which files exist, then the edges.

1. *Done*: the modules of section 2, their runs, and the theorems of section 4.
2. The merger as a `SeqFile` (`pos <- index`) where no Read fails, from `CopyCorrect` and `AlignedCorrect`.
3. Safety of the parts section 5 leaves out, above all mergers of mergers (7z volumes).
