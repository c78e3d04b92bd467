---------------------------- MODULE SegmentCache ----------------------------
(***************************************************************************)
(* pkg/resource/fullcacheresource over pkg/resource/nzbpostresource: the    *)
(* readers of the segments (articles) of a file, which fill the disk cache  *)
(* with a whole segment on the first Read and serve every Read from it.     *)
(*                                                                         *)
(* A reader is a caller of DiskCache. A Read holds the mutex of its key     *)
(* from the look-up to the last byte; mutexMap is shared by all resources.  *)
(* The key of a segment is its message id; all are MaxLength chunks long.   *)
(***************************************************************************)
EXTENDS DiskCache

CONSTANTS
  Hint,      \* NzbPostResource.SizeHint before the article was loaded
  HintExact, \* NzbPostResource.SizeHintExact then
  Crashes    \* may the process crash?

ASSUME SegmentAssumption ==
  /\ Hint \in Nat /\ HintExact \in BOOLEAN /\ Crashes \in BOOLEAN
  /\ Lengths = 0 .. MaxLength /\ MaxLength > 0

VARIABLES
  keyLock,    \* mutexMap: the reader that holds the mutex of a key, or Free
  at,         \* where a reader is
  segment,    \* the key of the segment it was opened on
  index,      \* FullCacheResourceReader.index
  source,     \* chunks its underlyingReader has left, NoSource once it is nil
  seekEnd,    \* is its Read part of a Seek from the end?
  cachedSize, \* FullCacheResource.cachedSize of a key, -1 if unknown
  accurate,   \* cachedSizeAccurate of a key, "unknown" if not cached
  hint,       \* SizeHint and SizeHintExact of a key
  served      \* history: the keys of which a Read was served since the start

sizeVars == <<cachedSize, accurate, hint, served>>
readVars == <<segment, index, source, seekEnd>>
segVars  == <<keyLock, at, readVars, sizeVars>>
allVars  == <<vars, segVars>>

-----------------------------------------------------------------------------
NoSource == -1

GotoRead(r, from, to) ==
  /\ life = "up"
  /\ at[r] = from
  /\ at' = [at EXCEPT ![r] = to]

(* Faulty: the mutex of the key is not released. *)
LeaveReadLocked(r) ==
  /\ at' = [at EXCEPT ![r] = "open"]
  /\ seekEnd' = [seekEnd EXCEPT ![r] = FALSE]
  /\ UNCHANGED keyLock

(* Read returns, with or without an error, and the deferred Unlock runs. *)
LeaveRead(r) ==
  /\ at' = [at EXCEPT ![r] = "open"]
  /\ keyLock' = [keyLock EXCEPT ![segment[r]] = Free]
  /\ seekEnd' = [seekEnd EXCEPT ![r] = FALSE]

(* IsSizeAccurate and Size look into the cache before the article's hint.   *)
Accurate(k) ==
  IF accurate[k] # "unknown" THEN accurate[k] = "yes" ELSE k \in indexed \/ hint[k].exact

KnownSize(k) ==
  IF cachedSize[k] >= 0 THEN cachedSize[k] ELSE IF k \in indexed THEN size[k] ELSE hint[k].size

(* What Size returns after IsSizeAccurate, which may have found the item.   *)
EndSize(k) == IF accurate[k] = "unknown" /\ k \in indexed THEN size[k] ELSE KnownSize(k)

-----------------------------------------------------------------------------
(* Open, Close, Size, IsSizeAccurate, Seek *)

Open(r, k) ==
  /\ GotoRead(r, "closed", "open")
  /\ segment' = [segment EXCEPT ![r] = k]
  /\ index' = [index EXCEPT ![r] = 0]
  /\ source' = [source EXCEPT ![r] = MaxLength]
  /\ UNCHANGED <<vars, keyLock, seekEnd, sizeVars>>

CloseReader(r) ==
  /\ GotoRead(r, "open", "closed")
  /\ segment' = [segment EXCEPT ![r] = NoKey]
  /\ index' = [index EXCEPT ![r] = 0]
  /\ source' = [source EXCEPT ![r] = NoSource]
  /\ UNCHANGED <<vars, keyLock, seekEnd, sizeVars>>

(* A size found in the cache is accurate; one from the article is a hint.   *)
Size(k) ==
  /\ life = "up" /\ keyLock[k] = Free /\ mu = Free
  /\ cachedSize' = [cachedSize EXCEPT ![k] = KnownSize(k)]
  /\ accurate' = IF cachedSize[k] < 0 /\ k \in indexed
                 THEN [accurate EXCEPT ![k] = "yes"] ELSE accurate
  /\ UNCHANGED <<vars, keyLock, at, readVars, hint, served>>

IsSizeAccurate(k) ==
  /\ life = "up" /\ keyLock[k] = Free /\ mu = Free
  /\ accurate' = [accurate EXCEPT ![k] = IF Accurate(k) THEN "yes" ELSE "no"]
  /\ cachedSize' = IF accurate[k] = "unknown" /\ k \in indexed
                   THEN [cachedSize EXCEPT ![k] = size[k]] ELSE cachedSize
  /\ UNCHANGED <<vars, keyLock, at, readVars, hint, served>>

(* Seek from the start, or from where the reader is. *)
Seek(r, i) ==
  /\ life = "up" /\ at[r] = "open"
  /\ index' = [index EXCEPT ![r] = i]
  /\ UNCHANGED <<vars, keyLock, at, segment, source, seekEnd, sizeVars>>

(* Seek to the end: with an accurate size at once, else after a Read.       *)
SeekEnd(r) ==
  LET k == segment[r] IN
  /\ life = "up" /\ at[r] = "open" /\ keyLock[k] = Free /\ mu = Free
  /\ Accurate(k)
  /\ index' = [index EXCEPT ![r] = EndSize(k)]
  /\ accurate' = [accurate EXCEPT ![k] = "yes"]
  /\ cachedSize' = [cachedSize EXCEPT ![k] = EndSize(k)]
  /\ UNCHANGED <<vars, keyLock, at, segment, source, seekEnd, hint, served>>

SeekEndReads(r) ==
  LET k == segment[r] IN
  /\ GotoRead(r, "open", "begin") /\ keyLock[k] = Free /\ mu = Free
  /\ ~Accurate(k)
  /\ accurate' = [accurate EXCEPT ![k] = "no"]
  /\ seekEnd' = [seekEnd EXCEPT ![r] = TRUE]
  /\ UNCHANGED <<vars, keyLock, segment, index, source, cachedSize, hint, served>>

-----------------------------------------------------------------------------
(* Read *)

PastEnd(r) == cachedSize[segment[r]] > 0 /\ index[r] >= cachedSize[segment[r]]

(* The test before the mutex is taken: io.EOF, also for the Seek around it. *)
ReadEOF(r) ==
  /\ life = "up" /\ at[r] \in {"open", "begin"} /\ PastEnd(r)
  /\ at' = [at EXCEPT ![r] = "open"]
  /\ seekEnd' = [seekEnd EXCEPT ![r] = FALSE]
  /\ UNCHANGED <<vars, keyLock, segment, index, source, sizeVars>>

ReadBegin(r) ==
  /\ life = "up" /\ at[r] \in {"open", "begin"} /\ ~PastEnd(r)
  /\ at' = [at EXCEPT ![r] = "locking"]
  /\ UNCHANGED <<vars, keyLock, readVars, sizeVars>>

(* Faulty: the mutex of another resource with the same key is not the same. *)
ReadLockOwn(r) ==
  /\ GotoRead(r, "locking", "lookup")
  /\ keyLock' = [keyLock EXCEPT ![segment[r]] = r]
  /\ UNCHANGED <<vars, readVars, sizeVars>>

ReadLock(r) ==
  /\ GotoRead(r, "locking", "lookup")
  /\ keyLock[segment[r]] = Free
  /\ keyLock' = [keyLock EXCEPT ![segment[r]] = r]
  /\ UNCHANGED <<vars, readVars, sizeVars>>

(* GetWithReader finds the item, before or after it was filled. *)
ReadHit(r) ==
  /\ at[r] \in {"lookup", "regain"}
  /\ GetBegin(r, segment[r])
  /\ at' = [at EXCEPT ![r] = "get"]
  /\ UNCHANGED <<keyLock, readVars, sizeVars>>

(* GetWithReader does not find it: ErrItemNotFound. *)
ReadMiss(r) ==
  /\ GotoRead(r, "lookup", "miss") /\ mu = Free
  /\ segment[r] \notin indexed
  /\ UNCHANGED <<vars, keyLock, readVars, sizeVars>>

(* What the process keeps in memory about segments and readers is lost.      *)
LoseReaders ==
  /\ keyLock' = [k \in Keys |-> Free]
  /\ at' = [r \in Callers |-> "closed"]
  /\ segment' = [r \in Callers |-> NoKey]
  /\ index' = [r \in Callers |-> 0]
  /\ source' = [r \in Callers |-> NoSource]
  /\ seekEnd' = [r \in Callers |-> FALSE]
  /\ cachedSize' = [k \in Keys |-> -1]
  /\ accurate' = [k \in Keys |-> "unknown"]
  /\ hint' = [k \in Keys |-> [size |-> Hint, exact |-> HintExact]]
  /\ served' = {}

(* The Read of a nil underlyingReader: SetWithReader panics, in a goroutine  *)
(* of the merger that nothing recovers, and the process ends.                *)
Panics(r) == at[r] = "miss" /\ source[r] = NoSource

Panic(r) == Panics(r) /\ Crash /\ LoseReaders

FillBegin(r) ==
  /\ at[r] = "miss" /\ source[r] # NoSource
  /\ SetBegin(r, segment[r], source[r])
  /\ at' = [at EXCEPT ![r] = "fill"]
  /\ UNCHANGED <<keyLock, readVars, sizeVars>>

(* loadPostFromServer, on the first Read of a fresh underlyingReader, learns *)
(* the size and corrects a wrong hint.                                       *)
Load(k) ==
  hint' = IF hint[k].size # MaxLength
          THEN [hint EXCEPT ![k] = [size |-> MaxLength, exact |-> TRUE]] ELSE hint

ReadSource(r) ==
  /\ source' = [source EXCEPT ![r] = @ - 1]
  /\ IF source[r] = MaxLength THEN Load(segment[r]) ELSE UNCHANGED hint

FillChunk(r) ==
  /\ SetChunk(r)
  /\ ReadSource(r)
  /\ UNCHANGED <<keyLock, at, segment, index, seekEnd, cachedSize, accurate, served>>

FillStep(r) ==
  /\ SetSync(r) \/ SetRename(r) \/ SetRenamed(r)
  /\ UNCHANGED segVars

(* Faulty: the underlying reader is closed whether the fill succeeds or not. *)
FillFailGivesUp(r) ==
  /\ SetFail(r)
  /\ source' = [source EXCEPT ![r] = NoSource]
  /\ LeaveRead(r)
  /\ UNCHANGED <<segment, index, sizeVars>>

(* SetWithReader fails: the article cannot be loaded, a chunk that was read  *)
(* cannot be written, or the file cannot be synced.                          *)
FillFail(r) ==
  /\ SetFail(r)
  /\ \/ source' = source /\ (source[r] = MaxLength \/ written[r] = want[r])
        /\ UNCHANGED hint
     \/ written[r] < want[r] /\ ReadSource(r)
  /\ LeaveRead(r)
  /\ UNCHANGED <<segment, index, cachedSize, accurate, served>>

FillRenameError(r) ==
  /\ SetRenameError(r)
  /\ LeaveRead(r)
  /\ UNCHANGED <<segment, index, source, sizeVars>>

(* Faulty: the underlying reader is kept, at its end. *)
FillDoneKeepsSource(r) ==
  /\ SetPublish(r)
  /\ at' = [at EXCEPT ![r] = "regain"]
  /\ UNCHANGED <<keyLock, readVars, sizeVars>>

(* SetWithReader succeeds: the underlying reader is closed and forgotten.    *)
FillDone(r) ==
  /\ SetPublish(r)
  /\ at' = [at EXCEPT ![r] = "regain"]
  /\ source' = [source EXCEPT ![r] = NoSource]
  /\ UNCHANGED <<keyLock, segment, index, seekEnd, sizeVars>>

(* The item is gone again before the reader could lock it. *)
RegainFails(r) ==
  /\ life = "up" /\ at[r] = "regain" /\ mu = Free
  /\ segment[r] \notin indexed
  /\ LeaveRead(r)
  /\ UNCHANGED <<vars, segment, index, source, sizeVars>>

OpenItem(r) ==
  /\ GetOpen(r)
  /\ at' = [at EXCEPT ![r] = "serve"]
  /\ UNCHANGED <<keyLock, readVars, sizeVars>>

OpenFails(r) ==
  /\ GetFail(r)
  /\ LeaveRead(r)
  /\ UNCHANGED <<segment, index, source, sizeVars>>

(* Faulty: the size of the resource is not updated on a read. *)
ServeKeepsSize(r) ==
  LET k == segment[r] IN
  /\ at[r] = "serve"
  /\ ReaderClose(r)
  /\ LeaveRead(r)
  /\ served' = served \cup {k}
  /\ index' = [index EXCEPT ![r] =
       IF @ >= size[k] THEN @ ELSE IF seekEnd[r] THEN KnownSize(k) ELSE @ + 1]
  /\ UNCHANGED <<segment, source, cachedSize, accurate, hint>>

(* One chunk is read from the item and the item's size becomes the size of   *)
(* the resource. A Seek from the end takes that size for its position.       *)
Serve(r) ==
  LET k == segment[r] IN
  /\ at[r] = "serve"
  /\ ReaderClose(r)
  /\ LeaveRead(r)
  /\ cachedSize' = [cachedSize EXCEPT ![k] = size[k]]
  /\ accurate' = [accurate EXCEPT ![k] = "yes"]
  /\ served' = served \cup {k}
  /\ index' = [index EXCEPT ![r] =
       IF @ >= size[k] THEN @ ELSE IF seekEnd[r] THEN size[k] ELSE @ + 1]
  /\ UNCHANGED <<segment, source, hint>>

-----------------------------------------------------------------------------
SegInit ==
  /\ Init
  /\ keyLock = [k \in Keys |-> Free]
  /\ at = [r \in Callers |-> "closed"]
  /\ segment = [r \in Callers |-> NoKey]
  /\ index = [r \in Callers |-> 0]
  /\ source = [r \in Callers |-> NoSource]
  /\ seekEnd = [r \in Callers |-> FALSE]
  /\ cachedSize = [k \in Keys |-> -1]
  /\ accurate = [k \in Keys |-> "unknown"]
  /\ hint = [k \in Keys |-> [size |-> Hint, exact |-> HintExact]]
  /\ served = {}

SegCrash == Crashes /\ Crash /\ LoseReaders

ReadStep(r) ==
  \/ ReadLock(r) \/ ReadHit(r) \/ ReadMiss(r) \/ Panic(r)
  \/ FillBegin(r) \/ FillChunk(r) \/ FillStep(r) \/ FillFail(r) \/ FillRenameError(r)
  \/ FillDone(r) \/ RegainFails(r) \/ OpenItem(r) \/ OpenFails(r) \/ Serve(r)

Client(r) ==
  \/ \E k \in Keys : Open(r, k)
  \/ \E i \in 0 .. MaxLength : Seek(r, i)
  \/ CloseReader(r) \/ SeekEnd(r) \/ SeekEndReads(r) \/ ReadEOF(r) \/ ReadBegin(r)

SegNext ==
  \/ \E r \in Callers : Client(r) \/ ReadStep(r)
  \/ \E k \in Keys : Size(k) \/ IsSizeAccurate(k)
  \/ (\E e \in Evictors : EvictStep(e)) /\ UNCHANGED segVars
  \/ SegCrash
  \/ (LoadExistingItems \/ BootEvict \/ Booted) /\ UNCHANGED segVars

SegSpec == SegInit /\ [][SegNext]_allVars

(* A Read runs on once begun: the mutex of its key, like that of the cache,  *)
(* starves nobody.                                                           *)
SegFairness ==
  /\ \A r \in Callers : SF_allVars(ReadStep(r))
  /\ \A e \in Evictors : SF_allVars(EvictStep(e) /\ UNCHANGED segVars)

FairSegSpec == SegSpec /\ SegFairness

-----------------------------------------------------------------------------
(* Properties *)

(* The mutex per key gives the disk cache the callers its files need: when a *)
(* Read is about to fill an item, nobody fills it and it is not indexed.     *)
CallersAreExclusive == \A r \in Callers : at[r] = "miss" => MaySet(r, segment[r])

(* A Read is served from the whole segment, whoever filled the cache, and    *)
(* whatever was evicted, refilled or found after a restart in between.       *)
ServesWholeSegment == \A r \in Callers : at[r] = "serve" => size[segment[r]] = MaxLength

(* Once a Read of a segment was served, its size is known, whatever was       *)
(* cached before: a hint that is too small (Size), kept beside the word of   *)
(* the article that its hint is exact by now (IsSizeAccurate). No Read of    *)
(* any reader ends early then, though it looks at the size without the       *)
(* mutex, and a Seek from the end goes to the end, whatever was evicted and  *)
(* filled again since. (Before, a hint that is too small ends a Read early.) *)
SizeKnownOnceServed ==
  [][\A r \in Callers : segment[r] \in served =>
       /\ ReadEOF(r) => index[r] >= MaxLength
       /\ SeekEnd(r) => index'[r] = MaxLength]_allVars

GivesUp(r) == source[r] # NoSource /\ source'[r] = NoSource /\ at'[r] # "closed"

Loses(r) == source[r] = NoSource /\ segment[r] \in indexed \ indexed'

(* "Free resources, we wont need it anymore" (FullCacheResource.go:208): a    *)
(* reader gives up its article only once the segment is in the cache, with   *)
(* whatever fails on the way; and nothing but an eviction takes the segment  *)
(* from the cache then, not the fill of another reader that fails. (After an *)
(* eviction its next Read panics.)                                           *)
GivesUpOnlyCached ==
  [][\A r \in Callers : life' = "up" =>
       /\ GivesUp(r) => segment[r] \in indexed'
       /\ Loses(r) => \E e \in Evictors : Evicting(e)]_allVars

(* Every Read returns, or ends the process. *)
ReadReturns == \A r \in Callers : at[r] = "locking" ~> at[r] \in {"open", "closed"}

=============================================================================
