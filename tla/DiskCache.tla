------------------------------ MODULE DiskCache ------------------------------
(***************************************************************************)
(* pkg/diskcache: a cache of whole items, one file per key in CacheDir,     *)
(* filled through a temporary file in TmpCacheDir and indexed in memory.    *)
(*                                                                         *)
(* SetWithReader streams an item into its temporary file, starts one        *)
(* eviction goroutine per chunk, renames the file and indexes it;           *)
(* GetWithReader hands out a reader that holds the item's read lock;        *)
(* an eviction holds the cache mutex for as long as it waits for readers.   *)
(* The process may crash at any step and start again from the directory.    *)
(*                                                                         *)
(* An item's length is counted in chunks (ReadBufferSize bytes).            *)
(***************************************************************************)
EXTENDS Integers, FiniteSets

CONSTANTS
  Keys,       \* names an item may have
  Callers,    \* goroutines that call the cache, one call at a time each
  Evictors,   \* eviction goroutines: bounds those outstanding at one moment
  Lengths,    \* chunks an item's reader may deliver
  MaxLength,  \* a bound on them
  MaxSize,    \* CacheOptions.MaxSize, 0 for no limit
  Faults,     \* file operations that may fail: "copy", "rename", "remove"
  Free,       \* the cache mutex when nobody holds it
  Returned,   \* the owner of an eviction whose Set call has returned
  NoKey

ASSUME CacheAssumption ==
  /\ IsFiniteSet(Keys) /\ IsFiniteSet(Callers)
  /\ MaxLength \in Nat /\ Lengths \subseteq 0 .. MaxLength
  /\ MaxSize \in Nat
  /\ Faults \subseteq {"copy", "rename", "remove"}
  /\ Free \notin Callers \cup Evictors
  /\ Callers \cap Evictors = {}
  /\ Returned \notin Callers
  /\ NoKey \notin Keys

VARIABLES
  life,        \* "up", "boot" (inside NewCache) or "down"
  mu,          \* Cache.mu: Free or the goroutine that holds it over several steps
  indexed,     \* the keys of Cache.items
  size,        \* CacheItemHeader.Size of an indexed key, 0 otherwise
  older,       \* <<j, k>>: the ModTime of item j is before that of item k
  currentSize, \* Cache.currentSize
  disk,        \* length of the file of a key in CacheDir, or NoFile
  torn,        \* the keys whose file in CacheDir lacks part of its content
  tmp,         \* length of the file of a key in TmpCacheDir, or NoFile
  synced,      \* the keys whose temporary file has reached the disk
  pc,          \* where a caller is in its call
  key,         \* the key of its call
  want,        \* what the reader given to its SetWithReader call delivers
  written,     \* totalWritten (and totalN) of its SetWithReader call
  err,         \* the variable err that the call shares with its evictions
  epc,         \* where an eviction goroutine is
  need,        \* the requiredSpace it was started with
  owner,       \* the Set call whose err it assigns, or Returned
  health       \* history: "harmed" when a rename or an eviction has failed since the start

indexVars  == <<indexed, size, older, currentSize>>
fileVars   == <<disk, torn>>
tmpVars    == <<tmp, synced>>
callVars   == <<pc, key, want, written>>
evictVars  == <<epc, need, owner>>
vars == <<life, mu, indexVars, fileVars, tmpVars, callVars, err, evictVars, health>>

-----------------------------------------------------------------------------
(* Helpers *)

NoFile == -1

SetPhases == {"copy", "rename", "renamed", "publish"}
Setting(c) == pc[c] \in SetPhases

(* The callers that hold the read lock of the item k. *)
Readers(k) == {c \in Callers : pc[c] \in {"get", "reading"} /\ key[c] = k}

(* The chunks of the indexed items, and how many they are. *)
Chunks(sz) == {p \in Keys \X (1 .. MaxLength) : p[2] <= sz[p[1]]}
Total      == Cardinality(Chunks(size))

(* The order of access times without k, and with k the most recent. *)
Forget(k) == {p \in older : k # p[1] /\ k # p[2]}
Touch(k)  == Forget(k) \cup ((indexed \ {k}) \X {k})

(* What EvictLRU may return: an item no other is older than. *)
EvictLRU == {k \in indexed : \A j \in indexed : <<j, k>> \notin older}

(* Faulty: the size of the removed item stays in currentSize. *)
RemoveItemUncounted(k) ==
  /\ disk[k] # NoFile
  /\ disk' = [disk EXCEPT ![k] = NoFile]
  /\ torn' = torn \ {k}
  /\ size' = [size EXCEPT ![k] = 0]
  /\ indexed' = indexed \ {k}
  /\ older' = Forget(k)
  /\ UNCHANGED currentSize

(* Faulty: the item leaves the index, its file stays. *)
RemoveItemKeepsFile(k) ==
  /\ disk[k] # NoFile
  /\ currentSize' = currentSize - size[k]
  /\ size' = [size EXCEPT ![k] = 0]
  /\ indexed' = indexed \ {k}
  /\ older' = Forget(k)
  /\ UNCHANGED fileVars

(* removeFile where os.Remove succeeds. *)
RemoveItem(k) ==
  /\ disk[k] # NoFile
  /\ disk' = [disk EXCEPT ![k] = NoFile]
  /\ torn' = torn \ {k}
  /\ currentSize' = currentSize - size[k]
  /\ size' = [size EXCEPT ![k] = 0]
  /\ indexed' = indexed \ {k}
  /\ older' = Forget(k)

(* os.Remove fails on a file that is gone, and on a faulty disk. *)
RemoveFails(k) == disk[k] = NoFile \/ "remove" \in Faults

(* The evictions of a call that returns assign a variable nobody reads. *)
Detach(c) == owner' = [e \in Evictors |-> IF owner[e] = c THEN Returned ELSE owner[e]]

Return(c) ==
  /\ pc' = [pc EXCEPT ![c] = "idle"]
  /\ key' = [key EXCEPT ![c] = NoKey]
  /\ want' = [want EXCEPT ![c] = 0]
  /\ written' = [written EXCEPT ![c] = 0]
  /\ Detach(c)

(* What the deferred function of SetWithReader does to the temporary file. *)
CleanUp(c) ==
  IF err[c] # "nil"
  THEN /\ tmp' = [tmp EXCEPT ![key[c]] = NoFile]
       /\ synced' = synced \ {key[c]}
  ELSE UNCHANGED tmpVars

Goto(c, from, to) ==
  /\ life = "up"
  /\ pc[c] = from
  /\ pc' = [pc EXCEPT ![c] = to]

-----------------------------------------------------------------------------
(* SetWithReader *)

(* Faulty: the caller does not look for the item under its mutex. *)
MaySetUnchecked(c, k) == \A d \in Callers : Setting(d) => key[d] # k

(* Callers fill one item at a time with one call, and after a miss, as        *)
(* FullCacheResource does under its mutex per key.                           *)
MaySet(c, k) ==
  /\ \A d \in Callers : Setting(d) => key[d] # k
  /\ k \notin indexed

(* os.Create. *)
SetBegin(c, k, n) ==
  /\ Goto(c, "idle", "copy")
  /\ MaySet(c, k)
  /\ key' = [key EXCEPT ![c] = k]
  /\ want' = [want EXCEPT ![c] = n]
  /\ written' = [written EXCEPT ![c] = 0]
  /\ err' = [err EXCEPT ![c] = "nil"]
  /\ tmp' = [tmp EXCEPT ![k] = 0]
  /\ synced' = synced \ {k}
  /\ UNCHANGED <<life, health, mu, indexVars, fileVars, evictVars>>

(* Faulty: the goroutine asks for one chunk too much. *)
StartEvictionOffByOne(c, totalN) ==
  \E e \in Evictors :
    /\ epc[e] = "idle"
    /\ epc' = [epc EXCEPT ![e] = "waiting"]
    /\ need' = [need EXCEPT ![e] = totalN + 1]
    /\ owner' = [owner EXCEPT ![e] = c]

(* The goroutine that makes room for all the chunks read so far. *)
StartEviction(c, totalN) ==
  \E e \in Evictors :
    /\ epc[e] = "idle"
    /\ epc' = [epc EXCEPT ![e] = "waiting"]
    /\ need' = [need EXCEPT ![e] = totalN]
    /\ owner' = [owner EXCEPT ![e] = c]

(* Faulty: room is made for the chunk, not for all that was read. *)
SetChunkOnly(c) ==
  /\ Goto(c, "copy", "copy")
  /\ written[c] < want[c]
  /\ IF MaxSize > 0 THEN StartEviction(c, 1) ELSE UNCHANGED evictVars
  /\ written' = [written EXCEPT ![c] = @ + 1]
  /\ tmp' = [tmp EXCEPT ![key[c]] = written[c] + 1]
  /\ UNCHANGED <<life, health, mu, indexVars, fileVars, synced, key, want, err>>

(* One chunk is read and written. *)
SetChunk(c) ==
  /\ Goto(c, "copy", "copy")
  /\ written[c] < want[c]
  /\ IF MaxSize > 0 THEN StartEviction(c, written[c] + 1) ELSE UNCHANGED evictVars
  /\ written' = [written EXCEPT ![c] = @ + 1]
  /\ tmp' = [tmp EXCEPT ![key[c]] = written[c] + 1]
  /\ UNCHANGED <<life, health, mu, indexVars, fileVars, synced, key, want, err>>

(* A read, a write or the final Sync fails, and the call returns. *)
SetFail(c) ==
  /\ life = "up" /\ pc[c] = "copy" /\ "copy" \in Faults
  /\ Return(c)
  /\ CleanUp(c)
  /\ UNCHANGED <<life, health, mu, indexVars, fileVars, err, epc, need>>

(* Faulty: the file is not synced. *)
SetNoSync(c) ==
  /\ Goto(c, "copy", "rename")
  /\ written[c] = want[c]
  /\ UNCHANGED <<life, health, mu, indexVars, fileVars, tmpVars, key, want, written, err, evictVars>>

(* io.EOF ends the copy, and the file is synced. *)
SetSync(c) ==
  /\ Goto(c, "copy", "rename")
  /\ written[c] = want[c]
  /\ synced' = synced \cup {key[c]}
  /\ UNCHANGED <<life, health, mu, indexVars, fileVars, tmp, key, want, written, err, evictVars>>

(* os.Rename, and the assignment of its result to err. *)
SetRename(c) ==
  /\ Goto(c, "rename", "renamed")
  /\ \/ /\ disk' = [disk EXCEPT ![key[c]] = tmp[key[c]]]
        /\ torn' = IF tmp[key[c]] = want[c] /\ key[c] \in synced
                   THEN torn \ {key[c]} ELSE torn \cup {key[c]}
        /\ tmp' = [tmp EXCEPT ![key[c]] = NoFile]
        /\ synced' = synced \ {key[c]}
        /\ err' = [err EXCEPT ![c] = "nil"]
        /\ UNCHANGED health
     \/ /\ "rename" \in Faults
        /\ err' = [err EXCEPT ![c] = "io"]
        /\ health' = "harmed"
        /\ UNCHANGED <<fileVars, tmpVars>>
  /\ UNCHANGED <<life, mu, indexVars, key, want, written, evictVars>>

(* The test of err, which an eviction may have assigned since the rename. *)
SetRenamed(c) ==
  /\ Goto(c, "renamed", "publish")
  /\ err[c] = "nil"
  /\ UNCHANGED <<life, health, mu, indexVars, fileVars, tmpVars, key, want, written, err, evictVars>>

SetRenameError(c) ==
  /\ life = "up" /\ pc[c] = "renamed" /\ err[c] # "nil"
  /\ Return(c)
  /\ CleanUp(c)
  /\ UNCHANGED <<life, health, mu, indexVars, fileVars, err, epc, need>>

(* The header is written and the call returns. *)
SetPublish(c) ==
  /\ life = "up" /\ pc[c] = "publish" /\ mu = Free
  /\ older' = IF key[c] \in indexed THEN older ELSE Touch(key[c])
  /\ indexed' = indexed \cup {key[c]}
  /\ size' = [size EXCEPT ![key[c]] = written[c]]
  /\ currentSize' = currentSize + written[c]
  /\ Return(c)
  /\ CleanUp(c)
  /\ UNCHANGED <<life, health, mu, fileVars, err, epc, need>>

-----------------------------------------------------------------------------
(* maxSizeEvict, in the goroutines SetWithReader starts *)

EvictStart(e) ==
  /\ life = "up" /\ epc[e] = "waiting" /\ mu = Free
  /\ mu' = e
  /\ epc' = [epc EXCEPT ![e] = "running"]
  /\ UNCHANGED <<life, health, indexVars, fileVars, tmpVars, callVars, err, need, owner>>

Evicting(e) == life = "up" /\ epc[e] = "running"
LacksSpace(e) == MaxSize - currentSize < need[e]

(* Faulty: the goroutine leaves the cache locked. *)
EvictReturnLocked(e, result) ==
  /\ err' = IF owner[e] = Returned THEN err ELSE [err EXCEPT ![owner[e]] = result]
  /\ epc' = [epc EXCEPT ![e] = "idle"]
  /\ need' = [need EXCEPT ![e] = 0]
  /\ owner' = [owner EXCEPT ![e] = Returned]
  /\ health' = IF result = "nil" THEN health ELSE "harmed"
  /\ UNCHANGED <<life, mu, tmpVars, callVars>>

(* The goroutine assigns the err of its Set call and unlocks the cache. *)
EvictReturn(e, result) ==
  /\ mu' = Free
  /\ err' = IF owner[e] = Returned THEN err ELSE [err EXCEPT ![owner[e]] = result]
  /\ epc' = [epc EXCEPT ![e] = "idle"]
  /\ need' = [need EXCEPT ![e] = 0]
  /\ owner' = [owner EXCEPT ![e] = Returned]
  /\ health' = IF result = "nil" THEN health ELSE "harmed"
  /\ UNCHANGED <<life, tmpVars, callVars>>

(* Faulty: the item is not locked first. *)
EvictItemUnlocked(e) ==
  /\ Evicting(e) /\ LacksSpace(e)
  /\ \E k \in EvictLRU : RemoveItem(k)
  /\ UNCHANGED <<life, health, mu, tmpVars, callVars, err, evictVars>>

(* The item is locked, that is, its readers are gone; it is removed. *)
EvictItem(e) ==
  /\ Evicting(e) /\ LacksSpace(e)
  /\ \E k \in EvictLRU : Readers(k) = {} /\ RemoveItem(k)
  /\ UNCHANGED <<life, health, mu, tmpVars, callVars, err, evictVars>>

EvictFails(e) ==
  /\ Evicting(e) /\ LacksSpace(e)
  /\ \E k \in EvictLRU : Readers(k) = {} /\ RemoveFails(k)
  /\ EvictReturn(e, "io")
  /\ UNCHANGED <<indexVars, fileVars>>

EvictNoSpace(e) ==
  /\ Evicting(e) /\ LacksSpace(e) /\ indexed = {}
  /\ EvictReturn(e, "space")
  /\ UNCHANGED <<indexVars, fileVars>>

EvictDone(e) ==
  /\ Evicting(e) /\ ~LacksSpace(e)
  /\ EvictReturn(e, "nil")
  /\ UNCHANGED <<indexVars, fileVars>>

-----------------------------------------------------------------------------
(* Remove *)

RemoveBegin(c, k) ==
  /\ Goto(c, "idle", "remove") /\ mu = Free
  /\ k \in indexed
  /\ mu' = c
  /\ key' = [key EXCEPT ![c] = k]
  /\ UNCHANGED <<life, health, indexVars, fileVars, tmpVars, want, written, err, evictVars>>

(* The readers of the item are gone. *)
RemoveEnd(c) ==
  /\ life = "up" /\ pc[c] = "remove" /\ Readers(key[c]) = {}
  /\ \/ RemoveItem(key[c])
     \/ RemoveFails(key[c]) /\ UNCHANGED <<indexVars, fileVars>>
  /\ mu' = Free
  /\ Return(c)
  /\ UNCHANGED <<life, health, tmpVars, err, epc, need>>

-----------------------------------------------------------------------------
(* GetWithReader and the reader it returns *)

(* The item is read-locked and becomes the most recent one. *)
GetBegin(c, k) ==
  /\ Goto(c, "idle", "get") /\ mu = Free
  /\ k \in indexed
  /\ key' = [key EXCEPT ![c] = k]
  /\ older' = Touch(k)
  /\ UNCHANGED <<life, health, mu, indexed, size, currentSize, fileVars, tmpVars, want, written,
                 err, evictVars>>

(* os.Chtimes and os.Open. *)
GetOpen(c) ==
  /\ Goto(c, "get", "reading")
  /\ disk[key[c]] # NoFile
  /\ UNCHANGED <<life, health, mu, indexVars, fileVars, tmpVars, key, want, written, err, evictVars>>

GetFail(c) ==
  /\ life = "up" /\ pc[c] = "get" /\ disk[key[c]] = NoFile
  /\ Return(c)
  /\ UNCHANGED <<life, health, mu, indexVars, fileVars, tmpVars, err, epc, need>>

(* CacheItemReader.Close. *)
ReaderClose(c) ==
  /\ life = "up" /\ pc[c] = "reading"
  /\ Return(c)
  /\ UNCHANGED <<life, health, mu, indexVars, fileVars, tmpVars, err, epc, need>>

-----------------------------------------------------------------------------
(* Crash and NewCache *)

(* Everything in memory is lost, and what was never synced may be too. *)
Crash ==
  /\ life # "down"
  /\ life' = "down"
  /\ mu' = Free
  /\ indexed' = {} /\ older' = {} /\ currentSize' = 0
  /\ size' = [k \in Keys |-> 0]
  /\ pc' = [c \in Callers |-> "idle"]
  /\ key' = [c \in Callers |-> NoKey]
  /\ want' = [c \in Callers |-> 0]
  /\ written' = [c \in Callers |-> 0]
  /\ err' = [c \in Callers |-> "nil"]
  /\ epc' = [e \in Evictors |-> "idle"]
  /\ need' = [e \in Evictors |-> 0]
  /\ owner' = [e \in Evictors |-> Returned]
  /\ health' = "sound"
  /\ UNCHANGED <<fileVars, tmpVars>>

(* The orders in which the files' modification times may stand. *)
Orders(S) ==
  {o \in SUBSET (S \X S) :
     /\ \A j, k \in S : j = k \/ (<<j, k>> \in o <=> <<k, j>> \notin o)
     /\ \A i \in S : <<i, i>> \notin o
     /\ \A i, j, k \in S : <<i, j>> \in o /\ <<j, k>> \in o => <<i, k>> \in o}

OnDisk == {k \in Keys : disk[k] # NoFile}

(* NewCache empties TmpCacheDir and indexes every file of CacheDir. *)
LoadExistingItems ==
  /\ life = "down"
  /\ life' = "boot"
  /\ tmp' = [k \in Keys |-> NoFile] /\ synced' = {}
  /\ indexed' = OnDisk
  /\ size' = [k \in Keys |-> IF k \in OnDisk THEN disk[k] ELSE 0]
  /\ currentSize' = Cardinality(Chunks(size'))
  /\ older' \in Orders(OnDisk)
  /\ UNCHANGED <<health, mu, fileVars, callVars, err, evictVars>>

(* The eviction NewCache runs before it returns. *)
BootEvict ==
  /\ life = "boot" /\ MaxSize > 0 /\ currentSize > MaxSize
  /\ \E k \in EvictLRU : RemoveItem(k)
  /\ UNCHANGED <<life, health, mu, tmpVars, callVars, err, evictVars>>

Booted ==
  /\ life = "boot" /\ (MaxSize > 0 => currentSize <= MaxSize)
  /\ life' = "up"
  /\ UNCHANGED <<health, mu, indexVars, fileVars, tmpVars, callVars, err, evictVars>>

-----------------------------------------------------------------------------
(* A first start on an empty directory. *)
Init ==
  /\ life = "up" /\ mu = Free
  /\ indexed = {} /\ older = {} /\ currentSize = 0
  /\ size = [k \in Keys |-> 0]
  /\ disk = [k \in Keys |-> NoFile] /\ torn = {}
  /\ tmp = [k \in Keys |-> NoFile] /\ synced = {}
  /\ pc = [c \in Callers |-> "idle"]
  /\ key = [c \in Callers |-> NoKey]
  /\ want = [c \in Callers |-> 0]
  /\ written = [c \in Callers |-> 0]
  /\ err = [c \in Callers |-> "nil"]
  /\ epc = [e \in Evictors |-> "idle"]
  /\ need = [e \in Evictors |-> 0]
  /\ owner = [e \in Evictors |-> Returned]
  /\ health = "sound"

SetStep(c) == SetChunk(c) \/ SetFail(c) \/ SetSync(c) \/ SetRename(c)
              \/ SetRenamed(c) \/ SetRenameError(c) \/ SetPublish(c)
GetStep(c) == GetOpen(c) \/ GetFail(c) \/ ReaderClose(c)
EvictStep(e) == EvictStart(e) \/ EvictItem(e) \/ EvictFails(e) \/ EvictNoSpace(e) \/ EvictDone(e)

CallerStep(c) == SetStep(c) \/ GetStep(c) \/ RemoveEnd(c)

Start == \E c \in Callers, k \in Keys :
  (\E n \in Lengths : SetBegin(c, k, n)) \/ GetBegin(c, k) \/ RemoveBegin(c, k)

Next ==
  \/ Start
  \/ \E c \in Callers : CallerStep(c)
  \/ \E e \in Evictors : EvictStep(e)
  \/ Crash \/ LoadExistingItems \/ BootEvict \/ Booted

Spec == Init /\ [][Next]_vars

-----------------------------------------------------------------------------
(* Properties *)

TypeOK ==
  /\ life \in {"up", "boot", "down"}
  /\ mu \in {Free} \cup Callers \cup Evictors
  /\ indexed \in SUBSET Keys
  /\ size \in [Keys -> 0 .. MaxLength]
  /\ older \in SUBSET (Keys \X Keys)
  /\ currentSize \in Int
  /\ disk \in [Keys -> NoFile .. MaxLength]
  /\ torn \in SUBSET Keys
  /\ tmp \in [Keys -> NoFile .. MaxLength]
  /\ synced \in SUBSET Keys
  /\ pc \in [Callers -> SetPhases \cup {"idle", "get", "reading", "remove"}]
  /\ key \in [Callers -> Keys \cup {NoKey}]
  /\ \A c \in Callers : pc[c] # "idle" => key[c] \in Keys
  /\ want \in [Callers -> 0 .. MaxLength]
  /\ written \in [Callers -> 0 .. MaxLength]
  /\ err \in [Callers -> {"nil", "space", "io"}]
  /\ epc \in [Evictors -> {"idle", "waiting", "running"}]
  /\ need \in [Evictors -> 0 .. MaxLength]
  /\ owner \in [Evictors -> Callers \cup {Returned}]
  /\ health \in {"sound", "harmed"}

(* currentSize is the sum of the sizes of the indexed items: no order of     *)
(* sets, evictions, removals and restarts makes it drift (cache.go:205, 236).*)
Accounting == currentSize = Total

(* Until a rename or an eviction has failed, every indexed item has its file, *)
(* of the size its header says, although the rename and the update of the    *)
(* index are separate steps.                                                 *)
IndexedHasFile == health = "sound" => \A k \in indexed : disk[k] = size[k]

(* Neither an eviction nor Remove takes the file of an open reader, nor the   *)
(* item of one that GetWithReader has locked but not opened yet.             *)
ReadersProtected ==
  \A c \in Callers :
    /\ pc[c] \in {"get", "reading"} => key[c] \in indexed
    /\ pc[c] = "reading" => disk[key[c]] # NoFile

(* A file under CacheDir holds all its reader delivered, whenever the        *)
(* process stops: what NewCache indexes after a crash is never a part.       *)
NoTornFile == torn = {}

(* Apart from a file whose Set is about to index it, and until a rename or   *)
(* an eviction has failed, the directory holds indexed items only: nothing   *)
(* takes space that currentSize does not count.                              *)
NoOrphan ==
  life = "up" /\ health = "sound" =>
    \A k \in OnDisk \ indexed : \E c \in Callers : pc[c] \in {"renamed", "publish"} /\ key[c] = k

Settled ==
  /\ life = "up"
  /\ \A c \in Callers : ~Setting(c)
  /\ \A e \in Evictors : epc[e] = "idle"

(* The longest item that an eviction can make room for. *)
Fitting == IF MaxLength < MaxSize THEN MaxLength ELSE MaxSize

(* Evictions run beside the copies they make room for, and know nothing of   *)
(* one another: when all is done, and none has failed, the cache may exceed  *)
(* MaxSize, yet by no more than one item for each other caller that was      *)
(* filling one.                                                              *)
SettledBound ==
  MaxSize > 0 /\ Settled /\ health = "sound" => currentSize <= MaxSize + (Cardinality(Callers) - 1) * Fitting

(* Every eviction comes to its end, although it keeps the cache mutex while   *)
(* it waits for readers, and readers need that mutex to open their item.     *)
EvictReturns == \A e \in Evictors : epc[e] = "waiting" ~> epc[e] = "idle"

=============================================================================
