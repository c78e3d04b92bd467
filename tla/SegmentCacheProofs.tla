------------------------- MODULE SegmentCacheProofs -------------------------
(***************************************************************************)
(* Proofs about the two caches of segments, for every value of the constants. *)
(*                                                                         *)
(* DiskCache: its variables keep their types, and, for callers that fill an   *)
(* item after a miss only, the index, the files under CacheDir and            *)
(* currentSize agree (AccountingCorrect), no reader loses its file, and what   *)
(* is in the cache is bounded when no eviction runs (BoundCorrect).           *)
(*                                                                         *)
(* SegmentCache, for any segments, readers and evictions: the mutex per key    *)
(* makes of the readers such callers (ExclusiveCorrect), so that their steps  *)
(* are steps of DiskCache (SegImplementsCache), whose theorems hold for them; *)
(* and, where no file operation fails, a Read is served from the whole        *)
(* segment (WholeCorrect), whose size is known from then on (EndCorrect).     *)
(* Whatever fails, a reader gives up its article with the segment in the      *)
(* cache only (GiveUpCorrect).                                              *)
(***************************************************************************)
EXTENDS SegmentCache, FiniteSetTheorems, TLAPS

-----------------------------------------------------------------------------
(* DiskCache: the number of chunks of the indexed items *)

(* What is counted of the members of a set, one by one: f[s] of each s.       *)
Pile(S, f) == {p \in S \X (1 .. MaxLength) : p[2] <= f[p[1]]}

(* They are finitely many, no more of each member than the bound. *)
LEMMA PileFinite ==
  ASSUME NEW S, IsFiniteSet(S), NEW f
  PROVE  IsFiniteSet(Pile(S, f)) /\ Cardinality(Pile(S, f)) \in Nat
  <1>1. IsFiniteSet(1 .. MaxLength)
    BY FS_Interval, CacheAssumption
  <1>2. IsFiniteSet(S \X (1 .. MaxLength))
    BY <1>1, FS_Product
  <1>3. Pile(S, f) \in SUBSET (S \X (1 .. MaxLength))
    BY DEF Pile
  <1>4. IsFiniteSet(Pile(S, f))
    BY <1>2, <1>3, FS_Subset
  <1>. QED
    BY <1>4, FS_CardinalityType

(* Counting n of a member of which nothing was counted adds n. *)
LEMMA PileAdd ==
  ASSUME NEW S, IsFiniteSet(S), NEW sz \in [S -> 0 .. MaxLength], NEW k \in S, NEW n \in 0 .. MaxLength,
         sz[k] = 0
  PROVE  Cardinality(Pile(S, [sz EXCEPT ![k] = n])) = Cardinality(Pile(S, sz)) + n
  <1> DEFINE new == {k} \X (1 .. n)
  <1>1. MaxLength \in Nat
    BY CacheAssumption
  <1>2. Pile(S, [sz EXCEPT ![k] = n]) = Pile(S, sz) \cup new
    <2>1. ASSUME NEW a \in S, NEW b \in 1 .. MaxLength
          PROVE  b <= [sz EXCEPT ![k] = n][a] <=> b <= sz[a] \/ <<a, b>> \in new
      <3>1. CASE a = k
        BY <1>1, <3>1
      <3>2. CASE a # k
        BY <1>1, <3>2
      <3>. QED BY <3>1, <3>2
    <2>2. new \subseteq S \X (1 .. MaxLength)
      BY <1>1
    <2>3. ASSUME NEW p \in S \X (1 .. MaxLength)
          PROVE  p[2] <= [sz EXCEPT ![k] = n][p[1]] <=> p[2] <= sz[p[1]] \/ p \in new
      <3>1. PICK a \in S, b \in 1 .. MaxLength : p = <<a, b>>
        OBVIOUS
      <3>2. p[1] = a /\ p[2] = b
        BY <3>1
      <3>. QED
        BY <2>1, <3>1, <3>2
    <2> HIDE DEF new
    <2>. QED
      BY <2>2, <2>3 DEF Pile
  <1>3. Pile(S, sz) \cap new = {}
    BY <1>1 DEF Pile
  <1>4. IsFiniteSet({k}) /\ Cardinality({k}) = 1
    BY FS_Singleton
  <1>5. IsFiniteSet(1 .. n) /\ Cardinality(1 .. n) = n
    <2>1. n \in Nat /\ 1 \in Int /\ n \in Int
      BY <1>1
    <2>2. IsFiniteSet(1 .. n) /\ Cardinality(1 .. n) = IF 1 > n THEN 0 ELSE n - 1 + 1
      BY <2>1, FS_Interval, Zenon
    <2>. QED
      BY <2>1, <2>2
  <1>6. IsFiniteSet(new) /\ Cardinality(new) = n
    <2>1. IsFiniteSet(new) /\ Cardinality(new) = Cardinality({k}) * Cardinality(1 .. n)
      BY <1>4, <1>5, FS_Product
    <2>. QED
      BY <1>1, <1>4, <1>5, <2>1
  <1>7. IsFiniteSet(Pile(S, sz)) /\ Cardinality(Pile(S, sz)) \in Nat
    BY PileFinite
  <1>8. Cardinality(Pile(S, sz) \cup new)
          = Cardinality(Pile(S, sz)) + Cardinality(new) - Cardinality(Pile(S, sz) \cap new)
    BY <1>6, <1>7, FS_Union
  <1>9. Cardinality(Pile(S, sz) \cap new) = 0
    BY <1>3, FS_EmptySet
  <1>10. Cardinality(Pile(S, sz) \cup new) = Cardinality(Pile(S, sz)) + n
    <2> HIDE DEF new
    <2>. QED BY <1>1, <1>6, <1>7, <1>8, <1>9
  <1>. QED
    BY <1>2, <1>10, Zenon

(* Counting no more of it takes away what was counted. *)
LEMMA PileRemove ==
  ASSUME NEW S, IsFiniteSet(S), NEW sz \in [S -> 0 .. MaxLength], NEW k \in S
  PROVE  Cardinality(Pile(S, [sz EXCEPT ![k] = 0])) = Cardinality(Pile(S, sz)) - sz[k]
  <1> DEFINE less == [sz EXCEPT ![k] = 0]
  <1>1. MaxLength \in Nat
    BY CacheAssumption
  <1>2. less \in [S -> 0 .. MaxLength] /\ less[k] = 0 /\ sz[k] \in 0 .. MaxLength
    BY <1>1
  <1>3. [less EXCEPT ![k] = sz[k]] = sz
    OBVIOUS
  <1>4. Cardinality(Pile(S, sz)) = Cardinality(Pile(S, less)) + sz[k]
    <2> HIDE DEF less
    <2>. QED BY <1>2, <1>3, PileAdd
  <1>5. Cardinality(Pile(S, less)) \in Nat
    <2> HIDE DEF less
    <2>. QED BY <1>2, PileFinite
  <1>. QED
    BY <1>1, <1>2, <1>4, <1>5

(* The chunks of the items, as they are indexed and removed. *)
LEMMA ChunksPile == \A sz : Chunks(sz) = Pile(Keys, sz)
  BY DEF Chunks, Pile

LEMMA ChunksFinite ==
  ASSUME NEW sz \in [Keys -> 0 .. MaxLength]
  PROVE  IsFiniteSet(Chunks(sz)) /\ Cardinality(Chunks(sz)) \in Nat
  BY ChunksPile, PileFinite, CacheAssumption

LEMMA ChunksAdd ==
  ASSUME NEW sz \in [Keys -> 0 .. MaxLength], NEW k \in Keys, NEW n \in 0 .. MaxLength,
         sz[k] = 0
  PROVE  Cardinality(Chunks([sz EXCEPT ![k] = n])) = Cardinality(Chunks(sz)) + n
  <1>0. IsFiniteSet(Keys) /\ sz \in [Keys -> 0 .. MaxLength] /\ k \in Keys /\ n \in 0 .. MaxLength /\ sz[k] = 0
    BY CacheAssumption
  <1>1. Cardinality(Pile(Keys, [sz EXCEPT ![k] = n])) = Cardinality(Pile(Keys, sz)) + n
    BY <1>0, PileAdd, Zenon
  <1>. QED
    BY <1>1, ChunksPile, Zenon

LEMMA ChunksRemove ==
  ASSUME NEW sz \in [Keys -> 0 .. MaxLength], NEW k \in Keys
  PROVE  Cardinality(Chunks([sz EXCEPT ![k] = 0])) = Cardinality(Chunks(sz)) - sz[k]
  BY ChunksPile, PileRemove, CacheAssumption

(* No item, no chunk. *)
LEMMA ChunksNone == Cardinality(Chunks([k \in Keys |-> 0])) = 0
  <1>1. Chunks([k \in Keys |-> 0]) = {}
    BY CacheAssumption DEF Chunks
  <1>. QED
    BY <1>1, FS_EmptySet

-----------------------------------------------------------------------------
(* Types *)

(* removeFile keeps the types of what it changes. *)
LEMMA RemoveItemType ==
  ASSUME TypeOK, NEW k \in Keys, RemoveItem(k)
  PROVE  /\ indexed' \in SUBSET Keys
         /\ size' \in [Keys -> 0 .. MaxLength]
         /\ older' \in SUBSET (Keys \X Keys)
         /\ currentSize' \in Int
         /\ disk' \in [Keys -> NoFile .. MaxLength]
         /\ torn' \in SUBSET Keys
  BY CacheAssumption DEF RemoveItem, TypeOK, Forget, NoFile

(* So do the assignments of a call that returns. *)
LEMMA ReturnType ==
  ASSUME TypeOK, NEW c \in Callers, Return(c)
  PROVE  /\ pc' \in [Callers -> SetPhases \cup {"idle", "get", "reading", "remove"}]
         /\ key' \in [Callers -> Keys \cup {NoKey}]
         /\ \A d \in Callers : pc'[d] # "idle" => key'[d] \in Keys
         /\ want' \in [Callers -> 0 .. MaxLength]
         /\ written' \in [Callers -> 0 .. MaxLength]
         /\ owner' \in [Evictors -> Callers \cup {Returned}]
  BY CacheAssumption DEF Return, Detach, TypeOK

(* And those of its deferred function. *)
LEMMA CleanUpType ==
  ASSUME TypeOK, NEW c \in Callers, CleanUp(c)
  PROVE  tmp' \in [Keys -> NoFile .. MaxLength] /\ synced' \in SUBSET Keys
  BY CacheAssumption DEF CleanUp, TypeOK, tmpVars, NoFile

(* And those of an eviction that ends. *)
LEMMA EvictReturnType ==
  ASSUME TypeOK, NEW e \in Evictors, NEW result \in {"nil", "space", "io"},
         EvictReturn(e, result)
  PROVE  /\ mu' = Free
         /\ err' \in [Callers -> {"nil", "space", "io"}]
         /\ epc' \in [Evictors -> {"idle", "waiting", "running"}]
         /\ need' \in [Evictors -> 0 .. MaxLength]
         /\ owner' \in [Evictors -> Callers \cup {Returned}]
         /\ health' \in {"sound", "harmed"}
         /\ UNCHANGED <<life, tmpVars, callVars>>
  BY CacheAssumption DEF EvictReturn, TypeOK

(* Every step keeps the types, whatever the callers do. *)
LEMMA TypeStep ==
  ASSUME TypeOK, [Next]_vars
  PROVE  TypeOK'
  <1> USE CacheAssumption
  <1> USE DEF Goto, indexVars, fileVars, tmpVars, callVars, evictVars, SetPhases
  <1>1. ASSUME NEW c \in Callers, NEW k \in Keys, NEW n \in Lengths, SetBegin(c, k, n)
        PROVE  TypeOK'
    BY <1>1 DEF SetBegin, TypeOK, NoFile
  <1>2. ASSUME NEW c \in Callers, NEW k \in Keys, GetBegin(c, k)
        PROVE  TypeOK'
    BY <1>2 DEF GetBegin, TypeOK, Touch, Forget
  <1>3. ASSUME NEW c \in Callers, NEW k \in Keys, RemoveBegin(c, k)
        PROVE  TypeOK'
    BY <1>3 DEF RemoveBegin, TypeOK
  <1>4. ASSUME NEW c \in Callers, SetChunk(c)
        PROVE  TypeOK'
    BY <1>4 DEF SetChunk, StartEviction, TypeOK, NoFile
  <1>5. ASSUME NEW c \in Callers, SetFail(c)
        PROVE  TypeOK'
    <2>1. Return(c) /\ CleanUp(c)
      BY <1>5 DEF SetFail
    <2>. QED
      BY <1>5, <2>1, ReturnType, CleanUpType DEF SetFail, TypeOK
  <1>6. ASSUME NEW c \in Callers, SetSync(c)
        PROVE  TypeOK'
    BY <1>6 DEF SetSync, TypeOK
  <1>7. ASSUME NEW c \in Callers, SetRename(c)
        PROVE  TypeOK'
    BY <1>7 DEF SetRename, TypeOK, NoFile
  <1>8. ASSUME NEW c \in Callers, SetRenamed(c)
        PROVE  TypeOK'
    BY <1>8 DEF SetRenamed, TypeOK
  <1>9. ASSUME NEW c \in Callers, SetRenameError(c)
        PROVE  TypeOK'
    <2>1. Return(c) /\ CleanUp(c)
      BY <1>9 DEF SetRenameError
    <2>. QED
      BY <1>9, <2>1, ReturnType, CleanUpType DEF SetRenameError, TypeOK
  <1>10. ASSUME NEW c \in Callers, SetPublish(c)
         PROVE  TypeOK'
    <2>1. Return(c) /\ CleanUp(c)
      BY <1>10 DEF SetPublish
    <2>. QED
      BY <1>10, <2>1, ReturnType, CleanUpType DEF SetPublish, TypeOK, Touch, Forget
  <1>11. ASSUME NEW c \in Callers, GetOpen(c)
         PROVE  TypeOK'
    BY <1>11 DEF GetOpen, TypeOK
  <1>12. ASSUME NEW c \in Callers, GetFail(c) \/ ReaderClose(c)
         PROVE  TypeOK'
    <2>1. Return(c)
      BY <1>12 DEF GetFail, ReaderClose
    <2>. QED
      BY <1>12, <2>1, ReturnType DEF GetFail, ReaderClose, TypeOK
  <1>13. ASSUME NEW c \in Callers, RemoveEnd(c)
         PROVE  TypeOK'
    <2>1. Return(c)
      BY <1>13 DEF RemoveEnd
    <2>2. key[c] \in Keys
      BY <1>13 DEF RemoveEnd, TypeOK
    <2>3. CASE RemoveItem(key[c])
      BY <1>13, <2>1, <2>2, <2>3, ReturnType, RemoveItemType DEF RemoveEnd, TypeOK
    <2>4. CASE UNCHANGED <<indexVars, fileVars>>
      BY <1>13, <2>1, <2>4, ReturnType DEF RemoveEnd, TypeOK
    <2>. QED
      BY <1>13, <2>3, <2>4 DEF RemoveEnd
  <1>14. ASSUME NEW e \in Evictors, EvictStart(e)
         PROVE  TypeOK'
    BY <1>14 DEF EvictStart, TypeOK
  <1>15. ASSUME NEW e \in Evictors, EvictItem(e)
         PROVE  TypeOK'
    <2>1. PICK k \in EvictLRU : RemoveItem(k)
      BY <1>15 DEF EvictItem
    <2>2. k \in Keys
      BY DEF EvictLRU, TypeOK
    <2>. QED
      BY <1>15, <2>1, <2>2, RemoveItemType DEF EvictItem, TypeOK
  <1>16. ASSUME NEW e \in Evictors, EvictFails(e) \/ EvictNoSpace(e) \/ EvictDone(e)
         PROVE  TypeOK'
    <2>1. PICK result \in {"nil", "space", "io"} : EvictReturn(e, result)
      BY <1>16 DEF EvictFails, EvictNoSpace, EvictDone
    <2>2. UNCHANGED <<indexVars, fileVars>>
      BY <1>16 DEF EvictFails, EvictNoSpace, EvictDone
    <2>3. /\ mu' = Free
          /\ err' \in [Callers -> {"nil", "space", "io"}]
          /\ epc' \in [Evictors -> {"idle", "waiting", "running"}]
          /\ need' \in [Evictors -> 0 .. MaxLength]
          /\ owner' \in [Evictors -> Callers \cup {Returned}]
          /\ health' \in {"sound", "harmed"}
          /\ UNCHANGED <<life, tmpVars, callVars>>
      BY <2>1, EvictReturnType, Zenon
    <2>. QED
      BY <2>2, <2>3 DEF TypeOK
  <1>17. CASE Crash
    BY <1>17 DEF Crash, TypeOK
  <1>18. CASE LoadExistingItems
    <2>1. size' \in [Keys -> 0 .. MaxLength]
      BY <1>18 DEF LoadExistingItems, OnDisk, TypeOK, NoFile
    <2>2. currentSize' \in Int
      <3>1. currentSize' = Cardinality(Chunks(size'))
        BY <1>18 DEF LoadExistingItems
      <3>2. Cardinality(Chunks(size')) \in Nat
        BY <2>1, ChunksFinite
      <3>. QED
        BY <3>1, <3>2
    <2>3. older' \in SUBSET (Keys \X Keys)
      BY <1>18 DEF LoadExistingItems, Orders, OnDisk
    <2>. QED
      BY <1>18, <2>1, <2>2, <2>3 DEF LoadExistingItems, OnDisk, TypeOK, NoFile
  <1>19. CASE BootEvict
    <2>1. PICK k \in EvictLRU : RemoveItem(k)
      BY <1>19 DEF BootEvict
    <2>2. k \in Keys
      BY DEF EvictLRU, TypeOK
    <2>. QED
      BY <1>19, <2>1, <2>2, RemoveItemType DEF BootEvict, TypeOK
  <1>20. CASE Booted
    BY <1>20 DEF Booted, TypeOK
  <1>21. CASE UNCHANGED vars
    BY <1>21 DEF vars, TypeOK
  <1>. QED
    BY <1>1, <1>2, <1>3, <1>4, <1>5, <1>6, <1>7, <1>8, <1>9, <1>10, <1>11, <1>12, <1>13,
       <1>14, <1>15, <1>16, <1>17, <1>18, <1>19, <1>20, <1>21
    DEF Next, Start, CallerStep, SetStep, GetStep, EvictStep

(* Every variable keeps its type. *)
THEOREM TypeCorrect == Spec => []TypeOK
  <1>1. Init => TypeOK
    BY CacheAssumption DEF Init, TypeOK, NoFile
  <1>2. TypeOK /\ [Next]_vars => TypeOK'
    BY TypeStep
  <1>. QED
    BY <1>1, <1>2, PTL DEF Spec

-----------------------------------------------------------------------------
(* The index and currentSize *)

(* Calls run only while the cache is up. *)
IdleUnlessUp == life # "up" => \A c \in Callers : pc[c] = "idle"

(* Two calls never fill the same item. *)
Exclusive ==
  \A c, d \in Callers : c # d /\ Setting(c) /\ Setting(d) => key[c] # key[d]

(* An item that is being filled is not indexed. *)
Unindexed == \A c \in Callers : Setting(c) => key[c] \notin indexed

(* Only indexed items have a size. *)
Sized == \A k \in Keys : k \notin indexed => size[k] = 0

IndexInv == TypeOK /\ IdleUnlessUp /\ Exclusive /\ Unindexed /\ Sized /\ Accounting

(* A step that leaves the index alone and starts no Set keeps IndexInv. *)
LEMMA IndexFrame ==
  ASSUME IndexInv, TypeOK', life = "up", life' = "up",
         UNCHANGED <<indexed, size, currentSize>>,
         \A d \in Callers : Setting(d)' => Setting(d) /\ key'[d] = key[d]
  PROVE  IndexInv'
  BY DEF IndexInv, IdleUnlessUp, Exclusive, Unindexed, Sized, Accounting, Total

(* So does a step that removes one item and starts no Set. *)
LEMMA IndexRemove ==
  ASSUME IndexInv, TypeOK', life' = life, NEW k \in Keys, RemoveItem(k),
         \A d \in Callers : Setting(d)' => Setting(d) /\ key'[d] = key[d],
         life # "up" => UNCHANGED pc
  PROVE  IndexInv'
  <1>1. size \in [Keys -> 0 .. MaxLength] /\ currentSize \in Int
    BY DEF IndexInv, TypeOK
  <1>2. Cardinality(Chunks(size')) = Cardinality(Chunks(size)) - size[k]
    BY <1>1, ChunksRemove DEF RemoveItem
  <1>3. Accounting'
    BY <1>2 DEF IndexInv, Accounting, Total, RemoveItem
  <1>4. Sized'
    BY <1>1 DEF IndexInv, Sized, RemoveItem
  <1>. QED
    BY <1>3, <1>4 DEF IndexInv, IdleUnlessUp, Exclusive, Unindexed, RemoveItem

(* For callers that fill an item after a miss only, currentSize is the sum   *)
(* of the sizes of the indexed items.                                        *)
LEMMA IndexInvStep ==
  ASSUME IndexInv, TypeOK', [Next]_vars
  PROVE  IndexInv'
  <1> USE CacheAssumption DEF Goto, indexVars, fileVars, tmpVars, callVars, evictVars,
          SetPhases, Setting
  <1>0. TypeOK
    BY DEF IndexInv
  <1>1. ASSUME NEW c \in Callers, NEW k \in Keys, NEW n \in Lengths, SetBegin(c, k, n)
        PROVE  IndexInv'
    <2>2. k \notin indexed
      BY <1>1 DEF SetBegin, MaySet
    <2>3. \A d \in Callers : Setting(d) => key[d] # k
      BY <1>1 DEF SetBegin, MaySet
    <2>. QED
      BY <1>1, <2>2, <2>3
      DEF SetBegin, IndexInv, IdleUnlessUp, Exclusive, Unindexed, Sized, Accounting, Total, TypeOK
  <1>2. ASSUME NEW c \in Callers, NEW k \in Keys, GetBegin(c, k) \/ RemoveBegin(c, k)
        PROVE  IndexInv'
    BY <1>0, <1>2, IndexFrame DEF GetBegin, RemoveBegin, TypeOK
  <1>3. ASSUME NEW c \in Callers,
               SetChunk(c) \/ SetSync(c) \/ SetRename(c) \/ SetRenamed(c) \/ GetOpen(c)
        PROVE  IndexInv'
    BY <1>0, <1>3, IndexFrame DEF SetChunk, SetSync, SetRename, SetRenamed, GetOpen, TypeOK
  <1>4. ASSUME NEW c \in Callers,
               SetFail(c) \/ SetRenameError(c) \/ GetFail(c) \/ ReaderClose(c)
        PROVE  IndexInv'
    BY <1>0, <1>4, IndexFrame DEF SetFail, SetRenameError, GetFail, ReaderClose, Return, TypeOK
  <1>5. ASSUME NEW c \in Callers, SetPublish(c)
        PROVE  IndexInv'
    <2>1. key[c] \in Keys /\ key[c] \notin indexed /\ size[key[c]] = 0
      BY <1>0, <1>5 DEF SetPublish, IndexInv, Unindexed, Sized, TypeOK
    <2>2. Cardinality(Chunks(size')) = Cardinality(Chunks(size)) + written[c]
      <3>1. size \in [Keys -> 0 .. MaxLength] /\ written[c] \in 0 .. MaxLength
        BY <1>0 DEF TypeOK
      <3>2. size' = [size EXCEPT ![key[c]] = written[c]]
        BY <1>5 DEF SetPublish
      <3>3. Cardinality(Chunks([size EXCEPT ![key[c]] = written[c]]))
              = Cardinality(Chunks(size)) + written[c]
        BY <2>1, <3>1, ChunksAdd
      <3>. QED
        BY <3>2, <3>3
    <2>3. Accounting'
      BY <1>5, <2>2 DEF SetPublish, IndexInv, Accounting, Total
    <2>4. Sized'
      BY <1>0, <1>5 DEF SetPublish, IndexInv, Sized, TypeOK
    <2>5. IdleUnlessUp' /\ Exclusive' /\ Unindexed'
      BY <1>0, <1>5 DEF SetPublish, Return, IndexInv, IdleUnlessUp, Exclusive, Unindexed, TypeOK
    <2>. QED
      BY <2>3, <2>4, <2>5 DEF IndexInv
  <1>6. ASSUME NEW c \in Callers, RemoveEnd(c)
        PROVE  IndexInv'
    <2>1. key[c] \in Keys
      BY <1>0, <1>6 DEF RemoveEnd, TypeOK
    <2>2. \A d \in Callers : Setting(d)' => Setting(d) /\ key'[d] = key[d]
      BY <1>0, <1>6 DEF RemoveEnd, Return, TypeOK
    <2>3. CASE RemoveItem(key[c])
      BY <1>6, <2>1, <2>2, <2>3, IndexRemove DEF RemoveEnd
    <2>4. CASE UNCHANGED <<indexVars, fileVars>>
      BY <1>6, <2>2, <2>4, IndexFrame DEF RemoveEnd
    <2>. QED
      BY <1>6, <2>3, <2>4 DEF RemoveEnd
  <1>7. ASSUME NEW e \in Evictors,
               EvictStart(e) \/ EvictFails(e) \/ EvictNoSpace(e) \/ EvictDone(e)
        PROVE  IndexInv'
    BY <1>7, IndexFrame DEF EvictStart, EvictFails, EvictNoSpace, EvictDone, EvictReturn, Evicting
  <1>8. ASSUME NEW e \in Evictors, EvictItem(e)
        PROVE  IndexInv'
    <2>1. PICK k \in EvictLRU : RemoveItem(k)
      BY <1>8 DEF EvictItem
    <2>2. k \in Keys
      BY <1>0 DEF EvictLRU, TypeOK
    <2>. QED
      BY <1>8, <2>1, <2>2, IndexRemove DEF EvictItem
  <1>9. CASE Crash
    <2>1. Accounting'
      BY <1>9, ChunksNone DEF Crash, Accounting, Total
    <2>. QED
      BY <1>9, <2>1 DEF Crash, IndexInv, IdleUnlessUp, Exclusive, Unindexed, Sized
  <1>10. CASE LoadExistingItems
    <2>1. Accounting'
      BY <1>10 DEF LoadExistingItems, Accounting, Total
    <2>2. \A c \in Callers : pc'[c] = "idle"
      BY <1>10 DEF LoadExistingItems, IndexInv, IdleUnlessUp
    <2>. QED
      BY <1>10, <2>1, <2>2
      DEF LoadExistingItems, OnDisk, IndexInv, IdleUnlessUp, Exclusive, Unindexed, Sized
  <1>11. CASE BootEvict
    <2>1. PICK k \in EvictLRU : RemoveItem(k)
      BY <1>11 DEF BootEvict
    <2>2. k \in Keys
      BY <1>0 DEF EvictLRU, TypeOK
    <2>. QED
      BY <1>11, <2>1, <2>2, IndexRemove DEF BootEvict
  <1>12. CASE Booted
    BY <1>12 DEF Booted, IndexInv, IdleUnlessUp, Exclusive, Unindexed, Sized, Accounting, Total
  <1>13. CASE UNCHANGED vars
    BY <1>13 DEF vars, IndexInv, IdleUnlessUp, Exclusive, Unindexed, Sized, Accounting, Total
  <1>. QED
    BY <1>1, <1>2, <1>3, <1>4, <1>5, <1>6, <1>7, <1>8, <1>9, <1>10, <1>11, <1>12, <1>13
    DEF Next, Start, CallerStep, SetStep, GetStep, EvictStep

(* The empty index of a process that starts satisfies IndexInv. *)
LEMMA IndexInvInit == Init => IndexInv
  <1> SUFFICES ASSUME Init PROVE IndexInv
    OBVIOUS
  <1>1. Accounting
    BY ChunksNone DEF Init, Accounting, Total
  <1>2. TypeOK
    BY CacheAssumption DEF Init, TypeOK, NoFile
  <1>. QED
    BY <1>1, <1>2 DEF Init, IndexInv, IdleUnlessUp, Exclusive, Unindexed, Sized, Setting, SetPhases

(* currentSize never drifts from the sizes of the indexed items, however     *)
(* sets, evictions, removals, crashes and restarts interleave.               *)
THEOREM AccountingCorrect == Spec => []Accounting
  <1>1. Init => IndexInv
    BY IndexInvInit
  <1>2. TypeOK' /\ IndexInv /\ [Next]_vars => IndexInv'
    BY IndexInvStep
  <1>3. IndexInv => Accounting
    BY DEF IndexInv
  <1>. QED
    BY <1>1, <1>2, <1>3, TypeCorrect, PTL DEF Spec

-----------------------------------------------------------------------------
(* The files *)

(* A removal and a running eviction hold the cache mutex, *)
(* so the item of a removal stays indexed.                *)
MutexHeld ==
  /\ \A c \in Callers : pc[c] = "remove" => mu = c /\ key[c] \in indexed
  /\ \A e \in Evictors : epc[e] = "running" => mu = e

(* The temporary file of a Set holds what was written, and is synced when *)
(* all of it has been.                                                     *)
Filled ==
  \A c \in Callers :
    /\ pc[c] \in {"copy", "rename"} => tmp[key[c]] = written[c]
    /\ pc[c] = "rename" => written[c] = want[c] /\ key[c] \in synced

(* From the rename to the update of the index the file is in its place. After *)
(* a rename that failed it is not: an eviction may overwrite the error, and  *)
(* the Set goes on.                                                          *)
Placed == health = "sound" =>
  \A c \in Callers : pc[c] \in {"renamed", "publish"} => disk[key[c]] = written[c]

Files == IndexedHasFile /\ NoTornFile /\ ReadersProtected

FileInv == IndexInv /\ MutexHeld /\ Filled /\ Placed /\ Files

(* removeFile on an indexed item without readers keeps FileInv. *)
LEMMA FileRemove ==
  ASSUME FileInv, TypeOK', IndexInv', NEW k \in indexed, RemoveItem(k), Readers(k) = {},
         UNCHANGED <<mu, pc, key, written, want, tmp, synced, epc, health>>,
         \A c \in Callers : pc[c] # "remove"
  PROVE  FileInv'
  <1> USE DEF FileInv, IndexInv, TypeOK
  <1>1. disk \in [Keys -> NoFile .. MaxLength] /\ size \in [Keys -> 0 .. MaxLength] /\ k \in Keys
    OBVIOUS
  <1>2. MutexHeld' /\ Filled'
    BY DEF MutexHeld, Filled
  <1>3. Placed'
    BY <1>1 DEF Placed, RemoveItem, Unindexed, Setting, SetPhases
  <1>4. IndexedHasFile' /\ NoTornFile'
    BY <1>1 DEF Files, IndexedHasFile, NoTornFile, RemoveItem
  <1>5. ReadersProtected'
    BY <1>1 DEF Files, ReadersProtected, Readers, RemoveItem
  <1>. QED
    BY <1>2, <1>3, <1>4, <1>5 DEF Files

(* FileInv is inductive. *)
LEMMA FileInvStep ==
  ASSUME FileInv, TypeOK', IndexInv', [Next]_vars
  PROVE  FileInv'
  <1> USE CacheAssumption DEF Goto, indexVars, fileVars, tmpVars, callVars, evictVars,
          SetPhases, Setting
  <1>0. TypeOK /\ IdleUnlessUp /\ Exclusive /\ Unindexed
    BY DEF FileInv, IndexInv
  <1> DEFINE Inv == MutexHeld /\ Filled /\ Placed /\ IndexedHasFile /\ NoTornFile /\ ReadersProtected
  <1>i. Inv
    BY DEF FileInv, Files
  <1>p. Inv' => FileInv'
    BY DEF FileInv, Files
  <1> USE DEF TypeOK, MutexHeld, Filled, Placed, IndexedHasFile, NoTornFile, ReadersProtected
  <1>1. ASSUME NEW c \in Callers, NEW k \in Keys, NEW n \in Lengths, SetBegin(c, k, n)
        PROVE  Inv'
    BY <1>0, <1>i, <1>1 DEF SetBegin, MaySet
  <1>2. ASSUME NEW c \in Callers, NEW k \in Keys, GetBegin(c, k) \/ RemoveBegin(c, k)
        PROVE  Inv'
    BY <1>0, <1>i, <1>2 DEF GetBegin, RemoveBegin, NoFile
  <1>3. ASSUME NEW c \in Callers, SetChunk(c)
        PROVE  Inv'
    BY <1>0, <1>i, <1>3 DEF SetChunk, StartEviction, Exclusive
  <1>4. ASSUME NEW c \in Callers, SetSync(c) \/ SetRenamed(c) \/ GetOpen(c)
        PROVE  Inv'
    BY <1>0, <1>i, <1>4 DEF SetSync, SetRenamed, GetOpen
  <1>5. ASSUME NEW c \in Callers, SetRename(c)
        PROVE  Inv'
    BY <1>0, <1>i, <1>5 DEF SetRename, Exclusive, Unindexed
  <1>6. ASSUME NEW c \in Callers, SetFail(c) \/ SetRenameError(c)
        PROVE  Inv'
    BY <1>0, <1>i, <1>6, SMTT(30) DEF SetFail, SetRenameError, Return, CleanUp, Exclusive
  <1>7. ASSUME NEW c \in Callers, GetFail(c) \/ ReaderClose(c)
        PROVE  Inv'
    BY <1>0, <1>i, <1>7 DEF GetFail, ReaderClose, Return
  <1>8. ASSUME NEW c \in Callers, SetPublish(c)
        PROVE  Inv'
    BY <1>0, <1>i, <1>8 DEF SetPublish, Return, CleanUp, Exclusive
  <1>9. ASSUME NEW c \in Callers, RemoveEnd(c)
        PROVE  Inv'
    BY <1>0, <1>i, <1>9 DEF RemoveEnd, Return, RemoveItem, Readers, Unindexed
  <1>10. ASSUME NEW e \in Evictors, EvictStart(e)
         PROVE  Inv'
    BY <1>0, <1>i, <1>10 DEF EvictStart
  <1>11. ASSUME NEW e \in Evictors, EvictFails(e) \/ EvictNoSpace(e) \/ EvictDone(e)
         PROVE  Inv'
    BY <1>0, <1>i, <1>11 DEF EvictFails, EvictNoSpace, EvictDone, EvictReturn, Evicting
  <1>12. ASSUME NEW e \in Evictors, EvictItem(e)
         PROVE  FileInv'
    <2>1. PICK k \in EvictLRU : Readers(k) = {} /\ RemoveItem(k)
      BY <1>12 DEF EvictItem
    <2>2. k \in indexed
      BY DEF EvictLRU
    <2>3. \A c \in Callers : pc[c] # "remove"
      BY <1>i, <1>12 DEF EvictItem, Evicting
    <2>. QED
      BY <1>12, <2>1, <2>2, <2>3, FileRemove DEF EvictItem
  <1>13. ASSUME Crash
         PROVE  Inv'
    BY <1>i, <1>13 DEF Crash
  <1>14. ASSUME LoadExistingItems
         PROVE  Inv'
    BY <1>0, <1>i, <1>14 DEF LoadExistingItems, IdleUnlessUp, OnDisk
  <1>15. CASE BootEvict
    <2>1. PICK k \in EvictLRU : RemoveItem(k)
      BY <1>15 DEF BootEvict
    <2>2. k \in indexed
      BY DEF EvictLRU
    <2>3. \A c \in Callers : pc[c] = "idle"
      BY <1>0, <1>15 DEF BootEvict, IdleUnlessUp
    <2>4. Readers(k) = {}
      BY <2>3 DEF Readers
    <2>. QED
      BY <1>15, <2>1, <2>2, <2>3, <2>4, FileRemove DEF BootEvict
  <1>16. ASSUME Booted
         PROVE  Inv'
    BY <1>i, <1>16 DEF Booted
  <1>17. ASSUME UNCHANGED vars
         PROVE  Inv'
    BY <1>i, <1>17 DEF vars
  <1> HIDE DEF Inv
  <1>. QED
    BY <1>p, <1>1, <1>2, <1>3, <1>4, <1>5, <1>6, <1>7, <1>8, <1>9, <1>10, <1>11, <1>12, <1>13,
       <1>14, <1>15, <1>16, <1>17
    DEF Next, Start, CallerStep, SetStep, GetStep, EvictStep

LEMMA FilesHold == Spec => []FileInv
  <1>1. Init => IndexInv
    BY IndexInvInit
  <1>2. Init /\ IndexInv => FileInv
    BY DEF Init, FileInv, MutexHeld, Filled, Placed, Files, IndexedHasFile, NoTornFile, ReadersProtected
  <1>3. TypeOK' /\ IndexInv /\ [Next]_vars => IndexInv'
    BY IndexInvStep
  <1>4. TypeOK' /\ IndexInv' /\ FileInv /\ [Next]_vars => FileInv'
    BY FileInvStep
  <1>. QED
    BY <1>1, <1>2, <1>3, <1>4, TypeCorrect, PTL DEF Spec

(* No reader loses the item it has locked, nor the file of it that it reads,  *)
(* to any eviction or Remove.                                                *)
THEOREM ProtectedCorrect == Spec => []ReadersProtected
  <1>1. FileInv => ReadersProtected
    BY DEF FileInv, Files
  <1>. QED
    BY <1>1, FilesHold, PTL

(* What is under CacheDir is whole, at every moment of every execution: a     *)
(* crash never leaves a part of an item for NewCache to index.               *)
THEOREM WholeFilesCorrect == Spec => []NoTornFile
  <1>1. FileInv => NoTornFile
    BY DEF FileInv, Files
  <1>. QED
    BY <1>1, FilesHold, PTL

(* Until a rename or an eviction fails, every indexed item has its file, of   *)
(* the size its header says.                                                 *)
THEOREM IndexCorrect == Spec => []IndexedHasFile
  <1>1. FileInv => IndexedHasFile
    BY DEF FileInv, Files
  <1>. QED
    BY <1>1, FilesHold, PTL

-----------------------------------------------------------------------------
(* Files that nothing counts                                                 *)

(* Also inside NewCache, which has indexed the whole directory.              *)
OrphanInv ==
  /\ health = "sound" => \A c \in Callers : err[c] = "nil"
  /\ life # "down" /\ health = "sound" =>
       \A k \in OnDisk \ indexed : \E c \in Callers : pc[c] \in {"renamed", "publish"} /\ key[c] = k

(* A step that leaves the files and the index alone, and no Set behind.      *)
LEMMA OrphanFrame ==
  ASSUME OrphanInv, health' = health, UNCHANGED <<indexed, disk>>,
         life' # "down" => life # "down",
         \A c \in Callers :
           /\ health = "sound" /\ err[c] = "nil" => err'[c] = "nil"
           /\ health = "sound" /\ pc[c] \in {"renamed", "publish"} =>
                pc'[c] \in {"renamed", "publish"} /\ key'[c] = key[c]
  PROVE  OrphanInv'
  BY DEF OrphanInv, OnDisk

(* removeFile takes the file and the item.                                   *)
LEMMA OrphanRemove ==
  ASSUME OrphanInv, TypeOK, NEW k \in Keys, RemoveItem(k), life # "down",
         UNCHANGED <<health, life, err>>,
         \A c \in Callers : pc[c] \in {"renamed", "publish"} => pc'[c] = pc[c] /\ key'[c] = key[c]
  PROVE  OrphanInv'
  <1>1. /\ disk' = [disk EXCEPT ![k] = NoFile] /\ indexed' = indexed \ {k}
        /\ disk \in [Keys -> NoFile .. MaxLength]
    BY DEF RemoveItem, TypeOK
  <1>2. OnDisk' \ indexed' \subseteq OnDisk \ indexed
    BY <1>1 DEF OnDisk
  <1>. QED
    BY <1>2 DEF OrphanInv

LEMMA OrphanStep ==
  ASSUME OrphanInv, TypeOK, [Next]_vars
  PROVE  OrphanInv'
  <1> USE DEF Goto, indexVars, fileVars, tmpVars, callVars, evictVars
  <1>1. ASSUME NEW c \in Callers, NEW k \in Keys, NEW n \in Lengths, SetBegin(c, k, n)
        PROVE  OrphanInv'
    BY <1>1, OrphanFrame DEF SetBegin, TypeOK
  <1>2. ASSUME NEW c \in Callers, NEW k \in Keys, GetBegin(c, k) \/ RemoveBegin(c, k)
        PROVE  OrphanInv'
    BY <1>2, OrphanFrame DEF GetBegin, RemoveBegin, TypeOK
  <1>3. ASSUME NEW c \in Callers, SetChunk(c) \/ SetSync(c) \/ SetRenamed(c) \/ GetOpen(c)
        PROVE  OrphanInv'
    BY <1>3, OrphanFrame DEF SetChunk, SetSync, SetRenamed, GetOpen, TypeOK
  <1>4. ASSUME NEW c \in Callers, SetFail(c) \/ SetRenameError(c) \/ GetFail(c) \/ ReaderClose(c)
        PROVE  OrphanInv'
    <2>1. /\ Return(c) /\ UNCHANGED <<health, life, indexed, disk, err>>
          /\ health = "sound" => pc[c] \notin {"renamed", "publish"}
      BY <1>4 DEF SetFail, SetRenameError, GetFail, ReaderClose, OrphanInv
    <2>. QED
      BY <2>1, OrphanFrame DEF Return, TypeOK
  <1>5. ASSUME NEW c \in Callers, SetRename(c)
        PROVE  OrphanInv'
    <2>1. CASE health' = "harmed"
      BY <2>1 DEF OrphanInv
    <2>2. CASE health' # "harmed"
      <3>1. /\ pc[c] = "rename" /\ pc' = [pc EXCEPT ![c] = "renamed"] /\ key' = key
            /\ disk' = [disk EXCEPT ![key[c]] = tmp[key[c]]] /\ err' = [err EXCEPT ![c] = "nil"]
            /\ UNCHANGED <<indexed, health, life>>
        BY <1>5, <2>2 DEF SetRename
      <3>2. OnDisk' \subseteq OnDisk \cup {key[c]}
        BY <3>1 DEF OnDisk, TypeOK
      <3>3. pc'[c] = "renamed" /\ \A d \in Callers : pc[d] \in {"renamed", "publish"} => pc'[d] = pc[d]
        BY <3>1 DEF TypeOK
      <3>4. \A d \in Callers : err'[d] = "nil" \/ err'[d] = err[d]
        BY <3>1 DEF TypeOK
      <3>. QED
        BY <3>1, <3>2, <3>3, <3>4 DEF OrphanInv
    <2>. QED
      BY <2>1, <2>2
  <1>6. ASSUME NEW c \in Callers, SetPublish(c)
        PROVE  OrphanInv'
    <2>1. Return(c) /\ indexed' = indexed \cup {key[c]} /\ UNCHANGED <<disk, health, life, err>>
      BY <1>6 DEF SetPublish
    <2>2. \A d \in Callers \ {c} : pc'[d] = pc[d] /\ key'[d] = key[d]
      BY <2>1 DEF Return, TypeOK
    <2>. QED
      BY <2>1, <2>2 DEF OrphanInv, OnDisk
  <1>7. ASSUME NEW c \in Callers, RemoveEnd(c)
        PROVE  OrphanInv'
    <2>1. /\ Return(c) /\ UNCHANGED <<health, life, err>> /\ pc[c] = "remove" /\ life # "down"
          /\ key[c] \in Keys
      BY <1>7 DEF RemoveEnd, TypeOK
    <2>2. \A d \in Callers : pc[d] \in {"renamed", "publish"} => pc'[d] = pc[d] /\ key'[d] = key[d]
      BY <2>1 DEF Return, TypeOK
    <2>3. CASE RemoveItem(key[c])
      BY <2>1, <2>2, <2>3, OrphanRemove
    <2>4. CASE UNCHANGED <<indexVars, fileVars>>
      BY <2>1, <2>2, <2>4, OrphanFrame
    <2>. QED
      BY <1>7, <2>3, <2>4 DEF RemoveEnd
  <1>8. ASSUME NEW e \in Evictors, EvictStart(e)
        PROVE  OrphanInv'
    BY <1>8, OrphanFrame DEF EvictStart
  <1>9. ASSUME \/ \E e \in Evictors : EvictItem(e)
               \/ BootEvict
        PROVE  OrphanInv'
    <2>1. PICK k \in EvictLRU : RemoveItem(k)
      BY <1>9 DEF EvictItem, BootEvict
    <2>2. k \in Keys
      BY DEF EvictLRU, TypeOK
    <2>. QED
      BY <1>9, <2>1, <2>2, OrphanRemove DEF EvictItem, BootEvict, Evicting
  <1>10. ASSUME NEW e \in Evictors, EvictFails(e) \/ EvictNoSpace(e) \/ EvictDone(e)
         PROVE  OrphanInv'
    <2>1. PICK result \in {"nil", "space", "io"} : EvictReturn(e, result)
      BY <1>10 DEF EvictFails, EvictNoSpace, EvictDone
    <2>2. UNCHANGED <<indexed, disk, life, pc, key>>
      BY <1>10, <2>1 DEF EvictFails, EvictNoSpace, EvictDone, EvictReturn
    <2>3. CASE result = "nil"
      <3>1. health' = health /\ \A c \in Callers : err[c] = "nil" => err'[c] = "nil"
        BY <2>1, <2>3 DEF EvictReturn, TypeOK
      <3>. QED
        BY <2>2, <3>1, OrphanFrame
    <2>4. CASE result # "nil"
      BY <2>1, <2>4 DEF EvictReturn, OrphanInv
    <2>. QED
      BY <2>3, <2>4
  <1>11. CASE Crash
    BY <1>11 DEF Crash, OrphanInv
  <1>12. CASE LoadExistingItems
    BY <1>12 DEF LoadExistingItems, OrphanInv, OnDisk
  <1>13. CASE Booted
    BY <1>13, OrphanFrame DEF Booted
  <1>14. CASE UNCHANGED vars
    BY <1>14, OrphanFrame DEF vars
  <1>. QED
    BY <1>1, <1>2, <1>3, <1>4, <1>5, <1>6, <1>7, <1>8, <1>9, <1>10, <1>11, <1>12, <1>13, <1>14
    DEF Next, Start, CallerStep, SetStep, GetStep, EvictStep

(* Until a rename or an eviction fails, no file stays under CacheDir that     *)
(* neither the index nor a Set about to index it knows of: for any number of  *)
(* callers, evictions and crashes.                                           *)
THEOREM OrphanCorrect == Spec => []NoOrphan
  <1>1. Init => OrphanInv
    BY DEF Init, OrphanInv, OnDisk
  <1>2. TypeOK /\ OrphanInv /\ [Next]_vars => OrphanInv'
    BY OrphanStep
  <1>3. OrphanInv => NoOrphan
    BY DEF OrphanInv, NoOrphan
  <1>. QED
    BY <1>1, <1>2, <1>3, TypeCorrect, PTL DEF Spec

-----------------------------------------------------------------------------
(* How far evictions may fall behind                                         *)

(* An eviction that makes room for all that the Set of c has written so far   *)
(* has not ended.                                                            *)
RoomComes(c) == \E e \in Evictors : epc[e] # "idle" /\ owner[e] = c /\ need[e] = written[c]

(* What all Sets have written may still be added to the index.               *)
Coming == Cardinality(Pile(Callers, written))

(* Until one fails: for an item that is too large an eviction is still to     *)
(* come; so it is for one item, unless that fits; and when no eviction is     *)
(* left, so many fit of those that are written at the same time.             *)
BoundInv ==
  /\ \A c \in Callers : ~Setting(c) => written[c] = 0
  /\ MaxSize > 0 /\ life = "up" /\ health = "sound" =>
       /\ \A c \in Callers : written[c] > MaxSize => RoomComes(c)
       /\ \E c \in Callers : written[c] = 0 \/ RoomComes(c) \/ currentSize + written[c] <= MaxSize
       /\ (\A e \in Evictors : epc[e] = "idle") =>
            currentSize + Coming <= MaxSize + (Cardinality(Callers) - 1) * Fitting

(* All but one item, each no longer than what fits.                          *)
LEMMA OneItemEach ==
  ASSUME TypeOK, NEW c \in Callers, \A d \in Callers : written[d] <= MaxSize
  PROVE  Coming <= written[c] + (Cardinality(Callers) - 1) * Fitting
  <1> DEFINE others == [written EXCEPT ![c] = 0]
             rest   == (Callers \ {c}) \X (1 .. Fitting)
  <1>1. /\ MaxLength \in Nat /\ MaxSize \in Nat /\ IsFiniteSet(Callers)
        /\ written \in [Callers -> 0 .. MaxLength]
    BY CacheAssumption DEF TypeOK
  <1>2. Fitting \in Nat /\ \A d \in Callers : written[d] <= Fitting
    BY <1>1 DEF Fitting
  <1>3. Cardinality(Pile(Callers, others)) = Coming - written[c]
    BY <1>1, PileRemove DEF Coming
  <1>4. IsFiniteSet(Callers \ {c}) /\ Cardinality(Callers \ {c}) = Cardinality(Callers) - 1
    BY <1>1, FS_RemoveElement
  <1>5. IsFiniteSet(1 .. Fitting) /\ Cardinality(1 .. Fitting) = Fitting
    <2>1. IsFiniteSet(1 .. Fitting) /\ Cardinality(1 .. Fitting) = IF 1 > Fitting THEN 0 ELSE Fitting - 1 + 1
      BY <1>2, FS_Interval
    <2>. QED
      BY <1>2, <2>1
  <1>6. IsFiniteSet(rest) /\ Cardinality(rest) = (Cardinality(Callers) - 1) * Fitting
    BY <1>4, <1>5, FS_Product, ZenonT(30)
  <1>7. Pile(Callers, others) \subseteq rest
    <2> SUFFICES ASSUME NEW p \in Pile(Callers, others) PROVE p \in rest
      OBVIOUS
    <2>1. PICK d \in Callers, n \in 1 .. MaxLength : p = <<d, n>> /\ n <= others[d]
      BY DEF Pile
    <2>2. CASE d = c
      BY <1>1, <2>1, <2>2
    <2>3. CASE d # c
      <3>1. n \in 1 .. Fitting
        BY <1>1, <1>2, <2>1, <2>3
      <3>. QED
        BY <2>1, <2>3, <3>1
    <2>. QED
      BY <2>2, <2>3
  <1>8. Cardinality(Pile(Callers, others)) <= Cardinality(rest)
    BY <1>6, <1>7, FS_Subset
  <1>9. Coming \in Nat /\ written[c] \in Nat /\ Cardinality(rest) \in Nat
    BY <1>1, <1>6, PileFinite, FS_CardinalityType DEF Coming
  <1> HIDE DEF rest, others
  <1>. QED
    BY <1>3, <1>6, <1>8, <1>9

LEMMA LessFits ==
  ASSUME NEW less \in Int, NEW some \in Int, NEW more \in Int, NEW bound \in Int,
         less <= some, some + more <= bound
  PROVE  less + more <= bound
  OBVIOUS

(* Steps that neither begin, go on with, nor end a Set or an eviction, and    *)
(* add nothing to the index.                                                 *)
LEMMA BoundFrame ==
  ASSUME BoundInv, TypeOK, TypeOK', life' = "up" => life = "up", health' = health,
         currentSize' <= currentSize, UNCHANGED <<written, need, owner>>,
         \A c \in Callers : Setting(c)' <=> Setting(c),
         \A e \in Evictors : epc'[e] = "idle" <=> epc[e] = "idle"
  PROVE  BoundInv'
  <1>1. \A c \in Callers : RoomComes(c) <=> RoomComes(c)'
    BY DEF RoomComes
  <1>2. \A c \in Callers : ~Setting(c)' => written'[c] = 0
    BY DEF BoundInv
  <1>3. Coming' = Coming /\ Coming \in Nat
    BY PileFinite, CacheAssumption DEF Coming
  <1>4. currentSize \in Int /\ currentSize' \in Int /\ MaxSize \in Nat /\ written \in [Callers -> 0 .. MaxLength]
    BY CacheAssumption DEF TypeOK
  <1>5. Cardinality(Callers) \in Nat /\ Fitting \in Nat
    BY CacheAssumption, FS_CardinalityType DEF Fitting
  <1>6. MaxLength \in Nat
    BY CacheAssumption
  <1> DEFINE bound == MaxSize + (Cardinality(Callers) - 1) * Fitting
  <1>7. bound \in Int
    BY <1>4, <1>5
  <1> HIDE DEF bound
  <1> SUFFICES ASSUME MaxSize > 0, life = "up", health = "sound"
               PROVE  /\ \A c \in Callers : written'[c] > MaxSize => RoomComes(c)'
                      /\ \E c \in Callers : written'[c] = 0 \/ RoomComes(c)' \/ currentSize' + written'[c] <= MaxSize
                      /\ (\A e \in Evictors : epc'[e] = "idle") => currentSize' + Coming' <= bound
    BY <1>2, <1>4 DEF BoundInv, bound, Fitting
  <1>8. /\ \A c \in Callers : written[c] > MaxSize => RoomComes(c)
        /\ \E c \in Callers : written[c] = 0 \/ RoomComes(c) \/ currentSize + written[c] <= MaxSize
        /\ (\A e \in Evictors : epc[e] = "idle") => currentSize + Coming <= bound
    BY DEF BoundInv, bound
  <1>9. \E c \in Callers : written'[c] = 0 \/ RoomComes(c)' \/ currentSize' + written'[c] <= MaxSize
    <2>1. PICK c \in Callers : written[c] = 0 \/ RoomComes(c) \/ currentSize + written[c] <= MaxSize
      BY <1>8
    <2>2. written[c] \in Int
      BY <1>4, <1>6
    <2>. QED
      BY <1>1, <1>4, <2>1, <2>2
  <1>10. \A c \in Callers : written'[c] > MaxSize => RoomComes(c)'
    BY <1>1, <1>8
  <1>11. (\A e \in Evictors : epc'[e] = "idle") => currentSize' + Coming' <= bound
    <2>1. (\A e \in Evictors : epc'[e] = "idle") => currentSize + Coming <= bound
      BY <1>8
    <2>2. Coming \in Int
      BY <1>3
    <2>3. currentSize + Coming <= bound => currentSize' + Coming <= bound
      BY <1>4, <1>7, <2>2, LessFits
    <2>4. currentSize + Coming <= bound => currentSize' + Coming' <= bound
      BY <1>3, <2>3, Zenon
    <2>. QED
      BY <2>1, <2>4
  <1>. QED
    BY <1>9, <1>10, <1>11, Zenon

(* What holds of numbers of chunks.                                          *)
LEMMA BoundTypes ==
  ASSUME TypeOK
  PROVE  /\ MaxLength \in Nat /\ MaxSize \in Nat /\ currentSize \in Int
         /\ Coming \in Int /\ Coming \in Nat /\ MaxSize + (Cardinality(Callers) - 1) * Fitting \in Int
         /\ \A c \in Callers : written[c] \in Int /\ written[c] >= 0
  <1>1. MaxLength \in Nat /\ MaxSize \in Nat /\ currentSize \in Int /\ IsFiniteSet(Callers)
    BY CacheAssumption DEF TypeOK
  <1>2. Cardinality(Callers) \in Nat /\ Fitting \in Nat
    BY <1>1, FS_CardinalityType DEF Fitting
  <1>3. (Cardinality(Callers) - 1) * Fitting \in Int
    BY <1>2
  <1>4. Coming \in Nat
    BY <1>1, PileFinite DEF Coming
  <1>. QED
    BY <1>1, <1>3, <1>4 DEF TypeOK

(* A call that returns has added to the index what its Set had written, or    *)
(* less, and starts no eviction.                                             *)
LEMMA BoundReturn ==
  ASSUME BoundInv, TypeOK, TypeOK', NEW c \in Callers, Return(c), life' = life, health' = health,
         currentSize' <= currentSize + written[c], UNCHANGED <<epc, need>>
  PROVE  BoundInv'
  <1>1. /\ written' = [written EXCEPT ![c] = 0] /\ pc' = [pc EXCEPT ![c] = "idle"]
        /\ written \in [Callers -> 0 .. MaxLength]
        /\ owner' = [e \in Evictors |-> IF owner[e] = c THEN Returned ELSE owner[e]]
    BY DEF Return, Detach, TypeOK
  <1>2. written'[c] = 0 /\ \A d \in Callers \ {c} : written'[d] = written[d] /\ pc'[d] = pc[d]
    BY <1>1 DEF TypeOK
  <1>3. ~Setting(c)' /\ \A d \in Callers \ {c} : Setting(d)' <=> Setting(d)
    BY <1>1, <1>2 DEF Setting, SetPhases, TypeOK
  <1>4. \A d \in Callers : ~Setting(d)' => written'[d] = 0
    BY <1>2, <1>3 DEF BoundInv
  <1>5. \A d \in Callers \ {c} : RoomComes(d) => RoomComes(d)'
    BY <1>1, <1>2 DEF RoomComes
  <1>6. Coming' = Coming - written[c]
    BY <1>1, PileRemove, CacheAssumption DEF Coming
  <1>7. \A d \in Callers : written'[d] > MaxSize => d # c
    BY <1>2, BoundTypes
  <1>8. currentSize + Coming <= MaxSize + (Cardinality(Callers) - 1) * Fitting =>
          currentSize' + Coming' <= MaxSize + (Cardinality(Callers) - 1) * Fitting
    <2> DEFINE bound == MaxSize + (Cardinality(Callers) - 1) * Fitting
    <2>1. /\ currentSize \in Int /\ currentSize' \in Int /\ Coming \in Int /\ bound \in Int
          /\ written[c] \in Int
      BY BoundTypes DEF TypeOK
    <2> HIDE DEF bound
    <2> SUFFICES ASSUME currentSize + Coming <= bound PROVE currentSize' + Coming' <= bound
      BY DEF bound
    <2>2. Coming - written[c] \in Int /\ (currentSize + written[c]) + (Coming - written[c]) <= bound
      BY <2>1
    <2>. QED
      BY <1>6, <2>1, <2>2, LessFits
  <1>. QED
    BY <1>2, <1>4, <1>5, <1>7, <1>8 DEF BoundInv, Fitting

(* A Set begins with nothing, and starts an eviction with each chunk.        *)
LEMMA BoundSet ==
  ASSUME BoundInv, TypeOK, TypeOK', NEW c \in Callers,
         SetChunk(c) \/ \E k \in Keys, n \in Lengths : SetBegin(c, k, n)
  PROVE  BoundInv'
  <1>1. /\ UNCHANGED <<life, health, currentSize>>
        /\ \A d \in Callers \ {c} : written'[d] = written[d] /\ (Setting(d)' <=> Setting(d))
        /\ Setting(c)'
    BY DEF SetChunk, SetBegin, Goto, indexVars, Setting, SetPhases, TypeOK
  <1>2. \A d \in Callers : ~Setting(d)' => written'[d] = 0
    BY <1>1 DEF BoundInv
  <1>3. CASE SetChunk(c)
    <2>1. CASE MaxSize = 0
      BY <1>2, <2>1, CacheAssumption DEF BoundInv
    <2>2. CASE MaxSize # 0
      <3>1. StartEviction(c, written[c] + 1)
        BY <1>3, <2>2, CacheAssumption DEF SetChunk
      <3>2. PICK e \in Evictors : /\ epc[e] = "idle" /\ epc' = [epc EXCEPT ![e] = "waiting"]
                                  /\ need' = [need EXCEPT ![e] = written[c] + 1]
                                  /\ owner' = [owner EXCEPT ![e] = c]
        BY <3>1 DEF StartEviction
      <3>3. /\ epc'[e] = "waiting" /\ need'[e] = written[c] + 1 /\ owner'[e] = c
            /\ \A f \in Evictors \ {e} : epc'[f] = epc[f] /\ need'[f] = need[f] /\ owner'[f] = owner[f]
        BY <3>2 DEF TypeOK
      <3>4. written'[c] = written[c] + 1
        BY <1>3 DEF SetChunk, TypeOK
      <3>5. RoomComes(c)' /\ \A d \in Callers \ {c} : RoomComes(d) => RoomComes(d)'
        BY <1>1, <3>2, <3>3, <3>4 DEF RoomComes
      <3>. QED
        BY <1>1, <1>2, <3>3, <3>5 DEF BoundInv
    <2>. QED
      BY <2>1, <2>2
  <1>4. CASE \E k \in Keys, n \in Lengths : SetBegin(c, k, n)
    <2>1. /\ written' = [written EXCEPT ![c] = 0] /\ UNCHANGED <<epc, need, owner>> /\ ~Setting(c)
          /\ written \in [Callers -> 0 .. MaxLength]
      BY <1>4 DEF SetBegin, Goto, evictVars, Setting, SetPhases, TypeOK
    <2>2. written' = written
      BY <2>1 DEF BoundInv
    <2>3. \A d \in Callers : RoomComes(d) <=> RoomComes(d)'
      BY <2>1, <2>2 DEF RoomComes
    <2>4. Coming' = Coming
      BY <2>2 DEF Coming
    <2>. QED
      BY <1>1, <1>2, <2>1, <2>2, <2>3, <2>4 DEF BoundInv, Fitting
  <1>. QED
    BY <1>3, <1>4

(* The eviction for all that a Set has written has found room for it; the     *)
(* last eviction leaves room for one item at least, of which there is one for *)
(* each caller.                                                              *)
LEMMA BoundEvicted ==
  ASSUME BoundInv, TypeOK, TypeOK', Accounting, NEW e \in Evictors, EvictDone(e)
  PROVE  BoundInv'
  <1>1. /\ UNCHANGED <<life, health, currentSize, written, pc>>
        /\ epc' = [epc EXCEPT ![e] = "idle"] /\ need' = [need EXCEPT ![e] = 0]
        /\ owner' = [owner EXCEPT ![e] = Returned]
        /\ currentSize + need[e] <= MaxSize /\ need[e] \in Nat
    <2>1. EvictReturn(e, "nil") /\ ~(MaxSize - currentSize < need[e]) /\ UNCHANGED currentSize
      BY DEF EvictDone, LacksSpace, indexVars
    <2>2. need[e] \in Nat /\ currentSize \in Int /\ MaxSize \in Nat
      BY CacheAssumption DEF TypeOK
    <2>3. currentSize + need[e] <= MaxSize
      BY <2>1, <2>2
    <2>. QED
      BY <2>1, <2>2, <2>3 DEF EvictReturn, callVars
  <1>2. \A f \in Evictors \ {e} : epc'[f] = epc[f] /\ need'[f] = need[f] /\ owner'[f] = owner[f]
    BY <1>1 DEF TypeOK
  <1>3. currentSize \in Nat
    BY ChunksFinite DEF Accounting, Total, TypeOK
  <1>4. ASSUME NEW c \in Callers, RoomComes(c) PROVE RoomComes(c)' \/ currentSize + written[c] <= MaxSize
    <2>1. PICK f \in Evictors : epc[f] # "idle" /\ owner[f] = c /\ need[f] = written[c]
      BY <1>4 DEF RoomComes
    <2>. QED
      BY <1>1, <1>2, <2>1 DEF RoomComes
  <1>5. \A c \in Callers : ~Setting(c)' => written'[c] = 0
    BY <1>1 DEF BoundInv, Setting
  <1> SUFFICES ASSUME MaxSize > 0, life = "up", health = "sound"
               PROVE  /\ \A c \in Callers : written[c] > MaxSize => RoomComes(c)'
                      /\ \E c \in Callers : written[c] = 0 \/ RoomComes(c)' \/ currentSize + written[c] <= MaxSize
                      /\ (\A f \in Evictors : epc'[f] = "idle") =>
                           currentSize + Coming <= MaxSize + (Cardinality(Callers) - 1) * Fitting
    BY <1>1, <1>5 DEF BoundInv, Coming, Fitting
  <1>6. \A c \in Callers : written[c] > MaxSize => RoomComes(c)'
    <2> SUFFICES ASSUME NEW c \in Callers, written[c] > MaxSize, ~RoomComes(c)' PROVE FALSE
      OBVIOUS
    <2>1. RoomComes(c)
      BY DEF BoundInv
    <2>2. currentSize + written[c] <= MaxSize
      BY <1>4, <2>1
    <2>. QED
      BY <1>3, <2>2, BoundTypes
  <1>7. PICK c \in Callers : written[c] = 0 \/ RoomComes(c)' \/ currentSize + written[c] <= MaxSize
    BY <1>4 DEF BoundInv
  <1>8. ASSUME \A f \in Evictors : epc'[f] = "idle"
        PROVE  currentSize + Coming <= MaxSize + (Cardinality(Callers) - 1) * Fitting
    <2>1. ~RoomComes(c)' /\ \A d \in Callers : ~RoomComes(d)'
      BY <1>8 DEF RoomComes
    <2>2. currentSize + written[c] <= MaxSize
      <3>1. CASE written[c] = 0
        BY <1>1, <1>3, <3>1, BoundTypes
      <3>. QED
        BY <1>7, <2>1, <3>1
    <2>3. \A d \in Callers : written[d] <= MaxSize
      BY <1>6, <2>1, BoundTypes
    <2> DEFINE rest == (Cardinality(Callers) - 1) * Fitting
    <2>4. Coming <= written[c] + rest
      BY <2>3, OneItemEach
    <2>5. Coming \in Int /\ written[c] \in Int /\ MaxSize \in Int /\ rest \in Int
      <3>1. Cardinality(Callers) \in Nat /\ Fitting \in Nat
        BY CacheAssumption, FS_CardinalityType DEF Fitting
      <3>. QED
        BY <3>1, BoundTypes
    <2> HIDE DEF rest
    <2>6. currentSize + Coming <= MaxSize + rest
      BY <1>3, <2>2, <2>4, <2>5
    <2>. QED
      BY <2>6 DEF rest
  <1>. QED
    BY <1>6, <1>7, <1>8

LEMMA BoundStep ==
  ASSUME Callers # {}, BoundInv, IndexInv, TypeOK', [Next]_vars
  PROVE  BoundInv'
  <1> USE DEF Goto, indexVars, callVars, evictVars, Setting, SetPhases
  <1>0. TypeOK /\ Accounting /\ IdleUnlessUp
    BY DEF IndexInv
  <1>1. ASSUME NEW c \in Callers, \/ SetChunk(c) \/ \E k \in Keys, n \in Lengths : SetBegin(c, k, n)
        PROVE  BoundInv'
    BY <1>0, <1>1, BoundSet
  <1>2. ASSUME NEW c \in Callers, NEW k \in Keys, GetBegin(c, k) \/ RemoveBegin(c, k)
        PROVE  BoundInv'
    BY <1>0, <1>2, BoundFrame DEF GetBegin, RemoveBegin, TypeOK
  <1>3. ASSUME NEW c \in Callers, SetSync(c) \/ SetRenamed(c) \/ GetOpen(c)
        PROVE  BoundInv'
    BY <1>0, <1>3, BoundFrame DEF SetSync, SetRenamed, GetOpen, TypeOK
  <1>4. ASSUME NEW c \in Callers, SetRename(c)
        PROVE  BoundInv'
    <2>1. /\ pc[c] = "rename" /\ pc' = [pc EXCEPT ![c] = "renamed"]
          /\ UNCHANGED <<life, currentSize, written, epc, need, owner>>
      BY <1>4 DEF SetRename
    <2>2. \A d \in Callers : Setting(d)' <=> Setting(d)
      BY <1>0, <2>1 DEF TypeOK
    <2>3. CASE health' = health
      BY <1>0, <2>1, <2>2, <2>3, BoundFrame DEF TypeOK
    <2>4. CASE health' # health
      <3>1. health' = "harmed"
        BY <1>4, <2>4 DEF SetRename
      <3>. QED
        BY <2>1, <2>2, <3>1 DEF BoundInv
    <2>. QED
      BY <2>3, <2>4
  <1>5. ASSUME NEW c \in Callers,
               SetFail(c) \/ SetRenameError(c) \/ SetPublish(c) \/ GetFail(c) \/ ReaderClose(c) \/ RemoveEnd(c)
        PROVE  BoundInv'
    <2>1. Return(c) /\ UNCHANGED <<life, health, epc, need>>
      BY <1>5 DEF SetFail, SetRenameError, SetPublish, GetFail, ReaderClose, RemoveEnd
    <2>2. currentSize \in Int /\ written[c] \in Int /\ written[c] >= 0
      BY <1>0, BoundTypes
    <2>3. CASE RemoveEnd(c)
      <3>1. key[c] \in Keys
        BY <1>0, <2>3 DEF RemoveEnd, TypeOK
      <3>2. size[key[c]] \in Nat
        BY <1>0, <3>1, CacheAssumption DEF TypeOK
      <3>3. currentSize' = currentSize - size[key[c]] \/ currentSize' = currentSize
        BY <2>3 DEF RemoveEnd, RemoveItem
      <3>4. currentSize' <= currentSize + written[c]
        BY <2>2, <3>2, <3>3
      <3>. QED
        BY <1>0, <2>1, <3>4, BoundReturn
    <2>4. CASE ~RemoveEnd(c)
      <3>1. currentSize' = currentSize + written[c] \/ currentSize' = currentSize
        BY <1>5, <2>4 DEF SetFail, SetRenameError, SetPublish, GetFail, ReaderClose
      <3>2. currentSize' <= currentSize + written[c]
        BY <2>2, <3>1
      <3>. QED
        BY <1>0, <2>1, <3>2, BoundReturn
    <2>. QED
      BY <2>3, <2>4
  <1>6. ASSUME NEW e \in Evictors, EvictStart(e)
        PROVE  BoundInv'
    BY <1>0, <1>6, BoundFrame DEF EvictStart, TypeOK
  <1>7. ASSUME NEW e \in Evictors, EvictItem(e)
        PROVE  BoundInv'
    <2>1. PICK k \in EvictLRU : RemoveItem(k)
      BY <1>7 DEF EvictItem
    <2>2. k \in Keys
      BY <1>0 DEF EvictLRU, TypeOK
    <2>3. currentSize' = currentSize - size[k] /\ size[k] \in Nat /\ currentSize \in Int
      BY <1>0, <2>1, <2>2, CacheAssumption DEF RemoveItem, TypeOK
    <2>4. currentSize' <= currentSize
      BY <2>3
    <2>. QED
      BY <1>0, <1>7, <2>4, BoundFrame DEF EvictItem
  <1>8. ASSUME NEW e \in Evictors, EvictFails(e) \/ EvictNoSpace(e)
        PROVE  BoundInv'
    <2>1. health' = "harmed" /\ UNCHANGED <<pc, written>>
      BY <1>8 DEF EvictFails, EvictNoSpace, EvictReturn
    <2>. QED
      BY <2>1 DEF BoundInv
  <1>9. ASSUME NEW e \in Evictors, EvictDone(e)
        PROVE  BoundInv'
    BY <1>0, <1>9, BoundEvicted
  <1>10. CASE Crash
    BY <1>10 DEF Crash, BoundInv
  <1>11. CASE LoadExistingItems \/ BootEvict
    BY <1>11 DEF LoadExistingItems, BootEvict, BoundInv
  <1>12. CASE Booted
    <2>1. UNCHANGED <<pc, written, currentSize>> /\ (MaxSize > 0 => currentSize <= MaxSize)
      BY <1>12 DEF Booted
    <2>2. \A c \in Callers : pc[c] = "idle" /\ written[c] = 0
      BY <1>0, <1>12 DEF Booted, IdleUnlessUp, BoundInv
    <2>3. written = [c \in Callers |-> 0]
      BY <1>0, <2>2 DEF TypeOK
    <2>4. PICK c \in Callers : TRUE
      OBVIOUS
    <2>5. Coming <= written[c] + (Cardinality(Callers) - 1) * Fitting
      BY <1>0, <2>2, BoundTypes, OneItemEach
    <2>6. MaxSize > 0 => currentSize' + Coming' <= MaxSize + (Cardinality(Callers) - 1) * Fitting
      <3> DEFINE rest == (Cardinality(Callers) - 1) * Fitting
      <3>1. rest \in Int /\ Coming \in Int /\ currentSize \in Int /\ MaxSize \in Int
        <4>1. Cardinality(Callers) \in Nat /\ Fitting \in Nat
          BY CacheAssumption, FS_CardinalityType DEF Fitting
        <4>. QED
          BY <1>0, <4>1, BoundTypes
      <3>2. Coming' = Coming /\ Coming <= rest
        <4>1. UNCHANGED written /\ written[c] = 0
          BY <2>1, <2>2
        <4>. QED
          BY <2>5, <3>1, <4>1 DEF Coming
      <3> HIDE DEF rest
      <3>3. MaxSize > 0 => currentSize + Coming <= MaxSize + rest
        BY <2>1, <3>1, <3>2
      <3>. QED
        BY <2>1, <3>2, <3>3 DEF rest
    <2>. QED
      BY <2>1, <2>2, <2>4, <2>6, CacheAssumption DEF BoundInv, Fitting
  <1>13. CASE UNCHANGED vars
    BY <1>0, <1>13, BoundFrame DEF vars, TypeOK
  <1>. QED
    BY <1>1, <1>2, <1>3, <1>4, <1>5, <1>6, <1>7, <1>8, <1>9, <1>10, <1>11, <1>12, <1>13
    DEF Next, Start, CallerStep, SetStep, GetStep, EvictStep

(* However many Sets run beside one another and whatever their evictions know *)
(* of one another: when all is done and nothing failed, the cache holds no    *)
(* more than MaxSize and one item for each further caller.                   *)
THEOREM BoundCorrect == ASSUME Callers # {} PROVE Spec => []SettledBound
  <1>1. Init => IndexInv
    BY IndexInvInit
  <1>2. IndexInv /\ Init => BoundInv
    <2> SUFFICES ASSUME IndexInv, Init PROVE BoundInv
      OBVIOUS
    <2>1. PICK c \in Callers : TRUE
      OBVIOUS
    <2>2. TypeOK /\ currentSize = 0 /\ \A d \in Callers : written[d] = 0
      BY DEF IndexInv, Init
    <2>3. Coming <= written[c] + (Cardinality(Callers) - 1) * Fitting
      BY <2>2, BoundTypes, OneItemEach
    <2> DEFINE rest == (Cardinality(Callers) - 1) * Fitting
    <2>4. rest \in Int
      <3>1. Cardinality(Callers) \in Nat /\ Fitting \in Nat
        BY CacheAssumption, FS_CardinalityType DEF Fitting
      <3>. QED
        BY <3>1
    <2>5. written[c] = 0 /\ Coming <= written[c] + rest
      BY <2>2, <2>3
    <2> HIDE DEF rest
    <2>6. currentSize + Coming <= MaxSize + rest
      BY <2>2, <2>4, <2>5, BoundTypes
    <2>. QED
      BY <2>1, <2>2, <2>6, BoundTypes DEF BoundInv, rest
  <1>3. TypeOK' /\ IndexInv /\ [Next]_vars => IndexInv'
    BY IndexInvStep
  <1>4. TypeOK' /\ IndexInv /\ BoundInv /\ [Next]_vars => BoundInv'
    BY BoundStep
  <1>5. TypeOK /\ BoundInv => SettledBound
    <2> SUFFICES ASSUME TypeOK, BoundInv, MaxSize > 0, Settled, health = "sound"
                 PROVE  currentSize <= MaxSize + (Cardinality(Callers) - 1) * Fitting
      BY DEF SettledBound
    <2> DEFINE bound == MaxSize + (Cardinality(Callers) - 1) * Fitting
    <2>1. currentSize + Coming <= bound /\ bound \in Int /\ Coming \in Nat /\ currentSize \in Int
      BY BoundTypes DEF BoundInv, Settled
    <2> HIDE DEF bound
    <2>2. currentSize <= bound
      BY <2>1
    <2>. QED
      BY <2>2 DEF bound
  <1>. QED
    BY <1>1, <1>2, <1>3, <1>4, <1>5, TypeCorrect, PTL DEF Spec

-----------------------------------------------------------------------------
(* SegmentCache: the readers and the mutex per key                           *)

Places == {"closed", "open", "begin", "locking", "lookup", "miss", "fill", "regain", "get", "serve"}

(* What a Read does with the mutex of its key.                               *)
Busy(r) == at[r] \in {"lookup", "miss", "fill", "regain", "get", "serve"}

ReadTypes ==
  /\ keyLock \in [Keys -> Callers \cup {Free}]
  /\ at \in [Callers -> Places]
  /\ segment \in [Callers -> Keys \cup {NoKey}]
  /\ source \in [Callers -> Int]

(* A reader is in the call of the cache that its place says, about its        *)
(* segment; and after a miss nobody else brings the segment to the index.    *)
ReaderInv(r) ==
  /\ life # "up" => at[r] = "closed"
  /\ at[r] # "closed" => segment[r] \in Keys
  /\ Busy(r) => keyLock[segment[r]] = r
  /\ Setting(r) <=> at[r] = "fill"
  /\ pc[r] = "get" <=> at[r] = "get"
  /\ pc[r] = "reading" <=> at[r] = "serve"
  /\ pc[r] # "remove"
  /\ at[r] \in {"fill", "get", "serve"} => key[r] = segment[r]
  /\ at[r] = "fill" => source[r] = want[r] - written[r]
  /\ source[r] \in NoSource .. MaxLength
  /\ at[r] = "miss" => segment[r] \notin indexed

SegInv == ReadTypes /\ \A r \in Callers : ReaderInv(r)

LEMMA SegInvInit == SegInit => SegInv
BY CacheAssumption
DEF SegInit, Init, SegInv, ReadTypes, ReaderInv, Places, Busy, Setting, SetPhases, NoSource

(* A step of one reader leaves the others what they have, if it leaves their  *)
(* mutexes to them and brings no segment to the index but its own, under the  *)
(* mutex.                                                                    *)
LEMMA OthersKeep ==
  ASSUME SegInv, NEW r \in Callers, life = "up", life' = "up", ReadTypes', ReaderInv(r)',
         \A s \in Callers \ {r} :
           /\ at'[s] = at[s] /\ segment'[s] = segment[s] /\ source'[s] = source[s]
           /\ pc'[s] = pc[s] /\ key'[s] = key[s] /\ want'[s] = want[s] /\ written'[s] = written[s],
         \A k \in Keys : keyLock[k] \notin {r, Free} => keyLock'[k] = keyLock[k],
         \A k \in indexed' \ indexed : Busy(r) /\ k = segment[r]
  PROVE  SegInv'
<1>1. ASSUME NEW s \in Callers \ {r} PROVE ReaderInv(s)'
  <2>1. ReaderInv(s) /\ ReaderInv(r)
    BY DEF SegInv
  <2>2. s # Free
    BY CacheAssumption
  <2>3. Busy(s) => segment[s] \in Keys /\ keyLock[segment[s]] = s /\ (Busy(r) => segment[s] # segment[r])
    BY <2>1 DEF ReaderInv, Busy
  <2>4. Busy(s)' => keyLock'[segment'[s]] = s
    BY <2>2, <2>3 DEF Busy
  <2>5. at'[s] = "miss" => segment'[s] \notin indexed'
    BY <2>1, <2>3 DEF ReaderInv, Busy
  <2> QED
    BY <2>1, <2>4, <2>5 DEF ReaderInv, Setting, SetPhases
<1> QED
  BY <1>1 DEF SegInv

(* The readers are closed, and lost, where the process ends.                 *)
LEMMA LoseKeeps ==
  ASSUME IndexInv, Crash, LoseReaders
  PROVE  SegInv'
BY CacheAssumption
DEF Crash, LoseReaders, SegInv, ReadTypes, ReaderInv, Places, Busy, Setting, SetPhases, NoSource,
    IndexInv, TypeOK

(* What the cache does by itself: evictions, and the start after a crash.    *)
LEMMA CacheKeeps ==
  ASSUME SegInv, IndexInv, UNCHANGED segVars,
         (\E e \in Evictors : EvictStep(e)) \/ LoadExistingItems \/ BootEvict \/ Booted
  PROVE  SegInv'
<1>1. UNCHANGED callVars /\ UNCHANGED <<keyLock, at, segment, source>>
  BY DEF segVars, readVars, EvictStep, EvictStart, EvictItem, EvictFails, EvictNoSpace, EvictDone,
         EvictReturn, LoadExistingItems, BootEvict, Booted, callVars, evictVars
<1>2. \/ life' = life /\ indexed' \subseteq indexed
      \/ life # "up" /\ \A r \in Callers : at[r] = "closed"
  BY DEF SegInv, ReaderInv, EvictStep, EvictStart, EvictItem, EvictFails, EvictNoSpace, EvictDone,
         EvictReturn, LoadExistingItems, BootEvict, Booted, indexVars, RemoveItem
<1> QED
  BY <1>1, <1>2 DEF SegInv, ReadTypes, ReaderInv, Busy, Setting, SetPhases, callVars
-----------------------------------------------------------------------------
(* The steps of a reader                                                     *)

(* Facts of every step that follow from the types.                           *)
LEMMA ReaderTypes ==
  ASSUME SegInv, IndexInv, NEW r \in Callers
  PROVE  /\ pc[r] \in SetPhases \cup {"idle", "get", "reading", "remove"}
         /\ pc \in [Callers -> SetPhases \cup {"idle", "get", "reading", "remove"}]
         /\ key \in [Callers -> Keys \cup {NoKey}]
         /\ want \in [Callers -> 0 .. MaxLength] /\ written \in [Callers -> 0 .. MaxLength]
         /\ MaxLength \in Nat \ {0} /\ NoSource \in Int
         /\ ReaderInv(r) /\ ReadTypes
BY SegmentAssumption, CacheAssumption DEF SegInv, IndexInv, TypeOK, NoSource

(* A Read that returns frees the mutex that it holds, and no other.          *)
LEMMA LeaveKeeps ==
  ASSUME SegInv, NEW r \in Callers, Busy(r), LeaveRead(r)
  PROVE  /\ \A k \in Keys : keyLock[k] \notin {r, Free} => keyLock'[k] = keyLock[k]
         /\ \A s \in Callers \ {r} : at'[s] = at[s]
<1>1. ReaderInv(r) /\ ReadTypes
  BY DEF SegInv
<1>2. segment[r] \in Keys /\ keyLock[segment[r]] = r
  BY <1>1 DEF ReaderInv, Busy
<1> QED
  BY <1>1, <1>2 DEF LeaveRead, ReadTypes

LEMMA ClientStep ==
  ASSUME SegInv, IndexInv, NEW r \in Callers, Client(r)
  PROVE  SegInv'
<1> USE ReaderTypes DEF vars, callVars, indexVars, sizeVars, GotoRead
<1>1. ASSUME NEW k \in Keys, Open(r, k)
      PROVE  SegInv'
  <2>1. ReadTypes' /\ ReaderInv(r)'
    BY <1>1 DEF Open, ReadTypes, ReaderInv, Busy, Places, Setting, SetPhases
  <2> QED
    BY <1>1, <2>1, OthersKeep DEF Open, ReadTypes
<1>2. CASE CloseReader(r)
  <2>1. ReadTypes' /\ ReaderInv(r)'
    BY <1>2 DEF CloseReader, ReadTypes, ReaderInv, Busy, Places, Setting, SetPhases, NoSource
  <2> QED
    BY <1>2, <2>1, OthersKeep DEF CloseReader, ReadTypes
<1>3. CASE SeekEndReads(r) \/ ReadEOF(r) \/ ReadBegin(r)
  <2>1. /\ life = "up" /\ at[r] \in {"open", "begin"}
        /\ at' = [at EXCEPT ![r] = at'[r]] /\ at'[r] \in {"open", "begin", "locking"}
        /\ UNCHANGED <<vars, keyLock, segment, source>>
    BY <1>3 DEF SeekEndReads, ReadEOF, ReadBegin, readVars, ReadTypes
  <2>2. ReadTypes' /\ ReaderInv(r)'
    BY <2>1 DEF ReadTypes, ReaderInv, Busy, Places, Setting, SetPhases
  <2> QED
    BY <2>1, <2>2, OthersKeep DEF ReadTypes
<1>4. ASSUME SeekEnd(r) \/ \E i \in 0 .. MaxLength : Seek(r, i)
      PROVE  SegInv'
  <2>1. UNCHANGED <<vars, keyLock, at, segment, source>>
    BY <1>4 DEF SeekEnd, Seek
  <2> QED
    BY <2>1 DEF SegInv, ReadTypes, ReaderInv, Busy, Setting
<1> QED
  BY <1>1, <1>2, <1>3, <1>4 DEF Client

(* The steps up to the fill.                                                 *)
LEMMA LookupStep ==
  ASSUME SegInv, IndexInv, NEW r \in Callers, ReadLock(r) \/ ReadHit(r) \/ ReadMiss(r) \/ FillBegin(r)
  PROVE  SegInv'
<1> USE ReaderTypes DEF vars, callVars, indexVars, sizeVars, readVars, GotoRead
<1>1. CASE ReadLock(r)
  <2>1. ReadTypes' /\ ReaderInv(r)'
    BY <1>1, CacheAssumption DEF ReadLock, ReadTypes, ReaderInv, Busy, Places, Setting, SetPhases
  <2> QED
    BY <1>1, <2>1, OthersKeep DEF ReadLock, ReadTypes
<1>2. CASE ReadHit(r)
  <2>1. /\ life = "up" /\ life' = "up" /\ at[r] \in {"lookup", "regain"} /\ at' = [at EXCEPT ![r] = "get"]
        /\ pc[r] = "idle" /\ pc' = [pc EXCEPT ![r] = "get"] /\ key' = [key EXCEPT ![r] = segment[r]]
        /\ UNCHANGED <<keyLock, segment, source, indexed, want, written>>
    BY <1>2 DEF ReadHit, GetBegin, Goto
  <2>2. ReadTypes' /\ ReaderInv(r)'
    BY <2>1 DEF ReadTypes, ReaderInv, Busy, Places, Setting, SetPhases
  <2> QED
    BY <2>1, <2>2, OthersKeep DEF ReadTypes
<1>3. CASE ReadMiss(r)
  <2>1. ReadTypes' /\ ReaderInv(r)'
    BY <1>3 DEF ReadMiss, ReadTypes, ReaderInv, Busy, Places, Setting, SetPhases
  <2> QED
    BY <1>3, <2>1, OthersKeep DEF ReadMiss, ReadTypes
<1>4. CASE FillBegin(r)
  <2>1. /\ life = "up" /\ life' = "up" /\ at[r] = "miss" /\ at' = [at EXCEPT ![r] = "fill"]
        /\ pc' = [pc EXCEPT ![r] = "copy"] /\ key' = [key EXCEPT ![r] = segment[r]]
        /\ want' = [want EXCEPT ![r] = source[r]] /\ written' = [written EXCEPT ![r] = 0]
        /\ UNCHANGED <<keyLock, segment, source, indexed>>
    BY <1>4 DEF FillBegin, SetBegin, Goto
  <2>2. ReadTypes' /\ ReaderInv(r)'
    BY <2>1 DEF ReadTypes, ReaderInv, Busy, Places, Setting, SetPhases
  <2> QED
    BY <2>1, <2>2, OthersKeep DEF ReadTypes
<1> QED
  BY <1>1, <1>2, <1>3, <1>4

(* The steps of the fill.                                                    *)
LEMMA FillSteps ==
  ASSUME SegInv, IndexInv, NEW r \in Callers,
         FillChunk(r) \/ FillStep(r) \/ FillFail(r) \/ FillRenameError(r) \/ FillDone(r)
  PROVE  SegInv'
<1> USE ReaderTypes DEF callVars, indexVars, sizeVars, readVars
<1>1. CASE FillChunk(r)
  <2>1. /\ life = "up" /\ life' = "up" /\ pc[r] = "copy" /\ pc' = [pc EXCEPT ![r] = "copy"]
        /\ written[r] < want[r] /\ written' = [written EXCEPT ![r] = @ + 1]
        /\ source' = [source EXCEPT ![r] = @ - 1]
        /\ UNCHANGED <<keyLock, at, segment, indexed, key, want>>
    BY <1>1 DEF FillChunk, SetChunk, ReadSource, Goto
  <2>2. ReadTypes' /\ ReaderInv(r)'
    BY <2>1 DEF ReadTypes, ReaderInv, Busy, Places, Setting, SetPhases, NoSource
  <2> QED
    BY <2>1, <2>2, OthersKeep DEF ReadTypes
<1>2. CASE FillStep(r)
  <2>1. /\ life = "up" /\ life' = "up" /\ pc[r] \in SetPhases /\ pc' = [pc EXCEPT ![r] = pc'[r]]
        /\ pc'[r] \in SetPhases
        /\ UNCHANGED <<keyLock, at, segment, source, indexed, key, want, written>>
    BY <1>2 DEF FillStep, SetSync, SetRename, SetRenamed, Goto, segVars, SetPhases
  <2>2. ReadTypes' /\ ReaderInv(r)'
    BY <2>1 DEF ReadTypes, ReaderInv, Busy, Setting, SetPhases
  <2> QED
    BY <2>1, <2>2, OthersKeep DEF ReadTypes
<1>3. CASE FillFail(r) \/ FillRenameError(r)
  <2>1. /\ life = "up" /\ life' = "up" /\ pc[r] \in SetPhases /\ Return(r) /\ LeaveRead(r)
        /\ UNCHANGED <<segment, indexed>>
        /\ source' = source \/ (written[r] < want[r] /\ source' = [source EXCEPT ![r] = @ - 1])
    BY <1>3 DEF FillFail, FillRenameError, SetFail, SetRenameError, ReadSource, SetPhases
  <2>2. ReadTypes' /\ ReaderInv(r)'
    BY <2>1 DEF ReadTypes, ReaderInv, Return, LeaveRead, Busy, Places, Setting, SetPhases, NoSource
  <2>3. Busy(r)
    BY <2>1 DEF ReaderInv, Busy, Setting
  <2>4. ASSUME NEW s \in Callers \ {r}
        PROVE  /\ segment'[s] = segment[s] /\ source'[s] = source[s] /\ pc'[s] = pc[s] /\ key'[s] = key[s]
               /\ want'[s] = want[s] /\ written'[s] = written[s]
    BY <2>1 DEF ReadTypes, Return
  <2> QED
    BY <2>1, <2>2, <2>3, <2>4, LeaveKeeps, OthersKeep
<1>4. CASE FillDone(r)
  <2>1. /\ life = "up" /\ life' = "up" /\ pc[r] = "publish" /\ Return(r)
        /\ indexed' = indexed \cup {key[r]}
        /\ at' = [at EXCEPT ![r] = "regain"] /\ source' = [source EXCEPT ![r] = NoSource]
        /\ UNCHANGED <<keyLock, segment>>
    BY <1>4 DEF FillDone, SetPublish
  <2>2. ReadTypes' /\ ReaderInv(r)'
    BY <2>1 DEF ReadTypes, ReaderInv, Return, Busy, Places, Setting, SetPhases, NoSource
  <2> QED
    BY <2>1, <2>2, OthersKeep DEF ReadTypes, ReaderInv, Return, Busy, Setting, SetPhases
<1> QED
  BY <1>1, <1>2, <1>3, <1>4

(* The steps from the fill to the end of a Read.                             *)
LEMMA ServeSteps ==
  ASSUME SegInv, IndexInv, NEW r \in Callers,
         RegainFails(r) \/ OpenItem(r) \/ OpenFails(r) \/ Serve(r)
  PROVE  SegInv'
<1> USE ReaderTypes DEF vars, callVars, indexVars, sizeVars, readVars
<1>1. CASE OpenItem(r)
  <2>1. /\ life = "up" /\ life' = "up" /\ pc[r] = "get" /\ pc' = [pc EXCEPT ![r] = "reading"]
        /\ at' = [at EXCEPT ![r] = "serve"]
        /\ UNCHANGED <<keyLock, segment, source, indexed, key, want, written>>
    BY <1>1 DEF OpenItem, GetOpen, Goto
  <2>2. ReadTypes' /\ ReaderInv(r)'
    BY <2>1 DEF ReadTypes, ReaderInv, Busy, Places, Setting, SetPhases
  <2> QED
    BY <2>1, <2>2, OthersKeep DEF ReadTypes
<1>2. CASE RegainFails(r)
  <2>1. ReadTypes' /\ ReaderInv(r)'
    BY <1>2 DEF RegainFails, LeaveRead, ReadTypes, ReaderInv, Busy, Places, Setting, SetPhases
  <2>2. Busy(r) /\ LeaveRead(r)
    BY <1>2 DEF RegainFails, Busy
  <2> QED
    BY <1>2, <2>1, <2>2, LeaveKeeps, OthersKeep DEF RegainFails
<1>3. CASE OpenFails(r) \/ Serve(r)
  <2>1. /\ life = "up" /\ life' = "up" /\ pc[r] \in {"get", "reading"} /\ Return(r) /\ LeaveRead(r)
        /\ UNCHANGED <<segment, source, indexed>>
    BY <1>3 DEF OpenFails, Serve, GetFail, ReaderClose
  <2>2. ReadTypes' /\ ReaderInv(r)'
    BY <2>1 DEF ReadTypes, ReaderInv, Return, LeaveRead, Busy, Places, Setting, SetPhases
  <2>3. Busy(r)
    BY <2>1 DEF ReaderInv, Busy
  <2>4. ASSUME NEW s \in Callers \ {r}
        PROVE  /\ segment'[s] = segment[s] /\ source'[s] = source[s] /\ pc'[s] = pc[s] /\ key'[s] = key[s]
               /\ want'[s] = want[s] /\ written'[s] = written[s]
    BY <2>1 DEF ReadTypes, Return
  <2> QED
    BY <2>1, <2>2, <2>3, <2>4, LeaveKeeps, OthersKeep
<1> QED
  BY <1>1, <1>2, <1>3

LEMMA SegInvStep ==
  ASSUME SegInv, IndexInv, [SegNext]_allVars
  PROVE  SegInv'
<1>1. ASSUME NEW r \in Callers, ReadStep(r)
      PROVE  SegInv'
  BY <1>1, LookupStep, FillSteps, ServeSteps, LoseKeeps DEF ReadStep, Panic
<1>2. ASSUME UNCHANGED allVars \/ \E k \in Keys : Size(k) \/ IsSizeAccurate(k)
      PROVE  SegInv'
  <2>1. UNCHANGED <<vars, keyLock, at, segment, source>>
    BY <1>2 DEF allVars, segVars, readVars, Size, IsSizeAccurate
  <2> QED
    BY <2>1 DEF vars, callVars, indexVars, SegInv, ReadTypes, ReaderInv, Busy, Setting
<1> QED
  BY <1>1, <1>2, ClientStep, LoseKeeps, CacheKeeps DEF SegNext, SegCrash

-----------------------------------------------------------------------------
(* A reader is a caller of DiskCache                                         *)

(* Every step is one of the disk cache, or leaves it alone.                  *)
LEMMA SegStepImplements ==
  ASSUME SegInv, IndexInv, [SegNext]_allVars
  PROVE  [Next]_vars
<1>1. ASSUME NEW r \in Callers, ReadStep(r)
      PROVE  [Next]_vars
  <2>1. CASE ReadLock(r) \/ ReadMiss(r) \/ RegainFails(r)
    BY <2>1 DEF ReadLock, ReadMiss, RegainFails
  <2>2. CASE ReadHit(r)
    <3>1. GetBegin(r, segment[r]) /\ segment[r] \in Keys
      BY <2>2 DEF ReadHit, GetBegin, IndexInv, TypeOK
    <3> QED
      BY <3>1 DEF Next, Start
  <2>3. CASE FillBegin(r)
    <3>1. SetBegin(r, segment[r], source[r]) /\ at[r] = "miss" /\ source[r] # NoSource
      BY <2>3 DEF FillBegin
    <3>2. segment[r] \in Keys /\ source[r] \in Lengths
      BY <3>1, SegmentAssumption, CacheAssumption DEF SegInv, ReaderInv, NoSource
    <3> QED
      BY <3>1, <3>2 DEF Next, Start
  <2>4. CASE FillChunk(r) \/ FillStep(r) \/ FillFail(r) \/ FillRenameError(r) \/ FillDone(r)
    <3>1. SetStep(r)
      BY <2>4 DEF FillChunk, FillStep, FillFail, FillRenameError, FillDone, SetStep
    <3> QED
      BY <3>1 DEF Next, CallerStep
  <2>5. CASE OpenItem(r) \/ OpenFails(r) \/ Serve(r)
    <3>1. GetStep(r)
      BY <2>5 DEF OpenItem, OpenFails, Serve, GetStep
    <3> QED
      BY <3>1 DEF Next, CallerStep
  <2>6. CASE Panic(r)
    BY <2>6 DEF Panic, Next
  <2> QED
    BY <1>1, <2>1, <2>2, <2>3, <2>4, <2>5, <2>6 DEF ReadStep
<1>2. ASSUME NEW r \in Callers, Client(r)
      PROVE  UNCHANGED vars
  BY <1>2 DEF Client, Open, Seek, CloseReader, SeekEnd, SeekEndReads, ReadEOF, ReadBegin
<1>3. ASSUME UNCHANGED allVars \/ \E k \in Keys : Size(k) \/ IsSizeAccurate(k)
      PROVE  UNCHANGED vars
  BY <1>3 DEF allVars, Size, IsSizeAccurate
<1>4. CASE SegCrash \/ (LoadExistingItems \/ BootEvict \/ Booted) \/ \E e \in Evictors : EvictStep(e)
  BY <1>4 DEF SegCrash, Next
<1> QED
  BY <1>1, <1>2, <1>3, <1>4 DEF SegNext

SegIndexInv == SegInv /\ IndexInv

LEMMA SegIndexStep == SegIndexInv /\ [SegNext]_allVars => SegIndexInv' /\ [Next]_vars /\ TypeOK'
<1> SUFFICES ASSUME SegInv, IndexInv, [SegNext]_allVars
             PROVE  SegInv' /\ IndexInv' /\ [Next]_vars /\ TypeOK'
  BY DEF SegIndexInv
<1>1. [Next]_vars
  BY SegStepImplements
<1>2. TypeOK'
  BY <1>1, TypeStep DEF IndexInv
<1>3. IndexInv' /\ SegInv'
  BY <1>1, <1>2, IndexInvStep, SegInvStep
<1> QED
  BY <1>1, <1>2, <1>3

LEMMA SegIndexInit == SegInit => SegIndexInv
BY SegInvInit, IndexInvInit DEF SegIndexInv, SegInit

(* The readers, with all that the cache does by itself, are callers of        *)
(* DiskCache: what is proved of it holds below any readers.                  *)
THEOREM SegImplementsCache == SegSpec => Spec
<1>1. SegInit => Init
  BY DEF SegInit
<1> QED
  BY <1>1, SegIndexInit, SegIndexStep, PTL DEF SegSpec, Spec

(* When a Read is about to fill an item, nobody fills it and it is not        *)
(* indexed, however many resources share the segment: its mutex is held from  *)
(* the look-up to the last byte, and only a fill indexes an item.            *)
THEOREM ExclusiveCorrect == SegSpec => []CallersAreExclusive
<1>1. ASSUME SegInv, NEW r \in Callers, at[r] = "miss"
      PROVE  MaySet(r, segment[r])
  <2>1. ReaderInv(r) /\ Busy(r)
    BY <1>1 DEF SegInv, Busy
  <2>2. ASSUME NEW d \in Callers, Setting(d)
        PROVE  key[d] # segment[r]
    <3>1. ReaderInv(d)
      BY <1>1 DEF SegInv
    <3> QED
      BY <1>1, <2>1, <2>2, <3>1 DEF ReaderInv, Busy
  <2> QED
    BY <1>1, <2>1, <2>2 DEF MaySet, ReaderInv
<1>2. SegIndexInv => CallersAreExclusive
  BY <1>1 DEF SegIndexInv, CallersAreExclusive
<1> QED
  BY <1>2, SegIndexInit, SegIndexStep, PTL DEF SegSpec

-----------------------------------------------------------------------------
(* Whole segments                                                            *)

(* No file operation fails, and an eviction can make room for a segment.     *)
Unfailing == Faults = {} /\ (MaxSize > 0 => MaxLength <= MaxSize)

(* A reader has its article whole or not at all, but while it fills the cache *)
(* with it; so all that gets to CacheDir is a whole segment.                 *)
WholeInv ==
  /\ health = "sound" /\ \A c \in Callers : err[c] = "nil"
  /\ \A e \in Evictors : epc[e] # "idle" => MaxSize > 0
  /\ \A k \in Keys : disk[k] \in {NoFile, MaxLength}
  /\ \A k \in indexed : size[k] = MaxLength
  /\ \A r \in Callers :
       /\ at[r] # "fill" => source[r] \in {NoSource, MaxLength}
       /\ Setting(r) => want[r] = MaxLength
       /\ pc[r] \in {"renamed", "publish"} => written[r] = MaxLength

AllInv == SegIndexInv /\ FileInv /\ WholeInv

LEMMA WholeTypes ==
  ASSUME AllInv
  PROVE  /\ TypeOK /\ ReadTypes /\ WholeInv /\ MaxLength \in Nat \ {0} /\ MaxSize \in Nat
         /\ \A r \in Callers : ReaderInv(r)
         /\ Filled /\ ReadersProtected /\ Sized /\ Accounting /\ IndexedHasFile
BY SegmentAssumption, CacheAssumption DEF AllInv, SegIndexInv, SegInv, FileInv, Files, IndexInv

(* A step that leaves the cache's evictions, files and index alone.          *)
LEMMA WholeFrame ==
  ASSUME AllInv, UNCHANGED <<health, err, epc, disk, indexed, size, want, written>>,
         \A r \in Callers :
           /\ at'[r] # "fill" => source'[r] \in {NoSource, MaxLength}
           /\ Setting(r)' => Setting(r)
           /\ pc'[r] \in {"renamed", "publish"} => pc[r] \in {"renamed", "publish"}
  PROVE  WholeInv'
BY WholeTypes DEF WholeInv, Setting

(* An eviction finds an item to remove, whose file is there.                 *)
LEMMA EvictSucceeds ==
  ASSUME AllInv, Unfailing, NEW e \in Evictors
  PROVE  ~EvictFails(e) /\ ~EvictNoSpace(e)
<1> USE WholeTypes
<1>1. ASSUME EvictFails(e) PROVE FALSE
  <2>1. PICK k \in EvictLRU : RemoveFails(k)
    BY <1>1 DEF EvictFails
  <2>2. k \in Keys /\ disk[k] = size[k] /\ size[k] = MaxLength
    BY DEF EvictLRU, TypeOK, WholeInv, IndexedHasFile
  <2> QED
    BY <2>1, <2>2 DEF RemoveFails, NoFile, Unfailing
<1>2. ASSUME EvictNoSpace(e) PROVE FALSE
  <2>1. size = [k \in Keys |-> 0]
    BY <1>2 DEF EvictNoSpace, Sized, TypeOK
  <2>2. currentSize = 0
    BY <2>1, ChunksNone DEF Accounting, Total
  <2>3. MaxSize < need[e] /\ need[e] \in 0 .. MaxLength
    BY <1>2, <2>2 DEF EvictNoSpace, LacksSpace, TypeOK
  <2>4. MaxSize > 0
    BY <1>2 DEF EvictNoSpace, Evicting, WholeInv
  <2> QED
    BY <2>3, <2>4 DEF Unfailing
<1> QED
  BY <1>1, <1>2

(* removeFile leaves whole segments.                                         *)
LEMMA WholeRemove ==
  ASSUME AllInv, NEW k \in Keys, RemoveItem(k),
         UNCHANGED <<health, err, epc, want, written, pc, at, source>>
  PROVE  WholeInv'
<1>1. disk \in [Keys -> NoFile .. MaxLength] /\ size \in [Keys -> 0 .. MaxLength]
  BY WholeTypes DEF TypeOK
<1>2. /\ disk' = [disk EXCEPT ![k] = NoFile] /\ size' = [size EXCEPT ![k] = 0]
      /\ indexed' = indexed \ {k} /\ indexed \subseteq Keys
  BY WholeTypes DEF RemoveItem, TypeOK
<1> QED
  BY <1>1, <1>2, WholeTypes DEF WholeInv, Setting

LEMMA WholeCacheStep ==
  ASSUME AllInv, Unfailing, UNCHANGED segVars,
         (\E e \in Evictors : EvictStep(e)) \/ LoadExistingItems \/ BootEvict \/ Booted
  PROVE  WholeInv'
<1> USE DEF callVars, evictVars, indexVars, fileVars, tmpVars
<1>0. UNCHANGED <<at, source>>
  BY DEF segVars, readVars
<1>1. ASSUME NEW e \in Evictors, EvictStart(e)
      PROVE  WholeInv'
  BY <1>0, <1>1, WholeTypes DEF EvictStart, WholeInv, Setting, TypeOK
<1>2. ASSUME NEW e \in Evictors, EvictItem(e)
      PROVE  WholeInv'
  <2>1. PICK k \in EvictLRU : RemoveItem(k)
    BY <1>2 DEF EvictItem
  <2>2. k \in Keys
    BY WholeTypes DEF EvictLRU, TypeOK
  <2> QED
    BY <1>0, <1>2, <2>1, <2>2, WholeRemove DEF EvictItem
<1>3. ASSUME NEW e \in Evictors, EvictDone(e)
      PROVE  WholeInv'
  <2>1. /\ UNCHANGED <<indexVars, fileVars, callVars>> /\ epc' = [epc EXCEPT ![e] = "idle"]
        /\ err' = IF owner[e] = Returned THEN err ELSE [err EXCEPT ![owner[e]] = "nil"]
        /\ health' = health
    BY <1>3 DEF EvictDone, EvictReturn
  <2> QED
    BY <1>0, <2>1, WholeTypes DEF WholeInv, Setting, TypeOK
<1>4. CASE LoadExistingItems
  <2>1. /\ UNCHANGED <<health, fileVars, callVars, err, epc>> /\ indexed' = OnDisk
        /\ size' = [k \in Keys |-> IF k \in OnDisk THEN disk[k] ELSE 0]
    BY <1>4 DEF LoadExistingItems
  <2> QED
    BY <1>0, <2>1, WholeTypes DEF WholeInv, Setting, OnDisk
<1>5. CASE BootEvict
  <2>1. PICK k \in EvictLRU : RemoveItem(k)
    BY <1>5 DEF BootEvict
  <2>2. k \in Keys
    BY WholeTypes DEF EvictLRU, TypeOK
  <2> QED
    BY <1>0, <1>5, <2>1, <2>2, WholeRemove DEF BootEvict
<1>6. CASE Booted
  BY <1>0, <1>6, WholeTypes DEF Booted, WholeInv, Setting
<1> QED
  BY <1>1, <1>2, <1>3, <1>4, <1>5, <1>6, EvictSucceeds DEF EvictStep

LEMMA WholeLose ==
  ASSUME AllInv, Crash, LoseReaders
  PROVE  WholeInv'
BY WholeTypes
DEF WholeInv, Crash, LoseReaders, fileVars, Setting, SetPhases, TypeOK

LEMMA WholeReadStep ==
  ASSUME AllInv, Unfailing, NEW r \in Callers, ReadStep(r)
  PROVE  WholeInv'
<1> USE WholeTypes
    DEF vars, callVars, evictVars, indexVars, fileVars, tmpVars, readVars, sizeVars, GotoRead, Goto
<1>1. CASE ReadLock(r) \/ ReadMiss(r) \/ RegainFails(r)
  <2>1. /\ UNCHANGED <<vars, source>> /\ \A s \in Callers : at'[s] = "fill" <=> at[s] = "fill"
    BY <1>1 DEF ReadLock, ReadMiss, RegainFails, LeaveRead, ReadTypes
  <2> QED
    BY <2>1, WholeFrame DEF WholeInv, Setting
<1>2. CASE ReadHit(r) \/ OpenItem(r) \/ OpenFails(r) \/ Serve(r)
  <2>1. /\ UNCHANGED <<health, err, epc, disk, indexed, size, source>>
        /\ \A s \in Callers : at'[s] = "fill" <=> at[s] = "fill"
        /\ \A s \in Callers :
             \/ pc'[s] = pc[s] /\ want'[s] = want[s] /\ written'[s] = written[s]
             \/ pc'[s] \in {"idle", "get", "reading"}
    BY <1>2 DEF ReadHit, OpenItem, OpenFails, Serve, GetBegin, GetOpen, GetFail, ReaderClose, Return,
                LeaveRead, ReadTypes, TypeOK, ReaderInv
  <2> QED
    BY <2>1 DEF WholeInv, Setting, SetPhases
<1>3. CASE Panic(r)
  BY <1>3, WholeLose DEF Panic
<1>4. CASE FillBegin(r)
  <2>1. /\ at[r] = "miss" /\ source[r] # NoSource /\ at' = [at EXCEPT ![r] = "fill"]
        /\ pc' = [pc EXCEPT ![r] = "copy"] /\ want' = [want EXCEPT ![r] = source[r]]
        /\ written' = [written EXCEPT ![r] = 0] /\ err' = [err EXCEPT ![r] = "nil"]
        /\ UNCHANGED <<health, epc, disk, indexed, size, source>>
    BY <1>4 DEF FillBegin, SetBegin
  <2>2. source[r] = MaxLength
    BY <2>1 DEF WholeInv
  <2> QED
    BY <2>1, <2>2 DEF WholeInv, Setting, SetPhases, TypeOK, ReadTypes
<1>5. CASE FillChunk(r)
  <2>1. /\ pc[r] = "copy" /\ at[r] = "fill" /\ pc' = [pc EXCEPT ![r] = "copy"]
        /\ written' = [written EXCEPT ![r] = @ + 1] /\ source' = [source EXCEPT ![r] = @ - 1]
        /\ UNCHANGED <<at, want, health, err, disk, indexed, size>>
    BY <1>5 DEF FillChunk, SetChunk, ReadSource, ReaderInv, Setting, SetPhases
  <2>2. epc' = epc \/ MaxSize > 0
    BY <1>5 DEF FillChunk, SetChunk
  <2> QED
    BY <2>1, <2>2 DEF WholeInv, Setting, SetPhases, TypeOK, ReadTypes
<1>6. CASE FillStep(r)
  <2>1. UNCHANGED <<at, source>>
    BY <1>6 DEF FillStep, segVars
  <2>2. CASE SetSync(r)
    BY <2>1, <2>2 DEF SetSync, WholeInv, Setting, SetPhases, TypeOK
  <2>3. CASE SetRename(r)
    <3>1. /\ pc[r] = "rename" /\ pc' = [pc EXCEPT ![r] = "renamed"]
          /\ disk' = [disk EXCEPT ![key[r]] = tmp[key[r]]] /\ err' = [err EXCEPT ![r] = "nil"]
          /\ UNCHANGED <<health, epc, indexed, size, want, written>>
      BY <2>3 DEF SetRename, Unfailing
    <3>2. tmp[key[r]] = MaxLength /\ written[r] = MaxLength
      BY <3>1 DEF Filled, WholeInv, Setting, SetPhases
    <3> QED
      BY <2>1, <3>1, <3>2 DEF WholeInv, Setting, SetPhases, TypeOK
  <2>4. CASE SetRenamed(r)
    BY <2>1, <2>4 DEF SetRenamed, WholeInv, Setting, SetPhases, TypeOK
  <2> QED
    BY <1>6, <2>2, <2>3, <2>4 DEF FillStep
<1>7. ~FillFail(r) /\ ~FillRenameError(r)
  BY DEF FillFail, SetFail, FillRenameError, SetRenameError, Unfailing, WholeInv
<1>8. CASE FillDone(r)
  <2>1. /\ pc[r] = "publish" /\ Return(r) /\ at' = [at EXCEPT ![r] = "regain"]
        /\ source' = [source EXCEPT ![r] = NoSource]
        /\ indexed' = indexed \cup {key[r]} /\ size' = [size EXCEPT ![key[r]] = written[r]]
        /\ UNCHANGED <<health, err, epc, disk>>
    BY <1>8 DEF FillDone, SetPublish
  <2>2. written[r] = MaxLength /\ key[r] \in Keys
    BY <2>1 DEF WholeInv, TypeOK
  <2> QED
    BY <2>1, <2>2 DEF WholeInv, Return, Setting, SetPhases, TypeOK, ReadTypes
<1> QED
  BY <1>1, <1>2, <1>3, <1>4, <1>5, <1>6, <1>7, <1>8 DEF ReadStep

LEMMA WholeStep ==
  ASSUME Unfailing
  PROVE  AllInv /\ [SegNext]_allVars => AllInv'
<1> SUFFICES ASSUME AllInv, [SegNext]_allVars
             PROVE  AllInv'
  OBVIOUS
<1>1. SegIndexInv' /\ FileInv'
  BY SegIndexStep, FileInvStep DEF AllInv, SegIndexInv
<1>2. ASSUME NEW r \in Callers, Client(r)
      PROVE  WholeInv'
  <2>1. UNCHANGED vars
    BY <1>2 DEF Client, Open, Seek, CloseReader, SeekEnd, SeekEndReads, ReadEOF, ReadBegin
  <2>2. \A s \in Callers : at'[s] = "fill" <=> at[s] = "fill"
    BY <1>2, WholeTypes
    DEF Client, Open, Seek, CloseReader, SeekEnd, SeekEndReads, ReadEOF, ReadBegin, GotoRead, ReadTypes
  <2>3. \A s \in Callers : source'[s] = source[s] \/ source'[s] \in {NoSource, MaxLength}
    BY <1>2, WholeTypes
    DEF Client, Open, Seek, CloseReader, SeekEnd, SeekEndReads, ReadEOF, ReadBegin, readVars, ReadTypes
  <2> QED
    BY <2>1, <2>2, <2>3, WholeTypes
    DEF vars, callVars, evictVars, indexVars, fileVars, WholeInv, Setting
<1>3. ASSUME UNCHANGED allVars \/ \E k \in Keys : Size(k) \/ IsSizeAccurate(k)
      PROVE  WholeInv'
  <2>1. UNCHANGED <<vars, at, source>>
    BY <1>3 DEF allVars, segVars, readVars, Size, IsSizeAccurate
  <2> QED
    BY <2>1, WholeTypes DEF vars, callVars, evictVars, indexVars, fileVars, WholeInv, Setting
<1>4. WholeInv'
  BY <1>2, <1>3, WholeReadStep, WholeCacheStep, WholeLose DEF SegNext, SegCrash
<1> QED
  BY <1>1, <1>4 DEF AllInv

LEMMA WholeInit == SegInit => AllInv
<1> SUFFICES ASSUME SegInit PROVE AllInv
  OBVIOUS
<1>1. SegIndexInv
  BY SegIndexInit
<1>2. FileInv
  BY <1>1 DEF SegIndexInv, SegInit, Init, FileInv, MutexHeld, Filled, Placed, Files, IndexedHasFile,
              NoTornFile, ReadersProtected
<1>3. WholeInv
  BY DEF SegInit, Init, WholeInv, Setting, SetPhases
<1> QED
  BY <1>1, <1>2, <1>3 DEF AllInv

(* Where no file operation fails, a Read is served from the whole segment,    *)
(* whoever filled the cache, whatever was evicted, refilled or found there    *)
(* after a crash, for any number of readers and segments.                    *)
THEOREM WholeCorrect == ASSUME Unfailing PROVE SegSpec => []ServesWholeSegment
<1>1. AllInv => ServesWholeSegment
  <2> SUFFICES ASSUME AllInv, NEW r \in Callers, at[r] = "serve"
               PROVE  size[segment[r]] = MaxLength
    BY DEF ServesWholeSegment
  <2>1. pc[r] = "reading" /\ key[r] = segment[r]
    BY WholeTypes DEF ReaderInv
  <2>2. key[r] \in indexed
    BY <2>1, WholeTypes DEF ReadersProtected
  <2> QED
    BY <2>1, <2>2, WholeTypes DEF WholeInv
<1>2. AllInv /\ [SegNext]_allVars => AllInv'
  BY WholeStep
<1> QED
  BY <1>1, <1>2, WholeInit, PTL DEF SegSpec

-----------------------------------------------------------------------------
(* The size of a segment                                                     *)

(* What is cached of the size of a segment once a Read of it was served.     *)
Sizing ==
  /\ index \in [Callers -> Int]
  /\ cachedSize \in [Keys -> Int]
  /\ accurate \in [Keys -> {"unknown", "yes", "no"}]
  /\ hint \in [Keys -> [size : Int, exact : BOOLEAN]]
  /\ served \in SUBSET Keys
  /\ \A k \in served : cachedSize[k] = MaxLength /\ accurate[k] = "yes"

SizedInv == AllInv /\ Sizing

(* Size says what was cached when a Read was served, and an item of the index *)
(* is a whole segment.                                                       *)
LEMMA KnownSizes ==
  ASSUME SizedInv, NEW k \in Keys
  PROVE  /\ KnownSize(k) \in Int /\ EndSize(k) \in Int
         /\ k \in served => KnownSize(k) = MaxLength /\ EndSize(k) = MaxLength
         /\ k \in indexed => size[k] = MaxLength
<1>1. cachedSize[k] \in Int /\ hint[k].size \in Int
  BY DEF SizedInv, Sizing
<1>2. k \in indexed => size[k] = MaxLength
  BY WholeTypes DEF SizedInv, WholeInv
<1>3. k \in served => cachedSize[k] = MaxLength /\ accurate[k] = "yes"
  BY DEF SizedInv, Sizing
<1>4. MaxLength \in Nat
  BY WholeTypes DEF SizedInv
<1> QED
  BY <1>1, <1>2, <1>3, <1>4 DEF KnownSize, EndSize

LEMMA SizingStep ==
  ASSUME SizedInv, [SegNext]_allVars
  PROVE  Sizing'
<1> USE DEF readVars, sizeVars, segVars
<1>0. /\ MaxLength \in Nat \ {0} /\ Hint \in Int /\ HintExact \in BOOLEAN
      /\ \A r \in Callers : at[r] # "closed" => segment[r] \in Keys
      /\ Sizing
  BY WholeTypes, SegmentAssumption DEF SizedInv, ReaderInv
<1>1. ASSUME UNCHANGED <<index, sizeVars>>
      PROVE  Sizing'
  BY <1>0, <1>1 DEF Sizing
<1>2. ASSUME NEW r \in Callers, SeekEnd(r)
      PROVE  Sizing'
  <2> DEFINE k == segment[r]
  <2>1. /\ k \in Keys /\ index' = [index EXCEPT ![r] = EndSize(k)]
        /\ cachedSize' = [cachedSize EXCEPT ![k] = EndSize(k)]
        /\ accurate' = [accurate EXCEPT ![k] = "yes"] /\ UNCHANGED <<hint, served>>
    BY <1>0, <1>2 DEF SeekEnd
  <2>2. EndSize(k) \in Int /\ (k \in served => EndSize(k) = MaxLength)
    BY <2>1, KnownSizes
  <2> HIDE DEF k
  <2> QED
    BY <1>0, <2>1, <2>2 DEF Sizing
<1>3. ASSUME NEW r \in Callers, SeekEndReads(r)
      PROVE  Sizing'
  <2>1. /\ segment[r] \in Keys /\ accurate' = [accurate EXCEPT ![segment[r]] = "no"]
        /\ UNCHANGED <<index, cachedSize, hint, served>>
    BY <1>0, <1>3 DEF SeekEndReads, GotoRead
  <2>2. segment[r] \notin served
    BY <1>0, <1>3 DEF SeekEndReads, Accurate, Sizing
  <2> QED
    BY <1>0, <2>1, <2>2 DEF Sizing
<1>4. ASSUME NEW r \in Callers, Serve(r)
      PROVE  Sizing'
  <2> DEFINE k == segment[r]
  <2>1. /\ k \in Keys /\ pc[r] = "reading" /\ key[r] = k
        /\ cachedSize' = [cachedSize EXCEPT ![k] = size[k]] /\ hint' = hint
        /\ accurate' = [accurate EXCEPT ![k] = "yes"] /\ served' = served \cup {k}
        /\ index' = [index EXCEPT ![r] =
                       IF @ >= size[k] THEN @ ELSE IF seekEnd[r] THEN size[k] ELSE @ + 1]
    BY <1>0, <1>4, WholeTypes DEF Serve, SizedInv, ReaderInv
  <2>2. k \in indexed
    BY <2>1, WholeTypes DEF SizedInv, ReadersProtected
  <2>3. size[k] = MaxLength
    BY <2>1, <2>2, KnownSizes
  <2> HIDE DEF k
  <2> QED
    BY <1>0, <2>1, <2>3 DEF Sizing
<1>5. ASSUME NEW k \in Keys, Size(k)
      PROVE  Sizing'
  <2>1. /\ cachedSize' = [cachedSize EXCEPT ![k] = KnownSize(k)]
        /\ accurate' = accurate \/ accurate' = [accurate EXCEPT ![k] = "yes"]
        /\ UNCHANGED <<index, hint, served>>
    BY <1>5 DEF Size
  <2>2. KnownSize(k) \in Int /\ (k \in served => KnownSize(k) = MaxLength)
    BY KnownSizes
  <2> QED
    BY <1>0, <2>1, <2>2 DEF Sizing
<1>6. ASSUME NEW k \in Keys, IsSizeAccurate(k)
      PROVE  Sizing'
  <2>1. /\ accurate' = [accurate EXCEPT ![k] = IF Accurate(k) THEN "yes" ELSE "no"]
        /\ \/ cachedSize' = cachedSize
           \/ k \in indexed /\ cachedSize' = [cachedSize EXCEPT ![k] = size[k]]
        /\ UNCHANGED <<index, hint, served>>
    BY <1>6 DEF IsSizeAccurate
  <2>2. (k \in indexed => size[k] = MaxLength) /\ (k \in served => Accurate(k))
    BY <1>0, KnownSizes DEF Accurate, Sizing
  <2> QED
    BY <1>0, <2>1, <2>2 DEF Sizing
<1>7. ASSUME NEW r \in Callers, FillChunk(r) \/ FillFail(r)
      PROVE  Sizing'
  <2>1. UNCHANGED <<index, cachedSize, accurate, served>>
    BY <1>7 DEF FillChunk, FillFail, LeaveRead
  <2> DEFINE loaded == [size |-> MaxLength, exact |-> TRUE]
  <2>2. hint' = hint \/ hint' = [hint EXCEPT ![segment[r]] = loaded]
    BY <1>7 DEF FillChunk, FillFail, ReadSource, Load
  <2>3. loaded \in [size : Int, exact : BOOLEAN]
    BY <1>0
  <2> HIDE DEF loaded
  <2> QED
    BY <1>0, <2>1, <2>2, <2>3 DEF Sizing
<1>8. ASSUME LoseReaders
      PROVE  Sizing'
  BY <1>0, <1>8 DEF LoseReaders, Sizing
<1>9. ASSUME NEW r \in Callers, (\E k \in Keys : Open(r, k)) \/ (\E i \in 0 .. MaxLength : Seek(r, i)) \/ CloseReader(r)
      PROVE  Sizing'
  <2>1. UNCHANGED sizeVars /\ \E i \in 0 .. MaxLength : index' = [index EXCEPT ![r] = i]
    BY <1>0, <1>9 DEF Open, Seek, CloseReader
  <2> QED
    BY <1>0, <2>1 DEF Sizing
<1>10. ASSUME NEW r \in Callers,
              \/ ReadEOF(r) \/ ReadBegin(r)
              \/ ReadLock(r) \/ ReadHit(r) \/ ReadMiss(r) \/ FillBegin(r) \/ FillStep(r) \/ FillRenameError(r)
              \/ FillDone(r) \/ RegainFails(r) \/ OpenItem(r) \/ OpenFails(r)
       PROVE  UNCHANGED <<index, sizeVars>>
  BY <1>10 DEF ReadEOF, ReadBegin, ReadLock, ReadHit, ReadMiss, FillBegin, FillStep,
               FillRenameError, FillDone, RegainFails, OpenItem, OpenFails, GotoRead
<1>11. ASSUME UNCHANGED allVars \/ UNCHANGED segVars
       PROVE  UNCHANGED <<index, sizeVars>>
  BY <1>11 DEF allVars
<1>12. ASSUME NEW r \in Callers, Client(r) \/ ReadStep(r)
       PROVE  Sizing'
  BY <1>1, <1>2, <1>3, <1>4, <1>7, <1>8, <1>9, <1>10, <1>12 DEF Client, ReadStep, Panic
<1> QED
  BY <1>1, <1>5, <1>6, <1>8, <1>11, <1>12 DEF SegNext, SegCrash

(* Where no file operation fails, the size of a segment of which a Read was   *)
(* served is known from then on, whatever its hint was and whatever was      *)
(* cached of it: no Read of it ends early, although Read looks at the size   *)
(* without the mutex, and a Seek from the end goes to the end.               *)
THEOREM EndCorrect == ASSUME Unfailing PROVE SegSpec => SizeKnownOnceServed
<1>1. SegInit => SizedInv
  BY WholeInit, SegmentAssumption, CacheAssumption DEF SizedInv, Sizing, SegInit
<1>2. SizedInv /\ [SegNext]_allVars => SizedInv'
  BY WholeStep, SizingStep DEF SizedInv
<1>3. ASSUME SizedInv, NEW r \in Callers, segment[r] \in served
      PROVE  /\ ReadEOF(r) => index[r] >= MaxLength
             /\ SeekEnd(r) => index'[r] = MaxLength
  <2>1. /\ segment[r] \in Keys /\ cachedSize[segment[r]] = MaxLength
        /\ index \in [Callers -> Int]
    BY <1>3 DEF SizedInv, Sizing
  <2>2. EndSize(segment[r]) = MaxLength
    BY <1>3, <2>1, KnownSizes
  <2> QED
    BY <2>1, <2>2 DEF ReadEOF, PastEnd, SeekEnd
<1>4. SizedInv /\ [SegNext]_allVars =>
        [\A r \in Callers : segment[r] \in served =>
           /\ ReadEOF(r) => index[r] >= MaxLength
           /\ SeekEnd(r) => index'[r] = MaxLength]_allVars
  BY <1>3
<1> QED
  BY <1>1, <1>2, <1>4, PTL DEF SegSpec, SizeKnownOnceServed

-----------------------------------------------------------------------------
(* What a reader gives up                                                    *)

(* The index loses a segment to an eviction only, but when the process ends   *)
(* or starts.                                                                *)
LEMMA OnlyEvictionsTake ==
  ASSUME [SegNext]_allVars, life' = "up", NEW k \in indexed \ indexed'
  PROVE  \E e \in Evictors : Evicting(e)
<1> USE DEF vars, indexVars, GotoRead
<1>1. ASSUME NEW r \in Callers, Client(r) PROVE FALSE
  BY <1>1 DEF Client, Open, Seek, CloseReader, SeekEnd, SeekEndReads, ReadEOF, ReadBegin
<1>2. ASSUME NEW r \in Callers, ReadStep(r) PROVE FALSE
  <2>1. ~Panic(r)
    BY DEF Panic, Crash
  <2>2. indexed \subseteq indexed'
    BY <1>2, <2>1
    DEF ReadStep, ReadLock, ReadHit, ReadMiss, FillBegin, FillChunk, FillStep, FillFail, FillRenameError,
        FillDone, RegainFails, OpenItem, OpenFails, Serve, GetBegin, GetOpen, GetFail, ReaderClose,
        SetBegin, SetChunk, SetSync, SetRename, SetRenamed, SetFail, SetRenameError, SetPublish
  <2> QED
    BY <2>2
<1>3. ASSUME NEW e \in Evictors, EvictStep(e) PROVE Evicting(e)
  BY <1>3 DEF EvictStep, EvictStart, EvictItem, EvictFails, EvictNoSpace, EvictDone
<1>4. ~SegCrash /\ ~LoadExistingItems
  BY DEF SegCrash, Crash, LoadExistingItems
<1>5. ~BootEvict
  BY DEF BootEvict
<1>6. ASSUME Booted PROVE FALSE
  BY <1>6 DEF Booted
<1>7. ASSUME UNCHANGED allVars \/ \E i \in Keys : Size(i) \/ IsSizeAccurate(i) PROVE FALSE
  BY <1>7 DEF allVars, Size, IsSizeAccurate
<1> QED
  BY <1>1, <1>2, <1>3, <1>4, <1>5, <1>6, <1>7 DEF SegNext

(* No article is used up by a fill before all of it is cached.               *)
LEMMA GivesUpCached ==
  ASSUME SegInv, IndexInv, [SegNext]_allVars, life' = "up", NEW r \in Callers, GivesUp(r)
  PROVE  segment[r] \in indexed'
<1> USE ReaderTypes DEF readVars, GotoRead
<1>1. source[r] # NoSource /\ source'[r] = NoSource /\ at'[r] # "closed" /\ source' # source
  BY DEF GivesUp
<1>2. ASSUME NEW s \in Callers, ReadStep(s) PROVE segment[r] \in indexed'
  <2>1. FillChunk(s) \/ FillFail(s) \/ FillDone(s)
    BY <1>1, <1>2
    DEF ReadStep, ReadLock, ReadHit, ReadMiss, Panic, Crash, FillBegin, FillStep, FillRenameError,
        RegainFails, OpenItem, OpenFails, Serve, segVars
  <2>2. ASSUME written[s] < want[s], at[s] = "fill", source' = [source EXCEPT ![s] = @ - 1] PROVE FALSE
    <3>1. source[s] = want[s] - written[s] /\ want[s] \in Int /\ written[s] \in Int
      BY <2>2 DEF ReaderInv
    <3>2. source'[s] = source[s] - 1 /\ source'[s] # NoSource
      BY <2>2, <3>1 DEF ReadTypes, NoSource
    <3>3. r = s
      BY <1>1, <2>2 DEF ReadTypes
    <3> QED
      BY <1>1, <3>2, <3>3
  <2>3. FillChunk(s) \/ FillFail(s) => at[s] = "fill"
    BY DEF FillChunk, FillFail, SetChunk, SetFail, Goto, ReaderInv, Setting, SetPhases
  <2>4. CASE FillDone(s)
    <3>1. r = s /\ key[s] = segment[s]
      BY <1>1, <2>4 DEF FillDone, SetPublish, ReadTypes, ReaderInv, Setting, SetPhases
    <3> QED
      BY <2>4, <3>1 DEF FillDone, SetPublish
  <2> QED
    BY <1>1, <2>1, <2>2, <2>3, <2>4 DEF FillChunk, FillFail, SetChunk, ReadSource
<1>3. ASSUME NEW s \in Callers, Client(s) PROVE FALSE
  <2>1. CASE \E k \in Keys : Open(s, k)
    BY <1>1, <2>1 DEF Open, ReadTypes, NoSource
  <2>2. CASE CloseReader(s)
    BY <1>1, <2>2 DEF CloseReader, ReadTypes
  <2> QED
    BY <1>1, <1>3, <2>1, <2>2 DEF Client, Seek, SeekEnd, SeekEndReads, ReadEOF, ReadBegin
<1>4. ~SegCrash
  BY DEF SegCrash, Crash
<1>5. ASSUME \/ UNCHANGED segVars \/ UNCHANGED allVars
             \/ \E k \in Keys : Size(k) \/ IsSizeAccurate(k)
      PROVE FALSE
  BY <1>1, <1>5 DEF allVars, segVars, Size, IsSizeAccurate
<1> QED
  BY <1>2, <1>3, <1>4, <1>5 DEF SegNext

(* A reader gives up its article with the segment in the cache only, whatever *)
(* fails, and an eviction alone takes the segment from there: for any number  *)
(* of readers, and whichever file operations fail.                           *)
THEOREM GiveUpCorrect == SegSpec => GivesUpOnlyCached
<1>1. SegIndexInv /\ [SegNext]_allVars =>
        [\A r \in Callers : life' = "up" =>
           /\ GivesUp(r) => segment[r] \in indexed'
           /\ Loses(r) => \E e \in Evictors : Evicting(e)]_allVars
  BY GivesUpCached, OnlyEvictionsTake DEF SegIndexInv, Loses
<1> QED
  BY <1>1, SegIndexInit, SegIndexStep, PTL DEF SegSpec, GivesUpOnlyCached

=============================================================================
