--------------------------- MODULE ReadaheadProofs ---------------------------
(***************************************************************************)
(* Every Read of a readahead reader returns the bytes that follow, for      *)
(* every file, buffer size and slice, as long as the low-water mark is      *)
(* below the initial size of the buffer and no Seek stays within the cache,  *)
(* or fails (OrderCorrect); and its buffer is a bounded queue (FifoCorrect).         *)
(***************************************************************************)
EXTENDS Readahead, SequenceTheorems, TLAPS

(* The positions: size tells how far writePos is ahead of readPos, modulo    *)
(* the capacity.                                                             *)
Positions ==
  /\ capacity \in 0 .. MaxCapacity
  /\ capacity = 0 \/ capacity >= InitialSize
  /\ buffer \in [0 .. capacity - 1 -> Blank .. Length]
  /\ size \in 0 .. capacity
  /\ readPos \in Nat
  /\ writePos \in 0 .. capacity
  /\ IF capacity = 0 THEN readPos = 0
     ELSE readPos < 2 * capacity /\ Wrap(Wrap(readPos) + size) = Wrap(writePos)

(* What the steps of a readahead know of the buffer, although Reads go on. *)
RaKnows ==
  /\ amount \in 0 .. MaxCapacity /\ target \in 0 .. MaxCapacity
  /\ ra \in RaLocked => amount >= InitialSize
  /\ ra = "grow" => target >= InitialSize /\ target >= size
  /\ ra \in {"space", "expose", "fill"} => capacity > 0
  /\ ra \in {"expose", "fill"} => size < capacity
  /\ ra = "fill" => readPos <= capacity

(* No buffer that is resized is full. *)
RoomToGrow == ra \in {"ensure", "aim", "grow"} => size <= LowWater

Types ==
  /\ life \in {"open", "closed", "down"}
  /\ client \in {"idle", "begun", "waiting"}
  /\ ra \in RaLocked \cup {"none", "start", "done"}
  /\ eof \in BOOLEAN /\ moved \in BOOLEAN
  /\ index \in Nat /\ under \in 0 .. Length

BufInv == Types /\ Positions /\ RaKnows

-----------------------------------------------------------------------------
(* The free space that is exposed does not reach into unread data. *)
LEMMA SpaceIsFree ==
  ASSUME BufferAssumption, Positions, capacity > 0, size < capacity, readPos <= capacity
  PROVE  WriteSpace \in 0 .. capacity - size /\ Wrap(writePos) + WriteSpace <= capacity
BY DEF Positions, WriteSpace, Wrap, BufferAssumption

(* A commit keeps the positions in order. *)
LEMMA CommitPositions ==
  ASSUME BufferAssumption, ReadaheadAssumption, Types, Positions, capacity > 0, size < capacity, readPos <= capacity,
         NEW n \in Nat, n <= WriteSpace, under + n <= Length, CommitWrite(n, under)
  PROVE  Positions'
<1>1. WriteSpace \in 0 .. capacity - size /\ Wrap(writePos) + WriteSpace <= capacity
  BY SpaceIsFree
<1>2. buffer' \in [0 .. capacity - 1 -> Blank .. Length]
  BY DEF CommitWrite, Positions, Types, Blank, ReadaheadAssumption, Wrap
<1>3. capacity' = capacity /\ readPos' = readPos /\ size' = size + n /\ writePos' = Wrap(writePos) + n
  BY DEF CommitWrite
<1>4. capacity \in Nat /\ readPos \in Nat /\ size \in Nat /\ writePos \in Nat /\ writePos <= capacity
  BY DEF Positions, BufferAssumption
<1>5. readPos < 2 * capacity /\ Wrap(Wrap(readPos) + size) = Wrap(writePos)
  BY DEF Positions
<1>6. size' \in 0 .. capacity' /\ writePos' \in 0 .. capacity'
  BY <1>1, <1>3, <1>4 DEF Wrap
<1>7. Wrap(Wrap(readPos) + size)' = Wrap(writePos)'
  BY <1>1, <1>3, <1>4, <1>5, SMTT(30) DEF Wrap
<1> QED BY <1>2, <1>3, <1>4, <1>5, <1>6, <1>7 DEF Positions

(* A resize to a capacity that holds the data keeps the positions in order. *)
LEMMA ResizePositions ==
  ASSUME BufferAssumption, ReadaheadAssumption, Positions, readPos <= capacity,
         NEW c \in Nat, c >= size, c >= InitialSize, c <= MaxCapacity, Resize(c)
  PROVE  Positions'
<1>1. capacity' = c /\ readPos' = 0 /\ size' = size /\ writePos' = size
  BY DEF Resize
<1>2. capacity \in Nat /\ readPos \in Nat /\ size \in Nat /\ writePos \in Nat
      /\ writePos <= capacity /\ size <= capacity
  BY DEF Positions, BufferAssumption
<1>3. ASSUME NEW i \in 0 .. c - 1
      PROVE  (IF i < Copied THEN buffer[Wrap(readPos + i)] ELSE Blank) \in Blank .. Length
  <2>1. CASE i < Copied
    <3>1. Wrap(readPos + i) \in 0 .. capacity - 1
      BY <1>2, <2>1 DEF Copied, Wrap
    <3> QED BY <2>1, <3>1 DEF Positions
  <2>2. CASE ~(i < Copied)
    BY <2>2 DEF Blank, ReadaheadAssumption
  <2> QED BY <2>1, <2>2
<1>4. buffer' \in [0 .. c - 1 -> Blank .. Length]
  BY <1>3 DEF Resize
<1>5. c > 0 /\ (Wrap(Wrap(readPos) + size) = Wrap(writePos))'
  BY <1>1, <1>2 DEF Wrap, BufferAssumption
<1> QED BY <1>1, <1>2, <1>4, <1>5 DEF Positions, BufferAssumption

(* However fast the caller reads, a readahead means to read cacheMinSize      *)
(* bytes at least and cacheMaxSize at most.                                  *)
LEMMA AmountInBounds ==
  RaLock => /\ RaGoto("start", "check") /\ amount' \in InitialSize .. MaxCapacity
            /\ UNCHANGED <<bufferVars, life, client, target, readerVars>>
<1>1. \A speed \in AvgSpeed : Clamped(speed) \in InitialSize .. MaxCapacity
  BY BufferAssumption DEF AvgSpeed, Clamped
<1> QED BY <1>1 DEF RaLock

(* So does a Read, even across the end of the buffer. *)
LEMMA ReadPositions ==
  ASSUME BufferAssumption, Positions, NEW p \in Nat, Read(p)
  PROVE  Positions' /\ size' <= size /\ size' = size - Smaller(p, size) /\ Smaller(p, size) \in 0 .. size
<1>1. capacity' = capacity /\ buffer' = buffer /\ writePos' = writePos
      /\ readPos' = Wrap(readPos) + Smaller(p, size) /\ size' = size - Smaller(p, size) /\ size > 0
  BY DEF Read, CommitRead
<1>2. capacity \in Nat /\ readPos \in Nat /\ size \in Nat /\ writePos \in Nat
      /\ writePos <= capacity /\ size <= capacity /\ capacity > 0
  BY <1>1 DEF Positions, BufferAssumption
<1>3. readPos < 2 * capacity /\ Wrap(Wrap(readPos) + size) = Wrap(writePos)
  BY <1>2 DEF Positions
<1>4. Smaller(p, size) \in 0 .. size
  BY <1>2 DEF Smaller
<1>5. readPos' \in Nat /\ readPos' < 2 * capacity
  BY <1>1, <1>2, <1>3, <1>4 DEF Wrap
<1>6. (Wrap(Wrap(readPos) + size) = Wrap(writePos))'
  BY <1>1, <1>2, <1>3, <1>4, SMTT(30) DEF Wrap
<1> QED BY <1>1, <1>2, <1>4, <1>5, <1>6 DEF Positions

(* So does a Seek within the cache, which keeps the rest of the data. *)
LEMMA SeekPositions ==
  ASSUME BufferAssumption, Positions, NEW d \in Nat, 0 < d, d < size, MaySeek(d), SeekCurrent(d)
  PROVE  Positions'
<1>1. capacity' = capacity /\ buffer' = buffer /\ writePos' = writePos /\ readPos' = Wrap(readPos + d)
      /\ size' = IF Wrap(writePos) - Wrap(readPos + d) < 0
                 THEN Wrap(writePos) - Wrap(readPos + d) + capacity
                 ELSE Wrap(writePos) - Wrap(readPos + d)
  BY DEF SeekCurrent
<1>2. capacity \in Nat /\ readPos \in Nat /\ size \in Nat /\ writePos \in Nat
      /\ writePos <= capacity /\ size <= capacity /\ capacity > 0 /\ readPos + d <= size
  BY DEF Positions, BufferAssumption, MaySeek
<1>3. Wrap(readPos + d) \in 0 .. capacity - 1 /\ Wrap(writePos) \in 0 .. capacity - 1
  BY <1>2 DEF Wrap
<1>4. size' \in 0 .. capacity /\ readPos' \in Nat /\ readPos' < 2 * capacity
  BY <1>1, <1>2, <1>3
<1>5. (Wrap(Wrap(readPos) + size) = Wrap(writePos))'
  BY <1>1, <1>2, <1>3 DEF Wrap
<1> QED BY <1>1, <1>2, <1>4, <1>5 DEF Positions

(* Clear and Flush leave an empty buffer, or all as it was. *)
LEMMA ClearPositions ==
  ASSUME BufferAssumption, Positions, Clear \/ Flush
  PROVE  Positions'
<1>1. CASE Clear
  <2>1. capacity' = capacity /\ buffer' = buffer /\ size' = 0 /\ readPos' = 0 /\ writePos' = 0
    BY <1>1 DEF Clear
  <2>2. capacity \in Nat
    BY DEF Positions, BufferAssumption
  <2> QED BY <2>1, <2>2 DEF Positions, Wrap
<1>2. CASE Flush
  <2>1. CASE UNCHANGED bufferVars
    BY <2>1 DEF bufferVars, Positions, Wrap
  <2>2. CASE capacity' = 0 /\ buffer' = [i \in 0 .. -1 |-> Blank] /\ size' = 0 /\ readPos' = 0 /\ writePos' = 0
    BY <2>2 DEF Positions, Wrap, BufferAssumption
  <2> QED BY <1>2, <2>1, <2>2 DEF Flush
<1> QED BY <1>1, <1>2

-----------------------------------------------------------------------------
(* The type invariant and the positions: no step leaves BufInv. *)
LEMMA BufInvStep ==
  ASSUME BufferAssumption, ReadaheadAssumption, BufInv, [RaheadNext]_raheadVars
  PROVE  BufInv'
<1> USE BufferAssumption, ReadaheadAssumption
<1>1. ASSUME Open PROVE BufInv'
  <2>1. Positions'
    BY <1>1 DEF Open, Positions, Wrap, BufferAssumption, Blank, ReadaheadAssumption
  <2>2. Types'
    <3>1. eof' \in BOOLEAN /\ moved' \in BOOLEAN
      BY <1>1, Zenon DEF Open
    <3>2. life' = "open" /\ client' = client /\ ra' = ra /\ index' = 0 /\ under' = 0
      BY <1>1 DEF Open, raVars
    <3> QED BY <3>1, <3>2 DEF BufInv, Types, ReadaheadAssumption
  <2>3. RaKnows'
    BY <1>1 DEF Open, BufInv, RaKnows, RaLocked, raVars
  <2> QED BY <2>1, <2>2, <2>3 DEF BufInv
<1>2. ASSUME Close PROVE BufInv'
  <2>1. Positions'
    BY <1>2, ClearPositions DEF Close, BufInv
  <2> QED BY <1>2, <2>1 DEF Close, BufInv, Types, RaKnows, RaLocked, MutexFree, raVars, readerVars
<1>3. ASSUME NEW i \in 0 .. Length, SeekTo(i) PROVE BufInv'
  <2>1. index \in Nat /\ size \in Nat
    BY DEF BufInv, Types, Positions, BufferAssumption
  <2>2. CASE InCache(i - index)
    <3>1. i - index \in Nat /\ 0 < i - index /\ i - index < size
      BY <2>1, <2>2, <1>3 DEF InCache, ReadaheadAssumption
    <3>2. Positions'
      BY <1>3, <2>2, <3>1, SeekPositions DEF SeekTo, InCache, BufInv
    <3> QED BY <1>3, <2>2, <3>2 DEF SeekTo, Launch, BufInv, Types, RaKnows, RaLocked, MutexFree
  <2>3. CASE ~InCache(i - index)
    <3>1. Positions'
      BY <1>3, <2>3, ClearPositions DEF SeekTo, BufInv
    <3>2. MutexFree /\ ra' \in {ra, "start"} /\ index' = i /\ under' = i /\ moved' = FALSE /\ eof' = FALSE
          /\ UNCHANGED <<life, client, amount, target>>
      BY <1>3, <2>3 DEF SeekTo, Launch
    <3>3. Types'
      <4>1. eof' \in BOOLEAN /\ moved' \in BOOLEAN
        BY <3>2, Zenon
      <4>2. index' = i /\ under' = i /\ i \in Nat /\ ra' \in {ra, "start"} /\ life' = life /\ client' = client
        BY <3>2, <1>3 DEF ReadaheadAssumption
      <4> QED BY <4>1, <4>2, <1>3 DEF BufInv, Types
    <3>4. RaKnows'
      BY <3>2 DEF BufInv, RaKnows, RaLocked, MutexFree
    <3> QED BY <3>1, <3>3, <3>4 DEF BufInv
  <2> QED BY <2>2, <2>3
<1>4. ASSUME ReadBegin PROVE BufInv'
  BY <1>4 DEF ReadBegin, BufInv, Types, Positions, RaKnows, Wrap, bufferVars, raVars, readerVars
<1>5. ASSUME ReadLaunch PROVE BufInv'
  BY <1>5 DEF ReadLaunch, Launch, BufInv, Types, Positions, RaKnows, RaLocked, Wrap, bufferVars, readerVars
<1>6. ASSUME NEW p \in 1 .. MaxRead, ReadCache(p) PROVE BufInv'
  <2>1. Positions' /\ size' <= size /\ Smaller(p, size) \in 0 .. size
    BY <1>6, ReadPositions DEF ReadCache, BufInv, ReadaheadAssumption
  <2>2. size \in Nat /\ size' \in Nat /\ capacity' = capacity
    BY <1>6, <2>1 DEF ReadCache, Read, CommitRead, BufInv, Positions, BufferAssumption
  <2>3. Types'
    BY <1>6, <2>1, <2>2 DEF ReadCache, BufInv, Types, raVars
  <2>4. RaKnows'
    BY <1>6, <2>1, <2>2 DEF ReadCache, BufInv, RaKnows, RaLocked, raVars, Positions, BufferAssumption
  <2> QED BY <2>1, <2>3, <2>4 DEF BufInv
<1>7. ASSUME RaStep PROVE BufInv'
  <2>1. CASE RaLock \/ RaLowWater \/ RaEnsure \/ RaAim \/ RaSpace \/ RaExpose \/ RaNothing \/ RaEOF \/ RaError \/ RaDone
    <3>1. UNCHANGED bufferVars
      BY <2>1, AmountInBounds DEF RaLowWater, RaEnsure, RaAim, RaSpace, RaExpose, RaNothing, RaEOF, RaError, RaDone
    <3>2. Positions'
      BY <3>1 DEF BufInv, Positions, Wrap, bufferVars
    <3>3. capacity \in Nat /\ size \in Nat /\ size <= capacity
      BY DEF BufInv, Positions, BufferAssumption
    <3>4. Types'
      BY <2>1, <3>1, AmountInBounds DEF RaLowWater, RaEnsure, RaAim, RaSpace, RaExpose, RaNothing, RaEOF, RaError, RaDone,
           RaGoto, BufInv, Types, RaLocked, readerVars
    <3>5. RaKnows'
      <4>1. CASE RaLock
        BY <4>1, <3>1, AmountInBounds DEF RaGoto, BufInv, RaKnows, RaLocked, BufferAssumption
      <4>2. CASE RaEnsure
        <5>1. amount > 0 /\ amount \in Nat
          BY <4>2 DEF RaEnsure, RaGoto, BufInv, RaKnows, RaLocked, BufferAssumption
        <5>2. ra' = "space" => capacity > 0
          BY <4>2, <5>1, <3>3 DEF RaEnsure, RaGoto, BufferAssumption
        <5> QED BY <4>2, <3>1, <5>2 DEF RaEnsure, RaGoto, BufInv, RaKnows, RaLocked, bufferVars
      <4>3. CASE RaAim
        BY <4>3, <3>1, <3>3 DEF RaAim, RaGoto, Smaller, BufInv, RaKnows, RaLocked, bufferVars, Positions, BufferAssumption
      <4>4. CASE RaSpace
        BY <4>4, <3>1, <3>3 DEF RaSpace, RaGoto, BufInv, RaKnows, RaLocked, bufferVars
      <4>5. CASE RaExpose
        BY <4>5, <3>1, <3>3 DEF RaExpose, RaGoto, SliceInRange, BufInv, RaKnows, RaLocked, bufferVars
      <4>6. CASE RaLowWater \/ RaNothing \/ RaEOF \/ RaError \/ RaDone
        BY <4>6, <3>1 DEF RaLowWater, RaNothing, RaEOF, RaError, RaDone, RaGoto, BufInv, RaKnows, RaLocked, bufferVars
      <4> QED BY <2>1, <4>1, <4>2, <4>3, <4>4, <4>5, <4>6
    <3> QED BY <3>2, <3>4, <3>5 DEF BufInv
  <2>2. CASE RaGrow
    <3>1. target \in Nat /\ target >= size /\ target >= InitialSize /\ target <= MaxCapacity /\ readPos <= capacity
      BY <2>2 DEF RaGrow, RaGoto, SliceInRange, BufInv, RaKnows, BufferAssumption
    <3>2. Positions'
      BY <2>2, <3>1, ResizePositions DEF RaGrow, BufInv
    <3>3. capacity' = target
      BY <2>2 DEF RaGrow, Resize
    <3> QED BY <2>2, <3>1, <3>2, <3>3 DEF RaGrow, RaGoto, BufInv, Types, RaKnows, RaLocked, readerVars, BufferAssumption
  <2>3. CASE RaGrowPanics \/ RaExposePanics
    BY <2>3 DEF RaGrowPanics, RaExposePanics, Panic, BufInv, Types, Positions, RaKnows, Wrap, bufferVars, raVars, readerVars
  <2>4. ASSUME NEW n \in 0 .. MaxCapacity, RaFill(n) PROVE BufInv'
    <3>1. ra = "fill" /\ ra' \in {"done", "nothing", "eof", "error"}
      BY <2>4 DEF RaFill, RaGoto
    <3>2. capacity > 0 /\ size < capacity /\ readPos <= capacity
      BY <3>1 DEF BufInv, RaKnows
    <3>3. Positions'
      BY <2>4, <3>2, CommitPositions DEF RaFill, BufInv, BufferAssumption
    <3>4. Types'
      BY <2>4, <3>1 DEF RaFill, BufInv, Types, RaLocked, BufferAssumption, ReadaheadAssumption
    <3>5. RaKnows'
      BY <2>4, <3>1 DEF RaFill, BufInv, RaKnows, RaLocked
    <3> QED BY <3>3, <3>4, <3>5 DEF BufInv
  <2> QED BY <1>7, <2>1, <2>2, <2>3, <2>4 DEF RaStep
<1>8. ASSUME SeekFails PROVE BufInv'
  <2>1. UNCHANGED <<bufferVars, life, client, raVars, eof, index, under>>
    BY <1>8 DEF SeekFails
  <2>2. moved' \in BOOLEAN
    BY <1>8, Zenon DEF SeekFails
  <2> QED
    BY <2>1, <2>2 DEF BufInv, Types, Positions, RaKnows, Wrap, bufferVars, raVars
<1>9. ASSUME UNCHANGED raheadVars PROVE BufInv'
  BY <1>9 DEF raheadVars, BufInv, Types, Positions, RaKnows, Wrap, bufferVars, raVars, readerVars
<1> QED
  <2>1. ASSUME SeekStart \/ SeekFromHere \/ SeekEnd PROVE BufInv'
    BY <2>1, <1>3 DEF SeekStart, SeekFromHere, SeekEnd, ReadaheadAssumption
  <2> QED BY <1>1, <1>2, <2>1, <1>4, <1>5, <1>6, <1>7, <1>8, <1>9 DEF RaheadNext, ReadStep

(* The empty buffer of a resource that was just opened satisfies BufInv. *)
LEMMA BufInvInit ==
  ASSUME BufferAssumption, ReadaheadAssumption, RaheadInit
  PROVE  BufInv
<1>1. Positions
  BY DEF RaheadInit, NewCircularBuffer, Positions, Wrap, Blank, BufferAssumption, ReadaheadAssumption
<1>2. eof \in BOOLEAN /\ moved \in BOOLEAN
  BY Zenon DEF RaheadInit
<1>3. life = "open" /\ client = "idle" /\ ra = "none" /\ index = 0 /\ under = 0 /\ amount = 0 /\ target = 0
  BY DEF RaheadInit
<1>4. Types
  BY <1>2, <1>3 DEF Types, ReadaheadAssumption
<1>5. RaKnows
  BY <1>3 DEF RaKnows, RaLocked, BufferAssumption
<1> QED BY <1>1, <1>4, <1>5 DEF BufInv

(* The type invariant, for every file, buffer, low-water mark and slice.     *)
THEOREM RaheadTypeCorrect == RaheadSpec => []RaheadTypeOK
<1>1. BufInv => RaheadTypeOK
  BY BufferAssumption DEF BufInv, Types, Positions, RaKnows, RaheadTypeOK, BufferAssumption
<1>2. RaheadInit => BufInv
  BY BufInvInit, BufferAssumption, ReadaheadAssumption
<1>3. BufInv /\ [RaheadNext]_raheadVars => BufInv'
  BY BufInvStep, BufferAssumption, ReadaheadAssumption
<1> QED BY <1>1, <1>2, <1>3, PTL DEF RaheadSpec

-----------------------------------------------------------------------------
(* A commit adds its bytes after the data, and leaves the data as it is. *)
LEMMA CommitItems ==
  ASSUME BufferAssumption, Positions, capacity > 0, size < capacity, readPos <= capacity,
         NEW n \in Nat, n <= WriteSpace, NEW first \in Nat, CommitWrite(n, first),
         NEW i \in 0 .. size + n - 1
  PROVE  Item(i)' = IF i < size THEN Item(i) ELSE first + (i - size)
<1> DEFINE at    == Wrap(Wrap(readPos) + i)
           start == Wrap(writePos)
<1>1. WriteSpace \in 0 .. capacity - size /\ start + WriteSpace <= capacity
  BY SpaceIsFree
<1>2. capacity \in Nat /\ readPos \in Nat /\ size \in Nat /\ writePos \in 0 .. capacity
      /\ Wrap(Wrap(readPos) + size) = Wrap(writePos)
  BY DEF Positions, BufferAssumption
<1>3. at \in 0 .. capacity - 1 /\ start \in 0 .. capacity - 1
  BY <1>1, <1>2 DEF Wrap
<1>4. Item(i)' = IF at \in start .. start + n - 1 THEN first + (at - start) ELSE buffer[at]
  BY <1>3 DEF Item, Wrap, CommitWrite
<1>5. CASE i < size
  <2>1. at \notin start .. start + n - 1
    BY <1>1, <1>2, <1>5, SMTT(30) DEF Wrap, WriteSpace
  <2> QED BY <1>4, <1>5, <2>1 DEF Item
<1>6. CASE ~(i < size)
  <2>1. at = start + (i - size)
    BY <1>1, <1>2, <1>6, SMTT(30) DEF Wrap
  <2>2. at \in start .. start + n - 1 /\ at - start = i - size
    BY <1>2, <1>3, <1>6, <2>1
  <2> QED BY <1>4, <1>6, <2>2
<1> QED BY <1>5, <1>6

(* A Read takes bytes from the front. *)
LEMMA ReadItems ==
  ASSUME BufferAssumption, Positions, NEW p \in Nat, Read(p), NEW i \in 0 .. size' - 1
  PROVE  Item(i)' = Item(i + Smaller(p, size))
<1> DEFINE k == Smaller(p, size)
<1>1. size' = size - k /\ k \in 0 .. size
  BY ReadPositions
<1>2. capacity' = capacity /\ buffer' = buffer /\ readPos' = Wrap(readPos) + k /\ size > 0
  BY DEF Read, CommitRead
<1>3. capacity \in Nat /\ readPos \in Nat /\ size \in Nat /\ size <= capacity /\ readPos < 2 * capacity
  BY <1>2 DEF Positions, BufferAssumption
<1>4. Wrap(Wrap(Wrap(readPos) + k) + i) = Wrap(Wrap(readPos) + (i + k))
  BY <1>1, <1>3, SMTT(30) DEF Wrap
<1>5. Item(i)' = buffer[Wrap(Wrap(Wrap(readPos) + k) + i)]
  BY <1>2 DEF Item, Wrap
<1> QED BY <1>4, <1>5 DEF Item

(* A resize of a buffer that is not full keeps its data. *)
LEMMA ResizeItems ==
  ASSUME BufferAssumption, Positions, readPos <= capacity, size < capacity \/ size = 0,
         NEW c \in Nat, c >= size, c >= InitialSize, Resize(c), NEW i \in 0 .. size - 1
  PROVE  Item(i)' = Item(i)
<1>1. capacity' = c /\ readPos' = 0 /\ size' = size
      /\ buffer' = [j \in 0 .. c - 1 |-> IF j < Copied THEN buffer[Wrap(readPos + j)] ELSE Blank]
  BY DEF Resize
<1>2. capacity \in Nat /\ readPos \in Nat /\ size \in Nat /\ writePos \in 0 .. capacity
      /\ size < capacity /\ capacity > 0 /\ Wrap(Wrap(readPos) + size) = Wrap(writePos)
  BY DEF Positions, BufferAssumption
<1>3. i < Copied
  BY <1>2, SMTT(30) DEF Copied, Wrap
<1>4. Item(i)' = buffer'[i]
  BY <1>1, <1>2 DEF Item, Wrap, BufferAssumption
<1>5. i \in 0 .. c - 1
  BY <1>2
<1>6. Wrap(readPos + i) = Wrap(Wrap(readPos) + i)
  BY <1>2 DEF Wrap
<1> QED BY <1>1, <1>3, <1>4, <1>5, <1>6 DEF Item

-----------------------------------------------------------------------------
(* InOrder, item by item. *)
NextItems ==
  ~moved /\ life = "open" =>
    /\ \A i \in 0 .. size - 1 : Item(i) = index + i
    /\ under = index + size

OrderInv == RoomToGrow /\ NextItems

(* A buffer above the low-water mark is not resized, and Reads only shrink   *)
(* what a readahead has seen below it.                                       *)
LEMMA RoomToGrowStep ==
  ASSUME BufferAssumption, ReadaheadAssumption, BufInv, RoomToGrow, [RaheadNext]_raheadVars
  PROVE  RoomToGrow'
<1>1. size \in Nat /\ LowWater \in Nat
  BY DEF BufInv, Positions, BufferAssumption, ReadaheadAssumption
<1>2. CASE RaLowWater
  BY <1>1, <1>2 DEF RaLowWater, RaGoto, bufferVars, RoomToGrow
<1>3. CASE RaEnsure \/ RaAim \/ RaGrowPanics
  BY <1>3 DEF RaEnsure, RaAim, RaGrowPanics, Panic, RaGoto, bufferVars, raVars, RoomToGrow
<1>4. CASE RaLock \/ RaGrow \/ RaSpace \/ RaExpose \/ RaExposePanics \/ RaNothing \/ RaEOF \/ RaError \/ RaDone
  BY <1>4, AmountInBounds DEF RaGrow, RaSpace, RaExpose, RaExposePanics, Panic, RaNothing, RaEOF, RaError, RaDone, RaGoto, raVars, RoomToGrow
<1>5. CASE \E n \in 0 .. MaxCapacity : RaFill(n)
  BY <1>5 DEF RaFill, RaGoto, RoomToGrow
<1>6. CASE Open \/ Close \/ SeekStart \/ SeekFromHere \/ SeekEnd
  <2>1. ra' \notin {"ensure", "aim", "grow"}
    BY <1>6 DEF Open, Close, SeekStart, SeekFromHere, SeekEnd, SeekTo, Launch, MutexFree, RaLocked, raVars
  <2> QED BY <2>1 DEF RoomToGrow
<1>7. CASE ReadBegin \/ ReadLaunch \/ SeekFails
  <2>1. size' = size /\ ra' \in {ra, "start"}
    BY <1>7 DEF ReadBegin, ReadLaunch, SeekFails, Launch, bufferVars, raVars
  <2> QED BY <2>1 DEF RoomToGrow
<1>8. CASE \E p \in 1 .. MaxRead : ReadCache(p)
  <2>1. PICK p \in 1 .. MaxRead : ReadCache(p)
    BY <1>8
  <2>2. size' <= size /\ size' \in Nat /\ ra' = ra
    BY <1>1, <2>1, ReadPositions DEF ReadCache, raVars, BufInv, ReadaheadAssumption
  <2> QED BY <1>1, <2>2 DEF RoomToGrow
<1>9. CASE UNCHANGED raheadVars
  BY <1>9 DEF raheadVars, bufferVars, raVars, RoomToGrow
<1> QED BY <1>2, <1>3, <1>4, <1>5, <1>6, <1>7, <1>8, <1>9 DEF RaheadNext, ReadStep, RaStep

(* What comes next stays in order. *)
LEMMA NextItemsStep ==
  ASSUME BufferAssumption, ReadaheadAssumption, LowWater < InitialSize,
         BufInv, BufInv', OrderInv, [RaheadNext]_raheadVars
  PROVE  NextItems'
<1>1. /\ size \in Nat /\ size' \in Nat /\ index \in Nat /\ under \in Nat /\ LowWater \in Nat
      /\ capacity \in Nat
  BY DEF BufInv, Positions, Types, BufferAssumption, ReadaheadAssumption
<1>2. CASE Open
  BY <1>2 DEF Open, NextItems
<1>3. CASE Close \/ SeekFails \/ RaGrowPanics \/ RaExposePanics
  BY <1>3 DEF Close, SeekFails, RaGrowPanics, RaExposePanics, Panic, NextItems
<1>4. CASE SeekStart \/ SeekFromHere \/ SeekEnd
  <2>1. PICK i \in 0 .. Length : SeekTo(i)
    BY <1>4 DEF SeekStart, SeekFromHere, SeekEnd, ReadaheadAssumption
  <2>2. moved' = TRUE \/ (size' = 0 /\ under' = i /\ index' = i)
    BY <2>1 DEF SeekTo, Clear
  <2> QED BY <2>2 DEF NextItems
<1>5. ASSUME NEW p \in 1 .. MaxRead, ReadCache(p) PROVE NextItems'
  <2> DEFINE k == Smaller(p, size)
  <2>1. Read(p) /\ index' = index + k /\ UNCHANGED <<life, moved, under>>
    BY <1>5 DEF ReadCache
  <2>2. size' = size - k /\ k \in 0 .. size
    BY <2>1, ReadPositions DEF BufInv, ReadaheadAssumption
  <2>3. \A i \in 0 .. size' - 1 : Item(i)' = Item(i + k)
    BY <2>1, ReadItems DEF BufInv, ReadaheadAssumption
  <2> HIDE DEF k
  <2>4. ASSUME ~moved', life' = "open" PROVE \A i \in 0 .. size' - 1 : Item(i)' = index' + i
    <3>1. \A i \in 0 .. size - 1 : Item(i) = index + i
      BY <2>1, <2>4 DEF OrderInv, NextItems
    <3>2. TAKE i \in 0 .. size' - 1
    <3>3. i + k \in 0 .. size - 1 /\ index + (i + k) = index' + i
      BY <1>1, <2>1, <2>2
    <3> QED BY <2>3, <3>1, <3>3
  <2>5. ASSUME ~moved', life' = "open" PROVE under' = index' + size'
    BY <1>1, <2>1, <2>2, <2>5 DEF OrderInv, NextItems
  <2> QED BY <2>4, <2>5 DEF NextItems
<1>6. CASE RaGrow
  <2>1. readPos <= capacity /\ Resize(target) /\ UNCHANGED <<life, moved, index, under>> /\ size' = size
    BY <1>6 DEF RaGrow, SliceInRange, Resize, readerVars
  <2>2. target \in Nat /\ target >= size /\ target >= InitialSize /\ size <= LowWater
    BY <1>6 DEF RaGrow, RaGoto, BufInv, RaKnows, OrderInv, RoomToGrow, BufferAssumption
  <2>3. size < capacity \/ size = 0
    BY <1>1, <2>2 DEF BufInv, Positions, BufferAssumption
  <2>4. \A i \in 0 .. size - 1 : Item(i)' = Item(i)
    BY <2>1, <2>2, <2>3, ResizeItems DEF BufInv
  <2> QED BY <2>1, <2>4 DEF OrderInv, NextItems
<1>7. ASSUME NEW n \in 0 .. MaxCapacity, RaFill(n) PROVE NextItems'
  <2>1. n \in Nat /\ n <= WriteSpace /\ CommitWrite(n, under) /\ under' = under + n /\ size' = size + n
        /\ UNCHANGED <<life, moved, index>> /\ ra = "fill"
    BY <1>7 DEF RaFill, RaGoto, CommitWrite, BufferAssumption
  <2>2. capacity > 0 /\ size < capacity /\ readPos <= capacity
    BY <2>1 DEF BufInv, RaKnows
  <2>3. \A i \in 0 .. size + n - 1 : Item(i)' = IF i < size THEN Item(i) ELSE under + (i - size)
    BY <1>1, <2>1, <2>2, CommitItems DEF BufInv
  <2>4. ASSUME ~moved', life' = "open" PROVE \A i \in 0 .. size' - 1 : Item(i)' = index' + i
    <3>1. (\A i \in 0 .. size - 1 : Item(i) = index + i) /\ under = index + size
      BY <2>1, <2>4 DEF OrderInv, NextItems
    <3>2. TAKE i \in 0 .. size' - 1
    <3>3. i \in 0 .. size + n - 1 /\ index' = index /\ i \in Nat
      BY <1>1, <2>1
    <3>4. CASE i < size
      BY <1>1, <2>3, <3>1, <3>3, <3>4
    <3>5. CASE ~(i < size)
      <4>1. Item(i)' = under + (i - size)
        BY <2>3, <3>3, <3>5
      <4> QED BY <1>1, <3>1, <3>3, <4>1
    <3> QED BY <3>4, <3>5
  <2>5. ASSUME ~moved', life' = "open" PROVE under' = index' + size'
    BY <1>1, <2>1, <2>5 DEF OrderInv, NextItems
  <2> QED BY <2>4, <2>5 DEF NextItems
<1>8. CASE ReadBegin \/ ReadLaunch \/ RaLock \/ RaLowWater \/ RaEnsure \/ RaAim \/ RaSpace \/ RaExpose
           \/ RaNothing \/ RaEOF \/ RaError \/ RaDone \/ UNCHANGED raheadVars
  <2>1. UNCHANGED <<bufferVars, life, index, under, moved>>
    BY <1>8, AmountInBounds DEF ReadBegin, ReadLaunch, RaLowWater, RaEnsure, RaAim, RaSpace, RaExpose, RaNothing, RaEOF, RaError, RaDone,
         readerVars, raheadVars
  <2> QED BY <2>1 DEF bufferVars, OrderInv, NextItems, Item, Wrap
<1> QED BY <1>2, <1>3, <1>4, <1>5, <1>6, <1>7, <1>8 DEF RaheadNext, ReadStep, RaStep

(* Whatever order Reads, seeks, resizes and readaheads come in, the bytes    *)
(* that the next Reads return follow index, and those read ahead next follow *)
(* them: for a low-water mark below the initial size, so that no full buffer *)
(* is resized. With the default configuration the two are equal.             *)
THEOREM OrderCorrect ==
  ASSUME LowWater < InitialSize
  PROVE  RaheadSpec => []InOrder
<1>1. RaheadInit => BufInv /\ OrderInv
  <2>1. ASSUME RaheadInit PROVE OrderInv
    BY <2>1 DEF RaheadInit, NewCircularBuffer, OrderInv, RoomToGrow, NextItems
  <2> QED BY <2>1, BufInvInit, BufferAssumption, ReadaheadAssumption
<1>2. BufInv /\ OrderInv /\ [RaheadNext]_raheadVars => BufInv' /\ OrderInv'
  <2>1. SUFFICES ASSUME BufInv, OrderInv, [RaheadNext]_raheadVars PROVE BufInv' /\ OrderInv'
    OBVIOUS
  <2>2. BufInv'
    BY <2>1, BufInvStep, BufferAssumption, ReadaheadAssumption
  <2>3. RoomToGrow'
    BY <2>1, RoomToGrowStep, BufferAssumption, ReadaheadAssumption DEF OrderInv
  <2>4. NextItems'
    BY <2>1, <2>2, NextItemsStep, BufferAssumption, ReadaheadAssumption
  <2> QED BY <2>2, <2>3, <2>4 DEF OrderInv
<1>3. BufInv /\ OrderInv => InOrder
  <2>1. SUFFICES ASSUME BufInv, NextItems, ~moved, life = "open"
                 PROVE  Contents = [i \in 1 .. size |-> index + (i - 1)] /\ under = index + size
    BY DEF OrderInv, InOrder
  <2>2. size \in Nat
    BY <2>1 DEF BufInv, Positions, BufferAssumption
  <2>3. \A i \in 1 .. size : Item(i - 1) = index + (i - 1)
    BY <2>1, <2>2 DEF NextItems
  <2> QED BY <2>1, <2>3 DEF NextItems, Contents
<1> QED BY <1>1, <1>2, <1>3, PTL DEF RaheadSpec

-----------------------------------------------------------------------------
(* The buffer as a queue.                                                    *)
QueueOf(items) ==
  /\ items \in Seq(Int) /\ Len(items) = size /\ size \in Nat /\ size <= MaxCapacity
  /\ \A i \in 1 .. size : items[i] = Item(i - 1)

LEMMA ContentsIsSeq == BufInv => QueueOf(Contents)
<1> SUFFICES ASSUME BufInv PROVE QueueOf(Contents)
  OBVIOUS
<1>1. size \in Nat /\ capacity \in Nat /\ size <= capacity /\ capacity <= MaxCapacity /\ readPos \in Nat
  BY BufferAssumption DEF BufInv, Positions, BufferAssumption
<1>2. ASSUME NEW i \in 1 .. size PROVE Item(i - 1) \in Int
  <2>1. capacity > 0 /\ readPos < 2 * capacity
    BY <1>1 DEF BufInv, Positions
  <2>2. Wrap(Wrap(readPos) + (i - 1)) \in 0 .. capacity - 1
    BY <1>1, <2>1 DEF Wrap
  <2> QED
    BY <2>2, ReadaheadAssumption DEF BufInv, Positions, Item, Blank, ReadaheadAssumption
<1>3. Contents \in [1 .. size -> Int] /\ \A i \in 1 .. size : Contents[i] = Item(i - 1)
  BY <1>2 DEF Contents
<1>4. Contents \in Seq(Int) /\ Len(Contents) = size
  BY <1>1, <1>3
<1> QED
  BY <1>1, <1>3, <1>4, BufferAssumption DEF QueueOf, BufferAssumption

(* A sequence that goes on where another ends.                               *)
LEMMA GoesOn ==
  ASSUME NEW q \in Seq(Int), NEW longer \in Seq(Int), Len(q) < Len(longer),
         \A i \in 1 .. Len(q) : longer[i] = q[i]
  PROVE  longer = q \o SubSeq(longer, Len(q) + 1, Len(longer))
<1> DEFINE more == SubSeq(longer, Len(q) + 1, Len(longer))
<1>1. Len(q) \in Nat /\ Len(longer) \in Nat
  OBVIOUS
<1>2. more \in Seq(Int) /\ Len(more) = Len(longer) - Len(q)
  BY <1>1
<1>3. \A i \in 1 .. Len(longer) - Len(q) : more[i] = longer[Len(q) + i]
  BY <1>1
<1> HIDE DEF more
<1>4. /\ q \o more \in Seq(Int) /\ Len(q \o more) = Len(longer)
      /\ \A i \in 1 .. Len(longer) : (q \o more)[i] = IF i <= Len(q) THEN q[i] ELSE more[i - Len(q)]
  <2>1. /\ q \o more \in Seq(Int) /\ Len(q \o more) = Len(q) + Len(more)
        /\ \A i \in 1 .. Len(q) + Len(more) :
             (q \o more)[i] = IF i <= Len(q) THEN q[i] ELSE more[i - Len(q)]
    BY <1>2, ConcatProperties
  <2> QED
    BY <1>1, <1>2, <2>1, SMTT(30)
<1>5. ASSUME NEW i \in 1 .. Len(longer) PROVE longer[i] = (q \o more)[i]
  <2>1. CASE i <= Len(q)
    BY <1>1, <1>4, <2>1
  <2>2. CASE ~(i <= Len(q))
    <3>1. i - Len(q) \in 1 .. Len(longer) - Len(q) /\ Len(q) + (i - Len(q)) = i
      BY <1>1, <2>2
    <3>2. (q \o more)[i] = more[i - Len(q)]
      BY <1>1, <1>4, <2>2
    <3> QED
      BY <1>3, <3>1, <3>2
  <2> QED
    BY <2>1, <2>2
<1>6. longer = q \o more
  BY <1>4, <1>5, SeqEqual
<1> QED
  BY <1>6 DEF more

(* What begins n items later is what a drop of n items leaves.               *)
LEMMA Dropped ==
  ASSUME BufferAssumption, ReadaheadAssumption, BufInv, BufInv',
         NEW n \in 1 .. size, size' = size - n,
         \A i \in 0 .. size' - 1 : Item(i)' = Item(i + n)
  PROVE  Fifo!Drop
<1>1. /\ Contents \in Seq(Int) /\ Len(Contents) = size /\ size \in Nat
      /\ \A i \in 1 .. size : Contents[i] = Item(i - 1)
  BY ContentsIsSeq DEF QueueOf
<1>2. Contents' = [i \in 1 .. size' |-> Item(i - 1)']
  BY DEF Contents
<1>3. SubSeq(Contents, n + 1, Len(Contents)) = [i \in 1 .. size - n |-> Contents[n + i]]
  BY <1>1
<1>4. ASSUME NEW i \in 1 .. size - n PROVE Item(i - 1)' = Contents[n + i]
  <2>1. i - 1 \in 0 .. size' - 1 /\ n + i \in 1 .. size /\ (n + i) - 1 = (i - 1) + n
    BY <1>1
  <2> QED
    BY <1>1, <2>1
<1>5. Contents' = SubSeq(Contents, n + 1, Len(Contents))
  BY <1>2, <1>3, <1>4
<1> QED
  BY <1>1, <1>5 DEF Fifo!Drop

LEMMA Emptied ==
  ASSUME BufferAssumption, ReadaheadAssumption, BufInv, BufInv', size' = 0
  PROVE  Fifo!Drop \/ Contents' = Contents
<1>1. size \in Nat
  BY ContentsIsSeq DEF QueueOf
<1>2. CASE size = 0
  BY <1>2 DEF Contents
<1>3. CASE size # 0
  BY <1>1, <1>3, Dropped
<1> QED
  BY <1>2, <1>3

(* A commit appends its items.                                               *)
LEMMA Appended ==
  ASSUME BufferAssumption, ReadaheadAssumption, BufInv, BufInv',
         NEW n \in Nat, size' = size + n,
         \A i \in 0 .. size - 1 : Item(i)' = Item(i)
  PROVE  Fifo!Put \/ Contents' = Contents
<1>1. /\ Contents \in Seq(Int) /\ Len(Contents) = size /\ size \in Nat
      /\ \A i \in 1 .. size : Contents[i] = Item(i - 1)
  BY ContentsIsSeq DEF QueueOf
<1>2. /\ Contents' \in Seq(Int) /\ Len(Contents') = size + n /\ size + n <= MaxCapacity
      /\ \A i \in 1 .. size + n : Contents'[i] = Item(i - 1)'
  <2>1. (BufInv => QueueOf(Contents))'
    BY ContentsIsSeq, PTL
  <2> QED
    BY <2>1 DEF QueueOf
<1>3. \A i \in 1 .. size : Contents'[i] = Contents[i]
  BY <1>1, <1>2
<1>4. CASE n = 0
  BY <1>1, <1>2, <1>3, <1>4
<1>5. CASE n # 0
  <2> DEFINE more == SubSeq(Contents', size + 1, Len(Contents'))
  <2>1. size + 1 \in 1 .. Len(Contents')
    BY <1>1, <1>2, <1>5
  <2>2. Len(Contents) < Len(Contents') /\ \A i \in 1 .. Len(Contents) : Contents'[i] = Contents[i]
    BY <1>1, <1>2, <1>3, <1>5
  <2>3. Contents' = Contents \o more
    BY <1>1, <1>2, <2>2, GoesOn
  <2>4. Fifo!Enqueue(more)
    BY <1>2, <2>3 DEF Fifo!Enqueue
  <2> QED
    BY <2>1, <2>4 DEF Fifo!Put
<1> QED
  BY <1>4, <1>5

(* A Seek within the cache passes as many bytes as it moves.                 *)
LEMMA SeekItems ==
  ASSUME BufferAssumption, Positions, NEW d \in Nat, 0 < d, d < size, MaySeek(d), SeekCurrent(d)
  PROVE  size' = size - d /\ \A i \in 0 .. size' - 1 : Item(i)' = Item(i + d)
<1>1. capacity' = capacity /\ buffer' = buffer /\ readPos' = Wrap(readPos + d)
      /\ size' = IF Wrap(writePos) - Wrap(readPos + d) < 0
                 THEN Wrap(writePos) - Wrap(readPos + d) + capacity
                 ELSE Wrap(writePos) - Wrap(readPos + d)
  BY DEF SeekCurrent
<1>2. capacity \in Nat /\ readPos \in Nat /\ size \in Nat /\ writePos \in Nat
      /\ writePos <= capacity /\ size <= capacity /\ capacity > 0 /\ readPos + d <= size
      /\ Wrap(Wrap(readPos) + size) = Wrap(writePos)
  BY DEF Positions, BufferAssumption, MaySeek
<1>3. size' = size - d
  BY <1>1, <1>2, SMTT(30) DEF Wrap
<1>4. ASSUME NEW i \in 0 .. size' - 1 PROVE Item(i)' = Item(i + d)
  <2>1. Wrap(Wrap(readPos + d)) = Wrap(readPos + d)
    BY <1>2 DEF Wrap
  <2>2. Wrap(Wrap(readPos + d) + i) = Wrap(Wrap(readPos) + (i + d))
    BY <1>2, <1>3, SMTT(30) DEF Wrap
  <2>3. Item(i)' = buffer[Wrap(Wrap(Wrap(readPos + d)) + i)]
    BY <1>1 DEF Item, Wrap
  <2> QED
    BY <2>1, <2>2, <2>3 DEF Item
<1> QED
  BY <1>3, <1>4

(* A step of the readahead is a step of the queue, or none.                  *)
LEMMA FifoStep ==
  ASSUME BufferAssumption, ReadaheadAssumption, LowWater < InitialSize,
         BufInv, BufInv', RoomToGrow, [RaheadNext]_raheadVars
  PROVE  Fifo!Next \/ Contents' = Contents
<1>1. size \in Nat /\ LowWater \in Nat /\ capacity \in Nat /\ index \in Nat
  BY DEF BufInv, Positions, Types, BufferAssumption, ReadaheadAssumption
<1>2. CASE UNCHANGED bufferVars
  BY <1>2 DEF bufferVars, Contents, Item, Wrap
<1>3. CASE Open
  <2>1. size' = 0
    BY <1>3 DEF Open
  <2> QED
    BY <2>1, Emptied DEF Fifo!Next
<1>4. CASE Close
  <2>1. UNCHANGED bufferVars \/ size' = 0
    BY <1>4 DEF Close, Flush
  <2> QED
    BY <1>2, <2>1, Emptied DEF Fifo!Next
<1>5. ASSUME NEW i \in 0 .. Length, SeekTo(i) PROVE Fifo!Next \/ Contents' = Contents
  <2>1. CASE InCache(i - index)
    <3>1. i - index \in Nat /\ 0 < i - index /\ i - index < size
      BY <1>1, <2>1 DEF InCache, ReadaheadAssumption
    <3>2. size' = size - (i - index) /\ \A j \in 0 .. size' - 1 : Item(j)' = Item(j + (i - index))
      BY <1>5, <2>1, <3>1, SeekItems DEF SeekTo, InCache, BufInv
    <3>3. i - index \in 1 .. size
      BY <1>1, <3>1
    <3> QED
      BY <3>2, <3>3, Dropped DEF Fifo!Next
  <2>2. CASE ~InCache(i - index)
    <3>1. size' = 0
      BY <1>5, <2>2 DEF SeekTo, Clear
    <3> QED
      BY <3>1, Emptied DEF Fifo!Next
  <2> QED
    BY <2>1, <2>2
<1>6. ASSUME NEW p \in 1 .. MaxRead, ReadCache(p) PROVE Fifo!Next \/ Contents' = Contents
  <2> DEFINE k == Smaller(p, size)
  <2>1. p \in Nat /\ Read(p) /\ size > 0
    BY <1>6 DEF ReadCache, Read, ReadaheadAssumption
  <2>2. size' = size - k
    BY <2>1, ReadPositions DEF BufInv
  <2>3. k \in 1 .. size
    BY <1>1, <2>1 DEF Smaller
  <2>4. \A i \in 0 .. size' - 1 : Item(i)' = Item(i + k)
    BY <2>1, ReadItems DEF BufInv
  <2> HIDE DEF k
  <2> QED
    BY <2>2, <2>3, <2>4, Dropped DEF Fifo!Next
<1>7. CASE RaGrow
  <2>1. readPos <= capacity /\ Resize(target) /\ size' = size
    BY <1>7 DEF RaGrow, SliceInRange, Resize
  <2>2. target \in Nat /\ target >= size /\ target >= InitialSize /\ size <= LowWater
    BY <1>7 DEF RaGrow, RaGoto, BufInv, RaKnows, RoomToGrow, BufferAssumption
  <2>3. size < capacity \/ size = 0
    BY <1>1, <2>2 DEF BufInv, Positions, BufferAssumption
  <2>4. \A i \in 0 .. size - 1 : Item(i)' = Item(i)
    BY <2>1, <2>2, <2>3, ResizeItems DEF BufInv
  <2>5. size' = size + 0 /\ 0 \in Nat
    BY <1>1, <2>1
  <2> QED
    BY <2>4, <2>5, Appended DEF Fifo!Next
<1>8. ASSUME NEW n \in 0 .. MaxCapacity, RaFill(n) PROVE Fifo!Next \/ Contents' = Contents
  <2>1. n \in Nat /\ n <= WriteSpace /\ CommitWrite(n, under) /\ size' = size + n /\ ra = "fill"
    BY <1>8 DEF RaFill, RaGoto, CommitWrite, BufferAssumption
  <2>2. capacity > 0 /\ size < capacity /\ readPos <= capacity /\ under \in Nat
    BY <2>1 DEF BufInv, RaKnows, Types, ReadaheadAssumption
  <2>3. ASSUME NEW i \in 0 .. size - 1 PROVE Item(i)' = Item(i)
    <3>1. i \in 0 .. size + n - 1 /\ i < size
      BY <1>1, <2>1
    <3> QED
      BY <2>1, <2>2, <3>1, CommitItems DEF BufInv
  <2> QED
    BY <2>1, <2>3, Appended DEF Fifo!Next
<1>9. CASE ReadBegin \/ ReadLaunch \/ SeekFails \/ RaLock \/ RaLowWater \/ RaEnsure \/ RaAim \/ RaSpace \/ RaExpose
           \/ RaNothing \/ RaEOF \/ RaError \/ RaDone \/ RaGrowPanics \/ RaExposePanics \/ UNCHANGED raheadVars
  <2>1. UNCHANGED bufferVars
    BY <1>9, AmountInBounds DEF ReadBegin, ReadLaunch, SeekFails, RaLowWater, RaEnsure, RaAim, RaSpace, RaExpose,
         RaNothing, RaEOF, RaError, RaDone, RaGrowPanics, RaExposePanics, Panic, raheadVars
  <2> QED
    BY <1>2, <2>1
<1> QED
  <2>1. ASSUME SeekStart \/ SeekFromHere \/ SeekEnd PROVE Fifo!Next \/ Contents' = Contents
    BY <2>1, <1>5 DEF SeekStart, SeekFromHere, SeekEnd, ReadaheadAssumption
  <2> QED
    BY <1>3, <1>4, <2>1, <1>6, <1>7, <1>8, <1>9 DEF RaheadNext, ReadStep, RaStep

(* The circular buffer, as its reader, its seeks and the readahead use it at *)
(* once, is a first-in first-out queue of at most MaxCapacity bytes: none is *)
(* doubled, lost but by a Seek or Close, or overtaken, whatever positions    *)
(* wrap and whenever it is resized; for a low-water mark below the initial    *)
(* size.                                                                     *)
THEOREM FifoCorrect ==
  ASSUME LowWater < InitialSize
  PROVE  RaheadSpec => ImplementsFifo
<1>1. RaheadInit => BufInv /\ RoomToGrow /\ Fifo!Init
  <2>1. ASSUME RaheadInit PROVE RoomToGrow
    BY <2>1 DEF RaheadInit, RoomToGrow
  <2>2. ASSUME RaheadInit PROVE Contents = << >>
    BY <2>2 DEF RaheadInit, NewCircularBuffer, Contents
  <2> QED
    BY <2>1, <2>2, BufInvInit, BufferAssumption, ReadaheadAssumption DEF Fifo!Init
<1>2. BufInv /\ RoomToGrow /\ [RaheadNext]_raheadVars => BufInv' /\ RoomToGrow'
  BY BufInvStep, RoomToGrowStep, BufferAssumption, ReadaheadAssumption
<1>3. BufInv /\ BufInv' /\ RoomToGrow /\ [RaheadNext]_raheadVars => [Fifo!Next]_Contents
  BY FifoStep, BufferAssumption, ReadaheadAssumption
<1> QED
  BY <1>1, <1>2, <1>3, PTL DEF RaheadSpec, ImplementsFifo, Fifo!Spec

=============================================================================
