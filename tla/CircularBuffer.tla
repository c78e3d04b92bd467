--------------------------- MODULE CircularBuffer ---------------------------
(***************************************************************************)
(* pkg/circularbuffer as its users call it: one writer that exposes and     *)
(* commits write space and resizes, one reader that reads, seeks and        *)
(* clears. The steps are those made under CircularBuffer.mu, which is held  *)
(* from ExposeWriteSpace to CommitWrite.                                    *)
(*                                                                         *)
(* A position may be as large as the capacity, and readPos larger: commits  *)
(* add to a position and reduce it only before the next commit.             *)
(***************************************************************************)
EXTENDS Integers, Sequences

CONSTANTS
  InitialSize, \* capacity of a new buffer
  MaxCapacity  \* maxCapacity

ASSUME BufferAssumption ==
  InitialSize \in Nat /\ MaxCapacity \in Nat /\ 0 < InitialSize /\ InitialSize <= MaxCapacity

VARIABLES
  capacity, \* length of buffer
  buffer,   \* its items
  size,
  readPos,
  writePos

bufferVars == <<capacity, buffer, size, readPos, writePos>>

Blank == -1 \* a fresh item of a new slice

-----------------------------------------------------------------------------
(* A position below twice the capacity, modulo the capacity. *)
Wrap(p) == IF p >= capacity THEN p - capacity ELSE p

Smaller(a, b) == IF a < b THEN a ELSE b

(* The i-th readable item, from 0, and all of them. *)
Item(i)  == buffer[Wrap(Wrap(readPos) + i)]
Contents == [i \in 1 .. size |-> Item(i - 1)]

NewCircularBuffer ==
  /\ capacity = InitialSize
  /\ buffer = [i \in 0 .. InitialSize - 1 |-> Blank]
  /\ size = 0 /\ readPos = 0 /\ writePos = 0

-----------------------------------------------------------------------------
(* Writing *)

(* A slice expression ends at readPos, or starts there, and panics when      *)
(* readPos is beyond the buffer.                                             *)
SliceInRange == readPos <= capacity

(* Faulty: the free space is taken to reach to the end of the buffer. *)
WriteSpaceToEnd == IF size = capacity THEN 0 ELSE capacity - Wrap(writePos)

(* The items that exposeWriteSpace exposes, free and in one piece. *)
WriteSpace ==
  IF size = capacity THEN 0
  ELSE IF Wrap(writePos) >= readPos THEN capacity - Wrap(writePos)
  ELSE readPos - Wrap(writePos)

(* CommitWrite of n items, which are first, first + 1, ... *)
CommitWrite(n, first) ==
  LET start == Wrap(writePos) IN
  /\ buffer' = [i \in 0 .. capacity - 1 |->
                 IF i \in start .. start + n - 1 THEN first + (i - start) ELSE buffer[i]]
  /\ writePos' = start + n
  /\ size' = size + n
  /\ UNCHANGED <<capacity, readPos>>

(* Faulty: data that wraps around is not copied. *)
CopiedUnwrapped == writePos - readPos

(* How many items resizeWithLock copies; none where both positions meet. *)
Copied == IF readPos <= writePos THEN writePos - readPos ELSE capacity - readPos + writePos

(* newCapacity is not below size. *)
Resize(newCapacity) ==
  /\ capacity' = newCapacity
  /\ buffer' = [i \in 0 .. newCapacity - 1 |-> IF i < Copied THEN buffer[Wrap(readPos + i)] ELSE Blank]
  /\ readPos' = 0
  /\ writePos' = size
  /\ UNCHANGED size

-----------------------------------------------------------------------------
(* Reading *)

CommitRead(n) ==
  /\ readPos' = Wrap(readPos) + n
  /\ size' = size - n
  /\ UNCHANGED <<capacity, buffer, writePos>>

(* read of at most p items, once there are some. Data that wraps around is   *)
(* read in one piece.                                                        *)
Read(p) == size > 0 /\ CommitRead(Smaller(p, size))

(* Seek(d, io.SeekCurrent): in bounds, and what it does then. *)
MaySeek(d) == readPos + d >= 0 /\ readPos + d <= size

SeekCurrent(d) ==
  LET rest == Wrap(writePos) - Wrap(readPos + d) IN
  /\ readPos' = Wrap(readPos + d)
  /\ size' = IF rest < 0 THEN rest + capacity ELSE rest
  /\ UNCHANGED <<capacity, buffer, writePos>>

Clear ==
  /\ size' = 0 /\ readPos' = 0 /\ writePos' = 0
  /\ UNCHANGED <<capacity, buffer>>

(* Flush: its Seek to the end fails where writePos is beyond size, and then  *)
(* nothing is freed.                                                         *)
Flush ==
  IF writePos > size THEN UNCHANGED bufferVars
  ELSE /\ capacity' = 0
       /\ buffer' = [i \in 0 .. -1 |-> Blank]
       /\ size' = 0 /\ readPos' = 0 /\ writePos' = 0

=============================================================================
