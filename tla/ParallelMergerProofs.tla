------------------------ MODULE ParallelMergerProofs ------------------------
(***************************************************************************)
(* Proofs about ParallelMerger, for any number of segments, their sizes and  *)
(* hints, lengths of Reads and faults: no two goroutines of a call have the   *)
(* reader of one segment (ReadersCorrect), the place between calls is the     *)
(* index (AlignedCorrect), a Read copies the bytes after it in their order    *)
(* (CopyCorrect) and tells the end at the end (MergerEndCorrect).            *)
(***************************************************************************)
EXTENDS ParallelMerger, TLAPS

-----------------------------------------------------------------------------
Answers == {"data", "eof", "error"}

PartRecord ==
  [reader : Segments, from : Int, amount : Int, state : {"running"} \cup Answers,
   n : Int, first : Int]

(* Only the loop of a Seek goes past the segments, and readerIndex at the end *)
(* of the file, where readerByteIndex is 0.                                  *)
MergerType ==
  /\ at \in [Segments -> Int]
  /\ index \in Int /\ readerIndex \in 1 .. N + 1 /\ readerByteIndex \in Int
  /\ readerByteIndex # 0 => readerIndex <= N
  /\ phase \in {"idle", "request", "process", "drain", "wait", "forward", "backward", "down", "closed"}
  /\ goal \in Int /\ expected \in Int /\ done \in Int
  /\ next \in Int \X Int
  /\ parts \in Seq(PartRecord)
  /\ processed \in 0 .. Len(parts)

(* The requests of a call are for segments further and further on, and end    *)
(* where one is for less than its segment has left.                          *)
Onward ==
  /\ phase \in {"idle", "closed"} => parts = << >>
  /\ phase \in {"idle", "closed", "request"} => processed = 0
  /\ phase = "process" /\ processed > 0 => readerIndex <= N
  /\ phase = "request" /\ MoreToRequest => \A k \in 1 .. Len(parts) : parts[k].reader < readerIndex
  /\ phase = "forward" => next[1] >= 1 /\ \A k \in 1 .. Len(parts) : parts[k].reader < next[1]
  /\ phase = "backward" => next[1] <= N /\ \A k \in 1 .. Len(parts) : parts[k].reader > next[1]

MergerInv == MergerType /\ Onward /\ OneGoroutineEach

(* Sizes are numbers, whether they are known or hinted.                      *)
LEMMA Sizes ==
  ASSUME NEW i \in Segments
  PROVE  SegmentSize(i) \in Nat /\ Size(i) \in Nat /\ Offset[i] \in Nat
BY MergerAssumption, SMTT(30) DEF Segments, SegmentSize, Size

LEMMA MergerInvInit == MergerInit => MergerInv
BY MergerAssumption
DEF MergerInit, MergerInv, MergerType, Onward, OneGoroutineEach, Segments, PartRecord

-----------------------------------------------------------------------------
(* Answers *)

SameReaders ==
  /\ parts' \in Seq(PartRecord) /\ Len(parts') = Len(parts)
  /\ \A k \in 1 .. Len(parts) : parts'[k].reader = parts[k].reader

(* A response has the reader of its request.                                 *)
LEMMA AnswerKeeps ==
  ASSUME MergerInv, NEW k \in 1 .. Len(parts), NEW state \in Answers,
         NEW n \in Int, NEW first \in Int, Answer(k, state, n, first)
  PROVE  SameReaders
<1>1. parts \in Seq(PartRecord) /\ parts[k] \in PartRecord
  BY DEF MergerInv, MergerType
<1>2. [parts[k] EXCEPT !.state = state, !.n = n, !.first = first] \in PartRecord
  BY <1>1 DEF PartRecord
<1>3. parts' = [parts EXCEPT ![k] = [parts[k] EXCEPT !.state = state, !.n = n, !.first = first]]
  BY <1>1 DEF Answer, PartRecord
<1>4. parts' \in Seq(PartRecord) /\ Len(parts') = Len(parts)
  BY <1>1, <1>2, <1>3
<1>5. ASSUME NEW j \in 1 .. Len(parts) PROVE parts'[j].reader = parts[j].reader
  <2>1. CASE j = k
    BY <1>1, <1>3, <2>1 DEF PartRecord
  <2>2. CASE j # k
    BY <1>1, <1>3, <2>2
  <2> QED
    BY <2>1, <2>2
<1> QED
  BY <1>4, <1>5 DEF SameReaders

(* A step that begins no goroutine and leaves the loops alone keeps the rest. *)
LEMMA OnwardFrame ==
  ASSUME MergerInv, SameReaders, UNCHANGED <<placeVars, phase, goal, expected, done, next, processed>>,
         at' \in [Segments -> Int]
  PROVE  MergerInv'
<1>1. MergerType'
  BY DEF MergerInv, MergerType, SameReaders, placeVars
<1>2. OneGoroutineEach'
  BY DEF MergerInv, OneGoroutineEach, SameReaders
<1>3. parts = << >> => parts' = << >>
  BY DEF SameReaders
<1>4. Onward'
  BY <1>3 DEF MergerInv, Onward, SameReaders, MoreToRequest, placeVars
<1> QED
  BY <1>1, <1>2, <1>4 DEF MergerInv

(* The answers of the goroutines, of Reads and of Seeks.                     *)
LEMMA RespondStep ==
  ASSUME MergerInv, NEW k \in 1 .. Len(parts),
         \/ RespondEOF(k) \/ Respond(k) \/ RespondError(k) \/ SeekRespond(k) \/ SeekRespondError(k)
  PROVE  MergerInv'
<1> DEFINE i == parts[k].reader
<1>0. parts[k] \in PartRecord /\ at \in [Segments -> Int]
  BY DEF MergerInv, MergerType
<1>1. i \in Segments /\ at \in [Segments -> Int] /\ at[i] \in Int
  BY <1>0 DEF PartRecord
<1>2. SegmentSize(i) \in Nat /\ Size(i) \in Nat /\ Offset[i] \in Nat
  BY <1>1, Sizes
<1>3. parts[k].amount \in Int /\ parts[k].from \in Int
  BY <1>0 DEF PartRecord
<1> HIDE DEF i
<1>4. CASE RespondEOF(k) \/ RespondError(k) \/ SeekRespondError(k)
  <2>1. PICK state \in Answers : Answer(k, state, 0, 0)
    BY <1>4 DEF RespondEOF, RespondError, SeekRespondError, Answers
  <2>2. UNCHANGED <<at, placeVars, phase, goal, expected, done, next, processed>>
    BY <1>4 DEF RespondEOF, RespondError, SeekRespondError
  <2>3. SameReaders
    <3>1. 0 \in Int
      OBVIOUS
    <3> QED
      BY <2>1, <3>1, AnswerKeeps, Zenon
  <2> QED
    BY <1>1, <2>2, <2>3, OnwardFrame
<1>5. CASE Respond(k)
  <2> DEFINE n == Smaller(parts[k].amount, SegmentSize(i) - at[i])
  <2>1. n \in Int /\ Offset[i] + at[i] \in Int
    BY <1>1, <1>2, <1>3 DEF Smaller
  <2>2. /\ Answer(k, "data", n, Offset[i] + at[i]) \/ Answer(k, "eof", 0, 0)
        /\ at' = [at EXCEPT ![i] = @ + n]
    BY <1>5 DEF Respond, i
  <2>3. UNCHANGED <<placeVars, phase, goal, expected, done, next, processed>>
    BY <1>5 DEF Respond
  <2> HIDE DEF n
  <2>4. SameReaders
    <3>1. "data" \in Answers /\ "eof" \in Answers /\ 0 \in Int
      BY DEF Answers
    <3> QED
      BY <2>1, <2>2, <3>1, AnswerKeeps, Zenon
  <2>5. at' \in [Segments -> Int]
    BY <1>1, <2>1, <2>2
  <2> QED
    BY <2>3, <2>4, <2>5, OnwardFrame
<1>6. CASE SeekRespond(k)
  <2> DEFINE n == SegmentSize(i) - parts[k].from
  <2>1. n \in Int
    BY <1>2, <1>3
  <2>2. Answer(k, "data", n, 0) /\ at' = [at EXCEPT ![i] = SegmentSize(i)]
    BY <1>6 DEF SeekRespond, i
  <2>3. UNCHANGED <<placeVars, phase, goal, expected, done, next, processed>>
    BY <1>6 DEF SeekRespond
  <2> HIDE DEF n
  <2>4. SameReaders
    <3>1. "data" \in Answers /\ "eof" \in Answers /\ 0 \in Int
      BY DEF Answers
    <3> QED
      BY <2>1, <2>2, <3>1, AnswerKeeps, Zenon
  <2>5. at' \in [Segments -> Int]
    BY <1>1, <1>2, <2>2
  <2> QED
    BY <2>3, <2>4, <2>5, OnwardFrame
<1> QED
  BY <1>4, <1>5, <1>6

-----------------------------------------------------------------------------
(* The place of the reader and of those of its segments                      *)
PlaceType ==
  /\ at \in [Segments -> Int]
  /\ index \in Int /\ readerIndex \in 1 .. N + 1 /\ readerByteIndex \in Int
  /\ readerByteIndex # 0 => readerIndex <= N

LEMMA PlaceFrame ==
  ASSUME MergerInv, UNCHANGED <<at, placeVars>>
  PROVE  PlaceType'
BY DEF MergerInv, MergerType, PlaceType, placeVars

LEMMA FinishKeeps ==
  ASSUME Finish, PlaceType'
  PROVE  MergerInv'
BY DEF Finish, PlaceType, MergerInv, MergerType, Onward, OneGoroutineEach

(* A step of the loop that takes the responses, of a Read and of a Seek.     *)
LEMMA ProcessKeeps ==
  ASSUME MergerInv, phase \in {"process", "forward", "backward"}, PlaceType', done' \in Int,
         processed < Len(parts), processed' = processed + 1,
         phase = "process" => readerIndex' <= N,
         UNCHANGED <<phase, goal, expected, next, parts>>
  PROVE  MergerInv'
BY DEF PlaceType, MergerInv, MergerType, Onward, OneGoroutineEach

(* One more request, for a segment that none was for.                        *)
LEMMA RequestKeeps ==
  ASSUME MergerInv, NEW i \in Segments, NEW from \in Int, NEW amount \in Int,
         parts' = Append(parts, Part(i, from, amount)),
         \A k \in 1 .. Len(parts) : parts[k].reader # i
  PROVE  /\ parts' \in Seq(PartRecord) /\ Len(parts') = Len(parts) + 1
         /\ \A k \in 1 .. Len(parts) : parts'[k] = parts[k]
         /\ parts'[Len(parts) + 1].reader = i
         /\ OneGoroutineEach'
<1>1. parts \in Seq(PartRecord)
  BY DEF MergerInv, MergerType
<1>2. Part(i, from, amount) \in PartRecord /\ Part(i, from, amount).reader = i
  BY DEF Part, PartRecord
<1>3. /\ parts' \in Seq(PartRecord) /\ Len(parts') = Len(parts) + 1
      /\ \A k \in 1 .. Len(parts) : parts'[k] = parts[k]
      /\ parts'[Len(parts) + 1].reader = i
  BY <1>1, <1>2
<1>4. OneGoroutineEach'
  BY <1>3 DEF MergerInv, OneGoroutineEach
<1> QED
  BY <1>3, <1>4

-----------------------------------------------------------------------------
(* Reads *)

LEMMA RequestStep ==
  ASSUME MergerInv, Request
  PROVE  MergerInv'
<1> DEFINE left   == Larger(0, Size(readerIndex) - readerByteIndex)
           amount == Larger(1, Smaller(left, goal - expected))
<1>1. /\ phase = "request" /\ MoreToRequest
      /\ parts' = Append(parts, Part(readerIndex, readerByteIndex, amount))
      /\ expected' = expected + amount
      /\ IF amount < left
         THEN readerByteIndex' = readerByteIndex + amount /\ UNCHANGED readerIndex
         ELSE readerByteIndex' = 0 /\ readerIndex' = readerIndex + 1
      /\ UNCHANGED <<at, index, phase, goal, done, next, processed>>
  BY DEF Request
<1>2. /\ readerIndex \in Segments /\ readerByteIndex \in Int /\ goal \in Int /\ expected \in Int
      /\ expected < goal
  BY <1>1 DEF MergerInv, MergerType, MoreToRequest, Segments
<1>3. left \in Nat /\ amount \in Nat \ {0} /\ (amount < left => amount >= goal - expected)
  <2>1. Size(readerIndex) \in Nat
    BY <1>2, Sizes
  <2> QED
    BY <1>2, <2>1 DEF Larger, Smaller
<1> HIDE DEF left, amount
<1>4. \A k \in 1 .. Len(parts) : parts[k].reader < readerIndex
  BY <1>1 DEF MergerInv, Onward
<1>5. \A k \in 1 .. Len(parts) : parts[k].reader # readerIndex
  BY <1>2, <1>4 DEF Segments
<1>6. /\ parts' \in Seq(PartRecord) /\ Len(parts') = Len(parts) + 1
      /\ \A k \in 1 .. Len(parts) : parts'[k] = parts[k]
      /\ parts'[Len(parts) + 1].reader = readerIndex
      /\ OneGoroutineEach'
  BY <1>1, <1>2, <1>3, <1>5, RequestKeeps
<1>7. MergerType'
  <2>1. PlaceType /\ done \in Int /\ next \in Int \X Int /\ processed \in 0 .. Len(parts) /\ Len(parts) \in Nat
    BY DEF MergerInv, MergerType, PlaceType
  <2>2. PlaceType'
    <3>1. at' \in [Segments -> Int] /\ index' \in Int
      BY <1>1, <2>1 DEF PlaceType
    <3>2. /\ readerIndex' \in 1 .. N + 1 /\ readerByteIndex' \in Int
          /\ readerByteIndex' # 0 => readerIndex' <= N
      <4>1. readerIndex \in 1 .. N /\ N \in Nat
        BY <1>2, MergerAssumption DEF Segments
      <4>2. CASE amount < left
        BY <1>1, <1>2, <1>3, <4>1, <4>2
      <4>3. CASE ~(amount < left)
        BY <1>1, <4>1, <4>3
      <4> QED
        BY <4>2, <4>3
    <3> QED
      BY <3>1, <3>2 DEF PlaceType
  <2>3. expected' \in Int /\ processed' \in 0 .. Len(parts')
    BY <1>1, <1>2, <1>3, <1>6, <2>1
  <2> QED
    BY <1>1, <1>2, <1>6, <2>1, <2>2, <2>3 DEF PlaceType, MergerType
<1>8. MoreToRequest' => readerIndex' = readerIndex + 1
  BY <1>1, <1>2, <1>3 DEF MoreToRequest
<1>9. Onward'
  <2>1. ASSUME MoreToRequest', NEW k \in 1 .. Len(parts')
        PROVE  parts'[k].reader < readerIndex'
    <3>1. CASE k = Len(parts) + 1
      BY <1>2, <1>6, <1>8, <2>1, <3>1 DEF Segments
    <3>2. CASE k # Len(parts) + 1
      <4>1. k \in 1 .. Len(parts) /\ Len(parts) \in Nat
        BY <1>6, <3>2 DEF MergerInv, MergerType
      <4>2. parts[k] \in PartRecord
        BY <4>1 DEF MergerInv, MergerType
      <4>3. parts[k].reader \in Int
        BY <4>2 DEF PartRecord, Segments
      <4> QED
        BY <1>2, <1>4, <1>6, <1>8, <2>1, <4>1, <4>3 DEF Segments
    <3> QED
      BY <3>1, <3>2
  <2> QED
    BY <1>1, <2>1 DEF Onward, MergerInv
<1> QED
  BY <1>6, <1>7, <1>9 DEF MergerInv

LEMMA ReadSteps ==
  ASSUME MergerInv,
         \/ Requested \/ Process \/ ReadError \/ ReadReturn \/ Drain \/ Unlock
         \/ \E k \in 1 .. Len(parts) : RespondPanics(k)
  PROVE  MergerInv'
<1>1. CASE Requested
  BY <1>1 DEF Requested, placeVars, callVars, MergerInv, MergerType, Onward, OneGoroutineEach
<1>2. CASE Process
  <2>1. /\ phase = "process" /\ processed < Len(parts) /\ processed' = processed + 1
        /\ done' = done + parts[processed + 1].n /\ index' = index + parts[processed + 1].n
        /\ readerIndex' = parts[processed + 1].reader
        /\ readerByteIndex' = parts[processed + 1].from + parts[processed + 1].n
        /\ UNCHANGED <<at, phase, goal, expected, next, parts>>
    BY <1>2 DEF Process, Ready
  <2>2. parts[processed + 1] \in PartRecord
    BY <2>1 DEF MergerInv, MergerType
  <2> DEFINE part == parts[processed + 1]
  <2>3. part.reader \in Segments /\ part.n \in Int /\ part.from \in Int
    BY <2>2 DEF PartRecord
  <2> HIDE DEF part
  <2>4. done \in Int /\ PlaceType
    BY DEF MergerInv, MergerType, PlaceType
  <2>5. done' \in Int /\ index' \in Int /\ readerIndex' \in Segments /\ readerByteIndex' \in Int
    BY <2>1, <2>3, <2>4, SMTT(30) DEF PlaceType, part
  <2>6. readerIndex' \in 1 .. N + 1 /\ readerIndex' <= N
    BY <2>5, MergerAssumption DEF Segments
  <2>7. PlaceType'
    BY <2>1, <2>4, <2>5, <2>6 DEF PlaceType
  <2> QED
    BY <2>1, <2>5, <2>6, <2>7, ProcessKeeps
<1>3. CASE ReadError
  BY <1>3 DEF ReadError, placeVars, callVars, MergerInv, MergerType, Onward, OneGoroutineEach
<1>4. CASE ReadReturn
  <2>1. Finish /\ phase = "process"
    BY <1>4 DEF ReadReturn, AllCopied
  <2>2. PlaceType /\ (processed > 0 => readerIndex <= N)
    BY <2>1 DEF MergerInv, MergerType, Onward, PlaceType
  <2>3. PlaceType'
    BY <1>4, <2>2, MergerAssumption, SMTT(30) DEF ReadReturn, LastEOF, PlaceType
  <2> QED
    BY <2>1, <2>3, FinishKeeps
<1>5. CASE Drain
  <2>1. /\ phase = "drain" /\ phase' = "wait" /\ processed' = Len(parts)
        /\ UNCHANGED <<placeVars, goal, expected, done, next, parts>>
    BY <1>5 DEF Drain
  <2>2. at' \in [Segments -> Int]
    BY <1>5 DEF Drain, MergerInv, MergerType
  <2> QED
    BY <2>1, <2>2 DEF placeVars, MergerInv, MergerType, Onward, OneGoroutineEach
<1>6. CASE Unlock
  BY <1>6, PlaceFrame, FinishKeeps DEF Unlock
<1>7. CASE \E k \in 1 .. Len(parts) : RespondPanics(k)
  BY <1>7 DEF RespondPanics, placeVars, callVars, MergerInv, MergerType, Onward, OneGoroutineEach
<1> QED
  BY <1>1, <1>2, <1>3, <1>4, <1>5, <1>6, <1>7

-----------------------------------------------------------------------------
(* Seeks *)

LEMMA SeekAskStep ==
  ASSUME MergerInv, SeekAsk
  PROVE  MergerInv'
<1> DEFINE i == next[1]
<1>1. /\ phase \in {"forward", "backward"} /\ MoreToAsk
      /\ parts' = Append(parts, Part(i, next[2], 0))
      /\ expected' = expected + Larger(0, Size(i) - next[2])
      /\ next' = <<IF phase = "forward" THEN i + 1 ELSE i - 1, 0>>
      /\ UNCHANGED <<at, placeVars, phase, goal, done, processed>>
  BY DEF SeekAsk, Seeking
<1>2. next[1] \in Int /\ next[2] \in Int /\ N \in Nat
  BY MergerAssumption DEF MergerInv, MergerType
<1>3. i \in Segments
  BY <1>1, <1>2 DEF MoreToAsk, MergerInv, Onward, Segments
<1>4. ASSUME NEW k \in 1 .. Len(parts)
      PROVE  /\ phase = "forward" => parts[k].reader < i
             /\ phase = "backward" => parts[k].reader > i
             /\ parts[k].reader # i
  <2>1. parts[k] \in PartRecord
    BY DEF MergerInv, MergerType
  <2>2. parts[k].reader \in Int
    BY <2>1 DEF PartRecord, Segments
  <2> QED
    BY <1>1, <1>2, <2>2 DEF MergerInv, Onward
<1>5. Larger(0, Size(i) - next[2]) \in Int
  <2>1. Size(i) \in Nat
    BY <1>3, Sizes
  <2> QED
    BY <1>2, <2>1 DEF Larger
<1> HIDE DEF i
<1>6. /\ parts' \in Seq(PartRecord) /\ Len(parts') = Len(parts) + 1
      /\ \A k \in 1 .. Len(parts) : parts'[k] = parts[k]
      /\ parts'[Len(parts) + 1].reader = i
      /\ OneGoroutineEach'
  <2>1. 0 \in Int
    OBVIOUS
  <2> QED
    BY <1>1, <1>2, <1>3, <1>4, <2>1, RequestKeeps
<1>7. expected \in Int /\ Len(parts) \in Nat /\ processed \in 0 .. Len(parts)
  BY DEF MergerInv, MergerType
<1>8. MergerType'
  <2>1. expected' \in Int /\ processed' \in 0 .. Len(parts') /\ next' \in Int \X Int
    BY <1>1, <1>3, <1>5, <1>6, <1>7 DEF Segments
  <2>2. PlaceType'
    BY <1>1, PlaceFrame
  <2> QED
    BY <1>1, <1>6, <2>1, <2>2 DEF MergerInv, MergerType, PlaceType
<1>9. Onward'
  <2>1. ASSUME NEW k \in 1 .. Len(parts')
        PROVE  /\ phase = "forward" => parts'[k].reader <= i
               /\ phase = "backward" => parts'[k].reader >= i
    <3>1. CASE k = Len(parts) + 1
      BY <1>3, <1>6, <3>1 DEF Segments
    <3>2. CASE k # Len(parts) + 1
      <4>1. k \in 1 .. Len(parts)
        BY <1>6, <1>7, <3>2
      <4>2. parts[k] \in PartRecord
        BY <4>1 DEF MergerInv, MergerType
      <4>3. parts[k].reader \in Int
        BY <4>2 DEF PartRecord, Segments
      <4> QED
        BY <1>3, <1>4, <1>6, <4>1, <4>3 DEF Segments
    <3> QED
      BY <3>1, <3>2
  <2>2. ASSUME NEW k \in 1 .. Len(parts') PROVE parts'[k].reader \in Int
    <3>1. parts'[k] \in PartRecord
      BY <1>6
    <3> QED
      BY <3>1 DEF PartRecord, Segments
  <2>3. CASE phase = "forward"
    <3>1. next'[1] = i + 1 /\ i \in Nat /\ i >= 1
      BY <1>1, <1>3, <2>3 DEF Segments
    <3>2. \A k \in 1 .. Len(parts') : parts'[k].reader < next'[1]
      BY <2>1, <2>2, <2>3, <3>1
    <3> QED
      BY <1>1, <2>3, <3>1, <3>2 DEF Onward
  <2>4. CASE phase = "backward"
    <3>1. next'[1] = i - 1 /\ i \in Int /\ i <= N
      BY <1>1, <1>2, <1>3, <2>4 DEF Segments
    <3>2. \A k \in 1 .. Len(parts') : parts'[k].reader > next'[1]
      BY <2>1, <2>2, <2>4, <3>1
    <3> QED
      BY <1>1, <1>2, <2>4, <3>1, <3>2 DEF Onward
  <2> QED
    BY <1>1, <2>3, <2>4
<1> QED
  BY <1>6, <1>8, <1>9 DEF MergerInv

(* The responses of a Seek: some land the reader in their segment.           *)
LEMMA SeekProcessStep ==
  ASSUME MergerInv,
         ForwardLands \/ ForwardPasses \/ BackwardLands \/ BackwardPasses \/ BackwardIgnores
  PROVE  MergerInv'
<1> DEFINE part == parts[processed + 1]
<1>1. /\ phase \in {"forward", "backward"} /\ processed < Len(parts) /\ processed' = processed + 1
      /\ UNCHANGED <<phase, goal, expected, next, parts>>
  BY DEF ForwardLands, ForwardPasses, BackwardLands, BackwardPasses, BackwardIgnores, SeekProcess,
         Ready, Seeking
<1>2. parts[processed + 1] \in PartRecord
  BY <1>1 DEF MergerInv, MergerType
<1>3. part.reader \in Segments /\ part.n \in Int
  BY <1>2 DEF PartRecord
<1>4. /\ goal \in Int /\ done \in Int /\ index \in Int /\ readerIndex \in Int /\ readerByteIndex \in Int
      /\ at \in [Segments -> Int]
  BY DEF MergerInv, MergerType
<1>5. ASSUME NEW byte \in Int, NEW newIndex \in Int, Land(part.reader, byte, newIndex)
      PROVE  PlaceType' /\ done' \in Int
  <2>1. part.reader \in 1 .. N + 1 /\ part.reader <= N
    BY <1>3, MergerAssumption DEF Segments
  <2>2. /\ at' = [at EXCEPT ![part.reader] = byte] /\ readerIndex' = part.reader
        /\ readerByteIndex' = byte /\ index' = newIndex /\ done' = goal
    BY <1>5 DEF Land
  <2> HIDE DEF part
  <2> QED
    BY <1>3, <1>4, <1>5, <2>1, <2>2 DEF PlaceType
<1>6. CASE ForwardLands
  <2> DEFINE before == IF readerIndex = part.reader THEN readerByteIndex ELSE 0
  <2>1. Land(part.reader, goal - done + before, index + goal)
    BY <1>6 DEF ForwardLands
  <2>2. goal - done + before \in Int /\ index + goal \in Int
    BY <1>4
  <2> QED
    BY <1>1, <1>5, <2>1, <2>2, ProcessKeeps
<1>7. CASE BackwardLands
  <2>1. Land(part.reader, done + part.n - goal, index - goal)
    BY <1>7 DEF BackwardLands
  <2>2. done + part.n - goal \in Int /\ index - goal \in Int
    BY <1>3, <1>4
  <2> QED
    BY <1>1, <1>5, <2>1, <2>2, ProcessKeeps
<1>8. CASE ForwardPasses \/ BackwardIgnores
  <2>1. UNCHANGED <<at, placeVars>> /\ done' \in Int
    BY <1>3, <1>4, <1>8 DEF ForwardPasses, BackwardIgnores
  <2> QED
    BY <1>1, <2>1, PlaceFrame, ProcessKeeps
<1>9. CASE BackwardPasses
  <2>1. /\ UNCHANGED placeVars /\ done' = done + part.n /\ at' = [at EXCEPT ![part.reader] = 0]
    BY <1>9 DEF BackwardPasses
  <2>2. PlaceType' /\ done' \in Int
    BY <1>3, <1>4, <2>1 DEF PlaceType, placeVars, MergerInv, MergerType
  <2> QED
    BY <1>1, <2>2, ProcessKeeps
<1> QED
  BY <1>6, <1>7, <1>8, <1>9

-----------------------------------------------------------------------------
(* Calls begin and end                                                       *)

LEMMA CallSteps ==
  ASSUME MergerInv,
         \/ Caller \/ SeekReturn \/ SeekError \/ \E i \in Segments : OtherReads(i)
         \/ UNCHANGED mergerVars
  PROVE  MergerInv'
<1> USE DEF Callable, Enter
<1>1. N \in Nat /\ Length \in Nat
  BY MergerAssumption DEF Length
<1>2. CASE SeekReturn \/ SeekError
  BY <1>2, PlaceFrame, FinishKeeps DEF SeekReturn, SeekError
<1>3. CASE UNCHANGED mergerVars \/ \E i \in Segments : OtherReads(i)
  BY <1>3 DEF OtherReads, mergerVars, placeVars, callVars, MergerInv, MergerType, Onward,
              OneGoroutineEach, MoreToRequest
<1>4. CASE \E n \in 1 .. MaxRead : ReadBegin(n)
  <2>1. PICK n \in 1 .. MaxRead : ReadBegin(n)
    BY <1>4
  <2>2. n \in Int
    BY MergerAssumption
  <2> QED
    BY <2>1, <2>2 DEF ReadBegin, placeVars, MergerInv, MergerType, Onward, OneGoroutineEach
<1>5. CASE Close
  BY <1>5 DEF Close, placeVars, callVars, MergerInv, MergerType, Onward, OneGoroutineEach
<1>6. CASE Open
  BY <1>1, <1>6 DEF Open, callVars, MergerInv, MergerType, Onward, OneGoroutineEach
<1>7. CASE SeekEnd
  <2>1. PlaceType'
    <3>1. ASSUME NEW i \in Segments PROVE SegmentSize(i) \in Int
      BY Sizes
    <3>2. N \in Segments /\ N \in 1 .. N + 1
      BY MergerAssumption DEF Segments
    <3>3. Position \in Int
      BY MergerAssumption DEF Position, MergerInv, MergerType
    <3>4. at' \in [Segments -> Int]
      BY <1>7, <3>1 DEF SeekEnd, SeekToEnd, MergerInv, MergerType
    <3> QED
      BY <1>1, <1>7, <3>1, <3>2, <3>3, <3>4 DEF SeekEnd, SeekToEnd, PlaceType, MergerInv, MergerType
  <2> QED
    BY <1>7, <2>1 DEF SeekEnd, PlaceType, callVars, MergerInv, MergerType, Onward, OneGoroutineEach
<1>9. CASE SeekEndFails
  <2>1. PICK failed \in SUBSET ((readerIndex .. N) \ known) :
          /\ at' = [i \in Segments |-> IF i \in (readerIndex .. N) \ failed THEN SegmentSize(i) ELSE at[i]]
          /\ readerByteIndex' = IF N \in (readerIndex .. N) \ failed THEN SegmentSize(N) ELSE readerByteIndex
          /\ UNCHANGED <<index, readerIndex, phase, callVars>>
    BY <1>9 DEF SeekEndFails
  <2>2. PlaceType'
    <3>1. ASSUME NEW i \in Segments PROVE SegmentSize(i) \in Int
      BY Sizes
    <3>2. N \in Segments
      BY MergerAssumption DEF Segments
    <3>3. /\ index \in Int /\ readerIndex \in 1 .. N + 1 /\ readerByteIndex \in Int
          /\ readerByteIndex # 0 => readerIndex <= N
          /\ at \in [Segments -> Int]
      BY DEF MergerInv, MergerType
    <3>4. at' \in [Segments -> Int]
      BY <2>1, <3>1, <3>3
    <3>5. readerByteIndex' \in Int /\ (readerByteIndex' # 0 => readerIndex <= N)
      BY <1>1, <2>1, <3>1, <3>2, <3>3
    <3> QED
      BY <2>1, <3>3, <3>4, <3>5 DEF PlaceType
  <2> QED
    BY <2>1, <2>2 DEF PlaceType, callVars, MergerInv, MergerType, Onward, OneGoroutineEach, MoreToRequest
<1>8. ASSUME NEW newIndex \in 0 .. Length + 1, Seek(newIndex)
      PROVE  MergerInv'
  <2>1. /\ index \in Int /\ newIndex \in Int /\ readerIndex \in 1 .. N + 1 /\ readerByteIndex \in Int
        /\ parts = << >> /\ processed = 0 /\ expected \in Int /\ done \in Int
    BY <1>1, <1>8 DEF Seek, MergerInv, MergerType, Onward
  <2>2. UNCHANGED <<at, placeVars, expected, done, processed>>
    BY <1>8 DEF Seek, SeekForward, SeekBackward
  <2>3. PlaceType'
    BY <2>2, PlaceFrame
  <2>4. CASE SeekForward(newIndex - index)
    <3>1. /\ phase' = "forward" /\ goal' = newIndex - index /\ parts' = << >>
          /\ next' = <<readerIndex, readerByteIndex>>
      BY <2>1, <2>4 DEF SeekForward
    <3> QED
      BY <2>1, <2>2, <2>3, <3>1 DEF PlaceType, MergerInv, MergerType, Onward, OneGoroutineEach
  <2>5. CASE SeekBackward(index - newIndex)
    <3> DEFINE first == [reader |-> readerIndex, from |-> 0, amount |-> 0, state |-> "data",
                         n |-> readerByteIndex, first |-> 0]
    <3>1. /\ phase' = "backward" /\ goal' = index - newIndex /\ next' = <<readerIndex - 1, 0>>
          /\ parts' = IF readerByteIndex > 0 THEN << first >> ELSE << >>
      BY <2>5 DEF SeekBackward
    <3>2. readerByteIndex > 0 => readerIndex \in Segments
      BY <1>1, <2>1 DEF MergerInv, MergerType, Segments
    <3>3. readerByteIndex > 0 => first \in PartRecord /\ first.reader = readerIndex
      BY <2>1, <3>2 DEF PartRecord, Answers
    <3> HIDE DEF first
    <3>4. /\ parts' \in Seq(PartRecord) /\ processed' \in 0 .. Len(parts')
          /\ \A k \in 1 .. Len(parts') : k = 1 /\ parts'[k].reader = readerIndex
      BY <2>1, <2>2, <3>1, <3>3
    <3>5. MergerType'
      BY <1>1, <2>1, <2>2, <2>3, <3>1, <3>4 DEF PlaceType, MergerType
    <3>6. Onward' /\ OneGoroutineEach'
      BY <1>1, <2>1, <3>1, <3>4 DEF Onward, OneGoroutineEach
    <3> QED
      BY <3>5, <3>6 DEF MergerInv
  <2> QED
    BY <1>8, <2>4, <2>5 DEF Seek
<1> QED
  BY <1>2, <1>3, <1>4, <1>5, <1>6, <1>7, <1>8, <1>9 DEF Caller

(* A call has one goroutine at most for each segment, whatever the hints say   *)
(* and whichever goroutines fail: none reads or seeks a reader that another   *)
(* uses.                                                                     *)
THEOREM ReadersCorrect == MergerSpec => []OneGoroutineEach
<1>1. MergerInv /\ [MergerNext]_mergerVars => MergerInv'
  BY RequestStep, ReadSteps, RespondStep, SeekAskStep, SeekProcessStep, CallSteps
  DEF MergerNext, ReadStep, SeekStep
<1>2. MergerInv => OneGoroutineEach
  BY DEF MergerInv
<1> QED
  BY <1>1, <1>2, MergerInvInit, PTL DEF MergerSpec

-----------------------------------------------------------------------------
(* The order of the bytes: what is true of the place, between calls and while *)
(* each kind of call is on its way.                                          *)

(* Where the reader is in the file.                                          *)
InFile ==
  /\ Position = index /\ readerByteIndex >= 0
  /\ readerIndex <= N => readerByteIndex <= SegmentSize(readerIndex)

Placed ==
  /\ InFile
  /\ readerIndex <= N =>
       /\ at[readerIndex] = readerByteIndex
       /\ readerByteIndex = SegmentSize(readerIndex) => readerIndex \in known
  /\ \A i \in Segments : i > readerIndex => at[i] = 0

(* What a Read asks and gets of a segment.                                   *)
Responds(part) ==
  LET size == SegmentSize(part.reader) IN
  /\ 0 <= part.from /\ part.from <= size /\ part.amount >= 1
  /\ part.state = "running" => at[part.reader] = part.from
  /\ part.state \in {"data", "eof"} =>
       /\ part.n = Smaller(part.amount, size - part.from)
       /\ at[part.reader] = part.from + part.n
  /\ part.state = "data" => part.first = Offset[part.reader] + part.from /\ part.reader \in known
  /\ part.state = "eof" => part.n = 0
  /\ part.from = size => part.reader \in known

Whole(part) == part.amount >= SegmentSize(part.reader) - part.from

(* The requests of a Read: one segment after the other, the first from where  *)
(* the Read began, and none that is beyond what was asked.                   *)
Begin == index - done

Requests ==
  /\ \A k \in 1 .. Len(parts) :
       /\ parts[k].reader = parts[1].reader + k - 1
       /\ Responds(parts[k])
       /\ k < Len(parts) => Whole(parts[k])
  /\ Len(parts) > 0 => Offset[parts[1].reader] + parts[1].from = Begin
  /\ \A k \in 2 .. Len(parts) :
       /\ parts[k].from = 0
       /\ Begin <= Offset[parts[k].reader] /\ Offset[parts[k].reader] < Begin + goal
  /\ \A i \in Segments : Len(parts) > 0 /\ i > parts[Len(parts)].reader => at[i] = 0
  /\ Len(parts) = 1 /\ parts[1].from = SegmentSize(parts[1].reader) => expected = 1

RequestInv ==
  /\ done = 0 /\ Requests
  /\ parts = << >> => expected = 0 /\ Placed
  /\ parts # << >> /\ MoreToRequest =>
       /\ readerIndex = parts[Len(parts)].reader + 1 /\ readerByteIndex = 0
       /\ expected >= Offset[readerIndex] - index
       /\ Whole(parts[Len(parts)])
  /\ parts # << >> /\ ~MoreToRequest => expected >= goal \/ parts[Len(parts)].reader = N

ProcessInv ==
  /\ Requests
  /\ parts = << >> => Placed /\ readerIndex = N + 1
  /\ parts # << >> => expected >= goal \/ parts[Len(parts)].reader = N
  /\ \A k \in 1 .. processed : parts[k].state \in {"data", "eof"}
  /\ processed = 0 => done = 0
  /\ processed > 0 =>
       /\ Position = index
       /\ readerIndex = parts[processed].reader
       /\ readerByteIndex = parts[processed].from + parts[processed].n

(* The loop that takes the responses of a Seek begins where all were asked.  *)
SeekInv ==
  /\ goal >= 1 /\ done <= goal
  /\ processed = 0 => done = 0
  /\ processed > 0 => ~MoreToAsk
  /\ \A k \in 1 .. processed : parts[k].state # "running"

ForwardInv ==
  /\ SeekInv
  /\ done = goal => Placed /\ processed = Len(parts)
  /\ done < goal =>
       /\ InFile
       /\ next[1] = readerIndex + Len(parts)
       /\ next[2] = IF parts = << >> THEN readerByteIndex ELSE 0
       /\ expected >= (IF parts = << >> THEN 0 ELSE Offset[next[1]] - index)
       /\ \A k \in 1 .. Len(parts) :
            /\ parts[k].reader = readerIndex + k - 1
            /\ parts[k].from = IF k = 1 THEN readerByteIndex ELSE 0
            /\ parts[k].state = "data" => parts[k].n = SegmentSize(parts[k].reader) - parts[k].from
            /\ k > 1 => Offset[parts[k].reader] < index + goal
       /\ done = IF processed = 0 THEN 0 ELSE Offset[readerIndex + processed] - index
       /\ \A i \in Segments : i >= next[1] /\ i > readerIndex => at[i] = 0

(* The segment where a Seek backwards begins.                                *)
Back == IF readerByteIndex > 0 THEN readerIndex ELSE readerIndex - 1

BackwardInv ==
  /\ SeekInv
  /\ done = goal =>
       /\ Placed
       /\ \A k \in processed + 1 .. Len(parts) : parts[k].reader < readerIndex
  /\ done < goal =>
       /\ InFile
       /\ next[1] = Back - Len(parts) /\ next[2] = 0
       /\ readerByteIndex > 0 => Len(parts) > 0 /\ parts[1].state = "data" /\ parts[1].n = readerByteIndex
       /\ \A k \in 1 .. Len(parts) :
            /\ parts[k].reader = Back - k + 1 /\ parts[k].from = 0
            /\ parts[k].state = "data" /\ (k > 1 \/ readerByteIndex = 0) =>
                 parts[k].n = SegmentSize(parts[k].reader)
       /\ done = IF processed = 0 THEN 0 ELSE index - Offset[Back - processed + 1]
       /\ \A i \in Segments : i > Back - processed => at[i] = 0

PlaceInv ==
  /\ phase \in {"idle", "closed"} => done = 0 /\ expected = 0
  /\ phase = "idle" /\ ~lost => Placed
  /\ phase \in {"request", "process"} => ~lost /\ goal >= 1
  /\ phase \in {"drain", "wait"} => lost
  /\ phase = "request" => RequestInv
  /\ phase = "process" => ProcessInv
  /\ phase = "forward" /\ ~lost => ForwardInv
  /\ phase = "backward" /\ ~lost => BackwardInv

OrderInv == MergerInv /\ PlaceInv

-----------------------------------------------------------------------------
(* The sizes, and where segments begin.                                      *)
LEMMA Lengths ==
  ASSUME NEW i \in Segments
  PROVE  /\ SegmentSize(i) \in Nat /\ SegmentSize(i) >= 1
         /\ Offset[i] \in Nat /\ Offset[i + 1] \in Nat /\ Offset[i + 1] = Offset[i] + SegmentSize(i)
         /\ i \in Nat /\ i >= 1 /\ i <= N /\ N \in Nat
         /\ Size(i) \in Nat /\ Size(i) >= SegmentSize(i) /\ (i \in known => Size(i) = SegmentSize(i))
<1>1. N \in Nat /\ i \in Nat /\ 1 <= i /\ i <= N /\ i \in 1 .. N
  BY MergerAssumption DEF Segments
<1>2. i \in 1 .. N + 1 /\ i + 1 \in 1 .. N + 1
  BY <1>1
<1>3. Offset[i] \in Nat /\ Offset[i + 1] \in Nat /\ Offset[i] < Offset[i + 1]
  BY <1>1, <1>2, MergerAssumption
<1>4. Hint[i] \in Nat /\ Hint[i] >= SegmentSize(i)
  BY <1>1, MergerAssumption DEF SegmentSize
<1> QED
  BY <1>1, <1>3, <1>4 DEF SegmentSize, Size

LEMMA PlaceTypes ==
  ASSUME MergerInv
  PROVE  /\ index \in Int /\ readerIndex \in Int /\ 1 <= readerIndex /\ readerIndex <= N + 1
         /\ readerByteIndex \in Int /\ Offset[readerIndex] \in Nat /\ Position \in Int
         /\ readerIndex <= N => readerIndex \in Segments
         /\ goal \in Int /\ expected \in Int /\ done \in Int /\ processed \in Nat /\ processed <= Len(parts)
         /\ Len(parts) \in Nat /\ N \in Nat
<1>1. N \in Nat
  BY MergerAssumption
<1>2. readerIndex \in 1 .. N + 1 /\ readerByteIndex \in Int
  BY DEF MergerInv, MergerType
<1>3. Offset[readerIndex] \in Nat
  BY <1>2, MergerAssumption
<1> QED
  BY <1>1, <1>2, <1>3 DEF MergerInv, MergerType, Position, Segments

LEMMA PartTypes ==
  ASSUME MergerInv, NEW k \in 1 .. Len(parts)
  PROVE  /\ parts[k] \in PartRecord /\ parts[k].reader \in Segments
         /\ parts[k].from \in Int /\ parts[k].amount \in Int /\ parts[k].n \in Int /\ parts[k].first \in Int
         /\ parts[k].state \in {"running"} \cup Answers
<1>1. parts[k] \in PartRecord
  BY DEF MergerInv, MergerType
<1> QED
  BY <1>1 DEF PartRecord

LEMMA PlaceInvInit == MergerInit => PlaceInv
<1> SUFFICES ASSUME MergerInit PROVE PlaceInv
  OBVIOUS
<1>1. 1 \in Segments /\ readerIndex = 1 /\ index = 0 /\ readerByteIndex = 0 /\ phase = "idle"
  BY MergerAssumption DEF MergerInit, Segments
<1>2. SegmentSize(1) \in Nat /\ SegmentSize(1) >= 1 /\ Offset[1] = 0
  BY <1>1, Lengths, MergerAssumption
<1>3. Placed
  BY <1>1, <1>2 DEF MergerInit, Placed, InFile, Position
<1> QED
  BY <1>1, <1>3 DEF MergerInit, PlaceInv

-----------------------------------------------------------------------------
(* Frames *)

LEMMA PlacedFrame ==
  ASSUME MergerInv, Placed, UNCHANGED <<placeVars, at>>, known \subseteq known'
  PROVE  Placed' /\ Position' = Position
BY DEF Placed, InFile, Position, placeVars

(* Other readers make sizes known.                                           *)
LEMMA KnownGrows ==
  ASSUME OrderInv, UNCHANGED <<at, placeVars, phase, callVars, lost>>, known \subseteq known'
  PROVE  PlaceInv'
<1>1. Placed => Placed'
  BY PlacedFrame DEF OrderInv
<1>2. InFile => InFile'
  BY DEF InFile, Position, placeVars
<1>3. Requests => Requests'
  BY DEF Requests, Responds, Whole, Begin, callVars, placeVars
<1>4. RequestInv => RequestInv'
  BY <1>1, <1>3 DEF RequestInv, MoreToRequest, Whole, callVars, placeVars
<1>5. ProcessInv => ProcessInv'
  BY <1>1, <1>3 DEF ProcessInv, Position, callVars, placeVars
<1>6. SeekInv => SeekInv'
  BY DEF SeekInv, MoreToAsk, callVars
<1>7. ForwardInv => ForwardInv'
  BY <1>1, <1>2, <1>6 DEF ForwardInv, callVars, placeVars
<1>8. BackwardInv => BackwardInv'
  BY <1>1, <1>2, <1>6 DEF BackwardInv, Back, callVars, placeVars
<1> QED
  BY <1>1, <1>4, <1>5, <1>7, <1>8 DEF OrderInv, PlaceInv, callVars, placeVars

(* A call has returned.                                                      *)
LEMMA FinishPlaces ==
  ASSUME Finish, lost' \/ Placed'
  PROVE  PlaceInv'
BY DEF Finish, PlaceInv

(* Steps that only begin or end something.                                   *)
LEMMA EndSteps ==
  ASSUME OrderInv,
         \/ Close \/ Open \/ ReadError \/ Drain \/ Unlock \/ SeekError
         \/ \E k \in 1 .. Len(parts) : RespondPanics(k)
  PROVE  PlaceInv'
<1>1. CASE Close
  BY <1>1 DEF Close, callVars, OrderInv, PlaceInv
<1>2. CASE Open
  <2>1. 1 \in Segments /\ SegmentSize(1) \in Nat /\ SegmentSize(1) >= 1 /\ Offset[1] = 0
    <3>1. 1 \in Segments
      BY MergerAssumption DEF Segments
    <3> QED
      BY <3>1, Lengths, MergerAssumption
  <2>2. Placed'
    BY <1>2, <2>1 DEF Open, Placed, InFile, Position
  <2> QED
    BY <1>2, <2>2 DEF Open, callVars, OrderInv, PlaceInv
<1>3. CASE ReadError
  BY <1>3 DEF ReadError, PlaceInv
<1>4. CASE Drain
  BY <1>4 DEF Drain, OrderInv, PlaceInv
<1>5. CASE Unlock
  BY <1>5, FinishPlaces DEF Unlock, OrderInv, PlaceInv
<1>6. CASE SeekError
  BY <1>6, FinishPlaces DEF SeekError
<1>7. CASE \E k \in 1 .. Len(parts) : RespondPanics(k)
  BY <1>7 DEF RespondPanics, PlaceInv
<1> QED
  BY <1>1, <1>2, <1>3, <1>4, <1>5, <1>6, <1>7

-----------------------------------------------------------------------------
(* Reads *)

LEMMA ReadBegins ==
  ASSUME OrderInv, NEW n \in 1 .. MaxRead, ReadBegin(n)
  PROVE  PlaceInv'
<1>1. /\ phase = "idle" /\ ~lost /\ phase' = "request" /\ goal' = n
      /\ UNCHANGED <<known, at, placeVars, expected, done, parts, lost>>
  BY DEF ReadBegin, Callable, Enter
<1>2. n \in Int /\ n >= 1
  BY MergerAssumption
<1>3. parts = << >> /\ done = 0 /\ expected = 0 /\ Placed
  BY <1>1 DEF OrderInv, MergerInv, Onward, PlaceInv
<1>4. Placed'
  BY <1>1, <1>3, PlacedFrame DEF OrderInv
<1>5. Requests'
  BY <1>1, <1>3 DEF Requests
<1>6. RequestInv'
  BY <1>1, <1>3, <1>4, <1>5 DEF RequestInv
<1> QED
  BY <1>1, <1>2, <1>6 DEF PlaceInv

LEMMA RequestedStep ==
  ASSUME OrderInv, Requested
  PROVE  PlaceInv'
<1>1. /\ phase = "request" /\ phase' = "process" /\ ~MoreToRequest
      /\ UNCHANGED <<known, at, placeVars, callVars, lost>>
  BY DEF Requested
<1>2. RequestInv /\ ~lost /\ goal >= 1 /\ processed = 0
  BY <1>1 DEF OrderInv, MergerInv, Onward, PlaceInv
<1>3. Requests'
  BY <1>1, <1>2 DEF RequestInv, Requests, Responds, Whole, Begin, callVars, placeVars
<1>4. parts = << >> => Placed' /\ readerIndex = N + 1
  <2>1. readerIndex \in Int /\ readerIndex <= N + 1 /\ N \in Nat /\ goal \in Int
    BY PlaceTypes DEF OrderInv
  <2>2. parts = << >> => Placed'
    BY <1>1, <1>2, PlacedFrame DEF OrderInv, RequestInv
  <2>3. parts = << >> => readerIndex > N
    BY <1>1, <1>2, <2>1 DEF RequestInv, MoreToRequest
  <2> QED
    BY <2>1, <2>2, <2>3
<1>5. ProcessInv'
  BY <1>1, <1>2, <1>3, <1>4 DEF ProcessInv, RequestInv, callVars, placeVars
<1> QED
  BY <1>1, <1>2, <1>5 DEF PlaceInv, callVars

(* One more segment is asked: for at least what it has left, or for the rest  *)
(* of what the Read is for.                                                  *)
LEMMA RequestPlaces ==
  ASSUME OrderInv, Request
  PROVE  PlaceInv'
<1> DEFINE left   == Larger(0, Size(readerIndex) - readerByteIndex)
           amount == Larger(1, Smaller(left, goal - expected))
           part   == Part(readerIndex, readerByteIndex, amount)
           last   == Len(parts) + 1
<1>1. /\ phase = "request" /\ MoreToRequest /\ parts' = Append(parts, part)
      /\ expected' = expected + amount
      /\ IF amount < left
         THEN readerByteIndex' = readerByteIndex + amount /\ UNCHANGED readerIndex
         ELSE readerByteIndex' = 0 /\ readerIndex' = readerIndex + 1
      /\ UNCHANGED <<known, at, index, phase, goal, done, next, processed, lost>>
  BY DEF Request
<1>2. RequestInv /\ ~lost /\ goal >= 1
  BY <1>1 DEF OrderInv, PlaceInv
<1>3. /\ readerIndex \in Segments /\ readerByteIndex \in Int /\ goal \in Int /\ expected \in Int
      /\ index \in Int /\ expected < goal /\ done = 0 /\ Len(parts) \in Nat /\ parts \in Seq(PartRecord)
  BY <1>1, <1>2, PlaceTypes DEF OrderInv, MergerInv, MergerType, MoreToRequest, RequestInv
<1>4. /\ SegmentSize(readerIndex) \in Nat /\ SegmentSize(readerIndex) >= 1
      /\ Offset[readerIndex] \in Nat /\ Offset[readerIndex + 1] = Offset[readerIndex] + SegmentSize(readerIndex)
      /\ Size(readerIndex) \in Nat /\ Size(readerIndex) >= SegmentSize(readerIndex)
      /\ (readerIndex \in known => Size(readerIndex) = SegmentSize(readerIndex))
      /\ readerIndex \in Nat /\ N \in Nat /\ readerIndex <= N
  BY <1>3, Lengths
<1>5. /\ left \in Nat /\ amount \in Nat /\ amount >= 1 /\ amount <= goal - expected
      /\ left >= SegmentSize(readerIndex) - readerByteIndex
      /\ (amount < left => amount = goal - expected)
      /\ (Size(readerIndex) = readerByteIndex => amount = 1)
  BY <1>3, <1>4 DEF Larger, Smaller
<1>6. /\ part.reader = readerIndex /\ part.from = readerByteIndex /\ part.amount = amount
      /\ part.state = "running"
  BY DEF Part
<1> HIDE DEF left, amount, part
<1>7. /\ Len(parts') = last /\ parts'[last] = part /\ parts' # << >> /\ last \in Nat
      /\ \A k \in 1 .. Len(parts) : parts'[k] = parts[k]
  BY <1>1, <1>3
(* The place is that of the first request, or the beginning of the next segment. *)
<1>8. /\ parts = << >> => Offset[readerIndex] + readerByteIndex = index /\ expected = 0
      /\ parts # << >> => /\ readerByteIndex = 0 /\ readerIndex = parts[Len(parts)].reader + 1
                          /\ expected >= Offset[readerIndex] - index /\ Whole(parts[Len(parts)])
      /\ 0 <= readerByteIndex /\ readerByteIndex <= SegmentSize(readerIndex)
      /\ readerByteIndex = SegmentSize(readerIndex) => readerIndex \in known
      /\ at[readerIndex] = readerByteIndex
      /\ \A i \in Segments : i > readerIndex => at[i] = 0
  <2>1. CASE parts = << >>
    BY <1>2, <1>4, <2>1 DEF RequestInv, Placed, InFile, Position
  <2>2. CASE parts # << >>
    <3>1. /\ readerByteIndex = 0 /\ readerIndex = parts[Len(parts)].reader + 1
          /\ expected >= Offset[readerIndex] - index /\ Whole(parts[Len(parts)])
      BY <1>1, <1>2, <2>2 DEF RequestInv
    <3>2. Len(parts) > 0 /\ \A i \in Segments : i > parts[Len(parts)].reader => at[i] = 0
      BY <1>2, <1>3, <2>2 DEF RequestInv, Requests
    <3>3. parts[Len(parts)].reader \in Int
      BY <3>2, <1>3, PartTypes DEF OrderInv, Segments
    <3> QED
      BY <1>3, <1>4, <2>2, <3>1, <3>2, <3>3, SMTT(30) DEF Segments
  <2> QED
    BY <2>1, <2>2
<1>9. ASSUME NEW k, k = last PROVE Responds(parts[k])'
  <2>1. parts'[k].reader = readerIndex /\ parts'[k].from = readerByteIndex
        /\ parts'[k].amount = amount /\ parts'[k].state = "running"
    BY <1>6, <1>7, <1>9
  <2> QED
    BY <1>1, <1>5, <1>8, <2>1 DEF Responds
<1>10. parts # << >> => /\ parts[Len(parts)].reader = parts[1].reader + Len(parts) - 1
                        /\ Offset[readerIndex] >= index
                        /\ Offset[readerIndex] < index + goal
                        /\ parts[1].reader \in Int
  <2> SUFFICES ASSUME parts # << >>
               PROVE  /\ parts[Len(parts)].reader = parts[1].reader + Len(parts) - 1
                      /\ Offset[readerIndex] >= index /\ Offset[readerIndex] < index + goal
                      /\ parts[1].reader \in Int
    OBVIOUS
  <2> DEFINE before == parts[Len(parts)]
  <2>1. 1 \in 1 .. Len(parts) /\ Len(parts) \in 1 .. Len(parts) /\ Len(parts) >= 1
    BY <1>3
  <2>2. /\ before.reader = parts[1].reader + Len(parts) - 1
        /\ 0 <= before.from /\ before.from <= SegmentSize(before.reader)
    BY <1>2, <2>1 DEF RequestInv, Requests, Responds
  <2>3. /\ before.reader \in Segments /\ parts[1].reader \in Segments /\ before.from \in Int
    BY <2>1, PartTypes DEF OrderInv
  <2>4. Offset[readerIndex] = Offset[before.reader] + SegmentSize(before.reader)
        /\ Offset[before.reader] \in Nat /\ SegmentSize(before.reader) \in Nat
    BY <1>8, <2>3, Lengths
  <2>5. index <= Offset[before.reader] + before.from
    <3>1. CASE Len(parts) = 1
      <4>1. Offset[before.reader] + before.from = index
        BY <1>2, <1>3, <3>1 DEF RequestInv, Requests, Begin
      <4> QED
        BY <1>3, <4>1
    <3>2. CASE Len(parts) # 1
      <4>1. \A n \in Nat : n >= 1 /\ n # 1 => n \in 2 .. n
        OBVIOUS
      <4>2. Len(parts) \in 2 .. Len(parts)
        BY <1>3, <2>1, <3>2, <4>1
      <4>3. index <= Offset[before.reader]
        BY <1>2, <1>3, <4>2 DEF RequestInv, Requests, Begin
      <4> QED
        BY <1>3, <2>2, <2>3, <2>4, <4>3
    <3> QED
      BY <3>1, <3>2
  <2>6. expected >= Offset[readerIndex] - index
    BY <1>8
  <2> HIDE DEF before
  <2>7. Offset[readerIndex] >= index /\ Offset[readerIndex] < index + goal
    <3>1. Offset[readerIndex] \in Int /\ Offset[before.reader] \in Int /\ SegmentSize(before.reader) \in Int
      BY <1>4, <2>4
    <3>2. Offset[readerIndex] >= Offset[before.reader] + before.from
      BY <2>2, <2>3, <2>4, <3>1
    <3>3. Offset[readerIndex] >= index
      BY <1>3, <2>3, <2>5, <3>1, <3>2
    <3>4. Offset[readerIndex] < index + goal
      BY <1>3, <2>6, <3>1
    <3> QED
      BY <3>3, <3>4
  <2> QED
    BY <2>2, <2>3, <2>7 DEF Segments, before
<1>11. Requests'
  <2>1. Begin' = index /\ Begin = index
    BY <1>1, <1>3 DEF Begin
  <2>2. ASSUME NEW k \in 1 .. last
        PROVE  /\ parts'[k].reader = parts'[1].reader + k - 1
               /\ Responds(parts[k])'
               /\ k < last => Whole(parts'[k])
               /\ k \in 2 .. last => /\ parts'[k].from = 0
                                     /\ index <= Offset[parts'[k].reader]
                                     /\ Offset[parts'[k].reader] < index + goal
    <3>1. CASE k = last
      <4>1. CASE parts = << >>
        BY <1>3, <1>4, <1>6, <1>7, <1>9, <3>1, <4>1
      <4>2. CASE parts # << >>
        <5>1. parts'[1] = parts[1] /\ Len(parts) >= 1
          BY <1>3, <1>7, <4>2
        <5> QED
          <6>1. parts'[k].reader = readerIndex /\ parts'[k].from = 0
            BY <1>6, <1>7, <1>8, <3>1, <4>2
          <6>2. readerIndex = parts'[1].reader + Len(parts) /\ k = Len(parts) + 1
            <7>1. /\ readerIndex = parts[Len(parts)].reader + 1 /\ parts[1].reader \in Int
                  /\ parts[Len(parts)].reader = parts[1].reader + Len(parts) - 1
              BY <1>8, <1>10, <4>2
            <7> QED
              BY <1>3, <3>1, <5>1, <7>1
          <6>3. parts'[k].reader = parts'[1].reader + k - 1
            BY <1>3, <1>10, <4>2, <5>1, <6>1, <6>2
          <6>4. Responds(parts[k])'
            BY <1>9, <3>1
          <6> QED
            BY <1>7, <1>10, <3>1, <4>2, <6>1, <6>3, <6>4
      <4> QED
        BY <4>1, <4>2
    <3>2. CASE k # last
      <4>1. k \in 1 .. Len(parts) /\ 1 \in 1 .. Len(parts)
        BY <1>3, <3>2
      <4>2. parts'[k] = parts[k] /\ parts'[1] = parts[1]
        BY <1>7, <4>1
      <4>3. Whole(parts[k])
        BY <1>2, <1>3, <1>8, <4>1 DEF RequestInv, Requests
      <4>4. Responds(parts[k])'
        BY <1>1, <1>2, <4>1, <4>2 DEF RequestInv, Requests, Responds
      <4>5. k \in 2 .. last => /\ parts[k].from = 0
                               /\ index <= Offset[parts[k].reader] /\ Offset[parts[k].reader] < index + goal
        BY <1>2, <1>3, <2>1, <4>1 DEF RequestInv, Requests
      <4> QED
        BY <1>2, <4>1, <4>2, <4>3, <4>4, <4>5 DEF RequestInv, Requests
    <3> QED
      BY <3>1, <3>2
  <2>3. Offset[parts'[1].reader] + parts'[1].from = index
    <3>1. CASE parts = << >>
      BY <1>3, <1>6, <1>7, <1>8, <3>1
    <3>2. CASE parts # << >>
      BY <1>2, <1>3, <1>7, <2>1, <3>2 DEF RequestInv, Requests
    <3> QED
      BY <3>1, <3>2
  <2>4. last = 1 /\ parts'[1].from = SegmentSize(parts'[1].reader) => expected' = 1
    <3> SUFFICES ASSUME last = 1, parts'[1].from = SegmentSize(parts'[1].reader) PROVE expected' = 1
      OBVIOUS
    <3>1. readerByteIndex = SegmentSize(readerIndex) /\ parts = << >>
      BY <1>3, <1>6, <1>7
    <3> QED
      BY <1>1, <1>3, <1>4, <1>5, <1>8, <3>1
  <2>5. \A i \in Segments : i > parts'[last].reader => at'[i] = 0
    BY <1>1, <1>6, <1>7, <1>8
  <2> QED
    <3> HIDE DEF last
    <3>1. \A k \in 1 .. last : (k < last => Whole(parts[k])')
      BY <2>2 DEF Whole
    <3> QED
      BY <1>1, <1>7, <2>1, <2>2, <2>3, <2>4, <2>5, <3>1 DEF Requests
<1>12. MoreToRequest' => /\ readerIndex' = parts'[last].reader + 1 /\ readerByteIndex' = 0
                         /\ expected' >= Offset[readerIndex'] - index'
                         /\ Whole(parts'[last])
  <2> SUFFICES ASSUME MoreToRequest'
               PROVE  /\ readerIndex' = readerIndex + 1 /\ readerByteIndex' = 0
                      /\ expected' >= Offset[readerIndex'] - index'
                      /\ amount >= SegmentSize(readerIndex) - readerByteIndex
    BY <1>6, <1>7 DEF Whole
  <2>1. ~(amount < left) /\ readerIndex' = readerIndex + 1 /\ readerByteIndex' = 0
    BY <1>1, <1>3, <1>5 DEF MoreToRequest
  <2>2. amount >= SegmentSize(readerIndex) - readerByteIndex
    BY <1>3, <1>4, <1>5, <2>1
  <2>3. expected >= Offset[readerIndex] + readerByteIndex - index
    BY <1>3, <1>4, <1>8
  <2> QED
    <3>1. Offset[readerIndex'] = Offset[readerIndex] + SegmentSize(readerIndex)
      BY <1>4, <2>1
    <3>2. expected' >= Offset[readerIndex] + readerByteIndex - index + amount
      BY <1>1, <1>3, <1>4, <1>5, <2>3
    <3>3. index' = index /\ Offset[readerIndex] \in Int /\ SegmentSize(readerIndex) \in Int /\ amount \in Int
          /\ expected' \in Int
      BY <1>1, <1>3, <1>4, <1>5
    <3>4. expected' >= Offset[readerIndex'] - index'
      BY <1>3, <2>2, <3>1, <3>2, <3>3
    <3> QED
      BY <2>1, <2>2, <3>4
<1>13. ~MoreToRequest' => expected' >= goal' \/ parts'[last].reader = N
  BY <1>1, <1>3, <1>4, <1>5, <1>6, <1>7 DEF MoreToRequest
<1>14. RequestInv'
  BY <1>1, <1>3, <1>7, <1>11, <1>12, <1>13 DEF RequestInv, Whole
<1> QED
  BY <1>1, <1>2, <1>14 DEF PlaceInv

(* An answer, and what it leaves as it was.                                  *)
LEMMA AnswerOf ==
  ASSUME MergerInv, NEW k \in 1 .. Len(parts), NEW state, NEW n, NEW first, Answer(k, state, n, first)
  PROVE  /\ Len(parts') = Len(parts) /\ (parts' = << >> <=> parts = << >>)
         /\ \A j \in 1 .. Len(parts) :
              /\ j # k => parts'[j] = parts[j]
              /\ parts'[j].reader = parts[j].reader /\ parts'[j].from = parts[j].from
              /\ parts'[j].amount = parts[j].amount
         /\ parts'[k].state = state /\ parts'[k].n = n /\ parts'[k].first = first
<1>1. parts \in Seq(PartRecord) /\ parts[k] \in PartRecord /\ Len(parts) \in Nat
  BY DEF MergerInv, MergerType
<1>2. parts' = [parts EXCEPT ![k] = [parts[k] EXCEPT !.state = state, !.n = n, !.first = first]]
  BY <1>1 DEF Answer, PartRecord
<1>3. Len(parts') = Len(parts) /\ (parts' = << >> <=> parts = << >>)
  BY <1>1, <1>2
<1>4. \A j \in 1 .. Len(parts) : j # k => parts'[j] = parts[j]
  BY <1>1, <1>2
<1>5. /\ parts'[k].state = state /\ parts'[k].n = n /\ parts'[k].first = first
      /\ parts'[k].reader = parts[k].reader /\ parts'[k].from = parts[k].from
      /\ parts'[k].amount = parts[k].amount
  BY <1>1, <1>2 DEF PartRecord
<1> QED
  BY <1>3, <1>4, <1>5

(* A segment answers a Read, whichever does so first.                        *)
LEMMA RespondPlaces ==
  ASSUME OrderInv, NEW k \in 1 .. Len(parts), RespondEOF(k) \/ Respond(k) \/ RespondError(k)
  PROVE  PlaceInv'
<1> DEFINE i == parts[k].reader
           n == Smaller(parts[k].amount, SegmentSize(i) - at[i])
<1>1. /\ Reading /\ Running(k)
      /\ UNCHANGED <<placeVars, phase, goal, expected, done, next, processed, lost>>
  BY DEF RespondEOF, Respond, RespondError
<1>2. CASE phase \in {"drain", "wait"}
  BY <1>1, <1>2 DEF OrderInv, PlaceInv
<1>3. CASE phase \in {"request", "process"}
  <2>1. Requests /\ ~lost /\ goal >= 1
    BY <1>3 DEF OrderInv, PlaceInv, RequestInv, ProcessInv
  <2>2. /\ i \in Segments /\ parts[k].from \in Int /\ parts[k].amount \in Int /\ Len(parts) \in Nat
        /\ at \in [Segments -> Int]
    BY PartTypes DEF OrderInv, MergerInv, MergerType
  <2>3. /\ SegmentSize(i) \in Nat /\ Size(i) >= SegmentSize(i) /\ Size(i) \in Nat
        /\ (i \in known => Size(i) = SegmentSize(i)) /\ Offset[i] \in Nat
    BY <2>2, Lengths
  <2>4. /\ 0 <= parts[k].from /\ parts[k].from <= SegmentSize(i) /\ parts[k].amount >= 1
        /\ at[i] = parts[k].from
        /\ parts[k].from = SegmentSize(i) => i \in known
    BY <1>1, <2>1 DEF Requests, Responds, Running
  <2>5. n \in Nat /\ (at[i] >= Size(i) => n = 0)
    BY <2>2, <2>3, <2>4 DEF Smaller
  <2> HIDE DEF n
  <2>6. \/ Answer(k, "eof", 0, 0) /\ n = 0 /\ at'[i] = at[i] /\ known' = known
        \/ Answer(k, "data", n, Offset[i] + at[i]) /\ at'[i] = at[i] + n /\ i \in known'
        \/ Answer(k, "eof", 0, 0) /\ n = 0 /\ at'[i] = at[i] /\ i \in known'
        \/ Answer(k, "error", 0, 0) /\ known' = known /\ at'[i] = at[i]
    <3>1. CASE RespondEOF(k)
      BY <2>5, <3>1 DEF RespondEOF
    <3>2. CASE Respond(k)
      BY <2>2, <2>5, <3>2 DEF Respond, n
    <3>3. CASE RespondError(k)
      BY <3>3 DEF RespondError
    <3> QED
      BY <3>1, <3>2, <3>3
  <2>7. known \subseteq known' /\ \A j \in Segments : j # i => at'[j] = at[j]
    BY <2>2 DEF RespondEOF, Respond, RespondError
  <2>8. /\ Len(parts') = Len(parts) /\ parts # << >> /\ parts' # << >>
        /\ \A j \in 1 .. Len(parts) :
             /\ j # k => parts'[j] = parts[j]
             /\ parts'[j].reader = parts[j].reader /\ parts'[j].from = parts[j].from
             /\ parts'[j].amount = parts[j].amount
    BY <2>2, <2>6, AnswerOf DEF OrderInv
  <2>9. Responds(parts[k])'
    <3>1. /\ parts'[k].state \in {"data", "eof", "error"}
          /\ parts'[k].state \in {"data", "eof"} => parts'[k].n = n /\ at'[i] = at[i] + n
          /\ parts'[k].state = "data" => parts'[k].first = Offset[i] + at[i] /\ i \in known'
          /\ parts'[k].state = "eof" => parts'[k].n = 0
      BY <2>2, <2>6, AnswerOf DEF OrderInv
    <3> QED
      BY <2>4, <2>7, <2>8, <3>1 DEF Responds, n
  <2>10. ASSUME NEW j \in 1 .. Len(parts), j # k PROVE Responds(parts[j])'
    <3>1. parts[j].reader \in Segments /\ parts[j].reader # i /\ Responds(parts[j])
      BY <2>1, <2>10, PartTypes DEF OrderInv, MergerInv, OneGoroutineEach, Requests
    <3> QED
      BY <2>7, <2>8, <2>10, <3>1 DEF Responds
  <2>11. \A j \in Segments : j > parts[Len(parts)].reader => at'[j] = 0
    <3>1. /\ i = parts[1].reader + k - 1 /\ parts[Len(parts)].reader = parts[1].reader + Len(parts) - 1
          /\ \A j \in Segments : j > parts[Len(parts)].reader => at[j] = 0
      BY <2>1, <2>2 DEF Requests
    <3>2. parts[1].reader \in Int
      BY <2>2, PartTypes DEF OrderInv, Segments
    <3>3. i <= parts[Len(parts)].reader /\ parts[Len(parts)].reader \in Int
      BY <2>2, <3>1, <3>2
    <3> QED
      BY <2>2, <2>7, <3>1, <3>3 DEF Segments
  <2>12. Requests'
    <3>1. Begin' = Begin
      BY <1>1 DEF Begin, placeVars
    <3>2. \A j \in 1 .. Len(parts) : Responds(parts[j])'
      BY <2>9, <2>10
    <3>3. 1 \in 1 .. Len(parts) /\ Len(parts) \in 1 .. Len(parts)
      BY <2>2
    <3>4. \A j \in 1 .. Len(parts) : j < Len(parts) => Whole(parts[j])'
      BY <2>1, <2>8 DEF Requests, Whole
    <3> QED
      BY <1>1, <2>1, <2>8, <2>11, <3>1, <3>2, <3>3, <3>4 DEF Requests
  <2>13. Len(parts) \in 1 .. Len(parts) /\ parts'[Len(parts)].reader = parts[Len(parts)].reader
         /\ (Whole(parts[Len(parts)]) => Whole(parts[Len(parts)])')
    BY <2>2, <2>8 DEF Whole
  <2>14. CASE phase = "request"
    <3>1. RequestInv'
      BY <1>1, <2>8, <2>12, <2>13, <2>14 DEF OrderInv, PlaceInv, RequestInv, MoreToRequest, placeVars
    <3> QED
      BY <1>1, <2>1, <2>14, <3>1 DEF PlaceInv
  <2>15. CASE phase = "process"
    <3>1. ProcessInv /\ processed \in 0 .. Len(parts)
      BY <2>15 DEF OrderInv, PlaceInv, MergerInv, MergerType
    <3>2. \A j \in 1 .. processed : j \in 1 .. Len(parts) /\ parts'[j] = parts[j]
      BY <1>1, <2>2, <2>8, <3>1 DEF ProcessInv, Running
    <3>3. processed > 0 => processed \in 1 .. processed
      BY <3>1, <2>2
    <3>4. ProcessInv'
      BY <1>1, <2>8, <2>12, <2>13, <3>1, <3>2, <3>3 DEF ProcessInv, Position, placeVars
    <3> QED
      BY <1>1, <2>1, <2>15, <3>4 DEF PlaceInv
  <2> QED
    BY <1>3, <2>14, <2>15
<1> QED
  BY <1>1, <1>2, <1>3 DEF Reading

(* The next response begins at index.                                        *)
LEMMA NextAtIndex ==
  ASSUME OrderInv, phase = "process", processed < Len(parts)
  PROVE  Offset[parts[processed + 1].reader] + parts[processed + 1].from = index
<1>1. ProcessInv /\ Requests
  BY DEF OrderInv, PlaceInv, ProcessInv
<1>2. index \in Int /\ done \in Int /\ processed \in Nat /\ Len(parts) \in Nat
  BY PlaceTypes DEF OrderInv
<1>3. CASE processed = 0
  BY <1>1, <1>2, <1>3 DEF ProcessInv, Requests, Begin
<1>4. CASE processed # 0
  <2> DEFINE part == parts[processed]
             then == parts[processed + 1]
  <2>1. processed \in 1 .. Len(parts) /\ processed + 1 \in 2 .. Len(parts) /\ processed + 1 \in 1 .. Len(parts)
        /\ processed \in 1 .. processed /\ 1 \in 1 .. Len(parts) /\ processed > 0
    BY <1>2, <1>4
  <2>2. /\ part.reader \in Segments /\ part.from \in Int /\ part.amount \in Int /\ part.n \in Int
        /\ parts[1].reader \in Int
    BY <2>1, PartTypes DEF OrderInv, Segments
  <2>3. /\ part.reader = parts[1].reader + processed - 1 /\ then.reader = parts[1].reader + (processed + 1) - 1
        /\ then.from = 0
    BY <1>1, <2>1 DEF Requests
  <2>4. part.n = Smaller(part.amount, SegmentSize(part.reader) - part.from) /\ Whole(part)
    BY <1>1, <2>1 DEF ProcessInv, Requests, Responds
  <2>5. SegmentSize(part.reader) \in Nat /\ Offset[part.reader] \in Nat
        /\ Offset[part.reader + 1] = Offset[part.reader] + SegmentSize(part.reader)
    BY <2>2, Lengths
  <2>6. Offset[part.reader] + part.from + part.n = index
    BY <1>1, <2>1, <2>2, <2>5 DEF ProcessInv, Position
  <2> HIDE DEF part, then
  <2>7. part.from + part.n = SegmentSize(part.reader)
    BY <2>2, <2>4, <2>5 DEF Smaller, Whole
  <2>8. then.reader = part.reader + 1
    BY <1>2, <2>2, <2>3
  <2> QED
    <3>1. Offset[then.reader] = Offset[part.reader] + SegmentSize(part.reader)
      BY <2>5, <2>8
    <3>2. Offset[then.reader] + then.from = index
      BY <1>2, <2>2, <2>3, <2>5, <2>6, <2>7, <3>1, SMTT(30)
    <3> QED
      BY <3>2 DEF then
<1> QED
  BY <1>3, <1>4

LEMMA ProcessPlaces ==
  ASSUME OrderInv, Process
  PROVE  PlaceInv'
<1> DEFINE part == parts[processed + 1]
<1>1. /\ phase = "process" /\ processed < Len(parts) /\ part.state \in {"data", "eof"}
      /\ done' = done + part.n /\ index' = index + part.n /\ readerIndex' = part.reader
      /\ readerByteIndex' = part.from + part.n /\ processed' = processed + 1
      /\ UNCHANGED <<known, at, phase, goal, expected, next, parts, lost>>
  BY DEF Process, Ready
<1>2. /\ index \in Int /\ done \in Int /\ processed \in Nat /\ Len(parts) \in Nat
      /\ processed + 1 \in 1 .. Len(parts)
  BY <1>1, PlaceTypes, SMTT(30) DEF OrderInv
<1>3. /\ part.reader \in Segments /\ part.from \in Int /\ part.n \in Int
      /\ Offset[part.reader] \in Nat
  BY <1>2, PartTypes, Lengths DEF OrderInv
<1>4. ProcessInv /\ Requests /\ ~lost /\ goal >= 1
  BY <1>1 DEF OrderInv, PlaceInv, ProcessInv
<1>5. Offset[part.reader] + part.from = index
  BY <1>1, NextAtIndex
<1>6. Begin' = Begin
  BY <1>1, <1>2, <1>3 DEF Begin
<1>7. Requests'
  BY <1>1, <1>4, <1>6 DEF Requests, Responds, Whole
<1> HIDE DEF part
<1>8. Position' = index'
  <2>1. Offset[readerIndex'] = Offset[part.reader]
    BY <1>1
  <2> QED
    BY <1>1, <1>2, <1>3, <1>5, <2>1, SMTT(60) DEF Position
<1>9. \A k \in 1 .. processed' : parts'[k].state \in {"data", "eof"}
  <2>1. ASSUME NEW k \in 1 .. processed + 1 PROVE parts[k].state \in {"data", "eof"}
    <3>1. k = processed + 1 \/ k \in 1 .. processed
      BY <1>2
    <3> QED
      BY <1>1, <1>4, <3>1 DEF ProcessInv, part
  <2> QED
    BY <1>1, <2>1
<1>10. ProcessInv'
  <2>1. parts' # << >> /\ processed' # 0 /\ parts'[processed'] = part
    BY <1>1, <1>2 DEF part
  <2> QED
    BY <1>1, <1>4, <1>7, <1>8, <1>9, <2>1 DEF ProcessInv
<1> QED
  BY <1>1, <1>4, <1>10 DEF PlaceInv

(* All are copied: what is left is the place after the last response.        *)
LEMMA AllProcessed ==
  ASSUME OrderInv, AllCopied
  PROVE  processed = Len(parts)
<1> SUFFICES ASSUME processed # Len(parts), done = goal PROVE FALSE
  BY DEF AllCopied
<1>1. ProcessInv /\ Requests /\ goal >= 1 /\ phase = "process"
  BY DEF AllCopied, OrderInv, PlaceInv, ProcessInv
<1>2. /\ index \in Int /\ done \in Int /\ goal \in Int /\ processed \in Nat /\ Len(parts) \in Nat
      /\ processed < Len(parts)
  BY PlaceTypes DEF OrderInv
<1>3. processed # 0
  BY <1>1, <1>2 DEF ProcessInv
<1>4. processed + 1 \in 2 .. Len(parts) /\ processed + 1 \in 1 .. Len(parts)
  BY <1>2, <1>3
<1>5. Offset[parts[processed + 1].reader] < index - done + goal /\ parts[processed + 1].from = 0
  BY <1>1, <1>4 DEF Requests, Begin
<1>6. Offset[parts[processed + 1].reader] + 0 = index
  BY <1>1, <1>2, <1>5, NextAtIndex
<1>7. Offset[parts[processed + 1].reader] \in Int
  BY <1>4, PartTypes, Lengths DEF OrderInv
<1> QED
  BY <1>2, <1>5, <1>6, <1>7

LEMMA ReturnPlaces ==
  ASSUME OrderInv, ReadReturn
  PROVE  PlaceInv'
<1> DEFINE part == parts[processed]
<1>1. /\ processed = Len(parts) /\ phase = "process" /\ Finish /\ UNCHANGED <<known, at, index, lost>>
      /\ IF LastEOF THEN readerIndex' = readerIndex + 1 /\ readerByteIndex' = 0
                    ELSE UNCHANGED <<readerIndex, readerByteIndex>>
  BY AllProcessed DEF ReadReturn, AllCopied
<1>2. ProcessInv /\ Requests
  BY <1>1 DEF OrderInv, PlaceInv, ProcessInv
<1>3. CASE parts = << >>
  <2>1. Placed /\ ~LastEOF
    BY <1>1, <1>2, <1>3 DEF ProcessInv, LastEOF
  <2>2. Placed'
    BY <1>1, <2>1, PlacedFrame DEF OrderInv, placeVars
  <2> QED
    BY <1>1, <2>2, FinishPlaces
<1>4. CASE parts # << >>
  <2>1. /\ Len(parts) \in Nat /\ Len(parts) \in 1 .. Len(parts) /\ processed > 0 /\ index \in Int
        /\ processed \in 1 .. processed /\ parts \in Seq(PartRecord)
    BY <1>1, <1>4, PlaceTypes DEF OrderInv, MergerInv, MergerType
  <2>2. /\ part.reader \in Segments /\ part.from \in Int /\ part.n \in Int /\ part.amount \in Int
    BY <1>1, <2>1, PartTypes DEF OrderInv
  <2>3. /\ SegmentSize(part.reader) \in Nat /\ SegmentSize(part.reader) >= 1 /\ Offset[part.reader] \in Nat
        /\ Offset[part.reader + 1] = Offset[part.reader] + SegmentSize(part.reader)
        /\ part.reader \in Nat /\ part.reader >= 1 /\ part.reader <= N /\ N \in Nat
    BY <2>2, Lengths
  <2>4. /\ Position = index /\ readerIndex = part.reader /\ readerByteIndex = part.from + part.n
        /\ part.state \in {"data", "eof"}
    BY <1>2, <2>1 DEF ProcessInv
  <2>5. /\ 0 <= part.from /\ part.from <= SegmentSize(part.reader) /\ part.amount >= 1
        /\ part.n = Smaller(part.amount, SegmentSize(part.reader) - part.from)
        /\ at[part.reader] = part.from + part.n
        /\ part.state = "data" => part.reader \in known
        /\ part.from = SegmentSize(part.reader) => part.reader \in known
    BY <1>1, <1>2, <2>1, <2>4 DEF Requests, Responds
  <2>6. \A i \in Segments : i > part.reader => at[i] = 0
    BY <1>1, <1>2, <2>1 DEF Requests
  <2> HIDE DEF part
  <2>7. /\ part.n >= 0 /\ part.from + part.n <= SegmentSize(part.reader)
        /\ (part.n = 0 => part.from = SegmentSize(part.reader))
    BY <2>2, <2>3, <2>5 DEF Smaller
  <2>8. CASE LastEOF
    <3>1. part.n = 0 /\ part.from = SegmentSize(part.reader)
      <4>1. parts[processed].state = "eof"
        BY <2>8 DEF LastEOF
      <4> QED
        BY <1>1, <1>2, <2>1, <2>7, <4>1 DEF Requests, Responds, part
    <3>2. readerIndex' = part.reader + 1 /\ readerByteIndex' = 0
      BY <1>1, <2>4, <2>8
    <3>3. Position' = index'
      <4>1. Offset[readerIndex'] = Offset[part.reader] + SegmentSize(part.reader)
        BY <2>3, <3>2
      <4>2. Position = Offset[part.reader] + SegmentSize(part.reader)
        BY <2>2, <2>3, <2>4, <3>1 DEF Position
      <4> QED
        BY <1>1, <2>3, <2>4, <3>2, <4>1, <4>2 DEF Position
    <3>4. readerIndex' <= N => /\ readerIndex' \in Segments /\ at'[readerIndex'] = 0
                               /\ SegmentSize(readerIndex') \in Nat /\ SegmentSize(readerIndex') >= 1
      <4>1. part.reader + 1 <= N => part.reader + 1 \in Segments /\ part.reader + 1 > part.reader
        BY <2>3 DEF Segments
      <4>2. part.reader + 1 <= N => SegmentSize(part.reader + 1) \in Nat /\ SegmentSize(part.reader + 1) >= 1
        BY <4>1, Lengths
      <4>3. SegmentSize(readerIndex') = SegmentSize(part.reader + 1)
        BY <3>2
      <4> QED
        BY <1>1, <2>6, <3>2, <4>1, <4>2, <4>3
    <3>5. \A i \in Segments : i > readerIndex' => at'[i] = 0
      BY <1>1, <2>3, <2>6, <3>2 DEF Segments
    <3>6. Placed'
      BY <3>2, <3>3, <3>4, <3>5 DEF Placed, InFile, SegmentSize
    <3> QED
      BY <1>1, <3>6, FinishPlaces
  <2>9. CASE ~LastEOF
    <3>1. part.state = "data"
      BY <2>1, <2>4, <2>9 DEF LastEOF, part
    <3>2. Placed
      BY <2>2, <2>3, <2>4, <2>5, <2>6, <2>7, <3>1 DEF Placed, InFile
    <3>3. Placed'
      BY <1>1, <2>9, <3>2, PlacedFrame DEF OrderInv, placeVars
    <3> QED
      BY <1>1, <3>3, FinishPlaces
  <2> QED
    BY <2>8, <2>9
<1> QED
  BY <1>3, <1>4

-----------------------------------------------------------------------------
(* Seeks *)

LEMMA SeekBegins ==
  ASSUME OrderInv, NEW newIndex \in 0 .. Length + 1, Seek(newIndex)
  PROVE  PlaceInv'
<1>1. /\ phase = "idle" /\ ~lost /\ UNCHANGED <<known, at, placeVars, expected, done, processed, lost>>
      /\ newIndex # index
  BY DEF Seek, SeekForward, SeekBackward, Callable, Enter
<1>2. Placed /\ done = 0 /\ expected = 0 /\ processed = 0 /\ parts = << >>
  BY <1>1 DEF OrderInv, MergerInv, Onward, PlaceInv
<1>3. /\ index \in Int /\ newIndex \in Int /\ readerIndex \in Int /\ readerByteIndex \in Int /\ N \in Nat
      /\ 1 <= readerIndex /\ readerIndex <= N + 1
  BY PlaceTypes, MergerAssumption DEF OrderInv, Length
<1>4. InFile'
  BY <1>1, <1>2 DEF Placed, InFile, Position, placeVars
<1>5. CASE index < newIndex
  <2>1. /\ phase' = "forward" /\ goal' = newIndex - index /\ parts' = << >>
        /\ next' = <<readerIndex, readerByteIndex>>
    BY <1>2, <1>5 DEF Seek, SeekForward, Enter
  <2>2. done' < goal' /\ done' <= goal' /\ done' # goal' /\ goal' >= 1
    BY <1>1, <1>2, <1>3, <1>5, <2>1
  <2>3. SeekInv'
    BY <1>1, <1>2, <2>2 DEF SeekInv
  <2>4. ForwardInv'
    BY <1>1, <1>2, <1>3, <1>4, <2>1, <2>2, <2>3 DEF ForwardInv, Placed, placeVars
  <2> QED
    BY <1>1, <2>1, <2>4 DEF PlaceInv
<1>6. CASE newIndex < index
  <2> DEFINE first == [reader |-> readerIndex, from |-> 0, amount |-> 0, state |-> "data",
                       n |-> readerByteIndex, first |-> 0]
  <2>1. /\ phase' = "backward" /\ goal' = index - newIndex /\ next' = <<readerIndex - 1, 0>>
        /\ parts' = IF readerByteIndex > 0 THEN << first >> ELSE << >>
    BY <1>3, <1>6 DEF Seek, SeekBackward, Enter
  <2>2. done' < goal' /\ done' <= goal' /\ done' # goal' /\ goal' >= 1
    BY <1>1, <1>2, <1>3, <1>6, <2>1
  <2>3. SeekInv'
    BY <1>1, <1>2, <2>2 DEF SeekInv
  <2>4. readerByteIndex >= 0 /\ \A i \in Segments : i > readerIndex => at[i] = 0
    BY <1>2 DEF Placed, InFile
  <2>5. CASE readerByteIndex > 0
    <3>1. Len(parts') = 1 /\ parts'[1] = first /\ Back' = readerIndex
      BY <1>1, <2>1, <2>5 DEF Back, placeVars
    <3>2. \A i \in Segments : i > Back' - processed' => at'[i] = 0
      BY <1>1, <1>2, <1>3, <2>4, <3>1
    <3>3. next'[1] = Back' - Len(parts') /\ next'[2] = 0
      BY <1>3, <2>1, <3>1
    <3>4. \A k \in 1 .. Len(parts') :
            /\ parts'[k].reader = Back' - k + 1 /\ parts'[k].from = 0
            /\ ~(parts'[k].state = "data" /\ (k > 1 \/ readerByteIndex = 0))
      BY <1>3, <2>5, <3>1
    <3>5. BackwardInv'
      BY <1>1, <1>2, <1>4, <2>2, <2>3, <2>5, <3>1, <3>2, <3>3, <3>4 DEF BackwardInv, placeVars
    <3> QED
      BY <1>1, <2>1, <3>5 DEF PlaceInv
  <2>6. CASE readerByteIndex = 0
    <3>1. Len(parts') = 0 /\ Back' = readerIndex - 1
      BY <1>1, <2>1, <2>6 DEF Back, placeVars
    <3>2. \A i \in Segments : i > Back' - processed' => at'[i] = 0
      <4> SUFFICES ASSUME NEW i \in Segments, i > readerIndex - 1 PROVE at[i] = 0
        BY <1>1, <1>2, <1>3, <3>1
      <4>1. i \in Nat /\ i <= N
        BY MergerAssumption DEF Segments
      <4>2. CASE i = readerIndex
        BY <1>2, <2>6, <4>1, <4>2 DEF Placed
      <4>3. CASE i # readerIndex
        BY <1>3, <2>4, <4>1, <4>3
      <4> QED
        BY <4>2, <4>3
    <3>3. next'[1] = Back' - Len(parts') /\ next'[2] = 0
      BY <1>3, <2>1, <3>1
    <3>4. BackwardInv'
      BY <1>1, <1>2, <1>4, <2>2, <2>3, <2>6, <3>1, <3>2, <3>3 DEF BackwardInv, placeVars
    <3> QED
      BY <1>1, <2>1, <3>4 DEF PlaceInv
  <2> QED
    BY <1>3, <2>4, <2>5, <2>6
<1> QED
  BY <1>1, <1>3, <1>5, <1>6

LEMMA SeekEndPlaces ==
  ASSUME OrderInv, SeekEnd
  PROVE  PlaceInv'
<1>1. /\ phase = "idle" /\ ~lost /\ UNCHANGED <<phase, callVars>> /\ lost' = (readerIndex > N)
      /\ SeekToEnd
  BY DEF SeekEnd, Callable
<1>2. Placed /\ done = 0 /\ expected = 0
  BY <1>1 DEF OrderInv, PlaceInv
<1>3. CASE readerIndex > N
  BY <1>1, <1>2, <1>3 DEF PlaceInv, callVars
<1>4. CASE readerIndex <= N
  <2>1. /\ index \in Int /\ readerIndex \in Segments /\ Position = index /\ N \in Segments /\ N \in Nat
    BY <1>2, <1>4, PlaceTypes, MergerAssumption DEF OrderInv, Placed, InFile, Segments
  <2>2. SegmentSize(N) \in Nat /\ Offset[N] \in Nat /\ Offset[N + 1] = Offset[N] + SegmentSize(N)
        /\ Offset[N + 1] \in Nat
    BY <2>1, Lengths
  <2>3. /\ readerIndex' = N /\ readerByteIndex' = SegmentSize(N) /\ index' = Offset[N + 1]
        /\ N \in known' /\ at'[N] = SegmentSize(N)
    BY <1>1, <1>4, <2>1, <2>2 DEF SeekToEnd, Length, Segments
  <2>4. Position' = index'
    <3>1. Offset[readerIndex'] = Offset[N] /\ SegmentSize(readerIndex') = SegmentSize(N)
      BY <2>3
    <3> QED
      BY <2>2, <2>3, <3>1 DEF Position
  <2>5. \A i \in Segments : ~(i > readerIndex')
    BY <2>1, <2>3 DEF Segments
  <2>6. Placed'
    BY <2>1, <2>2, <2>3, <2>4, <2>5 DEF Placed, InFile, SegmentSize
  <2> QED
    BY <1>1, <1>2, <2>6 DEF PlaceInv, callVars
<1> QED
  BY <1>3, <1>4, PlaceTypes DEF OrderInv

LEMMA SeekEndFailsPlaces ==
  ASSUME OrderInv, SeekEndFails
  PROVE  PlaceInv'
<1>1. phase = "idle" /\ ~lost /\ UNCHANGED <<phase, callVars>> /\ lost'
  BY DEF SeekEndFails, Callable
<1> QED
  BY <1>1 DEF OrderInv, PlaceInv, callVars

(* One more segment is asked for its end.                                    *)
LEMMA SeekAskPlaces ==
  ASSUME OrderInv, SeekAsk
  PROVE  PlaceInv'
<1> DEFINE i    == next[1]
           more == Larger(0, Size(i) - next[2])
           last == Len(parts) + 1
<1>1. /\ phase \in {"forward", "backward"} /\ MoreToAsk
      /\ parts' = Append(parts, Part(i, next[2], 0)) /\ expected' = expected + more
      /\ next' = <<IF phase = "forward" THEN i + 1 ELSE i - 1, 0>>
      /\ UNCHANGED <<known, at, placeVars, phase, goal, done, processed, lost>>
  BY DEF SeekAsk, Seeking
<1>2. CASE lost
  BY <1>1, <1>2 DEF PlaceInv
<1>3. CASE ~lost
  <2>1. SeekInv
    BY <1>1, <1>3 DEF OrderInv, PlaceInv, ForwardInv, BackwardInv
  <2>2. processed = 0 /\ done = 0 /\ goal \in Int /\ done < goal /\ done # goal
    BY <1>1, <2>1, PlaceTypes DEF SeekInv, OrderInv
  <2>3. /\ Len(parts) \in Nat /\ parts \in Seq(PartRecord) /\ next[1] \in Int /\ next[2] \in Int
        /\ index \in Int /\ readerIndex \in Int /\ readerByteIndex \in Int /\ expected \in Int /\ N \in Nat
        /\ 1 <= readerIndex /\ last \in Nat
    BY PlaceTypes DEF OrderInv, MergerInv, MergerType
  <2>4. i \in Segments
    BY <1>1, <2>3 DEF MoreToAsk, OrderInv, MergerInv, Onward, Segments
  <2>5. /\ SegmentSize(i) \in Nat /\ Offset[i] \in Nat /\ Offset[i + 1] = Offset[i] + SegmentSize(i)
        /\ Size(i) \in Nat /\ Size(i) >= SegmentSize(i) /\ i \in Nat
    BY <2>4, Lengths
  <2>6. more \in Nat /\ more >= SegmentSize(i) - next[2]
    BY <2>3, <2>5 DEF Larger
  <2> HIDE DEF more
  <2>7. /\ Len(parts') = last /\ parts' # << >>
        /\ parts'[last].reader = i /\ parts'[last].from = next[2] /\ parts'[last].state = "running"
        /\ \A k \in 1 .. Len(parts) : parts'[k] = parts[k]
    <3> DEFINE part == Part(i, next[2], 0)
    <3>1. part.reader = i /\ part.from = next[2] /\ part.state = "running"
      BY DEF Part
    <3> HIDE DEF part
    <3>2. /\ Len(parts') = last /\ parts' # << >> /\ parts'[last] = part
          /\ \A k \in 1 .. Len(parts) : parts'[k] = parts[k]
      BY <1>1, <2>3 DEF part
    <3> QED
      BY <3>1, <3>2
  <2>8. SeekInv'
    BY <1>1, <2>1, <2>2 DEF SeekInv
  <2>9. InFile'
    BY <1>1, <1>3, <2>2 DEF OrderInv, PlaceInv, ForwardInv, BackwardInv, InFile, Position, placeVars
  <2>10. \A k \in 1 .. last : k = last \/ k \in 1 .. Len(parts)
    BY <2>3
  <2>11. CASE phase = "forward"
    <3>1. ForwardInv
      BY <1>3, <2>11 DEF OrderInv, PlaceInv
    <3>2. next'[1] = readerIndex' + Len(parts') /\ next'[2] = 0 /\ next'[1] = i + 1
      BY <1>1, <2>2, <2>3, <2>7, <2>11, <3>1 DEF ForwardInv, placeVars
    <3>3. expected' >= Offset[next'[1]] - index'
      <4>1. Offset[next'[1]] = Offset[i] + SegmentSize(i)
        BY <2>5, <3>2
      <4>2. expected >= Offset[i] + next[2] - index
        <5>1. CASE parts = << >>
          <6>1. Len(parts) = 0
            BY <5>1
          <6>2. i = readerIndex /\ next[2] = readerByteIndex /\ expected >= 0
            BY <2>2, <2>3, <3>1, <5>1, <6>1 DEF ForwardInv
          <6>3. Offset[readerIndex] + readerByteIndex = index
            BY <2>2, <3>1 DEF ForwardInv, InFile, Position
          <6> QED
            BY <2>3, <2>5, <6>2, <6>3
        <5>2. CASE parts # << >>
          BY <2>2, <2>3, <2>5, <3>1, <5>2 DEF ForwardInv
        <5> QED
          BY <5>1, <5>2
      <4>3. index' = index /\ expected' = expected + more
        BY <1>1 DEF placeVars
      <4> QED
        <5> DEFINE size == SegmentSize(i)
                   from == next[2]
                   start == Offset[i]
        <5>1. /\ expected \in Int /\ more \in Int /\ start \in Int /\ size \in Int /\ from \in Int /\ index \in Int
              /\ more >= size - from /\ expected >= start + from - index /\ Offset[next'[1]] = start + size
          BY <2>3, <2>5, <2>6, <4>1, <4>2
        <5> HIDE DEF size, from, start, i
        <5>2. expected + more >= start + size - index
          BY <5>1
        <5> QED
          BY <4>3, <5>1, <5>2
    <3>4. ASSUME NEW k \in 1 .. last
          PROVE  /\ parts'[k].reader = readerIndex + k - 1
                 /\ parts'[k].from = IF k = 1 THEN readerByteIndex ELSE 0
                 /\ parts'[k].state = "data" => parts'[k].n = SegmentSize(parts'[k].reader) - parts'[k].from
                 /\ k > 1 => Offset[parts'[k].reader] < index + goal
      <4>1. CASE k \in 1 .. Len(parts)
        BY <2>2, <2>7, <3>1, <4>1 DEF ForwardInv
      <4>2. CASE k = last
        <5>1. i = readerIndex + Len(parts) /\ next[2] = IF Len(parts) = 0 THEN readerByteIndex ELSE 0
          BY <2>2, <2>3, <3>1 DEF ForwardInv
        <5>2. k > 1 => Offset[i] < index + goal
          <6> SUFFICES ASSUME k > 1 PROVE Offset[i] < index + goal
            OBVIOUS
          <6>1. parts # << >>
            BY <2>3, <4>2
          <6>2. expected >= Offset[i] - index /\ expected < goal
            BY <1>1, <2>2, <3>1, <6>1 DEF ForwardInv, MoreToAsk
          <6> QED
            BY <2>2, <2>3, <2>5, <6>2
        <5>3. k - 1 = Len(parts) /\ (k = 1 <=> Len(parts) = 0) /\ readerIndex + k - 1 = readerIndex + Len(parts)
          BY <2>3, <4>2
        <5> QED
          BY <2>7, <4>2, <5>1, <5>2, <5>3
      <4> QED
        BY <2>10, <4>1, <4>2
    <3>5. \A j \in Segments : j >= next'[1] /\ j > readerIndex' => at'[j] = 0
      BY <1>1, <2>2, <2>3, <2>5, <3>1, <3>2 DEF ForwardInv, placeVars, Segments
    <3>6. ForwardInv'
      BY <1>1, <2>2, <2>7, <2>8, <2>9, <3>2, <3>3, <3>4, <3>5 DEF ForwardInv, placeVars
    <3> QED
      BY <1>1, <2>11, <3>6 DEF PlaceInv
  <2>12. CASE phase = "backward"
    <3>1. BackwardInv /\ Back \in Int /\ Back' = Back
      BY <1>1, <1>3, <2>3, <2>12 DEF OrderInv, PlaceInv, Back, placeVars
    <3>2. next'[1] = Back - Len(parts') /\ next'[2] = 0 /\ i = Back - Len(parts) /\ next[2] = 0
      BY <1>1, <2>2, <2>3, <2>7, <2>12, <3>1 DEF BackwardInv
    <3>3. readerByteIndex > 0 => 1 \in 1 .. Len(parts) /\ parts[1].state = "data" /\ parts[1].n = readerByteIndex
      BY <2>2, <2>3, <3>1 DEF BackwardInv
    <3>4. ASSUME NEW k \in 1 .. last
          PROVE  /\ parts'[k].reader = Back - k + 1 /\ parts'[k].from = 0
                 /\ parts'[k].state = "data" /\ (k > 1 \/ readerByteIndex = 0) =>
                      parts'[k].n = SegmentSize(parts'[k].reader)
      <4>1. CASE k \in 1 .. Len(parts)
        BY <2>2, <2>7, <3>1, <4>1 DEF BackwardInv
      <4>2. CASE k = last
        BY <2>3, <2>7, <3>1, <3>2, <4>2
      <4> QED
        BY <2>10, <4>1, <4>2
    <3>5. readerByteIndex > 0 => Len(parts') > 0 /\ parts'[1].state = "data" /\ parts'[1].n = readerByteIndex
      BY <2>3, <2>7, <3>3
    <3>6. \A j \in Segments : j > Back - processed => at[j] = 0
      BY <2>2, <3>1 DEF BackwardInv
    <3>7. BackwardInv'
      BY <1>1, <2>2, <2>7, <2>8, <2>9, <3>1, <3>2, <3>4, <3>5, <3>6 DEF BackwardInv, placeVars
    <3> QED
      BY <1>1, <2>12, <3>7 DEF PlaceInv
  <2> QED
    BY <1>1, <2>11, <2>12
<1> QED
  BY <1>2, <1>3

(* A segment says where its end is, or that it cannot.                       *)
LEMMA SeekRespondPlaces ==
  ASSUME OrderInv, NEW k \in 1 .. Len(parts), SeekRespond(k) \/ SeekRespondError(k)
  PROVE  PlaceInv'
<1> DEFINE i == parts[k].reader
           n == SegmentSize(i) - parts[k].from
<1>1. /\ Seeking /\ Running(k)
      /\ UNCHANGED <<placeVars, phase, goal, expected, done, next, processed, lost>>
  BY DEF SeekRespond, SeekRespondError
<1>2. CASE lost
  BY <1>1, <1>2 DEF Seeking, PlaceInv
<1>3. CASE ~lost
  <2>1. SeekInv
    BY <1>1, <1>3 DEF OrderInv, PlaceInv, ForwardInv, BackwardInv, Seeking
  <2>2. /\ i \in Segments /\ parts[k].from \in Int /\ parts[k].n \in Int /\ Len(parts) \in Nat /\ at \in [Segments -> Int]
        /\ processed \in Nat /\ processed <= Len(parts) /\ readerIndex \in Int /\ readerByteIndex \in Int
        /\ goal \in Int /\ done \in Int
    BY PartTypes, PlaceTypes DEF OrderInv, MergerInv, MergerType
  <2>3. SegmentSize(i) \in Nat /\ i \in Nat
    BY <2>2, Lengths
  <2> HIDE DEF n
  <2>4. \/ Answer(k, "data", n, 0)
        \/ Answer(k, "error", 0, 0)
    BY DEF SeekRespond, SeekRespondError, n
  <2>5. known \subseteq known' /\ \A j \in Segments : j # i => at'[j] = at[j]
    BY <2>2 DEF SeekRespond, SeekRespondError
  <2>6. /\ Len(parts') = Len(parts) /\ parts # << >> /\ parts' # << >>
        /\ \A j \in 1 .. Len(parts) :
             /\ j # k => parts'[j] = parts[j]
             /\ parts'[j].reader = parts[j].reader /\ parts'[j].from = parts[j].from
        /\ parts'[k].state # "running" /\ (parts'[k].state = "data" => parts'[k].n = n)
    BY <2>2, <2>4, AnswerOf DEF OrderInv
  <2>7. k > processed
    BY <1>1, <2>1, <2>2 DEF SeekInv, Running
  <2>8. SeekInv'
    <3>1. \A j \in 1 .. processed : j \in 1 .. Len(parts) /\ j # k
      BY <2>2, <2>7
    <3> QED
      BY <1>1, <2>1, <2>6, <3>1 DEF SeekInv, MoreToAsk
  <2>9. InFile => InFile'
    BY <1>1 DEF InFile, Position, placeVars
  <2>10. CASE phase = "forward"
    <3>1. ForwardInv
      BY <1>3, <2>10 DEF OrderInv, PlaceInv
    <3>2. done < goal /\ done # goal
      BY <2>1, <2>2, <2>7, <3>1 DEF ForwardInv, SeekInv
    <3>3. \A j \in Segments : j >= next[1] /\ j > readerIndex => at'[j] = 0
      <4>1. i = readerIndex + k - 1 /\ next[1] = readerIndex + Len(parts)
        BY <3>1, <3>2 DEF ForwardInv
      <4>2. i < next[1]
        BY <2>2, <4>1
      <4> QED
        BY <2>2, <2>3, <2>5, <3>1, <3>2, <4>1, <4>2 DEF ForwardInv, Segments
    <3>4. \A j \in 1 .. Len(parts) :
            /\ parts'[j].reader = readerIndex + j - 1
            /\ parts'[j].from = IF j = 1 THEN readerByteIndex ELSE 0
            /\ parts'[j].state = "data" => parts'[j].n = SegmentSize(parts'[j].reader) - parts'[j].from
            /\ j > 1 => Offset[parts'[j].reader] < index + goal
      <4>1. parts'[k].state = "data" => parts'[k].n = SegmentSize(parts'[k].reader) - parts'[k].from
        BY <2>6 DEF n
      <4> QED
        BY <2>6, <3>1, <3>2, <4>1 DEF ForwardInv
    <3>5. ForwardInv'
      BY <1>1, <2>6, <2>8, <2>9, <3>1, <3>2, <3>3, <3>4 DEF ForwardInv, placeVars
    <3> QED
      BY <1>1, <2>10, <3>5 DEF PlaceInv
  <2>11. CASE phase = "backward"
    <3>1. BackwardInv /\ Back' = Back /\ Back \in Int
      BY <1>1, <1>3, <2>2, <2>11 DEF OrderInv, PlaceInv, Back, placeVars
    <3>2. CASE done = goal
      <4>1. i < readerIndex /\ Placed /\ \A j \in processed + 1 .. Len(parts) : parts[j].reader < readerIndex
        <5>1. k \in processed + 1 .. Len(parts)
          BY <2>2, <2>7
        <5> QED
          BY <3>1, <3>2, <5>1 DEF BackwardInv
      <4>2. Placed'
        <5>1. readerIndex <= N => readerIndex \in Segments
          BY PlaceTypes DEF OrderInv
        <5>2. \A j \in Segments : j >= readerIndex => at'[j] = at[j]
          BY <2>2, <2>3, <2>5, <4>1 DEF Segments
        <5> QED
          BY <1>1, <2>2, <2>5, <2>9, <4>1, <5>1, <5>2, SMTT(30) DEF Placed, placeVars, Segments
      <4>3. \A j \in processed + 1 .. Len(parts) : j \in 1 .. Len(parts) /\ parts'[j].reader < readerIndex
        BY <2>2, <2>6, <4>1
      <4>4. BackwardInv'
        BY <1>1, <2>2, <2>6, <2>8, <3>2, <4>2, <4>3 DEF BackwardInv, placeVars
      <4> QED
        BY <1>1, <2>11, <4>4 DEF PlaceInv
    <3>3. CASE done < goal
      <4>1. i = Back - k + 1 /\ parts[k].from = 0
        BY <3>1, <3>3 DEF BackwardInv
      <4>2. \A j \in Segments : j > Back - processed => at'[j] = 0
        <5>1. i <= Back - processed
          BY <2>2, <2>7, <3>1, <4>1
        <5> QED
          <6>1. \A j \in Segments : j > Back - processed => at[j] = 0
            BY <3>1, <3>3 DEF BackwardInv
          <6>2. \A j \in Segments : j > Back - processed => j # i
            BY <2>2, <2>3, <3>1, <5>1 DEF Segments
          <6> QED
            BY <2>5, <6>1, <6>2
      <4>3. readerByteIndex > 0 => 1 \in 1 .. Len(parts) /\ k # 1 /\ parts[1].state = "data" /\ parts[1].n = readerByteIndex
        BY <1>1, <2>2, <3>1, <3>3 DEF BackwardInv, Running
      <4>4. \A j \in 1 .. Len(parts) :
              /\ parts'[j].reader = Back - j + 1 /\ parts'[j].from = 0
              /\ parts'[j].state = "data" /\ (j > 1 \/ readerByteIndex = 0) =>
                   parts'[j].n = SegmentSize(parts'[j].reader)
        <5>1. parts'[k].state = "data" => parts'[k].n = SegmentSize(parts'[k].reader)
          BY <2>3, <2>6, <4>1 DEF n
        <5> QED
          BY <2>6, <3>1, <3>3, <5>1 DEF BackwardInv
      <4>5. BackwardInv'
        BY <1>1, <2>2, <2>6, <2>8, <2>9, <3>1, <3>3, <4>2, <4>3, <4>4 DEF BackwardInv, placeVars
      <4> QED
        BY <1>1, <2>11, <4>5 DEF PlaceInv
    <3> QED
      BY <2>1, <2>2, <3>2, <3>3 DEF SeekInv
  <2> QED
    BY <1>1, <2>10, <2>11 DEF Seeking
<1> QED
  BY <1>2, <1>3

(* The response that a Seek forwards lands in is the last: none after it would *)
(* have been asked.                                                          *)
LEMMA ForwardPlaces ==
  ASSUME OrderInv, ForwardLands \/ ForwardPasses
  PROVE  PlaceInv'
<1> DEFINE part   == parts[processed + 1]
           before == IF readerIndex = part.reader THEN readerByteIndex ELSE 0
           byte   == goal - done + before
<1>1. /\ phase = "forward" /\ ~MoreToAsk /\ processed < Len(parts) /\ processed' = processed + 1
      /\ part.state = "data" /\ done < goal
      /\ UNCHANGED <<known, phase, goal, expected, next, parts>>
  BY DEF ForwardLands, ForwardPasses, SeekProcess, Ready
<1>2. CASE lost
  <2>1. lost'
    BY <1>2 DEF ForwardLands, ForwardPasses
  <2> QED
    BY <1>1, <2>1 DEF PlaceInv
<1>3. CASE ~lost
  <2>1. ForwardInv /\ SeekInv
    BY <1>1, <1>3 DEF OrderInv, PlaceInv, ForwardInv
  <2>2. /\ index \in Int /\ done \in Int /\ goal \in Int /\ processed \in Nat /\ Len(parts) \in Nat
        /\ readerIndex \in Int /\ readerByteIndex \in Int /\ Offset[readerIndex] \in Nat /\ 1 <= readerIndex
        /\ processed + 1 \in 1 .. Len(parts) /\ N \in Nat /\ processed' \in Nat /\ processed' # 0
    BY <1>1, PlaceTypes DEF OrderInv
  <2>3. /\ part.reader \in Segments /\ part.from \in Int /\ part.n \in Int /\ at \in [Segments -> Int]
    BY <2>2, PartTypes DEF OrderInv, MergerInv, MergerType
  <2>4. /\ SegmentSize(part.reader) \in Nat /\ Offset[part.reader] \in Nat
        /\ Offset[part.reader + 1] = Offset[part.reader] + SegmentSize(part.reader)
        /\ part.reader \in Nat /\ part.reader >= 1 /\ part.reader <= N
    BY <2>3, Lengths
  <2>5. /\ part.reader = readerIndex + (processed + 1) - 1
        /\ part.from = IF processed + 1 = 1 THEN readerByteIndex ELSE 0
        /\ part.n = SegmentSize(part.reader) - part.from
        /\ InFile
    BY <1>1, <2>1, <2>2 DEF ForwardInv
  <2>6. part.reader = readerIndex + processed /\ before = part.from /\ before >= 0
    <3> HIDE DEF part
    <3>1. part.reader = readerIndex + processed
      BY <2>2, <2>5
    <3>2. readerByteIndex >= 0
      BY <2>5 DEF InFile
    <3>3. readerIndex = part.reader <=> processed + 1 = 1
      BY <2>2, <2>4, <3>1
    <3> QED
      BY <2>2, <2>5, <3>1, <3>2, <3>3
  <2>7. Offset[part.reader] + part.from = index + done
    <3>1. CASE processed = 0
      <4>1. part.reader = readerIndex /\ part.from = readerByteIndex /\ done = 0
        BY <1>1, <2>1, <2>2, <2>5, <2>6, <3>1 DEF ForwardInv
      <4> HIDE DEF part
      <4>2. Offset[readerIndex] + readerByteIndex = index
        BY <2>5 DEF InFile, Position
      <4>3. Offset[part.reader] = Offset[readerIndex]
        BY <4>1
      <4> QED
        <5>1. Offset[readerIndex] \in Int /\ index \in Int /\ readerByteIndex \in Int
          BY <2>2
        <5> QED
          BY <4>1, <4>2, <4>3, <5>1
    <3>2. CASE processed # 0
      <4>1. done = Offset[readerIndex + processed] - index /\ part.from = 0
        BY <1>1, <2>1, <2>2, <2>5, <3>2 DEF ForwardInv
      <4>2. Offset[readerIndex + processed] = Offset[part.reader]
        BY <2>6
      <4> HIDE DEF part
      <4>3. done = Offset[part.reader] - index
        BY <4>1, <4>2
      <4> QED
        <5>1. Offset[part.reader] \in Int /\ index \in Int /\ part.from = 0
          BY <2>2, <2>4, <4>1
        <5> QED
          BY <4>3, <5>1
    <3> QED
      BY <3>1, <3>2
  <2> HIDE DEF part, before, byte
  <2>8. \A k \in 1 .. processed' : parts'[k].state # "running"
    <3>1. ASSUME NEW k \in 1 .. processed + 1 PROVE parts[k].state # "running"
      <4>1. k = processed + 1 \/ k \in 1 .. processed
        BY <2>2
      <4> QED
        BY <1>1, <2>1, <4>1 DEF SeekInv, part
    <3> QED
      BY <1>1, <3>1
  <2>9. index + done + part.n = Offset[part.reader + 1] /\ part.n = SegmentSize(part.reader) - part.from
    BY <2>2, <2>3, <2>4, <2>5, <2>7
  <2>10. CASE ForwardLands
    <3>1. /\ done + part.n > goal /\ Land(part.reader, byte, index + goal) /\ UNCHANGED <<known, lost>>
      BY <2>10 DEF ForwardLands, part, before, byte
    <3>2. processed + 1 = Len(parts)
      <4> SUFFICES ASSUME processed + 1 # Len(parts) PROVE FALSE
        OBVIOUS
      <4>1. processed + 2 \in 1 .. Len(parts) /\ processed + 2 > 1
        BY <2>2
      <4>2. /\ parts[processed + 2].reader = readerIndex + (processed + 2) - 1
            /\ Offset[parts[processed + 2].reader] < index + goal
        BY <1>1, <2>1, <2>2, <4>1 DEF ForwardInv
      <4>3. Offset[part.reader + 1] < index + goal
        <5>1. parts[processed + 2].reader = part.reader + 1
          BY <2>2, <2>6, <4>2
        <5> QED
          BY <4>2, <5>1
      <4> QED
        BY <2>2, <2>3, <2>4, <2>9, <3>1, <4>3
    <3>3. byte = goal - done + part.from /\ byte \in Int /\ byte > 0 /\ byte < SegmentSize(part.reader)
      <4>1. byte = goal - done + part.from /\ part.from >= 0
        BY <2>6 DEF byte
      <4>2. goal - done > 0 /\ goal - done < SegmentSize(part.reader) - part.from
        BY <1>1, <2>2, <2>3, <2>9, <3>1
      <4>3. SegmentSize(part.reader) \in Int
        BY <2>4
      <4> HIDE DEF byte
      <4> QED
        BY <2>2, <2>3, <4>1, <4>2, <4>3
    <3>4. /\ at' = [at EXCEPT ![part.reader] = byte] /\ readerIndex' = part.reader /\ readerByteIndex' = byte
          /\ index' = index + goal /\ done' = goal
      BY <3>1 DEF Land
    <3>5. Position' = index'
      <4>1. Offset[readerIndex'] = Offset[part.reader]
        BY <3>4
      <4> QED
        <5>1. Offset[part.reader] + byte = index + goal
          <6>1. /\ Offset[part.reader] \in Int /\ index \in Int /\ part.from \in Int /\ goal \in Int /\ done \in Int
                /\ byte = goal - done + part.from
            BY <2>2, <2>3, <2>4, <3>3
          <6> QED
            BY <2>7, <6>1
        <5> QED
          BY <3>4, <4>1, <5>1 DEF Position
    <3>6. \A i \in Segments : i > part.reader => at'[i] = 0
      <4>1. next[1] = part.reader + 1 /\ part.reader >= readerIndex
        <5>1. next[1] = readerIndex + Len(parts)
          BY <1>1, <2>1, <2>2 DEF ForwardInv
        <5> QED
          BY <2>2, <2>4, <2>6, <3>2, <5>1
      <4>2. \A i \in Segments : i > part.reader => i >= next[1] /\ i > readerIndex /\ i # part.reader
        BY <2>2, <2>4, <4>1 DEF Segments
      <4> QED
        BY <1>1, <2>1, <2>3, <3>4, <4>2 DEF ForwardInv
    <3>7. Placed'
      <4>1. SegmentSize(readerIndex') = SegmentSize(part.reader) /\ at'[part.reader] = byte
        BY <2>3, <3>4
      <4> QED
        BY <2>4, <3>3, <3>4, <3>5, <3>6, <4>1 DEF Placed, InFile
    <3>8. SeekInv'
      BY <1>1, <2>1, <2>2, <2>8, <3>4 DEF SeekInv, MoreToAsk
    <3>9. ForwardInv'
      BY <1>1, <2>2, <3>2, <3>4, <3>7, <3>8 DEF ForwardInv
    <3> QED
      BY <1>1, <3>9 DEF PlaceInv
  <2>11. CASE ForwardPasses
    <3>1. /\ done + part.n <= goal /\ done' = done + part.n
          /\ lost' = (lost \/ done + part.n = goal)
          /\ UNCHANGED <<at, placeVars>>
      BY <2>11 DEF ForwardPasses, part
    <3>2. CASE done + part.n = goal
      BY <1>1, <3>1, <3>2 DEF PlaceInv
    <3>3. CASE done + part.n # goal
      <4>1. done' < goal' /\ done' <= goal' /\ done' # goal'
        BY <1>1, <2>2, <2>3, <3>1, <3>3
      <4>2. SeekInv'
        BY <1>1, <2>1, <2>2, <2>8, <4>1 DEF SeekInv, MoreToAsk
      <4>3. InFile'
        BY <2>5, <3>1 DEF InFile, Position, placeVars
      <4>4. done' = Offset[readerIndex' + processed'] - index'
        <5>1. readerIndex + (processed + 1) = part.reader + 1
          BY <2>2, <2>6
        <5>2. Offset[readerIndex' + processed'] = Offset[part.reader + 1]
          BY <1>1, <3>1, <5>1 DEF placeVars
        <5> QED
          BY <2>2, <2>3, <2>4, <2>9, <3>1, <5>2 DEF placeVars
      <4>5. ForwardInv'
        BY <1>1, <2>1, <2>2, <3>1, <4>1, <4>2, <4>3, <4>4 DEF ForwardInv, placeVars
      <4> QED
        BY <1>1, <4>5 DEF PlaceInv
    <3> QED
      BY <3>2, <3>3
  <2> QED
    BY <2>10, <2>11
<1> QED
  BY <1>2, <1>3

LEMMA BackwardPlaces ==
  ASSUME OrderInv, BackwardLands \/ BackwardPasses \/ BackwardIgnores
  PROVE  PlaceInv'
<1> DEFINE part == parts[processed + 1]
           byte == done + part.n - goal
<1>1. /\ phase = "backward" /\ ~MoreToAsk /\ processed < Len(parts) /\ processed' = processed + 1
      /\ part.state = "data"
      /\ UNCHANGED <<known, phase, goal, expected, next, parts, lost>>
  BY DEF BackwardLands, BackwardPasses, BackwardIgnores, SeekProcess, Ready
<1>2. CASE lost
  BY <1>1, <1>2 DEF PlaceInv
<1>3. CASE ~lost
  <2>1. BackwardInv /\ SeekInv
    BY <1>1, <1>3 DEF OrderInv, PlaceInv, BackwardInv
  <2>2. /\ index \in Int /\ done \in Int /\ goal \in Int /\ processed \in Nat /\ Len(parts) \in Nat
        /\ readerIndex \in Int /\ readerByteIndex \in Int /\ Back \in Int
        /\ processed + 1 \in 1 .. Len(parts) /\ processed' # 0 /\ processed' \in Nat
    BY <1>1, PlaceTypes, SMTT(30) DEF OrderInv, Back
  <2>3. /\ part.reader \in Segments /\ part.n \in Int /\ at \in [Segments -> Int]
    BY <2>2, PartTypes DEF OrderInv, MergerInv, MergerType
  <2>4. /\ SegmentSize(part.reader) \in Nat /\ Offset[part.reader] \in Nat
        /\ Offset[part.reader + 1] = Offset[part.reader] + SegmentSize(part.reader)
        /\ part.reader \in Nat /\ part.reader >= 1 /\ part.reader <= N
    BY <2>3, Lengths
  <2>5. \A k \in 1 .. processed' : parts'[k].state # "running"
    <3>1. ASSUME NEW k \in 1 .. processed + 1 PROVE parts[k].state # "running"
      <4>1. k = processed + 1 \/ k \in 1 .. processed
        BY <2>2
      <4> QED
        BY <1>1, <2>1, <4>1 DEF SeekInv
    <3> QED
      BY <1>1, <3>1
  <2>6. CASE done = goal
    <3>1. BackwardIgnores
      BY <2>2, <2>6 DEF BackwardLands, BackwardPasses
    <3>2. UNCHANGED <<at, placeVars, done>>
      BY <3>1 DEF BackwardIgnores
    <3>3. Placed'
      BY <1>1, <2>1, <2>6, <3>2, PlacedFrame DEF OrderInv, BackwardInv
    <3>4. \A k \in processed' + 1 .. Len(parts) : k \in processed + 1 .. Len(parts)
      BY <1>1, <2>2
    <3>5. SeekInv'
      BY <1>1, <2>1, <2>2, <2>5, <3>2 DEF SeekInv, MoreToAsk
    <3>6. BackwardInv'
      BY <1>1, <2>1, <2>2, <2>6, <3>2, <3>3, <3>4, <3>5 DEF BackwardInv, placeVars
    <3> QED
      BY <1>1, <3>6 DEF PlaceInv
  <2>7. CASE done < goal
    <3>1. /\ part.reader = Back - (processed + 1) + 1 /\ InFile
          /\ \A i \in Segments : i > Back - processed => at[i] = 0
          /\ \A k \in 1 .. Len(parts) : parts[k].reader = Back - k + 1
          /\ part.state = "data" /\ (processed + 1 > 1 \/ readerByteIndex = 0) =>
               part.n = SegmentSize(part.reader)
          /\ readerByteIndex > 0 => parts[1].n = readerByteIndex
          /\ done = IF processed = 0 THEN 0 ELSE index - Offset[Back - processed + 1]
      BY <2>1, <2>2, <2>7 DEF BackwardInv
    <3>2. part.reader = Back - processed
      <4> HIDE DEF part
      <4> QED
        BY <2>2, <3>1
    <3>3. /\ Offset[part.reader] + part.n = index - done
          /\ 0 <= part.n /\ part.n <= SegmentSize(part.reader)
      <4>1. CASE processed = 0 /\ readerByteIndex > 0
        <5>1. part.reader = readerIndex /\ part.n = readerByteIndex /\ done = 0
          BY <2>2, <3>1, <3>2, <4>1 DEF Back
        <5> QED
          BY <2>2, <2>4, <3>1, <4>1, <5>1, SMTT(30) DEF InFile, Position
      <4>2. CASE processed # 0 \/ ~(readerByteIndex > 0)
        <5>1. part.n = SegmentSize(part.reader)
          BY <1>1, <2>2, <3>1, <4>2 DEF InFile
        <5>2. Offset[part.reader + 1] = index - done
          <6>1. CASE processed = 0
            <7>1. readerByteIndex = 0 /\ part.reader + 1 = readerIndex /\ done = 0
              BY <2>2, <3>1, <3>2, <4>2, <6>1 DEF InFile, Back
            <7>2. Offset[part.reader + 1] = Offset[readerIndex] /\ Offset[part.reader + 1] \in Int
              BY <2>4, <7>1
            <7> QED
              BY <2>2, <3>1, <7>1, <7>2 DEF InFile, Position
          <6>2. CASE processed # 0
            <7>1. part.reader + 1 = Back - processed + 1 /\ done = index - Offset[Back - processed + 1]
              BY <2>2, <3>1, <3>2, <6>2
            <7>2. done = index - Offset[part.reader + 1] /\ Offset[part.reader + 1] \in Int
              BY <2>4, <7>1
            <7> HIDE DEF part
            <7> QED
              BY <2>2, <7>2
          <6> QED
            BY <6>1, <6>2
        <5> HIDE DEF part
        <5> QED
          BY <2>2, <2>4, <5>1, <5>2
      <4> QED
        BY <4>1, <4>2
    <3> HIDE DEF part, byte
    <3>4. \A i \in Segments : i > part.reader => at[i] = 0
      BY <3>1, <3>2
    <3>5. CASE BackwardLands
      <4>1. done + part.n >= goal /\ Land(part.reader, byte, index - goal)
        BY <3>5 DEF BackwardLands, part, byte
      <4>2. /\ at' = [at EXCEPT ![part.reader] = byte] /\ readerIndex' = part.reader /\ readerByteIndex' = byte
            /\ index' = index - goal /\ done' = goal
        BY <4>1 DEF Land
      <4>3. byte = done + part.n - goal /\ byte \in Int /\ 0 <= byte /\ byte < SegmentSize(part.reader)
        <5>1. byte = done + part.n - goal /\ SegmentSize(part.reader) \in Int
          BY <2>4 DEF byte
        <5> QED
          BY <2>2, <2>3, <2>7, <3>3, <4>1, <5>1
      <4>4. Position' = index'
        <5>1. Offset[readerIndex'] = Offset[part.reader] /\ Offset[part.reader] \in Int
          BY <2>4, <4>2
        <5>2. Offset[part.reader] + byte = index - goal
          <6>1. /\ Offset[part.reader] \in Int /\ index \in Int /\ done \in Int /\ goal \in Int /\ part.n \in Int
                /\ byte = done + part.n - goal /\ Offset[part.reader] + part.n = index - done
            BY <2>2, <2>3, <3>3, <4>3, <5>1
          <6> QED
            BY <6>1
        <5> QED
          BY <4>2, <5>1, <5>2 DEF Position
      <4>5. Placed'
        <5>1. SegmentSize(readerIndex') = SegmentSize(part.reader) /\ at'[part.reader] = byte
          BY <2>3, <4>2
        <5>2. \A i \in Segments : i > part.reader => at'[i] = 0
          BY <2>3, <2>4, <3>4, <4>2 DEF Segments
        <5> QED
          BY <2>4, <4>2, <4>3, <4>4, <5>1, <5>2 DEF Placed, InFile
      <4>6. \A k \in processed' + 1 .. Len(parts) : parts[k].reader < part.reader
        <5> SUFFICES ASSUME NEW k \in processed' + 1 .. Len(parts) PROVE parts[k].reader < part.reader
          OBVIOUS
        <5>1. k \in 1 .. Len(parts) /\ k \in Int /\ k > processed + 1
          BY <1>1, <2>2
        <5>2. parts[k].reader = Back - k + 1
          BY <3>1, <5>1
        <5> QED
          BY <2>2, <3>2, <5>1, <5>2
      <4>7. SeekInv'
        BY <1>1, <2>1, <2>2, <2>5, <4>2 DEF SeekInv, MoreToAsk
      <4>8. BackwardInv'
        BY <1>1, <2>2, <4>2, <4>5, <4>6, <4>7 DEF BackwardInv
      <4> QED
        BY <1>1, <4>8 DEF PlaceInv
    <3>6. CASE BackwardPasses
      <4>1. /\ done + part.n < goal /\ done' = done + part.n /\ at' = [at EXCEPT ![part.reader] = 0]
            /\ UNCHANGED placeVars
        BY <3>6 DEF BackwardPasses, part
      <4>2. done' < goal' /\ done' <= goal' /\ done' # goal'
        BY <1>1, <2>2, <2>3, <4>1
      <4>3. SeekInv'
        BY <1>1, <2>1, <2>2, <2>5, <4>2 DEF SeekInv, MoreToAsk
      <4>4. InFile' /\ Back' = Back
        BY <3>1, <4>1 DEF InFile, Position, Back, placeVars
      <4>5. Back - processed' + 1 = part.reader /\ Back - processed' = part.reader - 1
        BY <1>1, <2>2, <2>4, <3>2
      <4>6. done' = index - Offset[Back - processed' + 1]
        <5>1. Offset[part.reader] \in Int /\ done' = index - Offset[part.reader]
          <6>1. /\ Offset[part.reader] \in Int /\ index \in Int /\ done \in Int /\ part.n \in Int
                /\ done' = done + part.n /\ Offset[part.reader] + part.n = index - done
            BY <2>2, <2>3, <2>4, <3>3, <4>1
          <6> QED
            BY <6>1
        <5> QED
          BY <4>5, <5>1
      <4>7. \A i \in Segments : i > Back - processed' => at'[i] = 0
        <5>1. \A i \in Segments : i > part.reader - 1 => i = part.reader \/ i > part.reader
          BY <2>4 DEF Segments
        <5> QED
          BY <2>3, <3>4, <4>1, <4>5, <5>1
      <4>8. BackwardInv'
        BY <1>1, <2>1, <2>2, <2>7, <4>1, <4>2, <4>3, <4>4, <4>6, <4>7 DEF BackwardInv, placeVars
      <4> QED
        BY <1>1, <4>8 DEF PlaceInv
    <3>7. ~BackwardIgnores
      BY <2>2, <2>7 DEF BackwardIgnores
    <3> QED
      BY <3>5, <3>6, <3>7
  <2> QED
    BY <2>1, <2>2, <2>6, <2>7 DEF SeekInv
<1> QED
  BY <1>2, <1>3

LEMMA SeekReturnPlaces ==
  ASSUME OrderInv, SeekReturn
  PROVE  PlaceInv'
<1>1. /\ phase \in {"forward", "backward"} /\ Finish /\ lost' = (lost \/ done < goal)
      /\ UNCHANGED <<known, at, placeVars>>
  BY DEF SeekReturn, Seeking
<1>2. CASE lost'
  BY <1>1, <1>2, FinishPlaces
<1>3. CASE ~lost'
  <2>1. ~lost /\ ~(done < goal) /\ done \in Int /\ goal \in Int
    BY <1>1, <1>3, PlaceTypes DEF OrderInv
  <2>2. SeekInv /\ (done = goal => Placed)
    BY <1>1, <2>1 DEF OrderInv, PlaceInv, ForwardInv, BackwardInv
  <2>3. Placed
    BY <2>1, <2>2 DEF SeekInv
  <2>4. Placed'
    BY <1>1, <2>3, PlacedFrame DEF OrderInv
  <2> QED
    BY <1>1, <2>4, FinishPlaces
<1> QED
  BY <1>2, <1>3

-----------------------------------------------------------------------------
LEMMA OrderStep ==
  ASSUME OrderInv, [MergerNext]_mergerVars
  PROVE  OrderInv'
<1>1. MergerInv'
  BY RequestStep, ReadSteps, RespondStep, SeekAskStep, SeekProcessStep, CallSteps
  DEF OrderInv, MergerNext, ReadStep, SeekStep
<1>2. PlaceInv'
  <2>1. CASE Caller
    BY <2>1, ReadBegins, SeekBegins, SeekEndPlaces, SeekEndFailsPlaces, EndSteps DEF Caller
  <2>2. CASE ReadStep
    BY <2>2, RequestPlaces, RequestedStep, ProcessPlaces, ReturnPlaces, RespondPlaces, EndSteps DEF ReadStep
  <2>3. CASE SeekStep
    BY <2>3, SeekAskPlaces, ForwardPlaces, BackwardPlaces, SeekReturnPlaces, SeekRespondPlaces, EndSteps DEF SeekStep
  <2>4. CASE UNCHANGED mergerVars \/ \E i \in Segments : OtherReads(i)
    <3>1. UNCHANGED <<at, placeVars, phase, callVars, lost>> /\ known \subseteq known'
      BY <2>4 DEF OtherReads, mergerVars, callVars, placeVars
    <3> QED
      BY <3>1, KnownGrows
  <2> QED
    BY <2>1, <2>2, <2>3, <2>4 DEF MergerNext
<1> QED
  BY <1>1, <1>2 DEF OrderInv

LEMMA OrderHolds == MergerSpec => []OrderInv
<1>1. MergerInit => OrderInv
  BY MergerInvInit, PlaceInvInit DEF OrderInv
<1> QED
  BY <1>1, OrderStep, PTL DEF MergerSpec

(* Between calls the place is the index, and the readers of the segments stand *)
(* where it says, whatever Reads and Seeks there were, in whatever order their *)
(* goroutines answered and whatever the hints said.                          *)
THEOREM AlignedCorrect == MergerSpec => []Aligned
<1>1. OrderInv => Aligned
  <2> SUFFICES ASSUME OrderInv, phase = "idle", ~lost PROVE Aligned
    BY DEF Aligned
  <2>1. Placed /\ readerIndex \in Nat /\ N \in Nat
    BY PlaceTypes DEF OrderInv, PlaceInv
  <2> QED
    BY <2>1 DEF Aligned, Placed, InFile, Segments
<1> QED
  BY <1>1, OrderHolds, PTL

(* The bytes of a Read are those that follow its index, in their order.      *)
THEOREM CopyCorrect == MergerSpec => []CopiesInOrder
<1>1. OrderInv => CopiesInOrder
  <2> SUFFICES ASSUME OrderInv, phase = "process", Ready({"data"})
               PROVE  parts[processed + 1].first = index
    BY DEF CopiesInOrder
  <2>1. processed < Len(parts) /\ processed + 1 \in 1 .. Len(parts) /\ parts[processed + 1].state = "data"
    BY PlaceTypes DEF OrderInv, Ready
  <2>2. Responds(parts[processed + 1])
    BY <2>1 DEF OrderInv, PlaceInv, ProcessInv, Requests
  <2> QED
    BY <2>1, <2>2, NextAtIndex DEF Responds
<1> QED
  BY <1>1, OrderHolds, PTL

(* Read tells the end of the file at its end only.                           *)
THEOREM MergerEndCorrect == MergerSpec => EndsAtEnd
<1>1. ASSUME OrderInv, ReadReturn,
             (LastEOF /\ parts[processed].reader = N) \/ (goal > 1 /\ done = 0)
      PROVE  index = Length
  <2> DEFINE part == parts[processed]
  <2>1. ProcessInv /\ Requests /\ processed = Len(parts) /\ Len(parts) \in Nat /\ index \in Int /\ goal \in Int
    BY <1>1, AllProcessed, PlaceTypes DEF ReadReturn, AllCopied, OrderInv, PlaceInv, ProcessInv
  <2>2. CASE parts = << >>
    <3>1. readerIndex = N + 1 /\ Position = index
      BY <2>1, <2>2 DEF ProcessInv, Placed, InFile
    <3>2. readerByteIndex = 0 /\ Offset[readerIndex] \in Nat /\ N \in Nat
      <4>1. N \in Nat /\ Offset[readerIndex] \in Nat
        BY <1>1, PlaceTypes DEF OrderInv
      <4>2. readerByteIndex # 0 => readerIndex <= N
        BY <1>1 DEF OrderInv, MergerInv, MergerType
      <4> QED
        BY <3>1, <4>1, <4>2
    <3> QED
      BY <3>1, <3>2 DEF Position, Length
  <2>3. CASE parts # << >>
    <3>1. processed \in 1 .. Len(parts) /\ processed \in 1 .. processed /\ processed > 0
          /\ parts \in Seq(PartRecord)
      <4>1. parts \in Seq(PartRecord)
        BY <1>1 DEF OrderInv, MergerInv, MergerType
      <4>2. Len(parts) > 0
        BY <2>1, <2>3, <4>1
      <4> QED
        BY <2>1, <4>1, <4>2
    <3>2. part.reader \in Segments /\ part.from \in Int /\ part.n \in Int /\ part.amount \in Int
      <4>1. \A k \in 1 .. Len(parts) :
              /\ parts[k].reader \in Segments
              /\ parts[k].from \in Int /\ parts[k].amount \in Int /\ parts[k].n \in Int
        BY <1>1, PartTypes DEF OrderInv
      <4> QED
        BY <3>1, <4>1
    <3>3. /\ SegmentSize(part.reader) \in Nat /\ SegmentSize(part.reader) >= 1 /\ Offset[part.reader] \in Nat
          /\ Offset[part.reader + 1] = Offset[part.reader] + SegmentSize(part.reader)
      BY <3>2, Lengths
    <3>4. part.state \in {"data", "eof"} /\ Responds(part)
      BY <2>1, <3>1 DEF ProcessInv, Requests
    <3>5. index = Offset[part.reader] + (part.from + part.n)
      BY <2>1, <3>1 DEF ProcessInv, Position
    <3>6. /\ part.n = Smaller(part.amount, SegmentSize(part.reader) - part.from) /\ part.amount >= 1
          /\ part.from <= SegmentSize(part.reader)
          /\ part.state = "eof" => part.n = 0
      BY <3>4 DEF Responds
    <3>7. part.n >= 0 /\ (part.n = 0 => part.from = SegmentSize(part.reader))
      <4> HIDE DEF part
      <4> QED
        BY <3>2, <3>3, <3>6 DEF Smaller
    <3>8. part.n = 0 /\ part.reader = N => index = Length
      <4> HIDE DEF part
      <4>1. part.n = 0 => index = Offset[part.reader] + SegmentSize(part.reader)
        BY <3>2, <3>3, <3>5, <3>7
      <4> QED
        BY <3>3, <4>1 DEF Length
    <3>9. CASE LastEOF /\ part.reader = N
      BY <3>6, <3>8, <3>9 DEF LastEOF
    <3>10. CASE goal > 1 /\ done = 0
      <4>1. Begin = index
        BY <2>1, <3>10 DEF Begin
      <4>2. CASE Len(parts) = 1
        <5>1. Offset[part.reader] + part.from = index
          BY <2>1, <4>1, <4>2 DEF Requests
        <5>2. part.n = 0
          <6> HIDE DEF part
          <6> QED
            BY <3>2, <3>3, <3>5, <5>1
        <5>3. part.from = SegmentSize(part.reader)
          BY <3>7, <5>2
        <5>4. expected = 1
          BY <2>1, <4>2, <5>3 DEF Requests
        <5>5. part.reader = N
          BY <2>1, <2>3, <3>10, <5>4 DEF ProcessInv
        <5> QED
          BY <3>8, <5>2, <5>5
      <4>3. CASE Len(parts) # 1
        <5>1. processed \in 2 .. Len(parts)
          BY <2>1, <3>1, <4>3
        <5>2. part.from = 0 /\ index <= Offset[part.reader]
          BY <2>1, <4>1, <5>1 DEF Requests
        <5>3. part.n >= 1
          BY <3>2, <3>3, <3>7, <5>2
        <5> HIDE DEF part
        <5> QED
          BY <2>1, <3>2, <3>3, <3>5, <5>2, <5>3
      <4> QED
        BY <4>2, <4>3
    <3> QED
      BY <1>1, <3>9, <3>10
  <2> QED
    BY <2>2, <2>3
<1>2. OrderInv => (ReadReturn /\ ((LastEOF /\ parts[processed].reader = N) \/ (goal > 1 /\ done = 0))
                     => index = Length)
  BY <1>1
<1> QED
  BY <1>2, OrderHolds, PTL DEF EndsAtEnd

=============================================================================
