--------------------------- MODULE ParallelMerger ---------------------------
(***************************************************************************)
(* pkg/resource/adaptiveparallelmergerresource: a file read from its        *)
(* segments, several at a time, one goroutine each; the responses are       *)
(* merged in the order of the segments. A segment's size is a hint until    *)
(* somebody has read the segment.                                           *)
(*                                                                         *)
(* The segments are FullCacheResources, whose size is accurate after the    *)
(* first Read, so that one Read of a segment suffices (:221). Bytes are     *)
(* named by their offsets in the file.                                      *)
(***************************************************************************)
EXTENDS Integers, Sequences

CONSTANTS
  N,       \* number of segments
  Offset,  \* Offset[i]: where segment i begins; Offset[N + 1]: the length of the file
  Hint,    \* Hint[i]: what Size says of segment i before anybody has read it
  MaxRead, \* a bound on the length of a Read
  Faults   \* "read": a Read of a segment may fail, "fill": also after more than it was asked

ASSUME MergerAssumption ==
  /\ N \in Nat \ {0} /\ MaxRead \in Nat
  /\ Offset \in [1 .. N + 1 -> Nat] /\ Offset[1] = 0
  /\ \A i \in 1 .. N : Offset[i] < Offset[i + 1]
  /\ Hint \in [1 .. N -> Nat] /\ \A i \in 1 .. N : Hint[i] >= Offset[i + 1] - Offset[i]
  /\ Faults \subseteq {"read", "fill"}

VARIABLES
  known,           \* the segments that were read before
  at,              \* the position of the reader of each segment
  index,
  readerIndex,     \* N + 1 at the end
  readerByteIndex,
  phase,           \* what holds the mutex, and where it is
  goal,            \* len(p), or seekAmount
  expected,        \* expectedTotalRead, expectedTotalSeek
  done,            \* totalRead, totalSeeked
  next,            \* readerIndex and readerByteIndex of a Seek's loop
  parts,           \* requests and responses
  processed,       \* processIndex
  lost             \* has the reader lost its place? (see below)

placeVars == <<index, readerIndex, readerByteIndex>>
callVars  == <<goal, expected, done, next, parts, processed>>
mergerVars == <<known, at, placeVars, phase, callVars, lost>>

-----------------------------------------------------------------------------
Segments == 1 .. N
Length   == Offset[N + 1]

Smaller(a, b) == IF a < b THEN a ELSE b
Larger(a, b)  == IF a < b THEN b ELSE a

SegmentSize(i) == Offset[i + 1] - Offset[i]
Size(i)        == IF i \in known THEN SegmentSize(i) ELSE Hint[i]

(* Where readerIndex and readerByteIndex are in the file. *)
Position == Offset[readerIndex] + readerByteIndex

Part(i, from, amount) ==
  [reader |-> i, from |-> from, amount |-> amount, state |-> "running", n |-> 0, first |-> 0]

Answer(k, state, n, first) ==
  parts' = [parts EXCEPT ![k].state = state, ![k].n = n, ![k].first = first]

Running(k) == k \in 1 .. Len(parts) /\ parts[k].state = "running"

(* The call has returned, and the mutex is free again. *)
Finish ==
  /\ phase' = "idle"
  /\ goal' = 0 /\ expected' = 0 /\ done' = 0 /\ next' = <<1, 0>>
  /\ parts' = << >> /\ processed' = 0

(* What a reader does that has lost its place is not followed any further: it *)
(* returned an error, went past the end, stopped at the end of a segment, or  *)
(* went to the end from the end.                                              *)
Callable == phase = "idle" /\ ~lost

Enter(to, amount) ==
  /\ phase' = to
  /\ goal' = amount
  /\ UNCHANGED <<expected, done, processed>>

-----------------------------------------------------------------------------
(* Read *)

ReadBegin(n) ==
  /\ Callable
  /\ Enter("request", n)
  /\ UNCHANGED <<known, at, placeVars, next, parts, lost>>

MoreToRequest == expected < goal /\ readerIndex <= N

(* Faulty: a segment that is asked for all it has left is not left behind.  *)
RequestStays ==
  LET left   == Larger(0, Size(readerIndex) - readerByteIndex)
      amount == Larger(1, Smaller(left, goal - expected)) IN
  /\ phase = "request" /\ MoreToRequest
  /\ parts' = Append(parts, Part(readerIndex, readerByteIndex, amount))
  /\ expected' = expected + amount
  /\ IF amount <= left
     THEN readerByteIndex' = readerByteIndex + amount /\ UNCHANGED readerIndex
     ELSE readerByteIndex' = 0 /\ readerIndex' = readerIndex + 1
  /\ UNCHANGED <<known, at, index, phase, goal, done, next, processed, lost>>

(* The goroutine of one segment is started, for at least one byte.          *)
Request ==
  LET left   == Larger(0, Size(readerIndex) - readerByteIndex)
      amount == Larger(1, Smaller(left, goal - expected)) IN
  /\ phase = "request" /\ MoreToRequest
  /\ parts' = Append(parts, Part(readerIndex, readerByteIndex, amount))
  /\ expected' = expected + amount
  /\ IF amount < left
     THEN readerByteIndex' = readerByteIndex + amount /\ UNCHANGED readerIndex
     ELSE readerByteIndex' = 0 /\ readerIndex' = readerIndex + 1
  /\ UNCHANGED <<known, at, index, phase, goal, done, next, processed, lost>>

Requested ==
  /\ phase = "request" /\ ~MoreToRequest
  /\ phase' = "process"
  /\ UNCHANGED <<known, at, placeVars, callVars, lost>>

Reading == phase \in {"request", "process", "drain", "wait"}

(* Faulty: the end is one byte early. *)
RespondEOFEarly(k) ==
  LET i == parts[k].reader IN
  /\ Reading /\ Running(k)
  /\ at[i] + 1 >= Size(i)
  /\ Answer(k, "eof", 0, 0)
  /\ UNCHANGED <<known, at, placeVars, phase, goal, expected, done, next, processed, lost>>

(* FullCacheResourceReader.Read: io.EOF where its size says so.             *)
RespondEOF(k) ==
  LET i == parts[k].reader IN
  /\ Reading /\ Running(k)
  /\ at[i] >= Size(i)
  /\ Answer(k, "eof", 0, 0)
  /\ UNCHANGED <<known, at, placeVars, phase, goal, expected, done, next, processed, lost>>

Respond(k) ==
  LET i == parts[k].reader
      n == Smaller(parts[k].amount, SegmentSize(i) - at[i]) IN
  /\ Reading /\ Running(k)
  /\ at[i] < Size(i)
  /\ IF n > 0 THEN Answer(k, "data", n, Offset[i] + at[i]) ELSE Answer(k, "eof", 0, 0)
  /\ at' = [at EXCEPT ![i] = @ + n]
  /\ known' = known \cup {i}
  /\ UNCHANGED <<placeVars, phase, goal, expected, done, next, processed, lost>>

RespondError(k) ==
  /\ Reading /\ Running(k) /\ "read" \in Faults
  /\ Answer(k, "error", 0, 0)
  /\ UNCHANGED <<known, at, placeVars, phase, goal, expected, done, next, processed, lost>>

(* A fill that failed says how many bytes it cached, be it more than the     *)
(* buffer holds (FullCacheResource.go:206): buf[:totalN] panics.             *)
RespondPanics(k) ==
  /\ Reading /\ Running(k) /\ "fill" \in Faults
  /\ parts[k].reader \notin known
  /\ phase' = "down"
  /\ UNCHANGED <<known, at, placeVars, callVars, lost>>

Ready(state) == processed < Len(parts) /\ parts[processed + 1].state \in state

(* Faulty: whichever response is there first is taken. *)
ProcessUnordered ==
  \E k \in 1 .. Len(parts) :
    /\ phase = "process" /\ done < goal /\ processed < Len(parts)
    /\ k > processed /\ parts[k].state \in {"data", "eof"}
    /\ done' = done + parts[k].n
    /\ index' = index + parts[k].n
    /\ readerIndex' = parts[k].reader
    /\ readerByteIndex' = parts[k].from + parts[k].n
    /\ processed' = processed + 1
    /\ parts' = [parts EXCEPT ![processed + 1] = parts[k], ![k] = parts[processed + 1]]
    /\ UNCHANGED <<known, at, phase, goal, expected, next, lost>>

(* A response is copied to p. No response is longer than what was asked, so  *)
(* that all of it fits.                                                      *)
Process ==
  LET part == parts[processed + 1] IN
  /\ phase = "process" /\ done < goal /\ Ready({"data", "eof"})
  /\ done' = done + part.n
  /\ index' = index + part.n
  /\ readerIndex' = part.reader
  /\ readerByteIndex' = part.from + part.n
  /\ processed' = processed + 1
  /\ UNCHANGED <<known, at, phase, goal, expected, next, parts, lost>>

(* Read returns 0 bytes and the error, wherever the loop of the requests and *)
(* the responses before have left the place.                                 *)
ReadError ==
  /\ phase = "process" /\ done < goal /\ Ready({"error"})
  /\ phase' = "drain"
  /\ lost' = TRUE
  /\ UNCHANGED <<known, at, placeVars, callVars>>

AllCopied == phase = "process" /\ (done = goal \/ processed = Len(parts))
LastEOF   == processed > 0 /\ parts[processed].state = "eof"

(* Read returns. Each part is expected to give what it was asked, so when    *)
(* goal is reached all have been processed.                                  *)
ReadReturn ==
  /\ AllCopied
  /\ IF LastEOF
     THEN readerIndex' = readerIndex + 1 /\ readerByteIndex' = 0
     ELSE UNCHANGED <<readerIndex, readerByteIndex>>
  /\ Finish
  /\ UNCHANGED <<known, at, index, lost>>

(* The deferred function: the readers of responses that nobody processed go  *)
(* back to their start, but for those still to come, which are skipped.      *)
Drain ==
  LET late == {parts[k].reader : k \in {j \in processed + 1 .. Len(parts) : ~Running(j)}} IN
  /\ phase = "drain"
  /\ at' = [i \in Segments |-> IF i \in late THEN 0 ELSE at[i]]
  /\ processed' = Len(parts)
  /\ phase' = "wait"
  /\ UNCHANGED <<known, placeVars, goal, expected, done, next, parts, lost>>

(* Faulty: the mutex is kept after an error. *)
UnlockUnlessError ==
  /\ phase = "wait" /\ \A k \in 1 .. Len(parts) : parts[k].state \in {"data", "eof"}
  /\ Finish
  /\ UNCHANGED <<known, at, placeVars, lost>>

(* group.Wait, and the mutex is released. *)
Unlock ==
  /\ phase = "wait" /\ \A k \in 1 .. Len(parts) : ~Running(k)
  /\ Finish
  /\ UNCHANGED <<known, at, placeVars, lost>>

-----------------------------------------------------------------------------
(* Seek *)

SeekForward(amount) ==
  /\ Enter("forward", amount)
  /\ next' = <<readerIndex, readerByteIndex>>
  /\ UNCHANGED parts

(* The bytes before the position in its segment need no response. *)
SeekBackward(amount) ==
  /\ Enter("backward", amount)
  /\ next' = <<readerIndex - 1, 0>>
  /\ parts' = IF readerByteIndex > 0
              THEN << [reader |-> readerIndex, from |-> 0, amount |-> 0, state |-> "data",
                       n |-> readerByteIndex, first |-> 0] >>
              ELSE << >>

(* Seek from the start, or from where the reader is. *)
Seek(newIndex) ==
  /\ Callable /\ newIndex # index
  /\ IF index < newIndex THEN SeekForward(newIndex - index) ELSE SeekBackward(index - newIndex)
  /\ UNCHANGED <<known, at, placeVars, lost>>

(* seekToEnd: the readers from the current one on go to their ends. After    *)
(* the end there is none, and readerByteIndex stays 0.                       *)
SeekToEnd ==
  /\ readerIndex' = N
  /\ readerByteIndex' = IF readerIndex <= N THEN SegmentSize(N) ELSE readerByteIndex
  /\ at' = [i \in Segments |-> IF i >= readerIndex THEN SegmentSize(i) ELSE at[i]]
  /\ known' = known \cup (readerIndex .. N)
  /\ index' = index + (Length - Position)

(* Seek to the end, from where the caller may go on with a Seek backwards.   *)
SeekEnd ==
  /\ Callable
  /\ SeekToEnd
  /\ lost' = (readerIndex > N)
  /\ UNCHANGED <<phase, callVars>>

(* Some of them, which cannot be loaded, do not find their ends, while others *)
(* have gone there. The readerGroup keeps the error for all later ones.       *)
SeekEndFails ==
  \E failed \in SUBSET ((readerIndex .. N) \ known) \ {{}} :
    LET ended == (readerIndex .. N) \ failed IN
    /\ Callable /\ "read" \in Faults
    /\ at' = [i \in Segments |-> IF i \in ended THEN SegmentSize(i) ELSE at[i]]
    /\ known' = known \cup ended
    /\ readerByteIndex' = IF N \in ended THEN SegmentSize(N) ELSE readerByteIndex
    /\ lost' = TRUE
    /\ UNCHANGED <<index, readerIndex, phase, callVars>>

Seeking == phase \in {"forward", "backward"}

MoreToAsk ==
  /\ expected < goal
  /\ IF phase = "forward" THEN next[1] <= N ELSE next[1] >= 1

(* The goroutine that looks for the end of one segment. *)
SeekAsk ==
  LET i == next[1] IN
  /\ Seeking /\ MoreToAsk
  /\ parts' = Append(parts, Part(i, next[2], 0))
  /\ expected' = expected + Larger(0, Size(i) - next[2])
  /\ next' = <<IF phase = "forward" THEN i + 1 ELSE i - 1, 0>>
  /\ UNCHANGED <<known, at, placeVars, phase, goal, done, processed, lost>>

SeekRespond(k) ==
  LET i == parts[k].reader IN
  /\ Seeking /\ Running(k)
  /\ Answer(k, "data", SegmentSize(i) - parts[k].from, 0)
  /\ at' = [at EXCEPT ![i] = SegmentSize(i)]
  /\ known' = known \cup {i}
  /\ UNCHANGED <<placeVars, phase, goal, expected, done, next, processed, lost>>

(* The reader of segment i is where the Seek goes. *)
Land(i, byte, newIndex) ==
  /\ at' = [at EXCEPT ![i] = byte]
  /\ readerIndex' = i
  /\ readerByteIndex' = byte
  /\ index' = newIndex
  /\ done' = goal

SeekProcess == Seeking /\ ~MoreToAsk /\ Ready({"data"}) /\ processed' = processed + 1

(* The response after which the goal is exceeded. *)
ForwardLands ==
  LET part   == parts[processed + 1]
      before == IF readerIndex = part.reader THEN readerByteIndex ELSE 0 IN
  /\ SeekProcess /\ phase = "forward"
  /\ done < goal /\ done + part.n > goal
  /\ Land(part.reader, goal - done + before, index + goal)
  /\ UNCHANGED <<known, phase, goal, expected, next, parts, lost>>

(* A response that ends exactly at the goal does not land either (:481): the *)
(* place stays what it was before the Seek. It is the last one: no segment is *)
(* asked that hints, none of which is too small, do not call for, so that    *)
(* none has to go back (:499).                                               *)
ForwardPasses ==
  LET part == parts[processed + 1] IN
  /\ SeekProcess /\ phase = "forward"
  /\ done < goal /\ done + part.n <= goal
  /\ done' = done + part.n
  /\ lost' = (lost \/ done + part.n = goal)
  /\ UNCHANGED <<known, at, placeVars, phase, goal, expected, next, parts>>

(* The response that reaches the goal. *)
BackwardLands ==
  LET part == parts[processed + 1] IN
  /\ SeekProcess /\ phase = "backward"
  /\ done < goal /\ done + part.n >= goal
  /\ Land(part.reader, done + part.n - goal, index - goal)
  /\ UNCHANGED <<known, phase, goal, expected, next, parts, lost>>

(* Faulty: the readers on the way stay where they are. *)
BackwardPassesBy ==
  LET part == parts[processed + 1] IN
  /\ SeekProcess /\ phase = "backward"
  /\ done < goal /\ done + part.n < goal
  /\ done' = done + part.n
  /\ UNCHANGED <<known, at, placeVars, phase, goal, expected, next, parts, lost>>

BackwardPasses ==
  LET part == parts[processed + 1] IN
  /\ SeekProcess /\ phase = "backward"
  /\ done < goal /\ done + part.n < goal
  /\ done' = done + part.n
  /\ at' = [at EXCEPT ![part.reader] = 0]
  /\ UNCHANGED <<known, placeVars, phase, goal, expected, next, parts, lost>>

BackwardIgnores ==
  /\ SeekProcess /\ phase = "backward"
  /\ done = goal
  /\ UNCHANGED <<known, at, placeVars, phase, goal, expected, done, next, parts, lost>>

(* The loops end when goal is reached or no reader is left. A goal that the  *)
(* hints have reached and the segments have not ends neither loop.           *)
SeekReturn ==
  /\ Seeking /\ processed = Len(parts)
  /\ done >= goal \/ (IF phase = "forward" THEN next[1] > N ELSE next[1] < 1)
  /\ Finish
  /\ lost' = (lost \/ done < goal)
  /\ UNCHANGED <<known, at, placeVars>>

(* The end of a segment that cannot be loaded is not found, and Seek returns *)
(* although other goroutines still look.                                     *)
SeekRespondError(k) ==
  /\ Seeking /\ Running(k) /\ "read" \in Faults
  /\ parts[k].reader \notin known
  /\ Answer(k, "error", 0, 0)
  /\ UNCHANGED <<known, at, placeVars, phase, goal, expected, done, next, processed, lost>>

SeekError ==
  /\ Seeking /\ ~MoreToAsk /\ Ready({"error"})
  /\ Finish
  /\ lost' = TRUE
  /\ UNCHANGED <<known, at, placeVars>>

-----------------------------------------------------------------------------
(* Another reader of the file reads a segment, which makes its size known.   *)
OtherReads(i) ==
  /\ phase # "down"
  /\ known' = known \cup {i}
  /\ UNCHANGED <<at, placeVars, phase, callVars, lost>>

(* The caller is through with the reader, wherever it is.                    *)
Close ==
  /\ phase = "idle"
  /\ phase' = "closed"
  /\ UNCHANGED <<known, at, placeVars, callVars, lost>>

(* The next reader of the file begins at its start, and with the sizes that   *)
(* the ones before it have made known.                                       *)
Open ==
  /\ phase = "closed"
  /\ phase' = "idle"
  /\ at' = [i \in Segments |-> 0]
  /\ index' = 0 /\ readerIndex' = 1 /\ readerByteIndex' = 0
  /\ lost' = FALSE
  /\ UNCHANGED <<known, callVars>>

MergerInit ==
  /\ known \in SUBSET Segments
  /\ at = [i \in Segments |-> 0]
  /\ index = 0 /\ readerIndex = 1 /\ readerByteIndex = 0
  /\ phase = "idle" /\ lost = FALSE
  /\ goal = 0 /\ expected = 0 /\ done = 0 /\ next = <<1, 0>>
  /\ parts = << >> /\ processed = 0

Caller ==
  \/ \E n \in 1 .. MaxRead : ReadBegin(n)
  \/ \E newIndex \in 0 .. Length + 1 : Seek(newIndex)
  \/ SeekEnd \/ SeekEndFails \/ Close \/ Open

ReadStep ==
  \/ Request \/ Requested \/ Process \/ ReadError \/ ReadReturn \/ Drain \/ Unlock
  \/ \E k \in 1 .. Len(parts) :
       RespondEOF(k) \/ Respond(k) \/ RespondError(k) \/ RespondPanics(k)

SeekStep ==
  \/ SeekAsk \/ ForwardLands \/ ForwardPasses
  \/ BackwardLands \/ BackwardPasses \/ BackwardIgnores \/ SeekReturn \/ SeekError
  \/ \E k \in 1 .. Len(parts) : SeekRespond(k) \/ SeekRespondError(k)

MergerNext == Caller \/ ReadStep \/ SeekStep \/ \E i \in Segments : OtherReads(i)

MergerSpec == MergerInit /\ [][MergerNext]_mergerVars

(* Goroutines run on. *)
FairMergerSpec == MergerSpec /\ WF_mergerVars(ReadStep) /\ WF_mergerVars(SeekStep)

-----------------------------------------------------------------------------
(* Properties *)

(* Between calls the place is the index, the current segment's reader stands *)
(* at it, and those of later segments stand at their start: whatever order   *)
(* the goroutines of Reads and Seeks came in, and whatever hints they used.  *)
Aligned ==
  phase = "idle" /\ ~lost =>
    /\ Position = index
    /\ readerIndex <= N => at[readerIndex] = readerByteIndex
    /\ \A i \in readerIndex + 1 .. N : at[i] = 0

(* The bytes copied next are those at index: no segment is skipped, read     *)
(* twice or out of order, where no hint is smaller than its segment.         *)
CopiesInOrder ==
  phase = "process" /\ done < goal /\ Ready({"data"}) => parts[processed + 1].first = index

(* A segment has one reader: no two goroutines read from it at once.         *)
OneGoroutineEach ==
  \A j, k \in 1 .. Len(parts) : parts[j].reader = parts[k].reader => j = k

(* Read reports the end of the file at the end only, and a Read of more than *)
(* one byte returns nothing only there.                                      *)
EndsAtEnd ==
  [][ReadReturn /\ ((LastEOF /\ parts[processed].reader = N) \/ (goal > 1 /\ done = 0))
       => index = Length]_mergerVars

(* Every Read returns and releases the mutex. *)
MergerReadReturns == Reading ~> ~Reading

-----------------------------------------------------------------------------
(* What comments say, and the code does not do *)

(* "can handle their size to be unknown"                                     *)
(* (AdaptiveParallelMergerResource.go:17): every Seek returns, also where    *)
(* the hints are larger than the segments.                                   *)
SeekReturns == Seeking ~> ~Seeking

=============================================================================
