--------------------------- MODULE ServingProofs ----------------------------
(***************************************************************************)
(* Proofs about Serving, for any number of calls, open files and lengths:    *)
(* an exit code of 0 means that everything is through (ExitCorrect), and a    *)
(* read of an open file has the bytes of its own offset (ReadsCorrect).      *)
(***************************************************************************)
EXTENDS Serving, TLAPS

-----------------------------------------------------------------------------
(* The exit code *)

WebRuns   == web \in {"new", "listening", "closed"}
MountRuns == mount \in {"new", "mounted", "lost", "unmounted"}

(* wg counts the services that have not returned; a file is open only while   *)
(* the mount is there, and nothing moves once main is over.                  *)
ExitInv ==
  /\ main \in {"starting", "serving", "stopping", "over"}
  /\ web \in {"off", "new", "listening", "closed", "returned"}
  /\ mount \in {"off", "new", "mounted", "lost", "unmounted", "returned"}
  /\ wg = (IF WebRuns THEN 1 ELSE 0) + (IF MountRuns THEN 1 ELSE 0)
  /\ open # {} => mount = "mounted" /\ main # "starting"
  /\ exit # -1 <=> main = "over"
  /\ exit = 0 => wg = 0

LEMMA ExitInit == ServingInit => ExitInv
BY DEF ServingInit, ExitInv, WebRuns, MountRuns

(* Of the steps of the kernel, those of a read leave all of it alone.        *)
LEMMA ExitKernel ==
  ASSUME ExitInv, Kernel
  PROVE  ExitInv'
<1>1. ASSUME NEW h \in Handles, Open(h) \/ Release(h)
      PROVE  ExitInv'
  BY <1>1 DEF ExitInv, WebRuns, MountRuns, Open, Release, IsMounted, Running, serverVars
<1>2. ASSUME NEW c \in Calls,
             \/ \E h \in Handles, off \in 0 .. Length, len \in 1 .. MaxLen : Read(c, h, off, len)
             \/ Lock(c) \/ Seek(c) \/ ReadSome(c) \/ ReadNothing(c) \/ Answered(c)
      PROVE  UNCHANGED <<serverVars, open>>
  BY <1>2 DEF Read, Lock, Seek, ReadSome, ReadNothing, Answered
<1>3. ASSUME UNCHANGED <<serverVars, open>>
      PROVE  ExitInv'
  BY <1>3 DEF ExitInv, WebRuns, MountRuns, serverVars
<1> QED
  BY <1>1, <1>2, <1>3 DEF Kernel

LEMMA ExitStep ==
  ASSUME ExitInv, [ServingNext]_servingVars
  PROVE  ExitInv'
<1> USE DEF ExitInv, WebRuns, MountRuns
<1>1. CASE StartFails
  BY <1>1 DEF StartFails, Exit, handleVars
<1>2. CASE Start
  BY <1>2 DEF Start, Services, handleVars
<1>3. CASE Signal
  BY <1>3 DEF Signal, handleVars
<1>4. CASE CleanShutdown
  BY <1>4 DEF CleanShutdown, Exit, handleVars
<1>5. CASE Timeout
  BY <1>5 DEF Timeout, Exit, handleVars
<1>6. CASE Listen
  BY <1>6 DEF Listen, Listening, ListenFails, CloseServer, ListenReturns, Running, ServiceDone, Exit, handleVars
<1>7. CASE Mount
  BY <1>7 DEF Mount, Mounted, MountFails, MountLost, Unmount, UnmountFails, MountReturns,
              Running, ServiceDone, Exit, handleVars
<1>8. CASE UnmountedOutside
  BY <1>8 DEF UnmountedOutside, Running, handleVars
<1>9. CASE Kernel
  BY <1>9, ExitKernel
<1>10. CASE UNCHANGED servingVars
  BY <1>10 DEF servingVars, serverVars, handleVars
<1> QED
  BY <1>1, <1>2, <1>3, <1>4, <1>5, <1>6, <1>7, <1>8, <1>9, <1>10 DEF ServingNext

(* The program ends with 0 only once Listen and Mount have returned and no    *)
(* file of the mount is open: main waits for as many services as it has begun.*)
THEOREM ExitCorrect == ServingSpec => []ExitZeroIsClean
<1>1. ExitInv => ExitZeroIsClean
  BY DEF ExitInv, ExitZeroIsClean, WebRuns, MountRuns
<1> QED
  BY <1>1, ExitInit, ExitStep, PTL DEF ServingSpec

-----------------------------------------------------------------------------
(* Reads *)

CallRecord ==
  [at : {"idle", "lock", "seek", "read", "done"}, h : Handles \cup {Nobody}, off : Nat, len : Nat,
   bytes : Seq(Nat), err : BOOLEAN]

ReadTypeOK ==
  /\ open \subseteq Handles
  /\ pos \in [Handles -> Nat]
  /\ mu \in [Handles -> Calls \cup {Nobody}]
  /\ call \in [Calls -> CallRecord]

(* Who is between its Seek and its Read holds the mutex of the handle, which  *)
(* is open: no other call moves the position in between, nor does Open.      *)
HoldsHandle ==
  \A c \in Calls :
    /\ call[c].at # "idle" => call[c].h \in open
    /\ call[c].at \in {"seek", "read"} => mu[call[c].h] = c
    /\ call[c].at = "read" => pos[call[c].h] = call[c].off

ReadInv == ReadTypeOK /\ HoldsHandle /\ ReadsOwnOffset

LEMMA ReadInit == ServingInit => ReadInv
<1> SUFFICES ASSUME ServingInit PROVE ReadInv
  OBVIOUS
<1>1. NoCall \in CallRecord
  BY DEF NoCall, CallRecord
<1>2. ReadTypeOK
  BY <1>1 DEF ServingInit, ReadTypeOK
<1>3. HoldsHandle /\ ReadsOwnOffset
  BY DEF ServingInit, HoldsHandle, ReadsOwnOffset, NoCall
<1> QED
  BY <1>2, <1>3 DEF ReadInv

(* A call that returns has a record of the type, and the mutex is free.      *)
LEMMA ReturnKeeps ==
  ASSUME ReadInv, NEW c \in Calls, call[c].at \in {"seek", "read"},
         NEW bytes \in Seq(Nat), NEW err \in BOOLEAN, Return(c, bytes, err),
         pos' \in [Handles -> Nat], open' = open,
         \A h \in Handles \ {call[c].h} : pos'[h] = pos[h],
         ~err => /\ bytes = [k \in 1 .. Len(bytes) |-> call[c].off + k]
                 /\ bytes = << >> => call[c].off >= Length
  PROVE  ReadInv'
<1>1. call[c] \in CallRecord /\ call[c].h \in Handles
  BY DEF ReadInv, ReadTypeOK, HoldsHandle
<1>2. ReadTypeOK'
  BY <1>1 DEF ReadInv, ReadTypeOK, Return, CallRecord
<1>3. /\ call'[c].at = "done" /\ call'[c].h = call[c].h /\ call'[c].off = call[c].off
      /\ call'[c].bytes = bytes /\ call'[c].err = err
      /\ \A d \in Calls \ {c} : call'[d] = call[d]
      /\ \A h \in Handles \ {call[c].h} : mu'[h] = mu[h]
  BY <1>1 DEF ReadInv, ReadTypeOK, Return, CallRecord
<1>4. HoldsHandle'
  <2>1. ASSUME NEW d \in Calls \ {c}, call[d].at \in {"seek", "read"}
        PROVE  call[d].h \in Handles \ {call[c].h}
    BY <2>1 DEF ReadInv, ReadTypeOK, HoldsHandle
  <2> QED
    BY <1>1, <1>3, <2>1 DEF ReadInv, HoldsHandle
<1>5. ReadsOwnOffset'
  <2>1. ASSUME NEW d \in Calls \ {c}, call'[d].at = "done", ~call'[d].err
        PROVE  /\ call'[d].bytes = [k \in 1 .. Len(call'[d].bytes) |-> call'[d].off + k]
               /\ call'[d].bytes = << >> => call'[d].off >= Length
    BY <1>3, <2>1 DEF ReadInv, ReadsOwnOffset
  <2>2. ASSUME ~call'[c].err
        PROVE  /\ call'[c].bytes = [k \in 1 .. Len(call'[c].bytes) |-> call'[c].off + k]
               /\ call'[c].bytes = << >> => call'[c].off >= Length
    BY <1>3, <2>2
  <2> QED
    BY <2>1, <2>2 DEF ReadsOwnOffset
<1> QED
  BY <1>2, <1>4, <1>5 DEF ReadInv

LEMMA ReadKernel ==
  ASSUME ReadInv, Kernel
  PROVE  ReadInv'
<1> USE ServingAssumption
<1>1. ASSUME NEW h \in Handles, Open(h)
      PROVE  ReadInv'
  BY <1>1 DEF ReadInv, ReadTypeOK, HoldsHandle, ReadsOwnOffset, Open
<1>2. ASSUME NEW h \in Handles, Release(h)
      PROVE  ReadInv'
  BY <1>2 DEF ReadInv, ReadTypeOK, HoldsHandle, ReadsOwnOffset, Release
<1>3. ASSUME NEW c \in Calls, NEW h \in Handles, NEW off \in 0 .. Length, NEW len \in 1 .. MaxLen,
             Read(c, h, off, len)
      PROVE  ReadInv'
  <2>1. call'[c] = [at |-> "lock", h |-> h, off |-> off, len |-> len, bytes |-> << >>, err |-> FALSE]
    BY <1>3 DEF ReadInv, ReadTypeOK, Read, NoCall
  <2>2. call'[c] \in CallRecord
    BY <2>1 DEF CallRecord
  <2> QED
    BY <1>3, <2>1, <2>2 DEF ReadInv, ReadTypeOK, HoldsHandle, ReadsOwnOffset, Read
<1>4. ASSUME NEW c \in Calls, Lock(c)
      PROVE  ReadInv'
  <2>1. call[c].h \in Handles /\ call[c] \in CallRecord
    BY <1>4 DEF ReadInv, ReadTypeOK, HoldsHandle, Lock
  <2>2. /\ call' = [call EXCEPT ![c] = call'[c]]
        /\ call'[c] \in CallRecord
        /\ call'[c].at = "seek" /\ call'[c].h = call[c].h
    BY <1>4, <2>1 DEF ReadInv, ReadTypeOK, Lock, CallRecord
  <2> QED
    BY <1>4, <2>1, <2>2 DEF ReadInv, ReadTypeOK, HoldsHandle, ReadsOwnOffset, Lock
<1>5. ASSUME NEW c \in Calls, Seek(c)
      PROVE  ReadInv'
  <2>0. call[c].h \in Handles /\ call[c] \in CallRecord /\ call[c].at = "seek"
    BY <1>5 DEF ReadInv, ReadTypeOK, HoldsHandle, Seek
  <2>1. CASE Return(c, << >>, TRUE) /\ UNCHANGED pos
    <3>1. /\ pos' = pos /\ open' = open /\ pos' \in [Handles -> Nat]
          /\ << >> \in Seq(Nat) /\ TRUE \in BOOLEAN
      BY <1>5, <2>1 DEF Seek, ReadInv, ReadTypeOK
    <3> QED
      BY <2>0, <2>1, <3>1, ReturnKeeps
  <2>2. CASE /\ pos' = [pos EXCEPT ![call[c].h] = call[c].off]
             /\ call' = [call EXCEPT ![c].at = "read"]
             /\ UNCHANGED mu
    <3>1. /\ call' = [call EXCEPT ![c] = call'[c]]
          /\ call'[c] \in CallRecord
          /\ call'[c].at = "read" /\ call'[c].h = call[c].h /\ call'[c].off = call[c].off
      BY <2>0, <2>2 DEF ReadInv, ReadTypeOK, CallRecord
    <3>2. call[c].off \in Nat
      BY <2>0 DEF CallRecord
    <3>3. ASSUME NEW d \in Calls \ {c}, call[d].at \in {"seek", "read"}
          PROVE  call[d].h # call[c].h
      BY <2>0, <3>3 DEF ReadInv, HoldsHandle
    <3> QED
      BY <1>5, <2>0, <2>2, <3>1, <3>2, <3>3 DEF ReadInv, ReadTypeOK, HoldsHandle, ReadsOwnOffset, Seek
  <2> QED
    BY <1>5, <2>1, <2>2 DEF Seek
<1>6. ASSUME NEW c \in Calls, ReadSome(c)
      PROVE  ReadInv'
  <2>0. /\ call[c].h \in Handles /\ call[c] \in CallRecord /\ call[c].at = "read"
        /\ pos[call[c].h] = call[c].off /\ call[c].off \in Nat
    BY <1>6 DEF ReadInv, ReadTypeOK, HoldsHandle, ReadSome, CallRecord
  <2>1. PICK n \in 1 .. call[c].len :
          /\ pos' = [pos EXCEPT ![call[c].h] = @ + n]
          /\ Return(c, [k \in 1 .. n |-> pos[call[c].h] + k], FALSE)
    BY <1>6 DEF ReadSome
  <2>2. n \in Nat \ {0}
    BY <2>0, <2>1 DEF CallRecord
  <2> DEFINE bytes == [k \in 1 .. n |-> call[c].off + k]
  <2>3. bytes \in Seq(Nat) /\ Len(bytes) = n /\ bytes # << >>
    BY <2>0, <2>2
  <2>4. pos' \in [Handles -> Nat] /\ \A h \in Handles \ {call[c].h} : pos'[h] = pos[h]
    BY <2>0, <2>1, <2>2 DEF ReadInv, ReadTypeOK
  <2>5. open' = open
    BY <1>6 DEF ReadSome
  <2>6. Return(c, bytes, FALSE)
    BY <2>0, <2>1
  <2> HIDE DEF bytes
  <2>7. bytes = [k \in 1 .. Len(bytes) |-> call[c].off + k]
    BY <2>3 DEF bytes
  <2> QED
    BY <2>0, <2>3, <2>4, <2>5, <2>6, <2>7, ReturnKeeps
<1>7. ASSUME NEW c \in Calls, ReadNothing(c)
      PROVE  ReadInv'
  <2>0. /\ call[c].at = "read" /\ pos[call[c].h] = call[c].off
        /\ pos' = pos /\ open' = open /\ pos' \in [Handles -> Nat]
    BY <1>7 DEF ReadInv, ReadTypeOK, HoldsHandle, ReadNothing
  <2>1. << >> \in Seq(Nat) /\ << >> = [k \in 1 .. Len(<< >>) |-> call[c].off + k]
    OBVIOUS
  <2>2. CASE Return(c, << >>, TRUE)
    BY <2>0, <2>1, <2>2, ReturnKeeps
  <2>3. CASE pos[call[c].h] >= Length /\ Return(c, << >>, FALSE)
    BY <2>0, <2>1, <2>3, ReturnKeeps
  <2> QED
    BY <1>7, <2>2, <2>3 DEF ReadNothing
<1>8. ASSUME NEW c \in Calls, Answered(c)
      PROVE  ReadInv'
  <2>1. NoCall \in CallRecord /\ NoCall.at = "idle"
    BY DEF NoCall, CallRecord
  <2> QED
    BY <1>8, <2>1 DEF ReadInv, ReadTypeOK, HoldsHandle, ReadsOwnOffset, Answered
<1> QED
  BY <1>1, <1>2, <1>3, <1>4, <1>5, <1>6, <1>7, <1>8 DEF Kernel

(* Reads of a file that is open, any number of them at a time, each get the    *)
(* bytes at their own offsets: the mutex is held from the Seek to the Read.   *)
THEOREM ReadsCorrect == ServingSpec => []ReadsOwnOffset
<1>1. ASSUME ReadInv, [ServingNext]_servingVars
      PROVE  ReadInv'
  <2>1. CASE UNCHANGED handleVars
    BY <1>1, <2>1 DEF ReadInv, ReadTypeOK, HoldsHandle, ReadsOwnOffset, handleVars
  <2>2. CASE Kernel
    BY <1>1, <2>2, ReadKernel
  <2>3. UNCHANGED handleVars \/ Kernel
    BY <1>1 DEF ServingNext, servingVars, StartFails, Start, Signal, CleanShutdown, Timeout, UnmountedOutside,
                Listen, Listening, ListenFails, CloseServer, ListenReturns,
                Mount, Mounted, MountFails, MountLost, Unmount, UnmountFails, MountReturns
  <2> QED
    BY <2>1, <2>2, <2>3
<1>2. ReadInv => ReadsOwnOffset
  BY DEF ReadInv
<1> QED
  BY <1>1, <1>2, ReadInit, PTL DEF ServingSpec

=============================================================================
