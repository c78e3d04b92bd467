------------------------------ MODULE Serving -------------------------------
(***************************************************************************)
(* The program from start to end, and the reads of the files of its mount:  *)
(* cmd/nzbstreamer/main.go starts the presenters as services of             *)
(* pkg/ShutdownManager, webdav.Listen and fusemount's Mount run until its   *)
(* context is cancelled; internal/presentation/fusemount/fs.go answers the  *)
(* kernel through go-fuse, each Read of an open file by a ReadSeekerAt      *)
(* (pkg/readeratwrapper), which makes reads at offsets of a reader with a   *)
(* position.                                                                 *)
(*                                                                         *)
(* The bytes of a file are named by their offsets, 1 .. Length.             *)
(***************************************************************************)
EXTENDS Integers, Sequences, FiniteSets

CONSTANTS
  Calls,   \* calls of the kernel that are answered at a time
  Handles, \* of open files
  Length,  \* of every file
  MaxLen,  \* a bound on what a read asks for
  Nobody

ASSUME ServingAssumption == Length \in Nat /\ MaxLen \in Nat /\ Nobody \notin Calls

VARIABLES
  main,    \* "starting", "serving", "stopping" (Shutdown), or "over"
  exit,    \* the exit code
  web,     \* what Listen is about: "off", "new", "listening", "closed", "returned"
  mount,   \* what Mount is about: "off", "new", "mounted", "lost", "unmounted", "returned"
  wg,      \* services of the WaitGroup
  open,    \* the handles that are open
  pos,     \* pos[h]: the position of the reader of h
  mu,      \* mu[h]: who holds ReadSeekerAt.mu
  call     \* call[c]: [at, h, off, len, bytes, err]

serverVars == <<main, exit, web, mount, wg>>
handleVars == <<open, pos, mu, call>>
servingVars == <<serverVars, handleVars>>

-----------------------------------------------------------------------------
(* main and ShutdownManager *)

Exit(code) == main' = "over" /\ exit' = code

(* Faulty: the mount is not counted. *)
OnlyListen(w, m) == IF w = "new" THEN 1 ELSE 0

(* AddService for each presenter that is configured. *)
Services(w, m) == (IF w = "new" THEN 1 ELSE 0) + (IF m = "new" THEN 1 ELSE 0)

(* Faulty: a service ends without telling. *)
NothingDone == UNCHANGED wg

ServiceDone == wg' = wg - 1

(* The configuration, the nntp client, the cache or the nzb service fails. *)
StartFails ==
  /\ main = "starting"
  /\ Exit(1)
  /\ UNCHANGED <<web, mount, wg, handleVars>>

Start ==
  /\ main = "starting"
  /\ main' = "serving"
  /\ web' \in {"off", "new"} /\ mount' \in {"off", "new"}
  /\ wg' = Services(web', mount')
  /\ UNCHANGED <<exit, handleVars>>

(* A signal cancels the context of the services. Further ones are not read. *)
Signal ==
  /\ main = "serving"
  /\ main' = "stopping"
  /\ UNCHANGED <<exit, web, mount, wg, handleVars>>

CleanShutdown ==
  /\ main = "stopping" /\ wg = 0
  /\ Exit(0)
  /\ UNCHANGED <<web, mount, wg, handleVars>>

(* timeoutaction.Exit1 *)
Timeout ==
  /\ main = "stopping"
  /\ Exit(1)
  /\ UNCHANGED <<web, mount, wg, handleVars>>

Running == main \in {"serving", "stopping"}

-----------------------------------------------------------------------------
(* Listen *)

Listening ==
  /\ Running /\ web = "new"
  /\ web' = "listening"
  /\ UNCHANGED <<main, exit, mount, wg, handleVars>>

ListenFails ==
  /\ Running /\ web \in {"new", "listening"}
  /\ Exit(1)
  /\ UNCHANGED <<web, mount, wg, handleVars>>

(* srv.Shutdown closes the listener, which ends ListenAndServe, and does not   *)
(* wait for the requests: its context is cancelled already.                  *)
CloseServer ==
  /\ main = "stopping" /\ web \in {"new", "listening"}
  /\ web' = "closed"
  /\ UNCHANGED <<main, exit, mount, wg, handleVars>>

ListenReturns ==
  /\ Running /\ web = "closed"
  /\ web' = "returned" /\ ServiceDone
  /\ UNCHANGED <<main, exit, mount, handleVars>>

-----------------------------------------------------------------------------
(* Mount *)

Mounted ==
  /\ Running /\ mount = "new"
  /\ mount' = "mounted"
  /\ UNCHANGED <<main, exit, web, wg, handleVars>>

MountFails ==
  /\ Running /\ mount = "new"
  /\ Exit(1)
  /\ UNCHANGED <<web, mount, wg, handleVars>>

(* Somebody else unmounts it: the server ends, *)
UnmountedOutside ==
  /\ Running /\ mount = "mounted" /\ open = {}
  /\ mount' = "lost"
  /\ UNCHANGED <<main, exit, web, wg, handleVars>>

(* ErrUnexpectedUnmount *)
MountLost ==
  /\ Running /\ mount = "lost"
  /\ Exit(1)
  /\ UNCHANGED <<web, mount, wg, handleVars>>

(* A mount with an open file is busy. *)
Unmount ==
  /\ main = "stopping" /\ mount = "mounted" /\ open = {}
  /\ mount' = "unmounted"
  /\ UNCHANGED <<main, exit, web, wg, handleVars>>

UnmountFails ==
  /\ main = "stopping" /\ mount \in {"mounted", "lost"}
  /\ Exit(1)
  /\ UNCHANGED <<web, mount, wg, handleVars>>

MountReturns ==
  /\ Running /\ mount = "unmounted"
  /\ mount' = "returned" /\ ServiceDone
  /\ UNCHANGED <<main, exit, web, handleVars>>

-----------------------------------------------------------------------------
(* Open files *)

NoCall == [at |-> "idle", h |-> Nobody, off |-> 0, len |-> 0, bytes |-> << >>, err |-> FALSE]

IsMounted == Running /\ mount = "mounted"

Open(h) ==
  /\ IsMounted /\ h \notin open
  /\ open' = open \cup {h} /\ pos' = [pos EXCEPT ![h] = 0]
  /\ UNCHANGED <<serverVars, mu, call>>

(* file has no Release: the kernel forgets the handle, and nobody closes the   *)
(* reader.                                                                   *)
Release(h) ==
  /\ IsMounted /\ h \in open /\ \A c \in Calls : call[c].h # h
  /\ open' = open \ {h}
  /\ UNCHANGED <<serverVars, pos, mu, call>>

(* Two calls may read one handle at a time. *)
Read(c, h, off, len) ==
  /\ IsMounted /\ h \in open /\ call[c] = NoCall
  /\ call' = [call EXCEPT ![c] = [NoCall EXCEPT !.at = "lock", !.h = h, !.off = off, !.len = len]]
  /\ UNCHANGED <<serverVars, open, pos, mu>>

(* ReadAt *)
Lock(c) ==
  LET h == call[c].h IN
  /\ IsMounted /\ call[c].at = "lock" /\ mu[h] = Nobody
  /\ mu' = [mu EXCEPT ![h] = c]
  /\ call' = [call EXCEPT ![c].at = "seek"]
  /\ UNCHANGED <<serverVars, open, pos>>

(* The deferred Unlock, and what file.Read makes of the result. *)
Return(c, bytes, err) ==
  /\ mu' = [mu EXCEPT ![call[c].h] = Nobody]
  /\ call' = [call EXCEPT ![c].at = "done", ![c].bytes = bytes, ![c].err = err]

(* Faulty: the lock is not held from the Seek to the Read. *)
SeekUnlocks(c) ==
  LET h == call[c].h IN
  /\ IsMounted /\ call[c].at = "seek"
  /\ pos' = [pos EXCEPT ![h] = call[c].off]
  /\ mu' = [mu EXCEPT ![h] = Nobody]
  /\ call' = [call EXCEPT ![c].at = "read"]
  /\ UNCHANGED <<serverVars, open>>

Seek(c) ==
  LET h == call[c].h IN
  /\ IsMounted /\ call[c].at = "seek"
  /\ \/ /\ pos' = [pos EXCEPT ![h] = call[c].off]
        /\ call' = [call EXCEPT ![c].at = "read"]
        /\ UNCHANGED mu
     \/ Return(c, << >>, TRUE) /\ UNCHANGED pos
  /\ UNCHANGED <<serverVars, open>>

(* The reader gives some of the bytes, which are passed on, short or not; end  *)
(* of file is no error of file.Read.                                         *)
ReadSome(c) ==
  LET h == call[c].h IN
  /\ IsMounted /\ call[c].at = "read"
  /\ \E n \in 1 .. call[c].len :
       /\ pos[h] + n <= Length
       /\ pos' = [pos EXCEPT ![h] = @ + n]
       /\ Return(c, [k \in 1 .. n |-> pos[h] + k], FALSE)
  /\ UNCHANGED <<serverVars, open>>

ReadNothing(c) ==
  /\ IsMounted /\ call[c].at = "read"
  /\ \/ pos[call[c].h] >= Length /\ Return(c, << >>, FALSE)
     \/ Return(c, << >>, TRUE)
  /\ UNCHANGED <<serverVars, open, pos>>

Answered(c) ==
  /\ IsMounted /\ call[c].at = "done"
  /\ call' = [call EXCEPT ![c] = NoCall]
  /\ UNCHANGED <<serverVars, open, pos, mu>>

-----------------------------------------------------------------------------
ServingInit ==
  /\ main = "starting" /\ exit = -1
  /\ web = "off" /\ mount = "off" /\ wg = 0
  /\ open = {} /\ pos = [h \in Handles |-> 0] /\ mu = [h \in Handles |-> Nobody]
  /\ call = [c \in Calls |-> NoCall]

Listen == Listening \/ ListenFails \/ CloseServer \/ ListenReturns

Mount == Mounted \/ MountFails \/ MountLost \/ Unmount \/ UnmountFails \/ MountReturns

Kernel ==
  \/ \E h \in Handles : Open(h) \/ Release(h)
  \/ \E c \in Calls :
       \/ \E h \in Handles, off \in 0 .. Length, len \in 1 .. MaxLen : Read(c, h, off, len)
       \/ Lock(c) \/ Seek(c) \/ ReadSome(c) \/ ReadNothing(c) \/ Answered(c)

ServingNext ==
  \/ StartFails \/ Start \/ Signal \/ CleanShutdown \/ Timeout
  \/ Listen \/ Mount \/ UnmountedOutside \/ Kernel

ServingSpec == ServingInit /\ [][ServingNext]_servingVars

(* The goroutines of the services run on, and main waits for them; neither the *)
(* timeout nor an answer to the kernel is relied upon.                       *)
FairServingSpec ==
  /\ ServingSpec
  /\ WF_servingVars(Listen) /\ WF_servingVars(Mount) /\ WF_servingVars(CleanShutdown)

-----------------------------------------------------------------------------
(* Properties *)

(* Reads of one open file at a time, at any offsets: each has the bytes of its  *)
(* own offset, and none without an error only at the end of the file, which   *)
(* is what the kernel takes it for.                                          *)
ReadsOwnOffset ==
  \A c \in Calls :
    call[c].at = "done" /\ ~call[c].err =>
      /\ call[c].bytes = [k \in 1 .. Len(call[c].bytes) |-> call[c].off + k]
      /\ call[c].bytes = << >> => call[c].off >= Length

(* The program only reports success when Listen and Mount are through, and no  *)
(* file of the mount is open: an Unmount that fails, a service that ends by   *)
(* itself and a timeout end it with code 1.                                  *)
ExitZeroIsClean ==
  exit = 0 => web \in {"off", "returned"} /\ mount \in {"off", "returned"} /\ open = {}

(* A signal ends the program also where its timeout never comes and no read of  *)
(* an open file returns.                                                     *)
SignalEnds == main = "stopping" ~> main = "over"

=============================================================================
