---------------------------- MODULE WebdavProofs ----------------------------
(***************************************************************************)
(* Proofs about WebdavFS, for any requests, paths and sizes: a GET that ends  *)
(* well gives the range that was asked for (GetCorrect), a request that holds *)
(* the read lock keeps the tree as it is and gives it back once for each time *)
(* it took it (LockCorrect), and a listing is that of one moment              *)
(* (ListCorrect).                                                            *)
(***************************************************************************)
EXTENDS WebdavFS, FiniteSetTheorems, WellFoundedInduction, TLAPS

-----------------------------------------------------------------------------
Lists == {"list", "listing", "entries"}
Opens == {"stat", "statting", "open", "opening", "size", "seek"}

DavTypes ==
  /\ pc \in [Requests -> Lists \cup Opens \cup {"idle", "copy", "answered"}]
  /\ req \in [Requests -> [method : {"none", "write", "stat", "list", "deep", "get"},
                           path : Targets \cup {Root}, from : Nat]]
  /\ reader \in [Requests -> [on : BOOLEAN, size : Nat, pos : Nat, bytes : Seq(Nat)]]
  /\ DOMAIN status = Requests

(* The bytes read so far are those from the offset asked for, and the reader  *)
(* stands behind them.                                                       *)
Reached(r) ==
  LET rd == reader[r]  from == req[r].from IN
  /\ from <= rd.size /\ Len(rd.bytes) <= rd.size - from
  /\ rd.pos = from + Len(rd.bytes)
  /\ \A k \in 1 .. Len(rd.bytes) : rd.bytes[k] = from + k

Given(r) ==
  LET rd == reader[r]  from == req[r].from IN
  /\ Len(rd.bytes) = rd.size - from
  /\ \A k \in 1 .. Len(rd.bytes) : rd.bytes[k] = from + k

(* Only a GET opens a reader, and it lists nothing.                          *)
GetOf(r) ==
  /\ r \in waits => pc[r] \in {"stat", "open", "list"}
  /\ status[r] = "ok" => pc[r] = "answered"
  /\ pc[r] = "idle" => reader[r].bytes = << >>
  /\ req[r].method = "get" =>
       /\ pc[r] \notin Lists
       /\ pc[r] \in Opens => reader[r].bytes = << >>
       /\ pc[r] = "copy" => Reached(r)
       /\ status[r] = "ok" => Given(r)

GetInv == DavTypes /\ \A r \in Requests : GetOf(r)

LEMMA GetInit == DavInit => GetInv
<1> SUFFICES ASSUME DavInit PROVE GetInv
  OBVIOUS
<1>1. DavTypes
  <2>1. Closed \in [on : BOOLEAN, size : Nat, pos : Nat, bytes : Seq(Nat)]
    BY DEF Closed
  <2>2. NoRequest \in [method : {"none", "write", "stat", "list", "deep", "get"},
                       path : Targets \cup {Root}, from : Nat]
    BY DEF NoRequest
  <2> QED
    BY <2>1, <2>2 DEF DavInit, DavTypes
<1>2. ASSUME NEW r \in Requests PROVE GetOf(r)
  BY DEF DavInit, GetOf, NoRequest, Closed
<1> QED
  BY <1>1, <1>2 DEF GetInv

-----------------------------------------------------------------------------
(* A step of one request is nothing to the others.                           *)
LEMMA OthersKeep ==
  ASSUME GetInv, NEW r \in Requests, DavTypes', GetOf(r)',
         \A s \in Requests \ {r} :
           /\ pc'[s] = pc[s] /\ req'[s] = req[s] /\ reader'[s] = reader[s] /\ status'[s] = status[s]
           /\ s \in waits' => s \in waits
  PROVE  GetInv'
BY DEF GetInv, GetOf, Reached, Given

(* Nor is one of the lock only.                                              *)
LEMMA LockKeeps ==
  ASSUME GetInv, UNCHANGED <<pc, req, reader, status>>,
         \A r \in waits' : r \in waits \/ pc[r] \in {"stat", "open", "list"}
  PROVE  GetInv'
<1>1. DavTypes'
  BY DEF GetInv, DavTypes
<1>2. ASSUME NEW r \in Requests PROVE GetOf(r)'
  BY DEF GetInv, GetOf, Reached, Given
<1> QED
  BY <1>1, <1>2 DEF GetInv

(* An answer leaves the reader as it is.                                     *)
LEMMA AnswerKeeps ==
  ASSUME GetInv, NEW r \in Requests, NEW what, Answer(r, what), pc[r] \notin {"stat", "open", "list"},
         UNCHANGED <<req, waits>>,
         what = "ok" /\ req[r].method = "get" => Given(r)
  PROVE  GetInv'
<1>1. /\ pc' = [pc EXCEPT ![r] = "answered"] /\ status' = [status EXCEPT ![r] = what]
      /\ reader' = reader
  BY DEF Answer, Goto
<1>2. DavTypes'
  BY <1>1 DEF GetInv, DavTypes
<1>3. pc'[r] = "answered" /\ status'[r] = what /\ r \notin waits'
  BY <1>1 DEF GetInv, DavTypes, GetOf
<1>4. GetOf(r)'
  BY <1>1, <1>3 DEF GetOf, Lists, Opens, Given
<1> QED
  BY <1>1, <1>2, <1>4, OthersKeep DEF GetInv, DavTypes

(* From one place to another, with the same reader or with one of no bytes.  *)
LEMMA GotoKeeps ==
  ASSUME GetInv, NEW r \in Requests, NEW there \in Lists \cup Opens, Goto(r, there),
         pc[r] \in Lists \cup Opens, r \notin waits',
         req[r].method = "get" => there \notin Lists,
         req' = req, status' = status, waits' \subseteq waits,
         reader' \in [Requests -> [on : BOOLEAN, size : Nat, pos : Nat, bytes : Seq(Nat)]],
         reader'[r].bytes = reader[r].bytes, \A s \in Requests \ {r} : reader'[s] = reader[s]
  PROVE  GetInv'
<1>1. DavTypes'
  BY DEF Goto, GetInv, DavTypes
<1>2. pc'[r] = there
  BY DEF Goto, GetInv, DavTypes
<1>3. GetOf(r)'
  BY <1>2 DEF GetInv, GetOf, Lists, Opens
<1>4. \A s \in Requests \ {r} : pc'[s] = pc[s]
  BY DEF Goto, GetInv, DavTypes
<1> QED
  BY <1>1, <1>3, <1>4, OthersKeep

-----------------------------------------------------------------------------
(* The lock *)

LEMMA LockStep ==
  ASSUME GetInv,
         (\E r \in Requests : RLock(r)) \/ Service \/ \E op, path : Change(op, path)
  PROVE  GetInv'
<1>1. DOMAIN Locks = {"stat", "open", "list"}
      /\ Locks["stat"] = "statting" /\ Locks["open"] = "opening" /\ Locks["list"] = "listing"
  BY DEF Locks
<1>2. ASSUME NEW r \in Requests, RLock(r) PROVE GetInv'
  <2>1. pc[r] \in {"stat", "open", "list"} /\ UNCHANGED <<req, reader, status>>
    BY <1>1, <1>2 DEF RLock
  <2>2. CASE writer = "none"
    <3>1. Goto(r, Locks[pc[r]]) /\ waits' = waits /\ r \notin waits
      BY <1>2, <2>2 DEF RLock, Goto, GetInv, DavTypes
    <3>2. Locks[pc[r]] \in Lists \cup Opens /\ pc[r] \in Lists \cup Opens
      BY <1>1, <2>1 DEF Lists, Opens
    <3>3. req[r].method = "get" => Locks[pc[r]] \notin Lists
      BY <1>1, <2>1 DEF GetInv, GetOf, Lists
    <3> QED
      BY <2>1, <3>1, <3>2, <3>3, GotoKeeps DEF GetInv, DavTypes
  <2>3. CASE writer # "none"
    <3>1. waits' = waits \cup {r} /\ pc' = pc
      BY <1>2, <2>3 DEF RLock
    <3> QED
      BY <2>1, <3>1, LockKeeps
  <2> QED
    BY <2>2, <2>3
<1>3. CASE Lock \/ \E op, path : Change(op, path)
  BY <1>3, LockKeeps DEF Lock, Change, requestVars
<1>4. CASE Unlock
  <2>1. /\ pc' = [r \in Requests |-> IF r \in waits THEN Locks[pc[r]] ELSE pc[r]]
        /\ waits' = {} /\ UNCHANGED <<req, reader, status>>
    BY <1>4 DEF Unlock
  <2>2. ASSUME NEW r \in Requests
        PROVE  \/ pc'[r] = pc[r]
               \/ pc[r] \in {"stat", "open"} /\ pc'[r] \in {"statting", "opening"}
               \/ pc[r] = "list" /\ pc'[r] = "listing"
    BY <1>1, <2>1 DEF GetInv, GetOf
  <2>3. DavTypes'
    BY <2>1, <2>2 DEF GetInv, DavTypes, Lists, Opens
  <2>4. ASSUME NEW r \in Requests PROVE GetOf(r)'
    BY <2>1, <2>2 DEF GetInv, GetOf, Lists, Opens, Reached, Given
  <2> QED
    BY <2>3, <2>4 DEF GetInv
<1> QED
  BY <1>2, <1>3, <1>4 DEF Service

-----------------------------------------------------------------------------
(* Requests *)

LEMMA RequestStep ==
  ASSUME GetInv, NEW r \in Requests, NEW path \in Targets,
         \/ \E method \in {"stat", "list", "deep", "get"}, from \in 0 .. 1 : Request(r, method, path, from)
         \/ ReadOnly(r, path)
  PROVE  GetInv'
<1> USE DEF lockVars
<1>1. ASSUME NEW method \in {"stat", "list", "deep", "get"}, NEW from \in 0 .. 1, Request(r, method, path, from)
      PROVE  GetInv'
  <2>1. /\ pc[r] = "idle" /\ Goto(r, "stat") /\ UNCHANGED <<reader, status, waits>>
        /\ req' = [req EXCEPT ![r] = [method |-> method, path |-> path, from |-> from]]
    BY <1>1 DEF Request
  <2>2. DavTypes' /\ pc'[r] = "stat"
    BY <2>1 DEF GetInv, DavTypes, Goto, Opens
  <2>3. GetOf(r)'
    BY <2>1, <2>2 DEF GetInv, GetOf, Lists, Opens
  <2> QED
    BY <2>1, <2>2, <2>3, OthersKeep DEF GetInv, DavTypes, Goto
<1>2. CASE ReadOnly(r, path)
  <2>1. /\ pc[r] = "idle" /\ Answer(r, "readonly") /\ UNCHANGED waits
        /\ req' = [req EXCEPT ![r] = [method |-> "write", path |-> path, from |-> 0]]
    BY <1>2 DEF ReadOnly
  <2>2. DavTypes' /\ pc'[r] = "answered" /\ status'[r] = "readonly" /\ req'[r].method = "write"
    BY <2>1 DEF GetInv, DavTypes, Goto, Answer
  <2>3. GetOf(r)'
    BY <2>1, <2>2 DEF GetInv, GetOf
  <2> QED
    BY <2>1, <2>2, <2>3, OthersKeep DEF GetInv, DavTypes, Goto, Answer
<1> QED
  BY <1>1, <1>2

LEMMA AnsweredStep ==
  ASSUME GetInv, NEW r \in Requests, Answered(r)
  PROVE  GetInv'
<1>1. /\ pc[r] = "answered" /\ Goto(r, "idle") /\ UNCHANGED waits
      /\ req' = [req EXCEPT ![r] = NoRequest] /\ status' = [status EXCEPT ![r] = "none"]
      /\ reader' = [reader EXCEPT ![r] = Closed]
  BY DEF Answered, lockVars
<1>2. DavTypes'
  BY <1>1 DEF GetInv, DavTypes, Goto, NoRequest, Closed
<1>3. /\ pc'[r] = "idle" /\ status'[r] = "none" /\ req'[r].method = "none" /\ reader'[r].bytes = << >>
      /\ r \notin waits'
  BY <1>1 DEF GetInv, DavTypes, GetOf, Goto, NoRequest, Closed
<1>4. GetOf(r)'
  BY <1>3 DEF GetOf
<1> QED
  BY <1>1, <1>2, <1>4, OthersKeep DEF GetInv, DavTypes, Goto

(* Stat, and the listings.                                                   *)
LEMMA ListStep ==
  ASSUME GetInv, NEW r \in Requests, Stat(r) \/ ReadDir(r) \/ ReadDirReturns(r) \/ \E child : Entry(r, child)
  PROVE  GetInv'
<1> USE DEF lockVars
<1>1. pc[r] \in {"statting", "listing", "entries"} /\ UNCHANGED <<req, waits>>
  BY DEF Stat, ReadDir, ReadDirReturns, Entry
<1>2. r \notin waits
  BY <1>1 DEF GetInv, GetOf
<1>3. CASE Stat(r)
  <2>1. CASE Answer(r, "notfound") \/ Answer(r, "notallowed")
    BY <1>1, <2>1, AnswerKeeps
  <2>2. CASE req[r].method # "get" /\ Answer(r, "ok")
    BY <1>1, <2>2, AnswerKeeps
  <2>3. CASE /\ Goto(r, IF req[r].method = "get" THEN "open" ELSE "list")
             /\ UNCHANGED <<reader, status>>
    <3>1. CASE req[r].method = "get"
      BY <1>1, <1>2, <2>3, <3>1, GotoKeeps DEF GetInv, DavTypes, Lists, Opens
    <3>2. CASE req[r].method # "get"
      BY <1>1, <1>2, <2>3, <3>2, GotoKeeps DEF GetInv, DavTypes, Lists, Opens
    <3> QED
      BY <3>1, <3>2
  <2> QED
    BY <1>3, <2>1, <2>2, <2>3 DEF Stat
<1>4. ASSUME ReadDir(r) \/ ReadDirReturns(r) \/ \E child : Entry(r, child)
      PROVE  GetInv'
  <2>1. req[r].method # "get"
    BY <1>4 DEF ReadDir, ReadDirReturns, Entry, GetInv, GetOf, Lists
  <2>2. \/ Answer(r, "notfound") \/ Answer(r, "ok")
        \/ Goto(r, "entries") /\ UNCHANGED <<reader, status>>
        \/ Goto(r, "list") /\ UNCHANGED <<reader, status>>
        \/ UNCHANGED <<pc, reader, status>>
    BY <1>4 DEF ReadDir, ReadDirReturns, Entry
  <2>3. CASE Answer(r, "notfound") \/ Answer(r, "ok")
    BY <1>1, <2>1, <2>3, AnswerKeeps
  <2>4. CASE (Goto(r, "entries") \/ Goto(r, "list")) /\ UNCHANGED <<reader, status>>
    BY <1>1, <1>2, <2>1, <2>4, GotoKeeps DEF GetInv, DavTypes, Lists, Opens
  <2>5. CASE UNCHANGED <<pc, reader, status>>
    BY <1>1, <2>5, LockKeeps
  <2> QED
    BY <2>2, <2>3, <2>4, <2>5
<1> QED
  BY <1>3, <1>4

-----------------------------------------------------------------------------
(* GET *)

LEMMA OpenStep ==
  ASSUME GetInv, NEW r \in Requests, Open(r) \/ SeekEnd(r) \/ Seek(r)
  PROVE  GetInv'
<1> USE DEF lockVars
<1>1. pc[r] \in {"opening", "size", "seek"} /\ UNCHANGED <<req, waits>>
  BY DEF Open, SeekEnd, Seek
<1>2. r \notin waits
  BY <1>1 DEF GetInv, GetOf
<1>3. ASSUME NEW what, what # "ok", Answer(r, what) PROVE GetInv'
  BY <1>1, <1>3, AnswerKeeps
<1>4. CASE Open(r)
  <2>1. CASE Answer(r, "error")
    BY <1>3, <2>1
  <2>2. CASE /\ reader' = [reader EXCEPT ![r] = [Closed EXCEPT !.on = ~IsDir(req[r].path)]]
             /\ Goto(r, "size") /\ UNCHANGED status
    <3>1. [Closed EXCEPT !.on = ~IsDir(req[r].path)] =
            [on |-> ~IsDir(req[r].path), size |-> 0, pos |-> 0, bytes |-> << >>]
      BY DEF Closed
    <3>2. DavTypes' /\ pc'[r] = "size" /\ reader'[r].bytes = << >>
      <4>1. PICK opened \in [on : BOOLEAN, size : Nat, pos : Nat, bytes : Seq(Nat)] :
              opened.bytes = << >> /\ reader' = [reader EXCEPT ![r] = opened]
        <5>1. (~IsDir(req[r].path)) \in BOOLEAN /\ << >> \in Seq(Nat)
          OBVIOUS
        <5> HIDE DEF IsDir
        <5> QED
          BY <2>2, <3>1, <5>1
      <4>2. /\ reader' \in [Requests -> [on : BOOLEAN, size : Nat, pos : Nat, bytes : Seq(Nat)]]
            /\ reader'[r].bytes = << >>
        BY <4>1 DEF GetInv, DavTypes
      <4>3. /\ pc' \in [Requests -> Lists \cup Opens \cup {"idle", "copy", "answered"}]
            /\ pc'[r] = "size"
        BY <2>2 DEF GetInv, DavTypes, Goto, Opens
      <4> QED
        BY <1>1, <2>2, <4>2, <4>3 DEF GetInv, DavTypes
    <3>3. GetOf(r)'
      BY <1>1, <1>2, <2>2, <3>2 DEF GetInv, GetOf, Lists, Opens
    <3> QED
      BY <1>1, <2>2, <3>2, <3>3, OthersKeep DEF GetInv, DavTypes, Goto
  <2> QED
    BY <1>4, <2>1, <2>2 DEF Open, OpenFails
<1>5. CASE SeekEnd(r)
  <2>1. PICK size \in Nat : reader' = [reader EXCEPT ![r].size = size]
    BY <1>5, WebdavAssumption DEF SeekEnd
  <2>2. Goto(r, "seek") /\ UNCHANGED status
    BY <1>5 DEF SeekEnd
  <2> QED
    BY <1>1, <1>2, <2>1, <2>2, GotoKeeps, ZenonT(30) DEF GetInv, DavTypes, Lists, Opens
<1>6. CASE Seek(r)
  <2>1. CASE Answer(r, "range") \/ Answer(r, "error")
    BY <1>3, <2>1
  <2>2. CASE /\ reader[r].on /\ req[r].from <= reader[r].size
             /\ reader' = [reader EXCEPT ![r].pos = req[r].from]
             /\ Goto(r, "copy") /\ UNCHANGED status
    <3>1. DavTypes' /\ pc'[r] = "copy"
      BY <1>1, <2>2 DEF GetInv, DavTypes, Goto
    <3>2. /\ reader'[r].pos = req[r].from /\ reader'[r].size = reader[r].size
          /\ reader'[r].bytes = reader[r].bytes
      BY <2>2 DEF GetInv, DavTypes
    <3>3. req[r].method = "get" => Reached(r)'
      <4>1. req[r].method = "get" => reader'[r].bytes = << >>
        BY <1>1, <1>6, <3>2 DEF Seek, GetInv, GetOf, Opens
      <4> QED
        BY <1>1, <2>2, <3>2, <4>1 DEF Reached, GetInv, DavTypes
    <3>4. GetOf(r)'
      BY <1>1, <1>2, <2>2, <3>1, <3>3 DEF GetInv, GetOf, Lists, Opens
    <3> QED
      BY <1>1, <2>2, <3>1, <3>4, OthersKeep DEF GetInv, DavTypes, Goto
  <2> QED
    BY <1>6, <2>1, <2>2 DEF Seek
<1> QED
  BY <1>4, <1>5, <1>6

LEMMA CopyStep ==
  ASSUME GetInv, NEW r \in Requests, Read(r) \/ Copied(r)
  PROVE  GetInv'
<1> USE DEF lockVars
<1>1. pc[r] = "copy" /\ UNCHANGED <<req, waits>>
  BY DEF Read, Copied
<1>2. CASE Answer(r, "broken")
  BY <1>1, <1>2, AnswerKeeps
<1>3. CASE Copied(r)
  <2>1. req[r].method = "get" => Given(r)
    BY <1>1, <1>3 DEF Copied, Wanted, Given, Reached, GetInv, GetOf
  <2> QED
    BY <1>1, <1>3, <2>1, AnswerKeeps DEF Copied
<1>4. ASSUME NEW k \in 1 .. Length - reader[r].pos, Len(reader[r].bytes) + k <= Wanted(r),
             reader' = [reader EXCEPT ![r].pos = @ + k,
                                      ![r].bytes = @ \o [j \in 1 .. k |-> reader[r].pos + j]],
             UNCHANGED <<pc, status>>
      PROVE  GetInv'
  <2> DEFINE rd   == reader[r]
             from == req[r].from
             read == [j \in 1 .. k |-> rd.pos + j]
  <2>1. rd \in [on : BOOLEAN, size : Nat, pos : Nat, bytes : Seq(Nat)] /\ from \in Nat /\ k \in Nat
    BY WebdavAssumption DEF GetInv, DavTypes
  <2>2. read \in Seq(Nat) /\ Len(read) = k
    BY <2>1
  <2>3. rd.bytes \o read \in Seq(Nat) /\ Len(rd.bytes \o read) = Len(rd.bytes) + k
    BY <2>1, <2>2
  <2>4. reader' \in [Requests -> [on : BOOLEAN, size : Nat, pos : Nat, bytes : Seq(Nat)]]
    <3> DEFINE moved == [reader EXCEPT ![r] = [rd EXCEPT !.pos = rd.pos + k]]
    <3>1. /\ [rd EXCEPT !.pos = rd.pos + k] \in [on : BOOLEAN, size : Nat, pos : Nat, bytes : Seq(Nat)]
          /\ [rd EXCEPT !.pos = rd.pos + k].bytes = rd.bytes
      <4> HIDE DEF rd
      <4> QED
        BY <2>1, SMTT(30)
    <3>2. /\ moved \in [Requests -> [on : BOOLEAN, size : Nat, pos : Nat, bytes : Seq(Nat)]]
          /\ moved[r].bytes = rd.bytes
      BY <3>1 DEF GetInv, DavTypes
    <3>3. reader' = [moved EXCEPT ![r] = [moved[r] EXCEPT !.bytes = rd.bytes \o read]]
      BY <1>4 DEF GetInv, DavTypes
    <3> HIDE DEF moved
    <3> QED
      BY <2>3, <3>2, <3>3
  <2>5. DavTypes'
    BY <1>1, <1>4, <2>4 DEF GetInv, DavTypes
  <2>6. /\ reader'[r].size = rd.size /\ reader'[r].pos = rd.pos + k
        /\ reader'[r].bytes = rd.bytes \o read
        /\ \A s \in Requests \ {r} : reader'[s] = reader[s]
    BY <1>4, <2>1 DEF GetInv, DavTypes
  <2>7. ASSUME Reached(r) PROVE Reached(r)'
    <3>1. ASSUME NEW j \in 1 .. Len(rd.bytes) + k PROVE (rd.bytes \o read)[j] = from + j
      <4>1. rd.pos = from + Len(rd.bytes) /\ Len(rd.bytes) \in Nat
        BY <2>1, <2>7 DEF Reached
      <4>2. CASE j <= Len(rd.bytes)
        <5>1. (rd.bytes \o read)[j] = rd.bytes[j]
          BY <2>1, <2>2, <4>1, <4>2
        <5> QED
          BY <2>7, <4>1, <4>2, <5>1 DEF Reached
      <4>3. CASE j > Len(rd.bytes)
        <5>1. (rd.bytes \o read)[j] = read[j - Len(rd.bytes)]
          BY <2>1, <2>2, <4>1, <4>3
        <5> QED
          BY <2>1, <4>1, <4>3, <5>1
      <4> QED
        BY <2>1, <4>1, <4>2, <4>3
    <3>2. Len(rd.bytes) \in Nat
      BY <2>1
    <3>3. /\ reader'[r].size = rd.size /\ reader'[r].pos = rd.pos + k
          /\ reader'[r].bytes = rd.bytes \o read /\ req'[r].from = from
      BY <1>1, <2>6
    <3>4. Len(rd.bytes) + k <= rd.size - from
      BY <1>4 DEF Wanted
    <3>5. from <= rd.size /\ rd.pos = from + Len(rd.bytes)
      BY <2>7 DEF Reached
    <3>6. Len(reader'[r].bytes) = Len(rd.bytes) + k
      BY <2>3, <3>3
    <3>7. \A j \in 1 .. Len(reader'[r].bytes) : reader'[r].bytes[j] = from + j
      BY <3>1, <3>3, <3>6
    <3> HIDE DEF rd, from, read
    <3>8. /\ req'[r].from <= reader'[r].size
          /\ Len(reader'[r].bytes) <= reader'[r].size - req'[r].from
          /\ reader'[r].pos = req'[r].from + Len(reader'[r].bytes)
      BY <2>1, <3>2, <3>3, <3>4, <3>5, <3>6
    <3> QED
      BY <3>3, <3>7, <3>8 DEF Reached
  <2>8. GetOf(r)'
    BY <1>1, <1>4, <2>7 DEF GetInv, GetOf, Lists, Opens
  <2> QED
    BY <1>1, <1>4, <2>5, <2>6, <2>8, OthersKeep DEF GetInv, DavTypes
<1> QED
  BY <1>2, <1>3, <1>4 DEF Read

-----------------------------------------------------------------------------
(* However often the tree changes while it is read: a GET that ends well has  *)
(* each byte from the offset asked for to the Size that was told, once and in *)
(* its place.                                                                *)
THEOREM GetCorrect == DavSpec => []GetGivesTheRange
<1>1. GetInv /\ [DavNext]_davVars => GetInv'
  <2> SUFFICES ASSUME GetInv, [DavNext]_davVars PROVE GetInv'
    OBVIOUS
  <2>1. CASE UNCHANGED davVars
    BY <2>1, LockKeeps DEF davVars, lockVars, requestVars
  <2>2. ASSUME NEW r \in Requests, Handle(r) PROVE GetInv'
    BY <2>2, AnsweredStep, LockStep, ListStep, OpenStep, CopyStep DEF Handle
  <2>3. CASE Service \/ \E op \in {"add", "remove"}, path \in Paths : Change(op, path)
    BY <2>3, LockStep
  <2> QED
    BY <2>1, <2>2, <2>3, RequestStep DEF DavNext
<1>2. GetInv => GetGivesTheRange
  <2> SUFFICES ASSUME GetInv, NEW r \in Requests, req[r].method = "get", status[r] = "ok"
               PROVE  reader[r].bytes = [k \in 1 .. reader[r].size - req[r].from |-> req[r].from + k]
    BY DEF GetGivesTheRange
  <2>1. Given(r) /\ reader[r].bytes \in Seq(Nat)
    BY DEF GetInv, GetOf, DavTypes
  <2>2. reader[r].bytes = [k \in 1 .. Len(reader[r].bytes) |-> reader[r].bytes[k]]
    BY <2>1, SMTT(30)
  <2>3. [k \in 1 .. Len(reader[r].bytes) |-> reader[r].bytes[k]] =
          [k \in 1 .. reader[r].size - req[r].from |-> req[r].from + k]
    BY <2>1, Zenon DEF Given
  <2> QED
    BY <2>2, <2>3
<1> QED
  BY <1>1, <1>2, GetInit, PTL DEF DavSpec

-----------------------------------------------------------------------------
(* The lock, held and given back                                             *)

InReadLock == {"statting", "opening", "listing"}

(* A request holds the lock once for each ReadDir under way, and once more    *)
(* between a lock and the end of what it does with it.                       *)
Holds(r) ==
  /\ \E S : frames[r] \in Seq(S)
  /\ held[r] = Len(frames[r]) + (IF pc[r] \in InReadLock THEN 1 ELSE 0)
  /\ pc[r] \notin Lists => frames[r] = << >>
  /\ pc[r] = "entries" => frames[r] # << >>
  /\ r \in waits => pc[r] \in DOMAIN Locks

LockInv ==
  /\ DOMAIN pc = Requests /\ DOMAIN frames = Requests /\ DOMAIN held = Requests
  /\ waits \subseteq Requests
  /\ \A r \in Requests : Holds(r)
  /\ writer = "locked" => \A r \in Requests : held[r] = 0

LEMMA LockInit == DavInit => LockInv
<1> SUFFICES ASSUME DavInit PROVE LockInv
  OBVIOUS
<1>1. ASSUME NEW r \in Requests PROVE Holds(r)
  <2>1. frames[r] = << >> /\ frames[r] \in Seq({}) /\ Len(frames[r]) = 0
    BY DEF DavInit
  <2>2. pc[r] = "idle" /\ held[r] = 0 /\ waits = {}
    BY DEF DavInit
  <2> QED
    BY <2>1, <2>2 DEF Holds, InReadLock, Lists
<1> QED
  BY <1>1 DEF LockInv, DavInit

(* A step of one request while no writer has the lock, or one that locks      *)
(* nothing.                                                                  *)
LEMMA OtherLocksKeep ==
  ASSUME LockInv, NEW r \in Requests, Holds(r)', writer' = writer, waits' \subseteq Requests,
         DOMAIN pc' = Requests, DOMAIN frames' = Requests, DOMAIN held' = Requests,
         writer = "locked" => held'[r] = 0,
         \A s \in Requests \ {r} :
           pc'[s] = pc[s] /\ frames'[s] = frames[s] /\ held'[s] = held[s] /\ (s \in waits' => s \in waits)
  PROVE  LockInv'
BY DEF LockInv, Holds

(* An answer comes after the last unlock.                                    *)
LEMMA AnswerUnlocks ==
  ASSUME LockInv, NEW r \in Requests, NEW what, Answer(r, what), r \notin waits,
         UNCHANGED <<writer, waits>>, DOMAIN held' = Requests, held'[r] = 0,
         \A s \in Requests \ {r} : held'[s] = held[s]
  PROVE  LockInv'
<1>1. /\ pc' = [pc EXCEPT ![r] = "answered"] /\ frames' = [frames EXCEPT ![r] = << >>]
  BY DEF Answer, Goto
<1>2. pc'[r] = "answered" /\ frames'[r] = << >> /\ frames'[r] \in Seq({}) /\ Len(frames'[r]) = 0
  BY <1>1 DEF LockInv
<1>3. Holds(r)'
  BY <1>2 DEF Holds, InReadLock, Lists
<1> QED
  BY <1>1, <1>3, OtherLocksKeep DEF LockInv

(* Steps that neither lock nor list.                                         *)
LEMMA QuietSteps ==
  ASSUME LockInv, NEW r \in Requests, NEW there, Goto(r, there),
         pc[r] \notin Lists \cup InReadLock, there \notin Lists \cup InReadLock, r \notin waits \/ there = pc[r],
         UNCHANGED <<writer, held, waits, frames>>
  PROVE  LockInv'
<1>1. pc' = [pc EXCEPT ![r] = there] /\ pc'[r] = there
  BY DEF Goto, LockInv
<1>2. Holds(r)'
  BY <1>1 DEF Holds, LockInv, InReadLock, Lists
<1> QED
  BY <1>1, <1>2, OtherLocksKeep DEF LockInv

LEMMA RLockStep ==
  ASSUME LockInv, NEW r \in Requests, RLock(r)
  PROVE  LockInv'
<1>1. /\ DOMAIN Locks = {"stat", "open", "list"}
      /\ Locks["stat"] = "statting" /\ Locks["open"] = "opening" /\ Locks["list"] = "listing"
  BY DEF Locks
<1>2. pc[r] \in DOMAIN Locks /\ UNCHANGED <<writer, frames>> /\ Holds(r) /\ r \notin waits
  BY DEF RLock, LockInv
<1>3. CASE writer = "none"
  <2>1. held' = [held EXCEPT ![r] = @ + 1] /\ pc' = [pc EXCEPT ![r] = Locks[@]] /\ waits' = waits
    BY <1>3 DEF RLock
  <2>2. pc'[r] = Locks[pc[r]] /\ held'[r] = held[r] + 1 /\ frames'[r] = frames[r]
    BY <1>2, <2>1 DEF LockInv
  <2>3. Len(frames[r]) \in Nat
    BY <1>2 DEF Holds
  <2>4. /\ pc[r] \notin InReadLock /\ pc[r] # "entries" /\ pc'[r] \in InReadLock /\ pc'[r] # "entries"
        /\ pc'[r] \notin Lists => pc[r] \notin Lists
    BY <1>1, <1>2, <2>2 DEF InReadLock, Lists
  <2>5. held'[r] = Len(frames'[r]) + 1
    BY <1>2, <2>2, <2>3, <2>4 DEF Holds
  <2>6. Holds(r)'
    BY <1>2, <2>1, <2>2, <2>4, <2>5 DEF Holds
  <2> QED
    BY <1>2, <1>3, <2>1, <2>6, OtherLocksKeep DEF LockInv
<1>4. CASE writer # "none"
  <2>1. waits' = waits \cup {r} /\ UNCHANGED <<held, pc>>
    BY <1>4 DEF RLock
  <2> QED
    BY <1>2, <2>1 DEF LockInv, Holds
<1> QED
  BY <1>3, <1>4

(* The writer comes in when nobody holds the lock, and lets all in that wait. *)
LEMMA WriterStep ==
  ASSUME LockInv, Service \/ \E op, path : Change(op, path)
  PROVE  LockInv'
<1>1. /\ DOMAIN Locks = {"stat", "open", "list"}
      /\ Locks["stat"] = "statting" /\ Locks["open"] = "opening" /\ Locks["list"] = "listing"
  BY DEF Locks
<1>2. CASE Lock \/ \E op, path : Change(op, path)
  <2>1. UNCHANGED <<held, waits, pc, frames>> /\ (writer' = "locked" => \A r \in Requests : held[r] = 0)
    BY <1>2 DEF Lock, Change, requestVars
  <2> QED
    BY <2>1 DEF LockInv, Holds
<1>3. CASE Unlock
  <2>1. /\ writer' = "none" /\ waits' = {} /\ UNCHANGED frames
        /\ held' = [r \in Requests |-> IF r \in waits THEN held[r] + 1 ELSE held[r]]
        /\ pc' = [r \in Requests |-> IF r \in waits THEN Locks[pc[r]] ELSE pc[r]]
    BY <1>3 DEF Unlock
  <2>2. ASSUME NEW r \in Requests PROVE Holds(r)'
    <3>1. Holds(r) /\ Len(frames[r]) \in Nat
      BY DEF LockInv, Holds
    <3>2. CASE r \in waits
      <4>1. pc'[r] = Locks[pc[r]] /\ held'[r] = held[r] + 1 /\ pc[r] \in DOMAIN Locks
        BY <2>1, <3>1, <3>2 DEF Holds
      <4>2. /\ pc[r] \notin InReadLock /\ pc'[r] \in InReadLock /\ pc'[r] # "entries"
            /\ pc'[r] \notin Lists => pc[r] \notin Lists
        BY <1>1, <4>1 DEF InReadLock, Lists
      <4>3. frames'[r] = frames[r] /\ held'[r] = Len(frames'[r]) + 1
        BY <2>1, <3>1, <4>1, <4>2 DEF Holds
      <4> QED
        BY <2>1, <3>1, <4>2, <4>3 DEF Holds
    <3>3. CASE r \notin waits
      BY <2>1, <3>1, <3>3 DEF Holds
    <3> QED
      BY <3>2, <3>3
  <2> QED
    BY <2>1, <2>2 DEF LockInv
<1> QED
  BY <1>2, <1>3 DEF Service

(* ReadDir, one folder in another.                                           *)
LEMMA ListLocks ==
  ASSUME LockInv, NEW r \in Requests, ReadDir(r) \/ ReadDirReturns(r) \/ \E child : Entry(r, child)
  PROVE  LockInv'
<1>1. /\ pc[r] \in {"listing", "entries"} /\ UNCHANGED <<writer, waits>> /\ Holds(r) /\ r \notin waits
  BY DEF ReadDir, ReadDirReturns, Entry, LockInv, Holds, Locks
<1>2. PICK S : frames[r] \in Seq(S)
  BY <1>1 DEF Holds
<1>3. /\ Len(frames[r]) \in Nat /\ held[r] > 0 /\ writer # "locked"
      /\ held[r] = Len(frames[r]) + (IF pc[r] = "listing" THEN 1 ELSE 0)
      /\ pc[r] = "entries" => frames[r] # << >> /\ Len(frames[r]) >= 1
  BY <1>1, <1>2 DEF Holds, LockInv, InReadLock
<1>4. CASE ReadDir(r)
  <2>1. CASE held' = [held EXCEPT ![r] = 0] /\ Answer(r, "notfound")
    BY <1>1, <2>1, AnswerUnlocks DEF LockInv
  <2>2. CASE /\ frames' = [frames EXCEPT ![r] = Append(@, [at |-> Dir(r), left |-> Children(Dir(r))])]
             /\ Goto(r, "entries") /\ UNCHANGED held
    <3> DEFINE frame == [at |-> Dir(r), left |-> Children(Dir(r))]
    <3>1. /\ frames'[r] = Append(frames[r], frame) /\ pc'[r] = "entries" /\ held'[r] = held[r]
          /\ pc' = [pc EXCEPT ![r] = "entries"] /\ pc[r] = "listing"
      BY <1>4, <2>2 DEF Goto, LockInv, ReadDir
    <3> HIDE DEF frame
    <3>2. frames[r] \in Seq(S \cup {frame}) /\ frame \in S \cup {frame}
      BY <1>2
    <3>3. frames'[r] \in Seq(S \cup {frame}) /\ Len(frames'[r]) = Len(frames[r]) + 1 /\ frames'[r] # << >>
      BY <3>1, <3>2
    <3>4. Holds(r)'
      BY <1>1, <1>3, <3>1, <3>3 DEF Holds, InReadLock, Lists
    <3> QED
      BY <1>1, <1>3, <2>2, <3>1, <3>4, OtherLocksKeep DEF LockInv
  <2> QED
    BY <1>4, <2>1, <2>2 DEF ReadDir
<1>5. ASSUME NEW child, Entry(r, child) PROVE LockInv'
  <2>1. PICK frame : /\ frames' = [frames EXCEPT ![r] = [frames[r] EXCEPT ![Len(frames[r])] = frame]]
                     /\ held' = held /\ pc[r] = "entries"
                     /\ pc' = pc \/ pc' = [pc EXCEPT ![r] = "list"]
    <3>1. CASE req[r].method = "deep" /\ IsDir(child)
      BY <1>5, <3>1 DEF Entry, Goto, Descend
    <3>2. CASE ~(req[r].method = "deep" /\ IsDir(child))
      BY <1>5, <3>2 DEF Entry
    <3> QED
      BY <3>1, <3>2
  <2>2. frames'[r] = [frames[r] EXCEPT ![Len(frames[r])] = frame] /\ pc'[r] \in {"entries", "list"}
    BY <2>1 DEF LockInv
  <2>3. frames[r] \in Seq(S \cup {frame})
    BY <1>2
  <2>4. frames'[r] \in Seq(S \cup {frame}) /\ Len(frames'[r]) = Len(frames[r]) /\ frames'[r] # << >>
    BY <1>3, <2>1, <2>2, <2>3
  <2>5. Holds(r)'
    BY <1>1, <1>3, <2>1, <2>2, <2>4 DEF Holds, InReadLock, Lists
  <2> QED
    BY <1>1, <1>3, <2>1, <2>5, OtherLocksKeep DEF LockInv
<1>6. CASE ReadDirReturns(r)
  <2>1. held' = [held EXCEPT ![r] = @ - 1] /\ held'[r] = held[r] - 1 /\ pc[r] = "entries"
    BY <1>6 DEF ReadDirReturns, RUnlock, LockInv
  <2>2. CASE Len(frames[r]) = 1
    <3>1. Answer(r, "ok") /\ held'[r] = 0
      BY <1>3, <1>6, <2>1, <2>2 DEF ReadDirReturns
    <3> QED
      BY <1>1, <2>1, <3>1, AnswerUnlocks DEF LockInv
  <2>3. CASE Len(frames[r]) # 1
    <3>1. frames' = [frames EXCEPT ![r] = Front(@)] /\ UNCHANGED pc
      BY <1>6, <2>3 DEF ReadDirReturns
    <3>2. frames'[r] = SubSeq(frames[r], 1, Len(frames[r]) - 1)
      BY <3>1 DEF LockInv, Front
    <3>3. frames'[r] \in Seq(S) /\ Len(frames'[r]) = Len(frames[r]) - 1 /\ frames'[r] # << >>
      <4>1. Len(frames[r]) >= 2 /\ Len(frames[r]) \in Nat
        <5> DEFINE n == Len(frames[r])
        <5>1. n \in Nat /\ n >= 1 /\ n # 1
          BY <1>3, <2>1, <2>3
        <5> HIDE DEF n
        <5>2. n >= 2 /\ n \in Nat
          BY <5>1
        <5> QED
          BY <5>2 DEF n
      <4> DEFINE q == frames[r]
      <4>2. q \in Seq(S) /\ Len(q) >= 2 /\ Len(q) \in Nat /\ frames'[r] = SubSeq(q, 1, Len(q) - 1)
        BY <1>2, <3>2, <4>1
      <4> HIDE DEF q
      <4>3. SubSeq(q, 1, Len(q) - 1) \in Seq(S) /\ Len(SubSeq(q, 1, Len(q) - 1)) = Len(q) - 1
        BY <4>2
      <4>4. frames'[r] \in Seq(S) /\ Len(frames'[r]) = Len(q) - 1 /\ Len(frames'[r]) >= 1
        BY <4>2, <4>3
      <4> QED
        BY <4>4 DEF q
    <3>4. pc'[r] = "entries" /\ held'[r] = Len(frames'[r])
      BY <1>3, <2>1, <3>1, <3>3
    <3>5. Holds(r)'
      BY <1>1, <3>3, <3>4 DEF Holds, InReadLock, Lists
    <3> QED
      BY <1>1, <1>3, <2>1, <3>1, <3>5, OtherLocksKeep DEF LockInv
  <2> QED
    BY <2>2, <2>3
<1> QED
  BY <1>4, <1>5, <1>6

LEMMA HandleLocks ==
  ASSUME LockInv, NEW r \in Requests, Handle(r)
  PROVE  LockInv'
<1> USE DEF lockVars
<1>1. Holds(r) /\ Len(frames[r]) \in Nat
  BY DEF LockInv, Holds
<1>2. CASE Stat(r) \/ Open(r)
  <2>1. /\ pc[r] \in {"statting", "opening"} /\ UNCHANGED <<writer, waits>> /\ frames[r] = << >>
        /\ held[r] = 1 /\ r \notin waits /\ writer # "locked"
    BY <1>1, <1>2 DEF Stat, Open, Holds, LockInv, InReadLock, Lists, Locks
  <2>2. held' = [held EXCEPT ![r] = @ - 1] /\ held'[r] = 0
    BY <1>2, <2>1 DEF Stat, Open, OpenFails, RUnlock, LockInv
  <2>3. (\E what : Answer(r, what)) \/ \E there \in {"open", "list", "size"} : Goto(r, there) /\ UNCHANGED frames
    BY <1>2 DEF Stat, Open, OpenFails
  <2>4. ASSUME NEW there \in {"open", "list", "size"}, Goto(r, there), UNCHANGED frames
        PROVE  LockInv'
    <3>1. pc'[r] = there /\ pc' = [pc EXCEPT ![r] = there] /\ frames'[r] = << >>
          /\ frames'[r] \in Seq({}) /\ Len(frames'[r]) = 0
      BY <2>1, <2>4 DEF Goto, LockInv
    <3>2. Holds(r)'
      BY <2>1, <2>2, <3>1 DEF Holds, InReadLock, Lists
    <3> QED
      BY <2>1, <2>2, <2>4, <3>1, <3>2, OtherLocksKeep DEF LockInv
  <2> QED
    BY <2>1, <2>2, <2>3, <2>4, AnswerUnlocks DEF LockInv
<1>3. CASE Answered(r) \/ SeekEnd(r) \/ Seek(r) \/ Read(r) \/ Copied(r)
  <2>1. /\ pc[r] \in {"answered", "size", "seek", "copy"} /\ UNCHANGED <<writer, held, waits>>
    BY <1>3 DEF Answered, SeekEnd, Seek, Read, Copied
  <2>2. r \notin waits /\ frames[r] = << >> /\ held[r] = 0
    <3>1. DOMAIN Locks = {"stat", "open", "list"}
      BY DEF Locks
    <3>2. r \notin waits
      BY <1>1, <2>1, <3>1 DEF Holds
    <3>3. frames[r] = << >> /\ pc[r] \notin InReadLock
      BY <1>1, <2>1 DEF Holds, InReadLock, Lists
    <3>4. held[r] = Len(frames[r]) + 0
      BY <1>1, <3>3 DEF Holds
    <3> QED
      BY <3>2, <3>3, <3>4
  <2>3. \/ \E what : Answer(r, what)
        \/ \E there \in {"idle", "seek", "copy"} : Goto(r, there) /\ UNCHANGED frames
        \/ UNCHANGED <<pc, frames>>
    BY <1>3 DEF Answered, SeekEnd, Seek, Read, Copied
  <2>4. CASE \E what : Answer(r, what)
    BY <2>1, <2>2, <2>4, AnswerUnlocks DEF LockInv
  <2>5. ASSUME NEW there \in {"idle", "seek", "copy"}, Goto(r, there), UNCHANGED frames
        PROVE  LockInv'
    BY <2>1, <2>2, <2>5, QuietSteps DEF Lists, InReadLock
  <2>6. CASE UNCHANGED <<pc, frames>>
    BY <2>1, <2>6 DEF LockInv, Holds
  <2> QED
    BY <2>3, <2>4, <2>5, <2>6
<1> QED
  BY <1>2, <1>3, RLockStep, ListLocks DEF Handle

LEMMA LockInvStep ==
  ASSUME LockInv, [DavNext]_davVars
  PROVE  LockInv'
<1>1. CASE UNCHANGED davVars
  BY <1>1 DEF davVars, lockVars, requestVars, LockInv, Holds
<1>2. ASSUME NEW r \in Requests, NEW path \in Targets,
             \/ \E method, from : Request(r, method, path, from)
             \/ ReadOnly(r, path)
      PROVE  LockInv'
  <2>1. pc[r] = "idle" /\ UNCHANGED <<writer, held, waits>> /\ Holds(r)
    BY <1>2 DEF Request, ReadOnly, lockVars, LockInv
  <2>2. r \notin waits /\ frames[r] = << >> /\ held[r] = 0
    BY <2>1 DEF Holds, InReadLock, Lists, Locks
  <2>3. CASE Answer(r, "readonly")
    BY <2>1, <2>2, <2>3, AnswerUnlocks DEF LockInv
  <2>4. CASE Goto(r, "stat") /\ UNCHANGED frames
    BY <2>1, <2>2, <2>4, QuietSteps DEF Lists, InReadLock
  <2> QED
    BY <1>2, <2>3, <2>4 DEF Request, ReadOnly
<1>3. ASSUME Service \/ \E op \in {"add", "remove"}, path \in Paths : Change(op, path) PROVE LockInv'
  BY <1>3, WriterStep
<1> QED
  BY <1>1, <1>2, <1>3, HandleLocks DEF DavNext

(* No request sees the tree change while it holds the lock, not even between   *)
(* the folders of a listing: what it has found stays there until it has let   *)
(* go (filesystem.go:234).                                               *)
StableUnderLock == [][\A r \in Requests : held[r] > 0 => tree' = tree]_davVars

(* A request that is answered holds no lock, whichever way it ended.          *)
LocksReturned == \A r \in Requests : pc[r] \in {"idle", "answered", "size", "seek", "copy"} => held[r] = 0

(* The read lock keeps the tree as it is for every ReadDir below another, and *)
(* each is given back before the answer, for any requests and trees.         *)
THEOREM LockCorrect == DavSpec => StableUnderLock /\ []LocksReturned
<1>1. LockInv /\ [DavNext]_davVars => LockInv'
  BY LockInvStep
<1>2. LockInv => LocksReturned
  <2> SUFFICES ASSUME LockInv, NEW r \in Requests, pc[r] \in {"idle", "answered", "size", "seek", "copy"}
               PROVE  held[r] = 0
    BY DEF LocksReturned
  <2>1. frames[r] = << >> /\ held[r] = Len(frames[r])
    BY DEF LockInv, Holds, InReadLock, Lists
  <2> QED
    BY <2>1
<1>3. ASSUME LockInv, DavNext, NEW r \in Requests, held[r] > 0 PROVE tree' = tree
  <2>1. writer # "locked"
    BY <1>3 DEF LockInv
  <2>2. ~Unlock
    BY <2>1 DEF Unlock
  <2> QED
    BY <1>3, <2>2
    DEF DavNext, Service, Lock, Change, Request, ReadOnly, Handle, Answered, RLock, Stat, ReadDir,
        ReadDirReturns, Entry, Open, SeekEnd, Seek, Read, Copied
<1>4. LockInv /\ [DavNext]_davVars => [\A r \in Requests : held[r] > 0 => tree' = tree]_davVars
  BY <1>3
<1> QED
  BY <1>1, <1>2, <1>4, LockInit, PTL DEF DavSpec, StableUnderLock

-----------------------------------------------------------------------------
(* The names of a set of paths                                               *)

Named(paths, name) == {p \in paths : Last(p) = name}

(* How many of the paths have a name.                                        *)
CountBag(paths) == [name \in {Last(p) : p \in paths} |-> Cardinality(Named(paths, name))]

LEMMA CountOfNone == CountBag({}) = EmptyBag
<1>1. CountBag({}) = [name \in {} |-> Cardinality(Named({}, name))]
  BY DEF CountBag
<1> QED
  BY <1>1 DEF EmptyBag, SetToBag

(* One path more is one more of its name.                                    *)
LEMMA CountOneMore ==
  ASSUME NEW paths, IsFiniteSet(paths), NEW p, p \notin paths
  PROVE  CountBag(paths \cup {p}) = CountBag(paths) (+) SetToBag({Last(p)})
<1> DEFINE all == paths \cup {p}
           one == SetToBag({Last(p)})
<1>1. DOMAIN CountBag(all) = DOMAIN CountBag(paths) \cup {Last(p)}
  BY DEF CountBag
<1>2. DOMAIN one = {Last(p)} /\ one[Last(p)] = 1
  BY DEF SetToBag
<1>3. ASSUME NEW name
      PROVE  IsFiniteSet(Named(paths, name)) /\ Cardinality(Named(paths, name)) \in Nat
             /\ (name \notin DOMAIN CountBag(paths) => Cardinality(Named(paths, name)) = 0)
  <2>1. Named(paths, name) \subseteq paths
    BY DEF Named
  <2>2. name \notin DOMAIN CountBag(paths) => Named(paths, name) = {}
    BY DEF CountBag, Named
  <2> QED
    BY <2>1, <2>2, FS_Subset, FS_CardinalityType, FS_EmptySet
<1>4. ASSUME NEW name \in DOMAIN CountBag(all)
      PROVE  Cardinality(Named(all, name)) =
               (IF name \in DOMAIN CountBag(paths) THEN CountBag(paths)[name] ELSE 0)
                 + (IF name \in DOMAIN one THEN one[name] ELSE 0)
  <2>0. name \in DOMAIN CountBag(paths) => CountBag(paths)[name] = Cardinality(Named(paths, name))
    BY DEF CountBag
  <2>1. CASE name = Last(p)
    <3>1. Named(all, name) = Named(paths, name) \cup {p} /\ p \notin Named(paths, name)
      BY <2>1 DEF Named
    <3>2. Cardinality(Named(all, name)) = Cardinality(Named(paths, name)) + 1
      BY <1>3, <3>1, FS_AddElement
    <3> QED
      BY <1>2, <1>3, <2>0, <2>1, <3>2
  <2>2. CASE name # Last(p)
    <3>1. Named(all, name) = Named(paths, name)
      BY <2>2 DEF Named
    <3>2. name \notin DOMAIN one
      BY <1>2, <2>2
    <3> QED
      BY <1>3, <2>0, <3>1, <3>2
  <2> QED
    BY <2>1, <2>2
<1>5. CountBag(all) = [name \in DOMAIN CountBag(all) |-> Cardinality(Named(all, name))]
  BY DEF CountBag
<1> HIDE DEF all, one
<1>6. CountBag(all) = [name \in DOMAIN CountBag(paths) \cup DOMAIN one |->
                        (IF name \in DOMAIN CountBag(paths) THEN CountBag(paths)[name] ELSE 0)
                          + (IF name \in DOMAIN one THEN one[name] ELSE 0)]
  BY <1>1, <1>2, <1>4, <1>5
<1> QED
  BY <1>6 DEF (+), all, one

(* Induction over a number, as the least at which the claim fails.           *)
LEMMA Induct ==
  ASSUME NEW A, 0 \in A, \A n \in Nat : n \in A => n + 1 \in A
  PROVE  Nat \subseteq A
<1> DEFINE R == {p \in Nat \X Nat : p[1] < p[2]}
<1>1. OpToRel(<, Nat) = R
  BY DEF OpToRel
<1>2. IsWellFoundedOn(R, Nat)
  BY <1>1, NatLessThanWellFounded
<1> SUFFICES ASSUME Nat \ A # {} PROVE FALSE
  OBVIOUS
<1>3. PICK n \in Nat \ A : \A m \in Nat \ A : ~ (<<m, n>> \in R)
  <2> HIDE DEF R
  <2> QED
    BY <1>2, WFMin
<1>4. n # 0 /\ n - 1 \in Nat /\ <<n - 1, n>> \in R /\ (n - 1) + 1 = n
  BY <1>3
<1>5. n - 1 \in A
  BY <1>3, <1>4
<1> QED
  BY <1>3, <1>4, <1>5

(* The fold of Names. *)
IsNames(g, paths) ==
  g = [s \in SUBSET paths |->
        IF s = {} THEN EmptyBag
        ELSE g[s \ {CHOOSE p \in s : TRUE}] (+) SetToBag({Last(CHOOSE p \in s : TRUE)})]

(* Names is what a fold over all the paths gives.                            *)
LEMMA NamesFold ==
  ASSUME NEW paths
  PROVE  Names(paths) = (CHOOSE g : IsNames(g, paths))[paths]
BY Zenon DEF Names, FoldSet, MapThenFoldSet, IsNames

(* Any such fold counts the names, by induction over the number of paths.    *)
LEMMA CountIsNames ==
  ASSUME NEW paths, IsFiniteSet(paths)
  PROVE  IsNames([s \in SUBSET paths |-> CountBag(s)], paths)
<1> DEFINE g == [s \in SUBSET paths |-> CountBag(s)]
<1>1. ASSUME NEW s \in SUBSET paths, s # {}
      PROVE  CountBag(s) = g[s \ {CHOOSE p \in s : TRUE}] (+) SetToBag({Last(CHOOSE p \in s : TRUE)})
  <2> DEFINE p == CHOOSE q \in s : TRUE
  <2>1. p \in s
    BY <1>1
  <2> HIDE DEF p
  <2>2. s \ {p} \in SUBSET paths /\ IsFiniteSet(s \ {p}) /\ p \notin s \ {p} /\ (s \ {p}) \cup {p} = s
    BY <2>1, FS_Subset
  <2>3. CountBag((s \ {p}) \cup {p}) = CountBag(s \ {p}) (+) SetToBag({Last(p)})
    BY <2>2, CountOneMore
  <2>4. g[s \ {p}] = CountBag(s \ {p})
    BY <2>2
  <2>5. CountBag(s) = g[s \ {p}] (+) SetToBag({Last(p)})
    BY <2>2, <2>3, <2>4
  <2> QED
    BY <2>5 DEF p
<1>2. ASSUME NEW s \in SUBSET paths
      PROVE  CountBag(s) = IF s = {} THEN EmptyBag
                ELSE g[s \ {CHOOSE p \in s : TRUE}] (+) SetToBag({Last(CHOOSE p \in s : TRUE)})
  BY <1>1, CountOfNone
<1>3. g = [s \in SUBSET paths |-> CountBag(s)]
  OBVIOUS
<1> HIDE DEF g
<1>4. IsNames(g, paths)
  BY <1>2, <1>3, Zenon DEF IsNames
<1> QED
  BY <1>4 DEF g

(* The fold chooses the order of the paths, and comes to their number for any. *)
LEMMA NamesCount ==
  ASSUME NEW paths, IsFiniteSet(paths)
  PROVE  Names(paths) = CountBag(paths)
<1> DEFINE g == CHOOSE f : IsNames(f, paths)
           A == {n \in Nat : \A s \in SUBSET paths : Cardinality(s) = n => g[s] = CountBag(s)}
<1>1. IsNames(g, paths)
  BY CountIsNames
<1>2. \A s \in SUBSET paths : IsFiniteSet(s) /\ Cardinality(s) \in Nat /\ (Cardinality(s) = 0 <=> s = {})
  BY FS_Subset, FS_CardinalityType, FS_EmptySet
<1>3. g = [s \in SUBSET paths |->
            IF s = {} THEN EmptyBag
            ELSE g[s \ {CHOOSE p \in s : TRUE}] (+) SetToBag({Last(CHOOSE p \in s : TRUE)})]
  BY <1>1 DEF IsNames
<1> HIDE DEF g
<1>4. ASSUME NEW s \in SUBSET paths
      PROVE  g[s] = IF s = {} THEN EmptyBag
                    ELSE g[s \ {CHOOSE p \in s : TRUE}] (+) SetToBag({Last(CHOOSE p \in s : TRUE)})
  BY <1>3, Zenon
<1>5. 0 \in A
  BY <1>2, <1>4, CountOfNone
<1>6. ASSUME NEW n \in Nat, n \in A PROVE n + 1 \in A
  <2> SUFFICES ASSUME NEW s \in SUBSET paths, Cardinality(s) = n + 1 PROVE g[s] = CountBag(s)
    OBVIOUS
  <2> DEFINE p == CHOOSE q \in s : TRUE
  <2>1. s # {} /\ IsFiniteSet(s)
    BY <1>2
  <2>2. p \in s
    BY <2>1
  <2>3. g[s] = g[s \ {p}] (+) SetToBag({Last(p)})
    BY <1>4, <2>1, Zenon
  <2> HIDE DEF p
  <2>4. /\ s \ {p} \in SUBSET paths /\ p \notin s \ {p} /\ (s \ {p}) \cup {p} = s
        /\ IsFiniteSet(s \ {p}) /\ Cardinality(s \ {p}) = n
    <3>1. IsFiniteSet(s \ {p}) /\ Cardinality(s \ {p}) = Cardinality(s) - 1
      BY <2>1, <2>2, FS_RemoveElement
    <3> QED
      BY <2>2, <3>1
  <2>5. g[s \ {p}] = CountBag(s \ {p})
    BY <1>6, <2>4
  <2>6. CountBag((s \ {p}) \cup {p}) = CountBag(s \ {p}) (+) SetToBag({Last(p)})
    BY <2>4, CountOneMore
  <2> QED
    BY <2>3, <2>4, <2>5, <2>6
<1>7. Nat \subseteq A
  <2> HIDE DEF A
  <2> QED
    BY <1>5, <1>6, Induct
<1>8. g[paths] = CountBag(paths)
  BY <1>2, <1>7
<1> QED
  BY <1>8, NamesFold DEF g

-----------------------------------------------------------------------------
(* Paths *)

(* Of files and folders: the root is neither.                                *)
Path == Seq(STRING) \ {<< >>}

(* p is where q is, or above it.                                             *)
LEMMA PrefixIs ==
  ASSUME NEW p \in Seq(STRING), NEW q \in Seq(STRING)
  PROVE  /\ IsPrefix(p, q) <=> Len(p) <= Len(q) /\ \A i \in 1 .. Len(p) : p[i] = q[i]
         /\ IsStrictPrefix(p, q) <=> IsPrefix(p, q) /\ Len(p) < Len(q)
<1>1. ASSUME Len(p) <= Len(q)
      PROVE  SubSeq(p, 1, Len(p)) = SubSeq(q, 1, Len(p)) <=> \A i \in 1 .. Len(p) : p[i] = q[i]
  <2>1. SubSeq(p, 1, Len(p)) = p
    OBVIOUS
  <2>2. SubSeq(q, 1, Len(p)) \in Seq(STRING) /\ Len(SubSeq(q, 1, Len(p))) = Len(p)
    BY <1>1
  <2>3. \A i \in 1 .. Len(p) : SubSeq(q, 1, Len(p))[i] = q[i]
    BY <1>1
  <2> QED
    BY <2>1, <2>2, <2>3
<1>2. Len(p) = Len(q) /\ (\A i \in 1 .. Len(p) : p[i] = q[i]) => p = q
  OBVIOUS
<1>3. IsPrefix(p, q) <=> Len(p) <= Len(q) /\ \A i \in 1 .. Len(p) : p[i] = q[i]
  BY <1>1 DEF IsPrefix
<1>4. Len(p) \in Nat /\ Len(q) \in Nat
  OBVIOUS
<1>5. IsStrictPrefix(p, q) <=> IsPrefix(p, q) /\ p # q
  BY DEF IsStrictPrefix
<1> QED
  BY <1>2, <1>3, <1>4, <1>5

(* Being there or above is transitive, and says which path is longer.        *)
LEMMA PrefixOrder ==
  ASSUME NEW p \in Seq(STRING), NEW q \in Seq(STRING), NEW r \in Seq(STRING)
  PROVE  /\ IsPrefix(p, p)
         /\ IsPrefix(p, q) /\ IsPrefix(q, r) => IsPrefix(p, r)
         /\ IsPrefix(p, r) /\ IsPrefix(q, r) /\ Len(p) <= Len(q) => IsPrefix(p, q)
         /\ IsPrefix(p, q) /\ Len(p) = Len(q) => p = q
<1>1. IsPrefix(p, q) /\ IsPrefix(q, r) => IsPrefix(p, r)
  BY PrefixIs
<1>2. IsPrefix(p, r) /\ IsPrefix(q, r) /\ Len(p) <= Len(q) => IsPrefix(p, q)
  BY PrefixIs
<1>3. IsPrefix(p, q) /\ Len(p) = Len(q) => p = q
  BY PrefixIs
<1>4. IsPrefix(p, p)
  BY PrefixIs
<1> QED
  BY <1>1, <1>2, <1>3, <1>4

(* The folders of a path are the paths above it, one of each length. *)
LEMMA FoldersAre ==
  ASSUME NEW p \in Path
  PROVE  /\ \A d \in Folders(p) : d \in Path /\ IsPrefix(d, p) /\ Len(d) < Len(p)
         /\ \A d \in Path : IsStrictPrefix(d, p) => d \in Folders(p)
         /\ \A i \in 1 .. Len(p) - 1 : SubSeq(p, 1, i) \in Folders(p) /\ Len(SubSeq(p, 1, i)) = i
<1>1. ASSUME NEW i \in 1 .. Len(p) - 1
      PROVE  SubSeq(p, 1, i) \in Path /\ IsPrefix(SubSeq(p, 1, i), p) /\ Len(SubSeq(p, 1, i)) = i
  <2>1. SubSeq(p, 1, i) \in Seq(STRING) /\ Len(SubSeq(p, 1, i)) = i
    BY DEF Path
  <2>2. \A j \in 1 .. i : SubSeq(p, 1, i)[j] = p[j]
    BY DEF Path
  <2>3. p \in Seq(STRING) /\ i < Len(p) /\ i # 0
    BY DEF Path
  <2>4. IsPrefix(SubSeq(p, 1, i), p)
    <3> DEFINE d == SubSeq(p, 1, i)
    <3> HIDE DEF d
    <3>1. d \in Seq(STRING) /\ Len(d) <= Len(p) /\ \A j \in 1 .. Len(d) : d[j] = p[j]
      BY <2>1, <2>2, <2>3 DEF d
    <3>2. IsPrefix(d, p)
      BY <2>3, <3>1, PrefixIs
    <3> QED
      BY <3>2 DEF d
  <2>5. SubSeq(p, 1, i) # << >>
    BY <2>1, <2>3
  <2> QED
    BY <2>1, <2>4, <2>5 DEF Path
<1>2. ASSUME NEW d \in Path, IsStrictPrefix(d, p)
      PROVE  d \in Folders(p)
  <2>1. Len(d) < Len(p) /\ IsPrefix(d, p)
    BY <1>2, PrefixIs DEF Path
  <2>2. Len(d) \in Nat /\ Len(d) # 0 /\ Len(p) \in Nat
    BY DEF Path
  <2>3. d = SubSeq(d, 1, Len(d))
    BY DEF Path
  <2>4. d = SubSeq(p, 1, Len(d)) /\ Len(d) \in 1 .. Len(p) - 1
    BY <2>1, <2>2, <2>3 DEF IsPrefix
  <2> QED
    BY <2>4 DEF Folders
<1>3. \A d \in Folders(p) : d \in Path /\ IsPrefix(d, p) /\ Len(d) < Len(p)
  <2> SUFFICES ASSUME NEW i \in 1 .. Len(p) - 1
               PROVE  SubSeq(p, 1, i) \in Path /\ IsPrefix(SubSeq(p, 1, i), p) /\ Len(SubSeq(p, 1, i)) < Len(p)
    BY DEF Folders
  <2>1. Len(p) \in Nat
    BY DEF Path
  <2> QED
    BY <1>1, <2>1
<1> QED
  BY <1>1, <1>2, <1>3 DEF Folders

-----------------------------------------------------------------------------
(* What the calls of ReadDir have still to list *)

(* The folders on the way to what is in the tree are in it.                  *)
Rooted(paths) ==
  paths \subseteq Path /\ IsFiniteSet(paths) /\ \A p \in paths : Folders(p) \subseteq paths

(* A call of ReadDir: the folder it is in, and the children left to it.      *)
Frame == [at : Seq(STRING), left : SUBSET Path]

(* The folder that call i lists; the one that the call after all of f will.   *)
Base(path, f, i) == IF i = 1 THEN path ELSE f[i - 1].at

(* ReadDir of path, going down, comes to the folder.                         *)
Reaches(path, dir) ==
  /\ dir \in {Root} \cup DOMAIN tree /\ IsPrefix(path, dir)
  /\ \A d \in Folders(dir) \cup {dir} : IsStrictPrefix(path, d) => tree[d] = Folder

(* Each call lists children of its folder, and what is below it is below the  *)
(* child that it has listed last.                                            *)
Chain(path, f, depth) ==
  \A i \in 1 .. depth :
    /\ Reaches(path, Base(path, f, i))
    /\ i <= Len(f) => f[i].left \subseteq Children(Base(path, f, i))
    /\ \A j \in i + 1 .. depth :
         f[i].at \in Children(Base(path, f, i)) \ f[i].left /\ IsPrefix(f[i].at, Base(path, f, j))

(* What is not listed yet: what is left of a call, with all below it, and the *)
(* folder that is about to be listed.                                        *)
Remains(path, f, going, p) ==
  \/ \E i \in 1 .. Len(f) : \E c \in f[i].left : IsPrefix(c, p)
  \/ going /\ IsStrictPrefix(Base(path, f, Len(f) + 1), p)

Unlisted(method, path, f, going) == {p \in Listed(method, path) : Remains(path, f, going, p)}

(* What is listed so far are the names of all that does not remain.          *)
Walks(method, path, f, going, bag) ==
  /\ f \in Seq(Frame)
  /\ f # << >> => path \in Seq(STRING) /\ Chain(path, f, IF going THEN Len(f) + 1 ELSE Len(f))
  /\ method # "deep" => Len(f) <= 1 /\ (going => f = << >>)
  /\ bag = CountBag(Listed(method, path) \ Unlisted(method, path, f, going))

(* What is listed is below the folder, with no file on the way.              *)
LEMMA ListedAre ==
  ASSUME Rooted(DOMAIN tree), NEW method, NEW path
  PROVE  /\ Listed(method, path) \subseteq DOMAIN tree /\ IsFiniteSet(Listed(method, path))
         /\ \A p \in Listed(method, path) : p \in Path /\ IsStrictPrefix(path, p)
<1>1. Listed(method, path) \subseteq DOMAIN tree /\ \A p \in Listed(method, path) : IsStrictPrefix(path, p)
  BY DEF Listed, Below
<1> QED
  BY <1>1, FS_Subset DEF Rooted

(* Before the first call all remains, *)
LEMMA WalkBegins ==
  ASSUME NEW method, NEW path
  PROVE  Walks(method, path, << >>, TRUE, EmptyBag)
<1>1. \A p \in Listed(method, path) : Remains(path, << >>, TRUE, p)
  BY DEF Remains, Base, Listed, Below
<1>2. Listed(method, path) \ Unlisted(method, path, << >>, TRUE) = {}
  BY <1>1 DEF Unlisted
<1>3. << >> \in Seq(Frame) /\ Len(<< >>) <= 1
  OBVIOUS
<1>4. EmptyBag = CountBag(Listed(method, path) \ Unlisted(method, path, << >>, TRUE))
  BY <1>2, CountOfNone
<1> QED
  BY <1>3, <1>4, Zenon DEF Walks

(* and after it is done nothing.                                             *)
LEMMA WalkEnds ==
  ASSUME Rooted(DOMAIN tree), NEW method, NEW path, NEW f, NEW bag,
         Walks(method, path, f, FALSE, bag), Len(f) = 1, f[1].left = {}
  PROVE  bag = Names(Listed(method, path))
<1>1. Unlisted(method, path, f, FALSE) = {}
  BY DEF Unlisted, Remains
<1>2. bag = CountBag(Listed(method, path))
  BY <1>1 DEF Walks
<1> QED
  BY <1>2, ListedAre, NamesCount

(* What is below a folder is below its children.                             *)
LEMMA BelowChildren ==
  ASSUME Rooted(DOMAIN tree), NEW dir \in Seq(STRING), NEW p \in DOMAIN tree
  PROVE  IsStrictPrefix(dir, p) <=> \E c \in Children(dir) : IsPrefix(c, p)
<1>0. p \in Path /\ p \in Seq(STRING) /\ DOMAIN tree \subseteq Path /\ Path \subseteq Seq(STRING)
  BY DEF Rooted, Path
<1>1. ASSUME NEW c \in Children(dir), IsPrefix(c, p)
      PROVE  IsStrictPrefix(dir, p)
  <2>1. c \in Seq(STRING) /\ Len(c) = Len(dir) + 1 /\ IsPrefix(dir, c)
    BY <1>0 DEF Children
  <2>2. IsPrefix(dir, p) /\ Len(c) <= Len(p)
    BY <1>0, <1>1, <2>1, PrefixOrder, PrefixIs
  <2> QED
    BY <1>0, <2>1, <2>2, PrefixIs
<1>2. ASSUME IsStrictPrefix(dir, p)
      PROVE  \E c \in Children(dir) : IsPrefix(c, p)
  <2> DEFINE n == Len(dir) + 1
  <2>1. n \in Nat /\ n >= 1 /\ n <= Len(p) /\ IsPrefix(dir, p) /\ Len(p) \in Nat
    BY <1>0, <1>2, PrefixIs
  <2>2. CASE n = Len(p)
    <3>1. p \in Children(dir)
      BY <2>1, <2>2 DEF Children
    <3> QED
      BY <1>0, <3>1, PrefixOrder
  <2>3. CASE n < Len(p)
    <3> DEFINE c == SubSeq(p, 1, n)
    <3> HIDE DEF n
    <3>1. n \in 1 .. Len(p) - 1
      BY <2>1, <2>3
    <3>2. c \in Folders(p) /\ Len(c) = n
      BY <1>0, <3>1, FoldersAre
    <3> HIDE DEF c
    <3>3. c \in DOMAIN tree /\ c \in Seq(STRING) /\ IsPrefix(c, p)
      BY <1>0, <3>2, FoldersAre DEF Rooted
    <3>4. IsPrefix(dir, c)
      BY <1>0, <2>1, <3>2, <3>3, PrefixOrder DEF n
    <3> QED
      BY <3>2, <3>3, <3>4 DEF Children, n
  <2> QED
    BY <2>1, <2>2, <2>3
<1> QED
  BY <1>1, <1>2

(* ReadDir: what was below the folder is below what is left of it.           *)
LEMMA WalkPushes ==
  ASSUME Rooted(DOMAIN tree), NEW method, NEW path, NEW f, NEW bag, Walks(method, path, f, TRUE, bag),
         NEW dir, dir = Base(path, f, Len(f) + 1), dir \in {Root} \cup DOMAIN tree
  PROVE  Walks(method, path, Append(f, [at |-> dir, left |-> Children(dir)]), FALSE, bag)
<1> DEFINE frame == [at |-> dir, left |-> Children(dir)]
           g     == Append(f, frame)
           n     == Len(f)
<1>0. DOMAIN tree \subseteq Path /\ Path \subseteq Seq(STRING) /\ Root \in Seq(STRING) /\ dir \in Seq(STRING)
  <2>1. DOMAIN tree \subseteq Path /\ Path \subseteq Seq(STRING)
    BY DEF Rooted, Path
  <2>2. Root \in Seq(STRING)
    BY DEF Root
  <2> QED
    BY <2>1, <2>2
<1>1. f \in Seq(Frame) /\ n \in Nat
  BY DEF Walks
<1>2. frame \in Frame /\ frame.at = dir /\ frame.left = Children(dir)
  <2>1. Children(dir) \subseteq Path
    BY <1>0 DEF Children
  <2> QED
    BY <1>0, <2>1 DEF Frame
<1> HIDE DEF frame
<1>3. /\ g \in Seq(Frame) /\ Len(g) = n + 1 /\ g # << >>
      /\ g[n + 1] = frame /\ \A i \in 1 .. n : g[i] = f[i]
  BY <1>1, <1>2
<1> HIDE DEF g
<1>4. \A i \in 1 .. n + 1 : Base(path, g, i) = Base(path, f, i)
  <2> SUFFICES ASSUME NEW i \in 1 .. n + 1, i # 1 PROVE g[i - 1].at = f[i - 1].at
    BY DEF Base
  <2>1. i - 1 \in 1 .. n
    BY <1>1
  <2> QED
    BY <1>3, <2>1
<1>5. path \in Seq(STRING) /\ Chain(path, g, n + 1)
  <2>1. CASE f = << >>
    <3>1. n = 0 /\ dir = path
      BY <2>1 DEF Base
    <3>2. Reaches(path, path)
      <4>1. \A d \in Folders(path) \cup {path} : d \in Seq(STRING) /\ Len(d) <= Len(path)
        <5>1. CASE path = Root
          <6>1. Folders(path) = {}
            BY <5>1 DEF Folders, Root
          <6>2. Len(path) <= Len(path)
            BY <1>0, <3>1
          <6> QED
            BY <1>0, <5>1, <6>1, <6>2
        <5>2. CASE path \in Path
          BY <1>0, <5>2, FoldersAre
        <5> QED
          BY <1>0, <3>1, <5>1, <5>2
      <4>2. \A d \in Folders(path) \cup {path} : ~IsStrictPrefix(path, d)
        BY <1>0, <3>1, <4>1, PrefixIs
      <4> QED
        BY <1>0, <3>1, <4>2, PrefixOrder DEF Reaches
    <3>3. Base(path, g, 1) = path /\ g[1].left = Children(path)
      BY <1>2, <1>3, <3>1 DEF Base
    <3>4. ASSUME NEW i \in 1 .. n + 1
          PROVE  i = 1 /\ i + 1 .. n + 1 = {}
      BY <3>1
    <3>5. Chain(path, g, n + 1)
      BY <1>3, <3>2, <3>3, <3>4 DEF Chain
    <3> QED
      BY <1>0, <3>1, <3>5
  <2>2. CASE f # << >>
    <3>1. path \in Seq(STRING) /\ Chain(path, f, n + 1)
      BY <2>2 DEF Walks
    <3>2. ASSUME NEW i \in 1 .. n + 1
          PROVE  /\ Reaches(path, Base(path, g, i))
                 /\ i <= Len(g) => g[i].left \subseteq Children(Base(path, g, i))
                 /\ \A j \in i + 1 .. n + 1 : /\ g[i].at \in Children(Base(path, g, i)) \ g[i].left
                                              /\ IsPrefix(g[i].at, Base(path, g, j))
      <4>1. /\ Reaches(path, Base(path, g, i))
            /\ i <= n => f[i].left \subseteq Children(Base(path, g, i))
            /\ \A j \in i + 1 .. n + 1 : /\ f[i].at \in Children(Base(path, g, i)) \ f[i].left
                                         /\ IsPrefix(f[i].at, Base(path, f, j))
        BY <1>4, <3>1 DEF Chain
      <4>2. CASE i \in 1 .. n
        <5>1. g[i] = f[i] /\ i <= n
          BY <1>3, <4>2
        <5>2. \A j \in i + 1 .. n + 1 : Base(path, g, j) = Base(path, f, j)
          BY <1>1, <1>4
        <5> QED
          BY <4>1, <5>1, <5>2
      <4>3. CASE i = n + 1
        <5>1. g[i].left = Children(Base(path, g, i)) /\ i + 1 .. n + 1 = {}
          BY <1>1, <1>2, <1>3, <1>4, <4>3
        <5> QED
          BY <4>1, <5>1
      <4> QED
        BY <1>1, <4>2, <4>3
    <3> QED
      BY <3>1, <3>2 DEF Chain
  <2> QED
    BY <2>1, <2>2
<1>6. ASSUME NEW p \in Listed(method, path)
      PROVE  Remains(path, g, FALSE, p) <=> Remains(path, f, TRUE, p)
  <2>1. p \in DOMAIN tree
    BY ListedAre
  <2>2. IsStrictPrefix(dir, p) <=> \E c \in Children(dir) : IsPrefix(c, p)
    BY <1>0, <2>1, BelowChildren
  <2>3. (\E i \in 1 .. n + 1 : \E c \in g[i].left : IsPrefix(c, p)) <=>
          \/ \E i \in 1 .. n : \E c \in f[i].left : IsPrefix(c, p)
          \/ \E c \in Children(dir) : IsPrefix(c, p)
    <3>1. 1 .. n + 1 = (1 .. n) \cup {n + 1}
      BY <1>1
    <3> HIDE DEF n
    <3> QED
      BY <1>2, <1>3, <3>1
  <2> QED
    BY <1>3, <2>2, <2>3 DEF Remains
<1>7. Unlisted(method, path, g, FALSE) = Unlisted(method, path, f, TRUE)
  BY <1>6 DEF Unlisted
<1>8. method # "deep" => n + 1 <= 1
  BY DEF Walks
<1> QED
  BY <1>3, <1>5, <1>7, <1>8 DEF Walks, g, frame

(* A child that is left can be listed, and nothing else that is left is above *)
(* it.                                                                       *)
NothingAbove(f, child) ==
  \A i \in 1 .. Len(f) : \A c \in f[i].left : IsPrefix(c, child) => i = Len(f) /\ c = child

LEMMA ChildIsLeft ==
  ASSUME Rooted(DOMAIN tree), NEW method, NEW path, NEW f, NEW bag, Walks(method, path, f, FALSE, bag),
         f # << >>, NEW child \in f[Len(f)].left
  PROVE  child \in Listed(method, path) /\ NothingAbove(f, child)
<1> DEFINE n    == Len(f)
           base == Base(path, f, n)
<1>0. DOMAIN tree \subseteq Path /\ Path \subseteq Seq(STRING)
  BY DEF Rooted, Path
<1>1. f \in Seq(Frame) /\ n \in Nat /\ n >= 1 /\ n \in 1 .. n
  BY DEF Walks
<1>2. path \in Seq(STRING) /\ Chain(path, f, n)
  BY DEF Walks
<1> HIDE DEF n
<1>3. Reaches(path, base) /\ f[n].left \subseteq Children(base)
  BY <1>1, <1>2 DEF Chain, n
<1> HIDE DEF base
<1>4. base \in {<< >>} \cup DOMAIN tree /\ base \in Seq(STRING) /\ IsPrefix(path, base)
  <2>1. base \in {<< >>} \cup DOMAIN tree /\ IsPrefix(path, base)
    BY <1>3 DEF Reaches, Root
  <2>2. << >> \in Seq(STRING)
    OBVIOUS
  <2> QED
    BY <1>0, <2>1, <2>2
<1>5. child \in DOMAIN tree /\ child \in Seq(STRING) /\ Len(child) = Len(base) + 1 /\ IsPrefix(base, child)
  BY <1>0, <1>3 DEF Children, n
<1>6. IsStrictPrefix(path, child)
  <2>1. IsPrefix(path, child) /\ Len(path) <= Len(base)
    BY <1>2, <1>4, <1>5, PrefixOrder, PrefixIs
  <2> QED
    BY <1>2, <1>4, <1>5, <2>1, PrefixIs
<1>7. ASSUME NEW d \in Folders(child), IsStrictPrefix(path, d)
      PROVE  tree[d] = Folder
  <2>1. d \in Path /\ IsPrefix(d, child) /\ Len(d) < Len(child)
    BY <1>0, <1>5, FoldersAre
  <2>2. IsPrefix(d, base)
    BY <1>0, <1>4, <1>5, <2>1, PrefixOrder
  <2>3. d = base \/ IsStrictPrefix(d, base)
    BY <1>0, <1>4, <2>1, <2>2, PrefixIs, PrefixOrder
  <2>4. base # << >>
    <3>1. Len(d) <= Len(base) /\ Len(d) # 0 /\ Len(d) \in Nat
      BY <1>0, <1>4, <2>1, <2>2, PrefixIs DEF Path
    <3>2. Len(base) # 0
      BY <1>4, <3>1
    <3> QED
      BY <3>2
  <2>5. base \in Path
    BY <1>0, <1>4, <2>4
  <2>6. d \in Folders(base) \cup {base}
    BY <2>1, <2>3, <2>5, FoldersAre
  <2> QED
    BY <1>3, <1>7, <2>6 DEF Reaches
<1>8. method = "deep" \/ child \in Children(path)
  <2>0. method # "deep" => Len(f) <= 1
    BY Zenon DEF Walks
  <2>1. method # "deep" => n = 1
    <3>1. method # "deep" => n <= 1
      BY <2>0 DEF n
    <3> QED
      BY <1>1, <3>1
  <2> QED
    BY <1>3, <2>1 DEF Base, base, n
<1>9. child \in Listed(method, path)
  BY <1>5, <1>6, <1>7, <1>8 DEF Listed, Below
<1>10. ASSUME NEW i \in 1 .. n, NEW c \in f[i].left, IsPrefix(c, child)
       PROVE  i = n /\ c = child
  <2>1. CASE i = n
    <3>1. c \in Seq(STRING) /\ Len(c) = Len(base) + 1
      BY <1>0, <1>3, <1>10, <2>1 DEF Children
    <3> QED
      BY <1>5, <1>10, <2>1, <3>1, PrefixOrder
  <2>2. CASE i # n
    <3> DEFINE at == f[i].at
               up == Base(path, f, i)
    <3>0. i <= n /\ n \in i + 1 .. n
      BY <1>1, <2>2
    <3>1. f[i].left \subseteq Children(up) /\ at \in Children(up) \ f[i].left /\ IsPrefix(at, base)
      BY <1>2, <3>0 DEF Chain, n, base
    <3> HIDE DEF at, up
    <3>2. c \in Seq(STRING) /\ at \in Seq(STRING) /\ Len(c) = Len(up) + 1 /\ Len(at) = Len(up) + 1
      BY <1>0, <3>1 DEF Children
    <3>3. IsPrefix(at, child)
      BY <1>4, <1>5, <3>1, <3>2, PrefixOrder
    <3>4. c = at
      <4>1. Len(c) <= Len(at) /\ Len(c) = Len(at)
        BY <3>2
      <4>2. IsPrefix(c, at)
        BY <1>5, <1>10, <3>2, <3>3, <4>1, PrefixOrder
      <4> QED
        BY <3>2, <4>1, <4>2, PrefixOrder
    <3> QED
      BY <3>1, <3>4
  <2> QED
    BY <2>1, <2>2
<1> QED
  BY <1>9, <1>10 DEF NothingAbove, n

(* An entry of ReadDir: it is listed, and what is below it remains to be if   *)
(* the walk goes down.                                                       *)
LEMMA WalkLists ==
  ASSUME Rooted(DOMAIN tree), NEW method, NEW path, NEW f, NEW bag, Walks(method, path, f, FALSE, bag),
         f # << >>, NEW child \in f[Len(f)].left, NEW down \in BOOLEAN,
         down <=> method = "deep" /\ IsDir(child), NEW at, at = IF down THEN child ELSE f[Len(f)].at
  PROVE  Walks(method, path, [f EXCEPT ![Len(f)] = [at |-> at, left |-> f[Len(f)].left \ {child}]],
               down, bag (+) SetToBag({Last(child)}))
<1> DEFINE n     == Len(f)
           base  == Base(path, f, n)
           frame == [at |-> at, left |-> f[n].left \ {child}]
           g     == [f EXCEPT ![n] = frame]
           depth == IF down THEN n + 1 ELSE n
<1>0. DOMAIN tree \subseteq Path /\ Path \subseteq Seq(STRING)
  BY DEF Rooted, Path
<1>1. f \in Seq(Frame) /\ n \in Nat /\ n >= 1 /\ n \in 1 .. n
  BY DEF Walks
<1>2. path \in Seq(STRING) /\ Chain(path, f, n)
  BY DEF Walks
<1>a. /\ child \in Listed(method, path)
      /\ \A i \in 1 .. n : \A c \in f[i].left : IsPrefix(c, child) => i = n /\ c = child
  <2>1. child \in Listed(method, path) /\ NothingAbove(f, child)
    BY ChildIsLeft
  <2> QED
    BY <2>1 DEF NothingAbove
<1>b. /\ child \in DOMAIN tree /\ child \in Path /\ child \in Seq(STRING) /\ IsStrictPrefix(path, child)
      /\ \A d \in Folders(child) : IsStrictPrefix(path, d) => tree[d] = Folder
  BY <1>0, <1>a DEF Listed, Below
<1>c. f[n].left \subseteq Children(base)
  BY <1>1, <1>2 DEF Chain
<1>d. f[n] \in Frame /\ f[n].left \subseteq Path /\ f[n].at \in Seq(STRING)
  <2>1. f[n] \in Frame
    BY <1>1
  <2> QED
    BY <2>1 DEF Frame
<1>3. frame \in Frame /\ frame.at = at /\ frame.left = f[n].left \ {child}
  BY <1>b, <1>d DEF Frame
<1> HIDE DEF frame
<1>4. /\ g \in Seq(Frame) /\ Len(g) = n /\ g # << >> /\ g[n] = frame
      /\ \A i \in 1 .. n : i # n => g[i] = f[i]
  BY <1>1, <1>3
<1> HIDE DEF g, n
<1>5. \A i \in 1 .. n : Base(path, g, i) = Base(path, f, i)
  <2> SUFFICES ASSUME NEW i \in 1 .. n, i # 1 PROVE g[i - 1].at = f[i - 1].at
    BY DEF Base
  <2>1. i - 1 \in 1 .. n /\ i - 1 # n
    BY <1>1
  <2> QED
    BY <1>4, <2>1
<1>6. down => Base(path, g, n + 1) = child
  <2>1. n + 1 # 1 /\ n + 1 - 1 = n
    BY <1>1
  <2> QED
    BY <1>3, <1>4, <2>1 DEF Base
<1>7. depth \in Nat /\ depth >= n /\ (~down => depth = n) /\ (down => depth = n + 1)
  BY <1>1
<1> HIDE DEF depth
<1>8. ASSUME NEW i \in 1 .. depth
      PROVE  Reaches(path, Base(path, g, i))
  <2>1. CASE i \in 1 .. n
    BY <1>2, <1>5, <2>1 DEF Chain
  <2>2. CASE i = n + 1
    <3>1. down /\ Base(path, g, i) = child
      BY <1>1, <1>6, <1>7, <2>2
    <3>2. tree[child] = Folder
      <4>1. child # Root
        BY <1>b DEF Path, Root
      <4> QED
        BY <3>1, <4>1 DEF IsDir, Dirs
    <3>3. IsPrefix(path, child)
      BY <1>2, <1>b, PrefixIs
    <3> QED
      BY <1>b, <3>1, <3>2, <3>3 DEF Reaches
  <2> QED
    BY <1>1, <1>7, <2>1, <2>2
<1>9. ASSUME NEW i \in 1 .. n
      PROVE  g[i].left \subseteq f[i].left /\ f[i].left \subseteq Children(Base(path, g, i))
  <2>1. f[i].left \subseteq Children(Base(path, g, i))
    BY <1>1, <1>2, <1>5 DEF Chain, n
  <2> QED
    BY <1>3, <1>4, <2>1
<1>10. ASSUME NEW i \in 1 .. depth, NEW j \in i + 1 .. depth
       PROVE  g[i].at \in Children(Base(path, g, i)) \ g[i].left /\ IsPrefix(g[i].at, Base(path, g, j))
  <2>0. i \in 1 .. n /\ (j \in 1 .. n \/ j = n + 1) /\ (j = n + 1 => down)
    BY <1>1, <1>7
  <2>1. CASE i = n
    <3>1. j = n + 1 /\ down /\ Base(path, g, j) = child /\ g[i].at = child /\ g[i].left = f[n].left \ {child}
      BY <1>1, <1>3, <1>4, <1>6, <1>7, <2>0, <2>1
    <3>2. child \in Children(Base(path, g, i))
      BY <1>c, <1>5, <2>0, <2>1 DEF n
    <3>3. IsPrefix(child, child)
      BY <1>b, PrefixOrder
    <3> QED
      BY <3>1, <3>2, <3>3
  <2>2. CASE i # n
    <3>1. g[i] = f[i] /\ n \in i + 1 .. n
      BY <1>1, <1>4, <2>0, <2>2
    <3>2. \A k \in i + 1 .. n : /\ f[i].at \in Children(Base(path, g, i)) \ f[i].left
                                /\ IsPrefix(f[i].at, Base(path, g, k))
      BY <1>1, <1>2, <1>5, <2>0 DEF Chain
    <3>3. CASE j \in 1 .. n
      BY <3>1, <3>2, <3>3
    <3>4. CASE j = n + 1
      <4>1. IsPrefix(f[i].at, base) /\ f[i].at \in Children(Base(path, g, i)) \ f[i].left
        BY <1>1, <1>5, <3>1, <3>2
      <4>2. IsPrefix(base, child) /\ base \in Seq(STRING) /\ f[i].at \in Seq(STRING)
        <5>1. Reaches(path, base)
          BY <1>1, <1>2 DEF Chain
        <5>2. << >> \in Seq(STRING)
          OBVIOUS
        <5>3. base \in Seq(STRING)
          BY <1>0, <5>1, <5>2 DEF Reaches, Root
        <5>4. IsPrefix(base, child)
          BY <1>c DEF Children, n
        <5> QED
          BY <1>0, <4>1, <5>3, <5>4 DEF Children
      <4>3. IsPrefix(f[i].at, child)
        BY <1>b, <4>1, <4>2, PrefixOrder
      <4> QED
        BY <1>6, <2>0, <3>1, <3>4, <4>1, <4>3
    <3> QED
      BY <2>0, <3>3, <3>4
  <2> QED
    BY <2>1, <2>2
<1>11. Chain(path, g, depth)
  <2>1. \A i \in 1 .. depth : i <= Len(g) => g[i].left \subseteq Children(Base(path, g, i))
    BY <1>1, <1>4, <1>9
  <2> QED
    BY <1>8, <1>10, <2>1 DEF Chain
<1>12. ASSUME NEW p \in Listed(method, path)
       PROVE  Remains(path, g, down, p) <=> Remains(path, f, FALSE, p) /\ p # child
  <2>0. p \in DOMAIN tree /\ p \in Path /\ p \in Seq(STRING)
    BY <1>0, ListedAre
  <2>1. ASSUME Remains(path, g, down, p) PROVE Remains(path, f, FALSE, p) /\ p # child
    <3>1. CASE \E i \in 1 .. n : \E c \in g[i].left : IsPrefix(c, p)
      <4>0. PICK i \in 1 .. n : \E c \in g[i].left : IsPrefix(c, p)
        BY <3>1
      <4>1. PICK c \in g[i].left : IsPrefix(c, p)
        BY <4>0
      <4>2. c \in f[i].left
        BY <1>9
      <4>3. p # child
        BY <1>3, <1>4, <1>a, <4>1, <4>2
      <4> QED
        BY <4>1, <4>2, <4>3 DEF Remains, n
    <3>2. CASE down /\ IsStrictPrefix(child, p)
      <4>1. IsPrefix(child, p) /\ p # child
        BY <3>2 DEF IsStrictPrefix
      <4> QED
        BY <1>1, <4>1 DEF Remains, n
    <3> QED
      BY <1>4, <1>6, <2>1, <3>1, <3>2 DEF Remains
  <2>2. ASSUME Remains(path, f, FALSE, p), p # child PROVE Remains(path, g, down, p)
    <3>0. PICK i \in 1 .. n : \E c \in f[i].left : IsPrefix(c, p)
      BY <2>2 DEF Remains, n
    <3>1. PICK c \in f[i].left : IsPrefix(c, p)
      BY <3>0
    <3>2. CASE i # n \/ c # child
      <4>1. c \in g[i].left
        BY <1>3, <1>4, <3>2
      <4> QED
        BY <1>4, <3>1, <4>1 DEF Remains
    <3>3. CASE c = child
      <4>1. IsStrictPrefix(child, p) /\ Len(child) < Len(p)
        BY <1>b, <2>0, <2>2, <3>1, <3>3, PrefixIs DEF IsStrictPrefix
      <4>2. CASE down
        BY <1>4, <1>6, <4>1, <4>2 DEF Remains
      <4>3. CASE method # "deep"
        <5>0. Len(f) <= 1
          BY <4>3, Zenon DEF Walks
        <5>a. n <= 1
          BY <5>0 DEF n
        <5>1. n = 1 /\ p \in Children(path)
          BY <1>1, <4>3, <5>a DEF Listed
        <5>2. child \in Children(path)
          BY <1>c, <5>1 DEF Base, n
        <5>3. Len(child) = Len(path) + 1 /\ Len(p) = Len(path) + 1
          BY <5>1, <5>2 DEF Children
        <5>4. Len(path) \in Nat
          BY <1>2
        <5> QED
          BY <4>1, <5>3, <5>4
      <4>4. CASE ~down /\ method = "deep"
        <5>1. child \in Folders(p)
          BY <1>b, <2>0, <4>1, FoldersAre
        <5>2. tree[child] = Folder
          BY <1>b, <5>1 DEF Listed
        <5> QED
          BY <1>b, <4>4, <5>2 DEF IsDir, Dirs
      <4> QED
        BY <4>2, <4>3, <4>4
    <3> QED
      BY <3>2, <3>3
  <2> QED
    BY <2>1, <2>2
<1>13. Remains(path, f, FALSE, child)
  BY <1>1, <1>b, PrefixOrder DEF Remains, n
<1>14. Unlisted(method, path, g, down) = Unlisted(method, path, f, FALSE) \ {child}
       /\ child \in Unlisted(method, path, f, FALSE)
  BY <1>12, <1>13, <1>a DEF Unlisted
<1>15. bag (+) SetToBag({Last(child)}) = CountBag(Listed(method, path) \ Unlisted(method, path, g, down))
  <2> DEFINE done == Listed(method, path) \ Unlisted(method, path, f, FALSE)
  <2>0. done \in SUBSET Listed(method, path) /\ IsFiniteSet(Listed(method, path))
    BY ListedAre
  <2>1. IsFiniteSet(done) /\ child \notin done
    BY <1>14, <2>0, FS_Subset
  <2>2. Listed(method, path) \ Unlisted(method, path, g, down) = done \cup {child}
    BY <1>14, <1>a
  <2>3. bag = CountBag(done)
    BY DEF Walks
  <2> HIDE DEF done
  <2> QED
    BY <2>1, <2>2, <2>3, CountOneMore
<1>16. method # "deep" => n <= 1 /\ ~down
  BY DEF Walks, n
<1>17. Walks(method, path, g, down, bag (+) SetToBag({Last(child)}))
  BY <1>2, <1>4, <1>11, <1>15, <1>16 DEF Walks, depth
<1> QED
  BY <1>17 DEF g, frame, n

(* A ReadDir that returns to the one that called it has nothing left.         *)
LEMMA WalkPops ==
  ASSUME NEW method, NEW path, NEW f, NEW bag, Walks(method, path, f, FALSE, bag),
         f # << >>, Len(f) # 1, f[Len(f)].left = {}
  PROVE  Walks(method, path, Front(f), FALSE, bag) /\ Front(f) # << >>
<1> DEFINE n == Len(f)
           g == Front(f)
<1>1. f \in Seq(Frame) /\ n \in Nat /\ n >= 2
  <2>1. f \in Seq(Frame) /\ f # << >> /\ n # 1
    BY DEF Walks
  <2>2. n \in Nat /\ n # 0
    BY <2>1
  <2> HIDE DEF n
  <2> QED
    BY <2>1, <2>2
<1>2. path \in Seq(STRING) /\ Chain(path, f, n)
  BY DEF Walks
<1>3. g = SubSeq(f, 1, n - 1)
  BY DEF Front
<1> HIDE DEF n, g
<1>4. g \in Seq(Frame) /\ Len(g) = n - 1 /\ \A i \in 1 .. n - 1 : g[i] = f[i]
  BY <1>1, <1>3 DEF n
<1>5. g # << >>
  BY <1>1, <1>4
<1>6. \A i \in 1 .. n - 1 : Base(path, g, i) = Base(path, f, i)
  <2> SUFFICES ASSUME NEW i \in 1 .. n - 1, i # 1 PROVE g[i - 1].at = f[i - 1].at
    BY DEF Base
  <2>1. i - 1 \in 1 .. n - 1
    BY <1>1
  <2> QED
    BY <1>4, <2>1
<1>7. Chain(path, g, n - 1)
  <2> SUFFICES ASSUME NEW i \in 1 .. n - 1
               PROVE  /\ Reaches(path, Base(path, g, i))
                      /\ i <= Len(g) => g[i].left \subseteq Children(Base(path, g, i))
                      /\ \A j \in i + 1 .. n - 1 : /\ g[i].at \in Children(Base(path, g, i)) \ g[i].left
                                                   /\ IsPrefix(g[i].at, Base(path, g, j))
    BY DEF Chain
  <2>1. i \in 1 .. n /\ i <= n /\ \A j \in i + 1 .. n - 1 : j \in i + 1 .. n /\ j \in 1 .. n - 1
    BY <1>1
  <2>2. /\ Reaches(path, Base(path, f, i))
        /\ f[i].left \subseteq Children(Base(path, f, i))
        /\ \A j \in i + 1 .. n : /\ f[i].at \in Children(Base(path, f, i)) \ f[i].left
                                 /\ IsPrefix(f[i].at, Base(path, f, j))
    BY <1>2, <2>1 DEF Chain, n
  <2> QED
    BY <1>4, <1>6, <2>1, <2>2
<1>8. ASSUME NEW p PROVE Remains(path, g, FALSE, p) <=> Remains(path, f, FALSE, p)
  <2>1. ASSUME NEW i \in 1 .. n, NEW c \in f[i].left
        PROVE  i \in 1 .. n - 1
    BY <1>1, <2>1 DEF n
  <2>2. 1 .. n - 1 \subseteq 1 .. n
    BY <1>1
  <2> QED
    BY <1>4, <2>1, <2>2 DEF Remains, n
<1>9. Unlisted(method, path, g, FALSE) = Unlisted(method, path, f, FALSE)
  BY <1>8 DEF Unlisted
<1>10. method = "deep"
  BY <1>1 DEF Walks, n
<1>11. Walks(method, path, g, FALSE, bag)
  BY <1>2, <1>4, <1>5, <1>7, <1>9, <1>10 DEF Walks
<1> QED
  BY <1>5, <1>11 DEF g

-----------------------------------------------------------------------------
(* The tree *)

(* A path has finitely many folders above it.                                *)
LEMMA FoldersFinite ==
  ASSUME NEW p \in Path
  PROVE  IsFiniteSet(Folders(p))
<1> DEFINE I == 1 .. Len(p) - 1
           f == [i \in I |-> SubSeq(p, 1, i)]
<1>1. Len(p) \in Nat
  BY DEF Path
<1>2. IsFiniteSet(I)
  BY <1>1, FS_Interval
<1>3. f \in Surjection(I, Folders(p))
  BY DEF Surjection, Folders
<1> HIDE DEF f, I
<1> QED
  BY <1>2, <1>3, FS_Surjection

(* AddFile makes every folder above the file,                                *)
LEMMA AddKeepsRoot ==
  ASSUME Rooted(DOMAIN tree), NEW path \in Path, NEW file
  PROVE  Rooted(DOMAIN WebdavAdd(tree, path, file))
<1> DEFINE all == DOMAIN tree \cup Folders(path) \cup {path}
<1>0. DOMAIN tree \subseteq Path /\ Path \subseteq Seq(STRING) /\ Folders(path) \subseteq Path
  BY FoldersAre DEF Rooted, Path
<1>1. IsFiniteSet(all)
  <2>1. IsFiniteSet(DOMAIN tree \cup Folders(path))
    BY FoldersFinite, FS_Union DEF Rooted
  <2> QED
    BY <2>1, FS_AddElement
<1>2. ASSUME NEW p \in Folders(path) PROVE Folders(p) \subseteq Folders(path)
  <2> SUFFICES ASSUME NEW d \in Folders(p) PROVE d \in Folders(path)
    OBVIOUS
  <2>1. p \in Path /\ IsPrefix(p, path) /\ Len(p) < Len(path)
    BY FoldersAre
  <2>2. d \in Path /\ IsPrefix(d, p) /\ Len(d) < Len(p)
    BY <2>1, FoldersAre
  <2>3. IsPrefix(d, path)
    BY <1>0, <2>1, <2>2, PrefixOrder
  <2>4. Len(d) < Len(path)
    BY <1>0, <2>1, <2>2
  <2>5. IsStrictPrefix(d, path)
    BY <1>0, <2>2, <2>3, <2>4, PrefixIs
  <2> QED
    BY <2>2, <2>5, FoldersAre
<1>3. Rooted(all)
  BY <1>0, <1>1, <1>2 DEF Rooted
<1> QED
  BY <1>3 DEF WebdavAdd, With

(* and RemoveFile leaves each that has something below it.                   *)
LEMMA RemoveKeepsRoot ==
  ASSUME Rooted(DOMAIN tree), NEW path \in Path
  PROVE  Rooted(DOMAIN WebdavRemove(tree, path))
<1> DEFINE rest    == Cut(tree, path)
           removed == {d \in LeftEmpty(rest, path) :
                         \A e \in Folders(path) : Len(e) >= Len(d) => rest[e] = Folder}
           kept    == DOMAIN rest \ removed
<1> SUFFICES ASSUME Exists(tree, path) PROVE Rooted(DOMAIN Without(rest, removed))
  BY DEF WebdavRemove
<1>0. DOMAIN tree \subseteq Path /\ Path \subseteq Seq(STRING)
  BY DEF Rooted, Path
<1>1. DOMAIN rest = {p \in DOMAIN tree : p # path /\ ~IsStrictPrefix(path, p)}
  BY DEF Cut, Without, Below
<1>2. DOMAIN Without(rest, removed) = kept
  BY DEF Without
<1> HIDE DEF rest
<1>3. IsFiniteSet(kept)
  BY <1>1, FS_Subset DEF Rooted
<1>4. ASSUME NEW p \in kept, NEW d \in Folders(p) PROVE d \in kept
  <2>1. p \in Path /\ d \in Path /\ IsPrefix(d, p) /\ Len(d) < Len(p) /\ d \in DOMAIN tree
    BY <1>0, <1>1, FoldersAre DEF Rooted
  <2>2. p # path /\ ~IsStrictPrefix(path, p)
    BY <1>1
  <2>3. d # path /\ ~IsStrictPrefix(path, d)
    <3>1. ASSUME IsPrefix(path, d) PROVE FALSE
      <4>1. IsPrefix(path, p) /\ Len(path) <= Len(d)
        BY <1>0, <2>1, <3>1, PrefixOrder, PrefixIs
      <4>2. Len(path) < Len(p)
        BY <1>0, <2>1, <4>1
      <4> QED
        BY <1>0, <2>1, <2>2, <4>1, <4>2, PrefixIs
    <3>2. d = path => IsPrefix(path, d)
      BY <1>0, PrefixOrder
    <3>3. IsStrictPrefix(path, d) => IsPrefix(path, d)
      BY DEF IsStrictPrefix
    <3> QED
      BY <3>1, <3>2, <3>3
  <2>4. d \in DOMAIN rest /\ p \in DOMAIN rest
    BY <1>1, <2>1, <2>3
  <2>5. ASSUME d \in removed PROVE p \in removed
    <3>1. /\ d \in Folders(path) /\ Below(rest, d) \subseteq Folders(path)
          /\ \A e \in Folders(path) : Len(e) >= Len(d) => rest[e] = Folder
      BY <2>5 DEF LeftEmpty
    <3>2. IsStrictPrefix(d, p)
      BY <1>0, <2>1, PrefixIs
    <3>3. p \in Folders(path)
      BY <2>4, <3>1, <3>2 DEF Below
    <3>4. Below(rest, p) \subseteq Below(rest, d)
      <4> SUFFICES ASSUME NEW q \in DOMAIN rest, IsStrictPrefix(p, q) PROVE IsStrictPrefix(d, q)
        BY DEF Below
      <4>1. q \in Seq(STRING)
        BY <1>0, <1>1
      <4>2. IsPrefix(p, q) /\ Len(p) < Len(q)
        BY <1>0, <2>1, <4>1, PrefixIs
      <4>3. IsPrefix(d, q) /\ Len(d) < Len(q)
        BY <1>0, <2>1, <4>1, <4>2, PrefixOrder
      <4> QED
        BY <1>0, <2>1, <4>1, <4>3, PrefixIs
    <3>5. \A e \in Folders(path) : Len(e) >= Len(p) => rest[e] = Folder
      <4> SUFFICES ASSUME NEW e \in Folders(path), Len(e) >= Len(p) PROVE rest[e] = Folder
        OBVIOUS
      <4>1. e \in Path
        BY FoldersAre
      <4>2. Len(e) >= Len(d)
        BY <1>0, <2>1, <4>1
      <4> QED
        BY <3>1, <4>2
    <3> QED
      BY <2>4, <3>1, <3>3, <3>4, <3>5 DEF LeftEmpty
  <2> QED
    BY <2>4, <2>5
<1>5. kept \subseteq Path
  BY <1>0, <1>1
<1> HIDE DEF removed
<1>6. Rooted(kept)
  BY <1>3, <1>4, <1>5 DEF Rooted
<1> QED
  BY <1>2, <1>6

-----------------------------------------------------------------------------
(* Listings *)

(* Every folder above what the tree has is in it.                            *)
TreeInv ==
  /\ Rooted(DOMAIN tree)
  /\ writer # "none" => service.path \in Paths

(* A request that is in a ReadDir walks the tree, which does not change       *)
(* meanwhile; one that is not has listed nothing.                            *)
WalkOf(r) ==
  /\ frames[r] # << >> => Walks(req[r].method, req[r].path, frames[r], pc[r] # "entries", entries[r])
  /\ frames[r] = << >> /\ pc[r] # "answered" => entries[r] = EmptyBag

(* Of all requests.                                                          *)
WalkInv ==
  /\ DOMAIN entries = Requests /\ DOMAIN req = Requests
  /\ TreeInv
  /\ \A r \in Requests : WalkOf(r)

(* No request walks at first.                                                *)
LEMMA WalkInit == DavInit => WalkInv
<1> SUFFICES ASSUME DavInit PROVE WalkInv
  OBVIOUS
<1>1. DOMAIN tree = {}
  BY DEF DavInit, EmptyTree
<1>2. Rooted({})
  BY FS_EmptySet DEF Rooted
<1> QED
  BY <1>1, <1>2 DEF DavInit, WalkInv, TreeInv, WalkOf

(* A walk is the same walk while the tree stays,                             *)
LEMMA SameWalk ==
  ASSUME tree' = tree, NEW method, NEW path, NEW f, NEW going, NEW bag
  PROVE  Walks(method, path, f, going, bag)' <=> Walks(method, path, f, going, bag)
<1>1. \A d : Children(d)' = Children(d)
  BY DEF Children
<1>2. \A p : Reaches(path, p)' <=> Reaches(path, p)
  BY DEF Reaches
<1>3. Listed(method, path)' = Listed(method, path)
  BY DEF Listed, Below, Children
<1>4. Unlisted(method, path, f, going)' = Unlisted(method, path, f, going)
  BY <1>3 DEF Unlisted, Remains, Base
<1>5. \A n : Chain(path, f, n)' <=> Chain(path, f, n)
  BY <1>1, <1>2 DEF Chain, Base
<1> QED
  BY <1>3, <1>4, <1>5 DEF Walks

(* so that a request that goes on as before keeps its own.                   *)
LEMMA WalkStays ==
  ASSUME tree' = tree, NEW r, NEW f, NEW going \in BOOLEAN, NEW bag, f # << >>,
         Walks(req[r].method, req[r].path, f, going, bag),
         req'[r] = req[r], frames'[r] = f, entries'[r] = bag, going <=> pc'[r] # "entries"
  PROVE  WalkOf(r)'
<1>1. \A m, p, g, go, b : Walks(m, p, g, go, b)' <=> Walks(m, p, g, go, b)
  BY SameWalk
<1>2. Walks(req[r].method, req[r].path, frames[r], pc[r] # "entries", entries[r])'
  BY <1>1
<1> QED
  BY <1>2 DEF WalkOf

(* A step of one request, with the tree as it is, leaves the others their walks. *)
LEMMA OthersWalk ==
  ASSUME WalkInv, NEW r \in Requests, tree' = tree, UNCHANGED <<writer, service>>, WalkOf(r)',
         DOMAIN entries' = Requests, DOMAIN req' = Requests,
         \A s \in Requests \ {r} :
           pc'[s] = pc[s] /\ req'[s] = req[s] /\ frames'[s] = frames[s] /\ entries'[s] = entries[s]
  PROVE  WalkInv'
<1>1. ASSUME NEW s \in Requests \ {r} PROVE WalkOf(s)'
  <2>1. CASE frames[s] = << >>
    BY <2>1 DEF WalkInv, WalkOf
  <2>2. CASE frames[s] # << >>
    <3>1. Walks(req[s].method, req[s].path, frames[s], pc[s] # "entries", entries[s])
      BY <2>2 DEF WalkInv, WalkOf
    <3> QED
      BY <2>2, <3>1, WalkStays
  <2> QED
    BY <2>1, <2>2
<1>2. TreeInv'
  BY DEF WalkInv, TreeInv
<1> QED
  BY <1>1, <1>2 DEF WalkInv

(* An answer ends the walk, *)
LEMMA AnswerEnds ==
  ASSUME LockInv, WalkInv, NEW r \in Requests, NEW what, Answer(r, what), UNCHANGED <<tree, writer, service>>,
         DOMAIN req' = Requests, \A s \in Requests \ {r} : req'[s] = req[s]
  PROVE  WalkInv'
<1>1. /\ pc' = [pc EXCEPT ![r] = "answered"] /\ frames' = [frames EXCEPT ![r] = << >>] /\ entries' = entries
  BY DEF Answer, Goto
<1>2. pc'[r] = "answered" /\ frames'[r] = << >>
  BY <1>1 DEF LockInv
<1>3. WalkOf(r)'
  BY <1>2 DEF WalkOf
<1> QED
  BY <1>1, <1>3, OthersWalk DEF WalkInv

(* and a request in no ReadDir has none.                                     *)
LEMMA QuietWalk ==
  ASSUME LockInv, WalkInv, NEW r \in Requests, NEW there, Goto(r, there), frames[r] = << >>,
         UNCHANGED <<tree, writer, service, frames>>,
         (pc[r] # "answered" /\ entries' = entries) \/ entries' = [entries EXCEPT ![r] = EmptyBag],
         DOMAIN req' = Requests, \A s \in Requests \ {r} : req'[s] = req[s]
  PROVE  WalkInv'
<1>1. pc' = [pc EXCEPT ![r] = there]
  BY DEF Goto
<1>2. entries'[r] = EmptyBag /\ DOMAIN entries' = Requests
  BY DEF WalkInv, WalkOf
<1>3. WalkOf(r)'
  BY <1>2 DEF WalkOf
<1> QED
  BY <1>1, <1>2, <1>3, OthersWalk DEF WalkInv, LockInv

(* A call of ReadDir begins: its folder is about to be listed.               *)
LEMMA ReadDirWalks ==
  ASSUME LockInv, WalkInv, NEW r \in Requests, ReadDir(r)
  PROVE  WalkInv'
<1> DEFINE f   == frames[r]
           dir == Dir(r)
           g   == Append(f, [at |-> dir, left |-> Children(dir)])
<1>1. pc[r] = "listing" /\ UNCHANGED <<tree, writer, service, req>>
  BY DEF ReadDir
<1>2. CASE Answer(r, "notfound")
  BY <1>1, <1>2, AnswerEnds DEF WalkInv
<1>3. CASE /\ Found(dir) /\ frames' = [frames EXCEPT ![r] = Append(@, [at |-> dir, left |-> Children(dir)])]
           /\ Goto(r, "entries") /\ UNCHANGED entries
  <2> DEFINE method == req[r].method
             path   == req[r].path
  <2>1. Walks(method, path, f, TRUE, entries[r])
    <3>1. CASE f = << >>
      BY <1>1, <3>1, WalkBegins DEF WalkInv, WalkOf
    <3>2. CASE f # << >>
      BY <1>1, <3>2 DEF WalkInv, WalkOf
    <3> QED
      BY <3>1, <3>2
  <2>2. f \in Seq(Frame) /\ Len(f) \in Nat
    BY <2>1 DEF Walks
  <2>3. dir = Base(path, f, Len(f) + 1)
    <3>1. CASE f = << >>
      BY <3>1 DEF Base, Dir
    <3>2. CASE f # << >>
      <4>1. Len(f) # 0
        BY <2>2, <3>2
      <4> HIDE DEF f
      <4>2. Len(f) + 1 # 1 /\ Len(f) + 1 - 1 = Len(f)
        BY <2>2, <4>1
      <4> QED
        BY <3>2, <4>2 DEF Base, Dir, Last, f
    <3> QED
      BY <3>1, <3>2
  <2>4. dir \in {Root} \cup DOMAIN tree
    BY <1>3 DEF Found
  <2> HIDE DEF dir
  <2>5. Walks(method, path, g, FALSE, entries[r])
    BY <2>1, <2>3, <2>4, WalkPushes DEF WalkInv, TreeInv
  <2>6. /\ frames'[r] = g /\ pc'[r] = "entries" /\ pc' = [pc EXCEPT ![r] = "entries"]
        /\ frames' = [frames EXCEPT ![r] = g]
    BY <1>3 DEF LockInv, Goto
  <2>7. g # << >>
    BY <2>2
  <2> HIDE DEF g
  <2>8. WalkOf(r)'
    BY <1>1, <1>3, <2>5, <2>6, <2>7, WalkStays
  <2> QED
    BY <1>1, <1>3, <2>6, <2>8, OthersWalk DEF WalkInv, LockInv
<1> QED
  BY <1>1, <1>2, <1>3 DEF ReadDir

(* A child is listed.                                                        *)
LEMMA EntryWalks ==
  ASSUME LockInv, WalkInv, NEW r \in Requests, NEW child, Entry(r, child)
  PROVE  WalkInv'
<1> DEFINE f      == frames[r]
           top    == Len(f)
           down   == req[r].method = "deep" /\ IsDir(child)
           at     == IF down THEN child ELSE f[top].at
           g      == [f EXCEPT ![top] = [at |-> at, left |-> f[top].left \ {child}]]
           bag    == entries[r] (+) SetToBag({Last(child)})
<1>1. /\ pc[r] = "entries" /\ child \in f[top].left /\ UNCHANGED <<tree, writer, service, req>>
      /\ entries' = [entries EXCEPT ![r] = bag]
  BY DEF Entry
<1>2. f # << >>
  BY <1>1 DEF LockInv, Holds
<1>3. Walks(req[r].method, req[r].path, f, FALSE, entries[r])
  BY <1>1, <1>2 DEF WalkInv, WalkOf
<1>4. f \in Seq(Frame) /\ top \in Nat /\ top \in 1 .. top
  <2>1. f \in Seq(Frame)
    BY <1>3 DEF Walks
  <2>2. top \in Nat /\ top # 0
    BY <1>2, <2>1
  <2> HIDE DEF top
  <2> QED
    BY <2>1, <2>2
<1>5. f[top] \in Frame
  BY <1>4
<1>6. frames' = [frames EXCEPT ![r] = g] /\ pc'[r] = (IF down THEN "list" ELSE "entries")
      /\ \A s \in Requests \ {r} : pc'[s] = pc[s]
  <2>1. CASE down
    BY <2>1 DEF Entry, Goto, LockInv
  <2>2. CASE ~down
    <3>1. f[top] = [at |-> f[top].at, left |-> f[top].left]
      BY <1>5 DEF Frame
    <3>2. [f[top] EXCEPT !.left = f[top].left \ {child}] = [at |-> at, left |-> f[top].left \ {child}]
      <4>1. ASSUME NEW fr, NEW a, NEW less, fr = [at |-> fr.at, left |-> fr.left], a = fr.at
            PROVE  [fr EXCEPT !.left = less] = [at |-> a, left |-> less]
        <5> DEFINE here == fr.at
                   left == fr.left
        <5>1. fr = [at |-> here, left |-> left] /\ a = here
          BY <4>1
        <5> HIDE DEF here, left
        <5> QED
          BY <5>1
      <4>2. at = f[top].at
        BY <2>2
      <4> HIDE DEF at, f, top
      <4> QED
        BY <3>1, <4>1, <4>2
    <3>3. frames' = [frames EXCEPT ![r] = [f EXCEPT ![top] = [f[top] EXCEPT !.left = f[top].left \ {child}]]]
      BY <1>4, <2>2 DEF Entry, LockInv
    <3>4. pc' = pc
      BY <2>2 DEF Entry
    <3> QED
      BY <1>1, <2>2, <3>2, <3>3, <3>4
  <2> QED
    BY <2>1, <2>2
<1>7. down \in BOOLEAN
  OBVIOUS
<1> HIDE DEF at, down
<1>8. Walks(req[r].method, req[r].path, g, down, bag)
  BY <1>1, <1>2, <1>3, <1>7, WalkLists DEF WalkInv, TreeInv, at, down
<1>9. g # << >>
  <2>1. DOMAIN g = DOMAIN f /\ top \in DOMAIN f
    BY <1>4
  <2> QED
    BY <2>1
<1> HIDE DEF g, bag
<1>10. /\ frames'[r] = g /\ pc'[r] = (IF down THEN "list" ELSE "entries") /\ entries'[r] = bag
       /\ DOMAIN entries' = Requests
  BY <1>1, <1>6 DEF LockInv, WalkInv
<1>11. WalkOf(r)'
  BY <1>1, <1>7, <1>8, <1>9, <1>10, WalkStays
<1> QED
  BY <1>1, <1>6, <1>10, <1>11, OthersWalk DEF WalkInv, LockInv

(* ReadDir returns, and the outermost has listed all there is.               *)
LEMMA ReturnWalks ==
  ASSUME LockInv, WalkInv, NEW r \in Requests, ReadDirReturns(r)
  PROVE  WalkInv' /\ (Len(frames[r]) = 1 => entries[r] = Names(Listed(req[r].method, req[r].path)))
<1> DEFINE f == frames[r]
<1>1. /\ pc[r] = "entries" /\ f[Len(f)].left = {} /\ UNCHANGED <<tree, writer, service, req>>
  BY DEF ReadDirReturns, Last
<1>2. f # << >>
  BY <1>1 DEF LockInv, Holds
<1>3. Walks(req[r].method, req[r].path, f, FALSE, entries[r])
  BY <1>1, <1>2 DEF WalkInv, WalkOf
<1>4. CASE Len(f) = 1
  <2>1. entries[r] = Names(Listed(req[r].method, req[r].path))
    BY <1>1, <1>3, <1>4, WalkEnds DEF WalkInv, TreeInv
  <2>2. Answer(r, "ok")
    BY <1>4 DEF ReadDirReturns
  <2> QED
    BY <1>1, <2>1, <2>2, AnswerEnds DEF WalkInv
<1>5. CASE Len(f) # 1
  <2>1. frames' = [frames EXCEPT ![r] = Front(f)] /\ UNCHANGED <<pc, entries>>
    BY <1>5 DEF ReadDirReturns
  <2>2. Walks(req[r].method, req[r].path, Front(f), FALSE, entries[r]) /\ Front(f) # << >>
    BY <1>1, <1>2, <1>3, <1>5, WalkPops
  <2>3. frames'[r] = Front(f)
    BY <2>1 DEF LockInv
  <2> DEFINE g == Front(f)
  <2> HIDE DEF g
  <2>4. Walks(req[r].method, req[r].path, g, FALSE, entries[r]) /\ g # << >> /\ frames'[r] = g
    BY <2>2, <2>3 DEF g
  <2>5. WalkOf(r)'
    BY <1>1, <2>1, <2>4, WalkStays
  <2> QED
    BY <1>1, <1>5, <2>1, <2>5, OthersWalk DEF WalkInv
<1> QED
  BY <1>4, <1>5

(* The tree changes when nobody is in a ReadDir.                              *)
LEMMA WriterWalks ==
  ASSUME LockInv, WalkInv, Service \/ \E op \in {"add", "remove"}, path \in Paths : Change(op, path)
  PROVE  WalkInv'
<1>1. CASE Lock \/ \E op \in {"add", "remove"}, path \in Paths : Change(op, path)
  <2>1. UNCHANGED <<tree, pc, req, frames, entries>> /\ (writer' # "none" => service'.path \in Paths)
    BY <1>1 DEF Lock, Change, requestVars, WalkInv, TreeInv
  <2>2. ASSUME NEW r \in Requests PROVE WalkOf(r)'
    <3>1. CASE frames[r] # << >>
      <4>1. Walks(req[r].method, req[r].path, frames[r], pc[r] # "entries", entries[r])
        BY <3>1 DEF WalkInv, WalkOf
      <4> QED
        BY <2>1, <3>1, <4>1, WalkStays
    <3>2. CASE frames[r] = << >>
      BY <2>1, <3>2 DEF WalkInv, WalkOf
    <3> QED
      BY <3>1, <3>2
  <2> QED
    BY <2>1, <2>2 DEF WalkInv, TreeInv
<1>2. CASE Unlock
  <2>1. /\ writer = "locked" /\ writer' = "none" /\ UNCHANGED <<req, frames, entries>>
        /\ tree' = (IF service.op = "add" THEN WebdavAdd(tree, service.path, "file")
                                          ELSE WebdavRemove(tree, service.path))
        /\ pc' = [r \in Requests |-> IF r \in waits THEN Locks[pc[r]] ELSE pc[r]]
    BY <1>2 DEF Unlock
  <2>2. service.path \in Path /\ Rooted(DOMAIN tree)
    BY <2>1, WebdavAssumption DEF WalkInv, TreeInv, Path
  <2>3. Rooted(DOMAIN tree')
    BY <2>1, <2>2, AddKeepsRoot, RemoveKeepsRoot
  <2>4. ASSUME NEW r \in Requests PROVE WalkOf(r)'
    <3>1. frames[r] = << >>
      <4>1. PICK S : frames[r] \in Seq(S)
        BY DEF LockInv, Holds
      <4>2. held[r] = 0 /\ held[r] = Len(frames[r]) + (IF pc[r] \in InReadLock THEN 1 ELSE 0)
        BY <2>1 DEF LockInv, Holds
      <4>3. Len(frames[r]) \in Nat
        BY <4>1
      <4> DEFINE n == Len(frames[r])
      <4> HIDE DEF n
      <4>4. n \in Nat /\ 0 = n + (IF pc[r] \in InReadLock THEN 1 ELSE 0)
        BY <4>2, <4>3 DEF n
      <4>5. n = 0
        BY <4>4
      <4>6. Len(frames[r]) = 0
        BY <4>5 DEF n
      <4> QED
        BY <4>1, <4>6
    <3>2. pc'[r] # "answered" => pc[r] # "answered"
      BY <2>1 DEF LockInv, Holds, Locks
    <3> QED
      BY <2>1, <3>1, <3>2 DEF WalkInv, WalkOf
  <2>5. TreeInv'
    BY <2>1, <2>3 DEF TreeInv
  <2> QED
    BY <2>1, <2>4, <2>5 DEF WalkInv
<1> QED
  BY <1>1, <1>2 DEF Service

(* Every step keeps the walks.                                               *)
LEMMA WalkStep ==
  ASSUME LockInv, WalkInv, [DavNext]_davVars
  PROVE  WalkInv'
<1> USE DEF lockVars
<1>1. CASE UNCHANGED davVars
  <2>1. UNCHANGED <<tree, writer, service, pc, req, frames, entries>>
    BY <1>1 DEF davVars, requestVars
  <2>2. ASSUME NEW r \in Requests PROVE WalkOf(r)'
    <3>1. CASE frames[r] # << >>
      <4>1. Walks(req[r].method, req[r].path, frames[r], pc[r] # "entries", entries[r])
        BY <3>1 DEF WalkInv, WalkOf
      <4> QED
        BY <2>1, <3>1, <4>1, WalkStays
    <3>2. CASE frames[r] = << >>
      BY <2>1, <3>2 DEF WalkInv, WalkOf
    <3> QED
      BY <3>1, <3>2
  <2> QED
    BY <2>1, <2>2 DEF WalkInv, TreeInv
<1>2. ASSUME NEW r \in Requests, NEW path \in Targets,
             \/ \E method, from : Request(r, method, path, from)
             \/ ReadOnly(r, path)
      PROVE  WalkInv'
  <2>1. /\ pc[r] = "idle" /\ UNCHANGED <<tree, writer, service>> /\ frames[r] = << >>
        /\ \E q : req' = [req EXCEPT ![r] = q]
    BY <1>2 DEF Request, ReadOnly, LockInv, Holds, Lists
  <2>2. DOMAIN req' = Requests /\ \A s \in Requests \ {r} : req'[s] = req[s]
    BY <2>1 DEF WalkInv
  <2>3. CASE Answer(r, "readonly")
    BY <2>1, <2>2, <2>3, AnswerEnds
  <2>4. CASE Goto(r, "stat") /\ UNCHANGED <<frames, entries>>
    BY <2>1, <2>2, <2>4, QuietWalk
  <2> QED
    BY <1>2, <2>3, <2>4 DEF Request, ReadOnly
<1>3. ASSUME Service \/ \E op \in {"add", "remove"}, path \in Paths : Change(op, path) PROVE WalkInv'
  BY <1>3, WriterWalks
<1>4. ASSUME NEW r \in Requests, Answered(r) PROVE WalkInv'
  <2>1. /\ pc[r] = "answered" /\ UNCHANGED <<tree, writer, service, frames>> /\ Goto(r, "idle")
        /\ req' = [req EXCEPT ![r] = NoRequest] /\ entries' = [entries EXCEPT ![r] = EmptyBag]
    BY <1>4 DEF Answered
  <2>2. frames[r] = << >>
    BY <2>1 DEF LockInv, Holds, Lists
  <2> QED
    BY <2>1, <2>2, QuietWalk DEF WalkInv
<1>5. ASSUME NEW r \in Requests, Stat(r) \/ Open(r) \/ SeekEnd(r) \/ Seek(r) \/ Read(r) \/ Copied(r)
      PROVE  WalkInv'
  <2>1. /\ pc[r] \in {"statting", "opening", "size", "seek", "copy"} /\ UNCHANGED <<tree, writer, service, req>>
    BY <1>5 DEF Stat, Open, SeekEnd, Seek, Read, Copied
  <2>2. frames[r] = << >>
    BY <2>1 DEF LockInv, Holds, Lists
  <2>3. \/ \E what : Answer(r, what)
        \/ \E there : Goto(r, there) /\ UNCHANGED <<frames, entries>>
        \/ UNCHANGED <<pc, frames, entries>>
    BY <1>5 DEF Stat, Open, OpenFails, SeekEnd, Seek, Read, Copied
  <2>4. CASE \E what : Answer(r, what)
    BY <2>1, <2>4, AnswerEnds DEF WalkInv
  <2>5. CASE \E there : Goto(r, there) /\ UNCHANGED <<frames, entries>>
    BY <2>1, <2>2, <2>5, QuietWalk DEF WalkInv
  <2>6. CASE UNCHANGED <<pc, frames, entries>>
    <3>1. WalkOf(r)'
      BY <2>1, <2>2, <2>6 DEF WalkInv, WalkOf
    <3> QED
      BY <2>1, <2>6, <3>1, OthersWalk DEF WalkInv
  <2> QED
    BY <2>3, <2>4, <2>5, <2>6
<1>6. ASSUME NEW r \in Requests, RLock(r) PROVE WalkInv'
  <2>1. /\ pc[r] \in DOMAIN Locks /\ UNCHANGED <<tree, writer, service, req, frames, entries>>
        /\ (pc' = pc \/ pc' = [pc EXCEPT ![r] = Locks[@]])
    BY <1>6 DEF RLock
  <2>2. pc[r] \notin {"entries", "answered"} /\ pc'[r] \notin {"entries", "answered"}
    BY <2>1 DEF Locks, LockInv
  <2>3. WalkOf(r)'
    <3>1. CASE frames[r] # << >>
      <4>1. Walks(req[r].method, req[r].path, frames[r], TRUE, entries[r])
        BY <2>2, <3>1 DEF WalkInv, WalkOf
      <4> QED
        BY <2>1, <2>2, <3>1, <4>1, WalkStays
    <3>2. CASE frames[r] = << >>
      BY <2>1, <2>2, <3>2 DEF WalkInv, WalkOf
    <3> QED
      BY <3>1, <3>2
  <2> QED
    BY <2>1, <2>3, OthersWalk DEF WalkInv, LockInv
<1> QED
  BY <1>1, <1>2, <1>3, <1>4, <1>5, <1>6, ReadDirWalks, EntryWalks, ReturnWalks DEF DavNext, Handle

(* No step of another request moves a request on.                            *)
LEMMA OwnSteps ==
  ASSUME LockInv, NEW r \in Requests, NEW s \in Requests, s # r, Handle(s)
  PROVE  pc'[r] = pc[r]
<1>1. pc' = pc \/ \E there : pc' = [pc EXCEPT ![s] = there]
  BY DEF Handle, Answered, RLock, Stat, ReadDir, ReadDirReturns, Entry, Open, OpenFails, SeekEnd, Seek,
         Read, Copied, Goto, Answer
<1> QED
  BY <1>1 DEF LockInv

(* A request leaves ReadDir with an answer only where the outermost returns. *)
LEMMA OnlyReturnAnswers ==
  ASSUME LockInv, NEW r \in Requests, DavNext, pc[r] = "entries", pc'[r] = "answered"
  PROVE  ReadDirReturns(r) /\ Len(frames[r]) = 1
<1>1. ASSUME NEW s \in Requests, NEW path, ReadOnly(s, path) \/ \E method, from : Request(s, method, path, from)
      PROVE  FALSE
  <2>1. pc[s] = "idle" /\ \E there : pc' = [pc EXCEPT ![s] = there]
    BY <1>1 DEF ReadOnly, Request, Goto, Answer
  <2> QED
    BY <2>1 DEF LockInv
<1>2. ASSUME Service \/ \E op \in {"add", "remove"}, path \in Paths : Change(op, path) PROVE FALSE
  <2>1. pc' = pc \/ pc' = [s \in Requests |-> IF s \in waits THEN Locks[pc[s]] ELSE pc[s]]
    BY <1>2 DEF Service, Lock, Unlock, Change, requestVars
  <2>2. r \notin waits
    BY DEF LockInv, Holds, Locks
  <2> QED
    BY <2>1, <2>2
<1>3. PICK s \in Requests : Handle(s)
  BY <1>1, <1>2 DEF DavNext
<1>4. Handle(r)
  BY <1>3, OwnSteps
<1>5. pc[r] # "listing" /\ pc[r] \notin DOMAIN Locks
  BY DEF Locks
<1>6. ASSUME NEW child, Entry(r, child) PROVE FALSE
  <2>1. pc' = pc \/ pc' = [pc EXCEPT ![r] = "list"]
    BY <1>6 DEF Entry, Goto
  <2> QED
    BY <2>1 DEF LockInv
<1>7. ReadDirReturns(r)
  BY <1>4, <1>5, <1>6 DEF Handle, Answered, RLock, Stat, ReadDir, Open, SeekEnd, Seek, Read, Copied
<1>8. Len(frames[r]) # 1 => pc' = pc
  BY <1>7 DEF ReadDirReturns
<1> QED
  BY <1>7, <1>8

(* A listing gives the names of what there is below the folder at the moment it *)
(* returns, each as often as it occurs, also one of a whole tree that locks the *)
(* lock once more for each folder (filesystem.go:234), for any requests and trees. *)
THEOREM ListCorrect == DavSpec => ListIsOfOneMoment
<1>1. LockInv /\ WalkInv /\ [DavNext]_davVars => LockInv' /\ WalkInv'
  BY LockInvStep, WalkStep
<1>2. ASSUME LockInv, WalkInv, DavNext, NEW r \in Requests, pc[r] = "entries", pc'[r] = "answered"
      PROVE  entries[r] = Names(Listed(req[r].method, req[r].path))
  <2>1. ReadDirReturns(r) /\ Len(frames[r]) = 1
    BY <1>2, OnlyReturnAnswers
  <2> QED
    BY <1>2, <2>1, ReturnWalks
<1>3. LockInv /\ WalkInv /\ [DavNext]_davVars
        => [\A r \in Requests : pc[r] = "entries" /\ pc'[r] = "answered" =>
              entries[r] = Names(Listed(req[r].method, req[r].path))]_davVars
  BY <1>2
<1> QED
  BY <1>1, <1>3, LockInit, WalkInit, PTL DEF DavSpec, ListIsOfOneMoment

=============================================================================
