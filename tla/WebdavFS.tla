------------------------------ MODULE WebdavFS ------------------------------
(***************************************************************************)
(* internal/presentation/webdav/filesystem.go: requests that the server     *)
(* (go-webdav and net/http, modelled from how they use FS) answers from the *)
(* tree while the nzb service adds and removes files. fs.mu is a            *)
(* sync.RWMutex: a writer that waits keeps new readers out, also one that   *)
(* holds the lock already.                                                  *)
(*                                                                         *)
(* The bytes of a file are named by their offsets, 1 .. Length.             *)
(***************************************************************************)
EXTENDS FileTree

CONSTANTS
  Requests, \* the requests that are answered at a time
  Paths,    \* of the files that the service adds and removes
  Targets,  \* the paths that are asked for
  Length,   \* of every file
  Sizes     \* what Size answers: a hint, or the length; 0 stands for an error too

ASSUME WebdavAssumption ==
  /\ Paths \subseteq Seq(STRING) \ {<< >>}
  /\ Length \in Nat /\ Sizes \subseteq Nat /\ Length \in Sizes

VARIABLES
  tree,
  writer,  \* of fs.mu: "none", "pending", "locked"
  service, \* what the service is about: [op, path]
  held,    \* held[r]: how often request r holds the read lock
  waits,   \* the requests that wait for it
  pc,
  req,     \* req[r]: [method, path, from]
  frames,  \* the calls of ReadDir: [dir, left], the children left to list
  entries, \* names listed so far
  reader,  \* of a GET: [on, size, pos, bytes]; on: simpleFileReader.reader is not nil
  status   \* of the answer

lockVars    == <<writer, held, waits>>
requestVars == <<pc, req, frames, entries, reader, status>>
davVars     == <<tree, service, lockVars, requestVars>>

Root     == << >>
Dirs     == {Root} \cup {p \in DOMAIN tree : tree[p] = Folder}
IsDir(p) == p \in Dirs
Found(p) == p \in {Root} \cup DOMAIN tree

Children(dir) == {p \in DOMAIN tree : Len(p) = Len(dir) + 1 /\ IsPrefix(dir, p)}

-----------------------------------------------------------------------------
(* fs.mu *)

Locks == [stat |-> "statting", open |-> "opening", list |-> "listing"]

RLock(r) ==
  /\ pc[r] \in DOMAIN Locks /\ r \notin waits
  /\ IF writer = "none"
     THEN /\ held' = [held EXCEPT ![r] = @ + 1]
          /\ pc' = [pc EXCEPT ![r] = Locks[@]]
          /\ UNCHANGED waits
     ELSE waits' = waits \cup {r} /\ UNCHANGED <<held, pc>>
  /\ UNCHANGED <<tree, writer, service, req, frames, entries, reader, status>>

RUnlock(r) == held' = [held EXCEPT ![r] = @ - 1]

(* AddFile or RemoveFile, one at a time (Service.mutex), waits for the lock. *)
Change(op, path) ==
  /\ writer = "none"
  /\ writer' = "pending" /\ service' = [op |-> op, path |-> path]
  /\ UNCHANGED <<tree, held, waits, requestVars>>

Lock ==
  /\ writer = "pending" /\ \A r \in Requests : held[r] = 0
  /\ writer' = "locked"
  /\ UNCHANGED <<tree, service, held, waits, requestVars>>

(* The change is made, and the readers that wait go on together. *)
Unlock ==
  /\ writer = "locked"
  /\ tree' = IF service.op = "add" THEN WebdavAdd(tree, service.path, "file")
                                   ELSE WebdavRemove(tree, service.path)
  /\ writer' = "none" /\ service' = [op |-> "none", path |-> Root]
  /\ held' = [r \in Requests |-> IF r \in waits THEN held[r] + 1 ELSE held[r]]
  /\ pc' = [r \in Requests |-> IF r \in waits THEN Locks[pc[r]] ELSE pc[r]]
  /\ waits' = {}
  /\ UNCHANGED <<req, frames, entries, reader, status>>

-----------------------------------------------------------------------------
(* Requests *)

Closed    == [on |-> FALSE, size |-> 0, pos |-> 0, bytes |-> << >>]
NoRequest == [method |-> "none", path |-> Root, from |-> 0]

Goto(r, there) == pc' = [pc EXCEPT ![r] = there]

(* The handler is done; a GET closes its reader. *)
Answer(r, what) ==
  /\ Goto(r, "answered")
  /\ status' = [status EXCEPT ![r] = what]
  /\ frames' = [frames EXCEPT ![r] = << >>]
  /\ UNCHANGED <<entries, reader>>

Answered(r) ==
  /\ pc[r] = "answered"
  /\ Goto(r, "idle")
  /\ req' = [req EXCEPT ![r] = NoRequest] /\ status' = [status EXCEPT ![r] = "none"]
  /\ entries' = [entries EXCEPT ![r] = EmptyBag] /\ reader' = [reader EXCEPT ![r] = Closed]
  /\ UNCHANGED <<tree, service, lockVars, frames>>

(* PROPFIND of depth 0, 1 or infinity, or GET of the bytes after from. *)
Request(r, method, path, from) ==
  /\ pc[r] = "idle"
  /\ method = "get" \/ from = 0
  /\ req' = [req EXCEPT ![r] = [method |-> method, path |-> path, from |-> from]]
  /\ Goto(r, "stat")
  /\ UNCHANGED <<tree, service, lockVars, frames, entries, reader, status>>

(* Create, RemoveAll, Mkdir, Copy and Move change nothing. *)
ReadOnly(r, path) ==
  /\ pc[r] = "idle"
  /\ req' = [req EXCEPT ![r] = [method |-> "write", path |-> path, from |-> 0]]
  /\ Answer(r, "readonly")
  /\ UNCHANGED <<tree, service, lockVars>>

(* Stat, and what the server makes of it. *)
Stat(r) ==
  LET path == req[r].path  method == req[r].method IN
  /\ pc[r] = "statting"
  /\ RUnlock(r)
  /\ \/ ~Found(path) /\ Answer(r, "notfound")
     \/ Found(path) /\ method = "get" /\ IsDir(path) /\ Answer(r, "notallowed")
     \/ Found(path) /\ (method = "stat" \/ (method # "get" /\ ~IsDir(path))) /\ Answer(r, "ok")
     \/ /\ Found(path) /\ method # "stat" /\ IsDir(path) = (method # "get")
        /\ Goto(r, IF method = "get" THEN "open" ELSE "list")
        /\ UNCHANGED <<frames, entries, reader, status>>
  /\ UNCHANGED <<tree, service, writer, waits, req>>

(* ReadDir, from where it has the lock: of the folder asked for, or of the one *)
(* that the calling ReadDir has listed last.                                 *)
Dir(r) == IF frames[r] = << >> THEN req[r].path ELSE Last(frames[r]).at

ReadDir(r) ==
  /\ pc[r] = "listing"
  /\ IF ~Found(Dir(r)) \/ ~IsDir(Dir(r))
     THEN held' = [held EXCEPT ![r] = 0] /\ Answer(r, "notfound")
     ELSE /\ frames' = [frames EXCEPT ![r] = Append(@, [at |-> Dir(r), left |-> Children(Dir(r))])]
          /\ Goto(r, "entries")
          /\ UNCHANGED <<held, entries, reader, status>>
  /\ UNCHANGED <<tree, service, writer, waits, req>>

(* Faulty: ReadDir lets the lock go while it lists a folder of the folder. *)
DescendUnlocked(r) == RUnlock(r)

Descend(r) == UNCHANGED held

(* The next child; a folder is listed by a call that locks fs.mu once more.   *)
Entry(r, child) ==
  LET top == Len(frames[r]) IN
  /\ pc[r] = "entries" /\ child \in frames[r][top].left
  /\ entries' = [entries EXCEPT ![r] = @ (+) SetToBag({Last(child)})]
  /\ IF req[r].method = "deep" /\ IsDir(child)
     THEN /\ Goto(r, "list") /\ Descend(r)
          /\ frames' = [frames EXCEPT ![r][top] = [at |-> child, left |-> @.left \ {child}]]
     ELSE /\ frames' = [frames EXCEPT ![r][top].left = @ \ {child}]
          /\ UNCHANGED <<pc, held>>
  /\ UNCHANGED <<tree, service, writer, waits, req, reader, status>>

ReadDirReturns(r) ==
  /\ pc[r] = "entries" /\ Last(frames[r]).left = {}
  /\ RUnlock(r)
  /\ IF Len(frames[r]) = 1
     THEN Answer(r, "ok")
     ELSE frames' = [frames EXCEPT ![r] = Front(@)] /\ UNCHANGED <<pc, entries, reader, status>>
  /\ UNCHANGED <<tree, service, writer, waits, req>>

-----------------------------------------------------------------------------
(* GET *)

(* Faulty: the lock is kept where the file cannot be opened. *)
OpenFailsLocked(r) == UNCHANGED held /\ Answer(r, "error")

OpenFails(r) == RUnlock(r) /\ Answer(r, "error")

(* Open opens the file with fs.mu locked; for a folder there is no reader. *)
Open(r) ==
  /\ pc[r] = "opening"
  /\ \/ /\ ~Found(req[r].path) \/ ~IsDir(req[r].path)
        /\ OpenFails(r)
     \/ /\ Found(req[r].path)
        /\ reader' = [reader EXCEPT ![r] = [Closed EXCEPT !.on = ~IsDir(req[r].path)]]
        /\ RUnlock(r) /\ Goto(r, "size")
        /\ UNCHANGED <<frames, entries, status>>
  /\ UNCHANGED <<tree, service, writer, waits, req>>

(* ServeContent: Seek(0, SeekEnd) tells the Size and does not move the reader. *)
SeekEnd(r) ==
  /\ pc[r] = "size"
  /\ \E size \in (IF reader[r].on THEN Sizes ELSE {0}) :
       reader' = [reader EXCEPT ![r].size = size]
  /\ Goto(r, "seek")
  /\ UNCHANGED <<tree, service, lockVars, req, frames, entries, status>>

(* Faulty: the reader is not moved. *)
SeekIgnored(r) ==
  /\ pc[r] = "seek" /\ reader[r].on /\ req[r].from <= reader[r].size
  /\ Goto(r, "copy")
  /\ UNCHANGED <<tree, service, lockVars, req, frames, entries, reader, status>>

Seek(r) ==
  /\ pc[r] = "seek"
  /\ \/ /\ reader[r].on /\ req[r].from <= reader[r].size
        /\ reader' = [reader EXCEPT ![r].pos = req[r].from]
        /\ Goto(r, "copy")
        /\ UNCHANGED <<frames, entries, status>>
     \/ ~(reader[r].on /\ req[r].from <= reader[r].size) /\ Answer(r, "range")
     \/ Answer(r, "error")
  /\ UNCHANGED <<tree, service, lockVars, req>>

Wanted(r) == reader[r].size - req[r].from

(* Read gives some of the bytes, or none at the end or for an error. *)
Read(r) ==
  LET rd == reader[r] IN
  /\ pc[r] = "copy" /\ Len(rd.bytes) < Wanted(r)
  /\ \/ \E k \in 1 .. Length - rd.pos :
          /\ Len(rd.bytes) + k <= Wanted(r)
          /\ reader' = [reader EXCEPT ![r].pos = @ + k,
                                      ![r].bytes = @ \o [j \in 1 .. k |-> rd.pos + j]]
          /\ UNCHANGED <<pc, frames, entries, status>>
     \/ Answer(r, "broken")
  /\ UNCHANGED <<tree, service, lockVars, req>>

Copied(r) ==
  /\ pc[r] = "copy" /\ Len(reader[r].bytes) = Wanted(r)
  /\ Answer(r, "ok")
  /\ UNCHANGED <<tree, service, lockVars, req>>

-----------------------------------------------------------------------------
DavInit ==
  /\ tree = EmptyTree /\ service = [op |-> "none", path |-> Root]
  /\ writer = "none" /\ held = [r \in Requests |-> 0] /\ waits = {}
  /\ pc = [r \in Requests |-> "idle"]
  /\ req = [r \in Requests |-> NoRequest]
  /\ frames = [r \in Requests |-> << >>] /\ entries = [r \in Requests |-> EmptyBag]
  /\ reader = [r \in Requests |-> Closed]
  /\ status = [r \in Requests |-> "none"]

Handle(r) ==
  \/ Answered(r) \/ RLock(r) \/ Stat(r) \/ ReadDir(r) \/ ReadDirReturns(r)
  \/ \E child \in Paths \cup UNION {Folders(p) : p \in Paths} : Entry(r, child)
  \/ Open(r) \/ SeekEnd(r) \/ Seek(r) \/ Read(r) \/ Copied(r)

Service == Lock \/ Unlock

DavNext ==
  \/ \E r \in Requests, path \in Targets :
       \/ \E method \in {"stat", "list", "deep", "get"}, from \in 0 .. 1 : Request(r, method, path, from)
       \/ ReadOnly(r, path)
  \/ \E op \in {"add", "remove"}, path \in Paths : Change(op, path)
  \/ \E r \in Requests : Handle(r)
  \/ Service

DavSpec == DavInit /\ [][DavNext]_davVars

(* Every request has a goroutine, and the readers of the files return. *)
FairDavSpec ==
  /\ DavSpec
  /\ \A r \in Requests : WF_davVars(Handle(r))
  /\ WF_davVars(Service)

-----------------------------------------------------------------------------
(* Properties *)

(* What a ReadDir of path lists, by the names of the files: its children, and *)
(* those of the folders below, where it goes down.                           *)
Listed(method, path) ==
  {p \in Below(tree, path) :
     /\ method = "deep" \/ p \in Children(path)
     /\ \A d \in Folders(p) : IsStrictPrefix(path, d) => tree[d] = Folder}

Names(paths) == FoldSet(LAMBDA p, bag : bag (+) SetToBag({Last(p)}), EmptyBag, paths)

(* A listing, also of a whole tree with its folders one after the other, is     *)
(* that of one moment: no file is left out, doubled or gone that an AddFile   *)
(* or RemoveFile meanwhile has added or removed.                             *)
ListIsOfOneMoment ==
  [][\A r \in Requests :
       pc[r] = "entries" /\ pc'[r] = "answered" =>
         entries[r] = Names(Listed(req[r].method, req[r].path))]_davVars

(* A GET that ends well has the bytes from the offset asked for to the Size     *)
(* that was told, each of them its own: also where the file was removed       *)
(* meanwhile; it is cut only by a Size that is a hint, or failed (:379).      *)
GetGivesTheRange ==
  \A r \in Requests :
    req[r].method = "get" /\ status[r] = "ok" =>
      reader[r].bytes = [k \in 1 .. reader[r].size - req[r].from |-> req[r].from + k]

(* A listing of a whole tree waits behind a writer for the lock that it holds. *)
Stuck == \E r \in waits : held[r] > 0 /\ req[r].method = "deep" /\ writer = "pending"

(* Every request is answered, and every AddFile and RemoveFile returns, unless  *)
(* a listing of a whole tree met a writer between two folders: it is the only  *)
(* thing that can stop them, and then it does for ever.                       *)
StuckOnlyByDeepList ==
  /\ \A r \in Requests : (pc[r] # "idle") ~> (pc[r] = "idle" \/ []Stuck)
  /\ (writer # "none") ~> (writer = "none" \/ []Stuck)

=============================================================================
