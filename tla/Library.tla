------------------------------ MODULE Library -------------------------------
(***************************************************************************)
(* From a file in the watched folder to the files the presenters show:      *)
(* internal/trigger/folderwatcher notices a nzb file and parses it, in a    *)
(* goroutine for each; internal/service/nzbservice registers the nzb by its *)
(* name, builds and checks its files, and adds them to its presenters.      *)
(*                                                                         *)
(* NzbService.Init is over when the watcher starts (cmd/nzbstreamer/main),  *)
(* so that the service listens; its store is empty (stubstore).             *)
(***************************************************************************)
EXTENDS FileTree, NzbFiles

CONSTANTS
  Files,       \* names in the watched folder
  Nzbs,        \* what the nzb files may hold (see NzbFiles), and
  MayHold,     \* which of them each file may
  Attempts,    \* what may come of the attempt to read a file
  Sizeless,    \* the files whose Size fails
  Spelling(_), \* a name as a string
  Nobody

ASSUME LibraryAssumption ==
  /\ MayHold \in [Files -> (SUBSET DOMAIN Nzbs) \ {{}}]
  /\ \A i \in DOMAIN Nzbs : Kept(Nzbs[i]) # {} /\ MetaName(Nzbs[i]) # << >>
  /\ Nobody \notin Files

(* The paths of the trees are sequences of strings. *)
Spelled(path) == [i \in DOMAIN path |-> Spelling(path[i])]

Given(paths, value(_)) ==
  [p \in {Spelled(c) : c \in paths} |-> value(CHOOSE c \in paths : Spelled(c) = p)]

(* What an nzb comes to: its MetaName, whether it parses, whether its files   *)
(* can be built, whether to build them may never end, what the check of their *)
(* health may say, their date, and the size of each and its path below the    *)
(* MetaName.                                                                 *)
Outcome(i) ==
  [id     |-> i,
   name   |-> Spelled(MetaName(Nzbs[i])),
   parses |-> Plausible(Nzbs[i]),
   builds |-> Builds(Nzbs[i]) /\ Presented(Nzbs[i]) # {},
   loops  |-> Loops(Nzbs[i]),
   checks |-> {Verdict(a) : a \in [Presented(Nzbs[i]) -> Attempts]},
   date   |-> Date(Nzbs[i]),
   sizes  |-> Given(Presented(Nzbs[i]), LAMBDA c : SizeOf(Nzbs[i], c)),
   places |-> Given(Presented(Nzbs[i]), LAMBDA c : Spelled(Place(Nzbs[i], c)))]

ASSUME OutcomeAssumption ==
  \A i \in DOMAIN Nzbs :
    /\ Outcome(i).name \in Seq(STRING) \ {<< >>}
    /\ \A c \in DOMAIN Outcome(i).places :
         Outcome(i).places[c] \in Seq(STRING) /\ \A f \in Files : Folder # <<f, c>>

VARIABLES
  nzb,        \* the Outcome of the nzb that each file holds
  folder,     \* what is in the watched folder of each file
  watching,   \* how the folder is watched
  boot,       \* is the scan of Init still to come?
  event,      \* has watcher.Events events that no scan follows yet?
  scanning,   \* is folderWatcher.mu held, by scanDirectory?
  processed,  \* processedFiles
  pc,         \* where processFile is with a file
  registered, \* nzbFiledata: the files whose nzb is registered
  nzbFiles,   \* the paths tracked for each nzb
  mutex,      \* who holds Service.mutex
  todo,       \* the files that AddNzb has to add to the presenters yet
  webdav, mount

watchVars   == <<nzb, folder, watching, boot, event, scanning, processed>>
serviceVars == <<registered, nzbFiles, mutex, todo, webdav, mount>>
libVars     == <<watchVars, pc, serviceVars>>

At(f, here) == pc[f] = here

Goto(f, here, there) == At(f, here) /\ pc' = [pc EXCEPT ![f] = there]

-----------------------------------------------------------------------------
(* The watched folder *)

(* Faulty: an event during a scan is dropped. *)
NoticeWhenIdle == event' = (event \/ (watching = "events" /\ ~scanning))

Notice == event' = (event \/ watching = "events")

Contained == {"none", "part", "whole"}

(* A file is moved to the folder, or somebody begins to write one,            *)
Create(f) ==
  /\ folder[f] = "none"
  /\ \E content \in Contained \ {"none"} : folder' = [folder EXCEPT ![f] = content]
  /\ Notice
  /\ UNCHANGED <<nzb, watching, boot, scanning, processed, pc, serviceVars>>

(* and completes it. *)
Complete(f) ==
  /\ folder[f] = "part"
  /\ folder' = [folder EXCEPT ![f] = "whole"]
  /\ Notice
  /\ UNCHANGED <<nzb, watching, boot, scanning, processed, pc, serviceVars>>

(* startFsNotifyScan, or startPeriodicScan where that fails. *)
StartWatching ==
  /\ watching = "none"
  /\ watching' \in {"events", "ticker"}
  /\ UNCHANGED <<nzb, folder, boot, event, scanning, processed, pc, serviceVars>>

NewFiles == {f \in Files : folder[f] # "none" /\ f \notin processed}

(* Faulty: processedFiles is not looked at. *)
ScanAll ==
  LET all == {f \in Files : folder[f] # "none"} IN
  /\ ~scanning /\ event
  /\ event' = FALSE
  /\ scanning' = TRUE
  /\ processed' = processed \cup all
  /\ pc' = [f \in Files |-> IF f \in all THEN "parse" ELSE pc[f]]
  /\ UNCHANGED <<nzb, folder, watching, boot, serviceVars>>

(* scanDirectory: of the goroutine of Init, of an event or of the ticker.    *)
Scan ==
  /\ ~scanning
  /\ \/ boot /\ boot' = FALSE /\ UNCHANGED event
     \/ event /\ event' = FALSE /\ UNCHANGED boot
     \/ watching = "ticker" /\ UNCHANGED <<boot, event>>
  /\ scanning' = TRUE
  /\ processed' = processed \cup NewFiles
  /\ pc' = [f \in Files |-> IF f \in NewFiles THEN "parse" ELSE pc[f]]
  /\ UNCHANGED <<nzb, folder, watching, serviceVars>>

Busy(f) == pc[f] \notin {"none", "done"}

(* group.Wait: all files of the scan are through. *)
ScanEnd ==
  /\ scanning /\ \A f \in Files : ~Busy(f)
  /\ scanning' = FALSE
  /\ UNCHANGED <<nzb, folder, watching, boot, event, processed, pc, serviceVars>>

(* A file that is still being written cannot be parsed. *)
Parse(f) ==
  /\ \/ Goto(f, "parse", "add") /\ folder[f] = "whole" /\ nzb[f].parses
     \/ Goto(f, "parse", "done") /\ ~(folder[f] = "whole" /\ nzb[f].parses)
  /\ UNCHANGED <<watchVars, serviceVars>>

-----------------------------------------------------------------------------
(* AddNzb *)

SameName(f, g) == nzb[f].name = nzb[g].name

Known(f) == \E g \in registered : SameName(f, g)

AlreadyExists(f) ==
  /\ Goto(f, "add", "done")
  /\ mutex = Nobody /\ Known(f)
  /\ UNCHANGED <<watchVars, serviceVars>>

(* Faulty: the name is not looked for. *)
RegisterAgain(f) ==
  /\ mutex = Nobody
  /\ Goto(f, "add", "build")
  /\ registered' = registered \cup {f}
  /\ UNCHANGED <<watchVars, nzbFiles, mutex, todo, webdav, mount>>

Register(f) ==
  /\ Goto(f, "add", "build")
  /\ mutex = Nobody /\ ~Known(f)
  /\ registered' = registered \cup {f}
  /\ UNCHANGED <<watchVars, nzbFiles, mutex, todo, webdav, mount>>

(* The files are built and checked. Blacklists that leave none, a build that *)
(* fails, for an article or for a name, and too few healthy files end AddNzb; *)
(* the name stays registered. Or neither ends: what is "stuck" stays so.     *)
Build(f) ==
  /\ \/ Goto(f, "build", "track") /\ nzb[f].builds /\ "healthy" \in nzb[f].checks
     \/ Goto(f, "build", "done")
     \/ Goto(f, "build", "stuck") /\ (nzb[f].loops \/ (nzb[f].builds /\ "waits" \in nzb[f].checks))
  /\ UNCHANGED <<watchVars, serviceVars>>

Track(f) ==
  /\ Goto(f, "track", "publish")
  /\ mutex = Nobody
  /\ mutex' = f
  /\ nzbFiles' = [nzbFiles EXCEPT ![f] = << >>]
  /\ todo' = DOMAIN nzb[f].places
  /\ UNCHANGED <<watchVars, registered, webdav, mount>>

FullPath(f, c) == nzb[f].name \o nzb[f].places[c]

(* Faulty: a path is tracked only if it was added. *)
PublishUntracked(f, c) ==
  /\ At(f, "publish") /\ c \in todo
  /\ todo' = todo \ {c}
  /\ nzbFiles' = IF Exists(webdav, FullPath(f, c)) \/ c \in Sizeless THEN nzbFiles
                 ELSE [nzbFiles EXCEPT ![f] = Append(@, FullPath(f, c))]
  /\ webdav' = WebdavAdd(webdav, FullPath(f, c), <<f, c>>)
  /\ mount' = IF c \in Sizeless THEN mount ELSE MountAdd(mount, FullPath(f, c), <<f, c>>)
  /\ UNCHANGED <<watchVars, pc, registered, mutex>>

(* One file is tracked and added to the presenters, whose errors are logged. *)
Publish(f, c) ==
  /\ At(f, "publish") /\ c \in todo
  /\ todo' = todo \ {c}
  /\ nzbFiles' = [nzbFiles EXCEPT ![f] = Append(@, FullPath(f, c))]
  /\ webdav' = WebdavAdd(webdav, FullPath(f, c), <<f, c>>)
  /\ mount' = IF c \in Sizeless THEN mount ELSE MountAdd(mount, FullPath(f, c), <<f, c>>)
  /\ UNCHANGED <<watchVars, pc, registered, mutex>>

(* Faulty: the service stays locked where a presenter had an error. *)
PublishedUnlessSizeless(f) ==
  /\ todo = {} /\ DOMAIN nzb[f].places \cap Sizeless = {}
  /\ Goto(f, "publish", "done")
  /\ mutex' = Nobody
  /\ UNCHANGED <<watchVars, registered, nzbFiles, todo, webdav, mount>>

Published(f) ==
  /\ todo = {}
  /\ Goto(f, "publish", "done")
  /\ mutex' = Nobody
  /\ UNCHANGED <<watchVars, registered, nzbFiles, todo, webdav, mount>>

(* RemoveNzb, for the name of f. It takes no lock (:335): whoever calls it    *)
(* keeps it apart from an AddNzb of the same name and from one that adds its  *)
(* files. The watchers know it as a hook and do not call it.                  *)
RemoveNzb(f) ==
  /\ f \in registered /\ At(f, "done") /\ mutex = Nobody
  /\ webdav' = FoldLeft(WebdavRemove, webdav, nzbFiles[f])
  /\ mount' = FoldLeft(MountRemove, mount, nzbFiles[f])
  /\ registered' = registered \ {f}
  /\ nzbFiles' = [nzbFiles EXCEPT ![f] = << >>]
  /\ UNCHANGED <<watchVars, pc, mutex, todo>>

-----------------------------------------------------------------------------
LibInit ==
  /\ nzb \in {held \in [Files -> {Outcome(i) : i \in DOMAIN Nzbs}] : \A f \in Files : held[f].id \in MayHold[f]}
  /\ folder \in [Files -> Contained]
  /\ watching = "none" /\ boot = TRUE /\ event = FALSE
  /\ scanning = FALSE /\ processed = {}
  /\ pc = [f \in Files |-> "none"]
  /\ registered = {} /\ nzbFiles = [f \in Files |-> << >>]
  /\ mutex = Nobody /\ todo = {}
  /\ webdav = EmptyTree /\ mount = EmptyTree

AddNzb(f) ==
  \/ AlreadyExists(f) \/ Register(f) \/ Build(f) \/ Track(f) \/ Published(f)
  \/ \E c \in todo : Publish(f, c)

LibNext ==
  \/ StartWatching \/ Scan \/ ScanEnd
  \/ \E f \in Files : Create(f) \/ Complete(f) \/ Parse(f) \/ AddNzb(f) \/ RemoveNzb(f)

LibSpec == LibInit /\ [][LibNext]_libVars

(* The goroutines run on. No AddNzb waits for ever for a mutex that others    *)
(* take again and again: each nzb file takes it twice.                        *)
FairLibSpec ==
  /\ LibSpec
  /\ WF_libVars(StartWatching) /\ WF_libVars(Scan) /\ WF_libVars(ScanEnd)
  /\ \A f \in Files : WF_libVars(Parse(f)) /\ WF_libVars(AddNzb(f))

-----------------------------------------------------------------------------
(* Properties *)

(* However many files of the folder hold an nzb of one name, and though each *)
(* is parsed in a goroutine of its own: one of them is registered.           *)
OneOfAName == \A f, g \in registered : SameName(f, g) => f = g

Tracked(f) == {nzbFiles[f][i] : i \in DOMAIN nzbFiles[f]}

AllTracked == UNION {Tracked(f) : f \in registered}

(* A path above or below that of another file. *)
Clashing(p) == \E q \in AllTracked : IsStrictPrefix(p, q) \/ IsStrictPrefix(q, p)

AddedAt(p) ==
  {added \in UNION {{f} \X DOMAIN nzb[f].places : f \in registered} :
    LET f == added[1]  c == added[2] IN
    FullPath(f, c) = p /\ nzbFiles[f] # << >> /\ (mutex = f => c \notin todo)}

(* The files that one finds in the mount, and that can be told about. *)
MountShows ==
  {p \in MountFiles(mount) : LET f == mount[p][1]  c == mount[p][2] IN Getattr(nzb[f].sizes[c], nzb[f].date)}

(* Both presenters show the files that are tracked for some nzb, and no      *)
(* other, at every moment: also while another nzb adds its files, after a    *)
(* RemoveNzb of one that has folders in common with others, and where two    *)
(* files of an nzb are given the same path. The mount lacks those without a  *)
(* Size, and those of an nzb from before 1970 are listed only. Where one     *)
(* file is below another, either may be missing.                             *)
ShowsTheTracked ==
  /\ FilesOf(webdav) \subseteq AllTracked
  /\ \A p \in AllTracked : Clashing(p) \/ p \in FilesOf(webdav)
  /\ \A p \in AllTracked \cup MountFiles(mount) :
       Clashing(p) \/ (p \in MountShows <=>
                       \E added \in AddedAt(p) : added[2] \notin Sizeless /\ nzb[added[1]].date >= 0)

Apart(p, q) == p # q /\ ~IsStrictPrefix(p, q) /\ ~IsStrictPrefix(q, p)

(* RemoveNzb takes from the presenters whatever is at the paths of the nzb,   *)
(* and a file may hide one below it: the above is about nzbs whose files are  *)
(* neither at the path of a file of an nzb of another name, nor above or      *)
(* below one.                                                                *)
NzbsApart ==
  \A i, j \in DOMAIN Nzbs : Outcome(i).name # Outcome(j).name =>
    \A c \in DOMAIN Outcome(i).places, d \in DOMAIN Outcome(j).places :
      Apart(Outcome(i).name \o Outcome(i).places[c], Outcome(j).name \o Outcome(j).places[d])

(* No size is negative, which the mount would not tell about. *)
Sized == \A i \in DOMAIN Nzbs : \A c \in DOMAIN Outcome(i).places : Outcome(i).sizes[c] >= 0

WellFormed(tree) ==
  \A p \in DOMAIN tree :
    /\ \A d \in Folders(p) : d \in DOMAIN tree /\ (tree[d] = Folder \/ Clashing(p))
    /\ tree[p] = Folder => \E q \in FilesOf(tree) : IsStrictPrefix(p, q)

(* No folder stays that has no file.                                         *)
TreesWellFormed == WellFormed(webdav) /\ WellFormed(mount)

PathOf(f, c) == nzb[f].places[Spelled(c)]

Shown(f, c) ==
  LET path == FullPath(f, Spelled(c)) IN path \in DOMAIN webdav /\ webdav[path] = <<f, Spelled(c)>>

Raw(c) == Len(c) = 1

TakenOut(f, c) ==
  LET paths == Presented(Nzbs[nzb[f].id]) IN
  Removable(Deobfuscated(c, paths, MetaName(Nzbs[nzb[f].id])), paths) # {}

(* d is in the way of c: one of the two was taken out of its folder, or c is  *)
(* the only volume of an archive, which has the name of the folder of d.     *)
InTheWay(f, c, d) ==
  \/ PathOf(f, c) = PathOf(f, d) /\ (TakenOut(f, c) \/ TakenOut(f, d))
  \/ Raw(c) /\ ~Raw(d) /\ c[1] = d[1] /\ IsStrictPrefix(PathOf(f, c), PathOf(f, d))

(* Names made readable are distinct: a file of an nzb that was added is at    *)
(* its path unless flattenPath, or the folder of an archive of one volume,    *)
(* has put another file of the nzb there.                                    *)
KeptApart ==
  \A f \in registered : At(f, "done") /\ nzbFiles[f] # << >> =>
    \A c \in Presented(Nzbs[nzb[f].id]) :
      Shown(f, c) \/ \E d \in Presented(Nzbs[nzb[f].id]) \ {c} : InTheWay(f, c, d) /\ Shown(f, d)

(* Names of files and folders, of which a path is made.                      *)
Names == [base : STRING, exts : Seq([word : STRING, num : Int, lead : BOOLEAN])]

(* What the last name of the path of a file may come to be, and all names of  *)
(* its path.                                                                 *)
GivenNames(nzbOf, c) ==
  {Last(c), Last(WithExt(Replacement(c, MetaName(nzbOf)), Ext(Last(c))))}

NamesIn(nzbOf, c) ==
  ToSet(Front(MetaName(nzbOf))) \cup ToSet(FolderOf(c)) \cup GivenNames(nzbOf, c)

(* The names of an nzb keep its files apart: no file is given the name of a   *)
(* folder, but that of an archive by its only volume; a MetaName of many      *)
(* names is no folder of the nzb; a file without an extension, which would be *)
(* given the whole MetaName, finds no file of that name; and names that      *)
(* differ are spelled differently.                                           *)
NamesApart ==
  \A i \in DOMAIN Nzbs :
    LET paths == Presented(Nzbs[i])
        meta  == MetaName(Nzbs[i]) IN
    /\ IsFiniteSet(paths) /\ paths \cup {meta} \subseteq Seq(Names) \ {<< >>}
    /\ \A c \in paths : ToSet(Front(meta)) \cap (ToSet(FolderOf(c)) \cup GivenNames(Nzbs[i], c)) = {}
    /\ \A c, d \in paths : \A j \in 1 .. Len(d) - 1 :
         d[j] \in GivenNames(Nzbs[i], c) => j = 1 /\ c = <<d[1]>>
    /\ \A c, d \in paths : FolderOf(c) = FolderOf(d) /\ Ext(Last(c)) = NoExt /\ Ext(Last(d)) # NoExt =>
         Last(d) # Last(meta)
    /\ \A c, d \in paths : \A n \in NamesIn(Nzbs[i], c), m \in NamesIn(Nzbs[i], d) :
         Spelling(n) = Spelling(m) => n = m

(* Volumes whose names differ in one number only, which grows.                *)
Counted(volumes) ==
  \A i, j \in DOMAIN volumes : i < j =>
    LET x == Numbers(volumes[i])  y == Numbers(volumes[j]) IN
    /\ x \in Seq(Nat) /\ y \in Seq(Nat) /\ Len(x) = 1 /\ Len(y) = 1 /\ x[1] < y[1]
    /\ Digitless(volumes[i]) = Digitless(volumes[j])

(* The archives that a group of names is all of are rar archives, and named so. *)
VolumesNamed ==
  \A i \in DOMAIN Nzbs : \A a \in Nzbs[i].archives :
    (\E group \in GroupNames(Nzbs[i]) : ToSet(a.volumes) = Group(Kept(Nzbs[i]), group)) =>
      /\ a.volumes \in Seq(Kept(Nzbs[i])) /\ Counted(a.volumes)
      /\ \A k \in DOMAIN a.volumes : IsRar(GroupName(a.volumes[k]))

(* An archive whose volumes, and nothing else, were grouped by their names is *)
(* read in the order of its volumes, and the file found in it is added.       *)
VolumesFollow ==
  \A f \in Files : At(f, "track") =>
    \A a \in Nzbs[nzb[f].id].archives, group \in GroupNames(Nzbs[nzb[f].id]) :
      ToSet(a.volumes) = Group(Kept(Nzbs[nzb[f].id]), group) =>
        /\ Volumes(Nzbs[nzb[f].id], group) = a.volumes
        /\ <<group>> \o a.entry \in Presented(Nzbs[nzb[f].id]) \cup FileBlacklist

(* An nzb file is handed to the service once at most, however often the      *)
(* folder is scanned.                                                        *)
ParsedOnce == [][\A f \in Files : At(f, "done") => At(f, "done")']_pc

Timely(f) ==
  \/ folder[f] = "whole" /\ boot
  \/ folder[f] = "none" /\ watching # "none"

(* An AddNzb that does not return, for an archive that begins with a          *)
(* directory or a read without an answer; the scan that called it waits.     *)
SomeStuck == \E f \in Files : At(f, "stuck")

(* "FolderWatcher notifies listeners about new files in directory": an nzb    *)
(* file that is moved to the folder while it is watched, or before it is      *)
(* scanned first, reaches the service, whatever scans are under way, unless   *)
(* an AddNzb of this or another file does not return. (One that is written in *)
(* place need not, nor one that comes between the first scan and the watch.)  *)
NewFilesNotified ==
  []~SomeStuck =>
    \A f \in Files :
      nzb[f].parses /\ <>Timely(f) /\ [](folder[f] # "part") /\ <>[](folder[f] = "whole") => <>At(f, "add")

(* Every scan ends, and with it every AddNzb it called, but for an AddNzb     *)
(* that does not return: neither the locks of the service and the watcher     *)
(* nor what goes wrong with a file keeps a scan from its end.                 *)
ScanReturns == scanning ~> (~scanning \/ SomeStuck)

=============================================================================
