------------------------------ MODULE FileTree ------------------------------
(***************************************************************************)
(* The trees in which the presenters keep the files that they show: the     *)
(* nodes of internal/presentation/webdav and the inodes of                  *)
(* internal/presentation/fusemount. A tree maps the paths that it has below *)
(* its root to Folder or to the file at that path. A path is a sequence of  *)
(* names.                                                                    *)
(***************************************************************************)
EXTENDS Naturals, Sequences, SequencesExt

CONSTANT Folder

EmptyTree == [p \in {} |-> Folder]

Folders(path)     == {SubSeq(path, 1, i) : i \in 1 .. Len(path) - 1}
Below(tree, path) == {p \in DOMAIN tree : IsStrictPrefix(path, p)}
FilesOf(tree)     == {p \in DOMAIN tree : tree[p] # Folder}

Without(tree, paths) == [p \in DOMAIN tree \ paths |-> tree[p]]

(* The file at its path, and the folders on the way that are not there.      *)
With(tree, path, file) ==
  [p \in DOMAIN tree \cup Folders(path) \cup {path} |->
    IF p = path THEN file ELSE IF p \in DOMAIN tree THEN tree[p] ELSE Folder]

(* Without the path, and what is below it. *)
Cut(tree, path) == Without(tree, {path} \cup Below(tree, path))

(* The folders of the path that hold nothing but folders of the path.       *)
LeftEmpty(tree, path) ==
  {d \in Folders(path) \cap DOMAIN tree : Below(tree, d) \subseteq Folders(path)}

-----------------------------------------------------------------------------
(* webdav. ensurePath takes whatever has the name of a folder for a folder.  *)

Exists(tree, path) == path \in DOMAIN tree

WebdavAdd(tree, path, file) ==
  IF Exists(tree, path) THEN tree ELSE With(tree, path, file)

(* Faulty: the folders of a removed file stay. *)
WebdavRemoveOnly(tree, path) == Cut(tree, path)

(* cleanupEmptyDirs stops at the first node that is not an empty folder.     *)
WebdavRemove(tree, path) ==
  LET rest    == Cut(tree, path)
      removed == {d \in LeftEmpty(rest, path) :
                   \A e \in Folders(path) : Len(e) >= Len(d) => rest[e] = Folder} IN
  IF Exists(tree, path) THEN Without(rest, removed) ELSE tree

-----------------------------------------------------------------------------
(* fusemount. A file replaces what was there before.                         *)

MountAdd(tree, path, file) == With(Cut(tree, path), path, file)

(* Lookup finds the child of a directory by its name; beneath a file the      *)
(* kernel does not look. What a directory lists, and the kind of each entry.  *)
MountLookup(tree, path) ==
  path \in DOMAIN tree /\ \A d \in Folders(path) \cap DOMAIN tree : tree[d] = Folder

Readdir(tree, path) ==
  {[name |-> Last(p), dir |-> tree[p] = Folder] : p \in {q \in Below(tree, path) : Len(q) = Len(path) + 1}}

(* Getattr of a file: its Size may fail, and no time before 1970 can be told. *)
Converts(time) == time >= 0

Getattr(size, time) == size >= 0 /\ Converts(time)

(* The files that one finds in the mount from its root. *)
MountFiles(tree) ==
  {p \in DOMAIN tree :
    MountLookup(tree, p) /\ [name |-> Last(p), dir |-> FALSE] \in Readdir(tree, Front(p))}

MountRemove(tree, path) ==
  LET rest == Cut(tree, path) IN
  IF Folders(path) \subseteq DOMAIN tree THEN Without(rest, LeftEmpty(rest, path)) ELSE tree

=============================================================================
