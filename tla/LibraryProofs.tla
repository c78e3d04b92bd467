---------------------------- MODULE LibraryProofs ----------------------------
(***************************************************************************)
(* Proofs about Library, for any nzb files, names and contents: one nzb of a  *)
(* name is registered (NameCorrect), an nzb file is handed to the service     *)
(* once at most (ParseCorrect), no presenter keeps a folder without a file    *)
(* (TreesCorrect), both show the files that are tracked (ShownCorrect),       *)
(* archives are read in the order of their volumes (VolumesCorrect), and no   *)
(* file of an nzb takes the path of another one (KeptCorrect).                *)
(***************************************************************************)
EXTENDS Library, FiniteSetTheorems, WellFoundedInduction, TLAPS

-----------------------------------------------------------------------------
(* A file that processFile was called for is among processedFiles, which a    *)
(* scan passes over.                                                         *)
LibInv ==
  /\ DOMAIN pc = Files
  /\ registered \subseteq Files
  /\ \A f \in Files : pc[f] # "none" => f \in processed
  /\ OneOfAName

LEMMA LibInvInit == LibInit => LibInv
BY DEF LibInit, LibInv, OneOfAName

(* The steps of processFile go from one place to another, and none leads out  *)
(* of "done".                                                                *)
LEMMA GotoKeeps ==
  ASSUME LibInv, NEW f \in Files, NEW here, NEW there, here \notin {"none", "done"}, Goto(f, here, there)
  PROVE  /\ DOMAIN pc' = Files
         /\ \A g \in Files : pc'[g] # "none" => g \in processed
         /\ \A g \in Files : At(g, "done") => At(g, "done")'
BY DEF LibInv, Goto, At

(* What Register finds unknown has a name of its own.                        *)
LEMMA RegisterKeeps ==
  ASSUME LibInv, NEW f \in Files, Register(f), UNCHANGED nzb
  PROVE  registered' \subseteq Files /\ OneOfAName'
<1>1. registered' = registered \cup {f}
  BY DEF Register
<1>2. ASSUME NEW g \in registered PROVE nzb[f].name # nzb[g].name
  BY DEF Register, Known, SameName
<1> QED
  BY <1>1, <1>2 DEF LibInv, OneOfAName, SameName

-----------------------------------------------------------------------------
Stays(f) == At(f, "done") => At(f, "done")'

(* Every step of the service for one file keeps the invariant, and the places *)
(* of the files that are done.                                               *)
LEMMA AddNzbKeeps ==
  ASSUME LibInv, NEW f \in Files, Parse(f) \/ AddNzb(f) \/ RemoveNzb(f)
  PROVE  LibInv' /\ \A g \in Files : Stays(g)
<1>1. CASE Parse(f)
  <2>1. UNCHANGED <<processed, registered, nzb>>
    BY <1>1 DEF Parse, watchVars, serviceVars
  <2>2. Goto(f, "parse", "add") \/ Goto(f, "parse", "done")
    BY <1>1 DEF Parse
  <2> QED
    BY <2>1, <2>2, GotoKeeps DEF LibInv, OneOfAName, SameName, Stays
<1>2. CASE AlreadyExists(f)
  <2>1. UNCHANGED <<processed, registered, nzb>> /\ Goto(f, "add", "done")
    BY <1>2 DEF AlreadyExists, watchVars, serviceVars
  <2> QED
    BY <2>1, GotoKeeps DEF LibInv, OneOfAName, SameName, Stays
<1>3. CASE Register(f)
  <2>1. UNCHANGED <<processed, nzb>> /\ Goto(f, "add", "build")
    BY <1>3 DEF Register, watchVars
  <2> QED
    BY <1>3, <2>1, GotoKeeps, RegisterKeeps DEF LibInv, Stays
<1>4. CASE Build(f)
  <2>1. UNCHANGED <<processed, registered, nzb>>
    BY <1>4 DEF Build, watchVars, serviceVars
  <2>2. Goto(f, "build", "track") \/ Goto(f, "build", "done") \/ Goto(f, "build", "stuck")
    BY <1>4 DEF Build
  <2> QED
    BY <2>1, <2>2, GotoKeeps DEF LibInv, OneOfAName, SameName, Stays
<1>5. CASE Track(f)
  <2>1. UNCHANGED <<processed, registered, nzb>> /\ Goto(f, "track", "publish")
    BY <1>5 DEF Track, watchVars
  <2> QED
    BY <2>1, GotoKeeps DEF LibInv, OneOfAName, SameName, Stays
<1>6. CASE Published(f)
  <2>1. UNCHANGED <<processed, registered, nzb>> /\ Goto(f, "publish", "done")
    BY <1>6 DEF Published, watchVars
  <2> QED
    BY <2>1, GotoKeeps DEF LibInv, OneOfAName, SameName, Stays
<1>7. ASSUME NEW c \in todo, Publish(f, c)
      PROVE  LibInv' /\ \A g \in Files : Stays(g)
  <2>1. UNCHANGED <<processed, registered, nzb, pc>>
    BY <1>7 DEF Publish, watchVars
  <2> QED
    BY <2>1 DEF LibInv, OneOfAName, SameName, Stays, At
<1>8. CASE RemoveNzb(f)
  <2>1. UNCHANGED <<processed, nzb, pc>> /\ registered' \subseteq registered
    BY <1>8 DEF RemoveNzb, watchVars
  <2> QED
    BY <2>1 DEF LibInv, OneOfAName, SameName, Stays, At
<1> QED
  BY <1>1, <1>2, <1>3, <1>4, <1>5, <1>6, <1>7, <1>8 DEF AddNzb

(* A scan begins with the files that no scan began with.                     *)
LEMMA ScanKeeps ==
  ASSUME LibInv, Scan
  PROVE  LibInv' /\ \A g \in Files : Stays(g)
<1>1. /\ processed' = processed \cup NewFiles
      /\ pc' = [f \in Files |-> IF f \in NewFiles THEN "parse" ELSE pc[f]]
      /\ UNCHANGED <<registered, nzb>>
  BY DEF Scan, serviceVars
<1>2. ASSUME NEW f \in NewFiles PROVE pc[f] = "none"
  BY DEF NewFiles, LibInv
<1> QED
  BY <1>1, <1>2 DEF LibInv, OneOfAName, SameName, Stays, At

LEMMA LibInvStep ==
  ASSUME LibInv, [LibNext]_libVars
  PROVE  LibInv' /\ \A g \in Files : Stays(g)
<1>1. ASSUME UNCHANGED <<processed, registered, nzb, pc>>
      PROVE  LibInv' /\ \A g \in Files : Stays(g)
  BY <1>1 DEF LibInv, OneOfAName, SameName, Stays, At
<1>2. ASSUME \/ StartWatching \/ ScanEnd \/ UNCHANGED libVars
             \/ \E f \in Files : Create(f) \/ Complete(f)
      PROVE  UNCHANGED <<processed, registered, nzb, pc>>
  BY <1>2 DEF StartWatching, ScanEnd, Create, Complete, libVars, watchVars, serviceVars
<1> QED
  BY <1>1, <1>2, ScanKeeps, AddNzbKeeps DEF LibNext

(* However many nzb files there are and whatever they hold, two registered    *)
(* nzbs have different names: Register looks for the name and takes it in one *)
(* step under the mutex.                                                     *)
THEOREM NameCorrect == LibSpec => []OneOfAName
<1>1. LibInv => OneOfAName
  BY DEF LibInv
<1> QED
  BY <1>1, LibInvInit, LibInvStep, PTL DEF LibSpec

(* However often the folder is scanned, a file that is done stays done.      *)
THEOREM ParseCorrect == LibSpec => ParsedOnce
<1>1. ASSUME LibInv, [LibNext]_libVars
      PROVE  [\A f \in Files : At(f, "done") => At(f, "done")']_pc
  BY <1>1, LibInvStep DEF Stays
<1> QED
  BY <1>1, LibInvInit, LibInvStep, PTL DEF LibSpec, ParsedOnce

-----------------------------------------------------------------------------
(* The paths of the presenters. None of them has their root. *)
Path == Seq(STRING) \ {<< >>}

(* A path is above another if it is shorter and the other begins with it. *)
LEMMA PrefixIs ==
  ASSUME NEW p \in Seq(STRING), NEW q \in Seq(STRING)
  PROVE  IsStrictPrefix(p, q) <=> Len(p) < Len(q) /\ \A i \in 1 .. Len(p) : p[i] = q[i]
<1>1. ASSUME Len(p) <= Len(q)
      PROVE  SubSeq(p, 1, Len(p)) = SubSeq(q, 1, Len(p)) <=> \A i \in 1 .. Len(p) : p[i] = q[i]
  <2>1. SubSeq(p, 1, Len(p)) = p
    OBVIOUS
  <2>2. SubSeq(q, 1, Len(p)) \in Seq(STRING) /\ Len(SubSeq(q, 1, Len(p))) = Len(p)
    BY <1>1
  <2>3. \A i \in 1 .. Len(p) : SubSeq(q, 1, Len(p))[i] = q[i]
    BY <1>1
  <2> QED
    BY <2>1, <2>2, <2>3
<1>2. Len(p) = Len(q) /\ (\A i \in 1 .. Len(p) : p[i] = q[i]) => p = q
  OBVIOUS
<1> QED
  BY <1>1, <1>2 DEF IsStrictPrefix, IsPrefix

(* The folders of a path are the paths above it. *)
LEMMA FoldersAre ==
  ASSUME NEW p \in Path, NEW d
  PROVE  d \in Folders(p) <=> d \in Path /\ IsStrictPrefix(d, p)
<1>1. ASSUME NEW i \in 1 .. Len(p) - 1
      PROVE  SubSeq(p, 1, i) \in Path /\ IsStrictPrefix(SubSeq(p, 1, i), p)
  <2>1. SubSeq(p, 1, i) \in Seq(STRING) /\ Len(SubSeq(p, 1, i)) = i
    BY DEF Path
  <2>2. \A j \in 1 .. i : SubSeq(p, 1, i)[j] = p[j]
    BY DEF Path
  <2>3. p \in Seq(STRING) /\ i < Len(p) /\ i # 0
    BY DEF Path
  <2>4. IsStrictPrefix(SubSeq(p, 1, i), p)
    BY <2>1, <2>2, <2>3, PrefixIs
  <2>5. SubSeq(p, 1, i) # << >>
    BY <2>1, <2>3
  <2> QED
    BY <2>1, <2>4, <2>5 DEF Path
<1>2. ASSUME d \in Path, IsStrictPrefix(d, p)
      PROVE  Len(d) \in 1 .. Len(p) - 1 /\ d = SubSeq(p, 1, Len(d))
  <2>1. Len(d) < Len(p)
    BY <1>2, PrefixIs DEF Path
  <2>2. Len(d) \in Nat /\ Len(d) # 0
    BY <1>2 DEF Path
  <2>3. d = SubSeq(d, 1, Len(d))
    BY <1>2 DEF Path
  <2> QED
    BY <1>2, <2>1, <2>2, <2>3 DEF IsStrictPrefix, IsPrefix, Path
<1> QED
  BY <1>1, <1>2 DEF Folders

(* To be above is an order, and of two paths above a third one is above the other. *)
LEMMA PrefixOrder ==
  ASSUME NEW p \in Seq(STRING), NEW q \in Seq(STRING), NEW r \in Seq(STRING)
  PROVE  /\ ~IsStrictPrefix(p, p)
         /\ IsStrictPrefix(p, q) => Len(p) < Len(q)
         /\ IsStrictPrefix(p, q) /\ IsStrictPrefix(q, r) => IsStrictPrefix(p, r)
         /\ IsStrictPrefix(p, r) /\ IsStrictPrefix(q, r) =>
              p = q \/ IsStrictPrefix(p, q) \/ IsStrictPrefix(q, p)
<1>1. ASSUME IsStrictPrefix(p, q), IsStrictPrefix(q, r)
      PROVE  IsStrictPrefix(p, r)
  BY <1>1, PrefixIs
<1>2. ASSUME IsStrictPrefix(p, r), IsStrictPrefix(q, r), Len(p) < Len(q)
      PROVE  IsStrictPrefix(p, q)
  BY <1>2, PrefixIs
<1>3. ASSUME IsStrictPrefix(p, r), IsStrictPrefix(q, r), Len(q) < Len(p)
      PROVE  IsStrictPrefix(q, p)
  BY <1>3, PrefixIs
<1>4. ASSUME IsStrictPrefix(p, r), IsStrictPrefix(q, r), Len(q) = Len(p)
      PROVE  p = q
  <2>1. \A i \in 1 .. Len(p) : p[i] = q[i]
    BY <1>4, PrefixIs
  <2> QED
    BY <1>4, <2>1
<1>5. ~IsStrictPrefix(p, p) /\ (IsStrictPrefix(p, q) => Len(p) < Len(q))
  BY PrefixIs
<1>6. Len(p) < Len(q) \/ Len(q) < Len(p) \/ Len(p) = Len(q)
  OBVIOUS
<1> QED
  BY <1>1, <1>2, <1>3, <1>4, <1>5, <1>6

-----------------------------------------------------------------------------
(* A tree has the folders on the way to what it has, and none without a file in it:
   Tidy. FilledBut tells of a tree from which a path was just cut. *)
Shape(tree) == DOMAIN tree \subseteq Path /\ \A p \in DOMAIN tree : Folders(p) \subseteq DOMAIN tree

HoldsFile(tree, p) == \E q \in FilesOf(tree) : IsStrictPrefix(p, q)

FilledBut(tree, path) == \A p \in DOMAIN tree : tree[p] = Folder => p \in Folders(path) \/ HoldsFile(tree, p)

Tidy(tree) == Shape(tree) /\ \A p \in DOMAIN tree : tree[p] = Folder => HoldsFile(tree, p)

(* Cut leaves folders without a file only on the way to the path. *)
LEMMA CutKeeps ==
  ASSUME NEW tree, Tidy(tree), NEW path \in Path
  PROVE  /\ Shape(Cut(tree, path)) /\ FilledBut(Cut(tree, path), path)
         /\ path \notin DOMAIN Cut(tree, path)
         /\ \A p \in DOMAIN Cut(tree, path) : p \in DOMAIN tree /\ Cut(tree, path)[p] = tree[p]
         /\ \A p \in DOMAIN tree : p = path \/ IsStrictPrefix(path, p) \/ p \in DOMAIN Cut(tree, path)
<1> DEFINE rest == Cut(tree, path)
<1>1. /\ DOMAIN rest = {p \in DOMAIN tree : p # path /\ ~IsStrictPrefix(path, p)}
      /\ \A p \in DOMAIN rest : rest[p] = tree[p]
  BY DEF Cut, Without, Below
<1> HIDE DEF rest
<1>2. DOMAIN tree \subseteq Path /\ DOMAIN rest \subseteq Path /\ Path \subseteq Seq(STRING)
  BY <1>1 DEF Tidy, Shape, Path
<1>3. ASSUME NEW p \in DOMAIN rest, NEW d \in Folders(p)
      PROVE  d \in DOMAIN rest
  <2>1. p \in Path /\ d \in Path /\ d \in DOMAIN tree /\ IsStrictPrefix(d, p)
    BY <1>1, <1>2, FoldersAre DEF Tidy, Shape
  <2>2. ~IsStrictPrefix(path, p)
    BY <1>1
  <2>3. d # path /\ ~IsStrictPrefix(path, d)
    BY <1>2, <2>1, <2>2, PrefixOrder
  <2> QED
    BY <1>1, <2>1, <2>3
<1>4. ASSUME NEW p \in DOMAIN rest, rest[p] = Folder, ~HoldsFile(rest, p)
      PROVE  p \in Folders(path)
  <2>1. p \in DOMAIN tree /\ tree[p] = Folder /\ p # path /\ ~IsStrictPrefix(path, p)
    BY <1>1, <1>4
  <2>2. PICK q \in FilesOf(tree) : IsStrictPrefix(p, q)
    BY <2>1 DEF Tidy, HoldsFile
  <2>3. q \in DOMAIN tree /\ tree[q] # Folder
    BY <2>2 DEF FilesOf
  <2>4. q = path \/ IsStrictPrefix(path, q)
    BY <1>1, <1>4, <2>2, <2>3 DEF HoldsFile, FilesOf
  <2>5. IsStrictPrefix(p, path)
    BY <1>2, <2>1, <2>2, <2>3, <2>4, PrefixOrder
  <2> QED
    BY <1>2, <2>5, FoldersAre
<1> QED
  BY <1>1, <1>2, <1>3, <1>4 DEF Shape, FilledBut, rest

(* What With adds fills the folders on the way to the path, *)
LEMMA WithKeeps ==
  ASSUME NEW tree, NEW path \in Path, Shape(tree), FilledBut(tree, path), path \notin DOMAIN tree,
         NEW file, file # Folder
  PROVE  /\ Tidy(With(tree, path, file))
         /\ FilesOf(With(tree, path, file)) = FilesOf(tree) \cup {path}
         /\ With(tree, path, file)[path] = file
         /\ \A p \in FilesOf(tree) : With(tree, path, file)[p] = tree[p]
<1> DEFINE new == With(tree, path, file)
<1>1. /\ DOMAIN new = DOMAIN tree \cup Folders(path) \cup {path}
      /\ new[path] = file
      /\ \A p \in DOMAIN tree : new[p] = tree[p]
      /\ \A p \in DOMAIN new : p # path /\ p \notin DOMAIN tree => p \in Folders(path) /\ new[p] = Folder
  BY DEF With
<1> HIDE DEF new
<1>2. DOMAIN tree \subseteq Path /\ Path \subseteq Seq(STRING) /\ Folders(path) \subseteq Path
  BY FoldersAre DEF Shape, Path
<1>3. DOMAIN new \subseteq Path
  BY <1>1, <1>2
<1>4. FilesOf(new) = FilesOf(tree) \cup {path}
  BY <1>1 DEF FilesOf
<1>5. ASSUME NEW p \in DOMAIN new, NEW d \in Folders(p)
      PROVE  d \in DOMAIN new
  <2>1. CASE p \in DOMAIN tree
    BY <1>1, <2>1 DEF Shape
  <2>2. CASE p \in Folders(path)
    <3>1. d \in Path /\ p \in Path /\ IsStrictPrefix(d, p) /\ IsStrictPrefix(p, path)
      BY <1>3, <2>2, FoldersAre
    <3>2. IsStrictPrefix(d, path)
      BY <1>2, <3>1, PrefixOrder
    <3> QED
      BY <1>1, <3>1, <3>2, FoldersAre
  <2> QED
    BY <1>1, <2>1, <2>2
<1>6. ASSUME NEW p \in DOMAIN new, new[p] = Folder
      PROVE  HoldsFile(new, p)
  <2>1. CASE p \in Folders(path)
    BY <1>4, <2>1, FoldersAre DEF HoldsFile
  <2>2. CASE p \in DOMAIN tree /\ HoldsFile(tree, p)
    BY <1>4, <2>2 DEF HoldsFile
  <2> QED
    BY <1>1, <1>6, <2>1, <2>2 DEF FilledBut
<1> QED
  BY <1>1, <1>3, <1>4, <1>5, <1>6 DEF Tidy, Shape, FilesOf, new

(* and to take out those of them that are left empty leaves none empty. *)
LEMMA WithoutKeeps ==
  ASSUME NEW tree, NEW path \in Path, Shape(tree), FilledBut(tree, path),
         NEW gone \in SUBSET LeftEmpty(tree, path),
         \A d \in gone : Below(tree, d) \subseteq gone,
         \A d \in LeftEmpty(tree, path) \ gone :
            tree[d] = Folder => \E q \in FilesOf(tree) \ gone : IsStrictPrefix(d, q)
  PROVE  /\ Tidy(Without(tree, gone))
         /\ DOMAIN Without(tree, gone) = DOMAIN tree \ gone
         /\ \A p \in DOMAIN tree \ gone : Without(tree, gone)[p] = tree[p]
<1> DEFINE new == Without(tree, gone)
<1>1. DOMAIN new = DOMAIN tree \ gone /\ \A p \in DOMAIN new : new[p] = tree[p]
  BY DEF Without
<1> HIDE DEF new
<1>2. DOMAIN tree \subseteq Path /\ Path \subseteq Seq(STRING)
  BY DEF Shape, Path
<1>3. gone \subseteq Folders(path)
  BY DEF LeftEmpty
<1>4. ASSUME NEW p \in DOMAIN new, NEW d \in Folders(p)
      PROVE  d \in DOMAIN new
  <2>1. d \in DOMAIN tree /\ p \in DOMAIN tree /\ p \notin gone /\ IsStrictPrefix(d, p)
    BY <1>1, <1>2, FoldersAre DEF Shape
  <2> QED
    BY <1>1, <2>1 DEF Below
<1>5. FilesOf(new) = FilesOf(tree) \ gone
  BY <1>1 DEF FilesOf
<1>6. ASSUME NEW p \in DOMAIN tree, NEW r \in Below(tree, p), r \notin Folders(path)
      PROVE  tree[p] = Folder => \E q \in FilesOf(tree) \ gone : IsStrictPrefix(p, q)
  <2>1. r \in DOMAIN tree /\ IsStrictPrefix(p, r) /\ r \notin gone
    BY <1>3, <1>6 DEF Below
  <2>2. CASE tree[r] # Folder
    BY <2>1, <2>2 DEF FilesOf
  <2>3. CASE tree[r] = Folder
    <3>1. PICK s \in FilesOf(tree) : IsStrictPrefix(r, s)
      BY <1>6, <2>1, <2>3 DEF FilledBut, HoldsFile
    <3>2. s \in DOMAIN tree
      BY DEF FilesOf
    <3>3. IsStrictPrefix(p, s)
      BY <1>2, <2>1, <3>1, <3>2, PrefixOrder
    <3>4. s \notin Folders(path)
      <4> SUFFICES ASSUME IsStrictPrefix(s, path) PROVE FALSE
        BY FoldersAre
      <4>1. IsStrictPrefix(r, path)
        BY <1>2, <2>1, <3>1, <3>2, PrefixOrder
      <4> QED
        BY <1>2, <1>6, <2>1, <4>1, FoldersAre
    <3> QED
      BY <1>3, <3>1, <3>3, <3>4
  <2> QED
    BY <2>2, <2>3
<1>7. ASSUME NEW p \in DOMAIN new, new[p] = Folder
      PROVE  \E q \in FilesOf(tree) \ gone : IsStrictPrefix(p, q)
  <2>1. p \in DOMAIN tree /\ p \notin gone /\ tree[p] = Folder
    BY <1>1, <1>7
  <2>2. CASE p \notin Folders(path)
    <3>1. PICK q \in FilesOf(tree) : IsStrictPrefix(p, q)
      BY <2>1, <2>2 DEF FilledBut, HoldsFile
    <3>2. q \in DOMAIN tree
      BY DEF FilesOf
    <3>3. q \notin Folders(path)
      <4> SUFFICES ASSUME IsStrictPrefix(q, path) PROVE FALSE
        BY FoldersAre
      <4>1. IsStrictPrefix(p, path)
        BY <1>2, <2>1, <3>1, <3>2, PrefixOrder
      <4> QED
        BY <1>2, <2>1, <2>2, <4>1, FoldersAre
    <3> QED
      BY <1>3, <3>1, <3>3
  <2>3. CASE p \in Folders(path) /\ p \notin LeftEmpty(tree, path)
    BY <1>6, <2>1, <2>3 DEF LeftEmpty
  <2>4. CASE p \in LeftEmpty(tree, path)
    BY <2>1, <2>4
  <2> QED
    BY <2>2, <2>3, <2>4
<1> QED
  BY <1>1, <1>2, <1>4, <1>5, <1>7 DEF Tidy, Shape, HoldsFile, new

-----------------------------------------------------------------------------
(* The presenters keep their trees tidy: where they add a file, *)
LEMMA WebdavAddKeeps ==
  ASSUME NEW tree, Tidy(tree), NEW path \in Path, NEW file, file # Folder
  PROVE  /\ Tidy(WebdavAdd(tree, path, file))
         /\ FilesOf(WebdavAdd(tree, path, file)) \subseteq FilesOf(tree) \cup {path}
         /\ FilesOf(tree) \subseteq FilesOf(WebdavAdd(tree, path, file))
         /\ path \in FilesOf(WebdavAdd(tree, path, file)) \/ HoldsFile(tree, path)
<1>1. CASE path \in DOMAIN tree
  BY <1>1 DEF WebdavAdd, Exists, Tidy, FilesOf
<1>2. CASE path \notin DOMAIN tree
  <2>1. Shape(tree) /\ FilledBut(tree, path)
    BY DEF Tidy, FilledBut
  <2>2. WebdavAdd(tree, path, file) = With(tree, path, file)
    BY <1>2 DEF WebdavAdd, Exists
  <2> QED
    BY <1>2, <2>1, <2>2, WithKeeps
<1> QED
  BY <1>1, <1>2

LEMMA MountAddKeeps ==
  ASSUME NEW tree, Tidy(tree), NEW path \in Path, NEW file, file # Folder
  PROVE  /\ Tidy(MountAdd(tree, path, file))
         /\ FilesOf(MountAdd(tree, path, file)) = {p \in FilesOf(tree) : ~IsStrictPrefix(path, p)} \cup {path}
         /\ MountAdd(tree, path, file)[path] = file
         /\ \A p \in FilesOf(tree) :
              p # path /\ ~IsStrictPrefix(path, p) => MountAdd(tree, path, file)[p] = tree[p]
<1> DEFINE rest == Cut(tree, path)
           new  == With(rest, path, file)
<1>1. MountAdd(tree, path, file) = new
  BY DEF MountAdd
<1>2. /\ Shape(rest) /\ FilledBut(rest, path) /\ path \notin DOMAIN rest
      /\ \A p \in DOMAIN rest : p \in DOMAIN tree /\ rest[p] = tree[p]
      /\ \A p \in DOMAIN tree : p = path \/ IsStrictPrefix(path, p) \/ p \in DOMAIN rest
  BY CutKeeps
<1>3. \A p \in DOMAIN rest : ~IsStrictPrefix(path, p)
  BY DEF Cut, Without, Below
<1> HIDE DEF rest
<1>4. /\ Tidy(new) /\ FilesOf(new) = FilesOf(rest) \cup {path} /\ new[path] = file
      /\ \A p \in FilesOf(rest) : new[p] = rest[p]
  BY <1>2, WithKeeps
<1> HIDE DEF new
<1>5. FilesOf(rest) = {p \in FilesOf(tree) : p # path /\ ~IsStrictPrefix(path, p)}
  BY <1>2, <1>3 DEF FilesOf
<1>6. \A p \in FilesOf(rest) : new[p] = tree[p]
  BY <1>2, <1>4 DEF FilesOf
<1> QED
  BY <1>1, <1>4, <1>5, <1>6

(* What is left when the file at a path is removed: a tidy tree that lacks the path,
   and every other file but those above and below it. *)
Taken(tree, path, new) ==
  /\ Tidy(new)
  /\ \A p \in DOMAIN new : p \in DOMAIN tree /\ new[p] = tree[p]
  /\ path \notin DOMAIN new
  /\ \A p \in FilesOf(tree) : Apart(p, path) => p \in FilesOf(new)

(* where they take one out, with the folders of LeftEmpty or some of them, *)
LEMMA TakenBy ==
  ASSUME NEW tree, Tidy(tree), NEW path \in Path, NEW gone \in SUBSET LeftEmpty(Cut(tree, path), path),
         \A d \in gone : Below(Cut(tree, path), d) \subseteq gone,
         \A d \in LeftEmpty(Cut(tree, path), path) \ gone :
            Cut(tree, path)[d] = Folder => \E q \in FilesOf(Cut(tree, path)) \ gone : IsStrictPrefix(d, q)
  PROVE  Taken(tree, path, Without(Cut(tree, path), gone))
<1> DEFINE rest == Cut(tree, path)
           new  == Without(rest, gone)
<1>1. /\ Shape(rest) /\ FilledBut(rest, path) /\ path \notin DOMAIN rest
      /\ \A p \in DOMAIN rest : p \in DOMAIN tree /\ rest[p] = tree[p]
      /\ \A p \in DOMAIN tree : p = path \/ IsStrictPrefix(path, p) \/ p \in DOMAIN rest
  BY CutKeeps
<1> HIDE DEF rest
<1>2. Tidy(new) /\ DOMAIN new = DOMAIN rest \ gone /\ \A p \in DOMAIN rest \ gone : new[p] = rest[p]
  BY <1>1, WithoutKeeps DEF rest
<1> HIDE DEF new
<1>3. \A p \in DOMAIN new : p \in DOMAIN tree /\ new[p] = tree[p]
  BY <1>1, <1>2
<1>4. ASSUME NEW p \in FilesOf(tree), Apart(p, path)
      PROVE  p \in FilesOf(new)
  <2>1. p \in DOMAIN rest
    BY <1>1, <1>4 DEF Apart, FilesOf
  <2>2. p \notin Folders(path)
    BY <1>4, FoldersAre DEF Apart
  <2>3. p \in DOMAIN new
    BY <1>2, <2>1, <2>2 DEF LeftEmpty
  <2> QED
    BY <1>3, <2>3 DEF FilesOf
<1> QED
  BY <1>1, <1>2, <1>3, <1>4 DEF Taken, new, rest

(* those that cleanupEmptyDirs gets to, *)
LEMMA WebdavRemoveKeeps ==
  ASSUME NEW tree, Tidy(tree), NEW path \in Path
  PROVE  Taken(tree, path, WebdavRemove(tree, path))
<1> DEFINE rest    == Cut(tree, path)
           removed == {d \in LeftEmpty(rest, path) :
                        \A e \in Folders(path) : Len(e) >= Len(d) => rest[e] = Folder}
<1>1. CASE path \notin DOMAIN tree
  BY <1>1 DEF WebdavRemove, Exists, Taken, FilesOf
<1>2. CASE path \in DOMAIN tree
  <2>1. /\ Shape(rest)
        /\ \A p \in DOMAIN tree : p = path \/ IsStrictPrefix(path, p) \/ p \in DOMAIN rest
    BY CutKeeps
  <2>2. DOMAIN rest \subseteq Path /\ Folders(path) \subseteq Path /\ Path \subseteq Seq(STRING)
    BY <2>1, FoldersAre DEF Shape, Path
  <2>3. Folders(path) \subseteq DOMAIN rest
    <3>1. Folders(path) \subseteq DOMAIN tree
      BY <1>2 DEF Tidy, Shape
    <3>2. ASSUME NEW e \in Folders(path)
          PROVE  e # path /\ ~IsStrictPrefix(path, e)
      <4>1. IsStrictPrefix(e, path) /\ e \in Seq(STRING) /\ path \in Seq(STRING)
        BY <2>2, FoldersAre DEF Path
      <4> QED
        BY <4>1, PrefixOrder
    <3> QED
      BY <2>1, <3>1, <3>2
  <2>4. ASSUME NEW d \in removed, NEW p \in Below(rest, d)
        PROVE  p \in removed
    <3>1. p \in Folders(path) /\ p \in DOMAIN rest /\ d \in DOMAIN rest /\ IsStrictPrefix(d, p)
      BY DEF LeftEmpty, Below
    <3>2. Below(rest, p) \subseteq Below(rest, d)
      BY <2>2, <3>1, PrefixOrder DEF Below
    <3>3. Len(d) < Len(p)
      BY <2>2, <3>1, PrefixOrder
    <3>4. ASSUME NEW e \in Folders(path), Len(e) >= Len(p)
          PROVE  rest[e] = Folder
      <4>1. Len(e) \in Nat /\ Len(p) \in Nat /\ Len(d) \in Nat
        BY <2>2, <3>1
      <4>2. Len(e) >= Len(d)
        BY <3>3, <3>4, <4>1
      <4> QED
        BY <4>2
    <3> QED
      BY <3>1, <3>2, <3>4 DEF LeftEmpty
  <2>5. ASSUME NEW d \in LeftEmpty(rest, path) \ removed, rest[d] = Folder
        PROVE  \E q \in FilesOf(rest) \ removed : IsStrictPrefix(d, q)
    <3>1. PICK e \in Folders(path) : Len(e) >= Len(d) /\ rest[e] # Folder
      BY <2>5
    <3>2. d \in Path /\ d \in Folders(path) /\ d # e
      BY <2>2, <2>5, <3>1 DEF LeftEmpty
    <3>3. IsStrictPrefix(d, path) /\ IsStrictPrefix(e, path) /\ e \in Path
      BY <3>1, <3>2, FoldersAre
    <3>4. IsStrictPrefix(d, e) \/ IsStrictPrefix(e, d)
      BY <2>2, <3>2, <3>3, PrefixOrder
    <3>5. ~IsStrictPrefix(e, d)
      <4>1. Len(e) \in Nat /\ Len(d) \in Nat
        BY <2>2, <3>2, <3>3
      <4> QED
        BY <2>2, <3>1, <3>2, <3>3, <4>1, PrefixOrder
    <3>6. e \notin removed
      <4>1. Len(e) >= Len(e)
        BY <2>2, <3>3
      <4> QED
        BY <3>1, <4>1
    <3> QED
      BY <2>3, <3>1, <3>4, <3>5, <3>6 DEF FilesOf
  <2>6. WebdavRemove(tree, path) = Without(rest, removed)
    BY <1>2 DEF WebdavRemove, Exists
  <2>7. removed \in SUBSET LeftEmpty(rest, path)
    OBVIOUS
  <2> HIDE DEF removed
  <2> QED
    BY <2>4, <2>5, <2>6, <2>7, TakenBy
<1> QED
  BY <1>1, <1>2

(* or all of them, *)
LEMMA MountRemoveKeeps ==
  ASSUME NEW tree, Tidy(tree), NEW path \in Path
  PROVE  Taken(tree, path, MountRemove(tree, path))
<1> DEFINE rest == Cut(tree, path)
           gone == LeftEmpty(rest, path)
<1>1. CASE Folders(path) \subseteq DOMAIN tree
  <2>1. Shape(rest)
    BY CutKeeps
  <2>2. DOMAIN rest \subseteq Path /\ Path \subseteq Seq(STRING)
    BY <2>1 DEF Shape, Path
  <2>3. ASSUME NEW d \in gone, NEW p \in Below(rest, d)
        PROVE  p \in gone
    <3>1. p \in Folders(path) /\ p \in DOMAIN rest /\ d \in DOMAIN rest /\ IsStrictPrefix(d, p)
      BY DEF LeftEmpty, Below
    <3>2. Below(rest, p) \subseteq Below(rest, d)
      BY <2>2, <3>1, PrefixOrder DEF Below
    <3> QED
      BY <3>1, <3>2 DEF LeftEmpty
  <2>4. MountRemove(tree, path) = Without(rest, gone)
    BY <1>1 DEF MountRemove
  <2>5. gone \in SUBSET gone
    OBVIOUS
  <2> HIDE DEF gone
  <2>6. Taken(tree, path, Without(rest, gone))
    BY <2>3, TakenBy DEF gone
  <2> QED
    BY <2>4, <2>6
<1>2. CASE ~(Folders(path) \subseteq DOMAIN tree)
  <2>1. path \notin DOMAIN tree
    BY <1>2 DEF Tidy, Shape
  <2> QED
    BY <1>2, <2>1 DEF MountRemove, Taken, FilesOf
<1> QED
  BY <1>1, <1>2

(* What 0 has, and n + 1 if n has it, every number has: for a set, since the
   smallest number outside of it has one before it. *)
LEMMA Induct ==
  ASSUME NEW A, 0 \in A, \A n \in Nat : n \in A => n + 1 \in A
  PROVE  Nat \subseteq A
<1> DEFINE R == {p \in Nat \X Nat : p[1] < p[2]}
<1>1. OpToRel(<, Nat) = R
  BY DEF OpToRel
<1>2. IsWellFoundedOn(R, Nat)
  BY <1>1, NatLessThanWellFounded
<1> SUFFICES ASSUME Nat \ A # {} PROVE FALSE
  OBVIOUS
<1>3. PICK n \in Nat \ A : \A m \in Nat \ A : ~ (<<m, n>> \in R)
  <2> HIDE DEF R
  <2> QED
    BY <1>2, WFMin
<1>4. n # 0 /\ n - 1 \in Nat /\ <<n - 1, n>> \in R /\ (n - 1) + 1 = n
  BY <1>3
<1>5. n - 1 \in A
  BY <1>3, <1>4
<1> QED
  BY <1>3, <1>4, <1>5

(* A set of some of the first numbers has a largest, *)
LEMMA MaxIs ==
  ASSUME NEW N \in Nat, NEW s \in SUBSET (1 .. N), s # {}
  PROVE  Max(s) \in s /\ \A x \in s : Max(s) >= x
<1> DEFINE A == {n \in Nat : \A S \in SUBSET (1 .. n) : S # {} => \E x \in S : \A y \in S : x >= y}
<1>1. 0 \in A
  <2>1. 1 .. 0 = {}
    OBVIOUS
  <2> QED
    BY <2>1
<1>2. ASSUME NEW n \in Nat, n \in A PROVE n + 1 \in A
  <2> SUFFICES ASSUME NEW S \in SUBSET (1 .. n + 1), S # {}
               PROVE  \E x \in S : \A y \in S : x >= y
    OBVIOUS
  <2>1. CASE n + 1 \in S
    BY <2>1
  <2>2. CASE n + 1 \notin S
    <3>1. S \in SUBSET (1 .. n)
      BY <2>2
    <3> QED
      BY <1>2, <3>1
  <2> QED
    BY <2>1, <2>2
<1>3. Nat \subseteq A
  <2> HIDE DEF A
  <2> QED
    BY <1>1, <1>2, Induct
<1>4. \E x \in s : \A y \in s : x >= y
  BY <1>3
<1> QED
  BY <1>4 DEF Max

(* The function by which a fold over 1 .. N is defined. *)
IsFold(g, N, base, F) ==
  g = [s \in SUBSET (1 .. N) |-> IF s = {} THEN base ELSE F[<<g[s \ {Max(s)}], Max(s)>>]]

(* The recursive function of a fold, whose steps are those of F, exists: it is
   built for one more number at a time. *)
LEMMA FoldExists ==
  ASSUME NEW N \in Nat, NEW T, NEW base \in T, NEW F \in [T \X (1 .. N) -> T]
  PROVE  \E g \in [SUBSET (1 .. N) -> T] : IsFold(g, N, base, F)
<1> DEFINE A == {n \in Nat : n <= N => \E g \in [SUBSET (1 .. n) -> T] : IsFold(g, n, base, F)}
<1>1. 0 \in A
  <2>1. SUBSET (1 .. 0) = {{}}
    OBVIOUS
  <2>2. IsFold([s \in {{}} |-> base], 0, base, F)
    BY <2>1 DEF IsFold
  <2> QED
    BY <2>1, <2>2
<1>2. ASSUME NEW n \in Nat, n \in A PROVE n + 1 \in A
  <2>a. n + 1 \in Nat /\ (n + 1 <= N => n <= N)
    OBVIOUS
  <2> SUFFICES ASSUME n + 1 <= N PROVE \E g \in [SUBSET (1 .. n + 1) -> T] : IsFold(g, n + 1, base, F)
    BY <2>a, Zenon
  <2>1. PICK g \in [SUBSET (1 .. n) -> T] : IsFold(g, n, base, F)
    BY <1>2, <2>a, Zenon
  <2> DEFINE h == [s \in SUBSET (1 .. n + 1) |-> IF s = {} THEN base ELSE F[<<g[s \ {Max(s)}], Max(s)>>]]
  <2>2. ASSUME NEW s \in SUBSET (1 .. n + 1), s # {}
        PROVE  Max(s) \in 1 .. N /\ s \ {Max(s)} \in SUBSET (1 .. n)
    <3>1. Max(s) \in s /\ \A x \in s : Max(s) >= x
      BY <2>2, <2>a, MaxIs
    <3>2. Max(s) \in 1 .. n + 1
      BY <3>1
    <3>3. ASSUME NEW x \in s \ {Max(s)} PROVE x \in 1 .. n
      <4>1. x \in 1 .. n + 1 /\ x # Max(s) /\ Max(s) >= x
        BY <3>1
      <4> HIDE DEF h
      <4> QED
        BY <3>2, <4>1
    <3>4. 1 .. n + 1 \subseteq 1 .. N
      BY <2>a
    <3> QED
      BY <3>2, <3>3, <3>4
  <2>3. h \in [SUBSET (1 .. n + 1) -> T]
    BY <2>2
  <2>4. ASSUME NEW s \in SUBSET (1 .. n) PROVE h[s] = g[s]
    <3>1. s \in SUBSET (1 .. n + 1)
      OBVIOUS
    <3>2. g[s] = IF s = {} THEN base ELSE F[<<g[s \ {Max(s)}], Max(s)>>]
      BY <2>1, Zenon DEF IsFold
    <3> QED
      BY <3>1, <3>2
  <2>5. ASSUME NEW s \in SUBSET (1 .. n + 1)
        PROVE  h[s] = IF s = {} THEN base ELSE F[<<h[s \ {Max(s)}], Max(s)>>]
    <3>1. h[s] = IF s = {} THEN base ELSE F[<<g[s \ {Max(s)}], Max(s)>>]
      OBVIOUS
    <3> HIDE DEF h
    <3> QED
      BY <2>2, <2>4, <3>1
  <2>6. IsFold(h, n + 1, base, F)
    <3>1. h = [s \in SUBSET (1 .. n + 1) |-> h[s]]
      OBVIOUS
    <3> HIDE DEF h
    <3> QED
      BY <2>5, <3>1, Zenon DEF IsFold
  <2> HIDE DEF h
  <2> QED
    BY <2>3, <2>6
<1>3. N \in A
  <2> HIDE DEF A
  <2> QED
    BY <1>1, <1>2, Induct
<1>4. N <= N
  OBVIOUS
<1> QED
  BY <1>3, <1>4, Zenon

(* and the largest of the first numbers is the last of them. *)
LEMMA MaxOfInitial ==
  ASSUME NEW N \in Nat, NEW n \in Nat, n < N
  PROVE  /\ 1 .. n + 1 \in SUBSET (1 .. N) /\ 1 .. n + 1 # {}
         /\ Max(1 .. n + 1) = n + 1 /\ (1 .. n + 1) \ {n + 1} = 1 .. n
<1>1. /\ 1 .. n + 1 \in SUBSET (1 .. N) /\ 1 .. n + 1 # {} /\ (1 .. n + 1) \ {n + 1} = 1 .. n
      /\ 1 .. n + 1 \in SUBSET (1 .. n + 1) /\ n + 1 \in Nat /\ n + 1 \in 1 .. n + 1
  OBVIOUS
<1>2. Max(1 .. n + 1) \in 1 .. n + 1 /\ \A x \in 1 .. n + 1 : Max(1 .. n + 1) >= x
  BY <1>1, MaxIs
<1> QED
  BY <1>1, <1>2

(* What the removals of a fold may leave of a tree. *)
Trees(base) ==
  {base} \cup UNION {[D -> {base[p] : p \in DOMAIN base}] : D \in SUBSET DOMAIN base}

LEMMA WithoutIsTree ==
  ASSUME NEW base, NEW tree \in Trees(base), NEW a, NEW b
  PROVE  Without(Without(tree, a), b) \in Trees(base)
<1>1. DOMAIN tree \subseteq DOMAIN base /\ \A p \in DOMAIN tree : tree[p] \in {base[q] : q \in DOMAIN base}
  BY DEF Trees
<1> DEFINE D == (DOMAIN tree \ a) \ b
<1>2. Without(Without(tree, a), b) = [p \in D |-> tree[p]]
  BY DEF Without
<1>3. [p \in D |-> tree[p]] \in [D -> {base[q] : q \in DOMAIN base}] /\ D \in SUBSET DOMAIN base
  BY <1>1
<1> HIDE DEF D
<1> QED
  BY <1>2, <1>3 DEF Trees

(* The folds of RemoveNzb. *)
AllFromWebdav(tree, paths) == FoldLeft(WebdavRemove, tree, paths)

(* A fold of WebdavRemove, of MountRemove, goes from path to path. *)
LEMMA UnfoldWebdav ==
  ASSUME NEW base, NEW seq \in Seq(Path)
  PROVE  \E it : /\ AllFromWebdav(base, seq) = it[1 .. Len(seq)]
                 /\ it[{}] = base
                 /\ \A n \in Nat : n < Len(seq) => it[1 .. n + 1] = WebdavRemove(it[1 .. n], seq[n + 1])
<1> DEFINE N == Len(seq)
           T == Trees(base)
           F == [x \in T \X (1 .. N) |-> WebdavRemove(x[1], seq[x[2]])]
           Iter(g) == g = [s \in SUBSET (1 .. N) |->
                            IF s = {} THEN base ELSE WebdavRemove(g[s \ {Max(s)}], seq[Max(s)])]
           it == CHOOSE g : Iter(g)
<1>1. N \in Nat /\ DOMAIN seq = 1 .. N
  OBVIOUS
<1>2. AllFromWebdav(base, seq) = it[1 .. N]
  BY <1>1 DEF AllFromWebdav, FoldLeft, MapThenFoldSet
<1>3. base \in T
  BY DEF Trees
<1>4. ASSUME NEW tree \in T, NEW path PROVE WebdavRemove(tree, path) \in T
  BY WithoutIsTree DEF WebdavRemove, Cut
<1>5. F \in [T \X (1 .. N) -> T]
  <2> HIDE DEF T, N
  <2> QED
    BY <1>4
<1>6. PICK g \in [SUBSET (1 .. N) -> T] : IsFold(g, N, base, F)
  <2> HIDE DEF T, F, N
  <2>1. N \in Nat
    BY <1>1
  <2> QED
    BY <1>3, <1>5, <2>1, FoldExists, Zenon
<1>7. Iter(g)
  <2>1. ASSUME NEW s \in SUBSET (1 .. N), s # {}
        PROVE  F[<<g[s \ {Max(s)}], Max(s)>>] = WebdavRemove(g[s \ {Max(s)}], seq[Max(s)])
    <3>1. Max(s) \in 1 .. N /\ s \ {Max(s)} \in SUBSET (1 .. N)
      BY <1>1, <2>1, MaxIs
    <3>2. g[s \ {Max(s)}] \in T
      BY <3>1, <1>6
    <3> HIDE DEF T, N
    <3> QED
      BY <3>1, <3>2
  <2> HIDE DEF T, F, N
  <2> QED
    BY <2>1, <1>6 DEF IsFold
<1>8. Iter(it)
  <2> HIDE DEF Iter
  <2> QED
    BY <1>7
<1> HIDE DEF it
<1>9. it[{}] = base
  BY <1>8
<1>10. ASSUME NEW n \in Nat, n < N
       PROVE  it[1 .. n + 1] = WebdavRemove(it[1 .. n], seq[n + 1])
  <2> HIDE DEF N
  <2>1. /\ 1 .. n + 1 \in SUBSET (1 .. N) /\ 1 .. n + 1 # {}
        /\ Max(1 .. n + 1) = n + 1 /\ (1 .. n + 1) \ {n + 1} = 1 .. n
    BY <1>1, <1>10, MaxOfInitial
  <2> QED
    BY <1>8, <2>1
<1> HIDE DEF N, Iter
<1> QED
  BY <1>2, <1>9, <1>10 DEF N

AllFromMount(tree, paths) == FoldLeft(MountRemove, tree, paths)

LEMMA UnfoldMount ==
  ASSUME NEW base, NEW seq \in Seq(Path)
  PROVE  \E it : /\ AllFromMount(base, seq) = it[1 .. Len(seq)]
                 /\ it[{}] = base
                 /\ \A n \in Nat : n < Len(seq) => it[1 .. n + 1] = MountRemove(it[1 .. n], seq[n + 1])
<1> DEFINE N == Len(seq)
           T == Trees(base)
           F == [x \in T \X (1 .. N) |-> MountRemove(x[1], seq[x[2]])]
           Iter(g) == g = [s \in SUBSET (1 .. N) |->
                            IF s = {} THEN base ELSE MountRemove(g[s \ {Max(s)}], seq[Max(s)])]
           it == CHOOSE g : Iter(g)
<1>1. N \in Nat /\ DOMAIN seq = 1 .. N
  OBVIOUS
<1>2. AllFromMount(base, seq) = it[1 .. N]
  BY <1>1 DEF AllFromMount, FoldLeft, MapThenFoldSet
<1>3. base \in T
  BY DEF Trees
<1>4. ASSUME NEW tree \in T, NEW path PROVE MountRemove(tree, path) \in T
  BY WithoutIsTree DEF MountRemove, Cut
<1>5. F \in [T \X (1 .. N) -> T]
  <2> HIDE DEF T, N
  <2> QED
    BY <1>4
<1>6. PICK g \in [SUBSET (1 .. N) -> T] : IsFold(g, N, base, F)
  <2> HIDE DEF T, F, N
  <2>1. N \in Nat
    BY <1>1
  <2> QED
    BY <1>3, <1>5, <2>1, FoldExists, Zenon
<1>7. Iter(g)
  <2>1. ASSUME NEW s \in SUBSET (1 .. N), s # {}
        PROVE  F[<<g[s \ {Max(s)}], Max(s)>>] = MountRemove(g[s \ {Max(s)}], seq[Max(s)])
    <3>1. Max(s) \in 1 .. N /\ s \ {Max(s)} \in SUBSET (1 .. N)
      BY <1>1, <2>1, MaxIs
    <3>2. g[s \ {Max(s)}] \in T
      BY <3>1, <1>6
    <3> HIDE DEF T, N
    <3> QED
      BY <3>1, <3>2
  <2> HIDE DEF T, F, N
  <2> QED
    BY <2>1, <1>6 DEF IsFold
<1>8. Iter(it)
  <2> HIDE DEF Iter
  <2> QED
    BY <1>7
<1> HIDE DEF it
<1>9. it[{}] = base
  BY <1>8
<1>10. ASSUME NEW n \in Nat, n < N
       PROVE  it[1 .. n + 1] = MountRemove(it[1 .. n], seq[n + 1])
  <2> HIDE DEF N
  <2>1. /\ 1 .. n + 1 \in SUBSET (1 .. N) /\ 1 .. n + 1 # {}
        /\ Max(1 .. n + 1) = n + 1 /\ (1 .. n + 1) \ {n + 1} = 1 .. n
    BY <1>1, <1>10, MaxOfInitial
  <2> QED
    BY <1>8, <2>1
<1> HIDE DEF N, Iter
<1> QED
  BY <1>2, <1>9, <1>10 DEF N

(* Taken, for the first n of a sequence of paths. *)
TakenFirst(tree, seq, n, new) ==
  /\ Tidy(new)
  /\ \A p \in DOMAIN new : p \in DOMAIN tree /\ new[p] = tree[p]
  /\ \A i \in 1 .. n : seq[i] \notin DOMAIN new
  /\ \A p \in FilesOf(tree) : (\A i \in 1 .. n : Apart(p, seq[i])) => p \in FilesOf(new)

(* What either does with one path, the fold does with all. *)
LEMMA FoldTakes ==
  ASSUME NEW base, Tidy(base), NEW seq \in Seq(Path), NEW it, it[{}] = base,
         \A n \in Nat : n < Len(seq) /\ Tidy(it[1 .. n]) => Taken(it[1 .. n], seq[n + 1], it[1 .. n + 1])
  PROVE  TakenFirst(base, seq, Len(seq), it[1 .. Len(seq)])
<1> DEFINE A == {n \in Nat : n <= Len(seq) => TakenFirst(base, seq, n, it[1 .. n])}
<1>1. 0 \in A
  <2>1. 1 .. 0 = {}
    OBVIOUS
  <2>2. TakenFirst(base, seq, 0, base)
    BY <2>1 DEF TakenFirst
  <2> QED
    BY <2>1, <2>2
<1>2. ASSUME NEW n \in Nat, n \in A PROVE n + 1 \in A
  <2>1. n + 1 \in Nat /\ (n + 1 <= Len(seq) => n <= Len(seq) /\ n < Len(seq))
    OBVIOUS
  <2>2. ASSUME n + 1 <= Len(seq)
        PROVE  TakenFirst(base, seq, n + 1, it[1 .. n + 1])
    <3>1. TakenFirst(base, seq, n, it[1 .. n])
      BY <1>2, <2>1, <2>2
    <3>2. Taken(it[1 .. n], seq[n + 1], it[1 .. n + 1])
      BY <2>1, <2>2, <3>1 DEF TakenFirst
    <3>3. \A i \in 1 .. n + 1 : i \in 1 .. n \/ i = n + 1
      OBVIOUS
    <3>4. n + 1 \in 1 .. n + 1 /\ 1 .. n \subseteq 1 .. n + 1
      OBVIOUS
    <3> HIDE DEF A
    <3>5. \A p \in DOMAIN it[1 .. n + 1] : p \in DOMAIN base /\ it[1 .. n + 1][p] = base[p]
      BY <3>1, <3>2 DEF TakenFirst, Taken
    <3>6. \A i \in 1 .. n + 1 : seq[i] \notin DOMAIN it[1 .. n + 1]
      BY <3>1, <3>2, <3>3 DEF TakenFirst, Taken
    <3>7. ASSUME NEW p \in FilesOf(base), \A i \in 1 .. n + 1 : Apart(p, seq[i])
          PROVE  p \in FilesOf(it[1 .. n + 1])
      BY <3>1, <3>2, <3>4, <3>7, Zenon DEF TakenFirst, Taken
    <3> QED
      BY <3>2, <3>5, <3>6, <3>7 DEF TakenFirst, Taken
  <2> QED
    BY <2>1, <2>2, Zenon
<1>3. Nat \subseteq A
  <2> HIDE DEF A
  <2> QED
    BY <1>1, <1>2, Induct
<1>4. Len(seq) \in Nat /\ Len(seq) <= Len(seq)
  OBVIOUS
<1> QED
  BY <1>3, <1>4, Zenon

LEMMA FoldsTake ==
  ASSUME NEW base, Tidy(base), NEW seq \in Seq(Path)
  PROVE  /\ TakenFirst(base, seq, Len(seq), AllFromWebdav(base, seq))
         /\ TakenFirst(base, seq, Len(seq), AllFromMount(base, seq))
<1>1. ASSUME NEW n \in Nat, n < Len(seq) PROVE seq[n + 1] \in Path
  <2>1. n + 1 \in 1 .. Len(seq)
    BY <1>1
  <2> QED
    BY <2>1
<1>2. TakenFirst(base, seq, Len(seq), AllFromWebdav(base, seq))
  <2>1. PICK it : /\ AllFromWebdav(base, seq) = it[1 .. Len(seq)]
                  /\ it[{}] = base
                  /\ \A n \in Nat : n < Len(seq) => it[1 .. n + 1] = WebdavRemove(it[1 .. n], seq[n + 1])
    BY UnfoldWebdav
  <2>2. \A n \in Nat : n < Len(seq) /\ Tidy(it[1 .. n]) => Taken(it[1 .. n], seq[n + 1], it[1 .. n + 1])
    BY <1>1, <2>1, WebdavRemoveKeeps, Zenon
  <2> QED
    BY <2>1, <2>2, FoldTakes
<1>3. TakenFirst(base, seq, Len(seq), AllFromMount(base, seq))
  <2>1. PICK it : /\ AllFromMount(base, seq) = it[1 .. Len(seq)]
                  /\ it[{}] = base
                  /\ \A n \in Nat : n < Len(seq) => it[1 .. n + 1] = MountRemove(it[1 .. n], seq[n + 1])
    BY UnfoldMount
  <2>2. \A n \in Nat : n < Len(seq) /\ Tidy(it[1 .. n]) => Taken(it[1 .. n], seq[n + 1], it[1 .. n + 1])
    BY <1>1, <2>1, MountRemoveKeeps, Zenon
  <2> QED
    BY <2>1, <2>2, FoldTakes
<1> QED
  BY <1>2, <1>3

(* The paths at which AddNzb adds the files of an nzb. *)
Own(f) == {FullPath(f, c) : c \in DOMAIN nzb[f].places}

(* Where processFile is with a file tells whether its nzb is registered, whether it
   has the mutex and todo is its own, and whether a path is tracked for it. *)
Serves(f) ==
  /\ Tracked(f) \subseteq Own(f)
  /\ pc[f] \in {"build", "track", "publish"} => f \in registered
  /\ At(f, "publish") => mutex = f /\ todo \subseteq DOMAIN nzb[f].places
  /\ ~At(f, "publish") => mutex # f
  /\ pc[f] \notin {"publish", "done"} => nzbFiles[f] = << >>
  /\ At(f, "publish") /\ nzbFiles[f] = << >> => todo = DOMAIN nzb[f].places

ServiceInv ==
  /\ nzb \in [Files -> {Outcome(i) : i \in DOMAIN Nzbs}]
  /\ nzbFiles \in [Files -> Seq(Path)]
  /\ \A f \in Files : Serves(f)

LEMMA ServiceInit == LibInit => ServiceInv
<1> SUFFICES ASSUME LibInit PROVE ServiceInv
  OBVIOUS
<1>1. nzb \in [Files -> {Outcome(i) : i \in DOMAIN Nzbs}] /\ pc = [f \in Files |-> "none"] /\ mutex = Nobody
  BY DEF LibInit
<1>2. nzbFiles = [f \in Files |-> << >>] /\ << >> \in Seq(Path)
  BY DEF LibInit
<1>3. \A f \in Files : Tracked(f) = {}
  BY <1>2 DEF Tracked
<1> QED
  BY <1>1, <1>2, <1>3, LibraryAssumption DEF ServiceInv, Serves, At

LEMMA FullPathIsPath ==
  ASSUME ServiceInv, NEW f \in Files, NEW c \in DOMAIN nzb[f].places
  PROVE  FullPath(f, c) \in Path /\ <<f, c>> # Folder
<1>1. PICK i \in DOMAIN Nzbs : nzb[f] = Outcome(i)
  BY DEF ServiceInv, Serves
<1>2. nzb[f].name \in Seq(STRING) /\ nzb[f].name # << >> /\ nzb[f].places[c] \in Seq(STRING)
  BY <1>1, OutcomeAssumption
<1>3. nzb[f].name \o nzb[f].places[c] \in Seq(STRING) /\ nzb[f].name \o nzb[f].places[c] # << >>
  <2>1. Len(nzb[f].name) \in Nat /\ Len(nzb[f].name) # 0 /\ Len(nzb[f].places[c]) \in Nat
    BY <1>2
  <2>2. Len(nzb[f].name \o nzb[f].places[c]) = Len(nzb[f].name) + Len(nzb[f].places[c])
    BY <1>2
  <2>3. nzb[f].name \o nzb[f].places[c] \in Seq(STRING)
    BY <1>2
  <2> QED
    BY <2>1, <2>2, <2>3
<1> QED
  BY <1>1, <1>3, OutcomeAssumption DEF FullPath, Path

(* What Publish adds, *)
LEMMA TrackedGrows ==
  ASSUME LibInv, ServiceInv, NEW f \in Files, NEW c \in todo, Publish(f, c)
  PROVE  /\ f \in registered /\ c \in DOMAIN nzb[f].places
         /\ nzbFiles' \in [Files -> Seq(Path)] /\ nzbFiles'[f] # << >>
         /\ Tracked(f)' = Tracked(f) \cup {FullPath(f, c)}
         /\ \A g \in Files : g # f => nzbFiles'[g] = nzbFiles[g]
         /\ AllTracked' = AllTracked \cup {FullPath(f, c)}
<1>1. /\ nzbFiles' = [nzbFiles EXCEPT ![f] = Append(@, FullPath(f, c))]
      /\ UNCHANGED <<nzb, registered>> /\ At(f, "publish")
  BY DEF Publish, watchVars
<1>2. f \in registered /\ c \in DOMAIN nzb[f].places
  BY <1>1 DEF ServiceInv, Serves, At
<1>3. FullPath(f, c) \in Path
  BY <1>2, FullPathIsPath
<1>4. nzbFiles \in [Files -> Seq(Path)]
  BY DEF ServiceInv, Serves
<1>5. nzbFiles[f] \in Seq(Path)
  BY <1>4
<1> DEFINE new == Append(nzbFiles[f], FullPath(f, c))
<1>6. /\ new \in Seq(Path) /\ Len(new) = Len(nzbFiles[f]) + 1 /\ new[Len(new)] = FullPath(f, c)
      /\ \A i \in 1 .. Len(nzbFiles[f]) : new[i] = nzbFiles[f][i]
  BY <1>3, <1>5
<1>7. {new[i] : i \in DOMAIN new} = {nzbFiles[f][i] : i \in DOMAIN nzbFiles[f]} \cup {FullPath(f, c)}
  <2>1. DOMAIN nzbFiles[f] = 1 .. Len(nzbFiles[f]) /\ Len(nzbFiles[f]) \in Nat
    BY <1>5
  <2>2. DOMAIN new = 1 .. Len(nzbFiles[f]) + 1
    BY <1>6
  <2>3. \A i \in DOMAIN new : i \in DOMAIN nzbFiles[f] \/ i = Len(new)
    BY <1>6, <2>1, <2>2
  <2>4. DOMAIN nzbFiles[f] \subseteq DOMAIN new /\ Len(new) \in DOMAIN new
    BY <1>6, <2>1, <2>2
  <2> HIDE DEF new
  <2> QED
    BY <1>6, <2>1, <2>3, <2>4
<1>8. new # << >>
  <2>1. Len(nzbFiles[f]) \in Nat
    BY <1>5
  <2> HIDE DEF new
  <2> QED
    BY <1>6, <2>1
<1>9. nzbFiles'[f] = new /\ \A g \in Files : g # f => nzbFiles'[g] = nzbFiles[g]
  BY <1>1, <1>4
<1>10. nzbFiles' \in [Files -> Seq(Path)]
  <2> HIDE DEF new
  <2>1. nzbFiles' = [nzbFiles EXCEPT ![f] = new]
    BY <1>1 DEF new
  <2> QED
    BY <1>4, <1>6, <2>1
<1> HIDE DEF new
<1>11. Tracked(f)' = Tracked(f) \cup {FullPath(f, c)}
  BY <1>7, <1>9 DEF Tracked
<1>12. \A g \in Files : g # f => Tracked(g)' = Tracked(g)
  BY <1>9 DEF Tracked
<1>13. AllTracked' = AllTracked \cup {FullPath(f, c)}
  BY <1>1, <1>2, <1>11, <1>12 DEF AllTracked, LibInv
<1> QED
  BY <1>2, <1>8, <1>9, <1>10, <1>11, <1>13

(* and what RemoveNzb leaves. *)
LEMMA TrackedShrinks ==
  ASSUME LibInv, ServiceInv, NEW f \in Files, RemoveNzb(f)
  PROVE  /\ nzbFiles' \in [Files -> Seq(Path)] /\ registered' = registered \ {f}
         /\ UNCHANGED <<nzb, pc, mutex, todo>>
         /\ Tracked(f)' = {}
         /\ \A g \in Files : g # f => nzbFiles'[g] = nzbFiles[g] /\ Tracked(g)' = Tracked(g)
<1>1. /\ nzbFiles' = [nzbFiles EXCEPT ![f] = << >>]
      /\ UNCHANGED <<nzb, pc, mutex, todo>> /\ registered' = registered \ {f}
  BY DEF RemoveNzb, watchVars
<1>2. nzbFiles \in [Files -> Seq(Path)] /\ << >> \in Seq(Path)
  BY DEF ServiceInv, Serves
<1>3. nzbFiles'[f] = << >> /\ \A g \in Files : g # f => nzbFiles'[g] = nzbFiles[g]
  BY <1>1, <1>2
<1>4. nzbFiles' \in [Files -> Seq(Path)]
  BY <1>1, <1>2
<1> QED
  BY <1>1, <1>3, <1>4 DEF Tracked

(* What the steps of processFile leave alone that do nothing but go on. *)
Others == <<nzb, nzbFiles, registered, mutex, todo, webdav, mount>>

LEMMA QuietSteps ==
  ASSUME LibInv, ServiceInv, UNCHANGED Others, \A f \in Files : pc'[f] # pc[f] =>
           /\ ~At(f, "publish") /\ pc'[f] # "publish"
           /\ pc'[f] \in {"build", "track"} => f \in registered
           /\ pc'[f] # "done" => pc[f] # "done"
  PROVE  ServiceInv'
<1>1. \A f \in Files : Tracked(f)' = Tracked(f) /\ Own(f)' = Own(f)
  BY DEF Tracked, Own, FullPath, Others
<1> QED
  BY <1>1 DEF ServiceInv, Serves, Others, At

(* A step that is no such one is Register, Track, Publish, Published or RemoveNzb. *)
LEMMA ServiceStep ==
  ASSUME LibInv, ServiceInv, [LibNext]_libVars
  PROVE  ServiceInv'
<1> DEFINE Quiet(f) == pc'[f] # pc[f] =>
           /\ ~At(f, "publish") /\ pc'[f] # "publish"
           /\ pc'[f] \in {"build", "track"} => f \in registered
           /\ pc'[f] # "done" => pc[f] # "done"
<1>q. ASSUME UNCHANGED Others, \A f \in Files : Quiet(f) PROVE ServiceInv'
  BY <1>q, QuietSteps
<1>1. CASE StartWatching \/ ScanEnd \/ (\E f \in Files : Create(f) \/ Complete(f)) \/ UNCHANGED libVars
  <2>1. UNCHANGED Others /\ UNCHANGED pc
    BY <1>1 DEF StartWatching, ScanEnd, Create, Complete, serviceVars, libVars, watchVars, Others
  <2> QED
    BY <2>1, <1>q
<1>2. CASE Scan
  <2>1. UNCHANGED Others /\ pc' = [f \in Files |-> IF f \in NewFiles THEN "parse" ELSE pc[f]]
    BY <1>2 DEF Scan, serviceVars, Others
  <2>2. \A f \in NewFiles : pc[f] = "none"
    BY DEF NewFiles, LibInv
  <2> QED
    BY <2>1, <2>2, <1>q DEF At
<1>3. ASSUME NEW f \in Files, Parse(f) \/ AlreadyExists(f) \/ Build(f)
      PROVE  ServiceInv'
  <2>1. UNCHANGED Others
    BY <1>3 DEF Parse, AlreadyExists, Build, serviceVars, watchVars, Others
  <2>2. \/ Goto(f, "parse", "add") \/ Goto(f, "parse", "done") \/ Goto(f, "add", "done")
        \/ Goto(f, "build", "track") \/ Goto(f, "build", "done") \/ Goto(f, "build", "stuck")
    BY <1>3 DEF Parse, AlreadyExists, Build
  <2>3. \A g \in Files : Quiet(g)
    BY <2>2 DEF Goto, At, LibInv, ServiceInv, Serves
  <2> QED
    BY <2>1, <2>3, <1>q
<1>4. ASSUME NEW f \in Files, Register(f) PROVE ServiceInv'
  <2>1. /\ UNCHANGED <<nzb, nzbFiles, mutex, todo>> /\ registered' = registered \cup {f}
        /\ pc' = [pc EXCEPT ![f] = "build"] /\ pc[f] = "add"
    BY <1>4 DEF Register, watchVars, Goto, At
  <2>2. \A g \in Files : Tracked(g)' = Tracked(g) /\ Own(g)' = Own(g)
    BY <2>1 DEF Tracked, Own, FullPath
  <2> QED
    BY <2>1, <2>2 DEF ServiceInv, Serves, LibInv, At
<1>5. ASSUME NEW f \in Files, Track(f) PROVE ServiceInv'
  <2>1. /\ UNCHANGED <<nzb, registered>> /\ mutex = Nobody /\ mutex' = f
        /\ nzbFiles' = [nzbFiles EXCEPT ![f] = << >>] /\ todo' = DOMAIN nzb[f].places
        /\ pc' = [pc EXCEPT ![f] = "publish"] /\ pc[f] = "track"
    BY <1>5 DEF Track, watchVars, Goto, At
  <2>2. nzbFiles[f] = << >> /\ f \in registered
    BY <2>1 DEF ServiceInv, Serves
  <2>3. nzbFiles' = nzbFiles
    BY <2>1, <2>2 DEF ServiceInv, Serves
  <2>4. \A g \in Files : Tracked(g)' = Tracked(g) /\ Own(g)' = Own(g)
    BY <2>1, <2>3 DEF Tracked, Own, FullPath
  <2>5. \A g \in Files : g # f => pc[g] # "publish" /\ pc'[g] = pc[g]
    BY <2>1, LibraryAssumption DEF ServiceInv, Serves, LibInv, At
  <2>6. pc'[f] = "publish"
    BY <2>1 DEF LibInv
  <2>7. ASSUME NEW g \in Files
        PROVE  Serves(g)'
    BY <2>1, <2>2, <2>3, <2>4, <2>5, <2>6 DEF ServiceInv, Serves, At
  <2> QED
    BY <2>1, <2>3, <2>7 DEF ServiceInv, Serves, At
<1>6. ASSUME NEW f \in Files, Published(f) PROVE ServiceInv'
  <2>1. /\ UNCHANGED <<nzb, nzbFiles, registered, todo>> /\ mutex' = Nobody
        /\ pc' = [pc EXCEPT ![f] = "done"] /\ pc[f] = "publish"
    BY <1>6 DEF Published, watchVars, Goto, At
  <2>2. \A g \in Files : Tracked(g)' = Tracked(g) /\ Own(g)' = Own(g)
    BY <2>1 DEF Tracked, Own, FullPath
  <2>3. \A g \in Files : g # f => pc'[g] = pc[g] /\ pc[g] # "publish"
    BY <2>1 DEF ServiceInv, Serves, LibInv, At
  <2>4. pc'[f] = "done"
    BY <2>1 DEF LibInv
  <2> QED
    BY <2>1, <2>2, <2>3, <2>4, LibraryAssumption DEF ServiceInv, Serves, At
<1>7. ASSUME NEW f \in Files, NEW c \in todo, Publish(f, c) PROVE ServiceInv'
  <2>1. /\ UNCHANGED <<nzb, registered, mutex, pc>> /\ todo' = todo \ {c} /\ pc[f] = "publish"
    BY <1>7 DEF Publish, watchVars, At
  <2>2. /\ f \in registered /\ c \in DOMAIN nzb[f].places
        /\ nzbFiles' \in [Files -> Seq(Path)] /\ nzbFiles'[f] # << >>
        /\ Tracked(f)' = Tracked(f) \cup {FullPath(f, c)}
        /\ \A g \in Files : g # f => nzbFiles'[g] = nzbFiles[g]
    BY <1>7, TrackedGrows
  <2>3. \A g \in Files : Own(g)' = Own(g)
    BY <2>1 DEF Own, FullPath
  <2>4. \A g \in Files : g # f => Tracked(g)' = Tracked(g)
    BY <2>2 DEF Tracked
  <2>5. Tracked(f)' \subseteq Own(f)
    BY <2>2 DEF ServiceInv, Serves, Own
  <2>6. \A g \in Files : g # f => pc[g] # "publish"
    BY <2>1 DEF ServiceInv, Serves, At
  <2>7. ASSUME NEW g \in Files
        PROVE  Serves(g)'
    <3>1. CASE g = f
      BY <2>1, <2>2, <2>3, <2>5, <3>1 DEF ServiceInv, Serves, At
    <3>2. CASE g # f
      BY <2>1, <2>2, <2>3, <2>4, <2>6, <3>2 DEF ServiceInv, Serves, At
    <3> QED
      BY <3>1, <3>2
  <2> QED
    BY <2>1, <2>2, <2>7 DEF ServiceInv, Serves, At
<1>8. ASSUME NEW f \in Files, RemoveNzb(f) PROVE ServiceInv'
  <2>1. /\ nzbFiles' \in [Files -> Seq(Path)] /\ registered' = registered \ {f}
        /\ UNCHANGED <<nzb, pc, mutex, todo>>
        /\ Tracked(f)' = {}
        /\ \A g \in Files : g # f => nzbFiles'[g] = nzbFiles[g] /\ Tracked(g)' = Tracked(g)
    BY <1>8, TrackedShrinks
  <2>2. pc[f] = "done"
    BY <1>8 DEF RemoveNzb, At
  <2>3. \A g \in Files : Own(g)' = Own(g)
    BY <2>1 DEF Own, FullPath
  <2>7. ASSUME NEW g \in Files
        PROVE  Serves(g)'
    <3>1. CASE g = f
      BY <2>1, <2>2, <2>3, <3>1 DEF ServiceInv, Serves, At
    <3>2. CASE g # f
      BY <2>1, <2>2, <2>3, <3>2 DEF ServiceInv, Serves, At
    <3> QED
      BY <3>1, <3>2
  <2> QED
    BY <2>1, <2>7 DEF ServiceInv, Serves, At
<1> QED
  BY <1>1, <1>2, <1>3, <1>4, <1>5, <1>6, <1>7, <1>8 DEF LibNext, AddNzb

(* What TreesWellFormed needs: the files of both trees are tracked. *)
Shelf(tree) == Tidy(tree) /\ FilesOf(tree) \subseteq AllTracked

TreesInv == Shelf(webdav) /\ Shelf(mount)

LEMMA TreesInit == LibInit => TreesInv
BY DEF LibInit, TreesInv, Shelf, Tidy, Shape, EmptyTree, FilesOf

(* A folder that is a file is tracked, and clashes with what is below it. *)
LEMMA TreesShow == TreesInv => TreesWellFormed
<1> SUFFICES ASSUME NEW tree, Shelf(tree) PROVE WellFormed(tree)
  BY DEF TreesInv, TreesWellFormed
<1>1. ASSUME NEW p \in DOMAIN tree, NEW d \in Folders(p)
      PROVE  d \in DOMAIN tree /\ (tree[d] = Folder \/ Clashing(p))
  <2>1. d \in DOMAIN tree /\ IsStrictPrefix(d, p)
    BY FoldersAre DEF Shelf, Tidy, Shape
  <2> QED
    BY <2>1 DEF Shelf, FilesOf, Clashing
<1> QED
  BY <1>1 DEF WellFormed, Shelf, Tidy, HoldsFile

(* Of the others none changes what is tracked: Register finds nothing tracked for its
   nzb, and neither does Track. *)
LEMMA TrackedStays ==
  ASSUME LibInv, ServiceInv, [LibNext]_libVars
  PROVE  \/ AllTracked' = AllTracked /\ UNCHANGED <<webdav, mount>>
         \/ \E f \in Files : RemoveNzb(f) \/ \E c \in todo : Publish(f, c)
<1>1. ASSUME UNCHANGED <<nzbFiles, registered>> PROVE AllTracked' = AllTracked
  BY <1>1 DEF AllTracked, Tracked
<1>2. ASSUME \/ StartWatching \/ ScanEnd \/ UNCHANGED libVars \/ Scan
             \/ \E f \in Files : Create(f) \/ Complete(f) \/ Parse(f) \/ AlreadyExists(f) \/ Build(f)
             \/ \E f \in Files : Published(f)
      PROVE  UNCHANGED <<nzbFiles, registered, webdav, mount>>
  BY <1>2 DEF StartWatching, ScanEnd, Scan, Create, Complete, Parse, AlreadyExists, Build, Published, libVars,
              watchVars, serviceVars
<1>3. ASSUME NEW f \in Files, Register(f)
      PROVE  AllTracked' = AllTracked /\ UNCHANGED <<webdav, mount>>
  <2>1. registered' = registered \cup {f} /\ UNCHANGED <<nzbFiles, webdav, mount>> /\ pc[f] = "add"
    BY <1>3 DEF Register, Goto, At
  <2>2. \A g \in Files : Tracked(g)' = Tracked(g)
    BY <2>1 DEF Tracked
  <2>3. Tracked(f) = {}
    BY <2>1 DEF ServiceInv, Serves, Tracked
  <2> QED
    BY <2>1, <2>2, <2>3 DEF AllTracked, LibInv
<1>4. ASSUME NEW f \in Files, Track(f)
      PROVE  AllTracked' = AllTracked /\ UNCHANGED <<webdav, mount>>
  <2>1. nzbFiles' = [nzbFiles EXCEPT ![f] = << >>] /\ UNCHANGED <<registered, webdav, mount>> /\ pc[f] = "track"
    BY <1>4 DEF Track, Goto, At
  <2>2. nzbFiles[f] = << >> /\ nzbFiles \in [Files -> Seq(Path)]
    BY <2>1 DEF ServiceInv, Serves
  <2>3. nzbFiles' = nzbFiles
    BY <2>1, <2>2
  <2> QED
    BY <1>1, <2>1, <2>3
<1> QED
  BY <1>1, <1>2, <1>3, <1>4 DEF LibNext, AddNzb

LEMMA TreesStep ==
  ASSUME LibInv, ServiceInv, TreesInv, [LibNext]_libVars
  PROVE  TreesInv'
<1>1. CASE AllTracked' = AllTracked /\ UNCHANGED <<webdav, mount>>
  BY <1>1 DEF TreesInv, Shelf
<1>2. ASSUME NEW f \in Files, NEW c \in todo, Publish(f, c) PROVE TreesInv'
  <2> DEFINE path == FullPath(f, c)
             file == <<f, c>>
  <2>1. c \in DOMAIN nzb[f].places /\ AllTracked' = AllTracked \cup {path}
    BY <1>2, TrackedGrows
  <2>2. path \in Path /\ file # Folder
    BY <2>1, FullPathIsPath
  <2> HIDE DEF path, file
  <2>3. webdav' = WebdavAdd(webdav, path, file) /\ mount' \in {mount, MountAdd(mount, path, file)}
    BY <1>2 DEF Publish, path, file
  <2>4. Shelf(webdav)'
    <3>1. /\ Tidy(WebdavAdd(webdav, path, file))
          /\ FilesOf(WebdavAdd(webdav, path, file)) \subseteq FilesOf(webdav) \cup {path}
      BY <2>2, WebdavAddKeeps DEF TreesInv, Shelf
    <3> QED
      BY <2>1, <2>3, <3>1 DEF TreesInv, Shelf
  <2>5. Shelf(mount)'
    <3>1. /\ Tidy(MountAdd(mount, path, file))
          /\ FilesOf(MountAdd(mount, path, file)) = {p \in FilesOf(mount) : ~IsStrictPrefix(path, p)} \cup {path}
      BY <2>2, MountAddKeeps DEF TreesInv, Shelf
    <3>2. CASE mount' = mount
      BY <2>1, <3>2 DEF TreesInv, Shelf
    <3>3. CASE mount' = MountAdd(mount, path, file)
      BY <2>1, <3>1, <3>3 DEF TreesInv, Shelf
    <3> QED
      BY <2>3, <3>2, <3>3
  <2> QED
    BY <2>4, <2>5 DEF TreesInv
<1>3. ASSUME NEW f \in Files, RemoveNzb(f) PROVE TreesInv'
  <2>1. /\ registered' = registered \ {f} /\ \A g \in Files : g # f => Tracked(g)' = Tracked(g)
    BY <1>3, TrackedShrinks
  <2>2. webdav' = AllFromWebdav(webdav, nzbFiles[f]) /\ mount' = AllFromMount(mount, nzbFiles[f])
    BY <1>3 DEF RemoveNzb, AllFromWebdav, AllFromMount
  <2>3. nzbFiles[f] \in Seq(Path)
    BY DEF ServiceInv
  <2>4. ASSUME NEW tree, NEW new, Shelf(tree), TakenFirst(tree, nzbFiles[f], Len(nzbFiles[f]), new)
        PROVE  Tidy(new) /\ FilesOf(new) \subseteq AllTracked'
    <3>1. FilesOf(new) \subseteq AllTracked
      BY <2>4 DEF TakenFirst, Shelf, FilesOf
    <3>2. FilesOf(new) \cap Tracked(f) = {}
      BY <2>3, <2>4 DEF TakenFirst, FilesOf, Tracked
    <3>3. AllTracked \subseteq AllTracked' \cup Tracked(f)
      BY <2>1 DEF AllTracked, LibInv
    <3> QED
      BY <2>4, <3>1, <3>2, <3>3 DEF TakenFirst
  <2>5. /\ TakenFirst(webdav, nzbFiles[f], Len(nzbFiles[f]), webdav')
        /\ TakenFirst(mount, nzbFiles[f], Len(nzbFiles[f]), mount')
    BY <2>2, <2>3, FoldsTake DEF TreesInv, Shelf
  <2>6. /\ Tidy(webdav') /\ FilesOf(webdav') \subseteq AllTracked'
        /\ Tidy(mount') /\ FilesOf(mount') \subseteq AllTracked'
    BY <2>4, <2>5 DEF TreesInv
  <2> QED
    BY <2>6 DEF TreesInv, Shelf
<1> QED
  BY <1>1, <1>2, <1>3, TrackedStays

(* Both presenters keep their trees well formed, however the files of the nzbs lie in
   one another, and whatever is added and removed. *)
THEOREM TreesCorrect == LibSpec => []TreesWellFormed
<1> DEFINE Inv == LibInv /\ ServiceInv /\ TreesInv
<1>1. LibInit => Inv
  BY LibInvInit, ServiceInit, TreesInit
<1>2. Inv /\ [LibNext]_libVars => Inv'
  BY LibInvStep, ServiceStep, TreesStep
<1>3. Inv => TreesWellFormed
  BY TreesShow
<1> QED
  BY <1>1, <1>2, <1>3, PTL DEF LibSpec

(* A file that was added to the presenters, as AddedAt has it, and one that the mount
   has. *)
Added(f, c) ==
  /\ f \in registered /\ c \in DOMAIN nzb[f].places /\ nzbFiles[f] # << >>
  /\ mutex = f => c \notin todo

Mounted(p) ==
  \E f \in Files : \E c \in DOMAIN nzb[f].places :
    mount[p] = <<f, c>> /\ Added(f, c) /\ FullPath(f, c) = p /\ c \notin Sizeless

(* The files of the presenters are those that were added, but for those in whose way
   another one is. *)
ShownInv ==
  /\ \A p \in AllTracked : Clashing(p) \/ p \in FilesOf(webdav)
  /\ \A p \in FilesOf(mount) : Mounted(p)
  /\ \A f \in Files : \A c \in DOMAIN nzb[f].places \ Sizeless :
       Added(f, c) => Clashing(FullPath(f, c)) \/ FullPath(f, c) \in FilesOf(mount)

LEMMA AddedAtIs ==
  ASSUME LibInv, NEW p, NEW added
  PROVE  added \in AddedAt(p) <=>
           \E f \in Files : \E c \in DOMAIN nzb[f].places : added = <<f, c>> /\ Added(f, c) /\ FullPath(f, c) = p
<1>1. ASSUME added \in AddedAt(p)
      PROVE  \E f \in Files : \E c \in DOMAIN nzb[f].places : added = <<f, c>> /\ Added(f, c) /\ FullPath(f, c) = p
  <2>1. PICK f \in registered : added \in {f} \X DOMAIN nzb[f].places
    BY <1>1 DEF AddedAt
  <2>2. added = <<f, added[2]>> /\ added[1] = f /\ added[2] \in DOMAIN nzb[f].places
    BY <2>1
  <2>3. FullPath(f, added[2]) = p /\ nzbFiles[f] # << >> /\ (mutex = f => added[2] \notin todo)
    BY <1>1, <2>2 DEF AddedAt
  <2> QED
    BY <2>2, <2>3 DEF Added, LibInv
<1>2. ASSUME NEW f \in Files, NEW c \in DOMAIN nzb[f].places, added = <<f, c>>, Added(f, c), FullPath(f, c) = p
      PROVE  added \in AddedAt(p)
  <2>1. f \in registered /\ added \in {f} \X DOMAIN nzb[f].places /\ added[1] = f /\ added[2] = c
    BY <1>2 DEF Added
  <2> QED
    BY <1>2, <2>1 DEF AddedAt, Added
<1> QED
  BY <1>1, <1>2

(* The paths of two registered nzbs are apart, since their names are different. *)
LEMMA AlonePath ==
  ASSUME LibInv, ServiceInv, NzbsApart, NEW f \in registered, NEW g \in registered, f # g,
         NEW c \in DOMAIN nzb[f].places, NEW d \in DOMAIN nzb[g].places
  PROVE  Apart(FullPath(f, c), FullPath(g, d))
<1>1. f \in Files /\ g \in Files /\ nzb[f].name # nzb[g].name
  BY DEF LibInv, OneOfAName, SameName
<1>2. PICK i \in DOMAIN Nzbs : nzb[f] = Outcome(i)
  BY <1>1 DEF ServiceInv
<1>3. PICK j \in DOMAIN Nzbs : nzb[g] = Outcome(j)
  BY <1>1 DEF ServiceInv
<1> QED
  BY <1>1, <1>2, <1>3 DEF NzbsApart, FullPath

LEMMA AloneTracked ==
  ASSUME LibInv, ServiceInv, NzbsApart, NEW f \in registered, NEW g \in registered, f # g,
         NEW p \in Tracked(f), NEW q \in Tracked(g)
  PROVE  Apart(p, q)
<1>1. f \in Files /\ g \in Files
  BY DEF LibInv
<1>2. p \in Own(f) /\ q \in Own(g)
  BY <1>1 DEF ServiceInv, Serves
<1> QED
  BY <1>2, AlonePath DEF Own

LEMMA ShownInit == LibInit => ShownInv
BY DEF LibInit, ShownInv, AllTracked, FilesOf, EmptyTree, Added

(* What is added changes with Publish and RemoveNzb only. *)
LEMMA AddedStays ==
  ASSUME LibInv, ServiceInv, [LibNext]_libVars,
         ~(\E f \in Files : RemoveNzb(f) \/ \E c \in todo : Publish(f, c))
  PROVE  nzb' = nzb /\ \A f \in Files : \A c \in DOMAIN nzb[f].places : Added(f, c)' <=> Added(f, c)
<1>1. ASSUME UNCHANGED <<nzb, nzbFiles, registered, mutex, todo>>
      PROVE  nzb' = nzb /\ \A f \in Files : \A c \in DOMAIN nzb[f].places : Added(f, c)' <=> Added(f, c)
  BY <1>1 DEF Added
<1>2. ASSUME \/ StartWatching \/ ScanEnd \/ UNCHANGED libVars \/ Scan
             \/ \E f \in Files : Create(f) \/ Complete(f) \/ Parse(f) \/ AlreadyExists(f) \/ Build(f)
      PROVE  UNCHANGED <<nzb, nzbFiles, registered, mutex, todo>>
  BY <1>2 DEF StartWatching, ScanEnd, Scan, Create, Complete, Parse, AlreadyExists, Build, libVars,
              watchVars, serviceVars
<1>3. ASSUME NEW f \in Files, Published(f)
      PROVE  nzb' = nzb /\ \A g \in Files : \A c \in DOMAIN nzb[g].places : Added(g, c)' <=> Added(g, c)
  <2>1. /\ UNCHANGED <<nzb, nzbFiles, registered, todo>> /\ mutex' = Nobody /\ todo = {}
    BY <1>3 DEF Published, watchVars
  <2> QED
    BY <2>1 DEF Added
<1>4. ASSUME NEW f \in Files, Register(f)
      PROVE  nzb' = nzb /\ \A g \in Files : \A c \in DOMAIN nzb[g].places : Added(g, c)' <=> Added(g, c)
  <2>1. registered' = registered \cup {f} /\ UNCHANGED <<nzb, nzbFiles, mutex, todo>> /\ pc[f] = "add"
    BY <1>4 DEF Register, Goto, At, watchVars
  <2>2. nzbFiles[f] = << >>
    BY <2>1 DEF ServiceInv, Serves
  <2> QED
    BY <2>1, <2>2 DEF Added
<1>5. ASSUME NEW f \in Files, Track(f)
      PROVE  nzb' = nzb /\ \A g \in Files : \A c \in DOMAIN nzb[g].places : Added(g, c)' <=> Added(g, c)
  <2>1. /\ nzbFiles' = [nzbFiles EXCEPT ![f] = << >>] /\ UNCHANGED <<nzb, registered>>
        /\ mutex = Nobody /\ mutex' = f /\ pc[f] = "track"
    BY <1>5 DEF Track, Goto, At, watchVars
  <2>2. nzbFiles[f] = << >> /\ nzbFiles \in [Files -> Seq(Path)]
    BY <2>1 DEF ServiceInv, Serves
  <2>3. nzbFiles' = nzbFiles
    BY <2>1, <2>2
  <2> QED
    BY <2>1, <2>2, <2>3, LibraryAssumption DEF Added
<1> QED
  BY <1>1, <1>2, <1>3, <1>4, <1>5 DEF LibNext, AddNzb

(* What Publish hides it clashes with, and a path that is in use by a folder clashes
   with the files in it. *)
LEMMA ShownPublish ==
  ASSUME LibInv, ServiceInv, TreesInv, TreesInv', ShownInv, NEW f \in Files, NEW c \in todo, Publish(f, c)
  PROVE  ShownInv'
<1> DEFINE path == FullPath(f, c)
           file == <<f, c>>
<1>1. /\ UNCHANGED <<nzb, registered, mutex>> /\ todo' = todo \ {c} /\ mutex = f
      /\ f \in registered /\ c \in DOMAIN nzb[f].places /\ AllTracked' = AllTracked \cup {path}
      /\ nzbFiles'[f] # << >> /\ \A g \in Files : g # f => nzbFiles'[g] = nzbFiles[g]
      /\ nzbFiles[f] = << >> => todo = DOMAIN nzb[f].places
  BY TrackedGrows DEF Publish, watchVars, ServiceInv, Serves
<1>2. path \in Path /\ file # Folder
  BY <1>1, FullPathIsPath
<1>3. ASSUME NEW g \in Files, NEW d \in DOMAIN nzb[g].places
      PROVE  Added(g, d)' <=> Added(g, d) \/ <<g, d>> = file
  BY <1>1 DEF Added
<1>4. \A g \in Files : \A d \in DOMAIN nzb[g].places : FullPath(g, d)' = FullPath(g, d)
  BY <1>1 DEF FullPath
<1>5. \A p : Clashing(p) => Clashing(p)'
  BY <1>1 DEF Clashing
<1>6. /\ webdav' = WebdavAdd(webdav, path, file)
      /\ mount' = IF c \in Sizeless THEN mount ELSE MountAdd(mount, path, file)
  BY DEF Publish
<1>7. path = FullPath(f, c) /\ file = <<f, c>>
  OBVIOUS
<1> HIDE DEF path, file
<1>8. ASSUME NEW p \in AllTracked' PROVE Clashing(p)' \/ p \in FilesOf(webdav')
  <2>1. /\ FilesOf(webdav) \subseteq FilesOf(webdav')
        /\ path \in FilesOf(webdav') \/ HoldsFile(webdav, path)
    BY <1>2, <1>6, WebdavAddKeeps DEF TreesInv, Shelf
  <2>2. CASE p \in AllTracked
    BY <1>5, <2>1, <2>2 DEF ShownInv
  <2>3. CASE p = path
    BY <1>1, <2>1, <2>3 DEF HoldsFile, TreesInv, Shelf, Clashing
  <2> QED
    BY <1>1, <2>2, <2>3
<1>9. CASE c \in Sizeless
  <2>1. mount' = mount
    BY <1>6, <1>9
  <2>2. ASSUME NEW p \in FilesOf(mount') PROVE Mounted(p)'
    BY <1>1, <1>3, <1>4, <2>1, <2>2 DEF ShownInv, Mounted
  <2>3. ASSUME NEW g \in Files, NEW d \in DOMAIN nzb[g].places \ Sizeless, Added(g, d)'
        PROVE  Clashing(FullPath(g, d))' \/ FullPath(g, d) \in FilesOf(mount')
    <3>1. Added(g, d)
      BY <1>3, <1>7, <1>9, <2>3
    <3>2. Clashing(FullPath(g, d)) \/ FullPath(g, d) \in FilesOf(mount)
      BY <3>1 DEF ShownInv
    <3> QED
      BY <1>4, <1>5, <2>1, <3>2
  <2> QED
    BY <1>1, <1>4, <1>8, <2>2, <2>3 DEF ShownInv
<1>10. CASE c \notin Sizeless
  <2>1. /\ FilesOf(mount') = {p \in FilesOf(mount) : ~IsStrictPrefix(path, p)} \cup {path}
        /\ mount'[path] = file
        /\ \A p \in FilesOf(mount) : p # path /\ ~IsStrictPrefix(path, p) => mount'[p] = mount[p]
    BY <1>2, <1>6, <1>10, MountAddKeeps DEF TreesInv, Shelf
  <2>2. ASSUME NEW p \in FilesOf(mount') PROVE Mounted(p)'
    <3>1. CASE p = path
      BY <1>1, <1>3, <1>4, <1>7, <1>10, <2>1, <3>1 DEF Mounted
    <3>2. CASE p # path
      <4>1. p \in FilesOf(mount) /\ mount'[p] = mount[p]
        BY <2>1, <3>2
      <4> QED
        BY <1>1, <1>3, <1>4, <4>1 DEF ShownInv, Mounted
    <3> QED
      BY <3>1, <3>2
  <2>3. ASSUME NEW g \in Files, NEW d \in DOMAIN nzb[g].places \ Sizeless, Added(g, d)'
        PROVE  Clashing(FullPath(g, d))' \/ FullPath(g, d) \in FilesOf(mount')
    <3>1. CASE <<g, d>> = file
      BY <1>7, <2>1, <3>1
    <3>2. CASE Added(g, d)
      <4>1. Clashing(FullPath(g, d)) \/ FullPath(g, d) \in FilesOf(mount)
        BY <3>2 DEF ShownInv
      <4>2. CASE FullPath(g, d) \in FilesOf(mount) /\ IsStrictPrefix(path, FullPath(g, d))
        BY <1>1, <1>4, <4>2 DEF Clashing
      <4> QED
        BY <1>4, <1>5, <2>1, <4>1, <4>2
    <3> QED
      BY <1>3, <2>3, <3>1, <3>2
  <2> QED
    BY <1>1, <1>4, <1>8, <2>2, <2>3 DEF ShownInv
<1> QED
  BY <1>9, <1>10

(* RemoveNzb takes what is its own, since the others are apart; and a file that
   clashes after it clashed before with one of its own nzb, which is still there. *)
LEMMA ShownRemove ==
  ASSUME LibInv, ServiceInv, TreesInv, ShownInv, NzbsApart, NEW f \in Files, RemoveNzb(f)
  PROVE  ShownInv'
<1>1. /\ registered' = registered \ {f} /\ UNCHANGED <<nzb, pc, mutex, todo>> /\ f \in registered
      /\ Tracked(f)' = {}
      /\ \A g \in Files : g # f => nzbFiles'[g] = nzbFiles[g] /\ Tracked(g)' = Tracked(g)
  BY TrackedShrinks DEF RemoveNzb
<1>2. nzbFiles[f] \in Seq(Path)
  BY DEF ServiceInv
<1>3. /\ TakenFirst(webdav, nzbFiles[f], Len(nzbFiles[f]), webdav')
      /\ TakenFirst(mount, nzbFiles[f], Len(nzbFiles[f]), mount')
  <2>1. webdav' = AllFromWebdav(webdav, nzbFiles[f]) /\ mount' = AllFromMount(mount, nzbFiles[f])
    BY DEF RemoveNzb, AllFromWebdav, AllFromMount
  <2> QED
    BY <1>2, <2>1, FoldsTake DEF TreesInv, Shelf
<1>4. \A i \in 1 .. Len(nzbFiles[f]) : nzbFiles[f][i] \in Tracked(f)
  BY <1>2 DEF Tracked
<1>5. /\ \A p \in FilesOf(webdav) : (\A q \in Tracked(f) : Apart(p, q)) => p \in FilesOf(webdav')
      /\ \A p \in FilesOf(mount) : (\A q \in Tracked(f) : Apart(p, q)) => p \in FilesOf(mount')
      /\ \A p \in FilesOf(mount') : p \in FilesOf(mount) /\ mount'[p] = mount[p] /\ p \notin Tracked(f)
  <2>1. \A p \in FilesOf(mount') : p \in FilesOf(mount) /\ mount'[p] = mount[p]
    BY <1>3 DEF TakenFirst, FilesOf
  <2>2. \A p \in Tracked(f) : p \notin DOMAIN mount'
    BY <1>2, <1>3 DEF TakenFirst, Tracked
  <2>3. \A p \in FilesOf(webdav) : (\A q \in Tracked(f) : Apart(p, q)) => p \in FilesOf(webdav')
    BY <1>3, <1>4 DEF TakenFirst
  <2>4. \A p \in FilesOf(mount) : (\A q \in Tracked(f) : Apart(p, q)) => p \in FilesOf(mount')
    BY <1>3, <1>4 DEF TakenFirst
  <2> QED
    BY <2>1, <2>2, <2>3, <2>4 DEF FilesOf
<1>6. ASSUME NEW g \in registered, g # f, NEW p \in Tracked(g)
      PROVE  \A q \in Tracked(f) : Apart(p, q)
  BY <1>1, <1>6, AloneTracked
<1>7. AllTracked' = UNION {Tracked(g) : g \in registered \ {f}}
  BY <1>1 DEF AllTracked, LibInv
<1>8. ASSUME NEW p \in AllTracked', Clashing(p) PROVE Clashing(p)'
  <2>1. PICK g \in registered \ {f} : p \in Tracked(g)
    BY <1>7
  <2>2. PICK q \in AllTracked : IsStrictPrefix(p, q) \/ IsStrictPrefix(q, p)
    BY <1>8 DEF Clashing
  <2>3. PICK h \in registered : q \in Tracked(h)
    BY DEF AllTracked
  <2>4. h # f
    BY <1>6, <2>1, <2>2, <2>3 DEF Apart
  <2> QED
    BY <1>7, <2>2, <2>3, <2>4 DEF Clashing
<1>9. ASSUME NEW g \in Files, NEW d \in DOMAIN nzb[g].places
      PROVE  /\ FullPath(g, d)' = FullPath(g, d)
             /\ Added(g, d)' <=> Added(g, d) /\ g # f
  BY <1>1 DEF FullPath, Added
<1>10. ASSUME NEW g \in registered \ {f}, NEW d \in DOMAIN nzb[g].places
       PROVE  \A q \in Tracked(f) : Apart(FullPath(g, d), q)
  <2>1. Tracked(f) \subseteq Own(f)
    BY DEF ServiceInv, Serves
  <2> QED
    BY <1>1, <2>1, AlonePath DEF Own
<1>11. ASSUME NEW p \in AllTracked' PROVE Clashing(p)' \/ p \in FilesOf(webdav')
  <2>1. PICK g \in registered \ {f} : p \in Tracked(g)
    BY <1>7
  <2>2. p \in AllTracked
    BY <2>1 DEF AllTracked
  <2> QED
    BY <1>5, <1>6, <1>8, <2>1, <2>2 DEF ShownInv
<1>12. ASSUME NEW p \in FilesOf(mount') PROVE Mounted(p)'
  <2>1. p \in FilesOf(mount) /\ mount'[p] = mount[p] /\ p \notin Tracked(f)
    BY <1>5
  <2>2. PICK g \in Files : \E d \in DOMAIN nzb[g].places :
          mount[p] = <<g, d>> /\ Added(g, d) /\ FullPath(g, d) = p /\ d \notin Sizeless
    BY <2>1 DEF ShownInv, Mounted
  <2>a. PICK d \in DOMAIN nzb[g].places :
          mount[p] = <<g, d>> /\ Added(g, d) /\ FullPath(g, d) = p /\ d \notin Sizeless
    BY <2>2
  <2>3. g # f
    <3>1. PICK h \in registered : p \in Tracked(h)
      BY <2>1 DEF TreesInv, Shelf, AllTracked
    <3>2. h # f
      BY <2>1, <3>1
    <3>3. PICK e \in DOMAIN nzb[h].places : p = FullPath(h, e)
      BY <3>1 DEF ServiceInv, Serves, Own, LibInv
    <3>4. g = f => Apart(p, p)
      BY <1>1, <2>a, <3>2, <3>3, AlonePath
    <3> QED
      BY <3>4 DEF Apart
  <2> QED
    BY <1>1, <1>9, <2>1, <2>a, <2>3 DEF Mounted
<1>13. ASSUME NEW g \in Files, NEW d \in DOMAIN nzb[g].places \ Sizeless, Added(g, d)'
       PROVE  Clashing(FullPath(g, d))' \/ FullPath(g, d) \in FilesOf(mount')
  <2>1. Added(g, d) /\ g \in registered \ {f}
    BY <1>9, <1>13 DEF Added
  <2>2. CASE FullPath(g, d) \in FilesOf(mount)
    BY <1>5, <1>10, <2>1, <2>2
  <2>3. CASE Clashing(FullPath(g, d))
    <3>1. PICK q \in AllTracked : IsStrictPrefix(FullPath(g, d), q) \/ IsStrictPrefix(q, FullPath(g, d))
      BY <2>3 DEF Clashing
    <3>2. PICK h \in registered : q \in Tracked(h)
      BY DEF AllTracked
    <3>3. h # f
      BY <1>10, <2>1, <3>1, <3>2 DEF Apart
    <3> QED
      BY <1>7, <1>9, <3>1, <3>2, <3>3 DEF Clashing
  <2> QED
    BY <2>1, <2>2, <2>3 DEF ShownInv
<1> QED
  BY <1>1, <1>9, <1>11, <1>12, <1>13 DEF ShownInv

LEMMA ShownStep ==
  ASSUME LibInv, ServiceInv, TreesInv, TreesInv', ShownInv, NzbsApart, [LibNext]_libVars
  PROVE  ShownInv'
<1>1. CASE \E f \in Files : RemoveNzb(f) \/ \E c \in todo : Publish(f, c)
  BY <1>1, ShownPublish, ShownRemove
<1>2. CASE ~(\E f \in Files : RemoveNzb(f) \/ \E c \in todo : Publish(f, c))
  <2>1. AllTracked' = AllTracked /\ UNCHANGED <<webdav, mount>>
    BY <1>2, TrackedStays
  <2>2. nzb' = nzb /\ \A f \in Files : \A c \in DOMAIN nzb[f].places : Added(f, c)' <=> Added(f, c)
    BY <1>2, AddedStays
  <2>3. \A p : Clashing(p)' <=> Clashing(p)
    BY <2>1 DEF Clashing
  <2>4. \A f \in Files : \A c \in DOMAIN nzb[f].places : FullPath(f, c)' = FullPath(f, c)
    BY <2>2 DEF FullPath
  <2>5. \A p \in AllTracked' : Clashing(p)' \/ p \in FilesOf(webdav')
    BY <2>1, <2>3 DEF ShownInv
  <2>6. \A p \in FilesOf(mount') : Mounted(p)'
    BY <2>1, <2>2, <2>4 DEF ShownInv, Mounted
  <2>7. ASSUME NEW f \in Files, NEW c \in DOMAIN nzb[f].places \ Sizeless, Added(f, c)'
        PROVE  Clashing(FullPath(f, c))' \/ FullPath(f, c)' \in FilesOf(mount')
    BY <2>1, <2>2, <2>3, <2>4, <2>7 DEF ShownInv
  <2> QED
    BY <2>2, <2>5, <2>6, <2>7 DEF ShownInv
<1> QED
  BY <1>1, <1>2

(* A path is known from the path of its folder and its name, *)
LEMMA FrontIs ==
  ASSUME NEW p \in Path
  PROVE  /\ Front(p) \in Seq(STRING) /\ Len(Front(p)) = Len(p) - 1 /\ IsStrictPrefix(Front(p), p)
         /\ \A q \in Path :
              IsStrictPrefix(Front(p), q) /\ Len(q) = Len(Front(p)) + 1 /\ Last(q) = Last(p) => q = p
<1>1. p \in Seq(STRING) /\ Len(p) \in Nat /\ Len(p) # 0
  BY DEF Path
<1>2. /\ Front(p) \in Seq(STRING) /\ Len(Front(p)) = Len(p) - 1
      /\ \A i \in 1 .. Len(p) - 1 : Front(p)[i] = p[i]
  <2>1. Front(p) = SubSeq(p, 1, Len(p) - 1)
    BY DEF Front
  <2>2. Len(p) - 1 \in Nat /\ \A i \in 1 .. Len(p) - 1 : p[i] \in STRING
    BY <1>1
  <2>3. SubSeq(p, 1, Len(p) - 1) \in Seq(STRING)
    BY <1>1, <2>2
  <2>4. Len(SubSeq(p, 1, Len(p) - 1)) = Len(p) - 1
    <3>1. ASSUME NEW k \in Nat, k <= Len(p) PROVE Len(SubSeq(p, 1, k)) = k
      BY <1>1, <3>1
    <3>2. Len(p) - 1 <= Len(p)
      BY <1>1
    <3> QED
      BY <2>2, <3>1, <3>2
  <2>5. \A i \in 1 .. Len(p) - 1 : SubSeq(p, 1, Len(p) - 1)[i] = p[i]
    BY <1>1, <2>2
  <2> QED
    BY <2>1, <2>3, <2>4, <2>5
<1>3. IsStrictPrefix(Front(p), p)
  BY <1>1, <1>2, PrefixIs
<1>4. ASSUME NEW q \in Path, IsStrictPrefix(Front(p), q), Len(q) = Len(Front(p)) + 1, Last(q) = Last(p)
      PROVE  q = p
  <2>1. q \in Seq(STRING) /\ Len(q) = Len(p) /\ q[Len(p)] = p[Len(p)]
    BY <1>1, <1>2, <1>4 DEF Last, Path
  <2>2. \A i \in 1 .. Len(p) - 1 : q[i] = p[i]
    BY <1>1, <1>2, <1>4, <2>1, PrefixIs
  <2>3. \A i \in 1 .. Len(p) : q[i] = p[i]
    BY <1>1, <2>1, <2>2
  <2> QED
    BY <1>1, <2>1, <2>3
<1> QED
  BY <1>2, <1>3, <1>4

(* so that one finds a file of the mount from its root unless another is above it. *)
LEMMA FilesAreFound ==
  ASSUME NEW tree, Tidy(tree), NEW p
  PROVE  /\ p \in MountFiles(tree) => p \in FilesOf(tree)
         /\ p \in FilesOf(tree) /\ (\A d \in FilesOf(tree) : ~IsStrictPrefix(d, p)) => p \in MountFiles(tree)
<1>1. ASSUME p \in MountFiles(tree) PROVE p \in FilesOf(tree)
  <2>1. p \in DOMAIN tree /\ [name |-> Last(p), dir |-> FALSE] \in Readdir(tree, Front(p))
    BY <1>1 DEF MountFiles
  <2>2. PICK q \in Below(tree, Front(p)) : Len(q) = Len(Front(p)) + 1 /\ Last(q) = Last(p) /\ tree[q] # Folder
    BY <2>1 DEF Readdir
  <2>3. p \in Path /\ q \in Path /\ IsStrictPrefix(Front(p), q)
    BY <2>1 DEF Tidy, Shape, Below
  <2>4. q = p
    BY <2>2, <2>3, FrontIs
  <2> QED
    BY <2>1, <2>2, <2>4 DEF FilesOf
<1>2. ASSUME p \in FilesOf(tree), \A d \in FilesOf(tree) : ~IsStrictPrefix(d, p)
      PROVE  p \in MountFiles(tree)
  <2>1. p \in DOMAIN tree /\ tree[p] # Folder /\ p \in Path
    BY <1>2 DEF FilesOf, Tidy, Shape
  <2>2. MountLookup(tree, p)
    BY <1>2, <2>1, FoldersAre DEF MountLookup, FilesOf
  <2>3. p \in Below(tree, Front(p)) /\ Len(p) = Len(Front(p)) + 1
    <3>1. Len(p) \in Nat
      BY <2>1 DEF Path
    <3> QED
      BY <2>1, <3>1, FrontIs DEF Below
  <2>4. [name |-> Last(p), dir |-> FALSE] \in Readdir(tree, Front(p))
    <3>1. (tree[p] = Folder) = FALSE
      BY <2>1
    <3> QED
      BY <2>3, <3>1 DEF Readdir
  <2> QED
    BY <2>1, <2>2, <2>4 DEF MountFiles
<1> QED
  BY <1>1, <1>2

LEMMA ShowsIt ==
  ASSUME LibInv, ServiceInv, TreesInv, ShownInv, NzbsApart, Sized
  PROVE  ShowsTheTracked
<1>1. ASSUME NEW p, ~Clashing(p), p \in MountShows
      PROVE  \E added \in AddedAt(p) : added[2] \notin Sizeless /\ nzb[added[1]].date >= 0
  <2>1. p \in FilesOf(mount)
    BY <1>1, FilesAreFound DEF MountShows, TreesInv, Shelf
  <2>2. PICK f \in Files : \E c \in DOMAIN nzb[f].places :
          mount[p] = <<f, c>> /\ Added(f, c) /\ FullPath(f, c) = p /\ c \notin Sizeless
    BY <2>1 DEF ShownInv, Mounted
  <2>3. PICK c \in DOMAIN nzb[f].places :
          mount[p] = <<f, c>> /\ Added(f, c) /\ FullPath(f, c) = p /\ c \notin Sizeless
    BY <2>2
  <2>4. mount[p][1] = f /\ mount[p][2] = c /\ <<f, c>>[1] = f /\ <<f, c>>[2] = c
    BY <2>3
  <2>5. nzb[f].date >= 0
    BY <1>1, <2>4 DEF MountShows, Getattr, Converts
  <2>6. <<f, c>> \in AddedAt(p)
    BY <2>3, AddedAtIs
  <2> QED
    BY <2>3, <2>4, <2>5, <2>6
<1>2. ASSUME NEW p \in AllTracked \cup MountFiles(mount), ~Clashing(p),
             NEW added \in AddedAt(p), added[2] \notin Sizeless, nzb[added[1]].date >= 0
      PROVE  p \in MountShows
  <2>1. PICK f \in Files : \E c \in DOMAIN nzb[f].places : added = <<f, c>> /\ Added(f, c) /\ FullPath(f, c) = p
    BY AddedAtIs
  <2>2. PICK c \in DOMAIN nzb[f].places : added = <<f, c>> /\ Added(f, c) /\ FullPath(f, c) = p
    BY <2>1
  <2>3. c \notin Sizeless /\ nzb[f].date >= 0
    BY <1>2, <2>2
  <2>4. p \in FilesOf(mount)
    BY <1>2, <2>2, <2>3 DEF ShownInv
  <2>5. p \in MountFiles(mount)
    <3>1. \A d \in FilesOf(mount) : ~IsStrictPrefix(d, p)
      BY <1>2 DEF Clashing, TreesInv, Shelf
    <3> QED
      BY <2>4, <3>1, FilesAreFound DEF TreesInv, Shelf
  <2>6. PICK g \in Files : \E d \in DOMAIN nzb[g].places :
          mount[p] = <<g, d>> /\ Added(g, d) /\ FullPath(g, d) = p /\ d \notin Sizeless
    BY <2>4 DEF ShownInv, Mounted
  <2>7. PICK d \in DOMAIN nzb[g].places : mount[p] = <<g, d>> /\ Added(g, d) /\ FullPath(g, d) = p
    BY <2>6
  <2>8. g = f
    <3>1. f \in registered /\ g \in registered
      BY <2>2, <2>7 DEF Added
    <3>2. g # f => Apart(p, p)
      BY <2>2, <2>7, <3>1, AlonePath
    <3> QED
      BY <3>2 DEF Apart
  <2>9. nzb[f].sizes[d] >= 0
    <3>1. PICK i \in DOMAIN Nzbs : nzb[f] = Outcome(i)
      BY DEF ServiceInv
    <3> QED
      BY <2>7, <2>8, <3>1 DEF Sized
  <2>10. mount[p][1] = f /\ mount[p][2] = d
    BY <2>7, <2>8
  <2>11. Getattr(nzb[mount[p][1]].sizes[mount[p][2]], nzb[mount[p][1]].date)
    BY <2>3, <2>9, <2>10 DEF Getattr, Converts
  <2> QED
    BY <2>5, <2>11 DEF MountShows
<1>3. FilesOf(webdav) \subseteq AllTracked /\ \A p \in AllTracked : Clashing(p) \/ p \in FilesOf(webdav)
  BY DEF TreesInv, Shelf, ShownInv
<1> QED
  BY <1>1, <1>2, <1>3 DEF ShowsTheTracked

(* At every moment both presenters show the files that are tracked, and no other, for
   any number of nzbs whose files are apart, whatever clashes within each of them. *)
THEOREM ShownCorrect ==
  ASSUME NzbsApart, Sized
  PROVE  LibSpec => []ShowsTheTracked
<1> DEFINE Inv == LibInv /\ ServiceInv /\ TreesInv /\ ShownInv
<1>1. LibInit => Inv
  BY LibInvInit, ServiceInit, TreesInit, ShownInit
<1>2. Inv /\ [LibNext]_libVars => Inv'
  BY LibInvStep, ServiceStep, TreesStep, ShownStep
<1>3. Inv => ShowsTheTracked
  BY ShowsIt
<1> QED
  BY <1>1, <1>2, <1>3, PTL DEF LibSpec

-----------------------------------------------------------------------------
(* How many numbers there are from one to another that is not smaller. *)
LEMMA CountOfInterval ==
  ASSUME NEW a \in Int, NEW b \in Int, a <= b
  PROVE  /\ IsFiniteSet(a .. b) /\ Cardinality(a .. b) = b - a + 1
         /\ a = 1 => Cardinality(a .. b) = b
<1>1. IsFiniteSet(a .. b) /\ Cardinality(a .. b) = IF a > b THEN 0 ELSE b - a + 1
  BY FS_Interval
<1> QED
  BY <1>1

(* A function from 1 .. n to itself that grows is the identity: it has i values up to
   its value at i, and n - i after it. *)
LEMMA GrowingIsIdentity ==
  ASSUME NEW n \in Nat, NEW g \in [1 .. n -> 1 .. n],
         \A i, j \in 1 .. n : i < j => g[i] < g[j],
         NEW i \in 1 .. n
  PROVE  g[i] = i
<1>1. \A j, k \in 1 .. n : g[j] = g[k] => j = k
  OBVIOUS
<1>2. i <= g[i]
  <2> DEFINE low == [j \in 1 .. i |-> g[j]]
  <2>1. ASSUME NEW j \in 1 .. i
        PROVE  j \in 1 .. n /\ g[j] \in 1 .. g[i]
    <3>1. j \in 1 .. n /\ (j = i \/ j < i)
      OBVIOUS
    <3>2. g[i] \in 1 .. n /\ g[j] \in 1 .. n /\ g[j] <= g[i]
      BY <3>1
    <3>3. \A a, b \in 1 .. n : a <= b => a \in 1 .. b
      OBVIOUS
    <3> QED
      BY <3>1, <3>2, <3>3
  <2>2. low \in Injection(1 .. i, 1 .. g[i])
    BY <1>1, <2>1 DEF Injection, IsInjective
  <2>3. i \in Int /\ g[i] \in Int /\ i >= 1 /\ g[i] >= 1
    OBVIOUS
  <2>4. Cardinality(1 .. i) = i /\ Cardinality(1 .. g[i]) = g[i] /\ IsFiniteSet(1 .. g[i])
    BY <2>3, CountOfInterval
  <2>5. Cardinality(1 .. i) <= Cardinality(1 .. g[i])
    BY <2>2, <2>4, FS_Injection
  <2> QED
    BY <2>4, <2>5
<1>3. n - i <= n - g[i]
  <2> DEFINE high == [j \in i .. n |-> g[j]]
  <2>1. ASSUME NEW j \in i .. n
        PROVE  j \in 1 .. n /\ g[j] \in g[i] .. n
    <3>1. j \in 1 .. n /\ (j = i \/ i < j)
      OBVIOUS
    <3>2. g[i] \in 1 .. n /\ g[j] \in 1 .. n /\ g[i] <= g[j]
      BY <3>1
    <3>3. \A a, b \in 1 .. n : a <= b => b \in a .. n
      OBVIOUS
    <3> QED
      BY <3>1, <3>2, <3>3
  <2>2. high \in Injection(i .. n, g[i] .. n)
    BY <1>1, <2>1 DEF Injection, IsInjective
  <2>3. i \in Int /\ g[i] \in Int /\ n \in Int /\ i <= n /\ g[i] <= n
    OBVIOUS
  <2>4. /\ Cardinality(i .. n) = n - i + 1 /\ Cardinality(g[i] .. n) = n - g[i] + 1
        /\ IsFiniteSet(g[i] .. n)
    BY <2>3, CountOfInterval
  <2>5. Cardinality(i .. n) <= Cardinality(g[i] .. n)
    BY <2>2, <2>4, FS_Injection
  <2> QED
    BY <2>3, <2>4, <2>5
<1> QED
  BY <1>2, <1>3

(* Names that are each before the next ones, and not after them, are sorted. *)
LEMMA SortedIs ==
  ASSUME NEW S, NEW v \in Seq(S),
         \A i, j \in 1 .. Len(v) : i < j => Before(v[i], v[j]) /\ ~Before(v[j], v[i])
  PROVE  Sorted(ToSet(v)) = v
<1> DEFINE n == Len(v)
           T == ToSet(v)
           Ordered(s) == \A i, j \in DOMAIN s : i < j => Before(s[i], s[j])
<1>1. n \in Nat /\ DOMAIN v = 1 .. n /\ v = [i \in 1 .. n |-> v[i]] /\ T = {v[i] : i \in 1 .. n}
  BY DEF ToSet
<1>2. \A i, j \in 1 .. n : v[i] = v[j] => i = j
  OBVIOUS
<1>3. Cardinality(T) = n
  <2>1. v \in Bijection(1 .. n, T)
    BY <1>1, <1>2 DEF Bijection, Injection, Surjection, IsInjective
  <2>2. IsFiniteSet(1 .. n) /\ Cardinality(1 .. n) = n
    <3>1. n \in Int /\ n >= 0 /\ 1 \in Int
      BY <1>1
    <3> HIDE DEF n
    <3>2. IsFiniteSet(1 .. n) /\ Cardinality(1 .. n) = IF 1 > n THEN 0 ELSE n - 1 + 1
      BY <3>1, FS_Interval
    <3> QED
      BY <3>1, <3>2, SMTT(30)
  <2>3. ExistsBijection(1 .. n, T)
    BY <2>1 DEF ExistsBijection
  <2> QED
    BY <2>2, <2>3, FS_Bijection
<1>4. v \in SetToSeqs(T) /\ Ordered(v)
  BY <1>1, <1>2, <1>3 DEF SetToSeqs
<1>5. ASSUME NEW s \in SetToSeqs(T), Ordered(s)
      PROVE  s = v
  <2>1. s \in [1 .. n -> T] /\ \A i, j \in 1 .. n : i # j => s[i] # s[j]
    BY <1>3 DEF SetToSeqs
  <2> DEFINE g == [i \in 1 .. n |-> CHOOSE j \in 1 .. n : v[j] = s[i]]
  <2>2. \A i \in 1 .. n : g[i] \in 1 .. n /\ v[g[i]] = s[i]
    BY <1>1, <2>1
  <2>3. ASSUME NEW i \in 1 .. n, NEW j \in 1 .. n, i < j
        PROVE  g[i] < g[j]
    <3>1. Before(v[g[i]], v[g[j]]) /\ v[g[i]] # v[g[j]]
      BY <1>5, <2>1, <2>2, <2>3
    <3> HIDE DEF g
    <3> QED
      BY <1>1, <2>2, <3>1
  <2>4. g \in [1 .. n -> 1 .. n]
    BY <2>2
  <2> HIDE DEF g
  <2>5. \A i \in 1 .. n : g[i] = i
    BY <1>1, <2>3, <2>4, GrowingIsIdentity
  <2> QED
    BY <1>1, <2>1, <2>2, <2>5
<1>6. Sorted(T) = CHOOSE s \in SetToSeqs(T) : Ordered(s)
  BY DEF Sorted
<1> HIDE DEF Ordered, T
<1>7. Sorted(T) = v
  BY <1>4, <1>5, <1>6
<1> QED
  BY <1>7 DEF T

(* Volumes whose names are counted are in the order of their names. *)
LEMMA CountedInOrder ==
  ASSUME NEW v, Counted(v), NEW i \in DOMAIN v, NEW j \in DOMAIN v, i < j
  PROVE  Before(v[i], v[j]) /\ ~Before(v[j], v[i])
<1> DEFINE x == Numbers(v[i])
           y == Numbers(v[j])
<1>1. /\ x \in Seq(Nat) /\ y \in Seq(Nat) /\ Len(x) = 1 /\ Len(y) = 1 /\ x[1] < y[1]
      /\ Digitless(v[i]) = Digitless(v[j])
  BY DEF Counted
<1>2. DOMAIN x = {1} /\ DOMAIN y = {1} /\ x[1] \in Nat /\ y[1] \in Nat
  <2> HIDE DEF x, y
  <2>1. DOMAIN x = 1 .. 1 /\ DOMAIN y = 1 .. 1
    BY <1>1
  <2>2. 1 .. 1 = {1}
    OBVIOUS
  <2>3. x[1] \in Nat /\ y[1] \in Nat
    <3>1. \A s \in Seq(Nat) : Len(s) = 1 => s[1] \in Nat
      OBVIOUS
    <3> QED
      BY <1>1, <3>1
  <2> QED
    BY <2>1, <2>2, <2>3, Zenon
<1>3. Before(v[i], v[j]) <=>
        IF {k \in DOMAIN x \cap DOMAIN y : x[k] # y[k]} = {} THEN Len(x) < Len(y)
        ELSE \E k \in {k \in DOMAIN x \cap DOMAIN y : x[k] # y[k]} :
               x[k] < y[k] /\ \A l \in {l \in DOMAIN x \cap DOMAIN y : x[l] # y[l]} : k <= l
  BY <1>1, Zenon DEF Before
<1>4. Before(v[j], v[i]) <=>
        IF {k \in DOMAIN y \cap DOMAIN x : y[k] # x[k]} = {} THEN Len(y) < Len(x)
        ELSE \E k \in {k \in DOMAIN y \cap DOMAIN x : y[k] # x[k]} :
               y[k] < x[k] /\ \A l \in {l \in DOMAIN y \cap DOMAIN x : y[l] # x[l]} : k <= l
  BY <1>1, Zenon DEF Before
<1> HIDE DEF x, y
<1>5. 1 \in {k \in DOMAIN x \cap DOMAIN y : x[k] # y[k]} /\ 1 \in {k \in DOMAIN y \cap DOMAIN x : y[k] # x[k]}
  BY <1>1, <1>2
<1>6. Before(v[i], v[j])
  BY <1>1, <1>2, <1>3, <1>5
<1>7. ~Before(v[j], v[i])
  BY <1>1, <1>2, <1>4, <1>5
<1> QED
  BY <1>6, <1>7

(* What VolumesFollow says of an nzb. *)
LEMMA GroupFollows ==
  ASSUME VolumesNamed, NEW i \in DOMAIN Nzbs, NEW a \in Nzbs[i].archives,
         NEW group \in GroupNames(Nzbs[i]), ToSet(a.volumes) = Group(Kept(Nzbs[i]), group)
  PROVE  /\ Volumes(Nzbs[i], group) = a.volumes
         /\ <<group>> \o a.entry \in Presented(Nzbs[i]) \cup FileBlacklist
<1>1. /\ a.volumes \in Seq(Kept(Nzbs[i])) /\ Counted(a.volumes)
      /\ \A k \in DOMAIN a.volumes : IsRar(GroupName(a.volumes[k]))
  BY DEF VolumesNamed
<1>2. Volumes(Nzbs[i], group) = a.volumes
  <2>1. \A k, l \in 1 .. Len(a.volumes) : k < l =>
          Before(a.volumes[k], a.volumes[l]) /\ ~Before(a.volumes[l], a.volumes[k])
    BY <1>1, CountedInOrder
  <2> QED
    BY <1>1, <2>1, SortedIs DEF Volumes
<1>3. IsRar(group)
  <2>1. PICK name \in Kept(Nzbs[i]) : GroupName(name) = group
    BY DEF GroupNames
  <2>2. name \in ToSet(a.volumes)
    BY <2>1 DEF Group
  <2> QED
    BY <1>1, <2>1, <2>2 DEF ToSet
<1>4. a \in Opened(Nzbs[i], group)
  BY <1>2 DEF Opened
<1>5. <<group>> \o a.entry \in SpecialFiles(Nzbs[i])
  BY <1>3, <1>4 DEF SpecialFiles
<1> QED
  BY <1>2, <1>5 DEF Presented, IsBlacklistedFilename

(* The volumes of an archive are read in the order of the numbers in their names, however
   many they are, and the file found in it is added: sortGroupedFilenames compares numbers,
   and processSpecialFiles opens a group at its first name. It is about nzbs whose archives
   are rar archives with volumes that are numbered. *)
THEOREM VolumesCorrect ==
  ASSUME VolumesNamed
  PROVE  LibSpec => []VolumesFollow
<1>1. LibInit => LibInv /\ ServiceInv
  BY LibInvInit, ServiceInit
<1>2. LibInv /\ ServiceInv /\ [LibNext]_libVars => LibInv' /\ ServiceInv'
  BY LibInvStep, ServiceStep
<1>3. ServiceInv => VolumesFollow
  <2> SUFFICES ASSUME ServiceInv, NEW f \in Files, NEW a \in Nzbs[nzb[f].id].archives,
                      NEW group \in GroupNames(Nzbs[nzb[f].id]),
                      ToSet(a.volumes) = Group(Kept(Nzbs[nzb[f].id]), group)
               PROVE  /\ Volumes(Nzbs[nzb[f].id], group) = a.volumes
                      /\ <<group>> \o a.entry \in Presented(Nzbs[nzb[f].id]) \cup FileBlacklist
    BY DEF VolumesFollow
  <2>1. nzb[f].id \in DOMAIN Nzbs
    <3>1. PICK i \in DOMAIN Nzbs : nzb[f] = Outcome(i)
      BY DEF ServiceInv
    <3> QED
      BY <3>1 DEF Outcome
  <2> QED
    BY <2>1, GroupFollows
<1> QED
  BY <1>1, <1>2, <1>3, PTL DEF LibSpec

-----------------------------------------------------------------------------
(* The names of the files of one nzb *)

(* The extensions of names. *)
Exts == [word : STRING, num : Int, lead : BOOLEAN]

(* A path without its last name. *)
LEMMA FrontOf ==
  ASSUME NEW S, NEW path \in Seq(S), path # << >>
  PROVE  /\ Front(path) \in Seq(S) /\ Len(Front(path)) = Len(path) - 1
         /\ \A k \in 1 .. Len(path) - 1 : Front(path)[k] = path[k]
<1>1. Len(path) \in Nat \ {0}
  OBVIOUS
<1>2. Len(path) - 1 \in Nat /\ \A k \in 1 .. Len(path) - 1 : path[k] \in S
  BY <1>1
<1>3. SubSeq(path, 1, Len(path) - 1) \in Seq(S)
  BY <1>1, <1>2
<1>4. ASSUME NEW k \in Nat, k <= Len(path) PROVE Len(SubSeq(path, 1, k)) = k
  BY <1>1, <1>4
<1>5. Len(SubSeq(path, 1, Len(path) - 1)) = Len(path) - 1
  <2>1. Len(path) - 1 <= Len(path)
    BY <1>1
  <2> QED
    BY <1>2, <1>4, <2>1
<1>6. \A k \in 1 .. Len(path) - 1 : SubSeq(path, 1, Len(path) - 1)[k] = path[k]
  BY <1>1, <1>2
<1> QED
  BY <1>3, <1>5, <1>6 DEF Front

(* What a path is made of that is one below another. *)
LEMMA JoinOf ==
  ASSUME NEW S, NEW p \in Seq(S), NEW q \in Seq(S)
  PROVE  /\ p \o q \in Seq(S) /\ Len(p \o q) = Len(p) + Len(q)
         /\ \A k \in 1 .. Len(p) : (p \o q)[k] = p[k]
         /\ \A k \in 1 .. Len(q) : (p \o q)[Len(p) + k] = q[k]
<1>1. p \o q \in Seq(S) /\ Len(p \o q) = Len(p) + Len(q)
  OBVIOUS
<1>2. \A k \in 1 .. Len(p) : (p \o q)[k] = p[k]
  OBVIOUS
<1>3. \A k \in 1 .. Len(q) : (p \o q)[Len(p) + k] = q[k]
  OBVIOUS
<1> QED
  BY <1>1, <1>2, <1>3

(* An extension is put behind the last name, *)
LEMMA WithExtIs ==
  ASSUME NEW path \in Seq(Names) \ {<< >>}, NEW ext \in Exts \cup {NoExt}
  PROVE  /\ WithExt(path, ext) \in Seq(Names) /\ Len(WithExt(path, ext)) = Len(path)
         /\ \A k \in 1 .. Len(path) - 1 : WithExt(path, ext)[k] = path[k]
         /\ Last(WithExt(path, ext)).base = Last(path).base
         /\ ext = NoExt => Last(WithExt(path, ext)).exts = Last(path).exts
         /\ ext # NoExt => Last(WithExt(path, ext)).exts = Append(Last(path).exts, ext)
<1> DEFINE name == [Last(path) EXCEPT !.exts = IF ext = NoExt THEN @ ELSE Append(@, ext)]
<1>1. Len(path) \in Nat \ {0} /\ Last(path) \in Names
  BY DEF Last
<1>2. Last(path).exts \in Seq(Exts)
  BY <1>1 DEF Names, Exts
<1>3. name \in Names /\ name.base = Last(path).base
      /\ name.exts = IF ext = NoExt THEN Last(path).exts ELSE Append(Last(path).exts, ext)
  <2>1. (IF ext = NoExt THEN Last(path).exts ELSE Append(Last(path).exts, ext)) \in Seq(Exts)
    BY <1>2
  <2> QED
    BY <1>1, <2>1 DEF Names, Exts
<1>4. WithExt(path, ext) = Front(path) \o <<name>>
  BY DEF WithExt
<1> HIDE DEF name
<1>5. Front(path) \in Seq(Names) /\ Len(Front(path)) = Len(path) - 1 /\ \A k \in 1 .. Len(path) - 1 : Front(path)[k] = path[k]
  BY FrontOf
<1>6. <<name>> \in Seq(Names) /\ Len(<<name>>) = 1 /\ <<name>>[1] = name
  BY <1>3
<1>7. /\ WithExt(path, ext) \in Seq(Names) /\ Len(WithExt(path, ext)) = Len(path)
      /\ \A k \in 1 .. Len(path) - 1 : WithExt(path, ext)[k] = path[k]
      /\ WithExt(path, ext)[Len(path)] = name
  BY <1>1, <1>4, <1>5, <1>6
<1>8. Last(WithExt(path, ext)) = name
  BY <1>7 DEF Last
<1> QED
  BY <1>3, <1>7, <1>8

(* where it is the extension of the name. *)
LEMMA ExtIs ==
  ASSUME NEW name \in Names
  PROVE  /\ Ext(name) \in Exts \cup {NoExt}
         /\ name.exts = << >> => Ext(name) = NoExt
         /\ \A stem \in Seq(Exts), ext \in Exts : name.exts = Append(stem, ext) => Ext(name) = ext
<1>1. name.exts \in Seq(Exts)
  BY DEF Names, Exts
<1>3. ASSUME name.exts # << >> PROVE Last(name.exts) \in Exts
  BY <1>1, <1>3 DEF Last
<1>4. ASSUME NEW stem \in Seq(Exts), NEW ext \in Exts, name.exts = Append(stem, ext)
      PROVE  name.exts # << >> /\ Last(name.exts) = ext
  BY <1>4 DEF Last
<1> QED
  BY <1>3, <1>4 DEF Ext

(* The paths of an nzb, as NamesApart has them. *)
LEMMA PathsAre ==
  ASSUME NamesApart, NEW i \in DOMAIN Nzbs
  PROVE  /\ IsFiniteSet(Presented(Nzbs[i])) /\ MetaName(Nzbs[i]) \in Seq(Names) \ {<< >>}
         /\ \A c \in Presented(Nzbs[i]) :
              /\ c \in Seq(Names) \ {<< >>} /\ Len(c) \in Nat \ {0} /\ Last(c) \in Names /\ Ext(Last(c)) \in Exts \cup {NoExt}
              /\ FolderOf(c) \in Seq(Names) /\ Len(FolderOf(c)) = Len(c) - 1
              /\ \A k \in 1 .. Len(c) - 1 : FolderOf(c)[k] = c[k]
<1>1. IsFiniteSet(Presented(Nzbs[i])) /\ Presented(Nzbs[i]) \cup {MetaName(Nzbs[i])} \subseteq Seq(Names) \ {<< >>}
  BY DEF NamesApart
<1>2. ASSUME NEW c \in Presented(Nzbs[i])
      PROVE  /\ c \in Seq(Names) \ {<< >>} /\ Len(c) \in Nat \ {0} /\ Last(c) \in Names
             /\ FolderOf(c) \in Seq(Names) /\ Len(FolderOf(c)) = Len(c) - 1
             /\ \A k \in 1 .. Len(c) - 1 : FolderOf(c)[k] = c[k]
  <2>1. c \in Seq(Names) \ {<< >>}
    BY <1>1
  <2>2. Len(c) \in Nat \ {0}
    BY <2>1
  <2>3. Last(c) \in Names
    BY <2>1, <2>2 DEF Last
  <2> QED
    BY <2>1, <2>2, <2>3, FrontOf DEF FolderOf
<1> QED
  BY <1>1, <1>2, ExtIs

(* Two files of a folder have one replacement: the MetaName, or the name of the folder. *)
LEMMA ReplacementIs ==
  ASSUME NamesApart, NEW i \in DOMAIN Nzbs, NEW c \in Presented(Nzbs[i]), NEW meta, meta = MetaName(Nzbs[i])
  PROVE  /\ Replacement(c, meta) \in Seq(Names) \ {<< >>}
         /\ \/ Replacement(c, meta) = meta
            \/ Len(Replacement(c, meta)) = 1 /\ Last(Replacement(c, meta)).exts = << >>
         /\ \A d \in Presented(Nzbs[i]) : FolderOf(c) = FolderOf(d) => Replacement(c, meta) = Replacement(d, meta)
<1> DEFINE base == Base(Last(FolderOf(c)))
<1>1. /\ c \in Seq(Names) /\ Len(c) \in Nat \ {0} /\ FolderOf(c) \in Seq(Names) /\ Len(FolderOf(c)) = Len(c) - 1
      /\ meta \in Seq(Names) \ {<< >>}
  BY PathsAre
<1>2. ASSUME Len(c) > 1
      PROVE  <<base>> \in Seq(Names) \ {<< >>} /\ Len(<<base>>) = 1 /\ Last(<<base>>).exts = << >>
  <2>1. Last(FolderOf(c)) \in Names
    BY <1>1, <1>2 DEF Last
  <2>2. << >> \in Seq([word : STRING, num : Int, lead : BOOLEAN])
    OBVIOUS
  <2>3. base \in Names /\ base.exts = << >>
    BY <2>1, <2>2 DEF Names, Base
  <2> HIDE DEF base
  <2> QED
    BY <2>3 DEF Last
<1>3. ASSUME NEW d \in Presented(Nzbs[i]), FolderOf(c) = FolderOf(d)
      PROVE  Replacement(c, meta) = Replacement(d, meta)
  <2>1. Len(d) \in Nat /\ Len(FolderOf(d)) = Len(d) - 1
    BY PathsAre
  <2>2. Len(c) > 1 <=> Len(d) > 1
    BY <1>1, <1>3, <2>1
  <2> QED
    BY <1>3, <2>2 DEF Replacement
<1> QED
  BY <1>1, <1>2, <1>3 DEF Replacement

(* Where deobfuscateFilenames puts a file that it renames, and where it puts any. *)
Renamed(i, c) ==
  FolderOf(c) \o WithExt(Replacement(c, MetaName(Nzbs[i])), Ext(Last(c)))

Deob(i, c) == Deobfuscated(c, Presented(Nzbs[i]), MetaName(Nzbs[i]))

(* What a renamed path is made of. *)
LEMMA RenamedIs ==
  ASSUME NamesApart, NEW i \in DOMAIN Nzbs, NEW c \in Presented(Nzbs[i]), NEW r,
         r = Replacement(c, MetaName(Nzbs[i]))
  PROVE  /\ Renamed(i, c) \in Seq(Names) /\ Len(r) \in Nat \ {0} /\ Len(Renamed(i, c)) = Len(c) - 1 + Len(r)
         /\ \A k \in 1 .. Len(c) - 1 : Renamed(i, c)[k] = c[k]
         /\ \A k \in 1 .. Len(r) - 1 : Renamed(i, c)[Len(c) - 1 + k] = r[k]
         /\ Last(Renamed(i, c)) = Last(WithExt(r, Ext(Last(c))))
<1> DEFINE last == WithExt(r, Ext(Last(c)))
<1>1. /\ Len(c) \in Nat \ {0} /\ FolderOf(c) \in Seq(Names) /\ Len(FolderOf(c)) = Len(c) - 1
      /\ \A k \in 1 .. Len(c) - 1 : FolderOf(c)[k] = c[k]
      /\ Ext(Last(c)) \in Exts \cup {NoExt}
  BY PathsAre
<1>2. r \in Seq(Names) \ {<< >>}
  BY ReplacementIs
<1>3. last \in Seq(Names) /\ Len(last) = Len(r) /\ \A k \in 1 .. Len(r) - 1 : last[k] = r[k]
  BY <1>1, <1>2, WithExtIs
<1>4. Renamed(i, c) = FolderOf(c) \o last
  BY DEF Renamed
<1>5. Len(r) \in Nat \ {0}
  BY <1>2
<1> HIDE DEF last
<1>6. Renamed(i, c) \in Seq(Names) /\ Len(Renamed(i, c)) = Len(c) - 1 + Len(r)
  <2>1. FolderOf(c) \o last \in Seq(Names) /\ Len(FolderOf(c) \o last) = Len(FolderOf(c)) + Len(last)
    BY <1>1, <1>3, JoinOf
  <2> QED
    BY <1>1, <1>3, <1>4, <2>1
<1>7. \A k \in 1 .. Len(c) - 1 : Renamed(i, c)[k] = c[k]
  BY <1>1, <1>3, <1>4, JoinOf
<1>8. \A k \in 1 .. Len(r) : Renamed(i, c)[Len(c) - 1 + k] = last[k]
  BY <1>1, <1>3, <1>4, JoinOf
<1>9. Last(Renamed(i, c)) = Last(last)
  BY <1>1, <1>3, <1>5, <1>6, <1>8 DEF Last
<1>10. \A k \in 1 .. Len(r) - 1 : Renamed(i, c)[Len(c) - 1 + k] = r[k]
  BY <1>3, <1>5, <1>8
<1> QED
  BY <1>5, <1>6, <1>7, <1>9, <1>10 DEF last

(* The only file with its extension in a folder. *)
LEMMA OnlyIs ==
  ASSUME NamesApart, NEW i \in DOMAIN Nzbs, NEW c \in Presented(Nzbs[i]), NEW d \in Presented(Nzbs[i]),
         OnlyOfItsExt(c, Presented(Nzbs[i])), FolderOf(c) = FolderOf(d), Ext(Last(c)) = Ext(Last(d))
  PROVE  c = d
<1> DEFINE paths == Presented(Nzbs[i])
           same  == WithExtOf(c, InFolder(FolderOf(c), paths))
<1>1. IsFiniteSet(same)
  <2>1. same \subseteq paths
    BY DEF WithExtOf, InFolder
  <2> QED
    BY <2>1, PathsAre, FS_Subset
<1>2. ASSUME NEW e \in paths, FolderOf(e) = FolderOf(c), Ext(Last(e)) = Ext(Last(c)) PROVE e \in same
  <2>1. /\ e \in Seq(Names) /\ Len(e) \in Nat /\ FolderOf(e) \in Seq(Names) /\ Len(FolderOf(e)) = Len(e) - 1
        /\ FolderOf(e) = SubSeq(e, 1, Len(e) - 1)
    BY PathsAre DEF FolderOf, Front
  <2>2. SubSeq(FolderOf(e), 1, Len(FolderOf(e))) = FolderOf(e)
    BY <2>1
  <2>3. IsPrefix(FolderOf(e), e) /\ Len(e) = Len(FolderOf(e)) + 1
    BY <2>1, <2>2 DEF IsPrefix
  <2> QED
    BY <1>2, <2>3 DEF WithExtOf, InFolder
<1>3. Cardinality(same) = 1
  BY DEF OnlyOfItsExt
<1>4. PICK x : same = {x}
  BY <1>1, <1>3, FS_Singleton
<1> QED
  BY <1>2, <1>4

(* The folders that a MetaName of many names has are no other names of the nzb. *)
LEMMA Above ==
  ASSUME NamesApart, NEW i \in DOMAIN Nzbs, NEW meta, meta = MetaName(Nzbs[i]), NEW k \in 1 .. Len(meta) - 1,
         NEW c \in Presented(Nzbs[i])
  PROVE  /\ \A j \in 1 .. Len(c) - 1 : c[j] # meta[k]
         /\ meta[k] \notin GivenNames(Nzbs[i], c)
<1> DEFINE above == ToSet(Front(meta))
<1>1. above \cap (ToSet(FolderOf(c)) \cup GivenNames(Nzbs[i], c)) = {}
  BY DEF NamesApart
<1>2. meta \in Seq(Names) /\ meta # << >>
  BY PathsAre
<1>3. meta[k] \in above
  <2>1. Front(meta)[k] = meta[k] /\ k \in DOMAIN Front(meta)
    BY <1>2, FrontOf
  <2> QED
    BY <2>1 DEF ToSet
<1>4. ASSUME NEW j \in 1 .. Len(c) - 1 PROVE c[j] \in ToSet(FolderOf(c))
  <2>1. c \in Seq(Names) /\ c # << >>
    BY PathsAre
  <2>2. Front(c)[j] = c[j] /\ j \in DOMAIN Front(c)
    BY <2>1, FrontOf
  <2> QED
    BY <2>2 DEF ToSet, FolderOf
<1> HIDE DEF above
<1> QED
  BY <1>1, <1>3, <1>4

(* Names with one base and the same extensions are the same. *)
LEMMA NameIs ==
  ASSUME NEW n \in Names, NEW m \in Names, n.base = m.base, n.exts = m.exts
  PROVE  n = m
BY DEF Names

(* A file is not renamed to another one. *)
LEMMA RenamedToNone ==
  ASSUME NamesApart, NEW i \in DOMAIN Nzbs, NEW c \in Presented(Nzbs[i]), NEW d \in Presented(Nzbs[i]),
         OnlyOfItsExt(c, Presented(Nzbs[i])), Renamed(i, c) = d
  PROVE  c = d
<1> DEFINE meta == MetaName(Nzbs[i])
           r    == Replacement(c, meta)
           e    == Ext(Last(c))
<1>1. /\ Len(c) \in Nat \ {0} /\ Len(d) \in Nat \ {0} /\ Last(d) \in Names /\ e \in Exts \cup {NoExt}
      /\ FolderOf(c) \in Seq(Names) /\ Len(FolderOf(c)) = Len(c) - 1 /\ \A k \in 1 .. Len(c) - 1 : FolderOf(c)[k] = c[k]
      /\ FolderOf(d) \in Seq(Names) /\ Len(FolderOf(d)) = Len(d) - 1 /\ \A k \in 1 .. Len(d) - 1 : FolderOf(d)[k] = d[k]
  BY PathsAre
<1>2. /\ r \in Seq(Names) \ {<< >>} /\ Len(r) \in Nat \ {0}
      /\ r = meta \/ (Len(r) = 1 /\ Last(r).exts = << >>)
  BY ReplacementIs, RenamedIs
<1>3. /\ Len(d) = Len(c) - 1 + Len(r)
      /\ \A k \in 1 .. Len(c) - 1 : d[k] = c[k]
      /\ \A k \in 1 .. Len(r) - 1 : d[Len(c) - 1 + k] = r[k]
      /\ Last(d) = Last(WithExt(r, e))
  BY RenamedIs
<1> HIDE DEF r, e
<1>4. Len(r) = 1
  <2> SUFFICES ASSUME Len(r) # 1 PROVE FALSE
    OBVIOUS
  <2>1. Len(r) > 1 /\ r = meta
    BY <1>2
  <2>2. d[Len(c)] = meta[1] /\ Len(c) \in 1 .. Len(d) - 1 /\ 1 \in 1 .. Len(meta) - 1
    BY <1>1, <1>2, <1>3, <2>1
  <2> QED
    BY <2>2, Above
<1>5. FolderOf(c) = FolderOf(d)
  <2>1. Len(d) = Len(c)
    BY <1>1, <1>3, <1>4
  <2>2. Len(FolderOf(c)) = Len(FolderOf(d))
    BY <1>1, <2>1
  <2>3. ASSUME NEW k \in 1 .. Len(c) - 1 PROVE FolderOf(c)[k] = FolderOf(d)[k]
    BY <1>1, <1>3, <2>1
  <2> QED
    BY <1>1, <2>2, <2>3
<1>6. Last(r) \in Names /\ Last(r).exts \in Seq(Exts)
  <2>1. Last(r) \in Names
    BY <1>2 DEF Last
  <2> QED
    BY <2>1 DEF Names, Exts
<1>7. CASE e # NoExt
  <2>1. Last(d).exts = Append(Last(r).exts, e) /\ e \in Exts
    BY <1>1, <1>2, <1>3, <1>7, WithExtIs
  <2>2. Ext(Last(d)) = e
    BY <1>1, <1>6, <2>1, ExtIs
  <2> QED
    BY <1>5, <2>2, OnlyIs DEF e
<1>8. CASE e = NoExt
  <2>1. Last(d).base = Last(r).base /\ Last(d).exts = Last(r).exts
    BY <1>1, <1>2, <1>3, <1>8, WithExtIs
  <2>2. Last(d) = Last(r)
    BY <1>1, <1>6, <2>1, NameIs
  <2>3. Ext(Last(d)) = NoExt
    <3>1. CASE r = meta
      <4> SUFFICES ASSUME Ext(Last(d)) # NoExt PROVE FALSE
        OBVIOUS
      <4>1. Last(d) # Last(meta)
        BY <1>5, <1>8 DEF NamesApart, e
      <4> QED
        BY <2>2, <3>1, <4>1
    <3>2. CASE Last(r).exts = << >>
      BY <1>6, <2>2, <3>2, ExtIs
    <3> QED
      BY <1>2, <3>1, <3>2
  <2> QED
    BY <1>5, <1>8, <2>3, OnlyIs DEF e
<1> QED
  BY <1>7, <1>8

(* No two files of a folder are renamed to one path: their extensions differ. *)
LEMMA RenamedInFolder ==
  ASSUME NamesApart, NEW i \in DOMAIN Nzbs, NEW c \in Presented(Nzbs[i]), NEW d \in Presented(Nzbs[i]),
         OnlyOfItsExt(c, Presented(Nzbs[i])), FolderOf(c) = FolderOf(d), Renamed(i, c) = Renamed(i, d)
  PROVE  c = d
<1> DEFINE meta == MetaName(Nzbs[i])
           r    == Replacement(c, meta)
           e    == Ext(Last(c))
           g    == Ext(Last(d))
<1>1. e \in Exts \cup {NoExt} /\ g \in Exts \cup {NoExt}
  BY PathsAre
<1>2. r \in Seq(Names) \ {<< >>} /\ r = Replacement(d, meta)
  BY ReplacementIs
<1>3. Last(WithExt(r, e)) = Last(WithExt(r, g))
  BY <1>2, RenamedIs
<1>4. Last(r).exts \in Seq(Exts)
  <2>1. Last(r) \in Names
    BY <1>2 DEF Last
  <2> QED
    BY <2>1 DEF Names, Exts
<1> HIDE DEF r, e, g
<1>5. CASE e = NoExt /\ g # NoExt
  <2>1. Last(r).exts = Append(Last(r).exts, g)
    BY <1>1, <1>2, <1>3, <1>5, WithExtIs
  <2> QED
    BY <1>1, <1>4, <1>5, <2>1
<1>6. CASE e # NoExt /\ g = NoExt
  <2>1. Last(r).exts = Append(Last(r).exts, e)
    BY <1>1, <1>2, <1>3, <1>6, WithExtIs
  <2> QED
    BY <1>1, <1>4, <1>6, <2>1
<1>7. CASE e # NoExt /\ g # NoExt
  <2>3. Last(WithExt(r, e)).exts = Append(Last(r).exts, e)
    BY <1>1, <1>2, <1>7, WithExtIs
  <2>4. Last(WithExt(r, g)).exts = Append(Last(r).exts, g)
    BY <1>1, <1>2, <1>7, WithExtIs
  <2>1. Append(Last(r).exts, e) = Append(Last(r).exts, g)
    BY <1>3, <2>3, <2>4
  <2>2. e = g
    BY <1>1, <1>4, <1>7, <2>1
  <2> QED
    BY <2>2, OnlyIs DEF e, g
<1>8. CASE e = NoExt /\ g = NoExt
  BY <1>8, OnlyIs DEF e, g
<1> QED
  BY <1>5, <1>6, <1>7, <1>8

(* Nor two of different folders. *)
LEMMA RenamedAcross ==
  ASSUME NamesApart, NEW i \in DOMAIN Nzbs, NEW c \in Presented(Nzbs[i]), NEW d \in Presented(Nzbs[i]),
         Renamed(i, c) = Renamed(i, d)
  PROVE  FolderOf(c) = FolderOf(d)
<1> DEFINE meta == MetaName(Nzbs[i])
<1>1. ASSUME NEW x \in Presented(Nzbs[i]), NEW y \in Presented(Nzbs[i]), Renamed(i, x) = Renamed(i, y)
      PROVE  ~(Len(x) < Len(y))
  <2> SUFFICES ASSUME Len(x) < Len(y) PROVE FALSE
    OBVIOUS
  <2> DEFINE r == Replacement(x, meta)
             s == Replacement(y, meta)
  <2>1. /\ Len(r) \in Nat \ {0} /\ Len(Renamed(i, x)) = Len(x) - 1 + Len(r)
        /\ \A k \in 1 .. Len(r) - 1 : Renamed(i, x)[Len(x) - 1 + k] = r[k]
    BY RenamedIs
  <2>2. /\ Len(s) \in Nat \ {0} /\ Len(Renamed(i, y)) = Len(y) - 1 + Len(s)
        /\ \A k \in 1 .. Len(y) - 1 : Renamed(i, y)[k] = y[k]
    BY RenamedIs
  <2>4. r = meta \/ Len(r) = 1
    BY ReplacementIs
  <2>5. Len(x) \in Nat \ {0} /\ Len(y) \in Nat \ {0}
    BY PathsAre
  <2> HIDE DEF r, s
  <2>6. Len(r) > 1
    <3>1. Len(x) - 1 + Len(r) = Len(y) - 1 + Len(s)
      BY <1>1, <2>1, <2>2
    <3>2. Len(r) \in Nat /\ Len(s) \in Nat \ {0}
      BY <2>1, <2>2
    <3> QED
      BY <2>5, <3>1, <3>2
  <2>7. r = meta
    <3>1. \A n \in Nat : n > 1 => n # 1
      OBVIOUS
    <3>2. Len(r) \in Nat
      BY <2>1
    <3>3. Len(r) # 1
      BY <2>6, <3>1, <3>2, Zenon
    <3> QED
      BY <2>4, <3>3, Zenon
  <2>3. Renamed(i, x)[Len(x)] = meta[1] /\ Renamed(i, y)[Len(x)] = y[Len(x)]
        /\ Len(x) \in 1 .. Len(y) - 1 /\ 1 \in 1 .. Len(meta) - 1
    BY <2>1, <2>2, <2>5, <2>6, <2>7
  <2> QED
    BY <1>1, <2>3, Above
<1>2. /\ Len(c) \in Nat /\ Len(d) \in Nat
      /\ FolderOf(c) \in Seq(Names) /\ Len(FolderOf(c)) = Len(c) - 1 /\ \A k \in 1 .. Len(c) - 1 : FolderOf(c)[k] = c[k]
      /\ FolderOf(d) \in Seq(Names) /\ Len(FolderOf(d)) = Len(d) - 1 /\ \A k \in 1 .. Len(d) - 1 : FolderOf(d)[k] = d[k]
  BY PathsAre
<1>3. /\ \A k \in 1 .. Len(c) - 1 : Renamed(i, c)[k] = c[k]
      /\ \A k \in 1 .. Len(d) - 1 : Renamed(i, d)[k] = d[k]
  BY RenamedIs
<1>4. ~(Len(c) < Len(d)) /\ ~(Len(d) < Len(c))
  BY <1>1
<1>5. Len(FolderOf(c)) = Len(FolderOf(d)) /\ \A k \in 1 .. Len(FolderOf(c)) : FolderOf(c)[k] = FolderOf(d)[k]
  BY <1>2, <1>3, <1>4
<1> QED
  BY <1>2, <1>5

(* deobfuscateFilename gives no two files one path. *)
LEMMA DeobsApart ==
  ASSUME NamesApart, NEW i \in DOMAIN Nzbs, NEW c \in Presented(Nzbs[i]), NEW d \in Presented(Nzbs[i]),
         Deob(i, c) = Deob(i, d)
  PROVE  c = d
<1>1. ASSUME NEW x
      PROVE  Deob(i, x) = x \/ (Deob(i, x) = Renamed(i, x) /\ OnlyOfItsExt(x, Presented(Nzbs[i])))
  BY DEF Deob, Deobfuscated, Renamed
<1>2. CASE Deob(i, c) = Renamed(i, c) /\ OnlyOfItsExt(c, Presented(Nzbs[i])) /\ Deob(i, d) = Renamed(i, d)
  BY <1>2, RenamedAcross, RenamedInFolder
<1>3. CASE Deob(i, c) = Renamed(i, c) /\ OnlyOfItsExt(c, Presented(Nzbs[i])) /\ Deob(i, d) = d
  BY <1>3, RenamedToNone
<1>4. CASE Deob(i, d) = Renamed(i, d) /\ OnlyOfItsExt(d, Presented(Nzbs[i])) /\ Deob(i, c) = c
  BY <1>4, RenamedToNone
<1> QED
  BY <1>1, <1>2, <1>3, <1>4

(* A name of a folder of the file, or of the MetaName. *)
Inherited(i, c, name) ==
  \/ \E j \in 1 .. Len(c) - 1 : name = c[j]
  \/ \E j \in 1 .. Len(MetaName(Nzbs[i])) - 1 : name = MetaName(Nzbs[i])[j]

(* Where a file is put: all names but the last are folders it had, or names of the
   MetaName, and the last is one it is given. *)
LEMMA DeobIs ==
  ASSUME NamesApart, NEW i \in DOMAIN Nzbs, NEW c \in Presented(Nzbs[i])
  PROVE  /\ Deob(i, c) \in Seq(Names) /\ Len(Deob(i, c)) \in Nat \ {0}
         /\ Last(Deob(i, c)) \in GivenNames(Nzbs[i], c)
         /\ \A k \in 1 .. Len(Deob(i, c)) - 1 : Inherited(i, c, Deob(i, c)[k])
<1> DEFINE meta == MetaName(Nzbs[i])
           r    == Replacement(c, meta)
<1>1. Deob(i, c) = c \/ Deob(i, c) = Renamed(i, c)
  BY DEF Deob, Deobfuscated, Renamed
<1>2. c \in Seq(Names) /\ Len(c) \in Nat \ {0}
  BY PathsAre
<1>3. CASE Deob(i, c) = c
  BY <1>2, <1>3 DEF GivenNames, Inherited
<1>4. CASE Deob(i, c) = Renamed(i, c)
  <2>1. /\ Renamed(i, c) \in Seq(Names) /\ Len(r) \in Nat \ {0} /\ Len(Renamed(i, c)) = Len(c) - 1 + Len(r)
        /\ \A k \in 1 .. Len(c) - 1 : Renamed(i, c)[k] = c[k]
        /\ \A k \in 1 .. Len(r) - 1 : Renamed(i, c)[Len(c) - 1 + k] = r[k]
        /\ Last(Renamed(i, c)) = Last(WithExt(r, Ext(Last(c))))
    BY RenamedIs
  <2>2. Last(Renamed(i, c)) \in GivenNames(Nzbs[i], c)
    BY <2>1 DEF GivenNames
  <2>3. r = meta \/ Len(r) = 1
    BY ReplacementIs
  <2> HIDE DEF r
  <2>5. Len(Renamed(i, c)) \in Nat \ {0}
    BY <1>2, <2>1
  <2>4. ASSUME NEW k \in 1 .. Len(Renamed(i, c)) - 1
        PROVE  Inherited(i, c, Renamed(i, c)[k])
    <3>1. CASE k <= Len(c) - 1
      <4>1. k \in 1 .. Len(c) - 1
        BY <1>2, <2>5, <3>1
      <4> QED
        BY <2>1, <4>1 DEF Inherited
    <3>2. CASE ~(k <= Len(c) - 1)
      <4>1. k - (Len(c) - 1) \in 1 .. Len(r) - 1 /\ k = Len(c) - 1 + (k - (Len(c) - 1))
        BY <1>2, <2>1, <3>2
      <4>2. Renamed(i, c)[k] = r[k - (Len(c) - 1)]
        BY <2>1, <4>1
      <4>3. Len(r) # 1
        <5>1. \A n \in Nat : 1 .. n - 1 # {} => n # 1
          OBVIOUS
        <5> QED
          BY <2>1, <4>1, <5>1, Zenon
      <4> QED
        BY <2>3, <4>1, <4>2, <4>3 DEF Inherited
    <3> QED
      BY <3>1, <3>2
  <2> QED
    BY <1>4, <2>1, <2>2, <2>4, <2>5
<1> QED
  BY <1>1, <1>3, <1>4

(* flattenPath takes folders from its left, *)
LEMMA PlaceIs ==
  ASSUME NamesApart, NEW i \in DOMAIN Nzbs, NEW c \in Presented(Nzbs[i])
  PROVE  \E m \in 0 .. Len(Deob(i, c)) - 1 :
           /\ Removable(Deob(i, c), Presented(Nzbs[i])) = {} => Place(Nzbs[i], c) = Deob(i, c)
           /\ Place(Nzbs[i], c) \in Seq(Names) /\ Len(Place(Nzbs[i], c)) = Len(Deob(i, c)) - m
           /\ \A k \in 1 .. Len(Deob(i, c)) - m : Place(Nzbs[i], c)[k] = Deob(i, c)[m + k]
<1> DEFINE path  == Deob(i, c)
           cut   == Removable(path, Presented(Nzbs[i]))
           place == Place(Nzbs[i], c)
<1>1. path \in Seq(Names) /\ Len(path) \in Nat \ {0}
  BY DeobIs
<1>2. place = IF cut = {} THEN path ELSE SubSeq(path, 1 + CHOOSE k \in cut : \A j \in cut : j <= k, Len(path))
  BY DEF Place, Flattened, Deob
<1>3. cut \subseteq 1 .. Len(path) - 1
  BY DEF Removable
<1> HIDE DEF path, cut, place
<1>4. CASE cut = {}
  <2>1. 0 \in 0 .. Len(path) - 1 /\ place = path
    BY <1>1, <1>2, <1>4
  <2>2. place \in Seq(Names) /\ Len(place) = Len(path) - 0 /\ \A k \in 1 .. Len(path) - 0 : place[k] = path[0 + k]
    BY <1>1, <2>1
  <2> QED
    BY <1>4, <2>1, <2>2 DEF path, cut, place
<1>5. CASE cut # {}
  <2> DEFINE m == CHOOSE k \in cut : \A j \in cut : j <= k
  <2>4. \E k \in cut : \A j \in cut : j <= k
    <3>1. Len(path) - 1 \in Nat /\ cut \in SUBSET (1 .. Len(path) - 1)
      BY <1>1, <1>3
    <3>2. Max(cut) \in cut /\ \A j \in cut : Max(cut) >= j
      BY <1>5, <3>1, MaxIs
    <3>3. \A j \in cut : j <= Max(cut)
      BY <1>3, <3>2
    <3> QED
      BY <3>2, <3>3
  <2>1. m \in cut
    BY <2>4
  <2>5. place = SubSeq(path, 1 + m, Len(path))
    BY <1>2, <1>5
  <2> HIDE DEF m
  <2>2. m \in 0 .. Len(path) - 1 /\ m \in Nat /\ m < Len(path) /\ place = SubSeq(path, 1 + m, Len(path))
    BY <1>1, <1>3, <2>1, <2>5
  <2>3. ASSUME NEW S, NEW s \in Seq(S), NEW n \in Nat, n < Len(s)
        PROVE  /\ SubSeq(s, 1 + n, Len(s)) \in Seq(S) /\ Len(SubSeq(s, 1 + n, Len(s))) = Len(s) - n
               /\ \A k \in 1 .. Len(s) - n : SubSeq(s, 1 + n, Len(s))[k] = s[n + k]
    BY <2>3
  <2> QED
    BY <1>1, <1>5, <2>2, <2>3 DEF path, cut, place
<1> QED
  BY <1>4, <1>5

(* so that a place goes on with names that are known, *)
LEMMA PlaceNames ==
  ASSUME NamesApart, NEW i \in DOMAIN Nzbs, NEW c \in Presented(Nzbs[i]), NEW place, place = Place(Nzbs[i], c)
  PROVE  /\ place \in Seq(Names) /\ Len(place) \in Nat \ {0}
         /\ \A k \in 1 .. Len(place) : place[k] \in NamesIn(Nzbs[i], c)
         /\ place[Len(place)] \in GivenNames(Nzbs[i], c)
         /\ \A k \in 1 .. Len(place) - 1 : Inherited(i, c, place[k])
<1> DEFINE path == Deob(i, c)
           meta == MetaName(Nzbs[i])
<1>1. /\ path \in Seq(Names) /\ Len(path) \in Nat \ {0} /\ Last(path) \in GivenNames(Nzbs[i], c)
      /\ \A k \in 1 .. Len(path) - 1 : Inherited(i, c, path[k])
  BY DeobIs
<1>2. PICK m \in 0 .. Len(path) - 1 :
        place \in Seq(Names) /\ Len(place) = Len(path) - m /\ \A k \in 1 .. Len(path) - m : place[k] = path[m + k]
  BY PlaceIs
<1> HIDE DEF path
<1>7. Len(path) \in Nat \ {0} /\ m \in Nat /\ m < Len(path)
      /\ Len(path) - m \in 1 .. Len(path) - m /\ m + (Len(path) - m) = Len(path)
  BY <1>1
<1>3. Len(place) \in Nat \ {0} /\ place[Len(place)] = path[Len(path)]
  <2>1. place[Len(path) - m] = path[m + (Len(path) - m)]
    BY <1>2, <1>7
  <2> QED
    BY <1>2, <1>7, <2>1
<1>4. place[Len(place)] \in GivenNames(Nzbs[i], c)
  BY <1>1, <1>3 DEF Last
<1>5. ASSUME NEW k \in 1 .. Len(place) - 1
      PROVE  Inherited(i, c, place[k])
  <2>2. k \in 1 .. Len(path) - m - 1
    BY <1>2
  <2>3. m + k \in 1 .. Len(path) - 1 /\ k \in 1 .. Len(path) - m
    BY <1>7, <2>2
  <2>1. m + k \in 1 .. Len(path) - 1 /\ place[k] = path[m + k]
    BY <1>2, <2>3
  <2> QED
    BY <1>1, <2>1
<1>6. ASSUME NEW k \in 1 .. Len(place) PROVE place[k] \in NamesIn(Nzbs[i], c)
  <2>1. meta \in Seq(Names) /\ meta # << >> /\ c \in Seq(Names) /\ c # << >>
    BY PathsAre
  <2>2. ASSUME NEW s \in Seq(Names), s # << >>, NEW j \in 1 .. Len(s) - 1 PROVE s[j] \in ToSet(Front(s))
    <3>1. Front(s)[j] = s[j] /\ j \in DOMAIN Front(s)
      BY <2>2, FrontOf
    <3> QED
      BY <3>1 DEF ToSet
  <2>3. CASE k = Len(place)
    BY <1>4, <2>3 DEF NamesIn
  <2>4. CASE k # Len(place)
    <3>1. k \in 1 .. Len(place) - 1
      BY <1>3, <2>4
    <3>2. place[k] \in ToSet(FolderOf(c)) \/ place[k] \in ToSet(Front(meta))
      BY <1>5, <2>1, <2>2, <3>1 DEF FolderOf, Inherited
    <3> QED
      BY <3>2 DEF NamesIn
  <2> QED
    BY <2>3, <2>4
<1> QED
  BY <1>2, <1>3, <1>4, <1>5, <1>6

(* as its own path does, *)
LEMMA OwnNames ==
  ASSUME NamesApart, NEW i \in DOMAIN Nzbs, NEW c \in Presented(Nzbs[i])
  PROVE  c \in Seq(Names) /\ \A k \in 1 .. Len(c) : c[k] \in NamesIn(Nzbs[i], c)
<1>1. c \in Seq(Names) /\ c # << >> /\ Len(c) \in Nat \ {0}
  BY PathsAre
<1>2. ASSUME NEW k \in 1 .. Len(c) PROVE c[k] \in NamesIn(Nzbs[i], c)
  <2>1. CASE k = Len(c)
    BY <2>1 DEF NamesIn, GivenNames, Last
  <2>2. CASE k # Len(c)
    <3>1. k \in 1 .. Len(c) - 1
      BY <1>1, <2>2
    <3>2. FolderOf(c)[k] = c[k] /\ k \in DOMAIN FolderOf(c)
      BY <1>1, <3>1, FrontOf DEF FolderOf
    <3> QED
      BY <3>2 DEF NamesIn, ToSet
  <2> QED
    BY <2>1, <2>2
<1> QED
  BY <1>1, <1>2

(* and what is above another one is that of the only volume of the archive the other one
   is in. *)
LEMMA PlacesBelow ==
  ASSUME NamesApart, NEW i \in DOMAIN Nzbs, NEW c \in Presented(Nzbs[i]), NEW d \in Presented(Nzbs[i]),
         NEW p, p = Place(Nzbs[i], c), NEW q, q = Place(Nzbs[i], d), Len(p) < Len(q), p[Len(p)] = q[Len(p)]
  PROVE  Raw(c) /\ ~Raw(d) /\ c[1] = d[1]
<1>1. Len(p) \in Nat \ {0} /\ p[Len(p)] \in GivenNames(Nzbs[i], c)
  BY PlaceNames
<1>7. Len(q) \in Nat \ {0}
  BY PlaceNames
<1>2. \A k \in 1 .. Len(q) - 1 : Inherited(i, d, q[k])
  BY PlaceNames
<1>3. Len(p) \in 1 .. Len(q) - 1
  BY <1>1, <1>7
<1>4. PICK j \in 1 .. Len(d) - 1 : q[Len(p)] = d[j]
  BY <1>1, <1>2, <1>3, Above DEF Inherited
<1>5. j = 1 /\ c = <<d[1]>>
  BY <1>1, <1>4 DEF NamesApart
<1>6. Len(d) \in Nat /\ Len(d) > 1
  BY <1>4, PathsAre
<1> QED
  <2>1. Len(c) = 1 /\ c[1] = d[1]
    BY <1>5
  <2>2. Len(d) # 1
    <3>1. \A n \in Nat : n > 1 => n # 1
      OBVIOUS
    <3> QED
      BY <1>6, <3>1, Zenon
  <2> QED
    BY <2>1, <2>2 DEF Raw

(* Two paths that are spelled as one are one. *)
LEMMA SpelledApart ==
  ASSUME NamesApart, NEW i \in DOMAIN Nzbs, NEW c \in Presented(Nzbs[i]), NEW d \in Presented(Nzbs[i]),
         NEW p \in Seq(Names), \A k \in 1 .. Len(p) : p[k] \in NamesIn(Nzbs[i], c),
         NEW q \in Seq(Names), \A k \in 1 .. Len(q) : q[k] \in NamesIn(Nzbs[i], d)
  PROVE  /\ Spelled(p) = Spelled(q) => p = q
         /\ \A k \in 1 .. Len(p) : k <= Len(q) /\ Spelled(p)[k] = Spelled(q)[k] => p[k] = q[k]
         /\ DOMAIN Spelled(p) = 1 .. Len(p)
<1>1. \A n \in NamesIn(Nzbs[i], c), m \in NamesIn(Nzbs[i], d) : Spelling(n) = Spelling(m) => n = m
  BY DEF NamesApart
<1>2. DOMAIN p = 1 .. Len(p) /\ DOMAIN q = 1 .. Len(q) /\ Len(p) \in Nat /\ Len(q) \in Nat
  OBVIOUS
<1>3. /\ DOMAIN Spelled(p) = 1 .. Len(p) /\ \A k \in 1 .. Len(p) : Spelled(p)[k] = Spelling(p[k])
      /\ DOMAIN Spelled(q) = 1 .. Len(q) /\ \A k \in 1 .. Len(q) : Spelled(q)[k] = Spelling(q[k])
  BY <1>2 DEF Spelled
<1>4. ASSUME NEW k \in 1 .. Len(p), k <= Len(q), Spelled(p)[k] = Spelled(q)[k]
      PROVE  p[k] = q[k]
  <2>1. k \in 1 .. Len(q)
    BY <1>2, <1>4
  <2>2. Spelling(p[k]) = Spelling(q[k])
    BY <1>3, <1>4, <2>1
  <2> QED
    BY <1>1, <2>1, <2>2
<1>5. ASSUME Spelled(p) = Spelled(q) PROVE p = q
  <2>1. Len(p) = Len(q)
    <3>1. 1 .. Len(p) = 1 .. Len(q)
      BY <1>3, <1>5
    <3>2. \A a, b \in Nat : 1 .. a = 1 .. b => a = b
      OBVIOUS
    <3> QED
      BY <1>2, <3>1, <3>2
  <2>2. \A k \in 1 .. Len(p) : p[k] = q[k]
    BY <1>2, <1>4, <1>5, <2>1
  <2> QED
    BY <2>1, <2>2
<1> QED
  BY <1>3, <1>4, <1>5

-----------------------------------------------------------------------------
(* The tree of webdav has what was added, or what is in the way of it. *)

Held(p) ==
  \E f \in Files : \E c \in DOMAIN nzb[f].places :
    webdav[p] = <<f, c>> /\ Added(f, c) /\ FullPath(f, c) = p

(* What is in the tree was added, and all that was added is there, or a folder is. *)
HeldInv ==
  /\ \A p \in FilesOf(webdav) : Held(p)
  /\ \A f \in Files : \A c \in DOMAIN nzb[f].places : Added(f, c) => FullPath(f, c) \in DOMAIN webdav

(* The trees are empty when the server starts. *)
LEMMA HeldInit == LibInit => HeldInv
BY DEF LibInit, HeldInv, FilesOf, EmptyTree, Added

(* addFile adds to the tree, or keeps what was there. *)
LEMMA HeldPublish ==
  ASSUME LibInv, ServiceInv, HeldInv, NEW f \in Files, NEW c \in todo, Publish(f, c)
  PROVE  HeldInv'
<1> DEFINE path == FullPath(f, c)
           file == <<f, c>>
<1>1. /\ UNCHANGED <<nzb, registered, mutex>> /\ todo' = todo \ {c} /\ mutex = f
      /\ f \in registered /\ c \in DOMAIN nzb[f].places
      /\ nzbFiles'[f] # << >> /\ \A g \in Files : g # f => nzbFiles'[g] = nzbFiles[g]
      /\ nzbFiles[f] = << >> => todo = DOMAIN nzb[f].places
  BY TrackedGrows DEF Publish, watchVars, ServiceInv, Serves
<1>2. ASSUME NEW g \in Files, NEW d \in DOMAIN nzb[g].places
      PROVE  Added(g, d)' <=> Added(g, d) \/ <<g, d>> = file
  BY <1>1 DEF Added
<1>3. \A g \in Files : \A d \in DOMAIN nzb[g].places : FullPath(g, d)' = FullPath(g, d)
  BY <1>1 DEF FullPath
<1>4. /\ \A p \in FilesOf(webdav') : (p \in FilesOf(webdav) /\ webdav'[p] = webdav[p]) \/ (p = path /\ webdav'[p] = file)
      /\ DOMAIN webdav \cup {path} \subseteq DOMAIN webdav'
  <2>1. webdav' = WebdavAdd(webdav, path, file)
    BY DEF Publish
  <2> QED
    BY <2>1 DEF WebdavAdd, Exists, With, FilesOf
<1>5. path = FullPath(f, c) /\ file = <<f, c>>
  OBVIOUS
<1> HIDE DEF path, file
<1>6. ASSUME NEW p \in FilesOf(webdav') PROVE Held(p)'
  <2>1. CASE p \in FilesOf(webdav) /\ webdav'[p] = webdav[p]
    BY <1>1, <1>2, <1>3, <2>1 DEF HeldInv, Held
  <2>2. CASE p = path /\ webdav'[p] = file
    BY <1>1, <1>2, <1>3, <1>5, <2>2 DEF Held
  <2> QED
    BY <1>4, <2>1, <2>2
<1>7. ASSUME NEW g \in Files, NEW d \in DOMAIN nzb[g].places, Added(g, d)'
      PROVE  FullPath(g, d) \in DOMAIN webdav'
  BY <1>2, <1>4, <1>5, <1>7 DEF HeldInv
<1> QED
  BY <1>1, <1>3, <1>6, <1>7 DEF HeldInv

(* What another nzb has added is apart from what RemoveNzb takes; a folder stays that
   has a file of its own. *)
LEMMA HeldRemove ==
  ASSUME LibInv, ServiceInv, TreesInv, HeldInv, NzbsApart, NEW f \in Files, RemoveNzb(f)
  PROVE  HeldInv'
<1>1. /\ registered' = registered \ {f} /\ UNCHANGED <<nzb, pc, mutex, todo>> /\ f \in registered
      /\ \A g \in Files : g # f => nzbFiles'[g] = nzbFiles[g]
  BY TrackedShrinks DEF RemoveNzb
<1>2. nzbFiles[f] \in Seq(Path) /\ \A i \in 1 .. Len(nzbFiles[f]) : nzbFiles[f][i] \in Tracked(f)
  BY DEF ServiceInv, Tracked
<1>3. TakenFirst(webdav, nzbFiles[f], Len(nzbFiles[f]), webdav')
  <2>1. webdav' = AllFromWebdav(webdav, nzbFiles[f])
    BY DEF RemoveNzb, AllFromWebdav
  <2> QED
    BY <1>2, <2>1, FoldsTake DEF TreesInv, Shelf
<1>4. ASSUME NEW g \in Files, NEW d \in DOMAIN nzb[g].places
      PROVE  /\ FullPath(g, d)' = FullPath(g, d)
             /\ Added(g, d)' <=> Added(g, d) /\ g # f
  BY <1>1 DEF FullPath, Added
<1>5. ASSUME NEW p \in FilesOf(webdav), NEW g \in registered \ {f}, NEW d \in DOMAIN nzb[g].places, p = FullPath(g, d)
      PROVE  p \in FilesOf(webdav')
  <2>1. Tracked(f) \subseteq Own(f)
    BY DEF ServiceInv, Serves
  <2>2. \A q \in Tracked(f) : Apart(p, q)
    BY <1>1, <1>5, <2>1, AlonePath DEF Own
  <2> QED
    BY <1>2, <1>3, <2>2 DEF TakenFirst
<1>6. ASSUME NEW p \in FilesOf(webdav') PROVE Held(p)'
  <2>1. p \in FilesOf(webdav) /\ webdav'[p] = webdav[p] /\ p \in DOMAIN webdav'
    BY <1>3 DEF TakenFirst, FilesOf
  <2>2. PICK g \in Files : \E d \in DOMAIN nzb[g].places : webdav[p] = <<g, d>> /\ Added(g, d) /\ FullPath(g, d) = p
    BY <2>1 DEF HeldInv, Held
  <2>4. PICK d \in DOMAIN nzb[g].places : webdav[p] = <<g, d>> /\ Added(g, d) /\ FullPath(g, d) = p
    BY <2>2
  <2>3. g # f
    <3> SUFFICES ASSUME g = f PROVE FALSE
      OBVIOUS
    <3>1. Tidy(webdav') /\ FilesOf(webdav') \subseteq UNION {Tracked(h) : h \in registered \ {f}}
      <4>1. TreesInv'
        BY TreesStep DEF LibNext
      <4>2. AllTracked' = UNION {Tracked(h)' : h \in registered'}
        BY DEF AllTracked
      <4>3. \A h \in registered \ {f} : Tracked(h)' = Tracked(h)
        BY <1>1 DEF Tracked, LibInv
      <4> QED
        BY <1>1, <4>1, <4>2, <4>3 DEF TreesInv, Shelf
    <3>2. PICK h \in registered \ {f} : p \in Tracked(h)
      BY <3>1
    <3>3. PICK e \in DOMAIN nzb[h].places : p = FullPath(h, e)
      BY <3>2 DEF ServiceInv, Serves, Own, LibInv
    <3>4. Apart(p, p)
      BY <1>1, <2>4, <3>2, <3>3, AlonePath
    <3> QED
      BY <3>4 DEF Apart
  <2> QED
    BY <1>1, <1>4, <2>1, <2>4, <2>3 DEF Held
<1>7. ASSUME NEW g \in Files, NEW d \in DOMAIN nzb[g].places, Added(g, d)'
      PROVE  FullPath(g, d) \in DOMAIN webdav'
  <2> DEFINE p == FullPath(g, d)
  <2>1. Added(g, d) /\ g \in registered \ {f}
    BY <1>4, <1>7 DEF Added
  <2>2. p \in DOMAIN webdav
    BY <2>1 DEF HeldInv
  <2>3. CASE p \in FilesOf(webdav)
    <3>1. p \in FilesOf(webdav')
      BY <1>5, <2>1, <2>3
    <3> QED
      BY <3>1 DEF FilesOf
  <2>4. CASE p \notin FilesOf(webdav)
    <3>1. PICK q \in FilesOf(webdav) : IsStrictPrefix(p, q)
      BY <2>2, <2>4 DEF FilesOf, TreesInv, Shelf, Tidy, HoldsFile
    <3>7. PICK h \in Files : \E e \in DOMAIN nzb[h].places : webdav[q] = <<h, e>> /\ Added(h, e) /\ FullPath(h, e) = q
      BY DEF HeldInv, Held
    <3>2. PICK e \in DOMAIN nzb[h].places : webdav[q] = <<h, e>> /\ Added(h, e) /\ FullPath(h, e) = q
      BY <3>7
    <3>3. h \in registered \ {f}
      <4>1. h \in registered
        BY <3>2 DEF Added
      <4>2. h = f => Apart(p, q)
        BY <1>1, <2>1, <3>2, AlonePath
      <4> QED
        BY <3>1, <4>1, <4>2 DEF Apart
    <3>4. q \in FilesOf(webdav')
      BY <1>5, <3>2, <3>3
    <3>5. q \in DOMAIN webdav' /\ q \in Path /\ Folders(q) \subseteq DOMAIN webdav'
      BY <1>3, <3>4 DEF TakenFirst, Tidy, Shape, FilesOf
    <3>6. p \in Path
      BY <2>2 DEF TreesInv, Shelf, Tidy, Shape
    <3> QED
      BY <3>1, <3>5, <3>6, FoldersAre
  <2> QED
    BY <2>3, <2>4
<1> QED
  BY <1>1, <1>4, <1>6, <1>7 DEF HeldInv

(* Nothing but Publish and RemoveNzb changes the tree or what was added. *)
LEMMA HeldStep ==
  ASSUME LibInv, ServiceInv, TreesInv, HeldInv, NzbsApart, [LibNext]_libVars
  PROVE  HeldInv'
<1>1. CASE \E f \in Files : RemoveNzb(f) \/ \E c \in todo : Publish(f, c)
  BY <1>1, HeldPublish, HeldRemove
<1>2. CASE ~(\E f \in Files : RemoveNzb(f) \/ \E c \in todo : Publish(f, c))
  <2>1. UNCHANGED webdav
    BY <1>2, TrackedStays
  <2>2. nzb' = nzb /\ \A f \in Files : \A c \in DOMAIN nzb[f].places : Added(f, c)' <=> Added(f, c)
    BY <1>2, AddedStays
  <2>3. \A f \in Files : \A c \in DOMAIN nzb[f].places : FullPath(f, c)' = FullPath(f, c)
    BY <2>2 DEF FullPath
  <2>4. \A p \in FilesOf(webdav') : Held(p)'
    BY <2>1, <2>2, <2>3 DEF HeldInv, Held
  <2>5. ASSUME NEW f \in Files, NEW c \in DOMAIN nzb[f].places, Added(f, c)'
        PROVE  FullPath(f, c)' \in DOMAIN webdav'
    BY <2>1, <2>2, <2>3, <2>5 DEF HeldInv
  <2> QED
    BY <2>2, <2>4, <2>5 DEF HeldInv
<1> QED
  BY <1>1, <1>2

(* The places of an nzb, by the paths of its files. *)
LEMMA PlacesAre ==
  ASSUME NamesApart, NEW i \in DOMAIN Nzbs
  PROVE  /\ Outcome(i).id = i
         /\ \A c \in Presented(Nzbs[i]) :
              /\ Spelled(c) \in DOMAIN Outcome(i).places
              /\ Outcome(i).places[Spelled(c)] = Spelled(Place(Nzbs[i], c))
         /\ \A s \in DOMAIN Outcome(i).places : \E c \in Presented(Nzbs[i]) : s = Spelled(c)
<1> DEFINE paths  == Presented(Nzbs[i])
           places == [s \in {Spelled(c) : c \in paths} |-> Spelled(Place(Nzbs[i], CHOOSE c \in paths : Spelled(c) = s))]
<1>1. Outcome(i).places = places /\ Outcome(i).id = i
  BY DEF Outcome, Given
<1>2. ASSUME NEW c \in paths, NEW d \in paths, Spelled(c) = Spelled(d) PROVE c = d
  <2>1. /\ c \in Seq(Names) /\ \A k \in 1 .. Len(c) : c[k] \in NamesIn(Nzbs[i], c)
        /\ d \in Seq(Names) /\ \A k \in 1 .. Len(d) : d[k] \in NamesIn(Nzbs[i], d)
    BY OwnNames
  <2> QED
    BY <1>2, <2>1, SpelledApart
<1>3. ASSUME NEW c \in paths PROVE places[Spelled(c)] = Spelled(Place(Nzbs[i], c))
  <2> DEFINE d == CHOOSE e \in paths : Spelled(e) = Spelled(c)
  <2>1. d \in paths /\ Spelled(d) = Spelled(c)
    OBVIOUS
  <2>2. d = c
    BY <1>2, <2>1
  <2>3. places[Spelled(c)] = Spelled(Place(Nzbs[i], d))
    OBVIOUS
  <2> QED
    BY <2>2, <2>3
<1> QED
  BY <1>1, <1>3

-----------------------------------------------------------------------------
(* The place of a file, as the nzb that was parsed has it. *)
LEMMA PathOfIs ==
  ASSUME NamesApart, ServiceInv, NEW f \in Files, NEW i, i = nzb[f].id, NEW c \in Presented(Nzbs[i])
  PROVE  /\ i \in DOMAIN Nzbs /\ Spelled(c) \in DOMAIN nzb[f].places
         /\ PathOf(f, c) = Spelled(Place(Nzbs[i], c))
         /\ PathOf(f, c) \in Seq(STRING) /\ nzb[f].name \in Seq(STRING)
         /\ FullPath(f, Spelled(c)) = nzb[f].name \o PathOf(f, c)
<1>1. PICK j \in DOMAIN Nzbs : nzb[f] = Outcome(j)
  BY DEF ServiceInv
<1>2. j = i
  BY <1>1, PlacesAre
<1>3. Spelled(c) \in DOMAIN nzb[f].places /\ nzb[f].places[Spelled(c)] = Spelled(Place(Nzbs[i], c))
  BY <1>1, <1>2, PlacesAre
<1>4. nzb[f].places[Spelled(c)] \in Seq(STRING) /\ nzb[f].name \in Seq(STRING)
  BY <1>1, <1>3, OutcomeAssumption
<1> QED
  BY <1>1, <1>2, <1>3, <1>4 DEF PathOf, FullPath

(* flattenPath leaves a file where it was unless it takes it out of folders. *)
LEMMA NotTakenOut ==
  ASSUME NamesApart, NEW f, NEW i \in DOMAIN Nzbs, i = nzb[f].id, NEW c \in Presented(Nzbs[i]), ~TakenOut(f, c)
  PROVE  Place(Nzbs[i], c) = Deob(i, c)
<1>1. Removable(Deob(i, c), Presented(Nzbs[i])) = {}
  BY DEF TakenOut, Deob
<1> QED
  BY <1>1, PlaceIs

(* Two files of an nzb that are at one path, or one below the other, are in the way of
   each other as KeptApart has it. *)
LEMMA ClashIs ==
  ASSUME NamesApart, ServiceInv, NEW f \in Files, NEW i, i = nzb[f].id,
         NEW c \in Presented(Nzbs[i]), NEW d \in Presented(Nzbs[i]), c # d
  PROVE  /\ FullPath(f, Spelled(c)) = FullPath(f, Spelled(d)) => InTheWay(f, c, d)
         /\ IsStrictPrefix(FullPath(f, Spelled(c)), FullPath(f, Spelled(d))) => InTheWay(f, c, d)
<1> DEFINE p == Place(Nzbs[i], c)
           q == Place(Nzbs[i], d)
           n == nzb[f].name
           x == PathOf(f, c)
           y == PathOf(f, d)
<1>1. i \in DOMAIN Nzbs
  BY PathOfIs
<1>2. /\ x = Spelled(p) /\ x \in Seq(STRING) /\ n \in Seq(STRING) /\ FullPath(f, Spelled(c)) = n \o x
      /\ y = Spelled(q) /\ y \in Seq(STRING) /\ FullPath(f, Spelled(d)) = n \o y
  BY PathOfIs
<1>3. /\ p \in Seq(Names) /\ Len(p) \in Nat \ {0} /\ \A k \in 1 .. Len(p) : p[k] \in NamesIn(Nzbs[i], c)
      /\ q \in Seq(Names) /\ Len(q) \in Nat \ {0} /\ \A k \in 1 .. Len(q) : q[k] \in NamesIn(Nzbs[i], d)
  BY <1>1, PlaceNames
<1>4. /\ Spelled(p) = Spelled(q) => p = q
      /\ \A k \in 1 .. Len(p) : k <= Len(q) /\ Spelled(p)[k] = Spelled(q)[k] => p[k] = q[k]
      /\ DOMAIN Spelled(p) = 1 .. Len(p)
  <2> HIDE DEF p, q, n, x, y
  <2> QED
    BY <1>1, <1>3, SpelledApart, SMTT(30)
<1>5. DOMAIN Spelled(q) = 1 .. Len(q)
  <2> HIDE DEF p, q, n, x, y
  <2>1. DOMAIN Spelled(q) = DOMAIN q
    BY DEF Spelled
  <2>2. DOMAIN q = 1 .. Len(q)
    BY <1>3
  <2> QED
    BY <2>1, <2>2
<1>6. /\ Len(n \o x) = Len(n) + Len(x) /\ \A k \in 1 .. Len(x) : (n \o x)[Len(n) + k] = x[k]
      /\ Len(n \o y) = Len(n) + Len(y) /\ \A k \in 1 .. Len(y) : (n \o y)[Len(n) + k] = y[k]
      /\ n \o x \in Seq(STRING) /\ n \o y \in Seq(STRING)
  <2> HIDE DEF p, q, n, x, y
  <2>1. /\ Len(n \o x) = Len(n) + Len(x) /\ \A k \in 1 .. Len(x) : (n \o x)[Len(n) + k] = x[k]
        /\ n \o x \in Seq(STRING)
    BY <1>2, JoinOf
  <2>2. /\ Len(n \o y) = Len(n) + Len(y) /\ \A k \in 1 .. Len(y) : (n \o y)[Len(n) + k] = y[k]
        /\ n \o y \in Seq(STRING)
    BY <1>2, JoinOf
  <2> QED
    BY <2>1, <2>2
<1>7. Len(x) = Len(p) /\ Len(y) = Len(q) /\ Len(n) \in Nat
  <2>1. DOMAIN x = 1 .. Len(p) /\ DOMAIN y = 1 .. Len(q)
    BY <1>2, <1>4, <1>5
  <2> HIDE DEF p, q, n, x, y
  <2> QED
    BY <2>1, <1>2, <1>3
<1>8. ASSUME x = y PROVE InTheWay(f, c, d)
  <2>1. p = q
    BY <1>2, <1>4, <1>8
  <2>2. TakenOut(f, c) \/ TakenOut(f, d)
    <3> SUFFICES ASSUME ~TakenOut(f, c), ~TakenOut(f, d) PROVE FALSE
      OBVIOUS
    <3>1. p = Deob(i, c) /\ q = Deob(i, d)
      BY <1>1, NotTakenOut
    <3> QED
      BY <1>1, <2>1, <3>1, DeobsApart
  <2> QED
    BY <1>8, <2>2 DEF InTheWay
<1>9. ASSUME Len(x) < Len(y), \A k \in 1 .. Len(x) : x[k] = y[k] PROVE InTheWay(f, c, d)
  <2>1. IsStrictPrefix(x, y)
    BY <1>2, <1>9, PrefixIs
  <2>2. Len(p) \in 1 .. Len(p) /\ Len(p) < Len(q) /\ Len(p) <= Len(q)
    BY <1>3, <1>7, <1>9
  <2>3. p[Len(p)] = q[Len(p)]
    BY <1>2, <1>4, <1>7, <1>9, <2>2
  <2>4. Raw(c) /\ ~Raw(d) /\ c[1] = d[1]
    BY <1>1, <2>2, <2>3, PlacesBelow
  <2> QED
    BY <2>1, <2>4 DEF InTheWay
<1> HIDE DEF p, q, n, x, y
<1>10. \A k \in 1 .. Len(x) : Len(n) + k \in 1 .. Len(n \o x) /\ (k \in 1 .. Len(y) => Len(n) + k \in 1 .. Len(n \o y))
  BY <1>2, <1>6, <1>7
<1>11. ASSUME n \o x = n \o y PROVE x = y
  <2>1. Len(x) = Len(y)
    BY <1>2, <1>6, <1>7, <1>11
  <2>2. \A k \in 1 .. Len(x) : x[k] = y[k]
    BY <1>6, <1>11, <2>1
  <2> QED
    BY <1>2, <2>1, <2>2
<1>12. ASSUME IsStrictPrefix(n \o x, n \o y)
       PROVE  Len(x) < Len(y) /\ \A k \in 1 .. Len(x) : x[k] = y[k]
  <2>1. Len(n \o x) < Len(n \o y) /\ \A k \in 1 .. Len(n \o x) : (n \o x)[k] = (n \o y)[k]
    BY <1>6, <1>12, PrefixIs
  <2>2. Len(x) < Len(y)
    BY <1>2, <1>6, <1>7, <2>1
  <2>3. ASSUME NEW k \in 1 .. Len(x) PROVE x[k] = y[k]
    <3>1. k \in 1 .. Len(y) /\ Len(n) + k \in 1 .. Len(n \o x)
      BY <1>2, <1>10, <2>2
    <3> QED
      BY <1>6, <2>1, <3>1
  <2> QED
    BY <2>2, <2>3
<1> QED
  BY <1>2, <1>8, <1>9, <1>11, <1>12

(* At the path of a file that was added is a file, or a folder with a file below it: of
   the same nzb, for the nzbs are apart. *)
LEMMA KeptIs ==
  ASSUME LibInv, ServiceInv, TreesInv, HeldInv, NzbsApart, NamesApart
  PROVE  KeptApart
<1> SUFFICES ASSUME NEW f \in registered, At(f, "done"), nzbFiles[f] # << >>, NEW i, i = nzb[f].id,
                    NEW c \in Presented(Nzbs[i])
             PROVE  Shown(f, c) \/ \E d \in Presented(Nzbs[i]) \ {c} : InTheWay(f, c, d) /\ Shown(f, d)
  BY DEF KeptApart
<1> DEFINE path == FullPath(f, Spelled(c))
<1>1. f \in Files /\ mutex # f
  BY DEF LibInv, ServiceInv, Serves, At
<1>2. Spelled(c) \in DOMAIN nzb[f].places /\ i \in DOMAIN Nzbs
  BY <1>1, PathOfIs
<1>3. Added(f, Spelled(c)) /\ path \in DOMAIN webdav
  BY <1>1, <1>2 DEF Added, HeldInv
<1>4. ASSUME NEW q \in FilesOf(webdav), ~Apart(path, q)
      PROVE  \E d \in Presented(Nzbs[i]) : q = FullPath(f, Spelled(d)) /\ Shown(f, d)
  <2>1. PICK g \in Files : \E e \in DOMAIN nzb[g].places : webdav[q] = <<g, e>> /\ Added(g, e) /\ FullPath(g, e) = q
    BY DEF HeldInv, Held
  <2>2. PICK e \in DOMAIN nzb[g].places : webdav[q] = <<g, e>> /\ Added(g, e) /\ FullPath(g, e) = q
    BY <2>1
  <2>3. g = f
    BY <1>2, <1>4, <2>2, AlonePath DEF Added
  <2>4. PICK j \in DOMAIN Nzbs : nzb[f] = Outcome(j)
    BY <1>1 DEF ServiceInv
  <2>5. j = i
    BY <2>4, PlacesAre
  <2>6. PICK d \in Presented(Nzbs[i]) : e = Spelled(d)
    BY <1>2, <2>2, <2>3, <2>4, <2>5, PlacesAre
  <2>7. q = FullPath(f, Spelled(d)) /\ webdav[q] = <<f, Spelled(d)>> /\ q \in DOMAIN webdav
    BY <2>2, <2>3, <2>6 DEF FilesOf
  <2> QED
    BY <2>7 DEF Shown
<1>5. CASE path \in FilesOf(webdav)
  <2>1. ~Apart(path, path)
    BY DEF Apart
  <2>2. PICK d \in Presented(Nzbs[i]) : path = FullPath(f, Spelled(d)) /\ Shown(f, d)
    BY <1>4, <1>5, <2>1
  <2> QED
    BY <1>1, <2>2, ClashIs
<1>6. CASE path \notin FilesOf(webdav)
  <2>1. PICK q \in FilesOf(webdav) : IsStrictPrefix(path, q)
    BY <1>3, <1>6 DEF FilesOf, TreesInv, Shelf, Tidy, HoldsFile
  <2>2. ~Apart(path, q)
    BY <2>1 DEF Apart
  <2>3. PICK d \in Presented(Nzbs[i]) : q = FullPath(f, Spelled(d)) /\ Shown(f, d)
    BY <1>4, <2>2
  <2>4. c # d
    <3> SUFFICES ASSUME c = d PROVE FALSE
      OBVIOUS
    <3>1. q = path
      BY <2>3
    <3> QED
      BY <1>6, <2>1, <3>1
  <2> QED
    BY <1>1, <2>1, <2>3, <2>4, ClashIs
<1> QED
  BY <1>5, <1>6

(* A file of an nzb that was added is at its path in the tree of webdav, unless flattenPath,
   or the folder of an archive of one volume, has put another file of the nzb there, for
   any number of nzbs whose files are apart and whose names are: those that deobfuscate
   makes up never meet, nor those of other files. *)
THEOREM KeptCorrect ==
  ASSUME NzbsApart, NamesApart
  PROVE  LibSpec => []KeptApart
<1> DEFINE Inv == LibInv /\ ServiceInv /\ TreesInv /\ HeldInv
<1>1. LibInit => Inv
  BY LibInvInit, ServiceInit, TreesInit, HeldInit
<1>2. Inv /\ [LibNext]_libVars => Inv'
  BY LibInvStep, ServiceStep, TreesStep, HeldStep
<1>3. Inv => KeptApart
  BY KeptIs
<1> QED
  BY <1>1, <1>2, <1>3, PTL DEF LibSpec

=============================================================================
