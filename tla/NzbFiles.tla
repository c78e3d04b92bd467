------------------------------ MODULE NzbFiles ------------------------------
(***************************************************************************)
(* What becomes of the files of one nzb: pkg/nzbparser names the nzb and    *)
(* says whether it is plausible, internal/nzbrecordfactory finds the        *)
(* archives among its files by their names (pkg/filenameops) and the file   *)
(* in each, internal/filehealth tries to read them, and                     *)
(* internal/service/nzbservice gives each a path.                           *)
(*                                                                         *)
(* A name is a record [base, exts]: exts are its last one or two            *)
(* extensions, those that GetBaseFilename takes off. An extension is a word *)
(* and a number, -1 where it has none; the number comes first if lead. So   *)
(* part01 is <<part, 1>>, r00 <<r, 0>>, and 7z, with lead, <<z, 7>>. A path *)
(* is a sequence of names. No base begins with another one.                 *)
(***************************************************************************)
EXTENDS Integers, Sequences, SequencesExt, FiniteSets

CONSTANTS
  NzbBlacklist,      \* the names nzbFileBlacklist matches
  FileBlacklist,     \* the paths fileBlacklist matches
  FlatteningDepth,   \* pathFlatteningDepth
  Similar(_, _),     \* is a stem no further from a path than
                     \* filenameReplacementBelowLevensteinRatio allows?
  KnownSizes,        \* knownSizes of the articles, and what yEnc adds to
  OverheadMin,       \* them, in thousandths: segmentYEncOverheadMin and
  OverheadMax,       \* segmentYEncOverheadMax
  TryReadBytes,      \* CheckerConfig,
  TryReadPercentage, \* of the size of a file, and
  HealthyThreshold   \* filesHealthyThreshold, in percent of the files

ASSUME NzbFilesAssumption ==
  /\ FlatteningDepth \in Nat /\ HealthyThreshold \in 0 .. 100
  /\ TryReadBytes \in Nat /\ TryReadPercentage \in 0 .. 100
  /\ KnownSizes \subseteq Nat /\ {OverheadMin, OverheadMax} \subseteq 0 .. 999

-----------------------------------------------------------------------------
(* filenameops *)

NoExt == [word |-> "", num |-> -1, lead |-> TRUE]

(* path.Ext and what is before it. *)
Ext(name)  == IF name.exts = << >> THEN NoExt ELSE Last(name.exts)
Stem(name) == [name EXCEPT !.exts = IF @ = << >> THEN @ ELSE Front(@)]
Base(name) == [name EXCEPT !.exts = << >>]

(* partNumberRegexp takes a number away, and the dot before it.              *)
WithoutNumber(ext) == [ext EXCEPT !.num = -1]

(* The name of the group of a file: lead marks an extension without its dot, *)
(* of which nothing stays where it was a number only.                        *)
GroupName(name) ==
  [name EXCEPT !.exts = SelectSeq([i \in DOMAIN @ |-> WithoutNumber(@[i])], LAMBDA e : e # NoExt)]

Group(names, group) == {name \in names : GroupName(name) = group}

Numbers(name) ==
  LET numbered == SelectSeq(name.exts, LAMBDA e : e.num >= 0) IN [i \in DOMAIN numbered |-> numbered[i].num]

(* Faulty: numbers are compared as strings, 10 before 2. *)
BeforeAsStrings(a, b) ==
  LET key(i) == IF i < 10 THEN 100 * i ELSE 10 * i + 1 IN
  \E i \in DOMAIN Numbers(a) \cap DOMAIN Numbers(b) : key(Numbers(a)[i]) < key(Numbers(b)[i])

(* What CompareNumberStrings compares first, the names without their digits: *)
(* of two names of a group they differ in the extensions that are a number   *)
(* only. A dot comes before any word.                                        *)
Digitless(name) == [i \in DOMAIN name.exts |-> WithoutNumber(name.exts[i])]

DigitlessBefore(x, y) ==
  \/ IsStrictPrefix(x, y)
  \/ \E i \in DOMAIN x \cap DOMAIN y :
       x[i] = NoExt /\ y[i] # NoExt /\ SubSeq(x, 1, i - 1) = SubSeq(y, 1, i - 1)

(* Then the first number that differs decides, then how many there are.      *)
Before(a, b) ==
  LET x == Numbers(a)  y == Numbers(b)
      differ == {i \in DOMAIN x \cap DOMAIN y : x[i] # y[i]} IN
  IF Digitless(a) # Digitless(b) THEN DigitlessBefore(Digitless(a), Digitless(b))
  ELSE IF differ = {} THEN Len(x) < Len(y)
  ELSE \E i \in differ : x[i] < y[i] /\ \A j \in differ : i <= j

(* SortGroupedFilenames, of names that Before puts in an order. *)
Sorted(names) == CHOOSE s \in SetToSeqs(names) : \A i, j \in DOMAIN s : i < j => Before(s[i], s[j])

-----------------------------------------------------------------------------
(* ParseNzb and CheckPlausability. An nzb is a record [name, title, files,    *)
(* archives]; name and title are paths, empty where the nzb does not say     *)
(* them; files is a sequence of [name, groups, segments, date], the names of  *)
(* the groups that are not empty among them; archives is explained below.    *)

(* The last file with a dot left once its extension is off, or the first.    *)
Guess(nzb) ==
  LET dotted == {i \in DOMAIN nzb.files : Len(nzb.files[i].name.exts) > 1}
      chosen == IF dotted = {} THEN 1 ELSE CHOOSE i \in dotted : \A j \in dotted : j <= i IN
  <<Stem(nzb.files[chosen].name)>>

MetaName(nzb) ==
  IF nzb.name # << >> THEN nzb.name ELSE IF nzb.title # << >> THEN nzb.title ELSE Guess(nzb)

PlausibleSegment(segment) == segment.id # "" /\ segment.index # 0 /\ segment.bytes > 0

PlausibleFile(file) ==
  /\ file.groups # {}
  /\ \A i \in DOMAIN file.segments : PlausibleSegment(file.segments[i])

Plausible(nzb) ==
  /\ \A i \in DOMAIN nzb.files : PlausibleFile(nzb.files[i])
  /\ \A i, j \in DOMAIN nzb.files : nzb.files[i].name = nzb.files[j].name => i = j

-----------------------------------------------------------------------------
(* The factory. An archive of an nzb is [volumes, entry, size, endless]: the  *)
(* names of its volumes in the order they follow each other, path and size   *)
(* of the first file in it that is not a directory, which is the only one     *)
(* asked for, and whether the one who asks, GetRarFiles(1), never gets to it: *)
(* its first entry is a directory, at which it stays, or a Seek on the way    *)
(* does not end (see ParallelMerger).                                        *)

IsBlacklistedNzbFile(name)  == name \in NzbBlacklist
IsBlacklistedFilename(path) == path \in FileBlacklist

(* The files of the nzb that AddNzb keeps. *)
Kept(nzb) == {name \in {nzb.files[i].name : i \in DOMAIN nzb.files} : ~IsBlacklistedNzbFile(name)}

(* All files of the nzb have the date of the first one that is left. *)
Date(nzb) ==
  LET dates == {i \in DOMAIN nzb.files : nzb.files[i].name \in Kept(nzb)} IN
  nzb.files[CHOOSE i \in dates : \A j \in dates : i <= j].date

GroupNames(nzb) == {GroupName(name) : name \in Kept(nzb)}

Volumes(nzb, group) == Sorted(Group(Kept(nzb), group))

(* processSpecialFiles looks at the extension of the name of the group.      *)
Dotted(group) == Ext(group).lead = FALSE
IsRar(group)  == Dotted(group) /\ Ext(group).word \in {"rar", "r"}
Is7z(group)   == Dotted(group) /\ Ext(group).word \in {"z", "zip"}

(* What the reader of the volumes of a group finds: a volume that does not   *)
(* begin with the first block of a file gives an error.                      *)
Opened(nzb, group) == {a \in nzb.archives : Head(a.volumes) = Head(Volumes(nzb, group))}

(* GetRarFiles does not return. *)
GroupLoops(nzb, group) == IsRar(group) /\ \E a \in Opened(nzb, group) : a.endless

(* Nothing that is put together under these names is a 7z archive: 7z itself *)
(* loses its dot with its number.                                            *)
GroupBuilds(nzb, group) ==
  ~Is7z(group) /\ (IsRar(group) => Opened(nzb, group) # {}) /\ ~GroupLoops(nzb, group)

(* processFileGroups: the groups are taken in any order, until one fails.    *)
Builds(nzb) == \A group \in GroupNames(nzb) : GroupBuilds(nzb, group)
Loops(nzb)  == \E group \in GroupNames(nzb) : GroupLoops(nzb, group)

(* The files of the factory, by their paths: each file itself, and that of    *)
(* each archive below the name of its group.                                 *)
RawFiles(nzb)     == {<<name>> : name \in Kept(nzb)}
SpecialFiles(nzb) ==
  UNION {{<<group>> \o a.entry : a \in Opened(nzb, group)} : group \in {g \in GroupNames(nzb) : IsRar(g)}}

(* The files that AddNzb adds. *)
Presented(nzb) == {path \in RawFiles(nzb) \cup SpecialFiles(nzb) : ~IsBlacklistedFilename(path)}

-----------------------------------------------------------------------------
(* How large they are, before anything was read. *)

(* GetProbableKnownSegmentSize: the sizes of which bytes may be the encoded   *)
(* form.                                                                     *)
ProbableSizes(bytes) == {known \in KnownSizes : bytes \in known .. known + (known * OverheadMax) \div 1000}

EstimatedSize(bytes) == (bytes * (1000 - OverheadMin)) \div 1000

(* SizeHint and SizeHintExact of an article. *)
SizeHint(bytes) ==
  IF ProbableSizes(bytes) # {}
  THEN [size |-> CHOOSE k \in ProbableSizes(bytes) : \A l \in ProbableSizes(bytes) : k <= l, exact |-> TRUE]
  ELSE [size |-> EstimatedSize(bytes), exact |-> FALSE]

(* The hints of the segments of a file in the order they are merged in.       *)
Segments(file) ==
  LET sorted == SortSeq(file.segments, LAMBDA a, b : a.index < b.index) IN
  [i \in DOMAIN sorted |-> SizeHint(sorted[i].bytes)]

FileSize(file) == FoldLeft(LAMBDA sum, hint : sum + hint.size, 0, Segments(file))

(* Size of a file of the factory; an archive knows those of its entries.      *)
SizeOf(nzb, path) ==
  IF path \in RawFiles(nzb)
  THEN FileSize(CHOOSE file \in ToSet(nzb.files) : <<file.name>> = path)
  ELSE (CHOOSE a \in nzb.archives : Last(path) = Last(a.entry)).size

-----------------------------------------------------------------------------
(* filehealth. What comes of the attempt to read a file is [opens, sized,     *)
(* size, good, end]: do Open and Seek to the end succeed, and where, how     *)
(* many bytes can be read, and what follows them: io.EOF, an error, or, with *)
(* "nothing", a call that does not return (see Readahead and ParallelMerger). *)

HealthChecked == TryReadBytes > 0 \/ TryReadPercentage > 0

AtLeastOne(n) == IF n = 0 THEN 1 ELSE n

ReadSize(size) ==
  LET wanted == AtLeastOne(IF TryReadBytes > 0 THEN TryReadBytes
                                               ELSE (size * TryReadPercentage) \div 100)
  IN  IF wanted > size THEN size ELSE wanted

(* checkFile: an end that comes early is no error. *)
Healthy(attempt) ==
  /\ attempt.opens /\ attempt.sized
  /\ attempt.good >= ReadSize(attempt.size) \/ attempt.end = "eof"

(* checkFile does not return. *)
Waits(attempt) ==
  /\ attempt.opens /\ attempt.end = "nothing"
  /\ attempt.sized => attempt.good < ReadSize(attempt.size)

(* The share of healthy files that AddNzb asks for. *)
HealthyEnough(attempts) ==
  LET healthy == {c \in DOMAIN attempts : Healthy(attempts[c])} IN
  100 * Cardinality(healthy) >= HealthyThreshold * Cardinality(DOMAIN attempts)

(* CheckFiles: one file after the other. *)
Verdict(attempts) ==
  IF ~HealthChecked THEN "healthy"
  ELSE IF \E c \in DOMAIN attempts : Waits(attempts[c]) THEN "waits"
  ELSE IF HealthyEnough(attempts) THEN "healthy" ELSE "unhealthy"

-----------------------------------------------------------------------------
(* The service: deobfuscateFilename and flattenPath *)

FolderOf(path) == Front(path)

(* listItemsInFolder, of a folder with a slash at its end or of the root.    *)
InFolder(folder, paths) == {p \in paths : Len(p) = Len(folder) + 1 /\ IsPrefix(folder, p)}

Longer(name, prefix) == name.base = prefix.base /\ IsPrefix(prefix.exts, name.exts)

(* The same without the slash: also the path itself and those of its folder   *)
(* whose names begin with its own.                                           *)
WithPrefix(path, paths) ==
  InFolder(path, paths)
    \cup {p \in InFolder(Front(path), paths) : Longer(Last(p), Last(path))}

(* The MetaName, or the folder's name where it is as good. *)
Replacement(path, meta) ==
  LET folderBase == Base(Last(FolderOf(path))) IN
  IF Len(path) > 1 /\ Similar(folderBase, meta) THEN <<folderBase>> ELSE meta

WithExt(path, ext) ==
  Front(path) \o <<[Last(path) EXCEPT !.exts = IF ext = NoExt THEN @ ELSE Append(@, ext)]>>

(* Faulty: also where others in the folder have the extension. *)
OnlyOfAny(path, paths) == TRUE

(* groupFilesByExtension *)
WithExtOf(path, items) == {p \in items : Ext(Last(p)) = Ext(Last(path))}

(* Is it the only one with its extension in its folder? *)
OnlyOfItsExt(path, paths) == Cardinality(WithExtOf(path, InFolder(FolderOf(path), paths))) = 1

Deobfuscated(path, paths, meta) ==
  LET replacement == Replacement(path, meta) IN
  IF OnlyOfItsExt(path, paths) /\ ~Similar(Stem(Last(path)), replacement)
  THEN FolderOf(path) \o WithExt(replacement, Ext(Last(path)))
  ELSE path

(* The folders, from the left, that may go: only one path begins with them.  *)
Removable(path, paths) ==
  {i \in 1 .. Len(path) - 1 :
    i <= FlatteningDepth /\ Cardinality(WithPrefix(SubSeq(path, 1, i), paths)) = 1}

Flattened(path, paths) ==
  LET cut == Removable(path, paths) IN
  IF cut = {} THEN path ELSE SubSeq(path, 1 + CHOOSE i \in cut : \A j \in cut : j <= i, Len(path))

(* The path of a file of the nzb below its MetaName. *)
Place(nzb, path) ==
  LET paths == Presented(nzb) IN Flattened(Deobfuscated(path, paths, MetaName(nzb)), paths)

=============================================================================
