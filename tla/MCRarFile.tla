----------------------------- MODULE MCRarFile ------------------------------
(* RarFile with archives of a file of 5 bytes in one to four volumes.         *)
EXTENDS RarFile

Sig(ver)  == [t |-> "sig", ver |-> ver]
Salt      == [t |-> "salt"]
Crypt     == [t |-> "crypt"]
Arc(more, locked) == [t |-> "arc", multi |-> more, encrypted |-> locked]
Block(name, first, last, size, locked) ==
  [t |-> "file", name |-> name, first |-> first, last |-> last, size |-> size,
   length |-> Length, locked |-> locked, dir |-> name = "dir"]
Part(from, to) == [k \in 1 .. to - from + 1 |-> [t |-> "data", byte |-> from + k - 1]]
Service(size) == <<[t |-> "service", size |-> size]>> \o [k \in 1 .. size |-> [t |-> "data", byte |-> 0]]
End(more) == [t |-> "end", more |-> more]

Movie(first, last, from, to, locked) ==
  <<Block("movie", first, last, to - from + 1, locked)>> \o Part(from, to)

Archive(ver, vols, locked, whole) ==
  [ver |-> ver, vols |-> vols, locked |-> locked, whole |-> whole,
   dirFirst |-> \E k \in DOMAIN vols[1] : k <= 3 /\ vols[1][k].t = "file" /\ vols[1][k].dir]

Other == <<Block("other", TRUE, TRUE, 2, FALSE)>> \o Part(8, 9)
Dir   == <<Block("dir", TRUE, TRUE, 0, FALSE)>>

(* Version 1.5: two volumes, other blocks around the file, no end block last;  *)
Plain15 ==
  <<<<Sig(15), Arc(TRUE, FALSE)>> \o Other \o Movie(TRUE, FALSE, 1, 2, FALSE) \o <<End(TRUE)>>,
    <<Sig(15), Arc(TRUE, FALSE)>> \o Service(1) \o Movie(FALSE, TRUE, 3, 5, FALSE)>>

(* version 5: four volumes, one of them without a byte of the file;           *)
Vol50(part, more) == <<Sig(50), Arc(TRUE, FALSE)>> \o part \o <<End(more)>>
P1 == Vol50(Movie(TRUE, FALSE, 1, 2, FALSE), TRUE)
P2 == Vol50(Movie(FALSE, FALSE, 3, 3, FALSE), TRUE)
P3 == Vol50(Movie(FALSE, FALSE, 4, 4, FALSE), TRUE)
P0 == Vol50(Movie(FALSE, FALSE, 4, 3, FALSE), TRUE)
P4 == Vol50(Movie(FALSE, TRUE, 5, 5, FALSE), FALSE)

(* an encrypted file, padded to blocks of 3, a block in three volumes;        *)
(* encrypted headers.                                                        *)
Locked15 ==
  <<<<Sig(15), Arc(TRUE, FALSE)>> \o Movie(TRUE, FALSE, 1, 1, TRUE) \o <<End(TRUE)>>,
    <<Sig(15), Arc(TRUE, FALSE)>> \o Movie(FALSE, FALSE, 2, 2, TRUE) \o <<End(TRUE)>>,
    <<Sig(15), Arc(TRUE, FALSE)>> \o Movie(FALSE, TRUE, 3, 6, TRUE) \o <<End(FALSE)>>>>
Heads15 ==
  <<<<Sig(15), Arc(TRUE, TRUE), Salt>> \o Movie(TRUE, FALSE, 1, 0, TRUE) \o <<Salt, End(TRUE)>>,
    <<Sig(15), Arc(TRUE, TRUE), Salt>> \o Movie(FALSE, FALSE, 1, 3, TRUE) \o <<Salt, End(TRUE)>>,
    <<Sig(15), Arc(TRUE, TRUE), Salt>> \o Movie(FALSE, TRUE, 4, 6, TRUE) \o <<Salt, End(FALSE)>>>>
Heads50 ==
  <<<<Sig(50), Crypt, Salt, Arc(FALSE, FALSE), Salt>> \o Movie(TRUE, TRUE, 1, 6, TRUE) \o <<Salt, End(FALSE)>>>>

MCArchives ==
  {Archive(15, Plain15, FALSE, TRUE),
   Archive(50, <<P1, P2, P3, P4>>, FALSE, TRUE),
   Archive(15, Locked15, TRUE, TRUE),
   Archive(15, Heads15, TRUE, TRUE),
   Archive(50, Heads50, TRUE, TRUE),
   \* a volume missing, two of them swapped, one twice, one cut, a directory first
   Archive(50, <<P1, P2, P3>>, FALSE, FALSE),
   Archive(50, <<P1, P3, P2, P4>>, FALSE, FALSE),
   Archive(50, <<P1, P2, P0, P3, P4>>, FALSE, TRUE),
   Archive(15, <<SubSeq(Plain15[1], 1, 6), Plain15[2]>>, FALSE, FALSE),
   Archive(15, <<Locked15[1], SubSeq(Locked15[2], 1, 3), Locked15[3]>>, TRUE, FALSE),
   Archive(50, <<<<Sig(50), Arc(FALSE, FALSE)>> \o Dir \o Movie(TRUE, TRUE, 1, 5, FALSE) \o <<End(FALSE)>>>>, FALSE, TRUE)}

(* The bytes of the file before each cell of a whole archive.                 *)
Sizes(vol) == FoldLeft(LAMBDA sum, cell : sum + (IF Mine(cell) THEN cell.size ELSE 0), 0, vol)

MCFrom ==
  [a \in {b \in MCArchives : b.whole} |->
     [v \in DOMAIN a.vols |->
        [k \in 1 .. Len(a.vols[v]) + 1 |->
           Sizes(FlattenSeq(SubSeq(a.vols, 1, v - 1)) \o SubSeq(a.vols[v], 1, k - 1))]]]

ASSUME MCWellPacked == WellPacked(MCFrom)

(* Where the search for headers can go on in a whole archive: after i rounds,  *)
(* all that has somewhere to go on to after i - 1.                           *)
Rounds == 8

Stops(a) ==
  UNION {{v} \X (0 .. Len(a.vols[v]) + 1) \X BOOLEAN \X BOOLEAN \X {{}, {"movie"}, {"other"}, {"dir"}} : v \in DOMAIN a.vols}

Kept(a) ==
  LET kept[i \in 0 .. Rounds] ==
        IF i = 0 THEN Stops(a)
        ELSE LET before == kept[i - 1] IN
             {s \in before : Continues(a, before, s[1], s[2], s[3], s[4], s[5])}
  IN  kept[Rounds]

MCWalk == [a \in DOMAIN MCFrom |-> Kept(a)]

ASSUME MCWellFound == WellFound(MCFrom, MCWalk)

=============================================================================
