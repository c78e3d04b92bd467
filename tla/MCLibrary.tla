----------------------------- MODULE MCLibrary ------------------------------
(* Library with nzbs that have a name or a folder in common.                  *)
EXTENDS Library

LOCAL Word(word)      == [word |-> word, num |-> -1, lead |-> FALSE]
LOCAL Part(word, num) == [word |-> word, num |-> num, lead |-> FALSE]
LOCAL Name(base, exts) == [base |-> base, exts |-> exts]
LOCAL Rar(base)        == Name(base, <<Word("rar")>>)
LOCAL Volume(part)     == Name("x", <<part, Word("rar")>>)
LOCAL Film(base)       == Name(base, <<Word("mkv")>>)
LOCAL Plain(base)      == Name(base, << >>)

LOCAL File(filename, index) ==
  [name |-> filename, groups |-> {"group"}, date |-> 0,
   segments |-> <<[id |-> "b", index |-> 2, bytes |-> 510], [id |-> "a", index |-> index, bytes |-> 725]>>]
LOCAL Nzb(metaName, title, names, archives) ==
  [name |-> metaName, title |-> title, files |-> [i \in DOMAIN names |-> File(names[i], 1)], archives |-> archives]
LOCAL Archive(volumes, entry) == [volumes |-> volumes, entry |-> entry, size |-> 1000, endless |-> FALSE]
LOCAL Before1970(old) == [old EXCEPT !.files[1].date = -1]

LOCAL Parts == <<Volume(Part("part", 1)), Volume(Part("part", 2)), Volume(Part("part", 10))>>
LOCAL Par2  == Name("x", <<Part("par", 2)>>)
LOCAL Old   == <<Rar("x"), Name("x", <<Part("r", 0)>>)>>
LOCAL Shows == <<Volume(Part("se", 101)), Volume(Part("se", 102))>>

(* An archive of many volumes and a sample; one of a single volume in a       *)
(* folder of the first; one whose volumes have extensions of their own; two   *)
(* that are taken for one; one that begins with a directory; and an nzb with  *)
(* a segment that has no index.                                              *)
MCNzbs ==
  [parts  |-> Nzb(<<Plain("x")>>, << >>, Parts \o <<Film("sample"), Par2>>,
                  {Archive(Parts, <<Film("film")>>)}),
   single |-> Nzb(<<Plain("x"), Plain("y")>>, << >>, <<Rar("y")>>,
                  {Archive(<<Rar("y")>>, <<Film("film")>>)}),
   old    |-> Nzb(<< >>, << >>, Old, {Archive(Old, <<Film("film")>>)}),
   shows  |-> Before1970(Nzb(<< >>, <<Plain("x")>>, Shows,
                  {Archive(<<s>>, <<Plain("d"), Film("show")>>) : s \in ToSet(Shows)})),
   nested |-> Nzb(<< >>, << >>, <<Rar("z")>>,
                  {[Archive(<<Rar("z")>>, <<Plain("d"), Film("film")>>) EXCEPT !.endless = TRUE]}),
   wrong  |-> [Nzb(<<Plain("x")>>, << >>, <<Rar("x")>>, {}) EXCEPT !.files[1] = File(Rar("x"), 0)]]

MCMayHold == ("n1" :> {"parts"}) @@ ("n2" :> {"single"}) @@ ("n3" :> {"old", "shows", "nested", "wrong"})

MCNzbBlacklist  == {Par2}
MCFileBlacklist == {<<volume>> : volume \in ToSet(Parts)}

MCSimilar(stem, path) == stem.exts = << >> /\ stem.base = Last(path).base

MCAttempts ==
  {[opens |-> TRUE, sized |-> TRUE, size |-> 2, good |-> g, end |-> e] : g \in 0 .. 1, e \in {"eof", "error", "nothing"}}

MCSizeless == {<<"sample.mkv">>}

LOCAL SpelledExt(ext) ==
  IF ext.num = -1 THEN "." \o ext.word ELSE IF ext.word = "" THEN "." \o ToString(ext.num)
  ELSE "." \o ext.word \o ToString(ext.num)
MCSpelling(name) == FoldSeq(LAMBDA ext, s : s \o SpelledExt(ext), name.base, name.exts)

(* ShowsTheTracked is about such nzbs. *)
ASSUME MCNzbsApart == NzbsApart /\ Sized

(* KeptApart is of such names. *)
ASSUME MCNamesApart == NamesApart

(* The volumes of Parts, which are in the order of their numbers, are named so. *)
ASSUME MCVolumesNamed == VolumesNamed

=============================================================================
