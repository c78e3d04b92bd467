--------------------------- MODULE RarFileProofs ----------------------------
(***************************************************************************)
(* Proofs about RarFile, for any cells, buffers, blocks of the cipher, reads  *)
(* and faults: end of file is told after the whole file only, whatever the   *)
(* volumes hold (EOFCorrect); the file of a whole archive, one that is        *)
(* WellPacked, implements SeqFile (SeqFileCorrect); and where it is also      *)
(* WellFound, and no volume fails, only what a Seek back in an encrypted      *)
(* archive has lost returns an error (OnlyPasswordCorrect).                   *)
(*                                                                         *)
(* A reader that has its place (Sound) is Placed in its volume and, once it is *)
(* in the file (InFile), is Sited: the bytes it has taken from the packed data *)
(* are followed by those of the block it is in. The streams above hold the    *)
(* same bytes, in order: delivered (StreamInv) or in the cipher (CipherInv).  *)
(* While no volume fails, a reader that is Able is Sure: its search stands    *)
(* where one of the whole archive can go on (Walked, Searched), and the       *)
(* blocks come to the end of the file with the last of them (Counted).        *)
(***************************************************************************)
EXTENDS RarFile, WellFoundedInduction, TLAPS

-----------------------------------------------------------------------------
(* Where a new rar reader looks for the file, and where it has found it.     *)
Looking == pc \in {"open", "skip", "first", "named"}
Found   == pc \in {"skipping", "reading", "cipher", "packed", "block"}

(* A reader without a file header is one that a Seek back has left behind:    *)
(* such a Seek is only forgotten once it has found the file again.           *)
EOFInv ==
  /\ EOFIsWhole
  /\ pc = "idle" => ~back
  /\ pc \in {"rewinding", "unwound"} => lost
  /\ Looking /\ reader = "open" => lost
  /\ reader = "open" /\ h = NoHeader => lost
  /\ back /\ Found => h # NoHeader
  /\ pc = "named" => h # NoHeader

LEMMA EOFInit == RarInit => EOFInv
BY DEF RarInit, EOFInv, EOFIsWhole, Looking, Found

-----------------------------------------------------------------------------
(* Volumes *)

(* What a file header is parsed to is no empty header.                       *)
LEMMA ParsedIsHeader ==
  ASSUME NEW cell, cell.t = "file"
  PROVE  Parsed15(cell) # NoHeader /\ Parsed50(cell) # NoHeader
<1>1. ASSUME NEW locked, [cell EXCEPT !.locked = locked] = NoHeader
      PROVE  FALSE
  <2>1. DOMAIN cell = {"t"}
    BY <1>1 DEF NoHeader
  <2>2. [cell EXCEPT !.locked = locked].t = cell.t
    BY <2>1
  <2> QED
    BY <1>1, <2>2 DEF NoHeader
<1> QED
  BY <1>1 DEF Parsed15, Parsed50

(* The search for a header ends with one, or goes on.                        *)
Searches ==
  \/ h' = h /\ pc' = pc
  \/ h' = h /\ pc' \in {"failed", "unopened"}
  \/ h' = h /\ pc = "open" /\ pc' = "skip"
  \/ pc = "skip" /\ pc' = "first" /\ h' = NoHeader
  \/ pc = "first" /\ pc' \in {"named", "failed"} /\ h' # NoHeader
  \/ pc \in {"skip", "block"} /\ pc' \in {"skip", "packed"} /\ (pc = "skip" <=> pc' = "skip") /\ h' # NoHeader

LEMMA VolumeSearches == ASSUME VolumeStep PROVE Searches
<1> USE DEF Searches, Fail, packedVars
<1>1. CASE FindSig
  BY <1>1 DEF FindSig
<1>2. CASE NextVolume
  BY <1>2 DEF NextVolume
<1>3. CASE ReadSalt
  BY <1>3 DEF ReadSalt
<1>4. CASE MainHeader \/ EncryptionHeader
  BY <1>4 DEF MainHeader, EncryptionHeader, Pass
<1>5. CASE ServiceHeader \/ ServiceData
  BY <1>5 DEF ServiceHeader, ServiceData
<1>6. CASE EndHeader \/ VolumeEnds \/ NoHeaderHere
  BY <1>6 DEF EndHeader, VolumeEnds, NoHeaderHere
<1>7. CASE FileHeader
  <2> DEFINE cell  == Cells[Place + 1]
             block == IF arc.ver = 15 THEN Parsed15(cell) ELSE Parsed50(cell)
  <2>1. block # NoHeader
    <3>1. cell.t = "file"
      BY <1>7 DEF FileHeader, AtHeader
    <3> QED
      BY <3>1, ParsedIsHeader
  <2>2. pc \in {"skip", "block", "first"}
    BY <1>7 DEF FileHeader, AtHeader, InHeaders
  <2>3. \/ pc = "first" /\ FirstBlock(block)
        \/ pc # "first" /\ h' = block /\ pc' = (IF pc = "skip" THEN "skip" ELSE "packed")
        \/ pc # "first" /\ h' = h /\ pc' = "failed"
    BY <1>7, <2>2 DEF FileHeader
  <2> QED
    BY <2>1, <2>2, <2>3 DEF FirstBlock
<1>8. CASE NextBlock
  BY <1>8 DEF NextBlock
<1> QED
  BY <1>1, <1>2, <1>3, <1>4, <1>5, <1>6, <1>7, <1>8 DEF VolumeStep

LEMMA VolumeKeeps ==
  ASSUME EOFInv, VolumeStep, lost' = (lost \/ HeaderMissed),
         UNCHANGED <<streamVars, index, callVars, answer>>
  PROVE  EOFInv'
<1>1. Searches /\ (lost => lost')
  BY VolumeSearches
<1> HIDE DEF VolumeStep, HeaderMissed
<1> QED
  BY <1>1 DEF Searches, EOFInv, EOFIsWhole, Looking, Found, streamVars, callVars

-----------------------------------------------------------------------------
(* A call that returns anything but end of file.                             *)
LEMMA ReturnKeeps ==
  ASSUME EOFInv, NEW bytes, NEW err, err # "eof", Return(bytes, err),
         reader' = "open" /\ h' = NoHeader => lost'
  PROVE  EOFInv'
BY DEF Return, EOFInv, EOFIsWhole, Looking, Found

(* A step within the file.                                                   *)
LEMMA FoundKeeps ==
  ASSUME EOFInv, Found, pc' \in {"skipping", "reading", "cipher", "packed", "block", "failed", "panic"},
         UNCHANGED <<h, reader, back, lost>>
  PROVE  EOFInv'
BY DEF EOFInv, EOFIsWhole, Looking, Found

LEMMA DeliverKeeps ==
  ASSUME EOFInv, Found, NEW bytes, Deliver(bytes), h' = h
  PROVE  EOFInv'
<1>1. CASE job = "read"
  <2>1. Return(bytes, "nil") /\ UNCHANGED <<reader, lost>>
    BY <1>1 DEF Deliver
  <2> QED
    BY <2>1, ReturnKeeps DEF EOFInv
<1>2. CASE job # "read"
  BY <1>2, FoundKeeps DEF Deliver
<1> QED
  BY <1>1, <1>2

LEMMA CallerStep ==
  ASSUME EOFInv, Caller
  PROVE  EOFInv'
<1> USE DEF EOFInv, EOFIsWhole, Looking, Found, packVars, packedVars, streamVars, callVars
<1>1. CASE Open
  BY <1>1 DEF Open, NewMultiReader
<1>2. ASSUME NEW k, Read(k) PROVE EOFInv'
  BY <1>2 DEF Read
<1>3. ASSUME NEW to, SeekNowhere(to) PROVE EOFInv'
  BY <1>3 DEF SeekNowhere
<1>4. ASSUME NEW to, SeekForward(to) PROVE EOFInv'
  BY <1>4 DEF SeekForward
<1>5. ASSUME NEW to, SeekBack(to) PROVE EOFInv'
  BY <1>5 DEF SeekBack
<1> QED
  BY <1>1, <1>2, <1>3, <1>4, <1>5 DEF Caller

(* The file is looked for and found, or the first one is listed.             *)
LEMMA NamedStep ==
  ASSUME EOFInv, FileFound \/ OtherFile \/ FirstFile
  PROVE  EOFInv'
<1> USE DEF packVars, packedVars, streamVars, callVars
<1>1. CASE FileFound
  <2>1. h # NoHeader /\ h' = h /\ lost' = lost
    BY <1>1 DEF FileFound, EOFInv
  <2>2. CASE job = "open"
    BY <1>1, <2>1, <2>2, ReturnKeeps DEF FileFound
  <2>3. CASE job # "open"
    BY <1>1, <2>1, <2>3 DEF FileFound, EOFInv, EOFIsWhole, Looking, Found
  <2> QED
    BY <2>2, <2>3
<1>2. CASE OtherFile
  BY <1>2 DEF OtherFile, EOFInv, EOFIsWhole, Looking, Found
<1>3. CASE FirstFile
  BY <1>3, ReturnKeeps DEF FirstFile, EOFInv
<1> QED
  BY <1>1, <1>2, <1>3

(* The two that tell the end of the file, and what is around them.           *)
LEMMA ReadStep ==
  ASSUME EOFInv, ReadNil \/ NextFile \/ AtLimit \/ Below \/ EmptyBlock \/ ReadPlain
  PROVE  EOFInv'
<1> USE DEF packVars, packedVars, streamVars, callVars
<1>1. CASE ReadNil
  BY <1>1, FoundKeeps DEF ReadNil, Found
<1>2. CASE NextFile
  <2>1. CASE h = NoHeader
    BY <1>2, <2>1 DEF NextFile, Return, EOFInv, EOFIsWhole, Looking, Found
  <2>2. CASE h # NoHeader
    BY <1>2, <2>2, FoundKeeps DEF NextFile, Found
  <2> QED
    BY <2>1, <2>2
<1>3. CASE AtLimit
  BY <1>3 DEF AtLimit, SumMatches, Return, EOFInv, EOFIsWhole, Looking, Found
<1>4. CASE Below \/ EmptyBlock
  BY <1>4, FoundKeeps DEF Below, EmptyBlock, Found
<1>5. CASE ReadPlain
  <2>1. Found /\ h' = h
    BY <1>5 DEF ReadPlain, Found
  <2>2. CASE GivesNothing(1) /\ UNCHANGED <<n, streamVars, index, callVars, lost, answer>>
    BY <1>5, <2>1, <2>2, FoundKeeps DEF ReadPlain, GivesNothing, Fail
  <2>3. ASSUME NEW r \in Reads(Smaller(Room, n)), Deliver(Bytes(r[1])) PROVE EOFInv'
    BY <2>1, <2>3, DeliverKeeps
  <2> QED
    BY <1>5, <2>2, <2>3 DEF ReadPlain
<1> QED
  BY <1>1, <1>2, <1>3, <1>4, <1>5

LEMMA CipherStep ==
  ASSUME EOFInv, FillCipher \/ KeyCipher \/ Cipher \/ FillBlock
  PROVE  EOFInv'
<1> USE DEF packVars, packedVars, streamVars, callVars
<1>1. CASE FillCipher
  BY <1>1, FoundKeeps DEF FillCipher, GivesNothing, Fail, Found
<1>2. CASE KeyCipher
  BY <1>2, FoundKeeps DEF KeyCipher, Found
<1>3. ASSUME NEW block, NEW rest, DeliverBlock(block, rest), Found, h' = h PROVE EOFInv'
  BY <1>3, DeliverKeeps DEF DeliverBlock
<1>4. CASE Cipher
  <2>1. Found /\ h' = h
    BY <1>4 DEF Cipher, Found
  <2>2. \/ \E bytes : Deliver(bytes)
        \/ \E block, rest : DeliverBlock(block, rest)
        \/ pc' = "packed" /\ UNCHANGED <<reader, callVars, lost>>
    BY <1>4 DEF Cipher
  <2> QED
    BY <1>3, <2>1, <2>2, DeliverKeeps, FoundKeeps
<1>5. CASE FillBlock
  <2>1. Found /\ h' = h
    BY <1>5 DEF FillBlock, Found
  <2>2. \/ \E block : DeliverBlock(block, << >>)
        \/ pc' = pc /\ UNCHANGED <<reader, callVars, lost>>
        \/ pc' = "failed" /\ UNCHANGED <<reader, callVars, lost>>
    BY <1>5 DEF FillBlock, GivesNothing, Fail
  <2> QED
    BY <1>3, <2>1, <2>2, FoundKeeps DEF Found
<1> QED
  BY <1>1, <1>2, <1>4, <1>5

(* The way back, and the ends of calls.                                      *)
LEMMA SeekStep ==
  ASSUME EOFInv,
         (\E v \in rewind : RewindVolume(v)) \/ Reopen \/ ReopenFails \/ Skip \/ Failed \/ Unopened \/ Panic
  PROVE  EOFInv'
<1> USE DEF packVars, packedVars, streamVars, callVars
<1>1. ASSUME NEW v \in rewind, RewindVolume(v) PROVE EOFInv'
  BY <1>1 DEF RewindVolume, EOFInv, EOFIsWhole, Looking, Found
<1>2. CASE Reopen \/ ReopenFails
  BY <1>2 DEF Reopen, ReopenFails, NewMultiReader, EOFInv, EOFIsWhole, Looking, Found
<1>3. CASE Skip
  <2>1. CASE SkipsOn
    BY <1>3, <2>1, FoundKeeps DEF Skip, Found
  <2>2. CASE ~SkipsOn
    <3>1. lost' = (lost /\ ~back) /\ Return(<< >>, "nil") /\ UNCHANGED <<reader, h>>
      BY <1>3, <2>2 DEF Skip
    <3>2. back => h # NoHeader
      BY <1>3 DEF Skip, EOFInv, Found
    <3> QED
      BY <3>1, <3>2, ReturnKeeps DEF EOFInv
  <2> QED
    BY <2>1, <2>2
<1>4. CASE Failed \/ Unopened
  BY <1>4, ReturnKeeps DEF Failed, Unopened, EOFInv
<1>5. CASE Panic
  BY <1>5, ReturnKeeps DEF Panic, EOFInv
<1> QED
  BY <1>1, <1>2, <1>3, <1>4, <1>5

LEMMA EOFKeeps == ASSUME EOFInv, [RarNext]_rarVars PROVE EOFInv'
<1>1. CASE UNCHANGED rarVars
  BY <1>1 DEF rarVars, packVars, packedVars, streamVars, callVars, EOFInv, EOFIsWhole, Looking, Found
<1>2. CASE Caller
  BY <1>2, CallerStep
<1>3. CASE Step
  BY <1>3, VolumeKeeps, NamedStep, ReadStep, CipherStep, SeekStep DEF Step
<1> QED
  BY <1>1, <1>2, <1>3 DEF RarNext

-----------------------------------------------------------------------------
(* Whatever the volumes of the archive hold, and whenever they fail: a reader *)
(* of a file tells its end when all of it was read, or has no file at all,    *)
(* since it could not be put back to the start.                              *)
THEOREM EOFCorrect == RarSpec => []EOFIsWhole
<1>1. EOFInv /\ [RarNext]_rarVars => EOFInv'
  BY EOFKeeps
<1>2. EOFInv => EOFIsWhole
  BY DEF EOFInv
<1> QED
  BY <1>1, <1>2, EOFInit, PTL DEF RarSpec

-----------------------------------------------------------------------------
(* Runs of bytes *)

Run(from, c) == [k \in 1 .. c |-> from + k]

LEMMA RunIs ==
  ASSUME NEW a \in Nat, NEW c \in Nat
  PROVE  Run(a, c) \in Seq(Nat) /\ Len(Run(a, c)) = c /\ \A k \in 1 .. c : Run(a, c)[k] = a + k
BY DEF Run

LEMMA RunJoins ==
  ASSUME NEW a \in Nat, NEW c \in Nat, NEW d \in Nat
  PROVE  Run(a, c) \o Run(a + c, d) = Run(a, c + d)
<1> DEFINE s == Run(a, c)
           t == Run(a + c, d)
<1>1. s \in Seq(Nat) /\ Len(s) = c /\ \A k \in 1 .. c : s[k] = a + k
  BY RunIs
<1>2. t \in Seq(Nat) /\ Len(t) = d /\ \A k \in 1 .. d : t[k] = a + c + k
  <2>1. a + c \in Nat
    OBVIOUS
  <2> QED
    BY <2>1, RunIs
<1> HIDE DEF s, t
<1> DEFINE u == s \o t
<1>3. u \in Seq(Nat) /\ Len(u) = c + d
  BY <1>1, <1>2
<1>4. ASSUME NEW k \in 1 .. c PROVE u[k] = a + k
  BY <1>1, <1>2
<1>5. ASSUME NEW k \in 1 .. c + d, ~(k <= c) PROVE u[k] = a + k
  <2>1. k - c \in 1 .. d /\ u[k] = t[k - c] /\ a + c + (k - c) = a + k
    BY <1>1, <1>2, <1>5, SMTT(30)
  <2> QED
    BY <1>2, <2>1
<1> HIDE DEF u
<1>6. \A k \in 1 .. c + d : u[k] = a + k
  <2> SUFFICES ASSUME NEW k \in 1 .. c + d PROVE u[k] = a + k
    OBVIOUS
  <2>1. k <= c => k \in 1 .. c
    OBVIOUS
  <2> QED
    BY <1>4, <1>5, <2>1
<1>7. u = [k \in 1 .. c + d |-> a + k]
  BY <1>3, <1>6
<1> QED
  BY <1>7 DEF Run, s, t, u

LEMMA RunParts ==
  ASSUME NEW a \in Nat, NEW c \in Nat, NEW i \in Nat, i <= c
  PROVE  SubSeq(Run(a, c), 1, i) = Run(a, i) /\ SubSeq(Run(a, c), i + 1, c) = Run(a + i, c - i)
<1>1. Run(a, c) \in Seq(Nat) /\ Len(Run(a, c)) = c
  BY RunIs
<1>2. SubSeq(Run(a, c), 1, i) = Run(a, i)
  BY <1>1 DEF Run
<1>3. SubSeq(Run(a, c), i + 1, c) = Run(a + i, c - i)
  BY <1>1 DEF Run
<1> QED
  BY <1>2, <1>3

(* A block of the cipher begins after whole ones. *)
LEMMA BlockFits ==
  ASSUME NEW m \in Nat, NEW k \in 1 .. m * BlockSize
  PROVE  /\ k - ((k - 1) % BlockSize) \in 1 .. k
         /\ k - ((k - 1) % BlockSize) + BlockSize - 1 <= m * BlockSize
<1> DEFINE r == (k - 1) % BlockSize
           q == (k - 1) \div BlockSize
<1>0. BlockSize \in Nat /\ BlockSize > 0 /\ m * BlockSize \in Nat
  BY RarAssumption
<1>1. k - 1 = BlockSize * q + r /\ r \in 0 .. BlockSize - 1 /\ q \in Nat
  BY <1>0
<1> HIDE DEF r, q
<1>2. q < m
  <2> SUFFICES ASSUME q >= m PROVE FALSE
    BY <1>1
  <2>1. BlockSize * q >= BlockSize * m
    BY <1>0, <1>1
  <2>2. BlockSize * m = m * BlockSize
    BY <1>0
  <2> QED
    BY <1>0, <1>1, <2>1, <2>2
<1>3. BlockSize * (q + 1) <= BlockSize * m /\ BlockSize * (q + 1) = BlockSize * q + BlockSize
  BY <1>0, <1>1, <1>2
<1>4. k - r \in 1 .. k /\ k - r + BlockSize - 1 <= m * BlockSize
  BY <1>0, <1>1, <1>3
<1> QED
  BY <1>4 DEF r

LEMMA RunDecrypts ==
  ASSUME NEW a \in Nat, NEW m \in Nat
  PROVE  Decrypted(Run(a, m * BlockSize), a) = Run(a, m * BlockSize)
<1> DEFINE c == m * BlockSize
           bytes == Run(a, c)
<1>0. c \in Nat /\ BlockSize \in Nat \ {0}
  BY RarAssumption
<1>1. \A k \in 1 .. c : k - ((k - 1) % BlockSize) \in 1 .. k /\ k - ((k - 1) % BlockSize) + BlockSize - 1 <= c
  BY BlockFits
<1> HIDE DEF c
<1>2. Len(bytes) = c /\ \A k \in 1 .. c : bytes[k] = a + k
  BY <1>0, RunIs
<1> HIDE DEF bytes
<1>3. ASSUME NEW k \in 1 .. c
      PROVE  LET first == k - ((k - 1) % BlockSize)
                 prev  == IF first = 1 THEN a ELSE bytes[first - 1]
             IN  \A j \in 0 .. BlockSize - 1 : bytes[first + j] = prev + 1 + j
  <2> DEFINE first == k - ((k - 1) % BlockSize)
             prev  == IF first = 1 THEN a ELSE bytes[first - 1]
  <2>1. first \in 1 .. k /\ first + BlockSize - 1 <= c
    BY <1>1
  <2> HIDE DEF first
  <2>2. prev = a + first - 1
    <3>1. CASE first = 1
      BY <3>1
    <3>2. CASE first # 1
      <4>1. first - 1 \in 1 .. c
        BY <1>0, <2>1, <3>2
      <4>2. bytes[first - 1] = a + (first - 1)
        BY <1>2, <4>1
      <4> QED
        BY <1>0, <2>1, <3>2, <4>2
    <3> QED
      BY <3>1, <3>2
  <2> HIDE DEF prev
  <2>3. ASSUME NEW j \in 0 .. BlockSize - 1 PROVE bytes[first + j] = prev + 1 + j
    <3>1. first + j \in 1 .. c
      BY <1>0, <2>1
    <3>2. bytes[first + j] = a + (first + j)
      BY <1>2, <3>1
    <3> QED
      BY <1>0, <2>1, <2>2, <3>2
  <2> QED
    BY <2>3 DEF first, prev
<1>4. Decrypted(bytes, a) = [k \in 1 .. c |-> bytes[k]]
  BY <1>2, <1>3 DEF Decrypted
<1>5. [k \in 1 .. c |-> bytes[k]] = Run(a, c)
  BY <1>2 DEF Run
<1> QED
  BY <1>4, <1>5 DEF bytes, c
LEMMA NoRun == ASSUME NEW a \in Nat PROVE Run(a, 0) = << >>
BY DEF Run

(* Induction over a number, as the least at which the claim fails.           *)
LEMMA Induct ==
  ASSUME NEW A, 0 \in A, \A k \in Nat : k \in A => k + 1 \in A
  PROVE  Nat \subseteq A
<1> DEFINE R == {p \in Nat \X Nat : p[1] < p[2]}
<1>1. OpToRel(<, Nat) = R
  BY DEF OpToRel
<1>2. IsWellFoundedOn(R, Nat)
  BY <1>1, NatLessThanWellFounded
<1> SUFFICES ASSUME Nat \ A # {} PROVE FALSE
  OBVIOUS
<1>3. PICK k \in Nat \ A : \A m \in Nat \ A : ~ (<<m, k>> \in R)
  <2> HIDE DEF R
  <2> QED
    BY <1>2, WFMin
<1>4. k # 0 /\ k - 1 \in Nat /\ <<k - 1, k>> \in R /\ (k - 1) + 1 = k
  BY <1>3
<1>5. k - 1 \in A
  BY <1>3, <1>4
<1> QED
  BY <1>3, <1>4, <1>5

-----------------------------------------------------------------------------
(* Whole archives *)

LEMMA PackedVolume ==
  ASSUME NEW from, WellPacked(from), NEW a \in Archives, a.whole, NEW v \in DOMAIN a.vols
  PROVE  /\ v \in Nat \ {0} /\ v <= Len(a.vols) /\ Len(a.vols) \in Nat
         /\ DOMAIN a.vols = 1 .. Len(a.vols)
         /\ Len(a.vols[v]) \in Nat /\ DOMAIN a.vols[v] = 1 .. Len(a.vols[v])
         /\ from[a][v][1] = IF v = 1 THEN 0 ELSE from[a][v - 1][Len(a.vols[v - 1]) + 1]
<1>1. Len(a.vols) \in Nat /\ DOMAIN a.vols = 1 .. Len(a.vols)
  BY Zenon DEF WellPacked
<1>2. /\ Len(a.vols[v]) \in Nat /\ DOMAIN a.vols[v] = 1 .. Len(a.vols[v])
      /\ from[a][v][1] = IF v = 1 THEN 0 ELSE from[a][v - 1][Len(a.vols[v - 1]) + 1]
  BY ZenonT(60) DEF WellPacked
<1>3. v \in Nat \ {0} /\ v <= Len(a.vols)
  BY <1>1
<1> QED
  BY <1>1, <1>2, <1>3

LEMMA PackedCell ==
  ASSUME NEW from, WellPacked(from), NEW a \in Archives, a.whole, NEW v \in DOMAIN a.vols,
         NEW k \in 1 .. Len(a.vols[v])
  PROVE  CellPacked(a.vols[v], k, from[a][v])
BY PackedVolume, ZenonT(60) DEF WellPacked

LEMMA OneFirst ==
  ASSUME NEW from, WellPacked(from), NEW a \in Archives, a.whole,
         NEW v \in DOMAIN a.vols, NEW k \in DOMAIN a.vols[v], Mine(a.vols[v][k]), a.vols[v][k].first,
         NEW u \in DOMAIN a.vols, NEW l \in DOMAIN a.vols[u], Mine(a.vols[u][l]), a.vols[u][l].first
  PROVE  v = u /\ k = l
BY DEF WellPacked

(* Cells of other blocks have no bytes of the file.                          *)
LEMMA SameBefore ==
  ASSUME NEW from, WellPacked(from), NEW a \in Archives, a.whole, NEW v \in DOMAIN a.vols,
         NEW p \in 0 .. Len(a.vols[v]), NEW q \in p .. Len(a.vols[v]),
         \A k \in p + 1 .. q : ~Mine(a.vols[v][k])
  PROVE  from[a][v][q + 1] = from[a][v][p + 1]
<1> DEFINE len == Len(a.vols[v])
           A   == {i \in Nat : p + i <= q => from[a][v][p + i + 1] = from[a][v][p + 1]}
<1>1. len \in Nat
  BY PackedVolume
<1> HIDE DEF len
<1>0. p \in 0 .. len /\ q \in p .. len
  BY DEF len
<1>2. 0 \in A
  BY <1>0, <1>1
<1>3. ASSUME NEW i \in Nat, i \in A, p + i + 1 <= q PROVE from[a][v][p + i + 2] = from[a][v][p + 1]
  <2>1. p + i + 1 \in 1 .. len /\ ~Mine(a.vols[v][p + i + 1])
    BY <1>0, <1>1, <1>3
  <2>2. from[a][v][p + i + 1 + 1] = from[a][v][p + i + 1] + 0 /\ from[a][v][p + i + 1] \in Nat
    BY <2>1, PackedCell DEF len, CellPacked
  <2>3. from[a][v][p + i + 1] = from[a][v][p + 1]
    BY <1>0, <1>1, <1>3
  <2>4. p + i + 1 + 1 = p + i + 2
    BY <1>0, <1>1
  <2> QED
    BY <2>2, <2>3, <2>4
<1>4. \A i \in Nat : i \in A => i + 1 \in A
  <2> SUFFICES ASSUME NEW i \in Nat, i \in A, p + (i + 1) <= q
               PROVE  from[a][v][p + (i + 1) + 1] = from[a][v][p + 1]
    OBVIOUS
  <2>1. p + i + 1 <= q /\ p + i + 2 = p + (i + 1) + 1
    BY <1>0, <1>1
  <2> HIDE DEF A
  <2> QED
    BY <1>3, <2>1
<1>5. Nat \subseteq A
  <2> HIDE DEF A
  <2> QED
    BY <1>2, <1>4, Induct
<1>6. q - p \in Nat /\ p + (q - p) = q
  BY <1>0, <1>1
<1>7. q - p \in A
  <2> HIDE DEF A
  <2> QED
    BY <1>5, <1>6
<1> QED
  BY <1>0, <1>1, <1>6, <1>7

(* A reader of volume v stands before cell p + 1 and has given the t bytes    *)
(* before it; the next m cells are the rest of a block of the file.          *)
Follows(from, a, v, p, m, t) ==
  /\ v \in DOMAIN a.vols /\ p \in Nat /\ m \in Nat /\ t \in Nat
  /\ p + m <= Len(a.vols[v])
  /\ from[a][v][p + 1] = t + m
  /\ \A j \in 1 .. m : a.vols[v][p + j].t = "data" /\ a.vols[v][p + j].byte = t + j
  /\ \E u \in DOMAIN a.vols : \E k \in DOMAIN a.vols[u] :
       u <= v /\ Mine(a.vols[u][k]) /\ a.vols[u][k].first /\ (u = v => k <= p)

(* Some of the block is given, *)
LEMMA DataFollows ==
  ASSUME NEW from, WellPacked(from), NEW a \in Archives, a.whole,
         NEW v, NEW p, NEW m, NEW t, Follows(from, a, v, p, m, t), NEW c \in 0 .. m
  PROVE  Follows(from, a, v, p + c, m - c, t + c)
<1> DEFINE len == Len(a.vols[v])
<1>1. v \in DOMAIN a.vols /\ p \in Nat /\ m \in Nat /\ t \in Nat /\ p + m <= len
  BY DEF Follows
<1>2. len \in Nat
  BY <1>1, PackedVolume
<1>3. \A j \in 1 .. m : a.vols[v][p + j].t = "data" /\ a.vols[v][p + j].byte = t + j
  BY DEF Follows
<1>4. from[a][v][p + 1] = t + m
  BY DEF Follows
<1>5. PICK u \in DOMAIN a.vols : \E k \in DOMAIN a.vols[u] :
        u <= v /\ Mine(a.vols[u][k]) /\ a.vols[u][k].first /\ (u = v => k <= p)
  BY DEF Follows
<1>6. PICK k \in DOMAIN a.vols[u] : u <= v /\ Mine(a.vols[u][k]) /\ a.vols[u][k].first /\ (u = v => k <= p)
  BY <1>5
<1> HIDE DEF len
<1>7. p \in 0 .. len /\ p + c \in p .. len
  BY <1>1, <1>2
<1>8. ASSUME NEW i \in p + 1 .. p + c PROVE ~Mine(a.vols[v][i])
  <2>1. i - p \in 1 .. m /\ p + (i - p) = i
    BY <1>1
  <2>2. a.vols[v][i].t = "data"
    BY <1>3, <2>1
  <2> QED
    BY <2>2 DEF Mine
<1>9. from[a][v][p + c + 1] = (t + c) + (m - c)
  <2>1. from[a][v][p + c + 1] = from[a][v][p + 1]
    BY <1>1, <1>7, <1>8, SameBefore DEF len
  <2> QED
    BY <1>1, <1>4, <2>1
<1>10. ASSUME NEW j \in 1 .. m - c
       PROVE  a.vols[v][p + c + j].t = "data" /\ a.vols[v][p + c + j].byte = t + c + j
  <2>1. c + j \in 1 .. m /\ p + (c + j) = p + c + j /\ t + (c + j) = t + c + j
    BY <1>1
  <2> QED
    BY <1>3, <2>1
<1>11. u = v => k <= p + c
  <2>1. k \in Nat
    BY <1>6, PackedVolume
  <2> QED
    BY <1>1, <1>6, <2>1
<1>12. p + c \in Nat /\ m - c \in Nat /\ t + c \in Nat /\ p + c + (m - c) <= len
  BY <1>1, <1>2
<1> QED
  BY <1>1, <1>6, <1>9, <1>10, <1>11, <1>12 DEF Follows, len

(* cells of something else are passed, *)
LEMMA PassFollows ==
  ASSUME NEW from, WellPacked(from), NEW a \in Archives, a.whole,
         NEW v, NEW p, NEW t, Follows(from, a, v, p, 0, t),
         NEW q \in p .. Len(a.vols[v]), \A k \in p + 1 .. q : ~Mine(a.vols[v][k])
  PROVE  Follows(from, a, v, q, 0, t)
<1> DEFINE len == Len(a.vols[v])
<1>1. v \in DOMAIN a.vols /\ p \in Nat /\ t \in Nat /\ p + 0 <= len
  BY DEF Follows
<1>2. len \in Nat
  BY <1>1, PackedVolume
<1>4. from[a][v][p + 1] = t + 0
  BY DEF Follows
<1>5. PICK u \in DOMAIN a.vols : \E k \in DOMAIN a.vols[u] :
        u <= v /\ Mine(a.vols[u][k]) /\ a.vols[u][k].first /\ (u = v => k <= p)
  BY DEF Follows
<1>6. PICK k \in DOMAIN a.vols[u] : u <= v /\ Mine(a.vols[u][k]) /\ a.vols[u][k].first /\ (u = v => k <= p)
  BY <1>5
<1>7. q \in p .. len
  OBVIOUS
<1> HIDE DEF len
<1>8. p \in 0 .. len /\ q \in Nat /\ q + 0 <= len
  BY <1>1, <1>2, <1>7
<1>9. from[a][v][q + 1] = t + 0
  BY <1>1, <1>4, <1>8, SameBefore DEF len
<1>11. u = v => k <= q
  <2>1. k \in Nat
    BY <1>6, PackedVolume
  <2> QED
    BY <1>1, <1>6, <1>7, <2>1
<1> QED
  BY <1>1, <1>6, <1>8, <1>9, <1>11 DEF Follows, len

(* the next block is begun,                                                  *)
LEMMA BlockFollows ==
  ASSUME NEW from, WellPacked(from), NEW a \in Archives, a.whole,
         NEW v, NEW p, NEW t, Follows(from, a, v, p, 0, t),
         p + 1 <= Len(a.vols[v]), Mine(a.vols[v][p + 1])
  PROVE  ~a.vols[v][p + 1].first /\ Follows(from, a, v, p + 1, a.vols[v][p + 1].size, t)
<1> DEFINE len  == Len(a.vols[v])
           cell == a.vols[v][p + 1]
           size == cell.size
<1>1. v \in DOMAIN a.vols /\ p \in Nat /\ t \in Nat
  BY DEF Follows
<1>2. len \in Nat /\ DOMAIN a.vols[v] = 1 .. len
  BY <1>1, PackedVolume
<1>3. from[a][v][p + 1] = t + 0
  BY DEF Follows
<1>4. PICK u \in DOMAIN a.vols : \E k \in DOMAIN a.vols[u] :
        u <= v /\ Mine(a.vols[u][k]) /\ a.vols[u][k].first /\ (u = v => k <= p)
  BY DEF Follows
<1>5. PICK k \in DOMAIN a.vols[u] : u <= v /\ Mine(a.vols[u][k]) /\ a.vols[u][k].first /\ (u = v => k <= p)
  BY <1>4
<1>6. k \in Nat
  BY <1>5, PackedVolume
<1>7. p + 1 \in 1 .. Len(a.vols[v])
  BY <1>1, <1>2
<1>8. ~cell.first
  <2> SUFFICES ASSUME cell.first PROVE FALSE
    OBVIOUS
  <2>1. u = v /\ k = p + 1
    BY <1>1, <1>2, <1>5, <1>7, OneFirst
  <2> QED
    BY <1>1, <1>5, <1>6, <2>1
<1>9. /\ size \in Nat /\ p + 1 + size <= len
      /\ \A j \in 1 .. size : a.vols[v][p + 1 + j].t = "data" /\ a.vols[v][p + 1 + j].byte = from[a][v][p + 1] + j
  <2>1. CellPacked(a.vols[v], p + 1, from[a][v])
    BY <1>1, <1>7, PackedCell
  <2> QED
    BY <2>1 DEF CellPacked, Mine
<1>10. from[a][v][p + 1 + 1] = from[a][v][p + 1] + size
  <2>1. CellPacked(a.vols[v], p + 1, from[a][v])
    BY <1>1, <1>7, PackedCell
  <2> QED
    BY <2>1 DEF CellPacked
<1>11. u = v => k <= p + 1
  BY <1>1, <1>5, <1>6
<1> HIDE DEF len, cell, size
<1>12. \A j \in 1 .. size : a.vols[v][p + 1 + j].t = "data" /\ a.vols[v][p + 1 + j].byte = t + j
  <2>1. from[a][v][p + 1] = t
    BY <1>1, <1>3
  <2> QED
    BY <1>9, <2>1, Zenon
<1>13. Follows(from, a, v, p + 1, size, t)
  BY <1>1, <1>3, <1>5, <1>9, <1>10, <1>11, <1>12 DEF Follows, len
<1> QED
  BY <1>8, <1>13 DEF cell, size

(* the next volume is begun.                                                 *)
LEMMA VolumeFollows ==
  ASSUME NEW from, WellPacked(from), NEW a \in Archives, a.whole,
         NEW v, NEW p, NEW t, Follows(from, a, v, p, 0, t),
         \A k \in p + 1 .. Len(a.vols[v]) : ~Mine(a.vols[v][k]), v < Len(a.vols)
  PROVE  v + 1 \in DOMAIN a.vols /\ Follows(from, a, v + 1, 0, 0, t)
<1> DEFINE len == Len(a.vols[v])
<1>1. v \in DOMAIN a.vols /\ p \in Nat /\ t \in Nat /\ p + 0 <= len
  BY DEF Follows
<1>2. len \in Nat /\ v \in Nat \ {0}
  BY <1>1, PackedVolume
<1>3. from[a][v][len + 1] = t + 0
  <2>1. len \in p .. len
    BY <1>1, <1>2
  <2>2. Follows(from, a, v, len, 0, t)
    BY <2>1, PassFollows
  <2> QED
    BY <2>2 DEF Follows
<1>4. PICK u \in DOMAIN a.vols : \E k \in DOMAIN a.vols[u] :
        u <= v /\ Mine(a.vols[u][k]) /\ a.vols[u][k].first /\ (u = v => k <= p)
  BY DEF Follows
<1>5. u <= v /\ \E k \in DOMAIN a.vols[u] : Mine(a.vols[u][k]) /\ a.vols[u][k].first
  BY <1>4
<1>6. v + 1 \in DOMAIN a.vols
  BY <1>1, PackedVolume
<1>7. from[a][v + 1][1] = from[a][v][len + 1] /\ Len(a.vols[v + 1]) \in Nat
  <2>1. v + 1 # 1 /\ (v + 1) - 1 = v
    BY <1>2
  <2> QED
    BY <1>6, <2>1, PackedVolume, SMTT(30)
<1>8. u \in Nat /\ u <= v + 1 /\ u # v + 1
  <2>1. u \in Nat
    BY <1>4, PackedVolume
  <2> QED
    BY <1>2, <1>5, <2>1
<1>9. from[a][v + 1][0 + 1] = t + 0 /\ 0 + 0 <= Len(a.vols[v + 1])
  BY <1>3, <1>7
<1> HIDE DEF len
<1> QED
  BY <1>1, <1>5, <1>6, <1>8, <1>9 DEF Follows

(* The first block of the file is begun.                                     *)
LEMMA FirstFollows ==
  ASSUME NEW from, WellPacked(from), NEW a \in Archives, a.whole, NEW v \in DOMAIN a.vols,
         NEW p \in 1 .. Len(a.vols[v]), Mine(a.vols[v][p]), a.vols[v][p].first
  PROVE  a.vols[v][p].length = Length /\ Follows(from, a, v, p, a.vols[v][p].size, 0)
<1> DEFINE size == a.vols[v][p].size
<1>1. CellPacked(a.vols[v], p, from[a][v])
  BY PackedCell
<1>2. /\ from[a][v][p] = 0 /\ a.vols[v][p].length = Length
      /\ size \in Nat /\ p + size <= Len(a.vols[v])
      /\ \A j \in 1 .. size : a.vols[v][p + j].t = "data" /\ a.vols[v][p + j].byte = from[a][v][p] + j
  BY <1>1 DEF CellPacked, Mine
<1>3. from[a][v][p + 1] = 0 + size
  BY <1>1, <1>2 DEF CellPacked
<1>4. v \in Nat /\ DOMAIN a.vols[v] = 1 .. Len(a.vols[v]) /\ Len(a.vols[v]) \in Nat
  BY PackedVolume
<1>5. v <= v /\ p <= p /\ p \in Nat
  BY <1>4
<1> HIDE DEF size
<1> QED
  BY <1>2, <1>3, <1>4, <1>5 DEF Follows, size

-----------------------------------------------------------------------------
(* The place in the current volume; later ones are at their start.           *)
AtPlace ==
  /\ vi \in DOMAIN arc.vols /\ vi \in Nat /\ DOMAIN at = DOMAIN arc.vols /\ Len(Cells) \in Nat
  /\ buf \in Nat /\ at[vi] \in Nat /\ buf <= at[vi] /\ at[vi] <= Len(Cells)
  /\ \A v \in DOMAIN arc.vols : v > vi => at[v] = 0

Moved(k) == AtPlace' /\ Place' = Place + k /\ Cells' = Cells

LEMMA PlaceIs == ASSUME AtPlace PROVE Place \in Nat /\ Place <= Len(Cells) /\ Left \in Nat /\ Place + Left = Len(Cells)
BY DEF AtPlace, Place, Left

(* The reader is put where it has the next more cells buffered.              *)
LEMMA PutMoves ==
  ASSUME AtPlace, NEW k \in Nat, NEW more \in Nat, k + more <= Left, UNCHANGED <<arc, vi>>,
         buf' = more, at' = [at EXCEPT ![vi] = Place + k + more]
  PROVE  Moved(k)
<1>1. Place \in Nat /\ Left \in Nat /\ Place + Left = Len(Cells)
  BY PlaceIs
<1>2. Cells' = Cells
  BY DEF Cells
<1>3. at'[vi] = Place + k + more /\ DOMAIN at' = DOMAIN at
  BY DEF AtPlace
<1>4. \A v \in DOMAIN arc.vols : v > vi => at'[v] = 0
  <2> SUFFICES ASSUME NEW v \in DOMAIN arc.vols, v > vi PROVE at'[v] = 0
    OBVIOUS
  <2>1. v # vi
    BY DEF AtPlace
  <2> QED
    BY <2>1 DEF AtPlace
<1>5. AtPlace'
  BY <1>1, <1>2, <1>3, <1>4 DEF AtPlace
<1>6. Place' = Place + k
  BY <1>1, <1>3 DEF Place
<1> QED
  BY <1>2, <1>5, <1>6 DEF Moved

LEMMA TakeMoves ==
  ASSUME AtPlace, NEW k \in Nat, k <= buf \/ (k <= BufferSize /\ k <= Left), Take(k), UNCHANGED <<arc, vi>>
  PROVE  Moved(k)
<1>1. PICK more \in Ahead(k) : buf' = more /\ at' = [at EXCEPT ![vi] = Place + k + more]
  BY DEF Take
<1>2. Left \in Nat /\ buf <= Left /\ buf \in Nat
  BY PlaceIs DEF Place, AtPlace
<1>3. more \in Nat /\ k + more <= Left
  BY <1>1, <1>2, VolumesAssumption DEF Ahead, Smaller
<1> QED
  BY <1>1, <1>3, PutMoves

LEMMA TakesOne ==
  ASSUME AtPlace, Left > 0, Take(1), UNCHANGED <<arc, vi>>
  PROVE  Moved(1)
<1>1. 1 <= BufferSize /\ 1 <= Left
  BY VolumesAssumption, PlaceIs
<1> QED
  BY <1>1, TakeMoves

LEMMA DiscardMoves ==
  ASSUME AtPlace, NEW k \in Nat, k <= Left, Discard(k), UNCHANGED <<arc, vi>>
  PROVE  Moved(k)
<1>1. CASE k <= buf
  BY <1>1, TakeMoves DEF Discard
<1>2. CASE ~(k <= buf)
  <2>1. buf' = 0 /\ at' = [at EXCEPT ![vi] = at[vi] + k - buf]
    BY <1>2 DEF Discard
  <2>2. at[vi] + k - buf = Place + k + 0
    BY DEF Place, AtPlace
  <2>3. k + 0 <= Left
    BY PlaceIs
  <2> QED
    BY <2>1, <2>2, <2>3, PutMoves
<1> QED
  BY <1>1, <1>2

(* What was buffered is lost when a discard fails.                           *)
LEMMA FailedDiscardMoves ==
  ASSUME AtPlace, NEW k \in Nat, DiscardFails(k), UNCHANGED <<arc, vi, at>>
  PROVE  \E i \in 0 .. k : i <= Left /\ Moved(i)
<1>1. buf \in 0 .. k /\ buf <= Left
  BY PlaceIs DEF DiscardFails, Place, AtPlace
<1>2. Cells' = Cells /\ buf' = 0
  BY DEF Cells, DiscardFails
<1>3. AtPlace' /\ Place' = Place + buf
  BY <1>2 DEF AtPlace, Place
<1> QED
  BY <1>1, <1>2, <1>3 DEF Moved

LEMMA NothingMoves ==
  ASSUME AtPlace, NEW k, GivesNothing(k), UNCHANGED <<arc, vi>>
  PROVE  Moved(0)
<1>1. CASE UNCHANGED <<at, buf>>
  BY <1>1, PlaceIs DEF AtPlace, Moved, Place, Cells
<1>2. CASE buf = 0 /\ buf' = Left /\ at' = [at EXCEPT ![vi] = at[vi] + Left]
  <2>1. at[vi] + Left = Place + 0 + Left /\ Left \in Nat /\ 0 + Left <= Left
    BY <1>2, PlaceIs DEF AtPlace, Place
  <2> QED
    BY <1>2, <2>1, PutMoves
<1> QED
  BY <1>1, <1>2 DEF GivesNothing

LEMMA GiveMoves ==
  ASSUME AtPlace, NEW c \in Nat, NEW stay \in Nat, c + stay <= Left, Give(c, stay), UNCHANGED <<arc, vi>>
  PROVE  Moved(c)
BY PutMoves DEF Give

(* What volume.Read gives of the k bytes that are wanted, and leaves behind. *)
LEMMA ReadsFit ==
  ASSUME AtPlace, NEW k \in Nat \ {0}, NEW r \in Reads(k)
  PROVE  /\ r[1] \in Nat \ {0} /\ r[1] <= k
         /\ r[2] \in Nat /\ r[1] + r[2] <= Left
<1>1. Left \in Nat /\ buf <= Left /\ buf \in Nat
  BY PlaceIs DEF Place, AtPlace
<1>2. CASE buf > 0
  BY <1>1, <1>2 DEF Reads, Smaller
<1>3. CASE ~(buf > 0) /\ k >= BufferSize
  <2>1. PICK c \in 1 .. Smaller(k, Left) : r = <<c, 0>>
    BY <1>3 DEF Reads
  <2>2. r[1] = c /\ r[2] = 0
    BY <2>1
  <2> QED
    BY <1>1, <2>2 DEF Smaller
<1>4. CASE ~(buf > 0) /\ ~(k >= BufferSize)
  <2>1. PICK c \in 1 .. Smaller(BufferSize, Left) : r = <<Smaller(k, c), c - Smaller(k, c)>>
    BY <1>4 DEF Reads
  <2>2. r[1] = Smaller(k, c) /\ r[2] = c - Smaller(k, c)
    BY <2>1
  <2> QED
    BY <1>1, <2>2, VolumesAssumption DEF Smaller
<1> QED
  BY <1>2, <1>3, <1>4

LEMMA SlicesFit ==
  ASSUME AtPlace, n \in Nat \ {0}, NEW r \in Slices
  PROVE  /\ r[1] \in Nat \ {0} /\ r[1] <= n
         /\ r[2] \in Nat /\ r[1] + r[2] <= Left
<1>1. Left \in Nat /\ buf <= Left /\ buf \in Nat
  BY PlaceIs DEF Place, AtPlace
<1>2. PICK c \in IF buf > 0 THEN {buf} ELSE Smaller(n, BufferSize) .. Smaller(BufferSize, Left) :
        r = <<Smaller(n, c), c - Smaller(n, c)>>
  BY DEF Slices
<1>3. r[1] = Smaller(n, c) /\ r[2] = c - Smaller(n, c)
  BY <1>2
<1>4. c \in Nat \ {0} /\ c <= Left
  <2>1. CASE buf > 0
    BY <1>1, <1>2, <2>1
  <2>2. CASE ~(buf > 0)
    BY <1>1, <1>2, <2>2, VolumesAssumption DEF Smaller
  <2> QED
    BY <2>1, <2>2
<1> QED
  BY <1>1, <1>3, <1>4 DEF Smaller

(* The signature that findSig comes to is the first one.                     *)
LEMMA LeastIs ==
  ASSUME NEW S \in SUBSET Nat, S # {}
  PROVE  Min(S) \in S /\ \A k \in S : Min(S) <= k
<1> DEFINE R == {p \in Nat \X Nat : p[1] < p[2]}
<1>1. OpToRel(<, Nat) = R
  BY DEF OpToRel
<1>2. IsWellFoundedOn(R, Nat)
  BY <1>1, NatLessThanWellFounded
<1>3. PICK m \in S : \A k \in S : ~ (<<k, m>> \in R)
  <2> HIDE DEF R
  <2> QED
    BY <1>2, WFMin
<1>4. \A k \in S : m <= k
  <2> SUFFICES ASSUME NEW k \in S, k < m PROVE FALSE
    OBVIOUS
  <2>1. <<k, m>> \in R
    OBVIOUS
  <2> HIDE DEF R
  <2> QED
    BY <1>3, <2>1
<1> QED
  BY <1>4 DEF Min

LEMMA SigMoves ==
  ASSUME AtPlace, FindSig, UNCHANGED <<arc, vi>>
  PROVE  \/ /\ \E k \in 1 .. Left : /\ Moved(k) /\ Cells[Place + k].t = "sig"
                                    /\ \A j \in 1 .. k - 1 : Cells[Place + j].t # "sig"
            /\ pc' = (IF pc = "open" THEN "skip" ELSE pc) /\ step' = (IF pc = "open" THEN "data" ELSE "header")
         \/ Moved(0) /\ Fail
<1> DEFINE ahead == {k \in 1 .. Left : Cells[Place + k].t = "sig"}
<1>0. Left \in Nat
  BY PlaceIs
<1>1. CASE UNCHANGED <<at, buf>> /\ Fail
  BY <1>1, PlaceIs DEF AtPlace, Moved, Place, Cells
<1>2. CASE /\ ahead # {}
           /\ \E more \in {0, Smaller(BufferSize - 1, Left - Min(ahead))} :
                buf' = more /\ at' = [at EXCEPT ![vi] = Place + Min(ahead) + more]
           /\ pc' = (IF pc = "open" THEN "skip" ELSE pc) /\ step' = (IF pc = "open" THEN "data" ELSE "header")
  <2> DEFINE k == Min(ahead)
  <2>1. k \in ahead /\ \A j \in ahead : k <= j
    <3>1. ahead \in SUBSET Nat
      BY <1>0
    <3> HIDE DEF ahead
    <3> QED
      BY <1>2, <3>1, LeastIs
  <2>2. PICK more \in {0, Smaller(BufferSize - 1, Left - k)} :
          buf' = more /\ at' = [at EXCEPT ![vi] = Place + k + more]
    BY <1>2
  <2> HIDE DEF k
  <2>3. k \in 1 .. Left /\ Cells[Place + k].t = "sig"
    BY <2>1
  <2>4. \A j \in 1 .. k - 1 : Cells[Place + j].t # "sig"
    <3> SUFFICES ASSUME NEW j \in 1 .. k - 1, Cells[Place + j].t = "sig" PROVE FALSE
      OBVIOUS
    <3>1. j \in ahead
      BY <1>0, <2>3
    <3> HIDE DEF ahead
    <3> QED
      BY <1>0, <2>1, <2>3, <3>1
  <2>5. more \in Nat /\ k + more <= Left /\ k \in Nat
    BY <1>0, <2>2, <2>3, VolumesAssumption DEF Smaller
  <2>6. Moved(k)
    BY <2>2, <2>5, PutMoves
  <2> QED
    BY <1>2, <2>3, <2>4, <2>6
<1> QED
  BY <1>1, <1>2 DEF FindSig

-----------------------------------------------------------------------------
(* The search for headers                                                    *)

(* Where the search of a whole archive is.                                   *)
HeadInv ==
  /\ n \in Nat
  /\ encrypted => \E j \in 1 .. Place : Encrypts(Cells[j])
  /\ step \in {"sig", "volume", "service"} => pc \in {"open", "skip", "first", "block"}
  /\ step \in {"sig", "volume"} => ~encrypted
  /\ step = "sig" => Place = 0
  /\ step = "service" => Place \in 1 .. Len(Cells) /\ Cells[Place].t = "service"
  /\ pc = "named" => /\ Place \in 1 .. Len(Cells) /\ Cells[Place].t = "file" /\ Cells[Place].first
                     /\ h.name = Cells[Place].name /\ h.length = Cells[Place].length /\ n = Cells[Place].size

Placed == AtPlace /\ HeadInv

(* Bytes that have left the packed reader.                                   *)
Taken == Len(hash) + Len(cipher.out) + Len(cipher.in) + Len(cipher.part)

(* The reader is within the file, and finds its next block.                  *)
Sited(from) ==
  /\ h.name = Name
  /\ Follows(from, arc, vi, Place, n, Taken)
  /\ encrypted /\ ~(pc = "block" /\ step = "salted") => Cells[Place].t # "salt"
  /\ pc = "block" => /\ n = 0
                     /\ step = "volume" => \A k \in Place + 1 .. Len(Cells) : ~Mine(Cells[k])

Whole(from) == WellPacked(from) /\ arc \in Archives /\ arc.whole /\ Placed

Blocked(from) == pc = "block" /\ Sited(from) /\ ~HeaderMissed /\ UNCHANGED <<hash, cipher>>

LEMMA StaysPut == ASSUME AtPlace, UNCHANGED <<arc, at, vi, buf>> PROVE Moved(0)
BY PlaceIs DEF AtPlace, Moved, Place, Cells

LEMMA MovedIs ==
  ASSUME AtPlace, NEW k \in Nat, Moved(k), UNCHANGED <<arc, vi>>
  PROVE  /\ AtPlace' /\ Cells' = Cells /\ Place' = Place + k /\ Place \in Nat /\ Place' \in Nat
         /\ Len(Cells) \in Nat /\ Place' <= Len(Cells)
<1>1. AtPlace' /\ Cells' = Cells /\ Place' = Place + k
  BY DEF Moved
<1>2. Place \in Nat /\ Place' \in Nat /\ Place' <= Len(Cells')
  BY <1>1, PlaceIs, SMTT(30) DEF AtPlace, Place
<1> QED
  BY <1>1, <1>2 DEF AtPlace

LEMMA CellIs ==
  ASSUME NEW from, Whole(from), NEW k \in 1 .. Len(Cells)
  PROVE  CellPacked(Cells, k, from[arc][vi])
BY PackedCell DEF Whole, Placed, AtPlace, Cells

LEMMA ReachedIs ==
  ASSUME NEW from, Whole(from), NEW k \in 1 .. Len(Cells), Mine(Cells[k])
  PROVE  Reached(Cells, k)
BY CellIs DEF CellPacked

(* What a step has to show for the place it leaves.                          *)
LEMMA PassPlaced ==
  ASSUME Placed, NEW k \in Nat, Moved(k), UNCHANGED <<arc, vi>>, n' \in Nat,
         encrypted' => encrypted \/ \E j \in 1 .. k : Encrypts(Cells[Place + j]),
         step' = "volume" => ~encrypted', step' # "sig",
         step' = "service" => k = 1 /\ Cells[Place + 1].t = "service",
         step' \in {"volume", "service"} => pc' \in {"open", "skip", "first", "block"}, pc' # "named"
  PROVE  Placed'
<1>1. /\ AtPlace' /\ Cells' = Cells /\ Place' = Place + k /\ Place \in Nat /\ Place' \in Nat
      /\ Len(Cells) \in Nat /\ Place' <= Len(Cells)
  BY MovedIs DEF Placed
<1>2. ASSUME encrypted' PROVE \E j \in 1 .. Place' : Encrypts(Cells'[j])
  <2>1. CASE encrypted
    <3>1. PICK j \in 1 .. Place : Encrypts(Cells[j])
      BY <2>1 DEF Placed, HeadInv
    <3>2. j \in 1 .. Place'
      BY <1>1
    <3> QED
      BY <1>1, <3>1, <3>2
  <2>2. CASE \E j \in 1 .. k : Encrypts(Cells[Place + j])
    <3>1. PICK j \in 1 .. k : Encrypts(Cells[Place + j])
      BY <2>2
    <3>2. Place + j \in 1 .. Place'
      BY <1>1
    <3> QED
      BY <1>1, <3>1, <3>2
  <2> QED
    BY <1>2, <2>1, <2>2
<1>3. step' = "service" => Place' \in 1 .. Len(Cells') /\ Cells'[Place'].t = "service"
  BY <1>1
<1>4. HeadInv'
  BY <1>2, <1>3 DEF HeadInv
<1> QED
  BY <1>1, <1>4 DEF Placed

LEMMA PassSited ==
  ASSUME NEW from, Whole(from), Sited(from), pc = "block", UNCHANGED <<hash, cipher>>,
         NEW k \in Nat, Moved(k), UNCHANGED <<arc, vi, n, h>>,
         \A i \in 1 .. k : ~Mine(Cells[Place + i]),
         encrypted' => Cells[Place + k].t # "salt" \/ (pc' = "block" /\ step' = "salted"),
         step' = "volume" => \A i \in Place + k + 1 .. Len(Cells) : ~Mine(Cells[i])
  PROVE  Sited(from)'
<1>1. /\ Cells' = Cells /\ Place' = Place + k /\ Place \in Nat /\ Place' \in Nat
      /\ Len(Cells) \in Nat /\ Place' <= Len(Cells)
  BY MovedIs DEF Placed, Whole
<1>2. Taken' = Taken /\ n = 0 /\ n' = 0
  BY DEF Taken, Sited
<1>3. Follows(from, arc, vi, Place + k, 0, Taken)
  <2>1. Follows(from, arc, vi, Place, 0, Taken)
    BY <1>2 DEF Sited
  <2>2. Place + k \in Place .. Len(arc.vols[vi])
    BY <1>1 DEF Cells
  <2>3. ASSUME NEW i \in Place + 1 .. Place + k PROVE ~Mine(arc.vols[vi][i])
    <3>1. i - Place \in 1 .. k /\ Place + (i - Place) = i
      BY <1>1
    <3> QED
      BY <3>1 DEF Cells
  <2> QED
    BY <2>1, <2>2, <2>3, PassFollows DEF Whole
<1>4. Follows(from, arc', vi', Place', n', Taken')
  BY <1>1, <1>2, <1>3
<1> QED
  BY <1>1, <1>2, <1>4 DEF Sited

LEMMA SigKeeps ==
  ASSUME NEW from, Whole(from), FindSig
  PROVE  Placed' /\ (Blocked(from) => Sited(from)')
<1> USE DEF packedVars, flagVars
<1>0. /\ AtPlace /\ HeadInv /\ step = "sig" /\ UNCHANGED <<arc, held, vi, key, multi, encrypted, n, h>>
      /\ ~encrypted /\ Place = 0 /\ n \in Nat /\ pc # "named"
  BY DEF FindSig, Whole, Placed, HeadInv
<1>1. CASE Moved(0) /\ Fail
  <2>1. step' = "header" /\ pc' \in {"unopened", "failed"}
    BY <1>1 DEF Fail
  <2>2. Placed'
    BY <1>0, <1>1, <2>1, PassPlaced DEF Whole
  <2>3. Blocked(from) => Sited(from)'
    BY <1>0, <1>1, <2>1, PassSited DEF Blocked
  <2> QED
    BY <2>2, <2>3
<1>2. ASSUME NEW k \in 1 .. Left, Moved(k), Cells[Place + k].t = "sig",
             \A j \in 1 .. k - 1 : Cells[Place + j].t # "sig",
             pc' = (IF pc = "open" THEN "skip" ELSE pc), step' = (IF pc = "open" THEN "data" ELSE "header")
      PROVE  Placed' /\ (Blocked(from) => Sited(from)')
  <2>1. step' \in {"data", "header"} /\ pc' # "named" /\ Left \in Nat /\ k \in Nat
    BY <1>0, <1>2, PlaceIs
  <2>2. Placed'
    BY <1>0, <1>2, <2>1, PassPlaced DEF Whole
  <2>3. ASSUME NEW i \in 1 .. k PROVE ~Mine(Cells[Place + i])
    <3>1. Place + i = i /\ i \in 1 .. Len(Cells)
      BY <1>0, <2>1, PlaceIs
    <3>2. \A j \in 1 .. i - 1 : Cells[j].t # "sig"
      <4> SUFFICES ASSUME NEW j \in 1 .. i - 1 PROVE Cells[j].t # "sig"
        OBVIOUS
      <4>1. j \in 1 .. k - 1 /\ Place + j = j
        BY <1>0, <2>1
      <4> QED
        BY <1>2, <4>1
    <3> QED
      BY <3>1, <3>2, ReachedIs DEF Reached
  <2>4. Blocked(from) => Sited(from)'
    BY <1>0, <1>2, <2>1, <2>3, PassSited DEF Blocked
  <2> QED
    BY <2>2, <2>4
<1> QED
  BY <1>0, <1>1, <1>2, SigMoves

LEMMA VolumePlaced ==
  ASSUME NEW from, Whole(from), NextVolume
  PROVE  Placed' /\ (Blocked(from) => Sited(from)')
<1> USE DEF packedVars, flagVars
<1>0. /\ AtPlace /\ step = "volume" /\ UNCHANGED <<arc, at, key, multi, encrypted, n, h>>
      /\ ~encrypted /\ n \in Nat /\ pc \in {"open", "skip", "first", "block"}
  BY DEF NextVolume, Whole, Placed, HeadInv
<1>1. CASE Fail /\ UNCHANGED <<vi, buf>>
  <2>1. step' = "header" /\ pc' \in {"unopened", "failed"} /\ Moved(0)
    BY <1>0, <1>1, StaysPut DEF Fail
  <2>2. Placed'
    BY <1>0, <1>1, <2>1, PassPlaced DEF Whole
  <2>3. Blocked(from) => Sited(from)'
    BY <1>0, <1>1, <2>1, PassSited DEF Blocked
  <2> QED
    BY <2>2, <2>3
<1>2. CASE vi < Len(arc.vols) /\ vi' = vi + 1 /\ buf' = 0 /\ step' = "sig" /\ pc' = pc
  <2>1. /\ vi \in DOMAIN arc.vols /\ DOMAIN arc.vols = 1 .. Len(arc.vols) /\ Len(arc.vols) \in Nat /\ vi \in Nat \ {0}
    BY <1>0, PackedVolume DEF Whole, AtPlace
  <2>2. vi' \in DOMAIN arc.vols /\ vi' > vi /\ vi' \in Nat
    BY <1>2, <2>1
  <2>3. at[vi'] = 0 /\ Len(arc.vols[vi']) \in Nat
    BY <1>0, <2>2, PackedVolume DEF AtPlace, Whole
  <2>4. \A v \in DOMAIN arc.vols : v > vi' => at[v] = 0
    BY <1>0, <1>2, <2>1 DEF AtPlace
  <2>5. AtPlace' /\ Place' = 0
    BY <1>0, <1>2, <2>2, <2>3, <2>4 DEF AtPlace, Place, Cells
  <2>6. HeadInv'
    BY <1>0, <1>2, <2>5 DEF HeadInv
  <2>7. ASSUME Blocked(from) PROVE Sited(from)'
    <3>1. /\ n = 0 /\ h.name = Name /\ Follows(from, arc, vi, Place, 0, Taken) /\ Taken' = Taken
          /\ \A k \in Place + 1 .. Len(arc.vols[vi]) : ~Mine(arc.vols[vi][k])
      BY <1>0, <2>7 DEF Blocked, Sited, Taken, Cells
    <3>2. Follows(from, arc, vi', 0, 0, Taken)
      BY <1>2, <3>1, VolumeFollows DEF Whole
    <3> QED
      BY <1>0, <1>2, <2>5, <3>1, <3>2 DEF Sited
  <2> QED
    BY <2>5, <2>6, <2>7 DEF Placed
<1> QED
  BY <1>1, <1>2 DEF NextVolume, Buffer

(* A header that is not one of the file is passed.                           *)
LEMMA HeaderKeeps ==
  ASSUME NEW from, Whole(from), Left > 0, Take(1), UNCHANGED <<arc, vi, n, h>>,
         Cells[Place + 1].t \notin {"file", "salt"}, pc # "named",
         encrypted' => encrypted \/ Encrypts(Cells[Place + 1]),
         step' = "volume" => ~encrypted' /\ Cells[Place + 1].t = "end", step' # "sig",
         step' = "service" => Cells[Place + 1].t = "service",
         pc \in {"skip", "block", "first"}, pc' = pc \/ Fail
  PROVE  Placed' /\ (Blocked(from) => Sited(from)')
<1>1. AtPlace /\ HeadInv /\ Moved(1) /\ n' \in Nat
  BY TakesOne DEF Whole, Placed, HeadInv
<1>2. /\ pc' # "named"
      /\ step' \in {"volume", "service"} => pc' \in {"open", "skip", "first", "block"}
  BY DEF Fail
<1>3. encrypted' => encrypted \/ \E j \in 1 .. 1 : Encrypts(Cells[Place + j])
  OBVIOUS
<1>4. Placed'
  BY <1>1, <1>2, <1>3, PassPlaced DEF Whole
<1>5. \A i \in 1 .. 1 : ~Mine(Cells[Place + i])
  BY DEF Mine
<1>6. ASSUME step' = "volume" PROVE \A i \in Place + 1 + 1 .. Len(Cells) : ~Mine(Cells[i])
  <2> SUFFICES ASSUME NEW i \in Place + 1 + 1 .. Len(Cells), Mine(Cells[i]) PROVE FALSE
    OBVIOUS
  <2>1. Place \in Nat /\ Len(Cells) \in Nat
    BY <1>1, PlaceIs DEF AtPlace
  <2>2. i \in 1 .. Len(Cells) /\ Place + 1 \in 1 .. i - 1
    BY <2>1
  <2>3. Cells[Place + 1].t # "end"
    BY <2>2, ReachedIs DEF Reached
  <2> QED
    BY <1>6, <2>3
<1>7. Blocked(from) => Sited(from)'
  BY <1>1, <1>5, <1>6, PassSited DEF Blocked
<1> QED
  BY <1>4, <1>7

LEMMA HeadersKeep ==
  ASSUME NEW from, Whole(from), MainHeader \/ EncryptionHeader \/ ServiceHeader \/ EndHeader
  PROVE  Placed' /\ (Blocked(from) => Sited(from)')
<1> USE DEF packedVars, flagVars, AtHeader, InHeaders, Pass, Encrypts
<1>1. CASE MainHeader
  BY <1>1, HeaderKeeps DEF MainHeader
<1>2. CASE EncryptionHeader
  <2>1. step' = "header" /\ (pc' = pc \/ Fail)
    BY <1>2 DEF EncryptionHeader, Fail
  <2> QED
    BY <1>2, <2>1, HeaderKeeps DEF EncryptionHeader
<1>3. CASE ServiceHeader
  BY <1>3, HeaderKeeps DEF ServiceHeader
<1>4. CASE EndHeader
  <2>1. (step' = "volume" /\ ~encrypted' /\ pc' = pc) \/ (Fail /\ step' = "header" /\ encrypted' = encrypted)
    BY <1>4 DEF EndHeader, Fail
  <2> QED
    BY <1>4, <2>1, HeaderKeeps DEF EndHeader
<1> QED
  BY <1>1, <1>2, <1>3, <1>4

LEMMA SaltKeeps ==
  ASSUME NEW from, Whole(from), ReadSalt
  PROVE  Placed' /\ (Blocked(from) => Sited(from)')
<1> USE DEF packedVars, flagVars
<1>0. /\ AtPlace /\ HeadInv /\ step = "header" /\ encrypted /\ UNCHANGED <<arc, vi, key, multi, encrypted, n, h>>
      /\ n' \in Nat /\ pc \in {"skip", "block", "first"}
  BY DEF ReadSalt, InHeaders, Whole, Placed, HeadInv
<1>1. CASE Fail /\ UNCHANGED <<at, buf>>
  <2>1. step' = "header" /\ pc' \in {"unopened", "failed"} /\ Moved(0)
    BY <1>0, <1>1, StaysPut DEF Fail
  <2>2. Placed'
    BY <1>0, <2>1, PassPlaced DEF Whole
  <2>3. ASSUME Blocked(from) PROVE Sited(from)'
    <3>1. Cells[Place + 0].t # "salt"
      BY <1>0, <2>3, PlaceIs DEF Blocked, Sited
    <3> QED
      BY <1>0, <2>1, <2>3, <3>1, PassSited DEF Blocked
  <2> QED
    BY <2>2, <2>3
<1>2. CASE /\ Left > 0 /\ Take(1) /\ pc' = pc
           /\ step' = IF Cells[Place + 1].t = "salt" THEN "salted" ELSE "garbled"
  <2>1. Moved(1) /\ pc' = pc /\ step' \in {"salted", "garbled"} /\ Left > 0
    BY <1>0, <1>2, TakesOne
  <2>2. Placed'
    BY <1>0, <2>1, PassPlaced DEF Whole
  <2>3. ASSUME Blocked(from) PROVE Sited(from)'
    <3>1. ~Mine(Cells[Place + 1])
      <4> SUFFICES ASSUME Mine(Cells[Place + 1]) PROVE FALSE
        OBVIOUS
      <4>1. Place \in Nat /\ Place + 1 \in 1 .. Len(Cells)
        BY <1>0, <1>2, PlaceIs
      <4>2. Cells[Place + 1 - 1].t # "salt" /\ Place + 1 - 1 = Place
        BY <1>0, <2>3, <4>1 DEF Blocked, Sited
      <4>3. PICK j \in 1 .. Place : Encrypts(Cells[j])
        BY <1>0 DEF HeadInv
      <4>4. j \in 1 .. Place + 1 - 1
        BY <4>2, <4>3
      <4> QED
        BY <4>1, <4>2, <4>3, <4>4, ReachedIs DEF Reached
    <3>2. \A i \in 1 .. 1 : ~Mine(Cells[Place + i])
      BY <3>1
    <3>3. Cells[Place + 1].t # "salt" \/ (pc' = "block" /\ step' = "salted")
      BY <1>2, <2>3 DEF Blocked
    <3> QED
      BY <1>0, <2>1, <2>3, <3>2, <3>3, PassSited DEF Blocked
  <2> QED
    BY <2>2, <2>3
<1> QED
  BY <1>1, <1>2 DEF ReadSalt

(* Cells of a block that is passed over. *)
LEMMA DataKeeps ==
  ASSUME NEW from, Whole(from), step = "service", NEW k \in 0 .. Cells[Place].size, k <= Left, Moved(k),
         UNCHANGED <<arc, vi, encrypted, n, h>>, step' = "header", pc' # "named"
  PROVE  Placed' /\ (Blocked(from) => Sited(from)')
<1>0. AtPlace /\ HeadInv /\ n' \in Nat /\ Place \in 1 .. Len(Cells) /\ Cells[Place].t = "service"
  BY DEF Whole, Placed, HeadInv
<1>1. CellPacked(Cells, Place, from[arc][vi])
  BY <1>0, CellIs
<1>2. Cells[Place].size \in Nat
  BY <1>0, <1>1 DEF CellPacked
<1>3. k \in Nat
  BY <1>2
<1>4. Placed'
  BY <1>0, <1>3, PassPlaced DEF Whole
<1>5. ASSUME NEW i \in 1 .. k PROVE Cells[Place + i].t = "data"
  <2>1. Place + i \in Place + 1 .. Len(Cells) /\ Place + i <= Place + Cells[Place].size
    BY <1>0, <1>2, <1>3, PlaceIs
  <2> QED
    BY <1>0, <1>1, <2>1 DEF CellPacked
<1>6. \A i \in 1 .. k : ~Mine(Cells[Place + i])
  BY <1>5 DEF Mine
<1>7. Cells[Place + k].t # "salt"
  <2>1. CASE k = 0
    BY <1>0, <2>1
  <2>2. CASE k # 0
    <3>1. k \in 1 .. k
      BY <1>3, <2>2
    <3> QED
      BY <1>5, <3>1
  <2> QED
    BY <2>1, <2>2
<1>8. Blocked(from) => Sited(from)'
  BY <1>0, <1>3, <1>6, <1>7, PassSited DEF Blocked
<1> QED
  BY <1>4, <1>8

LEMMA ServiceKeeps ==
  ASSUME NEW from, Whole(from), ServiceData
  PROVE  Placed' /\ (Blocked(from) => Sited(from)')
<1> DEFINE size == Cells[Place].size
<1> USE DEF packedVars, flagVars
<1>0. /\ AtPlace /\ HeadInv /\ step = "service" /\ UNCHANGED <<arc, vi, encrypted, n, h>>
      /\ pc # "named" /\ pc \in {"open", "skip", "first", "block"}
      /\ Place \in 1 .. Len(Cells) /\ Cells[Place].t = "service"
  BY DEF ServiceData, Whole, Placed, HeadInv
<1>1. size \in Nat
  <2>1. CellPacked(Cells, Place, from[arc][vi])
    BY <1>0, CellIs
  <2> QED
    BY <1>0, <2>1 DEF CellPacked
<1>2. CASE size <= Left /\ Discard(size) /\ step' = "header" /\ UNCHANGED <<faults, pc>>
  <2>1. Moved(size)
    BY <1>0, <1>1, <1>2, DiscardMoves
  <2>2. size \in 0 .. Cells[Place].size
    BY <1>1
  <2> QED
    BY <1>0, <1>2, <2>1, <2>2, DataKeeps
<1>3. CASE DiscardFails(size) /\ Fail /\ UNCHANGED at
  <2>1. PICK i \in 0 .. size : i <= Left /\ Moved(i)
    BY <1>0, <1>1, <1>3, FailedDiscardMoves
  <2>2. step' = "header" /\ pc' # "named"
    BY <1>3 DEF Fail
  <2> QED
    BY <1>0, <2>1, <2>2, DataKeeps
<1> QED
  BY <1>2, <1>3 DEF ServiceData

LEMMA EndKeeps ==
  ASSUME NEW from, Whole(from), VolumeEnds \/ NoHeaderHere
  PROVE  Placed' /\ (Blocked(from) => Sited(from)')
<1> USE DEF packedVars, flagVars, volumeVars
<1>0. /\ AtPlace /\ HeadInv /\ UNCHANGED <<arc, vi, n, h>> /\ n' \in Nat /\ Moved(0)
      /\ pc \in {"skip", "block", "first"}
  BY StaysPut DEF VolumeEnds, NoHeaderHere, InHeaders, Whole, Placed, HeadInv
<1>1. CASE Fail /\ UNCHANGED encrypted
  <2>1. step' = "header" /\ pc' = "failed"
    BY <1>0, <1>1 DEF Fail
  <2>2. Placed'
    BY <1>0, <1>1, <2>1, PassPlaced DEF Whole
  <2>3. ASSUME Blocked(from) PROVE Sited(from)'
    <3>1. step # "salted"
      BY <2>1, <2>3 DEF Blocked, HeaderMissed, VolumeEnds, NoHeaderHere
    <3>2. encrypted => Cells[Place + 0].t # "salt"
      BY <1>0, <2>3, <3>1, PlaceIs DEF Blocked, Sited
    <3> QED
      BY <1>0, <1>1, <2>1, <2>3, <3>2, PassSited DEF Blocked
  <2> QED
    BY <2>2, <2>3
<1>2. CASE VolumeEnds /\ step' = "volume" /\ encrypted' = FALSE /\ UNCHANGED pc
  <2>1. Placed'
    BY <1>0, <1>2, PassPlaced DEF Whole
  <2>2. ASSUME Blocked(from) PROVE Sited(from)'
    <3>1. \A i \in Place + 0 + 1 .. Len(Cells) : ~Mine(Cells[i])
      <4>1. Place \in Nat /\ Place + 0 + 1 > Len(Cells) /\ Len(Cells) \in Nat
        BY <1>0, <1>2, PlaceIs DEF VolumeEnds, AtPlace
      <4> QED
        BY <4>1
    <3> QED
      BY <1>0, <1>2, <2>2, <3>1, PassSited DEF Blocked
  <2> QED
    BY <2>1, <2>2
<1> QED
  BY <1>1, <1>2 DEF VolumeEnds, NoHeaderHere

LEMMA ParsedIs ==
  ASSUME NEW cell, {"name", "first", "size", "length"} \subseteq DOMAIN cell,
         NEW block, block = Parsed15(cell) \/ block = Parsed50(cell)
  PROVE  block.name = cell.name /\ block.first = cell.first /\ block.size = cell.size /\ block.length = cell.length
BY DEF Parsed15, Parsed50

LEMMA FileKeeps ==
  ASSUME NEW from, Whole(from), FileHeader
  PROVE  Placed' /\ (Blocked(from) => Sited(from)')
<1> DEFINE cell  == Cells[Place + 1]
           block == IF arc.ver = 15 THEN Parsed15(cell) ELSE Parsed50(cell)
<1> USE DEF packedVars, flagVars
<1>0. /\ AtPlace /\ HeadInv /\ UNCHANGED <<arc, vi, encrypted>> /\ n \in Nat /\ Left > 0 /\ Moved(1)
      /\ cell.t = "file" /\ pc \in {"skip", "block", "first"}
  <2>1. Left > 0 /\ Take(1) /\ UNCHANGED <<arc, vi, encrypted>> /\ cell.t = "file" /\ pc \in {"skip", "block", "first"}
    BY DEF FileHeader, AtHeader, InHeaders
  <2>2. AtPlace /\ HeadInv /\ n \in Nat
    BY DEF Whole, Placed, HeadInv
  <2> QED
    BY <2>1, <2>2, TakesOne
<1>1. /\ AtPlace' /\ Cells' = Cells /\ Place' = Place + 1 /\ Place \in Nat /\ Place' \in Nat
      /\ Len(Cells) \in Nat /\ Place' <= Len(Cells) /\ Place' \in 1 .. Len(Cells)
  <2>1. /\ AtPlace' /\ Cells' = Cells /\ Place' = Place + 1 /\ Place \in Nat /\ Place' \in Nat
        /\ Len(Cells) \in Nat /\ Place' <= Len(Cells)
    BY <1>0, MovedIs
  <2> QED
    BY <2>1
<1>2. cell.size \in Nat /\ {"name", "first", "size", "length"} \subseteq DOMAIN cell
  <2>1. CellPacked(Cells, Place + 1, from[arc][vi])
    BY <1>1, CellIs
  <2> QED
    BY <1>0, <2>1 DEF CellPacked
<1>3. block.name = cell.name /\ block.first = cell.first /\ block.size = cell.size /\ block.length = cell.length
  BY <1>2, ParsedIs
<1>4. /\ pc = "first" => FirstBlock(block)
      /\ pc # "first" /\ GoesOn(block) => /\ h' = block /\ n' = block.size /\ step' = "data"
                                          /\ pc' = IF pc = "skip" THEN "skip" ELSE "packed"
      /\ pc # "first" /\ ~GoesOn(block) => Fail /\ UNCHANGED <<n, h>>
  BY DEF FileHeader
<1> HIDE DEF block, cell
<1>5. CASE Fail /\ n' = n
  <2>1. step' = "header" /\ pc' = "failed"
    BY <1>0, <1>5 DEF Fail
  <2>2. Placed'
    BY <1>0, <1>5, <2>1, PassPlaced DEF Whole
  <2>3. ASSUME Blocked(from) PROVE Sited(from)'
    <3>1. pc = "block" /\ Sited(from) /\ n = 0 /\ h.name = Name
      BY <2>3 DEF Blocked, Sited
    <3>2. UNCHANGED <<n, h>> /\ ~GoesOn(block)
      BY <1>0, <1>4, <2>1, <3>1
    <3>3. ~Mine(cell)
      <4> SUFFICES ASSUME Mine(cell) PROVE FALSE
        OBVIOUS
      <4>1. Follows(from, arc, vi, Place, 0, Taken)
        BY <3>1 DEF Sited
      <4>2. ~cell.first
        BY <1>1, <4>1, BlockFollows DEF Whole, Cells, cell
      <4>3. block.name = h.name /\ ~block.first
        BY <1>3, <3>1, <4>2 DEF Mine
      <4> QED
        BY <3>2, <4>3 DEF GoesOn
    <3>4. \A i \in 1 .. 1 : ~Mine(Cells[Place + i])
      BY <3>3 DEF cell
    <3>5. Cells[Place + 1].t # "salt"
      BY <1>0 DEF cell
    <3> QED
      BY <1>0, <1>5, <2>1, <2>3, <3>2, <3>4, <3>5, PassSited DEF Blocked
  <2> QED
    BY <2>2, <2>3
<1>6. CASE pc = "first" /\ block.first /\ h' = block /\ n' = block.size /\ pc' = "named" /\ step' = "data"
  <2>1. Cells'[Place'] = cell
    BY <1>1 DEF cell
  <2>2. n' \in Nat /\ (encrypted' => \E j \in 1 .. Place' : Encrypts(Cells'[j]))
    <3>1. ASSUME encrypted PROVE \E j \in 1 .. Place' : Encrypts(Cells'[j])
      <4>1. PICK j \in 1 .. Place : Encrypts(Cells[j])
        BY <1>0, <3>1 DEF HeadInv
      <4> QED
        BY <1>1, <4>1
    <3> QED
      BY <1>0, <1>2, <1>3, <1>6, <3>1
  <2>3. HeadInv'
    BY <1>0, <1>1, <1>3, <1>6, <2>1, <2>2 DEF HeadInv
  <2> QED
    BY <1>1, <1>6, <2>3 DEF Placed, Blocked
<1>7. CASE pc # "first" /\ GoesOn(block) /\ h' = block /\ n' = block.size /\ step' = "data"
           /\ pc' = IF pc = "skip" THEN "skip" ELSE "packed"
  <2>1. n' \in Nat /\ pc' \in {"skip", "packed"}
    BY <1>2, <1>3, <1>7
  <2>2. Placed'
    BY <1>0, <1>7, <2>1, PassPlaced DEF Whole
  <2>3. ASSUME Blocked(from) PROVE Sited(from)'
    <3>1. pc = "block" /\ h.name = Name /\ Follows(from, arc, vi, Place, 0, Taken) /\ Taken' = Taken
      BY <2>3 DEF Blocked, Sited, Taken
    <3>2. Mine(cell)
      BY <1>0, <1>3, <1>7, <3>1 DEF GoesOn, Mine
    <3>3. Follows(from, arc, vi, Place + 1, cell.size, Taken)
      BY <1>1, <3>1, <3>2, BlockFollows DEF Whole, Cells, cell
    <3>4. Follows(from, arc', vi', Place', n', Taken')
      BY <1>0, <1>1, <1>3, <1>7, <3>1, <3>3
    <3>5. Cells'[Place'].t # "salt"
      BY <1>0, <1>1 DEF cell
    <3>6. h'.name = Name /\ pc' # "block"
      BY <1>7, <1>3, <3>1, <3>2 DEF GoesOn
    <3> QED
      BY <3>4, <3>5, <3>6 DEF Sited
  <2> QED
    BY <2>2, <2>3
<1> QED
  BY <1>4, <1>5, <1>6, <1>7 DEF FirstBlock

LEMMA NextKeeps ==
  ASSUME NEW from, Whole(from), NextBlock
  PROVE  Placed' /\ (Blocked(from) => Sited(from)')
<1> USE DEF packedVars, flagVars
<1>0. /\ AtPlace /\ HeadInv /\ UNCHANGED <<arc, vi, encrypted>> /\ n \in Nat /\ step = "data"
      /\ pc \in {"skip", "block"}
  BY DEF NextBlock, Whole, Placed, HeadInv
<1>1. CASE n > 0 /\ n <= Left /\ Discard(n) /\ n' = 0 /\ UNCHANGED <<pc, step>>
  <2>1. Moved(n) /\ n' \in Nat
    BY <1>0, <1>1, DiscardMoves
  <2>2. Placed'
    BY <1>0, <1>1, <2>1, PassPlaced DEF Whole
  <2> QED
    BY <1>1, <2>2 DEF Blocked, Sited
<1>2. CASE n > 0 /\ DiscardFails(n) /\ Fail /\ UNCHANGED <<at, n>>
  <2>1. PICK i \in 0 .. n : i <= Left /\ Moved(i)
    BY <1>0, <1>2, FailedDiscardMoves
  <2>2. i \in Nat /\ n' \in Nat /\ step' = "header" /\ pc' # "named" /\ pc' = "failed"
    BY <1>0, <1>2 DEF Fail
  <2>3. Placed'
    BY <1>0, <1>2, <2>1, <2>2, PassPlaced DEF Whole
  <2> QED
    BY <1>2, <2>3 DEF Blocked, Sited
<1>3. CASE /\ n = 0 /\ step' = "header" /\ UNCHANGED <<at, buf, n>> /\ pc' \in {"skip", "block", "first", "failed"}
           /\ pc = "block" => h' = h
  <2>1. Moved(0) /\ n' \in Nat
    BY <1>0, <1>3, StaysPut
  <2>2. Placed'
    BY <1>0, <1>3, <2>1, PassPlaced DEF Whole
  <2>3. ASSUME Blocked(from) PROVE Sited(from)'
    <3>1. encrypted => Cells[Place + 0].t # "salt"
      BY <1>0, <2>3, PlaceIs DEF Blocked, Sited
    <3> QED
      BY <1>0, <1>3, <2>1, <2>3, <3>1, PassSited DEF Blocked
  <2> QED
    BY <2>2, <2>3
<1>4. n = 0 => /\ step' = "header" /\ UNCHANGED <<at, buf, n>> /\ pc' \in {"skip", "block", "first", "failed"}
               /\ pc = "block" => h' = h
  BY <1>0 DEF NextBlock
<1> QED
  BY <1>0, <1>1, <1>2, <1>3, <1>4 DEF NextBlock

LEMMA SearchKeeps ==
  ASSUME NEW from, Whole(from), VolumeStep
  PROVE  Placed' /\ (Blocked(from) => Sited(from)')
<1> HIDE DEF Whole, Blocked, Placed, Sited
<1> QED
  BY SigKeeps, VolumePlaced, HeadersKeep, SaltKeeps, ServiceKeeps, EndKeeps, FileKeeps, NextKeeps DEF VolumeStep

-----------------------------------------------------------------------------
(* The call                                                                  *)

StepInv == step \in {"sig", "volume", "service"} => pc \in {"open", "skip", "first", "block"}

(* A Seek back is underway and has lost the place; only an opened reader is   *)
(* read; and a volume that is back at its start stays there.                 *)
CallInv ==
  /\ arc \in Archives /\ DOMAIN at = DOMAIN arc.vols
  /\ StepInv
  /\ job \in {"idle", "open", "list", "read", "seek"} /\ (pc = "idle" <=> job = "idle")
  /\ back => job = "seek" /\ lost /\ target \in 0 .. Length
  /\ job = "idle" => ~back
  /\ pc \in {"rewinding", "unwound"} => back
  /\ Looking \/ pc = "unopened" => job \in {"open", "list"} \/ back
  /\ Found => job \in {"read", "seek"}
  /\ pc = "skipping" => job = "seek"
  /\ pc = "panic" => lost
  /\ job \in {"open", "list"} => reader = "none"
  /\ reader = "none" => job \in {"idle", "open", "list"} /\ answer.op \in {"none", "open", "list"} /\ index = 0
  /\ reader \in {"none", "open", "nil", "stale"}
  /\ reader \in {"nil", "stale"} => lost
  /\ back /\ (Looking \/ Found) => reader = "open"
  /\ pc = "rewinding" => \A v \in DOMAIN arc.vols : v \in rewind \/ at[v] = 0

LEMMA CallInit == RarInit => CallInv
BY DEF RarInit, CallInv, StepInv, Looking, Found

LEMMA SearchCalls ==
  ASSUME CallInv, VolumeStep
  PROVE  /\ \/ pc \in {"open", "skip", "first"} /\ pc' \in {"open", "skip", "first", "named", "unopened", "failed"}
            \/ pc = "block" /\ pc' \in {"block", "packed", "failed"}
         /\ StepInv' /\ arc' = arc /\ DOMAIN at' = DOMAIN at
<1> USE DEF CallInv, StepInv, Fail, AtHeader, InHeaders, Pass, Take
<1>1. CASE FindSig \/ NextVolume
  BY <1>1 DEF FindSig, NextVolume
<1>2. CASE ReadSalt \/ MainHeader \/ EncryptionHeader
  BY <1>2 DEF ReadSalt, MainHeader, EncryptionHeader
<1>3. CASE ServiceHeader \/ ServiceData
  BY <1>3 DEF ServiceHeader, ServiceData, Discard
<1>4. CASE EndHeader \/ VolumeEnds \/ NoHeaderHere
  BY <1>4 DEF EndHeader, VolumeEnds, NoHeaderHere, volumeVars
<1>5. CASE FileHeader
  BY <1>5 DEF FileHeader, FirstBlock
<1>6. CASE NextBlock
  BY <1>6 DEF NextBlock, Discard
<1> QED
  BY <1>1, <1>2, <1>3, <1>4, <1>5, <1>6 DEF VolumeStep

LEMMA SearchKeepsCall ==
  ASSUME CallInv, VolumeStep, lost => lost', UNCHANGED <<streamVars, index, callVars, answer>>
  PROVE  CallInv'
<1>1. /\ \/ pc \in {"open", "skip", "first"} /\ pc' \in {"open", "skip", "first", "named", "unopened", "failed"}
         \/ pc = "block" /\ pc' \in {"block", "packed", "failed"}
      /\ StepInv' /\ arc' = arc /\ DOMAIN at' = DOMAIN at
  BY SearchCalls
<1> QED
  BY <1>1 DEF CallInv, streamVars, callVars, Looking, Found

LEMMA ReturnKeepsCall ==
  ASSUME CallInv, NEW bytes, NEW err, Return(bytes, err), UNCHANGED <<arc, at>>,
         reader' \in {"none", "open", "nil", "stale"},
         reader' \in {"nil", "stale"} => lost',
         reader' = "none" => job \in {"open", "list"} /\ index' = 0
  PROVE  CallInv'
BY DEF Return, CallInv, StepInv, Looking, Found

(* A step of a call within the file.                                         *)
LEMMA FoundKeepsCall ==
  ASSUME CallInv, Found, pc' \in {"reading", "cipher", "packed", "block", "failed", "panic"} \/ (pc' = "skipping" /\ job = "seek"),
         UNCHANGED <<arc, job, target, back, rewind, lost, reader, index, answer>>, DOMAIN at' = DOMAIN at,
         (step' = step /\ pc # "block") \/ step' \in {"header", "data"}, pc' = "panic" => lost
  PROVE  CallInv'
BY DEF CallInv, StepInv, Looking, Found

LEMMA DeliverKeepsCall ==
  ASSUME CallInv, Found, pc # "block", NEW bytes, Deliver(bytes), arc' = arc, DOMAIN at' = DOMAIN at,
         step' = step \/ step' \in {"header", "data"}
  PROVE  CallInv'
<1>1. CASE job = "read"
  BY <1>1 DEF Deliver, Return, CallInv, StepInv, Looking, Found
<1>2. CASE job # "read"
  <2>1. pc' = "skipping" /\ job = "seek" /\ UNCHANGED <<job, target, back, rewind, lost, reader, index, answer>>
    BY <1>2 DEF Deliver, CallInv
  <2> QED
    BY <2>1, FoundKeepsCall
<1> QED
  BY <1>1, <1>2

LEMMA CallerKeepsCall ==
  ASSUME CallInv, Caller
  PROVE  CallInv'
<1> USE DEF CallInv, StepInv, Looking, Found, packVars, packedVars, volumeVars, streamVars, callVars
<1>1. CASE Open
  BY <1>1 DEF Open, NewMultiReader, NewVolume, Buffer
<1>2. ASSUME NEW k, Read(k) PROVE CallInv'
  BY <1>2 DEF Read
<1>3. ASSUME NEW to, SeekNowhere(to) PROVE CallInv'
  BY <1>3 DEF SeekNowhere
<1>4. ASSUME NEW to, SeekForward(to) PROVE CallInv'
  BY <1>4 DEF SeekForward
<1>5. ASSUME NEW to, SeekBack(to) PROVE CallInv'
  BY <1>5 DEF SeekBack
<1> QED
  BY <1>1, <1>2, <1>3, <1>4, <1>5 DEF Caller

LEMMA StepKeepsCall ==
  ASSUME CallInv, Step
  PROVE  CallInv'
<1> USE DEF packVars, packedVars, volumeVars, streamVars, callVars
<1>1. CASE VolumeStep /\ lost' = (lost \/ HeaderMissed) /\ UNCHANGED <<streamVars, index, callVars, answer>>
  <2> HIDE DEF VolumeStep, HeaderMissed
  <2> QED
    BY <1>1, SearchKeepsCall
<1>2. CASE FileFound
  <2>1. CASE job = "open"
    <3>1. Return(<< >>, "nil") /\ UNCHANGED <<arc, at>> /\ reader' = "open"
      BY <1>2, <2>1 DEF FileFound
    <3> QED
      BY <3>1, ReturnKeepsCall
  <2>2. CASE job # "open"
    BY <1>2, <2>2 DEF FileFound, CallInv, StepInv, Looking, Found
  <2> QED
    BY <2>1, <2>2
<1>3. CASE OtherFile
  BY <1>3 DEF OtherFile, CallInv, StepInv, Looking, Found
<1>4. CASE FirstFile
  <2>1. Return(<< >>, "nil") /\ UNCHANGED <<arc, at, reader, index, lost>> /\ job = "list"
    BY <1>4 DEF FirstFile
  <2> QED
    BY <2>1, ReturnKeepsCall DEF CallInv
<1>5. CASE ReadNil
  <2>1. lost
    BY <1>5 DEF ReadNil, CallInv
  <2> QED
    BY <1>5, <2>1, FoundKeepsCall DEF ReadNil, Found
<1>6. CASE NextFile
  <2>1. CASE h = NoHeader
    BY <1>6, <2>1, ReturnKeepsCall DEF NextFile
  <2>2. CASE h # NoHeader
    BY <1>6, <2>2, FoundKeepsCall DEF NextFile, Found
  <2> QED
    BY <2>1, <2>2
<1>7. CASE AtLimit
  <2>1. CASE SumMatches
    BY <1>7, <2>1, ReturnKeepsCall DEF AtLimit
  <2>2. CASE ~SumMatches
    BY <1>7, <2>2, FoundKeepsCall DEF AtLimit, Found
  <2> QED
    BY <2>1, <2>2
<1>8. CASE Below \/ EmptyBlock
  BY <1>8, FoundKeepsCall DEF Below, EmptyBlock, Found
<1>9. CASE ReadPlain
  <2>1. Found /\ arc' = arc /\ pc = "packed"
    BY <1>9 DEF ReadPlain, Found
  <2>2. CASE GivesNothing(1) /\ UNCHANGED <<n, streamVars, index, callVars, lost, answer>>
    BY <2>1, <2>2, FoundKeepsCall DEF GivesNothing, Fail
  <2>3. ASSUME NEW r \in Reads(Smaller(Room, n)), Give(r[1], r[2]), Deliver(Bytes(r[1])) PROVE CallInv'
    <3>1. DOMAIN at' = DOMAIN at /\ (step' = step \/ step' = "data")
      BY <2>3 DEF Give, Deliver, Return
    <3> QED
      BY <2>1, <2>3, <3>1, DeliverKeepsCall
  <2> QED
    BY <1>9, <2>2, <2>3 DEF ReadPlain
<1>10. CASE FillCipher
  <2>1. Found /\ arc' = arc /\ DOMAIN at' = DOMAIN at /\ pc' \in {"cipher", "failed"} /\ (step' = step \/ step' = "header")
        /\ pc = "packed"
    BY <1>10 DEF FillCipher, Found, Give, GivesNothing, Fail
  <2> QED
    BY <1>10, <2>1, FoundKeepsCall DEF FillCipher
<1>11. CASE KeyCipher
  BY <1>11, FoundKeepsCall DEF KeyCipher, Found
<1>12. ASSUME NEW block, NEW rest, DeliverBlock(block, rest), Found, pc # "block", arc' = arc, DOMAIN at' = DOMAIN at
       PROVE  CallInv'
  <2>1. PICK bytes : Deliver(bytes)
    BY <1>12 DEF DeliverBlock
  <2>2. step' = step \/ step' \in {"header", "data"}
    BY <2>1 DEF Deliver, Return
  <2> QED
    BY <1>12, <2>1, <2>2, DeliverKeepsCall
<1>13. CASE Cipher
  <2>1. Found /\ arc' = arc /\ at' = at /\ pc = "cipher"
    BY <1>13 DEF Cipher, Found
  <2>2. \/ \E bytes : Deliver(bytes)
        \/ \E block, rest : DeliverBlock(block, rest)
        \/ pc' = "packed" /\ UNCHANGED <<step, reader, index, callVars, lost, answer>>
    BY <1>13 DEF Cipher
  <2>3. ASSUME NEW bytes, Deliver(bytes) PROVE CallInv'
    <3>1. step' = step \/ step' \in {"header", "data"}
      BY <2>3 DEF Deliver, Return
    <3> QED
      BY <2>1, <2>3, <3>1, DeliverKeepsCall
  <2>4. CASE pc' = "packed" /\ UNCHANGED <<step, reader, index, callVars, lost, answer>>
    BY <2>1, <2>4, FoundKeepsCall
  <2> QED
    BY <1>12, <2>1, <2>2, <2>3, <2>4
<1>14. CASE FillBlock
  <2>1. Found /\ arc' = arc /\ pc = "packed" /\ DOMAIN at' = DOMAIN at
    BY <1>14 DEF FillBlock, Found, Give, GivesNothing
  <2>2. \/ \E block : DeliverBlock(block, << >>)
        \/ pc' \in {"packed", "failed"} /\ (step' = step \/ step' = "header") /\ UNCHANGED <<reader, index, callVars, lost, answer>>
    BY <1>14 DEF FillBlock, GivesNothing, Fail
  <2>3. CASE pc' \in {"packed", "failed"} /\ (step' = step \/ step' = "header") /\ UNCHANGED <<reader, index, callVars, lost, answer>>
    BY <2>1, <2>3, FoundKeepsCall
  <2> QED
    BY <1>12, <2>1, <2>2, <2>3
<1>15. ASSUME NEW v \in rewind, RewindVolume(v) PROVE CallInv'
  BY <1>15 DEF RewindVolume, CallInv, StepInv, Looking, Found
<1>16. CASE Reopen
  BY <1>16 DEF Reopen, NewMultiReader, NewVolume, Buffer, CallInv, StepInv, Looking, Found
<1>17. CASE ReopenFails
  BY <1>17 DEF ReopenFails, CallInv, StepInv, Looking, Found
<1>18. CASE Skip
  <2>1. CASE SkipsOn
    BY <1>18, <2>1, FoundKeepsCall DEF Skip, Found
  <2>2. CASE ~SkipsOn
    <3>1. Return(<< >>, "nil") /\ lost' = (lost /\ ~back) /\ UNCHANGED <<arc, at, reader>> /\ pc = "skipping"
      BY <1>18, <2>2 DEF Skip
    <3>2. reader \in {"nil", "stale"} => lost'
      BY <3>1 DEF CallInv, Found
    <3>3. reader # "none"
      BY <3>1 DEF CallInv
    <3> QED
      BY <3>1, <3>2, <3>3, ReturnKeepsCall DEF CallInv
  <2> QED
    BY <2>1, <2>2
<1>19. CASE Failed
  <2>1. Return(<< >>, "error") /\ UNCHANGED <<arc, at, reader, index>> /\ (lost => lost') /\ pc = "failed"
    BY <1>19 DEF Failed
  <2> QED
    BY <2>1, ReturnKeepsCall DEF CallInv
<1>20. CASE Unopened
  <2>1. Return(<< >>, "error") /\ UNCHANGED <<arc, at, index, lost>> /\ pc = "unopened"
        /\ reader' = IF job = "seek" THEN "nil" ELSE reader
    BY <1>20 DEF Unopened
  <2> QED
    BY <2>1, ReturnKeepsCall DEF CallInv
<1>21. CASE Panic
  <2>1. Return(<< >>, "panic") /\ UNCHANGED <<arc, at, reader, index, lost>> /\ pc = "panic"
    BY <1>21 DEF Panic
  <2> QED
    BY <2>1, ReturnKeepsCall DEF CallInv
<1> QED
  BY <1>1, <1>2, <1>3, <1>4, <1>5, <1>6, <1>7, <1>8, <1>9, <1>10, <1>11, <1>13, <1>14, <1>15, <1>16, <1>17,
     <1>18, <1>19, <1>20, <1>21 DEF Step

-----------------------------------------------------------------------------
(* The streams                                                               *)

(* The reader of a whole archive has its place, or a Seek back has begun again *)
Sound  == arc.whole /\ (~lost \/ (back /\ (Looking \/ Found)))

(* and is within the file.                                                   *)
InFile == arc.whole /\ reader = "open" /\ (~lost \/ (back /\ Found))

StreamInv ==
  /\ Len(hash) \in Nat /\ hash = Run(0, Len(hash))
  /\ lim = -1 => Len(hash) = 0 /\ h.length = Length
  /\ lim # -1 => lim \in Nat /\ Len(hash) + lim = Length
  /\ job \in {"idle", "read"} => Len(hash) = index
  /\ job = "seek" => want \in Nat /\ Len(hash) + want = target /\ target \in 0 .. Length
  /\ pc \in {"reading", "cipher", "packed", "block"} => want \in Nat \ {0}
  /\ pc \in {"cipher", "packed", "block"} => lim \in Nat \ {0}

(* The cipher holds the bytes that follow the first k, of which part of a      *)
(* block is held only where no other byte is.                                *)
CipherAt(c, k) ==
  /\ DOMAIN c = {"on", "keyed", "in", "part", "out", "last"}
  /\ Len(c.out) \in Nat /\ Len(c.in) \in Nat /\ Len(c.part) \in Nat
  /\ ~c.on => c.out = << >> /\ c.in = << >> /\ c.part = << >>
  /\ c.on => /\ c.out = Run(k, Len(c.out)) /\ c.last = k + Len(c.out)
             /\ c.in = Run(c.last, Len(c.in)) /\ c.part = Run(c.last, Len(c.part))
  /\ c.part # << >> => c.in = << >> /\ c.out = << >> /\ Len(c.part) < BlockSize

CipherInv ==
  /\ CipherAt(cipher, Len(hash))
  /\ lim = -1 => cipher = NoCipher
  /\ pc \in {"packed", "block"} => cipher.in = << >> /\ cipher.out = << >>
  /\ cipher.part # << >> => pc \in {"packed", "block", "failed"}

FileInv(from) ==
  /\ Sound => Placed
  /\ arc.whole /\ ~lost => index \in 0 .. Length
  /\ InFile => Sited(from) /\ StreamInv /\ CipherInv

LEMMA DeliverStreams ==
  ASSUME StreamInv, pc \in {"packed", "cipher"}, job \in {"read", "seek"},
         NEW c \in Nat \ {0}, c <= Room, Deliver(Run(Len(hash), c))
  PROVE  /\ StreamInv' /\ Len(hash') = Len(hash) + c /\ lim' \in Nat /\ pc' \in {"idle", "skipping"}
         /\ job = "read" => Return(Run(index, c), "nil") /\ index' = index + c /\ c <= Length - index
         /\ job = "seek" => UNCHANGED <<index, answer>>
<1> DEFINE k == Len(hash)
<1>1. k \in Nat /\ want \in Nat \ {0} /\ lim \in Nat \ {0} /\ k + lim = Length /\ c <= lim /\ c <= want
  BY DEF StreamInv, Room, Smaller
<1>2. hash' = Run(0, k + c)
  <2>1. 0 + k = k
    BY <1>1
  <2>2. hash' = Run(0, k) \o Run(0 + k, c)
    BY <2>1 DEF StreamInv, Deliver
  <2>3. hash' = Run(0, k + c)
    <3>1. 0 \in Nat /\ c \in Nat
      OBVIOUS
    <3> HIDE DEF k
    <3> QED
      BY <1>1, <2>2, <3>1, RunJoins
  <2> QED
    BY <2>3
<1>3. Len(Run(k, c)) = c
  BY <1>1, RunIs
<1>4. lim' = lim - c
  BY <1>3 DEF Deliver
<1> HIDE DEF k
<1>5. Len(hash') = k + c
  <2>1. k + c \in Nat /\ 0 \in Nat
    BY <1>1
  <2> QED
    BY <1>2, <2>1, RunIs
<1>6. lim' \in Nat /\ k + c + lim' = Length /\ lim' # -1 /\ k + c \in Nat
  BY <1>1, <1>4
<1>7. CASE job = "read"
  <2>1. Return(Run(k, c), "nil") /\ index' = index + c /\ index = k
    BY <1>3, <1>7 DEF Deliver, StreamInv, k
  <2>2. StreamInv'
    BY <1>2, <1>5, <1>6, <2>1 DEF StreamInv, Return
  <2>3. c <= Length - index
    BY <1>1, <2>1
  <2> QED
    BY <1>5, <1>6, <1>7, <2>1, <2>2, <2>3 DEF Return, k
<1>8. CASE job = "seek"
  <2>1. pc' = "skipping" /\ want' = want - c /\ UNCHANGED <<step, job, target, back, rewind, index, answer>>
    BY <1>3, <1>8 DEF Deliver, k
  <2>2. want' \in Nat /\ k + c + want' = target' /\ target' \in 0 .. Length
    BY <1>1, <1>8, <2>1 DEF StreamInv, k
  <2>3. StreamInv'
    BY <1>2, <1>5, <1>6, <1>8, <2>1, <2>2 DEF StreamInv
  <2> QED
    BY <1>5, <1>6, <1>8, <2>1, <2>3 DEF k
<1> QED
  BY <1>7, <1>8

-----------------------------------------------------------------------------
(* The cipher                                                                *)

(* What is decrypted already is delivered, *)
LEMMA OutAt ==
  ASSUME NEW k \in Nat, NEW c, CipherAt(c, k), NEW s \in 1 .. Len(c.out)
  PROVE  /\ SubSeq(c.out, 1, s) = Run(k, s)
         /\ CipherAt([c EXCEPT !.out = SubSeq(c.out, s + 1, Len(c.out))], k + s)
<1> DEFINE d   == [c EXCEPT !.out = SubSeq(c.out, s + 1, Len(c.out))]
           len == Len(c.out)
<1>1. len \in Nat /\ s \in Nat /\ s <= len /\ s > 0
  BY DEF CipherAt
<1>2. c.out # << >>
  BY <1>1
<1>3. c.on /\ c.out = Run(k, len) /\ c.last = k + len /\ c.part = << >>
  BY <1>2 DEF CipherAt
<1> HIDE DEF len
<1>4. SubSeq(Run(k, len), 1, s) = Run(k, s) /\ SubSeq(Run(k, len), s + 1, len) = Run(k + s, len - s)
  BY <1>1, RunParts
<1>5. Len(Run(k + s, len - s)) = len - s /\ len - s \in Nat /\ (k + s) + (len - s) = k + len
  <2>1. k + s \in Nat /\ len - s \in Nat /\ (k + s) + (len - s) = k + len
    BY <1>1
  <2> QED
    BY <2>1, RunIs
<1>6. /\ d.on = c.on /\ d.in = c.in /\ d.part = c.part /\ d.last = c.last /\ d.out = Run(k + s, len - s)
      /\ DOMAIN d = {"on", "keyed", "in", "part", "out", "last"}
  BY <1>3, <1>4 DEF CipherAt, len
<1> HIDE DEF d
<1>7. CipherAt(d, k + s)
  BY <1>3, <1>5, <1>6 DEF CipherAt
<1> QED
  BY <1>3, <1>4, <1>7 DEF d, len

(* a block is decrypted, of which some is delivered, *)
LEMMA BlockAt ==
  ASSUME NEW k \in Nat, NEW c, CipherAt(c, k), c.on, c.out = << >>,
         NEW block, block = Run(k, BlockSize), NEW i \in Nat, NEW s \in 1 .. BlockSize
  PROVE  LET plain == Decrypted(block, c.last) IN
         /\ SubSeq(plain, 1, s) = Run(k, s)
         /\ CipherAt([c EXCEPT !.in = Run(k + BlockSize, i), !.part = << >>, !.last = Last(block),
                               !.out = SubSeq(plain, s + 1, BlockSize)], k + s)
<1> DEFINE plain == Decrypted(block, c.last)
           d == [c EXCEPT !.in = Run(k + BlockSize, i), !.part = << >>, !.last = Last(block),
                          !.out = SubSeq(plain, s + 1, BlockSize)]
<1>0. BlockSize \in Nat \ {0} /\ s \in Nat /\ s <= BlockSize
  BY RarAssumption
<1>1. c.last = k
  BY DEF CipherAt
<1>2. plain = Run(k, BlockSize)
  <2>1. 1 * BlockSize = BlockSize /\ 1 \in Nat
    BY <1>0
  <2>2. Decrypted(Run(k, 1 * BlockSize), k) = Run(k, 1 * BlockSize)
    BY <2>1, RunDecrypts
  <2> QED
    BY <1>1, <2>1, <2>2
<1> HIDE DEF plain
<1>3. SubSeq(plain, 1, s) = Run(k, s) /\ SubSeq(plain, s + 1, BlockSize) = Run(k + s, BlockSize - s)
  BY <1>0, <1>2, RunParts
<1>4. /\ Len(Run(k + s, BlockSize - s)) = BlockSize - s /\ BlockSize - s \in Nat
      /\ (k + s) + (BlockSize - s) = k + BlockSize /\ k + BlockSize \in Nat
  <2>1. k + s \in Nat /\ BlockSize - s \in Nat /\ (k + s) + (BlockSize - s) = k + BlockSize /\ k + BlockSize \in Nat
    BY <1>0
  <2> QED
    BY <2>1, RunIs
<1>5. Last(block) = k + BlockSize
  <2>1. /\ Len(Run(k, BlockSize)) = BlockSize
        /\ \A j \in 1 .. BlockSize : Run(k, BlockSize)[j] = k + j
    BY <1>0, RunIs
  <2>2. BlockSize \in 1 .. BlockSize
    BY <1>0
  <2> QED
    BY <2>1, <2>2 DEF Last
<1>6. /\ d.on = c.on /\ d.in = Run(k + BlockSize, i) /\ d.part = << >> /\ d.last = k + BlockSize
      /\ d.out = Run(k + s, BlockSize - s)
      /\ DOMAIN d = {"on", "keyed", "in", "part", "out", "last"}
  BY <1>3, <1>5 DEF CipherAt
<1>7. Len(Run(k + BlockSize, i)) = i /\ Run(k + BlockSize, 0) = << >>
  BY <1>4, RunIs, NoRun
<1> HIDE DEF d
<1>8. CipherAt(d, k + s)
  <2>1. Len(d.out) = BlockSize - s /\ Len(d.in) = i /\ Len(d.part) = 0
    BY <1>4, <1>6, <1>7
  <2> QED
    BY <1>4, <1>6, <1>7, <2>1 DEF CipherAt
<1> QED
  BY <1>3, <1>8 DEF plain, d

(* or whole blocks are,                                                      *)
LEMMA BlocksAt ==
  ASSUME NEW k \in Nat, NEW c, CipherAt(c, k), c.out = << >>, NEW m \in Nat \ {0}, m * BlockSize <= Len(c.in)
  PROVE  LET w == m * BlockSize IN
         /\ Decrypted(SubSeq(c.in, 1, w), c.last) = Run(k, w)
         /\ CipherAt([c EXCEPT !.in = SubSeq(c.in, w + 1, Len(c.in)), !.last = c.in[w]], k + w)
<1> DEFINE w   == m * BlockSize
           len == Len(c.in)
           d   == [c EXCEPT !.in = SubSeq(c.in, w + 1, Len(c.in)), !.last = c.in[w]]
<1>0. w \in Nat /\ w > 0 /\ len \in Nat /\ w <= len
  <2>1. BlockSize \in Nat \ {0}
    BY RarAssumption
  <2>2. m * BlockSize \in Nat /\ m * BlockSize > 0
    BY <2>1
  <2> QED
    BY <2>2 DEF CipherAt
<1>1. c.in # << >>
  BY <1>0
<1>2. c.on /\ c.last = k /\ c.in = Run(k, len) /\ c.part = << >>
  BY <1>1 DEF CipherAt
<1>3. Decrypted(Run(k, w), k) = Run(k, w)
  BY RunDecrypts
<1> HIDE DEF w, len
<1>4. SubSeq(c.in, 1, w) = Run(k, w) /\ SubSeq(c.in, w + 1, len) = Run(k + w, len - w)
  <2>1. SubSeq(Run(k, len), 1, w) = Run(k, w) /\ SubSeq(Run(k, len), w + 1, len) = Run(k + w, len - w)
    BY <1>0, RunParts
  <2> QED
    BY <1>2, <2>1
<1>5. c.in[w] = k + w
  <2>1. \A j \in 1 .. len : Run(k, len)[j] = k + j
    BY <1>0, RunIs
  <2>2. w \in 1 .. len
    BY <1>0
  <2> QED
    BY <1>2, <2>1, <2>2
<1>6. Len(Run(k + w, len - w)) = len - w /\ len - w \in Nat /\ k + w \in Nat
  <2>1. k + w \in Nat /\ len - w \in Nat
    BY <1>0
  <2> QED
    BY <2>1, RunIs
<1>7. /\ d.on = c.on /\ d.in = Run(k + w, len - w) /\ d.part = c.part /\ d.last = k + w /\ d.out = c.out
      /\ DOMAIN d = {"on", "keyed", "in", "part", "out", "last"}
  BY <1>4, <1>5 DEF CipherAt, len
<1>8. Run(k + w, 0) = << >> /\ Len(<< >>) = 0 /\ k + w + 0 = k + w
  BY <1>6, NoRun
<1> HIDE DEF d
<1>9. CipherAt(d, k + w)
  BY <1>2, <1>6, <1>7, <1>8 DEF CipherAt
<1> QED
  BY <1>2, <1>3, <1>4, <1>9 DEF w, d, len

(* bytes come in, *)
LEMMA InAt ==
  ASSUME NEW k \in Nat, NEW c, CipherAt(c, k), c.on, c.out = << >>, c.in = << >>, NEW i \in Nat
  PROVE  /\ c.part = << >> => CipherAt([c EXCEPT !.in = Run(k, i)], k)
         /\ i < BlockSize => CipherAt([c EXCEPT !.part = Run(k, i)], k)
<1>1. c.last = k /\ k + 0 = k /\ Run(k, 0) = << >> /\ Len(Run(k, i)) = i /\ Len(<< >>) = 0
  BY NoRun, RunIs DEF CipherAt
<1>2. ASSUME c.part = << >> PROVE CipherAt([c EXCEPT !.in = Run(k, i)], k)
  <2> DEFINE d == [c EXCEPT !.in = Run(k, i)]
  <2>1. /\ d.on = c.on /\ d.in = Run(k, i) /\ d.part = << >> /\ d.last = k /\ d.out = << >>
        /\ DOMAIN d = {"on", "keyed", "in", "part", "out", "last"}
    BY <1>1, <1>2 DEF CipherAt
  <2> HIDE DEF d
  <2>2. CipherAt(d, k)
    BY <1>1, <2>1 DEF CipherAt
  <2> QED
    BY <2>2 DEF d
<1>3. ASSUME i < BlockSize PROVE CipherAt([c EXCEPT !.part = Run(k, i)], k)
  <2> DEFINE d == [c EXCEPT !.part = Run(k, i)]
  <2>1. /\ d.on = c.on /\ d.in = << >> /\ d.part = Run(k, i) /\ d.last = k /\ d.out = << >>
        /\ DOMAIN d = {"on", "keyed", "in", "part", "out", "last"}
    BY <1>1, <1>3 DEF CipherAt
  <2> HIDE DEF d
  <2>2. CipherAt(d, k)
    BY <1>1, <1>3, <2>1 DEF CipherAt
  <2> QED
    BY <2>2 DEF d
<1> QED
  BY <1>2, <1>3

(* and less than a block is put aside.                                       *)
LEMMA PartAt ==
  ASSUME NEW k \in Nat, NEW c, CipherAt(c, k), c.out = << >>, c.in # << >>, Len(c.in) < BlockSize
  PROVE  CipherAt([c EXCEPT !.in = << >>, !.part = c.in], k)
<1> DEFINE d == [c EXCEPT !.in = << >>, !.part = c.in]
<1>1. c.on /\ c.last = k /\ c.in = Run(k, Len(c.in)) /\ Run(k, 0) = << >> /\ Len(<< >>) = 0
  BY NoRun DEF CipherAt
<1>2. /\ d.on = c.on /\ d.in = << >> /\ d.part = c.in /\ d.last = k /\ d.out = << >>
      /\ DOMAIN d = {"on", "keyed", "in", "part", "out", "last"}
  BY <1>1 DEF CipherAt
<1> HIDE DEF d
<1>3. CipherAt(d, k)
  BY <1>1, <1>2 DEF CipherAt
<1> QED
  BY <1>3 DEF d

-----------------------------------------------------------------------------
(* Steps that stay in place, and reads                                       *)

LEMMA StillPlaced ==
  ASSUME Placed, UNCHANGED <<arc, at, vi, buf, n, encrypted>>,
         step' \notin {"sig", "volume", "service"}, pc' # "named"
  PROVE  Placed'
<1>1. Moved(0) /\ n' \in Nat
  BY StaysPut DEF Placed, HeadInv
<1> QED
  BY <1>1, PassPlaced

LEMMA StillSited ==
  ASSUME NEW from, Sited(from), pc # "block", UNCHANGED <<arc, at, vi, buf, n, h, encrypted>>, Taken' = Taken,
         pc' = "block" => n = 0 /\ step' # "volume"
  PROVE  Sited(from)'
<1>1. Place' = Place /\ Cells' = Cells
  BY DEF Place, Cells
<1> QED
  BY <1>1 DEF Sited

LEMMA FoundIn == ASSUME CallInv, Found, Sound PROVE InFile
BY DEF CallInv, Found, Sound, InFile

(* A step within the file has to keep what is known of a reader that has its  *)
(* place.                                                                    *)
LEMMA FoundFile ==
  ASSUME NEW from, CallInv, FileInv(from), Found, arc' = arc, lost => lost', back' => back,
         InFile => Placed' /\ (~lost /\ ~lost' => index' \in 0 .. Length) /\ Sited(from)' /\ StreamInv' /\ CipherInv'
  PROVE  FileInv(from)'
<1>1. Sound' \/ InFile' => InFile
  <2>1. Sound' \/ InFile' => Sound
    BY DEF Sound, InFile
  <2> QED
    BY <2>1, FoundIn
<1>2. arc.whole /\ ~lost' => InFile /\ ~lost
  BY FoundIn DEF Sound
<1> QED
  BY <1>1, <1>2 DEF FileInv

LEMMA BytesAre ==
  ASSUME NEW from, Sited(from), NEW c \in 1 .. n
  PROVE  Bytes(c) = Run(Taken, c)
<1>1. n \in Nat /\ \A j \in 1 .. n : Cells[Place + j].t = "data" /\ Cells[Place + j].byte = Taken + j
  BY DEF Sited, Follows, Cells
<1>2. ASSUME NEW j \in 1 .. c PROVE Cells[Place + j].t = "data" /\ Cells[Place + j].byte = Taken + j
  <2>1. j \in 1 .. n
    BY <1>1
  <2> QED
    BY <1>1, <2>1
<1> QED
  BY <1>2 DEF Bytes, Run

LEMMA GiveKeeps ==
  ASSUME NEW from, Whole(from), Sited(from), pc = "packed", NEW c \in Nat \ {0}, c <= n,
         NEW stay \in Nat, c + stay <= Left, Give(c, stay), UNCHANGED <<arc, vi, encrypted, h>>,
         step' \notin {"sig", "volume", "service"}, pc' \notin {"named", "block"}
  PROVE  Placed' /\ (Taken' = Taken + c => Sited(from)')
<1>1. AtPlace /\ n \in Nat
  BY DEF Whole, Placed, HeadInv
<1>2. Moved(c)
  BY <1>1, GiveMoves
<1>3. n' = n - c /\ n' \in Nat
  BY <1>1 DEF Give
<1>4. Placed'
  BY <1>2, <1>3, PassPlaced DEF Whole
<1>5. ASSUME Taken' = Taken + c PROVE Sited(from)'
  <2>1. Cells' = Cells /\ Place' = Place + c
    BY <1>1, <1>2, MovedIs
  <2>2. h'.name = Name /\ Follows(from, arc, vi, Place, n, Taken)
    BY DEF Sited
  <2>3. Follows(from, arc, vi, Place + c, n - c, Taken + c)
    <3>1. c \in 0 .. n
      BY <1>1
    <3> QED
      BY <2>2, <3>1, DataFollows DEF Whole
  <2>4. Follows(from, arc', vi', Place', n', Taken')
    BY <1>3, <1>5, <2>1, <2>3
  <2>5. Cells'[Place'].t # "salt"
    <3>1. c \in 1 .. n
      BY <1>1
    <3>2. Cells[Place + c].t = "data"
      BY <2>2, <3>1 DEF Follows, Cells
    <3> QED
      BY <2>1, <3>2
  <2> QED
    BY <2>2, <2>4, <2>5 DEF Sited
<1> QED
  BY <1>4, <1>5

LEMMA NothingKeeps ==
  ASSUME NEW from, Whole(from), Sited(from), pc = "packed", NEW k, GivesNothing(k),
         UNCHANGED <<arc, vi, encrypted, n, h>>, Taken' = Taken
  PROVE  Placed' /\ Sited(from)' /\ pc' = "failed" /\ step' = "header"
<1>1. AtPlace /\ n' \in Nat /\ pc' = "failed" /\ step' = "header"
  BY DEF Whole, Placed, HeadInv, GivesNothing, Fail
<1>2. Moved(0)
  BY <1>1, NothingMoves
<1>3. Placed'
  BY <1>1, <1>2, PassPlaced DEF Whole
<1>4. Place' = Place /\ Cells' = Cells
  BY <1>1, <1>2, MovedIs
<1> QED
  BY <1>1, <1>3, <1>4 DEF Sited

-----------------------------------------------------------------------------
(* The readers of nextFile                                                   *)

LEMMA ReadPlainKeeps ==
  ASSUME NEW from, Whole(from), CallInv, Sited(from), StreamInv, CipherInv, ReadPlain
  PROVE  /\ Placed' /\ Sited(from)' /\ StreamInv' /\ CipherInv'
         /\ \/ \E c \in Nat \ {0} : c <= Room /\ Deliver(Run(Len(hash), c))
            \/ UNCHANGED <<index, answer, lost, job, back>>
<1> USE DEF flagVars, streamVars, callVars
<1>0. /\ pc = "packed" /\ n > 0 /\ ~cipher.on /\ UNCHANGED <<arc, held, vi, encrypted, h>>
      /\ AtPlace /\ n \in Nat /\ job \in {"read", "seek"} /\ step \notin {"sig", "volume", "service"}
  BY DEF ReadPlain, Whole, Placed, HeadInv, CallInv, Found, StepInv
<1>1. cipher.in = << >> /\ cipher.part = << >> /\ cipher.out = << >> /\ Len(hash) \in Nat /\ Taken = Len(hash)
  BY <1>0 DEF CipherInv, CipherAt, StreamInv, Taken
<1>2. ASSUME NEW r \in Reads(Smaller(Room, n)), Give(r[1], r[2]), Deliver(Bytes(r[1])), UNCHANGED cipher
      PROVE  /\ Placed' /\ Sited(from)' /\ StreamInv' /\ CipherInv'
             /\ \E c \in Nat \ {0} : c <= Room /\ Deliver(Run(Len(hash), c))
  <2> DEFINE c == r[1]
             stay == r[2]
  <2>1. Smaller(Room, n) \in Nat \ {0} /\ Smaller(Room, n) <= Room /\ Smaller(Room, n) <= n
    BY <1>0 DEF StreamInv, Room, Smaller
  <2>2. c \in Nat \ {0} /\ c <= Smaller(Room, n) /\ stay \in Nat /\ c + stay <= Left
    BY <1>0, <2>1, ReadsFit
  <2>3. Give(c, stay) /\ Deliver(Bytes(c))
    BY <1>2
  <2> HIDE DEF c, stay
  <2>4. c <= Room /\ c <= n /\ c \in 1 .. n
    <3>1. Room \in Nat
      BY <1>0 DEF StreamInv, Room, Smaller
    <3> QED
      BY <1>0, <2>1, <2>2, <3>1
  <2>5. Deliver(Run(Len(hash), c))
    BY <1>1, <2>3, <2>4, BytesAre
  <2>6. StreamInv' /\ Len(hash') = Len(hash) + c /\ lim' \in Nat /\ pc' \in {"idle", "skipping"}
    BY <1>0, <2>2, <2>4, <2>5, DeliverStreams
  <2>7. step' \notin {"sig", "volume", "service"}
    BY <1>0, <2>3 DEF Deliver, Return
  <2>8. Taken' = Taken + c
    BY <1>1, <1>2, <2>6 DEF Taken
  <2>9. Placed' /\ Sited(from)'
    BY <1>0, <2>2, <2>3, <2>4, <2>6, <2>7, <2>8, GiveKeeps
  <2>10. CipherInv'
    <3>1. CipherAt(cipher, Len(hash'))
      BY <1>0, <1>1 DEF CipherInv, CipherAt
    <3> QED
      BY <1>1, <1>2, <2>6, <3>1 DEF CipherInv
  <2> QED
    BY <2>2, <2>4, <2>5, <2>6, <2>9, <2>10
<1>3. ASSUME GivesNothing(1), UNCHANGED <<n, streamVars, index, callVars, lost, answer>>
      PROVE  Placed' /\ Sited(from)' /\ StreamInv' /\ CipherInv'
  <2>1. Taken' = Taken
    BY <1>3 DEF Taken
  <2>2. Placed' /\ Sited(from)' /\ pc' = "failed"
    BY <1>0, <1>3, <2>1, NothingKeeps
  <2>3. StreamInv' /\ CipherInv'
    BY <1>0, <1>1, <1>3, <2>2 DEF StreamInv, CipherInv
  <2> QED
    BY <2>2, <2>3
<1> QED
  BY <1>2, <1>3 DEF ReadPlain

LEMMA FillCipherKeeps ==
  ASSUME NEW from, Whole(from), CallInv, Sited(from), StreamInv, CipherInv, FillCipher
  PROVE  Placed' /\ Sited(from)' /\ StreamInv' /\ CipherInv'
<1> USE DEF flagVars, callVars
<1>0. /\ pc = "packed" /\ n > 0 /\ cipher.on /\ cipher.part = << >>
      /\ UNCHANGED <<arc, held, vi, encrypted, h, reader, lim, hash, index, callVars, lost, answer>>
      /\ AtPlace /\ n \in Nat \ {0} /\ step \notin {"sig", "volume", "service"}
  BY DEF FillCipher, Whole, Placed, HeadInv, CallInv, StepInv
<1>1. /\ cipher.in = << >> /\ cipher.out = << >> /\ Len(hash) \in Nat /\ Taken = Len(hash) /\ lim # -1
      /\ CipherAt(cipher, Len(hash))
  <2>1. /\ cipher.in = << >> /\ cipher.out = << >> /\ Len(hash) \in Nat /\ lim # -1
        /\ CipherAt(cipher, Len(hash))
    BY <1>0 DEF CipherInv, StreamInv
  <2>2. Len(cipher.in) = 0 /\ Len(cipher.out) = 0 /\ Len(cipher.part) = 0
    BY <1>0, <2>1
  <2> QED
    BY <2>1, <2>2 DEF Taken
<1>2. ASSUME NEW r \in Slices, Give(r[1], r[2]), cipher' = [cipher EXCEPT !.in = Bytes(r[1])],
             pc' = "cipher", UNCHANGED step
      PROVE  Placed' /\ Sited(from)' /\ StreamInv' /\ CipherInv'
  <2> DEFINE c == r[1]
             stay == r[2]
  <2>1. c \in Nat \ {0} /\ c <= n /\ stay \in Nat /\ c + stay <= Left
    BY <1>0, SlicesFit
  <2>2. Give(c, stay) /\ cipher' = [cipher EXCEPT !.in = Bytes(c)]
    BY <1>2
  <2> HIDE DEF c, stay
  <2>3. Bytes(c) = Run(Len(hash), c) /\ Len(Run(Len(hash), c)) = c
    <3>1. c \in 1 .. n /\ c \in Nat
      BY <1>0, <2>1
    <3> QED
      BY <1>1, <3>1, BytesAre, RunIs
  <2>4. cipher' = [cipher EXCEPT !.in = Run(Len(hash), c)]
    BY <2>2, <2>3
  <2>5. CipherAt(cipher', Len(hash))
    BY <1>0, <1>1, <2>1, <2>4, InAt
  <2>6. cipher'.out = << >> /\ cipher'.part = << >> /\ cipher'.in = Run(Len(hash), c)
    BY <1>0, <1>1, <2>4 DEF CipherAt
  <2>7. Taken' = Taken + c
    <3>1. Len(cipher'.in) = c /\ Len(cipher'.out) = 0 /\ Len(cipher'.part) = 0 /\ hash' = hash /\ c \in Nat
      BY <1>0, <2>1, <2>3, <2>6
    <3> QED
      BY <1>1, <3>1 DEF Taken
  <2>8. Placed' /\ Sited(from)'
    BY <1>0, <1>2, <2>1, <2>2, <2>7, GiveKeeps
  <2>9. StreamInv'
    BY <1>0, <1>2 DEF StreamInv
  <2>10. CipherInv'
    BY <1>0, <1>1, <1>2, <2>5, <2>6 DEF CipherInv
  <2> QED
    BY <2>8, <2>9, <2>10
<1>3. ASSUME GivesNothing(Smaller(n, BufferSize)), UNCHANGED <<n, cipher>>
      PROVE  Placed' /\ Sited(from)' /\ StreamInv' /\ CipherInv'
  <2>1. Taken' = Taken
    BY <1>0, <1>3 DEF Taken
  <2>2. Placed' /\ Sited(from)' /\ pc' = "failed"
    BY <1>0, <1>3, <2>1, NothingKeeps
  <2>3. StreamInv' /\ CipherInv'
    BY <1>0, <1>1, <1>3, <2>2 DEF StreamInv, CipherInv
  <2> QED
    BY <2>2, <2>3
<1> QED
  BY <1>2, <1>3 DEF FillCipher

(* A block is decrypted and the first s bytes of it are delivered.           *)
LEMMA DeliverBlockKeeps ==
  ASSUME CallInv, Found, StreamInv, pc \in {"packed", "cipher"}, CipherAt(cipher, Len(hash)), cipher.on, cipher.out = << >>,
         NEW i \in Nat, DeliverBlock(Run(Len(hash), BlockSize), Run(Len(hash) + BlockSize, i))
  PROVE  /\ \E c \in Nat \ {0} : c <= Room /\ Deliver(Run(Len(hash), c))
         /\ StreamInv' /\ CipherInv' /\ pc' \in {"idle", "skipping"}
         /\ Taken' = Len(hash) + BlockSize + i
<1> DEFINE k == Len(hash)
           block == Run(k, BlockSize)
           plain == Decrypted(block, cipher.last)
           s == Smaller(Room, BlockSize)
<1>0. k \in Nat /\ Room \in Nat \ {0} /\ BlockSize \in Nat \ {0} /\ job \in {"read", "seek"}
  BY RarAssumption DEF StreamInv, Room, Smaller, CallInv
<1>1. s \in 1 .. BlockSize /\ s <= Room /\ s \in Nat \ {0}
  BY <1>0 DEF Smaller
<1>2. /\ Deliver(SubSeq(plain, 1, s))
      /\ cipher' = [cipher EXCEPT !.in = Run(k + BlockSize, i), !.part = << >>, !.last = Last(block),
                                  !.out = SubSeq(plain, s + 1, BlockSize)]
  BY DEF DeliverBlock
<1> HIDE DEF s
<1>3. SubSeq(plain, 1, s) = Run(k, s) /\ CipherAt(cipher', k + s)
  <2> DEFINE b == Run(k, BlockSize)
  <2>1. b = Run(k, BlockSize)
    OBVIOUS
  <2> HIDE DEF b
  <2>2. /\ SubSeq(Decrypted(b, cipher.last), 1, s) = Run(k, s)
        /\ CipherAt([cipher EXCEPT !.in = Run(k + BlockSize, i), !.part = << >>, !.last = Last(b),
                               !.out = SubSeq(Decrypted(b, cipher.last), s + 1, BlockSize)], k + s)
    <3>1. CipherAt(cipher, k) /\ cipher.on /\ cipher.out = << >> /\ i \in Nat
      OBVIOUS
    <3>2. k \in Nat /\ s \in 1 .. BlockSize
      BY <1>0, <1>1
    <3>3. b = Run(k, BlockSize)
      BY <2>1
    <3> HIDE DEF k
    <3> QED
      BY ONLY <3>1, <3>2, <3>3, BlockAt
  <2> QED
    BY <1>2, <2>2 DEF b
<1>4. Deliver(Run(k, s))
  BY <1>2, <1>3
<1>5. StreamInv' /\ Len(hash') = k + s /\ lim' \in Nat /\ pc' \in {"idle", "skipping"}
  BY <1>0, <1>1, <1>4, DeliverStreams
<1>6. cipher'.part = << >> /\ cipher'.in = Run(k + BlockSize, i) /\ Len(Run(k + BlockSize, i)) = i
  <2>1. k + BlockSize \in Nat
    BY <1>0
  <2> QED
    BY <1>2, <2>1, RunIs DEF CipherAt
<1>7. CipherInv'
  BY <1>3, <1>5, <1>6 DEF CipherInv
<1>8. Len(cipher'.out) = BlockSize - s
  <2>1. cipher'.on
    BY <1>2 DEF CipherAt
  <2>2. cipher'.last = k + s + Len(cipher'.out) /\ Len(cipher'.out) \in Nat
    BY <1>3, <2>1 DEF CipherAt
  <2>3. cipher'.last = Last(block)
    BY <1>2 DEF CipherAt
  <2>4. Last(block) = k + BlockSize
    <3>1. /\ Len(Run(k, BlockSize)) = BlockSize
          /\ \A j \in 1 .. BlockSize : Run(k, BlockSize)[j] = k + j
      BY <1>0, RunIs
    <3>2. BlockSize \in 1 .. BlockSize
      BY <1>0
    <3> QED
      BY <3>1, <3>2 DEF Last
  <2> DEFINE l == Len(cipher'.out)
  <2>5. k + s + l = k + BlockSize /\ l \in Nat
    BY <2>2, <2>3, <2>4
  <2> HIDE DEF l, k
  <2>6. l = BlockSize - s
    BY <1>0, <1>1, <2>5
  <2> QED
    BY <2>6 DEF l
<1>9. Taken' = k + BlockSize + i
  <2>1. Len(cipher'.part) = 0 /\ Len(cipher'.in) = i
    BY <1>6
  <2> QED
    BY <1>0, <1>1, <1>5, <1>8, <2>1 DEF Taken
<1> QED
  BY <1>1, <1>4, <1>5, <1>7, <1>9

Delivers == \E c \in Nat \ {0} : c <= Room /\ Deliver(Run(Len(hash), c))

LEMMA KeyCipherKeeps ==
  ASSUME NEW from, Whole(from), CallInv, Sited(from), StreamInv, CipherInv, KeyCipher
  PROVE  Placed' /\ Sited(from)' /\ StreamInv' /\ CipherInv'
<1> USE DEF packVars, volumeVars, flagVars, packedVars, callVars
<1>0. /\ pc = "cipher" /\ cipher.in # << >> /\ cipher' = [cipher EXCEPT !.keyed = key] /\ pc' \in {"cipher", "failed"}
      /\ UNCHANGED <<arc, at, vi, buf, n, h, encrypted, step, reader, lim, hash, index, job, want, target>>
      /\ step \notin {"sig", "volume", "service"} /\ CipherAt(cipher, Len(hash)) /\ cipher.part = << >> /\ lim # -1
  BY DEF KeyCipher, CallInv, StepInv, CipherInv, CipherAt, StreamInv
<1>1. /\ cipher'.on = cipher.on /\ cipher'.in = cipher.in /\ cipher'.part = cipher.part /\ cipher'.out = cipher.out
      /\ cipher'.last = cipher.last /\ DOMAIN cipher' = DOMAIN cipher
  BY <1>0 DEF CipherAt
<1>2. CipherInv'
  <2>1. CipherAt(cipher', Len(hash'))
    BY <1>0, <1>1 DEF CipherAt
  <2> QED
    BY <1>0, <1>1, <2>1 DEF CipherInv
<1>3. Taken' = Taken
  BY <1>0, <1>1 DEF Taken
<1>4. Placed'
  BY <1>0, StillPlaced DEF Whole
<1>5. Sited(from)'
  BY <1>0, <1>3, StillSited
<1>6. StreamInv'
  BY <1>0 DEF StreamInv
<1> QED
  BY <1>2, <1>4, <1>5, <1>6

LEMMA CipherKeeps ==
  ASSUME NEW from, Whole(from), CallInv, Sited(from), StreamInv, CipherInv, Cipher
  PROVE  /\ Placed' /\ Sited(from)' /\ StreamInv' /\ CipherInv'
         /\ Delivers \/ UNCHANGED <<index, answer, lost, job, back>>
<1> DEFINE k    == Len(hash)
           in   == cipher.in
           len  == Len(in)
           some == Smaller(Room, Len(cipher.out))
           least == Smaller(Room, Len(in))
           whole == least - (least % BlockSize)
<1> USE DEF packVars, volumeVars, flagVars, packedVars
<1>0. /\ pc = "cipher" /\ UNCHANGED <<arc, at, vi, buf, n, h, encrypted>>
      /\ step \notin {"sig", "volume", "service"} /\ CipherAt(cipher, k) /\ cipher.part = << >> /\ lim # -1
      /\ k \in Nat /\ len \in Nat /\ Len(cipher.out) \in Nat /\ job \in {"read", "seek"}
      /\ Room \in Nat \ {0} /\ BlockSize \in Nat \ {0} /\ lim \in Nat \ {0} /\ Found
  BY RarAssumption DEF Cipher, CallInv, StepInv, CipherInv, CipherAt, StreamInv, Room, Smaller, Found
<1>1. Taken = k + Len(cipher.out) + len
  <2>1. Len(cipher.part) = 0
    BY <1>0
  <2> QED
    BY <1>0, <2>1 DEF Taken
<1>2. ASSUME NEW c \in Nat \ {0}, c <= Room, Deliver(Run(k, c)), CipherAt(cipher', k + c), cipher'.part = << >>,
             Taken' = Taken
      PROVE  Placed' /\ Sited(from)' /\ StreamInv' /\ CipherInv' /\ Delivers
  <2>1. StreamInv' /\ Len(hash') = k + c /\ lim' \in Nat /\ pc' \in {"idle", "skipping"}
    BY <1>0, <1>2, DeliverStreams
  <2>2. step' \notin {"sig", "volume", "service"}
    BY <1>0, <1>2 DEF Deliver, Return
  <2>3. Placed' /\ Sited(from)'
    BY <1>0, <1>2, <2>1, <2>2, StillPlaced, StillSited DEF Whole
  <2>4. CipherInv'
    BY <1>2, <2>1 DEF CipherInv
  <2> QED
    BY <1>2, <2>1, <2>3, <2>4 DEF Delivers
<1>3. CASE /\ cipher.out # << >> /\ Deliver(SubSeq(cipher.out, 1, some))
           /\ cipher' = [cipher EXCEPT !.out = SubSeq(@, some + 1, Len(@))]
  <2> DEFINE size == Len(cipher.out)
  <2>1. cipher.out = Run(k, size) /\ size # 0 /\ cipher.last = k + size
    <3>1. cipher.on /\ cipher.out = Run(k, size) /\ cipher.last = k + size
      BY <1>0, <1>3 DEF CipherAt
    <3>2. size # 0
      <4>1. Run(k, 0) = << >>
        BY <1>0, NoRun
      <4> QED
        BY <1>3, <3>1, <4>1
    <3> QED
      BY <3>1, <3>2
  <2>2. some \in 1 .. size /\ some <= Room /\ some \in Nat \ {0}
    BY <1>0, <2>1 DEF Smaller
  <2> HIDE DEF some, k
  <2>3. SubSeq(cipher.out, 1, some) = Run(k, some) /\ CipherAt(cipher', k + some)
    BY <1>0, <1>3, <2>2, OutAt
  <2>4. cipher'.part = << >> /\ cipher'.in = in /\ cipher'.last = cipher.last /\ cipher'.on = cipher.on
    BY <1>0, <1>3 DEF CipherAt
  <2>5. Deliver(Run(k, some))
    BY <1>3, <2>3
  <2>6. Taken' = Taken
    <3>1. Len(hash') = k + some
      BY <1>0, <2>2, <2>5, DeliverStreams DEF k
    <3>2. cipher.on
      BY <1>0, <1>3 DEF CipherAt
    <3>3. k + size = k + some + Len(cipher'.out) /\ Len(cipher'.out) \in Nat
      BY <2>1, <2>3, <2>4, <3>2 DEF CipherAt
    <3>4. Len(cipher'.part) = 0 /\ Len(cipher'.in) = len
      BY <2>4
    <3> DEFINE l == Len(cipher'.out)
    <3>5. Taken' = k + some + l + len
      BY <1>0, <2>2, <3>1, <3>3, <3>4 DEF Taken
    <3> HIDE DEF l, size, len
    <3> QED
      BY <1>0, <1>1, <2>2, <3>3, <3>5 DEF l, size
  <2> QED
    BY <1>2, <2>2, <2>3, <2>4, <2>5, <2>6 DEF k
<1>4. CASE pc' = "packed" /\ cipher.out = << >> /\ in = << >> /\ UNCHANGED <<step, streamVars, index, callVars, lost, answer>>
  <2>1. /\ UNCHANGED <<step, lim, hash, cipher, index, job, want, target>>
        /\ UNCHANGED <<index, answer, lost, job, back>>
    BY <1>4 DEF streamVars, callVars
  <2>2. Taken' = Taken
    BY <2>1 DEF Taken
  <2>3. Placed' /\ Sited(from)'
    BY <1>0, <1>4, <2>1, <2>2, StillPlaced, StillSited DEF Whole
  <2>4. StreamInv' /\ CipherInv'
    BY <1>0, <1>4, <2>1 DEF StreamInv, CipherInv
  <2> QED
    BY <2>1, <2>3, <2>4
<1>5. CASE cipher.out = << >> /\ len >= BlockSize /\ DeliverBlock(SubSeq(in, 1, BlockSize), SubSeq(in, BlockSize + 1, len))
  <2>1. in # << >> /\ cipher.on /\ in = Run(k, len)
    <3>1. in # << >>
      BY <1>0, <1>5
    <3>2. cipher.on
      BY <1>0, <3>1 DEF CipherAt
    <3>3. cipher.last = k
      BY <1>0, <1>5, <3>2 DEF CipherAt
    <3> QED
      BY <1>0, <3>1, <3>2, <3>3 DEF CipherAt
  <2>2. SubSeq(in, 1, BlockSize) = Run(k, BlockSize) /\ SubSeq(in, BlockSize + 1, len) = Run(k + BlockSize, len - BlockSize)
    <3>1. /\ SubSeq(Run(k, len), 1, BlockSize) = Run(k, BlockSize)
          /\ SubSeq(Run(k, len), BlockSize + 1, len) = Run(k + BlockSize, len - BlockSize)
      <4>1. BlockSize \in Nat /\ BlockSize <= len
        BY <1>0, <1>5
      <4> HIDE DEF k, len
      <4> QED
        BY <1>0, <4>1, RunParts, ZenonT(60)
    <3> QED
      BY <2>1, <3>1
  <2>3. len - BlockSize \in Nat /\ DeliverBlock(Run(k, BlockSize), Run(k + BlockSize, len - BlockSize))
    <3>1. DeliverBlock(Run(k, BlockSize), Run(k + BlockSize, len - BlockSize))
      BY <1>5, <2>2, Zenon
    <3> HIDE DEF len
    <3>2. len - BlockSize \in Nat
      BY <1>0, <1>5
    <3> QED
      BY <3>1, <3>2
  <2>4. /\ Delivers /\ StreamInv' /\ CipherInv' /\ pc' \in {"idle", "skipping"}
        /\ Taken' = k + BlockSize + (len - BlockSize)
    BY <1>0, <1>5, <2>1, <2>3, DeliverBlockKeeps DEF Delivers
  <2>5. Taken' = Taken
    <3>1. Len(cipher.out) = 0
      BY <1>5
    <3> HIDE DEF k, len
    <3> QED
      BY <1>0, <1>1, <2>4, <3>1
  <2>6. step' \notin {"sig", "volume", "service"}
    BY <1>0, <1>5 DEF DeliverBlock, Deliver, Return
  <2> QED
    BY <1>0, <2>4, <2>5, <2>6, StillPlaced, StillSited DEF Whole
<1>6. CASE /\ cipher.out = << >> /\ len >= BlockSize /\ ~(Room < BlockSize)
           /\ Deliver(Decrypted(SubSeq(in, 1, whole), cipher.last))
           /\ cipher' = [cipher EXCEPT !.in = SubSeq(in, whole + 1, Len(in)), !.last = in[whole]]
  <2> DEFINE m == least \div BlockSize
  <2>1. least \in Nat /\ least >= BlockSize /\ least <= Room /\ least <= len
    BY <1>0, <1>6 DEF Smaller
  <2>2. m \in Nat \ {0} /\ m * BlockSize = whole /\ whole <= least /\ whole > 0
    <3> HIDE DEF least
    <3>1. least = BlockSize * m + (least % BlockSize) /\ least % BlockSize \in 0 .. BlockSize - 1 /\ m \in Nat
      BY <1>0, <2>1
    <3> HIDE DEF m
    <3>2. m # 0
      BY <1>0, <2>1, <3>1
    <3>3. m * BlockSize = BlockSize * m /\ BlockSize * m = whole
      BY <1>0, <2>1, <3>1
    <3> QED
      BY <1>0, <2>1, <3>1, <3>2, <3>3
  <2>3. whole \in Nat \ {0} /\ whole <= Room /\ m * BlockSize <= len
    <3> HIDE DEF least, m, len
    <3>1. least % BlockSize \in 0 .. BlockSize - 1
      BY <1>0, <2>1
    <3> QED
      BY <1>0, <2>1, <2>2, <3>1
  <2> HIDE DEF whole, m, k
  <2>4. Decrypted(SubSeq(in, 1, whole), cipher.last) = Run(k, whole) /\ CipherAt(cipher', k + whole)
    BY <1>0, <1>6, <2>2, <2>3, BlocksAt
  <2>5. Deliver(Run(k, whole))
    BY <1>6, <2>4
  <2>6. cipher'.part = << >> /\ cipher'.out = << >>
    BY <1>0, <1>6 DEF CipherAt
  <2>7. Taken' = Taken
    <3>1. Len(hash') = k + whole
      BY <1>0, <2>3, <2>5, DeliverStreams DEF k
    <3>2. Len(cipher'.in) = len - whole
      <4>1. cipher'.in = SubSeq(in, whole + 1, len)
        BY <1>0, <1>6 DEF CipherAt
      <4>2. cipher.on /\ cipher.last = k /\ in = Run(k, len)
        <5>1. in # << >>
          BY <1>0, <1>6
        <5>2. cipher.on
          BY <1>0, <5>1 DEF CipherAt
        <5>3. cipher.last = k
          BY <1>0, <1>6, <5>2 DEF CipherAt
        <5> QED
          BY <1>0, <5>2, <5>3 DEF CipherAt
      <4>3. SubSeq(Run(k, len), whole + 1, len) = Run(k + whole, len - whole)
        <5>1. k \in Nat /\ len \in Nat /\ whole \in Nat /\ whole <= len
          BY <1>0, <2>2, <2>3
        <5> HIDE DEF len
        <5> QED
          BY <5>1, RunParts
      <4>4. cipher'.in = Run(k + whole, len - whole)
        BY <4>1, <4>2, <4>3
      <4>5. k + whole \in Nat /\ len - whole \in Nat
        BY <1>0, <2>2, <2>3
      <4>6. Len(Run(k + whole, len - whole)) = len - whole
        <5> HIDE DEF len
        <5> QED
          BY <4>5, RunIs
      <4> QED
        BY <4>4, <4>6
    <3>3. Len(cipher'.part) = 0 /\ Len(cipher'.out) = 0 /\ Len(cipher.out) = 0
      BY <1>6, <2>6
    <3> HIDE DEF len
    <3> QED
      BY <1>0, <1>1, <2>3, <3>1, <3>2, <3>3 DEF Taken
  <2> QED
    BY <1>2, <2>3, <2>4, <2>5, <2>6, <2>7 DEF k
<1>7. CASE /\ cipher.out = << >> /\ len \in 1 .. BlockSize - 1 /\ cipher' = [cipher EXCEPT !.in = << >>, !.part = in]
           /\ pc' = "packed" /\ UNCHANGED <<step, reader, lim, hash, index, callVars, lost, answer>>
  <2>1. /\ UNCHANGED <<step, lim, hash, index, job, want, target>>
        /\ UNCHANGED <<index, answer, lost, job, back>>
    BY <1>7 DEF callVars
  <2>2. in # << >> /\ len < BlockSize
    BY <1>0, <1>7
  <2>3. CipherAt(cipher', k)
    BY <1>0, <1>7, <2>2, PartAt
  <2>4. cipher'.in = << >> /\ cipher'.out = << >> /\ cipher'.part = in
    BY <1>0, <1>7 DEF CipherAt
  <2>5. Taken' = Taken
    <3>1. Len(cipher'.in) = 0 /\ Len(cipher'.out) = 0 /\ Len(cipher'.part) = len /\ Len(cipher.out) = 0
      BY <1>7, <2>4
    <3> QED
      BY <1>0, <1>1, <2>1, <3>1 DEF Taken
  <2>6. Placed' /\ Sited(from)'
    BY <1>0, <1>7, <2>1, <2>5, StillPlaced, StillSited DEF Whole
  <2>7. StreamInv'
    BY <1>0, <1>7, <2>1 DEF StreamInv
  <2>8. CipherInv'
    BY <1>0, <1>7, <2>1, <2>3, <2>4 DEF CipherInv
  <2> QED
    BY <2>1, <2>6, <2>7, <2>8
<1> QED
  BY <1>3, <1>4, <1>5, <1>6, <1>7 DEF Cipher

LEMMA FillBlockKeeps ==
  ASSUME NEW from, Whole(from), CallInv, Sited(from), StreamInv, CipherInv, FillBlock
  PROVE  /\ Placed' /\ Sited(from)' /\ StreamInv' /\ CipherInv'
         /\ Delivers \/ UNCHANGED <<index, answer, lost, job, back>>
<1> DEFINE k    == Len(hash)
           part == cipher.part
           len  == Len(part)
<1> USE DEF flagVars
<1>0. /\ pc = "packed" /\ n > 0 /\ part # << >>
      /\ UNCHANGED <<arc, held, vi, encrypted, h>>
      /\ AtPlace /\ n \in Nat \ {0} /\ step \notin {"sig", "volume", "service"} /\ CipherAt(cipher, k) /\ lim # -1
      /\ k \in Nat /\ len \in Nat /\ Found
  BY DEF FillBlock, Whole, Placed, HeadInv, CallInv, StepInv, CipherInv, CipherAt, StreamInv, Found
<1>1. /\ cipher.in = << >> /\ cipher.out = << >> /\ cipher.on /\ cipher.last = k /\ part = Run(k, len) /\ len < BlockSize
  <2>1. cipher.in = << >> /\ cipher.out = << >> /\ cipher.on /\ len < BlockSize
    BY <1>0 DEF CipherAt
  <2>2. cipher.last = k
    BY <1>0, <2>1 DEF CipherAt
  <2> QED
    BY <1>0, <2>1, <2>2 DEF CipherAt
<1>2. Taken = k + len
  <2>1. Len(cipher.in) = 0 /\ Len(cipher.out) = 0
    BY <1>1
  <2> QED
    BY <1>0, <2>1 DEF Taken
<1>3. BlockSize \in Nat \ {0}
  BY RarAssumption
<1>4. ASSUME NEW r \in Reads(Smaller(BlockSize - len, n)), Give(r[1], r[2]),
             IF len + r[1] = BlockSize
             THEN DeliverBlock(part \o Bytes(r[1]), << >>)
             ELSE /\ cipher' = [cipher EXCEPT !.part = part \o Bytes(r[1])]
                  /\ UNCHANGED <<pc, step, reader, lim, hash, index, callVars, lost, answer>>
      PROVE  /\ Placed' /\ Sited(from)' /\ StreamInv' /\ CipherInv'
             /\ Delivers \/ UNCHANGED <<index, answer, lost, job, back>>
  <2> DEFINE c    == r[1]
             stay == r[2]
             most == Smaller(BlockSize - len, n)
  <2>1. most \in Nat \ {0} /\ most <= BlockSize - len /\ most <= n
    <3> HIDE DEF len
    <3> QED
      BY <1>0, <1>1, <1>3 DEF Smaller
  <2>2. c \in Nat \ {0} /\ c <= most /\ stay \in Nat /\ c + stay <= Left
    BY <1>0, <2>1, ReadsFit
  <2>3. /\ Give(c, stay)
        /\ len + c = BlockSize => DeliverBlock(part \o Bytes(c), << >>)
        /\ len + c # BlockSize => /\ cipher' = [cipher EXCEPT !.part = part \o Bytes(c)]
                                  /\ UNCHANGED <<pc, step, reader, lim, hash, index, callVars, lost, answer>>
    BY <1>4
  <2> HIDE DEF c, stay, most
  <2>4. c \in 1 .. n /\ c <= n /\ len + c <= BlockSize
    <3> HIDE DEF len
    <3> QED
      BY <1>0, <1>3, <2>1, <2>2
  <2>5. part \o Bytes(c) = Run(k, len + c)
    <3>1. Bytes(c) = Run(k + len, c)
      BY <1>2, <2>4, BytesAre
    <3>2. Run(k, len) \o Run(k + len, c) = Run(k, len + c)
      <4> HIDE DEF k, len
      <4> QED
        BY <1>0, <2>2, RunJoins
    <3> QED
      BY <1>1, <3>1, <3>2
  <2>6. CASE len + c = BlockSize
    <3>1. Run(k + BlockSize, 0) = << >>
      <4>1. k + BlockSize \in Nat
        BY <1>0, <1>3
      <4> QED
        BY <4>1, NoRun
    <3>2. DeliverBlock(Run(k, BlockSize), Run(k + BlockSize, 0))
      BY <2>3, <2>5, <2>6, <3>1
    <3>3. Delivers /\ StreamInv' /\ CipherInv' /\ pc' \in {"idle", "skipping"} /\ Taken' = k + BlockSize + 0
      BY <1>0, <1>1, <3>2, DeliverBlockKeeps DEF Delivers
    <3>4. Taken' = Taken + c
      <4> HIDE DEF k, len
      <4> QED
        BY <1>0, <1>2, <1>3, <2>2, <2>6, <3>3
    <3>5. step' \notin {"sig", "volume", "service"}
      BY <1>0, <3>2 DEF DeliverBlock, Deliver, Return
    <3>6. Placed' /\ Sited(from)'
      BY <1>0, <2>2, <2>3, <2>4, <3>3, <3>4, <3>5, GiveKeeps
    <3> QED
      BY <3>3, <3>6
  <2>7. CASE len + c # BlockSize
    <3>1. cipher' = [cipher EXCEPT !.part = Run(k, len + c)]
      BY <2>3, <2>5, <2>7
    <3>2. UNCHANGED <<pc, step, lim, hash, index, job, want, target, back, lost, answer>>
      BY <2>3, <2>7 DEF callVars
    <3>3. len + c \in Nat /\ len + c < BlockSize
      <4> HIDE DEF len
      <4> QED
        BY <1>0, <1>3, <2>2, <2>4, <2>7
    <3>4. CipherAt(cipher', k)
      BY <1>0, <1>1, <3>1, <3>3, InAt
    <3>5. cipher'.in = << >> /\ cipher'.out = << >> /\ cipher'.part = Run(k, len + c)
      BY <1>0, <1>1, <3>1 DEF CipherAt
    <3>6. Taken' = Taken + c
      <4>1. Len(cipher'.in) = 0 /\ Len(cipher'.out) = 0 /\ Len(cipher'.part) = len + c
        BY <1>0, <3>3, <3>5, RunIs
      <4>2. Taken' = k + 0 + 0 + (len + c)
        BY <3>2, <4>1 DEF Taken
      <4> HIDE DEF k, len
      <4> QED
        BY <1>0, <1>2, <2>2, <4>2
    <3>7. Placed' /\ Sited(from)'
      BY <1>0, <2>2, <2>3, <2>4, <3>2, <3>6, GiveKeeps
    <3>8. StreamInv'
      BY <1>0, <3>2 DEF StreamInv
    <3>9. CipherInv'
      BY <1>0, <3>2, <3>4, <3>5 DEF CipherInv
    <3> QED
      BY <3>2, <3>7, <3>8, <3>9
  <2> QED
    BY <2>6, <2>7
<1>5. ASSUME GivesNothing(1), UNCHANGED <<n, streamVars, index, callVars, lost, answer>>
      PROVE  /\ Placed' /\ Sited(from)' /\ StreamInv' /\ CipherInv'
             /\ UNCHANGED <<index, answer, lost, job, back>>
  <2>1. UNCHANGED <<lim, hash, cipher, index, job, want, target, back, lost, answer>>
    BY <1>5 DEF streamVars, callVars
  <2>2. Taken' = Taken
    BY <2>1 DEF Taken
  <2>3. Placed' /\ Sited(from)' /\ pc' = "failed"
    BY <1>0, <1>5, <2>2, NothingKeeps
  <2>4. StreamInv' /\ CipherInv'
    BY <1>0, <2>1, <2>3 DEF StreamInv, CipherInv
  <2> QED
    BY <2>1, <2>3, <2>4
<1> QED
  BY <1>4, <1>5 DEF FillBlock

-----------------------------------------------------------------------------
(* Every step                                                                *)

(* What FileInv says where the reader has its place.                         *)
LEMMA FileIs ==
  ASSUME NEW from, WellPacked(from), CallInv, FileInv(from), InFile
  PROVE  Whole(from) /\ Sited(from) /\ StreamInv /\ CipherInv
BY DEF FileInv, Whole, CallInv, InFile, Sound, Found, Looking

LEMMA SearchKeepsFile ==
  ASSUME NEW from, WellPacked(from), CallInv, FileInv(from), VolumeStep, lost' = (lost \/ HeaderMissed),
         UNCHANGED <<streamVars, index, callVars, answer>>
  PROVE  FileInv(from)'
<1>0. /\ \/ pc \in {"open", "skip", "first"} /\ pc' \in {"open", "skip", "first", "named", "unopened", "failed"}
         \/ pc = "block" /\ pc' \in {"block", "packed", "failed"}
      /\ arc' = arc
  BY SearchCalls
<1>1. UNCHANGED <<reader, lim, hash, cipher, index, job, want, target, back>>
  BY DEF streamVars, callVars
<1>a. lost => lost'
  OBVIOUS
<1> HIDE DEF VolumeStep, HeaderMissed
<1>2. ASSUME Sound PROVE Placed' /\ (Blocked(from) => Sited(from)')
  <2>1. Whole(from)
    BY <1>2 DEF Whole, Sound, FileInv, CallInv
  <2> QED
    BY <2>1, SearchKeeps
<1>3. Sound' => Sound
  BY <1>0, <1>1, <1>a DEF Sound, Looking, Found
<1>4. ASSUME InFile' PROVE Sited(from)' /\ StreamInv' /\ CipherInv'
  <2>1. pc = "block" /\ InFile /\ ~HeaderMissed
    <3>1. CASE ~lost'
      <4>1. ~lost /\ ~HeaderMissed
        BY <3>1
      <4> QED
        BY <1>0, <1>1, <1>4, <4>1 DEF InFile, CallInv, Looking
    <3>2. CASE back' /\ Found'
      <4>1. pc = "block" /\ pc' # "failed" /\ Found
        BY <1>0, <3>2 DEF Found
      <4> QED
        BY <1>0, <1>1, <1>4, <3>2, <4>1 DEF InFile, HeaderMissed
    <3> QED
      BY <1>4, <3>1, <3>2 DEF InFile
  <2>2. Whole(from) /\ Sited(from) /\ StreamInv /\ CipherInv
    BY <2>1, FileIs
  <2>3. Sited(from)'
    <3>1. Sound /\ Blocked(from)
      BY <1>1, <2>1, <2>2 DEF Sound, InFile, Blocked
    <3> QED
      BY <1>2, <3>1
  <2>4. StreamInv' /\ CipherInv'
    BY <1>0, <1>1, <2>1, <2>2 DEF StreamInv, CipherInv
  <2> QED
    BY <2>3, <2>4
<1> QED
  BY <1>0, <1>1, <1>a, <1>2, <1>3, <1>4 DEF FileInv

(* A reader of all volumes from their starts.                                *)
LEMMA BeginPlaced ==
  ASSUME NEW from, WellPacked(from), arc \in Archives, arc.whole, arc' = arc,
         NEW password, NewMultiReader(password), DOMAIN at' = DOMAIN arc.vols,
         \A v \in DOMAIN arc.vols : at'[v] = 0
  PROVE  Placed'
<1>1. vi' = 1 /\ buf' = 0 /\ step' = "sig" /\ n' = 0 /\ encrypted' = FALSE /\ pc' = "open"
  BY DEF NewMultiReader, NewVolume, Buffer, NewFileBlockReader, NewPackedFileReader
<1>2. 1 \in DOMAIN arc.vols
  BY DEF WellPacked
<1>3. Len(arc.vols[1]) \in Nat
  BY <1>2, PackedVolume
<1>4. AtPlace' /\ Place' = 0
  BY <1>1, <1>2, <1>3 DEF AtPlace, Place, Cells
<1> QED
  BY <1>1, <1>4 DEF Placed, HeadInv

LEMMA NamedKeepsFile ==
  ASSUME NEW from, WellPacked(from), CallInv, FileInv(from), FileFound \/ OtherFile \/ FirstFile
  PROVE  FileInv(from)'
<1> USE DEF packVars, volumeVars, flagVars, packedVars
<1>0. /\ pc = "named" /\ UNCHANGED <<arc, at, vi, buf, n, h, encrypted, lost>> /\ step \notin {"sig", "volume", "service"}
      /\ step' = step \/ step' = "data"
  BY DEF FileFound, OtherFile, FirstFile, CallInv, StepInv, Return
<1>1. Sound /\ pc' # "named" => Placed'
  BY <1>0, StillPlaced DEF FileInv
<1>2. CASE OtherFile \/ FirstFile
  <2>1. (pc' = "skip" /\ UNCHANGED <<reader, index, job, back>>) \/ (pc' = "idle" /\ ~back' /\ UNCHANGED <<reader, index>>)
    BY <1>2 DEF OtherFile, FirstFile, Return, streamVars, callVars
  <2>2. ~InFile'
    BY <1>0, <1>2, <2>1 DEF InFile, Found, Looking, CallInv, OtherFile, FirstFile, streamVars, Return
  <2>3. Sound' => Sound
    BY <1>0, <2>1 DEF Sound, Found, Looking
  <2> QED
    BY <1>0, <1>1, <2>1, <2>2, <2>3 DEF FileInv
<1>3. CASE FileFound
  <2>1. /\ h.name = Name /\ lim' = -1 /\ hash' = << >> /\ index' = 0 /\ cipher' = NoCipher
        /\ \/ job = "open" /\ reader' = "open" /\ pc' = "idle" /\ job' = "idle" /\ ~back'
           \/ job = "seek" /\ pc' = "skipping" /\ want' = target /\ UNCHANGED <<reader, job, target, back>>
    BY <1>3 DEF FileFound, Return
  <2>2. Sound' => Sound
    BY <1>0, <2>1 DEF Sound, Found, Looking
  <2>3. InFile' => Sound'
    BY DEF InFile, Sound
  <2>4. pc' # "named" /\ Length \in Nat
    BY <2>1, RarAssumption
  <2>5. ASSUME InFile' PROVE Sited(from)' /\ StreamInv' /\ CipherInv'
    <3>1. Sound /\ Placed /\ arc \in Archives /\ arc.whole
      BY <2>2, <2>3, <2>5 DEF FileInv, CallInv, Sound
    <3>2. /\ Place \in 1 .. Len(Cells) /\ Cells[Place].t = "file" /\ Cells[Place].first /\ vi \in DOMAIN arc.vols
          /\ h.name = Cells[Place].name /\ h.length = Cells[Place].length /\ n = Cells[Place].size
      BY <1>0, <3>1 DEF Placed, HeadInv, AtPlace
    <3>3. Mine(Cells[Place])
      BY <2>1, <3>2 DEF Mine
    <3>4. Cells[Place].length = Length /\ Follows(from, arc, vi, Place, n, 0)
      BY <3>1, <3>2, <3>3, FirstFollows DEF Cells
    <3>5. Place' = Place /\ Cells' = Cells
      BY <1>0 DEF Place, Cells
    <3>6. Len(hash') = 0 /\ Taken' = 0
      BY <2>1 DEF Taken, NoCipher
    <3>7. Sited(from)'
      BY <1>0, <2>1, <3>2, <3>4, <3>5, <3>6 DEF Sited
    <3>8. hash' = Run(0, 0) /\ Run(0, 0) = << >>
      BY <2>1, NoRun
    <3>9. StreamInv'
      <4>1. Len(hash') = 0 /\ hash' = Run(0, Len(hash')) /\ lim' = -1 /\ h'.length = Length /\ index' = 0
        BY <1>0, <2>1, <3>2, <3>4, <3>6, <3>8
      <4>2. CASE job = "open"
        <5>1. job' = "idle" /\ pc' = "idle"
          BY <2>1, <4>2
        <5> QED
          BY <4>1, <5>1 DEF StreamInv
      <4>3. CASE job # "open"
        <5>1. job' = "seek" /\ pc' = "skipping" /\ want' = target' /\ target' = target
          BY <2>1, <4>3
        <5>2. target \in 0 .. Length
          BY <1>0, <2>1, <4>3 DEF CallInv, Looking
        <5>3. want' \in Nat /\ 0 + want' = target' /\ target' \in 0 .. Length
          BY <2>4, <5>1, <5>2
        <5> QED
          BY <4>1, <5>1, <5>3 DEF StreamInv
      <4> QED
        BY <4>2, <4>3
    <3>10. CipherInv'
      BY <2>1, <3>6, <3>8 DEF CipherInv, CipherAt, NoCipher
    <3> QED
      BY <3>7, <3>9, <3>10
  <2> QED
    BY <1>1, <2>1, <2>2, <2>4, <2>5 DEF FileInv
<1> QED
  BY <1>2, <1>3

(* Calls begin.                                                              *)
LEMMA CallerKeepsFile ==
  ASSUME NEW from, WellPacked(from), CallInv, FileInv(from), Caller
  PROVE  FileInv(from)'
<1>1. CASE Open
  <2>1. /\ NewMultiReader(TRUE) /\ arc' = arc /\ at' = [v \in DOMAIN arc.vols |-> 0] /\ pc' = "open"
        /\ UNCHANGED <<reader, index, lost, back>> /\ reader = "none" /\ pc = "idle"
    BY <1>1 DEF Open, NewMultiReader
  <2>2. arc.whole => Placed'
    BY <2>1, BeginPlaced DEF CallInv
  <2> QED
    BY <2>1, <2>2 DEF FileInv, Sound, InFile
<1>2. ASSUME UNCHANGED <<packVars, reader, lim, hash, cipher, index, back>>, step' = step \/ step' = "data", pc = "idle",
             ~back, pc' \in {"idle", "reading", "skipping"}, lost' = lost,
             InFile => StreamInv'
      PROVE  FileInv(from)'
  <2> USE DEF packVars, volumeVars, flagVars, packedVars
  <2>1. (Sound' <=> Sound) /\ (InFile' <=> InFile)
    BY <1>2 DEF Sound, InFile
  <2>2. step' \notin {"sig", "volume", "service"}
    BY <1>2 DEF CallInv, StepInv
  <2>3. Sound => Placed'
    BY <1>2, <2>2, StillPlaced DEF FileInv
  <2>4. Taken' = Taken
    BY <1>2 DEF Taken
  <2>5. InFile => Sited(from)'
    BY <1>2, <2>4, StillSited DEF FileInv
  <2>6. InFile => CipherInv'
    BY <1>2 DEF FileInv, CipherInv
  <2> QED
    BY <1>2, <2>1, <2>3, <2>5, <2>6 DEF FileInv
<1>3. ASSUME NEW k \in 1 .. MaxRead, Read(k) PROVE FileInv(from)'
  <2>1. InFile => StreamInv'
    <3>1. k \in Nat \ {0}
      BY RarAssumption
    <3> QED
      BY <1>3, <3>1 DEF Read, FileInv, StreamInv, CallInv, packVars, packedVars, streamVars
  <2> QED
    BY <1>2, <1>3, <2>1 DEF Read, streamVars, CallInv
<1>4. ASSUME NEW to, SeekNowhere(to) PROVE FileInv(from)'
  <2>1. InFile => StreamInv'
    BY <1>4 DEF SeekNowhere, FileInv, StreamInv, packVars, packedVars, streamVars, callVars
  <2> QED
    BY <1>2, <1>4, <2>1 DEF SeekNowhere, streamVars, callVars, CallInv
<1>5. ASSUME NEW to, SeekForward(to) PROVE FileInv(from)'
  <2>1. ASSUME InFile PROVE StreamInv'
    <3>1. index \in 0 .. Length /\ to \in index + 1 .. Length /\ StreamInv /\ Len(hash) = index /\ Length \in Nat
      BY <1>5, <2>1, RarAssumption DEF SeekForward, FileInv, StreamInv, CallInv, InFile
    <3>2. to - index \in Nat /\ index + (to - index) = to /\ to \in 0 .. Length
      BY <3>1
    <3> QED
      BY <1>5, <3>1, <3>2 DEF SeekForward, StreamInv, packVars, packedVars, streamVars
  <2> QED
    BY <1>2, <1>5, <2>1 DEF SeekForward, streamVars, CallInv
<1>6. ASSUME NEW to, SeekBack(to) PROVE FileInv(from)'
  BY <1>6 DEF SeekBack, FileInv, Sound, InFile, Looking, Found
<1> QED
  BY <1>1, <1>3, <1>4, <1>5, <1>6 DEF Caller

(* The steps that read the packed data do not lose the place.                *)
LEMMA ReadsAre ==
  ASSUME ReadPlain \/ FillCipher \/ KeyCipher \/ Cipher \/ FillBlock
  PROVE  Found /\ pc \in {"packed", "cipher"} /\ arc' = arc /\ lost' = lost /\ (back' => back)
<1> USE DEF packVars
<1>1. Found /\ pc \in {"packed", "cipher"} /\ arc' = arc
  BY DEF ReadPlain, FillCipher, KeyCipher, Cipher, FillBlock, Found
<1>2. ASSUME NEW bytes, Deliver(bytes) PROVE lost' = lost /\ (back' => back)
  BY <1>2 DEF Deliver, Return
<1>3. ASSUME NEW block, NEW rest, DeliverBlock(block, rest) PROVE lost' = lost /\ (back' => back)
  BY <1>2, <1>3 DEF DeliverBlock
<1>4. CASE ReadPlain
  BY <1>1, <1>2, <1>4 DEF ReadPlain, callVars
<1>5. CASE FillCipher \/ KeyCipher
  BY <1>1, <1>5 DEF FillCipher, KeyCipher, callVars
<1>6. CASE Cipher
  <2>1. \/ \E bytes : Deliver(bytes)
        \/ \E block, rest : DeliverBlock(block, rest)
        \/ UNCHANGED <<callVars, lost>>
    BY <1>6 DEF Cipher
  <2> QED
    BY <1>1, <1>2, <1>3, <2>1 DEF callVars
<1>7. CASE FillBlock
  <2>1. (\E block : DeliverBlock(block, << >>)) \/ UNCHANGED <<callVars, lost>>
    BY <1>7 DEF FillBlock
  <2> QED
    BY <1>1, <1>3, <2>1 DEF callVars
<1> QED
  BY <1>4, <1>5, <1>6, <1>7

LEMMA ReadKeepsFile ==
  ASSUME NEW from, WellPacked(from), EOFInv, CallInv, FileInv(from),
         ReadNil \/ NextFile \/ AtLimit \/ Below \/ EmptyBlock \/ ReadPlain
         \/ FillCipher \/ KeyCipher \/ Cipher \/ FillBlock
  PROVE  FileInv(from)'
<1> USE DEF packVars, volumeVars, flagVars, packedVars
<1>0. InFile => Whole(from) /\ Sited(from) /\ StreamInv /\ CipherInv
  BY FileIs
<1>i. ~lost => (arc.whole => index \in 0 .. Length)
  BY DEF FileInv
<1>1. CASE ReadNil
  <2>1. lost /\ lost' /\ pc' = "panic"
    BY <1>1 DEF ReadNil, CallInv
  <2> QED
    BY <2>1 DEF FileInv, Sound, InFile, Looking, Found
<1>2. ASSUME UNCHANGED <<packVars, hash, index, lost, reader>>, Found, pc # "block", pc' \in {"idle", "reading", "cipher", "packed", "block", "failed"},
             step' = step \/ step' = "data", back' => back,
             pc' = "block" => n = 0 /\ step' # "volume",
             InFile => Taken' = Taken /\ StreamInv' /\ CipherInv'
      PROVE  FileInv(from)'
  <2>1. step' \notin {"sig", "volume", "service"}
    BY <1>2 DEF CallInv, StepInv, Found
  <2>2. InFile => Placed'
    BY <1>0, <1>2, <2>1, StillPlaced DEF Whole
  <2>3. InFile => Sited(from)'
    BY <1>0, <1>2, StillSited
  <2>4. InFile /\ ~lost => index' \in 0 .. Length
    BY <1>2, <1>i DEF InFile
  <2> QED
    BY <1>2, <2>2, <2>3, <2>4, FoundFile
<1>3. CASE NextFile
  <2>1. CASE h = NoHeader
    <3>1. lost /\ lost' /\ pc' = "idle"
      BY <1>3, <2>1 DEF NextFile, EOFInv, Return
    <3> QED
      BY <3>1 DEF FileInv, Sound, InFile, Looking, Found
  <2>2. CASE h # NoHeader
    <3>1. /\ lim' = h.length /\ hash' = << >> /\ cipher' = [NoCipher EXCEPT !.on = h.locked]
          /\ UNCHANGED <<packVars, reader, index, lost, pc, step, job, want, target, back>> /\ pc = "reading" /\ lim = -1
      BY <1>3, <2>2 DEF NextFile, callVars
    <3>2. ASSUME InFile PROVE Taken' = Taken /\ StreamInv' /\ CipherInv' /\ hash' = hash
      <4>1. Len(hash) = 0 /\ h.length = Length /\ cipher = NoCipher /\ hash = Run(0, 0) /\ Run(0, 0) = << >> /\ hash' = hash
        BY <1>0, <3>1, <3>2, NoRun DEF StreamInv, CipherInv
      <4>2. Taken = 0 /\ Taken' = 0
        <5>1. Len(cipher.out) = 0 /\ Len(cipher.in) = 0 /\ Len(cipher.part) = 0
          BY <4>1 DEF NoCipher
        <5>2. Len(cipher'.out) = 0 /\ Len(cipher'.in) = 0 /\ Len(cipher'.part) = 0
          BY <3>1 DEF NoCipher
        <5> QED
          BY <4>1, <5>1, <5>2 DEF Taken
      <4>3. StreamInv'
        BY <1>0, <3>1, <3>2, <4>1, RarAssumption DEF StreamInv
      <4>4. CipherInv'
        <5>1. CipherAt(cipher', 0)
          BY <3>1, <4>1 DEF CipherAt, NoCipher
        <5>2. lim' # -1 /\ cipher'.part = << >>
          BY <3>1, <4>1, RarAssumption DEF NoCipher
        <5> QED
          BY <3>1, <4>1, <5>1, <5>2 DEF CipherInv
      <4> QED
        BY <4>1, <4>2, <4>3, <4>4
    <3>3. Found /\ step' \notin {"sig", "volume", "service"}
      BY <3>1 DEF CallInv, StepInv, Found
    <3>4. InFile => Placed'
      BY <1>0, <3>1, <3>3, StillPlaced DEF Whole
    <3>5. InFile => Sited(from)'
      BY <1>0, <3>1, <3>2, StillSited
    <3>6. InFile /\ ~lost => index' \in 0 .. Length
      BY <3>1, <1>i DEF InFile
    <3> QED
      BY <3>1, <3>2, <3>3, <3>4, <3>5, <3>6, FoundFile
  <2> QED
    BY <2>1, <2>2
<1>4. CASE AtLimit
  <2>1. /\ UNCHANGED <<packVars, hash, index, lost, reader, lim, cipher>> /\ pc = "reading" /\ Found /\ lim = 0
        /\ \/ pc' = "idle" /\ step' = "data" /\ ~back' /\ job' = "idle"
           \/ pc' = "failed" /\ UNCHANGED <<step, job, want, target, back>>
    BY <1>4 DEF AtLimit, Return, streamVars, callVars, Found
  <2>2. ASSUME InFile PROVE StreamInv' /\ CipherInv'
    <3>1. job = "seek" => want > 0 /\ Len(hash) + want \in 0 .. Length /\ Len(hash) = Length /\ want \in Nat
      BY <1>0, <2>1, <2>2 DEF StreamInv
    <3>2. job = "read" /\ Len(hash) = index
      <4>1. job # "seek"
        BY <3>1, RarAssumption
      <4> QED
        BY <1>0, <2>1, <2>2, <4>1 DEF StreamInv, CallInv
    <3>3. StreamInv'
      BY <1>0, <2>1, <2>2, <3>2 DEF StreamInv
    <3>4. CipherInv'
      BY <1>0, <2>1, <2>2 DEF CipherInv
    <3> QED
      BY <3>3, <3>4
  <2>3. Taken' = Taken
    BY <2>1 DEF Taken
  <2> QED
    BY <1>2, <2>1, <2>2, <2>3
<1>5. CASE Below
  <2>1. /\ UNCHANGED <<packVars, hash, index, lost, reader, lim, cipher, step, job, want, target, back>> /\ pc = "reading" /\ lim > 0
        /\ pc' = (IF cipher.on THEN "cipher" ELSE "packed")
    BY <1>5 DEF Below, streamVars, callVars
  <2>2. Taken' = Taken
    BY <2>1 DEF Taken
  <2>3. ASSUME InFile PROVE StreamInv' /\ CipherInv'
    <3>1. StreamInv'
      BY <1>0, <2>1, <2>3 DEF StreamInv
    <3>2. CipherInv'
      BY <1>0, <2>1, <2>3 DEF CipherInv, CipherAt
    <3> QED
      BY <3>1, <3>2
  <2>4. Found /\ pc' \in {"cipher", "packed"}
    BY <2>1 DEF Found
  <2> QED
    BY <1>2, <2>1, <2>2, <2>3, <2>4
<1>6. CASE EmptyBlock
  <2>1. /\ UNCHANGED <<packVars, hash, index, lost, reader, lim, cipher, job, want, target, back>> /\ pc = "packed"
        /\ pc' = "block" /\ n = 0 /\ step' = "data"
    BY <1>6 DEF EmptyBlock, streamVars, callVars
  <2>2. Taken' = Taken
    BY <2>1 DEF Taken
  <2>3. ASSUME InFile PROVE StreamInv' /\ CipherInv'
    <3>1. StreamInv'
      BY <1>0, <2>1, <2>3 DEF StreamInv
    <3>2. CipherInv'
      BY <1>0, <2>1, <2>3 DEF CipherInv
    <3> QED
      BY <3>1, <3>2
  <2>4. Found
    BY <2>1 DEF Found
  <2> QED
    BY <1>2, <2>1, <2>2, <2>3, <2>4
<1>7. CASE ReadPlain \/ FillCipher \/ KeyCipher \/ Cipher \/ FillBlock
  <2>1. Found /\ pc \in {"packed", "cipher"} /\ arc' = arc /\ lost' = lost /\ (back' => back)
    BY <1>7, ReadsAre
  <2>4. ASSUME InFile PROVE Placed' /\ Sited(from)' /\ StreamInv' /\ CipherInv' /\ (Delivers \/ index' = index)
    <3>1. Whole(from) /\ Sited(from) /\ StreamInv /\ CipherInv
      BY <1>0, <2>4
    <3>2. CASE ReadPlain
      BY <3>1, <3>2, ReadPlainKeeps DEF Delivers
    <3>3. CASE FillCipher
      BY <3>1, <3>3, FillCipherKeeps DEF FillCipher
    <3>4. CASE KeyCipher
      BY <3>1, <3>4, KeyCipherKeeps DEF KeyCipher
    <3>5. CASE Cipher
      BY <3>1, <3>5, CipherKeeps
    <3>6. CASE FillBlock
      BY <3>1, <3>6, FillBlockKeeps
    <3> QED
      BY <1>7, <3>2, <3>3, <3>4, <3>5, <3>6
  <2>5. ASSUME InFile, ~lost PROVE index' \in 0 .. Length
    <3>1. index \in 0 .. Length /\ Length \in Nat
      BY <1>i, <2>5, RarAssumption DEF InFile
    <3>2. CASE index' = index
      BY <3>1, <3>2
    <3>3. CASE Delivers
      <4>1. PICK c \in Nat \ {0} : c <= Room /\ Deliver(Run(Len(hash), c))
        BY <3>3 DEF Delivers
      <4>2. job \in {"read", "seek"}
        BY <2>1 DEF CallInv
      <4>3. /\ job = "read" => index' = index + c /\ c <= Length - index
            /\ job = "seek" => index' = index
        BY <1>0, <2>1, <2>5, <4>1, <4>2, DeliverStreams
      <4> QED
        BY <3>1, <4>2, <4>3
    <3> QED
      BY <2>4, <2>5, <3>2, <3>3
  <2> QED
    BY <2>1, <2>4, <2>5, FoundFile
<1> QED
  BY <1>1, <1>3, <1>4, <1>5, <1>6, <1>7

LEMMA SeekKeepsFile ==
  ASSUME NEW from, WellPacked(from), CallInv, FileInv(from),
         (\E v \in rewind : RewindVolume(v)) \/ Reopen \/ ReopenFails \/ Skip \/ Failed \/ Unopened \/ Panic
  PROVE  FileInv(from)'
<1> USE DEF packVars, volumeVars, flagVars, packedVars
<1>0. InFile => Whole(from) /\ Sited(from) /\ StreamInv /\ CipherInv
  BY FileIs
<1>1. ASSUME NEW v \in rewind, RewindVolume(v) PROVE FileInv(from)'
  <2>1. lost /\ lost' /\ pc' \in {"rewinding", "unwound"}
    BY <1>1 DEF RewindVolume, CallInv
  <2> QED
    BY <2>1 DEF FileInv, Sound, InFile, Looking, Found
<1>2. CASE Reopen
  <2>1. /\ lost /\ lost' /\ pc' = "open" /\ arc' = arc /\ at' = at /\ NewMultiReader(FALSE)
        /\ \A v \in DOMAIN arc.vols : at[v] = 0
    BY <1>2 DEF Reopen, CallInv, NewMultiReader
  <2>2. arc.whole => Placed'
    BY <2>1, BeginPlaced DEF CallInv
  <2> QED
    BY <2>1, <2>2 DEF FileInv, Sound, InFile, Found
<1>3. CASE ReopenFails
  <2>1. lost /\ lost' /\ pc' = "failed"
    BY <1>3 DEF ReopenFails, CallInv
  <2> QED
    BY <2>1 DEF FileInv, Sound, InFile, Looking, Found
<1>4. CASE Skip
  <2>1. pc = "skipping" /\ Found /\ job = "seek" /\ step \notin {"sig", "volume", "service"}
        /\ UNCHANGED <<arc, at, vi, buf, n, h, encrypted, reader, lim, hash, cipher>>
    BY <1>4 DEF Skip, Found, CallInv, StepInv, streamVars
  <2>2. Taken' = Taken
    BY <2>1 DEF Taken
  <2>3. CASE SkipsOn
    <3>1. pc' = "reading" /\ UNCHANGED <<step, job, want, target, back, index, lost>> /\ want > 0
      BY <1>4, <2>3 DEF Skip, callVars, SkipsOn
    <3>2. ASSUME InFile PROVE Placed' /\ Sited(from)' /\ StreamInv' /\ CipherInv'
      <4>1. Placed' /\ Sited(from)'
        BY <1>0, <2>1, <2>2, <3>1, <3>2, StillPlaced, StillSited DEF Whole
      <4>2. StreamInv' /\ CipherInv'
        BY <1>0, <2>1, <3>1, <3>2 DEF StreamInv, CipherInv
      <4> QED
        BY <4>1, <4>2
    <3>3. InFile /\ ~lost => index' \in 0 .. Length
      BY <3>1 DEF FileInv, InFile
    <3> QED
      BY <2>1, <3>1, <3>2, <3>3, FoundFile
  <2>4. CASE ~SkipsOn
    <3>1. /\ index' = target /\ lost' = (lost /\ ~back) /\ pc' = "idle" /\ step' = "data" /\ job' = "idle" /\ ~back' /\ ~(want > 0)
      BY <1>4, <2>4 DEF Skip, Return, SkipsOn
    <3>2. Sound' \/ InFile' \/ (arc'.whole /\ ~lost') => InFile
      <4>1. Sound' \/ InFile' \/ (arc'.whole /\ ~lost') => Sound
        BY <2>1, <3>1 DEF Sound, InFile
      <4> QED
        BY <2>1, <4>1, FoundIn
    <3>3. ASSUME InFile PROVE Placed' /\ Sited(from)' /\ StreamInv' /\ CipherInv' /\ index' \in 0 .. Length
      <4>1. Placed' /\ Sited(from)'
        BY <1>0, <2>1, <2>2, <3>1, <3>3, StillPlaced, StillSited DEF Whole
      <4>2. Len(hash) = target /\ target \in 0 .. Length
        <5>1. want \in Nat /\ Len(hash) + want = target /\ target \in 0 .. Length /\ Len(hash) \in Nat
          BY <1>0, <2>1, <3>3 DEF StreamInv
        <5> QED
          BY <3>1, <5>1
      <4>3. StreamInv' /\ CipherInv'
        BY <1>0, <2>1, <3>1, <3>3, <4>2 DEF StreamInv, CipherInv
      <4> QED
        BY <3>1, <4>1, <4>2, <4>3
    <3> QED
      BY <3>2, <3>3 DEF FileInv
  <2> QED
    BY <2>3, <2>4
<1>5. CASE Failed \/ Panic
  <2>1. /\ pc \in {"failed", "panic"} /\ (lost => lost') /\ pc' = "idle" /\ step' = "data" /\ job' = "idle" /\ ~back'
        /\ UNCHANGED <<arc, at, vi, buf, n, h, encrypted, reader, lim, hash, index>>
    <3>1. CASE Failed
      BY <3>1 DEF Failed, Return
    <3>2. CASE Panic
      BY <3>2 DEF Panic, Return, streamVars
    <3> QED
      BY <1>5, <3>1, <3>2
  <2>2. Sound' => Sound
    BY <2>1 DEF Sound, Looking, Found
  <2>3. Sound => Placed'
    BY <2>1, StillPlaced DEF FileInv
  <2>4. ASSUME InFile' PROVE Sited(from)' /\ StreamInv' /\ CipherInv'
    <3>1. ~lost' /\ ~lost /\ InFile
      BY <2>1, <2>4 DEF InFile
    <3>2. Failed /\ cipher' = [cipher EXCEPT !.part = << >>] /\ cipher.part = << >> /\ ~(job = "seek" /\ Len(hash) # index)
      BY <1>5, <2>1, <3>1 DEF Failed, CallInv, Panic
    <3>3. /\ \A f \in {"on", "keyed", "in", "part", "out", "last"} : cipher'[f] = cipher[f]
          /\ DOMAIN cipher' = {"on", "keyed", "in", "part", "out", "last"} /\ CipherAt(cipher, Len(hash))
      BY <1>0, <3>1, <3>2 DEF CipherInv, CipherAt
    <3>4. /\ cipher'.on = cipher.on /\ cipher'.in = cipher.in /\ cipher'.part = << >>
          /\ cipher'.out = cipher.out /\ cipher'.last = cipher.last
      BY <3>2, <3>3
    <3>5. Taken' = Taken
      BY <2>1, <3>2, <3>4 DEF Taken
    <3>6. Sited(from)'
      BY <1>0, <2>1, <3>1, <3>5, StillSited
    <3>7. Len(hash) = index
      BY <1>0, <2>1, <3>1, <3>2 DEF StreamInv, CallInv, InFile
    <3>8. StreamInv'
      BY <1>0, <2>1, <3>1, <3>7 DEF StreamInv
    <3>9. CipherInv'
      <4>1. CipherAt(cipher', Len(hash'))
        BY <2>1, <3>2, <3>3, <3>4 DEF CipherAt
      <4>2. lim = -1 => cipher' = NoCipher
        BY <1>0, <3>1, <3>2 DEF CipherInv, NoCipher
      <4> QED
        BY <2>1, <3>4, <4>1, <4>2 DEF CipherInv
    <3> QED
      BY <3>6, <3>8, <3>9
  <2> QED
    BY <2>1, <2>2, <2>3, <2>4 DEF FileInv
<1>6. CASE Unopened
  <2>1. /\ pc = "unopened" /\ lost' = lost /\ pc' = "idle" /\ step' = "data" /\ ~back'
        /\ UNCHANGED <<arc, at, vi, buf, n, h, encrypted, index>> /\ reader' = (IF job = "seek" THEN "nil" ELSE reader)
    BY <1>6 DEF Unopened, Return
  <2>2. Sound' => Sound
    BY <2>1 DEF Sound
  <2>3. Sound => Placed'
    BY <2>1, StillPlaced DEF FileInv
  <2>4. ~InFile'
    BY <2>1 DEF InFile, CallInv
  <2> QED
    BY <2>1, <2>2, <2>3, <2>4 DEF FileInv
<1> QED
  BY <1>1, <1>2, <1>3, <1>4, <1>5, <1>6

-----------------------------------------------------------------------------
(* The inductive invariant *)

SeqInv(from) == EOFInv /\ CallInv /\ FileInv(from)

LEMMA FileInit == ASSUME NEW from, WellPacked(from), RarInit PROVE FileInv(from)
<1>1. ASSUME arc.whole PROVE Placed
  <2>1. arc \in Archives /\ 1 \in DOMAIN arc.vols
    BY <1>1 DEF RarInit, WellPacked
  <2>2. Len(arc.vols[1]) \in Nat
    BY <1>1, <2>1, PackedVolume
  <2>3. AtPlace /\ Place = 0
    BY <2>1, <2>2 DEF RarInit, AtPlace, Place, Cells
  <2> QED
    BY <2>3 DEF RarInit, Placed, HeadInv
<1>2. ~InFile
  BY DEF RarInit, InFile
<1>3. index \in 0 .. Length
  BY RarAssumption DEF RarInit
<1> QED
  BY <1>1, <1>2, <1>3 DEF FileInv, Sound

LEMMA StutterKeepsFile ==
  ASSUME NEW from, FileInv(from), UNCHANGED rarVars
  PROVE  FileInv(from)'
<1> USE DEF rarVars, packVars, packedVars, volumeVars, flagVars, streamVars, callVars
<1>1. (Sound' <=> Sound) /\ (InFile' <=> InFile)
  BY DEF Sound, InFile, Looking, Found
<1>2. Place' = Place /\ Cells' = Cells /\ Taken' = Taken
  BY DEF Place, Cells, Taken
<1>3. Placed => Placed'
  BY <1>2 DEF Placed, AtPlace, HeadInv
<1>4. Sited(from) => Sited(from)'
  BY <1>2 DEF Sited
<1>5. (StreamInv => StreamInv') /\ (CipherInv => CipherInv')
  BY DEF StreamInv, CipherInv
<1> QED
  BY <1>1, <1>3, <1>4, <1>5 DEF FileInv

LEMMA StutterKeepsCall == ASSUME CallInv, UNCHANGED rarVars PROVE CallInv'
BY DEF rarVars, packVars, packedVars, volumeVars, flagVars, streamVars, callVars, CallInv, StepInv, Looking, Found

LEMMA StepKeepsFile ==
  ASSUME NEW from, WellPacked(from), EOFInv, CallInv, FileInv(from), Step
  PROVE  FileInv(from)'
<1> HIDE DEF VolumeStep, HeaderMissed
<1> QED
  BY SearchKeepsFile, NamedKeepsFile, ReadKeepsFile, SeekKeepsFile DEF Step

LEMMA SeqKeeps ==
  ASSUME NEW from, WellPacked(from), SeqInv(from), [RarNext]_rarVars
  PROVE  SeqInv(from)'
<1>1. EOFInv'
  BY EOFKeeps DEF SeqInv
<1>2. CallInv'
  BY StutterKeepsCall, CallerKeepsCall, StepKeepsCall DEF SeqInv, RarNext
<1>3. FileInv(from)'
  BY StutterKeepsFile, CallerKeepsFile, StepKeepsFile DEF SeqInv, RarNext
<1> QED
  BY <1>1, <1>2, <1>3 DEF SeqInv

-----------------------------------------------------------------------------
(* Every step is one of SeqFile *)

(* The state of SeqFile.                                                     *)
Gone   == lost \/ ~arc.whole
Silent == [op |-> "none", bytes |-> << >>, err |-> "nil"]
Told   == IF answer.op \in {"read", "seek"} THEN answer ELSE Silent

(* What a step may look like.                                                *)
Answered(op, bytes, err) == answer' = [op |-> op, bytes |-> bytes, err |-> err]

Mapped ==
  \/ Gone' /\ (Gone \/ UNCHANGED <<index, Told>>)
  \/ UNCHANGED <<Gone, index, Told>>
  \/ ~Gone' /\ Answered("seek", << >>, "nil") /\ index' \in 0 .. Length
  \/ /\ ~Gone
     /\ \/ Answered("seek", << >>, "range") /\ index' = index
        \/ job \in {"read", "seek"} /\ Answered(job, << >>, "error") /\ index' = index
        \/ Answered("read", << >>, "eof") /\ index' = index /\ index = Length
        \/ \E c \in 1 .. Length - index : Answered("read", Run(index, c), "nil") /\ index' = index + c

LEMMA MappedIs ==
  ASSUME Mapped
  PROVE  [F!Next]_F!seqVars
<1> USE DEF Gone, Told, Silent, Answered
<1>1. CASE Gone' /\ (Gone \/ UNCHANGED <<index, Told>>)
  BY <1>1 DEF F!Next, F!Lost
<1>2. CASE UNCHANGED <<Gone, index, Told>>
  BY <1>2 DEF F!seqVars
<1>3. CASE ~Gone' /\ Answered("seek", << >>, "nil") /\ index' \in 0 .. Length
  BY <1>3 DEF F!Next, F!Found, F!Seek, F!Answers
<1>4. CASE ~Gone /\ Answered("seek", << >>, "range") /\ index' = index
  <2>1. F!Fails
    BY <1>4 DEF F!Fails, F!Answers
  <2> QED
    BY <1>4, <2>1 DEF F!Next
<1>5. CASE ~Gone /\ job \in {"read", "seek"} /\ Answered(job, << >>, "error") /\ index' = index
  <2>1. F!Fails
    BY <1>5 DEF F!Fails, F!Answers
  <2> QED
    BY <1>5, <2>1 DEF F!Next
<1>6. CASE ~Gone /\ Answered("read", << >>, "eof") /\ index' = index /\ index = Length
  <2>1. F!ReadEnd
    BY <1>6 DEF F!ReadEnd, F!Answers
  <2> QED
    BY <1>6, <2>1 DEF F!Next
<1>7. ASSUME ~Gone, NEW c \in 1 .. Length - index, Answered("read", Run(index, c), "nil"), index' = index + c
      PROVE  F!Next
  <2>1. F!ReadSome
    BY <1>7 DEF F!ReadSome, F!Answers, Run
  <2> QED
    BY <1>7, <2>1 DEF F!Next
<1> QED
  BY <1>1, <1>2, <1>3, <1>4, <1>5, <1>6, <1>7 DEF Mapped

(* A step within a call that answers nothing.                                *)
LEMMA SilentMaps ==
  ASSUME UNCHANGED <<arc, index, answer>>, lost => lost'
  PROVE  Mapped
BY DEF Mapped, Gone, Told

(* A call that opens or lists the archive answers nothing that counts.       *)
LEMMA OpeningMaps ==
  ASSUME CallInv, job \in {"open", "list"}, NEW bytes, NEW err, Return(bytes, err),
         UNCHANGED <<arc, lost>>, index' \in {index, 0}
  PROVE  Mapped
<1>1. index = 0 /\ index' = 0 /\ answer.op \notin {"read", "seek"} /\ answer'.op = job
  BY DEF CallInv, Return
<1> QED
  BY <1>1 DEF Mapped, Gone, Told

LEMMA CallerMaps ==
  ASSUME NEW from, SeqInv(from), Caller
  PROVE  Mapped
<1> USE DEF packVars
<1>1. CASE Open
  BY <1>1, SilentMaps DEF Open
<1>2. ASSUME NEW k, Read(k) PROVE Mapped
  BY <1>2, SilentMaps DEF Read
<1>3. ASSUME NEW to, SeekNowhere(to) PROVE Mapped
  <2>1. UNCHANGED <<arc, lost, index>> /\ Answered("seek", << >>, IF to = index THEN "nil" ELSE "range")
    BY <1>3 DEF SeekNowhere, Answered
  <2>2. ~Gone => index \in 0 .. Length
    BY DEF SeqInv, FileInv, Gone
  <2> QED
    BY <2>1, <2>2 DEF Mapped, Gone
<1>4. ASSUME NEW to, SeekForward(to) PROVE Mapped
  BY <1>4, SilentMaps DEF SeekForward
<1>5. ASSUME NEW to, SeekBack(to) PROVE Mapped
  BY <1>5, SilentMaps DEF SeekBack
<1> QED
  BY <1>1, <1>2, <1>3, <1>4, <1>5 DEF Caller

LEMMA NamedMaps ==
  ASSUME NEW from, SeqInv(from), FileFound \/ OtherFile \/ FirstFile
  PROVE  Mapped
<1> USE DEF packVars
<1>1. CASE FileFound /\ job = "open"
  <2>1. Return(<< >>, "nil") /\ UNCHANGED <<arc, lost>> /\ index' = 0
    BY <1>1 DEF FileFound
  <2> QED
    BY <1>1, <2>1, OpeningMaps DEF SeqInv
<1>2. CASE FileFound /\ job # "open"
  <2>1. job = "seek" /\ UNCHANGED <<arc, lost, answer>> /\ lost
    BY <1>2 DEF FileFound, SeqInv, CallInv, Looking
  <2> QED
    BY <2>1 DEF Mapped, Gone
<1>3. CASE OtherFile
  BY <1>3, SilentMaps DEF OtherFile
<1>4. CASE FirstFile
  <2>1. Return(<< >>, "nil") /\ UNCHANGED <<arc, lost, index>> /\ job = "list"
    BY <1>4 DEF FirstFile
  <2> QED
    BY <2>1, OpeningMaps DEF SeqInv
<1> QED
  BY <1>1, <1>2, <1>3, <1>4

(* A reader that has its place is within the file when it is read.           *)
LEMMA ReadsInFile ==
  ASSUME NEW from, WellPacked(from), SeqInv(from), Found, ~Gone
  PROVE  InFile /\ Whole(from) /\ Sited(from) /\ StreamInv /\ CipherInv /\ index \in 0 .. Length
<1>1. InFile
  BY FoundIn DEF SeqInv, Gone, Sound
<1> QED
  BY <1>1, FileIs DEF SeqInv, Gone, FileInv

(* The steps that read answer with the bytes that follow, or nothing yet.    *)
LEMMA ReadMaps ==
  ASSUME NEW from, WellPacked(from), SeqInv(from),
         ReadPlain \/ FillCipher \/ KeyCipher \/ Cipher \/ FillBlock
  PROVE  Mapped
<1>1. Found /\ pc \in {"packed", "cipher"} /\ arc' = arc /\ lost' = lost
  BY ReadsAre
<1>2. CASE Gone
  BY <1>1, <1>2 DEF Mapped, Gone
<1>3. CASE ~Gone
  <2>1. Whole(from) /\ CallInv /\ Sited(from) /\ StreamInv /\ CipherInv /\ index \in 0 .. Length
    BY <1>1, <1>3, ReadsInFile DEF SeqInv
  <2>2. Delivers \/ UNCHANGED <<index, answer>>
    <3>1. CASE ReadPlain
      BY <2>1, <3>1, ReadPlainKeeps DEF Delivers
    <3>2. CASE FillCipher \/ KeyCipher
      BY <3>2 DEF FillCipher, KeyCipher
    <3>3. CASE Cipher
      BY <2>1, <3>3, CipherKeeps
    <3>4. CASE FillBlock
      BY <2>1, <3>4, FillBlockKeeps
    <3> QED
      BY <3>1, <3>2, <3>3, <3>4
  <2>3. CASE UNCHANGED <<index, answer>>
    BY <1>1, <2>3, SilentMaps
  <2>4. CASE Delivers
    <3>1. PICK c \in Nat \ {0} : c <= Room /\ Deliver(Run(Len(hash), c))
      BY <2>4 DEF Delivers
    <3>2. job \in {"read", "seek"}
      BY <1>1, <2>1 DEF CallInv
    <3>3. /\ job = "read" => Return(Run(index, c), "nil") /\ index' = index + c /\ c <= Length - index
          /\ job = "seek" => UNCHANGED <<index, answer>>
      BY <1>1, <2>1, <3>1, <3>2, DeliverStreams
    <3>4. CASE job = "read"
      <4>1. c \in 1 .. Length - index
        BY <2>1, <3>3, <3>4, RarAssumption
      <4>2. Answered("read", Run(index, c), "nil") /\ index' = index + c
        BY <3>3, <3>4 DEF Return, Answered
      <4> QED
        BY <1>3, <4>1, <4>2 DEF Mapped
    <3>5. CASE job = "seek"
      BY <1>1, <3>3, <3>5, SilentMaps
    <3> QED
      BY <3>2, <3>4, <3>5
  <2> QED
    BY <2>2, <2>3, <2>4
<1> QED
  BY <1>2, <1>3

(* End of file is told at the end.                                           *)
LEMMA EndMaps ==
  ASSUME NEW from, WellPacked(from), SeqInv(from), ReadNil \/ NextFile \/ AtLimit \/ Below \/ EmptyBlock
  PROVE  Mapped
<1> USE DEF packVars
<1>1. CASE ReadNil \/ Below \/ EmptyBlock
  BY <1>1, SilentMaps DEF ReadNil, Below, EmptyBlock
<1>2. CASE NextFile
  <2>1. CASE h = NoHeader
    <3>1. lost /\ lost'
      BY <1>2, <2>1 DEF NextFile, SeqInv, EOFInv
    <3> QED
      BY <3>1 DEF Mapped, Gone
  <2>2. CASE h # NoHeader
    BY <1>2, <2>2, SilentMaps DEF NextFile
  <2> QED
    BY <2>1, <2>2
<1>3. CASE AtLimit
  <2>1. pc = "reading" /\ lim = 0 /\ UNCHANGED <<arc, index, lost>> /\ Found
    BY <1>3 DEF AtLimit, Found
  <2>2. CASE ~SumMatches
    BY <1>3, <2>1, <2>2, SilentMaps DEF AtLimit
  <2>3. CASE SumMatches /\ Gone
    BY <2>1, <2>3 DEF Mapped, Gone
  <2>4. CASE SumMatches /\ ~Gone
    <3>1. StreamInv /\ InFile
      BY <2>1, <2>4, ReadsInFile
    <3>2. Len(hash) = Length /\ Length \in Nat
      BY <2>1, <3>1, RarAssumption DEF StreamInv
    <3>3. job # "seek"
      BY <2>1, <3>1, <3>2 DEF StreamInv
    <3>4. job = "read"
      BY <2>1, <3>3 DEF SeqInv, CallInv
    <3>5. index = Length /\ Answered("read", << >>, "eof")
      BY <1>3, <2>4, <3>1, <3>2, <3>4 DEF AtLimit, Return, Answered, StreamInv
    <3> QED
      BY <2>1, <2>4, <3>5 DEF Mapped
  <2> QED
    BY <2>2, <2>3, <2>4
<1> QED
  BY <1>1, <1>2, <1>3

LEMMA SeekMaps ==
  ASSUME NEW from, WellPacked(from), SeqInv(from),
         (\E v \in rewind : RewindVolume(v)) \/ Reopen \/ ReopenFails \/ Skip \/ Failed \/ Unopened \/ Panic
  PROVE  Mapped
<1> USE DEF packVars
<1>1. ASSUME NEW v \in rewind, RewindVolume(v) PROVE Mapped
  BY <1>1, SilentMaps DEF RewindVolume
<1>2. CASE Reopen \/ ReopenFails
  <2>1. UNCHANGED <<arc, index, answer, lost>>
    BY <1>2 DEF Reopen, ReopenFails
  <2> QED
    BY <2>1, SilentMaps
<1>3. CASE Skip /\ SkipsOn
  BY <1>3, SilentMaps DEF Skip
<1>4. CASE Skip /\ ~SkipsOn
  <2>1. /\ pc = "skipping" /\ job = "seek" /\ Found /\ arc' = arc /\ index' = target /\ lost' = (lost /\ ~back)
        /\ Answered("seek", << >>, "nil")
    BY <1>4 DEF Skip, Return, Answered, Found, SeqInv, CallInv
  <2>2. CASE Gone'
    BY <2>1, <2>2 DEF Mapped, Gone
  <2>3. CASE ~Gone'
    <3>1. InFile
      BY <2>1, <2>3, FoundIn DEF SeqInv, Gone, Sound
    <3>2. target \in 0 .. Length
      BY <2>1, <3>1 DEF SeqInv, FileInv, StreamInv
    <3> QED
      BY <2>1, <2>3, <3>2 DEF Mapped
  <2> QED
    BY <2>2, <2>3
<1>5. CASE Failed
  <2>1. pc = "failed" /\ Return(<< >>, "error") /\ UNCHANGED <<arc, index>> /\ (lost => lost')
    BY <1>5 DEF Failed
  <2>2. CASE Gone
    BY <2>1, <2>2 DEF Mapped, Gone
  <2>3. CASE ~Gone /\ job \in {"open", "list"}
    <3>1. index = 0 /\ index' = 0 /\ answer.op \notin {"read", "seek"} /\ answer'.op = job
      BY <2>1, <2>3 DEF SeqInv, CallInv, Return
    <3> QED
      BY <2>1, <2>3, <3>1 DEF Mapped, Gone, Told
  <2>4. CASE ~Gone /\ job \in {"read", "seek"}
    BY <2>1, <2>4 DEF Mapped, Return, Answered
  <2> QED
    BY <2>1, <2>2, <2>3, <2>4 DEF SeqInv, CallInv
<1>6. CASE Unopened
  <2>1. /\ pc = "unopened" /\ Return(<< >>, "error") /\ UNCHANGED <<arc, index, lost>>
        /\ job \in {"open", "list"} \/ back
    BY <1>6 DEF Unopened, SeqInv, CallInv
  <2>2. CASE job \in {"open", "list"}
    BY <2>1, <2>2, OpeningMaps DEF SeqInv
  <2>3. CASE back
    BY <2>1, <2>3 DEF Mapped, Gone, SeqInv, CallInv
  <2> QED
    BY <2>1, <2>2, <2>3
<1>7. CASE Panic
  <2>1. lost /\ lost'
    BY <1>7 DEF Panic, SeqInv, CallInv
  <2> QED
    BY <2>1 DEF Mapped, Gone
<1> QED
  BY <1>1, <1>2, <1>3, <1>4, <1>5, <1>6, <1>7

(* Whatever a whole archive holds and however its volumes fail, the reader of  *)
(* the file is an io.ReadSeeker: each Read returns the bytes that follow the   *)
(* position, through every layer and across volumes, end of file comes at the *)
(* end, a Seek that returns nil has moved, and a call that fails has not; but  *)
(* for a reader that has lost its place, until a Seek finds it again.         *)
THEOREM SeqFileCorrect ==
  ASSUME NEW from, WellPacked(from)
  PROVE  RarSpec => ImplementsSeqFile
<1>1. RarInit => SeqInv(from) /\ F!Init
  <2> SUFFICES ASSUME RarInit PROVE SeqInv(from) /\ F!Init
    OBVIOUS
  <2>1. F!Init
    BY DEF RarInit, F!Init
  <2> QED
    BY <2>1, EOFInit, CallInit, FileInit DEF SeqInv
<1>2. SeqInv(from) /\ [RarNext]_rarVars => SeqInv(from)'
  BY SeqKeeps
<1>3. SeqInv(from) /\ [RarNext]_rarVars => [F!Next]_F!seqVars
  <2> SUFFICES ASSUME SeqInv(from), [RarNext]_rarVars PROVE [F!Next]_F!seqVars
    OBVIOUS
  <2>1. CASE UNCHANGED rarVars
    BY <2>1, SilentMaps, MappedIs DEF rarVars, packVars
  <2>2. CASE Caller
    BY <2>2, CallerMaps, MappedIs
  <2>3. CASE VolumeStep /\ lost' = (lost \/ HeaderMissed) /\ UNCHANGED <<streamVars, index, callVars, answer>>
    <3> HIDE DEF VolumeStep, HeaderMissed
    <3>1. arc' = arc
      BY <2>3, SearchCalls DEF SeqInv
    <3> QED
      BY <2>3, <3>1, SilentMaps, MappedIs
  <2> QED
    BY <2>1, <2>2, <2>3, NamedMaps, EndMaps, ReadMaps, SeekMaps, MappedIs DEF RarNext, Step
<1> QED
  BY <1>1, <1>2, <1>3, PTL DEF RarSpec, ImplementsSeqFile, F!Spec

-----------------------------------------------------------------------------
(* A whole archive whose volumes do not fail                                 *)

(* The name of the file of a header, if its last block has not come.         *)
Unfinished(b) == IF b = NoHeader THEN {} ELSE IF b.last THEN {} ELSE {b.name}

(* The search can go on from cell k of volume v.                             *)
Stop(walk, v, k) == <<v, k, encrypted, multi, Unfinished(h)>> \in walk[arc]

(* The search for the next header, wherever it is, can go on,                *)
Walked(walk) ==
  /\ step = "sig" => Stop(walk, vi, 0)
  /\ step = "header" => Stop(walk, vi, Place + 1)
  /\ step = "salted" => encrypted /\ Place > 0 /\ Stop(walk, vi, Place)
  /\ step = "service" => Cells[Place].size <= Left /\ Stop(walk, vi, Place + Cells[Place].size + 1)
  /\ step = "volume" => vi < Len(arc.vols) /\ Stop(walk, vi + 1, 0)
  /\ step = "data" => n <= Left /\ ((h # NoHeader /\ h.name = Name /\ h.last) \/ Stop(walk, vi, Place + n + 1))
  /\ step # "garbled"

(* and is one for the next block of a file, or for the first of another.     *)
Searched ==
  /\ pc = "open" => step = "sig" /\ vi = 1 /\ h = NoHeader /\ n = 0
  /\ pc = "first" => step # "data" /\ h = NoHeader
  /\ pc = "skip" => (h = NoHeader \/ h.name # Name) /\ (step # "data" => Unfinished(h) # {})
  /\ pc = "block" => Unfinished(h) # {}
  /\ pc \in {"named", "idle", "skipping", "reading", "cipher", "packed"} => step = "data"
  /\ pc = "named" => h # NoHeader /\ h.last = Cells[Place].last /\ (h.locked => Cells[Place].locked)

(* The blocks up to the current one come to the end of the file with the last. *)
Counted ==
  /\ ~h.last => Taken + n < Length
  /\ h.last => Taken + n >= Length /\ (Encrypted(arc) => (Taken + n) % BlockSize = 0)

(* Whole blocks of the cipher have been decrypted.                           *)
Aligned ==
  /\ h.locked => Encrypted(arc)
  /\ cipher.on => Encrypted(arc) /\ cipher.last % BlockSize = 0

(* The reader has what it needs of an encrypted archive.                     *)
Able == ~arc.locked \/ reader = "none" \/ (key /\ ~lost)

Engaged == Looking \/ Found \/ (pc = "idle" /\ reader = "open")

(* Nothing has panicked, nor will: the first volume opens.                   *)
Calm ==
  /\ pc \notin {"unopened", "panic", "unwound"} /\ reader \in {"none", "open"} /\ answer.err # "panic"
  /\ pc = "open" => step = "sig" /\ vi = 1
  /\ back /\ (Looking \/ Found) => ~key

Sure(walk) ==
  /\ lost => back
  /\ pc # "failed" /\ answer.err # "error"
  /\ Engaged => (arc.locked => key) /\ Walked(walk) /\ Searched
  /\ reader = "open" /\ (Found \/ pc = "idle") => Counted /\ Aligned

NoFault == arc.whole /\ faults = 0

SureInv(walk) ==
  /\ faults \in Nat
  /\ NoFault => Calm /\ (Able => Sure(walk))

(* A search of a whole archive with what it needs, at a place in the walk.    *)
Search(from, walk) ==
  /\ WellPacked(from) /\ WellFound(from, walk) /\ arc \in Archives /\ arc.whole /\ Placed
  /\ arc.locked => key
  /\ Walked(walk) /\ Searched
  /\ faults = 0

LEMMA StopIs ==
  ASSUME NEW from, NEW walk, WellFound(from, walk), NEW a \in Archives, a.whole,
         NEW v, NEW k, NEW e, NEW m, NEW o, <<v, k, e, m, o>> \in walk[a]
  PROVE  Continues(a, walk[a], v, k, e, m, o)
BY DEF WellFound

LEMMA StartIs ==
  ASSUME NEW from, NEW walk, WellFound(from, walk), NEW a \in Archives, a.whole
  PROVE  /\ <<1, 0, FALSE, FALSE, {}>> \in walk[a]
         /\ Encrypted(a) => a.locked
BY DEF WellFound

LEMMA EndIs ==
  ASSUME NEW from, NEW walk, WellFound(from, walk), NEW a \in Archives, a.whole,
         NEW v \in DOMAIN a.vols, NEW k \in DOMAIN a.vols[v], Mine(a.vols[v][k])
  PROVE  GoesToEnd(a, a.vols[v][k], from[a][v][k + 1])
BY DEF WellFound

(* The signature is there.                                                   *)
LEMMA SigFound ==
  ASSUME NEW from, NEW walk, WellFound(from, walk), arc \in Archives, arc.whole, AtPlace, Place = 0,
         NEW e, NEW m, NEW o, <<vi, 0, e, m, o>> \in walk[arc],
         FindSig, faults = 0, faults' = 0, pc \in {"open", "skip", "first", "block"}
  PROVE  \E k \in Nat : /\ Moved(k) /\ <<vi, k + 1, FALSE, m, o>> \in walk[arc]
                        /\ pc' = (IF pc = "open" THEN "skip" ELSE pc)
                        /\ step' = (IF pc = "open" THEN "data" ELSE "header")
<1>1. PICK j \in 1 .. Len(Cells) :
        /\ Cells[j].t = "sig" /\ Cells[j].ver = arc.ver /\ \A i \in 1 .. j - 1 : Cells[i].t # "sig"
        /\ <<vi, j + 1, FALSE, m, o>> \in walk[arc]
  <2>1. Continues(arc, walk[arc], vi, 0, e, m, o)
    BY StopIs
  <2> QED
    BY <2>1 DEF Continues, Cells
<1>2. UNCHANGED <<arc, vi>>
  BY DEF FindSig
<1>3. Left \in Nat /\ Left = Len(Cells)
  BY PlaceIs
<1> DEFINE ahead == {k \in 1 .. Left : Cells[Place + k].t = "sig"}
<1>4. j \in ahead /\ \A i \in ahead : j <= i
  BY <1>1, <1>3
<1>5. ahead \in SUBSET Nat
  BY <1>3
<1>6. Min(ahead) = j
  <2> HIDE DEF ahead
  <2>1. Min(ahead) \in ahead /\ Min(ahead) <= j
    BY <1>4, <1>5, LeastIs
  <2>2. Min(ahead) \in Nat /\ j \in Nat /\ j <= Min(ahead)
    BY <1>4, <1>5, <2>1
  <2> QED
    BY <2>1, <2>2
<1>7. ~Fail
  <2>1. Cells[Place + Min(ahead)].ver = arc.ver /\ ahead # {}
    BY <1>1, <1>4, <1>6
  <2>2. ~Faulty(1)
    BY DEF Faulty
  <2>3. pc' = (IF pc = "open" THEN "skip" ELSE pc)
    BY <2>1, <2>2 DEF FindSig
  <2> QED
    BY <2>3 DEF Fail
<1>8. PICK k \in 1 .. Left : /\ Moved(k) /\ Cells[Place + k].t = "sig"
                             /\ \A i \in 1 .. k - 1 : Cells[Place + i].t # "sig"
                             /\ pc' = (IF pc = "open" THEN "skip" ELSE pc)
                             /\ step' = (IF pc = "open" THEN "data" ELSE "header")
  BY <1>2, <1>7, SigMoves
<1>9. k = j
  BY <1>1, <1>3, <1>8
<1>10. <<vi, k + 1, FALSE, m, o>> \in walk[arc] /\ k \in Nat
  BY <1>1, <1>9
<1> QED
  BY <1>8, <1>10

(* A header that can be read is one that the search goes on from.            *)
HeaderHere(walk) ==
  LET cell == Cells[Place + 1] IN
  /\ cell.t \in {"arc", "crypt", "service", "file", "end"}
  /\ cell.t = "arc" =>
       <<vi, Place + 2, IF arc.ver = 15 THEN cell.encrypted ELSE encrypted, cell.multi, Unfinished(h)>> \in walk[arc]
  /\ cell.t = "crypt" => arc.locked /\ <<vi, Place + 2, TRUE, multi, Unfinished(h)>> \in walk[arc]
  /\ cell.t = "service" => Place + 1 + cell.size <= Len(Cells) /\ Stop(walk, vi, Place + cell.size + 2)
  /\ cell.t = "file" =>
       /\ {"last", "locked"} \subseteq DOMAIN cell
       /\ IF cell.first THEN Unfinished(h) = {} ELSE Unfinished(h) = {cell.name}
       /\ Place + 1 + cell.size <= Len(Cells)
       /\ \/ Mine(cell) /\ cell.last
          \/ <<vi, Place + cell.size + 2, encrypted, multi, IF cell.last THEN {} ELSE {cell.name}>> \in walk[arc]
  /\ cell.t = "end" =>
       cell.more /\ multi /\ vi < Len(arc.vols) /\ <<vi + 1, 0, FALSE, multi, Unfinished(h)>> \in walk[arc]

LEMMA SizeIs ==
  ASSUME NEW from, WellPacked(from), arc \in Archives, arc.whole, AtPlace, NEW k \in 1 .. Len(Cells),
         Cells[k].t \in {"file", "service"}
  PROVE  Cells[k].size \in Nat
<1>1. CellPacked(Cells, k, from[arc][vi])
  BY PackedCell DEF AtPlace, Cells
<1> QED
  BY <1>1 DEF CellPacked

LEMMA HeaderIs ==
  ASSUME NEW from, NEW walk, Search(from, walk), step = IF encrypted THEN "salted" ELSE "header"
  PROVE  IF Left = 0
         THEN /\ ~encrypted /\ arc.ver = 15 /\ vi < Len(arc.vols)
              /\ <<vi + 1, 0, FALSE, multi, Unfinished(h)>> \in walk[arc]
         ELSE Left > 0 /\ Place + 1 \in 1 .. Len(Cells) /\ HeaderHere(walk)
<1>0. AtPlace /\ Place \in Nat /\ Len(Cells) \in Nat /\ Left \in Nat /\ Place + Left = Len(Cells) /\ Cells = arc.vols[vi]
  BY PlaceIs DEF Search, Placed, AtPlace, Cells
<1>1. CASE encrypted
  <2>1. Continues(arc, walk[arc], vi, Place, encrypted, multi, Unfinished(h)) /\ Place > 0
    BY <1>1, StopIs DEF Search, Walked, Stop
  <2>2. Place \in 1 .. Len(Cells)
    BY <1>0, <2>1
  <2>3. Place + 1 <= Len(Cells)
    BY <1>0, <1>1, <2>1, <2>2 DEF Continues
  <2>4. HeaderHere(walk)
    <3> DEFINE c == Place + 1
    <3>1. c + 1 = Place + 2
      BY <1>0
    <3>2. Cells[c].t \in {"file", "service"} => c + Cells[c].size + 1 = Place + Cells[c].size + 2
      <4> SUFFICES ASSUME Cells[c].t \in {"file", "service"} PROVE c + Cells[c].size + 1 = Place + Cells[c].size + 2
        OBVIOUS
      <4>1. c \in 1 .. Len(Cells)
        BY <1>0, <2>3
      <4>2. Cells[c].size \in Nat
        BY <1>0, <4>1, SizeIs DEF Search
      <4> QED
        BY <1>0, <4>2, SMTT(30)
    <3> QED
      BY <1>0, <1>1, <2>1, <2>2, <3>1, <3>2 DEF Continues, HeaderHere, Stop
  <2> QED
    BY <1>0, <2>3, <2>4
<1>2. CASE ~encrypted
  <2>1. Continues(arc, walk[arc], vi, Place + 1, encrypted, multi, Unfinished(h))
    BY <1>2, StopIs DEF Search, Walked, Stop
  <2>2. CASE Left = 0
    BY <1>0, <1>2, <2>1, <2>2 DEF Continues
  <2>3. CASE Left > 0
    <3>1. Place + 1 \in 1 .. Len(Cells)
      BY <1>0, <2>3
    <3> DEFINE c == Place + 1
    <3>2. c + 1 = Place + 2
      BY <1>0
    <3>3. Cells[c].t \in {"file", "service"} => c + Cells[c].size + 1 = Place + Cells[c].size + 2
      <4> SUFFICES ASSUME Cells[c].t \in {"file", "service"} PROVE c + Cells[c].size + 1 = Place + Cells[c].size + 2
        OBVIOUS
      <4>1. Cells[c].size \in Nat
        BY <1>0, <3>1, SizeIs DEF Search
      <4> QED
        BY <1>0, <4>1, SMTT(30)
    <3> QED
      <4>1. HeaderHere(walk)
        BY <1>0, <1>2, <2>1, <3>1, <3>2, <3>3 DEF Continues, HeaderHere, Stop
      <4> QED
        BY <2>3, <3>1, <4>1
  <2> QED
    BY <1>0, <2>2, <2>3
<1> QED
  BY <1>1, <1>2

LEMMA MovedFar ==
  ASSUME AtPlace, NEW k \in Nat, Moved(k), UNCHANGED <<arc, vi>>
  PROVE  /\ AtPlace' /\ Cells' = Cells /\ Place' = Place + k /\ Place \in Nat /\ Place' \in Nat
         /\ Left \in Nat /\ Left' = Left - k /\ Left' \in Nat
<1>1. /\ AtPlace' /\ Cells' = Cells /\ Place' = Place + k /\ Place \in Nat /\ Place' \in Nat
      /\ Len(Cells) \in Nat /\ Place' <= Len(Cells)
  BY MovedIs
<1>2. Left = Len(Cells) - Place /\ Left' = Len(Cells') - Place'
  BY DEF Left
<1>3. \A a, b, c \in Nat : c = b + k /\ c <= a => a - b \in Nat /\ a - c = (a - b) - k /\ a - c \in Nat
  OBVIOUS
<1> QED
  BY <1>1, <1>2, <1>3

(* The search goes on.                                                       *)
GoesFar(walk) ==
  Walked(walk)' /\ Searched' /\ pc' \notin {"failed", "unopened"}

LEMMA SigSure ==
  ASSUME NEW from, NEW walk, Search(from, walk), FindSig, faults' = 0
  PROVE  GoesFar(walk)
<1>0. /\ AtPlace /\ Place = 0 /\ ~encrypted /\ pc \in {"open", "skip", "first", "block"} /\ step = "sig"
      /\ UNCHANGED <<arc, vi, flagVars, packedVars>>
  BY DEF FindSig, Search, Placed, HeadInv
<1>1. <<vi, 0, encrypted, multi, Unfinished(h)>> \in walk[arc] /\ encrypted = FALSE
  <2>1. <<vi, 0, encrypted, multi, Unfinished(h)>> \in walk[arc]
    BY <1>0 DEF Search, Walked, Stop
  <2>2. encrypted \in BOOLEAN
    BY <2>1, StopIs, ZenonT(60) DEF Search, Continues
  <2> QED
    BY <1>0, <2>1, <2>2
<1>2. PICK k \in Nat : /\ Moved(k) /\ <<vi, k + 1, FALSE, multi, Unfinished(h)>> \in walk[arc]
                       /\ pc' = (IF pc = "open" THEN "skip" ELSE pc)
                       /\ step' = (IF pc = "open" THEN "data" ELSE "header")
  BY <1>0, <1>1, SigFound DEF Search
<1>3. Place' = k /\ Left' \in Nat /\ encrypted' = FALSE /\ multi' = multi /\ h' = h /\ n' = n
  BY <1>0, <1>1, <1>2, MovedFar DEF flagVars, packedVars
<1>4. Stop(walk, vi, Place + 1)'
  BY <1>0, <1>2, <1>3 DEF Stop
<1>5. CASE pc = "open"
  <2>1. n' = 0 /\ h' = NoHeader
    BY <1>3, <1>5 DEF Search, Searched
  <2>2. Place' + n' + 1 = Place' + 1 /\ n' <= Left'
    BY <1>2, <1>3, <2>1
  <2>3. Walked(walk)'
    BY <1>2, <1>4, <1>5, <2>2 DEF Walked
  <2> QED
    BY <1>2, <1>5, <2>1, <2>3 DEF GoesFar, Searched
<1>6. CASE pc # "open"
  <2>1. Walked(walk)'
    BY <1>2, <1>4, <1>6 DEF Walked
  <2> QED
    BY <1>0, <1>2, <1>3, <1>6, <2>1 DEF GoesFar, Searched, Search
<1> QED
  BY <1>5, <1>6

LEMMA VolumeSure ==
  ASSUME NEW from, NEW walk, Search(from, walk), NextVolume
  PROVE  GoesFar(walk)
<1>1. vi < Len(arc.vols) /\ Stop(walk, vi + 1, 0) /\ pc \in {"open", "skip", "first", "block"}
  BY DEF NextVolume, Search, Walked, Placed, HeadInv
<1>2. /\ vi' = vi + 1 /\ step' = "sig" /\ UNCHANGED <<pc, arc, flagVars, packedVars>>
  BY <1>1 DEF NextVolume, Buffer, Search, Placed, AtPlace
<1>3. Stop(walk, vi, 0)'
  BY <1>1, <1>2 DEF Stop, flagVars, packedVars
<1>4. Walked(walk)'
  BY <1>2, <1>3 DEF Walked
<1>5. pc # "open"
  BY DEF NextVolume, Search, Searched
<1> QED
  BY <1>1, <1>2, <1>4, <1>5 DEF GoesFar, Searched, Search, packedVars, NextVolume

LEMMA SaltSure ==
  ASSUME NEW from, NEW walk, Search(from, walk), ReadSalt, faults' = 0
  PROVE  GoesFar(walk)
<1>0. /\ AtPlace /\ encrypted /\ step = "header" /\ pc \in {"skip", "block", "first"}
      /\ UNCHANGED <<arc, vi, flagVars, packedVars>> /\ Cells = arc.vols[vi]
      /\ Place \in Nat /\ Left \in Nat /\ Place + Left = Len(Cells)
  BY PlaceIs DEF ReadSalt, Search, Placed, InHeaders, Cells
<1>1. Continues(arc, walk[arc], vi, Place + 1, encrypted, multi, Unfinished(h)) /\ Stop(walk, vi, Place + 1)
  BY <1>0, StopIs DEF Search, Walked, Stop
<1>2. key
  BY <1>0, <1>1 DEF Continues, Search
<1>3. ~Faulty(1)
  BY DEF Faulty, Search
<1>4. Left > 0 /\ Take(1) /\ pc' = pc /\ step' = IF Cells[Place + 1].t = "salt" THEN "salted" ELSE "garbled"
  BY <1>2, <1>3 DEF ReadSalt
<1>5. Cells[Place + 1].t = "salt"
  BY <1>0, <1>1, <1>4 DEF Continues
<1>6. AtPlace' /\ Place' = Place + 1
  BY <1>0, <1>4, TakesOne, MovedFar
<1>7. Stop(walk, vi, Place)'
  BY <1>0, <1>1, <1>6 DEF Stop, flagVars, packedVars
<1>8. Walked(walk)'
  BY <1>0, <1>4, <1>5, <1>6, <1>7 DEF Walked, flagVars
<1> QED
  BY <1>0, <1>4, <1>5, <1>8 DEF GoesFar, Searched, Search, packedVars

LEMMA AtHeaderIs ==
  ASSUME NEW from, NEW walk, Search(from, walk), NEW t, AtHeader(t)
  PROVE  /\ HeaderHere(walk) /\ Cells[Place + 1].t = t /\ Left > 0 /\ AtPlace /\ Place + 1 \in 1 .. Len(Cells)
         /\ pc \in {"skip", "block", "first"} /\ (pc \in {"skip", "block"} => Unfinished(h) # {})
         /\ (pc = "first" => h = NoHeader) /\ step \in {"header", "salted"}
         /\ pc = "skip" => h = NoHeader \/ h.name # Name
<1>1. /\ Left > 0 /\ Cells[Place + 1].t = t /\ step = (IF encrypted THEN "salted" ELSE "header")
      /\ pc \in {"skip", "block", "first"}
  BY DEF AtHeader, InHeaders
<1>2. Left # 0
  BY <1>1
<1>3. HeaderHere(walk) /\ Place + 1 \in 1 .. Len(Cells)
  BY <1>1, <1>2, HeaderIs
<1>4. AtPlace /\ step \in {"header", "salted"}
  BY <1>1 DEF Search, Placed
<1> QED
  BY <1>1, <1>3, <1>4 DEF Search, Searched

LEMMA PassSure ==
  ASSUME NEW from, NEW walk, Search(from, walk), NEW t, AtHeader(t), UNCHANGED <<arc, vi, n, h, pc>>,
         step' \in {"header", "service", "volume"}, Walked(walk)'
  PROVE  GoesFar(walk)
<1>1. /\ pc \in {"skip", "block", "first"} /\ (pc \in {"skip", "block"} => Unfinished(h) # {})
      /\ (pc = "first" => h = NoHeader) /\ (pc = "skip" => h = NoHeader \/ h.name # Name)
  BY AtHeaderIs
<1> QED
  BY <1>1 DEF GoesFar, Searched

LEMMA MainSure ==
  ASSUME NEW from, NEW walk, Search(from, walk), MainHeader
  PROVE  GoesFar(walk)
<1>1. /\ AtHeader("arc") /\ Take(1) /\ step' = "header" /\ UNCHANGED <<arc, vi, pc, n, h>>
      /\ multi' = Cells[Place + 1].multi
      /\ encrypted' = IF arc.ver = 15 THEN Cells[Place + 1].encrypted ELSE encrypted
  BY DEF MainHeader, Pass, packedVars
<1>2. HeaderHere(walk) /\ Cells[Place + 1].t = "arc" /\ Left > 0 /\ AtPlace
  BY <1>1, AtHeaderIs
<1>3. Place' = Place + 1 /\ Place \in Nat
  BY <1>1, <1>2, TakesOne, MovedFar
<1>4. Place' + 1 = Place + 2
  BY <1>3
<1>5. Stop(walk, vi, Place + 1)'
  BY <1>1, <1>2, <1>4 DEF Stop, HeaderHere
<1>6. Walked(walk)'
  BY <1>1, <1>5 DEF Walked
<1> QED
  BY <1>1, <1>6, PassSure

LEMMA EncryptionSure ==
  ASSUME NEW from, NEW walk, Search(from, walk), EncryptionHeader
  PROVE  GoesFar(walk)
<1>1. AtHeader("crypt") /\ UNCHANGED <<arc, vi, multi>>
  BY DEF EncryptionHeader
<1>2. HeaderHere(walk) /\ Cells[Place + 1].t = "crypt" /\ Left > 0 /\ AtPlace
  BY <1>1, AtHeaderIs
<1>3. key
  BY <1>2 DEF HeaderHere, Search
<1>4. Take(1) /\ step' = "header" /\ UNCHANGED <<pc, n, h>> /\ encrypted' = TRUE
  BY <1>3 DEF EncryptionHeader, Pass, packedVars
<1>5. Place' = Place + 1 /\ Place \in Nat
  BY <1>1, <1>2, <1>4, TakesOne, MovedFar
<1>6. Place' + 1 = Place + 2
  BY <1>5
<1>7. Stop(walk, vi, Place + 1)'
  BY <1>1, <1>2, <1>4, <1>6 DEF Stop, HeaderHere
<1>8. Walked(walk)'
  BY <1>4, <1>7 DEF Walked
<1> QED
  BY <1>1, <1>4, <1>8, PassSure

LEMMA ServiceSure ==
  ASSUME NEW from, NEW walk, Search(from, walk), ServiceHeader
  PROVE  GoesFar(walk)
<1>1. /\ AtHeader("service") /\ Take(1) /\ UNCHANGED <<arc, vi, pc, n, h, multi, encrypted>>
      /\ step' = IF Cells[Place + 1].size > 0 THEN "service" ELSE "header"
  BY DEF ServiceHeader, packedVars, flagVars
<1>2. /\ HeaderHere(walk) /\ Cells[Place + 1].t = "service" /\ Left > 0 /\ AtPlace /\ Place + 1 \in 1 .. Len(Cells)
  BY <1>1, AtHeaderIs
<1>3. /\ Place' = Place + 1 /\ Place \in Nat /\ Cells' = Cells /\ Left \in Nat /\ Left' = Left - 1
      /\ Place + Left = Len(Cells) /\ Len(Cells) \in Nat
  BY <1>1, <1>2, TakesOne, MovedFar, PlaceIs DEF AtPlace
<1> DEFINE size == Cells[Place + 1].size
<1>4. size \in Nat
  BY <1>2, SizeIs DEF Search
<1>5. Place + 1 + size <= Len(Cells) /\ Stop(walk, vi, Place + size + 2)
  BY <1>2 DEF HeaderHere
<1>6. Cells'[Place'].size = size
  BY <1>3
<1> HIDE DEF size
<1>7. size <= Left - 1 /\ (Place + 1) + size + 1 = Place + size + 2 /\ (size = 0 => (Place + 1) + 1 = Place + size + 2)
  BY ONLY <1>3, <1>4, <1>5
<1>8. Stop(walk, vi, Place + Cells[Place].size + 1)'
  BY <1>1, <1>3, <1>5, <1>6, <1>7 DEF Stop
<1>9. size = 0 => Stop(walk, vi, Place + 1)'
  BY <1>1, <1>3, <1>5, <1>7 DEF Stop
<1>10. step' = IF size > 0 THEN "service" ELSE "header"
  BY <1>1 DEF size
<1>11. Walked(walk)'
  <2>1. CASE size > 0
    BY <1>3, <1>6, <1>7, <1>8, <1>10, <2>1 DEF Walked
  <2>2. CASE ~(size > 0)
    <3>1. size = 0
      BY <1>4, <2>2
    <3> QED
      BY <1>9, <1>10, <2>2, <3>1 DEF Walked
  <2> QED
    BY <2>1, <2>2
<1> QED
  BY <1>1, <1>10, <1>11, PassSure

LEMMA EndSure ==
  ASSUME NEW from, NEW walk, Search(from, walk), EndHeader
  PROVE  GoesFar(walk)
<1>1. AtHeader("end") /\ UNCHANGED <<arc, vi, multi, n, h>>
  BY DEF EndHeader, packedVars
<1>2. HeaderHere(walk) /\ Cells[Place + 1].t = "end"
  BY <1>1, AtHeaderIs
<1>3. /\ Cells[Place + 1].more /\ multi /\ vi < Len(arc.vols)
      /\ <<vi + 1, 0, FALSE, multi, Unfinished(h)>> \in walk[arc]
  BY <1>2 DEF HeaderHere
<1>4. step' = "volume" /\ encrypted' = FALSE /\ UNCHANGED pc
  BY <1>3 DEF EndHeader
<1>5. Walked(walk)'
  BY <1>1, <1>3, <1>4 DEF Walked, Stop
<1> QED
  BY <1>1, <1>4, <1>5, PassSure

LEMMA DataSure ==
  ASSUME NEW from, NEW walk, Search(from, walk), ServiceData, faults' = 0
  PROVE  GoesFar(walk)
<1> DEFINE size == Cells[Place].size
<1>1. step = "service" /\ UNCHANGED <<arc, vi, multi, encrypted, n, h>> /\ AtPlace
      /\ pc \in {"open", "skip", "first", "block"} /\ Place \in 1 .. Len(Cells) /\ Cells[Place].t = "service"
  BY DEF ServiceData, packedVars, flagVars, Search, Placed, HeadInv
<1>2. size \in Nat /\ size <= Left /\ Stop(walk, vi, Place + size + 1)
  <2>1. size \in Nat
    BY <1>1, SizeIs DEF Search
  <2> QED
    BY <1>1, <2>1 DEF Search, Walked
<1>3. Discard(size) /\ step' = "header" /\ UNCHANGED pc
  <2>1. ~DiscardFails(size)
    <3>1. ~Faulty(size)
      BY DEF Faulty, Search
    <3>2. ~(size > Left)
      BY <1>1, <1>2, PlaceIs
    <3> QED
      BY <3>1, <3>2 DEF DiscardFails
  <2> QED
    BY <2>1 DEF ServiceData
<1> HIDE DEF size
<1>4. Place' = Place + size
  BY <1>1, <1>2, <1>3, DiscardMoves, MovedFar
<1>5. Stop(walk, vi, Place + 1)'
  BY <1>1, <1>2, <1>4 DEF Stop
<1>6. Walked(walk)'
  BY <1>3, <1>5 DEF Walked
<1> QED
  BY <1>1, <1>3, <1>6 DEF GoesFar, Searched, Search

LEMMA EndsSure ==
  ASSUME NEW from, NEW walk, Search(from, walk), VolumeEnds
  PROVE  GoesFar(walk)
<1>1. /\ InHeaders /\ step \in {"header", "salted"} /\ Left = 0 /\ UNCHANGED <<arc, volumeVars, key, multi, packedVars>>
  BY DEF VolumeEnds
<1>2. AtPlace /\ Place \in Nat /\ Cells = arc.vols[vi] /\ Len(Cells) \in Nat /\ Place = Len(Cells)
  BY <1>1, PlaceIs DEF Search, Placed, AtPlace, Cells
<1>3. step = "header"
  <2> SUFFICES ASSUME step = "salted" PROVE FALSE
    BY <1>1
  <2>1. encrypted /\ Place > 0 /\ Continues(arc, walk[arc], vi, Place, encrypted, multi, Unfinished(h))
    BY StopIs DEF Search, Walked, Stop
  <2>2. Place \in 1 .. Len(Cells) /\ ~(Place + 1 <= Len(Cells))
    BY <1>2, <2>1
  <2> QED
    BY <1>2, <2>1, <2>2 DEF Continues
<1>4. Continues(arc, walk[arc], vi, Place + 1, encrypted, multi, Unfinished(h))
  BY <1>3, StopIs DEF Search, Walked, Stop
<1>5. arc.ver = 15 /\ vi < Len(arc.vols) /\ <<vi + 1, 0, FALSE, multi, Unfinished(h)>> \in walk[arc]
  BY <1>2, <1>4 DEF Continues
<1>6. step' = "volume" /\ encrypted' = FALSE /\ UNCHANGED <<pc, vi, arc, multi, h, n>>
  BY <1>1, <1>3, <1>5 DEF VolumeEnds, volumeVars, packedVars
<1>7. Walked(walk)'
  BY <1>5, <1>6 DEF Walked, Stop
<1> QED
  BY <1>1, <1>3, <1>6, <1>7 DEF GoesFar, Searched, Search, InHeaders

LEMMA NeverNoHeader ==
  ASSUME NEW from, NEW walk, Search(from, walk), NoHeaderHere, faults' = 0
  PROVE  FALSE
<1>1. step # "garbled" /\ ~Faulty(1)
  BY DEF Search, Walked, Faulty
<1>2. /\ step = (IF encrypted THEN "salted" ELSE "header") /\ Left > 0 /\ Cells[Place + 1].t \in {"data", "salt", "sig"}
  BY <1>1 DEF NoHeaderHere
<1>3. Left # 0
  BY <1>2
<1>4. HeaderHere(walk)
  BY <1>2, <1>3, HeaderIs
<1> QED
  BY <1>2, <1>4 DEF HeaderHere

(* The header of a block as it is kept.                                      *)
LEMMA ParsedAll ==
  ASSUME NEW cell, {"name", "first", "size", "length"} \subseteq DOMAIN cell, {"last", "locked"} \subseteq DOMAIN cell,
         NEW block, block = Parsed15(cell) \/ block = Parsed50(cell), cell.t = "file"
  PROVE  /\ block.name = cell.name /\ block.first = cell.first /\ block.size = cell.size
         /\ block.last = cell.last /\ (block.locked => cell.locked) /\ block # NoHeader
<1>1. block # NoHeader
  BY ParsedIsHeader
<1> QED
  BY <1>1 DEF Parsed15, Parsed50

LEMMA FileSure ==
  ASSUME NEW from, NEW walk, Search(from, walk), FileHeader
  PROVE  /\ GoesFar(walk)
         /\ pc' = "packed" => /\ Place' \in 1 .. Len(Cells) /\ Cells' = Cells
                              /\ Cells[Place'].t = "file" /\ h'.name = Cells[Place'].name /\ h'.last = Cells[Place'].last
                              /\ (h'.locked => Cells[Place'].locked)
<1> DEFINE cell  == Cells[Place + 1]
           block == IF arc.ver = 15 THEN Parsed15(cell) ELSE Parsed50(cell)
           size  == cell.size
<1>1. AtHeader("file") /\ Take(1) /\ UNCHANGED <<arc, vi, multi, encrypted>>
  BY DEF FileHeader, flagVars
<1>2. /\ HeaderHere(walk) /\ cell.t = "file" /\ Left > 0 /\ AtPlace /\ Place + 1 \in 1 .. Len(Cells)
      /\ pc \in {"skip", "block", "first"} /\ (pc \in {"skip", "block"} => Unfinished(h) # {})
      /\ (pc = "first" => h = NoHeader) /\ (pc = "skip" => h = NoHeader \/ h.name # Name)
  BY <1>1, AtHeaderIs
<1>3. /\ Place' = Place + 1 /\ Place \in Nat /\ Cells' = Cells /\ Left \in Nat /\ Left' = Left - 1
      /\ Place + Left = Len(Cells) /\ Len(Cells) \in Nat
  BY <1>1, <1>2, TakesOne, MovedFar, PlaceIs DEF AtPlace
<1>4. size \in Nat
  BY <1>2, SizeIs DEF Search
<1>5. /\ {"last", "locked"} \subseteq DOMAIN cell
      /\ IF cell.first THEN Unfinished(h) = {} ELSE Unfinished(h) = {cell.name}
      /\ Place + 1 + size <= Len(Cells)
      /\ \/ Mine(cell) /\ cell.last
         \/ <<vi, Place + size + 2, encrypted, multi, IF cell.last THEN {} ELSE {cell.name}>> \in walk[arc]
  BY <1>2 DEF HeaderHere
<1>6. {"name", "first", "size", "length"} \subseteq DOMAIN cell
  <2>1. CellPacked(Cells, Place + 1, from[arc][vi])
    BY <1>2, PackedCell DEF Search, AtPlace, Cells
  <2> QED
    BY <1>2, <2>1 DEF CellPacked
<1>7. /\ block.name = cell.name /\ block.first = cell.first /\ block.size = size
      /\ block.last = cell.last /\ (block.locked => cell.locked) /\ block # NoHeader
  <2>1. block = Parsed15(cell) \/ block = Parsed50(cell)
    OBVIOUS
  <2> HIDE DEF block, cell
  <2> QED
    BY <1>2, <1>5, <1>6, <2>1, ParsedAll DEF size
<1>8. Cells'[Place'] = cell
  BY <1>3
<1>9. pc = "first" => cell.first
  BY <1>2, <1>5 DEF Unfinished
<1>10. pc # "first" => ~cell.first /\ h.name = cell.name /\ h # NoHeader
  <2> SUFFICES ASSUME pc # "first" PROVE ~cell.first /\ h.name = cell.name /\ h # NoHeader
    OBVIOUS
  <2>1. Unfinished(h) # {}
    BY <1>2
  <2>2. ~cell.first /\ Unfinished(h) = {cell.name}
    BY <1>5, <2>1
  <2>3. Unfinished(h) = {h.name} /\ h # NoHeader
    BY <2>1 DEF Unfinished
  <2> QED
    BY <2>2, <2>3
<1>11. h' = block /\ n' = size /\ step' = "data" /\ pc' = (IF pc = "first" THEN "named" ELSE IF pc = "skip" THEN "skip" ELSE "packed")
  <2> HIDE DEF size
  <2>1. CASE pc = "first"
    BY <1>7, <1>9, <2>1 DEF FileHeader, FirstBlock
  <2>2. CASE pc # "first"
    BY <1>7, <1>10, <2>2 DEF FileHeader, GoesOn
  <2> QED
    BY <2>1, <2>2
<1>12. Unfinished(h') = IF cell.last THEN {} ELSE {cell.name}
  BY <1>7, <1>11 DEF Unfinished
<1> HIDE DEF block, size
<1>13. n' <= Left' /\ Place' + n' + 1 = Place + size + 2
  <2>1. size <= Left - 1 /\ (Place + 1) + size + 1 = Place + size + 2
    BY ONLY <1>3, <1>4, <1>5
  <2> QED
    BY <1>3, <1>11, <2>1
<1>14. (h' # NoHeader /\ h'.name = Name /\ h'.last) \/ Stop(walk, vi, Place + n + 1)'
  <2>1. CASE Mine(cell) /\ cell.last
    BY <1>7, <1>11, <2>1 DEF Mine
  <2>2. CASE <<vi, Place + size + 2, encrypted, multi, IF cell.last THEN {} ELSE {cell.name}>> \in walk[arc]
    BY <1>1, <1>12, <1>13, <2>2 DEF Stop
  <2> QED
    BY <1>5, <2>1, <2>2
<1>15. Walked(walk)'
  BY <1>11, <1>13, <1>14 DEF Walked
<1>16. Searched'
  BY <1>2, <1>7, <1>8, <1>10, <1>11 DEF Searched
<1>17. pc' \notin {"failed", "unopened"}
  BY <1>2, <1>11
<1>18. /\ Place' \in 1 .. Len(Cells) /\ Cells' = Cells
       /\ Cells[Place'].t = "file" /\ h'.name = Cells[Place'].name /\ h'.last = Cells[Place'].last
       /\ (h'.locked => Cells[Place'].locked)
  BY <1>2, <1>3, <1>7, <1>11
<1> QED
  BY <1>15, <1>16, <1>17, <1>18 DEF GoesFar

LEMMA NextSure ==
  ASSUME NEW from, NEW walk, Search(from, walk), NextBlock, faults' = 0
  PROVE  GoesFar(walk) /\ pc' # "packed"
<1>1. /\ step = "data" /\ pc \in {"skip", "block"} /\ UNCHANGED <<arc, vi, multi, encrypted>> /\ AtPlace /\ n \in Nat
  BY DEF NextBlock, flagVars, Search, Placed, HeadInv
<1>2. n <= Left /\ Stop(walk, vi, Place + n + 1)
  BY <1>1 DEF Search, Walked, Searched, Unfinished
<1>3. CASE n > 0
  <2>1. ~DiscardFails(n)
    <3>1. ~Faulty(n)
      BY DEF Faulty, Search
    <3>2. ~(n > Left)
      BY <1>1, <1>2, PlaceIs
    <3> QED
      BY <3>1, <3>2 DEF DiscardFails
  <2>2. Discard(n) /\ n' = 0 /\ UNCHANGED <<pc, step, h>>
    BY <1>3, <2>1 DEF NextBlock
  <2>3. Place' = Place + n /\ Left' \in Nat
    BY <1>1, <1>2, <2>2, DiscardMoves, MovedFar
  <2>4. Place \in Nat
    BY <1>1, PlaceIs
  <2>5. Place' + n' + 1 = Place + n + 1 /\ n' <= Left'
    <3>1. \A p \in Nat : p + n + 0 + 1 = p + n + 1
      BY <1>1
    <3> QED
      BY <2>2, <2>3, <2>4, <3>1
  <2>6. Stop(walk, vi, Place + n + 1)'
    BY <1>1, <1>2, <2>2, <2>5 DEF Stop
  <2>7. Walked(walk)'
    BY <1>1, <2>2, <2>5, <2>6 DEF Walked
  <2> QED
    BY <1>1, <2>2, <2>7 DEF GoesFar, Searched, Search
<1>4. CASE n = 0
  <2>1. UNCHANGED <<at, buf, n>> /\ step' = "header"
    BY <1>4 DEF NextBlock
  <2>2. Place' = Place /\ Place \in Nat /\ Place + n + 1 = Place + 1
    BY <1>1, <1>4, <2>1, PlaceIs DEF Place
  <2>3. pc = "block" => h # NoHeader /\ ~h.last
    BY DEF Search, Searched, Unfinished
  <2>4. \/ h # NoHeader /\ ~h.last /\ UNCHANGED <<pc, h>>
        \/ (h = NoHeader \/ h.last) /\ pc = "skip" /\ pc' = "first" /\ h' = NoHeader
    BY <1>1, <1>4, <2>3 DEF NextBlock
  <2>5. Unfinished(h') = Unfinished(h) /\ (pc' = "skip" => Unfinished(h) # {})
    BY <2>4 DEF Unfinished
  <2>6. Stop(walk, vi, Place + 1)'
    BY <1>1, <1>2, <2>2, <2>5 DEF Stop
  <2>7. Walked(walk)'
    BY <2>1, <2>6 DEF Walked
  <2> QED
    BY <1>1, <2>1, <2>4, <2>5, <2>7 DEF GoesFar, Searched, Search
<1> QED
  BY <1>1, <1>3, <1>4

LEMMA SearchSure ==
  ASSUME NEW from, NEW walk, Search(from, walk), VolumeStep, faults' = 0
  PROVE  /\ GoesFar(walk)
         /\ pc' = "packed" => pc = "packed" \/ FileHeader
<1> HIDE DEF Search, GoesFar
<1>1. GoesFar(walk)
  BY SigSure, VolumeSure, SaltSure, MainSure, EncryptionSure, ServiceSure, DataSure, EndSure, EndsSure,
     NeverNoHeader, FileSure, NextSure DEF VolumeStep
<1>2. ASSUME pc' = "packed", ~FileHeader PROVE pc = "packed"
  BY <1>2, NextSure, SMTT(60) DEF VolumeStep, FindSig, NextVolume, ReadSalt, MainHeader, EncryptionHeader, ServiceHeader, ServiceData,
     EndHeader, VolumeEnds, NoHeaderHere, Pass, Fail
<1> QED
  BY <1>1, <1>2

-----------------------------------------------------------------------------
(* Every step                                                                *)

(* What every step starts from, and what is known of where it leads.         *)
Context(from, walk) ==
  /\ WellPacked(from) /\ WellFound(from, walk) /\ SeqInv(from)
  /\ NoFault /\ Calm /\ (Able => Sure(walk))

Onwards(from) == SeqInv(from)' /\ arc' = arc /\ faults' = 0

LEMMA FaultsGrow ==
  ASSUME faults \in Nat, CallInv, [RarNext]_rarVars
  PROVE  faults' \in Nat /\ (faults' = 0 => faults = 0) /\ arc' = arc
<1>1. ASSUME NEW k, Faulty(k) PROVE faults' = faults + 1
  BY <1>1 DEF Faulty
<1>2. arc' = arc /\ (faults' = faults \/ faults' = faults + 1)
  <2>1. CASE UNCHANGED rarVars
    BY <2>1 DEF rarVars, packVars
  <2>2. CASE Caller
    BY <2>2 DEF Caller, Open, Read, SeekNowhere, SeekForward, SeekBack, packVars
  <2>3. CASE VolumeStep
    <3>1. arc' = arc
      BY <2>3, SearchCalls
    <3>2. CASE FindSig \/ NextVolume \/ ReadSalt \/ EndHeader \/ VolumeEnds \/ NoHeaderHere
      BY <1>1, <3>2 DEF FindSig, NextVolume, ReadSalt, EndHeader, VolumeEnds, NoHeaderHere
    <3>3. CASE MainHeader \/ EncryptionHeader \/ ServiceHeader \/ FileHeader
      BY <3>3 DEF MainHeader, EncryptionHeader, ServiceHeader, FileHeader, Pass
    <3>4. CASE ServiceData
      BY <1>1, <3>4 DEF ServiceData, DiscardFails
    <3>5. CASE NextBlock
      BY <1>1, <3>5 DEF NextBlock, DiscardFails
    <3> QED
      BY <2>3, <3>1, <3>2, <3>3, <3>4, <3>5 DEF VolumeStep
  <2>4. CASE FileFound \/ OtherFile \/ FirstFile \/ ReadNil \/ NextFile \/ AtLimit \/ Below \/ EmptyBlock
    BY <2>4 DEF FileFound, OtherFile, FirstFile, ReadNil, NextFile, AtLimit, Below, EmptyBlock, packVars
  <2>5. CASE ReadPlain \/ FillCipher \/ KeyCipher \/ Cipher \/ FillBlock
    BY <1>1, <2>5 DEF ReadPlain, FillCipher, KeyCipher, Cipher, FillBlock, GivesNothing, packVars
  <2>6. ASSUME NEW v, RewindVolume(v) PROVE arc' = arc /\ (faults' = faults \/ faults' = faults + 1)
    BY <2>6 DEF RewindVolume
  <2>7. CASE Reopen \/ ReopenFails \/ Skip \/ Failed \/ Unopened \/ Panic
    BY <2>7 DEF Reopen, ReopenFails, Skip, Failed, Unopened, Panic, packVars
  <2> HIDE DEF VolumeStep, Caller
  <2> QED
    BY <2>1, <2>2, <2>3, <2>4, <2>5, <2>6, <2>7 DEF RarNext, Step
<1> QED
  BY <1>2

(* A search that does not open the archive fails at worst, and keeps the key. *)
LEMMA SearchPcs ==
  ASSUME VolumeStep, pc \in {"open", "skip", "first", "block"}
  PROVE  key' = key /\ (pc # "open" => pc' \notin {"open", "unopened", "panic", "unwound"})
<1> USE DEF Fail, flagVars
<1>1. CASE FindSig \/ NextVolume \/ NoHeaderHere \/ VolumeEnds
  BY <1>1 DEF FindSig, NextVolume, NoHeaderHere, VolumeEnds
<1>2. CASE ReadSalt \/ MainHeader \/ EncryptionHeader \/ EndHeader
  BY <1>2 DEF ReadSalt, MainHeader, EncryptionHeader, EndHeader, Pass
<1>3. CASE ServiceHeader \/ ServiceData \/ NextBlock
  BY <1>3 DEF ServiceHeader, ServiceData, NextBlock
<1>4. CASE FileHeader
  BY <1>4 DEF FileHeader, FirstBlock
<1> QED
  BY <1>1, <1>2, <1>3, <1>4 DEF VolumeStep

(* Between blocks only a header brings another one.                          *)
LEMMA BlockSearch ==
  ASSUME VolumeStep, pc = "block", n = 0
  PROVE  FileHeader \/ UNCHANGED <<n, h>>
<1> USE DEF packedVars
<1>1. CASE FindSig \/ NextVolume \/ NoHeaderHere \/ VolumeEnds
  BY <1>1 DEF FindSig, NextVolume, NoHeaderHere, VolumeEnds
<1>2. CASE ReadSalt \/ MainHeader \/ EncryptionHeader \/ EndHeader
  BY <1>2 DEF ReadSalt, MainHeader, EncryptionHeader, EndHeader, Pass
<1>3. CASE ServiceHeader \/ ServiceData \/ NextBlock
  BY <1>3 DEF ServiceHeader, ServiceData, NextBlock
<1> QED
  BY <1>1, <1>2, <1>3 DEF VolumeStep

(* A reader that is engaged has its place.                                   *)
LEMMA EngagedPlaced ==
  ASSUME NEW from, SeqInv(from), arc.whole, lost => back, Engaged
  PROVE  Placed /\ Sound /\ (reader = "open" /\ (Found \/ pc = "idle") => InFile)
<1>1. pc = "idle" => ~lost
  BY DEF SeqInv, EOFInv
<1>2. Sound
  BY <1>1 DEF Sound, Engaged
<1> QED
  BY <1>1, <1>2 DEF SeqInv, FileInv, InFile

(* An archive is opened with its place: none was lost before, or a Seek back  *)
(* goes to the start.                                                        *)
LEMMA OpeningIs ==
  ASSUME NEW from, NEW walk, Context(from, walk), pc = "open"
  PROVE  Placed
<1>1. CASE back
  BY <1>1 DEF Context, NoFault, SeqInv, FileInv, Sound, Looking
<1>2. CASE ~back
  <2>1. job \in {"open", "list"}
    BY <1>2 DEF Context, SeqInv, CallInv, Looking
  <2>2. reader = "none"
    BY <2>1 DEF Context, SeqInv, CallInv
  <2>3. ~lost
    BY <1>2, <2>2 DEF Context, Able, Sure
  <2> QED
    BY <2>3 DEF Context, NoFault, SeqInv, FileInv, Sound
<1> QED
  BY <1>1, <1>2

LEMMA SearchKeepsSure ==
  ASSUME NEW from, NEW walk, Context(from, walk), Onwards(from),
         VolumeStep, lost' = (lost \/ HeaderMissed), UNCHANGED <<streamVars, index, callVars, answer>>
  PROVE  Calm' /\ (Able' => Sure(walk)')
<1> HIDE DEF VolumeStep, HeaderMissed
<1>0. UNCHANGED <<arc, reader, lim, hash, cipher, job, back, answer>>
  BY DEF Onwards, streamVars, callVars
<1>1. /\ \/ pc \in {"open", "skip", "first"} /\ pc' \in {"open", "skip", "first", "named", "unopened", "failed"}
         \/ pc = "block" /\ pc' \in {"block", "packed", "failed"}
  BY SearchCalls DEF Context, SeqInv
<1>2. key' = key /\ (pc # "open" => pc' \notin {"open", "unopened", "panic", "unwound"})
  BY <1>1, SearchPcs
<1>3. pc = "open" => pc' = "skip"
  <2> SUFFICES ASSUME pc = "open" PROVE pc' = "skip"
    OBVIOUS
  <2>1. step = "sig" /\ vi = 1 /\ Placed /\ FindSig
    <3>1. step = "sig" /\ vi = 1 /\ Placed
      BY OpeningIs DEF Context, Calm
    <3> QED
      BY <3>1 DEF VolumeStep, NextVolume, ReadSalt, MainHeader, EncryptionHeader, ServiceHeader, ServiceData,
                  EndHeader, VolumeEnds, NoHeaderHere, FileHeader, NextBlock, AtHeader, InHeaders
  <2>2. AtPlace /\ Place = 0 /\ arc \in Archives /\ arc.whole /\ faults = 0 /\ faults' = 0
    BY <2>1 DEF Placed, HeadInv, Context, NoFault, SeqInv, CallInv, Onwards
  <2>3. <<vi, 0, FALSE, FALSE, {}>> \in walk[arc]
    BY <2>1, <2>2, StartIs DEF Context
  <2> QED
    BY <2>1, <2>2, <2>3, SigFound DEF Context
<1>4. Calm'
  BY <1>0, <1>1, <1>2, <1>3 DEF Calm, Context, Looking, Found
<1>5. ASSUME Able' PROVE Sure(walk)'
  <2>1. Able /\ Sure(walk)
    BY <1>0, <1>2, <1>5 DEF Able, Context
  <2>2. Engaged
    BY <1>1 DEF Engaged, Looking, Found
  <2>3. Search(from, walk) /\ (reader = "open" /\ Found => InFile)
    BY <2>1, <2>2, EngagedPlaced DEF Search, Context, NoFault, Sure, SeqInv, CallInv
  <2>4. GoesFar(walk)
    BY <2>3, SearchSure DEF Onwards
  <2>5. (lost' => lost) /\ pc' \notin {"failed", "unopened"}
    BY <2>4 DEF GoesFar, HeaderMissed
  <2>6. (lost' => back') /\ answer'.err # "error" /\ (arc'.locked => key')
    BY <1>0, <1>2, <2>1, <2>2, <2>5 DEF Sure
  <2>7. ASSUME reader' = "open", Found' \/ pc' = "idle" PROVE Counted' /\ Aligned'
    <3>1. pc = "block" /\ pc' \in {"block", "packed"} /\ Found /\ reader = "open" /\ Found'
      BY <1>0, <1>1, <2>5, <2>7 DEF Found
    <3>2. Counted /\ Aligned /\ Sited(from) /\ StreamInv
      BY <2>1, <2>3, <3>1 DEF Sure, Context, SeqInv, FileInv
    <3>3. n = 0 /\ lim # -1
      BY <3>1, <3>2 DEF Sited, StreamInv
    <3>4. CASE UNCHANGED <<n, h>>
      BY <1>0, <3>2, <3>4 DEF Counted, Aligned, Taken
    <3>6. CASE FileHeader /\ pc' = "packed"
      <4>1. /\ Place' \in 1 .. Len(Cells) /\ Cells' = Cells
            /\ Cells[Place'].t = "file" /\ h'.name = Cells[Place'].name /\ h'.last = Cells[Place'].last
            /\ (h'.locked => Cells[Place'].locked)
        BY <2>3, <3>6, FileSure
      <4>2. Sited(from)' /\ AtPlace'
        BY <1>0, <2>6, <2>7, <3>1 DEF Onwards, SeqInv, FileInv, InFile, Sound, Context, NoFault, Placed
      <4>3. h'.name = Name /\ from[arc][vi'][Place' + 1] = Taken' + n' /\ vi' \in DOMAIN arc.vols /\ Cells' = arc.vols[vi']
        BY <1>0, <4>2 DEF Sited, Follows, AtPlace, Cells
      <4>4. Mine(Cells'[Place']) /\ Place' \in DOMAIN arc.vols[vi']
        <5>1. DOMAIN Cells = 1 .. Len(Cells)
          BY <2>3, PackedVolume DEF Search, Placed, AtPlace, Cells
        <5> QED
          BY <4>1, <4>3, <5>1 DEF Mine
      <4>5. GoesToEnd(arc, arc.vols[vi'][Place'], from[arc][vi'][Place' + 1])
        BY <2>3, <4>3, <4>4, EndIs DEF Search
      <4>6. Counted'
        BY <1>0, <4>1, <4>3, <4>5 DEF GoesToEnd, Counted
      <4>7. Aligned'
        BY <1>0, <3>2, <4>1, <4>3, <4>4 DEF Encrypted, Aligned
      <4> QED
        BY <4>6, <4>7
    <3>7. FileHeader => pc' = "packed"
      BY <3>1, <2>5 DEF FileHeader, Fail
    <3> QED
      BY <3>1, <3>3, <3>4, <3>6, <3>7, BlockSearch
  <2> QED
    BY <2>4, <2>5, <2>6, <2>7 DEF Sure, GoesFar
<1> QED
  BY <1>4, <1>5

(* The steps that leave the volumes alone.                                   *)
LEMMA WalkedStays ==
  ASSUME NEW walk, Walked(walk), UNCHANGED <<packVars, step>>
  PROVE  Walked(walk)'
BY DEF Walked, Stop, packVars, volumeVars, flagVars, packedVars, Place, Left, Cells

(* A new rar reader begins with the first volume.                            *)
LEMMA BeginSure ==
  ASSUME NEW from, NEW walk, WellFound(from, walk), arc \in Archives, arc.whole, arc' = arc,
         NEW password, NewMultiReader(password), arc.locked => password
  PROVE  (arc.locked => key)' /\ Walked(walk)' /\ Searched'
<1>1. /\ vi' = 1 /\ step' = "sig" /\ key' = password /\ multi' = FALSE /\ encrypted' = FALSE
      /\ n' = 0 /\ h' = NoHeader /\ pc' = "open"
  BY DEF NewMultiReader, NewVolume, Buffer, NewFileBlockReader, NewPackedFileReader
<1>2. <<1, 0, FALSE, FALSE, {}>> \in walk[arc]
  BY StartIs
<1>3. Stop(walk, vi, 0)'
  BY <1>1, <1>2 DEF Stop, Unfinished
<1> QED
  BY <1>1, <1>3 DEF Walked, Searched

LEMMA CallerKeepsSure ==
  ASSUME NEW from, NEW walk, Context(from, walk), Onwards(from), Caller
  PROVE  Calm' /\ (Able' => Sure(walk)')
<1> USE DEF Looking, Found
<1>0. CallInv /\ EOFInv
  BY DEF Context, SeqInv
<1>1. CASE Open
  <2>1. /\ pc = "idle" /\ reader = "none" /\ reader' = "none" /\ back' = back /\ lost' = lost /\ answer' = answer
        /\ NewMultiReader(TRUE) /\ pc' = "open" /\ step' = "sig" /\ vi' = 1
    BY <1>1 DEF Open, NewMultiReader, NewVolume, Buffer
  <2>2. ~back
    BY <1>0, <2>1 DEF CallInv
  <2>3. Sure(walk)
    BY <2>1 DEF Context, Able
  <2>4. (arc.locked => key)' /\ Walked(walk)' /\ Searched'
    BY <2>1, BeginSure DEF Context, NoFault, SeqInv, CallInv, Onwards
  <2>5. Calm'
    BY <2>1, <2>2 DEF Calm, Context
  <2> QED
    BY <2>1, <2>3, <2>4, <2>5 DEF Sure
<1>2. ASSUME NEW k, Read(k) PROVE Calm' /\ (Able' => Sure(walk)')
  <2>1. /\ pc = "idle" /\ reader \notin {"none", "stale"} /\ pc' = "reading"
        /\ UNCHANGED <<packVars, step, streamVars, back, lost, answer>>
    BY <1>2 DEF Read
  <2>2. UNCHANGED <<reader, arc, key, cipher, hash, lim, n, h>>
    BY <2>1 DEF packVars, flagVars, packedVars, streamVars
  <2>3. Calm'
    <3>1. ~back
      BY <1>0, <2>1 DEF EOFInv
    <3> QED
      BY <2>1, <2>2, <3>1 DEF Calm, Context
  <2>4. ASSUME Able' PROVE Sure(walk)'
    <3>1. Sure(walk) /\ Engaged /\ reader = "open"
      BY <2>1, <2>2, <2>4 DEF Able, Context, Calm, Engaged
    <3>2. Walked(walk)' /\ Searched'
      BY <2>1, <3>1, WalkedStays DEF Sure, Searched
    <3>3. Counted' /\ Aligned'
      BY <2>1, <2>2, <3>1 DEF Sure, Counted, Aligned, Taken
    <3> QED
      BY <2>1, <2>2, <3>1, <3>2, <3>3 DEF Sure
  <2> QED
    BY <2>3, <2>4
<1>3. ASSUME NEW to, SeekNowhere(to) \/ SeekForward(to) PROVE Calm' /\ (Able' => Sure(walk)')
  <2>1. /\ pc = "idle" /\ reader # "none" /\ pc' \in {"idle", "skipping"}
        /\ UNCHANGED <<packVars, step, streamVars, back, lost>>
        /\ answer' = answer \/ answer'.err \in {"nil", "range"}
    BY <1>3 DEF SeekNowhere, SeekForward, callVars
  <2>2. UNCHANGED <<reader, arc, key, cipher, hash, lim, n, h>>
    BY <2>1 DEF packVars, flagVars, packedVars, streamVars
  <2>3. ~back
    BY <1>0, <2>1 DEF EOFInv
  <2>4. Calm'
    BY <2>1, <2>2, <2>3 DEF Calm, Context
  <2>5. ASSUME Able' PROVE Sure(walk)'
    <3>1. Sure(walk) /\ Engaged /\ reader = "open"
      BY <2>1, <2>2, <2>5 DEF Able, Context, Calm, Engaged
    <3>2. Walked(walk)' /\ Searched'
      BY <2>1, <3>1, WalkedStays DEF Sure, Searched
    <3>3. Counted' /\ Aligned'
      BY <2>1, <2>2, <3>1 DEF Sure, Counted, Aligned, Taken
    <3> QED
      BY <2>1, <2>2, <3>1, <3>2, <3>3 DEF Sure
  <2> QED
    BY <2>4, <2>5
<1>4. ASSUME NEW to, SeekBack(to) PROVE Calm' /\ (Able' => Sure(walk)')
  <2>1. /\ pc = "idle" /\ reader # "none" /\ pc' = "rewinding" /\ back' = TRUE /\ lost' = TRUE
        /\ UNCHANGED <<packVars, step, streamVars, answer>>
    BY <1>4 DEF SeekBack
  <2>2. UNCHANGED <<reader, arc, key>>
    BY <2>1 DEF packVars, flagVars, streamVars
  <2>3. Calm'
    BY <2>1, <2>2 DEF Calm, Context
  <2>4. Able' => Able
    BY <2>1, <2>2 DEF Able
  <2> QED
    BY <2>1, <2>3, <2>4 DEF Sure, Context, Engaged
<1> QED
  BY <1>1, <1>2, <1>3, <1>4 DEF Caller

LEMMA NamedKeepsSure ==
  ASSUME NEW from, NEW walk, Context(from, walk), Onwards(from), FileFound \/ OtherFile \/ FirstFile
  PROVE  Calm' /\ (Able' => Sure(walk)')
<1> USE DEF Looking, Found
<1>0. CallInv /\ EOFInv
  BY DEF Context, SeqInv
<1>1. CASE FileFound
  <2>1. /\ pc = "named" /\ job \in {"open", "seek"} /\ h.name = Name /\ lim' = -1 /\ cipher' = NoCipher
        /\ UNCHANGED <<packVars, lost>> /\ pc' \in {"idle", "skipping"}
        /\ reader' = (IF job = "open" THEN "open" ELSE reader)
        /\ step' \in {step, "data"} /\ back' \in {back, FALSE}
        /\ answer' = answer \/ answer'.err = "nil"
        /\ hash' = << >>
    <3>1. CASE job = "open"
      <4>1. /\ pc = "named" /\ h.name = Name /\ lim' = -1 /\ cipher' = NoCipher /\ hash' = << >>
            /\ UNCHANGED <<packVars, lost>> /\ reader' = "open" /\ Return(<< >>, "nil")
        BY <1>1, <3>1 DEF FileFound
      <4>2. pc' = "idle" /\ step' = "data" /\ back' = FALSE /\ answer'.err = "nil"
        BY <4>1 DEF Return
      <4> QED
        BY <3>1, <4>1, <4>2
    <3>2. CASE job # "open"
      BY <1>1, <3>2 DEF FileFound
    <3> QED
      BY <3>1, <3>2
  <2>2. UNCHANGED <<arc, key, n, h, vi, at, buf>>
    BY <2>1 DEF packVars, flagVars, packedVars, volumeVars
  <2>3. back <=> back'
    <3>1. CASE job = "open"
      BY <1>0, <1>1, <3>1 DEF FileFound, Return, CallInv
    <3>2. CASE job # "open"
      BY <1>1, <3>2 DEF FileFound
    <3> QED
      BY <3>1, <3>2
  <2>4. Calm'
    BY <1>0, <2>1, <2>2, <2>3 DEF Calm, Context
  <2>5. ASSUME Able' PROVE Sure(walk)'
    <3>1. Able /\ Sure(walk) /\ Engaged
      BY <1>0, <2>1, <2>2, <2>5 DEF Able, Context, Engaged, CallInv
    <3>2. Walked(walk) /\ Searched /\ step = "data" /\ (arc.locked => key) /\ Placed
      BY <2>1, <3>1, EngagedPlaced DEF Sure, Searched, Context, NoFault
    <3>3. Walked(walk)' /\ Searched'
      BY <2>1, <3>2, WalkedStays DEF Searched
    <3>4. lost' => back'
      BY <2>1, <2>3, <3>1 DEF Sure
    <3>5. Sited(from)' /\ reader' = "open"
      <4>1. reader' = "open"
        BY <1>0, <2>1 DEF CallInv
      <4>2. InFile'
        <5>1. pc' = "idle" => ~back'
          BY DEF Onwards, SeqInv, EOFInv
        <5> QED
          BY <2>1, <2>2, <3>4, <4>1, <5>1 DEF InFile, Context, NoFault
      <4> QED
        BY <4>1, <4>2 DEF Onwards, SeqInv, FileInv
    <3>6. /\ Place \in 1 .. Len(Cells) /\ Mine(Cells[Place]) /\ Cells[Place].first
          /\ h.last = Cells[Place].last /\ (h.locked => Cells[Place].locked)
          /\ AtPlace /\ DOMAIN Cells = 1 .. Len(Cells) /\ Cells = arc.vols[vi]
      <4>1. /\ Place \in 1 .. Len(Cells) /\ Cells[Place].t = "file" /\ Cells[Place].first
            /\ h.name = Cells[Place].name
        BY <2>1, <3>2 DEF Placed, HeadInv
      <4>2. DOMAIN Cells = 1 .. Len(Cells)
        BY <3>2, PackedVolume DEF Context, NoFault, SeqInv, CallInv, Placed, AtPlace, Cells
      <4> QED
        BY <2>1, <3>2, <4>1, <4>2 DEF Mine, Searched, Placed, Cells
    <3>7. h.locked => Encrypted(arc)
      BY <3>6 DEF Encrypted, AtPlace
    <3>8. Aligned'
      BY <2>1, <2>2, <3>7 DEF Aligned, NoCipher
    <3>9. Counted'
      <4>1. GoesToEnd(arc, Cells[Place], from[arc][vi][Place + 1])
        BY <3>6, EndIs DEF AtPlace, Context, NoFault, SeqInv, CallInv
      <4>2. from[arc][vi][Place + 1] = Taken' + n'
        BY <2>2, <3>5 DEF Sited, Follows, Place
      <4> QED
        BY <2>2, <3>6, <4>1, <4>2 DEF GoesToEnd, Counted
    <3> QED
      BY <2>1, <2>2, <3>1, <3>2, <3>3, <3>4, <3>8, <3>9 DEF Sure
  <2> QED
    BY <2>4, <2>5
<1>2. CASE OtherFile
  <2>1. /\ pc = "named" /\ h.name # Name /\ pc' = "skip"
        /\ UNCHANGED <<packVars, step, streamVars, back, lost, answer>>
    BY <1>2 DEF OtherFile, callVars
  <2>2. UNCHANGED <<reader, arc, key, cipher, hash, lim, n, h>>
    BY <2>1 DEF packVars, flagVars, packedVars, streamVars
  <2>3. Calm'
    BY <2>1, <2>2 DEF Calm, Context
  <2>4. ASSUME Able' PROVE Sure(walk)'
    <3>1. Sure(walk) /\ Engaged
      BY <2>1, <2>2, <2>4 DEF Able, Context, Calm, Engaged
    <3>2. Walked(walk)' /\ Searched'
      BY <2>1, <2>2, <3>1, WalkedStays DEF Sure, Searched
    <3> QED
      BY <2>1, <2>2, <3>1, <3>2 DEF Sure
  <2> QED
    BY <2>3, <2>4
<1>3. CASE FirstFile
  <2>1. /\ pc = "named" /\ job = "list" /\ pc' = "idle" /\ back' = FALSE /\ answer'.err = "nil"
        /\ UNCHANGED <<reader, lost>>
    BY <1>3 DEF FirstFile, Return, streamVars
  <2>2. reader = "none" /\ ~back
    BY <1>0, <2>1 DEF CallInv
  <2>3. Sure(walk)
    BY <2>2 DEF Able, Context
  <2> QED
    BY <2>1, <2>2, <2>3 DEF Calm, Sure, Context, Engaged
<1> QED
  BY <1>1, <1>2, <1>3

-----------------------------------------------------------------------------
(* Reads                                                                     *)

(* A reader that has what it needs is within the file.                       *)
Within(from, walk) ==
  /\ Whole(from) /\ WellFound(from, walk) /\ CallInv /\ EOFInv
  /\ faults = 0 /\ reader = "open" /\ (lost => back) /\ answer.err # "error" /\ (arc.locked => key)
  /\ Sited(from) /\ StreamInv /\ CipherInv
  /\ Walked(walk) /\ Searched /\ Counted /\ Aligned

LEMMA WithinIs ==
  ASSUME NEW from, NEW walk, Context(from, walk), Found, Able
  PROVE  Within(from, walk)
<1>1. Sure(walk) /\ Engaged
  BY DEF Context, Engaged
<1>2. reader = "open"
  BY DEF Context, Calm, SeqInv, CallInv, Found
<1>3. Placed /\ InFile
  BY <1>1, <1>2, EngagedPlaced DEF Sure, Context, NoFault
<1> QED
  BY <1>1, <1>2, <1>3 DEF Sure, Context, NoFault, SeqInv, FileInv, Within, Whole, CallInv

(* What has left the packed reader has left the block.                       *)
LEMMA CountedStays ==
  ASSUME NEW from, Whole(from), Sited(from), Sited(from)', Counted, UNCHANGED <<arc, vi, h>>,
         NEW c \in 0 .. n, Moved(c), n' = n - c
  PROVE  Counted'
<1>1. Follows(from, arc, vi, Place, n, Taken) /\ Taken \in Nat /\ n \in Nat
  BY DEF Sited, Follows
<1>2. Follows(from, arc, vi, Place + c, n - c, Taken + c)
  BY <1>1, DataFollows DEF Whole
<1>3. from[arc][vi][Place + c + 1] = (Taken + c) + (n - c)
  BY <1>2 DEF Follows
<1>4. (Taken + c) + (n - c) = Taken + n
  BY <1>1
<1>5. from[arc][vi][Place' + 1] = Taken' + n'
  BY DEF Sited, Follows
<1>6. Taken' + n' = Taken + n
  BY <1>3, <1>4, <1>5 DEF Moved
<1> QED
  BY <1>6 DEF Counted

(* A step within the file.                                                   *)
LEMMA WithinKeeps ==
  ASSUME NEW from, NEW walk, Within(from, walk), Onwards(from),
         UNCHANGED <<vi, key, multi, encrypted, h, reader>>,
         NEW c \in 0 .. n, Moved(c), n' = n - c,
         step = "data", step' = "data", pc' \in {"idle", "skipping", "reading", "cipher", "packed", "block"},
         pc' = "block" => Unfinished(h) # {},
         lost' => back' /\ pc' # "idle", answer'.err # "error", Aligned'
  PROVE  Sure(walk)'
<1>0. arc' = arc /\ arc.whole /\ AtPlace /\ n \in Nat
  BY DEF Onwards, Within, Whole, Placed, HeadInv
<1>1. Sited(from)'
  BY <1>0 DEF Onwards, SeqInv, FileInv, InFile, Within, Found
<1>2. Counted'
  BY <1>0, <1>1, CountedStays DEF Within
<1>3. Place' = Place + c /\ Left' = Left - c /\ Place \in Nat /\ Left \in Nat
  BY <1>0, MovedFar
<1>4. n <= Left /\ ((h # NoHeader /\ h.name = Name /\ h.last) \/ Stop(walk, vi, Place + n + 1))
  BY DEF Within, Walked
<1>5. n' <= Left' /\ Place' + n' + 1 = Place + n + 1
  <2>1. n - c <= Left - c /\ Place + c + (n - c) + 1 = Place + n + 1
    BY ONLY <1>0, <1>3, <1>4
  <2> QED
    BY <1>3, <2>1
<1>6. Stop(walk, vi, Place + n + 1) => Stop(walk, vi, Place + n + 1)'
  BY <1>0, <1>5 DEF Stop
<1>7. Walked(walk)'
  BY <1>4, <1>5, <1>6 DEF Walked
<1>8. Searched'
  BY DEF Searched
<1> QED
  BY <1>0, <1>2, <1>7, <1>8 DEF Sure, Within

LEMMA FoundSure ==
  ASSUME NEW from, NEW walk, Context(from, walk), Onwards(from), Found, UNCHANGED <<key, reader, lost>>,
         pc' \notin {"open", "unopened", "panic", "unwound"}, answer'.err # "panic", back' => back,
         Within(from, walk) => Sure(walk)'
  PROVE  Calm' /\ (Able' => Sure(walk)')
<1>1. Calm'
  BY DEF Calm, Context
<1>2. Able' => Able
  BY DEF Able, Onwards
<1> QED
  BY <1>1, <1>2, WithinIs

LEMMA StaysWithin ==
  ASSUME NEW from, NEW walk, Context(from, walk), Onwards(from), Found, pc # "block",
         UNCHANGED <<packVars, step, reader, lost, back, answer>>,
         pc' \in {"skipping", "reading", "cipher", "packed", "block"},
         Within(from, walk) => Aligned' /\ (pc' = "block" => Unfinished(h) # {})
  PROVE  Calm' /\ (Able' => Sure(walk)')
<1>1. UNCHANGED <<arc, at, buf, vi, key, multi, encrypted, n, h>>
  BY DEF packVars, volumeVars, flagVars, packedVars
<1>2. ASSUME Within(from, walk) PROVE Sure(walk)'
  <2>1. step = "data" /\ n \in Nat /\ AtPlace /\ (lost => back) /\ answer.err # "error"
    BY <1>2 DEF Within, Searched, Whole, Placed, HeadInv, Found
  <2>2. Moved(0) /\ n' = n - 0 /\ 0 \in 0 .. n
    BY <1>1, <2>1, StaysPut
  <2> QED
    BY <1>1, <1>2, <2>1, <2>2, WithinKeeps
<1>3. answer'.err # "panic"
  BY DEF Context, Calm
<1> QED
  BY <1>1, <1>2, <1>3, FoundSure

(* Bytes that are delivered.                                                 *)
LEMMA DeliverSure ==
  ASSUME NEW from, NEW walk, Context(from, walk), Onwards(from), pc \in {"packed", "cipher"},
         UNCHANGED <<vi, key, multi, encrypted, h>>, NEW bytes, Deliver(bytes),
         Within(from, walk) => Aligned' /\ \E c \in 0 .. n : Moved(c) /\ n' = n - c
  PROVE  Calm' /\ (Able' => Sure(walk)')
<1>1. UNCHANGED <<reader, lost>> /\ job \in {"read", "seek"} /\ (back => job = "seek")
  BY DEF Deliver, Context, SeqInv, CallInv, Found
<1>2. /\ pc' \in {"idle", "skipping"} /\ (pc' = "idle" => job = "read") /\ step' \in {step, "data"}
      /\ (back' => back) /\ (back => back')
      /\ answer' = answer \/ answer'.err = "nil"
  <2>1. CASE job = "read"
    <3>1. Return(bytes, "nil")
      BY <2>1 DEF Deliver
    <3> QED
      BY <1>1, <2>1, <3>1 DEF Return
  <2>2. CASE job # "read"
    <3>1. pc' = "skipping" /\ UNCHANGED <<step, back, answer>>
      BY <2>2 DEF Deliver
    <3> QED
      BY <2>2, <3>1
  <2> QED
    BY <2>1, <2>2
<1>3. ASSUME Within(from, walk) PROVE Sure(walk)'
  <2>1. step = "data" /\ (lost => back) /\ answer'.err # "error"
    BY <1>2, <1>3 DEF Within, Searched
  <2>2. lost => back' /\ pc' # "idle"
    BY <1>1, <1>2, <2>1
  <2>3. PICK c \in 0 .. n : Moved(c) /\ n' = n - c
    BY <1>3
  <2> QED
    BY <1>1, <1>2, <1>3, <2>1, <2>2, <2>3, WithinKeeps
<1>4. answer'.err # "panic"
  BY <1>2 DEF Context, Calm
<1> QED
  BY <1>1, <1>2, <1>3, <1>4, FoundSure DEF Found

(* The volumes give what is wanted of the block.                             *)
LEMMA NeverNothing ==
  ASSUME NEW from, NEW walk, Within(from, walk), step = "data", NEW k \in Nat, k <= n, GivesNothing(k), faults' = 0
  PROVE  FALSE
<1>1. n <= Left /\ AtPlace /\ faults = 0 /\ n \in Nat
  BY DEF Within, Walked, Whole, Placed, HeadInv
<1>2. ~Faulty(1)
  BY <1>1 DEF Faulty
<1>3. Left < k /\ Left \in Nat
  BY <1>1, <1>2, PlaceIs DEF GivesNothing
<1> QED
  BY <1>1, <1>3

LEMMA GiveWithin ==
  ASSUME NEW from, NEW walk, Within(from, walk), Onwards(from), vi' = vi,
         NEW c \in Nat, c <= n, NEW stay \in Nat, c + stay <= Left, Give(c, stay)
  PROVE  Moved(c) /\ n' = n - c /\ c \in 0 .. n
<1>1. AtPlace /\ n \in Nat
  BY DEF Within, Whole, Placed, HeadInv
<1>2. Moved(c)
  <2>1. UNCHANGED <<arc, vi>>
    BY DEF Onwards
  <2> QED
    BY <1>1, <2>1, GiveMoves
<1>3. n' = n - c /\ c \in 0 .. n
  BY <1>1 DEF Give
<1> QED
  BY <1>2, <1>3

LEMMA RoomIs ==
  ASSUME StreamInv, pc \in {"cipher", "packed"}
  PROVE  Room \in Nat \ {0}
BY DEF StreamInv, Room, Smaller

LEMMA ReadPlainSure ==
  ASSUME NEW from, NEW walk, Context(from, walk), Onwards(from), ReadPlain
  PROVE  Calm' /\ (Able' => Sure(walk)')
<1>1. /\ pc = "packed" /\ n > 0 /\ ~cipher.on /\ UNCHANGED <<vi, key, multi, encrypted, h>>
      /\ \/ \E r \in Reads(Smaller(Room, n)) : Give(r[1], r[2]) /\ Deliver(Bytes(r[1])) /\ UNCHANGED cipher
         \/ GivesNothing(1) /\ UNCHANGED <<streamVars, callVars, lost, answer>>
  BY DEF ReadPlain, flagVars
<1>2. CASE GivesNothing(1) /\ UNCHANGED <<streamVars, callVars, lost, answer>>
  <2>1. pc' = "failed" /\ UNCHANGED <<reader, lost, back, answer>>
    BY <1>1, <1>2 DEF GivesNothing, Fail, streamVars, callVars
  <2>2. ~Within(from, walk)
    <3> SUFFICES ASSUME Within(from, walk) PROVE FALSE
      OBVIOUS
    <3>1. step = "data" /\ 1 <= n
      BY <1>1 DEF Within, Searched, Whole, Placed, HeadInv
    <3> QED
      BY <1>2, <3>1, NeverNothing DEF Onwards
  <2>3. answer'.err # "panic"
    BY <2>1 DEF Context, Calm
  <2> QED
    BY <1>1, <2>1, <2>2, <2>3, FoundSure DEF Found
<1>3. ASSUME NEW r \in Reads(Smaller(Room, n)), Give(r[1], r[2]), Deliver(Bytes(r[1])), UNCHANGED cipher
      PROVE  Calm' /\ (Able' => Sure(walk)')
  <2>1. ASSUME Within(from, walk) PROVE Aligned' /\ \E c \in 0 .. n : Moved(c) /\ n' = n - c
    <3>1. Room \in Nat \ {0} /\ n \in Nat /\ AtPlace
      BY <1>1, <2>1, RoomIs DEF Within, Whole, Placed, HeadInv
    <3>2. Smaller(Room, n) \in Nat \ {0} /\ Smaller(Room, n) <= n
      BY <1>1, <3>1 DEF Smaller
    <3>3. r[1] \in Nat /\ r[1] <= n /\ r[2] \in Nat /\ r[1] + r[2] <= Left
      BY <1>3, <3>1, <3>2, ReadsFit
    <3>4. Moved(r[1]) /\ n' = n - r[1] /\ r[1] \in 0 .. n
      BY <1>1, <1>3, <2>1, <3>3, GiveWithin
    <3>5. Aligned'
      BY <1>1, <1>3, <2>1 DEF Aligned, Within, Onwards
    <3> QED
      BY <3>4, <3>5
  <2> QED
    BY <1>1, <1>3, <2>1, DeliverSure
<1> QED
  BY <1>1, <1>2, <1>3

LEMMA FillCipherSure ==
  ASSUME NEW from, NEW walk, Context(from, walk), Onwards(from), FillCipher
  PROVE  Calm' /\ (Able' => Sure(walk)')
<1>1. /\ pc = "packed" /\ n > 0 /\ UNCHANGED <<vi, key, multi, encrypted, h, reader, lost, back, answer>>
      /\ \/ \E r \in Slices : /\ Give(r[1], r[2]) /\ cipher' = [cipher EXCEPT !.in = Bytes(r[1])]
                              /\ pc' = "cipher" /\ step' = step
         \/ GivesNothing(Smaller(n, BufferSize))
  BY DEF FillCipher, flagVars, callVars
<1>2. answer'.err # "panic"
  BY <1>1 DEF Context, Calm
<1>3. CASE GivesNothing(Smaller(n, BufferSize))
  <2>1. pc' = "failed"
    BY <1>1, <1>3 DEF GivesNothing, Fail
  <2>2. ~Within(from, walk)
    <3> SUFFICES ASSUME Within(from, walk) PROVE FALSE
      OBVIOUS
    <3>1. step = "data" /\ Smaller(n, BufferSize) \in Nat /\ Smaller(n, BufferSize) <= n
      BY <1>1, VolumesAssumption DEF Within, Searched, Whole, Placed, HeadInv, Smaller
    <3> QED
      BY <1>3, <3>1, NeverNothing DEF Onwards
  <2> QED
    BY <1>1, <1>2, <2>1, <2>2, FoundSure DEF Found
<1>4. ASSUME NEW r \in Slices, Give(r[1], r[2]), cipher' = [cipher EXCEPT !.in = Bytes(r[1])],
             pc' = "cipher", step' = step
      PROVE  Calm' /\ (Able' => Sure(walk)')
  <2>1. ASSUME Within(from, walk) PROVE Sure(walk)'
    <3>1. n \in Nat \ {0} /\ AtPlace /\ step = "data" /\ (lost => back) /\ answer.err # "error"
      BY <1>1, <2>1 DEF Within, Whole, Placed, HeadInv, Searched
    <3>2. r[1] \in Nat /\ r[1] <= n /\ r[2] \in Nat /\ r[1] + r[2] <= Left
      BY <1>4, <3>1, SlicesFit
    <3>3. Moved(r[1]) /\ n' = n - r[1] /\ r[1] \in 0 .. n
      BY <1>1, <1>4, <2>1, <3>2, GiveWithin
    <3>4. Aligned'
      <4>1. cipher'.on = cipher.on /\ cipher'.last = cipher.last
        BY <1>4, <2>1 DEF Within, CipherInv, CipherAt
      <4> QED
        BY <1>1, <2>1, <4>1 DEF Aligned, Within, Onwards
    <3> QED
      BY <1>1, <1>4, <2>1, <3>1, <3>3, <3>4, WithinKeeps
  <2> QED
    BY <1>1, <1>2, <1>4, <2>1, FoundSure DEF Found
<1> QED
  BY <1>1, <1>3, <1>4

LEMMA KeyCipherSure ==
  ASSUME NEW from, NEW walk, Context(from, walk), Onwards(from), KeyCipher
  PROVE  Calm' /\ (Able' => Sure(walk)')
<1>1. /\ pc = "cipher" /\ cipher.in # << >> /\ UNCHANGED <<packVars, step, reader, lost, back, answer>>
      /\ cipher' = [cipher EXCEPT !.keyed = key] /\ pc' = IF key THEN "cipher" ELSE "failed"
  BY DEF KeyCipher, callVars
<1>2. ASSUME Within(from, walk) PROVE key /\ Aligned'
  <2>1. cipher.on
    BY <1>1, <1>2 DEF Within, CipherInv, CipherAt
  <2>2. Encrypted(arc) /\ (Encrypted(arc) => arc.locked)
    BY <1>2, <2>1, StartIs DEF Within, Aligned, Whole
  <2>3. cipher'.on = cipher.on /\ cipher'.last = cipher.last
    BY <1>1, <1>2 DEF Within, CipherInv, CipherAt
  <2> QED
    BY <1>1, <1>2, <2>2, <2>3 DEF Within, Aligned, packVars, packedVars
<1>3. CASE key
  BY <1>1, <1>2, <1>3, StaysWithin DEF Found
<1>4. CASE ~key
  <2>1. UNCHANGED key /\ answer'.err # "panic"
    BY <1>1 DEF packVars, flagVars, Context, Calm
  <2> QED
    BY <1>1, <1>2, <1>4, <2>1, FoundSure DEF Found
<1> QED
  BY <1>3, <1>4

-----------------------------------------------------------------------------
(* Multiples of the size of a block of the cipher.                           *)
LEMMA Multiple ==
  ASSUME NEW p \in Nat, NEW d \in Nat, NEW r \in Nat, r < BlockSize, NEW j \in Nat, j < BlockSize,
         BlockSize * p + j = BlockSize * d + r
  PROVE  r = j
<1>0. BlockSize \in Nat /\ BlockSize > 0
  BY RarAssumption
<1>1. ASSUME NEW u \in Nat, NEW v \in Nat, u < v PROVE BlockSize * u + BlockSize <= BlockSize * v
  <2>1. BlockSize * (u + 1) <= BlockSize * v /\ BlockSize * (u + 1) = BlockSize * u + BlockSize
    BY <1>0, <1>1
  <2> QED
    BY <2>1
<1>2. BlockSize * p \in Nat /\ BlockSize * d \in Nat
  BY <1>0
<1>3. CASE p < d
  <2>1. BlockSize * p + BlockSize <= BlockSize * d
    BY <1>1, <1>3
  <2> QED
    BY <1>0, <1>2, <2>1
<1>4. CASE d < p
  <2>1. BlockSize * d + BlockSize <= BlockSize * p
    BY <1>1, <1>4
  <2> QED
    BY <1>0, <1>2, <2>1
<1>5. CASE p = d
  BY <1>2, <1>5
<1> QED
  BY <1>3, <1>4, <1>5

LEMMA BeyondMultiple ==
  ASSUME NEW a \in Nat, a % BlockSize = 0, NEW m \in Nat, NEW j \in Nat, j < BlockSize
  PROVE  (a + m * BlockSize + j) % BlockSize = j
<1> DEFINE p == a \div BlockSize
           x == a + m * BlockSize + j
           d == x \div BlockSize
           r == x % BlockSize
<1>0. BlockSize \in Nat /\ BlockSize > 0 /\ m * BlockSize \in Nat
  BY RarAssumption
<1>1. a = BlockSize * p /\ p \in Nat
  BY <1>0
<1>2. x \in Nat
  BY <1>0
<1>3. x = BlockSize * d + r /\ d \in Nat /\ r \in Nat /\ r < BlockSize
  <2> HIDE DEF x
  <2> QED
    BY <1>0, <1>2
<1>4. x = BlockSize * (p + m) + j /\ p + m \in Nat
  <2> HIDE DEF p
  <2> QED
    BY <1>0, <1>1
<1> HIDE DEF p, d, r, x
<1>5. r = j
  BY <1>3, <1>4, Multiple
<1> QED
  BY <1>5 DEF r, x

LEMMA BlockEnds ==
  ASSUME NEW a \in Nat, NEW c \in Nat, NEW i \in 1 .. c
  PROVE  Run(a, c)[i] = a + i /\ Last(Run(a, i)) = a + i
<1>1. i \in Nat /\ i \in 1 .. i
  OBVIOUS
<1> QED
  BY <1>1, RunIs DEF Last

(* What the cipher holds of the file.                                        *)
LEMMA AheadIs ==
  ASSUME CipherInv, StreamInv, cipher.in # << >> \/ cipher.part # << >>
  PROVE  /\ cipher.on /\ cipher.last \in Nat /\ Len(cipher.in) \in Nat /\ Len(cipher.part) \in Nat
         /\ cipher.in = Run(cipher.last, Len(cipher.in)) /\ cipher.part = Run(cipher.last, Len(cipher.part))
         /\ cipher.part # << >> => Len(cipher.part) < BlockSize /\ cipher.last = Len(hash)
<1>1. cipher.on /\ Len(cipher.in) \in Nat /\ Len(cipher.part) \in Nat /\ Len(cipher.out) \in Nat
  BY DEF CipherInv, CipherAt
<1>2. /\ cipher.last = Len(hash) + Len(cipher.out)
      /\ cipher.in = Run(cipher.last, Len(cipher.in)) /\ cipher.part = Run(cipher.last, Len(cipher.part))
      /\ cipher.part # << >> => cipher.out = << >> /\ Len(cipher.part) < BlockSize
  BY <1>1 DEF CipherInv, CipherAt
<1>3. Len(hash) \in Nat
  BY DEF StreamInv
<1>4. cipher.out = << >> => cipher.last = Len(hash)
  BY <1>2, <1>3
<1> QED
  BY <1>1, <1>2, <1>3, <1>4

(* The last block, which is padded, ends where a block of the cipher does.    *)
LEMMA EmptyBlockSure ==
  ASSUME NEW from, NEW walk, Context(from, walk), Onwards(from), EmptyBlock
  PROVE  Calm' /\ (Able' => Sure(walk)')
<1>1. /\ pc = "packed" /\ n = 0 /\ pc' = "block" /\ step' = "data" /\ UNCHANGED <<packVars, reader, hash, lim, cipher, lost, back, answer>>
  BY DEF EmptyBlock, streamVars, callVars
<1>2. UNCHANGED <<at, buf, arc, vi, key, multi, encrypted, n, h>>
  BY <1>1 DEF packVars, volumeVars, flagVars, packedVars
<1>3. ASSUME Within(from, walk) PROVE Unfinished(h) # {}
  <2>1. h # NoHeader
    BY <1>1, <1>3 DEF Within, EOFInv, Found
  <2>2. ~h.last
    <3> SUFFICES ASSUME h.last PROVE FALSE
      OBVIOUS
    <3>1. Taken + n >= Length /\ (Encrypted(arc) => (Taken + n) % BlockSize = 0)
      BY <1>3 DEF Within, Counted
    <3>2. Len(hash) \in Nat /\ Len(hash) + lim = Length /\ lim \in Nat \ {0}
      BY <1>1, <1>3 DEF Within, StreamInv
    <3>3. Len(cipher.in) = 0 /\ Len(cipher.out) = 0 /\ Len(cipher.part) \in Nat
      BY <1>1, <1>3 DEF Within, CipherInv, CipherAt
    <3> DEFINE j == Len(cipher.part)
    <3>4. Taken + n = Len(hash) + 0 * BlockSize + j
      <4>1. 0 * BlockSize = 0
        BY RarAssumption
      <4> HIDE DEF j
      <4>2. Taken = Len(hash) + 0 + 0 + j
        BY <3>3 DEF Taken, j
      <4> QED
        BY <1>1, <3>2, <3>3, <4>1, <4>2 DEF j
    <3>5. j > 0
      <4>1. 0 * BlockSize = 0
        BY RarAssumption
      <4>2. j \in Nat
        BY <3>3
      <4> HIDE DEF j
      <4> QED
        BY <3>1, <3>2, <3>4, <4>1, <4>2
    <3>6. cipher.part # << >>
      BY <3>5
    <3>7. cipher.on /\ j \in Nat /\ j < BlockSize /\ cipher.last = Len(hash)
      BY <1>3, <3>6, AheadIs DEF Within
    <3>8. Len(hash) % BlockSize = 0 /\ (Taken + n) % BlockSize = 0
      BY <1>3, <3>1, <3>7 DEF Within, Aligned
    <3> HIDE DEF j
    <3>9. (Len(hash) + 0 * BlockSize + j) % BlockSize = j
      <4>1. 0 \in Nat
        OBVIOUS
      <4> QED
        BY <3>2, <3>7, <3>8, <4>1, BeyondMultiple
    <3> QED
      BY <3>4, <3>5, <3>8, <3>9
  <2> QED
    BY <2>1, <2>2 DEF Unfinished
<1>4. ASSUME Within(from, walk) PROVE Sure(walk)'
  <2>1. step = "data" /\ n \in Nat /\ AtPlace /\ (lost => back) /\ answer.err # "error" /\ Aligned
    BY <1>1, <1>4 DEF Within, Searched, Whole, Placed, HeadInv
  <2>2. Moved(0) /\ n' = n - 0 /\ 0 \in 0 .. n /\ Aligned'
    BY <1>1, <1>2, <2>1, StaysPut DEF Aligned
  <2> QED
    BY <1>1, <1>2, <1>3, <1>4, <2>1, <2>2, WithinKeeps
<1>5. answer'.err # "panic"
  BY <1>1 DEF Context, Calm
<1> QED
  BY <1>1, <1>2, <1>4, <1>5, FoundSure DEF Found

(* A file that is at its limit has come to its end.                          *)
LEMMA LimitSure ==
  ASSUME NEW from, NEW walk, Context(from, walk), Onwards(from), AtLimit
  PROVE  Calm' /\ (Able' => Sure(walk)')
<1>1. pc = "reading" /\ lim = 0 /\ UNCHANGED <<packVars, reader, hash, cipher>>
  BY DEF AtLimit, streamVars
<1>2. UNCHANGED <<at, buf, arc, vi, key, multi, encrypted, n, h>>
  BY <1>1 DEF packVars, volumeVars, flagVars, packedVars
<1>3. CASE SumMatches
  <2>1. Return(<< >>, "eof") /\ UNCHANGED lost
    BY <1>3 DEF AtLimit
  <2>2. pc' = "idle" /\ step' = "data" /\ back' = FALSE /\ answer'.err = "eof"
    BY <2>1 DEF Return
  <2>3. ASSUME Within(from, walk) PROVE Sure(walk)'
    <3>1. step = "data" /\ n \in Nat /\ AtPlace /\ Aligned
      BY <1>1, <2>3 DEF Within, Searched, Whole, Placed, HeadInv
    <3>2. Moved(0) /\ n' = n - 0 /\ 0 \in 0 .. n /\ Aligned'
      BY <1>1, <1>2, <3>1, StaysPut DEF Aligned
    <3>3. ~lost
      <4>1. /\ Len(hash) \in Nat /\ Len(hash) + lim = Length /\ want \in Nat \ {0}
            /\ job = "seek" => Len(hash) + want = target /\ target \in 0 .. Length
        BY <1>1, <2>3 DEF Within, StreamInv
      <4>2. job # "seek"
        BY <1>1, <4>1
      <4> QED
        BY <2>3, <4>2 DEF Within, CallInv
    <3> QED
      BY <1>1, <1>2, <2>1, <2>2, <2>3, <3>1, <3>2, <3>3, WithinKeeps
  <2> QED
    BY <1>1, <1>2, <2>1, <2>2, <2>3, FoundSure DEF Found
<1>4. CASE ~SumMatches
  <2>1. pc' = "failed" /\ UNCHANGED <<lost, back, answer>>
    BY <1>4 DEF AtLimit, callVars
  <2>2. ~Within(from, walk)
    <3> SUFFICES ASSUME Within(from, walk) PROVE FALSE
      OBVIOUS
    <3>1. Len(hash) \in Nat /\ Len(hash) = Length /\ hash = Run(0, Length)
      BY <1>1 DEF Within, StreamInv
    <3>2. hash = Content
      BY <3>1 DEF Content, Run
    <3>3. ~h.last
      BY <1>4, <3>2 DEF SumMatches
    <3>4. Taken + n < Length
      BY <3>3 DEF Within, Counted
    <3>5. Len(cipher.out) \in Nat /\ Len(cipher.in) \in Nat /\ Len(cipher.part) \in Nat /\ n \in Nat
      BY DEF Within, CipherInv, CipherAt, Whole, Placed, HeadInv
    <3> QED
      BY <3>1, <3>4, <3>5, SMTT(30) DEF Taken
  <2>3. answer'.err # "panic"
    BY <2>1 DEF Context, Calm
  <2> QED
    BY <1>1, <1>2, <2>1, <2>2, <2>3, FoundSure DEF Found
<1> QED
  BY <1>3, <1>4

(* The first Read makes the readers.                                         *)
LEMMA NextFileSure ==
  ASSUME NEW from, NEW walk, Context(from, walk), Onwards(from), NextFile
  PROVE  Calm' /\ (Able' => Sure(walk)')
<1>1. pc = "reading" /\ lim = -1 /\ UNCHANGED <<packVars, reader, lost>>
  BY DEF NextFile
<1>2. UNCHANGED <<at, buf, arc, vi, key, multi, encrypted, n, h>>
  BY <1>1 DEF packVars, volumeVars, flagVars, packedVars
<1>3. CASE h = NoHeader
  <2>1. Return(<< >>, "eof")
    BY <1>3 DEF NextFile
  <2>2. pc' = "idle" /\ back' = FALSE /\ answer'.err = "eof"
    BY <2>1 DEF Return
  <2>3. ~Within(from, walk)
    BY <1>1, <1>3 DEF Within, EOFInv, Found
  <2> QED
    BY <1>1, <1>2, <2>2, <2>3, FoundSure DEF Found
<1>4. CASE h # NoHeader
  <2>1. cipher' = [NoCipher EXCEPT !.on = h.locked] /\ UNCHANGED <<pc, step, back, answer>>
    BY <1>4 DEF NextFile, callVars
  <2>2. ASSUME Within(from, walk) PROVE Aligned'
    <3>1. cipher'.on = h.locked /\ cipher'.last = 0
      BY <2>1 DEF NoCipher
    <3>2. 0 % BlockSize = 0
      BY RarAssumption
    <3> QED
      BY <1>2, <2>2, <3>1, <3>2 DEF Within, Aligned
  <2>3. pc' \in {"skipping", "reading", "cipher", "packed", "block"} /\ pc' # "block"
    BY <1>1, <2>1
  <2> QED
    BY <1>1, <2>1, <2>2, <2>3, StaysWithin DEF Found
<1> QED
  BY <1>3, <1>4

LEMMA BelowSure ==
  ASSUME NEW from, NEW walk, Context(from, walk), Onwards(from), Below
  PROVE  Calm' /\ (Able' => Sure(walk)')
<1>1. /\ pc = "reading" /\ pc' \in {"cipher", "packed"} /\ UNCHANGED <<packVars, step, reader, cipher, lost, back, answer>>
  BY DEF Below, streamVars, callVars
<1>2. ASSUME Within(from, walk) PROVE Aligned'
  BY <1>1, <1>2 DEF Within, Aligned, packVars, packedVars
<1> QED
  BY <1>1, <1>2, StaysWithin DEF Found

LEMMA NeverNil ==
  ASSUME NEW from, NEW walk, Context(from, walk), ReadNil
  PROVE  FALSE
BY DEF ReadNil, Context, Calm

(* A block is delivered, and ends where one does.                            *)
LEMMA BlockAligned ==
  ASSUME Aligned, arc' = arc, NEW a \in Nat, a = cipher.last, cipher.on, NEW rest, h' = h,
         DeliverBlock(Run(a, BlockSize), rest), DOMAIN cipher = {"on", "keyed", "in", "part", "out", "last"}
  PROVE  Aligned'
<1>1. cipher'.on = cipher.on /\ cipher'.last = Last(Run(a, BlockSize))
  BY DEF DeliverBlock
<1>2. BlockSize \in Nat \ {0} /\ BlockSize \in 1 .. BlockSize /\ 1 \in Nat /\ 0 \in Nat /\ 0 < BlockSize
  BY RarAssumption
<1>3. Last(Run(a, BlockSize)) = a + BlockSize
  BY <1>2, BlockEnds
<1>4. a % BlockSize = 0
  BY DEF Aligned
<1>5. (a + 1 * BlockSize + 0) % BlockSize = 0
  BY <1>2, <1>4, BeyondMultiple
<1>6. a + 1 * BlockSize + 0 = a + BlockSize
  BY <1>2
<1> QED
  BY <1>1, <1>3, <1>5, <1>6 DEF Aligned

LEMMA CipherSure ==
  ASSUME NEW from, NEW walk, Context(from, walk), Onwards(from), Cipher
  PROVE  Calm' /\ (Able' => Sure(walk)')
<1> DEFINE in    == cipher.in
           len   == Len(in)
           some  == Smaller(Room, Len(cipher.out))
           least == Smaller(Room, Len(in))
           whole == least - (least % BlockSize)
<1>1. pc = "cipher" /\ UNCHANGED packVars
  BY DEF Cipher
<1>2. UNCHANGED <<at, buf, arc, vi, key, multi, encrypted, n, h>>
  BY <1>1 DEF packVars, volumeVars, flagVars, packedVars
<1>3. ASSUME Within(from, walk) PROVE \E c \in 0 .. n : Moved(c) /\ n' = n - c
  <2>1. n \in Nat /\ AtPlace
    BY <1>3 DEF Within, Whole, Placed, HeadInv
  <2>2. Moved(0) /\ n' = n - 0 /\ 0 \in 0 .. n
    BY <1>2, <2>1, StaysPut
  <2> QED
    BY <2>2
<1>4. Within(from, walk) => DOMAIN cipher = {"on", "keyed", "in", "part", "out", "last"}
  BY DEF Within, CipherInv, CipherAt
<1>5. CASE /\ Deliver(SubSeq(cipher.out, 1, some))
           /\ cipher' = [cipher EXCEPT !.out = SubSeq(@, some + 1, Len(@))]
  <2> HIDE DEF some
  <2>1. ASSUME Within(from, walk) PROVE Aligned'
    <3>1. cipher'.on = cipher.on /\ cipher'.last = cipher.last
      BY <1>4, <1>5, <2>1
    <3> QED
      BY <1>2, <2>1, <3>1 DEF Within, Aligned
  <2> QED
    BY <1>1, <1>2, <1>3, <1>5, <2>1, DeliverSure
<1>6. CASE pc' = "packed" /\ UNCHANGED <<step, streamVars, index, callVars, lost, answer>>
  <2>1. UNCHANGED <<step, reader, cipher, lost, back, answer>>
    BY <1>6 DEF streamVars, callVars
  <2>2. Within(from, walk) => Aligned'
    BY <1>2, <2>1 DEF Within, Aligned
  <2> QED
    BY <1>1, <1>6, <2>1, <2>2, StaysWithin DEF Found
<1>7. CASE len >= BlockSize /\ DeliverBlock(SubSeq(in, 1, BlockSize), SubSeq(in, BlockSize + 1, len))
  <2>1. ASSUME Within(from, walk) PROVE Aligned'
    <3>1. BlockSize \in Nat \ {0}
      BY RarAssumption
    <3>2. in # << >>
      BY <1>7, <3>1
    <3>3. cipher.on /\ cipher.last \in Nat /\ len \in Nat /\ in = Run(cipher.last, len)
      BY <2>1, <3>2, AheadIs DEF Within
    <3>4. SubSeq(Run(cipher.last, len), 1, BlockSize) = Run(cipher.last, BlockSize)
      <4> HIDE DEF len
      <4> QED
        BY <1>7, <3>1, <3>3, RunParts, ZenonT(60)
    <3>5. DeliverBlock(Run(cipher.last, BlockSize), SubSeq(in, BlockSize + 1, len))
      BY <1>7, <3>3, <3>4
    <3> HIDE DEF in, len
    <3> QED
      BY <1>2, <1>4, <2>1, <3>3, <3>5, BlockAligned DEF Within
  <2>2. Deliver(SubSeq(Decrypted(SubSeq(in, 1, BlockSize), cipher.last), 1, Smaller(Room, BlockSize)))
    BY <1>7 DEF DeliverBlock
  <2> QED
    BY <1>1, <1>2, <1>3, <2>1, <2>2, DeliverSure
<1>8. CASE /\ len >= BlockSize /\ ~(Room < BlockSize)
           /\ Deliver(Decrypted(SubSeq(in, 1, whole), cipher.last))
           /\ cipher' = [cipher EXCEPT !.in = SubSeq(in, whole + 1, Len(in)), !.last = in[whole]]
  <2>1. ASSUME Within(from, walk) PROVE Aligned'
    <3>1. BlockSize \in Nat \ {0}
      BY RarAssumption
    <3>2. in # << >>
      BY <1>8, <3>1
    <3>3. cipher.on /\ cipher.last \in Nat /\ len \in Nat /\ in = Run(cipher.last, len)
      BY <2>1, <3>2, AheadIs DEF Within
    <3>4. Room \in Nat
      BY <1>1, <2>1, RoomIs DEF Within
    <3>5. least \in Nat /\ least >= BlockSize /\ least <= len
      <4> HIDE DEF len
      <4> QED
        BY <1>8, <3>1, <3>3, <3>4 DEF Smaller, len
    <3> DEFINE m == least \div BlockSize
    <3>6. m \in Nat /\ m * BlockSize = whole /\ whole <= least /\ whole > 0
      <4> HIDE DEF least
      <4>1. least = BlockSize * m + (least % BlockSize) /\ least % BlockSize \in 0 .. BlockSize - 1 /\ m \in Nat
        BY <3>1, <3>5
      <4> HIDE DEF m
      <4>2. m # 0
        BY <3>1, <3>5, <4>1
      <4>3. m * BlockSize = BlockSize * m /\ BlockSize * m = whole
        BY <3>1, <3>5, <4>1
      <4> QED
        BY <3>1, <3>5, <4>1, <4>2, <4>3
    <3>7. cipher'.on = cipher.on /\ cipher'.last = in[whole]
      BY <1>4, <1>8, <2>1
    <3> HIDE DEF least, m, whole
    <3>8. whole \in 1 .. len
      <4> HIDE DEF len
      <4> QED
        BY <3>1, <3>3, <3>5, <3>6
    <3>9. in[whole] = cipher.last + whole
      <4>1. Run(cipher.last, len)[whole] = cipher.last + whole
        <5> HIDE DEF len
        <5> QED
          BY <3>3, <3>8, BlockEnds
      <4> QED
        BY <3>3, <4>1
    <3>10. cipher.last % BlockSize = 0
      BY <2>1, <3>3 DEF Within, Aligned
    <3>11. (cipher.last + m * BlockSize + 0) % BlockSize = 0
      <4>1. 0 \in Nat /\ 0 < BlockSize
        BY <3>1
      <4> QED
        BY <3>3, <3>6, <3>10, <4>1, BeyondMultiple
    <3>12. cipher'.last = cipher.last + m * BlockSize + 0
      <4>1. cipher'.last = cipher.last + whole
        BY <3>7, <3>9
      <4> QED
        BY <3>3, <3>6, <3>8, <4>1
    <3> QED
      BY <1>2, <2>1, <3>7, <3>11, <3>12 DEF Within, Aligned
  <2> HIDE DEF whole
  <2> QED
    BY <1>1, <1>2, <1>3, <1>8, <2>1, DeliverSure
<1>9. CASE /\ cipher' = [cipher EXCEPT !.in = << >>, !.part = in]
           /\ pc' = "packed" /\ UNCHANGED <<step, reader, lim, hash, index, callVars, lost, answer>>
  <2>1. UNCHANGED <<step, reader, lost, back, answer>>
    BY <1>9 DEF callVars
  <2>2. ASSUME Within(from, walk) PROVE Aligned'
    <3>1. cipher'.on = cipher.on /\ cipher'.last = cipher.last
      BY <1>4, <1>9, <2>2
    <3> QED
      BY <1>2, <2>2, <3>1 DEF Within, Aligned
  <2> QED
    BY <1>1, <1>9, <2>1, <2>2, StaysWithin DEF Found
<1> QED
  BY <1>5, <1>6, <1>7, <1>8, <1>9 DEF Cipher

LEMMA FillBlockSure ==
  ASSUME NEW from, NEW walk, Context(from, walk), Onwards(from), FillBlock
  PROVE  Calm' /\ (Able' => Sure(walk)')
<1> DEFINE part == cipher.part
           len  == Len(part)
<1>1. pc = "packed" /\ n > 0 /\ part # << >> /\ UNCHANGED <<vi, key, multi, encrypted, h>>
  BY DEF FillBlock, flagVars
<1>2. CASE GivesNothing(1) /\ UNCHANGED <<n, streamVars, index, callVars, lost, answer>>
  <2>1. pc' = "failed" /\ UNCHANGED <<reader, lost, back, answer>>
    BY <1>1, <1>2 DEF GivesNothing, Fail, streamVars, callVars
  <2>2. ~Within(from, walk)
    <3> SUFFICES ASSUME Within(from, walk) PROVE FALSE
      OBVIOUS
    <3>1. step = "data" /\ 1 <= n
      BY <1>1 DEF Within, Searched, Whole, Placed, HeadInv
    <3> QED
      BY <1>2, <3>1, NeverNothing DEF Onwards
  <2>3. answer'.err # "panic"
    BY <2>1 DEF Context, Calm
  <2> QED
    BY <1>1, <2>1, <2>2, <2>3, FoundSure DEF Found
<1>3. ASSUME NEW r \in Reads(Smaller(BlockSize - len, n)), Give(r[1], r[2]),
             IF len + r[1] = BlockSize
             THEN DeliverBlock(part \o Bytes(r[1]), << >>)
             ELSE /\ cipher' = [cipher EXCEPT !.part = part \o Bytes(r[1])]
                  /\ UNCHANGED <<pc, step, reader, lim, hash, index, callVars, lost, answer>>
      PROVE  Calm' /\ (Able' => Sure(walk)')
  <2>1. ASSUME Within(from, walk)
        PROVE  /\ Moved(r[1]) /\ n' = n - r[1] /\ r[1] \in 1 .. n /\ r[1] \in 0 .. n
               /\ part \o Bytes(r[1]) = Run(cipher.last, len + r[1])
               /\ cipher.on /\ cipher.last \in Nat
               /\ DOMAIN cipher = {"on", "keyed", "in", "part", "out", "last"}
    <3>1. BlockSize \in Nat \ {0} /\ n \in Nat \ {0} /\ AtPlace /\ Sited(from)
      BY <1>1, <2>1, RarAssumption DEF Within, Whole, Placed, HeadInv
    <3>2. /\ cipher.on /\ cipher.last \in Nat /\ len \in Nat /\ part = Run(cipher.last, len)
          /\ len < BlockSize /\ cipher.last = Len(hash)
      BY <1>1, <2>1, AheadIs DEF Within
    <3>3. Smaller(BlockSize - len, n) \in Nat \ {0} /\ Smaller(BlockSize - len, n) <= n
      <4> HIDE DEF len
      <4> QED
        BY <3>1, <3>2 DEF Smaller
    <3>4. r[1] \in Nat \ {0} /\ r[1] <= n /\ r[2] \in Nat /\ r[1] + r[2] <= Left
      BY <1>3, <3>1, <3>3, ReadsFit
    <3> DEFINE c == r[1]
    <3>5. Moved(c) /\ n' = n - c /\ c \in 0 .. n /\ c \in 1 .. n
      <4>1. Moved(c) /\ n' = n - c /\ c \in 0 .. n
        BY <1>1, <1>3, <2>1, <3>4, GiveWithin
      <4> QED
        BY <3>1, <3>4, <4>1
    <3>6. Taken = cipher.last + len
      <4>1. Len(cipher.in) = 0 /\ Len(cipher.out) = 0
        BY <1>1, <2>1 DEF Within, CipherInv
      <4>2. Taken = cipher.last + 0 + 0 + len
        BY <3>2, <4>1 DEF Taken
      <4> HIDE DEF len
      <4> QED
        BY <3>2, <4>2
    <3> HIDE DEF c
    <3>7. Bytes(c) = Run(cipher.last + len, c)
      BY <3>1, <3>5, <3>6, BytesAre
    <3>8. Run(cipher.last, len) \o Run(cipher.last + len, c) = Run(cipher.last, len + c)
      <4>1. cipher.last \in Nat /\ len \in Nat /\ c \in Nat
        BY <3>2, <3>4 DEF c
      <4> HIDE DEF len
      <4> QED
        BY <4>1, RunJoins
    <3>9. part \o Bytes(c) = Run(cipher.last, len + c)
      BY <3>2, <3>7, <3>8
    <3>10. DOMAIN cipher = {"on", "keyed", "in", "part", "out", "last"}
      BY <2>1 DEF Within, CipherInv, CipherAt
    <3> QED
      BY <3>2, <3>5, <3>9, <3>10 DEF c
  <2>2. CASE len + r[1] = BlockSize
    <3>1. DeliverBlock(part \o Bytes(r[1]), << >>)
      BY <1>3, <2>2
    <3>2. Deliver(SubSeq(Decrypted(part \o Bytes(r[1]), cipher.last), 1, Smaller(Room, BlockSize)))
      BY <3>1 DEF DeliverBlock
    <3>3. ASSUME Within(from, walk) PROVE Aligned'
      <4>1. DeliverBlock(Run(cipher.last, BlockSize), << >>)
        BY <2>1, <2>2, <3>1, <3>3
      <4> QED
        BY <1>1, <2>1, <3>3, <4>1, BlockAligned DEF Within, Onwards
    <3>4. ASSUME Within(from, walk) PROVE \E c \in 0 .. n : Moved(c) /\ n' = n - c
      BY <2>1, <3>4
    <3> HIDE DEF len, part
    <3> QED
      BY <1>1, <3>2, <3>3, <3>4, DeliverSure
  <2>3. CASE len + r[1] # BlockSize
    <3>1. /\ cipher' = [cipher EXCEPT !.part = part \o Bytes(r[1])]
          /\ UNCHANGED <<pc, step, reader, lost, back, answer>>
      BY <1>3, <2>3 DEF callVars
    <3>2. ASSUME Within(from, walk) PROVE Sure(walk)'
      <4>1. step = "data" /\ (lost => back) /\ answer.err # "error"
        BY <1>1, <3>2 DEF Within, Searched
      <4>2. Aligned'
        <5>1. cipher'.on = cipher.on /\ cipher'.last = cipher.last
          BY <2>1, <3>1, <3>2
        <5> QED
          BY <1>1, <3>2, <5>1 DEF Within, Aligned, Onwards
      <4> QED
        BY <1>1, <2>1, <3>1, <3>2, <4>1, <4>2, WithinKeeps
    <3>3. answer'.err # "panic"
      BY <3>1 DEF Context, Calm
    <3> QED
      BY <1>1, <3>1, <3>2, <3>3, FoundSure DEF Found
  <2> QED
    BY <2>2, <2>3
<1> QED
  BY <1>2, <1>3 DEF FillBlock

LEMMA ReadKeepsSure ==
  ASSUME NEW from, NEW walk, Context(from, walk), Onwards(from),
         \/ ReadNil \/ NextFile \/ AtLimit \/ Below \/ EmptyBlock \/ ReadPlain
         \/ FillCipher \/ KeyCipher \/ Cipher \/ FillBlock
  PROVE  Calm' /\ (Able' => Sure(walk)')
<1> HIDE DEF Context, Onwards
<1> QED
  BY NeverNil, NextFileSure, LimitSure, BelowSure, EmptyBlockSure, ReadPlainSure, FillCipherSure, KeyCipherSure,
     CipherSure, FillBlockSure

LEMMA SkipSure ==
  ASSUME NEW from, NEW walk, Context(from, walk), Onwards(from), Skip
  PROVE  Calm' /\ (Able' => Sure(walk)')
<1>1. pc = "skipping" /\ UNCHANGED <<packVars, reader, hash, cipher>> /\ Found
  BY DEF Skip, streamVars, Found
<1>2. Within(from, walk) => Aligned'
  BY <1>1 DEF Within, Aligned, packVars, packedVars
<1>3. CASE SkipsOn
  <2>1. pc' = "reading" /\ UNCHANGED <<step, back, lost, answer>>
    BY <1>3 DEF Skip, callVars
  <2> QED
    BY <1>1, <1>2, <2>1, StaysWithin
<1>4. CASE ~SkipsOn
  <2>1. Return(<< >>, "nil") /\ lost' = (lost /\ ~back)
    BY <1>4 DEF Skip
  <2>2. pc' = "idle" /\ step' = "data" /\ back' = FALSE /\ answer'.err = "nil"
    BY <2>1 DEF Return
  <2>3. UNCHANGED <<at, buf, arc, vi, key, multi, encrypted, n, h>>
    BY <1>1 DEF packVars, volumeVars, flagVars, packedVars
  <2>4. Calm'
    BY <1>1, <2>2, <2>3 DEF Calm, Context
  <2>5. ASSUME Able' PROVE Sure(walk)'
    <3>1. key => ~back
      BY <1>1 DEF Context, Calm
    <3>2. Able
      BY <1>1, <2>1, <2>3, <2>5, <3>1 DEF Able
    <3>3. Within(from, walk)
      BY <1>1, <3>2, WithinIs
    <3>4. ~lost'
      BY <2>1, <3>3 DEF Within
    <3>5. step = "data" /\ n \in Nat /\ AtPlace
      BY <1>1, <3>3 DEF Within, Searched, Whole, Placed, HeadInv
    <3>6. Moved(0) /\ n' = n - 0 /\ 0 \in 0 .. n
      BY <2>3, <3>5, StaysPut
    <3> QED
      BY <1>1, <1>2, <2>2, <2>3, <3>3, <3>4, <3>5, <3>6, WithinKeeps
  <2> QED
    BY <2>4, <2>5
<1> QED
  BY <1>3, <1>4

LEMMA SeekKeepsSure ==
  ASSUME NEW from, NEW walk, Context(from, walk), Onwards(from),
         (\E v \in rewind : RewindVolume(v)) \/ Reopen \/ ReopenFails \/ Skip \/ Failed \/ Unopened \/ Panic
  PROVE  Calm' /\ (Able' => Sure(walk)')
<1>0. CallInv /\ arc' = arc /\ faults = 0 /\ faults' = 0 /\ arc.whole
  BY DEF Context, Onwards, SeqInv, NoFault
<1>1. ASSUME NEW v \in rewind, RewindVolume(v) PROVE Calm' /\ (Able' => Sure(walk)')
  <2>1. pc = "rewinding" /\ UNCHANGED <<pc, key, reader, back, lost, answer>>
    <3>1. pc = "rewinding"
      BY <1>1 DEF RewindVolume, Context, Calm
    <3>2. faults' # faults + 1
      BY <1>0
    <3> QED
      BY <1>1, <3>1, <3>2 DEF RewindVolume, flagVars, streamVars
  <2>2. Calm'
    BY <2>1 DEF Calm, Context, Looking, Found
  <2>3. Able' => Able
    BY <1>0, <2>1 DEF Able
  <2> QED
    BY <2>1, <2>2, <2>3 DEF Sure, Context, Engaged, Looking, Found
<1>2. CASE Reopen
  <2>1. /\ pc = "rewinding" /\ NewMultiReader(FALSE) /\ reader' = "open" /\ UNCHANGED <<back, lost, answer>>
    BY <1>2 DEF Reopen, callVars
  <2>2. pc' = "open" /\ step' = "sig" /\ vi' = 1 /\ key' = FALSE
    BY <2>1 DEF NewMultiReader, NewVolume, Buffer, NewFileBlockReader
  <2>3. Calm'
    BY <2>1, <2>2 DEF Calm, Context
  <2>4. ASSUME Able' PROVE Sure(walk)'
    <3>1. ~arc.locked /\ Able
      BY <1>0, <2>1, <2>2, <2>4 DEF Able
    <3>2. (arc.locked => key)' /\ Walked(walk)' /\ Searched'
      BY <1>0, <2>1, <3>1, BeginSure DEF Context, CallInv
    <3>3. Sure(walk)
      BY <3>1 DEF Context
    <3> QED
      BY <2>1, <2>2, <3>2, <3>3 DEF Sure, Found
  <2> QED
    BY <2>3, <2>4
<1>3. CASE ReopenFails \/ Unopened \/ Panic
  BY <1>3 DEF ReopenFails, Unopened, Panic, Context, Calm
<1>4. CASE Failed
  <2>1. pc = "failed" /\ Return(<< >>, "error") /\ UNCHANGED <<key, reader>> /\ (lost => lost')
    BY <1>4 DEF Failed, packVars, flagVars
  <2>2. pc' = "idle" /\ back' = FALSE /\ answer'.err = "error"
    BY <2>1 DEF Return
  <2>3. Calm'
    BY <2>1, <2>2 DEF Calm, Context
  <2>4. Able' => Able
    BY <1>0, <2>1 DEF Able
  <2> QED
    BY <2>1, <2>3, <2>4 DEF Context, Sure
<1> QED
  BY <1>1, <1>2, <1>3, <1>4, SkipSure

-----------------------------------------------------------------------------
(* Whenever no volume fails                                                  *)

LEMMA SureInit ==
  ASSUME NEW walk, RarInit
  PROVE  SureInv(walk)
<1>1. faults \in Nat
  BY DEF RarInit
<1>2. Calm
  BY DEF RarInit, Calm, Looking, Found
<1>3. Sure(walk)
  BY DEF RarInit, Sure, Engaged, Looking, Found
<1> QED
  BY <1>1, <1>2, <1>3 DEF SureInv

LEMMA StutterKeepsSure ==
  ASSUME NEW from, NEW walk, Context(from, walk), UNCHANGED rarVars
  PROVE  Calm' /\ (Able' => Sure(walk)')
<1>1. UNCHANGED <<pc, step, packVars, reader, lim, hash, cipher, back, lost, answer>>
  BY DEF rarVars, streamVars, callVars
<1>2. UNCHANGED <<arc, vi, key, encrypted, multi, n, h>>
  BY <1>1 DEF packVars, volumeVars, flagVars, packedVars
<1>3. Walked(walk) => Walked(walk)'
  BY <1>1, WalkedStays
<1>4. (Searched => Searched') /\ (Counted => Counted') /\ (Aligned => Aligned')
  <2>1. UNCHANGED Place /\ UNCHANGED Cells
    BY <1>1 DEF packVars, volumeVars, Place, Cells
  <2> QED
    BY <1>1, <1>2, <2>1 DEF Searched, Counted, Aligned, Taken
<1>5. (Engaged <=> Engaged') /\ (Looking <=> Looking') /\ (Found <=> Found')
  BY <1>1 DEF Engaged, Looking, Found
<1>6. Calm'
  BY <1>1, <1>2, <1>5 DEF Calm, Context
<1>7. Able' => Able
  BY <1>1, <1>2 DEF Able
<1>8. Sure(walk) => Sure(walk)'
  BY <1>1, <1>2, <1>3, <1>4, <1>5 DEF Sure
<1> QED
  BY <1>6, <1>7, <1>8 DEF Context

LEMMA SureKeeps ==
  ASSUME NEW from, NEW walk, WellPacked(from), WellFound(from, walk), SeqInv(from), SureInv(walk), [RarNext]_rarVars
  PROVE  SureInv(walk)'
<1>1. faults' \in Nat /\ (faults' = 0 => faults = 0) /\ arc' = arc
  BY FaultsGrow DEF SeqInv, SureInv
<1>2. ASSUME NoFault' PROVE Calm' /\ (Able' => Sure(walk)')
  <2>1. Context(from, walk)
    BY <1>1, <1>2 DEF NoFault, SureInv, Context
  <2>2. Onwards(from)
    BY <1>1, <1>2, SeqKeeps DEF NoFault, Onwards
  <2> HIDE DEF Context, Onwards
  <2>3. CASE UNCHANGED rarVars
    BY <2>1, <2>3, StutterKeepsSure
  <2>4. CASE Caller
    BY <2>1, <2>2, <2>4, CallerKeepsSure
  <2>5. CASE Step
    <3> HIDE DEF VolumeStep, HeaderMissed
    <3> QED
      BY <2>1, <2>2, <2>5, SearchKeepsSure, NamedKeepsSure, ReadKeepsSure, SeekKeepsSure DEF Step
  <2> QED
    BY <2>3, <2>4, <2>5 DEF RarNext
<1> QED
  BY <1>1, <1>2 DEF SureInv

(* As long as no volume fails, the only call on a whole archive that returns  *)
(* an error for a place within the file is a Seek back in an encrypted one (or *)
(* what follows it), and nothing panics.                                     *)
THEOREM OnlyPasswordCorrect ==
  ASSUME NEW from, NEW walk, WellPacked(from), WellFound(from, walk)
  PROVE  RarSpec => []OnlyPasswordIsLost
<1>1. RarInit => SeqInv(from) /\ SureInv(walk)
  BY EOFInit, CallInit, FileInit, SureInit DEF SeqInv
<1>2. SeqInv(from) /\ SureInv(walk) /\ [RarNext]_rarVars => SeqInv(from)' /\ SureInv(walk)'
  BY SeqKeeps, SureKeeps
<1>3. SeqInv(from) /\ SureInv(walk) => OnlyPasswordIsLost
  <2> SUFFICES ASSUME SeqInv(from), SureInv(walk), NoFault
               PROVE  /\ answer.err # "panic"
                      /\ answer.err = "error" => arc.locked /\ (lost \/ ~key)
    BY DEF OnlyPasswordIsLost, NoFault
  <2>1. Calm /\ (Able => answer.err # "error")
    BY DEF SureInv, Sure
  <2> QED
    BY <2>1 DEF Calm, Able
<1> QED
  BY <1>1, <1>2, <1>3, PTL DEF RarSpec

=============================================================================
