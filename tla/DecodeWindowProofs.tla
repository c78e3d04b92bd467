------------------------- MODULE DecodeWindowProofs -------------------------
(***************************************************************************)
(* Proofs about DecodeWindow, for any windows, filters, files and Reads: what *)
(* Reads give is the file that was packed (DeliversCorrect), and a file that  *)
(* is well packed is not refused (RefusesCorrect). The invariant says where   *)
(* in the window the last bytes are, which filters wait and how far behind    *)
(* what was given, and what bufBytes has collected.                          *)
(***************************************************************************)
EXTENDS DecodeWindow, SequenceTheorems, WellFoundedInduction, TLAPS

-----------------------------------------------------------------------------
(* Folds over sequences *)

(* What 0 has, and n + 1 if n has it, every number has: for a set, since the
   smallest number outside of it has one before it. *)
LEMMA Induct ==
  ASSUME NEW A, 0 \in A, \A n \in Nat : n \in A => n + 1 \in A
  PROVE  Nat \subseteq A
<1> DEFINE R == {p \in Nat \X Nat : p[1] < p[2]}
<1>1. OpToRel(<, Nat) = R
  BY DEF OpToRel
<1>2. IsWellFoundedOn(R, Nat)
  BY <1>1, NatLessThanWellFounded
<1> SUFFICES ASSUME Nat \ A # {} PROVE FALSE
  OBVIOUS
<1>3. PICK n \in Nat \ A : \A m \in Nat \ A : ~ (<<m, n>> \in R)
  <2> HIDE DEF R
  <2> QED
    BY <1>2, WFMin
<1>4. n # 0 /\ n - 1 \in Nat /\ <<n - 1, n>> \in R /\ (n - 1) + 1 = n
  BY <1>3
<1>5. n - 1 \in A
  BY <1>3, <1>4
<1> QED
  BY <1>3, <1>4, <1>5

(* A set of some of the first numbers has a largest, *)
LEMMA MaxIs ==
  ASSUME NEW N \in Nat, NEW s \in SUBSET (1 .. N), s # {}
  PROVE  Max(s) \in s /\ \A x \in s : Max(s) >= x
<1> DEFINE A == {n \in Nat : \A S \in SUBSET (1 .. n) : S # {} => \E x \in S : \A y \in S : x >= y}
<1>1. 0 \in A
  <2>1. 1 .. 0 = {}
    OBVIOUS
  <2> QED
    BY <2>1
<1>2. ASSUME NEW n \in Nat, n \in A PROVE n + 1 \in A
  <2> SUFFICES ASSUME NEW S \in SUBSET (1 .. n + 1), S # {}
               PROVE  \E x \in S : \A y \in S : x >= y
    OBVIOUS
  <2>1. CASE n + 1 \in S
    BY <2>1
  <2>2. CASE n + 1 \notin S
    <3>1. S \in SUBSET (1 .. n)
      BY <2>2
    <3> QED
      BY <1>2, <3>1
  <2> QED
    BY <2>1, <2>2
<1>3. Nat \subseteq A
  <2> HIDE DEF A
  <2> QED
    BY <1>1, <1>2, Induct
<1>4. \E x \in s : \A y \in s : x >= y
  BY <1>3
<1> QED
  BY <1>4 DEF Max

(* The function by which a fold over 1 .. N is defined. *)
IsFold(g, N, base, F) ==
  g = [s \in SUBSET (1 .. N) |-> IF s = {} THEN base ELSE F[<<g[s \ {Max(s)}], Max(s)>>]]

(* The recursive function of a fold, whose steps are those of F, exists: it is
   built for one more number at a time. *)
LEMMA FoldExists ==
  ASSUME NEW N \in Nat, NEW T, NEW base \in T, NEW F \in [T \X (1 .. N) -> T]
  PROVE  \E g \in [SUBSET (1 .. N) -> T] : IsFold(g, N, base, F)
<1> DEFINE A == {n \in Nat : n <= N => \E g \in [SUBSET (1 .. n) -> T] : IsFold(g, n, base, F)}
<1>1. 0 \in A
  <2>1. SUBSET (1 .. 0) = {{}}
    OBVIOUS
  <2>2. IsFold([s \in {{}} |-> base], 0, base, F)
    BY <2>1 DEF IsFold
  <2> QED
    BY <2>1, <2>2
<1>2. ASSUME NEW n \in Nat, n \in A PROVE n + 1 \in A
  <2>a. n + 1 \in Nat /\ (n + 1 <= N => n <= N)
    OBVIOUS
  <2> SUFFICES ASSUME n + 1 <= N PROVE \E g \in [SUBSET (1 .. n + 1) -> T] : IsFold(g, n + 1, base, F)
    BY <2>a, Zenon
  <2>1. PICK g \in [SUBSET (1 .. n) -> T] : IsFold(g, n, base, F)
    BY <1>2, <2>a, Zenon
  <2> DEFINE h == [s \in SUBSET (1 .. n + 1) |-> IF s = {} THEN base ELSE F[<<g[s \ {Max(s)}], Max(s)>>]]
  <2>2. ASSUME NEW s \in SUBSET (1 .. n + 1), s # {}
        PROVE  Max(s) \in 1 .. N /\ s \ {Max(s)} \in SUBSET (1 .. n)
    <3>1. Max(s) \in s /\ \A x \in s : Max(s) >= x
      BY <2>2, <2>a, MaxIs
    <3>2. Max(s) \in 1 .. n + 1
      BY <3>1
    <3>3. ASSUME NEW x \in s \ {Max(s)} PROVE x \in 1 .. n
      <4>1. x \in 1 .. n + 1 /\ x # Max(s) /\ Max(s) >= x
        BY <3>1
      <4> HIDE DEF h
      <4> QED
        BY <3>2, <4>1
    <3>4. 1 .. n + 1 \subseteq 1 .. N
      BY <2>a
    <3> QED
      BY <3>2, <3>3, <3>4
  <2>3. h \in [SUBSET (1 .. n + 1) -> T]
    BY <2>2
  <2>4. ASSUME NEW s \in SUBSET (1 .. n) PROVE h[s] = g[s]
    <3>1. s \in SUBSET (1 .. n + 1)
      OBVIOUS
    <3>2. g[s] = IF s = {} THEN base ELSE F[<<g[s \ {Max(s)}], Max(s)>>]
      BY <2>1, Zenon DEF IsFold
    <3> QED
      BY <3>1, <3>2
  <2>5. ASSUME NEW s \in SUBSET (1 .. n + 1)
        PROVE  h[s] = IF s = {} THEN base ELSE F[<<h[s \ {Max(s)}], Max(s)>>]
    <3>1. h[s] = IF s = {} THEN base ELSE F[<<g[s \ {Max(s)}], Max(s)>>]
      OBVIOUS
    <3> HIDE DEF h
    <3> QED
      BY <2>2, <2>4, <3>1
  <2>6. IsFold(h, n + 1, base, F)
    <3>1. h = [s \in SUBSET (1 .. n + 1) |-> h[s]]
      OBVIOUS
    <3> HIDE DEF h
    <3> QED
      BY <2>5, <3>1, Zenon DEF IsFold
  <2> HIDE DEF h
  <2> QED
    BY <2>3, <2>6
<1>3. N \in A
  <2> HIDE DEF A
  <2> QED
    BY <1>1, <1>2, Induct
<1>4. N <= N
  OBVIOUS
<1> QED
  BY <1>3, <1>4, Zenon

(* and the largest of the first numbers is the last of them. *)
LEMMA MaxOfInitial ==
  ASSUME NEW N \in Nat, NEW n \in Nat, n < N
  PROVE  /\ 1 .. n + 1 \in SUBSET (1 .. N) /\ 1 .. n + 1 # {}
         /\ Max(1 .. n + 1) = n + 1 /\ (1 .. n + 1) \ {n + 1} = 1 .. n
<1>1. /\ 1 .. n + 1 \in SUBSET (1 .. N) /\ 1 .. n + 1 # {} /\ (1 .. n + 1) \ {n + 1} = 1 .. n
      /\ 1 .. n + 1 \in SUBSET (1 .. n + 1) /\ n + 1 \in Nat /\ n + 1 \in 1 .. n + 1
  OBVIOUS
<1>2. Max(1 .. n + 1) \in 1 .. n + 1 /\ \A x \in 1 .. n + 1 : Max(1 .. n + 1) >= x
  BY <1>1, MaxIs
<1> QED
  BY <1>1, <1>2

Byte   == Seq(Int)
Mark   == [from : Nat, length : Nat \ {0}]
Queued == [offset : Nat, length : Nat \ {0}]

(* The sum over a sequence goes from filter to filter, *)
LEMMA UnfoldSum ==
  ASSUME NEW seq \in Seq(Queued)
  PROVE  \E it : /\ Sum(seq) = it[1 .. Len(seq)]
                 /\ it[{}] = 0
                 /\ \A n \in Nat : n < Len(seq) => it[1 .. n + 1] = it[1 .. n] + seq[n + 1].offset
<1> DEFINE N == Len(seq)
           F == [x \in Int \X (1 .. N) |-> x[1] + seq[x[2]].offset]
           Iter(g) == g = [s \in SUBSET (1 .. N) |->
                            IF s = {} THEN 0 ELSE g[s \ {Max(s)}] + seq[Max(s)].offset]
           it == CHOOSE g : Iter(g)
<1>1. N \in Nat /\ DOMAIN seq = 1 .. N
  OBVIOUS
<1>2. Sum(seq) = it[1 .. N]
  BY <1>1 DEF Sum, FoldLeft, MapThenFoldSet
<1>3. \A i \in 1 .. N : seq[i].offset \in Int
  <2>1. \A i \in 1 .. N : seq[i] \in Queued
    OBVIOUS
  <2>2. \A q \in Queued : q.offset \in Int
    BY DEF Queued
  <2> HIDE DEF N
  <2> QED
    BY <2>1, <2>2
<1>5. F \in [Int \X (1 .. N) -> Int]
  <2> HIDE DEF N
  <2> QED
    BY <1>3
<1>6. PICK g \in [SUBSET (1 .. N) -> Int] : IsFold(g, N, 0, F)
  <2> HIDE DEF F, N
  <2>1. N \in Nat /\ 0 \in Int
    BY <1>1
  <2> QED
    BY <1>5, <2>1, FoldExists, Zenon
<1>7. Iter(g)
  <2>1. ASSUME NEW s \in SUBSET (1 .. N), s # {}
        PROVE  F[<<g[s \ {Max(s)}], Max(s)>>] = g[s \ {Max(s)}] + seq[Max(s)].offset
    <3>1. Max(s) \in 1 .. N /\ s \ {Max(s)} \in SUBSET (1 .. N)
      BY <1>1, <2>1, MaxIs
    <3>2. g[s \ {Max(s)}] \in Int
      BY <3>1, <1>6
    <3> HIDE DEF N
    <3> QED
      BY <3>1, <3>2
  <2> HIDE DEF F, N
  <2> QED
    BY <2>1, <1>6 DEF IsFold
<1>8. Iter(it)
  <2> HIDE DEF Iter
  <2> QED
    BY <1>7
<1> HIDE DEF it
<1>9. it[{}] = 0
  BY <1>8
<1>10. ASSUME NEW n \in Nat, n < N
       PROVE  it[1 .. n + 1] = it[1 .. n] + seq[n + 1].offset
  <2> HIDE DEF N
  <2>1. /\ 1 .. n + 1 \in SUBSET (1 .. N) /\ 1 .. n + 1 # {}
        /\ Max(1 .. n + 1) = n + 1 /\ (1 .. n + 1) \ {n + 1} = 1 .. n
    BY <1>1, <1>10, MaxOfInitial
  <2> QED
    BY <1>8, <2>1
<1> HIDE DEF N, Iter
<1> QED
  BY <1>2, <1>9, <1>10 DEF N

(* so that the sum of differences is the difference of the last and the first. *)
LEMMA SumOfDifferences ==
  ASSUME NEW seq \in Seq(Queued), NEW n \in 0 .. Len(seq), NEW at \in [0 .. Len(seq) -> Int],
         \A i \in 1 .. Len(seq) : seq[i].offset = at[i] - at[i - 1]
  PROVE  Sum(SubSeq(seq, 1, n)) = at[n] - at[0]
<1> DEFINE s == SubSeq(seq, 1, n)
<1>1. s \in Seq(Queued) /\ Len(s) = n /\ n \in Nat /\ \A i \in 1 .. n : s[i] = seq[i]
  OBVIOUS
<1> HIDE DEF s
<1>2. PICK it : /\ Sum(s) = it[1 .. Len(s)]
                /\ it[{}] = 0
                /\ \A m \in Nat : m < Len(s) => it[1 .. m + 1] = it[1 .. m] + s[m + 1].offset
  BY <1>1, UnfoldSum
<1> DEFINE A == {m \in Nat : m <= n => it[1 .. m] = at[m] - at[0]}
<1>3. 0 \in A
  <2>1. 1 .. 0 = {} /\ at[0] \in Int
    OBVIOUS
  <2> QED
    BY <1>2, <2>1
<1>4. ASSUME NEW m \in Nat, m \in A PROVE m + 1 \in A
  <2> SUFFICES ASSUME m + 1 <= n PROVE it[1 .. m + 1] = at[m + 1] - at[0]
    OBVIOUS
  <2>1. it[1 .. m] = at[m] - at[0] /\ m + 1 \in 1 .. n /\ m + 1 \in 1 .. Len(seq)
    BY <1>4
  <2>2. it[1 .. m + 1] = it[1 .. m] + s[m + 1].offset
    BY <1>1, <1>2, <2>1
  <2>3. s[m + 1].offset = at[m + 1] - at[m]
    <3>1. (m + 1) - 1 = m
      OBVIOUS
    <3> QED
      BY <1>1, <2>1, <3>1
  <2>4. at[m] \in Int /\ at[m + 1] \in Int /\ at[0] \in Int
    BY <2>1, SMTT(30)
  <2> HIDE DEF A
  <2> QED
    BY <2>1, <2>2, <2>3, <2>4
<1>5. n \in A
  <2> HIDE DEF A
  <2> QED
    BY <1>1, <1>3, <1>4, Induct
<1> QED
  BY <1>1, <1>2, <1>5 DEF s

(* A byte, the k-th of the file, through one filter.                         *)
ThroughOne(b, k, m) ==
  IF m.from < k /\ k <= m.from + m.length THEN b \o <<m.length, k - m.from, m.from>> ELSE b

LEMMA ThroughOneIsByte ==
  ASSUME NEW b \in Byte, NEW k \in Int, NEW m \in Mark
  PROVE  ThroughOne(b, k, m) \in Byte
<1>1. m.length \in Int /\ m.from \in Int /\ k - m.from \in Int
  BY DEF Mark
<1>2. <<m.length, k - m.from, m.from>> \in Seq(Int)
  BY <1>1
<1> QED
  BY <1>2 DEF ThroughOne, Byte

(* A byte goes through filter after filter. *)
LEMMA UnfoldThrough ==
  ASSUME NEW byte \in Byte, NEW k \in Int, NEW seq \in Seq(Mark)
  PROVE  \E it : /\ Through(byte, k, seq) = it[1 .. Len(seq)]
                 /\ it[{}] = byte
                 /\ \A n \in Nat : n < Len(seq) => it[1 .. n + 1] = ThroughOne(it[1 .. n], k, seq[n + 1])
                 /\ it[1 .. Len(seq)] \in Byte
<1> DEFINE N == Len(seq)
           F == [x \in Byte \X (1 .. N) |-> ThroughOne(x[1], k, seq[x[2]])]
           Iter(g) == g = [s \in SUBSET (1 .. N) |->
                            IF s = {} THEN byte ELSE ThroughOne(g[s \ {Max(s)}], k, seq[Max(s)])]
           it == CHOOSE g : Iter(g)
<1>1. N \in Nat /\ DOMAIN seq = 1 .. N
  OBVIOUS
<1>2. Through(byte, k, seq) = it[1 .. N]
  BY <1>1 DEF Through, ThroughOne, FoldLeft, MapThenFoldSet
<1>5. F \in [Byte \X (1 .. N) -> Byte]
  <2> HIDE DEF N
  <2> QED
    BY <1>1, ThroughOneIsByte
<1>6. PICK g \in [SUBSET (1 .. N) -> Byte] : IsFold(g, N, byte, F)
  <2> HIDE DEF F, N
  <2>1. N \in Nat
    BY <1>1
  <2> QED
    BY <1>5, <2>1, FoldExists, Zenon
<1>7. Iter(g)
  <2>1. ASSUME NEW s \in SUBSET (1 .. N), s # {}
        PROVE  F[<<g[s \ {Max(s)}], Max(s)>>] = ThroughOne(g[s \ {Max(s)}], k, seq[Max(s)])
    <3>1. Max(s) \in 1 .. N /\ s \ {Max(s)} \in SUBSET (1 .. N)
      BY <1>1, <2>1, MaxIs
    <3>2. g[s \ {Max(s)}] \in Byte
      BY <3>1, <1>6
    <3> HIDE DEF N
    <3> QED
      BY <3>1, <3>2
  <2> HIDE DEF F, N
  <2> QED
    BY <2>1, <1>6 DEF IsFold
<1>8. Iter(it)
  <2> HIDE DEF Iter
  <2> QED
    BY <1>7
<1> HIDE DEF it
<1>9. it[{}] = byte
  BY <1>8
<1>10. ASSUME NEW n \in Nat, n < N
       PROVE  it[1 .. n + 1] = ThroughOne(it[1 .. n], k, seq[n + 1])
  <2> HIDE DEF N
  <2>1. /\ 1 .. n + 1 \in SUBSET (1 .. N) /\ 1 .. n + 1 # {}
        /\ Max(1 .. n + 1) = n + 1 /\ (1 .. n + 1) \ {n + 1} = 1 .. n
    BY <1>1, <1>10, MaxOfInitial
  <2> QED
    BY <1>8, <2>1
<1> DEFINE A == {n \in Nat : n <= N => it[1 .. n] \in Byte}
<1>11. N \in A
  <2>1. 0 \in A
    <3>1. 1 .. 0 = {}
      OBVIOUS
    <3> QED
      BY <1>9, <3>1
  <2>2. ASSUME NEW n \in Nat, n \in A PROVE n + 1 \in A
    <3> SUFFICES ASSUME n + 1 <= N PROVE it[1 .. n + 1] \in Byte
      OBVIOUS
    <3>1. it[1 .. n] \in Byte /\ n < N /\ seq[n + 1] \in Mark
      BY <1>1, <2>2
    <3> HIDE DEF N
    <3> QED
      BY <1>10, <3>1, ThroughOneIsByte
  <2> HIDE DEF A, N
  <2> QED
    BY <1>1, <2>1, <2>2, Induct
<1>12. it[1 .. N] \in Byte
  BY <1>1, <1>11
<1> HIDE DEF N, Iter
<1> QED
  BY <1>2, <1>9, <1>10, <1>12 DEF N

LEMMA ThroughNone ==
  ASSUME NEW byte \in Byte, NEW k \in Int
  PROVE  Through(byte, k, << >>) = byte
<1>1. << >> \in Seq(Mark) /\ Len(<< >>) = 0 /\ 1 .. 0 = {}
  OBVIOUS
<1> DEFINE seq == << >>
<1>2. seq \in Seq(Mark) /\ 1 .. Len(seq) = {}
  BY <1>1
<1> HIDE DEF seq
<1>3. Through(byte, k, seq) = byte
  <2>1. PICK it : Through(byte, k, seq) = it[1 .. Len(seq)] /\ it[{}] = byte
    BY <1>2, UnfoldThrough
  <2> QED
    BY <1>2, <2>1
<1> QED
  BY <1>3 DEF seq

LEMMA ThroughIsByte ==
  ASSUME NEW byte \in Byte, NEW k \in Int, NEW seq \in Seq(Mark)
  PROVE  Through(byte, k, seq) \in Byte
BY UnfoldThrough

(* The filters of s, and one more. *)
LEMMA ThroughNext ==
  ASSUME NEW byte \in Byte, NEW k \in Int, NEW s \in Seq(Mark), NEW m \in Mark
  PROVE  Through(byte, k, Append(s, m)) = ThroughOne(Through(byte, k, s), k, m)
<1> DEFINE t == Append(s, m)
           n == Len(s)
<1>1. t \in Seq(Mark) /\ n \in Nat /\ Len(t) = n + 1 /\ t[n + 1] = m /\ \A i \in 1 .. n : t[i] = s[i]
  OBVIOUS
<1> HIDE DEF t
<1>2. PICK is : /\ Through(byte, k, s) = is[1 .. n]
                /\ is[{}] = byte
                /\ \A i \in Nat : i < n => is[1 .. i + 1] = ThroughOne(is[1 .. i], k, s[i + 1])
  BY UnfoldThrough
<1>3. PICK it : /\ Through(byte, k, t) = it[1 .. Len(t)]
                /\ it[{}] = byte
                /\ \A i \in Nat : i < Len(t) => it[1 .. i + 1] = ThroughOne(it[1 .. i], k, t[i + 1])
  BY <1>1, UnfoldThrough
<1> HIDE DEF n
<1> DEFINE A == {i \in Nat : i <= n => it[1 .. i] = is[1 .. i]}
<1>4. 0 \in A
  <2>1. 1 .. 0 = {}
    OBVIOUS
  <2> QED
    BY <1>2, <1>3, <2>1
<1>5. ASSUME NEW i \in Nat, i \in A PROVE i + 1 \in A
  <2> SUFFICES ASSUME i + 1 <= n PROVE it[1 .. i + 1] = is[1 .. i + 1]
    OBVIOUS
  <2>1. it[1 .. i] = is[1 .. i] /\ i + 1 \in 1 .. n /\ i < n /\ i < Len(t)
    BY <1>1, <1>5
  <2>2. t[i + 1] = s[i + 1]
    BY <1>1, <2>1
  <2> HIDE DEF A
  <2> QED
    BY <1>2, <1>3, <2>1, <2>2
<1>6. n \in A
  <2> HIDE DEF A
  <2> QED
    BY <1>1, <1>4, <1>5, Induct
<1>7. it[1 .. n] = is[1 .. n] /\ n < Len(t) /\ n + 1 = Len(t)
  BY <1>1, <1>6
<1> HIDE DEF A
<1>8. it[1 .. n + 1] = ThroughOne(is[1 .. n], k, m)
  BY <1>1, <1>3, <1>7
<1>9. Through(byte, k, t) = it[1 .. n + 1]
  BY <1>3, <1>7
<1> QED
  BY <1>2, <1>8, <1>9 DEF t

(* Filters whose blocks the byte is not in do nothing to it.                 *)
LEMMA ThroughRest ==
  ASSUME NEW byte \in Byte, NEW k \in Int, NEW s \in Seq(Mark), NEW n \in 0 .. Len(s),
         \A i \in n + 1 .. Len(s) : ~(s[i].from < k /\ k <= s[i].from + s[i].length)
  PROVE  Through(byte, k, s) = Through(byte, k, SubSeq(s, 1, n))
<1> DEFINE N == Len(s)
           A == {i \in Nat : n + i <= N => Through(byte, k, SubSeq(s, 1, n + i)) = Through(byte, k, SubSeq(s, 1, n))}
<1>0. N \in Nat /\ n \in Nat /\ n <= N
  OBVIOUS
<1>1. 0 \in A
  BY <1>0
<1>2. ASSUME NEW i \in Nat, i \in A PROVE i + 1 \in A
  <2> SUFFICES ASSUME n + (i + 1) <= N
               PROVE  Through(byte, k, SubSeq(s, 1, n + (i + 1))) = Through(byte, k, SubSeq(s, 1, n))
    OBVIOUS
  <2> DEFINE j == n + i
             t == SubSeq(s, 1, j)
  <2>1. j \in Nat /\ j + 1 = n + (i + 1) /\ j <= N /\ j + 1 \in n + 1 .. N /\ j + 1 \in 1 .. N
    BY <1>0
  <2>2. Through(byte, k, t) = Through(byte, k, SubSeq(s, 1, n))
    BY <1>2, <2>1
  <2> HIDE DEF j, A
  <2>3. t \in Seq(Mark) /\ s[j + 1] \in Mark
    BY <2>1
  <2>4. SubSeq(s, 1, j + 1) = Append(t, s[j + 1])
    BY <2>1, <2>3
  <2> HIDE DEF t
  <2>5. Through(byte, k, Append(t, s[j + 1])) = ThroughOne(Through(byte, k, t), k, s[j + 1])
    BY <2>3, ThroughNext
  <2>6. ThroughOne(Through(byte, k, t), k, s[j + 1]) = Through(byte, k, t)
    BY <2>1 DEF ThroughOne
  <2> QED
    BY <2>1, <2>2, <2>4, <2>5, <2>6
<1>3. N - n \in A /\ n + (N - n) = N
  <2>1. N - n \in Nat
    BY <1>0
  <2> HIDE DEF A, N
  <2> QED
    BY <1>0, <1>1, <1>2, <2>1, Induct
<1>4. SubSeq(s, 1, N) = s
  OBVIOUS
<1>5. n + (N - n) <= N
  BY <1>0
<1>6. Through(byte, k, SubSeq(s, 1, n + (N - n))) = Through(byte, k, SubSeq(s, 1, n))
  BY <1>3, <1>5
<1> QED
  BY <1>3, <1>4, <1>6

-----------------------------------------------------------------------------
(* The window *)

LEMMA FunctionIsSeq ==
  ASSUME NEW S, NEW n \in Nat, NEW f \in [1 .. n -> S]
  PROVE  f \in Seq(S) /\ Len(f) = n /\ DOMAIN f = 1 .. n
OBVIOUS

(* Where the j-th byte before the next one is, in a window of n. *)
LEMMA PlaceBack ==
  ASSUME NEW n \in Nat \ {0}, NEW at \in 0 .. n, NEW j \in 1 .. n
  PROVE  /\ (at + n - j) % n = IF j <= at THEN at - j ELSE at + n - j
         /\ (at + n - j) % n \in 0 .. n - 1
<1>1. CASE j <= at
  <2> DEFINE x == at - j
  <2>1. x \in 0 .. n - 1 /\ at + n - j = x + n
    BY <1>1
  <2> HIDE DEF x
  <2>2. (x + n) % n = x
    BY <2>1
  <2> QED
    BY <1>1, <2>1, <2>2 DEF x
<1>2. CASE ~(j <= at)
  <2> DEFINE x == at + n - j
  <2>1. x \in 0 .. n - 1
    BY <1>2
  <2> HIDE DEF x
  <2>2. x % n = x
    BY <2>1
  <2> QED
    BY <1>2, <2>1, <2>2 DEF x
<1> QED
  BY <1>1, <1>2

(* The window has the last bytes, the last of them before w: what is behind w
   is what has been there for a turn of the window. *)
Holds(window, n, at, s) ==
  \A j \in 1 .. n : j <= Len(s) => window[(at + n - j) % n] = s[Len(s) - j + 1]

(* What is written to it is there, *)
LEMMA WriteHolds ==
  ASSUME size \in Nat \ {0}, w \in Nat, win \in [0 .. size - 1 -> Byte],
         NEW new \in Seq(Byte), w + Len(new) <= size, NEW s \in Seq(Byte), Holds(win, size, w, s)
  PROVE  Write(new) \in [0 .. size - 1 -> Byte] /\ Holds(Write(new), size, w + Len(new), s \o new)
<1> DEFINE n == Len(new)
           t == s \o new
<1>1. /\ n \in Nat /\ Len(s) \in Nat /\ t \in Seq(Byte) /\ Len(t) = Len(s) + n
      /\ \A i \in 1 .. Len(s) : t[i] = s[i]
      /\ \A i \in 1 .. n : t[Len(s) + i] = new[i]
  OBVIOUS
<1>2. /\ Write(new) \in [0 .. size - 1 -> Byte]
      /\ \A i \in 0 .. size - 1 : Write(new)[i] = IF i \in w .. w + n - 1 THEN new[i - w + 1] ELSE win[i]
  BY DEF Write
<1> HIDE DEF n, t
<1>3. ASSUME NEW j \in 1 .. size, j <= Len(t)
      PROVE  Write(new)[((w + n) + size - j) % size] = t[Len(t) - j + 1]
  <2>0. w + n \in 0 .. size
    BY <1>1 DEF n
  <2> DEFINE i == ((w + n) + size - j) % size
  <2>1. i = (IF j <= w + n THEN w + n - j ELSE (w + n) + size - j) /\ i \in 0 .. size - 1
    <3> DEFINE at == w + n
    <3>1. at \in 0 .. size /\ size \in Nat \ {0} /\ j \in 1 .. size
      BY <2>0
    <3> HIDE DEF at
    <3>2. /\ (at + size - j) % size = IF j <= at THEN at - j ELSE at + size - j
          /\ (at + size - j) % size \in 0 .. size - 1
      BY ONLY <3>1, PlaceBack
    <3> QED
      BY <3>2 DEF at
  <2> HIDE DEF i
  <2>2. CASE j <= n
    <3>1. i = w + n - j /\ i \in w .. w + n - 1 /\ i - w + 1 = n - j + 1
      BY <1>1, <2>1, <2>2
    <3>2. Write(new)[i] = new[n - j + 1]
      BY <1>2, <2>1, <3>1
    <3>3. n - j + 1 \in 1 .. n /\ Len(t) - j + 1 = Len(s) + (n - j + 1)
      BY <1>1, <2>2
    <3>4. t[Len(t) - j + 1] = new[n - j + 1]
      <4> DEFINE m == n - j + 1
      <4>1. m \in 1 .. n /\ Len(t) - j + 1 = Len(s) + m
        BY <3>3
      <4> HIDE DEF m
      <4>2. t[Len(s) + m] = new[m]
        BY <1>1, <4>1
      <4> QED
        BY <4>1, <4>2 DEF m
    <3> QED
      BY <3>2, <3>4 DEF i
  <2>3. CASE j > n
    <3> DEFINE m == j - n
    <3>1. m \in 1 .. size /\ m <= Len(s) /\ w + n - j = w - m /\ (w + n) + size - j = w + size - m /\ (j <= w + n <=> m <= w)
      BY <1>1, <1>3, <2>3
    <3>2. Len(t) - j + 1 = Len(s) - m + 1 /\ Len(s) - m + 1 \in 1 .. Len(s)
      BY <1>1, <3>1
    <3> HIDE DEF m
    <3>3. w \in 0 .. size
      BY <1>1, <2>0
    <3>4. (w + size - m) % size = (IF m <= w THEN w - m ELSE w + size - m)
      BY <3>1, <3>3, PlaceBack
    <3>5. i = (w + size - m) % size
      BY <2>1, <3>1, <3>4
    <3>6. ~(i \in w .. w + n - 1)
      <4>1. CASE m <= w
        BY <3>1, <3>4, <3>5, <4>1, <1>1
      <4>2. CASE ~(m <= w)
        <5>1. i = w + n + size - j /\ j <= size
          BY <2>1, <3>1, <4>2
        <5> QED
          BY <1>1, <2>0, <5>1
      <4> QED
        BY <4>1, <4>2
    <3>7. Write(new)[i] = win[i]
      BY <1>2, <2>1, <3>6
    <3>8. win[(w + size - m) % size] = s[Len(s) - m + 1]
      BY <3>1 DEF Holds
    <3>9. t[Len(t) - j + 1] = s[Len(s) - m + 1]
      BY <1>1, <3>2
    <3> QED
      BY <3>5, <3>7, <3>8, <3>9 DEF i
  <2> QED
    BY <1>1, <2>2, <2>3
<1>4. Holds(Write(new), size, w + n, t)
  BY <1>3 DEF Holds
<1> QED
  BY <1>2, <1>4 DEF n, t

(* and what is read from it is what was written. *)
LEMMA SliceIs ==
  ASSUME size \in Nat \ {0}, w \in 0 .. size, r \in Nat, r <= w, win \in [0 .. size - 1 -> Byte],
         NEW s \in Seq(Byte), w - r <= Len(s), Holds(win, size, w, s), NEW n \in 0 .. w - r
  PROVE  /\ Slice(r, n) \in Seq(Byte) /\ Len(Slice(r, n)) = n
         /\ \A k \in 1 .. n : Slice(r, n)[k] = s[Len(s) - (w - r) + k]
<1>1. ASSUME NEW k \in 1 .. n
      PROVE  win[r + k - 1] = s[Len(s) - (w - r) + k] /\ r + k - 1 \in 0 .. size - 1
  <2> DEFINE j == w - r - k + 1
  <2>1. /\ j \in 1 .. size /\ j <= Len(s) /\ j <= w /\ w - j = r + k - 1
        /\ Len(s) - j + 1 = Len(s) - (w - r) + k /\ r + k - 1 \in 0 .. size - 1
    OBVIOUS
  <2> HIDE DEF j
  <2>2. (w + size - j) % size = w - j
    BY <2>1, PlaceBack
  <2>3. win[(w + size - j) % size] = s[Len(s) - j + 1]
    BY <2>1 DEF Holds
  <2> QED
    BY <2>1, <2>2, <2>3
<1>2. Slice(r, n) \in [1 .. n -> Byte] /\ \A k \in 1 .. n : Slice(r, n)[k] = win[r + k - 1]
  BY <1>1 DEF Slice
<1>3. Slice(r, n) \in Seq(Byte) /\ Len(Slice(r, n)) = n
  <2>1. n \in Nat
    OBVIOUS
  <2> QED
    BY <1>2, <2>1, FunctionIsSeq
<1> QED
  BY <1>1, <1>2, <1>3

(* A copy is what the packed data say. *)
LEMMA CopyIs ==
  ASSUME size \in Nat \ {0}, w \in 0 .. size, win \in [0 .. size - 1 -> Byte],
         NEW s \in Seq(Byte), Holds(win, size, w, s),
         NEW dist \in 1 .. size, dist <= Len(s), NEW n \in Nat
  PROVE  /\ Repeated(History(dist), n, dist) = Repeated(s, n, dist)
         /\ Repeated(s, n, dist) \in Seq(Byte) /\ Len(Repeated(s, n, dist)) = n
<1>1. /\ History(dist) \in [1 .. dist -> Byte]
      /\ \A k \in 1 .. dist : History(dist)[k] = s[Len(s) - dist + k]
  <2>1. ASSUME NEW k \in 1 .. dist
        PROVE  /\ (w + size - dist + k - 1) % size \in 0 .. size - 1
               /\ win[(w + size - dist + k - 1) % size] = s[Len(s) - dist + k]
    <3> DEFINE j == dist - k + 1
    <3>1. j \in 1 .. size /\ j <= Len(s) /\ w + size - dist + k - 1 = w + size - j /\ Len(s) - j + 1 = Len(s) - dist + k
      OBVIOUS
    <3> HIDE DEF j
    <3>2. (w + size - j) % size \in 0 .. size - 1
      BY <3>1, PlaceBack
    <3>3. win[(w + size - j) % size] = s[Len(s) - j + 1]
      BY <3>1 DEF Holds
    <3> QED
      BY <3>1, <3>2, <3>3
  <2> QED
    BY <2>1 DEF History
<1>2. Len(History(dist)) = dist
  <2>1. dist \in Nat
    OBVIOUS
  <2> QED
    BY <1>1, <2>1, FunctionIsSeq
<1>3. ASSUME NEW k \in 1 .. n
      PROVE  /\ History(dist)[Len(History(dist)) - dist + 1 + ((k - 1) % dist)] = s[Len(s) - dist + 1 + ((k - 1) % dist)]
             /\ Len(s) - dist + 1 + ((k - 1) % dist) \in 1 .. Len(s)
  <2> DEFINE m == (k - 1) % dist
  <2>1. m \in 0 .. dist - 1
    <3>1. k - 1 \in Nat /\ dist \in Nat \ {0}
      OBVIOUS
    <3> QED
      BY <3>1
  <2> HIDE DEF m
  <2>2. m + 1 \in 1 .. dist /\ dist - dist + 1 + m = m + 1 /\ Len(s) - dist + 1 + m = Len(s) - dist + (m + 1)
        /\ Len(s) - dist + 1 + m \in 1 .. Len(s)
    BY <2>1
  <2>3. History(dist)[m + 1] = s[Len(s) - dist + (m + 1)]
    BY <1>1, <2>2
  <2> QED
    BY <1>2, <2>2, <2>3 DEF m
<1>4. Repeated(History(dist), n, dist) = Repeated(s, n, dist)
  BY <1>3 DEF Repeated
<1>5. Repeated(s, n, dist) \in [1 .. n -> Byte]
  <2>1. \A i \in 1 .. Len(s) : s[i] \in Byte
    OBVIOUS
  <2> QED
    BY <1>3, <2>1 DEF Repeated
<1> QED
  BY <1>4, <1>5, FunctionIsSeq

-----------------------------------------------------------------------------
(* The invariant, of a stream of which no byte was lost                      *)

Decoded == Len(bytes) - start

(* bufBytes collects a block, or has the window filled. *)
InBlock == pc = "block" \/ caller = "block"

(* How many of the filters were applied: those after them are in fl. *)
Applied == Len(marks) - Len(fl)

Types ==
  /\ bytes \in Seq(Byte) /\ start \in Nat /\ start <= Len(bytes)
  /\ marks \in Seq(Mark) /\ fl \in Seq(Queued)
  /\ size \in Nat /\ win \in [0 .. size - 1 -> Byte]
  /\ r \in Nat /\ w \in Nat /\ r <= w /\ w <= size
  /\ tot \in Nat /\ want \in Nat \cup {-1} /\ files \in Nat
  /\ outbuf \in Seq(Byte) /\ block \in Seq(Byte) /\ got \in Seq(Byte)
  /\ err \in {"nil", "eof", "error"} /\ ended \in {"no", "eof", "error"} /\ answer \in {"nil", "eof"}
  /\ pc \in {"idle", "next", "bytes", "block", "fill"} /\ caller \in {"none", "bytes", "block"}

(* Before a file is begun in the window of the last one, that file has left no
   filter; a Read that is under way had no bytes left over. *)
Places ==
  /\ pc = "fill" <=> caller # "none"
  /\ pc # "next" => size >= MinWindow
  /\ pc = "next" /\ solid => fl = << >>
  /\ ~InBlock => block = << >>
  /\ InBlock => fl # << >> /\ fl[1].offset = 0 /\ Len(block) <= fl[1].length
  /\ pc \in {"bytes", "block", "fill"} /\ want # -1 => outbuf = << >>
  /\ pc = "idle" => want = 0

(* The decoder goes on until the file has ended, with every block of it. *)
Ends ==
  /\ err # "nil" => err = ended
  /\ ended = "error" => err = "error"
  /\ pc = "fill" /\ ended = "eof" => err = "eof"
  /\ answer = "eof" => ended = "eof" /\ Len(got) = Decoded
  /\ ended = "eof" => \A i \in 1 .. Len(marks) : marks[i].from + marks[i].length <= Decoded

(* Blocks are the same, or one of them ends before the other begins.         *)
SameBlock(m, n) == m.from = n.from /\ m.length = n.length

Ordered(ms) ==
  \A i, j \in 1 .. Len(ms) : i < j => SameBlock(ms[i], ms[j]) \/ ms[i].from + ms[i].length <= ms[j].from

(* What was given, or is collected, or is in the window yet, is all of it.   *)
Position == Decoded = tot + Len(block) + (w - r)

(* The filters that are queued are the last ones, each so far behind the one before. *)
Waiting ==
  /\ Len(fl) <= Len(marks)
  /\ \A i \in 1 .. Len(fl) :
       /\ fl[i].length = marks[Applied + i].length
       /\ fl[i].offset = marks[Applied + i].from - (IF i = 1 THEN tot ELSE marks[Applied + i - 1].from)

(* The others are of blocks that were given, or of the one that is collected. *)
Done ==
  \A i \in 1 .. Applied :
    \/ marks[i].from + marks[i].length <= tot
    \/ InBlock /\ marks[i].from = tot /\ marks[i].length = Len(block)

(* A block has been through the filters that were applied. *)
BlockInv ==
  InBlock => \A k \in 1 .. Len(block) :
    block[k] = Through(bytes[start + tot + k], tot + k, SubSeq(marks, 1, Applied))

(* s is the beginning of the file that was packed as bs, from st on, with the
   filters ms. *)
Given(s, bs, st, ms) ==
  Len(s) <= Len(bs) - st /\ \A k \in 1 .. Len(s) : s[k] = Through(bs[st + k], k, ms)

(* Reads have given the beginning of the file; and unless the rest of it is
   discarded, what they gave and what is left over are all that was taken. *)
DeliverInv ==
  /\ Given(got, bytes, start, marks)
  /\ want # -1 /\ pc # "next" => Given(got \o outbuf, bytes, start, marks) /\ Len(got) + Len(outbuf) = tot

Working ==
  /\ Types /\ Places /\ Ends
  /\ Holds(win, size, w, bytes) /\ Ordered(marks)
  /\ pc # "next" => Position /\ Waiting /\ Done
  /\ BlockInv /\ DeliverInv

(* A file that was refused is not read on, nor another one after it.         *)
Refused ==
  /\ pc = "idle" /\ answer = "error" /\ ended = "error"
  /\ bytes \in Seq(Byte) /\ start \in Nat /\ marks \in Seq(Mark) /\ got \in Seq(Byte)
  /\ start <= Len(bytes) /\ Given(got, bytes, start, marks)

DwInv == lost = "no" => Working \/ Refused

-----------------------------------------------------------------------------
(* What was given stays so when more is decoded, *)
LEMMA GivenOfMore ==
  ASSUME NEW s \in Seq(Byte), NEW bs \in Seq(Byte), NEW st \in Nat, NEW ms, NEW new \in Seq(Byte),
         Given(s, bs, st, ms)
  PROVE  Given(s, bs \o new, st, ms)
<1>1. /\ Len(bs \o new) = Len(bs) + Len(new) /\ Len(new) \in Nat /\ Len(bs) \in Nat /\ Len(s) \in Nat
      /\ \A i \in 1 .. Len(bs) : (bs \o new)[i] = bs[i]
  OBVIOUS
<1>2. \A k \in 1 .. Len(s) : st + k \in 1 .. Len(bs)
  BY <1>1 DEF Given
<1>3. \A k \in 1 .. Len(s) : (bs \o new)[st + k] = bs[st + k]
  BY <1>1, <1>2
<1> QED
  BY <1>1, <1>3 DEF Given

(* when a filter is queued for a block that is not yet decoded, *)
LEMMA GivenOfMark ==
  ASSUME NEW s \in Seq(Byte), NEW bs \in Seq(Byte), NEW st \in Nat, NEW ms \in Seq(Mark),
         NEW m \in Mark, Len(bs) - st <= m.from, Given(s, bs, st, ms)
  PROVE  Given(s, bs, st, Append(ms, m))
<1>1. Len(s) \in Nat /\ Len(bs) \in Nat /\ m.from \in Nat
  BY DEF Mark
<1>2. ASSUME NEW k \in 1 .. Len(s)
      PROVE  s[k] = Through(bs[st + k], k, Append(ms, m))
  <2>1. k \in Int /\ k <= Len(bs) - st /\ st + k \in 1 .. Len(bs)
    BY <1>1 DEF Given
  <2>2. bs[st + k] \in Byte
    BY <2>1
  <2>3. Through(bs[st + k], k, Append(ms, m)) = ThroughOne(Through(bs[st + k], k, ms), k, m)
    BY <2>1, <2>2, ThroughNext
  <2>4. ~(m.from < k)
    BY <1>1, <2>1
  <2> QED
    BY <2>3, <2>4 DEF ThroughOne, Given
<1> QED
  BY <1>2 DEF Given

(* and when what follows is given too. *)
LEMMA GivenTogether ==
  ASSUME NEW s \in Seq(Byte), NEW t \in Seq(Byte), NEW bs \in Seq(Byte), NEW st \in Nat, NEW ms,
         Given(s, bs, st, ms), Len(s) + Len(t) <= Len(bs) - st,
         \A k \in 1 .. Len(t) : t[k] = Through(bs[st + Len(s) + k], Len(s) + k, ms)
  PROVE  Given(s \o t, bs, st, ms)
<1>1. /\ Len(s \o t) = Len(s) + Len(t) /\ Len(s) \in Nat /\ Len(t) \in Nat
      /\ \A i \in 1 .. Len(s) + Len(t) : (s \o t)[i] = IF i <= Len(s) THEN s[i] ELSE t[i - Len(s)]
  OBVIOUS
<1>2. ASSUME NEW i \in 1 .. Len(s) + Len(t)
      PROVE  (s \o t)[i] = Through(bs[st + i], i, ms)
  <2>1. CASE i <= Len(s)
    BY <1>1, <2>1 DEF Given
  <2>2. CASE ~(i <= Len(s))
    <3> DEFINE k == i - Len(s)
    <3>1. k \in 1 .. Len(t) /\ Len(s) + k = i /\ st + Len(s) + k = st + i
      BY <1>1, <2>2
    <3>2. (s \o t)[i] = t[k]
      BY <1>1, <2>2
    <3> HIDE DEF k
    <3>3. t[k] = Through(bs[st + Len(s) + k], Len(s) + k, ms)
      BY <3>1
    <3> QED
      BY <3>1, <3>2, <3>3
  <2> QED
    BY <2>1, <2>2
<1> QED
  BY <1>1, <1>2 DEF Given

LEMMA GivenOfPart ==
  ASSUME NEW s \in Seq(Byte), NEW bs \in Seq(Byte), NEW st, NEW ms, Given(s, bs, st, ms),
         NEW t \in Seq(Byte), Len(t) <= Len(s), \A i \in 1 .. Len(t) : t[i] = s[i], Len(bs) - st \in Int
  PROVE  Given(t, bs, st, ms)
<1>1. Len(s) \in Nat /\ Len(t) \in Nat
  OBVIOUS
<1> QED
  BY <1>1 DEF Given

-----------------------------------------------------------------------------
(* The decoder *)

(* It decodes more, a byte or a copy. *)
LEMMA DecodesKeeps ==
  ASSUME Working, Decoding, NEW new \in Seq(Byte), w + Len(new) <= size,
         bytes' = bytes \o new, win' = Write(new), w' = w + Len(new),
         UNCHANGED <<solid, files, start, marks, size, r, fl, streamVars, callVars>>
  PROVE  Working'
<1> USE DEF streamVars, callVars
<1>0. /\ Len(new) \in Nat /\ Len(bytes) \in Nat /\ size \in Nat \ {0} /\ pc = "fill" /\ err = "nil" /\ pc # "next"
      /\ bytes' \in Seq(Byte) /\ Len(bytes') = Len(bytes) + Len(new)
      /\ \A i \in 1 .. Len(bytes) : bytes'[i] = bytes[i]
  BY DEF Working, Types, Decoding, NotFull
<1>1. win' \in [0 .. size - 1 -> Byte] /\ Holds(win, size, w, bytes)'
  BY <1>0, WriteHolds DEF Working, Types
<1>2. Types'
  BY <1>0, <1>1 DEF Working, Types
<1>3. Places'
  BY DEF Working, Places, InBlock
<1>4. Ends'
  BY <1>0 DEF Working, Types, Ends
<1>5. Ordered(marks)'
  BY DEF Working
<1>6. Position'
  <2>1. Len(bytes) - start = tot + Len(block) + (w - r)
    BY <1>0 DEF Working, Position, Decoded
  <2>2. start \in Nat /\ tot \in Nat /\ Len(block) \in Nat /\ w \in Nat /\ r \in Nat
    BY DEF Working, Types
  <2>3. Len(bytes') - start = tot + Len(block) + (w' - r)
    <3>1. Len(bytes') = Len(bytes) + Len(new) /\ w' = w + Len(new) /\ Len(new) \in Nat /\ Len(bytes) \in Nat
      BY <1>0
    <3> QED
      BY ONLY <2>1, <2>2, <3>1
  <2> QED
    BY <2>3 DEF Position, Decoded
<1>7. Waiting' /\ Done'
  BY <1>0 DEF Working, Waiting, Done, Applied, InBlock
<1>8. BlockInv'
  <2>1. ASSUME NEW k \in 1 .. Len(block), InBlock
        PROVE  bytes'[start + tot + k] = bytes[start + tot + k]
    <3>1. start \in Nat /\ tot \in Nat /\ Len(block) \in Nat /\ w - r \in Nat
      BY DEF Working, Types
    <3>2. Len(bytes) - start = tot + Len(block) + (w - r)
      BY <1>0 DEF Working, Position, Decoded
    <3>3. start + tot + k \in 1 .. Len(bytes)
      BY <1>0, <3>1, <3>2
    <3> QED
      BY <1>0, <3>3
  <2>2. BlockInv
    BY DEF Working
  <2> QED
    BY <2>1, <2>2 DEF BlockInv, InBlock, Applied
<1>9. DeliverInv'
  <2>1. got \in Seq(Byte) /\ outbuf \in Seq(Byte) /\ got \o outbuf \in Seq(Byte) /\ bytes \in Seq(Byte) /\ start \in Nat
    BY DEF Working, Types
  <2>2. \A s \in Seq(Byte) : Given(s, bytes, start, marks) => Given(s, bytes \o new, start, marks)
    BY <2>1, GivenOfMore
  <2>3. DeliverInv
    BY DEF Working
  <2> QED
    BY <2>1, <2>2, <2>3 DEF DeliverInv
<1> QED
  BY <1>0, <1>1, <1>2, <1>3, <1>4, <1>5, <1>6, <1>7, <1>8, <1>9 DEF Working

LEMMA LiteralKeeps == ASSUME Working, Literal PROVE Working'
<1> DEFINE byte == <<MaxBytes * files + Len(bytes)>>
           new == <<byte>>
<1>1. byte \in Byte
  <2>1. MaxBytes \in Int /\ files \in Int /\ Len(bytes) \in Int
    BY WindowAssumption DEF Working, Types
  <2>2. MaxBytes * files + Len(bytes) \in Int
    BY <2>1
  <2> QED
    BY <2>2 DEF Byte
<1>2. new \in Seq(Byte) /\ Len(new) = 1 /\ bytes \in Seq(Byte)
  BY <1>1 DEF Working, Types
<1>3. bytes' = Append(bytes, byte) /\ win' = Write(new) /\ w' = w + 1
  BY DEF Literal
<1>4. Append(bytes, byte) = bytes \o new
  <2> HIDE DEF byte
  <2> QED
    BY <1>1, <1>2
<1>5. w + 1 <= size
  BY DEF Literal, Decoding, NotFull, Working, Types
<1>6. Decoding /\ UNCHANGED <<solid, files, start, marks, size, r, fl, streamVars, callVars>>
  BY DEF Literal
<1> HIDE DEF new, byte
<1> QED
  BY <1>2, <1>3, <1>4, <1>5, <1>6, DecodesKeeps

LEMMA MatchKeeps ==
  ASSUME Working, lost' = "no", NEW length \in 2 .. MaxMatch, NEW offset \in 1 .. size, Match(length, offset)
  PROVE  Working'
<1> DEFINE copied == Repeated(History(offset), Smaller(length % size, size - w), offset)
           new == Repeated(bytes, length, offset)
<1>1. /\ Decoding /\ offset <= Len(bytes) /\ bytes' = bytes \o new
      /\ win' = Write(copied) /\ w' = w + Len(copied) /\ ~(w + length > size)
      /\ UNCHANGED <<solid, files, start, marks, size, r, fl, streamVars, callVars>>
  BY Zenon DEF Match, CopyBytes
<1>2. size \in Nat \ {0} /\ w \in Nat /\ length \in Nat /\ length < size /\ w \in 0 .. size /\ w + length <= size
  <2>1. size \in Nat /\ w \in Nat /\ w <= size /\ size >= MinWindow
    BY <1>1 DEF Working, Types, Places, Decoding
  <2>2. MaxMatch \in Nat /\ MinWindow \in Nat \ {0} /\ MaxMatch < MinWindow
    BY WindowAssumption
  <2> HIDE DEF copied, new
  <2> QED
    BY <1>1, <2>1, <2>2
<1>3. length % size = length /\ Smaller(length % size, size - w) = length
  <2>1. length % size = length
    BY <1>2
  <2> QED
    BY <1>1, <1>2, <2>1 DEF Smaller
<1>4. copied = new /\ new \in Seq(Byte) /\ Len(new) = length
  <2>1. win \in [0 .. size - 1 -> Byte] /\ bytes \in Seq(Byte) /\ Holds(win, size, w, bytes)
    BY DEF Working, Types
  <2> QED
    BY <1>1, <1>2, <1>3, <2>1, CopyIs
<1> HIDE DEF copied, new
<1> QED
  BY <1>1, <1>2, <1>4, DecodesKeeps

(* It queues a filter.                                                       *)
LEMMA QueueKeeps ==
  ASSUME Working, Decoding, NEW m \in Mark, Decoded <= m.from,
         \A i \in 1 .. Len(marks) : SameBlock(marks[i], m) \/ marks[i].from + marks[i].length <= m.from,
         NEW q \in Queued, q.length = m.length,
         q.offset = m.from - (IF fl = << >> THEN tot ELSE marks[Len(marks)].from),
         fl' = Append(fl, q), marks' = Append(marks, m),
         UNCHANGED <<solid, files, bytes, start, windowVars, err, ended, tot, outbuf, dec, block, callVars>>
  PROVE  Working'
<1> USE DEF windowVars, callVars
<1>0. /\ pc = "fill" /\ err = "nil" /\ pc # "next" /\ marks \in Seq(Mark) /\ fl \in Seq(Queued)
      /\ Len(marks) \in Nat /\ Len(fl) \in Nat /\ Len(fl) <= Len(marks)
      /\ marks' \in Seq(Mark) /\ Len(marks') = Len(marks) + 1 /\ fl' \in Seq(Queued) /\ Len(fl') = Len(fl) + 1
      /\ \A i \in 1 .. Len(marks) : marks'[i] = marks[i]
      /\ marks'[Len(marks) + 1] = m
      /\ \A i \in 1 .. Len(fl) : fl'[i] = fl[i]
      /\ fl'[Len(fl) + 1] = q
  BY DEF Working, Types, Decoding, Waiting
<1>1. Applied' = Applied /\ Applied \in 0 .. Len(marks) /\ Applied + Len(fl) = Len(marks) /\ InBlock' = InBlock
  BY <1>0 DEF Applied, InBlock
<1>2. Types'
  BY <1>0 DEF Working, Types
<1>3. Places'
  <2>1. InBlock => fl' # << >> /\ fl'[1] = fl[1]
    <3>1. InBlock => Len(fl) # 0
      BY <1>0 DEF Working, Places
    <3> QED
      BY <1>0, <3>1
  <2> QED
    BY <1>0, <1>1, <2>1 DEF Working, Places
<1>4. Ends'
  BY <1>0 DEF Working, Types, Ends
<1>5. Holds(win, size, w, bytes)'
  BY DEF Working
<1>6. Ordered(marks)'
  <2>1. ASSUME NEW i \in 1 .. Len(marks) + 1, NEW j \in 1 .. Len(marks) + 1, i < j
        PROVE  SameBlock(marks'[i], marks'[j]) \/ marks'[i].from + marks'[i].length <= marks'[j].from
    <3>1. CASE j = Len(marks) + 1
      BY <1>0, <2>1, <3>1
    <3>2. CASE j # Len(marks) + 1
      <4>1. i \in 1 .. Len(marks) /\ j \in 1 .. Len(marks)
        <5>1. Len(marks) \in Nat /\ i \in 1 .. Len(marks) + 1 /\ j \in 1 .. Len(marks) + 1 /\ i < j /\ j # Len(marks) + 1
          BY <1>0, <2>1, <3>2
        <5> QED
          BY ONLY <5>1
      <4>2. SameBlock(marks[i], marks[j]) \/ marks[i].from + marks[i].length <= marks[j].from
        BY <2>1, <4>1 DEF Working, Ordered
      <4> QED
        BY <1>0, <4>1, <4>2
    <3> QED
      BY <3>1, <3>2
  <2> QED
    BY <1>0, <2>1 DEF Ordered
<1>7. Position'
  BY <1>0 DEF Working, Position, Decoded
<1>8. Waiting'
  <2>1. ASSUME NEW i \in 1 .. Len(fl) + 1
        PROVE  /\ fl'[i].length = marks'[Applied + i].length
               /\ fl'[i].offset = marks'[Applied + i].from - (IF i = 1 THEN tot ELSE marks'[Applied + i - 1].from)
    <3>1. CASE i = Len(fl) + 1
      <4>1. Applied + i = Len(marks) + 1 /\ Applied + i - 1 = Len(marks) /\ (i = 1 <=> fl = << >>)
        <5> DEFINE p == Applied
                   l == Len(fl)
                   n == Len(marks)
        <5>1. (fl = << >> <=> l = 0) /\ p \in Nat /\ l \in Nat /\ n \in Nat /\ p + l = n /\ i = l + 1
          BY <1>0, <1>1, <3>1
        <5> HIDE DEF p, l, n
        <5>2. p + i = n + 1 /\ p + i - 1 = n /\ (i = 1 <=> l = 0)
          BY ONLY <5>1
        <5> QED
          BY <5>1, <5>2 DEF p, l, n
      <4>2. i # 1 => marks'[Len(marks)] = marks[Len(marks)]
        BY <1>0, <1>1, <3>1
      <4> QED
        BY <1>0, <3>1, <4>1, <4>2
    <3>2. CASE i # Len(fl) + 1
      <4>1. i \in 1 .. Len(fl) /\ Applied + i \in 1 .. Len(marks) /\ (i # 1 => Applied + i - 1 \in 1 .. Len(marks))
        BY <1>0, <1>1, <3>2
      <4>2. /\ fl[i].length = marks[Applied + i].length
            /\ fl[i].offset = marks[Applied + i].from - (IF i = 1 THEN tot ELSE marks[Applied + i - 1].from)
        BY <1>0, <4>1 DEF Working, Waiting
      <4> QED
        BY <1>0, <4>1, <4>2
    <3> QED
      BY <3>1, <3>2
  <2>2. Len(fl') <= Len(marks') /\ 1 .. Len(fl') = 1 .. Len(fl) + 1
    BY <1>0
  <2> QED
    BY <1>0, <1>1, <2>1, <2>2, Zenon DEF Waiting
<1>9. Done'
  <2>1. \A i \in 1 .. Applied : marks'[i] = marks[i]
    BY <1>0, <1>1
  <2>2. Done /\ UNCHANGED <<tot, block>>
    BY <1>0 DEF Working
  <2> QED
    BY <1>1, <2>1, <2>2 DEF Done
<1>10. BlockInv'
  <2>1. SubSeq(marks', 1, Applied) = SubSeq(marks, 1, Applied)
    BY <1>0, <1>1
  <2> QED
    BY <1>1, <2>1 DEF Working, BlockInv
<1>11. DeliverInv'
  <2>1. got \in Seq(Byte) /\ outbuf \in Seq(Byte) /\ got \o outbuf \in Seq(Byte) /\ bytes \in Seq(Byte) /\ start \in Nat
    BY DEF Working, Types
  <2>2. \A s \in Seq(Byte) : Given(s, bytes, start, marks) => Given(s, bytes, start, Append(marks, m))
    BY <1>0, <2>1, GivenOfMark DEF Decoded
  <2>3. DeliverInv
    BY DEF Working
  <2> QED
    BY <2>1, <2>2, <2>3 DEF DeliverInv
<1> QED
  BY <1>0, <1>2, <1>3, <1>4, <1>5, <1>6, <1>7, <1>8, <1>9, <1>10, <1>11 DEF Working

(* The filters that are queued, and so the sum of what they are apart.       *)
LEMMA SumIs ==
  ASSUME Types, Waiting
  PROVE  Sum(SubSeq(fl, 1, Len(fl))) = (IF fl = << >> THEN tot ELSE marks[Len(marks)].from) - tot
<1> DEFINE n == Len(fl)
           at == [i \in 0 .. n |-> IF i = 0 THEN tot ELSE marks[Applied + i].from]
<1>1. fl \in Seq(Queued) /\ n \in Nat /\ Len(marks) \in Nat /\ n <= Len(marks) /\ tot \in Int /\ (fl = << >> <=> n = 0)
  BY DEF Types, Waiting
<1>2. /\ Applied \in Nat /\ Applied + n = Len(marks) /\ \A i \in 1 .. n : Applied + i \in 1 .. Len(marks)
  BY <1>1 DEF Applied
<1>3. \A i \in 1 .. Len(marks) : marks[i].from \in Int
  <2>1. \A i \in 1 .. Len(marks) : marks[i] \in Mark
    BY DEF Types
  <2> QED
    BY <2>1 DEF Mark
<1>4. at \in [0 .. n -> Int]
  <2> HIDE DEF n
  <2> QED
    BY <1>1, <1>2, <1>3
<1>5. ASSUME NEW i \in 1 .. n PROVE fl[i].offset = at[i] - at[i - 1]
  <2>1. fl[i].offset = marks[Applied + i].from - (IF i = 1 THEN tot ELSE marks[Applied + i - 1].from)
    BY DEF Waiting
  <2>2. i \in 0 .. n /\ i - 1 \in 0 .. n /\ i # 0 /\ (i = 1 <=> i - 1 = 0) /\ Applied + i - 1 = Applied + (i - 1)
    BY <1>1, <1>2
  <2> HIDE DEF n
  <2>3. at[i] = marks[Applied + i].from /\ at[i - 1] = IF i = 1 THEN tot ELSE marks[Applied + (i - 1)].from
    BY <2>2
  <2> QED
    BY <2>1, <2>2, <2>3
<1>6. at[0] = tot /\ at[n] = IF fl = << >> THEN tot ELSE marks[Len(marks)].from
  <2>1. 0 \in 0 .. n /\ n \in 0 .. n
    BY <1>1
  <2> HIDE DEF n
  <2> QED
    BY <1>1, <1>2, <2>1
<1> HIDE DEF at
<1>7. Sum(SubSeq(fl, 1, n)) = at[n] - at[0]
  <2>1. n \in 0 .. Len(fl)
    BY <1>1
  <2> QED
    BY <1>1, <1>4, <1>5, <2>1, SumOfDifferences
<1> QED
  BY <1>6, <1>7

LEMMA BlockOf ==
  ASSUME marks \in Seq(Mark), NEW i \in 1 .. Len(marks)
  PROVE  /\ marks[i] \in Mark /\ marks[i].from \in Nat /\ marks[i].length \in Nat \ {0}
         /\ <<marks[i].from, marks[i].from + marks[i].length>> \in Blocks
<1>1. marks[i] \in Mark /\ DOMAIN marks = 1 .. Len(marks)
  OBVIOUS
<1>2. marks[i] \in ToSet(marks)
  BY <1>1 DEF ToSet
<1> QED
  BY <1>1, <1>2 DEF Mark, Blocks

LEMMA FilterKeeps ==
  ASSUME Working, lost' = "no", NEW length \in 1 .. size - 1, NEW offset \in 0 .. size - 1, Filter(offset, length)
  PROVE  Working'
<1> DEFINE from == Decoded + offset
           m == [from |-> from, length |-> length]
           base == IF fl = << >> THEN tot ELSE marks[Len(marks)].from
           far == offset + w - r - Sum(SubSeq(fl, 1, Len(fl)))
<1>1. /\ Decoding /\ pc = "fill" /\ err = "nil" /\ pc # "next"
      /\ UNCHANGED <<solid, files, bytes, start, matches, windowVars, tot, outbuf, dec, block, callVars>>
      /\ \A b \in Blocks : b = <<from, from + length>> \/ b[2] <= from
      /\ QueueFilter(offset, m)
  BY DEF Filter, Decoding, Decoded
<1>2. /\ Len(bytes) \in Nat /\ start \in Nat /\ start <= Len(bytes) /\ Decoded \in Nat /\ offset \in Nat
      /\ length \in Nat \ {0}
      /\ marks \in Seq(Mark) /\ Len(marks) \in Nat /\ fl \in Seq(Queued) /\ Len(fl) \in Nat
      /\ Len(fl) <= Len(marks)
      /\ (fl = << >> <=> Len(fl) = 0)
      /\ w \in Nat /\ r \in Nat /\ r <= w /\ size \in Nat /\ length < size /\ tot \in Nat
      /\ block \in Seq(Byte) /\ Len(block) \in Nat
  BY <1>1 DEF Working, Types, Waiting, Decoded
<1>3. m \in Mark /\ Decoded <= m.from /\ m.from = from /\ m.length = length
  BY <1>2 DEF Mark
<1>4. ASSUME NEW i \in 1 .. Len(marks)
      PROVE  (SameBlock(marks[i], m) \/ marks[i].from + marks[i].length <= m.from) /\ marks[i].from <= m.from
  <2>1. <<marks[i].from, marks[i].from + marks[i].length>> \in Blocks
    BY <1>2, BlockOf
  <2>2. \/ marks[i].from = from /\ marks[i].from + marks[i].length = from + length
        \/ marks[i].from + marks[i].length <= from
    BY <1>1, <2>1
  <2>3. marks[i].from \in Nat /\ marks[i].length \in Nat
    BY <1>2, BlockOf
  <2>4. from \in Nat
    BY <1>2
  <2> HIDE DEF from, m
  <2>5. CASE marks[i].from + marks[i].length <= from
    BY ONLY <1>3, <2>3, <2>4, <2>5
  <2>6. CASE marks[i].from = from /\ marks[i].from + marks[i].length = from + length
    <3>1. marks[i].length = length
      BY <1>2, <2>3, <2>4, <2>6
    <3> QED
      BY <1>3, <2>4, <2>6, <3>1 DEF SameBlock
  <2> QED
    BY <2>2, <2>5, <2>6
<1>5. Sum(SubSeq(fl, 1, Len(fl))) = base - tot /\ base \in Nat /\ base <= from
  <2>1. Types /\ Waiting /\ Position
    BY <1>1 DEF Working
  <2>2. Sum(SubSeq(fl, 1, Len(fl))) = base - tot
    BY <2>1, SumIs
  <2>3. CASE fl = << >>
    BY <1>2, <2>1, <2>2, <2>3 DEF Position
  <2>4. CASE fl # << >>
    <3>1. Len(marks) \in 1 .. Len(marks)
      BY <1>2, <2>4
    <3>2. marks[Len(marks)].from \in Nat
      BY <1>2, <3>1, BlockOf
    <3> HIDE DEF from, m
    <3> QED
      BY <1>3, <1>4, <2>2, <2>4, <3>1, <3>2
  <2> QED
    BY <2>3, <2>4
<1>a. \/ err' = "error" /\ ended' = "error" /\ fl' = fl /\ marks' = marks
      \/ /\ fl' = Append(fl, [offset |-> (offset + w - r - Sum(SubSeq(fl, 1, Len(fl) + 1 - 1))) % size,
                              length |-> m.length % size])
         /\ marks' = Append(marks, m) /\ err' = err /\ ended' = ended
         /\ lost' = IF offset + w - r - Sum(SubSeq(fl, 1, Len(fl) + 1 - 1)) >= size THEN "far"
                    ELSE IF block # << >> THEN "inside" ELSE lost
  <2>1. QueueFilter(offset, m)
    BY <1>1
  <2> HIDE DEF m
  <2> QED
    BY <2>1 DEF QueueFilter
<1>6. CASE err' = "error" /\ ended' = "error" /\ fl' = fl /\ marks' = marks
  <2>1. Types'
    BY <1>1, <1>6 DEF Working, Types, windowVars, callVars
  <2>2. Places' /\ Holds(win, size, w, bytes)' /\ Ordered(marks)'
    BY <1>1, <1>6 DEF Working, Places, InBlock, windowVars, callVars
  <2>3. Ends'
    BY <1>1, <1>6 DEF Working, Ends, callVars
  <2>4. Position' /\ Waiting' /\ Done'
    BY <1>1, <1>6 DEF Working, Position, Waiting, Done, Decoded, Applied, InBlock, windowVars, callVars
  <2>5. BlockInv' /\ DeliverInv'
    BY <1>1, <1>6 DEF Working, BlockInv, DeliverInv, Applied, InBlock, callVars
  <2> QED
    BY <2>1, <2>2, <2>3, <2>4, <2>5 DEF Working
<1>7. CASE ~(err' = "error" /\ ended' = "error" /\ fl' = fl /\ marks' = marks)
  <2>1. /\ fl' = Append(fl, [offset |-> (offset + w - r - Sum(SubSeq(fl, 1, Len(fl) + 1 - 1))) % size,
                              length |-> m.length % size])
        /\ marks' = Append(marks, m) /\ UNCHANGED <<err, ended>>
        /\ lost' = IF offset + w - r - Sum(SubSeq(fl, 1, Len(fl) + 1 - 1)) >= size THEN "far"
                   ELSE IF block # << >> THEN "inside" ELSE lost
    BY <1>a, <1>7, Zenon
  <2>2. Len(fl) + 1 - 1 = Len(fl)
    BY <1>2
  <2>3. /\ fl' = Append(fl, [offset |-> far % size, length |-> length % size])
        /\ lost' = IF far >= size THEN "far" ELSE IF block # << >> THEN "inside" ELSE lost
    BY <1>3, <2>1, <2>2
  <2>4. block = << >> /\ ~(far >= size)
    BY <2>3
  <2>5. far = from - base
    <3>1. Decoded = tot + (w - r)
      BY <1>1, <1>2, <2>4 DEF Working, Position
    <3> HIDE DEF base
    <3> QED
      BY <1>2, <1>5, <3>1
  <2>6. far \in Nat /\ far < size /\ far % size = far /\ length % size = length
    <3>1. far \in Nat
      <4>1. from \in Nat
        BY <1>2
      <4> HIDE DEF far, from, base
      <4> QED
        BY <1>5, <2>5, <4>1
    <3> HIDE DEF far
    <3> QED
      BY <1>2, <2>4, <3>1
  <2> DEFINE q == [offset |-> far, length |-> length]
  <2>7. q \in Queued /\ q.length = m.length /\ q.offset = m.from - base
    BY <1>2, <1>3, <2>5, <2>6 DEF Queued
  <2>8. fl' = Append(fl, q)
    BY <2>3, <2>6
  <2>9. UNCHANGED <<solid, files, bytes, start, windowVars, err, ended, tot, outbuf, dec, block, callVars>>
    BY <1>1, <2>1
  <2>10. marks' = Append(marks, m)
    BY <2>1
  <2> HIDE DEF q, m, far, from
  <2> QED
    BY <1>1, <1>3, <1>4, <2>7, <2>8, <2>9, <2>10, QueueKeeps
<1> QED
  BY <1>6, <1>7

(* It ends. *)
LEMMA EndKeeps == ASSUME Working, End PROVE Working'
<1>1. /\ pc = "fill" /\ err = "nil" /\ err' \in {"eof", "error"} /\ ended' = err'
      /\ UNCHANGED <<packedVars, windowVars, fl, tot, outbuf, dec, block, callVars>>
      /\ err' = "eof" => \A b \in Blocks : b[2] <= Decoded
  BY DEF End, Decoding, Decoded
<1> USE DEF packedVars, windowVars, callVars
<1>2. Types'
  BY <1>1 DEF Working, Types
<1>3. Places' /\ Holds(win, size, w, bytes)' /\ Ordered(marks)'
  BY <1>1 DEF Working, Places, InBlock
<1>4. Ends'
  <2>1. answer # "eof"
    BY <1>1 DEF Working, Ends
  <2>2. ASSUME NEW i \in 1 .. Len(marks), err' = "eof"
        PROVE  marks[i].from + marks[i].length <= Decoded
    <3>1. marks \in Seq(Mark)
      BY DEF Working, Types
    <3>2. <<marks[i].from, marks[i].from + marks[i].length>> \in Blocks
      BY <3>1 DEF Blocks, ToSet
    <3> QED
      BY <1>1, <2>2, <3>2
  <2> QED
    BY <1>1, <2>1, <2>2 DEF Ends, Decoded
<1>5. Position' /\ Waiting' /\ Done'
  BY <1>1 DEF Working, Position, Waiting, Done, Decoded, Applied, InBlock
<1>6. BlockInv' /\ DeliverInv'
  BY <1>1 DEF Working, BlockInv, DeliverInv, Applied, InBlock
<1> QED
  BY <1>1, <1>2, <1>3, <1>4, <1>5, <1>6 DEF Working

-----------------------------------------------------------------------------
(* The reader *)

(* What is given of t, and what is left over of it, are t.                   *)
LEMMA Parts ==
  ASSUME NEW s \in Seq(Byte), NEW t \in Seq(Byte), NEW n \in Nat
  PROVE  LET a == SubSeq(t, 1, Smaller(n, Len(t)))
             b == SubSeq(t, n + 1, Len(t))
         IN  /\ s \o a \in Seq(Byte) /\ b \in Seq(Byte)
             /\ (s \o a) \o b = s \o t /\ Len(s \o a) + Len(b) = Len(s) + Len(t)
             /\ s \o t \in Seq(Byte) /\ Len(s \o a) <= Len(s \o t)
             /\ \A i \in 1 .. Len(s \o a) : (s \o a)[i] = (s \o t)[i]
<1> DEFINE a == SubSeq(t, 1, Smaller(n, Len(t)))
           b == SubSeq(t, n + 1, Len(t))
<1>1. Len(s) \in Nat /\ Len(t) \in Nat
  OBVIOUS
<1>2. a \in Seq(Byte) /\ b \in Seq(Byte)
  BY <1>1 DEF Smaller
<1>3. a \o b = t
  <2>1. CASE n <= Len(t)
    <3>1. a = SubSeq(t, 1, n)
      BY <1>1, <2>1 DEF Smaller
    <3>2. 1 \in 1 .. Len(t) + 1 /\ n \in 1 - 1 .. Len(t) /\ Len(t) \in n .. Len(t)
      BY <1>1, <2>1
    <3>3. SubSeq(t, 1, n) \o SubSeq(t, n + 1, Len(t)) = SubSeq(t, 1, Len(t))
      BY <3>2, ConcatAdjacentSubSeq
    <3>4. SubSeq(t, 1, Len(t)) = t
      BY SubSeqFull
    <3> QED
      BY <3>1, <3>3, <3>4
  <2>2. CASE ~(n <= Len(t))
    <3>1. a = SubSeq(t, 1, Len(t)) /\ b = << >>
      BY <1>1, <2>2 DEF Smaller
    <3>2. SubSeq(t, 1, Len(t)) = t /\ t \o << >> = t
      BY SubSeqFull, ConcatEmptySeq
    <3> QED
      BY <3>1, <3>2
  <2> QED
    BY <2>1, <2>2
<1> HIDE DEF a, b
<1>4. (s \o a) \o b = s \o (a \o b)
  BY <1>2, ConcatAssociative
<1>5. s \o a \in Seq(Byte) /\ s \o t \in Seq(Byte) /\ (s \o a) \o b = s \o t
  BY <1>2, <1>3, <1>4
<1> DEFINE u == s \o a
<1>6. u \in Seq(Byte) /\ u \o b = s \o t /\ Len(u) \in Nat /\ Len(b) \in Nat /\ Len(s \o t) = Len(s) + Len(t)
  BY <1>2, <1>5
<1> HIDE DEF u
<1>7. Len(u \o b) = Len(u) + Len(b) /\ \A i \in 1 .. Len(u) : (u \o b)[i] = u[i]
  BY <1>2, <1>6
<1>8. Len(u) + Len(b) = Len(s) + Len(t) /\ Len(u) <= Len(s \o t) /\ \A i \in 1 .. Len(u) : u[i] = (s \o t)[i]
  BY <1>6, <1>7
<1> QED
  BY <1>2, <1>5, <1>8 DEF a, b, u

LEMMA ReadKeeps == ASSUME Working, NEW n \in 1 .. MaxRead, Read(n) PROVE Working'
<1> USE DEF packedVars, windowVars
<1>1. /\ pc = "idle" /\ answer = "nil" /\ want = 0 /\ caller = "none" /\ ~InBlock /\ pc # "next" /\ n \in Nat
      /\ UNCHANGED <<packedVars, windowVars, fl, tot, err, dec, block, ended, caller, answer>>
  BY DEF Read, Working, Places, InBlock
<1>2. CASE outbuf # << >>
  <2>1. /\ got' = got \o SubSeq(outbuf, 1, Smaller(n, Len(outbuf)))
        /\ outbuf' = SubSeq(outbuf, n + 1, Len(outbuf)) /\ UNCHANGED <<pc, want>>
    BY <1>2 DEF Read
  <2>2. got \in Seq(Byte) /\ outbuf \in Seq(Byte) /\ bytes \in Seq(Byte) /\ Len(bytes) - start \in Int
    BY DEF Working, Types
  <2>3. /\ got' \in Seq(Byte) /\ outbuf' \in Seq(Byte)
        /\ got' \o outbuf' = got \o outbuf /\ Len(got') + Len(outbuf') = Len(got) + Len(outbuf)
        /\ got \o outbuf \in Seq(Byte) /\ Len(got') <= Len(got \o outbuf)
        /\ \A i \in 1 .. Len(got') : got'[i] = (got \o outbuf)[i]
    <3> DEFINE a == got \o SubSeq(outbuf, 1, Smaller(n, Len(outbuf)))
               b == SubSeq(outbuf, n + 1, Len(outbuf))
    <3>1. /\ a \in Seq(Byte) /\ b \in Seq(Byte)
          /\ a \o b = got \o outbuf /\ Len(a) + Len(b) = Len(got) + Len(outbuf)
          /\ got \o outbuf \in Seq(Byte) /\ Len(a) <= Len(got \o outbuf)
          /\ \A i \in 1 .. Len(a) : a[i] = (got \o outbuf)[i]
      BY <1>1, <2>2, Parts
    <3>2. got' = a /\ outbuf' = b
      BY <2>1
    <3> HIDE DEF a, b
    <3> QED
      BY <3>1, <3>2
  <2>4. DeliverInv'
    <3>1. Given(got \o outbuf, bytes, start, marks) /\ Len(got) + Len(outbuf) = tot
      BY <1>1 DEF Working, DeliverInv
    <3>2. Given(got', bytes, start, marks)
      BY <2>2, <2>3, <3>1, GivenOfPart
    <3> QED
      BY <1>1, <2>1, <2>3, <3>1, <3>2 DEF DeliverInv
  <2>5. Types'
    BY <1>1, <2>1, <2>3 DEF Working, Types
  <2>6. Places' /\ Holds(win, size, w, bytes)' /\ Ordered(marks)'
    BY <1>1, <2>1 DEF Working, Places, InBlock
  <2>7. Ends'
    BY <1>1, <2>1 DEF Working, Ends, Decoded
  <2>8. Position' /\ Waiting' /\ Done' /\ BlockInv'
    BY <1>1, <2>1 DEF Working, Position, Waiting, Done, BlockInv, Decoded, Applied, InBlock
  <2> QED
    BY <2>4, <2>5, <2>6, <2>7, <2>8 DEF Working
<1>3. CASE outbuf = << >>
  <2>1. pc' = "bytes" /\ want' = n /\ UNCHANGED <<got, outbuf>>
    BY <1>3 DEF Read
  <2>2. Types'
    BY <1>1, <2>1 DEF Working, Types
  <2>3. Places' /\ Holds(win, size, w, bytes)' /\ Ordered(marks)'
    BY <1>1, <1>3, <2>1 DEF Working, Places, InBlock
  <2>4. Ends'
    BY <1>1, <2>1 DEF Working, Ends, Decoded
  <2>5. Position' /\ Waiting' /\ Done' /\ BlockInv'
    BY <1>1, <2>1 DEF Working, Position, Waiting, Done, BlockInv, Decoded, Applied, InBlock
  <2>6. DeliverInv'
    BY <1>1, <2>1 DEF Working, DeliverInv
  <2> QED
    BY <2>2, <2>3, <2>4, <2>5, <2>6 DEF Working
<1> QED
  BY <1>2, <1>3

(* The rest of a file is discarded, or the window is begun anew.             *)
LEMMA NextKeeps == ASSUME Working, Next PROVE Working'
<1> USE DEF packedVars, windowVars, streamVars
<1>1. /\ pc = "idle" /\ want = 0 /\ caller = "none" /\ ~InBlock /\ pc # "next"
      /\ UNCHANGED <<packedVars, windowVars, fl, streamVars, caller, got, answer>>
      /\ \/ pc' = "bytes" /\ want' = -1
         \/ ~solid /\ pc' = "next" /\ want' = want
  BY DEF Next, Working, Places, InBlock
<1>2. Types'
  BY <1>1 DEF Working, Types
<1>3. Places' /\ Holds(win, size, w, bytes)' /\ Ordered(marks)'
  BY <1>1 DEF Working, Places, InBlock
<1>4. Ends'
  BY <1>1 DEF Working, Ends, Decoded
<1>5. Position' /\ Waiting' /\ Done' /\ BlockInv'
  BY <1>1 DEF Working, Position, Waiting, Done, BlockInv, Decoded, Applied, InBlock
<1>6. DeliverInv'
  BY <1>1 DEF Working, DeliverInv
<1> QED
  BY <1>2, <1>3, <1>4, <1>5, <1>6 DEF Working

(* The decoder has returned. *)
LEMMA FilledKeeps == ASSUME Working, Filled PROVE Working'
<1> USE DEF packedVars, windowVars, streamVars
<1>1. /\ pc = "fill" /\ caller \in {"bytes", "block"} /\ pc' = caller /\ caller' = "none" /\ pc # "next"
      /\ pc' # "next"
      /\ UNCHANGED <<packedVars, windowVars, fl, streamVars, want, got, answer>>
  BY DEF Filled, Working, Types, Places
<1>2. InBlock' = InBlock
  BY <1>1 DEF InBlock
<1>3. Types'
  BY <1>1 DEF Working, Types
<1>4. Places' /\ Holds(win, size, w, bytes)' /\ Ordered(marks)'
  BY <1>1, <1>2 DEF Working, Places
<1>5. Ends'
  BY <1>1 DEF Working, Ends, Decoded
<1>6. Position' /\ Waiting' /\ Done' /\ BlockInv'
  BY <1>1, <1>2 DEF Working, Position, Waiting, Done, BlockInv, Decoded, Applied
<1>7. DeliverInv'
  BY <1>1 DEF Working, DeliverInv
<1> QED
  BY <1>3, <1>4, <1>5, <1>6, <1>7 DEF Working

(* The first filter that is queued *)
LEMMA FirstWaiting ==
  ASSUME Types, Waiting, fl # << >>
  PROVE  LET m == marks[Applied + 1] IN
         /\ Applied \in Nat /\ Applied + 1 \in 1 .. Len(marks) /\ Len(fl) \in Nat \ {0} /\ fl[1] \in Queued
         /\ m \in Mark /\ m.from \in Nat /\ m.length \in Nat \ {0}
         /\ fl[1].length = m.length /\ fl[1].offset \in Nat /\ m.from = tot + fl[1].offset
<1>1. /\ marks \in Seq(Mark) /\ fl \in Seq(Queued) /\ tot \in Nat /\ Len(marks) \in Nat
      /\ Len(fl) \in Nat \ {0} /\ Len(fl) <= Len(marks)
  BY DEF Types, Waiting
<1>2. Applied \in Nat /\ Applied + 1 \in 1 .. Len(marks) /\ 1 \in 1 .. Len(fl)
  BY <1>1 DEF Applied
<1>3. fl[1] \in Queued
  BY <1>1, <1>2
<1>4. fl[1].length = marks[Applied + 1].length /\ fl[1].offset = marks[Applied + 1].from - tot
  BY <1>2 DEF Waiting
<1>5. marks[Applied + 1] \in Mark /\ marks[Applied + 1].from \in Nat /\ marks[Applied + 1].length \in Nat \ {0}
  BY <1>1, <1>2, BlockOf
<1>6. fl[1].offset \in Nat
  BY <1>3 DEF Queued
<1>7. marks[Applied + 1].from = tot + fl[1].offset
  BY <1>1, <1>4, <1>5, <1>6
<1> QED
  BY <1>1, <1>2, <1>3, <1>4, <1>5, <1>6, <1>7

(* and a later one. *)
LEMMA LaterBlock ==
  ASSUME marks \in Seq(Mark), Ordered(marks), NEW i \in 1 .. Len(marks), NEW j \in 1 .. Len(marks), i <= j
  PROVE  marks[i].from <= marks[j].from
<1>1. marks[i].from \in Nat /\ marks[i].length \in Nat /\ marks[j].from \in Nat
  BY BlockOf
<1>2. i = j \/ marks[i].from = marks[j].from \/ marks[i].from + marks[i].length <= marks[j].from
  BY DEF Ordered, SameBlock
<1> QED
  BY <1>1, <1>2

(* Of a file that has ended, the block of a filter that is queued is in the window yet. *)
LEMMA EndedBehind ==
  ASSUME Working, pc # "next", ended = "eof", w = r, fl # << >>
  PROVE  Len(block) >= fl[1].length /\ block # << >>
<1>1. /\ Types /\ Waiting /\ tot \in Nat /\ Len(block) \in Nat /\ block \in Seq(Byte)
      /\ Decoded = tot + Len(block) + (w - r) /\ w \in Nat
  BY DEF Working, Types, Position
<1>2. /\ Applied + 1 \in 1 .. Len(marks)
      /\ marks[Applied + 1].from \in Nat /\ marks[Applied + 1].length \in Nat \ {0}
      /\ fl[1].length = marks[Applied + 1].length /\ fl[1].offset \in Nat
      /\ marks[Applied + 1].from = tot + fl[1].offset
  BY <1>1, FirstWaiting
<1>3. marks[Applied + 1].from + marks[Applied + 1].length <= Decoded
  BY <1>2 DEF Working, Ends
<1>4. Len(block) >= fl[1].length /\ Len(block) # 0
  BY <1>1, <1>2, <1>3, SMTT(30)
<1> QED
  BY <1>1, <1>4

(* fill is called. *)
LEMMA FillKeeps ==
  ASSUME Working, NEW from \in {"bytes", "block"}, NEW ready \in BOOLEAN,
         ready => w = r /\ (from = "block" => Len(block) < fl[1].length), Fill(from, ready)
  PROVE  Working' \/ Refused'
<1> USE DEF packedVars, windowVars
<1>1. /\ pc = from /\ pc # "next" /\ pc # "fill" /\ caller = "none" /\ w = r
      /\ (from = "block" => Len(block) < fl[1].length)
      /\ UNCHANGED <<packedVars, win, size, fl, tot, outbuf, dec, block, ended, got>>
      /\ size \in Nat \ {0} /\ w \in Nat
  <2>1. /\ pc = from /\ w = r /\ (from = "block" => Len(block) < fl[1].length)
        /\ UNCHANGED <<packedVars, win, size, fl, tot, outbuf, dec, block, ended, got>>
    BY Zenon DEF Fill
  <2>2. pc # "next" /\ pc # "fill" /\ caller = "none" /\ size >= MinWindow /\ size \in Nat /\ w \in Nat
    BY <2>1 DEF Working, Places, Types
  <2>3. MinWindow \in Nat \ {0}
    BY WindowAssumption
  <2>4. size \in Nat \ {0}
    BY <2>2, <2>3
  <2> QED
    BY <2>1, <2>2, <2>4
<1>2. CASE err = "nil"
  <2>1. /\ pc' = "fill" /\ caller' = from /\ err' = (IF ended = "eof" THEN "eof" ELSE "nil")
        /\ \/ w = size /\ r' = 0 /\ w' = 0
           \/ r' = r /\ w' = w
        /\ want' = want /\ answer' = answer
    BY <1>2 DEF Fill
  <2>2. InBlock' = InBlock /\ pc' # "next"
    BY <1>1, <2>1 DEF InBlock
  <2>3. Types'
    BY <1>1, <2>1 DEF Working, Types
  <2>4. Places' /\ Ordered(marks)'
    BY <1>1, <2>1, <2>2 DEF Working, Places
  <2>5. Ends'
    BY <1>1, <1>2, <2>1 DEF Working, Ends, Decoded
  <2>6. Holds(win, size, w, bytes)'
    <3>1. CASE w' = w
      BY <1>1, <3>1 DEF Working
    <3>2. CASE w = size /\ w' = 0
      <4>1. ASSUME NEW j \in 1 .. size
            PROVE  (0 + size - j) % size = (size + size - j) % size
        <5>1. 0 \in 0 .. size /\ size \in 0 .. size
          BY <1>1
        <5>2. (0 + size - j) % size = IF j <= 0 THEN 0 - j ELSE 0 + size - j
          BY <1>1, <5>1, PlaceBack
        <5>3. (size + size - j) % size = IF j <= size THEN size - j ELSE size + size - j
          BY <1>1, <5>1, PlaceBack
        <5> QED
          BY <1>1, <5>2, <5>3
      <4>2. Holds(win, size, size, bytes)
        BY <3>2 DEF Working
      <4>3. Holds(win, size, 0, bytes)
        BY <4>1, <4>2 DEF Holds
      <4> QED
        BY <1>1, <3>2, <4>3
    <3> QED
      BY <2>1, <3>1, <3>2
  <2>7. Position' /\ Waiting' /\ Done' /\ BlockInv'
    <3>1. w' - r' = w - r
      BY <1>1, <2>1
    <3> QED
      BY <1>1, <2>1, <2>2, <3>1 DEF Working, Position, Waiting, Done, BlockInv, Decoded, Applied
  <2>8. DeliverInv'
    BY <1>1, <2>1 DEF Working, DeliverInv
  <2> QED
    BY <2>3, <2>4, <2>5, <2>6, <2>7, <2>8 DEF Working
<1>3. CASE err = "error"
  <2>1. Return("error")
    BY <1>3 DEF Fill
  <2>2. ended = "error"
    BY <1>3 DEF Working, Ends
  <2> QED
    BY <1>1, <2>1, <2>2 DEF Return, Refused, Working, Types, DeliverInv
<1>4. CASE err = "eof"
  <2>1. ended = "eof"
    BY <1>4 DEF Working, Ends
  <2>2. from = "bytes" /\ ~InBlock
    <3>1. from # "block"
      <4>1. ASSUME from = "block" PROVE FALSE
        <5>1. fl # << >>
          BY <1>1, <4>1 DEF Working, Places, InBlock
        <5>2. Len(block) >= fl[1].length /\ Len(block) < fl[1].length
          BY <1>1, <2>1, <4>1, <5>1, EndedBehind
        <5>3. Len(block) \in Nat /\ fl[1].length \in Nat
          <6>1. Types /\ Waiting
            BY <1>1 DEF Working
          <6>2. fl[1].length \in Nat
            BY <5>1, <6>1, FirstWaiting
          <6> QED
            BY <6>1, <6>2 DEF Types
        <5> QED
          BY <5>2, <5>3
      <4> QED
        BY <4>1
    <3> QED
      BY <1>1, <3>1 DEF InBlock
  <2>3. block = << >> /\ fl = << >>
    BY <1>1, <2>1, <2>2, EndedBehind DEF Working, Places
  <2>4. /\ err' = "nil" /\ r' = r /\ w' = w
        /\ \/ want = -1 /\ pc' = "next" /\ UNCHANGED <<caller, want, answer>>
           \/ want # -1 /\ pc' = "idle" /\ caller' = "none" /\ want' = 0 /\ answer' = "eof"
    BY <1>4 DEF Fill, Return
  <2>5. ~InBlock' /\ caller' = "none"
    BY <1>1, <2>4 DEF InBlock
  <2>6. Types'
    BY <1>1, <2>4 DEF Working, Types
  <2>7. Places' /\ Holds(win, size, w, bytes)' /\ Ordered(marks)'
    BY <1>1, <2>3, <2>4, <2>5 DEF Working, Places
  <2>8. Position' /\ Waiting' /\ Done' /\ BlockInv'
    BY <1>1, <2>2, <2>4, <2>5 DEF Working, Position, Waiting, Done, BlockInv, Decoded, Applied
  <2>9. DeliverInv'
    BY <1>1, <2>4 DEF Working, DeliverInv
  <2>10. Ends'
    <3>1. want # -1 => Len(got) = Decoded
      <4>1. want # -1 => outbuf = << >> /\ Len(got) + Len(outbuf) = tot
        BY <1>1 DEF Working, Places, DeliverInv
      <4>2. Decoded = tot + Len(block) + (w - r) /\ Len(block) = 0
        BY <1>1, <2>3 DEF Working, Position
      <4>3. tot \in Nat /\ Len(got) \in Nat /\ Len(<< >>) = 0
        BY DEF Working, Types
      <4> QED
        BY <1>1, <4>1, <4>2, <4>3
    <3> QED
      BY <1>1, <2>1, <2>4, <3>1 DEF Working, Ends, Decoded
  <2> QED
    BY <2>6, <2>7, <2>8, <2>9, <2>10 DEF Working
<1> QED
  BY <1>2, <1>3, <1>4 DEF Working, Types

(* No filter is found to be invalid. *)
LEMMA MisplacedNever == ASSUME Working, Misplaced PROVE FALSE
<1>1. pc = "bytes" /\ fl # << >> /\ fl[1].offset < 0
  BY DEF Misplaced
<1>2. fl[1].offset \in Nat
  BY <1>1, FirstWaiting DEF Working
<1> QED
  BY <1>1, <1>2

(* A block begins. *)
LEMMA BlockBeginsKeeps == ASSUME Working, BlockBegins PROVE Working'
<1> USE DEF packedVars, windowVars
<1>1. /\ pc = "bytes" /\ caller = "none" /\ ~InBlock /\ block = << >> /\ fl # << >> /\ fl[1].offset = 0
      /\ pc' = "block" /\ block' = << >> /\ InBlock' /\ pc # "next"
      /\ UNCHANGED <<packedVars, windowVars, fl, tot, outbuf, err, dec, ended, caller, want, got, answer>>
  BY DEF BlockBegins, Working, Places, InBlock
<1>2. fl[1].length \in Nat
  BY <1>1, FirstWaiting DEF Working
<1>3. Types'
  BY <1>1 DEF Working, Types
<1>4. Places' /\ Holds(win, size, w, bytes)' /\ Ordered(marks)'
  BY <1>1, <1>2 DEF Working, Places
<1>5. Ends'
  BY <1>1 DEF Working, Ends, Decoded
<1>6. Position' /\ Waiting' /\ Done'
  BY <1>1 DEF Working, Position, Waiting, Done, Decoded, Applied
<1>7. BlockInv'
  BY <1>1 DEF BlockInv
<1>8. DeliverInv'
  BY <1>1 DEF Working, DeliverInv
<1> QED
  BY <1>3, <1>4, <1>5, <1>6, <1>7, <1>8 DEF Working

(* What the reader gives is the file.                                        *)
LEMMA GiveKeeps ==
  ASSUME Working, pc \in {"bytes", "block"}, NEW new \in Seq(Byte), tot + Len(new) <= Decoded,
         \A k \in 1 .. Len(new) : new[k] = Through(bytes[start + tot + k], tot + k, marks),
         Give(new), UNCHANGED packedVars
  PROVE  /\ DeliverInv' /\ tot' = tot + Len(new) /\ tot' \in Nat
         /\ got' \in Seq(Byte) /\ outbuf' \in Seq(Byte) /\ want' \in Nat \cup {-1}
         /\ caller' = "none" /\ answer' \in {"nil", "eof"} /\ (answer' = "eof" => answer = "eof" /\ got' = got)
         /\ \/ pc' = "bytes" /\ want' = -1
            \/ pc' = "idle" /\ want' = 0
<1> USE DEF packedVars
<1>1. /\ got \in Seq(Byte) /\ outbuf \in Seq(Byte) /\ bytes \in Seq(Byte) /\ start \in Nat /\ tot \in Nat
      /\ want \in Nat \cup {-1} /\ answer \in {"nil", "eof"} /\ caller = "none" /\ pc # "next" /\ Len(new) \in Nat
      /\ Len(bytes) - start \in Int /\ Given(got, bytes, start, marks)
  BY DEF Working, Types, Places, DeliverInv
<1>2. CASE want = -1
  <2>1. tot' = tot + Len(new) /\ pc' = "bytes" /\ UNCHANGED <<got, outbuf, caller, want, answer>>
    BY <1>2 DEF Give
  <2> QED
    BY <1>1, <1>2, <2>1 DEF DeliverInv
<1>3. CASE want # -1
  <2>0. want \in Nat /\ want >= 0
    BY <1>1, <1>3
  <2>1. outbuf = << >> /\ Len(got) = tot
    <3>1. outbuf = << >> /\ Len(got) + Len(outbuf) = tot
      BY <1>1, <1>3 DEF Working, Places, DeliverInv
    <3>2. Len(got) \in Nat
      BY <1>1
    <3> QED
      BY <3>1, <3>2
  <2>2. /\ tot' = tot + Len(new) /\ pc' = "idle" /\ caller' = "none" /\ want' = 0 /\ answer' = "nil"
        /\ got' = got \o SubSeq(new, 1, Smaller(want, Len(new))) /\ outbuf' = SubSeq(new, want + 1, Len(new))
    BY <2>0 DEF Give, Return
  <2>3. /\ got' \in Seq(Byte) /\ outbuf' \in Seq(Byte)
        /\ got' \o outbuf' = got \o new /\ Len(got') + Len(outbuf') = Len(got) + Len(new)
        /\ got \o new \in Seq(Byte) /\ Len(got') <= Len(got \o new)
        /\ \A i \in 1 .. Len(got') : got'[i] = (got \o new)[i]
    <3> DEFINE a == got \o SubSeq(new, 1, Smaller(want, Len(new)))
               b == SubSeq(new, want + 1, Len(new))
    <3>1. /\ a \in Seq(Byte) /\ b \in Seq(Byte)
          /\ a \o b = got \o new /\ Len(a) + Len(b) = Len(got) + Len(new)
          /\ got \o new \in Seq(Byte) /\ Len(a) <= Len(got \o new)
          /\ \A i \in 1 .. Len(a) : a[i] = (got \o new)[i]
      BY <1>1, <2>0, Parts
    <3>2. got' = a /\ outbuf' = b
      BY <2>2
    <3> HIDE DEF a, b
    <3> QED
      BY <3>1, <3>2
  <2>4. Given(got \o new, bytes, start, marks)
    <3>1. /\ Len(got) + Len(new) <= Len(bytes) - start
          /\ \A k \in 1 .. Len(new) : new[k] = Through(bytes[start + Len(got) + k], Len(got) + k, marks)
      BY <2>1 DEF Decoded
    <3> QED
      BY <1>1, <3>1, GivenTogether
  <2>5. Given(got', bytes, start, marks)
    BY <1>1, <2>3, <2>4, GivenOfPart
  <2>6. DeliverInv'
    BY <2>1, <2>2, <2>3, <2>4, <2>5 DEF DeliverInv
  <2> QED
    BY <1>1, <2>2, <2>3, <2>6, SMTT(30)
<1> QED
  BY <1>2, <1>3

LEMMA PlainKeeps == ASSUME Working, Plain PROVE Working'
<1> USE DEF packedVars
<1> DEFINE n == IF fl = << >> THEN w - r ELSE Smaller(fl[1].offset, w - r)
           new == Slice(r, n)
<1>1. /\ pc = "bytes" /\ caller = "none" /\ ~InBlock /\ block = << >> /\ pc # "next" /\ n > 0
      /\ Give(new) /\ r' = r + n
      /\ fl' = IF fl = << >> THEN fl ELSE [fl EXCEPT ![1].offset = @ - n]
      /\ UNCHANGED <<packedVars, win, size, w, err, dec, block, ended>>
  BY DEF Plain, Working, Places, InBlock
<1>2. /\ Types /\ Waiting /\ Ordered(marks) /\ Done /\ Holds(win, size, w, bytes)
      /\ Decoded = tot + (w - r) /\ tot \in Nat /\ start \in Nat /\ Len(bytes) \in Nat
      /\ size \in Nat \ {0} /\ w \in 0 .. size /\ w \in Nat /\ r \in Nat /\ r <= w /\ Len(marks) \in Nat
      /\ Len(fl) \in Nat
  <2>1. /\ Types /\ Waiting /\ Ordered(marks) /\ Done /\ Holds(win, size, w, bytes)
        /\ Decoded = tot + Len(block) + (w - r) /\ size >= MinWindow
    BY <1>1 DEF Working, Position, Places
  <2>2. Len(block) = 0 /\ MinWindow \in Nat \ {0}
    BY <1>1, WindowAssumption
  <2> HIDE DEF n, new
  <2> QED
    BY <2>1, <2>2 DEF Types
<1>3. n \in 1 .. w - r /\ (fl # << >> => n <= fl[1].offset)
  <2>1. CASE fl = << >>
    BY <1>1, <1>2, <2>1
  <2>2. CASE fl # << >>
    <3>1. fl[1].offset \in Nat
      BY <1>2, <2>2, FirstWaiting
    <3> QED
      BY <1>1, <1>2, <2>2, <3>1, SMTT(30) DEF Smaller
  <2> QED
    BY <2>1, <2>2
<1>4. /\ new \in Seq(Byte) /\ Len(new) = n
      /\ \A k \in 1 .. n : new[k] = bytes[start + tot + k] /\ start + tot + k \in 1 .. Len(bytes)
  <2>1. /\ bytes \in Seq(Byte) /\ w - r <= Len(bytes) /\ Len(bytes) - (w - r) = start + tot /\ n \in 0 .. w - r
        /\ win \in [0 .. size - 1 -> Byte]
    BY <1>2, <1>3, SMTT(30) DEF Decoded, Types
  <2> HIDE DEF n
  <2>2. /\ new \in Seq(Byte) /\ Len(new) = n /\ \A k \in 1 .. n : new[k] = bytes[Len(bytes) - (w - r) + k]
    BY <1>2, <2>1, SliceIs
  <2> HIDE DEF new
  <2>3. \A k \in 1 .. n : start + tot + k \in 1 .. Len(bytes)
    BY <1>2, <1>3, <2>1
  <2> QED
    BY <2>1, <2>2, <2>3
<1> HIDE DEF n, new
<1>5. ASSUME NEW k \in 1 .. n
      PROVE  new[k] = Through(bytes[start + tot + k], tot + k, marks)
  <2>1. ASSUME NEW i \in 1 .. Len(marks)
        PROVE  ~(marks[i].from < tot + k /\ tot + k <= marks[i].from + marks[i].length)
    <3>1. marks[i].from \in Nat /\ marks[i].length \in Nat
      BY <1>2, BlockOf DEF Types
    <3>2. CASE i \in 1 .. Applied
      <4>1. marks[i].from + marks[i].length <= tot
        BY <1>1, <3>2, <1>2 DEF Done
      <4> QED
        BY <1>2, <1>3, <3>1, <4>1
    <3>3. CASE ~(i \in 1 .. Applied)
      <4>1. fl # << >> /\ Applied + 1 <= i
        BY <1>2, <3>3 DEF Applied, Waiting
      <4>2. Applied + 1 \in 1 .. Len(marks) /\ marks[Applied + 1].from = tot + fl[1].offset /\ fl[1].offset \in Nat
        BY <1>2, <4>1, FirstWaiting
      <4>3. marks[Applied + 1].from <= marks[i].from
        BY <1>2, <4>1, <4>2, LaterBlock DEF Types
      <4> DEFINE f == marks[Applied + 1].from
                 g == marks[i].from
                 o == fl[1].offset
                 l == marks[i].length
      <4>4. f = tot + o /\ o \in Nat /\ f <= g /\ n <= o /\ k <= n /\ g \in Nat /\ tot \in Nat /\ k \in Nat /\ n \in Nat
        BY <1>2, <1>3, <3>1, <4>1, <4>2, <4>3
      <4> HIDE DEF f, g, o, l
      <4>5. ~(g < tot + k)
        BY ONLY <4>4
      <4> QED
        BY <4>5 DEF g
    <3> QED
      BY <3>2, <3>3
  <2>2. /\ bytes[start + tot + k] \in Byte /\ tot + k \in Int /\ marks \in Seq(Mark) /\ 0 \in 0 .. Len(marks)
        /\ \A i \in 0 + 1 .. Len(marks) : i \in 1 .. Len(marks)
    <3>1. marks \in Seq(Mark) /\ bytes \in Seq(Byte)
      BY <1>2 DEF Types
    <3>2. start + tot + k \in 1 .. Len(bytes) /\ tot + k \in Int
      BY <1>2, <1>4
    <3>3. bytes[start + tot + k] \in Byte
      BY <3>1, <3>2
    <3> QED
      BY <1>2, <3>1, <3>2, <3>3
  <2>3. Through(bytes[start + tot + k], tot + k, marks) = Through(bytes[start + tot + k], tot + k, SubSeq(marks, 1, 0))
    BY <2>1, <2>2, ThroughRest
  <2>4. SubSeq(marks, 1, 0) = << >>
    OBVIOUS
  <2>5. Through(bytes[start + tot + k], tot + k, << >>) = bytes[start + tot + k]
    BY <2>2, ThroughNone
  <2> QED
    BY <1>4, <2>3, <2>4, <2>5
<1>6. /\ DeliverInv' /\ tot' = tot + n /\ tot' \in Nat
      /\ got' \in Seq(Byte) /\ outbuf' \in Seq(Byte) /\ want' \in Nat \cup {-1}
      /\ caller' = "none" /\ answer' \in {"nil", "eof"} /\ (answer' = "eof" => answer = "eof" /\ got' = got)
      /\ \/ pc' = "bytes" /\ want' = -1
         \/ pc' = "idle" /\ want' = 0
  <2>1. tot + Len(new) <= Decoded
    BY <1>2, <1>3, <1>4
  <2> QED
    BY <1>1, <1>4, <1>5, <2>1, GiveKeeps
<1>7. ~InBlock' /\ pc' # "next" /\ pc' # "fill"
  BY <1>6 DEF InBlock
<1>8. /\ fl' \in Seq(Queued) /\ Len(fl') = Len(fl)
      /\ \A i \in 1 .. Len(fl) :
           /\ fl'[i].length = fl[i].length
           /\ fl'[i].offset = IF i = 1 THEN fl[1].offset - n ELSE fl[i].offset
  <2>1. CASE fl = << >>
    BY <1>1, <1>2, <2>1 DEF Types
  <2>2. CASE fl # << >>
    <3> DEFINE q == [fl[1] EXCEPT !.offset = @ - n]
    <3>1. fl[1] \in Queued /\ fl[1].offset \in Nat /\ 1 \in 1 .. Len(fl) /\ fl \in Seq(Queued)
      BY <1>2, <2>2, FirstWaiting, SMTT(30) DEF Types
    <3>2. q \in Queued /\ q.length = fl[1].length /\ q.offset = fl[1].offset - n
      <4>1. fl[1].offset - n \in Nat
        BY <1>2, <1>3, <2>2, <3>1
      <4> QED
        BY <3>1, <4>1 DEF Queued
    <3>3. fl' = [fl EXCEPT ![1] = q]
      BY <1>1, <2>2
    <3> HIDE DEF q
    <3>4. /\ fl' \in Seq(Queued) /\ Len(fl') = Len(fl)
          /\ \A i \in 1 .. Len(fl) : fl'[i] = IF i = 1 THEN q ELSE fl[i]
      BY <3>1, <3>2, <3>3, ExceptSeq
    <3> QED
      BY <3>2, <3>4
  <2> QED
    BY <2>1, <2>2
<1>9. Types'
  <2>1. r' \in Nat /\ r' <= w
    BY <1>1, <1>2, <1>3
  <2> QED
    BY <1>1, <1>2, <1>6, <1>7, <1>8, <2>1 DEF Types
<1>10. Places'
  <2>1. size >= MinWindow
    BY <1>1 DEF Working, Places
  <2> QED
    BY <1>1, <1>6, <1>7, <2>1 DEF Places
<1>11. Ends'
  BY <1>1, <1>6, <1>7 DEF Working, Ends, Decoded
<1>12. Holds(win, size, w, bytes)' /\ Ordered(marks)'
  BY <1>1, <1>2
<1>13. Position'
  <2>1. Len(bytes) - start = (tot + n) + Len(block) + (w - (r + n))
    <3>1. Len(block) = 0
      BY <1>1
    <3> QED
      BY <1>2, <1>3, <3>1 DEF Decoded
  <2> QED
    BY <1>1, <1>6, <2>1 DEF Position, Decoded
<1>14. Waiting'
  <2>1. Applied' = Applied
    BY <1>1, <1>8 DEF Applied
  <2>2. ASSUME NEW i \in 1 .. Len(fl)
        PROVE  /\ fl'[i].length = marks[Applied + i].length
               /\ fl'[i].offset = marks[Applied + i].from - (IF i = 1 THEN tot + n ELSE marks[Applied + i - 1].from)
    <3>1. /\ fl[i].length = marks[Applied + i].length
          /\ fl[i].offset = marks[Applied + i].from - (IF i = 1 THEN tot ELSE marks[Applied + i - 1].from)
      BY <1>2 DEF Waiting
    <3>2. CASE i = 1
      <4>1. marks[Applied + 1].from \in Nat /\ fl[1].offset = marks[Applied + 1].from - tot
        BY <1>2, <3>1, <3>2, FirstWaiting
      <4>2. fl[1].offset - n = marks[Applied + 1].from - (tot + n)
        BY <1>2, <1>3, <4>1
      <4> QED
        BY <1>8, <3>1, <3>2, <4>2
    <3>3. CASE i # 1
      BY <1>8, <3>1, <3>3
    <3> QED
      BY <3>2, <3>3
  <2>3. Len(fl') <= Len(marks')
    BY <1>1, <1>2, <1>8 DEF Waiting
  <2> QED
    BY <1>1, <1>6, <1>8, <2>1, <2>2, <2>3, Zenon DEF Waiting
<1>15. Done'
  <2>1. ASSUME NEW i \in 1 .. Applied
        PROVE  marks[i].from + marks[i].length <= tot + n
    <3>1. marks[i].from + marks[i].length <= tot
      BY <1>1, <1>2 DEF Done
    <3>2. i \in 1 .. Len(marks)
      BY <1>2 DEF Applied
    <3>3. marks[i].from \in Nat /\ marks[i].length \in Nat
      BY <1>2, <3>2, BlockOf DEF Types
    <3> QED
      BY <1>2, <1>3, <3>1, <3>3
  <2>2. Applied' = Applied
    BY <1>1, <1>8 DEF Applied
  <2> QED
    BY <1>1, <1>6, <2>1, <2>2 DEF Done
<1>16. BlockInv'
  BY <1>7 DEF BlockInv
<1> QED
  BY <1>6, <1>9, <1>10, <1>11, <1>12, <1>13, <1>14, <1>15, <1>16 DEF Working

(* More of a block is collected, none of it filtered before it is whole.     *)
LEMMA CollectKeeps == ASSUME Working, Collect PROVE Working'
<1> USE DEF packedVars, callVars
<1> DEFINE n == Smaller(fl[1].length - Len(block), w - r)
           new == Slice(r, n)
           m == marks[Applied + 1]
           first == SubSeq(marks, 1, Applied)
<1>1. /\ pc = "block" /\ InBlock /\ pc # "next" /\ n > 0 /\ fl # << >> /\ fl[1].offset = 0
      /\ block' = block \o new /\ r' = r + n
      /\ UNCHANGED <<packedVars, win, size, w, fl, tot, outbuf, err, dec, ended, callVars>>
  BY DEF Collect, Working, Places, InBlock
<1>2. /\ Types /\ Waiting /\ Ordered(marks) /\ Done /\ Holds(win, size, w, bytes) /\ BlockInv /\ DeliverInv
      /\ Decoded = tot + Len(block) + (w - r) /\ size >= MinWindow /\ MinWindow \in Nat \ {0}
  BY <1>1, WindowAssumption DEF Working, Position, Places
<1>3. /\ tot \in Nat /\ start \in Nat /\ Len(bytes) \in Nat /\ size \in Nat \ {0} /\ w \in 0 .. size /\ w \in Nat
      /\ r \in Nat /\ r <= w /\ Len(marks) \in Nat /\ Len(fl) \in Nat
      /\ block \in Seq(Byte) /\ Len(block) \in Nat /\ bytes \in Seq(Byte) /\ marks \in Seq(Mark)
  <2> HIDE DEF n, new, m, first
  <2> QED
    BY <1>2 DEF Types
<1>4. /\ Applied \in Nat /\ Applied + 1 \in 1 .. Len(marks) /\ m.from \in Nat /\ m.length \in Nat \ {0}
      /\ fl[1].length = m.length /\ m.from = tot
  <2>1. /\ Applied \in Nat /\ Applied + 1 \in 1 .. Len(marks) /\ m.from \in Nat /\ m.length \in Nat \ {0}
        /\ fl[1].length = m.length /\ m.from = tot + fl[1].offset
    BY <1>1, <1>2, FirstWaiting
  <2> HIDE DEF m
  <2> QED
    BY <1>1, <1>3, <2>1
<1> HIDE DEF m
<1>5. n \in 1 .. w - r /\ Len(block) + n <= fl[1].length
  BY <1>1, <1>3, <1>4 DEF Smaller
<1>6. /\ new \in Seq(Byte) /\ Len(new) = n
      /\ \A k \in 1 .. n : new[k] = bytes[start + tot + Len(block) + k] /\ start + tot + Len(block) + k \in 1 .. Len(bytes)
  <2>1. /\ w - r <= Len(bytes) /\ Len(bytes) - (w - r) = start + tot + Len(block) /\ n \in 0 .. w - r
        /\ win \in [0 .. size - 1 -> Byte]
    <3> HIDE DEF n
    <3>1. Len(bytes) - start = tot + Len(block) + (w - r) /\ win \in [0 .. size - 1 -> Byte]
      BY <1>2 DEF Decoded, Types
    <3> QED
      BY <1>3, <1>5, <3>1
  <2> HIDE DEF n
  <2>2. /\ new \in Seq(Byte) /\ Len(new) = n /\ \A k \in 1 .. n : new[k] = bytes[Len(bytes) - (w - r) + k]
    BY <1>2, <1>3, <2>1, SliceIs
  <2> HIDE DEF new
  <2>3. \A k \in 1 .. n : start + tot + Len(block) + k \in 1 .. Len(bytes)
    BY <1>3, <1>5, <2>1
  <2> QED
    BY <2>1, <2>2, <2>3
<1> HIDE DEF n, new
<1>7. ASSUME NEW i \in 1 .. Applied
      PROVE  /\ marks[i].from + marks[i].length <= tot /\ marks[i].from \in Nat /\ marks[i].length \in Nat \ {0}
             /\ i \in 1 .. Len(marks)
  <2>1. i \in 1 .. Len(marks) /\ i < Applied + 1
    BY <1>3, <1>4
  <2>2. marks[i].from \in Nat /\ marks[i].length \in Nat \ {0}
    BY <1>3, <2>1, BlockOf
  <2>3. \/ marks[i].from = m.from /\ marks[i].length = m.length
        \/ marks[i].from + marks[i].length <= m.from
    BY <1>2, <1>4, <2>1 DEF Ordered, SameBlock, m
  <2>4. \/ marks[i].from + marks[i].length <= tot
        \/ marks[i].from = tot /\ marks[i].length = Len(block)
    BY <1>2 DEF Done
  <2>5. CASE marks[i].from = tot /\ marks[i].length = Len(block)
    BY <1>3, <1>4, <1>5, <2>2, <2>3, <2>5
  <2> QED
    BY <2>1, <2>2, <2>4, <2>5
<1>8. ASSUME NEW k \in 1 .. n
      PROVE  new[k] = Through(bytes[start + tot + (Len(block) + k)], tot + (Len(block) + k), first)
  <2> DEFINE p == Len(block) + k
  <2>1. p \in Nat \ {0} /\ start + tot + p = start + tot + Len(block) + k /\ tot + p \in Int
    BY <1>3
  <2> HIDE DEF p
  <2>2. first \in Seq(Mark) /\ Len(first) = Applied /\ \A i \in 1 .. Applied : first[i] = marks[i]
    BY <1>3, <1>4
  <2> HIDE DEF first
  <2>3. bytes[start + tot + p] \in Byte
    BY <1>3, <1>6, <2>1
  <2>4. ASSUME NEW i \in 0 + 1 .. Len(first)
        PROVE  ~(first[i].from < tot + p /\ tot + p <= first[i].from + first[i].length)
    <3>1. i \in 1 .. Applied
      BY <1>4, <2>2
    <3>2. first[i] = marks[i]
      BY <2>2, <3>1
    <3>3. marks[i].from + marks[i].length <= tot /\ marks[i].from \in Nat /\ marks[i].length \in Nat
      BY <1>7, <3>1
    <3>4. tot \in Nat /\ p \in Nat \ {0}
      BY <1>3, <2>1
    <3>5. ~(tot + p <= marks[i].from + marks[i].length)
      BY ONLY <3>3, <3>4
    <3> QED
      BY <3>2, <3>5
  <2>5. 0 \in 0 .. Len(first)
    BY <1>4, <2>2
  <2>6. Through(bytes[start + tot + p], tot + p, first) = Through(bytes[start + tot + p], tot + p, SubSeq(first, 1, 0))
    BY <2>1, <2>2, <2>3, <2>4, <2>5, ThroughRest
  <2>7. SubSeq(first, 1, 0) = << >>
    OBVIOUS
  <2>8. Through(bytes[start + tot + p], tot + p, << >>) = bytes[start + tot + p]
    BY <2>1, <2>3, ThroughNone
  <2> QED
    BY <1>6, <2>1, <2>6, <2>7, <2>8 DEF p
<1>9. /\ block' \in Seq(Byte) /\ Len(block') = Len(block) + n
      /\ \A i \in 1 .. Len(block) + n : block'[i] = IF i <= Len(block) THEN block[i] ELSE new[i - Len(block)]
  <2>1. n \in Nat
    BY <1>3, <1>5
  <2> QED
    BY <1>1, <1>3, <1>6, <2>1, ConcatProperties, ZenonT(30)
<1>10. InBlock' /\ Applied' = Applied
  BY <1>1 DEF InBlock, Applied
<1>11. Types'
  <2>1. r' \in Nat /\ r' <= w
    BY <1>1, <1>3, <1>5
  <2> QED
    BY <1>1, <1>2, <1>9, <2>1 DEF Types
<1>12. Places'
  <2>1. Len(block') <= fl[1].length
    BY <1>5, <1>9
  <2> QED
    BY <1>1, <1>10, <2>1 DEF Working, Places
<1>13. Ends' /\ Holds(win, size, w, bytes)' /\ Ordered(marks)'
  BY <1>1 DEF Working, Ends, Decoded
<1>14. Position'
  <2>1. Len(bytes) - start = tot + (Len(block) + n) + (w - (r + n))
    BY <1>2, <1>3, <1>5, SMTT(30) DEF Decoded
  <2> QED
    BY <1>1, <1>9, <2>1 DEF Position, Decoded
<1>15. Waiting'
  BY <1>1, <1>2, <1>10 DEF Waiting
<1>16. Done'
  BY <1>1, <1>7, <1>10 DEF Done
<1>17. BlockInv'
  <2>1. ASSUME NEW i \in 1 .. Len(block) + n
        PROVE  block'[i] = Through(bytes[start + tot + i], tot + i, first)
    <3>1. CASE i <= Len(block)
      <4>1. i \in 1 .. Len(block) /\ block'[i] = block[i]
        BY <1>3, <1>9, <3>1
      <4> QED
        BY <1>1, <1>2, <4>1 DEF BlockInv
    <3>2. CASE ~(i <= Len(block))
      <4> DEFINE k == i - Len(block)
      <4>1. k \in 1 .. n /\ Len(block) + k = i
        BY <1>3, <1>5, <3>2
      <4>2. block'[i] = new[k]
        BY <1>9, <3>2
      <4> HIDE DEF k, first
      <4>3. new[k] = Through(bytes[start + tot + (Len(block) + k)], tot + (Len(block) + k), first)
        BY <1>8, <4>1
      <4> QED
        BY <4>1, <4>2, <4>3
    <3> QED
      BY <3>1, <3>2
  <2> QED
    BY <1>1, <1>9, <1>10, <2>1 DEF BlockInv
<1>18. DeliverInv'
  BY <1>1, <1>2 DEF DeliverInv
<1> QED
  BY <1>1, <1>11, <1>12, <1>13, <1>14, <1>15, <1>16, <1>17, <1>18 DEF Working

(* A block is filtered: by another filter yet, or it is given.               *)
LEMMA FilteredIs ==
  ASSUME Working, pc = "block", Len(block) = fl[1].length
  PROVE  /\ Applied \in Nat /\ Applied + 1 \in 1 .. Len(marks) /\ fl # << >> /\ fl \in Seq(Queued)
         /\ Len(fl) \in Nat \ {0}
         /\ marks[Applied + 1] \in Mark /\ marks[Applied + 1].from = tot /\ marks[Applied + 1].length = Len(block)
         /\ tot \in Nat /\ Len(block) \in Nat \ {0} /\ InBlock /\ pc # "next"
         /\ Filtered(block, tot) \in Seq(Byte) /\ Len(Filtered(block, tot)) = Len(block)
         /\ \A k \in 1 .. Len(block) :
              Filtered(block, tot)[k] = Through(bytes[start + tot + k], tot + k, SubSeq(marks, 1, Applied + 1))
<1> DEFINE m == marks[Applied + 1]
           new == Filtered(block, tot)
           first == SubSeq(marks, 1, Applied)
<1>1. /\ Types /\ Waiting /\ fl # << >> /\ fl[1].offset = 0 /\ BlockInv /\ InBlock /\ pc # "next"
      /\ Decoded = tot + Len(block) + (w - r)
  BY DEF Working, Places, InBlock, Position
<1>2. /\ tot \in Nat /\ block \in Seq(Byte) /\ bytes \in Seq(Byte) /\ start \in Nat /\ Len(bytes) \in Nat
      /\ marks \in Seq(Mark) /\ fl \in Seq(Queued) /\ w - r \in Nat /\ Len(block) \in Nat /\ Len(fl) \in Nat \ {0}
  BY <1>1 DEF Types
<1>3. /\ Applied \in Nat /\ Applied + 1 \in 1 .. Len(marks) /\ m \in Mark /\ m.length \in Nat \ {0}
      /\ fl[1].length = m.length /\ m.from = tot
  <2>1. /\ Applied \in Nat /\ Applied + 1 \in 1 .. Len(marks) /\ m \in Mark /\ m.length \in Nat \ {0}
        /\ fl[1].length = m.length /\ m.from = tot + fl[1].offset
    BY <1>1, FirstWaiting
  <2> HIDE DEF m
  <2> QED
    BY <1>1, <1>2, <2>1
<1> HIDE DEF m
<1>4. /\ new \in [1 .. Len(block) -> Byte]
      /\ \A k \in 1 .. Len(block) : new[k] = block[k] \o <<Len(block), k, tot>>
  <2>1. ASSUME NEW k \in 1 .. Len(block) PROVE block[k] \o <<Len(block), k, tot>> \in Byte
    <3>1. block[k] \in Seq(Int) /\ Len(block) \in Int /\ k \in Int /\ tot \in Int
      BY <1>2 DEF Byte
    <3>2. <<Len(block), k, tot>> \in Seq(Int)
      BY <3>1
    <3> QED
      BY <3>1, <3>2 DEF Byte
  <2>2. DOMAIN block = 1 .. Len(block)
    BY <1>2
  <2> QED
    BY <2>1, <2>2 DEF Filtered
<1>5. new \in Seq(Byte) /\ Len(new) = Len(block)
  BY <1>2, <1>4, FunctionIsSeq
<1>6. ASSUME NEW k \in 1 .. Len(block)
      PROVE  new[k] = Through(bytes[start + tot + k], tot + k, SubSeq(marks, 1, Applied + 1))
  <2>1. SubSeq(marks, 1, Applied + 1) = Append(first, m) /\ first \in Seq(Mark)
    <3> DEFINE p == Applied
    <3>1. p \in Nat /\ p + 1 \in 1 .. Len(marks) /\ marks[p + 1] = m /\ marks \in Seq(Mark)
      BY <1>2, <1>3 DEF m
    <3> HIDE DEF p
    <3>2. SubSeq(marks, 1, p + 1) = Append(SubSeq(marks, 1, p), m) /\ SubSeq(marks, 1, p) \in Seq(Mark)
      BY ONLY <3>1
    <3> QED
      BY <3>2 DEF p
  <2>2. block[k] = Through(bytes[start + tot + k], tot + k, first)
    BY <1>1 DEF BlockInv
  <2>3. bytes[start + tot + k] \in Byte /\ tot + k \in Int
    <3>1. Len(bytes) = start + (tot + Len(block) + (w - r))
      BY <1>1, <1>2 DEF Decoded
    <3> DEFINE x == w - r
    <3>2. x \in Nat /\ Len(bytes) = start + (tot + Len(block) + x)
      BY <1>2, <3>1
    <3> HIDE DEF x
    <3>3. start + tot + k \in 1 .. Len(bytes)
      <4>1. start \in Nat /\ tot \in Nat /\ Len(block) \in Nat /\ k \in 1 .. Len(block)
        BY <1>2
      <4> QED
        BY ONLY <3>2, <4>1
    <3> QED
      BY <1>2, <3>3
  <2> HIDE DEF first
  <2>4. Through(bytes[start + tot + k], tot + k, Append(first, m)) = ThroughOne(block[k], tot + k, m)
    BY <1>3, <2>1, <2>2, <2>3, ThroughNext
  <2>5. m.from < tot + k /\ tot + k <= m.from + m.length /\ m.length = Len(block) /\ (tot + k) - m.from = k
    BY <1>2, <1>3
  <2> QED
    BY <1>3, <1>4, <2>1, <2>4, <2>5 DEF ThroughOne
<1> QED
  BY <1>1, <1>2, <1>3, <1>5, <1>6 DEF m

LEMMA FilterAgain ==
  ASSUME Working, pc = "block", Len(block) = fl[1].length, Tail(fl) # << >>, Tail(fl)[1].offset = 0
  PROVE  Tail(fl)[1].length = Len(block)
<1>1. /\ Applied \in Nat /\ Applied + 1 \in 1 .. Len(marks) /\ fl # << >> /\ fl \in Seq(Queued)
      /\ Len(fl) \in Nat \ {0}
      /\ marks[Applied + 1].from = tot /\ marks[Applied + 1].length = Len(block)
      /\ tot \in Nat /\ Len(block) \in Nat \ {0} /\ pc # "next"
  BY FilteredIs
<1>2. Types /\ Waiting /\ Ordered(marks) /\ marks \in Seq(Mark) /\ Len(marks) \in Nat /\ Len(fl) <= Len(marks)
  <2>1. Types /\ Waiting /\ Ordered(marks)
    BY <1>1 DEF Working
  <2> QED
    BY <2>1 DEF Types, Waiting
<1>3. 2 \in 1 .. Len(fl) /\ Tail(fl)[1] = fl[2]
  <2>1. /\ Tail(fl) \in Seq(Queued) /\ Len(Tail(fl)) = Len(fl) - 1 /\ Len(Tail(fl)) # 0
        /\ \A i \in 1 .. Len(Tail(fl)) : Tail(fl)[i] = fl[i + 1]
    BY <1>1, HeadTailProperties, EmptySeq
  <2>2. 1 \in 1 .. Len(Tail(fl)) /\ 1 + 1 = 2
    BY <1>1, <2>1
  <2> QED
    BY <1>1, <2>1, <2>2
<1>4. /\ Applied + 2 \in 1 .. Len(marks) /\ Applied + 2 - 1 = Applied + 1 /\ Applied + 1 < Applied + 2
  BY <1>1, <1>2, <1>3 DEF Applied
<1>5. fl[2].length = marks[Applied + 2].length /\ fl[2].offset = marks[Applied + 2].from - marks[Applied + 1].from
  BY <1>2, <1>3, <1>4 DEF Waiting
<1>6. marks[Applied + 2].from \in Nat
  BY <1>2, <1>4, BlockOf
<1>7. marks[Applied + 2].from = tot
  BY <1>1, <1>3, <1>5, <1>6
<1>8. \/ SameBlock(marks[Applied + 1], marks[Applied + 2])
      \/ marks[Applied + 1].from + marks[Applied + 1].length <= marks[Applied + 2].from
  BY <1>1, <1>2, <1>4 DEF Ordered
<1>9. SameBlock(marks[Applied + 1], marks[Applied + 2])
  BY <1>1, <1>7, <1>8
<1> QED
  BY <1>1, <1>3, <1>5, <1>9 DEF SameBlock

(* The other filter is the next one in the queue. *)
LEMMA AnotherFilterKeeps ==
  ASSUME Working, ProcessFilter, Tail(fl) # << >>, Tail(fl)[1].offset = 0
  PROVE  Working'
<1> USE DEF packedVars, windowVars
<1>1. /\ pc = "block" /\ Len(block) = fl[1].length
      /\ UNCHANGED <<packedVars, windowVars, err, dec, ended>>
  BY DEF ProcessFilter
<1>2. /\ Applied \in Nat /\ Applied + 1 \in 1 .. Len(marks) /\ fl # << >> /\ fl \in Seq(Queued)
      /\ Len(fl) \in Nat \ {0}
      /\ marks[Applied + 1].from = tot /\ marks[Applied + 1].length = Len(block)
      /\ tot \in Nat /\ Len(block) \in Nat \ {0} /\ InBlock /\ pc # "next"
      /\ Filtered(block, tot) \in Seq(Byte) /\ Len(Filtered(block, tot)) = Len(block)
      /\ \A k \in 1 .. Len(block) :
           Filtered(block, tot)[k] = Through(bytes[start + tot + k], tot + k, SubSeq(marks, 1, Applied + 1))
  BY <1>1, FilteredIs
<1>3. Tail(fl)[1].length = Len(block)
  BY <1>1, FilterAgain
<1>4. fl' = Tail(fl) /\ block' = Filtered(block, tot) /\ UNCHANGED <<pc, caller, want, answer, tot, got, outbuf>>
  BY <1>2, <1>3 DEF ProcessFilter
<1>5. /\ fl' \in Seq(Queued) /\ Len(fl') = Len(fl) - 1 /\ \A i \in 1 .. Len(fl') : fl'[i] = fl[i + 1]
  BY <1>2, <1>4, HeadTailProperties
<1>6. /\ Applied' = Applied + 1 /\ InBlock' /\ Len(block') = Len(block) /\ Len(marks) \in Nat
      /\ Types /\ Waiting /\ Done /\ Len(fl) <= Len(marks) /\ Len(fl') \in Nat
  <2>1. Types /\ Waiting /\ Done /\ Len(fl) <= Len(marks) /\ Len(marks) \in Nat
    <3>1. Types /\ Waiting /\ Done
      BY <1>2 DEF Working
    <3>2. Len(fl) <= Len(marks)
      BY <3>1 DEF Waiting
    <3>3. marks \in Seq(Mark)
      BY <3>1 DEF Types
    <3> QED
      BY <3>1, <3>2, <3>3
  <2>2. Len(marks) - (Len(fl) - 1) = (Len(marks) - Len(fl)) + 1 /\ Len(fl) - 1 \in Nat
    BY <1>2, <2>1
  <2> QED
    BY <1>1, <1>2, <1>4, <1>5, <2>1, <2>2 DEF Applied, InBlock
<1>7. Types'
  BY <1>1, <1>2, <1>4, <1>5, <1>6 DEF Types
<1>8. Places'
  <2>1. fl' # << >> /\ fl'[1].offset = 0 /\ fl'[1].length = Len(block)
    BY <1>3, <1>4
  <2>2. Len(block') <= fl'[1].length
    BY <1>2, <1>6, <2>1
  <2> QED
    BY <1>1, <1>4, <1>6, <2>1, <2>2 DEF Working, Places
<1>9. Ends' /\ Holds(win, size, w, bytes)' /\ Ordered(marks)'
  BY <1>1, <1>4 DEF Working, Ends, Decoded
<1>10. Position'
  BY <1>1, <1>2, <1>4, <1>6 DEF Working, Position, Decoded
<1>11. Waiting'
  <2>1. ASSUME NEW i \in 1 .. Len(fl')
        PROVE  /\ fl'[i].length = marks[Applied' + i].length
               /\ fl'[i].offset = marks[Applied' + i].from - (IF i = 1 THEN tot ELSE marks[Applied' + i - 1].from)
    <3>1. i + 1 \in 1 .. Len(fl) /\ i + 1 # 1 /\ fl'[i] = fl[i + 1]
          /\ Applied' + i = Applied + (i + 1) /\ Applied' + i - 1 = Applied + (i + 1) - 1
          /\ (i = 1 => Applied + (i + 1) - 1 = Applied + 1)
      <4> DEFINE p == Applied
                 q == Applied'
                 n == Len(fl)
      <4>1. p \in Nat /\ q = p + 1 /\ n \in Nat /\ i \in 1 .. n - 1
        BY <1>2, <1>5, <1>6
      <4> HIDE DEF p, q, n
      <4>2. /\ i + 1 \in 1 .. n /\ i + 1 # 1 /\ q + i = p + (i + 1) /\ q + i - 1 = p + (i + 1) - 1
            /\ (i = 1 => p + (i + 1) - 1 = p + 1)
        BY ONLY <4>1
      <4>3. fl'[i] = fl[i + 1]
        BY <1>5
      <4> QED
        BY <4>2, <4>3 DEF p, q, n
    <3>2. /\ fl[i + 1].length = marks[Applied + (i + 1)].length
          /\ fl[i + 1].offset = marks[Applied + (i + 1)].from - marks[Applied + (i + 1) - 1].from
      BY <1>6, <3>1 DEF Waiting
    <3> QED
      BY <1>2, <3>1, <3>2
  <2>2. Len(fl') <= Len(marks)
    BY <1>2, <1>5, <1>6
  <2> QED
    BY <1>1, <1>4, <2>1, <2>2 DEF Waiting
<1>12. Done'
  <2>1. ASSUME NEW i \in 1 .. Applied'
        PROVE  \/ marks[i].from + marks[i].length <= tot
               \/ marks[i].from = tot /\ marks[i].length = Len(block)
    <3>1. i \in 1 .. Applied \/ i = Applied + 1
      BY <1>2, <1>6
    <3> QED
      BY <1>2, <1>6, <3>1 DEF Done
  <2> QED
    BY <1>1, <1>4, <1>6, <2>1 DEF Done
<1>13. BlockInv'
  BY <1>1, <1>2, <1>4, <1>6 DEF BlockInv
<1>14. DeliverInv'
  BY <1>1, <1>4 DEF Working, DeliverInv
<1> QED
  BY <1>2, <1>4, <1>7, <1>8, <1>9, <1>10, <1>11, <1>12, <1>13, <1>14 DEF Working

(* The filters after those of a block are of later ones. *)
LEMMA OtherBlocks ==
  ASSUME Working, pc = "block", Len(block) = fl[1].length, Tail(fl) # << >> => Tail(fl)[1].offset # 0,
         NEW j \in Applied + 2 .. Len(marks)
  PROVE  tot + Len(block) <= marks[j].from
<1>1. /\ Applied \in Nat /\ Applied + 1 \in 1 .. Len(marks) /\ fl # << >> /\ fl \in Seq(Queued)
      /\ Len(fl) \in Nat \ {0}
      /\ marks[Applied + 1].from = tot /\ marks[Applied + 1].length = Len(block)
      /\ tot \in Nat /\ Len(block) \in Nat \ {0} /\ pc # "next"
  BY FilteredIs
<1>2. Types /\ Waiting /\ Ordered(marks) /\ marks \in Seq(Mark) /\ Len(marks) \in Nat /\ Len(fl) <= Len(marks)
  <2>1. Types /\ Waiting /\ Ordered(marks)
    BY <1>1 DEF Working
  <2> QED
    BY <2>1 DEF Types, Waiting
<1>3. /\ j \in 1 .. Len(marks) /\ Applied + 2 \in 1 .. Len(marks) /\ Applied + 2 <= j /\ Applied + 1 < Applied + 2
      /\ Applied + 2 - 1 = Applied + 1 /\ 2 \in 1 .. Len(fl)
  <2> DEFINE p == Applied
             n == Len(marks)
             l == Len(fl)
  <2>1. p = n - l /\ n \in Nat /\ l \in Nat \ {0} /\ p \in Nat /\ j \in p + 2 .. n
    BY <1>1, <1>2 DEF Applied
  <2> HIDE DEF p, n, l
  <2>2. /\ j \in 1 .. n /\ p + 2 \in 1 .. n /\ p + 2 <= j /\ p + 1 < p + 2 /\ p + 2 - 1 = p + 1 /\ 2 \in 1 .. l
    BY ONLY <2>1
  <2> QED
    BY <2>2 DEF p, n, l
<1>4. Tail(fl) # << >> /\ Tail(fl)[1] = fl[2]
  <2>1. /\ Tail(fl) \in Seq(Queued) /\ Len(Tail(fl)) = Len(fl) - 1
        /\ \A i \in 1 .. Len(Tail(fl)) : Tail(fl)[i] = fl[i + 1]
    BY <1>1, HeadTailProperties
  <2>2. 1 \in 1 .. Len(Tail(fl)) /\ 1 + 1 = 2
    BY <1>1, <1>3, <2>1
  <2>3. Tail(fl) # << >>
    <3> DEFINE t == Tail(fl)
    <3>1. 1 \in 1 .. Len(t)
      BY <2>2
    <3> HIDE DEF t
    <3>2. t # << >>
      BY ONLY <3>1
    <3> QED
      BY <3>2 DEF t
  <2> QED
    BY <2>1, <2>2, <2>3
<1>5. fl[2].offset = marks[Applied + 2].from - marks[Applied + 1].from /\ fl[2].offset # 0
  BY <1>2, <1>3, <1>4 DEF Waiting
<1>6. /\ marks[Applied + 2].from \in Nat /\ marks[j].from \in Nat
      /\ marks[Applied + 2].from # tot
  <2>1. marks[Applied + 2].from \in Nat /\ marks[j].from \in Nat
    BY <1>2, <1>3, BlockOf
  <2>2. marks[Applied + 2].from - tot # 0
    BY <1>1, <1>5
  <2> QED
    BY <1>1, <2>1, <2>2
<1>7. marks[Applied + 1].from + marks[Applied + 1].length <= marks[Applied + 2].from
  <2>1. \/ SameBlock(marks[Applied + 1], marks[Applied + 2])
        \/ marks[Applied + 1].from + marks[Applied + 1].length <= marks[Applied + 2].from
    BY <1>1, <1>2, <1>3 DEF Ordered
  <2> QED
    BY <1>1, <1>6, <2>1 DEF SameBlock
<1>8. marks[Applied + 2].from <= marks[j].from
  BY <1>2, <1>3, LaterBlock
<1> DEFINE p == Applied
           b == Len(block)
           f == marks[p + 2].from
           g == marks[j].from
<1>9. tot \in Nat /\ b \in Nat /\ f \in Nat /\ g \in Nat /\ tot + b <= f /\ f <= g
  BY <1>1, <1>6, <1>7, <1>8
<1> HIDE DEF f, g, b
<1> QED
  BY <1>9 DEF g, b
LEMMA BlockGiven ==
  ASSUME Working, ProcessFilter, ~(Tail(fl) # << >> /\ Tail(fl)[1].offset = 0)
  PROVE  Working'
<1> USE DEF packedVars, windowVars
<1> DEFINE rest == Tail(fl)
           new == Filtered(block, tot)
           n == Len(block)
<1>1. /\ pc = "block" /\ Len(block) = fl[1].length
      /\ UNCHANGED <<packedVars, windowVars, err, dec, ended>>
      /\ fl' = IF rest = << >> THEN rest ELSE [rest EXCEPT ![1].offset = @ - Len(new)]
      /\ block' = << >> /\ Give(new)
  BY DEF ProcessFilter
<1>2. /\ Applied \in Nat /\ Applied + 1 \in 1 .. Len(marks) /\ fl # << >> /\ fl \in Seq(Queued)
      /\ Len(fl) \in Nat \ {0}
      /\ marks[Applied + 1].from = tot /\ marks[Applied + 1].length = n
      /\ tot \in Nat /\ n \in Nat \ {0} /\ InBlock /\ pc # "next"
      /\ new \in Seq(Byte) /\ Len(new) = n
      /\ \A k \in 1 .. n : new[k] = Through(bytes[start + tot + k], tot + k, SubSeq(marks, 1, Applied + 1))
  BY <1>1, FilteredIs
<1> HIDE DEF new
<1>3. /\ Types /\ Waiting /\ Ordered(marks) /\ Done /\ Holds(win, size, w, bytes)
      /\ Decoded = tot + n + (w - r) /\ w - r \in Nat /\ start \in Nat /\ bytes \in Seq(Byte) /\ Len(bytes) \in Nat
      /\ marks \in Seq(Mark) /\ Len(marks) \in Nat /\ Len(fl) <= Len(marks) /\ Applied + Len(fl) = Len(marks)
  <2>1. /\ Types /\ Waiting /\ Ordered(marks) /\ Done /\ Holds(win, size, w, bytes)
        /\ Decoded = tot + n + (w - r) /\ Len(fl) <= Len(marks)
    BY <1>2 DEF Working, Position, Waiting
  <2>2. w - r \in Nat /\ start \in Nat /\ bytes \in Seq(Byte) /\ Len(bytes) \in Nat /\ marks \in Seq(Mark) /\ Len(marks) \in Nat
    BY <2>1 DEF Types
  <2>3. Applied + Len(fl) = Len(marks)
    BY <1>2, <2>2 DEF Applied
  <2> QED
    BY <2>1, <2>2, <2>3
<1> HIDE DEF n
<1>4. ASSUME NEW k \in 1 .. n
      PROVE  new[k] = Through(bytes[start + tot + k], tot + k, marks)
  <2>1. ASSUME NEW j \in (Applied + 1) + 1 .. Len(marks)
        PROVE  ~(marks[j].from < tot + k /\ tot + k <= marks[j].from + marks[j].length)
    <3>1. j \in Applied + 2 .. Len(marks) /\ j \in 1 .. Len(marks)
      BY <1>2, <1>3
    <3>2. tot + n <= marks[j].from
      BY <1>1, <3>1, OtherBlocks DEF n
    <3>3. marks[j].from \in Nat
      BY <1>3, <3>1, BlockOf
    <3> QED
      BY <1>2, <3>2, <3>3
  <2>2. bytes[start + tot + k] \in Byte /\ tot + k \in Int
    <3> DEFINE x == w - r
    <3>1. x \in Nat /\ Len(bytes) - start = tot + n + x
      BY <1>3 DEF Decoded
    <3> HIDE DEF x
    <3>2. start + tot + k \in 1 .. Len(bytes)
      BY <1>2, <1>3, <3>1
    <3> QED
      BY <1>2, <1>3, <3>2
  <2>3. Applied + 1 \in 0 .. Len(marks)
    BY <1>2, <1>3
  <2>4. Through(bytes[start + tot + k], tot + k, marks)
          = Through(bytes[start + tot + k], tot + k, SubSeq(marks, 1, Applied + 1))
    BY <1>3, <2>1, <2>2, <2>3, ThroughRest
  <2> QED
    BY <1>2, <2>4
<1>5. /\ DeliverInv' /\ tot' = tot + n /\ tot' \in Nat
      /\ got' \in Seq(Byte) /\ outbuf' \in Seq(Byte) /\ want' \in Nat \cup {-1}
      /\ caller' = "none" /\ answer' \in {"nil", "eof"} /\ (answer' = "eof" => answer = "eof" /\ got' = got)
      /\ \/ pc' = "bytes" /\ want' = -1
         \/ pc' = "idle" /\ want' = 0
  <2>1. tot + Len(new) <= Decoded
    BY <1>2, <1>3
  <2>2. /\ DeliverInv' /\ tot' = tot + Len(new) /\ tot' \in Nat
        /\ got' \in Seq(Byte) /\ outbuf' \in Seq(Byte) /\ want' \in Nat \cup {-1}
        /\ caller' = "none" /\ answer' \in {"nil", "eof"} /\ (answer' = "eof" => answer = "eof" /\ got' = got)
        /\ \/ pc' = "bytes" /\ want' = -1
           \/ pc' = "idle" /\ want' = 0
    BY <1>1, <1>2, <1>4, <2>1, GiveKeeps
  <2> QED
    BY <1>2, <2>2
<1>6. ~InBlock' /\ pc' # "next" /\ pc' # "fill"
  BY <1>5 DEF InBlock
<1>7. /\ rest \in Seq(Queued) /\ Len(rest) = Len(fl) - 1 /\ Len(rest) \in Nat
      /\ \A i \in 1 .. Len(rest) : rest[i] = fl[i + 1]
  <2>1. rest \in Seq(Queued) /\ Len(rest) = Len(fl) - 1 /\ \A i \in 1 .. Len(rest) : rest[i] = fl[i + 1]
    BY <1>2, HeadTailProperties
  <2> QED
    BY <1>2, <2>1
<1>8. ASSUME NEW i \in 1 .. Len(rest)
      PROVE  /\ Applied + 1 + i \in Applied + 2 .. Len(marks) /\ Applied + 1 + i \in 1 .. Len(marks)
             /\ rest[i].length = marks[Applied + 1 + i].length /\ rest[i].offset \in Nat
             /\ rest[i].offset = marks[Applied + 1 + i].from - marks[Applied + i].from
             /\ tot + n <= marks[Applied + 1 + i].from /\ marks[Applied + 1 + i].from \in Nat
  <2>1. /\ i + 1 \in 1 .. Len(fl) /\ i + 1 # 1 /\ Applied + (i + 1) = Applied + 1 + i
        /\ Applied + (i + 1) - 1 = Applied + i
        /\ Applied + 1 + i \in Applied + 2 .. Len(marks) /\ Applied + 1 + i \in 1 .. Len(marks)
    <3> DEFINE p == Applied
               l == Len(fl)
               N == Len(marks)
    <3>1. p \in Nat /\ l \in Nat /\ N \in Nat /\ p + l = N /\ i \in 1 .. l - 1
      BY <1>2, <1>3, <1>7
    <3> HIDE DEF p, l, N
    <3>2. /\ i + 1 \in 1 .. l /\ i + 1 # 1 /\ p + (i + 1) = p + 1 + i /\ p + (i + 1) - 1 = p + i
          /\ p + 1 + i \in p + 2 .. N /\ p + 1 + i \in 1 .. N
      BY ONLY <3>1
    <3> QED
      BY <3>2 DEF p, l, N
  <2>2. /\ fl[i + 1].length = marks[Applied + 1 + i].length
        /\ fl[i + 1].offset = marks[Applied + 1 + i].from - marks[Applied + i].from
    BY <1>3, <2>1 DEF Waiting
  <2>3. rest[i] \in Queued
    BY <1>7
  <2>4. tot + n <= marks[Applied + 1 + i].from
    BY <1>1, <2>1, OtherBlocks DEF n
  <2>5. marks[Applied + 1 + i].from \in Nat
    BY <1>3, <2>1, BlockOf
  <2> QED
    BY <1>7, <2>1, <2>2, <2>3, <2>4, <2>5 DEF Queued
<1>9. /\ fl' \in Seq(Queued) /\ Len(fl') = Len(rest)
      /\ \A i \in 1 .. Len(rest) :
           /\ fl'[i].length = rest[i].length
           /\ fl'[i].offset = IF i = 1 THEN rest[1].offset - n ELSE rest[i].offset
  <2>1. CASE rest = << >>
    <3>1. fl' = rest /\ Len(rest) = 0
      BY <1>1, <2>1
    <3> QED
      BY <1>7, <3>1
  <2>2. CASE rest # << >>
    <3> DEFINE q == [rest[1] EXCEPT !.offset = @ - n]
    <3>1. /\ 1 \in 1 .. Len(rest) /\ rest[1] \in Queued /\ Applied + 1 \in Nat
          /\ Applied + 1 + 1 \in 1 .. Len(marks)
      <4>1. Len(rest) # 0
        BY <1>7, <2>2, EmptySeq
      <4>2. 1 \in 1 .. Len(rest)
        BY <1>7, <4>1
      <4> QED
        BY <1>2, <1>7, <1>8, <4>2
    <3>2. q \in Queued /\ q.length = rest[1].length /\ q.offset = rest[1].offset - n
      <4> DEFINE o == rest[1].offset
                 f == marks[Applied + 1 + 1].from
      <4>1. o = f - tot /\ tot + n <= f /\ f \in Nat /\ tot \in Nat /\ n \in Nat
        BY <1>2, <1>8, <3>1
      <4>2. o - n \in Nat
        <5> HIDE DEF o, f
        <5> QED
          BY ONLY <4>1
      <4> QED
        BY <3>1, <4>2 DEF Queued
    <3>3. fl' = [rest EXCEPT ![1] = q]
      BY <1>1, <1>2, <2>2
    <3> HIDE DEF q, rest
    <3>4. /\ [rest EXCEPT ![1] = q] \in Seq(Queued) /\ Len([rest EXCEPT ![1] = q]) = Len(rest)
          /\ \A i \in 1 .. Len(rest) : [rest EXCEPT ![1] = q][i] = IF i = 1 THEN q ELSE rest[i]
      BY <1>7, <3>1, <3>2, ExceptSeq
    <3> QED
      BY <3>2, <3>3, <3>4
  <2> QED
    BY <2>1, <2>2
<1> HIDE DEF rest
<1>10. Applied' = Applied + 1
  <2>1. Len(marks) - (Len(fl) - 1) = (Len(marks) - Len(fl)) + 1
    BY <1>2, <1>3
  <2> QED
    BY <1>1, <1>7, <1>9, <2>1 DEF Applied
<1>11. Types'
  <2>1. block' \in Seq(Byte)
    BY <1>1
  <2> QED
    BY <1>1, <1>3, <1>5, <1>6, <1>9, <2>1 DEF Types
<1>12. Places'
  <2>1. size >= MinWindow
    BY <1>2 DEF Working, Places
  <2> QED
    BY <1>1, <1>5, <1>6, <2>1 DEF Places
<1>13. Ends' /\ Holds(win, size, w, bytes)' /\ Ordered(marks)'
  BY <1>1, <1>5, <1>6 DEF Working, Ends, Decoded
<1>14. Position'
  <2>1. Len(bytes) - start = (tot + n) + 0 + (w - r)
    BY <1>2, <1>3 DEF Decoded
  <2>2. Len(block') = 0
    BY <1>1
  <2> QED
    BY <1>1, <1>5, <2>1, <2>2 DEF Position, Decoded
<1>15. Waiting'
  <2>1. ASSUME NEW i \in 1 .. Len(fl')
        PROVE  /\ fl'[i].length = marks[Applied + 1 + i].length
               /\ fl'[i].offset = marks[Applied + 1 + i].from - (IF i = 1 THEN tot + n ELSE marks[Applied + 1 + i - 1].from)
    <3>1. /\ i \in 1 .. Len(rest) /\ fl'[i].length = rest[i].length
          /\ fl'[i].offset = IF i = 1 THEN rest[1].offset - n ELSE rest[i].offset
      BY <1>9
    <3>2. rest[i].length = marks[Applied + 1 + i].length /\ rest[i].offset = marks[Applied + 1 + i].from - marks[Applied + i].from
          /\ marks[Applied + 1 + i].from \in Nat
      BY <1>8, <3>1
    <3>3. CASE i = 1
      <4>1. rest[1].offset = marks[Applied + 1 + 1].from - tot /\ marks[Applied + 1 + 1].from \in Nat
        BY <1>2, <3>2, <3>3
      <4>2. rest[1].offset - n = marks[Applied + 1 + 1].from - (tot + n)
        BY <1>2, <4>1
      <4> QED
        BY <3>1, <3>2, <3>3, <4>2
    <3>4. CASE i # 1
      <4>1. Applied + 1 + i - 1 = Applied + i
        BY <1>2, <1>7, <3>1
      <4> QED
        BY <3>1, <3>2, <3>4, <4>1
    <3> QED
      BY <3>3, <3>4
  <2>2. Len(fl') <= Len(marks)
    BY <1>2, <1>3, <1>7, <1>9
  <2> QED
    BY <1>1, <1>5, <1>10, <2>1, <2>2, Zenon DEF Waiting
<1>16. Done'
  <2>1. ASSUME NEW i \in 1 .. Applied + 1
        PROVE  marks[i].from + marks[i].length <= tot + n
    <3>1. CASE i = Applied + 1
      BY <1>2, <3>1
    <3>2. CASE i # Applied + 1
      <4>1. i \in 1 .. Applied /\ i \in 1 .. Len(marks)
        BY <1>2, <1>3, <3>2
      <4>2. \/ marks[i].from + marks[i].length <= tot
            \/ marks[i].from = tot /\ marks[i].length = n
        BY <1>3, <4>1 DEF Done, n
      <4>3. marks[i].from \in Nat /\ marks[i].length \in Nat
        BY <1>3, <4>1, BlockOf
      <4> QED
        BY <1>2, <4>2, <4>3
    <3> QED
      BY <3>1, <3>2
  <2> QED
    BY <1>1, <1>5, <1>10, <2>1 DEF Done
<1>17. BlockInv'
  BY <1>6 DEF BlockInv
<1> QED
  BY <1>5, <1>11, <1>12, <1>13, <1>14, <1>15, <1>16, <1>17 DEF Working

LEMMA ProcessFilterKeeps == ASSUME Working, ProcessFilter PROVE Working'
BY AnotherFilterKeeps, BlockGiven

-----------------------------------------------------------------------------
(* The next file *)

(* The last bytes, at most n. *)
LEMMA LastBytes ==
  ASSUME NEW s \in Seq(Byte), NEW n \in Nat
  PROVE  LET t == SubSeq(s, 1 + Larger(0, Len(s) - n), Len(s))
         IN  /\ t \in Seq(Byte) /\ Len(t) \in Nat /\ Len(t) <= n /\ Len(t) <= Len(s)
             /\ \A j \in 1 .. Len(t) : t[Len(t) - j + 1] = s[Len(s) - j + 1]
<1> DEFINE N == Len(s)
           k == Larger(0, N - n)
           t == SubSeq(s, 1 + k, N)
<1>1. N \in Nat /\ k \in Nat /\ k <= N /\ N - k <= n
  BY DEF Larger
<1> HIDE DEF k
<1>2. t \in Seq(Byte) /\ Len(t) = N - k /\ \A i \in 1 .. N - k : t[i] = s[k + i]
  <2>1. 1 + k \in 1 .. N + 1 /\ \A i \in 1 .. N - k : (1 + k) + i - 1 = k + i
    BY <1>1
  <2> QED
    BY <1>1, <2>1
<1> HIDE DEF t, N
<1>3. ASSUME NEW j \in 1 .. Len(t) PROVE t[Len(t) - j + 1] = s[N - j + 1]
  <2>1. N - k - j + 1 \in 1 .. N - k /\ k + (N - k - j + 1) = N - j + 1 /\ Len(t) - j + 1 = N - k - j + 1
    BY <1>1, <1>2
  <2> QED
    BY <1>2, <2>1
<1>4. Len(t) \in Nat /\ Len(t) <= n /\ Len(t) <= N
  BY <1>1, <1>2
<1> QED
  BY <1>2, <1>3, <1>4 DEF t, N, k

(* A window that is laid anew has the bytes of the old one, *)
LEMMA RelaidHolds ==
  ASSUME size \in Nat, w \in 0 .. size, win \in [0 .. size - 1 -> Byte], NEW s \in Seq(Byte), NEW t \in Seq(Byte),
         Len(t) <= size, Len(t) <= Len(s), \A j \in 1 .. Len(t) : t[Len(t) - j + 1] = s[Len(s) - j + 1],
         Holds(win, size, w, s), NEW n \in Nat, size < n
  PROVE  Relaid(n) \in [0 .. n - 1 -> Byte] /\ Holds(Relaid(n), n, size, t)
<1>0. Zero \in Byte /\ Len(t) \in Nat /\ Len(s) \in Nat
  BY DEF Zero, Byte
<1>1. ASSUME NEW i \in 0 .. n - 1, i < size PROVE (w + i) % size \in 0 .. size - 1
  <2>1. size \in Nat \ {0} /\ w + i \in Nat
    BY <1>1
  <2> QED
    BY ONLY <2>1
<1>2. Relaid(n) \in [0 .. n - 1 -> Byte]
  BY <1>0, <1>1 DEF Relaid
<1>3. ASSUME NEW j \in 1 .. n, j <= Len(t)
      PROVE  Relaid(n)[(size + n - j) % n] = t[Len(t) - j + 1]
  <2>1. j <= size /\ j <= Len(s) /\ size \in Nat \ {0} /\ n \in Nat \ {0} /\ size \in 0 .. n /\ j \in 1 .. size
        /\ size - j \in 0 .. n - 1 /\ size - j < size /\ j \in 1 .. Len(t)
    BY <1>0, <1>3
  <2>2. (size + n - j) % n = size - j
    BY <2>1, PlaceBack
  <2>3. Relaid(n)[size - j] = win[(w + (size - j)) % size]
    BY <2>1 DEF Relaid
  <2>4. w + (size - j) = w + size - j
    BY <2>1
  <2>5. win[(w + size - j) % size] = s[Len(s) - j + 1]
    BY <2>1 DEF Holds
  <2> QED
    BY <2>1, <2>2, <2>3, <2>4, <2>5
<1> QED
  BY <1>2, <1>3 DEF Holds

(* A file begins: with the bytes of the last ones, or with a window of its own. *)
LEMMA BeginKeeps ==
  ASSUME Working, NEW reset \in BOOLEAN, NEW winSize \in Windows, NEW version \in Versions,
         Begin(reset, winSize, version)
  PROVE  Working' \/ Refused'
<1> DEFINE newSize == Larger(winSize, MinWindow)
           t == SubSeq(bytes, 1 + Larger(0, Len(bytes) - size), Len(bytes))
<1>1. /\ pc = "next" /\ (reset \/ solid) /\ files' = files + 1
      /\ outbuf' = << >> /\ tot' = 0 /\ err' = "nil" /\ block' = << >>
      /\ fl' = IF reset THEN << >> ELSE fl
      /\ r' = w' /\ got' = << >> /\ start' = Len(bytes') /\ marks' = << >> /\ solid' = solid
      /\ pc' = "idle" /\ caller' = "none" /\ want' = 0
      /\ bytes' = IF reset THEN << >> ELSE t
      /\ \/ ended' = "no" /\ answer' = "nil"
         \/ ended' = "error" /\ answer' = "error"
  BY DEF Begin, Return, LeftFilters
<1>2. \/ reset /\ size' = Larger(size, newSize) /\ w' = 0 /\ win' = [i \in 0 .. size' - 1 |-> Zero]
      \/ ~reset /\ newSize > size /\ size' = newSize /\ win' = Relaid(newSize) /\ w' = size
      \/ ~reset /\ ~(newSize > size) /\ UNCHANGED <<size, win, w>>
  BY DEF Begin
<1>3. /\ Types /\ Holds(win, size, w, bytes) /\ (solid => fl = << >>)
      /\ size \in Nat /\ w \in 0 .. size /\ win \in [0 .. size - 1 -> Byte] /\ bytes \in Seq(Byte) /\ files \in Nat
  BY <1>1 DEF Working, Types, Places
<1>4. newSize \in Nat /\ newSize >= MinWindow /\ MinWindow \in Nat
  BY WindowAssumption DEF Larger
<1>5. /\ t \in Seq(Byte) /\ Len(t) \in Nat /\ Len(t) <= size /\ Len(t) <= Len(bytes)
      /\ \A j \in 1 .. Len(t) : t[Len(t) - j + 1] = bytes[Len(bytes) - j + 1]
  BY <1>3, LastBytes
<1> HIDE DEF newSize, t
<1>6. bytes' \in Seq(Byte) /\ start' \in Nat /\ Len(bytes') = start' /\ fl' = << >> /\ Zero \in Byte
  BY <1>1, <1>3, <1>5, EmptySeq DEF Zero, Byte
<1>7. /\ size' \in Nat /\ size' >= MinWindow /\ w' \in Nat /\ w' <= size'
      /\ win' \in [0 .. size' - 1 -> Byte] /\ Holds(win', size', w', bytes')
  <2>1. CASE reset
    <3>1. size' = Larger(size, newSize) /\ w' = 0 /\ win' = [i \in 0 .. size' - 1 |-> Zero]
      BY <1>2, <2>1
    <3>2. size' \in Nat /\ size' >= MinWindow
      BY <1>3, <1>4, <3>1 DEF Larger
    <3>3. Len(bytes') = 0
      BY <1>1, <2>1, EmptySeq
    <3>4. Holds(win', size', w', bytes')
      BY <3>2, <3>3 DEF Holds
    <3> QED
      BY <1>6, <3>1, <3>2, <3>4
  <2>2. CASE ~reset /\ newSize > size
    <3>1. size' = newSize /\ win' = Relaid(newSize) /\ w' = size /\ bytes' = t
      BY <1>1, <1>2, <2>2
    <3>2. size < newSize
      BY <1>3, <1>4, <2>2
    <3>3. Relaid(newSize) \in [0 .. newSize - 1 -> Byte] /\ Holds(Relaid(newSize), newSize, size, t)
      BY <1>3, <1>4, <1>5, <3>2, RelaidHolds
    <3> QED
      BY <1>3, <1>4, <3>1, <3>2, <3>3
  <2>3. CASE ~reset /\ ~(newSize > size)
    <3>1. size' = size /\ win' = win /\ w' = w /\ bytes' = t
      BY <1>1, <1>2, <2>3
    <3>2. Holds(win, size, w, t)
      <4>1. ASSUME NEW j \in 1 .. size, j <= Len(t)
            PROVE  win[(w + size - j) % size] = t[Len(t) - j + 1]
        <5>1. j \in 1 .. Len(t) /\ j <= Len(bytes)
          BY <1>3, <1>5, <4>1
        <5> QED
          BY <1>3, <1>5, <5>1 DEF Holds
      <4> QED
        BY <4>1 DEF Holds
    <3>3. size >= MinWindow /\ w \in Nat /\ w <= size
      BY <1>3, <1>4, <2>3
    <3> QED
      BY <1>3, <3>1, <3>2, <3>3
  <2> QED
    BY <2>1, <2>2, <2>3
<1>8. Len(got') = 0 /\ Len(outbuf') = 0 /\ Len(fl') = 0 /\ Len(marks') = 0 /\ Len(block') = 0
      /\ got' \o outbuf' = << >> /\ ~InBlock'
  <2>1. << >> \in Seq(Byte) /\ Len(<< >>) = 0 /\ << >> \o << >> = << >>
    BY EmptySeq, ConcatEmptySeq
  <2> QED
    BY <1>1, <1>6, <2>1 DEF InBlock
<1>9. Given(got, bytes, start, marks)' /\ Given(got \o outbuf, bytes, start, marks)'
  <2>1. Given(<< >>, bytes', start', << >>)
    <3>1. Len(<< >>) = 0 /\ Len(bytes') - start' = 0 /\ 1 .. 0 = {} /\ 0 <= 0
      <4>1. Len(<< >>) = 0
        BY EmptySeq
      <4>2. 1 .. 0 = {} /\ 0 <= 0 /\ \A x \in Nat : x - x = 0
        OBVIOUS
      <4> QED
        BY <1>6, <4>1, <4>2
    <3>2. \A k \in 1 .. Len(<< >>) : FALSE
      BY <3>1
    <3> QED
      BY <3>1, <3>2 DEF Given
  <2> QED
    BY <1>1, <1>8, <2>1
<1>10. CASE answer' = "error"
  <2>1. marks' \in Seq(Mark) /\ got' \in Seq(Byte) /\ start' <= Len(bytes')
    BY <1>1, <1>6, EmptySeq
  <2> QED
    BY <1>1, <1>6, <1>9, <1>10, <2>1 DEF Refused
<1>11. CASE answer' = "nil"
  <2>1. Types'
    <3>1. r' \in Nat /\ r' <= w'
      BY <1>1, <1>7
    <3>2. files' \in Nat /\ tot' \in Nat /\ want' \in Nat /\ start' <= Len(bytes')
      BY <1>1, <1>3, <1>6
    <3>3. outbuf' \in Seq(Byte) /\ block' \in Seq(Byte) /\ got' \in Seq(Byte) /\ marks' \in Seq(Mark) /\ fl' \in Seq(Queued)
      BY <1>1, <1>6, EmptySeq
    <3> QED
      BY <1>1, <1>6, <1>7, <1>11, <3>1, <3>2, <3>3 DEF Types
  <2>2. Places'
    BY <1>1, <1>7, <1>8 DEF Places
  <2>3. Ends'
    BY <1>1, <1>11 DEF Ends
  <2>4. Ordered(marks)'
    BY <1>8 DEF Ordered
  <2>5. Position'
    <3>1. Len(bytes') - start' = 0 /\ w' - r' = 0 /\ 0 + 0 + 0 = 0
      <4>1. 0 + 0 + 0 = 0 /\ \A x \in Nat : x - x = 0
        OBVIOUS
      <4> QED
        BY <1>1, <1>6, <1>7, <4>1
    <3> QED
      BY <1>1, <1>8, <3>1 DEF Position, Decoded
  <2>6. Waiting' /\ Done'
    BY <1>8 DEF Waiting, Done, Applied
  <2>7. BlockInv'
    BY <1>8 DEF BlockInv
  <2>8. DeliverInv'
    BY <1>1, <1>8, <1>9 DEF DeliverInv
  <2> QED
    BY <1>7, <2>1, <2>2, <2>3, <2>4, <2>5, <2>6, <2>7, <2>8 DEF Working
<1> QED
  BY <1>1, <1>10, <1>11

(* After a file that was refused, nothing is read. *)
LEMMA RefusedEnds == ASSUME Refused, DwNext PROVE FALSE
<1>1. pc = "idle" /\ answer = "error" /\ pc # "fill" /\ pc # "bytes" /\ pc # "block" /\ pc # "next"
      /\ answer # "nil"
  BY DEF Refused
<1>2. ~Literal /\ ~End /\ ~Filled
  BY <1>1 DEF Literal, End, Filled, Decoding
<1>3. \A length, offset : ~Match(length, offset) /\ ~Filter(offset, length)
  BY <1>1 DEF Match, Filter, Decoding
<1>4. (\A n : ~Read(n)) /\ ~Next
  BY <1>1 DEF Read, Next
<1>5. ~Fill("bytes", w = r) /\ ~Fill("block", w = r /\ Len(block) < fl[1].length)
  BY <1>1 DEF Fill
<1>6. ~Plain /\ ~Misplaced /\ ~BlockBegins /\ ~Collect /\ ~ProcessFilter
  BY <1>1 DEF Plain, Misplaced, BlockBegins, Collect, ProcessFilter
<1>7. \A reset, winSize, version : ~Begin(reset, winSize, version)
  BY <1>1 DEF Begin
<1> QED
  BY <1>2, <1>3, <1>4, <1>5, <1>6, <1>7 DEF DwNext

(* Bytes that were lost stay so. *)
LEMMA LostStays == ASSUME DwNext, lost' = "no" PROVE lost = "no"
<1>1. CASE Literal \/ End \/ Filled
  BY <1>1 DEF Literal, End, Filled
<1>2. ASSUME NEW length, NEW offset, Match(length, offset) \/ Filter(offset, length) PROVE lost = "no"
  BY <1>2 DEF Match, Filter
<1>3. ASSUME NEW n, Read(n) \/ Next PROVE lost = "no"
  BY <1>3 DEF Read, Next
<1>4. ASSUME NEW from, NEW ready, Fill(from, ready) PROVE lost = "no"
  BY <1>4 DEF Fill
<1>5. CASE Plain \/ Misplaced \/ BlockBegins \/ Collect \/ ProcessFilter
  BY <1>5 DEF Plain, Misplaced, BlockBegins, Collect, ProcessFilter
<1>6. ASSUME NEW reset, NEW winSize, NEW version, Begin(reset, winSize, version) PROVE lost = "no"
  BY <1>6 DEF Begin
<1> QED
  BY <1>1, <1>2, <1>3, <1>4, <1>5, <1>6 DEF DwNext

LEMMA InitWorks == ASSUME DwInit PROVE Working
<1>1. /\ Len(<< >>) = 0 /\ << >> \in Seq(Byte) /\ << >> \in Seq(Mark) /\ << >> \in Seq(Queued)
      /\ << >> \o << >> = << >>
  BY EmptySeq, ConcatEmptySeq
<1>2. bytes = << >> /\ start = 0 /\ marks = << >> /\ fl = << >> /\ got = << >> /\ outbuf = << >> /\ block = << >>
      /\ size = 0 /\ r = 0 /\ w = 0 /\ tot = 0 /\ files = 0 /\ want = 0 /\ err = "nil" /\ ended = "no"
      /\ pc = "next" /\ caller = "none" /\ answer = "nil" /\ win = [i \in {} |-> Zero]
  BY DEF DwInit
<1>3. win \in [0 .. size - 1 -> Byte]
  <2>1. 0 .. 0 - 1 = {}
    OBVIOUS
  <2> QED
    BY <1>2, <2>1
<1>4. Types
  BY <1>1, <1>2, <1>3 DEF Types
<1>5. Places
  BY <1>2 DEF Places, InBlock
<1>6. Ends
  BY <1>2 DEF Ends
<1>7. Holds(win, size, w, bytes)
  <2>1. \A j \in 1 .. 0 : FALSE
    OBVIOUS
  <2> QED
    BY <1>2, <2>1 DEF Holds
<1>8. Ordered(marks)
  <2>1. \A j \in 1 .. 0 : FALSE
    OBVIOUS
  <2> QED
    BY <1>1, <1>2, <2>1 DEF Ordered
<1>9. BlockInv
  BY <1>2 DEF BlockInv, InBlock
<1>10. DeliverInv
  <2>1. Given(<< >>, << >>, 0, << >>)
    <3>1. 0 <= 0 - 0 /\ \A j \in 1 .. 0 : FALSE
      OBVIOUS
    <3> QED
      BY <1>1, <3>1 DEF Given
  <2> QED
    BY <1>2, <2>1 DEF DeliverInv
<1> QED
  BY <1>2, <1>4, <1>5, <1>6, <1>7, <1>8, <1>9, <1>10 DEF Working

LEMMA WorkingKeeps == ASSUME Working, DwNext, lost' = "no" PROVE Working' \/ Refused'
<1>1. CASE Literal \/ End \/ Filled
  BY <1>1, LiteralKeeps, EndKeeps, FilledKeeps
<1>2. ASSUME NEW length \in 2 .. MaxMatch, NEW offset \in 1 .. size, Match(length, offset) PROVE Working'
  BY <1>2, MatchKeeps
<1>3. ASSUME NEW length \in 1 .. size - 1, NEW offset \in 0 .. size - 1, Filter(offset, length) PROVE Working'
  BY <1>3, FilterKeeps
<1>4. ASSUME NEW n \in 1 .. MaxRead, Read(n) PROVE Working'
  BY <1>4, ReadKeeps
<1>5. CASE Fill("bytes", w = r)
  <2>1. (w = r) \in BOOLEAN /\ "bytes" \in {"bytes", "block"} /\ "bytes" # "block"
    OBVIOUS
  <2> QED
    BY <1>5, <2>1, FillKeeps
<1>6. CASE Fill("block", w = r /\ Len(block) < fl[1].length)
  <2>1. (w = r /\ Len(block) < fl[1].length) \in BOOLEAN /\ "block" \in {"bytes", "block"}
    OBVIOUS
  <2> QED
    BY <1>6, <2>1, FillKeeps
<1>7. CASE Plain \/ BlockBegins \/ Collect \/ ProcessFilter \/ Next
  BY <1>7, PlainKeeps, BlockBeginsKeeps, CollectKeeps, ProcessFilterKeeps, NextKeeps
<1>8. CASE Misplaced
  BY <1>8, MisplacedNever
<1>9. ASSUME NEW reset \in BOOLEAN, NEW winSize \in Windows, NEW version \in Versions, Begin(reset, winSize, version)
      PROVE  Working' \/ Refused'
  BY <1>9, BeginKeeps
<1> QED
  BY <1>1, <1>2, <1>3, <1>4, <1>5, <1>6, <1>7, <1>8, <1>9 DEF DwNext

(* The invariant holds: nothing is lost but by a copy or a filter that says so. *)
THEOREM WindowInvariant == DwSpec => []DwInv
<1>1. DwInit => DwInv
  BY InitWorks DEF DwInv
<1>2. DwInv /\ [DwNext]_dwVars => DwInv'
  <2> SUFFICES ASSUME DwInv, [DwNext]_dwVars, lost' = "no" PROVE Working' \/ Refused'
    BY DEF DwInv
  <2>1. CASE DwNext
    <3>1. Working \/ Refused
      BY <2>1, LostStays DEF DwInv
    <3> QED
      BY <2>1, <3>1, WorkingKeeps, RefusedEnds
  <2>2. CASE UNCHANGED dwVars
    <3>1. /\ UNCHANGED <<solid, files, bytes, start, marks, matches, win, size, r, w, fl>>
          /\ UNCHANGED <<tot, outbuf, err, dec, block, ended, pc, caller, want, got, answer, lost>>
      BY <2>2 DEF dwVars, packedVars, windowVars, streamVars, callVars
    <3>2. (Types' <=> Types) /\ (Places' <=> Places) /\ (Ends' <=> Ends)
      BY <3>1 DEF Types, Places, Ends, InBlock, Decoded
    <3>3. /\ Holds(win, size, w, bytes)' <=> Holds(win, size, w, bytes)
          /\ Ordered(marks)' <=> Ordered(marks)
          /\ (Position' <=> Position) /\ (Waiting' <=> Waiting) /\ (Done' <=> Done)
      BY <3>1 DEF Position, Waiting, Done, Decoded, Applied, InBlock
    <3>4. (BlockInv' <=> BlockInv) /\ (DeliverInv' <=> DeliverInv) /\ (Refused' <=> Refused)
      BY <3>1 DEF BlockInv, DeliverInv, Refused, InBlock, Applied
    <3>5. Working \/ Refused
      BY <3>1 DEF DwInv
    <3> QED
      BY <3>1, <3>2, <3>3, <3>4, <3>5 DEF Working
  <2> QED
    BY <2>1, <2>2
<1> QED
  BY <1>1, <1>2, PTL DEF DwSpec

(* What Reads have given is the file.                                        *)
LEMMA GivenIsPrefix ==
  ASSUME got \in Seq(Byte), bytes \in Seq(Byte), start \in Nat, start <= Len(bytes), marks \in Seq(Mark),
         Given(got, bytes, start, marks)
  PROVE  IsPrefix(got, Unpacked) /\ (Len(got) = Decoded => got = Unpacked)
<1> DEFINE n == Len(bytes) - start
<1>1. n \in Nat /\ Len(got) \in Nat /\ Len(got) <= n
  BY DEF Given
<1>2. /\ Unpacked \in [1 .. n -> Byte]
      /\ \A k \in 1 .. n : Unpacked[k] = Through(bytes[start + k], k, marks)
  <2>1. ASSUME NEW k \in 1 .. n PROVE Through(bytes[start + k], k, marks) \in Byte
    <3>1. start + k \in 1 .. Len(bytes) /\ k \in Int
      BY <1>1
    <3> QED
      BY <3>1, ThroughIsByte
  <2> QED
    BY <2>1 DEF Unpacked
<1>3. Unpacked \in Seq(Byte) /\ Len(Unpacked) = n
  BY <1>1, <1>2, FunctionIsSeq
<1>4. \A k \in 1 .. Len(got) : got[k] = Unpacked[k]
  BY <1>1, <1>2 DEF Given
<1> HIDE DEF n
<1> DEFINE u == Unpacked
<1>5. u \in Seq(Byte) /\ Len(u) = n /\ \A k \in 1 .. Len(got) : got[k] = u[k]
  BY <1>3, <1>4
<1>6. Decoded = n
  BY DEF Decoded, n
<1> HIDE DEF u
<1>7. SubSeq(u, 1, Len(got)) = got
  <2>1. SubSeq(u, 1, Len(got)) \in Seq(Byte) /\ Len(SubSeq(u, 1, Len(got))) = Len(got)
        /\ \A k \in 1 .. Len(got) : SubSeq(u, 1, Len(got))[k] = u[k]
    BY <1>1, <1>5
  <2> HIDE DEF u
  <2> QED
    BY <1>5, <2>1, SeqEqual
<1>8. IsPrefix(got, u)
  BY <1>1, <1>5, <1>7 DEF IsPrefix
<1>9. Len(got) = Decoded => got = u
  BY <1>5, <1>6, SeqEqual
<1> QED
  BY <1>8, <1>9 DEF u

(* Reads give the file that was packed, for any windows, filters and files:  *)
(* bytes and bufBytes give what fill decodes.                                *)
THEOREM DeliversCorrect == DwSpec => []DeliversThePacked
<1>1. DwInv => DeliversThePacked
  <2> SUFFICES ASSUME lost = "no", Working \/ Refused
               PROVE  IsPrefix(got, Unpacked) /\ (answer = "eof" => got = Unpacked)
    BY DEF DwInv, DeliversThePacked
  <2>1. CASE Working
    <3>1. /\ got \in Seq(Byte) /\ bytes \in Seq(Byte) /\ start \in Nat /\ start <= Len(bytes)
          /\ marks \in Seq(Mark)
          /\ Given(got, bytes, start, marks)
      BY <2>1 DEF Working, Types, DeliverInv
    <3>2. answer = "eof" => Len(got) = Decoded
      BY <2>1 DEF Working, Ends
    <3> QED
      BY <3>1, <3>2, GivenIsPrefix
  <2>2. CASE Refused
    BY <2>2, GivenIsPrefix DEF Refused
  <2> QED
    BY <2>1, <2>2
<1> QED
  BY <1>1, WindowInvariant, PTL

(* A file that is well packed is not refused by bytes, fill or the filters.  *)
THEOREM RefusesCorrect == DwSpec => []RefusesTheBroken
<1>1. DwInv => RefusesTheBroken
  BY DEF DwInv, RefusesTheBroken, Working, Types, Refused
<1> QED
  BY <1>1, WindowInvariant, PTL

=============================================================================
