---------------------------- MODULE SendPathProofs ----------------------------
(***************************************************************************)
(* Proofs about SendPath, for any threads, packets, sizes of their parts,  *)
(* size of the socket buffer and of a batch: however the writes are cut,   *)
(* the bytes on the wire are those of the packets in the order of          *)
(* sendData, but for the second byte of an id that was cut in two.         *)
(***************************************************************************)
EXTENDS SendPath, SequenceTheorems, WellFoundedInduction, TLAPS

-----------------------------------------------------------------------------
(* Induction *)

\* The order of the natural numbers as a relation
Less == {ss \in Nat \X Nat : ss[1] < ss[2]}

(* A set of natural numbers has a smallest element. *)
LEMMA Smallest ==
    ASSUME NEW S, S \subseteq Nat, S # {}
    PROVE  \E x \in S : \A y \in S : x <= y
<1>1. IsWellFoundedOn(Less, Nat)
  BY NatLessThanWellFounded DEF Less, OpToRel
<1>2. \A x, y \in Nat : <<x, y>> \in Less <=> x < y
  BY DEF Less
<1>3. PICK x \in S : \A y \in S : ~(<<y, x>> \in Less)
  BY <1>1, WFMin
<1>4. ASSUME NEW y \in S PROVE x <= y
  <2>1. x \in Nat /\ y \in Nat /\ ~(y < x)
    BY <1>2, <1>3
  <2>. QED
    BY <2>1
<1>. QED
  BY <1>3, <1>4

(* Induction over the natural numbers, for a set in place of a predicate: the smallest *)
(* number that is not in the set would have a predecessor in it.                       *)
LEMMA SetInduction ==
    ASSUME NEW S, 0 \in S, \A n \in Nat : n \in S => n + 1 \in S
    PROVE  Nat \subseteq S
<1>. SUFFICES ASSUME NEW k \in Nat, k \notin S PROVE FALSE
  OBVIOUS
<1>. DEFINE T == Nat \ S
<1>1. T \subseteq Nat /\ T # {}
  OBVIOUS
<1>. HIDE DEF T
<1>2. PICK x \in T : \A y \in T : x <= y
  BY <1>1, Smallest
<1>3. x \in Nat /\ x \notin S /\ x # 0
  BY DEF T
<1>4. x - 1 \in Nat /\ x - 1 < x /\ (x - 1) + 1 = x
  BY <1>3
<1>5. x - 1 \notin T
  BY <1>2, <1>3, <1>4
<1>6. x - 1 \in S
  BY <1>4, <1>5 DEF T
<1>. QED
  BY <1>3, <1>4, <1>6

(* ... and from one number on to another. *)
LEMMA RangeInduction ==
    ASSUME NEW S, NEW a \in Nat, NEW b \in Nat, a \in S,
           \A n \in a..b : n \in S /\ n < b => n + 1 \in S
    PROVE  a..b \subseteq S
<1>. DEFINE T == {n \in Nat : a + n <= b => a + n \in S}
<1>1. 0 \in T
  OBVIOUS
<1>2. ASSUME NEW n \in Nat, n \in T PROVE n + 1 \in T
  <2>1. CASE a + (n + 1) <= b
    <3>1. a + n \in a..b /\ a + n < b /\ a + n <= b /\ (a + n) + 1 = a + (n + 1)
      BY <2>1
    <3>2. a + n \in S
      BY <1>2, <3>1
    <3>3. (a + n) + 1 \in S
      BY <3>1, <3>2
    <3>. QED
      BY <3>1, <3>3
  <2>2. CASE ~(a + (n + 1) <= b)
    BY <2>2
  <2>. QED
    BY <2>1, <2>2
<1>. HIDE DEF T
<1>3. Nat \subseteq T
  BY <1>1, <1>2, SetInduction
<1>. SUFFICES ASSUME NEW n \in a..b PROVE n \in S
  OBVIOUS
<1>4. n - a \in Nat /\ a + (n - a) = n /\ n <= b
  OBVIOUS
<1>5. n - a \in T
  BY <1>3, <1>4
<1>. QED
  BY <1>4, <1>5 DEF T

-----------------------------------------------------------------------------
(* Bounds: a function that says where the pieces of a sequence end *)

Bounds(b, n) ==
    /\ b \in [0..n -> Nat] /\ b[0] = 0
    /\ \A i \in 1..n : b[i - 1] <= b[i]

(* Bounds grow. *)
LEMMA BoundsGrow ==
    ASSUME NEW n \in Nat, NEW b, Bounds(b, n), NEW i \in 0..n, NEW j \in i..n
    PROVE  b[i] <= b[j]
<1>. DEFINE S == {k \in i..n : b[i] <= b[k]}
<1>1. i \in S
  BY DEF Bounds
<1>2. ASSUME NEW k \in i..n, k \in S, k < n PROVE k + 1 \in S
  <2>1. k + 1 \in 1..n /\ k + 1 \in i..n /\ (k + 1) - 1 = k /\ k \in 0..n /\ k + 1 \in 0..n /\ i \in 0..n
    BY <1>2
  <2>2. b[k] <= b[k + 1] /\ b[k] \in Nat /\ b[k + 1] \in Nat /\ b[i] \in Nat
    BY <2>1 DEF Bounds
  <2>. QED
    BY <1>2, <2>1, <2>2
<1>. HIDE DEF S
<1>3. i..n \subseteq S
  BY SMTT(60), <1>1, <1>2, RangeInduction
<1>. QED
  BY <1>3 DEF S

(* Every position is in a piece. *)
LEMMA BoundsCover ==
    ASSUME NEW n \in Nat, NEW b, Bounds(b, n), NEW p \in Nat, 1 <= p, p <= b[n]
    PROVE  \E i \in 1..n : b[i - 1] < p /\ p <= b[i]
<1>. DEFINE S == {i \in 0..n : p <= b[i]}
<1>1. S \subseteq Nat /\ n \in S
  OBVIOUS
<1>. HIDE DEF S
<1>2. PICK i \in S : \A j \in S : i <= j
  BY <1>1, Smallest
<1>3. i \in 0..n /\ p <= b[i] /\ i # 0
  BY DEF S, Bounds
<1>4. i \in 1..n /\ i - 1 \in 0..n /\ i - 1 \in Nat /\ ~(i <= i - 1)
  BY <1>3
<1>5. i - 1 \notin S
  BY <1>2, <1>4
<1>6. b[i - 1] \in Nat
  BY <1>4 DEF Bounds
<1>7. b[i - 1] < p
  BY SMTT(60), <1>4, <1>5, <1>6 DEF S
<1>. QED
  BY <1>3, <1>4, <1>7

-----------------------------------------------------------------------------
(* FlattenSeq *)

(* The recursive definition of FlattenSeq has a solution. *)
LEMMA FlattenDef ==
    ASSUME NEW X, NEW seqs \in Seq(Seq(X)), seqs # <<>>
    PROVE  \E f : /\ FlattenSeq(seqs) = f[Len(seqs)]
                  /\ f = [i \in 1..Len(seqs) |-> IF i = 1 THEN seqs[i] ELSE f[i - 1] \o seqs[i]]
<1>. DEFINE Solves(f, n) == f = [i \in 1..n |-> IF i = 1 THEN seqs[i] ELSE f[i - 1] \o seqs[i]]
            S == {n \in Nat : \E f : Solves(f, n)}
<1>1. 0 \in S
  <2>. DEFINE f == [i \in 1..0 |-> <<>>]
  <2>1. Solves(f, 0)
    OBVIOUS
  <2>. HIDE DEF Solves, f
  <2>. QED
    BY <2>1
<1>2. ASSUME NEW n \in Nat, n \in S PROVE n + 1 \in S
  <2>1. PICK f : Solves(f, n)
    BY <1>2
  <2>. DEFINE g == [i \in 1..(n + 1) |->
                      IF i = n + 1 THEN IF i = 1 THEN seqs[i] ELSE f[n] \o seqs[i] ELSE f[i]]
  <2>2. \A i \in 1..n : f[i] = IF i = 1 THEN seqs[i] ELSE f[i - 1] \o seqs[i]
    BY <2>1
  <2>3. ASSUME NEW i \in 1..(n + 1)
        PROVE  g[i] = IF i = 1 THEN seqs[i] ELSE g[i - 1] \o seqs[i]
    <3>1. CASE i = n + 1 /\ i # 1
      <4>1. i - 1 = n /\ n \in 1..(n + 1) /\ n # n + 1
        BY <3>1
      <4>2. g[i] = f[n] \o seqs[i] /\ g[n] = f[n]
        BY <3>1, <4>1
      <4>. HIDE DEF g
      <4>. QED
        BY <3>1, <4>1, <4>2
    <3>2. CASE i # n + 1 /\ i # 1
      <4>1. i \in 1..n /\ i - 1 \in 1..(n + 1) /\ i - 1 # n + 1
        BY <3>2
      <4>2. g[i] = f[i] /\ g[i - 1] = f[i - 1]
        BY <3>2, <4>1
      <4>. QED
        BY <2>2, <3>2, <4>1, <4>2
    <3>3. CASE i = 1
      <4>1. CASE i = n + 1
        BY <3>3, <4>1
      <4>2. CASE i # n + 1
        <5>1. i \in 1..n /\ g[i] = f[i]
          BY <3>3, <4>2
        <5>. QED
          BY <2>2, <3>3, <5>1
      <4>. QED
        BY <4>1, <4>2
    <3>. QED
      BY <3>1, <3>2, <3>3
  <2>4. Solves(g, n + 1)
    BY <2>3
  <2>. HIDE DEF Solves, g
  <2>. QED
    BY <2>4
<1>. HIDE DEF S
<1>3. Len(seqs) \in S
  BY SMTT(60), <1>1, <1>2, SetInduction
<1>4. \E f : Solves(f, Len(seqs))
  BY <1>3 DEF S
<1>5. Len(seqs) # 0
  OBVIOUS
<1>6. FlattenSeq(seqs) = (CHOOSE f : Solves(f, Len(seqs)))[Len(seqs)]
  BY <1>5 DEF FlattenSeq
<1>. HIDE DEF Solves
<1>7. Solves(CHOOSE f : Solves(f, Len(seqs)), Len(seqs))
  BY <1>4
<1>. QED
  BY <1>6, <1>7 DEF Solves

(* A position in a piece is one in the whole. *)
LEMMA InPiece ==
    ASSUME NEW x \in Nat, NEW y \in Nat, NEW z \in Nat, NEW l \in Nat, y = x + l, y <= z, NEW k \in 1..l
    PROVE  x + k \in 1..z
OBVIOUS

(* What FlattenSeq is, if the bounds of the pieces are known. *)
LEMMA FlattenFacts ==
    ASSUME NEW X, NEW seqs \in Seq(Seq(X)), NEW b, Bounds(b, Len(seqs)),
           \A i \in 1..Len(seqs) : b[i] = b[i - 1] + Len(seqs[i])
    PROVE  /\ FlattenSeq(seqs) \in Seq(X) /\ Len(FlattenSeq(seqs)) = b[Len(seqs)]
           /\ \A i \in 1..Len(seqs) : \A k \in 1..Len(seqs[i]) :
                 FlattenSeq(seqs)[b[i - 1] + k] = seqs[i][k]
<1>1. CASE seqs = <<>>
  <2>1. FlattenSeq(seqs) = <<>> /\ Len(seqs) = 0 /\ b[0] = 0 /\ 1..Len(seqs) = {}
    BY <1>1 DEF FlattenSeq, Bounds
  <2>. QED
    BY <2>1
<1>2. CASE seqs # <<>>
  <2>. DEFINE n == Len(seqs)
  <2>1. n \in Nat /\ n >= 1
    BY <1>2
  <2>2. PICK f : /\ FlattenSeq(seqs) = f[Len(seqs)]
                 /\ f = [i \in 1..Len(seqs) |-> IF i = 1 THEN seqs[i] ELSE f[i - 1] \o seqs[i]]
    BY <1>2, FlattenDef
  <2>. DEFINE Good(m) == /\ f[m] \in Seq(X) /\ Len(f[m]) = b[m]
                         /\ \A i \in 1..m : \A k \in 1..Len(seqs[i]) : f[m][b[i - 1] + k] = seqs[i][k]
              S == {m \in 1..n : Good(m)}
  <2>3. \A i \in 1..n : seqs[i] \in Seq(X) /\ Len(seqs[i]) \in Nat
    OBVIOUS
  <2>4. \A i \in 0..n : b[i] \in Nat
    BY DEF Bounds
  <2>. HIDE DEF n
  <2>5. 1 \in S
    <3>1. 1 \in 1..n /\ f[1] = seqs[1] /\ b[0] = 0 /\ b[1] = b[0] + Len(seqs[1])
      BY <2>1, <2>2 DEF Bounds, n
    <3>2. \A i \in 1..1 : i = 1 /\ i - 1 = 0
      OBVIOUS
    <3>. QED
      BY <2>3, <3>1, <3>2
  <2>6. ASSUME NEW m \in 1..n, m \in S, m < n PROVE m + 1 \in S
    <3>1. m + 1 \in 1..n /\ m + 1 # 1 /\ (m + 1) - 1 = m /\ m \in 0..n /\ m + 1 \in 0..n /\ m \in Nat
      BY <2>1, <2>6
    <3>2. f[m + 1] = f[m] \o seqs[m + 1]
      BY <2>2, <3>1 DEF n
    <3>3. Good(m)
      BY <2>6
    <3>4. b[m + 1] = b[m] + Len(seqs[m + 1]) /\ b[m] \in Nat /\ Len(seqs[m + 1]) \in Nat /\ seqs[m + 1] \in Seq(X)
      BY <2>3, <2>4, <3>1 DEF n
    <3>5. /\ f[m + 1] \in Seq(X) /\ Len(f[m + 1]) = b[m + 1]
          /\ \A p \in 1..(b[m] + Len(seqs[m + 1])) : f[m + 1][p] =
                IF p <= b[m] THEN f[m][p] ELSE seqs[m + 1][p - b[m]]
      <4>1. f[m] \in Seq(X) /\ Len(f[m]) = b[m]
        BY <3>3
      <4>. HIDE DEF Good
      <4>2. f[m] \o seqs[m + 1] \in Seq(X) /\ Len(f[m] \o seqs[m + 1]) = Len(f[m]) + Len(seqs[m + 1])
        BY ZenonT(60), <3>4, <4>1, ConcatProperties
      <4>3. \A p \in 1..(Len(f[m]) + Len(seqs[m + 1])) : (f[m] \o seqs[m + 1])[p] =
                IF p <= Len(f[m]) THEN f[m][p] ELSE seqs[m + 1][p - Len(f[m])]
        BY ZenonT(60), <3>4, <4>1, ConcatProperties
      <4>. QED
        BY <3>2, <3>4, <4>1, <4>2, <4>3
    <3>6. ASSUME NEW i \in 1..(m + 1), NEW k \in 1..Len(seqs[i])
          PROVE  f[m + 1][b[i - 1] + k] = seqs[i][k]
      <4>1. CASE i = m + 1
        <5>1. b[m] + k \in 1..(b[m] + Len(seqs[m + 1])) /\ ~(b[m] + k <= b[m]) /\ (b[m] + k) - b[m] = k
          BY SMTT(60), <3>4, <4>1
        <5>. QED
          BY <3>1, <3>5, <4>1, <5>1
      <4>2. CASE i # m + 1
        <5>1. i \in 1..m /\ i \in 1..n /\ i \in 0..n /\ m \in i..n /\ i - 1 \in 0..n
          BY <3>1, <4>2, <2>1
        <5>2. b[i] <= b[m]
          BY <2>1, <3>1, <5>1, BoundsGrow DEF n
        <5>3. b[i] = b[i - 1] + Len(seqs[i]) /\ b[i] \in Nat /\ b[i - 1] \in Nat /\ Len(seqs[i]) \in Nat
          BY <2>3, <2>4, <5>1 DEF n
        <5>4. b[i - 1] + k \in 1..(b[m] + Len(seqs[m + 1])) /\ b[i - 1] + k <= b[m]
          <6>1. b[m] \in Nat /\ Len(seqs[m + 1]) \in Nat
            BY <3>4
          <6>2. b[i - 1] + k \in 1..b[m]
            BY <5>2, <5>3, <6>1, InPiece
          <6>. QED
            BY SMTT(60), <6>1, <6>2
        <5>5. f[m][b[i - 1] + k] = seqs[i][k]
          BY <3>3, <5>1
        <5>. QED
          BY <3>5, <5>4, <5>5
      <4>. QED
        BY <4>1, <4>2
    <3>. QED
      BY <3>1, <3>5, <3>6
  <2>. HIDE DEF S
  <2>7. 1..n \subseteq S
    BY <2>1, <2>5, <2>6, RangeInduction
  <2>8. n \in S
    BY <2>1, <2>7
  <2>. QED
    BY ZenonT(60), <2>2, <2>8 DEF S, n
<1>. QED
  BY <1>1, <1>2

-----------------------------------------------------------------------------
(* Sizes *)

(* The recursive definition of Rest has a solution, *)
LEMMA RestDef ==
    ASSUME NEW tasks, NEW m \in Nat
    PROVE  \E f : /\ Rest(tasks, m) = f[m]
                  /\ f = [i \in 0..m |-> IF i = 0 THEN 0 ELSE f[i - 1] + Remaining(tasks[i])]
<1>. DEFINE Solves(f, n) == f = [i \in 0..n |-> IF i = 0 THEN 0 ELSE f[i - 1] + Remaining(tasks[i])]
            S == {n \in Nat : \E f : Solves(f, n)}
<1>1. 0 \in S
  <2>. DEFINE f == [i \in 0..0 |-> 0]
  <2>1. Solves(f, 0)
    OBVIOUS
  <2>. HIDE DEF Solves, f
  <2>. QED
    BY <2>1
<1>2. ASSUME NEW n \in Nat, n \in S PROVE n + 1 \in S
  <2>1. PICK f : Solves(f, n)
    BY <1>2
  <2>. DEFINE g == [i \in 0..(n + 1) |-> IF i = n + 1 THEN f[n] + Remaining(tasks[i]) ELSE f[i]]
  <2>2. \A i \in 0..n : f[i] = IF i = 0 THEN 0 ELSE f[i - 1] + Remaining(tasks[i])
    BY <2>1
  <2>3. ASSUME NEW i \in 0..(n + 1)
        PROVE  g[i] = IF i = 0 THEN 0 ELSE g[i - 1] + Remaining(tasks[i])
    <3>1. CASE i = n + 1
      <4>1. i - 1 = n /\ n \in 0..(n + 1) /\ n # n + 1 /\ i # 0
        BY <3>1
      <4>2. g[i] = f[n] + Remaining(tasks[i]) /\ g[n] = f[n]
        BY <3>1, <4>1
      <4>. HIDE DEF g
      <4>. QED
        BY <4>1, <4>2
    <3>2. CASE i # n + 1 /\ i # 0
      <4>1. i \in 0..n /\ i - 1 \in 0..(n + 1) /\ i - 1 # n + 1
        BY <3>2
      <4>2. g[i] = f[i] /\ g[i - 1] = f[i - 1]
        BY <3>2, <4>1
      <4>. QED
        BY <2>2, <3>2, <4>1, <4>2
    <3>3. CASE i = 0
      BY <2>2, <3>3
    <3>. QED
      BY <3>1, <3>2, <3>3
  <2>4. Solves(g, n + 1)
    BY <2>3
  <2>. HIDE DEF Solves, g
  <2>. QED
    BY <2>4
<1>. HIDE DEF S
<1>3. m \in S
  BY <1>1, <1>2, SetInduction
<1>4. \E f : Solves(f, m)
  BY <1>3 DEF S
<1>5. Rest(tasks, m) = (CHOOSE f : Solves(f, m))[m]
  BY DEF Rest
<1>. HIDE DEF Solves
<1>6. Solves(CHOOSE f : Solves(f, m), m)
  BY <1>4
<1>. QED
  BY <1>5, <1>6 DEF Solves

(* ... only one, *)
LEMMA RestIs ==
    ASSUME NEW tasks, NEW n \in Nat, NEW b, b[0] = 0,
           \A i \in 1..n : b[i] = b[i - 1] + Remaining(tasks[i])
    PROVE  Rest(tasks, n) = b[n]
<1>1. PICK f : /\ Rest(tasks, n) = f[n]
               /\ f = [i \in 0..n |-> IF i = 0 THEN 0 ELSE f[i - 1] + Remaining(tasks[i])]
  BY ZenonT(60), RestDef
<1>2. f[0] = 0 /\ \A i \in 1..n : f[i] = f[i - 1] + Remaining(tasks[i])
  BY <1>1
<1>. DEFINE S == {i \in 0..n : f[i] = b[i]}
<1>3. 0 \in S
  BY <1>2
<1>4. ASSUME NEW i \in 0..n, i \in S, i < n PROVE i + 1 \in S
  <2>1. i + 1 \in 1..n /\ i + 1 \in 0..n /\ (i + 1) - 1 = i /\ f[i] = b[i]
    BY <1>4
  <2>2. f[i + 1] = f[i] + Remaining(tasks[i + 1]) /\ b[i + 1] = b[i] + Remaining(tasks[i + 1])
    BY <1>2, <2>1
  <2>. QED
    BY <2>1, <2>2
<1>. HIDE DEF S
<1>5. 0..n \subseteq S
  BY <1>3, <1>4, RangeInduction
<1>6. n \in S
  BY <1>5
<1>. QED
  BY <1>1, <1>6 DEF S

(* ... and it is the sum. *)
LEMMA RestStep ==
    ASSUME NEW tasks, NEW n \in Nat
    PROVE  /\ Rest(tasks, 0) = 0
           /\ Rest(tasks, n + 1) = Rest(tasks, n) + Remaining(tasks[n + 1])
<1>1. PICK f : /\ Rest(tasks, n + 1) = f[n + 1]
               /\ f = [i \in 0..(n + 1) |-> IF i = 0 THEN 0 ELSE f[i - 1] + Remaining(tasks[i])]
  BY RestDef, n + 1 \in Nat
<1>2. f[0] = 0 /\ \A i \in 1..(n + 1) : f[i] = f[i - 1] + Remaining(tasks[i])
  BY <1>1
<1>3. \A i \in 1..n : f[i] = f[i - 1] + Remaining(tasks[i])
  BY <1>2
<1>4. Rest(tasks, n) = f[n]
  BY <1>2, <1>3, RestIs
<1>5. Rest(tasks, 0) = f[0]
  BY <1>2, RestIs
<1>6. n + 1 \in 1..(n + 1) /\ (n + 1) - 1 = n
  OBVIOUS
<1>7. f[n + 1] = f[n] + Remaining(tasks[n + 1])
  BY <1>2, <1>6
<1>. QED
  BY <1>1, <1>2, <1>4, <1>5, <1>7

(* The parts of a packet follow each other; the first is not empty, the id has two bytes. *)
LEMMA PartFacts ==
    ASSUME NEW y \in Types
    PROVE  /\ \A k \in 1..4 : PartSizes[y][k] \in Nat
           /\ \A k \in 1..5 : PartStart(y, k) \in Nat
           /\ PartStart(y, 1) = 0
           /\ \A k \in 1..4 : PartStart(y, k + 1) = PartStart(y, k) + PartSizes[y][k]
           /\ PartSizes[y][1] > 0 /\ PartSizes[y][3] \in {0, 2}
           /\ fullSize(y) = PartStart(y, 5)
<1>1. /\ \A k \in 1..4 : PartSizes[y][k] \in Nat
      /\ PartSizes[y][1] > 0 /\ PartSizes[y][3] \in {0, 2}
  BY SendAssumption
<1>. DEFINE Solves(f) == f = [j \in 1..5 |-> IF j = 1 THEN 0 ELSE f[j - 1] + PartSizes[y][j - 1]]
            a == PartSizes[y][1]
            b == a + PartSizes[y][2]
            c == b + PartSizes[y][3]
            d == c + PartSizes[y][4]
            f == [j \in 1..5 |-> IF j = 1 THEN 0 ELSE IF j = 2 THEN a ELSE IF j = 3 THEN b
                                ELSE IF j = 4 THEN c ELSE d]
<1>2. ASSUME NEW j \in 1..5 PROVE f[j] = IF j = 1 THEN 0 ELSE f[j - 1] + PartSizes[y][j - 1]
  <2>1. j \in {1, 2, 3, 4, 5}
    OBVIOUS
  <2>2. f[1] = 0 /\ f[2] = a /\ f[3] = b /\ f[4] = c /\ f[5] = d
    OBVIOUS
  <2>3. 2 - 1 = 1 /\ 3 - 1 = 2 /\ 4 - 1 = 3 /\ 5 - 1 = 4
    OBVIOUS
  <2>. HIDE DEF f
  <2>. QED
    BY <1>1, <2>1, <2>2, <2>3
<1>3. Solves(f)
  <2>1. f = [j \in 1..5 |-> f[j]]
    OBVIOUS
  <2>. HIDE DEF f
  <2>. QED
    BY <1>2, <2>1
<1>4. PartStarts[y] = CHOOSE g : Solves(g)
  BY DEF PartStarts
<1>. HIDE DEF Solves, f
<1>5. Solves(PartStarts[y])
  BY <1>3, <1>4
<1>6. \A j \in 1..5 : PartStarts[y][j] = IF j = 1 THEN 0 ELSE PartStarts[y][j - 1] + PartSizes[y][j - 1]
  BY <1>5 DEF Solves
<1>7. PartStart(y, 1) = 0
  BY <1>6 DEF PartStart
<1>8. ASSUME NEW k \in 1..4 PROVE PartStart(y, k + 1) = PartStart(y, k) + PartSizes[y][k]
  <2>1. k + 1 \in 1..5 /\ k + 1 # 1 /\ (k + 1) - 1 = k
    OBVIOUS
  <2>. QED
    BY <1>6, <2>1 DEF PartStart
<1>9. \A k \in 1..5 : PartStart(y, k) \in Nat
  <2>1. /\ 1 \in 1..4 /\ 2 \in 1..4 /\ 3 \in 1..4 /\ 4 \in 1..4
        /\ 1 + 1 = 2 /\ 2 + 1 = 3 /\ 3 + 1 = 4 /\ 4 + 1 = 5
    OBVIOUS
  <2>2. /\ PartStart(y, 2) = PartStart(y, 1) + PartSizes[y][1] /\ PartStart(y, 3) = PartStart(y, 2) + PartSizes[y][2]
        /\ PartStart(y, 4) = PartStart(y, 3) + PartSizes[y][3] /\ PartStart(y, 5) = PartStart(y, 4) + PartSizes[y][4]
    BY <1>8, <2>1
  <2>3. /\ PartStart(y, 1) \in Nat /\ PartStart(y, 2) \in Nat /\ PartStart(y, 3) \in Nat
        /\ PartStart(y, 4) \in Nat /\ PartStart(y, 5) \in Nat
    BY <1>1, <1>7, <2>1, <2>2
  <2>4. ASSUME NEW k \in 1..5 PROVE k \in {1, 2, 3, 4, 5}
    OBVIOUS
  <2>. QED
    BY <2>3, <2>4
<1>. QED
  BY <1>1, <1>7, <1>8, <1>9 DEF fullSize

(* The same, without quantifiers. *)
LEMMA PartList ==
    ASSUME NEW y \in Types
    PROVE  /\ PartStart(y, 1) = 0 /\ PartStart(y, 2) \in Nat /\ PartStart(y, 3) \in Nat
           /\ PartStart(y, 4) \in Nat /\ PartStart(y, 5) \in Nat
           /\ 0 < PartStart(y, 2) /\ PartStart(y, 2) <= PartStart(y, 3)
           /\ PartStart(y, 3) <= PartStart(y, 4) /\ PartStart(y, 4) <= PartStart(y, 5)
           /\ PartStart(y, 4) = PartStart(y, 3) + PartSizes[y][3]
           /\ PartSizes[y][3] \in {0, 2}
           /\ fullSize(y) = PartStart(y, 5) /\ fullSize(y) \in Nat /\ fullSize(y) > 0
<1>1. /\ 1 \in 1..4 /\ 2 \in 1..4 /\ 3 \in 1..4 /\ 4 \in 1..4
      /\ 1 + 1 = 2 /\ 2 + 1 = 3 /\ 3 + 1 = 4 /\ 4 + 1 = 5
      /\ 1 \in 1..5 /\ 2 \in 1..5 /\ 3 \in 1..5 /\ 4 \in 1..5 /\ 5 \in 1..5
  OBVIOUS
<1>2. /\ PartStart(y, 2) = PartStart(y, 1) + PartSizes[y][1] /\ PartStart(y, 3) = PartStart(y, 2) + PartSizes[y][2]
      /\ PartStart(y, 4) = PartStart(y, 3) + PartSizes[y][3] /\ PartStart(y, 5) = PartStart(y, 4) + PartSizes[y][4]
  BY <1>1, PartFacts
<1>3. /\ PartSizes[y][1] \in Nat /\ PartSizes[y][2] \in Nat /\ PartSizes[y][3] \in Nat /\ PartSizes[y][4] \in Nat
      /\ PartStart(y, 2) \in Nat /\ PartStart(y, 3) \in Nat /\ PartStart(y, 4) \in Nat /\ PartStart(y, 5) \in Nat
  BY <1>1, PartFacts
<1>4. PartStart(y, 1) = 0 /\ PartSizes[y][1] > 0 /\ PartSizes[y][3] \in {0, 2} /\ fullSize(y) = PartStart(y, 5)
  BY PartFacts
<1>5. 0 < PartStart(y, 2)
  BY <1>2, <1>3, <1>4
<1>6. PartStart(y, 2) <= PartStart(y, 3) /\ PartStart(y, 3) <= PartStart(y, 4) /\ PartStart(y, 4) <= PartStart(y, 5)
  BY <1>2, <1>3
<1>7. fullSize(y) \in Nat /\ fullSize(y) > 0
  BY <1>3, <1>4, <1>5, <1>6
<1>. QED
  BY <1>2, <1>3, <1>4, <1>5, <1>6, <1>7

-----------------------------------------------------------------------------
(* constructIOVecs *)

\* Byte b of a packet as it is sent when the task goes on at its offset
TaskByte(task, b) ==
    IF /\ PartSizes[task.packet.type][3] = 2 /\ b = PartStart(task.packet.type, 4)
       /\ task.offset = b - 1
    THEN Foreign ELSE <<task.packet.n, b>>

\* s is the bytes from a + 1 to c
Piece(s, task, a, c) ==
    /\ s \in Seq(Nat \X Nat) /\ Len(s) = c - a
    /\ \A i \in 1..(c - a) : s[i] = TaskByte(task, a + i)

From(task, p) == IF task.offset >= p THEN task.offset ELSE p

(* Two pieces that follow each other are one. *)
LEMMA PieceConcat ==
    ASSUME NEW task, NEW a \in Nat, NEW b \in Nat, NEW c \in Nat, a <= b, b <= c,
           NEW s, NEW t, Piece(s, task, a, b), Piece(t, task, b, c)
    PROVE  Piece(s \o t, task, a, c)
<1>1. s \in Seq(Nat \X Nat) /\ Len(s) = b - a /\ t \in Seq(Nat \X Nat) /\ Len(t) = c - b
  BY DEF Piece
<1>2. /\ s \o t \in Seq(Nat \X Nat) /\ Len(s \o t) = Len(s) + Len(t)
      /\ \A i \in 1..(Len(s) + Len(t)) : (s \o t)[i] = IF i <= Len(s) THEN s[i] ELSE t[i - Len(s)]
  BY ZenonT(60), <1>1, ConcatProperties
<1>3. Len(s) + Len(t) = c - a
  BY <1>1
<1>4. ASSUME NEW i \in 1..(c - a) PROVE (s \o t)[i] = TaskByte(task, a + i)
  <2>1. CASE i <= b - a
    <3>1. i \in 1..(b - a)
      BY <2>1
    <3>. QED
      BY <1>1, <1>2, <1>3, <2>1, <3>1 DEF Piece
  <2>2. CASE ~(i <= b - a)
    <3>1. i - (b - a) \in 1..(c - b) /\ b + (i - (b - a)) = a + i
      BY <2>2
    <3>2. t[i - (b - a)] = TaskByte(task, a + i)
      BY <3>1 DEF Piece
    <3>. QED
      BY <1>1, <1>2, <1>3, <2>2, <3>2
  <2>. QED
    BY <2>1, <2>2
<1>. QED
  BY <1>2, <1>3, <1>4 DEF Piece

(* The vector for a part has what is left of it. *)
LEMMA IOVecFacts ==
    ASSUME NEW task \in InTransitEncodedPacket, NEW k \in 1..4
    PROVE  Piece(IOVec(task, k), task, From(task, PartStart(task.packet.type, k)),
                 From(task, PartStart(task.packet.type, k + 1)))
<1>. DEFINE y == task.packet.type
            n == task.packet.n
            o == task.offset
            size == PartSizes[y][k]
            p == PartStart(y, k)
            q == PartStart(y, k + 1)
            skip == o - p
<1>. SUFFICES Piece(IOVec(task, k), task, From(task, p), From(task, q))
  OBVIOUS
<1>1. y \in Types /\ o \in Nat /\ n \in Nat
  BY SendAssumption DEF InTransitEncodedPacket, Packets
<1>2. p \in Nat /\ q \in Nat /\ size \in Nat /\ q = p + size
  <2>1. k \in 1..5 /\ k + 1 \in 1..5
    OBVIOUS
  <2>. QED
    BY <1>1, <2>1, PartFacts
<1>. DEFINE third == PartStart(y, 3)
            fourth == PartStart(y, 4)
<1>3. /\ k = 1 \/ k = 2 => p <= third /\ q <= third
      /\ k = 3 => p = third /\ q = fourth
      /\ k = 4 => p = fourth /\ q >= fourth
      /\ third \in Nat /\ fourth \in Nat /\ fourth = third + PartSizes[y][3]
  <2>1. k + 1 = 2 <=> k = 1
    OBVIOUS
  <2>2. (k = 1 => k + 1 = 2) /\ (k = 2 => k + 1 = 3) /\ (k = 3 => k + 1 = 4) /\ (k = 4 => k + 1 = 5)
    OBVIOUS
  <2>. QED
    BY <1>1, <2>2, PartList
<1>4. k \in {1, 2, 3, 4}
  OBVIOUS
<1>6. CASE o >= q
  <2>1. IOVec(task, k) = <<>>
    BY <1>6 DEF IOVec
  <2>2. From(task, p) = o /\ From(task, q) = o /\ o - o = 0
    BY <1>1, <1>2, <1>6 DEF From
  <2>3. Piece(<<>>, task, o, o)
    BY <1>1, <2>2 DEF Piece
  <2>. QED
    BY <2>1, <2>2, <2>3
<1>7. CASE o < q /\ skip <= 0
  <2>. DEFINE e(i) == <<n, p + i>>
              s == [i \in 1..size |-> e(i)]
  <2>1. IOVec(task, k) = s
    BY <1>1, <1>2, <1>7 DEF IOVec
  <2>2. From(task, p) = p /\ From(task, q) = q /\ q - p = size
    BY <1>1, <1>2, <1>7 DEF From
  <2>3. s \in Seq(Nat \X Nat) /\ Len(s) = size
    <3>1. \A i \in 1..size : e(i) \in Nat \X Nat
      BY <1>1, <1>2
    <3>2. size \in Nat
      BY SMTT(60), <1>2
    <3>. HIDE DEF e, size
    <3>. QED
      BY <3>1, <3>2
  <2>4. ASSUME NEW i \in 1..size PROVE s[i] = TaskByte(task, p + i)
    <3>1. s[i] = <<n, p + i>>
      OBVIOUS
    <3>2. ~(PartSizes[y][3] = 2 /\ p + i = fourth /\ o = (p + i) - 1)
      BY <1>1, <1>2, <1>3, <1>4, <1>7
    <3>. QED
      BY <3>1, <3>2 DEF TaskByte
  <2>. HIDE DEF s, p, q, size, y
  <2>5. Piece(s, task, p, q)
    BY <2>2, <2>3, <2>4 DEF Piece
  <2>. QED
    BY <2>1, <2>2, <2>5
<1>8. CASE o < q /\ ~(skip <= 0)
  <2>. DEFINE e(i) == IF skip * Unit(k) + i <= size THEN <<n, p + skip * Unit(k) + i>> ELSE Foreign
              s == [i \in 1..(size - skip) |-> e(i)]
  <2>1. IOVec(task, k) = s
    BY <1>1, <1>2, <1>8 DEF IOVec
  <2>2. From(task, p) = o /\ From(task, q) = q /\ q - o = size - skip /\ size - skip \in Nat /\ skip \in Nat
    BY <1>1, <1>2, <1>8 DEF From
  <2>3. ASSUME NEW i \in 1..(size - skip) PROVE e(i) = TaskByte(task, o + i) /\ e(i) \in Nat \X Nat
    <3>1. CASE k = 3
      <4>1. PartSizes[y][3] \in {0, 2}
        BY <1>1, PartList
      <4>2. size = 2 /\ skip = 1 /\ i = 1
        BY <1>1, <1>2, <1>8, <2>2, <3>1, <4>1
      <4>3. Unit(k) = 2 /\ 1 * 2 + 1 = 3 /\ ~(3 <= 2)
        BY <3>1 DEF Unit
      <4>4. e(i) = Foreign
        BY <4>2, <4>3
      <4>5. PartSizes[y][3] = 2 /\ o + i = fourth /\ o = (o + i) - 1
        BY <1>1, <1>2, <1>3, <3>1, <4>2
      <4>. QED
        BY <4>4, <4>5 DEF TaskByte, Foreign
    <3>2. CASE k # 3
      <4>1. Unit(k) = 1 /\ skip * 1 = skip
        BY <2>2, <3>2 DEF Unit
      <4>2. skip + i <= size /\ p + skip + i = o + i
        BY <1>1, <1>2, <2>2
      <4>3. e(i) = <<n, o + i>>
        BY <4>1, <4>2
      <4>4. ~(PartSizes[y][3] = 2 /\ o + i = fourth /\ o = (o + i) - 1)
        BY SMTT(60), <1>1, <1>2, <1>3, <1>4, <1>8, <3>2
      <4>. QED
        BY <1>1, <4>3, <4>4 DEF TaskByte
    <3>. QED
      BY <3>1, <3>2
  <2>. HIDE DEF e
  <2>4. s \in Seq(Nat \X Nat) /\ Len(s) = size - skip /\ \A i \in 1..(size - skip) : s[i] = TaskByte(task, o + i)
    BY SMTT(60), <2>2, <2>3
  <2>. HIDE DEF s, p, q, size, y, skip, o
  <2>5. Piece(s, task, o, q)
    BY <2>2, <2>4 DEF Piece
  <2>. QED
    BY <2>1, <2>2, <2>5
<1>. QED
  BY <1>1, <1>2, <1>6, <1>7, <1>8

(* The vectors of a packet have what is left of it. *)
LEMMA VectorFacts ==
    ASSUME NEW task \in InTransitEncodedPacket, task.offset <= fullSize(task.packet.type)
    PROVE  Piece(constructIOVecs(task), task, task.offset, fullSize(task.packet.type))
<1>. DEFINE y == task.packet.type
            a1 == From(task, PartStart(y, 1))
            a2 == From(task, PartStart(y, 2))
            a3 == From(task, PartStart(y, 3))
            a4 == From(task, PartStart(y, 4))
            a5 == From(task, PartStart(y, 5))
<1>1. y \in Types /\ task.offset \in Nat
  BY DEF InTransitEncodedPacket, Packets
<1>2. /\ a1 \in Nat /\ a2 \in Nat /\ a3 \in Nat /\ a4 \in Nat /\ a5 \in Nat
      /\ a1 <= a2 /\ a2 <= a3 /\ a3 <= a4 /\ a4 <= a5
      /\ a1 = task.offset /\ a5 = fullSize(y)
  BY <1>1, PartList DEF From
<1>3. /\ Piece(IOVec(task, 1), task, a1, a2) /\ Piece(IOVec(task, 2), task, a2, a3)
      /\ Piece(IOVec(task, 3), task, a3, a4) /\ Piece(IOVec(task, 4), task, a4, a5)
  <2>1. /\ 1 \in 1..4 /\ 2 \in 1..4 /\ 3 \in 1..4 /\ 4 \in 1..4
        /\ 1 + 1 = 2 /\ 2 + 1 = 3 /\ 3 + 1 = 4 /\ 4 + 1 = 5
    OBVIOUS
  <2>2. \A k \in 1..4 : Piece(IOVec(task, k), task, From(task, PartStart(y, k)), From(task, PartStart(y, k + 1)))
    BY IOVecFacts
  <2>3. /\ Piece(IOVec(task, 1), task, From(task, PartStart(y, 1)), From(task, PartStart(y, 1 + 1)))
        /\ Piece(IOVec(task, 2), task, From(task, PartStart(y, 2)), From(task, PartStart(y, 2 + 1)))
        /\ Piece(IOVec(task, 3), task, From(task, PartStart(y, 3)), From(task, PartStart(y, 3 + 1)))
        /\ Piece(IOVec(task, 4), task, From(task, PartStart(y, 4)), From(task, PartStart(y, 4 + 1)))
    BY <2>1, <2>2
  <2>. QED
    BY <2>1, <2>3
<1>. HIDE DEF a1, a2, a3, a4, a5
<1>4. Piece(IOVec(task, 1) \o IOVec(task, 2), task, a1, a3) /\ a1 <= a3
  BY <1>2, <1>3, PieceConcat
<1>5. Piece((IOVec(task, 1) \o IOVec(task, 2)) \o IOVec(task, 3), task, a1, a4) /\ a1 <= a4
  BY <1>2, <1>3, <1>4, PieceConcat
<1>6. Piece(((IOVec(task, 1) \o IOVec(task, 2)) \o IOVec(task, 3)) \o IOVec(task, 4), task, a1, a5)
  BY <1>2, <1>3, <1>5, PieceConcat
<1>7. constructIOVecs(task) = ((IOVec(task, 1) \o IOVec(task, 2)) \o IOVec(task, 3)) \o IOVec(task, 4)
  BY DEF constructIOVecs
<1>. QED
  BY <1>2, <1>6, <1>7

-----------------------------------------------------------------------------
(* Positions on the wire *)

\* The packets accepted so far, as they were before the first byte was sent
Whole(acc) == [n \in DOMAIN acc |-> [packet |-> acc[n], offset |-> 0]]

\* The number of bytes of the first n packets: where packet n + 1 starts
Start(acc, n) == Rest(Whole(acc), n)

Size(acc, n) == fullSize(acc[n].type)

(* The packets follow each other. *)
LEMMA StartFacts ==
    ASSUME NEW acc \in Seq(Packets)
    PROVE  /\ Start(acc, 0) = 0
           /\ \A n \in 0..Len(acc) : Start(acc, n) \in Nat
           /\ \A n \in 1..Len(acc) : /\ Size(acc, n) \in Nat /\ Size(acc, n) > 0
                                     /\ Start(acc, n) = Start(acc, n - 1) + Size(acc, n)
<1>1. Start(acc, 0) = 0
  BY RestStep DEF Start
<1>2. ASSUME NEW n \in 1..Len(acc)
      PROVE  /\ Size(acc, n) \in Nat /\ Size(acc, n) > 0
             /\ Start(acc, n) = Start(acc, n - 1) + Size(acc, n)
  <2>1. acc[n].type \in Types
    <3>1. acc[n] \in Packets
      OBVIOUS
    <3>. QED
      BY <3>1 DEF Packets
  <2>2. Size(acc, n) \in Nat /\ Size(acc, n) > 0
    BY <2>1, PartList DEF Size
  <2>3. Remaining(Whole(acc)[n]) = Size(acc, n)
    <3>1. Whole(acc)[n].packet = acc[n] /\ Whole(acc)[n].offset = 0
      BY DEF Whole
    <3>. QED
      BY <2>2, <3>1 DEF Remaining, Size
  <2>4. n - 1 \in Nat /\ (n - 1) + 1 = n
    OBVIOUS
  <2>5. Rest(Whole(acc), (n - 1) + 1) = Rest(Whole(acc), n - 1) + Remaining(Whole(acc)[(n - 1) + 1])
    BY <2>4, RestStep
  <2>. QED
    BY <2>2, <2>3, <2>4, <2>5 DEF Start
<1>. DEFINE S == {n \in 0..Len(acc) : Start(acc, n) \in Nat}
<1>3. 0 \in S
  BY <1>1
<1>4. ASSUME NEW n \in 0..Len(acc), n \in S, n < Len(acc) PROVE n + 1 \in S
  <2>1. n + 1 \in 1..Len(acc) /\ (n + 1) - 1 = n /\ n + 1 \in 0..Len(acc)
    BY <1>4
  <2>2. Start(acc, n + 1) = Start(acc, n) + Size(acc, n + 1) /\ Size(acc, n + 1) \in Nat
    BY <1>2, <2>1
  <2>. QED
    BY <1>4, <2>1, <2>2
<1>. HIDE DEF S
<1>5. 0..Len(acc) \subseteq S
  <2>1. 0 \in Nat /\ Len(acc) \in Nat
    OBVIOUS
  <2>. QED
    BY <1>3, <1>4, <2>1, RangeInduction
<1>. QED
  BY <1>1, <1>2, <1>5 DEF S

(* The same, as bounds. *)
LEMMA StartBounds ==
    ASSUME NEW acc \in Seq(Packets)
    PROVE  Bounds([n \in 0..Len(acc) |-> Start(acc, n)], Len(acc))
<1>. DEFINE b == [n \in 0..Len(acc) |-> Start(acc, n)]
<1>1. b \in [0..Len(acc) -> Nat] /\ b[0] = 0
  BY StartFacts
<1>2. ASSUME NEW i \in 1..Len(acc) PROVE b[i - 1] <= b[i]
  <2>1. b[i] = Start(acc, i) /\ b[i - 1] = Start(acc, i - 1) /\ i - 1 \in 0..Len(acc) /\ i \in 0..Len(acc)
    OBVIOUS
  <2>2. Start(acc, i) = Start(acc, i - 1) + Size(acc, i) /\ Size(acc, i) \in Nat
    BY StartFacts
  <2>3. Start(acc, i - 1) \in Nat
    BY <2>1, StartFacts
  <2>. QED
    BY <2>1, <2>2, <2>3
<1>. QED
  BY <1>1, <1>2 DEF Bounds

(* A later packet starts behind the end of an earlier one. *)
LEMMA StartGrows ==
    ASSUME NEW acc \in Seq(Packets), NEW i \in 0..Len(acc), NEW j \in i..Len(acc)
    PROVE  Start(acc, i) <= Start(acc, j)
<1>. DEFINE b == [n \in 0..Len(acc) |-> Start(acc, n)]
<1>1. Bounds(b, Len(acc)) /\ Len(acc) \in Nat
  BY StartBounds
<1>2. b[i] = Start(acc, i) /\ b[j] = Start(acc, j)
  OBVIOUS
<1>. HIDE DEF b
<1>3. b[i] <= b[j]
  BY <1>1, BoundsGrow
<1>. QED
  BY <1>2, <1>3

(* Every position is that of a byte of a packet. *)
LEMMA StartCover ==
    ASSUME NEW acc \in Seq(Packets), NEW p \in 1..Start(acc, Len(acc))
    PROVE  \E n \in 1..Len(acc) : \E b \in 1..Size(acc, n) : p = Start(acc, n - 1) + b
<1>. DEFINE s == [n \in 0..Len(acc) |-> Start(acc, n)]
<1>1. Bounds(s, Len(acc)) /\ Len(acc) \in Nat
  BY StartBounds
<1>2. s[Len(acc)] = Start(acc, Len(acc)) /\ Start(acc, Len(acc)) \in Nat
  BY StartFacts
<1>3. p \in Nat /\ 1 <= p /\ p <= Start(acc, Len(acc))
  BY <1>2
<1>4. \A n \in 1..Len(acc) : s[n] = Start(acc, n) /\ s[n - 1] = Start(acc, n - 1)
  OBVIOUS
<1>. HIDE DEF s
<1>5. PICK n \in 1..Len(acc) : s[n - 1] < p /\ p <= s[n]
  BY <1>1, <1>2, <1>3, BoundsCover
<1>6. Start(acc, n - 1) < p /\ p <= Start(acc, n)
  BY <1>4, <1>5
<1>7. /\ Start(acc, n) = Start(acc, n - 1) + Size(acc, n) /\ Size(acc, n) \in Nat
      /\ Start(acc, n - 1) \in Nat
  <2>1. n - 1 \in 0..Len(acc)
    OBVIOUS
  <2>. QED
    BY <2>1, StartFacts
<1>8. p - Start(acc, n - 1) \in 1..Size(acc, n) /\ p = Start(acc, n - 1) + (p - Start(acc, n - 1))
  BY <1>3, <1>6, <1>7
<1>. QED
  BY <1>8

(* One more packet does not move the others. *)
LEMMA StartAppend ==
    ASSUME NEW acc \in Seq(Packets), NEW p \in Packets, NEW n \in 0..Len(acc)
    PROVE  Start(Append(acc, p), n) = Start(acc, n)
<1>. DEFINE acc2 == Append(acc, p)
            b == [i \in 0..n |-> Start(acc2, i)]
<1>1. acc2 \in Seq(Packets) /\ Len(acc2) = Len(acc) + 1 /\ \A i \in 1..Len(acc) : acc2[i] = acc[i]
  OBVIOUS
<1>2. b[0] = 0
  <2>1. b[0] = Start(acc2, 0)
    OBVIOUS
  <2>. HIDE DEF acc2, b
  <2>. QED
    BY <1>1, <2>1, StartFacts
<1>3. ASSUME NEW i \in 1..n PROVE b[i] = b[i - 1] + Remaining(Whole(acc)[i])
  <2>1. i \in 1..Len(acc2) /\ i \in 1..Len(acc) /\ i \in DOMAIN acc
    BY <1>1
  <2>2. b[i] = Start(acc2, i) /\ b[i - 1] = Start(acc2, i - 1)
    OBVIOUS
  <2>. HIDE DEF acc2, b
  <2>3. Start(acc2, i) = Start(acc2, i - 1) + Size(acc2, i)
    BY <1>1, <2>1, StartFacts
  <2>4. Size(acc2, i) = Size(acc, i) /\ Size(acc, i) \in Nat
    BY <1>1, <2>1, StartFacts DEF Size
  <2>5. Remaining(Whole(acc)[i]) = Size(acc, i)
    <3>1. Whole(acc)[i].packet = acc[i] /\ Whole(acc)[i].offset = 0
      BY <2>1 DEF Whole
    <3>. QED
      BY <2>4, <3>1 DEF Remaining, Size
  <2>. QED
    BY <2>2, <2>3, <2>4, <2>5
<1>4. b[n] = Start(acc2, n) /\ n \in Nat
  OBVIOUS
<1>. HIDE DEF b
<1>5. Rest(Whole(acc), n) = b[n]
  BY <1>2, <1>3, <1>4, RestIs
<1>. QED
  BY <1>4, <1>5 DEF Start

(* What was to be sent, packet by packet. *)
LEMMA IntendedFacts ==
    ASSUME accepted \in Seq(Packets)
    PROVE  /\ Len(Intended) = Start(accepted, Len(accepted))
           /\ \A n \in 1..Len(accepted) : \A b \in 1..Size(accepted, n) :
                 Intended[Start(accepted, n - 1) + b] = <<n, b>>
<1>. DEFINE N == Len(accepted)
            piece(n) == [i \in 1..Size(accepted, n) |-> <<n, i>>]
            seqs == [n \in DOMAIN accepted |-> piece(n)]
            s == [n \in 0..N |-> Start(accepted, n)]
<1>1. N \in Nat /\ DOMAIN accepted = 1..N
  OBVIOUS
<1>2. ASSUME NEW n \in 1..N PROVE piece(n) \in Seq(Nat \X Nat) /\ Len(piece(n)) = Size(accepted, n)
  <2>. DEFINE e(i) == <<n, i>>
  <2>1. Size(accepted, n) \in Nat /\ n \in Nat
    BY StartFacts
  <2>2. \A i \in 1..Size(accepted, n) : e(i) \in Nat \X Nat
    BY <2>1
  <2>3. piece(n) = [i \in 1..Size(accepted, n) |-> e(i)]
    OBVIOUS
  <2>. HIDE DEF piece, e, N
  <2>. QED
    BY <2>1, <2>2, <2>3
<1>3. \A n \in 1..N : \A b \in 1..Size(accepted, n) : piece(n)[b] = <<n, b>>
  OBVIOUS
<1>4. Intended = FlattenSeq(seqs)
  BY DEF Intended, Size
<1>. HIDE DEF piece
<1>5. seqs \in Seq(Seq(Nat \X Nat)) /\ Len(seqs) = N /\ \A n \in 1..N : seqs[n] = piece(n)
  BY <1>1, <1>2
<1>6. Bounds(s, N)
  BY StartBounds
<1>7. ASSUME NEW n \in 1..N PROVE s[n] = Start(accepted, n) /\ s[n - 1] = Start(accepted, n - 1) /\ s[n] = s[n - 1] + Len(seqs[n])
  <2>1. s[n] = Start(accepted, n) /\ s[n - 1] = Start(accepted, n - 1)
    OBVIOUS
  <2>2. Start(accepted, n) = Start(accepted, n - 1) + Size(accepted, n)
    BY StartFacts
  <2>. QED
    BY <1>2, <1>5, <2>1, <2>2
<1>8. s[N] = Start(accepted, N)
  OBVIOUS
<1>. HIDE DEF seqs, s, N
<1>9. /\ Len(FlattenSeq(seqs)) = s[N]
      /\ \A i \in 1..N : \A k \in 1..Len(seqs[i]) : FlattenSeq(seqs)[s[i - 1] + k] = seqs[i][k]
  <2>1. Bounds(s, Len(seqs)) /\ \A i \in 1..Len(seqs) : s[i] = s[i - 1] + Len(seqs[i])
    BY <1>5, <1>6, <1>7
  <2>2. /\ Len(FlattenSeq(seqs)) = s[Len(seqs)]
        /\ \A i \in 1..Len(seqs) : \A k \in 1..Len(seqs[i]) : FlattenSeq(seqs)[s[i - 1] + k] = seqs[i][k]
    <3>. DEFINE X == Nat \X Nat
    <3>1. seqs \in Seq(Seq(X))
      BY <1>5
    <3>. HIDE DEF X
    <3>. QED
      BY <2>1, <3>1, FlattenFacts
  <2>. QED
    BY <1>5, <2>2
<1>10. ASSUME NEW n \in 1..N, NEW b \in 1..Size(accepted, n)
       PROVE  Intended[Start(accepted, n - 1) + b] = <<n, b>>
  <2>1. seqs[n] = piece(n) /\ Len(seqs[n]) = Size(accepted, n) /\ s[n - 1] = Start(accepted, n - 1)
    BY <1>2, <1>5, <1>7
  <2>2. FlattenSeq(seqs)[s[n - 1] + b] = seqs[n][b]
    BY <1>9, <2>1
  <2>. QED
    BY <1>3, <1>4, <2>1, <2>2
<1>. QED
  BY <1>4, <1>8, <1>9, <1>10 DEF N

-----------------------------------------------------------------------------
(* sendScatter *)

\* The task for packet n, when q bytes have been sent
Task(acc, n, q) ==
    [packet |-> acc[n],
     offset |-> IF Start(acc, n) <= q THEN Size(acc, n)
                ELSE IF Start(acc, n - 1) <= q THEN q - Start(acc, n - 1)
                ELSE 0]

\* The tasks are for the packets after the first base ones
Placed(acc, tasks, base, q) == \A i \in DOMAIN tasks : tasks[i] = Task(acc, base + i, q)

\* There is something to write, and the first of the tasks is the one to go on with
Ready(acc, tasks, base, q) ==
    /\ acc \in Seq(Packets) /\ tasks \in Seq(InTransitEncodedPacket) /\ tasks # <<>>
    /\ base \in Nat /\ base + Len(tasks) <= Len(acc) /\ q \in Nat
    /\ Placed(acc, tasks, base, q)
    /\ Start(acc, base) <= q /\ q < Start(acc, base + 1)

\* Where task i goes on
Position(acc, base, q, i) == IF i = 1 THEN q ELSE Start(acc, base + i - 1)

(* What is left of the tasks. *)
LEMMA ReadyFacts ==
    ASSUME NEW acc, NEW tasks, NEW base, NEW q, Ready(acc, tasks, base, q), NEW i \in 1..Len(tasks)
    PROVE  /\ tasks[i].packet = acc[base + i] /\ base + i \in 1..Len(acc)
           /\ Start(acc, base + i) \in Nat /\ Start(acc, base + i - 1) \in Nat
           /\ Start(acc, base + i) = Start(acc, base + i - 1) + Size(acc, base + i)
           /\ Size(acc, base + i) \in Nat /\ Size(acc, base + i) > 0
           /\ Size(acc, base + i) = fullSize(tasks[i].packet.type)
           /\ tasks[i].offset \in Nat /\ tasks[i].offset < Size(acc, base + i)
           /\ Start(acc, base + i - 1) + tasks[i].offset = Position(acc, base, q, i)
           /\ Remaining(tasks[i]) = Start(acc, base + i) - Position(acc, base, q, i)
           /\ i > 1 => q < Start(acc, base + i - 1) /\ tasks[i].offset = 0
<1>. DEFINE s == Start(acc, base + i - 1)
            e == Start(acc, base + i)
            z == Size(acc, base + i)
<1>1. /\ acc \in Seq(Packets) /\ tasks \in Seq(InTransitEncodedPacket) /\ base \in Nat /\ q \in Nat
      /\ base + Len(tasks) <= Len(acc) /\ Placed(acc, tasks, base, q)
      /\ Start(acc, base) <= q /\ q < Start(acc, base + 1) /\ i \in Nat /\ Len(acc) \in Nat /\ Len(tasks) \in Nat
  BY DEF Ready
<1>2. /\ base + i \in 1..Len(acc) /\ base + i - 1 \in 0..Len(acc) /\ base + i \in 0..Len(acc)
      /\ (base + i) - 1 = base + i - 1 /\ base + 1 \in 0..Len(acc)
  BY <1>1
<1>3. e \in Nat /\ s \in Nat /\ z \in Nat /\ z > 0 /\ e = s + z
  BY <1>1, <1>2, StartFacts
<1>4. /\ tasks[i].packet = acc[base + i]
      /\ tasks[i].offset = IF e <= q THEN z ELSE IF s <= q THEN q - s ELSE 0
  <2>1. i \in DOMAIN tasks
    BY <1>1
  <2>2. tasks[i] = [packet |-> acc[base + i], offset |-> IF e <= q THEN z ELSE IF s <= q THEN q - s ELSE 0]
    BY <1>1, <1>2, <2>1 DEF Placed, Task
  <2>. QED
    BY <2>2
<1>5. i = 1 => s <= q /\ q < e
  <2>1. i = 1 => base + i - 1 = base /\ base + i = base + 1
    BY <1>1
  <2>. QED
    BY <1>1, <2>1
<1>6. i > 1 => q < s
  <2>. SUFFICES ASSUME i > 1 PROVE q < s
    OBVIOUS
  <2>1. base + i - 1 \in (base + 1)..Len(acc)
    BY <1>1, <1>2
  <2>2. Start(acc, base + 1) <= s
    BY <1>1, <1>2, <2>1, StartGrows
  <2>3. Start(acc, base + 1) \in Nat
    BY <1>1, <1>2, StartFacts
  <2>. QED
    BY SMTT(60), <1>1, <1>3, <2>2, <2>3
<1>7. Size(acc, base + i) = fullSize(tasks[i].packet.type)
  BY <1>4 DEF Size
<1>. HIDE DEF s, e
<1>8. /\ tasks[i].offset \in Nat /\ tasks[i].offset < z
      /\ s + tasks[i].offset = IF i = 1 THEN q ELSE s
      /\ i > 1 => tasks[i].offset = 0
  <2>. HIDE DEF z
  <2>1. CASE i = 1
    BY <1>1, <1>3, <1>4, <1>5, <2>1
  <2>2. CASE i > 1
    BY <1>1, <1>3, <1>4, <1>6, <2>2
  <2>. QED
    BY <2>1, <2>2
<1>9. Remaining(tasks[i]) = z - tasks[i].offset
  BY <1>7 DEF Remaining
<1>10. Remaining(tasks[i]) = e - (IF i = 1 THEN q ELSE s)
  BY SMTT(60), <1>1, <1>3, <1>8, <1>9
<1>. QED
  BY <1>2, <1>3, <1>4, <1>6, <1>7, <1>8, <1>10 DEF Position, s, e

\* The bytes of the first i tasks
Left(acc, base, q, i) == IF i = 0 THEN 0 ELSE Start(acc, base + i) - q

(* ... and of the first of them. *)
LEMMA ReadyRest ==
    ASSUME NEW acc, NEW tasks, NEW base, NEW q, Ready(acc, tasks, base, q)
    PROVE  \A i \in 0..Len(tasks) : Rest(tasks, i) = Left(acc, base, q, i) /\ Left(acc, base, q, i) \in Nat
<1>1. base \in Nat /\ q \in Nat /\ Len(tasks) \in Nat
  BY DEF Ready
<1>2. ASSUME NEW i \in 1..Len(tasks)
      PROVE  /\ Left(acc, base, q, i) = Left(acc, base, q, i - 1) + Remaining(tasks[i])
             /\ Left(acc, base, q, i) \in Int /\ Remaining(tasks[i]) \in Nat
  <2>1. /\ Start(acc, base + i) \in Nat /\ Start(acc, base + i - 1) \in Nat
        /\ tasks[i].offset \in Nat /\ tasks[i].offset < Size(acc, base + i) /\ Size(acc, base + i) \in Nat
        /\ Start(acc, base + i) = Start(acc, base + i - 1) + Size(acc, base + i)
        /\ Start(acc, base + i - 1) + tasks[i].offset = Position(acc, base, q, i)
        /\ Remaining(tasks[i]) = Start(acc, base + i) - Position(acc, base, q, i)
    BY ReadyFacts
  <2>2. base + (i - 1) = base + i - 1
    BY <1>1
  <2>3. CASE i = 1
    BY SMTT(60), <1>1, <2>1, <2>3 DEF Left, Position
  <2>4. CASE i > 1
    <3>1. Left(acc, base, q, i) = Start(acc, base + i) - q /\ Left(acc, base, q, i - 1) = Start(acc, base + i - 1) - q
      BY <1>1, <2>2, <2>4 DEF Left
    <3>2. Remaining(tasks[i]) = Start(acc, base + i) - Start(acc, base + i - 1)
      BY <2>1, <2>4 DEF Position
    <3>3. /\ Start(acc, base + i) \in Nat /\ Start(acc, base + i - 1) \in Nat /\ Size(acc, base + i) \in Nat
          /\ Start(acc, base + i) = Start(acc, base + i - 1) + Size(acc, base + i)
      BY <2>1
    <3>4. Remaining(tasks[i]) \in Nat
      BY <3>2, <3>3
    <3>5. Left(acc, base, q, i) \in Int
      BY SMTT(60), <1>1, <3>1, <3>3
    <3>6. Left(acc, base, q, i) = Left(acc, base, q, i - 1) + Remaining(tasks[i])
      BY SMTT(60), <1>1, <3>1, <3>2, <3>3
    <3>. QED
      BY <3>4, <3>5, <3>6
  <2>. QED
    BY <2>3, <2>4
<1>. DEFINE b == [i \in 0..Len(tasks) |-> Left(acc, base, q, i)]
<1>3. b[0] = 0
  BY DEF Left
<1>4. \A i \in 1..Len(tasks) : b[i] = Left(acc, base, q, i) /\ b[i - 1] = Left(acc, base, q, i - 1)
  OBVIOUS
<1>5. \A i \in 0..Len(tasks) : b[i] = Left(acc, base, q, i)
  OBVIOUS
<1>. HIDE DEF b
<1>6. \A i \in 1..Len(tasks) : b[i] = b[i - 1] + Remaining(tasks[i])
  BY <1>2, <1>4
<1>7. ASSUME NEW n \in 0..Len(tasks) PROVE Rest(tasks, n) = b[n]
  <2>1. n \in Nat /\ \A i \in 1..n : b[i] = b[i - 1] + Remaining(tasks[i])
    BY <1>1, <1>6
  <2>. QED
    BY <1>3, <2>1, RestIs
<1>. DEFINE S == {i \in 0..Len(tasks) : b[i] \in Nat}
<1>8. 0 \in S
  BY <1>3
<1>9. ASSUME NEW i \in 0..Len(tasks), i \in S, i < Len(tasks) PROVE i + 1 \in S
  <2>1. i + 1 \in 1..Len(tasks) /\ i + 1 \in 0..Len(tasks) /\ (i + 1) - 1 = i
    BY <1>9
  <2>2. b[i + 1] = b[i] + Remaining(tasks[i + 1]) /\ Remaining(tasks[i + 1]) \in Nat
    BY <1>2, <1>6, <2>1
  <2>. QED
    BY <1>9, <2>1, <2>2
<1>. HIDE DEF S
<1>10. 0..Len(tasks) \subseteq S
  BY <1>1, <1>8, <1>9, RangeInduction
<1>. QED
  BY <1>5, <1>7, <1>10 DEF S

\* The number of tasks that take part in the next write
InWrite(tasks) == IF Len(tasks) < Batch THEN Len(tasks) ELSE Batch

(* What is offered to the socket. *)
LEMMA OfferedFacts ==
    ASSUME NEW acc, NEW tasks, NEW base, NEW q, Ready(acc, tasks, base, q)
    PROVE  /\ InWrite(tasks) \in 1..Len(tasks) /\ InWrite(tasks) <= Batch
           /\ Offered(tasks) \in Seq(Nat \X Nat)
           /\ Len(Offered(tasks)) = Start(acc, base + InWrite(tasks)) - q
           /\ \A i \in 1..InWrite(tasks) : \A b \in (tasks[i].offset + 1)..Size(acc, base + i) :
                 Offered(tasks)[Start(acc, base + i - 1) + b - q] = TaskByte(tasks[i], b)
<1>. DEFINE m == InWrite(tasks)
            batch == InBatch(tasks)
            seqs == [i \in DOMAIN batch |-> constructIOVecs(batch[i])]
            X == Nat \X Nat
            l == [i \in 0..m |-> Left(acc, base, q, i)]
<1>1. /\ tasks \in Seq(InTransitEncodedPacket) /\ Len(tasks) \in Nat /\ Len(tasks) > 0
      /\ base \in Nat /\ q \in Nat /\ Batch \in Nat /\ Batch > 0
  BY SendAssumption DEF Ready
<1>2. m \in 1..Len(tasks) /\ m \in Nat /\ m >= 1 /\ m <= Batch
  BY <1>1 DEF InWrite
<1>. HIDE DEF m
<1>3. batch \in Seq(InTransitEncodedPacket) /\ Len(batch) = m /\ DOMAIN batch = 1..m /\ \A i \in 1..m : batch[i] = tasks[i]
  <2>1. batch = SubSeq(tasks, 1, m)
    BY DEF InBatch, InWrite, m
  <2>2. \A i \in 1..m : tasks[i] \in InTransitEncodedPacket
    BY <1>1, <1>2
  <2>. QED
    BY <1>1, <1>2, <2>1, <2>2, SubSeqProperties
<1>4. Offered(tasks) = FlattenSeq(seqs)
  BY DEF Offered
<1>. HIDE DEF batch
<1>5. ASSUME NEW i \in 1..m
      PROVE  /\ constructIOVecs(tasks[i]) \in Seq(X)
             /\ Len(constructIOVecs(tasks[i])) = Remaining(tasks[i])
             /\ \A b \in (tasks[i].offset + 1)..Size(acc, base + i) :
                   constructIOVecs(tasks[i])[b - tasks[i].offset] = TaskByte(tasks[i], b)
  <2>1. i \in 1..Len(tasks)
    BY <1>2
  <2>2. /\ tasks[i] \in InTransitEncodedPacket
        /\ tasks[i].offset \in Nat /\ tasks[i].offset < Size(acc, base + i) /\ Size(acc, base + i) \in Nat
        /\ Size(acc, base + i) = fullSize(tasks[i].packet.type)
    BY SMTT(60), <1>1, <2>1, ReadyFacts
  <2>3. Piece(constructIOVecs(tasks[i]), tasks[i], tasks[i].offset, Size(acc, base + i))
    BY <2>2, VectorFacts
  <2>4. Remaining(tasks[i]) = Size(acc, base + i) - tasks[i].offset
    BY <2>2 DEF Remaining
  <2>5. ASSUME NEW b \in (tasks[i].offset + 1)..Size(acc, base + i)
        PROVE  constructIOVecs(tasks[i])[b - tasks[i].offset] = TaskByte(tasks[i], b)
    <3>1. /\ b - tasks[i].offset \in 1..(Size(acc, base + i) - tasks[i].offset)
          /\ tasks[i].offset + (b - tasks[i].offset) = b
      BY <2>2
    <3>. QED
      BY <2>3, <3>1 DEF Piece
  <2>. QED
    BY <2>3, <2>4, <2>5 DEF Piece
<1>6. /\ seqs \in Seq(Seq(X)) /\ Len(seqs) = m
      /\ \A i \in 1..m : seqs[i] = constructIOVecs(tasks[i]) /\ Len(seqs[i]) = Remaining(tasks[i])
  <2>. HIDE DEF X
  <2>1. \A i \in 1..m : constructIOVecs(batch[i]) \in Seq(X)
    BY <1>3, <1>5
  <2>2. seqs = [i \in 1..m |-> constructIOVecs(batch[i])]
    BY <1>3
  <2>3. seqs \in Seq(Seq(X)) /\ Len(seqs) = m
    BY <1>2, <2>1, <2>2
  <2>4. \A i \in 1..m : seqs[i] = constructIOVecs(tasks[i])
    BY <1>3, <2>2
  <2>. QED
    BY <1>5, <2>3, <2>4
<1>7. ASSUME NEW i \in 1..m
      PROVE  /\ l[i] = Left(acc, base, q, i) /\ l[i - 1] = Left(acc, base, q, i - 1)
             /\ l[i] = l[i - 1] + Remaining(tasks[i]) /\ Remaining(tasks[i]) \in Nat
             /\ l[i - 1] \in Nat
             /\ l[i - 1] - tasks[i].offset = Start(acc, base + i - 1) - q /\ tasks[i].offset \in Nat
  <2>1. l[i] = Left(acc, base, q, i) /\ l[i - 1] = Left(acc, base, q, i - 1)
    BY <1>2
  <2>2. i \in 1..Len(tasks) /\ i \in 0..Len(tasks) /\ i - 1 \in 0..Len(tasks) /\ i - 1 \in Nat /\ (i - 1) + 1 = i
    BY <1>2
  <2>3. Rest(tasks, i) = Left(acc, base, q, i) /\ Rest(tasks, i - 1) = Left(acc, base, q, i - 1) /\ Left(acc, base, q, i - 1) \in Nat
    BY <2>2, ReadyRest
  <2>4. Rest(tasks, (i - 1) + 1) = Rest(tasks, i - 1) + Remaining(tasks[(i - 1) + 1])
    BY <2>2, RestStep
  <2>5. /\ tasks[i].offset \in Nat /\ Start(acc, base + i - 1) \in Nat /\ Start(acc, base + i) \in Nat
        /\ tasks[i].offset < Size(acc, base + i) /\ Size(acc, base + i) \in Nat
        /\ Start(acc, base + i) = Start(acc, base + i - 1) + Size(acc, base + i)
        /\ Start(acc, base + i - 1) + tasks[i].offset = Position(acc, base, q, i)
        /\ Remaining(tasks[i]) = Start(acc, base + i) - Position(acc, base, q, i)
        /\ i > 1 => tasks[i].offset = 0
    BY <2>2, ReadyFacts
  <2>6. Remaining(tasks[i]) \in Nat
    BY <2>5
  <2>7. Left(acc, base, q, i - 1) - tasks[i].offset = Start(acc, base + i - 1) - q
    <3>1. base + (i - 1) = base + i - 1
      BY <1>1
    <3>2. CASE i = 1
      BY SMTT(60), <1>1, <2>5, <3>2 DEF Left, Position
    <3>3. CASE i > 1
      BY SMTT(60), <1>1, <2>5, <3>1, <3>3 DEF Left, Position
    <3>. QED
      BY <3>2, <3>3
  <2>. QED
    BY <2>1, <2>2, <2>3, <2>4, <2>5, <2>6, <2>7
<1>8. l[m] = Start(acc, base + m) - q
  <2>1. l[m] = Left(acc, base, q, m)
    BY <1>2
  <2>. QED
    BY <1>2, <2>1 DEF Left
<1>9. Bounds(l, m)
  <2>1. l \in [0..m -> Nat]
    <3>1. \A i \in 0..m : Left(acc, base, q, i) \in Nat
      BY <1>2, ReadyRest
    <3>. QED
      BY <3>1
  <2>2. l[0] = 0
    BY <1>2 DEF Left
  <2>. HIDE DEF l
  <2>3. ASSUME NEW i \in 1..m PROVE l[i - 1] <= l[i]
    <3>1. l[i] = l[i - 1] + Remaining(tasks[i]) /\ Remaining(tasks[i]) \in Nat /\ l[i - 1] \in Nat
      BY <1>7
    <3>. QED
      BY <3>1
  <2>. QED
    BY <2>1, <2>2, <2>3 DEF Bounds
<1>. HIDE DEF seqs, l, X
<1>10. /\ FlattenSeq(seqs) \in Seq(X) /\ Len(FlattenSeq(seqs)) = l[m]
       /\ \A i \in 1..m : \A k \in 1..Len(seqs[i]) : FlattenSeq(seqs)[l[i - 1] + k] = seqs[i][k]
  <2>1. seqs \in Seq(Seq(X))
    BY <1>6
  <2>2. Bounds(l, Len(seqs)) /\ \A i \in 1..Len(seqs) : l[i] = l[i - 1] + Len(seqs[i])
    BY <1>6, <1>7, <1>9
  <2>3. /\ FlattenSeq(seqs) \in Seq(X) /\ Len(FlattenSeq(seqs)) = l[Len(seqs)]
        /\ \A i \in 1..Len(seqs) : \A k \in 1..Len(seqs[i]) : FlattenSeq(seqs)[l[i - 1] + k] = seqs[i][k]
    BY <2>1, <2>2, FlattenFacts
  <2>. QED
    BY <1>6, <2>3
<1>11. ASSUME NEW i \in 1..m, NEW b \in (tasks[i].offset + 1)..Size(acc, base + i)
       PROVE  Offered(tasks)[Start(acc, base + i - 1) + b - q] = TaskByte(tasks[i], b)
  <2>1. /\ i \in 1..Len(tasks) /\ tasks[i].offset \in Nat /\ Size(acc, base + i) \in Nat
        /\ Start(acc, base + i - 1) \in Nat /\ Size(acc, base + i) = fullSize(tasks[i].packet.type)
    BY SMTT(60), <1>2, ReadyFacts
  <2>2. Len(seqs[i]) = Size(acc, base + i) - tasks[i].offset /\ seqs[i] = constructIOVecs(tasks[i])
    BY <1>6, <2>1 DEF Remaining
  <2>3. b - tasks[i].offset \in 1..Len(seqs[i])
    BY SMTT(60), <2>1, <2>2
  <2>4. FlattenSeq(seqs)[l[i - 1] + (b - tasks[i].offset)] = seqs[i][b - tasks[i].offset]
    BY <1>10, <2>3
  <2>5. l[i - 1] + (b - tasks[i].offset) = Start(acc, base + i - 1) + b - q
    <3>1. l[i - 1] - tasks[i].offset = Start(acc, base + i - 1) - q /\ l[i - 1] \in Nat
      BY <1>7
    <3>2. b \in Int
      BY <2>1
    <3>3. \A u, v, w, x, y \in Int : u - v = w - x => u + (y - v) = w + y - x
      OBVIOUS
    <3>4. l[i - 1] \in Int /\ tasks[i].offset \in Int /\ Start(acc, base + i - 1) \in Int /\ q \in Int
      BY SMTT(60), <1>1, <2>1, <3>1
    <3>. QED
      BY <3>1, <3>2, <3>3, <3>4
  <2>6. constructIOVecs(tasks[i])[b - tasks[i].offset] = TaskByte(tasks[i], b)
    BY <1>5
  <2>. QED
    BY <1>4, <2>2, <2>4, <2>5, <2>6
<1>. QED
  BY <1>2, <1>4, <1>8, <1>10, <1>11 DEF m, X

(* The result of a write moves the tasks to where the wire ends. *)
LEMMA AdvanceFacts ==
    ASSUME NEW acc, NEW tasks, NEW base, NEW q, Ready(acc, tasks, base, q),
           NEW res \in Nat, q + res <= Start(acc, base + InWrite(tasks))
    PROVE  /\ Advance(tasks, res) \in Seq(InTransitEncodedPacket)
           /\ Len(Advance(tasks, res)) = Len(tasks)
           /\ Placed(acc, Advance(tasks, res), base, q + res)
<1>. DEFINE entry(i) == LET left == res - Rest(tasks, i - 1)
                        IN  IF i > Batch \/ left <= 0
                            THEN tasks[i]
                            ELSE IF Remaining(tasks[i]) <= left
                            THEN [tasks[i] EXCEPT !.offset = fullSize(tasks[i].packet.type)]
                            ELSE [tasks[i] EXCEPT !.offset = @ + left]
            goal(i) == IF Start(acc, base + i) <= q + res THEN Size(acc, base + i)
                       ELSE IF Start(acc, base + i - 1) <= q + res
                       THEN (q + res) - Start(acc, base + i - 1) ELSE 0
<1>1. /\ acc \in Seq(Packets) /\ tasks \in Seq(InTransitEncodedPacket) /\ Len(tasks) \in Nat /\ Len(tasks) > 0
      /\ base \in Nat /\ q \in Nat /\ Batch \in Nat /\ Batch > 0 /\ base + Len(tasks) <= Len(acc) /\ Len(acc) \in Nat
  BY SendAssumption DEF Ready
<1>2. Advance(tasks, res) = [i \in 1..Len(tasks) |-> entry(i)]
  BY <1>1 DEF Advance
<1>3. ASSUME NEW i \in 1..Len(tasks)
      PROVE  entry(i) = [packet |-> acc[base + i], offset |-> goal(i)] /\ entry(i) \in InTransitEncodedPacket
  <2>. DEFINE s == Start(acc, base + i - 1)
              e == Start(acc, base + i)
              z == Size(acc, base + i)
              o == tasks[i].offset
              left == res - Rest(tasks, i - 1)
  <2>1. /\ tasks[i].packet = acc[base + i] /\ e \in Nat /\ s \in Nat /\ z \in Nat /\ z > 0 /\ e = s + z
        /\ z = fullSize(tasks[i].packet.type) /\ o \in Nat /\ o < z
        /\ s + o = Position(acc, base, q, i) /\ Remaining(tasks[i]) = e - Position(acc, base, q, i)
        /\ i > 1 => q < s /\ o = 0
    BY ReadyFacts
  <2>2. tasks[i] \in [packet : Packets, offset : Nat] /\ i \in Nat
    <3>1. tasks[i] \in InTransitEncodedPacket /\ i \in Nat
      BY <1>1
    <3>. QED
      BY <3>1 DEF InTransitEncodedPacket
  <2>3. tasks[i] = [packet |-> acc[base + i], offset |-> o] /\ acc[base + i] \in Packets
    BY <2>1, <2>2
  <2>4. i - 1 \in 0..Len(tasks) /\ base + (i - 1) = base + i - 1
    BY <1>1
  <2>5. Rest(tasks, i - 1) = Left(acc, base, q, i - 1)
    BY <2>4, ReadyRest
  <2>6. left = (q + res) - (s + o) /\ Remaining(tasks[i]) = e - (s + o) /\ s + o = IF i = 1 THEN q ELSE s
    <3>1. CASE i = 1
      <4>1. Rest(tasks, i - 1) = 0
        BY <2>5, <3>1 DEF Left
      <4>. QED
        BY SMTT(60), <1>1, <2>1, <3>1, <4>1 DEF Position
    <3>2. CASE i > 1
      <4>1. Rest(tasks, i - 1) = s - q
        BY <2>2, <2>4, <2>5, <3>2 DEF Left
      <4>2. s + o = s /\ Remaining(tasks[i]) = e - s /\ i # 1
        BY <2>1, <2>2, <3>2 DEF Position
      <4>. HIDE DEF s, e, o
      <4>3. left = (q + res) - s
        BY <1>1, <2>1, <4>1
      <4>. QED
        BY <4>2, <4>3
    <3>. QED
      BY <2>2, <3>1, <3>2
  <2>7. i > Batch => q + res <= s /\ o = 0
    <3>. SUFFICES ASSUME i > Batch PROVE q + res <= s /\ o = 0
      OBVIOUS
    <3>1. InWrite(tasks) = Batch /\ i > 1
      BY <1>1, <2>2 DEF InWrite
    <3>2. base + Batch \in 0..Len(acc) /\ base + i - 1 \in (base + Batch)..Len(acc)
      BY SMTT(60), <1>1, <2>2
    <3>3. Start(acc, base + Batch) <= s /\ Start(acc, base + Batch) \in Nat
      BY <1>1, <3>2, StartGrows, StartFacts
    <3>. QED
      BY SMTT(60), <1>1, <2>1, <3>1, <3>3
  <2>8. (i = 1 \/ (i > 1 /\ o = 0 /\ q < s)) /\ (i = 1 => s + o = q)
    BY <2>1, <2>2, <2>6
  <2>9. goal(i) = IF e <= q + res THEN z ELSE IF s <= q + res THEN (q + res) - s ELSE 0
    OBVIOUS
  <2>. HIDE DEF s, e, z, o, left, goal
  <2>10. CASE i > Batch \/ left <= 0
    <3>1. entry(i) = tasks[i]
      BY <2>10 DEF left
    <3>2. o = goal(i)
      <4>1. CASE i > Batch
        <5>1. q + res <= s /\ o = 0
          BY <2>7, <4>1
        <5>2. ~(e <= q + res)
          BY SMTT(60), <1>1, <2>1, <5>1
        <5>3. s <= q + res => (q + res) - s = o
          BY SMTT(60), <1>1, <2>1, <5>1
        <5>. QED
          BY <2>9, <5>1, <5>2, <5>3
      <4>2. CASE left <= 0
        <5>1. q + res <= s + o
          BY <1>1, <2>1, <2>6, <4>2
        <5>2. ~(e <= q + res)
          BY SMTT(60), <1>1, <2>1, <5>1
        <5>3. s <= q + res => (q + res) - s = o
          BY SMTT(60), <1>1, <2>1, <2>8, <5>1
        <5>4. ~(s <= q + res) => o = 0
          BY <1>1, <2>1, <2>8
        <5>. QED
          BY <2>9, <5>2, <5>3, <5>4
      <4>. QED
        BY <2>10, <4>1, <4>2
    <3>. HIDE DEF entry
    <3>. QED
      BY <2>1, <2>2, <2>3, <3>1, <3>2 DEF InTransitEncodedPacket
  <2>11. CASE ~(i > Batch \/ left <= 0) /\ Remaining(tasks[i]) <= left
    <3>1. entry(i) = [packet |-> acc[base + i], offset |-> z]
      BY <2>1, <2>3, <2>11 DEF left
    <3>2. z = goal(i)
      BY SMTT(60), <1>1, <2>1, <2>6, <2>9, <2>11
    <3>. HIDE DEF entry
    <3>. QED
      BY <2>1, <2>3, <3>1, <3>2 DEF InTransitEncodedPacket
  <2>12. CASE ~(i > Batch \/ left <= 0) /\ ~(Remaining(tasks[i]) <= left)
    <3>1. entry(i) = [packet |-> acc[base + i], offset |-> o + left]
      BY SMTT(60), <2>1, <2>3, <2>12 DEF left
    <3>2. o + left = goal(i) /\ o + left \in Nat
      <4>1. s + o < q + res /\ q + res < e /\ s <= q + res /\ ~(e <= q + res)
        <5>1. left \in Int /\ ~(left <= 0) /\ ~(e - (s + o) <= left)
          BY <1>1, <2>1, <2>6, <2>12
        <5>. QED
          <6>1. left = (q + res) - (s + o)
            BY <2>6
          <6>2. s + o < q + res /\ q + res < e
            BY SMTT(60), <1>1, <2>1, <5>1, <6>1
          <6>. QED
            BY SMTT(60), <1>1, <2>1, <6>2
      <4>2. o + left = (q + res) - s
        BY <1>1, <2>1, <2>6
      <4>. QED
        <5>1. goal(i) = (q + res) - s
          BY <2>9, <4>1
        <5>2. (q + res) - s \in Nat
          BY <1>1, <2>1, <4>1
        <5>. QED
          BY <4>2, <5>1, <5>2
    <3>. HIDE DEF entry
    <3>. QED
      BY SMTT(60), <2>1, <2>3, <3>1, <3>2 DEF InTransitEncodedPacket
  <2>. QED
    BY <2>10, <2>11, <2>12
<1>. HIDE DEF entry
<1>4. /\ Advance(tasks, res) \in Seq(InTransitEncodedPacket) /\ Len(Advance(tasks, res)) = Len(tasks)
      /\ DOMAIN Advance(tasks, res) = 1..Len(tasks)
      /\ \A i \in 1..Len(tasks) : Advance(tasks, res)[i] = entry(i)
  BY <1>1, <1>2, <1>3
<1>5. ASSUME NEW i \in 1..Len(tasks) PROVE entry(i) = Task(acc, base + i, q + res)
  <2>1. Task(acc, base + i, q + res) = [packet |-> acc[base + i], offset |-> goal(i)]
    <3>1. (base + i) - 1 = base + i - 1
      BY <1>1
    <3>. QED
      BY <3>1 DEF Task
  <2>2. entry(i) = [packet |-> acc[base + i], offset |-> goal(i)]
    BY <1>3
  <2>. HIDE DEF goal
  <2>. QED
    BY <2>1, <2>2
<1>. QED
  BY <1>4, <1>5 DEF Placed

(* A packet is done when the wire reaches its end. *)
LEMMA TaskDone ==
    ASSUME NEW acc \in Seq(Packets), NEW n \in 1..Len(acc), NEW q \in Nat
    PROVE  isDone(Task(acc, n, q)) <=> Start(acc, n) <= q
<1>. DEFINE s == Start(acc, n - 1)
            e == Start(acc, n)
            z == Size(acc, n)
            o == Task(acc, n, q).offset
<1>1. e \in Nat /\ s \in Nat /\ z \in Nat /\ z > 0 /\ e = s + z
  <2>1. n \in 0..Len(acc) /\ n - 1 \in 0..Len(acc)
    OBVIOUS
  <2>. QED
    BY <2>1, StartFacts
<1>2. o = IF e <= q THEN z ELSE IF s <= q THEN q - s ELSE 0
  BY DEF Task
<1>3. isDone(Task(acc, n, q)) <=> o >= z
  BY DEF Task, isDone, Size
<1>. HIDE DEF s, e, z, o
<1>4. CASE e <= q
  BY <1>1, <1>2, <1>3, <1>4 DEF e
<1>5. CASE ~(e <= q) /\ s <= q
  BY <1>1, <1>2, <1>3, <1>5 DEF e
<1>6. CASE ~(e <= q) /\ ~(s <= q)
  BY <1>1, <1>2, <1>3, <1>6 DEF e
<1>. QED
  BY <1>4, <1>5, <1>6

(* The packets that remain when the done ones are erased: those that the wire does not *)
(* reach the end of.                                                                   *)
LEMMA EraseFacts ==
    ASSUME NEW acc \in Seq(Packets), NEW tasks \in Seq(InTransitEncodedPacket), NEW base \in Nat, NEW q \in Nat,
           base + Len(tasks) <= Len(acc), Placed(acc, tasks, base, q), Start(acc, base) <= q
    PROVE  \E d \in 0..Len(tasks) :
              /\ EraseDone(tasks) \in Seq(InTransitEncodedPacket)
              /\ Len(EraseDone(tasks)) = Len(tasks) - d
              /\ Placed(acc, EraseDone(tasks), base + d, q)
              /\ Start(acc, base + d) <= q
              /\ EraseDone(tasks) # <<>> => q < Start(acc, base + d + 1)
<1>. DEFINE I == {i \in 1..Len(tasks) : ~isDone(tasks[i])}
<1>1. Len(tasks) \in Nat /\ Len(acc) \in Nat
  OBVIOUS
<1>2. ASSUME NEW i \in 1..Len(tasks)
      PROVE  /\ isDone(tasks[i]) <=> Start(acc, base + i) <= q
             /\ Start(acc, base + i) \in Nat
  <2>1. base + i \in 1..Len(acc) /\ base + i \in 0..Len(acc) /\ i \in DOMAIN tasks
    BY <1>1
  <2>2. tasks[i] = Task(acc, base + i, q)
    BY <2>1 DEF Placed
  <2>. QED
    BY <2>1, <2>2, TaskDone, StartFacts
<1>3. CASE I = {}
  <2>1. SelectInSeq(tasks, LAMBDA k : ~isDone(k)) = 0
    BY <1>3 DEF SelectInSeq
  <2>2. EraseDone(tasks) = <<>>
    BY <2>1 DEF EraseDone
  <2>3. Start(acc, base + Len(tasks)) <= q
    <3>1. CASE Len(tasks) = 0
      BY <3>1
    <3>2. CASE Len(tasks) > 0
      <4>1. Len(tasks) \in 1..Len(tasks)
        BY <1>1, <3>2
      <4>. QED
        BY <1>2, <1>3, <4>1
    <3>. QED
      BY <1>1, <3>1, <3>2
  <2>4. Placed(acc, <<>>, base + Len(tasks), q)
    BY DEF Placed
  <2>. QED
    BY <1>1, <2>2, <2>3, <2>4
<1>4. CASE I # {}
  <2>. DEFINE m == Min(I)
              rest == SubSeq(tasks, m, Len(tasks))
  <2>1. I \subseteq Nat
    OBVIOUS
  <2>2. \E x \in I : \A y \in I : x <= y
    BY <1>4, <2>1, Smallest
  <2>3. m \in I /\ \A y \in I : m <= y
    BY <2>2 DEF Min
  <2>4. SelectInSeq(tasks, LAMBDA k : ~isDone(k)) = m
    BY <1>4 DEF SelectInSeq
  <2>. HIDE DEF m
  <2>5. m \in 1..Len(tasks) /\ m \in Nat /\ ~isDone(tasks[m])
    BY <2>3
  <2>6. EraseDone(tasks) = rest
    <3>1. m # 0
      BY <2>5
    <3>. QED
      BY <2>4, <3>1 DEF EraseDone
  <2>7. \A i \in 1..Len(tasks) : i < m => Start(acc, base + i) <= q
    BY <1>2, <2>3, <2>5
  <2>8. Start(acc, base + (m - 1)) <= q
    <3>1. CASE m = 1
      BY <3>1
    <3>2. CASE m > 1
      <4>1. m - 1 \in 1..Len(tasks) /\ m - 1 < m
        BY <2>5, <3>2
      <4>. QED
        BY <2>7, <4>1
    <3>. QED
      BY <2>5, <3>1, <3>2
  <2>9. q < Start(acc, base + m)
    BY <1>2, <2>5
  <2>10. /\ rest \in Seq(InTransitEncodedPacket) /\ Len(rest) = Len(tasks) - (m - 1)
         /\ \A i \in 1..(Len(tasks) - (m - 1)) : rest[i] = tasks[(m - 1) + i]
    <3>1. \A i \in m..Len(tasks) : tasks[i] \in InTransitEncodedPacket
      BY <2>5
    <3>2. /\ rest \in Seq(InTransitEncodedPacket) /\ Len(rest) = IF m <= Len(tasks) THEN Len(tasks) - m + 1 ELSE 0
          /\ \A i \in 1..(Len(tasks) - m + 1) : rest[i] = tasks[m + i - 1]
      BY <1>1, <2>5, <3>1, SubSeqProperties
    <3>3. m <= Len(tasks) /\ Len(tasks) - m + 1 = Len(tasks) - (m - 1)
      BY <1>1, <2>5
    <3>4. ASSUME NEW i \in 1..(Len(tasks) - (m - 1)) PROVE rest[i] = tasks[(m - 1) + i]
      <4>1. i \in 1..(Len(tasks) - m + 1) /\ m + i - 1 = (m - 1) + i
        BY <1>1, <2>5
      <4>. QED
        BY <3>2, <4>1
    <3>. QED
      BY <3>2, <3>3, <3>4
  <2>. HIDE DEF rest
  <2>11. Placed(acc, rest, base + (m - 1), q)
    <3>. SUFFICES ASSUME NEW i \in DOMAIN rest PROVE rest[i] = Task(acc, base + (m - 1) + i, q)
      BY DEF Placed
    <3>1. i \in 1..(Len(tasks) - (m - 1)) /\ i \in Nat
      BY <2>10
    <3>2. (m - 1) + i \in DOMAIN tasks /\ base + ((m - 1) + i) = base + (m - 1) + i
      BY SMTT(60), <1>1, <2>5, <3>1
    <3>3. rest[i] = tasks[(m - 1) + i]
      BY <2>10, <3>1
    <3>4. tasks[(m - 1) + i] = Task(acc, base + ((m - 1) + i), q)
      BY <3>2 DEF Placed
    <3>. QED
      BY <3>2, <3>3, <3>4
  <2>12. base + (m - 1) + 1 = base + m /\ m - 1 \in 0..Len(tasks)
    BY <1>1, <2>5
  <2>. QED
    BY <2>6, <2>8, <2>9, <2>10, <2>11, <2>12
<1>. QED
  BY <1>3, <1>4

-----------------------------------------------------------------------------
(* What a write leaves behind *)

HasId(acc, n) == PartSizes[acc[n].type][3] = 2
SecondByte(acc, n) == PartStart(acc[n].type, 4)

\* With q bytes on the wire, the ids that are in two pieces are those of which some write
\* sent the first byte last
Split(acc, ids, q) ==
    /\ \A n \in ids : /\ n \in DOMAIN acc /\ HasId(acc, n)
                      /\ Start(acc, n - 1) + SecondByte(acc, n) <= q + 1
    /\ \A n \in DOMAIN acc :
          HasId(acc, n) /\ Start(acc, n - 1) + SecondByte(acc, n) = q + 1 => n \in ids

\* Byte b of packet n as it is, or will be, on the wire
Byte(acc, ids, n, b) ==
    IF HasId(acc, n) /\ b = SecondByte(acc, n) /\ n \in ids THEN Foreign ELSE <<n, b>>

\* The wire, packet by packet
Content(acc, ids, w) ==
    \A n \in DOMAIN acc : \A b \in 1..Size(acc, n) :
        Start(acc, n - 1) + b <= Len(w) => w[Start(acc, n - 1) + b] = Byte(acc, ids, n, b)

Numbered(acc) == \A n \in DOMAIN acc : acc[n].n = n

(* Where the id of a packet is. *)
LEMMA IdFacts ==
    ASSUME NEW acc \in Seq(Packets), NEW n \in 1..Len(acc)
    PROVE  /\ SecondByte(acc, n) \in Nat /\ SecondByte(acc, n) <= Size(acc, n)
           /\ HasId(acc, n) => /\ SecondByte(acc, n) > 2
                               /\ PartStart(acc[n].type, 3) + 1 = SecondByte(acc, n) - 1
           /\ Size(acc, n) \in Nat /\ Size(acc, n) > 0
           /\ Start(acc, n - 1) \in Nat /\ Start(acc, n) \in Nat
           /\ Start(acc, n) = Start(acc, n - 1) + Size(acc, n)
<1>1. acc[n] \in Packets /\ n - 1 \in 0..Len(acc) /\ n \in 0..Len(acc)
  OBVIOUS
<1>2. acc[n].type \in Types
  BY <1>1 DEF Packets
<1>3. /\ PartStart(acc[n].type, 2) \in Nat /\ PartStart(acc[n].type, 3) \in Nat /\ PartStart(acc[n].type, 4) \in Nat
      /\ PartStart(acc[n].type, 5) \in Nat
      /\ 0 < PartStart(acc[n].type, 2) /\ PartStart(acc[n].type, 2) <= PartStart(acc[n].type, 3)
      /\ PartStart(acc[n].type, 4) <= PartStart(acc[n].type, 5)
      /\ PartStart(acc[n].type, 4) = PartStart(acc[n].type, 3) + PartSizes[acc[n].type][3]
      /\ fullSize(acc[n].type) = PartStart(acc[n].type, 5)
  BY <1>2, PartList
<1>4. SecondByte(acc, n) \in Nat /\ SecondByte(acc, n) <= Size(acc, n)
  BY <1>3 DEF SecondByte, Size
<1>5. ASSUME HasId(acc, n)
      PROVE  SecondByte(acc, n) > 2 /\ PartStart(acc[n].type, 3) + 1 = SecondByte(acc, n) - 1
  BY SMTT(60), <1>3, <1>5 DEF SecondByte, HasId
<1>6. /\ Size(acc, n) \in Nat /\ Size(acc, n) > 0
      /\ Start(acc, n - 1) \in Nat /\ Start(acc, n) \in Nat
      /\ Start(acc, n) = Start(acc, n - 1) + Size(acc, n)
  BY <1>1, StartFacts
<1>. QED
  BY <1>4, <1>5, <1>6

(* The ids that a write has cut. *)
LEMMA SplitFacts ==
    ASSUME NEW acc \in Seq(Packets), Numbered(acc), NEW sent \in Seq(InTransitEncodedPacket),
           NEW base \in Nat, NEW q \in Nat, base + Len(sent) <= Len(acc), Placed(acc, sent, base, q), NEW n
    PROVE  n \in SplitAfter(sent) <=>
              /\ n \in (base + 1)..(base + Len(sent)) /\ HasId(acc, n)
              /\ Start(acc, n - 1) + SecondByte(acc, n) = q + 1
<1>1. Len(sent) \in Nat /\ Len(acc) \in Nat
  OBVIOUS
<1>2. ASSUME NEW i \in 1..Len(sent)
      PROVE  /\ sent[i].packet.n = base + i
             /\ (/\ PartSizes[sent[i].packet.type][3] = 2
                 /\ sent[i].offset = PartStart(sent[i].packet.type, 3) + 1)
                <=> /\ HasId(acc, base + i)
                    /\ Start(acc, (base + i) - 1) + SecondByte(acc, base + i) = q + 1
  <2>. DEFINE j == base + i
              s == Start(acc, j - 1)
              e == Start(acc, j)
              z == Size(acc, j)
              b == SecondByte(acc, j)
  <2>1. j \in 1..Len(acc) /\ i \in DOMAIN sent
    BY <1>1
  <2>2. sent[i] = Task(acc, j, q)
    BY <2>1 DEF Placed
  <2>. HIDE DEF j
  <2>3. sent[i].packet = acc[j] /\ sent[i].offset = IF e <= q THEN z ELSE IF s <= q THEN q - s ELSE 0
    BY <2>2 DEF Task
  <2>4. acc[j].n = j
    BY <2>1 DEF Numbered
  <2>5. b \in Nat /\ b <= z /\ z \in Nat /\ z > 0 /\ s \in Nat /\ e \in Nat /\ e = s + z
    BY <2>1, IdFacts
  <2>6. HasId(acc, j) => b > 2 /\ PartStart(acc[j].type, 3) + 1 = b - 1
    BY <2>1, IdFacts
  <2>7. PartSizes[sent[i].packet.type][3] = 2 <=> HasId(acc, j)
    BY <2>3 DEF HasId
  <2>. HIDE DEF s, e, z, b
  <2>8. ASSUME HasId(acc, j) PROVE sent[i].offset = b - 1 <=> s + b = q + 1
    <3>1. CASE e <= q
      BY <2>3, <2>5, <2>6, <2>8, <3>1
    <3>2. CASE ~(e <= q) /\ s <= q
      BY <2>3, <2>5, <2>6, <2>8, <3>2
    <3>3. CASE ~(e <= q) /\ ~(s <= q)
      BY <2>3, <2>5, <2>6, <2>8, <3>3
    <3>. QED
      BY <3>1, <3>2, <3>3
  <2>9. sent[i].packet.type = acc[j].type
    BY <2>3
  <2>10. (/\ PartSizes[sent[i].packet.type][3] = 2
          /\ sent[i].offset = PartStart(sent[i].packet.type, 3) + 1) <=> HasId(acc, j) /\ s + b = q + 1
    BY <2>6, <2>7, <2>8, <2>9
  <2>. QED
    BY <2>3, <2>4, <2>10 DEF j, s, b
<1>3. n \in SplitAfter(sent) <=> \E i \in 1..Len(sent) : /\ n = base + i /\ HasId(acc, base + i)
                                    /\ Start(acc, (base + i) - 1) + SecondByte(acc, base + i) = q + 1
  <2>. DEFINE Cut(i) == /\ PartSizes[sent[i].packet.type][3] = 2
                        /\ sent[i].offset = PartStart(sent[i].packet.type, 3) + 1
  <2>1. n \in SplitAfter(sent) <=> \E i \in 1..Len(sent) : Cut(i) /\ n = sent[i].packet.n
    BY SMTT(60) DEF SplitAfter
  <2>2. \A i \in 1..Len(sent) :
           /\ sent[i].packet.n = base + i
           /\ Cut(i) <=> HasId(acc, base + i) /\ Start(acc, (base + i) - 1) + SecondByte(acc, base + i) = q + 1
    BY <1>2
  <2>. HIDE DEF Cut
  <2>. QED
    BY <2>1, <2>2
<1>4. ASSUME n \in (base + 1)..(base + Len(sent)) PROVE n - base \in 1..Len(sent) /\ base + (n - base) = n
  BY <1>1, <1>4
<1>5. \A i \in 1..Len(sent) : base + i \in (base + 1)..(base + Len(sent))
  BY <1>1
<1>6. ASSUME n \in SplitAfter(sent)
      PROVE  /\ n \in (base + 1)..(base + Len(sent)) /\ HasId(acc, n)
             /\ Start(acc, n - 1) + SecondByte(acc, n) = q + 1
  BY <1>3, <1>5, <1>6
<1>7. ASSUME n \in (base + 1)..(base + Len(sent)), HasId(acc, n),
             Start(acc, n - 1) + SecondByte(acc, n) = q + 1
      PROVE  n \in SplitAfter(sent)
  <2>1. n - base \in 1..Len(sent) /\ base + (n - base) = n
    BY <1>4, <1>7
  <2>. QED
    BY <1>3, <1>7, <2>1
<1>. QED
  BY <1>6, <1>7

(* A write of res bytes: the wire goes on where it ended, with the next bytes of the *)
(* packets, and it is known which ids are in two pieces.                             *)
LEMMA WriteFacts ==
    ASSUME NEW acc, NEW tasks, NEW base, NEW w \in Seq(Nat \X Nat), NEW ids,
           Ready(acc, tasks, base, Len(w)), Numbered(acc), Content(acc, ids, w), Split(acc, ids, Len(w)),
           NEW res \in Nat, res <= Len(Offered(tasks))
    PROVE  LET w2 == w \o SubSeq(Offered(tasks), 1, res)
               ids2 == ids \cup SplitAfter(Advance(tasks, res))
           IN
           /\ w2 \in Seq(Nat \X Nat) /\ Len(w2) = Len(w) + res
           /\ Len(w2) <= Start(acc, base + Len(tasks))
           /\ Content(acc, ids2, w2) /\ Split(acc, ids2, Len(w2))
<1>. DEFINE q == Len(w)
            q2 == q + res
            m == InWrite(tasks)
            offered == Offered(tasks)
            sent == Advance(tasks, res)
            X == Nat \X Nat
            w2 == w \o SubSeq(offered, 1, res)
            ids2 == ids \cup SplitAfter(sent)
<1>. SUFFICES /\ w2 \in Seq(Nat \X Nat) /\ Len(w2) = Len(w) + res
              /\ Len(w2) <= Start(acc, base + Len(tasks))
              /\ Content(acc, ids2, w2) /\ Split(acc, ids2, Len(w2))
  OBVIOUS
<1>1. /\ acc \in Seq(Packets) /\ tasks \in Seq(InTransitEncodedPacket) /\ Len(tasks) \in Nat
      /\ base \in Nat /\ q \in Nat /\ base + Len(tasks) <= Len(acc) /\ Len(acc) \in Nat
      /\ Start(acc, base) <= q
  BY DEF Ready
<1>2. /\ m \in 1..Len(tasks) /\ offered \in Seq(X) /\ Len(offered) = Start(acc, base + m) - q
      /\ \A i \in 1..m : \A b \in (tasks[i].offset + 1)..Size(acc, base + i) :
            offered[Start(acc, base + i - 1) + b - q] = TaskByte(tasks[i], b)
  <2>1. Ready(acc, tasks, base, q)
    OBVIOUS
  <2>. HIDE DEF q
  <2>2. /\ InWrite(tasks) \in 1..Len(tasks)
        /\ Offered(tasks) \in Seq(Nat \X Nat)
        /\ Len(Offered(tasks)) = Start(acc, base + InWrite(tasks)) - q
    BY <2>1, OfferedFacts
  <2>3. \A i \in 1..InWrite(tasks) : \A b \in (tasks[i].offset + 1)..Size(acc, base + i) :
           Offered(tasks)[Start(acc, base + i - 1) + b - q] = TaskByte(tasks[i], b)
    BY <2>1, OfferedFacts
  <2>. QED
    BY <2>2, <2>3
<1>. HIDE DEF X, offered, m, w2, ids2
<1>3. base + m \in 0..Len(acc) /\ m \in Nat /\ m >= 1 /\ base + Len(tasks) \in (base + m)..Len(acc) /\ base \in 0..Len(acc)
      /\ base + Len(tasks) \in 0..Len(acc)
  BY SMTT(60), <1>1, <1>2
<1>4. /\ Start(acc, base + m) \in Nat /\ Start(acc, base) \in Nat /\ Start(acc, base + Len(tasks)) \in Nat
      /\ Start(acc, base + m) <= Start(acc, base + Len(tasks))
  BY <1>1, <1>3, StartFacts, StartGrows
<1>5. Len(offered) \in Nat /\ res \in Nat /\ res <= Len(offered)
  BY <1>2 DEF offered
<1>6. q2 \in Nat /\ q <= q2 /\ q2 <= Start(acc, base + m)
  <2>1. Len(offered) = Start(acc, base + m) - q
    BY <1>2
  <2>. QED
    BY SMTT(60), <1>1, <1>4, <1>5, <2>1
<1>7. /\ sent \in Seq(InTransitEncodedPacket) /\ Len(sent) = Len(tasks) /\ Placed(acc, sent, base, q2)
  BY <1>5, <1>6, AdvanceFacts DEF m
<1>8. /\ SubSeq(offered, 1, res) \in Seq(X) /\ Len(SubSeq(offered, 1, res)) = res
      /\ \A i \in 1..res : SubSeq(offered, 1, res)[i] = offered[i]
  <2>1. \A i \in 1..res : offered[i] \in X
    BY <1>2, <1>5
  <2>2. /\ SubSeq(offered, 1, res) \in Seq(X)
        /\ Len(SubSeq(offered, 1, res)) = IF 1 <= res THEN res - 1 + 1 ELSE 0
        /\ \A i \in 1..(res - 1 + 1) : SubSeq(offered, 1, res)[i] = offered[1 + i - 1]
    BY <1>5, <2>1, SubSeqProperties
  <2>3. res - 1 + 1 = res /\ \A i \in 1..res : 1 + i - 1 = i
    BY <1>5
  <2>. QED
    BY <1>5, <2>2, <2>3
<1>9. /\ w2 \in Seq(X) /\ Len(w2) = q2
      /\ \A p \in 1..q2 : w2[p] = IF p <= q THEN w[p] ELSE offered[p - q]
  <2>. DEFINE t == SubSeq(offered, 1, res)
  <2>1. w \in Seq(X) /\ w2 = w \o t
    BY DEF X, w2
  <2>2. t \in Seq(X) /\ Len(t) = res
    BY <1>8
  <2>3. \A i \in 1..res : t[i] = offered[i]
    BY <1>8
  <2>. HIDE DEF t
  <2>4. /\ w \o t \in Seq(X) /\ Len(w \o t) = Len(w) + Len(t)
        /\ \A p \in 1..(Len(w) + Len(t)) : (w \o t)[p] = IF p <= Len(w) THEN w[p] ELSE t[p - Len(w)]
    BY <2>1, <2>2, ConcatProperties
  <2>5. ASSUME NEW p \in 1..q2, ~(p <= q) PROVE p - q \in 1..res
    BY <1>1, <1>5, <2>5
  <2>. QED
    BY <2>1, <2>2, <2>3, <2>4, <2>5
<1>10. \A n : n \in SplitAfter(sent) <=> /\ n \in (base + 1)..(base + Len(tasks)) /\ HasId(acc, n)
                                         /\ Start(acc, n - 1) + SecondByte(acc, n) = q2 + 1
  <2>. HIDE DEF sent, q2
  <2>1. base + Len(sent) <= Len(acc)
    BY <1>1, <1>7
  <2>2. sent \in Seq(InTransitEncodedPacket) /\ Placed(acc, sent, base, q2) /\ q2 \in Nat
    BY <1>6, <1>7
  <2>3. acc \in Seq(Packets) /\ base \in Nat
    BY <1>1
  <2>4. ASSUME NEW n
        PROVE  n \in SplitAfter(sent) <=> /\ n \in (base + 1)..(base + Len(sent)) /\ HasId(acc, n)
                                          /\ Start(acc, n - 1) + SecondByte(acc, n) = q2 + 1
    BY <2>1, <2>2, <2>3, SplitFacts
  <2>. QED
    BY <1>7, <2>4
<1>. DEFINE new == SplitAfter(sent)
<1>11. ids2 = ids \cup new
  BY DEF ids2
<1>. HIDE DEF new, sent, q2, q
\* A packet that the new part of the wire reaches is one of those written
<1>12. ASSUME NEW n \in 1..Len(acc), NEW p \in Nat, q < p, p <= q2, Start(acc, n - 1) < p, p <= Start(acc, n)
       PROVE  n - base \in 1..m /\ base + (n - base) = n
  <2>1. ~(n <= base)
    <3>. SUFFICES ASSUME n <= base PROVE FALSE
      OBVIOUS
    <3>1. n \in 0..Len(acc) /\ base \in n..Len(acc)
      BY <1>1, <1>3
    <3>2. Start(acc, n) <= Start(acc, base) /\ Start(acc, n) \in Nat
      BY <1>1, <3>1, StartGrows, StartFacts
    <3>. QED
      BY SMTT(60), <1>1, <1>4, <1>12, <3>2
  <2>2. n <= base + m
    <3>. SUFFICES ASSUME n > base + m PROVE FALSE
      BY <1>1, <1>3
    <3>1. n - 1 \in 0..Len(acc) /\ n - 1 \in (base + m)..Len(acc)
      BY <1>1, <1>3
    <3>2. Start(acc, base + m) <= Start(acc, n - 1) /\ Start(acc, n - 1) \in Nat
      BY <1>1, <1>3, <3>1, StartGrows, StartFacts
    <3>. QED
      BY SMTT(60), <1>4, <1>6, <1>12, <3>2
  <2>. QED
    BY <1>1, <1>3, <2>1, <2>2
<1>13. Split(acc, ids2, q2)
  <2>1. ASSUME NEW n \in ids2
        PROVE  /\ n \in DOMAIN acc /\ HasId(acc, n) /\ Start(acc, n - 1) + SecondByte(acc, n) <= q2 + 1
    <3>1. CASE n \in ids
      <4>1. n \in 1..Len(acc) /\ n \in DOMAIN acc /\ HasId(acc, n) /\ Start(acc, n - 1) + SecondByte(acc, n) <= q + 1
        BY <1>1, <3>1 DEF Split, q
      <4>2. Start(acc, n - 1) \in Nat /\ SecondByte(acc, n) \in Nat
        BY <1>1, <4>1, IdFacts
      <4>. QED
        BY SMTT(60), <1>1, <1>6, <4>1, <4>2
    <3>2. CASE n \in new
      <4>1. /\ n \in (base + 1)..(base + Len(tasks)) /\ HasId(acc, n)
            /\ Start(acc, n - 1) + SecondByte(acc, n) = q2 + 1
        BY <1>10, <3>2 DEF new
      <4>2. n \in DOMAIN acc
        BY <1>1, <4>1
      <4>. QED
        BY <1>6, <4>1, <4>2
    <3>. QED
      BY <1>11, <3>1, <3>2
  <2>2. ASSUME NEW n \in DOMAIN acc, HasId(acc, n), Start(acc, n - 1) + SecondByte(acc, n) = q2 + 1
        PROVE  n \in ids2
    <3>. DEFINE b == SecondByte(acc, n)
    <3>1. n \in 1..Len(acc)
      BY <1>1
    <3>2. /\ b \in Nat /\ b > 2 /\ b <= Size(acc, n) /\ Size(acc, n) \in Nat /\ Start(acc, n - 1) \in Nat
          /\ Start(acc, n) = Start(acc, n - 1) + Size(acc, n)
      BY <1>1, <2>2, <3>1, IdFacts
    <3>. HIDE DEF b
    <3>3. CASE q2 = q
      <4>1. Start(acc, n - 1) + SecondByte(acc, n) = q + 1
        BY <2>2, <3>3
      <4>2. n \in ids
        BY <2>2, <4>1 DEF Split, q
      <4>. QED
        BY <1>11, <4>2
    <3>4. CASE q2 # q
      <4>1. q < q2 /\ q2 <= q2 /\ Start(acc, n - 1) < q2 /\ q2 <= Start(acc, n)
        BY SMTT(60), <1>1, <1>6, <2>2, <3>2, <3>4 DEF b
      <4>2. n - base \in 1..m /\ base + (n - base) = n
        BY <1>6, <1>12, <3>1, <4>1
      <4>3. n \in (base + 1)..(base + Len(tasks))
        BY SMTT(60), <1>1, <1>2, <3>1, <4>2
      <4>4. n \in new
        BY <1>10, <2>2, <4>3 DEF new
      <4>. QED
        BY <1>11, <4>4
    <3>. QED
      BY <3>3, <3>4
  <2>. QED
    BY <2>1, <2>2 DEF Split
<1>14. Content(acc, ids2, w2)
  <2>. SUFFICES ASSUME NEW n \in DOMAIN acc, NEW b \in 1..Size(acc, n), Start(acc, n - 1) + b <= q2
                PROVE  w2[Start(acc, n - 1) + b] = Byte(acc, ids2, n, b)
    BY <1>9 DEF Content
  <2>. DEFINE s == Start(acc, n - 1)
              p == s + b
              second == SecondByte(acc, n)
  <2>1. n \in 1..Len(acc)
    BY <1>1
  <2>2. /\ Size(acc, n) \in Nat /\ s \in Nat /\ Start(acc, n) \in Nat /\ Start(acc, n) = s + Size(acc, n)
        /\ second \in Nat
        /\ HasId(acc, n) => second > 2
    BY <1>1, <2>1, IdFacts
  <2>3. b \in Nat /\ b >= 1 /\ b <= Size(acc, n) /\ p \in Nat /\ p >= 1 /\ p <= q2 /\ s < p /\ p <= Start(acc, n)
    BY SMTT(60), <2>2
  <2>4. n \in new /\ b = second => p = q2 + 1
    BY <1>10 DEF new
  <2>5. n \in new /\ b = second => FALSE
    BY <1>6, <2>3, <2>4
  <2>6. Byte(acc, ids2, n, b) = IF HasId(acc, n) /\ b = second /\ n \in ids THEN Foreign ELSE <<n, b>>
    BY <1>11, <2>5 DEF Byte
  <2>7. p \in 1..q2
    BY <1>6, <2>3
  <2>8. CASE p <= q
    <3>1. w[p] = IF HasId(acc, n) /\ b = second /\ n \in ids THEN Foreign ELSE <<n, b>>
      BY <2>8 DEF Content, Byte, q
    <3>2. w2[p] = w[p]
      BY <1>9, <2>7, <2>8
    <3>. QED
      BY <2>6, <3>1, <3>2
  <2>9. CASE ~(p <= q)
    <3>. DEFINE i == n - base
    <3>1. i \in 1..m /\ base + i = n /\ i \in 1..Len(tasks)
      <4>1. q < p
        BY <1>1, <2>3, <2>9
      <4>2. n - base \in 1..m /\ base + (n - base) = n
        BY <1>12, <2>1, <2>3, <4>1
      <4>. QED
        BY SMTT(60), <1>2, <1>1, <4>2
    <3>. HIDE DEF i
    <3>2. base + i - 1 = n - 1 /\ i \in Nat
      BY <1>1, <3>1
    <3>3. /\ tasks[i].packet = acc[n] /\ tasks[i].offset \in Nat
          /\ s + tasks[i].offset = Position(acc, base, q, i)
          /\ i > 1 => q < s /\ tasks[i].offset = 0
      <4>1. Ready(acc, tasks, base, q)
        BY DEF q
      <4>2. /\ tasks[i].packet = acc[base + i] /\ tasks[i].offset \in Nat
            /\ Start(acc, base + i - 1) + tasks[i].offset = Position(acc, base, q, i)
            /\ i > 1 => q < Start(acc, base + i - 1) /\ tasks[i].offset = 0
        BY <3>1, <4>1, ReadyFacts
      <4>. QED
        BY <3>1, <3>2, <4>2
    <3>4. (i = 1 /\ s + tasks[i].offset = q) \/ (i > 1 /\ q < s /\ tasks[i].offset = 0)
      BY <3>1, <3>2, <3>3 DEF Position
    <3>. HIDE DEF s, second
    <3>5. tasks[i].offset < b
      <4>1. q < s + b
        BY <1>1, <2>2, <2>3, <2>9
      <4>2. CASE i = 1 /\ s + tasks[i].offset = q
        <5>1. tasks[i].offset \in Nat /\ s \in Nat /\ b \in Nat
          BY <2>2, <2>3, <3>3
        <5>2. s + tasks[i].offset < s + b
          BY <4>1, <4>2
        <5>. QED
          BY <5>1, <5>2
      <4>3. CASE i > 1 /\ q < s /\ tasks[i].offset = 0
        BY <2>3, <4>3
      <4>. QED
        BY <3>4, <4>2, <4>3
    <3>6. b \in (tasks[i].offset + 1)..Size(acc, base + i)
      BY SMTT(60), <2>2, <2>3, <3>1, <3>3, <3>5
    <3>7. offered[Start(acc, base + i - 1) + b - q] = TaskByte(tasks[i], b)
      BY <1>2, <3>1, <3>6 DEF q
    <3>8. Start(acc, base + i - 1) + b - q = p - q
      <4>1. Start(acc, base + i - 1) = s
        BY <3>2 DEF s
      <4>. QED
        BY <1>1, <2>2, <2>3, <4>1
    <3>9. w2[p] = TaskByte(tasks[i], b)
      BY <1>9, <2>7, <2>9, <3>7, <3>8
    <3>10. TaskByte(tasks[i], b) = IF HasId(acc, n) /\ b = second /\ tasks[i].offset = b - 1 THEN Foreign ELSE <<n, b>>
      <4>1. acc[n].n = n
        BY DEF Numbered
      <4>. QED
        BY <3>3, <4>1 DEF TaskByte, HasId, SecondByte, second
    <3>11. ASSUME HasId(acc, n), b = second PROVE tasks[i].offset = b - 1 <=> n \in ids
      <4>1. b > 2
        BY <2>2, <3>11
      <4>2. ASSUME tasks[i].offset = b - 1 PROVE n \in ids
        <5>1. s + b = q + 1
          BY <1>1, <2>2, <2>3, <3>4, <4>1, <4>2
        <5>. QED
          BY <3>11, <5>1 DEF Split, s, second, q
      <4>3. ASSUME n \in ids PROVE tasks[i].offset = b - 1
        <5>1. s + b <= q + 1
          BY <3>11, <4>3 DEF Split, s, second, q
        <5>. QED
          <6>1. q < s + b
            BY <1>1, <2>2, <2>3, <2>9
          <6>2. CASE i = 1 /\ s + tasks[i].offset = q
            <7>1. tasks[i].offset \in Nat /\ s \in Nat /\ b \in Nat
              BY <2>2, <2>3, <3>3
            <7>2. s + tasks[i].offset < s + b /\ s + b <= (s + tasks[i].offset) + 1
              BY <5>1, <6>1, <6>2
            <7>3. \A u, v, x \in Nat : u + v < u + x /\ u + x <= (u + v) + 1 => v = x - 1
              OBVIOUS
            <7>. QED
              BY <7>1, <7>2, <7>3
          <6>3. CASE i > 1 /\ q < s /\ tasks[i].offset = 0
            BY SMTT(60), <1>1, <2>2, <2>3, <4>1, <5>1, <6>3
          <6>. QED
            BY <3>4, <6>2, <6>3
      <4>. QED
        BY <4>2, <4>3
    <3>. QED
      BY <2>6, <3>9, <3>10, <3>11 DEF s
  <2>. QED
    BY <2>8, <2>9
<1>. QED
  BY <1>4, <1>6, <1>9, <1>13, <1>14 DEF X, q, q2

(* One more packet leaves what is said about the others as it is. *)
LEMMA AcceptFacts ==
    ASSUME NEW acc \in Seq(Packets), NEW p \in Packets, p.n = Len(acc) + 1, NEW acc2, acc2 = Append(acc, p),
           Numbered(acc), NEW w \in Seq(Nat \X Nat), NEW ids, Len(w) <= Start(acc, Len(acc)),
           Content(acc, ids, w), Split(acc, ids, Len(w))
    PROVE  /\ acc2 \in Seq(Packets) /\ Len(acc2) = Len(acc) + 1 /\ acc2[Len(acc) + 1] = p
           /\ \A n \in 0..Len(acc) : Start(acc2, n) = Start(acc, n)
           /\ Numbered(acc2) /\ Content(acc2, ids, w) /\ Split(acc2, ids, Len(w))
           /\ Start(acc2, Len(acc)) < Start(acc2, Len(acc2))
           /\ Task(acc2, Len(acc2), Len(w)) = [packet |-> p, offset |-> 0]
<1>. DEFINE L == Len(acc)
            q == Len(w)
<1>1. L \in Nat /\ q \in Nat /\ DOMAIN acc = 1..L
  OBVIOUS
<1>2. /\ acc2 \in Seq(Packets) /\ Len(acc2) = L + 1 /\ acc2[L + 1] = p /\ DOMAIN acc2 = 1..(L + 1)
      /\ \A n \in 1..L : acc2[n] = acc[n]
  OBVIOUS
<1>3. \A n \in 0..L : Start(acc2, n) = Start(acc, n)
  BY StartAppend
<1>4. ASSUME NEW n \in 1..L
      PROVE  /\ Start(acc2, n - 1) = Start(acc, n - 1) /\ Size(acc2, n) = Size(acc, n)
             /\ HasId(acc2, n) <=> HasId(acc, n)
             /\ SecondByte(acc2, n) = SecondByte(acc, n)
  <2>1. n - 1 \in 0..L /\ acc2[n] = acc[n]
    BY <1>1, <1>2
  <2>. QED
    BY <1>3, <2>1 DEF Size, HasId, SecondByte
<1>. HIDE DEF L
<1>5. /\ Start(acc2, L) = Start(acc, L) /\ Start(acc, L) \in Nat /\ L + 1 \in 1..Len(acc2) /\ (L + 1) - 1 = L
      /\ q <= Start(acc, L)
  <2>1. L \in 0..L
    BY <1>1
  <2>2. Start(acc, L) \in Nat
    BY <2>1, StartFacts DEF L
  <2>. QED
    BY <1>1, <1>2, <1>3, <2>1, <2>2 DEF L
<1>6. /\ Start(acc2, L + 1) = Start(acc2, L) + Size(acc2, L + 1) /\ Size(acc2, L + 1) \in Nat /\ Size(acc2, L + 1) > 0
      /\ SecondByte(acc2, L + 1) \in Nat
      /\ HasId(acc2, L + 1) => SecondByte(acc2, L + 1) > 2
  <2>1. /\ Start(acc2, L + 1) = Start(acc2, (L + 1) - 1) + Size(acc2, L + 1)
        /\ Size(acc2, L + 1) \in Nat /\ Size(acc2, L + 1) > 0
        /\ SecondByte(acc2, L + 1) \in Nat
        /\ HasId(acc2, L + 1) => SecondByte(acc2, L + 1) > 2
    BY <1>2, <1>5, IdFacts
  <2>. QED
    BY <1>5, <2>1
<1>7. Numbered(acc2)
  <2>. SUFFICES ASSUME NEW n \in 1..(L + 1) PROVE acc2[n].n = n
    BY <1>2 DEF Numbered
  <2>1. CASE n = L + 1
    BY <1>2, <2>1 DEF L
  <2>2. CASE n # L + 1
    <3>1. n \in 1..L
      BY <1>1, <2>2
    <3>. QED
      BY <1>1, <1>2, <3>1 DEF Numbered
  <2>. QED
    BY <2>1, <2>2
<1>8. Content(acc2, ids, w)
  <2>. SUFFICES ASSUME NEW n \in 1..(L + 1), NEW b \in 1..Size(acc2, n), Start(acc2, n - 1) + b <= q
                PROVE  w[Start(acc2, n - 1) + b] = Byte(acc2, ids, n, b)
    BY <1>2 DEF Content
  <2>1. CASE n = L + 1
    <3>1. b \in Nat /\ b >= 1 /\ Start(acc2, n - 1) = Start(acc, L)
      BY <1>5, <1>6, <2>1
    <3>. QED
      BY <1>1, <1>5, <3>1
  <2>2. CASE n # L + 1
    <3>1. n \in 1..L
      BY <1>1, <2>2
    <3>2. w[Start(acc, n - 1) + b] = Byte(acc, ids, n, b)
      BY <1>1, <1>4, <3>1 DEF Content
    <3>. QED
      BY <1>4, <3>1, <3>2 DEF Byte
  <2>. QED
    BY <2>1, <2>2
<1>9. Split(acc2, ids, q)
  <2>1. ASSUME NEW n \in ids
        PROVE  n \in 1..(L + 1) /\ HasId(acc2, n) /\ Start(acc2, n - 1) + SecondByte(acc2, n) <= q + 1
    <3>1. n \in 1..L /\ HasId(acc, n) /\ Start(acc, n - 1) + SecondByte(acc, n) <= q + 1
      BY <1>1 DEF Split
    <3>. QED
      BY <1>1, <1>4, <3>1
  <2>2. ASSUME NEW n \in 1..(L + 1), HasId(acc2, n), Start(acc2, n - 1) + SecondByte(acc2, n) = q + 1
        PROVE  n \in ids
    <3>1. CASE n = L + 1
      <4>1. Start(acc2, n - 1) = Start(acc, L) /\ SecondByte(acc2, n) \in Nat /\ SecondByte(acc2, n) > 2
        <5>1. n - 1 = L /\ HasId(acc2, L + 1)
          BY <1>5, <2>2, <3>1
        <5>2. SecondByte(acc2, L + 1) \in Nat /\ SecondByte(acc2, L + 1) > 2
          BY <1>6, <5>1
        <5>. QED
          BY <1>5, <3>1, <5>1, <5>2
      <4>. QED
        BY <1>1, <1>5, <2>2, <4>1
    <3>2. CASE n # L + 1
      <4>1. n \in 1..L
        BY <1>1, <3>2
      <4>. QED
        BY <1>1, <1>4, <2>2, <4>1 DEF Split
    <3>. QED
      BY <3>1, <3>2
  <2>. QED
    BY <1>2, <2>1, <2>2 DEF Split
<1>10. Task(acc2, L + 1, q) = [packet |-> p, offset |-> 0]
  <2>. DEFINE s == Start(acc2, L)
              e == Start(acc2, L + 1)
  <2>1. Task(acc2, L + 1, q) = [packet |-> p, offset |-> IF e <= q THEN Size(acc2, L + 1) ELSE IF s <= q THEN q - s ELSE 0]
    BY <1>2, <1>5 DEF Task
  <2>2. ~(e <= q) /\ (s <= q => q - s = 0)
    BY <1>1, <1>5, <1>6
  <2>. HIDE DEF s, e
  <2>. QED
    BY <2>1, <2>2
<1>11. Start(acc2, L) < Start(acc2, L + 1)
  BY <1>5, <1>6
<1>. QED
  BY <1>2, <1>3, <1>7, <1>8, <1>9, <1>10, <1>11 DEF L

(* ... and the tasks for them where they are. *)
LEMMA AcceptPlaced ==
    ASSUME NEW acc \in Seq(Packets), NEW acc2, NEW p, acc2 = Append(acc, p), NEW tasks \in Seq(InTransitEncodedPacket),
           NEW base \in Nat, NEW q, base + Len(tasks) <= Len(acc), Placed(acc, tasks, base, q), p \in Packets
    PROVE  Placed(acc2, tasks, base, q)
<1>. SUFFICES ASSUME NEW i \in DOMAIN tasks PROVE tasks[i] = Task(acc2, base + i, q)
  BY DEF Placed
<1>. DEFINE n == base + i
<1>1. n \in 1..Len(acc) /\ n \in 0..Len(acc) /\ n - 1 \in 0..Len(acc)
  OBVIOUS
<1>2. tasks[i] = Task(acc, n, q)
  BY DEF Placed
<1>. HIDE DEF n
<1>3. Start(acc2, n) = Start(acc, n) /\ Start(acc2, n - 1) = Start(acc, n - 1)
  BY <1>1, StartAppend
<1>4. acc2[n] = acc[n]
  BY <1>1
<1>5. Task(acc2, n, q) = Task(acc, n, q)
  BY <1>3, <1>4 DEF Task, Size
<1>. QED
  BY <1>2, <1>5 DEF n

-----------------------------------------------------------------------------
(* The invariant *)

\* The types of the variables
Typed ==
    /\ mSendMutex \in Threads \cup {Null}
    /\ mSendTasks \in Seq(InTransitEncodedPacket)
    /\ sending \in [Threads -> Seq(InTransitEncodedPacket)]
    /\ mSendError \in BOOLEAN /\ mState \in {"OTHER", "INVALID_PROTOCOL_VERSION"}
    /\ room \in 0..BufferSize
    /\ cutShort \in BOOLEAN /\ epollOut \in BOOLEAN /\ broken \in BOOLEAN /\ logout \in BOOLEAN
    /\ overlong \in BOOLEAN
    /\ handling \subseteq Receivers
    /\ wire \in Seq(Nat \X Nat) /\ accepted \in Seq(Packets) /\ Len(accepted) <= MaxPackets

\* The packets that are neither queued nor in the hand of sendData
Gone == Len(accepted) - Len(mSendTasks) - (IF mSendMutex = Null THEN 0 ELSE 1)

\* sendData has a packet in hand only while it owns mSendMutex, and after an error nothing
\* is sent any more
HandInv ==
    /\ \A t \in Threads : t # mSendMutex => sending[t] = <<>>
    /\ mSendError => /\ broken /\ mSendTasks = <<>>
                     /\ \A t \in Threads : sending[t] = <<>>
    /\ ~mSendError /\ mSendMutex # Null => Len(sending[mSendMutex]) = 1

\* Without an error the packets that are not gone are queued or in hand, in order, and
\* their offsets are what the bytes on the wire make them
PlaceInv ==
    /\ Len(wire) <= Start(accepted, Len(accepted))
    /\ ~mSendError =>
         /\ Gone \in Nat
         /\ Start(accepted, Gone) <= Len(wire)
         /\ Placed(accepted, mSendTasks, Gone, Len(wire))
         /\ mSendTasks # <<>> => Len(wire) < Start(accepted, Gone + 1)
         /\ mSendMutex # Null => sending[mSendMutex][1] = Task(accepted, Len(accepted), Len(wire))

\* A client of an unknown version is sent nothing after the CONNACK
LogoutInv ==
    logout /\ ~broken => /\ mState = "INVALID_PROTOCOL_VERSION" /\ accepted # <<>>
                         /\ mSendTasks = <<>> /\ mSendMutex = Null

WireInv ==
    /\ Numbered(accepted) /\ Content(accepted, splitIds, wire)
    /\ Split(accepted, splitIds, Len(wire))

Inv == Typed /\ HandInv /\ PlaceInv /\ LogoutInv /\ WireInv

-----------------------------------------------------------------------------
(* Initially *)

(* Nothing is queued, in hand or on the wire when a client is new. *)
LEMMA InitInv == Init => Inv
<1>. SUFFICES ASSUME Init PROVE Inv
  OBVIOUS
<1>1. Typed
  <2>1. room \in 0..BufferSize
    BY SendAssumption DEF Init
  <2>2. accepted \in Seq(Packets) /\ Len(accepted) <= MaxPackets
    BY SendAssumption DEF Init
  <2>3. sending \in [Threads -> Seq(InTransitEncodedPacket)]
    BY DEF Init
  <2>4. mSendTasks \in Seq(InTransitEncodedPacket) /\ wire \in Seq(Nat \X Nat)
    BY DEF Init
  <2>5. /\ mSendError \in BOOLEAN /\ cutShort \in BOOLEAN /\ epollOut \in BOOLEAN /\ broken \in BOOLEAN
        /\ logout \in BOOLEAN /\ overlong \in BOOLEAN /\ handling \subseteq Receivers
        /\ mSendMutex \in Threads \cup {Null} /\ mState \in {"OTHER", "INVALID_PROTOCOL_VERSION"}
    BY Zenon DEF Init
  <2>. QED
    BY <2>1, <2>2, <2>3, <2>4, <2>5 DEF Typed
<1>2. Len(accepted) = 0 /\ Len(wire) = 0 /\ Len(mSendTasks) = 0 /\ DOMAIN accepted = {} /\ DOMAIN mSendTasks = {}
  BY DEF Init
<1>3. HandInv
  BY DEF Init, HandInv
<1>4. Start(accepted, 0) = 0
  BY <1>1, StartFacts DEF Typed
<1>5. Gone = 0
  BY <1>2 DEF Gone, Init
<1>6. PlaceInv
  BY <1>2, <1>4, <1>5 DEF PlaceInv, Placed, Init
<1>7. LogoutInv
  BY DEF LogoutInv, Init
<1>8. WireInv
  BY <1>2 DEF WireInv, Numbered, Content, Split, Init
<1>. QED
  BY <1>1, <1>3, <1>6, <1>7, <1>8 DEF Inv

-----------------------------------------------------------------------------
(* The steps *)

(* The queue of a state in which nobody is in sendData, or sendData has a packet in hand. *)
LEMMA QueueReady ==
    ASSUME Inv, mSendTasks # <<>>
    PROVE  /\ ~mSendError /\ Gone \in Nat /\ Gone + Len(mSendTasks) <= Len(accepted)
           /\ Ready(accepted, mSendTasks, Gone, Len(wire))
<1>1. ~mSendError
  BY DEF Inv, HandInv
<1>2. Gone \in Nat /\ Start(accepted, Gone) <= Len(wire) /\ Placed(accepted, mSendTasks, Gone, Len(wire)) /\ Len(wire) < Start(accepted, Gone + 1)
  BY <1>1 DEF Inv, PlaceInv
<1>3. /\ accepted \in Seq(Packets) /\ mSendTasks \in Seq(InTransitEncodedPacket) /\ Len(wire) \in Nat
      /\ Len(accepted) \in Nat /\ Len(mSendTasks) \in Nat
  BY DEF Inv, Typed
<1>4. Gone + Len(mSendTasks) <= Len(accepted)
  <2>1. CASE mSendMutex = Null
    BY <1>3, <2>1 DEF Gone
  <2>2. CASE mSendMutex # Null
    BY <1>3, <2>2 DEF Gone
  <2>. QED
    BY <2>1, <2>2
<1>. QED
  BY <1>1, <1>2, <1>3, <1>4 DEF Ready

(* sendmsg takes no more than it is offered and than there is room for. *)
LEMMA TakenFacts ==
    ASSUME room \in 0..BufferSize, NEW bytes \in Seq(Nat \X Nat)
    PROVE  Taken(bytes) \in 0..Len(bytes) /\ room - Taken(bytes) \in 0..BufferSize
<1>1. Len(bytes) \in Nat /\ BufferSize \in Nat
  BY SendAssumption
<1>. QED
  BY <1>1 DEF Taken

(* What sendData finds: a place for the new packet behind all others. *)
LEMMA NewPacket ==
    ASSUME Inv, NEW y \in Types, mSendMutex = Null, Len(accepted) < MaxPackets,
           NEW acc2, acc2 = Append(accepted, NewTask(y).packet)
    PROVE  /\ acc2 \in Seq(Packets) /\ Len(acc2) = Len(accepted) + 1 /\ Len(acc2) <= MaxPackets
           /\ \A n \in 0..Len(accepted) : Start(acc2, n) = Start(accepted, n)
           /\ Numbered(acc2) /\ Content(acc2, splitIds, wire) /\ Split(acc2, splitIds, Len(wire))
           /\ Start(acc2, Len(accepted)) < Start(acc2, Len(acc2))
           /\ Task(acc2, Len(acc2), Len(wire)) = NewTask(y)
           /\ NewTask(y) \in InTransitEncodedPacket
           /\ \A base \in Nat : /\ base + Len(mSendTasks) <= Len(accepted)
                                /\ Placed(accepted, mSendTasks, base, Len(wire))
                                => Placed(acc2, mSendTasks, base, Len(wire))
<1>. DEFINE p == NewTask(y).packet
<1>1. /\ accepted \in Seq(Packets) /\ wire \in Seq(Nat \X Nat) /\ mSendTasks \in Seq(InTransitEncodedPacket)
      /\ Len(accepted) \in Nat /\ Len(wire) \in Nat /\ MaxPackets \in Nat
  BY SendAssumption DEF Inv, Typed
<1>2. Len(wire) <= Start(accepted, Len(accepted))
  BY DEF Inv, PlaceInv
<1>3. p = [n |-> Len(accepted) + 1, type |-> y] /\ NewTask(y) = [packet |-> p, offset |-> 0]
  BY DEF NewTask
<1>4. p \in Packets /\ p.n = Len(accepted) + 1
  BY <1>1, <1>3 DEF Packets
<1>5. Numbered(accepted) /\ Content(accepted, splitIds, wire) /\ Split(accepted, splitIds, Len(wire))
  BY DEF Inv, WireInv
<1>. HIDE DEF p
<1>6. acc2 = Append(accepted, p)
  BY DEF p
<1>7. /\ acc2 \in Seq(Packets) /\ Len(acc2) = Len(accepted) + 1 /\ acc2[Len(accepted) + 1] = p
      /\ \A n \in 0..Len(accepted) : Start(acc2, n) = Start(accepted, n)
      /\ Numbered(acc2) /\ Content(acc2, splitIds, wire) /\ Split(acc2, splitIds, Len(wire))
      /\ Start(acc2, Len(accepted)) < Start(acc2, Len(acc2))
      /\ Task(acc2, Len(acc2), Len(wire)) = [packet |-> p, offset |-> 0]
  <2>. HIDE DEF Inv
  <2>. QED
    BY ZenonT(60), <1>1, <1>2, <1>4, <1>5, <1>6, AcceptFacts
<1>8. Len(acc2) <= MaxPackets
  BY <1>1, <1>7
<1>9. NewTask(y) \in InTransitEncodedPacket
  BY <1>3, <1>4 DEF InTransitEncodedPacket
<1>10. ASSUME NEW base \in Nat, base + Len(mSendTasks) <= Len(accepted),
              Placed(accepted, mSendTasks, base, Len(wire))
       PROVE  Placed(acc2, mSendTasks, base, Len(wire))
  BY <1>1, <1>4, <1>6, <1>10, AcceptPlaced
<1>. QED
  BY <1>3, <1>7, <1>8, <1>9, <1>10

(* sendData, up to the storing of what is left. *)
LEMMA BeginStep ==
    ASSUME Inv, NEW t \in Threads, NEW y \in Types, BeginSend(t, y),
           mState' \in {"OTHER", "INVALID_PROTOCOL_VERSION"}, ~(logout /\ ~broken)
    PROVE  Inv'
<1>. DEFINE acc2 == Append(accepted, NewTask(y).packet)
            task == <<NewTask(y)>>
            L == Len(accepted)
            q == Len(wire)
<1>1. /\ mSendMutex = Null /\ L < MaxPackets /\ mSendMutex' = t /\ accepted' = acc2
      /\ mSendTasks' = mSendTasks /\ epollOut' = epollOut /\ handling' = handling /\ broken' = broken
      /\ logout' = logout /\ overlong' = overlong /\ t # Null
  BY SendAssumption DEF BeginSend
<1>2. /\ accepted \in Seq(Packets) /\ wire \in Seq(Nat \X Nat) /\ mSendTasks \in Seq(InTransitEncodedPacket)
      /\ L \in Nat /\ q \in Nat /\ Len(mSendTasks) \in Nat
      /\ sending \in [Threads -> Seq(InTransitEncodedPacket)] /\ room \in 0..BufferSize
  BY DEF Inv, Typed
<1>3. /\ acc2 \in Seq(Packets) /\ Len(acc2) = L + 1 /\ Len(acc2) <= MaxPackets
      /\ \A n \in 0..L : Start(acc2, n) = Start(accepted, n)
      /\ Numbered(acc2) /\ Content(acc2, splitIds, wire) /\ Split(acc2, splitIds, q)
      /\ Start(acc2, L) < Start(acc2, Len(acc2))
      /\ Task(acc2, Len(acc2), q) = NewTask(y)
      /\ NewTask(y) \in InTransitEncodedPacket
      /\ \A base \in Nat : base + Len(mSendTasks) <= L /\ Placed(accepted, mSendTasks, base, q)
                              => Placed(acc2, mSendTasks, base, q)
  BY <1>1, NewPacket
<1>. HIDE DEF acc2
<1>4. Gone = L - Len(mSendTasks) /\ Gone' = Gone
  BY <1>1, <1>2, <1>3 DEF Gone
<1>5. q <= Start(accepted, L) /\ Start(acc2, L) = Start(accepted, L) /\ Start(acc2, L) \in Nat /\ Start(acc2, Len(acc2)) \in Nat
  <2>1. q <= Start(accepted, L)
    BY DEF Inv, PlaceInv
  <2>2. L \in 0..L /\ L \in 0..Len(acc2) /\ Len(acc2) \in 0..Len(acc2)
    BY <1>2, <1>3
  <2>. QED
    BY <1>3, <2>1, <2>2, StartFacts
<1>6. \A r \in Threads : sending[r] = <<>>
  BY <1>1, SendAssumption DEF Inv, HandInv
<1>7. task \in Seq(InTransitEncodedPacket) /\ Len(task) = 1 /\ task # <<>> /\ task[1] = NewTask(y)
  BY <1>3
<1>. HIDE DEF task
<1>8. LogoutInv'
  BY <1>1 DEF LogoutInv
<1>9. ASSUME sending' \in [Threads -> Seq(InTransitEncodedPacket)], mSendError' \in BOOLEAN,
             room' \in 0..BufferSize, cutShort' \in BOOLEAN, wire' \in Seq(Nat \X Nat)
      PROVE  Typed'
  BY <1>1, <1>2, <1>3, <1>9 DEF Inv, Typed
<1>10. CASE mSendTasks # <<>>
  <2>1. sending' = [sending EXCEPT ![t] = task] /\ mSendError' = mSendError /\ UNCHANGED <<room, cutShort, wire, splitIds>>
    BY <1>10 DEF BeginSend, socketVars, task
  <2>2. /\ ~mSendError /\ Gone \in Nat /\ Gone + Len(mSendTasks) <= L
        /\ Ready(accepted, mSendTasks, Gone, q)
    BY <1>10, QueueReady
  <2>3. Placed(acc2, mSendTasks, Gone, q) /\ Start(accepted, Gone) <= q /\ q < Start(accepted, Gone + 1)
    BY <1>3, <2>2 DEF Ready
  <2>4. Start(acc2, Gone) = Start(accepted, Gone) /\ Start(acc2, Gone + 1) = Start(accepted, Gone + 1)
    <3>1. Len(mSendTasks) > 0
      BY <1>2, <1>10
    <3>2. Gone \in 0..L /\ Gone + 1 \in 0..L
      BY <1>2, <2>2, <3>1
    <3>. QED
      BY <1>3, <3>2
  <2>5. sending' \in [Threads -> Seq(InTransitEncodedPacket)] /\ sending'[t] = task /\ \A r \in Threads : r # t => sending'[r] = <<>>
    BY <1>2, <1>6, <1>7, <2>1
  <2>6. Typed'
    BY <1>2, <1>9, <2>1, <2>5 DEF Inv, Typed
  <2>7. HandInv'
    BY <1>1, <1>7, <2>1, <2>2, <2>5 DEF HandInv
  <2>8. q <= Start(acc2, Len(acc2))
    BY <1>2, <1>3, <1>5
  <2>9. PlaceInv'
    BY <1>1, <1>3, <1>4, <1>7, <2>1, <2>2, <2>3, <2>4, <2>5, <2>8 DEF PlaceInv
  <2>10. WireInv'
    BY <1>1, <1>3, <2>1 DEF WireInv
  <2>. QED
    BY <1>8, <2>6, <2>7, <2>9, <2>10 DEF Inv
<1>11. CASE mSendTasks = <<>> /\ broken
  <2>1. mSendError' = TRUE /\ sending' = sending /\ UNCHANGED <<room, cutShort, wire, splitIds>>
    BY <1>11 DEF BeginSend, socketVars
  <2>2. Typed'
    BY <1>2, <1>9, <2>1 DEF Inv, Typed
  <2>3. HandInv'
    BY <1>1, <1>6, <1>11, <2>1 DEF HandInv
  <2>4. q <= Start(acc2, Len(acc2))
    BY <1>2, <1>3, <1>5
  <2>5. PlaceInv'
    BY <1>1, <2>1, <2>4 DEF PlaceInv
  <2>6. WireInv'
    BY <1>1, <1>3, <2>1 DEF WireInv
  <2>. QED
    BY <1>8, <2>2, <2>3, <2>5, <2>6 DEF Inv
<1>12. CASE mSendTasks = <<>> /\ ~broken
  <2>. DEFINE offered == Offered(task)
              res == Taken(offered)
              sent == Advance(task, res)
  <2>1. Write(sent, offered) /\ sending' = [sending EXCEPT ![t] = sent] /\ mSendError' = mSendError
    BY <1>12 DEF BeginSend, task
  <2>2. ~mSendError /\ Len(mSendTasks) = 0
    BY <1>12 DEF Inv, HandInv
  <2>3. Start(accepted, Gone) <= q
    BY <2>2 DEF Inv, PlaceInv
  <2>4. q = Start(acc2, L) /\ Gone = L
    BY <1>2, <1>4, <1>5, <2>2, <2>3
  <2>5. Ready(acc2, task, L, q)
    <3>1. Placed(acc2, task, L, q)
      <4>1. \A i \in DOMAIN task : i = 1
        BY <1>7
      <4>. QED
        BY <1>3, <1>7, <4>1 DEF Placed
    <3>2. L + Len(task) <= Len(acc2) /\ L + 1 = Len(acc2)
      BY <1>2, <1>3, <1>7
    <3>. QED
      BY <1>2, <1>3, <1>7, <2>4, <3>1, <3>2 DEF Ready
  <2>6. /\ offered \in Seq(Nat \X Nat) /\ Len(offered) = Start(acc2, L + InWrite(task)) - q
        /\ L + InWrite(task) = Len(acc2)
    <3>1. /\ offered \in Seq(Nat \X Nat) /\ Len(offered) = Start(acc2, L + InWrite(task)) - q
          /\ InWrite(task) \in 1..Len(task)
      BY <2>5, OfferedFacts
    <3>2. InWrite(task) = 1
      BY <1>7, <3>1
    <3>. QED
      BY <1>3, <3>1, <3>2
  <2>. HIDE DEF offered
  <2>7. res \in 0..Len(offered) /\ room - res \in 0..BufferSize
    BY <1>2, <2>6, TakenFacts
  <2>. HIDE DEF res
  <2>8. /\ wire' = wire \o SubSeq(offered, 1, res) /\ splitIds' = splitIds \cup SplitAfter(sent)
        /\ room' = room - res /\ cutShort' = (cutShort \/ res < Len(offered))
    BY <2>1 DEF Write, res
  <2>9. /\ wire' \in Seq(Nat \X Nat) /\ Len(wire') = q + res
        /\ Len(wire') <= Start(acc2, L + Len(task))
        /\ Content(acc2, splitIds', wire') /\ Split(acc2, splitIds', Len(wire'))
    <3>1. Numbered(acc2) /\ Content(acc2, splitIds, wire) /\ Split(acc2, splitIds, Len(wire))
      BY <1>3
    <3>2. Ready(acc2, task, L, Len(wire)) /\ wire \in Seq(Nat \X Nat)
      BY <1>2, <2>5
    <3>3. res \in 0..Len(Offered(task)) /\ wire' = wire \o SubSeq(Offered(task), 1, res)
      BY <2>7, <2>8 DEF offered
    <3>4. splitIds' = splitIds \cup SplitAfter(Advance(task, res))
      BY <2>8
    <3>5. res \in Nat /\ res <= Len(Offered(task))
      BY <2>6, <3>3 DEF offered
    <3>. HIDE DEF L
    <3>. QED
      BY ZenonT(60), <3>1, <3>2, <3>3, <3>4, <3>5, WriteFacts
  <2>10. res \in Nat /\ q + res <= Start(acc2, L + InWrite(task))
    <3>1. Start(acc2, L + InWrite(task)) \in Nat
      BY <1>5, <2>6
    <3>2. Len(offered) = Start(acc2, L + InWrite(task)) - q /\ Len(offered) \in Nat
      BY <2>6
    <3>. QED
      BY <1>2, <2>7, <3>1, <3>2
  <2>11. sent \in Seq(InTransitEncodedPacket) /\ Len(sent) = 1 /\ Placed(acc2, sent, L, q + res)
    BY <1>7, <2>5, <2>10, AdvanceFacts
  <2>. HIDE DEF sent
  <2>12. sent[1] = Task(acc2, Len(acc2), q + res)
    <3>1. 1 \in DOMAIN sent /\ L + 1 = Len(acc2)
      BY <1>3, <2>11
    <3>. QED
      BY <2>11, <3>1 DEF Placed
  <2>13. sending' \in [Threads -> Seq(InTransitEncodedPacket)] /\ sending'[t] = sent /\ \A r \in Threads : r # t => sending'[r] = <<>>
    BY <1>2, <1>6, <2>1, <2>11
  <2>14. cutShort' \in BOOLEAN /\ mSendError' \in BOOLEAN
    BY <2>1, <2>8 DEF Inv, Typed
  <2>15. Typed'
    BY <1>9, <2>7, <2>8, <2>9, <2>13, <2>14
  <2>16. HandInv'
    BY <1>1, <2>1, <2>2, <2>11, <2>13 DEF HandInv
  <2>17. PlaceInv'
    <3>1. L + Len(task) = Len(acc2) /\ q <= q + res /\ Start(acc2, Gone) <= q + res
      BY <1>2, <1>3, <1>5, <1>7, <2>4, <2>10
    <3>2. Placed(acc2, mSendTasks, Gone, q + res)
      BY <1>12 DEF Placed
    <3>. QED
      BY <1>1, <1>2, <1>4, <1>12, <2>1, <2>4, <2>9, <2>12, <2>13, <3>1, <3>2 DEF PlaceInv
  <2>18. WireInv'
    BY <1>1, <1>3, <2>9 DEF WireInv
  <2>. QED
    BY <1>8, <2>15, <2>16, <2>17, <2>18 DEF Inv
<1>. QED
  BY <1>10, <1>11, <1>12

(* sendData stores what is left. *)
LEMMA EndStep == ASSUME Inv, NEW t \in Threads, EndSend(t) PROVE Inv'
<1>. DEFINE L == Len(accepted)
            q == Len(wire)
            hand == sending[t]
<1>1. /\ mSendMutex = t /\ mSendMutex' = Null /\ sending' = [sending EXCEPT ![t] = <<>>]
      /\ mSendTasks' = IF hand = <<>> \/ isDone(hand[1]) THEN mSendTasks ELSE mSendTasks \o hand
      /\ overlong' = (overlong \/ Len(mSendTasks') > Batch) /\ t # Null
      /\ UNCHANGED <<mSendError, mState, room, cutShort, wire, splitIds, epollOut, handling, broken, logout, accepted>>
  BY SendAssumption DEF EndSend, socketVars
<1>2. /\ accepted \in Seq(Packets) /\ wire \in Seq(Nat \X Nat) /\ mSendTasks \in Seq(InTransitEncodedPacket)
      /\ L \in Nat /\ q \in Nat /\ Len(mSendTasks) \in Nat
      /\ sending \in [Threads -> Seq(InTransitEncodedPacket)] /\ hand \in Seq(InTransitEncodedPacket)
  BY DEF Inv, Typed
<1>3. \A r \in Threads : sending'[r] = <<>>
  BY <1>1, <1>2 DEF Inv, HandInv
<1>4. Typed'
  <2>1. mSendTasks' \in Seq(InTransitEncodedPacket)
    <3>1. mSendTasks \o hand \in Seq(InTransitEncodedPacket)
      BY <1>2, ConcatProperties
    <3>. QED
      BY <1>1, <1>2, <3>1
  <2>2. sending' \in [Threads -> Seq(InTransitEncodedPacket)]
    BY <1>1, <1>2
  <2>3. overlong' \in BOOLEAN
    BY <1>1 DEF Inv, Typed
  <2>4. mSendMutex' \in Threads \cup {Null}
    BY <1>1
  <2>. QED
    BY <1>1, <2>1, <2>2, <2>3, <2>4 DEF Inv, Typed
<1>5. WireInv'
  BY <1>1 DEF Inv, WireInv
<1>6. LogoutInv'
  BY <1>1 DEF Inv, LogoutInv
<1>7. q <= Start(accepted, L)
  BY DEF Inv, PlaceInv
<1>8. CASE mSendError
  <2>1. mSendTasks = <<>> /\ hand = <<>> /\ broken
    BY <1>8 DEF Inv, HandInv
  <2>2. HandInv'
    BY <1>1, <1>3, <1>8, <2>1 DEF HandInv
  <2>3. PlaceInv'
    BY <1>1, <1>7, <1>8 DEF PlaceInv
  <2>. QED
    BY <1>4, <1>5, <1>6, <2>2, <2>3 DEF Inv
<1>9. CASE ~mSendError
  <2>1. Len(hand) = 1 /\ hand # <<>>
    <3>1. ~mSendError /\ mSendMutex # Null => Len(sending[mSendMutex]) = 1
      BY DEF Inv, HandInv
    <3>2. Len(hand) = 1
      BY <1>1, <1>9, <3>1
    <3>. QED
      BY <3>2
  <2>2. /\ Gone \in Nat /\ Start(accepted, Gone) <= q /\ Placed(accepted, mSendTasks, Gone, q)
        /\ mSendTasks # <<>> => q < Start(accepted, Gone + 1)
        /\ hand[1] = Task(accepted, L, q)
    BY <1>1, <1>9 DEF Inv, PlaceInv
  <2>3. Gone = L - Len(mSendTasks) - 1 /\ Gone' = L - Len(mSendTasks')
    BY <1>1, <1>2, <1>4 DEF Gone, Typed
  <2>4. L \in 1..L /\ L \in 0..L
    BY <1>2, <2>2, <2>3
  <2>5. isDone(hand[1]) <=> Start(accepted, L) <= q
    BY <1>2, <2>2, <2>4, TaskDone
  <2>6. Start(accepted, L) \in Nat
    BY <1>2, <2>4, StartFacts
  <2>7. HandInv'
    BY <1>1, <1>3, <1>9 DEF HandInv
  <2>8. CASE isDone(hand[1])
    <3>1. mSendTasks' = mSendTasks
      BY <1>1, <2>8
    <3>2. mSendTasks = <<>>
      <4>. SUFFICES ASSUME mSendTasks # <<>> PROVE FALSE
        OBVIOUS
      <4>1. Len(mSendTasks) > 0
        BY <1>2
      <4>2. Gone + 1 \in 0..L /\ L \in (Gone + 1)..L
        BY <1>2, <2>2, <2>3, <4>1
      <4>3. Start(accepted, Gone + 1) <= Start(accepted, L) /\ Start(accepted, Gone + 1) \in Nat
        BY <1>2, <4>2, StartGrows, StartFacts
      <4>. QED
        BY <1>2, <2>2, <2>5, <2>6, <2>8, <4>3
    <3>3. Gone' = L
      BY <1>2, <2>3, <3>1, <3>2
    <3>4. Placed(accepted, <<>>, L, q)
      BY DEF Placed
    <3>5. PlaceInv'
      BY SMTT(60), <1>1, <1>2, <1>7, <2>5, <2>8, <3>1, <3>2, <3>3, <3>4 DEF PlaceInv
    <3>. QED
      BY <1>4, <1>5, <1>6, <2>7, <3>5 DEF Inv
  <2>9. CASE ~isDone(hand[1])
    <3>1. mSendTasks' = mSendTasks \o hand
      BY <1>1, <2>1, <2>9
    <3>2. /\ Len(mSendTasks') = Len(mSendTasks) + 1
          /\ \A i \in 1..(Len(mSendTasks) + 1) : mSendTasks'[i] =
                IF i <= Len(mSendTasks) THEN mSendTasks[i] ELSE hand[i - Len(mSendTasks)]
      <4>. DEFINE N == Len(mSendTasks)
      <4>1. /\ Len(mSendTasks \o hand) = N + Len(hand)
            /\ \A i \in 1..(N + Len(hand)) : (mSendTasks \o hand)[i] =
                  IF i <= N THEN mSendTasks[i] ELSE hand[i - N]
        BY <1>2, ConcatProperties
      <4>. QED
        BY <2>1, <3>1, <4>1
    <3>3. Gone' = Gone
      BY <1>2, <2>3, <3>2
    <3>4. Placed(accepted, mSendTasks', Gone, q)
      <4>. SUFFICES ASSUME NEW i \in DOMAIN mSendTasks' PROVE mSendTasks'[i] = Task(accepted, Gone + i, q)
        BY DEF Placed
      <4>1. i \in 1..(Len(mSendTasks) + 1)
        BY <1>4, <3>2 DEF Typed
      <4>2. CASE i <= Len(mSendTasks)
        <5>1. i \in DOMAIN mSendTasks /\ mSendTasks'[i] = mSendTasks[i]
          BY <1>2, <3>2, <4>1, <4>2
        <5>. QED
          BY <2>2, <5>1 DEF Placed
      <4>3. CASE ~(i <= Len(mSendTasks))
        <5>1. i - Len(mSendTasks) = 1 /\ Gone + i = L
          BY SMTT(60), <1>2, <2>2, <2>3, <4>1, <4>3
        <5>. QED
          BY <2>2, <3>2, <4>1, <4>3, <5>1
      <4>. QED
        BY <4>2, <4>3
    <3>5. q < Start(accepted, Gone + 1)
      <4>1. CASE mSendTasks # <<>>
        BY <2>2, <4>1
      <4>2. CASE mSendTasks = <<>>
        <5>1. Gone + 1 = L
          BY <1>2, <2>3, <4>2
        <5>. QED
          BY <1>2, <2>5, <2>6, <2>9, <5>1
      <4>. QED
        BY <4>1, <4>2
    <3>6. PlaceInv'
      BY <1>1, <1>7, <2>2, <3>3, <3>4, <3>5 DEF PlaceInv
    <3>. QED
      BY <1>4, <1>5, <1>6, <2>7, <3>6 DEF Inv
  <2>. QED
    BY <2>8, <2>9
<1>. QED
  BY <1>8, <1>9

(* A receiver goes on with the queue. *)
LEMMA HandleStep == ASSUME Inv, NEW r \in Receivers, HandleOut(r) PROVE Inv'
<1>. DEFINE L == Len(accepted)
            q == Len(wire)
<1>1. /\ mSendMutex = Null /\ handling' = handling \ {r}
      /\ UNCHANGED <<mSendMutex, sending, mSendError, mState, epollOut, broken, accepted, overlong>>
  BY DEF HandleOut
<1>2. /\ accepted \in Seq(Packets) /\ wire \in Seq(Nat \X Nat) /\ mSendTasks \in Seq(InTransitEncodedPacket)
      /\ L \in Nat /\ q \in Nat /\ Len(mSendTasks) \in Nat /\ room \in 0..BufferSize /\ handling' \subseteq Receivers
  BY <1>1 DEF Inv, Typed
<1>3. CASE mSendTasks = <<>> \/ broken
  <2>1. /\ UNCHANGED <<mSendTasks, room, cutShort, wire, splitIds>>
        /\ logout' \in BOOLEAN
        /\ logout' /\ ~broken => logout
    BY <1>3 DEF HandleOut, socketVars, Inv, Typed
  <2>2. Typed'
    BY <1>1, <1>2, <2>1 DEF Inv, Typed
  <2>3. HandInv'
    BY <1>1, <2>1 DEF Inv, HandInv
  <2>4. Gone' = Gone
    BY <1>1, <2>1 DEF Gone
  <2>5. PlaceInv'
    BY <1>1, <2>1, <2>4 DEF Inv, PlaceInv
  <2>6. LogoutInv'
    BY <1>1, <2>1 DEF Inv, LogoutInv
  <2>7. WireInv'
    BY <1>1, <2>1 DEF Inv, WireInv
  <2>. QED
    BY <2>2, <2>3, <2>5, <2>6, <2>7 DEF Inv
<1>4. CASE mSendTasks # <<>> /\ ~broken
  <2>. DEFINE offered == Offered(mSendTasks)
              res == Taken(offered)
              sent == Advance(mSendTasks, res)
  <2>1. /\ Write(sent, offered) /\ mSendTasks' = EraseDone(sent)
        /\ logout' = (logout \/ (mSendTasks' = <<>> /\ mState = "INVALID_PROTOCOL_VERSION"))
    BY <1>4 DEF HandleOut
  <2>2. /\ ~mSendError /\ Gone \in Nat /\ Gone + Len(mSendTasks) <= L
        /\ Ready(accepted, mSendTasks, Gone, Len(wire))
    BY <1>4, QueueReady
  <2>3. Gone = L - Len(mSendTasks) /\ Len(mSendTasks) > 0
    BY <1>1, <1>2, <1>4 DEF Gone
  <2>. DEFINE g == Gone
  <2>. HIDE DEF g
  <2>4. g \in Nat /\ g + Len(mSendTasks) = L /\ g <= L /\ Ready(accepted, mSendTasks, g, Len(wire)) /\ g = L - Len(mSendTasks)
    BY <1>2, <2>2, <2>3 DEF g
  <2>5. /\ offered \in Seq(Nat \X Nat) /\ Len(offered) = Start(accepted, g + InWrite(mSendTasks)) - q
        /\ InWrite(mSendTasks) \in 1..Len(mSendTasks)
    BY <2>4, OfferedFacts
  <2>6. Start(accepted, g + InWrite(mSendTasks)) \in Nat
    <3>1. g + InWrite(mSendTasks) \in 0..L
      BY <1>2, <2>4, <2>5
    <3>. QED
      BY <1>2, <3>1, StartFacts
  <2>. HIDE DEF offered
  <2>7. res \in 0..Len(offered) /\ room - res \in 0..BufferSize
    BY <1>2, <2>5, TakenFacts
  <2>. HIDE DEF res
  <2>8. /\ wire' = wire \o SubSeq(offered, 1, res) /\ splitIds' = splitIds \cup SplitAfter(sent)
        /\ room' = room - res /\ cutShort' = (cutShort \/ res < Len(offered))
    BY <2>1 DEF Write, res
  <2>9. res \in Nat /\ res <= Len(offered) /\ q + res <= Start(accepted, g + InWrite(mSendTasks))
    <3>1. Len(offered) \in Nat /\ Len(offered) = Start(accepted, g + InWrite(mSendTasks)) - q
      BY <2>5
    <3>. QED
      BY <1>2, <2>6, <2>7, <3>1
  <2>10. /\ wire' \in Seq(Nat \X Nat) /\ Len(wire') = q + res
         /\ Len(wire') <= Start(accepted, g + Len(mSendTasks))
         /\ Content(accepted, splitIds', wire') /\ Split(accepted, splitIds', Len(wire'))
    <3>1. Numbered(accepted) /\ Content(accepted, splitIds, wire) /\ Split(accepted, splitIds, Len(wire))
      BY DEF Inv, WireInv
    <3>2. Ready(accepted, mSendTasks, g, Len(wire)) /\ wire \in Seq(Nat \X Nat)
      BY <1>2, <2>4
    <3>3. res \in Nat /\ res <= Len(Offered(mSendTasks)) /\ wire' = wire \o SubSeq(Offered(mSendTasks), 1, res)
      BY <2>8, <2>9 DEF offered
    <3>4. splitIds' = splitIds \cup SplitAfter(Advance(mSendTasks, res))
      BY <2>8
    <3>. QED
      BY ZenonT(60), <3>1, <3>2, <3>3, <3>4, WriteFacts
  <2>11. sent \in Seq(InTransitEncodedPacket) /\ Len(sent) = Len(mSendTasks) /\ Placed(accepted, sent, g, q + res)
    BY <2>4, <2>9, AdvanceFacts
  <2>. HIDE DEF sent
  <2>12. Start(accepted, g) <= q /\ Start(accepted, g) \in Nat /\ q + res \in Nat
    <3>1. g \in 0..L
      BY <1>2, <2>4
    <3>. QED
      BY SMTT(60), <1>2, <2>4, <2>9, <3>1, StartFacts DEF Ready
  <2>13. Start(accepted, g) <= q + res /\ g + Len(sent) <= L
    BY <1>2, <2>4, <2>9, <2>11, <2>12
  <2>14. PICK d \in 0..Len(sent) :
              /\ mSendTasks' \in Seq(InTransitEncodedPacket)
              /\ Len(mSendTasks') = Len(sent) - d
              /\ Placed(accepted, mSendTasks', g + d, q + res)
              /\ Start(accepted, g + d) <= q + res
              /\ mSendTasks' # <<>> => q + res < Start(accepted, g + d + 1)
    <3>. DEFINE q2 == q + res
    <3>1. q2 \in Nat /\ Start(accepted, g) <= q2 /\ Placed(accepted, sent, g, q2)
      BY <2>11, <2>12, <2>13
    <3>. HIDE DEF q2
    <3>2. \E d \in 0..Len(sent) :
              /\ EraseDone(sent) \in Seq(InTransitEncodedPacket)
              /\ Len(EraseDone(sent)) = Len(sent) - d
              /\ Placed(accepted, EraseDone(sent), g + d, q2)
              /\ Start(accepted, g + d) <= q2
              /\ EraseDone(sent) # <<>> => q2 < Start(accepted, g + d + 1)
      BY ZenonT(60), <1>2, <2>4, <2>11, <2>13, <3>1, EraseFacts
    <3>. QED
      BY <2>1, <3>2 DEF q2
  <2>15. Gone' = g + d /\ g + d \in Nat
    <3>1. Gone' = L - Len(mSendTasks')
      BY <1>1, <1>2, <2>14 DEF Gone
    <3>. QED
      BY <1>2, <2>4, <2>11, <2>14, <3>1
  <2>16. Typed'
    <3>1. logout' \in BOOLEAN /\ cutShort' \in BOOLEAN
      BY <2>1, <2>8 DEF Inv, Typed
    <3>. QED
      BY <1>1, <1>2, <2>7, <2>8, <2>10, <2>14, <3>1 DEF Inv, Typed
  <2>17. HandInv'
    BY <1>1, <2>2 DEF Inv, HandInv
  <2>18. PlaceInv'
    <3>1. Len(wire') <= Start(accepted, L)
      BY <2>4, <2>10
    <3>. QED
      BY <1>1, <2>10, <2>14, <2>15, <3>1 DEF PlaceInv
  <2>19. LogoutInv'
    <3>1. ~logout
      BY <1>4 DEF Inv, LogoutInv
    <3>2. accepted # <<>>
      BY <1>2, <2>3, <2>4
    <3>. QED
      BY <1>1, <2>1, <3>1, <3>2 DEF LogoutInv
  <2>20. WireInv'
    BY <1>1, <2>10 DEF Inv, WireInv
  <2>. QED
    BY <2>16, <2>17, <2>18, <2>19, <2>20 DEF Inv
<1>. QED
  BY <1>3, <1>4

(* The steps that leave packets and wire alone. *)
LEMMA OtherStep ==
    ASSUME Inv, \/ \E r \in Receivers : TakeEvent(r)
                \/ \E n \in 1..BufferSize : PeerReads(n)
                \/ PeerSends \/ ConnectionLost \/ UNCHANGED vars
    PROVE  Inv'
<1>1. /\ UNCHANGED <<mSendMutex, mSendTasks, sending, mSendError, mState, wire, splitIds, accepted, logout, overlong>>
      /\ broken => broken'
  BY DEF TakeEvent, PeerReads, PeerSends, ConnectionLost, vars, socketVars
<1>2. room' \in 0..BufferSize
  <2>1. CASE \E n \in 1..BufferSize : PeerReads(n)
    <3>1. PICK n \in 1..BufferSize : PeerReads(n)
      BY <2>1
    <3>2. room \in 0..BufferSize /\ BufferSize \in Nat
      BY SendAssumption DEF Inv, Typed
    <3>. QED
      BY <3>1, <3>2 DEF PeerReads
  <2>2. CASE room' = room
    BY <2>2 DEF Inv, Typed
  <2>. QED
    BY <2>1, <2>2 DEF TakeEvent, PeerSends, ConnectionLost, vars, socketVars
<1>3. cutShort' \in BOOLEAN /\ epollOut' \in BOOLEAN /\ broken' \in BOOLEAN
  BY DEF Inv, Typed, TakeEvent, PeerReads, PeerSends, ConnectionLost, vars, socketVars
<1>4. handling' \subseteq Receivers
  <2>1. handling \subseteq Receivers
    BY DEF Inv, Typed
  <2>. QED
    BY <2>1 DEF TakeEvent, PeerReads, PeerSends, ConnectionLost, vars, socketVars
<1>5. Typed'
  BY <1>1, <1>2, <1>3, <1>4 DEF Inv, Typed
<1>6. HandInv'
  BY <1>1 DEF Inv, HandInv
<1>7. Gone' = Gone
  BY <1>1 DEF Gone
<1>8. PlaceInv'
  BY <1>1, <1>7 DEF Inv, PlaceInv
<1>9. LogoutInv'
  BY <1>1 DEF Inv, LogoutInv
<1>10. WireInv'
  BY <1>1 DEF Inv, WireInv
<1>. QED
  BY <1>5, <1>6, <1>8, <1>9, <1>10 DEF Inv

(* Every step of a sender, of a receiver and of the peer preserves the invariant. *)
LEMMA NextInv == Inv /\ [Next]_vars => Inv'
<1>. SUFFICES ASSUME Inv, [Next]_vars PROVE Inv'
  OBVIOUS
<1>1. ASSUME NEW t \in Threads, NEW y \in Types, sendData(t, y) PROVE Inv'
  <2>1. BeginSend(t, y) /\ mState # "INVALID_PROTOCOL_VERSION" /\ mState' = mState
    BY <1>1 DEF sendData
  <2>2. mState' \in {"OTHER", "INVALID_PROTOCOL_VERSION"} /\ ~(logout /\ ~broken)
    BY <2>1 DEF Inv, Typed, LogoutInv
  <2>. QED
    BY <2>1, <2>2, BeginStep
<1>2. ASSUME NEW t \in Threads, NEW y \in Types, RejectVersion(t, y) PROVE Inv'
  <2>1. BeginSend(t, y) /\ accepted = <<>> /\ mState' = "INVALID_PROTOCOL_VERSION"
    BY <1>2 DEF RejectVersion
  <2>2. mState' \in {"OTHER", "INVALID_PROTOCOL_VERSION"} /\ ~(logout /\ ~broken)
    BY <2>1 DEF Inv, LogoutInv
  <2>. QED
    BY <2>1, <2>2, BeginStep
<1>3. ASSUME NEW t \in Threads, EndSend(t) PROVE Inv'
  BY <1>3, EndStep
<1>4. ASSUME NEW r \in Receivers, HandleOut(r) PROVE Inv'
  BY <1>4, HandleStep
<1>5. CASE \/ \E r \in Receivers : TakeEvent(r)
           \/ \E n \in 1..BufferSize : PeerReads(n)
           \/ PeerSends \/ ConnectionLost \/ UNCHANGED vars
  BY <1>5, OtherStep
<1>. QED
  BY <1>1, <1>2, <1>3, <1>4, <1>5 DEF Next

(* The invariant holds in every reachable state. *)
LEMMA Invariance == Spec => []Inv
<1>. QED
  BY InitInv, NextInv, PTL DEF Spec

-----------------------------------------------------------------------------
(* The theorems *)

(* The invariant has the types: an offset within a packet never passes its end. *)
LEMMA InvTypes == Inv => TypeOK
<1>. SUFFICES ASSUME Inv PROVE TypeOK
  OBVIOUS
<1>1. ASSUME NEW i \in DOMAIN mSendTasks PROVE Remaining(mSendTasks[i]) >= 0
  <2>1. i \in 1..Len(mSendTasks) /\ mSendTasks # <<>>
    BY DEF Inv, Typed
  <2>2. Ready(accepted, mSendTasks, Gone, Len(wire))
    BY <2>1, QueueReady
  <2>. DEFINE g == Gone
  <2>. HIDE DEF g
  <2>3. Ready(accepted, mSendTasks, g, Len(wire))
    BY <2>2 DEF g
  <2>4. /\ mSendTasks[i].offset \in Nat /\ mSendTasks[i].offset < Size(accepted, g + i)
        /\ Size(accepted, g + i) \in Nat /\ Size(accepted, g + i) = fullSize(mSendTasks[i].packet.type)
    BY SMTT(60), <2>1, <2>3, ReadyFacts
  <2>. QED
    BY <2>4 DEF Remaining
<1>2. splitIds \subseteq 1..MaxPackets
  <2>. SUFFICES ASSUME NEW n \in splitIds PROVE n \in 1..MaxPackets
    OBVIOUS
  <2>1. n \in DOMAIN accepted
    BY DEF Inv, WireInv, Split
  <2>2. accepted \in Seq(Packets) /\ Len(accepted) <= MaxPackets /\ MaxPackets \in Nat
    BY SendAssumption DEF Inv, Typed
  <2>. QED
    BY <2>1, <2>2
<1>3. {cutShort, epollOut, broken, logout, overlong} \subseteq BOOLEAN
  BY DEF Inv, Typed
<1>. QED
  BY <1>1, <1>2, <1>3 DEF Inv, Typed, TypeOK

(* The invariant says of the wire what WireFaithful does. *)
LEMMA InvWire == Inv => WireFaithful
<1>. SUFFICES ASSUME Inv PROVE WireFaithful
  OBVIOUS
<1>. DEFINE L == Len(accepted)
            q == Len(wire)
            N == Len(mSendTasks)
            g == Gone
<1>1. /\ accepted \in Seq(Packets) /\ wire \in Seq(Nat \X Nat) /\ mSendTasks \in Seq(InTransitEncodedPacket)
      /\ L \in Nat /\ q \in Nat /\ N \in Nat
  BY DEF Inv, Typed
<1>2. /\ Len(Intended) = Start(accepted, L)
      /\ \A n \in 1..L : \A b \in 1..Size(accepted, n) : Intended[Start(accepted, n - 1) + b] = <<n, b>>
  BY <1>1, IntendedFacts
<1>3. q <= Start(accepted, L) /\ Start(accepted, L) \in Nat
  <2>1. L \in 0..L
    BY <1>1
  <2>. QED
    BY <1>1, <2>1, StartFacts DEF Inv, PlaceInv
<1>4. ASSUME mSendTasks # <<>>
      PROVE  ~mSendError /\ g \in Nat /\ Ready(accepted, mSendTasks, g, q) /\ g + N <= L
  BY <1>4, QueueReady
<1>5. ASSUME mSendTasks = <<>>, mSendMutex = Null, ~mSendError PROVE q = Start(accepted, L)
  <2>1. Gone = L /\ Start(accepted, Gone) <= q
    BY <1>1, <1>5 DEF Gone, Inv, PlaceInv
  <2>. QED
    BY <1>1, <1>3, <2>1
<1>6. ASSUME mSendMutex = Null, ~mSendError PROVE q + Rest(mSendTasks, N) = Start(accepted, L)
  <2>1. CASE mSendTasks = <<>>
    <3>1. N = 0 /\ Rest(mSendTasks, 0) = 0
      BY <2>1, RestStep
    <3>. QED
      BY <1>1, <1>5, <1>6, <2>1, <3>1
  <2>2. CASE mSendTasks # <<>>
    <3>1. Ready(accepted, mSendTasks, g, q) /\ N # 0 /\ N \in 0..N
      BY <1>1, <1>4, <2>2
    <3>2. g + N = L
      BY <1>1, <1>6 DEF Gone
    <3>. HIDE DEF g
    <3>3. Rest(mSendTasks, N) = Left(accepted, g, q, N)
      BY <3>1, ReadyRest
    <3>. QED
      BY <1>1, <1>3, <3>1, <3>2, <3>3 DEF Left
  <2>. QED
    BY <2>1, <2>2
<1>7. ASSUME NEW i \in DOMAIN mSendTasks, mSendTasks[i].offset > 0 PROVE i = 1
  <2>1. i \in 1..N /\ mSendTasks # <<>>
    BY <1>1
  <2>2. Ready(accepted, mSendTasks, g, q)
    BY <1>4, <2>1
  <2>. HIDE DEF g
  <2>3. i > 1 => mSendTasks[i].offset = 0
    BY SMTT(60), <2>1, <2>2, ReadyFacts
  <2>. QED
    BY <1>1, <1>7, <2>1, <2>3
<1>8. ASSUME logout, ~broken PROVE q = Start(accepted, L)
  <2>1. mSendTasks = <<>> /\ mSendMutex = Null
    BY <1>8 DEF Inv, LogoutInv
  <2>2. ~mSendError
    BY <1>8 DEF Inv, HandInv
  <2>. QED
    BY <1>5, <2>1, <2>2
<1>9. ASSUME NEW i \in DOMAIN wire
      PROVE  wire[i] = IF IsSecondIdByte(Intended[i]) /\ Intended[i][1] \in splitIds
                       THEN Foreign ELSE Intended[i]
  <2>1. i \in 1..Start(accepted, L) /\ i <= q
    BY SMTT(60), <1>1, <1>3
  <2>2. PICK n \in 1..L : \E b \in 1..Size(accepted, n) : i = Start(accepted, n - 1) + b
    BY <1>1, <2>1, StartCover
  <2>3. PICK b \in 1..Size(accepted, n) : i = Start(accepted, n - 1) + b
    BY <2>2
  <2>4. Intended[i] = <<n, b>>
    BY <1>2, <2>3
  <2>5. IsSecondIdByte(Intended[i]) <=> HasId(accepted, n) /\ b = SecondByte(accepted, n)
    BY <2>4 DEF IsSecondIdByte, HasId, SecondByte
  <2>6. Intended[i][1] = n
    BY <2>4
  <2>7. wire[i] = Byte(accepted, splitIds, n, b)
    <3>1. n \in DOMAIN accepted /\ Content(accepted, splitIds, wire)
      BY <1>1 DEF Inv, WireInv
    <3>. QED
      BY <2>1, <2>3, <3>1 DEF Content
  <2>. QED
    BY <2>4, <2>5, <2>6, <2>7 DEF Byte
<1>. HIDE DEF g
<1>. QED
  BY <1>2, <1>3, <1>6, <1>7, <1>8, <1>9 DEF WireFaithful

(* The variables have their types, and no offset passes the end of its packet: what    *)
(* sendScatter hands out of the result of sendmsg never exceeds what was left to send. *)
THEOREM TypeCorrect == Spec => []TypeOK
<1>. QED
  BY Invariance, InvTypes, PTL

(* Whatever the parts of the packets, the room in the socket and the number of threads: *)
(* the wire carries the packets in the order of sendData, complete, and the only byte   *)
(* that is ever wrong is the second of an id that a write has cut in two.               *)
THEOREM WireSound == Spec => []WireFaithful
<1>. QED
  BY Invariance, InvWire, PTL

=============================================================================
