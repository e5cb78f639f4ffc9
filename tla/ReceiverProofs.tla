------------------------------ MODULE ReceiverProofs ------------------------------
(***************************************************************************)
(* Proofs about Receiver, for any packets, any size of the buffer and any  *)
(* base of the length's digits: however TCP and recv cut the stream, every *)
(* packet is handled or held exactly once, the connection is given up only *)
(* for a reason, and no byte is left in the socket.                        *)
(***************************************************************************)
EXTENDS Receiver, SequenceTheorems, FiniteSetTheorems, WellFoundedInduction, TLAPS

-----------------------------------------------------------------------------
(* Induction and arithmetic *)

\* The order of the natural numbers as a relation
Less == {ss \in Nat \X Nat : ss[1] < ss[2]}

(* Induction over the natural numbers, for a set in place of a predicate: a smallest *)
(* number that is not in the set would have a predecessor in it.                     *)
LEMMA SetInduction ==
    ASSUME NEW S, 0 \in S, \A n \in Nat : n \in S => n + 1 \in S
    PROVE  Nat \subseteq S
<1>. SUFFICES ASSUME NEW k \in Nat, k \notin S PROVE FALSE
  OBVIOUS
<1>a. IsWellFoundedOn(Less, Nat)
  BY NatLessThanWellFounded DEF Less, OpToRel
<1>b. \A x, y \in Nat : <<x, y>> \in Less <=> x < y
  BY DEF Less
<1>. DEFINE T == Nat \ S
<1>1. T \subseteq Nat /\ T # {}
  OBVIOUS
<1>. HIDE DEF T
<1>2. PICK x \in T : \A y \in T : ~(<<y, x>> \in Less)
  BY <1>1, <1>a, WFMin
<1>3. x \in Nat /\ x \notin S /\ x # 0
  BY DEF T
<1>4. x - 1 \in Nat /\ x - 1 < x /\ (x - 1) + 1 = x
  BY <1>3
<1>5. x - 1 \notin T
  BY <1>1, <1>2, <1>3, <1>4, <1>b
<1>6. x - 1 \in S
  BY <1>4, <1>5 DEF T
<1>. QED
  BY <1>3, <1>4, <1>6

(* Quotient and remainder, *)
LEMMA DivMod ==
    ASSUME NEW x \in Nat, NEW y \in Nat \ {0}
    PROVE  x \div y \in Nat /\ x % y \in 0..(y - 1) /\ x = y * (x \div y) + (x % y)
<1>1. x \div y \in Nat
  OBVIOUS
<1>2. x % y \in 0..(y - 1)
  OBVIOUS
<1>3. x = y * (x \div y) + (x % y)
  OBVIOUS
<1>. QED
  BY <1>1, <1>2, <1>3

(* ... which are unique. *)
LEMMA DivModUnique ==
    ASSUME NEW y \in Nat \ {0}, NEW q \in Nat, NEW r \in 0..(y - 1),
           NEW p \in Nat, NEW s \in 0..(y - 1), y * q + r = y * p + s
    PROVE  r = s
<1>1. ~(q >= p + 1)
  <2>. SUFFICES ASSUME q >= p + 1 PROVE FALSE
    OBVIOUS
  <2>1. y * q >= y * (p + 1)
    OBVIOUS
  <2>2. y * (p + 1) = y * p + y
    OBVIOUS
  <2>. QED
    BY <2>1, <2>2
<1>2. ~(p >= q + 1)
  <2>. SUFFICES ASSUME p >= q + 1 PROVE FALSE
    OBVIOUS
  <2>1. y * p >= y * (q + 1)
    OBVIOUS
  <2>2. y * (q + 1) = y * q + y
    OBVIOUS
  <2>. QED
    BY <2>1, <2>2
<1>. QED
  BY <1>1, <1>2

(* One more digit: what the parser adds to the length. *)
LEMMA AddDigit ==
    ASSUME NEW L \in Nat, NEW m \in Nat \ {0}, NEW b \in Nat \ {0}
    PROVE  L % (m * b) = (L % m) + ((L \div m) % b) * m
<1>1. PICK q, r : q = L \div m /\ r = L % m
  OBVIOUS
<1>2. q \in Nat /\ r \in 0..(m - 1) /\ L = m * q + r
  BY <1>1, DivMod
<1>3. PICK q2, r2 : q2 = q \div b /\ r2 = q % b
  OBVIOUS
<1>4. q2 \in Nat /\ r2 \in 0..(b - 1) /\ q = b * q2 + r2
  BY <1>2, <1>3, DivMod
<1>5. PICK y : y = m * b
  OBVIOUS
<1>6. y \in Nat \ {0}
  BY <1>5
<1>7. PICK k : k = r2 * m + r
  OBVIOUS
<1>8. k \in 0..(y - 1)
  <2>1. r2 * m <= (b - 1) * m /\ r2 * m \in Nat
    BY <1>4
  <2>2. (b - 1) * m = m * b - m
    OBVIOUS
  <2>. QED
    BY <1>2, <1>5, <1>7, <2>1, <2>2
<1>9. L = y * q2 + k
  BY <1>2, <1>4, <1>5, <1>7
<1>10. L \div y \in Nat /\ L % y \in 0..(y - 1) /\ L = y * (L \div y) + (L % y)
  BY <1>6, DivMod
<1>11. k = L % y
  <2>1. PICK v, u : v = L \div y /\ u = L % y
    OBVIOUS
  <2>2. y * q2 + k = y * v + u /\ v \in Nat /\ u \in 0..(y - 1)
    BY <1>9, <1>10, <2>1
  <2>. QED
    BY <1>4, <1>6, <1>8, <2>1, <2>2, DivModUnique
<1>12. k = r + r2 * m
  BY <1>2, <1>4, <1>7
<1>. QED
  BY <1>1, <1>3, <1>5, <1>11, <1>12

-----------------------------------------------------------------------------
(* The stream *)

LEMMA WeightsFacts ==
    /\ Base \in Nat \ {0, 1} /\ Word \in Nat \ {0}
    /\ Weights[1] = 1
    /\ \A i \in 1..5 : Weights[i] \in Nat \ {0} /\ Weights[i] <= Weights[5]
    /\ \A i \in 1..4 : Weights[i + 1] = Weights[i] * Base /\ Weights[i] < Weights[i + 1]
    /\ Weights[4] = Base * Base * Base /\ Weights[5] < Word
<1>. DEFINE w2 == Base * Base  w3 == w2 * Base  w4 == w3 * Base
<1>1. Base \in Nat \ {0, 1}
  BY ReceiverAssumption
<1>2. w2 \in Nat /\ w2 > Base
  BY <1>1
<1>3. w3 \in Nat /\ w3 > w2
  <2>. HIDE DEF w2
  <2>. QED
    BY <1>1, <1>2
<1>4. w4 \in Nat /\ w4 > w3
  <2>. HIDE DEF w3
  <2>. QED
    BY <1>1, <1>2, <1>3
<1>5. /\ Weights[1] = 1 /\ Weights[2] = Base /\ Weights[3] = w2 /\ Weights[4] = w3
      /\ Weights[5] = w4
  BY DEF Weights
<1>6. Word \in Nat \ {0} /\ Weights[5] < Word
  <2>. HIDE DEF w4
  <2>1. Word \in Nat /\ Word > Weights[5]
    BY ReceiverAssumption
  <2>. QED
    BY <1>2, <1>3, <1>4, <1>5, <2>1
<1>7. Weights[4] = Base * Base * Base
  BY DEF Weights
<1>8. /\ \A i \in 1..5 : Weights[i] \in Nat \ {0} /\ Weights[i] <= Weights[5]
  <2>1. \A i \in 1..5 : i = 1 \/ i = 2 \/ i = 3 \/ i = 4 \/ i = 5
    OBVIOUS
  <2>. HIDE DEF w2, w3, w4
  <2>. QED
    BY <1>1, <1>2, <1>3, <1>4, <1>5, <2>1
<1>9. \A i \in 1..4 : Weights[i + 1] = Weights[i] * Base /\ Weights[i] < Weights[i + 1]
  <2>1. \A i \in 1..4 : i = 1 \/ i = 2 \/ i = 3 \/ i = 4
    OBVIOUS
  <2>2. Weights[2] = Weights[1] * Base /\ Weights[1] < Weights[2]
    BY <1>1, <1>5
  <2>3. Weights[3] = Weights[2] * Base /\ Weights[2] < Weights[3]
    BY <1>1, <1>2, <1>5
  <2>4. Weights[4] = Weights[3] * Base /\ Weights[3] < Weights[4]
    BY <1>1, <1>3, <1>5
  <2>5. Weights[5] = Weights[4] * Base /\ Weights[4] < Weights[5]
    BY <1>1, <1>4, <1>5
  <2>. HIDE DEF w2, w3, w4
  <2>. QED
    BY <2>1, <2>2, <2>3, <2>4, <2>5
<1>. QED
  BY <1>1, <1>5, <1>6, <1>7, <1>8, <1>9

LEMMA LengthFacts ==
    /\ MaxPackets \in Nat
    /\ \A p \in 0..MaxPackets :
         /\ LengthOf(p) \in Nat /\ LengthOf(p) < Weights[5]
         /\ Digits(p) \in 1..4 /\ LengthOf(p) < Weights[Digits(p) + 1]
<1>1. Lengths \in Seq(0..(Weights[5] - 1)) /\ Lengths # <<>> /\ Weights[5] \in Nat
  BY SMTT(60), ReceiverAssumption, WeightsFacts
<1>2. Len(Lengths) \in Nat \ {0}
  BY <1>1
<1>3. MaxPackets \in Nat /\ Len(Lengths) = MaxPackets + 1
  BY <1>2 DEF MaxPackets
<1>4. ASSUME NEW p \in 0..MaxPackets
      PROVE  /\ LengthOf(p) \in Nat /\ LengthOf(p) < Weights[5]
             /\ Digits(p) \in 1..4 /\ LengthOf(p) < Weights[Digits(p) + 1]
  <2>1. p + 1 \in 1..Len(Lengths)
    BY <1>3
  <2>2. LengthOf(p) \in 0..(Weights[5] - 1)
    BY SMTT(60), <1>1, <2>1 DEF LengthOf
  <2>3. LengthOf(p) \in Nat /\ LengthOf(p) < Weights[5]
    BY <1>1, <2>2
  <2>. DEFINE Fits(k) == LengthOf(p) < Weights[k + 1] /\ (k > 1 => LengthOf(p) >= Weights[k])
  <2>4. \E k \in 1..4 : Fits(k)
    <3>1. Weights[2] \in Nat /\ Weights[3] \in Nat /\ Weights[4] \in Nat
      BY WeightsFacts
    <3>2. CASE LengthOf(p) < Weights[2]
      BY <3>2
    <3>3. CASE LengthOf(p) >= Weights[2] /\ LengthOf(p) < Weights[3]
      BY <3>3
    <3>4. CASE LengthOf(p) >= Weights[3] /\ LengthOf(p) < Weights[4]
      BY <3>4
    <3>5. CASE LengthOf(p) >= Weights[4]
      BY <2>3, <3>5
    <3>. QED
      BY <2>3, <3>1, <3>2, <3>3, <3>4, <3>5
  <2>5. Digits(p) = CHOOSE k \in 1..4 : Fits(k)
    BY DEF Digits
  <2>. HIDE DEF Fits
  <2>6. Digits(p) \in 1..4 /\ Fits(Digits(p))
    BY <2>4, <2>5
  <2>. QED
    BY <2>3, <2>6 DEF Fits
<1>. QED
  BY <1>3, <1>4

Bytes == [of: 0..MaxPackets, value: Nat]

(* The bytes of a packet: its type, its digits, all but the last with a flag, its data. *)
LEMMA EncodeFacts ==
    ASSUME NEW p \in 0..MaxPackets
    PROVE  /\ Encode(p) \in Seq(Bytes) /\ Len(Encode(p)) = 1 + Digits(p) + LengthOf(p)
           /\ \A i \in 1..Len(Encode(p)) : Encode(p)[i].of = p
           /\ \A i \in 1..Digits(p) : Encode(p)[i + 1].value
                = ((LengthOf(p) \div Weights[i]) % Base) + (IF i < Digits(p) THEN Base ELSE 0)
<1>. DEFINE D == Digits(p)
            L == LengthOf(p)
            digit(i) == ((L \div Weights[i]) % Base) + (IF i < D THEN Base ELSE 0)
            a == <<[of |-> p, value |-> 1]>>
            b == [i \in 1..D |-> [of |-> p, value |-> digit(i)]]
            c == [i \in 1..L |-> [of |-> p, value |-> 0]]
<1>1. D \in 1..4 /\ L \in Nat /\ Base \in Nat \ {0, 1}
  BY LengthFacts, WeightsFacts
<1>2. \A i \in 1..D : digit(i) \in Nat
  <2>. SUFFICES ASSUME NEW i \in 1..D PROVE digit(i) \in Nat
    OBVIOUS
  <2>1. Weights[i] \in Nat \ {0}
    BY <1>1, WeightsFacts
  <2>2. L \div Weights[i] \in Nat
    BY <1>1, <2>1, DivMod
  <2>3. (L \div Weights[i]) % Base \in Nat
    BY <1>1, <2>2, DivMod
  <2>. QED
    BY <1>1, <2>3
<1>3. Encode(p) = a \o b \o c
  BY DEF Encode
<1>. HIDE DEF D, L, digit
<1>4. a \in Seq(Bytes) /\ Len(a) = 1 /\ a[1] = [of |-> p, value |-> 1]
  BY DEF Bytes
<1>5. b \in Seq(Bytes) /\ Len(b) = D /\ \A i \in 1..D : b[i] = [of |-> p, value |-> digit(i)]
  BY <1>1, <1>2 DEF Bytes
<1>6. c \in Seq(Bytes) /\ Len(c) = L /\ \A i \in 1..L : c[i] = [of |-> p, value |-> 0]
  BY <1>1 DEF Bytes
<1>. HIDE DEF a, b, c
<1>7. /\ a \o b \in Seq(Bytes) /\ Len(a \o b) = 1 + D
      /\ \A i \in 1..(1 + D) : (a \o b)[i] = IF i <= 1 THEN a[i] ELSE b[i - 1]
  <2>1. /\ a \o b \in Seq(Bytes) /\ Len(a \o b) = Len(a) + Len(b)
        /\ \A i \in 1..(Len(a) + Len(b)) : (a \o b)[i] = IF i <= Len(a) THEN a[i] ELSE b[i - Len(a)]
    BY <1>4, <1>5, ConcatProperties
  <2>2. Len(a) = 1 /\ Len(b) = D
    BY <1>4, <1>5
  <2>. QED
    BY <2>1, <2>2
<1>8. /\ (a \o b) \o c \in Seq(Bytes) /\ Len((a \o b) \o c) = 1 + D + L
      /\ \A i \in 1..(1 + D + L) : ((a \o b) \o c)[i] = IF i <= 1 + D THEN (a \o b)[i] ELSE c[i - (1 + D)]
  BY SMTT(60), <1>1, <1>6, <1>7, ConcatProperties
<1>9. /\ Encode(p) \in Seq(Bytes) /\ Len(Encode(p)) = 1 + D + L
      /\ \A i \in 1..(1 + D + L) : Encode(p)[i] = IF i <= 1 THEN a[i] ELSE
                                                 IF i <= 1 + D THEN b[i - 1] ELSE c[i - (1 + D)]
  <2>1. \A i \in 1..(1 + D + L) : i <= 1 + D => i \in 1..(1 + D)
    BY <1>1
  <2>. QED
    BY SMTT(60), <1>1, <1>3, <1>7, <1>8, <2>1
<1>10. ASSUME NEW i \in 1..(1 + D + L) PROVE Encode(p)[i].of = p
  <2>1. CASE i <= 1
    BY <1>1, <1>4, <1>9, <2>1
  <2>2. CASE i > 1 /\ i <= 1 + D
    <3>1. i - 1 \in 1..D
      BY <1>1, <2>2
    <3>. QED
      BY <1>1, <1>5, <1>9, <2>2, <3>1
  <2>3. CASE i > 1 + D
    <3>1. i - (1 + D) \in 1..L
      BY <1>1, <2>3
    <3>. QED
      BY <1>1, <1>6, <1>9, <2>3, <3>1
  <2>. QED
    BY <1>1, <2>1, <2>2, <2>3
<1>11. ASSUME NEW i \in 1..D PROVE Encode(p)[i + 1].value = digit(i)
  <2>1. /\ i + 1 \in 1..(1 + D + L) /\ ~(i + 1 <= 1) /\ i + 1 <= 1 + D /\ (i + 1) - 1 = i
    BY <1>1
  <2>. QED
    BY <1>5, <1>9, <2>1
<1>. QED
  BY <1>9, <1>10, <1>11 DEF D, L, digit

(* The recursive definition of the stream has a solution, *)
LEMMA SentDef ==
    Sent = [k \in 0..(MaxPackets + 1) |-> IF k = 0 THEN <<>> ELSE Sent[k - 1] \o Encode(k - 1)]
<1>. DEFINE Solves(f, n) ==
              f = [k \in 0..n |-> IF k = 0 THEN <<>> ELSE f[k - 1] \o Encode(k - 1)]
            S == {n \in Nat : \E f : Solves(f, n)}
<1>1. 0 \in S
  <2>. DEFINE f == [k \in 0..0 |-> <<>>]
  <2>1. Solves(f, 0)
    OBVIOUS
  <2>. HIDE DEF Solves, f
  <2>. QED
    BY <2>1
<1>2. ASSUME NEW n \in Nat, n \in S PROVE n + 1 \in S
  <2>1. PICK f : Solves(f, n)
    BY <1>2
  <2>. DEFINE g == [k \in 0..(n + 1) |-> IF k = n + 1 THEN f[n] \o Encode(n) ELSE f[k]]
  <2>2. \A k \in 0..n : f[k] = IF k = 0 THEN <<>> ELSE f[k - 1] \o Encode(k - 1)
    BY <2>1
  <2>3. ASSUME NEW k \in 0..(n + 1)
        PROVE  g[k] = IF k = 0 THEN <<>> ELSE g[k - 1] \o Encode(k - 1)
    <3>1. CASE k = n + 1
      <4>1. k # 0 /\ k - 1 = n /\ n \in 0..(n + 1) /\ n # n + 1
        BY <3>1
      <4>2. g[k] = f[n] \o Encode(n) /\ g[n] = f[n]
        BY <3>1, <4>1
      <4>. HIDE DEF g
      <4>. QED
        BY <4>1, <4>2
    <3>2. CASE k # n + 1 /\ k # 0
      <4>1. k \in 0..n /\ k - 1 \in 0..(n + 1) /\ k - 1 # n + 1
        BY <3>2
      <4>2. g[k] = f[k] /\ g[k - 1] = f[k - 1]
        BY <3>2, <4>1
      <4>. QED
        BY <2>2, <3>2, <4>1, <4>2
    <3>3. CASE k = 0
      BY <2>2, <3>3
    <3>. QED
      BY <3>1, <3>2, <3>3
  <2>4. Solves(g, n + 1)
    BY <2>3
  <2>. HIDE DEF Solves, g
  <2>. QED
    BY <2>4
<1>. HIDE DEF S
<1>3. MaxPackets + 1 \in S
  BY <1>1, <1>2, SetInduction, LengthFacts
<1>4. \E f : Solves(f, MaxPackets + 1)
  BY <1>3 DEF S
<1>5. Sent = CHOOSE f : Solves(f, MaxPackets + 1)
  BY DEF Sent
<1>. HIDE DEF Solves
<1>6. Solves(Sent, MaxPackets + 1)
  BY <1>4, <1>5
<1>. QED
  BY <1>6 DEF Solves

\* Where packet k starts: the number of bytes before it
Start(k) == Len(Sent[k])

(* ... and what it is. *)
LEMMA SentFacts ==
    /\ Sent[0] = <<>> /\ Start(0) = 0
    /\ \A k \in 0..(MaxPackets + 1) : Sent[k] \in Seq(Bytes) /\ Start(k) \in Nat
    /\ \A k \in 0..MaxPackets : /\ Sent[k + 1] = Sent[k] \o Encode(k)
                                /\ Start(k + 1) = Start(k) + 1 + Digits(k) + LengthOf(k)
<1>. USE LengthFacts
<1>1. Sent[0] = <<>>
  BY SentDef
<1>2. \A k \in 0..MaxPackets : Sent[k + 1] = Sent[k] \o Encode(k)
  <2>. SUFFICES ASSUME NEW k \in 0..MaxPackets PROVE Sent[k + 1] = Sent[k] \o Encode(k)
    OBVIOUS
  <2>1. k + 1 \in 0..(MaxPackets + 1) /\ k + 1 # 0 /\ (k + 1) - 1 = k
    OBVIOUS
  <2>2. Sent[k + 1] = Sent[(k + 1) - 1] \o Encode((k + 1) - 1)
    BY <2>1, SentDef
  <2>. QED
    BY <2>1, <2>2
<1>. DEFINE S == {n \in Nat : n <= MaxPackets + 1 => Sent[n] \in Seq(Bytes)}
<1>3. 0 \in S
  <2>1. <<>> \in Seq(Bytes)
    OBVIOUS
  <2>. QED
    BY <1>1, <2>1
<1>4. ASSUME NEW n \in Nat, n \in S PROVE n + 1 \in S
  <2>. SUFFICES ASSUME n + 1 <= MaxPackets + 1 PROVE Sent[n + 1] \in Seq(Bytes)
    OBVIOUS
  <2>1. n \in 0..MaxPackets /\ Sent[n] \in Seq(Bytes)
    BY <1>4
  <2>2. Encode(n) \in Seq(Bytes)
    BY <2>1, EncodeFacts
  <2>. QED
    BY <1>2, <2>1, <2>2, ConcatProperties
<1>. HIDE DEF S
<1>5. \A k \in 0..(MaxPackets + 1) : k \in S
  BY <1>3, <1>4, SetInduction
<1>6. \A k \in 0..(MaxPackets + 1) : Sent[k] \in Seq(Bytes)
  BY <1>5 DEF S
<1>7. \A k \in 0..(MaxPackets + 1) : Start(k) \in Nat
  BY <1>6 DEF Start
<1>8. ASSUME NEW k \in 0..MaxPackets
      PROVE  Start(k + 1) = Start(k) + 1 + Digits(k) + LengthOf(k)
  <2>1. Sent[k] \in Seq(Bytes) /\ Start(k) \in Nat
    BY <1>6, <1>7
  <2>2. Encode(k) \in Seq(Bytes) /\ Len(Encode(k)) = 1 + Digits(k) + LengthOf(k)
    BY EncodeFacts
  <2>3. Len(Sent[k] \o Encode(k)) = Len(Sent[k]) + Len(Encode(k))
    BY <2>1, <2>2, ConcatProperties
  <2>4. Digits(k) \in Nat /\ LengthOf(k) \in Nat
    OBVIOUS
  <2>5. Start(k + 1) = Start(k) + (1 + Digits(k) + LengthOf(k))
    BY <1>2, <2>2, <2>3 DEF Start
  <2>. QED
    BY <2>1, <2>4, <2>5
<1>9. Start(0) = 0
  BY <1>1 DEF Start
<1>. QED
  BY <1>1, <1>2, <1>6, <1>7, <1>8, <1>9

(* What follows the first packets does not change them. *)
LEMMA Prefix ==
    ASSUME NEW k \in 0..(MaxPackets + 1), NEW m \in k..(MaxPackets + 1)
    PROVE  Start(k) <= Start(m) /\ \A i \in 1..Start(k) : Sent[m][i] = Sent[k][i]
<1>. USE LengthFacts
<1>. DEFINE S == {n \in Nat : k + n <= MaxPackets + 1 =>
                    Start(k) <= Start(k + n) /\ \A i \in 1..Start(k) : Sent[k + n][i] = Sent[k][i]}
<1>1. 0 \in S
  <2>1. k + 0 = k /\ Start(k) <= Start(k)
    BY SentFacts
  <2>. QED
    BY <2>1
<1>2. ASSUME NEW n \in Nat, n \in S PROVE n + 1 \in S
  <2>. SUFFICES ASSUME k + (n + 1) <= MaxPackets + 1
                PROVE  /\ Start(k) <= Start(k + (n + 1))
                       /\ \A i \in 1..Start(k) : Sent[k + (n + 1)][i] = Sent[k][i]
    OBVIOUS
  <2>. DEFINE j == k + n
  <2>1. j \in 0..MaxPackets /\ j \in 0..(MaxPackets + 1) /\ k + (n + 1) = j + 1
    OBVIOUS
  <2>2. Start(k) <= Start(j) /\ \A i \in 1..Start(k) : Sent[j][i] = Sent[k][i]
    BY <1>2, <2>1
  <2>. HIDE DEF j
  <2>3. /\ Sent[j + 1] = Sent[j] \o Encode(j) /\ Start(j + 1) = Start(j) + 1 + Digits(j) + LengthOf(j)
        /\ Sent[j] \in Seq(Bytes) /\ Start(j) \in Nat /\ Start(k) \in Nat
    BY <2>1, SentFacts
  <2>4. Encode(j) \in Seq(Bytes) /\ Len(Encode(j)) = 1 + Digits(j) + LengthOf(j)
    BY <2>1, EncodeFacts
  <2>5. Digits(j) \in Nat /\ LengthOf(j) \in Nat
    BY <2>1
  <2>6. \A i \in 1..(Len(Sent[j]) + Len(Encode(j))) :
           (Sent[j] \o Encode(j))[i] = IF i <= Len(Sent[j]) THEN Sent[j][i] ELSE Encode(j)[i - Len(Sent[j])]
    BY <2>3, <2>4, ConcatProperties
  <2>7. ASSUME NEW i \in 1..Start(k) PROVE Sent[j + 1][i] = Sent[k][i]
    <3>1. i \in 1..(Len(Sent[j]) + Len(Encode(j))) /\ i <= Len(Sent[j])
      <4>1. Len(Sent[j]) = Start(j) /\ Len(Encode(j)) \in Nat
        BY <2>4, <2>5 DEF Start
      <4>. QED
        BY <2>2, <2>3, <4>1
    <3>. QED
      BY <2>2, <2>3, <2>6, <3>1
  <2>8. Start(k) <= Start(j + 1)
    BY <2>2, <2>3, <2>5
  <2>. QED
    BY <2>1, <2>7, <2>8
<1>. HIDE DEF S
<1>3. m - k \in S
  <2>1. m - k \in Nat
    OBVIOUS
  <2>. QED
    BY <1>1, <1>2, <2>1, SetInduction
<1>4. k + (m - k) = m /\ m <= MaxPackets + 1
  OBVIOUS
<1>. QED
  BY <1>3, <1>4 DEF S

(* Where the bytes of a packet are in the stream, and that packets do not overlap. *)
LEMMA StreamFacts ==
    /\ Stream \in Seq(Bytes) /\ Len(Stream) = Start(MaxPackets + 1)
    /\ \A k \in 0..MaxPackets :
         /\ Start(k + 1) <= Len(Stream)
         /\ \A j \in 1..Len(Encode(k)) : Stream[Start(k) + j] = Encode(k)[j]
    /\ \A k, m \in 0..(MaxPackets + 1) : k < m <=> Start(k) < Start(m)
<1>. USE LengthFacts
<1>1. Stream \in Seq(Bytes) /\ Len(Stream) = Start(MaxPackets + 1)
  BY SentFacts DEF Stream, Start
<1>2. ASSUME NEW k \in 0..MaxPackets
      PROVE  /\ Start(k + 1) <= Len(Stream)
             /\ \A j \in 1..Len(Encode(k)) : Stream[Start(k) + j] = Encode(k)[j]
  <2>1. /\ Sent[k + 1] = Sent[k] \o Encode(k) /\ Start(k + 1) = Start(k) + 1 + Digits(k) + LengthOf(k)
        /\ Sent[k] \in Seq(Bytes) /\ Start(k) \in Nat
    BY SMTT(60), SentFacts
  <2>2. Encode(k) \in Seq(Bytes) /\ Len(Encode(k)) = 1 + Digits(k) + LengthOf(k)
    BY EncodeFacts
  <2>3. \A i \in 1..(Len(Sent[k]) + Len(Encode(k))) :
           (Sent[k] \o Encode(k))[i] = IF i <= Len(Sent[k]) THEN Sent[k][i] ELSE Encode(k)[i - Len(Sent[k])]
    BY ZenonT(60), <2>1, <2>2, ConcatProperties
  <2>4. k + 1 \in 0..(MaxPackets + 1) /\ MaxPackets + 1 \in (k + 1)..(MaxPackets + 1)
    OBVIOUS
  <2>5. Start(k + 1) <= Start(MaxPackets + 1) /\ \A i \in 1..Start(k + 1) : Stream[i] = Sent[k + 1][i]
    BY <2>4, Prefix DEF Stream
  <2>6. ASSUME NEW j \in 1..Len(Encode(k)) PROVE Stream[Start(k) + j] = Encode(k)[j]
    <3>1. Digits(k) \in Nat /\ LengthOf(k) \in Nat
      BY SMTT(60)
    <3>2. Len(Sent[k]) = Start(k) /\ Len(Encode(k)) \in Nat /\ Start(k + 1) = Start(k) + Len(Encode(k))
      BY SMTT(60), <2>1, <2>2, <3>1 DEF Start
    <3>3. /\ Start(k) + j \in 1..(Len(Sent[k]) + Len(Encode(k))) /\ Start(k) + j \in 1..Start(k + 1)
          /\ ~(Start(k) + j <= Len(Sent[k])) /\ (Start(k) + j) - Len(Sent[k]) = j
      BY SMTT(60), <2>1, <3>2
    <3>. QED
      BY <2>1, <2>3, <2>5, <3>3
  <2>. QED
    BY <1>1, <2>5, <2>6
<1>3. \A k, m \in 0..(MaxPackets + 1) : k < m => Start(k) < Start(m)
  <2>. SUFFICES ASSUME NEW k \in 0..(MaxPackets + 1), NEW m \in 0..(MaxPackets + 1), k < m
                PROVE  Start(k) < Start(m)
    OBVIOUS
  <2>1. k \in 0..MaxPackets /\ k + 1 \in 0..(MaxPackets + 1) /\ m \in (k + 1)..(MaxPackets + 1)
    OBVIOUS
  <2>2. Start(k + 1) = Start(k) + 1 + Digits(k) + LengthOf(k) /\ Start(k) \in Nat /\ Start(m) \in Nat
    BY <2>1, SentFacts
  <2>3. Digits(k) \in Nat /\ LengthOf(k) \in Nat
    BY <2>1
  <2>4. Start(k + 1) <= Start(m)
    BY <2>1, Prefix
  <2>. QED
    BY <2>2, <2>3, <2>4
<1>4. ASSUME NEW k \in 0..(MaxPackets + 1), NEW m \in 0..(MaxPackets + 1), Start(k) < Start(m)
      PROVE  k < m
  <2>1. Start(k) \in Nat /\ Start(m) \in Nat
    BY SentFacts
  <2>2. k = m => FALSE
    BY <1>4, <2>1
  <2>3. m < k => FALSE
    BY <1>3, <1>4, <2>1
  <2>. QED
    BY <2>2, <2>3
<1>. QED
  BY <1>1, <1>2, <1>3, <1>4

-----------------------------------------------------------------------------
(* The invariant *)

\* Where the receiver thread is in what it has read
BytesInv ==
    /\ rpc = "parse" => next < read
    /\ rpc # "parse" => next = read
    /\ recvData.recvState = "RECEIVING_VAR_LENGTH" => recvData.currentReceiveBuffer = <<>>

\* A login that is requested or half executed belongs to a CONNECT that was handled
LoginInv ==
    wpc = "login" \/ (\E i \in DOMAIN mQueue : mQueue[i] = "Login") => mState # "INITIAL"

\* The parser has taken d digits of packet k's length
DigitsTaken(k, d) ==
    /\ d < Digits(k) /\ next = Start(k) + 1 + d
    /\ recvData.multiplier = Weights[d + 1]
    /\ recvData.packetLength = LengthOf(k) % Weights[d + 1]

\* The parser has taken k packets, and what it says of the next one is right
Parsing(k) ==
    \/ recvData.recvState = "IDLE" /\ next = Start(k)
    \/ /\ recvData.recvState = "RECEIVING_VAR_LENGTH" /\ k <= MaxPackets /\ recvData.packet = k
       /\ \E d \in 0..3 : DigitsTaken(k, d)
    \/ /\ recvData.recvState = "RECEIVING_DATA" /\ k <= MaxPackets /\ recvData.packet = k
       /\ recvData.packetLength = LengthOf(k)
       /\ Len(recvData.currentReceiveBuffer) < LengthOf(k)
       /\ next = Start(k) + 1 + Digits(k) + Len(recvData.currentReceiveBuffer)

\* The k packets that were taken have each been handled or are held
Accounted(k) ==
    /\ mState = "INITIAL" <=> k = 0
    /\ \A p \in Packets : Count(p, handled) + Waiting(p) = IF p < k THEN 1 ELSE 0
    /\ rpc # "flush" => flushed = 0
    /\ \A i \in DOMAIN held : held[i] \in 1..(k - 1)

PositionInv == ~Failed => \E k \in 0..(MaxPackets + 1) : Parsing(k) /\ Accounted(k)

(* What makes a receiver give a connection up: a length of more than three bytes   *)
(* has arrived (four are valid in MQTT, but the check of the multiplier rejects    *)
(* them), or a packet that needs the session was handled before the login.         *)
FailsForReason ==
    Failed => \/ \E p \in 0..MaxPackets : Digits(p) > 3 /\ HeadEnd(p) <= next
              \/ \E p \in NeedsSession : EndOf(p) <= next

\* The inductive invariant
Inv == TypeOK /\ BytesInv /\ LoginInv /\ FailsForReason /\ EventDrains /\ PositionInv

-----------------------------------------------------------------------------
(* Positions *)

(* In a state the parser is in after k packets, exactly those have their last byte *)
(* taken.                                                                          *)
LEMMA TakenPackets ==
    ASSUME NEW k \in 0..(MaxPackets + 1), Parsing(k), TypeOK
    PROVE  \A p \in 0..MaxPackets : EndOf(p) <= next <=> p < k
<1>. USE LengthFacts
<1>1. Start(k) <= next /\ (k <= MaxPackets => next < Start(k + 1))
  <2>1. Start(k) \in Nat /\ next \in Nat
    BY SentFacts DEF TypeOK
  <2>2. CASE k <= MaxPackets
    <3>1. /\ Digits(k) \in 1..4 /\ LengthOf(k) \in Nat
          /\ Start(k + 1) = Start(k) + 1 + Digits(k) + LengthOf(k)
      BY <2>2, SentFacts
    <3>2. Len(recvData.currentReceiveBuffer) \in Nat
      BY DEF TypeOK
    <3>3. CASE next = Start(k)
      BY <2>1, <3>1, <3>3
    <3>4. CASE \E d \in 0..3 : d < Digits(k) /\ next = Start(k) + 1 + d
      BY <2>1, <3>1, <3>4
    <3>5. CASE /\ Len(recvData.currentReceiveBuffer) < LengthOf(k)
               /\ next = Start(k) + 1 + Digits(k) + Len(recvData.currentReceiveBuffer)
      <4>1. PICK l : l = Len(recvData.currentReceiveBuffer)
        OBVIOUS
      <4>2. l \in Nat /\ l < LengthOf(k) /\ next = Start(k) + 1 + Digits(k) + l
        BY <3>2, <3>5, <4>1
      <4>. QED
        BY <2>1, <3>1, <4>2
    <3>. QED
      BY <3>3, <3>4, <3>5 DEF Parsing, DigitsTaken
  <2>3. CASE ~(k <= MaxPackets)
    BY <2>1, <2>3 DEF Parsing
  <2>. QED
    BY <2>2, <2>3
<1>. SUFFICES ASSUME NEW p \in 0..MaxPackets PROVE EndOf(p) <= next <=> p < k
  OBVIOUS
<1>2. EndOf(p) = Start(p + 1) /\ p + 1 \in 0..(MaxPackets + 1) /\ Start(p + 1) \in Nat /\ Start(k) \in Nat
  BY SentFacts DEF EndOf, Start
<1>3. next \in Nat
  BY DEF TypeOK
<1>4. CASE p < k
  <2>1. Start(p + 1) <= Start(k)
    <3>1. k \in (p + 1)..(MaxPackets + 1)
      BY <1>4
    <3>. QED
      BY <1>2, <3>1, Prefix
  <2>. QED
    BY <1>1, <1>2, <1>3, <1>4, <2>1
<1>5. CASE ~(p < k)
  <2>1. k \in 0..MaxPackets /\ k + 1 \in 0..(MaxPackets + 1) /\ p + 1 \in (k + 1)..(MaxPackets + 1)
    BY <1>5
  <2>2. Start(k + 1) <= Start(p + 1) /\ Start(k + 1) \in Nat
    BY <2>1, Prefix, SentFacts
  <2>. QED
    BY <1>1, <1>2, <1>3, <1>5, <2>1, <2>2
<1>. QED
  BY <1>4, <1>5

(* A connection that is given up stays so, and its reason too. *)
LEMMA ReasonStays ==
    ASSUME TypeOK, FailsForReason, next' \in Nat, next' >= next, Failed
    PROVE  FailsForReason'
<1>1. next \in Nat
  BY DEF TypeOK
<1>2. \A p \in 0..MaxPackets : EndOf(p) \in Nat /\ HeadEnd(p) \in Int
  <2>1. \A p \in 0..MaxPackets : p + 1 \in 0..(MaxPackets + 1)
    BY LengthFacts
  <2>2. \A p \in 0..MaxPackets : EndOf(p) \in Nat
    BY <2>1, SentFacts DEF EndOf, Start
  <2>. QED
    BY <2>2, LengthFacts DEF HeadEnd
<1>3. CASE \E p \in 0..MaxPackets : Digits(p) > 3 /\ HeadEnd(p) <= next
  <2>1. PICK p \in 0..MaxPackets : Digits(p) > 3 /\ HeadEnd(p) <= next
    BY <1>3
  <2>2. HeadEnd(p) <= next'
    BY <1>1, <1>2, <2>1
  <2>. QED
    BY <2>1, <2>2 DEF FailsForReason
<1>4. CASE \E p \in NeedsSession : EndOf(p) <= next
  <2>1. PICK p \in NeedsSession : EndOf(p) <= next
    BY <1>4
  <2>2. p \in 0..MaxPackets
    BY ReceiverAssumption, LengthFacts
  <2>3. EndOf(p) <= next'
    BY <1>1, <1>2, <2>1, <2>2
  <2>. QED
    BY <2>1, <2>3 DEF FailsForReason
<1>. QED
  BY <1>3, <1>4 DEF FailsForReason

-----------------------------------------------------------------------------
(* Types *)

ReceiveData == [recvState: {"IDLE", "RECEIVING_VAR_LENGTH", "RECEIVING_DATA"},
                packet: 0..MaxPackets, packetLength: 0..(Word - 1), multiplier: 0..(Word - 1),
                currentReceiveBuffer: Seq(1..Len(Stream))]

(* The values of recvData that the parser makes. *)
LEMMA ReceiveDataFacts ==
    /\ Cleared \in ReceiveData /\ Cleared.currentReceiveBuffer = <<>> /\ Cleared.packetLength = 0
    /\ \A r \in ReceiveData :
         /\ r.packetLength \in 0..(Word - 1) /\ r.multiplier \in 0..(Word - 1)
         /\ r.packet \in 0..MaxPackets /\ r.currentReceiveBuffer \in Seq(1..Len(Stream))
<1>1. 0 \in 0..MaxPackets /\ 0 \in 0..(Word - 1) /\ 1 \in 0..(Word - 1) /\ <<>> \in Seq(1..Len(Stream))
  <2>1. Word \in Nat /\ Word > Weights[5] /\ Weights[5] \in Nat \ {0} /\ MaxPackets \in Nat
    BY WeightsFacts, LengthFacts
  <2>. QED
    BY <2>1
<1>2. Cleared \in ReceiveData
  BY <1>1 DEF Cleared, ReceiveData
<1>3. Cleared.currentReceiveBuffer = <<>> /\ Cleared.packetLength = 0
  BY DEF Cleared
<1>. QED
  BY <1>2, <1>3 DEF ReceiveData

\* The type invariant in parts
BytesType == next \in 0..read /\ read \in 0..arrived /\ arrived \in 0..Len(Stream)
ThreadType ==
    /\ event \in BOOLEAN /\ rpc \in {"wait", "flush", "recv", "parse"}
    /\ held \in Seq(0..MaxPackets) /\ flushed \in 0..Len(held)
    /\ mState \in {"INITIAL", "CONNECTING", "CONNECTED"}
    /\ mPersistentClientState \in BOOLEAN /\ mLoggedOut \in BOOLEAN
    /\ mQueue \in Seq({"Login", "Logout"}) /\ wpc \in {"idle", "login"}
    /\ handled \in Seq(0..MaxPackets)
DataType ==
    /\ recvData \in ReceiveData
    /\ Len(recvData.currentReceiveBuffer) <= recvData.packetLength

LEMMA TypeSplit == TypeOK <=> BytesType /\ ThreadType /\ DataType
BY DEF TypeOK, BytesType, ThreadType, DataType, ReceiveData

(* The bytes the parser may look at. *)
LEMMA NextByte ==
    ASSUME TypeOK, BytesInv, rpc = "parse"
    PROVE  /\ next + 1 \in 1..Len(Stream) /\ next + 1 \in next..read
           /\ Stream[next + 1].of \in 0..MaxPackets /\ Stream[next + 1].value \in Nat
<1>1. next < read /\ next \in Nat /\ read \in Nat /\ arrived \in Nat /\ read <= arrived
      /\ arrived <= Len(Stream) /\ Len(Stream) \in Nat
  <2>1. Len(Stream) \in Nat
    BY StreamFacts
  <2>. QED
    BY <2>1 DEF TypeOK, BytesInv
<1>2. next + 1 \in 1..Len(Stream) /\ next + 1 \in next..read
  BY <1>1
<1>3. Stream[next + 1] \in Bytes
  BY <1>2, StreamFacts
<1>. QED
  BY <1>2, <1>3 DEF Bytes

(* The parser goes on, gives up or hands a packet over: all of that keeps the types. *)
LEMMA ConsumeType ==
    ASSUME TypeOK, NEW n \in next..read, Consume(n), UNCHANGED <<read, arrived>>
    PROVE  /\ BytesType' /\ rpc' \in {"recv", "parse"} /\ next' >= next
           /\ (rpc = "parse" => next < read)' /\ (rpc # "parse" => next = read)'
<1>1. n \in Nat /\ next \in Nat /\ read \in Nat /\ n <= read /\ next <= n
  BY DEF TypeOK
<1>. QED
  BY <1>1 DEF Consume, TypeOK, BytesType

LEMMA ThrowType ==
    ASSUME TypeOK, Throw, UNCHANGED <<read, arrived>>
    PROVE  /\ BytesType' /\ rpc' = "wait" /\ next' >= next /\ next' = read'
           /\ mQueue' \in Seq({"Login", "Logout"}) /\ UNCHANGED <<handled, held>>
           /\ Failed'
<1>1. mQueue \in Seq({"Login", "Logout"}) /\ mQueue' = Append(mQueue, "Logout")
  BY DEF TypeOK, Throw
<1>2. mQueue' \in Seq({"Login", "Logout"}) /\ Len(mQueue) + 1 \in DOMAIN mQueue' /\ mQueue'[Len(mQueue) + 1] = "Logout"
  BY <1>1
<1>3. Failed'
  BY <1>2 DEF Failed
<1>. QED
  BY <1>2, <1>3 DEF Throw, TypeOK, BytesType, held

LEMMA HandleType ==
    ASSUME TypeOK, NEW p \in 0..MaxPackets, NEW n \in next..read, HandlePacket(p, n),
           UNCHANGED <<read, arrived, event, flushed, loginVars>>
    PROVE  /\ BytesType' /\ ThreadType' /\ next' >= next
           /\ (rpc = "parse" => next < read)' /\ (rpc # "parse" => next = read)'
<1>. USE DEF held, loginVars
<1>t. ThreadType
  BY TypeSplit
<1>1. CASE Consume(n)
  <2>1. /\ BytesType' /\ rpc' \in {"recv", "parse"} /\ next' >= next
        /\ (rpc = "parse" => next < read)' /\ (rpc # "parse" => next = read)'
    BY <1>1, ConsumeType
  <2>2. /\ mState' \in {"INITIAL", "CONNECTING", "CONNECTED"}
        /\ mQueue' = mQueue \/ mQueue' = Append(mQueue, "Login")
        /\ held' = held \/ held' = Append(held, p)
        /\ handled' = handled \/ handled' = Append(handled, p)
    BY <1>1, <1>t DEF HandlePacket, Throw, ThreadType, Consume
  <2>3. mQueue' \in Seq({"Login", "Logout"}) /\ handled' \in Seq(0..MaxPackets)
    <3>1. mQueue \in Seq({"Login", "Logout"}) /\ handled \in Seq(0..MaxPackets)
      BY <1>t DEF ThreadType
    <3>2. Append(mQueue, "Login") \in Seq({"Login", "Logout"}) /\ Append(handled, p) \in Seq(0..MaxPackets)
      BY <3>1
    <3>. QED
      BY <2>2, <3>1, <3>2
  <2>4. held' \in Seq(0..MaxPackets) /\ flushed' \in 0..Len(held')
    <3>1. held \in Seq(0..MaxPackets) /\ flushed \in 0..Len(held) /\ flushed' = flushed
      BY <1>t DEF ThreadType
    <3>2. CASE held' = held
      BY <3>1, <3>2
    <3>3. CASE held' = Append(held, p)
      <4>1. held' \in Seq(0..MaxPackets) /\ Len(held') = Len(held) + 1 /\ Len(held) \in Nat
        BY <3>1, <3>3
      <4>. QED
        BY <3>1, <4>1
    <3>. QED
      BY <2>2, <3>2, <3>3
  <2>. QED
    BY <1>t, <2>1, <2>2, <2>3, <2>4 DEF ThreadType
<1>2. CASE Throw /\ UNCHANGED mState
  BY <1>2, <1>t, ThrowType DEF ThreadType
<1>. QED
  BY <1>1, <1>2 DEF HandlePacket

(* What ParseLength makes of a byte. *)
LEMMA DigitType ==
    ASSUME NEW r \in ReceiveData, NEW b \in Nat
    PROVE  /\ (r.packetLength + (b % Base) * r.multiplier) % Word \in 0..(Word - 1)
           /\ (r.multiplier * Base) % Word \in 0..(Word - 1)
<1>1. r.packetLength \in Nat /\ r.multiplier \in Nat /\ Base \in Nat \ {0} /\ Word \in Nat \ {0}
  BY ReceiveDataFacts, WeightsFacts
<1>2. b % Base \in Nat
  BY <1>1, DivMod
<1>3. PICK m, x : m = r.multiplier /\ x = b % Base
  OBVIOUS
<1>4. x * m \in Nat /\ m * Base \in Nat
  BY <1>1, <1>2, <1>3
<1>5. r.packetLength + x * m \in Nat
  BY <1>1, <1>4
<1>. QED
  BY <1>1, <1>3, <1>4, <1>5, DivMod

(* Every step keeps the types and the place in the stream, and takes no byte back. *)
LEMMA TypeStep ==
    ASSUME TypeOK, BytesInv, [Next]_vars
    PROVE  TypeOK' /\ BytesInv' /\ next' >= next
<1>. DEFINE Goal == TypeOK' /\ BytesInv' /\ next' >= next
<1>. SUFFICES Goal
  OBVIOUS
<1>. USE DEF held, bytesVars, loginVars
<1>t. BytesType /\ ThreadType /\ DataType
  BY TypeSplit
<1>n. next \in Nat /\ read \in Nat /\ arrived \in Nat /\ Len(Stream) \in Nat
  BY <1>t, StreamFacts DEF BytesType
<1>p. TypeOK' <=> (BytesType' /\ ThreadType' /\ DataType')
  BY TypeSplit, PTL
<1>d. UNCHANGED recvData => DataType'
  BY <1>t DEF DataType
<1>v. UNCHANGED vars => Goal
  BY <1>n, <1>p, <1>t DEF vars, BytesType, ThreadType, DataType, BytesInv
<1>w. UNCHANGED <<bytesVars, rpc, recvData>> /\ ThreadType' => Goal
  BY <1>n, <1>p, <1>t, <1>d DEF BytesType, BytesInv
<1>q. mQueue # <<>> => Tail(mQueue) \in Seq({"Login", "Logout"})
  BY <1>t DEF ThreadType
<1>1. ASSUME NEW n \in 1..RecvSize + 1, Arrive(n) PROVE Goal
  <2>1. n \in Nat
    BY ReceiverAssumption
  <2>2. BytesType'
    BY <1>1, <1>n, <1>t, <2>1 DEF Arrive, BytesType
  <2>3. ThreadType'
    BY <1>1, <1>t DEF Arrive, ThreadType
  <2>. QED
    BY <1>1, <1>n, <1>d, <1>p, <2>2, <2>3 DEF Arrive, BytesInv
<1>2. CASE TakeEvent
  <2>1. ThreadType'
    <3>1. Len(held) \in Nat
      BY <1>t DEF ThreadType
    <3>2. 0 \in 0..Len(held)
      BY <3>1
    <3>. QED
      BY <1>2, <1>t, <3>2 DEF TakeEvent, ThreadType
  <2>2. BytesType'
    BY <1>2, <1>t DEF TakeEvent, BytesType
  <2>. QED
    BY <1>2, <1>n, <1>d, <1>p, <2>1, <2>2 DEF TakeEvent, BytesInv
<1>3. CASE FlushHeld
  <2>1. held \in Seq(0..MaxPackets) /\ flushed \in 0..Len(held) /\ Len(held) \in Nat
    BY <1>t DEF ThreadType
  <2>2. CASE Throw /\ UNCHANGED flushed
    <3>1. /\ BytesType' /\ rpc' = "wait" /\ next' >= next /\ next' = read'
          /\ mQueue' \in Seq({"Login", "Logout"}) /\ UNCHANGED <<handled, held>>
      BY <1>3, <2>2, ThrowType DEF FlushHeld
    <3>2. ThreadType'
      BY <1>3, <1>t, <2>2, <3>1 DEF FlushHeld, ThreadType
    <3>. QED
      BY <1>3, <1>d, <1>p, <3>1, <3>2 DEF FlushHeld, BytesInv
  <2>3. CASE /\ flushed < Len(held)
             /\ handled' = Append(handled, held[flushed + 1])
             /\ flushed' = flushed + 1
             /\ UNCHANGED <<mQueue, rpc, next, mPacketsReceivedWhileWaitingForConnectingLogin>>
    <3>1. flushed + 1 \in 1..Len(held)
      BY <2>1, <2>3
    <3>2. held[flushed + 1] \in 0..MaxPackets /\ handled \in Seq(0..MaxPackets)
      <4>1. held[flushed + 1] \in 0..MaxPackets
        BY <2>1, <3>1, ElementOfSeq
      <4>. QED
        BY <1>t, <4>1 DEF ThreadType
    <3>3. handled' \in Seq(0..MaxPackets) /\ flushed' \in 0..Len(held')
      BY <2>1, <2>3, <3>1, <3>2
    <3>4. ThreadType'
      BY <1>3, <1>t, <2>3, <3>3 DEF FlushHeld, ThreadType
    <3>. QED
      BY <1>3, <1>w, <2>3, <3>4 DEF FlushHeld
  <2>4. CASE ClearHeld /\ rpc' = "recv" /\ UNCHANGED <<handled, mQueue, next>>
    <3>1. held' = <<>> /\ flushed' = 0
      BY <2>4 DEF ClearHeld
    <3>2. held' \in Seq(0..MaxPackets) /\ flushed' \in 0..Len(held')
      BY <3>1
    <3>3. ThreadType'
      BY <1>3, <1>t, <2>4, <3>2 DEF FlushHeld, ThreadType
    <3>4. BytesType'
      BY <1>3, <1>t, <2>4 DEF FlushHeld, BytesType
    <3>. QED
      BY <1>3, <1>n, <1>d, <1>p, <2>4, <3>3, <3>4 DEF FlushHeld, BytesInv
  <2>. QED
    BY <1>3, <2>2, <2>3, <2>4 DEF FlushHeld
<1>4. CASE Recv
  <2>1. next = read /\ RecvSize \in Nat \ {0}
    BY <1>4, ReceiverAssumption DEF Recv, BytesInv
  <2>2. read' \in 0..arrived' /\ read' >= read /\ (read # arrived => read' > read) /\ (read = arrived => read' = read)
    BY <1>4, <1>n, <1>t, <2>1 DEF Recv, BytesType
  <2>3. BytesType'
    BY <1>4, <1>n, <1>t, <2>2 DEF Recv, BytesType
  <2>4. ThreadType'
    BY <1>4, <1>t DEF Recv, ThreadType
  <2>5. (rpc' = "parse" => next' < read') /\ (rpc' # "parse" => next' = read')
    BY <1>4, <1>n, <2>1, <2>2 DEF Recv
  <2>. QED
    BY <1>4, <1>n, <1>d, <1>p, <2>3, <2>4, <2>5 DEF Recv, BytesInv
<1>5. CASE ParseType
  <2>1. /\ next + 1 \in next..read /\ Stream[next + 1].of \in 0..MaxPackets
    BY <1>5, NextByte DEF ParseType
  <2>2. /\ BytesType' /\ rpc' \in {"recv", "parse"} /\ next' >= next
        /\ (rpc = "parse" => next < read)' /\ (rpc # "parse" => next = read)'
    BY <1>5, <2>1, ConsumeType DEF ParseType
  <2>3. ThreadType'
    BY <1>5, <1>t, <2>2 DEF ParseType, ThreadType
  <2>4. recvData' = [Cleared EXCEPT !.recvState = "RECEIVING_VAR_LENGTH", !.packet = Stream[next + 1].of]
    BY <1>5 DEF ParseType
  <2>5. recvData' \in ReceiveData /\ recvData'.currentReceiveBuffer = <<>> /\ recvData'.packetLength = 0
    BY ZenonT(60), <2>1, <2>4, ReceiveDataFacts DEF ReceiveData
  <2>6. DataType'
    BY <2>5 DEF DataType
  <2>. QED
    BY <1>p, <2>2, <2>3, <2>5, <2>6 DEF BytesInv
<1>6. CASE ParseLength
  <2>0. /\ UNCHANGED <<arrived, read, event, flushed, loginVars>> /\ rpc = "parse"
        /\ recvData.recvState = "RECEIVING_VAR_LENGTH"
    BY <1>6 DEF ParseLength
  <2>. DEFINE b == Stream[next + 1].value
              length == (recvData.packetLength + (b % Base) * recvData.multiplier) % Word
              multiplier == (recvData.multiplier * Base) % Word
              digit == [recvData EXCEPT !.packetLength = length, !.multiplier = multiplier]
  <2>1. b \in Nat /\ next + 1 \in next..read
    BY <2>0, NextByte
  <2>2. recvData \in ReceiveData /\ recvData.currentReceiveBuffer = <<>> /\ recvData.packet \in 0..MaxPackets
    BY <1>t, <2>0, ReceiveDataFacts DEF DataType, BytesInv
  <2>3. length \in 0..(Word - 1) /\ multiplier \in 0..(Word - 1)
    BY <2>1, <2>2, DigitType
  <2>4. /\ TooLong(multiplier) => Throw /\ recvData' = digit /\ UNCHANGED mState
        /\ ~TooLong(multiplier) /\ b < Base /\ length = 0 =>
             HandlePacket(recvData.packet, next + 1) /\ recvData' = [digit EXCEPT !.recvState = "IDLE"]
        /\ ~TooLong(multiplier) /\ ~(b < Base /\ length = 0) =>
             /\ recvData' = IF b < Base THEN [digit EXCEPT !.recvState = "RECEIVING_DATA"] ELSE digit
             /\ Consume(next + 1)
             /\ UNCHANGED <<mPacketsReceivedWhileWaitingForConnectingLogin, mState, mQueue, handled>>
    BY <1>6 DEF ParseLength
  <2>. HIDE DEF b, length, multiplier
  <2>5. /\ digit \in ReceiveData /\ digit.currentReceiveBuffer = <<>>
        /\ \A s \in {"IDLE", "RECEIVING_DATA"} :
             /\ [digit EXCEPT !.recvState = s] \in ReceiveData
             /\ [digit EXCEPT !.recvState = s].currentReceiveBuffer = <<>>
    BY <2>2, <2>3 DEF ReceiveData
  <2>. HIDE DEF digit
  <2>6. recvData' \in ReceiveData /\ recvData'.currentReceiveBuffer = <<>>
    BY <2>4, <2>5
  <2>7. DataType'
    <3>1. recvData'.packetLength \in 0..(Word - 1)
      BY <2>6, ReceiveDataFacts
    <3>2. Len(recvData'.currentReceiveBuffer) = 0
      BY <2>6
    <3>. QED
      BY <2>6, <3>1, <3>2 DEF DataType
  <2>8. /\ BytesType' /\ ThreadType' /\ next' >= next
        /\ (rpc = "parse" => next < read)' /\ (rpc # "parse" => next = read)'
    <3>1. CASE TooLong(multiplier)
      <4>1. /\ BytesType' /\ rpc' = "wait" /\ next' >= next /\ next' = read'
            /\ mQueue' \in Seq({"Login", "Logout"}) /\ UNCHANGED <<handled, held>>
        BY <2>0, <2>4, <3>1, ThrowType
      <4>2. ThreadType'
        BY <1>t, <2>0, <2>4, <3>1, <4>1 DEF ThreadType
      <4>. QED
        BY <4>1, <4>2
    <3>2. CASE ~TooLong(multiplier) /\ b < Base /\ length = 0
      BY <2>0, <2>1, <2>2, <2>4, <3>2, HandleType
    <3>3. CASE ~TooLong(multiplier) /\ ~(b < Base /\ length = 0)
      <4>1. /\ BytesType' /\ rpc' \in {"recv", "parse"} /\ next' >= next
            /\ (rpc = "parse" => next < read)' /\ (rpc # "parse" => next = read)'
        BY <2>0, <2>1, <2>4, <3>3, ConsumeType
      <4>2. ThreadType'
        BY <1>t, <2>0, <2>4, <3>3, <4>1 DEF ThreadType
      <4>. QED
        BY <4>1, <4>2
    <3>. QED
      BY <3>1, <3>2, <3>3
  <2>. QED
    BY <1>p, <2>6, <2>7, <2>8 DEF BytesInv
<1>7. CASE ParseData
  <2>0. /\ UNCHANGED <<arrived, read, event, flushed, loginVars>> /\ rpc = "parse" /\ next < read
        /\ recvData.recvState = "RECEIVING_DATA"
    BY <1>7 DEF ParseData, BytesInv
  <2>. DEFINE missing == recvData.packetLength - Len(recvData.currentReceiveBuffer)
              n == Share(missing)
              more == [i \in 1..n |-> next + i]
              filled == [recvData EXCEPT !.currentReceiveBuffer = @ \o more]
  <2>1. /\ recvData \in ReceiveData /\ recvData.packet \in 0..MaxPackets
        /\ recvData.packetLength \in Nat /\ recvData.currentReceiveBuffer \in Seq(1..Len(Stream))
        /\ Len(recvData.currentReceiveBuffer) \in Nat /\ missing \in Nat
    <3>1. /\ recvData \in ReceiveData /\ recvData.packet \in 0..MaxPackets
          /\ recvData.packetLength \in 0..(Word - 1) /\ recvData.currentReceiveBuffer \in Seq(1..Len(Stream))
          /\ Len(recvData.currentReceiveBuffer) <= recvData.packetLength
      BY <1>t, ReceiveDataFacts DEF DataType
    <3>2. Word \in Nat /\ Len(recvData.currentReceiveBuffer) \in Nat
      <4>1. Len(recvData.currentReceiveBuffer) \in Nat
        BY <3>1, LenProperties
      <4>. QED
        BY <4>1, WeightsFacts
    <3>. QED
      BY <3>1, <3>2
  <2>2. n \in Nat /\ n <= missing /\ next + n \in next..read
    BY SMTT(60), <1>n, <2>0, <2>1 DEF Share
  <2>3. /\ Len(filled.currentReceiveBuffer) = recvData.packetLength =>
             /\ HandlePacket(recvData.packet, next + n)
             /\ recvData' = IF rpc' = "wait" THEN filled ELSE [filled EXCEPT !.recvState = "IDLE"]
        /\ Len(filled.currentReceiveBuffer) # recvData.packetLength =>
             /\ recvData' = filled /\ Consume(next + n)
             /\ UNCHANGED <<mPacketsReceivedWhileWaitingForConnectingLogin, mState, mQueue, handled>>
    BY <1>7 DEF ParseData
  <2>. HIDE DEF n
  <2>4. more \in Seq(1..Len(Stream)) /\ Len(more) = n
    <3>1. \A i \in 1..n : next + i \in 1..Len(Stream)
      BY <1>n, <1>t, <2>2 DEF BytesType
    <3>. QED
      BY <2>2, <3>1
  <2>. HIDE DEF more
  <2>5. /\ recvData.currentReceiveBuffer \o more \in Seq(1..Len(Stream))
        /\ Len(recvData.currentReceiveBuffer \o more) = Len(recvData.currentReceiveBuffer) + n
    BY <2>1, <2>4, ConcatProperties
  <2>6. /\ filled \in ReceiveData /\ filled.packetLength = recvData.packetLength
        /\ filled.currentReceiveBuffer = recvData.currentReceiveBuffer \o more
        /\ filled.recvState = "RECEIVING_DATA"
        /\ [filled EXCEPT !.recvState = "IDLE"] \in ReceiveData
        /\ [filled EXCEPT !.recvState = "IDLE"].packetLength = recvData.packetLength
        /\ [filled EXCEPT !.recvState = "IDLE"].recvState = "IDLE"
        /\ [filled EXCEPT !.recvState = "IDLE"].currentReceiveBuffer = recvData.currentReceiveBuffer \o more
    BY <2>0, <2>1, <2>5 DEF ReceiveData
  <2>7. Len(recvData.currentReceiveBuffer \o more) <= recvData.packetLength
    BY SMTT(60), <2>1, <2>2, <2>5
  <2>. HIDE DEF filled
  <2>8. /\ recvData' \in ReceiveData /\ recvData'.packetLength = recvData.packetLength
        /\ recvData'.currentReceiveBuffer = recvData.currentReceiveBuffer \o more
        /\ recvData'.recvState # "RECEIVING_VAR_LENGTH"
    BY <2>3, <2>6
  <2>9. /\ BytesType' /\ ThreadType' /\ next' >= next
        /\ (rpc = "parse" => next < read)' /\ (rpc # "parse" => next = read)'
    <3>1. CASE Len(filled.currentReceiveBuffer) = recvData.packetLength
      BY <2>0, <2>1, <2>2, <2>3, <3>1, HandleType
    <3>2. CASE Len(filled.currentReceiveBuffer) # recvData.packetLength
      <4>1. /\ BytesType' /\ rpc' \in {"recv", "parse"} /\ next' >= next
            /\ (rpc = "parse" => next < read)' /\ (rpc # "parse" => next = read)'
        BY <2>0, <2>2, <2>3, <3>2, ConsumeType
      <4>2. ThreadType'
        BY <1>t, <2>0, <2>3, <3>2, <4>1 DEF ThreadType
      <4>. QED
        BY <4>1, <4>2
    <3>. QED
      BY <3>1, <3>2
  <2>. QED
    BY <1>p, <2>7, <2>8, <2>9 DEF BytesInv, DataType
<1>8. CASE BeginLogin
  <2>1. ThreadType'
    BY <1>8, <1>t, <1>q DEF BeginLogin, ThreadType
  <2>. QED
    BY <1>8, <1>w, <2>1 DEF BeginLogin
<1>9. CASE EndLogin
  <2>1. ThreadType'
    BY <1>9, <1>t DEF EndLogin, ThreadType
  <2>. QED
    BY <1>9, <1>w, <2>1 DEF EndLogin
<1>10. CASE ExecuteLogout
  <2>1. ThreadType'
    BY <1>10, <1>t, <1>q DEF ExecuteLogout, ThreadType
  <2>. QED
    BY <1>10, <1>w, <2>1 DEF ExecuteLogout
<1>. HIDE DEF Goal
<1>. QED
  BY <1>v, <1>1, <1>2, <1>3, <1>4, <1>5, <1>6, <1>7, <1>8, <1>9, <1>10 DEF Next, Receiving, Working

-----------------------------------------------------------------------------
(* Counting packets *)

\* Where a packet is in a list, after the first f elements
Places(s, f, p) == {i \in (f + 1)..Len(s) : s[i] = p}

LEMMA PlacesFinite ==
    ASSUME NEW S, NEW s \in Seq(S), NEW f \in 0..Len(s), NEW p
    PROVE  IsFiniteSet(Places(s, f, p)) /\ Cardinality(Places(s, f, p)) \in Nat
<1>1. Len(s) \in Nat
  OBVIOUS
<1>2. f + 1 \in Int /\ Len(s) \in Int
  BY <1>1
<1>3. IsFiniteSet((f + 1)..Len(s))
  BY <1>2, FS_Interval
<1>4. Places(s, f, p) \in SUBSET ((f + 1)..Len(s))
  BY DEF Places
<1>5. IsFiniteSet(Places(s, f, p))
  BY <1>3, <1>4, FS_Subset
<1>. QED
  BY <1>5, FS_CardinalityType

(* One more packet at the end of a list, *)
LEMMA CountAppended ==
    ASSUME NEW S, NEW s \in Seq(S), NEW f \in 0..Len(s), NEW q \in S, NEW p
    PROVE  Cardinality(Places(Append(s, q), f, p))
             = Cardinality(Places(s, f, p)) + (IF q = p THEN 1 ELSE 0)
<1>1. /\ Len(s) \in Nat /\ Len(Append(s, q)) = Len(s) + 1 /\ Append(s, q)[Len(s) + 1] = q
      /\ \A i \in 1..Len(s) : Append(s, q)[i] = s[i]
  BY AppendProperties
<1>2. IsFiniteSet(Places(s, f, p)) /\ Cardinality(Places(s, f, p)) \in Nat
  BY PlacesFinite
<1>3. Len(s) + 1 \notin Places(s, f, p)
  BY <1>1 DEF Places
<1>4. \A i : i \in (f + 1)..(Len(s) + 1) <=> i \in (f + 1)..Len(s) \/ i = Len(s) + 1
  BY <1>1
<1>5. \A i \in (f + 1)..Len(s) : i \in 1..Len(s)
  BY <1>1
<1>6. CASE q = p
  <2>1. Places(Append(s, q), f, p) = Places(s, f, p) \cup {Len(s) + 1}
    BY <1>1, <1>4, <1>5, <1>6 DEF Places
  <2>. QED
    BY <1>2, <1>3, <1>6, <2>1, FS_AddElement
<1>7. CASE q # p
  <2>1. Places(Append(s, q), f, p) = Places(s, f, p)
    BY <1>1, <1>4, <1>5, <1>7 DEF Places
  <2>. QED
    BY <1>2, <1>7, <2>1
<1>. QED
  BY <1>6, <1>7

(* ... and one less to come. *)
LEMMA CountPassed ==
    ASSUME NEW S, NEW s \in Seq(S), NEW f \in 0..(Len(s) - 1), NEW p
    PROVE  Cardinality(Places(s, f, p))
             = Cardinality(Places(s, f + 1, p)) + (IF s[f + 1] = p THEN 1 ELSE 0)
<1>1. Len(s) \in Nat /\ f + 1 \in 0..Len(s)
  <2>1. Len(s) \in Nat
    OBVIOUS
  <2>. QED
    BY <2>1
<1>2. IsFiniteSet(Places(s, f + 1, p)) /\ Cardinality(Places(s, f + 1, p)) \in Nat
  BY <1>1, PlacesFinite
<1>3. f + 1 \notin Places(s, f + 1, p)
  BY <1>1 DEF Places
<1>4. \A i : i \in (f + 1)..Len(s) <=> i \in ((f + 1) + 1)..Len(s) \/ i = f + 1
  BY <1>1
<1>5. CASE s[f + 1] = p
  <2>1. Places(s, f, p) = Places(s, f + 1, p) \cup {f + 1}
    BY <1>4, <1>5 DEF Places
  <2>. QED
    BY ZenonT(60), <1>2, <1>3, <1>5, <2>1, FS_AddElement
<1>6. CASE s[f + 1] # p
  <2>1. Places(s, f, p) = Places(s, f + 1, p)
    BY <1>4, <1>6 DEF Places
  <2>. QED
    BY <1>2, <1>6, <2>1
<1>. QED
  BY <1>5, <1>6

\* The counts of the properties as sizes of such sets
CountsAreSizes ==
    \A p : /\ Count(p, handled) = Cardinality(Places(handled, 0, p)) /\ Count(p, handled) \in Nat
           /\ Waiting(p) = Cardinality(Places(held, flushed, p)) /\ Waiting(p) \in Nat

LEMMA CountPlaces == TypeOK => CountsAreSizes
<1>. SUFFICES ASSUME TypeOK, NEW p
              PROVE  /\ Count(p, handled) = Cardinality(Places(handled, 0, p))
                     /\ Count(p, handled) \in Nat
                     /\ Waiting(p) = Cardinality(Places(held, flushed, p)) /\ Waiting(p) \in Nat
  BY DEF CountsAreSizes
<1>1. handled \in Seq(0..MaxPackets) /\ held \in Seq(0..MaxPackets) /\ flushed \in 0..Len(held)
  BY DEF TypeOK
<1>2. DOMAIN handled = 1..Len(handled) /\ 0 \in 0..Len(handled) /\ 0 + 1 = 1
  <2>1. DOMAIN handled = 1..Len(handled) /\ Len(handled) \in Nat
    BY <1>1
  <2>. QED
    BY <2>1
<1>3. Count(p, handled) = Cardinality(Places(handled, 0, p))
  BY <1>2 DEF Count, Places
<1>4. Waiting(p) = Cardinality(Places(held, flushed, p))
  BY DEF Waiting, Places
<1>. QED
  BY <1>1, <1>2, <1>3, <1>4, PlacesFinite
-----------------------------------------------------------------------------
(* What the parser does with a byte *)

(* A number below the modulus is its own remainder, and so is one a modulus above it. *)
LEMMA SmallMod ==
    ASSUME NEW y \in Nat \ {0}, NEW x \in 0..(y - 1)
    PROVE  x % y = x /\ (x + y) % y = x
<1>1. x % y = x
  <2>0. x \in Nat
    OBVIOUS
  <2>1. PICK v, u : v = x \div y /\ u = x % y
    OBVIOUS
  <2>2. v \in Nat /\ u \in 0..(y - 1) /\ x = y * v + u
    BY <2>0, <2>1, DivMod
  <2>3. y * 0 + x = y * v + u
    BY <2>2
  <2>. QED
    BY <2>1, <2>2, <2>3, DivModUnique
<1>2. (x + y) % y = x
  <2>0. x + y \in Nat
    OBVIOUS
  <2>1. PICK v, u : v = (x + y) \div y /\ u = (x + y) % y
    OBVIOUS
  <2>2. v \in Nat /\ u \in 0..(y - 1) /\ x + y = y * v + u
    BY <2>0, <2>1, DivMod
  <2>3. y * 1 + x = y * v + u
    BY <2>2
  <2>. QED
    BY <2>1, <2>2, <2>3, DivModUnique
<1>. QED
  BY <1>1, <1>2

(* The next length byte: it extends the length by a digit, without overflow, and says *)
(* whether it is the last one.                                                        *)
LEMMA DigitValue ==
    ASSUME NEW k \in 0..MaxPackets, NEW d \in 0..3, d < Digits(k),
           NEW b, b = Stream[(Start(k) + 1 + d) + 1].value
    PROVE  /\ b < Base <=> d + 1 = Digits(k)
           /\ ((LengthOf(k) % Weights[d + 1]) + (b % Base) * Weights[d + 1]) % Word
                = LengthOf(k) % Weights[d + 2]
           /\ (Weights[d + 1] * Base) % Word = Weights[d + 2]
<1>1. /\ Digits(k) \in 1..4 /\ LengthOf(k) \in Nat
      /\ Start(k) \in Nat /\ Base \in Nat \ {0, 1} /\ Word \in Nat \ {0}
  <2>1. k \in 0..(MaxPackets + 1)
    BY LengthFacts
  <2>2. Start(k) \in Nat
    BY <2>1, SentFacts
  <2>. QED
    BY <2>2, LengthFacts, WeightsFacts
<1>2. Len(Encode(k)) = 1 + Digits(k) + LengthOf(k)
  BY EncodeFacts
<1>3. /\ (d + 1) + 1 \in 1..Len(Encode(k)) /\ d + 1 \in 1..Digits(k) /\ d + 1 \in 1..4
      /\ (Start(k) + 1 + d) + 1 = Start(k) + ((d + 1) + 1) /\ d + 2 \in 1..5 /\ (d + 1) + 1 = d + 2
  BY SMTT(60), <1>1, <1>2
<1>4. Stream[Start(k) + ((d + 1) + 1)] = Encode(k)[(d + 1) + 1]
  BY <1>3, StreamFacts
<1>. DEFINE L == LengthOf(k)
            w == Weights[d + 1]
            v == Weights[d + 2]
            digit == (L \div w) % Base
<1>5. b = digit + (IF d + 1 < Digits(k) THEN Base ELSE 0)
  BY <1>3, <1>4, EncodeFacts
<1>6. w \in Nat \ {0} /\ v = w * Base /\ v \in Nat \ {0} /\ v <= Weights[5] /\ Weights[5] < Word
      /\ Weights[5] \in Nat
  <2>1. Weights[(d + 1) + 1] = Weights[d + 1] * Base
    BY <1>3, WeightsFacts
  <2>2. Weights[d + 1] \in Nat \ {0} /\ Weights[d + 2] \in Nat \ {0} /\ Weights[d + 2] <= Weights[5]
    <3>1. d + 1 \in 1..5 /\ d + 2 \in 1..5
      BY <1>3
    <3>. QED
      BY <3>1, WeightsFacts
  <2>. QED
    BY SMTT(60), <1>3, <2>1, <2>2, WeightsFacts
<1>7. L \in Nat
  BY <1>1
<1>. HIDE DEF L, w, v
<1>8. digit \in 0..(Base - 1)
  <2>1. L \div w \in Nat
    BY <1>6, <1>7, DivMod
  <2>. QED
    BY <1>1, <2>1, DivMod
<1>9. v = (w * Base) /\ L % v = (L % w) + digit * w
  BY <1>1, <1>6, <1>7, AddDigit
<1>. HIDE DEF digit
<1>10. b % Base = digit
  BY SMTT(60), <1>1, <1>5, <1>8, SmallMod
<1>11. b < Base <=> d + 1 = Digits(k)
  BY SMTT(60), <1>1, <1>3, <1>5, <1>8
<1>12. L % v \in 0..(v - 1)
  BY <1>6, <1>7, DivMod
<1>13. L % v \in 0..(Word - 1) /\ v \in 0..(Word - 1)
  BY <1>1, <1>6, <1>12
<1>14. (L % v) % Word = L % v /\ v % Word = v
  BY <1>1, <1>13, SmallMod
<1>. QED
  BY <1>6, <1>9, <1>10, <1>11, <1>14 DEF L, w, v

\* What a step of the parser comes to: it goes on in packet k,
GoesOn(k) == Parsing(k)' /\ rpc' # "wait" /\ UNCHANGED <<handled, held, mState, mQueue>>

\* ... it hands packet k over,
HandsOver(k) ==
    /\ k <= MaxPackets /\ Start(k + 1) <= read
    /\ HandlePacket(k, Start(k + 1))
    /\ rpc' # "wait" => Parsing(k + 1)'

\* ... or it rejects the length of packet k
Rejects(k) == k <= MaxPackets /\ Digits(k) > 3 /\ HeadEnd(k) <= read /\ Throw /\ UNCHANGED mState

LEMMA ParseTypeOutcome ==
    ASSUME TypeOK, BytesInv, NEW k \in 0..(MaxPackets + 1), Parsing(k), ParseType
    PROVE  GoesOn(k)
<1>. USE DEF held
<1>1. /\ rpc = "parse" /\ recvData.recvState = "IDLE" /\ next = Start(k)
      /\ recvData' = [Cleared EXCEPT !.recvState = "RECEIVING_VAR_LENGTH", !.packet = Stream[next + 1].of]
      /\ Consume(next + 1)
      /\ UNCHANGED <<handled, held, mState, mQueue>>
  BY DEF ParseType, Parsing
<1>2. next + 1 \in 1..Len(Stream) /\ Len(Stream) = Start(MaxPackets + 1) /\ Start(k) \in Nat
      /\ MaxPackets \in Nat /\ Len(Stream) \in Nat
  BY <1>1, NextByte, StreamFacts, SentFacts, LengthFacts
<1>3. k # MaxPackets + 1
  BY <1>1, <1>2
<1>4. k \in 0..MaxPackets
  BY <1>2, <1>3
<1>5. Digits(k) \in 1..4 /\ LengthOf(k) \in Nat
  BY <1>4, LengthFacts
<1>6. Len(Encode(k)) = 1 + Digits(k) + LengthOf(k)
  BY <1>4, EncodeFacts
<1>7. 1 \in 1..Len(Encode(k))
  BY <1>5, <1>6
<1>8. Stream[Start(k) + 1] = Encode(k)[1] /\ Encode(k)[1].of = k
  BY <1>4, <1>7, StreamFacts, EncodeFacts
<1>9. /\ recvData'.recvState = "RECEIVING_VAR_LENGTH" /\ recvData'.packet = k
      /\ recvData'.packetLength = 0 /\ recvData'.multiplier = 1
  BY <1>1, <1>8 DEF Cleared
<1>10. LengthOf(k) % 1 = 0
  <2>1. LengthOf(k) % 1 \in 0..(1 - 1)
    BY <1>5, DivMod
  <2>. QED
    BY <2>1
<1>11. Weights[0 + 1] = 1
  BY WeightsFacts
<1>12. DigitsTaken(k, 0)'
  <2>1. next' = Start(k) + 1 + 0 /\ 0 < Digits(k)
    BY <1>1, <1>2, <1>5 DEF Consume
  <2>. QED
    BY <1>9, <1>10, <1>11, <2>1 DEF DigitsTaken
<1>13. rpc' # "wait"
  BY <1>1 DEF Consume
<1>14. 0 \in 0..3 /\ k <= MaxPackets
  BY <1>4
<1>15. Parsing(k)'
  BY <1>9, <1>12, <1>14 DEF Parsing
<1>. QED
  BY <1>1, <1>13, <1>15 DEF GoesOn

LEMMA ParseLengthOutcome ==
    ASSUME TypeOK, BytesInv, NEW k \in 0..(MaxPackets + 1), Parsing(k), ParseLength
    PROVE  GoesOn(k) \/ HandsOver(k) \/ Rejects(k)
<1>. USE DEF held
<1>. DEFINE b == Stream[next + 1].value
            length == (recvData.packetLength + (b % Base) * recvData.multiplier) % Word
            multiplier == (recvData.multiplier * Base) % Word
            digit == [recvData EXCEPT !.packetLength = length, !.multiplier = multiplier]
<1>1. /\ rpc = "parse" /\ recvData.recvState = "RECEIVING_VAR_LENGTH"
      /\ k <= MaxPackets /\ recvData.packet = k
  BY DEF ParseLength, Parsing
<1>2. PICK d \in 0..3 : DigitsTaken(k, d)
  BY <1>1 DEF Parsing
<1>3. /\ d < Digits(k) /\ next = Start(k) + 1 + d
      /\ recvData.multiplier = Weights[d + 1]
      /\ recvData.packetLength = LengthOf(k) % Weights[d + 1]
  BY <1>2 DEF DigitsTaken
<1>4. k \in 0..MaxPackets /\ MaxPackets \in Nat /\ Digits(k) \in 1..4 /\ LengthOf(k) \in Nat
  <2>1. k \in 0..MaxPackets /\ MaxPackets \in Nat
    BY <1>1, LengthFacts
  <2>. QED
    BY <2>1, LengthFacts
<1>5. Start(k) \in Nat /\ Start(k + 1) = Start(k) + 1 + Digits(k) + LengthOf(k) /\ Start(k + 1) \in Nat
  <2>1. k + 1 \in 0..(MaxPackets + 1)
    BY <1>4
  <2>. QED
    BY <1>4, <2>1, SentFacts
<1>6. next + 1 <= read /\ read \in Nat /\ next \in Nat
  BY <1>1 DEF TypeOK, BytesInv
<1>7. b = Stream[(Start(k) + 1 + d) + 1].value
  BY <1>3
<1>8. /\ b < Base <=> d + 1 = Digits(k)
      /\ length = LengthOf(k) % Weights[d + 2] /\ multiplier = Weights[d + 2]
  BY <1>3, <1>4, <1>7, DigitValue
<1>9. TooLong(multiplier) <=> d = 3
  <2>1. d = 0 \/ d = 1 \/ d = 2 \/ d = 3
    OBVIOUS
  <2>2. /\ Weights[2] \in Nat /\ Weights[3] \in Nat /\ Weights[4] \in Nat /\ Weights[5] \in Nat
        /\ Weights[2] < Weights[3] /\ Weights[3] < Weights[4] /\ Weights[4] < Weights[5]
    <3>1. 1 + 1 = 2 /\ 2 + 1 = 3 /\ 3 + 1 = 4 /\ 4 + 1 = 5
      OBVIOUS
    <3>2. 1 \in 1..4 /\ 2 \in 1..4 /\ 3 \in 1..4 /\ 4 \in 1..4
      OBVIOUS
    <3>3. Weights[2] < Weights[2 + 1] /\ Weights[3] < Weights[3 + 1] /\ Weights[4] < Weights[4 + 1]
      BY <3>2, WeightsFacts
    <3>. QED
      BY <3>1, <3>3, WeightsFacts
  <2>3. TooLong(multiplier) <=> Weights[d + 2] > Weights[4]
    BY <1>8, WeightsFacts DEF TooLong
  <2>4. d = 0 => Weights[d + 2] = Weights[2]
    OBVIOUS
  <2>5. d = 1 => Weights[d + 2] = Weights[3]
    OBVIOUS
  <2>6. d = 2 => Weights[d + 2] = Weights[4]
    OBVIOUS
  <2>7. d = 3 => Weights[d + 2] = Weights[5]
    OBVIOUS
  <2>. HIDE DEF multiplier
  <2>. QED
    BY <2>1, <2>2, <2>3, <2>4, <2>5, <2>6, <2>7
<1>10. d + 1 = Digits(k) => length = LengthOf(k)
  <2>. SUFFICES ASSUME d + 1 = Digits(k) PROVE LengthOf(k) % Weights[d + 2] = LengthOf(k)
    BY <1>8
  <2>1. Weights[Digits(k) + 1] = Weights[d + 2] /\ d + 2 \in 1..5
    <3>1. Digits(k) + 1 = d + 2
      BY <1>4
    <3>. QED
      BY <3>1
  <2>2. LengthOf(k) < Weights[d + 2] /\ Weights[d + 2] \in Nat \ {0}
    BY <1>4, <2>1, LengthFacts, WeightsFacts
  <2>3. LengthOf(k) \in 0..(Weights[d + 2] - 1)
    BY <1>4, <2>2
  <2>. QED
    BY <2>2, <2>3, SmallMod
<1>11. /\ TooLong(multiplier) => Throw /\ UNCHANGED mState
       /\ ~TooLong(multiplier) /\ b < Base /\ length = 0 =>
            HandlePacket(recvData.packet, next + 1) /\ recvData' = [digit EXCEPT !.recvState = "IDLE"]
       /\ ~TooLong(multiplier) /\ ~(b < Base /\ length = 0) =>
            /\ recvData' = IF b < Base THEN [digit EXCEPT !.recvState = "RECEIVING_DATA"] ELSE digit
            /\ Consume(next + 1)
            /\ UNCHANGED <<held, mState, mQueue, handled>>
  BY DEF ParseLength
<1>. HIDE DEF b, length, multiplier
<1>12. recvData \in ReceiveData /\ recvData.currentReceiveBuffer = <<>>
  BY <1>1, TypeSplit DEF DataType, BytesInv
<1>13. /\ digit.packetLength = length /\ digit.multiplier = multiplier /\ digit.packet = k
       /\ digit.recvState = "RECEIVING_VAR_LENGTH" /\ digit.currentReceiveBuffer = <<>>
       /\ [digit EXCEPT !.recvState = "IDLE"].recvState = "IDLE"
       /\ [digit EXCEPT !.recvState = "RECEIVING_DATA"].recvState = "RECEIVING_DATA"
       /\ [digit EXCEPT !.recvState = "RECEIVING_DATA"].packet = k
       /\ [digit EXCEPT !.recvState = "RECEIVING_DATA"].packetLength = length
       /\ [digit EXCEPT !.recvState = "RECEIVING_DATA"].currentReceiveBuffer = <<>>
  BY <1>1, <1>12 DEF ReceiveData
<1>. HIDE DEF digit
<1>14. CASE TooLong(multiplier)
  <2>1. d = 3 /\ Digits(k) = 4
    BY <1>3, <1>4, <1>9, <1>14
  <2>2. HeadEnd(k) = Start(k + 1) - LengthOf(k)
    BY DEF HeadEnd, EndOf, Start
  <2>3. HeadEnd(k) = next + 1
    BY <1>3, <1>4, <1>5, <2>1, <2>2
  <2>. QED
    BY <1>1, <1>6, <1>11, <1>14, <2>1, <2>3 DEF Rejects
<1>15. CASE ~TooLong(multiplier) /\ b < Base /\ length = 0
  <2>1. d + 1 = Digits(k) /\ LengthOf(k) = 0
    BY <1>8, <1>10, <1>15
  <2>2. next + 1 = Start(k + 1)
    BY <1>3, <1>4, <1>5, <2>1
  <2>3. HandlePacket(k, Start(k + 1)) /\ recvData'.recvState = "IDLE"
    BY <1>1, <1>11, <1>13, <1>15, <2>2
  <2>4. rpc' # "wait" => next' = Start(k + 1)
    BY <2>3 DEF HandlePacket, Consume, Throw
  <2>5. rpc' # "wait" => Parsing(k + 1)'
    BY <2>3, <2>4 DEF Parsing
  <2>. QED
    BY <1>1, <1>6, <2>2, <2>3, <2>5 DEF HandsOver
<1>16. CASE ~TooLong(multiplier) /\ b < Base /\ length # 0
  <2>1. d + 1 = Digits(k) /\ length = LengthOf(k)
    BY <1>8, <1>10, <1>16
  <2>2. /\ recvData'.recvState = "RECEIVING_DATA" /\ recvData'.packet = k
        /\ recvData'.packetLength = LengthOf(k) /\ recvData'.currentReceiveBuffer = <<>>
    BY <1>11, <1>13, <1>16, <2>1
  <2>3. next' = next + 1 /\ rpc' # "wait" /\ UNCHANGED <<held, mState, mQueue, handled>>
    BY <1>11, <1>16 DEF Consume
  <2>4. Len(recvData'.currentReceiveBuffer) = 0
    BY <2>2
  <2>5. next' = Start(k) + 1 + Digits(k) + 0 /\ 0 < LengthOf(k)
    BY <1>3, <1>4, <1>5, <1>16, <2>1, <2>3
  <2>6. Parsing(k)'
    BY <1>1, <2>2, <2>4, <2>5 DEF Parsing
  <2>. QED
    BY <2>3, <2>6 DEF GoesOn
<1>17. CASE ~TooLong(multiplier) /\ ~(b < Base)
  <2>1. d + 1 # Digits(k) /\ d # 3
    BY <1>8, <1>9, <1>17
  <2>2. d + 1 \in 0..3 /\ d + 1 < Digits(k) /\ (d + 1) + 1 = d + 2
    BY <1>3, <1>4, <2>1
  <2>3. /\ recvData'.recvState = "RECEIVING_VAR_LENGTH" /\ recvData'.packet = k
        /\ recvData'.packetLength = LengthOf(k) % Weights[d + 2] /\ recvData'.multiplier = Weights[d + 2]
    BY <1>8, <1>11, <1>13, <1>17
  <2>4. next' = next + 1 /\ rpc' # "wait" /\ UNCHANGED <<held, mState, mQueue, handled>>
    BY <1>11, <1>17 DEF Consume
  <2>5. next' = Start(k) + 1 + (d + 1)
    BY <1>3, <1>5, <2>4
  <2>6. DigitsTaken(k, d + 1)'
    BY <2>2, <2>3, <2>5 DEF DigitsTaken
  <2>7. Parsing(k)'
    BY <1>1, <2>2, <2>3, <2>6 DEF Parsing
  <2>. QED
    BY <2>4, <2>7 DEF GoesOn
<1>. QED
  BY <1>14, <1>15, <1>16, <1>17

LEMMA ParseDataOutcome ==
    ASSUME TypeOK, BytesInv, NEW k \in 0..(MaxPackets + 1), Parsing(k), ParseData
    PROVE  GoesOn(k) \/ HandsOver(k)
<1>. USE DEF held
<1>. DEFINE buffer == recvData.currentReceiveBuffer
            missing == recvData.packetLength - Len(buffer)
            n == Share(missing)
            more == [i \in 1..n |-> next + i]
            filled == [recvData EXCEPT !.currentReceiveBuffer = @ \o more]
<1>1. /\ rpc = "parse" /\ recvData.recvState = "RECEIVING_DATA"
      /\ k <= MaxPackets /\ recvData.packet = k /\ recvData.packetLength = LengthOf(k)
      /\ Len(buffer) < LengthOf(k) /\ next = Start(k) + 1 + Digits(k) + Len(buffer)
  BY DEF ParseData, Parsing
<1>4. k \in 0..MaxPackets /\ MaxPackets \in Nat /\ Digits(k) \in 1..4 /\ LengthOf(k) \in Nat
  <2>1. k \in 0..MaxPackets /\ MaxPackets \in Nat
    BY <1>1, LengthFacts
  <2>. QED
    BY <2>1, LengthFacts
<1>5. Start(k) \in Nat /\ Start(k + 1) = Start(k) + 1 + Digits(k) + LengthOf(k) /\ Start(k + 1) \in Nat
  <2>1. k + 1 \in 0..(MaxPackets + 1)
    BY <1>4
  <2>. QED
    BY <1>4, <2>1, SentFacts
<1>6. next < read /\ read \in Nat /\ next \in Nat
  BY <1>1 DEF TypeOK, BytesInv
<1>7. recvData \in ReceiveData /\ buffer \in Seq(1..Len(Stream)) /\ Len(buffer) \in Nat
  <2>1. recvData \in ReceiveData
    BY TypeSplit DEF DataType
  <2>2. buffer \in Seq(1..Len(Stream))
    BY <2>1, ReceiveDataFacts
  <2>. QED
    BY <2>1, <2>2, LenProperties
<1>8. PICK l : l = Len(buffer)
  OBVIOUS
<1>9. /\ l \in Nat /\ l < LengthOf(k) /\ missing = LengthOf(k) - l /\ missing \in Nat
      /\ next = Start(k) + 1 + Digits(k) + l
  BY <1>1, <1>4, <1>7, <1>8
<1>10. n \in Nat /\ n <= missing /\ next + n <= read
  BY <1>6, <1>9 DEF Share
<1>11. /\ Len(filled.currentReceiveBuffer) = recvData.packetLength =>
             /\ HandlePacket(recvData.packet, next + n)
             /\ recvData' = IF rpc' = "wait" THEN filled ELSE [filled EXCEPT !.recvState = "IDLE"]
       /\ Len(filled.currentReceiveBuffer) # recvData.packetLength =>
             /\ recvData' = filled /\ Consume(next + n)
             /\ UNCHANGED <<held, mState, mQueue, handled>>
  BY DEF ParseData
<1>. HIDE DEF n
<1>12. more \in Seq(1..Len(Stream)) /\ Len(more) = n
  <2>1. Len(Stream) \in Nat /\ read <= Len(Stream)
    BY SMTT(60), <1>6, StreamFacts DEF TypeOK
  <2>2. \A i \in 1..n : next + i \in 1..Len(Stream)
    BY <1>6, <1>10, <2>1
  <2>. QED
    BY <1>10, <2>2
<1>. HIDE DEF more
<1>13. Len(buffer \o more) = l + n
  BY <1>7, <1>8, <1>12, ConcatProperties
<1>14. /\ filled.currentReceiveBuffer = buffer \o more /\ filled.recvState = "RECEIVING_DATA"
       /\ filled.packet = k /\ filled.packetLength = LengthOf(k)
       /\ [filled EXCEPT !.recvState = "IDLE"].recvState = "IDLE"
  BY <1>1, <1>7 DEF ReceiveData
<1>. HIDE DEF filled, missing, buffer
<1>15. CASE l + n = LengthOf(k)
  <2>1. next + n = Start(k + 1)
    BY <1>4, <1>5, <1>9, <1>10, <1>15
  <2>2. rpc' # "wait" => recvData'.recvState = "IDLE"
    BY <1>1, <1>11, <1>13, <1>14, <1>15, <2>1
  <2>3. HandlePacket(k, Start(k + 1))
    BY <1>1, <1>11, <1>13, <1>14, <1>15, <2>1
  <2>4. rpc' # "wait" => next' = Start(k + 1)
    BY <2>3 DEF HandlePacket, Consume, Throw
  <2>5. rpc' # "wait" => Parsing(k + 1)'
    BY <2>2, <2>3, <2>4 DEF Parsing
  <2>. QED
    BY <1>1, <1>10, <2>1, <2>3, <2>5 DEF HandsOver
<1>16. CASE l + n # LengthOf(k)
  <2>1. recvData' = filled /\ Consume(next + n) /\ UNCHANGED <<held, mState, mQueue, handled>>
    BY <1>1, <1>11, <1>13, <1>14, <1>16
  <2>2. next' = next + n /\ rpc' # "wait"
    BY <2>1 DEF Consume
  <2>3. l + n < LengthOf(k) /\ next' = Start(k) + 1 + Digits(k) + (l + n)
    BY <1>4, <1>5, <1>9, <1>10, <1>16, <2>2
  <2>4. /\ recvData'.recvState = "RECEIVING_DATA" /\ recvData'.packet = k
        /\ recvData'.packetLength = LengthOf(k) /\ Len(recvData'.currentReceiveBuffer) = l + n
    BY <1>13, <1>14, <2>1
  <2>5. Parsing(k)'
    BY <1>1, <2>3, <2>4 DEF Parsing
  <2>. QED
    BY <2>1, <2>2, <2>5 DEF GoesOn
<1>. QED
  BY <1>15, <1>16
-----------------------------------------------------------------------------
(* The login and the end of the connection *)

\* What a step does to the requests, and to what the worker has made of them
Stays == UNCHANGED <<mQueue, mLoggedOut, wpc>> /\ (mState # "INITIAL" => mState' # "INITIAL")
Logs == mQueue' = Append(mQueue, "Login") /\ mState' # "INITIAL" /\ UNCHANGED <<mLoggedOut, wpc>>
Gives == mQueue' = Append(mQueue, "Logout") /\ UNCHANGED <<mState, mLoggedOut, wpc>>
Takes == /\ mQueue # <<>> /\ mQueue' = Tail(mQueue) /\ UNCHANGED mState
         /\ \/ Head(mQueue) = "Login" /\ UNCHANGED mLoggedOut
            \/ Head(mQueue) = "Logout" /\ mLoggedOut' /\ UNCHANGED wpc
Ends == UNCHANGED <<mQueue, mLoggedOut>> /\ wpc' = "idle" /\ mState' # "INITIAL"

LEMMA RequestSteps ==
    ASSUME [Next]_vars
    PROVE  Stays \/ Logs \/ Gives \/ Takes \/ Ends
<1>. USE DEF bytesVars, loginVars
<1>1. ASSUME NEW n \in 1..RecvSize + 1, Arrive(n) PROVE Stays
  BY <1>1 DEF Arrive, Stays
<1>2. CASE TakeEvent
  BY <1>2 DEF TakeEvent, Stays
<1>3. CASE FlushHeld
  BY <1>3 DEF FlushHeld, Throw, Stays, Gives
<1>4. CASE Recv
  BY <1>4 DEF Recv, Stays
<1>5. CASE ParseType
  BY <1>5 DEF ParseType, Stays
<1>6. \A p, n : HandlePacket(p, n) /\ UNCHANGED loginVars => Stays \/ Logs \/ Gives
  BY DEF HandlePacket, Throw, Stays, Logs, Gives
<1>7. CASE ParseLength
  <2>1. UNCHANGED loginVars
    BY <1>7 DEF ParseLength
  <2>2. CASE HandlePacket(recvData.packet, next + 1)
    BY <1>6, <2>1, <2>2
  <2>3. CASE Throw /\ UNCHANGED mState
    BY <2>1, <2>3 DEF Throw, Gives
  <2>4. CASE UNCHANGED <<mState, mQueue>>
    BY <2>1, <2>4 DEF Stays
  <2>. QED
    BY <1>7, <2>2, <2>3, <2>4 DEF ParseLength
<1>8. CASE ParseData
  <2>. DEFINE n == Share(recvData.packetLength - Len(recvData.currentReceiveBuffer))
  <2>1. UNCHANGED loginVars
    BY <1>8 DEF ParseData
  <2>2. CASE HandlePacket(recvData.packet, next + n)
    BY <1>6, <2>1, <2>2
  <2>3. CASE UNCHANGED <<mState, mQueue>>
    BY <2>1, <2>3 DEF Stays
  <2>. QED
    BY <1>8, <2>2, <2>3 DEF ParseData
<1>9. CASE BeginLogin
  BY <1>9 DEF BeginLogin, Takes
<1>10. CASE EndLogin
  BY <1>10 DEF EndLogin, Ends
<1>11. CASE ExecuteLogout
  BY <1>11 DEF ExecuteLogout, Takes
<1>12. CASE UNCHANGED vars
  BY <1>12 DEF vars, Stays
<1>. QED
  BY <1>1, <1>2, <1>3, <1>4, <1>5, <1>7, <1>8, <1>9, <1>10, <1>11, <1>12 DEF Next, Receiving, Working

(* What a queue holds after a request was appended or taken. *)
LEMMA QueueFacts ==
    ASSUME TypeOK, NEW r \in {"Login", "Logout"}
    PROVE  /\ DOMAIN mQueue = 1..Len(mQueue) /\ Len(mQueue) \in Nat
           /\ DOMAIN Append(mQueue, r) = 1..(Len(mQueue) + 1)
           /\ \A i \in 1..Len(mQueue) : Append(mQueue, r)[i] = mQueue[i]
           /\ Append(mQueue, r)[Len(mQueue) + 1] = r
           /\ mQueue # <<>> => /\ Len(mQueue) > 0 /\ Head(mQueue) = mQueue[1]
                               /\ DOMAIN Tail(mQueue) = 1..(Len(mQueue) - 1)
                               /\ \A i \in 1..(Len(mQueue) - 1) : Tail(mQueue)[i] = mQueue[i + 1]
<1>1. mQueue \in Seq({"Login", "Logout"})
  BY DEF TypeOK
<1>2. DOMAIN mQueue = 1..Len(mQueue) /\ Len(mQueue) \in Nat
  BY <1>1
<1>3. /\ Append(mQueue, r) \in Seq({"Login", "Logout"}) /\ Len(Append(mQueue, r)) = Len(mQueue) + 1
      /\ \A i \in 1..Len(mQueue) : Append(mQueue, r)[i] = mQueue[i]
      /\ Append(mQueue, r)[Len(mQueue) + 1] = r
  BY <1>1, AppendProperties
<1>4. DOMAIN Append(mQueue, r) = 1..(Len(mQueue) + 1)
  BY <1>3
<1>5. ASSUME mQueue # <<>>
      PROVE  /\ Len(mQueue) > 0 /\ Head(mQueue) = mQueue[1]
             /\ DOMAIN Tail(mQueue) = 1..(Len(mQueue) - 1)
             /\ \A i \in 1..(Len(mQueue) - 1) : Tail(mQueue)[i] = mQueue[i + 1]
  <2>1. /\ Tail(mQueue) \in Seq({"Login", "Logout"}) /\ Len(Tail(mQueue)) = Len(mQueue) - 1
        /\ \A i \in 1..Len(Tail(mQueue)) : Tail(mQueue)[i] = mQueue[i + 1]
    BY <1>1, <1>5, HeadTailProperties
  <2>2. DOMAIN Tail(mQueue) = 1..(Len(mQueue) - 1)
    BY <2>1
  <2>3. Len(mQueue) > 0 /\ Head(mQueue) = mQueue[1]
    BY <1>1, <1>5
  <2>. QED
    BY <2>1, <2>2, <2>3
<1>. QED
  BY <1>2, <1>3, <1>4, <1>5

(* A connection stays given up; it is given up by an exception only. *)
LEMMA FailedStep ==
    ASSUME TypeOK, [Next]_vars
    PROVE  /\ Failed => Failed'
           /\ ~Failed /\ Failed' => Gives
           /\ ~Failed' => ~ExecuteLogout /\ ~Gives
<1>. DEFINE Asked == \E i \in DOMAIN mQueue : mQueue[i] = "Logout"
<1>0. Failed <=> mLoggedOut \/ Asked
  BY DEF Failed
<1>1. Stays \/ Ends => (Failed' <=> Failed)
  BY DEF Stays, Ends, Failed
<1>2. Logs => (Asked' <=> Asked) /\ mLoggedOut' = mLoggedOut
  <2>. SUFFICES ASSUME Logs PROVE (Asked' <=> Asked) /\ mLoggedOut' = mLoggedOut
    OBVIOUS
  <2>1. mQueue' = Append(mQueue, "Login") /\ mLoggedOut' = mLoggedOut
    BY DEF Logs
  <2>2. /\ DOMAIN mQueue = 1..Len(mQueue) /\ Len(mQueue) \in Nat
        /\ DOMAIN mQueue' = 1..(Len(mQueue) + 1)
        /\ \A i \in 1..Len(mQueue) : mQueue'[i] = mQueue[i]
        /\ mQueue'[Len(mQueue) + 1] = "Login"
    BY <2>1, QueueFacts
  <2>3. \A i : i \in 1..(Len(mQueue) + 1) <=> i \in 1..Len(mQueue) \/ i = Len(mQueue) + 1
    BY <2>2
  <2>. QED
    BY <2>1, <2>2, <2>3
<1>3. Gives => Asked'
  <2>. SUFFICES ASSUME Gives PROVE Asked'
    OBVIOUS
  <2>1. mQueue' = Append(mQueue, "Logout")
    BY DEF Gives
  <2>2. DOMAIN mQueue' = 1..(Len(mQueue) + 1) /\ Len(mQueue) \in Nat /\ mQueue'[Len(mQueue) + 1] = "Logout"
    BY <2>1, QueueFacts
  <2>3. Len(mQueue) + 1 \in DOMAIN mQueue'
    BY <2>2
  <2>. QED
    BY <2>2, <2>3
<1>4. Takes => (~mLoggedOut' => (Asked' <=> Asked)) /\ (mLoggedOut' => mLoggedOut \/ Asked) /\ (mLoggedOut => mLoggedOut')
  <2>. SUFFICES ASSUME Takes
                PROVE  /\ ~mLoggedOut' => (Asked' <=> Asked)
                       /\ mLoggedOut' => mLoggedOut \/ Asked
                       /\ mLoggedOut => mLoggedOut'
    OBVIOUS
  <2>1. mQueue # <<>> /\ mQueue' = Tail(mQueue)
    BY DEF Takes
  <2>2. /\ DOMAIN mQueue = 1..Len(mQueue) /\ Len(mQueue) \in Nat /\ Len(mQueue) > 0
        /\ Head(mQueue) = mQueue[1]
        /\ DOMAIN mQueue' = 1..(Len(mQueue) - 1)
        /\ \A i \in 1..(Len(mQueue) - 1) : mQueue'[i] = mQueue[i + 1]
    BY <2>1, QueueFacts
  <2>3. 1 \in DOMAIN mQueue
    BY <2>2
  <2>4. CASE Head(mQueue) = "Login" /\ UNCHANGED mLoggedOut
    <3>1. Asked' => Asked
      <4>1. \A i \in 1..(Len(mQueue) - 1) : i + 1 \in 1..Len(mQueue)
        BY <2>2
      <4>. QED
        BY <2>2, <4>1
    <3>2. Asked => Asked'
      <4>1. \A i \in 1..Len(mQueue) : i # 1 => i - 1 \in 1..(Len(mQueue) - 1) /\ (i - 1) + 1 = i
        BY <2>2
      <4>2. "Login" # "Logout"
        OBVIOUS
      <4>3. ASSUME NEW i \in 1..Len(mQueue), mQueue[i] = "Logout" PROVE Asked'
        <5>1. i # 1
          BY <2>2, <2>4, <4>2, <4>3
        <5>2. mQueue'[i - 1] = "Logout" /\ i - 1 \in DOMAIN mQueue'
          BY <2>2, <4>1, <4>3, <5>1
        <5>. QED
          BY <5>2
      <4>. QED
        BY <2>2, <4>3
    <3>. QED
      BY <2>4, <3>1, <3>2
  <2>5. CASE Head(mQueue) = "Logout" /\ mLoggedOut'
    BY <2>2, <2>3, <2>5
  <2>. QED
    BY <2>4, <2>5 DEF Takes
<1>5. Failed' <=> mLoggedOut' \/ Asked'
  BY DEF Failed
<1>6. ~Failed' => ~ExecuteLogout
  BY DEF ExecuteLogout, Failed
<1>. HIDE DEF Asked
<1>7. CASE Logs \/ Gives \/ Takes
  <2>1. Gives => mLoggedOut' = mLoggedOut
    BY DEF Gives
  <2>2. (Failed => Failed') /\ (~Failed /\ Failed' => Gives)
    BY <1>0, <1>2, <1>3, <1>4, <1>5, <1>7
  <2>. QED
    BY <1>3, <1>5, <1>6, <2>2
<1>. QED
  BY <1>1, <1>3, <1>5, <1>6, <1>7, RequestSteps

LEMMA LoginStep ==
    ASSUME TypeOK, LoginInv, [Next]_vars
    PROVE  LoginInv'
<1>. DEFINE Asked == \E i \in DOMAIN mQueue : mQueue[i] = "Login"
<1>0. LoginInv <=> (wpc = "login" \/ Asked => mState # "INITIAL")
  BY DEF LoginInv
<1>1. LoginInv' <=> (wpc' = "login" \/ Asked' => mState' # "INITIAL")
  BY DEF LoginInv
<1>2. CASE Stays
  BY <1>0, <1>1, <1>2 DEF Stays
<1>3. CASE Logs \/ Ends
  <2>. HIDE DEF Asked
  <2>. QED
    BY <1>1, <1>3 DEF Logs, Ends
<1>4. CASE Gives
  <2>1. mQueue' = Append(mQueue, "Logout") /\ UNCHANGED <<wpc, mState>>
    BY <1>4 DEF Gives
  <2>2. /\ DOMAIN mQueue = 1..Len(mQueue) /\ Len(mQueue) \in Nat
        /\ DOMAIN mQueue' = 1..(Len(mQueue) + 1)
        /\ \A i \in 1..Len(mQueue) : mQueue'[i] = mQueue[i]
        /\ mQueue'[Len(mQueue) + 1] = "Logout"
    BY <2>1, QueueFacts
  <2>3. \A i : i \in 1..(Len(mQueue) + 1) <=> i \in 1..Len(mQueue) \/ i = Len(mQueue) + 1
    BY <2>2
  <2>4. Asked' => Asked
    BY <2>2, <2>3
  <2>. HIDE DEF Asked
  <2>. QED
    BY <1>0, <1>1, <2>1, <2>4
<1>5. CASE Takes
  <2>1. mQueue # <<>> /\ mQueue' = Tail(mQueue) /\ UNCHANGED mState
        /\ (Head(mQueue) = "Login" \/ UNCHANGED wpc)
    BY <1>5 DEF Takes
  <2>2. /\ DOMAIN mQueue = 1..Len(mQueue) /\ Len(mQueue) \in Nat /\ Len(mQueue) > 0
        /\ Head(mQueue) = mQueue[1]
        /\ DOMAIN mQueue' = 1..(Len(mQueue) - 1)
        /\ \A i \in 1..(Len(mQueue) - 1) : mQueue'[i] = mQueue[i + 1]
    BY <2>1, QueueFacts
  <2>3. \A i \in 1..(Len(mQueue) - 1) : i + 1 \in 1..Len(mQueue)
    BY <2>2
  <2>4. Asked' => Asked
    BY <2>2, <2>3
  <2>5. Head(mQueue) = "Login" => Asked
    <3>1. 1 \in DOMAIN mQueue
      BY <2>2
    <3>. QED
      BY <2>2, <3>1
  <2>. HIDE DEF Asked
  <2>. QED
    BY <1>0, <1>1, <2>1, <2>4, <2>5
<1>. QED
  BY <1>2, <1>3, <1>4, <1>5, RequestSteps

(* The receiver goes back to epoll when recv returned nothing, or after an exception. *)
LEMMA DrainStep ==
    ASSUME TypeOK, BytesInv, EventDrains, [Next]_vars
    PROVE  EventDrains'
<1>. SUFFICES ASSUME rpc' = "wait", ~event', ~Failed'
              PROVE  next' = arrived'
  BY DEF EventDrains
<1>. USE DEF bytesVars, loginVars
<1>1. ~Failed /\ ~Gives
  BY FailedStep
<1>2. Throw /\ UNCHANGED <<mState, mLoggedOut, wpc>> => FALSE
  BY <1>1 DEF Throw, Gives
<1>3. UNCHANGED <<arrived, next, event, rpc>> => next' = arrived'
  BY <1>1 DEF EventDrains
<1>4. ASSUME NEW n \in 1..RecvSize + 1, Arrive(n) PROVE FALSE
  BY <1>4 DEF Arrive
<1>5. CASE Recv
  <2>1. read = arrived /\ next = read
    BY <1>5 DEF Recv, BytesInv
  <2>. QED
    BY <1>5, <2>1 DEF Recv
<1>6. TakeEvent \/ FlushHeld \/ ParseType => FALSE
  BY <1>2 DEF TakeEvent, FlushHeld, ParseType, Consume, Throw
<1>7. \A p, n : HandlePacket(p, n) /\ UNCHANGED loginVars => FALSE
  BY <1>2 DEF HandlePacket, Consume
<1>8. ParseLength => FALSE
  BY <1>2, <1>7 DEF ParseLength, Consume
<1>9. ParseData => FALSE
  BY <1>7 DEF ParseData, Consume
<1>10. BeginLogin \/ EndLogin \/ ExecuteLogout => next' = arrived'
  BY <1>3 DEF BeginLogin, EndLogin, ExecuteLogout
<1>11. UNCHANGED vars => next' = arrived'
  BY <1>3 DEF vars
<1>. QED
  BY <1>4, <1>5, <1>6, <1>8, <1>9, <1>10, <1>11 DEF Next, Receiving, Working

-----------------------------------------------------------------------------
(* Every packet once *)

(* A step that moves no packet. *)
LEMMA NothingMoved ==
    ASSUME NEW k, Accounted(k), UNCHANGED <<handled, held, flushed>>,
           mState' = "INITIAL" <=> mState = "INITIAL", rpc' # "flush" => flushed = 0
    PROVE  Accounted(k)'
<1>1. \A p : Count(p, handled)' = Count(p, handled) /\ Waiting(p)' = Waiting(p)
  BY DEF Count, Waiting
<1>. QED
  BY <1>1 DEF Accounted, held

(* Packet k is handed over, and no exception leaves its handler. *)
LEMMA PacketMoved ==
    ASSUME TypeOK, TypeOK', NEW k \in 0..MaxPackets, Accounted(k), rpc = "parse", NEW n,
           HandlePacket(k, n), UNCHANGED flushed, ~Throw
    PROVE  Accounted(k + 1)'
<1>. USE DEF held
<1>1. /\ handled \in Seq(0..MaxPackets) /\ held \in Seq(0..MaxPackets)
      /\ MaxPackets \in Nat /\ flushed = 0 /\ flushed' = 0
  BY LengthFacts DEF TypeOK, Accounted
<1>2. CountsAreSizes
  BY CountPlaces
<1>3. CountsAreSizes'
  BY CountPlaces, PTL
<1>4. /\ 0 \in 0..Len(held) /\ 0 \in 0..Len(handled)
  <2>1. Len(held) \in Nat /\ Len(handled) \in Nat
    BY <1>1
  <2>. QED
    BY <2>1
<1>5. mState' # "INITIAL" /\ k + 1 # 0
  BY DEF HandlePacket
<1>6. \A p \in Packets : (p < k + 1 <=> p < k \/ p = k) /\ (p < k => p # k)
  BY <1>1 DEF Packets
<1>. DEFINE One(p) == IF p < k THEN 1 ELSE 0
            Two(p) == IF p < k + 1 THEN 1 ELSE 0
            Is(p) == IF k = p THEN 1 ELSE 0
<1>7. \A p \in Packets : Count(p, handled) + Waiting(p) = One(p)
  BY DEF Accounted
<1>8. \A p \in Packets : Two(p) = One(p) + Is(p)
  BY <1>6
<1>. HIDE DEF One, Two, Is
<1>9. \A p \in Packets : One(p) \in Nat /\ Is(p) \in Nat
  BY DEF One, Is
<1>10. CASE mState = "INITIAL"
  <2>1. k = 0 /\ UNCHANGED <<held, handled>>
    BY <1>10 DEF HandlePacket, Accounted
  <2>2. \A p : Count(p, handled)' = Count(p, handled) /\ Waiting(p)' = Waiting(p)
    BY <1>1, <2>1 DEF Count, Waiting
  <2>3. \A p \in Packets : Is(p) = 0
    BY <1>1, <2>1 DEF Is, Packets
  <2>4. \A p \in Packets : Count(p, handled)' + Waiting(p)' = Two(p)
    BY <1>7, <1>8, <1>9, <2>2, <2>3
  <2>5. \A i \in DOMAIN held' : held'[i] \in 1..((k + 1) - 1)
    <3>1. \A i \in DOMAIN held : held[i] \in 1..(0 - 1)
      BY <2>1 DEF Accounted
    <3>2. 1..(0 - 1) = {}
      OBVIOUS
    <3>. QED
      BY <2>1, <3>1, <3>2
  <2>. QED
    BY <1>1, <1>5, <2>4, <2>5 DEF Accounted, Two
<1>11. CASE mState = "CONNECTING"
  <2>1. k # 0 /\ held' = Append(held, k) /\ handled' = handled
    BY <1>11 DEF HandlePacket, Accounted
  <2>2. \A p : Waiting(p)' = Waiting(p) + Is(p) /\ Count(p, handled)' = Count(p, handled)
    <3>. SUFFICES ASSUME NEW p PROVE Waiting(p)' = Waiting(p) + Is(p) /\ Count(p, handled)' = Count(p, handled)
      OBVIOUS
    <3>1. Cardinality(Places(Append(held, k), 0, p)) = Cardinality(Places(held, 0, p)) + Is(p)
      <4>. DEFINE S == 0..MaxPackets
      <4>1. held \in Seq(S) /\ k \in S
        BY <1>1
      <4>. HIDE DEF S
      <4>2. Cardinality(Places(Append(held, k), 0, p))
              = Cardinality(Places(held, 0, p)) + (IF k = p THEN 1 ELSE 0)
        BY <1>4, <4>1, CountAppended
      <4>. QED
        BY <4>2 DEF Is
    <3>2. Waiting(p)' = Cardinality(Places(held', flushed', p)) /\ Waiting(p) = Cardinality(Places(held, flushed, p))
      BY <1>2, <1>3 DEF CountsAreSizes
    <3>3. Count(p, handled)' = Count(p, handled)
      BY <2>1 DEF Count
    <3>. QED
      BY <1>1, <2>1, <3>1, <3>2, <3>3
  <2>3. \A p : Count(p, handled) \in Nat /\ Waiting(p) \in Nat
    BY <1>2 DEF CountsAreSizes
  <2>4. \A p \in Packets : Count(p, handled)' + Waiting(p)' = Two(p)
    BY <1>7, <1>8, <1>9, <2>2, <2>3
  <2>5. ASSUME NEW i \in DOMAIN held' PROVE held'[i] \in 1..((k + 1) - 1)
    <3>1. /\ Len(held) \in Nat /\ DOMAIN held = 1..Len(held) /\ DOMAIN held' = 1..(Len(held) + 1)
          /\ held'[Len(held) + 1] = k /\ \A j \in 1..Len(held) : held'[j] = held[j]
      BY <1>1, <2>1
    <3>2. CASE i = Len(held) + 1
      BY <1>1, <2>1, <3>1, <3>2
    <3>3. CASE i # Len(held) + 1
      <4>1. i \in 1..Len(held)
        BY <3>1, <3>3
      <4>2. held'[i] \in 1..(k - 1)
        BY <3>1, <4>1 DEF Accounted
      <4>. QED
        BY <4>2
    <3>. QED
      BY <3>2, <3>3
  <2>. QED
    BY <1>1, <1>5, <2>4, <2>5 DEF Accounted, Two
<1>12. CASE mState = "CONNECTED"
  <2>1. k # 0 /\ handled' = Append(handled, k) /\ held' = held
    BY <1>12 DEF HandlePacket, Accounted
  <2>2. \A p : Count(p, handled)' = Count(p, handled) + Is(p) /\ Waiting(p)' = Waiting(p)
    <3>. SUFFICES ASSUME NEW p PROVE Count(p, handled)' = Count(p, handled) + Is(p) /\ Waiting(p)' = Waiting(p)
      OBVIOUS
    <3>1. Cardinality(Places(Append(handled, k), 0, p)) = Cardinality(Places(handled, 0, p)) + Is(p)
      <4>. DEFINE S == 0..MaxPackets
      <4>1. handled \in Seq(S) /\ k \in S
        BY <1>1
      <4>. HIDE DEF S
      <4>2. Cardinality(Places(Append(handled, k), 0, p))
              = Cardinality(Places(handled, 0, p)) + (IF k = p THEN 1 ELSE 0)
        BY <1>4, <4>1, CountAppended
      <4>. QED
        BY <4>2 DEF Is
    <3>2. Count(p, handled)' = Cardinality(Places(handled', 0, p)) /\ Count(p, handled) = Cardinality(Places(handled, 0, p))
      BY <1>2, <1>3 DEF CountsAreSizes
    <3>3. Waiting(p)' = Waiting(p)
      BY <1>1, <2>1 DEF Waiting
    <3>. QED
      BY <2>1, <3>1, <3>2, <3>3
  <2>3. \A p : Count(p, handled) \in Nat /\ Waiting(p) \in Nat
    BY <1>2 DEF CountsAreSizes
  <2>4. \A p \in Packets : Count(p, handled)' + Waiting(p)' = Two(p)
    BY <1>7, <1>8, <1>9, <2>2, <2>3
  <2>5. \A i \in DOMAIN held' : held'[i] \in 1..((k + 1) - 1)
    <3>1. \A x \in 1..(k - 1) : x \in 1..((k + 1) - 1)
      OBVIOUS
    <3>. QED
      BY <2>1, <3>1 DEF Accounted
  <2>. QED
    BY <1>1, <1>5, <2>4, <2>5 DEF Accounted, Two
<1>. QED
  BY <1>10, <1>11, <1>12 DEF HandlePacket

(* A held packet is handled, or the list of them is cleared after the last one. *)
LEMMA HeldMoved ==
    ASSUME TypeOK, TypeOK', NEW k \in 0..(MaxPackets + 1), Accounted(k), FlushHeld, ~Throw
    PROVE  Accounted(k)'
<1>. USE DEF held
<1>1. /\ handled \in Seq(0..MaxPackets) /\ held \in Seq(0..MaxPackets)
      /\ flushed \in 0..Len(held) /\ Len(held) \in Nat /\ Len(handled) \in Nat
  <2>1. handled \in Seq(0..MaxPackets) /\ held \in Seq(0..MaxPackets) /\ flushed \in 0..Len(held)
    BY DEF TypeOK
  <2>. QED
    BY <2>1, LenProperties
<1>2. CountsAreSizes
  BY CountPlaces
<1>3. CountsAreSizes'
  BY CountPlaces, PTL
<1>4. rpc = "flush" /\ mState' = mState
  BY DEF FlushHeld
<1>5. \A p : Count(p, handled) \in Nat /\ Waiting(p) \in Nat
  BY <1>2 DEF CountsAreSizes
<1>6. CASE flushed < Len(held)
  <2>. DEFINE q == held[flushed + 1]
  <2>1. handled' = Append(handled, q) /\ flushed' = flushed + 1 /\ rpc' = rpc /\ held' = held
    BY <1>6 DEF FlushHeld
  <2>2. q \in 0..MaxPackets /\ flushed \in 0..(Len(held) - 1)
    <3>1. flushed + 1 \in 1..Len(held)
      BY <1>1, <1>6
    <3>2. q \in 0..MaxPackets
      BY <1>1, <3>1, ElementOfSeq
    <3>. QED
      BY <1>1, <1>6, <3>2
  <2>3. ASSUME NEW p PROVE Count(p, handled)' + Waiting(p)' = Count(p, handled) + Waiting(p)
    <3>. DEFINE Is == IF q = p THEN 1 ELSE 0
    <3>1. Cardinality(Places(Append(handled, q), 0, p)) = Cardinality(Places(handled, 0, p)) + Is
      <4>1. 0 \in 0..Len(handled)
        BY <1>1
      <4>. QED
        BY <1>1, <2>2, <4>1, CountAppended
    <3>2. Cardinality(Places(held, flushed, p)) = Cardinality(Places(held, flushed + 1, p)) + Is
      BY <1>1, <2>2, CountPassed
    <3>3. Is \in Nat
      OBVIOUS
    <3>. HIDE DEF Is, q
    <3>4. /\ Count(p, handled)' = Cardinality(Places(handled', 0, p))
          /\ Waiting(p)' = Cardinality(Places(held', flushed', p)) /\ Waiting(p)' \in Nat
          /\ Count(p, handled) = Cardinality(Places(handled, 0, p))
          /\ Waiting(p) = Cardinality(Places(held, flushed, p))
      BY <1>2, <1>3 DEF CountsAreSizes
    <3>5. Count(p, handled)' = Count(p, handled) + Is /\ Waiting(p) = Waiting(p)' + Is
      BY <2>1, <3>1, <3>2, <3>4
    <3>. QED
      BY <1>5, <3>3, <3>4, <3>5
  <2>. HIDE DEF q
  <2>. QED
    BY <1>4, <2>1, <2>3 DEF Accounted
<1>7. CASE ~(flushed < Len(held))
  <2>1. flushed = Len(held) /\ held' = <<>> /\ flushed' = 0 /\ rpc' = "recv" /\ handled' = handled
    BY <1>1, <1>7 DEF FlushHeld, ClearHeld
  <2>2. \A p : Waiting(p) = Cardinality({}) /\ Waiting(p)' = Cardinality({}) /\ Count(p, handled)' = Count(p, handled)
    <3>1. (flushed + 1)..Len(held) = {}
      BY <1>1, <2>1
    <3>2. (flushed' + 1)..Len(held') = {}
      BY <2>1
    <3>. QED
      BY <2>1, <3>1, <3>2 DEF Waiting, Count
  <2>3. \A i \in DOMAIN held' : FALSE
    BY <2>1
  <2>. QED
    BY <1>4, <2>1, <2>2, <2>3 DEF Accounted
<1>. QED
  BY <1>6, <1>7

-----------------------------------------------------------------------------
(* The invariant is inductive *)

(* Each step of the parser is one of three. *)
LEMMA ParseOutcome ==
    ASSUME TypeOK, BytesInv, NEW k \in 0..(MaxPackets + 1), Parsing(k),
           ParseType \/ ParseLength \/ ParseData
    PROVE  /\ GoesOn(k) \/ HandsOver(k) \/ Rejects(k)
           /\ rpc = "parse" /\ UNCHANGED <<read, flushed, mLoggedOut, wpc>>
<1>1. GoesOn(k) \/ HandsOver(k) \/ Rejects(k)
  BY ParseTypeOutcome, ParseLengthOutcome, ParseDataOutcome
<1>2. rpc = "parse" /\ UNCHANGED <<read, flushed, mLoggedOut, wpc>>
  BY DEF ParseType, ParseLength, ParseData, loginVars
<1>. QED
  BY <1>1, <1>2

(* The parser is where it says it is, and every packet it took is accounted for. *)
LEMMA PositionStep ==
    ASSUME TypeOK, BytesInv, LoginInv, PositionInv, [Next]_vars
    PROVE  PositionInv'
<1>. SUFFICES ASSUME ~Failed' PROVE (\E k \in 0..(MaxPackets + 1) : Parsing(k) /\ Accounted(k))'
  BY DEF PositionInv
<1>. DEFINE Goal == (\E k \in 0..(MaxPackets + 1) : Parsing(k) /\ Accounted(k))'
<1>. USE DEF bytesVars, loginVars, held
<1>t. TypeOK'
  BY TypeStep
<1>f. ~Failed /\ ~Gives /\ ~ExecuteLogout
  BY FailedStep
<1>0. PICK k \in 0..(MaxPackets + 1) : Parsing(k) /\ Accounted(k)
  BY <1>f DEF PositionInv
<1>g. \A m \in 0..(MaxPackets + 1) : Parsing(m)' /\ Accounted(m)' => Goal
  OBVIOUS
<1>. HIDE DEF Goal
<1>1. UNCHANGED <<next, recvData>> => Parsing(k)'
  BY <1>0 DEF Parsing, DigitsTaken
<1>2. UNCHANGED vars => Goal
  <2>. SUFFICES ASSUME UNCHANGED vars PROVE Goal
    OBVIOUS
  <2>1. Accounted(k)'
    BY <1>0, NothingMoved DEF vars, Accounted
  <2>. QED
    BY <1>1, <1>g, <2>1 DEF vars
<1>3. ASSUME NEW n \in 1..RecvSize + 1, Arrive(n) PROVE Goal
  <2>1. Accounted(k)'
    BY <1>0, <1>3, NothingMoved DEF Arrive, Accounted
  <2>. QED
    BY <1>1, <1>3, <1>g, <2>1 DEF Arrive
<1>4. CASE TakeEvent
  <2>1. flushed = 0 /\ flushed' = 0 /\ UNCHANGED <<handled, held, mState>>
    BY <1>0, <1>4 DEF TakeEvent, Accounted
  <2>2. Accounted(k)'
    BY <1>0, <2>1, NothingMoved
  <2>. QED
    BY <1>1, <1>4, <1>g, <2>2 DEF TakeEvent
<1>5. CASE FlushHeld
  <2>1. ~Throw
    BY <1>5, <1>f DEF FlushHeld, Throw, Gives
  <2>2. Accounted(k)'
    BY <1>0, <1>5, <1>t, <2>1, HeldMoved
  <2>3. UNCHANGED <<next, recvData>>
    BY <1>5, <2>1 DEF FlushHeld
  <2>. QED
    BY <1>1, <1>g, <2>2, <2>3
<1>6. CASE Recv
  <2>1. flushed = 0 /\ UNCHANGED <<handled, held, flushed, mState>>
    BY <1>0, <1>6 DEF Recv, Accounted
  <2>2. Accounted(k)'
    BY <1>0, <2>1, NothingMoved
  <2>. QED
    BY <1>1, <1>6, <1>g, <2>2 DEF Recv
<1>7. CASE ParseType \/ ParseLength \/ ParseData
  <2>1. /\ GoesOn(k) \/ HandsOver(k) \/ Rejects(k)
        /\ rpc = "parse" /\ UNCHANGED <<read, flushed, mLoggedOut, wpc>>
    BY <1>0, <1>7, ParseOutcome
  <2>2. ~(Throw /\ UNCHANGED mState)
    BY <1>f, <2>1 DEF Throw, Gives
  <2>3. CASE GoesOn(k)
    <3>1. flushed = 0
      BY <1>0, <2>1 DEF Accounted
    <3>2. Accounted(k)'
      BY <1>0, <2>1, <2>3, <3>1, NothingMoved DEF GoesOn
    <3>. QED
      BY <1>g, <2>3, <3>2 DEF GoesOn
  <2>4. CASE HandsOver(k)
    <3>1. k \in 0..MaxPackets /\ k + 1 \in 0..(MaxPackets + 1)
      BY <2>4, LengthFacts DEF HandsOver
    <3>2. ~Throw
      BY <2>2, <2>4 DEF HandsOver, HandlePacket, Consume, Throw
    <3>3. Accounted(k + 1)'
      BY <1>0, <1>t, <2>1, <2>4, <3>1, <3>2, PacketMoved DEF HandsOver
    <3>4. rpc' # "wait"
      BY <2>4, <3>2 DEF HandsOver, HandlePacket, Consume
    <3>. QED
      BY <1>g, <2>4, <3>1, <3>3, <3>4 DEF HandsOver
  <2>. QED
    BY <2>1, <2>2, <2>3, <2>4 DEF Rejects
<1>8. CASE BeginLogin
  <2>1. Accounted(k)'
    BY <1>0, <1>8, NothingMoved DEF BeginLogin, Accounted
  <2>. QED
    BY <1>1, <1>8, <1>g, <2>1 DEF BeginLogin
<1>9. CASE EndLogin
  <2>1. mState # "INITIAL" /\ mState' = "CONNECTED"
    BY <1>9 DEF EndLogin, LoginInv
  <2>2. Accounted(k)'
    BY <1>0, <1>9, <2>1, NothingMoved DEF EndLogin, Accounted
  <2>. QED
    BY <1>1, <1>9, <1>g, <2>2 DEF EndLogin
<1>. QED
  BY <1>f, <1>2, <1>3, <1>4, <1>5, <1>6, <1>7, <1>8, <1>9 DEF Next, Receiving, Working, Goal

(* Whoever gives the connection up has a reason. *)
LEMMA ReasonStep ==
    ASSUME TypeOK, BytesInv, PositionInv, FailsForReason, [Next]_vars
    PROVE  FailsForReason'
<1>. USE DEF bytesVars, loginVars, held
<1>t. TypeOK' /\ next' >= next
  BY TypeStep
<1>n. next' \in Nat
  BY <1>t DEF TypeOK
<1>1. CASE Failed
  BY <1>1, <1>t, <1>n, ReasonStays
<1>2. CASE ~Failed /\ ~Failed'
  BY <1>2 DEF FailsForReason
<1>3. CASE ~Failed /\ Failed'
  <2>1. mQueue' = Append(mQueue, "Logout")
    BY <1>3, FailedStep DEF Gives
  <2>2. mQueue' # mQueue /\ mQueue' # Append(mQueue, "Login") /\ (mQueue # <<>> => mQueue' # Tail(mQueue))
    <3>1. mQueue \in Seq({"Login", "Logout"}) /\ Len(mQueue) \in Nat
      BY DEF TypeOK
    <3>2. Len(mQueue') = Len(mQueue) + 1 /\ mQueue'[Len(mQueue) + 1] = "Logout"
      BY <2>1, <3>1
    <3>3. Append(mQueue, "Login")[Len(mQueue) + 1] = "Login"
      BY <3>1
    <3>4. mQueue # <<>> => Len(Tail(mQueue)) = Len(mQueue) - 1
      BY <3>1
    <3>. QED
      BY <3>1, <3>2, <3>3, <3>4
  <2>3. PICK k \in 0..(MaxPackets + 1) : Parsing(k) /\ Accounted(k)
    BY <1>3 DEF PositionInv
  <2>4. CASE FlushHeld
    <3>1. flushed < Len(held) /\ held[flushed + 1] \in NeedsSession /\ next' = read
      BY <2>2, <2>4 DEF FlushHeld, Throw
    <3>2. flushed + 1 \in DOMAIN held
      <4>1. held \in Seq(0..MaxPackets) /\ flushed \in 0..Len(held)
        BY DEF TypeOK
      <4>2. Len(held) \in Nat /\ DOMAIN held = 1..Len(held)
        BY <4>1
      <4>. QED
        BY <3>1, <4>1, <4>2
    <3>3. PICK p \in NeedsSession : p \in 1..(k - 1)
      BY <2>3, <3>1, <3>2 DEF Accounted
    <3>4. p \in 0..MaxPackets /\ p < k
      BY <3>3, LengthFacts
    <3>5. EndOf(p) <= next
      BY <2>3, <3>4, TakenPackets
    <3>6. EndOf(p) \in Nat /\ next \in Nat
      <4>1. p + 1 \in 0..(MaxPackets + 1)
        BY <3>4, LengthFacts
      <4>. QED
        BY SMTT(60), <4>1, SentFacts DEF EndOf, Start, TypeOK
    <3>7. EndOf(p) <= next'
      BY <1>t, <1>n, <3>5, <3>6
    <3>. QED
      BY <3>3, <3>7 DEF FailsForReason
  <2>5. CASE ParseType \/ ParseLength \/ ParseData
    <3>1. GoesOn(k) \/ HandsOver(k) \/ Rejects(k)
      BY <2>3, <2>5, ParseOutcome
    <3>2. ~GoesOn(k)
      BY <2>2 DEF GoesOn
    <3>3. CASE HandsOver(k)
      <4>1. k \in NeedsSession /\ next' = read /\ Start(k + 1) <= read
        BY <2>2, <3>3 DEF HandsOver, HandlePacket, Throw
      <4>2. EndOf(k) <= next'
        BY <4>1 DEF EndOf, Start
      <4>. QED
        BY <4>1, <4>2 DEF FailsForReason
    <3>4. CASE Rejects(k)
      <4>1. k \in 0..MaxPackets /\ Digits(k) > 3 /\ HeadEnd(k) <= next'
        BY <3>4, LengthFacts DEF Rejects, Throw
      <4>. QED
        BY <4>1 DEF FailsForReason
    <3>. QED
      BY <3>1, <3>2, <3>3, <3>4
  <2>6. ASSUME NEW n \in 1..RecvSize + 1, Arrive(n) PROVE FALSE
    BY <2>2, <2>6 DEF Arrive
  <2>7. ~TakeEvent /\ ~Recv /\ ~BeginLogin /\ ~EndLogin /\ ~ExecuteLogout /\ ~UNCHANGED vars
    BY <2>2 DEF TakeEvent, Recv, BeginLogin, EndLogin, ExecuteLogout, vars
  <2>. QED
    BY <2>4, <2>5, <2>6, <2>7 DEF Next, Receiving, Working
<1>. QED
  BY <1>1, <1>2, <1>3

LEMMA InitInv == Init => Inv
<1>. SUFFICES ASSUME Init PROVE Inv
  OBVIOUS
<1>. USE DEF held
<1>1. TypeOK
  <2>1. BytesType
    <3>1. Len(Stream) \in Nat
      BY StreamFacts
    <3>. QED
      BY <3>1 DEF Init, BytesType
  <2>2. ThreadType
    <3>1. held = <<>> /\ handled = <<>> /\ mQueue = <<>> /\ flushed = 0
      BY DEF Init
    <3>2. /\ held \in Seq(0..MaxPackets) /\ handled \in Seq(0..MaxPackets)
          /\ mQueue \in Seq({"Login", "Logout"}) /\ flushed \in 0..Len(held)
      BY <3>1
    <3>. QED
      BY <3>2 DEF Init, ThreadType
  <2>3. DataType
    <3>1. Len(Cleared.currentReceiveBuffer) = 0
      BY ReceiveDataFacts
    <3>. QED
      BY <3>1, ReceiveDataFacts DEF Init, DataType
  <2>. QED
    BY <2>1, <2>2, <2>3, TypeSplit
<1>2. BytesInv
  BY DEF Init, BytesInv, Cleared
<1>3. ~Failed
  BY DEF Init, Failed
<1>4. LoginInv
  BY DEF Init, LoginInv
<1>5. FailsForReason /\ EventDrains
  BY <1>3 DEF Init, FailsForReason, EventDrains
<1>6. Parsing(0)
  BY SentFacts DEF Init, Parsing, Cleared
<1>7. Accounted(0)
  <2>1. \A p : Count(p, handled) = Cardinality({}) /\ Waiting(p) = Cardinality({})
    <3>1. DOMAIN handled = {} /\ (flushed + 1)..Len(held) = {}
      BY DEF Init
    <3>. QED
      BY <3>1 DEF Count, Waiting
  <2>2. Cardinality({}) = 0
    BY FS_EmptySet
  <2>3. \A p \in Packets : ~(p < 0)
    BY LengthFacts DEF Packets
  <2>4. \A p \in Packets : Count(p, handled) + Waiting(p) = IF p < 0 THEN 1 ELSE 0
    BY <2>1, <2>2, <2>3
  <2>5. mState = "INITIAL" /\ flushed = 0 /\ \A i \in DOMAIN held : FALSE
    BY DEF Init
  <2>. QED
    BY <2>4, <2>5 DEF Accounted
<1>8. 0 \in 0..(MaxPackets + 1)
  BY LengthFacts
<1>. QED
  BY <1>1, <1>2, <1>4, <1>5, <1>6, <1>7, <1>8 DEF Inv, PositionInv

LEMMA NextInv == Inv /\ [Next]_vars => Inv'
<1>. SUFFICES ASSUME Inv, [Next]_vars PROVE Inv'
  OBVIOUS
<1>1. TypeOK' /\ BytesInv'
  BY TypeStep DEF Inv
<1>2. LoginInv'
  BY LoginStep DEF Inv
<1>3. FailsForReason'
  BY ReasonStep DEF Inv
<1>4. EventDrains'
  BY DrainStep DEF Inv
<1>5. PositionInv'
  BY PositionStep DEF Inv
<1>. QED
  BY <1>1, <1>2, <1>3, <1>4, <1>5 DEF Inv

LEMMA Invariance == Spec => []Inv
BY InitInv, NextInv, PTL DEF Spec

(* The receive buffer never outgrows the packet and the flush never runs past the  *)
(* list of held packets, also after a packet that was rejected or whose handler    *)
(* threw.                                                                          *)
THEOREM TypeCorrect == Spec => []TypeOK
<1>1. Inv => TypeOK
  BY DEF Inv
<1>. QED
  BY <1>1, Invariance, PTL

(* However TCP and recv cut the stream, and whenever the login is executed, a packet *)
(* of a connection that was not given up has been handled or is held exactly once    *)
(* as soon as its last byte was parsed.                                              *)
THEOREM PacketsHandledOnce == Spec => []HandledOnce
<1>1. Inv => HandledOnce
  <2>. SUFFICES ASSUME Inv, ~Failed, NEW p \in Packets
                PROVE  Count(p, handled) + Waiting(p) = IF EndOf(p) <= next THEN 1 ELSE 0
    BY DEF HandledOnce
  <2>1. PICK k \in 0..(MaxPackets + 1) : Parsing(k) /\ Accounted(k)
    BY DEF Inv, PositionInv
  <2>2. p \in 0..MaxPackets
    BY LengthFacts DEF Packets
  <2>3. EndOf(p) <= next <=> p < k
    BY <2>1, <2>2, TakenPackets DEF Inv
  <2>. QED
    BY <2>1, <2>3 DEF Accounted
<1>. QED
  BY <1>1, Invariance, PTL

(* A connection is given up by the receiver only after the fourth digit of a length, *)
(* which MQTT allows and the broker does not take, or after a packet that needs the  *)
(* session and came before it: no cut of the stream by recv makes up a third cause.  *)
THEOREM FailsOnlyForReason == Spec => []FailsForReason
<1>1. Inv => FailsForReason
  BY DEF Inv
<1>. QED
  BY <1>1, Invariance, PTL

(* The receiver never waits for an edge-triggered event with bytes left unread. *)
THEOREM SocketDrained == Spec => []EventDrains
<1>1. Inv => EventDrains
  BY DEF Inv
<1>. QED
  BY <1>1, Invariance, PTL

=============================================================================
