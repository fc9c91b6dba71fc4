--------------------------- MODULE RingArithmetic ---------------------------
(***************************************************************************)
(* Lemmas about slot numbers of a ring of m slots, n % m, and the          *)
(* induction over sets of numbers that sums and roots are computed with.   *)
(***************************************************************************)
EXTENDS Integers, WellFoundedInduction, TLAPS

(* A slot number and its lap make up the number of a write. *)
LEMMA SlotAndLap ==
  ASSUME NEW n \in Nat, NEW m \in Nat \ {0}
  PROVE  n % m \in 0 .. m - 1 /\ n \div m \in Int /\ n = m * (n \div m) + (n % m)
  BY SMT

(* The same of numbers before the first write: counting back from slot 0   *)
(* goes around to the end of the ring.                                     *)
LEMMA SlotAndLapBack ==
  ASSUME NEW n \in Int, NEW m \in Nat \ {0}
  PROVE  n % m \in 0 .. m - 1 /\ n \div m \in Int /\ n = m * (n \div m) + (n % m)
  BY SMT

(* No lap fits between two slots of one ring. *)
LEMMA UniqueSlot ==
  ASSUME NEW m \in Nat \ {0}, NEW a \in Int, NEW b \in Int,
         NEW r \in 0 .. m - 1, NEW s \in 0 .. m - 1, m * a + r = m * b + s
  PROVE  r = s
<1>1. m * (a - b) = s - r
  BY SMT
<1>2. a - b < 1
  <2>1. SUFFICES ASSUME a - b >= 1 PROVE FALSE
    BY SMT
  <2>2. m * (a - b) >= m
    BY <2>1, SMT
  <2>. QED BY <1>1, <2>2, SMT
<1>3. a - b > -1
  <2>1. SUFFICES ASSUME a - b <= -1 PROVE FALSE
    BY SMT
  <2>2. m * (a - b) <= -m
    BY <2>1, SMT
  <2>. QED BY <1>1, <2>2, SMT
<1>. QED
  BY <1>1, <1>2, <1>3, SMT

(* The next write goes to the next slot, and around at the end of the ring.*)
LEMMA NextSlot ==
  ASSUME NEW n \in Nat, NEW m \in Nat \ {0}
  PROVE  (n + 1) % m = IF n % m = m - 1 THEN 0 ELSE (n % m) + 1
<1>. DEFINE q == n \div m
            r == n % m
            q1 == (n + 1) \div m
            r1 == (n + 1) % m
<1>1. r \in 0 .. m - 1 /\ q \in Int /\ n = m * q + r
  BY SlotAndLap
<1>2. r1 \in 0 .. m - 1 /\ q1 \in Int /\ n + 1 = m * q1 + r1
  BY SlotAndLap
<1>. HIDE DEF q, r, q1, r1
<1>3. CASE r = m - 1
  <2>1. m * q1 + r1 = m * (q + 1) + 0
    BY <1>1, <1>2, <1>3, SMT
  <2>2. r1 = 0
    BY <1>2, <1>1, <2>1, UniqueSlot, SMT
  <2>. QED BY <1>3, <2>2 DEF r, r1
<1>4. CASE r # m - 1
  <2>1. m * q1 + r1 = m * q + (r + 1) /\ r + 1 \in 0 .. m - 1
    BY <1>1, <1>2, <1>4, SMT
  <2>2. r1 = r + 1
    BY <1>2, <1>1, <2>1, UniqueSlot, SMT
  <2>. QED BY <1>4, <2>2 DEF r, r1
<1>. QED
  BY <1>3, <1>4

(* Two writes less than a lap apart go to different slots. *)
LEMMA SlotsDiffer ==
  ASSUME NEW n \in Nat, NEW k \in Nat, NEW m \in Nat \ {0}, n < k, k < n + m
  PROVE  n % m # k % m
<1>. DEFINE q == n \div m
            r == n % m
            q1 == k \div m
            r1 == k % m
<1>1. r \in 0 .. m - 1 /\ q \in Int /\ n = m * q + r
  BY SlotAndLap
<1>2. r1 \in 0 .. m - 1 /\ q1 \in Int /\ k = m * q1 + r1
  BY SlotAndLap
<1>. HIDE DEF q, r, q1, r1
<1>3. SUFFICES ASSUME r = r1 PROVE FALSE
  BY DEF r, r1
<1>4. m * (q1 - q) = k - n
  BY <1>1, <1>2, <1>3, SMT
<1>5. q1 - q >= 1
  <2>1. SUFFICES ASSUME q1 - q <= 0 PROVE FALSE
    BY <1>1, <1>2, SMT
  <2>2. m * (q1 - q) <= 0
    BY <1>1, <1>2, <2>1, SMT
  <2>. QED BY <1>4, <2>2, SMT
<1>6. m * (q1 - q) >= m
  BY <1>1, <1>2, <1>5, SMT
<1>. QED
  BY <1>4, <1>6, SMT

-----------------------------------------------------------------------------
(* A set of natural numbers has a smallest member.  Unlike the theorems of *)
(* NaturalsInduction this is first order: the property is a set.           *)
LEMMA LeastNumber == ASSUME NEW T, T \subseteq Nat, T # {} PROVE \E x \in T : \A y \in T : x <= y
<1>. DEFINE R == OpToRel(<, Nat)
<1>1. IsWellFoundedOn(R, Nat)
  BY NatLessThanWellFounded
<1>2. \A x, y \in Nat : y < x => <<y, x>> \in R
  BY DEF OpToRel
<1>. HIDE DEF R
<1>3. PICK x \in T : \A y \in T : ~(<<y, x>> \in R)
  BY <1>1, WFMin
<1>4. \A y \in T : ~(y < x)
  BY <1>2, <1>3
<1>. QED
  BY <1>4

(* A set of natural numbers that has 0 and the successors of its members   *)
(* has them all.                                                           *)
LEMMA Induction ==
  ASSUME NEW T, T \subseteq Nat, 0 \in T, \A n \in T : n + 1 \in T
  PROVE  T = Nat
<1>. SUFFICES ASSUME Nat \ T # {} PROVE FALSE
  OBVIOUS
<1>1. PICK x \in Nat \ T : \A y \in Nat \ T : x <= y
  BY LeastNumber
<1>2. x # 0 /\ x \in Nat
  OBVIOUS
<1>3. x - 1 \in Nat /\ ~(x <= x - 1) /\ (x - 1) + 1 = x
  BY <1>2
<1>4. x - 1 \in T
  BY <1>1, <1>3
<1>5. x \in T
  BY <1>3, <1>4
<1>. QED
  BY <1>1, <1>5

(* Sums up to n are defined, and are natural numbers. *)
LEMMA SumExists ==
  ASSUME NEW n \in Nat, NEW c \in [1 .. n -> Nat]
  PROVE  \E g \in [0 .. n -> Nat] : g = [i \in 0 .. n |-> IF i = 0 THEN 0 ELSE g[i - 1] + c[i]]
<1>. DEFINE SumTo(m, g) == \A i \in 0 .. m : g[i] = IF i = 0 THEN 0 ELSE g[i - 1] + c[i]
            Defined(m) == \E g \in [0 .. m -> Nat] : SumTo(m, g)
            T == {m \in Nat : m <= n => Defined(m)}
<1>1. Defined(0)
  <2>. DEFINE g == [i \in 0 .. 0 |-> 0]
  <2>1. g \in [0 .. 0 -> Nat] /\ SumTo(0, g)
    OBVIOUS
  <2>. QED BY <2>1
<1>2. ASSUME NEW m \in Nat, m + 1 <= n, Defined(m) PROVE Defined(m + 1)
  <2>1. PICK g \in [0 .. m -> Nat] : SumTo(m, g)
    BY <1>2
  <2>. DEFINE h == [i \in 0 .. m + 1 |-> IF i = m + 1 THEN g[m] + c[m + 1] ELSE g[i]]
  <2>2. g[m] \in Nat /\ c[m + 1] \in Nat
    BY <1>2
  <2>3. h \in [0 .. m + 1 -> Nat]
    BY <2>2
  <2>4. ASSUME NEW i \in 0 .. m + 1 PROVE h[i] = IF i = 0 THEN 0 ELSE h[i - 1] + c[i]
    <3>1. CASE i = m + 1
      <4>1. i # 0 /\ i - 1 = m /\ m \in 0 .. m + 1 /\ m # m + 1
        BY <3>1
      <4>. QED BY <3>1, <4>1
    <3>2. CASE i # m + 1
      <4>1. i \in 0 .. m /\ (i # 0 => i - 1 \in 0 .. m /\ i - 1 # m + 1)
        BY <3>2
      <4>. QED BY <2>1, <3>2, <4>1
    <3>. QED BY <3>1, <3>2
  <2>5. SumTo(m + 1, h)
    BY <2>4
  <2>. HIDE DEF h, SumTo
  <2>. QED BY <2>3, <2>5
<1>. HIDE DEF Defined
<1>3. T = Nat
  <2>1. T \subseteq Nat /\ 0 \in T
    BY <1>1
  <2>2. ASSUME NEW m \in T PROVE m + 1 \in T
    BY <1>2
  <2>. HIDE DEF T
  <2>. QED BY <2>1, <2>2, Induction
<1>4. Defined(n)
  BY <1>3
<1>. QED
  BY <1>4 DEF Defined

(* A natural number has an integer square root. *)
LEMMA RootExists == ASSUME NEW m \in Nat PROVE \E r \in 0 .. m : r * r <= m /\ (r + 1) * (r + 1) > m
<1>. DEFINE T == {r \in Nat : (r + 1) * (r + 1) > m}
<1>1. m \in T
  <2>1. (m + 1) * (m + 1) = m * m + 2 * m + 1 /\ m * m \in Nat
    BY SMT
  <2>. QED BY <2>1
<1>2. PICK r \in T : \A s \in T : r <= s
  <2>1. T # {} /\ T \subseteq Nat
    BY <1>1
  <2>. HIDE DEF T
  <2>. QED BY <2>1, LeastNumber
<1>3. r \in Nat /\ r <= m /\ (r + 1) * (r + 1) > m
  BY <1>1, <1>2
<1>4. r * r <= m
  <2>1. CASE r = 0
    <3>1. 0 * 0 = 0
      BY SMT
    <3>. QED BY <2>1, <3>1
  <2>2. CASE r # 0
    <3>1. r - 1 \in Nat /\ ~(r <= r - 1) /\ (r - 1) + 1 = r
      BY <1>3, <2>2
    <3>2. r - 1 \notin T
      BY <1>2, <3>1
    <3>3. ~(((r - 1) + 1) * ((r - 1) + 1) > m)
      BY <3>1, <3>2
    <3>4. ~(r * r > m) /\ r * r \in Int
      BY <1>3, <3>1, <3>3
    <3>. QED BY <3>4
  <2>. QED BY <2>1, <2>2
<1>. QED
  BY <1>3, <1>4
=============================================================================
