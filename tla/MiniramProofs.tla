---------------------------- MODULE MiniramProofs ----------------------------
(***************************************************************************)
(* Proofs about Miniram, for every capacity, width of the mantissa, set of *)
(* requests and growth of the node table: the size classes are those of    *)
(* their definition; the node stack, the chain of neighbours, the lists of *)
(* the bins and the counters agree after every call; no check of the class *)
(* ever fires, live allocations are neither moved nor overlapped, and seen *)
(* by its clients the class is the abstract allocator.  About              *)
(* MiniramDefrag: the first clear(), defragment() or resize() leaves and   *)
(* reports what its clients need to find their data again.                 *)
(***************************************************************************)
EXTENDS MiniramDefrag, FiniteSetTheorems, TLAPS

-----------------------------------------------------------------------------
(* Numbers.  The induction theorems of the library cannot be instantiated  *)
(* here; that a set of naturals has a least element follows from its       *)
(* well-founded order of finite sets, and replaces them.                   *)

LEMMA NatMin ==
    ASSUME NEW A \in SUBSET Nat, A # {}
    PROVE  \E x \in A : \A y \in A : x <= y
<1> DEFINE R == StrictSubsetOrdering(Nat)
           T == {0 .. x : x \in A}
<1>1. T \subseteq FiniteSubsetsOf(Nat) /\ T # {}
  <2>1. \A x \in Nat : IsFiniteSet(0 .. x) /\ 0 .. x \subseteq Nat
    BY FS_Interval
  <2> QED BY <2>1 DEF FiniteSubsetsOf
<1>2. IsWellFoundedOn(R, FiniteSubsetsOf(Nat))
  BY FS_StrictSubsetOrderingWellFounded
<1>3. PICK t \in T : \A u \in T : <<u, t>> \notin R
  <2> HIDE DEF R, T
  <2> QED BY <1>1, <1>2, WFMin
<1>4. PICK x \in A : t = 0 .. x
  OBVIOUS
<1>5. ASSUME NEW y \in A, y < x PROVE FALSE
  <2>1. 0 .. y \in T /\ 0 .. y \subseteq 0 .. x /\ 0 .. y # 0 .. x
    <3>1. x \in 0 .. x /\ x \notin 0 .. y
      BY <1>5
    <3> QED BY <1>5, <3>1
  <2>2. 0 .. y \in SUBSET Nat /\ 0 .. x \in SUBSET Nat
    OBVIOUS
  <2>3. <<0 .. y, t>> \in R
    BY <1>4, <2>1, <2>2 DEF StrictSubsetOrdering
  <2> QED BY <1>3, <2>1, <2>3
<1>6. \A y \in A : x <= y
  BY <1>5
<1> QED BY <1>6

(* Powers of two; 2 ^ n is how many subsets 1 .. n has.                   *)
Pow(n) == 2 ^ n

LEMMA PowCard == ASSUME NEW n \in Nat PROVE Cardinality(SUBSET (1 .. n)) = Pow(n) /\ Pow(n) \in Nat
<1>1. IsFiniteSet(1 .. n) /\ Cardinality(1 .. n) = n
  BY FS_Interval
<1>2. Cardinality(SUBSET (1 .. n)) = 2 ^ Cardinality(1 .. n) /\ IsFiniteSet(SUBSET (1 .. n))
  BY <1>1, FS_SUBSET
<1>3. Cardinality(SUBSET (1 .. n)) = Pow(n)
  BY <1>1, <1>2, Zenon DEF Pow
<1>4. Cardinality(SUBSET (1 .. n)) \in Nat
  BY <1>2, FS_CardinalityType
<1> QED BY <1>3, <1>4

LEMMA PowPositive == ASSUME NEW n \in Nat PROVE Pow(n) \in Nat /\ Pow(n) >= 1
<1>1. Pow(n) \in Nat /\ Cardinality(SUBSET (1 .. n)) = Pow(n)
  BY PowCard
<1>2. IsFiniteSet(SUBSET (1 .. n)) /\ {} \in SUBSET (1 .. n)
  <2>1. IsFiniteSet(1 .. n)
    BY FS_Interval
  <2> QED BY <2>1, FS_SUBSET
<1>3. Cardinality(SUBSET (1 .. n)) # 0
  BY <1>2, FS_EmptySet
<1> QED BY <1>1, <1>3

LEMMA PowZero == Pow(0) = 1
BY DEF Pow

LEMMA PowDouble == ASSUME NEW n \in Nat PROVE Pow(n + 1) = 2 * Pow(n)
<1> DEFINE A == SUBSET (1 .. n)
           Ext(T) == T \cup {n + 1}
           B == {Ext(T) : T \in A}
           f == [T \in A |-> Ext(T)]
<1>1. \A T \in A : n + 1 \notin T
  OBVIOUS
<1>2. 1 .. n + 1 = (1 .. n) \cup {n + 1}
  OBVIOUS
<1>3. SUBSET (1 .. n + 1) = A \cup B
  <2>1. ASSUME NEW T \in SUBSET (1 .. n + 1) PROVE T \in A \cup B
    <3>1. CASE n + 1 \in T
      <4>1. T \ {n + 1} \in A /\ Ext(T \ {n + 1}) = T
        BY <1>2, <3>1
      <4> QED BY <4>1
    <3>2. CASE n + 1 \notin T
      BY <1>2, <3>2
    <3> QED BY <3>1, <3>2
  <2>2. \A T \in A : T \in SUBSET (1 .. n + 1) /\ Ext(T) \in SUBSET (1 .. n + 1)
    BY <1>2
  <2>3. ASSUME NEW X \in A \cup B PROVE X \in SUBSET (1 .. n + 1)
    <3>1. CASE X \in A
      BY <2>2, <3>1
    <3>2. CASE X \in B
      <4>1. PICK T \in A : X = Ext(T)
        BY <3>2
      <4> QED BY <2>2, <4>1
    <3> QED BY <2>3, <3>1, <3>2
  <2>4. SUBSET (1 .. n + 1) \subseteq A \cup B
    <3> HIDE DEF A, B
    <3> QED BY <2>1
  <2> HIDE DEF A, B
  <2> QED BY <2>3, <2>4
<1>4. A \cap B = {}
  BY <1>1
<1>5. IsFiniteSet(A) /\ Cardinality(A) = Pow(n)
  <2>1. IsFiniteSet(1 .. n)
    BY FS_Interval
  <2> QED BY <2>1, FS_SUBSET, PowCard
<1>6. f \in Bijection(A, B)
  <2>1. f \in [A -> B]
    OBVIOUS
  <2>2. \A S, T \in A : f[S] = f[T] => S = T
    <3> SUFFICES ASSUME NEW S \in A, NEW T \in A, Ext(S) = Ext(T) PROVE S = T
      OBVIOUS
    <3>1. Ext(S) \ {n + 1} = S /\ Ext(T) \ {n + 1} = T
      BY <1>1
    <3> QED BY <3>1
  <2>3. \A y \in B : \E T \in A : f[T] = y
    OBVIOUS
  <2> HIDE DEF A, B, f
  <2> QED BY <2>1, <2>2, <2>3 DEF Bijection, Injection, Surjection, IsInjective
<1>7. IsFiniteSet(B) /\ Cardinality(B) = Pow(n)
  <2> HIDE DEF A, B, f
  <2>1. ExistsBijection(A, B)
    BY <1>6 DEF ExistsBijection
  <2> QED BY <1>5, <2>1, FS_Bijection
<1>8. Cardinality(A \cup B) = Pow(n) + Pow(n)
  <2> HIDE DEF A, B
  <2>1. Cardinality(A \cup B) = Cardinality(A) + Cardinality(B) - Cardinality(A \cap B)
    BY <1>5, <1>7, FS_Union
  <2>2. Cardinality(A \cap B) = 0
    BY <1>4, FS_EmptySet
  <2> QED BY <1>5, <1>7, <2>1, <2>2, PowPositive
<1>9. Cardinality(SUBSET (1 .. n + 1)) = Pow(n + 1)
  <2>1. n + 1 \in Nat
    OBVIOUS
  <2> QED BY <2>1, PowCard
<1> HIDE DEF A, B
<1>10. Cardinality(A \cup B) = Pow(n + 1)
  BY <1>3, <1>9, Zenon
<1>11. Pow(n) \in Nat
  BY PowPositive
<1> QED BY <1>8, <1>10, <1>11

LEMMA PowSum ==
    ASSUME NEW a \in Nat, NEW b \in Nat
    PROVE  Pow(a + b) = Pow(a) * Pow(b)
<1> DEFINE A == {k \in Nat : Pow(a + k) # Pow(a) * Pow(k)}
<1>1. ASSUME A # {} PROVE FALSE
  <2>1. PICK k \in A : \A j \in A : k <= j
    BY <1>1, NatMin
  <2>2. CASE k = 0
    BY <2>2, PowZero, PowPositive
  <2>3. CASE k # 0
    <3>1. k - 1 \in Nat /\ a + (k - 1) \in Nat /\ (k - 1) + 1 = k /\ (a + (k - 1)) + 1 = a + k
      BY <2>3
    <3>2. Pow(a + (k - 1)) = Pow(a) * Pow(k - 1)
      BY <2>1, <3>1
    <3>3. Pow(k) = 2 * Pow(k - 1)
      BY <3>1, PowDouble
    <3>4. Pow(a + k) = 2 * Pow(a + (k - 1))
      BY <3>1, PowDouble
    <3>5. Pow(a) \in Nat /\ Pow(k - 1) \in Nat
      BY <3>1, PowPositive
    <3>6. \A x, y \in Nat : 2 * (x * y) = x * (2 * y)
      OBVIOUS
    <3>7. Pow(a + k) = Pow(a) * Pow(k)
      BY <3>2, <3>3, <3>4, <3>5, <3>6
    <3> QED BY <2>1, <3>7
  <2> QED BY <2>2, <2>3
<1> QED BY <1>1

LEMMA Times ==
    ASSUME NEW x \in Nat, NEW y \in Nat, NEW z \in Nat, x <= y
    PROVE  x * z <= y * z
OBVIOUS

LEMMA PowGrows ==
    ASSUME NEW a \in Nat, NEW b \in Nat, a < b
    PROVE  2 * Pow(a) <= Pow(b)
<1>1. b - (a + 1) \in Nat /\ a + 1 \in Nat /\ (b - (a + 1)) + (a + 1) = b
  OBVIOUS
<1>2. Pow(b) = Pow(b - (a + 1)) * Pow(a + 1)
  BY <1>1, PowSum
<1>3. Pow(a + 1) = 2 * Pow(a)
  BY PowDouble
<1>4. Pow(b - (a + 1)) \in Nat /\ 1 <= Pow(b - (a + 1)) /\ 2 * Pow(a) \in Nat
  BY <1>1, PowPositive
<1>5. 1 * (2 * Pow(a)) <= Pow(b - (a + 1)) * (2 * Pow(a))
  BY <1>4, Times
<1> QED BY <1>2, <1>3, <1>4, <1>5

LEMMA PowAbove == ASSUME NEW n \in Nat PROVE n < Pow(n)
<1> DEFINE A == {k \in Nat : ~ (k < Pow(k))}
<1>1. ASSUME A # {} PROVE FALSE
  <2>1. PICK k \in A : \A j \in A : k <= j
    BY <1>1, NatMin
  <2>2. k # 0
    BY <2>1, PowZero
  <2>3. k - 1 \in Nat /\ (k - 1) + 1 = k
    BY <2>2
  <2>4. k - 1 < Pow(k - 1)
    BY <2>1, <2>3
  <2>5. Pow(k) = 2 * Pow(k - 1) /\ Pow(k - 1) \in Nat
    BY <2>3, PowDouble, PowPositive
  <2> QED BY <2>1, <2>3, <2>4, <2>5
<1> QED BY <1>1

LEMMA DivMod ==
    ASSUME NEW n \in Nat, NEW p \in Nat, p >= 1
    PROVE  /\ n \div p \in Nat /\ n % p \in Nat /\ n % p < p
           /\ n = (n \div p) * p + (n % p)
OBVIOUS

LEMMA ModOnce ==
    ASSUME NEW m \in Nat, NEW q \in Nat, m >= 1, m <= q, q < 2 * m
    PROVE  q % m = q - m /\ q \div m = 1
<1>1. /\ q \div m \in Nat /\ q % m \in Nat /\ q % m < m /\ q = (q \div m) * m + (q % m)
  BY DivMod
<1>2. q \div m # 0
  BY <1>1
<1>3. ASSUME q \div m >= 2 PROVE FALSE
  <2>1. 2 * m <= (q \div m) * m
    BY <1>1, <1>3, Times
  <2> QED BY <1>1, <2>1
<1>4. q \div m = 1
  BY <1>1, <1>2, <1>3
<1> QED BY <1>1, <1>4

-----------------------------------------------------------------------------
(* The size classes.                                                       *)

LEMMA Mantissa == MantissaValue = Pow(MantissaBits) /\ MantissaValue \in Nat /\ MantissaValue >= 1
<1>1. MantissaBits \in Nat
  BY MantissaAssumption
<1>2. MantissaValue = Pow(MantissaBits)
  BY Zenon DEF MantissaValue, Pow
<1> QED BY <1>1, <1>2, PowPositive

LEMMA HighestBitIs ==
    ASSUME NEW n \in Nat, n >= 1
    PROVE  HighestBit(n) \in Nat /\ Pow(HighestBit(n)) <= n /\ n < 2 * Pow(HighestBit(n))
<1> DEFINE A == {b \in Nat : n < Pow(b + 1)}
<1>1. n \in A
  BY PowAbove, PowDouble, PowPositive
<1>2. PICK b \in A : \A c \in A : b <= c
  BY <1>1, NatMin
<1>3. Pow(b) <= n
  <2>1. CASE b = 0
    BY <2>1, PowZero
  <2>2. CASE b # 0
    <3>1. b - 1 \in Nat /\ b - 1 \notin A /\ (b - 1) + 1 = b
      BY <1>2, <2>2
    <3> QED BY <3>1, PowPositive
  <2> QED BY <2>1, <2>2
<1>4. b \in 0 .. n
  BY <1>1, <1>2
<1>5. \E c \in 0 .. n : Pow(c) <= n /\ n < Pow(c + 1)
  BY <1>2, <1>3, <1>4
<1>6. HighestBit(n) = CHOOSE c \in 0 .. n : Pow(c) <= n /\ n < Pow(c + 1)
  BY Zenon DEF HighestBit, Pow
<1> HIDE DEF A
<1>7. HighestBit(n) \in 0 .. n /\ Pow(HighestBit(n)) <= n /\ n < Pow(HighestBit(n) + 1)
  BY <1>5, <1>6
<1> QED BY <1>7, PowDouble

(* A size from MantissaValue on is q, of one bit more than the mantissa,   *)
(* shifted to the left e times, and what the shift loses.                  *)
Scaled(n, e, q) ==
    /\ e \in Nat /\ q \in Nat /\ MantissaValue <= q /\ q < 2 * MantissaValue
    /\ q * Pow(e) <= n /\ n < (q + 1) * Pow(e)

LEMMA ClassForm ==
    ASSUME NEW n \in Nat, n >= MantissaValue
    PROVE  \E e, q \in Nat :
             /\ Scaled(n, e, q) /\ e + MantissaBits = HighestBit(n)
             /\ FloorToFloat(n) = e * MantissaValue + q
             /\ CeilToFloat(n) = e * MantissaValue + q + (IF n = q * Pow(e) THEN 0 ELSE 1)
<1> DEFINE h == HighestBit(n)
           e == h - MantissaBits
           M == MantissaValue
           P == Pow(e)
           q == n \div P
<1>1. /\ M \in Nat /\ M >= 1 /\ M = Pow(MantissaBits) /\ MantissaBits \in Nat /\ n >= 1
      /\ h \in Nat /\ Pow(h) <= n /\ n < 2 * Pow(h)
  BY Mantissa, MantissaAssumption, HighestBitIs
<1> HIDE DEF h, M
<1>2. e \in Nat
  <2>1. ASSUME h < MantissaBits PROVE FALSE
    <3>1. 2 * Pow(h) <= Pow(MantissaBits)
      BY <1>1, <2>1, PowGrows
    <3>2. Pow(h) \in Nat
      BY <1>1, PowPositive
    <3>3. n >= M
      BY DEF M
    <3> QED BY <1>1, <3>1, <3>2, <3>3
  <2> QED BY <1>1, <2>1
<1>3. Pow(h) = M * P /\ P \in Nat /\ P >= 1
  <2>1. MantissaBits + e = h
    BY <1>1
  <2> HIDE DEF e
  <2>2. Pow(MantissaBits + e) = Pow(MantissaBits) * Pow(e)
    BY <1>1, <1>2, PowSum
  <2> QED BY <1>1, <1>2, <2>1, <2>2, PowPositive
<1> HIDE DEF e, P
<1>4. q \in Nat /\ n % P \in Nat /\ n % P < P /\ n = q * P + (n % P)
  BY <1>3, DivMod
<1> HIDE DEF q
<1>5. q * P <= n /\ n < (q + 1) * P /\ (n % P # 0 <=> n # q * P)
  <2>1. q * P \in Nat /\ (q + 1) * P = q * P + P
    BY <1>3, <1>4
  <2> QED BY <1>3, <1>4, <2>1
<1>6. M <= q
  <2>1. ASSUME q + 1 <= M PROVE FALSE
    <3>1. (q + 1) * P <= M * P
      BY <1>1, <1>3, <1>4, <2>1, Times
    <3>2. M * P \in Nat /\ (q + 1) * P \in Nat
      BY <1>1, <1>3, <1>4
    <3> QED BY <1>1, <1>3, <1>5, <3>1, <3>2
  <2> QED BY <1>1, <1>4, <2>1
<1>7. q < 2 * M
  <2>1. ASSUME 2 * M <= q PROVE FALSE
    <3>1. (2 * M) * P <= q * P /\ 2 * M \in Nat
      BY <1>1, <1>3, <1>4, <2>1, Times
    <3>2. (2 * M) * P = 2 * (M * P)
      BY <1>1, <1>3
    <3>3. M * P \in Nat /\ q * P \in Nat
      BY <1>1, <1>3, <1>4
    <3> QED BY <1>1, <1>3, <1>5, <3>1, <3>2, <3>3
  <2> QED BY <1>1, <1>4, <2>1
<1>8. q % M = q - M
  BY <1>1, <1>4, <1>6, <1>7, ModOnce
<1>9. /\ FloorToFloat(n) = (e + 1) * M + (q % M)
      /\ CeilToFloat(n) = FloorToFloat(n) + (IF n % P # 0 THEN 1 ELSE 0)
  <2>1. ~ (n < MantissaValue)
    BY Mantissa
  <2>2. Shift(n) = e
    BY Zenon DEF Shift, e, h
  <2>3. 2 ^ Shift(n) = P
    BY <2>2, Zenon DEF P, Pow
  <2> QED BY <2>1, <2>2, <2>3, Zenon DEF FloorToFloat, CeilToFloat, M, q
<1>10. (e + 1) * M + (q - M) = e * M + q
  BY <1>1, <1>2, <1>4
<1>11. FloorToFloat(n) = e * M + q
  BY <1>8, <1>9, <1>10
<1>12. CeilToFloat(n) = e * M + q + (IF n = q * P THEN 0 ELSE 1)
  BY <1>5, <1>9, <1>11
<1>13. Scaled(n, e, q)
  BY <1>2, <1>4, <1>5, <1>6, <1>7 DEF Scaled, M, P
<1>14. e + MantissaBits = HighestBit(n)
  BY <1>1 DEF e, h
<1> QED BY <1>2, <1>4, <1>11, <1>12, <1>13, <1>14 DEF M, P

LEMMA SmallClass ==
    ASSUME NEW n \in Nat, n < MantissaValue
    PROVE  FloorToFloat(n) = n /\ CeilToFloat(n) = n
BY DEF FloorToFloat, CeilToFloat

(* The larger number has the larger exponent, or the larger mantissa. *)
LEMMA ScaledOrder ==
    ASSUME NEW s \in Nat, NEW n \in Nat, s <= n, NEW e, NEW q, NEW d, NEW p,
           Scaled(s, e, q), Scaled(n, d, p)
    PROVE  e < d \/ (e = d /\ q <= p)
<1> DEFINE M == MantissaValue
           E == Pow(e)
           D == Pow(d)
<1>1. /\ e \in Nat /\ q \in Nat /\ M <= q /\ q < 2 * M /\ q * E <= s
      /\ d \in Nat /\ p \in Nat /\ M <= p /\ p < 2 * M /\ n < (p + 1) * D
  BY DEF Scaled
<1>2. M \in Nat
  BY Mantissa
<1>3. E \in Nat /\ D \in Nat
  BY <1>1, PowPositive
<1>4. q * E \in Nat /\ (p + 1) * D \in Nat
  BY <1>1, <1>3
<1>5. ASSUME d < e PROVE FALSE
  <2>1. 2 * D <= E
    BY <1>1, <1>5, PowGrows
  <2> HIDE DEF M, E, D
  <2>2. (p + 1) * D <= (2 * M) * D
    <3>1. p + 1 \in Nat /\ 2 * M \in Nat /\ p + 1 <= 2 * M
      BY <1>1, <1>2
    <3> QED BY <3>1, <1>3, Times
  <2>3. (2 * M) * D = M * (2 * D) /\ M * (2 * D) = (2 * D) * M /\ E * M = M * E
    BY <1>2, <1>3
  <2>4. (2 * D) * M <= E * M
    <3>1. 2 * D \in Nat
      BY <1>3
    <3> QED BY <3>1, <1>2, <1>3, <2>1, Times
  <2>5. M * E <= q * E
    BY <1>1, <1>2, <1>3, Times
  <2>6. M * E \in Nat /\ (2 * M) * D \in Nat
    BY <1>2, <1>3
  <2> QED BY <1>1, <1>4, <2>2, <2>3, <2>4, <2>5, <2>6
<1>6. ASSUME e = d, p < q PROVE FALSE
  <2>1. (p + 1) * D <= q * D
    <3>1. p + 1 \in Nat /\ p + 1 <= q
      BY <1>1, <1>6
    <3> HIDE DEF D
    <3> QED BY <3>1, <1>1, <1>3, Times
  <2> HIDE DEF M
  <2> QED BY <1>1, <1>4, <1>6, <2>1
<1> HIDE DEF M
<1> QED BY <1>1, <1>5, <1>6

LEMMA ClassBelow ==
    ASSUME NEW e \in Nat, NEW q \in Nat, NEW d \in Nat, NEW p \in Nat, NEW m \in Nat,
           e < d, q < 2 * m, m <= p
    PROVE  e * m + q < d * m + p
<1>1. (e + 1) * m <= d * m
  <2>1. e + 1 \in Nat /\ e + 1 <= d
    OBVIOUS
  <2> QED BY <2>1, Times
<1>2. (e + 1) * m = e * m + m /\ e * m \in Nat /\ d * m \in Nat
  OBVIOUS
<1> QED BY <1>1, <1>2

(* Rounding down and up. *)
LEMMA ClassType ==
    ASSUME NEW n \in Nat
    PROVE  /\ FloorToFloat(n) \in Nat /\ CeilToFloat(n) \in Nat
           /\ FloorToFloat(n) <= CeilToFloat(n) /\ CeilToFloat(n) <= FloorToFloat(n) + 1
<1>1. CASE n < MantissaValue
  BY <1>1, SmallClass
<1>2. CASE ~ (n < MantissaValue)
  <2>1. PICK e \in Nat, q \in Nat :
          /\ FloorToFloat(n) = e * MantissaValue + q
          /\ CeilToFloat(n) = e * MantissaValue + q + (IF n = q * Pow(e) THEN 0 ELSE 1)
    BY <1>2, Mantissa, ClassForm
  <2>2. e * MantissaValue + q \in Nat
    BY Mantissa
  <2> QED BY <2>1, <2>2
<1> QED BY <1>1, <1>2

(* A request for more than s is looked up above the class of s. *)
LEMMA ClassesApart ==
    ASSUME NEW s \in Nat, NEW n \in Nat, s < n
    PROVE  FloorToFloat(s) < CeilToFloat(n) /\ FloorToFloat(s) <= FloorToFloat(n)
<1> DEFINE M == MantissaValue
<1>0. M \in Nat
  BY Mantissa
<1>1. CASE n < M
  BY <1>0, <1>1, SmallClass
<1>2. CASE s < M /\ M <= n
  <2>1. PICK e \in Nat, q \in Nat : Scaled(n, e, q) /\ FloorToFloat(n) = e * M + q
    BY <1>2, ClassForm
  <2>2. q >= M
    BY <2>1 DEF Scaled
  <2> HIDE DEF M
  <2>3. e * M \in Nat
    BY <1>0
  <2>4. s < FloorToFloat(n)
    BY <1>0, <1>2, <2>1, <2>2, <2>3
  <2>5. FloorToFloat(s) = s
    BY <1>2, SmallClass DEF M
  <2> QED BY <2>4, <2>5, ClassType
<1>3. CASE M <= s
  <2>1. PICK e \in Nat, q \in Nat : Scaled(s, e, q) /\ FloorToFloat(s) = e * M + q
    BY <1>3, ClassForm
  <2>2. M <= n
    BY <1>0, <1>3
  <2>3. PICK d \in Nat, p \in Nat :
          /\ Scaled(n, d, p) /\ FloorToFloat(n) = d * M + p
          /\ CeilToFloat(n) = d * M + p + (IF n = p * Pow(d) THEN 0 ELSE 1)
    BY <2>2, ClassForm
  <2>4. e < d \/ (e = d /\ q <= p)
    <3>1. Scaled(s, e, q) /\ Scaled(n, d, p) /\ s <= n
      BY <2>1, <2>3
    <3> QED BY <3>1, ScaledOrder
  <2>5. q < 2 * M /\ M <= p /\ q * Pow(e) <= s
    BY <2>1, <2>3 DEF Scaled
  <2> HIDE DEF M
  <2>6. CASE e < d
    <3>1. e * M + q < d * M + p
      BY <1>0, <2>5, <2>6, ClassBelow
    <3>2. FloorToFloat(n) <= CeilToFloat(n) /\ CeilToFloat(n) \in Nat
      BY ClassType
    <3>3. e * M + q \in Nat /\ d * M + p \in Nat
      BY <1>0
    <3> QED BY <2>1, <2>3, <3>1, <3>2, <3>3
  <2>7. CASE e = d /\ q < p
    <3>1. e * M + q < d * M + p
      <4>1. e * M \in Nat
        BY <1>0
      <4> QED BY <2>7, <4>1
    <3> QED BY <2>1, <2>3, <3>1, ClassType
  <2>8. CASE e = d /\ q = p
    <3>1. n # p * Pow(d)
      <4>1. p * Pow(d) \in Nat
        BY PowPositive
      <4> QED BY <2>5, <2>8, <4>1
    <3>2. e * M + q \in Nat
      BY <1>0
    <3> QED BY <2>1, <2>3, <2>8, <3>1, <3>2
  <2> QED BY <2>4, <2>6, <2>7, <2>8
<1> QED BY <1>0, <1>1, <1>2, <1>3

(* What SearchBin and the size of the bin array rest on. *)
LEMMA ClassHolds ==
    ASSUME NEW s \in Nat, NEW n \in Nat, CeilToFloat(n) <= FloorToFloat(s)
    PROVE  n <= s
BY ClassesApart, ClassType

LEMMA ClassInBins ==
    ASSUME NEW n \in 0 .. Capacity
    PROVE  FloorToFloat(n) \in Bins
<1>1. Capacity \in Nat /\ NumLeafBins \in Nat /\ NumLeafBins > CeilToFloat(Capacity)
  BY MiniramAssumption
<1>2. FloorToFloat(n) <= FloorToFloat(Capacity)
  <2>1. n = Capacity \/ n < Capacity
    BY <1>1
  <2>2. n \in Nat
    BY <1>1
  <2>3. n < Capacity => FloorToFloat(n) <= FloorToFloat(Capacity)
    BY <1>1, <2>2, ClassesApart
  <2>4. FloorToFloat(Capacity) \in Nat
    BY <1>1, ClassType
  <2> QED BY <2>1, <2>3, <2>4
<1>3. /\ FloorToFloat(n) \in Nat /\ FloorToFloat(Capacity) \in Nat
      /\ FloorToFloat(Capacity) <= CeilToFloat(Capacity) /\ CeilToFloat(Capacity) \in Nat
  BY <1>1, ClassType
<1> QED BY <1>1, <1>2, <1>3 DEF Bins

(* to_uint() of a class from MantissaValue on. *)
LEMMA ToUintForm ==
    ASSUME NEW b \in Nat, b >= MantissaValue
    PROVE  \E e, q \in Nat :
             /\ b = e * MantissaValue + q /\ MantissaValue <= q /\ q < 2 * MantissaValue
             /\ ToUint(b) = q * Pow(e)
<1> DEFINE M == MantissaValue
           d == b \div M
           r == b % M
           e == d - 1
           q == r + M
<1>1. M \in Nat /\ M >= 1 /\ b >= M
  BY Mantissa
<1>2. d \in Nat /\ r \in Nat /\ r < M /\ b = d * M + r
  BY <1>1, DivMod
<1>3. ToUint(b) = q * Pow(e)
  <2>1. ~ (b < MantissaValue)
    BY <1>1
  <2> QED BY <2>1, Zenon DEF ToUint, Pow
<1> HIDE DEF d, r, M
<1>4. d # 0
  BY <1>1, <1>2
<1>5. e \in Nat /\ q \in Nat /\ M <= q /\ q < 2 * M
  BY <1>1, <1>2, <1>4
<1>6. b = e * M + q
  <2>1. d * M = (d - 1) * M + M
    BY <1>1, <1>2
  <2>2. (d - 1) * M \in Nat
    BY <1>1, <1>5
  <2> QED BY <1>1, <1>2, <2>1, <2>2
<1> QED BY <1>3, <1>5, <1>6 DEF M

(* The smallest size of a class is filed and looked up under it. *)
LEMMA ToUintClass ==
    ASSUME NEW b \in Nat
    PROVE  ToUint(b) \in Nat /\ FloorToFloat(ToUint(b)) = b /\ CeilToFloat(ToUint(b)) = b
<1> DEFINE M == MantissaValue
<1>1. M \in Nat /\ M >= 1
  BY Mantissa
<1>2. CASE b < M
  <2>1. ToUint(b) = b
    BY <1>2 DEF ToUint
  <2> QED BY <1>2, <2>1, SmallClass
<1>3. CASE ~ (b < M)
  <2>1. PICK e \in Nat, q \in Nat :
          b = e * M + q /\ M <= q /\ q < 2 * M /\ ToUint(b) = q * Pow(e)
    BY <1>1, <1>3, ToUintForm
  <2>2. Pow(e) \in Nat /\ Pow(e) >= 1
    BY PowPositive
  <2>3. q * Pow(e) \in Nat /\ (q + 1) * Pow(e) = q * Pow(e) + Pow(e)
    BY <2>2
  <2>4. q * 1 <= q * Pow(e) /\ q * 1 = q
    BY <2>2
  <2>5. Scaled(ToUint(b), e, q)
    <3> HIDE DEF M
    <3>1. ToUint(b) < (q + 1) * Pow(e)
      BY <2>1, <2>2, <2>3
    <3>2. q * Pow(e) <= ToUint(b)
      BY <2>1, <2>3
    <3> QED BY <2>1, <3>1, <3>2 DEF Scaled, M
  <2>6. ToUint(b) \in Nat /\ ToUint(b) >= M
    <3> HIDE DEF M
    <3> QED BY <1>1, <2>1, <2>3, <2>4
  <2>7. PICK d \in Nat, p \in Nat :
          /\ Scaled(ToUint(b), d, p) /\ FloorToFloat(ToUint(b)) = d * M + p
          /\ CeilToFloat(ToUint(b)) = d * M + p + (IF ToUint(b) = p * Pow(d) THEN 0 ELSE 1)
    BY <2>6, ClassForm
  <2>8. d = e /\ p = q
    <3>1. Scaled(ToUint(b), e, q) /\ Scaled(ToUint(b), d, p) /\ ToUint(b) <= ToUint(b)
      BY <2>5, <2>6, <2>7
    <3> HIDE DEF M
    <3>2. e < d \/ (e = d /\ q <= p)
      BY <2>6, <3>1, ScaledOrder
    <3>3. d < e \/ (d = e /\ p <= q)
      BY <2>6, <3>1, ScaledOrder
    <3> QED BY <3>2, <3>3
  <2> HIDE DEF M
  <2>9. e * M + q \in Nat
    BY <1>1
  <2> QED BY <2>1, <2>6, <2>7, <2>8, <2>9
<1> QED BY <1>2, <1>3

(* Rounding down is above exactly the classes whose smallest size is at    *)
(* most n, rounding up below exactly those whose smallest size suffices.   *)
LEMMA ClassGalois ==
    ASSUME NEW n \in Nat, NEW b \in Nat
    PROVE  /\ ToUint(b) <= n <=> b <= FloorToFloat(n)
           /\ ToUint(b) >= n <=> b >= CeilToFloat(n)
<1> DEFINE u == ToUint(b)
<1>1. u \in Nat /\ FloorToFloat(u) = b /\ CeilToFloat(u) = b
  BY ToUintClass
<1> HIDE DEF u
<1>2. /\ FloorToFloat(n) \in Nat /\ CeilToFloat(n) \in Nat
      /\ FloorToFloat(n) <= CeilToFloat(n)
  BY ClassType
<1>3. CASE u = n
  BY <1>1, <1>2, <1>3 DEF u
<1>4. CASE u < n
  <2>1. b < CeilToFloat(n) /\ b <= FloorToFloat(n)
    BY <1>1, <1>4, ClassesApart
  <2> QED BY <1>1, <1>2, <1>4, <2>1 DEF u
<1>5. CASE n < u
  <2>1. FloorToFloat(n) < b
    BY <1>1, <1>5, ClassesApart
  <2>2. CeilToFloat(n) <= FloorToFloat(n) + 1
    BY ClassType
  <2> QED BY <1>1, <1>2, <1>5, <2>1, <2>2 DEF u
<1> QED BY <1>1, <1>3, <1>4, <1>5

LEMMA ClassNear ==
    ASSUME NEW n \in Nat
    PROVE  FloorToFloat(n) \in ClassesAround(n) /\ CeilToFloat(n) \in ClassesAround(n)
<1> DEFINE M == MantissaValue
<1>1. M \in Nat /\ M >= 1 /\ MantissaBits \in Nat /\ MantissaBits >= 1
  BY Mantissa, MantissaAssumption
<1>2. CASE n < M
  BY <1>1, <1>2, SmallClass DEF ClassesAround
<1>3. CASE ~ (n < M)
  <2>1. PICK e \in Nat, q \in Nat :
          /\ Scaled(n, e, q) /\ e + MantissaBits = HighestBit(n)
          /\ FloorToFloat(n) = e * M + q
          /\ CeilToFloat(n) = e * M + q + (IF n = q * Pow(e) THEN 0 ELSE 1)
    BY <1>1, <1>3, ClassForm
  <2> DEFINE h == HighestBit(n)
  <2>2. q < 2 * M
    BY <2>1 DEF Scaled
  <2>3. h \in Nat /\ e + 2 <= h + 1
    BY <1>1, <2>1
  <2>4. ClassesAround(n) = 0 .. (h + 1) * M
    BY <1>3 DEF ClassesAround
  <2> HIDE DEF M, h
  <2>5. (e + 2) * M <= (h + 1) * M
    <3>1. e + 2 \in Nat /\ h + 1 \in Nat
      BY <2>3
    <3> QED BY <1>1, <2>3, <3>1, Times
  <2>6. (e + 2) * M = e * M + 2 * M /\ e * M \in Nat /\ (h + 1) * M \in Nat
    BY <1>1, <2>3
  <2>7. e * M + q + 1 <= (h + 1) * M
    BY <1>1, <2>2, <2>5, <2>6
  <2>8. FloorToFloat(n) \in 0 .. (h + 1) * M /\ CeilToFloat(n) \in 0 .. (h + 1) * M
    BY <2>1, <2>6, <2>7
  <2> QED BY <2>4, <2>8
<1> QED BY <1>2, <1>3

(* miniram.inl, floor_to_float() and ceil_to_float(): for every number and *)
(* every width of the mantissa the bit arithmetic gives the largest class  *)
(* whose smallest size is at most n, and the smallest class whose smallest *)
(* size is at least n.                                                     *)
THEOREM ClassesCorrect ==
    \A n \in Nat : /\ FloorToFloat(n) = LargestClassBelow(n)
                   /\ CeilToFloat(n) = SmallestClassAbove(n)
<1> SUFFICES ASSUME NEW n \in Nat
             PROVE  FloorToFloat(n) = LargestClassBelow(n) /\ CeilToFloat(n) = SmallestClassAbove(n)
  OBVIOUS
<1> DEFINE S == {b \in ClassesAround(n) : ToUint(b) <= n}
           T == {b \in ClassesAround(n) : ToUint(b) >= n}
           f == FloorToFloat(n)
           c == CeilToFloat(n)
<1>1. f \in Nat /\ c \in Nat /\ f \in ClassesAround(n) /\ c \in ClassesAround(n)
  BY ClassType, ClassNear
<1>2. ClassesAround(n) \subseteq Nat
  BY DEF ClassesAround
<1>3. f \in S /\ \A b \in S : f >= b
  BY <1>1, <1>2, ClassGalois
<1>4. c \in T /\ \A b \in T : c <= b
  BY <1>1, <1>2, ClassGalois
<1>5. S \subseteq Nat /\ T \subseteq Nat
  BY <1>2
<1> HIDE DEF S, T, f, c
<1>6. f = CHOOSE x \in S : \A y \in S : x >= y
  <2>1. \A x \in S : (\A y \in S : x >= y) => x = f
    BY <1>3, <1>5
  <2> QED BY <1>3, <2>1
<1>7. c = CHOOSE x \in T : \A y \in T : x =< y
  <2>1. \A x \in T : (\A y \in T : x =< y) => x = c
    BY <1>4, <1>5
  <2> QED BY <1>4, <2>1
<1> QED BY <1>6, <1>7, Zenon DEF S, T, f, c, LargestClassBelow, SmallestClassAbove, Max, Min

-----------------------------------------------------------------------------
(* The object: its type, and the stack of ids.  N is the number of nodes.  *)

Numbers(N) == 0 .. N - 1

Tables(N) == [Numbers(N) -> NodeRecord]

Objects(N) ==
    [node : Tables(N), freeNodes : [Numbers(N) -> Numbers(N)], ptr : 0 .. N,
     bin : [Bins -> Numbers(N) \cup {None}], leaf : SUBSET Bins, top : SUBSET Nat,
     free : Int, capacity : Nat, failed : BOOLEAN]

LEMMA NodesIs ==
    ASSUME NEW N \in Nat, NEW r \in Objects(N)
    PROVE  Nodes(r) = N /\ DOMAIN r.node = Numbers(N)
<1>1. DOMAIN r.node = 0 .. N - 1
  BY DEF Objects, Tables, Numbers
<1>2. Cardinality(0 .. N - 1) = N
  BY FS_Interval
<1> QED BY <1>1, <1>2 DEF Nodes, Numbers

(* The ids from the pointer on are different, and are those not in B.      *)
Stacked(r, N, B) ==
    /\ B \subseteq Numbers(N)
    /\ \A i, j \in r.ptr .. N - 1 : r.freeNodes[i] = r.freeNodes[j] => i = j
    /\ \A x \in Numbers(N) : x \in B <=> \A i \in r.ptr .. N - 1 : r.freeNodes[i] # x

(* While a node is off the stack there is room to push it.                 *)
LEMMA RoomToPush ==
    ASSUME NEW N \in Nat, NEW r \in Objects(N), NEW B, Stacked(r, N, B), NEW id \in B
    PROVE  r.ptr > 0
<1> SUFFICES ASSUME r.ptr = 0 PROVE FALSE
  BY DEF Objects
<1> DEFINE S == Numbers(N)
           f == r.freeNodes
<1>1. f \in [S -> S] /\ r.ptr .. N - 1 = S
  BY DEF Objects, Numbers
<1>2. IsFiniteSet(S)
  BY FS_Interval DEF Numbers
<1> HIDE DEF S
<1>3. f \in Injection(S, S)
  BY <1>1 DEF Stacked, Injection, IsInjective
<1>4. f \in Surjection(S, S)
  <2> HIDE DEF f
  <2> QED BY <1>2, <1>3, FS_Injection
<1>5. id \in S /\ \A i \in S : f[i] # id
  BY <1>1 DEF Stacked, S
<1> QED BY <1>4, <1>5 DEF Surjection

LEMMA ObjectSet ==
    ASSUME NEW N \in Nat, NEW r \in Objects(N)
    PROVE  /\ \A v \in Tables(N) : [r EXCEPT !.node = v] \in Objects(N)
           /\ \A v \in [Numbers(N) -> Numbers(N)] : [r EXCEPT !.freeNodes = v] \in Objects(N)
           /\ \A v \in 0 .. N : [r EXCEPT !.ptr = v] \in Objects(N)
           /\ \A v \in [Bins -> Numbers(N) \cup {None}] : [r EXCEPT !.bin = v] \in Objects(N)
           /\ \A v \in SUBSET Bins : [r EXCEPT !.leaf = v] \in Objects(N)
           /\ \A v \in SUBSET Nat : [r EXCEPT !.top = v] \in Objects(N)
           /\ \A v \in Int : [r EXCEPT !.free = v] \in Objects(N)
           /\ \A v \in BOOLEAN : [r EXCEPT !.failed = v] \in Objects(N)
<1> DEFINE T1 == Tables(N)
           T2 == [Numbers(N) -> Numbers(N)]
           T3 == 0 .. N
           T4 == [Bins -> Numbers(N) \cup {None}]
           T5 == SUBSET Bins
           T6 == SUBSET Nat
           T7 == Int
           T8 == Nat
           T9 == BOOLEAN
<1>1. Objects(N) = [node : T1, freeNodes : T2, ptr : T3, bin : T4, leaf : T5, top : T6,
                    free : T7, capacity : T8, failed : T9]
  BY Zenon DEF Objects
<1> HIDE DEF T1, T2, T3, T4, T5, T6, T7, T8, T9
<1>2. /\ \A v \in T1 : [r EXCEPT !.node = v] \in Objects(N)
      /\ \A v \in T2 : [r EXCEPT !.freeNodes = v] \in Objects(N)
      /\ \A v \in T3 : [r EXCEPT !.ptr = v] \in Objects(N)
      /\ \A v \in T4 : [r EXCEPT !.bin = v] \in Objects(N)
      /\ \A v \in T5 : [r EXCEPT !.leaf = v] \in Objects(N)
      /\ \A v \in T6 : [r EXCEPT !.top = v] \in Objects(N)
      /\ \A v \in T7 : [r EXCEPT !.free = v] \in Objects(N)
      /\ \A v \in T9 : [r EXCEPT !.failed = v] \in Objects(N)
  BY <1>1
<1> QED BY <1>2, Zenon DEF T1, T2, T3, T4, T5, T6, T7, T9

-----------------------------------------------------------------------------
(* The fields of a node, one at a time.                                    *)

Links == Nat \cup {None}

LEMMA NodeFields ==
    ASSUME NEW x \in NodeRecord
    PROVE  /\ x.offset \in Nat /\ x.size \in Nat /\ x.used \in BOOLEAN
           /\ x.binPrev \in Links /\ x.binNext \in Links
           /\ x.prev \in Links /\ x.next \in Links
           /\ \A v \in Nat : [x EXCEPT !.size = v] \in NodeRecord
           /\ \A v \in BOOLEAN : [x EXCEPT !.used = v] \in NodeRecord
           /\ \A v \in Links : /\ [x EXCEPT !.binPrev = v] \in NodeRecord
                               /\ [x EXCEPT !.binNext = v] \in NodeRecord
                               /\ [x EXCEPT !.prev = v] \in NodeRecord
                               /\ [x EXCEPT !.next = v] \in NodeRecord
<1> DEFINE L == Links
           T == Nat
           U == BOOLEAN
<1>1. NodeRecord = [offset : T, size : T, binPrev : L, binNext : L,
                    prev : L, next : L, used : U]
  BY Zenon DEF NodeRecord, Links
<1> HIDE DEF L, T, U
<1>2. /\ x.offset \in T /\ x.size \in T /\ x.used \in U
      /\ x.binPrev \in L /\ x.binNext \in L
      /\ x.prev \in L /\ x.next \in L
      /\ \A v \in T : [x EXCEPT !.size = v] \in NodeRecord
      /\ \A v \in U : [x EXCEPT !.used = v] \in NodeRecord
      /\ \A v \in L : /\ [x EXCEPT !.binPrev = v] \in NodeRecord
                      /\ [x EXCEPT !.binNext = v] \in NodeRecord
                      /\ [x EXCEPT !.prev = v] \in NodeRecord
                      /\ [x EXCEPT !.next = v] \in NodeRecord
  BY <1>1
<1> QED BY <1>2, Zenon DEF L, T, U

LEMMA UnusedIsNode == Unused \in NodeRecord /\ Unused.used = FALSE
BY DEF Unused, NodeRecord

(* A table with one field of one node changed.                             *)
LEMMA TableSet ==
    ASSUME NEW N \in Nat, NEW t \in Tables(N), NEW i \in Numbers(N)
    PROVE  /\ \A v \in NodeRecord : [t EXCEPT ![i] = v] \in Tables(N)
           /\ \A v \in Nat : [t EXCEPT ![i].size = v] \in Tables(N)
           /\ \A v \in BOOLEAN : [t EXCEPT ![i].used = v] \in Tables(N)
           /\ \A v \in Links : /\ [t EXCEPT ![i].binPrev = v] \in Tables(N)
                               /\ [t EXCEPT ![i].binNext = v] \in Tables(N)
                               /\ [t EXCEPT ![i].prev = v] \in Tables(N)
                               /\ [t EXCEPT ![i].next = v] \in Tables(N)
<1> DEFINE S == Numbers(N)
           R == NodeRecord
<1>1. Tables(N) = [S -> R]
  BY Zenon DEF Tables
<1>2. t[i] \in R
  BY <1>1
<1>3. /\ \A v \in Nat : [t[i] EXCEPT !.size = v] \in R
      /\ \A v \in BOOLEAN : [t[i] EXCEPT !.used = v] \in R
      /\ \A v \in Links : /\ [t[i] EXCEPT !.binPrev = v] \in R
                          /\ [t[i] EXCEPT !.binNext = v] \in R
                          /\ [t[i] EXCEPT !.prev = v] \in R
                          /\ [t[i] EXCEPT !.next = v] \in R
  BY <1>2, NodeFields, Zenon
<1> HIDE DEF S, R
<1>4. \A v \in R : [t EXCEPT ![i] = v] \in Tables(N)
  BY <1>1
<1> QED BY <1>3, <1>4, Zenon DEF S, R

LEMMA ObjectFields ==
    ASSUME NEW N \in Nat, NEW r \in Objects(N)
    PROVE  /\ r.node \in Tables(N) /\ r.freeNodes \in [Numbers(N) -> Numbers(N)]
           /\ r.ptr \in 0 .. N /\ r.bin \in [Bins -> Numbers(N) \cup {None}]
           /\ r.leaf \subseteq Bins /\ r.top \subseteq Nat /\ r.free \in Int
           /\ r.capacity \in Nat /\ r.failed \in BOOLEAN
BY DEF Objects

(* Two objects that differ in their stack and counters only.               *)
SameNodes(q, r) ==
    /\ q.node = r.node /\ q.bin = r.bin /\ q.leaf = r.leaf /\ q.top = r.top
    /\ q.capacity = r.capacity /\ q.failed = r.failed

(* pushFreeNode(): the node given back is the next one handed out.         *)
LEMMA PushedNode ==
    ASSUME NEW N \in Nat, NEW r \in Objects(N), NEW B, Stacked(r, N, B), NEW id \in B
    PROVE  LET q == PushFreeNode(r, id)
           IN  /\ q \in Objects(N) /\ SameNodes(q, r) /\ q.free = r.free
               /\ Stacked(q, N, B \ {id})
               /\ q.ptr = r.ptr - 1 /\ NextFreeNode(q) = id
<1> DEFINE p == r.ptr - 1
           f == [r.freeNodes EXCEPT ![p] = id]
           q1 == [r EXCEPT !.ptr = p]
           q == [q1 EXCEPT !.freeNodes = f]
<1>1. /\ r.ptr > 0 /\ r.ptr \in 0 .. N /\ id \in Numbers(N)
      /\ r.freeNodes \in [Numbers(N) -> Numbers(N)]
  BY RoomToPush, ObjectFields DEF Stacked
<1>2. p \in Numbers(N) /\ p \in 0 .. N
  BY <1>1, SMTT(30) DEF Numbers
<1>3. f \in [Numbers(N) -> Numbers(N)]
  BY <1>1, <1>2
<1>4. q1 \in Objects(N)
  BY <1>2, ObjectSet
<1>5. q \in Objects(N)
  BY <1>3, <1>4, ObjectSet
<1>6. DOMAIN r = {"node", "freeNodes", "ptr", "bin", "leaf", "top", "free", "capacity", "failed"}
  BY DEF Objects
<1>7. PushFreeNode(r, id) = q
  BY <1>1, <1>6 DEF PushFreeNode
<1>8. /\ SameNodes(q, r) /\ q.free = r.free
      /\ q.ptr = p /\ q.freeNodes = f
  BY <1>6 DEF SameNodes
<1> HIDE DEF q
<1>9. NextFreeNode(q) = id
  BY <1>1, <1>2, <1>8 DEF NextFreeNode
<1>10. Stacked(q, N, B \ {id})
  <2> DEFINE g == r.freeNodes
             I == p .. N - 1
             J == r.ptr .. N - 1
  <2>1. /\ B \subseteq Numbers(N)
        /\ \A i, j \in J : g[i] = g[j] => i = j
        /\ \A x \in Numbers(N) : x \in B <=> \A i \in J : g[i] # x
    BY DEF Stacked
  <2>2. f[p] = id /\ \A i \in J : f[i] = g[i] /\ i \in Numbers(N)
    <3>1. p \in Numbers(N) /\ g \in [Numbers(N) -> Numbers(N)]
      BY <1>1, <1>2
    <3>2. \A i \in J : i \in Numbers(N) /\ i # p
      BY <1>1 DEF Numbers
    <3> HIDE DEF p, J
    <3> QED BY <3>1, <3>2
  <2>3. \A i : i \in I <=> i = p \/ i \in J
    BY <1>1, <1>2, SMTT(30) DEF Numbers
  <2> HIDE DEF p, f, g, I, J
  <2>4. \A i \in J : f[i] # id
    BY <1>1, <2>1, <2>2
  <2>5. \A i, j \in I : f[i] = f[j] => i = j
    BY <2>1, <2>2, <2>3, <2>4
  <2>6. \A x \in Numbers(N) : x \in B \ {id} <=> \A i \in I : f[i] # x
    BY <2>1, <2>2, <2>3, <2>4
  <2>7. B \ {id} \subseteq Numbers(N)
    BY <2>1
  <2>8. q.freeNodes = f /\ q.ptr .. N - 1 = I
    BY <1>8 DEF I
  <2> QED BY <2>5, <2>6, <2>7, <2>8, Zenon DEF Stacked
<1> QED BY <1>5, <1>7, <1>8, <1>9, <1>10

-----------------------------------------------------------------------------
(* The bins.  F are the filed blocks, c[i] the class that i is filed under.*)

ListsOK(r, F, c) ==
    /\ \A b \in Bins : r.bin[b] # None =>
         r.bin[b] \in F /\ c[r.bin[b]] = b /\ r.node[r.bin[b]].binPrev = None
    /\ \A i \in F :
         LET prev == r.node[i].binPrev
             next == r.node[i].binNext
         IN  /\ c[i] \in Bins
             /\ prev = None => r.bin[c[i]] = i
             /\ prev # None => prev \in F /\ r.node[prev].binNext = i
             /\ next # None => next \in F /\ r.node[next].binPrev = i /\ c[next] = c[i]

BitmapsOK(r) ==
    /\ \A b \in Bins : b \in r.leaf <=> r.bin[b] # None
    /\ \A t \in Nat : t \in r.top <=> \E b \in r.leaf : TopBin(b) = t

(* The lists reach every block: l ranks the members of a list.             *)
Reaches(r, F, c, l) ==
    /\ \A i \in F : l[i] \in Nat
    /\ \A i \in F : r.bin[c[i]] # None /\ l[r.bin[c[i]]] <= l[i]
    /\ \A i \in F : r.node[i].binNext # None => l[i] < l[r.node[i].binNext]
    /\ \A i, j \in F : c[i] = c[j] /\ l[i] = l[j] => i = j
    /\ \A i, j \in F : c[i] = c[j] /\ l[i] < l[j] =>
         r.node[i].binNext # None /\ l[r.node[i].binNext] <= l[j]

Filed(r, F, c) ==
    /\ F \subseteq DOMAIN r.node
    /\ ListsOK(r, F, c)
    /\ BitmapsOK(r)
    /\ \E l : Reaches(r, F, c, l)

(* Objects that agree on the stack and the counters.                       *)
SameCounters(q, r) ==
    /\ q.ptr = r.ptr /\ q.freeNodes = r.freeNodes
    /\ q.free = r.free /\ q.capacity = r.capacity /\ q.failed = r.failed

(* Two tables that differ in the links of the bins only.                   *)
SameBlock(y, x) ==
    /\ y.offset = x.offset /\ y.size = x.size /\ y.used = x.used
    /\ y.prev = x.prev /\ y.next = x.next

SameBlocks(u, t, S) == \A i \in S : SameBlock(u[i], t[i])

WithPrev(t, k, v) == [t EXCEPT ![k].binPrev = v]

WithNext(t, k, v) == [t EXCEPT ![k].binNext = v]

LEMMA PrevLinkSet ==
    ASSUME NEW N \in Nat, NEW t \in Tables(N), NEW k \in Numbers(N), NEW v \in Links, NEW u,
           u = WithPrev(t, k, v)
    PROVE  /\ u \in Tables(N)
           /\ \A i \in Numbers(N) : /\ SameBlock(u[i], t[i]) /\ u[i].binNext = t[i].binNext
                                    /\ u[i].binPrev = IF i = k THEN v ELSE t[i].binPrev
<1> DEFINE S == Numbers(N)
<1>1. u \in Tables(N)
  BY TableSet DEF WithPrev, WithNext
<1>2. \A i \in S : t[i] \in NodeRecord /\ u[i] = IF i = k THEN [t[i] EXCEPT !.binPrev = v] ELSE t[i]
  BY DEF Tables, WithPrev, WithNext
<1> HIDE DEF S
<1>3. \A i \in S : /\ SameBlock(u[i], t[i]) /\ u[i].binNext = t[i].binNext
                   /\ u[i].binPrev = IF i = k THEN v ELSE t[i].binPrev
  BY <1>2 DEF SameBlock, NodeRecord
<1> QED BY <1>1, <1>3 DEF S

LEMMA NextLinkSet ==
    ASSUME NEW N \in Nat, NEW t \in Tables(N), NEW k \in Numbers(N), NEW v \in Links, NEW u,
           u = WithNext(t, k, v)
    PROVE  /\ u \in Tables(N)
           /\ \A i \in Numbers(N) : /\ SameBlock(u[i], t[i]) /\ u[i].binPrev = t[i].binPrev
                                    /\ u[i].binNext = IF i = k THEN v ELSE t[i].binNext
<1> DEFINE S == Numbers(N)
<1>1. u \in Tables(N)
  BY TableSet DEF WithPrev, WithNext
<1>2. \A i \in S : t[i] \in NodeRecord /\ u[i] = IF i = k THEN [t[i] EXCEPT !.binNext = v] ELSE t[i]
  BY DEF Tables, WithPrev, WithNext
<1> HIDE DEF S
<1>3. \A i \in S : /\ SameBlock(u[i], t[i]) /\ u[i].binPrev = t[i].binPrev
                   /\ u[i].binNext = IF i = k THEN v ELSE t[i].binNext
  BY <1>2 DEF SameBlock, NodeRecord
<1> QED BY <1>1, <1>3 DEF S

LEMMA TopBinType ==
    ASSUME NEW b \in Bins PROVE b \in Nat /\ TopBin(b) \in Nat
<1>1. b \in Nat
  BY MiniramAssumption DEF Bins
<1> QED BY <1>1, DivMod, Mantissa DEF TopBin

LEMMA ObjectDomain ==
    ASSUME NEW N \in Nat, NEW r \in Objects(N)
    PROVE  DOMAIN r = {"node", "freeNodes", "ptr", "bin", "leaf", "top", "free", "capacity", "failed"}
BY DEF Objects

(* The bits of a class whose list became empty.                            *)
LEMMA ClearedBit ==
    ASSUME NEW N \in Nat, NEW r \in Objects(N), NEW bin \in Bins, r.bin[bin] = None,
           \A b \in Bins \ {bin} : b \in r.leaf <=> r.bin[b] # None, bin \in r.leaf,
           \A t \in Nat : t \in r.top <=> \E b \in r.leaf : TopBin(b) = t
    PROVE  LET q == ClearBit(r, bin)
           IN  /\ q \in Objects(N) /\ BitmapsOK(q)
               /\ q.node = r.node /\ q.bin = r.bin /\ SameCounters(q, r)
<1> DEFINE l == r.leaf \ {bin}
           t == IF \E b \in l : TopBin(b) = TopBin(bin) THEN r.top ELSE r.top \ {TopBin(bin)}
           q1 == [r EXCEPT !.leaf = l]
           q == [q1 EXCEPT !.top = t]
<1>1. r.leaf \subseteq Bins /\ r.top \subseteq Nat
  BY ObjectFields
<1>2. q1 \in Objects(N)
  BY <1>1, ObjectSet
<1>3. q \in Objects(N)
  BY <1>1, <1>2, ObjectSet
<1>4. ClearBit(r, bin) = q
  BY ObjectDomain DEF ClearBit
<1>5. /\ q.leaf = l /\ q.top = t
      /\ q.node = r.node /\ q.bin = r.bin /\ SameCounters(q, r)
  BY ObjectDomain DEF SameCounters
<1>6. TopBin(bin) \in Nat
  BY TopBinType
<1>7. \A x \in Nat : x \in t <=> \E b \in l : TopBin(b) = x
  BY <1>1, <1>6
<1>8. \A b \in Bins : b \in l <=> r.bin[b] # None
  OBVIOUS
<1> HIDE DEF q, l, t
<1>9. BitmapsOK(q)
  BY <1>5, <1>7, <1>8 DEF BitmapsOK
<1> QED BY <1>3, <1>4, <1>5, <1>9

(* A node at the head of its list is unlinked: first the new table and the *)
(* new heads, then the bitmaps.                                            *)
LEMMA HeadUnlinked ==
    ASSUME NEW N \in Nat, NEW r \in Objects(N), NEW F, NEW c, Filed(r, F, c),
           NEW id \in F, r.node[id].binPrev = None
    PROVE  LET q == UnlinkHead(r, id, c[id])
           IN  /\ q \in Objects(N) /\ SameCounters(q, r)
               /\ SameBlocks(q.node, r.node, Numbers(N))
               /\ Filed(q, F \ {id}, c)
<1> DEFINE bin == c[id]
           t == r.node
           next == t[id].binNext
           u == IF next = None THEN t ELSE [t EXCEPT ![next].binPrev = None]
           h == [r.bin EXCEPT ![bin] = next]
           q1 == [r EXCEPT !.bin = h]
           q2 == [q1 EXCEPT !.node = u]
           q == UnlinkHead(r, id, bin)
           S == Numbers(N)
           G == F \ {id}
<1>1. /\ F \subseteq S /\ t \in Tables(N) /\ r.bin \in [Bins -> S \cup {None}]
      /\ S \subseteq Nat /\ None \notin S /\ None \notin F
  BY ObjectFields, NodesIs, MiniramAssumption DEF Filed, Numbers
<1>2. /\ ListsOK(r, F, c) /\ BitmapsOK(r)
  BY DEF Filed
<1>3. PICK l : Reaches(r, F, c, l)
  BY DEF Filed
<1>4. /\ bin \in Bins /\ r.bin[bin] = id
      /\ next # None => next \in F /\ t[next].binPrev = id /\ c[next] = bin
  BY <1>2 DEF ListsOK
<1>5. \A i \in S : t[i] \in NodeRecord
  BY <1>1 DEF Tables
<1>6. u \in Tables(N)
  BY <1>1, <1>4, TableSet DEF Links
<1>7. \A i \in S : /\ SameBlock(u[i], t[i]) /\ u[i].binNext = t[i].binNext
                   /\ u[i].binPrev = IF i = next THEN None ELSE t[i].binPrev
  <2>1. CASE next = None
    BY <1>1, <2>1 DEF SameBlock
  <2>2. CASE next # None
    <3>1. u = WithPrev(t, next, None) /\ next \in S /\ None \in Links /\ t \in Tables(N)
      BY <1>1, <1>4, <2>2 DEF Links, WithPrev
    <3> HIDE DEF u, t, next
    <3> QED BY <3>1, PrevLinkSet
  <2> QED BY <2>1, <2>2
<1>8. /\ h \in [Bins -> S \cup {None}]
      /\ \A b \in Bins : h[b] = IF b = bin THEN next ELSE r.bin[b]
  BY <1>1, <1>4
<1>9. /\ q2 \in Objects(N) /\ q2.node = u /\ q2.bin = h /\ q2.leaf = r.leaf /\ q2.top = r.top
      /\ SameCounters(q2, r)
  <2>1. q1 \in Objects(N)
    BY <1>8, ObjectSet
  <2> QED BY <1>6, <2>1, ObjectSet, ObjectDomain DEF SameCounters
<1>10. q = IF next = None THEN ClearBit(q2, bin) ELSE q2
  BY ObjectDomain DEF UnlinkHead
<1>11. /\ q \in Objects(N) /\ q.node = u /\ q.bin = h /\ SameCounters(q, r) /\ BitmapsOK(q)
  <2>1. CASE next = None
    <3>1. \A b \in Bins \ {bin} : b \in q2.leaf <=> q2.bin[b] # None
      BY <1>2, <1>8, <1>9 DEF BitmapsOK
    <3>2. q2.bin[bin] = None /\ bin \in q2.leaf
      BY <1>1, <1>2, <1>4, <1>8, <1>9, <2>1 DEF BitmapsOK
    <3>3. \A x \in Nat : x \in q2.top <=> \E b \in q2.leaf : TopBin(b) = x
      BY <1>2, <1>9 DEF BitmapsOK
    <3> HIDE DEF q2, bin, u, h
    <3>4. bin \in Bins
      BY <1>4
    <3> QED BY <1>9, <1>10, <2>1, <3>1, <3>2, <3>3, <3>4, ClearedBit DEF SameCounters
  <2>2. CASE next # None
    <3>1. BitmapsOK(q2)
      BY <1>1, <1>2, <1>4, <1>8, <1>9, <2>2 DEF BitmapsOK
    <3> QED BY <1>9, <1>10, <2>2, <3>1
  <2> QED BY <2>1, <2>2
<1> HIDE DEF q, q1, q2, u, h
<1>12. ListsOK(q, G, c)
  <2> HIDE DEF t, bin, next
  <2>1. \A i \in F : t[i].binNext = id => t[id].binPrev = i
    BY <1>1, <1>2 DEF ListsOK, t
  <2>2. \A i \in G : t[i].binNext # id
    BY <1>1, <2>1 DEF t
  <2>3. \A i \in G : t[i].binPrev = id => i = next
    BY <1>1, <1>2 DEF ListsOK, t, next
  <2>4. \A b \in Bins : h[b] # None => h[b] \in G /\ c[h[b]] = b /\ u[h[b]].binPrev = None
    BY <1>1, <1>2, <1>4, <1>7, <1>8, <2>2 DEF ListsOK, t, next, bin
  <2>5. \A i \in G : /\ c[i] \in Bins
                     /\ u[i].binPrev = None => h[c[i]] = i
                     /\ u[i].binPrev # None => u[i].binPrev \in G /\ u[u[i].binPrev].binNext = i
                     /\ u[i].binNext # None => /\ u[i].binNext \in G /\ u[u[i].binNext].binPrev = i
                                               /\ c[u[i].binNext] = c[i]
    <3> SUFFICES ASSUME NEW i \in G
                 PROVE  /\ c[i] \in Bins
                        /\ u[i].binPrev = None => h[c[i]] = i
                        /\ u[i].binPrev # None => u[i].binPrev \in G /\ u[u[i].binPrev].binNext = i
                        /\ u[i].binNext # None => /\ u[i].binNext \in G /\ u[u[i].binNext].binPrev = i
                                                  /\ c[u[i].binNext] = c[i]
      OBVIOUS
    <3>1. /\ i \in S /\ i \in F /\ i # id
          /\ u[i].binNext = t[i].binNext
          /\ u[i].binPrev = IF i = next THEN None ELSE t[i].binPrev
      BY <1>1, <1>7
    <3>2. /\ c[i] \in Bins
          /\ t[i].binPrev = None => r.bin[c[i]] = i
          /\ t[i].binPrev # None => t[i].binPrev \in F /\ t[t[i].binPrev].binNext = i
          /\ t[i].binNext # None => /\ t[i].binNext \in F /\ t[t[i].binNext].binPrev = i
                                    /\ c[t[i].binNext] = c[i]
      BY <1>2, <3>1 DEF ListsOK, t
    <3>3. u[i].binPrev = None => h[c[i]] = i
      BY <1>1, <1>4, <1>8, <3>1, <3>2 DEF bin
    <3>4. u[i].binPrev # None => u[i].binPrev \in G /\ u[u[i].binPrev].binNext = i
      BY <1>1, <1>7, <2>3, <3>1, <3>2
    <3>5. u[i].binNext # None => /\ u[i].binNext \in G /\ u[u[i].binNext].binPrev = i
                                 /\ c[u[i].binNext] = c[i]
      <4>1. ASSUME t[i].binNext # None PROVE t[i].binNext # next
        BY <1>4, <3>1, <3>2, <4>1 DEF t
      <4> QED BY <1>1, <1>7, <2>2, <3>1, <3>2, <4>1
    <3> QED BY <3>2, <3>3, <3>4, <3>5
  <2> QED BY <1>11, <2>4, <2>5 DEF ListsOK
<1>13. Reaches(q, G, c, l)
  <2> HIDE DEF t, bin, next
  <2>1. \A i \in F : l[i] \in Nat
    BY <1>3 DEF Reaches
  <2>2. \A i \in F : r.bin[c[i]] # None /\ l[r.bin[c[i]]] <= l[i]
    BY <1>3 DEF Reaches
  <2>3. \A i \in F : t[i].binNext # None => l[i] < l[t[i].binNext]
    BY <1>3 DEF Reaches, t
  <2>4. \A i, j \in F : c[i] = c[j] /\ l[i] = l[j] => i = j
    BY <1>3 DEF Reaches
  <2>5. \A i, j \in F : c[i] = c[j] /\ l[i] < l[j] => t[i].binNext # None /\ l[t[i].binNext] <= l[j]
    BY <1>3 DEF Reaches, t
  <2>6. \A i \in G : c[i] = bin => next # None /\ l[next] <= l[i]
    <3> SUFFICES ASSUME NEW i \in G, c[i] = bin
                 PROVE  next # None /\ l[next] <= l[i]
      OBVIOUS
    <3>1. i \in F /\ i # id /\ l[i] \in Nat /\ l[id] \in Nat
      BY <2>1
    <3>2. l[id] <= l[i] /\ c[id] = c[i]
      BY <1>4, <2>2, <3>1 DEF bin
    <3>3. l[id] < l[i]
      BY <2>4, <3>1, <3>2
    <3> QED BY <2>5, <3>1, <3>2, <3>3 DEF next
  <2>7. \A i \in G : c[i] \in Bins
    BY <1>2 DEF ListsOK
  <2>8. \A i \in G : h[c[i]] # None /\ l[h[c[i]]] <= l[i]
    BY <1>8, <2>2, <2>6, <2>7
  <2>9. \A i \in G : i \in F /\ u[i].binNext = t[i].binNext
    BY <1>1, <1>7
  <2>10. \A i \in G : u[i].binNext # None => l[i] < l[u[i].binNext]
    BY <2>3, <2>9
  <2>11. \A i, j \in G : c[i] = c[j] /\ l[i] < l[j] => u[i].binNext # None /\ l[u[i].binNext] <= l[j]
    BY <2>5, <2>9
  <2>12. \A i, j \in G : c[i] = c[j] /\ l[i] = l[j] => i = j
    BY <2>4
  <2> QED BY <1>11, <2>1, <2>8, <2>10, <2>11, <2>12, Zenon DEF Reaches
<1>14. G \subseteq DOMAIN q.node
  BY <1>1, <1>6, <1>11 DEF Tables
<1>15. SameBlocks(q.node, r.node, S)
  BY <1>7, <1>11 DEF SameBlocks
<1>16. Filed(q, G, c)
  BY <1>11, <1>12, <1>13, <1>14 DEF Filed
<1> QED BY <1>11, <1>15, <1>16, Zenon DEF q

(* A node behind another one is unlinked; its list keeps its head.         *)
LEMMA InnerUnlinked ==
    ASSUME NEW N \in Nat, NEW r \in Objects(N), NEW F, NEW c, Filed(r, F, c),
           NEW id \in F, r.node[id].binPrev # None
    PROVE  LET q == UnlinkInner(r, id)
           IN  /\ q \in Objects(N) /\ SameCounters(q, r)
               /\ SameBlocks(q.node, r.node, Numbers(N))
               /\ Filed(q, F \ {id}, c)
<1> DEFINE t == r.node
           prev == t[id].binPrev
           next == t[id].binNext
           w == [t EXCEPT ![prev].binNext = next]
           u == IF next = None THEN w ELSE [w EXCEPT ![next].binPrev = prev]
           q == UnlinkInner(r, id)
           S == Numbers(N)
           G == F \ {id}
<1>1. /\ F \subseteq S /\ t \in Tables(N) /\ r.bin \in [Bins -> S \cup {None}]
      /\ S \subseteq Nat /\ None \notin S /\ None \notin F
  BY ObjectFields, NodesIs, MiniramAssumption DEF Filed, Numbers
<1>2. /\ ListsOK(r, F, c) /\ BitmapsOK(r)
  BY DEF Filed
<1>3. PICK l : Reaches(r, F, c, l)
  BY DEF Filed
<1>4. /\ c[id] \in Bins
      /\ prev \in F /\ t[prev].binNext = id
      /\ next # None => next \in F /\ t[next].binPrev = id /\ c[next] = c[id]
  BY <1>2 DEF ListsOK
<1>5. c[prev] = c[id]
  BY <1>1, <1>2, <1>4 DEF ListsOK
<1>6. /\ w \in Tables(N)
      /\ \A i \in S : /\ SameBlock(w[i], t[i]) /\ w[i].binPrev = t[i].binPrev
                      /\ w[i].binNext = IF i = prev THEN next ELSE t[i].binNext
  <2>1. w = WithNext(t, prev, next) /\ prev \in S /\ next \in Links
    BY <1>1, <1>4 DEF Links, WithNext, WithPrev
  <2> HIDE DEF w, t, next, prev
  <2> QED BY <1>1, <2>1, NextLinkSet
<1>7. /\ u \in Tables(N)
      /\ \A i \in S : /\ SameBlock(u[i], t[i])
                      /\ u[i].binNext = IF i = prev THEN next ELSE t[i].binNext
                      /\ u[i].binPrev = IF i = next THEN prev ELSE t[i].binPrev
  <2>1. CASE next = None
    BY <1>1, <1>6, <2>1
  <2>2. CASE next # None
    <3>1. u = WithPrev(w, next, prev) /\ next \in S /\ prev \in Links
      BY <1>1, <1>4, <2>2 DEF Links, WithNext, WithPrev
    <3> HIDE DEF u, w, t, next, prev
    <3>2. /\ u \in Tables(N)
          /\ \A i \in S : /\ SameBlock(u[i], w[i]) /\ u[i].binNext = w[i].binNext
                          /\ u[i].binPrev = IF i = next THEN prev ELSE w[i].binPrev
      BY <1>6, <3>1, PrevLinkSet
    <3> QED BY <1>6, <3>2 DEF SameBlock
  <2> QED BY <2>1, <2>2
<1>8. q = [r EXCEPT !.node = u]
  BY ObjectDomain DEF UnlinkInner
<1>9. /\ q \in Objects(N) /\ q.node = u /\ q.bin = r.bin /\ q.leaf = r.leaf /\ q.top = r.top
      /\ SameCounters(q, r)
  <2> HIDE DEF q, u, w
  <2>1. q \in Objects(N)
    BY <1>7, <1>8, ObjectSet
  <2>2. q.node = u /\ q.bin = r.bin /\ q.leaf = r.leaf /\ q.top = r.top
    BY <1>8, ObjectDomain
  <2>3. SameCounters(q, r)
    BY <1>8, ObjectDomain DEF SameCounters
  <2> QED BY <2>1, <2>2, <2>3
<1> HIDE DEF q, u, w
<1>10. prev # id /\ next # id /\ prev # next
  <2> HIDE DEF t, prev, next
  <2>1. \A i \in F : /\ l[i] \in Nat
                     /\ t[i].binNext # None => l[i] < l[t[i].binNext]
    BY <1>3 DEF Reaches, t
  <2>2. t[prev].binNext = id /\ l[prev] < l[id]
    BY <1>1, <1>4, <2>1 DEF t
  <2>3. next # None => l[id] < l[next]
    BY <1>1, <1>4, <2>1 DEF t, next
  <2> QED BY <1>1, <1>4, <2>1, <2>2, <2>3
<1>11. ListsOK(q, G, c)
  <2> HIDE DEF t, prev, next
  <2>1. \A i \in G : t[i].binNext = id => i = prev
    BY <1>1, <1>2 DEF ListsOK, t, prev
  <2>2. \A i \in G : t[i].binPrev = id => i = next
    BY <1>1, <1>2 DEF ListsOK, t, next
  <2>3. \A b \in Bins : r.bin[b] # None => /\ r.bin[b] \in G /\ c[r.bin[b]] = b
                                           /\ u[r.bin[b]].binPrev = None
    <3>1. \A b \in Bins : r.bin[b] # None => r.bin[b] \in F /\ c[r.bin[b]] = b /\ t[r.bin[b]].binPrev = None
      BY <1>2 DEF ListsOK, t
    <3>2. t[id].binPrev # None /\ (next # None => t[next].binPrev # None)
      BY <1>1, <1>4 DEF t
    <3> QED BY <1>1, <1>7, <3>1, <3>2
  <2>4. ASSUME NEW i \in G
        PROVE  /\ c[i] \in Bins
               /\ u[i].binPrev = None => r.bin[c[i]] = i
               /\ u[i].binPrev # None => u[i].binPrev \in G /\ u[u[i].binPrev].binNext = i
               /\ u[i].binNext # None => /\ u[i].binNext \in G /\ u[u[i].binNext].binPrev = i
                                         /\ c[u[i].binNext] = c[i]
    <3>1. /\ i \in S /\ i \in F /\ i # id
          /\ u[i].binNext = IF i = prev THEN next ELSE t[i].binNext
          /\ u[i].binPrev = IF i = next THEN prev ELSE t[i].binPrev
      BY <1>1, <1>7, <2>4
    <3>2. /\ c[i] \in Bins
          /\ t[i].binPrev = None => r.bin[c[i]] = i
          /\ t[i].binPrev # None => t[i].binPrev \in F /\ t[t[i].binPrev].binNext = i
          /\ t[i].binNext # None => /\ t[i].binNext \in F /\ t[t[i].binNext].binPrev = i
                                    /\ c[t[i].binNext] = c[i]
      BY <1>2, <3>1 DEF ListsOK, t
    <3>3. u[i].binPrev = None => r.bin[c[i]] = i
      BY <1>1, <1>4, <3>1, <3>2
    <3>4. u[i].binPrev # None => u[i].binPrev \in G /\ u[u[i].binPrev].binNext = i
      <4>1. CASE i = next
        BY <1>1, <1>4, <1>7, <1>10, <3>1, <4>1
      <4>2. CASE i # next
        BY <1>1, <1>4, <1>7, <1>10, <2>2, <2>4, <3>1, <3>2, <4>2 DEF t
      <4> QED BY <4>1, <4>2
    <3>5. u[i].binNext # None => /\ u[i].binNext \in G /\ u[u[i].binNext].binPrev = i
                                 /\ c[u[i].binNext] = c[i]
      <4>1. CASE i = prev
        BY <1>1, <1>4, <1>5, <1>7, <1>10, <3>1, <4>1
      <4>2. CASE i # prev
        BY <1>1, <1>4, <1>7, <1>10, <2>1, <2>4, <3>1, <3>2, <4>2 DEF t
      <4> QED BY <4>1, <4>2
    <3> QED BY <3>2, <3>3, <3>4, <3>5
  <2> QED BY <1>9, <2>3, <2>4 DEF ListsOK
<1>12. Reaches(q, G, c, l)
  <2> HIDE DEF t, prev, next
  <2>1. \A i \in F : l[i] \in Nat
    BY <1>3 DEF Reaches
  <2>2. \A i \in F : r.bin[c[i]] # None /\ l[r.bin[c[i]]] <= l[i]
    BY <1>3 DEF Reaches
  <2>3. \A i \in F : t[i].binNext # None => l[i] < l[t[i].binNext]
    BY <1>3 DEF Reaches, t
  <2>4. \A i, j \in F : c[i] = c[j] /\ l[i] = l[j] => i = j
    BY <1>3 DEF Reaches
  <2>5. \A i, j \in F : c[i] = c[j] /\ l[i] < l[j] => t[i].binNext # None /\ l[t[i].binNext] <= l[j]
    BY <1>3 DEF Reaches, t
  <2>6. l[prev] < l[id] /\ (next # None => l[id] < l[next]) /\ t[id].binNext = next
    BY <1>1, <1>4, <2>3 DEF t, next
  <2>7. l[prev] \in Nat /\ l[id] \in Nat /\ (next # None => l[next] \in Nat)
    BY <1>4, <2>1
  <2>8. \A i \in G : i \in F /\ u[i].binNext = IF i = prev THEN next ELSE t[i].binNext
    BY <1>1, <1>7
  <2>9. \A i \in G : u[i].binNext # None => l[i] < l[u[i].binNext]
    <3> SUFFICES ASSUME NEW i \in G, u[i].binNext # None
                 PROVE  l[i] < l[u[i].binNext]
      OBVIOUS
    <3>1. CASE i = prev
      BY <2>6, <2>7, <2>8, <3>1
    <3>2. CASE i # prev
      BY <2>3, <2>8, <3>2
    <3> QED BY <3>1, <3>2
  <2>10. \A i, j \in G : c[i] = c[j] /\ l[i] < l[j] => u[i].binNext # None /\ l[u[i].binNext] <= l[j]
    <3> SUFFICES ASSUME NEW i \in G, NEW j \in G, c[i] = c[j], l[i] < l[j]
                 PROVE  u[i].binNext # None /\ l[u[i].binNext] <= l[j]
      OBVIOUS
    <3>1. i \in F /\ j \in F /\ j # id /\ l[j] \in Nat
      BY <2>1
    <3>2. t[i].binNext # None /\ l[t[i].binNext] <= l[j]
      BY <2>5, <3>1
    <3>3. CASE i = prev
      <4>1. l[id] <= l[j] /\ c[id] = c[j]
        BY <1>4, <1>5, <3>2, <3>3 DEF t
      <4>2. l[id] # l[j]
        BY <2>4, <3>1, <4>1
      <4>3. l[id] < l[j]
        BY <2>7, <3>1, <4>1, <4>2
      <4>4. next # None /\ l[next] <= l[j]
        BY <2>5, <2>6, <3>1, <4>1, <4>3
      <4> QED BY <2>8, <3>3, <4>4
    <3>4. CASE i # prev
      BY <2>8, <3>2, <3>4
    <3> QED BY <3>3, <3>4
  <2>11. \A i \in G : r.bin[c[i]] # None /\ l[r.bin[c[i]]] <= l[i]
    BY <2>2
  <2>12. \A i, j \in G : c[i] = c[j] /\ l[i] = l[j] => i = j
    BY <2>4
  <2> QED BY <1>9, <2>1, <2>9, <2>10, <2>11, <2>12, Zenon DEF Reaches
<1>13. G \subseteq DOMAIN q.node /\ BitmapsOK(q)
  BY <1>1, <1>2, <1>7, <1>9 DEF Tables, BitmapsOK
<1>14. SameBlocks(q.node, r.node, S)
  BY <1>7, <1>9 DEF SameBlocks
<1>15. Filed(q, G, c)
  BY <1>11, <1>12, <1>13 DEF Filed
<1> QED BY <1>9, <1>14, <1>15, Zenon DEF q

LEMMA FiledSame ==
    ASSUME NEW r, NEW q, NEW F, NEW c, Filed(r, F, c),
           q.node = r.node, q.bin = r.bin, q.leaf = r.leaf, q.top = r.top
    PROVE  Filed(q, F, c)
<1>1. ListsOK(q, F, c)
  <2>1. ListsOK(r, F, c)
    BY Zenon DEF Filed
  <2> QED BY <2>1, SMT DEF ListsOK
<1>2. BitmapsOK(q)
  BY Zenon DEF Filed, BitmapsOK
<1>3. ASSUME NEW l, Reaches(r, F, c, l) PROVE Reaches(q, F, c, l)
  BY <1>3, Zenon DEF Reaches
<1> QED BY <1>1, <1>2, <1>3, Zenon DEF Filed

LEMMA StackedSame ==
    ASSUME NEW r, NEW q, NEW N, NEW B, Stacked(r, N, B),
           q.ptr = r.ptr, q.freeNodes = r.freeNodes
    PROVE  Stacked(q, N, B)
BY Zenon DEF Stacked

(* removeNode(): what it does to the bins and the stack, and that it       *)
(* touches nothing else.                                                   *)
AfterRemove(q, r, N, B, F, c, id) ==
    /\ q \in Objects(N) /\ SameBlocks(q.node, r.node, Numbers(N))
    /\ Filed(q, F \ {id}, c) /\ Stacked(q, N, B \ {id})
    /\ q.ptr = r.ptr - 1 /\ NextFreeNode(q) = id
    /\ q.free = r.free - r.node[id].size
    /\ q.capacity = r.capacity /\ q.failed = r.failed

LEMMA RemovedNode ==
    ASSUME NEW N \in Nat, NEW r \in Objects(N), NEW B, NEW F, NEW c, Stacked(r, N, B),
           Filed(r, F, c), F \subseteq B, NEW id \in F, c[id] = FloorToFloat(r.node[id].size)
    PROVE  AfterRemove(RemoveNode(r, id), r, N, B, F, c, id)
<1> DEFINE size == r.node[id].size
           u == IF r.node[id].binPrev = None THEN UnlinkHead(r, id, c[id]) ELSE UnlinkInner(r, id)
           v == [u EXCEPT !.free = u.free - size]
           q == PushFreeNode(v, id)
           G == F \ {id}
<1>1. /\ u \in Objects(N) /\ SameCounters(u, r)
      /\ SameBlocks(u.node, r.node, Numbers(N)) /\ Filed(u, G, c)
  BY HeadUnlinked, InnerUnlinked, Zenon
<1>2. RemoveNode(r, id) = q
  BY Zenon DEF RemoveNode
<1>3. id \in Numbers(N) /\ size \in Nat /\ u.free \in Int
  <2>1. id \in Numbers(N)
    BY DEF Stacked
  <2>2. r.node[id] \in NodeRecord
    BY <2>1, ObjectFields DEF Tables
  <2>3. u.free \in Int
    BY <1>1, ObjectFields
  <2> QED BY <2>1, <2>2, <2>3, NodeFields
<1> HIDE DEF u, size
<1>4. v \in Objects(N)
  BY <1>1, <1>3, ObjectSet
<1>5. /\ v.node = u.node /\ v.bin = u.bin /\ v.leaf = u.leaf /\ v.top = u.top
      /\ v.ptr = u.ptr /\ v.freeNodes = u.freeNodes /\ v.free = u.free - size
      /\ v.capacity = u.capacity /\ v.failed = u.failed
  BY <1>1, ObjectDomain
<1>6. Filed(v, G, c)
  BY <1>1, <1>5, FiledSame
<1>7. Stacked(v, N, B)
  <2> HIDE DEF v
  <2>1. v.ptr = r.ptr /\ v.freeNodes = r.freeNodes
    BY <1>1, <1>5, Zenon DEF SameCounters
  <2> QED BY <2>1, StackedSame, Zenon
<1> HIDE DEF v
<1>8. /\ q \in Objects(N) /\ SameNodes(q, v) /\ q.free = v.free
      /\ Stacked(q, N, B \ {id}) /\ q.ptr = v.ptr - 1 /\ NextFreeNode(q) = id
  <2>1. id \in B
    OBVIOUS
  <2> QED BY <1>4, <1>7, <2>1, PushedNode
<1> HIDE DEF q
<1>9. Filed(q, G, c)
  BY <1>6, <1>8, FiledSame DEF SameNodes
<1>10. SameBlocks(q.node, r.node, Numbers(N))
  BY <1>1, <1>5, <1>8 DEF SameNodes
<1>11. /\ q.ptr = r.ptr - 1 /\ q.free = r.free - size
       /\ q.capacity = r.capacity /\ q.failed = r.failed
  BY <1>1, <1>5, <1>8 DEF SameNodes, SameCounters
<1> QED BY <1>2, <1>8, <1>9, <1>10, <1>11 DEF size, AfterRemove

(* insertNode() while the stack is not empty: the next id stands for the   *)
(* new free block, first in the list of its class.                         *)
AfterInsert(q, r, N, B, F, c, size, offset, id) ==
    /\ q \in Objects(N) /\ id \in Numbers(N) /\ id \notin B
    /\ \A i \in Numbers(N) \ {id} : SameBlock(q.node[i], r.node[i])
    /\ SameBlock(q.node[id], [Unused EXCEPT !.offset = offset, !.size = size])
    /\ Filed(q, F \cup {id}, c) /\ Stacked(q, N, B \cup {id})
    /\ q.ptr = r.ptr + 1 /\ q.free = r.free + size
    /\ q.capacity = r.capacity /\ q.failed = r.failed

LEMMA InsertedNode ==
    ASSUME NEW N \in Nat, NEW r \in Objects(N), NEW B, NEW F, NEW c, Stacked(r, N, B),
           Filed(r, F, c), F \subseteq B, r.ptr < N, NEW size \in Nat, NEW offset \in Nat,
           c[NextFreeNode(r)] = FloorToFloat(size), FloorToFloat(size) \in Bins
    PROVE  AfterInsert(InsertNode(r, size, offset), r, N, B, F, c, size, offset, NextFreeNode(r))
<1> DEFINE id == NextFreeNode(r)
           bin == FloorToFloat(size)
           head == r.bin[bin]
           filed == [Unused EXCEPT !.offset = offset, !.size = size, !.binNext = head]
           t == r.node
           w == [t EXCEPT ![id] = filed]
           u == IF head = None THEN w ELSE [w EXCEPT ![head].binPrev = id]
           h == [r.bin EXCEPT ![bin] = id]
           leaf == IF head = None THEN r.leaf \cup {bin} ELSE r.leaf
           top == IF head = None THEN r.top \cup {TopBin(bin)} ELSE r.top
           q1 == [r EXCEPT !.free = r.free + size]
           q2 == [q1 EXCEPT !.ptr = r.ptr + 1]
           q3 == [q2 EXCEPT !.top = top]
           q4 == [q3 EXCEPT !.leaf = leaf]
           q5 == [q4 EXCEPT !.node = u]
           q == [q5 EXCEPT !.bin = h]
           S == Numbers(N)
           G == F \cup {id}
<1>1. /\ F \subseteq S /\ t \in Tables(N) /\ r.bin \in [Bins -> S \cup {None}]
      /\ S \subseteq Nat /\ None \notin S /\ None \notin F
      /\ r.ptr \in 0 .. N /\ r.freeNodes \in [S -> S] /\ r.leaf \subseteq Bins
      /\ r.top \subseteq Nat /\ r.free \in Int /\ bin \in Bins
  <2>1. F \subseteq S
    BY NodesIs DEF Filed
  <2>2. S \subseteq Nat /\ None \notin S
    BY MiniramAssumption DEF Numbers
  <2>3. /\ t \in Tables(N) /\ r.bin \in [Bins -> S \cup {None}]
        /\ r.ptr \in 0 .. N /\ r.freeNodes \in [S -> S] /\ r.leaf \subseteq Bins
        /\ r.top \subseteq Nat /\ r.free \in Int
    BY ObjectFields
  <2> QED BY <2>1, <2>2, <2>3
<1>2. r.ptr \in S /\ id \in S
  <2>1. r.ptr \in S
    BY <1>1 DEF Numbers
  <2>2. r.freeNodes[r.ptr] \in S
    BY <1>1, <2>1
  <2> QED BY <2>1, <2>2 DEF NextFreeNode
<1>3. id \notin B /\ id \notin F /\ id # None
  <2>1. r.ptr \in r.ptr .. N - 1
    BY <1>1
  <2> QED BY <1>1, <1>2, <2>1 DEF Stacked, NextFreeNode
<1>4. ListsOK(r, F, c) /\ BitmapsOK(r)
  BY DEF Filed
<1>5. PICK l : Reaches(r, F, c, l)
  BY DEF Filed
<1>6. head # None => head \in F /\ head \in S /\ head # id /\ c[head] = bin /\ t[head].binPrev = None
  BY <1>1, <1>3, <1>4 DEF ListsOK
<1>7. /\ filed \in NodeRecord /\ filed.binNext = head /\ filed.binPrev = None
      /\ SameBlock(filed, [Unused EXCEPT !.offset = offset, !.size = size])
  <2>1. head \in Links
    BY <1>1 DEF Links
  <2> HIDE DEF head
  <2> QED BY <2>1 DEF Unused, NodeRecord, SameBlock, Links
<1>8. /\ w \in Tables(N)
      /\ w[id] = filed /\ \A i \in S \ {id} : w[i] = t[i]
  <2> HIDE DEF filed, id
  <2> QED BY <1>1, <1>2, <1>7, TableSet DEF Tables
<1>9. /\ u \in Tables(N)
      /\ \A i \in S : /\ SameBlock(u[i], w[i]) /\ u[i].binNext = w[i].binNext
                      /\ u[i].binPrev = IF head # None /\ i = head THEN id ELSE w[i].binPrev
  <2>1. CASE head = None
    BY <1>8, <2>1 DEF SameBlock
  <2>2. CASE head # None
    <3>1. u = WithPrev(w, head, id) /\ head \in S /\ id \in Links
      BY <1>1, <1>2, <1>6, <2>2 DEF Links, WithPrev
    <3> HIDE DEF u, w, head, id
    <3> QED BY <1>8, <2>2, <3>1, PrevLinkSet
  <2> QED BY <2>1, <2>2
<1>10. /\ h \in [Bins -> S \cup {None}]
       /\ \A b \in Bins : h[b] = IF b = bin THEN id ELSE r.bin[b]
  BY <1>1, <1>2
<1>11. InsertNode(r, size, offset) = q
  BY <1>1, NodesIs, ObjectDomain DEF InsertNode
<1>12. TopBin(bin) \in Nat
  BY <1>1, TopBinType
<1>13. q \in Objects(N)
  <2>1. /\ r.free + size \in Int /\ r.ptr + 1 \in 0 .. N /\ top \in SUBSET Nat
        /\ leaf \in SUBSET Bins
    BY <1>1, <1>12
  <2> HIDE DEF top, leaf, u, h
  <2>2. q1 \in Objects(N)
    BY <2>1, ObjectSet
  <2>3. q2 \in Objects(N)
    BY <2>1, <2>2, ObjectSet
  <2>4. q3 \in Objects(N)
    BY <2>1, <2>3, ObjectSet
  <2>5. q4 \in Objects(N)
    BY <2>1, <2>4, ObjectSet
  <2>6. q5 \in Objects(N)
    BY <1>9, <2>5, ObjectSet
  <2> QED BY <1>10, <2>6, ObjectSet
<1>14. /\ q.node = u /\ q.bin = h /\ q.leaf = leaf /\ q.top = top /\ q.freeNodes = r.freeNodes
       /\ q.ptr = r.ptr + 1 /\ q.free = r.free + size
       /\ q.capacity = r.capacity /\ q.failed = r.failed
  BY ObjectDomain
<1> HIDE DEF q, q1, q2, q3, q4, q5, u, w, h, leaf, top, filed, head, bin, id
<1>15. BitmapsOK(q)
  <2>1. \A b \in Bins : b \in leaf <=> h[b] # None
    BY <1>1, <1>3, <1>4, <1>10 DEF BitmapsOK, leaf, head
  <2>2. \A x \in Nat : x \in top <=> \E b \in leaf : TopBin(b) = x
    BY <1>4, <1>12 DEF BitmapsOK, leaf, top
  <2> QED BY <1>14, <2>1, <2>2 DEF BitmapsOK
<1>16. /\ \A i \in F : /\ u[i].binNext = t[i].binNext
                       /\ u[i].binPrev = IF i = head THEN id ELSE t[i].binPrev
       /\ u[id].binNext = head /\ u[id].binPrev = None
  <2>1. head # id
    BY <1>3, <1>6
  <2>2. \A i \in F : i \in S /\ i # id /\ w[i] = t[i] /\ i # None
    BY <1>1, <1>3, <1>8
  <2> QED BY <1>2, <1>7, <1>8, <1>9, <2>1, <2>2
<1>17. c[id] = bin
  BY DEF id, bin
<1>18. ListsOK(q, G, c)
  <2> HIDE DEF t
  <2>1. \A b \in Bins : h[b] # None => h[b] \in G /\ c[h[b]] = b /\ u[h[b]].binPrev = None
    <3>1. \A b \in Bins : r.bin[b] # None => r.bin[b] \in F /\ c[r.bin[b]] = b /\ t[r.bin[b]].binPrev = None
      BY <1>4 DEF ListsOK, t
    <3>2. \A b \in Bins \ {bin} : r.bin[b] # None => r.bin[b] # head
      BY <1>6, <3>1
    <3> QED BY <1>10, <1>16, <1>17, <3>1, <3>2
  <2>2. ASSUME NEW i \in F
        PROVE  /\ c[i] \in Bins
               /\ u[i].binPrev = None => h[c[i]] = i
               /\ u[i].binPrev # None => u[i].binPrev \in G /\ u[u[i].binPrev].binNext = i
               /\ u[i].binNext # None => /\ u[i].binNext \in G /\ u[u[i].binNext].binPrev = i
                                         /\ c[u[i].binNext] = c[i]
    <3>1. /\ c[i] \in Bins
          /\ t[i].binPrev = None => r.bin[c[i]] = i
          /\ t[i].binPrev # None => t[i].binPrev \in F /\ t[t[i].binPrev].binNext = i
          /\ t[i].binNext # None => /\ t[i].binNext \in F /\ t[t[i].binNext].binPrev = i
                                    /\ c[t[i].binNext] = c[i]
      BY <1>4, <2>2 DEF ListsOK, t
    <3>2. u[i].binPrev = None => h[c[i]] = i
      BY <1>3, <1>10, <1>16, <2>2, <3>1 DEF head
    <3>3. u[i].binPrev # None => u[i].binPrev \in G /\ u[u[i].binPrev].binNext = i
      BY <1>3, <1>16, <2>2, <3>1
    <3>4. u[i].binNext # None => /\ u[i].binNext \in G /\ u[u[i].binNext].binPrev = i
                                 /\ c[u[i].binNext] = c[i]
      <4>1. t[i].binNext # None => t[i].binNext # head
        BY <1>1, <1>6, <2>2, <3>1 DEF t
      <4> QED BY <1>16, <2>2, <3>1, <4>1
    <3> QED BY <3>1, <3>2, <3>3, <3>4
  <2>3. /\ c[id] \in Bins /\ h[c[id]] = id /\ u[id].binPrev = None
        /\ u[id].binNext # None => /\ u[id].binNext \in G /\ u[u[id].binNext].binPrev = id
                                   /\ c[u[id].binNext] = c[id]
    BY <1>1, <1>6, <1>10, <1>16, <1>17
  <2> QED BY <1>14, <2>1, <2>2, <2>3 DEF ListsOK
<1> DEFINE l2 == [x \in S |-> IF x = id THEN 0 ELSE l[x] + 1]
<1>19. Reaches(q, G, c, l2)
  <2> HIDE DEF t
  <2>1. \A i \in F : l[i] \in Nat
    BY <1>5 DEF Reaches
  <2>2. \A i \in F : r.bin[c[i]] # None /\ l[r.bin[c[i]]] <= l[i]
    BY <1>5 DEF Reaches
  <2>3. \A i \in F : t[i].binNext # None => l[i] < l[t[i].binNext]
    BY <1>5 DEF Reaches, t
  <2>4. \A i, j \in F : c[i] = c[j] /\ l[i] = l[j] => i = j
    BY <1>5 DEF Reaches
  <2>5. \A i, j \in F : c[i] = c[j] /\ l[i] < l[j] => t[i].binNext # None /\ l[t[i].binNext] <= l[j]
    BY <1>5 DEF Reaches, t
  <2>6. l2[id] = 0 /\ \A i \in F : l2[i] = l[i] + 1
    BY <1>1, <1>2, <1>3
  <2> HIDE DEF l2
  <2>7. \A i \in G : l2[i] \in Nat
    BY <2>1, <2>6
  <2>8. /\ \A i \in F : c[i] \in Bins
        /\ \A i \in F : t[i].binNext # None => t[i].binNext \in F
        /\ \A b \in Bins : r.bin[b] # None => r.bin[b] \in F
    BY <1>4 DEF ListsOK, t
  <2>9. \A i \in G : h[c[i]] # None /\ l2[h[c[i]]] <= l2[i]
    <3>1. ASSUME NEW i \in G, c[i] = bin PROVE h[c[i]] # None /\ l2[h[c[i]]] <= l2[i]
      BY <1>1, <1>3, <1>10, <2>6, <2>7, <3>1
    <3>2. ASSUME NEW i \in G, c[i] # bin PROVE h[c[i]] # None /\ l2[h[c[i]]] <= l2[i]
      <4>1. i \in F /\ c[i] \in Bins
        BY <1>17, <2>8, <3>2
      <4>2. h[c[i]] = r.bin[c[i]] /\ r.bin[c[i]] \in F /\ h[c[i]] # None
        BY <1>10, <2>2, <2>8, <3>2, <4>1
      <4>3. l[r.bin[c[i]]] \in Nat /\ l[i] \in Nat /\ l[r.bin[c[i]]] <= l[i]
        BY <2>1, <2>2, <4>1, <4>2
      <4> QED BY <2>6, <4>1, <4>2, <4>3
    <3> QED BY <3>1, <3>2
  <2>10. \A i \in G : u[i].binNext # None => l2[i] < l2[u[i].binNext]
    <3>1. ASSUME head # None PROVE l2[id] < l2[head]
      BY <1>6, <2>1, <2>6, <3>1
    <3>2. ASSUME NEW i \in F, t[i].binNext # None PROVE l2[i] < l2[t[i].binNext]
      BY <2>1, <2>3, <2>6, <2>8, <3>2
    <3> QED BY <1>16, <3>1, <3>2
  <2>11. \A i, j \in G : c[i] = c[j] /\ l2[i] = l2[j] => i = j
    BY <2>1, <2>4, <2>6
  <2>12. \A i, j \in G : c[i] = c[j] /\ l2[i] < l2[j] => u[i].binNext # None /\ l2[u[i].binNext] <= l2[j]
    <3> SUFFICES ASSUME NEW i \in G, NEW j \in G, c[i] = c[j], l2[i] < l2[j]
                 PROVE  u[i].binNext # None /\ l2[u[i].binNext] <= l2[j]
      OBVIOUS
    <3>1. j \in F
      <4> SUFFICES ASSUME j = id PROVE FALSE
        OBVIOUS
      <4> QED BY <2>6, <2>7
    <3>2. CASE i = id
      <4>1. head # None /\ l[head] <= l[j] /\ head \in F
        BY <1>6, <1>17, <2>2, <3>1, <3>2 DEF head
      <4> QED BY <1>16, <2>1, <2>6, <3>1, <3>2, <4>1
    <3>3. CASE i # id
      <4>1. i \in F /\ l[i] \in Nat /\ l[j] \in Nat
        BY <2>1, <3>1, <3>3
      <4>2. l[i] < l[j]
        BY <2>6, <3>1, <4>1
      <4>3. t[i].binNext # None /\ l[t[i].binNext] <= l[j] /\ t[i].binNext \in F
        BY <2>5, <2>8, <3>1, <4>1, <4>2
      <4> QED BY <1>16, <2>1, <2>6, <3>1, <4>1, <4>3
    <3> QED BY <3>2, <3>3
  <2> QED BY <1>14, <2>7, <2>9, <2>10, <2>11, <2>12, Zenon DEF Reaches
<1>20. G \subseteq DOMAIN q.node
  BY <1>1, <1>2, <1>9, <1>14 DEF Tables
<1>21. Filed(q, G, c)
  BY <1>15, <1>18, <1>19, <1>20 DEF Filed
<1>22. Stacked(q, N, B \cup {id})
  <2> DEFINE g == r.freeNodes
             I == r.ptr .. N - 1
             J == r.ptr + 1 .. N - 1
  <2>1. /\ B \subseteq S
        /\ \A i, j \in I : g[i] = g[j] => i = j
        /\ \A x \in S : x \in B <=> \A i \in I : g[i] # x
    BY DEF Stacked
  <2>2. g[r.ptr] = id
    BY DEF id, NextFreeNode
  <2>3. \A i : i \in I <=> i = r.ptr \/ i \in J
    BY <1>1
  <2>4. \A i \in J : i # r.ptr
    BY <1>1
  <2>5. q.freeNodes = g /\ q.ptr .. N - 1 = J
    BY <1>14
  <2> HIDE DEF g, I, J
  <2>6. \A i, j \in J : g[i] = g[j] => i = j
    BY <2>1, <2>3
  <2>7. \A x \in S : x \in B \cup {id} <=> \A i \in J : g[i] # x
    BY <2>1, <2>2, <2>3, <2>4
  <2>8. B \cup {id} \subseteq S
    BY <1>2, <2>1
  <2> QED BY <2>5, <2>6, <2>7, <2>8, Zenon DEF Stacked
<1>23. /\ \A i \in S \ {id} : SameBlock(q.node[i], r.node[i])
       /\ SameBlock(q.node[id], [Unused EXCEPT !.offset = offset, !.size = size])
  <2>1. \A i \in S \ {id} : SameBlock(u[i], t[i])
    BY <1>8, <1>9
  <2>2. SameBlock(u[id], filed)
    BY <1>2, <1>8, <1>9
  <2> HIDE DEF t
  <2>3. SameBlock(u[id], [Unused EXCEPT !.offset = offset, !.size = size])
    BY <1>7, <2>2 DEF SameBlock
  <2> QED BY <1>14, <2>1, <2>3 DEF t
<1> QED BY <1>2, <1>3, <1>11, <1>13, <1>14, <1>21, <1>22, <1>23, Zenon DEF id, AfterInsert

-----------------------------------------------------------------------------
(* The chain of neighbours.                                                *)

(* Two nodes that differ in their neighbours only.                         *)
SameButNeighbours(y, x) ==
    /\ y.offset = x.offset /\ y.size = x.size /\ y.used = x.used
    /\ y.binPrev = x.binPrev /\ y.binNext = x.binNext

WithLeft(t, k, v) == [t EXCEPT ![k].prev = v]

WithRight(t, k, v) == [t EXCEPT ![k].next = v]

LEMMA LeftSet ==
    ASSUME NEW N \in Nat, NEW t \in Tables(N), NEW k \in Numbers(N), NEW v \in Links, NEW u,
           u = WithLeft(t, k, v)
    PROVE  /\ u \in Tables(N)
           /\ \A i \in Numbers(N) : /\ SameButNeighbours(u[i], t[i]) /\ u[i].next = t[i].next
                                    /\ u[i].prev = IF i = k THEN v ELSE t[i].prev
<1> DEFINE S == Numbers(N)
<1>1. u \in Tables(N)
  BY TableSet DEF WithLeft
<1>2. \A i \in S : t[i] \in NodeRecord /\ u[i] = IF i = k THEN [t[i] EXCEPT !.prev = v] ELSE t[i]
  BY DEF Tables, WithLeft
<1> HIDE DEF S
<1>3. \A i \in S : /\ SameButNeighbours(u[i], t[i]) /\ u[i].next = t[i].next
                   /\ u[i].prev = IF i = k THEN v ELSE t[i].prev
  BY <1>2 DEF SameButNeighbours, NodeRecord
<1> QED BY <1>1, <1>3 DEF S

LEMMA RightSet ==
    ASSUME NEW N \in Nat, NEW t \in Tables(N), NEW k \in Numbers(N), NEW v \in Links, NEW u,
           u = WithRight(t, k, v)
    PROVE  /\ u \in Tables(N)
           /\ \A i \in Numbers(N) : /\ SameButNeighbours(u[i], t[i]) /\ u[i].prev = t[i].prev
                                    /\ u[i].next = IF i = k THEN v ELSE t[i].next
<1> DEFINE S == Numbers(N)
<1>1. u \in Tables(N)
  BY TableSet DEF WithRight
<1>2. \A i \in S : t[i] \in NodeRecord /\ u[i] = IF i = k THEN [t[i] EXCEPT !.next = v] ELSE t[i]
  BY DEF Tables, WithRight
<1> HIDE DEF S
<1>3. \A i \in S : /\ SameButNeighbours(u[i], t[i]) /\ u[i].prev = t[i].prev
                   /\ u[i].next = IF i = k THEN v ELSE t[i].next
  BY <1>2 DEF SameButNeighbours, NodeRecord
<1> QED BY <1>1, <1>3 DEF S

(* The links that free() and sliceTopBinNode() set.                        *)
AfterChain(q, r, N, id, prev, next) ==
    /\ q \in Objects(N) /\ SameCounters(q, r)
    /\ q.bin = r.bin /\ q.leaf = r.leaf /\ q.top = r.top
    /\ \A i \in Numbers(N) :
         /\ SameButNeighbours(q.node[i], r.node[i])
         /\ q.node[i].prev = IF i = next THEN id ELSE IF i = id THEN prev ELSE r.node[i].prev
         /\ q.node[i].next = IF i = prev THEN id ELSE IF i = id THEN next ELSE r.node[i].next

LEMMA ChainedNode ==
    ASSUME NEW N \in Nat, NEW r \in Objects(N), NEW id \in Numbers(N),
           NEW prev \in Numbers(N) \cup {None}, NEW next \in Numbers(N) \cup {None},
           prev # id, next # id
    PROVE  AfterChain(Chain(r, id, prev, next), r, N, id, prev, next)
<1> DEFINE S == Numbers(N)
           t == r.node
           t1 == [t EXCEPT ![id].prev = prev]
           t2 == [t1 EXCEPT ![id].next = next]
           t3 == IF prev = None THEN t2 ELSE [t2 EXCEPT ![prev].next = id]
           u == IF next = None THEN t3 ELSE [t3 EXCEPT ![next].prev = id]
           q == [r EXCEPT !.node = u]
<1>1. /\ t \in Tables(N) /\ prev \in Links /\ next \in Links /\ id \in Links
      /\ None \notin S /\ (prev = None \/ prev \in S) /\ (next = None \/ next \in S)
  BY ObjectFields, MiniramAssumption DEF Numbers, Links
<1>2. Chain(r, id, prev, next) = q
  BY Zenon DEF Chain
<1>3. /\ t1 = WithLeft(t, id, prev) /\ t2 = WithRight(t1, id, next)
      /\ t3 = IF prev = None THEN t2 ELSE WithRight(t2, prev, id)
      /\ u = IF next = None THEN t3 ELSE WithLeft(t3, next, id)
  BY Zenon DEF WithLeft, WithRight
<1> HIDE DEF t, t1, t2, t3, u
<1>4. /\ t1 \in Tables(N)
      /\ \A i \in S : /\ SameButNeighbours(t1[i], t[i]) /\ t1[i].next = t[i].next
                      /\ t1[i].prev = IF i = id THEN prev ELSE t[i].prev
  <2>1. t1 = WithLeft(t, id, prev) /\ t \in Tables(N) /\ prev \in Links
    BY <1>1, <1>3
  <2> QED BY <2>1, LeftSet
<1>5. /\ t2 \in Tables(N)
      /\ \A i \in S : /\ SameButNeighbours(t2[i], t1[i]) /\ t2[i].prev = t1[i].prev
                      /\ t2[i].next = IF i = id THEN next ELSE t1[i].next
  <2>1. t2 = WithRight(t1, id, next) /\ t1 \in Tables(N) /\ next \in Links
    BY <1>1, <1>3, <1>4
  <2> QED BY <2>1, RightSet
<1>6. /\ t3 \in Tables(N)
      /\ \A i \in S : /\ SameButNeighbours(t3[i], t2[i]) /\ t3[i].prev = t2[i].prev
                      /\ t3[i].next = IF i = prev THEN id ELSE t2[i].next
  <2>1. CASE prev = None
    BY <1>1, <1>3, <1>5, <2>1 DEF SameButNeighbours
  <2>2. CASE prev # None
    <3>1. t3 = WithRight(t2, prev, id) /\ t2 \in Tables(N) /\ id \in Links /\ prev \in S
      BY <1>1, <1>3, <1>5, <2>2
    <3> QED BY <3>1, RightSet
  <2> QED BY <2>1, <2>2
<1>7. /\ u \in Tables(N)
      /\ \A i \in S : /\ SameButNeighbours(u[i], t3[i]) /\ u[i].next = t3[i].next
                      /\ u[i].prev = IF i = next THEN id ELSE t3[i].prev
  <2>1. CASE next = None
    BY <1>1, <1>3, <1>6, <2>1 DEF SameButNeighbours
  <2>2. CASE next # None
    <3>1. u = WithLeft(t3, next, id) /\ t3 \in Tables(N) /\ id \in Links /\ next \in S
      BY <1>1, <1>3, <1>6, <2>2
    <3> QED BY <3>1, LeftSet
  <2> QED BY <2>1, <2>2
<1>8. \A i \in S : /\ SameButNeighbours(u[i], t[i])
                   /\ u[i].prev = IF i = next THEN id ELSE IF i = id THEN prev ELSE t[i].prev
                   /\ u[i].next = IF i = prev THEN id ELSE IF i = id THEN next ELSE t[i].next
  BY <1>4, <1>5, <1>6, <1>7 DEF SameButNeighbours
<1>9. /\ q \in Objects(N) /\ q.node = u /\ q.bin = r.bin /\ q.leaf = r.leaf /\ q.top = r.top
      /\ SameCounters(q, r)
  BY <1>7, ObjectSet, ObjectDomain DEF SameCounters
<1>10. AfterChain(q, r, N, id, prev, next)
  BY <1>8, <1>9 DEF AfterChain, t
<1> QED BY <1>2, <1>10

(* reserve_nodes(): the nodes there are stay, the new ones are on the      *)
(* stack.                                                                  *)
LEMMA ReservedNodes ==
    ASSUME NEW N \in Nat, NEW r \in Objects(N), NEW B, Stacked(r, N, B), NEW n \in Nat, n > N
    PROVE  LET q == ReserveNodes(r, n)
           IN  /\ q \in Objects(n) /\ Stacked(q, n, B)
               /\ \A i \in Numbers(N) : q.node[i] = r.node[i]
               /\ \A i \in Numbers(n) \ Numbers(N) : q.node[i] = Unused
               /\ q.bin = r.bin /\ q.leaf = r.leaf /\ q.top = r.top
               /\ q.ptr = r.ptr /\ q.free = r.free
               /\ q.capacity = r.capacity /\ q.failed = r.failed
<1> DEFINE u == [i \in 0 .. n - 1 |-> IF i < N THEN r.node[i] ELSE Unused]
           g == [i \in 0 .. n - 1 |-> IF i < N THEN r.freeNodes[i] ELSE i]
           q1 == [r EXCEPT !.node = u]
           q == [q1 EXCEPT !.freeNodes = g]
<1>1. /\ r.node \in [Numbers(N) -> NodeRecord] /\ r.freeNodes \in [Numbers(N) -> Numbers(N)]
      /\ r.ptr \in 0 .. N /\ r.bin \in [Bins -> Numbers(N) \cup {None}]
      /\ r.leaf \subseteq Bins /\ r.top \subseteq Nat /\ r.free \in Int
      /\ r.capacity \in Nat /\ r.failed \in BOOLEAN
  BY ObjectFields DEF Tables
<1>2. Numbers(N) \subseteq Numbers(n) /\ Numbers(n) = 0 .. n - 1 /\ Numbers(N) = 0 .. N - 1
  BY DEF Numbers
<1>3. ReserveNodes(r, n) = q
  <2>1. Nodes(r) = N
    BY NodesIs
  <2>2. ~ (n <= N)
    OBVIOUS
  <2>3. ReserveNodes(r, n) = [r EXCEPT !.node = u, !.freeNodes = g]
    BY <2>1, <2>2, Zenon DEF ReserveNodes
  <2> HIDE DEF u, g
  <2>4. [r EXCEPT !.node = u, !.freeNodes = g] = q
    BY ObjectDomain
  <2> QED BY <2>3, <2>4
<1>4. /\ u \in Tables(n) /\ \A i \in Numbers(N) : u[i] = r.node[i]
      /\ \A i \in Numbers(n) \ Numbers(N) : u[i] = Unused
  <2>1. \A i \in Numbers(n) : (IF i < N THEN r.node[i] ELSE Unused) \in NodeRecord
    BY <1>1, <1>2, UnusedIsNode
  <2>2. u \in [Numbers(n) -> NodeRecord]
    BY <1>2, <2>1
  <2> QED BY <1>2, <2>2 DEF Tables
<1>5. /\ g \in [Numbers(n) -> Numbers(n)]
      /\ \A i \in Numbers(N) : g[i] = r.freeNodes[i]
      /\ \A i \in N .. n - 1 : g[i] = i
  BY <1>1, <1>2
<1>6. r.ptr \in 0 .. n /\ r.bin \in [Bins -> Numbers(n) \cup {None}]
  <2>1. Numbers(N) \cup {None} \subseteq Numbers(n) \cup {None}
    BY <1>2
  <2>2. r.bin \in [Bins -> Numbers(n) \cup {None}]
    BY <1>1, <2>1, Zenon
  <2> QED BY <1>1, <2>2
<1>7. /\ q.node = u /\ q.freeNodes = g
      /\ q.bin = r.bin /\ q.leaf = r.leaf /\ q.top = r.top
      /\ q.ptr = r.ptr /\ q.free = r.free
      /\ q.capacity = r.capacity /\ q.failed = r.failed
  BY ObjectDomain
<1>8. q \in Objects(n)
  <2> DEFINE S1 == Tables(N)
             S2 == [Numbers(N) -> Numbers(N)]
             S3 == 0 .. N
             S4 == [Bins -> Numbers(N) \cup {None}]
             T1 == Tables(n)
             T2 == [Numbers(n) -> Numbers(n)]
             T3 == 0 .. n
             T4 == [Bins -> Numbers(n) \cup {None}]
             T5 == SUBSET Bins
             T6 == SUBSET Nat
             T7 == Int
             T8 == Nat
             T9 == BOOLEAN
  <2>1. /\ Objects(N) = [node : S1, freeNodes : S2, ptr : S3, bin : S4, leaf : T5, top : T6,
                         free : T7, capacity : T8, failed : T9]
        /\ Objects(n) = [node : T1, freeNodes : T2, ptr : T3, bin : T4, leaf : T5, top : T6,
                         free : T7, capacity : T8, failed : T9]
    BY Zenon DEF Objects
  <2>2. u \in T1 /\ g \in T2 /\ r.ptr \in T3 /\ r.bin \in T4
    BY <1>4, <1>5, <1>6, Zenon
  <2> HIDE DEF u, g, S1, S2, S3, S4, T1, T2, T3, T4, T5, T6, T7, T8, T9
  <2>3. r \in [node : S1, freeNodes : S2, ptr : T3, bin : T4, leaf : T5, top : T6,
               free : T7, capacity : T8, failed : T9]
    BY <2>1, <2>2
  <2>4. q1 \in [node : T1, freeNodes : S2, ptr : T3, bin : T4, leaf : T5, top : T6,
                free : T7, capacity : T8, failed : T9]
    BY <2>2, <2>3
  <2> HIDE DEF q1
  <2>5. q \in [node : T1, freeNodes : T2, ptr : T3, bin : T4, leaf : T5, top : T6,
               free : T7, capacity : T8, failed : T9]
    BY <2>2, <2>4
  <2> QED BY <2>1, <2>5
<1> HIDE DEF q, q1, u, g
<1>9. Stacked(q, n, B)
  <2> DEFINE f == r.freeNodes
             I == r.ptr .. N - 1
             J == r.ptr .. n - 1
             K == N .. n - 1
  <2>1. /\ B \subseteq Numbers(N)
        /\ \A i, j \in I : f[i] = f[j] => i = j
        /\ \A x \in Numbers(N) : x \in B <=> \A i \in I : f[i] # x
    BY DEF Stacked
  <2>2. \A i : i \in J <=> i \in I \/ i \in K
    BY <1>1
  <2>3. \A i \in I : i \in Numbers(N) /\ g[i] = f[i] /\ g[i] \in Numbers(N)
    <3>1. \A i \in I : i \in Numbers(N)
      BY <1>1 DEF Numbers
    <3>2. \A i \in Numbers(N) : g[i] = f[i] /\ f[i] \in Numbers(N)
      BY <1>1, <1>5
    <3> QED BY <3>1, <3>2
  <2>4. \A i \in K : g[i] = i /\ g[i] \notin Numbers(N)
    BY <1>2, <1>5
  <2>5. \A x \in Numbers(n) : x \in Numbers(N) \/ x \in K
    BY <1>2
  <2>6. B \subseteq Numbers(n)
    BY <1>2, <2>1
  <2> HIDE DEF f, I, J, K
  <2>7. \A i, j \in J : g[i] = g[j] => i = j
    BY <2>1, <2>2, <2>3, <2>4
  <2>8. \A x \in Numbers(n) : x \in B <=> \A i \in J : g[i] # x
    <3>1. ASSUME NEW x \in Numbers(N) PROVE x \in B <=> \A i \in J : g[i] # x
      BY <2>1, <2>2, <2>3, <2>4
    <3>2. ASSUME NEW x \in K PROVE x \notin B /\ ~ \A i \in J : g[i] # x
      BY <2>1, <2>2, <2>4
    <3> QED BY <2>5, <3>1, <3>2
  <2>9. q.freeNodes = g /\ q.ptr .. n - 1 = J
    BY <1>7 DEF J
  <2> QED BY <2>6, <2>7, <2>8, <2>9, Zenon DEF Stacked
<1> QED BY <1>3, <1>4, <1>7, <1>8, <1>9

(* Filing looks at the filed blocks only.                                  *)
LEMMA FiledFrame ==
    ASSUME NEW r, NEW q, NEW F, NEW c, Filed(r, F, c), F \subseteq DOMAIN q.node,
           \A i \in F : /\ q.node[i].binPrev = r.node[i].binPrev
                        /\ q.node[i].binNext = r.node[i].binNext,
           q.bin = r.bin, q.leaf = r.leaf, q.top = r.top
    PROVE  Filed(q, F, c)
<1>1. ListsOK(r, F, c) /\ BitmapsOK(r)
  BY DEF Filed
<1>2. PICK l : Reaches(r, F, c, l)
  BY DEF Filed
<1>3. ListsOK(q, F, c)
  <2>1. \A b \in Bins : q.bin[b] # None =>
          q.bin[b] \in F /\ c[q.bin[b]] = b /\ q.node[q.bin[b]].binPrev = None
    BY <1>1 DEF ListsOK
  <2>2. ASSUME NEW i \in F
        PROVE  /\ c[i] \in Bins
               /\ q.node[i].binPrev = None => q.bin[c[i]] = i
               /\ q.node[i].binPrev # None =>
                    q.node[i].binPrev \in F /\ q.node[q.node[i].binPrev].binNext = i
               /\ q.node[i].binNext # None =>
                    /\ q.node[i].binNext \in F /\ q.node[q.node[i].binNext].binPrev = i
                    /\ c[q.node[i].binNext] = c[i]
    BY <1>1 DEF ListsOK
  <2> QED BY <2>1, <2>2 DEF ListsOK
<1>4. BitmapsOK(q)
  BY <1>1, Zenon DEF BitmapsOK
<1>5. Reaches(q, F, c, l)
  BY <1>2, Zenon DEF Reaches
<1> QED BY <1>3, <1>4, <1>5 DEF Filed

-----------------------------------------------------------------------------
(* Tilings.  The members of B lie one behind the other from 0 to total: k  *)
(* ranks them, o and s are their offsets and sizes, p and n the neighbours.*)

Placed(B, k, o, s, total) ==
    /\ \A i \in B : k[i] \in Nat /\ o[i] \in Nat /\ s[i] \in Nat /\ o[i] + s[i] <= total
    /\ \A i, j \in B : k[i] = k[j] => i = j
    /\ \A i, j \in B : k[i] < k[j] => o[i] + s[i] <= o[j]

Linked(B, k, p, n) ==
    /\ \A i \in B : p[i] # None => p[i] \in B /\ n[p[i]] = i
    /\ \A i \in B : n[i] # None => n[i] \in B /\ p[n[i]] = i /\ k[i] < k[n[i]]
    /\ \A i, j \in B : k[i] < k[j] => n[i] # None /\ p[j] # None /\ k[n[i]] <= k[j]

Gapless(B, o, s, p, n, total) ==
    /\ \A i \in B : n[i] # None => o[n[i]] = o[i] + s[i]
    /\ \A i \in B : p[i] = None => o[i] = 0
    /\ \A i \in B : n[i] = None => o[i] + s[i] = total

Tiled(B, k, o, s, p, n, total) ==
    Placed(B, k, o, s, total) /\ Linked(B, k, p, n) /\ Gapless(B, o, s, p, n, total)

LEMMA TiledFrame ==
    ASSUME NEW B, NEW k, NEW o, NEW s, NEW p, NEW n, NEW total, Tiled(B, k, o, s, p, n, total),
           NEW o2, NEW s2, NEW p2, NEW n2,
           \A i \in B : o2[i] = o[i] /\ s2[i] = s[i] /\ p2[i] = p[i] /\ n2[i] = n[i]
    PROVE  Tiled(B, k, o2, s2, p2, n2, total)
<1>1. Placed(B, k, o2, s2, total)
  BY Zenon DEF Tiled, Placed
<1>2. Linked(B, k, p2, n2)
  BY DEF Tiled, Linked
<1>3. Gapless(B, o2, s2, p2, n2, total)
  BY DEF Tiled, Linked, Gapless
<1> QED BY <1>1, <1>2, <1>3 DEF Tiled

(* The member id is cut in two at m, x is its rear.                        *)
CutInTwo(B, k, o, s, p, n, id, x, m, k2, o2, s2, p2, n2) ==
    /\ x \notin B /\ x # None /\ None \notin B /\ m \in Nat /\ m <= s[id]
    /\ k2[x] = 2 * k[id] + 1 /\ \A j \in B : k2[j] = 2 * k[j]
    /\ o2[x] = o[id] + m /\ \A j \in B : o2[j] = o[j]
    /\ s2[x] = s[id] - m /\ s2[id] = m /\ \A j \in B \ {id} : s2[j] = s[j]
    /\ p2[x] = id /\ \A j \in B : p2[j] = IF j = n[id] THEN x ELSE p[j]
    /\ n2[x] = n[id] /\ n2[id] = x /\ \A j \in B \ {id} : n2[j] = n[j]

LEMMA TiledSplit ==
    ASSUME NEW B, NEW k, NEW o, NEW s, NEW p, NEW n, NEW total \in Nat,
           Tiled(B, k, o, s, p, n, total), NEW id \in B, NEW x, NEW m,
           NEW k2, NEW o2, NEW s2, NEW p2, NEW n2,
           CutInTwo(B, k, o, s, p, n, id, x, m, k2, o2, s2, p2, n2)
    PROVE  Tiled(B \cup {x}, k2, o2, s2, p2, n2, total)
<1> USE DEF CutInTwo
<1>1. \A i \in B : k[i] \in Nat /\ o[i] \in Nat /\ s[i] \in Nat /\ o[i] + s[i] <= total
  BY DEF Tiled, Placed
<1>2. \A i, j \in B : k[i] = k[j] => i = j
  BY DEF Tiled, Placed
<1>3. \A i, j \in B : k[i] < k[j] => o[i] + s[i] <= o[j]
  BY DEF Tiled, Placed
<1>4. \A i \in B : p[i] # None => p[i] \in B /\ n[p[i]] = i
  BY DEF Tiled, Linked
<1>5. \A i \in B : n[i] # None => n[i] \in B /\ p[n[i]] = i /\ k[i] < k[n[i]]
  BY DEF Tiled, Linked
<1>6. \A i, j \in B : k[i] < k[j] => n[i] # None /\ p[j] # None /\ k[n[i]] <= k[j]
  BY DEF Tiled, Linked
<1>7. /\ \A i \in B : n[i] # None => o[n[i]] = o[i] + s[i]
      /\ \A i \in B : p[i] = None => o[i] = 0
      /\ \A i \in B : n[i] = None => o[i] + s[i] = total
  BY DEF Tiled, Gapless
<1> DEFINE C == B \cup {x}
<1>8. Placed(C, k2, o2, s2, total)
  <2>1. \A i \in C : k2[i] \in Nat /\ o2[i] \in Nat /\ s2[i] \in Nat /\ o2[i] + s2[i] <= total
    <3>1. k2[x] \in Nat /\ o2[x] \in Nat /\ s2[x] \in Nat /\ o2[x] + s2[x] <= total
      BY <1>1
    <3>2. k2[id] \in Nat /\ o2[id] \in Nat /\ s2[id] \in Nat /\ o2[id] + s2[id] <= total
      BY <1>1
    <3>3. \A i \in B \ {id} : k2[i] \in Nat /\ o2[i] \in Nat /\ s2[i] \in Nat /\ o2[i] + s2[i] <= total
      BY <1>1
    <3> QED BY <3>1, <3>2, <3>3
  <2>2. \A i, j \in C : k2[i] = k2[j] => i = j
    <3>1. \A i \in B : k2[i] # k2[x]
      <4>1. \A u, v \in Nat : 2 * u # 2 * v + 1
        OBVIOUS
      <4>2. \A i \in B : k[i] \in Nat
        BY <1>1
      <4> QED BY <4>1, <4>2
    <3>2. \A i, j \in B : k2[i] = k2[j] => i = j
      <4> SUFFICES ASSUME NEW i \in B, NEW j \in B, k2[i] = k2[j] PROVE i = j
        OBVIOUS
      <4>1. k[i] \in Nat /\ k[j] \in Nat
        BY <1>1
      <4>2. 2 * k[i] = 2 * k[j]
        OBVIOUS
      <4>3. k[i] = k[j]
        BY <4>1, <4>2
      <4> QED BY <1>2, <4>3
    <3> QED BY <3>1, <3>2
  <2>3. \A i, j \in C : k2[i] < k2[j] => o2[i] + s2[i] <= o2[j]
    <3> SUFFICES ASSUME NEW i \in C, NEW j \in C, k2[i] < k2[j] PROVE o2[i] + s2[i] <= o2[j]
      OBVIOUS
    <3>1. CASE i = x
      <4>1. j \in B /\ k[id] < k[j]
        BY <1>1, <2>1, <3>1
      <4> QED BY <1>1, <1>3, <3>1, <4>1
    <3>2. CASE j = x
      <4>1. i \in B /\ (i = id \/ k[i] < k[id])
        BY <1>1, <1>2, <2>1, <3>2
      <4>2. CASE i = id
        BY <1>1, <3>2, <4>2
      <4>3. CASE i # id
        BY <1>1, <1>3, <3>2, <4>1, <4>3
      <4> QED BY <4>2, <4>3
    <3>3. CASE i # x /\ j # x
      <4>1. i \in B /\ j \in B /\ k[i] < k[j]
        BY <1>1, <3>3
      <4>2. o[i] + s[i] <= o[j] /\ s2[i] <= s[i] /\ s2[i] \in Nat
        BY <1>1, <1>3, <2>1, <4>1
      <4> QED BY <1>1, <4>1, <4>2
    <3> QED BY <3>1, <3>2, <3>3
  <2> QED BY <2>1, <2>2, <2>3 DEF Placed
<1>9. Linked(C, k2, p2, n2)
  <2>1. \A i \in C : p2[i] # None => p2[i] \in C /\ n2[p2[i]] = i
    <3>1. p2[x] \in C /\ n2[p2[x]] = x
      OBVIOUS
    <3>2. ASSUME NEW i \in B, p2[i] # None PROVE p2[i] \in C /\ n2[p2[i]] = i
      <4>1. CASE i = n[id]
        BY <3>2, <4>1
      <4>2. CASE i # n[id]
        BY <1>4, <3>2, <4>2
      <4> QED BY <4>1, <4>2
    <3> QED BY <3>1, <3>2
  <2>2. \A i \in C : n2[i] # None => n2[i] \in C /\ p2[n2[i]] = i /\ k2[i] < k2[n2[i]]
    <3>1. n2[x] # None => n2[x] \in C /\ p2[n2[x]] = x /\ k2[x] < k2[n2[x]]
      <4>1. n[id] # None => n[id] \in B /\ k[id] < k[n[id]] /\ k[n[id]] \in Nat /\ k[id] \in Nat
        BY <1>1, <1>5
      <4> QED BY <4>1
    <3>2. n2[id] \in C /\ p2[n2[id]] = id /\ k2[id] < k2[n2[id]]
      BY <1>1
    <3>3. ASSUME NEW i \in B \ {id}, n2[i] # None
          PROVE  n2[i] \in C /\ p2[n2[i]] = i /\ k2[i] < k2[n2[i]]
      <4>1. n2[i] = n[i] /\ n[i] \in B /\ p[n[i]] = i /\ k[i] < k[n[i]]
        BY <1>5, <3>3
      <4>2. n[i] # n[id]
        BY <1>4, <1>5, <3>3, <4>1
      <4>3. k[i] \in Nat /\ k[n[i]] \in Nat
        BY <1>1, <4>1
      <4> QED BY <4>1, <4>2, <4>3
    <3> QED BY <3>1, <3>2, <3>3
  <2>3. \A i, j \in C : k2[i] < k2[j] => n2[i] # None /\ p2[j] # None /\ k2[n2[i]] <= k2[j]
    <3> SUFFICES ASSUME NEW i \in C, NEW j \in C, k2[i] < k2[j]
                 PROVE  n2[i] # None /\ p2[j] # None /\ k2[n2[i]] <= k2[j]
      OBVIOUS
    <3>1. CASE i = x
      <4>1. j \in B /\ k[id] < k[j]
        BY <1>1, <3>1
      <4>2. n[id] # None /\ p[j] # None /\ k[n[id]] <= k[j] /\ n[id] \in B
        BY <1>5, <1>6, <4>1
      <4> QED BY <1>1, <3>1, <4>1, <4>2
    <3>2. CASE i = id
      <4>1. CASE j = x
        BY <1>1, <3>2, <4>1, id # None
      <4>2. CASE j # x
        <5>1. j \in B /\ k[id] < k[j]
          BY <1>1, <3>2, <4>2
        <5>2. p[j] # None
          BY <1>6, <5>1
        <5> QED BY <1>1, <3>2, <5>1, <5>2
      <4> QED BY <4>1, <4>2
    <3>3. CASE i # x /\ i # id
      <4>1. CASE j = x
        <5>1. i \in B /\ k[i] < k[id]
          BY <1>1, <1>2, <3>3, <4>1
        <5>2. n[i] # None /\ n[i] \in B /\ k[n[i]] <= k[id]
          BY <1>5, <1>6, <5>1
        <5> QED BY <1>1, <3>3, <4>1, <5>1, <5>2, id # None
      <4>2. CASE j # x
        <5>1. i \in B /\ j \in B /\ k[i] < k[j]
          BY <1>1, <3>3, <4>2
        <5>2. n[i] # None /\ n[i] \in B /\ k[n[i]] <= k[j] /\ p[j] # None
          BY <1>5, <1>6, <5>1
        <5> QED BY <1>1, <3>3, <5>1, <5>2
      <4> QED BY <4>1, <4>2
    <3> QED BY <3>1, <3>2, <3>3
  <2> QED BY <2>1, <2>2, <2>3 DEF Linked
<1>10. Gapless(C, o2, s2, p2, n2, total)
  <2>1. \A i \in C : n2[i] # None => o2[n2[i]] = o2[i] + s2[i]
    <3>1. n2[x] # None => o2[n2[x]] = o2[x] + s2[x]
      <4>1. n[id] # None => n[id] \in B /\ o[n[id]] = o[id] + s[id]
        BY <1>5, <1>7
      <4> QED BY <1>1, <4>1
    <3>2. o2[n2[id]] = o2[id] + s2[id]
      BY <1>1
    <3>3. ASSUME NEW i \in B \ {id}, n2[i] # None PROVE o2[n2[i]] = o2[i] + s2[i]
      BY <1>1, <1>5, <1>7, <3>3
    <3> QED BY <3>1, <3>2, <3>3
  <2>2. \A i \in C : p2[i] = None => o2[i] = 0
    BY <1>7
  <2>3. \A i \in C : n2[i] = None => o2[i] + s2[i] = total
    <3>1. n2[x] = None => o2[x] + s2[x] = total
      <4>1. o[id] \in Nat /\ s[id] \in Nat /\ o2[x] + s2[x] = o[id] + s[id]
        BY <1>1
      <4>2. n[id] = None => o[id] + s[id] = total
        BY <1>7
      <4> QED BY <4>1, <4>2
    <3>2. \A i \in B \ {id} : n2[i] = None => o2[i] + s2[i] = total
      BY <1>1, <1>7
    <3> QED BY <3>1, <3>2
  <2> QED BY <2>1, <2>2, <2>3 DEF Gapless
<1> QED BY <1>8, <1>9, <1>10 DEF Tiled

(* The member id takes over its right neighbour x.                         *)
TakesNext(B, o, s, p, n, id, x, o2, s2, p2, n2) ==
    /\ x = n[id] /\ x # None /\ None \notin B
    /\ \A j \in B \ {x} : o2[j] = o[j]
    /\ s2[id] = s[id] + s[x] /\ \A j \in B \ {x, id} : s2[j] = s[j]
    /\ \A j \in B \ {x} : p2[j] = IF j = n[x] THEN id ELSE p[j]
    /\ n2[id] = n[x] /\ \A j \in B \ {x, id} : n2[j] = n[j]

LEMMA TiledAbsorbNext ==
    ASSUME NEW B, NEW k, NEW o, NEW s, NEW p, NEW n, NEW total \in Nat,
           Tiled(B, k, o, s, p, n, total), NEW id \in B, NEW x,
           NEW o2, NEW s2, NEW p2, NEW n2, TakesNext(B, o, s, p, n, id, x, o2, s2, p2, n2)
    PROVE  Tiled(B \ {x}, k, o2, s2, p2, n2, total)
<1> USE DEF TakesNext
<1>1. \A i \in B : k[i] \in Nat /\ o[i] \in Nat /\ s[i] \in Nat /\ o[i] + s[i] <= total
  BY DEF Tiled, Placed
<1>2. \A i, j \in B : k[i] = k[j] => i = j
  BY DEF Tiled, Placed
<1>3. \A i, j \in B : k[i] < k[j] => o[i] + s[i] <= o[j]
  BY DEF Tiled, Placed
<1>4. \A i \in B : p[i] # None => p[i] \in B /\ n[p[i]] = i
  BY DEF Tiled, Linked
<1>5. \A i \in B : n[i] # None => n[i] \in B /\ p[n[i]] = i /\ k[i] < k[n[i]]
  BY DEF Tiled, Linked
<1>6. \A i, j \in B : k[i] < k[j] => n[i] # None /\ p[j] # None /\ k[n[i]] <= k[j]
  BY DEF Tiled, Linked
<1>7. /\ \A i \in B : n[i] # None => o[n[i]] = o[i] + s[i]
      /\ \A i \in B : p[i] = None => o[i] = 0
      /\ \A i \in B : n[i] = None => o[i] + s[i] = total
  BY DEF Tiled, Gapless
<1> DEFINE C == B \ {x}
<1>8. /\ x \in B /\ p[x] = id /\ k[id] < k[x] /\ o[x] = o[id] + s[id] /\ x # id
      /\ id \in C /\ k[id] \in Nat /\ k[x] \in Nat
      /\ o[id] \in Nat /\ s[id] \in Nat /\ s[x] \in Nat /\ o[x] + s[x] <= total
  <2>1. x \in B /\ p[x] = id /\ k[id] < k[x] /\ o[x] = o[id] + s[id]
    BY <1>5, <1>7
  <2>2. k[id] \in Nat /\ k[x] \in Nat
    BY <1>1, <2>1
  <2>3. x # id
    BY <2>1, <2>2
  <2> QED BY <1>1, <2>1, <2>2, <2>3
<1>9. Placed(C, k, o2, s2, total)
  <2>1. \A i \in C : k[i] \in Nat /\ o2[i] \in Nat /\ s2[i] \in Nat /\ o2[i] + s2[i] <= total
    BY <1>1, <1>8
  <2>2. \A i, j \in C : k[i] = k[j] => i = j
    BY <1>2
  <2>3. \A i, j \in C : k[i] < k[j] => o2[i] + s2[i] <= o2[j]
    <3> SUFFICES ASSUME NEW i \in C, NEW j \in C, k[i] < k[j] PROVE o2[i] + s2[i] <= o2[j]
      OBVIOUS
    <3>1. CASE i = id
      <4>1. k[x] <= k[j] /\ k[j] \in Nat /\ k[x] # k[j]
        <5>1. j \in B /\ j # x
          OBVIOUS
        <5> QED BY <1>1, <1>2, <1>6, <1>8, <3>1, <5>1
      <4>2. k[x] < k[j]
        BY <1>8, <4>1
      <4>3. o[x] + s[x] <= o[j]
        BY <1>3, <1>8, <4>2
      <4> QED BY <1>8, <3>1, <4>3
    <3>2. CASE i # id
      BY <1>3, <3>2
    <3> QED BY <3>1, <3>2
  <2> QED BY <2>1, <2>2, <2>3 DEF Placed
<1>10. Linked(C, k, p2, n2)
  <2>1. \A i \in C : p2[i] # None => p2[i] \in C /\ n2[p2[i]] = i
    <3> SUFFICES ASSUME NEW i \in C, p2[i] # None PROVE p2[i] \in C /\ n2[p2[i]] = i
      OBVIOUS
    <3>1. CASE i = n[x]
      BY <1>8, <3>1
    <3>2. CASE i # n[x]
      <4>1. p2[i] = p[i] /\ p[i] \in B /\ n[p[i]] = i
        BY <1>4, <3>2
      <4>2. p[i] # x /\ p[i] # id
        BY <3>2, <4>1
      <4> QED BY <4>1, <4>2
    <3> QED BY <3>1, <3>2
  <2>2. \A i \in C : n2[i] # None => n2[i] \in C /\ p2[n2[i]] = i /\ k[i] < k[n2[i]]
    <3> SUFFICES ASSUME NEW i \in C, n2[i] # None
                 PROVE  n2[i] \in C /\ p2[n2[i]] = i /\ k[i] < k[n2[i]]
      OBVIOUS
    <3>1. CASE i = id
      <4>1. n[x] # None /\ n[x] \in B /\ p[n[x]] = x /\ k[x] < k[n[x]]
        BY <1>5, <1>8, <3>1
      <4>2. k[n[x]] \in Nat
        BY <1>1, <4>1
      <4>3. n[x] # x /\ k[id] < k[n[x]]
        BY <1>8, <4>1, <4>2
      <4> QED BY <3>1, <4>1, <4>3
    <3>2. CASE i # id
      <4>1. n2[i] = n[i] /\ n[i] \in B /\ p[n[i]] = i /\ k[i] < k[n[i]]
        BY <1>5, <3>2
      <4>2. n[i] # x /\ n[i] # n[x]
        BY <1>5, <1>8, <3>2, <4>1
      <4> QED BY <4>1, <4>2
    <3> QED BY <3>1, <3>2
  <2>3. \A i, j \in C : k[i] < k[j] => n2[i] # None /\ p2[j] # None /\ k[n2[i]] <= k[j]
    <3> SUFFICES ASSUME NEW i \in C, NEW j \in C, k[i] < k[j]
                 PROVE  n2[i] # None /\ p2[j] # None /\ k[n2[i]] <= k[j]
      OBVIOUS
    <3>1. p2[j] # None
      BY <1>6, <1>8
    <3>2. CASE i = id
      <4>1. k[x] <= k[j] /\ k[j] \in Nat /\ k[x] # k[j]
        <5>1. j \in B /\ j # x
          OBVIOUS
        <5> QED BY <1>1, <1>2, <1>6, <1>8, <3>2, <5>1
      <4>2. k[x] < k[j]
        BY <1>8, <4>1
      <4>3. n[x] # None /\ k[n[x]] <= k[j]
        BY <1>6, <1>8, <4>2
      <4> QED BY <3>1, <3>2, <4>3
    <3>3. CASE i # id
      BY <1>6, <3>1, <3>3
    <3> QED BY <3>2, <3>3
  <2> QED BY <2>1, <2>2, <2>3 DEF Linked
<1>11. Gapless(C, o2, s2, p2, n2, total)
  <2>1. \A i \in C : n2[i] # None => o2[n2[i]] = o2[i] + s2[i]
    <3> SUFFICES ASSUME NEW i \in C, n2[i] # None PROVE o2[n2[i]] = o2[i] + s2[i]
      OBVIOUS
    <3>1. n2[i] \in C
      BY <1>10 DEF Linked
    <3>2. CASE i = id
      <4>1. o[n[x]] = o[x] + s[x]
        BY <1>7, <1>8, <3>2
      <4> QED BY <1>8, <3>1, <3>2, <4>1
    <3>3. CASE i # id
      BY <1>7, <3>1, <3>3
    <3> QED BY <3>2, <3>3
  <2>2. \A i \in C : p2[i] = None => o2[i] = 0
    BY <1>7, <1>8
  <2>3. \A i \in C : n2[i] = None => o2[i] + s2[i] = total
    <3>1. n2[id] = None => o2[id] + s2[id] = total
      <4>1. n[x] = None => o[x] + s[x] = total
        BY <1>7, <1>8
      <4> QED BY <1>8, <4>1
    <3>2. \A i \in C \ {id} : n2[i] = None => o2[i] + s2[i] = total
      BY <1>7
    <3> QED BY <3>1, <3>2
  <2> QED BY <2>1, <2>2, <2>3 DEF Gapless
<1> QED BY <1>9, <1>10, <1>11 DEF Tiled

(* The member id takes over its left neighbour x.                          *)
TakesPrev(B, o, s, p, n, id, x, o2, s2, p2, n2) ==
    /\ x = p[id] /\ x # None /\ None \notin B
    /\ o2[id] = o[x] /\ \A j \in B \ {x, id} : o2[j] = o[j]
    /\ s2[id] = s[x] + s[id] /\ \A j \in B \ {x, id} : s2[j] = s[j]
    /\ p2[id] = p[x] /\ \A j \in B \ {x, id} : p2[j] = p[j]
    /\ \A j \in B \ {x} : n2[j] = IF j = p[x] THEN id ELSE n[j]

LEMMA TiledAbsorbPrev ==
    ASSUME NEW B, NEW k, NEW o, NEW s, NEW p, NEW n, NEW total \in Nat,
           Tiled(B, k, o, s, p, n, total), NEW id \in B, NEW x,
           NEW o2, NEW s2, NEW p2, NEW n2, TakesPrev(B, o, s, p, n, id, x, o2, s2, p2, n2)
    PROVE  Tiled(B \ {x}, k, o2, s2, p2, n2, total)
<1> USE DEF TakesPrev
<1>1. \A i \in B : k[i] \in Nat /\ o[i] \in Nat /\ s[i] \in Nat /\ o[i] + s[i] <= total
  BY DEF Tiled, Placed
<1>2. \A i, j \in B : k[i] = k[j] => i = j
  BY DEF Tiled, Placed
<1>3. \A i, j \in B : k[i] < k[j] => o[i] + s[i] <= o[j]
  BY DEF Tiled, Placed
<1>4. \A i \in B : p[i] # None => p[i] \in B /\ n[p[i]] = i
  BY DEF Tiled, Linked
<1>5. \A i \in B : n[i] # None => n[i] \in B /\ p[n[i]] = i /\ k[i] < k[n[i]]
  BY DEF Tiled, Linked
<1>6. \A i, j \in B : k[i] < k[j] => n[i] # None /\ p[j] # None /\ k[n[i]] <= k[j]
  BY DEF Tiled, Linked
<1>7. /\ \A i \in B : n[i] # None => o[n[i]] = o[i] + s[i]
      /\ \A i \in B : p[i] = None => o[i] = 0
      /\ \A i \in B : n[i] = None => o[i] + s[i] = total
  BY DEF Tiled, Gapless
<1> DEFINE C == B \ {x}
<1>8. /\ x \in B /\ n[x] = id /\ k[x] < k[id] /\ o[id] = o[x] + s[x] /\ x # id
      /\ id \in C /\ k[id] \in Nat /\ k[x] \in Nat
      /\ o[x] \in Nat /\ s[id] \in Nat /\ s[x] \in Nat /\ o[id] + s[id] <= total
  <2>1. x \in B /\ n[x] = id
    BY <1>4
  <2>2. k[x] < k[id] /\ o[id] = o[x] + s[x]
    BY <1>5, <1>7, <2>1
  <2>3. k[id] \in Nat /\ k[x] \in Nat
    BY <1>1, <2>1
  <2>4. x # id
    BY <2>2, <2>3
  <2> QED BY <1>1, <2>1, <2>2, <2>3, <2>4
<1>9. Placed(C, k, o2, s2, total)
  <2>1. \A i \in C : k[i] \in Nat /\ o2[i] \in Nat /\ s2[i] \in Nat /\ o2[i] + s2[i] <= total
    BY <1>1, <1>8
  <2>2. \A i, j \in C : k[i] = k[j] => i = j
    BY <1>2
  <2>3. \A i, j \in C : k[i] < k[j] => o2[i] + s2[i] <= o2[j]
    <3> SUFFICES ASSUME NEW i \in C, NEW j \in C, k[i] < k[j] PROVE o2[i] + s2[i] <= o2[j]
      OBVIOUS
    <3>1. CASE i = id
      <4>1. o[id] + s[id] <= o[j]
        BY <1>3, <3>1
      <4> QED BY <1>8, <3>1, <4>1
    <3>2. CASE j = id
      <4>1. k[i] # k[x] /\ k[i] \in Nat /\ i # id
        BY <1>1, <1>2, <1>8, <3>2
      <4>2. n[i] # None /\ k[n[i]] <= k[id] /\ ~ (k[x] < k[i])
        <5>1. n[i] # None /\ k[n[i]] <= k[id]
          BY <1>6, <3>2
        <5>2. k[x] < k[i] => k[n[x]] <= k[i]
          BY <1>6, <1>8
        <5> QED BY <1>8, <3>2, <4>1, <5>1, <5>2
      <4>3. k[i] < k[x]
        BY <1>8, <4>1, <4>2
      <4>4. o[i] + s[i] <= o[x]
        BY <1>3, <1>8, <4>3
      <4> QED BY <3>2, <4>1, <4>4
    <3>3. CASE i # id /\ j # id
      BY <1>3, <3>3
    <3> QED BY <3>1, <3>2, <3>3
  <2> QED BY <2>1, <2>2, <2>3 DEF Placed
<1>10. Linked(C, k, p2, n2)
  <2>1. \A i \in C : p2[i] # None => p2[i] \in C /\ n2[p2[i]] = i
    <3> SUFFICES ASSUME NEW i \in C, p2[i] # None PROVE p2[i] \in C /\ n2[p2[i]] = i
      OBVIOUS
    <3>1. CASE i = id
      <4>1. p[x] # None /\ p[x] \in B /\ n[p[x]] = x
        BY <1>4, <1>8, <3>1
      <4>2. k[p[x]] < k[x] /\ k[p[x]] \in Nat
        BY <1>1, <1>5, <1>8, <4>1
      <4>3. p[x] # x
        BY <1>8, <4>2
      <4> QED BY <3>1, <4>1, <4>3
    <3>2. CASE i # id
      <4>1. p2[i] = p[i] /\ p[i] \in B /\ n[p[i]] = i
        BY <1>4, <3>2
      <4>2. p[i] # x /\ p[i] # p[x]
        BY <1>4, <1>8, <3>2, <4>1
      <4> QED BY <4>1, <4>2
    <3> QED BY <3>1, <3>2
  <2>2. \A i \in C : n2[i] # None => n2[i] \in C /\ p2[n2[i]] = i /\ k[i] < k[n2[i]]
    <3> SUFFICES ASSUME NEW i \in C, n2[i] # None
                 PROVE  n2[i] \in C /\ p2[n2[i]] = i /\ k[i] < k[n2[i]]
      OBVIOUS
    <3>1. CASE i = p[x]
      <4>1. n[i] = x
        BY <1>4, <1>8, <3>1
      <4>2. k[i] < k[x] /\ k[i] \in Nat
        BY <1>1, <1>5, <1>8, <4>1
      <4>3. k[i] < k[id]
        BY <1>8, <4>2
      <4> QED BY <1>8, <3>1, <4>3
    <3>2. CASE i # p[x]
      <4>1. n2[i] = n[i] /\ n[i] \in B /\ p[n[i]] = i /\ k[i] < k[n[i]]
        BY <1>5, <3>2
      <4>2. n[i] # x /\ n[i] # id
        BY <1>8, <3>2, <4>1
      <4> QED BY <4>1, <4>2
    <3> QED BY <3>1, <3>2
  <2>3. \A i, j \in C : k[i] < k[j] => n2[i] # None /\ p2[j] # None /\ k[n2[i]] <= k[j]
    <3> SUFFICES ASSUME NEW i \in C, NEW j \in C, k[i] < k[j]
                 PROVE  n2[i] # None /\ p2[j] # None /\ k[n2[i]] <= k[j]
      OBVIOUS
    <3>1. n[i] # None /\ p[j] # None /\ k[n[i]] <= k[j] /\ k[i] \in Nat /\ k[j] \in Nat
      BY <1>1, <1>6
    <3>2. CASE i = p[x]
      <4>1. n[i] = x
        BY <1>4, <1>8, <3>2
      <4>2. k[x] < k[j]
        BY <1>2, <1>8, <3>1, <4>1
      <4>3. k[n[x]] <= k[j]
        BY <1>6, <1>8, <4>2
      <4>4. n2[i] = id /\ id # None
        BY <1>8, <3>2
      <4>5. p2[j] # None
        <5>1. CASE j = id
          BY <1>8, <3>1, <3>2, <5>1
        <5>2. CASE j # id
          BY <3>1, <5>2
        <5> QED BY <5>1, <5>2
      <4> QED BY <1>8, <4>3, <4>4, <4>5
    <3>3. CASE i # p[x]
      <4>1. n2[i] = n[i]
        BY <3>3
      <4>2. p2[j] # None
        <5>1. CASE j = id
          <6>1. k[i] # k[x]
            BY <1>2, <1>8
          <6>2. ~ (k[x] < k[i])
            <7>1. k[x] < k[i] => k[n[x]] <= k[i]
              BY <1>6, <1>8
            <7> QED BY <1>8, <3>1, <5>1, <7>1
          <6>3. k[i] < k[x]
            BY <1>8, <3>1, <6>1, <6>2
          <6>4. p[x] # None
            BY <1>6, <1>8, <6>3
          <6> QED BY <5>1, <6>4
        <5>2. CASE j # id
          BY <3>1, <5>2
        <5> QED BY <5>1, <5>2
      <4> QED BY <3>1, <4>1, <4>2
    <3> QED BY <3>2, <3>3
  <2> QED BY <2>1, <2>2, <2>3 DEF Linked
<1>11. Gapless(C, o2, s2, p2, n2, total)
  <2>1. \A i \in C : n2[i] # None => o2[n2[i]] = o2[i] + s2[i]
    <3> SUFFICES ASSUME NEW i \in C, n2[i] # None PROVE o2[n2[i]] = o2[i] + s2[i]
      OBVIOUS
    <3>1. n2[i] \in C /\ p2[n2[i]] = i
      BY <1>10 DEF Linked
    <3>2. CASE i = p[x]
      <4>1. n[i] = x /\ n2[i] = id
        BY <1>4, <1>8, <3>2
      <4>2. o[x] = o[i] + s[i]
        BY <1>7, <1>8, <4>1
      <4>3. i # id
        <5>1. k[i] < k[x]
          BY <1>5, <1>8, <4>1
        <5> QED BY <1>8, <5>1
      <4> QED BY <1>8, <4>1, <4>2, <4>3
    <3>3. CASE i # p[x]
      <4>1. n2[i] = n[i] /\ o[n[i]] = o[i] + s[i]
        BY <1>7, <3>3
      <4>2. n[i] # id
        BY <1>5, <1>8, <4>1
      <4>3. CASE i = id
        BY <1>8, <3>1, <4>1, <4>2, <4>3
      <4>4. CASE i # id
        BY <3>1, <4>1, <4>2, <4>4
      <4> QED BY <4>3, <4>4
    <3> QED BY <3>2, <3>3
  <2>2. \A i \in C : p2[i] = None => o2[i] = 0
    BY <1>7, <1>8
  <2>3. \A i \in C : n2[i] = None => o2[i] + s2[i] = total
    <3>1. n2[id] = None => o2[id] + s2[id] = total
      <4>1. n[id] = None => o[id] + s[id] = total
        BY <1>7
      <4> QED BY <1>8, <4>1
    <3>2. \A i \in C \ {id} : n2[i] = None => o2[i] + s2[i] = total
      BY <1>7, <1>8
    <3> QED BY <3>1, <3>2
  <2> QED BY <2>1, <2>2, <2>3 DEF Gapless
<1> QED BY <1>9, <1>10, <1>11 DEF Tiled

(* The member id grows or shrinks by d, and what lies behind it moves.     *)
Resizes(B, k, o, s, id, d, o2, s2) ==
    /\ d \in Int /\ s[id] + d \in Nat
    /\ \A j \in B : o2[j] = IF k[id] < k[j] THEN o[j] + d ELSE o[j]
    /\ s2[id] = s[id] + d /\ \A j \in B \ {id} : s2[j] = s[j]

LEMMA TiledResized ==
    ASSUME NEW B, NEW k, NEW o, NEW s, NEW p, NEW n, NEW total \in Nat,
           Tiled(B, k, o, s, p, n, total), NEW id \in B, NEW d,
           NEW o2, NEW s2, Resizes(B, k, o, s, id, d, o2, s2)
    PROVE  Tiled(B, k, o2, s2, p, n, total + d) /\ total + d \in Nat
<1> USE DEF Resizes
<1>1. \A i \in B : k[i] \in Nat /\ o[i] \in Nat /\ s[i] \in Nat /\ o[i] + s[i] <= total
  BY DEF Tiled, Placed
<1>2. \A i, j \in B : k[i] = k[j] => i = j
  BY DEF Tiled, Placed
<1>3. \A i, j \in B : k[i] < k[j] => o[i] + s[i] <= o[j]
  BY DEF Tiled, Placed
<1>4. \A i \in B : p[i] # None => p[i] \in B /\ n[p[i]] = i
  BY DEF Tiled, Linked
<1>5. \A i \in B : n[i] # None => n[i] \in B /\ p[n[i]] = i /\ k[i] < k[n[i]]
  BY DEF Tiled, Linked
<1>6. \A i, j \in B : k[i] < k[j] => n[i] # None /\ p[j] # None /\ k[n[i]] <= k[j]
  BY DEF Tiled, Linked
<1>7. /\ \A i \in B : n[i] # None => o[n[i]] = o[i] + s[i]
      /\ \A i \in B : p[i] = None => o[i] = 0
      /\ \A i \in B : n[i] = None => o[i] + s[i] = total
  BY DEF Tiled, Gapless
<1>8. \A i \in B : k[i] < k[id] \/ i = id \/ k[id] < k[i]
  BY <1>1, <1>2
<1>9. Placed(B, k, o2, s2, total + d)
  <2>1. ASSUME NEW i \in B
        PROVE  k[i] \in Nat /\ o2[i] \in Nat /\ s2[i] \in Nat /\ o2[i] + s2[i] <= total + d
    <3>1. /\ k[i] \in Nat /\ o[i] \in Nat /\ s[i] \in Nat /\ o[i] + s[i] <= total
          /\ k[id] \in Nat /\ o[id] \in Nat /\ s[id] \in Nat /\ o[id] + s[id] <= total
      BY <1>1
    <3>2. CASE i = id
      BY <3>1, <3>2
    <3>3. CASE k[id] < k[i]
      <4>1. o[id] + s[id] <= o[i] /\ i # id
        BY <1>3, <3>1, <3>3
      <4> QED BY <3>1, <3>3, <4>1
    <3>4. CASE k[i] < k[id]
      <4>1. o[i] + s[i] <= o[id] /\ i # id /\ ~ (k[id] < k[i])
        BY <1>3, <3>1, <3>4
      <4> QED BY <3>1, <4>1
    <3> QED BY <1>8, <3>2, <3>3, <3>4
  <2>2. ASSUME NEW i \in B, NEW j \in B, k[i] < k[j] PROVE o2[i] + s2[i] <= o2[j]
    <3>1. /\ k[i] \in Nat /\ o[i] \in Nat /\ s[i] \in Nat
          /\ k[j] \in Nat /\ o[j] \in Nat /\ k[id] \in Nat /\ s[id] \in Nat
          /\ o[i] + s[i] <= o[j] /\ o[id] \in Nat
      BY <1>1, <1>3, <2>2
    <3>2. CASE i = id
      BY <2>2, <3>1, <3>2
    <3>3. CASE k[id] < k[i]
      <4>1. o2[i] = o[i] + d /\ o2[j] = o[j] + d /\ s2[i] = s[i]
        BY <2>2, <3>1, <3>3
      <4> QED BY <3>1, <4>1
    <3>4. CASE k[i] < k[id]
      <4>1. o2[i] = o[i] /\ s2[i] = s[i]
        BY <3>1, <3>4
      <4>2. CASE k[id] < k[j]
        <5>1. o[i] + s[i] <= o[id] /\ o[id] + s[id] <= o[j]
          BY <1>3, <3>4, <4>2
        <5> QED BY <3>1, <4>1, <4>2, <5>1
      <4>3. CASE ~ (k[id] < k[j])
        BY <3>1, <4>1, <4>3
      <4> QED BY <4>2, <4>3
    <3> QED BY <1>8, <3>2, <3>3, <3>4
  <2> QED BY <1>2, <2>1, <2>2 DEF Placed
<1>10. Linked(B, k, p, n)
  BY DEF Tiled
<1>11. Gapless(B, o2, s2, p, n, total + d)
  <2>1. ASSUME NEW i \in B, n[i] # None PROVE o2[n[i]] = o2[i] + s2[i]
    <3>1. /\ n[i] \in B /\ k[i] < k[n[i]] /\ o[n[i]] = o[i] + s[i]
      BY <1>5, <1>7, <2>1
    <3>2. k[i] \in Nat /\ k[n[i]] \in Nat /\ k[id] \in Nat /\ o[i] \in Nat /\ s[i] \in Nat
      BY <1>1, <3>1
    <3>3. CASE i = id
      BY <3>1, <3>2, <3>3
    <3>4. CASE k[id] < k[i]
      BY <3>1, <3>2, <3>4
    <3>5. CASE k[i] < k[id]
      <4>1. k[n[i]] <= k[id]
        BY <1>6, <3>5
      <4> QED BY <3>1, <3>2, <3>5, <4>1
    <3> QED BY <1>8, <3>3, <3>4, <3>5
  <2>2. ASSUME NEW i \in B, p[i] = None PROVE o2[i] = 0
    <3>1. ~ (k[id] < k[i]) /\ o[i] = 0
      BY <1>6, <1>7, <2>2
    <3> QED BY <3>1
  <2>3. ASSUME NEW i \in B, n[i] = None PROVE o2[i] + s2[i] = total + d
    <3>1. o[i] + s[i] = total /\ o[i] \in Nat /\ s[i] \in Nat
      BY <1>1, <1>7, <2>3
    <3>2. ~ (k[i] < k[id])
      BY <1>6, <2>3
    <3>3. CASE i = id
      <4>1. ~ (k[id] < k[i])
        BY <1>1, <3>3
      <4> QED BY <3>1, <3>3, <4>1
    <3>4. CASE k[id] < k[i]
      <4>1. i # id
        BY <1>1, <3>4
      <4> QED BY <3>1, <3>4, <4>1
    <3> QED BY <1>8, <3>2, <3>3, <3>4
  <2> QED BY <2>1, <2>2, <2>3 DEF Gapless
<1>12. total + d \in Nat
  <2>1. o2[id] \in Nat /\ s2[id] \in Nat /\ o2[id] + s2[id] <= total + d
    BY <1>9 DEF Placed
  <2> QED BY <2>1
<1> QED BY <1>9, <1>10, <1>11, <1>12 DEF Tiled

-----------------------------------------------------------------------------
(* allocate() and free() on the object.                                    *)

(* Filing under the same classes.                                          *)
LEMMA FiledClass ==
    ASSUME NEW r, NEW F, NEW c, Filed(r, F, c), NEW c2, \A i \in F : c2[i] = c[i]
    PROVE  Filed(r, F, c2)
<1>1. ListsOK(r, F, c) /\ BitmapsOK(r)
  BY DEF Filed
<1>2. PICK l : Reaches(r, F, c, l)
  BY DEF Filed
<1>3. ListsOK(r, F, c2)
  BY <1>1 DEF ListsOK
<1>4. Reaches(r, F, c2, l)
  BY <1>2, Zenon DEF Reaches
<1> QED BY <1>1, <1>3, <1>4 DEF Filed

(* sliceTopBinNode(), its first part: the block at the head is taken.      *)
Taken(r, size, id, bin) ==
    UnlinkHead([r EXCEPT !.free = @ - r.node[id].size,
                         !.node[id].size = size,
                         !.node[id].used = TRUE], id, bin)

AfterTaking(q, r, N, B, F, c, id, size) ==
    /\ q \in Objects(N) /\ Filed(q, F \ {id}, c) /\ Stacked(q, N, B)
    /\ \A i \in Numbers(N) :
         /\ q.node[i].offset = r.node[i].offset
         /\ q.node[i].prev = r.node[i].prev /\ q.node[i].next = r.node[i].next
         /\ q.node[i].size = IF i = id THEN size ELSE r.node[i].size
         /\ q.node[i].used = IF i = id THEN TRUE ELSE r.node[i].used
    /\ q.ptr = r.ptr /\ q.freeNodes = r.freeNodes
    /\ q.free = r.free - r.node[id].size
    /\ q.capacity = r.capacity /\ q.failed = r.failed

LEMMA TakenNode ==
    ASSUME NEW N \in Nat, NEW r \in Objects(N), NEW B, NEW F, NEW c, Stacked(r, N, B),
           Filed(r, F, c), F \subseteq B, NEW id \in F, r.node[id].binPrev = None,
           NEW size \in Nat
    PROVE  AfterTaking(Taken(r, size, id, c[id]), r, N, B, F, c, id, size)
<1> DEFINE S == Numbers(N)
           t == r.node
           t1 == [t EXCEPT ![id].size = size]
           t2 == [t1 EXCEPT ![id].used = TRUE]
           r1 == [r EXCEPT !.free = r.free - t[id].size]
           r2 == [r1 EXCEPT !.node = t2]
           q == UnlinkHead(r2, id, c[id])
<1>1. /\ id \in S /\ t \in Tables(N) /\ r.free \in Int /\ F \subseteq S /\ t[id] \in NodeRecord
      /\ t[id].size \in Nat
  <2>1. id \in S /\ t \in Tables(N) /\ r.free \in Int /\ F \subseteq S
    BY ObjectFields DEF Stacked
  <2>2. t[id] \in NodeRecord
    BY <2>1 DEF Tables
  <2> QED BY <2>1, <2>2, NodeFields
<1>2. t1 \in Tables(N) /\ t2 \in Tables(N)
  <2>1. t1 \in Tables(N)
    BY <1>1, TableSet
  <2> HIDE DEF t1
  <2> QED BY <1>1, <2>1, TableSet
<1>3. \A i \in S :
        /\ t2[i].offset = t[i].offset
        /\ t2[i].prev = t[i].prev /\ t2[i].next = t[i].next
        /\ t2[i].binPrev = t[i].binPrev /\ t2[i].binNext = t[i].binNext
        /\ t2[i].size = IF i = id THEN size ELSE t[i].size
        /\ t2[i].used = IF i = id THEN TRUE ELSE t[i].used
  <2>1. \A i \in S : t[i] \in NodeRecord
    BY <1>1 DEF Tables
  <2>2. \A i \in S : t2[i] = IF i = id THEN [[t[i] EXCEPT !.size = size] EXCEPT !.used = TRUE] ELSE t[i]
    BY <1>1 DEF Tables
  <2> HIDE DEF t2, t1, t, S
  <2> QED BY <2>1, <2>2 DEF NodeRecord
<1>4. Taken(r, size, id, c[id]) = q
  <2>1. [r EXCEPT !.free = @ - r.node[id].size, !.node[id].size = size, !.node[id].used = TRUE] = r2
    BY ObjectDomain
  <2> QED BY <2>1 DEF Taken
<1>5. /\ r2 \in Objects(N) /\ r2.node = t2 /\ r2.bin = r.bin /\ r2.leaf = r.leaf /\ r2.top = r.top
      /\ r2.ptr = r.ptr /\ r2.freeNodes = r.freeNodes /\ r2.free = r.free - t[id].size
      /\ r2.capacity = r.capacity /\ r2.failed = r.failed
  <2> HIDE DEF t2
  <2>1. r.free - t[id].size \in Int
    BY <1>1
  <2>2. r1 \in Objects(N)
    BY <2>1, ObjectSet
  <2>3. r2 \in Objects(N)
    BY <1>2, <2>2, ObjectSet
  <2> QED BY <2>3, ObjectDomain
<1> HIDE DEF r2, r1, t2, t1
<1>6. DOMAIN r2.node = S
  BY <1>5, NodesIs
<1>7. Filed(r2, F, c)
  <2>1. F \subseteq DOMAIN r2.node
    BY <1>1, <1>6
  <2>2. \A i \in F : /\ r2.node[i].binPrev = r.node[i].binPrev
                     /\ r2.node[i].binNext = r.node[i].binNext
    BY <1>1, <1>3, <1>5
  <2> HIDE DEF t, S
  <2> QED BY <1>5, <2>1, <2>2, FiledFrame, Zenon
<1>8. /\ q \in Objects(N) /\ SameCounters(q, r2)
      /\ SameBlocks(q.node, r2.node, S) /\ Filed(q, F \ {id}, c)
  <2>1. r2.node[id].binPrev = None
    BY <1>1, <1>3, <1>5
  <2> QED BY <1>5, <1>7, <2>1, HeadUnlinked
<1> HIDE DEF q
<1>9. Stacked(q, N, B)
  BY <1>5, <1>8, StackedSame DEF SameCounters
<1>10. \A i \in S :
         /\ q.node[i].offset = t[i].offset
         /\ q.node[i].prev = t[i].prev /\ q.node[i].next = t[i].next
         /\ q.node[i].size = IF i = id THEN size ELSE t[i].size
         /\ q.node[i].used = IF i = id THEN TRUE ELSE t[i].used
  <2>1. \A i \in S : SameBlock(q.node[i], t2[i])
    BY <1>5, <1>8 DEF SameBlocks
  <2> HIDE DEF S, t
  <2> SUFFICES ASSUME NEW i \in S
               PROVE  /\ q.node[i].offset = t[i].offset
                      /\ q.node[i].prev = t[i].prev /\ q.node[i].next = t[i].next
                      /\ q.node[i].size = IF i = id THEN size ELSE t[i].size
                      /\ q.node[i].used = IF i = id THEN TRUE ELSE t[i].used
    OBVIOUS
  <2>2. SameBlock(q.node[i], t2[i])
    BY <2>1
  <2>3. /\ t2[i].offset = t[i].offset
        /\ t2[i].prev = t[i].prev /\ t2[i].next = t[i].next
        /\ t2[i].size = IF i = id THEN size ELSE t[i].size
        /\ t2[i].used = IF i = id THEN TRUE ELSE t[i].used
    BY <1>3
  <2> QED BY <2>2, <2>3, Zenon DEF SameBlock
<1> QED BY <1>4, <1>5, <1>8, <1>9, <1>10 DEF SameCounters, t, AfterTaking

(* Its second part: the rest is inserted behind it.                        *)
AfterSlice(q, r, N, B, F, c, id, x, size) ==
    /\ q \in Objects(N) /\ x \in Numbers(N) /\ x \notin B
    /\ Filed(q, (F \ {id}) \cup {x}, c) /\ Stacked(q, N, B \cup {x})
    /\ \A i \in B :
         /\ q.node[i].offset = r.node[i].offset
         /\ q.node[i].size = IF i = id THEN size ELSE r.node[i].size
         /\ q.node[i].used = IF i = id THEN TRUE ELSE r.node[i].used
         /\ q.node[i].prev = IF i = r.node[id].next THEN x ELSE r.node[i].prev
         /\ q.node[i].next = IF i = id THEN x ELSE r.node[i].next
    /\ q.node[x].offset = r.node[id].offset + size
    /\ q.node[x].size = r.node[id].size - size /\ q.node[x].used = FALSE
    /\ q.node[x].prev = id /\ q.node[x].next = r.node[id].next
    /\ \A i \in Numbers(N) \ (B \cup {x}) : q.node[i].used = r.node[i].used
    /\ q.free = r.free - size /\ q.capacity = r.capacity /\ ~ q.failed

LEMMA SlicedNode ==
    ASSUME NEW N \in Nat, NEW r \in Objects(N), NEW B, NEW F, NEW c, Stacked(r, N, B),
           Filed(r, F, c), F \subseteq B, r.ptr < N, ~ r.failed,
           NEW id \in F, r.node[id].binPrev = None, r.bin[c[id]] = id,
           NEW size \in Nat, size < r.node[id].size,
           FloorToFloat(r.node[id].size - size) \in Bins,
           r.node[id].next \in B \cup {None}, r.node[id].next # id,
           NEW c2, c2[NextFreeNode(r)] = FloorToFloat(r.node[id].size - size),
           \A i \in F : c2[i] = c[i]
    PROVE  AfterSlice(Slice(r, size, c[id]), r, N, B, F, c2, id, NextFreeNode(r), size)
<1> DEFINE S == Numbers(N)
           t == r.node
           x == NextFreeNode(r)
           next == t[id].next
           rest == t[id].size - size
           off == t[id].offset + size
           u == Taken(r, size, id, c[id])
           v == InsertNode(u, rest, off)
           q == Chain(v, x, id, v.node[id].next)
           G == F \ {id}
<1>1. /\ id \in S /\ id \in B /\ B \subseteq S /\ None \notin S /\ r.free \in Int
      /\ t[id].size \in Nat /\ t[id].offset \in Nat
  <2>1. id \in S /\ B \subseteq S /\ t \in Tables(N) /\ r.free \in Int
    BY ObjectFields DEF Stacked
  <2>2. t[id] \in NodeRecord
    BY <2>1 DEF Tables
  <2> QED BY <2>1, <2>2, NodeFields, MiniramAssumption DEF Numbers
<1>2. /\ u \in Objects(N) /\ Filed(u, G, c) /\ Stacked(u, N, B)
      /\ \A i \in S :
           /\ u.node[i].offset = t[i].offset
           /\ u.node[i].prev = t[i].prev /\ u.node[i].next = t[i].next
           /\ u.node[i].size = IF i = id THEN size ELSE t[i].size
           /\ u.node[i].used = IF i = id THEN TRUE ELSE t[i].used
      /\ u.ptr = r.ptr /\ u.freeNodes = r.freeNodes
      /\ u.free = r.free - t[id].size
      /\ u.capacity = r.capacity /\ u.failed = r.failed
  <2>1. AfterTaking(u, r, N, B, F, c, id, size)
    BY TakenNode, Zenon
  <2> HIDE DEF u
  <2> QED BY <2>1 DEF AfterTaking
<1>3. NextFreeNode(u) = x
  BY <1>2 DEF NextFreeNode
<1>4. rest \in Nat /\ off \in Nat /\ rest # 0 /\ FloorToFloat(rest) \in Bins /\ c2[x] = FloorToFloat(rest)
  BY <1>1
<1> HIDE DEF u, x, rest, off
<1>5. Filed(u, G, c2)
  BY <1>2, FiledClass
<1>6. /\ v \in Objects(N) /\ x \in S /\ x \notin B
      /\ \A i \in S \ {x} : SameBlock(v.node[i], u.node[i])
      /\ SameBlock(v.node[x], [Unused EXCEPT !.offset = off, !.size = rest])
      /\ Filed(v, G \cup {x}, c2) /\ Stacked(v, N, B \cup {x})
      /\ v.ptr = u.ptr + 1 /\ v.free = u.free + rest
      /\ v.capacity = u.capacity /\ v.failed = u.failed
  <2>1. u.ptr < N /\ G \subseteq B
    BY <1>2
  <2>2. c2[NextFreeNode(u)] = FloorToFloat(rest)
    BY <1>3, <1>4
  <2>3. AfterInsert(v, u, N, B, G, c2, rest, off, NextFreeNode(u))
    BY <1>2, <1>4, <1>5, <2>1, <2>2, InsertedNode, Zenon
  <2> HIDE DEF v
  <2> QED BY <1>3, <2>3 DEF AfterInsert
<1> HIDE DEF v
<1>7. id # x /\ id \in S \ {x} /\ v.node[id].next = next
  <2>1. id # x
    BY <1>1, <1>6
  <2> QED BY <1>1, <1>2, <1>6, <2>1 DEF SameBlock
<1>8. next \in S \cup {None} /\ next # x /\ next # id /\ (next = None \/ next \in B) /\ x # None
  BY <1>1, <1>6
<1>9. /\ q \in Objects(N) /\ SameCounters(q, v)
      /\ q.bin = v.bin /\ q.leaf = v.leaf /\ q.top = v.top
      /\ \A i \in S :
           /\ SameButNeighbours(q.node[i], v.node[i])
           /\ q.node[i].prev = IF i = next THEN x ELSE IF i = x THEN id ELSE v.node[i].prev
           /\ q.node[i].next = IF i = id THEN x ELSE IF i = x THEN next ELSE v.node[i].next
  <2>1. id \in S \cup {None}
    BY <1>1
  <2>2. q = Chain(v, x, id, next)
    BY <1>7
  <2> HIDE DEF q, next
  <2>3. AfterChain(q, v, N, x, id, next)
    BY <1>6, <1>7, <1>8, <2>1, <2>2, ChainedNode
  <2> QED BY <2>3, Zenon DEF AfterChain
<1>10. Slice(r, size, c[id]) = q
  <2>1. Taken(r, size, id, c[id]) = u
    BY DEF u
  <2>2. /\ r.bin[c[id]] = id /\ rest # 0 /\ v.failed = FALSE
    BY <1>2, <1>4, <1>6, ObjectFields DEF Objects
  <2> QED BY <1>3, <2>1, <2>2 DEF Slice, Taken, rest, off, v, q
<1> HIDE DEF q
<1>11. Filed(q, G \cup {x}, c2)
  <2>1. DOMAIN q.node = S
    BY <1>9, NodesIs
  <2>2. G \cup {x} \subseteq S
    BY <1>1, <1>6
  <2> QED BY <1>6, <1>9, <2>1, <2>2, FiledFrame DEF SameButNeighbours
<1>12. Stacked(q, N, B \cup {x})
  BY <1>6, <1>9, StackedSame DEF SameCounters
<1>13. ASSUME NEW i \in B
       PROVE  /\ q.node[i].offset = t[i].offset
              /\ q.node[i].size = IF i = id THEN size ELSE t[i].size
              /\ q.node[i].used = IF i = id THEN TRUE ELSE t[i].used
              /\ q.node[i].prev = IF i = next THEN x ELSE t[i].prev
              /\ q.node[i].next = IF i = id THEN x ELSE t[i].next
  <2>1. i \in S /\ i # x
    BY <1>1, <1>6
  <2>2. SameBlock(v.node[i], u.node[i]) /\ SameButNeighbours(q.node[i], v.node[i])
    BY <1>6, <1>9, <2>1
  <2>3. /\ q.node[i].offset = u.node[i].offset /\ q.node[i].size = u.node[i].size
        /\ q.node[i].used = u.node[i].used
        /\ v.node[i].prev = u.node[i].prev /\ v.node[i].next = u.node[i].next
    BY ONLY <2>2 DEF SameBlock, SameButNeighbours
  <2>4. i # x /\ i \in S /\ i \in B
    BY <2>1
  <2>5. /\ q.node[i].prev = IF i = next THEN x ELSE v.node[i].prev
        /\ q.node[i].next = IF i = id THEN x ELSE v.node[i].next
    BY ONLY <1>9, <1>7, <1>8, <2>4
  <2>6. /\ u.node[i].offset = t[i].offset
        /\ u.node[i].prev = t[i].prev /\ u.node[i].next = t[i].next
        /\ u.node[i].size = IF i = id THEN size ELSE t[i].size
        /\ u.node[i].used = IF i = id THEN TRUE ELSE t[i].used
    BY ONLY <1>2, <2>4
  <2> QED BY ONLY <2>3, <2>5, <2>6
<1>14. /\ q.node[x].offset = off /\ q.node[x].size = rest /\ q.node[x].used = FALSE
       /\ q.node[x].prev = id /\ q.node[x].next = next
  <2>1. /\ v.node[x].offset = off /\ v.node[x].size = rest /\ v.node[x].used = FALSE
    BY <1>6 DEF SameBlock, Unused
  <2>2. SameButNeighbours(q.node[x], v.node[x])
    BY <1>6, <1>9
  <2> QED BY <1>6, <1>7, <1>8, <1>9, <2>1, <2>2 DEF SameButNeighbours
<1>15. q.free = r.free - size /\ q.capacity = r.capacity /\ ~ q.failed
  <2>1. /\ q.free = v.free /\ q.capacity = v.capacity /\ q.failed = v.failed
    BY <1>9 DEF SameCounters
  <2>2. v.free = (r.free - t[id].size) + (t[id].size - size)
    BY <1>2, <1>6 DEF rest
  <2>3. r.free \in Int /\ t[id].size \in Nat /\ size \in Nat
    BY <1>1
  <2>4. v.free = r.free - size
    BY ONLY <2>2, <2>3
  <2>5. v.capacity = r.capacity /\ ~ v.failed
    BY <1>1, <1>2, <1>6
  <2> QED BY ONLY <2>1, <2>4, <2>5
<1>16. ASSUME NEW i \in S \ (B \cup {x}) PROVE q.node[i].used = t[i].used
  <2>1. i \in S \ {x} /\ i # id
    BY <1>1
  <2>2. SameBlock(v.node[i], u.node[i]) /\ SameButNeighbours(q.node[i], v.node[i])
    BY <1>6, <1>9, <2>1
  <2> QED BY <1>2, <2>1, <2>2 DEF SameBlock, SameButNeighbours
<1> QED BY <1>6, <1>9, <1>10, <1>11, <1>12, <1>13, <1>14, <1>15, <1>16 DEF t, x, rest, off, AfterSlice

-----------------------------------------------------------------------------
(* The invariant of the object.  B are the blocks.                         *)

Offsets(r) == [i \in DOMAIN r.node |-> r.node[i].offset]
Sizes(r) == [i \in DOMAIN r.node |-> r.node[i].size]
FreeSizes(r) == [i \in DOMAIN r.node |-> IF r.node[i].used THEN 0 ELSE r.node[i].size]
Prevs(r) == [i \in DOMAIN r.node |-> r.node[i].prev]
Nexts(r) == [i \in DOMAIN r.node |-> r.node[i].next]
Classes(r) == [i \in DOMAIN r.node |-> FloorToFloat(r.node[i].size)]

FreeOf(r, B) == {i \in B : ~ r.node[i].used}

(* The blocks tile the storage, the free ones among them what is free.     *)
Chained(r, B) ==
    \E k, a : /\ Tiled(B, k, Offsets(r), Sizes(r), Prevs(r), Nexts(r), r.capacity)
              /\ Tiled(B, k, a, FreeSizes(r), Prevs(r), Nexts(r), r.free)

Coalesced(r, B) ==
    \A i \in B : r.node[i].next # None => r.node[i].used \/ r.node[r.node[i].next].used

(* A node that is no block is not marked as used.                          *)
OnlyBlocksUsed(r, N, B) == \A i \in Numbers(N) \ B : ~ r.node[i].used

Sound(r, N, B) ==
    /\ r \in Objects(N) /\ ~ r.failed /\ r.capacity = Capacity /\ r.free \in Nat
    /\ B # {} /\ Stacked(r, N, B)
    /\ Filed(r, FreeOf(r, B), Classes(r))
    /\ Chained(r, B) /\ Coalesced(r, B) /\ OnlyBlocksUsed(r, N, B)

(* What a block looks like.                                                *)
BlockOK(r, N, B, i) ==
    /\ i \in Numbers(N) /\ i \in DOMAIN r.node /\ B \subseteq Numbers(N)
    /\ r.node[i] \in NodeRecord
    /\ r.node[i].size \in 0 .. Capacity /\ FloorToFloat(r.node[i].size) \in Bins
    /\ r.node[i].offset + r.node[i].size <= Capacity
    /\ r.node[i].prev # None =>
         r.node[i].prev \in B /\ r.node[r.node[i].prev].next = i
    /\ r.node[i].next # None =>
         r.node[i].next \in B /\ r.node[r.node[i].next].prev = i
    /\ r.node[i].prev # i /\ r.node[i].next # i
    /\ r.node[i].prev # None => r.node[i].prev # r.node[i].next
    /\ ~ r.node[i].used => r.node[i].size <= r.free

LEMMA BlockFacts ==
    ASSUME NEW N \in Nat, NEW r, NEW B, Sound(r, N, B), NEW i \in B
    PROVE  BlockOK(r, N, B, i)
<1>1. PICK k, a : /\ Tiled(B, k, Offsets(r), Sizes(r), Prevs(r), Nexts(r), r.capacity)
                  /\ Tiled(B, k, a, FreeSizes(r), Prevs(r), Nexts(r), r.free)
  BY DEF Sound, Chained
<1>2. /\ B \subseteq Numbers(N) /\ r \in Objects(N) /\ r.capacity = Capacity
      /\ DOMAIN r.node = Numbers(N)
  BY NodesIs DEF Sound, Stacked
<1>3. \A j \in B : /\ Offsets(r)[j] = r.node[j].offset /\ Sizes(r)[j] = r.node[j].size
                   /\ Prevs(r)[j] = r.node[j].prev /\ Nexts(r)[j] = r.node[j].next
                   /\ FreeSizes(r)[j] = IF r.node[j].used THEN 0 ELSE r.node[j].size
  BY <1>2 DEF Offsets, Sizes, Prevs, Nexts, FreeSizes
<1>4. r.node[i] \in NodeRecord
  BY <1>2, ObjectFields DEF Tables
<1>5. /\ r.node[i].size \in Nat /\ r.node[i].offset \in Nat
      /\ r.node[i].offset + r.node[i].size <= Capacity
  BY <1>1, <1>2, <1>3 DEF Tiled, Placed
<1>6. r.node[i].size \in 0 .. Capacity
  BY <1>5, MiniramAssumption
<1>7. /\ r.node[i].prev # None =>
           r.node[i].prev \in B /\ r.node[r.node[i].prev].next = i
      /\ r.node[i].next # None =>
           r.node[i].next \in B /\ r.node[r.node[i].next].prev = i /\ k[i] < k[r.node[i].next]
  BY <1>1, <1>3 DEF Tiled, Linked
<1>8. r.node[i].prev # None => k[r.node[i].prev] < k[i]
  <2> SUFFICES ASSUME r.node[i].prev # None PROVE k[r.node[i].prev] < k[i]
    OBVIOUS
  <2> DEFINE p == r.node[i].prev
  <2>1. p \in B /\ p # None /\ r.node[p].next = i
    BY <1>7
  <2>2. i \in Nat
    BY <1>2 DEF Numbers
  <2>3. p \in B /\ Nexts(r)[p] = i
    <3> HIDE DEF p
    <3> QED BY <1>3, <2>1
  <2>4. p \in B /\ Nexts(r)[p] = i /\ i # None
    BY <2>2, <2>3, MiniramAssumption
  <2> QED BY <1>1, <2>4 DEF Tiled, Linked
<1>9. \A j \in B : k[j] \in Nat
  BY <1>1 DEF Tiled, Placed
<1>10. None \notin B
  <2>1. Numbers(N) \subseteq Nat
    BY DEF Numbers
  <2>2. None \notin Nat
    BY MiniramAssumption
  <2> QED BY <1>2, <2>1, <2>2
<1>11. /\ r.node[i].prev # i /\ r.node[i].next # i
       /\ r.node[i].prev # None => r.node[i].prev # r.node[i].next
  BY <1>7, <1>8, <1>9, <1>10
<1>12. ~ r.node[i].used => r.node[i].size <= r.free
  <2>1. /\ a[i] \in Nat /\ FreeSizes(r)[i] \in Nat /\ a[i] + FreeSizes(r)[i] <= r.free
        /\ r.free \in Nat
    BY <1>1 DEF Tiled, Placed, Sound
  <2> QED BY <1>3, <1>5, <2>1
<1>13. FloorToFloat(r.node[i].size) \in Bins
  BY <1>6, ClassInBins, Zenon
<1>14. i \in Numbers(N) /\ i \in DOMAIN r.node
  BY <1>2
<1> QED BY <1>2, <1>4, <1>5, <1>6, <1>7, <1>11, <1>12, <1>13, <1>14, Zenon DEF BlockOK

(* The object after sliceTopBinNode(): C are the blocks then.              *)
AfterAllocation(q, r, N, B, C, id, size) ==
    /\ Sound(q, N, C) /\ B \subseteq C /\ id \in B /\ ~ r.node[id].used
    /\ \A i \in B : q.node[i].offset = r.node[i].offset
    /\ \A i \in B \ {id} : q.node[i].size = r.node[i].size /\ q.node[i].used = r.node[i].used
    /\ q.node[id].size = size /\ q.node[id].used
    /\ \A i \in C \ B : ~ q.node[i].used

LEMMA SliceWhole ==
    ASSUME NEW N \in Nat, NEW r, NEW B, Sound(r, N, B), NEW id \in FreeOf(r, B),
           r.node[id].binPrev = None, r.bin[FloorToFloat(r.node[id].size)] = id
    PROVE  LET size == r.node[id].size
           IN  AfterAllocation(Slice(r, size, FloorToFloat(size)), r, N, B, B, id, size)
<1> DEFINE S == Numbers(N)
           F == FreeOf(r, B)
           c == Classes(r)
           t == r.node
           size == t[id].size
           q == Slice(r, size, FloorToFloat(size))
<1>1. /\ r \in Objects(N) /\ ~ r.failed /\ r.capacity = Capacity /\ r.free \in Nat
      /\ B # {} /\ Stacked(r, N, B) /\ Filed(r, F, c)
      /\ Chained(r, B) /\ Coalesced(r, B) /\ F \subseteq B /\ id \in B /\ id \in F
      /\ ~ t[id].used
  BY DEF Sound, FreeOf
<1>2. /\ id \in S /\ B \subseteq S /\ size \in Nat /\ DOMAIN t = S /\ c[id] = FloorToFloat(size)
      /\ size <= r.free
  <2>1. /\ id \in S /\ B \subseteq S /\ size \in 0 .. Capacity /\ (~ t[id].used => size <= r.free)
    BY <1>1, BlockFacts, Zenon DEF BlockOK
  <2>2. DOMAIN t = S
    BY <1>1, NodesIs
  <2> QED BY <1>1, <2>1, <2>2 DEF Classes
<1>3. q = Taken(r, size, id, c[id])
  <2>1. size - size = 0
    BY <1>2
  <2> QED BY <1>2, <2>1, Zenon DEF Slice, Taken
<1>4. AfterTaking(q, r, N, B, F, c, id, size)
  BY <1>1, <1>2, <1>3, TakenNode
<1> HIDE DEF q, c
<1>5. /\ q \in Objects(N) /\ Filed(q, F \ {id}, c) /\ Stacked(q, N, B)
      /\ \A i \in S :
           /\ q.node[i].offset = t[i].offset
           /\ q.node[i].prev = t[i].prev /\ q.node[i].next = t[i].next
           /\ q.node[i].size = t[i].size
           /\ q.node[i].used = IF i = id THEN TRUE ELSE t[i].used
      /\ q.free = r.free - size
      /\ q.capacity = r.capacity /\ q.failed = r.failed
  BY <1>4 DEF AfterTaking
<1>6. DOMAIN q.node = S
  BY <1>5, NodesIs
<1>7. FreeOf(q, B) = F \ {id}
  BY <1>2, <1>5 DEF FreeOf
<1>8. Filed(q, FreeOf(q, B), Classes(q))
  <2>1. \A i \in F \ {id} : Classes(q)[i] = c[i]
    BY <1>1, <1>2, <1>5, <1>6 DEF Classes, c
  <2> QED BY <1>5, <1>7, <2>1, FiledClass
<1>9. Coalesced(q, B)
  <2> SUFFICES ASSUME NEW i \in B, q.node[i].next # None
               PROVE  q.node[i].used \/ q.node[q.node[i].next].used
    BY DEF Coalesced
  <2>1. i \in S /\ q.node[i].next = t[i].next /\ (t[i].used \/ t[t[i].next].used)
    BY <1>1, <1>2, <1>5 DEF Coalesced
  <2>2. t[i].next \in B
    BY <2>1, BlockFacts DEF BlockOK
  <2> QED BY <1>2, <1>5, <2>1, <2>2
<1>10. Chained(q, B) /\ q.free \in Nat
  <2>1. PICK k, a : /\ Tiled(B, k, Offsets(r), Sizes(r), Prevs(r), Nexts(r), r.capacity)
                    /\ Tiled(B, k, a, FreeSizes(r), Prevs(r), Nexts(r), r.free)
    BY <1>1 DEF Chained
  <2>2. \A i \in B : /\ Offsets(q)[i] = Offsets(r)[i] /\ Sizes(q)[i] = Sizes(r)[i]
                     /\ Prevs(q)[i] = Prevs(r)[i] /\ Nexts(q)[i] = Nexts(r)[i]
                     /\ FreeSizes(q)[i] = IF i = id THEN 0 ELSE FreeSizes(r)[i]
    BY <1>2, <1>5, <1>6 DEF Offsets, Sizes, Prevs, Nexts, FreeSizes
  <2>3. Tiled(B, k, Offsets(q), Sizes(q), Prevs(q), Nexts(q), q.capacity)
    BY <1>5, <2>1, <2>2, TiledFrame
  <2> DEFINE d == 0 - size
             a2 == [j \in B |-> IF k[id] < k[j] THEN a[j] + d ELSE a[j]]
  <2>4. FreeSizes(r)[id] = size /\ d \in Int /\ size + d = 0
    BY <1>1, <1>2 DEF FreeSizes
  <2>5. Tiled(B, k, a2, FreeSizes(q), Prevs(r), Nexts(r), r.free + d) /\ r.free + d \in Nat
    <3>1. FreeSizes(r)[id] + d \in Nat /\ FreeSizes(q)[id] = FreeSizes(r)[id] + d
      BY <1>1, <2>2, <2>4
    <3>2. \A j \in B \ {id} : FreeSizes(q)[j] = FreeSizes(r)[j]
      BY <2>2
    <3>3. \A j \in B : a2[j] = IF k[id] < k[j] THEN a[j] + d ELSE a[j]
      OBVIOUS
    <3> HIDE DEF d, a2
    <3>4. Resizes(B, k, a, FreeSizes(r), id, d, a2, FreeSizes(q))
      BY <2>4, <3>1, <3>2, <3>3 DEF Resizes
    <3> QED BY <1>1, <2>1, <3>4, TiledResized
  <2>6. r.free + d = q.free
    BY <1>1, <1>2, <1>5
  <2> HIDE DEF a2, d
  <2>7. Tiled(B, k, a2, FreeSizes(q), Prevs(q), Nexts(q), q.free)
    BY <2>2, <2>5, <2>6, TiledFrame
  <2> QED BY <2>3, <2>5, <2>6, <2>7 DEF Chained
<1>11. Sound(q, N, B)
  <2>1. OnlyBlocksUsed(q, N, B)
    BY <1>1, <1>5 DEF Sound, OnlyBlocksUsed
  <2> QED BY <1>1, <1>5, <1>8, <1>9, <1>10, <2>1 DEF Sound
<1>12. AfterAllocation(q, r, N, B, B, id, size)
  BY <1>1, <1>2, <1>5, <1>11 DEF AfterAllocation
<1> QED BY <1>12, Zenon DEF q

LEMMA SlicePart ==
    ASSUME NEW N \in Nat, NEW r, NEW B, Sound(r, N, B), r.ptr < N, NEW id \in FreeOf(r, B),
           r.node[id].binPrev = None, r.bin[FloorToFloat(r.node[id].size)] = id,
           NEW size \in Nat, size < r.node[id].size
    PROVE  LET bin == FloorToFloat(r.node[id].size)
           IN  AfterAllocation(Slice(r, size, bin), r, N, B, B \cup {NextFreeNode(r)}, id, size)
<1> DEFINE S == Numbers(N)
           F == FreeOf(r, B)
           c == Classes(r)
           t == r.node
           rest == t[id].size - size
           next == t[id].next
           x == NextFreeNode(r)
           C == B \cup {x}
           c2 == [i \in S |-> IF i = x THEN FloorToFloat(rest) ELSE c[i]]
           q == Slice(r, size, FloorToFloat(t[id].size))
<1>1. /\ r \in Objects(N) /\ ~ r.failed /\ r.capacity = Capacity /\ r.free \in Nat
      /\ B # {} /\ Stacked(r, N, B) /\ Filed(r, F, c)
      /\ Chained(r, B) /\ Coalesced(r, B) /\ F \subseteq B /\ id \in B /\ id \in F
      /\ ~ t[id].used /\ r.ptr \in 0 .. N /\ r.freeNodes \in [S -> S]
  BY ObjectFields DEF Sound, FreeOf
<1>2. /\ id \in S /\ B \subseteq S /\ DOMAIN t = S /\ c[id] = FloorToFloat(t[id].size)
      /\ t[id].size \in 0 .. Capacity /\ t[id].size <= r.free /\ t[id].offset \in Nat
      /\ next # id /\ next \in B \cup {None}
  <2>1. /\ id \in S /\ B \subseteq S /\ t[id].size \in 0 .. Capacity
        /\ (~ t[id].used => t[id].size <= r.free)
        /\ next # id /\ (next # None => next \in B) /\ t[id] \in NodeRecord
    <3>1. BlockOK(r, N, B, id)
      BY <1>1, BlockFacts
    <3> QED BY <3>1, Zenon DEF BlockOK
  <2>2. DOMAIN t = S
    BY <1>1, NodesIs
  <2>3. t[id].offset \in Nat
    BY <2>1, NodeFields
  <2> QED BY <1>1, <2>1, <2>2, <2>3 DEF Classes
<1>3. x \in S /\ x \notin B
  <2>1. r.ptr \in S /\ r.ptr \in r.ptr .. N - 1
    BY <1>1 DEF Numbers
  <2>2. x \in S
    BY <1>1, <2>1 DEF NextFreeNode
  <2> QED BY <1>1, <2>1, <2>2 DEF Stacked, NextFreeNode
<1>4. rest \in 1 .. Capacity /\ rest \in Nat /\ FloorToFloat(rest) \in Bins
  <2>1. rest \in 1 .. Capacity /\ rest \in 0 .. Capacity /\ rest \in Nat
    BY <1>2, MiniramAssumption
  <2>2. FloorToFloat(rest) \in Bins
    BY <2>1, ClassInBins, Zenon
  <2> QED BY <2>1, <2>2
<1>5. c2[x] = FloorToFloat(rest) /\ \A i \in F : c2[i] = c[i]
  BY <1>1, <1>2, <1>3
<1> HIDE DEF c, c2
<1>6. AfterSlice(q, r, N, B, F, c2, id, x, size)
  <2>1. q = Slice(r, size, c[id])
    BY <1>2
  <2>2. r.bin[c[id]] = id
    BY <1>2
  <2> QED BY <1>1, <1>2, <1>4, <1>5, <2>1, <2>2, SlicedNode
<1> HIDE DEF q, x
<1>7. /\ q \in Objects(N)
      /\ Filed(q, (F \ {id}) \cup {x}, c2) /\ Stacked(q, N, C)
      /\ \A i \in B :
           /\ q.node[i].offset = t[i].offset
           /\ q.node[i].size = IF i = id THEN size ELSE t[i].size
           /\ q.node[i].used = IF i = id THEN TRUE ELSE t[i].used
           /\ q.node[i].prev = IF i = next THEN x ELSE t[i].prev
           /\ q.node[i].next = IF i = id THEN x ELSE t[i].next
      /\ q.node[x].offset = t[id].offset + size
      /\ q.node[x].size = rest /\ q.node[x].used = FALSE
      /\ q.node[x].prev = id /\ q.node[x].next = next
      /\ \A i \in S \ C : q.node[i].used = t[i].used
      /\ q.free = r.free - size /\ q.capacity = r.capacity /\ ~ q.failed
  BY <1>6, Zenon DEF AfterSlice
<1>8. DOMAIN q.node = S /\ C \subseteq S
  BY <1>2, <1>3, <1>7, NodesIs
<1> HIDE DEF rest, next, t
<1>9. FreeOf(q, C) = (F \ {id}) \cup {x}
  BY <1>1, <1>3, <1>7 DEF FreeOf, t
<1>10. Filed(q, FreeOf(q, C), Classes(q))
  <2>1. Classes(q)[x] = c2[x]
    BY <1>3, <1>5, <1>7, <1>8 DEF Classes
  <2>2. \A i \in F \ {id} : Classes(q)[i] = c[i]
    BY <1>1, <1>2, <1>7, <1>8 DEF Classes, c, t
  <2>3. \A i \in (F \ {id}) \cup {x} : Classes(q)[i] = c2[i]
    BY <1>5, <2>1, <2>2
  <2>4. Filed(q, (F \ {id}) \cup {x}, c2)
    BY <1>7
  <2>5. Filed(q, (F \ {id}) \cup {x}, Classes(q))
    BY <2>3, <2>4, FiledClass
  <2> QED BY <1>9, <2>5
<1>11. next # None => t[next].used /\ next # x
  BY <1>1, <1>2, <1>3 DEF Coalesced, next, t
<1>12. Coalesced(q, C)
  <2>1. ASSUME NEW i \in B, q.node[i].next # None
        PROVE  q.node[i].used \/ q.node[q.node[i].next].used
    <3>1. CASE i = id
      BY <1>7, <3>1
    <3>2. CASE i # id
      <4>1. t[i].next # None /\ t[i].next \in B /\ (t[i].used \/ t[t[i].next].used)
        <5>1. t[i].next # None
          BY <1>7, <2>1, <3>2
        <5>2. t[i].next \in B
          BY <2>1, <5>1, BlockFacts DEF t, BlockOK
        <5> QED BY <1>1, <2>1, <5>1, <5>2 DEF Coalesced, t
      <4> QED BY <1>7, <2>1, <3>2, <4>1
    <3> QED BY <3>1, <3>2
  <2>2. q.node[x].next # None => q.node[q.node[x].next].used
    BY <1>2, <1>7, <1>11
  <2> QED BY <2>1, <2>2 DEF Coalesced
<1>13. Chained(q, C) /\ q.free \in Nat
  <2>1. PICK k, a : /\ Tiled(B, k, Offsets(r), Sizes(r), Prevs(r), Nexts(r), r.capacity)
                    /\ Tiled(B, k, a, FreeSizes(r), Prevs(r), Nexts(r), r.free)
    BY <1>1 DEF Chained
  <2> DEFINE o == Offsets(r)
             z == Sizes(r)
             p == Prevs(r)
             n == Nexts(r)
             w == FreeSizes(r)
             oq == Offsets(q)
             zq == Sizes(q)
             pq == Prevs(q)
             nq == Nexts(q)
             wq == FreeSizes(q)
  <2>2. \A i \in B : /\ Offsets(r)[i] = t[i].offset /\ Sizes(r)[i] = t[i].size
                     /\ Prevs(r)[i] = t[i].prev /\ Nexts(r)[i] = t[i].next
                     /\ FreeSizes(r)[i] = IF t[i].used THEN 0 ELSE t[i].size
    BY <1>2 DEF Offsets, Sizes, Prevs, Nexts, FreeSizes, t
  <2>3. \A i \in C : /\ Offsets(q)[i] = q.node[i].offset /\ Sizes(q)[i] = q.node[i].size
                     /\ Prevs(q)[i] = q.node[i].prev /\ Nexts(q)[i] = q.node[i].next
                     /\ FreeSizes(q)[i] = IF q.node[i].used THEN 0 ELSE q.node[i].size
    BY <1>8 DEF Offsets, Sizes, Prevs, Nexts, FreeSizes
  <2>4. x # None /\ None \notin B
    <3>1. S \subseteq Nat
      BY DEF Numbers
    <3>2. None \notin Nat
      BY MiniramAssumption
    <3> QED BY <1>2, <1>3, <3>1, <3>2
  <2> DEFINE k2 == [j \in C |-> IF j = x THEN 2 * k[id] + 1 ELSE 2 * k[j]]
  <2>5. k2[x] = 2 * k[id] + 1 /\ \A j \in B : k2[j] = 2 * k[j]
    BY <1>3
  <2>6. /\ pq[x] = id /\ \A j \in B : pq[j] = IF j = n[id] THEN x ELSE p[j]
        /\ nq[x] = n[id] /\ nq[id] = x
        /\ \A j \in B \ {id} : nq[j] = n[j]
    <3>1. x \in C /\ \A j \in B : j \in C
      OBVIOUS
    <3>2. n[id] = next /\ \A j \in B : p[j] = t[j].prev /\ n[j] = t[j].next
      BY <1>1, <2>2 DEF next
    <3>3. \A j \in C : pq[j] = q.node[j].prev /\ nq[j] = q.node[j].next
      BY <2>3
    <3>4. /\ \A j \in B : /\ q.node[j].prev = IF j = next THEN x ELSE t[j].prev
                         /\ q.node[j].next = IF j = id THEN x ELSE t[j].next
          /\ q.node[x].prev = id /\ q.node[x].next = next
      BY <1>7
    <3> HIDE DEF C, p, n, pq, nq
    <3> QED BY <1>1, <3>1, <3>2, <3>3, <3>4
  <2> HIDE DEF k2
  <2>7. Tiled(C, k2, Offsets(q), Sizes(q), Prevs(q), Nexts(q), q.capacity)
    <3>1. x \in C /\ \A j \in B : j \in C
      OBVIOUS
    <3>2. \A j \in B : o[j] = t[j].offset /\ z[j] = t[j].size
      BY <2>2
    <3>3. \A j \in C : oq[j] = q.node[j].offset /\ zq[j] = q.node[j].size
      BY <2>3
    <3>4. /\ \A j \in B : /\ q.node[j].offset = t[j].offset
                         /\ q.node[j].size = IF j = id THEN size ELSE t[j].size
          /\ q.node[x].offset = t[id].offset + size /\ q.node[x].size = rest
      BY <1>7
    <3>5. rest = t[id].size - size /\ size <= t[id].size
      BY <1>2 DEF rest, t
    <3>6. r.capacity \in Nat /\ q.capacity = r.capacity
      BY <1>1, <1>7, MiniramAssumption
    <3> HIDE DEF C, o, z, oq, zq, p, n, pq, nq
    <3>7. oq[x] = o[id] + size /\ \A j \in B : oq[j] = o[j]
      BY <1>1, <3>1, <3>2, <3>3, <3>4
    <3>8. /\ zq[x] = z[id] - size /\ zq[id] = size /\ size <= z[id]
          /\ \A j \in B \ {id} : zq[j] = z[j]
      BY <1>1, <3>1, <3>2, <3>3, <3>4, <3>5
    <3>9. Tiled(B, k, o, z, p, n, r.capacity)
      BY <2>1 DEF o, z, p, n
    <3>10. CutInTwo(B, k, o, z, p, n, id, x, size, k2, oq, zq, pq, nq)
      BY <1>3, <2>4, <2>5, <2>6, <3>7, <3>8, Zenon DEF CutInTwo
    <3>11. Tiled(B \cup {x}, k2, oq, zq, pq, nq, r.capacity)
      BY <1>1, <3>6, <3>9, <3>10, TiledSplit
    <3> QED BY <3>6, <3>11 DEF C, oq, zq, pq, nq
  <2> DEFINE d == 0 - size
             a1 == [j \in B |-> IF k[id] < k[j] THEN a[j] + d ELSE a[j]]
             w1 == [j \in B |-> IF j = id THEN FreeSizes(r)[id] + d ELSE FreeSizes(r)[j]]
             a2 == [j \in C |-> IF j = x THEN a1[id] ELSE a1[j]]
  <2>8. /\ FreeSizes(r)[id] + d = rest /\ d \in Int /\ r.free + d = q.free
        /\ w1[id] = rest
    BY <1>1, <1>2, <1>4, <1>7, <2>2 DEF rest, t
  <2>9. Tiled(B, k, a1, w1, Prevs(r), Nexts(r), r.free + d) /\ r.free + d \in Nat
    <3>1. FreeSizes(r)[id] + d \in Nat
      BY <1>4, <2>8
    <3>2. \A j \in B : a1[j] = IF k[id] < k[j] THEN a[j] + d ELSE a[j]
      OBVIOUS
    <3>3. w1[id] = FreeSizes(r)[id] + d /\ \A j \in B \ {id} : w1[j] = FreeSizes(r)[j]
      BY <1>1
    <3> HIDE DEF a1, w1, d, w
    <3>4. Resizes(B, k, a, FreeSizes(r), id, d, a1, w1)
      BY <2>8, <3>1, <3>2, <3>3 DEF Resizes
    <3> QED BY <1>1, <2>1, <3>4, TiledResized
  <2>10. /\ a2[x] = a1[id] /\ \A j \in B : a2[j] = a1[j]
    BY <1>3
  <2>11. \A j \in B \ {id} : w1[j] = FreeSizes(r)[j]
    OBVIOUS
  <2> HIDE DEF a1, w1, a2, d
  <2>12. Placed(B, k, a1, w1, r.free + d)
    BY <2>9 DEF Tiled
  <2>13. /\ a2[x] = a1[id] + 0
         /\ wq[x] = w1[id] - 0 /\ wq[id] = 0 /\ 0 <= w1[id] /\ 0 \in Nat
         /\ \A j \in B \ {id} : wq[j] = w1[j]
    <3>1. a1[id] \in Nat
      BY <1>1, <2>12 DEF Placed
    <3>2. x \in C /\ \A j \in B : j \in C
      OBVIOUS
    <3>3. \A j \in C : wq[j] = IF q.node[j].used THEN 0 ELSE q.node[j].size
      BY <2>3
    <3>4. \A j \in B : w[j] = IF t[j].used THEN 0 ELSE t[j].size
      BY <2>2
    <3>5. /\ \A j \in B : /\ q.node[j].size = IF j = id THEN size ELSE t[j].size
                         /\ q.node[j].used = IF j = id THEN TRUE ELSE t[j].used
          /\ q.node[x].size = rest /\ q.node[x].used = FALSE
      BY <1>7
    <3>6. \A j \in B \ {id} : w1[j] = w[j]
      BY <2>11
    <3> HIDE DEF C, w, wq
    <3>7. wq[x] = rest /\ wq[id] = 0
      BY <1>1, <3>2, <3>3, <3>5
    <3>8. \A j \in B \ {id} : wq[j] = w[j]
      <4> SUFFICES ASSUME NEW j \in B \ {id} PROVE wq[j] = w[j]
        OBVIOUS
      <4>1. q.node[j].size = t[j].size /\ q.node[j].used = t[j].used
        BY <3>5
      <4>2. /\ wq[j] = IF q.node[j].used THEN 0 ELSE q.node[j].size
            /\ w[j] = IF t[j].used THEN 0 ELSE t[j].size
        BY <3>2, <3>3, <3>4
      <4> QED BY <4>1, <4>2
    <3> QED BY <1>4, <2>8, <2>10, <3>1, <3>6, <3>7, <3>8
  <2>14. Tiled(C, k2, a2, FreeSizes(q), Prevs(q), Nexts(q), r.free + d)
    <3>1. Tiled(B, k, a1, w1, p, n, r.free + d) /\ r.free + d \in Nat
      BY <2>9 DEF p, n
    <3>2. a2[x] = a1[id] + 0 /\ \A j \in B : a2[j] = a1[j]
      BY <2>10, <2>13
    <3> HIDE DEF C, p, n, pq, nq, wq
    <3>3. CutInTwo(B, k, a1, w1, p, n, id, x, 0, k2, a2, wq, pq, nq)
      BY <1>3, <2>4, <2>5, <2>6, <2>13, <3>2, Zenon DEF CutInTwo
    <3>4. Tiled(B \cup {x}, k2, a2, wq, pq, nq, r.free + d)
      BY <1>1, <3>1, <3>3, TiledSplit
    <3> QED BY <3>4 DEF C, pq, nq, wq
  <2> QED BY <2>7, <2>8, <2>9, <2>14 DEF Chained
<1>14. Sound(q, N, C)
  <2>1. OnlyBlocksUsed(q, N, C)
    BY <1>7 DEF Sound, OnlyBlocksUsed, t
  <2> QED BY <1>1, <1>7, <1>10, <1>12, <1>13, <2>1 DEF Sound
<1>15. AfterAllocation(q, r, N, B, C, id, size)
  BY <1>1, <1>7, <1>14 DEF AfterAllocation, t
<1> QED BY <1>15, Zenon DEF q, x, t

-----------------------------------------------------------------------------
(* A member of a tiling takes over its left neighbour, its right one, both *)
(* or none of them.                                                        *)
Merges(B, C, o, s, p, n, id, left, right, o2, s2, p2, n2) ==
    /\ left \in BOOLEAN /\ right \in BOOLEAN
    /\ left => p[id] # None
    /\ right => n[id] # None
    /\ C = {j \in B : ~ (left /\ j = p[id]) /\ ~ (right /\ j = n[id])}
    /\ o2[id] = IF left THEN o[p[id]] ELSE o[id]
    /\ s2[id] = s[id] + (IF left THEN s[p[id]] ELSE 0) + (IF right THEN s[n[id]] ELSE 0)
    /\ p2[id] = IF left THEN p[p[id]] ELSE p[id]
    /\ n2[id] = IF right THEN n[n[id]] ELSE n[id]
    /\ \A j \in C \ {id} : /\ o2[j] = o[j] /\ s2[j] = s[j]
                           /\ p2[j] = IF j = n2[id] THEN id ELSE p[j]
                           /\ n2[j] = IF j = p2[id] THEN id ELSE n[j]

LEMMA TiledMerge ==
    ASSUME NEW B, NEW k, NEW o, NEW s, NEW p, NEW n, NEW total \in Nat, None \notin B,
           Tiled(B, k, o, s, p, n, total), NEW id \in B, NEW C, NEW left, NEW right,
           NEW o2, NEW s2, NEW p2, NEW n2,
           Merges(B, C, o, s, p, n, id, left, right, o2, s2, p2, n2)
    PROVE  Tiled(C, k, o2, s2, p2, n2, total)
<1> DEFINE x == p[id]
           y == n[id]
           B1 == IF left THEN B \ {x} ELSE B
           o1 == [j \in B1 |-> IF j = id THEN o2[id] ELSE o[j]]
           s1 == [j \in B1 |-> IF j = id THEN s[id] + (IF left THEN s[x] ELSE 0) ELSE s[j]]
           p1 == [j \in B1 |-> IF j = id THEN p2[id] ELSE p[j]]
           n1 == [j \in B1 |-> IF j = p2[id] THEN id ELSE n[j]]
<1>1. \A i \in B : k[i] \in Nat /\ o[i] \in Nat /\ s[i] \in Nat
  BY DEF Tiled, Placed
<1>2. /\ \A i \in B : p[i] # None => p[i] \in B /\ n[p[i]] = i
      /\ \A i \in B : n[i] # None => n[i] \in B /\ p[n[i]] = i /\ k[i] < k[n[i]]
  BY DEF Tiled, Linked
<1>3. /\ left \in BOOLEAN /\ right \in BOOLEAN /\ (left => x # None) /\ (right => y # None)
      /\ C = {j \in B : ~ (left /\ j = x) /\ ~ (right /\ j = y)}
      /\ o2[id] = (IF left THEN o[x] ELSE o[id])
      /\ s2[id] = s[id] + (IF left THEN s[x] ELSE 0) + (IF right THEN s[y] ELSE 0)
      /\ p2[id] = (IF left THEN p[x] ELSE x)
      /\ n2[id] = (IF right THEN n[y] ELSE y)
  BY Zenon DEF Merges
<1>4. \A j \in C \ {id} : /\ o2[j] = o[j] /\ s2[j] = s[j]
                          /\ p2[j] = IF j = n2[id] THEN id ELSE p[j]
                          /\ n2[j] = IF j = p2[id] THEN id ELSE n[j]
  BY Zenon DEF Merges
<1>5. /\ x # None => x \in B /\ n[x] = id /\ x # id /\ k[x] < k[id]
      /\ y # None => y \in B /\ p[y] = id /\ y # id /\ k[id] < k[y]
      /\ x # None => x # y
  <2>1. x # None => x \in B /\ n[x] = id
    BY <1>2
  <2>2. x # None => k[x] < k[id]
    BY <1>2, <2>1
  <2>3. y # None => y \in B /\ p[y] = id /\ k[id] < k[y]
    BY <1>2
  <2> QED BY <1>1, <2>1, <2>2, <2>3
<1>6. /\ p2[id] # id /\ n2[id] # id
      /\ left => p2[id] # x
      /\ right => n2[id] # y
      /\ p2[id] # None => p2[id] \in B /\ k[p2[id]] < k[id]
      /\ n2[id] # None => n2[id] \in B /\ k[id] < k[n2[id]]
  <2>1. \A i \in B : p[i] # None => p[i] \in B /\ k[p[i]] < k[i] /\ k[p[i]] \in Nat
    BY <1>1, <1>2
  <2>2. \A i \in B : n[i] # None => n[i] \in B /\ k[i] < k[n[i]] /\ k[n[i]] \in Nat
    BY <1>1, <1>2
  <2>3. k[id] \in Nat
    BY <1>1
  <2>4. CASE left
    <3>1. /\ x \in B /\ k[x] < k[id] /\ k[x] \in Nat /\ p2[id] = p[x]
      BY <1>1, <1>3, <1>5, <2>4
    <3>2. p[x] # None => p[x] \in B /\ k[p[x]] < k[x] /\ k[p[x]] \in Nat
      BY <2>1, <3>1
    <3>3. p2[id] # id /\ p2[id] # x /\ (p2[id] # None => p2[id] \in B /\ k[p2[id]] < k[id])
      BY <2>3, <3>1, <3>2
    <3>4. CASE right
      <4>1. /\ y \in B /\ k[id] < k[y] /\ k[y] \in Nat /\ n2[id] = n[y]
        BY <1>1, <1>3, <1>5, <3>4
      <4>2. n[y] # None => n[y] \in B /\ k[y] < k[n[y]] /\ k[n[y]] \in Nat
        BY <2>2, <4>1
      <4> QED BY <2>3, <3>3, <4>1, <4>2
    <3>5. CASE ~ right
      <4>1. n2[id] = y
        BY <1>3, <3>5
      <4> QED BY <1>5, <3>3, <3>5, <4>1
    <3> QED BY <3>4, <3>5
  <2>5. CASE ~ left
    <3>1. p2[id] = x
      BY <1>3, <2>5
    <3>2. CASE right
      <4>1. /\ y \in B /\ k[id] < k[y] /\ k[y] \in Nat /\ n2[id] = n[y]
        BY <1>1, <1>3, <1>5, <3>2
      <4>2. n[y] # None => n[y] \in B /\ k[y] < k[n[y]] /\ k[n[y]] \in Nat
        BY <2>2, <4>1
      <4> QED BY <1>5, <2>3, <2>5, <3>1, <4>1, <4>2
    <3>3. CASE ~ right
      <4>1. n2[id] = y
        BY <1>3, <3>3
      <4> QED BY <1>5, <2>5, <3>1, <3>3, <4>1
    <3> QED BY <3>2, <3>3
  <2> QED BY <2>4, <2>5
<1> HIDE DEF x, y
<1>7. id \in B1 /\ (y # None => y \in B1 /\ y # p2[id])
  <2>1. id \in B1
    BY <1>3, <1>5
  <2>2. y # None => y \in B1
    BY <1>3, <1>5
  <2>3. y # None => y # p2[id]
    BY <1>1, <1>5, <1>6
  <2> QED BY <2>1, <2>2, <2>3
<1>8. /\ \A j \in B1 : /\ o1[j] = IF j = id THEN o2[id] ELSE o[j]
                       /\ s1[j] = IF j = id THEN s[id] + (IF left THEN s[x] ELSE 0) ELSE s[j]
                       /\ p1[j] = IF j = id THEN p2[id] ELSE p[j]
                       /\ n1[j] = IF j = p2[id] THEN id ELSE n[j]
      /\ B1 \subseteq B /\ None \notin B1
  BY Zenon
<1> HIDE DEF o1, s1, p1, n1
<1>9. Tiled(B1, k, o1, s1, p1, n1, total)
  <2>1. CASE left
    <3>1. B1 = B \ {x} /\ x # None /\ p2[id] = p[x] /\ o2[id] = o[x]
      BY <1>3, <2>1
    <3>2. s1[id] = s[x] + s[id]
      <4>1. s1[id] = s[id] + s[x] /\ s[id] \in Nat /\ s[x] \in Nat
        BY <1>1, <1>3, <1>5, <1>7, <1>8, <2>1
      <4> QED BY <4>1
    <3> HIDE DEF B1
    <3>3. TakesPrev(B, o, s, p, n, id, x, o1, s1, p1, n1)
      BY <1>7, <1>8, <3>1, <3>2 DEF TakesPrev, x
    <3> QED BY <3>1, <3>3, TiledAbsorbPrev
  <2>2. CASE ~ left
    <3>1. B1 = B /\ p2[id] = x /\ o2[id] = o[id]
      BY <1>3, <2>2
    <3> HIDE DEF B1
    <3>2. s1[id] = s[id]
      <4>1. s1[id] = s[id] + 0 /\ s[id] \in Nat
        BY <1>1, <1>7, <1>8, <2>2
      <4> QED BY <4>1
    <3>3. \A j \in B : o1[j] = o[j] /\ s1[j] = s[j] /\ p1[j] = p[j] /\ n1[j] = n[j]
      BY <1>5, <1>8, <3>1, <3>2 DEF x
    <3> QED BY <3>1, <3>3, TiledFrame
  <2> QED BY <1>3, <2>1, <2>2
<1>10. C = IF right THEN B1 \ {y} ELSE B1
  BY <1>3
<1>11. id \in C /\ C \subseteq B1
  BY <1>3, <1>5, <1>7, <1>10
<1> HIDE DEF B1
<1>12. \A j \in C : /\ o2[j] = o1[j]
                    /\ n2[j] = IF j = id THEN n2[id] ELSE n1[j]
                    /\ j # id => s2[j] = s1[j]
                    /\ p2[j] = IF j = n2[id] THEN id ELSE p1[j]
  BY <1>4, <1>6, <1>8, <1>11
<1>13. n1[id] = y /\ (y # None => s1[y] = s[y] /\ n1[y] = n[y] /\ p1[y] = id)
  BY <1>5, <1>6, <1>7, <1>8 DEF y
<1>14. CASE right
  <2>1. y # None /\ C = B1 \ {y} /\ n2[id] = n[y]
    BY <1>3, <1>10, <1>14
  <2>2. s2[id] = s1[id] + s1[y]
    <3>1. s1[id] = s[id] + (IF left THEN s[x] ELSE 0)
      BY <1>7, <1>8
    <3>2. s2[id] = s[id] + (IF left THEN s[x] ELSE 0) + s[y]
      BY <1>3, <1>14
    <3> QED BY <1>13, <2>1, <3>1, <3>2
  <2>3. TakesNext(B1, o1, s1, p1, n1, id, y, o2, s2, p2, n2)
    BY <1>8, <1>12, <1>13, <2>1, <2>2 DEF TakesNext
  <2> QED BY <1>7, <1>9, <2>1, <2>3, TiledAbsorbNext
<1>15. CASE ~ right
  <2>1. C = B1 /\ n2[id] = y
    BY <1>3, <1>10, <1>15
  <2>2. s2[id] = s1[id]
    <3>1. s1[id] = s[id] + (IF left THEN s[x] ELSE 0) /\ s1[id] \in Nat
      BY <1>1, <1>3, <1>5, <1>7, <1>8
    <3>2. s2[id] = s[id] + (IF left THEN s[x] ELSE 0) + 0
      BY <1>3, <1>15
    <3> QED BY <3>1, <3>2
  <2>3. ASSUME NEW j \in B1
        PROVE  o2[j] = o1[j] /\ s2[j] = s1[j] /\ p2[j] = p1[j] /\ n2[j] = n1[j]
    <3>1. j # None /\ j \in C
      BY <1>11, <2>1, None \notin B, B1 \subseteq B DEF B1
    <3>2. o2[j] = o1[j]
      BY <1>12, <3>1
    <3>3. s2[j] = s1[j]
      BY <1>12, <2>2, <3>1
    <3>4. p2[j] = p1[j]
      <4>1. CASE j = y
        BY <1>12, <1>13, <2>1, <3>1, <4>1
      <4>2. CASE j # y
        BY <1>12, <2>1, <3>1, <4>2
      <4> QED BY <4>1, <4>2
    <3>5. n2[j] = n1[j]
      BY <1>12, <1>13, <2>1, <3>1
    <3> QED BY <3>2, <3>3, <3>4, <3>5
  <2> QED BY <1>9, <2>1, <2>3, TiledFrame
<1> QED BY <1>3, <1>14, <1>15

-----------------------------------------------------------------------------
(* free(): what the code works out before it changes anything, for the     *)
(* block id of r.                                                          *)

ByPrev(r, id) == IsFree(r, r.node[id].prev)
ByNext(r, id) == IsFree(r, r.node[id].next)

PrevOf(r, id) == IF ByPrev(r, id) THEN r.node[r.node[id].prev].prev ELSE r.node[id].prev
NextOf(r, id) == IF ByNext(r, id) THEN r.node[r.node[id].next].next ELSE r.node[id].next

OffsetOf(r, id) ==
    IF ByPrev(r, id) THEN r.node[r.node[id].prev].offset ELSE r.node[id].offset

SizeOf(r, id) ==
    r.node[id].size + (IF ByPrev(r, id) THEN r.node[r.node[id].prev].size ELSE 0)
                    + (IF ByNext(r, id) THEN r.node[r.node[id].next].size ELSE 0)

(* The neighbours that are taken over.                                     *)
Absorbed(r, id) ==
    {j \in {r.node[id].prev, r.node[id].next} :
        (ByPrev(r, id) /\ j = r.node[id].prev) \/ (ByNext(r, id) /\ j = r.node[id].next)}

(* The size of the merged block is one the bins have a class for.          *)
MergeOK(r, N, B, id) ==
    /\ SizeOf(r, id) \in 0 .. Capacity /\ FloorToFloat(SizeOf(r, id)) \in Bins
    /\ OffsetOf(r, id) \in Nat
    /\ ByPrev(r, id) \in BOOLEAN /\ ByNext(r, id) \in BOOLEAN
    /\ ByPrev(r, id) => /\ r.node[id].prev \in B \ {id} /\ r.node[id].prev # None
                        /\ ~ r.node[r.node[id].prev].used
                        /\ r.node[r.node[id].prev].next = id
    /\ ByNext(r, id) => /\ r.node[id].next \in B \ {id} /\ r.node[id].next # None
                        /\ ~ r.node[r.node[id].next].used
                        /\ r.node[r.node[id].next].prev = id
    /\ r.node[id].prev # None => r.node[id].prev # r.node[id].next
    /\ PrevOf(r, id) # None =>
         PrevOf(r, id) \in B \ (Absorbed(r, id) \cup {id}) /\ r.node[PrevOf(r, id)].used
    /\ NextOf(r, id) # None =>
         NextOf(r, id) \in B \ (Absorbed(r, id) \cup {id}) /\ r.node[NextOf(r, id)].used

LEMMA MergeFacts ==
    ASSUME NEW N \in Nat, NEW r, NEW B, Sound(r, N, B), NEW id \in B, r.node[id].used
    PROVE  MergeOK(r, N, B, id)
<1> DEFINE x == r.node[id].prev
           y == r.node[id].next
<1>1. PICK k : Tiled(B, k, Offsets(r), Sizes(r), Prevs(r), Nexts(r), r.capacity)
  BY DEF Sound, Chained
<1>2. /\ B \subseteq Numbers(N) /\ DOMAIN r.node = Numbers(N) /\ r.capacity = Capacity
      /\ \A i \in B : r.node[i].used \in BOOLEAN
  <2>1. r \in Objects(N) /\ B \subseteq Numbers(N) /\ r.capacity = Capacity
    BY DEF Sound, Stacked
  <2>2. \A i \in B : r.node[i] \in NodeRecord
    BY <2>1, ObjectFields DEF Tables
  <2>3. \A i \in B : r.node[i].used \in BOOLEAN
    BY <2>2, NodeFields
  <2> QED BY <2>1, <2>3, NodesIs
<1>3. \A j \in B : /\ Offsets(r)[j] = r.node[j].offset /\ Sizes(r)[j] = r.node[j].size
                   /\ Prevs(r)[j] = r.node[j].prev /\ Nexts(r)[j] = r.node[j].next
  BY <1>2 DEF Offsets, Sizes, Prevs, Nexts
<1>4. None \notin B
  <2>1. Numbers(N) \subseteq Nat
    BY DEF Numbers
  <2> QED BY <1>2, <2>1, MiniramAssumption
<1>5. \A i \in B : /\ k[i] \in Nat /\ r.node[i].offset \in Nat /\ r.node[i].size \in Nat
                   /\ r.node[i].offset + r.node[i].size <= Capacity
  BY <1>1, <1>2, <1>3 DEF Tiled, Placed
<1>6. \A i \in B : r.node[i].next # None =>
        /\ r.node[i].next \in B /\ r.node[r.node[i].next].prev = i
        /\ k[i] < k[r.node[i].next]
        /\ r.node[r.node[i].next].offset = r.node[i].offset + r.node[i].size
  <2>1. \A i \in B : Nexts(r)[i] # None =>
          /\ Nexts(r)[i] \in B /\ Prevs(r)[Nexts(r)[i]] = i /\ k[i] < k[Nexts(r)[i]]
    BY <1>1 DEF Tiled, Linked
  <2>2. \A i \in B : Nexts(r)[i] # None =>
          Offsets(r)[Nexts(r)[i]] = Offsets(r)[i] + Sizes(r)[i]
    BY <1>1 DEF Tiled, Gapless
  <2> QED BY <1>3, <2>1, <2>2
<1>7. \A i \in B : r.node[i].prev # None =>
        /\ r.node[i].prev \in B /\ r.node[r.node[i].prev].next = i
        /\ k[r.node[i].prev] < k[i]
        /\ r.node[i].offset = r.node[r.node[i].prev].offset + r.node[r.node[i].prev].size
  <2>1. \A i \in B : Prevs(r)[i] # None => Prevs(r)[i] \in B /\ Nexts(r)[Prevs(r)[i]] = i
    BY <1>1 DEF Tiled, Linked
  <2>2. \A i \in B : r.node[i].prev # None =>
          r.node[i].prev \in B /\ r.node[r.node[i].prev].next = i
    BY <1>3, <2>1
  <2> QED BY <1>4, <1>6, <2>2
<1>8. \A i \in B : r.node[i].next # None =>
        r.node[i].used \/ r.node[r.node[i].next].used
  BY DEF Sound, Coalesced
<1>9. /\ ByPrev(r, id) \in BOOLEAN /\ ByNext(r, id) \in BOOLEAN
      /\ ByPrev(r, id) => x # None /\ ~ r.node[x].used
      /\ ByNext(r, id) => y # None /\ ~ r.node[y].used
      /\ ~ ByPrev(r, id) => x = None \/ r.node[x].used
      /\ ~ ByNext(r, id) => y = None \/ r.node[y].used
  <2>1. /\ x # None => r.node[x].used \in BOOLEAN
        /\ y # None => r.node[y].used \in BOOLEAN
    BY <1>2, <1>6, <1>7
  <2> QED BY <2>1 DEF ByPrev, ByNext, IsFree
<1>10. /\ x # None => x \in B \ {id} /\ r.node[x].next = id /\ x # y
       /\ y # None => y \in B \ {id} /\ r.node[y].prev = id
  <2>1. x # None => x \in B /\ r.node[x].next = id /\ k[x] < k[id]
    BY <1>7
  <2>2. y # None => y \in B /\ r.node[y].prev = id /\ k[id] < k[y]
    BY <1>6
  <2> QED BY <1>4, <1>5, <2>1, <2>2
<1>11. SizeOf(r, id) \in 0 .. Capacity /\ OffsetOf(r, id) \in Nat
  <2>1. /\ ByPrev(r, id) => x \in B /\ r.node[id].offset = r.node[x].offset + r.node[x].size
        /\ ByNext(r, id) => y \in B /\ r.node[y].offset = r.node[id].offset + r.node[id].size
    BY <1>6, <1>7, <1>9
  <2>2. /\ ByPrev(r, id) => r.node[x].offset \in Nat /\ r.node[x].size \in Nat
        /\ ByNext(r, id) => /\ r.node[y].offset \in Nat /\ r.node[y].size \in Nat
                            /\ r.node[y].offset + r.node[y].size <= Capacity
        /\ r.node[id].offset \in Nat /\ r.node[id].size \in Nat
        /\ r.node[id].offset + r.node[id].size <= Capacity
    BY <1>5, <2>1
  <2>3. SizeOf(r, id) \in 0 .. Capacity
    <3> HIDE DEF x, y
    <3>1. SizeOf(r, id) = r.node[id].size + (IF ByPrev(r, id) THEN r.node[x].size ELSE 0)
                                          + (IF ByNext(r, id) THEN r.node[y].size ELSE 0)
      BY DEF SizeOf, x, y
    <3>2. Capacity \in Nat
      BY MiniramAssumption
    <3> QED BY <1>9, <2>1, <2>2, <3>1, <3>2
  <2> QED BY <1>9, <2>2, <2>3 DEF OffsetOf
<1>12. FloorToFloat(SizeOf(r, id)) \in Bins
  BY <1>11, ClassInBins, Zenon
<1>13. PrevOf(r, id) # None =>
         PrevOf(r, id) \in B \ (Absorbed(r, id) \cup {id}) /\ r.node[PrevOf(r, id)].used
  <2> SUFFICES ASSUME PrevOf(r, id) # None
               PROVE  PrevOf(r, id) \in B \ (Absorbed(r, id) \cup {id}) /\ r.node[PrevOf(r, id)].used
    OBVIOUS
  <2>1. CASE ByPrev(r, id)
    <3> DEFINE z == r.node[x].prev
    <3>1. PrevOf(r, id) = z /\ z # None /\ x \in B /\ ~ r.node[x].used /\ k[x] < k[id]
      BY <1>7, <1>9, <1>10, <2>1 DEF PrevOf
    <3>2. z \in B /\ r.node[z].next = x /\ k[z] < k[x]
      BY <1>7, <3>1
    <3>3. r.node[z].used
      BY <1>4, <1>8, <3>1, <3>2
    <3>4. y # None => y \in B /\ k[id] < k[y]
      BY <1>6
    <3>5. z # id /\ z # x /\ z # y
      <4>1. /\ k[id] \in Nat /\ k[z] \in Nat /\ (x \in B => k[x] \in Nat)
            /\ (y \in B => k[y] \in Nat)
        BY <1>5, <3>2
      <4> HIDE DEF z
      <4> QED BY ONLY <3>1, <3>2, <3>4, <4>1
    <3> QED BY <3>1, <3>2, <3>3, <3>5 DEF Absorbed
  <2>2. CASE ~ ByPrev(r, id)
    <3>1. PrevOf(r, id) = x /\ x # None /\ r.node[x].used /\ x \in B \ {id} /\ x # y
      BY <1>9, <1>10, <2>2 DEF PrevOf
    <3> QED BY <2>2, <3>1 DEF Absorbed
  <2> QED BY <2>1, <2>2
<1>14. NextOf(r, id) # None =>
         NextOf(r, id) \in B \ (Absorbed(r, id) \cup {id}) /\ r.node[NextOf(r, id)].used
  <2> SUFFICES ASSUME NextOf(r, id) # None
               PROVE  NextOf(r, id) \in B \ (Absorbed(r, id) \cup {id}) /\ r.node[NextOf(r, id)].used
    OBVIOUS
  <2>1. CASE ByNext(r, id)
    <3> DEFINE z == r.node[y].next
    <3>1. NextOf(r, id) = z /\ z # None /\ y \in B /\ ~ r.node[y].used /\ k[id] < k[y]
      BY <1>6, <1>9, <1>10, <2>1 DEF NextOf
    <3>2. z \in B /\ r.node[z].prev = y /\ k[y] < k[z]
      BY <1>6, <3>1
    <3>3. r.node[z].used
      BY <1>4, <1>8, <3>1, <3>2
    <3>4. x # None => x \in B /\ k[x] < k[id]
      BY <1>7
    <3>5. z # id /\ z # x /\ z # y
      <4>1. /\ k[id] \in Nat /\ k[z] \in Nat /\ (x \in B => k[x] \in Nat)
            /\ (y \in B => k[y] \in Nat)
        BY <1>5, <3>2
      <4> HIDE DEF z
      <4> QED BY ONLY <3>1, <3>2, <3>4, <4>1
    <3> QED BY <3>1, <3>2, <3>3, <3>5 DEF Absorbed
  <2>2. CASE ~ ByNext(r, id)
    <3>1. NextOf(r, id) = y /\ y # None /\ r.node[y].used /\ y \in B \ {id} /\ x # y
      BY <1>9, <1>10, <2>2 DEF NextOf
    <3> QED BY <2>2, <3>1 DEF Absorbed
  <2> QED BY <2>1, <2>2
<1> QED BY <1>9, <1>10, <1>11, <1>12, <1>13, <1>14, Zenon DEF MergeOK

(* q has the merged block id where r has the block id and the neighbours   *)
(* that are taken over.  C are the blocks of q.                            *)
Rechained(q, r, C, id) ==
    /\ \A j \in C \ {id} :
         /\ q.node[j].offset = r.node[j].offset /\ q.node[j].size = r.node[j].size
         /\ q.node[j].used = r.node[j].used
         /\ q.node[j].prev = IF j = NextOf(r, id) THEN id ELSE r.node[j].prev
         /\ q.node[j].next = IF j = PrevOf(r, id) THEN id ELSE r.node[j].next
    /\ q.node[id].offset = OffsetOf(r, id) /\ q.node[id].size = SizeOf(r, id)
    /\ ~ q.node[id].used
    /\ q.node[id].prev = PrevOf(r, id) /\ q.node[id].next = NextOf(r, id)

LEMMA FreedChain ==
    ASSUME NEW N \in Nat, NEW r, NEW B, Sound(r, N, B), NEW id \in B, r.node[id].used,
           NEW q, DOMAIN q.node = Numbers(N), q.capacity = r.capacity,
           q.free = r.free + r.node[id].size,
           Rechained(q, r, B \ Absorbed(r, id), id)
    PROVE  Chained(q, B \ Absorbed(r, id)) /\ q.free \in Nat
<1> DEFINE t == r.node
           C == B \ Absorbed(r, id)
           left == ByPrev(r, id)
           right == ByNext(r, id)
           o == Offsets(r)
           s == Sizes(r)
           p == Prevs(r)
           n == Nexts(r)
           w == FreeSizes(r)
           o2 == Offsets(q)
           s2 == Sizes(q)
           p2 == Prevs(q)
           n2 == Nexts(q)
           w2 == FreeSizes(q)
           x == p[id]
           y == n[id]
<1>1. PICK k, a : /\ Tiled(B, k, o, s, p, n, r.capacity)
                  /\ Tiled(B, k, a, w, p, n, r.free)
  BY DEF Sound, Chained
<1>2. /\ B \subseteq Numbers(N) /\ DOMAIN t = Numbers(N) /\ r.capacity = Capacity
      /\ r.free \in Nat /\ None \notin B /\ t[id].size \in Nat
  <2>1. r \in Objects(N) /\ B \subseteq Numbers(N) /\ r.capacity = Capacity /\ r.free \in Nat
    BY DEF Sound, Stacked
  <2>2. Numbers(N) \subseteq Nat
    BY DEF Numbers
  <2>3. t[id] \in NodeRecord
    BY <2>1, ObjectFields DEF Tables
  <2>4. t[id].size \in Nat
    BY <2>3, NodeFields
  <2>5. None \notin Nat
    BY MiniramAssumption
  <2> QED BY <2>1, <2>2, <2>4, <2>5, NodesIs
<1>3. \A j \in B : /\ o[j] = t[j].offset /\ s[j] = t[j].size
                   /\ p[j] = t[j].prev /\ n[j] = t[j].next
                   /\ w[j] = IF t[j].used THEN 0 ELSE t[j].size
  BY <1>2 DEF Offsets, Sizes, Prevs, Nexts, FreeSizes
<1>4. MergeOK(r, N, B, id)
  BY MergeFacts
<1>5. /\ left \in BOOLEAN /\ right \in BOOLEAN
      /\ left => x \in B \ {id} /\ x # None /\ ~ t[x].used
      /\ right => y \in B \ {id} /\ y # None /\ ~ t[y].used
      /\ x # None => x # y
      /\ PrevOf(r, id) = (IF left THEN p[x] ELSE x)
      /\ NextOf(r, id) = (IF right THEN n[y] ELSE y)
      /\ OffsetOf(r, id) = (IF left THEN o[x] ELSE o[id])
      /\ SizeOf(r, id) = s[id] + (IF left THEN s[x] ELSE 0) + (IF right THEN s[y] ELSE 0)
      /\ Absorbed(r, id) = {j \in {x, y} : (left /\ j = x) \/ (right /\ j = y)}
  <2>1. x = t[id].prev /\ y = t[id].next
    BY <1>3
  <2>2. /\ left \in BOOLEAN /\ right \in BOOLEAN
        /\ left => x \in B \ {id} /\ x # None /\ ~ t[x].used
        /\ right => y \in B \ {id} /\ y # None /\ ~ t[y].used
        /\ x # None => x # y
    BY <1>4, <2>1, Zenon DEF MergeOK
  <2>3. /\ left => p[x] = t[x].prev /\ o[x] = t[x].offset /\ s[x] = t[x].size
        /\ right => n[y] = t[y].next /\ s[y] = t[y].size
        /\ o[id] = t[id].offset /\ s[id] = t[id].size
    BY <1>3, <2>2
  <2> HIDE DEF o, s, p, n, x, y, left, right
  <2>4. /\ PrevOf(r, id) = (IF left THEN p[x] ELSE x)
        /\ NextOf(r, id) = (IF right THEN n[y] ELSE y)
    BY <2>1, <2>3 DEF PrevOf, NextOf, left, right
  <2>5. OffsetOf(r, id) = (IF left THEN o[x] ELSE o[id])
    BY <2>1, <2>3 DEF OffsetOf, left
  <2>6. SizeOf(r, id) = s[id] + (IF left THEN s[x] ELSE 0) + (IF right THEN s[y] ELSE 0)
    BY <2>1, <2>3 DEF SizeOf, left, right
  <2>7. Absorbed(r, id) = {j \in {x, y} : (left /\ j = x) \/ (right /\ j = y)}
    BY <2>1 DEF Absorbed, left, right
  <2> QED BY <2>2, <2>4, <2>5, <2>6, <2>7
<1>6. C = {j \in B : ~ (left /\ j = x) /\ ~ (right /\ j = y)} /\ id \in C /\ C \subseteq B
  BY <1>5
<1>7. \A j \in C : /\ o2[j] = q.node[j].offset /\ s2[j] = q.node[j].size
                   /\ p2[j] = q.node[j].prev /\ n2[j] = q.node[j].next
                   /\ w2[j] = IF q.node[j].used THEN 0 ELSE q.node[j].size
  BY <1>2 DEF Offsets, Sizes, Prevs, Nexts, FreeSizes
<1>8. /\ q.node[id].offset = OffsetOf(r, id) /\ q.node[id].size = SizeOf(r, id)
      /\ ~ q.node[id].used
      /\ q.node[id].prev = PrevOf(r, id) /\ q.node[id].next = NextOf(r, id)
  BY Zenon DEF Rechained
<1>9. \A j \in C \ {id} :
         /\ q.node[j].offset = t[j].offset /\ q.node[j].size = t[j].size
         /\ q.node[j].used = t[j].used
         /\ q.node[j].prev = IF j = NextOf(r, id) THEN id ELSE t[j].prev
         /\ q.node[j].next = IF j = PrevOf(r, id) THEN id ELSE t[j].next
  BY Zenon DEF Rechained
<1> HIDE DEF t, C, left, right, o, s, p, n, w, o2, s2, p2, n2, w2, x, y
<1>10. /\ p2[id] = (IF left THEN p[x] ELSE x) /\ n2[id] = (IF right THEN n[y] ELSE y)
       /\ o2[id] = (IF left THEN o[x] ELSE o[id])
       /\ s2[id] = s[id] + (IF left THEN s[x] ELSE 0) + (IF right THEN s[y] ELSE 0)
  <2>1. p2[id] = PrevOf(r, id) /\ n2[id] = NextOf(r, id)
    BY <1>6, <1>7, <1>8
  <2>2. o2[id] = OffsetOf(r, id) /\ s2[id] = SizeOf(r, id)
    BY <1>6, <1>7, <1>8
  <2> QED BY <1>5, <2>1, <2>2
<1>11. \A j \in C \ {id} : /\ o2[j] = o[j] /\ s2[j] = s[j] /\ w2[j] = w[j]
                           /\ p2[j] = IF j = n2[id] THEN id ELSE p[j]
                           /\ n2[j] = IF j = p2[id] THEN id ELSE n[j]
  <2>1. p2[id] = PrevOf(r, id) /\ n2[id] = NextOf(r, id)
    BY <1>6, <1>7, <1>8
  <2>2. \A j \in C \ {id} : o2[j] = o[j] /\ s2[j] = s[j] /\ w2[j] = w[j]
    BY <1>3, <1>6, <1>7, <1>9
  <2>3. \A j \in C \ {id} : p2[j] = IF j = n2[id] THEN id ELSE p[j]
    BY <1>3, <1>6, <1>7, <1>9, <2>1
  <2>4. \A j \in C \ {id} : n2[j] = IF j = p2[id] THEN id ELSE n[j]
    BY <1>3, <1>6, <1>7, <1>9, <2>1
  <2> QED BY <2>2, <2>3, <2>4
<1>12. Tiled(C, k, o2, s2, p2, n2, q.capacity)
  <2>1. Merges(B, C, o, s, p, n, id, left, right, o2, s2, p2, n2)
    BY <1>5, <1>6, <1>10, <1>11, Zenon DEF Merges, x, y
  <2>2. r.capacity \in Nat
    BY <1>2, MiniramAssumption
  <2> QED BY <1>1, <1>2, <2>1, <2>2, TiledMerge
<1> DEFINE d == t[id].size
           a1 == [j \in B |-> IF k[id] < k[j] THEN a[j] + d ELSE a[j]]
           w1 == [j \in B |-> IF j = id THEN w[id] + d ELSE w[j]]
           a2 == [j \in C |-> IF j = id THEN (IF left THEN a1[x] ELSE a1[id]) ELSE a1[j]]
<1>13. w[id] + d = t[id].size /\ d \in Int /\ r.free + d = q.free /\ w[id] + d \in Nat
  BY <1>2, <1>3 DEF t
<1>14. Tiled(B, k, a1, w1, p, n, r.free + d) /\ r.free + d \in Nat
  <2>1. \A j \in B : a1[j] = IF k[id] < k[j] THEN a[j] + d ELSE a[j]
    OBVIOUS
  <2>2. w1[id] = w[id] + d /\ \A j \in B \ {id} : w1[j] = w[j]
    OBVIOUS
  <2> HIDE DEF a1, w1, d
  <2>3. Resizes(B, k, a, w, id, d, a1, w1)
    BY <1>13, <2>1, <2>2, Zenon DEF Resizes
  <2> QED BY <1>1, <1>2, <2>3, TiledResized
<1>15. /\ w1[id] = t[id].size /\ \A j \in B \ {id} : w1[j] = w[j]
  BY <1>13
<1>16. /\ a2[id] = (IF left THEN a1[x] ELSE a1[id]) /\ \A j \in C \ {id} : a2[j] = a1[j]
  BY <1>6
<1> HIDE DEF a1, w1, a2, d
<1>17. w2[id] = w1[id] + (IF left THEN w1[x] ELSE 0) + (IF right THEN w1[y] ELSE 0)
  <2>1. w2[id] = q.node[id].size
    BY <1>6, <1>7, <1>8
  <2>2. s[id] = w1[id]
    BY <1>3, <1>15
  <2>3. left => s[x] = w1[x]
    BY <1>3, <1>5, <1>15
  <2>4. right => s[y] = w1[y]
    BY <1>3, <1>5, <1>15
  <2> QED BY <1>5, <1>8, <2>1, <2>2, <2>3, <2>4
<1>18. Tiled(C, k, a2, w2, p2, n2, q.free)
  <2>1. \A j \in C \ {id} : /\ a2[j] = a1[j] /\ w2[j] = w1[j]
                            /\ p2[j] = IF j = n2[id] THEN id ELSE p[j]
                            /\ n2[j] = IF j = p2[id] THEN id ELSE n[j]
    BY <1>6, <1>11, <1>15, <1>16
  <2>2. Merges(B, C, a1, w1, p, n, id, left, right, a2, w2, p2, n2)
    BY <1>5, <1>6, <1>10, <1>16, <1>17, <2>1, Zenon DEF Merges, x, y
  <2> QED BY <1>2, <1>13, <1>14, <2>2, TiledMerge
<1> QED BY <1>12, <1>13, <1>14, <1>18 DEF Chained, C, o2, s2, p2, n2, w2

(* q is r once the free blocks D, m elements, are out of the bins and      *)
(* their nodes on the stack.                                               *)
AfterMerging(q, r, N, B, F, c, D, m) ==
    /\ q \in Objects(N) /\ SameBlocks(q.node, r.node, Numbers(N))
    /\ Filed(q, F \ D, c) /\ Stacked(q, N, B \ D)
    /\ q.free = r.free - m /\ q.capacity = r.capacity /\ q.failed = r.failed

LEMMA MergedOnce ==
    ASSUME NEW N \in Nat, NEW r \in Objects(N), NEW B, B \subseteq Numbers(N), NEW F, F \subseteq B,
           NEW c, NEW D, NEW m \in Int, NEW q, AfterMerging(q, r, N, B, F, c, D, m),
           NEW i \in F \ D, c[i] = FloorToFloat(r.node[i].size)
    PROVE  AfterMerging(RemoveNode(q, i), r, N, B, F, c, D \cup {i}, m + r.node[i].size)
<1> DEFINE u == RemoveNode(q, i)
<1>1. /\ q \in Objects(N) /\ SameBlocks(q.node, r.node, Numbers(N))
      /\ Filed(q, F \ D, c) /\ Stacked(q, N, B \ D)
      /\ q.free = r.free - m /\ q.capacity = r.capacity /\ q.failed = r.failed
  BY Zenon DEF AfterMerging
<1>2. i \in Numbers(N) /\ F \ D \subseteq B \ D
  OBVIOUS
<1>3. q.node[i].size = r.node[i].size /\ r.node[i].size \in Nat /\ r.free \in Int
  <2>1. r.node[i] \in NodeRecord
    BY <1>2, ObjectFields DEF Tables
  <2> QED BY <1>1, <1>2, <2>1, NodeFields, ObjectFields DEF SameBlocks, SameBlock
<1>4. AfterRemove(u, q, N, B \ D, F \ D, c, i)
  <2>1. c[i] = FloorToFloat(q.node[i].size)
    BY <1>3
  <2> HIDE DEF u
  <2> QED BY <1>1, <1>2, <2>1, RemovedNode DEF u
<1> HIDE DEF u
<1>5. /\ u \in Objects(N) /\ SameBlocks(u.node, q.node, Numbers(N))
      /\ Filed(u, (F \ D) \ {i}, c) /\ Stacked(u, N, (B \ D) \ {i})
      /\ u.free = q.free - q.node[i].size
      /\ u.capacity = q.capacity /\ u.failed = q.failed
  BY <1>4, Zenon DEF AfterRemove
<1>6. SameBlocks(u.node, r.node, Numbers(N))
  BY <1>1, <1>5 DEF SameBlocks, SameBlock
<1>7. (F \ D) \ {i} = F \ (D \cup {i}) /\ (B \ D) \ {i} = B \ (D \cup {i})
  OBVIOUS
<1>8. u.free = r.free - (m + r.node[i].size)
  BY <1>1, <1>3, <1>5
<1>9. AfterMerging(u, r, N, B, F, c, D \cup {i}, m + r.node[i].size)
  BY <1>1, <1>5, <1>6, <1>7, <1>8, Zenon DEF AfterMerging
<1> QED BY <1>9 DEF u

MergedLeft(r, id) == IF ByPrev(r, id) THEN MergePrev(r, id) ELSE r

MergedBoth(r, id) ==
    IF ByNext(r, id) THEN MergeNext(MergedLeft(r, id), id) ELSE MergedLeft(r, id)

LEMMA BothMerged ==
    ASSUME NEW N \in Nat, NEW r, NEW B, Sound(r, N, B), NEW id \in B, r.node[id].used
    PROVE  AfterMerging(MergedBoth(r, id), r, N, B, FreeOf(r, B), Classes(r),
                        Absorbed(r, id), SizeOf(r, id) - r.node[id].size)
<1> DEFINE S == Numbers(N)
           t == r.node
           F == FreeOf(r, B)
           c == Classes(r)
           x == t[id].prev
           y == t[id].next
           byPrev == ByPrev(r, id)
           byNext == ByNext(r, id)
           left == MergedLeft(r, id)
           both == MergedBoth(r, id)
           D1 == IF byPrev THEN {x} ELSE {}
           m1 == IF byPrev THEN t[x].size ELSE 0
           D2 == IF byNext THEN D1 \cup {y} ELSE D1
           m2 == IF byNext THEN m1 + t[y].size ELSE m1
<1>1. /\ r \in Objects(N) /\ B \subseteq S /\ Filed(r, F, c) /\ Stacked(r, N, B) /\ F \subseteq B
      /\ DOMAIN t = S /\ r.free \in Nat
  <2>1. /\ r \in Objects(N) /\ B \subseteq S /\ Filed(r, F, c) /\ Stacked(r, N, B)
        /\ r.free \in Nat
    BY DEF Sound, Stacked
  <2>2. F \subseteq B
    BY DEF FreeOf
  <2> QED BY <2>1, <2>2, NodesIs
<1>2. /\ byPrev \in BOOLEAN /\ byNext \in BOOLEAN
      /\ byPrev => x \in B \ {id} /\ x # None /\ ~ t[x].used /\ t[x].next = id
      /\ byNext => y \in B \ {id} /\ y # None /\ ~ t[y].used /\ t[y].prev = id
      /\ x # None => x # y
  <2>1. MergeOK(r, N, B, id)
    BY MergeFacts
  <2> QED BY <2>1, Zenon DEF MergeOK
<1>3. \A i \in B : c[i] = FloorToFloat(t[i].size) /\ t[i].size \in Nat
  <2>1. \A i \in B : t[i] \in NodeRecord
    BY <1>1, ObjectFields DEF Tables
  <2>2. \A i \in B : t[i].size \in Nat
    BY <2>1, NodeFields
  <2> QED BY <1>1, <2>2 DEF Classes
<1>4. D2 = Absorbed(r, id) /\ m2 = SizeOf(r, id) - t[id].size
  <2>1. D2 = Absorbed(r, id)
    BY <1>2 DEF Absorbed
  <2>2. /\ t[id].size \in Nat /\ (byPrev => t[x].size \in Nat) /\ (byNext => t[y].size \in Nat)
    BY <1>2, <1>3
  <2>3. SizeOf(r, id) = t[id].size + (IF byPrev THEN t[x].size ELSE 0)
                                   + (IF byNext THEN t[y].size ELSE 0)
    BY DEF SizeOf
  <2> HIDE DEF t, x, y, byPrev, byNext
  <2> QED BY <1>2, <2>1, <2>2, <2>3
<1> HIDE DEF c, F
<1>5. AfterMerging(r, r, N, B, F, c, {}, 0)
  <2>1. SameBlocks(r.node, r.node, S)
    BY DEF SameBlocks, SameBlock
  <2>2. F \ {} = F /\ B \ {} = B /\ r.free = r.free - 0
    BY <1>1
  <2> QED BY <1>1, <2>1, <2>2, Zenon DEF AfterMerging
<1>6. AfterMerging(left, r, N, B, F, c, D1, m1) /\ m1 \in Int
  <2>1. CASE byPrev
    <3>1. left = RemoveNode(r, x)
      BY <1>2, <2>1 DEF MergedLeft, MergePrev
    <3>2. x \in F \ {} /\ c[x] = FloorToFloat(t[x].size) /\ t[x].size \in Nat
      BY <1>2, <1>3, <2>1 DEF F, FreeOf
    <3> HIDE DEF left
    <3>3. AfterMerging(RemoveNode(r, x), r, N, B, F, c, {} \cup {x}, 0 + t[x].size)
      <4>1. 0 \in Int
        OBVIOUS
      <4> QED BY <1>1, <1>5, <3>2, <4>1, MergedOnce
    <3>4. D1 = {} \cup {x} /\ m1 = 0 + t[x].size /\ m1 \in Int
      BY <2>1, <3>2
    <3> QED BY <3>1, <3>3, <3>4
  <2>2. CASE ~ byPrev
    <3>1. left = r /\ D1 = {} /\ m1 = 0
      BY <2>2 DEF MergedLeft
    <3> QED BY <1>5, <3>1
  <2> QED BY <2>1, <2>2
<1> HIDE DEF D1, m1, left
<1>7. AfterMerging(both, r, N, B, F, c, D2, m2)
  <2>1. CASE byNext
    <3>1. y \in F \ D1 /\ c[y] = FloorToFloat(t[y].size) /\ t[y].size \in Nat
      BY <1>2, <1>3, <2>1 DEF F, FreeOf, D1
    <3>2. SameBlocks(left.node, t, S)
      BY <1>6, Zenon DEF AfterMerging
    <3>3. left.node[id].next = y /\ left.node[y].prev = id
      BY <1>1, <1>2, <2>1, <3>2 DEF SameBlocks, SameBlock
    <3>4. both = RemoveNode(left, y)
      BY <2>1, <3>3 DEF MergedBoth, MergeNext, left
    <3> HIDE DEF both
    <3>5. AfterMerging(RemoveNode(left, y), r, N, B, F, c, D1 \cup {y}, m1 + t[y].size)
      BY <1>1, <1>6, <3>1, MergedOnce
    <3>6. D2 = D1 \cup {y} /\ m2 = m1 + t[y].size
      BY <2>1
    <3> QED BY <3>4, <3>5, <3>6
  <2>2. CASE ~ byNext
    <3>1. both = left /\ D2 = D1 /\ m2 = m1
      BY <2>2 DEF MergedBoth, left
    <3> QED BY <1>6, <3>1
  <2> QED BY <2>1, <2>2
<1> QED BY <1>4, <1>7 DEF F, c

(* The object after free(id).                                              *)
AfterFree(q, r, N, B, C, id) ==
    /\ Sound(q, N, C) /\ C \subseteq B /\ id \in C /\ ~ q.node[id].used
    /\ \A j \in C \ {id} : /\ q.node[j].offset = r.node[j].offset
                           /\ q.node[j].size = r.node[j].size
                           /\ q.node[j].used = r.node[j].used
    /\ \A j \in B \ C : ~ r.node[j].used

Merged(r, id) ==
    InsertNode(PushFreeNode(MergedBoth(r, id), id), SizeOf(r, id), OffsetOf(r, id))

LEMMA FreeAsWritten ==
    ASSUME NEW r, NEW id, r.node[id].used, ~ Merged(r, id).failed
    PROVE  FreeResult(r, id) = Chain(Merged(r, id), NextFreeNode(PushFreeNode(MergedBoth(r, id), id)),
                                     PrevOf(r, id), NextOf(r, id))
<1>1. ~ (~ r.node[id].used \/ Merged(r, id).failed)
  OBVIOUS
<1> QED BY <1>1, Zenon DEF FreeResult, Merged, MergedBoth, MergedLeft, SizeOf, OffsetOf, PrevOf,
                           NextOf, ByPrev, ByNext

LEMMA FreeSound ==
    ASSUME NEW N \in Nat, NEW r, NEW B, Sound(r, N, B), NEW id \in B, r.node[id].used
    PROVE  AfterFree(FreeResult(r, id), r, N, B, B \ Absorbed(r, id), id)
<1> DEFINE S == Numbers(N)
           t == r.node
           D == Absorbed(r, id)
           C == B \ D
           E == C \ {id}
           F == FreeOf(r, B)
           c == Classes(r)
           m == SizeOf(r, id) - t[id].size
           both == MergedBoth(r, id)
           pushed == PushFreeNode(both, id)
           size == SizeOf(r, id)
           offset == OffsetOf(r, id)
           prev == PrevOf(r, id)
           next == NextOf(r, id)
           merged == Merged(r, id)
           q == FreeResult(r, id)
           c2 == [i \in S |-> IF i = id THEN FloorToFloat(size) ELSE c[i]]
<1>1. /\ r \in Objects(N) /\ ~ r.failed /\ r.capacity = Capacity /\ r.free \in Nat
      /\ B \subseteq S /\ Stacked(r, N, B) /\ Filed(r, F, c) /\ Coalesced(r, B)
      /\ F \subseteq B /\ DOMAIN t = S /\ id \in S /\ id \notin F
  <2>1. /\ r \in Objects(N) /\ ~ r.failed /\ r.capacity = Capacity /\ r.free \in Nat
        /\ B \subseteq S /\ Stacked(r, N, B) /\ Filed(r, F, c) /\ Coalesced(r, B)
    BY DEF Sound, Stacked
  <2>2. F \subseteq B /\ id \notin F
    BY DEF FreeOf
  <2> QED BY <2>1, <2>2, NodesIs
<1>2. MergeOK(r, N, B, id)
  BY MergeFacts
<1>3. /\ size \in 0 .. Capacity /\ FloorToFloat(size) \in Bins /\ offset \in Nat
      /\ \A j \in D : j \in F /\ j # id
      /\ prev # None => prev \in E /\ t[prev].used
      /\ next # None => next \in E /\ t[next].used
  <2>1. /\ size \in 0 .. Capacity /\ FloorToFloat(size) \in Bins /\ offset \in Nat
        /\ prev # None => prev \in B \ (D \cup {id}) /\ t[prev].used
        /\ next # None => next \in B \ (D \cup {id}) /\ t[next].used
    BY <1>2, Zenon DEF MergeOK
  <2>2. /\ ByPrev(r, id) => t[id].prev \in B \ {id} /\ ~ t[t[id].prev].used
        /\ ByNext(r, id) => t[id].next \in B \ {id} /\ ~ t[t[id].next].used
    BY <1>2, Zenon DEF MergeOK
  <2>3. \A j \in D : j \in F /\ j # id
    BY <2>2 DEF Absorbed, FreeOf
  <2> HIDE DEF D
  <2> QED BY <2>1, <2>3
<1>4. id \in C /\ C \subseteq S /\ E \subseteq S
  BY <1>1, <1>3
<1>5. size \in Nat /\ t[id].size \in Nat /\ m \in Int
  <2>1. size \in Nat
    BY <1>3, MiniramAssumption
  <2>2. t[id] \in NodeRecord
    BY <1>1, ObjectFields DEF Tables
  <2>3. t[id].size \in Nat
    BY <2>2, NodeFields
  <2> QED BY <2>1, <2>3
<1> HIDE DEF D, F, c, size, offset, prev, next, m
<1>6. /\ both \in Objects(N) /\ SameBlocks(both.node, t, S)
      /\ Filed(both, F \ D, c) /\ Stacked(both, N, C)
      /\ both.free = r.free - m /\ both.capacity = r.capacity /\ both.failed = r.failed
  <2>1. AfterMerging(both, r, N, B, F, c, D, m)
    BY BothMerged DEF F, c, D, m, size
  <2> HIDE DEF both
  <2> QED BY <2>1, Zenon DEF AfterMerging
<1> HIDE DEF both
<1>7. /\ pushed \in Objects(N) /\ SameNodes(pushed, both) /\ pushed.free = both.free
      /\ Stacked(pushed, N, E) /\ pushed.ptr = both.ptr - 1 /\ NextFreeNode(pushed) = id
  <2>1. id \in C
    BY <1>4
  <2> HIDE DEF C
  <2>2. both \in Objects(N) /\ Stacked(both, N, C)
    BY <1>6
  <2> QED BY <2>1, <2>2, PushedNode
<1> HIDE DEF pushed
<1>8. Filed(pushed, F \ D, c) /\ SameBlocks(pushed.node, t, S) /\ pushed.ptr < N
  <2>1. Filed(pushed, F \ D, c)
    BY <1>6, <1>7, FiledSame DEF SameNodes
  <2>2. SameBlocks(pushed.node, t, S)
    BY <1>6, <1>7 DEF SameNodes
  <2>3. both.ptr \in 0 .. N
    BY <1>6, ObjectFields
  <2> QED BY <1>7, <2>1, <2>2, <2>3
<1>9. c2[id] = FloorToFloat(size) /\ \A i \in F : c2[i] = c[i]
  BY <1>1
<1> HIDE DEF c2
<1>10. AfterInsert(merged, pushed, N, E, F \ D, c2, size, offset, id)
  <2>1. Filed(pushed, F \ D, c2)
    BY <1>8, <1>9, FiledClass
  <2>2. F \ D \subseteq E
    BY <1>1
  <2>3. AfterInsert(InsertNode(pushed, size, offset), pushed, N, E, F \ D, c2, size, offset,
                    NextFreeNode(pushed))
    BY <1>3, <1>5, <1>7, <1>8, <1>9, <2>1, <2>2, InsertedNode
  <2>4. merged = InsertNode(pushed, size, offset)
    BY DEF Merged, pushed, both, size, offset
  <2> QED BY <1>7, <2>3, <2>4
<1> HIDE DEF merged
<1>11. /\ merged \in Objects(N) /\ \A i \in S \ {id} : SameBlock(merged.node[i], pushed.node[i])
       /\ SameBlock(merged.node[id], [Unused EXCEPT !.offset = offset, !.size = size])
       /\ Filed(merged, (F \ D) \cup {id}, c2) /\ Stacked(merged, N, E \cup {id})
       /\ merged.free = pushed.free + size
       /\ merged.capacity = pushed.capacity /\ merged.failed = pushed.failed
  BY <1>10, Zenon DEF AfterInsert
<1>12. /\ \A i \in E : SameBlock(merged.node[i], t[i])
       /\ merged.node[id].offset = offset /\ merged.node[id].size = size
       /\ merged.node[id].used = FALSE
       /\ ~ merged.failed /\ merged.capacity = r.capacity
       /\ merged.free = r.free + t[id].size
  <2>1. \A i \in E : SameBlock(merged.node[i], t[i])
    BY <1>4, <1>8, <1>11 DEF SameBlocks, SameBlock
  <2>2. /\ merged.node[id].offset = offset /\ merged.node[id].size = size
        /\ merged.node[id].used = FALSE
    BY <1>11 DEF SameBlock, Unused
  <2>3. ~ merged.failed /\ merged.capacity = r.capacity
    BY <1>1, <1>6, <1>7, <1>11 DEF SameNodes
  <2>4. m = size - t[id].size
    BY DEF m, size
  <2>5. merged.free = r.free + t[id].size
    BY <1>1, <1>5, <1>6, <1>7, <1>11, <2>4
  <2> QED BY <2>1, <2>2, <2>3, <2>5
<1>13. q = Chain(merged, id, prev, next)
  <2>1. ~ Merged(r, id).failed
    BY <1>12 DEF merged
  <2>2. q = Chain(merged, NextFreeNode(pushed), prev, next)
    BY <2>1, FreeAsWritten DEF merged, pushed, both, prev, next
  <2> QED BY <1>7, <2>2
<1> HIDE DEF q
<1>14. /\ q \in Objects(N) /\ SameCounters(q, merged)
       /\ q.bin = merged.bin /\ q.leaf = merged.leaf /\ q.top = merged.top
       /\ \A i \in S :
            /\ SameButNeighbours(q.node[i], merged.node[i])
            /\ q.node[i].prev = IF i = next THEN id ELSE IF i = id THEN prev ELSE merged.node[i].prev
            /\ q.node[i].next = IF i = prev THEN id ELSE IF i = id THEN next ELSE merged.node[i].next
  <2>1. prev \in S \cup {None} /\ next \in S \cup {None} /\ prev # id /\ next # id
    <3>1. id # None
      <4>1. S \subseteq Nat
        BY DEF Numbers
      <4> QED BY <1>1, <4>1, MiniramAssumption
    <3> QED BY <1>3, <1>4, <3>1
  <2>2. merged \in Objects(N) /\ id \in S
    BY <1>1, <1>11
  <2>3. AfterChain(Chain(merged, id, prev, next), merged, N, id, prev, next)
    BY <2>1, <2>2, ChainedNode, Zenon
  <2> QED BY <1>13, <2>3, Zenon DEF AfterChain
<1>15. DOMAIN q.node = S /\ DOMAIN merged.node = S
  BY <1>11, <1>14, NodesIs
<1>16. Rechained(q, r, C, id)
  <2>1. \A j \in E : /\ q.node[j].offset = t[j].offset /\ q.node[j].size = t[j].size
                     /\ q.node[j].used = t[j].used
    BY <1>4, <1>12, <1>14 DEF SameBlock, SameButNeighbours
  <2>2. \A j \in E : /\ q.node[j].prev = IF j = next THEN id ELSE t[j].prev
                     /\ q.node[j].next = IF j = prev THEN id ELSE t[j].next
    BY <1>4, <1>12, <1>14 DEF SameBlock
  <2>3. /\ q.node[id].offset = offset /\ q.node[id].size = size /\ ~ q.node[id].used
    BY <1>4, <1>12, <1>14 DEF SameButNeighbours
  <2>4. q.node[id].prev = prev /\ q.node[id].next = next
    <3>1. id # next /\ id # prev
      <4>1. S \subseteq Nat
        BY DEF Numbers
      <4>2. id # None
        BY <1>1, <4>1, MiniramAssumption
      <4> QED BY <1>3, <4>2
    <3> QED BY <1>1, <1>14, <3>1
  <2> QED BY <2>1, <2>2, <2>3, <2>4 DEF Rechained, offset, size, prev, next
<1>17. Chained(q, C) /\ q.free \in Nat
  <2>1. q.capacity = r.capacity /\ q.free = r.free + t[id].size
    BY <1>12, <1>14 DEF SameCounters
  <2> QED BY <1>15, <1>16, <2>1, FreedChain DEF D
<1>18. FreeOf(q, C) = (F \ D) \cup {id}
  <2>1. \A j \in E : q.node[j].used = t[j].used
    BY <1>16, Zenon DEF Rechained
  <2>2. ~ q.node[id].used
    BY <1>16, Zenon DEF Rechained
  <2> QED BY <1>1, <1>4, <2>1, <2>2 DEF FreeOf, F
<1>19. Filed(q, FreeOf(q, C), Classes(q))
  <2>1. Filed(q, (F \ D) \cup {id}, c2)
    <3>1. \A i \in (F \ D) \cup {id} : /\ q.node[i].binPrev = merged.node[i].binPrev
                                      /\ q.node[i].binNext = merged.node[i].binNext
      BY <1>1, <1>14 DEF SameButNeighbours
    <3>2. (F \ D) \cup {id} \subseteq DOMAIN q.node
      BY <1>1, <1>15
    <3> QED BY <1>11, <1>14, <3>1, <3>2, FiledFrame
  <2>2. \A i \in (F \ D) \cup {id} : Classes(q)[i] = c2[i]
    <3>1. Classes(q)[id] = c2[id]
      BY <1>1, <1>9, <1>12, <1>14, <1>15 DEF Classes, SameButNeighbours
    <3>2. ASSUME NEW i \in F \ D PROVE Classes(q)[i] = c2[i]
      <4>1. i \in E /\ i \in S
        BY <1>1, <1>4
      <4>2. q.node[i].size = t[i].size
        BY <1>16, <4>1, Zenon DEF Rechained
      <4>3. Classes(q)[i] = FloorToFloat(q.node[i].size)
        BY <1>15, <4>1 DEF Classes
      <4>4. c[i] = FloorToFloat(t[i].size)
        BY <1>1, <4>1 DEF Classes, c
      <4> QED BY <1>9, <4>2, <4>3, <4>4
    <3> QED BY <3>1, <3>2
  <2>3. Filed(q, (F \ D) \cup {id}, Classes(q))
    BY <2>1, <2>2, FiledClass
  <2> QED BY <1>18, <2>3
<1>20. Coalesced(q, C)
  <2> SUFFICES ASSUME NEW i \in C, q.node[i].next # None
               PROVE  q.node[i].used \/ q.node[q.node[i].next].used
    BY DEF Coalesced
  <2>1. \A j \in E : q.node[j].used = t[j].used
    BY <1>16, Zenon DEF Rechained
  <2>2. /\ q.node[id].next = next
        /\ \A j \in E : q.node[j].next = IF j = prev THEN id ELSE t[j].next
    BY <1>16, Zenon DEF Rechained, next, prev
  <2>3. CASE i = id
    BY <1>3, <2>1, <2>2, <2>3
  <2>4. CASE i = prev
    <3>1. i \in E /\ t[i].used
      <4>1. i # None
        <5>1. S \subseteq Nat
          BY DEF Numbers
        <5> QED BY <1>1, <5>1, MiniramAssumption
      <4> QED BY <1>3, <2>4, <4>1
    <3> QED BY <2>1, <3>1
  <2>5. CASE i # id /\ i # prev
    <3>1. i \in E /\ q.node[i].next = t[i].next /\ t[i].next # None
      BY <2>2, <2>5
    <3>2. t[i].used \/ t[t[i].next].used
      BY <1>1, <3>1 DEF Coalesced
    <3>3. CASE t[i].used
      BY <2>1, <3>1, <3>3
    <3>4. CASE t[t[i].next].used /\ ~ t[i].used
      <4> DEFINE z == t[i].next
      <4>1. z \in B /\ t[z].prev = i
        <5>1. BlockOK(r, N, B, i)
          BY BlockFacts
        <5> QED BY <3>1, <5>1, Zenon DEF BlockOK
      <4>2. z \notin D
        BY <1>3, <3>4 DEF F, FreeOf
      <4>3. z # id
        <5>1. CASE z = id
          <6>1. t[id].prev = i /\ IsFree(r, i)
            <7>1. i # None
              <8>1. S \subseteq Nat
                BY DEF Numbers
              <8> QED BY <1>1, <8>1, MiniramAssumption
            <7> QED BY <3>4, <4>1, <5>1, <7>1 DEF IsFree
          <6>2. i \in D
            BY <6>1 DEF D, Absorbed, ByPrev
          <6> QED BY <6>2
        <5> QED BY <5>1
      <4>4. z \in E
        BY <4>1, <4>2, <4>3
      <4> QED BY <2>1, <3>1, <3>4, <4>4
    <3> QED BY <3>2, <3>3, <3>4
  <2> QED BY <2>3, <2>4, <2>5
<1>21. Sound(q, N, C)
  <2>1. Stacked(q, N, C)
    <3>1. E \cup {id} = C
      BY <1>4
    <3>2. Stacked(merged, N, C)
      BY <1>11, <3>1
    <3> HIDE DEF C
    <3> QED BY <1>14, <3>2, StackedSame DEF SameCounters
  <2>2. C # {} /\ ~ q.failed /\ q.capacity = Capacity
    BY <1>1, <1>4, <1>12, <1>14 DEF SameCounters
  <2>3. OnlyBlocksUsed(q, N, C)
    <3> SUFFICES ASSUME NEW i \in S \ C PROVE ~ q.node[i].used
      BY DEF OnlyBlocksUsed
    <3>1. i \in S \ {id} /\ ~ t[i].used
      BY <1>3, <1>4 DEF Sound, OnlyBlocksUsed, F, FreeOf
    <3>2. SameButNeighbours(q.node[i], merged.node[i]) /\ SameBlock(merged.node[i], pushed.node[i])
      BY <1>11, <1>14, <3>1
    <3>3. SameBlock(pushed.node[i], t[i])
      BY <1>8, <3>1 DEF SameBlocks
    <3> QED BY <3>1, <3>2, <3>3 DEF SameBlock, SameButNeighbours
  <2> HIDE DEF C
  <2> QED BY <1>14, <1>17, <1>19, <1>20, <2>1, <2>2, <2>3 DEF Sound
<1>22. AfterFree(q, r, N, B, C, id)
  <2>1. \A j \in B \ C : ~ t[j].used
    BY <1>3 DEF F, FreeOf
  <2>2. \A j \in C \ {id} : /\ q.node[j].offset = t[j].offset /\ q.node[j].size = t[j].size
                            /\ q.node[j].used = t[j].used
    BY <1>16, Zenon DEF Rechained
  <2>3. ~ q.node[id].used /\ C \subseteq B
    BY <1>16, Zenon DEF Rechained
  <2> QED BY <1>4, <1>21, <2>1, <2>2, <2>3, Zenon DEF AfterFree
<1> QED BY <1>22 DEF q, D

-----------------------------------------------------------------------------
(* allocate(): the search and the growth of the node table.                *)

LEMMA MinIs ==
    ASSUME NEW A \in SUBSET Nat, A # {}
    PROVE  Min(A) \in A /\ \A y \in A : Min(A) <= y
<1>1. \E x \in A : \A y \in A : x <= y
  BY NatMin
<1> QED BY <1>1, Zenon DEF Min

LEMMA TopBinGrows ==
    ASSUME NEW a \in Nat, NEW b \in Nat
    PROVE  /\ TopBin(a) \in Nat /\ TopBin(b) \in Nat
           /\ a <= b => TopBin(a) <= TopBin(b)
<1> DEFINE M == MantissaValue
           ta == TopBin(a)
           tb == TopBin(b)
<1>1. M \in Nat /\ M >= 1
  BY Mantissa
<1>2. /\ ta \in Nat /\ a % M \in Nat /\ a % M < M /\ a = ta * M + (a % M)
      /\ tb \in Nat /\ b % M \in Nat /\ b % M < M /\ b = tb * M + (b % M)
  BY <1>1, DivMod DEF TopBin
<1> HIDE DEF M, ta, tb
<1>3. ASSUME a <= b, tb < ta PROVE FALSE
  <2>1. tb + 1 <= ta /\ tb + 1 \in Nat
    BY <1>2, <1>3
  <2>2. (tb + 1) * M <= ta * M
    BY <1>1, <1>2, <2>1, Times
  <2>3. (tb + 1) * M = tb * M + M /\ tb * M \in Nat /\ ta * M \in Nat
    BY <1>1, <1>2
  <2> QED BY <1>1, <1>2, <1>3, <2>2, <2>3
<1>4. a <= b => ta <= tb
  BY <1>2, <1>3
<1> QED BY <1>2, <1>4 DEF ta, tb

(* The lowest class with a free block among those whose blocks surely hold *)
(* the request.                                                            *)
Found(r, size, bin) ==
    /\ bin = None => \A b \in r.leaf : b < CeilToFloat(size)
    /\ bin # None => /\ bin \in r.leaf /\ bin >= CeilToFloat(size)
                     /\ \A b \in r.leaf : b >= CeilToFloat(size) => bin <= b

LEMMA SearchFinds ==
    ASSUME NEW N \in Nat, NEW r \in Objects(N), BitmapsOK(r), NEW size \in Nat
    PROVE  Found(r, size, SearchBin(r, size))
<1> DEFINE least == CeilToFloat(size)
           L == r.leaf
           same == {b \in L : TopBin(b) = TopBin(least) /\ b >= least}
           above == {t \in r.top : t > TopBin(least)}
           low == {b \in L : TopBin(b) = Min(above)}
           bin == SearchBin(r, size)
<1>1. /\ L \subseteq Nat /\ r.top \subseteq Nat /\ least \in Nat /\ None \notin Nat
      /\ \A t \in Nat : t \in r.top <=> \E b \in L : TopBin(b) = t
  <2>1. Bins \subseteq Nat
    BY TopBinType
  <2> QED BY <2>1, ObjectFields, ClassType, MiniramAssumption DEF BitmapsOK
<1>2. \A b \in L : /\ TopBin(b) \in r.top /\ TopBin(b) \in Nat /\ TopBin(least) \in Nat
                   /\ b >= least => TopBin(b) >= TopBin(least)
                   /\ TopBin(b) > TopBin(least) => b >= least
  <2>1. \A b \in L : TopBin(b) \in Nat /\ TopBin(least) \in Nat
    BY <1>1, TopBinGrows
  <2>2. \A b \in L : b >= least => TopBin(b) >= TopBin(least)
    BY <1>1, <2>1, TopBinGrows
  <2>3. \A b \in L : b <= least => TopBin(b) <= TopBin(least)
    BY <1>1, <2>1, TopBinGrows
  <2>4. \A b \in L : TopBin(b) > TopBin(least) => b >= least
    <3> SUFFICES ASSUME NEW b \in L, TopBin(b) > TopBin(least) PROVE b >= least
      OBVIOUS
    <3>1. b \in Nat /\ least \in Nat
      BY <1>1
    <3> QED BY <2>1, <2>3, <3>1
  <2>5. \A b \in L : TopBin(b) \in r.top
    BY <1>1, <2>1
  <2> QED BY <2>1, <2>2, <2>4, <2>5
<1>3. \A a, b \in L : TopBin(a) < TopBin(b) => a <= b
  <2> SUFFICES ASSUME NEW a \in L, NEW b \in L, TopBin(a) < TopBin(b), ~ (a <= b) PROVE FALSE
    OBVIOUS
  <2>1. a \in Nat /\ b \in Nat /\ b <= a
    BY <1>1
  <2>2. TopBin(b) <= TopBin(a) /\ TopBin(b) \in Nat /\ TopBin(a) \in Nat
    BY <2>1, TopBinGrows
  <2> QED BY <2>2
<1>4. bin = IF TopBin(least) \in r.top /\ same # {} THEN Min(same)
            ELSE IF above # {} THEN Min(low) ELSE None
  BY Zenon DEF SearchBin
<1> HIDE DEF bin, L, least
<1>5. CASE TopBin(least) \in r.top /\ same # {}
  <2>1. bin = Min(same) /\ same \in SUBSET Nat
    BY <1>1, <1>4, <1>5
  <2>2. Min(same) \in same /\ \A y \in same : Min(same) <= y
    <3> HIDE DEF same
    <3> QED BY <1>5, <2>1, MinIs
  <2>3. bin \in same /\ \A y \in same : bin <= y
    BY <2>1, <2>2
  <2>4. \A b \in L : b >= least => bin <= b
    BY <1>2, <1>3, <2>3
  <2> QED BY <1>1, <2>3, <2>4 DEF Found, least, L, bin
<1>6. CASE ~ (TopBin(least) \in r.top /\ same # {})
  <2>1. \A b \in L : b >= least => TopBin(b) \in above
    BY <1>1, <1>2, <1>6
  <2>2. CASE above # {}
    <3>1. bin = Min(low) /\ above \in SUBSET Nat
      BY <1>1, <1>4, <1>6, <2>2
    <3>2. Min(above) \in above /\ \A y \in above : Min(above) <= y
      <4> HIDE DEF above
      <4> QED BY <2>2, <3>1, MinIs
    <3>3. PICK b0 \in L : TopBin(b0) = Min(above)
      BY <1>1, <3>2
    <3>4. low \in SUBSET Nat /\ low # {}
      BY <1>1, <3>3
    <3>5. Min(low) \in low /\ \A y \in low : Min(low) <= y
      <4> HIDE DEF low
      <4> QED BY <3>4, MinIs
    <3>6. bin \in L /\ TopBin(bin) = Min(above) /\ \A y \in low : bin <= y
      BY <3>1, <3>5
    <3>7. bin >= least
      BY <1>2, <3>2, <3>6
    <3>8. \A b \in L : b >= least => bin <= b
      <4> SUFFICES ASSUME NEW b \in L, b >= least PROVE bin <= b
        OBVIOUS
      <4>1. TopBin(b) \in above /\ Min(above) <= TopBin(b)
        BY <2>1, <3>2
      <4>2. CASE TopBin(b) = Min(above)
        BY <3>6, <4>2
      <4>3. CASE TopBin(b) # Min(above)
        <5>1. TopBin(bin) < TopBin(b)
          BY <1>2, <3>6, <4>1, <4>3
        <5> QED BY <1>3, <3>6, <5>1
      <4> QED BY <4>2, <4>3
    <3> QED BY <1>1, <3>6, <3>7, <3>8 DEF Found, least, L, bin
  <2>3. CASE above = {}
    <3>1. bin = None
      BY <1>4, <1>6, <2>3
    <3>2. \A b \in L : b < least
      BY <1>1, <2>1, <2>3
    <3> QED BY <3>1, <3>2 DEF Found, least, L, bin
  <2> QED BY <2>2, <2>3
<1> QED BY <1>5, <1>6

LEMMA ReservedSound ==
    ASSUME NEW N \in Nat, NEW r, NEW B, Sound(r, N, B), NEW n \in Nat, n > N
    PROVE  /\ Sound(ReserveNodes(r, n), n, B)
           /\ \A i \in B : ReserveNodes(r, n).node[i] = r.node[i]
           /\ ReserveNodes(r, n).ptr = r.ptr
           /\ ReserveNodes(r, n).free = r.free
<1> DEFINE q == ReserveNodes(r, n)
           F == FreeOf(r, B)
<1>1. /\ r \in Objects(N) /\ ~ r.failed /\ r.capacity = Capacity /\ r.free \in Nat
      /\ B # {} /\ Stacked(r, N, B) /\ Filed(r, F, Classes(r))
      /\ Chained(r, B) /\ Coalesced(r, B) /\ B \subseteq Numbers(N)
  BY DEF Sound, Stacked
<1>2. /\ q \in Objects(n) /\ Stacked(q, n, B)
      /\ \A i \in Numbers(N) : q.node[i] = r.node[i]
      /\ \A i \in Numbers(n) \ Numbers(N) : q.node[i] = Unused
      /\ q.bin = r.bin /\ q.leaf = r.leaf /\ q.top = r.top
      /\ q.ptr = r.ptr /\ q.free = r.free
      /\ q.capacity = r.capacity /\ q.failed = r.failed
  <2>1. r \in Objects(N) /\ Stacked(r, N, B)
    BY <1>1
  <2> QED BY <2>1, ReservedNodes
<1> HIDE DEF q
<1>3. DOMAIN q.node = Numbers(n) /\ DOMAIN r.node = Numbers(N) /\ Numbers(N) \subseteq Numbers(n)
  <2>1. Numbers(N) \subseteq Numbers(n)
    BY DEF Numbers
  <2> QED BY <1>1, <1>2, <2>1, NodesIs
<1>4. \A i \in B : q.node[i] = r.node[i] /\ i \in DOMAIN q.node /\ i \in DOMAIN r.node
  BY <1>1, <1>2, <1>3
<1>5. FreeOf(q, B) = F
  BY <1>4 DEF FreeOf
<1>6. Filed(q, F, Classes(q))
  <2>1. \A i \in F : i \in B
    BY DEF FreeOf
  <2>2. Filed(q, F, Classes(r))
    <3>1. F \subseteq DOMAIN q.node
      BY <1>4, <2>1
    <3>2. \A i \in F : /\ q.node[i].binPrev = r.node[i].binPrev
                       /\ q.node[i].binNext = r.node[i].binNext
      BY <1>4, <2>1
    <3> HIDE DEF F
    <3> QED BY <1>1, <1>2, <3>1, <3>2, FiledFrame
  <2>3. \A i \in F : Classes(q)[i] = Classes(r)[i]
    BY <1>4, <2>1 DEF Classes
  <2> HIDE DEF F
  <2> QED BY <2>2, <2>3, FiledClass
<1>7. Chained(q, B)
  <2>1. PICK k, a : /\ Tiled(B, k, Offsets(r), Sizes(r), Prevs(r), Nexts(r), r.capacity)
                    /\ Tiled(B, k, a, FreeSizes(r), Prevs(r), Nexts(r), r.free)
    BY <1>1 DEF Chained
  <2>2. \A i \in B : /\ Offsets(q)[i] = Offsets(r)[i] /\ Sizes(q)[i] = Sizes(r)[i]
                     /\ Prevs(q)[i] = Prevs(r)[i] /\ Nexts(q)[i] = Nexts(r)[i]
    BY <1>4 DEF Offsets, Sizes, Prevs, Nexts
  <2>3. \A i \in B : /\ a[i] = a[i] /\ FreeSizes(q)[i] = FreeSizes(r)[i]
                     /\ Prevs(q)[i] = Prevs(r)[i] /\ Nexts(q)[i] = Nexts(r)[i]
    BY <1>4 DEF FreeSizes, Prevs, Nexts
  <2>4. Tiled(B, k, Offsets(q), Sizes(q), Prevs(q), Nexts(q), r.capacity)
    BY <2>1, <2>2, TiledFrame
  <2>5. Tiled(B, k, a, FreeSizes(q), Prevs(q), Nexts(q), r.free)
    BY <2>1, <2>3, TiledFrame
  <2> QED BY <1>2, <2>4, <2>5 DEF Chained
<1>8. Coalesced(q, B)
  <2> SUFFICES ASSUME NEW i \in B, q.node[i].next # None
               PROVE  q.node[i].used \/ q.node[q.node[i].next].used
    BY DEF Coalesced
  <2>1. q.node[i] = r.node[i]
    BY <1>4
  <2>2. BlockOK(r, N, B, i)
    BY BlockFacts
  <2>3. r.node[i].next \in B
    BY <2>1, <2>2, Zenon DEF BlockOK
  <2>4. r.node[i].used \/ r.node[r.node[i].next].used
    BY <1>1, <2>1 DEF Coalesced
  <2> QED BY <1>4, <2>1, <2>3, <2>4
<1>9. Sound(q, n, B)
  <2>1. OnlyBlocksUsed(q, n, B)
    BY <1>2, UnusedIsNode DEF Sound, OnlyBlocksUsed
  <2> QED BY <1>1, <1>2, <1>5, <1>6, <1>7, <1>8, <2>1 DEF Sound
<1> QED BY <1>2, <1>4, <1>9 DEF q

(* The head of the class that the search finds is a free block that holds  *)
(* the request.                                                            *)
LEMMA FoundBlock ==
    ASSUME NEW N \in Nat, NEW r, NEW B, Sound(r, N, B), NEW size \in Nat,
           NEW bin, bin # None, Found(r, size, bin)
    PROVE  LET id == r.bin[bin]
           IN  /\ id \in FreeOf(r, B) /\ id # None /\ r.node[id].binPrev = None
               /\ FloorToFloat(r.node[id].size) = bin /\ r.bin[FloorToFloat(r.node[id].size)] = id
               /\ size <= r.node[id].size
<1> DEFINE id == r.bin[bin]
<1>1. r \in Objects(N) /\ Filed(r, FreeOf(r, B), Classes(r))
  BY DEF Sound
<1>2. bin \in r.leaf /\ bin \in Bins /\ bin >= CeilToFloat(size)
  BY <1>1, ObjectFields DEF Found
<1>3. id # None
  BY <1>1, <1>2 DEF Filed, BitmapsOK
<1>4. id \in FreeOf(r, B) /\ Classes(r)[id] = bin /\ r.node[id].binPrev = None
  BY <1>1, <1>2, <1>3 DEF Filed, ListsOK
<1>5. id \in B /\ BlockOK(r, N, B, id)
  BY <1>4, BlockFacts DEF FreeOf
<1>6. id \in DOMAIN r.node /\ r.node[id].size \in 0 .. Capacity
  BY <1>5, Zenon DEF BlockOK
<1>7. FloorToFloat(r.node[id].size) = bin
  BY <1>4, <1>6 DEF Classes
<1>8. size <= r.node[id].size
  <2>1. r.node[id].size \in Nat
    BY <1>6, MiniramAssumption
  <2>2. CeilToFloat(size) <= FloorToFloat(r.node[id].size)
    BY <1>2, <1>7
  <2> QED BY <2>1, <2>2, ClassHolds
<1> QED BY <1>3, <1>4, <1>7, <1>8

LEMMA AllocateFromSound ==
    ASSUME NEW N \in Nat, NEW r, NEW B, Sound(r, N, B), r.ptr < N, NEW size \in Nat,
           NEW result, result = AllocateFrom(r, size)
    PROVE  \/ result = [ram |-> r, id |-> None]
           \/ /\ result.id # None
              /\ \E C : AfterAllocation(result.ram, r, N, B, C, result.id, size)
<1> DEFINE bin == SearchBin(r, size)
           id == r.bin[bin]
<1>1. Found(r, size, bin)
  <2>1. r \in Objects(N) /\ BitmapsOK(r)
    BY DEF Sound, Filed
  <2> QED BY <2>1, SearchFinds
<1>2. CASE bin = None
  BY <1>2 DEF AllocateFrom
<1>3. CASE bin # None
  <2>1. result.ram = Slice(r, size, bin) /\ result.id = id
    BY <1>3 DEF AllocateFrom
  <2> HIDE DEF bin
  <2>2. /\ id \in FreeOf(r, B) /\ id # None /\ r.node[id].binPrev = None
        /\ FloorToFloat(r.node[id].size) = bin /\ r.bin[FloorToFloat(r.node[id].size)] = id
        /\ size <= r.node[id].size
    BY <1>1, <1>3, FoundBlock
  <2> HIDE DEF id
  <2>3. CASE size = r.node[id].size
    <3>1. AfterAllocation(Slice(r, size, bin), r, N, B, B, id, size)
      BY <2>2, <2>3, SliceWhole
    <3> QED BY <2>1, <2>2, <3>1
  <2>4. CASE size # r.node[id].size
    <3>1. size < r.node[id].size
      <4>1. id \in B
        BY <2>2 DEF FreeOf
      <4>2. BlockOK(r, N, B, id)
        BY <4>1, BlockFacts
      <4>3. r.node[id].size \in 0 .. Capacity
        BY <4>2, Zenon DEF BlockOK
      <4>4. r.node[id].size \in Nat
        BY <4>3, MiniramAssumption
      <4> QED BY <2>2, <2>4, <4>4
    <3>2. AfterAllocation(Slice(r, size, bin), r, N, B, B \cup {NextFreeNode(r)}, id, size)
      BY <2>2, <3>1, SlicePart
    <3> QED BY <2>1, <2>2, <3>2
  <2> QED BY <2>3, <2>4
<1> QED BY <1>2, <1>3

(* The node table only grows once every node is in use.                    *)
GrowsTo(r, N, M) ==
    /\ M >= N
    /\ M = N \/ (RemainingAllocs(r) = 0 /\ M = 2 * (Nodes(r) - 1) + 1)

(* allocate(): either nothing changes but the size of the node table, or   *)
(* one free block is in use.                                               *)
LEMMA AllocateSound ==
    ASSUME NEW N \in Nat, N >= 2, NEW r, NEW B, Sound(r, N, B), NEW size \in Nat,
           NEW result, result = AllocateResult(r, size)
    PROVE  \E M \in Nat :
             /\ GrowsTo(r, N, M)
             /\ \/ /\ result.id = None /\ Sound(result.ram, M, B)
                   /\ \A i \in B : result.ram.node[i] = r.node[i]
                \/ /\ result.id # None
                   /\ \E C : AfterAllocation(result.ram, r, M, B, C, result.id, size)
<1>1. r \in Objects(N) /\ r.ptr \in 0 .. N /\ Nodes(r) = N /\ r.free \in Nat
  BY NodesIs, ObjectFields DEF Sound
<1>0. GrowsTo(r, N, N)
  <2>1. N >= N
    OBVIOUS
  <2> QED BY <2>1, Zenon DEF GrowsTo
<1>2. CASE size > r.free
  <2>1. result = [ram |-> r, id |-> None]
    BY <1>2 DEF AllocateResult
  <2> QED BY <1>0, <2>1
<1>3. CASE ~ (size > r.free) /\ RemainingAllocs(r) = 0
  <2> DEFINE M == 2 * (N - 1) + 1
             g == ReserveNodes(r, M)
  <2>1. M \in Nat /\ M > N /\ GrowsTo(r, N, M)
    BY <1>1, <1>3 DEF GrowsTo
  <2>2. result = AllocateFrom(g, size)
    BY <1>1, <1>3 DEF AllocateResult, GrowNodes
  <2> HIDE DEF M
  <2>3. /\ Sound(g, M, B) /\ \A i \in B : g.node[i] = r.node[i]
        /\ g.ptr = r.ptr
    BY <2>1, ReservedSound
  <2> HIDE DEF g
  <2>4. g.ptr < M
    BY <1>1, <2>1, <2>3
  <2>5. CASE result = [ram |-> g, id |-> None]
    BY <2>1, <2>3, <2>5
  <2>6. CASE /\ result.id # None
             /\ \E C : AfterAllocation(result.ram, g, M, B, C, result.id, size)
    <3>1. PICK C : AfterAllocation(result.ram, g, M, B, C, result.id, size)
      BY <2>6
    <3>2. AfterAllocation(result.ram, r, M, B, C, result.id, size)
      BY <2>3, <3>1 DEF AfterAllocation
    <3> QED BY <2>1, <2>6, <3>2
  <2> QED BY <2>1, <2>2, <2>3, <2>4, <2>5, <2>6, AllocateFromSound
<1>4. CASE ~ (size > r.free) /\ RemainingAllocs(r) # 0
  <2>1. result = AllocateFrom(r, size)
    BY <1>4 DEF AllocateResult
  <2>2. r.ptr < N
    BY <1>1, <1>4 DEF RemainingAllocs
  <2>3. \/ result = [ram |-> r, id |-> None]
        \/ /\ result.id # None
           /\ \E C : AfterAllocation(result.ram, r, N, B, C, result.id, size)
    BY <2>1, <2>2, AllocateFromSound
  <2>4. CASE result = [ram |-> r, id |-> None]
    BY <1>0, <2>4
  <2>5. CASE result.id # None /\ \E C : AfterAllocation(result.ram, r, N, B, C, result.id, size)
    BY <1>0, <2>5
  <2> QED BY <2>3, <2>4, <2>5
<1> QED BY <1>2, <1>3, <1>4

-----------------------------------------------------------------------------
(* The behaviour.                                                          *)

(* clear() of the constructor: one free block, the whole storage.          *)
LEMMA InitSound ==
    ASSUME Init
    PROVE  \E id \in Numbers(AllocCapacity + 1) :
             Sound(ram, AllocCapacity + 1, {id}) /\ ~ ram.node[id].used
<1> DEFINE n == AllocCapacity + 1
           e == [ResetBins(NoNodes) EXCEPT !.ptr = 0]
           g == ReserveNodes(e, n)
           id == NextFreeNode(g)
           c == [i \in Numbers(n) |-> FloorToFloat(Capacity)]
           B == {id}
<1>1. n \in Nat /\ n > 0 /\ Capacity \in Nat /\ 0 \in Nat /\ Capacity \in 0 .. Capacity
  BY MiniramAssumption
<1>2. e = [node |-> [i \in {} |-> Unused], freeNodes |-> [i \in {} |-> 0], ptr |-> 0,
           bin |-> [b \in Bins |-> None], leaf |-> {}, top |-> {}, free |-> 0,
           capacity |-> Capacity, failed |-> FALSE]
  <2> DEFINE tn == [i \in {} |-> Unused]
             tf == [i \in {} |-> 0]
             tb == [b \in Bins |-> None]
  <2>1. NoNodes = [node |-> tn, freeNodes |-> tf, ptr |-> 0, bin |-> tb, leaf |-> {}, top |-> {},
                   free |-> 0, capacity |-> Capacity, failed |-> FALSE]
    BY Zenon DEF NoNodes
  <2>2. e = [[NoNodes EXCEPT !.free = 0, !.top = {}, !.leaf = {}, !.bin = tb] EXCEPT !.ptr = 0]
    BY Zenon DEF ResetBins
  <2> HIDE DEF tn, tf, tb, e
  <2> QED BY <2>1, <2>2 DEF tn, tf, tb
<1> HIDE DEF e
<1>3. e \in Objects(0) /\ Stacked(e, 0, {})
  <2>1. Numbers(0) = {} /\ 0 .. 0 - 1 = {}
    BY DEF Numbers
  <2>2. e.node \in Tables(0)
    <3>1. e.node \in [{} -> NodeRecord]
      BY <1>2
    <3> QED BY <2>1, <3>1 DEF Tables
  <2>3. e.freeNodes \in [Numbers(0) -> Numbers(0)]
    BY <1>2, <2>1
  <2>4. e.bin \in [Bins -> Numbers(0) \cup {None}]
    BY <1>2
  <2>5. e.ptr \in 0 .. 0
    BY <1>2
  <2>6. e.leaf \in SUBSET Bins /\ e.top \in SUBSET Nat
    BY <1>2
  <2>7. e.free \in Int /\ e.capacity \in Nat
    BY <1>1, <1>2
  <2>8. e.failed \in BOOLEAN
    BY <1>2
  <2>9. e = [node |-> e.node, freeNodes |-> e.freeNodes, ptr |-> e.ptr, bin |-> e.bin,
             leaf |-> e.leaf, top |-> e.top, free |-> e.free,
             capacity |-> e.capacity, failed |-> e.failed]
    BY <1>2
  <2>10. e \in Objects(0)
    <3> DEFINE tn == Tables(0)
               tf == [Numbers(0) -> Numbers(0)]
               tp == 0 .. 0
               tb == [Bins -> Numbers(0) \cup {None}]
    <3>1. Objects(0) = [node : tn, freeNodes : tf, ptr : tp, bin : tb, leaf : SUBSET Bins,
                        top : SUBSET Nat, free : Int, capacity : Nat, failed : BOOLEAN]
      BY Zenon DEF Objects
    <3> HIDE DEF tn, tf, tp, tb
    <3> QED BY <2>2, <2>3, <2>4, <2>5, <2>6, <2>7, <2>8, <2>9, <3>1 DEF tn, tf, tp, tb
  <2>11. Stacked(e, 0, {})
    <3>1. e.ptr = 0
      BY <1>2
    <3> QED BY <2>1, <3>1 DEF Stacked
  <2> QED BY <2>10, <2>11
<1>4. /\ g \in Objects(n) /\ Stacked(g, n, {})
      /\ \A i \in Numbers(n) \ Numbers(0) : g.node[i] = Unused
      /\ g.bin = e.bin /\ g.leaf = e.leaf /\ g.top = e.top
      /\ g.ptr = e.ptr /\ g.free = e.free
      /\ g.capacity = e.capacity /\ g.failed = e.failed
  BY <1>1, <1>3, ReservedNodes
<1>5. ram = InsertNode(g, Capacity, 0)
  <2>1. ram = ClearResult(NoNodes, n)
    BY DEF Init
  <2>2. ClearResult(NoNodes, n) = InsertNode(g, NoNodes.capacity, 0)
    BY Zenon DEF ClearResult, e
  <2>3. NoNodes.capacity = Capacity
    BY DEF NoNodes
  <2> QED BY <2>1, <2>2, <2>3
<1> HIDE DEF g, n
<1>6. id \in Numbers(n)
  <2>1. 0 \in Numbers(n) /\ g.freeNodes \in [Numbers(n) -> Numbers(n)]
    BY <1>1, <1>4, ObjectFields DEF Numbers
  <2> QED BY <1>2, <1>4, <2>1 DEF NextFreeNode
<1>7. Filed(g, {}, c)
  <2>1. \A b \in Bins : g.bin[b] = None
    BY <1>2, <1>4
  <2>2. ListsOK(g, {}, c)
    BY <2>1 DEF ListsOK
  <2>3. BitmapsOK(g)
    BY <1>2, <1>4, <2>1 DEF BitmapsOK
  <2>4. Reaches(g, {}, c, c)
    BY DEF Reaches
  <2> QED BY <2>2, <2>3, <2>4 DEF Filed
<1>8. FloorToFloat(Capacity) \in Bins
  BY <1>1, ClassInBins
<1>9. AfterInsert(ram, g, n, {}, {}, c, Capacity, 0, id)
  <2>1. c[id] = FloorToFloat(Capacity)
    BY <1>6
  <2>2. g.ptr < n
    BY <1>1, <1>2, <1>4
  <2> HIDE DEF c, id
  <2>3. AfterInsert(InsertNode(g, Capacity, 0), g, n, {}, {}, c, Capacity, 0, NextFreeNode(g))
    BY <1>1, <1>4, <1>7, <1>8, <2>1, <2>2, InsertedNode DEF id
  <2> QED BY <1>5, <2>3 DEF id
<1> HIDE DEF id
<1>10. /\ ram \in Objects(n)
       /\ \A i \in Numbers(n) \ {id} : SameBlock(ram.node[i], g.node[i])
       /\ SameBlock(ram.node[id], [Unused EXCEPT !.offset = 0, !.size = Capacity])
       /\ Filed(ram, {} \cup {id}, c) /\ Stacked(ram, n, {} \cup {id})
       /\ ram.free = g.free + Capacity
       /\ ram.capacity = g.capacity /\ ram.failed = g.failed
  BY <1>9, Zenon DEF AfterInsert
<1>11. /\ ram.node[id].offset = 0 /\ ram.node[id].size = Capacity /\ ram.node[id].used = FALSE
       /\ ram.node[id].prev = None /\ ram.node[id].next = None
       /\ ram.free = Capacity /\ ram.capacity = Capacity /\ ram.failed = FALSE
  BY <1>1, <1>2, <1>4, <1>10 DEF SameBlock, Unused
<1>12. DOMAIN ram.node = Numbers(n)
  BY <1>1, <1>10, NodesIs
<1>13. FreeOf(ram, B) = {} \cup {id}
  BY <1>11 DEF FreeOf
<1>14. Filed(ram, FreeOf(ram, B), Classes(ram))
  <2>1. \A i \in {} \cup {id} : Classes(ram)[i] = c[i]
    BY <1>6, <1>11, <1>12 DEF Classes
  <2> HIDE DEF c
  <2> QED BY <1>10, <1>13, <2>1, FiledClass
<1>15. Chained(ram, B)
  <2> DEFINE k == [i \in B |-> 0]
  <2>1. /\ Offsets(ram)[id] = 0 /\ Sizes(ram)[id] = Capacity /\ FreeSizes(ram)[id] = Capacity
        /\ Prevs(ram)[id] = None /\ Nexts(ram)[id] = None
    BY <1>6, <1>11, <1>12 DEF Offsets, Sizes, FreeSizes, Prevs, Nexts
  <2>2. k[id] = 0
    OBVIOUS
  <2> HIDE DEF k
  <2>3. Tiled(B, k, Offsets(ram), Sizes(ram), Prevs(ram), Nexts(ram), Capacity)
    BY <1>1, <2>1, <2>2 DEF Tiled, Placed, Linked, Gapless
  <2>4. Tiled(B, k, k, FreeSizes(ram), Prevs(ram), Nexts(ram), Capacity)
    BY <1>1, <2>1, <2>2 DEF Tiled, Placed, Linked, Gapless
  <2> QED BY <1>11, <2>3, <2>4 DEF Chained
<1>16. Coalesced(ram, B)
  BY <1>11 DEF Coalesced
<1>17. {} \cup {id} = B
  OBVIOUS
<1>18. Sound(ram, n, B)
  <2>1. Stacked(ram, n, B) /\ B # {}
    BY <1>10, <1>17
  <2>2. OnlyBlocksUsed(ram, n, B)
    <3>1. Numbers(0) = {}
      BY DEF Numbers
    <3> QED BY <1>4, <1>10, <3>1, UnusedIsNode DEF OnlyBlocksUsed, SameBlock
  <2> QED BY <1>1, <1>10, <1>11, <1>14, <1>15, <1>16, <2>1, <2>2 DEF Sound
<1> QED BY <1>6, <1>11, <1>18 DEF n

(* The allocations that clients hold are the blocks in use.                *)
Entries == [id : Nat, offset : Nat, size : Requests]

Held(r, l, B) ==
    /\ l \subseteq Entries
    /\ \A e \in l : /\ e.id \in B /\ r.node[e.id].used
                    /\ r.node[e.id].offset = e.offset /\ r.node[e.id].size = e.size
    /\ \A i \in B : r.node[i].used => \E e \in l : e.id = i

IInv == \E N, B : /\ N \in Nat /\ N >= 2 /\ N <= MaxNodes
                  /\ Sound(ram, N, B) /\ Held(ram, live, B)

LEMMA IdsDiffer ==
    ASSUME NEW r, NEW l, NEW B, Held(r, l, B), NEW e \in l, NEW f \in l, e.id = f.id
    PROVE  e = f
BY DEF Held, Entries

LEMMA AllocationHeld ==
    ASSUME NEW N, NEW r, NEW l, NEW B, Held(r, l, B), NEW q, NEW C, NEW id \in Nat, NEW size \in Requests,
           AfterAllocation(q, r, N, B, C, id, size), q.node[id].offset \in Nat
    PROVE  Held(q, l \cup {[id |-> id, offset |-> q.node[id].offset, size |-> size]}, C)
<1> DEFINE new == [id |-> id, offset |-> q.node[id].offset, size |-> size]
<1>1. /\ B \subseteq C /\ id \in B /\ ~ r.node[id].used
      /\ \A i \in B : q.node[i].offset = r.node[i].offset
      /\ \A i \in B \ {id} : q.node[i].size = r.node[i].size /\ q.node[i].used = r.node[i].used
      /\ q.node[id].size = size /\ q.node[id].used
      /\ \A i \in C \ B : ~ q.node[i].used
  BY DEF AfterAllocation
<1>2. l \subseteq Entries /\ new \in Entries
  BY DEF Held, Entries
<1>3. \A e \in l : /\ e.id \in C /\ q.node[e.id].used
                   /\ q.node[e.id].offset = e.offset /\ q.node[e.id].size = e.size
  BY <1>1 DEF Held
<1>4. /\ new.id \in C /\ q.node[new.id].used
      /\ q.node[new.id].offset = new.offset /\ q.node[new.id].size = new.size
  <2>1. new.id = id /\ new.offset = q.node[id].offset /\ new.size = size
    OBVIOUS
  <2>2. /\ id \in C /\ q.node[id].used
        /\ q.node[id].offset = new.offset /\ q.node[id].size = size
    BY <1>1, <2>1
  <2> HIDE DEF new
  <2> QED BY <2>1, <2>2
<1>5. ASSUME NEW i \in C, q.node[i].used PROVE \E e \in l \cup {new} : e.id = i
  <2>1. CASE i = id
    <3>1. new.id = i /\ new \in l \cup {new}
      BY <2>1
    <3> QED BY <3>1, Zenon
  <2>2. CASE i # id
    BY <1>1, <1>5, <2>2 DEF Held
  <2> QED BY <2>1, <2>2
<1> HIDE DEF new
<1> QED BY <1>2, <1>3, <1>4, <1>5 DEF Held, new

LEMMA InvAllocate ==
    ASSUME IInv, NEW size \in Requests, Allocate(size)
    PROVE  IInv'
<1>1. PICK N, B : /\ N \in Nat /\ N >= 2 /\ N <= MaxNodes
                   /\ Sound(ram, N, B) /\ Held(ram, live, B)
  BY DEF IInv
<1> DEFINE result == AllocateResult(ram, size)
           block == [id |-> result.id, offset |-> result.ram.node[result.id].offset,
                     size |-> size]
<1>2. ram' = result.ram /\ live' = IF result.id = None THEN live ELSE live \cup {block}
  BY DEF Allocate
<1>3. size \in Nat
  BY MiniramAssumption
<1> HIDE DEF result
<1>4. PICK M \in Nat :
        /\ GrowsTo(ram, N, M)
        /\ \/ /\ result.id = None /\ Sound(result.ram, M, B)
              /\ \A i \in B : result.ram.node[i] = ram.node[i]
           \/ /\ result.id # None
              /\ \E C : AfterAllocation(result.ram, ram, M, B, C, result.id, size)
  BY <1>1, <1>3, AllocateSound DEF result
<1>5. CASE /\ result.id = None /\ Sound(result.ram, M, B)
           /\ \A i \in B : result.ram.node[i] = ram.node[i]
  <2>1. Held(ram', live', B)
    BY <1>1, <1>2, <1>5 DEF Held
  <2>2. M >= 2 /\ M <= MaxNodes
    BY <1>1, <1>4 DEF Allocate, WithinBound, GrowsTo
  <2> QED BY <1>2, <1>5, <2>1, <2>2 DEF IInv
<1>6. CASE /\ result.id # None
           /\ \E C : AfterAllocation(result.ram, ram, M, B, C, result.id, size)
  <2>1. PICK C : AfterAllocation(result.ram, ram, M, B, C, result.id, size)
    BY <1>6
  <2>2. Sound(result.ram, M, C) /\ B \subseteq C /\ result.id \in B
    BY <2>1, Zenon DEF AfterAllocation
  <2>3. BlockOK(result.ram, M, C, result.id)
    BY <2>2, BlockFacts
  <2>4. result.id \in Nat /\ result.ram.node[result.id].offset \in Nat
    <3>1. result.id \in Numbers(M) /\ result.ram.node[result.id] \in NodeRecord
      BY <2>3, Zenon DEF BlockOK
    <3> QED BY <3>1, NodeFields DEF Numbers
  <2>5. Held(result.ram, live \cup {block}, C)
    BY <1>1, <1>3, <2>1, <2>4, AllocationHeld
  <2>6. M >= 2 /\ M <= MaxNodes
    BY <1>1, <1>4 DEF Allocate, WithinBound, GrowsTo
  <2> QED BY <1>2, <1>6, <2>2, <2>5, <2>6 DEF IInv
<1> QED BY <1>4, <1>5, <1>6

LEMMA InvFree ==
    ASSUME IInv, NEW block \in live, Free(block)
    PROVE  IInv'
<1>1. PICK N, B : /\ N \in Nat /\ N >= 2 /\ N <= MaxNodes
                   /\ Sound(ram, N, B) /\ Held(ram, live, B)
  BY DEF IInv
<1> DEFINE id == block.id
           C == B \ Absorbed(ram, id)
<1>2. ram' = FreeResult(ram, id) /\ live' = live \ {block}
  BY DEF Free
<1>3. id \in B /\ ram.node[id].used
  BY <1>1 DEF Held
<1>4. AfterFree(ram', ram, N, B, C, id)
  <2> HIDE DEF id
  <2> QED BY <1>1, <1>2, <1>3, FreeSound
<1> HIDE DEF C
<1>5. /\ Sound(ram', N, C) /\ C \subseteq B /\ id \in C /\ ~ ram'.node[id].used
      /\ \A j \in C \ {id} : /\ ram'.node[j].offset = ram.node[j].offset
                             /\ ram'.node[j].size = ram.node[j].size
                             /\ ram'.node[j].used = ram.node[j].used
      /\ \A j \in B \ C : ~ ram.node[j].used
  BY <1>4, Zenon DEF AfterFree
<1>6. \A e \in live' : e \in live /\ e.id # id
  BY <1>1, <1>2, IdsDiffer
<1>7. \A e \in live' : /\ e.id \in C /\ ram'.node[e.id].used
                       /\ ram'.node[e.id].offset = e.offset /\ ram'.node[e.id].size = e.size
  BY <1>1, <1>5, <1>6 DEF Held
<1>8. ASSUME NEW i \in C, ram'.node[i].used PROVE \E e \in live' : e.id = i
  <2>1. i # id /\ i \in B /\ ram.node[i].used
    BY <1>5, <1>8
  <2>2. PICK e \in live : e.id = i
    BY <1>1, <2>1 DEF Held
  <2> QED BY <1>2, <2>1, <2>2
<1>9. Held(ram', live', C)
  BY <1>1, <1>2, <1>7, <1>8 DEF Held
<1> QED BY <1>1, <1>5, <1>9 DEF IInv

LEMMA InvReserve ==
    ASSUME IInv, NEW n \in 1 .. MaxNodes - 1, Reserve(n)
    PROVE  IInv'
<1>1. PICK N, B : /\ N \in Nat /\ N >= 2 /\ N <= MaxNodes
                   /\ Sound(ram, N, B) /\ Held(ram, live, B)
  BY DEF IInv
<1>2. ram' = ReserveNodes(ram, n + 1) /\ live' = live /\ n + 1 \in Nat /\ n + 1 <= MaxNodes
  BY MiniramAssumption DEF Reserve
<1>3. Nodes(ram) = N
  BY <1>1, NodesIs DEF Sound
<1>4. CASE n + 1 <= N
  <2>1. ram' = ram
    BY <1>2, <1>3, <1>4 DEF ReserveNodes
  <2> QED BY <1>1, <1>2, <2>1 DEF IInv
<1>5. CASE n + 1 > N
  <2>1. Sound(ram', n + 1, B) /\ \A i \in B : ram'.node[i] = ram.node[i]
    BY <1>1, <1>2, <1>5, ReservedSound
  <2>2. Held(ram', live', B)
    BY <1>1, <1>2, <2>1 DEF Held
  <2> QED BY <1>1, <1>2, <1>5, <2>1, <2>2 DEF IInv
<1> QED BY <1>1, <1>2, <1>4, <1>5

LEMMA InvInit == Init => IInv
<1> SUFFICES ASSUME Init PROVE IInv
  OBVIOUS
<1>1. PICK id \in Numbers(AllocCapacity + 1) :
        Sound(ram, AllocCapacity + 1, {id}) /\ ~ ram.node[id].used
  BY InitSound
<1>2. live = {}
  BY DEF Init
<1>3. Held(ram, live, {id})
  BY <1>1, <1>2 DEF Held
<1>4. AllocCapacity + 1 \in Nat /\ AllocCapacity + 1 >= 2 /\ AllocCapacity + 1 <= MaxNodes
  BY MiniramAssumption
<1> QED BY <1>1, <1>3, <1>4 DEF IInv

LEMMA InvNext == IInv /\ [Next]_vars => IInv'
<1> SUFFICES ASSUME IInv, [Next]_vars PROVE IInv'
  OBVIOUS
<1>1. CASE UNCHANGED vars
  BY <1>1 DEF vars, IInv
<1>2. ASSUME NEW size \in Requests, Allocate(size) PROVE IInv'
  BY <1>2, InvAllocate
<1>3. ASSUME NEW block \in live, Free(block) PROVE IInv'
  BY <1>3, InvFree
<1>4. ASSUME NEW n \in 1 .. MaxNodes - 1, Reserve(n) PROVE IInv'
  BY <1>4, InvReserve
<1> QED BY <1>1, <1>2, <1>3, <1>4 DEF Next

(* miniram.inl: what every call of the class keeps.                        *)
THEOREM MiniramInvariant == Spec => []IInv
BY InvInit, InvNext, PTL DEF Spec

(* The CTH_CRITICAL checks of pushFreeNode(), insertNode(), free() and of  *)
(* the merging of neighbours never fire, however large the storage, the    *)
(* requests and the node table.                                            *)
THEOREM NeverCritical == Spec => []NoCriticalFails
<1>1. IInv => NoCriticalFails
  BY DEF IInv, Sound, NoCriticalFails
<1> QED BY <1>1, MiniramInvariant, PTL

LEMMA InvIntact == ASSUME IInv PROVE LiveIntact
<1>1. PICK N, B : /\ N \in Nat /\ N >= 2 /\ N <= MaxNodes
                   /\ Sound(ram, N, B) /\ Held(ram, live, B)
  BY DEF IInv
<1>2. PICK k : Tiled(B, k, Offsets(ram), Sizes(ram), Prevs(ram), Nexts(ram), ram.capacity)
  BY <1>1 DEF Sound, Chained
<1>3. \A i \in B : /\ Offsets(ram)[i] = ram.node[i].offset
                   /\ Sizes(ram)[i] = ram.node[i].size
  <2>1. B \subseteq DOMAIN ram.node
    BY <1>1, NodesIs DEF Sound, Stacked
  <2> QED BY <2>1 DEF Offsets, Sizes
<1>4. \A i, j \in B : i # j =>
        \/ ram.node[i].offset + ram.node[i].size <= ram.node[j].offset
        \/ ram.node[j].offset + ram.node[j].size <= ram.node[i].offset
  <2>1. /\ \A i \in B : k[i] \in Nat
        /\ \A i, j \in B : k[i] = k[j] => i = j
        /\ \A i, j \in B : k[i] < k[j] => Offsets(ram)[i] + Sizes(ram)[i] <= Offsets(ram)[j]
    BY <1>2 DEF Tiled, Placed
  <2> QED BY <1>3, <2>1
<1>5. \A e \in live : /\ e.id \in B /\ ram.node[e.id].used
                      /\ ram.node[e.id].offset = e.offset /\ ram.node[e.id].size = e.size
  BY <1>1 DEF Held
<1>6. \A e, f \in live : e # f => e.id # f.id
  BY <1>1, IdsDiffer
<1> QED BY <1>4, <1>5, <1>6 DEF LiveIntact

(* A live allocation keeps its node, offset and size through every         *)
(* allocation, free(), merge and growth, and no two share an id or an      *)
(* element.                                                                *)
THEOREM LiveStaysIntact == Spec => []LiveIntact
BY InvIntact, MiniramInvariant, PTL

(* The classes of every block that ever exists are those of the reference  *)
(* definitions.                                                            *)
THEOREM ClassesStayExact == Spec => []ClassesExact
<1>1. ASSUME IInv PROVE ClassesExact
  <2>1. PICK N \in Nat : ram \in Objects(N)
    BY <1>1 DEF IInv, Sound
  <2>2. \A i \in DOMAIN ram.node : ram.node[i] \in NodeRecord
    BY <2>1, ObjectFields DEF Tables
  <2>3. \A i \in DOMAIN ram.node : ram.node[i].size \in Nat
    BY <2>2, NodeFields
  <2>4. Blocks \subseteq DOMAIN ram.node
    BY DEF Blocks, Ids
  <2> QED BY <2>3, <2>4, ClassesCorrect DEF ClassesExact
<1> QED BY <1>1, MiniramInvariant, PTL

-----------------------------------------------------------------------------
(* Sums.  SumOf adds up in the order in which CHOOSE takes the elements;   *)
(* SumsTo(g, S, w) says that g gives the sum of w for every subset of S,   *)
(* in whatever order it is added up.                                       *)

SumsTo(g, S, w) ==
    /\ g \in [SUBSET S -> Nat] /\ g[{}] = 0
    /\ \A T \in SUBSET S : \A y \in T : g[T] = g[T \ {y}] + w[y]

(* A smallest set of a set of finite sets.                                 *)
LEMMA LeastSubset ==
    ASSUME NEW S, IsFiniteSet(S), NEW X \in SUBSET (SUBSET S), X # {}
    PROVE  \E T \in X : \A y \in T : T \ {y} \notin X
<1> DEFINE A == {Cardinality(T) : T \in X}
<1>1. \A T \in X : IsFiniteSet(T) /\ Cardinality(T) \in Nat
  <2> SUFFICES ASSUME NEW T \in X PROVE IsFiniteSet(T) /\ Cardinality(T) \in Nat
    OBVIOUS
  <2>1. IsFiniteSet(T)
    BY FS_Subset
  <2> QED BY <2>1, FS_CardinalityType
<1>2. A \in SUBSET Nat /\ A # {}
  BY <1>1
<1>3. PICK c \in A : \A d \in A : c <= d
  <2> HIDE DEF A
  <2> QED BY <1>2, NatMin
<1>4. PICK T \in X : Cardinality(T) = c
  OBVIOUS
<1>5. ASSUME NEW y \in T, T \ {y} \in X PROVE FALSE
  <2>1. Cardinality(T \ {y}) = Cardinality(T) - 1
    BY <1>1, FS_RemoveElement
  <2>2. Cardinality(T \ {y}) \in A
    BY <1>5
  <2>3. c <= Cardinality(T) - 1
    BY <1>3, <2>1, <2>2
  <2>4. Cardinality(T) = c /\ Cardinality(T) \in Nat
    BY <1>1, <1>4
  <2> HIDE DEF A
  <2> QED BY <2>3, <2>4
<1> QED BY <1>5

(* The sum of w over T is how many pairs of an element x of T and a number *)
(* from 1 to w[x] there are.                                               *)
LEMMA SumExists ==
    ASSUME NEW S, IsFiniteSet(S), NEW w, \A x \in S : w[x] \in Nat
    PROVE  \E g : SumsTo(g, S, w)
<1> DEFINE Parts(x) == {x} \X (1 .. w[x])
           U(T) == UNION {Parts(x) : x \in T}
           g == [T \in SUBSET S |-> Cardinality(U(T))]
<1>1. \A x \in S : IsFiniteSet(Parts(x)) /\ Cardinality(Parts(x)) = w[x]
  <2> SUFFICES ASSUME NEW x \in S PROVE IsFiniteSet(Parts(x)) /\ Cardinality(Parts(x)) = w[x]
    OBVIOUS
  <2>1. w[x] \in Nat
    OBVIOUS
  <2>2. IsFiniteSet({x}) /\ Cardinality({x}) = 1
    BY FS_Singleton
  <2>3. IsFiniteSet(1 .. w[x]) /\ Cardinality(1 .. w[x]) = w[x]
    <3> SUFFICES ASSUME NEW m \in Nat PROVE IsFiniteSet(1 .. m) /\ Cardinality(1 .. m) = m
      BY <2>1
    <3>1. 1 \in Int /\ m \in Int
      OBVIOUS
    <3>2. IsFiniteSet(1 .. m) /\ Cardinality(1 .. m) = IF 1 > m THEN 0 ELSE m - 1 + 1
      BY <3>1, FS_Interval
    <3> QED BY <3>2
  <2>4. IsFiniteSet(Parts(x)) /\ Cardinality(Parts(x)) = Cardinality({x}) * Cardinality(1 .. w[x])
    BY <2>2, <2>3, FS_Product
  <2> QED BY <2>1, <2>2, <2>3, <2>4
<1>2. \A T \in SUBSET S : IsFiniteSet(U(T))
  <2> SUFFICES ASSUME NEW T \in SUBSET S PROVE IsFiniteSet(U(T))
    OBVIOUS
  <2> DEFINE P == {Parts(x) : x \in T}
             f == [x \in T |-> Parts(x)]
  <2>1. IsFiniteSet(T)
    BY FS_Subset
  <2>2. f \in Surjection(T, P)
    <3>1. f \in [T -> P]
      OBVIOUS
    <3>2. \A y \in P : \E x \in T : f[x] = y
      OBVIOUS
    <3> HIDE DEF f, P
    <3> QED BY <3>1, <3>2 DEF Surjection
  <2>3. IsFiniteSet(P)
    <3> HIDE DEF f, P
    <3> QED BY <2>1, <2>2, FS_Surjection
  <2>4. \A X \in P : IsFiniteSet(X)
    <3> HIDE DEF Parts
    <3> QED BY <1>1
  <2> HIDE DEF P
  <2>5. IsFiniteSet(UNION P)
    BY <2>3, <2>4, FS_UNION
  <2> QED BY <2>5 DEF P
<1>3. g[{}] = 0
  <2>1. U({}) = {}
    OBVIOUS
  <2>2. {} \in SUBSET S
    OBVIOUS
  <2> HIDE DEF U
  <2> QED BY <2>1, <2>2, FS_EmptySet
<1>4. ASSUME NEW T \in SUBSET S, NEW y \in T
      PROVE  g[T] = g[T \ {y}] + w[y]
  <2> DEFINE R == T \ {y}
  <2>1. U(T) = U(R) \cup Parts(y)
    <3>1. \A z : z \in U(T) <=> \E x \in T : z \in Parts(x)
      <4> HIDE DEF Parts
      <4> QED OBVIOUS
    <3>2. \A z : z \in U(R) <=> \E x \in R : z \in Parts(x)
      <4> HIDE DEF Parts
      <4> QED OBVIOUS
    <3>3. \A z : z \in U(T) <=> z \in U(R) \/ z \in Parts(y)
      <4> HIDE DEF U, Parts
      <4> QED BY <3>1, <3>2
    <3> HIDE DEF U, Parts
    <3> QED BY <3>3
  <2>2. U(R) \cap Parts(y) = {}
    OBVIOUS
  <2>3. R \in SUBSET S /\ IsFiniteSet(U(R)) /\ IsFiniteSet(U(T))
    <3> HIDE DEF U
    <3> QED BY <1>2
  <2>4. IsFiniteSet(Parts(y)) /\ Cardinality(Parts(y)) = w[y]
    <3> HIDE DEF Parts
    <3> QED BY <1>1
  <2>5. Cardinality(U(T)) = Cardinality(U(R)) + w[y]
    <3> HIDE DEF U, Parts, R
    <3>1. /\ Cardinality(U(R) \cup Parts(y)) =
               Cardinality(U(R)) + Cardinality(Parts(y)) - Cardinality(U(R) \cap Parts(y))
      BY <2>3, <2>4, FS_Union
    <3>2. Cardinality(U(R) \cap Parts(y)) = 0
      BY <2>2, FS_EmptySet
    <3>3. Cardinality(U(R)) \in Nat /\ w[y] \in Nat
      BY <2>3, FS_CardinalityType
    <3> QED BY <2>1, <2>4, <3>1, <3>2, <3>3
  <2> HIDE DEF U
  <2> QED BY <2>3, <2>5
<1>5. g \in [SUBSET S -> Nat]
  <2> HIDE DEF U
  <2>1. \A T \in SUBSET S : Cardinality(U(T)) \in Nat
    BY <1>2, FS_CardinalityType
  <2> QED BY <2>1
<1> HIDE DEF g
<1>6. SumsTo(g, S, w)
  BY <1>3, <1>4, <1>5 DEF SumsTo
<1> QED BY <1>6

(* SumOf, with the folds of the community modules expanded.                *)
FoldStep(h, S, w) ==
    h = [s \in SUBSET S |-> IF s = {} THEN 0
                            ELSE h[s \ {CHOOSE x \in s : TRUE}] + w[CHOOSE x \in s : TRUE]]

LEMMA FoldIsSum ==
    ASSUME NEW S, IsFiniteSet(S), NEW w, NEW g, SumsTo(g, S, w)
    PROVE  FoldStep(g, S, w) /\ \A h : FoldStep(h, S, w) => h[S] = g[S]
<1> DEFINE Any(s) == CHOOSE x \in s : TRUE
<1>1. \A s : s # {} => Any(s) \in s
  OBVIOUS
<1>2. /\ g \in [SUBSET S -> Nat] /\ g[{}] = 0
      /\ \A T \in SUBSET S : \A y \in T : g[T] = g[T \ {y}] + w[y]
  BY DEF SumsTo
<1>3. FoldStep(g, S, w)
  <2>1. \A s \in SUBSET S : g[s] = IF s = {} THEN 0 ELSE g[s \ {Any(s)}] + w[Any(s)]
    <3> HIDE DEF Any
    <3> QED BY <1>1, <1>2
  <2>2. g = [s \in SUBSET S |-> IF s = {} THEN 0 ELSE g[s \ {Any(s)}] + w[Any(s)]]
    <3> HIDE DEF Any
    <3> QED BY <1>2, <2>1
  <2> QED BY <2>2, Zenon DEF FoldStep
<1>4. ASSUME NEW h, FoldStep(h, S, w) PROVE h[S] = g[S]
  <2>1. \A s \in SUBSET S : h[s] = IF s = {} THEN 0 ELSE h[s \ {Any(s)}] + w[Any(s)]
    <3>1. h = [s \in SUBSET S |-> IF s = {} THEN 0 ELSE h[s \ {Any(s)}] + w[Any(s)]]
      BY <1>4, Zenon DEF FoldStep
    <3> HIDE DEF Any
    <3> QED BY <3>1
  <2> DEFINE X == {s \in SUBSET S : h[s] # g[s]}
  <2>2. X = {}
    <3>1. SUFFICES ASSUME X # {} PROVE FALSE
      OBVIOUS
    <3>2. PICK T \in X : \A y \in T : T \ {y} \notin X
      <4>1. X \in SUBSET (SUBSET S)
        OBVIOUS
      <4> HIDE DEF X
      <4> QED BY <3>1, <4>1, LeastSubset
    <3>3. T \in SUBSET S /\ h[T] # g[T]
      OBVIOUS
    <3> HIDE DEF Any
    <3>4. T # {}
      BY <1>2, <2>1, <3>3
    <3>5. Any(T) \in T /\ T \ {Any(T)} \in SUBSET S
      BY <1>1, <3>3, <3>4
    <3>6. h[T \ {Any(T)}] = g[T \ {Any(T)}]
      BY <3>2, <3>5
    <3>7. g[T] = g[T \ {Any(T)}] + w[Any(T)]
      BY <1>2, <3>3, <3>5
    <3>8. h[T] = h[T \ {Any(T)}] + w[Any(T)]
      BY <2>1, <3>3, <3>4
    <3> QED BY <3>3, <3>6, <3>7, <3>8
  <2> QED BY <2>2
<1> QED BY <1>3, <1>4

(* The sums of the invariants: of sizes of nodes, of sizes of entries.     *)
LEMMA SumOfSizes ==
    ASSUME NEW S, IsFiniteSet(S), NEW w, NEW g, SumsTo(g, S, w),
           \A x \in S : w[x] = ram.node[x].size
    PROVE  SumOf(S, LAMBDA i : ram.node[i].size) = g[S]
<1> DEFINE P(h) == h = [s \in SUBSET S |-> IF s = {} THEN 0
                                           ELSE h[s \ {CHOOSE x \in s : TRUE}]
                                                + ram.node[CHOOSE x \in s : TRUE].size]
           c == CHOOSE h : P(h)
<1>1. SumOf(S, LAMBDA i : ram.node[i].size) = c[S]
  BY Zenon DEF SumOf, FoldSet, MapThenFoldSet
<1>2. \A h : P(h) <=> FoldStep(h, S, w)
  <2> DEFINE Any(s) == CHOOSE x \in s : TRUE
  <2>1. \A s \in SUBSET S : s # {} => Any(s) \in S
    OBVIOUS
  <2> SUFFICES ASSUME NEW h PROVE P(h) <=> FoldStep(h, S, w)
    OBVIOUS
  <2>2. [s \in SUBSET S |-> IF s = {} THEN 0 ELSE h[s \ {Any(s)}] + ram.node[Any(s)].size]
        = [s \in SUBSET S |-> IF s = {} THEN 0 ELSE h[s \ {Any(s)}] + w[Any(s)]]
    <3>1. \A s \in SUBSET S : s # {} => w[Any(s)] = ram.node[Any(s)].size
      <4> HIDE DEF Any
      <4> QED BY <2>1
    <3> HIDE DEF Any
    <3> QED BY <3>1
  <2> QED BY <2>2, Zenon DEF FoldStep
<1>3. FoldStep(g, S, w) /\ \A h : FoldStep(h, S, w) => h[S] = g[S]
  BY FoldIsSum
<1> HIDE DEF P
<1>4. P(c)
  <2>1. P(g)
    BY <1>2, <1>3
  <2> QED BY <2>1, Zenon
<1> HIDE DEF c
<1> QED BY <1>1, <1>2, <1>3, <1>4

LEMMA SumOfEntries ==
    ASSUME NEW S, IsFiniteSet(S), NEW w, NEW g, SumsTo(g, S, w), \A x \in S : w[x] = x.size
    PROVE  SumOf(S, LAMBDA a : a.size) = g[S]
<1> DEFINE P(h) == h = [s \in SUBSET S |-> IF s = {} THEN 0
                                           ELSE h[s \ {CHOOSE x \in s : TRUE}]
                                                + (CHOOSE x \in s : TRUE).size]
           c == CHOOSE h : P(h)
<1>1. SumOf(S, LAMBDA a : a.size) = c[S]
  BY Zenon DEF SumOf, FoldSet, MapThenFoldSet
<1>2. \A h : P(h) <=> FoldStep(h, S, w)
  <2> DEFINE Any(s) == CHOOSE x \in s : TRUE
  <2>1. \A s \in SUBSET S : s # {} => Any(s) \in S
    OBVIOUS
  <2> SUFFICES ASSUME NEW h PROVE P(h) <=> FoldStep(h, S, w)
    OBVIOUS
  <2>2. [s \in SUBSET S |-> IF s = {} THEN 0 ELSE h[s \ {Any(s)}] + Any(s).size]
        = [s \in SUBSET S |-> IF s = {} THEN 0 ELSE h[s \ {Any(s)}] + w[Any(s)]]
    <3>1. \A s \in SUBSET S : s # {} => w[Any(s)] = Any(s).size
      <4> HIDE DEF Any
      <4> QED BY <2>1
    <3> HIDE DEF Any
    <3> QED BY <3>1
  <2> QED BY <2>2, Zenon DEF FoldStep
<1>3. FoldStep(g, S, w) /\ \A h : FoldStep(h, S, w) => h[S] = g[S]
  BY FoldIsSum
<1> HIDE DEF P
<1>4. P(c)
  <2>1. P(g)
    BY <1>2, <1>3
  <2> QED BY <2>1, Zenon
<1> HIDE DEF c
<1> QED BY <1>1, <1>2, <1>3, <1>4

(* Two sets, one mapped into the other: what is not met counts nothing.    *)
Matches(S, w, R, v, m) ==
    /\ m \in [R -> S]
    /\ \A a, b \in R : m[a] = m[b] => a = b
    /\ \A a \in R : v[a] = w[m[a]]
    /\ \A x \in S : (\A a \in R : m[a] # x) => w[x] = 0

LEMMA SumMatched ==
    ASSUME NEW S, IsFiniteSet(S), NEW w, NEW g, SumsTo(g, S, w),
           NEW R, NEW v, NEW h, SumsTo(h, R, v), NEW m, Matches(S, w, R, v, m)
    PROVE  g[S] = h[R]
<1> DEFINE Met(T) == {a \in R : m[a] \in T}
           X == {T \in SUBSET S : g[T] # h[Met(T)]}
<1>1. /\ g \in [SUBSET S -> Nat] /\ g[{}] = 0
      /\ \A T \in SUBSET S : \A y \in T : g[T] = g[T \ {y}] + w[y]
      /\ h \in [SUBSET R -> Nat] /\ h[{}] = 0
      /\ \A T \in SUBSET R : \A y \in T : h[T] = h[T \ {y}] + v[y]
  BY DEF SumsTo
<1>2. /\ m \in [R -> S]
      /\ \A a, b \in R : m[a] = m[b] => a = b
      /\ \A a \in R : v[a] = w[m[a]]
      /\ \A x \in S : (\A a \in R : m[a] # x) => w[x] = 0
  BY DEF Matches
<1>3. X = {}
  <2> SUFFICES ASSUME X # {} PROVE FALSE
    OBVIOUS
  <2>1. PICK T \in X : \A y \in T : T \ {y} \notin X
    <3>1. X \in SUBSET (SUBSET S)
      OBVIOUS
    <3> HIDE DEF X
    <3> QED BY <3>1, LeastSubset
  <2>2. T \in SUBSET S /\ g[T] # h[Met(T)]
    OBVIOUS
  <2>3. T # {}
    <3>1. Met({}) = {}
      OBVIOUS
    <3> HIDE DEF Met
    <3> QED BY <1>1, <2>2, <3>1
  <2>4. PICK y \in T : TRUE
    BY <2>3
  <2>5. T \ {y} \in SUBSET S /\ g[T \ {y}] = h[Met(T \ {y})]
    <3>1. T \ {y} \in SUBSET S
      BY <2>2
    <3> QED BY <2>1, <3>1
  <2>6. g[T] = g[T \ {y}] + w[y]
    BY <1>1, <2>2
  <2>7. Met(T) \in SUBSET R /\ Met(T \ {y}) \in SUBSET R
    OBVIOUS
  <2>8. CASE \A a \in R : m[a] # y
    <3>1. Met(T) = Met(T \ {y})
      BY <2>8
    <3>2. w[y] = 0
      BY <1>2, <2>2, <2>8
    <3> HIDE DEF Met, X
    <3>3. h[Met(T \ {y})] \in Nat
      BY <1>1, <2>7
    <3> QED BY <2>2, <2>5, <2>6, <3>1, <3>2, <3>3
  <2>9. CASE ~ \A a \in R : m[a] # y
    <3>1. PICK a \in R : m[a] = y
      BY <2>9
    <3>2. Met(T \ {y}) = Met(T) \ {a} /\ a \in Met(T)
      BY <1>2, <3>1
    <3>3. v[a] = w[y]
      BY <1>2, <3>1
    <3> HIDE DEF Met, X
    <3>4. h[Met(T)] = h[Met(T) \ {a}] + v[a]
      BY <1>1, <2>7, <3>2
    <3> QED BY <2>2, <2>5, <2>6, <3>2, <3>3, <3>4
  <2> QED BY <2>8, <2>9
<1>4. Met(S) = R
  BY <1>2
<1>5. g[S] = h[Met(S)]
  <2>1. S \notin X /\ S \in SUBSET S
    BY <1>3
  <2> QED BY <2>1
<1> HIDE DEF Met
<1> QED BY <1>4, <1>5

LEMMA SumPlus ==
    ASSUME NEW S, IsFiniteSet(S), NEW u, NEW f, SumsTo(f, S, u), NEW w, NEW g, SumsTo(g, S, w),
           NEW v, NEW h, SumsTo(h, S, v), \A x \in S : u[x] = w[x] + v[x],
           \A x \in S : w[x] \in Nat /\ v[x] \in Nat
    PROVE  f[S] = g[S] + h[S]
<1> DEFINE X == {T \in SUBSET S : f[T] # g[T] + h[T]}
<1>1. /\ f[{}] = 0 /\ g[{}] = 0 /\ h[{}] = 0
      /\ \A T \in SUBSET S : f[T] \in Nat /\ g[T] \in Nat /\ h[T] \in Nat
      /\ \A T \in SUBSET S : \A y \in T : /\ f[T] = f[T \ {y}] + u[y]
                                          /\ g[T] = g[T \ {y}] + w[y]
                                          /\ h[T] = h[T \ {y}] + v[y]
  BY DEF SumsTo
<1>2. X = {}
  <2> SUFFICES ASSUME X # {} PROVE FALSE
    OBVIOUS
  <2>1. PICK T \in X : \A y \in T : T \ {y} \notin X
    <3>1. X \in SUBSET (SUBSET S)
      OBVIOUS
    <3> HIDE DEF X
    <3> QED BY <3>1, LeastSubset
  <2>2. T \in SUBSET S /\ f[T] # g[T] + h[T]
    OBVIOUS
  <2>3. PICK y \in T : TRUE
    <3>1. ASSUME T = {} PROVE FALSE
      <4>1. f[T] = 0 /\ g[T] = 0 /\ h[T] = 0
        BY <1>1, <3>1
      <4> HIDE DEF X
      <4> QED BY <2>2, <4>1
    <3> QED BY <3>1
  <2>4. T \ {y} \in SUBSET S /\ f[T \ {y}] = g[T \ {y}] + h[T \ {y}]
    <3>1. T \ {y} \in SUBSET S
      BY <2>2
    <3> QED BY <2>1, <3>1
  <2> HIDE DEF X
  <2>5. y \in S /\ u[y] = w[y] + v[y] /\ w[y] \in Nat /\ v[y] \in Nat
    BY <2>2
  <2>6. /\ f[T] = f[T \ {y}] + u[y] /\ g[T] = g[T \ {y}] + w[y] /\ h[T] = h[T \ {y}] + v[y]
        /\ f[T \ {y}] \in Nat /\ g[T \ {y}] \in Nat /\ h[T \ {y}] \in Nat
    BY <1>1, <2>2, <2>4
  <2> QED BY <2>2, <2>4, <2>5, <2>6
<1>3. S \notin X /\ S \in SUBSET S
  BY <1>2
<1> QED BY <1>3

-----------------------------------------------------------------------------
(* What a tiling adds up to.                                               *)

(* There is a last block, and a first one.                                 *)
LEMMA TiledEnds ==
    ASSUME NEW B, IsFiniteSet(B), B # {}, None \notin B, NEW k, NEW o, NEW s, NEW p, NEW n,
           NEW total \in Nat, Tiled(B, k, o, s, p, n, total)
    PROVE  /\ \E i \in B : n[i] = None /\ \A j \in B : n[j] = None <=> j = i
           /\ \E i \in B : p[i] = None /\ \A j \in B : p[j] = None <=> j = i
<1>1. /\ \A i \in B : k[i] \in Nat
      /\ \A i, j \in B : k[i] = k[j] => i = j
  BY DEF Tiled, Placed
<1>2. /\ \A i \in B : p[i] # None => p[i] \in B /\ n[p[i]] = i
      /\ \A i \in B : n[i] # None => n[i] \in B /\ p[n[i]] = i /\ k[i] < k[n[i]]
      /\ \A i, j \in B : k[i] < k[j] => n[i] # None /\ p[j] # None /\ k[n[i]] <= k[j]
  BY DEF Tiled, Linked
<1>3. \E i \in B : n[i] = None
  <2> DEFINE After(i) == {j \in B : k[i] < k[j]}
             X == {After(i) : i \in B}
  <2>1. X \in SUBSET (SUBSET B) /\ X # {}
    OBVIOUS
  <2>2. PICK T \in X : \A y \in T : T \ {y} \notin X
    <3> HIDE DEF X
    <3> QED BY <2>1, LeastSubset
  <2>3. PICK i \in B : T = After(i)
    OBVIOUS
  <2>4. ASSUME n[i] # None PROVE FALSE
    <3> DEFINE y == n[i]
    <3>1. y \in B /\ k[i] < k[y] /\ \A j \in B : k[i] < k[j] => k[y] <= k[j]
      BY <1>2, <2>4
    <3>2. y \in T
      BY <2>3, <3>1
    <3>3. After(y) = T \ {y}
      <4> HIDE DEF y
      <4>1. \A j \in B : k[y] < k[j] <=> k[i] < k[j] /\ j # y
        BY <1>1, <3>1
      <4> QED BY <2>3, <4>1
    <3>4. After(y) \in X
      <4> HIDE DEF y
      <4> QED BY <3>1
    <3> QED BY <2>2, <3>2, <3>3, <3>4
  <2> QED BY <2>4
<1>4. \E i \in B : p[i] = None
  <2> DEFINE A == {k[i] : i \in B}
  <2>1. A \in SUBSET Nat /\ A # {}
    BY <1>1
  <2>2. PICK x \in A : \A y \in A : x <= y
    <3> HIDE DEF A
    <3> QED BY <2>1, NatMin
  <2>3. PICK i \in B : k[i] = x
    OBVIOUS
  <2>4. \A j \in B : k[i] <= k[j]
    BY <2>2, <2>3
  <2> HIDE DEF A
  <2>5. ASSUME p[i] # None PROVE FALSE
    <3>1. p[i] \in B /\ n[p[i]] = i /\ i # None
      BY <1>2, <2>5
    <3>2. k[p[i]] < k[i]
      BY <1>2, <3>1
    <3> QED BY <1>1, <2>4, <3>1, <3>2
  <2> QED BY <2>5
<1>5. \A i, j \in B : i # j => k[i] < k[j] \/ k[j] < k[i]
  BY <1>1
<1>6. \A i, j \in B : n[i] = None /\ n[j] = None => i = j
  BY <1>2, <1>5
<1>7. \A i, j \in B : p[i] = None /\ p[j] = None => i = j
  BY <1>2, <1>5
<1> QED BY <1>3, <1>4, <1>6, <1>7

(* The sizes of the blocks of a tiling sum up to what is tiled: up to each *)
(* block to its offset.                                                    *)
LEMMA TiledSum ==
    ASSUME NEW B, IsFiniteSet(B), B # {}, None \notin B, NEW k, NEW o, NEW s, NEW p, NEW n,
           NEW total \in Nat, Tiled(B, k, o, s, p, n, total), NEW g, SumsTo(g, B, s)
    PROVE  g[B] = total
<1> DEFINE Before(i) == {j \in B : k[j] < k[i]}
<1>1. /\ \A i \in B : k[i] \in Nat /\ o[i] \in Nat /\ s[i] \in Nat
      /\ \A i, j \in B : k[i] = k[j] => i = j
  BY DEF Tiled, Placed
<1>2. /\ \A i \in B : p[i] # None => p[i] \in B /\ n[p[i]] = i
      /\ \A i \in B : n[i] # None => n[i] \in B /\ p[n[i]] = i /\ k[i] < k[n[i]]
      /\ \A i, j \in B : k[i] < k[j] => n[i] # None /\ p[j] # None /\ k[n[i]] <= k[j]
  BY DEF Tiled, Linked
<1>3. /\ \A i \in B : n[i] # None => o[n[i]] = o[i] + s[i]
      /\ \A i \in B : p[i] = None => o[i] = 0
      /\ \A i \in B : n[i] = None => o[i] + s[i] = total
  BY DEF Tiled, Gapless
<1>4. /\ g[{}] = 0 /\ \A T \in SUBSET B : \A y \in T : g[T] = g[T \ {y}] + s[y]
  BY DEF SumsTo
<1>5. \A i \in B : g[Before(i)] = o[i]
  <2> DEFINE bad == {i \in B : g[Before(i)] # o[i]}
             A == {k[i] : i \in bad}
  <2> SUFFICES ASSUME bad # {} PROVE FALSE
    OBVIOUS
  <2>1. A \in SUBSET Nat /\ A # {}
    BY <1>1
  <2>2. PICK x \in A : \A y \in A : x <= y
    <3> HIDE DEF A
    <3> QED BY <2>1, NatMin
  <2>3. PICK i \in bad : k[i] = x
    OBVIOUS
  <2>4. \A j \in bad : k[i] <= k[j]
    BY <2>2, <2>3
  <2>5. i \in B /\ g[Before(i)] # o[i]
    OBVIOUS
  <2>6. CASE p[i] = None
    <3>1. Before(i) = {}
      BY <1>2, <2>5, <2>6
    <3> QED BY <1>3, <1>4, <2>5, <2>6, <3>1
  <2>7. CASE p[i] # None
    <3> DEFINE y == p[i]
    <3>1. y \in B /\ n[y] = i /\ n[y] # None
      BY <1>2, <2>5, <2>7
    <3>2. k[y] < k[i] /\ \A j \in B : k[y] < k[j] => k[i] <= k[j]
      <4> HIDE DEF y
      <4> QED BY <1>2, <2>5, <3>1
    <3> HIDE DEF y
    <3>3. y \notin bad
      BY <1>1, <2>4, <2>5, <3>1, <3>2
    <3>4. g[Before(y)] = o[y]
      BY <3>1, <3>3
    <3>5. y \in Before(i) /\ Before(i) \ {y} = Before(y) /\ Before(i) \in SUBSET B
      <4>1. \A j \in B : k[j] < k[i] /\ j # y <=> k[j] < k[y]
        BY <1>1, <2>5, <3>1, <3>2
      <4> QED BY <3>1, <3>2, <4>1
    <3> HIDE DEF Before, bad
    <3>6. g[Before(i)] = g[Before(y)] + s[y]
      BY <1>4, <3>5
    <3>7. o[i] = o[y] + s[y]
      BY <1>3, <3>1
    <3> QED BY <2>5, <3>4, <3>6, <3>7
  <2> QED BY <2>6, <2>7
<1>6. PICK last \in B : n[last] = None
  BY TiledEnds
<1>7. Before(last) = B \ {last}
  <2>1. \A j \in B : j # last => k[j] < k[last]
    BY <1>1, <1>2, <1>6
  <2> QED BY <1>1, <2>1
<1>8. g[B] = g[B \ {last}] + s[last]
  BY <1>4
<1>9. g[B \ {last}] = o[last]
  BY <1>5, <1>7
<1> QED BY <1>3, <1>6, <1>8, <1>9

-----------------------------------------------------------------------------
(* The four representations agree.                                         *)

LEMMA BlocksAre ==
    ASSUME NEW N \in Nat, NEW B, Sound(ram, N, B)
    PROVE  /\ Nodes(ram) = N /\ Ids = Numbers(N)
           /\ Blocks = B /\ FreeBlocks = FreeOf(ram, B)
           /\ B \subseteq Numbers(N) /\ IsFiniteSet(B) /\ B # {} /\ None \notin B
<1>1. ram \in Objects(N) /\ Stacked(ram, N, B) /\ B # {}
  BY DEF Sound
<1>2. Nodes(ram) = N /\ Ids = Numbers(N)
  BY <1>1, NodesIs DEF Ids
<1>3. /\ B \subseteq Numbers(N)
      /\ \A x \in Numbers(N) : x \in B <=> \A i \in ram.ptr .. N - 1 : ram.freeNodes[i] # x
  BY <1>1 DEF Stacked
<1>4. Blocks = B
  BY <1>2, <1>3 DEF Blocks, OnStack
<1>5. FreeBlocks = FreeOf(ram, B)
  BY <1>4 DEF FreeBlocks, FreeOf
<1>6. IsFiniteSet(Numbers(N))
  BY FS_Interval DEF Numbers
<1>7. IsFiniteSet(B)
  BY <1>3, <1>6, FS_Subset
<1>8. None \notin B
  <2>1. Numbers(N) \subseteq Nat
    BY DEF Numbers
  <2> QED BY <1>3, <2>1, MiniramAssumption
<1> QED BY <1>1, <1>2, <1>3, <1>4, <1>5, <1>7, <1>8

LEMMA StackIsPartition ==
    ASSUME NEW N \in Nat, NEW B, Sound(ram, N, B), Held(ram, live, B)
    PROVE  StackPartition
<1>1. /\ Nodes(ram) = N /\ Blocks = B /\ ram.ptr \in 0 .. N
      /\ ram.freeNodes \in [Numbers(N) -> Numbers(N)]
  BY BlocksAre, ObjectFields DEF Sound
<1>2. Cardinality(OnStack) = RemainingAllocs(ram)
  <2> DEFINE I == ram.ptr .. N - 1
             f == [i \in I |-> ram.freeNodes[i]]
  <2>1. \A i, j \in I : ram.freeNodes[i] = ram.freeNodes[j] => i = j
    BY DEF Sound, Stacked
  <2>2. OnStack = {ram.freeNodes[i] : i \in I}
    BY <1>1 DEF OnStack
  <2>3. f \in Bijection(I, OnStack)
    BY <2>1, <2>2 DEF Bijection, Injection, Surjection, IsInjective
  <2>4. IsFiniteSet(I) /\ Cardinality(I) = N - ram.ptr
    <3>1. ram.ptr \in Int /\ N - 1 \in Int
      BY <1>1
    <3>2. IsFiniteSet(I)
      BY <3>1, FS_Interval
    <3>3. Cardinality(I) = IF ram.ptr > N - 1 THEN 0 ELSE (N - 1) - ram.ptr + 1
      BY <3>1, FS_Interval
    <3> QED BY <1>1, <3>2, <3>3
  <2> HIDE DEF f, I
  <2>5. Cardinality(OnStack) = Cardinality(I)
    BY <2>3, <2>4, FS_Bijection DEF ExistsBijection
  <2> QED BY <1>1, <2>4, <2>5 DEF RemainingAllocs
<1>3. {block.id : block \in live} = {i \in Blocks : ram.node[i].used}
  BY <1>1 DEF Held
<1> QED BY <1>2, <1>3 DEF StackPartition

LEMMA BinsFile ==
    ASSUME NEW N \in Nat, NEW B, Sound(ram, N, B)
    PROVE  BinsFileFreeBlocks
<1> DEFINE F == FreeOf(ram, B)
           c == Classes(ram)
<1>1. /\ FreeBlocks = F /\ ram.top \subseteq Nat /\ ram.leaf \subseteq Bins
      /\ F \subseteq DOMAIN ram.node /\ ListsOK(ram, F, c) /\ BitmapsOK(ram)
  BY BlocksAre, ObjectFields DEF Sound, Filed
<1> HIDE DEF F
<1>2. \A i \in F : c[i] = FloorToFloat(ram.node[i].size)
  BY <1>1 DEF Classes
<1> HIDE DEF c
<1>3. \A b \in Bins :
         /\ b \in ram.leaf <=> ram.bin[b] # None
         /\ ram.bin[b] # None =>
              /\ ram.bin[b] \in F
              /\ FloorToFloat(ram.node[ram.bin[b]].size) = b
              /\ ram.node[ram.bin[b]].binPrev = None
  <2>1. \A b \in Bins : ram.bin[b] # None =>
          ram.bin[b] \in F /\ c[ram.bin[b]] = b /\ ram.node[ram.bin[b]].binPrev = None
    BY <1>1 DEF ListsOK
  <2>2. \A b \in Bins : b \in ram.leaf <=> ram.bin[b] # None
    BY <1>1 DEF BitmapsOK
  <2> QED BY <1>2, <2>1, <2>2
<1>4. ram.top = {TopBin(b) : b \in ram.leaf}
  <2>1. \A t \in Nat : t \in ram.top <=> \E b \in ram.leaf : TopBin(b) = t
    BY <1>1 DEF BitmapsOK
  <2>2. \A b \in ram.leaf : TopBin(b) \in Nat
    BY <1>1, TopBinType
  <2> QED BY <1>1, <2>1, <2>2
<1>5. ASSUME NEW i \in F
      PROVE  LET prev == ram.node[i].binPrev
                 next == ram.node[i].binNext
                 bin  == FloorToFloat(ram.node[i].size)
             IN  /\ IF prev = None THEN ram.bin[bin] = i
                    ELSE prev \in F /\ ram.node[prev].binNext = i
                 /\ next # None =>
                      /\ next \in F
                      /\ ram.node[next].binPrev = i
                      /\ FloorToFloat(ram.node[next].size) = bin
  <2>1. /\ ram.node[i].binPrev = None => ram.bin[c[i]] = i
        /\ ram.node[i].binPrev # None =>
             ram.node[i].binPrev \in F /\ ram.node[ram.node[i].binPrev].binNext = i
        /\ ram.node[i].binNext # None =>
             /\ ram.node[i].binNext \in F /\ ram.node[ram.node[i].binNext].binPrev = i
             /\ c[ram.node[i].binNext] = c[i]
    BY <1>1 DEF ListsOK
  <2> QED BY <1>2, <2>1
<1> QED BY <1>1, <1>3, <1>4, <1>5 DEF BinsFileFreeBlocks

(* The sums of the sizes of the blocks, of the free ones and of those that *)
(* clients hold.                                                           *)
Accounted ==
    /\ SumOf(Blocks, LAMBDA i : ram.node[i].size) = ram.capacity
    /\ SumOf(FreeBlocks, LAMBDA i : ram.node[i].size) = ram.free
    /\ SumOf(live, LAMBDA a : a.size) \in Nat
    /\ ram.free + SumOf(live, LAMBDA a : a.size) = ram.capacity

LEMMA SumsOfStorage ==
    ASSUME NEW N \in Nat, NEW B, Sound(ram, N, B), Held(ram, live, B)
    PROVE  Accounted
<1> DEFINE F == FreeOf(ram, B)
           z == Sizes(ram)
           w == FreeSizes(ram)
           u == [i \in B |-> IF ram.node[i].used THEN ram.node[i].size ELSE 0]
           v == [a \in live |-> a.size]
           m == [a \in live |-> a.id]
           e == [i \in F |-> i]
<1>1. /\ Blocks = B /\ FreeBlocks = F /\ B \subseteq Numbers(N) /\ IsFiniteSet(B)
      /\ B # {} /\ None \notin B
  BY BlocksAre
<1>2. /\ ram \in Objects(N) /\ DOMAIN ram.node = Numbers(N)
      /\ ram.capacity \in Nat /\ ram.free \in Nat
  BY NodesIs, ObjectFields DEF Sound
<1>3. \A i \in B : ram.node[i].size \in Nat
  <2>1. \A i \in B : ram.node[i] \in NodeRecord
    BY <1>1, <1>2, ObjectFields DEF Tables
  <2> QED BY <2>1, NodeFields
<1>4. \A i \in B : /\ z[i] = ram.node[i].size
                   /\ w[i] = IF ram.node[i].used THEN 0 ELSE ram.node[i].size
                   /\ u[i] = IF ram.node[i].used THEN ram.node[i].size ELSE 0
  BY <1>1, <1>2 DEF Sizes, FreeSizes
<1>5. F \subseteq B /\ \A i \in B : i \in F <=> ~ ram.node[i].used
  BY DEF FreeOf
<1> HIDE DEF F, z, w, u
<1>6. PICK k, a : /\ Tiled(B, k, Offsets(ram), z, Prevs(ram), Nexts(ram), ram.capacity)
                  /\ Tiled(B, k, a, w, Prevs(ram), Nexts(ram), ram.free)
  BY DEF Sound, Chained, z, w
<1>7. /\ \A i \in B : z[i] \in Nat /\ w[i] \in Nat /\ u[i] \in Nat
      /\ \A i \in B : z[i] = w[i] + u[i]
  BY <1>3, <1>4
<1>8. PICK gz : SumsTo(gz, B, z)
  BY <1>1, <1>7, SumExists
<1>9. PICK gw : SumsTo(gw, B, w)
  BY <1>1, <1>7, SumExists
<1>10. PICK gu : SumsTo(gu, B, u)
  BY <1>1, <1>7, SumExists
<1>11. gz[B] = ram.capacity
  BY <1>1, <1>2, <1>6, <1>8, TiledSum
<1>12. gw[B] = ram.free
  BY <1>1, <1>2, <1>6, <1>9, TiledSum
<1>13. gz[B] = gw[B] + gu[B]
  BY <1>1, <1>7, <1>8, <1>9, <1>10, SumPlus
<1>14. SumOf(Blocks, LAMBDA i : ram.node[i].size) = gz[B]
  BY <1>1, <1>4, <1>8, SumOfSizes
<1>15. SumOf(FreeBlocks, LAMBDA i : ram.node[i].size) = gw[B]
  <2>1. IsFiniteSet(F) /\ \A i \in F : z[i] \in Nat /\ z[i] = ram.node[i].size
    BY <1>1, <1>4, <1>5, <1>7, FS_Subset
  <2>2. PICK gf : SumsTo(gf, F, z)
    BY <2>1, SumExists
  <2>3. SumOf(FreeBlocks, LAMBDA i : ram.node[i].size) = gf[F]
    BY <1>1, <2>1, <2>2, SumOfSizes
  <2>4. Matches(B, w, F, z, e)
    BY <1>4, <1>5 DEF Matches
  <2> HIDE DEF e
  <2>5. gw[B] = gf[F]
    BY <1>1, <1>9, <2>2, <2>4, SumMatched
  <2> QED BY <2>3, <2>5
<1>16. SumOf(live, LAMBDA b : b.size) = gu[B]
  <2>1. Matches(B, u, live, v, m)
    <3>1. \A b \in live : b.id \in B /\ ram.node[b.id].used /\ ram.node[b.id].size = b.size
      BY DEF Held
    <3>2. \A b, c \in live : m[b] = m[c] => b = c
      BY IdsDiffer
    <3>3. \A b \in live : v[b] = u[m[b]]
      BY <1>4, <3>1
    <3>4. \A i \in B : (\A b \in live : m[b] # i) => u[i] = 0
      BY <1>4 DEF Held
    <3>5. m \in [live -> B]
      BY <3>1
    <3> HIDE DEF m, v
    <3> QED BY <3>2, <3>3, <3>4, <3>5 DEF Matches
  <2>2. IsFiniteSet(live)
    <3>1. m \in Injection(live, B)
      <4>1. \A b \in live : b.id \in B
        BY DEF Held
      <4>2. \A b, c \in live : m[b] = m[c] => b = c
        BY IdsDiffer
      <4> QED BY <4>1, <4>2 DEF Injection, IsInjective
    <3> HIDE DEF m
    <3> QED BY <1>1, <3>1, FS_Injection DEF ExistsInjection
  <2>3. \A b \in live : v[b] \in Nat /\ v[b] = b.size
    BY MiniramAssumption DEF Held, Entries
  <2> HIDE DEF v, m
  <2>4. PICK gv : SumsTo(gv, live, v)
    BY <2>2, <2>3, SumExists
  <2>5. SumOf(live, LAMBDA b : b.size) = gv[live]
    BY <2>2, <2>3, <2>4, SumOfEntries
  <2>6. gu[B] = gv[live]
    BY <1>1, <1>10, <2>1, <2>4, SumMatched
  <2> QED BY <2>5, <2>6
<1>17. gu[B] \in Nat
  BY <1>10 DEF SumsTo
<1>18. ram.free + gu[B] = ram.capacity
  BY <1>11, <1>12, <1>13
<1> QED BY <1>11, <1>12, <1>14, <1>15, <1>16, <1>17, <1>18, Zenon DEF Accounted

LEMMA ChainTiles ==
    ASSUME NEW N \in Nat, NEW B, Sound(ram, N, B), Held(ram, live, B)
    PROVE  ChainTilesStorage
<1> DEFINE o == Offsets(ram)
           z == Sizes(ram)
           p == Prevs(ram)
           n == Nexts(ram)
<1>1. /\ Blocks = B /\ B \subseteq Numbers(N) /\ IsFiniteSet(B) /\ B # {} /\ None \notin B
      /\ DOMAIN ram.node = Numbers(N) /\ ram.capacity \in Nat
  BY BlocksAre, NodesIs, ObjectFields DEF Sound
<1>2. \A i \in B : /\ o[i] = ram.node[i].offset /\ z[i] = ram.node[i].size
                   /\ p[i] = ram.node[i].prev /\ n[i] = ram.node[i].next
  BY <1>1 DEF Offsets, Sizes, Prevs, Nexts
<1> HIDE DEF o, z, p, n
<1>3. PICK k : Tiled(B, k, o, z, p, n, ram.capacity)
  BY DEF Sound, Chained, o, z, p, n
<1>4. /\ \E i \in B : n[i] = None /\ \A j \in B : n[j] = None <=> j = i
      /\ \E i \in B : p[i] = None /\ \A j \in B : p[j] = None <=> j = i
  BY <1>1, <1>3, TiledEnds
<1>5. Cardinality({i \in Blocks : ram.node[i].prev = None}) = 1
  <2>1. PICK i \in B : p[i] = None /\ \A j \in B : p[j] = None <=> j = i
    BY <1>4
  <2>2. {j \in Blocks : ram.node[j].prev = None} = {i}
    BY <1>1, <1>2, <2>1
  <2> QED BY <2>2, FS_Singleton
<1>6. Cardinality({i \in Blocks : ram.node[i].next = None}) = 1
  <2>1. PICK i \in B : n[i] = None /\ \A j \in B : n[j] = None <=> j = i
    BY <1>4
  <2>2. {j \in Blocks : ram.node[j].next = None} = {i}
    BY <1>1, <1>2, <2>1
  <2> QED BY <2>2, FS_Singleton
<1>7. SumOf(Blocks, LAMBDA i : ram.node[i].size) = ram.capacity
  <2>1. Accounted
    BY SumsOfStorage
  <2> QED BY <2>1, Zenon DEF Accounted
<1>8. ASSUME NEW i \in B
      PROVE  LET prev == ram.node[i].prev
                 next == ram.node[i].next
             IN  /\ IF prev = None THEN ram.node[i].offset = 0
                    ELSE prev \in B /\ ram.node[prev].next = i
                 /\ IF next = None THEN ram.node[i].offset + ram.node[i].size = ram.capacity
                    ELSE /\ next \in B
                         /\ ram.node[next].prev = i
                         /\ ram.node[next].offset = ram.node[i].offset + ram.node[i].size
                         /\ ram.node[i].used \/ ram.node[next].used
  <2>1. /\ p[i] # None => p[i] \in B /\ n[p[i]] = i
        /\ n[i] # None => n[i] \in B /\ p[n[i]] = i
    BY <1>3 DEF Tiled, Linked
  <2>2. /\ n[i] # None => o[n[i]] = o[i] + z[i]
        /\ p[i] = None => o[i] = 0
        /\ n[i] = None => o[i] + z[i] = ram.capacity
    BY <1>3 DEF Tiled, Gapless
  <2>3. ram.node[i].next # None => ram.node[i].used \/ ram.node[ram.node[i].next].used
    BY DEF Sound, Coalesced
  <2>4. IF ram.node[i].prev = None THEN ram.node[i].offset = 0
        ELSE ram.node[i].prev \in B /\ ram.node[ram.node[i].prev].next = i
    BY <1>2, <2>1, <2>2
  <2>5. ram.node[i].next = None => ram.node[i].offset + ram.node[i].size = ram.capacity
    BY <1>2, <2>2
  <2>6. ram.node[i].next # None =>
          /\ ram.node[i].next \in B /\ ram.node[ram.node[i].next].prev = i
          /\ ram.node[ram.node[i].next].offset = ram.node[i].offset + ram.node[i].size
    BY <1>2, <2>1, <2>2
  <2> QED BY <2>3, <2>4, <2>5, <2>6
<1> QED BY <1>1, <1>5, <1>6, <1>7, <1>8, Zenon DEF ChainTilesStorage

LEMMA TypesOK ==
    ASSUME NEW N \in Nat, N <= MaxNodes, NEW B, Sound(ram, N, B), Held(ram, live, B)
    PROVE  TypeOK
<1>1. /\ ram \in Objects(N) /\ ram.capacity = Capacity /\ ram.free \in Nat /\ BitmapsOK(ram)
      /\ Nodes(ram) = N /\ Ids = Numbers(N) /\ Capacity \in Nat
  BY BlocksAre, MiniramAssumption DEF Sound, Filed
<1>2. /\ ram.node \in [Ids -> NodeRecord]
      /\ ram.freeNodes \in [Ids -> Ids]
      /\ ram.ptr \in 0 .. Nodes(ram)
      /\ ram.bin \in [Bins -> Ids \cup {None}]
      /\ ram.leaf \subseteq Bins
      /\ ram.top \subseteq Nat
      /\ ram.capacity \in Nat
      /\ ram.failed \in BOOLEAN
  <2>1. ram.node \in Tables(N)
    BY <1>1, ObjectFields
  <2>2. Tables(N) = [Ids -> NodeRecord]
    BY <1>1 DEF Tables
  <2> QED BY <1>1, <2>1, <2>2, ObjectFields
<1>3. Ids = 0 .. Nodes(ram) - 1 /\ Nodes(ram) <= MaxNodes
  BY <1>1 DEF Numbers
<1>4. ram.top \subseteq {TopBin(b) : b \in Bins}
  BY <1>1, <1>2 DEF BitmapsOK
<1>5. ram.free \in 0 .. ram.capacity
  <2>1. Accounted
    BY SumsOfStorage
  <2> DEFINE sum == SumOf(live, LAMBDA a : a.size)
  <2>2. sum \in Nat /\ ram.free + sum = ram.capacity
    BY <2>1, Zenon DEF Accounted
  <2> HIDE DEF sum
  <2> QED BY <1>1, <2>2
<1>6. live \subseteq [id : Ids, offset : 0 .. Capacity, size : Requests]
  <2> SUFFICES ASSUME NEW a \in live
               PROVE  a \in [id : Ids, offset : 0 .. Capacity, size : Requests]
    OBVIOUS
  <2>1. a \in Entries /\ a.id \in B /\ ram.node[a.id].offset = a.offset
    BY DEF Held
  <2>2. BlockOK(ram, N, B, a.id)
    BY <2>1, BlockFacts
  <2>3. /\ a.id \in Numbers(N) /\ ram.node[a.id].size \in 0 .. Capacity
        /\ ram.node[a.id].offset + ram.node[a.id].size <= Capacity
    BY <2>2, Zenon DEF BlockOK
  <2>4. a.offset \in 0 .. Capacity
    <3>1. a.offset \in Nat
      BY <2>1 DEF Entries
    <3> QED BY <1>1, <2>1, <2>3, <3>1
  <2> QED BY <1>1, <2>1, <2>3, <2>4 DEF Entries
<1> QED BY <1>2, <1>3, <1>4, <1>5, <1>6, Zenon DEF TypeOK

(* The node stack, the chain of neighbours, the bins with their bitmaps    *)
(* and the counters agree after every call: ids are handed out once, the   *)
(* blocks tile the storage and never meet free, the bins file exactly the  *)
(* free ones, and remaining() is what no client holds.                     *)
THEOREM StaysWellFormed == Spec => []WellFormed
<1>1. ASSUME IInv PROVE WellFormed
  <2>1. PICK N, B : /\ N \in Nat /\ N >= 2 /\ N <= MaxNodes
                     /\ Sound(ram, N, B) /\ Held(ram, live, B)
    BY <1>1 DEF IInv
  <2>2. TypeOK
    BY <2>1, TypesOK
  <2>3. StackPartition /\ ChainTilesStorage /\ BinsFileFreeBlocks
    BY <2>1, StackIsPartition, ChainTiles, BinsFile
  <2>4. StorageAccounted
    <3>1. Accounted
      BY <2>1, SumsOfStorage
    <3> DEFINE sum == SumOf(live, LAMBDA a : a.size)
    <3>2. /\ SumOf(FreeBlocks, LAMBDA i : ram.node[i].size) = ram.free
          /\ sum \in Nat /\ ram.free + sum = ram.capacity
      BY <3>1, Zenon DEF Accounted
    <3>3. ram.free \in Nat
      BY <2>1 DEF Sound
    <3>4. ram.free = ram.capacity - sum
      <4> HIDE DEF sum
      <4> QED BY <3>2, <3>3
    <3> QED BY <3>2, <3>4, Zenon DEF StorageAccounted
  <2> QED BY <2>2, <2>3, <2>4 DEF WellFormed
<1> QED BY <1>1, MiniramInvariant, PTL

-----------------------------------------------------------------------------
(* What clients see: the gaps between the blocks they hold are the free    *)
(* blocks that are not empty.                                              *)

(* A tiling covers what it tiles.                                          *)
LEMMA TiledCovers ==
    ASSUME NEW B, IsFiniteSet(B), B # {}, None \notin B, NEW k, NEW o, NEW s, NEW p, NEW n,
           NEW total \in Nat, Tiled(B, k, o, s, p, n, total), NEW c \in Nat, c < total
    PROVE  \E i \in B : o[i] <= c /\ c < o[i] + s[i]
<1>1. \A i \in B : k[i] \in Nat /\ o[i] \in Nat /\ s[i] \in Nat
  BY DEF Tiled, Placed
<1>2. /\ \A i \in B : p[i] # None => p[i] \in B /\ n[p[i]] = i
      /\ \A i \in B : n[i] # None => k[i] < k[n[i]]
  BY DEF Tiled, Linked
<1>3. /\ \A i \in B : n[i] # None => o[n[i]] = o[i] + s[i]
      /\ \A i \in B : p[i] = None => o[i] = 0
      /\ \A i \in B : n[i] = None => o[i] + s[i] = total
  BY DEF Tiled, Gapless
<1> DEFINE behind == {i \in B : c < o[i] + s[i]}
           A == {k[i] : i \in behind}
<1>4. A \in SUBSET Nat /\ A # {}
  <2>1. PICK i \in B : n[i] = None
    BY TiledEnds
  <2>2. i \in behind
    BY <1>3, <2>1
  <2> QED BY <1>1, <2>2
<1>5. PICK x \in A : \A y \in A : x <= y
  <2> HIDE DEF A
  <2> QED BY <1>4, NatMin
<1>6. PICK i \in behind : k[i] = x
  OBVIOUS
<1>7. i \in B /\ c < o[i] + s[i] /\ \A j \in B : c < o[j] + s[j] => k[i] <= k[j]
  BY <1>5, <1>6
<1> HIDE DEF A, behind
<1>8. CASE p[i] = None
  <2>1. o[i] <= c
    BY <1>3, <1>7, <1>8
  <2> QED BY <1>7, <2>1
<1>9. CASE p[i] # None
  <2> DEFINE y == p[i]
  <2>1. y \in B /\ n[y] = i /\ n[y] # None
    BY <1>2, <1>7, <1>9
  <2> HIDE DEF y
  <2>2. k[y] < k[i] /\ o[i] = o[y] + s[y]
    BY <1>2, <1>3, <2>1
  <2>3. ~ (c < o[y] + s[y])
    BY <1>1, <1>7, <2>1, <2>2
  <2>4. o[i] <= c
    BY <1>1, <1>7, <2>1, <2>2, <2>3
  <2> QED BY <1>7, <2>4
<1> QED BY <1>8, <1>9

(* The classes with a free block are those in the bitmap of the leaves.    *)
LEMMA LeavesAre ==
    ASSUME NEW N \in Nat, NEW r, NEW B, Sound(r, N, B)
    PROVE  \A b \in Nat :
             b \in r.leaf <=> \E i \in FreeOf(r, B) : FloorToFloat(r.node[i].size) = b
<1> DEFINE F == FreeOf(r, B)
           c == Classes(r)
<1>1. /\ r \in Objects(N) /\ Filed(r, F, c)
  BY DEF Sound
<1>2. /\ F \subseteq DOMAIN r.node /\ ListsOK(r, F, c) /\ BitmapsOK(r)
      /\ r.leaf \subseteq Bins
  BY <1>1, ObjectFields DEF Filed
<1>3. PICK l : Reaches(r, F, c, l)
  BY <1>1 DEF Filed
<1>4. \A i \in F : c[i] = FloorToFloat(r.node[i].size)
  BY <1>2 DEF Classes
<1> HIDE DEF F, c
<1>5. /\ \A b \in Bins : b \in r.leaf <=> r.bin[b] # None
      /\ \A b \in Bins : r.bin[b] # None => r.bin[b] \in F /\ c[r.bin[b]] = b
      /\ \A i \in F : c[i] \in Bins
      /\ \A i \in F : r.bin[c[i]] # None
  BY <1>2, <1>3 DEF BitmapsOK, ListsOK, Reaches
<1>6. \A b \in Nat : b \in r.leaf <=> \E i \in F : FloorToFloat(r.node[i].size) = b
  BY <1>2, <1>4, <1>5
<1> QED BY <1>6 DEF F

(* What a call searches: the object before or after its table has grown.   *)
LEMMA AllocateSearches ==
    ASSUME NEW N \in Nat, N >= 2, NEW r, NEW B, Sound(r, N, B), NEW size \in Nat,
           NEW result, result = AllocateResult(r, size)
    PROVE  \/ size > r.free /\ result.id = None
           \/ \E bin : /\ Found(r, size, bin)
                       /\ result.id = IF bin = None THEN None ELSE r.bin[bin]
<1>1. /\ r \in Objects(N) /\ BitmapsOK(r) /\ Stacked(r, N, B) /\ Nodes(r) = N /\ r.free \in Nat
  BY NodesIs DEF Sound, Filed
<1>2. CASE size > r.free
  <2>1. result = [ram |-> r, id |-> None]
    BY <1>2 DEF AllocateResult
  <2> QED BY <1>2, <2>1
<1>3. CASE ~ (size > r.free)
  <2> DEFINE g == IF RemainingAllocs(r) = 0 THEN GrowNodes(r) ELSE r
             bin == SearchBin(g, size)
  <2>1. result = AllocateFrom(g, size)
    BY <1>3 DEF AllocateResult
  <2>2. g.leaf = r.leaf /\ g.top = r.top /\ g.bin = r.bin
    <3> DEFINE M == 2 * (N - 1) + 1
               q == ReserveNodes(r, M)
    <3>1. M \in Nat /\ M > N
      OBVIOUS
    <3>2. GrowNodes(r) = q
      BY <1>1 DEF GrowNodes
    <3> HIDE DEF M
    <3>3. q.leaf = r.leaf /\ q.top = r.top /\ q.bin = r.bin
      BY <1>1, <3>1, ReservedNodes
    <3> QED BY <3>2, <3>3
  <2>3. SearchBin(g, size) = SearchBin(r, size)
    <3> HIDE DEF g
    <3> QED BY <2>2, Zenon DEF SearchBin
  <2> HIDE DEF g
  <2>4. Found(r, size, bin)
    BY <1>1, <2>3, SearchFinds
  <2>5. result.id = IF bin = None THEN None ELSE r.bin[bin]
    <3> HIDE DEF bin
    <3>1. result = IF bin = None THEN [ram |-> g, id |-> None]
                   ELSE [ram |-> Slice(g, size, bin), id |-> g.bin[bin]]
      BY <2>1, Zenon DEF AllocateFrom, bin
    <3> QED BY <2>2, <3>1
  <2> QED BY <2>4, <2>5
<1> QED BY <1>2, <1>3

(* allocate() fails where no free block is of a class that surely serves.  *)
LEMMA AllocateRefuses ==
    ASSUME NEW N \in Nat, N >= 2, NEW r, NEW B, Sound(r, N, B), NEW size \in Nat
    PROVE  AllocateResult(r, size).id = None <=> \A b \in r.leaf : b < CeilToFloat(size)
<1> DEFINE result == AllocateResult(r, size)
<1>1. r \in Objects(N) /\ Filed(r, FreeOf(r, B), Classes(r)) /\ r.leaf \subseteq Bins /\ r.free \in Nat
  BY ObjectFields DEF Sound
<1>2. \/ size > r.free /\ result.id = None
      \/ \E bin : /\ Found(r, size, bin)
                  /\ result.id = IF bin = None THEN None ELSE r.bin[bin]
  BY AllocateSearches
<1> HIDE DEF result
<1>3. CASE size > r.free /\ result.id = None
  <2> SUFFICES ASSUME NEW b \in r.leaf, ~ (b < CeilToFloat(size)) PROVE FALSE
    BY <1>3 DEF result
  <2>1. b \in Nat /\ CeilToFloat(size) \in Nat
    BY <1>1, TopBinType, ClassType
  <2>2. PICK i \in FreeOf(r, B) : FloorToFloat(r.node[i].size) = b
    BY <2>1, LeavesAre
  <2>3. BlockOK(r, N, B, i) /\ ~ r.node[i].used
    BY <2>2, BlockFacts DEF FreeOf
  <2>4. r.node[i].size \in 0 .. Capacity /\ r.node[i].size <= r.free
    BY <2>3, Zenon DEF BlockOK
  <2>5. r.node[i].size \in Nat
    BY <2>4, MiniramAssumption
  <2>6. size <= r.node[i].size
    BY <2>1, <2>2, <2>5, ClassHolds
  <2> QED BY <1>1, <1>3, <2>4, <2>5, <2>6
<1>4. ASSUME NEW bin, Found(r, size, bin), result.id = IF bin = None THEN None ELSE r.bin[bin]
      PROVE  result.id = None <=> \A b \in r.leaf : b < CeilToFloat(size)
  <2>1. CASE bin = None
    BY <1>4, <2>1 DEF Found
  <2>2. CASE bin # None
    <3>1. r.bin[bin] # None
      BY <1>1, <1>4, <2>2, FoundBlock
    <3>2. bin \in r.leaf /\ bin >= CeilToFloat(size) /\ bin \in Nat /\ CeilToFloat(size) \in Nat
      BY <1>1, <1>4, <2>2, TopBinType, ClassType DEF Found
    <3>3. ~ (bin < CeilToFloat(size))
      BY <3>2
    <3> QED BY <1>4, <2>2, <3>1, <3>2, <3>3
  <2> QED BY <2>1, <2>2
<1> QED BY <1>2, <1>3, <1>4 DEF result

LEMMA MaxIs ==
    ASSUME NEW A \in SUBSET Nat, A # {}, NEW u \in Nat, \A y \in A : y <= u
    PROVE  Max(A) \in A /\ \A y \in A : y <= Max(A)
<1> DEFINE D == {u - y : y \in A}
<1>1. D \in SUBSET Nat /\ D # {}
  <2>1. \A y \in A : u - y \in Nat
    <3> SUFFICES ASSUME NEW y \in A PROVE u - y \in Nat
      OBVIOUS
    <3>1. y \in Nat /\ y <= u
      OBVIOUS
    <3> QED BY <3>1
  <2>2. D # {}
    OBVIOUS
  <2> QED BY <2>1, <2>2
<1>2. PICK d \in D : \A e \in D : d <= e
  <2> HIDE DEF D
  <2> QED BY <1>1, NatMin
<1>3. PICK x \in A : d = u - x
  OBVIOUS
<1>4. \A y \in A : y <= x
  <2> SUFFICES ASSUME NEW y \in A PROVE y <= x
    OBVIOUS
  <2>1. u - y \in D
    OBVIOUS
  <2>2. d <= u - y
    BY <1>2, <2>1
  <2>3. x \in Nat /\ y \in Nat
    OBVIOUS
  <2> HIDE DEF D
  <2> QED BY <1>3, <2>2, <2>3
<1>5. \E z \in A : \A y \in A : z >= y
  <2>1. \A y \in A : x >= y
    BY <1>4
  <2> QED BY <2>1
<1>6. Max(A) \in A /\ \A y \in A : Max(A) >= y
  BY <1>5, Zenon DEF Max
<1> QED BY <1>6

(* max_alloc() reads the highest class with a free block.                  *)
LEMMA AllocatableIs ==
    ASSUME NEW N \in Nat, NEW r, NEW B, Sound(r, N, B), IsFiniteSet(B), None \notin B,
           NEW n \in Nat, n >= 1
    PROVE  Allocatable(r, n) <=> ~ \A b \in r.leaf : b < CeilToFloat(n)
<1> DEFINE L == r.leaf
           high == {b \in L : TopBin(b) = Max(r.top)}
<1>1. /\ r \in Objects(N) /\ BitmapsOK(r) /\ Filed(r, FreeOf(r, B), Classes(r))
      /\ L \subseteq Bins /\ r.top \subseteq Nat /\ r.free \in Nat /\ CeilToFloat(n) \in Nat
  BY ObjectFields, ClassType DEF Sound, Filed
<1>2. /\ L \subseteq Nat /\ \A b \in L : TopBin(b) \in Nat /\ TopBin(b) \in r.top
      /\ \A t \in r.top : \E b \in L : TopBin(b) = t
  BY <1>1, TopBinType DEF BitmapsOK
<1>3. CASE r.free = 0
  <2>1. ~ Allocatable(r, n)
    BY <1>3 DEF Allocatable, MaxAlloc
  <2>2. ASSUME NEW b \in L, ~ (b < CeilToFloat(n)) PROVE FALSE
    <3>1. PICK i \in FreeOf(r, B) : FloorToFloat(r.node[i].size) = b
      BY <1>2, LeavesAre
    <3>2. BlockOK(r, N, B, i) /\ ~ r.node[i].used
      BY <3>1, BlockFacts DEF FreeOf
    <3>3. r.node[i].size \in 0 .. Capacity /\ r.node[i].size <= r.free
      BY <3>2, Zenon DEF BlockOK
    <3>4. r.node[i].size \in Nat /\ b \in Nat
      BY <1>2, <3>3, MiniramAssumption
    <3>5. n <= r.node[i].size
      BY <1>1, <2>2, <3>1, <3>4, ClassHolds
    <3> QED BY <1>3, <3>3, <3>4, <3>5
  <2> QED BY <2>1, <2>2
<1>4. CASE r.free # 0
  <2>1. L # {}
    <3>1. PICK k, a : Tiled(B, k, a, FreeSizes(r), Prevs(r), Nexts(r), r.free)
      BY DEF Sound, Chained
    <3>2. B # {} /\ B \subseteq DOMAIN r.node
      BY <1>1, NodesIs DEF Sound, Stacked
    <3>3. PICK i \in B : a[i] <= 0 /\ 0 < a[i] + FreeSizes(r)[i]
      <4>1. 0 \in Nat /\ 0 < r.free
        BY <1>1, <1>4
      <4> QED BY <1>1, <3>1, <3>2, <4>1, TiledCovers
    <3>4. a[i] \in Nat /\ FreeSizes(r)[i] \in Nat
      BY <3>1 DEF Tiled, Placed
    <3>5. FreeSizes(r)[i] # 0
      BY <3>3, <3>4
    <3>6. i \in FreeOf(r, B)
      BY <3>2, <3>5 DEF FreeSizes, FreeOf
    <3>7. Classes(r)[i] \in Bins /\ r.bin[Classes(r)[i]] # None
      BY <1>1, <3>6 DEF Filed, ListsOK, Reaches
    <3> QED BY <1>1, <3>7 DEF BitmapsOK
  <2>2. Max(r.top) \in r.top /\ \A t \in r.top : t <= Max(r.top)
    <3>1. NumLeafBins \in Nat /\ NumLeafBins >= 1
      BY MiniramAssumption, ClassType
    <3>2. \A t \in r.top : t <= TopBin(NumLeafBins)
      <4> SUFFICES ASSUME NEW t \in r.top PROVE t <= TopBin(NumLeafBins)
        OBVIOUS
      <4>1. PICK b \in L : TopBin(b) = t
        BY <1>2
      <4>2. b \in Nat /\ b <= NumLeafBins
        BY <1>1, <1>2, <3>1 DEF Bins
      <4> QED BY <3>1, <4>1, <4>2, TopBinGrows
    <3>3. TopBin(NumLeafBins) \in Nat
      BY <3>1, TopBinGrows
    <3>4. r.top # {}
      BY <1>2, <2>1
    <3> QED BY <1>1, <3>2, <3>3, <3>4, MaxIs
  <2>3. Max(high) \in high /\ \A b \in high : b <= Max(high)
    <3>1. \A b \in high : b <= NumLeafBins
      BY <1>1, MiniramAssumption DEF Bins
    <3>2. high \in SUBSET Nat /\ high # {}
      BY <1>2, <2>2
    <3>3. NumLeafBins \in Nat
      BY MiniramAssumption
    <3> HIDE DEF high
    <3> QED BY <3>1, <3>2, <3>3, MaxIs
  <2> DEFINE m == Max(high)
  <2>4. m \in L /\ m \in Nat /\ \A b \in L : b <= m
    <3>1. m \in L /\ TopBin(m) = Max(r.top) /\ m \in Nat
      BY <1>2, <2>3
    <3> SUFFICES ASSUME NEW b \in L PROVE b <= m
      BY <3>1
    <3>2. b \in Nat /\ TopBin(b) \in Nat /\ TopBin(m) \in Nat /\ TopBin(b) <= TopBin(m)
      BY <1>2, <2>2, <3>1
    <3>3. CASE TopBin(b) = TopBin(m)
      BY <2>3, <3>1, <3>3
    <3>4. CASE TopBin(b) < TopBin(m)
      <4> HIDE DEF m
      <4>1. m <= b => TopBin(m) <= TopBin(b)
        BY <3>1, <3>2, TopBinGrows
      <4> QED BY <3>1, <3>2, <3>4, <4>1
    <3> HIDE DEF m
    <3> QED BY <3>2, <3>3, <3>4
  <2>5. Allocatable(r, n) <=> n <= ToUint(m)
    BY <1>4, Zenon DEF Allocatable, MaxAlloc
  <2> HIDE DEF m, high
  <2>6. ToUint(m) >= n <=> m >= CeilToFloat(n)
    BY <2>4, ClassGalois
  <2>7. ToUint(m) \in Nat
    BY <2>4, ToUintClass
  <2>8. n <= ToUint(m) <=> m >= CeilToFloat(n)
    BY <2>6, <2>7
  <2>9. m >= CeilToFloat(n) <=> ~ \A b \in L : b < CeilToFloat(n)
    BY <1>1, <1>2, <2>4
  <2> QED BY <2>5, <2>8, <2>9
<1> QED BY <1>3, <1>4

GapOf(r, i) == [offset |-> r.node[i].offset, size |-> r.node[i].size]

Open(r, B) == {i \in FreeOf(r, B) : r.node[i].size > 0}

(* The definitions that the abstract allocator shares.                     *)
LEMMA SameClasses ==
    /\ \A n : Blocked!FloorToFloat(n) = FloorToFloat(n)
    /\ \A n : Blocked!CeilToFloat(n) = CeilToFloat(n)
    /\ \A A : Blocked!Min(A) = Min(A)
<1>1. \A n : Blocked!FloorToFloat(n) = FloorToFloat(n)
  BY Zenon DEF Blocked!FloorToFloat, Blocked!MantissaValue, Blocked!Shift, Blocked!HighestBit,
               FloorToFloat, MantissaValue, Shift, HighestBit
<1>2. \A n : Blocked!CeilToFloat(n) = CeilToFloat(n)
  BY Zenon DEF Blocked!CeilToFloat, Blocked!FloorToFloat, Blocked!MantissaValue, Blocked!Shift,
               Blocked!HighestBit, CeilToFloat, FloorToFloat, MantissaValue, Shift, HighestBit
<1>3. \A A : Blocked!Min(A) = Min(A)
  BY Zenon DEF Blocked!Min, Min
<1> QED BY <1>1, <1>2, <1>3, Zenon

(* How the blocks lie: those in use are the ones that are held.            *)
Laid(N, B, k) ==
    /\ \A i \in B : /\ k[i] \in Nat /\ ram.node[i].offset \in Nat /\ ram.node[i].size \in Nat
                    /\ ram.node[i].offset + ram.node[i].size <= Capacity
    /\ \A i, j \in B : k[i] = k[j] => i = j
    /\ \A i, j \in B : k[i] < k[j] =>
         ram.node[i].offset + ram.node[i].size <= ram.node[j].offset
    /\ \A i \in B : ram.node[i].prev # None =>
         /\ ram.node[i].prev \in B
         /\ ram.node[i].offset = ram.node[ram.node[i].prev].offset + ram.node[ram.node[i].prev].size
         /\ ram.node[i].used \/ ram.node[ram.node[i].prev].used
    /\ \A i \in B : ram.node[i].prev = None => ram.node[i].offset = 0
    /\ \A i \in B : ram.node[i].next # None =>
         /\ ram.node[i].next \in B
         /\ ram.node[ram.node[i].next].offset = ram.node[i].offset + ram.node[i].size
         /\ ram.node[i].used \/ ram.node[ram.node[i].next].used
    /\ \A i \in B : ram.node[i].next = None => ram.node[i].offset + ram.node[i].size = Capacity
    /\ \A c \in Nat : c < Capacity => \E i \in B :
         ram.node[i].offset <= c /\ c < ram.node[i].offset + ram.node[i].size

LEMMA LaidOut ==
    ASSUME NEW N \in Nat, NEW B, Sound(ram, N, B)
    PROVE  \E k : Laid(N, B, k)
<1> DEFINE o == Offsets(ram)
           z == Sizes(ram)
           p == Prevs(ram)
           n == Nexts(ram)
<1>1. /\ B \subseteq Numbers(N) /\ IsFiniteSet(B) /\ B # {} /\ None \notin B
      /\ DOMAIN ram.node = Numbers(N) /\ ram.capacity = Capacity /\ ram.capacity \in Nat
  BY BlocksAre, NodesIs, ObjectFields DEF Sound
<1>2. \A i \in B : /\ o[i] = ram.node[i].offset /\ z[i] = ram.node[i].size
                   /\ p[i] = ram.node[i].prev /\ n[i] = ram.node[i].next
  BY <1>1 DEF Offsets, Sizes, Prevs, Nexts
<1> HIDE DEF o, z, p, n
<1>3. PICK k : Tiled(B, k, o, z, p, n, ram.capacity)
  BY DEF Sound, Chained, o, z, p, n
<1>4. /\ \A i \in B : k[i] \in Nat /\ o[i] \in Nat /\ z[i] \in Nat /\ o[i] + z[i] <= Capacity
      /\ \A i, j \in B : k[i] = k[j] => i = j
      /\ \A i, j \in B : k[i] < k[j] => o[i] + z[i] <= o[j]
  BY <1>1, <1>3 DEF Tiled, Placed
<1>5. /\ \A i \in B : p[i] # None => p[i] \in B /\ n[p[i]] = i
      /\ \A i \in B : n[i] # None => n[i] \in B /\ p[n[i]] = i
  BY <1>3 DEF Tiled, Linked
<1>6. /\ \A i \in B : n[i] # None => o[n[i]] = o[i] + z[i]
      /\ \A i \in B : p[i] = None => o[i] = 0
      /\ \A i \in B : n[i] = None => o[i] + z[i] = Capacity
  BY <1>1, <1>3 DEF Tiled, Gapless
<1>7. \A i \in B : n[i] # None => ram.node[i].used \/ ram.node[n[i]].used
  BY <1>2 DEF Sound, Coalesced
<1>8. \A i \in B : p[i] # None =>
        /\ o[i] = o[p[i]] + z[p[i]]
        /\ ram.node[i].used \/ ram.node[p[i]].used
  BY <1>1, <1>5, <1>6, <1>7
<1>9. \A c \in Nat : c < Capacity => \E i \in B : o[i] <= c /\ c < o[i] + z[i]
  BY <1>1, <1>3, TiledCovers
<1>10. /\ \A i \in B : /\ k[i] \in Nat /\ ram.node[i].offset \in Nat /\ ram.node[i].size \in Nat
                       /\ ram.node[i].offset + ram.node[i].size <= Capacity
       /\ \A i, j \in B : k[i] < k[j] =>
            ram.node[i].offset + ram.node[i].size <= ram.node[j].offset
  BY <1>2, <1>4
<1>11. /\ \A i \in B : ram.node[i].prev # None =>
            /\ ram.node[i].prev \in B
            /\ ram.node[i].offset = ram.node[ram.node[i].prev].offset + ram.node[ram.node[i].prev].size
            /\ ram.node[i].used \/ ram.node[ram.node[i].prev].used
       /\ \A i \in B : ram.node[i].prev = None => ram.node[i].offset = 0
  BY <1>2, <1>5, <1>6, <1>8
<1>12. /\ \A i \in B : ram.node[i].next # None =>
            /\ ram.node[i].next \in B
            /\ ram.node[ram.node[i].next].offset = ram.node[i].offset + ram.node[i].size
            /\ ram.node[i].used \/ ram.node[ram.node[i].next].used
       /\ \A i \in B : ram.node[i].next = None => ram.node[i].offset + ram.node[i].size = Capacity
  BY <1>2, <1>5, <1>6, <1>7
<1>13. \A c \in Nat : c < Capacity => \E i \in B :
         ram.node[i].offset <= c /\ c < ram.node[i].offset + ram.node[i].size
  BY <1>2, <1>9
<1>14. \A i, j \in B : k[i] = k[j] => i = j
  BY <1>4
<1>15. Laid(N, B, k)
  BY <1>10, <1>11, <1>12, <1>13, <1>14, Zenon DEF Laid
<1> QED BY <1>15

LEMMA TakenCells ==
    ASSUME NEW N \in Nat, NEW B, Sound(ram, N, B), Held(ram, live, B)
    PROVE  /\ \A c : c \in Blocked!Taken <=>
                /\ c \in Nat
                /\ \E j \in B : /\ ram.node[j].used /\ ram.node[j].offset <= c
                                /\ c < ram.node[j].offset + ram.node[j].size
           /\ \A c : c \in Blocked!Cuts <=>
                \E j \in B : ram.node[j].used /\ ram.node[j].size = 0 /\ ram.node[j].offset = c
<1>1. /\ \A e \in live : /\ e.id \in B /\ ram.node[e.id].used
                         /\ ram.node[e.id].offset = e.offset /\ ram.node[e.id].size = e.size
                         /\ e.offset \in Nat /\ e.size \in Nat
      /\ \A i \in B : ram.node[i].used => \E e \in live : e.id = i
  BY MiniramAssumption DEF Held, Entries
<1>2. Blocked!Taken = UNION {e.offset .. e.offset + e.size - 1 : e \in live}
  BY Zenon DEF Blocked!Taken, Blocked!Cells
<1>3. Blocked!Cuts = {e.offset : e \in {b \in live : b.size = 0}}
  BY Zenon DEF Blocked!Cuts
<1>4. ASSUME NEW c
      PROVE  c \in Blocked!Taken <=>
                /\ c \in Nat
                /\ \E j \in B : /\ ram.node[j].used /\ ram.node[j].offset <= c
                                /\ c < ram.node[j].offset + ram.node[j].size
  <2>1. c \in Blocked!Taken <=> \E e \in live : c \in e.offset .. e.offset + e.size - 1
    BY <1>2
  <2>2. \A e \in live : c \in e.offset .. e.offset + e.size - 1 <=>
          c \in Nat /\ e.offset <= c /\ c < e.offset + e.size
    BY <1>1
  <2>3. (\E e \in live : c \in Nat /\ e.offset <= c /\ c < e.offset + e.size) <=>
          /\ c \in Nat
          /\ \E j \in B : /\ ram.node[j].used /\ ram.node[j].offset <= c
                          /\ c < ram.node[j].offset + ram.node[j].size
    BY <1>1
  <2> QED BY <2>1, <2>2, <2>3
<1>5. ASSUME NEW c
      PROVE  c \in Blocked!Cuts <=>
               \E j \in B : ram.node[j].used /\ ram.node[j].size = 0 /\ ram.node[j].offset = c
  <2>1. c \in Blocked!Cuts <=> \E e \in live : e.size = 0 /\ e.offset = c
    BY <1>3
  <2> QED BY <1>1, <2>1
<1> QED BY <1>4, <1>5, Zenon

(* The end of the gap that a free block is.                                *)
LEMMA GapEnds ==
    ASSUME NEW N \in Nat, NEW B, Sound(ram, N, B), Held(ram, live, B), NEW i \in Open(ram, B),
           NEW c, c = ram.node[i].offset
    PROVE  /\ c \in 0 .. Capacity - 1 /\ c \notin Blocked!Taken
           /\ c = 0 \/ c - 1 \in Blocked!Taken \/ c \in Blocked!Cuts
           /\ Min({e \in {Capacity} \cup Blocked!Taken \cup Blocked!Cuts : e > c})
                = c + ram.node[i].size
<1> DEFINE T == Blocked!Taken
           C == Blocked!Cuts
           o(j) == ram.node[j].offset
           s(j) == ram.node[j].size
           u(j) == ram.node[j].used
           E == {e \in {Capacity} \cup T \cup C : e > c}
<1>1. PICK k : Laid(N, B, k)
  BY LaidOut
<1>2. /\ \A j \in B : k[j] \in Nat /\ o(j) \in Nat /\ s(j) \in Nat /\ o(j) + s(j) <= Capacity
      /\ \A j, h \in B : k[j] = k[h] => j = h
      /\ \A j, h \in B : k[j] < k[h] => o(j) + s(j) <= o(h)
  BY <1>1 DEF Laid
<1>3. /\ \A d : d \in T <=> d \in Nat /\ \E j \in B : u(j) /\ o(j) <= d /\ d < o(j) + s(j)
      /\ \A d : d \in C <=> \E j \in B : u(j) /\ s(j) = 0 /\ o(j) = d
  BY TakenCells
<1>4. i \in B /\ ~ u(i) /\ s(i) > 0 /\ c = o(i)
  BY DEF Open, FreeOf
<1>5. /\ ram.node[i].prev # None =>
            LET y == ram.node[i].prev IN y \in B /\ c = o(y) + s(y) /\ u(y)
      /\ ram.node[i].prev = None => c = 0
      /\ ram.node[i].next # None =>
            LET y == ram.node[i].next IN y \in B /\ o(y) = c + s(i) /\ u(y)
      /\ ram.node[i].next = None => c + s(i) = Capacity
  BY <1>1, <1>4 DEF Laid
<1>6. Capacity \in Nat
  BY MiniramAssumption
<1>7. \A j \in B : j # i => o(j) + s(j) <= c \/ c + s(i) <= o(j)
  <2>1. \A j \in B : j # i => k[j] < k[i] \/ k[i] < k[j]
    BY <1>2, <1>4
  <2> QED BY <1>2, <1>4, <2>1
<1>8. \A j \in B : u(j) => j # i
  BY <1>4
<1> HIDE DEF T, C, o, s, u
<1>9. c \in Nat /\ c < Capacity /\ s(i) \in Nat /\ c + s(i) <= Capacity
  BY <1>2, <1>4, <1>6
<1>10. c \notin T
  BY <1>2, <1>3, <1>7, <1>8, <1>9, <1>4
<1>11. c = 0 \/ c - 1 \in T \/ c \in C
  <2>1. CASE ram.node[i].prev = None
    BY <1>5, <2>1
  <2>2. CASE ram.node[i].prev # None
    <3> DEFINE y == ram.node[i].prev
    <3>1. y \in B /\ c = o(y) + s(y) /\ u(y)
      BY <1>5, <2>2
    <3> HIDE DEF y
    <3>2. CASE s(y) = 0
      BY <1>2, <1>3, <3>1, <3>2
    <3>3. CASE s(y) # 0
      <4>1. c - 1 \in Nat /\ o(y) <= c - 1 /\ c - 1 < o(y) + s(y)
        BY <1>2, <3>1, <3>3
      <4> QED BY <1>3, <3>1, <4>1
    <3> QED BY <3>2, <3>3
  <2> QED BY <2>1, <2>2
<1>12. \A e \in E : e \in Nat /\ c + s(i) <= e
  <2> SUFFICES ASSUME NEW e, e \in {Capacity} \cup T \cup C, e > c
               PROVE  e \in Nat /\ c + s(i) <= e
    OBVIOUS
  <2>1. CASE e = Capacity
    BY <1>6, <1>9, <2>1
  <2>2. CASE e \in T
    <3>1. PICK j \in B : u(j) /\ o(j) <= e /\ e < o(j) + s(j)
      BY <1>3, <2>2
    <3>2. e \in Nat
      BY <1>3, <2>2
    <3> QED BY <1>2, <1>7, <1>8, <1>9, <3>1, <3>2
  <2>3. CASE e \in C
    <3>1. PICK j \in B : u(j) /\ s(j) = 0 /\ o(j) = e
      BY <1>3, <2>3
    <3> QED BY <1>2, <1>7, <1>8, <1>9, <3>1
  <2> QED BY <2>1, <2>2, <2>3
<1>13. c + s(i) \in E
  <2>1. c + s(i) > c
    BY <1>4, <1>9
  <2>2. CASE ram.node[i].next = None
    BY <1>5, <2>1, <2>2
  <2>3. CASE ram.node[i].next # None
    <3> DEFINE y == ram.node[i].next
    <3>1. y \in B /\ o(y) = c + s(i) /\ u(y)
      BY <1>5, <2>3
    <3> HIDE DEF y
    <3>2. CASE s(y) = 0
      BY <1>3, <2>1, <3>1, <3>2
    <3>3. CASE s(y) # 0
      <4>1. o(y) <= c + s(i) /\ c + s(i) < o(y) + s(y) /\ c + s(i) \in Nat
        BY <1>2, <1>9, <3>1, <3>3
      <4> QED BY <1>3, <2>1, <3>1, <4>1
    <3> QED BY <3>2, <3>3
  <2> QED BY <2>2, <2>3
<1> HIDE DEF E
<1>14. Min(E) = c + s(i)
  <2>1. E \in SUBSET Nat /\ E # {}
    BY <1>12, <1>13
  <2>2. Min(E) \in E /\ \A y \in E : Min(E) <= y
    BY <2>1, MinIs
  <2>3. Min(E) \in Nat /\ c + s(i) <= Min(E) /\ Min(E) <= c + s(i)
    BY <1>12, <1>13, <2>2
  <2> QED BY <1>9, <2>3
<1> QED BY <1>9, <1>6, <1>10, <1>11, <1>14 DEF E, T, C, s

LEMMA GapsAre ==
    ASSUME NEW N \in Nat, NEW B, Sound(ram, N, B), Held(ram, live, B)
    PROVE  Blocked!Gaps = {GapOf(ram, i) : i \in Open(ram, B)}
<1> DEFINE T == Blocked!Taken
           C == Blocked!Cuts
           starts == {c \in 0 .. Capacity - 1 : c \notin T /\ (c = 0 \/ c - 1 \in T \/ c \in C)}
           End(c) == Min({e \in {Capacity} \cup T \cup C : e > c})
           O == Open(ram, B)
<1>1. Blocked!Gaps = {[offset |-> c, size |-> End(c) - c] : c \in starts}
  <2>1. \A A : Blocked!Min(A) = Min(A)
    BY SameClasses
  <2> QED BY <2>1 DEF Blocked!Gaps
<1>2. PICK k : Laid(N, B, k)
  BY LaidOut
<1>3. \A i \in B : ram.node[i].offset \in Nat /\ ram.node[i].size \in Nat
  BY <1>2 DEF Laid
<1>4. O \subseteq B /\ \A i \in B : ~ ram.node[i].used /\ ram.node[i].size > 0 => i \in O
  BY DEF Open, FreeOf
<1>5. \A i \in O : /\ ram.node[i].offset \in starts
                   /\ End(ram.node[i].offset) = ram.node[i].offset + ram.node[i].size
  BY GapEnds
<1>6. \A i \in O : End(ram.node[i].offset) - ram.node[i].offset = ram.node[i].size
  <2> SUFFICES ASSUME NEW i \in O
               PROVE  End(ram.node[i].offset) - ram.node[i].offset = ram.node[i].size
    OBVIOUS
  <2> HIDE DEF End, O, starts
  <2>1. ram.node[i].offset \in Nat /\ ram.node[i].size \in Nat
    BY <1>3, <1>4
  <2> QED BY <1>5, <2>1
<1>7. \A c \in starts : \E i \in O : c = ram.node[i].offset
  <2> SUFFICES ASSUME NEW c \in starts PROVE \E i \in O : c = ram.node[i].offset
    OBVIOUS
  <2>1. c \in Nat /\ c < Capacity /\ c \notin T /\ (c = 0 \/ c - 1 \in T \/ c \in C)
    BY MiniramAssumption
  <2>2. PICK i \in B : ram.node[i].offset <= c /\ c < ram.node[i].offset + ram.node[i].size
    BY <1>2, <2>1 DEF Laid
  <2>3. /\ \A d : d \in T <=> /\ d \in Nat
                              /\ \E j \in B : /\ ram.node[j].used /\ ram.node[j].offset <= d
                                              /\ d < ram.node[j].offset + ram.node[j].size
        /\ \A d : d \in C <=>
             \E j \in B : ram.node[j].used /\ ram.node[j].size = 0 /\ ram.node[j].offset = d
    BY TakenCells
  <2> HIDE DEF T, C, End, starts
  <2>4. ~ ram.node[i].used /\ ram.node[i].size > 0
    BY <1>3, <2>1, <2>2, <2>3
  <2>5. i \in O
    BY <1>4, <2>4
  <2>6. \A j \in B : ram.node[j].used =>
          \/ ram.node[j].offset + ram.node[j].size <= ram.node[i].offset
          \/ ram.node[i].offset + ram.node[i].size <= ram.node[j].offset
    <3>1. /\ \A h \in B : k[h] \in Nat
          /\ \A j, h \in B : k[j] = k[h] => j = h
          /\ \A j, h \in B : k[j] < k[h] =>
               ram.node[j].offset + ram.node[j].size <= ram.node[h].offset
      BY <1>2 DEF Laid
    <3>2. \A j \in B : ram.node[j].used => k[j] < k[i] \/ k[i] < k[j]
      BY <2>4, <3>1
    <3> QED BY <3>1, <3>2
  <2>7. ASSUME ram.node[i].offset < c PROVE FALSE
    <3>1. CASE c = 0
      BY <1>3, <2>7, <3>1
    <3>2. CASE c - 1 \in T
      <4>1. PICK j \in B : /\ ram.node[j].used /\ ram.node[j].offset <= c - 1
                           /\ c - 1 < ram.node[j].offset + ram.node[j].size
        BY <2>3, <3>2
      <4>2. /\ ram.node[j].offset \in Nat /\ ram.node[j].size \in Nat
            /\ ram.node[i].offset \in Nat /\ ram.node[i].size \in Nat
        BY <1>3
      <4> QED BY <2>1, <2>2, <2>6, <2>7, <4>1, <4>2
    <3>3. CASE c \in C
      <4>1. PICK j \in B : /\ ram.node[j].used /\ ram.node[j].size = 0 /\ ram.node[j].offset = c
        BY <2>3, <3>3
      <4>2. /\ ram.node[i].offset \in Nat /\ ram.node[i].size \in Nat
        BY <1>3
      <4> QED BY <2>1, <2>2, <2>6, <2>7, <4>1, <4>2
    <3> QED BY <2>1, <3>1, <3>2, <3>3
  <2>8. c = ram.node[i].offset
    BY <1>3, <2>1, <2>2, <2>7
  <2> QED BY <2>5, <2>8
<1>8. {[offset |-> c, size |-> End(c) - c] : c \in starts}
        = {[offset |-> ram.node[i].offset, size |-> ram.node[i].size] : i \in O}
  <2> HIDE DEF End, starts, O
  <2> DEFINE f(c) == [offset |-> c, size |-> End(c) - c]
             g(i) == [offset |-> ram.node[i].offset, size |-> ram.node[i].size]
  <2>1. \A c \in starts : \E i \in O : f(c) = g(i)
    BY <1>6, <1>7
  <2>2. \A i \in O : \E c \in starts : g(i) = f(c)
    BY <1>5, <1>6
  <2>3. {f(c) : c \in starts} = {g(i) : i \in O}
    <3> HIDE DEF f, g
    <3> QED BY <2>1, <2>2
  <2> QED BY <2>3
<1> QED BY <1>1, <1>8, Zenon DEF GapOf

(* The gaps that surely serve a request, and the best of them.             *)
LEMMA FitsAre ==
    ASSUME NEW N \in Nat, NEW B, Sound(ram, N, B), Held(ram, live, B), NEW n \in Nat, n >= 1
    PROVE  /\ Blocked!GoodFit(n) = {} <=> \A b \in ram.leaf : b < CeilToFloat(n)
           /\ \A bin : bin # None /\ Found(ram, n, bin) =>
                GapOf(ram, ram.bin[bin]) \in Blocked!GoodFit(n)
<1> DEFINE F == FreeOf(ram, B)
           G == {GapOf(ram, i) : i \in Open(ram, B)}
           least == CeilToFloat(n)
           S == {gap \in G : FloorToFloat(gap.size) >= least}
           W == {FloorToFloat(gap.size) : gap \in S}
           cls(i) == FloorToFloat(ram.node[i].size)
<1>1. /\ Blocked!GoodFit(n) = {gap \in S : FloorToFloat(gap.size) = Min(W)}
  <2>1. /\ \A m : Blocked!FloorToFloat(m) = FloorToFloat(m)
        /\ \A m : Blocked!CeilToFloat(m) = CeilToFloat(m)
        /\ \A A : Blocked!Min(A) = Min(A)
    BY SameClasses
  <2>2. Blocked!Gaps = G
    BY GapsAre
  <2> HIDE DEF G
  <2>3. Blocked!Suitable(n) = S
    BY <2>1, <2>2 DEF Blocked!Suitable
  <2> HIDE DEF S
  <2> QED BY <2>1, <2>3 DEF Blocked!GoodFit
<1>2. /\ least \in Nat /\ least >= 1
  <2>1. CeilToFloat(n) \in Nat /\ FloorToFloat(0) = 0
    BY ClassType, SmallClass, Mantissa DEF FloorToFloat
  <2>2. CeilToFloat(n) <= FloorToFloat(0) => n <= 0
    BY ClassHolds
  <2> QED BY <2>1, <2>2
<1>3. \A i \in F : ram.node[i].size \in Nat /\ cls(i) \in Nat
  <2>1. PICK k : Laid(N, B, k)
    BY LaidOut
  <2>2. \A i \in F : ram.node[i].size \in Nat
    BY <2>1 DEF Laid, FreeOf
  <2> QED BY <2>2, ClassType
<1>4. \A i \in F : cls(i) >= least => i \in Open(ram, B)
  <2>1. FloorToFloat(0) = 0
    BY Mantissa DEF FloorToFloat
  <2> SUFFICES ASSUME NEW i \in F, cls(i) >= least PROVE i \in Open(ram, B)
    OBVIOUS
  <2>2. ram.node[i].size \in Nat /\ ram.node[i].size # 0
    <3> HIDE DEF least
    <3> QED BY <1>2, <1>3, <2>1
  <2> QED BY <2>2 DEF Open
<1>5. \A b \in Nat : b \in ram.leaf <=> \E i \in F : cls(i) = b
  BY LeavesAre
<1>6. \A i \in Open(ram, B) : i \in F /\ GapOf(ram, i).size = ram.node[i].size
  BY DEF Open, GapOf
<1>7. ram.leaf \subseteq Nat
  <2>1. Bins \subseteq Nat
    BY TopBinType
  <2> QED BY <2>1, ObjectFields DEF Sound
<1> HIDE DEF F, least
<1>8. /\ \A x \in W : x \in ram.leaf /\ x >= least
      /\ \A b \in ram.leaf : b >= least => b \in W
  <2>1. \A x \in W : \E i \in Open(ram, B) : x = cls(i) /\ x >= least
    BY <1>6
  <2>2. \A x \in W : x \in ram.leaf /\ x >= least
    BY <1>3, <1>5, <1>6, <2>1
  <2>3. ASSUME NEW b \in ram.leaf, b >= least PROVE b \in W
    <3>1. PICK i \in F : cls(i) = b
      BY <1>5, <1>7
    <3>2. i \in Open(ram, B)
      BY <1>4, <2>3, <3>1
    <3>3. GapOf(ram, i) \in S /\ FloorToFloat(GapOf(ram, i).size) = b
      BY <1>6, <2>3, <3>1, <3>2
    <3> QED BY <3>3
  <2> QED BY <2>2, <2>3
<1>9. W \in SUBSET Nat /\ (W = {} <=> S = {})
  BY <1>7, <1>8
<1>10. W # {} => Min(W) \in W /\ \A y \in W : Min(W) <= y
  <2> HIDE DEF W
  <2> QED BY <1>9, MinIs
<1>11. Blocked!GoodFit(n) = {} <=> \A b \in ram.leaf : b < least
  <2>1. (\A b \in ram.leaf : b < least) <=> W = {}
    <3> HIDE DEF W
    <3> QED BY <1>2, <1>7, <1>8
  <2>2. CASE W = {}
    BY <1>1, <1>9, <2>1, <2>2
  <2>3. CASE W # {}
    <3>1. PICK gap \in S : FloorToFloat(gap.size) = Min(W)
      BY <1>10, <2>3
    <3> QED BY <1>1, <2>1, <2>3, <3>1
  <2> QED BY <2>2, <2>3
<1>12. ASSUME NEW bin, bin # None, Found(ram, n, bin)
       PROVE  GapOf(ram, ram.bin[bin]) \in Blocked!GoodFit(n)
  <2> DEFINE id == ram.bin[bin]
  <2>1. /\ bin \in ram.leaf /\ bin >= least
        /\ \A b \in ram.leaf : b >= least => bin <= b
    BY <1>12 DEF Found, least
  <2>2. id \in F /\ cls(id) = bin
    BY <1>12, FoundBlock DEF F
  <2> HIDE DEF id
  <2>3. id \in Open(ram, B)
    BY <1>4, <2>1, <2>2
  <2>4. GapOf(ram, id) \in S /\ FloorToFloat(GapOf(ram, id).size) = bin
    BY <1>6, <2>1, <2>2, <2>3
  <2>5. bin \in W
    BY <2>4
  <2>6. Min(W) = bin
    <3> HIDE DEF W
    <3>1. Min(W) \in W /\ Min(W) <= bin /\ Min(W) \in Nat /\ bin \in Nat
      BY <1>7, <1>9, <1>10, <2>1, <2>5
    <3>2. bin <= Min(W)
      BY <1>8, <2>1, <3>1
    <3> QED BY <3>1, <3>2
  <2> HIDE DEF S, W
  <2> QED BY <1>1, <2>4, <2>6 DEF id
<1> QED BY <1>11, <1>12 DEF least

(* allocatable() predicts allocate(), and both refuse exactly the requests *)
(* for which the gaps between the live blocks have no good fit.            *)
THEOREM AllocatableStaysExact == Spec => []AllocatableExact
<1>1. ASSUME IInv PROVE AllocatableExact
  <2>1. PICK N, B : /\ N \in Nat /\ N >= 2 /\ N <= MaxNodes
                     /\ Sound(ram, N, B) /\ Held(ram, live, B)
    BY <1>1 DEF IInv
  <2>2. IsFiniteSet(B) /\ None \notin B /\ ram.capacity \in Nat
    BY <2>1, BlocksAre, ObjectFields DEF Sound
  <2>3. ASSUME NEW n \in 1 .. ram.capacity
        PROVE  Allocatable(ram, n) <=> AllocateResult(ram, n).id # None
    <3>1. n \in Nat /\ n >= 1
      BY <2>2
    <3>2. Allocatable(ram, n) <=> ~ \A b \in ram.leaf : b < CeilToFloat(n)
      BY <2>1, <2>2, <3>1, AllocatableIs
    <3>3. AllocateResult(ram, n).id = None <=> \A b \in ram.leaf : b < CeilToFloat(n)
      BY <2>1, <3>1, AllocateRefuses
    <3> QED BY <3>2, <3>3
  <2>4. ASSUME NEW n \in Requests \ {0}
        PROVE  AllocateResult(ram, n).id = None <=> Blocked!GoodFit(n) = {}
    <3>1. n \in Nat /\ n >= 1
      BY MiniramAssumption
    <3>2. AllocateResult(ram, n).id = None <=> \A b \in ram.leaf : b < CeilToFloat(n)
      BY <2>1, <3>1, AllocateRefuses
    <3>3. Blocked!GoodFit(n) = {} <=> \A b \in ram.leaf : b < CeilToFloat(n)
      BY <2>1, <3>1, FitsAre
    <3> QED BY <3>2, <3>3
  <2> QED BY <2>3, <2>4, Zenon DEF AllocatableExact
<1> QED BY <1>1, MiniramInvariant, PTL

-----------------------------------------------------------------------------
(* The class implements the abstract allocator.                            *)

LEMMA AllocateServes ==
    ASSUME IInv, NEW size \in Requests, Allocate(size)
    PROVE  [Blocked!BlockNext]_live
<1>1. PICK N, B : /\ N \in Nat /\ N >= 2 /\ N <= MaxNodes
                   /\ Sound(ram, N, B) /\ Held(ram, live, B)
  BY DEF IInv
<1> DEFINE result == AllocateResult(ram, size)
           block == [id |-> result.id, offset |-> result.ram.node[result.id].offset,
                     size |-> size]
<1>2. ram' = result.ram /\ live' = IF result.id = None THEN live ELSE live \cup {block}
  BY DEF Allocate
<1>3. size \in Nat
  BY MiniramAssumption
<1> HIDE DEF result
<1>4. CASE result.id = None
  BY <1>2, <1>4
<1>5. CASE result.id # None
  <2>1. PICK bin : bin # None /\ Found(ram, size, bin) /\ result.id = ram.bin[bin]
    <3>1. \/ size > ram.free /\ result.id = None
          \/ \E bin : /\ Found(ram, size, bin)
                      /\ result.id = IF bin = None THEN None ELSE ram.bin[bin]
      BY <1>1, <1>3, AllocateSearches DEF result
    <3> QED BY <1>5, <3>1
  <2> DEFINE id == result.id
  <2>2. id \in B /\ ~ ram.node[id].used
    BY <1>1, <1>3, <2>1, FoundBlock DEF FreeOf
  <2>3. result.ram.node[id].offset = ram.node[id].offset
    <3>1. PICK M \in Nat :
            /\ GrowsTo(ram, N, M)
            /\ \/ /\ result.id = None /\ Sound(result.ram, M, B)
                  /\ \A i \in B : result.ram.node[i] = ram.node[i]
               \/ /\ result.id # None
                  /\ \E C : AfterAllocation(result.ram, ram, M, B, C, result.id, size)
      BY <1>1, <1>3, AllocateSound DEF result
    <3>2. PICK C : AfterAllocation(result.ram, ram, M, B, C, id, size)
      BY <1>5, <3>1
    <3> HIDE DEF id
    <3>3. \A i \in B : result.ram.node[i].offset = ram.node[i].offset
      BY <3>2, Zenon DEF AfterAllocation
    <3> QED BY <2>2, <3>3
  <2>4. block.id = id /\ block.size = size /\ block.offset = ram.node[id].offset
    BY <2>3
  <2>5. \A e \in live : e.id \in B /\ ram.node[e.id].used
    BY <1>1 DEF Held
  <2>6. \A e \in live : e.id # block.id
    BY <2>2, <2>4, <2>5
  <2>7. live' = live \cup {block}
    BY <1>2, <1>5
  <2> HIDE DEF block
  <2>8. block \in live' \ live /\ Blocked!Grant(block)
    <3>1. Blocked!Grant(block)
      BY <2>6, <2>7 DEF Blocked!Grant
    <3> QED BY <2>6, <2>7, <3>1
  <2>9. CASE size # 0
    <3>1. GapOf(ram, id) \in Blocked!GoodFit(size)
      <4>1. size >= 1
        BY <1>3, <2>9
      <4> QED BY <1>1, <1>3, <2>1, <4>1, FitsAre
    <3>2. block.offset = GapOf(ram, id).offset
      BY <2>4 DEF GapOf
    <3> HIDE DEF id
    <3>3. \E gap \in Blocked!GoodFit(size) : block.offset = gap.offset
      BY <3>1, <3>2
    <3>4. Blocked!Serve(size)
      BY <2>4, <2>8, <3>3 DEF Blocked!Serve
    <3>5. size \in Requests \ {0}
      BY <2>9
    <3> QED BY <3>4, <3>5 DEF Blocked!BlockNext
  <2>10. CASE size = 0
    <3>1. PICK k : Laid(N, B, k)
      BY <1>1, LaidOut
    <3>2. /\ \A i \in B : /\ k[i] \in Nat /\ ram.node[i].offset \in Nat /\ ram.node[i].size \in Nat
                          /\ ram.node[i].offset + ram.node[i].size <= Capacity
          /\ \A i, j \in B : k[i] = k[j] => i = j
          /\ \A i, j \in B : k[i] < k[j] =>
               ram.node[i].offset + ram.node[i].size <= ram.node[j].offset
      BY <3>1 DEF Laid
    <3>3. block.offset \in 0 .. Capacity
      <4> HIDE DEF id
      <4> QED BY <2>2, <2>4, <3>2, MiniramAssumption
    <3>4. ASSUME NEW e \in live
          PROVE  block.offset <= e.offset \/ block.offset >= e.offset + e.size
      <4>1. /\ e.id \in B /\ ram.node[e.id].used /\ ram.node[e.id].offset = e.offset
            /\ ram.node[e.id].size = e.size
        BY <1>1 DEF Held
      <4> HIDE DEF id
      <4>2. k[e.id] < k[id] \/ k[id] < k[e.id]
        <5> DEFINE x == e.id
        <5>1. x \in B /\ x # id
          BY <2>2, <4>1, Zenon
        <5> HIDE DEF x
        <5>2. k[x] \in Nat /\ k[id] \in Nat /\ k[x] # k[id]
          BY <2>2, <3>2, <5>1
        <5>3. k[x] < k[id] \/ k[id] < k[x]
          BY <5>2
        <5> QED BY <5>3 DEF x
      <4>3. \/ e.offset + e.size <= block.offset
            \/ block.offset + ram.node[id].size <= e.offset
        BY <2>2, <2>4, <3>2, <4>1, <4>2
      <4>4. /\ e.offset \in Nat /\ e.size \in Nat /\ block.offset \in Nat
            /\ ram.node[id].size \in Nat
        BY <2>2, <2>4, <3>2, <4>1
      <4> QED BY <4>3, <4>4
    <3>5. Blocked!ServeEmpty
      BY <2>4, <2>8, <2>10, <3>3, <3>4 DEF Blocked!ServeEmpty
    <3>6. 0 \in Requests
      BY <2>10
    <3> QED BY <3>5, <3>6 DEF Blocked!BlockNext
  <2> QED BY <2>9, <2>10
<1> QED BY <1>4, <1>5

(* Seen by its clients, the class is the abstract allocator, for every     *)
(* capacity, width of the mantissa and set of requests.                    *)
THEOREM MiniramIsBlockAllocator == Spec => ImplementsBlockAllocator
<1>1. Init => Blocked!BlockInit
  BY DEF Init, Blocked!BlockInit
<1>2. IInv /\ [Next]_vars => [Blocked!BlockNext]_live
  <2> SUFFICES ASSUME IInv, [Next]_vars PROVE [Blocked!BlockNext]_live
    OBVIOUS
  <2>1. CASE UNCHANGED vars
    BY <2>1 DEF vars
  <2>2. ASSUME NEW size \in Requests, Allocate(size) PROVE [Blocked!BlockNext]_live
    BY <2>2, AllocateServes
  <2>3. ASSUME NEW block \in live, Free(block) PROVE [Blocked!BlockNext]_live
    <3>1. Blocked!GiveBack(block)
      BY <2>3 DEF Free, Blocked!GiveBack
    <3> QED BY <3>1 DEF Blocked!BlockNext
  <2>4. ASSUME NEW n \in 1 .. MaxNodes - 1, Reserve(n) PROVE [Blocked!BlockNext]_live
    BY <2>4 DEF Reserve
  <2> QED BY <2>1, <2>2, <2>3, <2>4 DEF Next
<1> QED BY <1>1, <1>2, MiniramInvariant, PTL DEF Spec, ImplementsBlockAllocator, Blocked!BlockSpec

-----------------------------------------------------------------------------
(* Lists built block by block.                                             *)

(* Induction over 0 .. n.                                                  *)
LEMMA UpTo ==
    ASSUME NEW n \in Nat, NEW T, 0 \in T, \A k \in 1 .. n : k - 1 \in T => k \in T
    PROVE  \A k \in 0 .. n : k \in T
<1> DEFINE Out == {k \in 0 .. n : k \notin T}
<1>1. ASSUME Out # {} PROVE FALSE
  <2>1. Out \in SUBSET Nat
    OBVIOUS
  <2>2. PICK k \in Out : \A i \in Out : k <= i
    <3> HIDE DEF Out
    <3> QED BY <1>1, <2>1, NatMin
  <2>3. k \in 1 .. n /\ k \notin T
    BY <2>2
  <2>4. k - 1 \in T
    BY <2>2, <2>3
  <2> QED BY <2>3, <2>4
<1> QED BY <1>1

(* What makes of a value the next one, n times.                            *)
Steppers(n, V) == [1 .. n -> [V -> V]]

(* A function on 0 .. n that is defined by its predecessor exists.         *)
LEMMA RecursionExists ==
    ASSUME NEW n \in Nat, NEW V, NEW v \in V, NEW g \in Steppers(n, V)
    PROVE  \E f \in [0 .. n -> V] :
             f[0] = v /\ \A k \in 1 .. n : f[k] = g[k][f[k - 1]]
<1> USE DEF Steppers
<1> DEFINE Built(m, f) == /\ f \in [0 .. m -> V] /\ f[0] = v
                          /\ \A k \in 1 .. m : f[k] = g[k][f[k - 1]]
           T == {m \in 0 .. n : \E f : Built(m, f)}
<1>1. 0 \in T
  <2> DEFINE h == [k \in 0 .. 0 |-> v]
  <2>1. h \in [0 .. 0 -> V] /\ h[0] = v /\ 1 .. 0 = {}
    OBVIOUS
  <2>2. Built(0, h)
    <3> HIDE DEF h
    <3> QED BY <2>1
  <2> HIDE DEF h, Built
  <2> QED BY <2>2
<1>2. ASSUME NEW m \in 1 .. n, m - 1 \in T PROVE m \in T
  <2>1. PICK f : Built(m - 1, f)
    BY <1>2
  <2> DEFINE w == g[m][f[m - 1]]
             h == [k \in 0 .. m |-> IF k = m THEN w ELSE f[k]]
  <2>2. f[m - 1] \in V /\ w \in V
    <3>1. f[m - 1] \in V
      BY <2>1
    <3> QED BY <3>1
  <2>3. ASSUME NEW k \in 1 .. m PROVE h[k] = g[k][h[k - 1]]
    <3>1. h[k - 1] = f[k - 1]
      OBVIOUS
    <3>2. CASE k = m
      BY <3>1, <3>2
    <3>3. CASE k # m
      <4>1. k \in 1 .. m - 1 /\ h[k] = f[k]
        BY <3>3
      <4> QED BY <2>1, <3>1, <4>1
    <3> QED BY <3>2, <3>3
  <2>4. h \in [0 .. m -> V] /\ h[0] = v
    <3> HIDE DEF w
    <3> QED BY <2>1, <2>2
  <2>5. Built(m, h)
    <3> HIDE DEF h
    <3> QED BY <2>3, <2>4
  <2> HIDE DEF h, Built
  <2> QED BY <2>5
<1>3. n \in T
  <2>1. \A m \in 1 .. n : m - 1 \in T => m \in T
    BY <1>2
  <2>2. \A k \in 0 .. n : k \in T
    <3> HIDE DEF T
    <3> QED BY ONLY <1>1, <2>1, n \in Nat, UpTo
  <2> QED BY <2>2
<1>4. PICK f : Built(n, f)
  BY <1>3
<1> QED BY <1>4

-----------------------------------------------------------------------------
(* Moves, done one after the other.                                        *)

MoveRecord == [src : Nat, dst : Nat, size : Nat]

LEMMA MoveFields ==
    ASSUME NEW m \in MoveRecord
    PROVE  /\ m.src \in Nat /\ m.dst \in Nat /\ m.size \in Nat
           /\ m = [src |-> m.src, dst |-> m.dst, size |-> m.size]
BY DEF MoveRecord

LEMMA MovesFields ==
    ASSUME NEW ms \in Seq(MoveRecord)
    PROVE  /\ Len(ms) \in Nat
           /\ \A i \in 1 .. Len(ms) :
                /\ ms[i] \in MoveRecord
                /\ ms[i].src \in Nat /\ ms[i].dst \in Nat /\ ms[i].size \in Nat
<1>1. \A i \in 1 .. Len(ms) : ms[i] \in MoveRecord
  OBVIOUS
<1> QED BY <1>1, MoveFields

(* x is one of the cells that m writes.                                    *)
Writes(m, x) == m.dst <= x /\ x < m.dst + m.size

(* Within a memory of cap cells, to the left, and each behind the one      *)
(* before.                                                                 *)
LeftInOrder(ms, cap) ==
    /\ ms \in Seq(MoveRecord)
    /\ \A i \in 1 .. Len(ms) : ms[i].dst <= ms[i].src /\ ms[i].src + ms[i].size <= cap
    /\ \A i, j \in 1 .. Len(ms) : i < j => ms[i].dst + ms[i].size <= ms[j].dst

(* Memories of cap cells that hold elements of X.                          *)
Memories(cap, X) == [0 .. cap - 1 -> X]

LEMMA MovedOnce ==
    ASSUME NEW cap \in Nat, NEW X, NEW c \in Memories(cap, X), NEW m \in MoveRecord,
           m.src + m.size <= cap
    PROVE  /\ Moved(c, m) \in Memories(cap, X)
           /\ \A x \in 0 .. cap - 1 :
                Moved(c, m)[x] = IF Writes(m, x) THEN c[x - m.dst + m.src] ELSE c[x]
<1> USE DEF Memories
<1>1. m.src \in Nat /\ m.dst \in Nat /\ m.size \in Nat
  BY DEF MoveRecord
<1>2. \A x \in 0 .. cap - 1 : x \in m.dst .. m.dst + m.size - 1 <=> Writes(m, x)
  BY <1>1 DEF Writes
<1>3. \A x \in 0 .. cap - 1 :
        Writes(m, x) => x - m.dst + m.src \in 0 .. cap - 1
  BY <1>1 DEF Writes
<1>4. Moved(c, m) = [x \in 0 .. cap - 1 |-> IF x \in m.dst .. m.dst + m.size - 1
                                              THEN c[x - m.dst + m.src] ELSE c[x]]
  BY DEF Moved
<1> QED BY <1>2, <1>3, <1>4

(* A cell that is written gets what its source held at first, since no     *)
(* move writes what a later one reads; the others keep what they hold.     *)
LEMMA CarriedInOrder ==
    ASSUME NEW cap \in Nat, NEW ms, LeftInOrder(ms, cap), NEW X, NEW c \in Memories(cap, X)
    PROVE  \A x \in 0 .. cap - 1 :
             /\ (\A i \in 1 .. Len(ms) : ~ Writes(ms[i], x)) => Carried(c, ms)[x] = c[x]
             /\ \A i \in 1 .. Len(ms) :
                  Writes(ms[i], x) => Carried(c, ms)[x] = c[x - ms[i].dst + ms[i].src]
<1> DEFINE n == Len(ms)
           D == 0 .. cap - 1
           V == Memories(cap, X)
           G(a) == [k \in 0 .. n |-> IF k = 0 THEN c ELSE Moved(a[k - 1], ms[k])]
           after == CHOOSE a : a = G(a)
<1>1. n \in Nat /\ \A k \in 1 .. n : ms[k] \in MoveRecord /\ ms[k].src + ms[k].size <= cap
  BY DEF LeftInOrder
<1>2. \E a : a = G(a)
  <2> DEFINE g == [k \in 1 .. n |-> [y \in V |-> Moved(y, ms[k])]]
  <2>1. g \in Steppers(n, V)
    BY <1>1, MovedOnce DEF Steppers, Memories
  <2>2. \A y \in V, k \in 1 .. n : g[k][y] = Moved(y, ms[k])
    OBVIOUS
  <2> HIDE DEF g, V
  <2>3. PICK a \in [0 .. n -> V] : a[0] = c /\ \A k \in 1 .. n : a[k] = g[k][a[k - 1]]
    <3>1. c \in V /\ n \in Nat
      BY <1>1 DEF V
    <3> HIDE DEF n
    <3> QED BY ONLY <2>1, <3>1, RecursionExists
  <2>4. ASSUME NEW k \in 1 .. n PROVE a[k] = Moved(a[k - 1], ms[k])
    <3>1. a[k - 1] \in V
      BY <2>3
    <3> QED BY <2>2, <2>3, <3>1
  <2>5. \A k \in 0 .. n : a[k] = IF k = 0 THEN c ELSE Moved(a[k - 1], ms[k])
    <3> SUFFICES ASSUME NEW k \in 0 .. n, k # 0 PROVE a[k] = Moved(a[k - 1], ms[k])
      BY <2>3
    <3> QED BY <2>4
  <2>6. a = G(a)
    BY <2>3, <2>5
  <2> QED BY <2>6
<1>3. after = G(after) /\ Carried(c, ms) = after[n]
  BY <1>2 DEF Carried
<1> HIDE DEF after
<1>4. after[0] = c /\ \A k \in 1 .. n : after[k] = Moved(after[k - 1], ms[k])
  BY <1>1, <1>3
<1> DEFINE Right(k) ==
             /\ after[k] \in V
             /\ \A x \in D :
                  /\ (\A i \in 1 .. k : ~ Writes(ms[i], x)) => after[k][x] = c[x]
                  /\ \A i \in 1 .. k :
                       Writes(ms[i], x) => after[k][x] = c[x - ms[i].dst + ms[i].src]
           T == {k \in 0 .. n : Right(k)}
<1>5. 0 \in T
  BY <1>1, <1>4
<1>6. ASSUME NEW k \in 1 .. n, k - 1 \in T PROVE k \in T
  <2> DEFINE m == ms[k]
             b == after[k - 1]
  <2>1. /\ b \in V
        /\ \A x \in D :
             /\ (\A i \in 1 .. k - 1 : ~ Writes(ms[i], x)) => b[x] = c[x]
             /\ \A i \in 1 .. k - 1 :
                  Writes(ms[i], x) => b[x] = c[x - ms[i].dst + ms[i].src]
    BY <1>6
  <2>2. /\ m \in MoveRecord /\ m.src + m.size <= cap /\ m.dst <= m.src
        /\ m.src \in Nat /\ m.dst \in Nat /\ m.size \in Nat
        /\ \A i \in 1 .. k - 1 :
             /\ ms[i].src \in Nat /\ ms[i].dst \in Nat /\ ms[i].size \in Nat
             /\ ms[i].dst + ms[i].size <= m.dst
    <3>1. \A i \in 1 .. n : ms[i].src \in Nat /\ ms[i].dst \in Nat /\ ms[i].size \in Nat
      BY <1>1 DEF MoveRecord
    <3> QED BY <1>1, <3>1 DEF LeftInOrder
  <2>3. /\ after[k] \in V
        /\ \A x \in D : after[k][x] = IF Writes(m, x) THEN b[x - m.dst + m.src] ELSE b[x]
    <3> HIDE DEF b, m
    <3>1. after[k] = Moved(b, m)
      BY <1>4 DEF b, m
    <3>2. Moved(b, m) \in V /\ \A x \in D :
            Moved(b, m)[x] = IF Writes(m, x) THEN b[x - m.dst + m.src] ELSE b[x]
      BY <2>1, <2>2, MovedOnce
    <3> QED BY ONLY <3>1, <3>2
  <2> HIDE DEF b, m
  <2>4. ASSUME NEW x \in D, Writes(m, x)
        PROVE  after[k][x] = c[x - m.dst + m.src]
    <3> DEFINE y == x - m.dst + m.src
    <3>1. y \in D /\ y >= m.dst
      <4> DEFINE src == m.src
                 dst == m.dst
                 size == m.size
      <4>1. /\ src \in Nat /\ dst \in Nat /\ size \in Nat /\ src + size <= cap /\ dst <= src
        BY <2>2
      <4>2. dst <= x /\ x < dst + size
        BY <2>4 DEF Writes
      <4> HIDE DEF src, dst, size
      <4>3. x - dst + src \in 0 .. cap - 1 /\ x - dst + src >= dst
        BY ONLY x \in D, cap \in Nat, <4>1, <4>2
      <4> QED BY <4>3 DEF src, dst
    <3> HIDE DEF y
    <3>2. ASSUME NEW i \in 1 .. k - 1 PROVE ~ Writes(ms[i], y)
      <4> DEFINE end == ms[i].dst + ms[i].size
                 dst == m.dst
      <4>1. end \in Nat /\ dst \in Nat /\ end <= dst
        <5>1. ms[i].dst \in Nat /\ ms[i].size \in Nat /\ end <= dst
          BY <2>2, ZenonT(30)
        <5>2. dst \in Nat
          BY <2>2, ZenonT(30)
        <5>3. end \in Nat
          <6> DEFINE d == ms[i].dst
                     z == ms[i].size
          <6>1. d \in Nat /\ z \in Nat
            BY ONLY <5>1
          <6> HIDE DEF d, z
          <6>2. d + z \in Nat
            BY ONLY <6>1
          <6> QED BY ONLY <6>2 DEF d, z
        <5> QED BY ONLY <5>1, <5>2, <5>3
      <4>2. y >= dst /\ y \in Nat
        BY <3>1
      <4>3. Writes(ms[i], y) => y < end
        BY ONLY Zenon DEF Writes
      <4> HIDE DEF end, dst
      <4> QED BY ONLY <4>1, <4>2, <4>3
    <3>3. b[y] = c[y]
      BY <2>1, <3>1, <3>2
    <3> QED BY <2>3, <2>4, <3>3 DEF y
  <2>5. ASSUME NEW x \in D, NEW i \in 1 .. k, Writes(ms[i], x)
        PROVE  after[k][x] = c[x - ms[i].dst + ms[i].src]
    <3>1. CASE i = k
      BY <2>4, <2>5, <3>1 DEF m
    <3>2. CASE i # k
      <4>1. i \in 1 .. k - 1
        BY <3>2
      <4>2. ~ Writes(m, x)
        BY <2>2, <2>5, <4>1 DEF Writes
      <4> QED BY <2>1, <2>3, <2>5, <4>1, <4>2
    <3> QED BY <3>1, <3>2
  <2>6. ASSUME NEW x \in D, \A i \in 1 .. k : ~ Writes(ms[i], x)
        PROVE  after[k][x] = c[x]
    <3>1. ~ Writes(m, x) /\ \A i \in 1 .. k - 1 : ~ Writes(ms[i], x)
      BY <2>6 DEF m
    <3> QED BY <2>1, <2>3, <3>1
  <2> QED BY <2>3, <2>5, <2>6
<1>7. n \in T
  <2>1. \A k \in 1 .. n : k - 1 \in T => k \in T
    BY <1>6
  <2>2. \A k \in 0 .. n : k \in T
    <3> HIDE DEF T
    <3> QED BY ONLY n \in Nat, <1>5, <2>1, UpTo
  <2> QED BY <1>1, <2>2
<1> QED BY <1>3, <1>7

-----------------------------------------------------------------------------
(* n blocks at o and of sizes z, one behind the other, and the sums S of   *)
(* the sizes.                                                              *)

Row(o, z, n, cap) ==
    /\ n \in Nat /\ cap \in Nat
    /\ \A k \in 1 .. n : o[k] \in Nat /\ z[k] \in Nat /\ o[k] + z[k] <= cap
    /\ \A j, k \in 1 .. n : j < k => o[j] + z[j] <= o[k]

Sums(S, z, n) ==
    /\ \A k \in 0 .. n : S[k] \in Nat
    /\ S[0] = 0 /\ \A k \in 1 .. n : S[k] = S[k - 1] + z[k]

(* Pushed together, a block is not behind its old place.                   *)
LEMMA RowSums ==
    ASSUME NEW o, NEW z, NEW n, NEW cap, Row(o, z, n, cap), NEW S, Sums(S, z, n)
    PROVE  /\ \A k \in 1 .. n : S[k - 1] <= o[k]
           /\ \A k \in 1 .. n : S[k] <= o[k] + z[k]
           /\ \A j, k \in 0 .. n : j <= k => S[j] <= S[k]
           /\ \A j, k \in 1 .. n : j < k => S[j] <= S[k - 1]
<1> DEFINE T == {k \in 0 .. n : /\ k > 0 => S[k - 1] <= o[k]
                                /\ \A j \in 0 .. k : S[j] <= S[k]}
<1>1. n \in Nat /\ 0 \in T
  BY DEF Row, Sums
<1>2. ASSUME NEW k \in 1 .. n, k - 1 \in T PROVE k \in T
  <2>1. /\ S[k] = S[k - 1] + z[k] /\ S[k] \in Nat /\ S[k - 1] \in Nat
        /\ z[k] \in Nat /\ o[k] \in Nat
    BY DEF Row, Sums
  <2>2. S[k - 1] <= o[k]
    <3>1. CASE k = 1
      BY <2>1, <3>1 DEF Sums
    <3>2. CASE k > 1
      <4>1. /\ k - 1 \in 1 .. n /\ S[k - 1 - 1] <= o[k - 1]
            /\ S[k - 1] = S[k - 1 - 1] + z[k - 1] /\ S[k - 1 - 1] \in Nat
            /\ o[k - 1] + z[k - 1] <= o[k] /\ z[k - 1] \in Nat /\ o[k - 1] \in Nat
        <5>1. k - 1 \in 1 .. n /\ k - 1 < k /\ k - 1 - 1 \in 0 .. n
          BY <1>1, <3>2
        <5> QED BY <1>2, <5>1 DEF Row, Sums
      <4> QED BY <2>1, <4>1
    <3> QED BY <3>1, <3>2
  <2>3. ASSUME NEW j \in 0 .. k PROVE S[j] <= S[k]
    <3>1. CASE j = k
      BY <2>1, <3>1
    <3>2. CASE j # k
      <4>1. j \in 0 .. k - 1 /\ j \in 0 .. n
        BY <1>1, <3>2
      <4>2. S[j] <= S[k - 1] /\ S[j] \in Nat
        BY <1>2, <4>1 DEF Sums
      <4> QED BY <2>1, <4>2
    <3> QED BY <3>1, <3>2
  <2> QED BY <1>1, <2>2, <2>3
<1>3. \A k \in 0 .. n : k \in T
  <2>1. \A k \in 1 .. n : k - 1 \in T => k \in T
    BY <1>2
  <2> HIDE DEF T
  <2> QED BY ONLY <1>1, <2>1, UpTo
<1>4. /\ \A k \in 1 .. n : S[k - 1] <= o[k]
      /\ \A j, k \in 0 .. n : j <= k => S[j] <= S[k]
  BY <1>1, <1>3
<1> HIDE DEF T
<1>5. \A k \in 1 .. n : S[k] <= o[k] + z[k]
  <2> SUFFICES ASSUME NEW k \in 1 .. n PROVE S[k] <= o[k] + z[k]
    OBVIOUS
  <2>1. /\ k - 1 \in 0 .. n /\ S[k] = S[k - 1] + z[k] /\ S[k - 1] \in Nat /\ S[k - 1] <= o[k]
        /\ z[k] \in Nat /\ o[k] \in Nat
    BY <1>1, <1>4 DEF Row, Sums
  <2> QED BY <2>1
<1>6. \A j, k \in 1 .. n : j < k => S[j] <= S[k - 1]
  BY <1>1, <1>4
<1> QED BY <1>4, <1>5, <1>6

(* One step of compactUsedNodes().                                         *)
Reported(o, z, S, ms, k) ==
    IF o[k] = S[k - 1] THEN ms
    ELSE IF (k > 1 /\ o[k] = o[k - 1] + z[k - 1]) /\ ms # <<>>
    THEN [ms EXCEPT ![Len(ms)].size = @ + z[k]]
    ELSE Append(ms, [src |-> o[k], dst |-> S[k - 1], size |-> z[k]])

(* Each of the first k blocks stays where it is, away from all moves, or   *)
(* lies in one move that brings it to its new place.                       *)
Carries(o, z, S, ms, j) ==
    \/ o[j] = S[j - 1] /\ \A i \in 1 .. Len(ms) : S[j] <= ms[i].dst
    \/ \E i \in 1 .. Len(ms) :
         /\ ms[i].src <= o[j] /\ o[j] + z[j] <= ms[i].src + ms[i].size
         /\ ms[i].src - ms[i].dst = o[j] - S[j - 1]

(* The moves within the first k blocks, the last one up to their end.      *)
MovesSoFar(o, z, S, ms, k) ==
    /\ ms \in Seq(MoveRecord)
    /\ \A i \in 1 .. Len(ms) :
         /\ ms[i].dst < ms[i].src
         /\ ms[i].src + ms[i].size <= o[k] + z[k] /\ ms[i].dst + ms[i].size <= S[k]
    /\ \A i, j \in 1 .. Len(ms) : i < j => ms[i].dst + ms[i].size <= ms[j].dst
    /\ \A j \in 1 .. k : Carries(o, z, S, ms, j)
    /\ (k = 0 \/ o[k] = S[k - 1]) => ms = <<>>
    /\ k > 0 /\ o[k] # S[k - 1] =>
         /\ ms # <<>>
         /\ ms[Len(ms)].src + ms[Len(ms)].size = o[k] + z[k]
         /\ ms[Len(ms)].dst + ms[Len(ms)].size = S[k]

(* A list whose last move grows.                                           *)
LEMMA LastMoveGrows ==
    ASSUME NEW ms \in Seq(MoveRecord), ms # <<>>, NEW y \in Nat
    PROVE  LET new == [ms EXCEPT ![Len(ms)].size = @ + y]
           IN  /\ new \in Seq(MoveRecord) /\ Len(new) = Len(ms) /\ Len(ms) \in 1 .. Len(ms)
               /\ \A i \in 1 .. Len(ms) : new[i].src = ms[i].src /\ new[i].dst = ms[i].dst
               /\ \A i \in 1 .. Len(ms) - 1 : new[i].size = ms[i].size
               /\ new[Len(ms)].size = ms[Len(ms)].size + y
<1> DEFINE l == Len(ms)
           new == [ms EXCEPT ![l].size = @ + y]
<1>1. l \in Nat /\ l >= 1 /\ \A i \in 1 .. l : ms[i] \in MoveRecord
  OBVIOUS
<1>2. new = [i \in 1 .. l |-> IF i = l THEN [ms[l] EXCEPT !.size = ms[l].size + y] ELSE ms[i]]
  <2>1. DOMAIN ms = 1 .. l
    OBVIOUS
  <2>2. new = [ms EXCEPT ![l] = [ms[l] EXCEPT !.size = ms[l].size + y]]
    BY <1>1
  <2> HIDE DEF new, l
  <2> QED BY <2>1, <2>2
<1>3. [ms[l] EXCEPT !.size = ms[l].size + y] = [src |-> ms[l].src, dst |-> ms[l].dst,
                                                size |-> ms[l].size + y]
  <2> DEFINE m == ms[l]
  <2>1. m \in MoveRecord
    BY <1>1
  <2> HIDE DEF m
  <2>2. m = [src |-> m.src, dst |-> m.dst, size |-> m.size]
    BY <2>1 DEF MoveRecord
  <2>3. [m EXCEPT !.size = m.size + y] = [src |-> m.src, dst |-> m.dst, size |-> m.size + y]
    BY <2>2
  <2> QED BY <2>3 DEF m
<1>4. ms[l].src \in Nat /\ ms[l].dst \in Nat /\ ms[l].size \in Nat
  <2>1. l \in 1 .. l
    BY <1>1
  <2> QED BY <2>1, MovesFields
<1> HIDE DEF new, l
<1>5. /\ new[l] \in MoveRecord /\ new[l].src = ms[l].src /\ new[l].dst = ms[l].dst
      /\ new[l].size = ms[l].size + y
  <2> DEFINE src == ms[l].src
             dst == ms[l].dst
             size == ms[l].size + y
  <2>1. l \in 1 .. l
    BY <1>1
  <2>2. new[l] = [src |-> src, dst |-> dst, size |-> size]
    BY <1>2, <1>3, <2>1
  <2>3. src \in Nat /\ dst \in Nat /\ size \in Nat
    BY <1>4
  <2> HIDE DEF src, dst, size
  <2>4. new[l] \in MoveRecord /\ new[l].src = src /\ new[l].dst = dst /\ new[l].size = size
    BY ONLY <2>2, <2>3 DEF MoveRecord
  <2> QED BY <2>4 DEF src, dst, size
<1>6. \A i \in 1 .. l : i # l => new[i] = ms[i]
  BY <1>2
<1>7. \A i \in 1 .. l : new[i] \in MoveRecord
  BY <1>1, <1>5, <1>6
<1>8. new \in Seq(MoveRecord) /\ Len(new) = l
  <2>1. new \in [1 .. l -> MoveRecord]
    BY <1>2, <1>7
  <2> QED BY <1>1, <2>1
<1> QED BY <1>1, <1>5, <1>6, <1>8 DEF l, new

LEMMA MovesStep ==
    ASSUME NEW o, NEW z, NEW n, NEW cap, Row(o, z, n, cap), NEW S, Sums(S, z, n),
           NEW k \in 1 .. n, NEW ms, MovesSoFar(o, z, S, ms, k - 1)
    PROVE  MovesSoFar(o, z, S, Reported(o, z, S, ms, k), k)
<1> DEFINE new == Reported(o, z, S, ms, k)
<1>0. /\ \A q \in 1 .. n : S[q - 1] <= o[q] /\ S[q] <= o[q] + z[q]
      /\ \A j, q \in 0 .. n : j <= q => S[j] <= S[q]
  BY RowSums
<1>1. /\ n \in Nat /\ k - 1 \in 0 .. n
      /\ o[k] \in Nat /\ z[k] \in Nat /\ S[k - 1] \in Nat /\ S[k] \in Nat
      /\ S[k] = S[k - 1] + z[k] /\ S[k - 1] <= o[k] /\ S[k] <= o[k] + z[k]
  BY <1>0 DEF Row, Sums
<1>2. /\ ms \in Seq(MoveRecord) /\ Len(ms) \in Nat
      /\ \A i \in 1 .. Len(ms) :
           /\ ms[i] \in MoveRecord /\ ms[i].src \in Nat /\ ms[i].dst \in Nat /\ ms[i].size \in Nat
           /\ ms[i].dst < ms[i].src
           /\ ms[i].src + ms[i].size <= o[k - 1] + z[k - 1]
           /\ ms[i].dst + ms[i].size <= S[k - 1]
      /\ \A i, j \in 1 .. Len(ms) : i < j => ms[i].dst + ms[i].size <= ms[j].dst
      /\ \A j \in 1 .. k - 1 : Carries(o, z, S, ms, j)
  <2>1. ms \in Seq(MoveRecord)
    BY DEF MovesSoFar
  <2>2. /\ Len(ms) \in Nat
        /\ \A i \in 1 .. Len(ms) :
             /\ ms[i] \in MoveRecord
             /\ ms[i].src \in Nat /\ ms[i].dst \in Nat /\ ms[i].size \in Nat
    BY <2>1, MovesFields
  <2>3. \A i \in 1 .. Len(ms) :
          /\ ms[i].dst < ms[i].src
          /\ ms[i].src + ms[i].size <= o[k - 1] + z[k - 1]
          /\ ms[i].dst + ms[i].size <= S[k - 1]
    BY Zenon DEF MovesSoFar
  <2>4. /\ \A i, j \in 1 .. Len(ms) : i < j => ms[i].dst + ms[i].size <= ms[j].dst
        /\ \A j \in 1 .. k - 1 : Carries(o, z, S, ms, j)
    BY Zenon DEF MovesSoFar
  <2> QED BY ONLY <2>1, <2>2, <2>3, <2>4
<1>3. k = 1 \/ o[k - 1] = S[k - 1 - 1] => ms = <<>>
  BY DEF MovesSoFar
<1>4. k > 1 /\ o[k - 1] # S[k - 1 - 1] =>
        /\ ms # <<>>
        /\ ms[Len(ms)].src + ms[Len(ms)].size = o[k - 1] + z[k - 1]
        /\ ms[Len(ms)].dst + ms[Len(ms)].size = S[k - 1]
  BY DEF MovesSoFar
<1>5. ASSUME k > 1
      PROVE  /\ k - 1 \in 1 .. n /\ o[k - 1] + z[k - 1] <= o[k]
             /\ S[k - 1] = S[k - 1 - 1] + z[k - 1] /\ S[k - 1 - 1] \in Nat
             /\ S[k - 1 - 1] <= o[k - 1] /\ o[k - 1] \in Nat /\ z[k - 1] \in Nat
  <2>1. k - 1 \in 1 .. n /\ k - 1 < k /\ k - 1 - 1 \in 0 .. n
    BY <1>1, <1>5
  <2> QED BY <1>0, <2>1 DEF Row, Sums
<1>6. \A j \in 1 .. k - 1 : S[j] <= S[k - 1] /\ S[j] \in Nat /\ o[j] \in Nat /\ z[j] \in Nat
  <2>1. \A j \in 1 .. k - 1 : j \in 0 .. n /\ j \in 1 .. n
    BY <1>1
  <2>2. \A j \in 1 .. k - 1 : S[j] <= S[k - 1]
    BY <1>0, <1>1, <2>1
  <2> QED BY <2>1, <2>2 DEF Row, Sums
<1>7. CASE o[k] = S[k - 1]
  <2>1. ms = <<>>
    <3>1. k > 1 => o[k - 1] = S[k - 1 - 1]
      BY <1>1, <1>5, <1>7
    <3> QED BY <1>3, <3>1
  <2>2. new = <<>> /\ Len(<<>>) = 0
    BY <1>7, <2>1 DEF Reported
  <2>3. \A j \in 1 .. k - 1 : o[j] = S[j - 1]
    BY <1>2, <2>1, <2>2 DEF Carries
  <2>4. \A j \in 1 .. k : Carries(o, z, S, <<>>, j)
    BY <1>1, <1>7, <2>2, <2>3 DEF Carries
  <2> HIDE DEF new
  <2> QED BY <1>7, <2>2, <2>4 DEF MovesSoFar, new
<1>8. CASE o[k] # S[k - 1] /\ ((k > 1 /\ o[k] = o[k - 1] + z[k - 1]) /\ ms # <<>>)
  <2> DEFINE l == Len(ms)
  <2>1. /\ new \in Seq(MoveRecord) /\ Len(new) = l /\ l \in 1 .. l
        /\ \A i \in 1 .. l : new[i].src = ms[i].src /\ new[i].dst = ms[i].dst
        /\ \A i \in 1 .. l - 1 : new[i].size = ms[i].size
        /\ new[l].size = ms[l].size + z[k]
    <3>1. new = [ms EXCEPT ![Len(ms)].size = @ + z[k]]
      BY <1>8 DEF Reported
    <3>2. ms \in Seq(MoveRecord) /\ ms # <<>> /\ z[k] \in Nat
      BY <1>1, <1>2, <1>8
    <3> HIDE DEF new
    <3> QED BY ONLY <3>1, <3>2, LastMoveGrows
  <2> HIDE DEF new, l
  <2>2. ms[l].src + ms[l].size = o[k] /\ ms[l].dst + ms[l].size = S[k - 1]
    BY <1>3, <1>4, <1>8 DEF l
  <2>3. /\ l \in Nat /\ l \in 1 .. l
        /\ \A i \in 1 .. l : ms[i].src \in Nat /\ ms[i].dst \in Nat /\ ms[i].size \in Nat
    BY <1>2, <2>1 DEF l
  <2>4. new[l].src + new[l].size = o[k] + z[k] /\ new[l].dst + new[l].size = S[k]
    <3> DEFINE src == ms[l].src
               dst == ms[l].dst
               size == ms[l].size
               x == o[k]
               y == z[k]
               s == S[k - 1]
               e == S[k]
    <3>1. /\ src \in Nat /\ dst \in Nat /\ size \in Nat /\ x \in Nat /\ y \in Nat /\ s \in Nat
          /\ e = s + y /\ src + size = x /\ dst + size = s
      BY <1>1, <2>2, <2>3
    <3>2. new[l].src = src /\ new[l].dst = dst /\ new[l].size = size + y
      BY <2>1, <2>3
    <3> HIDE DEF src, dst, size, x, y, s, e
    <3>3. src + (size + y) = x + y /\ dst + (size + y) = e
      BY ONLY <3>1
    <3> QED BY <3>2, <3>3 DEF x, y, e
  <2>5. ASSUME NEW i \in 1 .. l
        PROVE  /\ new[i].dst < new[i].src
               /\ new[i].src + new[i].size <= o[k] + z[k] /\ new[i].dst + new[i].size <= S[k]
    <3>1. CASE i = l
      BY <1>1, <1>2, <2>1, <2>3, <2>4, <3>1 DEF l
    <3>2. CASE i # l
      <4>1. i \in 1 .. l - 1
        BY <2>3, <3>2
      <4>2. new[i].src = ms[i].src /\ new[i].dst = ms[i].dst /\ new[i].size = ms[i].size
        BY <2>1, <4>1
      <4>3. /\ ms[i].dst < ms[i].src /\ ms[i].src + ms[i].size <= o[k - 1] + z[k - 1]
            /\ ms[i].dst + ms[i].size <= S[k - 1]
        BY <1>2 DEF l
      <4>4. o[k - 1] + z[k - 1] = o[k]
        BY <1>8
      <4>5. ms[i].src + ms[i].size <= o[k] + z[k]
        BY <1>1, <2>3, <4>3, <4>4
      <4>6. ms[i].dst + ms[i].size <= S[k]
        BY <1>1, <2>3, <4>3
      <4> QED BY <4>2, <4>3, <4>5, <4>6
    <3> QED BY <3>1, <3>2
  <2>6. ASSUME NEW i \in 1 .. l, NEW j \in 1 .. l, i < j
        PROVE  new[i].dst + new[i].size <= new[j].dst
    <3>1. i \in 1 .. l - 1
      BY <2>3, <2>6
    <3>2. ms[i].dst + ms[i].size <= ms[j].dst
      BY <1>2, <2>6 DEF l
    <3> QED BY <2>1, <3>1, <3>2
  <2>7. \A i \in 1 .. l : new[i].size \in Nat /\ ms[i].size <= new[i].size
    <3> SUFFICES ASSUME NEW i \in 1 .. l PROVE new[i].size \in Nat /\ ms[i].size <= new[i].size
      OBVIOUS
    <3>1. i = l \/ i \in 1 .. l - 1
      BY <2>3
    <3>2. new[i].size = ms[i].size \/ new[i].size = ms[i].size + z[k]
      BY <2>1, <3>1
    <3>3. ms[i].size \in Nat /\ z[k] \in Nat
      BY <1>1, <2>3
    <3> QED BY <3>2, <3>3
  <2>8. ASSUME NEW j \in 1 .. k PROVE Carries(o, z, S, new, j)
    <3>1. CASE j = k
      <4>1. /\ new[l].src <= o[k] /\ o[k] + z[k] <= new[l].src + new[l].size
            /\ new[l].src - new[l].dst = o[k] - S[k - 1]
        <5>1. /\ ms[l].src \in Nat /\ ms[l].dst \in Nat /\ ms[l].size \in Nat
              /\ new[l].src = ms[l].src /\ new[l].dst = ms[l].dst
          BY <2>1, <2>3
        <5>2. o[k] + z[k] = new[l].src + new[l].size
          BY <2>4
        <5> QED BY <1>1, <2>2, <5>1, <5>2
      <4> QED BY <2>1, <3>1, <4>1 DEF Carries
    <3>2. CASE j # k
      <4>1. j \in 1 .. k - 1 /\ Carries(o, z, S, ms, j)
        BY <1>1, <1>2, <3>2
      <4>2. CASE o[j] = S[j - 1] /\ \A i \in 1 .. Len(ms) : S[j] <= ms[i].dst
        BY <2>1, <4>2 DEF Carries, l
      <4>3. CASE \E i \in 1 .. Len(ms) :
                   /\ ms[i].src <= o[j] /\ o[j] + z[j] <= ms[i].src + ms[i].size
                   /\ ms[i].src - ms[i].dst = o[j] - S[j - 1]
        <5>1. PICK i \in 1 .. l :
                   /\ ms[i].src <= o[j] /\ o[j] + z[j] <= ms[i].src + ms[i].size
                   /\ ms[i].src - ms[i].dst = o[j] - S[j - 1]
          BY <4>3 DEF l
        <5>2. new[i].src = ms[i].src /\ new[i].dst = ms[i].dst
          BY <2>1
        <5>3. o[j] + z[j] <= new[i].src + new[i].size
          BY <1>6, <2>3, <2>7, <4>1, <5>1, <5>2
        <5> QED BY <2>1, <5>1, <5>2, <5>3 DEF Carries
      <4> QED BY <4>1, <4>2, <4>3 DEF Carries
    <3> QED BY <3>1, <3>2
  <2>9. new # <<>>
    BY <2>1, <2>3
  <2> QED BY <1>1, <1>8, <2>1, <2>4, <2>5, <2>6, <2>8, <2>9 DEF MovesSoFar, new
<1>9. CASE o[k] # S[k - 1] /\ ~ ((k > 1 /\ o[k] = o[k - 1] + z[k - 1]) /\ ms # <<>>)
  <2> DEFINE l == Len(ms)
             m == [src |-> o[k], dst |-> S[k - 1], size |-> z[k]]
  <2>1. new = Append(ms, m) /\ m \in MoveRecord
    BY <1>1, <1>9 DEF Reported, MoveRecord
  <2>2. /\ new \in Seq(MoveRecord) /\ Len(new) = l + 1 /\ new[l + 1] = m
        /\ \A i \in 1 .. l : new[i] = ms[i]
    <3> HIDE DEF new, m
    <3> QED BY <1>2, <2>1
  <2>3. new[l + 1].src = o[k] /\ new[l + 1].dst = S[k - 1] /\ new[l + 1].size = z[k]
    BY <2>2
  <2> HIDE DEF new, l, m
  <2>4. /\ l \in Nat /\ \A i \in 1 .. l + 1 : i = l + 1 \/ i \in 1 .. l
        /\ \A i \in 1 .. l : i \in 1 .. l + 1
    BY <1>2 DEF l
  <2>5. ASSUME NEW i \in 1 .. l
        PROVE  /\ new[i] = ms[i] /\ ms[i].dst < ms[i].src
               /\ ms[i].src + ms[i].size <= o[k] + z[k] /\ ms[i].dst + ms[i].size <= S[k - 1]
               /\ ms[i].src \in Nat /\ ms[i].dst \in Nat /\ ms[i].size \in Nat
    <3>1. k > 1
      <4>1. ms # <<>>
        BY <2>4 DEF l
      <4> QED BY <1>1, <1>3, <4>1
    <3>2. /\ ms[i].src \in Nat /\ ms[i].dst \in Nat /\ ms[i].size \in Nat
          /\ ms[i].dst < ms[i].src /\ ms[i].src + ms[i].size <= o[k - 1] + z[k - 1]
          /\ ms[i].dst + ms[i].size <= S[k - 1]
      BY <1>2 DEF l
    <3>3. ms[i].src + ms[i].size <= o[k] + z[k]
      BY <1>1, <1>5, <3>1, <3>2
    <3> QED BY <2>2, <3>2, <3>3
  <2>6. \A i \in 1 .. l + 1 :
          /\ new[i].dst < new[i].src
          /\ new[i].src + new[i].size <= o[k] + z[k] /\ new[i].dst + new[i].size <= S[k]
    <3> SUFFICES ASSUME NEW i \in 1 .. l + 1
                 PROVE  /\ new[i].dst < new[i].src
                        /\ new[i].src + new[i].size <= o[k] + z[k]
                        /\ new[i].dst + new[i].size <= S[k]
      OBVIOUS
    <3>1. CASE i = l + 1
      BY <1>1, <1>9, <2>3, <3>1
    <3>2. CASE i \in 1 .. l
      BY <1>1, <2>5, <3>2
    <3> QED BY <2>4, <3>1, <3>2
  <2>7. ASSUME NEW i \in 1 .. l + 1, NEW j \in 1 .. l + 1, i < j
        PROVE  new[i].dst + new[i].size <= new[j].dst
    <3>1. i \in 1 .. l
      BY <2>4, <2>7
    <3>2. CASE j = l + 1
      BY <2>3, <2>5, <3>1, <3>2
    <3>3. CASE j \in 1 .. l
      BY <1>2, <2>5, <2>7, <3>1, <3>3 DEF l
    <3> QED BY <2>4, <3>2, <3>3
  <2>8. ASSUME NEW j \in 1 .. k PROVE Carries(o, z, S, new, j)
    <3>1. CASE j = k
      <4>1. /\ new[l + 1].src <= o[k] /\ o[k] + z[k] <= new[l + 1].src + new[l + 1].size
            /\ new[l + 1].src - new[l + 1].dst = o[k] - S[k - 1]
            /\ l + 1 \in 1 .. l + 1
        BY <1>1, <2>3, <2>4
      <4> QED BY <2>2, <3>1, <4>1 DEF Carries
    <3>2. CASE j # k
      <4>1. j \in 1 .. k - 1 /\ Carries(o, z, S, ms, j)
        BY <1>1, <1>2, <3>2
      <4>2. CASE o[j] = S[j - 1] /\ \A i \in 1 .. Len(ms) : S[j] <= ms[i].dst
        <5>1. \A i \in 1 .. l + 1 : S[j] <= new[i].dst
          BY <1>6, <2>3, <2>4, <2>5, <4>1, <4>2 DEF l
        <5> QED BY <2>2, <4>2, <5>1 DEF Carries
      <4>3. CASE \E i \in 1 .. Len(ms) :
                   /\ ms[i].src <= o[j] /\ o[j] + z[j] <= ms[i].src + ms[i].size
                   /\ ms[i].src - ms[i].dst = o[j] - S[j - 1]
        BY <2>2, <2>4, <2>5, <4>3 DEF Carries, l
      <4> QED BY <4>1, <4>2, <4>3 DEF Carries
    <3> QED BY <3>1, <3>2
  <2>9. new # <<>>
    BY <2>2, <2>4
  <2> QED BY <1>1, <1>9, <2>2, <2>3, <2>6, <2>7, <2>8, <2>9 DEF MovesSoFar, new
<1> QED BY <1>7, <1>8, <1>9

(* The sums that compactUsedNodes() keeps.                                 *)
LEMMA SizeBeforeSums ==
    ASSUME NEW r, NEW order, NEW n \in Nat, n = Len(order), NEW z,
           \A k \in 1 .. n : z[k] \in Nat /\ z[k] = r.node[order[k]].size
    PROVE  Sums([k \in 0 .. n |-> SizeBefore(r, order, k)], z, n)
<1> DEFINE G(a) == [i \in 0 .. n |-> IF i = 0 THEN 0 ELSE a[i - 1] + r.node[order[i]].size]
           sum == CHOOSE a : a = G(a)
           g == [k \in 1 .. n |-> [y \in Nat |-> y + z[k]]]
           S == [k \in 0 .. n |-> SizeBefore(r, order, k)]
           V == Nat
<1>1. g \in Steppers(n, V)
  BY DEF Steppers
<1>2. \A k \in 1 .. n, y \in Nat : g[k][y] = y + z[k]
  OBVIOUS
<1> HIDE DEF g
<1>3. PICK a \in [0 .. n -> V] : a[0] = 0 /\ \A k \in 1 .. n : a[k] = g[k][a[k - 1]]
  <2> DEFINE zero == 0
  <2>1. zero \in V
    OBVIOUS
  <2> HIDE DEF V, zero
  <2>2. \E b \in [0 .. n -> V] : b[0] = zero /\ \A k \in 1 .. n : b[k] = g[k][b[k - 1]]
    BY ONLY n \in Nat, <1>1, <2>1, RecursionExists
  <2> QED BY <2>2 DEF zero
<1>4. a = G(a)
  <2>1. \A k \in 0 .. n : a[k] = IF k = 0 THEN 0 ELSE a[k - 1] + r.node[order[k]].size
    <3> SUFFICES ASSUME NEW k \in 0 .. n, k # 0 PROVE a[k] = a[k - 1] + r.node[order[k]].size
      BY <1>3
    <3>1. k \in 1 .. n /\ k - 1 \in 0 .. n
      OBVIOUS
    <3>2. a[k - 1] \in Nat /\ a[k] = g[k][a[k - 1]]
      BY <1>3, <3>1
    <3>3. g[k][a[k - 1]] = a[k - 1] + z[k]
      BY <1>2, <3>1, <3>2
    <3> QED BY <3>1, <3>2, <3>3
  <2> QED BY <1>3, <2>1
<1>5. sum = G(sum) /\ \A k \in 0 .. n : S[k] = sum[k]
  <2>1. sum = G(sum)
    BY <1>4
  <2>2. \A k \in 0 .. n : SizeBefore(r, order, k) = sum[k]
    BY DEF SizeBefore
  <2> HIDE DEF sum
  <2> QED BY <2>1, <2>2
<1> HIDE DEF sum, S
<1>6. S[0] = 0 /\ \A k \in 1 .. n : S[k] = S[k - 1] + z[k]
  <2>1. S[0] = 0
    BY <1>5
  <2>2. ASSUME NEW k \in 1 .. n PROVE S[k] = S[k - 1] + z[k]
    <3>1. k \in 0 .. n /\ k - 1 \in 0 .. n /\ k # 0
      OBVIOUS
    <3>2. sum[k] = sum[k - 1] + r.node[order[k]].size
      BY <1>5, <3>1
    <3> QED BY <1>5, <3>1, <3>2
  <2> QED BY <2>1, <2>2
<1>7. \A k \in 0 .. n : S[k] \in Nat
  <2> DEFINE T == {k \in 0 .. n : S[k] \in Nat}
  <2>1. 0 \in T
    BY <1>6
  <2>2. \A k \in 1 .. n : k - 1 \in T => k \in T
    BY <1>6
  <2>3. \A k \in 0 .. n : k \in T
    <3> HIDE DEF T
    <3> QED BY ONLY n \in Nat, <2>1, <2>2, UpTo
  <2> QED BY <2>3
<1> QED BY <1>6, <1>7 DEF Sums, S

LEMMA ReportedType ==
    ASSUME NEW o, NEW z, NEW S, NEW k, o[k] \in Nat, S[k - 1] \in Nat, z[k] \in Nat,
           NEW ms \in Seq(MoveRecord)
    PROVE  Reported(o, z, S, ms, k) \in Seq(MoveRecord)
<1> DEFINE m == [src |-> o[k], dst |-> S[k - 1], size |-> z[k]]
<1>1. m \in MoveRecord
  BY DEF MoveRecord
<1>2. Append(ms, m) \in Seq(MoveRecord)
  <2> HIDE DEF m
  <2> QED BY <1>1
<1>3. ASSUME ms # <<>> PROVE [ms EXCEPT ![Len(ms)].size = @ + z[k]] \in Seq(MoveRecord)
  BY <1>3, LastMoveGrows
<1> QED BY <1>2, <1>3 DEF Reported

(* The offsets and sizes of the nodes of order, and where each is put.     *)
OffsetsIn(r, order) == [k \in 1 .. Len(order) |-> r.node[order[k]].offset]

SizesIn(r, order) == [k \in 1 .. Len(order) |-> r.node[order[k]].size]

StartsIn(r, order) == [k \in 0 .. Len(order) |-> SizeBefore(r, order, k)]

(* What compactUsedNodes() reports.                                        *)
LEMMA MovesReported ==
    ASSUME NEW r, NEW order, NEW cap,
           Row(OffsetsIn(r, order), SizesIn(r, order), Len(order), cap),
           Sums(StartsIn(r, order), SizesIn(r, order), Len(order))
    PROVE  MovesSoFar(OffsetsIn(r, order), SizesIn(r, order), StartsIn(r, order),
                      Moves(r, order), Len(order))
<1> DEFINE n == Len(order)
           o == OffsetsIn(r, order)
           z == SizesIn(r, order)
           S == StartsIn(r, order)
<1>0. /\ n = Len(order) /\ Row(o, z, n, cap) /\ Sums(S, z, n)
      /\ \A k \in 1 .. n : o[k] = r.node[order[k]].offset /\ z[k] = r.node[order[k]].size
      /\ \A k \in 0 .. n : S[k] = SizeBefore(r, order, k)
  BY DEF OffsetsIn, SizesIn, StartsIn
<1> HIDE DEF n, o, z, S
<1> DEFINE V == Seq(MoveRecord)
           G(a) == [k \in 0 .. n |-> IF k = 0 THEN <<>> ELSE NextMove(r, order, a[k - 1], k)]
           moves == CHOOSE a : a = G(a)
           g == [k \in 1 .. n |-> [ms \in V |-> Reported(o, z, S, ms, k)]]
<1>1. n \in Nat /\ \A k \in 1 .. n : o[k] \in Nat /\ z[k] \in Nat /\ S[k - 1] \in Nat
  <2>1. n \in Nat /\ \A k \in 1 .. n : k - 1 \in 0 .. n
    BY <1>0 DEF Row
  <2> QED BY <1>0, <2>1 DEF Row, Sums
<1>2. g \in Steppers(n, V)
  <2>1. \A k \in 1 .. n, ms \in V : Reported(o, z, S, ms, k) \in V
    BY <1>1, ReportedType
  <2> HIDE DEF V
  <2> QED BY <2>1 DEF Steppers
<1>3. \A k \in 1 .. n, ms \in V : g[k][ms] = Reported(o, z, S, ms, k)
  <2> HIDE DEF V
  <2> QED OBVIOUS
<1> HIDE DEF g
<1>4. PICK a \in [0 .. n -> V] : a[0] = <<>> /\ \A k \in 1 .. n : a[k] = g[k][a[k - 1]]
  <2>1. <<>> \in V
    OBVIOUS
  <2> HIDE DEF V
  <2> QED BY ONLY <1>1, <1>2, <2>1, RecursionExists
<1>5. \A k \in 1 .. n : \A ms : NextMove(r, order, ms, k) = Reported(o, z, S, ms, k)
  <2> SUFFICES ASSUME NEW k \in 1 .. n, NEW ms
               PROVE  NextMove(r, order, ms, k) = Reported(o, z, S, ms, k)
    OBVIOUS
  <2>1. /\ r.node[order[k]].offset = o[k] /\ r.node[order[k]].size = z[k]
        /\ SizeBefore(r, order, k - 1) = S[k - 1]
    <3>1. k - 1 \in 0 .. n
      BY <1>1
    <3> QED BY <1>0, <3>1
  <2>2. k > 1 => /\ r.node[order[k - 1]].offset = o[k - 1]
                 /\ r.node[order[k - 1]].size = z[k - 1]
    <3>1. k > 1 => k - 1 \in 1 .. n
      BY <1>1
    <3> QED BY <1>0, <3>1
  <2>3. (k > 1 /\ r.node[order[k]].offset
                  = r.node[order[k - 1]].offset + r.node[order[k - 1]].size)
        <=> (k > 1 /\ o[k] = o[k - 1] + z[k - 1])
    BY <2>1, <2>2
  <2>4. Move(o[k], S[k - 1], z[k]) = [src |-> o[k], dst |-> S[k - 1], size |-> z[k]]
    BY DEF Move
  <2> DEFINE src == r.node[order[k]].offset
             size == r.node[order[k]].size
             dst == SizeBefore(r, order, k - 1)
             C == k > 1 /\ r.node[order[k]].offset
                            = r.node[order[k - 1]].offset + r.node[order[k - 1]].size
  <2>5. NextMove(r, order, ms, k) = IF src = dst THEN ms
          ELSE IF C /\ ms # <<>> THEN [ms EXCEPT ![Len(ms)].size = @ + size]
          ELSE Append(ms, Move(src, dst, size))
    BY ONLY Zenon DEF NextMove
  <2> HIDE DEF src, size, dst, C
  <2>6. src = o[k] /\ size = z[k] /\ dst = S[k - 1] /\ (C <=> (k > 1 /\ o[k] = o[k - 1] + z[k - 1]))
    BY ONLY <2>1, <2>3 DEF src, size, dst, C
  <2>7. CASE src = dst
    BY ONLY <2>5, <2>6, <2>7 DEF Reported
  <2>8. CASE src # dst /\ C /\ ms # <<>>
    <3>1. NextMove(r, order, ms, k) = [ms EXCEPT ![Len(ms)].size = @ + size]
      BY ONLY <2>5, <2>8, Zenon
    <3>2. Reported(o, z, S, ms, k) = [ms EXCEPT ![Len(ms)].size = @ + z[k]]
      BY ONLY <2>6, <2>8, Zenon DEF Reported
    <3> QED BY ONLY <2>6, <3>1, <3>2
  <2>9. CASE src # dst /\ ~ (C /\ ms # <<>>)
    <3>1. NextMove(r, order, ms, k) = Append(ms, Move(src, dst, size))
      BY ONLY <2>5, <2>9, Zenon
    <3>2. Reported(o, z, S, ms, k)
            = Append(ms, [src |-> o[k], dst |-> S[k - 1], size |-> z[k]])
      <4>1. o[k] # S[k - 1] /\ ~ ((k > 1 /\ o[k] = o[k - 1] + z[k - 1]) /\ ms # <<>>)
        BY ONLY <2>6, <2>9
      <4> QED BY ONLY <4>1, Zenon DEF Reported
    <3> QED BY ONLY <2>4, <2>6, <3>1, <3>2
  <2> QED BY ONLY <2>7, <2>8, <2>9
<1>6. a = G(a)
  <2>1. \A k \in 0 .. n : a[k] = IF k = 0 THEN <<>> ELSE NextMove(r, order, a[k - 1], k)
    <3> SUFFICES ASSUME NEW k \in 0 .. n, k # 0 PROVE a[k] = NextMove(r, order, a[k - 1], k)
      BY <1>4
    <3>1. k \in 1 .. n /\ a[k - 1] \in V
      <4> HIDE DEF V
      <4>1. k \in 1 .. n /\ k - 1 \in 0 .. n
        BY ONLY <1>1, k \in 0 .. n, k # 0
      <4> QED BY ONLY <1>4, <4>1
    <3>2. a[k] = Reported(o, z, S, a[k - 1], k)
      <4> HIDE DEF V
      <4>1. a[k] = g[k][a[k - 1]]
        BY ONLY <1>4, <3>1
      <4>2. g[k][a[k - 1]] = Reported(o, z, S, a[k - 1], k)
        BY ONLY <1>3, <3>1
      <4> QED BY ONLY <4>1, <4>2
    <3>3. NextMove(r, order, a[k - 1], k) = Reported(o, z, S, a[k - 1], k)
      BY ONLY <1>5, <3>1
    <3> QED BY ONLY <3>2, <3>3
  <2> HIDE DEF V
  <2> QED BY <1>4, <2>1
<1>7. moves = G(moves) /\ Moves(r, order) = moves[n]
  BY <1>0, <1>6 DEF Moves
<1> HIDE DEF moves
<1> DEFINE T == {k \in 0 .. n : MovesSoFar(o, z, S, moves[k], k)}
<1>8. 0 \in T
  <2>1. moves[0] = <<>> /\ Len(<<>>) = 0 /\ <<>> \in Seq(MoveRecord)
    BY <1>1, <1>7
  <2>2. MovesSoFar(o, z, S, <<>>, 0)
    BY <2>1 DEF MovesSoFar
  <2> QED BY <1>1, <2>1, <2>2
<1>9. ASSUME NEW k \in 1 .. n, k - 1 \in T PROVE k \in T
  <2>1. k \in 0 .. n /\ k # 0
    OBVIOUS
  <2>2. moves[k] = Reported(o, z, S, moves[k - 1], k)
    BY <1>5, <1>7, <2>1
  <2>3. MovesSoFar(o, z, S, moves[k - 1], k - 1)
    BY <1>9
  <2>4. MovesSoFar(o, z, S, Reported(o, z, S, moves[k - 1], k), k)
    BY <1>0, <2>3, MovesStep
  <2> QED BY <2>1, <2>2, <2>4
<1>10. n \in T
  <2>1. \A k \in 1 .. n : k - 1 \in T => k \in T
    BY <1>9
  <2>2. \A k \in 0 .. n : k \in T
    <3> HIDE DEF T
    <3> QED BY ONLY <1>1, <1>8, <2>1, UpTo
  <2> QED BY <1>1, <2>2
<1> QED BY <1>7, <1>10 DEF n, o, z, S

-----------------------------------------------------------------------------
(* The pieces of a move.                                                   *)

LEMMA Multiples ==
    ASSUME NEW c \in Nat
    PROVE  /\ \A i \in Nat : i * c \in Nat
           /\ \A i \in Nat : (i + 1) * c = i * c + c
           /\ \A i, j \in Nat : i <= j => i * c <= j * c
<1>1. \A i \in Nat : i * c \in Nat
  OBVIOUS
<1>2. \A i \in Nat : (i + 1) * c = i * c + c
  OBVIOUS
<1>3. \A i, j \in Nat : i <= j => i * c <= j * c
  BY Times
<1> QED BY <1>1, <1>2, <1>3

(* p is a part of the move m.                                              *)
PartOf(p, m) ==
    /\ m.dst <= p.dst /\ p.dst + p.size <= m.dst + m.size
    /\ p.src - p.dst = m.src - m.dst

(* Moves of which none overlaps itself, each behind the one before.        *)
Disjoined(cs) ==
    /\ cs \in Seq(MoveRecord)
    /\ \A i \in 1 .. Len(cs) : cs[i].dst + cs[i].size <= cs[i].src
    /\ \A i, j \in 1 .. Len(cs) : i < j => cs[i].dst + cs[i].size <= cs[j].dst

(* to_disjunct_copies() cuts a move into parts that cover it.              *)
LEMMA PiecesCut ==
    ASSUME NEW m \in MoveRecord, m.dst < m.src
    PROVE  /\ Disjoined(Pieces(m))
           /\ \A i \in 1 .. Len(Pieces(m)) : PartOf(Pieces(m)[i], m)
           /\ \A x \in Nat : Writes(m, x) => \E i \in 1 .. Len(Pieces(m)) : Writes(Pieces(m)[i], x)
<1> DEFINE c == m.src - m.dst
           q == IF m.size <= c THEN 1 ELSE (m.size + c - 1) \div c
           At(i) == i * c
           P == Pieces(m)
<1>1. /\ m.src \in Nat /\ m.dst \in Nat /\ m.size \in Nat /\ c \in Nat /\ c >= 1
      /\ m.src = m.dst + c
  BY DEF MoveRecord
<1>2. /\ \A i \in Nat : At(i) \in Nat /\ At(i + 1) = At(i) + c
      /\ \A i, j \in Nat : i <= j => At(i) <= At(j)
  BY <1>1, Multiples
<1>3. q \in Nat /\ q >= 1 /\ At(q - 1) <= m.size /\ m.size <= At(q)
  <2>1. CASE m.size <= c
    <3>1. q = 1 /\ At(0) = 0 /\ At(1) = c
      BY <1>1, <2>1
    <3> QED BY <1>1, <2>1, <3>1
  <2>2. CASE m.size > c
    <3> DEFINE d == m.size + c - 1
    <3>1. d \in Nat /\ q = d \div c
      BY <1>1, <2>2
    <3>2. q \in Nat /\ d % c \in Nat /\ d % c < c /\ d = At(q) + (d % c)
      BY <1>1, <3>1, DivMod
    <3>3. At(q) \in Nat /\ m.size <= At(q) /\ At(q) <= d
      <4> HIDE DEF q, c, At
      <4>1. At(q) \in Nat
        BY <1>2, <3>2
      <4> QED BY <1>1, <3>2, <4>1
    <3>4. q # 0
      <4>1. At(0) = 0
        BY <1>1
      <4> HIDE DEF At, q, c
      <4> QED BY <1>1, <2>2, <3>3, <4>1
    <3>5. q - 1 \in Nat /\ q = (q - 1) + 1
      <4> HIDE DEF q
      <4> QED BY <3>2, <3>4
    <3>6. At(q) = At(q - 1) + c /\ At(q - 1) \in Nat
      <4> HIDE DEF At, q, c
      <4> QED BY <1>2, <3>5
    <3> HIDE DEF q, c, At
    <3> QED BY <1>1, <3>2, <3>3, <3>5, <3>6
  <2> HIDE DEF q, c, At
  <2> QED BY <1>1, <2>1, <2>2
<1>4. P = [i \in 1 .. q |-> [src |-> m.src + At(i - 1), dst |-> m.dst + At(i - 1),
                             size |-> IF i < q THEN c ELSE m.size - At(i - 1)]]
  BY DEF Pieces, Move
<1> HIDE DEF q, c, At, P
<1>5. ASSUME NEW i \in 1 .. q
      PROVE  /\ P[i].src = m.src + At(i - 1) /\ P[i].dst = m.dst + At(i - 1)
             /\ P[i].size = IF i < q THEN c ELSE m.size - At(i - 1)
             /\ i - 1 \in Nat /\ At(i - 1) \in Nat /\ At(i) = At(i - 1) + c /\ At(i) \in Nat
             /\ At(i - 1) <= m.size /\ m.size <= At(q) /\ (i < q => At(i) <= m.size)
             /\ P[i] \in MoveRecord
  <2>1. /\ P[i].src = m.src + At(i - 1) /\ P[i].dst = m.dst + At(i - 1)
        /\ P[i].size = IF i < q THEN c ELSE m.size - At(i - 1)
        /\ P[i] = [src |-> P[i].src, dst |-> P[i].dst, size |-> P[i].size]
    BY <1>4
  <2>2. /\ i - 1 \in Nat /\ i \in Nat /\ q - 1 \in Nat /\ (i - 1) + 1 = i
        /\ i - 1 <= q - 1 /\ (i < q => i <= q - 1)
    BY <1>3
  <2>3. At(i - 1) \in Nat /\ At(i) = At(i - 1) + c /\ At(i) \in Nat /\ At(q - 1) \in Nat
    BY <1>2, <2>2
  <2>4. At(i - 1) <= At(q - 1) /\ (i < q => At(i) <= At(q - 1))
    BY <1>2, <2>2
  <2>5. At(i - 1) <= m.size /\ (i < q => At(i) <= m.size)
    BY <1>1, <1>3, <2>3, <2>4
  <2>6. P[i].src \in Nat /\ P[i].dst \in Nat /\ P[i].size \in Nat
    BY <1>1, <2>1, <2>3, <2>5
  <2>7. P[i] \in MoveRecord
    BY <2>1, <2>6 DEF MoveRecord
  <2> QED BY <1>3, <2>1, <2>2, <2>3, <2>5, <2>7
<1>6. P \in Seq(MoveRecord) /\ Len(P) = q
  <2>1. P \in [1 .. q -> MoveRecord]
    BY <1>4, <1>5
  <2> QED BY <1>3, <2>1
<1>7. ASSUME NEW i \in 1 .. q
      PROVE  PartOf(P[i], m) /\ P[i].dst + P[i].size <= P[i].src
  <2>1. P[i].size <= c /\ P[i].size \in Nat /\ At(i - 1) + P[i].size <= m.size
    <3>1. i < q \/ i = q
      BY <1>3
    <3> QED BY <1>1, <1>3, <1>5, <3>1
  <2> QED BY <1>1, <1>5, <2>1 DEF PartOf
<1>8. ASSUME NEW i \in 1 .. q, NEW j \in 1 .. q, i < j
      PROVE  P[i].dst + P[i].size <= P[j].dst
  <2>1. i < q /\ i \in Nat /\ j - 1 \in Nat /\ i <= j - 1
    BY <1>3, <1>8
  <2>2. At(i) <= At(j - 1)
    BY <1>2, <2>1
  <2>3. P[i].dst = m.dst + At(i - 1) /\ P[i].size = c /\ At(i) = At(i - 1) + c
    BY <1>5, <2>1
  <2>4. P[j].dst = m.dst + At(j - 1) /\ At(j - 1) \in Nat /\ At(i - 1) \in Nat
    BY <1>5
  <2> QED BY <1>1, <2>2, <2>3, <2>4
<1>9. ASSUME NEW x \in Nat, Writes(m, x) PROVE \E i \in 1 .. q : Writes(P[i], x)
  <2> DEFINE y == x - m.dst
             i == (y \div c) + 1
  <2>1. y \in Nat /\ y < m.size /\ x = m.dst + y
    BY <1>1, <1>9 DEF Writes
  <2>2. /\ y \div c \in Nat /\ y % c \in Nat /\ y % c < c /\ y = At(y \div c) + (y % c)
    <3> HIDE DEF y
    <3> QED BY <1>1, <2>1, DivMod DEF At
  <2>3. i \in Nat /\ i >= 1 /\ i - 1 = y \div c
    <3> HIDE DEF y
    <3> QED BY <2>2
  <2> HIDE DEF y, i
  <2>4. At(i - 1) \in Nat /\ At(i - 1) <= y /\ y < At(i - 1) + c
    <3>1. At(i - 1) \in Nat
      BY <1>2, <2>2, <2>3
    <3> QED BY <1>1, <2>2, <2>3, <3>1
  <2>5. i <= q
    <3> SUFFICES ASSUME ~ (i <= q) PROVE FALSE
      OBVIOUS
    <3>1. q \in Nat /\ i - 1 \in Nat /\ q <= i - 1
      BY <1>3, <2>3
    <3>2. At(q) <= At(i - 1) /\ At(q) \in Nat
      BY <1>2, <3>1
    <3> QED BY <1>1, <1>3, <2>1, <2>4, <3>2
  <2>6. i \in 1 .. q
    BY <1>3, <2>3, <2>5
  <2>7. Writes(P[i], x)
    BY <1>1, <1>5, <2>1, <2>4, <2>6 DEF Writes
  <2> QED BY <2>6, <2>7
<1> QED BY <1>6, <1>7, <1>8, <1>9 DEF P, Disjoined

(* A part goes the way of the whole.                                       *)
LEMMA PartFacts ==
    ASSUME NEW p \in MoveRecord, NEW m \in MoveRecord, PartOf(p, m)
    PROVE  /\ m.dst <= p.dst /\ p.dst + p.size <= m.dst + m.size
           /\ m.dst < m.src => p.dst <= p.src
           /\ \A cap \in Nat : m.src + m.size <= cap => p.src + p.size <= cap
           /\ \A x \in Nat : Writes(p, x) =>
                Writes(m, x) /\ x - p.dst + p.src = x - m.dst + m.src
<1> DEFINE pd == p.dst
           ps == p.src
           pz == p.size
           md == m.dst
           mf == m.src
           mz == m.size
<1>1. pd \in Nat /\ ps \in Nat /\ pz \in Nat /\ md \in Nat /\ mf \in Nat /\ mz \in Nat
  BY DEF MoveRecord
<1>2. md <= pd /\ pd + pz <= md + mz /\ ps - pd = mf - md
  BY DEF PartOf
<1>3. \A x \in Nat : /\ Writes(p, x) <=> pd <= x /\ x < pd + pz
                     /\ Writes(m, x) <=> md <= x /\ x < md + mz
  BY DEF Writes
<1> SUFFICES /\ md <= pd /\ pd + pz <= md + mz
             /\ md < mf => pd <= ps
             /\ \A cap \in Nat : mf + mz <= cap => ps + pz <= cap
             /\ \A x \in Nat : Writes(p, x) => Writes(m, x) /\ x - pd + ps = x - md + mf
  OBVIOUS
<1> HIDE DEF pd, ps, pz, md, mf, mz
<1>4. md < mf => pd <= ps
  BY <1>1, <1>2
<1>5. \A cap \in Nat : mf + mz <= cap => ps + pz <= cap
  BY <1>1, <1>2
<1>6. ASSUME NEW x \in Nat, Writes(p, x)
      PROVE  Writes(m, x) /\ x - pd + ps = x - md + mf
  <2>1. pd <= x /\ x < pd + pz
    BY <1>3, <1>6
  <2>2. md <= x /\ x < md + mz /\ x - pd + ps = x - md + mf
    BY ONLY x \in Nat, <1>1, <1>2, <2>1
  <2> QED BY <1>3, <2>2
<1> QED BY <1>2, <1>4, <1>5, <1>6

(* cs are parts of the first k moves, and cover them.                      *)
CutSoFar(ms, cs, k) ==
    /\ Disjoined(cs)
    /\ \A i \in 1 .. Len(cs) : \E a \in 1 .. k : PartOf(cs[i], ms[a])
    /\ \A a \in 1 .. k : \A x \in Nat :
         Writes(ms[a], x) => \E i \in 1 .. Len(cs) : Writes(cs[i], x) /\ PartOf(cs[i], ms[a])

(* Moves to the left, each behind the one before.                          *)
Leftwards(ms) ==
    /\ ms \in Seq(MoveRecord)
    /\ \A i \in 1 .. Len(ms) : ms[i].dst < ms[i].src
    /\ \A i, j \in 1 .. Len(ms) : i < j => ms[i].dst + ms[i].size <= ms[j].dst

LEMMA CopiesStep ==
    ASSUME NEW ms, Leftwards(ms), NEW k \in 1 .. Len(ms), NEW cs, CutSoFar(ms, cs, k - 1)
    PROVE  CutSoFar(ms, cs \o Pieces(ms[k]), k)
<1> DEFINE P == Pieces(ms[k])
           l == Len(cs)
           q == Len(P)
           new == cs \o P
<1>1. /\ ms[k] \in MoveRecord /\ ms[k].dst < ms[k].src
      /\ \A a \in 1 .. k : ms[a] \in MoveRecord
      /\ \A a \in 1 .. k - 1 : ms[a].dst + ms[a].size <= ms[k].dst
  <2>1. ms[k] \in MoveRecord /\ \A a \in 1 .. k : ms[a] \in MoveRecord /\ a \in 1 .. Len(ms)
    BY DEF Leftwards
  <2>2. \A a \in 1 .. k - 1 : a \in 1 .. Len(ms) /\ a < k
    OBVIOUS
  <2> QED BY <2>1, <2>2 DEF Leftwards
<1>2. /\ Disjoined(P) /\ \A i \in 1 .. q : PartOf(P[i], ms[k])
      /\ \A x \in Nat : Writes(ms[k], x) => \E i \in 1 .. q : Writes(P[i], x)
  <2> DEFINE m == ms[k]
  <2>1. m \in MoveRecord /\ m.dst < m.src
    BY <1>1
  <2> HIDE DEF m
  <2>2. /\ Disjoined(Pieces(m)) /\ \A i \in 1 .. Len(Pieces(m)) : PartOf(Pieces(m)[i], m)
        /\ \A x \in Nat : Writes(m, x) => \E i \in 1 .. Len(Pieces(m)) : Writes(Pieces(m)[i], x)
    BY <2>1, PiecesCut
  <2> QED BY <2>2 DEF m
<1> HIDE DEF P
<1>3. cs \in Seq(MoveRecord) /\ P \in Seq(MoveRecord) /\ l \in Nat /\ q \in Nat
  BY <1>2 DEF CutSoFar, Disjoined
<1>4. /\ new \in Seq(MoveRecord) /\ Len(new) = l + q
      /\ \A i \in 1 .. l : new[i] = cs[i]
      /\ \A i \in 1 .. q : new[l + i] = P[i]
  BY <1>3
<1>5. /\ \A i \in 1 .. l : cs[i].dst \in Nat /\ cs[i].src \in Nat /\ cs[i].size \in Nat
      /\ \A i \in 1 .. q : P[i].dst \in Nat /\ P[i].src \in Nat /\ P[i].size \in Nat
      /\ \A a \in 1 .. k : ms[a].dst \in Nat /\ ms[a].src \in Nat /\ ms[a].size \in Nat
  <2>1. /\ \A i \in 1 .. l : cs[i] \in MoveRecord
        /\ \A i \in 1 .. q : P[i] \in MoveRecord
    BY <1>3
  <2> QED BY <1>1, <2>1 DEF MoveRecord
<1> HIDE DEF new, l, q
<1>6. \A i \in 1 .. l + q : i \in 1 .. l \/ (i - l \in 1 .. q /\ i = l + (i - l))
  BY <1>3
<1>7. \A i \in 1 .. l : i \in 1 .. l + q
  BY <1>3
<1>8. \A i \in 1 .. q : l + i \in 1 .. l + q
  BY <1>3
<1>9. /\ \A i \in 1 .. l : cs[i].dst + cs[i].size <= cs[i].src
      /\ \A i, j \in 1 .. l : i < j => cs[i].dst + cs[i].size <= cs[j].dst
      /\ \A i \in 1 .. l : \E a \in 1 .. k - 1 : PartOf(cs[i], ms[a])
      /\ \A i \in 1 .. q : P[i].dst + P[i].size <= P[i].src
      /\ \A i, j \in 1 .. q : i < j => P[i].dst + P[i].size <= P[j].dst
  BY <1>2 DEF CutSoFar, Disjoined, l, q
<1>10. ASSUME NEW i \in 1 .. l + q PROVE new[i].dst + new[i].size <= new[i].src
  <2>1. CASE i \in 1 .. l
    BY <1>4, <1>9, <2>1
  <2>2. CASE i - l \in 1 .. q /\ i = l + (i - l)
    <3>1. new[i] = P[i - l]
      BY <1>4, <2>2
    <3> QED BY <1>9, <2>2, <3>1
  <2> QED BY <1>6, <2>1, <2>2
<1>11. ASSUME NEW i \in 1 .. l + q, NEW j \in 1 .. l + q, i < j
       PROVE  new[i].dst + new[i].size <= new[j].dst
  <2>1. CASE i \in 1 .. l /\ j \in 1 .. l
    BY <1>4, <1>9, <1>11, <2>1
  <2>2. CASE i \in 1 .. l /\ j - l \in 1 .. q /\ j = l + (j - l)
    <3>1. new[i] = cs[i] /\ new[j] = P[j - l]
      BY <1>4, <2>2
    <3>2. PICK a \in 1 .. k - 1 : PartOf(cs[i], ms[a])
      BY <1>9, <2>2
    <3> DEFINE p == cs[i]
               p2 == P[j - l]
               m == ms[a]
               m2 == ms[k]
    <3>3. /\ p \in MoveRecord /\ p2 \in MoveRecord /\ m \in MoveRecord /\ m2 \in MoveRecord
          /\ PartOf(p, m) /\ PartOf(p2, m2) /\ m.dst + m.size <= m2.dst
          /\ new[i] = p /\ new[j] = p2
      <4>1. a \in 1 .. k
        OBVIOUS
      <4> QED BY <1>1, <1>2, <1>3, <2>2, <3>1, <3>2, <4>1 DEF l, q
    <3> HIDE DEF p, p2, m, m2
    <3>4. p.dst + p.size <= m.dst + m.size /\ m2.dst <= p2.dst
      BY <3>3, PartFacts
    <3> DEFINE pe == p.dst + p.size
               me == m.dst + m.size
               d == m2.dst
               d2 == p2.dst
    <3>5. pe \in Nat /\ me \in Nat /\ d \in Nat /\ d2 \in Nat
      <4>1. /\ p.dst \in Nat /\ p.size \in Nat /\ p2.dst \in Nat
            /\ m.dst \in Nat /\ m.size \in Nat /\ m2.dst \in Nat
        BY <3>3, MoveFields
      <4>2. \A x, y \in Nat : x + y \in Nat
        OBVIOUS
      <4> QED BY ONLY <4>1, <4>2
    <3>6. pe <= me /\ me <= d /\ d <= d2
      BY <3>3, <3>4
    <3>7. pe <= d2
      <4> HIDE DEF pe, me, d, d2
      <4> QED BY ONLY <3>5, <3>6
    <3> QED BY <3>3, <3>7
  <2>3. CASE i - l \in 1 .. q /\ i = l + (i - l) /\ j - l \in 1 .. q /\ j = l + (j - l)
    <3>1. new[i] = P[i - l] /\ new[j] = P[j - l]
      BY <1>4, <2>3
    <3>2. i - l < j - l
      BY <1>3, <1>11
    <3> QED BY <1>9, <2>3, <3>1, <3>2
  <2>4. ~ (i - l \in 1 .. q /\ j \in 1 .. l)
    BY <1>3, <1>11
  <2> QED BY <1>6, <2>1, <2>2, <2>3, <2>4
<1>12. ASSUME NEW i \in 1 .. l + q PROVE \E a \in 1 .. k : PartOf(new[i], ms[a])
  <2>1. CASE i \in 1 .. l
    <3>1. PICK a \in 1 .. k - 1 : PartOf(cs[i], ms[a])
      BY <1>9, <2>1
    <3> QED BY <1>4, <2>1, <3>1
  <2>2. CASE i - l \in 1 .. q /\ i = l + (i - l)
    <3>1. new[i] = P[i - l] /\ k \in 1 .. k
      BY <1>4, <2>2
    <3> QED BY <1>2, <2>2, <3>1 DEF q
  <2> QED BY <1>6, <2>1, <2>2
<1>13. ASSUME NEW a \in 1 .. k, NEW x \in Nat, Writes(ms[a], x)
       PROVE  \E i \in 1 .. l + q : Writes(new[i], x) /\ PartOf(new[i], ms[a])
  <2>1. CASE a = k
    <3>1. PICK i \in 1 .. q : Writes(P[i], x)
      BY <1>2, <1>13, <2>1 DEF q
    <3>2. new[l + i] = P[i] /\ PartOf(P[i], ms[k])
      BY <1>2, <1>4 DEF q
    <3> QED BY <1>8, <2>1, <3>1, <3>2
  <2>2. CASE a # k
    <3>1. a \in 1 .. k - 1
      BY <2>2
    <3>2. PICK i \in 1 .. l : Writes(cs[i], x) /\ PartOf(cs[i], ms[a])
      BY <1>13, <3>1 DEF CutSoFar, l
    <3> QED BY <1>4, <1>7, <3>2
  <2> QED BY <2>1, <2>2
<1> QED BY <1>4, <1>10, <1>11, <1>12, <1>13 DEF CutSoFar, Disjoined, new, P

(* to_disjunct_copies()                                                    *)
LEMMA CopiesCut ==
    ASSUME NEW ms, Leftwards(ms)
    PROVE  CutSoFar(ms, DisjunctCopies(ms), Len(ms))
<1> DEFINE n == Len(ms)
           V == Seq(MoveRecord)
           G(a) == [k \in 0 .. n |-> IF k = 0 THEN <<>> ELSE a[k - 1] \o Pieces(ms[k])]
           copies == CHOOSE a : a = G(a)
           g == [k \in 1 .. n |-> [cs \in V |-> cs \o Pieces(ms[k])]]
<1>1. n \in Nat
  BY DEF Leftwards
<1>2. g \in Steppers(n, V)
  <2>1. \A k \in 1 .. n : Pieces(ms[k]) \in V
    <3> SUFFICES ASSUME NEW k \in 1 .. n PROVE Pieces(ms[k]) \in V
      OBVIOUS
    <3>1. ms[k] \in MoveRecord /\ ms[k].dst < ms[k].src
      BY DEF Leftwards
    <3> QED BY <3>1, PiecesCut DEF Disjoined
  <2>2. \A k \in 1 .. n, cs \in V : cs \o Pieces(ms[k]) \in V
    BY <2>1
  <2> HIDE DEF V
  <2> QED BY <2>2 DEF Steppers
<1>3. \A k \in 1 .. n, cs \in V : g[k][cs] = cs \o Pieces(ms[k])
  <2> HIDE DEF V
  <2> QED OBVIOUS
<1> HIDE DEF g
<1>4. PICK a \in [0 .. n -> V] : a[0] = <<>> /\ \A k \in 1 .. n : a[k] = g[k][a[k - 1]]
  <2>1. <<>> \in V
    OBVIOUS
  <2> HIDE DEF V, n
  <2> QED BY ONLY <1>1, <1>2, <2>1, RecursionExists
<1>5. a = G(a)
  <2>1. \A k \in 0 .. n : a[k] = IF k = 0 THEN <<>> ELSE a[k - 1] \o Pieces(ms[k])
    <3> SUFFICES ASSUME NEW k \in 0 .. n, k # 0 PROVE a[k] = a[k - 1] \o Pieces(ms[k])
      BY <1>4
    <3>1. k \in 1 .. n /\ a[k - 1] \in V
      <4> HIDE DEF V
      <4> QED BY <1>4
    <3> HIDE DEF V
    <3> QED BY <1>3, <1>4, <3>1
  <2> HIDE DEF V
  <2> QED BY <1>4, <2>1
<1>6. copies = G(copies) /\ DisjunctCopies(ms) = copies[n]
  BY <1>5 DEF DisjunctCopies
<1> HIDE DEF copies
<1> DEFINE T == {k \in 0 .. n : CutSoFar(ms, copies[k], k)}
<1>7. 0 \in T
  <2>1. copies[0] = <<>> /\ Len(<<>>) = 0 /\ <<>> \in Seq(MoveRecord)
    BY <1>1, <1>6
  <2>2. CutSoFar(ms, <<>>, 0)
    BY <2>1 DEF CutSoFar, Disjoined
  <2> QED BY <1>1, <2>1, <2>2
<1>8. ASSUME NEW k \in 1 .. n, k - 1 \in T PROVE k \in T
  <2>1. k \in 0 .. n /\ k # 0
    OBVIOUS
  <2>2. copies[k] = copies[k - 1] \o Pieces(ms[k])
    BY <1>6, <2>1
  <2>3. CutSoFar(ms, copies[k - 1], k - 1)
    BY <1>8
  <2>4. CutSoFar(ms, copies[k - 1] \o Pieces(ms[k]), k)
    BY <2>3, CopiesStep
  <2> QED BY <2>1, <2>2, <2>4
<1>9. n \in T
  <2>1. \A k \in 1 .. n : k - 1 \in T => k \in T
    BY <1>8
  <2>2. \A k \in 0 .. n : k \in T
    <3> HIDE DEF T, n
    <3> QED BY ONLY <1>1, <1>7, <2>1, UpTo
  <2> QED BY <1>1, <2>2
<1> QED BY <1>6, <1>9

(* The copies bring every cell the same as the moves.                      *)
LEMMA CopiesCarry ==
    ASSUME NEW ms, Leftwards(ms), NEW cap \in Nat,
           \A i \in 1 .. Len(ms) : ms[i].src + ms[i].size <= cap,
           NEW X, NEW c \in Memories(cap, X)
    PROVE  \A x \in 0 .. cap - 1 : Carried(c, DisjunctCopies(ms))[x] = Carried(c, ms)[x]
<1> DEFINE cs == DisjunctCopies(ms)
<1>1. /\ CutSoFar(ms, cs, Len(ms)) /\ ms \in Seq(MoveRecord) /\ cs \in Seq(MoveRecord)
      /\ \A i \in 1 .. Len(ms) : ms[i].dst \in Nat /\ ms[i].src \in Nat /\ ms[i].size \in Nat
      /\ \A i \in 1 .. Len(cs) : cs[i].dst \in Nat /\ cs[i].src \in Nat /\ cs[i].size \in Nat
  <2>1. CutSoFar(ms, cs, Len(ms)) /\ ms \in Seq(MoveRecord)
    BY CopiesCut DEF Leftwards
  <2> HIDE DEF cs
  <2>2. cs \in Seq(MoveRecord)
    BY <2>1 DEF CutSoFar, Disjoined
  <2>3. /\ \A i \in 1 .. Len(ms) : ms[i] \in MoveRecord
        /\ \A i \in 1 .. Len(cs) : cs[i] \in MoveRecord
    BY <2>1, <2>2
  <2> QED BY <2>1, <2>2, <2>3 DEF MoveRecord
<1> HIDE DEF cs
<1>2. LeftInOrder(ms, cap)
  BY <1>1 DEF Leftwards, LeftInOrder
<1>3. \A i \in 1 .. Len(cs) : \E a \in 1 .. Len(ms) : PartOf(cs[i], ms[a])
  BY <1>1 DEF CutSoFar
<1>4. LeftInOrder(cs, cap)
  <2>1. ASSUME NEW i \in 1 .. Len(cs) PROVE cs[i].dst <= cs[i].src /\ cs[i].src + cs[i].size <= cap
    <3>1. PICK a \in 1 .. Len(ms) : PartOf(cs[i], ms[a])
      BY <1>3
    <3>2. ms[a].src + ms[a].size <= cap /\ ms[a].dst < ms[a].src
      BY DEF Leftwards
    <3>3. cs[i] \in MoveRecord /\ ms[a] \in MoveRecord
      BY <1>1
    <3> QED BY <3>1, <3>2, <3>3, PartFacts
  <2> QED BY <1>1, <2>1 DEF LeftInOrder, CutSoFar, Disjoined
<1> SUFFICES ASSUME NEW x \in 0 .. cap - 1 PROVE Carried(c, cs)[x] = Carried(c, ms)[x]
  BY DEF cs
<1>5. /\ (\A i \in 1 .. Len(ms) : ~ Writes(ms[i], x)) => Carried(c, ms)[x] = c[x]
      /\ \A i \in 1 .. Len(ms) :
           Writes(ms[i], x) => Carried(c, ms)[x] = c[x - ms[i].dst + ms[i].src]
  BY <1>2, CarriedInOrder
<1>6. /\ (\A i \in 1 .. Len(cs) : ~ Writes(cs[i], x)) => Carried(c, cs)[x] = c[x]
      /\ \A i \in 1 .. Len(cs) :
           Writes(cs[i], x) => Carried(c, cs)[x] = c[x - cs[i].dst + cs[i].src]
  BY <1>4, CarriedInOrder
<1>7. CASE \A i \in 1 .. Len(ms) : ~ Writes(ms[i], x)
  <2>1. ASSUME NEW i \in 1 .. Len(cs) PROVE ~ Writes(cs[i], x)
    <3>1. PICK a \in 1 .. Len(ms) : PartOf(cs[i], ms[a])
      BY <1>3
    <3>2. ~ Writes(ms[a], x)
      BY <1>7
    <3>3. cs[i] \in MoveRecord /\ ms[a] \in MoveRecord /\ x \in Nat
      BY <1>1
    <3> QED BY <3>1, <3>2, <3>3, PartFacts
  <2> QED BY <1>5, <1>6, <1>7, <2>1
<1>8. CASE \E i \in 1 .. Len(ms) : Writes(ms[i], x)
  <2>1. PICK a \in 1 .. Len(ms) : Writes(ms[a], x)
    BY <1>8
  <2>2. PICK i \in 1 .. Len(cs) : Writes(cs[i], x) /\ PartOf(cs[i], ms[a])
    BY <1>1, <2>1 DEF CutSoFar
  <2>3. x - cs[i].dst + cs[i].src = x - ms[a].dst + ms[a].src
    <3>1. cs[i] \in MoveRecord /\ ms[a] \in MoveRecord /\ x \in Nat
      BY <1>1
    <3> QED BY <2>2, <3>1, PartFacts
  <2> QED BY <1>5, <1>6, <2>1, <2>2, <2>3
<1> QED BY <1>7, <1>8

-----------------------------------------------------------------------------
(* The order of the used nodes.                                            *)

Below(S, f, x) == {y \in S : f[y] < f[x]}

(* Different keys count off the elements.                                  *)
LEMMA Ranks ==
    ASSUME NEW S, IsFiniteSet(S), NEW f, \A x \in S : f[x] \in Nat,
           \A x, y \in S : f[x] = f[y] => x = y
    PROVE  /\ \A x \in S : Cardinality(Below(S, f, x)) \in 0 .. Cardinality(S) - 1
           /\ \A x, y \in S : f[x] < f[y] =>
                Cardinality(Below(S, f, x)) < Cardinality(Below(S, f, y))
           /\ \A k \in 1 .. Cardinality(S) : \E x \in S : Cardinality(Below(S, f, x)) = k - 1
<1> DEFINE n == Cardinality(S)
           h == [x \in S |-> Cardinality(Below(S, f, x))]
<1>1. n \in Nat
  BY FS_CardinalityType
<1>2. \A x \in S : IsFiniteSet(Below(S, f, x)) /\ Cardinality(Below(S, f, x)) \in Nat
  <2> SUFFICES ASSUME NEW x \in S
               PROVE  IsFiniteSet(Below(S, f, x)) /\ Cardinality(Below(S, f, x)) \in Nat
    OBVIOUS
  <2>1. Below(S, f, x) \in SUBSET S
    BY DEF Below
  <2> QED BY <2>1, FS_Subset, FS_CardinalityType
<1>3. ASSUME NEW x \in S PROVE h[x] \in 0 .. n - 1
  <2>1. Below(S, f, x) \in SUBSET S /\ Below(S, f, x) # S
    BY DEF Below
  <2>2. Cardinality(Below(S, f, x)) <= n /\ Cardinality(Below(S, f, x)) # n
    BY <2>1, FS_Subset
  <2> QED BY <1>1, <1>2, <2>2
<1>4. ASSUME NEW x \in S, NEW y \in S, f[x] < f[y] PROVE h[x] < h[y]
  <2>1. Below(S, f, x) \in SUBSET Below(S, f, y) /\ Below(S, f, x) # Below(S, f, y)
    BY <1>4 DEF Below
  <2>2. Cardinality(Below(S, f, x)) <= Cardinality(Below(S, f, y))
        /\ Cardinality(Below(S, f, x)) # Cardinality(Below(S, f, y))
    BY <1>2, <2>1, FS_Subset
  <2> QED BY <1>2, <2>2
<1>5. h \in Injection(S, 0 .. n - 1)
  <2>1. h \in [S -> 0 .. n - 1]
    BY <1>3
  <2>2. \A x, y \in S : h[x] = h[y] => x = y
    <3> SUFFICES ASSUME NEW x \in S, NEW y \in S, h[x] = h[y] PROVE f[x] = f[y]
      OBVIOUS
    <3>1. h[x] \in Nat /\ h[y] \in Nat
      BY <1>2
    <3> QED BY <1>4, <3>1
  <2> HIDE DEF h
  <2> QED BY <2>1, <2>2 DEF Injection, IsInjective
<1>6. h \in Surjection(S, 0 .. n - 1)
  <2>1. IsFiniteSet(0 .. n - 1) /\ Cardinality(0 .. n - 1) = n
    BY <1>1, FS_Interval
  <2> HIDE DEF h
  <2> QED BY <1>5, <2>1, FS_Injection
<1>7. \A k \in 1 .. n : \E x \in S : h[x] = k - 1
  <2>1. \A k \in 1 .. n : k - 1 \in 0 .. n - 1
    BY <1>1
  <2> HIDE DEF h
  <2> QED BY <1>6, <2>1 DEF Surjection
<1> QED BY <1>3, <1>4, <1>7

(* The nodes of S in the order of their offsets.                           *)
Ordered(r, order, S) ==
    /\ Len(order) \in Nat
    /\ \A k \in 1 .. Len(order) : order[k] \in S
    /\ \A x \in S : \E k \in 1 .. Len(order) : order[k] = x
    /\ \A j, k \in 1 .. Len(order) :
         j < k => r.node[order[j]].offset < r.node[order[k]].offset

(* sortedUsedNodes()                                                       *)
LEMMA SortedIsOrdered ==
    ASSUME NEW r, IsFiniteSet(UsedNodes(r)), UsedNodes(r) \subseteq Nat,
           \A i \in UsedNodes(r) : r.node[i].offset \in Nat,
           \A i, j \in UsedNodes(r) : r.node[i].offset = r.node[j].offset => i = j,
           NEW ascending
    PROVE  Ordered(r, SortedNodes(r, ascending), UsedNodes(r))
<1> DEFINE S == UsedNodes(r)
           n == Cardinality(S)
           f == [i \in S |-> r.node[i].offset]
           order == SortedNodes(r, ascending)
           Behind(i, j) == \/ r.node[i].offset < r.node[j].offset
                           \/ r.node[i].offset = r.node[j].offset
                              /\ IF ascending THEN i < j ELSE i > j
           Before(x) == {y \in S : Behind(y, x)}
<1>1. n \in Nat
  BY FS_CardinalityType
<1>2. order = [k \in 1 .. n |-> CHOOSE x \in S : Cardinality(Before(x)) = k - 1]
  BY DEF SortedNodes, Ascending
<1>3. \A i \in S : f[i] = r.node[i].offset
  OBVIOUS
<1> HIDE DEF S, f, order
<1>4. \A x \in S : Before(x) = Below(S, f, x)
  <2> SUFFICES ASSUME NEW x \in S, NEW y \in S PROVE Behind(y, x) <=> f[y] < f[x]
    BY DEF Below
  <2>1. f[x] \in Nat /\ f[y] \in Nat /\ x \in Nat /\ y \in Nat
    BY <1>3 DEF S
  <2>2. f[x] = f[y] => x = y
    BY <1>3 DEF S
  <2>3. Behind(y, x) <=> \/ f[y] < f[x]
                         \/ f[y] = f[x] /\ IF ascending THEN y < x ELSE y > x
    BY <1>3
  <2>4. ~ (y = x /\ IF ascending THEN y < x ELSE y > x)
    BY <2>1
  <2> HIDE DEF Behind
  <2> QED BY <2>2, <2>3, <2>4
<1>5. /\ \A x \in S : Cardinality(Below(S, f, x)) \in 0 .. n - 1
      /\ \A x, y \in S : f[x] < f[y] =>
           Cardinality(Below(S, f, x)) < Cardinality(Below(S, f, y))
      /\ \A k \in 1 .. n : \E x \in S : Cardinality(Below(S, f, x)) = k - 1
  <2>1. /\ IsFiniteSet(S) /\ \A x \in S : f[x] \in Nat
        /\ \A x, y \in S : f[x] = f[y] => x = y
    BY <1>3 DEF S
  <2> QED BY <2>1, Ranks DEF S
<1> HIDE DEF Before, n
<1>6. DOMAIN order = 1 .. n /\ \A k \in 1 .. n : order[k] \in S /\ Cardinality(Below(S, f, order[k])) = k - 1
  <2>1. DOMAIN order = 1 .. n
    BY <1>2
  <2>2. ASSUME NEW k \in 1 .. n
        PROVE  order[k] \in S /\ Cardinality(Below(S, f, order[k])) = k - 1
    <3>1. order[k] = CHOOSE x \in S : Cardinality(Before(x)) = k - 1
      BY <1>2
    <3>2. \E x \in S : Cardinality(Before(x)) = k - 1
      BY <1>4, <1>5
    <3>3. order[k] \in S /\ Cardinality(Before(order[k])) = k - 1
      BY <3>1, <3>2
    <3> QED BY <1>4, <3>3
  <2> QED BY <2>1, <2>2
<1>7. Len(order) = n
  <2>1. order \in [1 .. n -> S]
    BY <1>2, <1>6
  <2>2. order \in Seq(S)
    BY <1>1, <2>1
  <2> QED BY <1>1, <1>6, <2>2
<1>8. \A x \in S : \E k \in 1 .. n : order[k] = x
  <2> SUFFICES ASSUME NEW x \in S PROVE \E k \in 1 .. n : order[k] = x
    OBVIOUS
  <2> DEFINE k == Cardinality(Below(S, f, x)) + 1
  <2>1. k \in 1 .. n /\ k - 1 = Cardinality(Below(S, f, x))
    BY <1>1, <1>5
  <2> HIDE DEF k
  <2>2. order[k] \in S /\ Cardinality(Below(S, f, order[k])) = Cardinality(Below(S, f, x))
    BY <1>6, <2>1
  <2>3. f[x] \in Nat /\ f[order[k]] \in Nat /\ Cardinality(Below(S, f, x)) \in Nat
    BY <1>1, <1>3, <1>5, <2>2 DEF S
  <2>4. ~ (f[x] < f[order[k]]) /\ ~ (f[order[k]] < f[x])
    BY <1>5, <2>2, <2>3
  <2>5. f[x] = f[order[k]]
    BY <2>3, <2>4
  <2> QED BY <1>3, <2>1, <2>2, <2>5 DEF S
<1>9. ASSUME NEW j \in 1 .. n, NEW k \in 1 .. n, j < k
      PROVE  r.node[order[j]].offset < r.node[order[k]].offset
  <2>1. /\ order[j] \in S /\ Cardinality(Below(S, f, order[j])) = j - 1
        /\ order[k] \in S /\ Cardinality(Below(S, f, order[k])) = k - 1
    BY <1>6
  <2>2. ~ (k - 1 < j - 1) /\ k - 1 # j - 1
    BY <1>1, <1>9
  <2>3. ~ (f[order[k]] < f[order[j]]) /\ order[j] # order[k]
    BY <1>5, <2>1, <2>2
  <2>4. f[order[j]] \in Nat /\ f[order[k]] \in Nat /\ f[order[j]] # f[order[k]]
    BY <1>3, <2>1, <2>3 DEF S
  <2>5. f[order[j]] < f[order[k]]
    BY <2>3, <2>4
  <2> QED BY <1>3, <2>1, <2>5
<1> QED BY <1>1, <1>6, <1>7, <1>8, <1>9 DEF Ordered, S, order

-----------------------------------------------------------------------------
(* The blocks of clients among the nodes.                                  *)

Blockish == [id : Nat, offset : Nat, size : Nat]

(* l are the blocks in use of r: none is empty, and no two overlap.        *)
LiveIn(r, l, cap) ==
    /\ cap \in Nat /\ l \subseteq Blockish /\ IsFiniteSet(UsedNodes(r))
    /\ \A i \in UsedNodes(r) : \E e \in l : e.id = i
    /\ \A e \in l : /\ e.id \in UsedNodes(r)
                    /\ r.node[e.id].offset = e.offset /\ r.node[e.id].size = e.size
                    /\ e.size >= 1 /\ e.offset + e.size <= cap
    /\ \A e, f \in l : e # f =>
         /\ e.id # f.id
         /\ e.offset + e.size <= f.offset \/ f.offset + f.size <= e.offset

(* p gives each of the blocks l its place in the row.                      *)
Matched(l, p, o, z, n) ==
    /\ p \in [l -> 1 .. n]
    /\ \A k \in 1 .. n : \E e \in l : p[e] = k
    /\ \A e, f \in l : p[e] = p[f] => e = f
    /\ \A e \in l : o[p[e]] = e.offset /\ z[p[e]] = e.size /\ z[p[e]] >= 1

(* The offset that compactUsedNodes() gives a node, and the blocks there.  *)
MovedTo(r, order, id) ==
    SizeBefore(r, order, CHOOSE k \in 0 .. Len(order) - 1 : order[k + 1] = id)

Arrived(r, order, l) == {[a EXCEPT !.offset = MovedTo(r, order, a.id)] : a \in l}

(* The blocks, each moved to its start.                                    *)
Shifted(l, p, S) == {[e EXCEPT !.offset = S[p[e] - 1]] : e \in l}

LEMMA BlockishFields ==
    ASSUME NEW e \in Blockish
    PROVE  e.id \in Nat /\ e.offset \in Nat /\ e.size \in Nat
BY DEF Blockish

LEMMA LiveInOrder ==
    ASSUME NEW r, NEW l, NEW cap, LiveIn(r, l, cap), NEW ascending
    PROVE  Ordered(r, SortedNodes(r, ascending), UsedNodes(r))
<1>1. UsedNodes(r) \subseteq Nat /\ \A i \in UsedNodes(r) : r.node[i].offset \in Nat
  <2> SUFFICES ASSUME NEW i \in UsedNodes(r) PROVE i \in Nat /\ r.node[i].offset \in Nat
    OBVIOUS
  <2>1. PICK e \in l : e.id = i
    BY DEF LiveIn
  <2>2. e \in Blockish /\ r.node[i].offset = e.offset
    BY <2>1 DEF LiveIn
  <2> QED BY <2>1, <2>2, BlockishFields
<1>2. ASSUME NEW i \in UsedNodes(r), NEW j \in UsedNodes(r), r.node[i].offset = r.node[j].offset
      PROVE  i = j
  <2>1. PICK e \in l : e.id = i
    BY DEF LiveIn
  <2>2. PICK f \in l : f.id = j
    BY DEF LiveIn
  <2>3. /\ e.offset = f.offset /\ e.size >= 1 /\ f.size >= 1
        /\ e.offset \in Nat /\ e.size \in Nat /\ f.size \in Nat
    BY <1>2, <2>1, <2>2, BlockishFields DEF LiveIn
  <2>4. ~ (e.offset + e.size <= f.offset \/ f.offset + f.size <= e.offset)
    BY <2>3
  <2> QED BY <2>1, <2>2, <2>4 DEF LiveIn
<1> QED BY <1>1, <1>2, SortedIsOrdered DEF LiveIn

LEMMA OrderMatches ==
    ASSUME NEW r, NEW l, NEW cap, LiveIn(r, l, cap),
           NEW order, Ordered(r, order, UsedNodes(r))
    PROVE  /\ Row(OffsetsIn(r, order), SizesIn(r, order), Len(order), cap)
           /\ Sums(StartsIn(r, order), SizesIn(r, order), Len(order))
           /\ \E p : /\ Matched(l, p, OffsetsIn(r, order), SizesIn(r, order), Len(order))
                     /\ Arrived(r, order, l) = Shifted(l, p, StartsIn(r, order))
<1> DEFINE n == Len(order)
           o == OffsetsIn(r, order)
           z == SizesIn(r, order)
           S == StartsIn(r, order)
<1>0. /\ n = Len(order)
      /\ \A k \in 1 .. n : o[k] = r.node[order[k]].offset /\ z[k] = r.node[order[k]].size
      /\ S = [k \in 0 .. n |-> SizeBefore(r, order, k)]
  BY DEF OffsetsIn, SizesIn, StartsIn
<1> HIDE DEF n, o, z, S
<1>1. n \in Nat /\ \A k \in 1 .. n : order[k] \in UsedNodes(r)
  BY <1>0 DEF Ordered
<1>2. \A k \in 1 .. n : o[k] = r.node[order[k]].offset /\ z[k] = r.node[order[k]].size
  BY <1>0
<1>3. ASSUME NEW k \in 1 .. n
      PROVE  \E e \in l : /\ e.id = order[k] /\ o[k] = e.offset /\ z[k] = e.size
                          /\ e.offset \in Nat /\ e.size \in Nat /\ e.size >= 1
                          /\ e.offset + e.size <= cap
  <2>1. PICK e \in l : e.id = order[k]
    BY <1>1 DEF LiveIn
  <2>2. e \in Blockish /\ r.node[order[k]].offset = e.offset /\ r.node[order[k]].size = e.size
        /\ e.size >= 1 /\ e.offset + e.size <= cap
    BY <2>1 DEF LiveIn
  <2> QED BY <1>2, <2>1, <2>2, BlockishFields
<1>4. ASSUME NEW j \in 1 .. n, NEW k \in 1 .. n, j < k PROVE o[j] + z[j] <= o[k] /\ order[j] # order[k]
  <2>1. PICK e \in l : /\ e.id = order[j] /\ o[j] = e.offset /\ z[j] = e.size
                       /\ e.offset \in Nat /\ e.size \in Nat /\ e.size >= 1
    BY <1>3
  <2>2. PICK f \in l : /\ f.id = order[k] /\ o[k] = f.offset /\ z[k] = f.size
                       /\ f.offset \in Nat /\ f.size \in Nat /\ f.size >= 1
    BY <1>3
  <2>3. o[j] < o[k]
    BY <1>0, <1>2, <1>4 DEF Ordered
  <2>4. e # f
    BY <2>1, <2>2, <2>3
  <2>5. e.id # f.id /\ (e.offset + e.size <= f.offset \/ f.offset + f.size <= e.offset)
    BY <2>4 DEF LiveIn
  <2>6. ~ (o[k] + z[k] <= o[j])
    BY <2>1, <2>2, <2>3
  <2> QED BY <2>1, <2>2, <2>5, <2>6
<1>5. Row(o, z, n, cap)
  <2>1. \A k \in 1 .. n : o[k] \in Nat /\ z[k] \in Nat /\ o[k] + z[k] <= cap
    BY <1>3
  <2> QED BY <1>1, <1>4, <2>1 DEF Row, LiveIn
<1>6. Sums(S, z, n)
  <2>1. \A k \in 1 .. n : z[k] \in Nat /\ z[k] = r.node[order[k]].size
    BY <1>2, <1>5 DEF Row
  <2> QED BY <1>0, <1>1, <2>1, SizeBeforeSums
<1> DEFINE p == [e \in l |-> CHOOSE k \in 1 .. n : order[k] = e.id]
<1>7. ASSUME NEW e \in l PROVE p[e] \in 1 .. n /\ order[p[e]] = e.id
  <2>1. \E k \in 1 .. n : order[k] = e.id
    BY <1>0 DEF Ordered, LiveIn
  <2> QED BY <2>1
<1> HIDE DEF p
<1>8. \A j, k \in 1 .. n : order[j] = order[k] => j = k
  <2> SUFFICES ASSUME NEW j \in 1 .. n, NEW k \in 1 .. n, order[j] = order[k] PROVE j = k
    OBVIOUS
  <2>1. ~ (j < k) /\ ~ (k < j)
    BY <1>4
  <2> QED BY <1>1, <2>1
<1>9. Matched(l, p, o, z, n)
  <2>1. p \in [l -> 1 .. n]
    BY <1>7 DEF p
  <2>2. \A k \in 1 .. n : \E e \in l : p[e] = k
    BY <1>3, <1>7, <1>8
  <2>3. \A e, f \in l : p[e] = p[f] => e = f
    BY <1>7 DEF LiveIn
  <2>4. \A e \in l : o[p[e]] = e.offset /\ z[p[e]] = e.size /\ z[p[e]] >= 1
    BY <1>2, <1>7 DEF LiveIn
  <2> QED BY <2>1, <2>2, <2>3, <2>4 DEF Matched
<1>10. ASSUME NEW e \in l PROVE MovedTo(r, order, e.id) = SizeBefore(r, order, p[e] - 1)
  <2> DEFINE q == CHOOSE k \in 0 .. n - 1 : order[k + 1] = e.id
  <2>1. p[e] - 1 \in 0 .. n - 1 /\ (p[e] - 1) + 1 = p[e] /\ order[p[e]] = e.id
    BY <1>1, <1>7
  <2>2. q \in 0 .. n - 1 /\ order[q + 1] = e.id
    <3>1. \E k \in 0 .. n - 1 : order[k + 1] = e.id
      BY <2>1
    <3> QED BY <3>1
  <2>3. MovedTo(r, order, e.id) = SizeBefore(r, order, q)
    BY <1>0 DEF MovedTo
  <2> HIDE DEF q
  <2>4. q + 1 \in 1 .. n
    BY <1>1, <2>2
  <2>5. q + 1 = p[e]
    BY <1>7, <1>8, <2>2, <2>4
  <2>6. q = p[e] - 1
    BY <2>1, <2>2, <2>5
  <2> QED BY <2>3, <2>6
<1>11. Arrived(r, order, l) = Shifted(l, p, S)
  <2>1. ASSUME NEW e \in l PROVE MovedTo(r, order, e.id) = S[p[e] - 1]
    <3>1. p[e] - 1 \in 0 .. n
      BY <1>1, <1>7
    <3> QED BY <1>0, <1>10, <3>1
  <2> QED BY <2>1 DEF Arrived, Shifted
<1> QED BY <1>5, <1>6, <1>9, <1>11 DEF n, o, z, S

(* The moves of all blocks go to the left, each behind the one before.     *)
LEMMA MovesLeftwards ==
    ASSUME NEW o, NEW z, NEW n, NEW cap, Row(o, z, n, cap), NEW S, Sums(S, z, n),
           NEW ms, MovesSoFar(o, z, S, ms, n)
    PROVE  Leftwards(ms) /\ \A i \in 1 .. Len(ms) : ms[i].src + ms[i].size <= cap
<1>1. Leftwards(ms)
  BY DEF MovesSoFar, Leftwards
<1>2. ASSUME NEW i \in 1 .. Len(ms) PROVE ms[i].src + ms[i].size <= cap
  <2>1. ms # <<>>
    <3>1. ms = <<>> => Len(ms) = 0
      OBVIOUS
    <3> QED BY <3>1
  <2>2. n \in 1 .. n
    BY <2>1 DEF MovesSoFar, Row
  <2>3. o[n] + z[n] <= cap /\ ms[i].src + ms[i].size <= o[n] + z[n]
    BY <2>2 DEF MovesSoFar, Row
  <2>4. /\ o[n] \in Nat /\ z[n] \in Nat /\ cap \in Nat
        /\ ms[i].src \in Nat /\ ms[i].size \in Nat
    <3>1. ms[i] \in MoveRecord
      BY DEF MovesSoFar
    <3> QED BY <2>2, <3>1 DEF Row, MoveRecord
  <2> DEFINE a == ms[i].src + ms[i].size
             b == o[n] + z[n]
  <2>5. a \in Nat /\ b \in Nat /\ a <= b /\ b <= cap
    BY <2>3, <2>4
  <2>6. a <= cap
    <3> HIDE DEF a, b
    <3> QED BY ONLY <2>4, <2>5
  <2> QED BY <2>6
<1> QED BY <1>1, <1>2

(* Every cell of every block comes to the new place of its block.          *)
LEMMA MovesDeliver ==
    ASSUME NEW o, NEW z, NEW n, NEW cap, Row(o, z, n, cap), NEW S, Sums(S, z, n),
           NEW ms, MovesSoFar(o, z, S, ms, n), NEW X, NEW c \in Memories(cap, X),
           NEW j \in 1 .. n, NEW t \in Nat, t < z[j]
    PROVE  S[j - 1] + t \in 0 .. cap - 1 /\ Carried(c, ms)[S[j - 1] + t] = c[o[j] + t]
<1> DEFINE x == S[j - 1] + t
<1>1. /\ o[j] \in Nat /\ z[j] \in Nat /\ cap \in Nat /\ o[j] + z[j] <= cap
      /\ S[j - 1] \in Nat /\ S[j] = S[j - 1] + z[j] /\ S[j] \in Nat
  <2>1. j - 1 \in 0 .. n /\ j \in 0 .. n
    BY DEF Row
  <2> QED BY <2>1 DEF Row, Sums
<1>2. S[j - 1] <= o[j]
  BY RowSums
<1>3. x \in 0 .. cap - 1 /\ x \in Nat /\ S[j - 1] <= x /\ x < S[j]
  BY <1>1, <1>2
<1>4. LeftInOrder(ms, cap)
  <2>1. Leftwards(ms) /\ \A i \in 1 .. Len(ms) : ms[i].src + ms[i].size <= cap
    BY MovesLeftwards
  <2>2. \A i \in 1 .. Len(ms) : ms[i].src \in Nat /\ ms[i].dst \in Nat
    <3>1. \A i \in 1 .. Len(ms) : ms[i] \in MoveRecord
      BY <2>1 DEF Leftwards
    <3> QED BY <3>1 DEF MoveRecord
  <2> QED BY <2>1, <2>2 DEF Leftwards, LeftInOrder
<1>5. /\ (\A i \in 1 .. Len(ms) : ~ Writes(ms[i], x)) => Carried(c, ms)[x] = c[x]
      /\ \A i \in 1 .. Len(ms) :
           Writes(ms[i], x) => Carried(c, ms)[x] = c[x - ms[i].dst + ms[i].src]
  <2> HIDE DEF x
  <2>1. \A y \in 0 .. cap - 1 :
          /\ (\A i \in 1 .. Len(ms) : ~ Writes(ms[i], y)) => Carried(c, ms)[y] = c[y]
          /\ \A i \in 1 .. Len(ms) :
               Writes(ms[i], y) => Carried(c, ms)[y] = c[y - ms[i].dst + ms[i].src]
    BY ONLY c \in Memories(cap, X), <1>1, <1>4, CarriedInOrder
  <2> QED BY ONLY <1>3, <2>1, Zenon
<1>6. Carries(o, z, S, ms, j)
  BY DEF MovesSoFar
<1>7. CASE o[j] = S[j - 1] /\ \A i \in 1 .. Len(ms) : S[j] <= ms[i].dst
  <2>1. ASSUME NEW i \in 1 .. Len(ms) PROVE ~ Writes(ms[i], x)
    <3> DEFINE d == ms[i].dst
    <3>1. d \in Nat
      <4>1. ms[i] \in MoveRecord
        BY DEF MovesSoFar
      <4> QED BY <4>1 DEF MoveRecord
    <3>2. S[j] <= d
      BY <1>7
    <3>3. ~ (d <= x)
      <4> HIDE DEF d, x
      <4> QED BY ONLY <1>1, <1>3, <3>1, <3>2
    <3> QED BY <3>3 DEF Writes
  <2> QED BY <1>3, <1>5, <1>7, <2>1
<1>8. CASE \E i \in 1 .. Len(ms) :
             /\ ms[i].src <= o[j] /\ o[j] + z[j] <= ms[i].src + ms[i].size
             /\ ms[i].src - ms[i].dst = o[j] - S[j - 1]
  <2>1. PICK i \in 1 .. Len(ms) :
             /\ ms[i].src <= o[j] /\ o[j] + z[j] <= ms[i].src + ms[i].size
             /\ ms[i].src - ms[i].dst = o[j] - S[j - 1]
    BY <1>8
  <2> DEFINE s == ms[i].src
             d == ms[i].dst
             y == ms[i].size
             u == S[j - 1]
             v == o[j]
             w == z[j]
  <2>2. s \in Nat /\ d \in Nat /\ y \in Nat /\ u \in Nat /\ v \in Nat /\ w \in Nat
    <3>1. ms[i] \in MoveRecord
      BY DEF MovesSoFar
    <3> QED BY <1>1, <3>1 DEF MoveRecord
  <2>3. s <= v /\ v + w <= s + y /\ s - d = v - u /\ t < w /\ x = u + t
    BY <2>1
  <2>4. d <= x /\ x < d + y /\ x - d + s = v + t
    <3> HIDE DEF s, d, y, u, v, w, x
    <3> QED BY ONLY <2>2, <2>3, t \in Nat
  <2>5. Writes(ms[i], x)
    BY <2>4 DEF Writes
  <2> QED BY <1>3, <1>5, <2>4, <2>5
<1> QED BY <1>6, <1>7, <1>8 DEF Carries

(* Memory as the blocks see it.                                            *)
LEMMA ContentsAt ==
    ASSUME NEW r, NEW l, NEW cap, LiveIn(r, l, cap), NEW e \in l, NEW t \in Nat, t < e.size
    PROVE  Contents(l, cap)[e.offset + t] = <<e.id, t>>
<1> DEFINE x == e.offset + t
           here == {b \in l : x \in b.offset .. b.offset + b.size - 1}
<1>1. \A b \in l : b.offset \in Nat /\ b.size \in Nat
  BY BlockishFields DEF LiveIn
<1>2. e.offset + e.size <= cap /\ cap \in Nat
  BY DEF LiveIn
<1>3. x \in 0 .. cap - 1 /\ x \in Nat /\ x - e.offset = t
  BY <1>1, <1>2
<1>4. here = {e}
  <2>1. e \in here
    BY <1>1, <1>3
  <2>2. ASSUME NEW b \in here, b # e PROVE FALSE
    <3>1. e.offset + e.size <= b.offset \/ b.offset + b.size <= e.offset
      BY <2>2 DEF LiveIn
    <3>2. /\ b.offset \in Nat /\ b.size \in Nat /\ e.offset \in Nat /\ e.size \in Nat
          /\ b.offset <= x /\ x < b.offset + b.size
      BY <1>1, <1>3
    <3> QED BY <3>1, <3>2
  <2> QED BY <2>1, <2>2
<1>5. Contents(l, cap)[x] = IF here = {} THEN <<>>
                            ELSE <<(CHOOSE b \in here : TRUE).id, x - (CHOOSE b \in here : TRUE).offset>>
  <2> HIDE DEF x
  <2> QED BY <1>3 DEF Contents
<1>6. here # {} /\ (CHOOSE b \in here : TRUE) = e
  <2> HIDE DEF here
  <2> QED BY <1>4
<1> HIDE DEF here
<1> QED BY <1>3, <1>5, <1>6

LEMMA ContentsIsMemory ==
    ASSUME NEW l, NEW cap \in Nat
    PROVE  \E X : Contents(l, cap) \in Memories(cap, X)
<1> DEFINE c == Contents(l, cap)
           X == {c[x] : x \in 0 .. cap - 1}
<1>1. c = [x \in 0 .. cap - 1 |-> c[x]]
  BY DEF Contents
<1> HIDE DEF c
<1>2. c \in [0 .. cap - 1 -> X]
  BY <1>1
<1> QED BY <1>2 DEF Memories, c

LEMMA ShiftedBlock ==
    ASSUME NEW l, l \subseteq Blockish, NEW p, NEW S, NEW b \in Shifted(l, p, S)
    PROVE  \E e \in l : b.id = e.id /\ b.size = e.size /\ b.offset = S[p[e] - 1]
<1>1. PICK e \in l : b = [e EXCEPT !.offset = S[p[e] - 1]]
  BY DEF Shifted
<1>2. e = [id |-> e.id, offset |-> e.offset, size |-> e.size]
  BY DEF Blockish
<1>3. b.id = e.id /\ b.size = e.size /\ b.offset = S[p[e] - 1]
  BY <1>1, <1>2
<1> QED BY <1>3

LEMMA ShiftedFrom ==
    ASSUME NEW l, l \subseteq Blockish, NEW p, NEW S, NEW e \in l
    PROVE  \E b \in Shifted(l, p, S) : b.id = e.id /\ b.size = e.size /\ b.offset = S[p[e] - 1]
<1> DEFINE b == [e EXCEPT !.offset = S[p[e] - 1]]
<1>1. b \in Shifted(l, p, S)
  BY DEF Shifted
<1>2. e = [id |-> e.id, offset |-> e.offset, size |-> e.size]
  BY DEF Blockish
<1>3. b.id = e.id /\ b.size = e.size /\ b.offset = S[p[e] - 1]
  BY <1>2
<1> QED BY <1>1, <1>3

(* What the moves and the copies bring to the blocks.                      *)
LEMMA BlocksArrive ==
    ASSUME NEW r, NEW l, NEW cap, LiveIn(r, l, cap),
           NEW o, NEW z, NEW n, Row(o, z, n, cap), NEW S, Sums(S, z, n),
           NEW p, Matched(l, p, o, z, n), NEW ms, MovesSoFar(o, z, S, ms, n)
    PROVE  /\ Holds(Carried(Contents(l, cap), ms), Shifted(l, p, S))
           /\ Holds(Carried(Contents(l, cap), DisjunctCopies(ms)), Shifted(l, p, S))
<1> DEFINE c == Contents(l, cap)
           cs == DisjunctCopies(ms)
<1>1. cap \in Nat /\ l \subseteq Blockish
  BY DEF LiveIn
<1>2. PICK X : c \in Memories(cap, X)
  BY <1>1, ContentsIsMemory
<1>3. Leftwards(ms) /\ \A i \in 1 .. Len(ms) : ms[i].src + ms[i].size <= cap
  BY MovesLeftwards
<1>4. \A x \in 0 .. cap - 1 : Carried(c, cs)[x] = Carried(c, ms)[x]
  <2> HIDE DEF c
  <2> QED BY <1>1, <1>2, <1>3, CopiesCarry
<1> HIDE DEF c, cs
<1>5. ASSUME NEW b \in Shifted(l, p, S), NEW t \in 0 .. b.size - 1
      PROVE  /\ Carried(c, ms)[b.offset + t] = <<b.id, t>>
             /\ Carried(c, cs)[b.offset + t] = <<b.id, t>>
  <2>1. PICK e \in l : b.id = e.id /\ b.size = e.size /\ b.offset = S[p[e] - 1]
    BY <1>1, ShiftedBlock
  <2>2. p[e] \in 1 .. n /\ o[p[e]] = e.offset /\ z[p[e]] = e.size
    BY DEF Matched
  <2>3. e.size \in Nat
    BY <1>1, BlockishFields
  <2>4. t \in Nat /\ t < e.size
    BY <2>1, <2>3
  <2> DEFINE j == p[e]
  <2>5. j \in 1 .. n /\ t < z[j]
    BY <2>2, <2>4
  <2> HIDE DEF j
  <2>6. S[j - 1] + t \in 0 .. cap - 1 /\ Carried(c, ms)[S[j - 1] + t] = c[o[j] + t]
    BY <1>2, <2>4, <2>5, MovesDeliver
  <2>7. c[e.offset + t] = <<e.id, t>>
    BY <2>4, ContentsAt DEF c
  <2> QED BY <1>4, <2>1, <2>2, <2>6, <2>7 DEF j
<1> QED BY <1>5 DEF Holds, c, cs

(* The memory that blocks take.                                            *)
Cells(blocks) == UNION {b.offset .. b.offset + b.size - 1 : b \in blocks}

(* Pushed together, the blocks fill the memory from its start.             *)
LEMMA BlocksFill ==
    ASSUME NEW l, l \subseteq Blockish, NEW o, NEW z, NEW n, NEW cap, Row(o, z, n, cap),
           NEW S, Sums(S, z, n), NEW p, Matched(l, p, o, z, n)
    PROVE  Cells(Shifted(l, p, S)) = 0 .. S[n] - 1
<1> DEFINE M == Shifted(l, p, S)
           U == UNION {b.offset .. b.offset + b.size - 1 : b \in M}
<1>1. /\ n \in Nat /\ S[0] = 0 /\ \A k \in 0 .. n : S[k] \in Nat
      /\ \A k \in 1 .. n : S[k] = S[k - 1] + z[k] /\ z[k] \in Nat
      /\ \A j, k \in 0 .. n : j <= k => S[j] <= S[k]
  <2>1. \A j, k \in 0 .. n : j <= k => S[j] <= S[k]
    BY RowSums
  <2> QED BY <2>1 DEF Row, Sums
<1>2. ASSUME NEW x \in U PROVE x \in 0 .. S[n] - 1
  <2>1. PICK b \in M : x \in b.offset .. b.offset + b.size - 1
    OBVIOUS
  <2>2. PICK e \in l : b.id = e.id /\ b.size = e.size /\ b.offset = S[p[e] - 1]
    BY ShiftedBlock
  <2>3. p[e] \in 1 .. n /\ z[p[e]] = e.size
    BY DEF Matched
  <2>4. /\ p[e] \in 0 .. n /\ p[e] - 1 \in 0 .. n /\ n \in 0 .. n /\ p[e] <= n
    BY <1>1, <2>3
  <2>5. /\ S[p[e]] = b.offset + b.size /\ S[p[e]] <= S[n]
        /\ b.offset \in Nat /\ b.size \in Nat /\ S[n] \in Nat
    BY <1>1, <2>2, <2>3, <2>4
  <2> HIDE DEF U, M
  <2> QED BY <2>1, <2>5
<1>3. ASSUME NEW x \in 0 .. S[n] - 1 PROVE x \in U
  <2> DEFINE A == {k \in 0 .. n : x < S[k]}
  <2>1. n \in A /\ A \in SUBSET Nat /\ x \in Nat
    BY <1>1
  <2>2. PICK k \in A : \A j \in A : k <= j
    <3> HIDE DEF A
    <3> QED BY <2>1, NatMin
  <2>3. k \in 0 .. n /\ x < S[k] /\ k # 0
    BY <1>1, <2>1, <2>2
  <2>4. k \in 1 .. n /\ k - 1 \in 0 .. n /\ ~ (k <= k - 1)
    BY <1>1, <2>3
  <2>5. S[k - 1] <= x
    BY <1>1, <2>1, <2>2, <2>4
  <2>6. PICK e \in l : p[e] = k
    BY <2>4 DEF Matched
  <2>7. PICK b \in M : b.id = e.id /\ b.size = e.size /\ b.offset = S[p[e] - 1]
    BY ShiftedFrom
  <2>8. b.offset = S[k - 1] /\ b.size = z[k]
    BY <2>6, <2>7 DEF Matched
  <2>9. x \in b.offset .. b.offset + b.size - 1
    BY <1>1, <2>1, <2>3, <2>4, <2>5, <2>8
  <2> QED BY <2>9
<1> HIDE DEF U
<1>4. U = 0 .. S[n] - 1
  BY <1>2, <1>3
<1> QED BY <1>4 DEF U, Cells

(* The sum of the sizes is what compactUsedNodes() adds up.                *)
LEMMA SizesAddUp ==
    ASSUME NEW l, l \subseteq Blockish, IsFiniteSet(l), NEW o, NEW z, NEW n, NEW cap,
           Row(o, z, n, cap), NEW S, Sums(S, z, n), NEW p, Matched(l, p, o, z, n)
    PROVE  SumOf(l, LAMBDA a : a.size) = S[n]
<1> DEFINE w == [e \in l |-> e.size]
           First(k) == {e \in l : p[e] <= k}
<1>1. /\ n \in Nat /\ S[0] = 0 /\ \A k \in 1 .. n : S[k] = S[k - 1] + z[k]
      /\ \A e \in l : p[e] \in 1 .. n /\ z[p[e]] = e.size /\ w[e] = e.size
      /\ \A e, f \in l : p[e] = p[f] => e = f
      /\ \A k \in 1 .. n : \E e \in l : p[e] = k
  BY DEF Row, Sums, Matched
<1>2. \A e \in l : w[e] \in Nat
  BY BlockishFields
<1> HIDE DEF w
<1>3. PICK g : SumsTo(g, l, w)
  BY <1>2, SumExists
<1>4. SumOf(l, LAMBDA a : a.size) = g[l]
  BY <1>1, <1>3, SumOfEntries
<1> DEFINE T == {k \in 0 .. n : g[First(k)] = S[k]}
<1>5. 0 \in T
  <2>1. First(0) = {}
    BY <1>1
  <2> HIDE DEF First
  <2>2. g[First(0)] = S[0]
    BY <1>1, <1>3, <2>1 DEF SumsTo
  <2> QED BY <1>1, <2>2
<1>6. ASSUME NEW k \in 1 .. n, k - 1 \in T PROVE k \in T
  <2>1. PICK e \in l : p[e] = k
    BY <1>1
  <2>2. First(k) \in SUBSET l /\ e \in First(k) /\ First(k) \ {e} = First(k - 1)
    <3>1. ASSUME NEW f \in l PROVE (p[f] <= k /\ f # e) <=> p[f] <= k - 1
      <4>1. p[f] \in 1 .. n /\ (p[f] = k => f = e)
        BY <1>1, <2>1
      <4> QED BY <1>1, <2>1, <4>1
    <3> QED BY <2>1, <3>1
  <2> HIDE DEF First
  <2>3. g[First(k)] = g[First(k) \ {e}] + w[e]
    BY <1>3, <2>2 DEF SumsTo
  <2>4. w[e] = z[k] /\ g[First(k - 1)] = S[k - 1]
    BY <1>1, <1>6, <2>1
  <2>5. g[First(k) \ {e}] = g[First(k - 1)]
    BY <2>2
  <2>6. g[First(k)] = S[k - 1] + z[k]
    BY <2>3, <2>4, <2>5
  <2>7. g[First(k)] = S[k]
    BY <1>1, <2>6
  <2> QED BY <2>7
<1>7. n \in T
  <2>1. \A k \in 1 .. n : k - 1 \in T => k \in T
    BY <1>6
  <2>2. \A k \in 0 .. n : k \in T
    <3> HIDE DEF T
    <3> QED BY ONLY <1>1, <1>5, <2>1, UpTo
  <2> QED BY <1>1, <2>2
<1>8. First(n) = l
  BY <1>1
<1> QED BY <1>4, <1>7, <1>8

(* The order of the blocks stays, and their ids and sizes.                 *)
LEMMA BlocksKeepOrder ==
    ASSUME NEW r, NEW l, NEW cap, LiveIn(r, l, cap),
           NEW o, NEW z, NEW n, Row(o, z, n, cap), NEW S, Sums(S, z, n),
           NEW p, Matched(l, p, o, z, n), NEW a \in l, NEW b \in l,
           NEW c \in Shifted(l, p, S), NEW d \in Shifted(l, p, S), a.id = c.id, b.id = d.id
    PROVE  a.size = c.size /\ (a.offset < b.offset => c.offset < d.offset)
<1>1. PICK e \in l : c.id = e.id /\ c.size = e.size /\ c.offset = S[p[e] - 1]
  BY ShiftedBlock DEF LiveIn
<1>2. PICK f \in l : d.id = f.id /\ d.size = f.size /\ d.offset = S[p[f] - 1]
  BY ShiftedBlock DEF LiveIn
<1>3. e = a /\ f = b
  BY <1>1, <1>2 DEF LiveIn
<1>4. /\ p[a] \in 1 .. n /\ p[b] \in 1 .. n /\ n \in Nat
      /\ o[p[a]] = a.offset /\ o[p[b]] = b.offset /\ z[p[a]] >= 1 /\ z[p[b]] >= 1
  BY DEF Matched, Row
<1>5. ASSUME a.offset < b.offset PROVE S[p[a] - 1] < S[p[b] - 1]
  <2>1. a.offset \in Nat /\ b.offset \in Nat /\ z[p[b]] \in Nat
    BY <1>4 DEF Row
  <2>2. p[a] # p[b]
    BY <1>4, <1>5, <2>1
  <2>3. ~ (p[b] < p[a])
    <3>1. p[b] < p[a] => o[p[b]] + z[p[b]] <= o[p[a]]
      BY <1>4 DEF Row
    <3> QED BY <1>4, <1>5, <2>1, <3>1
  <2>4. p[a] < p[b]
    BY <1>4, <2>2, <2>3
  <2> DEFINE i == p[a]
             j == p[b]
  <2>5. i \in 1 .. n /\ j \in 1 .. n /\ i < j /\ z[i] >= 1
    BY <1>4, <2>4
  <2> HIDE DEF i, j
  <2>6. S[i] <= S[j - 1]
    BY <2>5, RowSums
  <2>7. /\ i - 1 \in 0 .. n /\ j - 1 \in 0 .. n /\ i \in 0 .. n
    BY <1>4, <2>5
  <2>8. /\ S[i] = S[i - 1] + z[i] /\ S[i] \in Nat /\ S[i - 1] \in Nat /\ S[j - 1] \in Nat
        /\ z[i] \in Nat
    BY <2>5, <2>7 DEF Sums, Row
  <2>9. S[i - 1] < S[j - 1]
    BY <2>5, <2>6, <2>8
  <2> QED BY <2>9 DEF i, j
<1> QED BY <1>1, <1>2, <1>3, <1>5

(* The sizes of blocks together.                                           *)
TotalSize(blocks) == SumOf(blocks, LAMBDA a : a.size)

(* The blocks stay in their order, with their ids and sizes.               *)
OrderKept(before, after) ==
    \A a, b \in before : \A c, d \in after :
        a.id = c.id /\ b.id = d.id =>
            /\ a.size = c.size
            /\ a.offset < b.offset => c.offset < d.offset

(* The moves bring the data of blocks to the blocks after, as do the copies, *)
(* and those leave no gap.                                                 *)
Rearranges(blocks, capacity, moves, copies, after) ==
    /\ moves \in Seq(MoveRecord)
    /\ Holds(Carried(Contents(blocks, capacity), moves), after)
    /\ Holds(Carried(Contents(blocks, capacity), copies), after)
    /\ \A i \in DOMAIN copies : copies[i].dst + copies[i].size <= copies[i].src
    /\ Cells(after) = 0 .. TotalSize(blocks) - 1
    /\ OrderKept(blocks, after)

(* One defragmentation.                                                    *)
LEMMA Rearranged ==
    ASSUME NEW r, NEW l, NEW cap, LiveIn(r, l, cap), NEW ascending,
           NEW order, order = SortedNodes(r, ascending),
           NEW m, m = Arrived(r, order, l), NEW ms, ms = Moves(r, order),
           NEW cs, cs = DisjunctCopies(ms)
    PROVE  Rearranges(l, cap, ms, cs, m)
<1>1. PICK n : n = Len(order)
  OBVIOUS
<1>2. PICK o : o = OffsetsIn(r, order)
  OBVIOUS
<1>3. PICK z : z = SizesIn(r, order)
  OBVIOUS
<1>4. PICK S : S = StartsIn(r, order)
  OBVIOUS
<1>5. Ordered(r, order, UsedNodes(r)) /\ l \subseteq Blockish
  BY LiveInOrder DEF LiveIn
<1>6. /\ Row(o, z, n, cap) /\ Sums(S, z, n)
      /\ \E p : Matched(l, p, o, z, n) /\ m = Shifted(l, p, S)
  BY <1>5, <1>1, <1>2, <1>3, <1>4, OrderMatches
<1>7. PICK p : Matched(l, p, o, z, n) /\ m = Shifted(l, p, S)
  BY <1>6
<1>8. MovesSoFar(o, z, S, ms, n)
  BY <1>6, <1>1, <1>2, <1>3, <1>4, MovesReported
<1>9. ms \in Seq(MoveRecord)
  BY <1>8 DEF MovesSoFar
<1>10. Holds(Carried(Contents(l, cap), ms), m) /\ Holds(Carried(Contents(l, cap), cs), m)
  BY <1>6, <1>7, <1>8, BlocksArrive
<1>11. \A i \in DOMAIN cs : cs[i].dst + cs[i].size <= cs[i].src
  <2>1. Leftwards(ms)
    BY <1>6, <1>8, MovesLeftwards
  <2>2. Disjoined(cs)
    BY <2>1, CopiesCut DEF CutSoFar
  <2>3. DOMAIN cs = 1 .. Len(cs)
    BY <2>2 DEF Disjoined
  <2> QED BY <2>2, <2>3 DEF Disjoined
<1>12. Cells(m) = 0 .. S[n] - 1
  BY <1>5, <1>6, <1>7, BlocksFill
<1>13. IsFiniteSet(l)
  <2> DEFINE h == [e \in l |-> e.id]
  <2>1. h \in [l -> UsedNodes(r)] /\ \A e, f \in l : h[e] = h[f] => e = f
    BY DEF LiveIn
  <2>2. h \in Injection(l, UsedNodes(r))
    <3> HIDE DEF h
    <3> QED BY <2>1 DEF Injection, IsInjective
  <2> HIDE DEF h
  <2> QED BY <2>2, FS_Injection DEF LiveIn
<1>14. TotalSize(l) = S[n]
  BY <1>5, <1>6, <1>7, <1>13, SizesAddUp DEF TotalSize
<1>15. \A a, b \in l : \A c, d \in m :
         a.id = c.id /\ b.id = d.id =>
             /\ a.size = c.size
             /\ a.offset < b.offset => c.offset < d.offset
  <2> SUFFICES ASSUME NEW a \in l, NEW b \in l, NEW c \in m, NEW d \in m, a.id = c.id, b.id = d.id
               PROVE  a.size = c.size /\ (a.offset < b.offset => c.offset < d.offset)
    OBVIOUS
  <2>1. c \in Shifted(l, p, S) /\ d \in Shifted(l, p, S)
    BY <1>7
  <2> QED BY <1>6, <1>7, <2>1, BlocksKeepOrder
<1> QED BY <1>9, <1>10, <1>11, <1>12, <1>14, <1>15 DEF Rearranges, OrderKept

-----------------------------------------------------------------------------
(* clear()                                                                 *)
LEMMA ClearedWhole ==
    ASSUME NEW N \in Nat, N >= 2, NEW r, NEW B, Sound(r, N, B),
           NEW q, q = ClearResult(r, 1)
    PROVE  q.free = q.capacity /\ MaxAlloc(q) = ToUint(FloorToFloat(q.capacity))
<1> DEFINE e == [ResetBins(r) EXCEPT !.ptr = 0]
           b == FloorToFloat(Capacity)
           tb == [x \in Bins |-> None]
<1>1. Capacity \in Nat /\ Capacity >= 1 /\ Capacity \in 0 .. Capacity
  BY MiniramAssumption
<1>2. b \in Bins
  BY <1>1, ClassInBins
<1>3. r \in Objects(N) /\ r.capacity = Capacity
  BY DEF Sound
<1>4. /\ e.free = 0 /\ e.top = {} /\ e.leaf = {} /\ e.bin = tb /\ e.ptr = 0
      /\ e.capacity = Capacity /\ e.node = r.node
      /\ DOMAIN e = DOMAIN r
  <2>1. r = [node |-> r.node, freeNodes |-> r.freeNodes, ptr |-> r.ptr, bin |-> r.bin,
             leaf |-> r.leaf, top |-> r.top, free |-> r.free,
             capacity |-> r.capacity, failed |-> r.failed]
    BY <1>3, Zenon DEF Objects
  <2>2. e = [[r EXCEPT !.free = 0, !.top = {}, !.leaf = {}, !.bin = tb] EXCEPT !.ptr = 0]
    BY Zenon DEF ResetBins
  <2> HIDE DEF tb, e
  <2> QED BY <1>3, <2>1, <2>2
<1>5. Nodes(e) = N /\ N \in Nat /\ 1 <= N /\ ~ (0 >= N)
  BY <1>3, <1>4, NodesIs DEF Nodes
<1> HIDE DEF e
<1>6. ClearResult(r, 1) = InsertNode(ReserveNodes(e, 1), e.capacity, 0)
  BY <1>3, <1>4 DEF ClearResult, e
<1>7. ReserveNodes(e, 1) = e
  BY <1>5 DEF ReserveNodes
<1>8. q = InsertNode(e, Capacity, 0)
  BY <1>4, <1>6, <1>7
<1>9. e.bin[b] = None /\ 0 + Capacity = Capacity
  BY <1>1, <1>2, <1>4
<1>10. /\ q.free = Capacity /\ q.capacity = Capacity /\ q.leaf = {b} /\ q.top = {TopBin(b)}
  <2> DEFINE id == NextFreeNode(e)
             w == [e.node EXCEPT ![id] = [Unused EXCEPT !.offset = 0, !.size = Capacity,
                                                        !.binNext = e.bin[b]]]
             h == [e.bin EXCEPT ![b] = id]
             q1 == [e EXCEPT !.free = e.free + Capacity]
             q2 == [q1 EXCEPT !.ptr = e.ptr + 1]
             q3 == [q2 EXCEPT !.top = e.top \cup {TopBin(b)}]
             q4 == [q3 EXCEPT !.leaf = e.leaf \cup {b}]
             q5 == [q4 EXCEPT !.node = w]
             q6 == [q5 EXCEPT !.bin = h]
  <2>1. DOMAIN e = {"node", "freeNodes", "ptr", "bin", "leaf", "top", "free", "capacity", "failed"}
    BY <1>3, <1>4, ObjectDomain
  <2>2. InsertNode(e, Capacity, 0) = q6
    BY <1>4, <1>5, <1>9, <2>1 DEF InsertNode
  <2> HIDE DEF w, h, b
  <2>3. /\ q6.free = e.free + Capacity /\ q6.capacity = e.capacity
        /\ q6.leaf = e.leaf \cup {b} /\ q6.top = e.top \cup {TopBin(b)}
    BY ONLY <2>1
  <2> HIDE DEF q6
  <2> QED BY <1>1, <1>4, <1>8, <2>2, <2>3
<1>11. b \in Nat /\ TopBin(b) \in Nat
  BY <1>2, TopBinType
<1> HIDE DEF b
<1>12. Max({TopBin(b)}) = TopBin(b) /\ Max({b}) = b
  <2>1. /\ {b} \in SUBSET Nat /\ {b} # {} /\ \A y \in {b} : y <= b
        /\ {TopBin(b)} \in SUBSET Nat /\ {TopBin(b)} # {}
        /\ \A y \in {TopBin(b)} : y <= TopBin(b)
    BY <1>11
  <2>2. Max({b}) \in {b}
    BY <1>11, <2>1, MaxIs
  <2>3. Max({TopBin(b)}) \in {TopBin(b)}
    BY <1>11, <2>1, MaxIs
  <2> QED BY <2>2, <2>3
<1>13. {x \in q.leaf : TopBin(x) = Max(q.top)} = {b}
  BY <1>10, <1>12
<1>14. MaxAlloc(q) = ToUint(Max({b}))
  BY <1>1, <1>10, <1>13 DEF MaxAlloc
<1> QED BY <1>10, <1>12, <1>14 DEF b

-----------------------------------------------------------------------------
(* The first call of clear(), defragment() or resize().                    *)

LEMMA LiveInOf ==
    ASSUME IInv, 0 \notin Requests
    PROVE  LiveIn(ram, live, Capacity) /\ ram.capacity = Capacity
<1>1. PICK N, B : /\ N \in Nat /\ N >= 2 /\ N <= MaxNodes
                  /\ Sound(ram, N, B) /\ Held(ram, live, B)
  BY DEF IInv
<1>2. /\ ram \in Objects(N) /\ ram.capacity = Capacity /\ DOMAIN ram.node = Numbers(N)
      /\ B \subseteq Numbers(N) /\ OnlyBlocksUsed(ram, N, B)
  BY <1>1, NodesIs DEF Sound, Stacked
<1>3. Requests \subseteq Nat /\ Capacity \in Nat
  BY MiniramAssumption
<1>4. live \subseteq Blockish
  BY <1>1, <1>3 DEF Held, Entries, Blockish
<1>5. IsFiniteSet(UsedNodes(ram))
  <2>1. UsedNodes(ram) \in SUBSET Numbers(N)
    BY <1>2 DEF UsedNodes
  <2>2. IsFiniteSet(Numbers(N))
    BY <1>1, FS_Interval DEF Numbers
  <2> QED BY <2>1, <2>2, FS_Subset
<1>6. ASSUME NEW i \in UsedNodes(ram) PROVE \E e \in live : e.id = i
  <2>1. i \in Numbers(N) /\ ram.node[i].used
    BY <1>2 DEF UsedNodes
  <2>2. i \in B
    BY <1>2, <2>1 DEF OnlyBlocksUsed
  <2> QED BY <1>1, <2>1, <2>2 DEF Held
<1>7. ASSUME NEW e \in live
      PROVE  /\ e.id \in UsedNodes(ram)
             /\ ram.node[e.id].offset = e.offset /\ ram.node[e.id].size = e.size
             /\ e.size >= 1 /\ e.offset + e.size <= Capacity
  <2>1. /\ e.id \in B /\ ram.node[e.id].used
        /\ ram.node[e.id].offset = e.offset /\ ram.node[e.id].size = e.size
    BY <1>1 DEF Held
  <2>2. e.size \in Requests
    BY <1>1 DEF Held, Entries
  <2>3. e.size \in Nat /\ e.size # 0
    BY <1>3, <2>2
  <2>4. ram.node[e.id].offset + ram.node[e.id].size <= Capacity
    BY <1>1, <2>1, BlockFacts DEF BlockOK
  <2> QED BY <1>2, <2>1, <2>3, <2>4 DEF UsedNodes
<1>8. \A e, f \in live : e # f =>
        /\ e.id # f.id
        /\ e.offset + e.size <= f.offset \/ f.offset + f.size <= e.offset
  BY InvIntact DEF LiveIntact
<1> QED BY <1>2, <1>3, <1>4, <1>5, <1>6, <1>7, <1>8 DEF LiveIn

(* What was reported, once something was.                                  *)
ReportRight ==
    JustCompacted => Rearranges(report.before, report.capacity, report.moves,
                                DisjunctCopies(report.moves), live)

(* defragment() and resize(), for clients that hold no empty block.        *)
LEMMA CompactRearranges ==
    ASSUME IInv, 0 \notin Requests, NEW capacity, Compact(capacity)
    PROVE  ReportRight' /\ ClearedIsWhole'
<1>1. PICK ascending \in BOOLEAN :
        IF ram'.failed THEN UNCHANGED <<live, report>>
        ELSE LET order == SortedNodes(ram, ascending)
                 Updated(id) == SizeBefore(ram, order,
                     CHOOSE k \in 0 .. Len(order) - 1 : order[k + 1] = id)
             IN  /\ live' = {[a EXCEPT !.offset = Updated(a.id)] : a \in live}
                 /\ report' = [before |-> live, capacity |-> ram.capacity,
                               moves |-> Moves(ram, order)]
  BY DEF Compact
<1>2. CASE ram'.failed
  BY <1>2 DEF ReportRight, ClearedIsWhole, JustCompacted
<1>3. CASE ~ ram'.failed
  <2>1. PICK r : r = ram
    OBVIOUS
  <2>2. PICK l : l = live
    OBVIOUS
  <2>3. PICK order : order = SortedNodes(r, ascending)
    OBVIOUS
  <2>4. PICK m : m = Arrived(r, order, l)
    OBVIOUS
  <2>5. PICK ms : ms = Moves(r, order)
    OBVIOUS
  <2>6. PICK cs : cs = DisjunctCopies(ms)
    OBVIOUS
  <2>8. LiveIn(r, l, Capacity) /\ ram.capacity = Capacity
    BY <2>1, <2>2, LiveInOf
  <2>9. live' = m /\ report' = [before |-> l, capacity |-> Capacity, moves |-> ms]
    <3>1. /\ live' = Arrived(ram, SortedNodes(ram, ascending), live)
          /\ report' = [before |-> live, capacity |-> ram.capacity,
                        moves |-> Moves(ram, SortedNodes(ram, ascending))]
      BY <1>1, <1>3, Zenon DEF Arrived, MovedTo
    <3> QED BY ONLY <2>1, <2>2, <2>3, <2>4, <2>5, <2>8, <3>1
  <2>10. report'.before = l /\ report'.capacity = Capacity /\ report'.moves = ms
    BY <2>9
  <2>11. Rearranges(l, Capacity, ms, cs, m)
    BY <2>3, <2>4, <2>5, <2>6, <2>8, Rearranged
  <2>12. report' # NoReport
    <3>1. l \subseteq Blockish /\ Capacity \in Nat
      BY <2>8 DEF LiveIn
    <3> QED BY <2>9, <2>11, <3>1, MiniramDefragAssumption DEF Rearranges, Blockish, MoveRecord
  <2>13. ReportRight'
    BY <2>6, <2>9, <2>10, <2>11 DEF ReportRight
  <2>14. ClearedIsWhole'
    BY <2>12 DEF ClearedIsWhole
  <2> QED BY <2>13, <2>14
<1> QED BY <1>2, <1>3

(* clear() before anything was reported.                                   *)
LEMMA ClearRearranges ==
    ASSUME IInv, report = NoReport, Clear
    PROVE  ReportRight' /\ ClearedIsWhole'
<1>1. PICK N, B : /\ N \in Nat /\ N >= 2 /\ Sound(ram, N, B)
  BY DEF IInv
<1>2. PICK q : q = ram'
  OBVIOUS
<1>3. q = ClearResult(ram, 1) /\ report' = NoReport
  BY <1>2 DEF Clear
<1>4. q.free = q.capacity /\ MaxAlloc(q) = ToUint(FloorToFloat(q.capacity))
  BY <1>1, <1>3, ClearedWhole
<1>5. ClearedIsWhole'
  BY <1>2, <1>4 DEF ClearedIsWhole
<1>6. ~ JustCompacted'
  BY <1>3 DEF JustCompacted
<1> QED BY <1>5, <1>6 DEF ReportRight

(* Until the first such call the object is one of MiniramInvariant and     *)
(* there is no report.                                                     *)
OnceInv ==
    /\ maintained \in Nat
    /\ maintained = 0 => IInv /\ report = NoReport
    /\ ReportRight /\ ClearedIsWhole

LEMMA OnceInit == DefragInit => OnceInv
<1> SUFFICES ASSUME DefragInit PROVE OnceInv
  OBVIOUS
<1>1. Init /\ report = NoReport /\ maintained = 0
  BY DEF DefragInit
<1>2. IInv
  BY <1>1, InvInit
<1>3. ReportRight /\ ClearedIsWhole
  BY <1>1 DEF ReportRight, ClearedIsWhole, JustCompacted
<1> QED BY <1>1, <1>2, <1>3 DEF OnceInv

LEMMA OnceNext ==
    ASSUME 0 \notin Requests
    PROVE  OnceInv /\ [maintained = 0 /\ DefragNext]_defragVars => OnceInv'
<1> SUFFICES ASSUME OnceInv, [maintained = 0 /\ DefragNext]_defragVars PROVE OnceInv'
  OBVIOUS
<1>1. CASE UNCHANGED defragVars
  <2>1. UNCHANGED <<ram, live, report, maintained>>
    BY <1>1 DEF defragVars, vars
  <2>2. IInv' <=> IInv
    BY <2>1 DEF IInv
  <2>3. ReportRight' /\ ClearedIsWhole'
    BY <2>1 DEF OnceInv, ReportRight, ClearedIsWhole, JustCompacted
  <2> QED BY <2>1, <2>2, <2>3 DEF OnceInv
<1>2. ASSUME maintained = 0 /\ DefragNext PROVE OnceInv'
  <2>1. maintained = 0 /\ IInv /\ report = NoReport
    BY <1>2 DEF OnceInv
  <2>2. CASE Use
    <3>1. Next /\ report' = NoReport /\ maintained' = 0
      BY <2>1, <2>2 DEF Use
    <3>2. IInv'
      BY <2>1, <3>1, InvNext
    <3>3. ReportRight' /\ ClearedIsWhole'
      BY <3>1 DEF ReportRight, ClearedIsWhole, JustCompacted
    <3> QED BY <3>1, <3>2, <3>3 DEF OnceInv
  <2>3. CASE Clear
    <3>1. maintained' = 1
      BY <2>1, <2>3 DEF Clear, Maintain
    <3>2. ReportRight' /\ ClearedIsWhole'
      BY <2>1, <2>3, ClearRearranges
    <3> QED BY <3>1, <3>2 DEF OnceInv
  <2>4. ASSUME NEW capacity, NEW operation, Maintain(operation), Compact(capacity) PROVE OnceInv'
    <3>1. maintained' = 1
      BY <2>1, <2>4 DEF Maintain
    <3>2. ReportRight' /\ ClearedIsWhole'
      BY <2>1, <2>4, CompactRearranges
    <3> QED BY <3>1, <3>2 DEF OnceInv
  <2>5. CASE Defragment
    BY <2>4, <2>5 DEF Defragment
  <2>6. ASSUME NEW capacity \in NewCapacities, Resize(capacity) PROVE OnceInv'
    BY <2>4, <2>6 DEF Resize
  <2> QED BY <1>2, <2>2, <2>3, <2>5, <2>6 DEF DefragNext
<1> QED BY <1>1, <1>2

(* miniram.inl, defragment(), resize() and clear(): from every state that  *)
(* allocate(), free() and reserve_allocations() reach, one of them leaves  *)
(* and reports what StorageRearranged says, for clients that hold no empty *)
(* block: the report carries the data of every client to its new offset,   *)
(* as moves and as copies, and the blocks lie side by side in their order. *)
THEOREM RearrangesStorage ==
    ASSUME 0 \notin Requests
    PROVE  OnceSpec => []StorageRearranged
<1>1. ASSUME OnceInv PROVE StorageRearranged
  <2>1. ReportRight /\ ClearedIsWhole
    BY <1>1 DEF OnceInv
  <2>2. MovesCarryData
    BY <2>1 DEF ReportRight, Rearranges, MovesCarryData, MemoryBefore
  <2>3. CopiesCarryData
    BY <2>1 DEF ReportRight, Rearranges, CopiesCarryData, MemoryBefore
  <2>4. LeftCompacted
    BY <2>1, Zenon DEF ReportRight, Rearranges, LeftCompacted, Cells, TotalSize, OrderKept
  <2> QED BY <2>1, <2>2, <2>3, <2>4 DEF StorageRearranged
<1> QED BY <1>1, OnceInit, OnceNext, PTL DEF OnceSpec
=============================================================================
