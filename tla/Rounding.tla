------------------------------ MODULE Rounding ------------------------------
(* Facts about \div and % by which the proofs follow sizes that are rounded  *)
(* down to a multiple of something, as src/plotter.rs does with the size of  *)
(* the plot, the memory and the buffers; and induction over the numbers.     *)
EXTENDS Integers, WellFoundedInduction, TLAPS

(* Division leaves a remainder below the divisor. *)
LEMMA DivMod ==
  ASSUME NEW a \in Int, NEW d \in Nat \ {0}
  PROVE  /\ a \div d \in Int /\ a % d \in 0 .. d - 1
         /\ a = (d * (a \div d)) + (a % d)
OBVIOUS

(* ... and quotient and remainder are the only ones. *)
LEMMA Unique ==
  ASSUME NEW d \in Nat \ {0}, NEW q \in Int, NEW r \in 0 .. d - 1, NEW p \in Int,
         NEW s \in 0 .. d - 1, d * q + r = d * p + s
  PROVE  q = p /\ r = s
OBVIOUS

(* A multiple leaves no remainder. *)
LEMMA MultipleMod ==
  ASSUME NEW d \in Nat \ {0}, NEW q \in Int
  PROVE  (d * q) % d = 0 /\ (d * q) \div d = q
<1>1. d * q \in Int
  OBVIOUS
<1>2. (d * q) \div d \in Int /\ (d * q) % d \in 0 .. d - 1
      /\ d * q = (d * ((d * q) \div d)) + ((d * q) % d)
  BY <1>1, DivMod
<1>3. d * q + 0 = (d * ((d * q) \div d)) + ((d * q) % d) /\ 0 \in 0 .. d - 1
  BY <1>1, <1>2
<1> DEFINE p == (d * q) \div d
           s == (d * q) % d
<1>4. p \in Int /\ s \in 0 .. d - 1 /\ d * q + 0 = d * p + s
  BY <1>2, <1>3
<1> HIDE DEF p, s
<1>5. q = p /\ 0 = s
  BY <1>3, <1>4, Unique
<1> QED BY <1>5 DEF p, s

(* What leaves no remainder is a multiple. *)
LEMMA IsMultiple ==
  ASSUME NEW d \in Nat \ {0}, NEW a \in Int, a % d = 0
  PROVE  a = d * (a \div d) /\ a \div d \in Int
BY DivMod

LEMMA SumOfMultiples ==
  ASSUME NEW d \in Nat \ {0}, NEW a \in Int, NEW b \in Int, a % d = 0, b % d = 0
  PROVE  (a + b) % d = 0 /\ (a - b) % d = 0
<1>1. PICK x \in Int : a = d * x
  BY IsMultiple
<1>2. PICK y \in Int : b = d * y
  BY IsMultiple
<1>3. a + b = d * (x + y) /\ a - b = d * (x - y) /\ x + y \in Int /\ x - y \in Int
  BY <1>1, <1>2
<1> DEFINE s == x + y  t == x - y
<1>4. s \in Int /\ t \in Int /\ a + b = d * s /\ a - b = d * t
  BY <1>3
<1> HIDE DEF s, t
<1> QED BY <1>4, MultipleMod

LEMMA ProductOfMultiple ==
  ASSUME NEW d \in Nat \ {0}, NEW a \in Int, NEW k \in Int, a % d = 0
  PROVE  (k * a) % d = 0
<1>1. PICK x \in Int : a = d * x
  BY IsMultiple
<1> DEFINE s == k * x
<1>2. s \in Int /\ k * a = d * s
  BY <1>1
<1> HIDE DEF s
<1> QED BY <1>2, MultipleMod

(* A multiple of a multiple. *)
LEMMA Transitive ==
  ASSUME NEW d \in Nat \ {0}, NEW e \in Nat \ {0}, NEW a \in Int, e % d = 0, a % e = 0
  PROVE  a % d = 0
<1>1. PICK x \in Int : a = x * e
  <2>1. a = e * (a \div e) /\ a \div e \in Int
    BY IsMultiple
  <2> DEFINE x == a \div e
  <2>2. x \in Int /\ a = e * x
    BY <2>1
  <2> HIDE DEF x
  <2>3. a = x * e
    BY <2>2
  <2> QED BY <2>2, <2>3
<1>e. e \in Int
  OBVIOUS
<1>2. (x * e) % d = 0
  BY <1>e, ProductOfMultiple, Zenon
<1> QED BY <1>1, <1>2

(* Rounding down. *)
LEMMA RoundDown ==
  ASSUME NEW a \in Nat, NEW d \in Nat \ {0}
  PROVE  /\ (a \div d) * d \in Nat /\ (a \div d) * d <= a /\ a < (a \div d) * d + d
         /\ ((a \div d) * d) % d = 0
<1> DEFINE q == a \div d
           r == a % d
<1>1. q \in Int /\ r \in 0 .. d - 1 /\ a = (d * q) + r
  BY DivMod
<1> HIDE DEF q, r
<1>2. q >= 0
  <2>1. q <= -1 => d * q <= -d
    BY <1>1
  <2> QED BY <1>1, <2>1
<1>3. q * d = d * q /\ q * d \in Nat
  BY <1>1, <1>2
<1>4. (d * q) % d = 0
  BY <1>1, MultipleMod
<1> QED BY <1>1, <1>3, <1>4 DEF q

LEMMA DivNat ==
  ASSUME NEW a \in Nat, NEW d \in Nat \ {0}
  PROVE  a \div d \in Nat /\ a \div d <= a
<1> DEFINE q == a \div d
           r == a % d
<1>1. q \in Int /\ r \in 0 .. d - 1 /\ a = (d * q) + r
  BY DivMod
<1> HIDE DEF q, r
<1>2. q >= 0
  <2>1. q <= -1 => d * q <= -d
    BY <1>1
  <2> QED BY <1>1, <2>1
<1>3. d * q >= q
  BY <1>1, <1>2
<1> QED BY <1>1, <1>2, <1>3 DEF q

(* Of a multiple of the product, either factor can be taken. *)
LEMMA Split ==
  ASSUME NEW d \in Nat \ {0}, NEW e \in Nat \ {0}, NEW a \in Int, a % (d * e) = 0
  PROVE  a \div d \in Int /\ a = d * (a \div d) /\ (a \div d) % e = 0
<1>1. d * e \in Nat \ {0}
  OBVIOUS
<1>2. PICK x \in Int : a = (d * e) * x
  <2> DEFINE m == d * e
  <2>1. m \in Nat \ {0} /\ a % m = 0
    BY <1>1
  <2> HIDE DEF m
  <2>2. a = m * (a \div m) /\ a \div m \in Int
    BY <2>1, IsMultiple
  <2> QED BY <2>2 DEF m
<1> DEFINE y == e * x
<1>3. y \in Int /\ a = d * y /\ y % e = 0
  BY <1>2, MultipleMod
<1> HIDE DEF y
<1>4. a \div d = y
  BY <1>3, MultipleMod
<1> QED BY <1>3, <1>4

(* What is below the divisor is its own remainder. *)
LEMMA SmallMod ==
  ASSUME NEW d \in Nat \ {0}, NEW a \in 0 .. d - 1
  PROVE  a % d = a
<1> DEFINE q == a \div d
           r == a % d
<1>1. a \in Int /\ q \in Int /\ r \in 0 .. d - 1 /\ a = (d * q) + r
  BY DivMod
<1> HIDE DEF q, r
<1>2. d * q + r = d * 0 + a /\ 0 \in Int
  BY <1>1
<1>3. r = a
  BY <1>1, <1>2, Unique
<1> QED BY <1>3 DEF r

-----------------------------------------------------------------------------
(* Induction.  The library's induction theorems take the property as an       *)
(* operator; here it is a set of numbers, which the provers can instantiate.  *)

(* The least number of a set. *)
LEMMA Least ==
  ASSUME NEW S, S \subseteq Nat, S # {}
  PROVE  \E m \in S : \A i \in S : m <= i
<1> DEFINE R == {p \in Nat \X Nat : p[1] < p[2]}
<1>1. IsWellFoundedOn(R, Nat)
  BY NatLessThanWellFounded DEF OpToRel
<1>2. PICK m \in S : \A y \in S : ~(<<y, m>> \in R)
  <2> HIDE DEF R
  <2> QED BY <1>1, WFMin
<1>3. ASSUME NEW i \in S PROVE m <= i
  <2>1. SUFFICES ASSUME i < m PROVE FALSE
    OBVIOUS
  <2>2. <<i, m>> \in Nat \X Nat /\ <<i, m>>[1] < <<i, m>>[2]
    BY <2>1
  <2>3. <<i, m>> \in R
    BY <2>2
  <2> QED BY <1>2, <2>3
<1> QED BY <1>3

(* A set that has 0, and with each number the next, has them all. *)
LEMMA SetInduction ==
  ASSUME NEW T, 0 \in T, \A n \in Nat : n \in T => n + 1 \in T
  PROVE  Nat \subseteq T
<1> DEFINE Bad == Nat \ T
<1>1. SUFFICES ASSUME Bad # {} PROVE FALSE
  OBVIOUS
<1>2. PICK x \in Bad : \A i \in Bad : x <= i
  <2>1. Bad \subseteq Nat
    OBVIOUS
  <2> HIDE DEF Bad
  <2> QED BY <1>1, <2>1, Least
<1>3. x \in Nat /\ x \notin T
  OBVIOUS
<1>4. x # 0 /\ x - 1 \in Nat /\ (x - 1) + 1 = x /\ ~(x <= x - 1)
  BY <1>3
<1>5. x - 1 \in T
  BY <1>2, <1>4
<1> QED BY <1>3, <1>4, <1>5

(* The same downwards, from n to 0. *)
LEMMA DownInduction ==
  ASSUME NEW n \in Nat, NEW T, n \in T, \A h \in 0 .. n - 1 : h + 1 \in T => h \in T
  PROVE  0 .. n \subseteq T
<1> DEFINE S == {m \in Nat : m <= n => n - m \in T}
<1>1. 0 \in S
  OBVIOUS
<1>2. ASSUME NEW m \in Nat, m \in S PROVE m + 1 \in S
  <2>1. SUFFICES ASSUME m + 1 <= n PROVE n - (m + 1) \in T
    BY <1>2
  <2>2. n - m \in T
    BY <1>2, <2>1
  <2> DEFINE h == n - (m + 1)
  <2>3. h \in 0 .. n - 1 /\ h + 1 = n - m
    BY <2>1
  <2> HIDE DEF h
  <2>4. h \in T
    BY <2>2, <2>3
  <2> QED BY <2>4 DEF h
<1>3. Nat \subseteq S
  <2> HIDE DEF S
  <2> QED BY <1>1, <1>2, SetInduction
<1>4. ASSUME NEW h \in 0 .. n PROVE h \in T
  <2>1. n - h \in Nat /\ n - h <= n /\ n - (n - h) = h
    OBVIOUS
  <2>2. n - h \in S
    BY <2>1, <1>3
  <2> QED BY <2>1, <2>2
<1> QED BY <1>4
=============================================================================
