--------------------------- MODULE NonceGenProofs ---------------------------
(***************************************************************************)
(* Proofs about the nonce generation (NonceGen): for every number of        *)
(* scoops, cap, vector, launch and share of the cache, all hashers make the *)
(* nonces that the definition of PoC2 asks for, and put them where the      *)
(* writer looks for them.                                                   *)
(***************************************************************************)
EXTENDS NonceGen, Rounding, FiniteSetTheorems

-----------------------------------------------------------------------------
(* Arithmetic. *)

(* A quotient and a remainder, put together, can be taken apart again. *)
LEMMA Composed ==
  ASSUME NEW d \in Nat \ {0}, NEW q \in Int, NEW r \in 0 .. d - 1
  PROVE  /\ q * d + r \in Int /\ (q \in Nat => q * d + r \in Nat)
         /\ (q * d + r) \div d = q /\ (q * d + r) % d = r
<1> DEFINE a == q * d + r
<1>1. a \in Int /\ (q \in Nat => a \in Nat) /\ d * q + r = a
  OBVIOUS
<1> DEFINE x == a \div d
           y == a % d
<1>2. x \in Int /\ y \in 0 .. d - 1 /\ a = (d * x) + y
  <2> HIDE DEF a
  <2> QED BY <1>1, DivMod
<1> HIDE DEF a, x, y
<1>3. d * q + r = d * x + y
  BY <1>1, <1>2
<1>4. q = x /\ r = y
  BY <1>2, <1>3, Unique
<1> QED BY <1>1, <1>4 DEF a, x, y

(* An index of n rows of d cells is a row and a cell, ... *)
LEMMA RowAndCell ==
  ASSUME NEW d \in Nat \ {0}, NEW n \in Nat, NEW a \in 0 .. n * d - 1
  PROVE  /\ a \in Nat /\ a \div d \in 0 .. n - 1 /\ a % d \in 0 .. d - 1
         /\ a = (a \div d) * d + (a % d)
<1> DEFINE q == a \div d
           r == a % d
<1>1. n * d \in Nat /\ a \in Nat
  OBVIOUS
<1>2. q \in Nat /\ r \in 0 .. d - 1 /\ a = (d * q) + r
  <2>1. a \in Int /\ a \in Nat
    BY <1>1
  <2>2. a \div d \in Nat
    BY <2>1, DivNat, Zenon
  <2>3. a % d \in 0 .. d - 1 /\ a = (d * (a \div d)) + (a % d)
    BY <2>1, DivMod, Zenon
  <2> QED BY <2>2, <2>3
<1> HIDE DEF q, r
<1>3. d * q = q * d /\ q * d \in Nat
  BY <1>2
<1>4. q < n
  <2>1. q >= n => q * d >= n * d
    BY <1>2
  <2>2. q * d < n * d
    <3> DEFINE x == q * d
               y == n * d
    <3>1. x \in Nat /\ y \in Nat /\ a \in 0 .. y - 1 /\ a = x + r
      BY <1>1, <1>2, <1>3
    <3> HIDE DEF x, y
    <3>2. x < y
      BY <3>1, <1>2
    <3> QED BY <3>2 DEF x, y
  <2>3. q * d \in Int /\ n * d \in Int
    BY <1>1, <1>3
  <2> QED BY <2>1, <2>2, <2>3, <1>2
<1> QED BY <1>1, <1>2, <1>3, <1>4 DEF q, r

(* ... and the other way round. *)
LEMMA CellOfRow ==
  ASSUME NEW d \in Nat \ {0}, NEW n \in Nat, NEW q \in 0 .. n - 1, NEW r \in 0 .. d - 1
  PROVE  q * d + r \in 0 .. n * d - 1
<1>1. q * d \in Nat /\ n * d \in Nat /\ (q + 1) * d <= n * d /\ (q + 1) * d = q * d + d
  OBVIOUS
<1> DEFINE x == q * d
           y == n * d
<1>2. x \in Nat /\ y \in Nat /\ x + d <= y
  BY <1>1
<1> HIDE DEF x, y
<1>3. x + r \in 0 .. y - 1
  BY <1>2
<1> QED BY <1>3 DEF x, y

(* The cells of the rows from lo to hi. *)
LEMMA RowsBetween ==
  ASSUME NEW d \in Nat \ {0}, NEW n \in Nat, NEW a \in 0 .. n * d - 1,
         NEW lo \in Int, NEW hi \in Int
  PROVE  a \in lo * d .. hi * d - 1 <=> a \div d \in lo .. hi - 1
<1> DEFINE q == a \div d
           r == a % d
<1>1. q \in Nat /\ r \in 0 .. d - 1 /\ a = q * d + r /\ a \in Nat
  <2>1. a \in Nat /\ a \div d \in 0 .. n - 1 /\ a % d \in 0 .. d - 1
        /\ a = (a \div d) * d + (a % d)
    BY RowAndCell, Zenon
  <2> QED BY <2>1
<1> HIDE DEF q, r
<1>2. q >= lo => q * d >= lo * d
  BY <1>1
<1>3. q < lo => q * d + d <= lo * d
  <2>1. q < lo => (q + 1) * d <= lo * d
    BY <1>1
  <2> QED BY <2>1, <1>1
<1>4. q >= hi => q * d >= hi * d
  BY <1>1
<1>5. q < hi => q * d + d <= hi * d
  <2>1. q < hi => (q + 1) * d <= hi * d
    BY <1>1
  <2> QED BY <2>1, <1>1
<1> DEFINE x == q * d
           y == lo * d
           z == hi * d
<1>6. /\ x \in Int /\ y \in Int /\ z \in Int /\ a = x + r
      /\ (q >= lo => x >= y) /\ (q < lo => x + d <= y)
      /\ (q >= hi => x >= z) /\ (q < hi => x + d <= z)
  BY <1>1, <1>2, <1>3, <1>4, <1>5
<1> HIDE DEF x, y, z
<1>7. a \in y .. z - 1 <=> q \in lo .. hi - 1
  BY <1>1, <1>6
<1> QED BY <1>7 DEF q, y, z

-----------------------------------------------------------------------------
(* The operators that the model writes memory with. *)

LEMMA EvaluatedIs ==
  ASSUME NEW f
  PROVE  Evaluated(f) = f
BY DEF Evaluated

LEMMA OverIs ==
  ASSUME NEW written, NEW memory
  PROVE  Over(written, memory) =
           [a \in DOMAIN memory |-> IF a \in DOMAIN written THEN written[a] ELSE memory[a]]
BY EvaluatedIs DEF Over

-----------------------------------------------------------------------------
(* The definition of PoC2 (Hashes): there is one list of hashes, and each of *)
(* them is the digest of the words behind it.                                *)

LEMMA Sizes ==
  /\ NumScoops \in Nat \ {0} /\ NumHashes \in Nat \ {0} /\ NONCE_SIZE \in Nat \ {0}
  /\ NumHashes = 2 * NumScoops /\ NONCE_SIZE = 4 * NumHashes /\ NONCE_SIZE = 8 * NumScoops
  /\ HASH_SIZE = 4 /\ SCOOP_SIZE = 8
BY NumScoopsAssumption DEF NumHashes, NONCE_SIZE, HASH_SIZE, SCOOP_SIZE

\* What Hashes collects for hash h, when the hashes behind it are in from[h + 1].
Collected(number, from, h) ==
  IF h = NumHashes THEN <<>>
  ELSE [g \in h .. NumHashes - 1 |->
          IF g = h THEN DigestFrom(number, from[h + 1], (h + 1) * HASH_SIZE,
                                   Capped((h + 1) * HASH_SIZE))
                   ELSE from[h + 1][g]]

LEMMA HashesIs ==
  ASSUME NEW number
  PROVE  Hashes(number) =
           (CHOOSE f : f = [h \in 0 .. NumHashes |-> Collected(number, f, h)])[0]
BY EvaluatedIs DEF Hashes, Collected

LEMMA CollectedSame ==
  ASSUME NEW number, NEW f, NEW g, NEW h \in 0 .. NumHashes,
         h # NumHashes => f[h + 1] = g[h + 1]
  PROVE  Collected(number, f, h) = Collected(number, g, h)
BY DEF Collected

\* f is a list of the hashes from hash lo on, for each of them.
Lists(number, f, lo) == f = [h \in lo .. NumHashes |-> Collected(number, f, h)]

LEMMA HashesExist ==
  ASSUME NEW number
  PROVE  \E f : Lists(number, f, 0)
<1> DEFINE N == NumHashes
           T == {m \in Nat : m <= N => \E f : Lists(number, f, N - m)}
<1>N. N \in Nat
  BY Sizes
<1>1. 0 \in T
  <2> DEFINE f == [h \in N .. N |-> <<>>]
  <2>1. \A h \in N .. N : Collected(number, f, h) = <<>>
    BY <1>N DEF Collected
  <2>2. f = [h \in N .. N |-> Collected(number, f, h)]
    <3> HIDE DEF f
    <3>1. f = [h \in N .. N |-> <<>>]
      BY DEF f
    <3> QED BY <2>1, <3>1
  <2> HIDE DEF f
  <2>3. Lists(number, f, N - 0)
    BY <2>2, <1>N DEF Lists
  <2> QED BY <2>3
<1>2. ASSUME NEW m \in Nat, m \in T PROVE m + 1 \in T
  <2>1. SUFFICES ASSUME m + 1 <= N PROVE \E f : Lists(number, f, N - (m + 1))
    BY <1>2
  <2>2. PICK g : Lists(number, g, N - m)
    BY <1>2, <2>1, <1>N
  <2> DEFINE lo == N - (m + 1)
             f == [h \in lo .. N |-> IF h = lo THEN Collected(number, g, h) ELSE g[h]]
  <2>3. lo \in Nat /\ lo + 1 = N - m /\ lo < N
    BY <2>1, <1>N
  <2> HIDE DEF lo
  <2>4. g = [h \in lo + 1 .. N |-> Collected(number, g, h)]
    BY <2>2, <2>3 DEF Lists
  <2>5. \A h \in lo + 1 .. N : f[h] = g[h] /\ g[h] = Collected(number, g, h)
    <3>1. TAKE h \in lo + 1 .. N
    <3>2. g[h] = Collected(number, g, h)
      BY <2>4
    <3>3. f[h] = g[h]
      BY <2>3
    <3> QED BY <3>2, <3>3
  <2>6. \A h \in lo .. N : f[h] = Collected(number, g, h)
    <3>1. f[lo] = Collected(number, g, lo)
      BY <2>3, <1>N
    <3> HIDE DEF f
    <3>2. \A h \in lo .. N : h = lo \/ h \in lo + 1 .. N
      BY <2>3, <1>N
    <3> QED BY <3>1, <3>2, <2>5
  <2>7. ASSUME NEW h \in lo .. N
        PROVE  Collected(number, f, h) = Collected(number, g, h)
    <3>1. h \in 0 .. N /\ (h # N => h + 1 \in lo + 1 .. N)
      BY <2>3, <1>N
    <3>2. h # N => f[h + 1] = g[h + 1]
      BY <3>1, <2>5
    <3> HIDE DEF f
    <3> QED BY <3>1, <3>2, CollectedSame
  <2>8. f = [h \in lo .. N |-> Collected(number, f, h)]
    <3>1. f = [h \in lo .. N |-> f[h]]
      OBVIOUS
    <3>2. \A h \in lo .. N : f[h] = Collected(number, f, h)
      <4> HIDE DEF f
      <4> QED BY <2>6, <2>7
    <3> HIDE DEF f
    <3> QED BY <3>1, <3>2
  <2> HIDE DEF f
  <2>9. Lists(number, f, N - (m + 1))
    BY <2>8 DEF Lists, lo
  <2> QED BY <2>9
<1>3. N \in T
  <2> HIDE DEF T
  <2> QED BY <1>1, <1>2, <1>N, SetInduction
<1> QED BY <1>3, <1>N

(* All lists agree: the hashes of a nonce are the one list there is, and each *)
(* is the digest of the words behind it.                                      *)
LEMMA ListFrom ==
  ASSUME NEW number, NEW f, Lists(number, f, 0), NEW h \in 0 .. NumHashes
  PROVE  /\ DOMAIN f[h] = h .. NumHashes - 1
         /\ \A g \in h .. NumHashes - 1 : f[h][g] = f[0][g]
<1> DEFINE N == NumHashes
           T == {m \in Nat : m <= N => /\ DOMAIN f[m] = m .. N - 1
                                       /\ \A g \in m .. N - 1 : f[m][g] = f[0][g]}
<1>N. N \in Nat
  BY Sizes
<1>0. \A m \in 0 .. N : f[m] = Collected(number, f, m)
  BY DEF Lists
<1>d. \A m \in 0 .. N : DOMAIN f[m] = m .. N - 1
  <2>1. TAKE m \in 0 .. N
  <2>2. CASE m = N
    <3>1. f[m] = <<>>
      BY <1>0, <2>2, <1>N DEF Collected
    <3>2. DOMAIN <<>> = {} /\ N .. N - 1 = {}
      BY <1>N
    <3> QED BY <3>1, <3>2, <2>2
  <2>3. CASE m # N
    BY <1>0, <2>3, <1>N DEF Collected
  <2> QED BY <2>2, <2>3
<1>1. 0 \in T
  BY <1>d, <1>N
<1>2. ASSUME NEW m \in Nat, m \in T PROVE m + 1 \in T
  <2>1. SUFFICES ASSUME m + 1 <= N
                 PROVE  \A g \in m + 1 .. N - 1 : f[m + 1][g] = f[0][g]
    BY <1>d, <1>N
  <2>2. TAKE g \in m + 1 .. N - 1
  <2>3. m \in 0 .. N /\ m # N /\ g \in m .. N - 1 /\ g # m
    BY <2>1, <1>N
  <2>4. f[m][g] = f[m + 1][g]
    <3>1. f[m] = Collected(number, f, m)
      BY <1>0, <2>3
    <3>2. Collected(number, f, m)[g] = f[m + 1][g]
      <4> HIDE DEF N
      <4> QED BY <2>3 DEF Collected, N
    <3> QED BY <3>1, <3>2
  <2>5. f[m][g] = f[0][g]
    BY <1>2, <2>3
  <2> QED BY <2>4, <2>5
<1>3. h \in T
  <2> HIDE DEF T
  <2> QED BY <1>1, <1>2, <1>N, SetInduction
<1> QED BY <1>3, <1>N

LEMMA HashesDigest ==
  ASSUME NEW number
  PROVE  /\ DOMAIN Hashes(number) = 0 .. NumHashes - 1
         /\ \A h \in 0 .. NumHashes - 1 :
              Hashes(number)[h] = DigestFrom(number, Hashes(number), (h + 1) * HASH_SIZE,
                                             Capped((h + 1) * HASH_SIZE))
<1> DEFINE N == NumHashes
           f == CHOOSE f : f = [h \in 0 .. NumHashes |-> Collected(number, f, h)]
           H == f[0]
<1>N. N \in Nat /\ 0 \in 0 .. N
  BY Sizes
<1>1. Lists(number, f, 0)
  BY HashesExist DEF Lists
<1>2. Hashes(number) = H
  BY HashesIs
<1> HIDE DEF f
<1>3. DOMAIN H = 0 .. N - 1
  BY <1>1, <1>N, ListFrom
<1>4. ASSUME NEW h \in 0 .. N - 1
      PROVE  H[h] = DigestFrom(number, H, (h + 1) * HASH_SIZE, Capped((h + 1) * HASH_SIZE))
  <2> DEFINE i == (h + 1) * HASH_SIZE
             n == Capped(i)
  <2>1. h \in 0 .. N /\ h # N /\ h + 1 \in 0 .. N
    BY <1>N
  <2>2. H[h] = f[h][h]
    <3>1. h \in h .. N - 1
      BY <1>N
    <3> QED BY <1>1, <2>1, <3>1, ListFrom
  <2>3. f[h][h] = DigestFrom(number, f[h + 1], i, n)
    <3>1. f[h] = Collected(number, f, h)
      BY <1>1, <2>1 DEF Lists
    <3> QED BY <3>1, <2>1 DEF Collected
  <2>4. \A g \in h + 1 .. N - 1 : f[h + 1][g] = H[g]
    BY <1>1, <2>1, ListFrom
  <2>5. DigestFrom(number, f[h + 1], i, n) = DigestFrom(number, H, i, n)
    <3>1. i = 4 * (h + 1) /\ i \in Nat /\ n \in Int
      BY <2>1, Sizes, NonceGenAssumption DEF Capped
    <3> HIDE DEF i, n, N
    <3>2. ASSUME NEW j \in 0 .. 8 * (n \div 8) + 7, j < n
          PROVE  SeededWord(number, f[h + 1], i + j) = SeededWord(number, H, i + j)
      <4>1. CASE i + j < NONCE_SIZE
        <5>1. (i + j) \div 4 \in h + 1 .. N - 1
          <6> DEFINE p == i + j
          <6>1. p \in Nat /\ p >= 4 * (h + 1) /\ p < 4 * N
            BY <3>1, <4>1, Sizes DEF N
          <6> HIDE DEF p
          <6>2. p \div 4 >= h + 1 /\ p \div 4 <= N - 1
            BY <6>1, <1>N
          <6> QED BY <6>1, <6>2 DEF p
        <5>2. f[h + 1][(i + j) \div 4] = H[(i + j) \div 4]
          BY <2>4, <5>1
        <5> QED BY <5>2, <4>1, Sizes DEF SeededWord
      <4>2. CASE ~(i + j < NONCE_SIZE)
        BY <4>2 DEF SeededWord
      <4> QED BY <4>1, <4>2
    <3> DEFINE word(hashes, j) ==
                 IF j < n THEN SeededWord(number, hashes, i + j) ELSE IF j = n THEN TERM ELSE 0
    <3>3. \A j \in 0 .. 8 * (n \div 8) + 7 : word(f[h + 1], j) = word(H, j)
      BY <3>2
    <3> HIDE DEF word
    <3>4. [j \in 0 .. 8 * (n \div 8) + 7 |-> word(f[h + 1], j)]
            = [j \in 0 .. 8 * (n \div 8) + 7 |-> word(H, j)]
      BY <3>3
    <3> QED BY <3>4 DEF DigestFrom, word
  <2> QED BY <2>2, <2>3, <2>5
<1> QED BY <1>2, <1>3, <1>4

-----------------------------------------------------------------------------
(* The three ways to end a message, as blocks: what the hashers put together *)
(* is what the definition hashes.  A hash is followed by the words from m    *)
(* hashes on.                                                                *)

Word(number, p) == SeededWord(number, Hashes(number), p)

\* Whole blocks of the words from word i on, and a block that ends them.
Blocks(f, number, i, q) ==
  /\ f = [j \in 0 .. 8 * q + 7 |-> f[j]]
  /\ \A j \in 0 .. 8 * q - 1 : f[j] = Word(number, i + j)

\* What DigestFrom puts together.
MessageFrom(number, i, n) ==
  [j \in 0 .. 8 * (n \div 8) + 7 |->
     IF j < n THEN Word(number, i + j) ELSE IF j = n THEN TERM ELSE 0]

LEMMA DigestIs ==
  ASSUME NEW number, NEW i, NEW n
  PROVE  DigestFrom(number, Hashes(number), i, n) = Digest(MessageFrom(number, i, n), n \div 8 + 1)
BY DEF DigestFrom, MessageFrom, Word

LEMMA SeedWords ==
  ASSUME NEW number
  PROVE  /\ Word(number, NONCE_SIZE) = Bswap(NumericId)
         /\ Word(number, NONCE_SIZE + 1) = number
BY Sizes DEF Word, SeededWord

LEMMA InBlock ==
  ASSUME NEW e \in Nat, NEW j \in 0 .. e + 7
  PROVE  \/ j \in 0 .. e - 1 \/ j = e \/ j = e + 1 \/ j = e + 2 \/ j \in e + 3 .. e + 7
OBVIOUS

\* The seed at the start of block q.
SeedAt(f, number, q) ==
  /\ f[8 * q] = Bswap(NumericId) /\ f[8 * q + 1] = number /\ f[8 * q + 2] = TERM
  /\ \A j \in 3 .. 7 : f[8 * q + j] = 0

(* After whole blocks, the seed. *)
LEMMA EndsInSeed ==
  ASSUME NEW number, NEW m \in 0 .. NumHashes, m % 2 = 0, NEW f, NEW q \in Nat,
         q = (NumHashes - m) \div 2,
         Blocks(f, number, 4 * m, q), SeedAt(f, number, q)
  PROVE  Digest(f, q + 1) = DigestFrom(number, Hashes(number), 4 * m, NONCE_SIZE + 2 - 4 * m)
<1>s. /\ f[8 * q] = Bswap(NumericId) /\ f[8 * q + 1] = number /\ f[8 * q + 2] = TERM
      /\ \A j \in 3 .. 7 : f[8 * q + j] = 0
  BY DEF SeedAt
<1> DEFINE n == NONCE_SIZE + 2 - 4 * m
           i == 4 * m
<1>1. n = 8 * q + 2 /\ n \div 8 = q /\ i + 8 * q = NONCE_SIZE /\ i \in Nat
  BY Sizes
<1> HIDE DEF n, i
<1>2. f = [j \in 0 .. 8 * q + 7 |-> f[j]]
  BY DEF Blocks
<1>w. \A j \in 0 .. 8 * q - 1 : f[j] = Word(number, i + j)
  BY DEF Blocks, i
<1>3. ASSUME NEW j \in 0 .. 8 * q + 7
      PROVE  f[j] = IF j < n THEN Word(number, i + j) ELSE IF j = n THEN TERM ELSE 0
  <2>1. CASE j \in 0 .. 8 * q - 1
    <3>1. f[j] = Word(number, i + j)
      BY <1>w, <2>1
    <3>2. j < n
      BY <1>1, <2>1
    <3> QED BY <3>1, <3>2
  <2>2. CASE j = 8 * q
    BY <1>s, <1>1, <2>2, SeedWords
  <2>3. CASE j = 8 * q + 1
    <3>1. i + j = NONCE_SIZE + 1
      BY <1>1, <2>3
    <3> QED BY <1>s, <1>1, <2>3, <3>1, SeedWords
  <2>4. CASE j = 8 * q + 2
    BY <1>s, <1>1, <2>4
  <2>5. CASE j \in 8 * q + 3 .. 8 * q + 7
    <3>1. PICK y \in 3 .. 7 : j = 8 * q + y
      <4>1. j - 8 * q \in 3 .. 7 /\ j = 8 * q + (j - 8 * q)
        BY <2>5
      <4> QED BY <4>1
    <3> QED BY <1>s, <1>1, <3>1
  <2>6. \/ j \in 0 .. 8 * q - 1 \/ j = 8 * q \/ j = 8 * q + 1 \/ j = 8 * q + 2
        \/ j \in 8 * q + 3 .. 8 * q + 7
    <3>1. 8 * q \in Nat
      OBVIOUS
    <3> QED BY <3>1, InBlock, Zenon
  <2> QED BY <2>1, <2>2, <2>3, <2>4, <2>5, <2>6, Zenon
<1>4. f = MessageFrom(number, i, n)
  BY <1>1, <1>2, <1>3 DEF MessageFrom
<1> QED BY <1>1, <1>4, DigestIs DEF i, n

\* The last hash and the seed in block q.
HashAndSeedAt(f, number, q) ==
  /\ \A j \in 0 .. 3 : f[8 * q + j] = Word(number, NONCE_SIZE - 4 + j)
  /\ f[8 * q + 4] = Bswap(NumericId) /\ f[8 * q + 5] = number /\ f[8 * q + 6] = TERM
  /\ f[8 * q + 7] = 0

(* After half a block, which starts with the first hash, the seed. *)
LEMMA EndsInHash ==
  ASSUME NEW number, NEW m \in 0 .. NumHashes, m % 2 = 1, NEW f, NEW q \in Nat,
         q = (NumHashes - m) \div 2,
         Blocks(f, number, 4 * m, q), HashAndSeedAt(f, number, q)
  PROVE  Digest(f, q + 1) = DigestFrom(number, Hashes(number), 4 * m, NONCE_SIZE + 2 - 4 * m)
<1>s. /\ \A j \in 0 .. 3 : f[8 * q + j] = Word(number, NONCE_SIZE - 4 + j)
      /\ f[8 * q + 4] = Bswap(NumericId) /\ f[8 * q + 5] = number /\ f[8 * q + 6] = TERM
      /\ f[8 * q + 7] = 0
  BY DEF HashAndSeedAt
<1> DEFINE n == NONCE_SIZE + 2 - 4 * m
           i == 4 * m
<1>1. n = 8 * q + 6 /\ n \div 8 = q /\ i + 8 * q = NONCE_SIZE - 4 /\ i \in Nat
  BY Sizes
<1> HIDE DEF n, i
<1>2. f = [j \in 0 .. 8 * q + 7 |-> f[j]]
  BY DEF Blocks
<1>w. \A j \in 0 .. 8 * q - 1 : f[j] = Word(number, i + j)
  BY DEF Blocks, i
<1>3. ASSUME NEW j \in 0 .. 8 * q + 7
      PROVE  f[j] = IF j < n THEN Word(number, i + j) ELSE IF j = n THEN TERM ELSE 0
  <2>1. CASE j \in 0 .. 8 * q - 1
    <3>1. f[j] = Word(number, i + j)
      BY <1>w, <2>1
    <3>2. j < n
      BY <1>1, <2>1
    <3> QED BY <3>1, <3>2
  <2>2. CASE j \in 8 * q .. 8 * q + 3
    <3>1. PICK y \in 0 .. 3 : j = 8 * q + y
      <4>1. j - 8 * q \in 0 .. 3 /\ j = 8 * q + (j - 8 * q)
        BY <2>2
      <4> QED BY <4>1
    <3>2. i + j = NONCE_SIZE - 4 + y /\ j < n
      BY <1>1, <3>1, Sizes
    <3> QED BY <1>s, <3>1, <3>2
  <2>3. CASE j = 8 * q + 4
    <3>1. i + j = NONCE_SIZE /\ j < n
      BY <1>1, <2>3, Sizes
    <3> QED BY <1>s, <2>3, <3>1, SeedWords
  <2>4. CASE j = 8 * q + 5
    <3>1. i + j = NONCE_SIZE + 1 /\ j < n
      BY <1>1, <2>4, Sizes
    <3> QED BY <1>s, <2>4, <3>1, SeedWords
  <2>5. CASE j = 8 * q + 6
    BY <1>s, <1>1, <2>5
  <2>6. CASE j = 8 * q + 7
    BY <1>s, <1>1, <2>6
  <2> QED BY <2>1, <2>2, <2>3, <2>4, <2>5, <2>6
<1>4. f = MessageFrom(number, i, n)
  BY <1>1, <1>2, <1>3 DEF MessageFrom
<1> QED BY <1>1, <1>4, DigestIs DEF i, n

(* Cut off. *)
LEMMA EndsAtCap ==
  ASSUME NEW number, NEW m \in Nat, NEW f, NEW q \in Nat, q = HashCap \div 2,
         Blocks(f, number, 4 * m, q),
         f[8 * q] = TERM, \A j \in 1 .. 7 : f[8 * q + j] = 0
  PROVE  Digest(f, q + 1) = DigestFrom(number, Hashes(number), 4 * m, HashCap * HASH_SIZE)
<1> DEFINE n == HashCap * HASH_SIZE
           i == 4 * m
<1>1. n = 8 * q /\ n \div 8 = q
  BY NonceGenAssumption, Sizes
<1> HIDE DEF n, i
<1>2. f = [j \in 0 .. 8 * q + 7 |-> f[j]]
  BY DEF Blocks
<1>w. \A j \in 0 .. 8 * q - 1 : f[j] = Word(number, i + j)
  BY DEF Blocks, i
<1>3. ASSUME NEW j \in 0 .. 8 * q + 7
      PROVE  f[j] = IF j < n THEN Word(number, i + j) ELSE IF j = n THEN TERM ELSE 0
  <2>1. CASE j \in 0 .. 8 * q - 1
    <3>1. f[j] = Word(number, i + j)
      BY <1>w, <2>1
    <3>2. j < n
      BY <1>1, <2>1
    <3> QED BY <3>1, <3>2
  <2>2. CASE j = 8 * q
    BY <1>1, <2>2
  <2>3. CASE j \in 8 * q + 1 .. 8 * q + 7
    <3>1. PICK y \in 1 .. 7 : j = 8 * q + y
      <4>1. j - 8 * q \in 1 .. 7 /\ j = 8 * q + (j - 8 * q)
        BY <2>3
      <4> QED BY <4>1
    <3> QED BY <1>1, <3>1
  <2> QED BY <2>1, <2>2, <2>3
<1>4. f = MessageFrom(number, i, n)
  BY <1>1, <1>2, <1>3 DEF MessageFrom
<1> QED BY <1>1, <1>4, DigestIs DEF i, n

-----------------------------------------------------------------------------
(* A vector of L nonces: each lane of HashFast is a digest of its own nonce. *)

\* Lane k of the buffer has the words of a nonce from word i on.
InLane(buffer, L, k, number, i) ==
  \A p \in i .. NONCE_SIZE - 1 : buffer[p * L + k] = Word(number, p)

\* What HashFast hashes for lane k.
LaneMessage(L, buffer, i, term, num, k) ==
  [j \in 0 .. 8 * num + 7 |->
     IF j < 8 * num THEN buffer[(i + j) * L + k] ELSE term[(j - 8 * num) * L + k]]

LEMMA HashFastIs ==
  ASSUME NEW L, NEW buffer, NEW i, NEW term, NEW num, NEW k \in 0 .. L - 1
  PROVE  HashFast(L, buffer, i, term, num)[k]
           = Digest(LaneMessage(L, buffer, i, term, num, k), num + 1)
<1> DEFINE G == [x \in 0 .. L - 1 |->
                   Digest([j \in 0 .. 8 * num + 7 |->
                             IF j < 8 * num THEN buffer[(i + j) * L + x]
                                            ELSE term[(j - 8 * num) * L + x]], num + 1)]
<1>1. HashFast(L, buffer, i, term, num) = Evaluated(G)
  BY DEF HashFast
<1>2. G[k] = Digest([j \in 0 .. 8 * num + 7 |->
                       IF j < 8 * num THEN buffer[(i + j) * L + k]
                                      ELSE term[(j - 8 * num) * L + k]], num + 1)
  OBVIOUS
<1> HIDE DEF G
<1> QED BY <1>1, <1>2, EvaluatedIs DEF LaneMessage

\* The block after q whole blocks is lane k of term.
EndsIn(f, q, term, L, k) == \A y \in 0 .. 7 : f[8 * q + y] = term[y * L + k]

(* The last block of a lane, as HashFast reads it. *)
LEMMA LastBlock ==
  ASSUME NEW L \in Nat \ {0}, NEW k \in 0 .. L - 1, NEW i \in Nat, NEW q \in Nat,
         NEW buffer, NEW term, NEW number,
         InLane(buffer, L, k, number, i), i + 8 * q <= NONCE_SIZE
  PROVE  /\ Blocks(LaneMessage(L, buffer, i, term, q, k), number, i, q)
         /\ EndsIn(LaneMessage(L, buffer, i, term, q, k), q, term, L, k)
<1> DEFINE f == LaneMessage(L, buffer, i, term, q, k)
<1>0. f = [j \in 0 .. 8 * q + 7 |->
             IF j < 8 * q THEN buffer[(i + j) * L + k] ELSE term[(j - 8 * q) * L + k]]
  BY DEF LaneMessage
<1> HIDE DEF f
<1>1. DOMAIN f = 0 .. 8 * q + 7 /\ f = [j \in 0 .. 8 * q + 7 |-> f[j]]
  BY <1>0
<1>2. \A j \in 0 .. 8 * q - 1 : f[j] = buffer[(i + j) * L + k]
  BY <1>0
<1>3. \A j \in 0 .. 8 * q - 1 : i + j \in i .. NONCE_SIZE - 1
  BY Sizes
<1>4. \A j \in 0 .. 8 * q - 1 : f[j] = Word(number, i + j)
  BY <1>2, <1>3 DEF InLane
<1>5. ASSUME NEW y \in 0 .. 7
      PROVE  f[8 * q + y] = term[y * L + k]
  <2> DEFINE j == 8 * q + y
  <2>1. j \in 0 .. 8 * q + 7 /\ ~(j < 8 * q) /\ j - 8 * q = y
    OBVIOUS
  <2> HIDE DEF j
  <2>2. f[j] = term[(j - 8 * q) * L + k]
    BY <1>0, <2>1
  <2> QED BY <2>1, <2>2 DEF j
<1>6. Blocks(f, number, i, q) /\ EndsIn(f, q, term, L, k)
  BY <1>1, <1>4, <1>5 DEF Blocks, EndsIn
<1> QED BY <1>6 DEF f

LEMMA SeedOfLane ==
  ASSUME NEW L \in Nat \ {0}, NEW k \in 0 .. L - 1, NEW numbers, NEW y \in Nat
  PROVE  Seed(L, numbers, y * L + k) = CASE y = 0 -> Bswap(NumericId)
                                         [] y = 1 -> numbers[k]
                                         [] y = 2 -> TERM
                                         [] OTHER -> 0
<1>1. (y * L + k) \div L = y /\ (y * L + k) % L = k
  BY Composed
<1> QED BY <1>1 DEF Seed

LEMMA T1OfLane ==
  ASSUME NEW L \in Nat \ {0}, NEW k \in 0 .. L - 1, NEW numbers
  PROVE  LET t == T1(L, numbers)
         IN /\ t[0 * L + k] = Bswap(NumericId) /\ t[1 * L + k] = numbers[k]
            /\ t[2 * L + k] = TERM /\ \A y \in 3 .. 7 : t[y * L + k] = 0
<1>1. ASSUME NEW y \in 0 .. 7
      PROVE  T1(L, numbers)[y * L + k] = Seed(L, numbers, y * L + k)
  <2>1. y * L + k \in 0 .. 8 * L - 1
    BY CellOfRow
  <2> QED BY <2>1 DEF T1
<1>2. \A y \in 0 .. 7 : T1(L, numbers)[y * L + k] = CASE y = 0 -> Bswap(NumericId)
                                                    [] y = 1 -> numbers[k]
                                                    [] y = 2 -> TERM
                                                    [] OTHER -> 0
  BY <1>1, SeedOfLane
<1> HIDE DEF T1
<1> QED BY <1>2

LEMMA T2OfLane ==
  ASSUME NEW L \in Nat \ {0}, NEW k \in 0 .. L - 1, NEW numbers, NEW buffer,
         InLane(buffer, L, k, numbers[k], NONCE_SIZE - HASH_SIZE)
  PROVE  LET t == T2(L, numbers, buffer)
         IN /\ \A y \in 0 .. 3 : t[y * L + k] = Word(numbers[k], NONCE_SIZE - 4 + y)
            /\ t[4 * L + k] = Bswap(NumericId) /\ t[5 * L + k] = numbers[k]
            /\ t[6 * L + k] = TERM /\ t[7 * L + k] = 0
<1>1. ASSUME NEW y \in 0 .. 3
      PROVE  T2(L, numbers, buffer)[y * L + k] = Word(numbers[k], NONCE_SIZE - 4 + y)
  <2>1. y * L + k \in 0 .. 8 * L - 1 /\ y * L + k \in 0 .. 4 * L - 1
    BY CellOfRow
  <2>2. T2(L, numbers, buffer)[y * L + k] = buffer[(NONCE_SIZE - HASH_SIZE) * L + (y * L + k)]
    <3> DEFINE a == y * L + k
    <3>1. a \in 0 .. 8 * L - 1 /\ a \in 0 .. 4 * L - 1
      BY <2>1
    <3> HIDE DEF a
    <3>2. a < HASH_SIZE * L
      BY <3>1, Sizes
    <3>3. T2(L, numbers, buffer)[a] = buffer[(NONCE_SIZE - HASH_SIZE) * L + a]
      BY <3>1, <3>2 DEF T2
    <3> QED BY <3>3 DEF a
  <2> DEFINE z == NONCE_SIZE - 4
  <2>3. z \in Int /\ z + y \in NONCE_SIZE - 4 .. NONCE_SIZE - 1 /\ NONCE_SIZE - HASH_SIZE = z
    BY Sizes
  <2> HIDE DEF z
  <2>4. z * L + (y * L + k) = (z + y) * L + k
    BY <2>3
  <2>5. buffer[(z + y) * L + k] = Word(numbers[k], z + y)
    BY <2>3, Sizes DEF InLane
  <2> QED BY <2>2, <2>3, <2>4, <2>5 DEF z
<1>2. ASSUME NEW y \in 4 .. 7
      PROVE  T2(L, numbers, buffer)[y * L + k] = Seed(L, numbers, (y - 4) * L + k)
  <2>1. y * L + k \in 0 .. 8 * L - 1
    BY CellOfRow
  <2> DEFINE a == y * L + k
  <2>2. a - 4 * L = (y - 4) * L + k
    OBVIOUS
  <2>3. (y - 4) * L \in Nat /\ 4 * L \in Nat
    OBVIOUS
  <2> DEFINE b == (y - 4) * L
             c == 4 * L
  <2>4. b \in Nat /\ c \in Nat /\ a = b + k + c
    BY <2>2, <2>3
  <2> HIDE DEF b, c
  <2>5. a \in Int /\ ~(a < c)
    BY <2>1, <2>4
  <2>6. ~(a < HASH_SIZE * L) /\ a - HASH_SIZE * L = (y - 4) * L + k
    BY <2>5, <2>2, Sizes DEF c
  <2> HIDE DEF a
  <2>7. T2(L, numbers, buffer)[a] = Seed(L, numbers, a - HASH_SIZE * L)
    BY <2>1, <2>6 DEF T2, a
  <2> QED BY <2>6, <2>7 DEF a
<1>3. ASSUME NEW y \in 4 .. 7
      PROVE  T2(L, numbers, buffer)[y * L + k] = CASE y = 4 -> Bswap(NumericId)
                                                   [] y = 5 -> numbers[k]
                                                   [] y = 6 -> TERM
                                                   [] OTHER -> 0
  <2>1. y - 4 \in Nat
    OBVIOUS
  <2> DEFINE x == y - 4
  <2> HIDE DEF x
  <2>2. x \in Nat /\ (x = 0 <=> y = 4) /\ (x = 1 <=> y = 5) /\ (x = 2 <=> y = 6)
    BY DEF x
  <2>3. T2(L, numbers, buffer)[y * L + k] = Seed(L, numbers, x * L + k)
    BY <1>2 DEF x
  <2> QED BY <2>2, <2>3, SeedOfLane
<1> HIDE DEF T2
<1> QED BY <1>1, <1>3

LEMMA T3OfLane ==
  ASSUME NEW L \in Nat \ {0}, NEW k \in 0 .. L - 1
  PROVE  T3(L)[0 * L + k] = TERM /\ \A y \in 1 .. 7 : T3(L)[y * L + k] = 0
<1>1. ASSUME NEW y \in 0 .. 7
      PROVE  T3(L)[y * L + k] = IF y = 0 THEN TERM ELSE 0
  <2>1. y * L + k \in 0 .. 8 * L - 1
    BY CellOfRow
  <2>2. (y * L + k) \div L = y
    BY Composed
  <2> QED BY <2>1, <2>2 DEF T3
<1> HIDE DEF T3
<1> QED BY <1>1

\* The block that ends a message which is not cut off.
SeedTerm(L, numbers, tail, i) ==
  IF i % 8 = 0 THEN T1(L, numbers) ELSE T2(L, numbers, tail)

(* The rounds: hashing the words from hash m on gives the hash before them. *)
LEMMA SeededLane ==
  ASSUME NEW L \in Nat \ {0}, NEW k \in 0 .. L - 1, NEW numbers, NEW buffer, NEW tail,
         NEW m \in 0 .. NumHashes, NEW num \in Nat, num = (NumHashes - m) \div 2,
         InLane(buffer, L, k, numbers[k], 4 * m),
         m % 2 = 1 => InLane(tail, L, k, numbers[k], NONCE_SIZE - HASH_SIZE)
  PROVE  HashFast(L, buffer, 4 * m, SeedTerm(L, numbers, tail, 4 * m), num)[k]
           = DigestFrom(numbers[k], Hashes(numbers[k]), 4 * m, NONCE_SIZE + 2 - 4 * m)
<1> DEFINE term == SeedTerm(L, numbers, tail, 4 * m)
           i == 4 * m
           number == numbers[k]
           f == LaneMessage(L, buffer, i, term, num, k)
<1>1. i \in Nat /\ i + 8 * num <= NONCE_SIZE
  BY Sizes
<1>2. HashFast(L, buffer, i, term, num)[k] = Digest(f, num + 1)
  BY HashFastIs
<1>3. Blocks(f, number, i, num) /\ \A y \in 0 .. 7 : f[8 * num + y] = term[y * L + k]
  <2>2. InLane(buffer, L, k, number, i)
    OBVIOUS
  <2> HIDE DEF term, i, number
  <2>3. EndsIn(f, num, term, L, k)
    BY <1>1, <2>2, LastBlock
  <2>4. Blocks(f, number, i, num)
    BY <1>1, <2>2, LastBlock
  <2> HIDE DEF f
  <2> QED BY <2>3, <2>4 DEF EndsIn
<1> HIDE DEF f
<1>z. f[8 * num] = f[8 * num + 0]
  OBVIOUS
<1>4. CASE m % 2 = 0
  <2>1. (4 * m) % 8 = 0
    BY <1>4
  <2>2. term = T1(L, numbers)
    BY <2>1 DEF SeedTerm
  <2> HIDE DEF term
  <2>3. /\ f[8 * num] = Bswap(NumericId) /\ f[8 * num + 1] = number /\ f[8 * num + 2] = TERM
        /\ \A j \in 3 .. 7 : f[8 * num + j] = 0
    <3>1. /\ term[0 * L + k] = Bswap(NumericId) /\ term[1 * L + k] = number
          /\ term[2 * L + k] = TERM /\ \A y \in 3 .. 7 : term[y * L + k] = 0
      BY <2>2, T1OfLane
    <3> QED BY <1>3, <1>z, <3>1
  <2>4. Digest(f, num + 1) = DigestFrom(number, Hashes(number), 4 * m, NONCE_SIZE + 2 - 4 * m)
    <3>1. Blocks(f, number, 4 * m, num)
      BY <1>3
    <3>2. SeedAt(f, number, num)
      BY <2>3 DEF SeedAt
    <3> HIDE DEF number, i
    <3> QED BY <1>4, <3>1, <3>2, EndsInSeed
  <2> QED BY <1>2, <2>4 DEF term
<1>5. CASE m % 2 = 1
  <2>1. (4 * m) % 8 # 0
    BY <1>5
  <2>2. term = T2(L, numbers, tail)
    BY <2>1 DEF SeedTerm
  <2> HIDE DEF term
  <2>3. /\ \A j \in 0 .. 3 : f[8 * num + j] = Word(number, NONCE_SIZE - 4 + j)
        /\ f[8 * num + 4] = Bswap(NumericId) /\ f[8 * num + 5] = number
        /\ f[8 * num + 6] = TERM /\ f[8 * num + 7] = 0
    <3>1. /\ \A y \in 0 .. 3 : term[y * L + k] = Word(number, NONCE_SIZE - 4 + y)
          /\ term[4 * L + k] = Bswap(NumericId) /\ term[5 * L + k] = number
          /\ term[6 * L + k] = TERM /\ term[7 * L + k] = 0
      BY <1>5, <2>2, T2OfLane
    <3> QED BY <1>3, <3>1
  <2>4. Digest(f, num + 1) = DigestFrom(number, Hashes(number), 4 * m, NONCE_SIZE + 2 - 4 * m)
    <3>1. Blocks(f, number, 4 * m, num)
      BY <1>3
    <3>2. HashAndSeedAt(f, number, num)
      BY <2>3 DEF HashAndSeedAt
    <3> HIDE DEF number, i
    <3> QED BY <1>5, <3>1, <3>2, EndsInHash
  <2> QED BY <1>2, <2>4 DEF term
<1>6. m % 2 = 0 \/ m % 2 = 1
  OBVIOUS
<1> QED BY <1>4, <1>5, <1>6

LEMMA CappedLane ==
  ASSUME NEW L \in Nat \ {0}, NEW k \in 0 .. L - 1, NEW number, NEW buffer,
         NEW m \in Nat, 4 * m <= NONCE_SIZE - HashCap * HASH_SIZE,
         NEW num \in Nat, num = HashCap \div 2,
         InLane(buffer, L, k, number, 4 * m)
  PROVE  HashFast(L, buffer, 4 * m, T3(L), num)[k]
           = DigestFrom(number, Hashes(number), 4 * m, HashCap * HASH_SIZE)
<1> DEFINE term == T3(L)
           i == 4 * m
           f == LaneMessage(L, buffer, i, term, num, k)
<1>1. i \in Nat /\ i + 8 * num <= NONCE_SIZE
  BY Sizes, NonceGenAssumption
<1>2. HashFast(L, buffer, i, term, num)[k] = Digest(f, num + 1)
  BY HashFastIs
<1>3. Blocks(f, number, i, num) /\ \A y \in 0 .. 7 : f[8 * num + y] = term[y * L + k]
  <2>2. InLane(buffer, L, k, number, i)
    OBVIOUS
  <2> HIDE DEF term, i
  <2>3. EndsIn(f, num, term, L, k)
    BY <1>1, <2>2, LastBlock
  <2>4. Blocks(f, number, i, num)
    BY <1>1, <2>2, LastBlock
  <2> HIDE DEF f
  <2> QED BY <2>3, <2>4 DEF EndsIn
<1> HIDE DEF f
<1>z. f[8 * num] = f[8 * num + 0]
  OBVIOUS
<1>4. f[8 * num] = TERM /\ \A j \in 1 .. 7 : f[8 * num + j] = 0
  <2>1. term[0 * L + k] = TERM /\ \A y \in 1 .. 7 : term[y * L + k] = 0
    BY T3OfLane
  <2> HIDE DEF term
  <2> QED BY <1>3, <1>z, <2>1
<1>5. Digest(f, num + 1) = DigestFrom(number, Hashes(number), 4 * m, HashCap * HASH_SIZE)
  BY <1>3, <1>4, EndsAtCap
<1> QED BY <1>2, <1>5

LEMMA WordIs ==
  ASSUME NEW number, NEW p \in 0 .. NONCE_SIZE - 1
  PROVE  Word(number, p) = Hashes(number)[p \div 4][(p % 4) + 1]
BY Sizes DEF Word, SeededWord, WordAt

\* A buffer that has the hashes from hash h on, in every lane.
Filled(L, numbers, h) ==
  [a \in 0 .. L * NONCE_SIZE - 1 |->
     IF a \div L >= 4 * h THEN Word(numbers[a % L], a \div L) ELSE Stale]

LEMMA FilledLane ==
  ASSUME NEW L \in Nat \ {0}, NEW numbers, NEW k \in 0 .. L - 1, NEW h \in Nat
  PROVE  InLane(Filled(L, numbers, h), L, k, numbers[k], 4 * h)
<1> SUFFICES ASSUME NEW p \in 4 * h .. NONCE_SIZE - 1
             PROVE  Filled(L, numbers, h)[p * L + k] = Word(numbers[k], p)
  BY DEF InLane
<1>1. p \in 0 .. NONCE_SIZE - 1 /\ p >= 4 * h
  BY Sizes
<1>2. p * L + k \in 0 .. NONCE_SIZE * L - 1 /\ NONCE_SIZE * L = L * NONCE_SIZE
  BY <1>1, Sizes, CellOfRow
<1>3. (p * L + k) \div L = p /\ (p * L + k) % L = k
  BY <1>1, Composed
<1> QED BY <1>1, <1>2, <1>3 DEF Filled

(* Storing the hashes before it makes it fuller. *)
LEMMA StoreStep ==
  ASSUME NEW L \in Nat \ {0}, NEW numbers, NEW h \in 0 .. NumHashes - 1, NEW hashes,
         \A k \in 0 .. L - 1 : hashes[k] = Hashes(numbers[k])[h]
  PROVE  StoreLanes(L, Filled(L, numbers, h + 1), 4 * h, hashes) = Filled(L, numbers, h)
<1> DEFINE D == 0 .. L * NONCE_SIZE - 1
           before == Filled(L, numbers, h + 1)
           part == 4 * h * L .. (4 * h + HASH_SIZE) * L - 1
           written == [a \in part |-> hashes[a % L][a \div L - 4 * h + 1]]
<1>1. StoreLanes(L, before, 4 * h, hashes) = [a \in D |-> IF a \in part THEN written[a] ELSE before[a]]
  <2>1. StoreLanes(L, before, 4 * h, hashes) = Over(written, before)
    BY DEF StoreLanes
  <2>2. DOMAIN written = part /\ DOMAIN before = D
    BY DEF Filled
  <2> HIDE DEF written, before, part
  <2> QED BY <2>1, <2>2, OverIs
<1>2. ASSUME NEW a \in D
      PROVE  (IF a \in part THEN written[a] ELSE before[a]) = Filled(L, numbers, h)[a]
  <2> DEFINE p == a \div L
             k == a % L
  <2>1. p \in 0 .. NONCE_SIZE - 1 /\ k \in 0 .. L - 1
    <3>1. a \in 0 .. NONCE_SIZE * L - 1
      BY Sizes
    <3> QED BY <3>1, Sizes, RowAndCell
  <2>2. a \in part <=> p \in 4 * h .. 4 * h + 3
    <3>1. a \in 0 .. NONCE_SIZE * L - 1
      BY Sizes
    <3>2. 4 * h \in Int /\ 4 * h + 4 \in Int /\ NONCE_SIZE \in Nat
      BY Sizes
    <3> DEFINE lo == 4 * h
               hi == 4 * h + 4
    <3> HIDE DEF lo, hi
    <3>3. a \in lo * L .. hi * L - 1 <=> p \in lo .. hi - 1
      BY <3>1, <3>2, RowsBetween DEF lo, hi
    <3> QED BY <3>3, Sizes DEF lo, hi
  <2>3. before[a] = IF p >= 4 * (h + 1) THEN Word(numbers[k], p) ELSE Stale
    BY DEF Filled
  <2>4. Filled(L, numbers, h)[a] = IF p >= 4 * h THEN Word(numbers[k], p) ELSE Stale
    BY DEF Filled
  <2>5. a \in part => written[a] = hashes[k][p - 4 * h + 1]
    OBVIOUS
  <2> HIDE DEF written, before, part, p, k
  <2>6. CASE p \in 4 * h .. 4 * h + 3
    <3>1. p \div 4 = h /\ p % 4 = p - 4 * h /\ p >= 4 * h
      BY <2>6
    <3>2. Word(numbers[k], p) = Hashes(numbers[k])[h][p - 4 * h + 1]
      BY <2>1, <3>1, WordIs
    <3> QED BY <2>1, <2>2, <2>4, <2>5, <2>6, <3>1, <3>2
  <2>7. CASE p \notin 4 * h .. 4 * h + 3
    <3>1. p >= 4 * h <=> p >= 4 * (h + 1)
      BY <2>1, <2>7
    <3> QED BY <2>2, <2>3, <2>4, <2>7, <3>1
  <2> QED BY <2>6, <2>7
<1>3. Filled(L, numbers, h) = [a \in D |-> Filled(L, numbers, h)[a]]
  BY DEF Filled
<1> HIDE DEF written, before, part, D
<1>4. StoreLanes(L, before, 4 * h, hashes) = Filled(L, numbers, h)
  BY <1>1, <1>2, <1>3
<1> QED BY <1>4 DEF before

(* What the rounds hash is what the definition hashes. *)
LEMMA HashOf ==
  ASSUME NEW number, NEW h \in 0 .. NumHashes - 1
  PROVE  Hashes(number)[h]
           = DigestFrom(number, Hashes(number), 4 * (h + 1),
               IF 4 * (h + 1) <= NONCE_SIZE - HashCap * HASH_SIZE
                 THEN HashCap * HASH_SIZE ELSE NONCE_SIZE + 2 - 4 * (h + 1))
<1> DEFINE i == 4 * (h + 1)
<1>1. (h + 1) * HASH_SIZE = i /\ i \in Nat
  BY Sizes
<1>2. Capped(i) = IF i <= NONCE_SIZE - HashCap * HASH_SIZE
                    THEN HashCap * HASH_SIZE ELSE NONCE_SIZE + 2 - i
  BY NonceGenAssumption, Sizes DEF Capped
<1>3. Hashes(number)[h] = DigestFrom(number, Hashes(number), i, Capped(i))
  BY <1>1, HashesDigest
<1> QED BY <1>2, <1>3

LEMMA FirstRoundFills ==
  ASSUME NEW L \in Nat \ {0}, NEW numbers
  PROVE  FirstRound(L, numbers) = Filled(L, numbers, NumHashes - 1)
<1> DEFINE N == NumHashes
           fresh == [a \in 0 .. L * NONCE_SIZE - 1 |-> Stale]
           hashes == HashFast(L, fresh, 0, T1(L, numbers), 0)
<1>N. N \in Nat \ {0} /\ N - 1 \in 0 .. N - 1 /\ (N - 1) + 1 = N
  BY Sizes
<1>1. fresh = Filled(L, numbers, N)
  <2>1. ASSUME NEW a \in 0 .. L * NONCE_SIZE - 1 PROVE ~(a \div L >= 4 * N)
    <3>1. a \in 0 .. NONCE_SIZE * L - 1
      BY Sizes
    <3>2. a \div L \in 0 .. NONCE_SIZE - 1
      BY <3>1, Sizes, RowAndCell
    <3> QED BY <3>2, Sizes
  <2> QED BY <2>1 DEF Filled
<1> HIDE DEF fresh
<1>2. ASSUME NEW k \in 0 .. L - 1
      PROVE  hashes[k] = Hashes(numbers[k])[N - 1]
  <2> DEFINE t1 == T1(L, numbers)
  <2>1. HashFast(L, fresh, 0, t1, 0)[k] = Digest(LaneMessage(L, fresh, 0, t1, 0, k), 0 + 1)
    BY HashFastIs
  <2>2. HashFast(L, fresh, 4 * N, t1, 0)[k] = Digest(LaneMessage(L, fresh, 4 * N, t1, 0, k), 0 + 1)
    BY HashFastIs
  <2>3. LaneMessage(L, fresh, 0, t1, 0, k) = LaneMessage(L, fresh, 4 * N, t1, 0, k)
    <3> HIDE DEF t1
    <3>1. \A j \in 0 .. 8 * 0 + 7 : ~(j < 8 * 0)
      OBVIOUS
    <3> QED BY <3>1 DEF LaneMessage
  <2>4. HashFast(L, fresh, 4 * N, t1, 0)[k]
          = DigestFrom(numbers[k], Hashes(numbers[k]), 4 * N, NONCE_SIZE + 2 - 4 * N)
    <3>1. N \in 0 .. NumHashes /\ N % 2 = 0 /\ N % 2 # 1 /\ 0 = (NumHashes - N) \div 2
          /\ (4 * N) % 8 = 0
      BY Sizes
    <3>2. InLane(fresh, L, k, numbers[k], 4 * N)
      BY <1>1, <1>N, FilledLane
    <3> HIDE DEF N
    <3>3. HashFast(L, fresh, 4 * N, SeedTerm(L, numbers, fresh, 4 * N), 0)[k]
            = DigestFrom(numbers[k], Hashes(numbers[k]), 4 * N, NONCE_SIZE + 2 - 4 * N)
      BY <3>1, <3>2, SeededLane
    <3> QED BY <3>1, <3>3 DEF SeedTerm
  <2>5. Hashes(numbers[k])[N - 1]
          = DigestFrom(numbers[k], Hashes(numbers[k]), 4 * N, NONCE_SIZE + 2 - 4 * N)
    <3>1. ~(4 * N <= NONCE_SIZE - HashCap * HASH_SIZE)
      BY Sizes, NonceGenAssumption
    <3> HIDE DEF N
    <3> QED BY <1>N, <3>1, HashOf DEF N
  <2> QED BY <2>1, <2>2, <2>3, <2>4, <2>5
<1>3. FirstRound(L, numbers) = StoreLanes(L, fresh, 4 * (N - 1), hashes)
  <2>1. NONCE_SIZE - HASH_SIZE = 4 * (N - 1)
    BY Sizes
  <2> QED BY <2>1 DEF FirstRound, fresh
<1> HIDE DEF hashes
<1>4. StoreLanes(L, fresh, 4 * (N - 1), hashes) = Filled(L, numbers, N - 1)
  BY <1>1, <1>2, <1>N, StoreStep
<1> QED BY <1>3, <1>4

(* A later round, whichever way it ends. *)
LEMMA RoundHash ==
  ASSUME NEW L \in Nat \ {0}, NEW numbers, NEW h \in 0 .. NumHashes - 2, NEW k \in 0 .. L - 1,
         NEW tail, InLane(tail, L, k, numbers[k], NONCE_SIZE - HASH_SIZE)
  PROVE  LET i == 4 * (h + 1)
             buffer == Filled(L, numbers, h + 1)
         IN /\ i > NONCE_SIZE - HashCap * HASH_SIZE
                 => HashFast(L, buffer, i, SeedTerm(L, numbers, tail, i),
                             (NumHashes - (h + 1)) \div 2)[k] = Hashes(numbers[k])[h]
            /\ i <= NONCE_SIZE - HashCap * HASH_SIZE
                 => HashFast(L, buffer, i, T3(L), HashCap \div 2)[k] = Hashes(numbers[k])[h]
<1> DEFINE m == h + 1
           buffer == Filled(L, numbers, m)
           num == (NumHashes - m) \div 2
           cap == HashCap \div 2
<1>1. m \in 0 .. NumHashes /\ m \in Nat /\ num \in Nat /\ cap \in Nat /\ h \in 0 .. NumHashes - 1
  BY Sizes, NonceGenAssumption
<1>2. InLane(buffer, L, k, numbers[k], 4 * m)
  BY <1>1, FilledLane
<1>3. HashFast(L, buffer, 4 * m, SeedTerm(L, numbers, tail, 4 * m), num)[k]
        = DigestFrom(numbers[k], Hashes(numbers[k]), 4 * m, NONCE_SIZE + 2 - 4 * m)
  <2> HIDE DEF m, buffer
  <2> QED BY <1>1, <1>2, SeededLane
<1>4. 4 * m <= NONCE_SIZE - HashCap * HASH_SIZE
        => HashFast(L, buffer, 4 * m, T3(L), cap)[k]
             = DigestFrom(numbers[k], Hashes(numbers[k]), 4 * m, HashCap * HASH_SIZE)
  <2> HIDE DEF m, buffer
  <2> QED BY <1>1, <1>2, CappedLane
<1>5. Hashes(numbers[k])[h]
        = DigestFrom(numbers[k], Hashes(numbers[k]), 4 * m,
            IF 4 * m <= NONCE_SIZE - HashCap * HASH_SIZE
              THEN HashCap * HASH_SIZE ELSE NONCE_SIZE + 2 - 4 * m)
  BY <1>1, HashOf
<1>6. 4 * m > NONCE_SIZE - HashCap * HASH_SIZE <=> ~(4 * m <= NONCE_SIZE - HashCap * HASH_SIZE)
  BY <1>1, Sizes, NonceGenAssumption
<1>7. /\ 4 * m > NONCE_SIZE - HashCap * HASH_SIZE
           => HashFast(L, buffer, 4 * m, SeedTerm(L, numbers, tail, 4 * m), num)[k]
                = Hashes(numbers[k])[h]
      /\ 4 * m <= NONCE_SIZE - HashCap * HASH_SIZE
           => HashFast(L, buffer, 4 * m, T3(L), cap)[k] = Hashes(numbers[k])[h]
  <2> HIDE DEF m, buffer, num, cap
  <2> QED BY <1>3, <1>4, <1>5, <1>6
<1> QED BY <1>7

\* What Rounds and RustNonce leave after the round for hash h.
RoundOf(L, numbers, after, h) ==
  IF h = NumHashes - 1 THEN FirstRound(L, numbers)
  ELSE LET buffer == after[h + 1]
           i == (h + 1) * HASH_SIZE
       IN StoreLanes(L, buffer, i - HASH_SIZE,
            IF i > NONCE_SIZE - HashCap * HASH_SIZE
              THEN SeededRound(L, numbers, buffer, i) ELSE CappedRound(L, buffer, i))

LEMMA RoundFills ==
  ASSUME NEW L \in Nat \ {0}, NEW numbers, NEW after, NEW h \in 0 .. NumHashes - 1,
         h # NumHashes - 1 => after[h + 1] = Filled(L, numbers, h + 1)
  PROVE  RoundOf(L, numbers, after, h) = Filled(L, numbers, h)
<1>1. CASE h = NumHashes - 1
  BY <1>1, FirstRoundFills DEF RoundOf
<1>2. CASE h # NumHashes - 1
  <2> DEFINE buffer == Filled(L, numbers, h + 1)
             i == 4 * (h + 1)
             t == SeedTerm(L, numbers, buffer, i)
             seeded == HashFast(L, buffer, i, t, (NumHashes - (h + 1)) \div 2)
             capped == HashFast(L, buffer, i, T3(L), HashCap \div 2)
             few == i > NONCE_SIZE - HashCap * HASH_SIZE
             hashes == IF few THEN seeded ELSE capped
  <2>1. h \in 0 .. NumHashes - 2 /\ h + 1 \in Nat /\ i \in Nat /\ NumHashes \in Nat
    BY <1>2, Sizes
  <2>2. /\ (h + 1) * HASH_SIZE = i /\ i - HASH_SIZE = 4 * h
        /\ (NONCE_SIZE + 2 - i) \div 8 = (NumHashes - (h + 1)) \div 2
        /\ (HashCap * HASH_SIZE) \div 8 = HashCap \div 2
    BY <2>1, Sizes, NonceGenAssumption
  <2>3. ASSUME NEW k \in 0 .. L - 1
        PROVE  InLane(buffer, L, k, numbers[k], NONCE_SIZE - HASH_SIZE)
    <3>1. InLane(buffer, L, k, numbers[k], 4 * (h + 1))
      BY <2>1, FilledLane
    <3>2. \A p \in NONCE_SIZE - HASH_SIZE .. NONCE_SIZE - 1 : p \in 4 * (h + 1) .. NONCE_SIZE - 1
      BY <2>1, Sizes
    <3> HIDE DEF buffer
    <3> QED BY <3>1, <3>2 DEF InLane
  <2>4. \A k \in 0 .. L - 1 : hashes[k] = Hashes(numbers[k])[h]
    <3>1. TAKE k \in 0 .. L - 1
    <3>2. few => seeded[k] = Hashes(numbers[k])[h]
      BY <2>1, <2>3, RoundHash
    <3>3. ~few => capped[k] = Hashes(numbers[k])[h]
      <4>1. ~few => i <= NONCE_SIZE - HashCap * HASH_SIZE
        BY <2>1, Sizes, NonceGenAssumption
      <4> QED BY <4>1, <2>1, <2>3, RoundHash
    <3> HIDE DEF seeded, capped, few
    <3> QED BY <3>2, <3>3
  <2>5. RoundOf(L, numbers, after, h) = StoreLanes(L, buffer, 4 * h, hashes)
    <3>1. SeededRound(L, numbers, buffer, i) = seeded
      BY <2>2 DEF SeededRound, SeedTerm
    <3>2. CappedRound(L, buffer, i) = capped
      BY <2>2 DEF CappedRound
    <3> HIDE DEF seeded, capped
    <3>3. RoundOf(L, numbers, after, h)
            = StoreLanes(L, buffer, i - HASH_SIZE,
                IF i > NONCE_SIZE - HashCap * HASH_SIZE
                  THEN SeededRound(L, numbers, buffer, i) ELSE CappedRound(L, buffer, i))
      BY <1>2, <2>2 DEF RoundOf
    <3> QED BY <3>1, <3>2, <3>3, <2>2
  <2> HIDE DEF hashes
  <2>6. StoreLanes(L, buffer, 4 * h, hashes) = Filled(L, numbers, h)
    BY <2>4, StoreStep
  <2> QED BY <2>5, <2>6
<1> QED BY <1>1, <1>2

(* Whatever follows the rounds ends with all hashes in the buffer. *)
LEMMA AllRounds ==
  ASSUME NEW L \in Nat \ {0}, NEW numbers, NEW f,
         f = CHOOSE g : g = [h \in 0 .. NumHashes - 1 |-> RoundOf(L, numbers, g, h)]
  PROVE  f[0] = Filled(L, numbers, 0)
<1> DEFINE n == NumHashes - 1
           G == [h \in 0 .. n |-> Filled(L, numbers, h)]
           T == {h \in 0 .. n : f[h] = Filled(L, numbers, h)}
<1>n. n \in Nat
  BY Sizes
<1>1. G = [h \in 0 .. n |-> RoundOf(L, numbers, G, h)]
  <2>1. \A h \in 0 .. n : G[h] = Filled(L, numbers, h)
    OBVIOUS
  <2>2. G = [h \in 0 .. n |-> G[h]]
    OBVIOUS
  <2>3. \A h \in 0 .. n : h # n => h + 1 \in 0 .. n
    BY <1>n
  <2> HIDE DEF G
  <2>4. ASSUME NEW h \in 0 .. n PROVE G[h] = RoundOf(L, numbers, G, h)
    BY <2>1, <2>3, RoundFills
  <2> QED BY <2>2, <2>4
<1> HIDE DEF G
<1>2. f = [h \in 0 .. n |-> RoundOf(L, numbers, f, h)]
  <2>1. \E g : g = [h \in 0 .. NumHashes - 1 |-> RoundOf(L, numbers, g, h)]
    BY <1>1
  <2> QED BY <2>1
<1>3. \A h \in 0 .. n : f[h] = RoundOf(L, numbers, f, h)
  <2> HIDE DEF n
  <2> QED BY <1>2, Zenon
<1>4. n \in T
  BY <1>3, <1>n, RoundFills
<1>5. ASSUME NEW h \in 0 .. n - 1, h + 1 \in T PROVE h \in T
  <2>1. h \in 0 .. n
    BY <1>n
  <2>2. f[h] = Filled(L, numbers, h)
    BY <1>3, <1>5, <2>1, RoundFills
  <2> QED BY <2>1, <2>2
<1>6. 0 .. n \subseteq T
  <2> HIDE DEF n, T
  <2> QED BY <1>n, <1>4, <1>5, DownInduction
<1>7. 0 \in 0 .. n
  BY <1>n
<1> QED BY <1>6, <1>7

LEMMA RoundsFill ==
  ASSUME NEW L \in Nat \ {0}, NEW numbers
  PROVE  Rounds(L, numbers) = Filled(L, numbers, 0)
<1> DEFINE f == CHOOSE g : g = [h \in 0 .. NumHashes - 1 |-> RoundOf(L, numbers, g, h)]
<1>1. Rounds(L, numbers) = f[0]
  BY DEF Rounds, RoundOf
<1> HIDE DEF f
<1>2. f = CHOOSE g : g = [h \in 0 .. NumHashes - 1 |-> RoundOf(L, numbers, g, h)]
  BY DEF f
<1>3. f[0] = Filled(L, numbers, 0)
  BY <1>2, AllRounds, Zenon
<1> QED BY <1>1, <1>3

\* A word of the plot, before it is shuffled: XORed with the final hash.
Final(number) == DigestFrom(number, Hashes(number), 0, NONCE_SIZE + 2)
PlotWord(number, p) == XorWord(Word(number, p), Final(number)[(p % 4) + 1])

LEMMA FinalLane ==
  ASSUME NEW L \in Nat \ {0}, NEW numbers, NEW k \in 0 .. L - 1
  PROVE  /\ HashFast(L, Filled(L, numbers, 0), 0, T1(L, numbers), (NONCE_SIZE + 2) \div 8)[k]
              = Final(numbers[k])
         /\ HashFast(L, Filled(L, numbers, 0), 0, T1(L, numbers), NONCE_SIZE \div 8)[k]
              = Final(numbers[k])
<1> DEFINE buffer == Filled(L, numbers, 0)
           num == (NumHashes - 0) \div 2
<1>1. /\ 4 * 0 = 0 /\ (NONCE_SIZE + 2) \div 8 = num /\ NONCE_SIZE \div 8 = num /\ num \in Nat
      /\ 0 \in 0 .. NumHashes /\ 0 % 2 # 1 /\ NONCE_SIZE + 2 - 0 = NONCE_SIZE + 2
      /\ 0 % 8 = 0 /\ 0 \in Nat
  BY Sizes
<1>2. InLane(buffer, L, k, numbers[k], 4 * 0)
  BY <1>1, FilledLane
<1> HIDE DEF buffer
<1>3. HashFast(L, buffer, 4 * 0, SeedTerm(L, numbers, buffer, 4 * 0), num)[k]
        = DigestFrom(numbers[k], Hashes(numbers[k]), 4 * 0, NONCE_SIZE + 2 - 4 * 0)
  BY <1>1, <1>2, SeededLane
<1>4. SeedTerm(L, numbers, buffer, 0) = T1(L, numbers)
  BY <1>1 DEF SeedTerm
<1>5. HashFast(L, buffer, 0, T1(L, numbers), num)[k] = Final(numbers[k])
  BY <1>1, <1>3, <1>4 DEF Final
<1> HIDE DEF num
<1> QED BY <1>1, <1>5 DEF buffer

(* A vector of nonces, computed at once, is the nonces of the definition. *)
LEMMA FinishedIs ==
  ASSUME NEW L \in Nat \ {0}, NEW numbers
  PROVE  Finished(L, numbers)
           = [a \in 0 .. L * NONCE_SIZE - 1 |-> PlotWord(numbers[a % L], a \div L)]
<1> DEFINE buffer == Filled(L, numbers, 0)
           final == HashFast(L, buffer, 0, T1(L, numbers), (NONCE_SIZE + 2) \div 8)
           D == 0 .. L * NONCE_SIZE - 1
<1>1. Finished(L, numbers) = [a \in DOMAIN buffer |-> XorWord(buffer[a], final[a % L][WordAt(a, L)])]
  BY RoundsFill DEF Finished
<1>2. DOMAIN buffer = D
  BY DEF Filled
<1>3. ASSUME NEW a \in D
      PROVE  XorWord(buffer[a], final[a % L][WordAt(a, L)]) = PlotWord(numbers[a % L], a \div L)
  <2>1. a \in 0 .. NONCE_SIZE * L - 1
    BY Sizes
  <2>2. a \div L \in 0 .. NONCE_SIZE - 1 /\ a % L \in 0 .. L - 1
    BY <2>1, Sizes, RowAndCell
  <2>3. buffer[a] = Word(numbers[a % L], a \div L)
    BY <2>2 DEF Filled
  <2>4. final[a % L] = Final(numbers[a % L])
    BY <2>2, FinalLane
  <2>5. WordAt(a, L) = ((a \div L) % 4) + 1
    BY Sizes DEF WordAt
  <2> HIDE DEF buffer, final
  <2> QED BY <2>3, <2>4, <2>5 DEF PlotWord
<1> HIDE DEF buffer, final, D
<1>4. Finished(L, numbers) = [a \in D |-> PlotWord(numbers[a % L], a \div L)]
  BY <1>1, <1>2, <1>3
<1> QED BY <1>4 DEF D

\* The nonce on its own.
PlotNonce(number) == [a \in 0 .. NONCE_SIZE - 1 |-> PlotWord(number, a)]

-----------------------------------------------------------------------------
(* One nonce after the other, with the endings of the vectors (RustNonce). *)

\* What RustNonce leaves after the round for hash h.
RustRound(numbers, after, h) ==
  IF h = NumHashes - 1 THEN FirstRound(1, numbers)
  ELSE LET buffer == after[h + 1]
           i == (h + 1) * HASH_SIZE
       IN StoreLanes(1, buffer, i - HASH_SIZE,
            IF i <= NONCE_SIZE - HashCap * HASH_SIZE
              THEN shabal256_fast(buffer, i, i + HashCap * HASH_SIZE, T3(1))
              ELSE shabal256_fast(buffer, i, NONCE_SIZE,
                                  IF i % 8 = 0 THEN T1(1, numbers)
                                               ELSE T2(1, numbers, FirstRound(1, numbers))))

LEMMA RustRoundFills ==
  ASSUME NEW numbers, NEW after, NEW h \in 0 .. NumHashes - 1,
         h # NumHashes - 1 => after[h + 1] = Filled(1, numbers, h + 1)
  PROVE  RustRound(numbers, after, h) = Filled(1, numbers, h)
<1>L. 1 \in Nat \ {0}
  OBVIOUS
<1>1. CASE h = NumHashes - 1
  BY <1>1, <1>L, FirstRoundFills DEF RustRound
<1>2. CASE h # NumHashes - 1
  <2> DEFINE buffer == Filled(1, numbers, h + 1)
             first == FirstRound(1, numbers)
             i == 4 * (h + 1)
             seeded == HashFast(1, buffer, i, SeedTerm(1, numbers, first, i),
                                (NumHashes - (h + 1)) \div 2)
             capped == HashFast(1, buffer, i, T3(1), HashCap \div 2)
             many == i <= NONCE_SIZE - HashCap * HASH_SIZE
             hashes == IF many THEN capped ELSE seeded
  <2>1. h \in 0 .. NumHashes - 2 /\ h + 1 \in Nat /\ i \in Nat /\ NumHashes \in Nat
    BY <1>2, Sizes
  <2>2. /\ (h + 1) * HASH_SIZE = i /\ i - HASH_SIZE = 4 * h
        /\ (NONCE_SIZE - i) \div 8 = (NumHashes - (h + 1)) \div 2
        /\ ((i + HashCap * HASH_SIZE) - i) \div 8 = HashCap \div 2
    BY <2>1, Sizes, NonceGenAssumption
  <2>3. ASSUME NEW k \in 0 .. 1 - 1
        PROVE  InLane(first, 1, k, numbers[k], NONCE_SIZE - HASH_SIZE)
    <3>1. InLane(Filled(1, numbers, NumHashes - 1), 1, k, numbers[k], 4 * (NumHashes - 1))
      BY <2>1, <1>L, FilledLane, Sizes
    <3>2. 4 * (NumHashes - 1) = NONCE_SIZE - HASH_SIZE
      BY Sizes
    <3> QED BY <3>1, <3>2, <1>L, FirstRoundFills
  <2>4. \A k \in 0 .. 1 - 1 : hashes[k] = Hashes(numbers[k])[h]
    <3>1. TAKE k \in 0 .. 1 - 1
    <3>2. many => capped[k] = Hashes(numbers[k])[h]
      BY <2>1, <2>3, <1>L, RoundHash
    <3>3. ~many => seeded[k] = Hashes(numbers[k])[h]
      <4>1. ~many => i > NONCE_SIZE - HashCap * HASH_SIZE
        BY <2>1, Sizes, NonceGenAssumption
      <4> QED BY <4>1, <2>1, <2>3, <1>L, RoundHash
    <3> HIDE DEF seeded, capped, many
    <3> QED BY <3>2, <3>3
  <2>5. RustRound(numbers, after, h) = StoreLanes(1, buffer, 4 * h, hashes)
    <3>1. shabal256_fast(buffer, i, NONCE_SIZE,
                         IF i % 8 = 0 THEN T1(1, numbers) ELSE T2(1, numbers, first)) = seeded
      BY <2>2 DEF SeedTerm, shabal256_fast
    <3>2. shabal256_fast(buffer, i, i + HashCap * HASH_SIZE, T3(1)) = capped
      BY <2>2 DEF shabal256_fast
    <3> HIDE DEF seeded, capped
    <3>3. RustRound(numbers, after, h)
            = StoreLanes(1, buffer, i - HASH_SIZE,
                IF i <= NONCE_SIZE - HashCap * HASH_SIZE
                  THEN shabal256_fast(buffer, i, i + HashCap * HASH_SIZE, T3(1))
                  ELSE shabal256_fast(buffer, i, NONCE_SIZE,
                                      IF i % 8 = 0 THEN T1(1, numbers)
                                                   ELSE T2(1, numbers, first)))
      BY <1>2, <2>2 DEF RustRound
    <3> QED BY <3>1, <3>2, <3>3, <2>2
  <2> HIDE DEF hashes
  <2>6. StoreLanes(1, buffer, 4 * h, hashes) = Filled(1, numbers, h)
    BY <2>4, <1>L, StoreStep
  <2> QED BY <2>5, <2>6
<1> QED BY <1>1, <1>2

LEMMA AllRustRounds ==
  ASSUME NEW numbers, NEW f,
         f = CHOOSE g : g = [h \in 0 .. NumHashes - 1 |-> RustRound(numbers, g, h)]
  PROVE  f[0] = Filled(1, numbers, 0)
<1> DEFINE n == NumHashes - 1
           G == [h \in 0 .. n |-> Filled(1, numbers, h)]
           T == {h \in 0 .. n : f[h] = Filled(1, numbers, h)}
<1>n. n \in Nat
  BY Sizes
<1>1. G = [h \in 0 .. n |-> RustRound(numbers, G, h)]
  <2>1. \A h \in 0 .. n : G[h] = Filled(1, numbers, h)
    OBVIOUS
  <2>2. G = [h \in 0 .. n |-> G[h]]
    OBVIOUS
  <2>3. \A h \in 0 .. n : h # n => h + 1 \in 0 .. n
    BY <1>n
  <2> HIDE DEF G
  <2>4. ASSUME NEW h \in 0 .. n PROVE G[h] = RustRound(numbers, G, h)
    BY <2>1, <2>3, RustRoundFills
  <2> QED BY <2>2, <2>4
<1> HIDE DEF G
<1>2. f = [h \in 0 .. n |-> RustRound(numbers, f, h)]
  <2>1. \E g : g = [h \in 0 .. NumHashes - 1 |-> RustRound(numbers, g, h)]
    BY <1>1
  <2> QED BY <2>1
<1>3. \A h \in 0 .. n : f[h] = RustRound(numbers, f, h)
  <2> HIDE DEF n
  <2> QED BY <1>2, Zenon
<1>4. n \in T
  BY <1>3, <1>n, RustRoundFills
<1>5. ASSUME NEW h \in 0 .. n - 1, h + 1 \in T PROVE h \in T
  <2>1. h \in 0 .. n
    BY <1>n
  <2>2. f[h] = Filled(1, numbers, h)
    BY <1>3, <1>5, <2>1, RustRoundFills
  <2> QED BY <2>1, <2>2
<1>6. 0 .. n \subseteq T
  <2> HIDE DEF n, T
  <2> QED BY <1>n, <1>4, <1>5, DownInduction
<1>7. 0 \in 0 .. n
  BY <1>n
<1> QED BY <1>6, <1>7

(* noncegen_rust computes the nonce of the definition. *)
LEMMA RustNonceIs ==
  ASSUME NEW number
  PROVE  RustNonce(number) = PlotNonce(Bswap(number))
<1> DEFINE numbers == [k \in {0} |-> Bswap(number)]
           f == CHOOSE g : g = [h \in 0 .. NumHashes - 1 |-> RustRound(numbers, g, h)]
           all == f[0]
           final == shabal256_fast(all, 0, NONCE_SIZE, T1(1, numbers))[0]
<1>1. RustNonce(number) = [a \in 0 .. NONCE_SIZE - 1 |-> XorWord(all[a], final[WordAt(a, 1)])]
  BY DEF RustNonce, RustRound
<1>2. all = Filled(1, numbers, 0)
  <2>1. f = CHOOSE g : g = [h \in 0 .. NumHashes - 1 |-> RustRound(numbers, g, h)]
    OBVIOUS
  <2> HIDE DEF f, numbers
  <2> QED BY <2>1, AllRustRounds, Zenon
<1>3. numbers[0] = Bswap(number)
  OBVIOUS
<1> HIDE DEF f, numbers
<1>4. final = Final(numbers[0])
  <2>1. 0 \in 0 .. 1 - 1 /\ 1 \in Nat \ {0} /\ NONCE_SIZE - 0 = NONCE_SIZE
    BY Sizes
  <2> QED BY <1>2, <2>1, FinalLane DEF shabal256_fast
<1>5. ASSUME NEW a \in 0 .. NONCE_SIZE - 1
      PROVE  XorWord(all[a], final[WordAt(a, 1)]) = PlotWord(numbers[0], a)
  <2>1. a \div 1 = a /\ a % 1 = 0 /\ a \in 0 .. 1 * NONCE_SIZE - 1 /\ a >= 4 * 0
    BY Sizes
  <2>2. all[a] = Word(numbers[0], a)
    BY <1>2, <2>1 DEF Filled
  <2>3. WordAt(a, 1) = (a % 4) + 1
    BY <2>1, Sizes DEF WordAt
  <2> HIDE DEF all, final
  <2> QED BY <2>2, <2>3, <1>4 DEF PlotWord
<1> HIDE DEF all, final
<1>6. RustNonce(number) = [a \in 0 .. NONCE_SIZE - 1 |-> PlotWord(numbers[0], a)]
  BY <1>1, <1>5
<1> QED BY <1>3, <1>6 DEF PlotNonce

-----------------------------------------------------------------------------
(* The nonces a vector is too long for (ScalarNonce): the seed stays behind  *)
(* the hashes.                                                               *)

FilledSeeded(number, h) ==
  [a \in 0 .. NONCE_SIZE + 1 |-> IF a >= 4 * h THEN Word(number, a) ELSE Stale]

LEMMA ScalarHash ==
  ASSUME NEW number, NEW h \in 0 .. NumHashes, NEW i \in Nat, i >= 4 * h, NEW len \in Nat,
         i + len <= NONCE_SIZE + 2
  PROVE  Shabal256(FilledSeeded(number, h), i, len) = DigestFrom(number, Hashes(number), i, len)
<1> DEFINE buffer == FilledSeeded(number, h)
<1>1. ASSUME NEW j \in 0 .. 8 * (len \div 8) + 7
      PROVE  (IF j < len THEN buffer[i + j] ELSE IF j = len THEN TERM ELSE 0)
               = IF j < len THEN Word(number, i + j) ELSE IF j = len THEN TERM ELSE 0
  <2>1. CASE j < len
    <3>1. i + j \in 0 .. NONCE_SIZE + 1 /\ i + j >= 4 * h
      BY <2>1, Sizes
    <3>2. buffer[i + j] = Word(number, i + j)
      BY <3>1 DEF FilledSeeded
    <3> QED BY <2>1, <3>2
  <2>2. CASE ~(j < len)
    BY <2>2
  <2> QED BY <2>1, <2>2
<1> HIDE DEF buffer
<1>2. Padded(buffer, i, len) = MessageFrom(number, i, len)
  BY <1>1 DEF Padded, MessageFrom
<1> QED BY <1>2, DigestIs DEF Shabal256, buffer

LEMMA ScalarStore ==
  ASSUME NEW number, NEW h \in 0 .. NumHashes - 1, NEW hashes, hashes[0] = Hashes(number)[h]
  PROVE  StoreLanes(1, FilledSeeded(number, h + 1), 4 * h, hashes) = FilledSeeded(number, h)
<1> DEFINE D == 0 .. NONCE_SIZE + 1
           before == FilledSeeded(number, h + 1)
           part == 4 * h * 1 .. (4 * h + HASH_SIZE) * 1 - 1
           written == [a \in part |-> hashes[a % 1][a \div 1 - 4 * h + 1]]
<1>1. StoreLanes(1, before, 4 * h, hashes) = [a \in D |-> IF a \in part THEN written[a] ELSE before[a]]
  <2>1. StoreLanes(1, before, 4 * h, hashes) = Over(written, before)
    BY DEF StoreLanes
  <2>2. DOMAIN written = part /\ DOMAIN before = D
    BY DEF FilledSeeded
  <2> HIDE DEF written, before, part
  <2> QED BY <2>1, <2>2, OverIs
<1>2. ASSUME NEW a \in D
      PROVE  (IF a \in part THEN written[a] ELSE before[a]) = FilledSeeded(number, h)[a]
  <2>1. a \div 1 = a /\ a % 1 = 0 /\ a \in Nat
    BY Sizes
  <2>2. a \in part <=> a \in 4 * h .. 4 * h + 3
    BY Sizes
  <2>3. before[a] = IF a >= 4 * (h + 1) THEN Word(number, a) ELSE Stale
    BY DEF FilledSeeded
  <2>4. FilledSeeded(number, h)[a] = IF a >= 4 * h THEN Word(number, a) ELSE Stale
    BY DEF FilledSeeded
  <2>5. a \in part => written[a] = hashes[0][a - 4 * h + 1]
    BY <2>1
  <2> HIDE DEF written, before, part
  <2>6. CASE a \in 4 * h .. 4 * h + 3
    <3>1. a \div 4 = h /\ a % 4 = a - 4 * h /\ a >= 4 * h /\ a \in 0 .. NONCE_SIZE - 1
      BY <2>6, Sizes
    <3>2. Word(number, a) = Hashes(number)[h][a - 4 * h + 1]
      BY <3>1, WordIs
    <3> QED BY <2>2, <2>4, <2>5, <2>6, <3>1, <3>2
  <2>7. CASE a \notin 4 * h .. 4 * h + 3
    <3>1. a >= 4 * h <=> a >= 4 * (h + 1)
      BY <2>1, <2>7
    <3> QED BY <2>2, <2>3, <2>4, <2>7, <3>1
  <2> QED BY <2>6, <2>7
<1>3. FilledSeeded(number, h) = [a \in D |-> FilledSeeded(number, h)[a]]
  BY DEF FilledSeeded
<1> HIDE DEF written, before, part, D
<1>4. StoreLanes(1, before, 4 * h, hashes) = FilledSeeded(number, h)
  BY <1>1, <1>2, <1>3
<1> QED BY <1>4 DEF before

\* The buffer before any hash, and what ScalarNonce leaves after hash h.
SeedOnly(number) ==
  [a \in 0 .. NONCE_SIZE + 1 |->
     CASE a = NONCE_SIZE -> Bswap(NumericId)
       [] a = NONCE_SIZE + 1 -> Bswap(number)
       [] OTHER -> Stale]
ScalarRound(number, after, h) ==
  IF h = NumHashes THEN SeedOnly(number)
  ELSE LET hashed == after[h + 1]
           i == (h + 1) * HASH_SIZE
       IN StoreLanes(1, hashed, i - HASH_SIZE,
                     [k \in {0} |-> Shabal256(hashed, i, MessageLength(i))])

LEMMA ScalarRoundFills ==
  ASSUME NEW number, NEW after, NEW h \in 0 .. NumHashes,
         h # NumHashes => after[h + 1] = FilledSeeded(Bswap(number), h + 1)
  PROVE  ScalarRound(number, after, h) = FilledSeeded(Bswap(number), h)
<1> DEFINE x == Bswap(number)
<1>1. CASE h = NumHashes
  <2>1. ASSUME NEW a \in 0 .. NONCE_SIZE + 1
        PROVE  (CASE a = NONCE_SIZE -> Bswap(NumericId)
                  [] a = NONCE_SIZE + 1 -> Bswap(number)
                  [] OTHER -> Stale) = IF a >= 4 * h THEN Word(x, a) ELSE Stale
    <3>1. a >= 4 * h <=> a = NONCE_SIZE \/ a = NONCE_SIZE + 1
      BY <1>1, Sizes
    <3>2. NONCE_SIZE # NONCE_SIZE + 1
      BY Sizes
    <3>3. Word(x, NONCE_SIZE) = Bswap(NumericId) /\ Word(x, NONCE_SIZE + 1) = x
      BY SeedWords
    <3>4. CASE a = NONCE_SIZE
      BY <3>1, <3>2, <3>3, <3>4
    <3>5. CASE a = NONCE_SIZE + 1
      BY <3>1, <3>2, <3>3, <3>5
    <3>6. CASE a # NONCE_SIZE /\ a # NONCE_SIZE + 1
      BY <3>1, <3>6
    <3> QED BY <3>4, <3>5, <3>6
  <2>2. SeedOnly(number) = FilledSeeded(x, h)
    BY <2>1 DEF SeedOnly, FilledSeeded
  <2> QED BY <1>1, <2>2 DEF ScalarRound
<1>2. CASE h # NumHashes
  <2> DEFINE hashed == FilledSeeded(x, h + 1)
             i == 4 * (h + 1)
             len == MessageLength(i)
             hashes == [k \in {0} |-> Shabal256(hashed, i, len)]
  <2>1. h \in 0 .. NumHashes - 1 /\ h + 1 \in 0 .. NumHashes /\ i \in Nat
    BY <1>2, Sizes
  <2>2. (h + 1) * HASH_SIZE = i /\ i - HASH_SIZE = 4 * h
    BY <2>1, Sizes
  <2>3. /\ len = IF i <= NONCE_SIZE - HashCap * HASH_SIZE
                   THEN HashCap * HASH_SIZE ELSE NONCE_SIZE + 2 - i
        /\ len \in Nat /\ i + len <= NONCE_SIZE + 2
    BY <2>1, Sizes, NonceGenAssumption DEF MessageLength
  <2>4. hashes[0] = Hashes(x)[h]
    <3>1. Shabal256(hashed, i, len) = DigestFrom(x, Hashes(x), i, len)
      <4> HIDE DEF len, x
      <4> QED BY <2>1, <2>3, ScalarHash
    <3>2. Hashes(x)[h] = DigestFrom(x, Hashes(x), i, len)
      <4> HIDE DEF len, x
      <4> QED BY <2>1, <2>3, HashOf
    <3> QED BY <3>1, <3>2
  <2>5. ScalarRound(number, after, h) = StoreLanes(1, hashed, 4 * h, hashes)
    BY <1>2, <2>2 DEF ScalarRound
  <2> HIDE DEF hashes, x
  <2>6. StoreLanes(1, hashed, 4 * h, hashes) = FilledSeeded(x, h)
    BY <2>1, <2>4, ScalarStore
  <2> QED BY <2>5, <2>6 DEF x
<1> QED BY <1>1, <1>2

LEMMA AllScalarRounds ==
  ASSUME NEW number, NEW f,
         f = CHOOSE g : g = [h \in 0 .. NumHashes |-> ScalarRound(number, g, h)]
  PROVE  f[0] = FilledSeeded(Bswap(number), 0)
<1> DEFINE n == NumHashes
           G == [h \in 0 .. n |-> FilledSeeded(Bswap(number), h)]
           T == {h \in 0 .. n : f[h] = FilledSeeded(Bswap(number), h)}
<1>n. n \in Nat
  BY Sizes
<1>1. G = [h \in 0 .. n |-> ScalarRound(number, G, h)]
  <2>1. \A h \in 0 .. n : G[h] = FilledSeeded(Bswap(number), h)
    OBVIOUS
  <2>2. G = [h \in 0 .. n |-> G[h]]
    OBVIOUS
  <2>3. \A h \in 0 .. n : h # n => h + 1 \in 0 .. n
    BY <1>n
  <2> HIDE DEF G
  <2>4. ASSUME NEW h \in 0 .. n PROVE G[h] = ScalarRound(number, G, h)
    BY <2>1, <2>3, ScalarRoundFills
  <2> QED BY <2>2, <2>4
<1> HIDE DEF G
<1>2. f = [h \in 0 .. n |-> ScalarRound(number, f, h)]
  <2>1. \E g : g = [h \in 0 .. NumHashes |-> ScalarRound(number, g, h)]
    BY <1>1
  <2> QED BY <2>1
<1>3. \A h \in 0 .. n : f[h] = ScalarRound(number, f, h)
  <2> HIDE DEF n
  <2> QED BY <1>2, Zenon
<1>4. n \in T
  BY <1>3, <1>n, ScalarRoundFills
<1>5. ASSUME NEW h \in 0 .. n - 1, h + 1 \in T PROVE h \in T
  <2>1. h \in 0 .. n
    BY <1>n
  <2>2. f[h] = FilledSeeded(Bswap(number), h)
    BY <1>3, <1>5, <2>1, ScalarRoundFills
  <2> QED BY <2>1, <2>2
<1>6. 0 .. n \subseteq T
  <2> HIDE DEF n, T
  <2> QED BY <1>n, <1>4, <1>5, DownInduction
<1>7. 0 \in 0 .. n
  BY <1>n
<1> QED BY <1>6, <1>7

(* A nonce on its own is the nonce of the definition. *)
LEMMA ScalarNonceIs ==
  ASSUME NEW number
  PROVE  ScalarNonce(number) = PlotNonce(Bswap(number))
<1> DEFINE f == CHOOSE g : g = [h \in 0 .. NumHashes |-> ScalarRound(number, g, h)]
           buffer == f[0]
           final == Shabal256(buffer, 0, NONCE_SIZE + 2)
           x == Bswap(number)
<1>1. ScalarNonce(number) = [a \in 0 .. NONCE_SIZE - 1 |-> XorWord(buffer[a], final[WordAt(a, 1)])]
  BY DEF ScalarNonce, ScalarRound, SeedOnly
<1>2. buffer = FilledSeeded(x, 0)
  <2>1. f = CHOOSE g : g = [h \in 0 .. NumHashes |-> ScalarRound(number, g, h)]
    OBVIOUS
  <2> HIDE DEF f
  <2> QED BY <2>1, AllScalarRounds, Zenon
<1> HIDE DEF f
<1>3. final = Final(x)
  <2>1. /\ 0 \in 0 .. NumHashes /\ 0 >= 4 * 0 /\ NONCE_SIZE + 2 \in Nat /\ 0 \in Nat
        /\ 0 + (NONCE_SIZE + 2) <= NONCE_SIZE + 2
    BY Sizes
  <2> HIDE DEF x
  <2> QED BY <1>2, <2>1, ScalarHash DEF Final
<1>4. ASSUME NEW a \in 0 .. NONCE_SIZE - 1
      PROVE  XorWord(buffer[a], final[WordAt(a, 1)]) = PlotWord(x, a)
  <2>1. a \div 1 = a /\ a \in 0 .. NONCE_SIZE + 1 /\ a >= 4 * 0
    BY Sizes
  <2>2. buffer[a] = Word(x, a)
    BY <1>2, <2>1 DEF FilledSeeded
  <2>3. WordAt(a, 1) = (a % 4) + 1
    BY <2>1, Sizes DEF WordAt
  <2> HIDE DEF buffer, final, x
  <2> QED BY <2>2, <2>3, <1>3 DEF PlotWord
<1> HIDE DEF buffer, final, x
<1>5. ScalarNonce(number) = [a \in 0 .. NONCE_SIZE - 1 |-> PlotWord(x, a)]
  BY <1>1, <1>4
<1> QED BY <1>5 DEF PlotNonce, x

-----------------------------------------------------------------------------
(* The cache: which word of which hash of which slot is at an address. *)

SlotAt(a) == (a \div 8) % CacheSize
ScoopAt(a) == (a \div 8) \div CacheSize
HashAt(a) == IF a % 8 < 4 THEN 2 * ScoopAt(a) ELSE 2 * (NumScoops - 1 - ScoopAt(a)) + 1

(* The shuffle: two hashes have a scoop, each its own half of it. *)
LEMMA Shuffle ==
  ASSUME NEW i \in 0 .. NumHashes - 1
  PROVE  /\ ScoopOf(i) \in 0 .. NumScoops - 1
         /\ i % 2 = 0 => i = 2 * ScoopOf(i)
         /\ i % 2 = 1 => i = 2 * (NumScoops - 1 - ScoopOf(i)) + 1
         /\ i % 2 \in {0, 1}
BY Sizes DEF ScoopOf

LEMMA CacheWhole ==
  ASSUME CacheSize # 0
  PROVE  /\ CacheSize \in Nat \ {0}
         /\ CacheSize * NONCE_SIZE = (NumScoops * CacheSize) * 8
         /\ NumScoops * CacheSize \in Nat
BY NonceGenAssumption, Sizes

(* The words of a hash are at the addresses that are decoded to it ... *)
LEMMA AddressDecoded ==
  ASSUME NEW i \in 0 .. NumHashes - 1, NEW slot \in 0 .. CacheSize - 1, NEW word \in 0 .. 3
  PROVE  LET a == CacheAddress(i, slot, CacheSize) + word
         IN /\ a \in 0 .. CacheSize * NONCE_SIZE - 1
            /\ SlotAt(a) = slot /\ ScoopAt(a) = ScoopOf(i) /\ HashAt(a) = i /\ a % 4 = word
            /\ a % 8 = 4 * (i % 2) + word
<1> DEFINE a == CacheAddress(i, slot, CacheSize) + word
           s == ScoopOf(i)
           C == CacheSize
           c == s * C + slot
           y == 4 * (i % 2) + word
<1>0. C \in Nat \ {0} /\ C # 0
  BY NonceGenAssumption
<1>1. s \in 0 .. NumScoops - 1 /\ y \in 0 .. 7 /\ i % 2 \in {0, 1}
  BY Shuffle
<1>2. a = c * 8 + y
  <2>1. a = s * 8 * C + slot * 8 + (i % 2) * 4 + word
    BY Sizes DEF CacheAddress
  <2>2. i % 2 \in Int /\ s \in Int /\ C \in Int /\ slot \in Int
    BY <1>0, <1>1
  <2> DEFINE b == i % 2
  <2> HIDE DEF s, C, b
  <2> QED BY <2>1, <2>2 DEF b
<1> HIDE DEF s
<1>3. c \in 0 .. NumScoops * C - 1 /\ c \div C = s /\ c % C = slot
  BY <1>0, <1>1, CellOfRow, Composed, Sizes
<1>4. c * 8 + y \in 0 .. (NumScoops * C) * 8 - 1
  <2> DEFINE n == NumScoops * C
  <2>1. n \in Nat /\ c \in 0 .. n - 1 /\ 8 \in Nat \ {0} /\ y \in 0 .. 8 - 1
    BY <1>0, <1>1, <1>3, Sizes
  <2> HIDE DEF n, c, y
  <2>2. c * 8 + y \in 0 .. n * 8 - 1
    BY <2>1, CellOfRow
  <2> QED BY <2>2 DEF n
<1>5. a \div 8 = c /\ a % 8 = y /\ a % 4 = word
  <2>1. c \in Int
    BY <1>0, <1>3, Sizes
  <2> HIDE DEF a, c
  <2>2. a \div 8 = c /\ a % 8 = y
    BY <1>1, <1>2, <2>1
  <2>3. a % 4 = word
    BY <1>1, <1>2, <2>1
  <2> QED BY <2>2, <2>3
<1>6. a \in 0 .. C * NONCE_SIZE - 1
  BY <1>0, <1>2, <1>4, CacheWhole
<1>7. SlotAt(a) = slot /\ ScoopAt(a) = s
  BY <1>3, <1>5 DEF SlotAt, ScoopAt
<1>8. HashAt(a) = i
  <2>1. y < 4 <=> i % 2 = 0
    BY <1>1
  <2> HIDE DEF y, a
  <2> QED BY <1>1, <1>5, <1>7, <2>1, Shuffle DEF HashAt, s
<1> HIDE DEF a, y
<1>9. /\ a \in 0 .. CacheSize * NONCE_SIZE - 1
      /\ SlotAt(a) = slot /\ ScoopAt(a) = ScoopOf(i) /\ HashAt(a) = i /\ a % 4 = word
      /\ a % 8 = 4 * (i % 2) + word
  BY <1>5, <1>6, <1>7, <1>8 DEF s, y
<1> QED BY <1>9 DEF a

(* ... and no others are. *)
LEMMA DecodedAddress ==
  ASSUME NEW a \in 0 .. CacheSize * NONCE_SIZE - 1
  PROVE  /\ CacheSize \in Nat \ {0}
         /\ SlotAt(a) \in 0 .. CacheSize - 1 /\ HashAt(a) \in 0 .. NumHashes - 1
         /\ a % 4 \in 0 .. 3
         /\ a = CacheAddress(HashAt(a), SlotAt(a), CacheSize) + (a % 4)
<1> DEFINE C == CacheSize
           c == a \div 8
           y == a % 8
           s == c \div C
           t == c % C
<1>0. C \in Nat \ {0}
  <2>1. C \in Nat
    BY NonceGenAssumption
  <2>2. C # 0
    <3>1. C = 0 => C * NONCE_SIZE = 0
      BY Sizes
    <3> QED BY <3>1
  <2> QED BY <2>1, <2>2
<1>1. a \in 0 .. (NumScoops * C) * 8 - 1 /\ NumScoops * C \in Nat
  BY <1>0, CacheWhole
<1>2. c \in 0 .. NumScoops * C - 1 /\ y \in 0 .. 7 /\ a = c * 8 + y
  <2> DEFINE n == NumScoops * C
  <2>1. n \in Nat /\ a \in 0 .. n * 8 - 1 /\ 8 \in Nat \ {0}
    BY <1>1
  <2> HIDE DEF n
  <2>2. a \div 8 \in 0 .. n - 1 /\ a % 8 \in 0 .. 8 - 1 /\ a = (a \div 8) * 8 + (a % 8)
    BY <2>1, RowAndCell
  <2> QED BY <2>2 DEF n
<1> HIDE DEF c, y
<1>3. s \in 0 .. NumScoops - 1 /\ t \in 0 .. C - 1 /\ c = s * C + t
  BY <1>0, <1>2, RowAndCell, Sizes
<1>4. SlotAt(a) = t /\ ScoopAt(a) = s
  BY DEF SlotAt, ScoopAt, c
<1> HIDE DEF s, t
<1> DEFINE i == HashAt(a)
<1>5. /\ i \in 0 .. NumHashes - 1 /\ ScoopOf(i) = s
      /\ (i % 2) * 4 + (a % 4) = y /\ i % 2 \in {0, 1} /\ a % 4 \in 0 .. 3
  <2>0. a % 8 = y
    BY DEF y
  <2>1. a % 4 = y % 4
    BY <1>2
  <2>2. CASE y < 4
    <3>1. i = 2 * s
      BY <1>4, <2>2, <2>0 DEF HashAt
    <3>2. i % 2 = 0 /\ i \div 2 = s /\ i \in 0 .. NumHashes - 1
      BY <1>3, <3>1, Sizes
    <3> HIDE DEF i
    <3> QED BY <1>2, <2>1, <2>2, <3>2 DEF ScoopOf
  <2>3. CASE ~(y < 4)
    <3>1. i = 2 * (NumScoops - 1 - s) + 1
      BY <1>4, <2>3, <2>0 DEF HashAt
    <3>2. i % 2 = 1 /\ i \div 2 = NumScoops - 1 - s /\ i \in 0 .. NumHashes - 1
      BY <1>3, <3>1, Sizes
    <3> HIDE DEF i
    <3>3. ScoopOf(i) = s
      BY <3>2, <1>3, Sizes DEF ScoopOf
    <3> QED BY <1>2, <2>1, <2>3, <3>2, <3>3
  <2> QED BY <2>2, <2>3
<1> HIDE DEF i
<1>6. a = CacheAddress(i, t, C) + (a % 4)
  <2> DEFINE b == i % 2
             w == a % 4
  <2>1. b \in Int /\ w \in Int /\ s \in Int /\ t \in Int /\ C \in Int /\ c = s * C + t
        /\ a = c * 8 + (b * 4 + w)
    BY <1>0, <1>2, <1>3, <1>5
  <2>2. CacheAddress(i, t, C) = s * 8 * C + t * 8 + b * 4
    BY <1>5, Sizes DEF CacheAddress
  <2> HIDE DEF b, w, C
  <2>3. c * 8 = s * 8 * C + t * 8
    BY <2>1
  <2>4. a = CacheAddress(i, t, C) + w
    BY <2>1, <2>2, <2>3
  <2> QED BY <2>4 DEF w
<1> QED BY <1>0, <1>3, <1>4, <1>5, <1>6 DEF i

(* Unpacking a vector (Unpacked): the words of its first count nonces go to *)
(* their slots, whatever the order, and nothing else changes.               *)

Piece(buffer, from, L, slot, i, k) ==
  LET start == CacheAddress(i, slot + k, CacheSize)
  IN [a \in start .. start + HASH_SIZE - 1 |->
        buffer[from + (i * HASH_SIZE + a - start) * L + k]]
UnpackStep(buffer, from, L, count, slot, after, m) ==
  IF m = 0 THEN cache
  ELSE Over(Piece(buffer, from, L, slot, (m - 1) \div count, (m - 1) % count), after[m - 1])

\* The word of the buffer that belongs at an address of the cache.
Source(buffer, from, L, slot, a) ==
  buffer[from + (HashAt(a) * HASH_SIZE + (a % 4)) * L + (SlotAt(a) - slot)]
\* The cache after m pieces.
Unpacking(buffer, from, L, count, slot, m) ==
  [a \in DOMAIN cache |->
     IF SlotAt(a) \in slot .. slot + count - 1 /\ HashAt(a) * count + (SlotAt(a) - slot) < m
       THEN Source(buffer, from, L, slot, a) ELSE cache[a]]

CacheDomain == cache = [a \in 0 .. CacheSize * NONCE_SIZE - 1 |-> cache[a]]

LEMMA StartInt ==
  ASSUME NEW i \in 0 .. NumHashes - 1, NEW slot \in Int
  PROVE  CacheAddress(i, slot, CacheSize) \in Int
<1>1. ScoopOf(i) \in Int /\ i % 2 \in Int /\ CacheSize \in Int
  BY Shuffle, NonceGenAssumption, Sizes
<1> QED BY <1>1, Sizes DEF CacheAddress

LEMMA UnpackStepIs ==
  ASSUME NEW buffer, NEW from, NEW L, NEW count \in Nat \ {0}, NEW slot \in Nat,
         slot + count <= CacheSize, CacheDomain,
         NEW after, NEW m \in 0 .. NumHashes * count,
         m # 0 => after[m - 1] = Unpacking(buffer, from, L, count, slot, m - 1)
  PROVE  UnpackStep(buffer, from, L, count, slot, after, m)
           = Unpacking(buffer, from, L, count, slot, m)
<1> DEFINE D == DOMAIN cache
           Index(a) == HashAt(a) * count + (SlotAt(a) - slot)
           Mine(a) == SlotAt(a) \in slot .. slot + count - 1
<1>0. NumHashes * count \in Nat /\ m \in Nat
  BY Sizes
<1>d. D = 0 .. CacheSize * NONCE_SIZE - 1
  BY Zenon DEF CacheDomain
<1>i. ASSUME NEW a \in D, Mine(a)
      PROVE  /\ Index(a) \in Nat /\ Index(a) \div count = HashAt(a)
             /\ Index(a) % count = SlotAt(a) - slot
             /\ SlotAt(a) \in Nat /\ HashAt(a) \in 0 .. NumHashes - 1
  <2>1. SlotAt(a) \in Nat /\ HashAt(a) \in 0 .. NumHashes - 1
    BY <1>d, DecodedAddress
  <2>2. SlotAt(a) - slot \in 0 .. count - 1 /\ HashAt(a) \in Nat /\ HashAt(a) \in Int
    BY <1>i, <2>1
  <2> DEFINE h == HashAt(a)
             r == SlotAt(a) - slot
  <2> HIDE DEF h, r
  <2>3. h * count + r \in Nat /\ (h * count + r) \div count = h /\ (h * count + r) % count = r
    BY <2>2, Composed DEF h, r
  <2> QED BY <2>1, <2>3 DEF h, r
<1>1. CASE m = 0
  <2>1. \A a \in D : ~(Mine(a) /\ Index(a) < 0)
    <3> HIDE DEF Index, Mine
    <3> QED BY <1>i
  <2>2. cache = Unpacking(buffer, from, L, count, slot, 0)
    <3>1. \A a \in D : ~(SlotAt(a) \in slot .. slot + count - 1
                           /\ HashAt(a) * count + (SlotAt(a) - slot) < 0)
      BY <2>1
    <3>2. Unpacking(buffer, from, L, count, slot, 0) = [a \in D |-> cache[a]]
      BY <3>1 DEF Unpacking
    <3>3. cache = [a \in D |-> cache[a]]
      BY Zenon DEF CacheDomain
    <3> QED BY <3>2, <3>3
  <2> QED BY <1>1, <2>2 DEF UnpackStep
<1>2. CASE m # 0
  <2> DEFINE i == (m - 1) \div count
             k == (m - 1) % count
             start == CacheAddress(i, slot + k, CacheSize)
             part == start .. start + HASH_SIZE - 1
             before == Unpacking(buffer, from, L, count, slot, m - 1)
             piece == Piece(buffer, from, L, slot, i, k)
  <2>1. i \in 0 .. NumHashes - 1 /\ k \in 0 .. count - 1 /\ m - 1 = i * count + k
    <3>1. m - 1 \in 0 .. NumHashes * count - 1
      BY <1>0, <1>2
    <3> QED BY <3>1, Sizes, RowAndCell
  <2>2. slot + k \in 0 .. CacheSize - 1 /\ CacheSize \in Nat
    BY <2>1, NonceGenAssumption
  <2>3. UnpackStep(buffer, from, L, count, slot, after, m)
          = [a \in D |-> IF a \in part THEN piece[a] ELSE before[a]]
    <3>1. UnpackStep(buffer, from, L, count, slot, after, m) = Over(piece, before)
      BY <1>2 DEF UnpackStep
    <3>2. DOMAIN piece = part /\ DOMAIN before = D
      BY DEF Piece, Unpacking
    <3> HIDE DEF piece, before, part, D
    <3> QED BY <3>1, <3>2, OverIs
  <2> HIDE DEF i, k
  <2>4. ASSUME NEW a \in D
        PROVE  (IF a \in part THEN piece[a] ELSE before[a])
                 = IF Mine(a) /\ Index(a) < m THEN Source(buffer, from, L, slot, a) ELSE cache[a]
    <3>1. a \in part <=> Mine(a) /\ Index(a) = m - 1
      <4>1. ASSUME a \in part PROVE Mine(a) /\ Index(a) = m - 1
        <5>1. start \in Int
          BY <2>1, <2>2, StartInt
        <5> DEFINE word == a - start
        <5>2. word \in 0 .. 3 /\ a = start + word
          BY <4>1, <5>1, Sizes, <1>d
        <5> HIDE DEF word
        <5>3. SlotAt(a) = slot + k /\ HashAt(a) = i
          BY <2>1, <2>2, <5>2, AddressDecoded
        <5> QED BY <5>3, <2>1
      <4>2. ASSUME Mine(a), Index(a) = m - 1 PROVE a \in part
        <5>1. HashAt(a) = i /\ SlotAt(a) - slot = k /\ SlotAt(a) \in Nat
          <6> HIDE DEF Index, Mine
          <6> QED BY <1>i, <4>2 DEF i, k
        <5>2. SlotAt(a) = slot + k
          <6>1. slot \in Nat /\ SlotAt(a) \in Nat /\ SlotAt(a) - slot = k
            BY <5>1
          <6> DEFINE t == SlotAt(a)
          <6> HIDE DEF t
          <6> QED BY <6>1 DEF t
        <5>3. a = start + (a % 4) /\ a % 4 \in 0 .. 3
          BY <5>1, <5>2, <1>d, DecodedAddress
        <5>4. start \in Int
          BY <2>1, <2>2, StartInt
        <5> DEFINE word == a % 4
        <5> HIDE DEF start, word
        <5>5. a = start + word /\ word \in 0 .. 3
          BY <5>3 DEF word
        <5> QED BY <5>4, <5>5, Sizes
      <4> HIDE DEF Index, Mine, part
      <4> QED BY <4>1, <4>2
    <3>2. a \in part => piece[a] = Source(buffer, from, L, slot, a)
      <4> SUFFICES ASSUME a \in part PROVE piece[a] = Source(buffer, from, L, slot, a)
        OBVIOUS
      <4>1. start \in Int
        BY <2>1, <2>2, StartInt
      <4> DEFINE word == a - start
      <4>2. word \in 0 .. 3 /\ a = start + word
        BY <4>1, Sizes, <1>d
      <4>3. SlotAt(a) = slot + k /\ HashAt(a) = i /\ a % 4 = word
        <5> HIDE DEF word
        <5> QED BY <2>1, <2>2, <4>2, AddressDecoded
      <4>4. piece[a] = buffer[from + (i * HASH_SIZE + (a - start)) * L + k]
        BY DEF Piece
      <4>5. SlotAt(a) - slot = k
        BY <4>3, <2>1
      <4> QED BY <4>3, <4>4, <4>5 DEF Source
    <3>3. before[a] = IF Mine(a) /\ Index(a) < m - 1 THEN Source(buffer, from, L, slot, a)
                                                     ELSE cache[a]
      BY DEF Unpacking
    <3>4. Mine(a) => Index(a) \in Nat
      BY <1>i
    <3> HIDE DEF Mine, Index, part, piece, before
    <3> QED BY <3>1, <3>2, <3>3, <3>4, <1>0, <1>2
  <2>5. Unpacking(buffer, from, L, count, slot, m)
          = [a \in D |-> IF Mine(a) /\ Index(a) < m THEN Source(buffer, from, L, slot, a)
                                                     ELSE cache[a]]
    BY DEF Unpacking
  <2> HIDE DEF Mine, Index, part, piece, before, D
  <2> QED BY <2>3, <2>4, <2>5
<1> QED BY <1>1, <1>2

\* The cache after all of them.
Scattered(buffer, from, L, count, slot) ==
  [a \in DOMAIN cache |->
     IF SlotAt(a) \in slot .. slot + count - 1
       THEN Source(buffer, from, L, slot, a) ELSE cache[a]]

LEMMA UnpackedIs ==
  ASSUME NEW buffer, NEW from, NEW L, NEW count \in Nat \ {0}, NEW slot \in Nat,
         slot + count <= CacheSize, CacheDomain
  PROVE  Unpacked(buffer, from, L, count, slot) = Scattered(buffer, from, L, count, slot)
<1> DEFINE n == NumHashes * count
           Step(g, m) == UnpackStep(buffer, from, L, count, slot, g, m)
           After(m) == Unpacking(buffer, from, L, count, slot, m)
           G == [m \in 0 .. n |-> After(m)]
           f == CHOOSE g : g = [m \in 0 .. n |-> Step(g, m)]
           T == {m \in Nat : m <= n => f[m] = After(m)}
<1>n. n \in Nat
  BY Sizes
<1>s. ASSUME NEW g, NEW m \in 0 .. n, m # 0 => g[m - 1] = After(m - 1)
      PROVE  Step(g, m) = After(m)
  BY <1>s, UnpackStepIs
<1>0. Unpacked(buffer, from, L, count, slot) = f[n]
  BY DEF Unpacked, UnpackStep, Piece
<1> HIDE DEF n, Step, After
<1>1. G = [m \in 0 .. n |-> Step(G, m)]
  <2>1. \A m \in 0 .. n : G[m] = After(m)
    OBVIOUS
  <2>2. G = [m \in 0 .. n |-> G[m]]
    OBVIOUS
  <2>3. \A m \in 0 .. n : m # 0 => m - 1 \in 0 .. n
    BY <1>n
  <2> HIDE DEF G
  <2>4. ASSUME NEW m \in 0 .. n PROVE G[m] = Step(G, m)
    BY <2>1, <2>3, <1>s
  <2> QED BY <2>2, <2>4
<1> HIDE DEF G
<1>2. f = [m \in 0 .. n |-> Step(f, m)]
  <2>1. \E g : g = [m \in 0 .. n |-> Step(g, m)]
    BY <1>1
  <2> QED BY <2>1
<1> HIDE DEF f
<1>3. \A m \in 0 .. n : f[m] = Step(f, m)
  BY <1>2, Zenon
<1>4. 0 \in T
  <2>1. 0 \in 0 .. n
    BY <1>n
  <2>2. Step(f, 0) = After(0)
    BY <2>1, <1>s
  <2> QED BY <2>1, <2>2, <1>3
<1>5. ASSUME NEW m \in Nat, m \in T PROVE m + 1 \in T
  <2>1. SUFFICES ASSUME m + 1 <= n PROVE f[m + 1] = After(m + 1)
    OBVIOUS
  <2>2. m + 1 \in 0 .. n /\ (m + 1) - 1 = m
    BY <1>n, <2>1
  <2>3. f[m] = After(m)
    BY <1>5, <1>n, <2>1
  <2>4. Step(f, m + 1) = After(m + 1)
    BY <2>2, <2>3, <1>s
  <2> QED BY <2>2, <2>4, <1>3
<1>6. n \in T
  <2> HIDE DEF T
  <2> QED BY <1>n, <1>4, <1>5, SetInduction
<1>7. f[n] = After(n)
  BY <1>6, <1>n
<1>8. ASSUME NEW a \in DOMAIN cache, SlotAt(a) \in slot .. slot + count - 1
      PROVE  HashAt(a) * count + (SlotAt(a) - slot) < n
  <2>1. a \in 0 .. CacheSize * NONCE_SIZE - 1
    BY Zenon DEF CacheDomain
  <2>2. HashAt(a) \in 0 .. NumHashes - 1 /\ SlotAt(a) - slot \in 0 .. count - 1
    BY <2>1, <1>8, DecodedAddress
  <2> DEFINE h == HashAt(a)
             r == SlotAt(a) - slot
  <2> HIDE DEF h, r
  <2>3. h * count + r \in 0 .. NumHashes * count - 1
    BY <2>2, Sizes, CellOfRow DEF h, r
  <2>4. NumHashes * count \in Nat
    BY <1>n DEF n
  <2> QED BY <2>3, <2>4 DEF n, h, r
<1>9. After(n) = Scattered(buffer, from, L, count, slot)
  BY <1>8 DEF After, Unpacking, Scattered
<1> QED BY <1>0, <1>7, <1>9

-----------------------------------------------------------------------------
(* The memory of the GPU: which word of which nonce is at an address. *)

GidAt(a) == ((a \div GpuVector) \div NONCE_SIZE) * GpuVector + (a % GpuVector)
PosAt(a) == (a \div GpuVector) % NONCE_SIZE

LEMMA GpuSizes ==
  /\ GpuVector \in Nat \ {0} /\ Worksize \in Nat
  /\ Worksize \div GpuVector \in Nat /\ Worksize = (Worksize \div GpuVector) * GpuVector
<1>1. GpuVector \in Nat \ {0} /\ Worksize \in Nat /\ Worksize \in Int /\ Worksize % GpuVector = 0
  BY NonceGenAssumption
<1>2. Worksize = GpuVector * (Worksize \div GpuVector) /\ Worksize \div GpuVector \in Int
  BY <1>1, IsMultiple
<1>3. Worksize \div GpuVector \in Nat
  BY <1>1, DivNat
<1> DEFINE q == Worksize \div GpuVector
<1> HIDE DEF q
<1>4. GpuVector * q = q * GpuVector
  BY <1>1, <1>3 DEF q
<1> QED BY <1>1, <1>2, <1>3, <1>4 DEF q

(* Row r of a vector's nonces has word r of each of them. *)
LEMMA AddressIs ==
  ASSUME NEW gid \in 0 .. Worksize - 1, NEW h \in 0 .. NumHashes - 1, NEW word \in 0 .. 3
  PROVE  /\ Address(gid, h, word)
              = ((gid \div GpuVector) * NONCE_SIZE + (4 * h + word)) * GpuVector
                  + (gid % GpuVector)
         /\ gid \div GpuVector \in 0 .. Worksize \div GpuVector - 1
         /\ gid % GpuVector \in 0 .. GpuVector - 1
         /\ gid = (gid \div GpuVector) * GpuVector + (gid % GpuVector)
         /\ 4 * h + word \in 0 .. NONCE_SIZE - 1
<1> DEFINE V == GpuVector
           K == Worksize \div GpuVector
           q == gid \div V
           r == gid % V
<1>1. V \in Nat \ {0} /\ K \in Nat /\ gid \in 0 .. K * V - 1
  BY GpuSizes
<1> HIDE DEF V, K
<1>2. q \in 0 .. K - 1 /\ r \in 0 .. V - 1 /\ gid = q * V + r
  BY <1>1, RowAndCell
<1>3. Address(gid, h, word) = q * V * NONCE_SIZE + h * V * 4 + word * V + r
  BY Sizes DEF Address, VectorAddress, V
<1> HIDE DEF q, r
<1>4. q * V * NONCE_SIZE + h * V * 4 + word * V + r = (q * NONCE_SIZE + (4 * h + word)) * V + r
  <2> DEFINE N == NONCE_SIZE
  <2>1. N \in Int /\ q \in Int /\ V \in Int /\ h \in Int /\ word \in Int /\ r \in Int
    BY <1>1, <1>2, Sizes
  <2> HIDE DEF N
  <2>2. q * V * N + h * V * 4 + word * V + r = (q * N + (4 * h + word)) * V + r
    BY <2>1
  <2> QED BY <2>2 DEF N
<1>5. 4 * h + word \in 0 .. NONCE_SIZE - 1
  BY Sizes
<1> QED BY <1>2, <1>3, <1>4, <1>5 DEF q, r, V, K

LEMMA GpuAddress ==
  ASSUME NEW gid \in 0 .. Worksize - 1, NEW h \in 0 .. NumHashes - 1, NEW word \in 0 .. 3
  PROVE  LET a == Address(gid, h, word)
         IN /\ a \in 0 .. Worksize * NONCE_SIZE - 1
            /\ GidAt(a) = gid /\ PosAt(a) = 4 * h + word /\ WordAt(a, GpuVector) = word + 1
<1> DEFINE V == GpuVector
           K == Worksize \div GpuVector
           q == gid \div V
           r == gid % V
           p == 4 * h + word
           c == q * NONCE_SIZE + p
           a == Address(gid, h, word)
<1>1. V \in Nat \ {0} /\ K \in Nat /\ Worksize = K * V /\ NONCE_SIZE \in Nat \ {0}
  BY GpuSizes, Sizes
<1>2. /\ a = c * V + r /\ q \in 0 .. K - 1 /\ r \in 0 .. V - 1 /\ gid = q * V + r
      /\ p \in 0 .. NONCE_SIZE - 1
  BY AddressIs
<1> HIDE DEF V, K, q, r, p, a
<1>3. c \in 0 .. K * NONCE_SIZE - 1 /\ c \div NONCE_SIZE = q /\ c % NONCE_SIZE = p /\ c \in Nat
  BY <1>1, <1>2, CellOfRow, Composed
<1>4. K * NONCE_SIZE \in Nat
  BY <1>1
<1> HIDE DEF c
<1>5. /\ c * V + r \in 0 .. (K * NONCE_SIZE) * V - 1
      /\ (c * V + r) \div V = c /\ (c * V + r) % V = r
  <2> DEFINE n == K * NONCE_SIZE
  <2>1. n \in Nat /\ c \in 0 .. n - 1 /\ c \in Int
    BY <1>3, <1>4
  <2> HIDE DEF n
  <2>2. /\ c * V + r \in 0 .. n * V - 1
        /\ (c * V + r) \div V = c /\ (c * V + r) % V = r
    BY <2>1, <1>1, <1>2, CellOfRow, Composed
  <2> QED BY <2>2 DEF n
<1>6. (K * NONCE_SIZE) * V = Worksize * NONCE_SIZE
  BY <1>1
<1>7. GidAt(a) = gid /\ PosAt(a) = p
  BY <1>2, <1>3, <1>5 DEF GidAt, PosAt, V
<1>8. WordAt(a, V) = word + 1
  <2>1. a \div V = c
    BY <1>2, <1>5
  <2>2. c % 4 = word
    <3>1. c = 4 * (q * NumHashes) + (4 * h + word) /\ q * NumHashes \in Int
      BY <1>2, Sizes DEF c, p
    <3> DEFINE z == q * NumHashes
    <3> HIDE DEF z
    <3> QED BY <3>1 DEF z
  <2> QED BY <2>1, <2>2, Sizes DEF WordAt
<1>9. /\ a \in 0 .. Worksize * NONCE_SIZE - 1
      /\ GidAt(a) = gid /\ PosAt(a) = 4 * h + word /\ WordAt(a, GpuVector) = word + 1
  BY <1>2, <1>5, <1>6, <1>7, <1>8 DEF p, V
<1> QED BY <1>9 DEF a

LEMMA GpuDecoded ==
  ASSUME NEW a \in 0 .. Worksize * NONCE_SIZE - 1
  PROVE  /\ GidAt(a) \in 0 .. Worksize - 1 /\ PosAt(a) \in 0 .. NONCE_SIZE - 1
         /\ PosAt(a) \div 4 \in 0 .. NumHashes - 1 /\ PosAt(a) % 4 \in 0 .. 3
         /\ PosAt(a) = 4 * (PosAt(a) \div 4) + (PosAt(a) % 4)
         /\ a = Address(GidAt(a), PosAt(a) \div 4, PosAt(a) % 4)
<1> DEFINE V == GpuVector
           K == Worksize \div GpuVector
           c == a \div V
           r == a % V
           q == c \div NONCE_SIZE
           p == c % NONCE_SIZE
<1>1. V \in Nat \ {0} /\ K \in Nat /\ Worksize = K * V /\ NONCE_SIZE \in Nat \ {0}
  BY GpuSizes, Sizes
<1>2. (K * NONCE_SIZE) * V = Worksize * NONCE_SIZE /\ K * NONCE_SIZE \in Nat
  <2> HIDE DEF V, K
  <2> QED BY <1>1
<1>3. c \in 0 .. K * NONCE_SIZE - 1 /\ r \in 0 .. V - 1 /\ a = c * V + r
  <2> DEFINE n == K * NONCE_SIZE
  <2>1. n \in Nat /\ a \in 0 .. n * V - 1
    BY <1>2
  <2> HIDE DEF n, V
  <2>2. a \div V \in 0 .. n - 1 /\ a % V \in 0 .. V - 1 /\ a = (a \div V) * V + (a % V)
    BY <2>1, <1>1, RowAndCell
  <2> QED BY <2>2 DEF n, V
<1> HIDE DEF V, K, c, r
<1>4. q \in 0 .. K - 1 /\ p \in 0 .. NONCE_SIZE - 1 /\ c = q * NONCE_SIZE + p
  BY <1>1, <1>3, RowAndCell
<1>5. GidAt(a) = q * V + r /\ PosAt(a) = p
  BY DEF GidAt, PosAt, V, c, r
<1> HIDE DEF q, p
<1>6. q * V + r \in 0 .. K * V - 1 /\ (q * V + r) \div V = q /\ (q * V + r) % V = r
  BY <1>1, <1>3, <1>4, CellOfRow, Composed
<1>7. p \div 4 \in 0 .. NumHashes - 1 /\ p % 4 \in 0 .. 3 /\ p = 4 * (p \div 4) + (p % 4)
  BY <1>4, Sizes
<1> DEFINE g == q * V + r
<1>8. g \in 0 .. Worksize - 1 /\ g \div V = q /\ g % V = r
  BY <1>1, <1>6
<1> HIDE DEF g
<1>9. Address(g, p \div 4, p % 4) = a
  <2>1. Address(g, p \div 4, p % 4)
          = ((g \div V) * NONCE_SIZE + (4 * (p \div 4) + (p % 4))) * V + (g % V)
    BY <1>7, <1>8, AddressIs DEF V
  <2> QED BY <2>1, <1>3, <1>4, <1>7, <1>8
<1> QED BY <1>4, <1>5, <1>7, <1>8, <1>9 DEF g

-----------------------------------------------------------------------------
(* The kernel: a pass of a work item computes the hash of the definition. *)

\* The memory has the words of nonce x of a work item, from hash h on.
InMemory(memory, gid, x, h) ==
  \A g \in h .. NumHashes - 1, word \in 0 .. 3 :
    memory[Address(gid, g, word)] = Word(x, 4 * g + word)

\* What KernelHash hashes.
KernelMessage(buffer, gid, number, hash) ==
  [j \in 0 .. 8 * KernelBlocks(hash) + 7 |->
     IF j < 8 * KernelBlocks(hash)
       THEN buffer[Address(gid, hash + j \div HASH_SIZE, j % HASH_SIZE)]
       ELSE KernelEnding(buffer, gid, number, hash, KernelBlocks(hash))[j - 8 * KernelBlocks(hash)]]

LEMMA KernelHashIs ==
  ASSUME NEW buffer, NEW gid, NEW number, NEW hash
  PROVE  KernelHash(buffer, gid, number, hash)
           = Digest(KernelMessage(buffer, gid, number, hash), KernelBlocks(hash) + 1)
BY DEF KernelHash, KernelMessage

\* The block after q whole blocks.
EndsWith(f, q, block) == \A y \in 0 .. 7 : f[8 * q + y] = block[y]

LEMMA KernelMessageIs ==
  ASSUME NEW memory, NEW gid, NEW number, NEW m \in 0 .. NumHashes, NEW q \in Nat,
         q = KernelBlocks(m), m + 2 * q <= NumHashes,
         InMemory(memory, gid, Bswap(number), m)
  PROVE  /\ Blocks(KernelMessage(memory, gid, number, m), Bswap(number), 4 * m, q)
         /\ EndsWith(KernelMessage(memory, gid, number, m), q,
                     KernelEnding(memory, gid, number, m, q))
<1> DEFINE f == KernelMessage(memory, gid, number, m)
           end == KernelEnding(memory, gid, number, m, q)
           x == Bswap(number)
<1>0. f = [j \in 0 .. 8 * q + 7 |->
             IF j < 8 * q THEN memory[Address(gid, m + j \div HASH_SIZE, j % HASH_SIZE)]
                          ELSE end[j - 8 * q]]
  BY DEF KernelMessage
<1> HIDE DEF f, end, x
<1>1. f = [j \in 0 .. 8 * q + 7 |-> f[j]]
  BY <1>0
<1>2. ASSUME NEW j \in 0 .. 8 * q - 1
      PROVE  f[j] = Word(x, 4 * m + j)
  <2>1. f[j] = memory[Address(gid, m + j \div 4, j % 4)]
    <3>1. j \in 0 .. 8 * q + 7 /\ j < 8 * q
      OBVIOUS
    <3>2. f[j] = memory[Address(gid, m + j \div HASH_SIZE, j % HASH_SIZE)]
      BY <1>0, <3>1
    <3>3. HASH_SIZE = 4
      BY Sizes
    <3> QED BY <3>2, <3>3
  <2>2. m + j \div 4 \in m .. NumHashes - 1 /\ j % 4 \in 0 .. 3
        /\ 4 * (m + j \div 4) + (j % 4) = 4 * m + j
    BY Sizes
  <2> DEFINE g == m + j \div 4
             w == j % 4
  <2> HIDE DEF g, w
  <2>3. memory[Address(gid, g, w)] = Word(x, 4 * g + w)
    BY <2>2 DEF InMemory, g, w, x
  <2> QED BY <2>1, <2>2, <2>3 DEF g, w
<1>3. ASSUME NEW y \in 0 .. 7
      PROVE  f[8 * q + y] = end[y]
  <2> DEFINE j == 8 * q + y
  <2>1. j \in 0 .. 8 * q + 7 /\ ~(j < 8 * q) /\ j - 8 * q = y
    OBVIOUS
  <2> HIDE DEF j
  <2>2. f[j] = end[j - 8 * q]
    BY <1>0, <2>1
  <2> QED BY <2>1, <2>2 DEF j
<1>4. Blocks(f, x, 4 * m, q) /\ EndsWith(f, q, end)
  BY <1>1, <1>2, <1>3 DEF Blocks, EndsWith
<1> QED BY <1>4 DEF f, end, x

(* The three endings of the kernel. *)
LEMMA KernelEndings ==
  ASSUME NEW memory, NEW gid, NEW number, NEW m, NEW q
  PROVE  LET end == KernelEnding(memory, gid, number, m, q)
         IN /\ q = MESSAGE_CAP => end[0] = TERM /\ \A y \in 1 .. 7 : end[y] = 0
            /\ q # MESSAGE_CAP /\ m % 2 = 0
                 => /\ end[0] = Bswap(NumericId) /\ end[1] = Bswap(number) /\ end[2] = TERM
                    /\ \A y \in 3 .. 7 : end[y] = 0
            /\ q # MESSAGE_CAP /\ m % 2 # 0
                 => /\ \A y \in 0 .. 3 : end[y] = memory[Address(gid, NumHashes - 1, y)]
                    /\ end[4] = Bswap(NumericId) /\ end[5] = Bswap(number) /\ end[6] = TERM
                    /\ end[7] = 0
<1> DEFINE end == KernelEnding(memory, gid, number, m, q)
           seed == <<Bswap(NumericId), Bswap(number), TERM, 0>>
<1>1. \A y \in 0 .. 7 : end[y] =
        CASE q = MESSAGE_CAP -> IF y = 0 THEN TERM ELSE 0
          [] q # MESSAGE_CAP /\ m % 2 = 0 -> IF y < 4 THEN seed[y + 1] ELSE 0
          [] OTHER -> IF y < 4 THEN memory[Address(gid, NumHashes - 1, y)] ELSE seed[y - 3]
  BY Sizes DEF KernelEnding
<1>2. seed[1] = Bswap(NumericId) /\ seed[2] = Bswap(number) /\ seed[3] = TERM /\ seed[4] = 0
  OBVIOUS
<1> HIDE DEF end, seed
<1>3. q = MESSAGE_CAP => end[0] = TERM /\ \A y \in 1 .. 7 : end[y] = 0
  BY <1>1
<1>4. ASSUME q # MESSAGE_CAP, m % 2 = 0
      PROVE  /\ end[0] = Bswap(NumericId) /\ end[1] = Bswap(number) /\ end[2] = TERM
             /\ \A y \in 3 .. 7 : end[y] = 0
  <2>1. \A y \in 0 .. 7 : end[y] = IF y < 4 THEN seed[y + 1] ELSE 0
    BY <1>1, <1>4
  <2>2. end[0] = seed[1] /\ end[1] = seed[2] /\ end[2] = seed[3] /\ end[3] = seed[4]
    BY <2>1
  <2>3. \A y \in 4 .. 7 : end[y] = 0
    BY <2>1
  <2> QED BY <1>2, <2>2, <2>3
<1>5. ASSUME q # MESSAGE_CAP, m % 2 # 0
      PROVE  /\ \A y \in 0 .. 3 : end[y] = memory[Address(gid, NumHashes - 1, y)]
             /\ end[4] = Bswap(NumericId) /\ end[5] = Bswap(number) /\ end[6] = TERM
             /\ end[7] = 0
  <2>1. \A y \in 0 .. 7 : end[y] = IF y < 4 THEN memory[Address(gid, NumHashes - 1, y)]
                                            ELSE seed[y - 3]
    BY <1>1, <1>5
  <2>2. end[4] = seed[1] /\ end[5] = seed[2] /\ end[6] = seed[3] /\ end[7] = seed[4]
    BY <2>1
  <2>3. \A y \in 0 .. 3 : end[y] = memory[Address(gid, NumHashes - 1, y)]
    BY <2>1
  <2> QED BY <1>2, <2>2, <2>3
<1> QED BY <1>3, <1>4, <1>5 DEF end

LEMMA KernelPassHash ==
  ASSUME NEW memory, NEW gid, NEW number, NEW m \in 0 .. NumHashes,
         InMemory(memory, gid, Bswap(number), m)
  PROVE  /\ m # 0 => KernelHash(memory, gid, number, m) = Hashes(Bswap(number))[m - 1]
         /\ m = 0 => KernelHash(memory, gid, number, m) = Final(Bswap(number))
<1> DEFINE x == Bswap(number)
           q == KernelBlocks(m)
           f == KernelMessage(memory, gid, number, m)
           end == KernelEnding(memory, gid, number, m, q)
           cap == HashCap \div 2
           digest(n) == DigestFrom(x, Hashes(x), 4 * m, n)
<1>0. cap \in Nat /\ HashCap = 2 * cap /\ cap > 0 /\ HashCap < NumHashes /\ MESSAGE_CAP = cap
  BY NonceGenAssumption DEF MESSAGE_CAP
<1> HIDE DEF cap
<1>1. q = IF m # 0 /\ (NumHashes - m) \div 2 > cap THEN cap ELSE (NumHashes - m) \div 2
  BY <1>0 DEF KernelBlocks
<1> HIDE DEF q
<1>2. q \in Nat /\ m + 2 * q <= NumHashes
  BY <1>0, <1>1, Sizes
<1>3. Blocks(f, x, 4 * m, q) /\ EndsWith(f, q, end)
  BY <1>2, KernelMessageIs DEF q
<1>4. KernelHash(memory, gid, number, m) = Digest(f, q + 1)
  BY KernelHashIs DEF q
<1> HIDE DEF f, end, x
<1>e. \A y \in 0 .. 7 : f[8 * q + y] = end[y]
  BY <1>3 DEF EndsWith
<1>z. f[8 * q + 0] = f[8 * q]
  BY <1>2
<1>5. CASE m # 0 /\ NumHashes - m >= HashCap
  <2>1. q = cap /\ 4 * m <= NONCE_SIZE - HashCap * HASH_SIZE
    BY <1>0, <1>1, <1>5, Sizes
  <2>2. end[0] = TERM /\ \A y \in 1 .. 7 : end[y] = 0
    BY <1>0, <2>1, KernelEndings DEF end
  <2>3. f[8 * q] = TERM /\ \A y \in 1 .. 7 : f[8 * q + y] = 0
    BY <1>e, <1>z, <2>2
  <2>4. Digest(f, q + 1) = digest(HashCap * HASH_SIZE)
    BY <1>2, <1>3, <2>1, <2>3, EndsAtCap DEF cap
  <2>5. Hashes(x)[m - 1] = digest(HashCap * HASH_SIZE)
    <3>1. m - 1 \in 0 .. NumHashes - 1 /\ (m - 1) + 1 = m
      BY <1>5, Sizes
    <3> QED BY <2>1, <3>1, HashOf
  <2> QED BY <1>4, <1>5, <2>4, <2>5 DEF x
<1>6. CASE m = 0 \/ NumHashes - m < HashCap
  <2>1. q = (NumHashes - m) \div 2 /\ q # MESSAGE_CAP
    BY <1>0, <1>1, <1>6, Sizes
  <2>2. Digest(f, q + 1) = digest(NONCE_SIZE + 2 - 4 * m)
    <3>1. CASE m % 2 = 0
      <4>1. /\ end[0] = Bswap(NumericId) /\ end[1] = x /\ end[2] = TERM
            /\ \A y \in 3 .. 7 : end[y] = 0
        BY <2>1, <3>1, KernelEndings DEF end, x
      <4>2. /\ f[8 * q] = Bswap(NumericId) /\ f[8 * q + 1] = x /\ f[8 * q + 2] = TERM
            /\ \A y \in 3 .. 7 : f[8 * q + y] = 0
        BY <1>e, <1>z, <4>1
      <4>3. SeedAt(f, x, q)
        BY <4>2 DEF SeedAt
      <4> QED BY <1>2, <1>3, <2>1, <3>1, <4>3, EndsInSeed
    <3>2. CASE m % 2 # 0
      <4>1. /\ \A y \in 0 .. 3 : end[y] = memory[Address(gid, NumHashes - 1, y)]
            /\ end[4] = Bswap(NumericId) /\ end[5] = x /\ end[6] = TERM /\ end[7] = 0
        BY <2>1, <3>2, KernelEndings DEF end, x
      <4>2. \A y \in 0 .. 3 : memory[Address(gid, NumHashes - 1, y)] = Word(x, NONCE_SIZE - 4 + y)
        <5>1. NumHashes - 1 \in m .. NumHashes - 1
          <6>1. m # NumHashes
            BY <3>2, Sizes
          <6> QED BY <6>1, Sizes
        <5>2. \A y \in 0 .. 3 : 4 * (NumHashes - 1) + y = NONCE_SIZE - 4 + y
          BY Sizes
        <5> QED BY <5>1, <5>2 DEF InMemory, x
      <4>3. /\ \A y \in 0 .. 3 : f[8 * q + y] = Word(x, NONCE_SIZE - 4 + y)
            /\ f[8 * q + 4] = Bswap(NumericId) /\ f[8 * q + 5] = x /\ f[8 * q + 6] = TERM
            /\ f[8 * q + 7] = 0
        BY <1>e, <4>1, <4>2
      <4>4. m % 2 = 1
        BY <3>2
      <4>5. HashAndSeedAt(f, x, q)
        BY <4>3 DEF HashAndSeedAt
      <4> QED BY <1>2, <1>3, <2>1, <4>4, <4>5, EndsInHash
    <3> QED BY <3>1, <3>2
  <2>3. CASE m = 0
    <3>1. 4 * m = 0 /\ NONCE_SIZE + 2 - 4 * m = NONCE_SIZE + 2
      BY <2>3, Sizes
    <3> QED BY <1>4, <2>2, <2>3, <3>1 DEF Final, x
  <2>4. CASE m # 0
    <3>1. m - 1 \in 0 .. NumHashes - 1 /\ (m - 1) + 1 = m
      BY <2>4, Sizes
    <3>2. ~(4 * m <= NONCE_SIZE - HashCap * HASH_SIZE)
      BY <1>0, <1>6, <2>4, Sizes
    <3>3. Hashes(x)[m - 1] = digest(NONCE_SIZE + 2 - 4 * m)
      BY <3>1, <3>2, HashOf
    <3> QED BY <1>4, <2>2, <2>4, <3>3 DEF x
  <2> QED BY <2>3, <2>4
<1>7. (m # 0 /\ NumHashes - m >= HashCap) \/ (m = 0 \/ NumHashes - m < HashCap)
  BY <1>0, Sizes
<1> QED BY <1>5, <1>6, <1>7

-----------------------------------------------------------------------------
(* The kernel: what a launch leaves of one work item (KernelItem). *)

GpuAddresses == 0 .. Worksize * NONCE_SIZE - 1

LEMMA OwnIs ==
  ASSUME NEW a \in GpuAddresses, NEW gid \in 0 .. Worksize - 1,
         NEW S, S \subseteq 0 .. NumHashes - 1
  PROVE  a \in Own(gid, S) <=> GidAt(a) = gid /\ PosAt(a) \div 4 \in S
<1>1. ASSUME a \in Own(gid, S) PROVE GidAt(a) = gid /\ PosAt(a) \div 4 \in S
  <2>1. PICK h \in S, w \in 0 .. HASH_SIZE - 1 : a = Address(gid, h, w)
    BY <1>1 DEF Own
  <2>2. h \in 0 .. NumHashes - 1 /\ w \in 0 .. 3
    BY <2>1, Sizes
  <2>3. GidAt(a) = gid /\ PosAt(a) = 4 * h + w
    BY <2>1, <2>2, GpuAddress
  <2>4. (4 * h + w) \div 4 = h
    BY <2>2, Sizes
  <2> QED BY <2>1, <2>3, <2>4
<1>2. ASSUME GidAt(a) = gid, PosAt(a) \div 4 \in S PROVE a \in Own(gid, S)
  <2>1. PosAt(a) % 4 \in 0 .. HASH_SIZE - 1 /\ a = Address(gid, PosAt(a) \div 4, PosAt(a) % 4)
    BY <1>2, GpuDecoded, Sizes DEF GpuAddresses
  <2> QED BY <1>2, <2>1 DEF Own
<1> QED BY <1>1, <1>2

\* The memory with the words of the hashes of a work item from hash h on.
ItemImage(memory, gid, x, h) ==
  [a \in GpuAddresses |->
     IF GidAt(a) = gid /\ PosAt(a) >= 4 * h THEN Word(x, PosAt(a)) ELSE memory[a]]

LEMMA ItemInMemory ==
  ASSUME NEW memory, NEW gid \in 0 .. Worksize - 1, NEW x, NEW h \in Nat
  PROVE  InMemory(ItemImage(memory, gid, x, h), gid, x, h)
<1> SUFFICES ASSUME NEW g \in h .. NumHashes - 1, NEW word \in 0 .. 3
             PROVE  ItemImage(memory, gid, x, h)[Address(gid, g, word)] = Word(x, 4 * g + word)
  BY DEF InMemory
<1> DEFINE a == Address(gid, g, word)
<1>1. g \in 0 .. NumHashes - 1
  OBVIOUS
<1>2. a \in GpuAddresses /\ GidAt(a) = gid /\ PosAt(a) = 4 * g + word
  BY <1>1, GpuAddress DEF GpuAddresses
<1>3. 4 * g + word >= 4 * h
  OBVIOUS
<1> HIDE DEF a
<1>4. ItemImage(memory, gid, x, h)[a] = Word(x, 4 * g + word)
  BY <1>2, <1>3 DEF ItemImage
<1> QED BY <1>4 DEF a

(* The store of a pass. *)
LEMMA ItemStore ==
  ASSUME NEW memory, NEW gid \in 0 .. Worksize - 1, NEW x, NEW h \in 0 .. NumHashes - 1,
         NEW d, d = Hashes(x)[h]
  PROVE  Over([j \in Own(gid, {h}) |-> d[WordAt(j, GpuVector)]], ItemImage(memory, gid, x, h + 1))
           = ItemImage(memory, gid, x, h)
<1> DEFINE part == Own(gid, {h})
           written == [j \in part |-> d[WordAt(j, GpuVector)]]
           before == ItemImage(memory, gid, x, h + 1)
<1>1. Over(written, before) = [a \in GpuAddresses |-> IF a \in part THEN written[a] ELSE before[a]]
  <2>1. DOMAIN written = part /\ DOMAIN before = GpuAddresses
    BY DEF ItemImage
  <2> HIDE DEF written, before, part
  <2> QED BY <2>1, OverIs
<1>2. ASSUME NEW a \in GpuAddresses
      PROVE  (IF a \in part THEN written[a] ELSE before[a]) = ItemImage(memory, gid, x, h)[a]
  <2> DEFINE p == PosAt(a)
             w == p % 4
  <2>1. /\ p \in 0 .. NONCE_SIZE - 1 /\ w \in 0 .. 3 /\ p = 4 * (p \div 4) + w
        /\ p \div 4 \in 0 .. NumHashes - 1
        /\ GidAt(a) \in 0 .. Worksize - 1 /\ a = Address(GidAt(a), p \div 4, w)
    BY GpuDecoded DEF GpuAddresses
  <2>2. WordAt(a, GpuVector) = w + 1
    <3> HIDE DEF p, w
    <3> QED BY <2>1, GpuAddress
  <2>3. a \in part <=> GidAt(a) = gid /\ p \div 4 \in {h}
    <3>1. {h} \subseteq 0 .. NumHashes - 1
      OBVIOUS
    <3> QED BY <3>1, OwnIs
  <2>4. a \in part => written[a] = Hashes(x)[h][w + 1]
    BY <2>2
  <2>5. before[a] = IF GidAt(a) = gid /\ p >= 4 * (h + 1) THEN Word(x, p) ELSE memory[a]
    BY DEF ItemImage
  <2>6. ItemImage(memory, gid, x, h)[a]
          = IF GidAt(a) = gid /\ p >= 4 * h THEN Word(x, p) ELSE memory[a]
    BY DEF ItemImage
  <2>7. Word(x, p) = Hashes(x)[p \div 4][w + 1]
    BY <2>1, WordIs
  <2> HIDE DEF p, written, before, part
  <2>8. /\ p >= 4 * h <=> p >= 4 * (h + 1) \/ p \div 4 = h
        /\ p \div 4 = h => p >= 4 * h
    BY <2>1
  <2> HIDE DEF w
  <2> QED BY <2>3, <2>4, <2>5, <2>6, <2>7, <2>8
<1> HIDE DEF written, before, part
<1>3. ItemImage(memory, gid, x, h) = [a \in GpuAddresses |-> ItemImage(memory, gid, x, h)[a]]
  BY DEF ItemImage
<1>4. Over(written, before) = ItemImage(memory, gid, x, h)
  BY <1>1, <1>2, <1>3
<1> QED BY <1>4 DEF written, before, part

\* What KernelItem has after the pass for a hash.
KernelPass(memory, gid, number, start, after, hash) ==
  IF hash = NumHashes - start + 1
    THEN [hash |-> hash - 1, memory |-> memory, registers |-> <<>>]
  ELSE LET pass == after[hash + 1]
           d == KernelHash(pass.memory, gid, number, pass.hash)
       IN [hash |-> pass.hash - 1, registers |-> d,
           memory |-> IF hash = 0 THEN pass.memory
                      ELSE Over([j \in Own(gid, {hash - 1}) |-> d[WordAt(j, GpuVector)]],
                                pass.memory)]
PassState(memory, gid, x, start, hash) ==
  [hash |-> hash - 1,
   memory |-> ItemImage(memory, gid, x, IF hash = 0 THEN 0 ELSE hash - 1),
   registers |-> IF hash = NumHashes - start + 1 THEN <<>>
                 ELSE IF hash = 0 THEN Final(x) ELSE Hashes(x)[hash - 1]]

LEMMA KernelPassIs ==
  ASSUME NEW memory, NEW gid \in 0 .. Worksize - 1, NEW number,
         NEW start \in 0 .. NumHashes - 1, NEW hash \in 0 .. NumHashes - start + 1,
         memory = ItemImage(memory, gid, Bswap(number), NumHashes - start),
         NEW after,
         hash # NumHashes - start + 1
           => after[hash + 1] = PassState(memory, gid, Bswap(number), start, hash + 1)
  PROVE  KernelPass(memory, gid, number, start, after, hash)
           = PassState(memory, gid, Bswap(number), start, hash)
<1> DEFINE x == Bswap(number)
           top == NumHashes - start + 1
<1>0. top \in Nat /\ top # 0 /\ top - 1 = NumHashes - start /\ top - 1 \in 0 .. NumHashes
  BY Sizes
<1>1. CASE hash = top
  BY <1>0, <1>1 DEF KernelPass, PassState
<1>2. CASE hash # top
  <2> DEFINE image == ItemImage(memory, gid, x, hash)
             d == KernelHash(image, gid, number, hash)
  <2>1. hash \in 0 .. NumHashes /\ hash + 1 # 0 /\ (hash + 1) - 1 = hash /\ hash \in Nat
    BY <1>0, <1>2, Sizes
  <2>2. after[hash + 1].memory = image /\ after[hash + 1].hash = hash
    BY <1>2, <2>1 DEF PassState
  <2>3. InMemory(image, gid, x, hash)
    BY <2>1, ItemInMemory
  <2> HIDE DEF image
  <2>4. /\ hash # 0 => d = Hashes(x)[hash - 1]
        /\ hash = 0 => d = Final(x)
    BY <2>1, <2>3, KernelPassHash
  <2> HIDE DEF d
  <2>5. KernelPass(memory, gid, number, start, after, hash)
          = [hash |-> hash - 1, registers |-> d,
             memory |-> IF hash = 0 THEN image
                        ELSE Over([j \in Own(gid, {hash - 1}) |-> d[WordAt(j, GpuVector)]], image)]
    BY <1>2, <2>2 DEF KernelPass, d
  <2>6. CASE hash = 0
    <3>1. image = ItemImage(memory, gid, x, 0)
      BY <2>6 DEF image
    <3> QED BY <1>2, <2>4, <2>5, <2>6, <3>1 DEF PassState
  <2>7. CASE hash # 0
    <3>1. hash - 1 \in 0 .. NumHashes - 1 /\ (hash - 1) + 1 = hash
      BY <2>1, <2>7, Sizes
    <3>2. Over([j \in Own(gid, {hash - 1}) |-> d[WordAt(j, GpuVector)]], image)
            = ItemImage(memory, gid, x, hash - 1)
      <4> DEFINE g == hash - 1
      <4>1. g \in 0 .. NumHashes - 1 /\ d = Hashes(x)[g] /\ image = ItemImage(memory, gid, x, g + 1)
        BY <2>4, <2>7, <3>1 DEF image
      <4> HIDE DEF g
      <4>2. Over([j \in Own(gid, {g}) |-> d[WordAt(j, GpuVector)]], image)
              = ItemImage(memory, gid, x, g)
        BY <4>1, ItemStore
      <4> QED BY <4>2 DEF g
    <3>3. PassState(memory, gid, x, start, hash)
            = [hash |-> hash - 1, memory |-> ItemImage(memory, gid, x, hash - 1), registers |-> d]
      BY <1>2, <2>4, <2>7 DEF PassState
    <3> QED BY <2>5, <2>7, <3>2, <3>3
  <2> QED BY <2>6, <2>7
<1> QED BY <1>1, <1>2

PassesOf(memory, gid, number, start, last) ==
  CHOOSE g : g = [hash \in last .. NumHashes - start + 1 |->
                    KernelPass(memory, gid, number, start, g, hash)]

LEMMA AllPasses ==
  ASSUME NEW memory, NEW gid \in 0 .. Worksize - 1, NEW number,
         NEW start \in 0 .. NumHashes - 1, NEW last \in 0 .. NumHashes - start,
         memory = ItemImage(memory, gid, Bswap(number), NumHashes - start)
  PROVE  PassesOf(memory, gid, number, start, last)[last]
           = PassState(memory, gid, Bswap(number), start, last)
<1> DEFINE f == PassesOf(memory, gid, number, start, last)
           top == NumHashes - start + 1
           Step(g, hash) == KernelPass(memory, gid, number, start, g, hash)
           After(hash) == PassState(memory, gid, Bswap(number), start, hash)
           D == last .. top
           G == [hash \in D |-> After(hash)]
           n == top - last
           T == {t \in 0 .. n : f[last + t] = After(last + t)}
<1>n. top \in Nat /\ n \in Nat /\ last \in Nat /\ last + n = top
  BY Sizes
<1>s. ASSUME NEW g, NEW hash \in D, hash # top => g[hash + 1] = After(hash + 1)
      PROVE  Step(g, hash) = After(hash)
  <2>1. hash \in 0 .. NumHashes - start + 1
    BY <1>n
  <2>2. hash # NumHashes - start + 1
           => g[hash + 1] = PassState(memory, gid, Bswap(number), start, hash + 1)
    BY <1>s
  <2> QED BY <2>1, <2>2, KernelPassIs
<1>0. f = CHOOSE g : g = [hash \in D |-> Step(g, hash)]
  BY DEF PassesOf
<1> HIDE DEF Step, After, top, f
<1>1. G = [hash \in D |-> Step(G, hash)]
  <2>1. \A hash \in D : G[hash] = After(hash)
    OBVIOUS
  <2>2. G = [hash \in D |-> G[hash]]
    OBVIOUS
  <2>3. \A hash \in D : hash # top => hash + 1 \in D
    BY <1>n
  <2> HIDE DEF G, D
  <2>4. ASSUME NEW hash \in D PROVE G[hash] = Step(G, hash)
    BY <2>1, <2>3, <1>s
  <2> QED BY <2>2, <2>4
<1> HIDE DEF G
<1>2. f = [hash \in D |-> Step(f, hash)]
  <2>1. \E g : g = [hash \in D |-> Step(g, hash)]
    BY <1>1
  <2> HIDE DEF D
  <2> QED BY <2>1, <1>0
<1>3. \A hash \in D : f[hash] = Step(f, hash)
  BY <1>2, Zenon
<1>4. n \in T
  <2>1. top \in D
    BY <1>n
  <2>2. f[top] = After(top)
    BY <1>3, <2>1, <1>s
  <2> HIDE DEF n
  <2> QED BY <1>n, <2>2
<1>5. ASSUME NEW t \in 0 .. n - 1, t + 1 \in T PROVE t \in T
  <2>1. /\ t \in 0 .. n /\ last + t \in D /\ last + t # top
        /\ (last + t) + 1 = last + (t + 1)
    BY <1>n
  <2>2. f[last + (t + 1)] = After(last + (t + 1))
    BY <1>5
  <2>3. f[last + t] = After(last + t)
    <3> DEFINE hash == last + t
    <3>1. hash \in D /\ hash + 1 = last + (t + 1)
      BY <2>1
    <3> HIDE DEF hash
    <3>2. f[hash + 1] = After(hash + 1)
      BY <2>2, <3>1
    <3>3. Step(f, hash) = After(hash)
      BY <3>1, <3>2, <1>s
    <3> QED BY <1>3, <3>1, <3>3 DEF hash
  <2> QED BY <2>1, <2>3
<1>6. 0 .. n \subseteq T
  <2> HIDE DEF n, T
  <2> QED BY <1>n, <1>4, <1>5, DownInduction
<1>7. 0 \in 0 .. n /\ last + 0 = last
  BY <1>n
<1>8. f[last] = After(last)
  BY <1>6, <1>7
<1> QED BY <1>8 DEF After, f

(* A launch that goes on after start hashes, and ends before the final hash or *)
(* with it.                                                                    *)
LEMMA KernelItemIs ==
  ASSUME NEW memory, NEW gid \in 0 .. Worksize - 1, NEW number,
         NEW start \in 0 .. NumHashes - 1, NEW end \in start .. NumHashes,
         memory = ItemImage(memory, gid, Bswap(number), NumHashes - start)
  PROVE  /\ end # NumHashes
              => KernelItem(memory, gid, number, start, end)
                   = ItemImage(memory, gid, Bswap(number), NumHashes - end - 1)
         /\ end = NumHashes
              => KernelItem(memory, gid, number, start, end)
                   = [a \in GpuAddresses |->
                        IF GidAt(a) = gid THEN PlotWord(Bswap(number), PosAt(a)) ELSE memory[a]]
<1> DEFINE x == Bswap(number)
           last == NumHashes - end
           f == PassesOf(memory, gid, number, start, last)
           done == f[last]
           own == Own(gid, 0 .. NumHashes - 1)
           written == [a \in own |->
                         XorWord(done.memory[a], done.registers[WordAt(a, GpuVector)])]
<1>0. last \in 0 .. NumHashes - start /\ NumHashes \in Nat
  BY Sizes
<1>1. KernelItem(memory, gid, number, start, end)
        = IF end # NumHashes THEN done.memory ELSE Over(written, done.memory)
  BY DEF KernelItem, KernelPass, PassesOf
<1>2. done = PassState(memory, gid, x, start, last)
  <2> HIDE DEF last
  <2> QED BY <1>0, AllPasses
<1>3. CASE end # NumHashes
  <2>1. last # 0 /\ last - 1 = NumHashes - end - 1
    BY <1>0, <1>3
  <2> HIDE DEF last, f
  <2>2. done.memory = ItemImage(memory, gid, x, last - 1)
    BY <1>2, <2>1 DEF PassState
  <2> HIDE DEF written
  <2> QED BY <1>1, <1>3, <2>1, <2>2
<1>4. CASE end = NumHashes
  <2>1. last = 0
    BY <1>0, <1>4
  <2>2. 0 # NumHashes - start + 1
    BY <1>0
  <2> HIDE DEF last, f
  <2>3. done.memory = ItemImage(memory, gid, x, 0) /\ done.registers = Final(x)
    BY <1>2, <2>1, <2>2 DEF PassState
  <2> DEFINE image == ItemImage(memory, gid, x, 0)
             after == [a \in GpuAddresses |->
                         IF GidAt(a) = gid THEN PlotWord(x, PosAt(a)) ELSE memory[a]]
  <2>4. Over(written, image) = [a \in GpuAddresses |-> IF a \in own THEN written[a] ELSE image[a]]
    <3>1. DOMAIN written = own /\ DOMAIN image = GpuAddresses
      BY DEF ItemImage
    <3> HIDE DEF written, image, own
    <3> QED BY <3>1, OverIs
  <2>5. ASSUME NEW a \in GpuAddresses
        PROVE  (IF a \in own THEN written[a] ELSE image[a])
                 = IF GidAt(a) = gid THEN PlotWord(x, PosAt(a)) ELSE memory[a]
    <3> DEFINE p == PosAt(a)
               w == p % 4
    <3>1. /\ p \in 0 .. NONCE_SIZE - 1 /\ w \in 0 .. 3 /\ p \div 4 \in 0 .. NumHashes - 1
          /\ GidAt(a) \in 0 .. Worksize - 1 /\ a = Address(GidAt(a), p \div 4, w)
      BY GpuDecoded DEF GpuAddresses
    <3>2. WordAt(a, GpuVector) = w + 1
      <4> HIDE DEF p, w
      <4> QED BY <3>1, GpuAddress
    <3>3. a \in own <=> GidAt(a) = gid
      <4>1. 0 .. NumHashes - 1 \subseteq 0 .. NumHashes - 1
        OBVIOUS
      <4> QED BY <3>1, <4>1, OwnIs
    <3>4. a \in own => written[a] = XorWord(image[a], Final(x)[w + 1])
      <4> HIDE DEF image, w
      <4> QED BY <2>3, <3>2 DEF image
    <3>5. image[a] = IF GidAt(a) = gid THEN Word(x, p) ELSE memory[a]
      <4>1. p >= 4 * 0
        BY <3>1
      <4> QED BY <4>1 DEF ItemImage
    <3> HIDE DEF written, image, own
    <3> QED BY <3>3, <3>4, <3>5 DEF PlotWord
  <2> HIDE DEF written, own
  <2>6. Over(written, image) = after
    <3> HIDE DEF image
    <3> QED BY <2>4, <2>5
  <2> QED BY <1>1, <1>4, <2>3, <2>6
<1> QED BY <1>3, <1>4

-----------------------------------------------------------------------------
(* A launch of the kernel (calculate_nonces), over all of its work items. *)

\* The memory of a GPU after the launches for so many hashes.
Image(start, nonces, hashes) ==
  [a \in GpuAddresses |->
     IF GidAt(a) >= nonces \/ PosAt(a) < 4 * (NumHashes - hashes) THEN Stale
     ELSE IF hashes < NumHashes THEN Word(Bswap(start + GidAt(a)), PosAt(a))
     ELSE PlotWord(Bswap(start + GidAt(a)), PosAt(a))]

\* The same in the course of the next launch, when g work items are done.
Halfway(start, nonces, hashes, g) ==
  [a \in GpuAddresses |->
     IF GidAt(a) < g THEN Image(start, nonces, hashes + HashesPerRun)[a]
                     ELSE Image(start, nonces, hashes)[a]]

(* Launches have HashesPerRun hashes each, and the last one has the final hash. *)
LEMMA LaunchSizes ==
  ASSUME NEW hashes \in 0 .. NumHashes, hashes % HashesPerRun = 0, hashes < NumHashes
  PROVE  /\ hashes + HashesPerRun \in 0 .. NumHashes
         /\ (hashes + HashesPerRun) % HashesPerRun = 0
         /\ hashes \in 0 .. NumHashes - 1
         /\ LaunchEnd(hashes) \in hashes .. NumHashes
         /\ LaunchEnd(hashes) # NumHashes
              => /\ hashes + HashesPerRun < NumHashes
                 /\ NumHashes - LaunchEnd(hashes) - 1 = NumHashes - (hashes + HashesPerRun)
                 /\ NumHashes - (hashes + HashesPerRun) \in Nat
         /\ LaunchEnd(hashes) = NumHashes => hashes + HashesPerRun = NumHashes
<1> DEFINE H == HashesPerRun
           q == hashes \div H
           m == NumHashes \div H
<1>1. H \in Nat \ {0} /\ NumHashes % H = 0 /\ NumHashes \in Nat
  BY NonceGenAssumption, Sizes
<1>2. hashes = H * q /\ q \in Int /\ NumHashes = H * m /\ m \in Int
  <2> HIDE DEF H
  <2>1. hashes \in Int /\ NumHashes \in Int /\ hashes % H = 0
    BY <1>1 DEF H
  <2> QED BY <1>1, <2>1, IsMultiple
<1> HIDE DEF q, m
<1>3. q < m
  <2> HIDE DEF H
  <2>1. H * q < H * m
    BY <1>2
  <2> QED BY <1>1, <1>2, <2>1
<1>4. hashes + H <= NumHashes
  <2> HIDE DEF H
  <2>1. H * (q + 1) <= H * m
    <3>1. \A a, b \in Int : a <= b => H * a <= H * b
      BY <1>1
    <3> QED BY <1>2, <1>3, <3>1
  <2>2. H * (q + 1) = hashes + H
    BY <1>1, <1>2
  <2> QED BY <1>2, <2>1, <2>2
<1>5. (hashes + H) % H = 0
  <2>1. hashes \in Int /\ hashes % H = 0
    OBVIOUS
  <2> HIDE DEF H
  <2> DEFINE k == q + 1
  <2>2. hashes + H = k * H + 0 /\ k \in Int /\ 0 \in 0 .. H - 1
    BY <1>1, <1>2
  <2> HIDE DEF k
  <2>3. (k * H + 0) % H = 0
    BY <1>1, <2>2, Composed
  <2> QED BY <2>2, <2>3
<1> QED BY <1>1, <1>4, <1>5 DEF LaunchEnd

\* What calculate_nonces has after g work items.
LaunchStep(memory, start, nonces, hashes, after, g) ==
  IF g = 0 THEN memory
  ELSE IF g - 1 >= nonces THEN after[g - 1]
       ELSE KernelItem(after[g - 1], g - 1, start + g - 1, hashes, LaunchEnd(hashes))

LEMMA LaunchStepIs ==
  ASSUME NEW start \in Nat, NEW nonces \in Nat,
         NEW hashes \in 0 .. NumHashes, hashes % HashesPerRun = 0, hashes < NumHashes,
         NEW after, NEW g \in 0 .. Worksize,
         g # 0 => after[g - 1] = Halfway(start, nonces, hashes, g - 1)
  PROVE  LaunchStep(Image(start, nonces, hashes), start, nonces, hashes, after, g)
           = Halfway(start, nonces, hashes, g)
<1> DEFINE before == Image(start, nonces, hashes)
           next == hashes + HashesPerRun
           later == Image(start, nonces, next)
<1>0. /\ next \in 0 .. NumHashes /\ HashesPerRun \in Nat \ {0} /\ Worksize \in Nat
      /\ NumHashes \in Nat /\ hashes \in Nat
  <2>1. next \in 0 .. NumHashes
    BY LaunchSizes, Zenon
  <2> HIDE DEF next
  <2> QED BY <2>1, NonceGenAssumption, Sizes
<1>1. CASE g = 0
  <2>1. ASSUME NEW a \in GpuAddresses PROVE ~(GidAt(a) < g)
    BY <1>1, GpuDecoded DEF GpuAddresses
  <2>2. Halfway(start, nonces, hashes, g) = [a \in GpuAddresses |-> before[a]]
    <3> HIDE DEF before
    <3> QED BY <2>1 DEF Halfway, before
  <2>3. before = [a \in GpuAddresses |-> before[a]]
    BY DEF Image
  <2> HIDE DEF before
  <2> QED BY <1>1, <2>2, <2>3 DEF LaunchStep, before
<1>2. CASE g # 0
  <2> DEFINE gid == g - 1
             memory == Halfway(start, nonces, hashes, gid)
             number == start + g - 1
             x == Bswap(number)
  <2>0. gid \in 0 .. Worksize - 1 /\ gid \in Nat /\ number = start + gid /\ gid + 1 = g
    BY <1>0, <1>2
  <2>1. after[g - 1] = memory
    BY <1>2
  <2>2. DOMAIN memory = GpuAddresses
    BY DEF Halfway
  <2>3. ASSUME NEW a \in GpuAddresses
        PROVE  /\ GidAt(a) \in 0 .. Worksize - 1 /\ PosAt(a) \in Nat
               /\ memory[a] = IF GidAt(a) < gid THEN later[a] ELSE before[a]
    BY GpuDecoded, Sizes DEF GpuAddresses, Halfway
  <2>4. CASE gid >= nonces
    <3>1. LaunchStep(before, start, nonces, hashes, after, g) = memory
      BY <1>2, <2>1, <2>4 DEF LaunchStep
    <3>2. ASSUME NEW a \in GpuAddresses
          PROVE  (IF GidAt(a) < g THEN later[a] ELSE before[a])
                   = (IF GidAt(a) < gid THEN later[a] ELSE before[a])
      <4>1. CASE GidAt(a) = gid
        <5>1. later[a] = Stale /\ before[a] = Stale
          BY <2>4, <4>1 DEF Image
        <5> QED BY <5>1
      <4>2. CASE GidAt(a) # gid
        <5>1. GidAt(a) < g <=> GidAt(a) < gid
          BY <2>0, <2>3, <4>2
        <5> QED BY <5>1
      <4> QED BY <4>1, <4>2
    <3> HIDE DEF later, before
    <3>3. Halfway(start, nonces, hashes, g) = memory
      BY <3>2 DEF Halfway, later, before
    <3> QED BY <3>1, <3>3 DEF before
  <2>5. CASE gid < nonces
    <3> DEFINE end == LaunchEnd(hashes)
               item == KernelItem(memory, gid, number, hashes, end)
    <3>1. LaunchStep(before, start, nonces, hashes, after, g) = item
      BY <1>2, <2>0, <2>1, <2>5 DEF LaunchStep
    <3>2. ASSUME NEW a \in GpuAddresses, GidAt(a) = gid
          PROVE  /\ before[a] = IF PosAt(a) < 4 * (NumHashes - hashes) THEN Stale
                                ELSE Word(x, PosAt(a))
                 /\ later[a] = IF PosAt(a) < 4 * (NumHashes - next) THEN Stale
                               ELSE IF next < NumHashes THEN Word(x, PosAt(a))
                               ELSE PlotWord(x, PosAt(a))
      <4>1. ~(GidAt(a) >= nonces) /\ start + GidAt(a) = number
        BY <2>0, <2>5, <3>2
      <4> HIDE DEF number
      <4> QED BY <4>1 DEF Image
    <3>3. memory = ItemImage(memory, gid, x, NumHashes - hashes)
      <4>1. ASSUME NEW a \in GpuAddresses, GidAt(a) = gid, PosAt(a) >= 4 * (NumHashes - hashes)
            PROVE  memory[a] = Word(x, PosAt(a))
        <5>1. memory[a] = before[a] /\ ~(PosAt(a) < 4 * (NumHashes - hashes))
          BY <1>0, <2>0, <2>3, <4>1
        <5> HIDE DEF memory, before, x
        <5> QED BY <5>1, <3>2, <4>1
      <4>2. memory = [a \in GpuAddresses |-> memory[a]]
        BY DEF Halfway
      <4> HIDE DEF memory, x
      <4> QED BY <4>1, <4>2 DEF ItemImage
    <3>4. hashes \in 0 .. NumHashes - 1 /\ end \in hashes .. NumHashes
      BY LaunchSizes
    <3> DEFINE after_g == [a \in GpuAddresses |-> IF GidAt(a) < g THEN later[a] ELSE before[a]]
    <3>5. ASSUME NEW a \in GpuAddresses, GidAt(a) # gid
          PROVE  after_g[a] = memory[a]
      <4>1. GidAt(a) < g <=> GidAt(a) < gid
        BY <2>0, <2>3, <3>5
      <4> HIDE DEF later, before, memory
      <4> QED BY <2>3, <4>1
    <3>6. ASSUME NEW a \in GpuAddresses, GidAt(a) = gid
          PROVE  after_g[a] = later[a] /\ memory[a] = before[a]
      <4>1. GidAt(a) < g /\ ~(GidAt(a) < gid)
        BY <2>0, <2>3, <3>6
      <4> HIDE DEF later, before, memory
      <4> QED BY <2>3, <4>1
    <3>7. CASE end # NumHashes
      <4>1. /\ next < NumHashes /\ NumHashes - end - 1 = NumHashes - next
            /\ NumHashes - next \in Nat
        BY <3>7, LaunchSizes
      <4>2. item = ItemImage(memory, gid, x, NumHashes - next)
        <5> HIDE DEF memory, x
        <5> QED BY <2>0, <3>3, <3>4, <3>7, <4>1, KernelItemIs DEF x
      <4>3. ASSUME NEW a \in GpuAddresses
            PROVE  after_g[a] = (IF GidAt(a) = gid /\ PosAt(a) >= 4 * (NumHashes - next)
                                   THEN Word(x, PosAt(a)) ELSE memory[a])
        <5>1. CASE GidAt(a) = gid
          <6>1. NumHashes - hashes >= NumHashes - next
            BY <1>0
          <6> HIDE DEF after_g, later, before, memory, x
          <6>2. CASE PosAt(a) >= 4 * (NumHashes - next)
            BY <1>0, <2>3, <3>2, <3>6, <4>1, <5>1, <6>2
          <6>3. CASE ~(PosAt(a) >= 4 * (NumHashes - next))
            <7>1. PosAt(a) < 4 * (NumHashes - next) /\ PosAt(a) < 4 * (NumHashes - hashes)
              BY <1>0, <2>3, <6>1, <6>3
            <7> QED BY <3>2, <3>6, <5>1, <6>3, <7>1
          <6> QED BY <6>2, <6>3
        <5>2. CASE GidAt(a) # gid
          <6> HIDE DEF after_g, memory
          <6> QED BY <3>5, <5>2
        <5> QED BY <5>1, <5>2
      <4>4. ItemImage(memory, gid, x, NumHashes - next) = [a \in GpuAddresses |-> after_g[a]]
        <5> HIDE DEF after_g, memory, x
        <5> QED BY <4>3 DEF ItemImage
      <4> QED BY <3>1, <4>2, <4>4 DEF Halfway
    <3>8. CASE end = NumHashes
      <4>1. next = NumHashes
        BY <3>8, LaunchSizes
      <4>2. item = [a \in GpuAddresses |->
                      IF GidAt(a) = gid THEN PlotWord(x, PosAt(a)) ELSE memory[a]]
        <5> HIDE DEF memory, x
        <5> QED BY <2>0, <3>3, <3>4, <3>8, KernelItemIs DEF x
      <4>3. ASSUME NEW a \in GpuAddresses
            PROVE  after_g[a] = (IF GidAt(a) = gid THEN PlotWord(x, PosAt(a)) ELSE memory[a])
        <5>1. CASE GidAt(a) = gid
          <6>1. ~(PosAt(a) < 4 * (NumHashes - next)) /\ ~(next < NumHashes)
            BY <1>0, <2>3, <4>1
          <6> HIDE DEF after_g, later, before, memory, x
          <6> QED BY <3>2, <3>6, <5>1, <6>1
        <5>2. CASE GidAt(a) # gid
          <6> HIDE DEF after_g, memory
          <6> QED BY <3>5, <5>2
        <5> QED BY <5>1, <5>2
      <4>4. item = [a \in GpuAddresses |-> after_g[a]]
        <5> HIDE DEF after_g, memory, x
        <5> QED BY <4>2, <4>3
      <4> QED BY <3>1, <4>4 DEF Halfway
    <3> QED BY <3>7, <3>8
  <2> QED BY <1>0, <2>0, <2>4, <2>5
<1> QED BY <1>1, <1>2

\* The buffer in GPU memory after a launch.
AfterLaunch(memory, start, nonces, hashes) ==
  (CHOOSE f : f = [g \in 0 .. Worksize |-> LaunchStep(memory, start, nonces, hashes, f, g)])[Worksize]

LEMMA AfterLaunchIs ==
  ASSUME NEW start \in Nat, NEW nonces \in Nat,
         NEW hashes \in 0 .. NumHashes, hashes % HashesPerRun = 0, hashes < NumHashes
  PROVE  AfterLaunch(Image(start, nonces, hashes), start, nonces, hashes)
           = Image(start, nonces, hashes + HashesPerRun)
<1> DEFINE n == Worksize
           Step(f, g) == LaunchStep(Image(start, nonces, hashes), start, nonces, hashes, f, g)
           After(g) == Halfway(start, nonces, hashes, g)
           G == [g \in 0 .. n |-> After(g)]
           f == CHOOSE h : h = [g \in 0 .. n |-> Step(h, g)]
           T == {g \in Nat : g <= n => f[g] = After(g)}
<1>n. n \in Nat
  BY NonceGenAssumption
<1>s. ASSUME NEW h, NEW g \in 0 .. n, g # 0 => h[g - 1] = After(g - 1)
      PROVE  Step(h, g) = After(g)
  BY <1>s, LaunchStepIs
<1>0. AfterLaunch(Image(start, nonces, hashes), start, nonces, hashes) = f[n]
  BY DEF AfterLaunch
<1>9. After(n) = Image(start, nonces, hashes + HashesPerRun)
  <2>1. ASSUME NEW a \in GpuAddresses PROVE GidAt(a) < Worksize
    <3>1. GidAt(a) \in 0 .. Worksize - 1
      BY GpuDecoded DEF GpuAddresses
    <3> QED BY <3>1, <1>n
  <2> DEFINE later == Image(start, nonces, hashes + HashesPerRun)
  <2>2. later = [a \in GpuAddresses |-> later[a]]
    BY DEF Image
  <2> HIDE DEF later
  <2>3. After(n) = [a \in GpuAddresses |-> later[a]]
    BY <2>1 DEF Halfway, later
  <2> QED BY <2>2, <2>3 DEF later
<1> HIDE DEF n, Step, After
<1>1. G = [g \in 0 .. n |-> Step(G, g)]
  <2>1. \A g \in 0 .. n : G[g] = After(g)
    OBVIOUS
  <2>2. G = [g \in 0 .. n |-> G[g]]
    OBVIOUS
  <2>3. \A g \in 0 .. n : g # 0 => g - 1 \in 0 .. n
    BY <1>n
  <2> HIDE DEF G
  <2>4. ASSUME NEW g \in 0 .. n PROVE G[g] = Step(G, g)
    BY <2>1, <2>3, <1>s
  <2> QED BY <2>2, <2>4
<1> HIDE DEF G
<1>2. f = [g \in 0 .. n |-> Step(f, g)]
  <2>1. \E h : h = [g \in 0 .. n |-> Step(h, g)]
    BY <1>1
  <2> QED BY <2>1
<1> HIDE DEF f
<1>3. \A g \in 0 .. n : f[g] = Step(f, g)
  BY <1>2, Zenon
<1>4. 0 \in T
  <2>1. 0 \in 0 .. n
    BY <1>n
  <2>2. Step(f, 0) = After(0)
    BY <2>1, <1>s
  <2> QED BY <2>1, <2>2, <1>3
<1>5. ASSUME NEW g \in Nat, g \in T PROVE g + 1 \in T
  <2>1. SUFFICES ASSUME g + 1 <= n PROVE f[g + 1] = After(g + 1)
    OBVIOUS
  <2>2. g + 1 \in 0 .. n /\ (g + 1) - 1 = g
    BY <1>n, <2>1
  <2>3. f[g] = After(g)
    BY <1>5, <1>n, <2>1
  <2>4. Step(f, g + 1) = After(g + 1)
    BY <2>2, <2>3, <1>s
  <2> QED BY <2>2, <2>4, <1>3
<1>6. n \in T
  <2> HIDE DEF T
  <2> QED BY <1>n, <1>4, <1>5, SetInduction
<1>7. f[n] = After(n)
  BY <1>6, <1>n
<1> QED BY <1>0, <1>7, <1>9

-----------------------------------------------------------------------------
(* The inductive invariant.  The properties look at the cache and at GPU      *)
(* memory scoop by scoop and hash by hash; the invariant says of every word   *)
(* of both what it is, by the address alone.  That needs to know besides      *)
(* which nonces a hasher may have stored, and that launches are whole.        *)

CacheAddresses == 0 .. CacheSize * NONCE_SIZE - 1

\* Tasks keep to the share, and hashers to their tasks.
Tasks ==
  /\ task \in Shares
  /\ stored = [w \in Hashers |-> stored[w]]
  /\ \A w \in Hashers : stored[w] \subseteq 0 .. task[w].nonces - 1

\* The buffer of a GPU has the hashes of the launches so far.
Devices ==
  /\ device = [w \in Hashers |-> device[w]]
  /\ launched = [w \in Hashers |-> launched[w]]
  /\ \A w \in Hashers :
       /\ launched[w] \in 0 .. NumHashes /\ launched[w] % HashesPerRun = 0
       /\ task[w].by = "gpu" => device[w] = Image(task[w].start, task[w].nonces, launched[w])

\* The word that a nonce of a hasher has at an address of its slot.
WordOf(w, n, a) == PlotWord(Bswap(task[w].start + n), 4 * HashAt(a) + (a % 4))

\* Every word of the cache is the one of the nonce that was stored there, or blank.
Contents ==
  /\ \A a \in CacheAddresses : \A w \in Hashers : \A n \in stored[w] :
       SlotAt(a) = task[w].offset + n => cache[a] = WordOf(w, n, a)
  /\ \A a \in CacheAddresses :
       (\A w \in Hashers : \A n \in stored[w] : SlotAt(a) # task[w].offset + n) => cache[a] = Blank

GenInv == Tasks /\ Devices /\ CacheDomain /\ Contents

LEMMA TaskIs ==
  ASSUME task \in Shares, NEW w \in Hashers
  PROVE  /\ task[w].by \in Kinds /\ task[w].offset \in Nat /\ task[w].start \in Nat
         /\ task[w].nonces \in Nat /\ task[w].offset + task[w].nonces <= CacheSize
         /\ task[w].by = "gpu" => task[w].nonces <= Worksize
         /\ \A other \in Hashers \ {w} :
              /\ task[other].offset \in Nat /\ task[other].nonces \in Nat
              /\ \/ task[w].offset + task[w].nonces <= task[other].offset
                 \/ task[other].offset + task[other].nonces <= task[w].offset
<1>1. task \in [Hashers -> [by : Kinds, offset : Nat, start : Nat, nonces : Nat]]
  BY SharesAssumption
<1>2. \A v \in Hashers : task[v] \in [by : Kinds, offset : Nat, start : Nat, nonces : Nat]
  BY <1>1
<1>3. \A v \in Hashers : /\ task[v].by \in Kinds /\ task[v].offset \in Nat
                         /\ task[v].start \in Nat /\ task[v].nonces \in Nat
  BY <1>2
<1>4. /\ task[w].offset + task[w].nonces <= CacheSize
      /\ task[w].by = "gpu" => task[w].nonces <= Worksize
      /\ \A other \in Hashers \ {w} :
           \/ task[w].offset + task[w].nonces <= task[other].offset
           \/ task[other].offset + task[other].nonces <= task[w].offset
  BY SharesAssumption
<1> QED BY <1>3, <1>4

\* A hasher stores the words of its nonces n .. n + count - 1 at their slots.
Stores(w, n, count) ==
  /\ cache' = [a \in DOMAIN cache |->
                 IF SlotAt(a) \in task[w].offset + n .. task[w].offset + n + count - 1
                   THEN WordOf(w, SlotAt(a) - task[w].offset, a) ELSE cache[a]]
  /\ stored' = [stored EXCEPT ![w] = @ \cup n .. n + count - 1]
  /\ UNCHANGED <<task, device, launched>>

LEMMA StoresKeeps ==
  ASSUME GenInv, NEW w \in Hashers, NEW n \in Nat, NEW count \in Nat,
         n + count <= task[w].nonces, Stores(w, n, count)
  PROVE  GenInv'
<1> DEFINE offset == task[w].offset
           Mine(a) == SlotAt(a) \in offset + n .. offset + n + count - 1
<1>0. /\ task[w].nonces \in Nat /\ offset \in Nat
      /\ offset + n + count <= offset + task[w].nonces
      /\ \A other \in Hashers \ {w} :
           /\ task[other].offset \in Nat /\ task[other].nonces \in Nat
           /\ \/ offset + task[w].nonces <= task[other].offset
              \/ task[other].offset + task[other].nonces <= offset
  BY TaskIs DEF GenInv, Tasks
<1>1. task' = task /\ device' = device /\ launched' = launched
  BY DEF Stores
<1>2. DOMAIN cache = CacheAddresses
  BY Zenon DEF GenInv, CacheDomain, CacheAddresses
<1>3. \A a \in CacheAddresses :
        cache'[a] = IF Mine(a) THEN WordOf(w, SlotAt(a) - offset, a) ELSE cache[a]
  BY <1>2 DEF Stores
<1>4. /\ stored' = [v \in Hashers |-> stored'[v]]
      /\ stored'[w] = stored[w] \cup n .. n + count - 1
      /\ \A v \in Hashers \ {w} : stored'[v] = stored[v]
  BY DEF Stores, GenInv, Tasks
<1>5. \A a \in CacheAddresses : SlotAt(a) \in Int
  BY DecodedAddress DEF CacheAddresses
<1>6. \A v \in Hashers : stored[v] \subseteq 0 .. task[v].nonces - 1
  BY DEF GenInv, Tasks
<1>7. Tasks'
  BY <1>0, <1>1, <1>4, <1>6 DEF GenInv, Tasks
<1>8. Devices'
  BY <1>1 DEF GenInv, Devices, Image
<1>9. CacheDomain'
  <2>1. cache' = [a \in CacheAddresses |-> cache'[a]]
    BY <1>2 DEF Stores
  <2> QED BY <2>1, Zenon DEF CacheDomain, CacheAddresses
<1>10. ASSUME NEW a \in CacheAddresses, NEW v \in Hashers, NEW m \in stored'[v],
              SlotAt(a) = task[v].offset + m
       PROVE  cache'[a] = WordOf(v, m, a)
  <2>1. CASE v = w
    <3>1. m \in Int /\ m = SlotAt(a) - offset
      BY <1>0, <1>4, <1>6, <1>10, <2>1
    <3>2. CASE Mine(a)
      BY <1>3, <2>1, <3>1, <3>2
    <3>3. CASE ~Mine(a)
      <4>1. m \in stored[w]
        <5>1. m \notin n .. n + count - 1
          BY <1>0, <1>10, <2>1, <3>1, <3>3
        <5> QED BY <1>4, <1>10, <2>1, <5>1
      <4> QED BY <1>3, <1>10, <2>1, <3>3, <4>1 DEF GenInv, Contents
    <3> QED BY <3>2, <3>3
  <2>2. CASE v # w
    <3>1. m \in stored[v] /\ m \in 0 .. task[v].nonces - 1
      BY <1>4, <1>6, <1>10, <2>2
    <3>2. ~Mine(a)
      BY <1>0, <1>10, <2>2, <3>1
    <3> QED BY <1>3, <1>10, <3>1, <3>2 DEF GenInv, Contents
  <2> QED BY <2>1, <2>2
<1>11. ASSUME NEW a \in CacheAddresses,
              \A v \in Hashers : \A m \in stored'[v] : SlotAt(a) # task[v].offset + m
       PROVE  cache'[a] = Blank
  <2>1. ~Mine(a)
    <3>1. SUFFICES ASSUME Mine(a) PROVE FALSE
      OBVIOUS
    <3> DEFINE m == SlotAt(a) - offset
    <3>2. m \in n .. n + count - 1 /\ SlotAt(a) = offset + m
      BY <1>0, <1>5, <3>1
    <3>3. m \in stored'[w]
      BY <1>4, <3>2
    <3> HIDE DEF m
    <3> QED BY <1>11, <3>2, <3>3
  <2>2. \A v \in Hashers : \A m \in stored[v] : SlotAt(a) # task[v].offset + m
    BY <1>4, <1>11
  <2> QED BY <1>3, <2>1, <2>2 DEF GenInv, Contents
<1>12. Contents'
  BY <1>1, <1>10, <1>11 DEF Contents, WordOf, CacheAddresses
<1> QED BY <1>7, <1>8, <1>9, <1>12 DEF GenInv

LEMMA NextNonceIs ==
  ASSUME GenInv, NEW w \in Hashers
  PROVE  NextNonce(w) \in Nat
<1>1. stored[w] \subseteq 0 .. task[w].nonces - 1 /\ task[w].nonces \in Nat
  BY TaskIs DEF GenInv, Tasks
<1>2. IsFiniteSet(0 .. task[w].nonces - 1)
  BY <1>1, FS_Interval
<1>3. IsFiniteSet(stored[w])
  BY <1>1, <1>2, FS_Subset
<1> QED BY <1>3, FS_CardinalityType DEF NextNonce

\* The buffer has, for each word of the wanted nonces, the word of the plot
\* where Unpacked looks for it.
Ready(buffer, from, L, count, w, n) ==
  \A a \in CacheAddresses :
    SlotAt(a) \in n + task[w].offset .. n + task[w].offset + count - 1
      => Source(buffer, from, L, n + task[w].offset, a)
           = WordOf(w, SlotAt(a) - task[w].offset, a)

LEMMA UnpackedStores ==
  ASSUME GenInv, NEW w \in Hashers, NEW n \in Nat, NEW count \in Nat \ {0},
         n + count <= task[w].nonces,
         NEW buffer, NEW from, NEW L,
         Ready(buffer, from, L, count, w, n),
         cache' = Unpacked(buffer, from, L, count, n + task[w].offset),
         stored' = [stored EXCEPT ![w] = @ \cup n .. n + count - 1],
         UNCHANGED <<task, device, launched>>
  PROVE  GenInv'
<1> DEFINE slot == n + task[w].offset
<1>1. /\ task[w].offset \in Nat /\ task[w].nonces \in Nat
      /\ task[w].offset + task[w].nonces <= CacheSize
  BY TaskIs DEF GenInv, Tasks
<1>2. slot \in Nat /\ slot + count <= CacheSize
  BY <1>1, NonceGenAssumption
<1>3. DOMAIN cache = CacheAddresses /\ CacheDomain
  BY Zenon DEF GenInv, CacheDomain, CacheAddresses
<1>4. /\ slot = task[w].offset + n
      /\ slot + count - 1 = task[w].offset + n + count - 1
  BY <1>1
<1>5. Unpacked(buffer, from, L, count, slot) = Scattered(buffer, from, L, count, slot)
  <2> HIDE DEF slot
  <2> QED BY <1>2, <1>3, UnpackedIs
<1>6. cache' = [a \in DOMAIN cache |->
                  IF SlotAt(a) \in slot .. slot + count - 1
                    THEN WordOf(w, SlotAt(a) - task[w].offset, a) ELSE cache[a]]
  BY <1>3, <1>5 DEF Ready, Scattered
<1>7. Stores(w, n, count)
  <2>1. cache' = [a \in DOMAIN cache |->
                    IF SlotAt(a) \in task[w].offset + n .. task[w].offset + n + count - 1
                      THEN WordOf(w, SlotAt(a) - task[w].offset, a) ELSE cache[a]]
    <3> HIDE DEF slot
    <3> QED BY <1>4, <1>6
  <2> QED BY <2>1 DEF Stores
<1>8. count \in Nat
  OBVIOUS
<1> QED BY <1>7, <1>8, StoresKeeps

LEMMA VectorKeeps ==
  ASSUME GenInv, NEW w \in Hashers, NEW L \in Nat \ {0}, Vector(w, L)
  PROVE  GenInv'
<1> DEFINE n == NextNonce(w)
           slot == n + task[w].offset
           numbers == [k \in 0 .. L - 1 |-> Bswap(task[w].start + n + k)]
           buffer == Finished(L, numbers)
<1>1. /\ n + L <= task[w].nonces
      /\ cache' = Unpacked(buffer, 0, L, L, slot)
      /\ stored' = [stored EXCEPT ![w] = @ \cup n .. n + L - 1]
      /\ UNCHANGED <<task, device, launched>>
  BY DEF Vector, VectorLeft
<1>2. n \in Nat /\ task[w].offset \in Nat /\ task[w].start \in Nat
  BY NextNonceIs, TaskIs DEF GenInv, Tasks
<1> HIDE DEF n
<1>3. buffer = [a \in 0 .. L * NONCE_SIZE - 1 |-> PlotWord(numbers[a % L], a \div L)]
  <2> HIDE DEF numbers
  <2> QED BY FinishedIs
<1>4. ASSUME NEW a \in CacheAddresses, SlotAt(a) \in slot .. slot + L - 1
      PROVE  Source(buffer, 0, L, slot, a) = WordOf(w, SlotAt(a) - task[w].offset, a)
  <2> DEFINE p == 4 * HashAt(a) + (a % 4)
             k == SlotAt(a) - slot
             i == p * L + k
  <2>1. p \in 0 .. NONCE_SIZE - 1 /\ k \in 0 .. L - 1
    BY <1>2, <1>4, DecodedAddress, Sizes DEF CacheAddresses
  <2>2. Source(buffer, 0, L, slot, a) = buffer[i]
    <3>1. HashAt(a) * HASH_SIZE + (a % 4) = p
      BY DecodedAddress, Sizes DEF CacheAddresses
    <3>2. 0 + p * L + k = i
      <4> HIDE DEF p, k
      <4> QED BY <2>1, Sizes
    <3> HIDE DEF buffer, p, k
    <3> QED BY <3>1, <3>2 DEF Source, k
  <2>3. SlotAt(a) - task[w].offset = n + k /\ task[w].start + n + k = task[w].start + (n + k)
    BY <1>2, <1>4
  <2> HIDE DEF p, k
  <2>4. i \in 0 .. L * NONCE_SIZE - 1 /\ i % L = k /\ i \div L = p
    <3>1. i \in 0 .. NONCE_SIZE * L - 1 /\ i % L = k /\ i \div L = p
      BY <2>1, CellOfRow, Composed, Sizes
    <3>2. NONCE_SIZE * L = L * NONCE_SIZE
      BY Sizes
    <3> HIDE DEF i
    <3> QED BY <3>1, <3>2
  <2> HIDE DEF i
  <2>5. buffer[i] = PlotWord(numbers[k], p)
    BY <1>3, <2>4
  <2>6. numbers[k] = Bswap(task[w].start + (n + k))
    BY <2>1, <2>3
  <2> QED BY <2>2, <2>3, <2>5, <2>6 DEF WordOf, p
<1> HIDE DEF buffer
<1>5. Ready(buffer, 0, L, L, w, n)
  BY <1>4 DEF Ready
<1> QED BY <1>1, <1>2, <1>5, UnpackedStores

(* A buffer that has one nonce. *)
LEMMA OneStores ==
  ASSUME GenInv, NEW w \in Hashers,
         NextNonce(w) < task[w].nonces,
         cache' = Unpacked(PlotNonce(Bswap(task[w].start + NextNonce(w))), 0, 1, 1,
                           NextNonce(w) + task[w].offset),
         stored' = [stored EXCEPT ![w] = @ \cup {NextNonce(w)}],
         UNCHANGED <<task, device, launched>>
  PROVE  GenInv'
<1> DEFINE n == NextNonce(w)
           slot == n + task[w].offset
           buffer == PlotNonce(Bswap(task[w].start + n))
<1>2. n \in Nat /\ task[w].offset \in Nat /\ task[w].start \in Nat /\ task[w].nonces \in Nat
  BY NextNonceIs, TaskIs DEF GenInv, Tasks
<1>1. n + 1 <= task[w].nonces /\ {n} = n .. n + 1 - 1
  <2> HIDE DEF n
  <2>1. n < task[w].nonces
    BY DEF n
  <2> QED BY <1>2, <2>1
<1>3. stored' = [stored EXCEPT ![w] = @ \cup n .. n + 1 - 1]
  BY <1>1
<1> HIDE DEF n
<1>4. ASSUME NEW a \in CacheAddresses, SlotAt(a) \in slot .. slot + 1 - 1
      PROVE  Source(buffer, 0, 1, slot, a) = WordOf(w, SlotAt(a) - task[w].offset, a)
  <2> DEFINE p == 4 * HashAt(a) + (a % 4)
  <2>1. p \in 0 .. NONCE_SIZE - 1 /\ SlotAt(a) = slot
    BY <1>2, <1>4, DecodedAddress, Sizes DEF CacheAddresses
  <2>2. 0 + (HashAt(a) * HASH_SIZE + (a % 4)) * 1 + (SlotAt(a) - slot) = p
    BY <1>2, <2>1, DecodedAddress, Sizes DEF CacheAddresses
  <2>3. SlotAt(a) - task[w].offset = n
    BY <1>2, <2>1
  <2>4. Source(buffer, 0, 1, slot, a) = buffer[p]
    <3> HIDE DEF buffer, p
    <3> QED BY <2>2 DEF Source
  <2> HIDE DEF p
  <2>5. buffer[p] = PlotWord(Bswap(task[w].start + n), p)
    BY <2>1 DEF PlotNonce
  <2> QED BY <2>3, <2>4, <2>5 DEF WordOf, p
<1>5. cache' = Unpacked(buffer, 0, 1, 1, slot)
  BY DEF n
<1> HIDE DEF buffer
<1>6. 1 \in Nat \ {0}
  OBVIOUS
<1>7. Ready(buffer, 0, 1, 1, w, n)
  BY <1>4 DEF Ready
<1> QED BY <1>1, <1>2, <1>3, <1>5, <1>6, <1>7, UnpackedStores, Zenon

LEMMA ScalarKeeps ==
  ASSUME GenInv, NEW w \in Hashers, NEW L, Scalar(w, L)
  PROVE  GenInv'
<1>1. ScalarNonce(task[w].start + NextNonce(w)) = PlotNonce(Bswap(task[w].start + NextNonce(w)))
  BY ScalarNonceIs
<1> QED BY <1>1, OneStores DEF Scalar

LEMMA RustKeeps ==
  ASSUME GenInv, NEW w \in Hashers, noncegen_rust(w)
  PROVE  GenInv'
<1>1. RustNonce(task[w].start + NextNonce(w)) = PlotNonce(Bswap(task[w].start + NextNonce(w)))
  BY RustNonceIs
<1> QED BY <1>1, OneStores DEF noncegen_rust

LEMMA LaunchKeeps ==
  ASSUME GenInv, NEW w \in Hashers, calculate_nonces(w)
  PROVE  GenInv'
<1> DEFINE start == task[w].start
           nonces == task[w].nonces
           hashes == launched[w]
<1>1. /\ task[w].by = "gpu" /\ hashes < NumHashes
      /\ device' = [device EXCEPT ![w] = AfterLaunch(device[w], start, nonces, hashes)]
      /\ launched' = [launched EXCEPT ![w] = hashes + HashesPerRun]
      /\ task' = task /\ cache' = cache /\ stored' = stored
  BY DEF calculate_nonces, AfterLaunch, LaunchStep
<1>2. start \in Nat /\ nonces \in Nat
  BY TaskIs DEF GenInv, Tasks
<1>3. /\ hashes \in 0 .. NumHashes /\ hashes % HashesPerRun = 0
      /\ device[w] = Image(start, nonces, hashes)
  BY <1>1 DEF GenInv, Devices
<1> HIDE DEF start, nonces, hashes
<1>4. /\ hashes + HashesPerRun \in 0 .. NumHashes
      /\ (hashes + HashesPerRun) % HashesPerRun = 0
  BY <1>1, <1>3, LaunchSizes
<1>5. AfterLaunch(device[w], start, nonces, hashes)
        = Image(start, nonces, hashes + HashesPerRun)
  BY <1>1, <1>2, <1>3, AfterLaunchIs
<1>6. Devices'
  <2>1. /\ device = [v \in Hashers |-> device[v]]
        /\ launched = [v \in Hashers |-> launched[v]]
    BY DEF GenInv, Devices
  <2>2. /\ device' = [v \in Hashers |-> device'[v]]
        /\ launched' = [v \in Hashers |-> launched'[v]]
        /\ device'[w] = Image(start, nonces, hashes + HashesPerRun)
        /\ launched'[w] = hashes + HashesPerRun
        /\ \A v \in Hashers \ {w} : device'[v] = device[v] /\ launched'[v] = launched[v]
    BY <1>1, <1>5, <2>1
  <2>3. ASSUME NEW v \in Hashers
        PROVE  /\ launched'[v] \in 0 .. NumHashes /\ launched'[v] % HashesPerRun = 0
               /\ task[v].by = "gpu"
                    => device'[v] = Image(task[v].start, task[v].nonces, launched'[v])
    <3>1. CASE v = w
      BY <1>4, <2>2, <3>1 DEF start, nonces
    <3>2. CASE v # w
      BY <2>2, <3>2 DEF GenInv, Devices
    <3> QED BY <3>1, <3>2
  <2> QED BY <1>1, <2>2, <2>3 DEF Devices, Image
<1>7. Tasks' /\ CacheDomain' /\ Contents'
  BY <1>1, Zenon DEF GenInv, Tasks, CacheDomain, Contents, WordOf
<1> QED BY <1>6, <1>7 DEF GenInv

(* The vector that starts at nonce n is where unpack_shuffle_scatter looks. *)
LEMMA VectorFrom ==
  ASSUME NEW n \in Nat, n % GpuVector = 0, NEW k \in 0 .. GpuVector - 1,
         n + k < Worksize, NEW h \in 0 .. NumHashes - 1, NEW word \in 0 .. 3
  PROVE  n * NONCE_SIZE + (4 * h + word) * GpuVector + k = Address(n + k, h, word)
<1> DEFINE V == GpuVector
           q == n \div V
           p == 4 * h + word
<1>1. V \in Nat \ {0} /\ Worksize \in Nat /\ NONCE_SIZE \in Nat \ {0}
  BY GpuSizes, Sizes
<1>2. n = V * q /\ q \in Int
  BY <1>1, IsMultiple
<1>3. p \in Int
  BY Sizes
<1> HIDE DEF q, V, p
<1>4. (q * V + k) \div V = q /\ (q * V + k) % V = k /\ q * V + k = n + k
  BY <1>1, <1>2, Composed DEF V
<1>5. (n + k) \div V = q /\ (n + k) % V = k /\ n + k \in 0 .. Worksize - 1
  <2>1. n + k \in 0 .. Worksize - 1
    BY <1>1
  <2> QED BY <1>4, <2>1
<1>6. Address(n + k, h, word) = (q * NONCE_SIZE + p) * V + k
  BY <1>5, AddressIs DEF V, p
<1>7. (q * NONCE_SIZE + p) * V = n * NONCE_SIZE + p * V
  BY <1>1, <1>2, <1>3
<1>8. n * NONCE_SIZE \in Int /\ p * V \in Int /\ k \in Int
  BY <1>1, <1>3 DEF V
<1> DEFINE x == n * NONCE_SIZE
           y == p * V
<1> HIDE DEF x, y
<1>9. x + y + k = Address(n + k, h, word)
  BY <1>6, <1>7 DEF x, y
<1> QED BY <1>9 DEF x, y, p, V

LEMMA UnpackKeeps ==
  ASSUME GenInv, NEW w \in Hashers, unpack_shuffle_scatter(w)
  PROVE  GenInv'
<1>1. PICK n \in VectorStarts(w) \ stored[w] :
        /\ task[w].by = "gpu" /\ launched[w] = NumHashes
        /\ cache' = Unpacked(device[w], n * NONCE_SIZE, GpuVector, VectorCount(w, n),
                             n + task[w].offset)
        /\ stored' = [stored EXCEPT ![w] = @ \cup n .. n + VectorCount(w, n) - 1]
        /\ UNCHANGED <<task, device, launched>>
  BY DEF unpack_shuffle_scatter
<1> DEFINE V == GpuVector
           count == VectorCount(w, n)
           slot == n + task[w].offset
           from == n * NONCE_SIZE
           start == task[w].start
           nonces == task[w].nonces
<1>2. /\ task[w].offset \in Nat /\ start \in Nat /\ nonces \in Nat
      /\ nonces <= Worksize /\ V \in Nat \ {0} /\ Worksize \in Nat
  BY <1>1, TaskIs, GpuSizes DEF GenInv, Tasks
<1>3. n \in Nat /\ n < nonces /\ n % V = 0
  BY <1>1, <1>2 DEF VectorStarts
<1>4. count \in Nat \ {0} /\ n + count <= nonces /\ count <= V
  BY <1>2, <1>3 DEF VectorCount
<1>5. device[w] = Image(start, nonces, NumHashes)
  BY <1>1 DEF GenInv, Devices
<1> HIDE DEF count, start, nonces
<1>6. ASSUME NEW a \in CacheAddresses, SlotAt(a) \in slot .. slot + count - 1
      PROVE  Source(device[w], from, V, slot, a) = WordOf(w, SlotAt(a) - task[w].offset, a)
  <2> DEFINE h == HashAt(a)
             word == a % 4
             k == SlotAt(a) - slot
             b == Address(n + k, h, word)
  <2>1. /\ h \in 0 .. NumHashes - 1 /\ word \in 0 .. 3 /\ SlotAt(a) \in Int
        /\ k \in 0 .. V - 1 /\ k < count /\ n + k = SlotAt(a) - task[w].offset
    BY <1>2, <1>3, <1>4, <1>6, DecodedAddress DEF CacheAddresses
  <2> HIDE DEF k, h, word
  <2>2. n + k < nonces /\ n + k < Worksize /\ n + k \in 0 .. Worksize - 1
    BY <1>2, <1>3, <1>4, <2>1
  <2>3. from + (4 * h + word) * V + k = b
    BY <1>3, <2>1, <2>2, VectorFrom
  <2>4. b \in GpuAddresses /\ GidAt(b) = n + k /\ PosAt(b) = 4 * h + word
    BY <2>1, <2>2, GpuAddress DEF GpuAddresses
  <2>5. h * HASH_SIZE + word = 4 * h + word
    BY <2>1, Sizes
  <2> HIDE DEF b, from, V
  <2>6. Source(device[w], from, V, slot, a) = device[w][b]
    BY <2>3, <2>5 DEF Source, h, word, k
  <2>7. ~(GidAt(b) >= nonces) /\ ~(PosAt(b) < 4 * (NumHashes - NumHashes)) /\ ~(NumHashes < NumHashes)
    BY <1>2, <1>3, <2>1, <2>2, <2>4, Sizes
  <2>8. device[w][b] = PlotWord(Bswap(start + (n + k)), 4 * h + word)
    BY <1>5, <2>4, <2>7 DEF Image
  <2> QED BY <2>1, <2>6, <2>8 DEF WordOf, start, h, word
<1>7. Ready(device[w], from, V, count, w, n)
  BY <1>6 DEF Ready
<1> QED BY <1>1, <1>3, <1>4, <1>7, UnpackedStores DEF count, nonces

LEMMA GenInvInit ==
  ASSUME Init
  PROVE  GenInv
<1>1. \A w \in Hashers : task[w].nonces \in Nat
  BY TaskIs DEF Init
<1>2. Tasks
  BY <1>1 DEF Init, Tasks
<1>3. Devices
  <2>1. ASSUME NEW w \in Hashers, task[w].by = "gpu"
        PROVE  device[w] = Image(task[w].start, task[w].nonces, launched[w])
    <3>1. device[w] = [a \in GpuAddresses |-> Stale] /\ launched[w] = 0
      BY <2>1 DEF Init, GpuAddresses
    <3>2. ASSUME NEW a \in GpuAddresses PROVE PosAt(a) < 4 * (NumHashes - 0)
      BY GpuDecoded, Sizes DEF GpuAddresses
    <3>3. Image(task[w].start, task[w].nonces, 0) = [a \in GpuAddresses |-> Stale]
      BY <3>2 DEF Image
    <3> QED BY <3>1, <3>3
  <2>2. \A w \in Hashers : launched[w] \in 0 .. NumHashes /\ launched[w] % HashesPerRun = 0
    <3>1. 0 % HashesPerRun = 0 /\ 0 \in 0 .. NumHashes
      BY NonceGenAssumption, Sizes
    <3> QED BY <3>1 DEF Init
  <2> QED BY <2>1, <2>2 DEF Init, Devices
<1>4. CacheDomain
  BY DEF Init, CacheDomain
<1>5. Contents
  BY DEF Init, Contents, CacheAddresses
<1> QED BY <1>2, <1>3, <1>4, <1>5 DEF GenInv

LEMMA GenInvNext ==
  ASSUME GenInv, [Next]_vars
  PROVE  GenInv'
<1>1. \A extension \in Extensions : Lanes[extension] \in Nat \ {0}
  BY NonceGenAssumption
<1>2. ASSUME NEW w \in Hashers, noncegen_sse2(w) PROVE GenInv'
  BY <1>1, <1>2, VectorKeeps, ScalarKeeps DEF noncegen_sse2, Extensions
<1>3. ASSUME NEW w \in Hashers, noncegen_avx(w) PROVE GenInv'
  BY <1>1, <1>3, VectorKeeps, ScalarKeeps DEF noncegen_avx, Extensions
<1>4. ASSUME NEW w \in Hashers, noncegen_avx2(w) PROVE GenInv'
  BY <1>1, <1>4, VectorKeeps, ScalarKeeps DEF noncegen_avx2, Extensions
<1>5. ASSUME NEW w \in Hashers, noncegen_avx512(w) PROVE GenInv'
  BY <1>1, <1>5, VectorKeeps, ScalarKeeps DEF noncegen_avx512, Extensions
<1>6. ASSUME UNCHANGED vars PROVE GenInv'
  BY <1>6, Zenon DEF vars, GenInv, Tasks, Devices, CacheDomain, Contents, WordOf
<1> QED BY <1>2, <1>3, <1>4, <1>5, <1>6, RustKeeps, LaunchKeeps, UnpackKeeps
        DEF Next, CpuStep, GpuStep, Returned

(* The invariant holds in every state. *)
THEOREM GenInvAlways ==
  Spec => []GenInv
<1>1. Init => GenInv
  BY GenInvInit
<1>2. GenInv /\ [Next]_vars => GenInv'
  BY GenInvNext
<1> QED BY <1>1, <1>2, PTL DEF Spec

-----------------------------------------------------------------------------
(* What the invariant says of the plot. *)

(* A nonce of the reference has the hashes and the final hash of the definition. *)
LEMMA ReferenceIs ==
  ASSUME NEW number \in Nat
  PROVE  LET nonce == Reference[number % (Base * Base)]
         IN nonce.hashes = Hashes(Bswap(number)) /\ nonce.final = Final(Bswap(number))
<1> DEFINE d == Base * Base
           x == number % d
<1>1. d \in Nat \ {0}
  BY NonceGenAssumption
<1> HIDE DEF d
<1>2. x \in 0 .. d - 1 /\ x % d = x
  BY <1>1
<1>3. Bswap(x) = Bswap(number)
  BY <1>2 DEF Bswap, d
<1>4. Reference[x] = RawHashes(Bswap(x))
  <2>1. Reference = [m \in 0 .. d - 1 |-> RawHashes(Bswap(m))]
    BY EvaluatedIs DEF Reference, d
  <2> HIDE DEF x
  <2> QED BY <1>2, <2>1
<1> QED BY <1>3, <1>4 DEF RawHashes, Final, d

(* A word of the cache that the writer takes for a scoop. *)
LEMMA ScoopWord ==
  ASSUME NEW slot \in 0 .. CacheSize - 1, NEW s \in 0 .. NumScoops - 1, NEW j \in 0 .. SCOOP_SIZE - 1
  PROVE  LET a == (s * CacheSize + slot) * SCOOP_SIZE + j
             h == IF j < HASH_SIZE THEN 2 * s ELSE 2 * (NumScoops - 1 - s) + 1
         IN /\ a \in CacheAddresses /\ SlotAt(a) = slot /\ HashAt(a) = h
            /\ h \in 0 .. NumHashes - 1
            /\ a % 4 = IF j < HASH_SIZE THEN j ELSE j - HASH_SIZE
<1> DEFINE C == CacheSize
           c == s * C + slot
           a == c * SCOOP_SIZE + j
           h == IF j < HASH_SIZE THEN 2 * s ELSE 2 * (NumScoops - 1 - s) + 1
           b == IF j < HASH_SIZE THEN 0 ELSE 1
           word == IF j < HASH_SIZE THEN j ELSE j - HASH_SIZE
<1>0. C \in Nat \ {0}
  BY NonceGenAssumption
<1>1. word \in 0 .. 3 /\ j = 4 * b + word /\ b \in {0, 1} /\ j \in 0 .. 7
  BY Sizes
<1>2. h \in 0 .. NumHashes - 1 /\ ScoopOf(h) = s /\ h % 2 = b
  <2>1. CASE j < HASH_SIZE
    BY <2>1, Sizes DEF ScoopOf
  <2>2. CASE ~(j < HASH_SIZE)
    BY <2>2, Sizes DEF ScoopOf
  <2> QED BY <2>1, <2>2
<1> HIDE DEF h, b, word
<1>3. CacheAddress(h, slot, C) + word = a
  <2>1. CacheAddress(h, slot, C) = s * 8 * C + slot * 8 + b * 4
    BY <1>2, Sizes DEF CacheAddress
  <2>2. c * 8 = s * 8 * C + slot * 8 /\ c \in Int
    <3> HIDE DEF C
    <3> QED BY <1>0
  <2>3. a = c * 8 + j
    BY Sizes
  <2> HIDE DEF c, a, C
  <2>4. s * 8 * C + slot * 8 + b * 4 + word = c * 8 + j
    <3> DEFINE y == s * 8 * C + slot * 8
    <3>1. y = c * 8
      BY <2>2
    <3> HIDE DEF y
    <3>2. y + b * 4 + word = c * 8 + j
      BY <1>1, <2>2, <3>1
    <3> QED BY <3>2 DEF y
  <2> QED BY <2>1, <2>3, <2>4
<1>4. /\ a \in CacheAddresses /\ SlotAt(a) = slot /\ HashAt(a) = h /\ a % 4 = word
  BY <1>1, <1>2, <1>3, AddressDecoded DEF CacheAddresses
<1> HIDE DEF a
<1>5. /\ a \in CacheAddresses /\ SlotAt(a) = slot /\ HashAt(a) = h
      /\ h \in 0 .. NumHashes - 1 /\ a % 4 = word
  BY <1>2, <1>4
<1> QED BY <1>5 DEF a, h, word

(* The words of a scoop of the reference. *)
LEMMA ScoopIs ==
  ASSUME NEW number \in Nat, NEW s \in 0 .. NumScoops - 1, NEW j \in 0 .. SCOOP_SIZE - 1
  PROVE  Scoop(number, s)[j] =
           IF j < HASH_SIZE THEN PlotWord(Bswap(number), 4 * (2 * s) + j)
           ELSE PlotWord(Bswap(number), 4 * (2 * (NumScoops - 1 - s) + 1) + (j - HASH_SIZE))
<1> DEFINE x == Bswap(number)
           nonce == Reference[number % (Base * Base)]
<1>1. nonce.hashes = Hashes(x) /\ nonce.final = Final(x)
  BY ReferenceIs
<1>2. ASSUME NEW h \in 0 .. NumHashes - 1, NEW y \in 0 .. 3
      PROVE  XorWord(nonce.hashes[h][y + 1], nonce.final[y + 1]) = PlotWord(x, 4 * h + y)
  <2>1. /\ 4 * h + y \in 0 .. NONCE_SIZE - 1 /\ (4 * h + y) \div 4 = h
        /\ (4 * h + y) % 4 = y
    BY Sizes
  <2> HIDE DEF x, nonce
  <2>2. Word(x, 4 * h + y) = Hashes(x)[h][y + 1]
    BY <2>1, WordIs
  <2> QED BY <1>1, <2>1, <2>2 DEF PlotWord
<1>3. Scoop(number, s)[j] =
        IF j < HASH_SIZE THEN XorWord(nonce.hashes[2 * s][j + 1], nonce.final[j + 1])
        ELSE XorWord(nonce.hashes[2 * (NumScoops - 1 - s) + 1][(j - HASH_SIZE) + 1],
                     nonce.final[(j - HASH_SIZE) + 1])
  BY DEF Scoop
<1> HIDE DEF nonce, x
<1>4. CASE j < HASH_SIZE
  <2>1. 2 * s \in 0 .. NumHashes - 1 /\ j \in 0 .. 3
    BY <1>4, Sizes
  <2> QED BY <1>2, <1>3, <1>4, <2>1 DEF x
<1>5. CASE ~(j < HASH_SIZE)
  <2>1. 2 * (NumScoops - 1 - s) + 1 \in 0 .. NumHashes - 1 /\ j - HASH_SIZE \in 0 .. 3
    BY <1>5, Sizes
  <2> DEFINE h == 2 * (NumScoops - 1 - s) + 1
             y == j - HASH_SIZE
  <2> HIDE DEF h, y
  <2>2. XorWord(nonce.hashes[h][y + 1], nonce.final[y + 1]) = PlotWord(x, 4 * h + y)
    BY <1>2, <2>1 DEF h, y
  <2> QED BY <1>3, <1>5, <2>2 DEF x, h, y
<1> QED BY <1>4, <1>5

(* Every nonce in the cache is, scoop by scoop, the nonce that the definition of *)
(* PoC2 asks for at that slot: the vectors, what is left over from them, the     *)
(* nonces one by one, the launches of the kernel and the shuffle agree, for      *)
(* every size of a vector, launch, cap and cache.                                *)
THEOREM NoncesAreReferenceHolds ==
  Spec => []NoncesAreReference
<1>1. ASSUME GenInv PROVE NoncesAreReference
  <2> SUFFICES ASSUME NEW w \in Hashers, NEW n \in stored[w], NEW s \in 0 .. NumScoops - 1
               PROVE  CacheScoop(task[w].offset + n, s) = Scoop(task[w].start + n, s)
    BY DEF NoncesAreReference
  <2> DEFINE slot == task[w].offset + n
             number == task[w].start + n
  <2>1. n \in Nat /\ slot \in 0 .. CacheSize - 1 /\ number \in Nat
    <3>1. stored[w] \subseteq 0 .. task[w].nonces - 1 /\ task \in Shares
      BY <1>1 DEF GenInv, Tasks
    <3> QED BY <3>1, TaskIs, NonceGenAssumption
  <2>2. ASSUME NEW j \in 0 .. SCOOP_SIZE - 1
        PROVE  cache[(s * CacheSize + slot) * SCOOP_SIZE + j] = Scoop(number, s)[j]
    <3> DEFINE a == (s * CacheSize + slot) * SCOOP_SIZE + j
               h == IF j < HASH_SIZE THEN 2 * s ELSE 2 * (NumScoops - 1 - s) + 1
               y == IF j < HASH_SIZE THEN j ELSE j - HASH_SIZE
    <3>1. a \in CacheAddresses /\ SlotAt(a) = slot /\ HashAt(a) = h /\ a % 4 = y
      <4> HIDE DEF slot
      <4> QED BY <2>1, ScoopWord
    <3>2. Scoop(number, s)[j] = PlotWord(Bswap(number), 4 * h + y)
      <4> HIDE DEF number
      <4> QED BY <2>1, ScoopIs
    <3> HIDE DEF a, h, y
    <3>3. cache[a] = WordOf(w, n, a)
      BY <1>1, <3>1 DEF GenInv, Contents
    <3>4. cache[a] = Scoop(number, s)[j]
      BY <3>1, <3>2, <3>3 DEF WordOf
    <3> QED BY <3>4 DEF a
  <2>3. Scoop(number, s) = [j \in 0 .. SCOOP_SIZE - 1 |-> Scoop(number, s)[j]]
    BY DEF Scoop
  <2>4. CacheScoop(slot, s)
          = [j \in 0 .. SCOOP_SIZE - 1 |-> cache[(s * CacheSize + slot) * SCOOP_SIZE + j]]
    BY DEF CacheScoop
  <2> HIDE DEF slot, number
  <2>5. CacheScoop(slot, s) = Scoop(number, s)
    BY <2>2, <2>3, <2>4
  <2> QED BY <2>5 DEF slot, number
<1>2. GenInv => NoncesAreReference
  BY <1>1
<1> QED BY <1>2, GenInvAlways, PTL

(* No hasher writes to a slot before one of its own nonces is due there: lanes   *)
(* that the task does not need stay out of the cache, whoever else is at work.   *)
THEOREM OtherSlotsUntouchedHolds ==
  Spec => []OtherSlotsUntouched
<1>1. ASSUME GenInv PROVE OtherSlotsUntouched
  <2> SUFFICES ASSUME NEW slot \in (0 .. CacheSize - 1) \ UNION {SlotsOf(w) : w \in Hashers},
                      NEW s \in 0 .. NumScoops - 1, NEW j \in 0 .. SCOOP_SIZE - 1
               PROVE  CacheScoop(slot, s)[j] = Blank
    BY DEF OtherSlotsUntouched
  <2> DEFINE a == (s * CacheSize + slot) * SCOOP_SIZE + j
  <2>1. a \in CacheAddresses /\ SlotAt(a) = slot
    BY ScoopWord
  <2>2. CacheScoop(slot, s)[j] = cache[a]
    BY DEF CacheScoop
  <2> HIDE DEF a
  <2>3. \A w \in Hashers : \A n \in stored[w] : SlotAt(a) # task[w].offset + n
    BY <2>1 DEF SlotsOf
  <2> QED BY <1>1, <2>1, <2>2, <2>3 DEF GenInv, Contents
<1>2. GenInv => OtherSlotsUntouched
  BY <1>1
<1> QED BY <1>2, GenInvAlways, PTL

(* Each launch of the kernel takes up where the previous one stopped: GPU memory *)
(* has the hashes of the launches so far, the final hash is added exactly once,  *)
(* and nothing else is written.                                                  *)
THEOREM LaunchesJoinHolds ==
  Spec => []LaunchesJoin
<1>1. ASSUME GenInv PROVE LaunchesJoin
  <2> SUFFICES ASSUME NEW w \in Hashers, task[w].by = "gpu", NEW g \in 0 .. Worksize - 1,
                      NEW h \in 0 .. NumHashes - 1, NEW j \in 0 .. HASH_SIZE - 1
               PROVE  LET nonce == Reference[(task[w].start + g) % (Base * Base)]
                      IN device[w][Address(g, h, j)] =
                           IF g >= task[w].nonces \/ h < NumHashes - launched[w] THEN Stale
                           ELSE IF launched[w] < NumHashes THEN nonce.hashes[h][j + 1]
                           ELSE XorWord(nonce.hashes[h][j + 1], nonce.final[j + 1])
    BY DEF LaunchesJoin
  <2> DEFINE number == task[w].start + g
             x == Bswap(number)
             nonce == Reference[number % (Base * Base)]
             a == Address(g, h, j)
  <2>1. /\ number \in Nat /\ launched[w] \in 0 .. NumHashes
        /\ device[w] = Image(task[w].start, task[w].nonces, launched[w])
    BY <1>1, TaskIs, NonceGenAssumption DEF GenInv, Tasks, Devices
  <2>2. nonce.hashes = Hashes(x) /\ nonce.final = Final(x)
    <3> HIDE DEF number
    <3> QED BY <2>1, ReferenceIs
  <2>3. a \in GpuAddresses /\ GidAt(a) = g /\ PosAt(a) = 4 * h + j /\ j \in 0 .. 3
    BY GpuAddress, Sizes DEF GpuAddresses
  <2>4. /\ 4 * h + j \in 0 .. NONCE_SIZE - 1 /\ (4 * h + j) \div 4 = h /\ (4 * h + j) % 4 = j
        /\ 4 * h + j < 4 * (NumHashes - launched[w]) <=> h < NumHashes - launched[w]
    BY <2>1, <2>3, Sizes
  <2> HIDE DEF nonce, a, x
  <2>5. Word(x, 4 * h + j) = Hashes(x)[h][j + 1]
    BY <2>4, WordIs
  <2>6. PlotWord(x, 4 * h + j) = XorWord(Hashes(x)[h][j + 1], Final(x)[j + 1])
    BY <2>4, <2>5 DEF PlotWord
  <2>7. device[w][a] = IF g >= task[w].nonces \/ h < NumHashes - launched[w] THEN Stale
                       ELSE IF launched[w] < NumHashes THEN Word(x, 4 * h + j)
                       ELSE PlotWord(x, 4 * h + j)
    BY <2>1, <2>3, <2>4 DEF Image, x
  <2>8. device[w][a] = IF g >= task[w].nonces \/ h < NumHashes - launched[w] THEN Stale
                       ELSE IF launched[w] < NumHashes THEN nonce.hashes[h][j + 1]
                       ELSE XorWord(nonce.hashes[h][j + 1], nonce.final[j + 1])
    BY <2>2, <2>5, <2>6, <2>7
  <2> QED BY <2>8 DEF a, nonce
<1>2. GenInv => LaunchesJoin
  BY <1>1
<1> QED BY <1>2, GenInvAlways, PTL
=============================================================================
