---------------------------- MODULE ShabalProofs ----------------------------
(***************************************************************************)
(* Proofs about the two streaming hashers.                                  *)
(*                                                                          *)
(* ShabalStream: for every length of a block, every message and every way   *)
(* to cut it into pieces, what sph_shabal256 has absorbed and buffered are  *)
(* the bytes it was given (Arriving), and what shabal_close absorbs is the  *)
(* message, its last bits and the mark of its end (DigestOfMessage).        *)
(*                                                                          *)
(* MultiShabal: for every instruction set, every size of digest, all pieces *)
(* and all lanes switched off, a lane of mshabal_* absorbs its own bytes    *)
(* (LanesArriving), close writes their digest (LaneDigests), and the fast   *)
(* functions digest the words of each lane (FastDigests).                   *)
(***************************************************************************)
EXTENDS ShabalStream, MultiShabal, Rounding, FiniteSetTheorems, SequenceTheorems, TLAPS

-----------------------------------------------------------------------------
(* The byte that ends a message.                                           *)

Bit(ub, n, i) == IF i < n THEN BitOf(ub, i) ELSE IF i = n THEN 1 ELSE 0

LEMMA BitTypes ==
  ASSUME NEW ub \in 0 .. 255, NEW n \in 0 .. 7, NEW i \in 0 .. 7
  PROVE  Bit(ub, n, i) \in Nat
<1>1. /\ BitOf(ub, 0) = (ub \div 128) % 2 /\ BitOf(ub, 1) = (ub \div 64) % 2
      /\ BitOf(ub, 2) = (ub \div 32) % 2 /\ BitOf(ub, 3) = (ub \div 16) % 2
      /\ BitOf(ub, 4) = (ub \div 8) % 2 /\ BitOf(ub, 5) = (ub \div 4) % 2
      /\ BitOf(ub, 6) = (ub \div 2) % 2 /\ BitOf(ub, 7) = (ub \div 1) % 2
  BY DEF BitOf
<1>2. i = 0 \/ i = 1 \/ i = 2 \/ i = 3 \/ i = 4 \/ i = 5 \/ i = 6 \/ i = 7
  OBVIOUS
<1>3. BitOf(ub, i) \in Nat
  BY <1>1, <1>2
<1> QED BY <1>3 DEF Bit

LEMMA ByteSum ==
  ASSUME NEW ub \in 0 .. 255, NEW n \in 0 .. 7
  PROVE  EndOfBits(ub, n) =
           128 * Bit(ub, n, 0) + 64 * Bit(ub, n, 1) + 32 * Bit(ub, n, 2) + 16 * Bit(ub, n, 3)
             + 8 * Bit(ub, n, 4) + 4 * Bit(ub, n, 5) + 2 * Bit(ub, n, 6) + Bit(ub, n, 7)
<1> DEFINE bit(i) == Bit(ub, n, i)
           Right(f) == f = [i \in 0 .. 8 |-> IF i = 0 THEN 0 ELSE 2 * f[i - 1] + bit(i - 1)]
           byte == CHOOSE f : Right(f)
<1>1. EndOfBits(ub, n) = byte[8]
  BY DEF EndOfBits, Bit
<1>2. \A i \in 0 .. 7 : bit(i) \in Nat
  BY BitTypes
<1> HIDE DEF bit
<1>3. \E f : Right(f)
  <2> DEFINE b1 == bit(0)
             b2 == 2 * b1 + bit(1)
             b3 == 2 * b2 + bit(2)
             b4 == 2 * b3 + bit(3)
             b5 == 2 * b4 + bit(4)
             b6 == 2 * b5 + bit(5)
             b7 == 2 * b6 + bit(6)
             b8 == 2 * b7 + bit(7)
             f == [i \in 0 .. 8 |->
                     IF i = 0 THEN 0 ELSE IF i = 1 THEN b1 ELSE IF i = 2 THEN b2
                     ELSE IF i = 3 THEN b3 ELSE IF i = 4 THEN b4 ELSE IF i = 5 THEN b5
                     ELSE IF i = 6 THEN b6 ELSE IF i = 7 THEN b7 ELSE b8]
  <2>1. /\ f[0] = 0 /\ f[1] = b1 /\ f[2] = b2 /\ f[3] = b3 /\ f[4] = b4 /\ f[5] = b5
        /\ f[6] = b6 /\ f[7] = b7 /\ f[8] = b8
    <3> HIDE DEF b1, b2, b3, b4, b5, b6, b7, b8
    <3> QED OBVIOUS
  <2>2. \A i \in 0 .. 8 : f[i] = IF i = 0 THEN 0 ELSE 2 * f[i - 1] + bit(i - 1)
    <3>0. b1 = 2 * 0 + bit(0)
      BY <1>2
    <3> HIDE DEF f, b1, b2, b3, b4, b5, b6, b7
    <3>1. SUFFICES ASSUME NEW i \in 0 .. 8
                   PROVE  f[i] = IF i = 0 THEN 0 ELSE 2 * f[i - 1] + bit(i - 1)
      OBVIOUS
    <3>2. i \in {0, 1, 2, 3, 4, 5, 6, 7, 8}
      OBVIOUS
    <3> QED BY <2>1, <3>0, <3>2 DEF b2, b3, b4, b5, b6, b7
  <2>3. f = [i \in 0 .. 8 |-> f[i]]
    OBVIOUS
  <2> HIDE DEF f
  <2>4. Right(f)
    BY <2>2, <2>3
  <2> QED BY <2>4
<1>4. Right(byte)
  BY <1>3
<1> HIDE DEF byte
<1>5. /\ byte[0] = 0
      /\ byte[1] = 2 * byte[0] + bit(0) /\ byte[2] = 2 * byte[1] + bit(1)
      /\ byte[3] = 2 * byte[2] + bit(2) /\ byte[4] = 2 * byte[3] + bit(3)
      /\ byte[5] = 2 * byte[4] + bit(4) /\ byte[6] = 2 * byte[5] + bit(5)
      /\ byte[7] = 2 * byte[6] + bit(6) /\ byte[8] = 2 * byte[7] + bit(7)
  <2>1. \A i \in 0 .. 8 : byte[i] = IF i = 0 THEN 0 ELSE 2 * byte[i - 1] + bit(i - 1)
    BY <1>4
  <2> QED BY <2>1
<1>6. byte[8] = 128 * bit(0) + 64 * bit(1) + 32 * bit(2) + 16 * bit(3)
                  + 8 * bit(4) + 4 * bit(5) + 2 * bit(6) + bit(7)
  <2>0. /\ bit(0) \in Nat /\ bit(1) \in Nat /\ bit(2) \in Nat /\ bit(3) \in Nat
        /\ bit(4) \in Nat /\ bit(5) \in Nat /\ bit(6) \in Nat /\ bit(7) \in Nat
    BY <1>2
  <2>1. byte[1] = bit(0) /\ byte[2] = 2 * bit(0) + bit(1)
    BY <1>5, <2>0
  <2>2. byte[3] = 4 * bit(0) + 2 * bit(1) + bit(2)
    BY <1>5, <2>0, <2>1
  <2>3. byte[4] = 8 * bit(0) + 4 * bit(1) + 2 * bit(2) + bit(3)
    BY <1>5, <2>0, <2>2
  <2>4. byte[5] = 16 * bit(0) + 8 * bit(1) + 4 * bit(2) + 2 * bit(3) + bit(4)
    BY <1>5, <2>0, <2>3
  <2>5. byte[6] = 32 * bit(0) + 16 * bit(1) + 8 * bit(2) + 4 * bit(3) + 2 * bit(4) + bit(5)
    BY <1>5, <2>0, <2>4
  <2>6. byte[7] = 64 * bit(0) + 32 * bit(1) + 16 * bit(2) + 8 * bit(3) + 4 * bit(4)
                    + 2 * bit(5) + bit(6)
    BY <1>5, <2>0, <2>5
  <2> QED BY <1>5, <2>0, <2>6
<1> QED BY <1>1, <1>6 DEF bit

(* Masking from above and setting the mark is the bits one by one. *)
LEMMA MarkIsEnd ==
  ASSUME NEW ub \in 0 .. 255, NEW n \in 0 .. 7
  PROVE  MarkByte(ub, n) = EndOfBits(ub, n) /\ MarkByte(ub, n) \in Nat
<1> DEFINE b(i) == Bit(ub, n, i)
           o(i) == BitOf(ub, i)
           q1 == ub \div 2
           q2 == ub \div 4
           q3 == ub \div 8
           q4 == ub \div 16
           q5 == ub \div 32
           q6 == ub \div 64
           q7 == ub \div 128
<1>1. /\ o(0) = q7 % 2 /\ o(1) = q6 % 2 /\ o(2) = q5 % 2 /\ o(3) = q4 % 2
      /\ o(4) = q3 % 2 /\ o(5) = q2 % 2 /\ o(6) = q1 % 2
  BY DEF BitOf
<1>2. \A i \in 0 .. 7 : b(i) = IF i < n THEN o(i) ELSE IF i = n THEN 1 ELSE 0
  BY DEF Bit
<1>3. EndOfBits(ub, n) = 128 * b(0) + 64 * b(1) + 32 * b(2) + 16 * b(3)
                           + 8 * b(4) + 4 * b(5) + 2 * b(6) + b(7)
  BY ByteSum
<1>4. MarkByte(ub, n) = LET z == 2 ^ (7 - n) IN (ub - (ub % (2 * z))) + z
  BY DEF MarkByte
<1> HIDE DEF b, o
<1>5. /\ q7 \in {0, 1} /\ q7 = q7 % 2 /\ ub - (ub % 256) = 0 /\ ub - (ub % 128) = 128 * q7
      /\ ub - (ub % 64) = 64 * q6 /\ ub - (ub % 32) = 32 * q5 /\ ub - (ub % 16) = 16 * q4
      /\ ub - (ub % 8) = 8 * q3 /\ ub - (ub % 4) = 4 * q2 /\ ub - (ub % 2) = 2 * q1
  OBVIOUS
<1>6. /\ q6 = 2 * q7 + (q6 % 2) /\ q5 = 2 * q6 + (q5 % 2) /\ q4 = 2 * q5 + (q4 % 2)
      /\ q3 = 2 * q4 + (q3 % 2) /\ q2 = 2 * q3 + (q2 % 2) /\ q1 = 2 * q2 + (q1 % 2)
  OBVIOUS
<1>7. /\ q1 \in Nat /\ q2 \in Nat /\ q3 \in Nat /\ q4 \in Nat /\ q5 \in Nat
      /\ q6 \in Nat /\ q7 \in Nat
  OBVIOUS
<1> HIDE DEF q1, q2, q3, q4, q5, q6, q7
<1>8. /\ q7 = o(0) /\ q6 = 2 * q7 + o(1) /\ q5 = 2 * q6 + o(2) /\ q4 = 2 * q5 + o(3)
      /\ q3 = 2 * q4 + o(4) /\ q2 = 2 * q3 + o(5) /\ q1 = 2 * q2 + o(6)
      /\ o(0) \in Nat /\ o(1) \in Nat /\ o(2) \in Nat /\ o(3) \in Nat
      /\ o(4) \in Nat /\ o(5) \in Nat /\ o(6) \in Nat
  BY <1>1, <1>5, <1>6, <1>7
<1>9. CASE n = 0
  <2>1. MarkByte(ub, n) = (ub - (ub % 256)) + 128
    BY <1>4, <1>9
  <2>2. /\ b(0) = 1 /\ b(1) = 0 /\ b(2) = 0 /\ b(3) = 0
        /\ b(4) = 0 /\ b(5) = 0 /\ b(6) = 0 /\ b(7) = 0
    BY <1>2, <1>9
  <2>3. EndOfBits(ub, n) = 128
    BY <1>3, <1>8, <2>2
  <2> QED BY <1>5, <1>7, <1>8, <2>1, <2>3
<1>10. CASE n = 1
  <2>1. MarkByte(ub, n) = (ub - (ub % 128)) + 64
    BY <1>4, <1>10
  <2>2. /\ b(0) = o(0) /\ b(1) = 1 /\ b(2) = 0 /\ b(3) = 0
        /\ b(4) = 0 /\ b(5) = 0 /\ b(6) = 0 /\ b(7) = 0
    BY <1>2, <1>10
  <2>3. EndOfBits(ub, n) = 128 * o(0) + 64
    BY <1>3, <1>8, <2>2
  <2> QED BY <1>5, <1>7, <1>8, <2>1, <2>3
<1>11. CASE n = 2
  <2>1. MarkByte(ub, n) = (ub - (ub % 64)) + 32
    BY <1>4, <1>11
  <2>2. /\ b(0) = o(0) /\ b(1) = o(1) /\ b(2) = 1 /\ b(3) = 0
        /\ b(4) = 0 /\ b(5) = 0 /\ b(6) = 0 /\ b(7) = 0
    BY <1>2, <1>11
  <2>3. EndOfBits(ub, n) = 128 * o(0) + 64 * o(1) + 32
    BY <1>3, <1>8, <2>2
  <2> QED BY <1>5, <1>7, <1>8, <2>1, <2>3
<1>12. CASE n = 3
  <2>1. MarkByte(ub, n) = (ub - (ub % 32)) + 16
    BY <1>4, <1>12
  <2>2. /\ b(0) = o(0) /\ b(1) = o(1) /\ b(2) = o(2) /\ b(3) = 1
        /\ b(4) = 0 /\ b(5) = 0 /\ b(6) = 0 /\ b(7) = 0
    BY <1>2, <1>12
  <2>3. EndOfBits(ub, n) = 128 * o(0) + 64 * o(1) + 32 * o(2) + 16
    BY <1>3, <1>8, <2>2
  <2> QED BY <1>5, <1>7, <1>8, <2>1, <2>3
<1>13. CASE n = 4
  <2>1. MarkByte(ub, n) = (ub - (ub % 16)) + 8
    BY <1>4, <1>13
  <2>2. /\ b(0) = o(0) /\ b(1) = o(1) /\ b(2) = o(2) /\ b(3) = o(3)
        /\ b(4) = 1 /\ b(5) = 0 /\ b(6) = 0 /\ b(7) = 0
    BY <1>2, <1>13
  <2>3. EndOfBits(ub, n) = 128 * o(0) + 64 * o(1) + 32 * o(2) + 16 * o(3) + 8
    BY <1>3, <1>8, <2>2
  <2> QED BY <1>5, <1>7, <1>8, <2>1, <2>3
<1>14. CASE n = 5
  <2>1. MarkByte(ub, n) = (ub - (ub % 8)) + 4
    BY <1>4, <1>14
  <2>2. /\ b(0) = o(0) /\ b(1) = o(1) /\ b(2) = o(2) /\ b(3) = o(3)
        /\ b(4) = o(4) /\ b(5) = 1 /\ b(6) = 0 /\ b(7) = 0
    BY <1>2, <1>14
  <2>3. EndOfBits(ub, n) = 128 * o(0) + 64 * o(1) + 32 * o(2) + 16 * o(3) + 8 * o(4) + 4
    BY <1>3, <1>8, <2>2
  <2> QED BY <1>5, <1>7, <1>8, <2>1, <2>3
<1>15. CASE n = 6
  <2>1. MarkByte(ub, n) = (ub - (ub % 4)) + 2
    BY <1>4, <1>15
  <2>2. /\ b(0) = o(0) /\ b(1) = o(1) /\ b(2) = o(2) /\ b(3) = o(3)
        /\ b(4) = o(4) /\ b(5) = o(5) /\ b(6) = 1 /\ b(7) = 0
    BY <1>2, <1>15
  <2>3. EndOfBits(ub, n) = 128 * o(0) + 64 * o(1) + 32 * o(2) + 16 * o(3) + 8 * o(4) + 4 * o(5) + 2
    BY <1>3, <1>8, <2>2
  <2> QED BY <1>5, <1>7, <1>8, <2>1, <2>3
<1>16. CASE n = 7
  <2>1. MarkByte(ub, n) = (ub - (ub % 2)) + 1
    BY <1>4, <1>16
  <2>2. /\ b(0) = o(0) /\ b(1) = o(1) /\ b(2) = o(2) /\ b(3) = o(3)
        /\ b(4) = o(4) /\ b(5) = o(5) /\ b(6) = o(6) /\ b(7) = 1
    BY <1>2, <1>16
  <2>3. EndOfBits(ub, n) = 128 * o(0) + 64 * o(1) + 32 * o(2) + 16 * o(3) + 8 * o(4) + 4 * o(5) + 2 * o(6) + 1
    BY <1>3, <1>8, <2>2
  <2> QED BY <1>5, <1>7, <1>8, <2>1, <2>3
<1> QED BY <1>9, <1>10, <1>11, <1>12, <1>13, <1>14, <1>15, <1>16

-----------------------------------------------------------------------------
(* Blocks of a text.                                                       *)

Cell == Bytes \cup Nat
Cells == [1 .. BLOCK -> Cell]

\* The first n blocks of a text that has all their bytes.
FullBlocks(text, n) ==
  [k \in 1 .. n |-> [i \in 1 .. BLOCK |-> text[(k - 1) * BLOCK + i]]]

LEMMA Place ==
  ASSUME NEW n \in Nat, NEW k \in 1 .. n, NEW i \in 1 .. BLOCK
  PROVE  (k - 1) * BLOCK + i \in 1 .. n * BLOCK /\ n * BLOCK \in Nat
<1>1. BLOCK \in Nat \ {0}
  BY BlockAssumption
<1> DEFINE a == (k - 1) * BLOCK
           b == (n - k) * BLOCK
<1>2. a \in Nat /\ b \in Nat /\ n * BLOCK = a + BLOCK + b
  <2>1. k - 1 \in Nat /\ n - k \in Nat
    OBVIOUS
  <2> QED BY <1>1, <2>1
<1> HIDE DEF a, b
<1>3. a + i \in 1 .. (a + BLOCK + b) /\ a + BLOCK + b \in Nat
  BY <1>1, <1>2
<1> QED BY <1>2, <1>3 DEF a

LEMMA Quotient ==
  ASSUME NEW a \in Nat
  PROVE  /\ a \div BLOCK \in Nat /\ a % BLOCK \in 0 .. BLOCK - 1
         /\ (a \div BLOCK) * BLOCK \in Nat
         /\ a = (a \div BLOCK) * BLOCK + (a % BLOCK)
<1>1. BLOCK \in Nat \ {0}
  BY BlockAssumption
<1> DEFINE q == a \div BLOCK
           r == a % BLOCK
<1>2. q \in Nat /\ r \in 0 .. BLOCK - 1 /\ a = (BLOCK * q) + r
  <2>1. a \in Int
    OBVIOUS
  <2>2. r \in 0 .. BLOCK - 1 /\ a = (BLOCK * q) + r
    BY <1>1, <2>1, DivMod, Zenon
  <2>3. q \in Nat
    BY <1>1, DivNat, Zenon
  <2> QED BY <2>2, <2>3
<1> HIDE DEF q, r
<1>3. BLOCK * q = q * BLOCK /\ q * BLOCK \in Nat
  BY <1>1, <1>2
<1> QED BY <1>2, <1>3 DEF q, r

LEMMA Composed ==
  ASSUME NEW q \in Nat, NEW r \in 0 .. BLOCK - 1
  PROVE  /\ q * BLOCK + r \in Nat
         /\ (q * BLOCK + r) \div BLOCK = q /\ (q * BLOCK + r) % BLOCK = r
<1>1. BLOCK \in Nat \ {0}
  BY BlockAssumption
<1> DEFINE a == q * BLOCK + r
           p == a \div BLOCK
           s == a % BLOCK
<1>2. a \in Nat /\ q * BLOCK = BLOCK * q
  BY <1>1
<1>3. p \in Int /\ s \in 0 .. BLOCK - 1 /\ a = (BLOCK * p) + s
  BY <1>1, <1>2, DivMod
<1>4. BLOCK * q + r = BLOCK * p + s /\ q \in Int
  BY <1>2, <1>3
<1> HIDE DEF p, s
<1>5. q = p /\ r = s
  BY <1>1, <1>3, <1>4, Unique
<1> QED BY <1>2, <1>5 DEF p, s

LEMMA BlocksAreFull ==
  ASSUME NEW S, NEW text \in Seq(S), NEW g \in 0 .. Len(text), NEW n \in Nat,
         n * BLOCK <= g
  PROVE  Blocks(SubSeq(text, 1, g), n) = FullBlocks(text, n)
<1> DEFINE t == SubSeq(text, 1, g)
<1>1. DOMAIN t = 1 .. g /\ \A i \in 1 .. g : t[i] = text[i]
  OBVIOUS
<1> HIDE DEF t
<1>2. \A k \in 1 .. n : \A i \in 1 .. BLOCK :
        (k - 1) * BLOCK + i \in DOMAIN t
          /\ t[(k - 1) * BLOCK + i] = text[(k - 1) * BLOCK + i]
  <2>1. SUFFICES ASSUME NEW k \in 1 .. n, NEW i \in 1 .. BLOCK
                 PROVE  (k - 1) * BLOCK + i \in 1 .. g
    BY <1>1
  <2> DEFINE a == (k - 1) * BLOCK + i
             b == n * BLOCK
  <2>2. a \in 1 .. b /\ b \in Nat
    BY Place
  <2>3. b <= g
    OBVIOUS
  <2> HIDE DEF a, b
  <2>4. a \in 1 .. g
    BY <2>2, <2>3
  <2> QED BY <2>4 DEF a
<1> QED BY <1>2 DEF Blocks, Block, FullBlocks, t

LEMMA LongerText ==
  ASSUME NEW S, NEW text \in Seq(S), NEW more \in Seq(S), NEW n \in Nat,
         n * BLOCK <= Len(text)
  PROVE  FullBlocks(text \o more, n) = FullBlocks(text, n)
<1> DEFINE t == text \o more
<1>1. \A i \in 1 .. Len(text) : t[i] = text[i]
  OBVIOUS
<1> HIDE DEF t
<1>2. \A k \in 1 .. n : \A i \in 1 .. BLOCK :
        t[(k - 1) * BLOCK + i] = text[(k - 1) * BLOCK + i]
  <2>1. SUFFICES ASSUME NEW k \in 1 .. n, NEW i \in 1 .. BLOCK
                 PROVE  (k - 1) * BLOCK + i \in 1 .. Len(text)
    BY <1>1
  <2> DEFINE a == (k - 1) * BLOCK + i
             b == n * BLOCK
  <2>2. a \in 1 .. b /\ b \in Nat
    BY Place
  <2>3. b <= Len(text) /\ Len(text) \in Nat
    OBVIOUS
  <2> HIDE DEF a, b
  <2>4. a \in 1 .. Len(text)
    BY <2>2, <2>3
  <2> QED BY <2>4 DEF a
<1> QED BY <1>2 DEF FullBlocks, t

(* One block more. *)
LEMMA NextBlock ==
  ASSUME NEW text, NEW f \in Nat, NEW absorbed \in Seq(Cells), NEW buf \in Cells,
         absorbed = FullBlocks(text, f),
         \A i \in 1 .. BLOCK : buf[i] = text[f * BLOCK + i]
  PROVE  Append(absorbed, buf) = FullBlocks(text, f + 1)
<1>1. /\ DOMAIN absorbed = 1 .. f
      /\ \A k \in 1 .. f : absorbed[k] = [i \in 1 .. BLOCK |-> text[(k - 1) * BLOCK + i]]
  BY DEF FullBlocks
<1>2. Len(absorbed) = f
  BY <1>1
<1> DEFINE a == Append(absorbed, buf)
<1>3. /\ a \in Seq(Cells) /\ Len(a) = f + 1
      /\ \A k \in 1 .. f : a[k] = absorbed[k]
      /\ a[f + 1] = buf
  BY <1>2
<1>4. buf = [i \in 1 .. BLOCK |-> text[f * BLOCK + i]]
  BY DEF Cells
<1> HIDE DEF a
<1>5. \A k \in 1 .. f + 1 : a[k] = [i \in 1 .. BLOCK |-> text[(k - 1) * BLOCK + i]]
  <2>1. SUFFICES ASSUME NEW k \in 1 .. f + 1
                 PROVE  a[k] = [i \in 1 .. BLOCK |-> text[(k - 1) * BLOCK + i]]
    OBVIOUS
  <2>2. CASE k = f + 1
    <3>1. k - 1 = f
      BY <2>2
    <3> QED BY <1>3, <1>4, <2>2, <3>1
  <2>3. CASE k \in 1 .. f
    BY <1>1, <1>3, <2>3
  <2> QED BY <2>2, <2>3
<1>6. a = [k \in 1 .. f + 1 |-> a[k]]
  BY <1>3
<1> QED BY <1>5, <1>6 DEF FullBlocks, a

(* The first p of some bytes are those of the text behind place b. *)
Same(some, p, text, b) == \A i \in 1 .. p : some[i] = text[b + i]

(* A piece goes behind what is in the buffer. *)
LEMMA Filled ==
  ASSUME NEW text, NEW b \in Nat, NEW p \in 0 .. BLOCK - 1, NEW buf \in Cells,
         NEW piece \in Seq(Bytes), p + Len(piece) <= BLOCK,
         Same(buf, p, text, b), Same(piece, Len(piece), text, b + p)
  PROVE  Overwrite(buf, p, piece) \in Cells
         /\ Same(Overwrite(buf, p, piece), p + Len(piece), text, b)
<1>1. BLOCK \in Nat \ {0} /\ Len(piece) \in Nat /\ DOMAIN piece = 1 .. Len(piece)
  BY BlockAssumption
<1>2. \A i \in 1 .. Len(piece) : piece[i] \in Cell
  BY DEF Cell
<1>3. Overwrite(buf, p, piece) \in Cells
  BY <1>1, <1>2 DEF Overwrite, Cells
<1>4. ASSUME NEW i \in 1 .. p + Len(piece)
      PROVE  Overwrite(buf, p, piece)[i] = text[b + i]
  <2>1. i \in 1 .. BLOCK /\ p \in Nat
    BY <1>1
  <2>2. CASE i <= p
    <3>1. i \in 1 .. p /\ i - p \notin 1 .. Len(piece)
      BY <1>1, <2>1, <2>2
    <3> QED BY <1>1, <2>1, <3>1 DEF Overwrite, Same
  <2>3. CASE i > p
    <3>1. i - p \in 1 .. Len(piece) /\ b + p + (i - p) = b + i
      BY <1>1, <2>1, <2>3
    <3> QED BY <1>1, <2>1, <3>1 DEF Overwrite, Same
  <2> QED BY <2>1, <2>2, <2>3
<1> QED BY <1>3, <1>4 DEF Same

-----------------------------------------------------------------------------
(* The inductive invariant.                                                *)

Context == [buf : Cells, ptr : 0 .. BLOCK - 1, absorbed : Seq(Cells)]
CallType == [running : BOOLEAN, data : Seq(Bytes), ptr : 0 .. BLOCK - 1, absorbed : Seq(Cells)]

Types ==
  /\ sc \in Context
  /\ call \in CallType
  /\ message \in Seq(Bytes)
  /\ digest \in Seq(Cells)

\* What is left of the data is the end of the message.
Left ==
  /\ digest # <<>> => ~call.running
  /\ ~call.running => call.data = <<>>
  /\ Len(call.data) <= Len(message)
  /\ \A i \in 1 .. Len(call.data) : call.data[i] = message[Len(message) - Len(call.data) + i]

\* The context that counts, and the bytes it has taken: whole blocks and a rest.
Now == IF call.running THEN call ELSE sc
Given == Len(message) - Len(call.data)
Full == Given \div BLOCK

Taken ==
  digest = <<>> =>
    /\ Now.absorbed = FullBlocks(message, Full)
    /\ Now.ptr = Given % BLOCK
    /\ \A i \in 1 .. Now.ptr : sc.buf[i] = message[Full * BLOCK + i]

IInv == Types /\ Left /\ Taken /\ DigestOfMessage

LEMMA GivenSplit ==
  ASSUME IInv
  PROVE  /\ Given \in Nat /\ Full \in Nat /\ Full * BLOCK \in Nat
         /\ digest = <<>> => Given = Full * BLOCK + Now.ptr
         /\ Now.ptr \in 0 .. BLOCK - 1 /\ Now.absorbed \in Seq(Cells)
         /\ BLOCK \in Nat \ {0}
<1>1. Len(message) \in Nat /\ Len(call.data) \in Nat /\ Len(call.data) <= Len(message)
  BY DEF IInv, Types, Left, CallType
<1>2. Given \in Nat
  BY <1>1 DEF Given
<1>3. /\ Full \in Nat /\ Full * BLOCK \in Nat
      /\ Given = Full * BLOCK + (Given % BLOCK)
  BY <1>2, Quotient DEF Full
<1> QED BY <1>2, <1>3, BlockAssumption DEF IInv, Types, Context, CallType, Now, Taken

LEMMA InitInv == Init => IInv
<1> SUFFICES ASSUME Init PROVE IInv
  OBVIOUS
<1>1. BLOCK \in Nat \ {0}
  BY BlockAssumption
<1>2. /\ sc = FreshContext /\ call = Idle /\ message = <<>> /\ digest = <<>>
  BY DEF Init
<1>3. FreshContext \in Context /\ Idle \in CallType
  BY <1>1 DEF FreshContext, Idle, Context, CallType, Cells, Cell
<1>4. Types
  BY <1>2, <1>3 DEF Types
<1>5. Left
  BY <1>2 DEF Left, Idle
<1>6. Now.absorbed = <<>> /\ Now.ptr = 0 /\ Given = 0
  BY <1>2 DEF Now, Given, Idle, FreshContext
<1>7. Taken
  <2>1. 0 * BLOCK + 0 = 0 /\ 0 \in 0 .. BLOCK - 1
    BY <1>1
  <2>2. Full = 0 /\ Given % BLOCK = 0
    BY <1>6, <2>1, Composed DEF Full
  <2>3. FullBlocks(message, 0) = <<>>
    BY DEF FullBlocks
  <2> QED BY <1>6, <2>2, <2>3 DEF Taken
<1>8. DigestOfMessage
  BY <1>2 DEF DigestOfMessage
<1> QED BY <1>4, <1>5, <1>7, <1>8 DEF IInv

(* Once more bytes than fit into what is left of the block come, or fewer:  *)
(* the message grows behind what was given.                                *)
LEMMA Grown ==
  ASSUME IInv, digest = <<>>, ~call.running, NEW data \in Seq(Bytes),
         message' = message \o data
  PROVE  /\ message' \in Seq(Bytes) /\ Len(message') = Len(message) + Len(data)
         /\ Given = Len(message) /\ Len(message) \in Nat /\ Len(data) \in Nat
         /\ FullBlocks(message', Full) = FullBlocks(message, Full)
         /\ \A i \in 1 .. sc.ptr : sc.buf[i] = message'[Full * BLOCK + i]
         /\ \A i \in 1 .. Len(data) : data[i] = message'[Len(message) + i]
<1>1. message \in Seq(Bytes) /\ call.data = <<>> /\ Now = sc
  BY DEF IInv, Types, Left, Now
<1>2. Len(message) \in Nat /\ Len(data) \in Nat /\ Given = Len(message)
  BY <1>1 DEF Given
<1> DEFINE m == message
           b == Full * BLOCK
<1>3. /\ m \o data \in Seq(Bytes) /\ Len(m \o data) = Len(m) + Len(data)
      /\ \A i \in 1 .. Len(m) : (m \o data)[i] = m[i]
      /\ \A i \in 1 .. Len(data) : (m \o data)[Len(m) + i] = data[i]
  BY <1>1
<1>4. b \in Nat /\ Len(m) = b + sc.ptr /\ sc.ptr \in Nat /\ b <= Len(m)
  BY <1>1, <1>2, GivenSplit
<1>5. FullBlocks(m \o data, Full) = FullBlocks(m, Full)
  BY <1>1, <1>4, LongerText, GivenSplit
<1>6. \A i \in 1 .. sc.ptr : sc.buf[i] = message[b + i] /\ b + i \in 1 .. Len(m)
  <2>1. \A i \in 1 .. sc.ptr : sc.buf[i] = message[b + i]
    BY <1>1 DEF IInv, Taken
  <2> HIDE DEF b, m
  <2> QED BY <1>4, <2>1
<1> HIDE DEF b
<1> QED BY <1>2, <1>3, <1>5, <1>6 DEF b

LEMMA ShortInv ==
  ASSUME IInv, NEW data \in Seq(Bytes), UpdateShort(data)
  PROVE  IInv'
<1>1. /\ digest = <<>> /\ ~call.running /\ Len(data) < BLOCK - sc.ptr
      /\ message' = message \o data /\ call' = call /\ digest' = digest
      /\ sc' = [sc EXCEPT !.buf = Overwrite(sc.buf, sc.ptr, data), !.ptr = sc.ptr + Len(data)]
  BY DEF UpdateShort, MayUpdate
<1>2. /\ message' \in Seq(Bytes) /\ Len(message') = Len(message) + Len(data)
      /\ Given = Len(message) /\ Len(message) \in Nat /\ Len(data) \in Nat
      /\ FullBlocks(message', Full) = FullBlocks(message, Full)
      /\ \A i \in 1 .. sc.ptr : sc.buf[i] = message'[Full * BLOCK + i]
      /\ \A i \in 1 .. Len(data) : data[i] = message'[Len(message) + i]
  BY <1>1, Grown
<1>3. /\ Now = sc /\ Now' = sc' /\ call.data = <<>> /\ sc \in Context
      /\ Full \in Nat /\ Full * BLOCK \in Nat /\ BLOCK \in Nat \ {0}
      /\ Given = Full * BLOCK + sc.ptr /\ sc.ptr \in 0 .. BLOCK - 1 /\ sc.buf \in Cells
  BY <1>1, GivenSplit DEF Now, IInv, Left, Types, Context
<1> DEFINE b == Full * BLOCK
           n == Len(data)
           buf == Overwrite(sc.buf, sc.ptr, data)
<1>4. /\ sc.ptr + n \in 0 .. BLOCK - 1 /\ sc.ptr + n <= BLOCK /\ n \in Nat
  <2>1. sc.ptr \in 0 .. BLOCK - 1 /\ n < BLOCK - sc.ptr /\ n \in Nat /\ BLOCK \in Nat
    BY <1>1, <1>2, <1>3
  <2> HIDE DEF b, n
  <2> QED BY <2>1
<1>5. /\ buf \in Cells
      /\ \A i \in 1 .. sc.ptr + n : buf[i] = message'[b + i]
  <2>1. /\ b \in Nat /\ sc.ptr \in 0 .. BLOCK - 1 /\ sc.buf \in Cells
        /\ sc.ptr + Len(data) <= BLOCK
        /\ \A i \in 1 .. sc.ptr : sc.buf[i] = message'[b + i]
        /\ \A i \in 1 .. Len(data) : data[i] = message'[b + sc.ptr + i]
    BY <1>2, <1>3, <1>4
  <2> DEFINE text == message'
             p == sc.ptr
             old == sc.buf
  <2>2. /\ b \in Nat /\ p \in 0 .. BLOCK - 1 /\ old \in Cells /\ data \in Seq(Bytes)
        /\ p + Len(data) <= BLOCK
        /\ Same(old, p, text, b) /\ Same(data, Len(data), text, b + p)
    BY <2>1 DEF Same
  <2> HIDE DEF b, text, p, old
  <2>3. Overwrite(old, p, data) \in Cells /\ Same(Overwrite(old, p, data), p + Len(data), text, b)
    BY <2>2, Filled
  <2> QED BY <2>3 DEF b, text, p, old, Same
<1> HIDE DEF buf
<1>6. sc' \in Context /\ sc'.buf = buf /\ sc'.ptr = sc.ptr + n /\ sc'.absorbed = sc.absorbed
  <2> DEFINE p == sc.ptr + n
  <2>1. sc' = [sc EXCEPT !.buf = buf, !.ptr = p] /\ p \in 0 .. BLOCK - 1
    BY <1>1, <1>4 DEF buf
  <2> HIDE DEF p
  <2>2. sc' \in Context /\ sc'.buf = buf /\ sc'.ptr = p /\ sc'.absorbed = sc.absorbed
    BY <1>3, <1>5, <2>1 DEF Context
  <2> QED BY <2>2 DEF p
<1>7. Given' = b + (sc.ptr + n)
  <2>1. Given' = Len(message')
    BY <1>1, <1>2, <1>3 DEF Given
  <2> DEFINE q == sc.ptr
  <2>a. Given' = Len(message) + n
    BY <1>2, <2>1
  <2>b. Len(message) = b + q
    BY <1>2, <1>3
  <2>2. b \in Nat /\ q \in Nat /\ n \in Nat /\ Given' = (b + q) + n
    BY <1>3, <1>4, <2>a, <2>b
  <2> HIDE DEF b, n, q
  <2>3. Given' = b + (q + n)
    BY <2>2
  <2> QED BY <2>3 DEF q
<1>8. Full' = Full /\ Given' % BLOCK = sc.ptr + n
  BY <1>3, <1>4, <1>7, Composed DEF Full
<1>9. Taken'
  <2>1. sc.absorbed = FullBlocks(message, Full)
    BY <1>1, <1>3 DEF IInv, Taken
  <2> QED BY <1>2, <1>3, <1>5, <1>6, <1>8, <2>1 DEF Taken
<1>10. Types'
  BY <1>1, <1>2, <1>6 DEF IInv, Types
<1>11. Left'
  BY <1>1, <1>2, <1>3 DEF IInv, Left
<1> QED BY <1>1, <1>9, <1>10, <1>11 DEF IInv, DigestOfMessage

LEMMA LongInv ==
  ASSUME IInv, NEW data \in Seq(Bytes), UpdateLong(data)
  PROVE  IInv'
<1>1. /\ digest = <<>> /\ ~call.running
      /\ message' = message \o data /\ sc' = sc /\ digest' = digest
      /\ call' = [running |-> TRUE, data |-> data, ptr |-> sc.ptr, absorbed |-> sc.absorbed]
  BY DEF UpdateLong, MayUpdate
<1>2. /\ message' \in Seq(Bytes) /\ Len(message') = Len(message) + Len(data)
      /\ Given = Len(message) /\ Len(message) \in Nat /\ Len(data) \in Nat
      /\ FullBlocks(message', Full) = FullBlocks(message, Full)
      /\ \A i \in 1 .. sc.ptr : sc.buf[i] = message'[Full * BLOCK + i]
      /\ \A i \in 1 .. Len(data) : data[i] = message'[Len(message) + i]
  BY <1>1, Grown
<1>3. /\ call' \in CallType /\ call'.running /\ call'.data = data
      /\ call'.ptr = sc.ptr /\ call'.absorbed = sc.absorbed
  BY <1>1 DEF IInv, Types, Context, CallType
<1>4. Len(message') - Len(data) = Len(message)
  BY <1>2
<1>5. Now = sc /\ Now' = call' /\ Given' = Given
  BY <1>1, <1>2, <1>3, <1>4 DEF Now, Given
<1>6. Full' = Full
  BY <1>5 DEF Full
<1>7. Types'
  BY <1>1, <1>2, <1>3 DEF IInv, Types
<1>8. Left'
  BY <1>1, <1>2, <1>3, <1>4 DEF Left
<1>9. Taken'
  BY <1>1, <1>2, <1>3, <1>5, <1>6 DEF IInv, Taken
<1> QED BY <1>1, <1>7, <1>8, <1>9 DEF IInv, DigestOfMessage

(* What is left of a sequence behind its first c elements. *)
LEMMA BehindFilled ==
  ASSUME NEW d \in Seq(Bytes), NEW c \in Nat, c <= Len(d)
  PROVE  LET rest == SubSeq(d, c + 1, Len(d))
         IN /\ rest \in Seq(Bytes) /\ Len(rest) = Len(d) - c
            /\ \A i \in 1 .. Len(d) - c : rest[i] = d[c + i]
<1> DEFINE n == Len(d)
           m == c + 1
           rest == SubSeq(d, m, n)
<1>1. n \in Nat /\ m \in Nat /\ (\A i \in m .. n : d[i] \in Bytes)
  OBVIOUS
<1>2. n - m + 1 = n - c /\ (IF m <= n THEN n - m + 1 ELSE 0) = n - c
  OBVIOUS
<1>3. \A i \in Int : m + i - 1 = c + i
  OBVIOUS
<1> HIDE DEF n, m
<1>4. m \in Int /\ n \in Int
  BY <1>1
<1>5. rest \in Seq(Bytes)
  BY <1>1, <1>4, SubSeqProperties
<1>6. Len(rest) = n - c
  <2>1. Len(rest) = IF m <= n THEN n - m + 1 ELSE 0
    BY <1>1, <1>4, SubSeqProperties
  <2> QED BY <1>2, <2>1
<1>7. \A i \in 1 .. n - c : rest[i] = d[c + i]
  <2>1. \A i \in 1 .. n - m + 1 : rest[i] = d[m + i - 1]
    BY <1>1, <1>4, SubSeqProperties
  <2>2. SUFFICES ASSUME NEW i \in 1 .. n - c
                 PROVE  rest[i] = d[c + i]
    OBVIOUS
  <2>3. i \in 1 .. n - m + 1 /\ m + i - 1 = c + i
    BY <1>2, <1>3
  <2> QED BY <2>1, <2>3
<1> QED BY <1>5, <1>6, <1>7 DEF rest, n, m

(* The pass takes a piece that is not longer than what is left of the block *)
(* and leaves the rest of the data.                                        *)
LEMMA Piece ==
  ASSUME IInv, FillBuffer
  PROVE  LET piece == SubSeq(call.data, 1, Clen)
             rest == SubSeq(call.data, Clen + 1, Len(call.data))
         IN /\ Clen \in Nat /\ Clen <= Len(call.data) /\ call.ptr + Clen <= BLOCK
            /\ Len(call.data) \in Nat
            /\ piece \in Seq(Bytes) /\ Len(piece) = Clen
            /\ \A i \in 1 .. Clen : piece[i] = message[Given + i]
            /\ rest \in Seq(Bytes) /\ Len(rest) = Len(call.data) - Clen
            /\ \A i \in 1 .. Len(rest) : rest[i] = message[Given + Clen + i]
<1> DEFINE d == call.data
           n == Len(d)
           c == Clen
           g == Given
<1>1. /\ d \in Seq(Bytes) /\ n \in Nat /\ call.ptr \in 0 .. BLOCK - 1 /\ BLOCK \in Nat \ {0}
      /\ \A i \in 1 .. n : d[i] = message[g + i]
      /\ c = (IF n < BLOCK - call.ptr THEN n ELSE BLOCK - call.ptr) /\ g \in Nat
  BY BlockAssumption, GivenSplit DEF IInv, Types, CallType, Left, Given, Clen
<1> HIDE DEF d, n, c, g
<1>2. c \in Nat /\ c <= n /\ call.ptr + c <= BLOCK
  <2>1. n \in Nat /\ call.ptr \in 0 .. BLOCK - 1 /\ BLOCK \in Nat
        /\ c = (IF n < BLOCK - call.ptr THEN n ELSE BLOCK - call.ptr)
    BY <1>1
  <2> QED BY <2>1
<1>3. n = Len(d)
  BY DEF n
<1> DEFINE piece == SubSeq(d, 1, c)
           rest == SubSeq(d, c + 1, n)
<1>4. /\ piece \in Seq(Bytes) /\ Len(piece) = c
      /\ \A i \in 1 .. c : piece[i] = d[i]
  <2>1. d \in Seq(Bytes) /\ c \in 0 .. Len(d)
    BY <1>1, <1>2, <1>3
  <2> QED BY <2>1
<1>5. /\ rest \in Seq(Bytes) /\ Len(rest) = n - c
      /\ \A i \in 1 .. n - c : rest[i] = d[c + i]
  BY <1>1, <1>2, <1>3, BehindFilled
<1> HIDE DEF piece, rest
<1>6. \A i \in 1 .. c : i \in 1 .. n
  BY <1>1, <1>2
<1>7. \A i \in 1 .. n - c : c + i \in 1 .. n /\ g + (c + i) = g + c + i
  <2>1. n \in Nat /\ c \in Nat /\ g \in Nat
    BY <1>1, <1>2
  <2> QED BY <2>1
<1>8. \A i \in 1 .. c : piece[i] = message[g + i]
  BY <1>1, <1>4, <1>6
<1>9. \A i \in 1 .. Len(rest) : rest[i] = message[g + c + i]
  <2>1. SUFFICES ASSUME NEW i \in 1 .. n - c PROVE rest[i] = message[g + c + i]
    BY <1>5
  <2>2. rest[i] = d[c + i]
    BY <1>5
  <2>3. c + i \in 1 .. n /\ g + (c + i) = g + c + i
    BY <1>7
  <2>4. d[c + i] = message[g + (c + i)]
    BY <1>1, <2>3
  <2> QED BY <2>2, <2>3, <2>4
<1> QED BY <1>1, <1>2, <1>4, <1>5, <1>8, <1>9 DEF piece, rest, d, n, c, g

LEMMA FillInv ==
  ASSUME IInv, FillBuffer
  PROVE  IInv'
<1> DEFINE d == call.data
           c == Clen
           g == Given
           b == Full * BLOCK
           p == call.ptr
           n == Len(d)
           m == Len(message)
           piece == SubSeq(d, 1, c)
           rest == SubSeq(d, c + 1, Len(d))
           buf == Overwrite(sc.buf, p, piece)
<1>1. /\ call.running /\ message' = message /\ digest' = digest
      /\ sc' = [sc EXCEPT !.buf = buf]
      /\ call' = [running |-> TRUE, data |-> rest,
                  ptr |-> IF p + c = BLOCK THEN 0 ELSE p + c,
                  absorbed |-> IF p + c = BLOCK THEN Append(call.absorbed, buf)
                               ELSE call.absorbed]
  BY DEF FillBuffer
<1>2. /\ c \in Nat /\ c <= Len(d) /\ p + c <= BLOCK /\ Len(d) \in Nat
      /\ piece \in Seq(Bytes) /\ Len(piece) = c
      /\ \A i \in 1 .. c : piece[i] = message[g + i]
      /\ rest \in Seq(Bytes) /\ Len(rest) = Len(d) - c
      /\ \A i \in 1 .. Len(rest) : rest[i] = message[g + c + i]
  BY Piece
<1>3. digest = <<>> /\ Now = call /\ sc \in Context /\ call \in CallType
      /\ message \in Seq(Bytes) /\ Len(message) \in Nat /\ Len(d) <= Len(message)
  BY <1>1 DEF IInv, Left, Now, Types
<1>4. /\ Full \in Nat /\ b \in Nat /\ g = b + p /\ p \in 0 .. BLOCK - 1
      /\ BLOCK \in Nat \ {0} /\ g = Len(message) - Len(d) /\ g \in Nat
  BY <1>3, GivenSplit DEF Given
<1>5. sc.buf \in Cells /\ call.absorbed \in Seq(Cells)
  BY <1>3 DEF Context, CallType
<1>6. /\ call.absorbed = FullBlocks(message, Full)
      /\ Same(sc.buf, p, message, b)
  BY <1>3 DEF IInv, Taken, Same
<1> HIDE DEF c, g, p, b, n, m, piece, rest
<1>a. /\ c \in Nat /\ n \in Nat /\ m \in Nat /\ c <= n /\ n <= m /\ p \in Nat /\ b \in Nat
      /\ BLOCK \in Nat \ {0} /\ p + c <= BLOCK /\ g = m - n /\ g = b + p
  <2>1. c \in Nat /\ p + c <= BLOCK
    BY <1>2
  <2>2. n \in Nat /\ c <= n
    BY <1>2 DEF n
  <2>3. m \in Nat /\ n <= m
    BY <1>3 DEF n, m
  <2>4. g = m - n
    BY <1>4 DEF n, m
  <2>5. p \in Nat /\ b \in Nat /\ BLOCK \in Nat \ {0} /\ g = b + p
    BY <1>4
  <2> QED BY <2>1, <2>2, <2>3, <2>4, <2>5
<1>b. /\ (IF p + c = BLOCK THEN 0 ELSE p + c) \in 0 .. BLOCK - 1
      /\ g + c = b + (p + c) /\ g + c \in Nat
      /\ m - (n - c) = g + c /\ n - c <= m
  BY <1>a
<1>7. buf \in Cells /\ Same(buf, p + c, message, b)
  <2>1. Same(piece, Len(piece), message, b + p)
    BY <1>2, <1>4 DEF Same
  <2>2. p + Len(piece) <= BLOCK /\ p + Len(piece) = p + c
    BY <1>2
  <2>3. buf \in Cells /\ Same(buf, p + Len(piece), message, b)
    BY <1>2, <1>4, <1>5, <1>6, <2>1, <2>2, Filled
  <2> QED BY <2>2, <2>3
<1> HIDE DEF buf, d
<1>8. sc' \in Context /\ sc'.buf = buf
  BY <1>1, <1>3, <1>7 DEF Context
<1>9. /\ call'.running /\ call'.data = rest
      /\ call'.ptr = (IF p + c = BLOCK THEN 0 ELSE p + c)
      /\ call'.absorbed = (IF p + c = BLOCK THEN Append(call.absorbed, buf) ELSE call.absorbed)
      /\ Now' = call'
  BY <1>1 DEF Now
<1>10. call' \in CallType
  <2>1. call'.ptr \in 0 .. BLOCK - 1
    BY <1>9, <1>b
  <2>2. call'.absorbed \in Seq(Cells)
    BY <1>5, <1>7, <1>9
  <2> QED BY <1>1, <1>2, <1>9, <2>1, <2>2 DEF CallType
<1>11. Given' = g + c /\ g + c = b + (p + c) /\ g + c \in Nat
  <2>1. Given' = m - (n - c)
    BY <1>1, <1>2, <1>9 DEF Given, m, n
  <2> QED BY <2>1, <1>b
<1>12. Types'
  BY <1>1, <1>3, <1>8, <1>10 DEF IInv, Types
<1>13. Left'
  <2>1. Len(message) - Len(rest) = g + c /\ Len(rest) <= Len(message)
    BY <1>2, <1>b DEF m, n
  <2>2. Len(message') - Len(call'.data) = g + c /\ Len(call'.data) <= Len(message')
    BY <1>1, <1>9, <2>1
  <2>3. \A i \in 1 .. Len(call'.data) :
          call'.data[i] = message'[Len(message') - Len(call'.data) + i]
    BY <1>1, <1>2, <1>9, <2>2
  <2> QED BY <1>1, <1>3, <1>9, <2>2, <2>3 DEF Left
<1>14. CASE p + c = BLOCK
  <2>1. Append(call.absorbed, buf) = FullBlocks(message, Full + 1)
    <3>1. \A i \in 1 .. BLOCK : buf[i] = message[Full * BLOCK + i]
      BY <1>7, <1>14 DEF Same, b
    <3> QED BY <1>4, <1>5, <1>6, <1>7, <3>1, NextBlock
  <2>2. Given' = (Full + 1) * BLOCK + 0 /\ Full + 1 \in Nat /\ 0 \in 0 .. BLOCK - 1
    <3> DEFINE e == (Full + 1) * BLOCK
    <3>1. e = b + BLOCK /\ e \in Nat
      BY <1>4 DEF b
    <3> HIDE DEF e
    <3>2. Given' = e + 0
      BY <1>4, <1>11, <1>14, <3>1
    <3> QED BY <1>4, <3>2 DEF e
  <2>3. Full' = Full + 1 /\ Given' % BLOCK = 0
    BY <2>2, Composed DEF Full
  <2>4. Now'.absorbed = FullBlocks(message', Full') /\ Now'.ptr = Given' % BLOCK /\ Now'.ptr = 0
    BY <1>1, <1>9, <1>14, <2>1, <2>3
  <2>5. Taken'
    BY <2>4 DEF Taken
  <2> QED BY <1>1, <1>3, <1>12, <1>13, <2>5 DEF IInv, DigestOfMessage
<1>15. CASE p + c # BLOCK
  <2>1. p + c \in 0 .. BLOCK - 1
    BY <1>2, <1>4, <1>15
  <2>2. Given' = Full * BLOCK + (p + c)
    BY <1>11 DEF b
  <2>3. Full' = Full /\ Given' % BLOCK = p + c
    BY <1>4, <2>1, <2>2, Composed DEF Full
  <2>4. Now'.absorbed = FullBlocks(message', Full') /\ Now'.ptr = Given' % BLOCK
    BY <1>1, <1>6, <1>9, <1>15, <2>3
  <2>5. \A i \in 1 .. Now'.ptr : sc'.buf[i] = message'[Full' * BLOCK + i]
    BY <1>1, <1>7, <1>8, <2>3, <2>4 DEF Same, b
  <2>6. Taken'
    BY <2>4, <2>5 DEF Taken
  <2> QED BY <1>1, <1>3, <1>12, <1>13, <2>6 DEF IInv, DigestOfMessage
<1> QED BY <1>14, <1>15

LEMMA ReturnInv ==
  ASSUME IInv, UpdateReturns
  PROVE  IInv'
<1>1. /\ call.running /\ call.data = <<>> /\ message' = message /\ digest' = digest
      /\ sc' = [sc EXCEPT !.ptr = call.ptr, !.absorbed = call.absorbed]
      /\ call' = Idle
  BY DEF UpdateReturns
<1>2. /\ sc \in Context /\ call \in CallType /\ Now = call
  BY <1>1 DEF IInv, Types, Now
<1>3. /\ sc' \in Context /\ sc'.buf = sc.buf /\ sc'.ptr = call.ptr
      /\ sc'.absorbed = call.absorbed
  BY <1>1, <1>2 DEF Context, CallType
<1>4. Idle \in CallType /\ ~Idle.running /\ Idle.data = <<>>
  BY BlockAssumption DEF Idle, CallType
<1>5. Now' = sc' /\ Given' = Given
  BY <1>1, <1>4 DEF Now, Given
<1>6. Full' = Full
  BY <1>5 DEF Full
<1>7. Types'
  BY <1>1, <1>3, <1>4 DEF IInv, Types
<1>8. Left'
  BY <1>1, <1>4 DEF IInv, Left
<1>9. Taken'
  BY <1>1, <1>2, <1>3, <1>5, <1>6 DEF IInv, Taken
<1>10. digest' = <<>>
  BY <1>1 DEF IInv, Left
<1> QED BY <1>7, <1>8, <1>9, <1>10 DEF IInv, DigestOfMessage

(* The last block is the rest, the mark and zeros: block Full of the        *)
(* message with the mark behind it.                                        *)
LEMMA CloseInv ==
  ASSUME IInv, NEW ub \in 0 .. 255, NEW n \in 0 .. 7, shabal_close(ub, n)
  PROVE  IInv'
<1> DEFINE mark == MarkByte(ub, n)
           last == LastBlock(sc.buf, sc.ptr, mark)
           text == Append(message, mark)
           b == Full * BLOCK
           p == sc.ptr
           m == Len(message)
<1>1. /\ ~call.running /\ digest = <<>> /\ message' = message /\ call' = call
      /\ sc' = [sc EXCEPT !.buf = last] /\ digest' = Append(sc.absorbed, last)
      /\ bits' = <<ub, n>>
  BY DEF shabal_close
<1>2. mark = EndOfBits(ub, n) /\ mark \in Nat
  BY MarkIsEnd
<1>3. /\ Now = sc /\ call.data = <<>> /\ sc \in Context /\ message \in Seq(Bytes)
      /\ sc.buf \in Cells /\ sc.absorbed \in Seq(Cells)
  BY <1>1 DEF IInv, Types, Left, Now, Context
<1>4. /\ Full \in Nat /\ b \in Nat /\ m = b + p /\ p \in 0 .. BLOCK - 1 /\ m \in Nat
      /\ BLOCK \in Nat \ {0} /\ Given = m
  <2>1. Given = m
    BY <1>3 DEF Given
  <2> QED BY <1>1, <1>3, <2>1, GivenSplit
<1>5. /\ sc.absorbed = FullBlocks(message, Full)
      /\ Same(sc.buf, p, message, b)
  BY <1>1, <1>3 DEF IInv, Taken, Same
<1>6. /\ DOMAIN text = 1 .. m + 1
      /\ \A i \in 1 .. m : text[i] = message[i]
      /\ text[m + 1] = mark
  BY <1>3
<1> HIDE DEF mark, text, b, p, m
<1>7. last \in Cells
  BY <1>2, <1>3 DEF LastBlock, Cells, Cell, p
<1>8. last = [i \in 1 .. BLOCK |-> IF b + i \in DOMAIN text THEN text[b + i] ELSE 0]
  <2>1. SUFFICES ASSUME NEW i \in 1 .. BLOCK
                 PROVE  last[i] = IF b + i \in DOMAIN text THEN text[b + i] ELSE 0
    BY <1>7 DEF LastBlock
  <2>2. last[i] = IF i <= p THEN sc.buf[i] ELSE IF i = p + 1 THEN mark ELSE 0
    BY DEF LastBlock, p
  <2>3. CASE i <= p
    <3>1. i \in 1 .. p /\ b + i \in 1 .. m /\ b + i \in 1 .. m + 1
      BY <1>4, <2>3
    <3> QED BY <1>5, <1>6, <2>2, <2>3, <3>1 DEF Same
  <2>4. CASE i = p + 1
    <3>1. ~(i <= p) /\ b + i = m + 1 /\ m + 1 \in 1 .. m + 1
      BY <1>4, <2>4
    <3> QED BY <1>6, <2>2, <2>4, <3>1
  <2>5. CASE i > p + 1
    <3>1. ~(i <= p) /\ i # p + 1 /\ b + i \notin 1 .. m + 1
      BY <1>4, <2>5
    <3> QED BY <1>6, <2>2, <3>1
  <2> QED BY <1>4, <2>3, <2>4, <2>5
<1>9. digest' = Blocks(text, Full + 1)
  <2> DEFINE digested == Append(sc.absorbed, last)
  <2>1. /\ DOMAIN sc.absorbed = 1 .. Full
        /\ \A k \in 1 .. Full :
             sc.absorbed[k] = [i \in 1 .. BLOCK |-> message[(k - 1) * BLOCK + i]]
    BY <1>5 DEF FullBlocks
  <2>2. Len(sc.absorbed) = Full
    BY <1>3, <1>4, <2>1
  <2> HIDE DEF last
  <2>3. /\ Len(digested) = Full + 1 /\ digested \in Seq(Cells)
        /\ \A k \in 1 .. Full : digested[k] = sc.absorbed[k]
        /\ digested[Full + 1] = last
    BY <1>3, <1>4, <1>7, <2>2
  <2> HIDE DEF digested
  <2>4. \A k \in 1 .. Full + 1 : digested[k] = Block(text, k - 1)
    <3>1. SUFFICES ASSUME NEW k \in 1 .. Full + 1
                   PROVE  digested[k] = Block(text, k - 1)
      OBVIOUS
    <3>2. CASE k = Full + 1
      <4>1. k - 1 = Full
        BY <1>4, <3>2
      <4> QED BY <1>8, <2>3, <3>2, <4>1 DEF Block, b
    <3>3. CASE k \in 1 .. Full
      <4>1. \A i \in 1 .. BLOCK :
              (k - 1) * BLOCK + i \in 1 .. m /\ (k - 1) * BLOCK + i \in 1 .. m + 1
        <5>1. SUFFICES ASSUME NEW i \in 1 .. BLOCK
                       PROVE  (k - 1) * BLOCK + i \in 1 .. m
          BY <1>4
        <5>2. (k - 1) * BLOCK + i \in 1 .. b
          BY <1>4, <3>3, Place DEF b
        <5> DEFINE a == (k - 1) * BLOCK + i
        <5> HIDE DEF a
        <5>3. a \in 1 .. b => a \in 1 .. m
          BY <1>4
        <5> QED BY <5>2, <5>3 DEF a
      <4>2. \A i \in 1 .. BLOCK :
              message[(k - 1) * BLOCK + i]
                = IF (k - 1) * BLOCK + i \in DOMAIN text THEN text[(k - 1) * BLOCK + i] ELSE 0
        BY <1>6, <4>1
      <4>3. digested[k] = [i \in 1 .. BLOCK |-> message[(k - 1) * BLOCK + i]]
        BY <2>1, <2>3, <3>3
      <4> QED BY <4>2, <4>3 DEF Block
    <3> QED BY <1>4, <3>2, <3>3
  <2>5. digested = [k \in 1 .. Full + 1 |-> digested[k]]
    BY <1>4, <2>3
  <2>6. digest' = digested
    BY <1>1 DEF digested, last, p, mark
  <2> QED BY <2>4, <2>5, <2>6 DEF Blocks
<1>10. Full = m \div BLOCK
  BY <1>4 DEF Full
<1>11. digest' # <<>> /\ digest' \in Seq(Cells)
  BY <1>1, <1>3, <1>7 DEF p, mark
<1>12. sc' \in Context
  BY <1>1, <1>3, <1>7 DEF Context, p, mark
<1>13. Types'
  BY <1>1, <1>11, <1>12 DEF IInv, Types
<1>14. Left'
  BY <1>1 DEF IInv, Left
<1>15. Taken'
  BY <1>11 DEF Taken
<1>16. DigestOfMessage'
  BY <1>1, <1>2, <1>9, <1>10 DEF DigestOfMessage, text, m
<1> QED BY <1>13, <1>14, <1>15, <1>16 DEF IInv

LEMMA StepInv ==
  ASSUME IInv, [Next]_vars
  PROVE  IInv'
<1>1. ASSUME NEW data \in BoundedSeq(Bytes, MaxMessage), UpdateShort(data) \/ UpdateLong(data)
      PROVE  IInv'
  <2>1. data \in Seq(Bytes)
    BY DEF BoundedSeq, SeqOf
  <2> QED BY <1>1, <2>1, ShortInv, LongInv
<1>2. ASSUME FillBuffer PROVE IInv'
  BY <1>2, FillInv
<1>3. ASSUME UpdateReturns PROVE IInv'
  BY <1>3, ReturnInv
<1>4. ASSUME sph_shabal256_close PROVE IInv'
  <2>1. shabal_close(0, 0) /\ 0 \in 0 .. 255 /\ 0 \in 0 .. 7
    BY <1>4 DEF sph_shabal256_close
  <2> QED BY <2>1, CloseInv
<1>5. ASSUME NEW e \in Bits, sph_shabal256_addbits_and_close(e[1], e[2]) PROVE IInv'
  <2>1. e[1] \in 0 .. 255 /\ e[2] \in 0 .. 7
    BY BitsAssumption
  <2>2. shabal_close(e[1], e[2])
    BY <1>5 DEF sph_shabal256_addbits_and_close
  <2> QED BY <2>1, <2>2, CloseInv
<1>6. ASSUME NextMessage PROVE IInv'
  <2>1. /\ digest # <<>> /\ sc' = FreshContext /\ message' = <<>> /\ digest' = <<>>
        /\ call' = call
    BY <1>6 DEF NextMessage
  <2>2. ~call.running /\ call.data = <<>> /\ call \in CallType
    BY <2>1 DEF IInv, Types, Left
  <2>3. FreshContext \in Context /\ FreshContext.absorbed = <<>> /\ FreshContext.ptr = 0
    BY BlockAssumption DEF FreshContext, Context, Cells, Cell
  <2>4. Types'
    BY <2>1, <2>2, <2>3 DEF Types
  <2>5. Left'
    BY <2>1, <2>2 DEF Left
  <2>6. Now'.absorbed = <<>> /\ Now'.ptr = 0 /\ Given' = 0
    BY <2>1, <2>2, <2>3 DEF Now, Given
  <2>7. Taken'
    <3>1. 0 * BLOCK + 0 = 0 /\ 0 \in 0 .. BLOCK - 1
      BY BlockAssumption
    <3>2. Full' = 0 /\ Given' % BLOCK = 0
      BY <2>6, <3>1, Composed DEF Full
    <3>3. FullBlocks(message', 0) = <<>>
      BY DEF FullBlocks
    <3> QED BY <2>6, <3>2, <3>3 DEF Taken
  <2> QED BY <2>1, <2>4, <2>5, <2>7 DEF IInv, DigestOfMessage
<1>7. ASSUME UNCHANGED vars PROVE IInv'
  BY <1>7 DEF vars, IInv, Types, Left, Taken, Now, Given, Full, DigestOfMessage
<1> QED BY <1>1, <1>2, <1>3, <1>4, <1>5, <1>6, <1>7 DEF Next

LEMMA Invariance == Spec => []IInv
<1> QED BY InitInv, StepInv, PTL DEF Spec

(* What Taken says of the whole message is what Arriving says of its part   *)
(* that was given.                                                         *)
LEMMA TakenArrives ==
  ASSUME IInv
  PROVE  Arriving
<1>1. SUFFICES ASSUME digest = <<>> PROVE Arriving
  BY DEF Arriving
<1> DEFINE given == SubSeq(message, 1, Given)
<1>2. /\ message \in Seq(Bytes) /\ Given \in 0 .. Len(message)
      /\ Len(given) = Given /\ \A i \in 1 .. Given : given[i] = message[i]
  <2>1. message \in Seq(Bytes) /\ Len(message) \in Nat /\ Len(call.data) \in Nat
    BY DEF IInv, Types, CallType
  <2>2. Given \in 0 .. Len(message)
    BY <2>1, GivenSplit DEF Given
  <2> HIDE DEF Given
  <2> QED BY <2>1, <2>2
<1>3. /\ Full \in Nat /\ Full * BLOCK \in Nat /\ Given = Full * BLOCK + Now.ptr
      /\ Now.ptr \in 0 .. BLOCK - 1 /\ BLOCK \in Nat \ {0}
  BY <1>1, GivenSplit
<1>4. /\ Now.absorbed = FullBlocks(message, Full)
      /\ Now.ptr = Given % BLOCK
      /\ \A i \in 1 .. Now.ptr : sc.buf[i] = message[Full * BLOCK + i]
  BY <1>1 DEF IInv, Taken
<1>5. Full * BLOCK <= Given
  <2> DEFINE b == Full * BLOCK
             p == Now.ptr
  <2>1. b \in Nat /\ p \in Nat /\ Given = b + p
    BY <1>3
  <2> HIDE DEF b, p
  <2> QED BY <2>1 DEF b
<1>6. Blocks(given, Full) = FullBlocks(message, Full)
  BY <1>2, <1>3, <1>5, BlocksAreFull
<1>7. \A i \in 1 .. Now.ptr : sc.buf[i] = given[Full * BLOCK + i]
  <2> DEFINE b == Full * BLOCK
             p == Now.ptr
  <2>1. b \in Nat /\ p \in Nat /\ Given = b + p /\ \A i \in 1 .. p : sc.buf[i] = message[b + i]
    BY <1>3, <1>4
  <2> HIDE DEF b, p, given
  <2>2. \A i \in 1 .. p : b + i \in 1 .. Given
    BY <2>1
  <2> QED BY <1>2, <2>1, <2>2 DEF b, p
<1>8. Full = Len(given) \div BLOCK /\ Now.ptr = Len(given) % BLOCK
  BY <1>2, <1>4 DEF Full
<1> QED BY <1>4, <1>6, <1>7, <1>8 DEF Arriving, Now, Given

(* However a message is cut into the pieces that sph_shabal256 is called    *)
(* with, and at every moment of a call, the blocks absorbed and the buffer  *)
(* hold the bytes given so far, in their order.                            *)
THEOREM ArrivesWhole == Spec => []Arriving
<1> QED BY Invariance, TakenArrives, PTL

(* What shabal_close absorbs is the message with its last bits and the mark *)
(* of its end, in whole blocks and zeros behind it.                        *)
THEOREM DigestsMessage == Spec => []DigestOfMessage
<1>1. IInv => DigestOfMessage
  BY DEF IInv
<1> QED BY <1>1, Invariance, PTL

-----------------------------------------------------------------------------
(* Many lanes: what becomes of one of them.                                *)

Sizes == {4, 8, 16}

LEMMA SimdIs ==
  ASSUME NEW s \in Simds
  PROVE  s = "sse2" \/ s = "avx" \/ s = "avx2" \/ s = "avx512f"
<1>1. Simds \subseteq {"sse2", "avx", "avx2", "avx512f"}
  BY CallerAssumption, Zenon
<1> QED BY <1>1

LEMMA MaxBlocksIs == MaxBlocks \in Nat
BY CallerAssumption, Zenon

LEMMA EndsAre ==
  ASSUME NEW v \in Sizes, NEW e \in Ends(v)
  PROVE  e.ub \in [0 .. v - 1 -> 0 .. 255] /\ e.n \in 0 .. 7
<1> DEFINE AllPieces(w) == \A piece \in Pieces(w) : piece.len \in Nat /\ piece.off \subseteq 0 .. w - 1
           AllEnds(w) == \A x \in Ends(w) : x.ub \in [0 .. w - 1 -> 0 .. 255] /\ x.n \in 0 .. 7
<1>1. \A w \in {4, 8, 16} : AllPieces(w) /\ AllEnds(w)
  BY CallerAssumption, Zenon
<1>2. v \in {4, 8, 16}
  BY DEF Sizes
<1>3. AllEnds(v)
  <2> HIDE DEF AllPieces, AllEnds
  <2> QED BY <1>1, <1>2
<1> QED BY <1>3, Zenon

LEMMA VectorSizes ==
  ASSUME NEW s \in Simds
  PROVE  MSHABAL_VECTOR_SIZE[s] \in Sizes
BY SimdIs DEF MSHABAL_VECTOR_SIZE, Sizes

\* A context has a buffer and a state for each lane.
IsContext(c, v) ==
  /\ c = [buf |-> c.buf, ptr |-> c.ptr, state |-> c.state, w |-> c.w, out_size |-> c.out_size]
  /\ DOMAIN c.buf = LanesOf(v) /\ c.state = [k \in LanesOf(v) |-> c.state[k]]

\* The words of 64 bytes of a buffer, and a lane that has absorbed num times as many.
WordsAt(buf, at) == [i \in 0 .. 15 |-> U32(buf, at + 4 * i)]
LaneAfter(absorbed, buf, num, w) ==
  absorbed \o [b \in 1 .. num |-> [block |-> WordsAt(buf, 64 * (b - 1)), w |-> w + b - 1]]

\* A vector has v words, and index j of it stands for the byte j \div d.
Steps(v, d) == \/ v = 4 /\ d = 1
               \/ v = 8 /\ d = 2
               \/ v = 16 /\ d = 4

(* Every instruction set finds the words of a lane. *)
LEMMA GatheredIs ==
  ASSUME NEW buf, NEW b \in Int,
         NEW v, NEW d, Steps(v, d)
  PROVE  Gathered(buf, b, v, d) = WordsAt(buf, 64 * b)
<1>1. \A i \in 0 .. 15 : (i * 4) \div 1 = 4 * i /\ (i * 8) \div 2 = 4 * i /\ (i * 16) \div 4 = 4 * i
  OBVIOUS
<1>2. \A i \in 0 .. 15 : BUF_SIZE * b + (i * v) \div d = 64 * b + 4 * i
  BY <1>1 DEF BUF_SIZE, Steps
<1> QED BY <1>2 DEF Gathered, WordsAt, WORDS

LEMMA CompressIs ==
  ASSUME NEW v \in Sizes, NEW d, Steps(v, d),
         NEW c, IsContext(c, v), NEW bufs, NEW num \in Nat, NEW after,
         after = Compress(c, bufs, num, v, d)
  PROVE  /\ IsContext(after, v)
         /\ after.buf = c.buf /\ after.ptr = c.ptr /\ after.out_size = c.out_size
         /\ after.w = c.w + num
         /\ \A k \in LanesOf(v) : after.state[k] = LaneAfter(c.state[k], bufs[k], num, c.w)
<1> DEFINE state == [k \in LanesOf(v) |->
        c.state[k] \o [b \in 1 .. num |->
           [block |-> Gathered(bufs[k], b - 1, v, d), w |-> c.w + b - 1]]]
<1>1. \A k : \A b \in 1 .. num : Gathered(bufs[k], b - 1, v, d) = WordsAt(bufs[k], 64 * (b - 1))
  BY GatheredIs
<1>2. \A k : [b \in 1 .. num |-> [block |-> Gathered(bufs[k], b - 1, v, d), w |-> c.w + b - 1]]
         = [b \in 1 .. num |-> [block |-> WordsAt(bufs[k], 64 * (b - 1)), w |-> c.w + b - 1]]
  BY <1>1
<1>3. \A k \in LanesOf(v) : state[k] = LaneAfter(c.state[k], bufs[k], num, c.w)
  BY <1>2 DEF LaneAfter
<1>4. state = [k \in LanesOf(v) |-> state[k]]
  OBVIOUS
<1>5. after = [c EXCEPT !.state = state, !.w = @ + num]
  BY DEF Compress
<1> HIDE DEF state
<1>6. after = [buf |-> c.buf, ptr |-> c.ptr, state |-> state, w |-> c.w + num, out_size |-> c.out_size]
  BY <1>5 DEF IsContext
<1> QED BY <1>3, <1>4, <1>6 DEF IsContext

(* mshabal_compress of every instruction set. *)
LEMMA Compresses ==
  ASSUME NEW s \in Simds, NEW v, v = MSHABAL_VECTOR_SIZE[s],
         NEW c, IsContext(c, v), NEW bufs, NEW num \in Nat, NEW after,
         after = compress(s, c, bufs, num)
  PROVE  /\ IsContext(after, v)
         /\ after.buf = c.buf /\ after.ptr = c.ptr /\ after.out_size = c.out_size
         /\ after.w = c.w + num
         /\ \A k \in LanesOf(v) : after.state[k] = LaneAfter(c.state[k], bufs[k], num, c.w)
<1>1. \E d : /\ Steps(v, d)
             /\ after = Compress(c, bufs, num, v, d)
  <2>1. CASE s = "sse2"
    <3>1. v = 4 /\ after = Compress(c, bufs, num, 4, 1)
      BY <2>1 DEF MSHABAL_VECTOR_SIZE, compress, compress_sse2
    <3> QED BY <3>1 DEF Steps
  <2>2. CASE s = "avx"
    <3>1. v = 4 /\ after = Compress(c, bufs, num, 4, 1)
      BY <2>2 DEF MSHABAL_VECTOR_SIZE, compress, compress_avx
    <3> QED BY <3>1 DEF Steps
  <2>3. CASE s = "avx2"
    <3>1. v = 8 /\ after = Compress(c, bufs, num, 8, 2)
      BY <2>3 DEF MSHABAL_VECTOR_SIZE, compress, compress_avx2
    <3> QED BY <3>1 DEF Steps
  <2>4. CASE s = "avx512f"
    <3>1. v = 16 /\ after = Compress(c, bufs, num, 16, 4)
      BY <2>4 DEF MSHABAL_VECTOR_SIZE, compress, compress_avx512f
    <3> QED BY <3>1 DEF Steps
  <2> QED BY <2>1, <2>2, <2>3, <2>4, CallerAssumption
<1>2. v \in Sizes
  BY VectorSizes
<1> QED BY <1>1, <1>2, CompressIs

-----------------------------------------------------------------------------
(* What Shabal demands a lane to have absorbed after n of the blocks B.    *)

Item(out_size, B, j) ==
  IF j = 1 THEN [block |-> PrefixBlock(out_size), w |-> -1]
  ELSE IF j = 2 THEN [block |-> PrefixBlock(out_size + 16), w |-> 0]
  ELSE [block |-> B[j - 2], w |-> j - 2]
History(out_size, B, n) == [j \in 1 .. n + 2 |-> Item(out_size, B, j)]
Items(out_size, B) == {Item(out_size, B, j) : j \in Nat}

LEMMA HistoryType ==
  ASSUME NEW out, NEW B, NEW n \in Int, n >= -2
  PROVE  History(out, B, n) \in Seq(Items(out, B)) /\ Len(History(out, B, n)) = n + 2
<1>1. n + 2 \in Nat /\ \A j \in 1 .. n + 2 : Item(out, B, j) \in Items(out, B)
  BY DEF Items
<1> HIDE DEF Items
<1> QED BY <1>1 DEF History

FirstBlocks(B, n) == [b \in 1 .. n |-> B[b]]

LEMMA AbsorbedIs ==
  ASSUME NEW out, NEW B, NEW n \in Nat
  PROVE  Absorbed(out, FirstBlocks(B, n)) = History(out, B, n)
<1> DEFINE blocks == FirstBlocks(B, n)
           one == Counted(<<PrefixBlock(out), PrefixBlock(out + 16)>>, -1)
           two == Counted(blocks, 1)
<1>0. blocks = [b \in 1 .. n |-> B[b]]
  BY DEF FirstBlocks
<1> HIDE DEF blocks, one, two
<1>1. one = [j \in 1 .. 2 |-> Item(out, B, j)]
  BY DEF one, Counted, Item
<1>2. two = [j \in 1 .. n |-> Item(out, B, j + 2)]
  <2>1. two = [j \in 1 .. n |-> [block |-> B[j], w |-> 1 + j - 1]]
    BY <1>0 DEF two, Counted
  <2>2. \A j \in 1 .. n : [block |-> B[j], w |-> 1 + j - 1] = Item(out, B, j + 2)
    <3>1. \A j \in 1 .. n : j + 2 # 1 /\ j + 2 # 2 /\ j + 2 - 2 = j /\ 1 + j - 1 = j
      OBVIOUS
    <3> QED BY <3>1 DEF Item
  <2> QED BY <2>1, <2>2
<1>3. one \in Seq(Items(out, B)) /\ two \in Seq(Items(out, B)) /\ Len(one) = 2 /\ Len(two) = n
  <2>1. \A j \in Nat : Item(out, B, j) \in Items(out, B) /\ Item(out, B, j + 2) \in Items(out, B)
    BY DEF Items
  <2> HIDE DEF Items
  <2> QED BY <1>1, <1>2, <2>1
<1> HIDE DEF Items, Item
<1>4. one \o two = [j \in 1 .. n + 2 |-> Item(out, B, j)]
  BY <1>1, <1>2, <1>3
<1> QED BY <1>4 DEF Absorbed, History, one, two, blocks

\* The m blocks behind the first n.
Following(out_size, B, n, m) == [b \in 1 .. m |-> Item(out_size, B, n + 2 + b)]

(* A lane that absorbs the next blocks, in their order. *)
LEMMA HistoryGrows ==
  ASSUME NEW out, NEW B, NEW n \in Int, n >= -2, NEW m \in Nat
  PROVE  History(out, B, n) \o Following(out, B, n, m) = History(out, B, n + m)
<1> DEFINE more == Following(out, B, n, m)
<1>0. more = [b \in 1 .. m |-> Item(out, B, n + 2 + b)]
  BY DEF Following
<1> HIDE DEF more
<1>1. more \in Seq(Items(out, B)) /\ Len(more) = m
  <2>1. \A b \in 1 .. m : Item(out, B, n + 2 + b) \in Items(out, B)
    BY DEF Items
  <2> HIDE DEF Items, Item
  <2> QED BY <1>0, <2>1
<1>2. History(out, B, n) \in Seq(Items(out, B)) /\ Len(History(out, B, n)) = n + 2
  BY HistoryType
<1> HIDE DEF Items, Item
<1>3. History(out, B, n) \o more = [j \in 1 .. n + m + 2 |-> Item(out, B, j)]
  BY <1>0, <1>1, <1>2 DEF History
<1> QED BY <1>3 DEF History, more

-----------------------------------------------------------------------------
(* Texts: a byte t[p] at each place p from 0 on.                           *)

TextBlock(t, b) == [i \in 0 .. 15 |-> [j \in 1 .. 4 |-> t[64 * (b - 1) + 4 * i + j - 1]]]
TextBlocks(t) == [b \in Nat \ {0} |-> TextBlock(t, b)]

\* The first n bytes of data are those of the text from place at on.
Alike(data, n, t, at) == \A p \in 0 .. n - 1 : data[p] = t[at + p]

(* Sixteen words are a block of the text, if their bytes are. *)
LEMMA WordsAlike ==
  ASSUME NEW t, NEW buf, NEW o \in Int, NEW x \in Int,
         \A p \in 0 .. 63 : buf[o + p] = t[64 * (x - 1) + p]
  PROVE  WordsAt(buf, o) = TextBlock(t, x)
<1>1. ASSUME NEW i \in 0 .. 15
      PROVE  U32(buf, o + 4 * i) = [j \in 1 .. 4 |-> t[64 * (x - 1) + 4 * i + j - 1]]
  <2> DEFINE e == o + 4 * i
             a == 64 * (x - 1) + 4 * i
  <2>1. \A j \in 0 .. 3 : buf[e + j] = t[a + j]
    <3>1. ASSUME NEW j \in 0 .. 3 PROVE buf[e + j] = t[a + j]
      <4>1. 4 * i + j \in 0 .. 63 /\ o + (4 * i + j) = e + j /\ 64 * (x - 1) + (4 * i + j) = a + j
        OBVIOUS
      <4>2. buf[o + (4 * i + j)] = t[64 * (x - 1) + (4 * i + j)]
        BY <4>1
      <4> HIDE DEF e, a
      <4> QED BY <4>1, <4>2
    <3> QED BY <3>1
  <2>2. e \in Int /\ a \in Int
    OBVIOUS
  <2> HIDE DEF e, a
  <2>3. buf[e] = t[a] /\ buf[e + 1] = t[a + 1] /\ buf[e + 2] = t[a + 2] /\ buf[e + 3] = t[a + 3]
    <3>1. e + 0 = e /\ a + 0 = a
      BY <2>2
    <3> QED BY <2>1, <3>1
  <2>4. U32(buf, e) = <<t[a], t[a + 1], t[a + 2], t[a + 3]>>
    BY <2>3 DEF U32
  <2>5. \A j \in 1 .. 4 : <<t[a], t[a + 1], t[a + 2], t[a + 3]>>[j] = t[a + j - 1]
    <3>1. /\ a + 1 - 1 = a /\ a + 2 - 1 = a + 1 /\ a + 3 - 1 = a + 2 /\ a + 4 - 1 = a + 3
          /\ \A j \in 1 .. 4 : j = 1 \/ j = 2 \/ j = 3 \/ j = 4
      BY <2>2
    <3> QED BY <3>1
  <2>6. <<t[a], t[a + 1], t[a + 2], t[a + 3]>> = [j \in 1 .. 4 |-> t[a + j - 1]]
    BY <2>5
  <2> QED BY <2>4, <2>6 DEF e, a
<1> QED BY <1>1 DEF WordsAt, TextBlock

LEMMA WordsOfText ==
  ASSUME NEW t, NEW buf, NEW n \in Nat, NEW m \in Nat, Alike(buf, 64 * m, t, 64 * n),
         NEW b \in 1 .. m
  PROVE  WordsAt(buf, 64 * (b - 1)) = TextBlock(t, n + b)
<1> DEFINE o == 64 * (b - 1)
           x == n + b
<1>1. ASSUME NEW p \in 0 .. 63 PROVE buf[o + p] = t[64 * (x - 1) + p]
  <2> DEFINE y == o + p
  <2>1. y \in 0 .. 64 * m - 1 /\ 64 * n + y = 64 * (x - 1) + p
    OBVIOUS
  <2> HIDE DEF y
  <2>2. buf[y] = t[64 * n + y]
    BY <2>1 DEF Alike
  <2> HIDE DEF o, x
  <2> QED BY <2>1, <2>2 DEF y
<1>2. o \in Int /\ x \in Int
  OBVIOUS
<1> HIDE DEF o, x
<1>3. WordsAt(buf, o) = TextBlock(t, x)
  BY <1>1, <1>2, WordsAlike
<1> QED BY <1>3 DEF o, x

(* ... and so are those of the first one. *)
LEMMA FirstWords ==
  ASSUME NEW t, NEW buf, NEW n \in Nat, Alike(buf, 64 * 1, t, 64 * n)
  PROVE  WordsAt(buf, 64 * (1 - 1)) = TextBlock(t, n + 1)
<1> DEFINE o == 64 * (1 - 1)
           x == n + 1
<1>1. ASSUME NEW p \in 0 .. 63 PROVE buf[o + p] = t[64 * (x - 1) + p]
  <2> DEFINE y == o + p
  <2>1. y \in 0 .. 64 * 1 - 1 /\ 64 * n + y = 64 * (x - 1) + p
    OBVIOUS
  <2> HIDE DEF y
  <2>2. buf[y] = t[64 * n + y]
    BY <2>1 DEF Alike
  <2> HIDE DEF o, x
  <2> QED BY <2>1, <2>2 DEF y
<1>2. o \in Int /\ x \in Int
  OBVIOUS
<1> HIDE DEF o, x
<1>3. WordsAt(buf, o) = TextBlock(t, x)
  BY <1>1, <1>2, WordsAlike
<1> QED BY <1>3 DEF o, x

(* A lane that absorbs the next blocks of its text. *)
LEMMA TextGrows ==
  ASSUME NEW out, NEW t, NEW n \in Nat, NEW m \in Nat, NEW buf,
         Alike(buf, 64 * m, t, 64 * n)
  PROVE  LaneAfter(History(out, TextBlocks(t), n), buf, m, n + 1)
           = History(out, TextBlocks(t), n + m)
<1> DEFINE B == TextBlocks(t)
           more == [b \in 1 .. m |-> [block |-> WordsAt(buf, 64 * (b - 1)), w |-> n + 1 + b - 1]]
<1>1. \A b \in 1 .. m : [block |-> WordsAt(buf, 64 * (b - 1)), w |-> n + 1 + b - 1]
                          = Item(out, B, n + 2 + b)
  <2>1. SUFFICES ASSUME NEW b \in 1 .. m
                 PROVE  [block |-> WordsAt(buf, 64 * (b - 1)), w |-> n + 1 + b - 1]
                          = Item(out, B, n + 2 + b)
    OBVIOUS
  <2>2. /\ n + 2 + b # 1 /\ n + 2 + b # 2 /\ n + 2 + b - 2 = n + b /\ n + 1 + b - 1 = n + b
        /\ n + b \in Nat \ {0}
    OBVIOUS
  <2>3. B[n + b] = TextBlock(t, n + b)
    BY <2>2 DEF TextBlocks
  <2>4. WordsAt(buf, 64 * (b - 1)) = TextBlock(t, n + b)
    BY WordsOfText
  <2> QED BY <2>2, <2>3, <2>4 DEF Item
<1>2. more = Following(out, B, n, m)
  BY <1>1 DEF Following
<1> HIDE DEF B, more
<1>n. n \in Int /\ n >= -2
  OBVIOUS
<1>3. History(out, B, n) \o more = History(out, B, n + m)
  BY <1>2, <1>n, HistoryGrows
<1> QED BY <1>3 DEF LaneAfter, B, more

-----------------------------------------------------------------------------
(* Copying.                                                                *)

LEMMA CopiedIs ==
  ASSUME NEW buf, NEW ptr \in Nat, NEW data, NEW len \in Nat, ptr + len <= 64
  PROVE  /\ \A p \in 0 .. ptr - 1 : Copied(buf, ptr, data, len)[p] = buf[p]
         /\ \A p \in 0 .. len - 1 : Copied(buf, ptr, data, len)[ptr + p] = data[p]
<1> DEFINE new == Copied(buf, ptr, data, len)
<1>1. \A p \in 0 .. 63 : new[p] = IF p \in ptr .. ptr + len - 1 THEN data[p - ptr] ELSE buf[p]
  BY DEF Copied, BUF_SIZE
<1> HIDE DEF new
<1>2. \A p \in 0 .. ptr - 1 : new[p] = buf[p]
  BY <1>1
<1>3. ASSUME NEW p \in 0 .. len - 1 PROVE new[ptr + p] = data[p]
  <2>1. ptr + p \in 0 .. 63 /\ ptr + p \in ptr .. ptr + len - 1 /\ (ptr + p) - ptr = p
    OBVIOUS
  <2> QED BY <1>1, <2>1
<1> QED BY <1>2, <1>3 DEF new

(* A piece that goes on where the buffer ends. *)
LEMMA CopiedAlike ==
  ASSUME NEW t, NEW at \in Int, NEW buf, NEW ptr \in Nat, NEW data, NEW len \in Nat,
         ptr + len <= 64, Alike(buf, ptr, t, at), Alike(data, len, t, at + ptr)
  PROVE  Alike(Copied(buf, ptr, data, len), ptr + len, t, at)
<1> DEFINE new == Copied(buf, ptr, data, len)
<1>1. /\ \A p \in 0 .. ptr - 1 : new[p] = buf[p]
      /\ \A p \in 0 .. len - 1 : new[ptr + p] = data[p]
  BY CopiedIs
<1> HIDE DEF new
<1>2. ASSUME NEW p \in 0 .. ptr + len - 1 PROVE new[p] = t[at + p]
  <2>1. CASE p < ptr
    <3>1. p \in 0 .. ptr - 1
      BY <2>1
    <3> QED BY <1>1, <3>1 DEF Alike
  <2>2. CASE p >= ptr
    <3> DEFINE q == p - ptr
    <3>1. q \in 0 .. len - 1 /\ ptr + q = p /\ (at + ptr) + q = at + p
      BY <2>2
    <3> HIDE DEF q
    <3>2. new[ptr + q] = data[q] /\ data[q] = t[(at + ptr) + q]
      BY <1>1, <3>1 DEF Alike
    <3> QED BY <3>1, <3>2
  <2> QED BY <2>1, <2>2
<1> QED BY <1>2 DEF Alike, new

\* Data of so many bytes.
Holds(data, len) == DOMAIN data = 0 .. len - 1

LEMMA BehindIs ==
  ASSUME NEW t, NEW at \in Int, NEW len \in Nat, NEW data, Holds(data, len),
         Alike(data, len, t, at), NEW n \in 0 .. len
  PROVE  Holds(Behind(data, n), len - n) /\ Alike(Behind(data, n), len - n, t, at + n)
<1>1. Cardinality(DOMAIN data) = len
  <2>1. Cardinality(0 .. len - 1) = len
    <3>1. Cardinality(0 .. len - 1) = IF 0 > len - 1 THEN 0 ELSE (len - 1) - 0 + 1
      BY FS_Interval
    <3> QED BY <3>1
  <2> QED BY <2>1 DEF Holds
<1>2. Behind(data, n) = [p \in 0 .. len - n - 1 |-> data[p + n]]
  BY <1>1 DEF Behind
<1>3. ASSUME NEW p \in 0 .. len - n - 1 PROVE data[p + n] = t[(at + n) + p]
  <2>1. p + n \in 0 .. len - 1 /\ at + (p + n) = (at + n) + p
    OBVIOUS
  <2> QED BY <2>1 DEF Alike
<1> QED BY <1>2, <1>3 DEF Holds, Alike

-----------------------------------------------------------------------------
(* One lane of a context: it has been given n bytes of the text t.         *)

Lane(c, k, out_size, t, n) ==
  /\ c.state[k] = History(out_size, TextBlocks(t), n \div 64)
  /\ c.ptr = n % 64 /\ c.w = n \div 64 + 1 /\ c.out_size = out_size
  /\ Alike(c.buf[k], c.ptr, t, 64 * (n \div 64))

LEMMA InBlocks ==
  ASSUME NEW q \in Nat, NEW r \in 0 .. 63
  PROVE  64 * q + r \in Nat /\ (64 * q + r) \div 64 = q /\ (64 * q + r) % 64 = r
OBVIOUS

(* Whole blocks are absorbed where they lie, and the rest is kept. *)
LEMMA DirectLane ==
  ASSUME NEW s \in Simds, NEW c, IsContext(c, MSHABAL_VECTOR_SIZE[s]),
         NEW data, DOMAIN data = LanesOf(MSHABAL_VECTOR_SIZE[s]), NEW k \in DOMAIN data,
         NEW out, NEW t, NEW n \in Nat, n % 64 = 0, NEW len \in Nat,
         c.state[k] = History(out, TextBlocks(t), n \div 64),
         c.w = n \div 64 + 1, c.out_size = out,
         Holds(data[k], len), Alike(data[k], len, t, n)
  PROVE  /\ IsContext(Directly(s, c, data, len), MSHABAL_VECTOR_SIZE[s])
         /\ Lane(Directly(s, c, data, len), k, out, t, n + len)
<1> DEFINE v == MSHABAL_VECTOR_SIZE[s]
           num == len \div 64
           rest == len % 64
           done == IF num # 0 THEN compress(s, c, data, num) ELSE c
           buf == [l \in DOMAIN data |-> Copied(done.buf[l], 0, Behind(data[l], num * 64), rest)]
           after == Directly(s, c, data, len)
<1>1. /\ num \in Nat /\ rest \in 0 .. 63 /\ len = 64 * num + rest
      /\ (n + len) \div 64 = n \div 64 + num /\ (n + len) % 64 = rest
      /\ n = 64 * (n \div 64) /\ n \div 64 \in Nat
  OBVIOUS
<1>2. /\ IsContext(done, v) /\ done.out_size = out
      /\ done.w = n \div 64 + num + 1
      /\ done.state[k] = History(out, TextBlocks(t), n \div 64 + num)
  <2>1. CASE num = 0
    <3>1. done = c /\ n \div 64 + num = n \div 64
      BY <1>1, <2>1
    <3> QED BY <3>1
  <2>2. CASE num # 0
    <3>1. done = compress(s, c, data, num)
      BY <2>2
    <3> DEFINE m == n \div 64
    <3> HIDE DEF done, num, m
    <3>2. /\ IsContext(done, v) /\ done.out_size = out /\ done.w = c.w + num
          /\ done.state[k] = LaneAfter(c.state[k], data[k], num, c.w)
      BY <1>1, <3>1, Compresses
    <3>3. m \in Nat /\ n = 64 * m /\ c.w = m + 1 /\ c.state[k] = History(out, TextBlocks(t), m)
      BY <1>1 DEF m
    <3>4. Alike(data[k], 64 * num, t, 64 * m)
      <4>1. \A p \in 0 .. 64 * num - 1 : p \in 0 .. len - 1
        BY <1>1
      <4> QED BY <3>3, <4>1 DEF Alike
    <3>5. LaneAfter(c.state[k], data[k], num, c.w) = History(out, TextBlocks(t), m + num)
      BY <1>1, <3>3, <3>4, TextGrows
    <3> QED BY <1>1, <3>2, <3>3, <3>5 DEF m
  <2> QED BY <2>1, <2>2
<1>3. after = [done EXCEPT !.ptr = rest, !.buf = buf]
  BY DEF Directly, BUF_SIZE
<1>4. Alike(buf[k], rest, t, n + num * 64)
  <2>1. num * 64 \in 0 .. len /\ len - num * 64 = rest
    BY <1>1
  <2> DEFINE skip == num * 64
             data_k == Behind(data[k], skip)
  <2> HIDE DEF num, rest, done, skip
  <2>2. Alike(data_k, rest, t, n + skip)
    <3>1. skip \in 0 .. len /\ len - skip = rest /\ n \in Int
      BY <2>1 DEF skip
    <3>2. Alike(data_k, len - skip, t, n + skip)
      BY <3>1, BehindIs
    <3> QED BY <3>1, <3>2
  <2> HIDE DEF data_k
  <2>3. Alike(Copied(done.buf[k], 0, data_k, rest), rest, t, n + skip)
    <3>1. n + skip \in Int /\ (n + skip) + 0 = n + skip /\ 0 + rest = rest /\ 0 + rest <= 64
          /\ rest \in Nat /\ 0 \in Nat
      BY <1>1, <2>1 DEF skip
    <3>2. Alike(done.buf[k], 0, t, n + skip)
      BY DEF Alike
    <3>3. Alike(Copied(done.buf[k], 0, data_k, rest), 0 + rest, t, n + skip)
      BY <2>2, <3>1, <3>2, CopiedAlike
    <3> QED BY <3>1, <3>3
  <2> QED BY <2>3 DEF data_k, skip
<1>5. n + num * 64 = 64 * ((n + len) \div 64)
  BY <1>1
<1>6. DOMAIN buf = LanesOf(v)
  OBVIOUS
<1> HIDE DEF done, buf, num, rest, after, v
<1>7. after = [buf |-> buf, ptr |-> rest, state |-> done.state, w |-> done.w,
               out_size |-> done.out_size]
  BY <1>2, <1>3 DEF IsContext
<1>8. IsContext(after, v)
  BY <1>2, <1>6, <1>7 DEF IsContext
<1>9. /\ after.state[k] = History(out, TextBlocks(t), (n + len) \div 64)
      /\ after.ptr = (n + len) % 64 /\ after.w = (n + len) \div 64 + 1
      /\ after.out_size = out
      /\ Alike(after.buf[k], after.ptr, t, 64 * ((n + len) \div 64))
  BY <1>1, <1>2, <1>4, <1>5, <1>7
<1> QED BY <1>8, <1>9 DEF Lane, after, v

(* What an update does to a lane that has data. *)
LEMMA UpdateLane ==
  ASSUME NEW s \in Simds, NEW c, IsContext(c, MSHABAL_VECTOR_SIZE[s]),
         NEW given, DOMAIN given # {}, NEW k \in LanesOf(MSHABAL_VECTOR_SIZE[s]),
         NEW out, NEW t, NEW n \in Nat, NEW len \in Nat, Lane(c, k, out, t, n),
         Holds(Substituted(given, MSHABAL_VECTOR_SIZE[s])[k], len),
         Alike(Substituted(given, MSHABAL_VECTOR_SIZE[s])[k], len, t, n)
  PROVE  /\ IsContext(Update(s, c, given, len), MSHABAL_VECTOR_SIZE[s])
         /\ Lane(Update(s, c, given, len), k, out, t, n + len)
<1> DEFINE v == MSHABAL_VECTOR_SIZE[s]
           data == Substituted(given, v)
           clen == 64 - c.ptr
           FilledTo(m) == [l \in DOMAIN data |-> Copied(c.buf[l], c.ptr, data[l], m)]
           after == Update(s, c, given, len)
<1>1. /\ DOMAIN data = LanesOf(v) /\ k \in DOMAIN data
      /\ Holds(data[k], len) /\ Alike(data[k], len, t, n)
  BY DEF Substituted
<1>2. after =
        IF c.ptr = 0 THEN Directly(s, c, data, len)
        ELSE IF clen > len THEN [c EXCEPT !.buf = FilledTo(len), !.ptr = @ + len]
        ELSE Directly(s, compress(s, [c EXCEPT !.buf = FilledTo(clen)],
                                  [c EXCEPT !.buf = FilledTo(clen)].buf, 1),
                      [l \in DOMAIN data |-> Behind(data[l], clen)], len - clen)
  BY DEF Update, BUF_SIZE
<1>3. /\ c.state[k] = History(out, TextBlocks(t), n \div 64)
      /\ c.ptr = n % 64 /\ c.w = n \div 64 + 1 /\ c.out_size = out
      /\ Alike(c.buf[k], c.ptr, t, 64 * (n \div 64))
  BY DEF Lane
<1>4. \A m : /\ DOMAIN FilledTo(m) = LanesOf(v)
             /\ FilledTo(m)[k] = Copied(c.buf[k], c.ptr, data[k], m)
  BY <1>1
<1>5. c.ptr \in 0 .. 63 /\ n = 64 * (n \div 64) + c.ptr /\ n \div 64 \in Nat
  BY <1>3
<1>6. ASSUME NEW m \in Nat, m <= len, c.ptr + m <= 64
      PROVE  Alike(FilledTo(m)[k], c.ptr + m, t, 64 * (n \div 64))
  <2> DEFINE b == 64 * (n \div 64)
  <2>1. b \in Int /\ b + c.ptr = n /\ c.ptr \in Nat
    BY <1>5
  <2>2. Alike(data[k], m, t, b + c.ptr)
    <3>1. \A p \in 0 .. m - 1 : p \in 0 .. len - 1
      BY <1>6
    <3> QED BY <1>1, <2>1, <3>1 DEF Alike
  <2> HIDE DEF b, data
  <2>3. Alike(Copied(c.buf[k], c.ptr, data[k], m), c.ptr + m, t, b)
    BY <1>3, <1>6, <2>1, <2>2, CopiedAlike DEF b
  <2> QED BY <1>4, <2>3 DEF b
<1>7. CASE c.ptr = 0
  <2>1. n % 64 = 0
    BY <1>3, <1>7
  <2>2. after = Directly(s, c, data, len)
    BY <1>2, <1>7
  <2> HIDE DEF data, after
  <2> QED BY <1>1, <1>3, <2>1, <2>2, DirectLane DEF after
<1>8. CASE c.ptr # 0 /\ clen > len
  <2>1. after = [c EXCEPT !.buf = FilledTo(len), !.ptr = @ + len]
    BY <1>2, <1>8
  <2>2. Alike(FilledTo(len)[k], c.ptr + len, t, 64 * (n \div 64))
    BY <1>5, <1>6, <1>8
  <2> DEFINE buf == FilledTo(len)
  <2>3. DOMAIN buf = LanesOf(v) /\ after = [c EXCEPT !.buf = buf, !.ptr = @ + len]
    BY <1>4, <2>1
  <2> HIDE DEF buf, after, v, data
  <2>4. after = [buf |-> buf, ptr |-> c.ptr + len, state |-> c.state, w |-> c.w,
                 out_size |-> c.out_size]
    BY <2>3 DEF IsContext, v
  <2>5. IsContext(after, v)
    BY <2>3, <2>4 DEF IsContext, v
  <2>6. (n + len) \div 64 = n \div 64 /\ (n + len) % 64 = c.ptr + len
    <3> DEFINE q == n \div 64
               r == c.ptr + len
    <3>1. q \in Nat /\ r \in 0 .. 63 /\ n + len = 64 * q + r
      BY <1>5, <1>8
    <3> HIDE DEF q, r
    <3>2. (64 * q + r) \div 64 = q /\ (64 * q + r) % 64 = r
      BY <3>1, InBlocks
    <3>3. (n + len) \div 64 = q /\ (n + len) % 64 = r
      BY <3>1, <3>2
    <3> QED BY <3>3 DEF q, r
  <2>7. Lane(after, k, out, t, n + len)
    BY <1>3, <2>2, <2>4, <2>6 DEF Lane, buf
  <2> QED BY <2>5, <2>7 DEF after, v
<1>9. CASE c.ptr # 0 /\ ~(clen > len)
  <2> DEFINE buf == FilledTo(clen)
             full == [c EXCEPT !.buf = buf]
             absorbed == compress(s, full, buf, 1)
             left == [l \in DOMAIN data |-> Behind(data[l], clen)]
             m == n \div 64
  <2>1. DOMAIN buf = LanesOf(v) /\ DOMAIN left = LanesOf(v) /\ left[k] = Behind(data[k], clen)
    BY <1>1, <1>4
  <2>2. full.buf = buf
    BY DEF IsContext
  <2>3. after = Directly(s, absorbed, left, len - clen)
    BY <1>2, <1>9, <2>2
  <2>4. clen \in 1 .. 63 /\ clen \in Nat /\ clen <= len /\ c.ptr + clen = 64 /\ len - clen \in Nat
    BY <1>5, <1>9
  <2>5. Alike(buf[k], 64, t, 64 * m)
    BY <1>6, <2>4
  <2>6. m \in Nat /\ n + clen = 64 * (m + 1) /\ n + clen \in Nat /\ (n + clen) % 64 = 0
        /\ (n + clen) \div 64 = m + 1 /\ (n + clen) + (len - clen) = n + len
    <3>1. m \in Nat /\ n + clen = 64 * (m + 1) + 0 /\ n + clen = 64 * (m + 1) /\ m + 1 \in Nat
          /\ 0 \in 0 .. 63 /\ (n + clen) + (len - clen) = n + len
      BY <1>5, <2>4
    <3> HIDE DEF m, clen
    <3>2. /\ 64 * (m + 1) + 0 \in Nat /\ (64 * (m + 1) + 0) \div 64 = m + 1
          /\ (64 * (m + 1) + 0) % 64 = 0
      BY <3>1, InBlocks
    <3> QED BY <3>1, <3>2
  <2>7. Holds(left[k], len - clen) /\ Alike(left[k], len - clen, t, n + clen)
    <3>1. clen \in 0 .. len /\ n \in Int
      BY <2>4
    <3> HIDE DEF clen, data
    <3> QED BY <1>1, <2>1, <3>1, BehindIs
  <2> HIDE DEF buf, left, m, clen, data, after, v
  <2>8. full = [buf |-> buf, ptr |-> c.ptr, state |-> c.state, w |-> c.w,
                out_size |-> c.out_size]
    BY DEF IsContext
  <2>9. IsContext(full, v)
    BY <2>1, <2>8 DEF IsContext, v
  <2> HIDE DEF full
  <2>10. /\ IsContext(absorbed, v) /\ absorbed.out_size = out /\ absorbed.w = m + 2
         /\ absorbed.state[k] = History(out, TextBlocks(t), m + 1)
    <3>1. /\ IsContext(absorbed, v) /\ absorbed.out_size = full.out_size
          /\ absorbed.w = full.w + 1
          /\ absorbed.state[k] = LaneAfter(full.state[k], buf[k], 1, full.w)
      BY <1>1, <2>9, Compresses DEF v
    <3>2. full.w = m + 1 /\ full.state[k] = History(out, TextBlocks(t), m) /\ full.out_size = out
      BY <1>3, <2>8 DEF m
    <3>3. LaneAfter(History(out, TextBlocks(t), m), buf[k], 1, m + 1)
            = History(out, TextBlocks(t), m + 1)
      <4>1. 64 * 1 = 64 /\ 1 \in Nat
        OBVIOUS
      <4>2. Alike(buf[k], 64 * 1, t, 64 * m)
        BY <2>5, <4>1
      <4>3. m \in Nat
        BY <2>6
      <4> QED BY <4>1, <4>2, <4>3, TextGrows
    <3> QED BY <2>6, <3>1, <3>2, <3>3
  <2> HIDE DEF absorbed
  <2>11. /\ IsContext(Directly(s, absorbed, left, len - clen), v)
         /\ Lane(Directly(s, absorbed, left, len - clen), k, out, t, (n + clen) + (len - clen))
    <3>1. absorbed.w = (n + clen) \div 64 + 1
          /\ absorbed.state[k] = History(out, TextBlocks(t), (n + clen) \div 64)
      BY <2>6, <2>10
    <3> QED BY <1>1, <2>1, <2>4, <2>6, <2>7, <2>10, <3>1, DirectLane DEF v
  <2> QED BY <2>3, <2>6, <2>11 DEF after, v
<1> QED BY <1>7, <1>8, <1>9 DEF after, v

-----------------------------------------------------------------------------
(* The two blocks of numbers.                                              *)

LEMMA NumberedIs ==
  ASSUME NEW n \in Nat
  PROVE  WordsAt(Numbered(n), 64 * (1 - 1)) = PrefixBlock(n)
<1> DEFINE buf == Numbered(n)
<1>1. \A p \in 0 .. 63 :
        buf[p] = IF p % 4 = 0 THEN (n + p \div 4) % 256
                 ELSE IF p % 4 = 1 THEN (n + p \div 4) \div 256 ELSE 0
  BY DEF Numbered, BUF_SIZE
<1> HIDE DEF buf
<1>2. ASSUME NEW i \in 0 .. 15
      PROVE  U32(buf, 64 * (1 - 1) + 4 * i) = <<(n + i) % 256, (n + i) \div 256, 0, 0>>
  <2>1. /\ 4 * i \in 0 .. 63 /\ 4 * i + 1 \in 0 .. 63 /\ 4 * i + 2 \in 0 .. 63
        /\ 4 * i + 3 \in 0 .. 63
        /\ (4 * i) % 4 = 0 /\ (4 * i + 1) % 4 = 1 /\ (4 * i + 2) % 4 = 2 /\ (4 * i + 3) % 4 = 3
        /\ (4 * i) \div 4 = i /\ (4 * i + 1) \div 4 = i
    OBVIOUS
  <2>2. /\ buf[4 * i] = (n + i) % 256 /\ buf[4 * i + 1] = (n + i) \div 256
        /\ buf[4 * i + 2] = 0 /\ buf[4 * i + 3] = 0
    BY <1>1, <2>1
  <2>3. 64 * (1 - 1) + 4 * i = 4 * i
    OBVIOUS
  <2> QED BY <2>2, <2>3 DEF U32
<1> QED BY <1>2 DEF WordsAt, PrefixBlock, WORDS, buf

(* One more block of anything. *)
LEMMA OneMore ==
  ASSUME NEW out, NEW B, NEW n \in Int, n >= -2, NEW buf, NEW w,
         [block |-> WordsAt(buf, 64 * (1 - 1)), w |-> w + 1 - 1] = Item(out, B, n + 3)
  PROVE  LaneAfter(History(out, B, n), buf, 1, w) = History(out, B, n + 1)
<1> DEFINE more == [b \in 1 .. 1 |-> [block |-> WordsAt(buf, 64 * (b - 1)), w |-> w + b - 1]]
<1>1. more = Following(out, B, n, 1)
  <2>1. \A b \in 1 .. 1 : b = 1
    OBVIOUS
  <2>2. n + 2 + 1 = n + 3
    OBVIOUS
  <2>3. \A b \in 1 .. 1 : [block |-> WordsAt(buf, 64 * (b - 1)), w |-> w + b - 1]
                            = Item(out, B, n + 2 + b)
    BY <2>1, <2>2
  <2> QED BY <2>3 DEF Following
<1> HIDE DEF more
<1>2. History(out, B, n) \o more = History(out, B, n + 1)
  BY <1>1, HistoryGrows
<1> QED BY <1>2 DEF LaneAfter, more

LEMMA OutSizeIs ==
  ASSUME NEW out \in OutSizes
  PROVE  out \in Nat /\ out \div 32 \in 1 .. 16
BY OutSizeAssumption

(* A new context: every lane has absorbed the two blocks of numbers. *)
LEMMA InitLanes ==
  ASSUME NEW s \in Simds, NEW out \in OutSizes \cup {256}
  PROVE  /\ IsContext(mshabal_init(s, out), MSHABAL_VECTOR_SIZE[s])
         /\ \A k \in LanesOf(MSHABAL_VECTOR_SIZE[s]) : \A t : Lane(mshabal_init(s, out), k, out, t, 0)
<1> DEFINE v == MSHABAL_VECTOR_SIZE[s]
           blank == [buf |-> [k \in LanesOf(v) |-> Numbered(out)], ptr |-> 0,
                     state |-> [k \in LanesOf(v) |-> <<>>], w |-> -1, out_size |-> out]
           once == compress(s, blank, blank.buf, 1)
           next == [k \in LanesOf(v) |-> Numbered(out + 16)]
           twice == compress(s, once, next, 1)
           made == mshabal_init(s, out)
<1>1. made = [twice EXCEPT !.buf = next]
  <2>1. made = InitContext(s, out)
    BY SimdIs DEF mshabal_init, mshabal_init_sse2, mshabal_init_avx,
      mshabal_init_avx2, mshabal_init_avx512f
  <2> QED BY <2>1 DEF InitContext
<1>2. out \in Nat /\ out + 16 \in Nat
  BY OutSizeIs
<1>3. /\ IsContext(blank, v) /\ blank.w = -1 /\ blank.out_size = out /\ blank.ptr = 0
      /\ \A k \in LanesOf(v) : blank.state[k] = <<>> /\ blank.buf[k] = Numbered(out)
  BY DEF IsContext
<1> HIDE DEF blank, v
<1>4. /\ IsContext(once, v) /\ once.w = 0 /\ once.out_size = out /\ once.ptr = 0
      /\ \A k \in LanesOf(v) : once.state[k] = LaneAfter(<<>>, Numbered(out), 1, -1)
  BY <1>3, Compresses DEF v
<1> HIDE DEF once
<1>5. \A k \in LanesOf(v) : next[k] = Numbered(out + 16)
  OBVIOUS
<1>d. DOMAIN next = LanesOf(v)
  OBVIOUS
<1> HIDE DEF next
<1>6. /\ IsContext(twice, v) /\ twice.w = 1 /\ twice.out_size = out /\ twice.ptr = 0
      /\ \A k \in LanesOf(v) : twice.state[k] = LaneAfter(once.state[k], Numbered(out + 16), 1, 0)
  BY <1>4, <1>5, Compresses DEF v
<1> HIDE DEF twice, made
<1>7. made = [buf |-> next, ptr |-> 0, state |-> twice.state, w |-> 1, out_size |-> out]
  BY <1>1, <1>6 DEF IsContext
<1>8. IsContext(made, v)
  BY <1>6, <1>7, <1>d DEF IsContext
<1>9. ASSUME NEW k \in LanesOf(v), NEW t PROVE Lane(made, k, out, t, 0)
  <2> DEFINE B == TextBlocks(t)
  <2>1. History(out, B, -2) = <<>>
    BY DEF History
  <2>2. LaneAfter(History(out, B, -2), Numbered(out), 1, -1) = History(out, B, -2 + 1)
    <3>1. [block |-> WordsAt(Numbered(out), 64 * (1 - 1)), w |-> -1 + 1 - 1] = Item(out, B, -2 + 3)
      BY <1>2, NumberedIs DEF Item
    <3> HIDE DEF B
    <3> QED BY <3>1, OneMore
  <2>3. LaneAfter(History(out, B, -1), Numbered(out + 16), 1, 0) = History(out, B, -1 + 1)
    <3>1. [block |-> WordsAt(Numbered(out + 16), 64 * (1 - 1)), w |-> 0 + 1 - 1] = Item(out, B, -1 + 3)
      BY <1>2, NumberedIs DEF Item
    <3> HIDE DEF B
    <3> QED BY <3>1, OneMore
  <2> HIDE DEF B
  <2>4. made.state[k] = History(out, B, 0)
    BY <1>4, <1>6, <1>7, <2>1, <2>2, <2>3
  <2>5. 0 \div 64 = 0 /\ 0 % 64 = 0
    OBVIOUS
  <2> QED BY <1>7, <2>4, <2>5 DEF Lane, Alike, B
<1> QED BY <1>8, <1>9 DEF made, v

-----------------------------------------------------------------------------
(* The words of a digest.                                                  *)

LEMMA StateWordIs ==
  ASSUME NEW v \in Sizes, NEW state, DOMAIN state = LanesOf(v), NEW q \in Nat,
         NEW k \in LanesOf(v)
  PROVE  /\ StateWord(state, v * q + k) = [vector |-> q, absorbed |-> state[k]]
         /\ StateWord(state, q * v + k) = [vector |-> q, absorbed |-> state[k]]
<1>1. Cardinality(DOMAIN state) = v
  <2>1. Cardinality(0 .. v - 1) = IF 0 > v - 1 THEN 0 ELSE (v - 1) - 0 + 1
    BY FS_Interval DEF Sizes
  <2> QED BY <2>1 DEF Sizes, LanesOf
<1>2. (v * q + k) \div v = q /\ (v * q + k) % v = k /\ q * v + k = v * q + k
  BY DEF Sizes, LanesOf
<1> QED BY <1>1, <1>2 DEF StateWord

\* The digest of blocks B that ends with block j, and is out_size \div 32 words long.
Closed(out_size, B, j) ==
  LET last == [block |-> B[j], w |-> j]
  IN  History(out_size, B, j) \o <<last, last, last>>
Digest(out_size, B, j, length) ==
  [z \in 0 .. length - 1 |->
     [vector |-> 44 - out_size \div 32 + z, absorbed |-> Closed(out_size, B, j)]]

LEMMA DigestIs ==
  ASSUME NEW out \in Nat, NEW B, NEW j \in Nat \ {0}, NEW length
  PROVE  DigestWords(out, FirstBlocks(B, j), length) = Digest(out, B, j, length)
<1> DEFINE blocks == FirstBlocks(B, j)
<1>1. Len(blocks) = j /\ blocks[j] = B[j]
  BY DEF FirstBlocks
<1>2. Absorbed(out, blocks) = History(out, B, j)
  BY AbsorbedIs
<1> HIDE DEF blocks
<1> DEFINE last == [block |-> B[j], w |-> j]
           all == History(out, B, j) \o <<last, last, last>>
<1>3. DigestWords(out, blocks, length)
        = [z \in 0 .. length - 1 |-> [vector |-> 12 + 16 + 16 - out \div 32 + z, absorbed |-> all]]
  BY <1>1, <1>2 DEF DigestWords
<1> HIDE DEF all
<1>4. \A z \in 0 .. length - 1 : 12 + 16 + 16 - out \div 32 + z = 44 - out \div 32 + z
  OBVIOUS
<1>5. DigestWords(out, blocks, length)
        = [z \in 0 .. length - 1 |-> [vector |-> 44 - out \div 32 + z, absorbed |-> all]]
  BY <1>3, <1>4
<1> QED BY <1>5 DEF Digest, Closed, blocks, all

(* What close writes for a lane. *)
LEMMA WrittenIs ==
  ASSUME NEW v \in Sizes, NEW c, IsContext(c, v), NEW k \in LanesOf(v),
         NEW out \in OutSizes, c.out_size = out, NEW B, NEW j,
         c.state[k] = Closed(out, B, j)
  PROVE  Written(c, k, v) = Digest(out, B, j, out \div 32)
<1> DEFINE o == out \div 32
<1>1. o \in 1 .. 16
  BY OutSizeIs
<1>2. ASSUME NEW z \in 0 .. o - 1
      PROVE  StateWord(c.state, v * (28 + (16 - o)) + z * v + k)
               = [vector |-> 44 - o + z, absorbed |-> Closed(out, B, j)]
  <2> DEFINE q == 44 - o + z
  <2>1. q \in Nat /\ v * (28 + (16 - o)) + z * v + k = v * q + k
    BY <1>1 DEF Sizes, LanesOf
  <2> HIDE DEF q, o
  <2>2. StateWord(c.state, v * q + k) = [vector |-> q, absorbed |-> c.state[k]]
    BY <2>1, StateWordIs DEF IsContext
  <2> QED BY <2>1, <2>2 DEF q
<1>3. Written(c, k, v) = [z \in 0 .. o - 1 |-> StateWord(c.state, v * (28 + (16 - o)) + z * v + k)]
  BY DEF Written
<1> HIDE DEF o
<1>4. Written(c, k, v) = [z \in 0 .. o - 1 |->
                           [vector |-> 44 - o + z, absorbed |-> Closed(out, B, j)]]
  BY <1>2, <1>3
<1> QED BY <1>4 DEF Digest, o

(* The last block, four times with the counter put back. *)
AndBack(s, c, bufs) == LET after == compress(s, c, bufs, 1) IN [after EXCEPT !.w = @ - 1]

LEMMA FourTimesIs ==
  ASSUME NEW s, NEW c, NEW bufs
  PROVE  FourTimes(s, c, bufs)
           = AndBack(s, AndBack(s, AndBack(s, AndBack(s, c, bufs), bufs), bufs), bufs)
<1> DEFINE f(x) == AndBack(s, x, bufs)
           Right(g) == g = [i \in 0 .. 4 |-> IF i = 0 THEN c ELSE f(g[i - 1])]
           round == CHOOSE g : Right(g)
<1>1. FourTimes(s, c, bufs) = round[4]
  BY DEF FourTimes, AndBack
<1> HIDE DEF f
<1>2. \E g : Right(g)
  <2> DEFINE g == [i \in 0 .. 4 |->
                     IF i = 0 THEN c ELSE IF i = 1 THEN f(c) ELSE IF i = 2 THEN f(f(c))
                     ELSE IF i = 3 THEN f(f(f(c))) ELSE f(f(f(f(c))))]
  <2>1. /\ g[0] = c /\ g[1] = f(c) /\ g[2] = f(f(c)) /\ g[3] = f(f(f(c)))
        /\ g[4] = f(f(f(f(c)))) /\ g = [i \in 0 .. 4 |-> g[i]]
    OBVIOUS
  <2> HIDE DEF g
  <2>2. \A i \in 0 .. 4 : g[i] = IF i = 0 THEN c ELSE f(g[i - 1])
    <3>1. \A i \in 0 .. 4 : i = 0 \/ i = 1 \/ i = 2 \/ i = 3 \/ i = 4
      OBVIOUS
    <3> QED BY <2>1, <3>1
  <2>3. Right(g)
    BY <2>1, <2>2
  <2> QED BY <2>3
<1>3. Right(round)
  BY <1>2
<1> HIDE DEF round
<1>4. \A i \in 0 .. 4 : round[i] = IF i = 0 THEN c ELSE f(round[i - 1])
  BY <1>3
<1>5. /\ round[0] = c /\ round[1] = f(round[0]) /\ round[2] = f(round[1])
      /\ round[3] = f(round[2]) /\ round[4] = f(round[3])
  BY <1>4
<1> QED BY <1>1, <1>5 DEF f

LEMMA AndBackIs ==
  ASSUME NEW s \in Simds, NEW c, IsContext(c, MSHABAL_VECTOR_SIZE[s]), c.w \in Int, NEW bufs
  PROVE  /\ IsContext(AndBack(s, c, bufs), MSHABAL_VECTOR_SIZE[s])
         /\ AndBack(s, c, bufs).out_size = c.out_size
         /\ AndBack(s, c, bufs).w = c.w
         /\ \A k \in LanesOf(MSHABAL_VECTOR_SIZE[s]) :
              AndBack(s, c, bufs).state[k] = LaneAfter(c.state[k], bufs[k], 1, c.w)
<1> DEFINE v == MSHABAL_VECTOR_SIZE[s]
           after == compress(s, c, bufs, 1)
<1>1. /\ IsContext(after, v) /\ after.out_size = c.out_size /\ after.w = c.w + 1
      /\ \A k \in LanesOf(v) : after.state[k] = LaneAfter(c.state[k], bufs[k], 1, c.w)
  BY Compresses
<1> DEFINE back == [after EXCEPT !.w = @ - 1]
<1>2. AndBack(s, c, bufs) = back
  BY DEF AndBack
<1> HIDE DEF after, v
<1>3. back = [buf |-> after.buf, ptr |-> after.ptr, state |-> after.state, w |-> c.w,
              out_size |-> after.out_size]
  BY <1>1 DEF IsContext
<1> HIDE DEF back
<1>4. IsContext(back, v)
  BY <1>1, <1>3 DEF IsContext
<1> QED BY <1>1, <1>2, <1>3, <1>4 DEF v

(* Four times the same block: once more than is counted, three times over. *)
LEMMA ClosedIs ==
  ASSUME NEW out, NEW B, NEW j \in Nat \ {0}, NEW buf, WordsAt(buf, 64 * (1 - 1)) = B[j],
         NEW a, a = LaneAfter(History(out, B, j - 1), buf, 1, j)
  PROVE  LaneAfter(LaneAfter(LaneAfter(a, buf, 1, j), buf, 1, j), buf, 1, j) = Closed(out, B, j)
<1> DEFINE last == [block |-> B[j], w |-> j]
           h == History(out, B, j)
<1>1. a = h
  <2>1. [block |-> WordsAt(buf, 64 * (1 - 1)), w |-> j + 1 - 1] = Item(out, B, (j - 1) + 3)
    BY DEF Item
  <2>2. j - 1 \in Int /\ j - 1 >= -2 /\ (j - 1) + 1 = j
    OBVIOUS
  <2>3. LaneAfter(History(out, B, j - 1), buf, 1, j) = History(out, B, (j - 1) + 1)
    BY <2>1, <2>2, OneMore
  <2> QED BY <2>2, <2>3
<1>2. h \in Seq(Items(out, B)) /\ last \in Items(out, B)
  <2>1. last = Item(out, B, j + 2) /\ j + 2 \in Nat
    BY DEF Item
  <2>2. last \in Items(out, B)
    BY <2>1 DEF Items
  <2> QED BY <2>2, HistoryType
<1>3. \A x : LaneAfter(x, buf, 1, j) = x \o <<last>>
  <2>1. \A b \in 1 .. 1 : b = 1 /\ j + b - 1 = j
    OBVIOUS
  <2>2. \A b \in 1 .. 1 : [block |-> WordsAt(buf, 64 * (b - 1)), w |-> j + b - 1] = last
    BY <2>1
  <2>3. [b \in 1 .. 1 |-> [block |-> WordsAt(buf, 64 * (b - 1)), w |-> j + b - 1]]
          = [b \in 1 .. 1 |-> last]
    BY <2>2
  <2> HIDE DEF last
  <2>4. [b \in 1 .. 1 |-> last] = <<last>>
    OBVIOUS
  <2> QED BY <2>3, <2>4 DEF LaneAfter
<1> HIDE DEF last, h, Items
<1>4. ((h \o <<last>>) \o <<last>>) \o <<last>> = h \o <<last, last, last>>
  BY <1>2
<1> QED BY <1>1, <1>3, <1>4 DEF Closed, last, h

-----------------------------------------------------------------------------
(* The end of a lane.                                                      *)

(* What a lane has been given is all that counts of its text. *)
LEMMA SameLane ==
  ASSUME NEW c, NEW k, NEW out, NEW t, NEW u, NEW n \in Nat, Lane(c, k, out, t, n),
         Alike(t, n, u, 0)
  PROVE  Lane(c, k, out, u, n)
<1> DEFINE q == n \div 64
<1>0. \A p \in 0 .. n - 1 : t[p] = u[p]
  BY DEF Alike
<1>1. q \in Nat /\ n % 64 \in 0 .. 63 /\ n = 64 * q + (n % 64)
  OBVIOUS
<1>2. ASSUME NEW b \in 1 .. q PROVE TextBlock(t, b) = TextBlock(u, b)
  <2>1. \A i \in 0 .. 15 : \A j \in 1 .. 4 : 64 * (b - 1) + 4 * i + j - 1 \in 0 .. n - 1
    BY <1>1
  <2>2. \A i \in 0 .. 15 : \A j \in 1 .. 4 :
          t[64 * (b - 1) + 4 * i + j - 1] = u[64 * (b - 1) + 4 * i + j - 1]
    BY <1>0, <2>1
  <2> QED BY <2>2 DEF TextBlock
<1>3. History(out, TextBlocks(t), q) = History(out, TextBlocks(u), q)
  <2>1. ASSUME NEW j \in 1 .. q + 2
        PROVE  Item(out, TextBlocks(t), j) = Item(out, TextBlocks(u), j)
    <3>1. CASE j = 1 \/ j = 2
      BY <3>1 DEF Item
    <3>2. CASE j > 2
      <4>1. j - 2 \in 1 .. q /\ j - 2 \in Nat \ {0}
        BY <1>1, <3>2
      <4>2. TextBlocks(t)[j - 2] = TextBlocks(u)[j - 2]
        BY <1>2, <4>1 DEF TextBlocks
      <4> QED BY <3>2, <4>2 DEF Item
    <3> QED BY <3>1, <3>2
  <2> HIDE DEF q, Item
  <2> QED BY <2>1 DEF History
<1>4. Alike(c.buf[k], c.ptr, u, 64 * q)
  <2>1. c.ptr = n % 64 /\ Alike(c.buf[k], c.ptr, t, 64 * q)
    BY DEF Lane
  <2>2. \A p \in 0 .. c.ptr - 1 : 64 * q + p \in 0 .. n - 1
    BY <1>1, <2>1
  <2> QED BY <1>0, <2>1, <2>2 DEF Alike
<1> QED BY <1>3, <1>4 DEF Lane

(* Closing a lane whose text has the mark behind its n bytes and then zeros. *)
LEMMA CloseLane ==
  ASSUME NEW s \in Simds, NEW c, IsContext(c, MSHABAL_VECTOR_SIZE[s]),
         NEW k \in LanesOf(MSHABAL_VECTOR_SIZE[s]),
         NEW out, NEW t, NEW n \in Nat, Lane(c, k, out, t, n), NEW ub, NEW m,
         t[n] = MarkByte(ub[k], m), \A p \in Nat : p > n => t[p] = 0
  PROVE  /\ IsContext(mshabal_close(s, c, ub, m), MSHABAL_VECTOR_SIZE[s])
         /\ mshabal_close(s, c, ub, m).out_size = out
         /\ mshabal_close(s, c, ub, m).state[k] = Closed(out, TextBlocks(t), n \div 64 + 1)
<1> DEFINE v == MSHABAL_VECTOR_SIZE[s]
           last == [l \in DOMAIN c.buf |-> EndBlock(c.buf[l], c.ptr, MarkByte(ub[l], m))]
           c0 == [c EXCEPT !.buf = last]
           c1 == AndBack(s, c0, last)
           c2 == AndBack(s, c1, last)
           c3 == AndBack(s, c2, last)
           c4 == AndBack(s, c3, last)
           q == n \div 64
           B == TextBlocks(t)
<1>1. mshabal_close(s, c, ub, m) = c4
  <2>1. mshabal_close(s, c, ub, m) = CloseContext(s, c, ub, m)
    BY SimdIs DEF mshabal_close, mshabal_close_sse2, mshabal_close_avx,
      mshabal_close_avx2, mshabal_close_avx512f
  <2>2. CloseContext(s, c, ub, m) = FourTimes(s, c0, last)
    BY DEF CloseContext
  <2> HIDE DEF last, c0
  <2> QED BY <2>1, <2>2, FourTimesIs
<1>2. /\ c.state[k] = History(out, B, q) /\ c.ptr = n % 64 /\ c.w = q + 1 /\ c.out_size = out
      /\ Alike(c.buf[k], c.ptr, t, 64 * q)
  BY DEF Lane
<1>3. q \in Nat /\ c.ptr \in 0 .. 63 /\ n = 64 * q + c.ptr
  BY <1>2
<1>4. DOMAIN last = LanesOf(v) /\ last[k] = EndBlock(c.buf[k], c.ptr, MarkByte(ub[k], m))
  BY DEF IsContext
<1>5. Alike(last[k], 64 * 1, t, 64 * q)
  <2>1. \A p \in 0 .. 63 : last[k][p] = IF p < c.ptr THEN c.buf[k][p]
                                        ELSE IF p = c.ptr THEN MarkByte(ub[k], m) ELSE 0
    <3> DEFINE mark == MarkByte(ub[k], m)
    <3> HIDE DEF last, mark
    <3>1. last[k] = EndBlock(c.buf[k], c.ptr, mark)
      BY <1>4 DEF mark
    <3>2. 64 - 1 = 63
      OBVIOUS
    <3> QED BY <3>1, <3>2 DEF EndBlock, BUF_SIZE, mark
  <2> HIDE DEF last, q
  <2>2. ASSUME NEW p \in 0 .. 63 PROVE last[k][p] = t[64 * q + p]
    <3>1. CASE p < c.ptr
      <4>1. p \in 0 .. c.ptr - 1
        BY <1>3, <3>1
      <4> QED BY <1>2, <2>1, <3>1, <4>1 DEF Alike
    <3>2. CASE p = c.ptr
      BY <1>3, <2>1, <3>2
    <3>3. CASE p > c.ptr
      <4>1. 64 * q + p \in Nat /\ 64 * q + p > n /\ ~(p < c.ptr) /\ p # c.ptr
        BY <1>3, <3>3
      <4> QED BY <2>1, <4>1
    <3> QED BY <1>3, <3>1, <3>2, <3>3
  <2> QED BY <2>2 DEF Alike
<1>6. WordsAt(last[k], 64 * (1 - 1)) = B[q + 1] /\ q + 1 \in Nat \ {0}
  <2>1. 1 \in Nat /\ 1 \in 1 .. 1 /\ q + 1 \in Nat \ {0}
    BY <1>3
  <2> HIDE DEF last, q
  <2>2. WordsAt(last[k], 64 * (1 - 1)) = TextBlock(t, q + 1)
    <3> DEFINE b0 == last[k]
    <3>1. Alike(b0, 64 * 1, t, 64 * q) /\ q \in Nat
      BY <1>3, <1>5
    <3> HIDE DEF b0
    <3>2. WordsAt(b0, 64 * (1 - 1)) = TextBlock(t, q + 1)
      BY <3>1, FirstWords
    <3> QED BY <3>2 DEF b0
  <2> QED BY <2>1, <2>2 DEF TextBlocks
<1> HIDE DEF last, v
<1>7. c0 = [buf |-> last, ptr |-> c.ptr, state |-> c.state, w |-> c.w, out_size |-> c.out_size]
  BY DEF IsContext
<1> HIDE DEF c0
<1>8. IsContext(c0, v) /\ c0.w = q + 1 /\ c0.w \in Int /\ c0.out_size = out
      /\ c0.state[k] = History(out, B, q)
  BY <1>2, <1>3, <1>4, <1>7 DEF IsContext, v
<1> HIDE DEF q, c1, c2, c3, c4, B
<1>9. IsContext(c1, v) /\ c1.w = q + 1 /\ c1.w \in Int /\ c1.out_size = out
      /\ c1.state[k] = LaneAfter(c0.state[k], last[k], 1, q + 1)
  BY <1>8, AndBackIs DEF c1, v
<1>10. IsContext(c2, v) /\ c2.w = q + 1 /\ c2.w \in Int /\ c2.out_size = out
      /\ c2.state[k] = LaneAfter(c1.state[k], last[k], 1, q + 1)
  BY <1>9, AndBackIs DEF c2, v
<1>11. IsContext(c3, v) /\ c3.w = q + 1 /\ c3.w \in Int /\ c3.out_size = out
      /\ c3.state[k] = LaneAfter(c2.state[k], last[k], 1, q + 1)
  BY <1>10, AndBackIs DEF c3, v
<1>12. IsContext(c4, v) /\ c4.out_size = out
      /\ c4.state[k] = LaneAfter(c3.state[k], last[k], 1, q + 1)
  BY <1>11, AndBackIs DEF c4, v
<1>13. c4.state[k] = Closed(out, B, q + 1)
  <2>1. c1.state[k] = LaneAfter(History(out, B, (q + 1) - 1), last[k], 1, q + 1)
    <3>1. (q + 1) - 1 = q
      BY <1>3
    <3> QED BY <1>8, <1>9, <3>1
  <2>2. LaneAfter(LaneAfter(LaneAfter(c1.state[k], last[k], 1, q + 1), last[k], 1, q + 1),
                  last[k], 1, q + 1) = Closed(out, B, q + 1)
    BY <1>6, <2>1, ClosedIs
  <2> QED BY <1>10, <1>11, <1>12, <2>2
<1> QED BY <1>1, <1>12, <1>13 DEF v, q, B

-----------------------------------------------------------------------------
(* The fast functions.                                                     *)

\* Lane k has absorbed the first n of the blocks B[k].
FastAfter(B, n, v) ==
  [state |-> [k \in LanesOf(v) |-> History(256, B[k], n)], w |-> n + 1]

LEMMA RoundIs ==
  ASSUME NEW v, NEW B, NEW n \in Nat, NEW block,
         \A k \in LanesOf(v) : block[k] = B[k][n + 1]
  PROVE  Round(FastAfter(B, n, v), block) = FastAfter(B, n + 1, v)
<1>1. ASSUME NEW k \in LanesOf(v)
      PROVE  Append(History(256, B[k], n), [block |-> block[k], w |-> n + 1])
               = History(256, B[k], n + 1)
  <2> DEFINE last == [block |-> block[k], w |-> n + 1]
             h == History(256, B[k], n)
  <2>1. last = Item(256, B[k], n + 2 + 1)
    BY DEF Item
  <2>2. Following(256, B[k], n, 1) = <<last>>
    <3>1. \A b \in 1 .. 1 : n + 2 + b = n + 2 + 1
      OBVIOUS
    <3>2. Following(256, B[k], n, 1) = [b \in 1 .. 1 |-> last]
      BY <2>1, <3>1 DEF Following
    <3> HIDE DEF last
    <3> QED BY <3>2
  <2>3. h \o <<last>> = History(256, B[k], n + 1)
    <3>1. n \in Int /\ n >= -2 /\ 1 \in Nat
      OBVIOUS
    <3>2. h \o Following(256, B[k], n, 1) = History(256, B[k], n + 1)
      BY <3>1, HistoryGrows
    <3> QED BY <2>2, <3>2
  <2>4. h \in Seq(Items(256, B[k])) /\ last \in Items(256, B[k])
    <3>1. last \in Items(256, B[k])
      <4>1. n + 2 + 1 \in Nat
        OBVIOUS
      <4> QED BY <2>1, <4>1 DEF Items
    <3> QED BY <3>1, HistoryType
  <2> HIDE DEF last, h
  <2>5. Append(h, last) = h \o <<last>>
    BY <2>4
  <2> QED BY <2>3, <2>5 DEF last, h
<1> DEFINE f == FastAfter(B, n, v)
<1>2. /\ DOMAIN f.state = LanesOf(v) /\ f.w = n + 1
      /\ \A k \in LanesOf(v) : f.state[k] = History(256, B[k], n)
  BY DEF FastAfter
<1> HIDE DEF f
<1>3. Round(f, block) = [state |-> [k \in LanesOf(v) |-> History(256, B[k], n + 1)],
                         w |-> n + 1 + 1]
  <2>1. [k \in LanesOf(v) |-> Append(f.state[k], [block |-> block[k], w |-> f.w])]
          = [k \in LanesOf(v) |-> History(256, B[k], n + 1)]
    BY <1>1, <1>2
  <2> QED BY <1>2, <2>1 DEF Round
<1> QED BY <1>3 DEF FastAfter, f

\* The lanes of the num messages and the termination are the blocks B.
InMemory(B, words, termination, num, v) ==
  \A k \in LanesOf(v) :
    /\ \A b \in 1 .. num : Vectors(words, b - 1, v)[k] = B[k][b]
    /\ Vectors(termination, 0, v)[k] = B[k][num + 1]

(* The messages are absorbed one after the other, by induction. *)
LEMMA MessagesIs ==
  ASSUME NEW v, NEW B, NEW num \in Nat, NEW words, NEW termination,
         InMemory(B, words, termination, num, v), NEW g,
         g = [b \in 0 .. num |-> IF b = 0 THEN FastAfter(B, 0, v)
                                 ELSE Round(g[b - 1], Vectors(words, b - 1, v))]
  PROVE  g[num] = FastAfter(B, num, v)
<1> DEFINE T == {b \in Nat : b <= num => g[b] = FastAfter(B, b, v)}
<1>1. 0 \in T
  BY DEF T
<1>2. ASSUME NEW n \in Nat, n \in T PROVE n + 1 \in T
  <2>1. SUFFICES ASSUME n + 1 <= num PROVE g[n + 1] = FastAfter(B, n + 1, v)
    OBVIOUS
  <2>2. g[n] = FastAfter(B, n, v) /\ n + 1 \in 1 .. num /\ n + 1 \in 0 .. num /\ n + 1 # 0
        /\ n + 1 - 1 = n
    BY <1>2, <2>1
  <2>3. g[n + 1] = Round(g[n], Vectors(words, n + 1 - 1, v))
    BY <2>2
  <2>4. \A k \in LanesOf(v) : Vectors(words, n + 1 - 1, v)[k] = B[k][n + 1]
    <3>1. ASSUME NEW k \in LanesOf(v), NEW b \in 1 .. num
          PROVE  Vectors(words, b - 1, v)[k] = B[k][b]
      BY Zenon DEF InMemory
    <3> QED BY <2>2, <3>1
  <2> QED BY <2>2, <2>3, <2>4, RoundIs
<1> HIDE DEF T
<1>3. Nat \subseteq T
  BY <1>1, <1>2, SetInduction
<1>4. num \in T
  BY <1>3
<1> QED BY <1>4 DEF T

(* The rounds of the fast functions: all blocks, the last one four times. *)
LEMMA RoundsIs ==
  ASSUME NEW v, NEW B, NEW num \in Nat, NEW words, NEW termination,
         InMemory(B, words, termination, num, v)
  PROVE  LET after == Rounds(FastAfter(B, 0, v), words, termination, num, v)
         IN  /\ DOMAIN after.state = LanesOf(v)
             /\ \A k \in LanesOf(v) : after.state[k] = Closed(256, B[k], num + 1)
<1> DEFINE f == FastAfter(B, 0, v)
           Right(g) == g = [b \in 0 .. num |-> IF b = 0 THEN f
                                               ELSE Round(g[b - 1], Vectors(words, b - 1, v))]
           block == CHOOSE g : Right(g)
           term == Vectors(termination, 0, v)
           Again(x) == [Round(x, term) EXCEPT !.w = @ - 1]
           Ends4(h) == h = [i \in 0 .. 4 |-> IF i = 0 THEN block[num] ELSE Again(h[i - 1])]
           last == CHOOSE h : Ends4(h)
           after == Rounds(f, words, termination, num, v)
<1>1. after = last[4]
  BY DEF Rounds
<1>2. block[num] = FastAfter(B, num, v)
  <2>1. \E g : Right(g)
    <3> DEFINE g == [b \in 0 .. num |-> FastAfter(B, b, v)]
    <3>1. ASSUME NEW b \in 0 .. num
          PROVE  g[b] = IF b = 0 THEN f ELSE Round(g[b - 1], Vectors(words, b - 1, v))
      <4>1. CASE b = 0
        BY <4>1
      <4>2. CASE b # 0
        <5>1. b - 1 \in Nat /\ b - 1 \in 0 .. num /\ (b - 1) + 1 = b /\ b \in 1 .. num
          BY <4>2
        <5>2. \A k \in LanesOf(v) : Vectors(words, b - 1, v)[k] = B[k][(b - 1) + 1]
          BY <5>1 DEF InMemory
        <5>3. Round(FastAfter(B, b - 1, v), Vectors(words, b - 1, v))
                = FastAfter(B, (b - 1) + 1, v)
          BY <5>1, <5>2, RoundIs
        <5> QED BY <4>2, <5>1, <5>3
      <4> QED BY <4>1, <4>2
    <3>2. g = [b \in 0 .. num |-> g[b]]
      OBVIOUS
    <3> HIDE DEF g, f
    <3>3. Right(g)
      BY <3>1, <3>2
    <3> QED BY <3>3
  <2> DEFINE b0 == block
  <2>2. Right(b0)
    BY <2>1
  <2> HIDE DEF b0
  <2>3. b0[num] = FastAfter(B, num, v)
    BY <2>2, MessagesIs
  <2> QED BY <2>3 DEF b0
<1> HIDE DEF block, term
<1>3. \E h : Ends4(h)
  <2> HIDE DEF Again
  <2> DEFINE x == block[num]
             h == [i \in 0 .. 4 |->
                     IF i = 0 THEN x ELSE IF i = 1 THEN Again(x) ELSE IF i = 2 THEN Again(Again(x))
                     ELSE IF i = 3 THEN Again(Again(Again(x))) ELSE Again(Again(Again(Again(x))))]
  <2>1. /\ h[0] = x /\ h[1] = Again(x) /\ h[2] = Again(Again(x)) /\ h[3] = Again(Again(Again(x)))
        /\ h[4] = Again(Again(Again(Again(x)))) /\ h = [i \in 0 .. 4 |-> h[i]]
    OBVIOUS
  <2> HIDE DEF h, x
  <2>2. \A i \in 0 .. 4 : h[i] = IF i = 0 THEN x ELSE Again(h[i - 1])
    <3>1. \A i \in 0 .. 4 : i = 0 \/ i = 1 \/ i = 2 \/ i = 3 \/ i = 4
      OBVIOUS
    <3> QED BY <2>1, <3>1
  <2>3. Ends4(h)
    BY <2>1, <2>2 DEF x
  <2> QED BY <2>3
<1>4. Ends4(last)
  BY <1>3
<1> HIDE DEF last
<1>5. \A i \in 0 .. 4 : last[i] = IF i = 0 THEN block[num] ELSE Again(last[i - 1])
  <2> HIDE DEF Again
  <2> QED BY <1>4
<1>6. /\ last[0] = block[num] /\ last[1] = Again(last[0]) /\ last[2] = Again(last[1])
      /\ last[3] = Again(last[2]) /\ last[4] = Again(last[3])
  <2> HIDE DEF Again
  <2> QED BY <1>5
<1>7. /\ DOMAIN last[1].state = LanesOf(v) /\ last[1].w = num + 1
      /\ \A k \in LanesOf(v) : last[1].state[k] = History(256, B[k], num + 1)
  <2>1. \A k \in LanesOf(v) : term[k] = B[k][num + 1]
    BY DEF InMemory, term
  <2>2. Round(last[0], term) = FastAfter(B, num + 1, v)
    BY <1>2, <1>6, <2>1, RoundIs
  <2>3. last[1] = [FastAfter(B, num + 1, v) EXCEPT !.w = @ - 1]
    BY <1>6, <2>2
  <2> QED BY <2>3 DEF FastAfter
<1>8. ASSUME NEW x, DOMAIN x.state = LanesOf(v), x.w = num + 1
      PROVE  /\ DOMAIN Again(x).state = LanesOf(v) /\ Again(x).w = num + 1
             /\ \A k \in LanesOf(v) :
                  Again(x).state[k] = Append(x.state[k], [block |-> B[k][num + 1], w |-> num + 1])
  <2>1. \A k \in LanesOf(v) : term[k] = B[k][num + 1]
    BY DEF InMemory, term
  <2>2. Round(x, term) = [state |-> [k \in LanesOf(v) |->
                             Append(x.state[k], [block |-> term[k], w |-> num + 1])],
                          w |-> num + 1 + 1]
    BY <1>8 DEF Round
  <2>3. num + 1 + 1 - 1 = num + 1
    OBVIOUS
  <2> QED BY <1>8, <2>1, <2>2, <2>3
<1> HIDE DEF Again
<1>9. ASSUME NEW k \in LanesOf(v) PROVE last[4].state[k] = Closed(256, B[k], num + 1)
  <2> DEFINE l == [block |-> B[k][num + 1], w |-> num + 1]
             h == History(256, B[k], num + 1)
  <2>1. last[4].state[k] = Append(Append(Append(h, l), l), l)
    <3>1. last[1].state[k] = h
      BY <1>7
    <3> HIDE DEF l, h
    <3>2. /\ DOMAIN last[2].state = LanesOf(v) /\ last[2].w = num + 1
          /\ last[2].state[k] = Append(last[1].state[k], l)
      <4>1. DOMAIN last[1].state = LanesOf(v) /\ last[1].w = num + 1
        BY <1>7
      <4> QED BY <1>6, <1>8, <4>1 DEF l
    <3>3. /\ DOMAIN last[3].state = LanesOf(v) /\ last[3].w = num + 1
          /\ last[3].state[k] = Append(last[2].state[k], l)
      BY <1>6, <1>8, <3>2 DEF l
    <3>4. last[4].state[k] = Append(last[3].state[k], l)
      BY <1>6, <1>8, <3>3 DEF l
    <3> QED BY <3>1, <3>2, <3>3, <3>4
  <2>2. h \in Seq(Items(256, B[k])) /\ l \in Items(256, B[k])
    <3>1. l = Item(256, B[k], num + 3) /\ num + 3 \in Nat
      BY DEF Item
    <3>2. l \in Items(256, B[k])
      BY <3>1 DEF Items
    <3> QED BY <3>2, HistoryType
  <2> HIDE DEF l, h
  <2>3. Append(Append(Append(h, l), l), l) = h \o <<l, l, l>>
    BY <2>2
  <2> QED BY <2>1, <2>3 DEF Closed, l, h
<1>10. DOMAIN last[4].state = LanesOf(v)
  BY <1>6, <1>7, <1>8
<1> HIDE DEF after, f
<1> QED BY <1>1, <1>9, <1>10 DEF after, f

\* A context that has absorbed the two blocks of numbers only.
FreshFast(v) ==
  [state |-> [k \in LanesOf(v) |-> History(256, <<>>, 0)], w |-> 1]

LEMMA FreshIs ==
  ASSUME NEW v
  PROVE  \A B : FastAfter(B, 0, v) = FreshFast(v)
<1>1. \A B : History(256, B, 0) = History(256, <<>>, 0)
  <2>1. \A B : \A j \in 1 .. 0 + 2 : Item(256, B, j) = Item(256, <<>>, j)
    <3>1. \A j \in 1 .. 0 + 2 : j = 1 \/ j = 2
      OBVIOUS
    <3> QED BY <3>1 DEF Item
  <2> HIDE DEF Item
  <2> QED BY <2>1 DEF History
<1>2. \A B : [k \in LanesOf(v) |-> History(256, B[k], 0)]
               = [k \in LanesOf(v) |-> History(256, <<>>, 0)]
  BY <1>1
<1>3. 0 + 1 = 1
  OBVIOUS
<1> QED BY <1>2, <1>3 DEF FastAfter, FreshFast

LEMMA InitFast ==
  ASSUME NEW s \in Simds
  PROVE  Fast(mshabal_init(s, 256)) = FreshFast(MSHABAL_VECTOR_SIZE[s])
<1> DEFINE v == MSHABAL_VECTOR_SIZE[s]
           c == mshabal_init(s, 256)
<1>1. IsContext(c, v) /\ \A k \in LanesOf(v) : \A t : Lane(c, k, 256, t, 0)
  BY InitLanes
<1> HIDE DEF c
<1>2. 0 \div 64 = 0
  OBVIOUS
<1>3. \A k \in LanesOf(v) : c.state[k] = History(256, <<>>, 0)
  <2> DEFINE t == <<>>
             B == TextBlocks(t)
  <2>1. \A k \in LanesOf(v) : c.state[k] = History(256, B, 0)
    BY <1>1, <1>2 DEF Lane
  <2>2. History(256, B, 0) = History(256, <<>>, 0)
    <3>1. \A j \in 1 .. 0 + 2 : Item(256, B, j) = Item(256, <<>>, j)
      <4>1. \A j \in 1 .. 0 + 2 : j = 1 \/ j = 2
        OBVIOUS
      <4> HIDE DEF B
      <4> QED BY <4>1 DEF Item
    <3> HIDE DEF Item, B
    <3> QED BY <3>1 DEF History
  <2> HIDE DEF B
  <2> QED BY <2>1, <2>2
<1>4. c.state = [k \in LanesOf(v) |-> History(256, <<>>, 0)]
  BY <1>1, <1>3 DEF IsContext
<1>5. c.w = 1 \/ LanesOf(v) = {}
  <2>1. \A k \in LanesOf(v) : c.w = 0 \div 64 + 1
    BY <1>1 DEF Lane
  <2> QED BY <1>2, <2>1
<1>6. LanesOf(v) # {}
  <2>1. v \in Sizes
    BY VectorSizes
  <2> HIDE DEF v
  <2>2. 0 \in LanesOf(v)
    BY <2>1 DEF Sizes, LanesOf
  <2> QED BY <2>2
<1> QED BY <1>4, <1>5, <1>6 DEF Fast, FreshFast, c

\* A fast call leaves the context as it was and writes the digest of every lane.
Digested(to, deadline, B, num, v) ==
  \A k \in LanesOf(v) :
    IF deadline THEN to[k] = Digest(256, B[k], num + 1, 2)
    ELSE [j \in 0 .. 7 |-> to[j * v + k]] = Digest(256, B[k], num + 1, 8)

LEMMA HashFastIs ==
  ASSUME NEW s \in Simds, NEW v, v = MSHABAL_VECTOR_SIZE[s], NEW B, NEW num \in Nat,
         NEW words, NEW termination, InMemory(B, words, termination, num, v)
  PROVE  /\ mshabal_hash_fast(s, FreshFast(v), words, termination, num).context = FreshFast(v)
         /\ Digested(mshabal_hash_fast(s, FreshFast(v), words, termination, num).dst,
                     FALSE, B, num, v)
<1> DEFINE f == FreshFast(v)
           after == Rounds(f, words, termination, num, v)
           made == HashFast(f, words, termination, num, v)
<1>1. mshabal_hash_fast(s, f, words, termination, num) = made
  BY SimdIs DEF mshabal_hash_fast, mshabal_hash_fast_sse2, mshabal_hash_fast_avx,
    mshabal_hash_fast_avx2, mshabal_hash_fast_avx512f, MSHABAL_VECTOR_SIZE
<1>2. v \in Sizes
  BY VectorSizes
<1>3. DOMAIN after.state = LanesOf(v) /\ \A k \in LanesOf(v) : after.state[k] = Closed(256, B[k], num + 1)
  <2>1. f = FastAfter(B, 0, v)
    BY FreshIs
  <2> HIDE DEF f
  <2> QED BY <2>1, RoundsIs
<1> HIDE DEF after
<1>4. made.context = f
  BY DEF HashFast, ResetW, FreshFast
<1>5. made.dst = [n \in 0 .. 8 * v - 1 |-> StateWord(after.state, (12 + 16 + 8) * v + n)]
  BY DEF HashFast, after
<1> HIDE DEF made, f
<1>6. ASSUME NEW k \in LanesOf(v)
      PROVE  [j \in 0 .. 7 |-> made.dst[j * v + k]] = Digest(256, B[k], num + 1, 8)
  <2>1. ASSUME NEW j \in 0 .. 7
        PROVE  made.dst[j * v + k] = [vector |-> 44 - 256 \div 32 + j,
                                      absorbed |-> Closed(256, B[k], num + 1)]
    <3> DEFINE q == 36 + j
    <3>1. /\ j * v + k \in 0 .. 8 * v - 1 /\ (12 + 16 + 8) * v + (j * v + k) = v * q + k
          /\ q \in Nat /\ 44 - 256 \div 32 + j = q
      BY <1>2 DEF Sizes, LanesOf
    <3> HIDE DEF q
    <3>2. made.dst[j * v + k] = StateWord(after.state, (12 + 16 + 8) * v + (j * v + k))
      BY <1>5, <3>1
    <3>3. StateWord(after.state, v * q + k) = [vector |-> q, absorbed |-> after.state[k]]
      BY <1>2, <1>3, <3>1, StateWordIs
    <3> QED BY <1>3, <3>1, <3>2, <3>3
  <2> QED BY <2>1 DEF Digest
<1>7. Digested(made.dst, FALSE, B, num, v)
  BY <1>6 DEF Digested
<1> QED BY <1>1, <1>4, <1>7 DEF f

LEMMA DeadlineFastIs ==
  ASSUME NEW s \in Simds, NEW v, v = MSHABAL_VECTOR_SIZE[s], NEW B,
         NEW words, NEW termination, InMemory(B, words, termination, 1, v)
  PROVE  /\ mshabal_deadline_fast(s, FreshFast(v), words, termination).context = FreshFast(v)
         /\ Digested(mshabal_deadline_fast(s, FreshFast(v), words, termination).dst,
                     TRUE, B, 1, v)
<1> DEFINE f == FreshFast(v)
           after == Rounds(f, words, termination, 1, v)
           made == DeadlineFast(f, words, termination, v)
<1>1. mshabal_deadline_fast(s, f, words, termination) = made
  BY SimdIs DEF mshabal_deadline_fast, mshabal_deadline_fast_sse2,
    mshabal_deadline_fast_avx, mshabal_deadline_fast_avx2, mshabal_deadline_fast_avx512f,
    MSHABAL_VECTOR_SIZE
<1>2. v \in Sizes
  BY VectorSizes
<1>3. DOMAIN after.state = LanesOf(v) /\ \A k \in LanesOf(v) : after.state[k] = Closed(256, B[k], 2)
  <2>1. f = FastAfter(B, 0, v) /\ 1 \in Nat /\ 1 + 1 = 2
    BY FreshIs
  <2> HIDE DEF f
  <2>2. DOMAIN after.state = LanesOf(v)
        /\ \A k \in LanesOf(v) : after.state[k] = Closed(256, B[k], 1 + 1)
    BY <2>1, RoundsIs
  <2> QED BY <2>1, <2>2
<1> HIDE DEF after
<1> DEFINE simd_dst == [n \in 0 .. 2 * v - 1 |-> StateWord(after.state, (12 + 16 + 8) * v + n)]
<1>4. made.context = f
  BY DEF DeadlineFast, ResetW, FreshFast
<1>5. made.dst = [k \in LanesOf(v) |-> [z \in 0 .. 1 |-> simd_dst[z * v + k]]]
  BY DEF DeadlineFast, after
<1> HIDE DEF made, f
<1>6. ASSUME NEW k \in LanesOf(v) PROVE made.dst[k] = Digest(256, B[k], 2, 2)
  <2>1. ASSUME NEW z \in 0 .. 1
        PROVE  simd_dst[z * v + k] = [vector |-> 44 - 256 \div 32 + z,
                                      absorbed |-> Closed(256, B[k], 2)]
    <3> DEFINE q == 36 + z
    <3>1. /\ z * v + k \in 0 .. 2 * v - 1 /\ (12 + 16 + 8) * v + (z * v + k) = v * q + k
          /\ q \in Nat /\ 44 - 256 \div 32 + z = q
      BY <1>2 DEF Sizes, LanesOf
    <3> HIDE DEF q
    <3>2. simd_dst[z * v + k] = StateWord(after.state, (12 + 16 + 8) * v + (z * v + k))
      BY <3>1
    <3>3. StateWord(after.state, v * q + k) = [vector |-> q, absorbed |-> after.state[k]]
      BY <1>2, <1>3, <3>1, StateWordIs
    <3> QED BY <1>3, <3>1, <3>2, <3>3
  <2> HIDE DEF simd_dst
  <2>2. made.dst[k] = [z \in 0 .. 1 |-> simd_dst[z * v + k]]
    BY <1>5
  <2>3. 2 - 1 = 1
    OBVIOUS
  <2> QED BY <2>1, <2>2, <2>3 DEF Digest
<1>7. Digested(made.dst, TRUE, B, 1, v)
  <2>1. 1 + 1 = 2
    OBVIOUS
  <2> QED BY <1>6, <2>1 DEF Digested
<1> QED BY <1>1, <1>4, <1>7 DEF f

-----------------------------------------------------------------------------
(* The memory of a caller of the fast functions.                           *)

\* The blocks of lane k in fast call c.
WordBlocks(c, k) == [b \in Nat \ {0} |-> [i \in 0 .. 15 |-> Word(c, k, b - 1, i)]]
CallBlocks(c) == [k \in Lanes |-> WordBlocks(c, k)]

LEMMA MemoryIs ==
  ASSUME V \in Sizes, NEW c, NEW from \in Nat, NEW num \in Nat, NEW b \in 0 .. num - 1,
         NEW k \in Lanes
  PROVE  Vectors(Memory(c, from, num), b, V)[k] = WordBlocks(c, k)[from + b + 1]
<1> DEFINE memory == Memory(c, from, num)
           v == V
<1>1. \A m \in 0 .. 16 * num * v - 1 :
        memory[m] = Word(c, m % v, from + m \div (16 * v), (m \div v) % 16)
  BY DEF Memory, WORDS
<1>2. v \in Sizes /\ k \in 0 .. v - 1
  BY DEF Lanes, LanesOf
<1>3. Vectors(memory, b, v)[k] = [i \in 0 .. 15 |-> memory[(16 * b + i) * v + k]]
  BY DEF Vectors, Lanes, WORDS
<1> HIDE DEF memory, v
<1>4. ASSUME NEW i \in 0 .. 15 PROVE memory[(16 * b + i) * v + k] = Word(c, k, from + b, i)
  <2> DEFINE m == (16 * b + i) * v + k
  <2>1. /\ m \in 0 .. 16 * num * v - 1 /\ m % v = k /\ m \div (16 * v) = b
        /\ (m \div v) % 16 = i
    <3>1. CASE v = 4
      <4> DEFINE q == 16 * b + i
                 r == 4 * i + k
      <4>1. /\ q \in Nat /\ r \in 0 .. 63 /\ m = 4 * q + k /\ m = 64 * b + r /\ k \in 0 .. 3
            /\ q % 16 = i /\ b \in Nat /\ b + 1 <= num
        BY <1>2, <3>1
      <4> HIDE DEF m, q, r
      <4>2. m % 4 = k /\ m \div 4 = q
        BY <4>1
      <4>3. m \div 64 = b
        BY <4>1
      <4>4. m \in 0 .. 64 * num - 1
        BY <4>1
      <4>5. 16 * v = 64 /\ 16 * num * v = 64 * num
        BY <3>1
      <4> QED BY <3>1, <4>1, <4>2, <4>3, <4>4, <4>5
    <3>2. CASE v = 8
      <4> DEFINE q == 16 * b + i
                 r == 8 * i + k
      <4>1. /\ q \in Nat /\ r \in 0 .. 127 /\ m = 8 * q + k /\ m = 128 * b + r /\ k \in 0 .. 7
            /\ q % 16 = i /\ b \in Nat /\ b + 1 <= num
        BY <1>2, <3>2
      <4> HIDE DEF m, q, r
      <4>2. m % 8 = k /\ m \div 8 = q
        BY <4>1
      <4>3. m \div 128 = b
        BY <4>1
      <4>4. m \in 0 .. 128 * num - 1
        BY <4>1
      <4>5. 16 * v = 128 /\ 16 * num * v = 128 * num
        BY <3>2
      <4> QED BY <3>2, <4>1, <4>2, <4>3, <4>4, <4>5
    <3>3. CASE v = 16
      <4> DEFINE q == 16 * b + i
                 r == 16 * i + k
      <4>1. /\ q \in Nat /\ r \in 0 .. 255 /\ m = 16 * q + k /\ m = 256 * b + r /\ k \in 0 .. 15
            /\ q % 16 = i /\ b \in Nat /\ b + 1 <= num
        BY <1>2, <3>3
      <4> HIDE DEF m, q, r
      <4>2. m % 16 = k /\ m \div 16 = q
        BY <4>1
      <4>3. m \div 256 = b
        BY <4>1
      <4>4. m \in 0 .. 256 * num - 1
        BY <4>1
      <4>5. 16 * v = 256 /\ 16 * num * v = 256 * num
        BY <3>3
      <4> QED BY <3>3, <4>1, <4>2, <4>3, <4>4, <4>5
    <3> QED BY <1>2, <3>1, <3>2, <3>3 DEF Sizes
  <2> HIDE DEF m
  <2> QED BY <1>1, <2>1 DEF m
<1>5. from + b + 1 \in Nat \ {0} /\ (from + b + 1) - 1 = from + b
  OBVIOUS
<1>6. WordBlocks(c, k)[from + b + 1] = [i \in 0 .. 15 |-> Word(c, k, from + b, i)]
  BY <1>5 DEF WordBlocks
<1> QED BY <1>3, <1>4, <1>6 DEF memory, v

LEMMA CallMemory ==
  ASSUME V \in Sizes, NEW c, NEW num \in Nat
  PROVE  InMemory(CallBlocks(c), Memory(c, 0, num), Memory(c, num, 1), num, V)
<1>1. ASSUME NEW k \in Lanes, NEW b \in 1 .. num
      PROVE  Vectors(Memory(c, 0, num), b - 1, V)[k] = WordBlocks(c, k)[b]
  <2> DEFINE a == b - 1
  <2>1. a \in 0 .. num - 1 /\ 0 + a + 1 = b /\ 0 \in Nat
    OBVIOUS
  <2> HIDE DEF a
  <2>2. Vectors(Memory(c, 0, num), a, V)[k] = WordBlocks(c, k)[0 + a + 1]
    BY <2>1, MemoryIs
  <2> QED BY <2>1, <2>2 DEF a
<1>2. ASSUME NEW k \in Lanes
      PROVE  Vectors(Memory(c, num, 1), 0, V)[k] = WordBlocks(c, k)[num + 1]
  <2>1. 0 \in 0 .. 1 - 1 /\ num + 0 + 1 = num + 1 /\ 1 \in Nat
    OBVIOUS
  <2>2. Vectors(Memory(c, num, 1), 0, V)[k] = WordBlocks(c, k)[num + 0 + 1]
    BY <2>1, MemoryIs
  <2> QED BY <2>1, <2>2
<1> QED BY <1>1, <1>2 DEF InMemory, CallBlocks, Lanes

-----------------------------------------------------------------------------
(* The invariant.                                                          *)

\* The bytes of a lane, and the text it was closed with.
LaneText(k) == [p \in Nat |-> Byte(k, p)]
EndText(k) ==
  [p \in Nat |-> IF p < total THEN Byte(k, p)
                 ELSE IF p = total THEN EndOfBits(end.ub[k], end.n) ELSE 0]

LaneTypes ==
  /\ simd \in Simds /\ total \in Nat /\ live \subseteq Lanes
  /\ calls \in Seq([deadline : BOOLEAN, num : Nat])
  /\ end # <<>> => calls = <<>>
  /\ live # {} => IsContext(msc, V) /\ msc.out_size \in OutSizes
LanesGiven == end = <<>> => \A k \in live : Lane(msc, k, msc.out_size, LaneText(k), total)
LanesClosed ==
  end # <<>> =>
    \A k \in live \cap DOMAIN dst :
      dst[k] = Digest(msc.out_size, TextBlocks(EndText(k)), total \div 64 + 1, msc.out_size \div 32)
FastCalled ==
  calls # <<>> =>
    LET c == Len(calls)
    IN  Digested(dst, calls[c].deadline, CallBlocks(c), calls[c].num, V)
LaneInv ==
  LaneTypes /\ LanesGiven /\ LanesClosed /\ fast = FreshFast(V) /\ FastCalled

LEMMA SizeOfV ==
  ASSUME simd \in Simds
  PROVE  V \in Sizes
BY VectorSizes DEF V

LEMMA LanesInit ==
  ASSUME MultiInit
  PROVE  LaneInv
<1>1. simd \in Simds /\ live = Lanes /\ total = 0 /\ end = <<>> /\ calls = <<>>
      /\ fast = Fast(mshabal_init(simd, 256))
  BY DEF MultiInit
<1>2. PICK out \in OutSizes : msc = mshabal_init(simd, out)
  BY DEF MultiInit
<1>3. IsContext(msc, V) /\ \A k \in Lanes : \A t : Lane(msc, k, out, t, 0)
  BY <1>1, <1>2, InitLanes DEF V, Lanes
<1>4. msc.out_size = out
  <2>1. 0 \in Lanes
    BY <1>1, SizeOfV DEF Lanes, LanesOf, Sizes
  <2> QED BY <1>3, <2>1 DEF Lane
<1>5. LaneTypes
  BY <1>1, <1>3, <1>4 DEF LaneTypes
<1>6. LanesGiven
  BY <1>1, <1>3, <1>4 DEF LanesGiven
<1>7. fast = FreshFast(V)
  BY <1>1, InitFast DEF V
<1> QED BY <1>1, <1>5, <1>6, <1>7 DEF LaneInv, LanesClosed, FastCalled

LEMMA UpdateInv ==
  ASSUME LaneInv, NEW piece \in Pieces(V), UpdateLanes(piece.len, piece.off)
  PROVE  LaneInv'
<1> DEFINE len == piece.len
           off == piece.off
           given == [k \in Lanes \ off |-> Data(k, total, len)]
<1>1. /\ end = <<>> /\ calls = <<>> /\ end' = <<>> /\ calls' = <<>>
      /\ msc' = mshabal(simd, msc, given, len)
      /\ live' = IF len > 0 THEN live \ off ELSE live
      /\ total' = total + len /\ simd' = simd /\ fast' = fast
  BY DEF UpdateLanes
<1>2. simd \in Simds /\ V \in Sizes /\ total \in Nat /\ live \subseteq Lanes
  BY SizeOfV DEF LaneInv, LaneTypes
<1>3. len \in Nat
  BY <1>2, CallerAssumption DEF Sizes
<1>4. msc' = Update(simd, msc, given, len)
  BY <1>1, <1>2, CallerAssumption DEF mshabal, mshabal_sse2, mshabal_avx, mshabal_avx2,
    mshabal_avx512f
<1>5. V' = V /\ Lanes' = Lanes
  BY <1>1 DEF V, Lanes
<1>6. live' \subseteq live
  BY <1>1
<1> HIDE DEF len, off
<1>7. ASSUME live' # {}
      PROVE  /\ IsContext(msc', V) /\ msc'.out_size = msc.out_size
             /\ \A k \in live' : Lane(msc', k, msc.out_size, LaneText(k), total + len)
  <2>1. /\ IsContext(msc, V) /\ msc.out_size \in OutSizes
        /\ \A k \in live : Lane(msc, k, msc.out_size, LaneText(k), total)
    BY <1>1, <1>6, <1>7 DEF LaneInv, LaneTypes, LanesGiven
  <2>2. CASE DOMAIN given = {}
    <3>1. Lanes \ off = {} /\ msc' = msc
      BY <1>4, <2>2 DEF Update
    <3>2. ~(len > 0) /\ len = 0 /\ total + len = total
      BY <1>1, <1>2, <1>3, <1>7, <3>1
    <3> QED BY <1>6, <2>1, <3>1, <3>2
  <2>3. CASE DOMAIN given # {}
    <3>1. ASSUME NEW k \in live'
          PROVE  /\ IsContext(msc', V)
                 /\ Lane(msc', k, msc.out_size, LaneText(k), total + len)
      <4> DEFINE data == Substituted(given, V)
                 t == LaneText(k)
      <4>1. k \in LanesOf(V) /\ Lane(msc, k, msc.out_size, t, total)
        BY <1>2, <1>6, <2>1 DEF Lanes
      <4>2. Holds(data[k], len) /\ Alike(data[k], len, t, total)
        <5>1. CASE k \in DOMAIN given
          <6>1. data[k] = [p \in 0 .. len - 1 |-> Byte(k, total + p)]
            BY <4>1, <5>1 DEF Substituted, Data
          <6>2. \A p \in 0 .. len - 1 : total + p \in Nat
            BY <1>2, <1>3
          <6> HIDE DEF data
          <6> QED BY <6>1, <6>2 DEF Holds, Alike, LaneText
        <5>2. CASE k \notin DOMAIN given
          <6>1. len = 0
            <7>1. k \in Lanes /\ k \in off
              BY <1>2, <1>6, <5>2
            <7> QED BY <1>1, <1>3, <7>1
          <6>2. \E first \in DOMAIN given : \A i \in DOMAIN given : first <= i
            <7>1. DOMAIN given \subseteq Nat
              BY <1>2 DEF Lanes, LanesOf, Sizes
            <7> HIDE DEF given
            <7> QED BY <2>3, <7>1, Least
          <6> DEFINE first == CHOOSE l \in DOMAIN given : \A i \in DOMAIN given : l <= i
          <6>3. first \in DOMAIN given
            BY <6>2
          <6>4. data[k] = given[first]
            BY <4>1, <5>2 DEF Substituted
          <6> HIDE DEF first, data
          <6>5. data[k] = Data(first, total, 0)
            BY <6>1, <6>3, <6>4
          <6>6. DOMAIN data[k] = 0 .. 0 - 1
            BY <6>5 DEF Data
          <6> QED BY <6>1, <6>6 DEF Holds, Alike
        <5> QED BY <5>1, <5>2
      <4> HIDE DEF given, t
      <4> QED BY <1>2, <1>3, <1>4, <2>1, <2>3, <4>1, <4>2, UpdateLane DEF V, t
    <3>2. PICK k \in live' : TRUE
      BY <1>7
    <3>3. msc'.out_size = msc.out_size
      BY <3>1, <3>2 DEF Lane
    <3> QED BY <3>1, <3>2, <3>3
  <2> QED BY <2>2, <2>3
<1>8. LaneTypes'
  <2>1. total' \in Nat /\ live' \subseteq Lanes
    BY <1>1, <1>2, <1>3, <1>6
  <2>2. live' # {} => msc.out_size \in OutSizes
    BY <1>6 DEF LaneInv, LaneTypes
  <2> QED BY <1>1, <1>2, <1>5, <1>7, <2>1, <2>2 DEF LaneInv, LaneTypes
<1>9. LanesGiven'
  <2>1. \A k \in live' : Lane(msc', k, msc'.out_size, LaneText(k), total')
    BY <1>1, <1>7
  <2> QED BY <2>1 DEF LanesGiven, LaneText
<1>10. fast' = FreshFast(V')
  BY <1>1, <1>5 DEF LaneInv
<1> QED BY <1>1, <1>8, <1>9, <1>10 DEF LaneInv, LanesClosed, FastCalled

LEMMA CloseLanesInv ==
  ASSUME LaneInv, NEW e \in Ends(V), CloseLanes(e.ub, e.n, e.off)
  PROVE  LaneInv'
<1> DEFINE ub == e.ub
           n == e.n
<1>1. /\ end = <<>> /\ calls = <<>> /\ calls' = calls
      /\ msc' = mshabal_close(simd, msc, ub, n)
      /\ dst' = [k \in Lanes \ e.off |-> Written(msc', k, V)]
      /\ end' = [ub |-> ub, n |-> n]
      /\ simd' = simd /\ live' = live /\ total' = total /\ fast' = fast
  BY DEF CloseLanes
<1>2. simd \in Simds /\ V \in Sizes /\ total \in Nat /\ live \subseteq Lanes
  BY SizeOfV DEF LaneInv, LaneTypes
<1>3. ub \in [Lanes -> 0 .. 255] /\ n \in 0 .. 7
  BY <1>2, EndsAre DEF Lanes, LanesOf
<1>4. V' = V /\ Lanes' = Lanes
  BY <1>1 DEF V, Lanes
<1>5. end' # <<>> /\ end'.ub = ub /\ end'.n = n
  BY <1>1
<1> HIDE DEF ub, n
<1>6. ASSUME NEW k \in live
      PROVE  /\ IsContext(msc', V) /\ msc'.out_size = msc.out_size /\ msc.out_size \in OutSizes
             /\ msc'.state[k] = Closed(msc.out_size, TextBlocks(EndText(k)'), total \div 64 + 1)
  <2> DEFINE t == LaneText(k)
             u == EndText(k)'
  <2>1. /\ IsContext(msc, V) /\ msc.out_size \in OutSizes /\ k \in LanesOf(V)
        /\ Lane(msc, k, msc.out_size, t, total)
    BY <1>1, <1>2 DEF LaneInv, LaneTypes, LanesGiven, Lanes
  <2>2. \A p \in Nat : u[p] = IF p < total THEN Byte(k, p)
                              ELSE IF p = total THEN EndOfBits(ub[k], n) ELSE 0
    BY <1>1, <1>5 DEF EndText
  <2>3. Alike(t, total, u, 0)
    <3>1. \A p \in 0 .. total - 1 : p \in Nat /\ p < total /\ 0 + p = p
      BY <1>2
    <3> HIDE DEF u
    <3> QED BY <2>2, <3>1 DEF Alike, LaneText
  <2>4. u[total] = MarkByte(ub[k], n)
    <3>1. ub[k] \in 0 .. 255
      BY <1>2, <1>3
    <3>2. MarkByte(ub[k], n) = EndOfBits(ub[k], n)
      BY <1>3, <3>1, MarkIsEnd
    <3> HIDE DEF u
    <3> QED BY <1>2, <2>2, <3>2
  <2>5. \A p \in Nat : p > total => u[p] = 0
    <3> HIDE DEF u
    <3> QED BY <1>2, <2>2
  <2> HIDE DEF t, u
  <2>6. Lane(msc, k, msc.out_size, u, total)
    BY <1>2, <2>1, <2>3, SameLane
  <2> DEFINE closed == mshabal_close(simd, msc, ub, n)
  <2>7. /\ IsContext(closed, V) /\ closed.out_size = msc.out_size
        /\ closed.state[k] = Closed(msc.out_size, TextBlocks(u), total \div 64 + 1)
    <3> DEFINE out == msc.out_size
               v == V
    <3>1. v = MSHABAL_VECTOR_SIZE[simd]
      BY DEF V
    <3>2. IsContext(msc, v) /\ k \in LanesOf(v) /\ Lane(msc, k, out, u, total)
      BY <2>1, <2>6
    <3> HIDE DEF out, v
    <3>3. /\ IsContext(closed, v) /\ closed.out_size = out
          /\ closed.state[k] = Closed(out, TextBlocks(u), total \div 64 + 1)
      BY <1>2, <2>4, <2>5, <3>1, <3>2, CloseLane
    <3> QED BY <3>3 DEF out, v
  <2> QED BY <1>1, <2>1, <2>7 DEF u
<1>7. LaneTypes'
  <2>1. live # {} => IsContext(msc', V) /\ msc'.out_size \in OutSizes
    BY <1>6
  <2>2. calls' \in Seq([deadline : BOOLEAN, num : Nat])
    BY <1>1 DEF LaneInv, LaneTypes
  <2> QED BY <1>1, <1>2, <1>4, <2>1, <2>2 DEF LaneTypes
<1>8. LanesClosed'
  <2>1. ASSUME NEW k \in live' \cap DOMAIN dst'
        PROVE  dst'[k] = Digest(msc'.out_size, TextBlocks(EndText(k)'), total' \div 64 + 1,
                                msc'.out_size \div 32)
    <3>1. k \in live /\ k \in LanesOf(V) /\ dst'[k] = Written(msc', k, V)
      BY <1>1, <1>2 DEF Lanes
    <3>2. /\ IsContext(msc', V) /\ msc'.out_size \in OutSizes
          /\ msc'.state[k] = Closed(msc'.out_size, TextBlocks(EndText(k)'), total' \div 64 + 1)
      BY <1>1, <1>6, <3>1
    <3> DEFINE B == TextBlocks(EndText(k)')
               j == total' \div 64 + 1
    <3> HIDE DEF B, j
    <3>3. Written(msc', k, V) = Digest(msc'.out_size, B, j, msc'.out_size \div 32)
      BY <1>2, <3>1, <3>2, WrittenIs DEF B, j
    <3> QED BY <3>1, <3>3 DEF B, j
  <2> QED BY <2>1 DEF LanesClosed
<1>9. fast' = FreshFast(V')
  BY <1>1, <1>4 DEF LaneInv
<1> QED BY <1>1, <1>5, <1>7, <1>8, <1>9 DEF LaneInv, LanesGiven, FastCalled

LEMMA InitAgainInv ==
  ASSUME LaneInv, InitAgain
  PROVE  LaneInv'
<1>1. /\ end # <<>> /\ live' = Lanes /\ total' = 0 /\ end' = <<>>
      /\ simd' = simd /\ fast' = fast /\ calls' = calls
  BY DEF InitAgain
<1>2. PICK out \in OutSizes : msc' = mshabal_init(simd, out)
  BY DEF InitAgain
<1>3. simd \in Simds /\ V \in Sizes /\ calls = <<>>
  BY <1>1, SizeOfV DEF LaneInv, LaneTypes
<1>4. V' = V /\ Lanes' = Lanes
  BY <1>1 DEF V, Lanes
<1>5. IsContext(msc', V) /\ \A k \in Lanes : \A t : Lane(msc', k, out, t, 0)
  BY <1>2, <1>3, InitLanes DEF V, Lanes
<1>6. msc'.out_size = out
  <2>1. 0 \in Lanes
    BY <1>3 DEF Lanes, LanesOf, Sizes
  <2> QED BY <1>5, <2>1 DEF Lane
<1>7. LaneTypes'
  BY <1>1, <1>3, <1>4, <1>5, <1>6 DEF LaneTypes, LaneInv
<1>8. LanesGiven'
  BY <1>1, <1>5, <1>6 DEF LanesGiven
<1>9. fast' = FreshFast(V')
  BY <1>1, <1>4 DEF LaneInv
<1> QED BY <1>1, <1>3, <1>7, <1>8, <1>9 DEF LaneInv, LanesClosed, FastCalled

(* A fast call disturbs nothing but its result. *)
LEMMA FastCallInv ==
  ASSUME LaneInv, Untouched, NEW asked \in [deadline : BOOLEAN, num : Nat],
         calls' = Append(calls, asked), fast' = FreshFast(V),
         UNCHANGED <<simd, msc, live, total, end>>,
         Digested(dst', asked.deadline, CallBlocks(Len(calls) + 1), asked.num, V)
  PROVE  LaneInv'
<1>1. end = <<>> /\ end' = <<>> /\ simd' = simd /\ msc' = msc /\ live' = live /\ total' = total
  BY DEF Untouched
<1>2. V' = V /\ Lanes' = Lanes
  BY <1>1 DEF V, Lanes
<1>3. /\ calls' \in Seq([deadline : BOOLEAN, num : Nat]) /\ calls' # <<>>
      /\ Len(calls') = Len(calls) + 1 /\ calls'[Len(calls) + 1] = asked
  BY DEF LaneInv, LaneTypes
<1>4. LaneTypes'
  BY <1>1, <1>2, <1>3 DEF LaneInv, LaneTypes
<1>5. LanesGiven'
  BY <1>1 DEF LaneInv, LanesGiven, LaneText
<1>6. FastCalled'
  BY <1>2, <1>3 DEF FastCalled, CallBlocks
<1> QED BY <1>1, <1>2, <1>4, <1>5, <1>6 DEF LaneInv, LanesClosed

LEMMA HashFastInv ==
  ASSUME LaneInv, NEW num \in 0 .. MaxBlocks, CallHashFast(num)
  PROVE  LaneInv'
<1> DEFINE c == Len(calls) + 1
           made == mshabal_hash_fast(simd, fast, Memory(c, 0, num), Memory(c, num, 1), num)
<1>1. simd \in Simds /\ V \in Sizes /\ num \in Nat /\ fast = FreshFast(V)
  <2>1. num \in Nat
    BY MaxBlocksIs
  <2>2. simd \in Simds /\ fast = FreshFast(V)
    BY DEF LaneInv, LaneTypes
  <2> QED BY <2>1, <2>2, SizeOfV
<1>2. InMemory(CallBlocks(c), Memory(c, 0, num), Memory(c, num, 1), num, V)
  BY <1>1, CallMemory
<1>3. /\ Untouched /\ fast' = made.context /\ dst' = made.dst
      /\ calls' = Append(calls, [deadline |-> FALSE, num |-> num])
      /\ UNCHANGED <<simd, msc, live, total, end>>
  BY DEF CallHashFast
<1> HIDE DEF c
<1> DEFINE fresh == mshabal_hash_fast(simd, FreshFast(V), Memory(c, 0, num), Memory(c, num, 1), num)
<1>4. fresh.context = FreshFast(V) /\ Digested(fresh.dst, FALSE, CallBlocks(c), num, V)
  BY <1>1, <1>2, HashFastIs DEF V
<1>5. fast' = FreshFast(V) /\ Digested(dst', FALSE, CallBlocks(c), num, V)
  BY <1>1, <1>3, <1>4
<1> HIDE DEF made, fresh
<1> DEFINE asked == [deadline |-> FALSE, num |-> num]
<1>6. asked \in [deadline : BOOLEAN, num : Nat] /\ asked.deadline = FALSE /\ asked.num = num
  BY <1>1
<1> HIDE DEF asked
<1>7. calls' = Append(calls, asked)
  BY <1>3 DEF asked
<1>8. Digested(dst', asked.deadline, CallBlocks(Len(calls) + 1), asked.num, V)
  BY <1>5, <1>6 DEF c
<1> QED BY <1>3, <1>5, <1>6, <1>7, <1>8, FastCallInv

LEMMA DeadlineFastInv ==
  ASSUME LaneInv, CallDeadlineFast
  PROVE  LaneInv'
<1> DEFINE c == Len(calls) + 1
           made == mshabal_deadline_fast(simd, fast, Memory(c, 0, 1), Memory(c, 1, 1))
<1>1. simd \in Simds /\ V \in Sizes /\ 1 \in Nat /\ fast = FreshFast(V)
  BY SizeOfV DEF LaneInv, LaneTypes
<1>2. InMemory(CallBlocks(c), Memory(c, 0, 1), Memory(c, 1, 1), 1, V)
  BY <1>1, CallMemory
<1>3. /\ Untouched /\ fast' = made.context /\ dst' = made.dst
      /\ calls' = Append(calls, [deadline |-> TRUE, num |-> 1])
      /\ UNCHANGED <<simd, msc, live, total, end>>
  BY DEF CallDeadlineFast
<1> HIDE DEF c
<1> DEFINE fresh == mshabal_deadline_fast(simd, FreshFast(V), Memory(c, 0, 1), Memory(c, 1, 1))
<1>4. fresh.context = FreshFast(V) /\ Digested(fresh.dst, TRUE, CallBlocks(c), 1, V)
  BY <1>1, <1>2, DeadlineFastIs DEF V
<1>5. fast' = FreshFast(V) /\ Digested(dst', TRUE, CallBlocks(c), 1, V)
  BY <1>1, <1>3, <1>4
<1> HIDE DEF made, fresh
<1> DEFINE asked == [deadline |-> TRUE, num |-> 1]
<1>6. asked \in [deadline : BOOLEAN, num : Nat] /\ asked.deadline = TRUE /\ asked.num = 1
  OBVIOUS
<1> HIDE DEF asked
<1>7. calls' = Append(calls, asked)
  BY <1>3 DEF asked
<1>8. Digested(dst', asked.deadline, CallBlocks(Len(calls) + 1), asked.num, V)
  BY <1>5, <1>6 DEF c
<1> QED BY <1>3, <1>5, <1>6, <1>7, <1>8, FastCallInv

LEMMA LanesStep ==
  ASSUME LaneInv, [MultiNext]_multiVars
  PROVE  LaneInv'
<1>1. ASSUME NEW piece \in Pieces(V), UpdateLanes(piece.len, piece.off) PROVE LaneInv'
  BY <1>1, UpdateInv
<1>2. ASSUME NEW e \in Ends(V), CloseLanes(e.ub, e.n, e.off) PROVE LaneInv'
  BY <1>2, CloseLanesInv
<1>3. ASSUME InitAgain PROVE LaneInv'
  BY <1>3, InitAgainInv
<1>4. ASSUME NEW num \in 0 .. MaxBlocks, CallHashFast(num) PROVE LaneInv'
  BY <1>4, HashFastInv
<1>5. ASSUME CallDeadlineFast PROVE LaneInv'
  BY <1>5, DeadlineFastInv
<1>6. ASSUME UNCHANGED multiVars PROVE LaneInv'
  <2>1. /\ simd' = simd /\ msc' = msc /\ live' = live /\ total' = total /\ end' = end
        /\ fast' = fast /\ calls' = calls /\ dst' = dst /\ V' = V /\ Lanes' = Lanes
    BY <1>6 DEF multiVars, V, Lanes
  <2>2. LaneTypes'
    BY <2>1 DEF LaneInv, LaneTypes
  <2>3. LanesGiven'
    BY <2>1 DEF LaneInv, LanesGiven, LaneText
  <2>4. LanesClosed'
    <3>1. \A k : EndText(k)' = EndText(k)
      BY <2>1 DEF EndText
    <3> QED BY <2>1, <3>1 DEF LaneInv, LanesClosed
  <2>5. FastCalled'
    BY <2>1 DEF LaneInv, FastCalled, CallBlocks
  <2> QED BY <2>1, <2>2, <2>3, <2>4, <2>5 DEF LaneInv
<1> QED BY <1>1, <1>2, <1>3, <1>4, <1>5, <1>6 DEF MultiNext

LEMMA LanesAlways == MultiSpec => []LaneInv
<1> QED BY LanesInit, LanesStep, PTL DEF MultiSpec

(* Blocks of a text, as the properties write them. *)
LEMMA ArrivingIs ==
  ASSUME LaneInv
  PROVE  LanesArriving
<1>1. SUFFICES ASSUME end = <<>> PROVE LanesArriving
  BY DEF LanesArriving
<1>2. total \in Nat
  BY DEF LaneInv, LaneTypes
<1>3. ASSUME NEW k \in live
      PROVE  /\ msc.ptr = total % BUF_SIZE
             /\ LET full == total \div BUF_SIZE
                    own(p) == Byte(k, p)
                IN  /\ msc.state[k] = Absorbed(msc.out_size, BlocksOf(own, full))
                    /\ \A p \in 0 .. msc.ptr - 1 : msc.buf[k][p] = own(BUF_SIZE * full + p)
  <2> DEFINE full == total \div 64
             t == LaneText(k)
  <2>1. /\ msc.state[k] = History(msc.out_size, TextBlocks(t), full)
        /\ msc.ptr = total % 64 /\ Alike(msc.buf[k], msc.ptr, t, 64 * full)
    BY <1>1 DEF LaneInv, LanesGiven, Lane
  <2>2. full \in Nat /\ msc.ptr \in 0 .. 63
    BY <1>2, <2>1
  <2>3. \A b \in 1 .. full : TextBlocks(t)[b]
          = [i \in 0 .. WORDS - 1 |-> [j \in 1 .. 4 |-> Byte(k, BUF_SIZE * (b - 1) + 4 * i + j - 1)]]
    <3>1. \A b \in 1 .. full : \A i \in 0 .. 15 : \A j \in 1 .. 4 :
            64 * (b - 1) + 4 * i + j - 1 \in Nat
      BY <2>2
    <3>2. \A b \in 1 .. full : b \in Nat \ {0}
      BY <2>2
    <3> HIDE DEF full
    <3>3. \A b \in 1 .. full : TextBlocks(t)[b] = TextBlock(t, b)
      BY <3>2 DEF TextBlocks
    <3>4. \A b \in 1 .. full : \A i \in 0 .. 15 : \A j \in 1 .. 4 :
            t[64 * (b - 1) + 4 * i + j - 1] = Byte(k, 64 * (b - 1) + 4 * i + j - 1)
      BY <3>1 DEF LaneText
    <3> HIDE DEF t
    <3>5. \A b \in 1 .. full : TextBlock(t, b)
            = [i \in 0 .. 15 |-> [j \in 1 .. 4 |-> Byte(k, 64 * (b - 1) + 4 * i + j - 1)]]
      BY <3>4 DEF TextBlock
    <3>6. 16 - 1 = 15
      OBVIOUS
    <3> QED BY <3>3, <3>5, <3>6 DEF WORDS, BUF_SIZE
  <2> DEFINE blocks == [b \in 1 .. full |->
          [i \in 0 .. WORDS - 1 |-> [j \in 1 .. 4 |-> Byte(k, BUF_SIZE * (b - 1) + 4 * i + j - 1)]]]
  <2>4. FirstBlocks(TextBlocks(t), full) = blocks
    BY <2>3 DEF FirstBlocks
  <2>5. \A p \in 0 .. msc.ptr - 1 : 64 * full + p \in Nat
    BY <2>2
  <2>6. \A p \in 0 .. msc.ptr - 1 : msc.buf[k][p] = Byte(k, BUF_SIZE * full + p)
    <3> HIDE DEF full
    <3> QED BY <2>1, <2>5 DEF Alike, LaneText, BUF_SIZE
  <2> HIDE DEF t, blocks
  <2>7. Absorbed(msc.out_size, blocks) = History(msc.out_size, TextBlocks(t), full)
    BY <2>2, <2>4, AbsorbedIs
  <2> QED BY <2>1, <2>6, <2>7 DEF BlocksOf, BlockOf, BUF_SIZE, blocks
<1> QED BY <1>1, <1>3 DEF LanesArriving

LEMMA ClosedDigests ==
  ASSUME LaneInv
  PROVE  LaneDigests
<1>1. SUFFICES ASSUME end # <<>> PROVE LaneDigests
  BY DEF LaneDigests
<1>2. total \in Nat
  BY DEF LaneInv, LaneTypes
<1>3. ASSUME NEW k \in live \cap DOMAIN dst
      PROVE  LET text(p) == IF p < total THEN Byte(k, p)
                            ELSE IF p = total THEN EndOfBits(end.ub[k], end.n) ELSE 0
             IN  dst[k] = DigestWords(msc.out_size, BlocksOf(text, total \div BUF_SIZE + 1),
                                      msc.out_size \div 32)
  <2> DEFINE j == total \div 64 + 1
             u == EndText(k)
             text(p) == IF p < total THEN Byte(k, p)
                        ELSE IF p = total THEN EndOfBits(end.ub[k], end.n) ELSE 0
  <2>1. dst[k] = Digest(msc.out_size, TextBlocks(u), j, msc.out_size \div 32)
    BY <1>1 DEF LaneInv, LanesClosed
  <2>2. msc.out_size \in Nat
    BY OutSizeIs DEF LaneInv, LaneTypes
  <2>3. j \in Nat \ {0}
    BY <1>2
  <2>4. \A p \in Nat : u[p] = text(p)
    BY DEF EndText
  <2> HIDE DEF u, text
  <2>5. \A b \in 1 .. j : TextBlock(u, b)
          = [i \in 0 .. 15 |-> [l \in 1 .. 4 |-> text(64 * (b - 1) + 4 * i + l - 1)]]
    <3>1. \A b \in 1 .. j : \A i \in 0 .. 15 : \A l \in 1 .. 4 :
            64 * (b - 1) + 4 * i + l - 1 \in Nat
      BY <2>3
    <3>2. \A b \in 1 .. j : \A i \in 0 .. 15 : \A l \in 1 .. 4 :
            u[64 * (b - 1) + 4 * i + l - 1] = text(64 * (b - 1) + 4 * i + l - 1)
      BY <2>4, <3>1
    <3> QED BY <3>2 DEF TextBlock
  <2>6. \A b \in 1 .. j : TextBlocks(u)[b] = TextBlock(u, b)
    <3>1. \A b \in 1 .. j : b \in Nat \ {0}
      BY <2>3
    <3> QED BY <3>1 DEF TextBlocks
  <2> DEFINE blocks == [b \in 1 .. j |->
          [i \in 0 .. 15 |-> [l \in 1 .. 4 |-> text(64 * (b - 1) + 4 * i + l - 1)]]]
  <2>7. FirstBlocks(TextBlocks(u), j) = blocks
    <3>1. ASSUME NEW b \in 1 .. j PROVE TextBlocks(u)[b] = blocks[b]
      BY <2>5, <2>6
    <3>2. blocks = [b \in 1 .. j |-> blocks[b]]
      OBVIOUS
    <3> HIDE DEF blocks
    <3> QED BY <3>1, <3>2 DEF FirstBlocks
  <2>8. blocks = BlocksOf(text, j)
    <3>1. 16 - 1 = 15
      OBVIOUS
    <3> QED BY <3>1 DEF BlocksOf, BlockOf, WORDS, BUF_SIZE
  <2> HIDE DEF j, blocks
  <2>9. dst[k] = DigestWords(msc.out_size, blocks, msc.out_size \div 32)
    BY <2>1, <2>2, <2>3, <2>7, DigestIs
  <2> QED BY <2>8, <2>9 DEF j, text, BUF_SIZE
<1> QED BY <1>3 DEF LaneDigests

LEMMA CalledDigests ==
  ASSUME LaneInv
  PROVE  FastDigests
<1>1. SUFFICES ASSUME calls # <<>> PROVE FastDigests
  BY DEF FastDigests
<1> DEFINE c == Len(calls)
           n == calls[c].num + 1
<1>2. calls[c] \in [deadline : BOOLEAN, num : Nat] /\ V \in Sizes
  <2>1. calls \in Seq([deadline : BOOLEAN, num : Nat]) /\ simd \in Simds
    BY DEF LaneInv, LaneTypes
  <2> DEFINE S == [deadline : BOOLEAN, num : Nat]
  <2> HIDE DEF S
  <2>2. calls \in Seq(S)
    BY <2>1 DEF S
  <2>3. Len(calls) \in 1 .. Len(calls)
    BY <1>1, <2>2
  <2>4. calls[Len(calls)] \in S
    BY <2>2, <2>3
  <2> QED BY <2>1, <2>4, SizeOfV DEF S
<1>3. n \in Nat \ {0}
  BY <1>2
<1>4. ASSUME NEW k \in Lanes
      PROVE  IF calls[c].deadline THEN dst[k] = Digest(256, WordBlocks(c, k), n, 2)
             ELSE [j \in 0 .. 7 |-> dst[j * V + k]] = Digest(256, WordBlocks(c, k), n, 8)
  <2>1. Digested(dst, calls[c].deadline, CallBlocks(c), calls[c].num, V)
    BY <1>1 DEF LaneInv, FastCalled
  <2>2. k \in LanesOf(V) /\ CallBlocks(c)[k] = WordBlocks(c, k)
    BY DEF CallBlocks, Lanes
  <2> HIDE DEF c
  <2> QED BY <2>1, <2>2 DEF Digested
<1>5. ASSUME NEW k \in Lanes
      PROVE  FirstBlocks(WordBlocks(c, k), n)
               = [b \in 1 .. n |-> [i \in 0 .. WORDS - 1 |-> Word(c, k, b - 1, i)]]
  <2>1. 16 - 1 = 15 /\ \A b \in 1 .. n : b \in Nat \ {0}
    BY <1>3
  <2> HIDE DEF n, c
  <2>2. \A b \in 1 .. n : WordBlocks(c, k)[b] = [i \in 0 .. 15 |-> Word(c, k, b - 1, i)]
    BY <2>1 DEF WordBlocks
  <2> QED BY <2>1, <2>2 DEF FirstBlocks, WORDS
<1>6. ASSUME NEW k \in Lanes
      PROVE  \A length : DigestWords(256, [b \in 1 .. n |-> [i \in 0 .. WORDS - 1 |-> Word(c, k, b - 1, i)]],
                                     length)
                           = Digest(256, WordBlocks(c, k), n, length)
  <2> DEFINE B == WordBlocks(c, k)
  <2> HIDE DEF n, B
  <2>1. \A length : DigestWords(256, FirstBlocks(B, n), length) = Digest(256, B, n, length)
    <3>1. 256 \in Nat
      OBVIOUS
    <3> QED BY <1>3, <3>1, DigestIs
  <2> QED BY <1>5, <2>1 DEF B
<1> QED BY <1>4, <1>6 DEF FastDigests

(* However a message is cut into pieces and whichever lanes are switched off, *)
(* a lane of mshabal_* that always had data has absorbed the whole blocks of  *)
(* its own bytes and keeps the rest of them.                                  *)
THEOREM LanesArrive == MultiSpec => []LanesArriving
<1> QED BY LanesAlways, ArrivingIs, PTL

(* What mshabal_close writes for a lane is the digest of the bytes and the    *)
(* bits of that lane, of the size that was asked for.                         *)
THEOREM LanesDigest == MultiSpec => []LaneDigests
<1> QED BY LanesAlways, ClosedDigests, PTL

(* mshabal_hash_fast and mshabal_deadline_fast digest the words of each lane  *)
(* on its own, for every number of blocks, also with a context that has been  *)
(* used before.                                                               *)
THEOREM FastCallsDigest == MultiSpec => []FastDigests
<1> QED BY LanesAlways, CalledDigests, PTL
=============================================================================
