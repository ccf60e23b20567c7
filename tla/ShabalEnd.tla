------------------------------ MODULE ShabalEnd ------------------------------
(* The byte that ends a message: the bits of the message that are less than  *)
(* a byte, from the highest one on, and behind them the mark of the end.     *)
EXTENDS Integers

\* z = 0x80 >> n;  (ub & -z) | z
MarkByte(ub, n) == LET z == 2 ^ (7 - n) IN (ub - (ub % (2 * z))) + z

\* The same bit by bit: bit i of a byte, 0 the highest; and a byte of bits.
BitOf(byte, i) == (byte \div 2 ^ (7 - i)) % 2
EndOfBits(ub, n) ==
  LET bit(i) == IF i < n THEN BitOf(ub, i) ELSE IF i = n THEN 1 ELSE 0
      byte[i \in 0 .. 8] == IF i = 0 THEN 0 ELSE 2 * byte[i - 1] + bit(i - 1)
  IN  byte[8]
=============================================================================
