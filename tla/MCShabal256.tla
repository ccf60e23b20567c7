---------------------------- MODULE MCShabal256 ----------------------------
(* The messages of the unit tests, and messages without and with two blocks, *)
(* in the forms noncegen ends them, and a generation signature with a scoop.  *)
EXTENDS Shabal256

Numbers(n) == [j \in 1 .. 16 |-> <<(j * n) % HALF, (65000 + 77 * j) % HALF>>]
SeedEnd == [Zeros EXCEPT ![1] = <<7, 1>>, ![3] = <<0, 9>>, ![5] = <<0, 128>>]

SomeMessages ==
  {TestA, TestB,
   [blocks |-> <<>>, term |-> SeedEnd],
   [blocks |-> <<Numbers(977)>>, term |-> SubSeq(Numbers(31), 1, 8) \o MarkOnly],
   [blocks |-> <<Numbers(4001), Numbers(60013)>>, term |-> TestA.term]}
=============================================================================
