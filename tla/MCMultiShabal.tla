---------------------------- MODULE MCMultiShabal ----------------------------
(* Pieces that begin, fill, overfill and skip a block, with lanes switched off *)
(* in the middle, at either end, all but one and all; fewer of them for more   *)
(* lanes.                                                                      *)
EXTENDS MultiShabal

NoLane == {}
Everywhere(v) == [len : {0, 10, 54, 64, 138}, off : {NoLane}]
Switched(v) == [len : {10, 138}, off : {{0}, {v - 1}, LanesOf(v) \ {v - 2}}]
AllOff(v) == [len : {10}, off : {LanesOf(v)}]
SomePieces(v) ==
  CASE v = 4 -> Everywhere(v) \cup Switched(v) \cup AllOff(v)
    [] v = 8 -> [len : {10, 54, 138}, off : {NoLane, {0, 3}}]
    [] v = 16 -> [len : {10, 138}, off : {NoLane, {0, 1, 14}}]

\* Closed on a byte, for every lane; and with three bits more, not the same ones
\* in every lane, and no result wanted from lane 1.
SomeEnds(v) ==
  {[ub |-> [k \in LanesOf(v) |-> 0], n |-> 0, off |-> NoLane],
   [ub |-> [k \in LanesOf(v) |-> (45 * k) % 256], n |-> 3, off |-> {1}]}

AllSimds == {"sse2", "avx", "avx2", "avx512f"}
=============================================================================
