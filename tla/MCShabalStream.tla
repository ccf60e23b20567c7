--------------------------- MODULE MCShabalStream ---------------------------
(* The bits a message may end with: none of a byte that is not empty, one,   *)
(* three of a byte with more bits in it, and all but one.                    *)
EXTENDS ShabalStream

SomeBits == {<<255, 0>>, <<0, 1>>, <<128, 1>>, <<173, 3>>, <<255, 7>>}
=============================================================================
