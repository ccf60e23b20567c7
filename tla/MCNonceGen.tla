----------------------------- MODULE MCNonceGen -----------------------------
(* Small nonces of twelve hashes, short vectors, and two hashers that share  *)
(* the cache, with a free slot before and behind their shares.               *)
EXTENDS NonceGen

SmallLanes == [sse2 |-> 2, avx |-> 2, avx2 |-> 3, avx512 |-> 4]

\* The first a nonces to one kind of hasher and the next b to another.
Share(first, second, start, a, b) ==
  [w \in Hashers |->
     IF w = "h1" THEN [by |-> first, offset |-> 1, start |-> start, nonces |-> a]
                 ELSE [by |-> second, offset |-> 1 + a, start |-> start + a, nonces |-> b]]

\* Less than a vector, just one, and one with something left; every kind of
\* hasher beside every other; numbers that wrap around in the middle of a share.
SomeShares ==
  {Share(k[1], k[2], 14, n[1], n[2]) :
     k \in Kinds \X Kinds, n \in {<<1, 3>>, <<3, 1>>, <<2, 2>>}}
  \cup {Share("avx512", "gpu", 6, 5, 1), Share("gpu", "avx2", 6, 1, 5)}
=============================================================================
