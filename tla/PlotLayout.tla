------------------------------ MODULE PlotLayout ------------------------------
(***************************************************************************)
(* Where the hashes of a nonce are kept: in the cache that the writer gets  *)
(* and in the buffers of the hashers.  Addresses count words of eight       *)
(* bytes: a hash has four of them, a scoop two hashes.                      *)
(***************************************************************************)
EXTENDS Integers

CONSTANT NumScoops      \* 4096 in the code

ASSUME NumScoopsAssumption == NumScoops \in Nat \ {0}

HASH_SIZE == 4
SCOOP_SIZE == 2 * HASH_SIZE
NumHashes == 2 * NumScoops
NONCE_SIZE == NumScoops * SCOOP_SIZE

-----------------------------------------------------------------------------
\* The PoC2 shuffle: the first hash of a scoop stays, the second one trades
\* places with that of the mirrored scoop.
ScoopOf(i) == IF i % 2 = 0 THEN i \div 2 ELSE NumScoops - 1 - i \div 2

\* Where hash i of the nonce in the given slot starts in a cache: scoop by
\* scoop, and in each scoop one slot next to the other.
CacheAddress(i, slot, cache_size) ==
  ScoopOf(i) * SCOOP_SIZE * cache_size + slot * SCOOP_SIZE + (i % 2) * HASH_SIZE

\* Where a word of a hash is in the memory of the GPU, and in the buffer of a
\* SIMD hasher (which has one vector): the words of the nonces of a vector are
\* interleaved.
VectorAddress(vector, gid, hash, word) ==
  (gid \div vector) * vector * NONCE_SIZE + hash * vector * HASH_SIZE
    + word * vector + (gid % vector)
=============================================================================
