------------------------------ MODULE NonceGen ------------------------------
(***************************************************************************)
(* Nonce generation: the hashers that fill their share of a cache, each in  *)
(* its own way.  noncegen_rust computes one nonce after the other; the SIMD *)
(* versions compute a vector of nonces at once and what is left over one by *)
(* one; the OpenCL kernel computes one nonce per work item, some hashes per *)
(* launch, and the host unpacks the vectors into the cache.  All of them    *)
(* must produce the same plot.                                              *)
(*                                                                         *)
(* A word has eight bytes.  Digest stands for Shabal-256 and keeps nothing  *)
(* of it but that it depends on every word and on their order; XOR with the *)
(* final hash becomes an addition modulo P.                                 *)
(***************************************************************************)
EXTENDS PlotLayout, FiniteSets

CONSTANTS
  HashCap,        \* the most hashes a message has (HASH_CAP / HASH_SIZE: 128)
  Lanes,          \* SIMD extension |-> nonces per vector
  GpuVector,      \* NONCES_VECTOR, the nonces per vector in GPU memory
  Worksize,       \* the nonces a GPU buffer has room for
  HashesPerRun,   \* GPU_HASHES_PER_RUN
  Base,           \* a nonce number has two digits to this base
  NumericId,      \* numeric_id
  CacheSize,      \* cache_size: the slots of the cache
  Hashers,        \* the hashers that work on the cache
  Shares          \* the ways to share a cache out: functions from hashers to tasks

Extensions == {"sse2", "avx", "avx2", "avx512"}
Kinds == Extensions \cup {"rust", "gpu"}

ASSUME NonceGenAssumption ==
  /\ HashCap \in Nat \ {0} /\ HashCap % 2 = 0 /\ HashCap < NumHashes
  /\ \A extension \in Extensions : Lanes[extension] \in Nat \ {0}
  /\ GpuVector \in Nat \ {0} /\ Worksize \in Nat /\ Worksize % GpuVector = 0
  /\ HashesPerRun \in Nat \ {0} /\ NumHashes % HashesPerRun = 0
  /\ Base \in Nat \ {0} /\ CacheSize \in Nat

\* The scheduler gives each hasher slots of its own, and a GPU no more than its
\* buffer has room for.
ASSUME SharesAssumption ==
  \A share \in Shares :
    /\ share \in [Hashers -> [by : Kinds, offset : Nat, start : Nat, nonces : Nat]]
    /\ \A w \in Hashers :
         /\ share[w].offset + share[w].nonces <= CacheSize
         /\ share[w].by = "gpu" => share[w].nonces <= Worksize
         /\ \A other \in Hashers \ {w} :
              \/ share[w].offset + share[w].nonces <= share[other].offset
              \/ share[other].offset + share[other].nonces <= share[w].offset

VARIABLES
  task,       \* hasher |-> what it was asked to do
  cache,      \* the cache: address |-> word
  stored,     \* hasher |-> the nonces of its task that are in the cache
  device,     \* hasher |-> the buffer in GPU memory
  launched    \* hasher |-> the hashes the launches so far were for

vars == <<task, cache, stored, device, launched>>

P == 32749
Blank == P            \* a word of the cache that nobody wrote
Stale == P + 1        \* a word of memory that was never written, or long ago
TERM == 128           \* the bit that ends a message

\* f itself, which TLC evaluates here, once and for all.
Evaluated(f) == CHOOSE g \in {f} : g = f

\* The memory after a part of it has been written.
Over(written, memory) ==
  Evaluated([a \in DOMAIN memory |-> IF a \in DOMAIN written THEN written[a] ELSE memory[a]])

-----------------------------------------------------------------------------
\* Shabal-256 of n whole blocks: message[0] .. message[8 * n - 1].
Digest(message, n) ==
  LET word(k, j) == message[8 * (k - 1) + j]
      state[k \in 0 .. n] ==
        IF k = 0 THEN 7
        ELSE (1103 * state[k - 1] + 3 * word(k, 0) + 5 * word(k, 1) + 7 * word(k, 2)
                + 9 * word(k, 3) + 11 * word(k, 4) + 13 * word(k, 5) + 15 * word(k, 6)
                + 17 * word(k, 7) + 1) % P
      end == state[n]
  IN <<(3 * end) % P, (5 * end + 1) % P, (7 * end + 2) % P, (9 * end + 3) % P>>

\* Which word of its hash is at an address where vectors of L are interleaved.
WordAt(a, L) == ((a \div L) % HASH_SIZE) + 1

XorWord(a, b) == (a + b) % P

\* The nonce number in big-endian order; numbers wrap around.
Bswap(number) == LET x == number % (Base * Base) IN (x % Base) * Base + x \div Base

\* The three ways to end a message, for every lane of a vector of L nonces:
\* after whole blocks (1), after half a block, which starts with the first hash
\* (2), or cut off at HashCap (3).
Seed(L, numbers, a) ==
  CASE a \div L = 0 -> Bswap(NumericId)
    [] a \div L = 1 -> numbers[a % L]
    [] a \div L = 2 -> TERM
    [] OTHER -> 0
T1(L, numbers) == [a \in 0 .. 8 * L - 1 |-> Seed(L, numbers, a)]
T2(L, numbers, buffer) ==
  [a \in 0 .. 8 * L - 1 |->
     IF a < HASH_SIZE * L THEN buffer[(NONCE_SIZE - HASH_SIZE) * L + a]
                          ELSE Seed(L, numbers, a - HASH_SIZE * L)]
T3(L) == [a \in 0 .. 8 * L - 1 |-> IF a \div L = 0 THEN TERM ELSE 0]

\* The hashes, one per lane, of num blocks of the buffer from word i on, and
\* of the last block.
HashFast(L, buffer, i, term, num) ==
  LET word(k, j) == IF j < 8 * num THEN buffer[(i + j) * L + k] ELSE term[(j - 8 * num) * L + k]
  IN Evaluated([k \in 0 .. L - 1 |->
                  Digest([j \in 0 .. 8 * num + 7 |-> word(k, j)], num + 1)])

\* The buffer with the hashes of all lanes stored from word i on.
StoreLanes(L, buffer, i, hashes) ==
  Over([a \in i * L .. (i + HASH_SIZE) * L - 1 |-> hashes[a % L][a \div L - i + 1]], buffer)

\* round 1, which has no data but the seed
FirstRound(L, numbers) ==
  LET fresh == [a \in 0 .. L * NONCE_SIZE - 1 |-> Stale]
  IN StoreLanes(L, fresh, NONCE_SIZE - HASH_SIZE, HashFast(L, fresh, 0, T1(L, numbers), 0))

\* rounds 2 - 128 end in T1 or T2
SeededRound(L, numbers, buffer, i) ==
  HashFast(L, buffer, i,
           IF i % 8 = 0 THEN T1(L, numbers) ELSE T2(L, numbers, buffer),
           (NONCE_SIZE + 2 - i) \div 8)

\* the later rounds hash the HashCap hashes before them
CappedRound(L, buffer, i) ==
  HashFast(L, buffer, i, T3(L), (HashCap * HASH_SIZE) \div 8)

\* The buffer after all rounds.
Rounds(L, numbers) ==
  LET after[h \in 0 .. NumHashes - 1] ==
        IF h = NumHashes - 1 THEN FirstRound(L, numbers)
        ELSE LET buffer == after[h + 1]
                 i == (h + 1) * HASH_SIZE
             IN StoreLanes(L, buffer, i - HASH_SIZE,
                  IF i > NONCE_SIZE - HashCap * HASH_SIZE
                    THEN SeededRound(L, numbers, buffer, i) ELSE CappedRound(L, buffer, i))
  IN after[0]

\* All words of the buffer, XORed with the final hash.
Finished(L, numbers) ==
  LET buffer == Rounds(L, numbers)
      final == HashFast(L, buffer, 0, T1(L, numbers), (NONCE_SIZE + 2) \div 8)
  IN [a \in DOMAIN buffer |-> XorWord(buffer[a], final[a % L][WordAt(a, L)])]

\* Mutant of Unpacked: takes all nonces of the vector, wanted or not.
UnpackedWhole(buffer, from, L, count, slot) ==
  LET piece(i, k) ==
        LET start == CacheAddress(i, slot + k, CacheSize)
        IN [a \in start .. start + HASH_SIZE - 1 |->
              buffer[from + (i * HASH_SIZE + a - start) * L + k]]
      after[m \in 0 .. NumHashes * L] ==
        IF m = 0 THEN cache ELSE Over(piece((m - 1) \div L, (m - 1) % L), after[m - 1])
  IN after[NumHashes * L]

\* The cache after a vector has been unpacked: the first count nonces of the
\* vector that starts at word from of the buffer, to the slots from slot on.
Unpacked(buffer, from, L, count, slot) ==
  LET piece(i, k) ==
        LET start == CacheAddress(i, slot + k, CacheSize)
        IN [a \in start .. start + HASH_SIZE - 1 |->
              buffer[from + (i * HASH_SIZE + a - start) * L + k]]
      after[m \in 0 .. NumHashes * count] ==
        IF m = 0 THEN cache
        ELSE Over(piece((m - 1) \div count, (m - 1) % count), after[m - 1])
  IN after[NumHashes * count]

-----------------------------------------------------------------------------
\* The first nonce of its task a CPU hasher has not done yet.
NextNonce(w) == Cardinality(stored[w])

\* A vector is only computed if all of its nonces are wanted.
VectorLeft(w, L) == NextNonce(w) + L <= task[w].nonces

\* The hasher computes the next L nonces at once.
Vector(w, L) ==
  LET n == NextNonce(w)
      numbers == [k \in 0 .. L - 1 |-> Bswap(task[w].start + n + k)]
  IN /\ VectorLeft(w, L)
     /\ cache' = Unpacked(Finished(L, numbers), 0, L, L, n + task[w].offset)
     /\ stored' = [stored EXCEPT ![w] = @ \cup n .. n + L - 1]
     /\ UNCHANGED <<task, device, launched>>

\* A message that ends after len words, with the bit that ends it.
Padded(buffer, i, len) ==
  [j \in 0 .. 8 * (len \div 8) + 7 |->
     IF j < len THEN buffer[i + j] ELSE IF j = len THEN TERM ELSE 0]
Shabal256(buffer, i, len) == Digest(Padded(buffer, i, len), len \div 8 + 1)

\* Mutant of MessageLength: forgets that the seed counts as well.
MessageLengthUnseeded(i) ==
  IF i < NONCE_SIZE - HashCap * HASH_SIZE THEN HashCap * HASH_SIZE ELSE NONCE_SIZE + 2 - i

\* How much there is to hash for the hash before word i.
MessageLength(i) ==
  IF i < NONCE_SIZE + 2 - HashCap * HASH_SIZE THEN HashCap * HASH_SIZE ELSE NONCE_SIZE + 2 - i

\* A nonce on its own: the seed stays behind the hashes, and is hashed with them.
ScalarNonce(number) ==
  LET seeded == [a \in 0 .. NONCE_SIZE + 1 |->
                   CASE a = NONCE_SIZE -> Bswap(NumericId)
                     [] a = NONCE_SIZE + 1 -> Bswap(number)
                     [] OTHER -> Stale]
      after[h \in 0 .. NumHashes] ==
        IF h = NumHashes THEN seeded
        ELSE LET hashed == after[h + 1]
                 i == (h + 1) * HASH_SIZE
             IN StoreLanes(1, hashed, i - HASH_SIZE,
                           [k \in {0} |-> Shabal256(hashed, i, MessageLength(i))])
      buffer == after[0]
      final == Shabal256(buffer, 0, NONCE_SIZE + 2)
  IN [a \in 0 .. NONCE_SIZE - 1 |-> XorWord(buffer[a], final[WordAt(a, 1)])]

\* The nonces a vector is too long for.
Scalar(w, L) ==
  LET n == NextNonce(w)
  IN /\ n < task[w].nonces /\ ~VectorLeft(w, L)
     /\ cache' = Unpacked(ScalarNonce(task[w].start + n), 0, 1, 1, n + task[w].offset)
     /\ stored' = [stored EXCEPT ![w] = @ \cup {n}]
     /\ UNCHANGED <<task, device, launched>>

noncegen_sse2(w) ==
  /\ task[w].by = "sse2"
  /\ Vector(w, Lanes["sse2"]) \/ Scalar(w, Lanes["sse2"])

noncegen_avx(w) ==
  /\ task[w].by = "avx"
  /\ Vector(w, Lanes["avx"]) \/ Scalar(w, Lanes["avx"])

noncegen_avx2(w) ==
  /\ task[w].by = "avx2"
  /\ Vector(w, Lanes["avx2"]) \/ Scalar(w, Lanes["avx2"])

noncegen_avx512(w) ==
  /\ task[w].by = "avx512"
  /\ Vector(w, Lanes["avx512"]) \/ Scalar(w, Lanes["avx512"])

-----------------------------------------------------------------------------
\* The hash of the words from i up to another one and a block that ends them.
shabal256_fast(buffer, i, to, term) == HashFast(1, buffer, i, term, (to - i) \div 8)

\* noncegen_rust: one nonce, with the smart endings of the vectors.
RustNonce(number) ==
  LET numbers == [k \in {0} |-> Bswap(number)]
      t1 == T1(1, numbers)
      first == FirstRound(1, numbers)
      t2 == T2(1, numbers, first)
      after[h \in 0 .. NumHashes - 1] ==
        IF h = NumHashes - 1 THEN first
        ELSE LET buffer == after[h + 1]
                 i == (h + 1) * HASH_SIZE
             IN StoreLanes(1, buffer, i - HASH_SIZE,
                  IF i <= NONCE_SIZE - HashCap * HASH_SIZE
                    THEN shabal256_fast(buffer, i, i + HashCap * HASH_SIZE, T3(1))
                    ELSE shabal256_fast(buffer, i, NONCE_SIZE, IF i % 8 = 0 THEN t1 ELSE t2))
      all == after[0]
      final == shabal256_fast(all, 0, NONCE_SIZE, t1)[0]
  IN [a \in 0 .. NONCE_SIZE - 1 |-> XorWord(all[a], final[WordAt(a, 1)])]

noncegen_rust(w) ==
  LET n == NextNonce(w)
  IN /\ task[w].by = "rust"
     /\ n < task[w].nonces
     /\ cache' = Unpacked(RustNonce(task[w].start + n), 0, 1, 1, n + task[w].offset)
     /\ stored' = [stored EXCEPT ![w] = @ \cup {n}]
     /\ UNCHANGED <<task, device, launched>>

-----------------------------------------------------------------------------
Address(gid, hash, word) == VectorAddress(GpuVector, gid, hash, word)

\* MESSAGE_CAP counts blocks.  The final hash is the only one without a cap.
MESSAGE_CAP == HashCap \div 2
KernelBlocks(hash) ==
  LET num == (NumHashes - hash) \div 2
  IN IF hash # 0 /\ num > MESSAGE_CAP THEN MESSAGE_CAP ELSE num

\* The last block, by what came before it.
KernelEnding(buffer, gid, number, hash, num) ==
  LET seed == <<Bswap(NumericId), Bswap(number), TERM, 0>>
  IN [j \in 0 .. 7 |->
        CASE num = MESSAGE_CAP -> IF j = 0 THEN TERM ELSE 0
          [] num # MESSAGE_CAP /\ hash % 2 = 0 -> IF j < 4 THEN seed[j + 1] ELSE 0
          [] OTHER -> IF j < HASH_SIZE THEN buffer[Address(gid, NumHashes - 1, j)]
                                       ELSE seed[j - 3]]

\* One pass through the loop of the kernel: the digest of a work item.
KernelHash(buffer, gid, number, hash) ==
  LET num == KernelBlocks(hash)
      word(j) == IF j < 8 * num
                   THEN buffer[Address(gid, hash + j \div HASH_SIZE, j % HASH_SIZE)]
                   ELSE KernelEnding(buffer, gid, number, hash, num)[j - 8 * num]
  IN Digest([j \in 0 .. 8 * num + 7 |-> word(j)], num + 1)

\* Where the given hashes of a work item are.
Own(gid, hashes) == {Address(gid, h, x) : h \in hashes, x \in 0 .. HASH_SIZE - 1}

\* What one work item leaves in GPU memory.  The registers hold the digest of
\* the last pass; the launch that ends with the final hash adds it to all hashes.
KernelItem(memory, gid, number, start, end) ==
  LET last == NumHashes - end
      after[hash \in last .. NumHashes - start + 1] ==
        IF hash = NumHashes - start + 1
          THEN [hash |-> hash - 1, memory |-> memory, registers |-> <<>>]
        ELSE LET pass == after[hash + 1]
                 d == KernelHash(pass.memory, gid, number, pass.hash)
             IN [hash |-> pass.hash - 1, registers |-> d,
                 memory |-> IF hash = 0 THEN pass.memory
                            ELSE Over([j \in Own(gid, {hash - 1}) |-> d[WordAt(j, GpuVector)]],
                                      pass.memory)]
      done == after[last]
  IN IF end # NumHashes THEN done.memory
     ELSE Over([a \in Own(gid, 0 .. NumHashes - 1) |->
                  XorWord(done.memory[a], done.registers[WordAt(a, GpuVector)])],
               done.memory)

\* Mutant of LaunchEnd: leaves out a hash between two launches.
LaunchEndShort(i) == i + HashesPerRun - 2

\* The arguments start and end of the launch that comes after i hashes.
LaunchEnd(i) == IF i + HashesPerRun < NumHashes THEN i + HashesPerRun - 1 ELSE i + HashesPerRun

\* One launch of the kernel.  Work items beyond the nonces asked for return.
calculate_nonces(w) ==
  LET after[g \in 0 .. Worksize] ==
        IF g = 0 THEN device[w]
        ELSE LET memory == after[g - 1]
             IN IF g - 1 >= task[w].nonces THEN memory
                ELSE KernelItem(memory, g - 1, task[w].start + g - 1,
                                launched[w], LaunchEnd(launched[w]))
  IN /\ task[w].by = "gpu"
     /\ launched[w] < NumHashes
     /\ device' = [device EXCEPT ![w] = after[Worksize]]
     /\ launched' = [launched EXCEPT ![w] = @ + HashesPerRun]
     /\ UNCHANGED <<task, cache, stored>>

\* The vectors of a task, by their first nonce, and how many of a vector's
\* nonces the task has.
VectorStarts(w) == {n \in 0 .. task[w].nonces - 1 : n % GpuVector = 0}
VectorCount(w, n) ==
  IF GpuVector <= task[w].nonces - n THEN GpuVector ELSE task[w].nonces - n

\* A thread of the pool unpacks a vector, when the buffer has been transferred.
unpack_shuffle_scatter(w) ==
  \E n \in VectorStarts(w) \ stored[w] :
     /\ task[w].by = "gpu"
     /\ launched[w] = NumHashes
     /\ cache' = Unpacked(device[w], n * NONCE_SIZE, GpuVector, VectorCount(w, n),
                          n + task[w].offset)
     /\ stored' = [stored EXCEPT ![w] = @ \cup n .. n + VectorCount(w, n) - 1]
     /\ UNCHANGED <<task, device, launched>>

-----------------------------------------------------------------------------
Init ==
  /\ task \in Shares
  /\ cache = [a \in 0 .. CacheSize * NONCE_SIZE - 1 |-> Blank]
  /\ stored = [w \in Hashers |-> {}]
  /\ device = [w \in Hashers |->
                 [a \in (IF task[w].by = "gpu" THEN 0 .. Worksize * NONCE_SIZE - 1 ELSE {}) |-> Stale]]
  /\ launched = [w \in Hashers |-> 0]

CpuStep(w) ==
  \/ noncegen_sse2(w) \/ noncegen_avx(w) \/ noncegen_avx2(w) \/ noncegen_avx512(w)
  \/ noncegen_rust(w)
GpuStep(w) == calculate_nonces(w) \/ unpack_shuffle_scatter(w)

\* All hashers have returned.  In any other state without a next step a nonce
\* would be left to nobody, neither to the vectors nor to what follows them: TLC
\* reports it as a deadlock.
Returned ==
  /\ \A w \in Hashers : stored[w] = 0 .. task[w].nonces - 1
  /\ UNCHANGED vars

Next == (\E w \in Hashers : CpuStep(w) \/ GpuStep(w)) \/ Returned

Spec == Init /\ [][Next]_vars

-----------------------------------------------------------------------------
(* What a plot has to contain, by the definition of PoC2. *)

\* Word p of a nonce and its seed, from the hashes that are already known.
SeededWord(number, hashes, p) ==
  IF p < NONCE_SIZE THEN hashes[p \div HASH_SIZE][WordAt(p, 1)]
                    ELSE <<Bswap(NumericId), number>>[p - NONCE_SIZE + 1]

\* The digest of n words from word i on, ended and padded.
DigestFrom(number, hashes, i, n) ==
  Digest([j \in 0 .. 8 * (n \div 8) + 7 |->
            IF j < n THEN SeededWord(number, hashes, i + j) ELSE IF j = n THEN TERM ELSE 0],
         n \div 8 + 1)

\* How much of the words from word i on a hash is the digest of: HashCap hashes
\* at most.
Capped(i) ==
  LET all == NONCE_SIZE + 2 - i
  IN IF all > HashCap * HASH_SIZE THEN HashCap * HASH_SIZE ELSE all

\* The hashes of a nonce, from the last to the first: each is the digest of the
\* hashes behind it and the seed.
Hashes(number) ==
  LET from[h \in 0 .. NumHashes] ==
        IF h = NumHashes THEN <<>>
        ELSE LET behind == from[h + 1]
                 i == (h + 1) * HASH_SIZE
             IN Evaluated([g \in h .. NumHashes - 1 |->
                             IF g = h THEN DigestFrom(number, behind, i, Capped(i))
                                      ELSE behind[g]])
  IN from[0]

RawHashes(number) ==
  LET hashes == Hashes(number)
  IN [hashes |-> hashes, final |-> DigestFrom(number, hashes, 0, NONCE_SIZE + 2)]

\* The hashes of every nonce.
Reference == Evaluated([number \in 0 .. Base * Base - 1 |-> RawHashes(Bswap(number))])

\* A scoop of the plot: its own first hash, and the second one of its mirror.
Scoop(number, s) ==
  LET nonce == Reference[number % (Base * Base)]
      word(h, j) == XorWord(nonce.hashes[h][j + 1], nonce.final[j + 1])
  IN [j \in 0 .. SCOOP_SIZE - 1 |->
        IF j < HASH_SIZE THEN word(2 * s, j)
                         ELSE word(2 * (NumScoops - 1 - s) + 1, j - HASH_SIZE)]

\* What the writer will write of a slot as the given scoop.
CacheScoop(slot, s) ==
  [j \in 0 .. SCOOP_SIZE - 1 |-> cache[(s * CacheSize + slot) * SCOOP_SIZE + j]]

SlotsOf(w) == {task[w].offset + n : n \in stored[w]}

\* Every nonce in the cache is the nonce that belongs there, scoop by scoop,
\* whichever hasher made it: vectors, leftovers, launches and shuffle agree.
NoncesAreReference ==
  \A w \in Hashers : \A n \in stored[w] : \A s \in 0 .. NumScoops - 1 :
    CacheScoop(task[w].offset + n, s) = Scoop(task[w].start + n, s)

\* No hasher writes to a slot that is not one of its own nonces: lanes that the
\* task does not need stay out of the cache, also while others are at work.
OtherSlotsUntouched ==
  \A slot \in (0 .. CacheSize - 1) \ UNION {SlotsOf(w) : w \in Hashers} :
    \A s \in 0 .. NumScoops - 1, j \in 0 .. SCOOP_SIZE - 1 : CacheScoop(slot, s)[j] = Blank

\* Each launch of the kernel takes up where the previous one stopped: the hashes
\* of the launches so far are in GPU memory, without the final hash until the
\* last launch and with it afterwards, and nothing else was written.
LaunchesJoin ==
  \A w \in Hashers : task[w].by = "gpu" => \A g \in 0 .. Worksize - 1 :
    LET nonce == Reference[(task[w].start + g) % (Base * Base)]
    IN \A h \in 0 .. NumHashes - 1, j \in 0 .. HASH_SIZE - 1 :
         device[w][Address(g, h, j)] =
           IF g >= task[w].nonces \/ h < NumHashes - launched[w] THEN Stale
           ELSE IF launched[w] < NumHashes THEN nonce.hashes[h][j + 1]
           ELSE XorWord(nonce.hashes[h][j + 1], nonce.final[j + 1])
=============================================================================
