----------------------------- MODULE MultiShabal -----------------------------
(***************************************************************************)
(* The SIMD hashers mshabal_*: as many messages side by side as a vector    *)
(* has words, one in each lane.  A context holds a buffer for each lane,    *)
(* one length for all of them, the state and the counter of blocks.         *)
(* Messages are streamed (init, update, close), with lanes that may be      *)
(* switched off by a NULL pointer, or hashed in one call from words that    *)
(* lie interleaved in memory (hash_fast, deadline_fast).                    *)
(*                                                                          *)
(* What the rounds compute is module Shabal256.  Here the state of a lane   *)
(* is the blocks it has absorbed, each with the counter it was mixed with,  *)
(* and a word of a digest is a word of that state.                          *)
(*                                                                          *)
(* The names keep clear of those of module ShabalStream: the proofs about    *)
(* both are in one module, ShabalProofs.                                     *)
(***************************************************************************)
EXTENDS Integers, Sequences, SequencesExt, FiniteSets, ShabalEnd

CONSTANTS
  Simds,          \* the instruction sets to look at
  OutSizes,       \* the digest sizes in bits
  Pieces(_),      \* of so many lanes: lengths, each with the lanes that have no data
  Ends(_),        \* of so many lanes: ub, n and the lanes that have no dst
  MaxPieces,      \* bound: updates of a message
  MaxBegun,       \* bound: messages streamed with one context
  MaxBlocks,      \* bound: blocks given to hash_fast
  MaxFast         \* bound: fast calls with one context

BUF_SIZE == 64                      \* sizeof sc->buf0
WORDS == 16

\* "The output size must be a multiple of 32, between 32 and 512 (inclusive)."
ASSUME OutSizeAssumption == OutSizes \subseteq {32 * z : z \in 1 .. 16}

\* What callers give: lengths and lanes, bytes, and less than a byte of bits.
ASSUME CallerAssumption ==
  /\ Simds \subseteq {"sse2", "avx", "avx2", "avx512f"}
  /\ MaxBlocks \in Nat
  /\ \A v \in {4, 8, 16} :
       /\ \A piece \in Pieces(v) : piece.len \in Nat /\ piece.off \subseteq 0 .. v - 1
       /\ \A e \in Ends(v) : e.ub \in [0 .. v - 1 -> 0 .. 255] /\ e.n \in 0 .. 7

VARIABLES
  simd,           \* the instruction set in use
  msc,            \* the context
  live,           \* the lanes that had data in every update
  total,          \* the bytes streamed to each of them
  pieces,         \* in how many updates
  begun,          \* how many messages were begun
  end,            \* how the message was closed, <<>> before
  fast,           \* the context of the fast functions
  calls,          \* the blocks of the fast calls
  dst             \* what close or the last fast call wrote

multiVars == <<simd, msc, live, total, pieces, begun, end, fast, calls, dst>>

\* The words of a vector.
MSHABAL_VECTOR_SIZE == [sse2 |-> 4, avx |-> 4, avx2 |-> 8, avx512f |-> 16]
V == MSHABAL_VECTOR_SIZE[simd]
LanesOf(v) == 0 .. v - 1
Lanes == LanesOf(V)

-----------------------------------------------------------------------------
(* mshabal_compress *)

\* *(u32 *)(buf + o)
U32(buf, o) == <<buf[o], buf[o + 1], buf[o + 2], buf[o + 3]>>

\* What lane k absorbs as block b of its data: every vector M(i) is filled from
\* all the buffers at an offset, its index j divided by d.
Gathered(buf, b, v, d) ==
  [i \in 0 .. WORDS - 1 |-> U32(buf, BUF_SIZE * b + (i * v) \div d)]

\* num blocks from each of the buffers, counted as they are absorbed.
Compress(c, bufs, num, v, d) ==
  [c EXCEPT
     !.state = [k \in LanesOf(v) |->
        c.state[k] \o [b \in 1 .. num |->
           [block |-> Gathered(bufs[k], b - 1, v, d), w |-> c.w + b - 1]]],
     !.w = @ + num]

compress_sse2(c, bufs, num) == Compress(c, bufs, num, 4, 1)
compress_avx(c, bufs, num) == Compress(c, bufs, num, 4, 1)
compress_avx2(c, bufs, num) == Compress(c, bufs, num, 8, 2)
compress_avx512f(c, bufs, num) == Compress(c, bufs, num, 16, 4)

compress(s, c, bufs, num) ==
  CASE s = "sse2" -> compress_sse2(c, bufs, num)
    [] s = "avx" -> compress_avx(c, bufs, num)
    [] s = "avx2" -> compress_avx2(c, bufs, num)
    [] s = "avx512f" -> compress_avx512f(c, bufs, num)

-----------------------------------------------------------------------------
(* mshabal_init *)

Numbered(from) ==
  [p \in 0 .. BUF_SIZE - 1 |->
     LET n == from + p \div 4
     IN IF p % 4 = 0 THEN n % 256 ELSE IF p % 4 = 1 THEN n \div 256 ELSE 0]

\* Two blocks of numbers in every lane, counted as blocks -1 and 0.
InitContext(s, out_size) ==
  LET v == MSHABAL_VECTOR_SIZE[s]
      blank == [buf |-> [k \in LanesOf(v) |-> Numbered(out_size)], ptr |-> 0,
                state |-> [k \in LanesOf(v) |-> <<>>], w |-> -1, out_size |-> out_size]
      once == compress(s, blank, blank.buf, 1)
      next == [k \in LanesOf(v) |-> Numbered(out_size + 16)]
  IN  [compress(s, once, next, 1) EXCEPT !.buf = next]

mshabal_init_sse2(out_size) == InitContext("sse2", out_size)
mshabal_init_avx(out_size) == InitContext("avx", out_size)
mshabal_init_avx2(out_size) == InitContext("avx2", out_size)
mshabal_init_avx512f(out_size) == InitContext("avx512f", out_size)

-----------------------------------------------------------------------------
(* mshabal: data[k] is the data of lane k, bytes from 0 on; a lane that is    *)
(* given NULL is not in its domain.                                           *)

\* Lanes without data get that of lane 0, which gets that of the first other one.
Substituted(data, v) ==
  LET first == CHOOSE k \in DOMAIN data : \A i \in DOMAIN data : k <= i
  IN  [k \in LanesOf(v) |-> data[IF k \in DOMAIN data THEN k ELSE first]]

\* memcpy(buf + ptr, data, len)
Copied(buf, ptr, data, len) ==
  [p \in 0 .. BUF_SIZE - 1 |-> IF p \in ptr .. ptr + len - 1 THEN data[p - ptr] ELSE buf[p]]
Behind(data, n) == [p \in 0 .. Cardinality(DOMAIN data) - n - 1 |-> data[p + n]]

\* Mutant of Directly: the rest is taken from the start of the data.
DirectlyNotAdvanced(s, c, data, len) ==
  LET num == len \div BUF_SIZE
      done == IF num # 0 THEN compress(s, c, data, num) ELSE c
      rest == len % BUF_SIZE
  IN  [done EXCEPT !.ptr = rest,
                   !.buf = [k \in DOMAIN data |-> Copied(@[k], 0, data[k], rest)]]

\* Whole blocks are absorbed where they lie, the rest is kept in the buffers.
Directly(s, c, data, len) ==
  LET num == len \div BUF_SIZE
      done == IF num # 0 THEN compress(s, c, data, num) ELSE c
      rest == len % BUF_SIZE
  IN  [done EXCEPT !.ptr = rest,
                   !.buf = [k \in DOMAIN data |->
                              Copied(@[k], 0, Behind(data[k], num * BUF_SIZE), rest)]]

\* A block that is begun is filled up first, and kept if that does not complete it.
Update(s, c, given, len) ==
  IF DOMAIN given = {} THEN c
  ELSE LET data == Substituted(given, MSHABAL_VECTOR_SIZE[s])
           clen == BUF_SIZE - c.ptr
           Filled(n) == [k \in DOMAIN data |-> Copied(c.buf[k], c.ptr, data[k], n)]
       IN  IF c.ptr = 0 THEN Directly(s, c, data, len)
           ELSE IF clen > len THEN [c EXCEPT !.buf = Filled(len), !.ptr = @ + len]
           ELSE LET full == [c EXCEPT !.buf = Filled(clen)]
                IN  Directly(s, compress(s, full, full.buf, 1),
                             [k \in DOMAIN data |-> Behind(data[k], clen)], len - clen)

mshabal_sse2(c, data, len) == Update("sse2", c, data, len)
mshabal_avx(c, data, len) == Update("avx", c, data, len)
mshabal_avx2(c, data, len) == Update("avx2", c, data, len)
mshabal_avx512f(c, data, len) == Update("avx512f", c, data, len)

-----------------------------------------------------------------------------
(* mshabal_close *)

\* The state is an array of vectors: 12 of A, 16 of B, 16 of C.  Word m of the
\* array is the word of vector m \div V in the lane m % V.
StateWord(state, m) ==
  LET v == Cardinality(DOMAIN state)
  IN  [vector |-> m \div v, absorbed |-> state[m % v]]

EndBlock(buf, ptr, mark) ==
  [p \in 0 .. BUF_SIZE - 1 |-> IF p < ptr THEN buf[p] ELSE IF p = ptr THEN mark ELSE 0]

\* Mutant of FourTimes: the counter goes on.
FourTimesCounted(s, c, bufs) ==
  LET round[i \in 0 .. 4] == IF i = 0 THEN c ELSE compress(s, round[i - 1], bufs, 1)
  IN  round[4]

\* compress, then if (sc->Wlow-- == 0) sc->Whigh--
FourTimes(s, c, bufs) ==
  LET round[i \in 0 .. 4] ==
        IF i = 0 THEN c
        ELSE LET after == compress(s, round[i - 1], bufs, 1) IN [after EXCEPT !.w = @ - 1]
  IN  round[4]

\* The context afterwards, and the words that go to dst.
CloseContext(s, c, ub, n) ==
  LET last == [k \in DOMAIN c.buf |-> EndBlock(c.buf[k], c.ptr, MarkByte(ub[k], n))]
  IN  FourTimes(s, [c EXCEPT !.buf = last], last)

Written(c, k, v) ==
  LET out_size_w32 == c.out_size \div 32
      off == v * (28 + (16 - out_size_w32))
  IN  [z \in 0 .. out_size_w32 - 1 |-> StateWord(c.state, off + z * v + k)]

mshabal_close_sse2(c, ub, n) == CloseContext("sse2", c, ub, n)
mshabal_close_avx(c, ub, n) == CloseContext("avx", c, ub, n)
mshabal_close_avx2(c, ub, n) == CloseContext("avx2", c, ub, n)
mshabal_close_avx512f(c, ub, n) == CloseContext("avx512f", c, ub, n)

-----------------------------------------------------------------------------
(* mshabal_hash_fast, mshabal_deadline_fast.  Words lie in memory as vectors, *)
(* word i of lane k of block b at (16 * b + i) * V + k.                       *)

\* init_shabal: state and counter are copied, not the buffers.
Fast(c) == [state |-> c.state, w |-> c.w]

\* Vector i of block b: M(i), with message advanced behind every block.
Vectors(words, b, v) ==
  [k \in LanesOf(v) |-> [i \in 0 .. WORDS - 1 |-> words[(WORDS * b + i) * v + k]]]

Round(f, block) ==
  [state |-> [k \in DOMAIN f.state |-> Append(f.state[k], [block |-> block[k], w |-> f.w])],
   w |-> f.w + 1]

\* Rounds 1 to 5: the message, then the last block four times with one counter.
Rounds(f, message, termination, num, v) ==
  LET block[b \in 0 .. num] ==
        IF b = 0 THEN f ELSE Round(block[b - 1], Vectors(message, b - 1, v))
      last[i \in 0 .. 4] ==
        IF i = 0 THEN block[num]
        ELSE [Round(last[i - 1], Vectors(termination, 0, v)) EXCEPT !.w = @ - 1]
  IN  last[4]

\* Mutant of ResetW: the counter stays.
ResetWForgotten(f, after) == [f EXCEPT !.w = after.w]

\* The state is not written back, the counter is reset: the context is as it was.
ResetW(f, after) == [f EXCEPT !.w = 1]

\* Vectors 8 to 15 of C go to dst as they are.
HashFast(f, message, termination, num, v) ==
  LET after == Rounds(f, message, termination, num, v)
  IN  [context |-> ResetW(f, after),
       dst |-> [n \in 0 .. 8 * v - 1 |-> StateWord(after.state, (12 + 16 + 8) * v + n)]]

mshabal_hash_fast_sse2(f, message, termination, num) == HashFast(f, message, termination, num, 4)
mshabal_hash_fast_avx(f, message, termination, num) == HashFast(f, message, termination, num, 4)
mshabal_hash_fast_avx2(f, message, termination, num) == HashFast(f, message, termination, num, 8)
mshabal_hash_fast_avx512f(f, message, termination, num) ==
  HashFast(f, message, termination, num, 16)

\* One block; vectors 8 and 9 of C are unpacked, two words for each lane.
DeadlineFast(f, message, termination, v) ==
  LET after == Rounds(f, message, termination, 1, v)
      simd_dst == [n \in 0 .. 2 * v - 1 |-> StateWord(after.state, (12 + 16 + 8) * v + n)]
  IN  [context |-> ResetW(f, after),
       dst |-> [k \in LanesOf(v) |-> [z \in 0 .. 1 |-> simd_dst[z * v + k]]]]

mshabal_deadline_fast_sse2(f, message, termination) == DeadlineFast(f, message, termination, 4)
mshabal_deadline_fast_avx(f, message, termination) == DeadlineFast(f, message, termination, 4)
mshabal_deadline_fast_avx2(f, message, termination) == DeadlineFast(f, message, termination, 8)
mshabal_deadline_fast_avx512f(f, message, termination) ==
  DeadlineFast(f, message, termination, 16)

-----------------------------------------------------------------------------
(* A caller.  Every lane has bytes of its own, and words of its own, all of    *)
(* them different, so that no lane, position or message is taken for another. *)

Byte(k, p) == 256 + 1000 * k + p
Data(k, from, len) == [p \in 0 .. len - 1 |-> Byte(k, from + p)]

mshabal_init(s, out_size) ==
  CASE s = "sse2" -> mshabal_init_sse2(out_size)
    [] s = "avx" -> mshabal_init_avx(out_size)
    [] s = "avx2" -> mshabal_init_avx2(out_size)
    [] s = "avx512f" -> mshabal_init_avx512f(out_size)
mshabal(s, c, data, len) ==
  CASE s = "sse2" -> mshabal_sse2(c, data, len)
    [] s = "avx" -> mshabal_avx(c, data, len)
    [] s = "avx2" -> mshabal_avx2(c, data, len)
    [] s = "avx512f" -> mshabal_avx512f(c, data, len)
mshabal_close(s, c, ub, n) ==
  CASE s = "sse2" -> mshabal_close_sse2(c, ub, n)
    [] s = "avx" -> mshabal_close_avx(c, ub, n)
    [] s = "avx2" -> mshabal_close_avx2(c, ub, n)
    [] s = "avx512f" -> mshabal_close_avx512f(c, ub, n)
mshabal_hash_fast(s, f, message, termination, num) ==
  CASE s = "sse2" -> mshabal_hash_fast_sse2(f, message, termination, num)
    [] s = "avx" -> mshabal_hash_fast_avx(f, message, termination, num)
    [] s = "avx2" -> mshabal_hash_fast_avx2(f, message, termination, num)
    [] s = "avx512f" -> mshabal_hash_fast_avx512f(f, message, termination, num)
mshabal_deadline_fast(s, f, message, termination) ==
  CASE s = "sse2" -> mshabal_deadline_fast_sse2(f, message, termination)
    [] s = "avx" -> mshabal_deadline_fast_avx(f, message, termination)
    [] s = "avx2" -> mshabal_deadline_fast_avx2(f, message, termination)
    [] s = "avx512f" -> mshabal_deadline_fast_avx512f(f, message, termination)

MultiInit ==
  /\ simd \in Simds
  /\ \E out_size \in OutSizes : msc = mshabal_init(simd, out_size)
  /\ live = Lanes /\ total = 0 /\ pieces = 0 /\ begun = 1 /\ end = <<>>
  /\ fast = Fast(mshabal_init(simd, 256))
  /\ calls = <<>> /\ dst = <<>>

\* An update is for the caller to make while the message is not closed.
UpdateLanes(len, off) ==
  /\ end = <<>> /\ calls = <<>> /\ pieces < MaxPieces
  /\ msc' = mshabal(simd, msc, [k \in Lanes \ off |-> Data(k, total, len)], len)
  /\ live' = IF len > 0 THEN live \ off ELSE live
  /\ total' = total + len
  /\ pieces' = pieces + 1
  /\ UNCHANGED <<simd, begun, end, fast, calls, dst>>

CloseLanes(ub, n, off) ==
  /\ end = <<>> /\ calls = <<>>
  /\ msc' = mshabal_close(simd, msc, ub, n)
  /\ dst' = [k \in Lanes \ off |-> Written(msc', k, V)]
  /\ end' = [ub |-> ub, n |-> n]
  /\ UNCHANGED <<simd, live, total, pieces, begun, fast, calls>>

\* A closed context is invalid until it is initialized again.
InitAgain ==
  /\ end # <<>> /\ begun < MaxBegun
  /\ \E out_size \in OutSizes : msc' = mshabal_init(simd, out_size)
  /\ live' = Lanes /\ total' = 0 /\ pieces' = 0 /\ begun' = begun + 1 /\ end' = <<>>
  /\ dst' = <<>>
  /\ UNCHANGED <<simd, fast, calls>>

\* Word i of block b of lane k in fast call c, and the memory it lies in.
Word(c, k, b, i) == 100000 * c + 1000 * k + WORDS * b + i
Memory(c, from, num) ==
  [m \in 0 .. WORDS * num * V - 1 |->
     Word(c, m % V, from + m \div (WORDS * V), (m \div V) % WORDS)]

\* The fast functions are used on a context that does nothing else.
Untouched == pieces = 0 /\ begun = 1 /\ end = <<>> /\ Len(calls) < MaxFast

CallHashFast(num) ==
  /\ Untouched
  /\ LET c == Len(calls) + 1
         made == mshabal_hash_fast(simd, fast, Memory(c, 0, num), Memory(c, num, 1), num)
     IN fast' = made.context /\ dst' = made.dst
  /\ calls' = Append(calls, [deadline |-> FALSE, num |-> num])
  /\ UNCHANGED <<simd, msc, live, total, pieces, begun, end>>

CallDeadlineFast ==
  /\ Untouched
  /\ LET c == Len(calls) + 1
         made == mshabal_deadline_fast(simd, fast, Memory(c, 0, 1), Memory(c, 1, 1))
     IN fast' = made.context /\ dst' = made.dst
  /\ calls' = Append(calls, [deadline |-> TRUE, num |-> 1])
  /\ UNCHANGED <<simd, msc, live, total, pieces, begun, end>>

MultiNext ==
  \/ \E piece \in Pieces(V) : UpdateLanes(piece.len, piece.off)
  \/ \E e \in Ends(V) : CloseLanes(e.ub, e.n, e.off)
  \/ InitAgain
  \/ \E num \in 0 .. MaxBlocks : CallHashFast(num)
  \/ CallDeadlineFast

MultiSpec == MultiInit /\ [][MultiNext]_multiVars

-----------------------------------------------------------------------------
(* What Shabal demands of one message, a sequence of blocks: two blocks of     *)
(* numbers that stand for the size of the digest, the blocks counted from one, *)
(* the last one three times more, and the digest the last words of C.          *)

Counted(blocks, from) == [b \in DOMAIN blocks |-> [block |-> blocks[b], w |-> from + b - 1]]
PrefixBlock(n) == [i \in 0 .. WORDS - 1 |-> <<(n + i) % 256, (n + i) \div 256, 0, 0>>]
Absorbed(out_size, blocks) ==
  Counted(<<PrefixBlock(out_size), PrefixBlock(out_size + 16)>>, -1) \o Counted(blocks, 1)
DigestWords(out_size, blocks, length) ==
  LET last == [block |-> blocks[Len(blocks)], w |-> Len(blocks)]
      out == out_size \div 32
  IN  [z \in 0 .. length - 1 |->
         [vector |-> 12 + 16 + 16 - out + z,
          absorbed |-> Absorbed(out_size, blocks) \o <<last, last, last>>]]

\* Blocks of a text: a byte at each position.
BlockOf(text(_), b) ==
  [i \in 0 .. WORDS - 1 |-> [j \in 1 .. 4 |-> text(BUF_SIZE * (b - 1) + 4 * i + j - 1)]]
BlocksOf(text(_), n) == [b \in 1 .. n |-> BlockOf(text, b)]

\* While messages arrive, a lane that always had data has absorbed the whole
\* blocks of its own bytes and keeps the rest of them, wherever the pieces were
\* cut and whatever became of the other lanes.
LanesArriving ==
  end = <<>> =>
    /\ live # {} => msc.ptr = total % BUF_SIZE
    /\ \A k \in live :
         LET full == total \div BUF_SIZE
             own(p) == Byte(k, p)
         IN  /\ msc.state[k] = Absorbed(msc.out_size, BlocksOf(own, full))
             /\ \A p \in 0 .. msc.ptr - 1 : msc.buf[k][p] = own(BUF_SIZE * full + p)

\* "this is the number of extra bits to extract from ub0, ub1, ..." (mshabal_*.h):
\* what close writes for a lane is the digest of its own bytes and bits, of the
\* size that was asked for.
LaneDigests ==
  end # <<>> =>
    \A k \in live \cap DOMAIN dst :
      LET text(p) == IF p < total THEN Byte(k, p)
                     ELSE IF p = total THEN EndOfBits(end.ub[k], end.n) ELSE 0
      IN  dst[k] = DigestWords(msc.out_size, BlocksOf(text, total \div BUF_SIZE + 1),
                               msc.out_size \div 32)

\* Each fast call digests the interleaved words of every lane on its own, the same
\* with a context that has been used before; a deadline is the first two words.
FastDigests ==
  calls # <<>> =>
    LET c == Len(calls)
        last == calls[c]
        blocks(k) == [b \in 1 .. last.num + 1 |-> [i \in 0 .. WORDS - 1 |-> Word(c, k, b - 1, i)]]
    IN  \A k \in Lanes :
          IF last.deadline THEN dst[k] = DigestWords(256, blocks(k), 2)
          ELSE [j \in 0 .. 7 |-> dst[j * V + k]] = DigestWords(256, blocks(k), 8)
=============================================================================
