------------------------------ MODULE Shabal256 ------------------------------
(***************************************************************************)
(* The ways in which the program computes Shabal-256 digests of whole       *)
(* messages, on 32-bit words:                                               *)
(*   rust   shabal256_fast, from tables of initial values; the OpenCL       *)
(*          kernel takes the same steps;                                    *)
(*   sph    sph_shabal_hash_fast and sph_shabal_deadline_fast;              *)
(*   simd   mshabal_hash_fast, here one lane of it, from initial values     *)
(*          that mshabal_init computes, with the message taken off again    *)
(*          and the counter taken back between the rounds at the end, and   *)
(*          with a context that is used again for the next message.         *)
(* A 32-bit word is a pair of two 16-bit halves, the high one first.        *)
(***************************************************************************)
EXTENDS Integers, Sequences, Bitwise

CONSTANTS
  Messages,       \* what there is to hash: records of whole blocks and a last one
  MaxMessages     \* bound: how many messages are hashed one after the other

VARIABLES
  message,        \* what is being hashed
  count,          \* the messages so far
  rust,           \* the state of shabal256_fast
  simd,           \* the context of the SIMD hasher and where it is
  sph             \* what the sph functions return, and the SIMD deadline

vars == <<message, count, rust, simd, sph>>

-----------------------------------------------------------------------------
HALF == 65536
ZERO == <<0, 0>>
Add(x, y) ==
  LET low == x[2] + y[2] IN <<(x[1] + y[1] + low \div HALF) % HALF, low % HALF>>
Sub(x, y) ==
  LET low == x[2] - y[2] IN <<(x[1] - y[1] + low \div HALF) % HALF, low % HALF>>
Mul(x, k) ==
  LET low == x[2] * k IN <<(x[1] * k + low \div HALF) % HALF, low % HALF>>
Xor32(x, y) == <<x[1] ^^ y[1], x[2] ^^ y[2]>>
And32(x, y) == <<x[1] & y[1], x[2] & y[2]>>
Not32(x) == <<HALF - 1 - x[1], HALF - 1 - x[2]>>
\* rotation to the left by less than 16
Rotl(x, n) ==
  LET out(h) == h \div 2 ^ (16 - n)
  IN <<((x[1] * 2 ^ n) % HALF) + out(x[2]), ((x[2] * 2 ^ n) % HALF) + out(x[1])>>
\* rotation to the left by 17: by 16, then by one
Rotl17(x) == Rotl(<<x[2], x[1]>>, 1)

A_INIT ==
  <<<<\h52F8, \h4552>>, <<\hE54B, \h7999>>, <<\h2D8E, \hE3EC>>, <<\hB964, \h5191>>,
    <<\hE007, \h8B86>>, <<\hBB7C, \h44C9>>, <<\hD2B5, \hC1CA>>, <<\hB0D2, \hEB8C>>,
    <<\h14CE, \h5A45>>, <<\h22AF, \h50DC>>, <<\hEFFD, \hBC6B>>, <<\hEB21, \hB74A>>>>
B_INIT ==
  <<<<\hB555, \hC6EE>>, <<\h3E71, \h0596>>, <<\hA72A, \h652F>>, <<\h9301, \h515F>>,
    <<\hDA28, \hC1FA>>, <<\h696F, \hD868>>, <<\h9CB6, \hBF72>>, <<\h0AFE, \h4002>>,
    <<\hA6E0, \h3615>>, <<\h5138, \hC1D4>>, <<\hBE21, \h6306>>, <<\hB38B, \h8890>>,
    <<\h3EA8, \hB96B>>, <<\h3299, \hACE4>>, <<\h3092, \h4DD4>>, <<\h55CB, \h34A5>>>>
C_INIT ==
  <<<<\hB405, \hF031>>, <<\hC423, \h3EBA>>, <<\hB373, \h3979>>, <<\hC0DD, \h9D55>>,
    <<\hC51C, \h28AE>>, <<\hA327, \hB8E1>>, <<\h56C5, \h6167>>, <<\hED61, \h4433>>,
    <<\h88B5, \h9D60>>, <<\h60E2, \hCEBA>>, <<\h758B, \h4B8B>>, <<\h83E8, \h2A7F>>,
    <<\hBC96, \h8828>>, <<\hE6E0, \h0BF7>>, <<\hBA83, \h9E55>>, <<\h9B49, \h1C60>>>>

\* Tables count from one, a, b and c from zero.
FromZero(table) == [i \in 0 .. Len(table) - 1 |-> table[i + 1]]

-----------------------------------------------------------------------------
(* The permutation.  A state s has the words a, b, c and the counter. *)

\* Mutant of perm_elt: b takes the word of a from before.
PermEltOldA(s, data, i) ==
  LET x == i % 12
      y == i % 16
      turned == Mul(Rotl(s.a[(i + 11) % 12], 15), 5)
      mixed == Mul(Xor32(Xor32(s.a[x], turned), s.c[(8 - i) % 16]), 3)
      kept == And32(s.b[(i + 9) % 16], Not32(s.b[(i + 6) % 16]))
      anew == Xor32(Xor32(Xor32(mixed, s.b[(i + 13) % 16]), kept), data[y + 1])
  IN [s EXCEPT !.a[x] = anew, !.b[y] = Not32(Xor32(Rotl(s.b[y], 1), s.a[x]))]

\* Element i of the 48: the rows of perm, with the indices they follow.
perm_elt(s, data, i) ==
  LET x == i % 12
      y == i % 16
      turned == Mul(Rotl(s.a[(i + 11) % 12], 15), 5)
      mixed == Mul(Xor32(Xor32(s.a[x], turned), s.c[(8 - i) % 16]), 3)
      kept == And32(s.b[(i + 9) % 16], Not32(s.b[(i + 6) % 16]))
      anew == Xor32(Xor32(Xor32(mixed, s.b[(i + 13) % 16]), kept), data[y + 1])
  IN [s EXCEPT !.a[x] = anew, !.b[y] = Not32(Xor32(Rotl(s.b[y], 1), anew))]

\* The 48 elements in turn.  (TLC evaluates s when it looks at its domain, not at the
\* bottom of the recursion.)
perm(s, data) ==
  LET after[i \in 0 .. 48] == IF i = 0 THEN s ELSE perm_elt(after[i - 1], data, i - 1)
  IN CASE DOMAIN s.a = 0 .. 11 -> after[48]

\* What is added to a[i] at the end: three words of c, four apart.
AddC(s) ==
  [s EXCEPT !.a = [i \in 0 .. 11 |->
     Add(Add(Add(s.a[i], s.c[(i + 11) % 16]), s.c[(i + 15) % 16]), s.c[(i + 3) % 16])]]

apply_p(s, data) == AddC(perm([s EXCEPT !.b = [j \in 0 .. 15 |-> Rotl17(s.b[j])]], data))

input_block_add(s, data) == [s EXCEPT !.b = [j \in 0 .. 15 |-> Add(s.b[j], data[j + 1])]]
input_block_sub(s, data) == [s EXCEPT !.c = [j \in 0 .. 15 |-> Sub(s.c[j], data[j + 1])]]
xor_w(s) == [s EXCEPT !.a[0] = Xor32(@, s.w_low), !.a[1] = Xor32(@, s.w_high)]
swap_bc(s) == [s EXCEPT !.b = s.c, !.c = s.b]
One == <<0, 1>>
incr_w(s) ==
  LET low == Add(s.w_low, One)
  IN [s EXCEPT !.w_low = low, !.w_high = IF low = ZERO THEN Add(@, One) ELSE @]

\* if (sc->Wlow-- == 0) sc->Whigh--;
decr_w(s) ==
  [s EXCEPT !.w_low = Sub(@, One), !.w_high = IF s.w_low = ZERO THEN Sub(@, One) ELSE @]

-----------------------------------------------------------------------------
(* shabal256_fast *)

RustInit ==
  [a |-> FromZero(A_INIT), b |-> FromZero(B_INIT), c |-> FromZero(C_INIT),
   w_low |-> One, w_high |-> ZERO]

\* One pass of the loop over whole blocks.
RustRound(s, data) ==
  incr_w(swap_bc(input_block_sub(apply_p(xor_w(input_block_add(s, data)), data), data)))

RustBlock ==
  /\ rust.at < Len(message.blocks)
  /\ rust' = [rust EXCEPT !.at = @ + 1, !.s = RustRound(@, message.blocks[rust.at + 1])]
  /\ UNCHANGED <<message, count, simd, sph>>

\* The last block: added once, and three more rounds with the same counter.
RustTerm(s, term) ==
  LET again(t) == apply_p(xor_w(swap_bc(t)), term)
  IN again(again(again(apply_p(xor_w(input_block_add(s, term)), term))))

RustEnd ==
  /\ rust.at = Len(message.blocks) /\ rust.digest = <<>>
  /\ LET s == RustTerm(rust.s, message.term)
     IN rust' = [rust EXCEPT !.digest = [j \in 1 .. 8 |-> s.b[7 + j]]]
  /\ UNCHANGED <<message, count, simd, sph>>

-----------------------------------------------------------------------------
(* mshabal_init and mshabal_hash_fast *)

\* b becomes c without the message, c becomes b.
SwapAndSub(s, data) == [s EXCEPT !.b = [j \in 0 .. 15 |-> Sub(s.c[j], data[j + 1])], !.c = s.b]

\* One pass of the loops of mshabal_compress and mshabal_hash_fast.
SimdRound(s, data) == incr_w(SwapAndSub(apply_p(xor_w(input_block_add(s, data)), data), data))

\* Mutant of InitBlock: the numbers start one too high.
InitBlockOneUp(from) == [j \in 1 .. 16 |-> <<0, 256 + from + j>>]

\* Two blocks of numbers, counted as blocks -1 and 0, make the initial state.
InitBlock(from) == [j \in 1 .. 16 |-> <<0, 256 + from + j - 1>>]
SimdInit ==
  LET ones == <<HALF - 1, HALF - 1>>
      blank == [a |-> [i \in 0 .. 11 |-> ZERO], b |-> [j \in 0 .. 15 |-> ZERO],
                c |-> [j \in 0 .. 15 |-> ZERO], w_low |-> ones, w_high |-> ones]
  IN SimdRound(SimdRound(blank, InitBlock(0)), InitBlock(16))

\* What hash_fast loads: the initial state, and the counter of the context.
SimdLoad(w) == [simd.global EXCEPT !.w_low = w.w_low, !.w_high = w.w_high]

SimdBlock ==
  /\ simd.at < Len(message.blocks)
  /\ simd' = [simd EXCEPT !.at = @ + 1, !.s = SimdRound(@, message.blocks[simd.at + 1])]
  /\ UNCHANGED <<message, count, rust, sph>>

\* Rounds 2-5: the last block four times, the counter taken back each time.
SimdTerm ==
  /\ simd.at = Len(message.blocks) /\ simd.rounds < 4
  /\ simd' = [simd EXCEPT !.rounds = @ + 1, !.s = decr_w(SimdRound(@, message.term))]
  /\ UNCHANGED <<message, count, rust, sph>>

\* Mutant of SimdReset: the context keeps its counter.
SimdResetForgotten(s) == s

\* The counter the context is left with: reset Wlow & Whigh.
SimdReset(s) == [s EXCEPT !.w_low = One, !.w_high = ZERO]

SimdEnd ==
  /\ simd.rounds = 4 /\ simd.digest = <<>>
  /\ simd' = [simd EXCEPT !.digest = [j \in 1 .. 8 |-> simd.s.c[7 + j]], !.s = SimdReset(@)]
  /\ UNCHANGED <<message, count, rust, sph>>

-----------------------------------------------------------------------------
(* sph_shabal_hash_fast, and the deadlines: the first two words of the digest   *)
(* of a generation signature (8 words) and a scoop (16 words).                  *)

SphBlocks(blocks) ==
  LET s[i \in 0 .. Len(blocks)] == IF i = 0 THEN RustInit ELSE RustRound(s[i - 1], blocks[i])
  IN  s[Len(blocks)]

sph_shabal_hash_fast(blocks, term) ==
  LET s == RustTerm(SphBlocks(blocks), term) IN [j \in 1 .. 8 |-> s.b[7 + j]]

MarkOnly == <<<<0, \h80>>, ZERO, ZERO, ZERO, ZERO, ZERO, ZERO, ZERO>>

\* Mutant of ScoopEnd: the rest of the scoop taken one word too early.
ScoopEndEarly(scoop) == SubSeq(scoop, 8, 15) \o MarkOnly

\* What is left of the scoop behind the first block, and the mark of the end.
ScoopEnd(scoop) == SubSeq(scoop, 9, 16) \o MarkOnly

sph_shabal_deadline_fast(scoop, gen_sig) ==
  LET s == RustTerm(RustRound(RustInit, gen_sig \o SubSeq(scoop, 1, 8)), ScoopEnd(scoop))
  IN  <<s.b[8], s.b[9]>>

\* One block, the last one four times, and the counter reset as in hash_fast.
mshabal_deadline_fast(s, block, term) ==
  LET once(t) == decr_w(SimdRound(t, term))
      after == once(once(once(once(SimdRound(s, block)))))
  IN  <<after.c[8], after.c[9]>>

\* A message is a deadline's if it is one block and the end of a scoop.
Scoop == SubSeq(message.blocks[1], 9, 16) \o SubSeq(message.term, 1, 8)
GenSig == SubSeq(message.blocks[1], 1, 8)
OfDeadline == Len(message.blocks) = 1 /\ SubSeq(message.term, 9, 16) = MarkOnly

SphStart == [digest |-> <<>>, deadline |-> <<>>, simd_deadline |-> <<>>]

\* These calls keep nothing; they are made when the others are through.
SphHash ==
  /\ rust.digest # <<>> /\ simd.digest # <<>> /\ sph.digest = <<>>
  /\ sph' = [sph EXCEPT !.digest = sph_shabal_hash_fast(message.blocks, message.term)]
  /\ UNCHANGED <<message, count, rust, simd>>

\* A miner asks for the deadline of the same message, on the context as it is left.
Deadline ==
  /\ OfDeadline /\ sph.digest # <<>> /\ sph.deadline = <<>>
  /\ sph' = [sph EXCEPT
       !.deadline = sph_shabal_deadline_fast(Scoop, GenSig),
       !.simd_deadline = mshabal_deadline_fast(SimdLoad(simd.s), message.blocks[1], message.term)]
  /\ UNCHANGED <<message, count, rust, simd>>

-----------------------------------------------------------------------------
RustStart == [s |-> RustInit, at |-> 0, digest |-> <<>>]

Init ==
  /\ message \in Messages
  /\ count = 1
  /\ rust = RustStart
  /\ LET global == SimdInit
     IN simd = [global |-> global, s |-> global, at |-> 0, rounds |-> 0, digest |-> <<>>]
  /\ sph = SphStart

\* The next message, with the same context.
NextMessage ==
  /\ sph.digest # <<>>
  /\ OfDeadline => sph.deadline # <<>>
  /\ count < MaxMessages
  /\ count' = count + 1
  /\ message' \in Messages
  /\ rust' = RustStart
  /\ simd' = [simd EXCEPT !.s = SimdLoad(@), !.at = 0, !.rounds = 0, !.digest = <<>>]
  /\ sph' = SphStart

Next ==
  \/ RustBlock \/ RustEnd \/ SimdBlock \/ SimdTerm \/ SimdEnd
  \/ SphHash \/ Deadline \/ NextMessage

Spec == Init /\ [][Next]_vars

-----------------------------------------------------------------------------
(* The messages and digests of the unit tests of shabal256.rs. *)
Zeros == [j \in 1 .. 16 |-> ZERO]
TestA == [blocks |-> <<Zeros>>, term |-> [Zeros EXCEPT ![1] = <<0, \h80>>]]
TestB ==
  [blocks |->
     <<<<<<\h6463, \h6261>>, <<\h6867, \h6665>>, <<\h6C6B, \h6A69>>, <<\h706F, \h6E6D>>,
         <<\h7473, \h7271>>, <<\h7877, \h7675>>, <<\h302D, \h7A79>>, <<\h3433, \h3231>>,
         <<\h3837, \h3635>>, <<\h4241, \h2D39>>, <<\h4645, \h4443>>, <<\h4A49, \h4847>>,
         <<\h4E4D, \h4C4B>>, <<\h5251, \h504F>>, <<\h5655, \h5453>>, <<\h5A59, \h5857>>>>>>,
   term |->
     <<<<\h3231, \h302D>>, <<\h3635, \h3433>>, <<\h2D39, \h3837>>, <<\h6463, \h6261>>,
       <<\h6867, \h6665>>, <<\h6C6B, \h6A69>>, <<\h706F, \h6E6D>>, <<\h7473, \h7271>>,
       <<\h7877, \h7675>>, <<\h0080, \h7A79>>, <<\h0000, \h0000>>, <<\h0000, \h0000>>,
       <<\h0000, \h0000>>, <<\h0000, \h0000>>, <<\h0000, \h0000>>, <<\h0000, \h0000>>>>]
TEST_A_RESULT ==
  <<<<\hC008, \h8FDA>>, <<\h9ABA, \h672A>>, <<\h79D0, \hBD56>>, <<\h07AE, \h488E>>,
    <<\h095E, \h2114>>, <<\h0685, \h5B3B>>, <<\h1877, \hA349>>, <<\hA254, \h3F99>>>>
TEST_B_RESULT ==
  <<<<\hBF34, \h9FB4>>, <<\h304C, \h8651>>, <<\h6CC4, \h3C53>>, <<\hDE2B, \h54C2>>,
    <<\hD06F, \hF9C2>>, <<\h9A53, \h5C6F>>, <<\h58AD, \h6EFF>>, <<\h7A32, \hF783>>>>

\* The published digests, which the unit tests demand of shabal256_fast.
KnownDigests ==
  /\ message = TestA /\ rust.digest # <<>> => rust.digest = TEST_A_RESULT
  /\ message = TestB /\ rust.digest # <<>> => rust.digest = TEST_B_RESULT

\* Between two blocks both hashers are in the same state, which for the first
\* block says that mshabal_init computes the tables of shabal256.rs.
BlocksAgree == rust.at = simd.at /\ simd.rounds = 0 => rust.s = simd.s

\* The rounds at the end differ, the digests do not: also for a context that
\* has hashed other messages before.
DigestsAgree ==
  rust.digest # <<>> =>
    /\ simd.digest # <<>> => simd.digest = rust.digest
    /\ sph.digest # <<>> => sph.digest = rust.digest

\* A deadline is the first two words of the digest of generation signature and
\* scoop, as the miner's check of a plot has it, by either function.
DeadlinesAgree ==
  sph.deadline # <<>> =>
    /\ sph.deadline = SubSeq(simd.digest, 1, 2)
    /\ sph.simd_deadline = SubSeq(simd.digest, 1, 2)
=============================================================================
