---------------------------- MODULE ShabalStream ----------------------------
(***************************************************************************)
(* sph_shabal256, the hasher that is fed a message in pieces of any length, *)
(* and its context: a buffer for the block that is not complete yet, the    *)
(* length of what is in it, and the state, here the blocks it has absorbed. *)
(* A digest is the blocks it was computed from.                             *)
(***************************************************************************)
EXTENDS Integers, Sequences, SequencesExt, ShabalEnd

CONSTANTS
  BLOCK,          \* bytes in a block (64)
  Bytes,          \* the bytes of messages
  Bits,           \* the bits a message may end with: ub and how many of it
  MaxMessage,     \* bound: the bytes of a message
  MaxMessages     \* bound: how many messages are hashed one after the other

ASSUME BlockAssumption == BLOCK \in Nat \ {0}
ASSUME BitsAssumption == Bits \subseteq (0 .. 255) \X (0 .. 7)

VARIABLES
  sc,             \* the context: buf, ptr and what A, B, C and W have absorbed
  call,           \* sph_shabal256: the data it has left, its ptr and its state
  message,        \* everything it was given for the current message
  bits,           \* the bits it was closed with
  digest,         \* of the current message, <<>> until it is closed
  messages        \* how many messages were begun

vars == <<sc, call, message, bits, digest, messages>>

Idle == [running |-> FALSE, data |-> <<>>, ptr |-> 0, absorbed |-> <<>>]
FreshContext == [buf |-> [i \in 1 .. BLOCK |-> 0], ptr |-> 0, absorbed |-> <<>>]

Init ==
  /\ sc = FreshContext
  /\ call = Idle
  /\ message = <<>> /\ bits = <<0, 0>> /\ digest = <<>> /\ messages = 1

-----------------------------------------------------------------------------
\* Mutant of Overwrite: the piece before it is written over.
OverwriteFromStart(buf, ptr, data) ==
  [i \in 1 .. BLOCK |-> IF i \in DOMAIN data THEN data[i] ELSE buf[i]]

\* memcpy(buf + ptr, data, Len(data))
Overwrite(buf, ptr, data) ==
  [i \in 1 .. BLOCK |-> IF i - ptr \in DOMAIN data THEN data[i - ptr] ELSE buf[i]]

\* An update is for the caller to make while the message is not closed.
MayUpdate(data) ==
  /\ ~call.running /\ digest = <<>>
  /\ Len(message) + Len(data) <= MaxMessage

\* What does not complete the block is only put into the buffer.
UpdateShort(data) ==
  /\ MayUpdate(data)
  /\ Len(data) < BLOCK - sc.ptr
  /\ message' = message \o data
  /\ sc' = [sc EXCEPT !.buf = Overwrite(@, sc.ptr, data), !.ptr = @ + Len(data)]
  /\ UNCHANGED <<call, bits, digest, messages>>

\* READ_STATE
UpdateLong(data) ==
  /\ MayUpdate(data)
  /\ Len(data) >= BLOCK - sc.ptr
  /\ message' = message \o data
  /\ call' = [running |-> TRUE, data |-> data, ptr |-> sc.ptr, absorbed |-> sc.absorbed]
  /\ UNCHANGED <<sc, bits, digest, messages>>

\* One pass of the loop: fill the buffer up, absorb it when it is full.
Clen == IF Len(call.data) < BLOCK - call.ptr THEN Len(call.data) ELSE BLOCK - call.ptr
FillBuffer ==
  /\ call.running /\ call.data # <<>>
  /\ LET buf == Overwrite(sc.buf, call.ptr, SubSeq(call.data, 1, Clen))
         ptr == call.ptr + Clen
         full == ptr = BLOCK
     IN /\ sc' = [sc EXCEPT !.buf = buf]
        /\ call' = [running |-> TRUE,
                    data |-> SubSeq(call.data, Clen + 1, Len(call.data)),
                    ptr |-> IF full THEN 0 ELSE ptr,
                    absorbed |-> IF full THEN Append(call.absorbed, buf) ELSE call.absorbed]
  /\ UNCHANGED <<message, bits, digest, messages>>

\* WRITE_STATE
UpdateReturns ==
  /\ call.running /\ call.data = <<>>
  /\ sc' = [sc EXCEPT !.ptr = call.ptr, !.absorbed = call.absorbed]
  /\ call' = Idle
  /\ UNCHANGED <<message, bits, digest, messages>>

\* Mutant of LastBlock: without the memset behind the end.
LastBlockStale(buf, ptr, mark) == [buf EXCEPT ![ptr + 1] = mark]

\* The last block is made in the buffer of the context and absorbed into
\* variables of shabal_close; neither ptr nor the state are written.
LastBlock(buf, ptr, mark) ==
  [i \in 1 .. BLOCK |-> IF i <= ptr THEN buf[i] ELSE IF i = ptr + 1 THEN mark ELSE 0]

shabal_close(ub, n) ==
  /\ ~call.running /\ digest = <<>>
  /\ LET last == LastBlock(sc.buf, sc.ptr, MarkByte(ub, n))
     IN /\ sc' = [sc EXCEPT !.buf = last]
        /\ digest' = Append(sc.absorbed, last)
  /\ bits' = <<ub, n>>
  /\ UNCHANGED <<call, message, messages>>

sph_shabal256_close == shabal_close(0, 0)
sph_shabal256_addbits_and_close(ub, n) == shabal_close(ub, n)

\* Mutant of NextMessage: goes on with the context that was closed, as if it had
\* been reinitialized.
NextMessageClosed ==
  /\ digest # <<>>
  /\ messages < MaxMessages
  /\ messages' = messages + 1
  /\ sc' = sc
  /\ message' = <<>> /\ bits' = <<0, 0>> /\ digest' = <<>>
  /\ UNCHANGED call

\* shabal_close leaves the context as it is (its call of the init is commented
\* out); noncegen copies a fresh one for every message.
NextMessage ==
  /\ digest # <<>>
  /\ messages < MaxMessages
  /\ messages' = messages + 1
  /\ sc' = FreshContext
  /\ message' = <<>> /\ bits' = <<0, 0>> /\ digest' = <<>>
  /\ UNCHANGED call

Next ==
  \/ \E data \in BoundedSeq(Bytes, MaxMessage) : UpdateShort(data) \/ UpdateLong(data)
  \/ FillBuffer \/ UpdateReturns
  \/ sph_shabal256_close
  \/ \E b \in Bits : sph_shabal256_addbits_and_close(b[1], b[2])
  \/ NextMessage

Spec == Init /\ [][Next]_vars

-----------------------------------------------------------------------------
\* The first n blocks of a text: its bytes in their order, zeros behind its end.
Block(text, k) ==
  [i \in 1 .. BLOCK |->
     IF k * BLOCK + i \in DOMAIN text THEN text[k * BLOCK + i] ELSE 0]
Blocks(text, n) == [k \in 1 .. n |-> Block(text, k - 1)]

\* While a message arrives, the blocks absorbed and what is in the buffer are
\* the bytes that were given, wherever the pieces were cut, also with the
\* context of a call that is under way.
Arriving ==
  digest = <<>> =>
    LET now == IF call.running THEN call ELSE sc
        given == SubSeq(message, 1, Len(message) - Len(call.data))
        full == Len(given) \div BLOCK
    IN /\ now.absorbed = Blocks(given, full)
       /\ now.ptr = Len(given) % BLOCK
       /\ \A i \in 1 .. now.ptr : sc.buf[i] = given[full * BLOCK + i]

\* A digest is that of the message, its last bits and the mark of its end, in
\* whole blocks.
DigestOfMessage ==
  digest # <<>> =>
    LET text == Append(message, EndOfBits(bits[1], bits[2]))
    IN  digest = Blocks(text, Len(message) \div BLOCK + 1)
=============================================================================
