----------------------------- MODULE ChunkStream -----------------------------
(***************************************************************************)
(* What the hasher owes the writer, without saying how nonces are hashed:   *)
(* the plot, cut into chunks of one buffer each, in order and without gaps, *)
(* never more chunks under way than there are buffers.  Scheduler implements*)
(* this specification; see Scheduler!Delivers.                              *)
(***************************************************************************)
EXTENDS Integers, Sequences

CONSTANTS
  Nonces,       \* task.nonces
  Progress,     \* where the run starts: 0, or the resume offset
  BufNonces,    \* the nonces one buffer holds
  NumBuffers    \* how many buffers circulate

VARIABLES
  emitted,      \* the nonces handed to the writer so far
  stream        \* the chunks the writer still has to write, oldest first

vars == <<emitted, stream>>

ChunkLen == IF BufNonces <= Nonces - emitted THEN BufNonces ELSE Nonces - emitted

Init == emitted = Progress /\ stream = <<>>

\* The next chunk is complete: every nonce of it is in its slot.
Emit ==
  /\ emitted < Nonces
  /\ Len(stream) < NumBuffers
  /\ stream' = Append(stream, [i \in 0 .. ChunkLen - 1 |-> emitted + i])
  /\ emitted' = emitted + ChunkLen

\* The writer is done with the oldest chunk.
Consume ==
  /\ stream # <<>>
  /\ stream' = Tail(stream)
  /\ emitted' = emitted

Next == Emit \/ Consume

Spec == Init /\ [][Next]_vars
=============================================================================
