--------------------------- MODULE PipelineProofs ---------------------------
(***************************************************************************)
(* Proofs about Pipeline, for every plot size, number of scoops, buffer     *)
(* size and number of runs.  The inductive invariant IInv says where every  *)
(* buffer is (Owned), that the channel to the writer carries consecutive    *)
(* chunks of the plot beginning where the writer stands (Stream), that the  *)
(* counters leave room for another chunk wherever one is started            *)
(* (Counters), and how far the file has been filled (Filled, Marking).      *)
(***************************************************************************)
EXTENDS Pipeline, TLAPS

Running == main = "running"

HasherHolds == hpc \in {"lock", "hash", "send"}
WriterHolds == wpc \in {"lock", "write", "count", "progress", "signature", "send"}

\* Every buffer is in at most one place.
Owned ==
  /\ \A i, j \in DOMAIN empty_buffers : empty_buffers[i] = empty_buffers[j] => i = j
  /\ \A i, j \in DOMAIN full_buffers : full_buffers[i] = full_buffers[j] => i = j
  /\ \A i \in DOMAIN empty_buffers, j \in DOMAIN full_buffers :
        empty_buffers[i] # full_buffers[j]
  /\ HasherHolds => /\ \A i \in DOMAIN empty_buffers : empty_buffers[i] # hbuf
                    /\ \A i \in DOMAIN full_buffers : full_buffers[i] # hbuf
  /\ WriterHolds => /\ \A i \in DOMAIN empty_buffers : empty_buffers[i] # wbuf
                    /\ \A i \in DOMAIN full_buffers : full_buffers[i] # wbuf
  /\ HasherHolds /\ WriterHolds => hbuf # wbuf

\* Buffer b holds the chunk of the plot that starts at nonce n.
Holds(b, n) == \A i \in 0 .. Chunk(n) - 1 : data[b][i] = n + i

\* The first nonce of the chunk in a buffer that is queued for the writer.
First(b) == data[b][0]

\* Where the chunk after the one in the writer's hands starts.
NextWrite ==
  IF wpc \in {"lock", "write", "count"} THEN nonces_written + Chunk(nonces_written)
                                        ELSE nonces_written

Stream ==
  /\ \A i \in DOMAIN full_buffers :
       First(full_buffers[i]) \in Positions /\ Holds(full_buffers[i], First(full_buffers[i]))
  /\ full_buffers = <<>> => nonces_hashed = NextWrite
  /\ full_buffers # <<>> => First(full_buffers[1]) = NextWrite
  /\ \A i \in DOMAIN full_buffers :
       First(full_buffers[i]) + Chunk(First(full_buffers[i])) =
         IF i = Len(full_buffers) THEN nonces_hashed ELSE First(full_buffers[i + 1])
  /\ hpc = "send" => Holds(hbuf, nonces_hashed)
  /\ wpc \in {"lock", "write", "count"} => Holds(wbuf, nonces_written)

Counters ==
  /\ hpc \in {"recv", "lock", "hash", "send"} => nonces_hashed < Nonces
  /\ wpc \in {"recv", "lock", "write", "count", "progress", "signature"} =>
       nonces_written < Nonces
  /\ wpc \in {"write", "progress", "signature"} => ~task.benchmark
  /\ wpc = "write" => offset < Chunk(nonces_written)
  /\ wpc = "done" => nonces_written = Nonces

\* What the writer has put into the file, chunk by chunk and scoop by scoop.
\* The marker is gone once the last chunk is written.
Filled ==
  /\ OnFile(nonces_written)
  /\ wpc = "write" =>
       \A s \in Scoops, p \in Positions :
         /\ nonces_written <= p /\ p < nonces_written + Chunk(nonces_written)
         /\ s < scoop \/ (s = scoop /\ p < nonces_written + offset)
         => file[s][p] = p
  /\ wpc = "count" => OnFile(nonces_written + Chunk(nonces_written))
  /\ wpc = "count" /\ nonces_written + Chunk(nonces_written) = Nonces => ~tail.marked
  /\ nonces_written = Nonces => ~tail.marked

\* What has been written of the marker between its two writes.
Marking ==
  /\ main \in {"preallocated", "marking"} => ~task.benchmark
  /\ main = "marking" => tail.progress = 0
  /\ Running /\ wpc = "signature" => tail.progress <= nonces_written

IInv ==
  /\ TypeOK /\ ResumeSafe /\ PlotComplete /\ Marking
  /\ Running => Owned /\ Stream /\ Counters
  /\ Running /\ ~task.benchmark => Filled

-----------------------------------------------------------------------------
(* Arithmetic of the counters.                                             *)

\* A chunk is never empty before the end of the plot and never passes it.
LEMMA ChunkBounds ==
  ASSUME task \in Tasks, NEW n \in Nat, n < Nonces
  PROVE  /\ Chunk(n) \in Nat \ {0} /\ n + Chunk(n) <= Nonces
         /\ Chunk(n) <= task.buffer
BY PipelineAssumption DEF Chunk, Smaller

\* The u32 in the marker is never larger than the number it was made from.
LEMMA ModBounds ==
  ASSUME NEW n \in Nat
  PROVE  n % ProgressMod \in Nat /\ n % ProgressMod <= n
<1>1. n % ProgressMod \in 0 .. ProgressMod - 1
  BY PipelineAssumption
<1>2. CASE n < ProgressMod
  <2>1. n % ProgressMod = n
    BY <1>2, PipelineAssumption
  <2> QED BY <2>1
<1>3. CASE n >= ProgressMod
  BY <1>1, <1>3, PipelineAssumption
<1> QED BY <1>2, <1>3, PipelineAssumption

-----------------------------------------------------------------------------
(* The invariant holds initially and every step preserves it.              *)

LEMMA BufferSeqs ==
  /\ 1 \in Buffers /\ 2 \in Buffers
  /\ <<>> \in Seq(Buffers)
  /\ \A t \in Tasks : BufferIds(t) \in Seq(Buffers)
<1>1. 1 \in Buffers /\ 2 \in Buffers
  BY DEF Buffers
<1> QED BY <1>1, PipelineAssumption DEF BufferIds

LEMMA TailTypes ==
  /\ NoMarker \in [progress : 0 .. LastNonce, marked : BOOLEAN]
  /\ \A f \in [progress : 0 .. LastNonce, marked : BOOLEAN] :
       /\ [f EXCEPT !.progress = 0] \in [progress : 0 .. LastNonce, marked : BOOLEAN]
       /\ [f EXCEPT !.progress = 0].progress = 0
       /\ [f EXCEPT !.marked = TRUE] \in [progress : 0 .. LastNonce, marked : BOOLEAN]
       /\ [f EXCEPT !.marked = TRUE].progress = f.progress
  /\ BlankFile \in [Scoops -> [Positions -> Int]]
<1>1. 0 \in 0 .. LastNonce
  BY PipelineAssumption DEF LastNonce
<1>2. NoMarker \in [progress : 0 .. LastNonce, marked : BOOLEAN]
  BY <1>1 DEF NoMarker
<1>3. BlankFile \in [Scoops -> [Positions -> Int]]
  BY DEF BlankFile, NoNonce
<1>4. \A f \in [progress : 0 .. LastNonce, marked : BOOLEAN] :
        /\ [f EXCEPT !.progress = 0] \in [progress : 0 .. LastNonce, marked : BOOLEAN]
        /\ [f EXCEPT !.progress = 0].progress = 0
  BY <1>1
<1>5. \A f \in [progress : 0 .. LastNonce, marked : BOOLEAN] :
        /\ [f EXCEPT !.marked = TRUE] \in [progress : 0 .. LastNonce, marked : BOOLEAN]
        /\ [f EXCEPT !.marked = TRUE].progress = f.progress
  OBVIOUS
<1> QED BY <1>2, <1>3, <1>4, <1>5

LEMMA InitInv == Init => IInv
<1> SUFFICES ASSUME Init PROVE IInv
  OBVIOUS
<1> USE PipelineAssumption
<1>1. TypeOK
  <2>1. /\ file \in [Scoops -> [Positions -> Int]] /\ scoop \in Scoops
        /\ tail \in [progress : 0 .. LastNonce, marked : BOOLEAN]
    BY DEF Init, BlankFile, NoMarker, NoNonce, Scoops, LastNonce
  <2>2. exists \in BOOLEAN /\ lock \in [Buffers -> {"free", "hasher", "writer"}]
    BY DEF Init
  <2>3. /\ hbuf \in Buffers /\ wbuf \in Buffers
        /\ empty_buffers \in Seq(Buffers) /\ full_buffers \in Seq(Buffers)
    BY BufferSeqs DEF Init
  <2>4. nonces_hashed \in 0 .. Nonces /\ nonces_written \in 0 .. Nonces /\ offset \in Nat
    BY DEF Init
  <2> QED BY <2>1, <2>2, <2>3, <2>4 DEF Init, TypeOK
<1>2. ResumeSafe /\ PlotComplete /\ Marking /\ ~Running
  BY DEF Init, ResumeSafe, PlotComplete, Marking, Running
<1> QED BY <1>1, <1>2 DEF IInv

\* A run that starts with workers and an offset that can be trusted.
LEMMA SpawnInv ==
  ASSUME IInv, NEW t \in Tasks, NEW n \in 0 .. LastNonce,
         Spawn(t, n), task' = t, runs' \in Nat, exists' \in BOOLEAN, UNCHANGED file,
         tail' \in [progress : 0 .. LastNonce, marked : BOOLEAN],
         ResumeSafe', OnFile(n) \/ t.benchmark
  PROVE  IInv'
<1> USE PipelineAssumption
<1>1. TypeOK'
  BY BufferSeqs DEF IInv, TypeOK, Spawn, NoNonce, Scoops, LastNonce
<1>2. PlotComplete' /\ Marking' /\ ResumeSafe'
  BY DEF PlotComplete, Marking, Spawn, Running
<1>3. Owned'
  BY DEF Owned, Spawn, BufferIds, HasherHolds, WriterHolds
<1>4. Stream'
  BY DEF Stream, Spawn, NextWrite, Holds
<1>5. Counters'
  BY DEF Counters, Spawn, LastNonce
<1>6. ~task'.benchmark => Filled'
  BY DEF Filled, Spawn, OnFile, LastNonce
<1> QED BY <1>1, <1>2, <1>3, <1>4, <1>5, <1>6 DEF IInv

LEMMA HasherTakeInv ==
  ASSUME IInv, Running, HasherTake, UNCHANGED <<runVars, fileVars, writerVars>>
  PROVE  IInv'
<1> USE PipelineAssumption DEF runVars, fileVars, writerVars
<1>1. TypeOK'
  BY DEF IInv, TypeOK, HasherTake, Running
<1>2. PlotComplete' /\ Marking' /\ ResumeSafe' /\ Running'
  BY DEF IInv, PlotComplete, Marking, ResumeSafe, OnFile, HasherTake, Running
<1>3. Owned'
  BY DEF IInv, TypeOK, Owned, HasherTake, HasherHolds, WriterHolds, Running
<1>4. Stream'
  BY DEF IInv, Stream, HasherTake, NextWrite, Holds, First, Chunk, Smaller, Running
<1>5. Counters'
  BY DEF IInv, Counters, HasherTake, Chunk, Smaller, Running
<1>6. ~task'.benchmark => Filled'
  BY DEF IInv, Filled, HasherTake, OnFile, Chunk, Smaller, Running
<1> QED BY <1>1, <1>2, <1>3, <1>4, <1>5, <1>6 DEF IInv

LEMMA HasherLockInv ==
  ASSUME IInv, Running, HasherLock, UNCHANGED <<runVars, fileVars, writerVars>>
  PROVE  IInv'
<1> USE PipelineAssumption DEF runVars, fileVars, writerVars
<1>1. TypeOK'
  BY DEF IInv, TypeOK, HasherLock, Running
<1>2. PlotComplete' /\ Marking' /\ ResumeSafe' /\ Running'
  BY DEF IInv, PlotComplete, Marking, ResumeSafe, OnFile, HasherLock, Running
<1>3. Owned'
  BY DEF IInv, TypeOK, Owned, HasherLock, HasherHolds, WriterHolds, Running
<1>4. Stream'
  BY DEF IInv, Stream, HasherLock, NextWrite, Holds, First, Chunk, Smaller, Running
<1>5. Counters'
  BY DEF IInv, Counters, HasherLock, Chunk, Smaller, Running
<1>6. ~task'.benchmark => Filled'
  BY DEF IInv, Filled, HasherLock, OnFile, Chunk, Smaller, Running
<1> QED BY <1>1, <1>2, <1>3, <1>4, <1>5, <1>6 DEF IInv

LEMMA HasherHashInv ==
  ASSUME IInv, Running, HasherHash, UNCHANGED <<runVars, fileVars, writerVars>>
  PROVE  IInv'
<1> USE PipelineAssumption DEF runVars, fileVars, writerVars
<1>1. TypeOK'
  BY DEF IInv, TypeOK, HasherHash, Running
<1>2. PlotComplete' /\ Marking' /\ ResumeSafe' /\ Running'
  BY DEF IInv, PlotComplete, Marking, ResumeSafe, OnFile, HasherHash, Running
<1>3. Owned'
  BY DEF IInv, TypeOK, Owned, HasherHash, HasherHolds, WriterHolds, Running
<1>4. Stream'
  <2>1. nonces_hashed \in Nat /\ nonces_hashed < Nonces /\ task \in Tasks /\ hbuf \in Buffers
    BY DEF IInv, TypeOK, Counters, HasherHash
  <2>2. \A b : b # hbuf => data'[b] = data[b]
    BY <2>1 DEF HasherHash, IInv, TypeOK, Running
  <2>3. \A i \in 0 .. Chunk(nonces_hashed) - 1 : data'[hbuf][i] = nonces_hashed + i
    BY <2>1, ChunkBounds DEF HasherHash, IInv, TypeOK, Running
  <2>4. /\ \A i \in DOMAIN full_buffers : full_buffers[i] # hbuf
        /\ WriterHolds => wbuf # hbuf
    BY DEF HasherHash, IInv, Running, Owned, HasherHolds
  <2>5. /\ Holds(hbuf, nonces_hashed)'
        /\ wpc \in {"lock", "write", "count"} => Holds(wbuf, nonces_written)'
    <3>1. UNCHANGED <<nonces_hashed, hbuf, wbuf, nonces_written, wpc>>
          /\ \A n : Chunk(n)' = Chunk(n)
      BY DEF HasherHash, Chunk, Smaller
    <3>2. Holds(hbuf, nonces_hashed)'
      BY <3>1, <2>3 DEF Holds
    <3>3. wpc \in {"lock", "write", "count"} => Holds(wbuf, nonces_written)
      BY DEF IInv, Stream, Running
    <3> QED BY <3>1, <3>2, <3>3, <2>2, <2>4 DEF Holds, WriterHolds
  <2>6. \A i \in DOMAIN full_buffers :
          First(full_buffers[i])' = First(full_buffers[i])
    BY <2>2, <2>4 DEF First, HasherHash
  <2>7. \A i \in DOMAIN full_buffers :
          Holds(full_buffers[i], First(full_buffers[i]))'
    BY <2>2, <2>4 DEF First, HasherHash, Holds, Chunk, Smaller, IInv, Stream, Running
  <2> QED
    <3>1. /\ UNCHANGED <<full_buffers, nonces_hashed, hbuf, wbuf, nonces_written, wpc>>
          /\ \A n : Chunk(n)' = Chunk(n)
      BY DEF HasherHash, Chunk, Smaller
    <3>2. NextWrite' = NextWrite
      BY <3>1 DEF NextWrite
    <3>3. /\ \A i \in DOMAIN full_buffers : full_buffers[i] # hbuf
          /\ full_buffers \in Seq(Buffers)
      BY <2>4 DEF IInv, TypeOK
    <3>4. full_buffers # <<>> => 1 \in DOMAIN full_buffers
      BY <3>3
    <3>5. \A i \in DOMAIN full_buffers :
            i # Len(full_buffers) => i + 1 \in DOMAIN full_buffers
      BY <3>3
    <3> QED
      BY <3>1, <3>2, <3>3, <3>4, <3>5, <2>2, <2>5, <2>7 DEF IInv, Stream, Running, First
<1>5. Counters'
  BY DEF IInv, Counters, HasherHash, Chunk, Smaller, Running
<1>6. ~task'.benchmark => Filled'
  BY DEF IInv, Filled, HasherHash, OnFile, Chunk, Smaller, Running
<1> QED BY <1>1, <1>2, <1>3, <1>4, <1>5, <1>6 DEF IInv

LEMMA HasherSendInv ==
  ASSUME IInv, Running, HasherSend, UNCHANGED <<runVars, fileVars, writerVars>>
  PROVE  IInv'
<1> USE PipelineAssumption DEF runVars, fileVars, writerVars
<1>1. TypeOK'
  BY DEF IInv, TypeOK, HasherSend, Running, Chunk, Smaller, Counters
<1>2. PlotComplete' /\ Marking' /\ ResumeSafe' /\ Running'
  BY DEF IInv, PlotComplete, Marking, ResumeSafe, OnFile, HasherSend, Running
<1>3. Owned'
  BY DEF IInv, TypeOK, Owned, HasherSend, HasherHolds, WriterHolds, Running
<1>4. Stream'
  <2> DEFINE L == Len(full_buffers)
  <2>1. /\ nonces_hashed \in Nat /\ nonces_hashed < Nonces /\ task \in Tasks
        /\ full_buffers \in Seq(Buffers) /\ hbuf \in Buffers /\ L \in Nat
    BY DEF IInv, TypeOK, Counters, HasherSend
  <2>2. /\ nonces_hashed' = nonces_hashed + Chunk(nonces_hashed)
        /\ First(hbuf) = nonces_hashed /\ Holds(hbuf, nonces_hashed)
    <3>1. Holds(hbuf, nonces_hashed) /\ nonces_hashed' = nonces_hashed + Chunk(nonces_hashed)
      BY DEF HasherSend, IInv, Stream, Running
    <3>2. 0 \in 0 .. Chunk(nonces_hashed) - 1
      BY <2>1, ChunkBounds
    <3> QED BY <2>1, <3>1, <3>2 DEF Holds, First
  <2>3. /\ DOMAIN full_buffers' = 1 .. L + 1 /\ Len(full_buffers') = L + 1
        /\ full_buffers'[L + 1] = hbuf
        /\ \A i \in 1 .. L : full_buffers'[i] = full_buffers[i]
        /\ DOMAIN full_buffers = 1 .. L
    BY <2>1 DEF HasherSend
  <2>4. data' = data /\ \A n : Chunk(n)' = Chunk(n)
    BY DEF HasherSend, Chunk, Smaller
  <2>5. \A i \in 1 .. L + 1 : /\ First(full_buffers'[i]) \in Positions
                             /\ Holds(full_buffers'[i], First(full_buffers'[i]))
    BY <2>1, <2>2, <2>3 DEF IInv, Stream, Running, Positions
  <2>6. NextWrite' = NextWrite
    BY <2>4 DEF NextWrite
  <2>7. First(full_buffers'[1]) = NextWrite
    BY <2>1, <2>2, <2>3 DEF IInv, Stream, Running
  <2>8. \A i \in 1 .. L + 1 :
          First(full_buffers'[i]) + Chunk(First(full_buffers'[i])) =
            IF i = L + 1 THEN nonces_hashed' ELSE First(full_buffers'[i + 1])
    BY <2>1, <2>2, <2>3 DEF IInv, Stream, Running
  <2> QED
    <3>1. UNCHANGED <<wbuf, nonces_written, wpc>> /\ hpc' = "release"
      BY DEF HasherSend
    <3>2. wpc \in {"lock", "write", "count"} => Holds(wbuf, nonces_written)'
      BY <3>1, <2>4 DEF IInv, Stream, Running, Holds
    <3>3. full_buffers' # <<>>
      BY <2>1, <2>3
    <3>4. \A i \in 1 .. L + 1 : /\ (First(full_buffers[i]) \in Positions)'
                               /\ Holds(full_buffers[i], First(full_buffers[i]))'
      BY <2>4, <2>5 DEF First, Holds
    <3>5. First(full_buffers[1])' = NextWrite'
      BY <2>4, <2>6, <2>7 DEF First
    <3>6. (\A i \in DOMAIN full_buffers :
            First(full_buffers[i]) + Chunk(First(full_buffers[i])) =
              IF i = Len(full_buffers) THEN nonces_hashed ELSE First(full_buffers[i + 1]))'
      BY <2>3, <2>4, <2>8 DEF First
    <3> QED BY <2>3, <3>1, <3>2, <3>3, <3>4, <3>5, <3>6 DEF Stream
<1>5. Counters'
  BY DEF IInv, Counters, HasherSend, Chunk, Smaller, Running
<1>6. ~task'.benchmark => Filled'
  BY DEF IInv, Filled, HasherSend, OnFile, Chunk, Smaller, Running
<1> QED BY <1>1, <1>2, <1>3, <1>4, <1>5, <1>6 DEF IInv

LEMMA HasherReleaseInv ==
  ASSUME IInv, Running, HasherRelease, UNCHANGED <<runVars, fileVars, writerVars>>
  PROVE  IInv'
<1> USE PipelineAssumption DEF runVars, fileVars, writerVars
<1>1. TypeOK'
  BY DEF IInv, TypeOK, HasherRelease, Running
<1>2. PlotComplete' /\ Marking' /\ ResumeSafe' /\ Running'
  BY DEF IInv, PlotComplete, Marking, ResumeSafe, OnFile, HasherRelease, Running
<1>3. Owned'
  BY DEF IInv, TypeOK, Owned, HasherRelease, HasherHolds, WriterHolds, Running
<1>4. Stream'
  BY DEF IInv, Stream, HasherRelease, NextWrite, Holds, First, Chunk, Smaller, Running
<1>5. Counters'
  BY DEF IInv, TypeOK, Counters, HasherRelease, Chunk, Smaller, Running
<1>6. ~task'.benchmark => Filled'
  BY DEF IInv, Filled, HasherRelease, OnFile, Chunk, Smaller, Running
<1> QED BY <1>1, <1>2, <1>3, <1>4, <1>5, <1>6 DEF IInv

LEMMA WriterTakeInv ==
  ASSUME IInv, Running, WriterTake, UNCHANGED <<runVars, data, hasherVars>>
  PROVE  IInv'
<1> USE PipelineAssumption DEF runVars, hasherVars, fileVars
<1>1. TypeOK'
  BY DEF IInv, TypeOK, WriterTake, Running
<1>2. PlotComplete' /\ Marking' /\ ResumeSafe' /\ Running'
  BY DEF IInv, PlotComplete, Marking, ResumeSafe, OnFile, WriterTake, Running
<1>3. Owned'
  BY DEF IInv, TypeOK, Owned, WriterTake, HasherHolds, WriterHolds, Running
<1>4. Stream'
  <2> DEFINE L == Len(full_buffers)
  <2>1. /\ full_buffers \in Seq(Buffers) /\ full_buffers # <<>> /\ L \in Nat \ {0}
        /\ DOMAIN full_buffers = 1 .. L
    BY DEF IInv, TypeOK, WriterTake
  <2>2. /\ Len(full_buffers') = L - 1 /\ DOMAIN full_buffers' = 1 .. L - 1
        /\ \A i \in 1 .. L - 1 : full_buffers'[i] = full_buffers[i + 1]
        /\ wbuf' = full_buffers[1]
    BY <2>1 DEF WriterTake
  <2>3. /\ UNCHANGED <<nonces_hashed, nonces_written, data, hpc, hbuf>>
        /\ wpc = "recv" /\ wpc' = "lock" /\ \A n : Chunk(n)' = Chunk(n)
    BY DEF WriterTake, Chunk, Smaller
  <2>4. First(wbuf') = nonces_written /\ Holds(wbuf', nonces_written)
    BY <2>1, <2>2, <2>3 DEF IInv, Stream, Running, NextWrite
  <2>5. NextWrite' = nonces_written + Chunk(nonces_written)
    BY <2>3 DEF NextWrite
  <2>6. \A i \in 1 .. L - 1 : First(full_buffers'[i]) \in Positions
                             /\ Holds(full_buffers'[i], First(full_buffers'[i]))
    BY <2>1, <2>2 DEF IInv, Stream, Running
  <2>7. \A i \in 1 .. L - 1 :
          First(full_buffers'[i]) + Chunk(First(full_buffers'[i])) =
            IF i = L - 1 THEN nonces_hashed ELSE First(full_buffers'[i + 1])
    <3> TAKE i \in 1 .. L - 1
    <3>1. i + 1 \in 1 .. L /\ full_buffers'[i] = full_buffers[i + 1]
      BY <2>1, <2>2
    <3>2. First(full_buffers[i + 1]) + Chunk(First(full_buffers[i + 1])) =
            IF i + 1 = L THEN nonces_hashed ELSE First(full_buffers[(i + 1) + 1])
      BY <2>1, <3>1 DEF IInv, Stream, Running
    <3>3. CASE i = L - 1
      BY <2>1, <3>1, <3>2, <3>3
    <3>4. CASE i # L - 1
      <4>1. i + 1 \in 1 .. L - 1 /\ i + 1 # L
        <5>1. i \in 1 .. L - 1 /\ L \in Nat
          BY <2>1
        <5> HIDE DEF L
        <5> QED BY <3>4, <5>1
      <4>2. full_buffers'[i + 1] = full_buffers[(i + 1) + 1]
        BY <2>2, <4>1
      <4> QED BY <3>1, <3>2, <3>4, <4>1, <4>2
    <3> QED BY <3>3, <3>4
  <2>8. nonces_written + Chunk(nonces_written) =
          IF L = 1 THEN nonces_hashed ELSE First(full_buffers'[1])
    BY <2>1, <2>2, <2>4 DEF IInv, Stream, Running
  <2>9. /\ (\A i \in DOMAIN full_buffers :
             /\ First(full_buffers[i]) \in Positions
             /\ Holds(full_buffers[i], First(full_buffers[i]))
             /\ First(full_buffers[i]) + Chunk(First(full_buffers[i])) =
                  IF i = Len(full_buffers) THEN nonces_hashed ELSE First(full_buffers[i + 1]))'
        /\ Holds(wbuf, nonces_written)'
    BY <2>2, <2>3, <2>4, <2>6, <2>7 DEF First, Holds
  <2>10. /\ full_buffers' = <<>> => nonces_hashed' = NextWrite'
         /\ full_buffers' # <<>> => First(full_buffers[1])' = NextWrite'
    BY <2>1, <2>2, <2>3, <2>5, <2>8 DEF First
  <2>11. (hpc = "send" => Holds(hbuf, nonces_hashed))'
    BY <2>3 DEF IInv, Stream, Running, Holds
  <2> QED BY <2>9, <2>10, <2>11 DEF Stream
<1>5. Counters'
  BY DEF IInv, Counters, WriterTake, Chunk, Smaller, Running
<1>6. ~task'.benchmark => Filled'
  BY DEF IInv, Filled, WriterTake, OnFile, Chunk, Smaller, Running
<1> QED BY <1>1, <1>2, <1>3, <1>4, <1>5, <1>6 DEF IInv

LEMMA WriterLockInv ==
  ASSUME IInv, Running, WriterLock, UNCHANGED <<runVars, data, hasherVars>>
  PROVE  IInv'
<1> USE PipelineAssumption DEF runVars, hasherVars, fileVars
<1>1. TypeOK'
  BY DEF IInv, TypeOK, WriterLock, Running, Scoops
<1>2. PlotComplete' /\ Marking' /\ ResumeSafe' /\ Running'
  BY DEF IInv, PlotComplete, Marking, ResumeSafe, OnFile, WriterLock, Running
<1>3. Owned'
  BY DEF IInv, TypeOK, Owned, WriterLock, HasherHolds, WriterHolds, Running
<1>4. Stream'
  BY DEF IInv, Stream, WriterLock, NextWrite, Holds, First, Chunk, Smaller, Running
<1>5. Counters'
  <2>1. task \in Tasks /\ nonces_written \in Nat /\ nonces_written < Nonces
    BY DEF IInv, TypeOK, Counters, WriterLock
  <2>2. 0 < Chunk(nonces_written) /\ Chunk(nonces_written)' = Chunk(nonces_written)
    BY <2>1, ChunkBounds DEF WriterLock, Chunk, Smaller
  <2> QED BY <2>1, <2>2 DEF IInv, Counters, WriterLock, Running
<1>6. ~task'.benchmark => Filled'
  <2> SUFFICES ASSUME ~task.benchmark PROVE Filled'
    OBVIOUS
  <2>1. OnFile(nonces_written)' /\ (nonces_written = Nonces => ~tail.marked)'
    BY DEF IInv, Filled, WriterLock, OnFile, Running
  <2>2. /\ scoop' = 0 /\ offset' = 0
        /\ scoop' \in Int /\ offset' \in Int /\ nonces_written' \in Int
    BY DEF WriterLock, IInv, TypeOK
  <2>3. ASSUME NEW s \in Scoops, NEW p \in Positions,
               nonces_written' <= p,
               s < scoop' \/ (s = scoop' /\ p < nonces_written' + offset')
        PROVE  FALSE
    <3>1. s \in Nat /\ p \in Nat
      BY DEF Scoops, Positions
    <3>2. \A n, o, c \in Int : o = 0 /\ c = 0 /\ n <= p => ~(s < c) /\ ~(p < n + o)
      BY <3>1
    <3> QED BY <2>2, <2>3, <3>2, Zenon
  <2>4. wpc' # "count"
    BY DEF WriterLock
  <2> QED BY <2>1, <2>3, <2>4, Zenon DEF Filled
<1> QED BY <1>1, <1>2, <1>3, <1>4, <1>5, <1>6 DEF IInv

\* What the next write puts into the file, all of it or a first part: only the
\* cells of the piece change, and each of them receives the nonce that belongs
\* there.
LEMMA FileWithRight ==
  ASSUME IInv, Running, wpc = "write", NEW STATE n, n \in 0 .. PieceLen
  PROVE  /\ FileWith(n) \in [Scoops -> [Positions -> Int]]
         /\ \A s \in Scoops, p \in Positions :
              FileWith(n)[s][p] =
                IF s = scoop /\ PieceFrom <= p /\ p < PieceFrom + n THEN p ELSE file[s][p]
         /\ PieceLen \in Nat \ {0} /\ offset + PieceLen <= Chunk(nonces_written)
         /\ PieceFrom \in Nat /\ nonces_written + Chunk(nonces_written) <= Nonces
<1> USE PipelineAssumption
<1>1. /\ task \in Tasks /\ nonces_written \in Nat /\ nonces_written < Nonces
      /\ offset \in Nat /\ offset < Chunk(nonces_written)
      /\ scoop \in Scoops /\ file \in [Scoops -> [Positions -> Int]]
  BY DEF IInv, TypeOK, Counters
<1>2. /\ Chunk(nonces_written) \in Nat \ {0}
      /\ nonces_written + Chunk(nonces_written) <= Nonces
  BY <1>1, ChunkBounds
<1>3. PieceLen \in Nat \ {0} /\ offset + PieceLen <= Chunk(nonces_written)
  BY <1>1, <1>2 DEF PieceLen, Smaller
<1>4. \A i \in 0 .. Chunk(nonces_written) - 1 : data[wbuf][i] = nonces_written + i
  BY DEF IInv, Running, Stream, Holds
<1>5. \A p \in Positions :
        PieceFrom <= p /\ p < PieceFrom + n => data[wbuf][p - nonces_written] = p
  <2> TAKE p \in Positions
  <2> HAVE PieceFrom <= p /\ p < PieceFrom + n
  <2>1. p - nonces_written \in 0 .. Chunk(nonces_written) - 1
    BY <1>1, <1>2, <1>3 DEF PieceFrom, Positions
  <2> QED BY <1>1, <1>4, <2>1 DEF Positions
<1> DEFINE Row == [p \in Positions |->
                    IF PieceFrom <= p /\ p < PieceFrom + n
                    THEN data[wbuf][p - nonces_written] ELSE file[scoop][p]]
<1>6. Row \in [Positions -> Int]
  BY <1>1, <1>5 DEF Positions
<1>7. FileWith(n) = [file EXCEPT ![scoop] = Row]
  BY DEF FileWith
<1>8. FileWith(n) \in [Scoops -> [Positions -> Int]]
  BY <1>1, <1>6, <1>7
<1>9. \A s \in Scoops, p \in Positions :
        FileWith(n)[s][p] =
          IF s = scoop /\ PieceFrom <= p /\ p < PieceFrom + n THEN p ELSE file[s][p]
  BY <1>1, <1>5, <1>7
<1> QED BY <1>1, <1>2, <1>3, <1>8, <1>9 DEF PieceFrom

\* Nothing that is right becomes wrong.
LEMMA ResumeKept ==
  ASSUME IInv, Running, wpc = "write", NEW STATE n, n \in 0 .. PieceLen, file' = FileWith(n)
  PROVE  \A s \in Scoops, p \in Positions : file[s][p] = p => file'[s][p] = p
BY FileWithRight

LEMMA WritePieceInv ==
  ASSUME IInv, Running, WritePiece, UNCHANGED <<runVars, data, hasherVars>>
  PROVE  IInv'
<1> USE PipelineAssumption DEF runVars, hasherVars, fileVars
<1>0. /\ wpc = "write" /\ PieceLen \in 0 .. PieceLen /\ file' = FileWith(PieceLen)
      /\ PieceLen \in Nat \ {0} /\ offset + PieceLen <= Chunk(nonces_written)
      /\ nonces_written + Chunk(nonces_written) <= Nonces
      /\ nonces_written \in Nat /\ nonces_written < Nonces
      /\ Chunk(nonces_written) \in Nat \ {0} /\ offset \in Nat
      /\ Chunk(nonces_written)' = Chunk(nonces_written)
  <2>1. /\ wpc = "write" /\ file' = FileWith(PieceLen)
        /\ Chunk(nonces_written)' = Chunk(nonces_written)
    BY DEF WritePiece, Chunk, Smaller
  <2>2. /\ task \in Tasks /\ nonces_written \in Nat /\ nonces_written < Nonces
        /\ offset \in Nat /\ offset < Chunk(nonces_written)
    BY <2>1 DEF IInv, TypeOK, Counters
  <2>3. PieceLen \in 0 .. PieceLen
    BY <2>2, ChunkBounds DEF PieceLen, Smaller
  <2> QED BY <2>1, <2>2, <2>3, ChunkBounds, FileWithRight
<1>1. TypeOK'
  <2>1. PieceLen \in 0 .. PieceLen /\ offset + PieceLen \in Nat
        /\ file' \in [Scoops -> [Positions -> Int]]
    <3>1. FileWith(PieceLen) \in [Scoops -> [Positions -> Int]]
      BY <1>0, FileWithRight
    <3> QED BY <1>0, <3>1
  <2>2. tail' \in [progress : 0 .. LastNonce, marked : BOOLEAN]
    BY DEF WritePiece, TailWith, NoMarker, IInv, TypeOK, LastNonce
  <2>3. scoop' \in Scoops /\ offset' \in Nat
        /\ wpc' \in {"write", "count"}
    BY <2>1 DEF WritePiece, IInv, TypeOK, Scoops, LastScoop
  <2> QED BY <2>1, <2>2, <2>3 DEF IInv, TypeOK, WritePiece, Running
<1>2. PlotComplete' /\ Marking' /\ ResumeSafe' /\ Running'
  <2>1. /\ tail'.marked => tail' = tail
        /\ wpc' # "signature" /\ wpc # "signature"
    BY DEF WritePiece, TailWith, NoMarker
  <2>2. ResumeSafe'
    <3> SUFFICES ASSUME exists', tail'.marked PROVE ResumeSafe'
      BY DEF ResumeSafe
    <3>1. /\ tail' = tail /\ exists /\ tail.progress \in Nat
          /\ tail.progress < Nonces /\ OnFile(tail.progress)
      BY <2>1 DEF WritePiece, IInv, ResumeSafe, TypeOK
    <3>2. \A s \in Scoops, p \in Positions : file[s][p] = p => file'[s][p] = p
      BY <1>0, ResumeKept
    <3> QED BY <3>1, <3>2 DEF ResumeSafe, OnFile, Positions
  <2> QED BY <2>1, <2>2 DEF IInv, PlotComplete, Marking, WritePiece, Running
<1>3. Owned'
  BY DEF IInv, TypeOK, Owned, WritePiece, HasherHolds, WriterHolds, Running
<1>4. Stream'
  BY DEF IInv, Stream, WritePiece, NextWrite, Holds, First, Chunk, Smaller, Running
<1>5. Counters'
  BY <1>0 DEF IInv, Counters, WritePiece, Running
<1>6. ~task'.benchmark => Filled'
  <2> SUFFICES ASSUME ~task.benchmark PROVE Filled'
    OBVIOUS
  <2> DEFINE Done == nonces_written + offset + PieceLen
             End == nonces_written + Chunk(nonces_written)
  <2>1. OnFile(nonces_written)'
    <3>1. \A s \in Scoops, p \in Positions : file[s][p] = p => file'[s][p] = p
      BY <1>0, ResumeKept
    <3>2. OnFile(nonces_written) /\ nonces_written' = nonces_written
      BY DEF IInv, Filled, WritePiece
    <3> QED BY <1>0, <3>1, <3>2 DEF OnFile, Positions
  <2>2. \A s \in Scoops, p \in Positions :
          /\ nonces_written <= p /\ p < End
          /\ s < scoop \/ (s = scoop /\ p < Done)
          => file'[s][p] = p
    <3>1. \A s \in Scoops, p \in Positions :
            file'[s][p] = IF s = scoop /\ PieceFrom <= p /\ p < PieceFrom + PieceLen
                          THEN p ELSE file[s][p]
      BY <1>0, FileWithRight
    <3>2. \A s \in Scoops, p \in Positions :
            /\ nonces_written <= p /\ p < End
            /\ s < scoop \/ (s = scoop /\ p < nonces_written + offset)
            => file[s][p] = p
      BY <1>0 DEF IInv, Filled
    <3>3. scoop \in Int /\ \A s \in Scoops : s \in Int
      BY DEF IInv, TypeOK, Scoops
    <3> QED BY <1>0, <3>1, <3>2, <3>3 DEF PieceFrom, Positions
  <2>3. scoop \in 0 .. LastScoop
    BY DEF IInv, TypeOK, Scoops, LastScoop
  <2>4. CASE Done < End
    <3>1. offset' = offset + PieceLen /\ scoop' = scoop /\ wpc' = "write"
      BY <1>0, <2>4 DEF WritePiece
    <3> QED BY <1>0, <2>1, <2>2, <3>1 DEF Filled, WritePiece
  <2>5. CASE Done >= End /\ scoop # LastScoop
    <3>1. offset' = 0 /\ scoop' = scoop + 1 /\ wpc' = "write"
      BY <1>0, <2>5 DEF WritePiece
    <3>2. \A s \in Scoops, p \in Positions :
            /\ nonces_written <= p /\ p < End /\ s < scoop + 1
            => file'[s][p] = p
      BY <1>0, <2>2, <2>3, <2>5 DEF Scoops, Positions
    <3> QED BY <1>0, <2>1, <3>1, <3>2 DEF Filled, WritePiece, Positions
  <2>6. CASE Done >= End /\ scoop = LastScoop
    <3>1. wpc' = "count" /\ nonces_written' = nonces_written
      BY <1>0, <2>6 DEF WritePiece
    <3>2. OnFile(End)'
      BY <1>0, <2>1, <2>2, <2>3, <2>6, <3>1 DEF OnFile, Scoops, Positions, LastScoop
    <3>3. End = Nonces => ~tail'.marked
      BY <1>0, <2>6 DEF WritePiece, TailWith, NoMarker, PieceFrom
    <3> QED BY <1>0, <2>1, <3>1, <3>2, <3>3 DEF Filled
  <2> QED BY <1>0, <2>4, <2>5, <2>6
<1> QED BY <1>1, <1>2, <1>3, <1>4, <1>5, <1>6 DEF IInv

LEMMA WriterCountInv ==
  ASSUME IInv, Running, WriterCount, UNCHANGED <<runVars, data, hasherVars>>
  PROVE  IInv'
<1> USE PipelineAssumption DEF runVars, hasherVars, fileVars
<1>1. TypeOK'
  <2>1. task \in Tasks /\ nonces_written \in Nat /\ nonces_written < Nonces
    BY DEF IInv, TypeOK, Counters, WriterCount
  <2>2. nonces_written' \in 0 .. Nonces
    BY <2>1, ChunkBounds DEF WriterCount
  <2> QED BY <2>2 DEF IInv, TypeOK, WriterCount, Running
<1>2. PlotComplete' /\ Marking' /\ ResumeSafe' /\ Running'
  BY DEF IInv, PlotComplete, Marking, ResumeSafe, OnFile, WriterCount, Running
<1>3. Owned'
  BY DEF IInv, TypeOK, Owned, WriterCount, HasherHolds, WriterHolds, Running
<1>4. Stream'
  BY DEF IInv, Stream, WriterCount, NextWrite, Holds, First, Chunk, Smaller, Running
<1>5. Counters'
  <2>1. task \in Tasks /\ nonces_written \in Nat /\ nonces_written < Nonces
    BY DEF IInv, TypeOK, Counters, WriterCount
  <2>2. nonces_written' \in Nat /\ nonces_written' <= Nonces
    BY <2>1, ChunkBounds DEF WriterCount
  <2>3. /\ wpc' \in {"send", "progress"}
        /\ wpc' = "progress" => nonces_written' < Nonces /\ ~task.benchmark
    BY <2>2 DEF WriterCount
  <2> QED BY <2>3 DEF IInv, Counters, WriterCount, Running
<1>6. ~task'.benchmark => Filled'
  BY DEF IInv, Filled, WriterCount, OnFile, Chunk, Smaller, Running
<1> QED BY <1>1, <1>2, <1>3, <1>4, <1>5, <1>6 DEF IInv

LEMMA WriteProgressInv ==
  ASSUME IInv, Running, WriteProgress, UNCHANGED <<runVars, data, hasherVars>>
  PROVE  IInv'
<1> USE PipelineAssumption DEF runVars, hasherVars, fileVars
<1>1. TypeOK'
  <2>1. nonces_written \in Nat /\ nonces_written < Nonces
    BY DEF IInv, TypeOK, Counters, WriteProgress
  <2>2. nonces_written % ProgressMod \in 0 .. LastNonce
    BY <2>1, ModBounds DEF LastNonce
  <2> QED BY <2>2 DEF IInv, TypeOK, WriteProgress, Running
<1>2. PlotComplete' /\ Marking' /\ ResumeSafe' /\ Running'
  <2>1. nonces_written \in Nat /\ nonces_written < Nonces /\ ~task.benchmark
    BY DEF IInv, TypeOK, Counters, WriteProgress
  <2>2. /\ tail'.progress \in Nat /\ tail'.progress <= nonces_written
        /\ OnFile(nonces_written)
    BY <2>1, ModBounds DEF IInv, TypeOK, Filled, WriteProgress
  <2>3. ResumeSafe'
    BY <2>1, <2>2 DEF ResumeSafe, OnFile, WriteProgress
  <2> QED BY <2>1, <2>2, <2>3 DEF IInv, PlotComplete, Marking, WriteProgress, Running
<1>3. Owned'
  BY DEF IInv, TypeOK, Owned, WriteProgress, HasherHolds, WriterHolds, Running
<1>4. Stream'
  BY DEF IInv, Stream, WriteProgress, NextWrite, Holds, First, Chunk, Smaller, Running
<1>5. Counters'
  BY DEF IInv, Counters, WriteProgress, Chunk, Smaller, Running
<1>6. ~task'.benchmark => Filled'
  BY DEF IInv, Filled, WriteProgress, OnFile, Chunk, Smaller, Running
<1> QED BY <1>1, <1>2, <1>3, <1>4, <1>5, <1>6 DEF IInv

LEMMA WriteSignatureInv ==
  ASSUME IInv, Running, WriteSignature, UNCHANGED <<runVars, data, hasherVars>>
  PROVE  IInv'
<1> USE PipelineAssumption DEF runVars, hasherVars, fileVars
<1>1. TypeOK'
  BY DEF IInv, TypeOK, WriteSignature, Running
<1>2. PlotComplete' /\ Marking' /\ ResumeSafe' /\ Running'
  <2>1. nonces_written \in Nat /\ nonces_written < Nonces /\ ~task.benchmark
    BY DEF IInv, TypeOK, Counters, WriteSignature
  <2>2. /\ tail'.progress \in Nat /\ tail'.progress <= nonces_written
        /\ OnFile(nonces_written)
    BY <2>1 DEF IInv, TypeOK, Filled, Marking, WriteSignature
  <2>3. ResumeSafe'
    BY <2>1, <2>2 DEF ResumeSafe, OnFile, WriteSignature
  <2> QED BY <2>1, <2>2, <2>3 DEF IInv, PlotComplete, Marking, WriteSignature, Running
<1>3. Owned'
  BY DEF IInv, TypeOK, Owned, WriteSignature, HasherHolds, WriterHolds, Running
<1>4. Stream'
  BY DEF IInv, Stream, WriteSignature, NextWrite, Holds, First, Chunk, Smaller, Running
<1>5. Counters'
  BY DEF IInv, Counters, WriteSignature, Chunk, Smaller, Running
<1>6. ~task'.benchmark => Filled'
  BY DEF IInv, TypeOK, Counters, Filled, WriteSignature, OnFile, Chunk, Smaller, Running
<1> QED BY <1>1, <1>2, <1>3, <1>4, <1>5, <1>6 DEF IInv

LEMMA WriteMarkerFailsInv ==
  ASSUME IInv, Running, WriteMarkerFails, UNCHANGED <<runVars, data, hasherVars>>
  PROVE  IInv'
<1> USE PipelineAssumption DEF runVars, hasherVars, fileVars
<1>1. TypeOK'
  BY DEF IInv, TypeOK, WriteMarkerFails, Running
<1>2. PlotComplete' /\ Marking' /\ ResumeSafe' /\ Running'
  BY DEF IInv, PlotComplete, Marking, ResumeSafe, OnFile, WriteMarkerFails, Running
<1>3. Owned'
  BY DEF IInv, TypeOK, Owned, WriteMarkerFails, HasherHolds, WriterHolds, Running
<1>4. Stream'
  BY DEF IInv, Stream, WriteMarkerFails, NextWrite, Holds, First, Chunk, Smaller, Running
<1>5. Counters'
  BY DEF IInv, Counters, WriteMarkerFails, Chunk, Smaller, Running
<1>6. ~task'.benchmark => Filled'
  BY DEF IInv, Filled, WriteMarkerFails, OnFile, Chunk, Smaller, Running
<1> QED BY <1>1, <1>2, <1>3, <1>4, <1>5, <1>6 DEF IInv

LEMMA WriterSendInv ==
  ASSUME IInv, Running, WriterSend, UNCHANGED <<runVars, data, hasherVars>>
  PROVE  IInv'
<1> USE PipelineAssumption DEF runVars, hasherVars, fileVars
<1>1. TypeOK'
  BY DEF IInv, TypeOK, WriterSend, Running
<1>2. PlotComplete' /\ Marking' /\ ResumeSafe' /\ Running'
  BY DEF IInv, PlotComplete, Marking, ResumeSafe, OnFile, WriterSend, Running
<1>3. Owned'
  BY DEF IInv, TypeOK, Owned, WriterSend, HasherHolds, WriterHolds, Running
<1>4. Stream'
  BY DEF IInv, Stream, WriterSend, NextWrite, Holds, First, Chunk, Smaller, Running
<1>5. Counters'
  BY DEF IInv, Counters, WriterSend, Chunk, Smaller, Running
<1>6. ~task'.benchmark => Filled'
  BY DEF IInv, Filled, WriterSend, OnFile, Chunk, Smaller, Running
<1> QED BY <1>1, <1>2, <1>3, <1>4, <1>5, <1>6 DEF IInv

LEMMA WriterReleaseInv ==
  ASSUME IInv, Running, WriterRelease, UNCHANGED <<runVars, data, hasherVars>>
  PROVE  IInv'
<1> USE PipelineAssumption DEF runVars, hasherVars, fileVars
<1>1. TypeOK'
  BY DEF IInv, TypeOK, WriterRelease, Running
<1>2. PlotComplete' /\ Marking' /\ ResumeSafe' /\ Running'
  BY DEF IInv, PlotComplete, Marking, ResumeSafe, OnFile, WriterRelease, Running
<1>3. Owned'
  BY DEF IInv, TypeOK, Owned, WriterRelease, HasherHolds, WriterHolds, Running
<1>4. Stream'
  BY DEF IInv, Stream, WriterRelease, NextWrite, Holds, First, Chunk, Smaller, Running
<1>5. Counters'
  BY DEF IInv, TypeOK, Counters, WriterRelease, Chunk, Smaller, Running
<1>6. ~task'.benchmark => Filled'
  BY DEF IInv, Filled, WriterRelease, OnFile, Chunk, Smaller, Running
<1> QED BY <1>1, <1>2, <1>3, <1>4, <1>5, <1>6 DEF IInv

-----------------------------------------------------------------------------
(* The main thread, the user and crashes.                                  *)

LEMMA StartInv ==
  ASSUME IInv, NEW t \in Tasks,
         \/ StartResume(t) \/ StartRefused(t) \/ StartBenchmark(t)
         \/ StartNew(t) \/ PreallocateFails(t)
  PROVE  IInv'
<1> USE PipelineAssumption
<1>1. CASE StartResume(t)
  <2>1. /\ exists /\ tail.marked /\ tail.progress \in 0 .. LastNonce /\ OnFile(tail.progress)
        /\ runs \in Nat /\ UNCHANGED <<exists, file, tail>> /\ task' = t /\ runs' = runs + 1
    BY <1>1 DEF StartResume, Launch, IInv, TypeOK, ResumeSafe, fileVars
  <2>2. ResumeSafe' /\ exists' \in BOOLEAN
        /\ tail' \in [progress : 0 .. LastNonce, marked : BOOLEAN]
    BY <2>1 DEF IInv, TypeOK, ResumeSafe, OnFile
  <2>3. Spawn(t, tail.progress)
    BY <1>1 DEF StartResume
  <2> QED BY <2>1, <2>2, <2>3, SpawnInv
<1>2. CASE StartBenchmark(t)
  <2>1. /\ 0 \in 0 .. LastNonce /\ t.benchmark /\ ~exists
        /\ runs \in Nat /\ UNCHANGED <<exists, file, tail>> /\ task' = t /\ runs' = runs + 1
    BY <1>2 DEF StartBenchmark, Launch, IInv, TypeOK, LastNonce, fileVars
  <2>2. ResumeSafe' /\ exists' \in BOOLEAN
        /\ tail' \in [progress : 0 .. LastNonce, marked : BOOLEAN]
    BY <2>1 DEF IInv, TypeOK, ResumeSafe
  <2>3. Spawn(t, 0)
    BY <1>2 DEF StartBenchmark
  <2> QED BY <2>1, <2>2, <2>3, SpawnInv
<1>3. CASE StartRefused(t)
  <2>1. TypeOK'
    BY <1>3 DEF StartRefused, Launch, IInv, TypeOK, fileVars, poolVars, hasherVars, writerVars
  <2> QED
    BY <1>3, <2>1 DEF StartRefused, IInv, ResumeSafe, PlotComplete, Marking, Running, OnFile,
                      fileVars
<1>4. CASE StartNew(t) \/ PreallocateFails(t)
  <2>1. TypeOK'
    <3>1. /\ file' \in [Scoops -> [Positions -> Int]]
          /\ tail' \in [progress : 0 .. LastNonce, marked : BOOLEAN]
      BY <1>4, TailTypes DEF StartNew, PreallocateFails
    <3>2. /\ main' \in {"off", "preallocated"} /\ task' \in Tasks /\ runs' \in Nat
          /\ exists' \in BOOLEAN /\ UNCHANGED <<poolVars, hasherVars, writerVars>>
      <4>1. task' = t /\ runs' = runs + 1 /\ runs \in Nat /\ exists' = TRUE
        BY <1>4 DEF StartNew, PreallocateFails, Launch, IInv, TypeOK
      <4> QED BY <1>4, <4>1 DEF StartNew, PreallocateFails
    <3> QED
      BY <3>1, <3>2 DEF IInv, TypeOK, poolVars, hasherVars, writerVars
  <2>2. /\ ~tail'.marked /\ main' \in {"off", "preallocated"}
        /\ main' = "preallocated" => ~task'.benchmark
    BY <1>4 DEF StartNew, PreallocateFails, NoMarker, Launch
  <2> QED
    BY <2>1, <2>2 DEF IInv, ResumeSafe, PlotComplete, Marking, Running
<1> QED BY <1>1, <1>2, <1>3, <1>4

LEMMA MainInv ==
  ASSUME IInv, MainStep
  PROVE  IInv'
<1> USE PipelineAssumption
<1>1. CASE InitProgress
  <2>1. TypeOK'
    BY <1>1, TailTypes DEF InitProgress, IInv, TypeOK, poolVars, hasherVars, writerVars
  <2>2. tail'.progress = 0 /\ main' = "marking" /\ ~task'.benchmark /\ OnFile(0)'
    BY <1>1, TailTypes DEF InitProgress, IInv, TypeOK, Marking, OnFile
  <2> QED
    BY <2>1, <2>2 DEF IInv, ResumeSafe, PlotComplete, Marking, Running
<1>2. CASE InitSignature
  <2>1. /\ 0 \in 0 .. LastNonce /\ OnFile(0) /\ task \in Tasks /\ Spawn(task, 0)
        /\ UNCHANGED <<file, exists, task>> /\ exists' \in BOOLEAN /\ runs' \in Nat
        /\ tail' \in [progress : 0 .. LastNonce, marked : BOOLEAN] /\ tail'.progress = 0
    <3>1. /\ 0 \in 0 .. LastNonce /\ OnFile(0) /\ task \in Tasks /\ Spawn(task, 0)
          /\ UNCHANGED <<file, exists, task>> /\ exists' \in BOOLEAN /\ runs' \in Nat
      BY <1>2 DEF InitSignature, IInv, TypeOK, OnFile, LastNonce
    <3>2. /\ tail' \in [progress : 0 .. LastNonce, marked : BOOLEAN]
          /\ tail'.progress = 0
      BY <1>2, TailTypes DEF InitSignature, IInv, TypeOK, Marking
    <3> QED BY <3>1, <3>2
  <2>2. ResumeSafe'
    BY <2>1 DEF ResumeSafe, OnFile
  <2> QED BY <2>1, <2>2, SpawnInv
<1>3. CASE InitMarkerFails
  <2>1. /\ 0 \in 0 .. LastNonce /\ OnFile(0) /\ task \in Tasks /\ Spawn(task, 0)
        /\ UNCHANGED <<file, exists, tail, task>> /\ exists' \in BOOLEAN /\ runs' \in Nat
        /\ tail' \in [progress : 0 .. LastNonce, marked : BOOLEAN]
    BY <1>3 DEF InitMarkerFails, IInv, TypeOK, OnFile, LastNonce, fileVars
  <2>2. ResumeSafe'
    BY <2>1 DEF IInv, ResumeSafe, OnFile
  <2> QED BY <2>1, <2>2, SpawnInv
<1>4. CASE Finish
  <2>1. TypeOK'
    BY <1>4 DEF Finish, IInv, TypeOK, fileVars, poolVars, hasherVars, writerVars
  <2>2. ResumeSafe' /\ main' = "finished"
    BY <1>4 DEF Finish, IInv, ResumeSafe, OnFile, fileVars
  <2>3. PlotComplete'
    BY <1>4 DEF Finish, IInv, PlotComplete, Counters, Filled, Running, OnFile, fileVars
  <2> QED BY <2>1, <2>2, <2>3 DEF IInv, Marking, Running
<1> QED BY <1>1, <1>2, <1>3, <1>4 DEF MainStep

LEMMA DeleteInv ==
  ASSUME IInv, UserDelete
  PROVE  IInv'
<1> USE PipelineAssumption
<1>1. /\ file' \in [Scoops -> [Positions -> Int]]
      /\ tail' \in [progress : 0 .. LastNonce, marked : BOOLEAN]
  BY DEF UserDelete, BlankFile, NoMarker, NoNonce, LastNonce
<1>2. TypeOK' /\ main' = "off" /\ ~exists'
  BY <1>1 DEF UserDelete, IInv, TypeOK, poolVars, hasherVars, writerVars
<1> QED BY <1>2 DEF IInv, ResumeSafe, PlotComplete, Marking, Running

LEMMA CrashInv ==
  ASSUME IInv, Crash
  PROVE  IInv'
<1>1. TypeOK' /\ main' = "off" /\ UNCHANGED <<exists, file, tail>>
  BY DEF Crash, Halt, IInv, TypeOK, poolVars, hasherVars, writerVars
<1> QED BY <1>1 DEF IInv, ResumeSafe, PlotComplete, Marking, Running, OnFile

LEMMA TornCrashInv ==
  ASSUME IInv, TornCrash
  PROVE  IInv'
<1> USE PipelineAssumption
<1>1. PICK n \in 0 .. PieceLen :
        /\ file' = FileWith(n)
        /\ tail' \in {TailWith(n), TailWith(Smaller(n + 1, PieceLen))}
  BY DEF TornCrash
<1>2. Running /\ wpc = "write" /\ main' = "off"
      /\ UNCHANGED <<task, runs, exists, poolVars, hasherVars, writerVars>>
  BY DEF TornCrash, Halt, Running
<1>3. tail' = tail \/ tail' = NoMarker
  BY <1>1 DEF TailWith
<1>4. tail' \in [progress : 0 .. LastNonce, marked : BOOLEAN]
  BY <1>3, TailTypes DEF IInv, TypeOK
<1>5. file' \in [Scoops -> [Positions -> Int]]
  BY <1>1, <1>2, FileWithRight
<1>6. TypeOK'
  BY <1>2, <1>4, <1>5 DEF IInv, TypeOK, poolVars, hasherVars, writerVars
<1>7. ResumeSafe'
  <2> SUFFICES ASSUME exists', tail'.marked PROVE ResumeSafe'
    BY DEF ResumeSafe
  <2>1. /\ tail' = tail /\ exists /\ tail.progress \in Nat
        /\ tail.progress < Nonces /\ OnFile(tail.progress)
    BY <1>2, <1>3 DEF NoMarker, IInv, ResumeSafe, TypeOK
  <2>2. \A s \in Scoops, p \in Positions : file[s][p] = p => file'[s][p] = p
    BY <1>1, <1>2, ResumeKept
  <2> QED BY <2>1, <2>2 DEF ResumeSafe, OnFile, Positions
<1> QED BY <1>2, <1>6, <1>7 DEF IInv, PlotComplete, Marking, Running

LEMMA StutterInv ==
  ASSUME IInv, UNCHANGED vars
  PROVE  IInv'
BY DEF IInv, TypeOK, ResumeSafe, PlotComplete, Marking, Running, Owned, Stream, Counters,
       Filled, OnFile, Holds, First, NextWrite, HasherHolds, WriterHolds, Chunk, Smaller,
       vars, runVars, fileVars, poolVars, hasherVars, writerVars

THEOREM Inductive == IInv /\ [Next]_vars => IInv'
<1> SUFFICES ASSUME IInv, [Next]_vars PROVE IInv'
  OBVIOUS
<1>1. CASE Start
  BY <1>1, StartInv DEF Start
<1>2. CASE MainStep
  BY <1>2, MainInv
<1>3. CASE UserDelete
  BY <1>3, DeleteInv
<1>4. CASE HasherStep
  BY <1>4, HasherTakeInv, HasherLockInv, HasherHashInv, HasherSendInv, HasherReleaseInv
     DEF HasherStep, Running
<1>5. CASE WriterStep
  BY <1>5, WriterTakeInv, WriterLockInv, WritePieceInv, WriterCountInv, WriteProgressInv,
     WriteSignatureInv, WriteMarkerFailsInv, WriterSendInv, WriterReleaseInv
     DEF WriterStep, Running
<1>6. CASE Crash \/ TornCrash
  BY <1>6, CrashInv, TornCrashInv
<1>7. CASE Terminated \/ UNCHANGED vars
  BY <1>7, StutterInv DEF Terminated
<1> QED BY <1>1, <1>2, <1>3, <1>4, <1>5, <1>6, <1>7 DEF Next

-----------------------------------------------------------------------------
(* What follows for every behaviour.                                       *)

\* IInv holds throughout every behaviour.
THEOREM Invariance == Spec => []IInv
BY InitInv, Inductive, PTL DEF Spec

\* The shape of the state, and that no worker counts past the end of the plot.
THEOREM TypeCorrect == Spec => []TypeOK
<1>1. IInv => TypeOK
  BY DEF IInv
<1> QED BY <1>1, Invariance, PTL

\* A resume marker can be trusted whenever the process dies: for every plot
\* size, every sequence of settings and any number of crashes.
THEOREM ResumeIsSafe == Spec => []ResumeSafe
<1>1. IInv => ResumeSafe
  BY DEF IInv
<1> QED BY <1>1, Invariance, PTL

\* A run that ends leaves the whole plot on file, whatever happened before it.
THEOREM FinishedIsComplete == Spec => []PlotComplete
<1>1. IInv => PlotComplete
  BY DEF IInv
<1> QED BY <1>1, Invariance, PTL

\* The writer always holds the chunk it believes it holds.
THEOREM WorkersInStep == Spec => []InStep
<1>1. IInv => InStep
  BY DEF IInv, Running, Stream, Holds, InStep
<1> QED BY <1>1, Invariance, PTL

-----------------------------------------------------------------------------
(***************************************************************************)
(* What Pipeline does to the plot file over all runs, proved from IInv: the *)
(* marker never moves back, no work is refused, a benchmark writes nothing, *)
(* and all of it together, that Pipeline implements ResumablePlot.  Two     *)
(* more invariants are needed: Recorded says what the file looks like       *)
(* before the workers start and where its marker is, Circulating which      *)
(* buffers are under way.                                                   *)
(***************************************************************************)
\* The file between the steps of main, and its marker behind the writer.
Recorded ==
  /\ main \in {"preallocated", "marking"} => exists /\ ~tail.marked /\ file = BlankFile
  /\ main = "refused" => exists /\ ~tail.marked
  /\ Running /\ exists /\ tail.marked => tail.progress <= nonces_written

\* Only the buffers of this run are under way.
Circulating ==
  Running =>
    /\ \A i \in DOMAIN empty_buffers : empty_buffers[i] <= Capacity
    /\ \A i \in DOMAIN full_buffers : full_buffers[i] <= Capacity
    /\ HasherHolds => hbuf <= Capacity
    /\ WriterHolds => wbuf <= Capacity

\* Without faults of the marker, a file has none because nothing has been written
\* yet, or because all of it has been, but for the end of the last write.
Unmarked ==
  /\ RefusedEmptyOrWhole
  /\ exists /\ ~tail.marked /\ Running => OnFile(Nonces)

-----------------------------------------------------------------------------
(* The marker.                                                             *)

\* The steps of the hasher and of the main thread that leave the file alone.
LEMMA RecordedInit == Init => Recorded
BY DEF Init, Recorded, Running

LEMMA RecordedSpawn ==
  ASSUME NEW t, NEW n, Spawn(t, n), exists' /\ tail'.marked => tail'.progress <= n
  PROVE  Recorded'
BY DEF Spawn, Recorded, Running

LEMMA RecordedNext ==
  ASSUME IInv, Recorded, [Next]_vars
  PROVE  Recorded'
<1> USE PipelineAssumption
<1>1. ASSUME NEW t \in Tasks, StartResume(t)
      PROVE  Recorded'
  <2>1. Spawn(t, tail.progress) /\ UNCHANGED tail /\ tail.progress \in Int
    BY <1>1 DEF StartResume, fileVars, IInv, TypeOK
  <2> QED BY <2>1, RecordedSpawn
<1>2. ASSUME NEW t \in Tasks, StartBenchmark(t)
      PROVE  Recorded'
  BY <1>2, RecordedSpawn DEF StartBenchmark, fileVars
<1>3. ASSUME NEW t \in Tasks, StartRefused(t) \/ StartNew(t) \/ PreallocateFails(t)
      PROVE  Recorded'
  BY <1>3 DEF StartRefused, StartNew, PreallocateFails, Recorded, Running, NoMarker, fileVars
<1>4. CASE MainStep
  <2>1. CASE InitProgress
    BY <1>4, <2>1 DEF InitProgress, IInv, TypeOK, Recorded, Running
  <2>2. CASE InitSignature
    <3>1. Spawn(task, 0) /\ tail'.progress = 0
      BY <2>2, TailTypes DEF InitSignature, IInv, TypeOK, Marking
    <3> QED BY <3>1, RecordedSpawn
  <2>3. CASE InitMarkerFails
    <3>1. Spawn(task, 0) /\ ~tail'.marked
      BY <2>3 DEF InitMarkerFails, fileVars, Recorded
    <3> QED BY <3>1, RecordedSpawn
  <2>4. CASE Finish
    BY <2>4 DEF Finish, Recorded, Running, fileVars
  <2> QED BY <1>4, <2>1, <2>2, <2>3, <2>4 DEF MainStep
<1>5. CASE UserDelete \/ Crash \/ TornCrash
  BY <1>5 DEF UserDelete, Crash, TornCrash, Halt, Recorded, Running
<1>6. CASE HasherStep
  BY <1>6 DEF HasherStep, Recorded, Running, runVars, fileVars, writerVars
<1>7. CASE WriterStep
  <2> SUFFICES ASSUME exists, tail'.marked PROVE tail'.progress <= nonces_written'
    BY <1>7 DEF WriterStep, WriterTake, WriterLock, WritePiece, WriterCount, WriteProgress,
                WriteSignature, WriteMarkerFails, WriterSend, WriterRelease,
                Recorded, Running, runVars, fileVars
  <2>1. nonces_written \in Nat /\ tail \in [progress : 0 .. LastNonce, marked : BOOLEAN]
    BY DEF IInv, TypeOK
  <2>2. CASE WriteProgress
    BY <2>1, <2>2, ModBounds DEF WriteProgress
  <2>3. CASE WriteSignature
    BY <1>7, <2>1, <2>3 DEF WriteSignature, IInv, Marking, Running, WriterStep
  <2>4. CASE WriterCount
    <3>1. nonces_written < Nonces /\ task \in Tasks
      BY <1>7, <2>4 DEF WriterCount, WriterStep, IInv, Counters, TypeOK, Running
    <3>2. UNCHANGED tail /\ nonces_written <= nonces_written' /\ nonces_written' \in Nat
      BY <2>1, <2>4, <3>1, ChunkBounds DEF WriterCount, fileVars
    <3> QED BY <1>7, <2>1, <3>2 DEF Recorded, Running, WriterStep
  <2>5. CASE WritePiece
    <3>1. UNCHANGED <<tail, nonces_written>>
      BY <2>5 DEF WritePiece, TailWith, NoMarker
    <3> QED BY <1>7, <3>1 DEF Recorded, Running, WriterStep
  <2>6. CASE WriterTake \/ WriterLock \/ WriteMarkerFails \/ WriterSend \/ WriterRelease
    <3>1. UNCHANGED <<tail, nonces_written>>
      BY <2>6 DEF WriterTake, WriterLock, WriteMarkerFails, WriterSend, WriterRelease, fileVars
    <3> QED BY <1>7, <3>1 DEF Recorded, Running, WriterStep
  <2> QED BY <1>7, <2>2, <2>3, <2>4, <2>5, <2>6 DEF WriterStep
<1>8. CASE Terminated \/ UNCHANGED vars
  BY <1>8 DEF Terminated, vars, runVars, fileVars, writerVars, Recorded, Running
<1> QED BY <1>1, <1>2, <1>3, <1>4, <1>5, <1>6, <1>7, <1>8 DEF Next, Start

\* The file is as Recorded says in every reachable state.
THEOREM RecordedAlways == Spec => []Recorded
<1>1. IInv /\ Recorded /\ [Next]_vars => Recorded'
  BY RecordedNext
<1> QED BY <1>1, RecordedInit, Invariance, PTL DEF Spec

-----------------------------------------------------------------------------
(* The buffers.                                                            *)

LEMMA CirculatingNext ==
  ASSUME IInv, Circulating, [Next]_vars
  PROVE  Circulating'
<1> USE PipelineAssumption
<1>1. ASSUME NEW t, NEW n, Spawn(t, n), task' = t
      PROVE  Circulating'
  BY <1>1 DEF Spawn, Circulating, HasherHolds, WriterHolds, Capacity, BufferIds
<1>2. CASE Start
  BY <1>1, <1>2 DEF Start, StartResume, StartBenchmark, StartRefused, StartNew,
                    PreallocateFails, Launch, Circulating, Running
<1>3. CASE MainStep
  BY <1>1, <1>3 DEF MainStep, InitProgress, InitSignature, InitMarkerFails, Finish,
                    Circulating, Running
<1>4. CASE UserDelete \/ Crash \/ TornCrash
  BY <1>4 DEF UserDelete, Crash, TornCrash, Halt, Circulating, Running
<1>5. CASE HasherStep
  <2> SUFFICES ASSUME Running PROVE Circulating'
    BY <1>5 DEF HasherStep, Running
  <2>1. /\ empty_buffers \in Seq(Buffers) /\ full_buffers \in Seq(Buffers)
        /\ UNCHANGED <<wpc, wbuf, task, main>> /\ Capacity' = Capacity
    BY <1>5 DEF HasherStep, runVars, writerVars, Capacity, IInv, TypeOK
  <2>2. CASE HasherTake
    BY <2>1, <2>2 DEF HasherTake, Circulating, HasherHolds, WriterHolds
  <2>3. CASE HasherSend
    BY <2>1, <2>3 DEF HasherSend, Circulating, HasherHolds, WriterHolds
  <2>4. CASE HasherLock \/ HasherHash \/ HasherRelease
    BY <2>1, <2>4 DEF HasherLock, HasherHash, HasherRelease, Circulating, HasherHolds,
                      WriterHolds
  <2> QED BY <1>5, <2>2, <2>3, <2>4 DEF HasherStep
<1>6. CASE WriterStep
  <2> SUFFICES ASSUME Running PROVE Circulating'
    BY <1>6 DEF WriterStep, Running
  <2>1. /\ empty_buffers \in Seq(Buffers) /\ full_buffers \in Seq(Buffers)
        /\ UNCHANGED <<hpc, hbuf, task, main>> /\ Capacity' = Capacity
    BY <1>6 DEF WriterStep, runVars, hasherVars, Capacity, IInv, TypeOK
  <2>2. CASE WriterTake
    BY <2>1, <2>2 DEF WriterTake, Circulating, HasherHolds, WriterHolds
  <2>3. CASE WriterSend
    BY <2>1, <2>3 DEF WriterSend, Circulating, HasherHolds, WriterHolds
  <2>4. CASE \/ WriterLock \/ WritePiece \/ WriterCount \/ WriteProgress
             \/ WriteSignature \/ WriteMarkerFails \/ WriterRelease
    BY <2>1, <2>4 DEF WriterLock, WritePiece, WriterCount, WriteProgress, WriteSignature,
                      WriteMarkerFails, WriterRelease, Circulating, HasherHolds, WriterHolds
  <2> QED BY <1>6, <2>2, <2>3, <2>4 DEF WriterStep
<1>7. CASE Terminated \/ UNCHANGED vars
  BY <1>7 DEF Terminated, vars, runVars, poolVars, hasherVars, writerVars, Circulating,
              Running, HasherHolds, WriterHolds, Capacity
<1> QED BY <1>2, <1>3, <1>4, <1>5, <1>6, <1>7 DEF Next

\* Distinct buffers, all of them different from one that is in a worker's hands,
\* leave room for it in any channel.
LEMMA RoomForOne ==
  ASSUME NEW channel \in Seq(Buffers), NEW b \in Buffers, NEW room \in {1, 2}, b <= room,
         \A i \in DOMAIN channel : channel[i] <= room /\ channel[i] # b,
         \A i, j \in DOMAIN channel : channel[i] = channel[j] => i = j
  PROVE  Len(channel) < room
<1> SUFFICES ASSUME Len(channel) >= room PROVE FALSE
  OBVIOUS
<1>1. 1 \in DOMAIN channel /\ channel[1] \in {1, 2} /\ b \in {1, 2}
  BY DEF Buffers
<1>2. room = 2 => 2 \in DOMAIN channel /\ channel[2] \in {1, 2}
  BY DEF Buffers
<1> QED BY <1>1, <1>2

LEMMA RoomToSend ==
  ASSUME IInv, Circulating
  PROVE  NeverBlocksLocked
<1> SUFFICES ASSUME Running PROVE NeverBlocksLocked
  BY DEF NeverBlocksLocked, Running
<1>1. Capacity \in {1, 2}
  BY DEF Capacity, BufferIds
<1>2. ASSUME hpc = "send" PROVE Len(full_buffers) < Capacity
  <2>1. /\ full_buffers \in Seq(Buffers) /\ hbuf \in Buffers /\ hbuf <= Capacity
        /\ \A i \in DOMAIN full_buffers : full_buffers[i] <= Capacity
    BY <1>2 DEF IInv, TypeOK, Circulating, HasherHolds
  <2>2. /\ \A i \in DOMAIN full_buffers : full_buffers[i] # hbuf
        /\ \A i, j \in DOMAIN full_buffers : full_buffers[i] = full_buffers[j] => i = j
    BY <1>2 DEF IInv, Owned, HasherHolds
  <2> QED BY <1>1, <2>1, <2>2, RoomForOne
<1>3. ASSUME wpc = "send" PROVE Len(empty_buffers) < Capacity
  <2>1. /\ empty_buffers \in Seq(Buffers) /\ wbuf \in Buffers /\ wbuf <= Capacity
        /\ \A i \in DOMAIN empty_buffers : empty_buffers[i] <= Capacity
    BY <1>3 DEF IInv, TypeOK, Circulating, WriterHolds
  <2>2. /\ \A i \in DOMAIN empty_buffers : empty_buffers[i] # wbuf
        /\ \A i, j \in DOMAIN empty_buffers : empty_buffers[i] = empty_buffers[j] => i = j
    BY <1>3 DEF IInv, Owned, WriterHolds
  <2> QED BY <1>1, <2>1, <2>2, RoomForOne
<1> QED BY <1>2, <1>3 DEF NeverBlocksLocked

\* Neither worker ever waits for a channel while it holds the mutex of a buffer.
THEOREM SendsNeverWait == Spec => []NeverBlocksLocked
<1>1. Init => Circulating
  BY DEF Init, Circulating, Running
<1>2. IInv /\ Circulating /\ [Next]_vars => Circulating'
  BY CirculatingNext
<1>3. IInv /\ Circulating => NeverBlocksLocked
  BY RoomToSend
<1> QED BY <1>1, <1>2, <1>3, Invariance, PTL DEF Spec

-----------------------------------------------------------------------------
(* What a step does to the file.                                           *)

\* A benchmark never comes to the steps that write.
LEMMA BenchmarkStep ==
  ASSUME IInv, [Next]_vars, main = "running", task.benchmark
  PROVE  UNCHANGED fileVars
<1>1. wpc \notin {"write", "progress", "signature"}
  BY DEF IInv, Counters, Running
<1>2. CASE WriterStep
  BY <1>1, <1>2 DEF WriterStep, WriterTake, WriterLock, WritePiece, WriterCount, WriteProgress,
                    WriteSignature, WriteMarkerFails, WriterSend, WriterRelease, fileVars
<1>3. CASE Start \/ MainStep \/ UserDelete
  BY <1>3 DEF Start, StartResume, StartRefused, StartBenchmark, StartNew, PreallocateFails,
              Launch, Idle, MainStep, InitProgress, InitSignature, InitMarkerFails, Finish,
              UserDelete
<1>4. CASE HasherStep \/ Crash \/ TornCrash \/ Terminated \/ UNCHANGED vars
  BY <1>1, <1>4 DEF HasherStep, Crash, TornCrash, Halt, Terminated, Idle, vars, fileVars
<1> QED BY <1>2, <1>3, <1>4 DEF Next

\* A benchmark writes nothing, whatever it is started on.
THEOREM BenchmarkNeverWrites == Spec => BenchmarkReadOnly
<1>1. IInv /\ [Next]_vars => (main = "running" /\ task.benchmark => UNCHANGED fileVars)
  BY BenchmarkStep
<1> QED BY <1>1, Invariance, PTL DEF Spec, BenchmarkReadOnly

\* What each step does to the marker of a file that stays.
LEMMA MarkerStep ==
  ASSUME IInv, Recorded, [Next]_vars
  PROVE  \/ UNCHANGED tail
         \/ ~tail'.marked
         \/ ~(exists /\ tail.marked)
         \/ Running /\ WriteProgress /\ UNCHANGED <<runVars, hasherVars, data>>
         \/ UNCHANGED tail.progress
<1>1. CASE Start
  BY <1>1 DEF Start, StartResume, StartRefused, StartBenchmark, StartNew, PreallocateFails,
              fileVars, NoMarker
<1>2. CASE MainStep
  BY <1>2 DEF MainStep, InitProgress, InitSignature, InitMarkerFails, Finish, fileVars, Recorded
<1>3. CASE WriterStep
  <2>1. tail \in [progress : 0 .. LastNonce, marked : BOOLEAN]
    BY DEF IInv, TypeOK
  <2>2. CASE WriteSignature
    BY <2>1, <2>2 DEF WriteSignature
  <2>3. CASE WritePiece
    BY <2>3 DEF WritePiece, TailWith, NoMarker
  <2> QED
    BY <1>3, <2>2, <2>3 DEF WriterStep, WriterTake, WriterLock, WriterCount, WriteMarkerFails,
       WriterSend, WriterRelease, fileVars, Running
<1>4. CASE TornCrash
  BY <1>4 DEF TornCrash, TailWith, NoMarker
<1>5. CASE UserDelete \/ HasherStep \/ Crash \/ Terminated \/ UNCHANGED vars
  BY <1>5 DEF UserDelete, HasherStep, Crash, Terminated, vars, fileVars, NoMarker
<1> QED BY <1>1, <1>2, <1>3, <1>4, <1>5 DEF Next

\* The offset fits the 32 bits it is stored in: a plot of up to 2^32 nonces.
LEMMA NoWrap ==
  ASSUME Nonces <= ProgressMod, NEW n \in Nat, n < Nonces
  PROVE  n % ProgressMod = n
BY PipelineAssumption

\* As long as the file keeps a marker, the offset in it never moves back.
THEOREM MarkerNeverMovesBack == Nonces <= ProgressMod => (Spec => MarkerMonotone)
<1> SUFFICES ASSUME Nonces <= ProgressMod PROVE Spec => MarkerMonotone
  OBVIOUS
<1>1. ASSUME IInv, Recorded, [Next]_vars, exists, tail.marked, tail'.marked
      PROVE  tail'.progress >= tail.progress
  <2>1. tail.progress \in Nat
    BY <1>1 DEF IInv, TypeOK
  <2>2. CASE Running /\ WriteProgress /\ UNCHANGED <<runVars, hasherVars, data>>
    <3>1. nonces_written \in Nat /\ nonces_written < Nonces /\ tail.progress <= nonces_written
      BY <1>1, <2>2 DEF WriteProgress, IInv, TypeOK, Counters, Recorded
    <3>2. tail'.progress = nonces_written % ProgressMod
      BY <1>1, <2>2 DEF WriteProgress, IInv, TypeOK
    <3> QED BY <2>1, <3>1, <3>2, NoWrap
  <2> QED BY <1>1, <2>1, <2>2, MarkerStep
<1>2. IInv /\ Recorded /\ [Next]_vars =>
        (exists /\ tail.marked /\ tail'.marked => tail'.progress >= tail.progress)
  BY <1>1
<1> QED BY <1>2, Invariance, RecordedAlways, PTL DEF Spec, MarkerMonotone

-----------------------------------------------------------------------------
(* Files without a marker.                                                 *)

\* A write that damages or replaces the marker leaves all of the plot on file
\* but, if it was torn, the last scoop of the last nonce.
LEMMA MarkerEaten ==
  ASSUME IInv, Running, wpc = "write", NEW STATE n, n \in 0 .. PieceLen, file' = FileWith(n),
         NEW STATE m, m \in {n, Smaller(n + 1, PieceLen)}, scoop = LastScoop,
         PieceFrom + m = Nonces
  PROVE  \A s \in Scoops, p \in Positions :
           (s = LastScoop /\ p = LastNonce) \/ file'[s][p] = p
<1> USE PipelineAssumption
<1>1. /\ \A s \in Scoops, p \in Positions :
            file'[s][p] = IF s = scoop /\ PieceFrom <= p /\ p < PieceFrom + n THEN p
                                                                           ELSE file[s][p]
      /\ PieceLen \in Nat \ {0} /\ offset + PieceLen <= Chunk(nonces_written)
      /\ nonces_written + Chunk(nonces_written) <= Nonces /\ PieceFrom \in Nat
  BY FileWithRight
<1>2. /\ nonces_written \in Nat /\ offset \in Nat /\ ~task.benchmark /\ task \in Tasks
      /\ Chunk(nonces_written) \in Nat
  <2>1. /\ nonces_written \in Nat /\ offset \in Nat /\ ~task.benchmark /\ task \in Tasks
        /\ nonces_written < Nonces
    BY DEF IInv, TypeOK, Counters
  <2> QED BY <2>1, ChunkBounds
<1>3. /\ OnFile(nonces_written)
      /\ \A s \in Scoops, p \in Positions :
           /\ nonces_written <= p /\ p < nonces_written + Chunk(nonces_written)
           /\ s < scoop \/ (s = scoop /\ p < nonces_written + offset)
           => file[s][p] = p
  BY <1>2 DEF IInv, Filled
<1>4. m <= PieceLen /\ m \in Nat /\ n \in Nat /\ m <= n + 1
  BY <1>1 DEF Smaller
<1>5. nonces_written + Chunk(nonces_written) = Nonces
  BY <1>1, <1>2, <1>4 DEF PieceFrom
<1> TAKE s \in Scoops, p \in Positions
<1>6. s \in Nat /\ s <= LastScoop /\ p \in Nat /\ p < Nonces /\ LastScoop \in Int
  BY DEF Scoops, Positions, LastScoop
<1>7. CASE p < nonces_written
  BY <1>1, <1>3, <1>6, <1>7, <1>2 DEF OnFile
<1>8. CASE p >= nonces_written /\ s # LastScoop
  BY <1>1, <1>2, <1>3, <1>5, <1>6, <1>8
<1>9. CASE p >= nonces_written /\ s = LastScoop /\ p < PieceFrom
  BY <1>1, <1>2, <1>3, <1>5, <1>6, <1>9 DEF PieceFrom
<1>10. CASE s = LastScoop /\ p >= PieceFrom /\ p # LastNonce
  BY <1>1, <1>4, <1>6, <1>10 DEF LastNonce
<1> QED BY <1>1, <1>2, <1>6, <1>7, <1>8, <1>9, <1>10

LEMMA UnmarkedNext ==
  ASSUME IInv, Recorded, Unmarked, [Next]_vars, ~MarkerFaults
  PROVE  Unmarked'
<1> USE PipelineAssumption
<1>0. /\ tail \in [progress : 0 .. LastNonce, marked : BOOLEAN]
      /\ OnFile(Nonces) => \A s \in Scoops, p \in Positions : file[s][p] = p
  BY DEF IInv, TypeOK, OnFile, Positions
<1>1. CASE Start
  BY <1>1 DEF Start, StartResume, StartRefused, StartBenchmark, StartNew, PreallocateFails,
              Launch, Spawn, Idle, Unmarked, RefusedEmptyOrWhole, Running, NoMarker, fileVars
<1>2. CASE MainStep
  <2>1. CASE InitProgress \/ InitSignature
    BY <1>0, <2>1 DEF InitProgress, InitSignature, Spawn, Unmarked, RefusedEmptyOrWhole, Idle,
                      Running
  <2>2. CASE Finish
    BY <1>0, <2>2 DEF Finish, Unmarked, RefusedEmptyOrWhole, Idle, Running, fileVars
  <2> QED BY <1>2, <2>1, <2>2 DEF MainStep, InitMarkerFails
<1>3. CASE UserDelete
  BY <1>3 DEF UserDelete, Unmarked, RefusedEmptyOrWhole
<1>4. CASE HasherStep
  BY <1>4 DEF HasherStep, Unmarked, RefusedEmptyOrWhole, Idle, Running, runVars, fileVars,
              OnFile
<1>5. CASE WriterStep
  <2>1. Running /\ Running' /\ UNCHANGED exists
    BY <1>5 DEF WriterStep, WriterTake, WriterLock, WritePiece, WriterCount, WriteProgress,
                WriteSignature, WriteMarkerFails, WriterSend, WriterRelease, runVars,
                Running, fileVars
  <2> SUFFICES ASSUME exists, ~tail'.marked PROVE OnFile(Nonces)'
    BY <2>1 DEF Unmarked, RefusedEmptyOrWhole, Idle, Running
  <2>2. CASE WritePiece
    <3>1. wpc = "write" /\ PieceLen \in 0 .. PieceLen /\ file' = FileWith(PieceLen)
      <4>1. wpc = "write" /\ file' = FileWith(PieceLen)
        BY <2>2 DEF WritePiece
      <4>2. /\ task \in Tasks /\ nonces_written \in Nat /\ nonces_written < Nonces
            /\ offset \in Nat /\ offset < Chunk(nonces_written)
        BY <2>1, <4>1 DEF IInv, TypeOK, Counters
      <4> QED BY <4>1, <4>2, ChunkBounds DEF PieceLen, Smaller
    <3>2. CASE tail' = tail
      <4>1. \A s \in Scoops, p \in Positions : file'[s][p] = p
        BY <1>0, <2>1, <3>1, <3>2, ResumeKept DEF Unmarked
      <4> QED BY <4>1 DEF OnFile, Positions
    <3>3. CASE tail' # tail
      <4>1. scoop = LastScoop /\ PieceFrom + PieceLen = Nonces
        BY <2>2, <3>3 DEF WritePiece, TailWith
      <4>2. /\ PieceLen \in Nat \ {0} /\ offset + PieceLen <= Chunk(nonces_written)
            /\ nonces_written + Chunk(nonces_written) <= Nonces
        BY <2>1, <3>1, FileWithRight
      <4>3. /\ nonces_written \in Nat /\ offset \in Nat /\ Chunk(nonces_written) \in Nat
            /\ ~task.benchmark
        <5>1. /\ nonces_written \in Nat /\ offset \in Nat /\ ~task.benchmark
              /\ task \in Tasks /\ nonces_written < Nonces
          BY <2>1, <3>1 DEF IInv, TypeOK, Counters
        <5> QED BY <5>1, ChunkBounds
      <4>4. /\ offset + PieceLen = Chunk(nonces_written)
            /\ nonces_written + Chunk(nonces_written) = Nonces
        BY <4>1, <4>2, <4>3 DEF PieceFrom
      <4>5. wpc' = "count" /\ Chunk(nonces_written)' = Chunk(nonces_written)
            /\ UNCHANGED <<nonces_written, task>>
        BY <1>5, <2>2, <4>1, <4>3, <4>4 DEF WriterStep, runVars, WritePiece, Chunk, Smaller
      <4>6. Filled'
        <5>1. IInv'
          BY Inductive
        <5> QED BY <2>1, <4>3, <4>5, <5>1 DEF IInv
      <4> QED BY <4>4, <4>5, <4>6 DEF Filled, OnFile
    <3> QED BY <3>2, <3>3
  <2>3. CASE WriteProgress \/ WriteSignature
    BY <1>0, <2>1, <2>3 DEF WriteProgress, WriteSignature, Unmarked, OnFile
  <2>4. CASE WriterTake \/ WriterLock \/ WriterCount \/ WriteMarkerFails \/ WriterSend
             \/ WriterRelease
    BY <2>1, <2>4 DEF WriterTake, WriterLock, WriterCount, WriteMarkerFails, WriterSend,
                      WriterRelease, Unmarked, OnFile, fileVars
  <2> QED BY <1>5, <2>2, <2>3, <2>4 DEF WriterStep
<1>6. CASE Crash
  BY <1>0, <1>6 DEF Crash, Halt, Unmarked, RefusedEmptyOrWhole, Running, Recorded
<1>7. CASE TornCrash
  <2> SUFFICES ASSUME exists', ~tail'.marked
               PROVE  \A s \in Scoops, p \in Positions :
                        (s = LastScoop /\ p = LastNonce) \/ file'[s][p] = p
    BY <1>7 DEF TornCrash, Halt, Unmarked, RefusedEmptyOrWhole, Running
  <2>1. PICK n \in 0 .. PieceLen :
          /\ file' = FileWith(n)
          /\ tail' \in {TailWith(n), TailWith(Smaller(n + 1, PieceLen))}
    BY <1>7 DEF TornCrash
  <2>2. PICK m \in {n, Smaller(n + 1, PieceLen)} : tail' = TailWith(m)
    BY <2>1
  <2>3. Running /\ wpc = "write" /\ exists
    BY <1>7 DEF TornCrash, Halt, Running
  <2>4. CASE tail' = tail
    BY <1>0, <2>1, <2>3, <2>4, ResumeKept DEF Unmarked
  <2>5. CASE tail' # tail
    BY <2>1, <2>2, <2>3, <2>5, MarkerEaten DEF TailWith
  <2> QED BY <2>4, <2>5
<1>8. CASE Terminated \/ UNCHANGED vars
  BY <1>8 DEF Terminated, vars, runVars, fileVars, Unmarked, RefusedEmptyOrWhole, Idle, Running,
              OnFile
<1> QED BY <1>1, <1>2, <1>3, <1>4, <1>5, <1>6, <1>7, <1>8 DEF Next

\* So long as the marker can be written, no work is ever refused: a file without
\* one is still empty, or whole but for the end of a torn last write.
THEOREM NoWorkRefused == ~MarkerFaults => (Spec => []RefusedEmptyOrWhole)
<1> SUFFICES ASSUME ~MarkerFaults PROVE Spec => []RefusedEmptyOrWhole
  OBVIOUS
<1>1. Init => Unmarked
  BY DEF Init, Unmarked, RefusedEmptyOrWhole, Running
<1>2. IInv /\ Recorded /\ Unmarked /\ [Next]_vars => Unmarked'
  BY UnmarkedNext
<1>3. Unmarked => RefusedEmptyOrWhole
  BY DEF Unmarked
<1> QED BY <1>1, <1>2, <1>3, Invariance, RecordedAlways, PTL DEF Spec

-----------------------------------------------------------------------------
(* The refinement: what ResumablePlot sees of the file.                    *)

Stored == IF exists THEN {p \in Positions : \A s \in Scoops : file[s][p] = p} ELSE {}
Point == IF exists /\ tail.marked THEN tail.progress ELSE NoPoint

\* A step of Pipeline that loses no nonce and leaves the marker alone, or takes it
\* away when all nonces but the last are on file.
LEMMA StoreStep ==
  ASSUME Stored \subseteq Stored',
         \/ Point' = Point
         \/ 0 .. Nonces - 2 \subseteq Stored' /\ Point' = NoPoint
  PROVE  Plot!Store
<1>1. Stored' \in SUBSET (0 .. Nonces - 1)
  BY DEF Stored, Positions
<1>2. 0 .. (Nonces - 1) - 1 = 0 .. Nonces - 2
  BY PipelineAssumption
<1> QED BY <1>1, <1>2 DEF Plot!Store, Plot!Prefix, Plot!Positions, Stored, Point

\* A step that sets the marker to an offset below which everything is on file.
LEMMA PublishStep ==
  ASSUME NEW STATE p, p \in Positions, 0 .. p - 1 \subseteq Stored,
         Point # NoPoint => Point <= p,
         Point' = p, Stored' = Stored
  PROVE  Plot!Publish
BY DEF Plot!Publish, Plot!Prefix, Plot!Positions, Positions, Stored, Point

LEMMA FileStays ==
  ASSUME UNCHANGED <<exists, file, tail>>
  PROVE  Stored' = Stored /\ Point' = Point
BY DEF Stored, Point

\* Every step is a step of ResumablePlot, or changes nothing that it sees.
LEMMA PlotStep ==
  ASSUME IInv, Recorded, [Next]_vars, Nonces <= ProgressMod
  PROVE  [Plot!Next]_(Plot!vars)
<1> USE PipelineAssumption
<1> DEFINE Stutter == Stored' = Stored /\ Point' = Point
<1> SUFFICES ASSUME ~Stutter PROVE Plot!Next
  BY DEF Plot!vars, Stored, Point
<1>0. /\ tail \in [progress : 0 .. LastNonce, marked : BOOLEAN]
      /\ 0 \in Scoops /\ file \in [Scoops -> [Positions -> Int]]
  BY DEF IInv, TypeOK, Scoops
<1>1. CASE Start
  <2>1. ASSUME NEW t \in Tasks, StartResume(t) \/ StartRefused(t) \/ StartBenchmark(t)
        PROVE  FALSE
    <3>1. UNCHANGED <<exists, file, tail>>
      BY <2>1 DEF StartResume, StartRefused, StartBenchmark, fileVars
    <3> QED BY <3>1, FileStays
  <2>2. ASSUME NEW t \in Tasks, StartNew(t) \/ PreallocateFails(t)
        PROVE  FALSE
    <3>1. ~exists /\ exists' /\ file' = BlankFile /\ ~tail'.marked
      BY <2>2 DEF StartNew, PreallocateFails, NoMarker
    <3>2. \A p \in Positions : file'[0][p] # p
      BY <1>0, <3>1 DEF BlankFile, NoNonce, Positions
    <3> QED BY <1>0, <3>1, <3>2 DEF Stored, Point
  <2> QED BY <1>1, <2>1, <2>2 DEF Start
<1>2. CASE MainStep
  <2>1. CASE InitProgress
    BY <1>0, <2>1 DEF InitProgress, Recorded, Stored, Point
  <2>2. CASE InitSignature
    <3>1. exists /\ exists' /\ ~tail.marked /\ tail.progress = 0 /\ UNCHANGED file
          /\ tail' = [tail EXCEPT !.marked = TRUE]
      BY <2>2 DEF InitSignature, Recorded, IInv, Marking
    <3>2. Point = NoPoint /\ Point' = 0 /\ Stored' = Stored /\ 0 \in Positions
      BY <1>0, <3>1 DEF Point, Stored, Positions
    <3>3. 0 .. 0 - 1 \subseteq Stored
      OBVIOUS
    <3> HIDE DEF Point, Stored
    <3> QED BY <3>2, <3>3, PublishStep DEF Plot!Next
  <2>3. CASE InitMarkerFails \/ Finish
    <3>1. UNCHANGED <<exists, file, tail>>
      BY <2>3 DEF InitMarkerFails, Finish, fileVars
    <3> QED BY <3>1, FileStays
  <2> QED BY <1>2, <2>1, <2>2, <2>3 DEF MainStep
<1>3. CASE UserDelete
  <2>1. Point = NoPoint /\ Point' = NoPoint /\ Stored' = {}
    BY <1>3 DEF UserDelete, Recorded, Point, Stored
  <2> QED BY <2>1 DEF Plot!Next, Plot!Forget, Point, Stored
<1>4. CASE WriterStep
  <2>1. Running /\ UNCHANGED exists
    BY <1>4 DEF WriterStep, WriterTake, WriterLock, WritePiece, WriterCount, WriteProgress,
                WriteSignature, WriteMarkerFails, WriterSend, WriterRelease, Running, fileVars
  <2>2. CASE WritePiece
    <3>1. wpc = "write" /\ file' = FileWith(PieceLen) /\ tail' = TailWith(PieceLen)
      BY <2>2 DEF WritePiece
    <3>2. PieceLen \in 0 .. PieceLen
      <4>1. /\ task \in Tasks /\ nonces_written \in Nat /\ nonces_written < Nonces
            /\ offset \in Nat /\ offset < Chunk(nonces_written)
        BY <2>1, <3>1 DEF IInv, TypeOK, Counters
      <4> QED BY <4>1, ChunkBounds DEF PieceLen, Smaller
    <3>3. Stored \subseteq Stored'
      <4>1. \A s \in Scoops, p \in Positions : file[s][p] = p => file'[s][p] = p
        BY <2>1, <3>1, <3>2, ResumeKept
      <4> QED BY <2>1, <4>1 DEF Stored
    <3>4. CASE tail' = tail
      BY <2>1, <3>3, <3>4, StoreStep DEF Point, Plot!Next
    <3>5. CASE tail' # tail
      <4>1. scoop = LastScoop /\ PieceFrom + PieceLen = Nonces /\ ~tail'.marked
        BY <3>1, <3>5 DEF TailWith, NoMarker
      <4>2. \A s \in Scoops, p \in Positions :
              (s = LastScoop /\ p = LastNonce) \/ file'[s][p] = p
        BY <2>1, <3>1, <3>2, <4>1, MarkerEaten
      <4>3. exists => 0 .. Nonces - 2 \subseteq Stored'
        BY <2>1, <4>2 DEF Stored, Positions, LastNonce
      <4>4. ~exists => Point' = Point
        BY <2>1 DEF Point
      <4>5. Point' = NoPoint
        BY <4>1 DEF Point
      <4> HIDE DEF Point, Stored
      <4> QED BY <3>3, <4>3, <4>4, <4>5, StoreStep DEF Plot!Next
    <3> QED BY <3>4, <3>5
  <2>3. CASE WriteProgress
    <3>1. /\ nonces_written \in Nat /\ nonces_written < Nonces /\ OnFile(nonces_written)
          /\ tail' = [tail EXCEPT !.progress = nonces_written % ProgressMod] /\ UNCHANGED file
          /\ exists /\ tail.marked => tail.progress <= nonces_written
      BY <2>1, <2>3 DEF WriteProgress, IInv, TypeOK, Counters, Filled, Recorded
    <3>2. tail'.progress = nonces_written /\ tail'.marked = tail.marked
      BY <1>0, <3>1, NoWrap
    <3>3. exists /\ tail.marked
      BY <2>1, <3>1, <3>2 DEF Stored, Point
    <3>4. /\ Stored' = Stored /\ Point = tail.progress /\ Point' = nonces_written
          /\ nonces_written \in Positions /\ 0 .. nonces_written - 1 \subseteq Stored
      BY <2>1, <3>1, <3>2, <3>3 DEF Stored, Point, Positions, OnFile
    <3> HIDE DEF Point, Stored
    <3> QED BY <3>1, <3>3, <3>4, PublishStep DEF Plot!Next
  <2>4. CASE WriteSignature
    <3>1. /\ nonces_written \in Nat /\ nonces_written < Nonces /\ OnFile(nonces_written)
          /\ tail.progress <= nonces_written /\ tail.progress \in Nat
          /\ tail' = [tail EXCEPT !.marked = TRUE] /\ UNCHANGED file
      BY <1>0, <2>1, <2>4 DEF WriteSignature, IInv, TypeOK, Counters, Filled, Marking
    <3>2. tail'.progress = tail.progress /\ tail'.marked
      BY <1>0, <3>1
    <3>3. exists /\ ~tail.marked
      BY <2>1, <3>1, <3>2 DEF Stored, Point
    <3>4. /\ Stored' = Stored /\ Point = NoPoint /\ Point' = tail.progress
          /\ tail.progress \in Positions /\ 0 .. tail.progress - 1 \subseteq Stored
      BY <2>1, <3>1, <3>2, <3>3 DEF Stored, Point, Positions, OnFile
    <3> HIDE DEF Point, Stored
    <3> QED BY <3>4, PublishStep DEF Plot!Next
  <2>5. CASE WriterTake \/ WriterLock \/ WriterCount \/ WriteMarkerFails \/ WriterSend
             \/ WriterRelease
    <3>1. UNCHANGED <<exists, file, tail>>
      BY <2>5 DEF WriterTake, WriterLock, WriterCount, WriteMarkerFails, WriterSend,
                  WriterRelease, fileVars
    <3> QED BY <3>1, FileStays
  <2> QED BY <1>4, <2>2, <2>3, <2>4, <2>5 DEF WriterStep
<1>5. CASE TornCrash
  <2>1. PICK n \in 0 .. PieceLen :
          /\ file' = FileWith(n)
          /\ tail' \in {TailWith(n), TailWith(Smaller(n + 1, PieceLen))}
    BY <1>5 DEF TornCrash
  <2>2. PICK m \in {n, Smaller(n + 1, PieceLen)} : tail' = TailWith(m)
    BY <2>1
  <2>3. Running /\ wpc = "write" /\ UNCHANGED exists
    BY <1>5 DEF TornCrash, Halt, Running
  <2>4. Stored \subseteq Stored'
    <3>1. \A s \in Scoops, p \in Positions : file[s][p] = p => file'[s][p] = p
      BY <2>1, <2>3, ResumeKept
    <3> QED BY <2>3, <3>1 DEF Stored
  <2>5. CASE tail' = tail
    BY <2>3, <2>4, <2>5, StoreStep DEF Point, Plot!Next
  <2>6. CASE tail' # tail
    <3>1. scoop = LastScoop /\ PieceFrom + m = Nonces /\ ~tail'.marked
      BY <2>2, <2>6 DEF TailWith, NoMarker
    <3>2. \A s \in Scoops, p \in Positions :
            (s = LastScoop /\ p = LastNonce) \/ file'[s][p] = p
      BY <2>1, <2>2, <2>3, <3>1, MarkerEaten
    <3>3. /\ exists => 0 .. Nonces - 2 \subseteq Stored'
          /\ ~exists => Point' = Point
          /\ Point' = NoPoint
      BY <2>3, <3>1, <3>2 DEF Stored, Point, Positions, LastNonce
    <3> HIDE DEF Point, Stored
    <3> QED BY <2>4, <3>3, StoreStep DEF Plot!Next
  <2> QED BY <2>5, <2>6
<1>6. CASE HasherStep \/ Crash \/ Terminated \/ UNCHANGED vars
  <2>1. UNCHANGED <<exists, file, tail>>
    BY <1>6 DEF HasherStep, Crash, Halt, Terminated, vars, fileVars
  <2> QED BY <2>1, FileStays
<1> QED BY <1>1, <1>2, <1>3, <1>4, <1>5, <1>6 DEF Next

\* The plot file keeps what ResumablePlot promises, whatever becomes of the runs:
\* no nonce on file is lost, the resume point never moves back, and it goes only
\* when every nonce but the last is on file.
THEOREM KeepsPromise == Nonces <= ProgressMod => (Spec => Promise)
<1> SUFFICES ASSUME Nonces <= ProgressMod PROVE Spec => Promise
  OBVIOUS
<1>1. Init => Plot!Init
  BY DEF Init, Plot!Init
<1>2. IInv /\ Recorded /\ [Next]_vars => [Plot!Next]_(Plot!vars)
  BY PlotStep
<1> QED BY <1>1, <1>2, Invariance, RecordedAlways, PTL DEF Spec, Promise, Plot!Spec
=============================================================================
