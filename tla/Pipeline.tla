------------------------------- MODULE Pipeline -------------------------------
(***************************************************************************)
(* The plotting pipeline of engraver across process runs: the main thread   *)
(* (src/plotter.rs), which creates or resumes the plot file and spawns the  *)
(* two workers; the hasher thread (src/scheduler.rs), here one step per     *)
(* buffer; the writer thread (src/writer.rs), one step per write_all; the   *)
(* two bounded channels and the mutex of every buffer between them          *)
(* (src/buffer.rs); and the plot file with the resume information in its    *)
(* last eight bytes.  The process may be killed at any step and started     *)
(* again with other settings.  How a buffer is hashed is module Scheduler.  *)
(***************************************************************************)
EXTENDS Integers, Sequences

CONSTANTS
  Nonces,        \* task.nonces, after rounding to the sector size
  NumScoops,     \* NUM_SCOOPS, 4096 in the code
  TaskSize,      \* TASK_SIZE: nonces per write_all, 16384 in the code
  ProgressMod,   \* 2^32: the resume offset is stored as a u32
  Tasks,         \* the settings a run may be started with
  MaxRuns,       \* bound: how often the program is started
  MarkerFaults   \* whether write_resume_info may fail

ASSUME PipelineAssumption ==
  /\ Nonces \in Nat \ {0}
  /\ NumScoops \in Nat \ {0}
  /\ TaskSize \in Nat \ {0}
  /\ ProgressMod \in Nat \ {0}
  /\ Tasks \subseteq [buffer : Nat \ {0}, async_io : BOOLEAN, benchmark : BOOLEAN]
  /\ MaxRuns \in Nat
  /\ MarkerFaults \in BOOLEAN

Positions == 0 .. Nonces - 1
Scoops == 0 .. NumScoops - 1
LastScoop == NumScoops - 1
LastNonce == Nonces - 1
Buffers == {1, 2}
NoNonce == -1                       \* a file cell or buffer slot never filled

\* The last eight bytes of the file: an offset and whether 0xAFFEAFFE follows.
NoMarker == [progress |-> 0, marked |-> FALSE]
BlankFile == [s \in Scoops |-> [p \in Positions |-> NoNonce]]

VARIABLES
  main,             \* where Plotter::run is
  task,             \* the PlotterTask of the current run
  runs,             \* how often the program was started
  exists,           \* file.exists()
  file,             \* file[s][p]: the nonce whose scoop s is stored at position p
  tail,             \* the last eight bytes of the file
  empty_buffers,    \* the channel writer -> hasher
  full_buffers,     \* the channel hasher -> writer
  data,             \* data[b][i]: the nonce hashed into slot i of buffer b
  lock,             \* the holder of each buffer's mutex
  hpc, hbuf, nonces_hashed,                   \* the hasher thread
  wpc, wbuf, nonces_written, scoop, offset    \* the writer thread

fileVars == <<exists, file, tail>>
poolVars == <<empty_buffers, full_buffers, data, lock>>
hasherVars == <<hpc, hbuf, nonces_hashed>>
writerVars == <<wpc, wbuf, nonces_written, scoop, offset>>
runVars == <<main, task, runs>>
vars == <<runVars, fileVars, poolVars, hasherVars, writerVars>>

Smaller(a, b) == IF a <= b THEN a ELSE b

\* min(buffer_size / NONCE_SIZE, task.nonces - n): the nonces of the buffer
\* that starts at offset n, in the hasher and again in the writer.
Chunk(n) == Smaller(task.buffer, Nonces - n)

BufferIds(t) == IF t.async_io THEN <<1, 2>> ELSE <<1>>

\* Mutant of Capacity: room for one buffer, whatever their number.
CapacityOne == 1

\* bounded(num_buffer), for both channels.
Capacity == Len(BufferIds(task))

Idle == main \in {"off", "finished", "refused"}

-----------------------------------------------------------------------------
(* The main thread.                                                        *)

\* Mutant of Spawn: the writer is not told where to resume.
SpawnWriterAtZero(t, progress) ==
  /\ main' = "running"
  /\ empty_buffers' = BufferIds(t)
  /\ full_buffers' = <<>>
  /\ data' = [b \in Buffers |-> [i \in 0 .. t.buffer - 1 |-> NoNonce]]
  /\ lock' = [b \in Buffers |-> "free"]
  /\ hpc' = "recv" /\ hbuf' = 1 /\ nonces_hashed' = progress
  /\ wpc' = "recv" /\ wbuf' = 1 /\ nonces_written' = 0
  /\ scoop' = 0 /\ offset' = 0

\* Both workers are spawned with the same offset.  The buffers are allocated
\* but hold nothing yet; all of them wait in the channel to the hasher.
Spawn(t, progress) ==
  /\ main' = "running"
  /\ empty_buffers' = BufferIds(t)
  /\ full_buffers' = <<>>
  /\ data' = [b \in Buffers |-> [i \in 0 .. t.buffer - 1 |-> NoNonce]]
  /\ lock' = [b \in Buffers |-> "free"]
  /\ hpc' = "recv" /\ hbuf' = 1 /\ nonces_hashed' = progress
  /\ wpc' = "recv" /\ wbuf' = 1 /\ nonces_written' = progress
  /\ scoop' = 0 /\ offset' = 0

Launch(t) ==
  /\ Idle
  /\ runs < MaxRuns
  /\ runs' = runs + 1
  /\ task' = t

\* Mutant of StartResume: the marker is checked, its offset forgotten.
StartResumeFromZero(t) ==
  /\ Launch(t)
  /\ exists /\ tail.marked
  /\ Spawn(t, 0)
  /\ UNCHANGED fileVars

\* The file exists and ends in a valid marker: go on from its offset.
StartResume(t) ==
  /\ Launch(t)
  /\ exists /\ tail.marked
  /\ Spawn(t, tail.progress)
  /\ UNCHANGED fileVars

\* The file exists without a marker: "couldn't read resume info".
StartRefused(t) ==
  /\ Launch(t)
  /\ exists /\ ~tail.marked
  /\ main' = "refused"
  /\ UNCHANGED <<fileVars, poolVars, hasherVars, writerVars>>

\* A benchmark creates no file.
StartBenchmark(t) ==
  /\ Launch(t)
  /\ ~exists /\ t.benchmark
  /\ Spawn(t, 0)
  /\ UNCHANGED fileVars

\* preallocate(): the file gets its full size, all zeros.
StartNew(t) ==
  /\ Launch(t)
  /\ ~exists /\ ~t.benchmark
  /\ main' = "preallocated"
  /\ exists' = TRUE /\ file' = BlankFile /\ tail' = NoMarker
  /\ UNCHANGED <<poolVars, hasherVars, writerVars>>

\* preallocate() creates the file, fails to give it its size, and exits.
PreallocateFails(t) ==
  /\ Launch(t)
  /\ ~exists /\ ~t.benchmark
  /\ main' = "off"
  /\ exists' = TRUE /\ file' = BlankFile /\ tail' = NoMarker
  /\ UNCHANGED <<poolVars, hasherVars, writerVars>>

\* Mutant of InitProgress: plotting starts without a first marker.
InitProgressSkipped ==
  /\ main = "preallocated"
  /\ Spawn(task, 0)
  /\ UNCHANGED <<task, runs, fileVars>>

\* write_resume_info(&file, 0): first the offset, ...
InitProgress ==
  /\ main = "preallocated"
  /\ main' = "marking"
  /\ tail' = [tail EXCEPT !.progress = 0]
  /\ UNCHANGED <<task, runs, exists, file, poolVars, hasherVars, writerVars>>

\* ... then the signature; the workers are spawned when both are written.
InitSignature ==
  /\ main = "marking"
  /\ tail' = [tail EXCEPT !.marked = TRUE]
  /\ Spawn(task, 0)
  /\ UNCHANGED <<task, runs, exists, file>>

\* An error is printed, and plotting starts without a marker.
InitMarkerFails ==
  /\ MarkerFaults
  /\ main \in {"preallocated", "marking"}
  /\ Spawn(task, 0)
  /\ UNCHANGED <<task, runs, fileVars>>

\* writer.join(); hasher.join(); the process ends.
Finish ==
  /\ main = "running"
  /\ hpc = "done" /\ wpc = "done"
  /\ main' = "finished"
  /\ UNCHANGED <<task, runs, fileVars, poolVars, hasherVars, writerVars>>

\* The user deletes a file that was refused.
UserDelete ==
  /\ main = "refused"
  /\ main' = "off"
  /\ exists' = FALSE /\ file' = BlankFile /\ tail' = NoMarker
  /\ UNCHANGED <<task, runs, poolVars, hasherVars, writerVars>>

-----------------------------------------------------------------------------
(* The hasher thread.                                                      *)

HasherTake ==
  /\ hpc = "recv" /\ empty_buffers # <<>>
  /\ hbuf' = Head(empty_buffers)
  /\ empty_buffers' = Tail(empty_buffers)
  /\ hpc' = "lock"
  /\ UNCHANGED <<full_buffers, data, lock, nonces_hashed>>

HasherLock ==
  /\ hpc = "lock" /\ lock[hbuf] = "free"
  /\ lock' = [lock EXCEPT ![hbuf] = "hasher"]
  /\ hpc' = "hash"
  /\ UNCHANGED <<empty_buffers, full_buffers, data, hbuf, nonces_hashed>>

\* The control loop of the scheduler, as one step: the first Chunk slots of
\* the buffer receive the nonces from nonces_hashed on; later slots keep
\* what an earlier chunk left there.
HasherHash ==
  /\ hpc = "hash"
  /\ data' = [data EXCEPT ![hbuf] =
                [i \in 0 .. task.buffer - 1 |->
                   IF i < Chunk(nonces_hashed) THEN nonces_hashed + i
                                               ELSE data[hbuf][i]]]
  /\ hpc' = "send"
  /\ UNCHANGED <<empty_buffers, full_buffers, lock, hbuf, nonces_hashed>>

\* The buffer is queued while its mutex guard is still alive.
HasherSend ==
  /\ hpc = "send" /\ Len(full_buffers) < Capacity
  /\ nonces_hashed' = nonces_hashed + Chunk(nonces_hashed)
  /\ full_buffers' = Append(full_buffers, hbuf)
  /\ hpc' = "release"
  /\ UNCHANGED <<empty_buffers, data, lock, hbuf>>

HasherRelease ==
  /\ hpc = "release"
  /\ lock' = [lock EXCEPT ![hbuf] = "free"]
  /\ hpc' = IF nonces_hashed = Nonces THEN "done" ELSE "recv"
  /\ UNCHANGED <<empty_buffers, full_buffers, data, hbuf, nonces_hashed>>

HasherStep ==
  /\ main = "running"
  /\ HasherTake \/ HasherLock \/ HasherHash \/ HasherSend \/ HasherRelease
  /\ UNCHANGED <<runVars, fileVars, writerVars>>

-----------------------------------------------------------------------------
(* The writer thread.                                                      *)

WriterTake ==
  /\ wpc = "recv" /\ full_buffers # <<>>
  /\ wbuf' = Head(full_buffers)
  /\ full_buffers' = Tail(full_buffers)
  /\ wpc' = "lock"
  /\ UNCHANGED <<fileVars, empty_buffers, lock, nonces_written, scoop, offset>>

\* A benchmark skips the file altogether.
WriterLock ==
  /\ wpc = "lock" /\ lock[wbuf] = "free"
  /\ lock' = [lock EXCEPT ![wbuf] = "writer"]
  /\ wpc' = IF task.benchmark THEN "count" ELSE "write"
  /\ scoop' = 0 /\ offset' = 0
  /\ UNCHANGED <<fileVars, empty_buffers, full_buffers, wbuf, nonces_written>>

\* The nonces of the next write_all: a full task, or the remainder.
PieceLen == Smaller(TaskSize, Chunk(nonces_written) - offset)
PieceFrom == nonces_written + offset

\* The file after the first n nonces of the piece reached it.
FileWith(n) ==
  [file EXCEPT ![scoop] =
     [p \in Positions |->
        IF PieceFrom <= p /\ p < PieceFrom + n
        THEN data[wbuf][p - nonces_written] ELSE file[scoop][p]]]

\* The marker lies in the last scoop of the last nonce, and is overwritten
\* with it.  That hash data happens to end in the signature is not modelled.
TailWith(n) ==
  IF scoop = LastScoop /\ PieceFrom + n = Nonces THEN NoMarker ELSE tail

\* seek and write_all; the writer steps to the next scoop after the last
\* piece of this one, and out of the loop after the last scoop.
WritePiece ==
  /\ wpc = "write"
  /\ file' = FileWith(PieceLen)
  /\ tail' = TailWith(PieceLen)
  /\ IF offset + PieceLen < Chunk(nonces_written)
     THEN offset' = offset + PieceLen /\ UNCHANGED <<scoop, wpc>>
     ELSE /\ offset' = 0
          /\ scoop' = IF scoop = LastScoop THEN 0 ELSE scoop + 1
          /\ wpc' = IF scoop = LastScoop THEN "count" ELSE "write"
  /\ UNCHANGED <<exists, empty_buffers, full_buffers, lock, wbuf, nonces_written>>

\* Mutants of WriterCount: a marker after the last chunk too; a marker even
\* when nothing was written.
WriterCountMarksEnd ==
  /\ wpc = "count"
  /\ nonces_written' = nonces_written + Chunk(nonces_written)
  /\ wpc' = IF task.benchmark THEN "send" ELSE "progress"
  /\ UNCHANGED <<fileVars, empty_buffers, full_buffers, lock, wbuf, scoop, offset>>

WriterCountMarksBenchmark ==
  /\ wpc = "count"
  /\ nonces_written' = nonces_written + Chunk(nonces_written)
  /\ wpc' = IF nonces_written' = Nonces THEN "send" ELSE "progress"
  /\ UNCHANGED <<fileVars, empty_buffers, full_buffers, lock, wbuf, scoop, offset>>

\* nonces_written += nonces_to_write; after the last chunk no marker follows.
WriterCount ==
  /\ wpc = "count"
  /\ nonces_written' = nonces_written + Chunk(nonces_written)
  /\ wpc' = IF nonces_written' = Nonces \/ task.benchmark THEN "send" ELSE "progress"
  /\ UNCHANGED <<fileVars, empty_buffers, full_buffers, lock, wbuf, scoop, offset>>

\* Mutants of WriteProgress: the hasher's offset instead of the writer's; the
\* signature wiped before the offset is replaced.
WriteProgressOfHasher ==
  /\ wpc = "progress"
  /\ tail' = [tail EXCEPT !.progress = nonces_hashed % ProgressMod]
  /\ wpc' = "signature"
  /\ UNCHANGED <<exists, file, empty_buffers, full_buffers, lock, wbuf,
                 nonces_written, scoop, offset>>

WriteProgressWipes ==
  /\ wpc = "progress"
  /\ tail' = [progress |-> nonces_written % ProgressMod, marked |-> FALSE]
  /\ wpc' = "signature"
  /\ UNCHANGED <<exists, file, empty_buffers, full_buffers, lock, wbuf,
                 nonces_written, scoop, offset>>

WriteProgress ==
  /\ wpc = "progress"
  /\ tail' = [tail EXCEPT !.progress = nonces_written % ProgressMod]
  /\ wpc' = "signature"
  /\ UNCHANGED <<exists, file, empty_buffers, full_buffers, lock, wbuf,
                 nonces_written, scoop, offset>>

WriteSignature ==
  /\ wpc = "signature"
  /\ tail' = [tail EXCEPT !.marked = TRUE]
  /\ wpc' = "send"
  /\ UNCHANGED <<exists, file, empty_buffers, full_buffers, lock, wbuf,
                 nonces_written, scoop, offset>>

\* write_resume_info fails: an error is printed and plotting goes on.
WriteMarkerFails ==
  /\ MarkerFaults
  /\ wpc \in {"progress", "signature"}
  /\ wpc' = "send"
  /\ UNCHANGED <<fileVars, empty_buffers, full_buffers, lock, wbuf,
                 nonces_written, scoop, offset>>

\* Mutant of WriterSend: only the last buffer is handed back.
WriterSendForgets ==
  /\ wpc = "send"
  /\ empty_buffers' = IF nonces_written = Nonces THEN Append(empty_buffers, wbuf)
                                                 ELSE empty_buffers
  /\ wpc' = "release"
  /\ UNCHANGED <<fileVars, full_buffers, lock, wbuf, nonces_written, scoop, offset>>

WriterSend ==
  /\ wpc = "send" /\ Len(empty_buffers) < Capacity
  /\ empty_buffers' = Append(empty_buffers, wbuf)
  /\ wpc' = "release"
  /\ UNCHANGED <<fileVars, full_buffers, lock, wbuf, nonces_written, scoop, offset>>

WriterRelease ==
  /\ wpc = "release"
  /\ lock' = [lock EXCEPT ![wbuf] = "free"]
  /\ wpc' = IF nonces_written = Nonces THEN "done" ELSE "recv"
  /\ UNCHANGED <<fileVars, empty_buffers, full_buffers, wbuf, nonces_written,
                 scoop, offset>>

WriterStep ==
  /\ main = "running"
  /\ \/ WriterTake \/ WriterLock \/ WritePiece \/ WriterCount \/ WriteProgress
     \/ WriteSignature \/ WriteMarkerFails \/ WriterSend \/ WriterRelease
  /\ UNCHANGED <<runVars, data, hasherVars>>

-----------------------------------------------------------------------------
(* The process is killed.  (A writer that panics on an I/O error leaves the *)
(* file the same way: no other thread touches it, until somebody ends the   *)
(* process.)  Of the piece being written a prefix may have reached the      *)
(* file, and if it is the last piece, the write may have stopped inside the *)
(* last nonce and have damaged the marker only.  The eight bytes of the     *)
(* marker share a page and a sector: none of them is replaced alone.        *)

Halt == main' = "off" /\ UNCHANGED <<task, runs, exists, poolVars, hasherVars, writerVars>>

Crash ==
  /\ main \in {"preallocated", "marking", "running"}
  /\ Halt
  /\ UNCHANGED <<file, tail>>

TornCrash ==
  /\ main = "running" /\ wpc = "write"
  /\ Halt
  /\ \E n \in 0 .. PieceLen :
       /\ file' = FileWith(n)
       /\ tail' \in {TailWith(n), TailWith(Smaller(n + 1, PieceLen))}

\* All runs are over.
Terminated == Idle /\ runs = MaxRuns /\ UNCHANGED vars

MainStep == InitProgress \/ InitSignature \/ InitMarkerFails \/ Finish

Start ==
  \E t \in Tasks : \/ StartResume(t) \/ StartRefused(t) \/ StartBenchmark(t)
                   \/ StartNew(t) \/ PreallocateFails(t)

Init ==
  /\ main = "off" /\ task \in Tasks /\ runs = 0
  /\ exists = FALSE /\ file = BlankFile /\ tail = NoMarker
  /\ empty_buffers = <<>> /\ full_buffers = <<>>
  /\ data = [b \in Buffers |-> [i \in 0 .. task.buffer - 1 |-> NoNonce]]
  /\ lock = [b \in Buffers |-> "free"]
  /\ hpc = "recv" /\ hbuf = 1 /\ nonces_hashed = 0
  /\ wpc = "recv" /\ wbuf = 1 /\ nonces_written = 0
  /\ scoop = 0 /\ offset = 0

Next ==
  \/ Start \/ MainStep \/ UserDelete
  \/ HasherStep \/ WriterStep
  \/ Crash \/ TornCrash \/ Terminated

Spec == Init /\ [][Next]_vars

\* The operating system schedules both workers and the main thread; nobody
\* has to start the program again, and nothing has to crash.
FairSpec == Spec /\ WF_vars(MainStep) /\ WF_vars(HasherStep) /\ WF_vars(WriterStep)

-----------------------------------------------------------------------------
(* Properties.                                                             *)

\* The state has the shape the code gives it; in particular neither worker
\* counts past the end of the plot.
TypeOK ==
  /\ main \in {"off", "preallocated", "marking", "running", "finished", "refused"}
  /\ task \in Tasks /\ runs \in Nat /\ exists \in BOOLEAN
  /\ file \in [Scoops -> [Positions -> Int]]
  /\ tail \in [progress : 0 .. LastNonce, marked : BOOLEAN]
  /\ empty_buffers \in Seq(Buffers) /\ full_buffers \in Seq(Buffers)
  /\ main = "running" => data \in [Buffers -> [0 .. task.buffer - 1 -> Int]]
  /\ lock \in [Buffers -> {"free", "hasher", "writer"}]
  /\ hpc \in {"recv", "lock", "hash", "send", "release", "done"}
  /\ wpc \in {"recv", "lock", "write", "count", "progress", "signature",
              "send", "release", "done"}
  /\ hbuf \in Buffers /\ wbuf \in Buffers
  /\ nonces_hashed \in 0 .. Nonces /\ nonces_written \in 0 .. Nonces
  /\ scoop \in Scoops /\ offset \in Nat

\* Whether the first n nonces of the plot are on file in all their scoops.
OnFile(n) == \A s \in Scoops, p \in 0 .. n - 1 : file[s][p] = p

\* A marker on the file can be trusted, whenever the process dies: its offset
\* lies inside the plot and every nonce below it is on file, so that a run that
\* resumes there leaves no gap (read_resume_info and Plotter::run rely on it).
ResumeSafe == exists /\ tail.marked => tail.progress < Nonces /\ OnFile(tail.progress)

\* However often plotting was interrupted, resumed and given other buffers, a
\* run that ends leaves every scoop of every nonce in its place, and no marker.
PlotComplete == main = "finished" /\ ~task.benchmark => OnFile(Nonces) /\ ~tail.marked

\* A file that a new run refuses, and tells the user to delete, holds nothing
\* yet, or holds every nonce but, after a torn last write, the last scoop of
\* the last one.  So long as the marker can be written, no work is refused.
RefusedEmptyOrWhole ==
  Idle /\ exists /\ ~tail.marked =>
    \/ file = BlankFile
    \/ \A s \in Scoops, p \in Positions :
         (s = LastScoop /\ p = LastNonce) \/ file[s][p] = p

\* Hasher and writer count nonces each for itself, and no offset travels with
\* a buffer: what the writer has taken is nevertheless the chunk it expects.
InStep ==
  main = "running" /\ wpc \in {"lock", "write", "count"} =>
    \A i \in 0 .. Chunk(nonces_written) - 1 : data[wbuf][i] = nonces_written + i

\* Both workers send while they hold the mutex of the buffer; the channels are
\* just large enough that neither ever waits there.
NeverBlocksLocked ==
  main = "running" => /\ hpc = "send" => Len(full_buffers) < Capacity
                      /\ wpc = "send" => Len(empty_buffers) < Capacity

\* While a file keeps its marker, the offset in it never moves back, whatever
\* settings the next run is started with (as long as it fits 32 bits).
MarkerMonotone ==
  [][exists /\ tail.marked /\ tail'.marked => tail'.progress >= tail.progress]_vars

\* A benchmark run changes nothing on disk, even if it resumes a plot.
BenchmarkReadOnly ==
  [][main = "running" /\ task.benchmark => UNCHANGED fileVars]_vars

\* A run that is not killed ends: neither the pool of one or two buffers, nor
\* the mutexes, nor the channels can leave both workers waiting.
RunEnds == main = "running" ~> Idle

NoPoint == -1

\* The plot file as the user sees it keeps the promise of ResumablePlot, across
\* every interleaving of the workers and every crash.
Plot ==
  INSTANCE ResumablePlot WITH
    stored <- IF exists THEN {p \in Positions : \A s \in Scoops : file[s][p] = p} ELSE {},
    point <- IF exists /\ tail.marked THEN tail.progress ELSE NoPoint

Promise == Plot!Spec
=============================================================================
