------------------------------ MODULE Engraver ------------------------------
(***************************************************************************)
(* Whole runs of engraver, in which parts of the process fail: what it is   *)
(* started with (src/main.rs, src/plotter.rs), the main thread that waits   *)
(* for the progress bars and joins the workers, the hasher and the writer   *)
(* at one step per chunk (their insides are modules Scheduler and           *)
(* Pipeline), the plot files under their names, and what a power failure    *)
(* leaves of them.  A run may use direct or buffered i/o, a GPU or none,    *)
(* be quiet or not, and resume a plot that was begun otherwise.             *)
(***************************************************************************)
EXTENDS Integers

CONSTANTS
  Asked,         \* the sizes that may be asked for, in nonces
  Sector,        \* nonces per disk sector
  GpuMultiple,   \* the 16 of calculate_mem_to_use
  Tasks,         \* the options a run may be started with
  MaxRuns,       \* bound: how often the program is started
  MaxOutages     \* bound: power failures

\* (Sectors and 16 are powers of two.)
ASSUME EngraverAssumption ==
  /\ Asked \subseteq Nat /\ Sector \in Nat \ {0} /\ GpuMultiple \in Nat \ {0}
  /\ Sector < GpuMultiple => GpuMultiple % Sector = 0
  /\ Tasks \subseteq [direct_io : BOOLEAN, async_io : BOOLEAN, quiet : BOOLEAN,
                      benchmark : BOOLEAN, gpu : BOOLEAN, mem : Nat]
  /\ MaxRuns \in Nat /\ MaxOutages \in Nat

NoPoint == -1

VARIABLES
  nonces_arg,      \* the size the user asks for
  files,           \* the plot files, by the number of nonces in their name
  runs, outages,
  task,            \* the options of the current run
  main, hasher, writer,             \* where each thread is
  empty_buffers, full_buffers,      \* how many buffers are in each channel
  nonces_hashed, nonces_written

vars == <<nonces_arg, files, runs, outages, task, main, hasher, writer,
          empty_buffers, full_buffers, nonces_hashed, nonces_written>>
workerVars == <<hasher, writer, empty_buffers, full_buffers, nonces_hashed, nonces_written>>

\* A file: the nonces that are on it, and the offset in its marker.  For the
\* properties only: the markers it had since it was last read from the disk, the
\* nonces a power failure took, and whether it was ever written without direct i/o.
NoFile ==
  [exists |-> FALSE, stored |-> {}, mark |-> NoPoint, marks |-> {NoPoint}, lost |-> {},
   buffered |-> FALSE]

\* A marker is written, or, with NoPoint, written over by the last chunk.
Marked(f, point) == [f EXCEPT !.mark = point, !.marks = @ \cup {point}]

Lower(a, b) == IF a <= b THEN a ELSE b
Upper(a, b) == IF a >= b THEN a ELSE b

-----------------------------------------------------------------------------
(* Sizes, as module Setup works them out, in nonces. *)

NoncesOf(t) == IF t.direct_io THEN (nonces_arg \div Sector) * Sector ELSE nonces_arg
NumBuffer(t) == IF t.async_io THEN 2 ELSE 1
Multiple(t) ==
  Upper(IF t.gpu THEN GpuMultiple ELSE 1, IF t.direct_io THEN Sector ELSE 1)
Memory(t) == IF t.mem = 0 THEN NoncesOf(t) ELSE Lower(t.mem, NoncesOf(t))

\* Mutant of BufferOf: any number of nonces.
BufferOfUnrounded(t) == Upper(Memory(t) \div NumBuffer(t), Multiple(t))

BufferOf(t) ==
  LET unit == NumBuffer(t) * Multiple(t)
  IN  Upper((Memory(t) \div unit) * unit, unit) \div NumBuffer(t)

nonces == NoncesOf(task)
Chunk(n) == Lower(BufferOf(task), nonces - n)

\* The file of the run.
file == files[nonces]
SetFile(f) == files' = [files EXCEPT ![nonces] = f]

-----------------------------------------------------------------------------
(* The main thread: Plotter::run up to the workers. *)

Running == main \in {"listen", "join_writer", "join_hasher"}

\* Without --quiet main first waits for the progress bars.
Spawn(t, progress) ==
  /\ main' = IF t.quiet THEN "join_writer" ELSE "listen"
  /\ hasher' = "start" /\ writer' = "recv"
  /\ empty_buffers' = NumBuffer(t) /\ full_buffers' = 0
  /\ nonces_hashed' = progress /\ nonces_written' = progress

\* A process that ends takes its threads, buffers and channels along.
End(how) ==
  /\ main' = how
  /\ hasher' = "start" /\ writer' = "recv"
  /\ empty_buffers' = 0 /\ full_buffers' = 0
  /\ nonces_hashed' = 0 /\ nonces_written' = 0

Launch(t) ==
  /\ ~Running /\ main # "refused" /\ runs < MaxRuns
  /\ runs' = runs + 1 /\ task' = t
  /\ UNCHANGED <<nonces_arg, outages>>

StartResume(t) ==
  LET f == files[NoncesOf(t)] IN
  /\ Launch(t)
  /\ f.exists /\ f.mark # NoPoint
  /\ Spawn(t, f.mark)
  /\ UNCHANGED files

StartRefused(t) ==
  LET f == files[NoncesOf(t)] IN
  /\ Launch(t)
  /\ f.exists /\ f.mark = NoPoint
  /\ End("refused")
  /\ UNCHANGED files

StartBenchmark(t) ==
  /\ Launch(t)
  /\ t.benchmark /\ ~files[NoncesOf(t)].exists
  /\ Spawn(t, 0)
  /\ UNCHANGED files


\* preallocate, which fails for a plot of no nonces, and then the first marker;
\* if that cannot be written, the run goes on.
StartNew(t) ==
  LET n == NoncesOf(t)
      made == [NoFile EXCEPT !.exists = TRUE]
  IN
  /\ Launch(t)
  /\ ~t.benchmark /\ ~files[n].exists
  /\ \/ /\ n > 0
        /\ Spawn(t, 0)
        /\ \E f \in {made, Marked(made, 0)} : files' = [files EXCEPT ![n] = f]
     \/ /\ End("failed")
        /\ files' = [files EXCEPT ![n] = made]

\* "... then delete it before continuing."
UserDelete ==
  /\ main = "refused"
  /\ main' = "off"
  /\ SetFile(NoFile)
  /\ UNCHANGED <<nonces_arg, runs, outages, task, workerVars>>

-----------------------------------------------------------------------------
(* The main thread once the workers run. *)

MainGoes(to) ==
  /\ IF to \in {"failed", "done"} THEN End(to) ELSE main' = to /\ UNCHANGED workerVars
  /\ UNCHANGED <<nonces_arg, files, runs, outages, task>>

\* Mutant of Listen: a bar is told to finish when its thread panics.
ListenDropped ==
  /\ main = "listen"
  /\ hasher \in {"done", "panicked"} /\ writer \in {"done", "panicked"}
  /\ MainGoes("join_writer")

\* mb.listen() returns when both bars were told to finish.  A bar that is dropped
\* by a thread that panics never is (pbr).
Listen ==
  /\ main = "listen"
  /\ hasher = "done" /\ writer = "done"
  /\ MainGoes("join_writer")

\* Mutants of JoinWriter: the hasher is waited for first; a panic is ignored.
JoinWriterLast ==
  /\ main = "join_writer"
  /\ hasher \in {"done", "panicked"} /\ writer \in {"done", "panicked"}
  /\ MainGoes(IF writer = "panicked" THEN "failed" ELSE "join_hasher")

JoinWriterIgnored ==
  /\ main = "join_writer"
  /\ writer \in {"done", "panicked"}
  /\ MainGoes("join_hasher")

\* writer.join().unwrap(): main panics with the writer, and the process ends.
JoinWriter ==
  /\ main = "join_writer"
  /\ writer \in {"done", "panicked"}
  /\ MainGoes(IF writer = "panicked" THEN "failed" ELSE "join_hasher")

\* hasher.join().unwrap(), and the report of what was generated.
JoinHasher ==
  /\ main = "join_hasher"
  /\ hasher \in {"done", "panicked"}
  /\ MainGoes(IF hasher = "panicked" THEN "failed" ELSE "done")

MainStep == Listen \/ JoinWriter \/ JoinHasher

-----------------------------------------------------------------------------
(* The hasher.  gpu_init unwraps what OpenCL answers, so that the thread panics, *)
(* or ends the process if the platform or device is gone.                       *)

GpuInit ==
  /\ hasher = "start"
  /\ hasher' \in IF task.gpu THEN {"hashing", "panicked"} ELSE {"hashing"}
  /\ UNCHANGED <<empty_buffers, full_buffers, nonces_hashed>>

GpuGone ==
  /\ Running
  /\ hasher = "start" /\ task.gpu
  /\ End("failed")
  /\ UNCHANGED <<nonces_arg, files, runs, outages, task>>

\* A buffer is hashed and sent.
HashChunk ==
  /\ hasher = "hashing" /\ empty_buffers > 0
  /\ nonces > 0
  /\ nonces_hashed' = nonces_hashed + Chunk(nonces_hashed)
  /\ empty_buffers' = empty_buffers - 1 /\ full_buffers' = full_buffers + 1
  /\ hasher' = IF nonces_hashed' = nonces THEN "done" ELSE "hashing"

\* The control loop waits for messages before it looks whether it has enough of
\* them: for ever, if there is nothing to hash, or if a GPU thread panicked.  The
\* channel stays open, since the scheduler itself holds a sender.
ControlLoopStuck ==
  /\ hasher = "hashing" /\ empty_buffers > 0
  /\ nonces = 0 \/ task.gpu
  /\ hasher' = "stuck"
  /\ empty_buffers' = empty_buffers - 1
  /\ UNCHANGED <<full_buffers, nonces_hashed>>

HasherStep ==
  /\ Running
  /\ GpuInit \/ HashChunk \/ ControlLoopStuck
  /\ UNCHANGED <<nonces_arg, files, runs, outages, task, main, writer, nonces_written>>

-----------------------------------------------------------------------------
(* The writer. *)

\* Of the chunk at n, a write that is broken off left the first i nonces whole,
\* and the marker if that part was not reached.
Stored(n, i) ==
  [file EXCEPT !.stored = @ \cup (n .. n + i - 1), !.lost = @ \ (n .. n + i - 1),
               !.buffered = @ \/ ~task.direct_io]
Torn(n) ==
  LET last == n + Chunk(n) = nonces
  IN  {Stored(n, i) : i \in 0 .. Chunk(n)}
        \cup {Marked(Stored(n, i), NoPoint) : i \in IF last THEN Chunk(n) - 1 .. Chunk(n) ELSE {}}

\* O_DIRECT: addresses and lengths in the file must be multiples of a sector.
Aligned(n) == nonces % Sector = 0 /\ n % Sector = 0 /\ Chunk(n) % Sector = 0
Unwritable(n) == task.direct_io /\ ~Aligned(n)

MayWrite == writer = "recv" /\ full_buffers > 0

\* All 4096 scoops of a chunk; with the last one goes the marker.
WriteChunk ==
  LET n == nonces_written + Chunk(nonces_written) IN
  /\ MayWrite
  /\ task.benchmark \/ ~Unwritable(nonces_written)
  /\ IF task.benchmark THEN UNCHANGED files
     ELSE LET f == Stored(nonces_written, Chunk(nonces_written))
          IN  SetFile(IF n = nonces THEN Marked(f, NoPoint) ELSE f)
  /\ nonces_written' = n
  /\ full_buffers' = full_buffers - 1
  /\ writer' = IF n = nonces THEN "done" ELSE IF task.benchmark THEN "recv" ELSE "mark"
  /\ empty_buffers' = IF n = nonces \/ task.benchmark THEN empty_buffers + 1 ELSE empty_buffers

\* open, seek and write_all are unwrapped: the thread panics with its buffer.
WriterPanics ==
  /\ MayWrite /\ ~task.benchmark
  /\ writer' = "panicked"
  /\ IF Unwritable(nonces_written) THEN UNCHANGED files
     ELSE \E f \in Torn(nonces_written) : SetFile(f)
  /\ full_buffers' = full_buffers - 1
  /\ UNCHANGED <<empty_buffers, nonces_written>>

\* The marker, through the page cache even with direct i/o; an error is printed.
WriteMarker ==
  /\ writer = "mark"
  /\ \E f \in {file, Marked(file, nonces_written)} : SetFile(f)
  /\ writer' = "recv"
  /\ empty_buffers' = empty_buffers + 1
  /\ UNCHANGED <<full_buffers, nonces_written>>

WriterStep ==
  /\ Running
  /\ WriteChunk \/ WriterPanics \/ WriteMarker
  /\ UNCHANGED <<nonces_arg, runs, outages, task, main, hasher, nonces_hashed>>

-----------------------------------------------------------------------------
(* The world around. *)

Kill ==
  /\ Running
  /\ End("off")
  /\ IF MayWrite /\ ~task.benchmark /\ ~Unwritable(nonces_written)
     THEN \E f \in {file} \cup Torn(nonces_written) : SetFile(f)
     ELSE UNCHANGED files
  /\ UNCHANGED <<nonces_arg, runs, outages, task>>

\* Nothing is ever synced: of what was written since the file was made or last
\* read from the disk, any part may be there and any part not, the marker apart
\* from the data.
AfterOutage(f, kept, mark) ==
  [f EXCEPT !.stored = kept, !.lost = @ \cup (f.stored \ kept),
            !.mark = mark, !.marks = {mark}]

\* (One file at a time; the others are independent of it.)
PowerFails ==
  /\ outages < MaxOutages
  /\ outages' = outages + 1
  /\ End("off")
  /\ \E n \in DOMAIN files :
       /\ files[n].exists
       /\ \E kept \in SUBSET files[n].stored, mark \in files[n].marks :
            files' = [files EXCEPT ![n] = AfterOutage(files[n], kept, mark)]
  /\ UNCHANGED <<nonces_arg, runs, task>>

Start ==
  \E t \in Tasks :
    StartResume(t) \/ StartRefused(t) \/ StartBenchmark(t) \/ StartNew(t)

\* All runs are over.
Terminated == ~Running /\ main # "refused" /\ runs = MaxRuns /\ UNCHANGED vars

Init ==
  /\ nonces_arg \in Asked
  /\ task \in Tasks
  /\ files = [n \in {nonces_arg, (nonces_arg \div Sector) * Sector} |-> NoFile]
  /\ runs = 0 /\ outages = 0
  /\ main = "off" /\ hasher = "start" /\ writer = "recv"
  /\ empty_buffers = 0 /\ full_buffers = 0 /\ nonces_hashed = 0 /\ nonces_written = 0

Next ==
  \/ Start \/ UserDelete \/ MainStep \/ HasherStep \/ GpuGone \/ WriterStep
  \/ Kill \/ PowerFails \/ Terminated

Spec == Init /\ [][Next]_vars

\* The threads are scheduled by the operating system, whatever becomes of them.
FairSpec == Spec /\ WF_vars(MainStep) /\ WF_vars(HasherStep) /\ WF_vars(WriterStep)

-----------------------------------------------------------------------------
(* Properties. *)

\* Direct i/o only meets an address that is no multiple of a sector, and fails in
\* the middle of a plot, if the plot was once written without it: whatever memory,
\* buffers and GPUs the earlier runs had, and however they ended.
DirectStaysAligned ==
  Running /\ MayWrite /\ ~task.benchmark /\ Unwritable(nonces_written) => file.buffered

\* Whatever fails: every nonce that the marker of a file or the report of a run
\* promises was written, and if it is missing, then because the power failed.
HolesAreLost ==
  /\ \A n \in DOMAIN files : \A p \in 0 .. files[n].mark - 1 :
       p \in files[n].stored \cup files[n].lost
  /\ main = "done" /\ ~task.benchmark => 0 .. nonces - 1 \subseteq file.stored \cup file.lost

\* A run that nobody can help any more.  If the hasher has gone, or waits, the
\* writer waits for it, and main, who keeps both channels open, for the writer.  If
\* the writer has gone, main waits for its progress bar, unless there is none.
Hopeless ==
  /\ Running
  /\ \/ hasher \in {"panicked", "stuck"} /\ (task.quiet => writer = "recv" /\ full_buffers = 0)
     \/ writer = "panicked" /\ ~task.quiet

\* Every run ends, also one whose writer panics, or is hopeless.
EndsUnlessHopeless == Running ~> (~Running \/ Hopeless)

\* A hopeless run stays hopeless until it is killed or the power fails: nothing that
\* the other threads still do ends it, or reports its failure.
HopelessStays == [][Hopeless => Hopeless' \/ main' = "off"]_vars
=============================================================================
