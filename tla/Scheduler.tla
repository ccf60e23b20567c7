------------------------------ MODULE Scheduler ------------------------------
(***************************************************************************)
(* How a buffer is hashed: the scheduler thread (src/scheduler.rs), the CPU *)
(* tasks on the rayon pool (src/cpu_hasher.rs, hash_cpu), one thread per    *)
(* GPU with its two device buffers (src/gpu_hasher.rs, src/ocl.rs), and the *)
(* channels between them.  The writer is an environment that takes full     *)
(* buffers and returns them; what it does with them is module Pipeline.     *)
(***************************************************************************)
EXTENDS Integers, Sequences, FiniteSets

CONSTANTS
  Nonces,        \* task.nonces
  Progress,      \* the offset the run starts at
  BufNonces,     \* buffer_size / NONCE_SIZE
  NumBuffers,    \* 1, or 2 with async i/o
  CpuThreads,    \* task.cpu_threads
  CpuTaskSize,   \* CPU_TASK_SIZE, 64 in the code
  NumGpus,       \* task.gpus.len()
  Worksize       \* the nonces a GPU hashes at a time: work group size * cores

\* The last conjunct is what src/main.rs is expected to see to: some device
\* hashes.  Module Setup is about whether it does.
ASSUME SchedulerAssumption ==
  /\ Nonces \in Nat /\ Progress \in 0 .. Nonces - 1
  /\ BufNonces \in Nat \ {0} /\ NumBuffers \in {1, 2}
  /\ CpuThreads \in Nat /\ CpuTaskSize \in Nat \ {0}
  /\ NumGpus \in Nat /\ Worksize \in Nat \ {0}
  /\ CpuThreads + NumGpus > 0

Gpus == 1 .. NumGpus
Buffers == 1 .. NumBuffers
Slots == 0 .. BufNonces - 1
NoNonce == -1

\* CpuTask and GpuTask: n nonces from nonce start on, into buffer cache at
\* slot offset.  A GPU thread is ended by None, and starts with an empty task.
Task == [cache : 0 .. NumBuffers, offset : Nat, start : Nat, n : Nat]
None == [cache |-> 0, offset |-> 0, start |-> 0, n |-> 0]

VARIABLES
  empty_buffers, full_buffers, cache,          \* channels and buffer contents
  spc, buf, nonces_hashed, requested, processed,    \* the scheduler thread
  kick,                                        \* its kickoff loops
  rx,                                          \* messages from the devices
  cpu,                                         \* the CPU tasks, with their phase
  gpu,                                         \* the GPU threads
  inbox,                                       \* gpu_channels
  wbuf, nonces_written                         \* the writer

bufferVars == <<empty_buffers, full_buffers>>
schedVars == <<spc, buf, nonces_hashed, requested, processed, kick>>
writerVars == <<wbuf, nonces_written>>
vars == <<bufferVars, cache, schedVars, rx, cpu, gpu, inbox, writerVars>>

Smaller(a, b) == IF a <= b THEN a ELSE b

\* nonces_to_hash, and what of it no device has been given.
Todo == Smaller(BufNonces, Nonces - nonces_hashed)
Unassigned == Todo - requested

\* Mutant of NewTask: the next slot is taken to be the first one not reported.
NewTaskAfterProcessed(n) == [cache |-> buf, offset |-> processed,
                             start |-> nonces_hashed + processed, n |-> n]

NewTask(n) == [cache |-> buf, offset |-> requested,
               start |-> nonces_hashed + requested, n |-> n]

Message(dev, kind, n) == [dev |-> dev, kind |-> kind, n |-> n]

\* Buffer contents after n nonces from start on were stored from slot offset on.
Stored(t, start, n) ==
  [cache EXCEPT ![t.cache] =
     [i \in Slots |-> IF t.offset <= i /\ i < t.offset + t.n
                      THEN IF i - t.offset < n THEN start + (i - t.offset) ELSE NoNonce
                      ELSE cache[t.cache][i]]]

-----------------------------------------------------------------------------
(* The scheduler thread.                                                   *)

TakeBuffer ==
  /\ spc = "recv" /\ empty_buffers # <<>>
  /\ buf' = Head(empty_buffers)
  /\ empty_buffers' = Tail(empty_buffers)
  /\ requested' = 0 /\ processed' = 0 /\ kick' = 1
  /\ spc' = "kick"
  /\ UNCHANGED <<full_buffers, cache, nonces_hashed, rx, cpu, gpu, inbox>>

\* A task of n nonces for GPU g, or for the CPU pool.
GiveGpu(g, n) == inbox' = [inbox EXCEPT ![g] = Append(@, NewTask(n))]
GiveCpu(n) ==
  cpu' = IF n > 0 THEN cpu \cup {[task |-> NewTask(n), phase |-> "queued"]} ELSE cpu

\* Kickoff: one task for every GPU, then one for every CPU thread, as long as
\* there is work.
KickGpu ==
  /\ spc = "kick" /\ kick \in Gpus
  /\ LET n == Smaller(Worksize, Unassigned) IN
       /\ IF n > 0 THEN GiveGpu(kick, n) ELSE inbox' = inbox
       /\ requested' = requested + n
  /\ kick' = kick + 1
  /\ UNCHANGED <<bufferVars, cache, spc, buf, nonces_hashed, processed, rx, cpu, gpu>>

\* Mutants of KickCpu: the task is not cut to what is left; one task too many.
KickCpuUncut ==
  /\ spc = "kick" /\ kick - NumGpus \in 1 .. CpuThreads
  /\ GiveCpu(CpuTaskSize)
  /\ requested' = requested + CpuTaskSize
  /\ kick' = kick + 1
  /\ UNCHANGED <<bufferVars, cache, spc, buf, nonces_hashed, processed, rx, gpu, inbox>>

KickCpuTwice ==
  /\ spc = "kick" /\ kick - NumGpus \in 1 .. CpuThreads
  /\ LET n == Smaller(CpuTaskSize, Unassigned)
         m == Smaller(CpuTaskSize, Unassigned - n) IN
       /\ cpu' = {c \in cpu \cup {[task |-> NewTask(n), phase |-> "queued"],
                                   [task |-> [NewTask(m) EXCEPT !.offset = @ + n, !.start = @ + n],
                                    phase |-> "queued"]} : c.task.n > 0}
       /\ requested' = requested + n + m
  /\ kick' = kick + 1
  /\ UNCHANGED <<bufferVars, cache, spc, buf, nonces_hashed, processed, rx, gpu, inbox>>

KickCpu ==
  /\ spc = "kick" /\ kick - NumGpus \in 1 .. CpuThreads
  /\ LET n == Smaller(CpuTaskSize, Unassigned) IN
       /\ GiveCpu(n)
       /\ requested' = requested + n
  /\ kick' = kick + 1
  /\ UNCHANGED <<bufferVars, cache, spc, buf, nonces_hashed, processed, rx, gpu, inbox>>

KickEnds ==
  /\ spc = "kick" /\ kick > NumGpus + CpuThreads
  /\ spc' = "loop"
  /\ UNCHANGED <<bufferVars, cache, buf, nonces_hashed, requested, processed, kick,
                 rx, cpu, gpu, inbox>>

\* The control loop takes one message and leaves when every nonce of the
\* buffer is reported.
NextMessage == spc = "loop" /\ rx # <<>> /\ rx' = Tail(rx)
LoopOrLeave == spc' = IF processed' = Todo THEN "send" ELSE "loop"

\* A CPU thread asks for work.
ServeCpu ==
  /\ NextMessage /\ Head(rx).kind = "ready" /\ Head(rx).dev = 0
  /\ LET n == Smaller(CpuTaskSize, Unassigned) IN
       /\ GiveCpu(n)
       /\ requested' = requested + n
  /\ processed' = processed /\ LoopOrLeave
  /\ UNCHANGED <<bufferVars, cache, buf, nonces_hashed, kick, gpu, inbox>>

\* What a GPU gets: a full worksize, or the rest; of a rest larger than a CPU
\* task only half, if there is a CPU to take the other half.
GpuShare ==
  LET n == Smaller(Worksize, Unassigned) IN
  IF n < Worksize /\ CpuThreads > 0 /\ n > CpuTaskSize THEN n \div 2 ELSE n

\* Mutant of ServeGpu: no work, no task.
ServeGpuIfWork ==
  /\ NextMessage /\ Head(rx).kind = "ready" /\ Head(rx).dev \in Gpus
  /\ IF GpuShare > 0 THEN GiveGpu(Head(rx).dev, GpuShare) ELSE inbox' = inbox
  /\ requested' = requested + GpuShare
  /\ processed' = processed /\ LoopOrLeave
  /\ UNCHANGED <<bufferVars, cache, buf, nonces_hashed, kick, cpu, gpu>>

\* A GPU asks for work.  It gets a task even when nothing is left: the empty
\* task makes it transfer what it hashed last.
ServeGpu ==
  /\ NextMessage /\ Head(rx).kind = "ready" /\ Head(rx).dev \in Gpus
  /\ GiveGpu(Head(rx).dev, GpuShare)
  /\ requested' = requested + GpuShare
  /\ processed' = processed /\ LoopOrLeave
  /\ UNCHANGED <<bufferVars, cache, buf, nonces_hashed, kick, cpu, gpu>>

\* A device reports nonces in host memory.
CountDone ==
  /\ NextMessage /\ Head(rx).kind = "done"
  /\ processed' = processed + Head(rx).n /\ LoopOrLeave
  /\ UNCHANGED <<bufferVars, cache, buf, nonces_hashed, requested, kick, cpu, gpu, inbox>>

\* The buffer goes to the writer; after the last one the GPU threads are told
\* to end.  The channels are dropped with the scheduler right after, which would
\* end them as well, had they not found None in them before.
SendBuffer ==
  /\ spc = "send" /\ Len(full_buffers) < NumBuffers
  /\ nonces_hashed' = nonces_hashed + Todo
  /\ full_buffers' = Append(full_buffers, buf)
  /\ IF nonces_hashed' = Nonces
     THEN /\ inbox' = [g \in Gpus |-> Append(inbox[g], None)]
          /\ spc' = "done"
     ELSE inbox' = inbox /\ spc' = "recv"
  /\ UNCHANGED <<empty_buffers, cache, buf, requested, processed, kick, rx, cpu, gpu>>

SchedulerStep ==
  /\ \/ TakeBuffer \/ KickGpu \/ KickCpu \/ KickEnds
     \/ ServeCpu \/ ServeGpu \/ CountDone \/ SendBuffer
  /\ UNCHANGED writerVars

-----------------------------------------------------------------------------
(* CPU tasks.  The pool runs at most CpuThreads of them at a time, in any   *)
(* order; each reports that it is ready for work, then what it hashed.      *)

\* Mutant of CpuMessages: the result first, the request for work after it.
CpuMessagesSwapped(t) == <<Message(0, "done", t.n), Message(0, "ready", 0)>>

CpuMessages(t) == <<Message(0, "ready", 0), Message(0, "done", t.n)>>

Phase(p) == {c \in cpu : c.phase = p}

CpuStart(c) ==
  /\ c.phase = "queued"
  /\ Cardinality(cpu \ Phase("queued")) < CpuThreads
  /\ cpu' = (cpu \ {c}) \cup {[c EXCEPT !.phase = "hash"]}
  /\ UNCHANGED <<rx, cache>>

CpuHash(c) ==
  /\ c.phase = "hash"
  /\ cache' = Stored(c.task, c.task.start, c.task.n)
  /\ rx' = Append(rx, CpuMessages(c.task)[1])
  /\ cpu' = (cpu \ {c}) \cup {[c EXCEPT !.phase = "report"]}

CpuReport(c) ==
  /\ c.phase = "report"
  /\ rx' = Append(rx, CpuMessages(c.task)[2])
  /\ cpu' = cpu \ {c}
  /\ cache' = cache

CpuStep(c) ==
  /\ CpuStart(c) \/ CpuHash(c) \/ CpuReport(c)
  /\ UNCHANGED <<bufferVars, schedVars, gpu, inbox, writerVars>>

-----------------------------------------------------------------------------
(* GPU threads.  gpu[g]: where the thread is, its locals, and what its two  *)
(* device buffers hold.  While one device buffer is hashed into, the other  *)
(* is transferred to the host.                                             *)

\* The device buffer a transfer reads, and the one the next hash goes to.
\* Mutant of TransferFrom: the device buffer that is being hashed into.
TransferFromCurrent(id) == IF id = 0 THEN "a" ELSE "b"

TransferFrom(id) == IF id = 1 THEN "a" ELSE "b"
HashInto(id) == IF id = 0 THEN "a" ELSE "b"

GpuTask(g) == Head(inbox[g])

\* The transfer of last_task's nonces from the device into host memory.
Transferred(g) ==
  LET from == gpu[g].vram[TransferFrom(gpu[g].buffer_id)]
  IN  Stored(gpu[g].last_task, from.start, from.n)

\* First run, gpu_hash: only hash; a request without nonces is ignored.
GpuFirst(g) ==
  /\ gpu[g].first_run /\ GpuTask(g) # None
  /\ gpu' = IF GpuTask(g).n = 0 THEN gpu ELSE
       [gpu EXCEPT ![g] = [pc |-> "ask", first_run |-> FALSE,
                           buffer_id |-> 1 - @.buffer_id, last_task |-> GpuTask(g),
                           next_task |-> GpuTask(g),
                           vram |-> [@.vram EXCEPT !["a"] = GpuTask(g)]]]
  /\ cache' = cache

\* Mutant of GpuLast: buffer_id is left where it is.
GpuLastKeepsId(g) ==
  /\ ~gpu[g].first_run /\ GpuTask(g) # None /\ GpuTask(g).n = 0
  /\ gpu' = [gpu EXCEPT ![g].pc = "report", ![g].first_run = TRUE,
                        ![g].next_task = GpuTask(g)]
  /\ cache' = Transferred(g)

\* Last run, gpu_transfer_to_host: no more nonces, only transfer.
GpuLast(g) ==
  /\ ~gpu[g].first_run /\ GpuTask(g) # None /\ GpuTask(g).n = 0
  /\ gpu' = [gpu EXCEPT ![g].pc = "report", ![g].first_run = TRUE, ![g].buffer_id = 0,
                        ![g].next_task = GpuTask(g)]
  /\ cache' = Transferred(g)

\* gpu_hash_and_transfer_to_host: hash the new task, transfer the last one.
GpuBoth(g) ==
  /\ ~gpu[g].first_run /\ GpuTask(g).n > 0
  /\ gpu' = [gpu EXCEPT ![g].pc = "report", ![g].buffer_id = 1 - @,
                        ![g].next_task = GpuTask(g),
                        ![g].vram[HashInto(gpu[g].buffer_id)] = GpuTask(g)]
  /\ cache' = Transferred(g)

GpuEnd(g) ==
  /\ GpuTask(g) = None
  /\ gpu' = [gpu EXCEPT ![g].pc = "end"]
  /\ cache' = cache

GpuWork(g) ==
  /\ gpu[g].pc = "recv" /\ inbox[g] # <<>>
  /\ GpuFirst(g) \/ GpuLast(g) \/ GpuBoth(g) \/ GpuEnd(g)
  /\ inbox' = [inbox EXCEPT ![g] = Tail(@)]
  /\ rx' = rx

\* The nonces of last_task are in host memory; then the new task takes its place.
GpuReport(g) ==
  /\ gpu[g].pc = "report"
  /\ rx' = Append(rx, Message(g, "done", gpu[g].last_task.n))
  /\ gpu' = IF gpu[g].first_run
            THEN [gpu EXCEPT ![g].pc = "recv"]
            ELSE [gpu EXCEPT ![g].pc = "ask", ![g].last_task = gpu[g].next_task]
  /\ UNCHANGED <<cache, inbox>>

GpuAsk(g) ==
  /\ gpu[g].pc = "ask"
  /\ rx' = Append(rx, Message(g, "ready", 0))
  /\ gpu' = [gpu EXCEPT ![g].pc = "recv"]
  /\ UNCHANGED <<cache, inbox>>

GpuStep(g) ==
  /\ GpuWork(g) \/ GpuReport(g) \/ GpuAsk(g)
  /\ UNCHANGED <<bufferVars, schedVars, cpu, writerVars>>

-----------------------------------------------------------------------------
(* The writer, and the whole.                                              *)

WriterTake ==
  /\ wbuf = 0 /\ full_buffers # <<>>
  /\ wbuf' = Head(full_buffers) /\ full_buffers' = Tail(full_buffers)
  /\ UNCHANGED <<empty_buffers, nonces_written>>

WriterReturn ==
  /\ wbuf # 0
  /\ empty_buffers' = Append(empty_buffers, wbuf)
  /\ nonces_written' = nonces_written + Smaller(BufNonces, Nonces - nonces_written)
  /\ wbuf' = 0
  /\ UNCHANGED full_buffers

WriterStep ==
  /\ WriterTake \/ WriterReturn
  /\ UNCHANGED <<cache, schedVars, rx, cpu, gpu, inbox>>

GpuIdle == [pc |-> "recv", first_run |-> TRUE, buffer_id |-> 0, last_task |-> None,
            next_task |-> None, vram |-> [v \in {"a", "b"} |-> None]]

Init ==
  /\ empty_buffers = [i \in 1 .. NumBuffers |-> i] /\ full_buffers = <<>>
  /\ cache = [b \in Buffers |-> [i \in Slots |-> NoNonce]]
  /\ spc = "recv" /\ buf = 0 /\ nonces_hashed = Progress
  /\ requested = 0 /\ processed = 0 /\ kick = 1
  /\ rx = <<>> /\ cpu = {}
  /\ gpu = [g \in Gpus |-> GpuIdle] /\ inbox = [g \in Gpus |-> <<>>]
  /\ wbuf = 0 /\ nonces_written = Progress

\* The run is over: both workers and the GPU threads have ended.
Terminated ==
  /\ nonces_written = Nonces /\ spc = "done"
  /\ \A g \in Gpus : gpu[g].pc = "end"
  /\ UNCHANGED vars

Next ==
  \/ SchedulerStep
  \/ \E c \in cpu : CpuStep(c)
  \/ \E g \in Gpus : GpuStep(g)
  \/ WriterStep
  \/ Terminated

Spec == Init /\ [][Next]_vars

\* Every thread is scheduled; the pool gets to every task it was given.
FairSpec ==
  /\ Spec
  /\ WF_vars(SchedulerStep) /\ WF_vars(\E c \in cpu : CpuStep(c))
  /\ \A g \in Gpus : WF_vars(GpuStep(g))
  /\ WF_vars(WriterStep)

-----------------------------------------------------------------------------
(* Properties.                                                             *)

GpuState ==
  [pc : {"recv", "report", "ask", "end"}, first_run : BOOLEAN, buffer_id : {0, 1},
   last_task : Task, next_task : Task, vram : [{"a", "b"} -> Task]]

\* The state has the shape the code gives it; no more is requested than the
\* buffer holds, no more is reported than was requested.
TypeOK ==
  /\ empty_buffers \in Seq(Buffers) /\ full_buffers \in Seq(Buffers)
  /\ cache \in [Buffers -> [Slots -> Int]]
  /\ spc \in {"recv", "kick", "loop", "send", "done"} /\ buf \in 0 .. NumBuffers
  /\ nonces_hashed \in Progress .. Nonces
  /\ requested \in 0 .. BufNonces /\ processed \in 0 .. requested
  /\ spc \in {"kick", "loop"} => requested <= Todo
  /\ kick \in 1 .. NumGpus + CpuThreads + 1
  /\ rx \in Seq([dev : 0 .. NumGpus, kind : {"ready", "done"}, n : Nat])
  /\ cpu \subseteq [task : Task, phase : {"queued", "hash", "report"}]
  /\ gpu \in [Gpus -> GpuState] /\ inbox \in [Gpus -> Seq(Task)]
  /\ wbuf \in 0 .. NumBuffers /\ nonces_written \in Progress .. nonces_hashed

\* The tasks of a GPU whose nonces it has not reported: waiting, hashed, or
\* being hashed; and those of all devices.
GpuTasks(g) ==
  {t \in {inbox[g][i] : i \in DOMAIN inbox[g]} : t.n > 0}
  \cup (IF gpu[g].pc = "report" \/ ~gpu[g].first_run THEN {gpu[g].last_task} ELSE {})
  \cup (IF gpu[g].pc = "report" /\ ~gpu[g].first_run THEN {gpu[g].next_task} ELSE {})

InFlight == {c.task : c \in cpu} \cup UNION {GpuTasks(g) : g \in Gpus}

SlotsOf(t) == t.offset .. t.offset + t.n - 1
Apart(t, u) == t.offset + t.n <= u.offset \/ u.offset + u.n <= t.offset
SlotsInFlight == UNION {SlotsOf(t) : t \in InFlight}

\* The nonces of the reports that the control loop has not read, as pairs of a
\* message and one of its nonces.
Reports == {i \in DOMAIN rx : rx[i].kind = "done"}
Unread == UNION {{i} \X (1 .. rx[i].n) : i \in Reports}

\* While a buffer is hashed, every slot that was given out belongs to exactly
\* one task under way or already holds its nonce, and the control loop's count
\* will come out right: nonces are neither hashed twice, nor forgotten, nor
\* reported before they are in host memory.
EverySlotAccounted ==
  spc \in {"kick", "loop"} =>
    /\ \A t \in InFlight : /\ t.cache = buf /\ t.start = nonces_hashed + t.offset
                           /\ t.offset + t.n <= requested
    /\ \A t, u \in InFlight : t = u \/ Apart(t, u)
    /\ \A i \in 0 .. requested - 1 : i \in SlotsInFlight \/ cache[buf][i] = nonces_hashed + i
    /\ requested = processed + Cardinality(SlotsInFlight) + Cardinality(Unread)

\* When the scheduler gives a buffer away and waits for the next one, nothing
\* of it is left behind: no message that the next control loop would take for
\* its own, no task that still writes through the old pointer.
NothingLeftBehind ==
  spc \in {"recv", "send", "done"} =>
    /\ rx = <<>> /\ InFlight = {}
    /\ \A g \in Gpus : gpu[g].pc \in {"recv", "end"}

\* A CPU task asks for more work before it reports its result, and is answered
\* with one task: the pool's queue never grows beyond one task per thread.
CpuBacklog == Cardinality(Phase("queued") \cup Phase("hash")) <= CpuThreads

\* Whenever a GPU thread waits for a task, the device buffer its next transfer
\* reads holds the nonces of last_task.
TransferFindsLast ==
  \A g \in Gpus :
    gpu[g].pc \in {"recv", "ask"} /\ ~gpu[g].first_run =>
      gpu[g].vram[TransferFrom(gpu[g].buffer_id)] = gpu[g].last_task

\* The whole plot gets hashed and reaches the writer, whatever share of it
\* each device takes.
AllWritten == <>(nonces_written = Nonces)

\* What the writer has in hand and in its channel, as nonces.
Held == IF wbuf = 0 THEN full_buffers ELSE <<wbuf>> \o full_buffers
ChunkAt(i) == Smaller(BufNonces, Nonces - (nonces_written + (i - 1) * BufNonces))

Chunks ==
  INSTANCE ChunkStream WITH
    emitted <- nonces_hashed,
    stream <- [i \in 1 .. Len(Held) |->
                [k \in 0 .. ChunkAt(i) - 1 |-> cache[Held[i]][k]]]

\* With every mix of devices the writer receives exactly the chunks of the plot,
\* complete and in order, and they do not change while it holds them.
Delivers == Chunks!Spec
=============================================================================
