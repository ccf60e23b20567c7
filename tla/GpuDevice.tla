------------------------------ MODULE GpuDevice ------------------------------
(***************************************************************************)
(* One GPU and the thread that feeds it (src/gpu_hasher.rs, src/ocl.rs):    *)
(* how its memory is worked out and allocated, the two command queues that  *)
(* the device works off on its own, queue a for launches of the kernel and  *)
(* queue b for transfers, and the two buffers in GPU memory that take turns.*)
(* Nonces are counted in the vectors they are unpacked by.                  *)
(***************************************************************************)
EXTENDS Integers, Sequences, FiniteSets

CONSTANTS
  Cards,             \* devices and the options for them that a run may be started with
  Launches,          \* launches of the kernel per task: 8192 / GPU_HASHES_PER_RUN
  DriverBacksHost,   \* whether NVIDIA's driver keeps a buffer made with
                     \* MEM_ALLOC_HOST_PTR in host memory and nowhere else
  MaxTasks           \* bound: the tasks of a run that are not empty

ASSUME GpuDeviceAssumption ==
  /\ Launches \in Nat \ {0} /\ MaxTasks \in Nat \ {0}
  /\ DriverBacksHost \in BOOLEAN
  /\ \A c \in Cards :
       /\ c.cores \in Nat /\ c.units \in Nat \ {0} /\ c.group \in Nat \ {0}
       /\ c.memory \in Nat /\ {c.nvidia, c.zcb, c.exists} \subseteq BOOLEAN

VARIABLES
  card,        \* the device: cores asked for, max_compute_units, vectors per work
               \* group, global memory, vendor; zero copy buffers; whether it exists
  needed,      \* gpu_mem_needed, halved as the plotter does without zero copy
  allocated,   \* vectors allocated, in GPU memory and in host memory
  th,          \* the GPU thread and its locals
  queue,       \* commands the device has not finished
  memory,      \* buffer |-> vector |-> what its nonces are
  mapped,      \* the buffers that are mapped to host memory
  cache,       \* task |-> vector |-> the nonces put into the cache
  reported     \* tasks whose nonces were reported to the scheduler

cardVars == <<card, needed, allocated>>
vars == <<cardVars, th, queue, memory, mapped, cache, reported>>

NoTask == [id |-> 0, n |-> 0]
Smaller(a, b) == IF a <= b THEN a ELSE b

-----------------------------------------------------------------------------
(* Sizing, in the plotter (gpu_get_info) and later in the scheduler         *)
(* (gpu_init): they limit the cores differently.                            *)

InfoCores == IF card.cores = 0 THEN card.units ELSE Smaller(card.cores, 2 * card.units)

\* Mutant of InitCores: as many cores as were asked for.
InitCoresAsked == IF card.cores = 0 THEN card.units ELSE card.cores

InitCores == IF card.cores = 0 THEN card.units ELSE Smaller(card.cores, card.units)

Worksize == card.group * InitCores
Vectors == 1 .. Worksize

\* Both buffers of the device.
MemNeeded == 2 * InfoCores * card.group

gpu_get_info ==
  /\ th.pc = "info"
  /\ IF card.exists /\ MemNeeded <= card.memory
     THEN /\ needed' = IF card.zcb THEN MemNeeded ELSE MemNeeded \div 2
          /\ th' = [th EXCEPT !.pc = "init"]
     ELSE th' = [th EXCEPT !.pc = "exit"] /\ UNCHANGED needed
  /\ UNCHANGED <<card, allocated, queue, memory, mapped, cache, reported>>

\* Content of a vector: the task it is of and how many launches have worked on
\* it.  Blank is what was there before.
Blank == [id |-> 0, launches |-> 0]

\* GpuContext::new.  With zero copy both buffers are in host memory; without, a
\* pinned host buffer is mapped for good, which on NVIDIA is buffer a itself:
\* nothing ever unmaps it.
gpu_init ==
  /\ th.pc = "init"
  /\ allocated' = [gpu |-> IF card.zcb THEN 0 ELSE 2 * Worksize,
                   host |-> IF card.zcb THEN 2 * Worksize ELSE Worksize]
  /\ memory' = [b \in {"a", "b", "host"} |-> [v \in Vectors |-> Blank]]
  /\ mapped' = IF card.zcb THEN {} ELSE {IF card.nvidia THEN "a" ELSE "host"}
  /\ th' = [th EXCEPT !.pc = "recv"]
  /\ UNCHANGED <<card, needed, queue, cache, reported>>

-----------------------------------------------------------------------------
(* The GPU thread.                                                         *)

\* What a task that was received is answered with.
Call == IF th.first_run THEN "hash" ELSE IF th.task.n = 0 THEN "transfer" ELSE "both"

HashInto == IF Call = "hash" \/ th.buffer_id = 0 THEN "a" ELSE "b"
TransferFrom == IF th.buffer_id = 1 THEN "a" ELSE "b"

\* Where pinned memory is: the mapped pointer of buffer_host.
Pinned == IF card.nvidia /\ DriverBacksHost THEN "a" ELSE "host"

\* A task, or an empty one; an empty one is ignored in the first run.
Receive ==
  /\ th.pc = "recv"
  /\ \E n \in 0 .. Worksize :
       /\ n > 0 => th.tasks < MaxTasks
       /\ th' = IF n = 0 /\ th.first_run THEN th
                ELSE [th EXCEPT !.pc = IF th.first_run THEN "launch" ELSE "fetch",
                                !.task = [id |-> IF n = 0 THEN 0 ELSE th.tasks + 1, n |-> n],
                                !.tasks = IF n = 0 THEN @ ELSE @ + 1]
  /\ UNCHANGED <<cardVars, queue, memory, mapped, cache, reported>>

\* None: the scheduler has got everything.
Terminate ==
  /\ th.pc = "recv" /\ th.first_run
  /\ th' = [th EXCEPT !.pc = "end"]
  /\ UNCHANGED <<cardVars, queue, memory, mapped, cache, reported>>

\* Zero copy: map the buffer, and wait for it.
mem_map_gpu_to_host ==
  /\ th.pc = "fetch" /\ card.zcb
  /\ queue' = [queue EXCEPT !["b"] = Append(@, [op |-> "map", buffer |-> TransferFrom])]
  /\ th' = [th EXCEPT !.pc = "map"]
  /\ UNCHANGED <<cardVars, memory, mapped, cache, reported>>

MapReturns ==
  /\ th.pc = "map" /\ queue["b"] = <<>>
  /\ th' = [th EXCEPT !.pc = IF Call = "both" THEN "launch" ELSE "unpack"]
  /\ UNCHANGED <<cardVars, queue, memory, mapped, cache, reported>>

\* Otherwise: start to read the buffer into pinned memory, without waiting.
mem_transfer_gpu_to_host ==
  /\ th.pc = "fetch" /\ ~card.zcb
  /\ queue' = [queue EXCEPT !["b"] =
                 Append(@, [op |-> "read", buffer |-> TransferFrom, vector |-> 1])]
  /\ th' = [th EXCEPT !.pc = IF Call = "both" THEN "launch" ELSE "finish_b"]
  /\ UNCHANGED <<cardVars, memory, mapped, cache, reported>>

\* The loop over the hashes of a nonce.
MoreLaunches == th.launch < Launches

EnqueueKernel ==
  /\ th.pc = "launch" /\ MoreLaunches
  /\ queue' = [queue EXCEPT !["a"] =
                 Append(@, [op |-> "kernel", buffer |-> HashInto, task |-> th.task,
                            start |-> th.launch])]
  /\ th' = [th EXCEPT !.launch = @ + 1]
  /\ UNCHANGED <<cardVars, memory, mapped, cache, reported>>

LoopEnds ==
  /\ th.pc = "launch" /\ ~MoreLaunches
  /\ th' = [th EXCEPT !.pc = IF Call = "hash" THEN "finish_a" ELSE "finish_b"]
  /\ UNCHANGED <<cardVars, queue, memory, mapped, cache, reported>>

\* finish(queue_b): the transfer is done.
FinishB ==
  /\ th.pc = "finish_b" /\ queue["b"] = <<>>
  /\ th' = [th EXCEPT !.pc = "unpack"]
  /\ UNCHANGED <<cardVars, queue, memory, mapped, cache, reported>>

\* The threads of the global pool unpack the vectors of the last task in any
\* order, while the kernel may be at work on the next one.
unpack_shuffle_scatter ==
  /\ th.pc = "unpack"
  /\ \E v \in (1 .. th.last_task.n) \ th.unpacked :
       /\ th' = [th EXCEPT !.unpacked = @ \cup {v}]
       /\ cache' = [cache EXCEPT ![th.last_task.id] =
                      Append(@, memory[IF card.zcb THEN TransferFrom ELSE Pinned][v])]
  /\ UNCHANGED <<cardVars, queue, memory, mapped, reported>>

\* Mutant of UnpackReturns: the buffer stays mapped.
UnpackReturnsMapped ==
  /\ th.pc = "unpack" /\ th.unpacked = 1 .. th.last_task.n
  /\ th' = [th EXCEPT !.pc = IF card.zcb \/ Call = "both" THEN "finish_a" ELSE "report"]
  /\ UNCHANGED <<cardVars, queue, memory, mapped, cache, reported>>

\* mem_unmap_gpu_to_host goes to queue a, behind the launches.
UnpackReturns ==
  /\ th.pc = "unpack" /\ th.unpacked = 1 .. th.last_task.n
  /\ queue' = IF ~card.zcb THEN queue ELSE
       [queue EXCEPT !["a"] = Append(@, [op |-> "unmap", buffer |-> TransferFrom])]
  /\ th' = [th EXCEPT !.pc = IF card.zcb \/ Call = "both" THEN "finish_a" ELSE "report"]
  /\ UNCHANGED <<cardVars, memory, mapped, cache, reported>>

\* Mutant of FinishA: returns at once.
FinishAReturns ==
  /\ th.pc = "finish_a"
  /\ th' = [th EXCEPT !.pc = "report"]
  /\ UNCHANGED <<cardVars, queue, memory, mapped, cache, reported>>

\* finish(queue_a): the new task is hashed and the buffer unmapped.
FinishA ==
  /\ th.pc = "finish_a" /\ queue["a"] = <<>>
  /\ th' = [th EXCEPT !.pc = "report"]
  /\ UNCHANGED <<cardVars, queue, memory, mapped, cache, reported>>

\* The call has returned: the buffers change places, what was transferred is
\* reported, and the new task is the last one from now on.
Return ==
  /\ th.pc = "report"
  /\ reported' = IF Call = "hash" THEN reported ELSE Append(reported, th.last_task.id)
  /\ th' = [th EXCEPT !.pc = "recv", !.launch = 0, !.unpacked = {},
                      !.first_run = Call = "transfer",
                      !.buffer_id = IF Call = "transfer" THEN 0 ELSE 1 - @,
                      !.last_task = IF Call = "transfer" THEN @ ELSE th.task]
  /\ UNCHANGED <<cardVars, queue, memory, mapped, cache>>

ThreadStep ==
  \/ gpu_get_info \/ gpu_init \/ Receive \/ Terminate
  \/ mem_map_gpu_to_host \/ MapReturns \/ mem_transfer_gpu_to_host
  \/ EnqueueKernel \/ LoopEnds \/ FinishB
  \/ unpack_shuffle_scatter \/ UnpackReturns \/ FinishA \/ Return

-----------------------------------------------------------------------------
(* The device: each queue is worked off in its order, the two of them side  *)
(* by side.                                                                *)

\* A launch takes up what the launches before it have left of the same task.
Launched(c, was) ==
  [id |-> c.task.id,
   launches |-> IF c.start = 0 THEN 1
                ELSE IF was = [id |-> c.task.id, launches |-> c.start] THEN c.start + 1
                ELSE -1]

\* Only the work items below the number of nonces have anything to do.
AfterLaunch(c, vectors) ==
  [v \in Vectors |-> IF v <= c.task.n THEN Launched(c, vectors[v]) ELSE vectors[v]]

RunKernel ==
  /\ queue["a"] # <<>>
  /\ LET c == Head(queue["a"])
     IN /\ c.op = "kernel"
        /\ memory' = [memory EXCEPT ![c.buffer] = AfterLaunch(c, memory[c.buffer])]
  /\ queue' = [queue EXCEPT !["a"] = Tail(@)]
  /\ UNCHANGED <<cardVars, th, mapped, cache, reported>>

RunUnmap ==
  /\ queue["a"] # <<>> /\ Head(queue["a"]).op = "unmap"
  /\ mapped' = mapped \ {Head(queue["a"]).buffer}
  /\ queue' = [queue EXCEPT !["a"] = Tail(@)]
  /\ UNCHANGED <<cardVars, th, memory, cache, reported>>

RunMap ==
  /\ queue["b"] # <<>> /\ Head(queue["b"]).op = "map"
  /\ mapped' = mapped \cup {Head(queue["b"]).buffer}
  /\ queue' = [queue EXCEPT !["b"] = Tail(@)]
  /\ UNCHANGED <<cardVars, th, memory, cache, reported>>

\* A read takes its time: one vector after the other.
RunRead ==
  /\ queue["b"] # <<>>
  /\ LET c == Head(queue["b"])
     IN /\ c.op = "read"
        /\ memory' = [memory EXCEPT ![Pinned][c.vector] = memory[c.buffer][c.vector]]
        /\ queue' = [queue EXCEPT !["b"] =
             (IF c.vector = Worksize THEN <<>>
              ELSE <<[c EXCEPT !.vector = c.vector + 1]>>) \o Tail(@)]
  /\ UNCHANGED <<cardVars, th, mapped, cache, reported>>

DeviceStep == RunKernel \/ RunUnmap \/ RunMap \/ RunRead

Ended == th.pc \in {"exit", "end"} /\ UNCHANGED vars

Init ==
  /\ card \in Cards
  /\ needed = 0 /\ allocated = [gpu |-> 0, host |-> 0]
  /\ th = [pc |-> "info", first_run |-> TRUE, buffer_id |-> 0, last_task |-> NoTask,
           task |-> NoTask, tasks |-> 0, launch |-> 0, unpacked |-> {}]
  /\ queue = [q \in {"a", "b"} |-> <<>>]
  /\ memory = [b \in {"a", "b", "host"} |-> [v \in Vectors |-> Blank]]
  /\ mapped = {} /\ cache = [t \in 1 .. MaxTasks |-> <<>>] /\ reported = <<>>

Next == ThreadStep \/ DeviceStep \/ Ended

Spec == Init /\ [][Next]_vars

-----------------------------------------------------------------------------
(* Properties.                                                             *)

\* What gpu_get_info had the plotter set aside, with other numbers of cores,
\* covers what gpu_init allocates in host memory, and the card has the rest.
MemoryReserved == allocated.host <= needed /\ allocated.gpu <= card.memory

\* The kernel never works on a buffer that the host has mapped, for OpenCL the
\* outcome would be undefined: with zero copy each buffer is mapped while it is
\* unpacked and no longer, and other cards than NVIDIA's have a buffer of its own
\* mapped.  Not so NVIDIA's without zero copy: buffer a is mapped for good and
\* hashed into all the same.
NeverHashesMapped ==
  card.zcb \/ ~card.nvidia => \A i \in DOMAIN queue["a"] :
    queue["a"][i].op = "kernel" => queue["a"][i].buffer \notin mapped

\* The tasks of which every nonce is in the cache, after all launches.
Whole(t) ==
  /\ cache[t] # <<>>
  /\ \A i \in DOMAIN cache[t] : cache[t][i] = [id |-> t, launches |-> Launches]
  /\ ~(th.pc = "unpack" /\ th.last_task.id = t /\ th.unpacked # 1 .. th.last_task.n)

\* The new task takes the place of the last one when the call returns.
Held == IF th.first_run THEN 0 ELSE th.last_task.id

Pipe ==
  INSTANCE GpuPipe WITH
    held <- Held, hashed <- {t \in 1 .. MaxTasks : Whole(t)}, reported <- reported

\* Whatever the device does in the meantime, with pinned memory or zero copy,
\* each task is hashed and unpacked as a whole before it is reported, once.
HashesThenReports == Pipe!Spec
=============================================================================
