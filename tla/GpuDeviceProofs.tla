-------------------------- MODULE GpuDeviceProofs --------------------------
(***************************************************************************)
(* Proofs about module GpuDevice: for every card, number of tasks and of    *)
(* launches, the memory that was set aside for a GPU is enough              *)
(* (MemoryReserved), the kernel never works on a buffer that the host has   *)
(* mapped, NVIDIA's pinned one excepted (NeverHashesMapped), and unless the *)
(* driver makes one of the buffers its pinned memory, each task is hashed   *)
(* and unpacked as a whole before it is reported, once (HashesThenReports,  *)
(* the refinement of module GpuPipe).                                       *)
(***************************************************************************)
EXTENDS GpuDevice, TLAPS

-----------------------------------------------------------------------------
(* The inductive invariant.                                                *)

Task == [id : Nat, n : Nat]
Content == [id : Nat, launches : Int]
Buffers == {"a", "b", "host"}

Before == {"info", "init", "exit"}       \* no task yet
Idle == Before \cup {"recv", "end"}       \* no call
InCall == {"fetch", "map", "launch", "finish_b", "unpack", "finish_a", "report"}

Thread ==
  [pc : Idle \cup InCall, first_run : BOOLEAN, buffer_id : {0, 1}, last_task : Task, task : Task,
   tasks : Nat, launch : Nat, unpacked : SUBSET Nat]

Command ==
  [op : {"kernel"}, buffer : {"a", "b"}, task : Task, start : Nat]
    \cup [op : {"read"}, buffer : {"a", "b"}, vector : Nat]
    \cup [op : {"map", "unmap"}, buffer : {"a", "b"}]

Types ==
  /\ card \in Cards
  /\ th \in Thread
  /\ queue \in [{"a", "b"} -> Seq(Command)]
  /\ memory \in [Buffers -> [Vectors -> Content]]
  /\ mapped \in SUBSET Buffers
  /\ cache \in [1 .. MaxTasks -> Seq(Content)]

\* What was set aside, and what of it is allocated.
Reserved ==
  /\ th.pc \in Before => allocated = [gpu |-> 0, host |-> 0]
  /\ th.pc \in {"info", "exit"} => needed = 0
  /\ th.pc \notin {"info", "exit"} =>
       /\ MemNeeded <= card.memory
       /\ needed = IF card.zcb THEN MemNeeded ELSE MemNeeded \div 2
  /\ th.pc \notin Before =>
       allocated = [gpu |-> IF card.zcb THEN 0 ELSE 2 * Worksize,
                    host |-> IF card.zcb THEN 2 * Worksize ELSE Worksize]

\* Which task is in which place: tasks are numbered as they come.
Tasks ==
  /\ th.first_run => th.buffer_id = 0
  /\ ~th.first_run => /\ th.last_task.id \in 1 .. MaxTasks
                      /\ th.last_task.n \in 1 .. Worksize
                      /\ th.pc \notin Before \cup {"end"}
  /\ th.pc \in {"fetch", "map", "finish_b", "unpack"} => ~th.first_run
  /\ th.pc = "launch" \/ (th.pc \in {"finish_a", "report"} /\ th.first_run) => th.task.n > 0
  /\ th.last_task.id \in 0 .. MaxTasks
  /\ th.pc \in Before => th.last_task.id = 0
  /\ th.tasks = IF th.pc \in InCall /\ th.task.n > 0 THEN th.last_task.id + 1
                ELSE th.last_task.id
  /\ th.pc \in InCall /\ th.task.n > 0 => th.task.id = th.tasks /\ th.tasks <= MaxTasks
  /\ th.pc \in InCall => th.task.n <= Worksize

\* What is left of a call in the queues, and what is mapped.
KernelCommand(s) == [op |-> "kernel", buffer |-> HashInto, task |-> th.task, start |-> s]
MapCommand == [op |-> "map", buffer |-> TransferFrom]
UnmapCommand == [op |-> "unmap", buffer |-> TransferFrom]
ReadCommand(v) == [op |-> "read", buffer |-> TransferFrom, vector |-> v]

Unmapping == th.pc = "finish_a" /\ card.zcb /\ mapped # {}
Kernels == Len(queue["a"]) - (IF Unmapping THEN 1 ELSE 0)
LaunchesRun == th.launch - Kernels

QueueA ==
  /\ Kernels \in 0 .. th.launch
  /\ \A i \in 1 .. Kernels : queue["a"][i] = KernelCommand(LaunchesRun + i - 1)
  /\ Unmapping => queue["a"][Kernels + 1] = UnmapCommand

LaunchCount ==
  /\ th.pc \in Idle \cup {"fetch", "map", "report"} => Kernels = 0
  /\ th.pc \in Idle \cup {"fetch", "map"} => th.launch = 0
  /\ th.launch <= Launches
  /\ th.pc \in InCall /\ th.task.n = 0 => th.launch = 0
  /\ th.pc \in {"finish_b", "unpack", "finish_a", "report"} /\ th.task.n > 0 =>
       th.launch = Launches

QueueB ==
  \/ /\ th.pc = "map" /\ card.zcb
     /\ \/ queue["b"] = <<MapCommand>> /\ mapped = {}
        \/ queue["b"] = <<>> /\ mapped = {TransferFrom}
  \/ /\ th.pc # "map" /\ card.zcb /\ queue["b"] = <<>>
     /\ \/ mapped = {} /\ (th.pc \in {"launch", "finish_b", "unpack"} => th.first_run)
        \/ mapped = {TransferFrom} /\ ~th.first_run
             /\ th.pc \in {"launch", "finish_b", "unpack", "finish_a"}
  \/ /\ th.pc # "map" /\ ~card.zcb /\ (card.nvidia \/ mapped \subseteq {"host"})
     /\ \/ queue["b"] = <<>>
        \/ /\ th.pc \in {"launch", "finish_b"} /\ ~th.first_run
           /\ \E v \in Vectors : queue["b"] = <<ReadCommand(v)>>

\* What the buffers hold: the launches that have run, and the last task.
Right(t) == [id |-> t, launches |-> Launches]

Hashing ==
  LaunchesRun > 0 =>
    \A v \in 1 .. th.task.n : memory[HashInto][v] = [id |-> th.task.id, launches |-> LaunchesRun]

Hashed ==
  ~th.first_run => \A v \in 1 .. th.last_task.n : memory[TransferFrom][v] = Right(th.last_task.id)

Transferred ==
  ~card.zcb /\ ~th.first_run /\ th.pc \in {"launch", "finish_b", "unpack"} =>
    \A v \in 1 .. th.last_task.n :
      queue["b"] = <<>> \/ v < queue["b"][1].vector =>
        memory["host"][v] = Right(th.last_task.id)

\* What the cache holds.
AllRight(t) == \A i \in DOMAIN cache[t] : cache[t][i] = Right(t)

Entries ==
  \A t \in 1 .. MaxTasks :
    /\ AllRight(t)
    /\ t < th.last_task.id => cache[t] # <<>>
    /\ t > th.last_task.id => cache[t] = <<>>

Unpacked ==
  /\ th.last_task.id > 0 =>
       IF th.first_run \/ th.pc \in {"finish_a", "report"} THEN cache[th.last_task.id] # <<>>
       ELSE IF th.pc = "unpack" THEN cache[th.last_task.id] = <<>> <=> th.unpacked = {}
       ELSE cache[th.last_task.id] = <<>>
  /\ th.pc = "unpack" => th.unpacked \subseteq 1 .. th.last_task.n
  /\ th.pc \in Idle \cup {"fetch", "map", "launch", "finish_b"} => th.unpacked = {}

Reports ==
  /\ reported \in Seq(Nat)
  /\ Len(reported) = IF th.first_run THEN th.last_task.id ELSE th.last_task.id - 1
  /\ \A i \in 1 .. Len(reported) : reported[i] = i

\* No card of the run has its host buffer in the place of buffer a.
HostApart == \A c \in Cards : ~(DriverBacksHost /\ c.nvidia /\ ~c.zcb)

\* What holds for every driver, and what only if the host buffer is apart.
QIInv == Types /\ Reserved /\ Tasks /\ QueueA /\ LaunchCount /\ QueueB
DInv == Hashing /\ Hashed /\ Transferred /\ Entries /\ Unpacked /\ Reports
IInv == QIInv /\ DInv

-----------------------------------------------------------------------------
(* Cards and commands.                                                     *)

LEMMA CardTypes ==
  ASSUME card \in Cards
  PROVE  /\ Worksize \in Nat /\ MemNeeded \in Nat /\ card.memory \in Nat
         /\ Vectors = 1 .. Worksize
         /\ InitCores \in Nat /\ InfoCores \in Nat /\ card.group \in Nat
         /\ card.zcb \in BOOLEAN /\ card.nvidia \in BOOLEAN /\ card.exists \in BOOLEAN
<1>1. /\ card.cores \in Nat /\ card.units \in Nat \ {0} /\ card.group \in Nat \ {0}
      /\ card.memory \in Nat /\ card.zcb \in BOOLEAN /\ card.nvidia \in BOOLEAN
      /\ card.exists \in BOOLEAN
  BY GpuDeviceAssumption
<1>2. InitCores \in Nat /\ InfoCores \in Nat
  BY <1>1 DEF InitCores, InfoCores, Smaller
<1> DEFINE g == card.group
           i == InitCores
           o == InfoCores
<1> HIDE DEF g, i, o
<1>3. g * i \in Nat /\ 2 * o * g \in Nat
  BY <1>1, <1>2 DEF g, i, o
<1> QED BY <1>1, <1>2, <1>3 DEF Worksize, MemNeeded, Vectors, g, i, o

(* The scheduler takes no more cores than the plotter has counted. *)
LEMMA CoresReserved ==
  ASSUME card \in Cards
  PROVE  2 * Worksize <= MemNeeded
<1>1. /\ card.cores \in Nat /\ card.units \in Nat \ {0} /\ card.group \in Nat \ {0}
  BY GpuDeviceAssumption
<1>2. InitCores \in Nat /\ InfoCores \in Nat /\ InitCores <= InfoCores
  BY <1>1 DEF InitCores, InfoCores, Smaller
<1> DEFINE g == card.group
           i == InitCores
           o == InfoCores
<1>3. g \in Nat /\ i \in Nat /\ o - i \in Nat /\ o \in Nat
  BY <1>1, <1>2
<1> HIDE DEF g, i, o
<1>4. g * (o - i) \in Nat /\ g * o = g * i + g * (o - i) /\ 2 * o * g = 2 * (g * o)
  BY <1>3
<1>5. 2 * (g * i) <= 2 * o * g
  <2> DEFINE x == g * i
             y == g * (o - i)
  <2>1. x \in Nat /\ y \in Nat /\ g * o = x + y
    BY <1>3, <1>4
  <2> HIDE DEF x, y
  <2>2. 2 * x <= 2 * (x + y)
    BY <2>1
  <2> QED BY <1>4, <2>1, <2>2 DEF x
<1> QED BY <1>5 DEF Worksize, MemNeeded, g, i, o

LEMMA SameCard ==
  ASSUME card' = card
  PROVE  Worksize' = Worksize /\ Vectors' = Vectors /\ MemNeeded' = MemNeeded /\ Pinned' = Pinned
BY DEF Worksize, Vectors, MemNeeded, Pinned, InitCores, InfoCores

(* The two buffers of a device take turns. *)
LEMMA Places ==
  ASSUME Types, Tasks
  PROVE  /\ HashInto \in {"a", "b"} /\ TransferFrom \in {"a", "b"} /\ HashInto # TransferFrom
         /\ HashInto \in Buffers /\ TransferFrom \in Buffers
<1>1. th.buffer_id \in {0, 1} /\ (th.first_run => th.buffer_id = 0) /\ th.first_run \in BOOLEAN
  BY DEF Types, Thread, Tasks
<1>2. Call = "hash" <=> th.first_run
  BY DEF Call
<1> QED BY <1>1, <1>2 DEF HashInto, TransferFrom, Buffers

LEMMA SameCall ==
  ASSUME th'.first_run = th.first_run, th'.task = th.task, th'.buffer_id = th.buffer_id
  PROVE  /\ Call' = Call /\ HashInto' = HashInto /\ TransferFrom' = TransferFrom
         /\ MapCommand' = MapCommand /\ UnmapCommand' = UnmapCommand
         /\ \A s : KernelCommand(s)' = KernelCommand(s)
         /\ \A v : ReadCommand(v)' = ReadCommand(v)
<1>1. Call' = Call
  BY DEF Call
<1>2. HashInto' = HashInto /\ TransferFrom' = TransferFrom
  BY <1>1 DEF HashInto, TransferFrom
<1> QED BY <1>1, <1>2 DEF MapCommand, UnmapCommand, KernelCommand, ReadCommand

LEMMA Commands ==
  ASSUME Types, Tasks
  PROVE  /\ MapCommand \in Command /\ UnmapCommand \in Command
         /\ \A s \in Nat : KernelCommand(s) \in Command
         /\ \A v \in Nat : ReadCommand(v) \in Command
BY Places DEF MapCommand, UnmapCommand, KernelCommand, ReadCommand, Command, Types, Thread

-----------------------------------------------------------------------------
(* Steps of the thread that leave the queues alone.                        *)

LEMMA InitQ == Init => QIInv
<1> SUFFICES ASSUME Init PROVE QIInv
  OBVIOUS
<1>1. /\ card \in Cards /\ needed = 0 /\ allocated = [gpu |-> 0, host |-> 0]
      /\ queue["a"] = <<>> /\ queue["b"] = <<>> /\ mapped = {}
      /\ queue \in [{"a", "b"} -> Seq(Command)]
  BY DEF Init
<1>2. /\ th \in Thread /\ th.pc = "info" /\ th.first_run /\ th.buffer_id = 0
      /\ th.last_task.id = 0 /\ th.tasks = 0 /\ th.launch = 0 /\ th.unpacked = {}
  BY DEF Init, Thread, Idle, Before, InCall, NoTask, Task
<1>3. Blank \in Content
  BY DEF Blank, Content
<1>4. memory \in [Buffers -> [Vectors -> Content]] /\ cache \in [1 .. MaxTasks -> Seq(Content)]
  BY <1>3 DEF Init, Buffers
<1>5. Types
  BY <1>1, <1>2, <1>4 DEF Types
<1>6. Reserved
  BY <1>1, <1>2 DEF Reserved, Before
<1>7. Tasks
  BY <1>2, GpuDeviceAssumption DEF Tasks, Before, InCall
<1>8. QueueA /\ LaunchCount
  <2>1. Kernels = 0
    BY <1>1, <1>2 DEF Kernels, Unmapping
  <2> QED BY <1>1, <1>2, <2>1, GpuDeviceAssumption
          DEF QueueA, LaunchCount, Unmapping, Idle, Before, InCall
<1>9. QueueB
  BY <1>1, <1>2, CardTypes DEF QueueB
<1> QED BY <1>5, <1>6, <1>7, <1>8, <1>9 DEF QIInv

(* Whatever step leaves queue a, the task and what is mapped as they are. *)
LEMMA QueueAStays ==
  ASSUME QueueA, queue'["a"] = queue["a"], mapped' = mapped,
         th'.first_run = th.first_run, th'.task = th.task, th'.buffer_id = th.buffer_id,
         th'.launch = th.launch, Unmapping' = Unmapping
  PROVE  /\ Kernels' = Kernels /\ LaunchesRun' = LaunchesRun
         /\ QueueA'
<1>1. Kernels' = Kernels
  BY DEF Kernels
<1>2. LaunchesRun' = LaunchesRun
  BY <1>1 DEF LaunchesRun
<1>3. UnmapCommand' = UnmapCommand /\ (\A s : KernelCommand(s)' = KernelCommand(s))
  BY SameCall
<1>5. QueueA'
  <2>1. \A i \in 1 .. Kernels : (queue["a"][i] = KernelCommand(LaunchesRun + i - 1))'
    BY <1>1, <1>2, <1>3 DEF QueueA
  <2> QED BY <1>1, <1>2, <1>3, <2>1 DEF QueueA
<1> QED BY <1>1, <1>2, <1>5

(* Within a call, what was set aside stays. *)
LEMMA ReservedStays ==
  ASSUME Reserved, cardVars' = cardVars, th.pc \notin Before, th'.pc \notin Before
  PROVE  Reserved'
<1>1. card' = card /\ needed' = needed /\ allocated' = allocated
  BY DEF cardVars
<1> QED BY <1>1, SameCard DEF Reserved, Before

LEMMA LoopEndsQ ==
  ASSUME QIInv, LoopEnds
  PROVE  QIInv'
<1>1. /\ th.pc = "launch" /\ th.launch = Launches /\ th \in Thread
      /\ cardVars' = cardVars /\ card' = card /\ queue' = queue
      /\ mapped' = mapped /\ memory' = memory /\ cache' = cache
      /\ th' = [th EXCEPT !.pc = IF Call = "hash" THEN "finish_a" ELSE "finish_b"]
  BY GpuDeviceAssumption
     DEF LoopEnds, cardVars, MoreLaunches, QIInv, Types, Thread, LaunchCount
<1>2. Call = "hash" <=> th.first_run
  BY DEF Call
<1>3. /\ th' \in Thread
      /\ th'.pc = IF th.first_run THEN "finish_a" ELSE "finish_b"
      /\ th'.first_run = th.first_run /\ th'.task = th.task /\ th'.buffer_id = th.buffer_id
      /\ th'.launch = th.launch /\ th'.last_task = th.last_task /\ th'.tasks = th.tasks
      /\ th'.unpacked = th.unpacked
  BY <1>1, <1>2 DEF Thread, Idle, Before, InCall
<1>4. Types'
  BY <1>1, <1>3, SameCard DEF QIInv, Types
<1>5. Reserved'
  BY <1>1, <1>3, ReservedStays DEF QIInv, Before
<1>6. Tasks'
  BY <1>1, <1>3, SameCard DEF QIInv, Tasks, Before, InCall
<1>7. Unmapping' = Unmapping
  BY <1>1, <1>3 DEF QIInv, QueueB, Unmapping
<1>8. QueueA' /\ Kernels' = Kernels
  BY <1>1, <1>3, <1>7, QueueAStays DEF QIInv
<1>9. LaunchCount'
  BY <1>1, <1>3, <1>8 DEF QIInv, LaunchCount, Idle, Before, InCall
<1>10. QueueB'
  BY <1>1, <1>3, SameCall, SameCard DEF QIInv, QueueB
<1> QED BY <1>4, <1>5, <1>6, <1>8, <1>9, <1>10 DEF QIInv

LEMMA EmptyQueueA ==
  ASSUME queue'["a"] = <<>>, ~Unmapping', th'.launch \in Nat
  PROVE  QueueA' /\ Kernels' = 0
<1>1. Kernels' = 0
  BY DEF Kernels
<1> QED BY <1>1 DEF QueueA

(* Between two calls nothing is queued, and nothing mapped but the host     *)
(* buffer, which NVIDIA's cards use as buffer a.                            *)
OnlyPinned == IF card.zcb THEN mapped = {} ELSE card.nvidia \/ mapped \subseteq {"host"}

LEMMA Quiet ==
  ASSUME QIInv, th.pc \in Idle \cup {"report"}
  PROVE  queue["a"] = <<>> /\ queue["b"] = <<>> /\ OnlyPinned
<1>1. queue["b"] = <<>> /\ OnlyPinned
  BY CardTypes DEF QIInv, QueueB, Idle, Before, Types, OnlyPinned
<1>2. Kernels = 0 /\ ~Unmapping
  BY <1>1 DEF QIInv, LaunchCount, Unmapping, OnlyPinned
<1>3. queue["a"] \in Seq(Command) /\ Len(queue["a"]) = 0
  BY <1>2 DEF Kernels, QIInv, Types
<1> QED BY <1>1, <1>3

LEMMA InfoQ ==
  ASSUME QIInv, gpu_get_info
  PROVE  QIInv'
<1>1. /\ th.pc = "info" /\ card' = card /\ allocated' = allocated /\ queue' = queue
      /\ memory' = memory /\ mapped' = mapped /\ cache' = cache
      /\ \/ /\ th' = [th EXCEPT !.pc = "init"] /\ MemNeeded <= card.memory
            /\ needed' = IF card.zcb THEN MemNeeded ELSE MemNeeded \div 2
         \/ th' = [th EXCEPT !.pc = "exit"] /\ needed' = needed
  BY DEF gpu_get_info
<1>2. /\ th' \in Thread /\ th'.pc \in {"init", "exit"} /\ th'.first_run = th.first_run
      /\ th'.buffer_id = th.buffer_id /\ th'.task = th.task /\ th'.last_task = th.last_task
      /\ th'.launch = th.launch /\ th'.tasks = th.tasks
      /\ th'.pc = "init" => /\ MemNeeded <= card.memory
                            /\ needed' = (IF card.zcb THEN MemNeeded ELSE MemNeeded \div 2)
      /\ th'.pc = "exit" => needed' = needed
  BY <1>1 DEF QIInv, Types, Thread, Idle, Before
<1>3. queue["a"] = <<>> /\ queue["b"] = <<>> /\ OnlyPinned
  BY <1>1, Quiet DEF Idle, Before
<1>4. Types'
  BY <1>1, <1>2, SameCard DEF QIInv, Types
<1>5. Reserved'
  BY <1>1, <1>2, SameCard DEF QIInv, Reserved, Before
<1>6. Tasks'
  BY <1>1, <1>2, SameCard DEF QIInv, Tasks, Before, InCall
<1>7. QueueA' /\ Kernels' = 0
  BY <1>1, <1>2, <1>3, EmptyQueueA DEF Unmapping, OnlyPinned, Thread
<1>8. LaunchCount'
  BY <1>1, <1>2, <1>7 DEF QIInv, LaunchCount, Idle, Before, InCall
<1>9. QueueB'
  BY <1>1, <1>2, <1>3, CardTypes DEF QIInv, Types, QueueB, OnlyPinned
<1> QED BY <1>4, <1>5, <1>6, <1>7, <1>8, <1>9 DEF QIInv

LEMMA InitGpuQ ==
  ASSUME QIInv, gpu_init
  PROVE  QIInv'
<1>1. /\ th.pc = "init" /\ card' = card /\ needed' = needed /\ queue' = queue
      /\ mapped' = (IF card.zcb THEN {} ELSE {IF card.nvidia THEN "a" ELSE "host"})
      /\ cache' = cache
      /\ memory' = [b \in Buffers |-> [v \in Vectors |-> Blank]]
      /\ th' = [th EXCEPT !.pc = "recv"]
      /\ allocated' = [gpu |-> IF card.zcb THEN 0 ELSE 2 * Worksize,
                       host |-> IF card.zcb THEN 2 * Worksize ELSE Worksize]
  BY DEF gpu_init, Buffers
<1>2. /\ th' \in Thread /\ th'.pc = "recv" /\ th'.first_run = th.first_run
      /\ th'.buffer_id = th.buffer_id /\ th'.task = th.task /\ th'.last_task = th.last_task
      /\ th'.launch = th.launch /\ th'.tasks = th.tasks
  BY <1>1 DEF QIInv, Types, Thread, Idle
<1>3. queue["a"] = <<>> /\ queue["b"] = <<>> /\ OnlyPinned
  BY <1>1, Quiet DEF Idle, Before
<1>4. Types'
  <2>1. Blank \in Content
    BY DEF Blank, Content
  <2>2. mapped' \in SUBSET Buffers
    BY <1>1 DEF Buffers
  <2>3. memory' \in [Buffers -> [Vectors -> Content]]
    BY <1>1, <2>1
  <2> QED BY <1>1, <1>2, <2>2, <2>3, SameCard DEF QIInv, Types
<1>5. Reserved'
  BY <1>1, <1>2, SameCard DEF QIInv, Reserved, Before
<1>6. Tasks'
  BY <1>1, <1>2, SameCard DEF QIInv, Tasks, Before, InCall
<1>7. QueueA' /\ Kernels' = 0
  BY <1>1, <1>2, <1>3, EmptyQueueA DEF Unmapping, OnlyPinned, Thread
<1>8. LaunchCount'
  BY <1>1, <1>2, <1>7 DEF QIInv, LaunchCount, Idle, Before, InCall
<1>9. QueueB'
  BY <1>1, <1>2, <1>3, CardTypes DEF QIInv, Types, QueueB, OnlyPinned
<1> QED BY <1>4, <1>5, <1>6, <1>7, <1>8, <1>9 DEF QIInv

LEMMA TerminateQ ==
  ASSUME QIInv, Terminate
  PROVE  QIInv'
<1>1. /\ th.pc = "recv" /\ th.first_run /\ card' = card /\ cardVars' = cardVars
      /\ queue' = queue /\ mapped' = mapped /\ cache' = cache /\ memory' = memory
      /\ th' = [th EXCEPT !.pc = "end"]
  BY DEF Terminate, cardVars
<1>2. /\ th' \in Thread /\ th'.pc = "end" /\ th'.first_run = th.first_run
      /\ th'.buffer_id = th.buffer_id /\ th'.task = th.task /\ th'.last_task = th.last_task
      /\ th'.launch = th.launch /\ th'.tasks = th.tasks
  BY <1>1 DEF QIInv, Types, Thread, Idle
<1>3. queue["a"] = <<>> /\ queue["b"] = <<>> /\ OnlyPinned
  BY <1>1, Quiet DEF Idle, Before
<1>4. Types'
  BY <1>1, <1>2, SameCard DEF QIInv, Types
<1>5. Reserved'
  BY <1>1, <1>2, ReservedStays DEF QIInv, Before
<1>6. Tasks'
  BY <1>1, <1>2, SameCard DEF QIInv, Tasks, Before, InCall
<1>7. QueueA' /\ Kernels' = 0
  BY <1>1, <1>2, <1>3, EmptyQueueA DEF Unmapping, OnlyPinned, Thread
<1>8. LaunchCount'
  BY <1>1, <1>2, <1>7 DEF QIInv, LaunchCount, Idle, Before, InCall
<1>9. QueueB'
  BY <1>1, <1>2, <1>3, CardTypes DEF QIInv, Types, QueueB, OnlyPinned
<1> QED BY <1>4, <1>5, <1>6, <1>7, <1>8, <1>9 DEF QIInv

LEMMA SameQ ==
  ASSUME QIInv, UNCHANGED vars
  PROVE  QIInv'
<1>1. /\ card' = card /\ needed' = needed /\ allocated' = allocated /\ th' = th
      /\ queue' = queue /\ mapped' = mapped /\ cache' = cache /\ memory' = memory
  BY DEF vars, cardVars
<1>2. Types' /\ Reserved' /\ Tasks'
  BY <1>1, SameCard DEF QIInv, Types, Reserved, Tasks
<1>3. Unmapping' = Unmapping
  BY <1>1 DEF Unmapping
<1>4. QueueA' /\ Kernels' = Kernels
  BY <1>1, <1>3, QueueAStays DEF QIInv
<1>5. LaunchCount'
  BY <1>1, <1>4 DEF QIInv, LaunchCount
<1>6. QueueB'
  BY <1>1, SameCall, SameCard DEF QIInv, QueueB
<1> QED BY <1>2, <1>4, <1>5, <1>6 DEF QIInv

LEMMA ReceiveQ ==
  ASSUME QIInv, Receive
  PROVE  QIInv'
<1>1. /\ th.pc = "recv" /\ card' = card /\ needed' = needed /\ allocated' = allocated
      /\ queue' = queue /\ mapped' = mapped /\ cache' = cache /\ memory' = memory
      /\ reported' = reported /\ cardVars' = cardVars
  BY DEF Receive, cardVars
<1>2. PICK n \in 0 .. Worksize :
        /\ n > 0 => th.tasks < MaxTasks
        /\ th' = IF n = 0 /\ th.first_run THEN th
                 ELSE [th EXCEPT !.pc = IF th.first_run THEN "launch" ELSE "fetch",
                                 !.task = [id |-> IF n = 0 THEN 0 ELSE th.tasks + 1, n |-> n],
                                 !.tasks = IF n = 0 THEN th.tasks ELSE th.tasks + 1]
  BY DEF Receive
<1>3. CASE n = 0 /\ th.first_run
  BY <1>1, <1>2, <1>3, SameQ DEF vars, cardVars
<1>4. CASE ~(n = 0 /\ th.first_run)
  <2> DEFINE k == [id |-> IF n = 0 THEN 0 ELSE th.tasks + 1, n |-> n]
  <2>1. th \in Thread /\ Worksize \in Nat /\ n \in Nat /\ n <= Worksize /\ th.tasks \in Nat
    BY <1>2, CardTypes DEF QIInv, Types, Thread
  <2>2. k \in Task /\ k.n = n /\ k.id = IF n = 0 THEN 0 ELSE th.tasks + 1
    BY <2>1 DEF Task
  <2> DEFINE p == IF th.first_run THEN "launch" ELSE "fetch"
             c == IF n = 0 THEN th.tasks ELSE th.tasks + 1
  <2>3. th' = [th EXCEPT !.pc = p, !.task = k, !.tasks = c]
    BY <1>2, <1>4
  <2>p. p \in InCall /\ c \in Nat
    BY <2>1 DEF InCall
  <2> HIDE DEF k, p, c
  <2>4. /\ th' \in Thread /\ th'.pc = (IF th.first_run THEN "launch" ELSE "fetch")
        /\ th'.first_run = th.first_run /\ th'.buffer_id = th.buffer_id
        /\ th'.task = k /\ th'.last_task = th.last_task /\ th'.launch = th.launch
        /\ th'.tasks = (IF n = 0 THEN th.tasks ELSE th.tasks + 1)
    <3>1. /\ th' \in Thread /\ th'.pc = p /\ th'.tasks = c
          /\ th'.first_run = th.first_run /\ th'.buffer_id = th.buffer_id
          /\ th'.task = k /\ th'.last_task = th.last_task /\ th'.launch = th.launch
      BY <2>1, <2>2, <2>3, <2>p DEF Thread
    <3> QED BY <3>1 DEF p, c
  <2>5. queue["a"] = <<>> /\ queue["b"] = <<>> /\ OnlyPinned
    BY <1>1, Quiet DEF Idle, Before
  <2>6. Types'
    BY <1>1, <2>4, SameCard DEF QIInv, Types
  <2>7. Reserved'
    BY <1>1, <2>4, ReservedStays DEF QIInv, Before
  <2>8. Tasks'
    BY <1>1, <1>2, <1>4, <2>1, <2>2, <2>4, SameCard, GpuDeviceAssumption
       DEF QIInv, Tasks, Before, InCall
  <2>9. QueueA' /\ Kernels' = 0
    BY <1>1, <2>4, <2>5, EmptyQueueA DEF Unmapping, OnlyPinned, Thread
  <2>10. LaunchCount'
    BY <1>1, <2>4, <2>9 DEF QIInv, LaunchCount, Idle, Before, InCall
  <2>11. QueueB'
    BY <1>1, <2>4, <2>5, CardTypes DEF QIInv, Types, QueueB, OnlyPinned
  <2> QED BY <2>6, <2>7, <2>8, <2>9, <2>10, <2>11 DEF QIInv
<1> QED BY <1>3, <1>4

LEMMA MapReturnsQ ==
  ASSUME QIInv, MapReturns
  PROVE  QIInv'
<1>1. /\ th.pc = "map" /\ queue["b"] = <<>> /\ card' = card /\ cardVars' = cardVars
      /\ queue' = queue /\ mapped' = mapped /\ cache' = cache /\ memory' = memory
      /\ th' = [th EXCEPT !.pc = IF Call = "both" THEN "launch" ELSE "unpack"]
  BY DEF MapReturns, cardVars
<1>2. ~th.first_run /\ (Call = "both" <=> th.task.n # 0) /\ th.task.n \in Nat
  BY <1>1 DEF QIInv, Tasks, Call, Types, Thread, Task
<1>3. /\ th' \in Thread /\ th'.pc = (IF th.task.n # 0 THEN "launch" ELSE "unpack")
      /\ th'.first_run = th.first_run
      /\ th'.buffer_id = th.buffer_id /\ th'.task = th.task /\ th'.last_task = th.last_task
      /\ th'.launch = th.launch /\ th'.tasks = th.tasks /\ th'.unpacked = th.unpacked
  BY <1>1, <1>2 DEF QIInv, Types, Thread, InCall
<1>4. Types'
  BY <1>1, <1>3, SameCard DEF QIInv, Types
<1>5. Reserved'
  BY <1>1, <1>3, ReservedStays DEF QIInv, Before
<1>6. Tasks'
  BY <1>1, <1>2, <1>3, SameCard DEF QIInv, Tasks, Before, InCall
<1>7. QueueA' /\ Kernels' = Kernels
  BY <1>1, <1>3, QueueAStays DEF Unmapping, QIInv
<1>8. LaunchCount'
  BY <1>1, <1>2, <1>3, <1>7 DEF QIInv, LaunchCount, Idle, Before, InCall
<1>9. QueueB'
  <2>1. card.zcb /\ mapped = {TransferFrom}
    BY <1>1 DEF QIInv, QueueB
  <2> QED BY <1>1, <1>2, <1>3, <2>1, SameCall DEF QueueB
<1> QED BY <1>4, <1>5, <1>6, <1>7, <1>8, <1>9 DEF QIInv

LEMMA FinishBQ ==
  ASSUME QIInv, FinishB
  PROVE  QIInv'
<1>1. /\ th.pc = "finish_b" /\ queue["b"] = <<>> /\ card' = card /\ cardVars' = cardVars
      /\ queue' = queue /\ mapped' = mapped /\ cache' = cache /\ memory' = memory
      /\ th' = [th EXCEPT !.pc = "unpack"]
  BY DEF FinishB, cardVars
<1>2. ~th.first_run
  BY <1>1 DEF QIInv, Tasks
<1>3. /\ th' \in Thread /\ th'.pc = "unpack" /\ th'.first_run = th.first_run
      /\ th'.buffer_id = th.buffer_id /\ th'.task = th.task /\ th'.last_task = th.last_task
      /\ th'.launch = th.launch /\ th'.tasks = th.tasks /\ th'.unpacked = th.unpacked
  BY <1>1, <1>2 DEF QIInv, Types, Thread, InCall
<1>4. Types'
  BY <1>1, <1>3, SameCard DEF QIInv, Types
<1>5. Reserved'
  BY <1>1, <1>3, ReservedStays DEF QIInv, Before
<1>6. Tasks'
  BY <1>1, <1>2, <1>3, SameCard DEF QIInv, Tasks, Before, InCall
<1>7. QueueA' /\ Kernels' = Kernels
  BY <1>1, <1>3, QueueAStays DEF Unmapping, QIInv
<1>8. LaunchCount'
  BY <1>1, <1>3, <1>7 DEF QIInv, LaunchCount, Idle, Before, InCall
<1>9. QueueB'
  BY <1>1, <1>2, <1>3, SameCall DEF QIInv, QueueB
<1> QED BY <1>4, <1>5, <1>6, <1>7, <1>8, <1>9 DEF QIInv

LEMMA UnpackQ ==
  ASSUME QIInv, unpack_shuffle_scatter
  PROVE  QIInv'
<1> DEFINE src == IF card.zcb THEN TransferFrom ELSE Pinned
           t == th.last_task.id
<1>1. /\ th.pc = "unpack" /\ card' = card /\ cardVars' = cardVars
      /\ queue' = queue /\ mapped' = mapped /\ memory' = memory
  BY DEF unpack_shuffle_scatter, cardVars
<1>2. PICK v \in (1 .. th.last_task.n) \ th.unpacked :
        /\ th' = [th EXCEPT !.unpacked = th.unpacked \cup {v}]
        /\ cache' = [cache EXCEPT ![t] = Append(cache[t], memory[src][v])]
  BY DEF unpack_shuffle_scatter
<1>3. ~th.first_run /\ t \in 1 .. MaxTasks /\ th.last_task.n \in 1 .. Worksize
  BY <1>1 DEF QIInv, Tasks
<1>4. v \in Vectors /\ v \in Nat
  BY <1>3, CardTypes DEF QIInv, Types
<1>5. /\ th' \in Thread /\ th'.pc = "unpack" /\ th'.first_run = th.first_run
      /\ th'.buffer_id = th.buffer_id /\ th'.task = th.task /\ th'.last_task = th.last_task
      /\ th'.launch = th.launch /\ th'.tasks = th.tasks
  BY <1>1, <1>2, <1>4 DEF QIInv, Types, Thread
<1>6. Types'
  <2>1. src \in Buffers
    BY Places DEF QIInv, Pinned, Buffers
  <2> HIDE DEF src, t
  <2>2. memory[src][v] \in Content /\ cache[t] \in Seq(Content)
    BY <1>3, <1>4, <2>1 DEF QIInv, Types
  <2> DEFINE s == Append(cache[t], memory[src][v])
  <2>s. s \in Seq(Content) /\ cache' = [cache EXCEPT ![t] = s]
    BY <1>2, <2>2
  <2> HIDE DEF s
  <2>3. cache' \in [1 .. MaxTasks -> Seq(Content)]
    BY <2>s DEF QIInv, Types
  <2> QED BY <1>1, <1>5, <2>3, SameCard DEF QIInv, Types
<1>7. Reserved'
  BY <1>1, <1>5, ReservedStays DEF QIInv, Before
<1>8. Tasks'
  BY <1>1, <1>5, SameCard DEF QIInv, Tasks, Before, InCall
<1>9. QueueA' /\ Kernels' = Kernels
  BY <1>1, <1>5, QueueAStays DEF Unmapping, QIInv
<1>10. LaunchCount'
  BY <1>1, <1>5, <1>9 DEF QIInv, LaunchCount, Idle, Before, InCall
<1>11. QueueB'
  BY <1>1, <1>5, SameCall DEF QIInv, QueueB
<1> QED BY <1>6, <1>7, <1>8, <1>9, <1>10, <1>11 DEF QIInv

LEMMA FinishAQ ==
  ASSUME QIInv, FinishA
  PROVE  QIInv'
<1>1. /\ th.pc = "finish_a" /\ queue["a"] = <<>> /\ card' = card /\ cardVars' = cardVars
      /\ queue' = queue /\ mapped' = mapped /\ cache' = cache /\ memory' = memory
      /\ th' = [th EXCEPT !.pc = "report"]
  BY DEF FinishA, cardVars
<1>2. card.zcb => mapped = {}
  BY <1>1 DEF QIInv, QueueA, Kernels, Unmapping
<1>3. /\ th' \in Thread /\ th'.pc = "report" /\ th'.first_run = th.first_run
      /\ th'.buffer_id = th.buffer_id /\ th'.task = th.task /\ th'.last_task = th.last_task
      /\ th'.launch = th.launch /\ th'.tasks = th.tasks
  BY <1>1, <1>2 DEF QIInv, Types, Thread, InCall
<1>4. Types'
  BY <1>1, <1>3, SameCard DEF QIInv, Types
<1>5. Reserved'
  BY <1>1, <1>3, ReservedStays DEF QIInv, Before
<1>6. Tasks'
  BY <1>1, <1>2, <1>3, SameCard DEF QIInv, Tasks, Before, InCall
<1>7. QueueA' /\ Kernels' = 0
  BY <1>1, <1>3, EmptyQueueA DEF Unmapping, OnlyPinned, Thread
<1>8. LaunchCount'
  BY <1>1, <1>3, <1>7 DEF QIInv, LaunchCount, Idle, Before, InCall
<1>9. QueueB'
  BY <1>1, <1>2, <1>3, SameCall DEF QIInv, QueueB
<1> QED BY <1>4, <1>5, <1>6, <1>7, <1>8, <1>9 DEF QIInv

(* What the next call finds. *)
LEMMA ReturnFields ==
  ASSUME QIInv, Return
  PROVE  /\ th.pc = "report" /\ th' \in Thread /\ th'.pc = "recv" /\ th'.launch = 0
         /\ th'.unpacked = {} /\ th'.task = th.task /\ th'.tasks = th.tasks
         /\ (th'.first_run <=> ~th.first_run /\ th.task.n = 0)
         /\ th'.buffer_id = IF th'.first_run THEN 0 ELSE 1 - th.buffer_id
         /\ th'.last_task = IF th'.first_run THEN th.last_task ELSE th.task
         /\ reported' = IF th.first_run THEN reported ELSE Append(reported, th.last_task.id)
         /\ UNCHANGED <<card, needed, allocated, queue, memory, mapped, cache, cardVars>>
<1>1. /\ Call = "hash" <=> th.first_run
      /\ Call = "transfer" <=> ~th.first_run /\ th.task.n = 0
  BY DEF Call
<1> DEFINE f == Call = "transfer"
           b == IF f THEN 0 ELSE 1 - th.buffer_id
           l == IF f THEN th.last_task ELSE th.task
<1>2. f \in BOOLEAN /\ b \in {0, 1} /\ l \in Task /\ th \in Thread /\ "recv" \in Idle
  BY DEF QIInv, Types, Thread, Idle
<1>3. th' = [th EXCEPT !.pc = "recv", !.launch = 0, !.unpacked = {}, !.first_run = f,
                       !.buffer_id = b, !.last_task = l]
  BY DEF Return
<1> HIDE DEF f, b, l
<1>4. /\ th' \in Thread /\ th'.pc = "recv" /\ th'.launch = 0
      /\ th'.unpacked = {} /\ th'.task = th.task /\ th'.tasks = th.tasks
      /\ th'.first_run = f /\ th'.buffer_id = b /\ th'.last_task = l
  BY <1>2, <1>3 DEF Thread
<1>5. f = (~th.first_run /\ th.task.n = 0)
  BY <1>1 DEF f
<1> QED BY <1>1, <1>4, <1>5 DEF Return, cardVars, f, b, l

LEMMA ReturnQ ==
  ASSUME QIInv, Return
  PROVE  QIInv'
<1>1. /\ th.pc = "report" /\ th' \in Thread /\ th'.pc = "recv" /\ th'.launch = 0
      /\ th'.unpacked = {} /\ th'.task = th.task /\ th'.tasks = th.tasks
      /\ (th'.first_run <=> ~th.first_run /\ th.task.n = 0)
      /\ th'.buffer_id = (IF th'.first_run THEN 0 ELSE 1 - th.buffer_id)
      /\ th'.last_task = (IF th'.first_run THEN th.last_task ELSE th.task)
      /\ UNCHANGED <<card, needed, allocated, queue, memory, mapped, cache, cardVars>>
  BY ReturnFields
<1>2. queue["a"] = <<>> /\ queue["b"] = <<>> /\ OnlyPinned
  BY <1>1, Quiet
<1>4. Types'
  BY <1>1, SameCard DEF QIInv, Types
<1>5. Reserved'
  BY <1>1, ReservedStays DEF QIInv, Before
<1>6. Tasks'
  <2>1. th.task.n \in Nat /\ th.last_task.id \in Nat /\ th.task.id \in Nat
    BY DEF QIInv, Types, Thread, Task
  <2>2. /\ th.last_task.id \in 0 .. MaxTasks /\ Worksize' = Worksize
        /\ th.first_run => th.task.n > 0 /\ th.buffer_id = 0
        /\ th.task.n > 0 => th.task.id = th.tasks /\ th.tasks = th.last_task.id + 1
                             /\ th.tasks <= MaxTasks /\ th.task.n <= Worksize
        /\ th.task.n = 0 => th.tasks = th.last_task.id
    BY <1>1, SameCard DEF QIInv, Tasks, InCall
  <2>3. CASE th'.first_run
    <3>1. /\ th'.buffer_id = 0 /\ th'.last_task = th.last_task /\ th'.tasks = th.last_task.id
      BY <1>1, <2>2, <2>3
    <3> QED BY <1>1, <2>2, <2>3, <3>1 DEF Tasks, Before, InCall
  <2>4. CASE ~th'.first_run
    <3>1. th.task.n > 0 /\ th'.last_task = th.task
      BY <1>1, <2>1, <2>2, <2>4
    <3>2. /\ th'.last_task.id \in 1 .. MaxTasks /\ th'.last_task.n \in 1 .. Worksize
          /\ th'.tasks = th'.last_task.id
      <4>1. Worksize \in Nat /\ MaxTasks \in Nat
        BY CardTypes, GpuDeviceAssumption DEF QIInv, Types
      <4> DEFINE i == th.task.id
                 n == th.task.n
                 k == th.tasks
                 l == th.last_task.id
      <4>2. /\ i = k /\ k = l + 1 /\ k <= MaxTasks /\ n <= Worksize /\ n > 0 /\ l \in 0 .. MaxTasks
            /\ n \in Nat
        BY <2>1, <2>2, <3>1
      <4>3. th'.last_task.id = i /\ th'.last_task.n = n /\ th'.tasks = k
        BY <1>1, <3>1
      <4> HIDE DEF i, n, k, l
      <4>4. i \in 1 .. MaxTasks /\ n \in 1 .. Worksize
        BY <4>1, <4>2
      <4> QED BY <4>2, <4>3, <4>4
    <3> QED BY <1>1, <2>2, <2>4, <3>2 DEF Tasks, Before, InCall
  <2> QED BY <2>3, <2>4
<1>7. QueueA' /\ Kernels' = 0
  BY <1>1, <1>2, EmptyQueueA DEF Unmapping, OnlyPinned
<1>8. LaunchCount'
  BY <1>1, <1>7, GpuDeviceAssumption DEF LaunchCount, Idle, Before, InCall
<1>9. QueueB'
  BY <1>1, <1>2, CardTypes DEF QIInv, Types, QueueB, OnlyPinned
<1> QED BY <1>4, <1>5, <1>6, <1>7, <1>8, <1>9 DEF QIInv

-----------------------------------------------------------------------------
(* Steps of the thread that enqueue.                                       *)

LEMMA MapQ ==
  ASSUME QIInv, mem_map_gpu_to_host
  PROVE  QIInv'
<1>1. /\ th.pc = "fetch" /\ card.zcb /\ card' = card /\ cardVars' = cardVars
      /\ mapped' = mapped /\ memory' = memory /\ cache' = cache
      /\ th' = [th EXCEPT !.pc = "map"]
      /\ queue' = [queue EXCEPT !["b"] = Append(queue["b"], MapCommand)]
  BY DEF mem_map_gpu_to_host, cardVars, MapCommand
<1>2. queue["b"] = <<>> /\ mapped = {} /\ ~th.first_run
  BY <1>1 DEF QIInv, QueueB, Tasks
<1>3. /\ th' \in Thread /\ th'.pc = "map" /\ th'.first_run = th.first_run
      /\ th'.buffer_id = th.buffer_id /\ th'.task = th.task /\ th'.last_task = th.last_task
      /\ th'.launch = th.launch /\ th'.tasks = th.tasks
  BY <1>1 DEF QIInv, Types, Thread, InCall
<1>4. queue' \in [{"a", "b"} -> Seq(Command)] /\ queue'["a"] = queue["a"]
      /\ queue'["b"] = <<MapCommand>>
  <2>1. MapCommand \in Command /\ queue \in [{"a", "b"} -> Seq(Command)]
    BY Commands DEF QIInv, Types
  <2> DEFINE c == MapCommand
  <2> HIDE DEF c
  <2>2. Append(queue["b"], c) = <<c>> /\ <<c>> \in Seq(Command)
    BY <1>2, <2>1 DEF c
  <2> QED BY <1>1, <2>1, <2>2 DEF c
<1>5. Types'
  BY <1>1, <1>3, <1>4, SameCard DEF QIInv, Types
<1>6. Reserved'
  BY <1>1, <1>3, ReservedStays DEF QIInv, Before
<1>7. Tasks'
  BY <1>1, <1>2, <1>3, SameCard DEF QIInv, Tasks, Before, InCall
<1>8. QueueA' /\ Kernels' = Kernels
  BY <1>1, <1>3, <1>4, QueueAStays DEF Unmapping, QIInv
<1>9. LaunchCount'
  BY <1>1, <1>3, <1>8 DEF QIInv, LaunchCount, Idle, Before, InCall
<1>10. QueueB'
  BY <1>1, <1>2, <1>3, <1>4, SameCall DEF QueueB
<1> QED BY <1>5, <1>6, <1>7, <1>8, <1>9, <1>10 DEF QIInv

LEMMA TransferFields ==
  ASSUME QIInv, mem_transfer_gpu_to_host
  PROVE  /\ th.pc = "fetch" /\ ~card.zcb /\ card' = card /\ cardVars' = cardVars
         /\ mapped' = mapped /\ memory' = memory /\ cache' = cache /\ reported' = reported
         /\ ~th.first_run /\ queue'["a"] = queue["a"] /\ queue'["b"] = <<ReadCommand(1)>>
         /\ queue' \in [{"a", "b"} -> Seq(Command)] /\ 1 \in Vectors
         /\ th' \in Thread /\ th'.pc = IF th.task.n # 0 THEN "launch" ELSE "finish_b"
         /\ th'.first_run = th.first_run
         /\ th'.buffer_id = th.buffer_id /\ th'.task = th.task /\ th'.last_task = th.last_task
         /\ th'.launch = th.launch /\ th'.tasks = th.tasks /\ th'.unpacked = th.unpacked
<1>1. /\ th.pc = "fetch" /\ ~card.zcb /\ card' = card /\ cardVars' = cardVars
      /\ mapped' = mapped /\ memory' = memory /\ cache' = cache /\ reported' = reported
      /\ th' = [th EXCEPT !.pc = IF Call = "both" THEN "launch" ELSE "finish_b"]
      /\ queue' = [queue EXCEPT !["b"] = Append(queue["b"], ReadCommand(1))]
  BY DEF mem_transfer_gpu_to_host, cardVars, ReadCommand
<1>2. queue["b"] = <<>> /\ ~th.first_run /\ th.last_task.n \in 1 .. Worksize
  BY <1>1 DEF QIInv, QueueB, Tasks
<1>3. Call = "both" <=> th.task.n # 0
  BY <1>2 DEF Call
<1>4. /\ th' \in Thread /\ th'.pc = (IF th.task.n # 0 THEN "launch" ELSE "finish_b")
      /\ th'.first_run = th.first_run
      /\ th'.buffer_id = th.buffer_id /\ th'.task = th.task /\ th'.last_task = th.last_task
      /\ th'.launch = th.launch /\ th'.tasks = th.tasks /\ th'.unpacked = th.unpacked
  BY <1>1, <1>3 DEF QIInv, Types, Thread, InCall
<1>5. queue' \in [{"a", "b"} -> Seq(Command)] /\ queue'["a"] = queue["a"]
      /\ queue'["b"] = <<ReadCommand(1)>>
  <2>1. ReadCommand(1) \in Command /\ queue \in [{"a", "b"} -> Seq(Command)]
    BY Commands DEF QIInv, Types
  <2> DEFINE c == ReadCommand(1)
  <2> HIDE DEF c
  <2>2. Append(queue["b"], c) = <<c>> /\ <<c>> \in Seq(Command)
    BY <1>2, <2>1 DEF c
  <2> QED BY <1>1, <2>1, <2>2 DEF c
<1>6. 1 \in Vectors
  BY <1>2, CardTypes DEF QIInv, Types
<1> QED BY <1>1, <1>2, <1>4, <1>5, <1>6

LEMMA TransferQ ==
  ASSUME QIInv, mem_transfer_gpu_to_host
  PROVE  QIInv'
<1>1. /\ th.pc = "fetch" /\ ~card.zcb /\ card' = card /\ cardVars' = cardVars
      /\ mapped' = mapped /\ memory' = memory /\ cache' = cache
      /\ ~th.first_run /\ queue'["a"] = queue["a"] /\ queue'["b"] = <<ReadCommand(1)>>
      /\ queue' \in [{"a", "b"} -> Seq(Command)] /\ 1 \in Vectors
  BY TransferFields
<1>2. /\ th' \in Thread /\ th'.pc = (IF th.task.n # 0 THEN "launch" ELSE "finish_b")
      /\ th'.first_run = th.first_run
      /\ th'.buffer_id = th.buffer_id /\ th'.task = th.task /\ th'.last_task = th.last_task
      /\ th'.launch = th.launch /\ th'.tasks = th.tasks
  BY TransferFields
<1>3. th.task.n \in Nat
  BY DEF QIInv, Types, Thread, Task
<1>5. Types'
  BY <1>1, <1>2, SameCard DEF QIInv, Types
<1>6. Reserved'
  BY <1>1, <1>2, ReservedStays DEF QIInv, Before
<1>7. Tasks'
  BY <1>1, <1>2, <1>3, SameCard DEF QIInv, Tasks, Before, InCall
<1>8. QueueA' /\ Kernels' = Kernels
  BY <1>1, <1>2, QueueAStays DEF Unmapping, QIInv
<1>9. LaunchCount'
  BY <1>1, <1>2, <1>3, <1>8 DEF QIInv, LaunchCount, Idle, Before, InCall
<1>10. QueueB'
  <2>1. card.nvidia \/ mapped \subseteq {"host"}
    BY <1>1 DEF QIInv, QueueB
  <2>2. ReadCommand(1)' = ReadCommand(1) /\ Vectors' = Vectors
    BY <1>1, <1>2, SameCall, SameCard
  <2> QED BY <1>1, <1>2, <2>1, <2>2 DEF QueueB
<1> QED BY <1>5, <1>6, <1>7, <1>8, <1>9, <1>10 DEF QIInv

LEMMA EnqueueFields ==
  ASSUME QIInv, EnqueueKernel
  PROVE  /\ th.pc = "launch" /\ th.launch < Launches /\ card' = card /\ cardVars' = cardVars
         /\ mapped' = mapped /\ memory' = memory /\ cache' = cache /\ reported' = reported
         /\ th' \in Thread /\ th'.pc = "launch" /\ th'.launch = th.launch + 1
         /\ th'.first_run = th.first_run
         /\ th'.buffer_id = th.buffer_id /\ th'.task = th.task /\ th'.last_task = th.last_task
         /\ th'.tasks = th.tasks /\ th'.unpacked = th.unpacked
         /\ queue' \in [{"a", "b"} -> Seq(Command)] /\ queue'["b"] = queue["b"]
         /\ QueueA' /\ Kernels' = Kernels + 1 /\ LaunchesRun' = LaunchesRun /\ ~Unmapping'
<1>1. /\ th.pc = "launch" /\ th.launch < Launches /\ card' = card /\ cardVars' = cardVars
      /\ mapped' = mapped /\ memory' = memory /\ cache' = cache /\ reported' = reported
      /\ th' = [th EXCEPT !.launch = th.launch + 1]
      /\ queue' = [queue EXCEPT !["a"] = Append(queue["a"], KernelCommand(th.launch))]
  BY DEF EnqueueKernel, cardVars, KernelCommand, MoreLaunches
<1>2. /\ th' \in Thread /\ th'.pc = "launch" /\ th'.launch = th.launch + 1
      /\ th'.first_run = th.first_run
      /\ th'.buffer_id = th.buffer_id /\ th'.task = th.task /\ th'.last_task = th.last_task
      /\ th'.tasks = th.tasks /\ th'.unpacked = th.unpacked
  <2> DEFINE l == th.launch + 1
  <2>1. th \in Thread /\ l \in Nat /\ th' = [th EXCEPT !.launch = l]
    BY <1>1 DEF QIInv, Types, Thread
  <2> HIDE DEF l
  <2>2. /\ th' \in Thread /\ th'.pc = th.pc /\ th'.launch = l
        /\ th'.first_run = th.first_run
        /\ th'.buffer_id = th.buffer_id /\ th'.task = th.task /\ th'.last_task = th.last_task
        /\ th'.tasks = th.tasks /\ th'.unpacked = th.unpacked
    BY <2>1 DEF Thread
  <2> QED BY <1>1, <2>2 DEF l
<1>3. th.launch \in Nat /\ KernelCommand(th.launch) \in Command
      /\ queue \in [{"a", "b"} -> Seq(Command)]
  BY Commands DEF QIInv, Types, Thread
<1>4. ~Unmapping /\ ~Unmapping' /\ Kernels = Len(queue["a"])
  BY <1>1, <1>2 DEF Unmapping, Kernels, QIInv, Types
<1> DEFINE c == KernelCommand(th.launch)
           q == queue["a"]
<1>5. q \in Seq(Command) /\ c \in Command
  BY <1>3
<1>6. queue' = [queue EXCEPT !["a"] = Append(q, c)]
  BY <1>1
<1> HIDE DEF c, q
<1>7. /\ Append(q, c) \in Seq(Command) /\ Len(Append(q, c)) = Len(q) + 1
      /\ \A i \in 1 .. Len(q) : Append(q, c)[i] = q[i]
      /\ Append(q, c)[Len(q) + 1] = c
  BY <1>5
<1>8. /\ queue' \in [{"a", "b"} -> Seq(Command)] /\ queue'["b"] = queue["b"]
      /\ queue'["a"] = Append(q, c)
  BY <1>3, <1>6, <1>7
<1> DEFINE n == Len(q)
<1>9. n = Kernels /\ n \in Nat /\ n <= th.launch /\ Kernels' = n + 1
      /\ LaunchesRun = th.launch - n /\ LaunchesRun' = LaunchesRun
  <2>1. n \in Nat /\ n = Kernels
    BY <1>4, <1>5 DEF q
  <2>2. Len(queue'["a"]) = n + 1
    BY <1>7, <1>8
  <2>3. Kernels' = n + 1
    BY <1>4, <2>2 DEF Kernels
  <2> HIDE DEF n
  <2>4. n <= th.launch
    BY <1>3, <2>1 DEF QIInv, QueueA
  <2>5. LaunchesRun' = LaunchesRun
    BY <1>2, <1>3, <2>1, <2>3 DEF LaunchesRun
  <2> QED BY <2>1, <2>3, <2>4, <2>5 DEF LaunchesRun
<1>10. QueueA'
  <2>1. \A s : KernelCommand(s)' = KernelCommand(s)
    BY <1>2, SameCall
  <2>2. \A i \in 1 .. n + 1 : queue'["a"][i] = KernelCommand(LaunchesRun + i - 1)
    <3>1. SUFFICES ASSUME NEW i \in 1 .. n + 1
                   PROVE  Append(q, c)[i] = KernelCommand(LaunchesRun + i - 1)
      BY <1>8
    <3>2. CASE i \in 1 .. n
      BY <1>7, <1>9, <3>2 DEF QIInv, QueueA, q
    <3>3. CASE i = n + 1
      <4>1. LaunchesRun + i - 1 = th.launch
        <5> DEFINE x == LaunchesRun
                   y == th.launch
        <5>1. n \in Nat /\ y \in Nat /\ x = y - n
          BY <1>3, <1>9
        <5> HIDE DEF n, x, y
        <5>2. x + i - 1 = y
          BY <5>1, <3>3
        <5> QED BY <5>2 DEF x, y
      <4> QED BY <1>7, <3>3, <4>1 DEF c
    <3> QED BY <1>9, <3>2, <3>3
  <2>3. Kernels' \in 0 .. th'.launch
    BY <1>2, <1>3, <1>9
  <2>4. \A i \in 1 .. n + 1 : (queue["a"][i] = KernelCommand(LaunchesRun + i - 1))'
    BY <1>9, <2>1, <2>2
  <2> HIDE DEF n
  <2> QED BY <1>4, <1>9, <2>3, <2>4 DEF QueueA
<1> QED BY <1>1, <1>2, <1>4, <1>8, <1>9, <1>10

LEMMA EnqueueQ ==
  ASSUME QIInv, EnqueueKernel
  PROVE  QIInv'
<1>1. /\ th.pc = "launch" /\ th.launch < Launches /\ card' = card /\ cardVars' = cardVars
      /\ mapped' = mapped /\ memory' = memory /\ cache' = cache
      /\ th' \in Thread /\ th'.pc = "launch" /\ th'.launch = th.launch + 1
      /\ th'.first_run = th.first_run
      /\ th'.buffer_id = th.buffer_id /\ th'.task = th.task /\ th'.last_task = th.last_task
      /\ th'.tasks = th.tasks
      /\ queue' \in [{"a", "b"} -> Seq(Command)] /\ queue'["b"] = queue["b"] /\ QueueA'
  BY EnqueueFields
<1>2. Types'
  BY <1>1, SameCard DEF QIInv, Types
<1>3. Reserved'
  BY <1>1, ReservedStays DEF QIInv, Before
<1>4. Tasks'
  BY <1>1, SameCard DEF QIInv, Tasks, Before, InCall
<1>5. LaunchCount'
  <2>1. th.task.n > 0 /\ th.launch \in Nat /\ Launches \in Nat
    BY <1>1, GpuDeviceAssumption DEF QIInv, Tasks, Types, Thread
  <2> QED BY <1>1, <2>1 DEF LaunchCount, Idle, Before, InCall
<1>6. QueueB'
  BY <1>1, SameCall, SameCard DEF QIInv, QueueB
<1> QED BY <1>1, <1>2, <1>3, <1>4, <1>5, <1>6 DEF QIInv

LEMMA UnpackReturnsFields ==
  ASSUME QIInv, UnpackReturns
  PROVE  /\ th.pc = "unpack" /\ th.unpacked = 1 .. th.last_task.n
         /\ card' = card /\ cardVars' = cardVars /\ ~th.first_run
         /\ mapped' = mapped /\ memory' = memory /\ cache' = cache /\ reported' = reported
         /\ th' \in Thread
         /\ th'.pc = IF card.zcb \/ th.task.n # 0 THEN "finish_a" ELSE "report"
         /\ th'.first_run = th.first_run /\ th'.launch = th.launch
         /\ th'.buffer_id = th.buffer_id /\ th'.task = th.task /\ th'.last_task = th.last_task
         /\ th'.tasks = th.tasks /\ th'.unpacked = th.unpacked
         /\ queue'["b"] = queue["b"] /\ queue["b"] = <<>>
         /\ queue' \in [{"a", "b"} -> Seq(Command)]
         /\ QueueA' /\ Kernels' = Kernels /\ LaunchesRun' = LaunchesRun
<1>1. /\ th.pc = "unpack" /\ th.unpacked = 1 .. th.last_task.n
      /\ card' = card /\ cardVars' = cardVars
      /\ mapped' = mapped /\ memory' = memory /\ cache' = cache /\ reported' = reported
      /\ th' = [th EXCEPT !.pc = IF card.zcb \/ Call = "both" THEN "finish_a" ELSE "report"]
      /\ queue' = IF ~card.zcb THEN queue
                  ELSE [queue EXCEPT !["a"] = Append(queue["a"], UnmapCommand)]
  BY DEF UnpackReturns, cardVars, UnmapCommand
<1>2. /\ ~th.first_run /\ queue["b"] = <<>> /\ card.zcb \in BOOLEAN
      /\ card.zcb => mapped # {}
      /\ ~card.zcb => card.nvidia \/ mapped \subseteq {"host"}
  BY <1>1, CardTypes DEF QIInv, Tasks, QueueB, Types
<1>3. Call = "both" <=> th.task.n # 0
  BY <1>2 DEF Call
<1>4. /\ th' \in Thread
      /\ th'.pc = (IF card.zcb \/ th.task.n # 0 THEN "finish_a" ELSE "report")
      /\ th'.first_run = th.first_run /\ th'.launch = th.launch
      /\ th'.buffer_id = th.buffer_id /\ th'.task = th.task /\ th'.last_task = th.last_task
      /\ th'.tasks = th.tasks /\ th'.unpacked = th.unpacked
  BY <1>1, <1>3 DEF QIInv, Types, Thread, InCall
<1>5. /\ ~Unmapping /\ (Unmapping' <=> card.zcb)
  BY <1>1, <1>2, <1>4 DEF Unmapping
<1>6. CASE ~card.zcb
  <2>1. queue' = queue /\ Unmapping' = Unmapping
    BY <1>1, <1>5, <1>6 DEF Unmapping
  <2>2. QueueA' /\ Kernels' = Kernels /\ LaunchesRun' = LaunchesRun
    BY <1>1, <1>4, <2>1, QueueAStays DEF QIInv
  <2> QED BY <1>1, <1>2, <1>4, <2>1, <2>2 DEF QIInv, Types
<1>7. CASE card.zcb
  <2> DEFINE c == UnmapCommand
             q == queue["a"]
  <2>1. c \in Command /\ q \in Seq(Command) /\ queue \in [{"a", "b"} -> Seq(Command)]
        /\ queue' = [queue EXCEPT !["a"] = Append(q, c)]
    BY <1>1, <1>7, Commands DEF QIInv, Types
  <2>2. Kernels = Len(q)
    BY <1>5, <2>1 DEF Kernels
  <2> HIDE DEF c, q
  <2>3. /\ Append(q, c) \in Seq(Command) /\ Len(Append(q, c)) = Len(q) + 1 /\ Len(q) \in Nat
        /\ \A i \in 1 .. Len(q) : Append(q, c)[i] = q[i]
        /\ Append(q, c)[Len(q) + 1] = c
    BY <2>1
  <2>4. /\ queue' \in [{"a", "b"} -> Seq(Command)] /\ queue'["b"] = queue["b"]
        /\ queue'["a"] = Append(q, c)
    BY <2>1, <2>3
  <2>5. Kernels' = Kernels
    BY <1>5, <1>7, <2>2, <2>3, <2>4 DEF Kernels
  <2>6. LaunchesRun' = LaunchesRun
    BY <1>4, <2>5 DEF LaunchesRun
  <2>7. UnmapCommand' = UnmapCommand /\ \A s : KernelCommand(s)' = KernelCommand(s)
    BY <1>4, SameCall
  <2>8. \A i \in 1 .. Kernels : (queue["a"][i] = KernelCommand(LaunchesRun + i - 1))'
    <3>1. \A i \in 1 .. Kernels : queue'["a"][i] = queue["a"][i]
      BY <2>2, <2>3, <2>4 DEF q
    <3> QED BY <2>6, <2>7, <3>1 DEF QIInv, QueueA
  <2>9. queue'["a"][Kernels' + 1] = UnmapCommand'
    BY <2>2, <2>3, <2>4, <2>5, <2>7 DEF c
  <2>10. QueueA'
    BY <1>4, <2>5, <2>6, <2>8, <2>9 DEF QIInv, QueueA
  <2> QED BY <1>1, <1>2, <1>4, <2>4, <2>5, <2>6, <2>10
<1> QED BY <1>2, <1>6, <1>7

LEMMA UnpackReturnsQ ==
  ASSUME QIInv, UnpackReturns
  PROVE  QIInv'
<1>1. /\ th.pc = "unpack" /\ card' = card /\ cardVars' = cardVars /\ ~th.first_run
      /\ mapped' = mapped /\ memory' = memory /\ cache' = cache
      /\ th' \in Thread
      /\ th'.pc = (IF card.zcb \/ th.task.n # 0 THEN "finish_a" ELSE "report")
      /\ th'.first_run = th.first_run /\ th'.launch = th.launch
      /\ th'.buffer_id = th.buffer_id /\ th'.task = th.task /\ th'.last_task = th.last_task
      /\ th'.tasks = th.tasks
      /\ queue'["b"] = <<>>
      /\ queue' \in [{"a", "b"} -> Seq(Command)]
      /\ QueueA' /\ Kernels' = Kernels
  BY UnpackReturnsFields
<1>2. Types'
  BY <1>1, SameCard DEF QIInv, Types
<1>3. Reserved'
  BY <1>1, ReservedStays DEF QIInv, Before
<1>4. Tasks'
  BY <1>1, SameCard DEF QIInv, Tasks, Before, InCall
<1>5. LaunchCount'
  <2>1. th.task.n = 0 => th.launch = 0 /\ Kernels = 0
    BY <1>1 DEF QIInv, LaunchCount, InCall, QueueA
  <2> QED BY <1>1, <2>1 DEF QIInv, LaunchCount, Idle, Before, InCall
<1>6. QueueB'
  <2>1. /\ card.zcb \in BOOLEAN /\ TransferFrom' = TransferFrom
        /\ card.zcb => mapped = {TransferFrom}
        /\ ~card.zcb => card.nvidia \/ mapped \subseteq {"host"}
    BY <1>1, SameCall, CardTypes DEF QIInv, QueueB, Types
  <2> QED BY <1>1, <2>1 DEF QueueB
<1> QED BY <1>1, <1>2, <1>3, <1>4, <1>5, <1>6 DEF QIInv

-----------------------------------------------------------------------------
(* Steps of the device.                                                    *)

(* Queue a is worked off from its front: a launch ... *)
LEMMA KernelFields ==
  ASSUME QIInv, RunKernel
  PROVE  /\ card' = card /\ cardVars' = cardVars /\ th' = th /\ mapped' = mapped
         /\ cache' = cache /\ reported' = reported
         /\ memory' = [memory EXCEPT ![HashInto] =
                         AfterLaunch(KernelCommand(LaunchesRun), memory[HashInto])]
         /\ queue' \in [{"a", "b"} -> Seq(Command)] /\ queue'["b"] = queue["b"]
         /\ QueueA' /\ Kernels \in Nat /\ Kernels > 0 /\ Kernels' = Kernels - 1
         /\ LaunchesRun \in Nat /\ LaunchesRun' = LaunchesRun + 1
<1> DEFINE q == queue["a"]
           n == Kernels
           u == IF Unmapping THEN 1 ELSE 0
           r == LaunchesRun
           l == th.launch
<1>1. /\ q # <<>> /\ Head(q).op = "kernel"
      /\ memory' = [memory EXCEPT ![Head(q).buffer] = AfterLaunch(Head(q), memory[Head(q).buffer])]
      /\ queue' = [queue EXCEPT !["a"] = Tail(q)]
      /\ card' = card /\ cardVars' = cardVars /\ th' = th /\ mapped' = mapped
      /\ cache' = cache /\ reported' = reported
  BY DEF RunKernel, cardVars
<1>2. queue \in [{"a", "b"} -> Seq(Command)] /\ q \in Seq(Command) /\ l \in Nat
  BY DEF QIInv, Types, Thread
<1>3. /\ Unmapping' = Unmapping /\ UnmapCommand' = UnmapCommand
      /\ \A s : KernelCommand(s)' = KernelCommand(s)
  BY <1>1, SameCall DEF Unmapping
<1>4. u \in {0, 1} /\ n = Len(q) - u /\ n \in 0 .. l /\ r = l - n
      /\ (u = 1 <=> Unmapping)
  <2>1. u \in {0, 1} /\ (u = 1 <=> Unmapping)
    OBVIOUS
  <2>2. n = Len(q) - u
    BY DEF Kernels
  <2>3. n \in 0 .. l
    BY DEF QIInv, QueueA
  <2> QED BY <2>1, <2>2, <2>3 DEF LaunchesRun
<1>5. /\ \A i \in 1 .. n : q[i] = KernelCommand(r + i - 1)
      /\ Unmapping => q[n + 1] = UnmapCommand
  BY DEF QIInv, QueueA
<1> HIDE DEF q, n, u, r, l
<1>6. /\ Len(q) \in Nat /\ Len(q) > 0 /\ Head(q) = q[1] /\ Tail(q) \in Seq(Command)
      /\ Len(Tail(q)) = Len(q) - 1
      /\ \A i \in 1 .. Len(q) - 1 : Tail(q)[i] = q[i + 1]
  BY <1>1, <1>2
<1>7. n > 0
  <2>1. SUFFICES ASSUME n = 0 PROVE FALSE
    BY <1>2, <1>4
  <2>2. u = 1
    BY <1>4, <1>6, <2>1
  <2>3. n + 1 = 1
    BY <2>1
  <2>4. q[1] = UnmapCommand
    BY <1>4, <1>5, <2>2, <2>3
  <2> QED BY <1>1, <1>6, <2>4 DEF UnmapCommand
<1>8. Head(q) = KernelCommand(r)
  <2>1. 1 \in 1 .. n /\ r + 1 - 1 = r
    BY <1>2, <1>4, <1>7
  <2> QED BY <1>5, <1>6, <2>1
<1>9. queue' \in [{"a", "b"} -> Seq(Command)] /\ queue'["b"] = queue["b"]
      /\ queue'["a"] = Tail(q)
  BY <1>1, <1>2, <1>6
<1>10. Kernels' = n - 1
  <2>1. Kernels' = Len(queue'["a"]) - u
    BY <1>3 DEF Kernels, u
  <2> QED BY <1>4, <1>6, <1>9, <2>1
<1>11. LaunchesRun' = r + 1 /\ r \in Nat
  <2>1. LaunchesRun' = l - Kernels'
    BY <1>1 DEF LaunchesRun, l
  <2> QED BY <1>2, <1>4, <1>10, <2>1
<1>12. QueueA'
  <2>1. ASSUME NEW i \in 1 .. n - 1
        PROVE  queue'["a"][i] = KernelCommand(LaunchesRun' + i - 1)
    <3>1. i \in 1 .. Len(q) - 1 /\ i + 1 \in 1 .. n /\ r + (i + 1) - 1 = (r + 1) + i - 1
      BY <1>2, <1>4, <1>6
    <3>2. Tail(q)[i] = q[i + 1] /\ q[i + 1] = KernelCommand(r + (i + 1) - 1)
      BY <1>5, <1>6, <3>1
    <3> QED BY <1>9, <1>11, <3>1, <3>2
  <2>2. \A i \in 1 .. n - 1 : (queue["a"][i] = KernelCommand(LaunchesRun + i - 1))'
    BY <1>3, <2>1
  <2>3. Unmapping' => queue'["a"][Kernels' + 1] = UnmapCommand'
    <3>1. SUFFICES ASSUME Unmapping PROVE Tail(q)[n] = UnmapCommand
      <4>1. Kernels' + 1 = n
        BY <1>2, <1>4, <1>10
      <4> QED BY <1>3, <1>9, <4>1
    <3>2. n \in 1 .. Len(q) - 1
      BY <1>2, <1>4, <1>6, <1>7, <3>1
    <3> QED BY <1>5, <1>6, <3>1, <3>2
  <2>4. Kernels' \in 0 .. th'.launch
    BY <1>1, <1>2, <1>4, <1>7, <1>10 DEF l
  <2> QED BY <1>10, <2>2, <2>3, <2>4 DEF QueueA
<1>13. KernelCommand(r).buffer = HashInto
  BY DEF KernelCommand
<1>14. n \in Nat
  BY <1>2, <1>4
<1> QED BY <1>1, <1>7, <1>8, <1>9, <1>10, <1>11, <1>12, <1>13, <1>14 DEF n, r

(* ... or, behind all of them, the unmap. *)
LEMMA UnmapFields ==
  ASSUME QIInv, RunUnmap
  PROVE  /\ card' = card /\ cardVars' = cardVars /\ th' = th /\ memory' = memory
         /\ cache' = cache /\ reported' = reported
         /\ Unmapping /\ ~Unmapping' /\ mapped' = {}
         /\ queue' \in [{"a", "b"} -> Seq(Command)] /\ queue'["b"] = queue["b"]
         /\ QueueA' /\ Kernels = 0 /\ Kernels' = 0
<1> DEFINE q == queue["a"]
           n == Kernels
           u == IF Unmapping THEN 1 ELSE 0
           l == th.launch
<1>1. /\ q # <<>> /\ Head(q).op = "unmap"
      /\ mapped' = mapped \ {Head(q).buffer}
      /\ queue' = [queue EXCEPT !["a"] = Tail(q)]
      /\ card' = card /\ cardVars' = cardVars /\ th' = th /\ memory' = memory
      /\ cache' = cache /\ reported' = reported
  BY DEF RunUnmap, cardVars
<1>2. queue \in [{"a", "b"} -> Seq(Command)] /\ q \in Seq(Command) /\ l \in Nat
  BY DEF QIInv, Types, Thread
<1>4. u \in {0, 1} /\ n = Len(q) - u /\ n \in 0 .. l /\ (u = 1 <=> Unmapping)
  <2>1. u \in {0, 1} /\ (u = 1 <=> Unmapping)
    OBVIOUS
  <2>2. n = Len(q) - u
    BY DEF Kernels
  <2>3. n \in 0 .. l
    BY DEF QIInv, QueueA
  <2> QED BY <2>1, <2>2, <2>3
<1>5. /\ n > 0 => \E s : q[1] = KernelCommand(s)
      /\ Unmapping => q[n + 1] = UnmapCommand
  <2>1. n > 0 => 1 \in 1 .. n
    BY <1>2, <1>4
  <2> QED BY <2>1 DEF QIInv, QueueA
<1> HIDE DEF q, n, u, l
<1>6. /\ Len(q) \in Nat /\ Len(q) > 0 /\ Head(q) = q[1] /\ Tail(q) \in Seq(Command)
      /\ Len(Tail(q)) = Len(q) - 1
  BY <1>1, <1>2
<1>7. n = 0 /\ u = 1
  <2>1. n > 0 => FALSE
    <3>1. SUFFICES ASSUME n > 0 PROVE FALSE
      OBVIOUS
    <3>2. PICK s : q[1] = KernelCommand(s)
      BY <1>5, <3>1
    <3>3. KernelCommand(s).op = "kernel"
      BY DEF KernelCommand
    <3> QED BY <1>1, <1>6, <3>2, <3>3
  <2> QED BY <1>2, <1>4, <1>6, <2>1
<1>8. Unmapping /\ Head(q) = UnmapCommand /\ Len(Tail(q)) = 0
  <2>1. n + 1 = 1 /\ Len(q) = 1
    BY <1>4, <1>6, <1>7
  <2> QED BY <1>4, <1>5, <1>6, <1>7, <2>1
<1>9. mapped' = {}
  <2>1. mapped = {TransferFrom}
    BY <1>8 DEF Unmapping, QIInv, QueueB
  <2> QED BY <1>1, <1>8, <2>1 DEF UnmapCommand
<1>10. queue' \in [{"a", "b"} -> Seq(Command)] /\ queue'["b"] = queue["b"]
       /\ queue'["a"] = <<>>
  BY <1>1, <1>2, <1>6, <1>8
<1>11. ~Unmapping'
  BY <1>9 DEF Unmapping
<1>12. QueueA' /\ Kernels' = 0
  BY <1>1, <1>2, <1>10, <1>11, EmptyQueueA DEF l
<1> QED BY <1>1, <1>7, <1>8, <1>9, <1>10, <1>11, <1>12 DEF n

LEMMA LaunchContent ==
  ASSUME QIInv, RunKernel
  PROVE  memory' \in [Buffers -> [Vectors -> Content]]
<1> DEFINE c == KernelCommand(LaunchesRun)
           was == memory[HashInto]
           new == AfterLaunch(c, was)
<1>1. /\ memory' = [memory EXCEPT ![HashInto] = new] /\ LaunchesRun \in Nat
  BY KernelFields
<1>2. /\ memory \in [Buffers -> [Vectors -> Content]] /\ HashInto \in Buffers
      /\ was \in [Vectors -> Content] /\ th.task \in Task
  BY Places DEF QIInv, Types, Thread
<1>3. c.task.id \in Nat /\ c.start \in Nat
  BY <1>1, <1>2 DEF KernelCommand, Task
<1>4. \A w \in Content : Launched(c, w) \in Content
  BY <1>3 DEF Launched, Content
<1> HIDE DEF c, was
<1>5. new \in [Vectors -> Content]
  BY <1>2, <1>4 DEF AfterLaunch
<1> HIDE DEF new
<1> QED BY <1>1, <1>2, <1>5

LEMMA KernelQ ==
  ASSUME QIInv, RunKernel
  PROVE  QIInv'
<1>1. /\ card' = card /\ cardVars' = cardVars /\ th' = th /\ mapped' = mapped
      /\ cache' = cache
      /\ queue' \in [{"a", "b"} -> Seq(Command)] /\ queue'["b"] = queue["b"]
      /\ QueueA' /\ Kernels \in Nat /\ Kernels > 0 /\ Kernels' = Kernels - 1
  BY KernelFields
<1>2. Types'
  BY <1>1, LaunchContent, SameCard DEF QIInv, Types
<1>3. Reserved' /\ Tasks'
  <2>1. needed' = needed /\ allocated' = allocated
    BY <1>1 DEF cardVars
  <2> QED BY <1>1, <2>1, SameCard DEF QIInv, Reserved, Tasks
<1>4. LaunchCount'
  BY <1>1 DEF QIInv, LaunchCount
<1>5. QueueB'
  BY <1>1, SameCall, SameCard DEF QIInv, QueueB
<1> QED BY <1>1, <1>2, <1>3, <1>4, <1>5 DEF QIInv

LEMMA UnmapQ ==
  ASSUME QIInv, RunUnmap
  PROVE  QIInv'
<1>1. /\ card' = card /\ cardVars' = cardVars /\ th' = th /\ memory' = memory
      /\ cache' = cache /\ Unmapping /\ mapped' = {}
      /\ queue' \in [{"a", "b"} -> Seq(Command)] /\ queue'["b"] = queue["b"]
      /\ QueueA' /\ Kernels = 0 /\ Kernels' = 0
  BY UnmapFields
<1>2. th.pc = "finish_a" /\ card.zcb /\ queue["b"] = <<>>
  BY <1>1 DEF Unmapping, QIInv, QueueB
<1>3. Types'
  BY <1>1, SameCard DEF QIInv, Types
<1>4. Reserved' /\ Tasks'
  <2>1. needed' = needed /\ allocated' = allocated
    BY <1>1 DEF cardVars
  <2> QED BY <1>1, <2>1, SameCard DEF QIInv, Reserved, Tasks
<1>5. LaunchCount'
  BY <1>1 DEF QIInv, LaunchCount
<1>6. QueueB'
  BY <1>1, <1>2 DEF QueueB
<1> QED BY <1>1, <1>3, <1>4, <1>5, <1>6 DEF QIInv

(* Queue b holds at most one command: to map the buffer ... *)
LEMMA RunMapFields ==
  ASSUME QIInv, RunMap
  PROVE  /\ card' = card /\ cardVars' = cardVars /\ th' = th /\ memory' = memory
         /\ cache' = cache /\ reported' = reported
         /\ th.pc = "map" /\ card.zcb /\ mapped' = {TransferFrom}
         /\ queue' \in [{"a", "b"} -> Seq(Command)] /\ queue'["a"] = queue["a"]
         /\ queue'["b"] = <<>>
<1>1. /\ queue["b"] # <<>> /\ Head(queue["b"]).op = "map"
      /\ mapped' = mapped \cup {Head(queue["b"]).buffer}
      /\ queue' = [queue EXCEPT !["b"] = Tail(queue["b"])]
      /\ card' = card /\ cardVars' = cardVars /\ th' = th /\ memory' = memory
      /\ cache' = cache /\ reported' = reported
  BY DEF RunMap, cardVars
<1>2. \A v : ReadCommand(v).op = "read"
  BY DEF ReadCommand
<1>3. \A v : queue["b"] # <<ReadCommand(v)>>
  <2>1. SUFFICES ASSUME NEW v, queue["b"] = <<ReadCommand(v)>> PROVE FALSE
    OBVIOUS
  <2>2. Head(queue["b"]) = ReadCommand(v)
    BY <2>1
  <2> QED BY <1>1, <1>2, <2>2
<1>4. th.pc = "map" /\ card.zcb /\ mapped = {} /\ queue["b"] = <<MapCommand>>
  BY <1>1, <1>3 DEF QIInv, QueueB
<1>5. Head(queue["b"]) = MapCommand /\ Tail(queue["b"]) = <<>>
  BY <1>4
<1>6. queue \in [{"a", "b"} -> Seq(Command)] /\ <<>> \in Seq(Command)
  BY DEF QIInv, Types
<1>7. mapped' = {TransferFrom}
  BY <1>1, <1>4, <1>5 DEF MapCommand
<1> QED BY <1>1, <1>4, <1>5, <1>6, <1>7

LEMMA RunMapQ ==
  ASSUME QIInv, RunMap
  PROVE  QIInv'
<1>1. /\ card' = card /\ cardVars' = cardVars /\ th' = th /\ memory' = memory
      /\ cache' = cache
      /\ th.pc = "map" /\ card.zcb /\ mapped' = {TransferFrom}
      /\ queue' \in [{"a", "b"} -> Seq(Command)] /\ queue'["a"] = queue["a"]
      /\ queue'["b"] = <<>>
  BY RunMapFields
<1>2. TransferFrom' = TransferFrom /\ MapCommand' = MapCommand /\ UnmapCommand' = UnmapCommand
      /\ (\A s : KernelCommand(s)' = KernelCommand(s))
  BY <1>1, SameCall
<1>3. Types'
  BY <1>1, <1>2, Places, SameCard DEF QIInv, Types
<1>4. Reserved' /\ Tasks'
  <2>1. needed' = needed /\ allocated' = allocated
    BY <1>1 DEF cardVars
  <2> QED BY <1>1, <2>1, SameCard DEF QIInv, Reserved, Tasks
<1>5. ~Unmapping /\ ~Unmapping'
  BY <1>1 DEF Unmapping
<1>6. QueueA' /\ LaunchCount'
  <2>1. Kernels' = Kernels /\ LaunchesRun' = LaunchesRun
    BY <1>1, <1>5 DEF Kernels, LaunchesRun
  <2>2. \A i \in 1 .. Kernels : (queue["a"][i] = KernelCommand(LaunchesRun + i - 1))'
    BY <1>1, <1>2, <2>1 DEF QIInv, QueueA
  <2> QED BY <1>1, <1>5, <2>1, <2>2 DEF QIInv, QueueA, LaunchCount
<1>7. QueueB'
  BY <1>1, <1>2 DEF QueueB
<1> QED BY <1>3, <1>4, <1>6, <1>7 DEF QIInv

(* ... or to read one vector after the other. *)
LEMMA RunReadFields ==
  ASSUME QIInv, RunRead
  PROVE  \E v \in Vectors :
         /\ card' = card /\ cardVars' = cardVars /\ th' = th /\ mapped' = mapped
         /\ cache' = cache /\ reported' = reported
         /\ th.pc \in {"launch", "finish_b"} /\ ~card.zcb /\ ~th.first_run
         /\ (card.nvidia \/ mapped \subseteq {"host"})
         /\ queue["b"] = <<ReadCommand(v)>>
         /\ memory' = [memory EXCEPT ![Pinned] =
                         [memory[Pinned] EXCEPT ![v] = memory[TransferFrom][v]]]
         /\ queue' \in [{"a", "b"} -> Seq(Command)] /\ queue'["a"] = queue["a"]
         /\ \/ v = Worksize /\ queue'["b"] = <<>>
            \/ v + 1 \in Vectors /\ queue'["b"] = <<ReadCommand(v + 1)>>
<1>1. /\ queue["b"] # <<>> /\ Head(queue["b"]).op = "read"
      /\ card' = card /\ cardVars' = cardVars /\ th' = th /\ mapped' = mapped
      /\ cache' = cache /\ reported' = reported
  BY DEF RunRead, cardVars
<1>2. queue["b"] # <<MapCommand>>
  <2>1. SUFFICES ASSUME queue["b"] = <<MapCommand>> PROVE FALSE
    OBVIOUS
  <2>2. Head(queue["b"]) = MapCommand
    BY <2>1
  <2> QED BY <1>1, <2>2 DEF MapCommand
<1>3. /\ th.pc \in {"launch", "finish_b"} /\ ~card.zcb /\ ~th.first_run
      /\ (card.nvidia \/ mapped \subseteq {"host"})
      /\ \E v \in Vectors : queue["b"] = <<ReadCommand(v)>>
  BY <1>1, <1>2 DEF QIInv, QueueB
<1>4. PICK v \in Vectors : queue["b"] = <<ReadCommand(v)>>
  BY <1>3
<1> DEFINE c == ReadCommand(v)
<1>5. Head(queue["b"]) = c /\ Tail(queue["b"]) = <<>>
  BY <1>4
<1>6. /\ c.vector = v /\ c.buffer = TransferFrom
      /\ [c EXCEPT !.vector = c.vector + 1] = ReadCommand(v + 1)
  BY DEF ReadCommand
<1> HIDE DEF c
<1>7. /\ memory' = [memory EXCEPT ![Pinned] =
                      [memory[Pinned] EXCEPT ![v] = memory[TransferFrom][v]]]
      /\ queue' = [queue EXCEPT !["b"] =
           (IF v = Worksize THEN <<>> ELSE <<ReadCommand(v + 1)>>) \o <<>>]
  BY <1>5, <1>6 DEF RunRead
<1>8. v \in Nat /\ v \in 1 .. Worksize /\ Worksize \in Nat /\ Vectors = 1 .. Worksize
  BY CardTypes DEF QIInv, Types
<1>9. queue \in [{"a", "b"} -> Seq(Command)] /\ ReadCommand(v + 1) \in Command
  BY <1>8, Commands DEF QIInv, Types
<1>10. /\ queue' \in [{"a", "b"} -> Seq(Command)] /\ queue'["a"] = queue["a"]
       /\ \/ v = Worksize /\ queue'["b"] = <<>>
          \/ v + 1 \in Vectors /\ queue'["b"] = <<ReadCommand(v + 1)>>
  <2> DEFINE d == ReadCommand(v + 1)
  <2>1. d \in Command
    BY <1>9
  <2> HIDE DEF d
  <2>2. /\ <<>> \in Seq(Command) /\ <<>> \o <<>> = <<>>
        /\ <<d>> \in Seq(Command) /\ <<d>> \o <<>> = <<d>>
    BY <2>1
  <2>3. CASE v = Worksize
    <3>1. queue' = [queue EXCEPT !["b"] = <<>>]
      BY <1>7, <2>2, <2>3
    <3> QED BY <1>9, <2>2, <2>3, <3>1
  <2>4. CASE v # Worksize
    <3>1. queue' = [queue EXCEPT !["b"] = <<d>>]
      BY <1>7, <2>2, <2>4 DEF d
    <3>2. v + 1 \in Vectors
      BY <1>8, <2>4
    <3> QED BY <1>9, <2>2, <3>1, <3>2 DEF d
  <2> QED BY <2>3, <2>4
<1> QED BY <1>1, <1>3, <1>4, <1>7, <1>10

LEMMA RunReadQ ==
  ASSUME QIInv, RunRead
  PROVE  QIInv'
<1>1. PICK v \in Vectors :
        /\ card' = card /\ cardVars' = cardVars /\ th' = th /\ mapped' = mapped
        /\ cache' = cache
        /\ th.pc \in {"launch", "finish_b"} /\ ~card.zcb /\ ~th.first_run
        /\ (card.nvidia \/ mapped \subseteq {"host"})
        /\ memory' = [memory EXCEPT ![Pinned] =
                        [memory[Pinned] EXCEPT ![v] = memory[TransferFrom][v]]]
        /\ queue' \in [{"a", "b"} -> Seq(Command)] /\ queue'["a"] = queue["a"]
        /\ \/ queue'["b"] = <<>>
           \/ v + 1 \in Vectors /\ queue'["b"] = <<ReadCommand(v + 1)>>
  BY RunReadFields
<1>2. memory' \in [Buffers -> [Vectors -> Content]]
  <2>1. /\ memory \in [Buffers -> [Vectors -> Content]]
        /\ TransferFrom \in Buffers /\ Pinned \in Buffers
    BY Places DEF QIInv, Types, Pinned, Buffers
  <2> QED BY <1>1, <2>1
<1>3. Types'
  BY <1>1, <1>2, SameCard DEF QIInv, Types
<1>4. Reserved' /\ Tasks'
  <2>1. needed' = needed /\ allocated' = allocated
    BY <1>1 DEF cardVars
  <2> QED BY <1>1, <2>1, SameCard DEF QIInv, Reserved, Tasks
<1>5. QueueA' /\ Kernels' = Kernels
  BY <1>1, QueueAStays DEF Unmapping, QIInv
<1>6. LaunchCount'
  BY <1>1, <1>5 DEF QIInv, LaunchCount
<1>7. QueueB'
  <2>1. ReadCommand(v + 1)' = ReadCommand(v + 1) /\ Vectors' = Vectors
    <3>1. \A w : ReadCommand(w)' = ReadCommand(w)
      BY <1>1, SameCall
    <3>2. v' = v
      OBVIOUS
    <3> QED BY <1>1, <3>1, <3>2, SameCard
  <2>2. CASE queue'["b"] = <<>>
    BY <1>1, <2>2 DEF QueueB
  <2>3. CASE v + 1 \in Vectors /\ queue'["b"] = <<ReadCommand(v + 1)>>
    <3>1. \E w \in Vectors' : queue'["b"] = <<ReadCommand(w)'>>
      BY <2>1, <2>3
    <3> QED BY <1>1, <3>1 DEF QueueB
  <2> QED BY <1>1, <2>2, <2>3
<1> QED BY <1>3, <1>4, <1>5, <1>6, <1>7 DEF QIInv

-----------------------------------------------------------------------------
(* What holds whatever the driver does.                                    *)

LEMMA StepQ == QIInv /\ [Next]_vars => QIInv'
<1> SUFFICES ASSUME QIInv, [Next]_vars
             PROVE  QIInv'
  OBVIOUS
<1>1. CASE ThreadStep
  BY <1>1, InfoQ, InitGpuQ, ReceiveQ, TerminateQ, MapQ, MapReturnsQ, TransferQ, EnqueueQ,
     LoopEndsQ, FinishBQ, UnpackQ, UnpackReturnsQ, FinishAQ, ReturnQ DEF ThreadStep
<1>2. CASE DeviceStep
  BY <1>2, KernelQ, UnmapQ, RunMapQ, RunReadQ DEF DeviceStep
<1>3. CASE Ended \/ UNCHANGED vars
  BY <1>3, SameQ DEF Ended
<1> QED BY <1>1, <1>2, <1>3 DEF Next

LEMMA QueuesInvariant == Spec => []QIInv
BY InitQ, StepQ, PTL DEF Spec

(* What the plotter had the GPUs counted for is enough for what the        *)
(* scheduler allocates, for every number of cores, groups and memory.      *)
THEOREM Allocated == Spec => []MemoryReserved
<1>1. QIInv => MemoryReserved
  <2> SUFFICES ASSUME QIInv PROVE MemoryReserved
    OBVIOUS
  <2> DEFINE w == Worksize
             m == MemNeeded
  <2>1. /\ w \in Nat /\ m \in Nat /\ 2 * w <= m /\ card.memory \in Nat
        /\ card.zcb \in BOOLEAN
    BY CardTypes, CoresReserved DEF QIInv, Types
  <2>2. w <= m \div 2 /\ m \div 2 \in Nat
    <3> HIDE DEF w, m
    <3> QED BY <2>1
  <2>3. /\ th.pc \in Before => allocated = [gpu |-> 0, host |-> 0]
        /\ th.pc \notin Before =>
             /\ m <= card.memory /\ needed = IF card.zcb THEN m ELSE m \div 2
             /\ allocated = [gpu |-> IF card.zcb THEN 0 ELSE 2 * w,
                             host |-> IF card.zcb THEN 2 * w ELSE w]
        /\ th.pc \in Before => needed = 0 \/ needed = IF card.zcb THEN m ELSE m \div 2
    BY DEF QIInv, Reserved, Before
  <2> HIDE DEF w, m
  <2> QED BY <2>1, <2>2, <2>3 DEF MemoryReserved
<1> QED BY <1>1, QueuesInvariant, PTL

(* The kernel never works on a buffer that the host has mapped, NVIDIA's     *)
(* pinned one excepted: with zero copy a launch goes to the buffer that is   *)
(* not transferred, and is finished before the buffers change places;        *)
(* without, it goes to a or b and the host buffer is another one.            *)
THEOREM Undisturbed == Spec => []NeverHashesMapped
<1>1. QIInv => NeverHashesMapped
  <2> SUFFICES ASSUME QIInv, card.zcb \/ ~card.nvidia,
                      NEW i \in DOMAIN queue["a"], queue["a"][i].op = "kernel"
               PROVE  queue["a"][i].buffer \notin mapped
    BY DEF NeverHashesMapped
  <2>1. queue["a"] \in Seq(Command) /\ HashInto \notin {TransferFrom, "host"}
    BY Places DEF QIInv, Types
  <2>2. mapped \subseteq {TransferFrom, "host"}
    BY DEF QIInv, QueueB
  <2>3. i \in Nat /\ i > 0 /\ i <= Len(queue["a"]) /\ Len(queue["a"]) \in Nat
    BY <2>1
  <2>4. CASE i \in 1 .. Kernels
    <3>1. queue["a"][i] = KernelCommand(LaunchesRun + i - 1)
      BY <2>4 DEF QIInv, QueueA
    <3>2. \A s : KernelCommand(s).buffer = HashInto
      BY DEF KernelCommand
    <3> QED BY <2>1, <2>2, <3>1, <3>2
  <2>5. CASE i \notin 1 .. Kernels
    <3>1. Unmapping /\ i = Kernels + 1
      <4> DEFINE n == Len(queue["a"])
                 u == IF Unmapping THEN 1 ELSE 0
      <4>1. n \in Nat /\ i <= n /\ Kernels = n - u /\ u \in {0, 1} /\ (u = 1 <=> Unmapping)
        BY <2>3 DEF Kernels
      <4> HIDE DEF n, u
      <4>2. Kernels \in Int
        BY <4>1
      <4>3. i > Kernels
        BY <2>3, <2>5, <4>2
      <4> QED BY <2>3, <4>1, <4>3
    <3>2. queue["a"][i] = UnmapCommand
      BY <3>1 DEF QIInv, QueueA
    <3>3. UnmapCommand.op = "unmap"
      BY DEF UnmapCommand
    <3> QED BY <3>2, <3>3
  <2> QED BY <2>4, <2>5
<1> QED BY <1>1, QueuesInvariant, PTL

-----------------------------------------------------------------------------
(* What the buffers and the cache hold while the host buffer is apart.      *)
(* First the steps that move no nonces.                                    *)

LEMMA DataStays ==
  ASSUME DInv, memory' = memory, cache' = cache, reported' = reported,
         th'.first_run = th.first_run, th'.buffer_id = th.buffer_id,
         th'.last_task = th.last_task
  PROVE  Hashed' /\ Entries' /\ Reports'
<1>1. TransferFrom' = TransferFrom
  BY DEF TransferFrom
<1>2. Hashed'
  BY <1>1 DEF DInv, Hashed
<1>3. Entries'
  BY DEF DInv, Entries, AllRight
<1>4. Reports'
  BY DEF DInv, Reports
<1> QED BY <1>2, <1>3, <1>4

LEMMA HashingStays ==
  ASSUME DInv, memory' = memory, LaunchesRun' = LaunchesRun,
         th'.first_run = th.first_run, th'.buffer_id = th.buffer_id, th'.task = th.task
  PROVE  Hashing'
BY SameCall DEF DInv, Hashing

LEMMA NoLaunches ==
  ASSUME QIInv', th'.pc \in Idle \cup {"fetch", "map"}
  PROVE  Hashing'
<1>1. th'.launch = 0 /\ Kernels' = 0
  BY DEF QIInv, LaunchCount
<1>2. LaunchesRun' = 0
  BY <1>1 DEF LaunchesRun
<1> QED BY <1>2 DEF Hashing

LEMMA PcChanges ==
  ASSUME th \in Thread, NEW p, th' = [th EXCEPT !.pc = p]
  PROVE  /\ th'.pc = p /\ th'.first_run = th.first_run /\ th'.buffer_id = th.buffer_id
         /\ th'.last_task = th.last_task /\ th'.task = th.task /\ th'.tasks = th.tasks
         /\ th'.launch = th.launch /\ th'.unpacked = th.unpacked
BY DEF Thread

LEMMA InitD == Init => DInv
<1> SUFFICES ASSUME Init PROVE DInv
  OBVIOUS
<1>1. /\ th.pc = "info" /\ th.first_run /\ th.buffer_id = 0 /\ th.last_task = NoTask
      /\ th.launch = 0 /\ th.unpacked = {} /\ queue["a"] = <<>> /\ mapped = {}
      /\ cache = [t \in 1 .. MaxTasks |-> <<>>] /\ reported = <<>>
  BY DEF Init
<1>2. th.last_task.id = 0
  BY <1>1 DEF NoTask
<1>3. LaunchesRun = 0
  <2>1. Kernels = 0
    BY <1>1, InitQ DEF QIInv, LaunchCount, Idle, Before
  <2> QED BY <1>1, <2>1 DEF LaunchesRun
<1>4. Hashing /\ Hashed /\ Transferred
  BY <1>1, <1>3 DEF Hashing, Hashed, Transferred
<1>5. Entries /\ Unpacked
  BY <1>1, <1>2, GpuDeviceAssumption DEF Entries, Unpacked, AllRight
<1>6. Reports
  BY <1>1, <1>2 DEF Reports
<1> QED BY <1>4, <1>5, <1>6 DEF DInv

LEMMA InfoD ==
  ASSUME IInv, gpu_get_info, QIInv'
  PROVE  DInv'
<1>1. /\ th.pc = "info" /\ memory' = memory /\ cache' = cache /\ reported' = reported
      /\ th \in Thread
      /\ th' = [th EXCEPT !.pc = "init"] \/ th' = [th EXCEPT !.pc = "exit"]
  BY DEF gpu_get_info, IInv, QIInv, Types
<1>2. /\ th'.pc \in {"init", "exit"} /\ th'.first_run = th.first_run
      /\ th'.buffer_id = th.buffer_id /\ th'.last_task = th.last_task
      /\ th'.unpacked = th.unpacked
  BY <1>1, PcChanges
<1>3. Hashing' /\ Hashed' /\ Entries' /\ Reports'
  BY <1>1, <1>2, NoLaunches, DataStays DEF IInv, Idle, Before
<1>4. Transferred' /\ Unpacked'
  BY <1>1, <1>2 DEF IInv, DInv, QIInv, Tasks, Transferred, Unpacked, Idle, Before
<1> QED BY <1>3, <1>4 DEF DInv

LEMMA InitGpuD ==
  ASSUME IInv, gpu_init, QIInv'
  PROVE  DInv'
<1>1. /\ th.pc = "init" /\ cache' = cache /\ reported' = reported
      /\ th \in Thread /\ th' = [th EXCEPT !.pc = "recv"]
  BY DEF gpu_init, IInv, QIInv, Types
<1>2. /\ th'.pc = "recv" /\ th'.first_run = th.first_run
      /\ th'.buffer_id = th.buffer_id /\ th'.last_task = th.last_task
      /\ th'.unpacked = th.unpacked
  BY <1>1, PcChanges
<1>3. th.first_run
  BY <1>1 DEF IInv, QIInv, Tasks, Before
<1>4. Hashing'
  BY <1>2, NoLaunches DEF Idle
<1>5. Hashed' /\ Transferred'
  BY <1>2, <1>3 DEF Hashed, Transferred
<1>6. Entries' /\ Reports'
  BY <1>1, <1>2 DEF IInv, DInv, Entries, AllRight, Reports
<1>7. Unpacked'
  BY <1>1, <1>2 DEF IInv, DInv, Unpacked, Idle, Before
<1> QED BY <1>4, <1>5, <1>6, <1>7 DEF DInv

LEMMA ReceiveFields ==
  ASSUME Receive, th \in Thread
  PROVE  /\ th.pc = "recv" /\ memory' = memory /\ cache' = cache /\ reported' = reported
         /\ \/ th' = th
            \/ /\ th'.pc = IF th.first_run THEN "launch" ELSE "fetch"
               /\ th'.first_run = th.first_run /\ th'.buffer_id = th.buffer_id
               /\ th'.last_task = th.last_task /\ th'.unpacked = th.unpacked
               /\ th'.launch = th.launch
<1>1. /\ th.pc = "recv" /\ memory' = memory /\ cache' = cache /\ reported' = reported
  BY DEF Receive
<1>2. PICK n \in 0 .. Worksize :
        th' = IF n = 0 /\ th.first_run THEN th
              ELSE [th EXCEPT !.pc = IF th.first_run THEN "launch" ELSE "fetch",
                              !.task = [id |-> IF n = 0 THEN 0 ELSE th.tasks + 1, n |-> n],
                              !.tasks = IF n = 0 THEN th.tasks ELSE th.tasks + 1]
  BY DEF Receive
<1> DEFINE p == IF th.first_run THEN "launch" ELSE "fetch"
           k == [id |-> IF n = 0 THEN 0 ELSE th.tasks + 1, n |-> n]
           c == IF n = 0 THEN th.tasks ELSE th.tasks + 1
<1>3. th' = th \/ th' = [th EXCEPT !.pc = p, !.task = k, !.tasks = c]
  BY <1>2
<1> HIDE DEF p, k, c
<1>4. \/ th' = th
      \/ /\ th'.pc = p
         /\ th'.first_run = th.first_run /\ th'.buffer_id = th.buffer_id
         /\ th'.last_task = th.last_task /\ th'.unpacked = th.unpacked
         /\ th'.launch = th.launch
  BY <1>3 DEF Thread
<1> QED BY <1>1, <1>4 DEF p

LEMMA ReceiveD ==
  ASSUME IInv, Receive, QIInv'
  PROVE  DInv'
<1>1. /\ th.pc = "recv" /\ memory' = memory /\ cache' = cache /\ reported' = reported
      /\ \/ th' = th
         \/ /\ th'.pc = IF th.first_run THEN "launch" ELSE "fetch"
            /\ th'.first_run = th.first_run /\ th'.buffer_id = th.buffer_id
            /\ th'.last_task = th.last_task /\ th'.unpacked = th.unpacked
            /\ th'.launch = th.launch
  BY ReceiveFields DEF IInv, QIInv, Types
<1>3. Hashed' /\ Entries' /\ Reports'
  BY <1>1, DataStays DEF IInv
<1>4. Hashing'
  <2>1. th.launch = 0
    BY <1>1 DEF IInv, QIInv, LaunchCount, Idle
  <2>2. Kernels' \in 0 .. th'.launch /\ th'.launch = 0
    BY <1>1, <2>1 DEF QIInv, QueueA
  <2>3. LaunchesRun' = 0
    BY <2>2 DEF LaunchesRun
  <2> QED BY <2>3 DEF Hashing
<1>5. Transferred' /\ Unpacked'
  BY <1>1 DEF IInv, DInv, Transferred, Unpacked, Idle
<1> QED BY <1>3, <1>4, <1>5 DEF DInv

LEMMA TerminateD ==
  ASSUME IInv, Terminate, QIInv'
  PROVE  DInv'
<1>1. /\ th.pc = "recv" /\ memory' = memory /\ cache' = cache /\ reported' = reported
      /\ th \in Thread /\ th' = [th EXCEPT !.pc = "end"]
  BY DEF Terminate, IInv, QIInv, Types
<1>2. /\ th'.pc = "end" /\ th'.first_run = th.first_run
      /\ th'.buffer_id = th.buffer_id /\ th'.last_task = th.last_task
      /\ th'.unpacked = th.unpacked
  BY <1>1, PcChanges
<1>3. Hashing' /\ Hashed' /\ Entries' /\ Reports'
  BY <1>1, <1>2, NoLaunches, DataStays DEF IInv, Idle
<1>4. Transferred' /\ Unpacked'
  BY <1>1, <1>2 DEF IInv, DInv, Transferred, Unpacked, Idle
<1> QED BY <1>3, <1>4 DEF DInv

LEMMA MapD ==
  ASSUME IInv, mem_map_gpu_to_host, QIInv'
  PROVE  DInv'
<1>1. /\ th.pc = "fetch" /\ memory' = memory /\ cache' = cache /\ reported' = reported
      /\ th \in Thread /\ th' = [th EXCEPT !.pc = "map"]
  BY DEF mem_map_gpu_to_host, IInv, QIInv, Types
<1>2. /\ th'.pc = "map" /\ th'.first_run = th.first_run
      /\ th'.buffer_id = th.buffer_id /\ th'.last_task = th.last_task
      /\ th'.unpacked = th.unpacked
  BY <1>1, PcChanges
<1>3. Hashing' /\ Hashed' /\ Entries' /\ Reports'
  BY <1>1, <1>2, NoLaunches, DataStays DEF IInv
<1>4. Transferred' /\ Unpacked'
  BY <1>1, <1>2 DEF IInv, DInv, Transferred, Unpacked
<1> QED BY <1>3, <1>4 DEF DInv

LEMMA MapReturnsD ==
  ASSUME IInv, MapReturns, QIInv'
  PROVE  DInv'
<1>1. /\ th.pc = "map" /\ memory' = memory /\ cache' = cache /\ reported' = reported
      /\ th \in Thread /\ card.zcb /\ card' = card /\ ~th.first_run
      /\ th' = [th EXCEPT !.pc = IF Call = "both" THEN "launch" ELSE "unpack"]
  BY DEF MapReturns, cardVars, IInv, QIInv, QueueB, Types, Tasks
<1>2. /\ th'.pc \in {"launch", "unpack"} /\ th'.first_run = th.first_run
      /\ th'.buffer_id = th.buffer_id /\ th'.last_task = th.last_task
      /\ th'.unpacked = th.unpacked /\ th'.launch = th.launch
  BY <1>1, PcChanges
<1>3. Hashed' /\ Entries' /\ Reports'
  BY <1>1, <1>2, DataStays DEF IInv
<1>4. Hashing'
  <2>1. th.launch = 0
    BY <1>1 DEF IInv, QIInv, LaunchCount
  <2>2. Kernels' \in 0 .. th'.launch /\ th'.launch = 0
    BY <1>2, <2>1 DEF QIInv, QueueA
  <2>3. LaunchesRun' = 0
    BY <2>2 DEF LaunchesRun
  <2> QED BY <2>3 DEF Hashing
<1>5. Transferred' /\ Unpacked'
  BY <1>1, <1>2 DEF IInv, DInv, Transferred, Unpacked, Idle
<1> QED BY <1>3, <1>4, <1>5 DEF DInv

LEMMA TransferD ==
  ASSUME IInv, mem_transfer_gpu_to_host, QIInv'
  PROVE  DInv'
<1>1. /\ th.pc = "fetch" /\ ~card.zcb /\ card' = card
      /\ memory' = memory /\ cache' = cache /\ reported' = reported
      /\ ~th.first_run /\ queue'["b"] = <<ReadCommand(1)>>
      /\ th'.pc \in {"launch", "finish_b"}
      /\ th'.first_run = th.first_run
      /\ th'.buffer_id = th.buffer_id /\ th'.last_task = th.last_task
      /\ th'.launch = th.launch /\ th'.unpacked = th.unpacked
  BY TransferFields DEF IInv
<1>2. Hashed' /\ Entries' /\ Reports'
  BY <1>1, DataStays DEF IInv
<1>3. Hashing'
  <2>1. th.launch = 0
    BY <1>1 DEF IInv, QIInv, LaunchCount
  <2>2. Kernels' \in 0 .. th'.launch /\ th'.launch = 0
    BY <1>1, <2>1 DEF QIInv, QueueA
  <2>3. LaunchesRun' = 0
    BY <2>2 DEF LaunchesRun
  <2> QED BY <2>3 DEF Hashing
<1>4. Unpacked'
  BY <1>1 DEF IInv, DInv, Unpacked, Idle
<1>5. Transferred'
  <2>1. queue'["b"] # <<>> /\ queue'["b"][1].vector = 1
    BY <1>1 DEF ReadCommand
  <2>2. \A v \in 1 .. th'.last_task.n : ~(v < 1)
    BY <1>1 DEF IInv, QIInv, Types, Thread, Task
  <2> QED BY <2>1, <2>2 DEF Transferred
<1> QED BY <1>2, <1>3, <1>4, <1>5 DEF DInv

LEMMA EnqueueD ==
  ASSUME IInv, EnqueueKernel, QIInv'
  PROVE  DInv'
<1>1. /\ th.pc = "launch" /\ card' = card
      /\ memory' = memory /\ cache' = cache /\ reported' = reported
      /\ queue'["b"] = queue["b"] /\ th'.pc = "launch" /\ th'.task = th.task
      /\ th'.first_run = th.first_run
      /\ th'.buffer_id = th.buffer_id /\ th'.last_task = th.last_task
      /\ th'.unpacked = th.unpacked /\ LaunchesRun' = LaunchesRun
  BY EnqueueFields DEF IInv
<1>2. Hashed' /\ Entries' /\ Reports' /\ Hashing'
  BY <1>1, DataStays, HashingStays DEF IInv
<1>3. Transferred' /\ Unpacked'
  BY <1>1 DEF IInv, DInv, Unpacked, Transferred
<1> QED BY <1>2, <1>3 DEF DInv

LEMMA LoopEndsD ==
  ASSUME IInv, LoopEnds, QIInv'
  PROVE  DInv'
<1>1. /\ th.pc = "launch" /\ memory' = memory /\ cache' = cache /\ reported' = reported
      /\ th \in Thread /\ card' = card /\ queue' = queue /\ mapped' = mapped
      /\ th' = [th EXCEPT !.pc = IF Call = "hash" THEN "finish_a" ELSE "finish_b"]
  BY DEF LoopEnds, cardVars, IInv, QIInv, Types
<1>2. Call = "hash" <=> th.first_run
  BY DEF Call
<1>3. /\ th'.pc = (IF th.first_run THEN "finish_a" ELSE "finish_b")
      /\ th'.first_run = th.first_run /\ th'.task = th.task
      /\ th'.buffer_id = th.buffer_id /\ th'.last_task = th.last_task
      /\ th'.unpacked = th.unpacked /\ th'.launch = th.launch
  BY <1>1, <1>2, PcChanges
<1>4. Unmapping' = Unmapping
  BY <1>1, <1>3 DEF IInv, QIInv, QueueB, Unmapping
<1>5. LaunchesRun' = LaunchesRun
  BY <1>1, <1>3, <1>4, QueueAStays DEF IInv, QIInv
<1>6. Hashed' /\ Entries' /\ Reports' /\ Hashing'
  BY <1>1, <1>3, <1>5, DataStays, HashingStays DEF IInv
<1>7. Transferred' /\ Unpacked'
  BY <1>1, <1>3 DEF IInv, DInv, Unpacked, Transferred
<1> QED BY <1>6, <1>7 DEF DInv

LEMMA FinishBD ==
  ASSUME IInv, FinishB, QIInv'
  PROVE  DInv'
<1>1. /\ th.pc = "finish_b" /\ memory' = memory /\ cache' = cache /\ reported' = reported
      /\ th \in Thread /\ card' = card /\ queue' = queue /\ mapped' = mapped
      /\ th' = [th EXCEPT !.pc = "unpack"] /\ ~th.first_run
  BY DEF FinishB, cardVars, IInv, QIInv, Types, Tasks
<1>2. /\ th'.pc = "unpack"
      /\ th'.first_run = th.first_run /\ th'.task = th.task
      /\ th'.buffer_id = th.buffer_id /\ th'.last_task = th.last_task
      /\ th'.unpacked = th.unpacked /\ th'.launch = th.launch
  BY <1>1, PcChanges
<1>3. Unmapping' = Unmapping
  BY <1>1, <1>2 DEF Unmapping
<1>4. LaunchesRun' = LaunchesRun
  BY <1>1, <1>2, <1>3, QueueAStays DEF IInv, QIInv
<1>5. Hashed' /\ Entries' /\ Reports' /\ Hashing'
  BY <1>1, <1>2, <1>4, DataStays, HashingStays DEF IInv
<1>6. Transferred' /\ Unpacked'
  BY <1>1, <1>2 DEF IInv, DInv, Unpacked, Transferred
<1> QED BY <1>5, <1>6 DEF DInv

LEMMA UnpackReturnsD ==
  ASSUME IInv, UnpackReturns, QIInv'
  PROVE  DInv'
<1>1. /\ th.pc = "unpack" /\ th.unpacked = 1 .. th.last_task.n /\ ~th.first_run
      /\ memory' = memory /\ cache' = cache /\ reported' = reported
      /\ th'.pc \in {"finish_a", "report"}
      /\ th'.first_run = th.first_run /\ th'.task = th.task
      /\ th'.buffer_id = th.buffer_id /\ th'.last_task = th.last_task
      /\ LaunchesRun' = LaunchesRun
  BY UnpackReturnsFields DEF IInv
<1>2. Hashed' /\ Entries' /\ Reports' /\ Hashing'
  BY <1>1, DataStays, HashingStays DEF IInv
<1>3. 1 \in th.unpacked
  BY <1>1, CardTypes DEF IInv, QIInv, Types, Tasks
<1>4. Transferred' /\ Unpacked'
  BY <1>1, <1>3 DEF IInv, DInv, Unpacked, Transferred, Idle, Before
<1> QED BY <1>2, <1>4 DEF DInv

LEMMA FinishAD ==
  ASSUME IInv, FinishA, QIInv'
  PROVE  DInv'
<1>1. /\ th.pc = "finish_a" /\ memory' = memory /\ cache' = cache /\ reported' = reported
      /\ th \in Thread /\ queue["a"] = <<>>
      /\ th' = [th EXCEPT !.pc = "report"]
  BY DEF FinishA, IInv, QIInv, Types
<1>2. /\ th'.pc = "report"
      /\ th'.first_run = th.first_run /\ th'.task = th.task
      /\ th'.buffer_id = th.buffer_id /\ th'.last_task = th.last_task
      /\ th'.unpacked = th.unpacked /\ th'.launch = th.launch
  BY <1>1, PcChanges
<1>3. Kernels = 0 /\ Kernels' = 0
  BY <1>1, <1>2 DEF IInv, QIInv, QueueA, LaunchCount, Kernels
<1>4. LaunchesRun' = LaunchesRun
  BY <1>2, <1>3 DEF LaunchesRun
<1>5. Hashed' /\ Entries' /\ Reports' /\ Hashing'
  BY <1>1, <1>2, <1>4, DataStays, HashingStays DEF IInv
<1>6. Transferred' /\ Unpacked'
  BY <1>1, <1>2 DEF IInv, DInv, Unpacked, Transferred, Idle, Before
<1> QED BY <1>5, <1>6 DEF DInv

LEMMA UnmapD ==
  ASSUME IInv, RunUnmap, QIInv'
  PROVE  DInv'
<1>1. /\ th' = th /\ memory' = memory /\ cache' = cache /\ reported' = reported
      /\ Unmapping /\ Kernels = 0 /\ Kernels' = 0
  BY UnmapFields DEF IInv
<1>2. LaunchesRun' = LaunchesRun
  BY <1>1 DEF LaunchesRun
<1>3. Hashed' /\ Entries' /\ Reports' /\ Hashing'
  BY <1>1, <1>2, DataStays, HashingStays DEF IInv
<1>4. Transferred' /\ Unpacked'
  BY <1>1 DEF IInv, DInv, Unpacked, Transferred, Unmapping
<1> QED BY <1>3, <1>4 DEF DInv

LEMMA RunMapD ==
  ASSUME IInv, RunMap, QIInv'
  PROVE  DInv'
<1>1. /\ th' = th /\ memory' = memory /\ cache' = cache /\ reported' = reported
      /\ th.pc = "map"
  BY RunMapFields DEF IInv
<1>2. Hashed' /\ Entries' /\ Reports' /\ Hashing'
  BY <1>1, NoLaunches, DataStays DEF IInv
<1>3. Transferred' /\ Unpacked'
  BY <1>1 DEF IInv, DInv, Unpacked, Transferred
<1> QED BY <1>2, <1>3 DEF DInv

LEMMA SameD ==
  ASSUME IInv, UNCHANGED vars
  PROVE  DInv'
<1>1. /\ th' = th /\ memory' = memory /\ cache' = cache /\ reported' = reported
      /\ queue' = queue /\ card' = card /\ mapped' = mapped
  BY DEF vars, cardVars
<1>2. LaunchesRun' = LaunchesRun
  BY <1>1 DEF LaunchesRun, Kernels, Unmapping
<1>3. Hashed' /\ Entries' /\ Reports' /\ Hashing'
  BY <1>1, <1>2, DataStays, HashingStays DEF IInv
<1>4. Transferred' /\ Unpacked'
  BY <1>1 DEF IInv, DInv, Unpacked, Transferred
<1> QED BY <1>3, <1>4 DEF DInv

-----------------------------------------------------------------------------
(* The steps that move nonces: the device hashes and transfers them, the    *)
(* thread unpacks them, and at the end of the call the buffers change.      *)

LEMMA KernelD ==
  ASSUME IInv, RunKernel, QIInv', HostApart
  PROVE  DInv'
<1> DEFINE r == LaunchesRun
           c == KernelCommand(r)
           was == memory[HashInto]
<1>1. /\ th' = th /\ cache' = cache /\ reported' = reported /\ card' = card
      /\ memory' = [memory EXCEPT ![HashInto] = AfterLaunch(c, was)]
      /\ queue'["b"] = queue["b"] /\ Kernels \in Nat /\ Kernels > 0
      /\ r \in Nat /\ LaunchesRun' = r + 1
  BY KernelFields DEF IInv
<1>2. /\ HashInto' = HashInto /\ TransferFrom' = TransferFrom
      /\ HashInto # TransferFrom /\ HashInto \in {"a", "b"}
      /\ memory \in [Buffers -> [Vectors -> Content]]
  BY <1>1, Places, SameCall DEF IInv, QIInv, Types
<1>3. /\ memory'[TransferFrom] = memory[TransferFrom]
      /\ memory'["host"] = memory["host"]
      /\ memory'[HashInto] = AfterLaunch(c, was)
  BY <1>1, <1>2 DEF Buffers
<1>4. Hashed'
  BY <1>1, <1>2, <1>3 DEF IInv, DInv, Hashed
<1>5. Transferred'
  BY <1>1, <1>3 DEF IInv, DInv, Transferred
<1>6. Entries' /\ Unpacked' /\ Reports'
  BY <1>1 DEF IInv, DInv, Entries, AllRight, Unpacked, Reports
<1>7. th.pc \in InCall /\ th.task.n \in Nat /\ th.task.n <= Worksize
  <2>1. Kernels # 0 /\ th \in Thread
    BY <1>1 DEF IInv, QIInv, Types
  <2>2. th.pc \in InCall
    BY <2>1 DEF IInv, QIInv, LaunchCount, Thread
  <2> QED BY <2>1, <2>2 DEF IInv, QIInv, Tasks, Thread, Task
<1>8. c.task = th.task /\ c.start = r
  BY DEF KernelCommand
<1>9. Hashing'
  <2>1. SUFFICES ASSUME NEW v \in 1 .. th.task.n
                 PROVE  memory'[HashInto][v] = [id |-> th.task.id, launches |-> r + 1]
    BY <1>1, <1>2 DEF Hashing
  <2>2. v \in Vectors /\ v <= th.task.n
    BY <1>7, CardTypes DEF IInv, QIInv, Types
  <2>3. memory'[HashInto][v] = Launched(c, was[v])
    BY <1>3, <1>8, <2>2 DEF AfterLaunch
  <2>4. r > 0 => was[v] = [id |-> th.task.id, launches |-> r]
    BY DEF IInv, DInv, Hashing
  <2> HIDE DEF c, r, was
  <2>5. CASE r = 0
    BY <1>8, <2>3, <2>5 DEF Launched
  <2>6. CASE r > 0
    BY <1>1, <1>8, <2>3, <2>4, <2>6 DEF Launched
  <2> QED BY <1>1, <2>5, <2>6
<1> QED BY <1>4, <1>5, <1>6, <1>9 DEF DInv

LEMMA RunReadD ==
  ASSUME IInv, RunRead, QIInv', HostApart
  PROVE  DInv'
<1>1. PICK v \in Vectors :
        /\ card' = card /\ th' = th /\ mapped' = mapped
        /\ cache' = cache /\ reported' = reported
        /\ th.pc \in {"launch", "finish_b"} /\ ~card.zcb /\ ~th.first_run
        /\ queue["b"] = <<ReadCommand(v)>>
        /\ memory' = [memory EXCEPT ![Pinned] =
                        [memory[Pinned] EXCEPT ![v] = memory[TransferFrom][v]]]
        /\ queue'["a"] = queue["a"]
        /\ \/ v = Worksize /\ queue'["b"] = <<>>
           \/ v + 1 \in Vectors /\ queue'["b"] = <<ReadCommand(v + 1)>>
  BY RunReadFields DEF IInv
<1>2. /\ Pinned = "host" /\ TransferFrom \in {"a", "b"} /\ HashInto \in {"a", "b"}
      /\ memory \in [Buffers -> [Vectors -> Content]]
  <2>1. Pinned = "host"
    BY <1>1 DEF HostApart, Pinned, IInv, QIInv, Types
  <2> QED BY <2>1, Places DEF IInv, QIInv, Types
<1>3. /\ memory'["a"] = memory["a"] /\ memory'["b"] = memory["b"]
      /\ memory'["host"][v] = memory[TransferFrom][v]
      /\ \A w \in Vectors : w # v => memory'["host"][w] = memory["host"][w]
  BY <1>1, <1>2 DEF Buffers
<1>4. TransferFrom' = TransferFrom /\ HashInto' = HashInto
  BY <1>1, SameCall
<1>5. LaunchesRun' = LaunchesRun
  <2>1. Unmapping' = Unmapping
    BY <1>1 DEF Unmapping
  <2> QED BY <1>1, <2>1 DEF LaunchesRun, Kernels
<1>6. Hashing' /\ Hashed'
  <2>1. memory'[TransferFrom] = memory[TransferFrom] /\ memory'[HashInto] = memory[HashInto]
    BY <1>2, <1>3
  <2> QED BY <1>1, <1>4, <1>5, <2>1 DEF IInv, DInv, Hashing, Hashed
<1>7. Entries' /\ Unpacked' /\ Reports'
  BY <1>1 DEF IInv, DInv, Entries, AllRight, Unpacked, Reports
<1>8. Transferred'
  <2>1. /\ th.last_task.n \in 1 .. Worksize /\ Worksize \in Nat
        /\ Vectors = 1 .. Worksize
    BY <1>1, CardTypes DEF IInv, QIInv, Types, Tasks
  <2>2. queue["b"][1].vector = v /\ queue["b"] # <<>>
    BY <1>1 DEF ReadCommand
  <2>3. queue'["b"] = <<>> \/ queue'["b"][1].vector = v + 1
    BY <1>1 DEF ReadCommand
  <2>4. SUFFICES ASSUME NEW w \in 1 .. th.last_task.n,
                        queue'["b"] = <<>> \/ w < queue'["b"][1].vector
                 PROVE  memory'["host"][w] = Right(th.last_task.id)
    BY <1>1 DEF Transferred, Right
  <2>5. w \in Vectors /\ w \in Nat /\ v \in Nat /\ w <= Worksize
    BY <2>1
  <2>6. w <= v
    <3>1. CASE queue'["b"] = <<>>
      <4>1. v = Worksize
        BY <1>1, <3>1
      <4> QED BY <2>5, <4>1
    <3>2. CASE queue'["b"] # <<>>
      BY <2>3, <2>4, <2>5, <3>2
    <3> QED BY <3>1, <3>2
  <2>7. CASE w = v
    BY <1>1, <1>3, <2>4, <2>7 DEF IInv, DInv, Hashed
  <2>8. CASE w < v
    <3>1. memory["host"][w] = Right(th.last_task.id)
      BY <1>1, <2>2, <2>4, <2>8 DEF IInv, DInv, Transferred
    <3> QED BY <1>3, <2>5, <2>8, <3>1
  <2> QED BY <2>5, <2>6, <2>7, <2>8
<1> QED BY <1>6, <1>7, <1>8 DEF DInv

LEMMA UnpackD ==
  ASSUME IInv, unpack_shuffle_scatter, QIInv', HostApart
  PROVE  DInv'
<1> DEFINE src == IF card.zcb THEN TransferFrom ELSE Pinned
           t == th.last_task.id
<1>1. /\ th.pc = "unpack" /\ card' = card /\ memory' = memory /\ reported' = reported
      /\ queue' = queue /\ mapped' = mapped
  BY DEF unpack_shuffle_scatter, cardVars
<1>2. PICK v \in (1 .. th.last_task.n) \ th.unpacked :
        /\ th' = [th EXCEPT !.unpacked = th.unpacked \cup {v}]
        /\ cache' = [cache EXCEPT ![t] = Append(cache[t], memory[src][v])]
  BY DEF unpack_shuffle_scatter
<1>3. /\ ~th.first_run /\ t \in 1 .. MaxTasks /\ card.zcb \in BOOLEAN
      /\ cache \in [1 .. MaxTasks -> Seq(Content)]
  BY <1>1, CardTypes DEF IInv, QIInv, Tasks, Types
<1>4. /\ th'.pc = "unpack" /\ th'.first_run = th.first_run /\ th'.task = th.task
      /\ th'.buffer_id = th.buffer_id /\ th'.last_task = th.last_task
      /\ th'.launch = th.launch /\ th'.unpacked = th.unpacked \cup {v}
  BY <1>1, <1>2 DEF IInv, QIInv, Types, Thread
<1>5. memory[src][v] = Right(t)
  <2>1. CASE card.zcb
    BY <1>2, <1>3, <2>1 DEF IInv, DInv, Hashed
  <2>2. CASE ~card.zcb
    <3>1. queue["b"] = <<>> /\ Pinned = "host"
      BY <1>1, <2>2 DEF IInv, QIInv, Types, QueueB, HostApart, Pinned
    <3> QED BY <1>1, <1>2, <1>3, <2>2, <3>1 DEF IInv, DInv, Transferred
  <2> QED BY <1>3, <2>1, <2>2
<1>6. Unmapping' = Unmapping
  BY <1>1, <1>4 DEF Unmapping
<1>7. LaunchesRun' = LaunchesRun
  BY <1>1, <1>4, <1>6, QueueAStays DEF IInv, QIInv
<1>8. Hashing'
  BY <1>1, <1>4, <1>7, HashingStays DEF IInv
<1>9. Hashed' /\ Transferred' /\ Reports'
  <2>1. TransferFrom' = TransferFrom
    BY <1>4 DEF TransferFrom
  <2> QED BY <1>1, <1>4, <2>1 DEF IInv, DInv, Hashed, Transferred, Reports
<1> DEFINE s == cache[t]
           a == Append(s, Right(t))
<1>10. /\ s \in Seq(Content) /\ \A i \in DOMAIN s : s[i] = Right(t)
       /\ cache' = [cache EXCEPT ![t] = a]
  BY <1>2, <1>3, <1>5 DEF IInv, DInv, Entries, AllRight
<1>11. Right(t) \in Content
  BY <1>3, GpuDeviceAssumption DEF Right, Content
<1> HIDE DEF s
<1>12. /\ a # <<>> /\ \A i \in DOMAIN a : a[i] = Right(t)
  BY <1>10, <1>11
<1> HIDE DEF a
<1>13. cache'[t] = a /\ \A o \in 1 .. MaxTasks : o # t => cache'[o] = cache[o]
  BY <1>3, <1>10
<1>14. Entries'
  <2>1. SUFFICES ASSUME NEW o \in 1 .. MaxTasks
                 PROVE  /\ \A i \in DOMAIN cache'[o] : cache'[o][i] = Right(o)
                        /\ o < t => cache'[o] # <<>>
                        /\ o > t => cache'[o] = <<>>
    BY <1>4 DEF Entries, AllRight, Right
  <2>2. CASE o = t
    BY <1>3, <1>12, <1>13, <2>2
  <2>3. CASE o # t
    BY <1>13, <2>3 DEF IInv, DInv, Entries, AllRight
  <2> QED BY <2>2, <2>3
<1>15. Unpacked'
  BY <1>1, <1>2, <1>3, <1>4, <1>12, <1>13 DEF IInv, DInv, Unpacked, Idle, Before
<1> QED BY <1>8, <1>9, <1>14, <1>15 DEF DInv

LEMMA ReturnD ==
  ASSUME IInv, Return, QIInv'
  PROVE  DInv'
<1>1. /\ th.pc = "report" /\ th'.pc = "recv"
      /\ th'.unpacked = {} /\ th'.task = th.task
      /\ (th'.first_run <=> ~th.first_run /\ th.task.n = 0)
      /\ th'.buffer_id = (IF th'.first_run THEN 0 ELSE 1 - th.buffer_id)
      /\ th'.last_task = (IF th'.first_run THEN th.last_task ELSE th.task)
      /\ reported' = (IF th.first_run THEN reported ELSE Append(reported, th.last_task.id))
      /\ memory' = memory /\ cache' = cache
  BY ReturnFields DEF IInv
<1> DEFINE l == th.last_task.id
<1>2. /\ l \in Nat /\ th.task.n \in Nat
      /\ th.first_run => th.task.n > 0 /\ th.buffer_id = 0
      /\ th.task.n > 0 => th.task.id = l + 1
  BY <1>1 DEF IInv, QIInv, Types, Thread, Task, Tasks, InCall
<1>3. ~th'.first_run => th.task.n > 0
  BY <1>1, <1>2
<1>4. th'.last_task.id = IF th'.first_run THEN l ELSE l + 1
  BY <1>1, <1>2, <1>3
<1>5. Hashing'
  BY <1>1, NoLaunches DEF Idle
<1>6. Hashed'
  <2>1. SUFFICES ASSUME ~th'.first_run, NEW v \in 1 .. th.task.n
                 PROVE  memory[TransferFrom'][v] = Right(th.task.id)
    BY <1>1 DEF Hashed, Right
  <2>2. LaunchesRun = Launches
    <3>1. th.launch = Launches /\ Kernels = 0
      BY <1>1, <1>3, <2>1 DEF IInv, QIInv, LaunchCount
    <3> QED BY <3>1, GpuDeviceAssumption DEF LaunchesRun
  <2>3. Launches > 0
    BY GpuDeviceAssumption
  <2>4. memory[HashInto][v] = Right(th.task.id)
    BY <2>1, <2>2, <2>3 DEF IInv, DInv, Hashing, Right
  <2>5. TransferFrom' = HashInto
    <3>1. th.buffer_id \in {0, 1} /\ (Call = "hash" <=> th.first_run)
      BY DEF IInv, QIInv, Types, Thread, Call
    <3> QED BY <1>1, <1>2, <2>1, <3>1 DEF TransferFrom, HashInto
  <2> QED BY <2>4, <2>5
<1>7. Transferred' /\ Unpacked'
  <2>1. l > 0 => cache[l] # <<>>
    BY <1>1 DEF IInv, DInv, Unpacked
  <2>2. ~th'.first_run => th'.last_task.id \in 1 .. MaxTasks
    BY DEF QIInv, Tasks
  <2>3. ~th'.first_run => cache[th'.last_task.id] = <<>>
    BY <1>2, <1>4, <2>2 DEF IInv, DInv, Entries
  <2> QED BY <1>1, <1>4, <2>1, <2>3 DEF Transferred, Unpacked
<1>8. Entries'
  <2>1. SUFFICES ASSUME NEW t \in 1 .. MaxTasks
                 PROVE  /\ AllRight(t)
                        /\ t < th'.last_task.id => cache[t] # <<>>
                        /\ t > th'.last_task.id => cache[t] = <<>>
    BY <1>1 DEF Entries, AllRight, Right
  <2>2. /\ AllRight(t)
        /\ t < l => cache[t] # <<>>
        /\ t > l => cache[t] = <<>>
    BY DEF IInv, DInv, Entries
  <2>4. l > 0 => cache[l] # <<>>
    BY <1>1 DEF IInv, DInv, Unpacked
  <2> HIDE DEF l
  <2>6. th'.last_task.id \in Nat /\ (th'.last_task.id = l \/ th'.last_task.id = l + 1) /\ t \in Nat
        /\ t > 0
    BY <1>2, <1>4
  <2> QED BY <1>2, <2>2, <2>4, <2>6
<1>9. Reports'
  <2> DEFINE n == Len(reported)
  <2>1. /\ reported \in Seq(Nat) /\ n = (IF th.first_run THEN l ELSE l - 1) /\ n \in Nat
        /\ \A i \in 1 .. n : reported[i] = i
    BY DEF IInv, DInv, Reports
  <2> HIDE DEF l
  <2>2. CASE th.first_run
    BY <1>1, <1>2, <1>4, <2>1, <2>2 DEF Reports
  <2>3. CASE ~th.first_run
    <3>1. reported' = Append(reported, l) /\ n = l - 1
      BY <1>1, <2>1, <2>3 DEF l
    <3>2. /\ reported' \in Seq(Nat) /\ Len(reported') = n + 1
          /\ reported'[n + 1] = l /\ \A i \in 1 .. n : reported'[i] = reported[i]
      BY <1>2, <2>1, <3>1
    <3>3. Len(reported') = l
      BY <1>2, <2>1, <3>1, <3>2
    <3> HIDE DEF n
    <3>4. \A i \in 1 .. l : reported'[i] = i
      BY <1>2, <2>1, <3>1, <3>2
    <3>5. Len(reported') = IF th'.first_run THEN th'.last_task.id ELSE th'.last_task.id - 1
      BY <1>2, <1>4, <3>3
    <3> QED BY <3>2, <3>3, <3>4, <3>5 DEF Reports
  <2> QED BY <2>2, <2>3
<1> QED BY <1>5, <1>6, <1>7, <1>8, <1>9 DEF DInv

LEMMA Invariance == HostApart => (Spec => []IInv)
<1> SUFFICES ASSUME HostApart
             PROVE  Spec => []IInv
  OBVIOUS
<1>1. Init => IInv
  BY InitQ, InitD DEF IInv
<1>2. IInv /\ [Next]_vars => IInv'
  <2> SUFFICES ASSUME IInv, [Next]_vars PROVE IInv'
    OBVIOUS
  <2>1. QIInv'
    BY StepQ DEF IInv
  <2>2. CASE ThreadStep
    BY <2>1, <2>2, InfoD, InitGpuD, ReceiveD, TerminateD, MapD, MapReturnsD, TransferD,
       EnqueueD, LoopEndsD, FinishBD, UnpackD, UnpackReturnsD, FinishAD, ReturnD
       DEF ThreadStep, IInv
  <2>3. CASE DeviceStep
    BY <2>1, <2>3, KernelD, UnmapD, RunMapD, RunReadD DEF DeviceStep, IInv
  <2>4. CASE Ended \/ UNCHANGED vars
    BY <2>1, <2>4, SameD DEF Ended, IInv
  <2> QED BY <2>2, <2>3, <2>4 DEF Next
<1> QED BY <1>1, <1>2, PTL DEF Spec

-----------------------------------------------------------------------------
(* The refinement of GpuPipe.                                              *)

\* The last task is in the cache from the moment its last vector is.
Complete ==
  \/ th.first_run \/ th.pc \in {"finish_a", "report"}
  \/ th.pc = "unpack" /\ th.unpacked = 1 .. th.last_task.n

Gathered == {t \in 1 .. MaxTasks : Whole(t)}
UpToLast ==
  Gathered = {t \in 1 .. MaxTasks : t < th.last_task.id \/ (t = th.last_task.id /\ Complete)}

LEMMA GatheredInOrder == IInv => UpToLast
<1> SUFFICES ASSUME IInv PROVE UpToLast
  OBVIOUS
<1> SUFFICES ASSUME NEW t \in 1 .. MaxTasks
             PROVE  Whole(t) <=> t < th.last_task.id \/ (t = th.last_task.id /\ Complete)
  BY DEF UpToLast, Gathered
<1>1. /\ \A i \in DOMAIN cache[t] : cache[t][i] = [id |-> t, launches |-> Launches]
      /\ t < th.last_task.id => cache[t] # <<>>
      /\ t > th.last_task.id => cache[t] = <<>>
  BY DEF IInv, DInv, Entries, AllRight, Right
<1>2. t \in Nat /\ t > 0 /\ th.last_task.id \in Nat
  BY DEF IInv, QIInv, Types, Thread, Task
<1>3. Whole(t) <=> /\ cache[t] # <<>>
                   /\ ~(th.pc = "unpack" /\ th.last_task.id = t /\ th.unpacked # 1 .. th.last_task.n)
  BY <1>1 DEF Whole
<1>4. CASE t # th.last_task.id
  BY <1>1, <1>2, <1>3, <1>4
<1>5. CASE t = th.last_task.id
  <2>1. th.pc = "unpack" => ~th.first_run /\ 1 \in 1 .. th.last_task.n
    BY CardTypes DEF IInv, QIInv, Types, Tasks
  <2>2. IF th.first_run \/ th.pc \in {"finish_a", "report"} THEN cache[t] # <<>>
        ELSE IF th.pc = "unpack" THEN cache[t] = <<>> <=> th.unpacked = {}
        ELSE cache[t] = <<>>
    BY <1>2, <1>5 DEF IInv, DInv, Unpacked
  <2>3. th.pc = "unpack" /\ th.unpacked = 1 .. th.last_task.n => th.unpacked # {}
    BY <2>1
  <2> QED BY <1>2, <1>3, <1>5, <2>1, <2>2, <2>3 DEF Complete
<1> QED BY <1>4, <1>5

(* What GpuPipe does not see. *)
LEMMA Unseen ==
  ASSUME UpToLast, UpToLast', reported' = reported, th'.first_run = th.first_run,
         th'.last_task = th.last_task, Complete' <=> Complete
  PROVE  UNCHANGED Pipe!vars
<1>1. Held' = Held
  BY DEF Held
<1>2. Gathered' = Gathered
  BY DEF UpToLast
<1> QED BY <1>1, <1>2 DEF Pipe!vars, Gathered

LEMMA UnpackPipe ==
  ASSUME IInv, UpToLast, UpToLast', unpack_shuffle_scatter
  PROVE  Pipe!Transfer \/ UNCHANGED Pipe!vars
<1>1. th.pc = "unpack" /\ reported' = reported
  BY DEF unpack_shuffle_scatter
<1>2. PICK v \in (1 .. th.last_task.n) \ th.unpacked :
        th' = [th EXCEPT !.unpacked = th.unpacked \cup {v}]
  BY DEF unpack_shuffle_scatter
<1>3. /\ ~th.first_run /\ th.last_task.id \in 1 .. MaxTasks /\ ~Complete
  BY <1>1, <1>2 DEF IInv, QIInv, Tasks, Complete
<1>4. /\ th'.pc = "unpack" /\ th'.first_run = th.first_run
      /\ th'.last_task = th.last_task
  BY <1>1, <1>2 DEF IInv, QIInv, Types, Thread
<1>5. CASE ~Complete'
  BY <1>1, <1>3, <1>4, <1>5, Unseen
<1>6. CASE Complete'
  <2> DEFINE l == th.last_task.id
  <2>1. Held = l /\ Held' = l
    BY <1>3, <1>4 DEF Held
  <2>2. l # 0 /\ l \in Nat /\ l \notin Gathered
    BY <1>3 DEF UpToLast
  <2>3. Gathered' = Gathered \cup {l}
    BY <1>3, <1>4, <1>6 DEF UpToLast
  <2> QED BY <1>1, <2>1, <2>2, <2>3 DEF Pipe!Transfer, Pipe!NoTask, Gathered
<1> QED BY <1>5, <1>6

LEMMA ReturnPipe ==
  ASSUME IInv, UpToLast, UpToLast', QIInv', Return
  PROVE  Pipe!Accept \/ Pipe!Report
<1>1. /\ th.pc = "report" /\ th'.pc = "recv" /\ th'.unpacked = {}
      /\ (th'.first_run <=> ~th.first_run /\ th.task.n = 0)
      /\ th'.last_task = (IF th'.first_run THEN th.last_task ELSE th.task)
      /\ reported' = (IF th.first_run THEN reported ELSE Append(reported, th.last_task.id))
  BY ReturnFields DEF IInv
<1> DEFINE l == th.last_task.id
<1>2. /\ l \in Nat /\ l <= MaxTasks /\ th.task.n \in Nat
      /\ th.first_run => th.task.n > 0
      /\ th.task.n > 0 => th.task.id = l + 1
      /\ ~th.first_run => l > 0
  <2>1. l \in Nat /\ th.task.n \in Nat /\ th.task.id \in Nat
    BY DEF IInv, QIInv, Types, Thread, Task
  <2>2. /\ l \in 0 .. MaxTasks
        /\ th.first_run => th.task.n > 0
        /\ th.task.n > 0 => th.task.id = th.tasks /\ th.tasks = l + 1
        /\ ~th.first_run => l \in 1 .. MaxTasks
    BY <1>1 DEF IInv, QIInv, Tasks, InCall
  <2> QED BY <2>1, <2>2, GpuDeviceAssumption
<1>3. th'.last_task.id = IF th'.first_run THEN l ELSE l + 1
  BY <1>1, <1>2
<1>4. Complete /\ (Complete' <=> th'.first_run)
  BY <1>1 DEF Complete
<1>5. /\ Gathered = {t \in 1 .. MaxTasks : t <= l}
      /\ Gathered' = Gathered
  <2>1. \A t \in 1 .. MaxTasks : t \in Nat
    OBVIOUS
  <2> QED BY <1>2, <1>3, <1>4, <2>1 DEF UpToLast
<1>6. /\ DOMAIN reported = 1 .. Len(reported) /\ Len(reported) \in Nat
      /\ Len(reported) = (IF th.first_run THEN l ELSE l - 1)
      /\ \A i \in 1 .. Len(reported) : reported[i] = i
  BY DEF IInv, DInv, Reports
<1> HIDE DEF l
<1>7. /\ \A i \in DOMAIN reported : reported[i] # l + 1 /\ reported[i] # 0
      /\ l + 1 \notin Gathered /\ 0 \notin Gathered
  BY <1>2, <1>5, <1>6
<1>8. Held = (IF th.first_run THEN 0 ELSE l) /\ Held' = (IF th'.first_run THEN 0 ELSE l + 1)
  BY <1>3 DEF Held, l
<1>9. CASE th.first_run
  <2>1. Held = 0 /\ Held' = l + 1 /\ l + 1 \in Nat \ {0} /\ reported' = reported
    BY <1>1, <1>2, <1>8, <1>9
  <2>2. Pipe!New(Held')
    BY <1>7, <2>1 DEF Pipe!New, Gathered
  <2> QED BY <1>5, <2>1, <2>2 DEF Pipe!Accept, Pipe!NoTask, Gathered
<1>10. CASE ~th.first_run
  <2>1. Held = l /\ Held' \in {0, l + 1} /\ reported' = Append(reported, l)
    BY <1>1, <1>8, <1>10 DEF l
  <2>2. l \in Gathered /\ l # l + 1 /\ l # 0 /\ l + 1 \in Nat
    BY <1>2, <1>5, <1>10
  <2>3. Pipe!New(Held') /\ Held' \in Nat /\ Held' # Held
    BY <1>7, <2>1, <2>2 DEF Pipe!New, Gathered
  <2> QED BY <1>5, <2>1, <2>2, <2>3 DEF Pipe!Report, Gathered
<1> QED BY <1>9, <1>10

(* The steps of the thread other than unpacking and returning move it       *)
(* between places where the last task is equally complete.                  *)
LEMMA ThreadPipe ==
  ASSUME IInv, UpToLast, UpToLast', ThreadStep, ~unpack_shuffle_scatter, ~Return
  PROVE  UNCHANGED Pipe!vars
<1> SUFFICES /\ reported' = reported /\ th'.first_run = th.first_run
             /\ th'.last_task = th.last_task /\ (Complete' <=> Complete)
  BY Unseen
<1> USE DEF IInv, QIInv
<1>0. th \in Thread
  BY DEF Types
<1>1. CASE gpu_get_info \/ gpu_init \/ Terminate
  <2>1. /\ reported' = reported /\ th.first_run /\ th.pc \in {"info", "init", "recv"}
        /\ \E p \in {"exit", "init", "recv", "end"} : th' = [th EXCEPT !.pc = p]
    BY <1>1 DEF gpu_get_info, gpu_init, Terminate, Tasks, Before
  <2> QED BY <1>0, <2>1, PcChanges DEF Complete
<1>2. CASE Receive
  <2>1. /\ th.pc = "recv" /\ reported' = reported
        /\ \/ th' = th
           \/ /\ th'.pc = IF th.first_run THEN "launch" ELSE "fetch"
              /\ th'.first_run = th.first_run /\ th'.last_task = th.last_task
    BY <1>0, <1>2, ReceiveFields
  <2>2. th'.pc \in {"recv", "launch", "fetch"} /\ th'.first_run = th.first_run
        /\ th'.last_task = th.last_task
    BY <2>1
  <2> QED BY <2>1, <2>2 DEF Complete
<1>3. CASE mem_map_gpu_to_host
  <2>1. th.pc = "fetch" /\ reported' = reported /\ th' = [th EXCEPT !.pc = "map"]
    BY <1>3 DEF mem_map_gpu_to_host
  <2> QED BY <1>0, <2>1, PcChanges DEF Complete
<1>4. CASE MapReturns \/ FinishB
  <2>1. /\ th.pc \in {"map", "finish_b"} /\ reported' = reported
        /\ \E p \in {"launch", "unpack"} : th' = [th EXCEPT !.pc = p]
    BY <1>4 DEF MapReturns, FinishB
  <2>2. /\ th'.pc \in {"launch", "unpack"} /\ th'.first_run = th.first_run
        /\ th'.last_task = th.last_task /\ th'.unpacked = th.unpacked
    BY <1>0, <2>1, PcChanges
  <2>3. th.unpacked = {} /\ ~th.first_run
    BY <2>1 DEF DInv, Unpacked, Tasks
  <2>4. 1 \in 1 .. th.last_task.n
    BY <2>3, CardTypes DEF Types, Tasks
  <2> QED BY <2>1, <2>2, <2>3, <2>4 DEF Complete
<1>5. CASE mem_transfer_gpu_to_host
  BY <1>5, TransferFields DEF Complete
<1>6. CASE EnqueueKernel
  BY <1>6, EnqueueFields DEF Complete
<1>7. CASE LoopEnds
  <2>1. /\ th.pc = "launch" /\ reported' = reported
        /\ th' = [th EXCEPT !.pc = IF Call = "hash" THEN "finish_a" ELSE "finish_b"]
    BY <1>7 DEF LoopEnds
  <2>2. Call = "hash" <=> th.first_run
    BY DEF Call
  <2> QED BY <1>0, <2>1, <2>2, PcChanges DEF Complete
<1>8. CASE UnpackReturns
  BY <1>8, UnpackReturnsFields DEF Complete
<1>9. CASE FinishA
  <2>1. th.pc = "finish_a" /\ reported' = reported /\ th' = [th EXCEPT !.pc = "report"]
    BY <1>9 DEF FinishA
  <2> QED BY <1>0, <2>1, PcChanges DEF Complete
<1> QED BY <1>1, <1>2, <1>3, <1>4, <1>5, <1>6, <1>7, <1>8, <1>9 DEF ThreadStep

(* Unless pinned memory is one of the buffers that are hashed into, each     *)
(* task is hashed, transferred and unpacked as a whole before it is         *)
(* reported, once and in its order, whatever the device does in the         *)
(* meantime.                                                               *)
THEOREM ReportsWhatIsHashed == HostApart => (Spec => HashesThenReports)
<1> SUFFICES ASSUME HostApart
             PROVE  Spec => HashesThenReports
  OBVIOUS
<1>1. Init => Pipe!Init
  <2> SUFFICES ASSUME Init PROVE Pipe!Init
    OBVIOUS
  <2>1. Held = 0 /\ reported = <<>>
    BY DEF Init, Held
  <2>2. Gathered = {}
    BY DEF Init, Gathered, Whole
  <2> QED BY <2>1, <2>2 DEF Pipe!Init, Pipe!NoTask, Gathered
<1>2. IInv /\ UpToLast /\ IInv' /\ UpToLast' /\ [Next]_vars => [Pipe!Next]_(Pipe!vars)
  <2> SUFFICES ASSUME IInv, UpToLast, IInv', UpToLast', [Next]_vars
               PROVE  Pipe!Next \/ UNCHANGED Pipe!vars
    OBVIOUS
  <2>1. CASE unpack_shuffle_scatter
    BY <2>1, UnpackPipe DEF Pipe!Next
  <2>2. CASE Return
    BY <2>2, ReturnPipe DEF Pipe!Next, IInv
  <2>3. CASE ThreadStep /\ ~unpack_shuffle_scatter /\ ~Return
    BY <2>3, ThreadPipe
  <2>4. CASE DeviceStep \/ Ended \/ UNCHANGED vars
    <3>1. th' = th /\ reported' = reported
      BY <2>4 DEF DeviceStep, RunKernel, RunUnmap, RunMap, RunRead, Ended, vars
    <3>2. Complete' <=> Complete
      BY <3>1 DEF Complete
    <3> QED BY <3>1, <3>2, Unseen
  <2> QED BY <2>1, <2>2, <2>3, <2>4 DEF Next
<1> QED BY <1>1, <1>2, Invariance, GatheredInOrder, PTL DEF Spec, HashesThenReports, Pipe!Spec
=============================================================================
