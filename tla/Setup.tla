-------------------------------- MODULE Setup --------------------------------
(***************************************************************************)
(* What a run is started with: how src/main.rs and the first half of        *)
(* Plotter::run (src/plotter.rs) turn the command line and the machine into *)
(* a number of CPU threads, a plot size and a number and size of buffers,   *)
(* and when they give up.  One step per block of the code, in its order;    *)
(* bytes and u64 keep their width.                                          *)
(***************************************************************************)
EXTENDS Integers

CONSTANTS
  ByteMod,      \* 2^8: cpu_num() and cpu_threads are u8
  WordMod,      \* 2^64: sizes are u64
  NonceSize,    \* NONCE_SIZE, 262144 in the code
  GpuMultiple,  \* the 16 of "opencl requires buffer to be a multiple of 16"
  Kilo,         \* the 1000 by which the available KiB are multiplied
  Inputs        \* the command lines and machines

\* cpus, avail, free_disk, sector: the machine (logical CPUs, available KiB,
\* free bytes on disk, nonces per disk sector).  path: whether the target path is
\* there.  cpu: the thread limit, NoNumber if there is none.  gpu: whether GPUs are
\* given, and gpu_info what they need for their buffers.  mem: the memory limit, 0
\* if not given, NoNumber if it cannot be parsed.  exists: whether the plot file is
\* there already.
Input ==
  [cpus : Nat \ {0}, avail : Nat, free_disk : Nat, sector : Nat \ {0},
   path : BOOLEAN, cpu : -1 .. ByteMod - 1, gpu : BOOLEAN, gpu_info : Nat, zcb : BOOLEAN,
   nonces : Nat, mem : Nat \cup {-1}, direct_io : BOOLEAN, async_io : BOOLEAN,
   benchmark : BOOLEAN, exists : BOOLEAN]

NoNumber == -1

\* Plots and memory stay far below 2^64 bytes; only the subtraction of GPU
\* memory can leave that range.  Sectors and the 16 are powers of two.
ASSUME SetupAssumption ==
  /\ ByteMod \in Nat \ {0} /\ WordMod \in Nat \ {0} /\ NonceSize \in Nat \ {0}
  /\ GpuMultiple \in Nat \ {0} /\ Kilo \in Nat \ {0}
  /\ \A i \in Inputs : /\ i \in Input
                       /\ i.nonces * NonceSize + i.gpu_info < WordMod
                       /\ i.free_disk + i.gpu_info < WordMod /\ i.avail * Kilo < WordMod
                       /\ i.sector < GpuMultiple => GpuMultiple % i.sector = 0

VARIABLES
  pc,             \* the block that runs next
  arg,            \* the command line and the machine
  cpu_threads, nonces, nonces_per_sector, gpu_mem_needed, mem,
  num_buffer, buffer_size

vars == <<pc, arg, cpu_threads, nonces, nonces_per_sector, gpu_mem_needed, mem,
          num_buffer, buffer_size>>

Lower(a, b) == IF a <= b THEN a ELSE b
Upper(a, b) == IF a >= b THEN a ELSE b

Plotsize == nonces * NonceSize
NumBuffer == IF arg.async_io THEN 2 ELSE 1

\* Buffers come in multiples of a sector's nonces, with GPUs of at least 16.
Multiple == IF arg.gpu THEN Upper(GpuMultiple, nonces_per_sector) ELSE nonces_per_sector
MemUnit == NumBuffer * NonceSize * Multiple

\* Arithmetic that leaves its width wraps around in a release build and ends a
\* debug build; the next block is then either.
NextUnless(overflow, block) == pc' \in (IF overflow THEN {block, "exit"} ELSE {block})

\* cpu_num() as u8, and twice that, again as u8.
Cores == arg.cpus % ByteMod
TwiceCores == (2 * Cores) % ByteMod

ThreadLimit == IF arg.cpu \in {NoNumber, 0} THEN Cores ELSE Lower(TwiceCores, arg.cpu)

\* main(): the number of threads; none if GPUs are given and no limit.
WorkOutThreads ==
  /\ pc = "main"
  /\ cpu_threads' = IF arg.gpu /\ arg.cpu = NoNumber THEN 0 ELSE ThreadLimit
  /\ NextUnless(arg.cpu > 0 /\ 2 * Cores >= ByteMod, "gpu")
  /\ UNCHANGED <<arg, nonces, nonces_per_sector, gpu_mem_needed, mem, num_buffer,
                 buffer_size>>

\* Plotter::run: with pinned instead of zero copy buffers, half of what
\* gpu_get_info says is host memory.  gpu_get_info may also end the process.
GpuInfo ==
  /\ pc = "gpu"
  /\ gpu_mem_needed' = IF ~arg.gpu THEN 0
                       ELSE IF arg.zcb THEN arg.gpu_info ELSE arg.gpu_info \div 2
  /\ pc' \in (IF arg.gpu THEN {"size", "exit"} ELSE {"size"})
  /\ UNCHANGED <<arg, cpu_threads, nonces, nonces_per_sector, mem, num_buffer, buffer_size>>

\* Mutant of SizePlot: the sector size does not matter.
SizePlotUnrounded ==
  /\ pc = "size"
  /\ nonces' = IF arg.nonces = 0 THEN arg.free_disk \div NonceSize ELSE arg.nonces
  /\ nonces_per_sector' = IF arg.direct_io THEN arg.sector ELSE 1
  /\ pc' = IF arg.path THEN "disk" ELSE "exit"
  /\ UNCHANGED <<arg, cpu_threads, gpu_mem_needed, mem, num_buffer, buffer_size>>

\* All the disk if no size is given; with direct i/o a multiple of the sector.
\* A target path that is not there ends the process: free_disk_space unwraps.
SizePlot ==
  /\ pc = "size"
  /\ LET n == IF arg.nonces = 0 THEN arg.free_disk \div NonceSize ELSE arg.nonces IN
       nonces' = IF arg.direct_io THEN (n \div arg.sector) * arg.sector ELSE n
  /\ nonces_per_sector' = IF arg.direct_io THEN arg.sector ELSE 1
  /\ pc' = IF arg.path THEN "disk" ELSE "exit"
  /\ UNCHANGED <<arg, cpu_threads, gpu_mem_needed, mem, num_buffer, buffer_size>>

\* The plot has to fit on the disk, unless it is already there or never written.
CheckDisk ==
  /\ pc = "disk"
  /\ pc' = IF arg.free_disk < Plotsize /\ ~arg.exists /\ ~arg.benchmark THEN "exit" ELSE "limit"
  /\ UNCHANGED <<arg, cpu_threads, nonces, nonces_per_sector, gpu_mem_needed, mem,
                 num_buffer, buffer_size>>

\* The user's limit is not a number, or too small to use GPUs at all.
LimitUnusable ==
  \/ arg.mem = NoNumber
  \/ /\ arg.gpu /\ arg.mem > 0
     /\ arg.mem < gpu_mem_needed + nonces_per_sector * NonceSize

\* Mutant of MemoryLimit: the GPUs' share is not taken off the limit.
MemoryLimitForBuffers ==
  /\ pc = "limit"
  /\ IF LimitUnusable
     THEN pc' = "exit" /\ mem' = mem
     ELSE /\ pc' = "memory"
          /\ mem' = IF arg.mem = 0 THEN Plotsize ELSE arg.mem
  /\ UNCHANGED <<arg, cpu_threads, nonces, nonces_per_sector, gpu_mem_needed,
                 num_buffer, buffer_size>>

\* calculate_mem_to_use, first half: the user's limit, less what the GPUs need.
MemoryLimit ==
  /\ pc = "limit"
  /\ IF LimitUnusable
     THEN pc' = "exit" /\ mem' = mem
     ELSE LET limit == IF arg.gpu /\ arg.mem > 0 THEN arg.mem - gpu_mem_needed ELSE arg.mem IN
          /\ pc' = "memory"
          /\ mem' = IF limit = 0 THEN Plotsize ELSE limit
  /\ UNCHANGED <<arg, cpu_threads, nonces, nonces_per_sector, gpu_mem_needed,
                 num_buffer, buffer_size>>

\* What may be used of the memory that is free; wraps around if the GPUs need
\* more than that.
Free == (arg.avail * Kilo - gpu_mem_needed) % WordMod

\* Mutant of UsableMemory: a minimum, but no rounding.
UsableMemoryUnrounded ==
  Upper(Lower(Lower(mem, Plotsize + gpu_mem_needed), Free), MemUnit)

\* Whole buffers of whole units, and at least one unit for each buffer.
UsableMemory ==
  Upper((Lower(Lower(mem, Plotsize + gpu_mem_needed), Free) \div MemUnit) * MemUnit, MemUnit)

\* calculate_mem_to_use, second half, and the buffers in Plotter::run.
SizeBuffers ==
  /\ pc = "memory"
  /\ mem' = UsableMemory
  /\ num_buffer' = NumBuffer
  /\ buffer_size' = UsableMemory \div NumBuffer
  /\ NextUnless(arg.avail * Kilo < gpu_mem_needed, "spawn")
  /\ UNCHANGED <<arg, cpu_threads, nonces, nonces_per_sector, gpu_mem_needed>>

Ended == pc \in {"spawn", "exit"} /\ UNCHANGED vars

Init ==
  /\ pc = "main" /\ arg \in Inputs
  /\ cpu_threads = 0 /\ nonces = 0 /\ nonces_per_sector = 1 /\ gpu_mem_needed = 0
  /\ mem = 0 /\ num_buffer = 0 /\ buffer_size = 0

Next ==
  \/ WorkOutThreads \/ GpuInfo \/ SizePlot \/ CheckDisk \/ MemoryLimit \/ SizeBuffers
  \/ Ended

Spec == Init /\ [][Next]_vars

-----------------------------------------------------------------------------
(* Properties of a run that is started.                                    *)

Started == pc = "spawn"

\* The writer's addresses come out right: a buffer holds whole nonces, a whole
\* number of them per sector (and per 16 with a GPU), at least one, and all
\* buffers together are what the user was told.
BuffersWhole ==
  Started =>
    /\ buffer_size % (NonceSize * Multiple) = 0 /\ buffer_size > 0
    /\ num_buffer * buffer_size = mem

\* With direct i/o, every chunk of a new plot starts and ends on a sector: all
\* its chunks are whole buffers but the last, and the plot ends on a sector.
ChunksAligned ==
  Started /\ arg.direct_io =>
    /\ nonces % arg.sector = 0
    /\ \A k \in 0 .. nonces :
         LET start == k * (buffer_size \div NonceSize)
             chunk == Lower(buffer_size \div NonceSize, nonces - start)
         IN  start < nonces => start % arg.sector = 0 /\ chunk % arg.sector = 0

\* The user's limit on memory is kept, except that every buffer has at least
\* one unit (src/main.rs:112, "maximum memory usage", knows no exception).
LimitKeptOrMinimal ==
  Started /\ arg.mem > 0 => (mem + gpu_mem_needed <= arg.mem) \/ mem = MemUnit

\* "don't exceed free memory and leave some elbow room" (src/plotter.rs:373),
\* the minimum of one unit for each buffer apart.
FreeMemoryKept ==
  Started => (mem + gpu_mem_needed <= arg.avail * Kilo) \/ mem = MemUnit

\* Without a GPU the CPU hashes; "dont use cpu if only a gpu is defined" is the
\* special case in which it does not (src/main.rs:235).
SomeDeviceHashes == Started => cpu_threads > 0 \/ arg.gpu
=============================================================================
