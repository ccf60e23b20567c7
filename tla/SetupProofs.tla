---------------------------- MODULE SetupProofs ----------------------------
(***************************************************************************)
(* Proofs about module Setup: on every machine and for every command line,  *)
(* a run that is started has buffers of whole nonces and sectors that add   *)
(* up to the memory it reports (BuffersWhole), cuts a plot into chunks that *)
(* direct i/o can write (ChunksAligned), and keeps the user's memory limit  *)
(* or has buffers of the smallest size there is (LimitKeptOrMinimal).       *)
(***************************************************************************)
EXTENDS Setup, Rounding

\* The machines on which nothing wraps around: the GPUs need no more than the memory
\* that is free, and twice the CPUs are a u8.
GpusFit == gpu_mem_needed <= arg.avail * Kilo
CpusFitByte == 2 * arg.cpus < ByteMod

-----------------------------------------------------------------------------
(* The inductive invariant: what each block has left for the next.         *)

Blocks == {"main", "gpu", "size", "disk", "limit", "memory", "spawn", "exit"}

Types ==
  /\ pc \in Blocks /\ arg \in Inputs
  /\ nonces \in Nat /\ nonces_per_sector \in Nat \ {0} /\ gpu_mem_needed \in Nat
  /\ mem \in Nat

Sized ==
  pc \in {"disk", "limit", "memory", "spawn"} =>
    /\ nonces_per_sector = IF arg.direct_io THEN arg.sector ELSE 1
    /\ arg.direct_io => nonces % arg.sector = 0

GpuMemory == pc \notin {"main", "gpu", "exit"} /\ ~arg.gpu => gpu_mem_needed = 0

\* Only what the GPUs leave of the limit is handed on; of that, whole units.
Limit == pc = "memory" /\ arg.mem > 0 => mem + gpu_mem_needed = arg.mem

Buffers ==
  Started =>
    /\ mem % MemUnit = 0 /\ mem > 0
    /\ num_buffer = NumBuffer /\ buffer_size = mem \div NumBuffer
    /\ arg.mem > 0 => (mem + gpu_mem_needed <= arg.mem) \/ mem = MemUnit
    /\ GpusFit => (mem + gpu_mem_needed <= arg.avail * Kilo) \/ mem = MemUnit

Threads == pc # "main" /\ CpusFitByte => cpu_threads > 0 \/ arg.gpu

IInv == Types /\ Sized /\ GpuMemory /\ Limit /\ Buffers /\ Threads

-----------------------------------------------------------------------------
(* The inputs, and the unit of the buffers.                                *)

LEMMA InputTypes ==
  ASSUME arg \in Inputs
  PROVE  /\ arg.sector \in Nat \ {0} /\ arg.gpu_info \in Nat /\ arg.nonces \in Nat
         /\ arg.mem \in Nat \cup {-1} /\ arg.free_disk \in Nat /\ arg.avail \in Nat
         /\ arg.direct_io \in BOOLEAN /\ arg.async_io \in BOOLEAN /\ arg.gpu \in BOOLEAN
         /\ arg.cpus \in Nat \ {0} /\ arg.cpu \in -1 .. ByteMod - 1
         /\ arg.sector < GpuMultiple => GpuMultiple % arg.sector = 0
BY SetupAssumption DEF Input

LEMMA Units ==
  ASSUME arg \in Inputs, nonces_per_sector \in Nat \ {0}
  PROVE  /\ NumBuffer \in Nat \ {0} /\ Multiple \in Nat \ {0}
         /\ MemUnit \in Nat \ {0} /\ MemUnit = NumBuffer * (NonceSize * Multiple)
<1>1. NonceSize \in Nat \ {0} /\ GpuMultiple \in Nat \ {0}
  BY SetupAssumption
<1>2. NumBuffer \in Nat \ {0}
  BY DEF NumBuffer
<1>3. Multiple \in Nat \ {0}
  BY <1>1 DEF Multiple, Upper
<1>4. MemUnit \in Nat \ {0} /\ MemUnit = NumBuffer * (NonceSize * Multiple)
  BY <1>1, <1>2, <1>3 DEF MemUnit
<1> QED BY <1>2, <1>3, <1>4

(* With direct i/o the unit is made of sectors. *)
LEMMA UnitOfSectors ==
  ASSUME arg \in Inputs, arg.direct_io, nonces_per_sector = arg.sector
  PROVE  Multiple % arg.sector = 0
<1>1. arg.sector \in Nat \ {0} /\ GpuMultiple \in Nat \ {0}
      /\ (arg.sector < GpuMultiple => GpuMultiple % arg.sector = 0)
  BY InputTypes, SetupAssumption
<1>2. arg.sector % arg.sector = 0
  <2> DEFINE s == arg.sector
  <2>1. s \in Nat \ {0} /\ s * 1 = s
    BY <1>1
  <2> HIDE DEF s
  <2>2. s % s = 0
    BY <2>1, MultipleMod
  <2> QED BY <2>2 DEF s
<1>3. Multiple = arg.sector \/ (Multiple = GpuMultiple /\ GpuMultiple % arg.sector = 0)
  BY <1>1, <1>2 DEF Multiple, Upper
<1> QED BY <1>2, <1>3, Zenon

(* What may be used is a positive number of units, no more than what is left of *)
(* the limit and of the free memory unless it is a single one.                  *)
LEMMA UsableMemoryUnits ==
  ASSUME Types
  PROVE  /\ UsableMemory \in Nat \ {0} /\ UsableMemory % MemUnit = 0
         /\ UsableMemory <= mem \/ UsableMemory = MemUnit
         /\ GpusFit => UsableMemory <= arg.avail * Kilo - gpu_mem_needed \/ UsableMemory = MemUnit
<1> DEFINE u == MemUnit
           s == Lower(Lower(mem, Plotsize + gpu_mem_needed), Free)
           r == (s \div u) * u
<1>1. u \in Nat \ {0}
  BY Units DEF Types
<1> DEFINE left == arg.avail * Kilo - gpu_mem_needed
<1>2. s \in Nat /\ s <= mem /\ (GpusFit => s <= left) /\ left \in Int
  <2>1. NonceSize \in Nat \ {0} /\ WordMod \in Nat \ {0} /\ Kilo \in Nat \ {0}
        /\ arg.avail \in Nat
    BY InputTypes, SetupAssumption DEF Types
  <2>2. Plotsize \in Nat
    BY <2>1 DEF Types, Plotsize
  <2>3. left \in Int /\ left < WordMod /\ (GpusFit => left \in Nat)
    <3> DEFINE k == arg.avail * Kilo
    <3>1. k \in Nat /\ k < WordMod
      BY <2>1, SetupAssumption DEF Types
    <3> HIDE DEF k
    <3>2. left = k - gpu_mem_needed /\ (GpusFit <=> gpu_mem_needed <= k)
      BY DEF k, GpusFit
    <3> QED BY <2>1, <3>1, <3>2 DEF Types
  <2>4. Free \in Nat /\ (GpusFit => Free = left)
    <3>1. Free = left % WordMod
      BY DEF Free
    <3> HIDE DEF left
    <3>2. left % WordMod \in 0 .. WordMod - 1
      BY <2>1, <2>3, DivMod
    <3>3. GpusFit => left % WordMod = left
      BY <2>1, <2>3, SmallMod
    <3> QED BY <2>1, <3>1, <3>2, <3>3
  <2> HIDE DEF left
  <2> QED BY <2>2, <2>3, <2>4 DEF Types, Lower
<1> HIDE DEF left
<1> HIDE DEF s, u
<1>3. r \in Nat /\ r <= s /\ r % u = 0
  BY <1>1, <1>2, RoundDown
<1>4. u % u = 0
  BY <1>1, MultipleMod, u * 1 = u
<1> HIDE DEF r
<1>5. UsableMemory = IF r >= u THEN r ELSE u
  BY DEF UsableMemory, Upper, r, s, u
<1>6. /\ UsableMemory \in Nat \ {0} /\ UsableMemory % u = 0
      /\ UsableMemory <= mem \/ UsableMemory = u
      /\ GpusFit => UsableMemory <= left \/ UsableMemory = u
  BY <1>1, <1>2, <1>3, <1>4, <1>5 DEF Types
<1> QED BY <1>6 DEF u, left

(* As long as twice the CPUs fit a byte, there are threads of the CPU. *)
LEMMA ThreadsPositive ==
  ASSUME arg \in Inputs, CpusFitByte
  PROVE  ThreadLimit > 0
<1> DEFINE c == arg.cpus
<1>1. c \in Nat \ {0} /\ 2 * c < ByteMod /\ ByteMod \in Nat \ {0}
      /\ arg.cpu \in -1 .. ByteMod - 1
  BY InputTypes, SetupAssumption DEF CpusFitByte
<1> HIDE DEF c
<1>2. c % ByteMod = c /\ (2 * c) % ByteMod = 2 * c
  <2>1. c \in 0 .. ByteMod - 1 /\ 2 * c \in 0 .. ByteMod - 1
    BY <1>1
  <2> DEFINE e == 2 * c
  <2>2. e \in 0 .. ByteMod - 1
    BY <2>1
  <2> HIDE DEF e
  <2>3. e % ByteMod = e
    BY <1>1, <2>2, SmallMod
  <2> QED BY <1>1, <2>1, <2>3, SmallMod DEF e
<1>3. Cores = c
  BY <1>1, <1>2 DEF Cores, c
<1>4. TwiceCores = 2 * c
  BY <1>2, <1>3, Zenon DEF TwiceCores
<1> QED BY <1>1, <1>3, <1>4 DEF ThreadLimit, NoNumber, Lower

-----------------------------------------------------------------------------
(* One step per block.                                                     *)

LEMMA InitIInv == Init => IInv
BY DEF Init, IInv, Types, Blocks, Sized, GpuMemory, Limit, Buffers, Started, Threads

LEMMA ThreadsStay ==
  ASSUME IInv, pc # "main", arg' = arg, cpu_threads' = cpu_threads
  PROVE  Threads'
BY DEF IInv, Threads, CpusFitByte

LEMMA SizePlotKeeps ==
  ASSUME IInv, SizePlot
  PROVE  IInv'
<1> DEFINE n == IF arg.nonces = 0 THEN arg.free_disk \div NonceSize ELSE arg.nonces
<1>1. arg.sector \in Nat \ {0} /\ arg.nonces \in Nat /\ arg.free_disk \in Nat
      /\ NonceSize \in Nat \ {0}
  BY InputTypes, SetupAssumption DEF IInv, Types
<1>2. n \in Nat
  BY <1>1, DivNat
<1> HIDE DEF n
<1>3. /\ pc = "size" /\ pc' \in {"disk", "exit"} /\ arg' = arg
      /\ nonces' = IF arg.direct_io THEN (n \div arg.sector) * arg.sector ELSE n
      /\ nonces_per_sector' = IF arg.direct_io THEN arg.sector ELSE 1
      /\ UNCHANGED <<gpu_mem_needed, mem>>
  BY DEF SizePlot, n
<1>4. nonces' \in Nat /\ (arg.direct_io => nonces' % arg.sector = 0)
  <2>1. (n \div arg.sector) * arg.sector \in Nat
        /\ ((n \div arg.sector) * arg.sector) % arg.sector = 0
    BY <1>1, <1>2, RoundDown
  <2> QED BY <1>2, <1>3, <2>1, Zenon
<1>5. Threads'
  BY <1>3, ThreadsStay DEF SizePlot
<1> QED BY <1>1, <1>3, <1>4, <1>5
        DEF IInv, Types, Blocks, Sized, GpuMemory, Limit, Buffers, Started

LEMMA GpuInfoKeeps ==
  ASSUME IInv, GpuInfo
  PROVE  IInv'
<1>1. arg.gpu_info \in Nat
  BY InputTypes DEF IInv, Types
<1>2. arg.gpu_info \div 2 \in Nat
  BY <1>1, DivNat
<1>3. Threads'
  BY ThreadsStay DEF GpuInfo
<1> QED BY <1>1, <1>2, <1>3
        DEF GpuInfo, IInv, Types, Blocks, Sized, GpuMemory, Limit, Buffers, Started

LEMMA MemoryLimitKeeps ==
  ASSUME IInv, MemoryLimit
  PROVE  IInv'
<1>1. arg.mem \in Nat \cup {-1} /\ NonceSize \in Nat \ {0} /\ arg.gpu \in BOOLEAN
  BY InputTypes, SetupAssumption DEF IInv, Types
<1>2. pc = "limit" /\ UNCHANGED <<arg, nonces, nonces_per_sector, gpu_mem_needed>>
  BY DEF MemoryLimit
<1>t. Threads'
  BY ThreadsStay DEF MemoryLimit
<1>3. CASE LimitUnusable
  BY <1>2, <1>3, <1>t
     DEF MemoryLimit, IInv, Types, Blocks, Sized, GpuMemory, Limit, Buffers, Started
<1>4. CASE ~LimitUnusable
  <2> DEFINE limit == IF arg.gpu /\ arg.mem > 0 THEN arg.mem - gpu_mem_needed ELSE arg.mem
             share == nonces_per_sector * NonceSize
  <2>1. pc' = "memory" /\ mem' = IF limit = 0 THEN Plotsize ELSE limit
    BY <1>4 DEF MemoryLimit
  <2>2. Plotsize \in Nat /\ share \in Nat \ {0}
    BY <1>1 DEF IInv, Types, Plotsize
  <2>3. arg.gpu /\ arg.mem > 0 => arg.mem >= gpu_mem_needed + share
    BY <1>1, <1>4, <2>2 DEF LimitUnusable, IInv, Types
  <2>4. arg.mem \in Nat
    BY <1>1, <1>4 DEF LimitUnusable, NoNumber
  <2> HIDE DEF share
  <2>5. limit \in Nat /\ (arg.mem > 0 => limit > 0 /\ limit + gpu_mem_needed = arg.mem)
    BY <1>2, <2>2, <2>3, <2>4 DEF IInv, Types, GpuMemory
  <2> HIDE DEF limit
  <2>6. mem' \in Nat /\ (arg.mem > 0 => mem' + gpu_mem_needed = arg.mem)
    BY <2>1, <2>2, <2>4, <2>5
  <2> QED BY <1>2, <1>t, <2>1, <2>6
          DEF IInv, Types, Blocks, Sized, GpuMemory, Limit, Buffers, Started
<1> QED BY <1>3, <1>4

LEMMA SizeBuffersKeeps ==
  ASSUME IInv, SizeBuffers
  PROVE  IInv'
<1>1. /\ pc = "memory" /\ pc' \in {"spawn", "exit"} /\ mem' = UsableMemory
      /\ num_buffer' = NumBuffer /\ buffer_size' = UsableMemory \div NumBuffer
      /\ UNCHANGED <<arg, nonces, nonces_per_sector, gpu_mem_needed>>
  BY DEF SizeBuffers, NextUnless
<1>2. NumBuffer' = NumBuffer /\ MemUnit' = MemUnit /\ GpusFit' = GpusFit
  BY <1>1 DEF NumBuffer, MemUnit, Multiple, GpusFit
<1>3. /\ UsableMemory \in Nat \ {0} /\ UsableMemory % MemUnit = 0
      /\ UsableMemory <= mem \/ UsableMemory = MemUnit
      /\ GpusFit => UsableMemory <= arg.avail * Kilo - gpu_mem_needed \/ UsableMemory = MemUnit
  BY UsableMemoryUnits DEF IInv
<1>4. arg.mem > 0 => (mem' + gpu_mem_needed <= arg.mem) \/ mem' = MemUnit
  <2>1. SUFFICES ASSUME arg.mem > 0, UsableMemory <= mem
                 PROVE  UsableMemory + gpu_mem_needed <= arg.mem
    BY <1>1, <1>3
  <2>2. mem + gpu_mem_needed = arg.mem
    BY <1>1, <2>1 DEF IInv, Limit
  <2> QED BY <1>3, <2>1, <2>2 DEF IInv, Types
<1>5. Types' /\ Sized' /\ GpuMemory' /\ Limit'
  BY <1>1, <1>3 DEF IInv, Types, Blocks, Sized, GpuMemory, Limit
<1>6. Buffers'
  <2>1. mem' % MemUnit' = 0 /\ mem' > 0
    BY <1>1, <1>2, <1>3
  <2>2. num_buffer' = NumBuffer' /\ buffer_size' = mem' \div NumBuffer'
    BY <1>1, <1>2
  <2>3. arg'.mem > 0 => (mem' + gpu_mem_needed' <= arg'.mem) \/ mem' = MemUnit'
    BY <1>1, <1>2, <1>4
  <2>4. GpusFit' => (mem' + gpu_mem_needed' <= arg'.avail * Kilo) \/ mem' = MemUnit'
    <3> DEFINE k == arg.avail * Kilo
    <3>1. k \in Int
      BY InputTypes, SetupAssumption DEF IInv, Types
    <3> HIDE DEF k
    <3>2. GpusFit => (UsableMemory + gpu_mem_needed <= k) \/ UsableMemory = MemUnit
      BY <1>3, <3>1 DEF IInv, Types, k
    <3> QED BY <1>1, <1>2, <3>2 DEF k
  <2> QED BY <2>1, <2>2, <2>3, <2>4 DEF Buffers
<1>7. Threads'
  BY <1>1, ThreadsStay DEF SizeBuffers
<1> QED BY <1>5, <1>6, <1>7 DEF IInv

LEMMA StepIInv == IInv /\ [Next]_vars => IInv'
<1> SUFFICES ASSUME IInv, [Next]_vars PROVE IInv'
  OBVIOUS
<1> USE DEF IInv, Types, Blocks, Sized, GpuMemory, Limit, Buffers, Started, Threads,
            CpusFitByte, GpusFit
<1>1. CASE WorkOutThreads
  <2>1. CpusFitByte => cpu_threads' > 0 \/ arg.gpu
    BY <1>1, ThreadsPositive DEF WorkOutThreads
  <2> QED BY <1>1, <2>1 DEF WorkOutThreads, NextUnless
<1>2. CASE CheckDisk
  BY <1>2 DEF CheckDisk
<1>3. CASE Ended \/ UNCHANGED vars
  BY <1>3 DEF Ended, vars, NumBuffer, MemUnit, Multiple
<1> QED
  <2> HIDE DEF IInv
  <2> QED BY <1>1, <1>2, <1>3, GpuInfoKeeps, SizePlotKeeps, MemoryLimitKeeps,
             SizeBuffersKeeps DEF Next

LEMMA Invariance == Spec => []IInv
BY InitIInv, StepIInv, PTL DEF Spec

-----------------------------------------------------------------------------
(* What follows.                                                           *)

(* A buffer of a run that is started is a positive number of units. *)
LEMMA BufferUnits ==
  ASSUME IInv, Started
  PROVE  /\ buffer_size \in Nat \ {0}
         /\ buffer_size % (NonceSize * Multiple) = 0 /\ num_buffer * buffer_size = mem
<1> DEFINE b == NumBuffer
           m == NonceSize * Multiple
           x == mem
<1>1. b \in Nat \ {0} /\ m \in Nat \ {0} /\ MemUnit = b * m
  BY Units, SetupAssumption DEF IInv, Types
<1>2. x \in Nat \ {0} /\ x % (b * m) = 0 /\ num_buffer = b /\ buffer_size = x \div b
  BY <1>1 DEF IInv, Types, Buffers
<1> HIDE DEF b, m, x
<1>3. x \in Int
  BY <1>2
<1>4. x \div b \in Int /\ x = b * (x \div b) /\ (x \div b) % m = 0
  BY <1>1, <1>2, <1>3, Split, Zenon
<1> DEFINE q == x \div b
<1>5. q \in Int /\ x = b * q
  BY <1>4
<1> HIDE DEF q
<1>6. q > 0
  <2>1. q <= 0 => b * q <= 0
    BY <1>1, <1>5
  <2> QED BY <1>2, <1>5, <2>1
<1> QED BY <1>2, <1>4, <1>5, <1>6 DEF q, m, x

(* A run that is started has at least one buffer's worth of whole nonces, sectors *)
(* and, with a GPU, sixteens in each buffer, and reports the memory of all of      *)
(* them.                                                                           *)
THEOREM WholeBuffers == Spec => []BuffersWhole
<1>1. IInv => BuffersWhole
  BY BufferUnits DEF BuffersWhole
<1> QED BY <1>1, Invariance, PTL

(* With direct i/o every chunk of a new plot starts and ends on a sector. *)
THEOREM AlignedChunks == Spec => []ChunksAligned
<1>1. IInv => ChunksAligned
  <2>1. SUFFICES ASSUME IInv, Started, arg.direct_io PROVE ChunksAligned
    BY DEF ChunksAligned
  <2> DEFINE s == arg.sector
             b == buffer_size \div NonceSize
  <2>2. /\ s \in Nat \ {0} /\ nonces_per_sector = s
        /\ nonces \in Nat /\ nonces % s = 0
    BY <2>1, InputTypes DEF IInv, Types, Sized, Started
  <2>3. Multiple \in Nat \ {0} /\ Multiple % s = 0
    BY <2>1, <2>2, Units, UnitOfSectors DEF IInv, Types
  <2>4. b \in Int /\ b % Multiple = 0
    <3> DEFINE x == buffer_size
               m == Multiple
    <3>1. x \in Int /\ x % (NonceSize * m) = 0 /\ m \in Nat \ {0}
      BY <2>1, <2>3, BufferUnits
    <3>2. NonceSize \in Nat \ {0}
      BY SetupAssumption
    <3> HIDE DEF x, m, s
    <3>3. x \div NonceSize \in Int /\ (x \div NonceSize) % m = 0
      BY <3>1, <3>2, Split, Zenon
    <3> QED BY <3>3 DEF x, m
  <2> HIDE DEF s, b
  <2>5. b % s = 0
    BY <2>2, <2>3, <2>4, Transitive, Zenon
  <2>6. ASSUME NEW k \in Nat
        PROVE  /\ (k * b) % s = 0
               /\ Lower(b, nonces - k * b) % s = 0
    <3>1. k \in Int /\ nonces \in Int
      BY <2>2
    <3>2. (k * b) % s = 0
      BY <2>2, <2>4, <2>5, <3>1, ProductOfMultiple, Zenon
    <3> DEFINE start == k * b
    <3>3. start \in Int /\ start % s = 0
      BY <2>4, <3>1, <3>2
    <3> HIDE DEF start
    <3>4. (nonces - start) % s = 0
      BY <2>2, <3>1, <3>3, SumOfMultiples, Zenon
    <3>5. Lower(b, nonces - start) % s = 0
      BY <2>5, <3>4, Zenon DEF Lower
    <3> QED BY <3>2, <3>5 DEF start
  <2>7. \A k \in 0 .. nonces : k \in Nat
    BY <2>2
  <2> QED BY <2>2, <2>6, <2>7 DEF ChunksAligned, s, b
<1> QED BY <1>1, Invariance, PTL

(* The user's memory limit is kept, the GPUs' share included, unless every buffer *)
(* has the smallest size there is.                                                *)
THEOREM LimitKept == Spec => []LimitKeptOrMinimal
<1>1. IInv => LimitKeptOrMinimal
  BY DEF IInv, Buffers, LimitKeptOrMinimal
<1> QED BY <1>1, Invariance, PTL

(* The free memory is exceeded only if the GPUs alone need more than that (the     *)
(* subtraction then wraps around), the minimum of one unit apart.                  *)
THEOREM FreeMemoryUnlessWrapped == Spec => [](GpusFit => FreeMemoryKept)
<1>1. IInv => (GpusFit => FreeMemoryKept)
  BY DEF IInv, Buffers, FreeMemoryKept
<1> QED BY <1>1, Invariance, PTL

(* A run without a device that hashes is only started on machines on which twice   *)
(* the CPUs do not fit a u8.                                                       *)
THEOREM DeviceUnlessWrapped == Spec => [](CpusFitByte => SomeDeviceHashes)
<1>1. IInv => (CpusFitByte => SomeDeviceHashes)
  BY DEF IInv, Threads, SomeDeviceHashes, Started
<1> QED BY <1>1, Invariance, PTL
=============================================================================
