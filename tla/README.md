# Engraver, specified

TLA+ specifications of engraver, the PoC2 plotter in `src/`, with the TLC runs
that check them and the TLAPS proofs about them.

## 1. The system

Engraver fills a *plot file*: `nonces` nonces of 256 KiB, each cut into 4096
*scoops* of 64 bytes. The file is ordered by scoop first: scoop `s` of nonce `p`
lies at byte `(s * nonces + p) * 64`. A plot may be far larger than memory, takes
hours to days, and can be interrupted and resumed.

| part | source | state | operations |
|---|---|---|---|
| command line | `main.rs` | options, number of CPU threads | parse, work out the threads |
| plotter | `plotter.rs` | plot size, memory, buffers, resume offset | size and check, create / resume / refuse the file, spawn and join the workers |
| scheduler thread | `scheduler.rs` | `nonces_hashed`; per buffer `requested`, `processed` | take an empty buffer, give out tasks, count results, send the full buffer, end the GPU threads |
| CPU tasks | `cpu_hasher.rs`, `c/noncegen_*.c`, `poc_hashing.rs` | a task | hash into the buffer, ask for work, report |
| GPU threads | `gpu_hasher.rs` | `first_run`, `buffer_id`, `last_task` | hash, transfer, both, end |
| OpenCL device | `ocl.rs`, `ocl/kernel.cl` | two device buffers, two queues, host memory | hash, map or read, unpack |
| writer thread | `writer.rs` | `nonces_written` | take a full buffer, write 4096 scoops, write the marker, return the buffer |
| buffers, channels | `buffer.rs`, `plotter.rs` | one or two buffers with a mutex, two bounded channels | send, receive, lock |
| plot file | `writer.rs`, `utils.rs` | the data, and in its last 8 bytes the *marker*: a u32 offset and `0xAFFEAFFE` | preallocate, write, read and write the marker |
| nonce generation | `poc_hashing.rs`, `c/noncegen_*.c`, `ocl/kernel.cl` | the cache, a task | hash a share, one by one or in vectors; end messages; XOR, shuffle, store |
| hash | `shabal256.rs`, `c/mshabal_*.c`, `c/sph_shabal.c` | Shabal's A, B, C and counter, buffers | a block, the last block; stream one message, or one in each lane of a vector; whole messages and deadlines in one call |

How they interact. Main creates or opens the file, then spawns the scheduler
(hasher) and the writer, both with the same offset. One or two buffers circulate:
the writer sends empty ones, the scheduler full ones. No message says which nonces
a buffer holds; both workers count. While a buffer is hashed, the scheduler gives
pieces of it to the CPU pool and to the GPU threads, each with a raw pointer into
the buffer, and counts their results; the devices answer on one channel. A GPU
thread returns the nonces of a task only when it gets the next one. After each
chunk but the last the writer puts a marker over the last bytes of the file; the
last chunk overwrites it with plot data. A run that finds the file reads the marker
and resumes, or refuses the file.

What is hard, and what makes each part correct:

* the file: killed between any two steps, a run leaves a marker below which
  everything is on file, or no marker for one of two harmless reasons;
* writer and hasher: in step without telling each other, never both waiting,
  though both send while they hold a mutex;
* scheduler and devices: each nonce hashed once, into its slot, and in host
  memory before the buffer moves on; no stale message, no stale pointer; work
  always finds a device;
* generation: six implementations of the same nonce, which must agree to the
  byte, and may write to nothing but their own slots of a cache they share;
* hashing: eleven routines that digest a message, one by one or in 4, 8 or 16
  lanes, which must all come to the same digest, whatever was hashed before;
* sizing: whole, aligned buffers within the limits the user gave;
* failure: a thread that panics tells nobody, and nothing is synced to the disk;
  what is left is a file that can be trusted, and a process that ends or can only
  be killed.

`PROJECT.json` lists the hazards of the code line by line, with the properties
that would be violated if they became real.

## 2. The modules

| module | models | abstract specification it implements |
|---|---|---|
| `Pipeline` | main, hasher (one step per buffer), writer (one step per `write_all`), channels, mutexes, file and marker; runs that are killed and started again | `ResumablePlot` |
| `Scheduler` | how a buffer is hashed: scheduler, CPU pool, GPU threads, their messages; the writer as an environment | `ChunkStream` |
| `GpuDevice` | one GPU: sizing, allocation, two command queues, two device buffers, pinned memory or zero copy | `GpuPipe` |
| `NonceGen` | what a task does to the cache: every generator, the kernel's launches, the unpacking | the definition of a PoC2 nonce, `Reference` in the module |
| `PlotLayout` | addresses in caches and vectors, the PoC2 shuffle | |
| `Shabal256` | compression on 32-bit words: Rust, SIMD, and the sph functions for whole messages and deadlines | each other |
| `ShabalStream` | `sph_shabal256`, fed in pieces, with bits at the end | the padded message |
| `MultiShabal` | the four `mshabal_*`: lanes, gathering and scattering of words, init, update, close, `hash_fast`, `deadline_fast` | the padded message of each lane |
| `ShabalEnd` | the byte that ends a message, as the code makes it and bit by bit | |
| `Setup` | command line and machine to threads, plot size, buffers; every refusal | |
| `Engraver` | whole runs with failing parts: sizes and options, main's listen and joins, hasher and writer at one step per chunk, panics, kills, power failures | |

`ResumablePlot`, `ChunkStream` and `GpuPipe` say what a component promises to the
next. They are where the modules meet: `Pipeline`'s hasher fills a buffer in one
step because `Scheduler` implements `ChunkStream`; `Scheduler` lets a GPU thread
hash one task and transfer another in one step because `GpuDevice` implements
`GpuPipe`; both take a hashed slot to hold its nonce because of `NonceGen`, which
takes the digest as given because of `Shabal256`; and the assumptions on buffers
and threads at the head of `Pipeline` and `Scheduler` are what `Setup` is about.
`Engraver` puts sizing, main, workers and file together, at the price of detail: what
those modules show of a chunk, a marker or a buffer is one step there, and what
they take for granted (a thread does not die, a file is opened as it was made, the
page cache reaches the disk) may fail.

`MC*` modules give TLC its sets. The proofs about a module are in a module of
their own: `PipelineProofs`, `SchedulerProofs`, `GpuDeviceProofs`, `NonceGenProofs`,
`ShabalProofs` (both hashers that stream: `ShabalStream` and `MultiShabal`),
`SetupProofs`, `EngraverProofs`. `Rounding` has the facts about `\div` and `%` and the
induction over numbers that the last four share.
Names follow the code; an operator that ends in a variant of another's name and is
commented "Mutant of" is not part of a specification, but a plausible mistake the
properties must notice.

### Pipeline

`file[s][p]` is the nonce whose scoop `s` is stored at position `p`; a nonce is its
number. `tail` is the last eight bytes: the offset, modulo `ProgressMod` (the u32),
and whether the signature follows. Where the marker and the last scoop of the last
nonce overlap, `TailWith` follows what a write does to both. Steps of the main
thread are `StartNew`/`StartResume`/`StartRefused`/`StartBenchmark`,
`PreallocateFails`, the two writes of the first marker, `Finish`, and the user who
deletes a refused file. `HasherTake` ... `HasherRelease` and `WriterTake` ...
`WriterRelease` are the loops of the two threads: each channel operation, lock,
`write_all` and half of the marker is a step. `Crash` kills the process anywhere;
`TornCrash` in the middle of a `write_all`.

### Scheduler

`requested` and `processed` are the scheduler's locals, `rx` the devices' channel,
`cpu` the set of tasks of the pool with their phase (queued, hashing, reporting),
`gpu[g]` a GPU thread's locals and what its device buffers hold, `inbox` the
tasks' channel of each GPU. The kickoff loops are taken one iteration at a time, the
control loop one message at a time. `GpuShare` is the rule for what a GPU gets of a
remainder.

### GpuDevice

`queue["a"]` takes launches and unmaps, `queue["b"]` reads and maps; the device runs
the head of either at any time (OpenCL queues are in order when nothing else is
asked for, ocl.rs:73). A vector in memory is described by the task it is of and the
number of launches that have worked on it in order. A read copies one vector per
step; the unpacking takes vectors in any order, as rayon does.

### NonceGen, PlotLayout

Words have eight bytes, a nonce `2 * NumScoops` hashes. `Digest` stands for
Shabal-256: a polynomial modulo a prime that depends on every word and its place.
Everything around it is the code's: three ways to end a message, the cap, the order
from the last hash to the first, the leftovers of a vector, the kernel's launches
with their overlapping bounds, the final hash, the shuffle, the address in the
cache. `Reference` is written from the definition of PoC2 and shares none of it.

### Shabal256, ShabalStream, MultiShabal

`Shabal256` computes on real 32-bit words (pairs of halves, as TLC's integers are
signed). One lane stands for all: no instruction of the rounds crosses lanes.
`SimdInit` and `SimdReset` are what `noncegen` relies on when it hashes message after
message with one context; `Deadline` is a miner's use of the same context.
`ShabalStream` keeps the buffering of sph_shabal and represents the state by the
blocks it absorbed, which is all a digest depends on. `UpdateLong`, `FillBuffer` and
`UpdateReturns` are one call: READ_STATE, the loop, WRITE_STATE.

`MultiShabal` is about what does cross lanes: which buffer, which offset and which
vector a word comes from and goes to. The state of a lane is the blocks it absorbed,
each with the counter it was mixed with, so that a counter that is wrong shows in
the digest. The four files differ in the number of lanes and in the offset into the
buffers, `j`, `j / 2` or `j / 4`; a definition that stands for all four (`Update`,
`CloseContext`, `HashFast`, ...) takes the instruction set, or the size of its
vectors, as a parameter. Every byte
and word of every lane is different. `live` are the lanes that had data in every
update: of the others the headers promise nothing. A lane that is given NULL is not in
the domain of the data. The names of `MultiShabal` keep clear of those of
`ShabalStream` (`msc`, `MultiSpec`, `InitAgain`), since `ShabalProofs` extends both.

### Setup

One step per block of `main` and of the first half of `Plotter::run`, in their
order, with their early ends. `ByteMod` and `WordMod` are the widths of u8 and u64.

### Engraver

`main` is where `Plotter::run` is: `listen` in `mb.listen()`, `join_writer`, `join_hasher`;
`hasher` and `writer` are `panicked` or `stuck` when they will never go on. A file
(`files`, by the number of nonces in its name, since rounding for direct i/o changes
the name) has the nonces that are on it and its marker, and three fields for the
properties alone: `marks`, the markers that may be on the disk, `lost`, what a power
failure took, `buffered`, whether it was ever written without direct i/o.
`WriterPanics` leaves any part of a chunk (`Torn`); it must happen where direct i/o
meets an address that is no multiple of a sector, and may happen anywhere.
`ControlLoopStuck` is the loop at scheduler.rs:125 without a message to come: no
nonces, or a GPU thread that panicked. `PowerFails` keeps any subset of the data
written since the file was last read from disk, and any marker it had.

## 3. What is checked

Each run takes less than two minutes. Every property has a mutant in `PROJECT.json`:
a bug of the kind the code could have, under which TLC finds the property violated.

| run | states | shows |
|---|---|---|
| `pipeline_resume` | 12,940 | up to three runs, killed anywhere, with other buffers each: the file can be resumed, or is refused while empty or but for its last scoop whole (`RefusedEmptyOrWhole`); what finishes is complete (`PlotComplete`); hasher and writer stay in step (`InStep`); nobody waits for a channel with a mutex in hand (`NeverBlocksLocked`); the marker never moves back; a benchmark writes nothing; a run that nobody kills ends (`RunEnds`); `Promise` |
| `pipeline_faults` | 69,211 | the marker fails to be written, in either half, and its offset wraps: what it says can still be trusted (`ResumeSafe`); the invariant of the proofs, `IInv`, with `TypeOK` in it |
| `scheduler` | 185,368 | two CPU threads, two GPUs, two buffers, a resumed plot: `EverySlotAccounted`, `NothingLeftBehind`, `CpuBacklog`, `TransferFindsLast`, `Delivers` (implements `ChunkStream`); no deadlock; every plot gets written (`AllWritten`) |
| `gpu_device` | 37,794 | pinned and zero copy, 104 kinds of cards and requests: `HashesThenReports` (implements `GpuPipe`; the driver keeps pinned memory apart, see section 6), `NeverHashesMapped` (but for NVIDIA cards without zero copy, whose buffer a is mapped for good), `MemoryReserved` |
| `noncegen_shares` | 1,433 | each kind of hasher beside each other on one cache, shares shorter than, as long as and longer than a vector: `NoncesAreReference`, `OtherSlotsUntouched`, `LaunchesJoin` |
| `shabal_256` | 226 | published digests (`KnownDigests`); the hashers agree after every block (`BlocksAgree`), digest (`DigestsAgree`) and deadline (`DeadlinesAgree`), with a context used before |
| `shabal_stream` | 11,826 | messages of up to seven bytes in all cuts, ended on a byte or with bits, each with a fresh context: `Arriving`, `DigestOfMessage` |
| `shabal_lanes` | 37,200 | 4, 8 and 16 lanes, with and without data: each lane absorbs its own bytes (`LanesArriving`), its digest is that of its message (`LaneDigests`), and so for the one-call functions (`FastDigests`) |
| `setup_limits` | 167,353 | every combination of sizes, options, machines: whole buffers, aligned chunks, memory limit |
| `engraver` | 188,179 | up to three runs with other options each, every failure: `DirectStaysAligned`, `HolesAreLost`, `EndsUnlessHopeless`, `HopelessStays` |
| `setup_devices` | violated | finding 1 |
| `setup_free_memory` | violated | finding 2 |

What `engraver` says in words. Resuming with direct i/o fails at its first write if
the offset was left by a run without it, and never otherwise (`DirectStaysAligned`):
memory limits, buffers and GPUs may change from run to run. Whatever fails, a nonce
below the marker or of a plot that was reported complete was written; it can be
missing after a power failure, and then nothing tells (`HolesAreLost`). A run ends
by itself, or is in one of three hopeless states (`EndsUnlessHopeless`), which it
leaves only when it is killed (`HopelessStays`): the hasher has gone or waits for a message nobody
sends, with the writer waiting for the hasher; the same without `--quiet`, where main
waits for a progress bar whatever the writer does; the writer has gone without
`--quiet`, so that main does not get as far as the join that would report it.

### Bounds, and why they are enough

* `Pipeline`: four nonces with buffers of 2 and 3: a plot of whole buffers and one
  with a remainder, a resume in the middle of another run's chunk. Two scoops, since
  the code treats only the last one apart. `TaskSize` 2 cuts a chunk of 3 into two
  writes. `MaxRuns` 3: the third run finds what a second, resumed run left. The
  faults run has five nonces and an offset modulo 3, so that it wraps inside the
  plot.
* `Scheduler`: 14 nonces in buffers of 8, resumed at nonce 2, CPU tasks of one nonce
  and GPU tasks of two. After the kickoff two nonces of the first buffer are left:
  for both CPU threads, for a GPU, or one of them for a GPU that could take two; of
  the second buffer each device gets another share. Two of each device let results
  overtake each other in every order.
* `GpuDevice`: three tasks use both device buffers and the first one again; two
  launches tell first from last; 1 or 2 vectors.
* `NonceGen`: twelve hashes against a cap of four give all endings (no data, half a
  block, whole blocks, capped) and even and odd hashes of both kinds. Vectors of 2,
  3 and 4 and shares of 1, 2, 3 and 5 nonces give shares without a vector, of whole
  vectors and with something left. Nonce numbers have two digits, so that byte order
  matters.
* `Shabal256`: messages of no, one and two blocks, a deadline, and two messages after
  each other in every combination.
* `ShabalStream`: blocks of three bytes and messages of up to seven: cuts before, at
  and behind two block ends. Bits: none of a byte that has some, one, three, seven.
* `MultiShabal`: real sizes. Pieces of 0, 10, 54, 64 and 138 bytes begin a block, end
  one, skip it, and span two with a rest; lanes are switched off first, last, all but
  one and all. Three updates let a lane be off in the first, the middle or the last.
  Two messages and two digest sizes with one context; up to two blocks and two calls
  in a row of the fast functions.
* `Setup`: a byte of 8 values and 1 to 9 CPUs make `cores` and `2 * cores` wrap; sectors
  smaller than, equal to and unequal to the multiple of GPUs.
* `Engraver`: sizes 1 and 6 with sectors of 2: a plot that is rounded to nothing by
  direct i/o, one that fits; with memory for 1, 3 or all nonces, so that a run without
  direct i/o leaves an odd offset. Three runs: one to leave the file, one to fail on
  it, one to find what that left. One power failure, of one file.

### Fairness

`Pipeline!FairSpec`: weak fairness of the main thread, the hasher and the writer,
which are operating system threads; none for starting, killing or deleting. A
thread that waits for a mutex or a channel is disabled, and no two threads compete
for one lock again and again, so that strong fairness is not needed.
`Scheduler!FairSpec`: weak fairness of the scheduler, every GPU thread, the writer,
and of the pool as a whole: rayon takes some task as long as there are any. That
suffices although it may starve a task, since a buffer has finitely many.
`Engraver!FairSpec`: weak fairness of main, hasher and writer as in `Pipeline`, each
with its panics: a fair thread may still fail. None for starting, killing, the power,
or a device that is gone.

## 4. What is proved

With TLAPS, for every value of the constants that the named assumption at the head
of a module allows. Most of what these assume are the ranges of sizes and flags; the
rest is what the code relies on: a device that hashes (`SchedulerAssumption`, see
finding 1), sectors and the 16 being powers of two (`SetupAssumption`,
`EngraverAssumption`: the smaller divides the larger), sizes below 2^64
(`SetupAssumption`), a byte and fewer than eight of its bits (`BitsAssumption`,
`CallerAssumption`), lanes that exist (`CallerAssumption`), digests of 32 to 512 bits as
the headers ask for (`OutSizeAssumption`), an even cap and launches that divide a nonce
(`NonceGenAssumption`), and hashers with slots of their own, for a GPU as many as its
buffer has room for (`SharesAssumption`: this is how `Scheduler` gives them out, and
`EverySlotAccounted` is proved of it).

| theorem | statement |
|---|---|
| **`PipelineProofs`** | |
| `Inductive`, `Invariance` | `IInv` is inductive; `Spec => []IInv` |
| `TypeCorrect` | `Spec => []TypeOK` |
| `ResumeIsSafe` | `Spec => []ResumeSafe`: a marker never promises a nonce that is not on file |
| `FinishedIsComplete` | `Spec => []PlotComplete` |
| `WorkersInStep` | `Spec => []InStep` |
| `SendsNeverWait` | `Spec => []NeverBlocksLocked` |
| `BenchmarkNeverWrites` | `Spec => BenchmarkReadOnly` |
| `MarkerNeverMovesBack` | `Nonces <= ProgressMod => (Spec => MarkerMonotone)` |
| `NoWorkRefused` | `~MarkerFaults => (Spec => []RefusedEmptyOrWhole)` |
| `KeepsPromise` | `Nonces <= ProgressMod => (Spec => Promise)`: `Pipeline` implements `ResumablePlot` |
| **`SchedulerProofs`** | |
| `TypeCorrect` | `Spec => []TypeOK` |
| `SlotsAccounted` | `Spec => []EverySlotAccounted` |
| `NoLeftovers` | `Spec => []NothingLeftBehind` |
| `BacklogBounded` | `Spec => []CpuBacklog` |
| `LastIsFound` | `Spec => []TransferFindsLast` |
| `DeliversChunks` | `Spec => Delivers`: `Scheduler` implements `ChunkStream` |
| **`GpuDeviceProofs`** | |
| `Allocated` | `Spec => []MemoryReserved` |
| `Undisturbed` | `Spec => []NeverHashesMapped` |
| `ReportsWhatIsHashed` | `HostApart => (Spec => HashesThenReports)`: `GpuDevice` implements `GpuPipe` |
| **`NonceGenProofs`** | |
| `GenInvAlways` | `Spec => []GenInv`: every word of the cache is that of the nonce stored there, or blank |
| `NoncesAreReferenceHolds` | `Spec => []NoncesAreReference`: all six generators make the nonce that PoC2 defines |
| `OtherSlotsUntouchedHolds` | `Spec => []OtherSlotsUntouched` |
| `LaunchesJoinHolds` | `Spec => []LaunchesJoin`: however a nonce is cut into launches |
| **`ShabalProofs`** | |
| `MarkIsEnd` | the byte made by shifts and masks is the bits one by one |
| `ArrivesWhole` | `Spec => []Arriving` |
| `DigestsMessage` | `Spec => []DigestOfMessage` |
| `LanesArrive` | `MultiSpec => []LanesArriving` |
| `LanesDigest` | `MultiSpec => []LaneDigests` |
| `FastCallsDigest` | `MultiSpec => []FastDigests` |
| **`SetupProofs`** | |
| `WholeBuffers` | `Spec => []BuffersWhole` |
| `AlignedChunks` | `Spec => []ChunksAligned` |
| `LimitKept` | `Spec => []LimitKeptOrMinimal` |
| `FreeMemoryUnlessWrapped` | `Spec => [](GpusFit => FreeMemoryKept)` |
| `DeviceUnlessWrapped` | `Spec => [](CpusFitByte => SomeDeviceHashes)` |
| **`EngraverProofs`** | |
| `OnlyOutagesMakeHoles` | `Spec => []HolesAreLost` |
| `DirectAligned` | `Spec => []DirectStaysAligned` |
| `HopelessForGood` | `Spec => HopelessStays` |

Hypotheses of theorems. `Nonces <= ProgressMod`: the offset fits its 32 bits, that is,
a plot has at most 2^32 nonces (a petabyte); `pipeline_faults` shows that even a
wrapped offset can be trusted, but not that it only grows. `~MarkerFaults`: writing
the marker does not fail; when it does, a run goes on with a file that has none.
`HostApart`: no card has the driver put pinned memory where a device buffer is
(see section 6). `GpusFit` and `CpusFitByte` exclude exactly the two wraparounds of
findings 1 and 2: the proofs show that the findings have no other cause.

Each proof has one lemma per action and in it one step per conjunct the action can
disturb. The properties are not inductive; what each needs is this.

*Pipeline.* That a marker can be trusted depends on what the writer put into the
file before it, which depends on the chunk in its hands being the one it counts,
which depends on the order of the channel and on no buffer being hashed while it is
queued. `IInv` says just this (TLC checks it in `pipeline_faults`):

* `Owned`: each buffer is in one place, a channel or a worker's hands. Without it a
  hash step could change a chunk that is queued.
* `Stream`: the channel to the writer holds consecutive chunks, from the one the
  writer expects to the one the hasher is at. This is what makes two separate
  counters agree.
* `Counters`: where a worker starts a chunk there is a nonce left; the marker is
  only written between chunks and never in a benchmark.
* `Filled`: how far the file has been filled, chunk, scoop and piece at a time, and
  that the marker is gone with the last chunk.
* `Marking`: between the two halves of the marker, the offset is already one that
  can be trusted, for the old signature may still follow it.

The properties of the promise need `Recorded` (the file before the workers start, and the marker
never ahead of the writer), `Circulating` (no buffer of another run is under way, so
that a channel has room for every buffer that exists) and `Unmarked` (a file without
a marker while nothing fails). The refinement goes step by step: a `write_all` of a
last scoop stores nonces, any other one is a stutter; the signature of the marker
publishes a resume point.

*Scheduler.* The requested slots of a buffer are divided between the tasks under way,
the reports not read and the slots that hold their nonce (`Pieces`). A device's task
is known by where it is (`Given`): in the pool's queue, a GPU's inbox, or one of a
GPU's two device buffers. That the last report of a buffer leaves nothing behind
needs the number of requests for work under way (`CpuAsks`, `GpuAsks`): a CPU task's
request is always followed by its report in the channel, and a GPU asks once and
waits. `Queue` ties the buffers to the chunks the writer expects, and gives the
refinement of `ChunkStream`.

*GpuDevice.* `QueueA` and `QueueB` say what may still be in the two queues at each
place of the host thread, and what is mapped; these suffice for `Undisturbed`. The
contents follow: how many launches have worked on the vectors being hashed
(`Hashing`), that the last task is whole in the other buffer (`Hashed`), how far the
read has come (`Transferred`), what the cache holds (`Entries`, `Unpacked`).

*ShabalStream.* `Taken` is `Arriving` without its partial block text: the blocks
absorbed and the buffer against the message itself. Blocks are at places
`q * BLOCK + r`, and `Composed` and `Place` carry the arithmetic. `MarkIsEnd` splits
on the eight numbers of bits; the recursive function of `EndOfBits` is unfolded by
naming the function it must be (`ByteSum`).

*MultiShabal.* `Lane(c, k, out_size, t, n)` says what lane `k` of a context has when it
was given the first `n` bytes of the text `t`: the history of `n \div 64` blocks, the
counter, and the rest in its buffer. The four instruction sets are told apart in one
lemma, `GatheredIs`: whatever the offset `j`, `j / 2` or `j / 4` and the vector, a lane
gathers the sixteen words of its own buffer. From there on update (whole blocks where
they lie, or a buffer that is filled first), close and init are shown to keep `Lane`,
once for all of them. Length and counter are shared by all lanes, so a lane without data
cannot disturb the others. The loops of the fast functions are recursive;
their value after `n` blocks is `FastAfter`, by induction. `LaneInv` adds that the
context of the fast functions is fresh before every call (`FreshFast`), which is why the
second call digests as the first.

*NonceGen.* No message is compared with another. Each generator (SIMD, Rust, kernel) is
shown to write, hash after hash from the last to the first, the word of the definition:
`DownInduction` goes over the hashes, and the three ways to end a message are the cases
of the cap and of even and odd hashes. What a vector or a GPU's buffer is unpacked into
goes step by step (`SetInduction`). An address of a cache or of a vector is taken apart
into slot, hash and word (`RowAndCell`); that the shuffle moves no two hashes to one
place follows from taking it apart again. `GenInv` then says of every
word of the cache, by its address alone, which word of which nonce it is, or that it is
blank (`Contents`), and of a GPU's buffer that it holds the hashes of the launches so
far (`Devices`). The properties, which look at nonces scoop by scoop, are read off it.

*Setup.* One conjunct for what each block leaves for the next: units, what is left of
the limit, threads.

*Engraver.* `FilesGood`: not only the marker of a file but every one that a power
failure may bring back promises only what was written or lost, and is on a sector if
the file was never written without direct i/o. `Waits`: who can be waiting for whom.

What the proofs changed in the models. `Engraver` let a power failure bring back
any marker except the state *without* one, after a last chunk had written over the
marker: `FilesGood` was not inductive, and `Marked` now counts `NoPoint` among the
markers. `Setup` and `Engraver` did not say that sectors are powers of two, which
`BuffersWhole` and `DirectStaysAligned` need as soon as a GPU rounds to 16. `Scheduler`
counts slots by `Cardinality` instead of summing over tasks. `NonceGen` states what its
hashers take from the scheduler (`SharesAssumption`): it used to be true of the shares
of the run and nothing said so. It writes a part of memory with `Over`, whose
definition the prover can see, not with `@@`, and `Evaluated` keeps TLC from computing
a nonce again for each of its words. `MultiShabal` has no NULL among the data of its
lanes any more.

## 5. What is only model-checked

* Liveness (`RunEnds`, `AllWritten`, `EndsUnlessHopeless`): the prover has
  no fairness and no ENABLED.
* `Shabal256` (`KnownDigests`, `BlocksAgree`, `DigestsAgree`, `DeadlinesAgree`): it
  computes on words with Bitwise, out of the prover's reach, and what it says is the
  digests of sixty-four-byte blocks, number for number.

The theorems on induction in the library take operators as parameters, which the
installed provers cannot instantiate. `Rounding` has induction over sets of numbers
instead: `Least` follows from the well-foundedness of `<`, and `SetInduction` and
`DownInduction` follow from it. A fact to be proved by induction is put as the set of the
numbers it holds of.

## 6. Findings

1. *Threads wrap to zero* (`setup_devices`). The number of CPU threads is worked out
   in u8. With 256 logical CPUs, or 128 and a thread limit, it is 0, no task is
   given out, and the scheduler waits for ever.
2. *The bound on free memory disappears* (`setup_free_memory`). If the GPUs need more
   host memory than is free, the subtraction wraps around in u64 (or panics in a
   debug build).

Worth knowing, though no run refutes it:

* A memory limit below the smallest buffers is exceeded by them (`LimitKeptOrMinimal`
  states the exception).
* A plot of fewer nonces than a sector holds is rounded to none by direct i/o: a new
  file cannot be allocated and stays behind, empty, to be refused by every later run;
  a benchmark waits for ever.
* A writer that panics (a full disk, an unaligned offset) ends the process only with
  `--quiet`; a hasher or GPU thread that panics never does. See `Hopeless` in `Engraver`.
* After a power failure a plot may have holes below its marker, or have been reported
  complete and have some. Resuming does not notice; `HolesAreLost` says that no other
  failure has this effect.
* sph_shabal.h:97 says that closing reinitializes the context; shabal_close has the call
  commented out (sph_shabal.c:532). The callers copy a fresh context for every message
  and so does `NextMessage`. Its mutant `NextMessageClosed` takes the header at its word
  and goes on with the closed context: `Arriving` and `DigestOfMessage` are violated.

One more rests on an assumption: on NVIDIA devices the transfer of buffer b goes to
the pinned memory of buffer a while the kernel hashes into a. That is harmless as long
as the driver keeps a copy of the buffer in GPU memory, which the constant `DriverBacksHost = FALSE`
of `GpuDevice` says; with `TRUE`, TLC finds mixed nonces at once. No run covers this
hazard. For OpenCL the buffer is mapped all the while (`gpu_init` enters it in
`mapped`), which is why `NeverHashesMapped` leaves these cards out.

## 7. Not modelled

* A CPU task that panics: rayon aborts the process, which is a kill to the file.
* Drives that reorder what they acknowledged, or write half a sector: a power failure
  keeps or loses whole nonces and whole markers.
* Progress bars (`pbr`) but for the one thing main needs of them: that `listen` returns
  when both were told to finish. Other output.
* Disk and sector queries, priorities, affinity, Windows privileges (`utils.rs`), which
  are inputs of `Setup`; the listing of OpenCL platforms; the build script.
* `sph_types.h`: macros that select integer types and byte orders for compilers; what
  the code uses of it, 32-bit words and their order in a block, is part of `Shabal256`.

## 8. Plan

Done, in this order: `ResumablePlot`, `Pipeline` and its proofs; `ChunkStream`,
`Scheduler`; `Setup`; `PlotLayout`, `NonceGen`; `Shabal256`, `ShabalStream`;
`GpuPipe`, `GpuDevice`; `ShabalEnd`, `MultiShabal`; `Engraver`. No model is left.

Proofs done: all safety properties and refinements of `Pipeline`, `Scheduler`,
`GpuDevice`, `NonceGen`, `ShabalStream`, `MultiShabal` and `Setup`, and the safety
properties of `Engraver`. What is left is what section 5 names.
