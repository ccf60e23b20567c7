--------------------------- MODULE EngraverProofs ---------------------------
(***************************************************************************)
(* Proofs about module Engraver: for every size, memory, option and any     *)
(* number of runs, kills and power failures, what markers and reports       *)
(* promise was written (HolesAreLost), direct i/o only meets a bad offset   *)
(* in a plot that was once written without it (DirectStaysAligned), and a   *)
(* run that nobody can help stays so until it is ended (HopelessStays).     *)
(***************************************************************************)
EXTENDS Engraver, Rounding

-----------------------------------------------------------------------------
(* The inductive invariant.                                                *)

FileType ==
  [exists : BOOLEAN, stored : SUBSET Int, mark : Int, marks : SUBSET Int, lost : SUBSET Int,
   buffered : BOOLEAN]

Plots == {nonces_arg, (nonces_arg \div Sector) * Sector}

Types ==
  /\ nonces_arg \in Nat /\ task \in Tasks
  /\ files \in [Plots -> FileType]
  /\ runs \in Nat /\ outages \in Nat
  /\ main \in {"off", "refused", "failed", "done", "listen", "join_writer", "join_hasher"}
  /\ hasher \in {"start", "hashing", "stuck", "panicked", "done"}
  /\ writer \in {"recv", "mark", "panicked", "done"}
  /\ empty_buffers \in Nat /\ full_buffers \in Nat
  /\ nonces_hashed \in Int /\ nonces_written \in Int

\* The nonces before m were written to the file, even if they are lost.
Covered(f, m) == 0 .. m - 1 \subseteq f.stored \cup f.lost

\* Every marker that a power failure may bring back promises what was written; and
\* it is on a sector if the file was only written with direct i/o.
Good(f) ==
  /\ f.mark \in f.marks
  /\ \A m \in f.marks : /\ Covered(f, m)
                        /\ f.buffered \/ m = NoPoint \/ m % Sector = 0

FilesGood == \A n \in Plots : Good(files[n])

\* So does the progress of the writer, up to the report at the end of the run.
Progress ==
  /\ Running /\ ~task.benchmark => Covered(file, nonces_written)
  /\ main = "done" /\ ~task.benchmark => Covered(file, nonces)

\* Who waits for whom.
Waits ==
  /\ writer = "done" => Running /\ nonces_written = nonces
  /\ writer = "mark" => Running /\ ~task.benchmark
  /\ main = "join_hasher" => writer = "done"
  /\ Running /\ ~task.quiet /\ main # "listen" => hasher = "done" /\ writer = "done"
  /\ hasher = "start" => writer = "recv" /\ full_buffers = 0

\* Where a run with direct i/o got to in a file that was only written so.
Sectors ==
  /\ Running /\ task.direct_io /\ ~task.benchmark /\ ~file.buffered =>
       nonces_written % Sector = 0
  /\ writer = "mark" /\ ~task.direct_io => file.buffered

IInv == Types /\ FilesGood /\ Progress /\ Waits /\ Sectors

-----------------------------------------------------------------------------
(* Sizes.                                                                  *)

(* The plot of a run is one of the files; with direct i/o it ends on a sector. *)
LEMMA NoncesOfTask ==
  ASSUME nonces_arg \in Nat, NEW t \in Tasks
  PROVE  /\ NoncesOf(t) \in Plots /\ NoncesOf(t) \in Nat
         /\ t.direct_io => NoncesOf(t) % Sector = 0
<1>1. Sector \in Nat \ {0}
  BY EngraverAssumption
<1>2. (nonces_arg \div Sector) * Sector \in Nat
      /\ ((nonces_arg \div Sector) * Sector) % Sector = 0
  BY <1>1, RoundDown
<1> QED BY <1>2, Zenon DEF NoncesOf, Plots

(* With direct i/o the buffers hold whole sectors. *)
LEMMA BufferOfTask ==
  ASSUME nonces_arg \in Nat, NEW t \in Tasks
  PROVE  /\ BufferOf(t) \in Int
         /\ t.direct_io => BufferOf(t) % Sector = 0
<1>1. /\ Sector \in Nat \ {0} /\ GpuMultiple \in Nat \ {0}
      /\ Sector < GpuMultiple => GpuMultiple % Sector = 0
      /\ t.mem \in Nat
  BY EngraverAssumption
<1> DEFINE b == NumBuffer(t)
           m == Multiple(t)
           u == b * m
           M == Memory(t)
           x == Upper((M \div u) * u, u)
<1>2. b \in Nat \ {0}
  BY DEF NumBuffer
<1>3. m \in Nat \ {0}
  BY <1>1 DEF Multiple, Upper
<1>4. t.direct_io => m % Sector = 0
  <2>1. SUFFICES ASSUME t.direct_io PROVE m % Sector = 0
    OBVIOUS
  <2>2. Sector % Sector = 0
    BY <1>1, MultipleMod, Sector * 1 = Sector
  <2>3. m = Sector \/ (m = GpuMultiple /\ GpuMultiple % Sector = 0)
    BY <1>1, <2>1, <2>2 DEF Multiple, Upper
  <2> QED BY <2>2, <2>3, Zenon
<1>5. u \in Nat \ {0}
  <2> HIDE DEF b, m
  <2> QED BY <1>2, <1>3
<1>6. M \in Nat
  BY <1>1, NoncesOfTask DEF Memory, Lower
<1>7. x \in Nat /\ x % u = 0
  <2> HIDE DEF u, M
  <2>1. (M \div u) * u \in Nat /\ ((M \div u) * u) % u = 0
    BY <1>5, <1>6, RoundDown
  <2>2. u % u = 0
    BY <1>5, MultipleMod, u * 1 = u
  <2>3. x = (M \div u) * u \/ x = u
    BY Zenon DEF Upper
  <2> QED BY <1>5, <2>1, <2>2, <2>3
<1>8. BufferOf(t) = x \div b
  BY DEF BufferOf
<1>9. x \div b \in Int /\ (x \div b) % m = 0
  <2>1. x \in Int /\ x % (b * m) = 0
    BY <1>7
  <2> HIDE DEF x, b, m
  <2> QED BY <1>2, <1>3, <2>1, Split, Zenon
<1>10. t.direct_io => (x \div b) % Sector = 0
  <2> DEFINE z == x \div b
  <2> HIDE DEF z, m, x, b
  <2>1. z \in Int /\ z % m = 0
    BY <1>9 DEF z
  <2>2. t.direct_io => z % Sector = 0
    BY <1>1, <1>3, <1>4, <2>1, Transitive
  <2> QED BY <2>2 DEF z
<1> HIDE DEF x, b
<1> QED BY <1>8, <1>9, <1>10

(* A chunk that begins on a sector ends on one. *)
LEMMA ChunkOnSectors ==
  ASSUME Types, NEW n \in Int
  PROVE  /\ Chunk(n) \in Int
         /\ task.direct_io /\ n % Sector = 0 => Chunk(n) % Sector = 0 /\ Aligned(n)
<1>1. Sector \in Nat \ {0}
  BY EngraverAssumption
<1>2. nonces \in Nat /\ (task.direct_io => nonces % Sector = 0)
  BY NoncesOfTask DEF Types, nonces
<1>3. BufferOf(task) \in Int /\ (task.direct_io => BufferOf(task) % Sector = 0)
  BY BufferOfTask DEF Types
<1>4. task.direct_io /\ n % Sector = 0 => (nonces - n) % Sector = 0
  <2>1. nonces \in Int
    BY <1>2
  <2> QED BY <1>1, <1>2, <2>1, SumOfMultiples, Zenon
<1>5. Chunk(n) \in {BufferOf(task), nonces - n}
  BY DEF Chunk, Lower
<1> QED BY <1>2, <1>3, <1>4, <1>5 DEF Aligned

-----------------------------------------------------------------------------
(* Files.                                                                  *)

\* From f to g nothing is forgotten that was written.
Kept(f, g) ==
  /\ g \in FileType /\ Good(g)
  /\ \A m \in Int : Covered(f, m) => Covered(g, m)
  /\ f.buffered => g.buffered

LEMMA KeptSame ==
  ASSUME NEW f \in FileType, Good(f)
  PROVE  Kept(f, f)
BY DEF Kept, FileType

LEMMA KeptTransitive ==
  ASSUME NEW f, NEW g, NEW h, Kept(f, g), Kept(g, h)
  PROVE  Kept(f, h)
BY DEF Kept

LEMMA MarkedKept ==
  ASSUME NEW f \in FileType, Good(f), NEW p \in Int, Covered(f, p),
         f.buffered \/ p = NoPoint \/ p % Sector = 0
  PROVE  Kept(f, Marked(f, p))
<1> DEFINE g == Marked(f, p)
<1>1. /\ g \in FileType /\ g.mark = p /\ g.marks = f.marks \cup {p}
      /\ g.stored = f.stored /\ g.lost = f.lost /\ g.buffered = f.buffered
  BY DEF Marked, FileType
<1> HIDE DEF g
<1>2. \A m \in Int : Covered(f, m) => Covered(g, m)
  BY <1>1 DEF Covered
<1>3. Good(g)
  <2>1. SUFFICES ASSUME NEW m \in g.marks
                 PROVE  Covered(g, m) /\ (g.buffered \/ m = NoPoint \/ m % Sector = 0)
    BY <1>1 DEF Good
  <2>2. m \in Int
    BY <1>1 DEF FileType
  <2>3. m = p \/ m \in f.marks
    BY <1>1
  <2> QED BY <1>1, <1>2, <2>2, <2>3 DEF Good
<1>4. Kept(f, g)
  BY <1>1, <1>2, <1>3 DEF Kept
<1> QED BY <1>4 DEF g

(* NoPoint promises nothing. *)
LEMMA ErasedKept ==
  ASSUME NEW f \in FileType, Good(f)
  PROVE  Kept(f, Marked(f, NoPoint))
<1>1. NoPoint \in Int /\ Covered(f, NoPoint)
  BY DEF NoPoint, Covered
<1> QED BY <1>1, MarkedKept

(* What the writer stores of a chunk, and how far the file is covered then. *)
LEMMA StoredKept ==
  ASSUME file \in FileType, Good(file), NEW n \in Int, NEW i \in Int
  PROVE  /\ Kept(file, Stored(n, i))
         /\ Covered(file, n) => Covered(Stored(n, i), n + i)
         /\ ~task.direct_io => Stored(n, i).buffered
<1> DEFINE f == file
           X == n .. n + i - 1
           g == Stored(n, i)
<1>1. /\ g.mark = f.mark /\ g.marks = f.marks /\ g.exists = f.exists
      /\ g.stored = f.stored \cup X /\ g.lost = f.lost \ X
      /\ g.buffered = (f.buffered \/ ~task.direct_io)
  BY DEF Stored, FileType
<1>2. g \in FileType
  <2> DEFINE s == f.stored \cup X
             l == f.lost \ X
             b == f.buffered \/ ~task.direct_io
  <2>1. s \in SUBSET Int /\ l \in SUBSET Int /\ b \in BOOLEAN
    BY DEF FileType
  <2>2. g = [f EXCEPT !.stored = s, !.lost = l, !.buffered = b]
    BY DEF Stored
  <2> HIDE DEF s, l, b, g, f
  <2>3. f \in FileType
    BY DEF f
  <2> QED BY <2>1, <2>2, <2>3 DEF FileType
<1>3. f.stored \cup f.lost \cup X \subseteq g.stored \cup g.lost
  BY <1>1
<1>4. f.mark \in Int /\ f.marks \subseteq Int
  BY DEF FileType
<1> HIDE DEF g, f
<1>5. \A m \in Int : Covered(f, m) => Covered(g, m)
  BY <1>3 DEF Covered
<1>6. Covered(f, n) => Covered(g, n + i)
  BY <1>3 DEF Covered
<1>7. Good(g)
  <2>1. SUFFICES ASSUME NEW m \in g.marks
                 PROVE  Covered(g, m) /\ (g.buffered \/ m = NoPoint \/ m % Sector = 0)
    BY <1>1 DEF Good, f
  <2>2. m \in Int /\ m \in f.marks
    BY <1>1, <1>4
  <2> QED BY <1>1, <1>5, <2>2 DEF Good, f
<1>8. Kept(f, g) /\ (~task.direct_io => g.buffered)
  BY <1>1, <1>2, <1>5, <1>7 DEF Kept
<1> QED BY <1>6, <1>8 DEF f, g

LEMMA TornKept ==
  ASSUME file \in FileType, Good(file), NEW n \in Int, NEW g \in Torn(n)
  PROVE  Kept(file, g)
<1>1. PICK i \in Int : g = Stored(n, i) \/ g = Marked(Stored(n, i), NoPoint)
  BY DEF Torn
<1>2. Kept(file, Stored(n, i))
  BY StoredKept
<1>3. Kept(Stored(n, i), Marked(Stored(n, i), NoPoint))
  BY <1>2, ErasedKept DEF Kept
<1> QED BY <1>1, <1>2, <1>3, KeptTransitive

(* A power failure keeps some of it, but what it takes counts as lost. *)
LEMMA OutageKept ==
  ASSUME NEW f \in FileType, Good(f), NEW kept \in SUBSET f.stored, NEW mark \in f.marks
  PROVE  Kept(f, AfterOutage(f, kept, mark))
<1> DEFINE g == AfterOutage(f, kept, mark)
<1>1. mark \in Int /\ kept \subseteq Int /\ f.lost \cup (f.stored \ kept) \subseteq Int
  BY DEF FileType
<1>2. /\ g \in FileType /\ g.mark = mark /\ g.marks = {mark} /\ g.buffered = f.buffered
      /\ g.stored = kept /\ g.lost = f.lost \cup (f.stored \ kept)
  BY <1>1 DEF FileType, AfterOutage
<1> HIDE DEF g
<1>3. \A m \in Int : Covered(f, m) => Covered(g, m)
  BY <1>2 DEF Covered
<1>4. Good(g)
  BY <1>1, <1>2, <1>3 DEF Good
<1>5. Kept(f, g)
  BY <1>2, <1>3, <1>4 DEF Kept
<1> QED BY <1>5 DEF g

(* A file that is new, or was deleted. *)
LEMMA NewFile ==
  ASSUME NEW f, f \in {NoFile, [NoFile EXCEPT !.exists = TRUE],
                       Marked([NoFile EXCEPT !.exists = TRUE], 0)}
  PROVE  f \in FileType /\ Good(f)
<1> DEFINE made == [NoFile EXCEPT !.exists = TRUE]
<1>1. NoFile \in FileType /\ Good(NoFile)
  BY DEF NoFile, FileType, Good, Covered, NoPoint
<1>2. made \in FileType /\ Good(made)
  <2>1. /\ made \in FileType
        /\ made.mark = NoPoint /\ made.marks = {NoPoint}
    <3>1. made \in FileType /\ made.mark = NoFile.mark /\ made.marks = NoFile.marks
      BY <1>1 DEF FileType
    <3>2. NoFile.mark = NoPoint /\ NoFile.marks = {NoPoint}
      BY DEF NoFile
    <3> QED BY <3>1, <3>2
  <2> HIDE DEF made
  <2> QED BY <2>1 DEF Good, Covered, NoPoint
<1>3. Covered(made, 0)
  BY DEF Covered
<1>4. 0 % Sector = 0
  BY EngraverAssumption, MultipleMod, Sector * 0 = 0
<1>5. Kept(made, Marked(made, 0))
  <2> HIDE DEF made
  <2> QED BY <1>2, <1>3, <1>4, MarkedKept
<1> QED BY <1>1, <1>2, <1>5 DEF Kept

-----------------------------------------------------------------------------
(* What every step leaves of the files, and what it means for the rest.    *)

FilesTyped == nonces_arg \in Nat /\ task \in Tasks /\ files \in [Plots -> FileType]

LEMMA FileOfRun ==
  ASSUME IInv
  PROVE  /\ nonces \in Nat /\ nonces \in Plots
         /\ file \in FileType /\ Good(file)
<1>1. nonces \in Nat /\ nonces \in Plots
  BY NoncesOfTask DEF IInv, Types, nonces
<1> QED BY <1>1 DEF IInv, Types, FilesGood, file

(* The run goes on with its files as they are. *)
LEMMA FilesStay ==
  ASSUME IInv, nonces_arg' = nonces_arg, files' = files, task' \in Tasks
  PROVE  FilesTyped' /\ FilesGood' /\ Plots' = Plots
<1>1. Plots' = Plots
  BY DEF Plots
<1>2. FilesTyped'
  BY <1>1 DEF FilesTyped, IInv, Types
<1>3. FilesGood'
  BY <1>1 DEF IInv, FilesGood, Good, Covered
<1> QED BY <1>1, <1>2, <1>3

LEMMA FileChanges ==
  ASSUME IInv, nonces_arg' = nonces_arg, task' \in Tasks, NEW n \in Plots, NEW g,
         files' = [files EXCEPT ![n] = g], g \in FileType, Good(g)
  PROVE  FilesTyped' /\ FilesGood' /\ Plots' = Plots
<1>1. Plots' = Plots
  BY DEF Plots
<1>2. FilesTyped'
  BY <1>1 DEF FilesTyped, IInv, Types
<1>3. FilesGood'
  <2>1. SUFFICES ASSUME NEW k \in Plots PROVE Good(files[k])'
    BY <1>1 DEF FilesGood
  <2>2. Good(files'[k])
    <3>1. files'[k] = g \/ files'[k] = files[k]
      BY DEF IInv, Types
    <3> QED BY <3>1 DEF IInv, FilesGood
  <2> QED BY <2>2 DEF Good, Covered
<1> QED BY <1>1, <1>2, <1>3

(* A step of a thread leaves the plot of the run as it is. *)
LEMMA SameRun ==
  ASSUME nonces_arg' = nonces_arg, task' = task
  PROVE  nonces' = nonces /\ file' = files'[nonces]
BY DEF nonces, NoncesOf, file

(* A process that ends promises no more than the files do. *)
LEMMA EndStep ==
  ASSUME FilesTyped', FilesGood', runs' \in Nat, outages' \in Nat,
         End("off") \/ End("refused") \/ End("failed")
  PROVE  IInv'
<1>1. Types'
  BY DEF FilesTyped, Types, End
<1>2. ~Running'
  BY DEF End, Running
<1>3. Progress' /\ Waits' /\ Sectors'
  BY <1>2 DEF End, Progress, Waits, Sectors
<1> QED BY <1>1, <1>3 DEF IInv

(* A run that starts goes on where the file allows it. *)
LEMMA SpawnStep ==
  ASSUME FilesTyped', FilesGood', runs' \in Nat, outages' \in Nat,
         NEW progress \in Int, Spawn(task', progress),
         Covered(file', progress),
         task'.direct_io /\ ~file'.buffered => progress % Sector = 0
  PROVE  IInv'
<1>1. Types'
  BY DEF FilesTyped, Types, Spawn, NumBuffer
<1>2. Progress'
  <2>1. main' # "done" /\ nonces_written' = progress
    BY DEF Spawn
  <2>2. Covered(file', nonces_written')
    BY <2>1
  <2> QED BY <2>1, <2>2 DEF Progress, Covered
<1>3. Waits'
  BY DEF Spawn, Waits
<1>4. Sectors'
  BY DEF Spawn, Sectors
<1> QED BY <1>1, <1>2, <1>3, <1>4 DEF IInv

-----------------------------------------------------------------------------
(* Steps that start a run.                                                 *)

LEMMA StartStep ==
  ASSUME IInv, Start
  PROVE  IInv'
<1>1. PICK t \in Tasks :
        StartResume(t) \/ StartRefused(t) \/ StartBenchmark(t) \/ StartNew(t)
  BY DEF Start
<1> DEFINE n == NoncesOf(t)
           f == files[n]
<1>2. n \in Plots /\ n \in Nat
  BY NoncesOfTask DEF IInv, Types
<1>3. /\ task' = t /\ runs' \in Nat /\ outages' \in Nat /\ nonces_arg' = nonces_arg
  BY <1>1 DEF StartResume, StartRefused, StartBenchmark, StartNew, Launch, IInv, Types
<1>4. nonces' = n /\ file' = files'[n]
  BY <1>3 DEF nonces, NoncesOf, file
<1>5. f \in FileType /\ Good(f)
  BY <1>2 DEF IInv, Types, FilesGood
<1> HIDE DEF n
<1>6. CASE StartResume(t)
  <2>1. files' = files /\ Spawn(task', f.mark) /\ f.mark # NoPoint
    BY <1>3, <1>6 DEF StartResume, n
  <2>2. FilesTyped' /\ FilesGood'
    BY <1>3, <2>1, FilesStay
  <2>3. f.mark \in Int /\ f.mark \in f.marks
    BY <1>5 DEF FileType, Good
  <2>4. Covered(f, f.mark) /\ (f.buffered \/ f.mark % Sector = 0)
    BY <1>5, <2>1, <2>3 DEF Good
  <2>5. file' = f
    BY <1>4, <2>1
  <2> QED BY <1>3, <2>1, <2>2, <2>3, <2>4, <2>5, SpawnStep
<1>7. CASE StartRefused(t)
  <2>1. files' = files /\ End("refused")
    BY <1>7 DEF StartRefused
  <2> QED BY <1>3, <2>1, FilesStay, EndStep
<1>8. CASE StartBenchmark(t)
  <2>1. files' = files /\ Spawn(task', 0)
    BY <1>3, <1>8 DEF StartBenchmark
  <2>2. FilesTyped' /\ FilesGood'
    BY <1>3, <2>1, FilesStay
  <2>3. Covered(file', 0) /\ 0 % Sector = 0
    BY EngraverAssumption, MultipleMod, Sector * 0 = 0 DEF Covered
  <2> QED BY <1>3, <2>1, <2>2, <2>3, SpawnStep
<1>9. CASE StartNew(t)
  <2>1. PICK g \in {[NoFile EXCEPT !.exists = TRUE],
                    Marked([NoFile EXCEPT !.exists = TRUE], 0)} :
          files' = [files EXCEPT ![n] = g] /\ (Spawn(task', 0) \/ End("failed"))
    BY <1>3, <1>9 DEF StartNew, n
  <2>2. FilesTyped' /\ FilesGood'
    BY <1>2, <1>3, <2>1, FileChanges, NewFile
  <2>3. Covered(file', 0) /\ 0 % Sector = 0
    BY EngraverAssumption, MultipleMod, Sector * 0 = 0 DEF Covered
  <2> QED BY <1>3, <2>1, <2>2, <2>3, SpawnStep, EndStep
<1> QED BY <1>1, <1>6, <1>7, <1>8, <1>9

LEMMA UserDeleteStep ==
  ASSUME IInv, UserDelete
  PROVE  IInv'
<1>1. FilesTyped' /\ FilesGood'
  BY FileOfRun, FileChanges, NewFile DEF UserDelete, SetFile, IInv, Types
<1>2. ~Running /\ ~Running' /\ main' = "off"
  BY DEF UserDelete, Running
<1>3. Types'
  BY <1>1 DEF UserDelete, workerVars, FilesTyped, IInv, Types
<1>4. Progress' /\ Waits' /\ Sectors'
  BY <1>2 DEF UserDelete, workerVars, IInv, Progress, Waits, Sectors
<1> QED BY <1>1, <1>3, <1>4 DEF IInv

-----------------------------------------------------------------------------
(* The main thread and the hasher leave the files alone.                   *)

LEMMA MainStepKeeps ==
  ASSUME IInv, MainStep
  PROVE  IInv'
<1> USE DEF MainGoes
<1>1. /\ nonces_arg' = nonces_arg /\ files' = files /\ runs' = runs /\ outages' = outages
      /\ task' = task
  BY DEF MainStep, Listen, JoinWriter, JoinHasher
<1>2. task' \in Tasks /\ runs' \in Nat /\ outages' \in Nat
  BY <1>1 DEF IInv, Types
<1>3. FilesTyped' /\ FilesGood'
  BY <1>1, <1>2, FilesStay
<1>4. nonces' = nonces /\ file' = file
  BY <1>1, SameRun DEF file
<1>5. CASE End("failed")
  BY <1>2, <1>3, <1>5, EndStep
<1>6. CASE Listen
  <2>1. /\ Running /\ hasher = "done" /\ writer = "done" /\ main' = "join_writer"
        /\ UNCHANGED workerVars
    BY <1>6 DEF Listen, Running
  <2>2. Types'
    BY <1>2, <1>3, <2>1 DEF FilesTyped, IInv, Types, workerVars
  <2>3. Progress' /\ Waits' /\ Sectors'
    BY <1>1, <1>4, <2>1 DEF IInv, Progress, Waits, Sectors, Running, workerVars, Covered
  <2> QED BY <1>3, <2>2, <2>3 DEF IInv
<1>7. CASE JoinWriter /\ ~End("failed")
  <2>1. /\ Running /\ writer = "done" /\ main = "join_writer" /\ main' = "join_hasher"
        /\ UNCHANGED workerVars
    BY <1>7 DEF JoinWriter, Running
  <2>2. Types'
    BY <1>2, <1>3, <2>1 DEF FilesTyped, IInv, Types, workerVars
  <2>3. Progress' /\ Waits' /\ Sectors'
    BY <1>1, <1>4, <2>1 DEF IInv, Progress, Waits, Sectors, Running, workerVars, Covered
  <2> QED BY <1>3, <2>2, <2>3 DEF IInv
<1>8. CASE JoinHasher /\ ~End("failed")
  <2>1. Running /\ main = "join_hasher" /\ main' = "done" /\ End("done")
    BY <1>8 DEF JoinHasher, Running, End
  <2>2. writer = "done" /\ nonces_written = nonces
    BY <2>1 DEF IInv, Waits
  <2>3. Types'
    BY <1>2, <1>3, <2>1 DEF FilesTyped, IInv, Types, End
  <2>4. ~Running'
    BY <2>1 DEF Running
  <2>5. Progress'
    BY <1>1, <1>4, <2>1, <2>2, <2>4 DEF IInv, Progress, Covered
  <2>6. Waits' /\ Sectors'
    BY <2>1, <2>4 DEF End, Waits, Sectors
  <2> QED BY <1>3, <2>3, <2>5, <2>6 DEF IInv
<1> QED BY <1>5, <1>6, <1>7, <1>8 DEF MainStep

LEMMA HasherStepKeeps ==
  ASSUME IInv, HasherStep
  PROVE  IInv'
<1>1. /\ nonces_arg' = nonces_arg /\ files' = files /\ runs' = runs /\ outages' = outages
      /\ task' = task /\ main' = main /\ writer' = writer
      /\ nonces_written' = nonces_written
  BY DEF HasherStep
<1>2. FilesTyped' /\ FilesGood'
  BY <1>1, FilesStay DEF IInv, Types
<1>3. nonces' = nonces /\ file' = file /\ Running' = Running
  BY <1>1, SameRun DEF file, Running
<1>4. /\ hasher \in {"start", "hashing"} /\ hasher' \in {"hashing", "panicked", "done", "stuck"}
      /\ empty_buffers' \in Nat /\ full_buffers' \in Nat /\ nonces_hashed' \in Int
  <2>1. CASE GpuInit
    BY <2>1 DEF GpuInit, IInv, Types
  <2>2. CASE HashChunk
    <3>1. Chunk(nonces_hashed) \in Int
      BY ChunkOnSectors DEF IInv, Types
    <3> QED BY <2>2, <3>1 DEF HashChunk, IInv, Types
  <2>3. CASE ControlLoopStuck
    BY <2>3 DEF ControlLoopStuck, IInv, Types
  <2> QED BY <2>1, <2>2, <2>3 DEF HasherStep
<1>5. Types'
  BY <1>1, <1>2, <1>4 DEF FilesTyped, IInv, Types
<1>6. Progress' /\ Sectors'
  BY <1>1, <1>3 DEF IInv, Progress, Sectors, Covered
<1>7. Waits'
  BY <1>1, <1>3, <1>4 DEF IInv, Waits
<1> QED BY <1>2, <1>5, <1>6, <1>7 DEF IInv

-----------------------------------------------------------------------------
(* The writer, broken off or not.                                          *)

LEMMA WriterStepKeeps ==
  ASSUME IInv, WriterStep
  PROVE  IInv'
<1>1. /\ nonces_arg' = nonces_arg /\ runs' = runs /\ outages' = outages
      /\ task' = task /\ main' = main /\ hasher' = hasher /\ nonces_hashed' = nonces_hashed
      /\ Running
  BY DEF WriterStep
<1>2. /\ nonces \in Nat /\ nonces \in Plots /\ file \in FileType /\ Good(file)
      /\ nonces_written \in Int /\ task' \in Tasks /\ files \in [Plots -> FileType]
  BY <1>1, FileOfRun DEF IInv, Types
<1>3. nonces' = nonces /\ file' = files'[nonces] /\ Running' = Running
  BY <1>1, SameRun DEF Running
<1>4. files' = files => FilesTyped' /\ FilesGood'
  BY <1>1, <1>2, FilesStay
<1>5. ASSUME NEW g, SetFile(g), Kept(file, g)
      PROVE  FilesTyped' /\ FilesGood' /\ file' = g
  BY <1>1, <1>2, <1>3, <1>5, FileChanges DEF Kept, SetFile
<1> DEFINE C == Chunk(nonces_written)
<1>6. /\ C \in Int
      /\ task.direct_io /\ nonces_written % Sector = 0 =>
           C % Sector = 0 /\ (nonces_written + C) % Sector = 0
  <2>1. C \in Int /\ (task.direct_io /\ nonces_written % Sector = 0 => C % Sector = 0)
    BY <1>2, ChunkOnSectors DEF IInv
  <2>2. ASSUME task.direct_io, nonces_written % Sector = 0
        PROVE  (nonces_written + C) % Sector = 0
    <3> HIDE DEF C
    <3>1. Sector \in Nat \ {0}
      BY EngraverAssumption
    <3> QED BY <1>2, <2>1, <2>2, <3>1, SumOfMultiples, Zenon
  <2> QED BY <2>1, <2>2
<1> HIDE DEF C
<1>7. CASE WriteChunk
  <2>1. /\ writer = "recv" /\ full_buffers > 0 /\ hasher # "start"
        /\ nonces_written' = nonces_written + C
        /\ full_buffers' = full_buffers - 1
        /\ writer' = IF nonces_written' = nonces THEN "done"
                     ELSE IF task.benchmark THEN "recv" ELSE "mark"
        /\ empty_buffers' = IF nonces_written' = nonces \/ task.benchmark
                            THEN empty_buffers + 1 ELSE empty_buffers
    BY <1>7 DEF WriteChunk, MayWrite, C, IInv, Waits
  <2>2. /\ FilesTyped' /\ FilesGood'
        /\ ~task.benchmark => /\ Covered(file', nonces_written')
                              /\ file.buffered => file'.buffered
                              /\ ~task.direct_io => file'.buffered
    <3>1. CASE task.benchmark
      BY <1>4, <1>7, <3>1 DEF WriteChunk
    <3>2. CASE ~task.benchmark
      <4> DEFINE f == Stored(nonces_written, C)
                 g == IF nonces_written' = nonces THEN Marked(f, NoPoint) ELSE f
      <4>1. SetFile(g)
        BY <1>7, <2>1, <3>2 DEF WriteChunk, C
      <4>2. /\ Kept(file, f)
            /\ Covered(file, nonces_written) => Covered(f, nonces_written + C)
            /\ ~task.direct_io => f.buffered
        BY <1>2, <1>6, StoredKept
      <4>3. Kept(f, g)
        BY <4>2, KeptSame, ErasedKept DEF Kept
      <4>4. Kept(file, g)
        BY <4>2, <4>3, KeptTransitive
      <4>5. FilesTyped' /\ FilesGood' /\ file' = g
        BY <1>5, <4>1, <4>4
      <4> HIDE DEF f, g
      <4>6. Covered(file, nonces_written)
        BY <1>1, <3>2 DEF IInv, Progress
      <4>7. Covered(g, nonces_written')
        BY <1>2, <1>6, <2>1, <4>2, <4>3, <4>6 DEF Kept
      <4> QED BY <4>2, <4>3, <4>4, <4>5, <4>7 DEF Kept
    <3> QED BY <3>1, <3>2
  <2>3. Types'
    BY <1>1, <1>2, <1>6, <2>1, <2>2 DEF FilesTyped, IInv, Types
  <2>4. Progress'
    <3>1. main' # "done"
      BY <1>1 DEF Running
    <3> QED BY <1>1, <2>2, <3>1 DEF Progress, Covered
  <2>5. Waits'
    BY <1>1, <1>3, <2>1 DEF IInv, Waits
  <2>6. Sectors'
    BY <1>1, <1>3, <1>6, <2>1, <2>2 DEF IInv, Sectors
  <2> QED BY <2>2, <2>3, <2>4, <2>5, <2>6 DEF IInv
<1>8. CASE WriterPanics
  <2>1. /\ writer = "recv" /\ full_buffers > 0 /\ hasher # "start" /\ ~task.benchmark
        /\ nonces_written' = nonces_written /\ empty_buffers' = empty_buffers
        /\ full_buffers' = full_buffers - 1 /\ writer' = "panicked"
    BY <1>8 DEF WriterPanics, MayWrite, IInv, Waits
  <2>2. PICK g : Kept(file, g) /\ FilesTyped' /\ FilesGood' /\ file' = g
    <3>1. CASE files' = files
      BY <1>2, <1>3, <1>4, <3>1, KeptSame DEF file
    <3>2. CASE \E g \in Torn(nonces_written) : SetFile(g)
      BY <1>2, <1>5, <3>2, TornKept
    <3> QED BY <1>8, <3>1, <3>2 DEF WriterPanics
  <2>3. Types'
    BY <1>1, <1>2, <2>1, <2>2 DEF FilesTyped, IInv, Types
  <2>4. Progress'
    <3>1. main' # "done" /\ Covered(file', nonces_written')
      BY <1>1, <1>2, <2>1, <2>2 DEF Running, IInv, Progress, Kept
    <3> QED BY <3>1 DEF Progress, Covered
  <2>5. Waits'
    BY <1>1, <1>3, <2>1 DEF IInv, Waits
  <2>6. Sectors'
    BY <1>1, <1>3, <2>1, <2>2 DEF IInv, Sectors, Kept
  <2> QED BY <2>2, <2>3, <2>4, <2>5, <2>6 DEF IInv
<1>9. CASE WriteMarker
  <2>1. /\ writer = "mark" /\ ~task.benchmark /\ hasher # "start"
        /\ nonces_written' = nonces_written /\ empty_buffers' = empty_buffers + 1
        /\ full_buffers' = full_buffers /\ writer' = "recv"
    BY <1>9 DEF WriteMarker, IInv, Waits
  <2>2. Covered(file, nonces_written)
    BY <1>1, <2>1 DEF IInv, Progress
  <2>3. file.buffered \/ nonces_written % Sector = 0
    BY <1>1, <2>1 DEF IInv, Sectors
  <2>4. PICK g : Kept(file, g) /\ FilesTyped' /\ FilesGood' /\ file' = g
    <3>1. PICK g \in {file, Marked(file, nonces_written)} : SetFile(g)
      BY <1>9 DEF WriteMarker
    <3>2. Kept(file, g)
      BY <1>2, <2>2, <2>3, KeptSame, MarkedKept
    <3> QED BY <1>5, <3>1, <3>2
  <2>5. Types'
    BY <1>1, <1>2, <2>1, <2>4 DEF FilesTyped, IInv, Types
  <2>6. Progress'
    <3>1. main' # "done" /\ Covered(file', nonces_written')
      BY <1>1, <1>2, <2>1, <2>2, <2>4 DEF Running, Kept
    <3> QED BY <3>1 DEF Progress, Covered
  <2>7. Waits'
    BY <1>1, <1>3, <2>1 DEF IInv, Waits
  <2>8. Sectors'
    BY <1>1, <1>3, <2>1, <2>4 DEF IInv, Sectors, Kept
  <2> QED BY <2>4, <2>5, <2>6, <2>7, <2>8 DEF IInv
<1> QED BY <1>7, <1>8, <1>9 DEF WriterStep

-----------------------------------------------------------------------------
(* The process ends from outside.                                          *)

LEMMA GpuGoneKeeps ==
  ASSUME IInv, GpuGone
  PROVE  IInv'
<1>1. /\ nonces_arg' = nonces_arg /\ files' = files /\ End("failed")
      /\ task' \in Tasks /\ runs' \in Nat /\ outages' \in Nat
  BY DEF GpuGone, IInv, Types
<1> QED BY <1>1, FilesStay, EndStep

LEMMA KillKeeps ==
  ASSUME IInv, Kill
  PROVE  IInv'
<1>1. /\ nonces_arg' = nonces_arg /\ End("off")
      /\ task' \in Tasks /\ runs' \in Nat /\ outages' \in Nat
  BY DEF Kill, IInv, Types
<1>2. CASE files' = files
  BY <1>1, <1>2, FilesStay, EndStep
<1>3. CASE \E g \in {file} \cup Torn(nonces_written) : SetFile(g)
  <2>1. nonces_written \in Int /\ nonces \in Plots /\ file \in FileType /\ Good(file)
    BY FileOfRun DEF IInv, Types
  <2>2. PICK g \in {file} \cup Torn(nonces_written) : SetFile(g)
    BY <1>3
  <2>3. Kept(file, g)
    BY <2>1, KeptSame, TornKept
  <2>4. FilesTyped' /\ FilesGood'
    BY <1>1, <2>1, <2>2, <2>3, FileChanges DEF SetFile, Kept
  <2> QED BY <1>1, <2>4, EndStep
<1> QED BY <1>2, <1>3 DEF Kill

LEMMA PowerFailsKeeps ==
  ASSUME IInv, PowerFails
  PROVE  IInv'
<1>1. /\ nonces_arg' = nonces_arg /\ End("off")
      /\ task' \in Tasks /\ runs' \in Nat /\ outages' \in Nat
  BY DEF PowerFails, IInv, Types
<1>2. DOMAIN files = Plots
  BY DEF IInv, Types
<1>3. PICK n \in Plots : \E kept \in SUBSET files[n].stored, mark \in files[n].marks :
        files' = [files EXCEPT ![n] = AfterOutage(files[n], kept, mark)]
  BY <1>2 DEF PowerFails
<1>4. PICK kept \in SUBSET files[n].stored, mark \in files[n].marks :
        files' = [files EXCEPT ![n] = AfterOutage(files[n], kept, mark)]
  BY <1>3
<1>5. Kept(files[n], AfterOutage(files[n], kept, mark))
  <2>1. files[n] \in FileType /\ Good(files[n])
    BY DEF IInv, Types, FilesGood
  <2> QED BY <2>1, OutageKept
<1>6. FilesTyped' /\ FilesGood'
  BY <1>1, <1>4, <1>5, FileChanges DEF Kept
<1> QED BY <1>1, <1>6, EndStep

LEMMA StutterKeeps ==
  ASSUME IInv, UNCHANGED vars
  PROVE  IInv'
<1>1. FilesTyped' /\ FilesGood'
  BY FilesStay DEF vars, IInv, Types
<1>2. nonces' = nonces /\ file' = file /\ Running' = Running
  BY SameRun DEF vars, file, Running
<1>3. Types'
  BY <1>1 DEF FilesTyped, vars, IInv, Types
<1>4. Progress' /\ Waits' /\ Sectors'
  BY <1>2 DEF vars, IInv, Progress, Waits, Sectors, Covered
<1> QED BY <1>1, <1>3, <1>4 DEF IInv

-----------------------------------------------------------------------------
(* The invariant and what follows from it.                                 *)

LEMMA InitIInv == Init => IInv
<1> SUFFICES ASSUME Init PROVE IInv
  OBVIOUS
<1>1. nonces_arg \in Nat /\ task \in Tasks
  BY EngraverAssumption DEF Init
<1>2. files = [n \in Plots |-> NoFile]
  BY DEF Init, Plots
<1>3. NoFile \in FileType /\ Good(NoFile)
  BY NewFile
<1>4. Types
  BY <1>1, <1>2, <1>3 DEF Init, Types
<1>5. FilesGood
  BY <1>2, <1>3 DEF FilesGood
<1>6. Progress /\ Waits /\ Sectors
  BY DEF Init, Progress, Waits, Sectors, Running
<1> QED BY <1>4, <1>5, <1>6 DEF IInv

LEMMA StepIInv == IInv /\ [Next]_vars => IInv'
<1> SUFFICES ASSUME IInv, [Next]_vars PROVE IInv'
  OBVIOUS
<1>1. CASE Terminated
  BY <1>1, StutterKeeps DEF Terminated
<1>2. CASE UNCHANGED vars
  BY <1>2, StutterKeeps
<1> QED BY <1>1, <1>2, StartStep, UserDeleteStep, MainStepKeeps, HasherStepKeeps,
           GpuGoneKeeps, WriterStepKeeps, KillKeeps, PowerFailsKeeps DEF Next

LEMMA Invariance == Spec => []IInv
<1> QED BY InitIInv, StepIInv, PTL DEF Spec

(* Whatever fails and however often: the marker of every file and the report *)
(* of a run promise only nonces that were written, and a power failure took   *)
(* those of them that are missing.                                            *)
THEOREM OnlyOutagesMakeHoles == Spec => []HolesAreLost
<1>1. IInv => HolesAreLost
  <2> SUFFICES ASSUME IInv PROVE HolesAreLost
    OBVIOUS
  <2>1. DOMAIN files = Plots
    BY DEF IInv, Types
  <2>2. ASSUME NEW n \in Plots
        PROVE  Covered(files[n], files[n].mark)
    BY DEF IInv, FilesGood, Good
  <2> QED BY <2>1, <2>2 DEF HolesAreLost, IInv, Progress, Covered
<1> QED BY <1>1, Invariance, PTL

(* Whatever memory, buffers and GPUs earlier runs had and however they ended:  *)
(* direct i/o meets an address or a length that is no multiple of a sector     *)
(* only in a plot that was once written without direct i/o.                    *)
THEOREM DirectAligned == Spec => []DirectStaysAligned
<1>1. IInv => DirectStaysAligned
  <2> SUFFICES ASSUME IInv, Running, ~task.benchmark, task.direct_io,
                      ~Aligned(nonces_written)
               PROVE  file.buffered
    BY DEF DirectStaysAligned, Unwritable
  <2>1. nonces_written % Sector # 0
    BY ChunkOnSectors DEF IInv, Types
  <2> QED BY <2>1 DEF IInv, Sectors
<1> QED BY <1>1, Invariance, PTL

(* A run whose hasher is gone or waits for ever, or whose writer is gone while  *)
(* main waits for its progress bar, stays so: no step of its own ends it, and   *)
(* it neither fails nor reports a plot.                                         *)
THEOREM HopelessForGood == Spec => HopelessStays
<1>1. IInv /\ [Next]_vars => [Hopeless => Hopeless' \/ main' = "off"]_vars
  <2> SUFFICES ASSUME IInv, Next, Hopeless
               PROVE  Hopeless' \/ main' = "off"
    BY DEF vars, workerVars, Hopeless, Running
  <2> USE DEF Hopeless
  <2>1. CASE Start
    BY <2>1 DEF Start, StartResume, StartRefused, StartBenchmark, StartNew, Launch
  <2>2. CASE UserDelete
    BY <2>2 DEF UserDelete
  <2>3. CASE MainStep
    <3>1. ~Listen
      BY DEF Listen
    <3>2. ~JoinWriter
      BY DEF JoinWriter, IInv, Waits
    <3>3. ~JoinHasher
      BY DEF JoinHasher, IInv, Waits
    <3> QED BY <2>3, <3>1, <3>2, <3>3 DEF MainStep
  <2>4. CASE HasherStep
    <3>1. hasher \in {"start", "hashing"}
      BY <2>4 DEF HasherStep, GpuInit, HashChunk, ControlLoopStuck
    <3> QED BY <2>4, <3>1 DEF HasherStep, Running
  <2>5. CASE GpuGone
    BY <2>5 DEF GpuGone, IInv, Waits
  <2>6. CASE WriterStep
    <3>1. writer \in {"recv", "mark"} /\ (writer = "recv" => full_buffers > 0)
      BY <2>6 DEF WriterStep, WriteChunk, WriterPanics, WriteMarker, MayWrite
    <3> QED BY <2>6, <3>1 DEF WriterStep, Running, IInv, Types
  <2>7. CASE Kill \/ PowerFails
    BY <2>7 DEF Kill, PowerFails, End
  <2>8. CASE Terminated
    BY <2>8 DEF Terminated
  <2> QED BY <2>1, <2>2, <2>3, <2>4, <2>5, <2>6, <2>7, <2>8 DEF Next
<1> QED BY <1>1, Invariance, PTL DEF Spec, HopelessStays
=============================================================================
