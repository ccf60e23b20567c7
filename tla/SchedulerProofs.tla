--------------------------- MODULE SchedulerProofs ---------------------------
(***************************************************************************)
(* Proofs about Scheduler, for every number of threads, GPUs and nonces and *)
(* every size of buffer, task and worksize.  The inductive invariant IInv   *)
(* follows the nonces of the buffer being hashed: Given says which device   *)
(* has which task, Pieces that the tasks cover what was requested and is    *)
(* not in the buffer yet, CpuAsks and GpuAsks how many requests for work    *)
(* are under way.  That is why nothing is left (Between) when the last      *)
(* nonce is reported.  Queue is about the buffers and the writer.           *)
(***************************************************************************)
EXTENDS Scheduler, TLAPS, FiniteSetTheorems, SequenceTheorems

Hashing == spc \in {"kick", "loop"}

\* Which device has which task under way; the CPU pool is device 0.
CpuTasks == {c.task : c \in cpu}
Given ==
  ({0} \X CpuTasks) \cup UNION {{g} \X GpuTasks(g) : g \in Gpus}

\* A task for the buffer being hashed.
InBuffer(t) ==
  /\ t.n > 0 /\ t.cache = buf /\ t.start = nonces_hashed + t.offset
  /\ t.offset + t.n <= requested

OnCache(t) == \A i \in SlotsOf(t) : cache[buf][i] = nonces_hashed + i

Pieces ==
  Hashing =>
    /\ \A p \in Given : InBuffer(p[2])
    /\ \A p, q \in Given : p = q \/ Apart(p[2], q[2])
    /\ \A i \in 0 .. requested - 1 : i \in SlotsInFlight \/ cache[buf][i] = nonces_hashed + i
    /\ requested = processed + Cardinality(SlotsInFlight) + Cardinality(Unread)
    /\ IsFiniteSet(Unread) /\ \A i \in Reports : rx[i].n > 0

\* What is about to be reported is in the buffer.
InHost ==
  Hashing =>
    /\ \A c \in cpu : c.phase = "report" => OnCache(c.task)
    /\ \A g \in Gpus : gpu[g].pc = "report" => OnCache(gpu[g].last_task)

\* The requests for work that the control loop has not read.
Asks(dev) == {i \in DOMAIN rx : rx[i].kind = "ready" /\ rx[i].dev = dev}

Unhashed == Phase("queued") \cup Phase("hash")
CpuStarted ==
  IF spc # "kick" THEN CpuThreads ELSE IF kick > NumGpus THEN kick - NumGpus - 1 ELSE 0

\* The request of a CPU task is followed by its report; each one that was read
\* has been answered with at most one task.
CpuAsks ==
  /\ IsFiniteSet(cpu)
  /\ \A c, d \in cpu : c.task = d.task => c = d
  /\ \A i \in Asks(0) : Phase("report") # {} \/ \E j \in Reports : j > i
  /\ Cardinality(Unhashed) + Cardinality(Asks(0)) <= CpuStarted

\* A GPU thread asks once, waits for the answer, and keeps its two device
\* buffers apart.
GpuAsks(g) ==
  /\ Len(inbox[g]) <= 1
  /\ Asks(g) # {} \/ inbox[g] # <<>> => gpu[g].pc = "recv"
  /\ Asks(g) = {} \/ inbox[g] = <<>>
  /\ \A i, j \in Asks(g) : i = j
  /\ gpu[g].first_run => Asks(g) = {} /\ gpu[g].pc # "ask" /\ gpu[g].buffer_id = 0
  /\ Hashing /\ inbox[g] # <<>> =>
       inbox[g][1].cache = buf /\ (gpu[g].first_run => inbox[g][1].n > 0)
  /\ ~gpu[g].first_run /\ inbox[g] # <<>> /\ inbox[g][1].n > 0 => inbox[g][1] # gpu[g].last_task
  /\ ~gpu[g].first_run /\ gpu[g].pc = "report" => gpu[g].next_task # gpu[g].last_task
  /\ ~gpu[g].first_run =>
       gpu[g].vram[TransferFrom(gpu[g].buffer_id)] =
         IF gpu[g].pc = "report" THEN gpu[g].next_task ELSE gpu[g].last_task
  /\ Hashing => gpu[g].pc # "end"
  /\ spc = "kick" /\ g >= kick => gpu[g].first_run /\ gpu[g].pc = "recv" /\ inbox[g] = <<>>

Between ==
  ~Hashing =>
    /\ rx = <<>> /\ cpu = {}
    /\ \A g \in Gpus :
         /\ gpu[g].first_run
         /\ gpu[g].pc = "recv" \/ (spc = "done" /\ gpu[g].pc = "end")
         /\ inbox[g] = <<>> \/ (spc = "done" /\ inbox[g] = <<None>>)

Counters ==
  /\ spc = "done" <=> nonces_hashed = Nonces
  /\ spc \in {"kick", "loop", "send"} => buf \in Buffers
  /\ spc = "kick" => processed = 0
  /\ spc = "loop" => processed < Todo
  /\ spc = "send" => \A i \in 0 .. Todo - 1 : cache[buf][i] = nonces_hashed + i

\* Every buffer is in at most one place: the two channels, the scheduler, the
\* writer.
Owned ==
  /\ \A i, j \in DOMAIN empty_buffers : empty_buffers[i] = empty_buffers[j] => i = j
  /\ \A i, j \in DOMAIN Held : Held[i] = Held[j] => i = j
  /\ \A i \in DOMAIN empty_buffers, j \in DOMAIN Held : empty_buffers[i] # Held[j]
  /\ spc \in {"kick", "loop", "send"} =>
       /\ \A i \in DOMAIN empty_buffers : empty_buffers[i] # buf
       /\ \A i \in DOMAIN Held : Held[i] # buf

\* The chunk of the plot from nonce n on is in buffer b.
Holds(b, n) ==
  \A k \in 0 .. Smaller(BufNonces, Nonces - n) - 1 : cache[b][k] = n + k

\* The writer has the chunks before nonces_hashed.
Queue ==
  /\ Len(Held) = 0 => nonces_hashed = nonces_written
  /\ Len(Held) = 1 => nonces_hashed = Smaller(nonces_written + BufNonces, Nonces)
  /\ Len(Held) = 2 => nonces_hashed = Smaller(nonces_written + 2 * BufNonces, Nonces)
  /\ Len(Held) >= 1 => nonces_written < Nonces /\ Holds(Held[1], nonces_written)
  /\ Len(Held) >= 2 => /\ nonces_written + BufNonces < Nonces
                       /\ Holds(Held[2], nonces_written + BufNonces)
  /\ Len(Held) <= 2

IInv ==
  /\ TypeOK /\ Counters /\ Pieces /\ InHost /\ CpuAsks /\ (\A g \in Gpus : GpuAsks(g))
  /\ Between /\ Owned /\ Queue
-----------------------------------------------------------------------------
(* Messages: what reading one and sending one does to the sets of them.    *)

Msgs == [dev : 0 .. NumGpus, kind : {"ready", "done"}, n : Nat]

LEMMA RxAppend ==
  ASSUME rx \in Seq(Msgs), NEW m \in Msgs, rx' = Append(rx, m)
  PROVE  /\ rx' \in Seq(Msgs) /\ Len(rx') = Len(rx) + 1 /\ Len(rx) \in Nat
         /\ DOMAIN rx = 1 .. Len(rx) /\ DOMAIN rx' = 1 .. Len(rx) + 1
         /\ \A i \in 1 .. Len(rx) : rx'[i] = rx[i]
         /\ rx'[Len(rx) + 1] = m
BY AppendProperties, LenProperties

LEMMA RxTail ==
  ASSUME rx \in Seq(Msgs), rx # <<>>, rx' = Tail(rx)
  PROVE  /\ rx' \in Seq(Msgs) /\ Len(rx) \in Nat \ {0} /\ Head(rx) = rx[1] /\ rx[1] \in Msgs
         /\ DOMAIN rx = 1 .. Len(rx) /\ DOMAIN rx' = 1 .. Len(rx) - 1
         /\ \A i \in 1 .. Len(rx) - 1 : rx'[i] = rx[i + 1]
<1>1. Len(rx) \in Nat \ {0} /\ DOMAIN rx = 1 .. Len(rx) /\ rx[1] \in Msgs
  BY EmptySeq, LenProperties, ElementOfSeq
<1> QED BY <1>1, HeadTailProperties, LenProperties

\* Moving a finite set of numbers, or of pairs, down by one keeps its size.
LEMMA ShiftedNumbers ==
  ASSUME NEW S, NEW T, S \subseteq Int, T \subseteq Int, IsFiniteSet(S),
         \A i \in Int : i \in T <=> i + 1 \in S
  PROVE  IsFiniteSet(T) /\ Cardinality(T) = Cardinality(S)
<1> DEFINE f == [i \in S |-> i - 1]
<1>1. f \in [S -> T]
  OBVIOUS
<1>2. \A i, j \in S : f[i] = f[j] => i = j
  OBVIOUS
<1>3. \A k \in T : k + 1 \in S /\ f[k + 1] = k
  OBVIOUS
<1>4. f \in Bijection(S, T)
  BY <1>1, <1>2, <1>3 DEF Bijection, Injection, Surjection, IsInjective
<1> QED BY <1>4, FS_Bijection DEF ExistsBijection

LEMMA ShiftedPairs ==
  ASSUME NEW S, NEW T, S \subseteq Int \X Int, T \subseteq Int \X Int, IsFiniteSet(S),
         \A i, k \in Int : <<i, k>> \in T <=> <<i + 1, k>> \in S
  PROVE  IsFiniteSet(T) /\ Cardinality(T) = Cardinality(S)
<1> DEFINE f == [p \in S |-> <<p[1] - 1, p[2]>>]
<1>1. f \in [S -> T]
  <2> SUFFICES ASSUME NEW p \in S PROVE <<p[1] - 1, p[2]>> \in T
    OBVIOUS
  <2> QED BY p[1] \in Int, p[2] \in Int, p = <<p[1], p[2]>>, (p[1] - 1) + 1 = p[1]
<1>2. \A p, q \in S : f[p] = f[q] => p = q
  <2> SUFFICES ASSUME NEW p \in S, NEW q \in S, f[p] = f[q] PROVE p = q
    OBVIOUS
  <2>1. p[1] - 1 = q[1] - 1 /\ p[2] = q[2]
    OBVIOUS
  <2> QED BY <2>1, p = <<p[1], p[2]>>, q = <<q[1], q[2]>>, p[1] \in Int, q[1] \in Int
<1>3. ASSUME NEW q \in T PROVE \E p \in S : f[p] = q
  <2>1. q = <<q[1], q[2]>> /\ q[1] \in Int /\ q[2] \in Int
    OBVIOUS
  <2>2. <<q[1] + 1, q[2]>> \in S
    BY <2>1
  <2>3. f[<<q[1] + 1, q[2]>>] = <<(q[1] + 1) - 1, q[2]>>
    BY <2>2
  <2> QED BY <2>1, <2>2, <2>3
<1> HIDE DEF f
<1>4. f \in Bijection(S, T)
  BY <1>1, <1>2, <1>3 DEF Bijection, Injection, Surjection, IsInjective
<1> QED BY <1>4, FS_Bijection DEF ExistsBijection

LEMMA PairsCount ==
  ASSUME NEW i, NEW n \in Nat
  PROVE  IsFiniteSet({i} \X (1 .. n)) /\ Cardinality({i} \X (1 .. n)) = n
<1>1. IsFiniteSet({i}) /\ Cardinality({i}) = 1
  BY FS_Singleton
<1>2. IsFiniteSet(1 .. n) /\ Cardinality(1 .. n) = IF 1 > n THEN 0 ELSE n - 1 + 1
  BY FS_Interval, 1 \in Int, n \in Int
<1>3. IsFiniteSet({i} \X (1 .. n))
      /\ Cardinality({i} \X (1 .. n)) = Cardinality({i}) * Cardinality(1 .. n)
  BY <1>1, <1>2, FS_Product
<1> QED BY <1>1, <1>2, <1>3

LEMMA SendReady ==
  ASSUME rx \in Seq(Msgs), NEW d \in 0 .. NumGpus, rx' = Append(rx, Message(d, "ready", 0))
  PROVE  /\ rx' \in Seq(Msgs) /\ Reports' = Reports /\ Unread' = Unread
         /\ Asks(d)' = Asks(d) \cup {Len(rx) + 1}
         /\ \A e : e # d => Asks(e)' = Asks(e)
<1>1. /\ Message(d, "ready", 0) \in Msgs /\ Message(d, "ready", 0).kind = "ready"
      /\ Message(d, "ready", 0).dev = d
  BY DEF Message, Msgs
<1>2. /\ rx' \in Seq(Msgs) /\ Len(rx) \in Nat
      /\ DOMAIN rx = 1 .. Len(rx) /\ DOMAIN rx' = 1 .. Len(rx) + 1
      /\ \A i \in 1 .. Len(rx) : rx'[i] = rx[i]
      /\ rx'[Len(rx) + 1] = Message(d, "ready", 0)
  BY <1>1, RxAppend
<1>3. Reports' = Reports /\ \A i \in Reports : rx'[i] = rx[i]
  BY <1>1, <1>2 DEF Reports
<1>4. Unread' = Unread
  BY <1>3 DEF Unread
<1>5. Asks(d)' = Asks(d) \cup {Len(rx) + 1}
  BY <1>1, <1>2 DEF Asks
<1>6. ASSUME NEW e, e # d PROVE Asks(e)' = Asks(e)
  BY <1>1, <1>2, <1>6 DEF Asks
<1> QED BY <1>2, <1>3, <1>4, <1>5, <1>6

LEMMA SendDone ==
  ASSUME rx \in Seq(Msgs), NEW d \in 0 .. NumGpus, NEW n \in Nat, IsFiniteSet(Unread),
         rx' = Append(rx, Message(d, "done", n))
  PROVE  /\ rx' \in Seq(Msgs) /\ Reports' = Reports \cup {Len(rx) + 1}
         /\ Len(rx) \in Nat /\ rx'[Len(rx) + 1].n = n /\ \A i \in Reports : rx'[i] = rx[i]
         /\ \A e : Asks(e)' = Asks(e) /\ \A i \in Asks(e) : i < Len(rx) + 1
         /\ IsFiniteSet(Unread') /\ Cardinality(Unread') = Cardinality(Unread) + n
<1> DEFINE last == Len(rx) + 1
           new == {last} \X (1 .. n)
<1>1. /\ Message(d, "done", n) \in Msgs /\ Message(d, "done", n).kind = "done"
      /\ Message(d, "done", n).n = n
  BY DEF Message, Msgs
<1>2. /\ rx' \in Seq(Msgs) /\ Len(rx) \in Nat
      /\ DOMAIN rx = 1 .. Len(rx) /\ DOMAIN rx' = 1 .. Len(rx) + 1
      /\ \A i \in 1 .. Len(rx) : rx'[i] = rx[i]
      /\ rx'[Len(rx) + 1] = Message(d, "done", n)
  BY <1>1, RxAppend
<1>3. /\ Reports' = Reports \cup {last} /\ rx'[last].n = n
      /\ \A i \in Reports : rx'[i] = rx[i] /\ i # last
  BY <1>1, <1>2 DEF Reports
<1>4. Unread' = Unread \cup new /\ Unread \cap new = {}
  <2> DEFINE N(i) == rx[i].n
             M(i) == rx'[i].n
  <2>1. Unread = UNION {{i} \X (1 .. N(i)) : i \in Reports}
    BY DEF Unread
  <2>2. Unread' = UNION {{i} \X (1 .. M(i)) : i \in Reports'}
    BY DEF Unread
  <2>3. M(last) = n /\ \A i \in Reports : M(i) = N(i)
    BY <1>3
  <2>4. \A i \in Reports : i # last
    BY <1>3
  <2>5. Reports' = Reports \cup {last}
    BY <1>3
  <2> HIDE DEF N, M, last
  <2> QED BY <2>1, <2>2, <2>3, <2>4, <2>5
<1>5. IsFiniteSet(new) /\ Cardinality(new) = n
  BY PairsCount
<1>6. IsFiniteSet(Unread') /\ Cardinality(Unread') = Cardinality(Unread) + n
  <2>1. Cardinality(Unread \cap new) = 0 /\ Cardinality(Unread) \in Nat
    BY <1>4, FS_EmptySet, FS_CardinalityType
  <2>2. IsFiniteSet(Unread \cup new)
        /\ Cardinality(Unread \cup new) =
             Cardinality(Unread) + Cardinality(new) - Cardinality(Unread \cap new)
    BY <1>5, FS_Union
  <2> HIDE DEF new
  <2> QED BY <1>4, <1>5, <2>1, <2>2
<1>7. ASSUME NEW e PROVE Asks(e)' = Asks(e) /\ \A i \in Asks(e) : i < Len(rx) + 1
  BY <1>1, <1>2 DEF Asks
<1> QED BY <1>2, <1>3, <1>6, <1>7

LEMMA ReadReady ==
  ASSUME rx \in Seq(Msgs), rx # <<>>, rx' = Tail(rx), rx[1].kind = "ready", IsFiniteSet(Unread)
  PROVE  /\ rx' \in Seq(Msgs)
         /\ \A i \in Int : i \in Reports' <=> i + 1 \in Reports
         /\ \A i \in Reports' : rx'[i] = rx[i + 1]
         /\ IsFiniteSet(Unread') /\ Cardinality(Unread') = Cardinality(Unread)
         /\ 1 \in Asks(rx[1].dev)
         /\ \A e : \A i \in Int : i \in Asks(e)' <=> i + 1 \in Asks(e) \ {1}
<1>1. /\ rx' \in Seq(Msgs) /\ Len(rx) \in Nat \ {0} /\ rx[1] \in Msgs
      /\ DOMAIN rx = 1 .. Len(rx) /\ DOMAIN rx' = 1 .. Len(rx) - 1
      /\ \A i \in 1 .. Len(rx) - 1 : rx'[i] = rx[i + 1]
  BY RxTail
<1>2. /\ \A i \in Int : i \in Reports' <=> i + 1 \in Reports
      /\ \A i \in Reports' : rx'[i] = rx[i + 1]
  BY <1>1 DEF Reports
<1>3. /\ \A i, k \in Int : <<i, k>> \in Unread' <=> <<i + 1, k>> \in Unread
      /\ Unread \subseteq Int \X Int /\ Unread' \subseteq Int \X Int
  <2>1. Reports \subseteq Int /\ Reports' \subseteq Int
    BY <1>1 DEF Reports
  <2>2. \A i, k : <<i, k>> \in Unread <=> i \in Reports /\ k \in 1 .. rx[i].n
    BY DEF Unread
  <2>3. \A i, k : <<i, k>> \in Unread' <=> i \in Reports' /\ k \in 1 .. rx'[i].n
    <3> DEFINE N(i) == rx'[i].n
    <3>1. Unread' = UNION {{i} \X (1 .. N(i)) : i \in Reports'}
      BY DEF Unread
    <3> HIDE DEF N
    <3>2. \A i, k : <<i, k>> \in Unread' <=> i \in Reports' /\ k \in 1 .. N(i)
      BY <3>1
    <3> QED BY <3>2 DEF N
  <2>4. Unread \subseteq Int \X Int /\ Unread' \subseteq Int \X Int
    BY <2>1 DEF Unread
  <2> QED BY <1>2, <2>2, <2>3, <2>4
<1>4. IsFiniteSet(Unread') /\ Cardinality(Unread') = Cardinality(Unread)
  BY <1>3, ShiftedPairs
<1>5. 1 \in Asks(rx[1].dev)
  BY <1>1 DEF Asks
<1>6. \A e : \A i \in Int : i \in Asks(e)' <=> i + 1 \in Asks(e) \ {1}
  BY <1>1 DEF Asks
<1> QED BY <1>1, <1>2, <1>4, <1>5, <1>6

LEMMA ReadDone ==
  ASSUME rx \in Seq(Msgs), rx # <<>>, rx' = Tail(rx), rx[1].kind = "done", IsFiniteSet(Unread)
  PROVE  /\ rx' \in Seq(Msgs)
         /\ \A i \in Int : i \in Reports' <=> i + 1 \in Reports \ {1}
         /\ \A i \in Reports' : rx'[i] = rx[i + 1]
         /\ 1 \in Reports /\ rx[1].n \in Nat
         /\ IsFiniteSet(Unread') /\ Cardinality(Unread') = Cardinality(Unread) - rx[1].n
         /\ \A e : \A i \in Int : i \in Asks(e)' <=> i + 1 \in Asks(e)
<1> DEFINE first == {1} \X (1 .. rx[1].n)
<1>1. /\ rx' \in Seq(Msgs) /\ Len(rx) \in Nat \ {0} /\ rx[1] \in Msgs
      /\ DOMAIN rx = 1 .. Len(rx) /\ DOMAIN rx' = 1 .. Len(rx) - 1
      /\ \A i \in 1 .. Len(rx) - 1 : rx'[i] = rx[i + 1]
  BY RxTail
<1>2. /\ \A i \in Int : i \in Reports' <=> i + 1 \in Reports \ {1}
      /\ \A i \in Reports' : rx'[i] = rx[i + 1]
      /\ 1 \in Reports /\ rx[1].n \in Nat
  BY <1>1 DEF Reports, Msgs
<1>3. /\ \A i, k \in Int : <<i, k>> \in Unread' <=> <<i + 1, k>> \in Unread \ first
      /\ Unread \ first \subseteq Int \X Int /\ Unread' \subseteq Int \X Int
      /\ first \subseteq Unread
  <2>1. Reports \subseteq Int /\ Reports' \subseteq Int
    BY <1>1 DEF Reports
  <2>2. \A i, k : <<i, k>> \in Unread <=> i \in Reports /\ k \in 1 .. rx[i].n
    BY DEF Unread
  <2>3. \A i, k : <<i, k>> \in Unread' <=> i \in Reports' /\ k \in 1 .. rx'[i].n
    <3> DEFINE N(i) == rx'[i].n
    <3>1. Unread' = UNION {{i} \X (1 .. N(i)) : i \in Reports'}
      BY DEF Unread
    <3> HIDE DEF N
    <3>2. \A i, k : <<i, k>> \in Unread' <=> i \in Reports' /\ k \in 1 .. N(i)
      BY <3>1
    <3> QED BY <3>2 DEF N
  <2>4. Unread \subseteq Int \X Int /\ Unread' \subseteq Int \X Int
    BY <2>1 DEF Unread
  <2>5. \A i, k : <<i, k>> \in first <=> i = 1 /\ k \in 1 .. rx[1].n
    OBVIOUS
  <2>6. first \subseteq Unread
    BY <1>2 DEF Unread
  <2> HIDE DEF first
  <2>7. ASSUME NEW i \in Int, NEW k \in Int
        PROVE  <<i, k>> \in Unread' <=> <<i + 1, k>> \in Unread \ first
    BY <1>2, <2>2, <2>3, <2>5, <2>7
  <2> QED BY <2>4, <2>6, <2>7
<1>4. IsFiniteSet(first) /\ Cardinality(first) = rx[1].n
  BY <1>2, PairsCount
<1> HIDE DEF first
<1>5. IsFiniteSet(Unread \ first) /\ Cardinality(Unread \ first) = Cardinality(Unread) - rx[1].n
  <2>1. Unread \cap first = first
    BY <1>3
  <2>2. /\ IsFiniteSet(Unread \ first)
        /\ Cardinality(Unread \ first) = Cardinality(Unread) - Cardinality(Unread \cap first)
    BY FS_Difference
  <2> QED BY <1>4, <2>1, <2>2
<1>6. IsFiniteSet(Unread') /\ Cardinality(Unread') = Cardinality(Unread \ first)
  BY <1>3, <1>5, ShiftedPairs
<1>7. \A e : \A i \in Int : i \in Asks(e)' <=> i + 1 \in Asks(e)
  BY <1>1 DEF Asks
<1> QED BY <1>1, <1>2, <1>5, <1>6, <1>7

-----------------------------------------------------------------------------
(* Tasks under way: what giving one out and reporting one does to the slots. *)

Covered(G) == UNION {SlotsOf(p[2]) : p \in G}

LEMMA SlotsCount ==
  ASSUME NEW t, t.offset \in Nat, t.n \in Nat
  PROVE  IsFiniteSet(SlotsOf(t)) /\ Cardinality(SlotsOf(t)) = t.n
<1> DEFINE a == t.offset
           b == t.offset + t.n - 1
<1>1. a \in Int /\ b \in Int
  OBVIOUS
<1>2. IsFiniteSet(a .. b) /\ Cardinality(a .. b) = IF a > b THEN 0 ELSE b - a + 1
  BY <1>1, FS_Interval
<1> QED BY <1>2 DEF SlotsOf

LEMMA CoveredGain ==
  ASSUME NEW G, NEW p, p[2].offset \in Nat, p[2].n \in Nat,
         IsFiniteSet(Covered(G)), Covered(G) \subseteq 0 .. p[2].offset - 1
  PROVE  /\ Covered(G \cup {p}) = Covered(G) \cup SlotsOf(p[2])
         /\ IsFiniteSet(Covered(G \cup {p}))
         /\ Cardinality(Covered(G \cup {p})) = Cardinality(Covered(G)) + p[2].n
<1> DEFINE C == Covered(G)
           D == SlotsOf(p[2])
<1>1. Covered(G \cup {p}) = C \cup D
  BY DEF Covered
<1>2. C \cap D = {}
  BY DEF SlotsOf
<1>3. IsFiniteSet(D) /\ Cardinality(D) = p[2].n
  BY SlotsCount
<1> HIDE DEF C, D
<1>4. Cardinality(C \cap D) = 0 /\ Cardinality(C) \in Nat
  BY <1>2, FS_EmptySet, FS_CardinalityType DEF C
<1>5. IsFiniteSet(C \cup D)
      /\ Cardinality(C \cup D) = Cardinality(C) + Cardinality(D) - Cardinality(C \cap D)
  BY <1>3, FS_Union DEF C
<1>6. Cardinality(C \cup D) = Cardinality(C) + p[2].n
  BY <1>3, <1>4, <1>5
<1> QED BY <1>1, <1>5, <1>6 DEF C, D

LEMMA CoveredLoss ==
  ASSUME NEW G, NEW p \in G, IsFiniteSet(Covered(G)),
         \A q \in G : q[2].offset \in Nat /\ q[2].n \in Nat,
         \A q \in G : q = p \/ Apart(q[2], p[2])
  PROVE  /\ Covered(G \ {p}) = Covered(G) \ SlotsOf(p[2])
         /\ IsFiniteSet(Covered(G \ {p}))
         /\ Cardinality(Covered(G \ {p})) = Cardinality(Covered(G)) - p[2].n
<1> DEFINE C == Covered(G)
           D == SlotsOf(p[2])
<1>1. \A q \in G \ {p} : SlotsOf(q[2]) \cap D = {}
  BY DEF Apart, SlotsOf
<1>2. Covered(G \ {p}) = C \ D
  BY <1>1 DEF Covered
<1>3. C \cap D = D
  BY DEF Covered
<1>4. IsFiniteSet(D) /\ Cardinality(D) = p[2].n
  BY SlotsCount
<1> HIDE DEF C, D
<1>5. IsFiniteSet(C \ D) /\ Cardinality(C \ D) = Cardinality(C) - Cardinality(C \cap D)
  BY FS_Difference DEF C
<1> QED BY <1>2, <1>3, <1>4, <1>5 DEF C, D

LEMMA GivenPairs ==
  /\ \A d, t : <<d, t>> \in Given <=>
           (d = 0 /\ \E c \in cpu : t = c.task) \/ (d \in Gpus /\ t \in GpuTasks(d))
  /\ \A p \in Given : p = <<p[1], p[2]>>
BY DEF Given, CpuTasks

LEMMA GivenPairsNext ==
  /\ \A d, t : <<d, t>> \in Given' <=>
           (d = 0 /\ \E c \in cpu' : t = c.task) \/ (d \in Gpus /\ t \in GpuTasks(d)')
  /\ \A p \in Given' : p = <<p[1], p[2]>>
<1> DEFINE T(g) == GpuTasks(g)'
<1>1. Given' = ({0} \X {c.task : c \in cpu'}) \cup UNION {{g} \X T(g) : g \in Gpus}
  BY DEF Given, CpuTasks
<1> HIDE DEF T
<1>2. /\ \A d, t : <<d, t>> \in Given' <=>
           (d = 0 /\ \E c \in cpu' : t = c.task) \/ (d \in Gpus /\ t \in T(d))
      /\ \A p \in Given' : p = <<p[1], p[2]>>
  BY <1>1
<1> QED BY <1>2 DEF T

LEMMA InFlightGiven ==
  /\ SlotsInFlight = Covered(Given) /\ InFlight = {p[2] : p \in Given}
  /\ SlotsInFlight' = Covered(Given') /\ InFlight' = {p[2] : p \in Given'}
<1> DEFINE S(g) == GpuTasks(g)
           T(g) == GpuTasks(g)'
<1>1. /\ InFlight = {c.task : c \in cpu} \cup UNION {S(g) : g \in Gpus}
      /\ InFlight' = {c.task : c \in cpu'} \cup UNION {T(g) : g \in Gpus}
  BY DEF InFlight
<1>2. /\ \A d, t : <<d, t>> \in Given <=>
           (d = 0 /\ \E c \in cpu : t = c.task) \/ (d \in Gpus /\ t \in S(d))
      /\ \A d, t : <<d, t>> \in Given' <=>
           (d = 0 /\ \E c \in cpu' : t = c.task) \/ (d \in Gpus /\ t \in T(d))
  BY GivenPairs, GivenPairsNext
<1> HIDE DEF S, T
<1>3. /\ \A t : t \in InFlight <=> \E d : <<d, t>> \in Given
      /\ \A t : t \in InFlight' <=> \E d : <<d, t>> \in Given'
  BY <1>1, <1>2
<1>4. ASSUME NEW G, \A p \in G : p = <<p[1], p[2]>>
      PROVE  \A t : (\E d : <<d, t>> \in G) <=> \E p \in G : t = p[2]
  <2>1. ASSUME NEW t, NEW d, <<d, t>> \in G PROVE \E p \in G : t = p[2]
    BY <2>1, <<d, t>>[2] = t
  <2>2. ASSUME NEW t, NEW p \in G, t = p[2] PROVE \E d : <<d, t>> \in G
    BY <2>2, <1>4
  <2> QED BY <2>1, <2>2
<1>5. InFlight = {p[2] : p \in Given} /\ InFlight' = {p[2] : p \in Given'}
  <2>1. \A t : t \in InFlight <=> \E p \in Given : t = p[2]
    BY <1>3, <1>4, GivenPairs
  <2>2. \A t : t \in InFlight' <=> \E p \in Given' : t = p[2]
    BY <1>3, <1>4, GivenPairsNext
  <2> QED BY <2>1, <2>2
<1> QED BY <1>5 DEF SlotsInFlight, Covered

LEMMA GivenType ==
  ASSUME TypeOK
  PROVE  \A p \in Given : p = <<p[1], p[2]>> /\ p[1] \in 0 .. NumGpus /\ p[2] \in Task
<1>1. \A c \in cpu : c.task \in Task
  BY DEF TypeOK
<1>2. \A g \in Gpus : GpuTasks(g) \subseteq Task
  <2> SUFFICES ASSUME NEW g \in Gpus PROVE GpuTasks(g) \subseteq Task
    OBVIOUS
  <2>1. gpu[g] \in GpuState /\ inbox[g] \in Seq(Task)
    BY DEF TypeOK
  <2>2. \A i \in DOMAIN inbox[g] : inbox[g][i] \in Task
    BY <2>1, LenProperties
  <2> QED BY <2>1, <2>2 DEF GpuTasks, GpuState
<1> QED BY <1>1, <1>2, SchedulerAssumption DEF Given, CpuTasks, Gpus

\* The slots under way are slots that were requested.
LEMMA CoveredBound ==
  ASSUME TypeOK, Pieces, Hashing
  PROVE  /\ Covered(Given) \subseteq 0 .. requested - 1 /\ IsFiniteSet(Covered(Given))
         /\ Cardinality(Covered(Given)) \in Nat /\ Cardinality(Unread) \in Nat
<1>1. Covered(Given) \subseteq 0 .. requested - 1
  <2> SUFFICES ASSUME NEW p \in Given, NEW i \in SlotsOf(p[2]) PROVE i \in 0 .. requested - 1
    BY DEF Covered
  <2>1. InBuffer(p[2]) /\ p[2] \in Task
    BY GivenType DEF Pieces
  <2>2. p[2].offset \in Nat /\ p[2].n \in Nat /\ requested \in Nat
    BY <2>1, SchedulerAssumption DEF Task, TypeOK
  <2> QED BY <2>1, <2>2 DEF InBuffer, SlotsOf
<1>2. IsFiniteSet(0 .. requested - 1)
  BY FS_Interval, 0 \in Int, requested - 1 \in Int DEF TypeOK
<1>3. IsFiniteSet(Covered(Given))
  BY <1>1, <1>2, FS_Subset
<1> QED BY <1>1, <1>3, FS_CardinalityType DEF Pieces

\* Device d goes on with its task: what is under way stays the same.
LEMMA PiecesMove ==
  ASSUME TypeOK, Pieces, Hashing, Given' = Given,
         UNCHANGED <<buf, nonces_hashed, requested, processed>>,
         IsFiniteSet(Unread'), Cardinality(Unread') = Cardinality(Unread),
         \A i \in Reports' : rx'[i].n > 0,
         \A i \in Slots \ SlotsInFlight : cache'[buf][i] = cache[buf][i]
  PROVE  Pieces'
<1>1. SlotsInFlight' = SlotsInFlight
  BY InFlightGiven
<1>2. requested \in 0 .. BufNonces
  BY DEF TypeOK
<1>3. \A p \in Given' : InBuffer(p[2])'
  BY DEF Pieces, InBuffer
<1>4. \A p, q \in Given' : p = q \/ Apart(p[2], q[2])
  BY DEF Pieces
<1>5. \A i \in 0 .. requested' - 1 :
        i \in SlotsInFlight' \/ cache'[buf'][i] = nonces_hashed' + i
  <2> SUFFICES ASSUME NEW i \in 0 .. requested - 1, i \notin SlotsInFlight
               PROVE  cache'[buf][i] = nonces_hashed + i
    BY <1>1
  <2>1. i \in Slots
    BY <1>2, SchedulerAssumption DEF Slots
  <2> QED BY <2>1 DEF Pieces
<1>6. requested' = processed' + Cardinality(SlotsInFlight') + Cardinality(Unread')
  BY <1>1 DEF Pieces
<1> QED BY <1>3, <1>4, <1>5, <1>6 DEF Pieces

\* Device d is given n nonces, the next ones of the buffer.
LEMMA PiecesAssign ==
  ASSUME TypeOK, Pieces, Hashing, NEW d, NEW n \in Nat, buf \in Buffers,
         Given' = Given \cup (IF n > 0 THEN {<<d, NewTask(n)>>} ELSE {}),
         requested' = requested + n,
         UNCHANGED <<buf, nonces_hashed, processed, cache>>,
         IsFiniteSet(Unread'), Cardinality(Unread') = Cardinality(Unread),
         \A i \in Reports' : rx'[i].n > 0
  PROVE  Pieces'
<1>1. CASE n = 0
  <2>1. Given' = Given /\ UNCHANGED requested
    BY <1>1 DEF TypeOK
  <2> QED BY <2>1, PiecesMove
<1>2. CASE n > 0
  <2> DEFINE t == NewTask(n)
             p == <<d, t>>
  <2>1. /\ t.offset = requested /\ t.n = n /\ t.cache = buf /\ t.start = nonces_hashed + requested
        /\ requested \in 0 .. BufNonces /\ requested \in Nat /\ nonces_hashed \in Int
        /\ processed \in Nat
    BY SchedulerAssumption DEF NewTask, TypeOK
  <2>2. Given' = Given \cup {p} /\ p[2] = t
    BY <1>2
  <2> HIDE DEF p, t
  <2>3. /\ Covered(Given) \subseteq 0 .. requested - 1 /\ IsFiniteSet(Covered(Given))
        /\ Cardinality(Covered(Given)) \in Nat /\ Cardinality(Unread) \in Nat
    BY CoveredBound
  <2>4. /\ Covered(Given') = Covered(Given) \cup SlotsOf(t)
        /\ Cardinality(Covered(Given')) = Cardinality(Covered(Given)) + n
    BY <2>1, <2>2, <2>3, CoveredGain
  <2>5. SlotsInFlight' = SlotsInFlight \cup SlotsOf(t)
        /\ Cardinality(SlotsInFlight') = Cardinality(SlotsInFlight) + n
    BY <2>4, InFlightGiven
  <2>6. \A q \in Given : InBuffer(q[2]) /\ q[2] \in Task
    BY GivenType DEF Pieces
  <2>7. \A q \in Given' : InBuffer(q[2])'
    <3>1. ASSUME NEW q \in Given PROVE InBuffer(q[2])'
      <4>1. q[2].offset \in Nat /\ q[2].n \in Nat /\ InBuffer(q[2])
        BY <2>6 DEF Task
      <4> QED BY <2>1, <4>1 DEF InBuffer
    <3>2. \A q : q = p => InBuffer(q[2])'
      BY <1>2, <2>1, <2>2 DEF InBuffer
    <3> QED BY <2>2, <3>1, <3>2
  <2>8. \A q, r \in Given' : q = r \/ Apart(q[2], r[2])
    <3>1. \A q \in Given : Apart(q[2], p[2]) /\ Apart(p[2], q[2])
      BY <2>1, <2>2, <2>6 DEF InBuffer, Apart
    <3>2. \A q, r \in Given : q = r \/ Apart(q[2], r[2])
      BY DEF Pieces
    <3> QED BY <2>2, <3>1, <3>2
  <2>9. \A i \in 0 .. requested' - 1 :
          i \in SlotsInFlight' \/ cache'[buf'][i] = nonces_hashed' + i
    <3> SUFFICES ASSUME NEW i \in 0 .. (requested + n) - 1, i \notin SlotsInFlight'
                 PROVE  cache[buf][i] = nonces_hashed + i
      OBVIOUS
    <3>1. i \notin SlotsInFlight /\ i \notin SlotsOf(t)
      BY <2>5
    <3>2. i \in 0 .. requested - 1
      BY <2>1, <3>1 DEF SlotsOf
    <3> QED BY <3>1, <3>2 DEF Pieces
  <2>10. requested' = processed' + Cardinality(SlotsInFlight') + Cardinality(Unread')
    <3>1. requested = processed + Cardinality(SlotsInFlight) + Cardinality(Unread)
          /\ Cardinality(SlotsInFlight) \in Nat
      BY <2>3, InFlightGiven DEF Pieces
    <3> QED BY <2>1, <2>3, <2>5, <3>1
  <2> QED BY <2>7, <2>8, <2>9, <2>10 DEF Pieces
<1> QED BY <1>1, <1>2

\* Device d reports task t, whose nonces are in the buffer.
LEMMA PiecesReport ==
  ASSUME TypeOK, Pieces, Hashing, NEW d \in 0 .. NumGpus, NEW t, <<d, t>> \in Given,
         OnCache(t), Given' = Given \ {<<d, t>>},
         rx' = Append(rx, Message(d, "done", t.n)),
         UNCHANGED <<buf, nonces_hashed, requested, processed, cache>>
  PROVE  Pieces'
<1> DEFINE p == <<d, t>>
<1>1. p \in Given /\ p[2] = t /\ Given' = Given \ {p}
  OBVIOUS
<1> HIDE DEF p
<1>2. \A q \in Given : InBuffer(q[2]) /\ q[2] \in Task /\ q[2].offset \in Nat /\ q[2].n \in Nat
  BY GivenType DEF Pieces, Task
<1>3. /\ IsFiniteSet(Covered(Given)) /\ Cardinality(Covered(Given)) \in Nat
      /\ Cardinality(Unread) \in Nat /\ processed \in Nat
  BY CoveredBound DEF TypeOK
<1>4. \A q \in Given : q = p \/ Apart(q[2], p[2])
  BY <1>1 DEF Pieces
<1>5. /\ Covered(Given') = Covered(Given) \ SlotsOf(t)
      /\ Cardinality(Covered(Given')) = Cardinality(Covered(Given)) - t.n
  BY <1>1, <1>2, <1>3, <1>4, CoveredLoss
<1>6. /\ SlotsInFlight' = SlotsInFlight \ SlotsOf(t)
      /\ Cardinality(SlotsInFlight') = Cardinality(SlotsInFlight) - t.n
  BY <1>5, InFlightGiven
<1>7. rx \in Seq(Msgs) /\ t.n \in Nat /\ t.n > 0 /\ IsFiniteSet(Unread)
  BY <1>1, <1>2 DEF TypeOK, Msgs, Pieces, InBuffer
<1>8. /\ Reports' = Reports \cup {Len(rx) + 1} /\ rx'[Len(rx) + 1].n = t.n
      /\ \A i \in Reports : rx'[i] = rx[i]
      /\ IsFiniteSet(Unread') /\ Cardinality(Unread') = Cardinality(Unread) + t.n
  BY <1>7, SendDone
<1>9. \A q \in Given' : InBuffer(q[2])'
  BY <1>1, <1>2 DEF InBuffer
<1>10. \A q, r \in Given' : q = r \/ Apart(q[2], r[2])
  BY <1>1 DEF Pieces
<1>11. \A i \in 0 .. requested' - 1 :
         i \in SlotsInFlight' \/ cache'[buf'][i] = nonces_hashed' + i
  BY <1>6 DEF Pieces, OnCache
<1>12. requested' = processed' + Cardinality(SlotsInFlight') + Cardinality(Unread')
  <2>1. requested = processed + Cardinality(SlotsInFlight) + Cardinality(Unread)
        /\ Cardinality(SlotsInFlight) \in Nat
    BY <1>3, InFlightGiven DEF Pieces
  <2> QED BY <1>3, <1>6, <1>7, <1>8, <2>1
<1>13. \A i \in Reports' : rx'[i].n > 0
  BY <1>7, <1>8 DEF Pieces
<1> QED BY <1>8, <1>9, <1>10, <1>11, <1>12, <1>13 DEF Pieces

\* The control loop counts a report.
LEMMA PiecesCount ==
  ASSUME TypeOK, Pieces, Hashing, Given' = Given, rx # <<>>, rx' = Tail(rx),
         rx[1].kind = "done", processed' = processed + rx[1].n,
         UNCHANGED <<buf, nonces_hashed, requested, cache>>
  PROVE  /\ Pieces'
         /\ processed' \in 0 .. requested
         /\ requested = processed' + Cardinality(Covered(Given)) + Cardinality(Unread')
         /\ Cardinality(Unread') \in Nat
<1>1. rx \in Seq(Msgs) /\ IsFiniteSet(Unread) /\ processed \in Nat
  BY DEF TypeOK, Msgs, Pieces
<1>2. /\ \A i \in Int : i \in Reports' <=> i + 1 \in Reports \ {1}
      /\ \A i \in Reports' : rx'[i] = rx[i + 1]
      /\ 1 \in Reports /\ rx[1].n \in Nat /\ rx' \in Seq(Msgs)
      /\ IsFiniteSet(Unread') /\ Cardinality(Unread') = Cardinality(Unread) - rx[1].n
  BY <1>1, ReadDone
<1>3. SlotsInFlight' = SlotsInFlight /\ SlotsInFlight = Covered(Given)
  BY InFlightGiven
<1>4. /\ Cardinality(Covered(Given)) \in Nat /\ Cardinality(Unread) \in Nat
      /\ Cardinality(Unread') \in Nat
  BY <1>2, CoveredBound, FS_CardinalityType
<1>5. /\ requested = processed' + Cardinality(Covered(Given)) + Cardinality(Unread')
      /\ processed' \in 0 .. requested
  <2>1. requested = processed + Cardinality(Covered(Given)) + Cardinality(Unread)
    BY <1>3 DEF Pieces
  <2> DEFINE n == rx[1].n
             c == Cardinality(Covered(Given))
             u == Cardinality(Unread)
             v == Cardinality(Unread')
  <2>2. /\ n \in Nat /\ c \in Nat /\ u \in Nat /\ v \in Nat /\ v = u - n
        /\ processed \in Nat /\ processed' = processed + n /\ requested = processed + c + u
    BY <1>1, <1>2, <1>4, <2>1
  <2> HIDE DEF n, c, u, v
  <2>3. requested = processed' + c + v /\ processed' \in 0 .. requested
    BY <2>2
  <2> QED BY <2>3 DEF c, v
<1>6. \A p \in Given' : InBuffer(p[2])'
  BY DEF Pieces, InBuffer
<1>7. \A p, q \in Given' : p = q \/ Apart(p[2], q[2])
  BY DEF Pieces
<1>8. \A i \in 0 .. requested' - 1 :
        i \in SlotsInFlight' \/ cache'[buf'][i] = nonces_hashed' + i
  BY <1>3 DEF Pieces
<1>9. \A i \in Reports' : rx'[i].n > 0
  <2>1. Reports' \subseteq Int
    BY <1>2, LenProperties DEF Reports
  <2> QED BY <1>2, <2>1 DEF Pieces
<1> QED BY <1>2, <1>3, <1>4, <1>5, <1>6, <1>7, <1>8, <1>9 DEF Pieces

-----------------------------------------------------------------------------
(* What a step of one device leaves alone.                                 *)

LEMMA GivenCpu ==
  ASSUME UNCHANGED <<gpu, inbox>>
  PROVE  /\ CpuTasks' = CpuTasks => Given' = Given
         /\ \A t : CpuTasks' = CpuTasks \cup {t} => Given' = Given \cup {<<0, t>>}
         /\ \A t : CpuTasks' = CpuTasks \ {t} => Given' = Given \ {<<0, t>>}
<1> DEFINE T(g) == GpuTasks(g)
           U == UNION {{g} \X T(g) : g \in Gpus}
<1>1. Given = ({0} \X CpuTasks) \cup U /\ Given' = ({0} \X CpuTasks') \cup U
  BY DEF Given, GpuTasks
<1>2. \A t : <<0, t>> \notin U
  BY SchedulerAssumption DEF Gpus
<1> HIDE DEF U
<1> QED BY <1>1, <1>2

LEMMA GivenGpu ==
  ASSUME UNCHANGED cpu, NEW g \in Gpus,
         \A h \in Gpus \ {g} : gpu'[h] = gpu[h] /\ inbox'[h] = inbox[h]
  PROVE  /\ GpuTasks(g)' = GpuTasks(g) => Given' = Given
         /\ \A t : GpuTasks(g)' = GpuTasks(g) \cup {t} => Given' = Given \cup {<<g, t>>}
         /\ \A t : GpuTasks(g)' = GpuTasks(g) \ {t} => Given' = Given \ {<<g, t>>}
<1> DEFINE T(h) == GpuTasks(h)
           T1(h) == GpuTasks(h)'
           U == UNION {{h} \X T(h) : h \in Gpus \ {g}}
           R == ({0} \X CpuTasks) \cup U
<1>1. \A h \in Gpus \ {g} : T1(h) = T(h)
  BY DEF GpuTasks
<1>2. Given = ({0} \X CpuTasks) \cup UNION {{h} \X T(h) : h \in Gpus}
  BY DEF Given
<1>3. Given' = ({0} \X CpuTasks) \cup UNION {{h} \X T1(h) : h \in Gpus}
  BY DEF Given, CpuTasks
<1> HIDE DEF T, T1
<1>4. Given = R \cup ({g} \X T(g)) /\ Given' = R \cup ({g} \X T1(g))
  BY <1>1, <1>2, <1>3
<1>5. \A t : <<g, t>> \notin R
  BY SchedulerAssumption DEF Gpus
<1> HIDE DEF R
<1>6. /\ T1(g) = T(g) => Given' = Given
      /\ \A t : T1(g) = T(g) \cup {t} => Given' = Given \cup {<<g, t>>}
      /\ \A t : T1(g) = T(g) \ {t} => Given' = Given \ {<<g, t>>}
  BY <1>4, <1>5
<1> QED BY <1>6 DEF T, T1

LEMMA GpuAsksSame ==
  ASSUME NEW g \in Gpus, GpuAsks(g), gpu'[g] = gpu[g], inbox'[g] = inbox[g],
         Asks(g)' = Asks(g), UNCHANGED buf, Hashing' => Hashing,
         spc' = "kick" => spc = "kick" /\ (g >= kick' => g >= kick)
  PROVE  GpuAsks(g)'
BY DEF GpuAsks

LEMMA HeldSeq ==
  ASSUME TypeOK
  PROVE  /\ Held \in Seq(Buffers) /\ Len(Held) \in Nat /\ DOMAIN Held = 1 .. Len(Held)
         /\ wbuf = 0 => Held = full_buffers
         /\ wbuf # 0 => /\ wbuf \in Buffers /\ Held = <<wbuf>> \o full_buffers
                        /\ Len(Held) = Len(full_buffers) + 1 /\ Held[1] = wbuf
                        /\ \A i \in 1 .. Len(full_buffers) : Held[i + 1] = full_buffers[i]
         /\ \A i \in DOMAIN Held : Held[i] \in Buffers
<1>1. wbuf = 0 => Held = full_buffers /\ Held \in Seq(Buffers)
  BY DEF Held, TypeOK
<1>2. wbuf # 0 => /\ wbuf \in Buffers /\ Held = <<wbuf>> \o full_buffers
                  /\ Held \in Seq(Buffers)
                  /\ Len(Held) = Len(full_buffers) + 1 /\ Held[1] = wbuf
                  /\ \A i \in 1 .. Len(full_buffers) : Held[i + 1] = full_buffers[i]
  <2> SUFFICES ASSUME wbuf # 0
               PROVE  /\ wbuf \in Buffers /\ Held = <<wbuf>> \o full_buffers
                      /\ Held \in Seq(Buffers)
                      /\ Len(Held) = Len(full_buffers) + 1 /\ Held[1] = wbuf
                      /\ \A i \in 1 .. Len(full_buffers) : Held[i + 1] = full_buffers[i]
    OBVIOUS
  <2>1. /\ wbuf \in Buffers /\ <<wbuf>> \in Seq(Buffers) /\ full_buffers \in Seq(Buffers)
        /\ Len(<<wbuf>>) = 1 /\ <<wbuf>>[1] = wbuf /\ Held = <<wbuf>> \o full_buffers
        /\ Len(full_buffers) \in Nat
    BY LenProperties DEF Held, TypeOK, Buffers
  <2> DEFINE f == full_buffers
             n == Len(f)
             h == Held
  <2>2. /\ h \in Seq(Buffers) /\ Len(h) = 1 + n
        /\ \A i \in 1 .. 1 + n : h[i] = IF i <= 1 THEN <<wbuf>>[i] ELSE f[i - 1]
    BY <2>1, ConcatProperties
  <2>3. n \in Nat
    BY <2>1
  <2> HIDE DEF n, h, f
  <2>4. Len(h) = n + 1 /\ h[1] = wbuf /\ \A i \in 1 .. n : h[i + 1] = f[i]
    BY <2>1, <2>2, <2>3
  <2> QED BY <2>1, <2>2, <2>4 DEF n, h, f
<1>3. Held \in Seq(Buffers)
  BY <1>1, <1>2
<1> QED BY <1>1, <1>2, <1>3, LenProperties

\* While the scheduler hashes, the devices write into its buffer only, and the
\* other threads do not notice.
LEMMA DeviceRest ==
  ASSUME IInv, Hashing, UNCHANGED <<bufferVars, schedVars, writerVars>>,
         \A b \in Buffers \ {buf} : cache'[b] = cache[b]
  PROVE  Counters' /\ Between' /\ Owned' /\ Queue'
<1> USE DEF bufferVars, schedVars, writerVars
<1>1. Counters'
  BY DEF IInv, Counters, Hashing, Todo, Unassigned
<1>2. Between'
  BY DEF Hashing, Between
<1>3. Owned'
  <2>1. Held' = Held
    BY DEF Held
  <2> QED BY <2>1 DEF IInv, Owned
<1>4. Held' = Held /\ Held \in Seq(Buffers)
  <2>1. Held' = Held
    BY DEF Held
  <2> QED BY <2>1, HeldSeq DEF IInv
<1>5. \A i \in DOMAIN Held : Held[i] \in Buffers /\ Held[i] # buf
  BY <1>4, LenProperties DEF IInv, Owned, Hashing
<1>6. \A i \in DOMAIN Held : \A n : Holds(Held[i], n) => Holds(Held[i], n)'
  BY <1>4, <1>5 DEF Holds
<1>7. DOMAIN Held = 1 .. Len(Held) /\ Len(Held) \in Nat
  BY <1>4, LenProperties
<1>8. Queue'
  <2>1. Len(Held) >= 1 => 1 \in DOMAIN Held
    BY <1>7
  <2>2. Len(Held) >= 2 => 2 \in DOMAIN Held
    BY <1>7
  <2>3. Len(Held) >= 1 => Holds(Held[1], nonces_written)'
    BY <1>4, <1>6, <2>1 DEF IInv, Queue
  <2>4. Len(Held) >= 2 => Holds(Held[2], nonces_written + BufNonces)'
    BY <1>4, <1>6, <2>2 DEF IInv, Queue
  <2> QED BY <1>4, <2>3, <2>4 DEF IInv, Queue
<1> QED BY <1>1, <1>2, <1>3, <1>8

\* The result of hashing task t, or of transferring it.
LEMMA StoredRight ==
  ASSUME TypeOK, NEW t \in Task, t.cache = buf, buf \in Buffers,
         t.start = nonces_hashed + t.offset, cache' = Stored(t, t.start, t.n),
         UNCHANGED <<buf, nonces_hashed>>, t.offset + t.n <= BufNonces
  PROVE  /\ cache' \in [Buffers -> [Slots -> Int]]
         /\ OnCache(t)'
         /\ \A i \in Slots \ SlotsOf(t) : cache'[buf][i] = cache[buf][i]
         /\ \A b \in Buffers \ {buf} : cache'[b] = cache[b]
<1>1. /\ t.start \in Nat /\ t.offset \in Nat /\ t.n \in Nat
      /\ nonces_hashed \in Int /\ BufNonces \in Nat
      /\ cache \in [Buffers -> [Slots -> Int]]
  BY SchedulerAssumption DEF Task, TypeOK
<1>2. cache' = [cache EXCEPT ![buf] =
                  [i \in Slots |-> IF t.offset <= i /\ i < t.offset + t.n
                                   THEN IF i - t.offset < t.n THEN t.start + (i - t.offset)
                                                              ELSE NoNonce
                                   ELSE cache[buf][i]]]
  BY DEF Stored
<1> DEFINE new == [i \in Slots |-> IF t.offset <= i /\ i < t.offset + t.n
                                   THEN IF i - t.offset < t.n THEN t.start + (i - t.offset)
                                                              ELSE NoNonce
                                   ELSE cache[buf][i]]
<1>3. cache' \in [Buffers -> [Slots -> Int]]
  <2>1. new \in [Slots -> Int]
    BY <1>1 DEF Slots, NoNonce
  <2> HIDE DEF new
  <2> QED BY <1>1, <1>2, <2>1 DEF new
<1>4. \A i \in SlotsOf(t) : i \in Slots /\ cache'[buf][i] = nonces_hashed + i
  <2> SUFFICES ASSUME NEW i \in SlotsOf(t) PROVE i \in Slots /\ cache'[buf][i] = nonces_hashed + i
    OBVIOUS
  <2>1. i \in Int /\ t.offset <= i /\ i < t.offset + t.n
    BY <1>1 DEF SlotsOf
  <2>2. i \in Slots
    BY <1>1, <2>1 DEF Slots
  <2>3. cache'[buf][i] = t.start + (i - t.offset)
    BY <1>1, <1>2, <2>1, <2>2
  <2> QED BY <1>1, <2>1, <2>2, <2>3
<1>5. \A i \in Slots \ SlotsOf(t) : cache'[buf][i] = cache[buf][i]
  BY <1>1, <1>2 DEF SlotsOf, Slots
<1> QED BY <1>2, <1>3, <1>4, <1>5, <1>1 DEF OnCache

-----------------------------------------------------------------------------
(* The CPU tasks.                                                          *)

CpuRec == [task : Task, phase : {"queued", "hash", "report"}]

LEMMA CpuHolds ==
  ASSUME IInv, NEW c \in cpu
  PROVE  /\ Hashing /\ buf \in Buffers /\ c \in CpuRec /\ cpu \subseteq CpuRec
         /\ <<0, c.task>> \in Given /\ InBuffer(c.task) /\ c.task.n > 0
         /\ c.task.offset + c.task.n <= BufNonces
         /\ SlotsOf(c.task) \subseteq SlotsInFlight
<1>1. Hashing
  BY DEF IInv, Between
<1>2. buf \in Buffers
  BY <1>1 DEF IInv, Counters, Hashing
<1>3. c \in CpuRec /\ cpu \subseteq CpuRec
  BY DEF IInv, TypeOK, CpuRec
<1>4. <<0, c.task>> \in Given /\ c.task \in InFlight
  BY DEF Given, CpuTasks, InFlight
<1>5. InBuffer(c.task)
  BY <1>1, <1>4, <<0, c.task>>[2] = c.task DEF IInv, Pieces
<1>6. /\ requested <= BufNonces /\ requested \in Nat /\ BufNonces \in Nat
      /\ c.task.offset \in Nat /\ c.task.n \in Nat
  BY <1>3, SchedulerAssumption DEF IInv, TypeOK, CpuRec, Task
<1>7. SlotsOf(c.task) \subseteq SlotsInFlight
  BY <1>4 DEF SlotsInFlight
<1> QED BY <1>1, <1>2, <1>3, <1>4, <1>5, <1>6, <1>7 DEF InBuffer

\* Two CPU tasks, or a CPU and a GPU task, share no slot.
LEMMA CpuApart ==
  ASSUME IInv, NEW c \in cpu
  PROVE  /\ \A e \in cpu \ {c} : Apart(e.task, c.task)
         /\ \A g \in Gpus : \A t \in GpuTasks(g) : Apart(t, c.task)
<1>1. Hashing /\ <<0, c.task>> \in Given
  BY CpuHolds
<1>2. ASSUME NEW e \in cpu \ {c} PROVE Apart(e.task, c.task)
  <2>1. <<0, e.task>> \in Given /\ e.task # c.task
    BY DEF Given, CpuTasks, IInv, CpuAsks
  <2>2. <<0, e.task>> # <<0, c.task>>
    BY <2>1
  <2> QED BY <1>1, <2>1, <2>2, <<0, e.task>>[2] = e.task, <<0, c.task>>[2] = c.task
         DEF IInv, Pieces
<1>3. ASSUME NEW g \in Gpus, NEW t \in GpuTasks(g) PROVE Apart(t, c.task)
  <2>1. <<g, t>> \in Given
    BY GivenPairs
  <2>2. <<g, t>> # <<0, c.task>>
    BY SchedulerAssumption DEF Gpus
  <2> QED BY <1>1, <2>1, <2>2, <<g, t>>[2] = t, <<0, c.task>>[2] = c.task DEF IInv, Pieces
<1> QED BY <1>2, <1>3

\* A task stays OnCache while another one is written.
LEMMA OnCacheStays ==
  ASSUME TypeOK, NEW t \in Task, NEW u \in Task, Apart(u, t), u.offset + u.n <= BufNonces,
         OnCache(u), UNCHANGED <<buf, nonces_hashed>>,
         \A i \in Slots \ SlotsOf(t) : cache'[buf][i] = cache[buf][i]
  PROVE  OnCache(u)'
<1> SUFFICES ASSUME NEW i \in SlotsOf(u) PROVE cache'[buf][i] = nonces_hashed + i
  BY DEF OnCache
<1>1. i \in Slots \ SlotsOf(t)
  BY SchedulerAssumption DEF Task, SlotsOf, Slots, Apart
<1> QED BY <1>1 DEF OnCache

LEMMA CpuMoves ==
  ASSUME IInv, NEW c \in cpu, NEW p \in {"hash", "report"},
         cpu' = (cpu \ {c}) \cup {[c EXCEPT !.phase = p]}, UNCHANGED <<gpu, inbox>>
  PROVE  /\ Given' = Given /\ cpu' \subseteq CpuRec /\ IsFiniteSet(cpu')
         /\ \A d, e \in cpu' : d.task = e.task => d = e
<1> DEFINE f == [c EXCEPT !.phase = p]
<1>1. c \in CpuRec /\ cpu \subseteq CpuRec
  BY CpuHolds
<1>2. f \in CpuRec /\ f.task = c.task /\ f.phase = p
  BY <1>1 DEF CpuRec
<1> HIDE DEF f
<1>3. CpuTasks' = CpuTasks
  <2>1. cpu' = (cpu \ {c}) \cup {f}
    BY DEF f
  <2>2. \A t : (\E e \in cpu' : t = e.task) <=> (\E e \in cpu : t = e.task)
    BY <1>2, <2>1
  <2> QED BY <2>2 DEF CpuTasks
<1>4. IsFiniteSet(cpu \ {c}) /\ IsFiniteSet((cpu \ {c}) \cup {f})
  BY FS_RemoveElement, FS_AddElement DEF IInv, CpuAsks
<1>5. cpu' = (cpu \ {c}) \cup {f}
  BY DEF f
<1>6. \A d, e \in cpu' : d.task = e.task => d = e
  BY <1>2, <1>5 DEF IInv, CpuAsks
<1> QED BY <1>1, <1>2, <1>3, <1>4, <1>5, <1>6, GivenCpu

LEMMA CpuCounts ==
  ASSUME IInv
  PROVE  /\ IsFiniteSet(Unhashed) /\ Cardinality(Unhashed) \in Nat
         /\ \A d : IsFiniteSet(Asks(d)) /\ Cardinality(Asks(d)) \in Nat
         /\ CpuStarted \in Int /\ \A d : Asks(d) \subseteq Int
<1>1. Unhashed \subseteq cpu /\ IsFiniteSet(cpu)
  BY DEF Unhashed, Phase, IInv, CpuAsks
<1>2. IsFiniteSet(Unhashed)
  BY <1>1, FS_Subset
<1>3. ASSUME NEW d PROVE IsFiniteSet(Asks(d)) /\ Asks(d) \subseteq Int
  <2>1. rx \in Seq(Msgs)
    BY DEF IInv, TypeOK, Msgs
  <2>2. DOMAIN rx = 1 .. Len(rx) /\ Len(rx) \in Nat
    BY <2>1, LenProperties
  <2>3. Asks(d) \subseteq 1 .. Len(rx) /\ IsFiniteSet(1 .. Len(rx))
    BY <2>2, FS_Interval, 1 \in Int DEF Asks
  <2> QED BY <2>2, <2>3, FS_Subset
<1> QED BY <1>2, <1>3, FS_CardinalityType, SchedulerAssumption DEF CpuStarted, IInv, TypeOK

LEMMA CpuStartKeeps ==
  ASSUME IInv, NEW c \in cpu, CpuStart(c),
         UNCHANGED <<bufferVars, schedVars, gpu, inbox, writerVars>>
  PROVE  IInv'
<1> USE DEF bufferVars, schedVars, writerVars
<1> DEFINE f == [c EXCEPT !.phase = "hash"]
<1>1. /\ c.phase = "queued" /\ cpu' = (cpu \ {c}) \cup {f} /\ UNCHANGED <<rx, cache>>
  BY DEF CpuStart
<1>2. /\ Hashing /\ c \in CpuRec /\ f.phase = "hash"
  BY CpuHolds DEF CpuRec
<1>3. /\ Given' = Given /\ cpu' \subseteq CpuRec /\ IsFiniteSet(cpu')
      /\ \A d, e \in cpu' : d.task = e.task => d = e
  BY <1>1, CpuMoves
<1> HIDE DEF f
<1>4. Unread' = Unread /\ Reports' = Reports /\ \A d : Asks(d)' = Asks(d)
  BY <1>1 DEF Unread, Reports, Asks
<1>5. Pieces'
  BY <1>1, <1>2, <1>3, <1>4, PiecesMove DEF IInv, Pieces
<1>6. InHost'
  BY <1>1, <1>2 DEF IInv, InHost, Hashing, OnCache
<1>7. CpuAsks'
  <2>1. Unhashed' = (Unhashed \ {c}) \cup {f}
    BY <1>1, <1>2 DEF Unhashed, Phase
  <2>2. IsFiniteSet(Unhashed) /\ c \in Unhashed
    BY <1>1, CpuCounts DEF Unhashed, Phase
  <2>3. IsFiniteSet(Unhashed \ {c}) /\ Cardinality(Unhashed \ {c}) = Cardinality(Unhashed) - 1
    BY <2>2, FS_RemoveElement
  <2>4. Cardinality(Unhashed') <= Cardinality(Unhashed) /\ Cardinality(Unhashed') \in Nat
    BY <2>1, <2>2, <2>3, FS_AddElement, FS_CardinalityType
  <2>5. Phase("report")' = Phase("report")
    BY <1>1, <1>2 DEF Phase
  <2>6. Cardinality(Asks(0)) \in Nat /\ CpuStarted' = CpuStarted /\ CpuStarted \in Int
        /\ Cardinality(Unhashed) \in Nat
    BY CpuCounts DEF CpuStarted
  <2>7. Cardinality(Unhashed') + Cardinality(Asks(0)') <= CpuStarted'
    BY <1>4, <2>4, <2>6 DEF IInv, CpuAsks
  <2> QED BY <1>3, <1>4, <2>5, <2>7 DEF IInv, CpuAsks
<1>8. \A g \in Gpus : GpuAsks(g)'
  BY <1>4, GpuAsksSame DEF IInv, Hashing
<1>9. TypeOK'
  BY <1>1, <1>3 DEF IInv, TypeOK, CpuRec, Todo
<1> QED BY <1>1, <1>2, <1>5, <1>6, <1>7, <1>8, <1>9, DeviceRest DEF IInv

LEMMA CpuHashKeeps ==
  ASSUME IInv, NEW c \in cpu, CpuHash(c),
         UNCHANGED <<bufferVars, schedVars, gpu, inbox, writerVars>>
  PROVE  IInv'
<1> USE DEF bufferVars, schedVars, writerVars
<1> DEFINE f == [c EXCEPT !.phase = "report"]
<1>1. /\ c.phase = "hash" /\ cpu' = (cpu \ {c}) \cup {f}
      /\ rx' = Append(rx, Message(0, "ready", 0))
      /\ cache' = Stored(c.task, c.task.start, c.task.n)
  BY DEF CpuHash, CpuMessages
<1>2. /\ Hashing /\ c \in CpuRec /\ cpu \subseteq CpuRec /\ buf \in Buffers
      /\ c.task \in Task /\ c.task.cache = buf
      /\ c.task.start = nonces_hashed + c.task.offset
      /\ c.task.offset + c.task.n <= BufNonces /\ SlotsOf(c.task) \subseteq SlotsInFlight
      /\ f.phase = "report" /\ f.task = c.task
  BY CpuHolds DEF CpuRec, InBuffer
<1>3. /\ Given' = Given /\ cpu' \subseteq CpuRec /\ IsFiniteSet(cpu')
      /\ \A d, e \in cpu' : d.task = e.task => d = e
  BY <1>1, CpuMoves
<1> HIDE DEF f
<1>4. /\ rx' \in Seq(Msgs) /\ Reports' = Reports /\ Unread' = Unread
      /\ Asks(0)' = Asks(0) \cup {Len(rx) + 1} /\ \A e : e # 0 => Asks(e)' = Asks(e)
      /\ \A i \in Reports : rx'[i] = rx[i]
  <2>1. rx \in Seq(Msgs) /\ 0 \in 0 .. NumGpus
    BY SchedulerAssumption DEF IInv, TypeOK, Msgs
  <2>2. \A i \in Reports : rx'[i] = rx[i]
    BY <1>1, <2>1, RxAppend, Message(0, "ready", 0) \in Msgs DEF Reports, Message, Msgs
  <2> QED BY <1>1, <2>1, <2>2, SendReady
<1>5. /\ cache' \in [Buffers -> [Slots -> Int]] /\ OnCache(c.task)'
      /\ \A i \in Slots \ SlotsOf(c.task) : cache'[buf][i] = cache[buf][i]
      /\ \A b \in Buffers \ {buf} : cache'[b] = cache[b]
  BY <1>1, <1>2, StoredRight DEF IInv
<1>6. Pieces'
  <2>1. \A i \in Slots \ SlotsInFlight : cache'[buf][i] = cache[buf][i]
    BY <1>2, <1>5
  <2>2. \A i \in Reports' : rx'[i].n > 0
    BY <1>2, <1>4 DEF IInv, Pieces
  <2> QED BY <1>2, <1>3, <1>4, <2>1, <2>2, PiecesMove DEF IInv, Pieces
<1>7. InHost'
  <2>1. ASSUME NEW u \in Task, OnCache(u), Apart(u, c.task), InBuffer(u) PROVE OnCache(u)'
    <3>1. u.offset + u.n <= BufNonces
      BY <2>1, SchedulerAssumption DEF InBuffer, IInv, TypeOK, Task
    <3> QED BY <1>2, <1>5, <2>1, <3>1, OnCacheStays DEF IInv
  <2>2. ASSUME NEW e \in cpu', e.phase = "report" PROVE OnCache(e.task)'
    <3>1. CASE e = f
      BY <1>2, <1>5, <3>1
    <3>2. CASE e \in cpu \ {c}
      <4>1. OnCache(e.task) /\ Apart(e.task, c.task) /\ InBuffer(e.task) /\ e.task \in Task
        BY <1>2, <2>2, <3>2, CpuApart, CpuHolds DEF IInv, InHost, CpuRec
      <4> QED BY <2>1, <4>1
    <3> QED BY <1>1, <3>1, <3>2
  <2>3. ASSUME NEW g \in Gpus, gpu[g].pc = "report" PROVE OnCache(gpu[g].last_task)'
    <3>1. gpu[g].last_task \in GpuTasks(g)
      BY <2>3 DEF GpuTasks
    <3>2. <<g, gpu[g].last_task>> \in Given /\ <<g, gpu[g].last_task>>[2] = gpu[g].last_task
      BY <3>1, GivenPairs
    <3>3. InBuffer(gpu[g].last_task) /\ gpu[g].last_task \in Task
      BY <1>2, <3>2, GivenType DEF IInv, Pieces
    <3>4. OnCache(gpu[g].last_task) /\ Apart(gpu[g].last_task, c.task)
      BY <1>2, <2>3, <3>1, CpuApart DEF IInv, InHost
    <3>5. \A u : u = gpu[g].last_task => OnCache(u)'
      BY <2>1, <3>3, <3>4
    <3> QED BY <3>5 DEF OnCache
  <2> QED BY <2>2, <2>3 DEF InHost, OnCache
<1>8. CpuAsks'
  <2>1. Unhashed' = Unhashed \ {c} /\ c \in Unhashed
    BY <1>1, <1>2 DEF Unhashed, Phase
  <2>2. Phase("report")' # {}
    BY <1>1, <1>2 DEF Phase
  <2>3. /\ Cardinality(Unhashed') = Cardinality(Unhashed) - 1
        /\ Cardinality(Asks(0)') <= Cardinality(Asks(0)) + 1
        /\ Cardinality(Asks(0)') \in Nat /\ CpuStarted' = CpuStarted
    <3>1. Cardinality(Unhashed') = Cardinality(Unhashed) - 1
      BY <2>1, CpuCounts, FS_RemoveElement
    <3>2. /\ IsFiniteSet(Asks(0)) /\ Cardinality(Asks(0)) \in Nat
          /\ IsFiniteSet(Asks(0) \cup {Len(rx) + 1})
          /\ Cardinality(Asks(0) \cup {Len(rx) + 1}) =
               IF Len(rx) + 1 \in Asks(0) THEN Cardinality(Asks(0)) ELSE Cardinality(Asks(0)) + 1
      BY CpuCounts, FS_AddElement
    <3>3. Cardinality(Asks(0)') <= Cardinality(Asks(0)) + 1 /\ Cardinality(Asks(0)') \in Nat
      <4> DEFINE n == Cardinality(Asks(0))
                 m == Cardinality(Asks(0) \cup {Len(rx) + 1})
      <4>1. Cardinality(Asks(0)') = m
        BY <1>4
      <4>2. n \in Nat /\ m \in {n, n + 1}
        BY <3>2
      <4> HIDE DEF n, m
      <4>3. m \in Nat /\ m <= n + 1
        BY <4>2
      <4> QED BY <4>1, <4>3 DEF n
    <3> QED BY <3>1, <3>3 DEF CpuStarted
  <2>4. Cardinality(Unhashed') + Cardinality(Asks(0)') <= CpuStarted'
    BY <2>3, CpuCounts DEF IInv, CpuAsks
  <2> QED BY <1>3, <2>2, <2>4 DEF CpuAsks
<1>9. \A g \in Gpus : GpuAsks(g)'
  <2>1. \A g \in Gpus : g # 0
    BY SchedulerAssumption DEF Gpus
  <2> QED BY <1>4, <2>1, GpuAsksSame DEF IInv, Hashing
<1>10. TypeOK'
  BY <1>3, <1>4, <1>5 DEF IInv, TypeOK, CpuRec, Todo, Msgs
<1> QED BY <1>2, <1>5, <1>6, <1>7, <1>8, <1>9, <1>10, DeviceRest DEF IInv

LEMMA CpuReportKeeps ==
  ASSUME IInv, NEW c \in cpu, CpuReport(c),
         UNCHANGED <<bufferVars, schedVars, gpu, inbox, writerVars>>
  PROVE  IInv'
<1> USE DEF bufferVars, schedVars, writerVars
<1>1. /\ c.phase = "report" /\ cpu' = cpu \ {c} /\ cache' = cache
      /\ rx' = Append(rx, Message(0, "done", c.task.n))
  BY DEF CpuReport, CpuMessages
<1>2. /\ Hashing /\ c \in CpuRec /\ cpu \subseteq CpuRec /\ buf \in Buffers
      /\ <<0, c.task>> \in Given /\ c.task.n \in Nat
  BY CpuHolds DEF CpuRec, Task
<1>3. Given' = Given \ {<<0, c.task>>}
  <2>1. \A d, e \in cpu : d.task = e.task => d = e
    BY DEF IInv, CpuAsks
  <2>2. CpuTasks' = CpuTasks \ {c.task}
    BY <1>1, <2>1 DEF CpuTasks
  <2> QED BY <2>2, GivenCpu
<1>4. /\ rx' \in Seq(Msgs) /\ Reports' = Reports \cup {Len(rx) + 1}
      /\ \A e : Asks(e)' = Asks(e) /\ \A i \in Asks(e) : i < Len(rx) + 1
  <2>1. rx \in Seq(Msgs) /\ 0 \in 0 .. NumGpus /\ IsFiniteSet(Unread)
    BY <1>2, SchedulerAssumption DEF IInv, TypeOK, Msgs, Pieces
  <2> QED BY <1>1, <1>2, <2>1, SendDone
<1>5. Pieces'
  <2>1. OnCache(c.task) /\ 0 \in 0 .. NumGpus
    BY <1>1, <1>2, SchedulerAssumption DEF IInv, InHost
  <2> QED BY <1>1, <1>2, <1>3, <2>1, PiecesReport DEF IInv
<1>6. InHost'
  BY <1>1, <1>2 DEF IInv, InHost, OnCache
<1>7. CpuAsks'
  <2>1. Unhashed' = Unhashed
    BY <1>1 DEF Unhashed, Phase
  <2>2. IsFiniteSet(cpu')
    BY <1>1, FS_RemoveElement DEF IInv, CpuAsks
  <2>3. Cardinality(Unhashed') + Cardinality(Asks(0)') <= CpuStarted'
    BY <1>4, <2>1 DEF CpuStarted, IInv, CpuAsks
  <2> QED BY <1>1, <1>4, <2>2, <2>3 DEF IInv, CpuAsks
<1>8. \A g \in Gpus : GpuAsks(g)'
  BY <1>4, GpuAsksSame DEF IInv, Hashing
<1>9. TypeOK'
  BY <1>1, <1>4 DEF IInv, TypeOK, Todo, Msgs
<1> QED BY <1>1, <1>2, <1>5, <1>6, <1>7, <1>8, <1>9, DeviceRest DEF IInv

-----------------------------------------------------------------------------
(* The GPU threads.                                                        *)

LEMMA GpuHolds ==
  ASSUME IInv, NEW g \in Gpus
  PROVE  /\ gpu[g] \in GpuState /\ inbox[g] \in Seq(Task) /\ GpuAsks(g) /\ g # 0 /\ g \in 0 .. NumGpus
         /\ inbox[g] # <<>> => /\ Head(inbox[g]) = inbox[g][1] /\ inbox[g][1] \in Task
                               /\ DOMAIN inbox[g] = {1} /\ Tail(inbox[g]) = <<>>
         /\ inbox[g] = <<>> => DOMAIN inbox[g] = {}
<1>1. gpu[g] \in GpuState /\ inbox[g] \in Seq(Task) /\ GpuAsks(g)
  BY DEF IInv, TypeOK
<1>2. Len(inbox[g]) <= 1 /\ Len(inbox[g]) \in Nat /\ DOMAIN inbox[g] = 1 .. Len(inbox[g])
  BY <1>1, LenProperties DEF GpuAsks
<1>3. inbox[g] # <<>> => Len(inbox[g]) = 1
  <2> DEFINE n == Len(inbox[g])
  <2>1. inbox[g] # <<>> => n \in Nat \ {0}
    BY <1>1, EmptySeq
  <2>2. n <= 1
    BY <1>2
  <2> HIDE DEF n
  <2>3. n \in Nat \ {0} => n = 1
    BY <2>2
  <2> QED BY <2>1, <2>3 DEF n
<1>4. inbox[g] # <<>> => /\ Head(inbox[g]) = inbox[g][1] /\ inbox[g][1] \in Task
                         /\ DOMAIN inbox[g] = {1} /\ Tail(inbox[g]) = <<>>
  <2> SUFFICES ASSUME inbox[g] # <<>>
               PROVE  /\ Head(inbox[g]) = inbox[g][1] /\ inbox[g][1] \in Task
                      /\ DOMAIN inbox[g] = {1} /\ Tail(inbox[g]) = <<>>
    OBVIOUS
  <2>1. Tail(inbox[g]) \in Seq(Task) /\ Len(Tail(inbox[g])) = 0
    BY <1>1, <1>3, HeadTailProperties
  <2>2. Tail(inbox[g]) = <<>>
    BY <2>1, EmptySeq
  <2> QED BY <1>1, <1>2, <1>3, <2>2, ElementOfSeq
<1> QED BY <1>1, <1>2, <1>4, SchedulerAssumption DEF Gpus

\* What a GPU thread holds: the task in its inbox, the one it hashed last and,
\* while it transfers that one, the one it hashed meanwhile.
LEMMA GpuTasksAre ==
  ASSUME IInv, NEW g \in Gpus
  PROVE  \A t : t \in GpuTasks(g) <=>
           \/ inbox[g] # <<>> /\ t = inbox[g][1] /\ t.n > 0
           \/ (gpu[g].pc = "report" \/ ~gpu[g].first_run) /\ t = gpu[g].last_task
           \/ gpu[g].pc = "report" /\ ~gpu[g].first_run /\ t = gpu[g].next_task
<1>1. \A t : t \in {inbox[g][i] : i \in DOMAIN inbox[g]} <=> inbox[g] # <<>> /\ t = inbox[g][1]
  BY GpuHolds
<1> QED BY <1>1 DEF GpuTasks

LEMMA GivenTasks ==
  ASSUME IInv, Hashing, NEW d, NEW t, <<d, t>> \in Given
  PROVE  /\ InBuffer(t) /\ t \in Task /\ t.n > 0 /\ t.cache = buf /\ buf \in Buffers
         /\ t.start = nonces_hashed + t.offset
         /\ t.offset + t.n <= BufNonces /\ SlotsOf(t) \subseteq SlotsInFlight
<1>1. InBuffer(t) /\ t \in Task
  BY GivenType, <<d, t>>[2] = t DEF IInv, Pieces
<1>2. t \in InFlight
  BY InFlightGiven, <<d, t>>[2] = t
<1>3. buf \in Buffers /\ requested <= BufNonces /\ requested \in Nat
  BY SchedulerAssumption DEF IInv, Counters, Hashing, TypeOK
<1>4. t.offset + t.n <= BufNonces
  BY <1>1, <1>3, SchedulerAssumption DEF InBuffer, Task
<1> QED BY <1>1, <1>2, <1>3, <1>4 DEF InBuffer, SlotsInFlight

LEMMA CpuAsksSame ==
  ASSUME CpuAsks, UNCHANGED <<cpu, spc, kick>>, Asks(0)' = Asks(0), Reports \subseteq Reports'
  PROVE  CpuAsks'
<1>1. Unhashed' = Unhashed /\ Phase("report")' = Phase("report") /\ CpuStarted' = CpuStarted
  BY DEF Unhashed, Phase, CpuStarted
<1> QED BY <1>1 DEF CpuAsks

\* GPU g transfers its last task while it hashes the next one, or at the end.
LEMMA TransferKeeps ==
  ASSUME IInv, NEW g \in Gpus, ~gpu[g].first_run, gpu[g].pc = "recv", inbox[g] # <<>>,
         cache' = Transferred(g), UNCHANGED <<bufferVars, schedVars, cpu, rx, writerVars>>,
         \A h \in Gpus \ {g} : gpu'[h] = gpu[h] /\ inbox'[h] = inbox[h],
         gpu'[g] \in GpuState, gpu' \in [Gpus -> GpuState],
         inbox'[g] = <<>>, inbox' \in [Gpus -> Seq(Task)],
         gpu'[g].pc = "report", gpu'[g].last_task = gpu[g].last_task,
         gpu'[g].next_task = inbox[g][1], gpu'[g].first_run <=> inbox[g][1].n = 0,
         gpu'[g].first_run => gpu'[g].buffer_id = 0,
         ~gpu'[g].first_run =>
           gpu'[g].vram[TransferFrom(gpu'[g].buffer_id)] = inbox[g][1]
  PROVE  IInv'
<1> USE DEF bufferVars, schedVars, writerVars
<1> DEFINE last == gpu[g].last_task
           next == inbox[g][1]
<1>1. Hashing
  BY DEF IInv, Between
<1>2. /\ GpuAsks(g) /\ next \in Task /\ next.n \in Nat /\ g # 0
      /\ gpu[g] \in GpuState /\ last \in Task
  BY GpuHolds DEF Task, GpuState
<1>3. last \in GpuTasks(g) /\ <<g, last>> \in Given
  <2>1. last \in GpuTasks(g)
    BY GpuTasksAre
  <2> QED BY <2>1, GivenPairs
<1>4. /\ InBuffer(last) /\ last.n > 0 /\ last.cache = buf /\ buf \in Buffers
      /\ last.start = nonces_hashed + last.offset
      /\ last.offset + last.n <= BufNonces /\ SlotsOf(last) \subseteq SlotsInFlight
  BY <1>1, <1>3, GivenTasks
<1>5. GpuTasks(g)' = GpuTasks(g)
  <2>1. \A t : t \in GpuTasks(g)' <=>
          (t = last \/ (~gpu'[g].first_run /\ t = next))
    BY DEF GpuTasks
  <2>2. \A t : t \in GpuTasks(g) <=> (t = next /\ t.n > 0) \/ t = last
    BY GpuTasksAre
  <2>3. \A t : t \in GpuTasks(g)' <=> t \in GpuTasks(g)
    BY <1>2, <2>1, <2>2
  <2> QED BY <2>3
<1>6. Given' = Given
  BY <1>5, GivenGpu
<1>7. gpu[g].vram[TransferFrom(gpu[g].buffer_id)] = last
  BY <1>2 DEF GpuAsks
<1>8. /\ cache' \in [Buffers -> [Slots -> Int]] /\ \A u : u = last => OnCache(u)'
      /\ \A i \in Slots \ SlotsOf(last) : cache'[buf][i] = cache[buf][i]
      /\ \A b \in Buffers \ {buf} : cache'[b] = cache[b]
  <2>1. cache' = Stored(last, last.start, last.n)
    BY <1>7 DEF Transferred
  <2>2. PICK u \in Task : u = last
    BY <1>2
  <2> HIDE DEF last
  <2>3. /\ cache' \in [Buffers -> [Slots -> Int]] /\ OnCache(u)'
        /\ \A i \in Slots \ SlotsOf(u) : cache'[buf][i] = cache[buf][i]
        /\ \A b \in Buffers \ {buf} : cache'[b] = cache[b]
    BY <1>4, <2>1, <2>2, StoredRight DEF IInv
  <2> QED BY <2>2, <2>3
<1>9. Unread' = Unread /\ Reports' = Reports /\ \A d : Asks(d)' = Asks(d)
  BY DEF Unread, Reports, Asks
<1>10. Pieces'
  <2>1. \A i \in Slots \ SlotsInFlight : cache'[buf][i] = cache[buf][i]
    BY <1>4, <1>8
  <2> QED BY <1>1, <1>6, <1>9, <2>1, PiecesMove DEF IInv, Pieces
<1>11. InHost'
  <2>1. ASSUME NEW d, NEW u, <<d, u>> \in Given, <<d, u>> # <<g, last>>, OnCache(u)
        PROVE  OnCache(u)'
    <3>1. Apart(u, last) /\ u \in Task /\ u.offset + u.n <= BufNonces
      <4>1. Apart(u, last)
        BY <1>1, <1>3, <2>1, <<d, u>>[2] = u, <<g, last>>[2] = last DEF IInv, Pieces
      <4> QED BY <1>1, <2>1, <4>1, GivenTasks
    <3> QED BY <1>2, <1>8, <2>1, <3>1, OnCacheStays DEF IInv
  <2>2. ASSUME NEW e \in cpu', e.phase = "report" PROVE OnCache(e.task)'
    <3>1. <<0, e.task>> \in Given /\ <<0, e.task>> # <<g, last>> /\ OnCache(e.task)
      BY <1>1, <1>2, <2>2, CpuHolds DEF IInv, InHost
    <3> QED BY <2>1, <3>1
  <2>3. ASSUME NEW h \in Gpus, gpu'[h].pc = "report" PROVE OnCache(gpu[h].last_task)'
    <3>1. CASE h = g
      <4>1. \A u : u = last => OnCache(u)'
        BY <1>8
      <4> QED BY <3>1, <4>1 DEF OnCache
    <3>2. CASE h # g
      <4>1. gpu[h].pc = "report" /\ gpu'[h].last_task = gpu[h].last_task
        BY <2>3, <3>2
      <4>2. gpu[h].last_task \in GpuTasks(h)
        BY <4>1 DEF GpuTasks
      <4>3. /\ <<h, gpu[h].last_task>> \in Given /\ OnCache(gpu[h].last_task)
            /\ <<h, gpu[h].last_task>> # <<g, last>>
        BY <1>1, <3>2, <4>1, <4>2, GivenPairs DEF IInv, InHost
      <4>4. \A u : u = gpu[h].last_task => OnCache(u)'
        BY <2>1, <4>3
      <4> QED BY <4>1, <4>4 DEF OnCache
    <3> QED BY <3>1, <3>2
  <2> QED BY <2>2, <2>3 DEF InHost, OnCache
<1>12. CpuAsks'
  BY <1>9, CpuAsksSame DEF IInv
<1>13. \A h \in Gpus : GpuAsks(h)'
  <2>1. ASSUME NEW h \in Gpus \ {g} PROVE GpuAsks(h)'
    BY <1>9, GpuAsksSame DEF IInv, Hashing
  <2>2. GpuAsks(g)'
    <3>1. Asks(g)' = {} /\ Len(inbox'[g]) = 0
      BY <1>2, <1>9 DEF GpuAsks
    <3>2. ~gpu'[g].first_run => next # last
      BY <1>2 DEF GpuAsks
    <3>3. ~(spc' = "kick" /\ g >= kick')
      BY <1>2 DEF GpuAsks
    <3> QED BY <3>1, <3>2, <3>3 DEF GpuAsks
  <2> QED BY <2>1, <2>2
<1>14. TypeOK'
  BY <1>8 DEF IInv, TypeOK, Todo
<1> QED BY <1>1, <1>8, <1>10, <1>11, <1>12, <1>13, <1>14, DeviceRest DEF IInv

LEMMA GpuFirstKeeps ==
  ASSUME IInv, NEW g \in Gpus, gpu[g].pc = "recv", inbox[g] # <<>>, GpuFirst(g),
         inbox' = [inbox EXCEPT ![g] = Tail(@)],
         UNCHANGED <<rx, bufferVars, schedVars, cpu, writerVars>>
  PROVE  IInv'
<1> USE DEF bufferVars, schedVars, writerVars
<1> DEFINE t == inbox[g][1]
<1>1. /\ GpuTask(g) = t /\ t \in Task /\ g # 0 /\ GpuAsks(g) /\ Tail(inbox[g]) = <<>>
      /\ gpu[g] \in GpuState /\ gpu \in [Gpus -> GpuState] /\ inbox \in [Gpus -> Seq(Task)]
  BY GpuHolds DEF GpuTask, IInv, TypeOK
<1>2. gpu[g].first_run /\ t # None /\ cache' = cache
  BY <1>1 DEF GpuFirst
<1>3. Hashing
  <2>1. inbox[g] = <<None>> => t = None
    OBVIOUS
  <2> QED BY <1>2, <2>1 DEF IInv, Between
<1>4. t.n > 0 /\ gpu[g].buffer_id = 0 /\ Asks(g) = {}
  BY <1>1, <1>2, <1>3 DEF GpuAsks
<1>5. gpu' = [gpu EXCEPT ![g] = [pc |-> "ask", first_run |-> FALSE, buffer_id |-> 1,
                                 last_task |-> t, next_task |-> t,
                                 vram |-> [gpu[g].vram EXCEPT !["a"] = t]]]
  <2>1. t.n # 0 /\ 1 - gpu[g].buffer_id = 1
    BY <1>1, <1>4 DEF Task
  <2> QED BY <1>1, <2>1 DEF GpuFirst
<1>6. /\ gpu'[g].pc = "ask" /\ ~gpu'[g].first_run /\ gpu'[g].buffer_id = 1
      /\ gpu'[g].last_task = t /\ gpu'[g].next_task = t /\ gpu'[g].vram["a"] = t
      /\ gpu' \in [Gpus -> GpuState] /\ \A h \in Gpus \ {g} : gpu'[h] = gpu[h]
  BY <1>1, <1>5 DEF GpuState
<1>7. /\ inbox'[g] = <<>> /\ inbox' \in [Gpus -> Seq(Task)]
      /\ \A h \in Gpus \ {g} : inbox'[h] = inbox[h]
  BY <1>1
<1>8. GpuTasks(g)' = GpuTasks(g)
  <2>1. \A u : u \in GpuTasks(g)' <=> u = t
    BY <1>6, <1>7 DEF GpuTasks
  <2>2. \A u : u \in GpuTasks(g) <=> u = t
    BY <1>2, <1>4, GpuTasksAre
  <2>3. \A u : u \in GpuTasks(g)' <=> u \in GpuTasks(g)
    BY <2>1, <2>2
  <2> QED BY <2>3
<1>9. Given' = Given
  BY <1>6, <1>7, <1>8, GivenGpu
<1>10. Unread' = Unread /\ Reports' = Reports /\ \A d : Asks(d)' = Asks(d)
  BY DEF Unread, Reports, Asks
<1>11. Pieces'
  BY <1>2, <1>3, <1>9, <1>10, PiecesMove DEF IInv, Pieces
<1>12. InHost'
  <2>1. \A h \in Gpus : gpu'[h].pc = "report" => gpu[h].pc = "report" /\ gpu'[h] = gpu[h]
    BY <1>6
  <2> QED BY <1>2, <1>3, <2>1 DEF IInv, InHost, OnCache
<1>13. CpuAsks'
  BY <1>10, CpuAsksSame DEF IInv
<1>14. \A h \in Gpus : GpuAsks(h)'
  <2>1. ASSUME NEW h \in Gpus \ {g} PROVE GpuAsks(h)'
    BY <1>6, <1>7, <1>10, GpuAsksSame DEF IInv, Hashing
  <2>2. GpuAsks(g)'
    <3>1. Asks(g)' = {} /\ Len(inbox'[g]) = 0
      BY <1>4, <1>7, <1>10
    <3>2. ~(spc' = "kick" /\ g >= kick')
      BY <1>1 DEF GpuAsks
    <3>3. TransferFrom(gpu'[g].buffer_id) = "a"
      BY <1>6 DEF TransferFrom
    <3> QED BY <1>6, <1>7, <3>1, <3>2, <3>3 DEF GpuAsks
  <2> QED BY <2>1, <2>2
<1>15. TypeOK'
  BY <1>2, <1>6, <1>7 DEF IInv, TypeOK, Todo
<1> QED BY <1>2, <1>3, <1>11, <1>12, <1>13, <1>14, <1>15, DeviceRest DEF IInv

LEMMA GpuLastKeeps ==
  ASSUME IInv, NEW g \in Gpus, gpu[g].pc = "recv", inbox[g] # <<>>, GpuLast(g),
         inbox' = [inbox EXCEPT ![g] = Tail(@)],
         UNCHANGED <<rx, bufferVars, schedVars, cpu, writerVars>>
  PROVE  IInv'
<1>1. /\ GpuTask(g) = inbox[g][1] /\ inbox[g][1] \in Task /\ Tail(inbox[g]) = <<>>
      /\ gpu[g] \in GpuState /\ gpu \in [Gpus -> GpuState] /\ inbox \in [Gpus -> Seq(Task)]
  BY GpuHolds DEF GpuTask, IInv, TypeOK
<1>2. /\ ~gpu[g].first_run /\ inbox[g][1].n = 0 /\ cache' = Transferred(g)
      /\ gpu' = [gpu EXCEPT ![g].pc = "report", ![g].first_run = TRUE, ![g].buffer_id = 0,
                            ![g].next_task = inbox[g][1]]
  BY <1>1 DEF GpuLast
<1>3. /\ gpu'[g].pc = "report" /\ gpu'[g].first_run /\ gpu'[g].buffer_id = 0
      /\ gpu'[g].next_task = inbox[g][1] /\ gpu'[g].last_task = gpu[g].last_task
      /\ gpu'[g].vram = gpu[g].vram /\ gpu'[g] \in GpuState
      /\ \A h \in Gpus \ {g} : gpu'[h] = gpu[h]
  BY <1>1, <1>2 DEF GpuState
<1>4. gpu' \in [Gpus -> GpuState]
  BY <1>1, <1>2, <1>3
<1>5. /\ inbox'[g] = <<>> /\ inbox' \in [Gpus -> Seq(Task)]
      /\ \A h \in Gpus \ {g} : inbox'[h] = inbox[h]
  BY <1>1
<1> QED BY <1>1, <1>2, <1>3, <1>4, <1>5, TransferKeeps

LEMMA GpuBothKeeps ==
  ASSUME IInv, NEW g \in Gpus, gpu[g].pc = "recv", inbox[g] # <<>>, GpuBoth(g),
         inbox' = [inbox EXCEPT ![g] = Tail(@)],
         UNCHANGED <<rx, bufferVars, schedVars, cpu, writerVars>>
  PROVE  IInv'
<1> DEFINE t == inbox[g][1]
           id == gpu[g].buffer_id
<1>1. /\ GpuTask(g) = t /\ t \in Task /\ Tail(inbox[g]) = <<>>
      /\ gpu[g] \in GpuState /\ gpu \in [Gpus -> GpuState] /\ inbox \in [Gpus -> Seq(Task)]
  BY GpuHolds DEF GpuTask, IInv, TypeOK
<1>2. /\ ~gpu[g].first_run /\ t.n > 0 /\ cache' = Transferred(g)
      /\ gpu' = [gpu EXCEPT ![g].pc = "report", ![g].buffer_id = 1 - @,
                            ![g].next_task = t, ![g].vram[HashInto(id)] = t]
  BY <1>1 DEF GpuBoth
<1>3. id \in {0, 1} /\ 1 - id \in {0, 1} /\ HashInto(id) \in {"a", "b"}
      /\ TransferFrom(1 - id) = HashInto(id)
  BY <1>1 DEF GpuState, HashInto, TransferFrom
<1>4. gpu' = [gpu EXCEPT ![g] = [gpu[g] EXCEPT !.pc = "report", !.buffer_id = 1 - id,
                                   !.next_task = t,
                                   !.vram = [gpu[g].vram EXCEPT ![HashInto(id)] = t]]]
  <2> DEFINE into == HashInto(id)
  <2>1. gpu = [h \in Gpus |-> gpu[h]] /\ gpu[g] \in GpuState
    BY <1>1
  <2>2. gpu' = [gpu EXCEPT ![g].pc = "report", ![g].buffer_id = 1 - @,
                           ![g].next_task = t, ![g].vram[into] = t]
    BY <1>2
  <2> HIDE DEF t, into
  <2>3. gpu' = [gpu EXCEPT ![g] = [gpu[g] EXCEPT !.pc = "report", !.buffer_id = 1 - id,
                                     !.next_task = t,
                                     !.vram = [gpu[g].vram EXCEPT ![into] = t]]]
    BY <2>1, <2>2 DEF GpuState
  <2> QED BY <2>3 DEF into
<1>5. /\ gpu'[g].pc = "report" /\ ~gpu'[g].first_run /\ gpu'[g].buffer_id = 1 - id
      /\ gpu'[g].next_task = t /\ gpu'[g].last_task = gpu[g].last_task
      /\ gpu'[g].vram = [gpu[g].vram EXCEPT ![HashInto(id)] = t]
      /\ \A h \in Gpus \ {g} : gpu'[h] = gpu[h]
  BY <1>1, <1>2, <1>4 DEF GpuState
<1>6. gpu'[g].vram \in [{"a", "b"} -> Task] /\ gpu'[g].vram[HashInto(id)] = t
  BY <1>1, <1>3, <1>5 DEF GpuState
<1>7. gpu'[g] \in GpuState
  <2>1. gpu'[g] = [gpu[g] EXCEPT !.pc = "report", !.buffer_id = 1 - id,
                                   !.next_task = t,
                                   !.vram = [gpu[g].vram EXCEPT ![HashInto(id)] = t]]
    BY <1>1, <1>4
  <2> QED BY <1>1, <1>3, <1>5, <1>6, <2>1 DEF GpuState
<1>8. gpu' \in [Gpus -> GpuState]
  BY <1>1, <1>4, <1>7
<1>9. /\ inbox'[g] = <<>> /\ inbox' \in [Gpus -> Seq(Task)]
      /\ \A h \in Gpus \ {g} : inbox'[h] = inbox[h]
  BY <1>1
<1>10. t.n # 0
  BY <1>1, <1>2 DEF Task
<1>11. gpu'[g].vram[TransferFrom(gpu'[g].buffer_id)] = t
  BY <1>3, <1>5, <1>6
<1>12. gpu'[g].first_run <=> t.n = 0
  BY <1>5, <1>10
<1> QED BY <1>2, <1>5, <1>7, <1>8, <1>9, <1>11, <1>12, TransferKeeps

LEMMA GpuEndKeeps ==
  ASSUME IInv, NEW g \in Gpus, gpu[g].pc = "recv", inbox[g] # <<>>, GpuEnd(g),
         inbox' = [inbox EXCEPT ![g] = Tail(@)],
         UNCHANGED <<rx, bufferVars, schedVars, cpu, writerVars>>
  PROVE  IInv'
<1> USE DEF bufferVars, schedVars, writerVars
<1>1. /\ inbox[g][1] = None /\ Tail(inbox[g]) = <<>> /\ GpuAsks(g) /\ cache' = cache
      /\ gpu' = [gpu EXCEPT ![g].pc = "end"]
      /\ gpu[g] \in GpuState /\ gpu \in [Gpus -> GpuState] /\ inbox \in [Gpus -> Seq(Task)]
  BY GpuHolds DEF GpuTask, GpuEnd, IInv, TypeOK
<1>2. ~Hashing /\ ~Hashing'
  <2>1. Hashing => buf \in Buffers /\ None.cache = buf
    BY <1>1 DEF GpuAsks, IInv, Counters, Hashing
  <2> QED BY <2>1, SchedulerAssumption DEF None, Buffers, Hashing
<1>3. /\ gpu'[g].pc = "end" /\ gpu'[g].first_run = gpu[g].first_run
      /\ gpu'[g].buffer_id = gpu[g].buffer_id /\ gpu'[g].vram = gpu[g].vram
      /\ gpu'[g] \in GpuState /\ \A h \in Gpus \ {g} : gpu'[h] = gpu[h]
  BY <1>1 DEF GpuState
<1>4. gpu' \in [Gpus -> GpuState]
  BY <1>1, <1>3
<1>5. /\ inbox'[g] = <<>> /\ inbox' \in [Gpus -> Seq(Task)]
      /\ \A h \in Gpus \ {g} : inbox'[h] = inbox[h]
  BY <1>1
<1>6. gpu[g].first_run
  BY <1>2 DEF IInv, Between
<1>7. Reports' = Reports /\ \A d : Asks(d)' = Asks(d)
  BY DEF Reports, Asks
<1>8. Pieces' /\ InHost'
  BY <1>2 DEF Pieces, InHost
<1>9. CpuAsks'
  BY <1>7, CpuAsksSame DEF IInv
<1>10. \A h \in Gpus : GpuAsks(h)'
  <2>1. ASSUME NEW h \in Gpus \ {g} PROVE GpuAsks(h)'
    BY <1>3, <1>5, <1>7, GpuAsksSame DEF IInv, Hashing
  <2>2. GpuAsks(g)'
    <3>1. Asks(g)' = {} /\ Len(inbox'[g]) = 0 /\ gpu[g].buffer_id = 0
      BY <1>1, <1>5, <1>6, <1>7 DEF GpuAsks
    <3> QED BY <1>2, <1>3, <1>5, <1>6, <3>1 DEF GpuAsks, Hashing
  <2> QED BY <2>1, <2>2
<1>11. Between'
  <2>1. rx' = <<>> /\ cpu' = {}
    BY <1>2 DEF IInv, Between
  <2>2. ASSUME NEW h \in Gpus
        PROVE  /\ gpu'[h].first_run
               /\ gpu'[h].pc = "recv" \/ (spc' = "done" /\ gpu'[h].pc = "end")
               /\ inbox'[h] = <<>> \/ (spc' = "done" /\ inbox'[h] = <<None>>)
    <3>1. spc = "done" /\ spc' = spc
      BY <1>1, <1>2, GpuHolds DEF IInv, Between
    <3> QED BY <1>2, <1>3, <1>5, <1>6, <2>2, <3>1 DEF IInv, Between
  <2> QED BY <2>1, <2>2 DEF Between
<1>12. Counters'
  BY <1>1 DEF IInv, Counters, Todo
<1>13. Owned' /\ Queue'
  <2>1. Held' = Held
    BY DEF Held
  <2> QED BY <1>1, <2>1 DEF IInv, Owned, Queue, Holds
<1>14. TypeOK'
  BY <1>1, <1>4, <1>5 DEF IInv, TypeOK, Todo
<1> QED BY <1>8, <1>9, <1>10, <1>11, <1>12, <1>13, <1>14 DEF IInv

LEMMA GpuReportKeeps ==
  ASSUME IInv, NEW g \in Gpus, GpuReport(g),
         UNCHANGED <<bufferVars, schedVars, cpu, writerVars>>
  PROVE  IInv'
<1> USE DEF bufferVars, schedVars, writerVars
<1> DEFINE last == gpu[g].last_task
<1>1. /\ gpu[g].pc = "report" /\ rx' = Append(rx, Message(g, "done", last.n))
      /\ UNCHANGED <<cache, inbox>> /\ g # 0 /\ g \in 0 .. NumGpus /\ GpuAsks(g)
      /\ gpu[g] \in GpuState /\ gpu \in [Gpus -> GpuState] /\ inbox \in [Gpus -> Seq(Task)]
      /\ last \in Task /\ last.n \in Nat
  BY GpuHolds DEF GpuReport, IInv, TypeOK, GpuState, Task
<1>2. Hashing /\ inbox[g] = <<>> /\ Asks(g) = {}
  BY <1>1 DEF IInv, Between, GpuAsks
<1>3. /\ gpu[g].first_run => gpu'[g].pc = "recv" /\ gpu'[g].last_task = last
      /\ ~gpu[g].first_run => gpu'[g].pc = "ask" /\ gpu'[g].last_task = gpu[g].next_task
      /\ gpu'[g].first_run = gpu[g].first_run /\ gpu'[g].buffer_id = gpu[g].buffer_id
      /\ gpu'[g].vram = gpu[g].vram /\ gpu'[g] \in GpuState
      /\ \A h \in Gpus \ {g} : gpu'[h] = gpu[h]
  BY <1>1 DEF GpuReport, GpuState
<1>4. gpu' \in [Gpus -> GpuState]
  BY <1>1, <1>3 DEF GpuReport
<1>5. GpuTasks(g)' = GpuTasks(g) \ {last} /\ last \in GpuTasks(g)
  <2>1. \A t : t \in GpuTasks(g)' <=> ~gpu[g].first_run /\ t = gpu[g].next_task
    BY <1>1, <1>2, <1>3, DOMAIN inbox[g] = {}, GpuHolds DEF GpuTasks
  <2>2. \A t : t \in GpuTasks(g) <=> t = last \/ (~gpu[g].first_run /\ t = gpu[g].next_task)
    BY <1>1, <1>2, GpuTasksAre
  <2>3. ~gpu[g].first_run => gpu[g].next_task # last
    BY <1>1 DEF GpuAsks
  <2>4. \A t : t \in GpuTasks(g)' <=> t \in GpuTasks(g) \ {last}
    BY <2>1, <2>2, <2>3
  <2> QED BY <2>2, <2>4
<1>6. Given' = Given \ {<<g, last>>} /\ <<g, last>> \in Given
  <2>1. \A h \in Gpus \ {g} : gpu'[h] = gpu[h] /\ inbox'[h] = inbox[h]
    BY <1>1, <1>3
  <2> QED BY <1>5, <2>1, GivenGpu, GivenPairs
<1>7. /\ rx' \in Seq(Msgs) /\ Reports \subseteq Reports' /\ \A e : Asks(e)' = Asks(e)
  <2>1. rx \in Seq(Msgs) /\ IsFiniteSet(Unread)
    BY <1>2 DEF IInv, TypeOK, Msgs, Pieces
  <2> QED BY <1>1, <2>1, SendDone
<1>8. Pieces'
  <2>1. OnCache(last)
    BY <1>1, <1>2 DEF IInv, InHost
  <2> QED BY <1>1, <1>2, <1>6, <2>1, PiecesReport DEF IInv
<1>9. InHost'
  <2>1. \A h \in Gpus : gpu'[h].pc = "report" => gpu[h].pc = "report" /\ gpu'[h] = gpu[h]
    BY <1>3
  <2> QED BY <1>1, <1>2, <2>1 DEF IInv, InHost, OnCache
<1>10. CpuAsks'
  BY <1>7, CpuAsksSame DEF IInv
<1>11. \A h \in Gpus : GpuAsks(h)'
  <2>1. ASSUME NEW h \in Gpus \ {g} PROVE GpuAsks(h)'
    BY <1>1, <1>3, <1>7, GpuAsksSame DEF IInv, Hashing
  <2>2. GpuAsks(g)'
    <3>1. Asks(g)' = {} /\ inbox'[g] = <<>> /\ Len(inbox'[g]) = 0
      BY <1>1, <1>2, <1>7
    <3>2. ~(spc' = "kick" /\ g >= kick')
      BY <1>1 DEF GpuAsks
    <3>3. ~gpu[g].first_run =>
            gpu'[g].vram[TransferFrom(gpu'[g].buffer_id)] = gpu'[g].last_task
      BY <1>1, <1>3 DEF GpuAsks
    <3>4. gpu'[g].first_run => gpu'[g].buffer_id = 0
      BY <1>1, <1>3 DEF GpuAsks
    <3> QED BY <1>3, <3>1, <3>2, <3>3, <3>4 DEF GpuAsks
  <2> QED BY <2>1, <2>2
<1>12. TypeOK'
  BY <1>1, <1>4, <1>7 DEF IInv, TypeOK, Todo, Msgs
<1> QED BY <1>1, <1>2, <1>8, <1>9, <1>10, <1>11, <1>12, DeviceRest DEF IInv

LEMMA GpuAskKeeps ==
  ASSUME IInv, NEW g \in Gpus, GpuAsk(g),
         UNCHANGED <<bufferVars, schedVars, cpu, writerVars>>
  PROVE  IInv'
<1> USE DEF bufferVars, schedVars, writerVars
<1>1. /\ gpu[g].pc = "ask" /\ rx' = Append(rx, Message(g, "ready", 0))
      /\ gpu' = [gpu EXCEPT ![g].pc = "recv"]
      /\ UNCHANGED <<cache, inbox>> /\ g # 0 /\ g \in 0 .. NumGpus /\ GpuAsks(g)
      /\ gpu[g] \in GpuState /\ gpu \in [Gpus -> GpuState] /\ inbox \in [Gpus -> Seq(Task)]
  BY GpuHolds DEF GpuAsk, IInv, TypeOK
<1>2. Hashing /\ inbox[g] = <<>> /\ Asks(g) = {} /\ ~gpu[g].first_run
  BY <1>1 DEF IInv, Between, GpuAsks
<1>3. /\ gpu'[g].pc = "recv" /\ gpu'[g].last_task = gpu[g].last_task
      /\ gpu'[g].first_run = gpu[g].first_run /\ gpu'[g].buffer_id = gpu[g].buffer_id
      /\ gpu'[g].vram = gpu[g].vram /\ gpu'[g] \in GpuState
      /\ \A h \in Gpus \ {g} : gpu'[h] = gpu[h]
  BY <1>1 DEF GpuState
<1>4. gpu' \in [Gpus -> GpuState]
  BY <1>1, <1>3
<1>5. GpuTasks(g)' = GpuTasks(g)
  BY <1>1, <1>2, <1>3 DEF GpuTasks
<1>6. Given' = Given
  <2>1. \A h \in Gpus \ {g} : gpu'[h] = gpu[h] /\ inbox'[h] = inbox[h]
    BY <1>1, <1>3
  <2> QED BY <1>5, <2>1, GivenGpu
<1>7. /\ rx' \in Seq(Msgs) /\ Reports' = Reports /\ Unread' = Unread
      /\ Asks(g)' = {Len(rx) + 1} /\ \A e : e # g => Asks(e)' = Asks(e)
      /\ \A i \in Reports : rx'[i] = rx[i]
  <2>1. rx \in Seq(Msgs)
    BY DEF IInv, TypeOK, Msgs
  <2>2. \A i \in Reports : rx'[i] = rx[i]
    BY <1>1, <2>1, RxAppend, Message(g, "ready", 0) \in Msgs DEF Reports, Message, Msgs
  <2> QED BY <1>1, <1>2, <2>1, <2>2, SendReady
<1>8. Pieces'
  <2>1. \A i \in Reports' : rx'[i].n > 0
    BY <1>2, <1>7 DEF IInv, Pieces
  <2> QED BY <1>1, <1>2, <1>6, <1>7, <2>1, PiecesMove DEF IInv, Pieces
<1>9. InHost'
  <2>1. \A h \in Gpus : gpu'[h].pc = "report" => gpu[h].pc = "report" /\ gpu'[h] = gpu[h]
    BY <1>3
  <2> QED BY <1>1, <1>2, <2>1 DEF IInv, InHost, OnCache
<1>10. CpuAsks'
  BY <1>1, <1>7, CpuAsksSame DEF IInv
<1>11. \A h \in Gpus : GpuAsks(h)'
  <2>1. ASSUME NEW h \in Gpus \ {g} PROVE GpuAsks(h)'
    BY <1>1, <1>3, <1>7, GpuAsksSame DEF IInv, Hashing
  <2>2. GpuAsks(g)'
    <3>1. inbox'[g] = <<>> /\ Len(inbox'[g]) = 0 /\ \A i, j \in Asks(g)' : i = j
      BY <1>1, <1>2, <1>7
    <3>2. ~(spc' = "kick" /\ g >= kick')
      BY <1>1 DEF GpuAsks
    <3>3. gpu'[g].vram[TransferFrom(gpu'[g].buffer_id)] = gpu'[g].last_task
      BY <1>1, <1>2, <1>3 DEF GpuAsks
    <3> QED BY <1>2, <1>3, <3>1, <3>2, <3>3 DEF GpuAsks
  <2> QED BY <2>1, <2>2
<1>12. TypeOK'
  BY <1>1, <1>4, <1>7 DEF IInv, TypeOK, Todo, Msgs
<1> QED BY <1>1, <1>2, <1>8, <1>9, <1>10, <1>11, <1>12, DeviceRest DEF IInv

LEMMA DeviceKeeps ==
  ASSUME IInv, (\E c \in cpu : CpuStep(c)) \/ (\E g \in Gpus : GpuStep(g))
  PROVE  IInv'
<1>1. ASSUME NEW c \in cpu, CpuStep(c) PROVE IInv'
  BY <1>1, CpuStartKeeps, CpuHashKeeps, CpuReportKeeps DEF CpuStep
<1>2. ASSUME NEW g \in Gpus, GpuStep(g) PROVE IInv'
  <2>1. CASE GpuWork(g)
    BY <1>2, <2>1, GpuFirstKeeps, GpuLastKeeps, GpuBothKeeps, GpuEndKeeps DEF GpuStep, GpuWork
  <2> QED BY <1>2, <2>1, GpuReportKeeps, GpuAskKeeps DEF GpuStep
<1> QED BY <1>1, <1>2

-----------------------------------------------------------------------------
(* The scheduler thread: giving out tasks.                                 *)

LEMMA BuffersStay ==
  ASSUME Owned, Queue, UNCHANGED <<bufferVars, writerVars, cache, buf, nonces_hashed>>,
         spc' \in {"kick", "loop", "send"} => spc \in {"kick", "loop", "send"}
  PROVE  Owned' /\ Queue'
<1>1. Held' = Held /\ UNCHANGED empty_buffers
  BY DEF Held, bufferVars, writerVars
<1>2. Owned'
  BY <1>1 DEF Owned
<1>3. Queue'
  BY <1>1 DEF Queue, Holds, writerVars
<1> QED BY <1>2, <1>3

\* The share of what is left that a device gets.
LEMMA ShareBounds ==
  ASSUME IInv, Hashing
  PROVE  /\ Todo \in Nat /\ Todo > 0 /\ Todo <= BufNonces /\ Unassigned \in Nat
         /\ requested \in Nat /\ nonces_hashed \in Nat /\ requested + Unassigned = Todo
         /\ \A k \in Nat : Smaller(k, Unassigned) \in 0 .. Unassigned
         /\ GpuShare \in 0 .. Unassigned
<1>1. /\ nonces_hashed \in Nat /\ Nonces \in Nat /\ nonces_hashed < Nonces
      /\ BufNonces \in Nat \ {0}
      /\ requested \in Nat /\ requested <= Todo
  BY SchedulerAssumption DEF IInv, TypeOK, Counters, Hashing
<1>2. Todo \in Nat /\ Todo > 0 /\ Todo <= BufNonces
  BY <1>1 DEF Todo, Smaller
<1>3. Unassigned \in Nat /\ requested + Unassigned = Todo
  BY <1>1, <1>2 DEF Unassigned
<1>4. \A k \in Nat : Smaller(k, Unassigned) \in 0 .. Unassigned
  BY <1>3 DEF Smaller
<1>5. GpuShare \in 0 .. Unassigned
  <2> DEFINE n == Smaller(Worksize, Unassigned)
  <2>1. n \in 0 .. Unassigned
    BY <1>4, SchedulerAssumption
  <2> HIDE DEF n
  <2>2. n \div 2 \in 0 .. n
    BY <1>3, <2>1
  <2>3. GpuShare \in {n, n \div 2}
    BY DEF GpuShare, n
  <2> QED BY <1>3, <2>1, <2>2, <2>3
<1> QED BY <1>1, <1>2, <1>3, <1>4, <1>5

LEMMA NewTaskType ==
  ASSUME IInv, Hashing, NEW n \in Nat
  PROVE  /\ NewTask(n) \in Task /\ NewTask(n).n = n /\ NewTask(n).cache = buf
         /\ NewTask(n).offset = requested
         /\ \A p \in Given : p[2] # NewTask(n)
<1>1. buf \in 1 .. NumBuffers /\ requested \in Nat /\ nonces_hashed \in Nat
  BY ShareBounds DEF IInv, Counters, Hashing, Buffers
<1>2. NewTask(n) \in Task
  BY <1>1, SchedulerAssumption DEF NewTask, Task
<1>3. ASSUME NEW p \in Given PROVE p[2].offset # requested
  <2>1. p[2] \in Task /\ InBuffer(p[2])
    BY GivenType DEF IInv, Pieces
  <2>2. p[2].offset \in Nat /\ p[2].n \in Nat
    BY <2>1 DEF Task
  <2> QED BY <1>1, <2>1, <2>2 DEF InBuffer
<1> QED BY <1>2, <1>3 DEF NewTask

\* The types of what the scheduler changes when it gives out n nonces.
LEMMA AssignType ==
  ASSUME IInv, Hashing, Hashing', NEW n \in 0 .. Unassigned, requested' = requested + n,
         UNCHANGED <<bufferVars, cache, buf, nonces_hashed, processed, gpu, writerVars>>,
         kick' \in 1 .. NumGpus + CpuThreads + 1, rx' \in Seq(Msgs), cpu' \subseteq CpuRec,
         inbox' \in [Gpus -> Seq(Task)]
  PROVE  TypeOK'
<1>1. requested' \in 0 .. BufNonces /\ requested' <= Todo /\ Todo' = Todo
      /\ processed' \in 0 .. requested'
  <2>1. processed \in 0 .. requested /\ BufNonces \in Nat
    BY SchedulerAssumption DEF IInv, TypeOK
  <2>2. Todo' = Todo
    BY DEF Todo
  <2> DEFINE T == Todo
             U == Unassigned
  <2>3. /\ T \in Nat /\ U \in Nat /\ T <= BufNonces /\ requested \in Nat
        /\ requested + U = T /\ n \in 0 .. U
    BY ShareBounds
  <2> HIDE DEF T, U
  <2>4. n \in Nat /\ requested + n <= T /\ requested + n \in 0 .. BufNonces
    BY <2>1, <2>3
  <2>5. processed \in 0 .. requested + n
    BY <2>1, <2>3, <2>4
  <2> QED BY <2>2, <2>4, <2>5 DEF T
<1> QED BY <1>1 DEF IInv, TypeOK, CpuRec, Msgs, Hashing, bufferVars, writerVars

LEMMA CpuGiven ==
  ASSUME IInv, Hashing, NEW n \in Nat, GiveCpu(n), UNCHANGED <<gpu, inbox, buf, nonces_hashed>>
  PROVE  /\ Given' = Given \cup (IF n > 0 THEN {<<0, NewTask(n)>>} ELSE {})
         /\ cpu' \subseteq CpuRec /\ IsFiniteSet(cpu')
         /\ \A d, e \in cpu' : d.task = e.task => d = e
         /\ Phase("report")' = Phase("report")
         /\ Cardinality(Unhashed') \in Nat /\ Cardinality(Unhashed') <= Cardinality(Unhashed) + 1
         /\ \A c \in cpu' : c.phase = "report" => c \in cpu
<1> DEFINE t == NewTask(n)
           c == [task |-> t, phase |-> "queued"]
<1>1. /\ t \in Task /\ t.n = n /\ cpu \subseteq CpuRec /\ IsFiniteSet(cpu)
      /\ \A d, e \in cpu : d.task = e.task => d = e
  BY NewTaskType DEF IInv, TypeOK, CpuRec, CpuAsks
<1>2. IsFiniteSet(Unhashed) /\ Cardinality(Unhashed) \in Nat
  BY CpuCounts
<1>3. CASE n = 0
  <2>1. cpu' = cpu
    BY <1>3 DEF GiveCpu
  <2>2. Given' = Given /\ Unhashed' = Unhashed /\ Phase("report")' = Phase("report")
    BY <2>1, GivenCpu DEF CpuTasks, Unhashed, Phase
  <2> QED BY <1>1, <1>2, <1>3, <2>1, <2>2
<1>4. CASE n > 0
  <2>1. cpu' = cpu \cup {c} /\ c.task = t /\ c.phase = "queued" /\ c \in CpuRec
    BY <1>1, <1>4 DEF GiveCpu, CpuRec
  <2> HIDE DEF c
  <2>2. CpuTasks' = CpuTasks \cup {t}
    BY <2>1 DEF CpuTasks
  <2>3. Given' = Given \cup {<<0, t>>}
    BY <2>2, GivenCpu
  <2>4. \A d \in cpu : d.task # t
    <3>1. \A d \in cpu : <<0, d.task>> \in Given
      BY DEF Given, CpuTasks
    <3> QED BY <3>1, NewTaskType, \A d \in cpu : <<0, d.task>>[2] = d.task
  <2>5. IsFiniteSet(cpu') /\ \A d, e \in cpu' : d.task = e.task => d = e
    BY <1>1, <2>1, <2>4, FS_AddElement
  <2>6. Unhashed' = Unhashed \cup {c} /\ Phase("report")' = Phase("report")
    BY <2>1 DEF Unhashed, Phase
  <2>7. Cardinality(Unhashed') \in Nat /\ Cardinality(Unhashed') <= Cardinality(Unhashed) + 1
    <3>1. Cardinality(Unhashed') \in {Cardinality(Unhashed), Cardinality(Unhashed) + 1}
      BY <1>2, <2>6, FS_AddElement
    <3> QED BY <1>2, <3>1
  <2>8. \A d \in cpu' : d.phase = "report" => d \in cpu
    BY <2>1
  <2> HIDE DEF t
  <2> QED BY <1>1, <1>4, <2>1, <2>3, <2>5, <2>6, <2>7, <2>8 DEF t
<1> QED BY <1>3, <1>4

LEMMA GpuGiven ==
  ASSUME IInv, Hashing, NEW g \in Gpus, NEW n \in Nat, GiveGpu(g, n), inbox[g] = <<>>,
         UNCHANGED <<cpu, gpu, buf, nonces_hashed>>
  PROVE  /\ Given' = Given \cup (IF n > 0 THEN {<<g, NewTask(n)>>} ELSE {})
         /\ inbox' \in [Gpus -> Seq(Task)] /\ \A h \in Gpus \ {g} : inbox'[h] = inbox[h]
         /\ inbox'[g] # <<>> /\ Len(inbox'[g]) = 1 /\ inbox'[g][1] = NewTask(n)
         /\ gpu[g].last_task # NewTask(n) \/ gpu[g].first_run
<1> DEFINE t == NewTask(n)
<1>1. t \in Task /\ t.n = n /\ inbox \in [Gpus -> Seq(Task)]
  BY NewTaskType DEF IInv, TypeOK
<1>2. inbox' = [inbox EXCEPT ![g] = Append(<<>>, t)]
  BY DEF GiveGpu
<1>3. Append(<<>>, t) = <<t>> /\ <<t>> \in Seq(Task) /\ Len(<<t>>) = 1 /\ <<t>>[1] = t
      /\ <<t>> # <<>> /\ DOMAIN <<t>> = {1}
  BY <1>1
<1> HIDE DEF t
<1>4. /\ inbox' \in [Gpus -> Seq(Task)] /\ \A h \in Gpus \ {g} : inbox'[h] = inbox[h]
      /\ inbox'[g] = <<t>>
  BY <1>1, <1>2, <1>3
<1>5. \A u : u \in GpuTasks(g)' <=> u \in GpuTasks(g) \/ (n > 0 /\ u = t)
  <2> DEFINE P(u) == ((gpu[g].pc = "report" \/ ~gpu[g].first_run) /\ u = gpu[g].last_task)
                     \/ (gpu[g].pc = "report" /\ ~gpu[g].first_run /\ u = gpu[g].next_task)
  <2>1. \A u : u \in GpuTasks(g)' <=> (u = t /\ u.n > 0) \/ P(u)
    <3>1. \A u : u \in {inbox'[g][i] : i \in DOMAIN inbox'[g]} <=> u = t
      BY <1>3, <1>4
    <3> QED BY <3>1 DEF GpuTasks
  <2>2. \A u : u \in GpuTasks(g) <=> P(u)
    BY GpuTasksAre
  <2> HIDE DEF P
  <2> QED BY <1>1, <2>1, <2>2
<1>6. Given' = Given \cup (IF n > 0 THEN {<<g, t>>} ELSE {})
  <2>1. CASE n = 0
    <3> DEFINE S == GpuTasks(g)
               S1 == GpuTasks(g)'
    <3>1. S1 = S
      <4>1. \A u : u \in S1 <=> u \in S
        BY <1>5, <2>1
      <4> HIDE DEF S, S1
      <4> QED BY <4>1
    <3> QED BY <1>4, <2>1, <3>1, GivenGpu
  <2>2. CASE n > 0
    <3> DEFINE S == GpuTasks(g)
               S1 == GpuTasks(g)'
    <3>1. S1 = S \cup {t}
      <4>1. \A u : u \in S1 <=> u \in S \/ u = t
        BY <1>5, <2>2
      <4> HIDE DEF S, S1
      <4> QED BY <4>1
    <3> QED BY <1>4, <2>2, <3>1, GivenGpu
  <2> QED BY <2>1, <2>2
<1>7. gpu[g].last_task # t \/ gpu[g].first_run
  <2> SUFFICES ASSUME ~gpu[g].first_run PROVE gpu[g].last_task # t
    OBVIOUS
  <2>1. gpu[g].last_task \in GpuTasks(g)
    BY GpuTasksAre
  <2>2. <<g, gpu[g].last_task>> \in Given
    BY <2>1, GivenPairs
  <2> QED BY <2>2, NewTaskType, <<g, gpu[g].last_task>>[2] = gpu[g].last_task DEF t
<1> QED BY <1>3, <1>4, <1>6, <1>7 DEF t

\* What a step of the scheduler leaves in the buffer stays there.
LEMMA InHostSame ==
  ASSUME InHost, Hashing, UNCHANGED <<gpu, cache, buf, nonces_hashed>>,
         \A c \in cpu' : c.phase = "report" => c \in cpu
  PROVE  InHost'
BY DEF InHost, OnCache

LEMMA MessagesSame ==
  ASSUME UNCHANGED rx
  PROVE  Unread' = Unread /\ Reports' = Reports /\ \A d : Asks(d)' = Asks(d)
BY DEF Unread, Reports, Asks

LEMMA KickGpuKeeps ==
  ASSUME IInv, KickGpu, UNCHANGED writerVars
  PROVE  IInv'
<1> DEFINE n == Smaller(Worksize, Unassigned)
<1>1. /\ spc = "kick" /\ spc' = "kick" /\ kick \in Gpus /\ kick' = kick + 1
      /\ requested' = requested + n
      /\ n > 0 => GiveGpu(kick, n)
      /\ ~(n > 0) => inbox' = inbox
      /\ UNCHANGED <<bufferVars, cache, spc, buf, nonces_hashed, processed, rx, cpu, gpu>>
  BY DEF KickGpu
<1>2. Hashing /\ Hashing' /\ n \in 0 .. Unassigned /\ n \in Nat /\ buf \in Buffers
  BY <1>1, ShareBounds, SchedulerAssumption DEF Hashing, IInv, Counters
<1>3. /\ gpu[kick].first_run /\ gpu[kick].pc = "recv" /\ inbox[kick] = <<>> /\ kick \in Int
      /\ GpuAsks(kick)
  <2>1. kick \in Int
    BY SchedulerAssumption DEF IInv, TypeOK
  <2> QED BY <1>1, <2>1 DEF IInv, GpuAsks
<1> HIDE DEF n
<1>4. /\ Given' = Given \cup (IF n > 0 THEN {<<kick, NewTask(n)>>} ELSE {})
      /\ inbox' \in [Gpus -> Seq(Task)] /\ \A h \in Gpus \ {kick} : inbox'[h] = inbox[h]
      /\ Len(inbox'[kick]) <= 1
      /\ inbox'[kick] # <<>> => inbox'[kick][1].cache = buf /\ inbox'[kick][1].n > 0
  <2>1. CASE n > 0
    <3>1. /\ Given' = Given \cup (IF n > 0 THEN {<<kick, NewTask(n)>>} ELSE {})
          /\ inbox' \in [Gpus -> Seq(Task)] /\ \A h \in Gpus \ {kick} : inbox'[h] = inbox[h]
          /\ Len(inbox'[kick]) = 1 /\ inbox'[kick][1] = NewTask(n)
      BY <1>1, <1>2, <1>3, <2>1, GpuGiven
    <3>2. NewTask(n).cache = buf /\ NewTask(n).n = n
      BY <1>2, NewTaskType
    <3> QED BY <2>1, <3>1, <3>2
  <2>2. CASE ~(n > 0)
    <3>1. inbox' = inbox
      BY <1>1, <2>2
    <3>2. CpuTasks' = CpuTasks
      BY <1>1 DEF CpuTasks
    <3>3. Given' = Given
      BY <1>1, <3>1, <3>2, GivenCpu
    <3>4. Len(inbox[kick]) <= 1
      BY <1>3 DEF GpuAsks
    <3> QED BY <1>3, <2>2, <3>1, <3>3, <3>4 DEF IInv, TypeOK
  <2> QED BY <2>1, <2>2
<1>5. Unread' = Unread /\ Reports' = Reports /\ \A d : Asks(d)' = Asks(d)
  BY <1>1, MessagesSame
<1>6. Pieces'
  BY <1>1, <1>2, <1>4, <1>5, PiecesAssign DEF IInv, Pieces
<1>7. InHost'
  BY <1>1, <1>2, InHostSame DEF IInv
<1>8. CpuAsks'
  <2>1. CpuStarted' = 0 /\ CpuStarted = 0
    BY <1>1, <1>3, SchedulerAssumption DEF CpuStarted, Gpus
  <2>2. Unhashed' = Unhashed /\ Phase("report")' = Phase("report")
    BY <1>1 DEF Unhashed, Phase
  <2> QED BY <1>1, <1>5, <2>1, <2>2 DEF IInv, CpuAsks
<1>9. \A g \in Gpus : GpuAsks(g)'
  <2>1. ASSUME NEW g \in Gpus \ {kick} PROVE GpuAsks(g)'
    <3>1. g >= kick' => g >= kick
      BY <1>1, <1>3 DEF Gpus
    <3> QED BY <1>1, <1>2, <1>4, <1>5, <3>1, GpuAsksSame DEF IInv
  <2>2. ASSUME NEW g, g = kick PROVE GpuAsks(g)'
    <3>1. ~(g >= kick')
      BY <1>1, <1>3, <2>2
    <3>2. /\ Len(inbox'[g]) <= 1 /\ gpu'[g] = gpu[g] /\ gpu[g].first_run
          /\ gpu[g].pc = "recv" /\ Asks(g)' = {} /\ gpu[g].buffer_id = 0
          /\ inbox'[g] # <<>> => inbox'[g][1].cache = buf' /\ inbox'[g][1].n > 0
      BY <1>1, <1>3, <1>4, <1>5, <2>2 DEF GpuAsks
    <3> QED BY <3>1, <3>2 DEF GpuAsks
  <2> QED BY <2>1, <2>2
<1>10. TypeOK'
  <2>1. kick' \in 1 .. NumGpus + CpuThreads + 1
    BY <1>1, <1>3, SchedulerAssumption DEF Gpus
  <2>2. rx' \in Seq(Msgs) /\ cpu' \subseteq CpuRec
    BY <1>1 DEF IInv, TypeOK, Msgs, CpuRec
  <2> QED BY <1>1, <1>2, <1>4, <2>1, <2>2, AssignType
<1>11. Counters' /\ Between'
  BY <1>1, <1>2 DEF IInv, Counters, Between
<1> QED BY <1>1, <1>6, <1>7, <1>8, <1>9, <1>10, <1>11, BuffersStay DEF IInv

LEMMA KickCpuKeeps ==
  ASSUME IInv, KickCpu, UNCHANGED writerVars
  PROVE  IInv'
<1> DEFINE n == Smaller(CpuTaskSize, Unassigned)
<1>1. /\ spc = "kick" /\ spc' = "kick" /\ kick - NumGpus \in 1 .. CpuThreads /\ kick' = kick + 1
      /\ requested' = requested + n /\ GiveCpu(n)
      /\ UNCHANGED <<bufferVars, cache, spc, buf, nonces_hashed, processed, rx, gpu, inbox>>
  BY DEF KickCpu
<1>2. Hashing /\ Hashing' /\ n \in 0 .. Unassigned /\ n \in Nat /\ buf \in Buffers
  BY <1>1, ShareBounds, SchedulerAssumption DEF Hashing, IInv, Counters
<1>3. kick \in Nat /\ kick > NumGpus /\ kick <= NumGpus + CpuThreads /\ NumGpus \in Nat
      /\ CpuThreads \in Nat
  BY <1>1, SchedulerAssumption DEF IInv, TypeOK
<1> HIDE DEF n
<1>4. /\ Given' = Given \cup (IF n > 0 THEN {<<0, NewTask(n)>>} ELSE {})
      /\ cpu' \subseteq CpuRec /\ IsFiniteSet(cpu')
      /\ \A d, e \in cpu' : d.task = e.task => d = e
      /\ Phase("report")' = Phase("report")
      /\ Cardinality(Unhashed') \in Nat /\ Cardinality(Unhashed') <= Cardinality(Unhashed) + 1
      /\ \A c \in cpu' : c.phase = "report" => c \in cpu
  BY <1>1, <1>2, CpuGiven
<1>5. Unread' = Unread /\ Reports' = Reports /\ \A d : Asks(d)' = Asks(d)
  BY <1>1, MessagesSame
<1>6. Pieces'
  BY <1>1, <1>2, <1>4, <1>5, PiecesAssign DEF IInv, Pieces
<1>7. InHost'
  BY <1>1, <1>2, <1>4, InHostSame DEF IInv
<1>8. CpuAsks'
  <2> DEFINE u == Cardinality(Unhashed)
             v == Cardinality(Unhashed')
             a == Cardinality(Asks(0))
  <2>1. CpuStarted' = CpuStarted + 1 /\ CpuStarted \in Int
    BY <1>1, <1>3 DEF CpuStarted
  <2>2. u \in Nat /\ a \in Nat /\ v \in Nat /\ v <= u + 1 /\ u + a <= CpuStarted
    BY <1>4, CpuCounts DEF IInv, CpuAsks
  <2> HIDE DEF u, v, a
  <2>3. v + a <= CpuStarted'
    BY <2>1, <2>2
  <2>4. Cardinality(Unhashed') + Cardinality(Asks(0)') <= CpuStarted'
    BY <1>5, <2>3 DEF v, a
  <2> QED BY <1>4, <1>5, <2>4 DEF IInv, CpuAsks
<1>9. \A g \in Gpus : GpuAsks(g)'
  <2> SUFFICES ASSUME NEW g \in Gpus PROVE GpuAsks(g)'
    OBVIOUS
  <2>1. g >= kick' => g >= kick
    BY <1>1, <1>3 DEF Gpus
  <2> QED BY <1>1, <1>2, <1>5, <2>1, GpuAsksSame DEF IInv
<1>10. TypeOK'
  <2>1. kick' \in 1 .. NumGpus + CpuThreads + 1
    BY <1>1, <1>3
  <2>2. rx' \in Seq(Msgs) /\ inbox' \in [Gpus -> Seq(Task)]
    BY <1>1 DEF IInv, TypeOK, Msgs
  <2> QED BY <1>1, <1>2, <1>4, <2>1, <2>2, AssignType
<1>11. Counters' /\ Between'
  BY <1>1, <1>2 DEF IInv, Counters, Between
<1> QED BY <1>1, <1>6, <1>7, <1>8, <1>9, <1>10, <1>11, BuffersStay DEF IInv

LEMMA KickEndsKeeps ==
  ASSUME IInv, KickEnds, UNCHANGED writerVars
  PROVE  IInv'
<1>1. /\ spc = "kick" /\ kick > NumGpus + CpuThreads /\ spc' = "loop"
      /\ UNCHANGED <<bufferVars, cache, buf, nonces_hashed, requested, processed, kick,
                     rx, cpu, gpu, inbox>>
  BY DEF KickEnds
<1>2. Hashing /\ Hashing' /\ Todo > 0 /\ Todo' = Todo
  BY <1>1, ShareBounds DEF Hashing, Todo
<1>3. Unread' = Unread /\ Reports' = Reports /\ \A d : Asks(d)' = Asks(d)
  BY <1>1, MessagesSame
<1>4. Given' = Given
  BY <1>1, GivenCpu DEF CpuTasks
<1>5. Pieces'
  BY <1>1, <1>2, <1>3, <1>4, PiecesMove DEF IInv, Pieces
<1>6. InHost'
  BY <1>1, <1>2, InHostSame DEF IInv
<1>7. CpuAsks'
  <2>1. CpuStarted' = CpuStarted
    BY <1>1, SchedulerAssumption DEF CpuStarted, IInv, TypeOK
  <2>2. Unhashed' = Unhashed /\ Phase("report")' = Phase("report")
    BY <1>1 DEF Unhashed, Phase
  <2> QED BY <1>1, <1>3, <2>1, <2>2 DEF IInv, CpuAsks
<1>8. \A g \in Gpus : GpuAsks(g)'
  BY <1>1, <1>2, <1>3, GpuAsksSame DEF IInv
<1>9. TypeOK'
  BY <1>1, <1>2 DEF IInv, TypeOK, bufferVars, writerVars
<1>10. Counters' /\ Between'
  BY <1>1, <1>2 DEF IInv, Counters, Between
<1> QED BY <1>1, <1>5, <1>6, <1>7, <1>8, <1>9, <1>10, BuffersStay DEF IInv

-----------------------------------------------------------------------------
(* The scheduler thread: the messages of the control loop.                 *)

LEMMA AsksRange ==
  ASSUME rx \in Seq(Msgs), rx' \in Seq(Msgs)
  PROVE  \A d : /\ Asks(d) \subseteq Nat \ {0} /\ Asks(d)' \subseteq Nat \ {0}
                /\ Asks(d) \subseteq Int /\ Asks(d)' \subseteq Int
BY LenProperties DEF Asks

LEMMA CpuAsksRead ==
  ASSUME CpuAsks, UNCHANGED <<cpu, spc, kick>>, rx \in Seq(Msgs), rx' \in Seq(Msgs),
         IsFiniteSet(Asks(0)),
         \A i \in Int : i \in Asks(0)' <=> i + 1 \in Asks(0),
         \A i \in Nat \ {0} : i + 1 \in Reports => i \in Reports'
  PROVE  CpuAsks'
<1>1. Unhashed' = Unhashed /\ Phase("report")' = Phase("report") /\ CpuStarted' = CpuStarted
  BY DEF Unhashed, Phase, CpuStarted
<1>2. Asks(0) \subseteq Int /\ Asks(0)' \subseteq Nat \ {0} /\ Asks(0)' \subseteq Int
  BY AsksRange
<1>3. Cardinality(Asks(0)') = Cardinality(Asks(0))
  BY <1>2, ShiftedNumbers
<1>4. ASSUME NEW i \in Asks(0)' PROVE Phase("report")' # {} \/ \E j \in Reports' : j > i
  <2>1. i + 1 \in Asks(0) /\ i \in Nat \ {0}
    BY <1>2
  <2>2. CASE \E j \in Reports : j > i + 1
    <3>1. PICK j \in Reports : j > i + 1
      BY <2>2
    <3>2. j \in Int
      BY LenProperties, <3>1 DEF Reports
    <3>3. j - 1 \in Nat \ {0} /\ (j - 1) + 1 = j /\ j - 1 > i
      BY <2>1, <3>1, <3>2
    <3> QED BY <3>1, <3>3
  <2> QED BY <1>1, <2>1, <2>2 DEF CpuAsks
<1> QED BY <1>1, <1>3, <1>4 DEF CpuAsks

LEMMA GpuAsksRead ==
  ASSUME NEW g \in Gpus, GpuAsks(g), gpu'[g] = gpu[g], inbox'[g] = inbox[g],
         \A i \in Int : i \in Asks(g)' => i + 1 \in Asks(g), Asks(g)' \subseteq Int,
         UNCHANGED buf, Hashing' => Hashing, spc' # "kick"
  PROVE  GpuAsks(g)'
<1>1. Asks(g)' # {} => Asks(g) # {}
  OBVIOUS
<1>2. \A i, j \in Asks(g)' : i = j
  <2> SUFFICES ASSUME NEW i \in Asks(g)', NEW j \in Asks(g)' PROVE i = j
    OBVIOUS
  <2>1. i \in Int /\ j \in Int /\ i + 1 \in Asks(g) /\ j + 1 \in Asks(g)
    OBVIOUS
  <2>2. i + 1 = j + 1
    BY <2>1 DEF GpuAsks
  <2> QED BY <2>1, <2>2
<1> QED BY <1>1, <1>2 DEF GpuAsks

\* What reading the first message, a request for work, does.
LEMMA ReadsReady ==
  ASSUME IInv, NextMessage, Head(rx).kind = "ready"
  PROVE  /\ spc = "loop" /\ Hashing /\ rx \in Seq(Msgs) /\ rx' \in Seq(Msgs)
         /\ Head(rx) = rx[1] /\ 1 \in Asks(rx[1].dev)
         /\ \A i \in Int : i \in Reports' <=> i + 1 \in Reports
         /\ \A i \in Reports' : rx'[i].n > 0
         /\ IsFiniteSet(Unread') /\ Cardinality(Unread') = Cardinality(Unread)
         /\ \A e : \A i \in Int : i \in Asks(e)' <=> i + 1 \in Asks(e) \ {1}
         /\ \A e : e # rx[1].dev => 1 \notin Asks(e)
<1>1. spc = "loop" /\ Hashing /\ rx \in Seq(Msgs) /\ rx # <<>> /\ rx' = Tail(rx)
      /\ IsFiniteSet(Unread)
  BY DEF NextMessage, Hashing, IInv, TypeOK, Msgs, Pieces
<1>2. Head(rx) = rx[1]
  BY <1>1, RxTail
<1>3. /\ rx' \in Seq(Msgs)
      /\ \A i \in Int : i \in Reports' <=> i + 1 \in Reports
      /\ \A i \in Reports' : rx'[i] = rx[i + 1]
      /\ IsFiniteSet(Unread') /\ Cardinality(Unread') = Cardinality(Unread)
      /\ 1 \in Asks(rx[1].dev)
      /\ \A e : \A i \in Int : i \in Asks(e)' <=> i + 1 \in Asks(e) \ {1}
  BY <1>1, <1>2, ReadReady
<1>4. \A i \in Reports' : i \in Int
  BY <1>3, LenProperties DEF Reports
<1>5. \A i \in Reports' : rx'[i].n > 0
  BY <1>1, <1>3, <1>4 DEF IInv, Pieces
<1>6. \A e : e # rx[1].dev => 1 \notin Asks(e)
  BY DEF Asks
<1> QED BY <1>1, <1>2, <1>3, <1>5, <1>6

LEMMA ServeCpuKeeps ==
  ASSUME IInv, ServeCpu, UNCHANGED writerVars
  PROVE  IInv'
<1> DEFINE n == Smaller(CpuTaskSize, Unassigned)
<1>1. /\ NextMessage /\ Head(rx).kind = "ready" /\ Head(rx).dev = 0
      /\ requested' = requested + n /\ GiveCpu(n) /\ processed' = processed /\ LoopOrLeave
      /\ UNCHANGED <<bufferVars, cache, buf, nonces_hashed, kick, gpu, inbox>>
  BY DEF ServeCpu
<1>2. /\ spc = "loop" /\ Hashing /\ rx \in Seq(Msgs) /\ rx' \in Seq(Msgs)
      /\ Head(rx) = rx[1] /\ 1 \in Asks(rx[1].dev)
      /\ \A i \in Int : i \in Reports' <=> i + 1 \in Reports
      /\ \A i \in Reports' : rx'[i].n > 0
      /\ IsFiniteSet(Unread') /\ Cardinality(Unread') = Cardinality(Unread)
      /\ \A e : \A i \in Int : i \in Asks(e)' <=> i + 1 \in Asks(e) \ {1}
      /\ \A e : e # rx[1].dev => 1 \notin Asks(e)
  BY <1>1, ReadsReady
<1>3. spc' = "loop" /\ Hashing' /\ processed < Todo /\ Todo' = Todo
  <2>1. processed < Todo
    BY <1>2 DEF IInv, Counters
  <2>2. Todo \in Nat /\ processed \in Nat
    <3>1. requested \in Nat /\ Todo \in Nat
      BY <1>2, ShareBounds
    <3> QED BY <3>1 DEF IInv, TypeOK
  <2>3. processed # Todo
    BY <2>1, <2>2
  <2> QED BY <1>1, <2>1, <2>3 DEF LoopOrLeave, Hashing, Todo
<1>4. n \in 0 .. Unassigned /\ n \in Nat /\ buf \in Buffers
  <2>1. Unassigned \in Nat /\ n \in 0 .. Unassigned
    BY <1>2, ShareBounds, SchedulerAssumption
  <2>2. buf \in Buffers
    BY <1>2 DEF IInv, Counters
  <2> QED BY <2>1, <2>2
<1> HIDE DEF n
<1>5. /\ Given' = Given \cup (IF n > 0 THEN {<<0, NewTask(n)>>} ELSE {})
      /\ cpu' \subseteq CpuRec /\ IsFiniteSet(cpu')
      /\ \A d, e \in cpu' : d.task = e.task => d = e
      /\ Phase("report")' = Phase("report")
      /\ Cardinality(Unhashed') \in Nat /\ Cardinality(Unhashed') <= Cardinality(Unhashed) + 1
      /\ \A c \in cpu' : c.phase = "report" => c \in cpu
  BY <1>1, <1>2, <1>4, CpuGiven
<1>6. Pieces'
  BY <1>1, <1>2, <1>4, <1>5, PiecesAssign DEF IInv
<1>7. InHost'
  BY <1>1, <1>2, <1>5, InHostSame DEF IInv
<1>8. CpuAsks'
  <2>1. /\ Asks(0) \subseteq Int /\ Asks(0)' \subseteq Nat \ {0} /\ Asks(0)' \subseteq Int
        /\ IsFiniteSet(Asks(0)) /\ Cardinality(Asks(0)) \in Nat /\ 1 \in Asks(0)
    BY <1>1, <1>2, AsksRange, CpuCounts
  <2>2. /\ IsFiniteSet(Asks(0) \ {1}) /\ Cardinality(Asks(0) \ {1}) = Cardinality(Asks(0)) - 1
        /\ Asks(0) \ {1} \subseteq Int
    BY <2>1, FS_RemoveElement
  <2>3. \A i \in Int : i \in Asks(0)' <=> i + 1 \in Asks(0) \ {1}
    BY <1>2
  <2>4. Cardinality(Asks(0)') = Cardinality(Asks(0)) - 1
    BY <2>1, <2>2, <2>3, ShiftedNumbers
  <2>5. Cardinality(Unhashed') + Cardinality(Asks(0)') <= CpuStarted'
    <3> DEFINE u == Cardinality(Unhashed)
               v == Cardinality(Unhashed')
               a == Cardinality(Asks(0))
               b == Cardinality(Asks(0)')
    <3>1. /\ u \in Nat /\ a \in Nat /\ v \in Nat /\ v <= u + 1 /\ b = a - 1
          /\ u + a <= CpuStarted /\ CpuStarted' = CpuStarted /\ CpuStarted \in Int
      BY <1>2, <1>3, <1>5, <2>1, <2>4, CpuCounts DEF IInv, CpuAsks, CpuStarted
    <3> HIDE DEF u, v, a, b
    <3>2. v + b <= CpuStarted'
      BY <3>1
    <3> QED BY <3>2 DEF v, b
  <2>6. ASSUME NEW i \in Asks(0)' PROVE Phase("report")' # {} \/ \E j \in Reports' : j > i
    <3>1. i + 1 \in Asks(0) /\ i \in Nat \ {0}
      BY <2>1, <2>3
    <3>2. CASE \E j \in Reports : j > i + 1
      <4>1. PICK j \in Reports : j > i + 1
        BY <3>2
      <4>2. j \in Int
        BY <1>2, LenProperties, <4>1 DEF Reports
      <4>3. j - 1 \in Int /\ (j - 1) + 1 = j /\ j - 1 > i
        BY <3>1, <4>1, <4>2
      <4> QED BY <1>2, <4>1, <4>3
    <3> QED BY <1>5, <3>1, <3>2 DEF IInv, CpuAsks
  <2> QED BY <1>5, <2>5, <2>6 DEF CpuAsks
<1>9. \A g \in Gpus : GpuAsks(g)'
  <2> SUFFICES ASSUME NEW g \in Gpus PROVE GpuAsks(g)'
    OBVIOUS
  <2>1. Asks(g)' \subseteq Int /\ \A i \in Int : i \in Asks(g)' => i + 1 \in Asks(g)
    BY <1>2, AsksRange
  <2> QED BY <1>1, <1>2, <1>3, <2>1, GpuAsksRead DEF IInv
<1>10. TypeOK'
  <2>1. kick' \in 1 .. NumGpus + CpuThreads + 1 /\ inbox' \in [Gpus -> Seq(Task)]
    BY <1>1 DEF IInv, TypeOK
  <2> QED BY <1>1, <1>2, <1>3, <1>4, <1>5, <2>1, AssignType
<1>11. Counters' /\ Between'
  BY <1>1, <1>2, <1>3 DEF IInv, Counters, Between
<1> QED BY <1>1, <1>2, <1>6, <1>7, <1>8, <1>9, <1>10, <1>11, BuffersStay DEF IInv

LEMMA ServeGpuKeeps ==
  ASSUME IInv, ServeGpu, UNCHANGED writerVars
  PROVE  IInv'
<1> DEFINE n == GpuShare
           g == Head(rx).dev
<1>1. /\ NextMessage /\ Head(rx).kind = "ready" /\ g \in Gpus
      /\ requested' = requested + n /\ GiveGpu(g, n) /\ processed' = processed /\ LoopOrLeave
      /\ UNCHANGED <<bufferVars, cache, buf, nonces_hashed, kick, cpu, gpu>>
  BY DEF ServeGpu
<1>2. /\ spc = "loop" /\ Hashing /\ rx \in Seq(Msgs) /\ rx' \in Seq(Msgs)
      /\ g = rx[1].dev /\ 1 \in Asks(g)
      /\ \A i \in Int : i \in Reports' <=> i + 1 \in Reports
      /\ \A i \in Reports' : rx'[i].n > 0
      /\ IsFiniteSet(Unread') /\ Cardinality(Unread') = Cardinality(Unread)
      /\ \A e : \A i \in Int : i \in Asks(e)' <=> i + 1 \in Asks(e) \ {1}
      /\ \A e : e # g => 1 \notin Asks(e)
  BY <1>1, ReadsReady
<1>3. spc' = "loop" /\ Hashing' /\ processed < Todo /\ Todo' = Todo
  <2>1. processed < Todo
    BY <1>2 DEF IInv, Counters
  <2>2. Todo \in Nat /\ processed \in Nat
    <3>1. requested \in Nat /\ Todo \in Nat
      BY <1>2, ShareBounds
    <3> QED BY <3>1 DEF IInv, TypeOK
  <2>3. processed # Todo
    BY <2>1, <2>2
  <2> QED BY <1>1, <2>1, <2>3 DEF LoopOrLeave, Hashing, Todo
<1>4. n \in 0 .. Unassigned /\ n \in Nat /\ buf \in Buffers
  <2>1. Unassigned \in Nat /\ n \in 0 .. Unassigned
    BY <1>2, ShareBounds, SchedulerAssumption
  <2>2. buf \in Buffers
    BY <1>2 DEF IInv, Counters
  <2> QED BY <2>1, <2>2
<1> HIDE DEF n
<1>5. \A u : u = g => /\ GpuAsks(u) /\ gpu[u] \in GpuState /\ gpu[u].pc = "recv"
                      /\ ~gpu[u].first_run /\ inbox[u] = <<>> /\ Asks(u)' = {} /\ u # 0
  <2> SUFFICES ASSUME NEW u, u = g
               PROVE  /\ GpuAsks(u) /\ gpu[u] \in GpuState /\ gpu[u].pc = "recv"
                      /\ ~gpu[u].first_run /\ inbox[u] = <<>> /\ Asks(u)' = {} /\ u # 0
    OBVIOUS
  <2> HIDE DEF g
  <2>1. GpuAsks(u) /\ gpu[u] \in GpuState /\ u # 0
    BY <1>1, GpuHolds
  <2>2. gpu[u].pc = "recv" /\ ~gpu[u].first_run /\ inbox[u] = <<>>
    BY <1>2, <2>1 DEF GpuAsks
  <2>3. \A i \in Asks(u) : i = 1
    BY <1>2, <2>1 DEF GpuAsks
  <2>4. Asks(u)' \subseteq Int
    BY <1>2, AsksRange
  <2>5. Asks(u)' = {}
    BY <1>2, <2>3, <2>4
  <2> QED BY <2>1, <2>2, <2>5
<1> HIDE DEF g
<1>6. \A u : u = g =>
        /\ Given' = Given \cup (IF n > 0 THEN {<<u, NewTask(n)>>} ELSE {})
        /\ inbox' \in [Gpus -> Seq(Task)] /\ \A h \in Gpus \ {u} : inbox'[h] = inbox[h]
        /\ inbox'[u] # <<>> /\ Len(inbox'[u]) = 1 /\ inbox'[u][1] = NewTask(n)
        /\ gpu[u].last_task # NewTask(n) \/ gpu[u].first_run
        /\ NewTask(n).cache = buf
  <2> SUFFICES ASSUME NEW u, u = g
               PROVE  /\ Given' = Given \cup (IF n > 0 THEN {<<u, NewTask(n)>>} ELSE {})
                      /\ inbox' \in [Gpus -> Seq(Task)]
                      /\ \A h \in Gpus \ {u} : inbox'[h] = inbox[h]
                      /\ inbox'[u] # <<>> /\ Len(inbox'[u]) = 1 /\ inbox'[u][1] = NewTask(n)
                      /\ gpu[u].last_task # NewTask(n) \/ gpu[u].first_run
                      /\ NewTask(n).cache = buf
    OBVIOUS
  <2>1. u \in Gpus /\ GiveGpu(u, n) /\ inbox[u] = <<>>
    BY <1>1, <1>5
  <2>2. NewTask(n).cache = buf
    BY <1>2, <1>4, NewTaskType
  <2> QED BY <1>1, <1>2, <1>4, <2>1, <2>2, GpuGiven
<1>7. Pieces'
  BY <1>1, <1>2, <1>4, <1>6, PiecesAssign DEF IInv
<1>8. InHost'
  BY <1>1, <1>2, InHostSame DEF IInv
<1>9. CpuAsks'
  <2>1. 0 # g /\ IsFiniteSet(Asks(0)) /\ Asks(0)' \subseteq Int
    BY <1>2, <1>5, CpuCounts, AsksRange
  <2>2. \A i \in Int : i \in Asks(0)' <=> i + 1 \in Asks(0)
    BY <1>2, <2>1
  <2>3. \A i \in Nat \ {0} : i + 1 \in Reports => i \in Reports'
    BY <1>2
  <2> QED BY <1>1, <1>2, <1>3, <2>1, <2>2, <2>3, CpuAsksRead DEF IInv
<1>10. \A h \in Gpus : GpuAsks(h)'
  <2>1. ASSUME NEW h \in Gpus, h # g PROVE GpuAsks(h)'
    <3>1. Asks(h)' \subseteq Int /\ \A i \in Int : i \in Asks(h)' => i + 1 \in Asks(h)
      BY <1>2, AsksRange
    <3>2. inbox'[h] = inbox[h]
      BY <1>6, <2>1
    <3> QED BY <1>1, <1>2, <1>3, <3>1, <3>2, GpuAsksRead DEF IInv
  <2>2. ASSUME NEW h \in Gpus, h = g PROVE GpuAsks(h)'
    <3>1. /\ GpuAsks(h) /\ gpu'[h] = gpu[h] /\ gpu[h].pc = "recv" /\ ~gpu[h].first_run
          /\ Asks(h)' = {} /\ Len(inbox'[h]) <= 1 /\ inbox'[h][1].cache = buf'
          /\ inbox'[h][1] # gpu[h].last_task /\ spc' = "loop"
      <4>1. /\ GpuAsks(h) /\ gpu[h].pc = "recv" /\ ~gpu[h].first_run /\ Asks(h)' = {}
        BY <1>5, <2>2
      <4>2. /\ Len(inbox'[h]) = 1 /\ inbox'[h][1] = NewTask(n) /\ NewTask(n).cache = buf
            /\ gpu[h].last_task # NewTask(n)
        BY <1>6, <2>2, <4>1
      <4> QED BY <1>1, <1>3, <4>1, <4>2
    <3>2. gpu[h].vram[TransferFrom(gpu[h].buffer_id)] = gpu[h].last_task
      BY <3>1 DEF GpuAsks
    <3> QED BY <3>1, <3>2 DEF GpuAsks, Hashing
  <2> QED BY <2>1, <2>2
<1>11. TypeOK'
  <2>1. kick' \in 1 .. NumGpus + CpuThreads + 1 /\ cpu' \subseteq CpuRec
    BY <1>1 DEF IInv, TypeOK, CpuRec
  <2> QED BY <1>1, <1>2, <1>3, <1>4, <1>6, <2>1, AssignType
<1>12. Counters' /\ Between'
  BY <1>1, <1>2, <1>3 DEF IInv, Counters, Between
<1> QED BY <1>1, <1>2, <1>7, <1>8, <1>9, <1>10, <1>11, <1>12, BuffersStay DEF IInv

\* When everything that was requested is counted, no device has a task.
LEMMA NothingGiven ==
  ASSUME IInv, Hashing, Cardinality(Covered(Given)) = 0
  PROVE  /\ Given = {} /\ SlotsInFlight = {} /\ cpu = {}
         /\ \A g \in Gpus : /\ gpu[g].pc = "recv" /\ gpu[g].first_run
                            /\ inbox[g] = <<>> /\ Asks(g) = {}
<1>1. Covered(Given) = {}
  BY CoveredBound, FS_EmptySet DEF IInv
<1>2. ASSUME NEW p \in Given PROVE FALSE
  <2>1. InBuffer(p[2]) /\ p[2] \in Task
    BY GivenType DEF IInv, Pieces
  <2>2. p[2].offset \in Nat /\ p[2].n \in Nat /\ p[2].n > 0
    BY <2>1 DEF Task, InBuffer
  <2>3. p[2].offset \in SlotsOf(p[2])
    BY <2>2 DEF SlotsOf
  <2> QED BY <1>1, <2>3 DEF Covered
<1>3. cpu = {}
  BY <1>2, GivenPairs
<1>4. ASSUME NEW g \in Gpus
      PROVE  /\ gpu[g].pc = "recv" /\ gpu[g].first_run
             /\ inbox[g] = <<>> /\ Asks(g) = {}
  <2>1. \A t : t \notin GpuTasks(g)
    BY <1>2, GivenPairs
  <2>2. gpu[g].first_run /\ gpu[g].pc # "report"
    BY <2>1, GpuTasksAre
  <2>3. inbox[g] # <<>> => inbox[g][1].n > 0
    BY <2>2 DEF IInv, GpuAsks
  <2>4. inbox[g] = <<>>
    BY <2>1, <2>3, GpuTasksAre
  <2>5. gpu[g] \in GpuState
    BY GpuHolds
  <2> QED BY <2>2, <2>4, <2>5 DEF IInv, GpuAsks, GpuState
<1> QED BY <1>1, <1>2, <1>3, <1>4, InFlightGiven

LEMMA CountDoneKeeps ==
  ASSUME IInv, CountDone, UNCHANGED writerVars
  PROVE  IInv'
<1>1. /\ spc = "loop" /\ rx # <<>> /\ rx' = Tail(rx) /\ Head(rx).kind = "done"
      /\ processed' = processed + Head(rx).n
      /\ spc' = IF processed' = Todo THEN "send" ELSE "loop"
      /\ UNCHANGED <<bufferVars, cache, buf, nonces_hashed, requested, kick, cpu, gpu, inbox>>
  BY DEF CountDone, NextMessage, LoopOrLeave
<1>2. Hashing /\ rx \in Seq(Msgs) /\ IsFiniteSet(Unread) /\ Todo' = Todo
  BY <1>1 DEF Hashing, IInv, TypeOK, Msgs, Pieces, Todo
<1>3. Head(rx) = rx[1]
  BY <1>1, <1>2, RxTail
<1>4. /\ rx' \in Seq(Msgs)
      /\ \A i \in Int : i \in Reports' <=> i + 1 \in Reports \ {1}
      /\ \A e : \A i \in Int : i \in Asks(e)' <=> i + 1 \in Asks(e)
  BY <1>1, <1>2, <1>3, ReadDone
<1>5. Given' = Given
  BY <1>1, GivenCpu DEF CpuTasks
<1>6. /\ Pieces' /\ processed' \in 0 .. requested
      /\ requested = processed' + Cardinality(Covered(Given)) + Cardinality(Unread')
      /\ Cardinality(Unread') \in Nat
  BY <1>1, <1>2, <1>3, <1>5, PiecesCount DEF IInv
<1>7. InHost'
  BY <1>1, <1>2, InHostSame DEF IInv
<1>8. CpuAsks'
  <2>1. IsFiniteSet(Asks(0))
    BY CpuCounts
  <2>2. \A i \in Nat \ {0} : i + 1 \in Reports => i \in Reports'
    BY <1>4
  <2>3. /\ CpuStarted' = CpuStarted /\ Unhashed' = Unhashed /\ Phase("report")' = Phase("report")
    BY <1>1 DEF CpuStarted, Unhashed, Phase
  <2>4. Asks(0) \subseteq Int /\ Asks(0)' \subseteq Int
        /\ Cardinality(Asks(0)') = Cardinality(Asks(0))
    BY <1>2, <1>4, <2>1, AsksRange, ShiftedNumbers
  <2>5. ASSUME NEW i \in Asks(0)' PROVE Phase("report")' # {} \/ \E j \in Reports' : j > i
    <3>1. i + 1 \in Asks(0) /\ i \in Nat \ {0}
      BY <1>2, <1>4, AsksRange
    <3>2. CASE \E j \in Reports : j > i + 1
      <4>1. PICK j \in Reports : j > i + 1
        BY <3>2
      <4>2. j \in Int
        BY <1>2, LenProperties, <4>1 DEF Reports
      <4>3. j - 1 \in Nat \ {0} /\ (j - 1) + 1 = j /\ j - 1 > i
        BY <3>1, <4>1, <4>2
      <4> QED BY <2>2, <4>1, <4>3
    <3> QED BY <2>3, <3>1, <3>2 DEF IInv, CpuAsks
  <2> QED BY <1>1, <2>3, <2>4, <2>5 DEF IInv, CpuAsks
<1>9. \A g \in Gpus : GpuAsks(g)'
  <2> SUFFICES ASSUME NEW g \in Gpus PROVE GpuAsks(g)'
    OBVIOUS
  <2>1. Asks(g)' \subseteq Int /\ \A i \in Int : i \in Asks(g)' => i + 1 \in Asks(g)
    BY <1>2, <1>4, AsksRange
  <2> QED BY <1>1, <1>2, <2>1, GpuAsksRead DEF IInv, Hashing
<1>10. /\ Todo \in Nat /\ requested \in Nat /\ requested <= Todo /\ Todo <= BufNonces
       /\ processed' \in Nat /\ processed' <= Todo
  <2>1. /\ Todo \in Nat /\ requested \in Nat /\ Todo <= BufNonces
        /\ requested <= Todo
    <3>1. requested <= Todo
      BY <1>2 DEF IInv, TypeOK, Hashing
    <3> QED BY <1>2, <3>1, ShareBounds
  <2> QED BY <1>6, <2>1
<1>11. TypeOK'
  <2>1. requested' \in 0 .. BufNonces /\ processed' \in 0 .. requested'
    BY <1>1, <1>6 DEF IInv, TypeOK
  <2>2. spc' \in {"kick", "loop"} => requested' <= Todo'
    BY <1>1, <1>2, <1>10
  <2>3. spc' \in {"recv", "kick", "loop", "send", "done"}
    BY <1>1
  <2> QED BY <1>1, <1>4, <2>1, <2>2, <2>3 DEF IInv, TypeOK, Msgs, bufferVars, writerVars
<1>12. CASE processed' # Todo
  <2>1. spc' = "loop" /\ Hashing' /\ processed' < Todo'
    BY <1>1, <1>2, <1>10, <1>12 DEF Hashing
  <2>2. Counters' /\ Between'
    BY <1>1, <1>2, <2>1 DEF IInv, Counters, Between
  <2> QED BY <1>1, <1>2, <1>6, <1>7, <1>8, <1>9, <1>11, <2>1, <2>2, BuffersStay DEF IInv
<1>13. CASE processed' = Todo
  <2>1. spc' = "send" /\ ~Hashing'
    BY <1>1, <1>13 DEF Hashing
  <2>2. requested = Todo /\ Cardinality(Covered(Given)) = 0 /\ Cardinality(Unread') = 0
    <3> DEFINE c == Cardinality(Covered(Given))
               u == Cardinality(Unread')
               t == Todo
    <3>1. /\ c \in Nat /\ u \in Nat /\ t \in Nat /\ requested \in Nat /\ requested <= t
          /\ requested = t + c + u
      BY <1>2, <1>6, <1>10, <1>13, CoveredBound DEF IInv
    <3> HIDE DEF c, u, t
    <3>2. requested = t /\ c = 0 /\ u = 0
      BY <3>1
    <3> QED BY <3>2 DEF c, u, t
  <2>3. /\ SlotsInFlight = {} /\ cpu = {}
        /\ \A g \in Gpus : /\ gpu[g].pc = "recv" /\ gpu[g].first_run
                           /\ inbox[g] = <<>> /\ Asks(g) = {}
    BY <1>2, <2>2, NothingGiven
  <2>4. Reports' = {}
    <3>1. IsFiniteSet(Unread') /\ \A i \in Reports' : rx'[i].n > 0 /\ rx'[i].n \in Nat
      <4>1. \A i \in Reports' : rx'[i] \in Msgs
        BY <1>4, LenProperties DEF Reports
      <4>2. rx[1].kind = "done"
        BY <1>1, <1>3
      <4>3. IsFiniteSet(Unread') /\ \A i \in Reports' : rx'[i] = rx[i + 1]
        BY <1>1, <1>2, <4>2, ReadDone
      <4>4. \A i \in Reports' : i \in Int
        BY <1>4, LenProperties DEF Reports
      <4>5. \A i \in Reports' : rx[i + 1].n > 0
        BY <1>2, <1>4, <4>4 DEF IInv, Pieces
      <4> QED BY <4>1, <4>3, <4>5 DEF Msgs
    <3>2. Unread' = {}
      BY <2>2, <3>1, FS_EmptySet
    <3>3. ASSUME NEW i \in Reports' PROVE FALSE
      <4> DEFINE N(k) == rx'[k].n
      <4>1. Unread' = UNION {{k} \X (1 .. N(k)) : k \in Reports'}
        BY DEF Unread
      <4>2. 1 \in 1 .. N(i)
        BY <3>1
      <4> HIDE DEF N
      <4>3. <<i, 1>> \in Unread'
        BY <4>1, <4>2
      <4> QED BY <3>2, <4>3
    <3> QED BY <3>3
  <2>5. \A d \in 0 .. NumGpus : Asks(d)' = {}
    <3>1. Asks(0)' = {}
      BY <1>1, <1>8, <2>3, <2>4 DEF CpuAsks, Phase
    <3>2. ASSUME NEW g \in Gpus PROVE Asks(g)' = {}
      BY <1>2, <1>4, <2>3, AsksRange
    <3> QED BY <3>1, <3>2, SchedulerAssumption DEF Gpus
  <2>6. rx' = <<>>
    <3>1. \A i \in DOMAIN rx' : rx'[i] \in Msgs
      BY <1>4, LenProperties
    <3>2. \A i \in DOMAIN rx' : \A d : d = rx'[i].dev => i \in Reports' \/ i \in Asks(d)'
      BY <3>1 DEF Reports, Asks, Msgs
    <3>3. \A i \in DOMAIN rx' : FALSE
      <4> SUFFICES ASSUME NEW i \in DOMAIN rx', NEW d, d = rx'[i].dev PROVE FALSE
        OBVIOUS
      <4>1. d \in 0 .. NumGpus
        BY <3>1 DEF Msgs
      <4> QED BY <2>4, <2>5, <3>2, <4>1
    <3>4. Len(rx') \in Nat /\ DOMAIN rx' = 1 .. Len(rx')
      BY <1>4, LenProperties
    <3> DEFINE k == Len(rx')
    <3>5. k = 0
      <4>1. k \in Nat /\ ~(1 \in 1 .. k)
        BY <3>3, <3>4
      <4> HIDE DEF k
      <4> QED BY <4>1
    <3> QED BY <1>4, <3>5, EmptySeq
  <2>7. Between'
    BY <1>1, <2>1, <2>3, <2>6 DEF Between
  <2>8. Counters'
    <3>1. \A i \in 0 .. Todo - 1 : cache[buf][i] = nonces_hashed + i
      BY <1>2, <2>2, <2>3 DEF IInv, Pieces
    <3> QED BY <1>1, <1>2, <2>1, <3>1 DEF IInv, Counters
  <2> QED BY <1>1, <1>2, <1>6, <1>7, <1>8, <1>9, <1>11, <2>1, <2>7, <2>8, BuffersStay DEF IInv
<1> QED BY <1>12, <1>13

-----------------------------------------------------------------------------
(* The scheduler thread: taking a buffer and giving it away.               *)

\* Between two buffers the invariants about the devices say that all are idle.
LEMMA IdleDevices ==
  ASSUME IInv, ~Hashing
  PROVE  /\ rx = <<>> /\ cpu = {} /\ Reports = {} /\ Unread = {} /\ \A d : Asks(d) = {}
         /\ \A g \in Gpus : /\ gpu[g].first_run /\ gpu[g].buffer_id = 0
                            /\ gpu[g].pc = "recv" \/ (spc = "done" /\ gpu[g].pc = "end")
                            /\ inbox[g] = <<>> \/ (spc = "done" /\ inbox[g] = <<None>>)
<1>1. /\ rx = <<>> /\ cpu = {}
      /\ \A g \in Gpus : /\ gpu[g].first_run
                         /\ gpu[g].pc = "recv" \/ (spc = "done" /\ gpu[g].pc = "end")
                         /\ inbox[g] = <<>> \/ (spc = "done" /\ inbox[g] = <<None>>)
  BY DEF IInv, Between
<1>2. \A g \in Gpus : gpu[g].buffer_id = 0
  BY <1>1 DEF IInv, GpuAsks
<1>3. Reports = {} /\ \A d : Asks(d) = {}
  BY <1>1 DEF Reports, Asks
<1>4. Unread = {}
  BY <1>3 DEF Unread
<1> QED BY <1>1, <1>2, <1>3, <1>4

LEMMA TakeBufferKeeps ==
  ASSUME IInv, TakeBuffer, UNCHANGED writerVars
  PROVE  IInv'
<1>1. /\ spc = "recv" /\ spc' = "kick" /\ empty_buffers # <<>>
      /\ buf' = Head(empty_buffers) /\ empty_buffers' = Tail(empty_buffers)
      /\ requested' = 0 /\ processed' = 0 /\ kick' = 1
      /\ UNCHANGED <<full_buffers, cache, nonces_hashed, rx, cpu, gpu, inbox, writerVars>>
  BY DEF TakeBuffer
<1>2. ~Hashing /\ Hashing'
  BY <1>1 DEF Hashing
<1>3. /\ rx = <<>> /\ cpu = {} /\ Reports = {} /\ Unread = {} /\ \A d : Asks(d) = {}
      /\ \A g \in Gpus : /\ gpu[g].first_run /\ gpu[g].buffer_id = 0 /\ gpu[g].pc = "recv"
                         /\ inbox[g] = <<>>
  BY <1>1, <1>2, IdleDevices
<1>4. Unread' = {} /\ Reports' = {} /\ \A d : Asks(d)' = {}
  BY <1>1, <1>3, MessagesSame
<1>5. Given' = {} /\ SlotsInFlight' = {}
  <2>1. ASSUME NEW p \in Given' PROVE FALSE
    <3>1. p = <<p[1], p[2]>>
      BY GivenPairsNext
    <3> DEFINE d == p[1]
               t == p[2]
    <3>2. d \in Gpus /\ t \in GpuTasks(d)'
      <4> HIDE DEF d, t
      <4>1. <<d, t>> \in Given'
        BY <3>1 DEF d, t
      <4> QED BY <1>1, <1>3, <4>1, GivenPairsNext
    <3> HIDE DEF d, t
    <3>3. inbox'[d] = <<>> /\ gpu'[d].first_run /\ gpu'[d].pc = "recv"
      BY <1>1, <1>3, <3>2
    <3> QED BY <3>2, <3>3 DEF GpuTasks
  <2>2. Given' = {}
    BY <2>1
  <2> QED BY <2>2, InFlightGiven DEF Covered
<1>6. Pieces'
  <2>1. Cardinality({}) = 0 /\ IsFiniteSet({})
    BY FS_EmptySet
  <2> QED BY <1>1, <1>4, <1>5, <2>1 DEF Pieces
<1>7. InHost'
  BY <1>1, <1>3 DEF InHost
<1>8. CpuAsks'
  <2>1. Unhashed' = {} /\ cpu' = {}
    BY <1>1, <1>3 DEF Unhashed, Phase
  <2>2. Cardinality({}) = 0 /\ IsFiniteSet({})
    BY FS_EmptySet
  <2>3. CpuStarted' = 0
    BY <1>1, SchedulerAssumption DEF CpuStarted
  <2> QED BY <1>4, <2>1, <2>2, <2>3 DEF CpuAsks
<1>9. \A g \in Gpus : GpuAsks(g)'
  BY <1>1, <1>3, <1>4 DEF GpuAsks
<1>10. /\ buf' = empty_buffers[1] /\ buf' \in Buffers /\ empty_buffers' \in Seq(Buffers)
       /\ DOMAIN empty_buffers' = 1 .. Len(empty_buffers) - 1 /\ Len(empty_buffers) \in Nat \ {0}
       /\ \A i \in 1 .. Len(empty_buffers) - 1 : empty_buffers'[i] = empty_buffers[i + 1]
       /\ DOMAIN empty_buffers = 1 .. Len(empty_buffers)
  <2> DEFINE e == empty_buffers
             n == Len(e)
  <2>1. e \in Seq(Buffers) /\ e # <<>>
    BY <1>1 DEF IInv, TypeOK
  <2>2. n \in Nat \ {0} /\ DOMAIN e = 1 .. n /\ e[1] \in Buffers
    BY <2>1, EmptySeq, LenProperties, ElementOfSeq
  <2>3. /\ Head(e) = e[1] /\ Tail(e) \in Seq(Buffers) /\ Len(Tail(e)) = n - 1
        /\ \A i \in 1 .. n - 1 : Tail(e)[i] = e[i + 1]
    BY <2>1, <2>2, HeadTailProperties
  <2>4. DOMAIN Tail(e) = 1 .. n - 1
    BY <2>3, LenProperties
  <2> QED BY <1>1, <2>2, <2>3, <2>4
<1>11. TypeOK'
  <2>1. buf' \in 0 .. NumBuffers
    BY <1>10, SchedulerAssumption DEF Buffers
  <2>2. 0 <= Todo'
    BY <1>1, SchedulerAssumption DEF Todo, Smaller, IInv, TypeOK
  <2>3. kick' \in 1 .. NumGpus + CpuThreads + 1 /\ requested' \in 0 .. BufNonces
        /\ processed' \in 0 .. requested'
    BY <1>1, SchedulerAssumption
  <2> QED BY <1>1, <1>10, <2>1, <2>2, <2>3 DEF IInv, TypeOK, writerVars
<1>12. Counters' /\ Between'
  BY <1>1, <1>2, <1>10 DEF IInv, Counters, Between
<1>13. Held' = Held
  BY <1>1 DEF Held, writerVars
<1>14. Owned'
  <2> DEFINE e == empty_buffers
             n == Len(e)
             e1 == empty_buffers'
  <2>1. /\ n \in Nat \ {0} /\ DOMAIN e = 1 .. n /\ DOMAIN e1 = 1 .. n - 1
        /\ \A i \in 1 .. n - 1 : e1[i] = e[i + 1]
        /\ \A i, j \in 1 .. n : e[i] = e[j] => i = j
        /\ \A i \in 1 .. n, j \in DOMAIN Held : e[i] # Held[j]
    BY <1>10 DEF IInv, Owned
  <2> HIDE DEF e, n, e1
  <2>2. ASSUME NEW i \in DOMAIN e1 PROVE e1[i] = e[i + 1] /\ i + 1 \in 1 .. n /\ i + 1 # 1
    BY <2>1
  <2>3. \A i, j \in DOMAIN e1 : e1[i] = e1[j] => i = j
    <3> SUFFICES ASSUME NEW i \in DOMAIN e1, NEW j \in DOMAIN e1, e1[i] = e1[j] PROVE i = j
      OBVIOUS
    <3>1. i + 1 = j + 1
      BY <2>1, <2>2
    <3>2. i \in Int /\ j \in Int
      BY <2>1
    <3> QED BY <3>1, <3>2
  <2>4. \A i \in DOMAIN e1 : e1[i] # e[1]
    BY <2>1, <2>2
  <2>5. \A i \in DOMAIN e1, j \in DOMAIN Held : e1[i] # Held[j]
    BY <2>1, <2>2
  <2>6. \A i \in DOMAIN Held : Held[i] # e[1]
    BY <2>1
  <2> QED BY <1>10, <1>13, <2>3, <2>4, <2>5, <2>6 DEF e, e1, IInv, Owned
<1>15. Queue'
  BY <1>1, <1>13 DEF IInv, Queue, Holds, writerVars
<1> QED BY <1>6, <1>7, <1>8, <1>9, <1>11, <1>12, <1>14, <1>15 DEF IInv

\* The buffer that is given away joins what the writer has.
LEMMA HeldAppend ==
  ASSUME TypeOK, buf \in Buffers, full_buffers' = Append(full_buffers, buf), UNCHANGED wbuf
  PROVE  /\ full_buffers' \in Seq(Buffers) /\ Len(Held') = Len(Held) + 1
         /\ DOMAIN Held' = 1 .. Len(Held) + 1 /\ Held'[Len(Held) + 1] = buf
         /\ \A i \in 1 .. Len(Held) : Held'[i] = Held[i]
<1>1. full_buffers \in Seq(Buffers)
  BY DEF TypeOK
<1>2. full_buffers' \in Seq(Buffers)
  BY <1>1, AppendProperties
<1>3. Held' = Append(Held, buf)
  <2>1. CASE wbuf = 0
    BY <2>1 DEF Held
  <2>2. CASE wbuf # 0
    <3>1. <<wbuf>> \in Seq(Buffers) /\ <<buf>> \in Seq(Buffers)
      BY <2>2, HeldSeq
    <3>2. full_buffers' = full_buffers \o <<buf>>
      BY <1>1, AppendIsConcat
    <3>3. Held' = <<wbuf>> \o (full_buffers \o <<buf>>)
      BY <2>2, <3>2 DEF Held
    <3>4. Held' = (<<wbuf>> \o full_buffers) \o <<buf>>
      BY <1>1, <3>1, <3>3, ConcatAssociative
    <3>5. Held = <<wbuf>> \o full_buffers /\ Held \in Seq(Buffers)
      BY <2>2, HeldSeq
    <3> QED BY <3>4, <3>5, AppendIsConcat
  <2> QED BY <2>1, <2>2
<1>4. Held \in Seq(Buffers)
  BY HeldSeq
<1> DEFINE h == Held
           k == Held'
<1>5. /\ k \in Seq(Buffers) /\ Len(k) = Len(h) + 1 /\ k[Len(h) + 1] = buf
      /\ \A i \in 1 .. Len(h) : k[i] = h[i]
  <2> HIDE DEF h, k
  <2>1. k = Append(h, buf) /\ h \in Seq(Buffers)
    BY <1>3, <1>4 DEF h, k
  <2> QED BY <2>1, AppendProperties
<1> HIDE DEF h, k
<1>6. DOMAIN k = 1 .. Len(h) + 1
  BY <1>5, LenProperties
<1> QED BY <1>2, <1>5, <1>6 DEF h, k

LEMMA SendBufferKeeps ==
  ASSUME IInv, SendBuffer, UNCHANGED writerVars
  PROVE  IInv'
<1>1. /\ spc = "send" /\ nonces_hashed' = nonces_hashed + Todo
      /\ full_buffers' = Append(full_buffers, buf)
      /\ nonces_hashed' = Nonces => inbox' = [g \in Gpus |-> Append(inbox[g], None)]
                                    /\ spc' = "done"
      /\ nonces_hashed' # Nonces => inbox' = inbox /\ spc' = "recv"
      /\ UNCHANGED <<empty_buffers, cache, buf, requested, processed, kick, rx, cpu, gpu>>
      /\ UNCHANGED <<wbuf, nonces_written>>
  BY DEF SendBuffer, writerVars
<1>2. ~Hashing /\ ~Hashing' /\ buf \in Buffers /\ nonces_hashed < Nonces
  <2>1. nonces_hashed # Nonces /\ buf \in Buffers
    BY <1>1 DEF IInv, Counters
  <2> QED BY <1>1, <2>1, SchedulerAssumption DEF Hashing, IInv, TypeOK
<1>3. /\ rx = <<>> /\ cpu = {} /\ Reports = {} /\ Unread = {} /\ \A d : Asks(d) = {}
      /\ \A g \in Gpus : /\ gpu[g].first_run /\ gpu[g].buffer_id = 0 /\ gpu[g].pc = "recv"
                         /\ inbox[g] = <<>>
  BY <1>1, <1>2, IdleDevices
<1>4. Unread' = {} /\ Reports' = {} /\ \A d : Asks(d)' = {}
  BY <1>1, <1>3, MessagesSame
<1>5. Pieces' /\ InHost'
  BY <1>2 DEF Pieces, InHost
<1>6. CpuAsks'
  <2>1. Unhashed' = {} /\ cpu' = {}
    BY <1>1, <1>3 DEF Unhashed, Phase
  <2>2. Cardinality({}) = 0 /\ IsFiniteSet({})
    BY FS_EmptySet
  <2>3. CpuStarted' = CpuThreads
    BY <1>1 DEF CpuStarted
  <2> QED BY <1>4, <2>1, <2>2, <2>3, SchedulerAssumption DEF CpuAsks
<1>7. /\ \A g \in Gpus : inbox'[g] = <<>> \/ (spc' = "done" /\ inbox'[g] = <<None>>)
      /\ inbox' \in [Gpus -> Seq(Task)]
  <2>1. Append(<<>>, None) = <<None>> /\ <<None>> \in Seq(Task)
    BY SchedulerAssumption DEF None, Task
  <2>2. CASE nonces_hashed' = Nonces
    BY <1>1, <1>3, <2>1, <2>2
  <2>3. CASE nonces_hashed' # Nonces
    BY <1>1, <1>3, <2>3 DEF IInv, TypeOK
  <2> QED BY <2>2, <2>3
<1>8. \A g \in Gpus : GpuAsks(g)'
  <2> SUFFICES ASSUME NEW g \in Gpus PROVE GpuAsks(g)'
    OBVIOUS
  <2>1. Len(inbox'[g]) <= 1
    <3>1. \A s : s = <<>> => Len(s) <= 1
      OBVIOUS
    <3>2. \A s : s = <<None>> => Len(s) <= 1
      OBVIOUS
    <3> QED BY <1>7, <3>1, <3>2
  <2>2. gpu'[g].first_run /\ gpu'[g].pc = "recv" /\ gpu'[g].buffer_id = 0 /\ Asks(g)' = {}
    BY <1>1, <1>3, <1>4
  <2>3. spc' # "kick"
    BY <1>1
  <2> QED BY <1>2, <2>1, <2>2, <2>3 DEF GpuAsks
<1>9. Between'
  BY <1>1, <1>3, <1>7 DEF Between
<1>10. /\ Todo = Smaller(BufNonces, Nonces - nonces_hashed) /\ Todo \in Nat
       /\ nonces_hashed' \in Progress .. Nonces /\ nonces_hashed <= nonces_hashed'
       /\ nonces_hashed \in Nat /\ nonces_written \in Nat /\ nonces_written <= nonces_hashed
       /\ BufNonces \in Nat \ {0} /\ Nonces \in Nat /\ Progress <= nonces_written
  <2>1. /\ nonces_hashed \in Nat /\ Nonces \in Nat /\ BufNonces \in Nat \ {0} /\ Progress \in Nat
        /\ Progress <= nonces_hashed /\ nonces_written \in Progress .. nonces_hashed
    BY SchedulerAssumption DEF IInv, TypeOK
  <2>2. Todo \in Nat /\ Todo <= Nonces - nonces_hashed
    BY <1>2, <2>1 DEF Todo, Smaller
  <2> QED BY <1>1, <2>1, <2>2 DEF Todo
<1>11. Counters'
  BY <1>1, <1>2 DEF Counters
<1>12. /\ full_buffers' \in Seq(Buffers) /\ Len(Held') = Len(Held) + 1
       /\ DOMAIN Held' = 1 .. Len(Held) + 1 /\ Held'[Len(Held) + 1] = buf
       /\ \A i \in 1 .. Len(Held) : Held'[i] = Held[i]
       /\ DOMAIN Held = 1 .. Len(Held) /\ Len(Held) \in Nat
  BY <1>1, <1>2, HeldAppend, HeldSeq DEF IInv
<1>13. TypeOK'
  <2>1. nonces_written' \in Progress .. nonces_hashed'
    BY <1>1, <1>10, SchedulerAssumption DEF IInv, TypeOK
  <2>2. spc' \in {"recv", "done"}
    BY <1>1
  <2> QED BY <1>1, <1>7, <1>10, <1>12, <2>1, <2>2 DEF IInv, TypeOK
<1> DEFINE h == Held
           k == Held'
           m == Len(h)
<1>14. /\ m \in Nat /\ Len(k) = m + 1 /\ DOMAIN k = 1 .. m + 1 /\ DOMAIN h = 1 .. m
       /\ k[m + 1] = buf /\ \A i \in 1 .. m : k[i] = h[i]
       /\ \A i, j \in 1 .. m : h[i] = h[j] => i = j
       /\ \A i \in DOMAIN empty_buffers, j \in 1 .. m : empty_buffers[i] # h[j]
       /\ \A i \in DOMAIN empty_buffers : empty_buffers[i] # buf
       /\ \A i \in 1 .. m : h[i] # buf
       /\ \A i \in 1 .. m : h[i] \in Buffers
  BY <1>1, <1>12, HeldSeq DEF IInv, Owned
<1>15. Owned'
  <2> HIDE DEF h, k, m
  <2>1. \A i, j \in DOMAIN k : k[i] = k[j] => i = j
    <3>1. \A i \in DOMAIN k : i \in 1 .. m \/ i = m + 1
      BY <1>14
    <3> QED BY <1>14, <3>1
  <2>2. \A i \in DOMAIN empty_buffers, j \in DOMAIN k : empty_buffers[i] # k[j]
    <3>1. \A i \in DOMAIN k : i \in 1 .. m \/ i = m + 1
      BY <1>14
    <3> QED BY <1>14, <3>1
  <2>3. \A i, j \in DOMAIN empty_buffers : empty_buffers[i] = empty_buffers[j] => i = j
    BY DEF IInv, Owned
  <2> QED BY <1>1, <2>1, <2>2, <2>3 DEF Owned, k
<1>16. m <= 1
  <2> HIDE DEF h, k, m
  <2> SUFFICES ASSUME m >= 2 PROVE FALSE
    BY <1>14
  <2>1. 1 \in 1 .. m /\ 2 \in 1 .. m
    BY <1>14
  <2>2. h[1] # h[2] /\ h[1] # buf /\ h[2] # buf /\ h[1] \in Buffers /\ h[2] \in Buffers
    BY <1>14, <2>1
  <2> QED BY <1>2, <2>2, SchedulerAssumption DEF Buffers
<1>17. \A i \in 0 .. Todo - 1 : cache[buf][i] = nonces_hashed + i
  BY <1>1 DEF IInv, Counters
<1> DEFINE w == nonces_written
           v == nonces_hashed
           B == BufNonces
<1>18. /\ m = 0 => v = w
       /\ m = 1 => v = Smaller(w + B, Nonces) /\ w < Nonces /\ Holds(h[1], w)
  BY DEF IInv, Queue
<1>19. /\ v \in Nat /\ w \in Nat /\ w <= v /\ v < Nonces /\ B \in Nat \ {0} /\ Nonces \in Nat
       /\ v' = v + Smaller(B, Nonces - v)
  BY <1>1, <1>2, <1>10
<1>20. Holds(buf, v)
  BY <1>17 DEF Holds, Todo
<1>21. ASSUME m = 0 PROVE Queue'
  <2> HIDE DEF m, w, v, B
  <2>1. v = w /\ v' = Smaller(w + B, Nonces) /\ w < Nonces
    BY <1>18, <1>19, <1>21 DEF Smaller
  <2>2. Len(k) = 1 /\ k[1] = buf /\ Holds(buf, w)
    BY <1>14, <1>20, <1>21, <2>1
  <2> QED BY <1>1, <2>1, <2>2 DEF Queue, Holds, m, w, v, B
<1>22. ASSUME m = 1 PROVE Queue'
  <2> HIDE DEF m, w, v, B
  <2>1. v = w + B /\ v' = Smaller(w + 2 * B, Nonces) /\ w + B < Nonces /\ w < Nonces
    BY <1>18, <1>19, <1>22 DEF Smaller
  <2>2. Len(k) = 2 /\ k[2] = buf /\ k[1] = h[1] /\ Holds(buf, w + B) /\ Holds(h[1], w)
    BY <1>14, <1>18, <1>20, <1>22, <2>1
  <2> QED BY <1>1, <2>1, <2>2 DEF Queue, Holds, m, w, v, B
<1>23. Queue'
  <2> HIDE DEF m
  <2>1. m = 0 \/ m = 1
    BY <1>14, <1>16
  <2> QED BY <1>21, <1>22, <2>1
<1> QED BY <1>5, <1>6, <1>8, <1>9, <1>11, <1>13, <1>15, <1>23 DEF IInv

-----------------------------------------------------------------------------
(* The writer, and the whole.                                              *)

\* What the writer does, or nobody does anything.
LEMMA WriterRest ==
  ASSUME IInv, UNCHANGED <<cache, schedVars, rx, cpu, gpu, inbox>>
  PROVE  /\ Counters' /\ Pieces' /\ InHost' /\ CpuAsks' /\ (\A g \in Gpus : GpuAsks(g)')
         /\ Between'
<1> USE DEF schedVars
<1>1. Unread' = Unread /\ Reports' = Reports /\ \A d : Asks(d)' = Asks(d)
  BY MessagesSame
<1>2. Given' = Given
  BY GivenCpu DEF CpuTasks
<1>3. Pieces'
  <2>1. CASE Hashing
    BY <1>1, <1>2, <2>1, PiecesMove DEF IInv, Pieces
  <2>2. CASE ~Hashing
    BY <2>2 DEF Pieces, Hashing
  <2> QED BY <2>1, <2>2
<1>4. InHost'
  BY DEF IInv, InHost, OnCache, Hashing
<1>5. CpuAsks'
  BY <1>1, CpuAsksSame DEF IInv
<1>6. \A g \in Gpus : GpuAsks(g)'
  BY <1>1, GpuAsksSame DEF IInv, Hashing
<1>7. Between' /\ Counters'
  BY DEF IInv, Between, Hashing, Counters, Todo
<1> QED BY <1>3, <1>4, <1>5, <1>6, <1>7

LEMMA WriterTakeKeeps ==
  ASSUME IInv, WriterTake, UNCHANGED <<cache, schedVars, rx, cpu, gpu, inbox>>
  PROVE  IInv'
<1>1. /\ wbuf = 0 /\ full_buffers # <<>> /\ wbuf' = Head(full_buffers)
      /\ full_buffers' = Tail(full_buffers) /\ UNCHANGED <<empty_buffers, nonces_written>>
  BY DEF WriterTake
<1>2. full_buffers \in Seq(Buffers)
  BY DEF IInv, TypeOK
<1>3. wbuf' \in Buffers /\ full_buffers' \in Seq(Buffers)
  <2>1. Head(full_buffers) = full_buffers[1] /\ Tail(full_buffers) \in Seq(Buffers)
    BY <1>1, <1>2, HeadTailProperties
  <2>2. full_buffers[1] \in Buffers
    BY <1>1, <1>2, EmptySeq, ElementOfSeq
  <2> QED BY <1>1, <2>1, <2>2
<1>4. wbuf' # 0 /\ wbuf' \in 0 .. NumBuffers
  BY <1>3, SchedulerAssumption DEF Buffers
<1>5. Held' = Held
  <2>1. full_buffers = <<Head(full_buffers)>> \o Tail(full_buffers)
    BY <1>1, <1>2
  <2> QED BY <1>1, <1>4, <2>1 DEF Held
<1>6. TypeOK'
  BY <1>1, <1>3, <1>4 DEF IInv, TypeOK, Todo, schedVars
<1>7. Owned'
  BY <1>1, <1>5 DEF IInv, Owned, schedVars
<1>8. Queue'
  BY <1>1, <1>5 DEF IInv, Queue, Holds, schedVars
<1> QED BY <1>6, <1>7, <1>8, WriterRest DEF IInv

LEMMA WriterReturnKeeps ==
  ASSUME IInv, WriterReturn, UNCHANGED <<cache, schedVars, rx, cpu, gpu, inbox>>
  PROVE  IInv'
<1> DEFINE e == empty_buffers
           e1 == empty_buffers'
           n == Len(e)
           h == Held
           k == Held'
           m == Len(k)
           w == nonces_written
           v == nonces_hashed
           B == BufNonces
<1>1. /\ wbuf # 0 /\ e1 = Append(e, wbuf)
      /\ nonces_written' = w + Smaller(B, Nonces - w)
      /\ wbuf' = 0 /\ full_buffers' = full_buffers
  BY DEF WriterReturn
<1>2. /\ wbuf \in Buffers /\ k = full_buffers /\ Len(h) = m + 1 /\ h[1] = wbuf
      /\ \A i \in 1 .. m : h[i + 1] = k[i]
      /\ DOMAIN h = 1 .. m + 1 /\ DOMAIN k = 1 .. m /\ m \in Nat
  <2>1. k = full_buffers /\ full_buffers \in Seq(Buffers)
    BY <1>1 DEF Held, IInv, TypeOK
  <2>2. DOMAIN full_buffers = 1 .. Len(full_buffers) /\ Len(full_buffers) \in Nat
    BY <2>1, LenProperties
  <2> QED BY <1>1, <2>1, <2>2, HeldSeq DEF IInv
<1>3. /\ e1 \in Seq(Buffers) /\ n \in Nat /\ DOMAIN e = 1 .. n /\ DOMAIN e1 = 1 .. n + 1
      /\ e1[n + 1] = wbuf /\ \A i \in 1 .. n : e1[i] = e[i]
  <2>1. e \in Seq(Buffers)
    BY DEF IInv, TypeOK
  <2> HIDE DEF e, e1
  <2>2. /\ e1 \in Seq(Buffers) /\ Len(e1) = Len(e) + 1 /\ e1[Len(e) + 1] = wbuf
        /\ \A i \in 1 .. Len(e) : e1[i] = e[i]
    BY <1>1, <1>2, <2>1, AppendProperties
  <2>3. DOMAIN e1 = 1 .. Len(e) + 1 /\ DOMAIN e = 1 .. Len(e) /\ Len(e) \in Nat
    BY <2>1, <2>2, LenProperties
  <2> QED BY <2>2, <2>3
<1>4. /\ \A i, j \in 1 .. n : e[i] = e[j] => i = j
      /\ \A i, j \in 1 .. m + 1 : h[i] = h[j] => i = j
      /\ \A i \in 1 .. n, j \in 1 .. m + 1 : e[i] # h[j]
      /\ spc \in {"kick", "loop", "send"} =>
           /\ \A i \in 1 .. n : e[i] # buf
           /\ \A i \in 1 .. m + 1 : h[i] # buf
  BY <1>2, <1>3 DEF IInv, Owned
<1>5. Owned'
  <2> HIDE DEF e, e1, n, h, k, m
  <2>1. \A i \in 1 .. m : i + 1 \in 1 .. m + 1 /\ k[i] = h[i + 1] /\ k[i] # wbuf
    <3> SUFFICES ASSUME NEW i \in 1 .. m
                 PROVE  i + 1 \in 1 .. m + 1 /\ k[i] = h[i + 1] /\ k[i] # wbuf
      OBVIOUS
    <3>1. i + 1 \in 1 .. m + 1 /\ 1 \in 1 .. m + 1 /\ i + 1 # 1 /\ k[i] = h[i + 1]
      BY <1>2
    <3> QED BY <1>2, <1>4, <3>1
  <2>2. \A i \in 1 .. n + 1 : i \in 1 .. n \/ i = n + 1
    BY <1>3
  <2>3. \A i \in 1 .. n : e[i] # wbuf
    BY <1>2, <1>4, 1 \in 1 .. m + 1
  <2>4. \A i, j \in 1 .. n + 1 : e1[i] = e1[j] => i = j
    BY <1>3, <1>4, <2>2, <2>3
  <2>5. \A i, j \in 1 .. m : k[i] = k[j] => i = j
    <3> SUFFICES ASSUME NEW i \in 1 .. m, NEW j \in 1 .. m, k[i] = k[j] PROVE i = j
      OBVIOUS
    <3>1. i + 1 = j + 1
      BY <1>4, <2>1
    <3> QED BY <1>2, <3>1
  <2>6. \A i \in 1 .. n + 1, j \in 1 .. m : e1[i] # k[j]
    BY <1>3, <1>4, <2>1, <2>2
  <2>7. spc \in {"kick", "loop", "send"} =>
          /\ \A i \in 1 .. n + 1 : e1[i] # buf
          /\ \A i \in 1 .. m : k[i] # buf
    BY <1>2, <1>3, <1>4, <2>1, <2>2, 1 \in 1 .. m + 1
  <2> QED BY <1>2, <1>3, <2>4, <2>5, <2>6, <2>7 DEF Owned, schedVars, e1, k
<1>6. /\ v \in Nat /\ w \in Nat /\ w <= v /\ v <= Nonces /\ B \in Nat \ {0} /\ Nonces \in Nat
      /\ Progress \in Nat /\ Progress <= w
  BY SchedulerAssumption DEF IInv, TypeOK
<1>7. /\ m + 1 = 1 => v = Smaller(w + B, Nonces)
      /\ m + 1 = 2 => v = Smaller(w + 2 * B, Nonces)
      /\ w < Nonces
      /\ m + 1 >= 2 => w + B < Nonces /\ Holds(h[2], w + B)
      /\ m + 1 <= 2
  <2>1. m + 1 >= 1
    BY <1>2
  <2>2. Len(h) = m + 1
    BY <1>2
  <2> HIDE DEF h, m
  <2> QED BY <2>1, <2>2 DEF IInv, Queue, h
<1>8. Queue' /\ nonces_written' <= v /\ nonces_written' \in Nat /\ w <= nonces_written'
  <2> HIDE DEF h, m, v, w, B
  <2>1. CASE m = 0
    <3>1. nonces_written' = v /\ v >= w
      BY <1>1, <1>6, <1>7, <2>1 DEF Smaller
    <3> QED BY <1>6, <2>1, <3>1 DEF Queue, schedVars, m, v
  <2>2. CASE m = 1
    <3>1. /\ nonces_written' = w + B /\ v = Smaller(nonces_written' + B, Nonces)
          /\ nonces_written' < Nonces /\ nonces_written' <= v
          /\ nonces_written' \in Nat /\ w <= nonces_written'
      BY <1>1, <1>6, <1>7, <2>2 DEF Smaller
    <3>2. Holds(k[1], nonces_written')
      BY <1>2, <1>7, <2>2, <3>1
    <3> QED BY <2>2, <3>1, <3>2 DEF Queue, Holds, schedVars, m, v, B
  <2>3. m = 0 \/ m = 1
    BY <1>2, <1>7
  <2> QED BY <2>1, <2>2, <2>3
<1>9. TypeOK'
  <2>1. nonces_written' \in Progress .. nonces_hashed'
    BY <1>6, <1>8 DEF schedVars
  <2>2. wbuf' \in 0 .. NumBuffers
    BY <1>1, SchedulerAssumption
  <2> QED BY <1>1, <1>3, <2>1, <2>2 DEF IInv, TypeOK, Todo, schedVars
<1> QED BY <1>5, <1>8, <1>9, WriterRest DEF IInv

LEMMA StutterKeeps ==
  ASSUME IInv, UNCHANGED vars
  PROVE  IInv'
<1> USE DEF vars, bufferVars, schedVars, writerVars
<1>1. Held' = Held
  BY DEF Held
<1>2. TypeOK'
  BY DEF IInv, TypeOK, Todo
<1>3. Owned'
  BY <1>1 DEF IInv, Owned
<1>4. Queue'
  BY <1>1 DEF IInv, Queue, Holds
<1> QED BY <1>2, <1>3, <1>4, WriterRest DEF IInv

LEMMA InitIInv ==
  ASSUME Init
  PROVE  IInv
<1>1. /\ empty_buffers = [i \in 1 .. NumBuffers |-> i] /\ full_buffers = <<>>
      /\ cache = [b \in Buffers |-> [i \in Slots |-> NoNonce]]
      /\ spc = "recv" /\ buf = 0 /\ nonces_hashed = Progress
      /\ requested = 0 /\ processed = 0 /\ kick = 1 /\ rx = <<>> /\ cpu = {}
      /\ gpu = [g \in Gpus |-> GpuIdle] /\ inbox = [g \in Gpus |-> <<>>]
      /\ wbuf = 0 /\ nonces_written = Progress
  BY DEF Init
<1>2. None \in Task
  BY SchedulerAssumption DEF None, Task
<1>3. /\ GpuIdle \in GpuState /\ GpuIdle.pc = "recv" /\ GpuIdle.first_run
      /\ GpuIdle.buffer_id = 0
  BY <1>2 DEF GpuIdle, GpuState
<1>4. Reports = {} /\ Unread = {} /\ \A d : Asks(d) = {}
  <2>1. Reports = {} /\ \A d : Asks(d) = {}
    BY <1>1 DEF Reports, Asks
  <2> QED BY <2>1 DEF Unread
<1>5. ~Hashing
  BY <1>1 DEF Hashing
<1>6. TypeOK
  <2>1. empty_buffers \in Seq(Buffers)
    <3>1. NumBuffers \in Nat /\ empty_buffers \in [1 .. NumBuffers -> Buffers]
      BY <1>1, SchedulerAssumption DEF Buffers
    <3> QED BY <3>1, SeqDef
  <2>2. cache \in [Buffers -> [Slots -> Int]]
    BY <1>1 DEF NoNonce
  <2>3. gpu \in [Gpus -> GpuState] /\ inbox \in [Gpus -> Seq(Task)]
    <3>1. <<>> \in Seq(Task)
      OBVIOUS
    <3>2. inbox \in [Gpus -> Seq(Task)]
      BY <1>1, <3>1
    <3> HIDE DEF GpuState
    <3> QED BY <1>1, <1>3, <3>2
  <2>4. /\ full_buffers \in Seq(Buffers) /\ rx \in Seq(Msgs)
        /\ cpu \subseteq [task : Task, phase : {"queued", "hash", "report"}]
    BY <1>1
  <2>5. /\ nonces_hashed \in Progress .. Nonces /\ requested \in 0 .. BufNonces
        /\ processed \in 0 .. requested /\ buf \in 0 .. NumBuffers
        /\ kick \in 1 .. NumGpus + CpuThreads + 1
        /\ wbuf \in 0 .. NumBuffers /\ nonces_written \in Progress .. nonces_hashed
    BY <1>1, SchedulerAssumption
  <2> QED BY <1>1, <2>1, <2>2, <2>3, <2>4, <2>5 DEF TypeOK, Msgs
<1>7. Counters
  BY <1>1, SchedulerAssumption DEF Counters
<1>8. Pieces /\ InHost
  BY <1>5 DEF Pieces, InHost
<1>9. CpuAsks
  <2>1. Unhashed = {} /\ Cardinality({}) = 0 /\ IsFiniteSet({})
    BY <1>1, FS_EmptySet DEF Unhashed, Phase
  <2>2. CpuStarted = CpuThreads
    BY <1>1 DEF CpuStarted
  <2>3. Asks(0) = {} /\ CpuThreads \in Nat
    BY <1>4, SchedulerAssumption
  <2>4. Cardinality(Unhashed) + Cardinality(Asks(0)) <= CpuStarted
    BY <2>1, <2>2, <2>3
  <2> QED BY <1>1, <2>1, <2>3, <2>4 DEF CpuAsks
<1>10. \A g \in Gpus : GpuAsks(g)
  <2> SUFFICES ASSUME NEW g \in Gpus PROVE GpuAsks(g)
    OBVIOUS
  <2>1. gpu[g].pc = "recv" /\ gpu[g].first_run /\ gpu[g].buffer_id = 0 /\ inbox[g] = <<>>
    BY <1>1, <1>3
  <2>2. Len(inbox[g]) = 0
    BY <2>1
  <2> QED BY <1>1, <1>4, <1>5, <2>1, <2>2 DEF GpuAsks
<1>11. Between
  BY <1>1, <1>3 DEF Between
<1>12. Held = <<>> /\ Len(Held) = 0 /\ DOMAIN Held = {}
  BY <1>1 DEF Held
<1>13. Owned
  BY <1>1, <1>12 DEF Owned
<1>14. Queue
  BY <1>1, <1>12 DEF Queue
<1> QED BY <1>6, <1>7, <1>8, <1>9, <1>10, <1>11, <1>13, <1>14 DEF IInv

LEMMA NextKeeps ==
  ASSUME IInv, [Next]_vars
  PROVE  IInv'
<1>1. CASE SchedulerStep
  BY <1>1, TakeBufferKeeps, KickGpuKeeps, KickCpuKeeps, KickEndsKeeps, ServeCpuKeeps,
     ServeGpuKeeps, CountDoneKeeps, SendBufferKeeps DEF SchedulerStep
<1>2. CASE (\E c \in cpu : CpuStep(c)) \/ (\E g \in Gpus : GpuStep(g))
  BY <1>2, DeviceKeeps
<1>3. CASE WriterStep
  BY <1>3, WriterTakeKeeps, WriterReturnKeeps DEF WriterStep
<1>4. CASE Terminated \/ UNCHANGED vars
  BY <1>4, StutterKeeps DEF Terminated
<1> QED BY <1>1, <1>2, <1>3, <1>4 DEF Next

LEMMA Invariance == Spec => []IInv
<1>1. Init => IInv
  BY InitIInv
<1>2. IInv /\ [Next]_vars => IInv'
  BY NextKeeps
<1> QED BY <1>1, <1>2, PTL DEF Spec

-----------------------------------------------------------------------------
(* The properties.                                                         *)

\* The shape of the state: no more is requested than the buffer holds, no more is
\* reported than was requested.
THEOREM TypeCorrect == Spec => []TypeOK
<1>1. IInv => TypeOK
  BY DEF IInv
<1> QED BY <1>1, Invariance, PTL

\* Every slot that was given out belongs to exactly one task under way or holds its
\* nonce, and the control loop's count comes out right.
THEOREM SlotsAccounted == Spec => []EverySlotAccounted
<1>1. IInv => EverySlotAccounted
  <2> SUFFICES ASSUME IInv, Hashing
               PROVE  /\ \A t \in InFlight : /\ t.cache = buf /\ t.start = nonces_hashed + t.offset
                                             /\ t.offset + t.n <= requested
                      /\ \A t, u \in InFlight : t = u \/ Apart(t, u)
    BY DEF EverySlotAccounted, IInv, Pieces, Hashing
  <2>1. \A t \in InFlight : \E p \in Given : t = p[2]
    BY InFlightGiven
  <2>2. \A p \in Given : InBuffer(p[2])
    BY DEF IInv, Pieces
  <2>3. \A p, q \in Given : p = q \/ Apart(p[2], q[2])
    BY DEF IInv, Pieces
  <2> QED BY <2>1, <2>2, <2>3 DEF InBuffer
<1> QED BY <1>1, Invariance, PTL

\* Between two buffers no message and no task of the last one is left.
THEOREM NoLeftovers == Spec => []NothingLeftBehind
<1>1. IInv => NothingLeftBehind
  <2> SUFFICES ASSUME IInv, spc \in {"recv", "send", "done"}
               PROVE  /\ rx = <<>> /\ InFlight = {}
                      /\ \A g \in Gpus : gpu[g].pc \in {"recv", "end"}
    BY DEF NothingLeftBehind
  <2>1. ~Hashing
    BY DEF Hashing
  <2>2. /\ rx = <<>> /\ cpu = {}
        /\ \A g \in Gpus : /\ gpu[g].first_run
                           /\ gpu[g].pc = "recv" \/ (spc = "done" /\ gpu[g].pc = "end")
                           /\ inbox[g] = <<>> \/ (spc = "done" /\ inbox[g] = <<None>>)
    BY <2>1, IdleDevices
  <2>3. ASSUME NEW g \in Gpus, NEW t \in GpuTasks(g) PROVE FALSE
    <3>1. inbox[g] # <<>> /\ t = inbox[g][1] /\ t.n > 0
      BY <2>2, GpuTasksAre
    <3>2. t = None
      BY <2>2, <3>1
    <3> QED BY <3>1, <3>2 DEF None
  <2>4. InFlight = {}
    BY <2>2, <2>3 DEF InFlight
  <2> QED BY <2>2, <2>4
<1> QED BY <1>1, Invariance, PTL

\* The pool's queue never grows beyond one task per thread.
THEOREM BacklogBounded == Spec => []CpuBacklog
<1>1. IInv => CpuBacklog
  <2> SUFFICES ASSUME IInv PROVE Cardinality(Unhashed) <= CpuThreads
    BY DEF CpuBacklog, Unhashed
  <2> DEFINE u == Cardinality(Unhashed)
             a == Cardinality(Asks(0))
  <2>1. u \in Nat /\ a \in Nat /\ u + a <= CpuStarted
    BY CpuCounts DEF IInv, CpuAsks
  <2>2. CpuStarted \in Int /\ CpuStarted <= CpuThreads
    BY SchedulerAssumption DEF CpuStarted, IInv, TypeOK
  <2> HIDE DEF u, a
  <2>3. u <= CpuThreads
    BY <2>1, <2>2, SchedulerAssumption
  <2> QED BY <2>3 DEF u
<1> QED BY <1>1, Invariance, PTL

\* The device buffer a GPU's next transfer reads holds the nonces of its last task.
THEOREM LastIsFound == Spec => []TransferFindsLast
<1>1. IInv => TransferFindsLast
  BY DEF IInv, GpuAsks, TransferFindsLast
<1> QED BY <1>1, Invariance, PTL

-----------------------------------------------------------------------------
(* The scheduler and its devices implement ChunkStream.                    *)

\* What the writer has, as ChunkStream sees it: the chunks of the plot from
\* nonces_written on.
Stream ==
  [i \in 1 .. Len(Held) |-> [k \in 0 .. ChunkAt(i) - 1 |-> cache[Held[i]][k]]]

ChunkOf(n) == [k \in 0 .. Smaller(BufNonces, Nonces - n) - 1 |-> n + k]

StreamRight ==
  /\ Len(Held) = 0 => Stream = <<>>
  /\ Len(Held) = 1 => Stream = <<ChunkOf(nonces_written)>>
  /\ Len(Held) = 2 => Stream = <<ChunkOf(nonces_written), ChunkOf(nonces_written + BufNonces)>>

LEMMA StreamIs == IInv => StreamRight
<1> SUFFICES ASSUME IInv PROVE StreamRight
  OBVIOUS
<1> DEFINE C(i) == [k \in 0 .. ChunkAt(i) - 1 |-> cache[Held[i]][k]]
<1>1. nonces_written \in Nat /\ BufNonces \in Nat /\ Nonces \in Nat
  BY SchedulerAssumption DEF IInv, TypeOK
<1>2. Len(Held) >= 1 => C(1) = ChunkOf(nonces_written)
  <2>1. ChunkAt(1) = Smaller(BufNonces, Nonces - nonces_written)
    BY <1>1, (1 - 1) * BufNonces = 0 DEF ChunkAt
  <2> QED BY <2>1 DEF IInv, Queue, Holds, ChunkOf
<1>3. Len(Held) >= 2 => C(2) = ChunkOf(nonces_written + BufNonces)
  <2>1. ChunkAt(2) = Smaller(BufNonces, Nonces - (nonces_written + BufNonces))
    BY <1>1, (2 - 1) * BufNonces = BufNonces DEF ChunkAt
  <2> QED BY <2>1 DEF IInv, Queue, Holds, ChunkOf
<1>4. Stream = [i \in 1 .. Len(Held) |-> C(i)]
  BY DEF Stream
<1> HIDE DEF C
<1>5. ASSUME Len(Held) = 0 PROVE Stream = <<>>
  BY <1>4, <1>5
<1>6. ASSUME Len(Held) = 1 PROVE Stream = <<C(1)>>
  BY <1>4, <1>6
<1>7. ASSUME Len(Held) = 2 PROVE Stream = <<C(1), C(2)>>
  BY <1>4, <1>7
<1> QED BY <1>2, <1>3, <1>5, <1>6, <1>7 DEF StreamRight

LEMMA EmitStep ==
  ASSUME nonces_hashed < Nonces, Len(Stream) < NumBuffers,
         Stream' = Append(Stream, ChunkOf(nonces_hashed)),
         nonces_hashed' = nonces_hashed + Smaller(BufNonces, Nonces - nonces_hashed)
  PROVE  Chunks!Next
BY DEF Chunks!Next, Chunks!Emit, Chunks!ChunkLen, Stream, ChunkOf, Smaller

LEMMA ConsumeStep ==
  ASSUME Stream # <<>>, Stream' = Tail(Stream), nonces_hashed' = nonces_hashed
  PROVE  Chunks!Next
BY DEF Chunks!Next, Chunks!Consume, Stream

LEMMA StreamStays ==
  ASSUME Stream' = Stream, nonces_hashed' = nonces_hashed
  PROVE  UNCHANGED Chunks!vars
BY DEF Chunks!vars, Stream

\* The next chunk joins what the writer has.
LEMMA SendEmits ==
  ASSUME IInv, StreamRight, StreamRight', SendBuffer, UNCHANGED writerVars
  PROVE  Chunks!Next
<1> DEFINE m == Len(Held)
           w == nonces_written
           v == nonces_hashed
           B == BufNonces
<1>1. /\ spc = "send" /\ v' = v + Smaller(B, Nonces - v) /\ w' = w /\ UNCHANGED wbuf
      /\ full_buffers' = Append(full_buffers, buf)
  BY DEF SendBuffer, writerVars, Todo
<1>2. /\ buf \in Buffers /\ v < Nonces /\ v \in Nat /\ w \in Nat /\ B \in Nat \ {0}
      /\ Nonces \in Nat
  <2>1. v # Nonces /\ buf \in Buffers
    BY <1>1 DEF IInv, Counters
  <2> QED BY <2>1, SchedulerAssumption DEF IInv, TypeOK
<1>3. /\ m \in Nat /\ Len(Held') = m + 1 /\ DOMAIN Held = 1 .. m
      /\ \A i \in DOMAIN Held : Held[i] \in Buffers /\ Held[i] # buf
      /\ \A i, j \in DOMAIN Held : Held[i] = Held[j] => i = j
  BY <1>1, <1>2, HeldAppend, HeldSeq DEF IInv, Owned
<1>4. m < NumBuffers
  <2> DEFINE h == Held
  <2> HIDE DEF h, m
  <2>1. /\ \A i \in 1 .. m : h[i] \in Buffers /\ h[i] # buf
        /\ \A i, j \in 1 .. m : h[i] = h[j] => i = j
    BY <1>3 DEF h
  <2>2. m >= 1 => h[1] \in Buffers /\ h[1] # buf
    BY <1>3, <2>1
  <2>3. m >= 2 => h[2] \in Buffers /\ h[2] # buf /\ h[1] # h[2]
    BY <1>3, <2>1
  <2> QED BY <1>2, <1>3, <2>2, <2>3, SchedulerAssumption DEF Buffers
<1>5. m = 1 => v = Smaller(w + B, Nonces)
  BY DEF IInv, Queue
<1>6. m = 0 => v = w
  BY DEF IInv, Queue
<1>7. Len(Held)' = m + 1
  BY <1>3
<1>8. CASE m = 0
  <2>1. Stream = <<>> /\ Stream' = <<ChunkOf(w)>>
    BY <1>1, <1>7, <1>8 DEF StreamRight, ChunkOf
  <2> QED BY <1>1, <1>2, <1>4, <1>6, <1>8, <2>1, EmitStep
<1>9. CASE m = 1
  <2>1. Stream = <<ChunkOf(w)>> /\ Stream' = <<ChunkOf(w), ChunkOf(w + B)>>
    BY <1>1, <1>7, <1>9 DEF StreamRight, ChunkOf
  <2>2. v = w + B
    BY <1>2, <1>5, <1>9 DEF Smaller
  <2> QED BY <1>1, <1>2, <1>4, <1>9, <2>1, <2>2, EmitStep
<1> QED
  <2>1. m = 0 \/ m = 1
    <3> HIDE DEF m
    <3> QED BY <1>3, <1>4, SchedulerAssumption
  <2> QED BY <1>8, <1>9, <2>1

\* The writer is done with the oldest chunk.
LEMMA ReturnConsumes ==
  ASSUME IInv, StreamRight, StreamRight', WriterReturn,
         UNCHANGED <<cache, schedVars, rx, cpu, gpu, inbox>>
  PROVE  Chunks!Next
<1> DEFINE m == Len(full_buffers)
           w == nonces_written
           B == BufNonces
<1>1. /\ wbuf # 0 /\ w' = w + Smaller(B, Nonces - w) /\ wbuf' = 0
      /\ UNCHANGED <<full_buffers, nonces_hashed>>
  BY DEF WriterReturn, schedVars
<1>2. Held' = full_buffers /\ Len(Held) = m + 1 /\ m \in Nat
  <2>1. Held' = full_buffers /\ full_buffers \in Seq(Buffers)
    BY <1>1 DEF Held, IInv, TypeOK
  <2> QED BY <1>1, <2>1, HeldSeq, LenProperties DEF IInv
<1>3. Len(Held)' = m /\ Len(Held) <= 2 /\ w \in Nat /\ B \in Nat /\ Nonces \in Nat
  BY <1>2, SchedulerAssumption DEF IInv, Queue, TypeOK
<1>4. m = 0 \/ m = 1
  <2> HIDE DEF m
  <2> QED BY <1>2, <1>3
<1>5. CASE m = 0
  <2>1. Stream = <<ChunkOf(w)>> /\ Stream' = <<>>
    BY <1>2, <1>3, <1>5 DEF StreamRight
  <2> QED BY <1>1, <2>1, ConsumeStep
<1>6. CASE m = 1
  <2>1. w + B < Nonces
    BY <1>2, <1>6 DEF IInv, Queue
  <2>2. w' = w + B
    BY <1>1, <1>3, <2>1 DEF Smaller
  <2>3. Stream = <<ChunkOf(w), ChunkOf(w + B)>> /\ Stream' = <<ChunkOf(w')>>
    BY <1>2, <1>3, <1>6 DEF StreamRight, ChunkOf
  <2> QED BY <1>1, <2>2, <2>3, ConsumeStep
<1> QED BY <1>4, <1>5, <1>6

LEMMA ChunksStep ==
  ASSUME IInv, StreamRight, StreamRight', [Next]_vars
  PROVE  [Chunks!Next]_(Chunks!vars)
<1>1. CASE SendBuffer /\ UNCHANGED writerVars
  BY <1>1, SendEmits
<1>2. CASE WriterReturn /\ UNCHANGED <<cache, schedVars, rx, cpu, gpu, inbox>>
  BY <1>2, ReturnConsumes
<1>3. ASSUME Held' = Held, UNCHANGED <<nonces_written, nonces_hashed>>
      PROVE  [Chunks!Next]_(Chunks!vars)
  <2>1. Len(Held) \in Nat /\ Len(Held) <= 2 /\ Len(Held)' = Len(Held)
    BY <1>3, HeldSeq DEF IInv, Queue
  <2>2. Len(Held) = 0 \/ Len(Held) = 1 \/ Len(Held) = 2
    <3> DEFINE m == Len(Held)
    <3>1. m \in Nat /\ m <= 2
      BY <2>1
    <3> HIDE DEF m
    <3>2. m = 0 \/ m = 1 \/ m = 2
      BY <3>1
    <3> QED BY <3>2 DEF m
  <2>3. Stream' = Stream
    BY <1>3, <2>1, <2>2 DEF StreamRight, ChunkOf
  <2> QED BY <1>3, <2>3, StreamStays
<1>4. CASE WriterTake /\ UNCHANGED <<cache, schedVars, rx, cpu, gpu, inbox>>
  <2>1. /\ wbuf = 0 /\ full_buffers # <<>> /\ wbuf' = Head(full_buffers)
        /\ full_buffers' = Tail(full_buffers) /\ UNCHANGED <<nonces_written, nonces_hashed>>
    BY <1>4 DEF WriterTake, schedVars
  <2>2. full_buffers \in Seq(Buffers)
    BY DEF IInv, TypeOK
  <2>3. wbuf' # 0
    <3>1. Head(full_buffers) = full_buffers[1] /\ full_buffers[1] \in Buffers
      BY <2>1, <2>2, HeadTailProperties, EmptySeq, ElementOfSeq
    <3> QED BY <2>1, <3>1, SchedulerAssumption DEF Buffers
  <2>4. full_buffers = <<Head(full_buffers)>> \o Tail(full_buffers)
    BY <2>1, <2>2
  <2> QED BY <1>3, <2>1, <2>3, <2>4 DEF Held
<1>5. CASE UNCHANGED writerVars /\ UNCHANGED <<full_buffers, nonces_hashed>>
  BY <1>3, <1>5 DEF Held, writerVars
<1>6. CASE SchedulerStep
  <2>1. UNCHANGED writerVars
    BY <1>6 DEF SchedulerStep
  <2>2. CASE TakeBuffer \/ KickGpu \/ KickCpu \/ KickEnds \/ ServeCpu \/ ServeGpu \/ CountDone
    BY <1>5, <2>1, <2>2 DEF TakeBuffer, KickGpu, KickCpu, KickEnds, ServeCpu, ServeGpu,
                            CountDone, bufferVars
  <2> QED BY <1>1, <1>6, <2>1, <2>2 DEF SchedulerStep
<1>7. CASE (\E c \in cpu : CpuStep(c)) \/ (\E g \in Gpus : GpuStep(g))
  BY <1>5, <1>7 DEF CpuStep, GpuStep, bufferVars, schedVars
<1>8. CASE WriterStep
  BY <1>2, <1>4, <1>8 DEF WriterStep
<1>9. CASE Terminated \/ UNCHANGED vars
  BY <1>5, <1>9 DEF Terminated, vars, bufferVars, schedVars
<1> QED BY <1>6, <1>7, <1>8, <1>9 DEF Next

\* With every mix of devices the writer receives exactly the chunks of the plot,
\* complete and in order, and they do not change while it holds them.
THEOREM DeliversChunks == Spec => Delivers
<1>1. Init => Chunks!Init
  <2> SUFFICES ASSUME Init PROVE Chunks!Init
    OBVIOUS
  <2>1. Len(Held) = 0 /\ nonces_hashed = Progress
    BY DEF Init, Held
  <2>2. Stream = <<>>
    BY <2>1, InitIInv, StreamIs DEF StreamRight
  <2> QED BY <2>1, <2>2 DEF Chunks!Init, Stream
<1>2. IInv /\ StreamRight /\ StreamRight' /\ [Next]_vars => [Chunks!Next]_(Chunks!vars)
  BY ChunksStep
<1> QED BY <1>1, <1>2, StreamIs, Invariance, PTL DEF Spec, Delivers, Chunks!Spec
=============================================================================
