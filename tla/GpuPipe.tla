------------------------------- MODULE GpuPipe -------------------------------
(***************************************************************************)
(* What a GPU thread owes the scheduler: it holds at most one task that it  *)
(* has not reported, reports the tasks one by one, and reports none before  *)
(* its nonces are in host memory, where they stay.  This is the step that   *)
(* module Scheduler takes as one; GpuDevice takes it apart.                 *)
(***************************************************************************)
EXTENDS Integers, Sequences

NoTask == 0

VARIABLES
  held,        \* the task accepted last, NoTask when all are reported
  hashed,      \* the tasks whose nonces are in host memory, all of them and right
  reported     \* the tasks reported to the scheduler, in their order

vars == <<held, hashed, reported>>

Init == held = NoTask /\ hashed = {} /\ reported = <<>>

New(t) == t \notin hashed /\ \A i \in DOMAIN reported : reported[i] # t

Accept ==
  /\ held = NoTask
  /\ held' \in Nat \ {NoTask} /\ New(held')
  /\ UNCHANGED <<hashed, reported>>

Transfer ==
  /\ held # NoTask /\ held \notin hashed
  /\ hashed' = hashed \cup {held}
  /\ UNCHANGED <<held, reported>>

\* The next task takes the place of the one that is reported, if there is one.
Report ==
  /\ held \in hashed
  /\ reported' = Append(reported, held)
  /\ held' \in Nat /\ New(held') /\ held' # held
  /\ UNCHANGED hashed

Next == Accept \/ Transfer \/ Report

Spec == Init /\ [][Next]_vars
=============================================================================
