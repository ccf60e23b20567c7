---------------------------- MODULE ResumablePlot ----------------------------
(***************************************************************************)
(* What engraver promises about a plot file, without saying how: a set of   *)
(* nonces that are completely on file, and a resume point below which every *)
(* nonce is on file.  Runs may stop anywhere and be started again; nothing  *)
(* that is on file is ever lost while the file exists, the resume point     *)
(* never moves back, and it disappears only when every nonce but the last   *)
(* is on file, or when the user deletes the file.                           *)
(*                                                                         *)
(* Pipeline implements this specification; see Pipeline!Promise.            *)
(***************************************************************************)
EXTENDS Integers

CONSTANTS
  Nonces,      \* task.nonces: how many nonces the plot holds
  NoPoint      \* the file is missing, or carries no resume information

Positions == 0 .. Nonces - 1

VARIABLES
  stored,      \* the nonces whose every scoop is on file
  point        \* the resume point, or NoPoint

vars == <<stored, point>>

Prefix(n) == 0 .. n - 1

Init == stored = {} /\ point = NoPoint

\* The scoops of some nonces reach the file.  With the last nonce the resume
\* information is overwritten: from then on the file cannot be resumed.
Store ==
  /\ stored' \in SUBSET Positions
  /\ stored \subseteq stored'
  /\ \/ point' = point
     \/ Prefix(Nonces - 1) \subseteq stored' /\ point' = NoPoint

\* A new resume point is published, for nonces that are all on file.
Publish ==
  /\ \E p \in Positions :
       /\ Prefix(p) \subseteq stored
       /\ point # NoPoint => point <= p
       /\ point' = p
  /\ stored' = stored

\* The user deletes a file that cannot be resumed.
Forget == point = NoPoint /\ point' = NoPoint /\ stored' = {}

Next == Store \/ Publish \/ Forget

Spec == Init /\ [][Next]_vars
=============================================================================
