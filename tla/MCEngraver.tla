----------------------------- MODULE MCEngraver -----------------------------
(* Engraver with the options a run may be started with fixed for TLC. *)
EXTENDS Engraver

Task(direct, async, quiet, benchmark, gpu, mem) ==
  [direct_io |-> direct, async_io |-> async, quiet |-> quiet, benchmark |-> benchmark,
   gpu |-> gpu, mem |-> mem]

\* Small and odd memory limits with and without direct i/o, one or two buffers, and
\* a benchmark; the GPU and the progress bars with some of them.
MixedTasks ==
  { Task(TRUE, FALSE, TRUE, FALSE, FALSE, 3), Task(TRUE, TRUE, FALSE, FALSE, TRUE, 0),
    Task(FALSE, FALSE, FALSE, FALSE, FALSE, 1), Task(FALSE, TRUE, TRUE, FALSE, TRUE, 0),
    Task(TRUE, FALSE, FALSE, TRUE, FALSE, 0) }
=============================================================================
