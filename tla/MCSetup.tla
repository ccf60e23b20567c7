------------------------------- MODULE MCSetup -------------------------------
(* Setup with scaled down sizes: a nonce of 2 bytes, sectors of 1, 2 or 4   *)
(* nonces, 4 for the 16 of OpenCL, bytes that wrap at 8 and words at 256.   *)
EXTENDS Setup

\* A machine and command line in the middle of everything.
Plain ==
  [cpus |-> 2, avail |-> 20, free_disk |-> 30, sector |-> 2, path |-> TRUE, cpu |-> -1, gpu |-> FALSE,
   gpu_info |-> 8, zcb |-> FALSE, nonces |-> 9, mem |-> 0, direct_io |-> TRUE,
   async_io |-> TRUE, benchmark |-> FALSE, exists |-> FALSE]

\* Sizes: every combination that matters to plot, disk and memory.
SizeInputs ==
  {[Plain EXCEPT !.avail = a, !.free_disk = f, !.sector = s, !.gpu = g, !.zcb = z,
                 !.nonces = n, !.mem = m, !.direct_io = d, !.async_io = y,
                 !.benchmark = b, !.exists = e] :
     a \in {3, 20}, f \in {0, 17, 30}, s \in {1, 2, 4}, g \in BOOLEAN, z \in BOOLEAN,
     n \in {0, 3, 9, 13}, m \in {-1, 0, 5, 13, 24}, d \in BOOLEAN, y \in BOOLEAN,
     b \in BOOLEAN, e \in BOOLEAN}
  \cup {[Plain EXCEPT !.path = FALSE]}

\* Machines of every size, with and without a limit and GPUs.
ThreadInputs ==
  {[Plain EXCEPT !.cpus = c, !.cpu = l, !.gpu = g, !.nonces = n] :
     c \in 1 .. 9, l \in -1 .. 7, g \in BOOLEAN, n \in {4, 9}}

AllInputs == SizeInputs \cup ThreadInputs
=============================================================================
