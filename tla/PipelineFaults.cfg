\* The marker fails to be written, and its offset wraps around: five nonces
\* with offsets modulo three.
CONSTANTS
  Nonces = 5
  NumScoops = 2
  TaskSize = 1
  ProgressMod = 3
  Tasks <- SmallTasks
  MaxRuns = 3
  MarkerFaults = TRUE
SPECIFICATION Spec
INVARIANTS ResumeSafe IInv
