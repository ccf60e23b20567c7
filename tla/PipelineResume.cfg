\* Crashes and restarts with changing settings: four nonces in two scoops,
\* written at most two at a time, in up to three runs.  A run nobody kills ends.
CONSTANTS
  Nonces = 4
  NumScoops = 2
  TaskSize = 2
  ProgressMod = 8
  Tasks <- MixedTasks
  MaxRuns = 3
  MarkerFaults = FALSE
SPECIFICATION FairSpec
INVARIANTS PlotComplete RefusedEmptyOrWhole InStep NeverBlocksLocked
PROPERTIES RunEnds MarkerMonotone BenchmarkReadOnly Promise
