\* Plots that fit sectors of two nonces, do not, or round down to nothing; up to
\* three runs, every failure of a worker, a kill anywhere, one power failure.
CONSTANTS
  Asked = {1, 6}
  Sector = 2
  GpuMultiple = 2
  Tasks <- MixedTasks
  MaxRuns = 3
  MaxOutages = 1
SPECIFICATION FairSpec
INVARIANTS DirectStaysAligned HolesAreLost
PROPERTIES EndsUnlessHopeless HopelessStays
