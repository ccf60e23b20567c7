CONSTANTS
  NumScoops = 6
  HashCap = 4
  Lanes <- SmallLanes
  GpuVector = 2
  Worksize = 4
  HashesPerRun = 2
  Base = 4
  NumericId = 11
  CacheSize = 8
  Hashers = {"h1", "h2"}
  Shares <- SomeShares
SPECIFICATION Spec
INVARIANTS NoncesAreReference OtherSlotsUntouched LaunchesJoin
