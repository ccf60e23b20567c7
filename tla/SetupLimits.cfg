\* Every combination of sizes and options, and every machine and thread limit.
CONSTANTS
  ByteMod = 8
  WordMod = 256
  NonceSize = 2
  GpuMultiple = 4
  Kilo = 1
  Inputs <- AllInputs
SPECIFICATION Spec
INVARIANTS BuffersWhole ChunksAligned LimitKeptOrMinimal
