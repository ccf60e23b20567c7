CONSTANTS
  ByteMod = 8
  WordMod = 256
  NonceSize = 2
  GpuMultiple = 4
  Kilo = 1
  Inputs <- SizeInputs
SPECIFICATION Spec
INVARIANTS FreeMemoryKept
