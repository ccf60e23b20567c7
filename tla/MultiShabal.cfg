\* Every instruction set; two sizes of digests; two messages with one context.
CONSTANTS
  Simds <- AllSimds
  OutSizes = {256, 512}
  Pieces <- SomePieces
  Ends <- SomeEnds
  MaxPieces = 3
  MaxBegun = 2
  MaxBlocks = 2
  MaxFast = 2
SPECIFICATION MultiSpec
INVARIANTS LanesArriving LaneDigests FastDigests
CHECK_DEADLOCK FALSE
