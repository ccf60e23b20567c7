CONSTANTS
  BLOCK = 3
  Bytes = {0, 128}
  Bits <- SomeBits
  MaxMessage = 7
  MaxMessages = 2
SPECIFICATION Spec
INVARIANTS Arriving DigestOfMessage
CHECK_DEADLOCK FALSE
