\* Three tasks in a row and the last one, alone or after others: both buffers
\* are hashed into and transferred, and used again.
CONSTANTS
  Cards <- SmallCards
  Launches = 2
  DriverBacksHost = FALSE
  MaxTasks = 3
SPECIFICATION Spec
INVARIANTS MemoryReserved NeverHashesMapped
PROPERTIES HashesThenReports
