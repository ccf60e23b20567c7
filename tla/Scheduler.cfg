\* Two CPU threads, two GPUs and two buffers, resumed at nonce 2.  After the kickoff
\* two nonces of the first buffer are left: for both CPU threads, for a GPU, or one of
\* them for a GPU that could take two.  Of the second buffer each device gets a
\* different share.
CONSTANTS
  Nonces = 14
  Progress = 2
  BufNonces = 8
  NumBuffers = 2
  CpuThreads = 2
  CpuTaskSize = 1
  NumGpus = 2
  Worksize = 2
SPECIFICATION FairSpec
INVARIANTS TypeOK EverySlotAccounted NothingLeftBehind CpuBacklog TransferFindsLast
PROPERTIES Delivers AllWritten
