\* One sender, two list buffers, calls of up to three chunks, one failed
\* transfer, a controller that may refuse a task's request.
CONSTANTS
  Senders <- MCSenders
  s1 = s1
  s2 = s2
  noData = noData
  NoData = noData
  NBuf = 2
  Full = 2
  TaskQueue <- Booleans
  IsrQueue <- Accepts
  MaxChunks = 3
  MaxSeq = 4
  MaxWait = 1
  MaxErrors = 1
SPECIFICATION FairSpec
INVARIANTS TypeOK Ownership FreeBuffersReset OneTransfer LengthsKept
PROPERTIES PipeSpec ForeverReturns BusyDrains
CHECK_DEADLOCK FALSE
