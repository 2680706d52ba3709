\* Two senders, one of which may read the state before the other restarts the
\* transfer.
CONSTANTS
  Senders <- TwoSenders
  s1 = s1
  s2 = s2
  noData = noData
  NoData = noData
  NBuf = 2
  Full = 2
  TaskQueue <- Accepts
  IsrQueue <- Accepts
  MaxChunks = 1
  MaxSeq = 1
  MaxWait = 0
  MaxErrors = 0
SPECIFICATION Spec
INVARIANT OneTransfer
CHECK_DEADLOCK FALSE
