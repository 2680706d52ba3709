\* One sender: the lists when the interrupt handler declares the channel idle.
CONSTANTS
  Senders <- MCSenders
  s1 = s1
  s2 = s2
  noData = noData
  NoData = noData
  NBuf = 2
  Full = 2
  TaskQueue <- Accepts
  IsrQueue <- Accepts
  MaxChunks = 3
  MaxSeq = 4
  MaxWait = 1
  MaxErrors = 0
SPECIFICATION Spec
INVARIANT AllSentWhenIdle
CHECK_DEADLOCK FALSE
