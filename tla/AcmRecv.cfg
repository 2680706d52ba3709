\* Two list buffers of two bytes, reads of up to three bytes, one empty transfer.
CONSTANTS
  NBuf = 2
  Full = 2
  TaskQueue <- Accepts
  IsrQueue <- Accepts
  MaxRead = 3
  MaxWait = 1
  MaxHost = 5
  MaxEmpty = 1
SPECIFICATION FairSpec
INVARIANTS Ownership InsideBuffer OneTransfer
PROPERTIES PipeSpec ReadUnlessKickFails ReopensUnlessKickFails
CHECK_DEADLOCK FALSE
