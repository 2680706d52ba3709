\* A stream started again in another format.
CONSTANTS
  f1 = f1
  f2 = f2
  f3 = f3
  null = null
  Frames <- MCFrames
  NoFrame = null
  Formats <- TwoFormats
  MaxCommit = 2
  Queue <- Accepts
  MaxParts = 2
  MaxSeq = 5
  MaxHost = 2
  MaxErrors = 0
SPECIFICATION Spec
INVARIANT FormatsAgree
CHECK_DEADLOCK FALSE
