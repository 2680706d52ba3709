\* Three frames of one or two parts, five commits, two commands of the host, one
\* failed transfer.
CONSTANTS
  f1 = f1
  f2 = f2
  f3 = f3
  null = null
  Frames <- MCFrames
  NoFrame = null
  Formats <- OneFormat
  MaxCommit = 2
  Queue <- Accepts
  MaxParts = 2
  MaxSeq = 5
  MaxHost = 2
  MaxErrors = 1
SPECIFICATION FairSpec
INVARIANTS TypeOK FramesAccounted DmaReadsCurrent StateTellsTransfer
PROPERTIES FramesInOrder PendingTaken
CHECK_DEADLOCK FALSE
