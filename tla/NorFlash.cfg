\* Two sectors of two pages; a request that crosses sectors, one that wraps.
CONSTANTS
  Bits <- MCBits
  PageSize = 1
  NPages = 2
  NSectors = 2
  Word = 8
  Bounds <- MCBounds
  Starts <- MCStarts
  Lengths <- MCLengths
SPECIFICATION FairSpec
INVARIANTS OkMeansWritten DamageConfined ProgramTakes
PROPERTIES LockedUnchanged CallReturns
