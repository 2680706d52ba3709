\* Two blocks of two pages: cached reads, requests inside and across blocks.
CONSTANTS
  PageSize = 2
  NPages = 2
  NBlocks = 2
  Factory <- MCFactory
  CacheRead = TRUE
  Requests <- MCRequests
  Unreadable <- MCUnreadable
  MaxCalls = 2
SPECIFICATION FairSpec
INVARIANTS TypeOK OkMeansWritten OkMeansRead DamageConfined TableKnowsMarkers CommandsUnprotected
PROPERTY CallReturns
