\* Four request addresses, two alternate settings, every failure.
CONSTANTS
  Reqs <- MCReqs
  NoReq = 0
  Failures <- FailPoints
  Alts <- MCAlts
SPECIFICATION Spec
INVARIANTS TypeOK FreedOnce NothingLeaked AssertionsHold QuietWhenUnconfigured
PROPERTY ConfigRecovers
CHECK_DEADLOCK FALSE
