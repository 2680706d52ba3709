\* Every command, against two other tasks and a reset at any step.
CONSTANT
  NTargets = 3
SPECIFICATION Spec
INVARIANTS Restored SuccessHolds
