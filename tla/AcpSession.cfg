SPECIFICATION Spec
CONSTANTS
  Levels <- MCLevels
  Pins <- MCLevels
  MaxSteps = 2
  DelegationLimit = 1
  Faults = {"cancel", "crash", "panic", "lost_call"}
  MaxRuns = 2
  MaxPrompts = 2
  MaxSteers = 1
  MaxCalls = 2
CONSTRAINT Bound
INVARIANTS
  NothingTwice
  ResumedWhole
  SizedTree
  LeftRunningWasMissed
CHECK_DEADLOCK FALSE
