SPECIFICATION FairSpec
CONSTANTS
  Top = 3
  Steps <- MCSteps
  Calls <- MCCalls
  Costs = {}
  Duration <- ShortDuration
  MaxClosing = 1
  StartOptions <- ShortOptions
  PlanLevels = {2}
  RecoveryCalls = 1
  Faults = {"cancel", "store", "crash"}
  MaxActive = 4
  MaxBatch = 0
  MaxTurns = 2
INVARIANTS
  ReplyMatchesRun
PROPERTIES
  EveryTurnEnds
