SPECIFICATION Spec
CONSTANTS
  Top = 2
  Steps <- MCSteps
  Calls <- MCCalls
  Costs = {1, 9}
  Duration <- MCDuration
  MaxClosing = 1
  StartOptions <- AllOptions
  PlanLevels = {2}
  RecoveryCalls = 1
  Faults = {"cancel", "hangup", "deadline"}
  MaxActive = 6
  MaxBatch = 1
  MaxTurns = 1
INVARIANTS
  RunIsClosed
  SilenceIsOwned
  ToldIsStored
PROPERTIES
  NoBudgetIsLost
