SPECIFICATION FairSpec
CONSTANTS
  total = total
  work = work
  Budget = {total, work}
  parent <- MCParent
  size <- MCSize
  Root = Root
  Pauser = {p1, p2}
  MaxTime = 3
  MaxPauses = 1
INVARIANTS
  AlarmWillRing
  OverlapsCountTicks
PROPERTIES
  SpentBudgetEnds
  KeepsPromise
CHECK_DEADLOCK FALSE
