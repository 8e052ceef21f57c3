SPECIFICATION Spec
CONSTANTS
  pay = pay
  send = send
  look = look
  NoCall = NoCall
  Call <- MCCall
  Gated <- MCGated
  Inspecting <- MCInspecting
  MaxAttempt = 2
  MaxSession = 3
SYMMETRY GatedSymmetry
INVARIANTS
  TypeOK
  ApprovedUnspentHasNotRun
  HostCanJustify
PROPERTIES
  KeepsThePromise
CHECK_DEADLOCK FALSE
