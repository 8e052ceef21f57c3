CONSTANTS
  File = {"notes", "deck"}
  Inline = {}
  Unreachable = {}
  Formatted = {"deck"}
  Shapes = {"good", "garbled"}
  Message = {a, b}
  Requests <- MCRequests
  MidTaskLimit = 2
  MaxObservation = 3
  MaxVersion = 1
  MaxResume = 1
SPECIFICATION Spec
SYMMETRY MCSymmetry
CONSTRAINT Bound
INVARIANTS
  CarriedIsFit
  
  StopLosesNothing
CHECK_DEADLOCK FALSE
