SPECIFICATION GateSpec
CONSTANTS
  NoVerdict = NoVerdict
  Change = {"rename", "move"}
  Lists = {{}, {"rename", "move"}}
  Field = {"name", "date"}
  FieldOf <- MCFieldOf
  Work = {"update", "file_deliver"}
  Look = {"read"}
  Recording = {"update", "file_deliver"}
  Writes <- MCWrites
  Flaw = {"none", "unclaimed", "invalid"}
  Deliver = "file_deliver"
  WithdrawAfter = 2
  OfferAfter = 3
  UnrecordedKept = 1
  LookupsKept = 1
  MaxObservation = 3
  MaxAtStop = 2
INVARIANTS
  RefusedOnce
  VerdictHolds
  UnmetIsTold
PROPERTIES
  TheWaitEnds
CHECK_DEADLOCK FALSE
