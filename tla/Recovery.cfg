SPECIFICATION Spec
CONSTANTS
  NoCall = NoCall
  NoOne = "nobody"
  NoNamespace = "none"
  Call <- MCCall
  Recipient <- MCRecipient
  Namespace <- MCNamespace
  Possible <- MCPossible
  Allowed <- MCAllowed
  ReadOnly = {"file_read", "calendar_list"}
  Sending = {"mail"}
  Reading = {"file_read"}
  Editing = {"edit"}
  Shell = {"bash"}
  OneShot = {"bash", "calendar_update"}
  Delivering = {"edit"}
  Gated <- MCGated
  CorrectedRetry = 1
  AlternateRoute = 1
  AdjacentTool = 1
  MaxToolCallCount = 2
  StallAfter = 2
  MaxDirectives = 1
  MaxFailureProgress = 2
  MaxUnreadable = 2
  MaxEvents = 4
CONSTRAINT Bound
INVARIANTS
  ClosedStaysClosed
  SentOnce
  RecoveryRationed
  ThrashIsBounded
CHECK_DEADLOCK FALSE
