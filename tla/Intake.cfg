SPECIFICATION TaskSpec
CONSTANTS
    Turns <- MCTurns
    WordSets <- MCWordSets
    MaxConcurrent = 2
    ByteBudget = 7
    FixedBytes = 2
    LikelyToolLimit = 2
    About <- MCAbout
    FileDeliver = 1
    AskInput = 2
    MessageSend = 3
    Renamed <- MCRenamed
    Messages <- MCMessages
    SavedGoals <- MCSavedGoals
    HintSets <- MCHintSets
    Plans <- MCPlans
    ToolSets <- MCToolSets
    MaxMessages = 2
INVARIANTS
  SelectionHolds
  DecisionHolds
  ContractHolds
CHECK_DEADLOCK FALSE
