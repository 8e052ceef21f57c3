\* The steps of a turn: what is offered, answered, queued and dropped.
CONSTANTS
    BuiltIn <- MCBuiltIn
    Callable <- MCCallable
    Skills <- MCSkills
    SkillTools <- MCSkillTools
    MaxExtension = 3
    EquipTool = "equip"
    DeliverTool = "deliver"
    Requests <- MCRequests
    Answers <- MCAnswers
    Shortlists <- MCShortlists
    Finds <- MCFinds
    Hints <- MCHints
    Titles <- MCTitles
    ChangingTools <- MCChanging
    PlanTool = "plan"
    MaxSteps = 2
    MaxCorrections = 2
    MaxUnread = 2
    MaxRestarts = 1
SPECIFICATION Spec
INVARIANTS
  QueuedKeepsItsTools
  OfferedForTheStep
  AnswerIsAccountedFor
PROPERTIES
  EveryAskEnds
CHECK_DEADLOCK FALSE
