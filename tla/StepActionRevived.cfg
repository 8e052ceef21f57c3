\* The tools of a plan's step across a restart.
CONSTANTS
    BuiltIn <- MCBuiltIn
    Callable <- MCCallable
    Skills <- MCSkills
    SkillTools <- MCSkillTools
    MaxExtension = 3
    EquipTool = "equip"
    DeliverTool = "deliver"
    Requests <- MCRequests
    Answers <- MCAnswers
    Shortlists <- MCNamed
    Finds <- MCFinds
    Hints <- MCHints
    Titles <- MCTitles
    ChangingTools <- MCChanging
    PlanTool = "plan"
    MaxSteps = 3
    MaxCorrections = 2
    MaxUnread = 2
    MaxRestarts = 1
SPECIFICATION Spec
INVARIANTS
    ToolsAreOfTheStep
CHECK_DEADLOCK FALSE
