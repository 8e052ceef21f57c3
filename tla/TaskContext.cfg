SPECIFICATION Spec
CONSTANTS
  Recent = 1
  MinimumNew = 2
  MinimumSize = 5
  Budget = 6
  Talk <- MCTalk
  CallKinds = {"work", "file", "fail"}
  Resumes <- MCResumes
  SavesMayFail = FALSE
  MaxRecords = 3
  MaxSaid = 1
  MaxCites = 1
  MaxResumes = 1
INVARIANTS
  HiddenIsSettled
  CountsSurvive
  RestartLosesNothing
CHECK_DEADLOCK FALSE
