SPECIFICATION FairSpec
CONSTANTS
  Surface = {issue}
  Issue = issue
  Completed = FALSE
  MaxLog = 5
  MaxHuman = 1
  MaxCycles = 1
  MaxCrashes = 1
  MaxTexts = 1
  MaxFailures = 2
CHECK_DEADLOCK FALSE
PROPERTY AnswersSurviveRestart
