SPECIFICATION AnsweredSpec
CONSTANTS
  Surface = {issue}
  AllowAuto = TRUE
  MaxRepairs = 1
  MaxRecoveries = 1
  MaxEvents = 2
  MaxCycles = 2
  MaxVersion = 2
  MaxQuestions = 1
  MaxOperator = 1
  MaxCrashes = 2
CHECK_DEADLOCK FALSE
INVARIANT RunsTheApprovedPlan
INVARIANT AcceptedWorkIsReviewed
INVARIANT NoInputLost
INVARIANT RepairsBounded
PROPERTY SuccessIsFinal
PROPERTY ReviewSettles
