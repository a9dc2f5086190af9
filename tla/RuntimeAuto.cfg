SPECIFICATION FairSpec
CONSTANTS
  NumTasks = 2
  Deps <- ReversedDeps
  Kinds = {"INITIAL"}
  Modes = {"AUTO"}
  Event = {e1}
  AutoPolicy = auto
  Question = {q1}
  NoQuestion = noq
  MaxCycles = 1
  MaxPlans = 2
  MaxAttempts = 2
  MaxAsks = 1
  MaxTime = 2
CHECK_DEADLOCK FALSE
PROPERTY CycleSettles
