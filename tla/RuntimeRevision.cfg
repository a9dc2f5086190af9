SPECIFICATION Spec
CONSTANTS
  NumTasks = 1
  Deps <- NoDeps
  Kinds = {"INITIAL", "REVISION"}
  Modes = {"MANUAL", "AUTO"}
  Event = {e1, e2, e3}
  AutoPolicy = auto
  Question = {q1}
  NoQuestion = noq
  MaxCycles = 2
  MaxPlans = 3
  MaxAttempts = 2
  MaxAsks = 1
  MaxTime = 4
SYMMETRY EventSymmetry
CHECK_DEADLOCK FALSE
INVARIANT IInvTimed
