SPECIFICATION Spec
CONSTANTS
  NumTasks = 2
  Deps <- ReversedDeps
  Kinds = {"INITIAL"}
  Modes = {"MANUAL"}
  Event = {e1, e2, e3, e4}
  AutoPolicy = auto
  Question = {q1}
  NoQuestion = noq
  MaxCycles = 1
  MaxPlans = 2
  MaxAttempts = 2
  MaxAsks = 1
  MaxTime = 5
SYMMETRY EventSymmetry
CHECK_DEADLOCK FALSE
INVARIANT SerialOwnership
INVARIANT ExactAuthority
INVARIANT CompletedCycleProven
INVARIANT SingleUseApproval
PROPERTY DoneIsFinal
PROPERTY KeepsLifecycle
