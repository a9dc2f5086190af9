SPECIFICATION Spec
CONSTANTS
  Thread = {t1, t2}
  Fact = {f1}
  MaxPublished = 2
  NoThread = nobody
  MaxAttempts = 2
  MaxCycles = 2
  MaxProposals = 1
  MaxCurated = 1
  MaxCrashes = 1
CHECK_DEADLOCK FALSE
INVARIANT GenerationsExact
INVARIANT CallsBounded
PROPERTY LearningAdvances
SYMMETRY Threads
INVARIANT AcceptedIsRemembered
PROPERTY EntriesStay
