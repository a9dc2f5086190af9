SPECIFICATION Spec
CONSTANTS
  Surface = {issue, pr}
  Issue = issue
  Completed = TRUE
  MaxLog = 8
  MaxHuman = 3
  MaxCycles = 2
  MaxCrashes = 1
  MaxTexts = 1
  MaxFailures = 2
CHECK_DEADLOCK FALSE
INVARIANT ClaimsTruthful
INVARIANT UsedOnce
INVARIANT AuthorityFromItsConversation
INVARIANT PlanCoversInputs
