SPECIFICATION FairSpec
CONSTANTS
  Surface = {issue}
  Issue = issue
  Completed = FALSE
  MaxLog = 7
  MaxHuman = 2
  MaxCycles = 1
  MaxCrashes = 1
  MaxTexts = 1
  MaxFailures = 2
CHECK_DEADLOCK FALSE
INVARIANT ClaimsReconciled
PROPERTY ApprovalDelivered
