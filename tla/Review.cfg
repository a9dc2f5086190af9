SPECIFICATION Spec
CONSTANTS
  Literal <- MCLiteral
  TextClass <- MCTextClass
  Negative <- MCNegative
  Targets <- MCTargets
  Outcome <- MCOutcome
  File <- MCFile
  Dir <- MCDir
  Within <- MCWithin
  NameOf <- MCNameOf
  Unreadable = {}
  NoSection = {"m"}
  LargeDiff = {"b"}
  Role <- MCRole
  LargeCluster = {"b"}
  Shares = {"a"}
  ReadOf <- MCReadOf
  ExecutionIds = {"e1"}
  Inputs <- MCInputs
  ChangeSets <- MCChangeSets
  Reports <- MCReports
  Responses <- MCResponses
  Verdicts <- MCVerdicts
  MaxRequirements = 2
  MaxCalls = 2
  CatalogLimit = 2
  MaxLinked = 4
PROPERTY ReviewAdvances
INVARIANT NothingIsLeftOut
INVARIANT AcceptIsEarned
INVARIANT DoubtsPreventAcceptance
