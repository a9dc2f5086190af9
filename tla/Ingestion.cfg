SPECIFICATION FairSpec
CONSTANTS
  Poller = {server}
  Server = server
  MaxExtra = 0
  Comment = {c1, c2}
  OnPull = {c2}
  Overlap = 1
  Lag = 1
  MaxClock = 2
  MaxEdits = 2
  MaxFaults = 1
CHECK_DEADLOCK FALSE
INVARIANT NothingSkipped
INVARIANT NoReplay
INVARIANT AnsweredOnce
PROPERTY InputsSettle
