SPECIFICATION FairSpec
CONSTANTS
  Proc = {server, operator}
  Server = server
  NoProc = noproc
  Content = {base, t1}
  Base = base
  MaxCycles = 2
  MaxFaults = 1
  MaxRetries = 1
CHECK_DEADLOCK FALSE
INVARIANT OneOutput
INVARIANT PublishedIsAccepted
PROPERTY PublicationSettles
