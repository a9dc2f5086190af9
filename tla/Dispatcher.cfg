SPECIFICATION FairSpec
CONSTANTS
  Thread = {t1, t2}
  Server = {s1, s2}
  Cli = cli
  NoOne = noone
  Broken = {t1}
  Workers = 1
  MaxTicks = 1
  MaxFailures = 2
  MaxInputs = 2
  MaxFaults = 2
  MaxCrashes = 1
  MaxOperator = 1
  MaxMain = 2
CHECK_DEADLOCK FALSE
INVARIANT TypeOK
INVARIANT OneDrainer
INVARIANT FrozenBase
PROPERTY WorkIsServed
