SPECIFICATION FairSpec

CONSTANTS
  ClientTimeout = 3000
  ProbeTimeout = 1200
  SynDelay = 350
  MaxRetries = 3

INVARIANTS
  FilteringSound
  CrossProbesExplained
  TimelyTestIsExact
  BreaksOffOnlyOnOwnConnection
PROPERTIES
  Terminates
