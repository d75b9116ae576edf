SPECIFICATION FairSpec

CONSTANTS
  Timeout = 7
  InitialRto = 1
  TicksPerMs = 4
  Slack = 2

PROPERTIES
  EveryResendBacksOff
