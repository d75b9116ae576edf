SPECIFICATION FairSpec

CONSTANTS
  Timeout = 7
  InitialRto = 1
  TicksPerMs = 4
  Slack = 2

INVARIANTS
  GivesUpOnTime
  AnswersInTime
PROPERTIES
  EarlyResendOnlyAtDeadline
  Returns
