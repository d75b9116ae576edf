SPECIFICATION FairSpec

CONSTANTS
  MaxStarts = 3
  MaxGlitches = 2

INVARIANTS
  NoPileUp
  BypassActive
  CleanExit
  WalkFindsSocket
PROPERTIES
  RulesOutliveEngines
  Recovers

\* The server stays in its poll loop.
CHECK_DEADLOCK FALSE
