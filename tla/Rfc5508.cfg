SPECIFICATION FairSpec

CONSTANTS
  Primary = Primary
  Secondary = Secondary
  NoQuery = NoQuery
  NoEcho = NoEcho
  Tests <- EveryTest
  Deployments = {"own", "wildcard"}
  Duplicating = TRUE

INVARIANTS
  MappingExact
  SoundWhenTestedAlone
  RecordFound
  MarkersSound
  TimelyTestIsExact
PROPERTIES
  Terminates
