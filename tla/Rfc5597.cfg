SPECIFICATION FairSpec

CONSTANTS
  None = None
  Plans = {"integrity", "mapping", "filtering", "simOpen", "sync", "overloading", "hairpin", "icmp", "all"}
  MaxInFlight = 2

INVARIANTS
  MappingSound
  SoundWhenTestedAlone
  SyncSound
  TimelyTestIsExact
PROPERTIES
  Terminates
