SPECIFICATION TestSpec

CONSTANTS
  IP1 = IP1
  IP2 = IP2
  Port1 = Port1
  Port2 = Port2
  NoEp = NoEp
  ClientIp = ClientIp
  NatIp = NatIp
  AnyIp = AnyIp
  LocalPorts = {p, q}
  NoRequest = NoRequest
  NoResponse = NoResponse
  NoConnection = NoConnection
  Units = 3
  Deployments = {"own", "wildcard", "noOther", "noMapped", "sameIp", "ignoresChange"}
  Binds = {"address", "wildcard"}
  MaxSends = 2
  Duplicating = FALSE
  Timeliness = {TRUE, FALSE}
  Scopes = {"BindingOnly", "Mapping", "Filtering", "Full"}

INVARIANTS
  TestInv
  FilteringSound
  MappingExact
  OwnServerNeverBlamed
  FilterUndisturbed
  TimelyTestIsExact
PROPERTIES
  RefinesDiscovery
  Terminates
