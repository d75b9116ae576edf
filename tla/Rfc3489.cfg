SPECIFICATION Spec

CONSTANTS
  IP1 = IP1
  IP2 = IP2
  Port1 = Port1
  Port2 = Port2
  NoEp = NoEp
  ClientIp = ClientIp
  NatIp = NatIp
  AnyIp = AnyIp
  LocalPorts = {p}
  NoRequest = NoRequest
  NoResponse = NoResponse
  Deployments = {"own", "wildcard", "noOther", "noMapped", "sameIp", "ignoresChange"}
  Binds = {"address", "wildcard"}
  MaxSends = 3
  Duplicating = TRUE
  Timeliness = {TRUE, FALSE}

INVARIANTS
  PositiveVerdictsSound
  TimelyTestIsExact
