SPECIFICATION CampaignSpec

CONSTANTS
  IP1 = IP1
  IP2 = IP2
  Port1 = Port1
  Port2 = Port2
  NoEp = NoEp
  ClientIp = ClientIp
  NatIp = NatIp
  AnyIp = AnyIp
  LocalPorts = {p1, p2, p3}
  NoRequest = NoRequest
  NoResponse = NoResponse
  Deployments = {"own"}
  Binds = {"address", "wildcard"}
  MaxSends = 1
  Duplicating = FALSE
  Timeliness = {TRUE, FALSE}
  Scopes = {}
  Campaigns <- EveryCampaign

SYMMETRY PortSymmetry

INVARIANTS
  SoundOnFreshPorts
  RunsDoNotMix
  DeterministicNatPasses
