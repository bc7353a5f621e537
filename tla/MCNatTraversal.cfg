SPECIFICATION FairNatSpec
CONSTANTS
  e1 = e1
  e2 = e2
  e3 = e3
  a = a
  b = b
  NatIds = {n1}
  Relays = {r1, r2}
  Jobs = {j1, j2}
  Endpoints = {e1, e2, e3}
  AddrOf <- Addresses
  NoAddr = NoAddr
  NoEndpoint = NoEndpoint
  MaxReports = 3
  InitScores = {0, 190}
  MaxRestarts = 1
  Traffic = {"nat", "relay"}
INVARIANTS
  NatTypeOK
  EndpointRemains
  AnnouncedIsStored
  EstablishedShows
  GaugeIsExact
PROPERTIES
  NatSettles
  RelayEnds
CHECK_DEADLOCK FALSE
