SPECIFICATION FairEndpointSpec
CONSTANTS
  Addrs = {a, b}
  NoAddr = NoAddr
  Probers = {p1, p2}
  Latencies = {250}
  MaxMoves = 1
  MaxProbes = 3
  MaxFaults = 1
  MaxRows = 3
INVARIANTS
  EndpointTypeOK
  ReportedIsStored
  ScoreIsOfTheRow
PROPERTIES
  NoFurtherRow
  AddressIsReported
CHECK_DEADLOCK FALSE
