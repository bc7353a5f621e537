SPECIFICATION FairSpec
CONSTANTS
  d1 = d1
  d2 = d2
  d3 = d3
  k1 = k1
  k2 = k2
  a1 = a1
  a2 = a2
  net = net
  Devices = {d1, d2}
  Keys = {k1, k2}
  Ips = {a1, a2, net}
  KeyOf <- OwnKeys
  AddrOf <- OwnAddresses
  Prefixes = {net}
  NoKey = NoKey
  CleanupCycles = 2
  MaxChanges = 2
  MaxFailures = 0
  Env = {"route"}
PROPERTIES
  RoutesConverge
