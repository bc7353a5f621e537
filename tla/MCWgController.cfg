SPECIFICATION FairSpec
CONSTANTS
  d1 = d1
  d2 = d2
  d3 = d3
  k1 = k1
  k2 = k2
  a1 = a1
  a2 = a2
  net = net
  Devices = {d1, d2, d3}
  Keys = {k1, k2}
  Ips = {a1, a2, net}
  KeyOf <- KeyOfThree
  AddrOf <- AddrOfThree
  Prefixes = {net}
  NoKey = NoKey
  CleanupCycles = 2
  MaxChanges = 3
  MaxFailures = 1
  Env = {"route", "handshake"}
PROPERTIES
  RemovedWasUnwanted
  PeersConverge
  AddressesConverge
