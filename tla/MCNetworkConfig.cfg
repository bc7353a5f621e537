SPECIFICATION FairSpec
CONSTANTS
  srv = srv
  d1 = d1
  d2 = d2
  near = near
  far = far
  Devices = {srv, d1, d2}
  Hub = srv
  a0 = a0
  a1 = a1
  a2 = a2
  Address <- AddressOf
  NoDevice = NoDevice
  Subnet = Subnet
  DefaultRoutes = {default}
  ServerEndpoint = ServerEndpoint
  NoEndpoint = NoEndpoint
  Prefixes = {default, lan, a2, loopback}
  Unsafe = {loopback}
  MaxRoutes = 2
  StartRoutes <- Start
  StartExits = {NoDevice, d2}
  default = default
  lan = lan
  Rows <- EndpointRows
  Pullers = {d1}
  Jobs = {j1, j2}
  MaxChanges = 2
INVARIANTS
  PeersAreMutual
  OneOwnerPerPrefix

  
CHECK_DEADLOCK FALSE
