SPECIFICATION FairPathSpec
CONSTANTS
  Devices = {d1, d2}
  Sessions = {s1}
  Conns = {c1, c2}
  MaxInFlight = 1
  NoDevice = NoDevice
  NoConn = NoConn
  NoToken = NoToken
  NoSession = NoSession
INVARIANTS
  RegisteredIsLive
  SweepSeesRegistered
  OnlyHoldersReachable
PROPERTIES
  SilentIsExpired
  RequestedIsServed
