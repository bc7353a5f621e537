SPECIFICATION PathSpec
CONSTANTS
  Devices = {d1, d2}
  Sessions = {s1}
  Conns = {c1, c2}
  MaxInFlight = 2
  NoDevice = NoDevice
  NoConn = NoConn
  NoToken = NoToken
  NoSession = NoSession
PROPERTIES
  StaysReachable
