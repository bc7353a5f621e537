SPECIFICATION FairSpec
CONSTANTS
  Daemons = {d1}
  Admins = {u1}
  NoClient = NoClient
  MaxConns = 2
  Punches = {2}
  MaxEvents = 3
  MaxFaults = 2
  RedisUrl = TRUE
  Remote = {}
  Loopback = Loopback
  Dots = Dots
  Retries = 1
INVARIANTS
  NewestIsRegistered
  NoGap
PROPERTIES
  IsDelivered
  PunchIsReported
CHECK_DEADLOCK FALSE
