SPECIFICATION FairSpec
CONSTANTS
  k1 = k1
  k2 = k2
  a = a
  b = b
  e = e
  f = f
  Keys = {k1, k2}
  Ips = {a, b}
  Endpoints = {e, f}
  NoKey = NoKey
  NoEndpoint = NoEndpoint
  Absent = Absent
  NoConfig = NoConfig
  MaxRevision = 4
  ConfigOf <- Revisions
  MaxCrashes = 2
  Modes = {"v1", "v2"}
  IfaceInit = {TRUE, FALSE}
  Env = {"crash", "pull", "wg", "reboot", "admin"}
INVARIANTS
  TypeOK
  SkipIsSound
PROPERTIES
  ConvergesUndisturbed
  PushIsServed
  SyncsPeers
