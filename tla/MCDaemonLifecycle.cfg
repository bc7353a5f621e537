SPECIFICATION FairSpec
CONSTANTS
  MaxDevices = 5
  StartLimit = 2
  MaxFaults = 3
INVARIANTS
  RunsAsOneDevice
  DevicesAccountedFor
PROPERTIES
  ComesUp
CHECK_DEADLOCK FALSE
