SPECIFICATION Spec
CONSTANTS
    Devices = {d1, d2}
    Keys = {k1}
    Requests = {r1, r2}
    LastHost = 2
    Chosen = {1}
    NewStatuses = {"active"}
    Ops = {"enroll_by_key", "register_device", "create_device", "create_node_device", "enroll_device", "revoke_device", "update_device", "process_heartbeat", "rotate_device_token"}
    NoDevice = NoDevice
    NoKey = NoKey
SYMMETRY Symmetry
CHECK_DEADLOCK FALSE
INVARIANTS
    TypeOK
    SharedOnlyByOverlap
    ReusedOnlyByOverlap
    RevokedStaysOut
