\* Two replicas; calls and answers get lost, containers restart.
CONSTANTS
    Replicas = {r1, r2}
    Nobody = Nobody
    LeaseDuration = 4
    RenewDeadline = 2
    MaxDelay = 1
    MaxFaults = 3
SPECIFICATION ElectionSpec
INVARIANTS
    ElectionTypeOK
    OneLeader
PROPERTIES
    SomebodyWrites
CHECK_DEADLOCK FALSE
