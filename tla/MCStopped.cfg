\* A leader that cannot reach the API server gives up the lease.
CONSTANTS
    Replicas = {r1, r2}
    Nobody = Nobody
    LeaseDuration = 4
    RenewDeadline = 2
    MaxDelay = 1
    MaxFaults = 3
SPECIFICATION ElectionSpec
INVARIANTS
    StoppedIsSilent
CHECK_DEADLOCK FALSE
