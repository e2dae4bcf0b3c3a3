\* One alert in two copies, two processes, two faults.
CONSTANTS
    k1 = k1
    k2 = k2
    w1 = w1
    w2 = w2
    w3 = w3
    p1 = p1
    p2 = p2
    Keys = {k1}
    NoAlert = none
    Processes = {p1, p2}
    Workers = {w1, w2, w3}
    ProcessOf <- ThreeWorkers
    MaxAttempts = 3
    MaxCopies = 2
    MaxFaults = 2
SPECIFICATION FairSpec
INVARIANTS
    TypeOK
    DeliveredOnce
    ClaimStandsForSomething
    NothingVanishes
    AttemptsCapped
PROPERTIES
    Drained
CHECK_DEADLOCK FALSE
