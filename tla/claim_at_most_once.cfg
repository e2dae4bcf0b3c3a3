\* One process, and nothing fails but a call to Telegram.
CONSTANTS
    k1 = k1
    k2 = k2
    w1 = w1
    w2 = w2
    w3 = w3
    p1 = p1
    p2 = p2
    Keys = {k1}
    NoAlert = none
    Processes = {p1}
    Workers = {w1, w2}
    ProcessOf <- TwoWorkers
    MaxAttempts = 3
    MaxCopies = 1
    MaxFaults = 0
SPECIFICATION Spec
INVARIANT
    AtMostOnceVisible
CHECK_DEADLOCK FALSE
