\* Two items, one of which core refuses, two processes, two faults.
CONSTANTS
    w1 = w1
    w2 = w2
    w3 = w3
    p1 = p1
    p2 = p2
    Items = {i1, i2}
    Silent = {i2}
    NoItem = none
    Processes = {p1, p2}
    Workers = {w1, w2, w3}
    ProcessOf <- ThreeWorkers
    BatchSize = 2
    MaxReports = 1
    MaxFaults = 2
    Hosts = {"a", "b"}
    PerHostGap = 2
    MaxRetries = 2
    Decimals <- ShopDecimals
    WbCurrency = "RUB"
    Amounts = {199900, 123456, 1234567, 50}
    Requests = 4
SPECIFICATION FairSpec
INVARIANTS
    TypeOK
    OneHolder
    QueuedInOrder
    NothingMissing
    HostsSpared
    PagesRead
PROPERTIES
    Attempted
CHECK_DEADLOCK FALSE
