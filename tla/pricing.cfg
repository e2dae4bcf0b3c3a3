\* One item, one currency, readings in order.
CONSTANTS
    Items = {i1}
    Currencies = {"RUB"}
    NoCurrency = "none"
    Amounts = {1, 2, 3}
    Stamps = {1, 2, 3}
    Targets <- TwoTargets
    Intervals = {1, 3}
    FailureStreakThreshold = 2
    MaxFailureBackoff = 2
    LeaseTicks = 2
    BatchSize = 1
    MaxStreak = 3
    MaxLate = 0
SPECIFICATION Spec
INVARIANTS
    TypeOK
    ScheduleBound
    LeasedIsDue
    StockLedger
PROPERTIES
    NewLowReported
    MessagesTrue
