\* Two currencies, conversions that come and go, readings that arrive late.
CONSTANTS
    Items = {i1}
    Currencies = {"RUB", "TRY"}
    NoCurrency = "none"
    Amounts = {2, 3}
    Stamps = {1, 2, 3}
    Targets <- OneTarget
    Intervals = {1}
    FailureStreakThreshold = 5
    MaxFailureBackoff = 1
    LeaseTicks = 1
    BatchSize = 0
    MaxStreak = 0
    MaxLate = 1
    HistoryLimit = 3
    Widths = {2, 5}
SPECIFICATION Spec
INVARIANTS
    TargetReached
    StatsTold
PROPERTIES
    MessagesTrue
    ImplementsLowWatch
