CONSTANTS
    Items = {i1}
    Currencies = {"RUB"}
    NoCurrency = "none"
    Amounts = {1, 2}
    Stamps = {1, 2, 3, 4}
    Targets <- OneTarget
    Intervals = {1}
    FailureStreakThreshold = 2
    MaxFailureBackoff = 2
    LeaseTicks = 1
    BatchSize = 1
    MaxStreak = 0
    MaxLate = 0
SPECIFICATION Spec
PROPERTY
    DropAfterBounceReported
