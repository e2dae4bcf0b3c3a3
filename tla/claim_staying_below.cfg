CONSTANTS
    Items = {i1}
    Currencies = {"RUB", "TRY"}
    NoCurrency = "none"
    Amounts = {1, 2}
    Stamps = {1, 2, 3}
    Targets <- HighTarget
    Intervals = {1}
    FailureStreakThreshold = 2
    MaxFailureBackoff = 2
    LeaseTicks = 1
    BatchSize = 1
    MaxStreak = 0
    MaxLate = 0
SPECIFICATION Spec
PROPERTY
    StayingBelowIsSilent
