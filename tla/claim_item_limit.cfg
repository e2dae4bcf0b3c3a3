\* Two overlapping updates, each with a link of its own.
CONSTANTS
    Handlers = {h1, h2}
    Urls = {a, b}
    Currencies = {usd}
    DefaultCurrency = usd
    MaxItemsPerUser = 1
    Amounts <- EveryWidth
    Accounts = {u1}
    Links = {x}
    StoreLimit = 1
    MaxHeld = 1
    Second = 2
    MinCheckInterval = 4
    MaxCheckInterval = 8
    DefaultInterval = 6
SPECIFICATION Spec
SYMMETRY Symmetric
INVARIANT
    LimitHolds
