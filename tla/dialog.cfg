\* Three products, two of them at most tracked, two currencies, two updates at a time;
\* amounts of every width; stores of two users with room for two of three links each.
CONSTANTS
    Handlers = {h1, h2}
    Urls = {a, b, c}
    Currencies = {usd, eur}
    DefaultCurrency = usd
    MaxItemsPerUser = 1
    Amounts <- EveryWidth
    Accounts = {u1, u2}
    Links = {x, y, z}
    StoreLimit = 2
    MaxHeld = 3
    Second = 2
    MinCheckInterval = 4
    MaxCheckInterval = 8
    DefaultInterval = 6
SPECIFICATION Spec
SYMMETRY Symmetric
INVARIANTS
    TypeOK
    OneDialogue
    ChosenCurrency
    OvershootBounded
    PriceRead
    ThresholdRead
    AnswersAgree
