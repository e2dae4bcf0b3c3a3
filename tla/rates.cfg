\* Two replicas, three callers; a lifetime of two ticks, a grace of three.
CONSTANTS
    c1 = c1
    c2 = c2
    c3 = c3
    r1 = r1
    r2 = r2
    usd = usd
    eur = eur
    jpy = jpy
    Replicas = {r1, r2}
    Callers = {c1, c2, c3}
    ReplicaOf <- TwoReplicas
    NoCaller = none
    TTL = 2
    Grace = 3
    Hold = 1
    Patience = 1
    Currencies = {usd, eur, jpy}
    Base = usd
    MinorUnits <- Decimals
    Scale = 10
    MaxInt = 127
    Tables <- AllTables
    Amounts = {1, 2, 3, 5, 8, 13, 14, 15}
SPECIFICATION Spec
INVARIANTS
    TypeOK
    StaleBounded
    OneRequest
    SharedSpares
    MutexServes
    Accurate
    OrderKept
