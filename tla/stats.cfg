\* One item, its owner and a stranger, two requests at a time.
CONSTANTS
    i1 = i1
    u1 = u1
    u2 = u2
    Items = {i1}
    Windows = {day}
    Users = {u1, u2}
    OwnerOf <- OneOwner
    Readers = {r1, r2}
    TTL = 2
    CallTimeout = 1
    MaxTime = 5
    MaxSnapshots = 2
SPECIFICATION Spec
INVARIANTS
    TypeOK
    AnswersOwner
    StaleBounded
