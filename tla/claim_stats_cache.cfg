\* Two windows of one item, one request at a time.
CONSTANTS
    i1 = i1
    u1 = u1
    u2 = u2
    Items = {i1}
    Windows = {day, week}
    Users = {u1, u2}
    OwnerOf <- OneOwner
    Readers = {r1}
    TTL = 2
    CallTimeout = 1
    MaxTime = 2
    MaxSnapshots = 2
SPECIFICATION Spec
PROPERTIES
    DropsEveryWindow
