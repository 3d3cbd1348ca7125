\* One stream with one place in its channel: it stays open when it overflows.
CONSTANTS
    Streams = {s1}
    Tokens = {t1}
    Users = {u1}
    None = None
    MaxSubs = 1
    Capacity = 1
    TTL = 1
    MaxTime = 1
    MaxNotes = 3
SPECIFICATION Spec
INVARIANT
    OverflowDisconnects
