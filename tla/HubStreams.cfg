\* Three streams and tokens of two users, two streams per user, one place in
\* a channel; a token is valid in the instant it is issued in; lists of one row
\* for the clients of up to two streams.
CONSTANTS
    Streams = {s1, s2, s3}
    Tokens = {t1, t2, t3}
    Users = {u1, u2}
    None = None
    MaxSubs = 2
    Capacity = 1
    TTL = 0
    MaxTime = 1
    MaxNotes = 2
    ListLimit = 1
SYMMETRY MCSymmetry
SPECIFICATION MCSpec
INVARIANTS
    SubscribedWhileOpen
    ShownInOrder
    NotesAccounted
    BroadcastNeverWaits
    
PROPERTY
    TokenOpensOneStream
