\* Four requests of two users race for one slot over two connections.
CONSTANTS
    Requests = {r1, r2, r3, r4}
    Slots = {s1}
    Users = {u1, u2}
    None = None
    MaxConns = 2
    RequestTimeout = 1
    MaxTime = 0
    StartAt <- MCStartAt
SYMMETRY MCSymmetry
SPECIFICATION MCSpec
INVARIANTS
    NoDoubleBooking
    OutboxMirrorsBookings
    CancelledByOwner
    AnswersMatchTables
    NoHoldAndWait
    NeverAllWait
PROPERTIES
    RowsOnlyAdvance
    ImplementsLedger
