\* Two fair requests over two slots and two connections, while the clock passes
\* the start of the slots and a client walks through pages of one or two rows
\* of a table with two older ones.
CONSTANTS
    Requests = {r1, r2}
    Slots = {s1, s2}
    Users = {u1, u2}
    None = None
    Later = o1
    Earlier = o2
    MaxConns = 2
    RequestTimeout = 1
    MaxTime = 2
    MaxPage = 2
    PageSizes = {1, 2}
    StartAt <- MCStartAt
    ArchivedAt <- MCArchivedAt
SPECIFICATION ListSpec
INVARIANTS
    WalkSeesAll
    ListsMatchAnswers
PROPERTIES
    LateBookingUnacknowledged
    EveryRequestAnswered
