\* A request cancels the booking of another user.
CONSTANTS
    Requests = {r1, r2}
    Slots = {s1}
    Users = {u1, u2}
    None = None
    MaxConns = 2
    RequestTimeout = 1
    MaxTime = 0
    StartAt <- MCStartAt
SPECIFICATION Spec
INVARIANT ForeignCancelIsForbidden
