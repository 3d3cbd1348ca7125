\* Two messages about one booking; TLC finds FailedInsertIsRepeated violated.
CONSTANTS
    Bookings = {b1}
    Users = {u1}
    Owner <- MCOwner
    None = None
    Invalid = Invalid
    Unknown = Unknown
    MaxMessages = 2
    MaxFailures = 1
SPECIFICATION Spec
INVARIANT
    FailedInsertIsRepeated
