\* The two events of a booking, one more message, a user who owns the booking
\* and one who does not, two failures (no symmetry).
CONSTANTS
    Bookings = {b1}
    Users = {u1, u2}
    Owner <- MCOwner
    None = None
    Invalid = Invalid
    Unknown = Unknown
    MaxMessages = 3
    MaxFailures = 2
SPECIFICATION PipelineSpec
INVARIANTS
    BroadcastAtMostOnce
    LossHasItsFailure
PROPERTIES
    ReadIsSticky
    ImplementsDelivery
    EveryFactKnown
    ShutdownEnds
