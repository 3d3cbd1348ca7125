\* Two processes that share the table, the two events of a booking, failures
\* and restarts (no symmetry: it also checks liveness).
CONSTANTS
    Bookings = {b1}
    Processes = {p1, p2}
    BatchSize = 2
    MaxClock = 2
    MaxFailures = 2
SPECIFICATION FairSpec
INVARIANTS
    SentWasPublished
    PerBookingOrder
    PublishedOnce
PROPERTIES
    SentIsFinal
    ImplementsTopic
    EveryEventSent
    ShutdownEnds
