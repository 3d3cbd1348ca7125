\* One process, no failure: the relay can have drained before HTTP is closed.
CONSTANTS
    Bookings = {b1}
    Processes = {p1}
    BatchSize = 2
    MaxClock = 2
    MaxFailures = 0
SPECIFICATION Spec
INVARIANT
    CleanShutdownDrains
