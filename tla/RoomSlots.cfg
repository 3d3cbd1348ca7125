\* Three requests about one room, a Sunday and a Monday; windows of one and
\* two slots, and a time that is not on the half hour.
CONSTANTS
    Requests = {q1, q2, q3}
    Rooms = {m1}
    None = None
    DayLists <- MCDayLists
    Times = {540, 555, 570, 600}
    Dates = {0, 1}
SPECIFICATION FairSpec
INVARIANTS
    SlotsDisjoint
    DayIsWhole
    CreatedScheduleStays
PROPERTIES
    ListIsComplete
    EveryRequestAnswered
