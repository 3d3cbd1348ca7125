------------------------------ MODULE RoomSlots ------------------------------
(***************************************************************************)
(* The bookable slots of booking-service.  A room gets one weekly          *)
(* schedule; the slots of a day are generated when they are first listed,  *)
(* by any number of requests at once, and listed without the booked ones.  *)
(*                                                                         *)
(* A request is one call of createSchedule or listSlots, a sequence of SQL *)
(* statements with a transaction each.  A statement writes its rows one by *)
(* one: they are visible when it ends, and until then another statement    *)
(* that meets one of them in the index waits.                              *)
(*                                                                         *)
(* Times are minutes; day d is the minutes from d * 1440 on, and day 0 is  *)
(* a Sunday.                                                               *)
(***************************************************************************)
EXTENDS Integers, FiniteSets, Sequences

CONSTANTS Requests,   \* calls of createSchedule and listSlots
          Rooms,      \* rooms that may be created
          None,       \* no row, no request
          DayLists,   \* daysOfWeek of the requests
          Times,      \* startTime and endTime of the requests
          Dates       \* dates of the requests

MinutesOfDay == 24 * 60

ASSUME TimeAssumption == /\ DayLists \subseteq Seq(Int)
                         /\ Times \subseteq 0 .. MinutesOfDay - 1
                         /\ Dates \subseteq Nat

VARIABLES rooms,      \* table rooms
          schedules,  \* schedules[m]: row of table schedules of room m, or None
          slots,      \* table slots
          booked,     \* slots with an active booking
          pc,         \* pc[q]: the next step of request q
          req,        \* req[q]: what q asks for
          todo,       \* todo[q]: rows q's INSERT has still to write
          held,       \* held[q]: rows written by q's INSERT, not yet committed
          answer      \* answer[q]: status and slots of the answer

tables == <<rooms, schedules, slots, booked>>
vars == <<tables, pc, req, todo, held, answer>>

Schedule == [days : SUBSET (1 .. 7), start : Times, end : Times]

ASSUME NoneAssumption == None \notin Schedule

Creation == [op : {"create"}, room : Rooms, schedule : Schedule]

Listing == [op : {"list"}, room : Rooms, date : Dates]

\* A slot row is told by the request that drew its uuid and by its start.
Slot == [by : Requests, room : Rooms, start : Nat]

NoAnswer == [status |-> 0, slots |-> {}]

Init ==
    /\ rooms = {}
    /\ schedules = [m \in Rooms |-> None]
    /\ slots = {}
    /\ booked = {}
    /\ pc = [q \in Requests |-> "new"]
    /\ req = [q \in Requests |-> None]
    /\ todo = [q \in Requests |-> <<>>]
    /\ held = [q \in Requests |-> {}]
    /\ answer = [q \in Requests |-> NoAnswer]

Goto(q, step) == pc' = [pc EXCEPT ![q] = step]

Answer(q, status, rows) ==
    /\ answer' = [answer EXCEPT ![q] = [status |-> status, slots |-> rows]]
    /\ Goto(q, "done")

(***************************************************************************)
(* Rooms and schedules.                                                    *)
(***************************************************************************)
CreateRoom(m) ==
    /\ m \notin rooms
    /\ rooms' = rooms \cup {m}
    /\ UNCHANGED <<schedules, slots, booked, pc, req, todo, held, answer>>

\* The checks of createSchedule; a day list must name no day twice.
Valid(days, start, end) ==
    /\ days # <<>>
    /\ \A i \in DOMAIN days : days[i] \in 1 .. 7 /\ \A j \in 1 .. i - 1 : days[j] # days[i]
    /\ start % 30 = 0 /\ end % 30 = 0
    /\ start < end

CreateSchedule(q) ==
    /\ pc[q] = "new"
    /\ \E m \in Rooms, days \in DayLists, start, end \in Times :
          IF Valid(days, start, end)
          THEN /\ req' = [req EXCEPT ![q] =
                            [op |-> "create", room |-> m,
                             schedule |-> [days |-> {days[i] : i \in DOMAIN days},
                                           start |-> start, end |-> end]]]
               /\ Goto(q, "insert")
               /\ UNCHANGED answer
          ELSE Answer(q, 400, {}) /\ UNCHANGED req
    /\ UNCHANGED <<tables, todo, held>>

\* Defect: the INSERT overwrites the schedule there is.
TakenNever(m) == m \notin Rooms

\* UNIQUE (room_id): the room has a schedule.
Taken(m) == schedules[m] # None

\* The INSERT: a foreign key, a unique index, and an answer that may be lost.
InsertSchedule(q) ==
    /\ pc[q] = "insert"
    /\ LET m == req[q].room IN
       \/ m \notin rooms /\ Answer(q, 404, {}) /\ UNCHANGED schedules
       \/ m \in rooms /\ Taken(m) /\ Answer(q, 409, {}) /\ UNCHANGED schedules
       \/ /\ m \in rooms /\ ~Taken(m)
          /\ schedules' = [schedules EXCEPT ![m] = req[q].schedule]
          /\ \E status \in {201, 500} : Answer(q, status, {})
    /\ UNCHANGED <<rooms, slots, booked, req, todo, held>>

(***************************************************************************)
(* Listing: the slots of a day are generated, inserted and read back.      *)
(***************************************************************************)
ListSlots(q) ==
    /\ pc[q] = "new"
    /\ \/ Answer(q, 400, {}) /\ UNCHANGED req
       \/ \E m \in Rooms, date \in Dates :
             /\ req' = [req EXCEPT ![q] = [op |-> "list", room |-> m, date |-> date]]
             /\ Goto(q, "room")
             /\ UNCHANGED answer
    /\ UNCHANGED <<tables, todo, held>>

RoomExists(q) ==
    /\ pc[q] = "room"
    /\ IF req[q].room \in rooms
       THEN Goto(q, "schedule") /\ UNCHANGED answer
       ELSE Answer(q, 404, {})
    /\ UNCHANGED <<tables, req, todo, held>>

\* Defect: Sunday stays day 0.
IsDayInGoSchedule(date, days) == date % 7 \in days

\* isDayInSchedule: Go counts Sunday as 0, the schedule as 7.
IsDayInSchedule(date, days) == (IF date % 7 = 0 THEN 7 ELSE date % 7) \in days

\* Defect: the slots begin every quarter of an hour.
GenerateQuarters(date, start, end) ==
    [i \in 1 .. (end - start - 15) \div 15 |-> date * MinutesOfDay + start + (i - 1) * 15]

\* generateSlots: starts of the slots, from the start of the window on, while
\* a slot of 30 minutes ends in it.
GenerateSlots(date, start, end) ==
    [i \in 1 .. (end - start) \div 30 |-> date * MinutesOfDay + start + (i - 1) * 30]

\* What the request has to insert, in the order of the statement's arrays.
Generated(q, sch) ==
    LET starts == GenerateSlots(req[q].date, sch.start, sch.end)
    IN  [i \in DOMAIN starts |-> [by |-> q, room |-> req[q].room, start |-> starts[i]]]

\* Without rows EnsureSlots sends no statement.
GetSchedule(q) ==
    /\ pc[q] = "schedule"
    /\ LET sch == schedules[req[q].room]
           open == sch # None /\ IsDayInSchedule(req[q].date, sch.days) IN
       \/ /\ ~open
          /\ Answer(q, 200, {})
          /\ UNCHANGED todo
       \/ /\ open
          /\ todo' = [todo EXCEPT ![q] = Generated(q, sch)]
          /\ Goto(q, IF Generated(q, sch) = <<>> THEN "list" ELSE "ensure")
          /\ UNCHANGED answer
    /\ UNCHANGED <<tables, req, held>>

Same(a, b) == a.room = b.room /\ a.start = b.start

\* Index entries of open statements that q's next row meets.
WaitsFor(q) == {p \in Requests \ {q} : \E row \in held[p] : Same(row, Head(todo[q]))}

\* Defect: without ON CONFLICT a second row is stored.
MetNever(row) == row \notin Slot

\* ON CONFLICT (room_id, start_at) DO NOTHING.
Met(row) == \E s \in slots : Same(s, row)

\* Defect: the rows are written in no given order.
InsertRowInAnyOrder(q) ==
    /\ pc[q] = "ensure"
    /\ \E i \in DOMAIN todo[q] :
          LET row == todo[q][i] IN
          /\ \A p \in Requests \ {q} : \A other \in held[p] : ~Same(other, row)
          /\ held' = [held EXCEPT ![q] = IF Met(row) THEN @ ELSE @ \cup {row}]
          /\ todo' = [todo EXCEPT ![q] = SubSeq(@, 1, i - 1) \o SubSeq(@, i + 1, Len(@))]
    /\ UNCHANGED <<tables, pc, req, answer>>

\* EnsureSlots writes its next row.
InsertRow(q) ==
    /\ pc[q] = "ensure"
    /\ todo[q] # <<>>
    /\ WaitsFor(q) = {}
    /\ held' = [held EXCEPT ![q] = IF Met(Head(todo[q])) THEN @ ELSE @ \cup {Head(todo[q])}]
    /\ todo' = [todo EXCEPT ![q] = Tail(@)]
    /\ UNCHANGED <<tables, pc, req, answer>>

\* The statement ends: its rows are committed, or the answer to it is lost.
EndInsert(q) ==
    /\ pc[q] = "ensure"
    /\ todo[q] = <<>>
    /\ slots' = slots \cup held[q]
    /\ held' = [held EXCEPT ![q] = {}]
    /\ \/ Goto(q, "list") /\ UNCHANGED answer
       \/ Answer(q, 500, {})
    /\ UNCHANGED <<rooms, schedules, booked, req, todo>>

\* start_at >= dayStart AND start_at < dayEnd
InRange(q, s) ==
    /\ s.start >= req[q].date * MinutesOfDay
    /\ s.start < (req[q].date + 1) * MinutesOfDay

\* ListAvailableByRoomAndDate
List(q) ==
    /\ pc[q] = "list"
    /\ Answer(q, 200, {s \in slots \ booked : s.room = req[q].room /\ InRange(q, s)})
    /\ UNCHANGED <<tables, req, todo, held>>

\* Defect: what a failed insertion has written stays.
FailKeepsRows(q) ==
    /\ pc[q] \in {"insert", "room", "schedule", "ensure", "list"}
    /\ slots' = slots \cup held[q]
    /\ held' = [held EXCEPT ![q] = {}]
    /\ todo' = [todo EXCEPT ![q] = <<>>]
    /\ Answer(q, 500, {})
    /\ UNCHANGED <<rooms, schedules, booked, req>>

\* A statement fails, or the deadline of the request ends it: nothing of it
\* stays.
Fail(q) ==
    /\ pc[q] \in {"insert", "room", "schedule", "ensure", "list"}
    /\ held' = [held EXCEPT ![q] = {}]
    /\ todo' = [todo EXCEPT ![q] = <<>>]
    /\ Answer(q, 500, {})
    /\ UNCHANGED <<tables, req>>

(***************************************************************************)
(* Bookings of the slots (see BookingService) and the end of the process.  *)
(***************************************************************************)
Book(s) ==
    /\ s \in slots \ booked
    /\ booked' = booked \cup {s}
    /\ UNCHANGED <<rooms, schedules, slots, pc, req, todo, held, answer>>

CancelBooking(s) ==
    /\ s \in booked
    /\ booked' = booked \ {s}
    /\ UNCHANGED <<rooms, schedules, slots, pc, req, todo, held, answer>>

\* The process dies: its statements abort, its clients get no answer.
Crash ==
    /\ pc' = [q \in Requests |-> IF pc[q] = "new" THEN "new" ELSE "done"]
    /\ held' = [q \in Requests |-> {}]
    /\ todo' = [q \in Requests |-> <<>>]
    /\ UNCHANGED <<tables, req, answer>>

Step(q) ==
    \/ InsertSchedule(q) \/ RoomExists(q) \/ GetSchedule(q)
    \/ InsertRow(q) \/ EndInsert(q) \/ List(q)

Next ==
    \/ \E m \in Rooms : CreateRoom(m)
    \/ \E q \in Requests : CreateSchedule(q) \/ ListSlots(q) \/ Step(q) \/ Fail(q)
    \/ \E s \in slots : Book(s) \/ CancelBooking(s)
    \/ Crash

Spec == Init /\ [][Next]_vars

\* Goroutines are scheduled and PostgreSQL answers; no client is required.
FairSpec == Spec /\ \A q \in Requests : WF_vars(Step(q))

(***************************************************************************)
(* Properties.                                                             *)
(***************************************************************************)

\* Type invariant of the tables, the requests and the statements under way.
TypeOK ==
    /\ rooms \subseteq Rooms
    /\ schedules \in [Rooms -> Schedule \cup {None}]
    /\ slots \subseteq Slot /\ booked \subseteq slots
    /\ pc \in [Requests -> {"new", "insert", "room", "schedule", "ensure", "list", "done"}]
    /\ req \in [Requests -> Creation \cup Listing \cup {None}]
    /\ todo \in [Requests -> Seq(Slot)]
    /\ held \in [Requests -> SUBSET Slot]
    /\ answer \in [Requests -> [status : {0, 200, 201, 400, 404, 409, 500}, slots : SUBSET Slot]]

\* Half hours of date in which the room is open, by the calendar.
OpenStarts(m, date) ==
    LET sch == schedules[m] IN
    IF sch = None \/ 1 + ((date + 6) % 7) \notin sch.days THEN {}
    ELSE {date * MinutesOfDay + 30 * h :
             h \in {k \in 0 .. 47 : sch.start <= 30 * k /\ 30 * k + 30 <= sch.end}}

StartsOf(rows, m, date) ==
    {s.start : s \in {r \in rows : r.room = m /\ r.start \div MinutesOfDay = date}}

\* However many requests generate a day at once, no half hour of a room is
\* stored twice, under two uuids that could both be booked, and no two slots
\* overlap (each request draws uuids of its own and only the start is unique).
SlotsDisjoint ==
    \A a, b \in slots : a # b /\ a.room = b.room =>
        a.start + 30 <= b.start \/ b.start + 30 <= a.start

\* Whatever fails, dies or is not acknowledged, the slots of a day are stored
\* together or not at all, for the schedule of their room.
DayIsWhole ==
    \A m \in Rooms, date \in Dates :
        StartsOf(slots, m, date) \in {{}, OpenStarts(m, date)}

\* A list has every open half hour of the day but the booked ones, and nothing
\* else, also when other requests are inserting the same slots meanwhile.
ListIsComplete ==
    [][\A q \in Requests : pc[q] # "done" /\ answer'[q].status = 200 =>
          LET m == req[q].room
              date == req[q].date
          IN  {s.start : s \in answer'[q].slots} =
                 OpenStarts(m, date) \ StartsOf(booked, m, date)]_vars

\* Of the requests that create the schedule of a room one at most is told that
\* it did, and its schedule is the one that stays.
CreatedScheduleStays ==
    \A q \in Requests : answer[q].status = 201 =>
        /\ schedules[req[q].room] = req[q].schedule
        /\ \A p \in Requests : answer[p].status = 201 /\ req[p].room = req[q].room => p = q

\* Every request is answered, without any statement having to fail: requests
\* that wait for the rows of one another do so in one order.
EveryRequestAnswered ==
    \A q \in Requests : (pc[q] # "new") ~> (pc[q] = "done")
=============================================================================
