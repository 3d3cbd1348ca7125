--------------------------- MODULE RoomSlotsProofs ---------------------------
(***************************************************************************)
(* Proofs about RoomSlots for any number of requests and rooms, any        *)
(* schedules, days and windows.                                            *)
(*                                                                         *)
(* That no half hour is stored twice rests on the rows that statements     *)
(* have written and not committed: they differ from one another, because   *)
(* a statement waits for those of others and has a half hour only once,    *)
(* and from the rows that are committed, because what was committed since  *)
(* a row was written would have had to wait for it.                        *)
(*                                                                         *)
(* That a day is stored as a whole and listed as a whole rests on what a   *)
(* statement has yet to write: with what it has written and what is in the *)
(* table, it makes up the day at every step.                               *)
(***************************************************************************)
EXTENDS RoomSlots, WellFoundedInduction, TLAPS

\* A window that Valid accepts.
Window(sch) == sch.start % 30 = 0 /\ sch.end % 30 = 0 /\ sch.start < sch.end

\* Which request is at which step, and what it asks for.
ControlOf(q) ==
    /\ pc[q] = "insert" => req[q] \in Creation /\ Window(req[q].schedule)
    /\ pc[q] \in {"room", "schedule", "ensure", "list"} => req[q] \in Listing
    /\ pc[q] = "new" => req[q] = None
    /\ pc[q] \in {"new", "insert", "room", "schedule"} => answer[q] = NoAnswer
    /\ pc[q] # "ensure" => held[q] = {} /\ todo[q] = <<>>

Control == \A q \in Requests : ControlOf(q)

Windows == \A m \in Rooms : schedules[m] # None => Window(schedules[m])

\* The rows a statement has yet to write come in the order of their starts.
TodoInOrder ==
    \A q \in Requests : \A i, j \in 1 .. Len(todo[q]) :
        /\ todo[q][i].by = q /\ todo[q][i].start % 30 = 0
        /\ todo[q][i].room = todo[q][j].room
        /\ i < j => todo[q][i].start < todo[q][j].start

\* Rows that are written begin at half hours; those of open statements come
\* before what the statement has yet to write.
HeldFirst ==
    \A q \in Requests : \A h \in held[q] :
        /\ h.by = q /\ h.start % 30 = 0
        /\ \A i \in 1 .. Len(todo[q]) :
              h.room = todo[q][i].room /\ h.start < todo[q][i].start

HalfHours == \A s \in slots : s.start % 30 = 0

\* No two rows, committed or not, are for one half hour of a room.
Unique ==
    /\ \A a, b \in slots : Same(a, b) => a = b
    /\ \A q \in Requests : \A a, b \in held[q] : Same(a, b) => a = b
    /\ \A q \in Requests : \A a \in held[q], b \in slots : ~Same(a, b)
    /\ \A p, q \in Requests : p # q =>
          \A a \in held[p], b \in held[q] : ~Same(a, b)

\* An acknowledged creation has its schedule in the table, and no other
\* creation for the room is acknowledged.
Acknowledged ==
    \A q \in Requests : answer[q].status = 201 =>
        /\ pc[q] = "done" /\ req[q] \in Creation
        /\ schedules[req[q].room] = req[q].schedule
        /\ \A p \in Requests : answer[p].status = 201 /\ req[p].room = req[q].room => p = q

Inv ==
    /\ TypeOK /\ Control /\ Windows
    /\ TodoInOrder /\ HeldFirst /\ HalfHours /\ Unique
    /\ Acknowledged

-----------------------------------------------------------------------------
\* A whole number of half hours after a half hour is one.
LEMMA HalfHourSteps ==
    /\ \A f, i \in Nat : f % 30 = 0 => (f + i * 30) % 30 = 0
    /\ \A d, t \in Nat : t % 30 = 0 => (d * 1440 + t) % 30 = 0
OBVIOUS

\* The rows of a day: in order, at half hours, all of one room.
LEMMA GeneratedRows ==
    ASSUME NEW q \in Requests, req[q] \in Listing,
           NEW sch \in Schedule, Window(sch)
    PROVE  /\ Generated(q, sch) \in Seq(Slot)
           /\ \A i, j \in 1 .. Len(Generated(q, sch)) :
                /\ Generated(q, sch)[i].by = q
                /\ Generated(q, sch)[i].start % 30 = 0
                /\ Generated(q, sch)[i].room = Generated(q, sch)[j].room
                /\ i < j => Generated(q, sch)[i].start < Generated(q, sch)[j].start
<1> DEFINE n == (sch.end - sch.start) \div 30
           first == req[q].date * MinutesOfDay + sch.start
<1>1. MinutesOfDay = 1440
  BY DEF MinutesOfDay
<1>2. sch.start \in Times /\ sch.end \in Times /\ req[q].date \in Dates /\ req[q].room \in Rooms
  BY DEF Schedule, Listing
<1>3. /\ sch.start \in Nat /\ sch.end \in Nat /\ req[q].date \in Nat
      /\ sch.start % 30 = 0 /\ sch.start < sch.end
  <2>1. Times \subseteq Nat /\ Dates \subseteq Nat
    BY <1>1, TimeAssumption
  <2>2. sch.start % 30 = 0 /\ sch.start < sch.end
    BY DEF Window
  <2> QED BY <1>2, <2>1, <2>2
<1>4. n \in Nat
  BY <1>3
<1>5. first \in Nat /\ first % 30 = 0
  BY <1>1, <1>3, HalfHourSteps
<1> HIDE DEF n, first
<1>6. Generated(q, sch) =
        [i \in 1 .. n |-> [by |-> q, room |-> req[q].room, start |-> first + (i - 1) * 30]]
  BY DEF Generated, GenerateSlots, n, first
<1>7. ASSUME NEW i \in 1 .. n
      PROVE  first + (i - 1) * 30 \in Nat /\ (first + (i - 1) * 30) % 30 = 0
  <2>1. i - 1 \in Nat
    BY <1>4
  <2> QED BY <1>5, <2>1, HalfHourSteps
<1>8. Generated(q, sch) \in Seq(Slot) /\ Len(Generated(q, sch)) = n
  BY <1>2, <1>4, <1>6, <1>7 DEF Slot
<1>9. ASSUME NEW i \in 1 .. n, NEW j \in 1 .. n
      PROVE  /\ Generated(q, sch)[i].by = q
             /\ Generated(q, sch)[i].start % 30 = 0
             /\ Generated(q, sch)[i].room = Generated(q, sch)[j].room
             /\ i < j => Generated(q, sch)[i].start < Generated(q, sch)[j].start
  BY <1>4, <1>5, <1>6, <1>7
<1> QED BY <1>8, <1>9

\* A request that is answered and keeps nothing open.
LEMMA AnswerTypes ==
    ASSUME TypeOK, NEW q \in Requests,
           NEW status \in {0, 200, 201, 400, 404, 409, 500}, NEW rows \in SUBSET Slot,
           Answer(q, status, rows)
    PROVE  /\ answer' \in [Requests -> [status : {0, 200, 201, 400, 404, 409, 500},
                                        slots : SUBSET Slot]]
           /\ pc' \in [Requests -> {"new", "insert", "room", "schedule", "ensure", "list", "done"}]
           /\ answer'[q] = [status |-> status, slots |-> rows] /\ pc'[q] = "done"
           /\ \A p \in Requests \ {q} : answer'[p] = answer[p] /\ pc'[p] = pc[p]
BY DEF TypeOK, Answer, Goto

\* What has been written and what has yet to be is as it was.
LEMMA SameRows ==
    ASSUME Inv, UNCHANGED <<slots, todo, held>>
    PROVE  TodoInOrder' /\ HeldFirst' /\ HalfHours' /\ Unique'
BY DEF Inv, TodoInOrder, HeldFirst, HalfHours, Unique

\* Nobody is told anew that a schedule was created.
LEMMA SameAcknowledged ==
    ASSUME Inv, UNCHANGED schedules,
           \A p \in Requests : answer'[p].status = 201 =>
              answer[p].status = 201 /\ req'[p] = req[p] /\ pc'[p] = pc[p]
    PROVE  Acknowledged'
BY DEF Inv, Acknowledged

\* A statement under way is over, and nothing of it stays.
Emptied(q) == held' = [held EXCEPT ![q] = {}] /\ todo' = [todo EXCEPT ![q] = <<>>]

\* A request that waits for nothing any more is answered.
LEMMA AnswerKeeps ==
    ASSUME Inv, NEW q \in Requests, NEW status \in {0, 200, 400, 404, 409, 500},
           NEW rows \in SUBSET Slot,
           Answer(q, status, rows), UNCHANGED <<tables, req>>, Emptied(q)
    PROVE  Inv'
<1>1. /\ answer' \in [Requests -> [status : {0, 200, 201, 400, 404, 409, 500},
                                  slots : SUBSET Slot]]
      /\ pc' \in [Requests -> {"new", "insert", "room", "schedule", "ensure", "list", "done"}]
      /\ answer'[q] = [status |-> status, slots |-> rows] /\ pc'[q] = "done"
      /\ \A p \in Requests \ {q} : answer'[p] = answer[p] /\ pc'[p] = pc[p]
  BY AnswerTypes DEF Inv
<1>2. /\ todo' \in [Requests -> Seq(Slot)] /\ held' \in [Requests -> SUBSET Slot]
      /\ todo'[q] = <<>> /\ held'[q] = {}
      /\ \A p \in Requests \ {q} : todo'[p] = todo[p] /\ held'[p] = held[p]
  BY DEF Inv, TypeOK, Emptied
<1>3. TypeOK'
  BY <1>1, <1>2 DEF Inv, TypeOK, tables
<1>4. Control'
  <2>1. ControlOf(q)'
    BY <1>1, <1>2 DEF ControlOf
  <2>2. ASSUME NEW p \in Requests \ {q} PROVE ControlOf(p)'
    <3>1. /\ pc'[p] = pc[p] /\ req'[p] = req[p] /\ answer'[p] = answer[p]
          /\ todo'[p] = todo[p] /\ held'[p] = held[p]
      BY <1>1, <1>2
    <3>2. ControlOf(p)
      BY DEF Inv, Control
    <3> QED BY <3>1, <3>2 DEF ControlOf
  <2> QED BY <2>1, <2>2 DEF Control
<1>5. Windows'
  BY DEF Inv, Windows, tables
<1>6. TodoInOrder' /\ HeldFirst' /\ HalfHours' /\ Unique'
  <2>1. /\ Len(<<>>) = 0 /\ UNCHANGED slots
        /\ \A p \in Requests : /\ todo'[p] \in {todo[p], <<>>}
                              /\ held'[p] \subseteq held[p]
    BY <1>2 DEF tables
  <2>2. TodoInOrder'
    BY <2>1 DEF Inv, TodoInOrder
  <2>3. HeldFirst'
    BY <2>1 DEF Inv, HeldFirst
  <2>4. HalfHours' /\ Unique'
    BY <2>1 DEF Inv, HalfHours, Unique
  <2> QED BY <2>2, <2>3, <2>4
<1>7. Acknowledged'
  BY <1>1, SameAcknowledged DEF tables
<1> QED BY <1>3, <1>4, <1>5, <1>6, <1>7 DEF Inv

\* The same, when there was nothing open.
LEMMA AnswerKeepsAll ==
    ASSUME Inv, NEW q \in Requests, NEW status \in {0, 200, 400, 404, 409, 500},
           NEW rows \in SUBSET Slot, pc[q] \notin {"done", "ensure"},
           Answer(q, status, rows), UNCHANGED <<tables, req, todo, held>>
    PROVE  Inv'
<1>1. held[q] = {} /\ todo[q] = <<>>
  BY DEF Inv, Control, ControlOf
<1>2. Emptied(q)
  BY <1>1 DEF Inv, TypeOK, Emptied
<1> QED BY <1>2, AnswerKeeps

\* A request that has written nothing moves on.
LEMMA StepKeeps ==
    ASSUME Inv, NEW q \in Requests, pc[q] # "done",
           NEW step \in {"insert", "room", "schedule"}, Goto(q, step),
           NEW what \in Creation \cup Listing, req' = [req EXCEPT ![q] = what],
           step = "insert" => what \in Creation /\ Window(what.schedule),
           step # "insert" => what \in Listing,
           UNCHANGED <<tables, todo, held, answer>>,
           answer[q] = NoAnswer, held[q] = {}, todo[q] = <<>>
    PROVE  Inv'
<1>1. /\ pc' \in [Requests -> {"new", "insert", "room", "schedule", "ensure", "list", "done"}]
      /\ req' \in [Requests -> Creation \cup Listing \cup {None}]
      /\ pc'[q] = step /\ req'[q] = what
      /\ \A p \in Requests \ {q} : pc'[p] = pc[p] /\ req'[p] = req[p]
  BY DEF Inv, TypeOK, Goto
<1>2. TypeOK'
  BY <1>1 DEF Inv, TypeOK, tables
<1>3. Control'
  BY <1>1 DEF Inv, Control, ControlOf
<1>4. Windows'
  BY DEF Inv, Windows, tables
<1>5. TodoInOrder' /\ HeldFirst' /\ HalfHours' /\ Unique'
  BY SameRows DEF tables
<1>6. Acknowledged'
  BY <1>1, SameAcknowledged DEF tables, NoAnswer
<1> QED BY <1>2, <1>3, <1>4, <1>5, <1>6 DEF Inv

-----------------------------------------------------------------------------
\* The first state.
LEMMA Initially == Init => Inv
<1> SUFFICES ASSUME Init PROVE Inv
  OBVIOUS
<1>1. TypeOK
  BY DEF Init, TypeOK, NoAnswer
<1>2. Control /\ Windows /\ Acknowledged
  BY DEF Init, Control, ControlOf, Windows, Acknowledged, NoAnswer
<1>3. TodoInOrder /\ HeldFirst /\ HalfHours /\ Unique
  BY DEF Init, TodoInOrder, HeldFirst, HalfHours, Unique
<1> QED BY <1>1, <1>2, <1>3 DEF Inv

\* Rooms are created, slots are booked and become free.
LEMMA OthersKeep ==
    ASSUME Inv, UNCHANGED <<schedules, slots, pc, req, todo, held, answer>>,
           rooms' \subseteq Rooms, booked' \subseteq slots
    PROVE  Inv'
<1>1. TypeOK' /\ Control' /\ Windows' /\ Acknowledged'
  BY DEF Inv, TypeOK, Control, ControlOf, Windows, Acknowledged
<1> QED BY <1>1, SameRows DEF Inv

\* createSchedule arrives.
LEMMA CreateScheduleKeeps ==
    ASSUME Inv, NEW q \in Requests, CreateSchedule(q)
    PROVE  Inv'
<1>1. PICK m \in Rooms, days \in DayLists, start \in Times, end \in Times :
        IF Valid(days, start, end)
        THEN /\ req' = [req EXCEPT ![q] =
                          [op |-> "create", room |-> m,
                           schedule |-> [days |-> {days[i] : i \in DOMAIN days},
                                         start |-> start, end |-> end]]]
             /\ Goto(q, "insert")
             /\ UNCHANGED answer
        ELSE Answer(q, 400, {}) /\ UNCHANGED req
  BY DEF CreateSchedule
<1>2. pc[q] = "new" /\ UNCHANGED <<tables, todo, held>>
  BY DEF CreateSchedule
<1>3. answer[q] = NoAnswer /\ held[q] = {} /\ todo[q] = <<>>
  BY <1>2 DEF Inv, Control, ControlOf
<1>4. CASE Valid(days, start, end)
  <2> DEFINE sch == [days |-> {days[i] : i \in DOMAIN days}, start |-> start, end |-> end]
             what == [op |-> "create", room |-> m, schedule |-> sch]
  <2>1. {days[i] : i \in DOMAIN days} \in SUBSET (1 .. 7)
    BY <1>4 DEF Valid
  <2>2. sch \in Schedule /\ Window(sch)
    BY <1>4, <2>1 DEF Valid, Schedule, Window
  <2>3. what \in Creation
    BY <2>2 DEF Creation
  <2>4. req' = [req EXCEPT ![q] = what] /\ Goto(q, "insert") /\ UNCHANGED answer
    BY <1>1, <1>4
  <2>5. what.schedule = sch /\ pc[q] # "done"
    BY <1>2
  <2> HIDE DEF what, sch
  <2> QED BY <1>2, <1>3, <2>2, <2>3, <2>4, <2>5, StepKeeps
<1>5. CASE ~Valid(days, start, end)
  BY <1>1, <1>2, <1>5, AnswerKeepsAll
<1> QED BY <1>4, <1>5

\* The INSERT of a schedule: the only step that acknowledges one.
LEMMA InsertScheduleKeeps ==
    ASSUME Inv, NEW q \in Requests, InsertSchedule(q)
    PROVE  Inv'
<1> DEFINE m == req[q].room
<1>1. /\ pc[q] = "insert" /\ req[q] \in Creation /\ Window(req[q].schedule)
      /\ answer[q] = NoAnswer /\ m \in Rooms /\ req[q].schedule \in Schedule
      /\ UNCHANGED <<rooms, slots, booked, req, todo, held>>
  BY DEF InsertSchedule, Inv, Control, ControlOf, Creation
<1>2. CASE UNCHANGED schedules /\ \E status \in {404, 409} : Answer(q, status, {})
  BY <1>1, <1>2, AnswerKeepsAll DEF tables
<1>3. CASE /\ schedules[m] = None
           /\ schedules' = [schedules EXCEPT ![m] = req[q].schedule]
           /\ \E status \in {201, 500} : Answer(q, status, {})
  <2>1. PICK status \in {201, 500} : Answer(q, status, {})
    BY <1>3
  <2>2. /\ answer' \in [Requests -> [status : {0, 200, 201, 400, 404, 409, 500},
                                    slots : SUBSET Slot]]
        /\ pc' \in [Requests -> {"new", "insert", "room", "schedule", "ensure", "list", "done"}]
        /\ answer'[q] = [status |-> status, slots |-> {}] /\ pc'[q] = "done"
        /\ \A p \in Requests \ {q} : answer'[p] = answer[p] /\ pc'[p] = pc[p]
    BY <2>1, AnswerTypes DEF Inv
  <2>3. /\ schedules' \in [Rooms -> Schedule \cup {None}] /\ schedules'[m] = req[q].schedule
        /\ \A r \in Rooms \ {m} : schedules'[r] = schedules[r]
    BY <1>1, <1>3 DEF Inv, TypeOK
  <2>4. TypeOK'
    BY <1>1, <2>2, <2>3 DEF Inv, TypeOK
  <2>5. Control'
    BY <1>1, <2>2 DEF Inv, Control, ControlOf
  <2>6. Windows'
    BY <1>1, <2>3 DEF Inv, Windows
  <2>7. TodoInOrder' /\ HeldFirst' /\ HalfHours' /\ Unique'
    BY <1>1, SameRows
  <2>8. \A p \in Requests : answer[p].status = 201 =>
          p # q /\ req[p] \in Creation /\ req[p].room # m
    <3> SUFFICES ASSUME NEW p \in Requests, answer[p].status = 201
                 PROVE  p # q /\ req[p] \in Creation /\ req[p].room # m
      OBVIOUS
    <3>1. p # q
      BY <1>1 DEF NoAnswer
    <3>2. req[p] \in Creation /\ schedules[req[p].room] = req[p].schedule
      BY DEF Inv, Acknowledged
    <3>3. req[p].schedule # None
      BY <3>2, NoneAssumption DEF Creation
    <3> QED BY <1>3, <3>1, <3>2, <3>3
  <2>9. Acknowledged'
    <3> SUFFICES ASSUME NEW p \in Requests, answer'[p].status = 201
                 PROVE  /\ pc'[p] = "done" /\ req'[p] \in Creation
                        /\ schedules'[req'[p].room] = req'[p].schedule
                        /\ \A o \in Requests :
                              answer'[o].status = 201 /\ req'[o].room = req'[p].room => p = o
      BY DEF Acknowledged
    <3>1. CASE p = q
      BY <1>1, <2>2, <2>3, <2>8, <3>1
    <3>2. CASE p # q
      <4>1. answer[p].status = 201 /\ pc[p] = "done" /\ schedules[req[p].room] = req[p].schedule
        BY <2>2, <3>2 DEF Inv, Acknowledged
      <4>2. req[p] \in Creation /\ req[p].room \in Rooms \ {m}
        BY <2>8, <4>1 DEF Creation
      <4>3. \A o \in Requests \ {q} : answer'[o].status = 201 /\ req[o].room = req[p].room => p = o
        BY <2>2, <4>1 DEF Inv, Acknowledged
      <4> QED BY <1>1, <2>2, <2>3, <3>2, <4>1, <4>2, <4>3
    <3> QED BY <3>1, <3>2
  <2> QED BY <2>4, <2>5, <2>6, <2>7, <2>9 DEF Inv
<1> QED BY <1>2, <1>3 DEF InsertSchedule, Taken

\* listSlots arrives, and finds its room.
LEMMA ListSlotsKeeps ==
    ASSUME Inv, NEW q \in Requests, ListSlots(q)
    PROVE  Inv'
<1>1. pc[q] = "new" /\ UNCHANGED <<tables, todo, held>>
  BY DEF ListSlots
<1>2. answer[q] = NoAnswer /\ held[q] = {} /\ todo[q] = <<>>
  BY <1>1 DEF Inv, Control, ControlOf
<1>3. CASE Answer(q, 400, {}) /\ UNCHANGED req
  BY <1>1, <1>3, AnswerKeepsAll
<1>4. ASSUME NEW m \in Rooms, NEW date \in Dates,
             req' = [req EXCEPT ![q] = [op |-> "list", room |-> m, date |-> date]],
             Goto(q, "room"), UNCHANGED answer
      PROVE  Inv'
  <2> DEFINE what == [op |-> "list", room |-> m, date |-> date]
  <2>1. what \in Listing
    BY DEF Listing
  <2>2. req' = [req EXCEPT ![q] = what]
    BY <1>4
  <2> HIDE DEF what
  <2> QED BY <1>1, <1>2, <1>4, <2>1, <2>2, StepKeeps
<1> QED BY <1>3, <1>4 DEF ListSlots

\* RoomExists: the request goes on to its schedule, or is answered.
LEMMA RoomExistsKeeps ==
    ASSUME Inv, NEW q \in Requests, RoomExists(q)
    PROVE  Inv'
<1>1. pc[q] = "room" /\ UNCHANGED <<tables, req, todo, held>>
  BY DEF RoomExists
<1>2. /\ answer[q] = NoAnswer /\ held[q] = {} /\ todo[q] = <<>> /\ req[q] \in Listing
      /\ req' = [req EXCEPT ![q] = req[q]]
  BY <1>1 DEF Inv, Control, ControlOf, TypeOK
<1>3. CASE Answer(q, 404, {})
  BY <1>1, <1>3, AnswerKeepsAll
<1>4. CASE Goto(q, "schedule") /\ UNCHANGED answer
  BY <1>1, <1>2, <1>4, StepKeeps
<1> QED BY <1>3, <1>4 DEF RoomExists

\* GetByRoomID, and the slots of the day.
LEMMA GetScheduleKeeps ==
    ASSUME Inv, NEW q \in Requests, GetSchedule(q)
    PROVE  Inv'
<1> DEFINE sch == schedules[req[q].room]
           step == IF Generated(q, sch) = <<>> THEN "list" ELSE "ensure"
<1>1. pc[q] = "schedule" /\ UNCHANGED <<tables, req, held>>
  BY DEF GetSchedule
<1>2. answer[q] = NoAnswer /\ held[q] = {} /\ todo[q] = <<>> /\ req[q] \in Listing
  BY <1>1 DEF Inv, Control, ControlOf
<1>3. CASE Answer(q, 200, {}) /\ UNCHANGED todo
  BY <1>1, <1>3, AnswerKeepsAll
<1>4. CASE /\ sch # None
           /\ todo' = [todo EXCEPT ![q] = Generated(q, sch)]
           /\ Goto(q, step)
           /\ UNCHANGED answer
  <2>1. req[q].room \in Rooms
    BY <1>2 DEF Listing
  <2>2. sch \in Schedule /\ Window(sch)
    BY <1>4, <2>1 DEF Inv, TypeOK, Windows
  <2>3. /\ Generated(q, sch) \in Seq(Slot)
        /\ \A i, j \in 1 .. Len(Generated(q, sch)) :
              /\ Generated(q, sch)[i].by = q
              /\ Generated(q, sch)[i].start % 30 = 0
              /\ Generated(q, sch)[i].room = Generated(q, sch)[j].room
              /\ i < j => Generated(q, sch)[i].start < Generated(q, sch)[j].start
    BY <1>2, <2>2, GeneratedRows
  <2>4. /\ pc' \in [Requests -> {"new", "insert", "room", "schedule", "ensure", "list", "done"}]
        /\ pc'[q] \in {"list", "ensure"} /\ (pc'[q] = "list" => Generated(q, sch) = <<>>)
        /\ \A p \in Requests \ {q} : pc'[p] = pc[p]
    BY <1>4 DEF Inv, TypeOK, Goto
  <2> DEFINE rows == Generated(q, sch)
  <2>5. rows \in Seq(Slot) /\ todo' = [todo EXCEPT ![q] = rows]
    BY <1>4, <2>3
  <2> HIDE DEF rows
  <2>6. /\ todo' \in [Requests -> Seq(Slot)] /\ todo'[q] = rows
        /\ \A p \in Requests \ {q} : todo'[p] = todo[p]
    BY <2>5 DEF Inv, TypeOK
  <2>7. TypeOK'
    BY <1>1, <1>4, <2>4, <2>6 DEF Inv, TypeOK, tables
  <2>8. Control'
    <3>1. ControlOf(q)'
      BY <1>1, <1>2, <1>4, <2>4, <2>6 DEF ControlOf, rows
    <3>2. ASSUME NEW p \in Requests \ {q} PROVE ControlOf(p)'
      <4>1. /\ pc'[p] = pc[p] /\ req'[p] = req[p] /\ answer'[p] = answer[p]
            /\ todo'[p] = todo[p] /\ held'[p] = held[p]
        BY <1>1, <1>4, <2>4, <2>6
      <4>2. ControlOf(p)
        BY DEF Inv, Control
      <4> QED BY <4>1, <4>2 DEF ControlOf
    <3> QED BY <3>1, <3>2 DEF Control
  <2>9. Windows' /\ HalfHours' /\ Unique'
    BY <1>1 DEF Inv, Windows, HalfHours, Unique, tables
  <2>10. TodoInOrder'
    <3>1. ASSUME NEW i \in 1 .. Len(rows), NEW j \in 1 .. Len(rows)
          PROVE  /\ rows[i].by = q /\ rows[i].start % 30 = 0 /\ rows[i].room = rows[j].room
                 /\ i < j => rows[i].start < rows[j].start
      BY <2>3 DEF rows
    <3>2. \A p \in Requests \ {q} : todo'[p] = todo[p]
      BY <2>6
    <3> QED BY <2>6, <3>1, <3>2 DEF Inv, TodoInOrder
  <2>11. HeldFirst'
    BY <1>1, <1>2, <2>6 DEF Inv, HeldFirst
  <2>12. Acknowledged'
    BY <1>1, <1>2, <1>4, <2>4, SameAcknowledged DEF tables, NoAnswer
  <2> QED BY <2>7, <2>8, <2>9, <2>10, <2>11, <2>12 DEF Inv
<1> QED BY <1>3, <1>4 DEF GetSchedule

\* EnsureSlots writes a row, or meets one that is committed.
LEMMA InsertRowKeeps ==
    ASSUME Inv, NEW q \in Requests, InsertRow(q)
    PROVE  Inv'
<1> DEFINE row == Head(todo[q])
<1>1. /\ pc[q] = "ensure" /\ todo[q] # <<>> /\ todo[q] \in Seq(Slot)
      /\ UNCHANGED <<tables, pc, req, answer>>
  BY DEF InsertRow, Inv, TypeOK
<1>2. /\ row \in Slot /\ row = todo[q][1] /\ Len(todo[q]) \in Nat \ {0}
      /\ Tail(todo[q]) \in Seq(Slot) /\ Len(Tail(todo[q])) = Len(todo[q]) - 1
      /\ \A i \in 1 .. Len(Tail(todo[q])) : Tail(todo[q])[i] = todo[q][i + 1]
  BY <1>1
<1>3. /\ row.by = q /\ row.start % 30 = 0
      /\ \A i \in 2 .. Len(todo[q]) : row.room = todo[q][i].room /\ row.start < todo[q][i].start
  BY <1>2 DEF Inv, TodoInOrder
<1>4. \A h \in held[q] : h.start < row.start /\ h.start \in Nat /\ row.start \in Nat
  <2>1. 1 \in 1 .. Len(todo[q])
    BY <1>2
  <2>2. \A h \in held[q] : h.start < row.start /\ h \in Slot
    BY <1>2, <2>1 DEF Inv, TypeOK, HeldFirst
  <2>3. \A x \in Slot : x.start \in Nat
    BY DEF Slot
  <2> QED BY <1>2, <2>2, <2>3
<1>5. \A p \in Requests \ {q} : \A h \in held[p] : ~Same(h, row)
  BY DEF InsertRow, WaitsFor
<1>6. /\ held' = [held EXCEPT ![q] = IF Met(row) THEN @ ELSE @ \cup {row}]
      /\ todo' = [todo EXCEPT ![q] = Tail(@)]
  BY DEF InsertRow
<1> HIDE DEF row
<1>7. /\ held' \in [Requests -> SUBSET Slot] /\ todo' \in [Requests -> Seq(Slot)]
      /\ todo'[q] = Tail(todo[q])
      /\ held'[q] = IF Met(row) THEN held[q] ELSE held[q] \cup {row}
      /\ \A p \in Requests \ {q} : held'[p] = held[p] /\ todo'[p] = todo[p]
  BY <1>2, <1>6 DEF Inv, TypeOK
<1>8. TypeOK' /\ Control' /\ Windows' /\ HalfHours' /\ Acknowledged'
  BY <1>1, <1>7
  DEF Inv, TypeOK, Control, ControlOf, Windows, HalfHours, Acknowledged, tables
<1>9. \A i \in 1 .. Len(todo'[q]) : todo'[q][i] = todo[q][i + 1] /\ i + 1 \in 2 .. Len(todo[q])
  BY <1>2, <1>7
<1>10. TodoInOrder'
  <2> SUFFICES ASSUME NEW p \in Requests,
                      NEW i \in 1 .. Len(todo'[p]), NEW j \in 1 .. Len(todo'[p])
               PROVE  /\ todo'[p][i].by = p /\ todo'[p][i].start % 30 = 0
                      /\ todo'[p][i].room = todo'[p][j].room
                      /\ i < j => todo'[p][i].start < todo'[p][j].start
    BY DEF TodoInOrder
  <2>1. CASE p # q
    BY <1>7, <2>1 DEF Inv, TodoInOrder
  <2>2. CASE p = q
    <3>1. /\ todo'[q][i] = todo[q][i + 1] /\ i + 1 \in 2 .. Len(todo[q])
          /\ todo'[q][j] = todo[q][j + 1] /\ j + 1 \in 2 .. Len(todo[q])
      BY <1>9, <2>2
    <3>2. i + 1 \in 1 .. Len(todo[q]) /\ j + 1 \in 1 .. Len(todo[q]) /\ (i < j => i + 1 < j + 1)
      BY <1>2, <3>1
    <3> QED BY <2>2, <3>1, <3>2 DEF Inv, TodoInOrder
  <2> QED BY <2>1, <2>2
<1>11. HeldFirst'
  <2> SUFFICES ASSUME NEW p \in Requests, NEW h \in held'[p]
               PROVE  /\ h.by = p /\ h.start % 30 = 0
                      /\ \A i \in 1 .. Len(todo'[p]) :
                            h.room = todo'[p][i].room /\ h.start < todo'[p][i].start
    BY DEF HeldFirst
  <2>1. CASE p # q
    BY <1>7, <2>1 DEF Inv, HeldFirst
  <2>2. CASE p = q
    <3>1. /\ h.by = q /\ h.start % 30 = 0
          /\ \A i \in 2 .. Len(todo[q]) : h.room = todo[q][i].room /\ h.start < todo[q][i].start
      <4>1. CASE h \in held[q]
        <5>1. \A i \in 2 .. Len(todo[q]) : i \in 1 .. Len(todo[q])
          BY <1>2
        <5> QED BY <4>1, <5>1 DEF Inv, HeldFirst
      <4>2. CASE h = row
        BY <1>3, <4>2
      <4> QED BY <1>7, <2>2, <4>1, <4>2
    <3>2. ASSUME NEW i \in 1 .. Len(todo'[q])
          PROVE  h.room = todo'[q][i].room /\ h.start < todo'[q][i].start
      <4>1. i + 1 \in 2 .. Len(todo[q]) /\ todo'[q][i] = todo[q][i + 1]
        BY <1>9
      <4> QED BY <3>1, <4>1
    <3> QED BY <2>2, <3>1, <3>2
  <2> QED BY <2>1, <2>2
<1>12. Unique'
  <2>1. UNCHANGED slots
    BY <1>1 DEF tables
  <2>2. CASE Met(row)
    <3>1. \A p \in Requests : held'[p] = held[p]
      BY <1>7, <2>2
    <3> QED BY <2>1, <3>1 DEF Inv, Unique
  <2>3. CASE ~Met(row)
    <3>1. \A s \in slots : ~Same(row, s)
      BY <2>3 DEF Met, Same
    <3>2. held'[q] = held[q] \cup {row}
      BY <1>7, <2>3
    <3>3. \A h \in held[q] : ~Same(h, row) /\ ~Same(row, h)
      BY <1>4 DEF Same
    <3>4. \A a, b \in held'[q] : Same(a, b) => a = b
      BY <3>2, <3>3 DEF Inv, Unique
    <3>5. \A a \in held'[q], b \in slots : ~Same(a, b)
      BY <3>1, <3>2 DEF Inv, Unique
    <3>6. \A p \in Requests \ {q} : \A a \in held'[q], b \in held[p] : ~Same(a, b) /\ ~Same(b, a)
      BY <1>5, <3>2 DEF Inv, Unique, Same
    <3> QED BY <1>7, <2>1, <3>4, <3>5, <3>6 DEF Inv, Unique
  <2> QED BY <2>2, <2>3
<1> QED BY <1>8, <1>10, <1>11, <1>12 DEF Inv

\* The statement ends, and its rows are committed.
LEMMA EndInsertKeeps ==
    ASSUME Inv, NEW q \in Requests, EndInsert(q)
    PROVE  Inv'
<1>1. /\ pc[q] = "ensure" /\ todo[q] = <<>> /\ req[q] \in Listing
      /\ slots' = slots \cup held[q] /\ held' = [held EXCEPT ![q] = {}]
      /\ UNCHANGED <<rooms, schedules, booked, req, todo>>
  BY DEF EndInsert, Inv, Control, ControlOf
<1>2. /\ held' \in [Requests -> SUBSET Slot] /\ held'[q] = {}
      /\ \A p \in Requests \ {q} : held'[p] = held[p]
  BY <1>1 DEF Inv, TypeOK
<1>3. /\ pc' \in [Requests -> {"new", "insert", "room", "schedule", "ensure", "list", "done"}]
      /\ answer' \in [Requests -> [status : {0, 200, 201, 400, 404, 409, 500},
                                  slots : SUBSET Slot]]
      /\ pc'[q] \in {"list", "done"} /\ answer'[q].status \in {answer[q].status, 500}
      /\ \A p \in Requests \ {q} : pc'[p] = pc[p] /\ answer'[p] = answer[p]
  <2>1. CASE Answer(q, 500, {})
    <3>0. PICK status \in {0, 200, 201, 400, 404, 409, 500} : status = 500
      OBVIOUS
    <3>1. PICK rows \in SUBSET Slot : rows = {}
      OBVIOUS
    <3>2. Answer(q, status, rows) /\ TypeOK
      BY <2>1, <3>0, <3>1 DEF Inv
    <3>3. /\ pc' \in [Requests -> {"new", "insert", "room", "schedule", "ensure", "list", "done"}]
          /\ answer' \in [Requests -> [status : {0, 200, 201, 400, 404, 409, 500},
                                      slots : SUBSET Slot]]
          /\ answer'[q] = [status |-> status, slots |-> rows] /\ pc'[q] = "done"
          /\ \A p \in Requests \ {q} : answer'[p] = answer[p] /\ pc'[p] = pc[p]
      BY <3>2, AnswerTypes
    <3> QED BY <3>0, <3>1, <3>3
  <2>2. CASE Goto(q, "list") /\ UNCHANGED answer
    BY <2>2 DEF Inv, TypeOK, Goto
  <2> QED BY <2>1, <2>2 DEF EndInsert
<1>4. TypeOK'
  BY <1>1, <1>2, <1>3 DEF Inv, TypeOK
<1>5. Control'
  BY <1>1, <1>2, <1>3 DEF Inv, Control, ControlOf
<1>6. Windows' /\ TodoInOrder'
  BY <1>1 DEF Inv, Windows, TodoInOrder
<1>7. HeldFirst'
  BY <1>1, <1>2 DEF Inv, HeldFirst
<1>8. HalfHours'
  BY <1>1 DEF Inv, HalfHours, HeldFirst
<1>9. Unique'
  <2>1. \A a, b \in slots' : Same(a, b) => a = b
    BY <1>1 DEF Inv, Unique, Same
  <2>2. \A p \in Requests \ {q} : \A a \in held[p], b \in slots' : ~Same(a, b)
    BY <1>1 DEF Inv, Unique
  <2> QED BY <1>2, <2>1, <2>2 DEF Inv, Unique
<1>10. Acknowledged'
  <2>1. answer[q].status # 201
    BY <1>1 DEF Inv, Acknowledged
  <2> QED BY <1>1, <1>3, <2>1, SameAcknowledged
<1> QED BY <1>4, <1>5, <1>6, <1>7, <1>8, <1>9, <1>10 DEF Inv

\* The list, and a statement that fails.
LEMMA ListKeeps ==
    ASSUME Inv, NEW q \in Requests, List(q)
    PROVE  Inv'
<1> DEFINE rows == {s \in slots \ booked : s.room = req[q].room /\ InRange(q, s)}
<1>1. rows \in SUBSET Slot
  BY DEF Inv, TypeOK
<1>2. Answer(q, 200, rows) /\ pc[q] = "list" /\ UNCHANGED <<tables, req, todo, held>>
  BY DEF List
<1> HIDE DEF rows
<1> QED BY <1>1, <1>2, AnswerKeepsAll

\* A statement or a request fails, and what it held is gone.
LEMMA FailKeeps ==
    ASSUME Inv, NEW q \in Requests, Fail(q)
    PROVE  Inv'
<1>1. /\ Answer(q, 500, {}) /\ UNCHANGED <<tables, req>> /\ pc[q] # "done"
      /\ held' = [held EXCEPT ![q] = {}] /\ todo' = [todo EXCEPT ![q] = <<>>]
  BY DEF Fail
<1>0. PICK status \in {0, 200, 400, 404, 409, 500} : status = 500
  OBVIOUS
<1>2. PICK rows \in SUBSET Slot : rows = {}
  OBVIOUS
<1>3. Answer(q, status, rows)
  BY <1>0, <1>1, <1>2
<1>4. UNCHANGED <<tables, req>> /\ Emptied(q)
  BY <1>1 DEF Emptied
<1> QED BY <1>3, <1>4, AnswerKeeps

\* The process dies.
LEMMA CrashKeeps == Inv /\ Crash => Inv'
<1> SUFFICES ASSUME Inv, Crash PROVE Inv'
  OBVIOUS
<1>1. TypeOK'
  BY DEF Inv, TypeOK, Crash, tables
<1>2. Control' /\ Windows'
  BY DEF Inv, TypeOK, Control, ControlOf, Windows, Crash, tables
<1>3. TodoInOrder' /\ HeldFirst' /\ HalfHours' /\ Unique'
  BY DEF Inv, TodoInOrder, HeldFirst, HalfHours, Unique, Crash, tables
<1>4. Acknowledged'
  BY DEF Inv, Acknowledged, Crash, tables
<1> QED BY <1>1, <1>2, <1>3, <1>4 DEF Inv

\* The invariant is inductive.
LEMMA Inductive == Inv /\ [Next]_vars => Inv'
<1> SUFFICES ASSUME Inv, [Next]_vars PROVE Inv'
  OBVIOUS
<1>1. CASE UNCHANGED vars
  BY <1>1, OthersKeep DEF vars, tables, Inv, TypeOK
<1>2. CASE \/ \E m \in Rooms : CreateRoom(m)
           \/ \E s \in slots : Book(s) \/ CancelBooking(s)
  BY <1>2, OthersKeep DEF CreateRoom, Book, CancelBooking, Inv, TypeOK
<1>3. ASSUME NEW q \in Requests, CreateSchedule(q) \/ ListSlots(q) \/ Step(q) \/ Fail(q)
      PROVE  Inv'
  BY <1>3, CreateScheduleKeeps, ListSlotsKeeps, InsertScheduleKeeps, RoomExistsKeeps,
     GetScheduleKeeps, InsertRowKeeps, EndInsertKeeps, ListKeeps, FailKeeps
  DEF Step
<1> QED BY <1>1, <1>2, <1>3, CrashKeeps DEF Next

-----------------------------------------------------------------------------
\* The inductive invariant of schedules, slots and the statements under way.
THEOREM SlotsInvariance == Spec => []Inv
BY Initially, Inductive, PTL DEF Spec

\* Type correctness of the tables, the requests and their statements.
THEOREM SlotTypes == Spec => []TypeOK
<1>1. Inv => TypeOK
  BY DEF Inv
<1> QED BY <1>1, SlotsInvariance, PTL

\* Two half hours are the same one or apart.
LEMMA Apart ==
    ASSUME NEW a \in Nat, NEW b \in Nat, a % 30 = 0, b % 30 = 0, a # b
    PROVE  a + 30 <= b \/ b + 30 <= a
OBVIOUS

\* Slots of a room never overlap, however many requests generate a day.
THEOREM SlotsApart == Spec => []SlotsDisjoint
<1>1. Inv => SlotsDisjoint
  <2> SUFFICES ASSUME Inv, NEW a \in slots, NEW b \in slots, a # b, a.room = b.room
               PROVE  a.start + 30 <= b.start \/ b.start + 30 <= a.start
    BY DEF SlotsDisjoint
  <2>1. a.start # b.start
    BY DEF Inv, Unique, Same
  <2>2. a.start \in Nat /\ b.start \in Nat /\ a.start % 30 = 0 /\ b.start % 30 = 0
    BY DEF Inv, TypeOK, HalfHours, Slot
  <2> QED BY <2>1, <2>2, Apart
<1> QED BY <1>1, SlotsInvariance, PTL

\* At most one creation of a room's schedule is acknowledged, and its schedule
\* stays.
THEOREM ScheduleStays == Spec => []CreatedScheduleStays
<1>1. Inv => CreatedScheduleStays
  BY DEF Inv, Acknowledged, CreatedScheduleStays
<1> QED BY <1>1, SlotsInvariance, PTL

-----------------------------------------------------------------------------
(***************************************************************************)
(* Days.  A statement that has been sent carries every half hour of its    *)
(* day, and of each it ends up holding a row or has met one that is        *)
(* committed: what is stored of a day is therefore nothing or all of it,   *)
(* and a request that gets to read finds all of it.                        *)
(***************************************************************************)
\* The half hours of a date in a schedule.
OpenOf(sch, date) ==
    IF sch = None \/ 1 + ((date + 6) % 7) \notin sch.days THEN {}
    ELSE {date * MinutesOfDay + 30 * h :
             h \in {k \in 0 .. 47 : sch.start <= 30 * k /\ 30 * k + 30 <= sch.end}}

\* The half hours of the day that q asks for, in a state of the schedules.
Asked(q) == OpenOf(schedules[req[q].room], req[q].date)

\* One of rows is for the half hour t of room m.
Stored(rows, m, t) == \E s \in rows : s.room = m /\ s.start = t

\* Nobody has an answer before the last step.
Unanswered == \A q \in Requests : pc[q] # "done" => answer[q].status = 0

\* The rows of a statement are of the day asked for.
OpenRows(q) ==
    /\ \A h \in held[q] : h.room = req[q].room /\ h.start \in Asked(q)
    /\ \A i \in 1 .. Len(todo[q]) :
          todo[q][i].room = req[q].room /\ todo[q][i].start \in Asked(q)

\* Only half hours in which a room is open are stored, or about to be.
OnlyOpen ==
    /\ \A s \in slots : s.start \in OpenOf(schedules[s.room], s.start \div MinutesOfDay)
    /\ \A q \in Requests : OpenRows(q)

\* A statement leaves out no half hour but those it has met in the table.
CoveredBy(q) ==
    pc[q] \in {"ensure", "list"} =>
        /\ schedules[req[q].room] # None
        /\ \A t \in Asked(q) : \/ Stored(slots \cup held[q], req[q].room, t)
                               \/ \E i \in 1 .. Len(todo[q]) : todo[q][i].start = t

Covered == \A q \in Requests : CoveredBy(q)

\* A day of which a slot is stored is stored as a whole.
Whole ==
    \A s \in slots : \A t \in OpenOf(schedules[s.room], s.start \div MinutesOfDay) :
        Stored(slots, s.room, t)

DayInv == Unanswered /\ OnlyOpen /\ Covered /\ Whole

\* The open half hours of a room depend on its schedule alone.
LEMMA OpenBySchedule ==
    \A m \in Rooms, date \in Dates : OpenStarts(m, date) = OpenOf(schedules[m], date)
BY DEF OpenStarts, OpenOf

\* Without a schedule a room is never open; a half hour belongs to its date.
LEMMA OpenHours ==
    /\ \A date : OpenOf(None, date) = {}
    /\ \A sch : \A date \in Nat : \A t \in OpenOf(sch, date) :
          t \in Nat /\ t \div MinutesOfDay = date
<1>1. \A date : OpenOf(None, date) = {}
  BY DEF OpenOf
<1>2. ASSUME NEW sch, NEW date \in Nat, NEW t \in OpenOf(sch, date)
      PROVE  t \in Nat /\ t \div MinutesOfDay = date
  <2>1. PICK h \in 0 .. 47 : t = date * 1440 + 30 * h
    BY DEF OpenOf, MinutesOfDay
  <2>2. t \in Nat /\ t \div 1440 = date
    BY <2>1
  <2> QED BY <2>2 DEF MinutesOfDay
<1> QED BY <1>1, <1>2

\* Go's weekday, with Sunday moved to 7, is the calendar's.
LEMMA Weekdays ==
    \A date \in Nat : (IF date % 7 = 0 THEN 7 ELSE date % 7) = 1 + ((date + 6) % 7)
OBVIOUS

\* The half hours of a window, counted from its start and from midnight.
Fills(n, a, b) ==
    /\ n \in Nat
    /\ \A i \in 1 .. n : \E h \in 0 .. 47 :
          a <= 30 * h /\ 30 * h + 30 <= b /\ a + (i - 1) * 30 = 30 * h
    /\ \A h \in 0 .. 47 : a <= 30 * h /\ 30 * h + 30 <= b =>
          \E i \in 1 .. n : a + (i - 1) * 30 = 30 * h

\* As many slots as generateSlots makes fill the window.
LEMMA WindowFilled ==
    ASSUME NEW sch \in Schedule, Window(sch)
    PROVE  Fills((sch.end - sch.start) \div 30, sch.start, sch.end)
<1> DEFINE a == sch.start
           b == sch.end
           n == (b - a) \div 30
<1>1. a \in 0 .. 1439 /\ b \in 0 .. 1439 /\ a % 30 = 0 /\ b % 30 = 0 /\ a < b
  <2>1. \A t \in Times : t \in 0 .. 1439
    BY TimeAssumption DEF MinutesOfDay
  <2>2. a \in Times /\ b \in Times
    BY DEF Schedule
  <2>3. a \in 0 .. 1439
    BY <2>1, <2>2
  <2>4. b \in 0 .. 1439
    BY <2>1, <2>2
  <2> QED BY <2>3, <2>4 DEF Window
<1> HIDE DEF a, b
<1>2. \A x \in 0 .. 1439 : x % 30 = 0 => x \div 30 \in 0 .. 47 /\ x = 30 * (x \div 30)
  OBVIOUS
<1> DEFINE k == a \div 30
           l == b \div 30
<1>3. k \in 0 .. 47 /\ a = 30 * k
  BY <1>1, <1>2
<1>4. l \in 0 .. 47 /\ b = 30 * l
  BY <1>1, <1>2
<1>5. n \in Nat /\ n = l - k /\ k < l
  BY <1>1, <1>3, <1>4
<1> HIDE DEF k, l, n
<1>6. ASSUME NEW i \in 1 .. n
      PROVE  \E h \in 0 .. 47 : a <= 30 * h /\ 30 * h + 30 <= b /\ a + (i - 1) * 30 = 30 * h
  <2>1. k + i - 1 \in 0 .. 47
    BY <1>3, <1>4, <1>5
  <2>2. /\ a <= 30 * (k + i - 1) /\ 30 * (k + i - 1) + 30 <= b
        /\ a + (i - 1) * 30 = 30 * (k + i - 1)
    BY <1>3, <1>4, <1>5
  <2> WITNESS k + i - 1 \in 0 .. 47
  <2> QED BY <2>2
<1>7. ASSUME NEW h \in 0 .. 47, a <= 30 * h, 30 * h + 30 <= b
      PROVE  \E i \in 1 .. n : a + (i - 1) * 30 = 30 * h
  <2>1. PICK i \in Int : i = h - k + 1
    BY <1>3
  <2>2. i \in 1 .. n
    BY <1>3, <1>4, <1>5, <1>7, <2>1
  <2>3. a + (i - 1) * 30 = 30 * h
    BY <1>3, <2>1
  <2> QED BY <2>2, <2>3
<1>8. Fills(n, a, b)
  BY <1>5, <1>6, <1>7 DEF Fills
<1> QED BY <1>8 DEF n, a, b

\* What a request generates on a day of the schedule is what is open then.
LEMMA GeneratedDay ==
    ASSUME NEW q \in Requests, req[q] \in Listing,
           NEW sch \in Schedule, Window(sch), sch # None,
           IsDayInSchedule(req[q].date, sch.days)
    PROVE  /\ \A i \in 1 .. Len(Generated(q, sch)) :
                 /\ Generated(q, sch)[i].room = req[q].room
                 /\ Generated(q, sch)[i].start \in OpenOf(sch, req[q].date)
           /\ \A t \in OpenOf(sch, req[q].date) :
                 \E i \in 1 .. Len(Generated(q, sch)) : Generated(q, sch)[i].start = t
<1>1. MinutesOfDay = 1440
  BY DEF MinutesOfDay
<1> DEFINE a == sch.start
           b == sch.end
           date == req[q].date
           n == (b - a) \div 30
<1>2. a \in Nat /\ b \in Nat /\ date \in Nat
  <2>1. Times \subseteq Nat /\ Dates \subseteq Nat
    BY <1>1, TimeAssumption
  <2>2. sch.start \in Times /\ sch.end \in Times /\ req[q].date \in Dates
    BY DEF Schedule, Listing
  <2> QED BY <2>1, <2>2
<1>3. Fills(n, a, b)
  BY WindowFilled
<1>4. Generated(q, sch) =
        [i \in 1 .. n |->
           [by |-> q, room |-> req[q].room, start |-> date * 1440 + a + (i - 1) * 30]]
  BY <1>1 DEF Generated, GenerateSlots
<1>5. OpenOf(sch, date) =
        {date * 1440 + 30 * h : h \in {j \in 0 .. 47 : a <= 30 * j /\ 30 * j + 30 <= b}}
  <2>1. 1 + ((date + 6) % 7) \in sch.days
    BY <1>2, Weekdays DEF IsDayInSchedule
  <2> QED BY <1>1, <2>1 DEF OpenOf
<1> HIDE DEF n, a, b, date
<1>6. n \in Nat
  BY <1>3 DEF Fills
<1>7. /\ Len(Generated(q, sch)) = n
      /\ \A i \in 1 .. n : /\ Generated(q, sch)[i].room = req[q].room
                           /\ Generated(q, sch)[i].start = date * 1440 + a + (i - 1) * 30
  BY ONLY <1>4, <1>6
<1>8. ASSUME NEW i \in 1 .. n
       PROVE  date * 1440 + a + (i - 1) * 30 \in OpenOf(sch, date)
  <2>1. PICK h \in 0 .. 47 : a <= 30 * h /\ 30 * h + 30 <= b /\ a + (i - 1) * 30 = 30 * h
    BY <1>3 DEF Fills
  <2>2. i \in Int
    BY <1>6
  <2>3. date * 1440 + a + (i - 1) * 30 = date * 1440 + 30 * h
    BY <1>2, <2>1, <2>2
  <2> QED BY <1>5, <2>1, <2>3
<1>9. ASSUME NEW t \in OpenOf(sch, date)
       PROVE  \E i \in 1 .. n : date * 1440 + a + (i - 1) * 30 = t
  <2>1. PICK h \in 0 .. 47 : t = date * 1440 + 30 * h /\ a <= 30 * h /\ 30 * h + 30 <= b
    BY <1>5
  <2>2. PICK i \in 1 .. n : a + (i - 1) * 30 = 30 * h
    BY <1>3, <2>1 DEF Fills
  <2>3. i \in Int
    BY <1>6
  <2>4. date * 1440 + a + (i - 1) * 30 = t
    BY <1>2, <2>1, <2>2, <2>3
  <2> QED BY <2>4
<1> QED BY <1>7, <1>8, <1>9 DEF date

\* Schedules that there are stay, and of the requests some go on with what they
\* have and the others hold nothing.
LEMMA DaysKept ==
    ASSUME Inv, DayInv, Unanswered', UNCHANGED slots,
           \A m \in Rooms : schedules[m] # None => schedules'[m] = schedules[m],
           \A p \in Requests :
              \/ pc'[p] \notin {"ensure", "list"} /\ held'[p] = {} /\ todo'[p] = <<>>
              \/ pc'[p] = pc[p] /\ req'[p] = req[p] /\ held'[p] = held[p] /\ todo'[p] = todo[p]
    PROVE  DayInv'
<1>1. \A s \in slots : schedules[s.room] # None /\ schedules'[s.room] = schedules[s.room]
  <2> SUFFICES ASSUME NEW s \in slots
               PROVE  schedules[s.room] # None /\ schedules'[s.room] = schedules[s.room]
    OBVIOUS
  <2>1. s.room \in Rooms
    BY DEF Inv, TypeOK, Slot
  <2>2. s.start \in OpenOf(schedules[s.room], s.start \div MinutesOfDay)
    BY DEF DayInv, OnlyOpen, OpenRows
  <2>3. schedules[s.room] # None
    BY <2>2, OpenHours
  <2> QED BY <2>1, <2>3
<1>2. ASSUME NEW p \in Requests, pc[p] \in {"ensure", "list"}, req'[p] = req[p]
      PROVE  Asked(p)' = Asked(p) /\ schedules'[req[p].room] # None
  <2>1. schedules[req[p].room] # None
    BY <1>2 DEF DayInv, Covered, CoveredBy
  <2>2. req[p].room \in Rooms
    BY <1>2 DEF Inv, Control, ControlOf, Listing
  <2>3. schedules'[req[p].room] = schedules[req[p].room]
    BY <2>1, <2>2
  <2> QED BY <1>2, <2>1, <2>3 DEF Asked
<1>3. Whole'
  <2>1. \A s \in slots : \A t \in OpenOf(schedules[s.room], s.start \div MinutesOfDay) :
          Stored(slots, s.room, t)
    BY DEF DayInv, Whole
  <2>2. \A s \in slots : \A t \in OpenOf(schedules'[s.room], s.start \div MinutesOfDay) :
          Stored(slots, s.room, t)
    BY <1>1, <2>1
  <2> QED BY <2>2 DEF Whole, Stored
<1>4. OnlyOpen'
  <2>1. \A s \in slots' : s.start \in OpenOf(schedules'[s.room], s.start \div MinutesOfDay)
    BY <1>1 DEF DayInv, OnlyOpen, OpenRows
  <2>2. ASSUME NEW q \in Requests
        PROVE  /\ \A h \in held'[q] : h.room = req'[q].room /\ h.start \in Asked(q)'
               /\ \A i \in 1 .. Len(todo'[q]) :
                    todo'[q][i].room = req'[q].room /\ todo'[q][i].start \in Asked(q)'
    <3>1. CASE held'[q] = {} /\ todo'[q] = <<>>
      BY <3>1
    <3>2. CASE /\ pc'[q] = pc[q] /\ req'[q] = req[q]
               /\ held'[q] = held[q] /\ todo'[q] = todo[q]
      <4>1. CASE pc[q] = "ensure"
        <5>1. Asked(q)' = Asked(q)
          BY <1>2, <3>2, <4>1
        <5> QED BY <3>2, <5>1 DEF DayInv, OnlyOpen, OpenRows
      <4>2. CASE pc[q] # "ensure"
        <5>1. held'[q] = {} /\ todo'[q] = <<>>
          BY <3>2, <4>2 DEF Inv, Control, ControlOf
        <5> QED BY <5>1
      <4> QED BY <4>1, <4>2
    <3> QED BY <3>1, <3>2
  <2> QED BY <2>1, <2>2 DEF OnlyOpen, OpenRows
<1>5. Covered'
  <2> SUFFICES ASSUME NEW q \in Requests, pc'[q] \in {"ensure", "list"}
               PROVE  /\ schedules'[req'[q].room] # None
                      /\ \A t \in Asked(q)' :
                            \/ Stored(slots' \cup held'[q], req'[q].room, t)
                            \/ \E i \in 1 .. Len(todo'[q]) : todo'[q][i].start = t
    BY DEF Covered, CoveredBy, Stored
  <2>1. /\ pc'[q] = pc[q] /\ req'[q] = req[q]
        /\ held'[q] = held[q] /\ todo'[q] = todo[q]
    OBVIOUS
  <2>2. Asked(q)' = Asked(q) /\ schedules'[req[q].room] # None
    BY <1>2, <2>1
  <2>3. ASSUME NEW t \in Asked(q)'
        PROVE  \/ Stored(slots' \cup held'[q], req'[q].room, t)
               \/ \E i \in 1 .. Len(todo'[q]) : todo'[q][i].start = t
    <3>1. \/ Stored(slots \cup held[q], req[q].room, t)
          \/ \E i \in 1 .. Len(todo[q]) : todo[q][i].start = t
      BY <2>1, <2>2 DEF DayInv, Covered, CoveredBy
    <3>2. slots' \cup held'[q] = slots \cup held[q]
      BY <2>1
    <3> QED BY <2>1, <3>1, <3>2
  <2> QED BY <2>1, <2>2, <2>3
<1> QED BY <1>3, <1>4, <1>5 DEF DayInv

\* Nobody is answered but at the last step.
LEMMA StillUnanswered ==
    ASSUME DayInv,
           \A p \in Requests :
              \/ pc'[p] = "done"
              \/ pc[p] # "done" /\ answer'[p] = answer[p]
    PROVE  Unanswered'
BY DEF DayInv, Unanswered

\* A step of a request that ends it without its rows, or goes on before its
\* INSERT.
LEMMA OneKept ==
    ASSUME Inv, DayInv, NEW q \in Requests, pc[q] # "done", UNCHANGED slots,
           \A m \in Rooms : schedules[m] # None => schedules'[m] = schedules[m],
           pc'[q] \notin {"ensure", "list"}, held'[q] = {}, todo'[q] = <<>>,
           pc'[q] = "done" \/ answer'[q] = answer[q],
           \A p \in Requests \ {q} :
              /\ pc'[p] = pc[p] /\ req'[p] = req[p] /\ answer'[p] = answer[p]
              /\ held'[p] = held[p] /\ todo'[p] = todo[p]
    PROVE  DayInv'
<1>1. Unanswered'
  BY DEF DayInv, Unanswered
<1>2. \A p \in Requests :
        \/ pc'[p] \notin {"ensure", "list"} /\ held'[p] = {} /\ todo'[p] = <<>>
        \/ pc'[p] = pc[p] /\ req'[p] = req[p] /\ held'[p] = held[p] /\ todo'[p] = todo[p]
  OBVIOUS
<1> QED BY <1>1, <1>2, DaysKept

\* createSchedule, and listSlots up to the schedule.
LEMMA EarlyDays ==
    ASSUME Inv, DayInv, NEW q \in Requests,
           CreateSchedule(q) \/ ListSlots(q) \/ InsertSchedule(q) \/ RoomExists(q)
    PROVE  DayInv'
<1>1. pc[q] \in {"new", "insert", "room"}
  BY DEF CreateSchedule, ListSlots, InsertSchedule, RoomExists
<1>2. held[q] = {} /\ todo[q] = <<>>
  BY <1>1 DEF Inv, Control, ControlOf
<1>3. UNCHANGED <<slots, todo, held>>
  BY DEF CreateSchedule, ListSlots, InsertSchedule, RoomExists, tables
<1>4. \A m \in Rooms : schedules[m] # None => schedules'[m] = schedules[m]
  BY DEF CreateSchedule, ListSlots, InsertSchedule, RoomExists, tables, Taken, Inv, TypeOK
<1>5. \E step \in {"insert", "room", "schedule", "done"} : pc' = [pc EXCEPT ![q] = step]
  BY DEF CreateSchedule, ListSlots, InsertSchedule, RoomExists, Answer, Goto
<1>6. pc'[q] = "done" \/ answer'[q] = answer[q]
  BY DEF CreateSchedule, ListSlots, InsertSchedule, RoomExists, Answer, Goto, Inv, TypeOK
<1>7. \A p \in Requests \ {q} : answer'[p] = answer[p] /\ req'[p] = req[p]
  BY DEF CreateSchedule, ListSlots, InsertSchedule, RoomExists, Answer, Inv, TypeOK
<1>8. /\ pc'[q] \notin {"ensure", "list"}
      /\ \A p \in Requests \ {q} : pc'[p] = pc[p]
  BY <1>5 DEF Inv, TypeOK
<1> QED BY <1>1, <1>2, <1>3, <1>4, <1>6, <1>7, <1>8, OneKept

\* The list, and what fails.
LEMMA LateDays ==
    ASSUME Inv, DayInv, NEW q \in Requests, List(q) \/ Fail(q)
    PROVE  DayInv'
<1>1. /\ pc[q] # "done" /\ UNCHANGED <<tables, req>>
      /\ \E status, rows : Answer(q, status, rows)
  BY DEF List, Fail
<1>2. /\ pc'[q] = "done"
      /\ \A p \in Requests \ {q} : pc'[p] = pc[p] /\ answer'[p] = answer[p]
  BY <1>1 DEF Answer, Goto, Inv, TypeOK
<1>3. /\ held'[q] = {} /\ todo'[q] = <<>>
      /\ \A p \in Requests \ {q} : held'[p] = held[p] /\ todo'[p] = todo[p]
  <2>1. CASE List(q)
    BY <2>1 DEF List, Inv, Control, ControlOf
  <2>2. CASE Fail(q)
    BY <2>2 DEF Fail, Inv, TypeOK
  <2> QED BY <2>1, <2>2
<1> QED BY <1>1, <1>2, <1>3, OneKept DEF tables

\* GetByRoomID: on a day of the schedule everything is still to be written.
LEMMA GetScheduleDays ==
    ASSUME Inv, DayInv, NEW q \in Requests, GetSchedule(q)
    PROVE  DayInv'
<1> DEFINE sch == schedules[req[q].room]
           rows == Generated(q, sch)
<1>1. /\ pc[q] = "schedule" /\ UNCHANGED <<tables, req, held>>
      /\ held[q] = {} /\ todo[q] = <<>> /\ req[q] \in Listing /\ answer[q] = NoAnswer
  BY DEF GetSchedule, Inv, Control, ControlOf
<1>2. CASE Answer(q, 200, {}) /\ UNCHANGED todo
  <2>1. /\ pc'[q] = "done"
        /\ \A p \in Requests \ {q} : pc'[p] = pc[p] /\ answer'[p] = answer[p]
    BY <1>2 DEF Answer, Goto, Inv, TypeOK
  <2> QED BY <1>1, <1>2, <2>1, OneKept DEF tables
<1>3. CASE /\ sch # None /\ IsDayInSchedule(req[q].date, sch.days)
           /\ todo' = [todo EXCEPT ![q] = rows]
           /\ Goto(q, IF rows = <<>> THEN "list" ELSE "ensure")
           /\ UNCHANGED answer
  <2>1. req[q].room \in Rooms
    BY <1>1 DEF Listing
  <2>2. sch \in Schedule /\ Window(sch)
    BY <1>3, <2>1 DEF Inv, TypeOK, Windows
  <2>3. /\ \A i \in 1 .. Len(rows) :
             rows[i].room = req[q].room /\ rows[i].start \in OpenOf(sch, req[q].date)
        /\ \A t \in OpenOf(sch, req[q].date) : \E i \in 1 .. Len(rows) : rows[i].start = t
    BY <1>1, <1>3, <2>2, GeneratedDay
  <2>4. UNCHANGED <<schedules, slots, req, held, answer>> /\ Asked(q) = OpenOf(sch, req[q].date)
    BY <1>1, <1>3 DEF tables, Asked
  <2> HIDE DEF rows
  <2>5. todo'[q] = rows /\ \A p \in Requests \ {q} : todo'[p] = todo[p] /\ pc'[p] = pc[p]
    BY <1>3 DEF Inv, TypeOK, Goto
  <2>6. Unanswered'
    BY <1>1, <2>4, <2>5 DEF DayInv, Unanswered, NoAnswer
  <2>7. Whole'
    BY <2>4 DEF DayInv, Whole, Stored
  <2>8. OnlyOpen'
    <3>1. OpenRows(q)'
      BY <1>1, <2>3, <2>4, <2>5 DEF OpenRows, Asked
    <3>2. \A p \in Requests \ {q} : OpenRows(p)'
      BY <2>4, <2>5 DEF DayInv, OnlyOpen, OpenRows, Asked
    <3>3. \A s \in slots : s.start \in OpenOf(schedules[s.room], s.start \div MinutesOfDay)
      BY DEF DayInv, OnlyOpen
    <3> QED BY <2>4, <3>1, <3>2, <3>3 DEF OnlyOpen
  <2>9. Covered'
    <3>1. CoveredBy(q)'
      <4>1. Asked(q)' = OpenOf(sch, req[q].date) /\ schedules'[req'[q].room] # None
        BY <1>3, <2>4 DEF Asked
      <4>2. \A t \in Asked(q)' : \E i \in 1 .. Len(todo'[q]) : todo'[q][i].start = t
        BY <2>3, <2>5, <4>1
      <4> QED BY <4>1, <4>2 DEF CoveredBy
    <3>2. ASSUME NEW p \in Requests \ {q} PROVE CoveredBy(p)'
      <4>1. CoveredBy(p) /\ pc'[p] = pc[p] /\ todo'[p] = todo[p]
        BY <2>5 DEF DayInv, Covered
      <4> QED BY <2>4, <4>1 DEF CoveredBy, Asked, Stored
    <3> QED BY <3>1, <3>2 DEF Covered
  <2> QED BY <2>6, <2>7, <2>8, <2>9 DEF DayInv
<1> QED BY <1>2, <1>3 DEF GetSchedule

\* A row is written unless its half hour is in the table.
LEMMA InsertRowDays ==
    ASSUME Inv, DayInv, NEW q \in Requests, InsertRow(q)
    PROVE  DayInv'
<1> DEFINE row == Head(todo[q])
<1>1. /\ pc[q] = "ensure" /\ todo[q] # <<>> /\ todo[q] \in Seq(Slot)
      /\ UNCHANGED <<schedules, slots, pc, req, answer>>
  BY DEF InsertRow, Inv, TypeOK, tables
<1>2. /\ row = todo[q][1] /\ Len(todo[q]) \in Nat \ {0}
      /\ Tail(todo[q]) \in Seq(Slot) /\ Len(Tail(todo[q])) = Len(todo[q]) - 1
      /\ \A i \in 1 .. Len(Tail(todo[q])) : Tail(todo[q])[i] = todo[q][i + 1]
  BY <1>1
<1>3. /\ held' = [held EXCEPT ![q] = IF Met(row) THEN @ ELSE @ \cup {row}]
      /\ todo' = [todo EXCEPT ![q] = Tail(@)]
  BY DEF InsertRow
<1> HIDE DEF row
<1>4. /\ todo'[q] = Tail(todo[q])
      /\ held'[q] = IF Met(row) THEN held[q] ELSE held[q] \cup {row}
      /\ \A p \in Requests \ {q} : held'[p] = held[p] /\ todo'[p] = todo[p]
  BY <1>3 DEF Inv, TypeOK
<1>5. row.room = req[q].room /\ row.start \in Asked(q)
  <2>1. 1 \in 1 .. Len(todo[q])
    BY <1>2
  <2> QED BY <1>2, <2>1 DEF DayInv, OnlyOpen, OpenRows
<1>6. Unanswered' /\ Whole'
  BY <1>1 DEF DayInv, Unanswered, Whole, Stored
<1>7. \A p \in Requests : Asked(p)' = Asked(p)
  BY <1>1 DEF Asked
<1>8. OnlyOpen'
  <2>1. ASSUME NEW i \in 1 .. Len(todo'[q])
        PROVE  todo'[q][i].room = req[q].room /\ todo'[q][i].start \in Asked(q)
    <3>1. todo'[q][i] = todo[q][i + 1] /\ i + 1 \in 1 .. Len(todo[q])
      BY <1>2, <1>4
    <3> QED BY <3>1 DEF DayInv, OnlyOpen, OpenRows
  <2>2. \A h \in held'[q] : h.room = req[q].room /\ h.start \in Asked(q)
    BY <1>4, <1>5 DEF DayInv, OnlyOpen, OpenRows
  <2>3. ASSUME NEW p \in Requests PROVE OpenRows(p)'
    <3>1. CASE p = q
      BY <1>1, <1>7, <2>1, <2>2, <3>1 DEF OpenRows
    <3>2. CASE p # q
      <4>1. OpenRows(p) /\ held'[p] = held[p] /\ todo'[p] = todo[p]
        BY <1>4, <3>2 DEF DayInv, OnlyOpen
      <4> QED BY <1>1, <1>7, <4>1 DEF OpenRows
    <3> QED BY <3>1, <3>2
  <2>4. \A s \in slots : s.start \in OpenOf(schedules[s.room], s.start \div MinutesOfDay)
    BY DEF DayInv, OnlyOpen, OpenRows
  <2> QED BY <1>1, <2>3, <2>4 DEF OnlyOpen
<1>9. Covered'
  <2>1. ASSUME NEW t \in Asked(q)
        PROVE  \/ Stored(slots \cup held'[q], req[q].room, t)
               \/ \E i \in 1 .. Len(todo'[q]) : todo'[q][i].start = t
    <3>1. CASE Stored(slots \cup held[q], req[q].room, t)
      BY <1>4, <3>1 DEF Stored
    <3>2. CASE \E i \in 1 .. Len(todo[q]) : todo[q][i].start = t
      <4>1. PICK i \in 1 .. Len(todo[q]) : todo[q][i].start = t
        BY <3>2
      <4>2. CASE i = 1
        <5>1. row.start = t
          BY <1>2, <4>1, <4>2
        <5>2. Stored(slots \cup held'[q], req[q].room, t)
          BY <1>4, <1>5, <5>1 DEF Stored, Met, Same
        <5> QED BY <5>2
      <4>3. CASE i # 1
        <5>1. PICK j \in Int : j = i - 1
          BY <1>2
        <5>2. j \in 1 .. Len(todo'[q]) /\ i = j + 1
          BY <1>2, <1>4, <4>3, <5>1
        <5>3. todo'[q][j].start = t
          BY <1>2, <1>4, <4>1, <5>2
        <5> QED BY <5>2, <5>3
      <4> QED BY <4>2, <4>3
    <3> QED BY <1>1, <3>1, <3>2 DEF DayInv, Covered, CoveredBy
  <2>2. CoveredBy(q)'
    <3>1. schedules[req[q].room] # None
      BY <1>1 DEF DayInv, Covered, CoveredBy
    <3> QED BY <1>1, <1>7, <2>1, <3>1 DEF CoveredBy, Stored
  <2>3. ASSUME NEW p \in Requests \ {q} PROVE CoveredBy(p)'
    <3>1. CoveredBy(p) /\ held'[p] = held[p] /\ todo'[p] = todo[p]
      BY <1>4 DEF DayInv, Covered
    <3> QED BY <1>1, <1>7, <3>1 DEF CoveredBy, Stored
  <2> QED BY <2>2, <2>3 DEF Covered
<1> QED BY <1>6, <1>8, <1>9 DEF DayInv

\* The end of the INSERT: the rows of the day are all there.
LEMMA EndInsertDays ==
    ASSUME Inv, DayInv, NEW q \in Requests, EndInsert(q)
    PROVE  DayInv'
<1> DEFINE m == req[q].room
           date == req[q].date
<1>1. /\ pc[q] = "ensure" /\ todo[q] = <<>> /\ req[q] \in Listing
      /\ slots' = slots \cup held[q] /\ held' = [held EXCEPT ![q] = {}]
      /\ UNCHANGED <<schedules, req, todo>>
  BY DEF EndInsert, Inv, Control, ControlOf
<1>2. held'[q] = {} /\ \A p \in Requests \ {q} : held'[p] = held[p]
  BY <1>1 DEF Inv, TypeOK
<1>3. /\ pc'[q] \in {"list", "done"}
      /\ pc'[q] = "done" \/ answer'[q] = answer[q]
      /\ \A p \in Requests \ {q} : pc'[p] = pc[p] /\ answer'[p] = answer[p]
  BY DEF EndInsert, Answer, Goto, Inv, TypeOK
<1>4. Unanswered'
  BY <1>1, <1>3 DEF DayInv, Unanswered
<1>5. \A p \in Requests : Asked(p)' = Asked(p)
  BY <1>1 DEF Asked
<1>6. \A t \in Asked(q) : Stored(slots', m, t)
  <2>1. ~ \E i \in 1 .. Len(todo[q]) : TRUE
    BY <1>1
  <2> QED BY <1>1, <2>1 DEF DayInv, Covered, CoveredBy
<1>7. \A h \in held[q] : /\ h.room = m /\ h.start \in Asked(q)
                        /\ h.start \div MinutesOfDay = date
  <2>1. date \in Nat
    BY <1>1, TimeAssumption DEF Listing
  <2>2. \A h \in held[q] : h.room = m /\ h.start \in Asked(q)
    BY DEF DayInv, OnlyOpen, OpenRows
  <2>3. \A t \in Asked(q) : t \div MinutesOfDay = date
    BY <2>1, OpenHours DEF Asked
  <2> QED BY <2>2, <2>3
<1> HIDE DEF m, date
<1>8. Asked(q) = OpenOf(schedules[m], date)
  BY DEF Asked, m, date
<1>9. OnlyOpen'
  <2>1. \A s \in slots' : s.start \in OpenOf(schedules[s.room], s.start \div MinutesOfDay)
    <3>1. \A s \in held[q] : s.start \in OpenOf(schedules[s.room], s.start \div MinutesOfDay)
      BY <1>7, <1>8
    <3> QED BY <1>1, <3>1 DEF DayInv, OnlyOpen, OpenRows
  <2>2. \A p \in Requests :
          /\ \A h \in held'[p] : h.room = req[p].room /\ h.start \in Asked(p)
          /\ \A i \in 1 .. Len(todo[p]) :
                todo[p][i].room = req[p].room /\ todo[p][i].start \in Asked(p)
    BY <1>2 DEF DayInv, OnlyOpen, OpenRows
  <2> QED BY <1>1, <1>5, <2>1, <2>2 DEF OnlyOpen, OpenRows
<1>10. Covered'
  <2>1. ASSUME NEW p \in Requests, pc'[p] \in {"ensure", "list"}
        PROVE  /\ schedules[req[p].room] # None
               /\ \A t \in Asked(p) : \/ Stored(slots' \cup held'[p], req[p].room, t)
                                      \/ \E i \in 1 .. Len(todo[p]) : todo[p][i].start = t
    <3>1. CASE p = q
      <4>1. schedules[m] # None
        BY <1>1 DEF DayInv, Covered, CoveredBy, m
      <4>2. \A t \in Asked(q) : Stored(slots' \cup held'[q], m, t)
        BY <1>6 DEF Stored
      <4> QED BY <3>1, <4>1, <4>2 DEF m
    <3>2. CASE p # q
      <4>1. pc[p] \in {"ensure", "list"} /\ held'[p] = held[p]
        BY <1>2, <1>3, <2>1, <3>2
      <4>2. schedules[req[p].room] # None
        BY <4>1 DEF DayInv, Covered, CoveredBy
      <4>3. \A t \in Asked(p) : \/ Stored(slots \cup held[p], req[p].room, t)
                                \/ \E i \in 1 .. Len(todo[p]) : todo[p][i].start = t
        BY <4>1 DEF DayInv, Covered, CoveredBy
      <4>4. \A t : Stored(slots \cup held[p], req[p].room, t)
                     => Stored(slots' \cup held'[p], req[p].room, t)
        BY <1>1, <4>1 DEF Stored
      <4> QED BY <4>2, <4>3, <4>4
    <3> QED BY <3>1, <3>2
  <2> QED BY <1>1, <1>5, <2>1 DEF Covered, CoveredBy, Stored
<1>11. Whole'
  <2>1. ASSUME NEW s \in slots', NEW t \in OpenOf(schedules[s.room], s.start \div MinutesOfDay)
        PROVE  Stored(slots', s.room, t)
    <3>1. CASE s \in slots
      <4>1. Stored(slots, s.room, t)
        BY <3>1 DEF DayInv, Whole
      <4> QED BY <1>1, <4>1 DEF Stored
    <3>2. CASE s \in held[q]
      BY <1>6, <1>7, <1>8, <3>2
    <3> QED BY <1>1, <3>1, <3>2
  <2> QED BY <1>1, <2>1 DEF Whole, Stored
<1> QED BY <1>4, <1>9, <1>10, <1>11 DEF DayInv

\* The process dies; rooms, bookings and stuttering.
LEMMA OtherDays ==
    ASSUME Inv, DayInv,
           \/ Crash \/ UNCHANGED vars
           \/ \E m \in Rooms : CreateRoom(m)
           \/ \E s \in slots : Book(s) \/ CancelBooking(s)
    PROVE  DayInv'
<1>1. CASE Crash
  <2>1. /\ UNCHANGED <<schedules, slots, req, answer>>
        /\ \A p \in Requests : /\ held'[p] = {} /\ todo'[p] = <<>>
                              /\ pc'[p] = IF pc[p] = "new" THEN "new" ELSE "done"
    BY <1>1 DEF Crash, tables
  <2>2. Unanswered'
    BY <2>1 DEF DayInv, Unanswered
  <2>3. \A p \in Requests : pc'[p] \notin {"ensure", "list"}
    BY <2>1
  <2> QED BY <2>1, <2>2, <2>3, DaysKept
<1>2. CASE UNCHANGED <<schedules, slots, pc, req, todo, held, answer>>
  <2>1. Unanswered'
    BY <1>2 DEF DayInv, Unanswered
  <2> QED BY <1>2, <2>1, DaysKept
<1>3. UNCHANGED vars => UNCHANGED <<schedules, slots, pc, req, todo, held, answer>>
  BY DEF vars, tables
<1> QED BY <1>1, <1>2, <1>3 DEF CreateRoom, Book, CancelBooking

\* Days are inductive.
LEMMA DaysInductive == Inv /\ DayInv /\ [Next]_vars => DayInv'
<1> SUFFICES ASSUME Inv, DayInv, [Next]_vars PROVE DayInv'
  OBVIOUS
<1>1. ASSUME NEW q \in Requests, CreateSchedule(q) \/ ListSlots(q) \/ Step(q) \/ Fail(q)
      PROVE  DayInv'
  BY <1>1, EarlyDays, LateDays, GetScheduleDays, InsertRowDays, EndInsertDays DEF Step
<1> QED BY <1>1, OtherDays DEF Next

\* Nothing is asked for or stored at first.
LEMMA DaysInitially == Init => DayInv
BY DEF Init, DayInv, Unanswered, OnlyOpen, OpenRows, Covered, CoveredBy, Whole, NoAnswer

\* What is stored of a day is whole, and what is to be stored is complete.
THEOREM DaysInvariance == Spec => [](Inv /\ DayInv)
BY DaysInitially, DaysInductive, SlotsInvariance, PTL DEF Spec

\* The slots of a day of a room are stored together or not at all, and they are
\* those of the calendar for the room's schedule.
THEOREM DaysWhole == Spec => []DayIsWhole
<1>1. Inv /\ DayInv => DayIsWhole
  <2> SUFFICES ASSUME Inv, DayInv, NEW m \in Rooms, NEW date \in Dates,
                      StartsOf(slots, m, date) # {}
               PROVE  StartsOf(slots, m, date) = OpenStarts(m, date)
    BY DEF DayIsWhole
  <2>1. OpenStarts(m, date) = OpenOf(schedules[m], date) /\ date \in Nat
    BY OpenBySchedule, TimeAssumption
  <2>2. PICK s \in slots : s.room = m /\ s.start \div MinutesOfDay = date
    BY DEF StartsOf
  <2>3. \A t \in OpenOf(schedules[m], date) : Stored(slots, m, t)
    BY <2>2 DEF DayInv, Whole
  <2>4. \A t \in OpenOf(schedules[m], date) : t \div MinutesOfDay = date
    BY <2>1, OpenHours
  <2>5. OpenOf(schedules[m], date) \subseteq StartsOf(slots, m, date)
    BY <2>3, <2>4 DEF Stored, StartsOf
  <2>6. StartsOf(slots, m, date) \subseteq OpenOf(schedules[m], date)
    BY DEF StartsOf, DayInv, OnlyOpen, OpenRows
  <2> QED BY <2>1, <2>5, <2>6
<1> QED BY <1>1, DaysInvariance, PTL

\* In the range of a date are the half hours of its day.
LEMMA RangeIsDay ==
    ASSUME NEW start \in Nat, NEW date \in Nat
    PROVE  start >= date * 1440 /\ start < (date + 1) * 1440 <=> start \div 1440 = date
OBVIOUS

\* On a day that is not in the schedule nothing is open.
LEMMA ClosedDayIsEmpty ==
    ASSUME Inv, NEW q \in Requests, GetSchedule(q), pc'[q] = "done"
    PROVE  answer'[q].slots = {} /\ OpenOf(schedules[req[q].room], req[q].date) = {}
<1>1. pc[q] = "schedule" /\ req[q] \in Listing
  BY DEF GetSchedule, Inv, Control, ControlOf
<1>2. req[q].date \in Nat
  BY <1>1, TimeAssumption DEF Listing
<1>3. \A step : Goto(q, step) => pc'[q] = step
  BY DEF Goto, Inv, TypeOK
<1>4. /\ Answer(q, 200, {})
      /\ \/ schedules[req[q].room] = None
         \/ ~IsDayInSchedule(req[q].date, schedules[req[q].room].days)
  BY <1>3 DEF GetSchedule
<1>5. answer'[q].slots = {}
  BY <1>4 DEF Answer, Inv, TypeOK
<1>6. (IF req[q].date % 7 = 0 THEN 7 ELSE req[q].date % 7) = 1 + ((req[q].date + 6) % 7)
  BY <1>2, Weekdays
<1>7. OpenOf(schedules[req[q].room], req[q].date) = {}
  BY <1>4, <1>6 DEF OpenOf, IsDayInSchedule
<1> QED BY <1>5, <1>7

\* What is read at the end is the day without its bookings.
LEMMA ReadIsComplete ==
    ASSUME Inv, DayInv, NEW q \in Requests, List(q)
    PROVE  {s.start : s \in answer'[q].slots} =
              OpenOf(schedules[req[q].room], req[q].date)
                 \ StartsOf(booked, req[q].room, req[q].date)
<1> DEFINE m == req[q].room
           date == req[q].date
<1>1. date \in Nat
  <2>1. req[q] \in Listing
    BY DEF List, Inv, Control, ControlOf
  <2> QED BY <2>1, TimeAssumption DEF Listing
<1>2. answer'[q].slots = {s \in slots \ booked : s.room = m /\ InRange(q, s)}
  BY DEF List, Answer, Inv, TypeOK
<1>3. \A s \in slots : InRange(q, s) <=> s.start \div MinutesOfDay = date
  <2>1. \A s \in slots : s.start \in Nat
    BY DEF Inv, TypeOK, Slot
  <2>2. ASSUME NEW s \in slots
        PROVE  InRange(q, s) <=> s.start \div MinutesOfDay = date
    <3>1. PICK t \in Nat : t = s.start
      BY <2>1
    <3>2. t >= date * 1440 /\ t < (date + 1) * 1440 <=> t \div 1440 = date
      BY <1>1, RangeIsDay
    <3> QED BY <3>1, <3>2 DEF InRange, MinutesOfDay, date
  <2> QED BY <2>2
<1>4. \A t \in OpenOf(schedules[m], date) : t \div MinutesOfDay = date
  BY <1>1, OpenHours
<1>5. \A t \in OpenOf(schedules[m], date) : \E s \in slots : s.room = m /\ s.start = t
  <2>1. pc[q] = "list" /\ held[q] = {} /\ todo[q] = <<>>
    BY DEF List, Inv, Control, ControlOf
  <2>2. slots \cup held[q] = slots /\ ~ \E i \in 1 .. Len(todo[q]) : TRUE
    BY <2>1
  <2>3. \A t \in Asked(q) : Stored(slots, m, t)
    BY <2>1, <2>2 DEF DayInv, Covered, CoveredBy
  <2> QED BY <2>3 DEF Asked, Stored
<1> HIDE DEF m, date
<1>6. \A s \in slots : s.room = m /\ s.start \div MinutesOfDay = date
         => s.start \in OpenOf(schedules[m], date)
  BY DEF DayInv, OnlyOpen
<1>7. \A a, b \in slots : a.room = b.room /\ a.start = b.start => a = b
  BY DEF Inv, Unique, Same
<1>8. booked \subseteq slots
  BY DEF Inv, TypeOK
<1>9. \A t : t \in StartsOf(booked, m, date) <=>
         \E s \in booked : s.room = m /\ s.start \div MinutesOfDay = date /\ s.start = t
  BY DEF StartsOf
<1>10. ASSUME NEW s \in answer'[q].slots
      PROVE  s.start \in OpenOf(schedules[m], date) \ StartsOf(booked, m, date)
  <2>1. /\ s \in slots /\ s \notin booked
        /\ s.room = m /\ s.start \div MinutesOfDay = date
    BY <1>2, <1>3
  <2> QED BY <1>6, <1>7, <1>8, <1>9, <2>1
<1>11. ASSUME NEW t \in OpenOf(schedules[m], date) \ StartsOf(booked, m, date)
       PROVE  \E s \in answer'[q].slots : s.start = t
  <2>1. PICK s \in slots : s.room = m /\ s.start = t
    BY <1>5
  <2>2. s.start \div MinutesOfDay = date
    BY <1>4, <2>1
  <2>3. s \notin booked
    BY <1>9, <2>1, <2>2
  <2> QED BY <1>2, <1>3, <2>1, <2>2, <2>3
<1>12. {s.start : s \in answer'[q].slots} =
         OpenOf(schedules[m], date) \ StartsOf(booked, m, date)
  BY <1>10, <1>11
<1> QED BY <1>12 DEF m, date

\* Only the two ends of listSlots answer 200.
LEMMA AnsweredByList ==
    ASSUME Inv, DayInv, [Next]_vars, NEW q \in Requests, pc[q] # "done",
           answer'[q].status = 200
    PROVE  (GetSchedule(q) /\ pc'[q] = "done") \/ List(q)
<1>1. answer[q].status = 0 /\ answer'[q] # answer[q]
  BY DEF DayInv, Unanswered
<1>2. PICK p \in Requests : CreateSchedule(p) \/ ListSlots(p) \/ Step(p) \/ Fail(p)
  BY <1>1 DEF Next, vars, CreateRoom, Book, CancelBooking, Crash
<1>3. \A status, rows : Answer(p, status, rows) =>
         /\ answer'[p].status = status /\ pc'[p] = "done"
         /\ p # q => answer'[q] = answer[q]
  BY DEF Answer, Goto, Inv, TypeOK
<1>4. \A status, rows : Answer(p, status, rows) => p = q /\ status = 200 /\ pc'[q] = "done"
  BY <1>1, <1>3
<1>5. \/ UNCHANGED answer
      \/ \E status \in {201, 400, 404, 409, 500} : Answer(p, status, {})
      \/ GetSchedule(p) /\ Answer(p, 200, {})
      \/ List(p) /\ \E rows : Answer(p, 200, rows)
  BY <1>2 DEF CreateSchedule, ListSlots, Step, Fail, InsertSchedule, RoomExists,
     GetSchedule, InsertRow, EndInsert, List
<1> QED BY <1>1, <1>4, <1>5

\* A list names every open half hour of its day that is not booked.
THEOREM ListsComplete == Spec => ListIsComplete
<1> DEFINE Complete ==
      \A q \in Requests : pc[q] # "done" /\ answer'[q].status = 200 =>
          LET m == req[q].room
              date == req[q].date
          IN  {s.start : s \in answer'[q].slots} =
                 OpenStarts(m, date) \ StartsOf(booked, m, date)
<1>1. ASSUME Inv, DayInv, [Next]_vars, NEW q \in Requests, pc[q] # "done",
             answer'[q].status = 200
      PROVE  {s.start : s \in answer'[q].slots} =
                OpenStarts(req[q].room, req[q].date) \ StartsOf(booked, req[q].room, req[q].date)
  <2>1. (GetSchedule(q) /\ pc'[q] = "done") \/ List(q)
    BY <1>1, AnsweredByList
  <2>2. req[q] \in Listing
    BY <1>1, <2>1 DEF GetSchedule, List, Inv, Control, ControlOf
  <2>3. req[q].room \in Rooms /\ req[q].date \in Dates /\ req[q].date \in Nat
    BY <2>2, TimeAssumption DEF Listing
  <2>4. OpenStarts(req[q].room, req[q].date) = OpenOf(schedules[req[q].room], req[q].date)
    BY <2>3, OpenBySchedule
  <2>5. CASE GetSchedule(q) /\ pc'[q] = "done"
    BY <1>1, <2>4, <2>5, ClosedDayIsEmpty
  <2>6. CASE List(q)
    <3>1. {s.start : s \in answer'[q].slots} =
             OpenOf(schedules[req[q].room], req[q].date)
                \ StartsOf(booked, req[q].room, req[q].date)
      BY <1>1, <2>6, ReadIsComplete
    <3> QED BY <2>4, <3>1
  <2> QED BY <2>1, <2>5, <2>6
<1>2. Inv /\ DayInv /\ [Next]_vars => Complete
  BY <1>1
<1>3. Inv /\ DayInv /\ [Next]_vars => [Complete]_vars
  BY <1>2
<1> HIDE DEF Complete
<1>4. Spec => [][Complete]_vars
  BY <1>3, DaysInvariance, PTL DEF Spec
<1> QED BY <1>4 DEF Complete, ListIsComplete

-----------------------------------------------------------------------------
(* Nobody waits in a circle.  Every statement writes the rows of its day in *)
(* their order, so that whom it waits for is further on in the day.         *)

\* The statement of q waits for the index entry of its next row.
Waits(q) == pc[q] = "ensure" /\ todo[q] # <<>> /\ WaitsFor(q) # {}

\* Whom a statement waits for may wait itself, but not in a circle: at the end
\* of the chain is one that goes on, which has written a later half hour of
\* the room, or the one that is wanted.
NoCircularWait ==
    \A q \in Requests : Waits(q) =>
        \E p \in Requests : /\ ~Waits(p)
                            /\ \E row \in held[p] : /\ row.room = Head(todo[q]).room
                                                    /\ row.start >= Head(todo[q]).start

\* A set of natural numbers has a least one.
LEMMA LeastNumber ==
    ASSUME NEW T, T \subseteq Nat, T # {}
    PROVE  \E n \in T : \A k \in T : n <= k
<1>1. PICK n \in T : \A k \in T : <<k, n>> \notin OpToRel(<, Nat)
  BY NatLessThanWellFounded, WFMin, Zenon
<1>2. ASSUME NEW k \in T
      PROVE  n <= k
  <2>1. ~(k < n)
    BY <1>1, Zenon DEF OpToRel
  <2> QED BY <2>1
<1> QED BY <1>2

\* The next row of a statement that waits, and the rows of whom it waits for.
LEMMA WaitFacts ==
    ASSUME Inv, DayInv, NEW q \in Requests, Waits(q)
    PROVE  /\ Head(todo[q]) = todo[q][1] /\ 1 \in 1 .. Len(todo[q])
           /\ req[q].date \in Nat
           /\ Head(todo[q]).room = req[q].room
           /\ Head(todo[q]).start \in Nat
           /\ Head(todo[q]).start \div MinutesOfDay = req[q].date
<1>1. /\ pc[q] = "ensure" /\ todo[q] # <<>> /\ todo[q] \in Seq(Slot)
      /\ req[q] \in Listing
  BY DEF Waits, Inv, TypeOK, Control, ControlOf
<1>2. Head(todo[q]) = todo[q][1] /\ 1 \in 1 .. Len(todo[q])
  BY <1>1
<1>3. req[q].date \in Nat
  BY <1>1, TimeAssumption DEF Listing
<1>4. Head(todo[q]).room = req[q].room /\ Head(todo[q]).start \in Asked(q)
  BY <1>2 DEF DayInv, OnlyOpen, OpenRows
<1> QED BY <1>2, <1>3, <1>4, OpenHours DEF Asked

\* Whom a statement waits for has its own next row, if any, further on in the
\* same day of the same room.
LEMMA WaitsAscend ==
    ASSUME Inv, DayInv, NEW q \in Requests, Waits(q),
           NEW p \in WaitsFor(q), NEW row \in held[p], Same(row, Head(todo[q]))
    PROVE  /\ p \in Requests
           /\ Waits(p) => /\ req[p].room = req[q].room /\ req[p].date = req[q].date
                          /\ Head(todo[p]).start > Head(todo[q]).start
<1>1. p \in Requests
  BY DEF WaitsFor
<1>2. row.room = Head(todo[q]).room /\ row.start = Head(todo[q]).start
  BY DEF Same
<1>3. ASSUME Waits(p)
      PROVE  /\ req[p].room = req[q].room /\ req[p].date = req[q].date
             /\ Head(todo[p]).start > Head(todo[q]).start
  <2>1. /\ Head(todo[q]).room = req[q].room /\ Head(todo[q]).start \in Nat
        /\ Head(todo[q]).start \div MinutesOfDay = req[q].date
    BY WaitFacts
  <2>2. /\ Head(todo[p]) = todo[p][1] /\ 1 \in 1 .. Len(todo[p])
        /\ Head(todo[p]).start \in Nat
        /\ Head(todo[p]).room = req[p].room
        /\ Head(todo[p]).start \div MinutesOfDay = req[p].date
    BY <1>1, <1>3, WaitFacts
  <2>3. row.room = Head(todo[p]).room /\ row.start < Head(todo[p]).start
    BY <1>1, <2>2 DEF Inv, HeldFirst
  <2>4. row.start \in Asked(p)
    BY <1>1 DEF DayInv, OnlyOpen, OpenRows
  <2>5. req[p] \in Listing
    BY <1>1, <1>3 DEF Waits, Inv, Control, ControlOf
  <2>6. req[p].date \in Nat
    BY <2>5, TimeAssumption DEF Listing
  <2>7. row.start \div MinutesOfDay = req[p].date
    BY <2>4, <2>6, OpenHours DEF Asked
  <2> QED BY <1>2, <2>1, <2>2, <2>3, <2>7
<1> QED BY <1>1, <1>3

\* Of the statements of a day of a room that wait, the one that is furthest
\* waits for one that does not.
LEMMA FurthestGoesOn == Inv /\ DayInv => NoCircularWait
<1> SUFFICES ASSUME Inv, DayInv, NEW q \in Requests, Waits(q)
             PROVE  \E p \in Requests :
                       /\ ~Waits(p)
                       /\ \E row \in held[p] : /\ row.room = Head(todo[q]).room
                                               /\ row.start >= Head(todo[q]).start
  BY DEF NoCircularWait
<1> DEFINE Rivals == {p \in Requests : /\ Waits(p)
                                       /\ req[p].room = req[q].room
                                       /\ req[p].date = req[q].date}
           end == (req[q].date + 1) * 1440
           left(p) == end - Head(todo[p]).start
           T == {left(p) : p \in Rivals}
<1>1. req[q].date \in Nat /\ Head(todo[q]).room = req[q].room
  BY WaitFacts
<1>2. end \in Nat
  BY <1>1
<1>3. ASSUME NEW p \in Rivals
      PROVE  Head(todo[p]).start \in Nat /\ left(p) \in Nat
  <2>1. /\ Head(todo[p]).start \in Nat
        /\ Head(todo[p]).start \div MinutesOfDay = req[q].date
    BY WaitFacts
  <2>2. Head(todo[p]).start < end
    BY <1>1, <2>1, RangeIsDay DEF MinutesOfDay
  <2> HIDE DEF end
  <2> QED BY <1>2, <2>1, <2>2
<1> HIDE DEF end
<1>4. T \subseteq Nat /\ T # {}
  BY <1>3
<1>5. PICK n \in T : \A k \in T : n <= k
  BY <1>4, LeastNumber
<1>6. PICK p \in Rivals : n = left(p)
  OBVIOUS
<1>7. ASSUME NEW s \in Rivals
      PROVE  Head(todo[s]).start <= Head(todo[p]).start
  <2>1. left(p) <= left(s)
    BY <1>5, <1>6
  <2> QED BY <1>2, <1>3, <2>1
<1>8. PICK w \in WaitsFor(p) : TRUE
  BY DEF Waits
<1>9. PICK row \in held[w] : Same(row, Head(todo[p]))
  BY <1>8 DEF WaitsFor
<1>10. w \in Requests /\ ~Waits(w)
  <2>1. /\ w \in Requests
        /\ Waits(w) => /\ req[w].room = req[p].room /\ req[w].date = req[p].date
                       /\ Head(todo[w]).start > Head(todo[p]).start
    BY <1>8, <1>9, WaitsAscend
  <2>2. ASSUME Waits(w)
        PROVE  FALSE
    <3>1. w \in Rivals
      BY <2>1, <2>2
    <3> QED BY <1>3, <1>7, <2>1, <2>2, <3>1
  <2> QED BY <2>1, <2>2
<1>11. row.room = Head(todo[q]).room /\ row.start >= Head(todo[q]).start
  <2>1. Head(todo[p]).room = req[q].room
    BY WaitFacts
  <2>2. row.room = Head(todo[p]).room /\ row.start = Head(todo[p]).start
    BY <1>9 DEF Same
  <2>3. q \in Rivals
    OBVIOUS
  <2>4. Head(todo[q]).start <= Head(todo[p]).start
    BY <1>7, <2>3
  <2> QED BY <1>1, <1>3, <2>1, <2>2, <2>3, <2>4
<1> QED BY <1>9, <1>10, <1>11

\* Statements that generate the same days at once never deadlock: every wait
\* for a row of EnsureSlots leads to a statement that goes on.
THEOREM WaitsEnd == Spec => []NoCircularWait
<1> QED BY FurthestGoesOn, DaysInvariance, PTL
=============================================================================
