--------------------------- MODULE BookingService ---------------------------
(***************************************************************************)
(* The write path of booking-service: concurrent HTTP requests that create *)
(* and cancel bookings, each a sequence of database round trips over one   *)
(* connection pool.  One request of this module is one call of             *)
(* bookingHandler.createBooking or cancelBooking, down to the repository.  *)
(*                                                                         *)
(* A booking is identified by the request that inserts it (the code draws  *)
(* a fresh uuid).  PostgreSQL, which is not under src/, is modelled from   *)
(* the statements the repository sends to it, at READ COMMITTED: the       *)
(* writes of an open transaction are invisible to the others, and a        *)
(* statement that meets one of them waits until that transaction ends.     *)
(***************************************************************************)
EXTENDS Naturals, FiniteSets

CONSTANTS Requests,        \* HTTP requests, each served once
          Slots,           \* rows of table slots
          Users,           \* authenticated users with the role "user"
          None,            \* an identifier no row has, or no row
          StartAt,         \* StartAt[s]: when slot s begins
          MaxConns,        \* size of the connection pool
          RequestTimeout,  \* deadline of a request, from its arrival
          MaxTime          \* bound of the clock (model only)

Row == [slot : Slots, user : Users, status : {"active", "cancelled"}, link : BOOLEAN]

\* What the ledger of SlotLedger keeps of a row.
LedgerRow == [slot : Slots, user : Users, status : {"active", "cancelled"}]

ASSUME NoneAssumption == /\ None \notin Requests \cup Slots \cup Users
                         /\ None \notin Row
                         /\ None \notin LedgerRow

ASSUME ClockAssumption == /\ StartAt \in [Slots -> Nat]
                          /\ RequestTimeout \in Nat
                          /\ MaxTime \in Nat

ASSUME PoolAssumption == MaxConns \in Nat \ {0}

VARIABLES now,        \* the wall clock
          pc,         \* pc[r]: the next step of request r
          req,        \* req[r]: what r asks for, None before it arrives
          arrived,    \* arrived[r]: when r arrived
          conns,      \* requests that hold a pool connection
          tx,         \* tx[r]: the uncommitted writes of r's transaction
          bookings,   \* bookings[b]: committed row of table bookings, or None
          outbox,     \* committed rows of table outbox
          reply       \* reply[r]: the HTTP answer of r

tables == <<bookings, outbox>>
vars == <<now, pc, req, arrived, conns, tx, bookings, outbox, reply>>

(***************************************************************************)
(* Requests, rows and answers.                                             *)
(***************************************************************************)
Creation == [op : {"create"}, user : Users, slot : Slots \cup {None},
             conf : BOOLEAN, booking : {None}]

Cancellation == [op : {"cancel"}, user : Users, slot : {None},
                 conf : {FALSE}, booking : Requests \cup {None}]

ASSUME RequestAssumption == None \notin Creation \cup Cancellation

Event == [type : {"created", "cancelled"}, booking : Requests, by : Requests]

\* "sent": nobody listens any more, but the COMMIT is with the database.
\* "lost": ended, and the client does not know how.
Steps == {"new", "getSlot", "begin", "insert", "update", "outbox", "commit",
          "link", "updateLink", "diagnose", "sent", "done", "lost"}

Codes == {0, 200, 201, 400, 404, 409, 500}

Reply == [code : Codes, status : {"none", "active", "cancelled"}, link : BOOLEAN]

NoReply == [code |-> 0, status |-> "none", link |-> FALSE]

Exists(b) == b \in Requests /\ bookings[b] # None

IsActive(b) == Exists(b) /\ bookings[b].status = "active"

\* The row a request works on: the one it inserts, or the one it cancels.
Target(r) == IF req[r].op = "create" THEN r ELSE req[r].booking

\* Uncommitted writes of the open transactions.
Inserting(r) == "insert" \in tx[r]
Cancelling(r) == "cancel" \in tx[r]

\* Steps whose database calls carry the request's context.
BoundByContext == {"getSlot", "begin", "insert", "update", "outbox", "commit", "diagnose"}

Expired(r) == now >= arrived[r] + RequestTimeout

Init ==
    /\ now = 0
    /\ pc = [r \in Requests |-> "new"]
    /\ req = [r \in Requests |-> None]
    /\ arrived = [r \in Requests |-> 0]
    /\ conns = {}
    /\ tx = [r \in Requests |-> {}]
    /\ bookings = [b \in Requests |-> None]
    /\ outbox = {}
    /\ reply = [r \in Requests |-> NoReply]

(***************************************************************************)
(* Building blocks.                                                        *)
(***************************************************************************)
FreeConn == Cardinality(conns) < MaxConns

Goto(r, step) == pc' = [pc EXCEPT ![r] = step]

Answer(r, code, status, link) ==
    /\ Goto(r, "done")
    /\ reply' = [reply EXCEPT ![r] = [code |-> code, status |-> status, link |-> link]]

\* mapError: the answer carries no booking.
Refuse(r, code) == Answer(r, code, "none", FALSE)

\* Close r's transaction, giving its connection back.
Close(r) == /\ tx' = [tx EXCEPT ![r] = {}]
            /\ conns' = conns \ {r}

\* The rows and events r's transaction adds to the committed tables.
InsertedRow(r) == [slot |-> req[r].slot, user |-> req[r].user,
                   status |-> "active", link |-> FALSE]

RowsAfter(r) ==
    IF Inserting(r) THEN [bookings EXCEPT ![r] = InsertedRow(r)]
    ELSE IF Cancelling(r) THEN [bookings EXCEPT ![Target(r)].status = "cancelled"]
    ELSE bookings

EventType(r) == IF req[r].op = "create" THEN "created" ELSE "cancelled"

NewEvents(r) ==
    IF "event" \in tx[r]
    THEN {[type |-> EventType(r), booking |-> Target(r), by |-> r]}
    ELSE {}

Apply(r) == /\ bookings' = RowsAfter(r)
            /\ outbox' = outbox \cup NewEvents(r)
            /\ Close(r)

\* Defect: the check of the start is dropped.
InPastUnchecked(r) == FALSE

\* CreateBooking's check, on the clock of the service.
InPast(r) == StartAt[req[r].slot] < now

\* Defect: the index is on (slot_id, user_id).
SlotTakenByUser(r) == \E b \in Requests : /\ IsActive(b)
                                          /\ bookings[b].slot = req[r].slot
                                          /\ bookings[b].user = req[r].user

\* idx_bookings_slot_active: another committed booking holds r's slot.
SlotTaken(r) == \E b \in Requests : IsActive(b) /\ bookings[b].slot = req[r].slot

\* The index entry r's INSERT would add conflicts with a write q has not
\* committed: PostgreSQL lets r wait for the end of q's transaction.
InsertWaitsFor(r, q) ==
    /\ q # r
    /\ \/ Inserting(q) /\ req[q].slot = req[r].slot
       \/ Cancelling(q) /\ bookings[Target(q)].slot = req[r].slot

\* Another transaction has an uncommitted update of row b.
RowLocked(r, b) == \E q \in Requests \ {r} : Cancelling(q) /\ Target(q) = b

\* Defect: the UPDATE does not compare the owner.
CancellableByAnyone(r) == IsActive(Target(r))

\* The WHERE clause of the cancelling UPDATE.
Cancellable(r) == /\ IsActive(Target(r))
                  /\ bookings[Target(r)].user = req[r].user

\* Defect: the owner is not compared in the diagnosis.
DiagnosedCodeUnchecked(r) == IF Exists(Target(r)) THEN 200 ELSE 404

\* The answer of diagnoseCancelFailure: not found, or the booking as it is.
DiagnosedCode(r) ==
    IF Exists(Target(r)) /\ bookings[Target(r)].user = req[r].user THEN 200 ELSE 404

\* Defect: the link is saved with the whole row as it was inserted.
RowsWithLinkSavedWhole(r) ==
    [bookings EXCEPT ![r] = [InsertedRow(r) EXCEPT !.link = TRUE]]

\* UPDATE bookings SET conference_link, whatever the status of the row.
RowsWithLink(r) == [bookings EXCEPT ![r].link = TRUE]

(***************************************************************************)
(* Arrival.  A client knows a booking only once it is committed; None is   *)
(* an identifier without a row.                                            *)
(***************************************************************************)
Arrive(r) ==
    /\ pc[r] = "new"
    /\ \E q \in Creation \cup Cancellation :
          /\ q.booking # None => Exists(q.booking)
          /\ req' = [req EXCEPT ![r] = q]
          /\ Goto(r, IF q.op = "create" THEN "getSlot" ELSE "begin")
    /\ arrived' = [arrived EXCEPT ![r] = now]
    /\ UNCHANGED <<now, conns, tx, tables, reply>>

\* The body or the identifier does not parse.
Malformed(r) ==
    /\ pc[r] = "new"
    /\ Refuse(r, 400)
    /\ UNCHANGED <<now, req, arrived, conns, tx, tables>>

\* GetSlotByID on a connection of its own, then the check of the start.
GetSlot(r) ==
    /\ pc[r] = "getSlot"
    /\ FreeConn
    /\ \/ req[r].slot = None /\ Refuse(r, 404)
       \/ req[r].slot # None /\ InPast(r) /\ Refuse(r, 400)
       \/ req[r].slot # None /\ ~InPast(r) /\ Goto(r, "begin") /\ UNCHANGED reply
    /\ UNCHANGED <<now, req, arrived, conns, tx, tables>>

Begin(r) ==
    /\ pc[r] = "begin"
    /\ FreeConn
    /\ conns' = conns \cup {r}
    /\ Goto(r, IF req[r].op = "create" THEN "insert" ELSE "update")
    /\ UNCHANGED <<now, req, arrived, tx, tables, reply>>

(***************************************************************************)
(* CreateBooking's transaction and CancelBooking's.                        *)
(***************************************************************************)
Insert(r) ==
    /\ pc[r] = "insert"
    /\ \A q \in Requests : ~InsertWaitsFor(r, q)
    /\ \/ SlotTaken(r) /\ Refuse(r, 409) /\ Close(r)
       \/ /\ ~SlotTaken(r)
          /\ tx' = [tx EXCEPT ![r] = {"insert"}]
          /\ Goto(r, "outbox")
          /\ UNCHANGED <<conns, reply>>
    /\ UNCHANGED <<now, req, arrived, tables>>

\* Defect: the transaction stays open during the diagnosis.
UpdateWithoutRollback(r) ==
    /\ pc[r] = "update"
    /\ \/ /\ Cancellable(r)
          /\ ~RowLocked(r, Target(r))
          /\ tx' = [tx EXCEPT ![r] = {"cancel"}]
          /\ Goto(r, "outbox")
       \/ ~Cancellable(r) /\ Goto(r, "diagnose") /\ UNCHANGED tx
    /\ UNCHANGED <<now, req, arrived, conns, tables, reply>>

Update(r) ==
    /\ pc[r] = "update"
    /\ \/ /\ Cancellable(r)
          /\ ~RowLocked(r, Target(r))
          /\ tx' = [tx EXCEPT ![r] = {"cancel"}]
          /\ Goto(r, "outbox")
          /\ UNCHANGED conns
       \/ ~Cancellable(r) /\ Close(r) /\ Goto(r, "diagnose")
    /\ UNCHANGED <<now, req, arrived, tables, reply>>

\* Defect: the event is written on the pool, outside the transaction.
InsertOutboxOnPool(r) ==
    /\ pc[r] = "outbox"
    /\ outbox' = outbox \cup {[type |-> EventType(r), booking |-> Target(r), by |-> r]}
    /\ Goto(r, "commit")
    /\ UNCHANGED <<now, req, arrived, conns, tx, bookings, reply>>

InsertOutbox(r) ==
    /\ pc[r] = "outbox"
    /\ tx' = [tx EXCEPT ![r] = @ \cup {"event"}]
    /\ Goto(r, "commit")
    /\ UNCHANGED <<now, req, arrived, conns, tables, reply>>

Commit(r) ==
    /\ pc[r] = "commit"
    /\ Apply(r)
    /\ \/ req[r].op = "create" /\ ~req[r].conf /\ Answer(r, 201, "active", FALSE)
       \/ req[r].op = "create" /\ req[r].conf /\ Goto(r, "link") /\ UNCHANGED reply
       \/ req[r].op = "cancel" /\ Answer(r, 200, "cancelled", bookings[Target(r)].link)
    /\ UNCHANGED <<now, req, arrived>>

\* The deadline passes, or the connection breaks, before the COMMIT is
\* acknowledged: 500, and the connection is given up.  What the database
\* makes of a COMMIT it has received is still open.
CommitUnacknowledged(r) ==
    /\ pc[r] = "commit"
    /\ Goto(r, "sent")
    /\ reply' = [reply EXCEPT ![r] = [code |-> 500, status |-> "none", link |-> FALSE]]
    /\ conns' = conns \ {r}
    /\ UNCHANGED <<now, req, arrived, tx, tables>>

\* PostgreSQL applies a COMMIT nobody waits for any more, at any later time.
LateCommit(r) ==
    /\ pc[r] = "sent"
    /\ Apply(r)
    /\ Goto(r, "lost")
    /\ UNCHANGED <<now, req, arrived, reply>>

\* The COMMIT did not get there: PostgreSQL finds the connection closed.
LateAbort(r) ==
    /\ pc[r] = "sent"
    /\ Close(r)
    /\ Goto(r, "lost")
    /\ UNCHANGED <<now, req, arrived, tables, reply>>

\* GetBookingByID after the rollback, again from the pool.
Diagnose(r) ==
    /\ pc[r] = "diagnose"
    /\ FreeConn
    /\ \/ DiagnosedCode(r) = 404 /\ Refuse(r, 404)
       \/ DiagnosedCode(r) = 200
          /\ Answer(r, 200, bookings[Target(r)].status, bookings[Target(r)].link)
    /\ UNCHANGED <<now, req, arrived, conns, tx, tables>>

(***************************************************************************)
(* The conference link, after the commit: the UPDATE is a statement of its *)
(* own that no deadline of the request stops, and nothing that goes wrong  *)
(* here changes the answer's code.                                         *)
(***************************************************************************)
RequestLink(r) ==
    /\ pc[r] = "link"
    /\ FreeConn
    /\ conns' = conns \cup {r}
    /\ Goto(r, "updateLink")
    /\ UNCHANGED <<now, req, arrived, tx, tables, reply>>

UpdateLink(r) ==
    /\ pc[r] = "updateLink"
    /\ ~RowLocked(r, r)
    /\ bookings' = RowsWithLink(r)
    /\ Close(r)
    /\ Answer(r, 201, "active", TRUE)
    /\ UNCHANGED <<now, req, arrived, outbox>>

\* CreateLink fails, or the UPDATE does (applied or not): logged only.
LinkFails(r) ==
    /\ \/ pc[r] = "link" /\ UNCHANGED bookings
       \/ pc[r] = "updateLink" /\ UNCHANGED bookings
       \/ pc[r] = "updateLink" /\ ~RowLocked(r, r) /\ bookings' = RowsWithLink(r)
    /\ Close(r)
    /\ Answer(r, 201, "active", FALSE)
    /\ UNCHANGED <<now, req, arrived, outbox>>

(***************************************************************************)
(* Failures, restarts and time.                                            *)
(***************************************************************************)

\* A database call returns an error or the deadline passes: defer Rollback.
Fail(r) ==
    /\ pc[r] \in BoundByContext
    /\ Close(r)
    /\ Refuse(r, 500)
    /\ UNCHANGED <<now, req, arrived, tables>>

InFlight(r) == pc[r] \notin {"new", "sent", "done", "lost"}

\* The process dies: its clients get no answer and its transactions abort,
\* but for those whose COMMIT may be with the database.
Crash ==
    /\ \E r \in Requests : InFlight(r)
    /\ pc' = [r \in Requests |-> IF pc[r] = "commit" THEN "sent"
                                 ELSE IF InFlight(r) THEN "lost" ELSE pc[r]]
    /\ tx' = [r \in Requests |-> IF pc[r] \in {"commit", "sent"} THEN tx[r] ELSE {}]
    /\ conns' = {}
    /\ UNCHANGED <<now, req, arrived, tables, reply>>

\* Time passes, but nobody waits for a call bound by a context longer than its
\* deadline; what the call has asked of the database may outlive it.
Tick ==
    /\ now < MaxTime
    /\ \A r \in Requests : pc[r] \in BoundByContext => ~Expired(r)
    /\ now' = now + 1
    /\ UNCHANGED <<pc, req, arrived, conns, tx, tables, reply>>

\* Every request has ended (keeps TLC's deadlock check meaningful).
Finished ==
    /\ \A r \in Requests : pc[r] \in {"done", "lost"}
    /\ UNCHANGED vars

\* The steps of a request to which nothing bad happens.
Step(r) ==
    \/ GetSlot(r) \/ Begin(r)
    \/ Insert(r) \/ Update(r) \/ InsertOutbox(r) \/ Commit(r) \/ Diagnose(r)
    \/ RequestLink(r) \/ UpdateLink(r)

\* The database ends a transaction whose client is gone.
Resolve(r) == LateCommit(r) \/ LateAbort(r)

\* Everything but the clock.
Serve ==
    \/ \E r \in Requests :
          \/ Arrive(r) \/ Malformed(r)
          \/ Step(r) \/ Resolve(r)
          \/ CommitUnacknowledged(r) \/ LinkFails(r) \/ Fail(r)
    \/ Crash \/ Finished

Next == Serve \/ Tick

Spec == Init /\ [][Next]_vars

\* Goroutines are scheduled, and PostgreSQL answers and ends what nobody waits
\* for; no failure is required, nor any client.
FairSpec == Spec /\ \A r \in Requests : WF_vars(Step(r) \/ Resolve(r))

(***************************************************************************)
(* Properties.                                                             *)
(***************************************************************************)

\* Type invariant of the state of the write path.
TypeOK ==
    /\ now \in Nat
    /\ pc \in [Requests -> Steps]
    /\ req \in [Requests -> Creation \cup Cancellation \cup {None}]
    /\ arrived \in [Requests -> Nat]
    /\ conns \subseteq Requests
    /\ tx \in [Requests -> SUBSET {"insert", "cancel", "event"}]
    /\ bookings \in [Requests -> Row \cup {None}]
    /\ outbox \subseteq Event
    /\ reply \in [Requests -> Reply]

\* However the transactions of the requests interleave, fail or die, a slot
\* never has two active committed bookings (CreateBooking takes no lock and
\* relies on idx_bookings_slot_active).
NoDoubleBooking ==
    \A a, b \in Requests :
        IsActive(a) /\ IsActive(b) /\ bookings[a].slot = bookings[b].slot => a = b

\* Transactional outbox: each booking has exactly one created event, written
\* by the request that made it, and exactly one cancelled event if and only
\* if it is cancelled; there is no other event.
OutboxMirrorsBookings ==
    /\ \A e, f \in outbox : e.booking = f.booking /\ e.type = f.type => e = f
    /\ \A e \in outbox :
          /\ Exists(e.booking)
          /\ e.type = "created" => e.by = e.booking
          /\ e.type = "cancelled" => bookings[e.booking].status = "cancelled"
    /\ \A b \in Requests :
          /\ Exists(b) => \E e \in outbox : e.booking = b /\ e.type = "created"
          /\ Exists(b) /\ bookings[b].status = "cancelled" =>
                \E e \in outbox : e.booking = b /\ e.type = "cancelled"

\* Only the owner of a booking cancels it: the request behind a cancelled
\* event acts for the user of the row (WHERE user_id in the UPDATE).
CancelledByOwner ==
    \A e \in outbox :
        e.type = "cancelled" => req[e.by].user = bookings[e.booking].user

\* A row never disappears, never changes slot or owner, never becomes active
\* again and never loses its link, whatever a late UpdateConferenceLink or a
\* repeated cancellation does to it.
RowsOnlyAdvance ==
    [][\A b \in Requests : bookings[b] # None =>
          /\ bookings'[b] # None
          /\ bookings'[b].slot = bookings[b].slot
          /\ bookings'[b].user = bookings[b].user
          /\ bookings[b].status = "cancelled" => bookings'[b].status = "cancelled"
          /\ bookings[b].link => bookings'[b].link]_vars

\* What a client was told stays true of the tables, whatever happens after
\* the answer: 201 is a row of one's own, 200 a booking of one's own that is
\* cancelled, 409 a slot another request booked, and after 400, 404 or 409 the
\* request left nothing behind.  Only a 500 says nothing.
AnswersMatchTables ==
    \A r \in Requests : pc[r] = "done" /\ req[r] # None =>
        LET code == reply[r].code  mine == Exists(r)  booking == req[r].booking
        IN  /\ code = 201 => /\ mine
                             /\ bookings[r].slot = req[r].slot
                             /\ bookings[r].user = req[r].user
                             /\ reply[r].link => bookings[r].link
            /\ code = 200 => /\ reply[r].status = "cancelled"
                             /\ bookings[booking].status = "cancelled"
                             /\ bookings[booking].user = req[r].user
                             /\ reply[r].link => bookings[booking].link
            /\ code = 409 => \E b \in Requests \ {r} :
                                 Exists(b) /\ bookings[b].slot = req[r].slot
            /\ code = 404 /\ Exists(booking) => bookings[booking].user # req[r].user
            /\ code \in {400, 404, 409} => ~mine /\ \A e \in outbox : e.by # r

\* The start of the slot is checked before the transaction.  A booking can
\* appear any time after the slot has begun, but later than a request may last
\* only by a COMMIT nobody waits for: its client was told 500, or nothing, and
\* no client learns of it as a booking it has made.
LateBookingUnacknowledged ==
    [][\A b \in Requests :
          /\ bookings[b] = None /\ bookings'[b] # None
          /\ now > StartAt[bookings'[b].slot] + RequestTimeout
          => pc'[b] = "lost" /\ reply'[b].code \in {0, 500}]_vars

\* A request that waits for a pool connection, or has been answered, holds no
\* connection, and no uncommitted writes unless its COMMIT is under way:
\* cancelBooking gives its connection back before the diagnostic query, so
\* requests never wait for one another's.
NoHoldAndWait ==
    \A r \in Requests :
        pc[r] \notin {"insert", "update", "outbox", "commit", "updateLink"} =>
            r \notin conns /\ (pc[r] # "sent" => tx[r] = {})

\* What request r waits for before its next round trip: a connection of the
\* pool, an index entry that another transaction has written, or a row that
\* another transaction has updated.
Waits(r) ==
    \/ pc[r] \in {"getSlot", "begin", "diagnose", "link"} /\ ~FreeConn
    \/ pc[r] = "insert" /\ \E q \in Requests : InsertWaitsFor(r, q)
    \/ pc[r] = "update" /\ Cancellable(r) /\ RowLocked(r, Target(r))
    \/ pc[r] = "updateLink" /\ RowLocked(r, r)

\* Requests never all wait, be it for connections, for index entries or for
\* rows, of one another: while one is under way, one of them can go on, or
\* the database has a COMMIT to end for which nobody waits.
NeverAllWait ==
    (\E r \in Requests : InFlight(r)) =>
        \E r \in Requests : pc[r] = "sent" \/ (InFlight(r) /\ ~Waits(r))

\* No request needs its deadline to end: without failures, waits for
\* connections, index entries and row locks all resolve.
EveryRequestAnswered ==
    \A r \in Requests : pc[r] # "new" ~> pc[r] \in {"done", "lost"}

\* The ledger the committed rows and events stand for.
ledgerOfRows ==
    [b \in Requests |->
        IF bookings[b] = None THEN None
        ELSE [slot |-> bookings[b].slot, user |-> bookings[b].user,
              status |-> bookings[b].status]]

announcedEvents == {<<e.type, e.booking>> : e \in outbox}

Ledger == INSTANCE SlotLedger WITH
    Bookings <- Requests, ledger <- ledgerOfRows, announced <- announcedEvents

\* The tables implement the ledger: a commit books or cancels and announces
\* it, every other step leaves the ledger alone.
ImplementsLedger == Ledger!Spec

\* api.yaml:737 and TestCancelBooking_Forbidden: cancelling the booking of
\* another user is answered with 403.
ForeignCancelIsForbidden ==
    \A r \in Requests :
        /\ pc[r] = "done" /\ req[r] # None
        /\ Exists(req[r].booking)
        /\ bookings[req[r].booking].user # req[r].user
        /\ reply[r].code # 500
        => reply[r].code = 403
=============================================================================
