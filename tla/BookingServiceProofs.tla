------------------------ MODULE BookingServiceProofs ------------------------
(***************************************************************************)
(* Proofs about BookingService for any requests, slots, users, pool size   *)
(* and clock.                                                              *)
(*                                                                         *)
(* NoDoubleBooking is not inductive: it has to be known that a transaction *)
(* that has inserted its row is alone on its slot (no active committed     *)
(* row, no other uncommitted insertion), which in turn needs that an       *)
(* uncommitted cancellation works on an active row nobody else is          *)
(* cancelling.  Inv below is that strengthening.                           *)
(*                                                                         *)
(* Further down: who holds a connection (Connections) and why someone can  *)
(* always go on, how old a request that still waits can be (Deadlines),    *)
(* and what keeps an answer true of the tables (AnswerInv).                *)
(***************************************************************************)
EXTENDS BookingService, FiniteSetTheorems, TLAPS

\* What the step of request r says of its parameters.
ControlOf(r) ==
    /\ pc[r] \in {"getSlot", "insert", "link", "updateLink"} => req[r] \in Creation
    /\ pc[r] \in {"update", "diagnose"} => req[r] \in Cancellation
    /\ pc[r] \in {"begin", "outbox", "commit", "sent"} => req[r] \in Creation \cup Cancellation
    /\ pc[r] \in {"begin", "insert", "outbox", "commit", "sent"} /\ req[r].op = "create" =>
          req[r].slot \in Slots
    /\ pc[r] \in {"link", "updateLink"} => bookings[r] # None

Control == \A r \in Requests : ControlOf(r)

\* The writes of a transaction follow from how far it got.
Written(r) == IF req[r].op = "create" THEN "insert" ELSE "cancel"

TransactionOf(r) ==
    /\ pc[r] \notin {"outbox", "commit", "sent"} => tx[r] = {}
    /\ pc[r] = "outbox" => tx[r] = {Written(r)}
    /\ pc[r] \in {"commit", "sent"} => tx[r] = {Written(r), "event"}

Transactions == \A r \in Requests : TransactionOf(r)

\* A committed row is the one its request asked for, past its transaction.
RowOf(r) ==
    bookings[r] # None =>
        /\ pc[r] \in {"link", "updateLink", "done", "lost"}
        /\ req[r] \in Creation
        /\ bookings[r].slot = req[r].slot
        /\ bookings[r].user = req[r].user

Rows == \A r \in Requests : RowOf(r)

\* An uncommitted insertion is alone on its slot.
PendingInserts ==
    \A r \in Requests : Inserting(r) =>
        /\ \A b \in Requests : IsActive(b) => bookings[b].slot # req[r].slot
        /\ \A q \in Requests : q # r /\ Inserting(q) => req[q].slot # req[r].slot

\* An uncommitted cancellation is alone on an active row of its user.
PendingCancels ==
    \A r \in Requests : Cancelling(r) =>
        /\ Cancellable(r)
        /\ \A q \in Requests : q # r /\ Cancelling(q) => Target(q) # Target(r)

\* The request behind an event has been accepted, so its user is fixed.
EventsHaveRequests == \A e \in outbox : pc[e.by] # "new"

Inv ==
    /\ TypeOK /\ Control /\ Transactions /\ Rows
    /\ PendingInserts /\ PendingCancels
    /\ NoDoubleBooking /\ OutboxMirrorsBookings /\ CancelledByOwner
    /\ EventsHaveRequests

-----------------------------------------------------------------------------
(***************************************************************************)
(* Facts about single expressions.                                         *)
(***************************************************************************)

\* A row is a record of known fields and never None.
LEMMA RowFacts ==
    /\ \A row \in Row : /\ row # None
                        /\ row.slot \in Slots /\ row.user \in Users
                        /\ row.status \in {"active", "cancelled"} /\ row.link \in BOOLEAN
    /\ \A s \in Slots, u \in Users :
          [slot |-> s, user |-> u, status |-> "active", link |-> FALSE] \in Row
BY NoneAssumption DEF Row

\* The two updates of a row keep it a row.
LEMMA RowUpdates ==
    \A row \in Row : /\ [row EXCEPT !.status = "cancelled"] \in Row
                     /\ [row EXCEPT !.link = TRUE] \in Row
BY DEF Row

\* What the two kinds of request say, and that they differ.
LEMMA RequestFacts ==
    /\ \A q \in Creation : /\ q.op = "create" /\ q.user \in Users
                           /\ q.slot \in Slots \cup {None} /\ q.booking = None
                           /\ q.conf \in BOOLEAN
    /\ \A q \in Cancellation : /\ q.op = "cancel" /\ q.user \in Users
                               /\ q.booking \in Requests \cup {None}
    /\ \A q \in Creation \cup Cancellation : q.op = "create" => q \in Creation
BY DEF Creation, Cancellation

\* What an open transaction has written tells what its request is, and the
\* converse: only an inserting one is in the middle of a creation.
LEMMA OpenTransaction ==
    ASSUME Inv, NEW r \in Requests
    PROVE  /\ Inserting(r) => /\ pc[r] \in {"outbox", "commit", "sent"}
                              /\ req[r] \in Creation /\ req[r].op = "create"
                              /\ req[r].slot \in Slots /\ req[r].user \in Users
                              /\ bookings[r] = None
                              /\ Target(r) = r
                              /\ ~Cancelling(r)
           /\ Cancelling(r) => /\ pc[r] \in {"outbox", "commit", "sent"}
                               /\ req[r] \in Cancellation /\ req[r].op = "cancel"
                               /\ Target(r) \in Requests
                               /\ Target(r) = req[r].booking
                               /\ bookings[Target(r)] \in Row
                               /\ ~Inserting(r)
           /\ pc[r] \in {"outbox", "commit", "sent"} => Inserting(r) \/ Cancelling(r)
<1>1. /\ ControlOf(r) /\ TransactionOf(r) /\ RowOf(r) /\ TypeOK /\ PendingCancels
  BY DEF Inv, Control, Transactions, Rows
<1>2. ASSUME Inserting(r)
      PROVE  /\ pc[r] \in {"outbox", "commit", "sent"} /\ req[r] \in Creation
             /\ req[r].op = "create" /\ ~Cancelling(r)
  <2>1. pc[r] \in {"outbox", "commit", "sent"}
    BY <1>1, <1>2 DEF TransactionOf, Inserting
  <2>2. Written(r) = "insert"
    BY <2>1, <1>1, <1>2 DEF TransactionOf, Inserting, Written
  <2>. QED BY <2>1, <2>2, <1>1, RequestFacts DEF TransactionOf, ControlOf, Written, Cancelling
<1>3. ASSUME Inserting(r)
      PROVE  /\ req[r].slot \in Slots /\ req[r].user \in Users
             /\ bookings[r] = None /\ Target(r) = r
  BY <1>1, <1>2, <1>3, RequestFacts DEF ControlOf, RowOf, Target
<1>4. ASSUME Cancelling(r)
      PROVE  /\ pc[r] \in {"outbox", "commit", "sent"} /\ req[r] \in Cancellation
             /\ req[r].op = "cancel" /\ ~Inserting(r)
  <2>1. pc[r] \in {"outbox", "commit", "sent"}
    BY <1>1, <1>4 DEF TransactionOf, Cancelling
  <2>2. req[r].op # "create"
    BY <2>1, <1>1, <1>4 DEF TransactionOf, Cancelling, Written
  <2>. QED BY <2>1, <2>2, <1>1, RequestFacts DEF TransactionOf, ControlOf, Written, Inserting
<1>5. ASSUME Cancelling(r)
      PROVE  /\ Target(r) \in Requests /\ Target(r) = req[r].booking
             /\ bookings[Target(r)] \in Row
  BY <1>1, <1>4, <1>5 DEF PendingCancels, Cancellable, IsActive, Exists, TypeOK, Target
<1>6. pc[r] \in {"outbox", "commit", "sent"} => Inserting(r) \/ Cancelling(r)
  BY <1>1 DEF TransactionOf, Written, Inserting, Cancelling
<1>. QED BY <1>2, <1>3, <1>4, <1>5, <1>6

(***************************************************************************)
(* Steps that leave the tables alone.                                      *)
(***************************************************************************)

\* A step of r that leaves r without uncommitted writes and the tables as
\* they are preserves everything but the types: errors, refusals, waits over.
LEMMA QuietStep ==
    ASSUME Inv, TypeOK', NEW r \in Requests,
           UNCHANGED tables,
           \A q \in Requests \ {r} :
               pc'[q] = pc[q] /\ tx'[q] = tx[q] /\ req'[q] = req[q],
           pc[r] = "new" \/ req'[r] = req[r],
           tx'[r] = {},
           pc'[r] \notin {"new", "outbox", "commit", "sent"},
           bookings[r] # None => pc'[r] \in {"link", "updateLink", "done", "lost"},
           ControlOf(r)'
    PROVE  Inv'
<1>1. /\ bookings' = bookings /\ outbox' = outbox
      /\ \A q \in Requests : Exists(q)' = Exists(q) /\ IsActive(q)' = IsActive(q)
  BY DEF tables, Exists, IsActive
<1>2. \A q \in Requests : /\ Inserting(q)' => Inserting(q) /\ q # r
                          /\ Cancelling(q)' => Cancelling(q) /\ q # r
  BY DEF Inserting, Cancelling
<1>3. \A q \in Requests : q # r => Target(q)' = Target(q)
  BY DEF Target
<1>4. Control'
  BY <1>1 DEF Inv, Control, ControlOf
<1>5. Transactions'
  BY DEF Inv, Transactions, TransactionOf, Written
<1>6. Rows'
  BY <1>1 DEF Inv, Rows, RowOf
<1>7. PendingInserts'
  BY <1>1, <1>2 DEF Inv, PendingInserts
<1>8. PendingCancels'
  <2>1. SUFFICES ASSUME NEW p \in Requests, Cancelling(p)'
                 PROVE  /\ Cancellable(p)'
                        /\ \A q \in Requests : q # p /\ Cancelling(q)' => Target(q)' # Target(p)'
    BY DEF PendingCancels
  <2>2. Cancelling(p) /\ p # r /\ Target(p)' = Target(p) /\ req'[p] = req[p]
    BY <1>2, <1>3, <2>1
  <2>3. Target(p) \in Requests
    BY <2>2, OpenTransaction
  <2>4. Cancellable(p)'
    BY <1>1, <2>2, <2>3 DEF Inv, PendingCancels, Cancellable
  <2>. QED BY <1>2, <1>3, <2>2, <2>4 DEF Inv, PendingCancels
<1>9. NoDoubleBooking'
  BY <1>1 DEF Inv, NoDoubleBooking
<1>10. OutboxMirrorsBookings'
  BY <1>1 DEF Inv, OutboxMirrorsBookings, Exists
<1>11. CancelledByOwner' /\ EventsHaveRequests'
  <2>1. \A e \in outbox : e.by \in Requests
    BY DEF Inv, TypeOK, Event
  <2>. QED BY <1>1, <2>1 DEF Inv, CancelledByOwner, EventsHaveRequests
<1>. QED BY <1>4, <1>5, <1>6, <1>7, <1>8, <1>9, <1>10, <1>11 DEF Inv

\* The rows a transaction commits are rows of the table.
LEMMA AppliedTypes ==
    ASSUME Inv, NEW r \in Requests, pc[r] \in {"commit", "sent"}
    PROVE  /\ RowsAfter(r) \in [Requests -> Row \cup {None}]
           /\ NewEvents(r) \subseteq Event
<1>1. TypeOK /\ (Inserting(r) \/ Cancelling(r))
  BY OpenTransaction DEF Inv
<1>2. Target(r) \in Requests
  BY <1>1, OpenTransaction
<1>3. RowsAfter(r) \in [Requests -> Row \cup {None}]
  <2>1. CASE Inserting(r)
    <3>1. InsertedRow(r) \in Row
      BY <2>1, OpenTransaction, RowFacts DEF InsertedRow
    <3>. QED BY <2>1, <3>1, <1>1 DEF RowsAfter, TypeOK
  <2>2. CASE Cancelling(r)
    <3>1. ~Inserting(r) /\ bookings[Target(r)] \in Row
      BY <2>2, OpenTransaction
    <3>2. [bookings[Target(r)] EXCEPT !.status = "cancelled"] \in Row
      BY <3>1, RowUpdates
    <3>. QED BY <2>2, <3>1, <3>2, <1>1, <1>2 DEF RowsAfter, TypeOK
  <2>. QED BY <1>1, <2>1, <2>2
<1>4. NewEvents(r) \subseteq Event
  BY <1>2 DEF NewEvents, Event, EventType
<1>. QED BY <1>3, <1>4

\* Answering a request keeps the types of steps and answers.
LEMMA AnswerTypes ==
    ASSUME TypeOK, NEW r \in Requests, NEW code \in Codes,
           NEW status \in {"none", "active", "cancelled"}, NEW link \in BOOLEAN,
           Answer(r, code, status, link)
    PROVE  pc' \in [Requests -> Steps] /\ reply' \in [Requests -> Reply]
BY DEF Answer, Goto, TypeOK, Steps, Reply

\* Type correctness of every step.
LEMMA TypePreserved ==
    ASSUME Inv, [Next]_vars
    PROVE  TypeOK'
<1>0. TypeOK
  BY DEF Inv
<1>1. ASSUME NEW r \in Requests, NEW code \in Codes, Refuse(r, code)
      PROVE  pc' \in [Requests -> Steps] /\ reply' \in [Requests -> Reply]
  BY <1>0, <1>1, AnswerTypes DEF Refuse
<1>2. ASSUME NEW r \in Requests, NEW step \in Steps, Goto(r, step), UNCHANGED reply
      PROVE  pc' \in [Requests -> Steps] /\ reply' \in [Requests -> Reply]
  BY <1>0, <1>2 DEF Goto, TypeOK
<1>3. {400, 404, 409, 500} \subseteq Codes
  BY DEF Codes
<1>4. /\ {"getSlot", "begin", "insert", "update", "outbox", "commit"} \subseteq Steps
      /\ {"link", "updateLink", "diagnose", "sent", "lost"} \subseteq Steps
  BY DEF Steps
<1>. USE DEF TypeOK, tables, Close
<1>5. ASSUME NEW r \in Requests, Arrive(r)
      PROVE  TypeOK'
  BY <1>0, <1>2, <1>4, <1>5 DEF Arrive
<1>6. ASSUME NEW r \in Requests, Malformed(r)
      PROVE  TypeOK'
  BY <1>0, <1>1, <1>3, <1>6 DEF Malformed
<1>7. ASSUME NEW r \in Requests, GetSlot(r)
      PROVE  TypeOK'
  BY <1>0, <1>1, <1>2, <1>3, <1>4, <1>7 DEF GetSlot
<1>8. ASSUME NEW r \in Requests, Begin(r)
      PROVE  TypeOK'
  BY <1>0, <1>2, <1>4, <1>8 DEF Begin
<1>9. ASSUME NEW r \in Requests, Insert(r)
      PROVE  TypeOK'
  BY <1>0, <1>1, <1>2, <1>3, <1>4, <1>9 DEF Insert
<1>10. ASSUME NEW r \in Requests, Update(r)
       PROVE  TypeOK'
  BY <1>0, <1>2, <1>4, <1>10 DEF Update
<1>11. ASSUME NEW r \in Requests, InsertOutbox(r)
       PROVE  TypeOK'
  BY <1>0, <1>2, <1>4, <1>11 DEF InsertOutbox
<1>12. ASSUME NEW r \in Requests, Commit(r) \/ LateCommit(r)
       PROVE  TypeOK'
  <2>1. /\ pc[r] \in {"commit", "sent"} /\ UNCHANGED <<now, req, arrived>>
        /\ bookings' = RowsAfter(r) /\ outbox' = outbox \cup NewEvents(r)
        /\ tx' = [tx EXCEPT ![r] = {}] /\ conns' = conns \ {r}
    BY <1>12 DEF Commit, LateCommit, Apply
  <2>2. /\ bookings' \in [Requests -> Row \cup {None}]
        /\ outbox' \subseteq Event
    BY <1>0, <2>1, AppliedTypes
  <2>3. ASSUME Commit(r)
        PROVE  pc' \in [Requests -> Steps] /\ reply' \in [Requests -> Reply]
    <3>1. req[r].op = "cancel" => bookings[Target(r)].link \in BOOLEAN
      <4>1. ASSUME req[r].op = "cancel" PROVE Cancelling(r)
        BY <2>1, <4>1, OpenTransaction
      <4>. QED BY <4>1, OpenTransaction, RowFacts
    <3>2. {200, 201} \subseteq Codes
      BY DEF Codes
    <3>3. CASE Answer(r, 201, "active", FALSE)
      BY <1>0, <3>2, <3>3, AnswerTypes
    <3>4. CASE Goto(r, "link") /\ UNCHANGED reply
      BY <1>2, <1>4, <3>4
    <3>5. CASE req[r].op = "cancel" /\ Answer(r, 200, "cancelled", bookings[Target(r)].link)
      BY <1>0, <3>1, <3>2, <3>5, AnswerTypes
    <3>. QED BY <2>3, <3>3, <3>4, <3>5 DEF Commit
  <2>4. ASSUME LateCommit(r)
        PROVE  pc' \in [Requests -> Steps] /\ reply' \in [Requests -> Reply]
    BY <1>2, <1>4, <2>4 DEF LateCommit
  <2>5. pc' \in [Requests -> Steps] /\ reply' \in [Requests -> Reply]
    BY <1>12, <2>3, <2>4
  <2>. QED BY <1>0, <2>1, <2>2, <2>5
<1>22. ASSUME NEW r \in Requests, CommitUnacknowledged(r)
       PROVE  TypeOK'
  <2>1. [code |-> 500, status |-> "none", link |-> FALSE] \in Reply
    BY <1>3 DEF Reply
  <2>2. pc' \in [Requests -> Steps]
    BY <1>0, <1>4, <1>22 DEF CommitUnacknowledged, Goto
  <2>. QED BY <1>0, <1>22, <2>1, <2>2 DEF CommitUnacknowledged
<1>23. ASSUME NEW r \in Requests, LateAbort(r)
       PROVE  TypeOK'
  BY <1>0, <1>2, <1>4, <1>23 DEF LateAbort
<1>13. ASSUME NEW r \in Requests, Diagnose(r)
       PROVE  TypeOK'
  <2>1. DiagnosedCode(r) = 200 => /\ bookings[Target(r)].status \in {"active", "cancelled"}
                                  /\ bookings[Target(r)].link \in BOOLEAN
    BY <1>0, RowFacts DEF DiagnosedCode, Exists
  <2>2. 200 \in Codes
    BY DEF Codes
  <2>3. pc' \in [Requests -> Steps] /\ reply' \in [Requests -> Reply]
    BY <1>0, <1>1, <1>3, <1>13, <2>1, <2>2, AnswerTypes DEF Diagnose
  <2>. QED BY <1>0, <1>13, <2>3 DEF Diagnose
<1>14. ASSUME NEW r \in Requests, pc[r] = "updateLink"
       PROVE  RowsWithLink(r) \in [Requests -> Row \cup {None}]
  <2>1. bookings[r] \in Row
    BY <1>0, <1>14 DEF Inv, Control, ControlOf
  <2>2. [bookings[r] EXCEPT !.link = TRUE] \in Row
    BY <2>1, RowUpdates
  <2>. QED BY <1>0, <2>2 DEF RowsWithLink
<1>15. 201 \in Codes
  BY DEF Codes
<1>16. ASSUME NEW r \in Requests, RequestLink(r)
       PROVE  TypeOK'
  BY <1>0, <1>2, <1>4, <1>16 DEF RequestLink
<1>17. ASSUME NEW r \in Requests, UpdateLink(r)
       PROVE  TypeOK'
  BY <1>0, <1>14, <1>15, <1>17, AnswerTypes DEF UpdateLink
<1>18. ASSUME NEW r \in Requests, LinkFails(r)
       PROVE  TypeOK'
  <2>1. bookings' \in [Requests -> Row \cup {None}]
    BY <1>0, <1>14, <1>18 DEF LinkFails
  <2>. QED BY <1>0, <1>15, <1>18, <2>1, AnswerTypes DEF LinkFails
<1>19. ASSUME NEW r \in Requests, Fail(r)
       PROVE  TypeOK'
  BY <1>0, <1>1, <1>3, <1>19 DEF Fail
<1>20. CASE Crash
  BY <1>0, <1>20 DEF Crash, Steps
<1>21. CASE Tick \/ Finished \/ UNCHANGED vars
  BY <1>0, <1>21 DEF Tick, Finished, vars
<1>. QED BY <1>5, <1>6, <1>7, <1>8, <1>9, <1>10, <1>11, <1>12, <1>13, <1>16, <1>17,
            <1>18, <1>19, <1>20, <1>21, <1>22, <1>23 DEF Next, Serve, Step, Resolve

\* The steps of a request that write nothing and commit nothing.
LEMMA QuietActions ==
    ASSUME Inv, TypeOK', NEW r \in Requests,
           \/ Arrive(r) \/ Malformed(r) \/ GetSlot(r) \/ Begin(r)
           \/ Insert(r) /\ SlotTaken(r)
           \/ Update(r) /\ ~Cancellable(r)
           \/ Diagnose(r) \/ RequestLink(r) \/ Fail(r)
           \/ LinkFails(r) /\ UNCHANGED bookings
           \/ LateAbort(r)
    PROVE  Inv'
<1>. USE DEF Goto, Answer, Refuse, Close, tables
<1>0. TypeOK /\ ControlOf(r) /\ TransactionOf(r) /\ RowOf(r)
  BY DEF Inv, Control, Transactions, Rows
<1>1. CASE Arrive(r)
  <2>1. PICK q \in Creation \cup Cancellation :
           /\ req' = [req EXCEPT ![r] = q]
           /\ pc' = [pc EXCEPT ![r] = IF q.op = "create" THEN "getSlot" ELSE "begin"]
    BY <1>1 DEF Arrive
  <2>2. pc[r] = "new" /\ tx[r] = {} /\ UNCHANGED <<bookings, outbox, tx>> /\ bookings[r] = None
    BY <1>0, <1>1 DEF Arrive, TransactionOf, RowOf
  <2>3. pc'[r] \in {"getSlot", "begin"} /\ req'[r] = q
    BY <1>0, <2>1 DEF TypeOK
  <2>4. q.op = "create" => pc'[r] = "getSlot" /\ q \in Creation
    BY <1>0, <2>1, <2>3, RequestFacts DEF TypeOK
  <2>7. pc'[r] = "getSlot" => q \in Creation
    BY <1>0, <2>1, <2>3, RequestFacts DEF TypeOK
  <2>5. ControlOf(r)'
    BY <2>3, <2>4, <2>7 DEF ControlOf
  <2>6. \A p \in Requests \ {r} : pc'[p] = pc[p] /\ tx'[p] = tx[p] /\ req'[p] = req[p]
    BY <1>0, <2>1, <2>2 DEF TypeOK
  <2>. QED BY <2>2, <2>3, <2>5, <2>6, QuietStep
<1>2. CASE Malformed(r)
  <2>1. /\ pc[r] = "new" /\ UNCHANGED <<req, tx, bookings, outbox>>
        /\ pc' = [pc EXCEPT ![r] = "done"]
    BY <1>2 DEF Malformed
  <2>2. pc'[r] = "done" /\ \A q \in Requests \ {r} : pc'[q] = pc[q]
    BY <1>0, <2>1 DEF TypeOK
  <2>3. tx[r] = {} /\ bookings[r] = None
    BY <1>0, <2>1 DEF TransactionOf, RowOf
  <2>4. ControlOf(r)'
    BY <2>2 DEF ControlOf
  <2>. QED BY <2>1, <2>2, <2>3, <2>4, QuietStep
<1>3. ASSUME UNCHANGED <<req, bookings, outbox>>, tx'[r] = {},
             \A q \in Requests \ {r} : tx'[q] = tx[q],
             NEW step \in {"begin", "insert", "update", "diagnose", "updateLink", "done", "lost"},
             pc' = [pc EXCEPT ![r] = step],
             bookings[r] # None => step \in {"updateLink", "done"},
             step = "begin" => req[r] \in Creation /\ req[r].slot \in Slots,
             step = "insert" => req[r] \in Creation /\ req[r].slot \in Slots,
             step \in {"update", "diagnose"} => req[r] \in Cancellation,
             step = "updateLink" => req[r] \in Creation /\ bookings[r] # None
      PROVE  Inv'
  <2>1. pc'[r] = step /\ \A q \in Requests \ {r} : pc'[q] = pc[q]
    BY <1>0, <1>3 DEF TypeOK
  <2>2. ControlOf(r)'
    BY <1>3, <2>1, RequestFacts DEF ControlOf
  <2>. QED BY <1>3, <2>1, <2>2, QuietStep
<1>4. CASE GetSlot(r)
  <2>1. /\ pc[r] = "getSlot" /\ UNCHANGED <<req, tx, bookings, outbox>>
        /\ \/ pc' = [pc EXCEPT ![r] = "done"]
           \/ pc' = [pc EXCEPT ![r] = "begin"] /\ req[r].slot # None
    BY <1>4 DEF GetSlot
  <2>2. tx[r] = {} /\ bookings[r] = None /\ req[r] \in Creation
    BY <1>0, <2>1 DEF TransactionOf, RowOf, ControlOf
  <2>. QED BY <1>3, <2>1, <2>2, RequestFacts
<1>5. CASE Begin(r)
  <2>1. /\ pc[r] = "begin" /\ UNCHANGED <<req, tx, bookings, outbox>>
        /\ pc' = [pc EXCEPT ![r] = IF req[r].op = "create" THEN "insert" ELSE "update"]
    BY <1>5 DEF Begin
  <2>2. tx[r] = {} /\ bookings[r] = None
    BY <1>0, <2>1 DEF TransactionOf, RowOf
  <2>3. req[r].op = "create" => req[r] \in Creation /\ req[r].slot \in Slots
    BY <1>0, <2>1, RequestFacts DEF ControlOf
  <2>4. req[r].op # "create" => req[r] \in Cancellation
    BY <1>0, <2>1, RequestFacts DEF ControlOf
  <2>. QED BY <1>3, <2>1, <2>2, <2>3, <2>4
<1>6. CASE Insert(r) /\ SlotTaken(r)
  <2>1. /\ pc[r] = "insert" /\ UNCHANGED <<req, bookings, outbox>>
        /\ pc' = [pc EXCEPT ![r] = "done"] /\ tx' = [tx EXCEPT ![r] = {}]
    BY <1>6 DEF Insert
  <2>. QED BY <1>0, <1>3, <2>1 DEF TypeOK
<1>7. CASE Update(r) /\ ~Cancellable(r)
  <2>1. /\ pc[r] = "update" /\ UNCHANGED <<req, bookings, outbox>>
        /\ pc' = [pc EXCEPT ![r] = "diagnose"] /\ tx' = [tx EXCEPT ![r] = {}]
    BY <1>7 DEF Update
  <2>2. bookings[r] = None /\ req[r] \in Cancellation
    BY <1>0, <2>1 DEF RowOf, ControlOf
  <2>. QED BY <1>0, <1>3, <2>1, <2>2 DEF TypeOK
<1>8. CASE Diagnose(r)
  <2>1. /\ pc[r] = "diagnose" /\ UNCHANGED <<req, tx, bookings, outbox>>
        /\ pc' = [pc EXCEPT ![r] = "done"]
    BY <1>8 DEF Diagnose
  <2>. QED BY <1>0, <1>3, <2>1 DEF TransactionOf
<1>9. CASE RequestLink(r)
  <2>1. /\ pc[r] = "link" /\ UNCHANGED <<req, tx, bookings, outbox>>
        /\ pc' = [pc EXCEPT ![r] = "updateLink"]
    BY <1>9 DEF RequestLink
  <2>. QED BY <1>0, <1>3, <2>1 DEF TransactionOf, ControlOf
<1>10. CASE Fail(r) \/ (LinkFails(r) /\ UNCHANGED bookings)
  <2>1. /\ UNCHANGED <<req, bookings, outbox>>
        /\ pc' = [pc EXCEPT ![r] = "done"] /\ tx' = [tx EXCEPT ![r] = {}]
    BY <1>10 DEF Fail, LinkFails
  <2>. QED BY <1>0, <1>3, <2>1 DEF TypeOK
<1>11. CASE LateAbort(r)
  <2>1. /\ pc[r] = "sent" /\ UNCHANGED <<req, bookings, outbox>>
        /\ pc' = [pc EXCEPT ![r] = "lost"] /\ tx' = [tx EXCEPT ![r] = {}]
    BY <1>11 DEF LateAbort
  <2>2. bookings[r] = None
    BY <1>0, <2>1 DEF RowOf
  <2>. QED BY <1>0, <1>3, <2>1, <2>2 DEF TypeOK
<1>. HIDE DEF Goto, Answer, Refuse, Close, tables
<1>. QED BY <1>1, <1>2, <1>4, <1>5, <1>6, <1>7, <1>8, <1>9, <1>10, <1>11

(***************************************************************************)
(* Steps that write in a transaction, still invisible to the tables.       *)
(***************************************************************************)

\* A step that leaves requests and tables alone and takes r into or through
\* its transaction preserves everything but what is said of pending writes.
LEMMA PendingStep ==
    ASSUME Inv, TypeOK', NEW r \in Requests,
           UNCHANGED <<req, bookings, outbox>>,
           \A q \in Requests \ {r} : pc'[q] = pc[q] /\ tx'[q] = tx[q],
           bookings[r] = None,
           pc[r] # "new", pc'[r] \in {"outbox", "commit", "sent"},
           req[r] \in Creation \cup Cancellation,
           req[r].op = "create" => req[r].slot \in Slots,
           TransactionOf(r)',
           PendingInserts', PendingCancels'
    PROVE  Inv'
<1>1. Control'
  BY DEF Inv, Control, ControlOf
<1>2. Transactions'
  BY DEF Inv, Transactions, TransactionOf, Written
<1>3. Rows'
  BY DEF Inv, Rows, RowOf
<1>4. NoDoubleBooking'
  BY DEF Inv, NoDoubleBooking, IsActive, Exists
<1>5. OutboxMirrorsBookings' /\ CancelledByOwner'
  BY DEF Inv, OutboxMirrorsBookings, CancelledByOwner, Exists
<1>6. EventsHaveRequests'
  <2>1. \A e \in outbox : e.by \in Requests
    BY DEF Inv, TypeOK, Event
  <2>. QED BY <2>1 DEF Inv, EventsHaveRequests
<1>. QED BY <1>1, <1>2, <1>3, <1>4, <1>5, <1>6 DEF Inv

\* An INSERT that neither waits nor conflicts leaves r alone on its slot.
LEMMA InsertPreserves ==
    ASSUME Inv, TypeOK', NEW r \in Requests, Insert(r), ~SlotTaken(r)
    PROVE  Inv'
<1>1. TypeOK /\ ControlOf(r) /\ RowOf(r)
  BY DEF Inv, Control, Rows
<1>2. /\ pc[r] = "insert" /\ UNCHANGED <<req, bookings, outbox>>
      /\ tx' = [tx EXCEPT ![r] = {"insert"}] /\ pc' = [pc EXCEPT ![r] = "outbox"]
      /\ \A q \in Requests : ~InsertWaitsFor(r, q)
  BY DEF Insert, Goto, tables
<1>3. /\ tx'[r] = {"insert"} /\ pc'[r] = "outbox"
      /\ \A q \in Requests \ {r} : pc'[q] = pc[q] /\ tx'[q] = tx[q]
  BY <1>1, <1>2 DEF TypeOK
<1>4. /\ bookings[r] = None /\ req[r] \in Creation
      /\ req[r].op = "create" /\ req[r].slot \in Slots
  BY <1>1, <1>2, RequestFacts DEF ControlOf, RowOf
<1>5. /\ \A q \in Requests : Inserting(q)' <=> q = r \/ Inserting(q)
      /\ \A q \in Requests : Cancelling(q)' <=> q # r /\ Cancelling(q)
  BY <1>3 DEF Inserting, Cancelling
<1>6. \A b \in Requests : IsActive(b) => bookings[b].slot # req[r].slot
  BY DEF SlotTaken
<1>7. \A q \in Requests : q # r /\ Inserting(q) => req[q].slot # req[r].slot
  BY <1>2 DEF InsertWaitsFor
<1>8. PendingInserts'
  BY <1>2, <1>5, <1>6, <1>7 DEF Inv, PendingInserts, IsActive, Exists
<1>9. PendingCancels'
  BY <1>2, <1>5 DEF Inv, PendingCancels, Cancellable, IsActive, Exists, Target
<1>10. TransactionOf(r)'
  BY <1>2, <1>3, <1>4 DEF TransactionOf, Written
<1>. QED BY <1>2, <1>3, <1>4, <1>8, <1>9, <1>10, PendingStep

\* An UPDATE that matches an unlocked row leaves r alone on that row.
LEMMA UpdatePreserves ==
    ASSUME Inv, TypeOK', NEW r \in Requests, Update(r), Cancellable(r)
    PROVE  Inv'
<1>1. TypeOK /\ ControlOf(r) /\ RowOf(r)
  BY DEF Inv, Control, Rows
<1>2. /\ pc[r] = "update" /\ UNCHANGED <<req, bookings, outbox>>
      /\ tx' = [tx EXCEPT ![r] = {"cancel"}] /\ pc' = [pc EXCEPT ![r] = "outbox"]
      /\ ~RowLocked(r, Target(r))
  BY DEF Update, Goto, tables
<1>3. /\ tx'[r] = {"cancel"} /\ pc'[r] = "outbox"
      /\ \A q \in Requests \ {r} : pc'[q] = pc[q] /\ tx'[q] = tx[q]
  BY <1>1, <1>2 DEF TypeOK
<1>4. bookings[r] = None /\ req[r] \in Cancellation /\ req[r].op = "cancel"
  BY <1>1, <1>2, RequestFacts DEF ControlOf, RowOf
<1>5. /\ \A q \in Requests : Inserting(q)' <=> q # r /\ Inserting(q)
      /\ \A q \in Requests : Cancelling(q)' <=> q = r \/ Cancelling(q)
  BY <1>3 DEF Inserting, Cancelling
<1>6. \A q \in Requests : q # r /\ Cancelling(q) => Target(q) # Target(r)
  BY <1>2 DEF RowLocked
<1>7. PendingInserts'
  BY <1>2, <1>5 DEF Inv, PendingInserts, IsActive, Exists
<1>8. PendingCancels'
  <2>1. \A q \in Requests : Cancellable(q)' = Cancellable(q) /\ Target(q)' = Target(q)
    BY <1>2 DEF Cancellable, IsActive, Exists, Target
  <2>. QED BY <1>5, <1>6, <2>1 DEF Inv, PendingCancels
<1>9. TransactionOf(r)'
  BY <1>2, <1>3, <1>4 DEF TransactionOf, Written
<1>. QED BY <1>2, <1>3, <1>4, <1>7, <1>8, <1>9, PendingStep

\* Writing the event changes nothing the other transactions see.
LEMMA InsertOutboxPreserves ==
    ASSUME Inv, TypeOK', NEW r \in Requests, InsertOutbox(r)
    PROVE  Inv'
<1>1. TypeOK /\ ControlOf(r) /\ RowOf(r) /\ TransactionOf(r)
  BY DEF Inv, Control, Rows, Transactions
<1>2. /\ pc[r] = "outbox" /\ UNCHANGED <<req, bookings, outbox>>
      /\ tx' = [tx EXCEPT ![r] = @ \cup {"event"}] /\ pc' = [pc EXCEPT ![r] = "commit"]
  BY DEF InsertOutbox, Goto, tables
<1>3. /\ tx'[r] = tx[r] \cup {"event"} /\ pc'[r] = "commit"
      /\ \A q \in Requests \ {r} : pc'[q] = pc[q] /\ tx'[q] = tx[q]
  BY <1>1, <1>2 DEF TypeOK
<1>4. /\ bookings[r] = None /\ req[r] \in Creation \cup Cancellation
      /\ req[r].op = "create" => req[r].slot \in Slots
  BY <1>1, <1>2 DEF ControlOf, RowOf
<1>5. \A q \in Requests : Inserting(q)' = Inserting(q) /\ Cancelling(q)' = Cancelling(q)
  BY <1>3 DEF Inserting, Cancelling
<1>6. PendingInserts'
  BY <1>2, <1>5 DEF Inv, PendingInserts, IsActive, Exists
<1>7. PendingCancels'
  <2>1. \A q \in Requests : Cancellable(q)' = Cancellable(q) /\ Target(q)' = Target(q)
    BY <1>2 DEF Cancellable, IsActive, Exists, Target
  <2>. QED BY <1>5, <2>1 DEF Inv, PendingCancels
<1>8. TransactionOf(r)'
  BY <1>1, <1>2, <1>3 DEF TransactionOf, Written
<1>. QED BY <1>2, <1>3, <1>4, <1>6, <1>7, <1>8, PendingStep

\* Whether anybody waits for a COMMIT is nothing to the other transactions.
LEMMA UnacknowledgedPreserves ==
    ASSUME Inv, TypeOK', NEW r \in Requests, CommitUnacknowledged(r)
    PROVE  Inv'
<1>1. TypeOK /\ ControlOf(r) /\ RowOf(r) /\ TransactionOf(r)
  BY DEF Inv, Control, Rows, Transactions
<1>2. /\ pc[r] = "commit" /\ UNCHANGED <<req, tx, bookings, outbox>>
      /\ pc' = [pc EXCEPT ![r] = "sent"]
  BY DEF CommitUnacknowledged, Goto, tables
<1>3. pc'[r] = "sent" /\ \A q \in Requests \ {r} : pc'[q] = pc[q]
  BY <1>1, <1>2 DEF TypeOK
<1>4. /\ bookings[r] = None /\ req[r] \in Creation \cup Cancellation
      /\ req[r].op = "create" => req[r].slot \in Slots
  BY <1>1, <1>2 DEF ControlOf, RowOf
<1>5. PendingInserts' /\ PendingCancels'
  BY <1>2 DEF Inv, PendingInserts, PendingCancels, Inserting, Cancelling, Cancellable,
     Target, IsActive, Exists
<1>6. TransactionOf(r)'
  BY <1>1, <1>2, <1>3 DEF TransactionOf, Written
<1>. QED BY <1>2, <1>3, <1>4, <1>5, <1>6, PendingStep

(***************************************************************************)
(* Commits.                                                                *)
(***************************************************************************)

\* What a commit of r does to the variables of the invariant.
LEMMA CommitEffect ==
    ASSUME Inv, NEW r \in Requests, Commit(r) \/ LateCommit(r)
    PROVE  /\ pc[r] \in {"commit", "sent"} /\ UNCHANGED req
           /\ tx'[r] = {}
           /\ pc'[r] \in {"done", "link", "lost"} /\ (pc'[r] = "link" => Inserting(r))
           /\ \A q \in Requests \ {r} : pc'[q] = pc[q] /\ tx'[q] = tx[q]
           /\ bookings' = RowsAfter(r)
           /\ outbox' = outbox \cup
                 {[type |-> EventType(r), booking |-> Target(r), by |-> r]}
<1>. USE DEF Goto, Answer, Refuse, Close, Apply
<1>1. TypeOK /\ TransactionOf(r)
  BY DEF Inv, Transactions
<1>2. /\ pc[r] \in {"commit", "sent"} /\ UNCHANGED req
      /\ tx' = [tx EXCEPT ![r] = {}]
      /\ bookings' = RowsAfter(r) /\ outbox' = outbox \cup NewEvents(r)
  BY DEF Commit, LateCommit
<1>3. \/ pc' = [pc EXCEPT ![r] = "done"]
      \/ pc' = [pc EXCEPT ![r] = "lost"]
      \/ pc' = [pc EXCEPT ![r] = "link"] /\ req[r].op = "create"
  BY DEF Commit, LateCommit
<1>4. "event" \in tx[r] /\ (req[r].op = "create" => Inserting(r))
  BY <1>1, <1>2 DEF TransactionOf, Inserting, Written
<1>. QED BY <1>1, <1>2, <1>3, <1>4 DEF TypeOK, NewEvents

\* Committing an insertion: the row is new, alone on its slot, and announced.
LEMMA CommitInsertion ==
    ASSUME Inv, TypeOK', NEW r \in Requests,
           Commit(r) \/ LateCommit(r), Inserting(r)
    PROVE  Inv'
<1>. DEFINE event == [type |-> "created", booking |-> r, by |-> r]
<1>1. TypeOK /\ PendingInserts /\ PendingCancels
  BY DEF Inv
<1>2. /\ pc[r] \in {"commit", "sent"} /\ UNCHANGED req /\ tx'[r] = {}
      /\ pc'[r] \in {"done", "link", "lost"}
      /\ \A q \in Requests \ {r} : pc'[q] = pc[q] /\ tx'[q] = tx[q]
      /\ bookings' = [bookings EXCEPT ![r] = InsertedRow(r)]
      /\ outbox' = outbox \cup {event}
  BY CommitEffect, OpenTransaction DEF RowsAfter, EventType
<1>3. /\ req[r] \in Creation /\ req[r].op = "create" /\ bookings[r] = None
      /\ req[r].slot \in Slots /\ req[r].user \in Users
  BY OpenTransaction
<1>4. /\ \A b \in Requests \ {r} : bookings'[b] = bookings[b]
      /\ bookings'[r] = InsertedRow(r) /\ bookings'[r] # None
  BY <1>1, <1>2, <1>3, RowFacts DEF TypeOK, InsertedRow
<1>5. /\ bookings'[r].slot = req[r].slot /\ bookings'[r].user = req[r].user
      /\ bookings'[r].status = "active"
  BY <1>4 DEF InsertedRow
<1>6. /\ \A b \in Requests : Exists(b)' <=> b = r \/ Exists(b)
      /\ \A b \in Requests : IsActive(b)' <=> b = r \/ IsActive(b)
      /\ ~Exists(r) /\ ~IsActive(r)
  BY <1>3, <1>4, <1>5 DEF Exists, IsActive
<1>7. \A q \in Requests : /\ Inserting(q)' <=> q # r /\ Inserting(q)
                          /\ Cancelling(q)' <=> q # r /\ Cancelling(q)
  BY <1>2 DEF Inserting, Cancelling
<1>8. Control'
  BY <1>2, <1>3, <1>4, <1>5 DEF Inv, Control, ControlOf
<1>9. Transactions'
  BY <1>2 DEF Inv, Transactions, TransactionOf, Written
<1>10. Rows'
  BY <1>2, <1>3, <1>4, <1>5 DEF Inv, Rows, RowOf
<1>11. PendingInserts'
  BY <1>1, <1>2, <1>4, <1>5, <1>6, <1>7 DEF PendingInserts
<1>12. PendingCancels'
  <2>1. ASSUME NEW q \in Requests, q # r, Cancelling(q)
        PROVE  Cancellable(q)' /\ Target(q)' = Target(q)
    <3>1. Cancellable(q) /\ Target(q) \in Requests /\ Target(q)' = Target(q)
      BY <1>1, <1>2, <2>1, OpenTransaction DEF PendingCancels, Target
    <3>2. Target(q) # r
      BY <1>6, <3>1 DEF Cancellable
    <3>. QED BY <1>2, <1>4, <1>6, <3>1, <3>2 DEF Cancellable
  <2>. QED BY <1>1, <1>7, <2>1 DEF PendingCancels
<1>13. NoDoubleBooking'
  <2>1. \A b \in Requests \ {r} : IsActive(b) => bookings[b].slot # req[r].slot
    BY <1>1 DEF PendingInserts
  <2>. QED BY <1>4, <1>5, <1>6, <2>1 DEF Inv, NoDoubleBooking
<1>14. OutboxMirrorsBookings'
  <2>1. /\ \A e \in outbox : e.booking # r /\ Exists(e.booking)
        /\ event \in outbox' /\ event.booking = r /\ event.type = "created" /\ event.by = r
    BY <1>2, <1>6 DEF Inv, OutboxMirrorsBookings
  <2>2. \A e \in outbox : e.booking \in Requests \ {r} /\ bookings'[e.booking] = bookings[e.booking]
    BY <1>4, <2>1 DEF Exists
  <2>3. \A e, f \in outbox' : e.booking = f.booking /\ e.type = f.type => e = f
    BY <1>2, <2>1 DEF Inv, OutboxMirrorsBookings
  <2>4. \A e \in outbox' :
           /\ Exists(e.booking)'
           /\ e.type = "created" => e.by = e.booking
           /\ e.type = "cancelled" => bookings'[e.booking].status = "cancelled"
    <3>1. ASSUME NEW e \in outbox
          PROVE  /\ Exists(e.booking)'
                 /\ e.type = "created" => e.by = e.booking
                 /\ e.type = "cancelled" => bookings'[e.booking].status = "cancelled"
      <4>1. e.booking \in Requests /\ Exists(e.booking)
        BY <2>1, <2>2
      <4>. QED BY <1>6, <2>2, <3>1, <4>1 DEF Inv, OutboxMirrorsBookings
    <3>2. Exists(event.booking)' /\ event.by = event.booking /\ event.type # "cancelled"
      BY <1>6
    <3>. QED BY <1>2, <3>1, <3>2
  <2>5. \A b \in Requests :
           /\ Exists(b)' => \E e \in outbox' : e.booking = b /\ e.type = "created"
           /\ Exists(b)' /\ bookings'[b].status = "cancelled" =>
                 \E e \in outbox' : e.booking = b /\ e.type = "cancelled"
    <3>1. ASSUME NEW b \in Requests, b # r, Exists(b)'
          PROVE  /\ \E e \in outbox : e.booking = b /\ e.type = "created"
                 /\ bookings'[b].status = "cancelled" =>
                       \E e \in outbox : e.booking = b /\ e.type = "cancelled"
      BY <1>4, <1>6, <3>1 DEF Inv, OutboxMirrorsBookings
    <3>2. outbox \subseteq outbox' /\ bookings'[r].status # "cancelled"
      BY <1>2, <1>5
    <3>. QED BY <2>1, <3>1, <3>2
  <2>. QED BY <2>3, <2>4, <2>5 DEF OutboxMirrorsBookings
<1>15. CancelledByOwner' /\ EventsHaveRequests'
  <2>1. \A e \in outbox : /\ e.by \in Requests /\ e.booking \in Requests \ {r}
                          /\ e.booking # r
    BY <1>6 DEF Inv, TypeOK, Event, OutboxMirrorsBookings
  <2>2. event.by = r /\ event.type = "created"
    OBVIOUS
  <2>. QED BY <1>2, <1>4, <2>1, <2>2 DEF Inv, CancelledByOwner, EventsHaveRequests
<1>. QED BY <1>8, <1>9, <1>10, <1>11, <1>12, <1>13, <1>14, <1>15 DEF Inv

\* Committing a cancellation: the row was active, nobody else was cancelling
\* it, and its cancelled event is the first.
LEMMA CommitCancellation ==
    ASSUME Inv, TypeOK', NEW r \in Requests,
           Commit(r) \/ LateCommit(r), Cancelling(r)
    PROVE  Inv'
<1>0. PICK t \in Requests : t = Target(r)
  BY OpenTransaction
<1>. DEFINE event == [type |-> "cancelled", booking |-> t, by |-> r]
<1>1. TypeOK /\ PendingInserts /\ PendingCancels /\ Rows
  BY DEF Inv
<1>2. /\ t \in Requests /\ bookings[t] \in Row
      /\ req[r] \in Cancellation /\ req[r].op = "cancel" /\ ~Inserting(r)
  BY <1>0, OpenTransaction
<1>3. /\ pc[r] \in {"commit", "sent"} /\ UNCHANGED req /\ tx'[r] = {}
      /\ pc'[r] \in {"done", "lost"}
      /\ \A q \in Requests \ {r} : pc'[q] = pc[q] /\ tx'[q] = tx[q]
      /\ bookings' = [bookings EXCEPT ![t].status = "cancelled"]
      /\ outbox' = outbox \cup {event}
  BY <1>0, <1>2, CommitEffect DEF RowsAfter, EventType
<1>4. Exists(t) /\ bookings[t].status = "active" /\ bookings[t].user = req[r].user
  BY <1>0, <1>1 DEF PendingCancels, Cancellable, IsActive
<1>5. /\ \A b \in Requests \ {t} : bookings'[b] = bookings[b]
      /\ bookings'[t] = [bookings[t] EXCEPT !.status = "cancelled"]
  BY <1>1, <1>2, <1>3 DEF TypeOK
<1>6. /\ bookings'[t] # None
      /\ bookings'[t].slot = bookings[t].slot /\ bookings'[t].user = bookings[t].user
      /\ bookings'[t].status = "cancelled"
  <2>1. bookings'[t] \in Row
    BY <1>2, <1>5, RowUpdates
  <2>2. bookings'[t] # None
    BY <2>1, RowFacts
  <2>. QED BY <1>2, <1>5, <2>2 DEF Row
<1>7. /\ \A b \in Requests : Exists(b)' <=> Exists(b)
      /\ \A b \in Requests : IsActive(b)' <=> b # t /\ IsActive(b)
  BY <1>4, <1>5, <1>6 DEF Exists, IsActive
<1>8. \A q \in Requests : /\ Inserting(q)' <=> q # r /\ Inserting(q)
                          /\ Cancelling(q)' <=> q # r /\ Cancelling(q)
  BY <1>3 DEF Inserting, Cancelling
<1>9. Control'
  BY <1>3, <1>7 DEF Inv, Control, ControlOf, Exists
<1>10. Transactions'
  BY <1>3 DEF Inv, Transactions, TransactionOf, Written
<1>11. Rows'
  BY <1>1, <1>3, <1>4, <1>5, <1>6 DEF Rows, RowOf, Exists
<1>12. PendingInserts'
  BY <1>1, <1>3, <1>5, <1>7, <1>8 DEF PendingInserts
<1>13. PendingCancels'
  <2>1. ASSUME NEW q \in Requests, q # r, Cancelling(q)
        PROVE  Cancellable(q)' /\ Target(q)' = Target(q)
    <3>1. /\ Cancellable(q) /\ Target(q) \in Requests /\ Target(q)' = Target(q)
          /\ Target(q) # t
      BY <1>0, <1>1, <1>3, <2>1, OpenTransaction DEF PendingCancels, Target
    <3>. QED BY <1>3, <1>5, <1>7, <3>1 DEF Cancellable
  <2>. QED BY <1>1, <1>8, <2>1 DEF PendingCancels
<1>14. NoDoubleBooking'
  BY <1>5, <1>7 DEF Inv, NoDoubleBooking
<1>15. OutboxMirrorsBookings'
  <2>1. /\ \A e \in outbox : ~(e.booking = t /\ e.type = "cancelled")
        /\ event.booking = t /\ event.type = "cancelled" /\ event.by = r
    BY <1>4 DEF Inv, OutboxMirrorsBookings
  <2>2. \A e, f \in outbox' : e.booking = f.booking /\ e.type = f.type => e = f
    BY <1>3, <2>1 DEF Inv, OutboxMirrorsBookings
  <2>3. \A e \in outbox' :
           /\ Exists(e.booking)'
           /\ e.type = "created" => e.by = e.booking
           /\ e.type = "cancelled" => bookings'[e.booking].status = "cancelled"
    <3>1. ASSUME NEW e \in outbox
          PROVE  /\ Exists(e.booking)'
                 /\ e.type = "created" => e.by = e.booking
                 /\ e.type = "cancelled" => bookings'[e.booking].status = "cancelled"
      <4>1. e.booking \in Requests /\ Exists(e.booking)
        BY DEF Inv, OutboxMirrorsBookings, Exists
      <4>2. /\ e.type = "created" => e.by = e.booking
            /\ e.type = "cancelled" => bookings[e.booking].status = "cancelled"
        BY DEF Inv, OutboxMirrorsBookings
      <4>3. e.type = "cancelled" => bookings'[e.booking].status = "cancelled"
        BY <1>5, <1>6, <4>1, <4>2
      <4>. QED BY <1>7, <4>1, <4>2, <4>3
    <3>2. /\ Exists(event.booking)' /\ event.type # "created"
          /\ bookings'[event.booking].status = "cancelled"
      BY <1>2, <1>4, <1>6, <1>7
    <3>. QED BY <1>3, <3>1, <3>2
  <2>4. \A b \in Requests :
           /\ Exists(b)' => \E e \in outbox' : e.booking = b /\ e.type = "created"
           /\ Exists(b)' /\ bookings'[b].status = "cancelled" =>
                 \E e \in outbox' : e.booking = b /\ e.type = "cancelled"
    <3>1. ASSUME NEW b \in Requests, Exists(b)'
          PROVE  /\ \E e \in outbox : e.booking = b /\ e.type = "created"
                 /\ b # t /\ bookings'[b].status = "cancelled" =>
                       \E e \in outbox : e.booking = b /\ e.type = "cancelled"
      BY <1>5, <1>7, <3>1 DEF Inv, OutboxMirrorsBookings
    <3>2. outbox \subseteq outbox' /\ event \in outbox'
      BY <1>3
    <3>. QED BY <2>1, <3>1, <3>2
  <2>. QED BY <2>2, <2>3, <2>4 DEF OutboxMirrorsBookings
<1>16. CancelledByOwner' /\ EventsHaveRequests'
  <2>1. \A e \in outbox : e.by \in Requests /\ e.booking \in Requests
    BY <1>1 DEF TypeOK, Event
  <2>2. event.by = r /\ event.booking = t
    OBVIOUS
  <2>3. \A b \in Requests : Exists(b) => bookings'[b].user = bookings[b].user
    BY <1>5, <1>6
  <2>4. CancelledByOwner'
    BY <1>3, <1>4, <1>6, <2>1, <2>2, <2>3 DEF Inv, CancelledByOwner, OutboxMirrorsBookings
  <2>5. EventsHaveRequests'
    BY <1>3, <2>1, <2>2 DEF Inv, EventsHaveRequests
  <2>. QED BY <2>4, <2>5
<1>. QED BY <1>9, <1>10, <1>11, <1>12, <1>13, <1>14, <1>15, <1>16 DEF Inv

\* The late update of the link touches neither slot, owner nor status.
LEMMA LinkPreserves ==
    ASSUME Inv, TypeOK', NEW r \in Requests,
           UpdateLink(r) \/ LinkFails(r), pc[r] = "updateLink",
           bookings' = RowsWithLink(r)
    PROVE  Inv'
<1>1. TypeOK /\ TransactionOf(r) /\ ControlOf(r)
  BY DEF Inv, Transactions, Control
<1>2. /\ UNCHANGED <<req, outbox>> /\ pc' = [pc EXCEPT ![r] = "done"]
      /\ tx' = [tx EXCEPT ![r] = {}]
  BY DEF UpdateLink, LinkFails, Answer, Goto, Close
<1>3. /\ pc'[r] = "done" /\ tx' = tx
      /\ \A q \in Requests \ {r} : pc'[q] = pc[q]
  BY <1>1, <1>2 DEF TypeOK, TransactionOf
<1>4. bookings[r] \in Row
  BY <1>1 DEF TypeOK, ControlOf
<1>5. /\ \A b \in Requests \ {r} : bookings'[b] = bookings[b]
      /\ bookings'[r] = [bookings[r] EXCEPT !.link = TRUE]
  BY <1>1 DEF TypeOK, RowsWithLink
<1>6. bookings'[r] \in Row
  BY <1>4, <1>5, RowUpdates
<1>7. \A b \in Requests : bookings[b] # None =>
         /\ bookings'[b].slot = bookings[b].slot
         /\ bookings'[b].user = bookings[b].user
         /\ bookings'[b].status = bookings[b].status
  BY <1>4, <1>5 DEF Row
<1>8. /\ \A b \in Requests : bookings'[b] # None <=> bookings[b] # None
      /\ \A b \in Requests : Exists(b)' <=> Exists(b)
      /\ \A b \in Requests : IsActive(b)' <=> IsActive(b)
  BY <1>4, <1>5, <1>6, <1>7, RowFacts DEF Exists, IsActive
<1>9. Control' /\ Transactions'
  BY <1>2, <1>3, <1>8 DEF Inv, Control, ControlOf, Transactions, TransactionOf, Written
<1>10. Rows'
  BY <1>2, <1>3, <1>7, <1>8 DEF Inv, Rows, RowOf
<1>11. PendingInserts'
  BY <1>2, <1>3, <1>7, <1>8 DEF Inv, PendingInserts, Inserting, IsActive, Exists
<1>12. PendingCancels'
  <2>1. \A q \in Requests : Cancelling(q)' = Cancelling(q) /\ Target(q)' = Target(q)
    BY <1>2, <1>3 DEF Cancelling, Target
  <2>2. \A q \in Requests : Cancelling(q) /\ Cancellable(q) => Cancellable(q)'
    <3>1. SUFFICES ASSUME NEW q \in Requests, Cancelling(q), Cancellable(q)
                   PROVE  Cancellable(q)'
      OBVIOUS
    <3>2. Target(q) \in Requests /\ Target(q)' = Target(q) /\ bookings[Target(q)] # None
      BY <2>1, <3>1, OpenTransaction DEF Cancellable, IsActive, Exists
    <3>3. IsActive(Target(q))'
      BY <1>7, <3>1, <3>2, <1>8 DEF Cancellable, IsActive, Exists
    <3>. QED BY <1>2, <1>7, <3>1, <3>2, <3>3 DEF Cancellable
  <2>. QED BY <2>1, <2>2 DEF Inv, PendingCancels
<1>13. NoDoubleBooking'
  BY <1>7, <1>8 DEF Inv, NoDoubleBooking, IsActive, Exists
<1>14. OutboxMirrorsBookings'
  <2>1. \A e \in outbox : e.booking \in Requests /\ bookings[e.booking] # None
    BY DEF Inv, OutboxMirrorsBookings, Exists
  <2>. QED BY <1>2, <1>7, <1>8, <2>1 DEF Inv, OutboxMirrorsBookings, Exists
<1>15. CancelledByOwner' /\ EventsHaveRequests'
  <2>1. \A e \in outbox : /\ e.by \in Requests
                          /\ e.booking \in Requests /\ bookings[e.booking] # None
    BY <1>1 DEF Inv, TypeOK, Event, OutboxMirrorsBookings, Exists
  <2>. QED BY <1>2, <1>3, <1>7, <2>1 DEF Inv, CancelledByOwner, EventsHaveRequests
<1>. QED BY <1>9, <1>10, <1>11, <1>12, <1>13, <1>14, <1>15 DEF Inv

\* A crash ends every transaction whose COMMIT has not been sent, and leaves
\* the tables alone.
LEMMA CrashPreserves ==
    ASSUME Inv, TypeOK', Crash
    PROVE  Inv'
<1>1. /\ UNCHANGED <<req, bookings, outbox>>
      /\ \A r \in Requests :
            /\ pc'[r] = IF pc[r] = "commit" THEN "sent"
                        ELSE IF InFlight(r) THEN "lost" ELSE pc[r]
            /\ tx'[r] = IF pc[r] \in {"commit", "sent"} THEN tx[r] ELSE {}
  BY DEF Crash, tables
<1>2. \A r \in Requests : \/ pc'[r] \in {"new", "done", "lost"} /\ tx'[r] = {}
                          \/ /\ pc[r] \in {"commit", "sent"} /\ pc'[r] = "sent"
                             /\ tx'[r] = tx[r]
  BY <1>1 DEF InFlight
<1>3. \A r \in Requests : /\ Inserting(r)' => Inserting(r)
                          /\ Cancelling(r)' => Cancelling(r)
  BY <1>2 DEF Inserting, Cancelling
<1>4. Control'
  BY <1>1, <1>2 DEF Inv, Control, ControlOf
<1>5. Transactions'
  BY <1>1, <1>2 DEF Inv, Transactions, TransactionOf, Written
<1>6. Rows'
  BY <1>1 DEF Inv, Rows, RowOf, InFlight
<1>7. PendingInserts' /\ PendingCancels'
  BY <1>1, <1>3 DEF Inv, PendingInserts, PendingCancels, Cancellable, Target, IsActive, Exists
<1>8. NoDoubleBooking' /\ OutboxMirrorsBookings' /\ CancelledByOwner'
  BY <1>1 DEF Inv, NoDoubleBooking, OutboxMirrorsBookings, CancelledByOwner, IsActive, Exists
<1>9. EventsHaveRequests'
  <2>1. \A e \in outbox : e.by \in Requests
    BY DEF Inv, TypeOK, Event
  <2>. QED BY <1>1, <2>1 DEF Inv, EventsHaveRequests
<1>. QED BY <1>4, <1>5, <1>6, <1>7, <1>8, <1>9 DEF Inv

(***************************************************************************)
(* The inductive invariant.                                                *)
(***************************************************************************)

\* Initially nothing has arrived and the tables are empty.
LEMMA InitInv == Init => Inv
<1>. SUFFICES ASSUME Init PROVE Inv
  OBVIOUS
<1>. USE DEF Init
<1>1. TypeOK
  BY DEF TypeOK, Steps, NoReply, Reply, Codes
<1>2. \A r \in Requests : ~Inserting(r) /\ ~Cancelling(r) /\ ~Exists(r) /\ ~IsActive(r)
  BY DEF Inserting, Cancelling, Exists, IsActive
<1>3. Control /\ Transactions /\ Rows
  BY DEF Control, ControlOf, Transactions, TransactionOf, Rows, RowOf
<1>4. PendingInserts /\ PendingCancels /\ NoDoubleBooking
  BY <1>2 DEF PendingInserts, PendingCancels, NoDoubleBooking
<1>5. OutboxMirrorsBookings /\ CancelledByOwner /\ EventsHaveRequests
  BY <1>2 DEF OutboxMirrorsBookings, CancelledByOwner, EventsHaveRequests
<1>. QED BY <1>1, <1>3, <1>4, <1>5 DEF Inv

\* Every step preserves Inv.
LEMMA NextInv == Inv /\ [Next]_vars => Inv'
<1>. SUFFICES ASSUME Inv, [Next]_vars PROVE Inv'
  OBVIOUS
<1>1. TypeOK'
  BY TypePreserved
<1>2. ASSUME NEW r \in Requests,
             \/ Arrive(r) \/ Malformed(r) \/ GetSlot(r) \/ Begin(r)
             \/ Diagnose(r) \/ RequestLink(r) \/ Fail(r) \/ LateAbort(r)
      PROVE  Inv'
  BY <1>1, <1>2, QuietActions
<1>3. ASSUME NEW r \in Requests, Insert(r)
      PROVE  Inv'
  BY <1>1, <1>3, QuietActions, InsertPreserves
<1>4. ASSUME NEW r \in Requests, Update(r)
      PROVE  Inv'
  BY <1>1, <1>4, QuietActions, UpdatePreserves
<1>5. ASSUME NEW r \in Requests, InsertOutbox(r)
      PROVE  Inv'
  BY <1>1, <1>5, InsertOutboxPreserves
<1>6. ASSUME NEW r \in Requests, Commit(r) \/ LateCommit(r)
      PROVE  Inv'
  <2>1. Inserting(r) \/ Cancelling(r)
    BY <1>6, CommitEffect, OpenTransaction
  <2>. QED BY <1>1, <1>6, <2>1, CommitInsertion, CommitCancellation
<1>11. ASSUME NEW r \in Requests, CommitUnacknowledged(r)
       PROVE  Inv'
  BY <1>1, <1>11, UnacknowledgedPreserves
<1>7. ASSUME NEW r \in Requests, UpdateLink(r)
      PROVE  Inv'
  <2>1. pc[r] = "updateLink" /\ bookings' = RowsWithLink(r)
    BY <1>7 DEF UpdateLink
  <2>. QED BY <1>1, <1>7, <2>1, LinkPreserves
<1>8. ASSUME NEW r \in Requests, LinkFails(r)
      PROVE  Inv'
  <2>1. \/ UNCHANGED bookings
        \/ pc[r] = "updateLink" /\ bookings' = RowsWithLink(r)
    BY <1>8 DEF LinkFails
  <2>. QED BY <1>1, <1>8, <2>1, QuietActions, LinkPreserves
<1>9. CASE Crash
  BY <1>1, <1>9, CrashPreserves
<1>10. CASE Tick \/ Finished \/ UNCHANGED vars
  <2>1. UNCHANGED <<pc, req, tx, bookings, outbox>>
    BY <1>10 DEF Tick, Finished, vars, tables
  <2>. QED BY <1>1, <2>1 DEF Inv, Control, ControlOf, Transactions, TransactionOf, Written,
         Rows, RowOf, PendingInserts, PendingCancels, Inserting, Cancelling, Cancellable,
         Target, IsActive, Exists, NoDoubleBooking, OutboxMirrorsBookings,
         CancelledByOwner, EventsHaveRequests
<1>. QED BY <1>2, <1>3, <1>4, <1>5, <1>6, <1>7, <1>8, <1>9, <1>10, <1>11
     DEF Next, Serve, Step, Resolve

\* Inv holds in every reachable state.
THEOREM Invariance == Spec => []Inv
BY InitInv, NextInv, PTL DEF Spec

(***************************************************************************)
(* What follows for the tables.                                            *)
(***************************************************************************)

\* Type correctness.
THEOREM TypeCorrectness == Spec => []TypeOK
BY Invariance, PTL DEF Inv

\* No interleaving of creations, cancellations, failures and crashes leaves
\* a slot with two active bookings.
THEOREM SlotHasOneHolder == Spec => []NoDoubleBooking
BY Invariance, PTL DEF Inv

\* The outbox tells exactly the history of the bookings.
THEOREM OutboxIsExact == Spec => []OutboxMirrorsBookings
BY Invariance, PTL DEF Inv

\* Bookings are cancelled on behalf of their owner only.
THEOREM OwnerCancels == Spec => []CancelledByOwner
BY Invariance, PTL DEF Inv

\* The rows change only by Apply and by the update of the link.
LEMMA RowChanges ==
    ASSUME Inv, [Next]_vars
    PROVE  \/ UNCHANGED <<bookings, outbox>>
           \/ \E r \in Requests : Commit(r) \/ LateCommit(r)
           \/ \E r \in Requests : /\ pc[r] = "updateLink" /\ UNCHANGED outbox
                                  /\ bookings' = RowsWithLink(r)
<1>1. ASSUME NEW r \in Requests,
             \/ Arrive(r) \/ Malformed(r) \/ GetSlot(r) \/ Begin(r) \/ Insert(r)
             \/ Update(r) \/ InsertOutbox(r) \/ CommitUnacknowledged(r) \/ LateAbort(r)
             \/ Diagnose(r) \/ RequestLink(r) \/ Fail(r)
      PROVE  UNCHANGED <<bookings, outbox>>
  BY <1>1 DEF Arrive, Malformed, GetSlot, Begin, Insert, Update, InsertOutbox,
     CommitUnacknowledged, LateAbort, Diagnose, RequestLink, Fail, tables
<1>2. ASSUME NEW r \in Requests, UpdateLink(r) \/ LinkFails(r)
      PROVE  \/ UNCHANGED <<bookings, outbox>>
             \/ /\ pc[r] = "updateLink" /\ UNCHANGED outbox
                /\ bookings' = RowsWithLink(r)
  BY <1>2 DEF UpdateLink, LinkFails
<1>3. Crash \/ Tick \/ Finished \/ UNCHANGED vars => UNCHANGED <<bookings, outbox>>
  BY DEF Crash, Tick, Finished, vars, tables
<1>. QED BY <1>1, <1>2, <1>3 DEF Next, Serve, Step, Resolve

\* What each of those changes does to one row.
LEMMA RowStep ==
    ASSUME Inv, [Next]_vars, NEW b \in Requests, bookings[b] # None
    PROVE  /\ bookings'[b] # None
           /\ bookings'[b].slot = bookings[b].slot
           /\ bookings'[b].user = bookings[b].user
           /\ bookings[b].status = "cancelled" => bookings'[b].status = "cancelled"
           /\ bookings[b].link => bookings'[b].link
<1>1. TypeOK /\ bookings[b] \in Row
  BY DEF Inv, TypeOK
<1>2. CASE UNCHANGED <<bookings, outbox>>
  BY <1>2
<1>3. ASSUME NEW r \in Requests, Commit(r) \/ LateCommit(r)
      PROVE  \/ bookings'[b] = bookings[b]
             \/ bookings'[b] = [bookings[b] EXCEPT !.status = "cancelled"]
  <2>1. bookings' = RowsAfter(r) /\ (Inserting(r) \/ Cancelling(r))
    BY <1>3, CommitEffect, OpenTransaction
  <2>2. CASE Inserting(r)
    <3>1. b # r /\ bookings' = [bookings EXCEPT ![r] = InsertedRow(r)]
      BY <2>1, <2>2, OpenTransaction DEF RowsAfter
    <3>. QED BY <1>1, <3>1 DEF TypeOK
  <2>3. CASE Cancelling(r)
    <3>1. bookings' = [bookings EXCEPT ![Target(r)].status = "cancelled"]
      BY <2>1, <2>3, OpenTransaction DEF RowsAfter
    <3>. QED BY <1>1, <3>1 DEF TypeOK
  <2>. QED BY <2>1, <2>2, <2>3
<1>4. ASSUME NEW r \in Requests, bookings' = RowsWithLink(r)
      PROVE  \/ bookings'[b] = bookings[b]
             \/ bookings'[b] = [bookings[b] EXCEPT !.link = TRUE]
  BY <1>1, <1>4 DEF RowsWithLink, TypeOK
<1>5. CASE bookings'[b] = [bookings[b] EXCEPT !.status = "cancelled"]
  <2>1. bookings'[b] # None
    BY <1>1, <1>5, RowUpdates, RowFacts
  <2>. QED BY <1>1, <1>5, <2>1 DEF Row
<1>6. CASE bookings'[b] = [bookings[b] EXCEPT !.link = TRUE]
  <2>1. bookings'[b] # None
    BY <1>1, <1>6, RowUpdates, RowFacts
  <2>. QED BY <1>1, <1>6, <2>1 DEF Row
<1>7. CASE bookings'[b] = bookings[b]
  BY <1>7
<1>. QED BY <1>2, <1>3, <1>4, <1>5, <1>6, <1>7, RowChanges

\* Rows never vanish, move, change hands, or come back to life.
THEOREM RowsAdvance == Spec => RowsOnlyAdvance
<1>1. Inv /\ [Next]_vars =>
      [\A b \in Requests : bookings[b] # None =>
          /\ bookings'[b] # None
          /\ bookings'[b].slot = bookings[b].slot
          /\ bookings'[b].user = bookings[b].user
          /\ bookings[b].status = "cancelled" => bookings'[b].status = "cancelled"
          /\ bookings[b].link => bookings'[b].link]_vars
  BY RowStep
<1>. QED BY <1>1, Invariance, PTL DEF Spec, RowsOnlyAdvance

(***************************************************************************)
(* The tables implement the ledger.                                        *)
(***************************************************************************)

\* A new event is one more announcement.
LEMMA NewAnnouncement ==
    ASSUME NEW type, NEW b, NEW r,
           outbox' = outbox \cup {[type |-> type, booking |-> b, by |-> r]}
    PROVE  announcedEvents' = announcedEvents \cup {<<type, b>>}
<1>. DEFINE event == [type |-> type, booking |-> b, by |-> r]
            pair(e) == <<e.type, e.booking>>
<1>1. announcedEvents = {pair(e) : e \in outbox} /\ announcedEvents' = {pair(e) : e \in outbox'}
  BY DEF announcedEvents
<1>2. pair(event) = <<type, b>> /\ outbox' = outbox \cup {event}
  OBVIOUS
<1>. HIDE DEF event, pair
<1>. QED BY <1>1, <1>2

\* Committing an insertion is Book, with its announcement.
LEMMA InsertionBooks ==
    ASSUME Inv, NEW r \in Requests,
           Commit(r) \/ LateCommit(r), Inserting(r)
    PROVE  Ledger!Book(r, req[r].slot, req[r].user)
<1>1. TypeOK /\ PendingInserts
  BY DEF Inv
<1>2. /\ bookings' = [bookings EXCEPT ![r] = InsertedRow(r)]
      /\ outbox' = outbox \cup {[type |-> "created", booking |-> r, by |-> r]}
      /\ bookings[r] = None /\ req[r].slot \in Slots /\ req[r].user \in Users
  BY CommitEffect, OpenTransaction DEF RowsAfter, EventType
<1>3. ledgerOfRows[r] = None
  BY <1>2 DEF ledgerOfRows
<1>4. \A b \in Requests : ~Ledger!Holds(b, req[r].slot)
  BY <1>1 DEF Ledger!Holds, ledgerOfRows, PendingInserts, IsActive, Exists
<1>5. ledgerOfRows' = [ledgerOfRows EXCEPT ![r] =
         [slot |-> req[r].slot, user |-> req[r].user, status |-> "active"]]
  <2>1. /\ \A b \in Requests \ {r} : bookings'[b] = bookings[b]
        /\ bookings'[r] = InsertedRow(r) /\ InsertedRow(r) # None
    BY <1>1, <1>2, RowFacts DEF TypeOK, InsertedRow
  <2>2. \A b \in Requests \ {r} : ledgerOfRows'[b] = ledgerOfRows[b]
    BY <2>1 DEF ledgerOfRows
  <2>3. ledgerOfRows'[r] =
           [slot |-> req[r].slot, user |-> req[r].user, status |-> "active"]
    BY <2>1 DEF ledgerOfRows, InsertedRow
  <2>. HIDE DEF InsertedRow
  <2>. QED BY <2>2, <2>3 DEF ledgerOfRows
<1>6. announcedEvents' = announcedEvents \cup {<<"created", r>>}
  BY <1>2, NewAnnouncement
<1>. QED BY <1>3, <1>4, <1>5, <1>6 DEF Ledger!Book

\* Committing a cancellation is Cancel by the owner, with its announcement.
LEMMA CancellationCancels ==
    ASSUME Inv, NEW r \in Requests,
           Commit(r) \/ LateCommit(r), Cancelling(r)
    PROVE  Target(r) \in Requests /\ req[r].user \in Users
           /\ Ledger!Cancel(Target(r), req[r].user)
<1>0. PICK t \in Requests : t = Target(r)
  BY OpenTransaction
<1>1. TypeOK /\ PendingCancels
  BY DEF Inv
<1>2. /\ bookings' = [bookings EXCEPT ![t].status = "cancelled"]
      /\ outbox' = outbox \cup {[type |-> "cancelled", booking |-> t, by |-> r]}
      /\ bookings[t] \in Row
  BY <1>0, CommitEffect, OpenTransaction DEF RowsAfter, EventType
<1>3. /\ bookings[t] # None /\ bookings[t].user = req[r].user
      /\ bookings[t].status = "active"
  BY <1>0, <1>1 DEF PendingCancels, Cancellable, IsActive, Exists
<1>4. /\ ledgerOfRows[t] # None /\ ledgerOfRows[t].user = req[r].user
      /\ ledgerOfRows[t].status = "active"
  <2>1. ledgerOfRows[t] = [slot |-> bookings[t].slot, user |-> bookings[t].user,
                           status |-> bookings[t].status]
    BY <1>3 DEF ledgerOfRows
  <2>2. [slot |-> bookings[t].slot, user |-> bookings[t].user,
         status |-> bookings[t].status] # None
    BY <1>2, NoneAssumption, RowFacts DEF LedgerRow
  <2>. QED BY <1>3, <2>1, <2>2
<1>5. ledgerOfRows' = [ledgerOfRows EXCEPT ![t].status = "cancelled"]
  <2>1. /\ \A b \in Requests \ {t} : bookings'[b] = bookings[b]
        /\ bookings'[t] = [bookings[t] EXCEPT !.status = "cancelled"]
    BY <1>1, <1>2 DEF TypeOK
  <2>2. bookings'[t] \in Row /\ bookings'[t] # None
    BY <1>2, <2>1, RowUpdates, RowFacts
  <2>3. /\ bookings'[t].slot = bookings[t].slot /\ bookings'[t].user = bookings[t].user
        /\ bookings'[t].status = "cancelled"
    BY <1>2, <2>1 DEF Row
  <2>. QED BY <1>3, <2>1, <2>2, <2>3 DEF ledgerOfRows
<1>6. announcedEvents' = announcedEvents \cup {<<"cancelled", t>>}
  BY <1>2, NewAnnouncement
<1>7. req[r].user \in Users
  BY OpenTransaction, RequestFacts
<1>. QED BY <1>0, <1>4, <1>5, <1>6, <1>7 DEF Ledger!Cancel

\* Every step of the service is a step of the ledger or leaves it alone.
THEOREM Refinement == Spec => ImplementsLedger
<1>1. Init => Ledger!Init
  BY DEF Init, Ledger!Init, ledgerOfRows, announcedEvents
<1>2. Inv /\ [Next]_vars => [Ledger!Next]_(Ledger!ledgerVars)
  <2>. SUFFICES ASSUME Inv, [Next]_vars PROVE [Ledger!Next]_(Ledger!ledgerVars)
    OBVIOUS
  <2>1. CASE UNCHANGED <<bookings, outbox>>
    BY <2>1 DEF Ledger!ledgerVars, ledgerOfRows, announcedEvents
  <2>2. ASSUME NEW r \in Requests, Commit(r) \/ LateCommit(r)
        PROVE  Ledger!Next
    <3>1. CASE Inserting(r)
      <4>1. req[r].slot \in Slots /\ req[r].user \in Users
        BY <3>1, OpenTransaction
      <4>. QED BY <2>2, <3>1, <4>1, InsertionBooks DEF Ledger!Next
    <3>2. CASE Cancelling(r)
      BY <2>2, <3>2, CancellationCancels DEF Ledger!Next
    <3>. QED BY <2>2, <3>1, <3>2, CommitEffect, OpenTransaction
  <2>3. ASSUME NEW r \in Requests, pc[r] = "updateLink", UNCHANGED outbox,
               bookings' = RowsWithLink(r)
        PROVE  UNCHANGED Ledger!ledgerVars
    <3>1. TypeOK /\ bookings[r] \in Row
      BY <2>3 DEF Inv, TypeOK, Control, ControlOf
    <3>2. /\ \A b \in Requests \ {r} : bookings'[b] = bookings[b]
          /\ bookings'[r] = [bookings[r] EXCEPT !.link = TRUE]
      BY <2>3, <3>1 DEF RowsWithLink, TypeOK
    <3>3. /\ bookings'[r].slot = bookings[r].slot /\ bookings'[r].user = bookings[r].user
          /\ bookings'[r].status = bookings[r].status
      BY <3>1, <3>2 DEF Row
    <3>4. bookings'[r] # None /\ bookings[r] # None
      BY <3>1, <3>2, RowUpdates, RowFacts
    <3>5. ledgerOfRows' = ledgerOfRows
      BY <3>2, <3>3, <3>4 DEF ledgerOfRows
    <3>. QED BY <2>3, <3>5 DEF Ledger!ledgerVars, announcedEvents
  <2>. QED BY <2>1, <2>2, <2>3, RowChanges
<1>. QED BY <1>1, <1>2, Invariance, PTL DEF Spec, ImplementsLedger, Ledger!Spec

(***************************************************************************)
(* The ledger itself.                                                      *)
(***************************************************************************)

\* In the ledger a slot has one holder, and what is announced are exactly the
\* bookings made and the cancellations.
LedgerWord ==
    /\ Ledger!LedgerTypeOK
    /\ \A b, c \in Requests, s \in Slots : Ledger!Holds(b, s) /\ Ledger!Holds(c, s) => b = c
    /\ \A b \in Requests :
          /\ <<"created", b>> \in announcedEvents <=> ledgerOfRows[b] # None
          /\ <<"cancelled", b>> \in announcedEvents <=>
                ledgerOfRows[b] # None /\ ledgerOfRows[b].status = "cancelled"

\* Booking a free slot and cancelling an active booking keep it.
LEMMA LedgerWordKept == LedgerWord /\ [Ledger!Next]_(Ledger!ledgerVars) => LedgerWord'
<1>. SUFFICES ASSUME LedgerWord, [Ledger!Next]_(Ledger!ledgerVars) PROVE LedgerWord'
  OBVIOUS
<1>1. CASE UNCHANGED Ledger!ledgerVars
  BY <1>1 DEF LedgerWord, Ledger!ledgerVars, Ledger!LedgerTypeOK, Ledger!Holds
<1>2. ASSUME NEW b \in Requests, NEW u \in Users, NEW s \in Slots, Ledger!Book(b, s, u)
      PROVE  LedgerWord'
  <2> DEFINE e == [slot |-> s, user |-> u, status |-> "active"]
  <2>1. e \in Ledger!Entry /\ e # None
    BY NoneAssumption DEF Ledger!Entry, LedgerRow
  <2>2. /\ ledgerOfRows' \in [Requests -> Ledger!Entry \cup {None}]
        /\ ledgerOfRows'[b] = e
        /\ \A c \in Requests \ {b} : ledgerOfRows'[c] = ledgerOfRows[c]
        /\ announcedEvents' = announcedEvents \cup {<<"created", b>>}
    BY <1>2, <2>1 DEF Ledger!Book, LedgerWord, Ledger!LedgerTypeOK
  <2>3. Ledger!LedgerTypeOK'
    BY <2>2 DEF LedgerWord, Ledger!LedgerTypeOK
  <2>4. \A c, d \in Requests, t \in Slots :
           Ledger!Holds(c, t)' /\ Ledger!Holds(d, t)' => c = d
    BY <1>2, <2>2 DEF Ledger!Book, LedgerWord, Ledger!Holds
  <2>5. ledgerOfRows[b] = None
    BY <1>2 DEF Ledger!Book
  <2> QED BY <2>1, <2>2, <2>3, <2>4, <2>5 DEF LedgerWord
<1>3. ASSUME NEW b \in Requests, NEW u \in Users, Ledger!Cancel(b, u)
      PROVE  LedgerWord'
  <2>1. ledgerOfRows[b] \in Ledger!Entry /\ ledgerOfRows[b].status = "active"
        /\ ledgerOfRows[b] # None
    BY <1>3 DEF Ledger!Cancel, LedgerWord, Ledger!LedgerTypeOK
  <2> DEFINE e == [ledgerOfRows[b] EXCEPT !.status = "cancelled"]
  <2>2. e \in Ledger!Entry /\ e.status = "cancelled"
    BY <2>1 DEF Ledger!Entry
  <2>6. e # None
    BY <2>2, NoneAssumption DEF Ledger!Entry, LedgerRow
  <2>3. /\ ledgerOfRows' \in [Requests -> Ledger!Entry \cup {None}]
        /\ ledgerOfRows'[b] = e
        /\ \A c \in Requests \ {b} : ledgerOfRows'[c] = ledgerOfRows[c]
        /\ announcedEvents' = announcedEvents \cup {<<"cancelled", b>>}
    BY <1>3, <2>2 DEF Ledger!Cancel, LedgerWord, Ledger!LedgerTypeOK
  <2> HIDE DEF e
  <2>4. Ledger!LedgerTypeOK'
    BY <2>3 DEF LedgerWord, Ledger!LedgerTypeOK
  <2>5. \A c, d \in Requests, t \in Slots :
           Ledger!Holds(c, t)' /\ Ledger!Holds(d, t)' => c = d
    BY <2>2, <2>3 DEF LedgerWord, Ledger!Holds
  <2> QED BY <2>1, <2>2, <2>3, <2>4, <2>5, <2>6 DEF LedgerWord
<1>. QED BY <1>1, <1>2, <1>3 DEF Ledger!Next

\* The abstract specification means what it says, by itself: a slot has one
\* holder, and nothing is announced that did not happen, nor left out.
THEOREM LedgerKeepsItsWord == Ledger!Spec => []LedgerWord
<1>1. Ledger!Init => LedgerWord
  BY DEF Ledger!Init, LedgerWord, Ledger!LedgerTypeOK, Ledger!Holds
<1>. QED BY <1>1, LedgerWordKept, PTL DEF Ledger!Spec

(***************************************************************************)
(* Pool connections.                                                       *)
(***************************************************************************)

\* Steps at which a request holds a connection of the pool.
AtConnection == {"insert", "update", "outbox", "commit", "updateLink"}

\* Only requests at such a step hold one.
Connections == \A r \in conns : pc[r] \in AtConnection

\* A step of r that leaves the other requests alone may only matter to r.
LEMMA ConnectionStep ==
    ASSUME TypeOK, Connections, NEW r \in Requests,
           conns' \subseteq conns \cup {r},
           NEW step \in Steps, pc' = [pc EXCEPT ![r] = step],
           r \in conns' => step \in AtConnection
    PROVE  Connections'
BY DEF TypeOK, Connections

\* Every step that ends at another one gives the connection back.
LEMMA ConnectionsPreserved ==
    ASSUME TypeOK, Connections, [Next]_vars
    PROVE  Connections'
<1>. USE DEF Goto, Answer, Refuse, Close
<1>1. Steps = {"new", "getSlot", "begin", "insert", "update", "outbox", "commit",
               "link", "updateLink", "diagnose", "sent", "done", "lost"}
  BY DEF Steps
<1>2. ASSUME NEW r \in Requests, pc[r] \notin AtConnection
      PROVE  r \notin conns
  BY <1>2 DEF Connections
<1>3. ASSUME NEW r \in Requests,
             \/ Arrive(r) \/ Malformed(r) \/ GetSlot(r) \/ Diagnose(r)
      PROVE  Connections'
  <2>1. conns' = conns /\ pc[r] \in {"new", "getSlot", "diagnose"}
    BY <1>3 DEF Arrive, Malformed, GetSlot, Diagnose
  <2>2. r \notin conns'
    BY <1>2, <2>1 DEF AtConnection
  <2>3. \E step \in Steps : pc' = [pc EXCEPT ![r] = step]
    BY <1>1, <1>3 DEF Arrive, Malformed, GetSlot, Diagnose
  <2>. QED BY <2>1, <2>2, <2>3, ConnectionStep
<1>4. ASSUME NEW r \in Requests, Begin(r) \/ RequestLink(r)
      PROVE  Connections'
  <2>1. conns' = conns \cup {r}
    BY <1>4 DEF Begin, RequestLink
  <2>2. \E step \in AtConnection : pc' = [pc EXCEPT ![r] = step]
    BY <1>4 DEF Begin, RequestLink, AtConnection
  <2>3. AtConnection \subseteq Steps
    BY <1>1 DEF AtConnection
  <2>. QED BY <2>1, <2>2, <2>3, ConnectionStep
<1>5. ASSUME NEW r \in Requests,
             \/ Insert(r) \/ Update(r) \/ Commit(r) \/ CommitUnacknowledged(r)
             \/ Resolve(r) \/ UpdateLink(r) \/ LinkFails(r) \/ Fail(r)
      PROVE  Connections'
  <2>1. \/ conns' = conns \ {r} /\ \E step \in Steps : pc' = [pc EXCEPT ![r] = step]
        \/ conns' = conns /\ pc' = [pc EXCEPT ![r] = "outbox"]
    <3>1. CASE Insert(r)
      BY <1>1, <3>1 DEF Insert
    <3>2. CASE Update(r)
      BY <1>1, <3>2 DEF Update
    <3>3. CASE Commit(r) \/ CommitUnacknowledged(r) \/ Resolve(r)
      BY <1>1, <3>3 DEF Commit, CommitUnacknowledged, Resolve, LateCommit, LateAbort, Apply
    <3>4. CASE UpdateLink(r) \/ LinkFails(r) \/ Fail(r)
      BY <1>1, <3>4 DEF UpdateLink, LinkFails, Fail
    <3>. QED BY <1>5, <3>1, <3>2, <3>3, <3>4
  <2>2. "outbox" \in Steps /\ "outbox" \in AtConnection
    BY <1>1 DEF AtConnection
  <2>. QED BY <2>1, <2>2, ConnectionStep
<1>6. ASSUME NEW r \in Requests, InsertOutbox(r)
      PROVE  Connections'
  <2>1. conns' = conns /\ pc' = [pc EXCEPT ![r] = "commit"]
    BY <1>6 DEF InsertOutbox
  <2>2. "commit" \in Steps /\ "commit" \in AtConnection
    BY <1>1 DEF AtConnection
  <2>. QED BY <2>1, <2>2, ConnectionStep
<1>7. CASE Crash
  BY <1>7 DEF Crash, Connections
<1>8. CASE Tick \/ Finished \/ UNCHANGED vars
  <2>1. UNCHANGED <<pc, conns>>
    BY <1>8 DEF Tick, Finished, vars
  <2>. QED BY <2>1 DEF Connections
<1>. QED BY <1>3, <1>4, <1>5, <1>6, <1>7, <1>8 DEF Next, Serve, Step

\* No request waits for a connection, or ends, with one of its own or with
\* uncommitted writes: requests never wait for one another's connections.
THEOREM WaitersHoldNothing == Spec => []NoHoldAndWait
<1>1. Init => Connections
  BY DEF Init, Connections
<1>2. Inv /\ Connections /\ [Next]_vars => Connections'
  BY ConnectionsPreserved DEF Inv
<1>3. Inv /\ Connections => NoHoldAndWait
  BY DEF Inv, Connections, AtConnection, Transactions, TransactionOf, NoHoldAndWait
<1>. QED BY <1>1, <1>2, <1>3, Invariance, PTL DEF Spec

\* A request with uncommitted writes is about to write its event or to commit,
\* or the database has its COMMIT, and it waits for nobody.
LEMMA WritersGoOn ==
    ASSUME Inv, NEW r \in Requests, tx[r] # {}
    PROVE  pc[r] = "sent" \/ (InFlight(r) /\ ~Waits(r))
<1>1. pc[r] \in {"outbox", "commit", "sent"}
  BY DEF Inv, Transactions, TransactionOf
<1>. QED BY <1>1 DEF InFlight, Waits

\* Whoever waits for an index entry or a row waits for a request with
\* uncommitted writes; if there is none, only connections are waited for, and
\* whoever has one goes on.
LEMMA SomeoneGoesOn == Inv /\ Connections => NeverAllWait
<1> SUFFICES ASSUME Inv, Connections, NEW r \in Requests, InFlight(r)
             PROVE  \E q \in Requests : pc[q] = "sent" \/ (InFlight(q) /\ ~Waits(q))
  BY DEF NeverAllWait
<1>1. CASE \E q \in Requests : tx[q] # {}
  BY <1>1, WritersGoOn
<1>2. CASE \A q \in Requests : tx[q] = {}
  <2>1. \A q \in Requests : ~Inserting(q) /\ ~Cancelling(q)
    BY <1>2 DEF Inserting, Cancelling
  <2>2. ASSUME NEW q \in Requests, Waits(q)
        PROVE  pc[q] \in {"getSlot", "begin", "diagnose", "link"} /\ ~FreeConn
    BY <2>1, <2>2 DEF Waits, InsertWaitsFor, RowLocked
  <2>3. CASE conns = {}
    <3>1. FreeConn
      BY <2>3, FS_EmptySet, PoolAssumption DEF FreeConn
    <3>. QED BY <3>1, <2>2
  <2>4. CASE conns # {}
    <3>1. PICK q \in Requests : q \in conns
      BY <2>4 DEF Inv, TypeOK
    <3>2. pc[q] \in AtConnection
      BY <3>1 DEF Connections
    <3>3. InFlight(q) /\ ~Waits(q)
      BY <3>2, <2>2 DEF AtConnection, InFlight
    <3>. QED BY <3>3
  <2>. QED BY <2>3, <2>4
<1>. QED BY <1>1, <1>2

\* Requests never all wait for one another: as long as one is under way, one
\* has its next step open, or the database one to end, whatever the size of
\* the pool.
THEOREM NoDeadlock == Spec => []NeverAllWait
<1>1. Init => Connections
  BY DEF Init, Connections
<1>2. Inv /\ Connections /\ [Next]_vars => Connections'
  BY ConnectionsPreserved DEF Inv
<1>. QED BY <1>1, <1>2, SomeoneGoesOn, Invariance, PTL DEF Spec

(***************************************************************************)
(* Deadlines.                                                              *)
(***************************************************************************)

\* A call with a context ends by the deadline of its request; a creation gets
\* past the check of the start only if it arrived before it.
DeadlineOf(r) ==
    /\ pc[r] \in BoundByContext =>
          arrived[r] <= now /\ now <= arrived[r] + RequestTimeout
    /\ pc[r] \in {"begin", "insert", "outbox", "commit"} /\ req[r].op = "create" =>
          arrived[r] <= StartAt[req[r].slot]

Deadlines == \A r \in Requests : DeadlineOf(r)

\* A step of r after its arrival keeps the deadlines, unless it is the one
\* that checks the start.
LEMMA DeadlineStep ==
    ASSUME TypeOK, Deadlines, NEW r \in Requests, NEW step \in Steps,
           UNCHANGED <<now, req, arrived>>,
           pc' = [pc EXCEPT ![r] = step],
           step \in BoundByContext => pc[r] \in BoundByContext,
           step \in {"begin", "insert", "outbox", "commit"} /\ req[r].op = "create" =>
              pc[r] \in {"begin", "insert", "outbox", "commit"}
    PROVE  Deadlines'
<1>1. ASSUME NEW q \in Requests PROVE DeadlineOf(q)'
  <2>1. CASE q = r
    BY <2>1 DEF TypeOK, Deadlines, DeadlineOf
  <2>2. CASE q # r
    BY <2>2 DEF TypeOK, Deadlines, DeadlineOf
  <2>. QED BY <2>1, <2>2
<1>. QED BY <1>1 DEF Deadlines

\* The deadlines hold after every step: time stops at the first of them.
LEMMA DeadlinesPreserved ==
    ASSUME Inv, Deadlines, [Next]_vars
    PROVE  Deadlines'
<1>. USE DEF Goto, Answer, Refuse
<1>0. TypeOK /\ Control
  BY DEF Inv
<1>1. Steps = {"new", "getSlot", "begin", "insert", "update", "outbox", "commit",
               "link", "updateLink", "diagnose", "sent", "done", "lost"}
  BY DEF Steps
<1>2. ASSUME NEW r \in Requests, Arrive(r)
      PROVE  Deadlines'
  <2>1. PICK q \in Creation \cup Cancellation :
           /\ req' = [req EXCEPT ![r] = q]
           /\ pc' = [pc EXCEPT ![r] = IF q.op = "create" THEN "getSlot" ELSE "begin"]
    BY <1>2 DEF Arrive
  <2>2. arrived' = [arrived EXCEPT ![r] = now] /\ now' = now
    BY <1>2 DEF Arrive
  <2>3. now \in Nat /\ RequestTimeout \in Nat
    BY <1>0, ClockAssumption DEF TypeOK
  <2>4. DeadlineOf(r)'
    <3>1. /\ req'[r] = q /\ arrived'[r] = now
          /\ pc'[r] = IF q.op = "create" THEN "getSlot" ELSE "begin"
      BY <1>0, <2>1, <2>2 DEF TypeOK
    <3>. QED BY <2>2, <2>3, <3>1 DEF DeadlineOf
  <2>5. ASSUME NEW p \in Requests \ {r} PROVE DeadlineOf(p)'
    <3>1. req'[p] = req[p] /\ arrived'[p] = arrived[p] /\ pc'[p] = pc[p]
      BY <1>0, <2>1, <2>2 DEF TypeOK
    <3>. QED BY <2>2, <3>1 DEF Deadlines, DeadlineOf
  <2>. QED BY <2>4, <2>5 DEF Deadlines
<1>3. ASSUME NEW r \in Requests, GetSlot(r)
      PROVE  Deadlines'
  <2>1. /\ UNCHANGED <<now, req, arrived>> /\ pc[r] = "getSlot"
        /\ \/ pc' = [pc EXCEPT ![r] = "done"]
           \/ req[r].slot # None /\ ~InPast(r) /\ pc' = [pc EXCEPT ![r] = "begin"]
    BY <1>3 DEF GetSlot
  <2>2. CASE pc' = [pc EXCEPT ![r] = "done"]
    <3>1. "done" \in Steps /\ "done" \notin BoundByContext
      BY <1>1 DEF BoundByContext
    <3>. QED BY <1>0, <2>1, <2>2, <3>1, DeadlineStep
  <2>3. CASE req[r].slot # None /\ ~InPast(r) /\ pc' = [pc EXCEPT ![r] = "begin"]
    <3>1. req[r].slot \in Slots
      BY <1>0, <2>1, <2>3, RequestFacts DEF Control, ControlOf
    <3>2. arrived[r] <= now /\ now <= arrived[r] + RequestTimeout
      BY <2>1 DEF Deadlines, DeadlineOf, BoundByContext
    <3>3. arrived[r] \in Nat /\ now \in Nat /\ StartAt[req[r].slot] \in Nat
      BY <1>0, <3>1, ClockAssumption DEF TypeOK
    <3>4. arrived[r] <= StartAt[req[r].slot]
      BY <2>3, <3>2, <3>3 DEF InPast
    <3>5. DeadlineOf(r)'
      BY <2>1, <3>2, <3>4 DEF DeadlineOf
    <3>6. \A q \in Requests \ {r} : pc'[q] = pc[q]
      BY <1>0, <2>3 DEF TypeOK
    <3>7. ASSUME NEW q \in Requests \ {r} PROVE DeadlineOf(q)'
      BY <2>1, <3>6 DEF Deadlines, DeadlineOf
    <3>. QED BY <3>5, <3>7 DEF Deadlines
  <2>. QED BY <2>1, <2>2, <2>3
<1>4. ASSUME NEW r \in Requests,
             \/ Malformed(r) \/ Begin(r) \/ Insert(r) \/ Update(r) \/ InsertOutbox(r)
             \/ Commit(r) \/ CommitUnacknowledged(r) \/ Resolve(r) \/ Diagnose(r)
             \/ RequestLink(r) \/ UpdateLink(r) \/ LinkFails(r) \/ Fail(r)
      PROVE  Deadlines'
  <2>1. UNCHANGED <<now, req, arrived>>
    BY <1>4 DEF Malformed, Begin, Insert, Update, InsertOutbox, Commit,
       CommitUnacknowledged, Resolve, LateCommit, LateAbort, Diagnose, RequestLink,
       UpdateLink, LinkFails, Fail
  <2>2. \/ \E step \in {"done", "link", "updateLink", "sent", "lost"} : pc' = [pc EXCEPT ![r] = step]
        \/ pc[r] = "begin" /\ pc' = [pc EXCEPT ![r] = "insert"]
        \/ pc[r] = "begin" /\ pc' = [pc EXCEPT ![r] = "update"]
        \/ pc[r] = "insert" /\ pc' = [pc EXCEPT ![r] = "outbox"]
        \/ pc[r] = "update" /\ \E step \in {"outbox", "diagnose"} : pc' = [pc EXCEPT ![r] = step]
        \/ pc[r] = "outbox" /\ pc' = [pc EXCEPT ![r] = "commit"]
    <3>1. CASE Malformed(r) \/ Begin(r) \/ Insert(r) \/ Update(r)
      BY <3>1 DEF Malformed, Begin, Insert, Update
    <3>2. CASE InsertOutbox(r) \/ Commit(r) \/ CommitUnacknowledged(r) \/ Resolve(r)
      BY <3>2 DEF InsertOutbox, Commit, CommitUnacknowledged, Resolve, LateCommit, LateAbort
    <3>3. CASE Diagnose(r) \/ RequestLink(r) \/ UpdateLink(r) \/ LinkFails(r) \/ Fail(r)
      BY <3>3 DEF Diagnose, RequestLink, UpdateLink, LinkFails, Fail
    <3>. QED BY <1>4, <3>1, <3>2, <3>3
  <2>3. pc[r] = "update" => req[r].op # "create"
    BY <1>0, RequestFacts DEF Control, ControlOf
  <2>. QED BY <1>0, <1>1, <2>1, <2>2, <2>3, DeadlineStep DEF BoundByContext
<1>5. CASE Crash
  BY <1>0, <1>5 DEF Crash, Deadlines, DeadlineOf, BoundByContext, InFlight
<1>6. CASE Tick
  <2>1. /\ now' = now + 1 /\ UNCHANGED <<pc, req, arrived>>
        /\ \A r \in Requests : pc[r] \in BoundByContext => now < arrived[r] + RequestTimeout
    <3>1. \A r \in Requests : arrived[r] \in Nat /\ RequestTimeout \in Nat /\ now \in Nat
      BY <1>0, ClockAssumption DEF TypeOK
    <3>. QED BY <1>6, <3>1 DEF Tick, Expired
  <2>2. ASSUME NEW r \in Requests PROVE DeadlineOf(r)'
    <3>1. arrived[r] \in Nat /\ RequestTimeout \in Nat /\ now \in Nat
      BY <1>0, ClockAssumption DEF TypeOK
    <3>. QED BY <2>1, <3>1 DEF Deadlines, DeadlineOf
  <2>. QED BY <2>2 DEF Deadlines
<1>7. CASE Finished \/ UNCHANGED vars
  <2>1. UNCHANGED <<now, pc, req, arrived>>
    BY <1>7 DEF Finished, vars
  <2>. QED BY <2>1 DEF Deadlines, DeadlineOf
<1>. QED BY <1>2, <1>3, <1>4, <1>5, <1>6, <1>7 DEF Next, Serve, Step

\* Until a request ends with an answer, its client has been told nothing, or
\* 500.
Unanswered == \A r \in Requests : pc[r] # "done" => reply[r].code \in {0, 500}

\* An answer other than 500 is given by the step that ends the request.
LEMMA UnansweredPreserved ==
    ASSUME TypeOK, Unanswered, [Next]_vars
    PROVE  Unanswered'
<1>. USE DEF Goto, Answer, Refuse
<1>1. ASSUME NEW q \in Requests, NEW step, pc' = [pc EXCEPT ![q] = step],
             \/ reply' = reply /\ pc[q] # "done"
             \/ step = "done" /\ \E a : reply' = [reply EXCEPT ![q] = a]
             \/ \E a : a.code = 500 /\ reply' = [reply EXCEPT ![q] = a]
      PROVE  Unanswered'
  BY <1>1 DEF TypeOK, Unanswered
<1>2. ASSUME NEW q \in Requests,
             \/ Arrive(q) \/ Malformed(q) \/ GetSlot(q) \/ Begin(q) \/ Insert(q)
             \/ Update(q) \/ InsertOutbox(q)
      PROVE  Unanswered'
  <2>1. \E step : /\ pc' = [pc EXCEPT ![q] = step]
                  /\ \/ reply' = reply /\ pc[q] # "done"
                     \/ step = "done" /\ \E a : reply' = [reply EXCEPT ![q] = a]
    BY <1>2 DEF Arrive, Malformed, GetSlot, Begin, Insert, Update, InsertOutbox
  <2>. QED BY <1>1, <2>1
<1>3. ASSUME NEW q \in Requests,
             \/ Commit(q) \/ Resolve(q) \/ Diagnose(q)
             \/ RequestLink(q) \/ UpdateLink(q) \/ LinkFails(q) \/ Fail(q)
      PROVE  Unanswered'
  <2>1. \E step : /\ pc' = [pc EXCEPT ![q] = step]
                  /\ \/ reply' = reply /\ pc[q] # "done"
                     \/ step = "done" /\ \E a : reply' = [reply EXCEPT ![q] = a]
    BY <1>3 DEF Commit, Resolve, LateCommit, LateAbort, Diagnose, RequestLink,
       UpdateLink, LinkFails, Fail
  <2>. QED BY <1>1, <2>1
<1>4. ASSUME NEW q \in Requests, CommitUnacknowledged(q)
      PROVE  Unanswered'
  <2>1. PICK a : a.code = 500 /\ reply' = [reply EXCEPT ![q] = a]
    BY <1>4 DEF CommitUnacknowledged
  <2>2. pc' = [pc EXCEPT ![q] = "sent"]
    BY <1>4 DEF CommitUnacknowledged
  <2>. QED BY <1>1, <2>1, <2>2
<1>5. CASE Crash
  BY <1>5 DEF Crash, InFlight, Unanswered
<1>6. CASE Tick \/ Finished \/ UNCHANGED vars
  BY <1>6 DEF Tick, Finished, vars, Unanswered
<1>. QED BY <1>2, <1>3, <1>4, <1>5, <1>6 DEF Next, Serve, Step

\* A row appears by the commit of the request that books it.
LEMMA NewRow ==
    ASSUME Inv, [Next]_vars, NEW b \in Requests, bookings[b] = None, bookings'[b] # None
    PROVE  /\ Commit(b) \/ LateCommit(b)
           /\ Inserting(b)
           /\ bookings'[b] = InsertedRow(b)
<1>1. TypeOK
  BY DEF Inv
<1>2. ASSUME NEW r \in Requests, pc[r] = "updateLink", bookings' = RowsWithLink(r)
      PROVE  FALSE
  <2>1. bookings[r] # None
    BY <1>2 DEF Inv, Control, ControlOf
  <2>. QED BY <1>1, <1>2, <2>1 DEF RowsWithLink, TypeOK
<1>3. PICK r \in Requests : Commit(r) \/ LateCommit(r)
  BY <1>2, RowChanges
<1>4. bookings' = RowsAfter(r) /\ (Inserting(r) \/ Cancelling(r))
  BY <1>3, CommitEffect, OpenTransaction
<1>5. Inserting(r)
  <2>. SUFFICES ASSUME Cancelling(r), ~Inserting(r) PROVE FALSE
    BY <1>4
  <2>1. bookings' = [bookings EXCEPT ![Target(r)].status = "cancelled"]
    BY <1>4 DEF RowsAfter
  <2>2. bookings[Target(r)] # None
    BY OpenTransaction, RowFacts
  <2>. QED BY <1>1, <2>1, <2>2 DEF TypeOK
<1>6. bookings' = [bookings EXCEPT ![r] = InsertedRow(r)]
  BY <1>4, <1>5 DEF RowsAfter
<1>. QED BY <1>1, <1>3, <1>5, <1>6 DEF TypeOK

\* A commit somebody waits for comes in time: it adds a booking by the time a
\* request may last after the start of its slot.
LEMMA CommitInTime ==
    ASSUME Inv, Deadlines, NEW b \in Requests, Commit(b), Inserting(b)
    PROVE  now <= StartAt[req[b].slot] + RequestTimeout
<1>1. pc[b] = "commit"
  BY DEF Commit
<1>2. req[b].op = "create" /\ req[b].slot \in Slots
  BY OpenTransaction
<1>3. now <= arrived[b] + RequestTimeout /\ arrived[b] <= StartAt[req[b].slot]
  BY <1>1, <1>2 DEF Deadlines, DeadlineOf, BoundByContext
<1>4. arrived[b] \in Nat /\ now \in Nat /\ StartAt[req[b].slot] \in Nat /\ RequestTimeout \in Nat
  BY <1>2, ClockAssumption DEF Inv, TypeOK
<1>. QED BY <1>3, <1>4

\* A booking that appears later than a request may last after the start of its
\* slot is nobody's success: it comes from a COMMIT for which no one waits.
THEOREM LateByTimeout == Spec => LateBookingUnacknowledged
<1>1. Init => Deadlines /\ Unanswered
  BY DEF Init, Deadlines, DeadlineOf, BoundByContext, Unanswered, NoReply
<1>2. Inv /\ Deadlines /\ Unanswered /\ [Next]_vars => Deadlines' /\ Unanswered'
  BY DeadlinesPreserved, UnansweredPreserved DEF Inv
<1>3. Inv /\ Deadlines /\ Unanswered /\ [Next]_vars =>
      [\A b \in Requests :
          /\ bookings[b] = None /\ bookings'[b] # None
          /\ now > StartAt[bookings'[b].slot] + RequestTimeout
          => pc'[b] = "lost" /\ reply'[b].code \in {0, 500}]_vars
  <2>. SUFFICES ASSUME Inv, Deadlines, Unanswered, [Next]_vars, NEW b \in Requests,
                       bookings[b] = None, bookings'[b] # None,
                       now > StartAt[bookings'[b].slot] + RequestTimeout
                PROVE  pc'[b] = "lost" /\ reply'[b].code \in {0, 500}
    OBVIOUS
  <2>1. /\ Inserting(b) /\ bookings'[b] = InsertedRow(b)
        /\ Commit(b) \/ LateCommit(b)
    BY NewRow
  <2>2. bookings'[b].slot = req[b].slot /\ req[b].slot \in Slots
    BY <2>1, OpenTransaction DEF InsertedRow
  <2>3. now \in Nat /\ StartAt[req[b].slot] \in Nat /\ RequestTimeout \in Nat
    BY <2>2, ClockAssumption DEF Inv, TypeOK
  <2>4. ~Commit(b)
    BY <2>1, <2>2, <2>3, CommitInTime
  <2>5. pc[b] = "sent" /\ pc' = [pc EXCEPT ![b] = "lost"] /\ reply' = reply
    BY <2>1, <2>4 DEF LateCommit, Goto
  <2>. QED BY <2>5 DEF Unanswered, Inv, TypeOK
<1>. QED BY <1>1, <1>2, <1>3, Invariance, PTL DEF Spec, LateBookingUnacknowledged

(***************************************************************************)
(* Answers.                                                                *)
(***************************************************************************)

\* The booking a cancellation is about stays in the table.
Known == \A r \in Requests :
    req[r] # None /\ req[r].booking # None => Exists(req[r].booking)

\* A booking of one's own that could not be cancelled is a cancelled one.
Diagnosed == \A r \in Requests :
    pc[r] = "diagnose" /\ Exists(Target(r)) /\ bookings[Target(r)].user = req[r].user =>
        bookings[Target(r)].status = "cancelled"

\* A request has written an event only once it is past its transaction.
Authors == \A e \in outbox : pc[e.by] \in {"link", "updateLink", "done", "lost"}

\* What each answer of r promises.
TruthOf201(r) == reply[r].code = 201 =>
    /\ bookings[r] # None
    /\ bookings[r].slot = req[r].slot
    /\ bookings[r].user = req[r].user
    /\ reply[r].link => bookings[r].link

TruthOf200(r) == reply[r].code = 200 =>
    /\ Exists(req[r].booking)
    /\ reply[r].status = "cancelled"
    /\ bookings[req[r].booking].status = "cancelled"
    /\ bookings[req[r].booking].user = req[r].user
    /\ reply[r].link => bookings[req[r].booking].link

TruthOf409(r) == reply[r].code = 409 =>
    \E b \in Requests \ {r} : Exists(b) /\ bookings[b].slot = req[r].slot

TruthOf404(r) == reply[r].code = 404 /\ Exists(req[r].booking) =>
    bookings[req[r].booking].user # req[r].user

LeftNothing(r) == bookings[r] = None /\ \A e \in outbox : e.by # r

TruthOf(r) ==
    /\ TruthOf201(r) /\ TruthOf200(r) /\ TruthOf409(r) /\ TruthOf404(r)
    /\ reply[r].code \in {400, 404, 409} => LeftNothing(r)

Truthful == \A r \in Requests : pc[r] = "done" /\ req[r] # None => TruthOf(r)

AnswerInv == Known /\ Diagnosed /\ Authors /\ Truthful

\* An event appears by the commit of its author.
LEMMA NewEvent ==
    ASSUME Inv, [Next]_vars, NEW e \in outbox', e \notin outbox
    PROVE  /\ e.by \in Requests
           /\ Commit(e.by) \/ LateCommit(e.by)
<1>1. PICK r \in Requests : Commit(r) \/ LateCommit(r)
  BY RowChanges
<1>2. outbox' = outbox \cup {[type |-> EventType(r), booking |-> Target(r), by |-> r]}
  BY <1>1, CommitEffect
<1>3. e = [type |-> EventType(r), booking |-> Target(r), by |-> r]
  BY <1>2
<1>4. e.by = r
  BY <1>3
<1>. QED BY <1>1, <1>4

\* No step but its own commit books for a request or announces something in
\* its name.
LEMMA NothingLeftBehind ==
    ASSUME Inv, [Next]_vars, NEW r \in Requests, pc[r] \notin {"commit", "sent"},
           LeftNothing(r)
    PROVE  LeftNothing(r)'
<1>1. bookings'[r] = None
  <2>. SUFFICES ASSUME bookings'[r] # None PROVE FALSE
    OBVIOUS
  <2>1. Commit(r) \/ LateCommit(r)
    BY NewRow DEF LeftNothing
  <2>. QED BY <2>1, CommitEffect
<1>2. ASSUME NEW e \in outbox', e.by = r
      PROVE  FALSE
  <2>1. e \notin outbox
    BY <1>2 DEF LeftNothing
  <2>2. Commit(r) \/ LateCommit(r)
    BY <1>2, <2>1, NewEvent
  <2>. QED BY <2>2, CommitEffect
<1>. QED BY <1>1, <1>2 DEF LeftNothing

\* A request that has not got past its transaction has left nothing.
LEMMA NothingYet ==
    ASSUME Inv, Authors, NEW r \in Requests, pc[r] \notin {"link", "updateLink", "done", "lost"}
    PROVE  LeftNothing(r)
BY DEF Inv, Rows, RowOf, Authors, LeftNothing

\* A request that has ended, or waits to diagnose, is touched by others only
\* through the tables.
LEMMA EndedStays ==
    ASSUME Inv, [Next]_vars, NEW r \in Requests, pc[r] = "done"
    PROVE  pc'[r] = "done" /\ req'[r] = req[r] /\ reply'[r] = reply[r]
<1>. USE DEF Goto, Answer, Refuse
<1>1. TypeOK
  BY DEF Inv
<1>2. ASSUME NEW q \in Requests,
             \/ Arrive(q) \/ Malformed(q) \/ GetSlot(q) \/ Begin(q) \/ Insert(q)
             \/ Update(q) \/ InsertOutbox(q)
      PROVE  /\ q # r
             /\ \E step : pc' = [pc EXCEPT ![q] = step]
             /\ req' = req \/ \E a : req' = [req EXCEPT ![q] = a]
             /\ reply' = reply \/ \E a : reply' = [reply EXCEPT ![q] = a]
  BY <1>2 DEF Arrive, Malformed, GetSlot, Begin, Insert, Update, InsertOutbox
<1>3. ASSUME NEW q \in Requests,
             \/ Commit(q) \/ CommitUnacknowledged(q) \/ Resolve(q) \/ Diagnose(q)
             \/ RequestLink(q) \/ UpdateLink(q) \/ LinkFails(q) \/ Fail(q)
      PROVE  /\ q # r
             /\ \E step : pc' = [pc EXCEPT ![q] = step]
             /\ req' = req
             /\ reply' = reply \/ \E a : reply' = [reply EXCEPT ![q] = a]
  BY <1>3 DEF Commit, CommitUnacknowledged, Resolve, LateCommit, LateAbort, Diagnose,
     RequestLink, UpdateLink,
     LinkFails, Fail, BoundByContext
<1>4. ASSUME NEW q \in Requests, q # r,
             \E step : pc' = [pc EXCEPT ![q] = step],
             req' = req \/ \E a : req' = [req EXCEPT ![q] = a],
             reply' = reply \/ \E a : reply' = [reply EXCEPT ![q] = a]
      PROVE  pc'[r] = pc[r] /\ req'[r] = req[r] /\ reply'[r] = reply[r]
  BY <1>1, <1>4 DEF TypeOK
<1>5. CASE Crash
  BY <1>5 DEF Crash, InFlight
<1>6. CASE Tick \/ Finished \/ UNCHANGED vars
  BY <1>6 DEF Tick, Finished, vars
<1>. QED BY <1>2, <1>3, <1>4, <1>5, <1>6 DEF Next, Serve, Step

\* Past its transaction, a request can only end.
LEMMA PastStays ==
    ASSUME Inv, [Next]_vars, NEW r \in Requests,
           pc[r] \in {"link", "updateLink", "done", "lost"}
    PROVE  pc'[r] \in {"link", "updateLink", "done", "lost"}
<1>. USE DEF Goto, Answer, Refuse
<1>1. TypeOK
  BY DEF Inv
<1>2. ASSUME NEW q \in Requests,
             \/ Arrive(q) \/ Malformed(q) \/ GetSlot(q) \/ Begin(q) \/ Insert(q)
             \/ Update(q) \/ InsertOutbox(q)
      PROVE  q # r /\ \E step : pc' = [pc EXCEPT ![q] = step]
  BY <1>2 DEF Arrive, Malformed, GetSlot, Begin, Insert, Update, InsertOutbox
<1>3. ASSUME NEW q \in Requests,
             \/ Commit(q) \/ CommitUnacknowledged(q) \/ Resolve(q) \/ Diagnose(q)
             \/ RequestLink(q) \/ UpdateLink(q) \/ LinkFails(q) \/ Fail(q)
      PROVE  \E step : /\ pc' = [pc EXCEPT ![q] = step]
                       /\ q = r => step \in {"updateLink", "done"}
  BY <1>3 DEF Commit, CommitUnacknowledged, Resolve, LateCommit, LateAbort, Diagnose,
     RequestLink, UpdateLink,
     LinkFails, Fail, BoundByContext
<1>4. ASSUME NEW q \in Requests, NEW step, pc' = [pc EXCEPT ![q] = step],
             q = r => step \in {"updateLink", "done"}
      PROVE  pc'[r] \in {"link", "updateLink", "done", "lost"}
  BY <1>1, <1>4 DEF TypeOK
<1>5. CASE Crash
  BY <1>5 DEF Crash, InFlight
<1>6. CASE Tick \/ Finished \/ UNCHANGED vars
  BY <1>6 DEF Tick, Finished, vars
<1>. QED BY <1>2, <1>3, <1>4, <1>5, <1>6 DEF Next, Serve, Step

\* What was answered stays true.
LEMMA TruthStays ==
    ASSUME Inv, Known, [Next]_vars, NEW r \in Requests,
           pc[r] = "done", req[r] # None, TruthOf(r)
    PROVE  TruthOf(r)'
<1>1. pc'[r] = "done" /\ req'[r] = req[r] /\ reply'[r] = reply[r]
  BY EndedStays
<1>2. ASSUME NEW b \in Requests, Exists(b)
      PROVE  /\ Exists(b)'
             /\ bookings'[b].slot = bookings[b].slot
             /\ bookings'[b].user = bookings[b].user
             /\ bookings[b].status = "cancelled" => bookings'[b].status = "cancelled"
             /\ bookings[b].link => bookings'[b].link
  BY <1>2, RowStep DEF Exists
<1>3. TruthOf201(r)'
  BY <1>1, <1>2 DEF TruthOf, TruthOf201, Exists
<1>4. TruthOf200(r)'
  <2>. SUFFICES ASSUME reply'[r].code = 200
                PROVE  TruthOf200(r)'
    BY DEF TruthOf200
  <2>1. PICK b \in Requests : b = req[r].booking /\ Exists(b)
    BY <1>1 DEF TruthOf, TruthOf200, Exists
  <2>2. /\ reply[r].status = "cancelled"
        /\ bookings[b].status = "cancelled" /\ bookings[b].user = req[r].user
        /\ reply[r].link => bookings[b].link
    BY <1>1, <2>1 DEF TruthOf, TruthOf200
  <2>3. /\ Exists(b)'
        /\ bookings'[b].user = bookings[b].user
        /\ bookings'[b].status = "cancelled"
        /\ bookings[b].link => bookings'[b].link
    BY <1>2, <2>1, <2>2
  <2>4. req'[r].booking = b
    BY <1>1, <2>1
  <2>. QED BY <1>1, <2>2, <2>3, <2>4 DEF TruthOf200, Exists
<1>5. TruthOf409(r)'
  BY <1>1, <1>2 DEF TruthOf, TruthOf409
<1>6. TruthOf404(r)'
  <2>. SUFFICES ASSUME reply[r].code = 404, Exists(req[r].booking)'
                PROVE  bookings'[req[r].booking].user # req[r].user
    BY <1>1 DEF TruthOf404
  <2>1. PICK b \in Requests : b = req[r].booking
    BY <1>1 DEF Exists
  <2>2. Exists(b)
    BY <2>1, NoneAssumption DEF Known
  <2>. QED BY <1>2, <2>1, <2>2 DEF TruthOf, TruthOf404
<1>7. reply'[r].code \in {400, 404, 409} => LeftNothing(r)'
  BY <1>1, NothingLeftBehind DEF TruthOf
<1>. QED BY <1>3, <1>4, <1>5, <1>6, <1>7 DEF TruthOf

\* A refusal that leaves nothing behind says no more than its code.
LEMMA RefusalIsTrue ==
    ASSUME Inv, Authors, [Next]_vars, NEW r \in Requests, NEW code \in {400, 404, 500},
           pc[r] \notin {"commit", "sent", "link", "updateLink", "done", "lost"} \/ code = 500,
           Refuse(r, code),
           code = 404 => TruthOf404(r)'
    PROVE  TruthOf(r)'
<1>1. reply'[r].code = code
  BY DEF Refuse, Answer, Inv, TypeOK
<1>2. code # 500 => LeftNothing(r)'
  BY NothingYet, NothingLeftBehind
<1>. QED BY <1>1, <1>2 DEF TruthOf, TruthOf201, TruthOf200, TruthOf409, TruthOf404

\* The answers of a creation.
LEMMA CreationAnswers ==
    ASSUME Inv, AnswerInv, [Next]_vars, NEW r \in Requests, pc'[r] = "done",
           \/ GetSlot(r) \/ Insert(r) \/ UpdateLink(r) \/ LinkFails(r)
    PROVE  TruthOf(r)'
<1>0. TypeOK /\ ControlOf(r) /\ RowOf(r) /\ Authors
  BY DEF Inv, Control, Rows, AnswerInv
<1>1. Inv'
  BY NextInv
<1>2. CASE GetSlot(r)
  <2>1. pc[r] = "getSlot" /\ UNCHANGED <<req, bookings>>
    BY <1>2 DEF GetSlot, tables
  <2>2. ~Exists(req[r].booking)'
    BY <1>0, <2>1, RequestFacts, NoneAssumption DEF ControlOf, Exists
  <2>3. TruthOf404(r)'
    BY <2>1, <2>2 DEF TruthOf404
  <2>4. Refuse(r, 404) \/ Refuse(r, 400)
    <3>1. ~Goto(r, "begin")
      BY <1>0 DEF Goto, TypeOK
    <3>. QED BY <1>2, <3>1 DEF GetSlot
  <2>. QED BY <1>0, <2>1, <2>3, <2>4, RefusalIsTrue
<1>3. CASE Insert(r)
  <2>1. pc[r] = "insert" /\ UNCHANGED <<req, bookings, outbox>>
    BY <1>3 DEF Insert, tables
  <2>2. SlotTaken(r) /\ Refuse(r, 409)
    <3>1. ~Goto(r, "outbox")
      BY <1>0 DEF Goto, TypeOK
    <3>. QED BY <1>3, <3>1 DEF Insert
  <2>3. reply'[r].code = 409
    BY <1>0, <2>2 DEF Refuse, Answer, TypeOK
  <2>4. LeftNothing(r)'
    BY <1>0, <2>1, NothingYet, NothingLeftBehind
  <2>5. TruthOf409(r)'
    <3>1. PICK b \in Requests : IsActive(b) /\ bookings[b].slot = req[r].slot
      BY <2>2 DEF SlotTaken
    <3>2. b # r
      BY <1>0, <2>1, <3>1 DEF RowOf, IsActive, Exists
    <3>. QED BY <2>1, <3>1, <3>2 DEF TruthOf409, IsActive, Exists
  <2>. QED BY <2>3, <2>4, <2>5 DEF TruthOf, TruthOf201, TruthOf200, TruthOf404
<1>4. CASE UpdateLink(r) \/ LinkFails(r)
  <2>1. /\ pc[r] \in {"link", "updateLink"} /\ UNCHANGED req
        /\ bookings' = bookings \/ bookings' = RowsWithLink(r)
        /\ \/ Answer(r, 201, "active", FALSE)
           \/ Answer(r, 201, "active", TRUE) /\ bookings' = RowsWithLink(r)
    BY <1>4 DEF UpdateLink, LinkFails
  <2>2. /\ reply'[r].code = 201
        /\ reply'[r].link => bookings' = RowsWithLink(r)
    BY <1>0, <2>1 DEF Answer, TypeOK
  <2>3. bookings[r] \in Row /\ bookings[r] # None
    BY <1>0, <2>1 DEF ControlOf, TypeOK
  <2>4. bookings'[r] # None
    BY <2>3, RowStep
  <2>5. bookings'[r].slot = req'[r].slot /\ bookings'[r].user = req'[r].user
    BY <1>1, <2>4 DEF Inv, Rows, RowOf
  <2>6. reply'[r].link => bookings'[r].link
    BY <1>0, <2>2, <2>3 DEF RowsWithLink, TypeOK, Row
  <2>. QED BY <2>2, <2>4, <2>5, <2>6 DEF TruthOf, TruthOf201, TruthOf200, TruthOf409, TruthOf404
<1>. QED BY <1>2, <1>3, <1>4

\* The answers of a commit.
LEMMA CommitAnswers ==
    ASSUME Inv, AnswerInv, [Next]_vars, NEW r \in Requests, pc'[r] = "done", Commit(r)
    PROVE  TruthOf(r)'
<1>0. TypeOK /\ ControlOf(r) /\ Authors
  BY DEF Inv, Control, AnswerInv
<1>1. Inv'
  BY NextInv
<1>2. UNCHANGED req /\ (Inserting(r) \/ Cancelling(r))
      /\ bookings' = RowsAfter(r)
  BY CommitEffect, OpenTransaction
<1>3. CASE Commit(r) /\ Inserting(r)
  <2>1. req[r].op = "create" /\ bookings' = [bookings EXCEPT ![r] = InsertedRow(r)]
    BY <1>2, <1>3, OpenTransaction DEF RowsAfter
  <2>2. Answer(r, 201, "active", FALSE)
    <3>1. ~Goto(r, "link")
      BY <1>0 DEF Goto, TypeOK
    <3>. QED BY <1>3, <2>1, <3>1 DEF Commit
  <2>3. reply'[r].code = 201 /\ ~reply'[r].link
    BY <1>0, <2>2 DEF Answer, TypeOK
  <2>4. bookings'[r] # None
    <3>1. InsertedRow(r) # None
      BY <1>3, OpenTransaction, RowFacts DEF InsertedRow
    <3>. QED BY <1>0, <2>1, <3>1 DEF TypeOK
  <2>5. bookings'[r].slot = req'[r].slot /\ bookings'[r].user = req'[r].user
    BY <1>1, <2>4 DEF Inv, Rows, RowOf
  <2>. QED BY <2>3, <2>4, <2>5 DEF TruthOf, TruthOf201, TruthOf200, TruthOf409, TruthOf404
<1>4. CASE Commit(r) /\ Cancelling(r)
  <2>1. PICK b \in Requests : /\ b = Target(r) /\ b = req[r].booking
                              /\ bookings[b] \in Row /\ req[r].op = "cancel"
                              /\ bookings' = [bookings EXCEPT ![b].status = "cancelled"]
    BY <1>2, <1>4, OpenTransaction DEF RowsAfter
  <2>2. bookings[b].user = req[r].user
    BY <1>4, <2>1 DEF Inv, PendingCancels, Cancellable
  <2>3. Answer(r, 200, "cancelled", bookings[b].link)
    BY <1>4, <2>1 DEF Commit
  <2>4. reply'[r] = [code |-> 200, status |-> "cancelled", link |-> bookings[b].link]
    BY <1>0, <2>3 DEF Answer, TypeOK
  <2>5. bookings'[b] = [bookings[b] EXCEPT !.status = "cancelled"]
    BY <1>0, <2>1 DEF TypeOK
  <2>6. bookings'[b] # None
    BY <2>1, <2>5, RowUpdates, RowFacts
  <2>7. /\ bookings'[b].status = "cancelled" /\ bookings'[b].user = req[r].user
        /\ bookings'[b].link = bookings[b].link
    BY <2>1, <2>2, <2>5 DEF Row
  <2>8. req'[r].booking = b /\ req'[r].user = req[r].user
    BY <1>2, <2>1
  <2>9. TruthOf200(r)'
    BY <2>4, <2>6, <2>7, <2>8 DEF TruthOf200, Exists
  <2>. QED BY <2>4, <2>9 DEF TruthOf, TruthOf201, TruthOf409, TruthOf404
<1>. QED BY <1>2, <1>3, <1>4

\* The answers of the diagnosis.
LEMMA DiagnosisAnswers ==
    ASSUME Inv, AnswerInv, [Next]_vars, NEW r \in Requests, Diagnose(r)
    PROVE  TruthOf(r)'
<1>0. TypeOK /\ ControlOf(r) /\ Authors /\ Diagnosed
  BY DEF Inv, Control, AnswerInv
<1>1. /\ pc[r] = "diagnose" /\ UNCHANGED <<req, bookings, outbox>>
      /\ Target(r) = req[r].booking
  BY <1>0, RequestFacts DEF Diagnose, tables, ControlOf, Target
<1>2. CASE DiagnosedCode(r) = 404 /\ Refuse(r, 404)
  <2>1. TruthOf404(r)'
    BY <1>1, <1>2 DEF TruthOf404, DiagnosedCode, Exists
  <2>. QED BY <1>0, <1>1, <1>2, <2>1, RefusalIsTrue
<1>3. CASE DiagnosedCode(r) = 200
           /\ Answer(r, 200, bookings[Target(r)].status, bookings[Target(r)].link)
  <2>1. Exists(Target(r)) /\ bookings[Target(r)].user = req[r].user
    BY <1>3 DEF DiagnosedCode
  <2>2. bookings[Target(r)].status = "cancelled"
    BY <1>0, <1>1, <2>1 DEF Diagnosed
  <2>3. reply'[r] = [code |-> 200, status |-> bookings[Target(r)].status,
                     link |-> bookings[Target(r)].link]
    BY <1>0, <1>3 DEF Answer, TypeOK
  <2>4. TruthOf200(r)'
    BY <1>1, <2>1, <2>2, <2>3 DEF TruthOf200, Exists
  <2>. QED BY <2>3, <2>4 DEF TruthOf, TruthOf201, TruthOf409, TruthOf404
<1>. QED BY <1>2, <1>3 DEF Diagnose

\* A step that ends a request does so with a true answer.
LEMMA TruthBegins ==
    ASSUME Inv, AnswerInv, [Next]_vars, NEW r \in Requests,
           pc[r] # "done", pc'[r] = "done", req'[r] # None
    PROVE  TruthOf(r)'
<1>0. TypeOK /\ Authors
  BY DEF Inv, AnswerInv
<1>1. ASSUME NEW q \in Requests, q # r, \E step : pc' = [pc EXCEPT ![q] = step]
      PROVE  FALSE
  BY <1>0, <1>1 DEF TypeOK
<1>2. ASSUME NEW q \in Requests,
             \/ Arrive(q) \/ Malformed(q) \/ GetSlot(q) \/ Begin(q) \/ Insert(q)
             \/ Update(q) \/ InsertOutbox(q)
      PROVE  q = r
  <2>1. \E step : pc' = [pc EXCEPT ![q] = step]
    BY <1>2 DEF Arrive, Malformed, GetSlot, Begin, Insert, Update, InsertOutbox,
       Goto, Answer, Refuse
  <2>. QED BY <1>1, <2>1
<1>3. ASSUME NEW q \in Requests,
             \/ Commit(q) \/ CommitUnacknowledged(q) \/ Resolve(q) \/ Diagnose(q)
             \/ RequestLink(q) \/ UpdateLink(q) \/ LinkFails(q) \/ Fail(q)
      PROVE  q = r
  <2>1. \E step : pc' = [pc EXCEPT ![q] = step]
    BY <1>3 DEF Commit, CommitUnacknowledged, Resolve, LateCommit, LateAbort, Diagnose,
     RequestLink, UpdateLink,
       LinkFails, Fail, Goto, Answer, Refuse
  <2>. QED BY <1>1, <2>1
<1>4. CASE Malformed(r)
  <2>1. pc[r] = "new" /\ Refuse(r, 400)
    BY <1>4 DEF Malformed
  <2>. QED BY <1>0, <2>1, RefusalIsTrue
<1>5. CASE GetSlot(r) \/ Insert(r) \/ UpdateLink(r) \/ LinkFails(r)
  BY <1>5, CreationAnswers
<1>6. CASE Commit(r)
  BY <1>6, CommitAnswers
<1>7. CASE Diagnose(r)
  BY <1>7, DiagnosisAnswers
<1>8. CASE Fail(r)
  <2>1. Refuse(r, 500)
    BY <1>8 DEF Fail
  <2>. QED BY <1>0, <2>1, RefusalIsTrue
<1>9. CASE \/ Arrive(r) \/ Begin(r) \/ Update(r) \/ InsertOutbox(r)
           \/ CommitUnacknowledged(r) \/ Resolve(r) \/ RequestLink(r)
  <2>1. \E step \in Steps \ {"done"} : pc' = [pc EXCEPT ![r] = step]
    BY <1>9 DEF Arrive, Begin, Update, InsertOutbox, CommitUnacknowledged, Resolve,
       LateCommit, LateAbort, RequestLink, Goto, Steps
  <2>. QED BY <1>0, <2>1 DEF TypeOK
<1>10. CASE Crash
  BY <1>10 DEF Crash, InFlight
<1>11. CASE Tick \/ Finished \/ UNCHANGED vars
  BY <1>11 DEF Tick, Finished, vars
<1>. QED BY <1>2, <1>3, <1>4, <1>5, <1>6, <1>7, <1>8, <1>9, <1>10, <1>11 DEF Next, Serve, Step

\* What a step does to the request that diagnoses and to what requests know.
LEMMA RequestStep ==
    ASSUME Inv, [Next]_vars, NEW r \in Requests
    PROVE  /\ \/ req'[r] = req[r]
              \/ /\ Arrive(r) /\ pc[r] = "new"
                 /\ req'[r].booking # None => Exists(req'[r].booking)
           /\ pc'[r] = "diagnose" =>
                 \/ pc[r] = "diagnose" /\ req'[r] = req[r]
                 \/ /\ pc[r] = "update" /\ ~Cancellable(r)
                    /\ UNCHANGED <<req, bookings>>
<1>0. TypeOK
  BY DEF Inv
<1>. USE DEF Goto, Answer, Refuse
<1>1. ASSUME NEW q \in Requests, Arrive(q)
      PROVE  /\ \E step \in {"getSlot", "begin"} : pc' = [pc EXCEPT ![q] = step]
             /\ pc[q] = "new"
             /\ \E a : /\ req' = [req EXCEPT ![q] = a]
                       /\ a.booking # None => Exists(a.booking)
  BY <1>1 DEF Arrive
<1>2. ASSUME NEW q \in Requests, Update(q)
      PROVE  /\ UNCHANGED <<req, bookings>> /\ pc[q] = "update"
             /\ \/ pc' = [pc EXCEPT ![q] = "outbox"]
                \/ pc' = [pc EXCEPT ![q] = "diagnose"] /\ ~Cancellable(q)
  BY <1>2 DEF Update, tables
<1>3. ASSUME NEW q \in Requests,
             \/ Malformed(q) \/ GetSlot(q) \/ Begin(q) \/ Insert(q) \/ InsertOutbox(q)
      PROVE  UNCHANGED req /\ \E step : step # "diagnose" /\ pc' = [pc EXCEPT ![q] = step]
  BY <1>3 DEF Malformed, GetSlot, Begin, Insert, InsertOutbox
<1>4. ASSUME NEW q \in Requests,
             \/ Commit(q) \/ CommitUnacknowledged(q) \/ Resolve(q) \/ Diagnose(q)
             \/ RequestLink(q) \/ UpdateLink(q) \/ LinkFails(q) \/ Fail(q)
      PROVE  UNCHANGED req /\ \E step : step # "diagnose" /\ pc' = [pc EXCEPT ![q] = step]
  BY <1>4 DEF Commit, CommitUnacknowledged, Resolve, LateCommit, LateAbort, Diagnose,
     RequestLink, UpdateLink,
     LinkFails, Fail
<1>5. CASE \E q \in Requests : Arrive(q)
  <2>1. PICK q \in Requests : Arrive(q)
    BY <1>5
  <2>2. PICK a : /\ req' = [req EXCEPT ![q] = a]
                 /\ a.booking # None => Exists(a.booking)
    BY <1>1, <2>1
  <2>3. PICK step \in {"getSlot", "begin"} : pc' = [pc EXCEPT ![q] = step]
    BY <1>1, <2>1
  <2>4. CASE q = r
    BY <1>0, <1>1, <2>1, <2>2, <2>3, <2>4 DEF TypeOK
  <2>5. CASE q # r
    BY <1>0, <2>2, <2>3, <2>5 DEF TypeOK
  <2>. QED BY <2>4, <2>5
<1>6. CASE \E q \in Requests : Update(q)
  <2>1. PICK q \in Requests : Update(q)
    BY <1>6
  <2>. QED BY <1>0, <1>2, <2>1 DEF TypeOK
<1>7. CASE \E q \in Requests : \E step :
              UNCHANGED req /\ step # "diagnose" /\ pc' = [pc EXCEPT ![q] = step]
  BY <1>0, <1>7 DEF TypeOK
<1>8. CASE Crash
  BY <1>8 DEF Crash, InFlight
<1>9. CASE Tick \/ Finished \/ UNCHANGED vars
  BY <1>9 DEF Tick, Finished, vars
<1>. QED BY <1>3, <1>4, <1>5, <1>6, <1>7, <1>8, <1>9 DEF Next, Serve, Step

\* What is known of the requests and their answers holds after every step.
LEMMA AnswerInvPreserved ==
    ASSUME Inv, AnswerInv, [Next]_vars
    PROVE  AnswerInv'
<1>0. TypeOK /\ Control /\ Known /\ Diagnosed /\ Authors /\ Truthful
  BY DEF Inv, AnswerInv
<1>1. Inv'
  BY NextInv
<1>2. ASSUME NEW b, Exists(b)
      PROVE  Exists(b)'
  BY <1>2, RowStep DEF Exists
<1>3. Known'
  <2>. SUFFICES ASSUME NEW r \in Requests, req'[r] # None, req'[r].booking # None,
                       NEW b, b = req'[r].booking
                PROVE  Exists(b)'
    BY DEF Known, Exists
  <2>1. Exists(b)
    BY <1>0, RequestStep DEF Known
  <2>. QED BY <1>2, <2>1
<1>4. Diagnosed'
  <2>. SUFFICES ASSUME NEW r \in Requests, pc'[r] = "diagnose", NEW b \in Requests,
                       b = Target(r)', Exists(b)', bookings'[b].user = req'[r].user
                PROVE  bookings'[b].status = "cancelled"
    BY DEF Diagnosed, Exists
  <2>1. CASE pc[r] = "diagnose" /\ req'[r] = req[r]
    <3>1. req[r] \in Cancellation /\ b = req[r].booking /\ b = Target(r)
      BY <1>0, <2>1, RequestFacts DEF Control, ControlOf, Target
    <3>2. Exists(b)
      BY <1>0, <3>1, NoneAssumption, RequestAssumption DEF Known
    <3>3. bookings[b].user = req[r].user
      BY <2>1, <3>2, RowStep DEF Exists
    <3>4. bookings[b].status = "cancelled"
      BY <1>0, <2>1, <3>1, <3>2, <3>3 DEF Diagnosed
    <3>. QED BY <3>2, <3>4, RowStep DEF Exists
  <2>2. CASE pc[r] = "update" /\ ~Cancellable(r) /\ UNCHANGED <<req, bookings>>
    <3>1. b = Target(r) /\ Exists(b) /\ bookings[b].user = req[r].user
      BY <2>2 DEF Exists, Target
    <3>2. bookings[b].status # "active" /\ bookings[b] \in Row
      BY <1>0, <2>2, <3>1 DEF Cancellable, IsActive, Exists, TypeOK
    <3>. QED BY <2>2, <3>2, RowFacts
  <2>. QED BY <2>1, <2>2, RequestStep
<1>5. Authors'
  <2>. SUFFICES ASSUME NEW e \in outbox'
                PROVE  pc'[e.by] \in {"link", "updateLink", "done", "lost"}
    BY DEF Authors
  <2>1. CASE e \notin outbox
    <3>1. PICK r \in Requests : r = e.by /\ (Commit(r) \/ LateCommit(r))
      BY <2>1, NewEvent
    <3>. QED BY <3>1, CommitEffect
  <2>2. CASE e \in outbox
    <3>1. PICK r \in Requests : r = e.by
      BY <1>0, <2>2 DEF TypeOK, Event
    <3>2. pc[r] \in {"link", "updateLink", "done", "lost"}
      BY <1>0, <2>2, <3>1 DEF Authors
    <3>. QED BY <3>1, <3>2, PastStays
  <2>. QED BY <2>1, <2>2
<1>6. Truthful'
  <2>. SUFFICES ASSUME NEW r \in Requests, pc'[r] = "done", req'[r] # None
                PROVE  TruthOf(r)'
    BY DEF Truthful
  <2>1. CASE pc[r] = "done"
    <3>1. req[r] # None
      BY <2>1, EndedStays
    <3>2. TruthOf(r)
      BY <1>0, <2>1, <3>1 DEF Truthful
    <3>. QED BY <1>0, <2>1, <3>1, <3>2, TruthStays
  <2>2. CASE pc[r] # "done"
    BY <2>2, TruthBegins
  <2>. QED BY <2>1, <2>2
<1>. QED BY <1>3, <1>4, <1>5, <1>6 DEF AnswerInv

\* Whatever happens after an answer, it stays true of the tables.
THEOREM AnswersStayTrue == Spec => []AnswersMatchTables
<1>1. Init => AnswerInv
  BY DEF Init, AnswerInv, Known, Diagnosed, Authors, Truthful
<1>2. Inv /\ AnswerInv /\ [Next]_vars => AnswerInv'
  BY AnswerInvPreserved
<1>3. AnswerInv => AnswersMatchTables
  BY DEF AnswerInv, Truthful, TruthOf, TruthOf201, TruthOf200, TruthOf409, TruthOf404,
     LeftNothing, AnswersMatchTables, Exists
<1>. QED BY <1>1, <1>2, <1>3, Invariance, PTL DEF Spec

\* Who cancels a booking names one whose creation is committed with its event:
\* a request learns an identifier from an answer or from a list.
KnownCreated ==
    \A r \in Requests : req[r] # None /\ req[r].booking # None =>
        \E e \in outbox : e.type = "created" /\ e.booking = req[r].booking

\* The created event of a booking is committed before a request to cancel it
\* begins: the order of the two transactions of a booking that the outbox
\* relay is given.
THEOREM CreationCommittedFirst == Spec => []KnownCreated
<1>1. Init => AnswerInv
  BY DEF Init, AnswerInv, Known, Diagnosed, Authors, Truthful
<1>2. Inv /\ AnswerInv /\ [Next]_vars => AnswerInv'
  BY AnswerInvPreserved
<1>3. Inv /\ AnswerInv => KnownCreated
  BY DEF Inv, AnswerInv, Known, OutboxMirrorsBookings, KnownCreated, Exists
<1>. QED BY <1>1, <1>2, <1>3, Invariance, PTL DEF Spec
=============================================================================
