------------------------ MODULE NotificationConsumer ------------------------
(***************************************************************************)
(* The consumer of notification-service: one goroutine takes the messages  *)
(* of the booking events topic one by one, stores a notification for each  *)
(* event, broadcasts it to the hub if it was new, and commits the offset;  *)
(* HTTP handlers mark notifications as read meanwhile.                     *)
(*                                                                         *)
(* The topic holds what relays and others have written: events, repeated   *)
(* or in any order, and messages that are not events.  kafka.Reader, not   *)
(* under src/, keeps a position of its own; the group's committed offset   *)
(* is in the broker and counts only when a reader joins.                   *)
(***************************************************************************)
EXTENDS Naturals, FiniteSets, Sequences

CONSTANTS Bookings,     \* bookings of the events
          Users,        \* users that own bookings
          Owner,        \* Owner[b]: the user_id of the events of booking b
          None,         \* no notification
          Invalid,      \* a message whose payload is not an event
          Unknown,      \* an event of a type the service does not know
          MaxMessages,  \* bound of the topic (model only)
          MaxFailures   \* bound of failures and crashes (model only)

\* (booking_id, type): the key of a notification, and an event of the topic.
Keys == [type : {"created", "cancelled"}, booking : Bookings]

Notification == [read : BOOLEAN]

ASSUME ConsumerAssumption == /\ Owner \in [Bookings -> Users]
                             /\ None \notin Notification
                             /\ {Invalid, Unknown} \cap Keys = {}
                             /\ MaxMessages \in Nat
                             /\ MaxFailures \in Nat

VARIABLES log,        \* the topic
          committed,  \* messages below the group's committed offset
          position,   \* messages the reader has handed out
          current,    \* the message at hand
          at,         \* the consumer's next step: fetch, insert, broadcast, commit, backoff or off
          phase,      \* running, stopping or down
          stored,     \* stored[k]: the row of table notifications, or None
          broadcasts, \* broadcasts[k]: how often k was given to the hub
          readers,    \* users that have marked notifications as read
          failures    \* failures so far

consumerVars == <<committed, position, current, at, phase>>
dataVars == <<stored, broadcasts, readers>>
vars == <<log, consumerVars, dataVars, failures>>

Messages == Keys \cup {Invalid, Unknown}

Init ==
    /\ log = <<>>
    /\ committed = 0 /\ position = 0 /\ current = 0
    /\ at = "fetch"
    /\ phase = "running"
    /\ stored = [k \in Keys |-> None]
    /\ broadcasts = [k \in Keys |-> 0]
    /\ readers = {}
    /\ failures = 0

\* Somebody writes to the topic.
Produce ==
    /\ Len(log) < MaxMessages
    /\ \E m \in Messages : log' = Append(log, m)
    /\ UNCHANGED <<consumerVars, dataVars, failures>>

(***************************************************************************)
(* Run and CreateFromEvent.                                                *)
(***************************************************************************)
Key == log[current]

\* Defect: a switch without the case of cancellations.
StepForCreatedOnly(m) ==
    IF m \in Keys /\ m.type = "created" THEN "insert" ELSE "commit"

\* What Run does with a message: what is no event it knows is only committed.
StepFor(m) == IF m \in Keys THEN "insert" ELSE "commit"

\* FetchMessage moves the reader on, whatever becomes of the message; it may
\* find one even if its context has ended.
Fetch ==
    /\ at = "fetch"
    /\ position < Len(log)
    /\ position' = position + 1
    /\ current' = position + 1
    /\ at' = StepFor(log[position + 1])
    /\ UNCHANGED <<log, committed, phase, dataVars, failures>>

\* Defect: ON CONFLICT DO UPDATE with the new row.
StoredByUpsert == [stored EXCEPT ![Key] = [read |-> FALSE]]

\* INSERT ... ON CONFLICT (booking_id, type) DO NOTHING.
StoredAfterInsert ==
    IF stored[Key] = None THEN [stored EXCEPT ![Key] = [read |-> FALSE]] ELSE stored

\* Defect: the number of affected rows is ignored.
InsertedAlways == TRUE

\* RowsAffected = 1.
Inserted == stored[Key] = None

Insert ==
    /\ at = "insert"
    /\ stored' = StoredAfterInsert
    /\ at' = IF Inserted THEN "broadcast" ELSE "commit"
    /\ UNCHANGED <<log, committed, position, current, phase, broadcasts, readers, failures>>

Broadcast ==
    /\ at = "broadcast"
    /\ broadcasts' = [broadcasts EXCEPT ![Key] = @ + 1]
    /\ at' = "commit"
    /\ UNCHANGED <<log, committed, position, current, phase, stored, readers, failures>>

\* CommitMessages(msg): everything up to msg is consumed.
Commit ==
    /\ at = "commit"
    /\ committed' = current
    /\ at' = "fetch"
    /\ UNCHANGED <<log, position, current, phase, dataVars, failures>>

(***************************************************************************)
(* Failures.                                                               *)
(***************************************************************************)
CountFailure == /\ failures < MaxFailures
                /\ failures' = failures + 1

\* Defect: the event is broadcast although the INSERT failed.
AfterInsertErrorBroadcast == "broadcast"

\* A failed event is skipped: its offset is committed all the same.
AfterInsertError == "commit"

\* Defect: the goroutine of main ends with Run.
AfterRunErrorOff == "off"

\* An error of Run: main waits a second and calls it again.
AfterRunError == "backoff"

\* The INSERT returns an error, be it that of the ended context; it may have
\* been applied.
InsertFails ==
    /\ at = "insert"
    /\ stored' \in {stored, StoredAfterInsert}
    /\ at' = AfterInsertError
    /\ CountFailure
    /\ UNCHANGED <<log, committed, position, current, phase, broadcasts, readers>>

\* CommitMessages returns an error, applied or not: Run returns it.
CommitFails ==
    /\ at = "commit"
    /\ committed' \in {committed, current}
    /\ at' = AfterRunError
    /\ CountFailure
    /\ UNCHANGED <<log, position, current, phase, dataVars>>

FetchFails ==
    /\ at = "fetch"
    /\ at' = AfterRunError
    /\ CountFailure
    /\ UNCHANGED <<log, committed, position, current, phase, dataVars>>

\* The reader loses its membership of the group and joins again: it reads on
\* from the committed offset.
Rejoin ==
    /\ at # "off"
    /\ position' = committed
    /\ CountFailure
    /\ UNCHANGED <<log, committed, current, at, phase, dataVars>>

\* main calls Run again after a second, with the same reader.
Retry ==
    /\ at = "backoff"
    /\ phase = "running"
    /\ at' = "fetch"
    /\ UNCHANGED <<log, committed, position, current, phase, dataVars, failures>>

(***************************************************************************)
(* Stopping and starting.                                                  *)
(***************************************************************************)
Signal ==
    /\ phase = "running"
    /\ phase' = "stopping"
    /\ UNCHANGED <<log, committed, position, current, at, dataVars, failures>>

\* The context ends while a commit is under way: CommitMessages returns the
\* context's error whether or not the broker gets the offset.
CommitInterrupted ==
    /\ at = "commit"
    /\ phase = "stopping"
    /\ committed' \in {committed, current}
    /\ at' = AfterRunError
    /\ UNCHANGED <<log, position, current, phase, dataVars, failures>>

\* Defect: FetchMessage does not get the context.
EndsWhereNoFetch == {"backoff"}

\* Where the consumer notices that the context has ended.
EndsWhere == {"fetch", "backoff"}

EndRun ==
    /\ phase = "stopping"
    /\ at \in EndsWhere
    /\ at' = "off"
    /\ UNCHANGED <<log, committed, position, current, phase, dataVars, failures>>

\* main has waited for the consumer: the process ends.
Stop ==
    /\ phase = "stopping"
    /\ at = "off"
    /\ phase' = "down"
    /\ UNCHANGED <<log, committed, position, current, at, dataVars, failures>>

Crash ==
    /\ phase # "down"
    /\ phase' = "down"
    /\ at' = "off"
    /\ CountFailure
    /\ UNCHANGED <<log, committed, position, current, dataVars>>

\* A new reader joins the group.
Start ==
    /\ phase = "down"
    /\ phase' = "running"
    /\ at' = "fetch"
    /\ position' = committed
    /\ UNCHANGED <<log, committed, current, dataVars, failures>>

(***************************************************************************)
(* The handlers, each one statement.                                       *)
(***************************************************************************)

\* WHERE user_id.
Owns(u, k) == Owner[k.booking] = u

\* MarkAsRead of every k in chosen that is a notification of u; of others'
\* the answer is "not found".
Mark(u, chosen) ==
    /\ phase # "down"
    /\ stored' = [k \in Keys |-> IF k \in chosen /\ stored[k] # None /\ Owns(u, k)
                                 THEN [stored[k] EXCEPT !.read = TRUE]
                                 ELSE stored[k]]
    /\ readers' = readers \cup {u}
    /\ UNCHANGED <<log, consumerVars, broadcasts, failures>>

MarkAsRead(u, k) == Mark(u, {k})

MarkAllAsRead(u) == Mark(u, Keys)

Work == Fetch \/ Insert \/ Broadcast \/ Commit \/ Retry

\* Everything but what others write to the topic.
Consume ==
    \/ Work
    \/ InsertFails \/ CommitFails \/ FetchFails \/ Rejoin
    \/ Signal \/ CommitInterrupted \/ EndRun \/ Stop \/ Crash \/ Start
    \/ \E u \in Users : MarkAllAsRead(u) \/ \E k \in Keys : MarkAsRead(u, k)

Next == Produce \/ Consume

Spec == Init /\ [][Next]_vars

\* The consumer goroutine and a process that stops are scheduled; nobody has
\* to write to the topic, to fail or to start the service.
Fairness == WF_vars(Work) /\ WF_vars(EndRun) /\ WF_vars(Stop)

FairSpec == Spec /\ Fairness

(***************************************************************************)
(* Properties.                                                             *)
(***************************************************************************)

\* Type invariant of the topic, the consumer and the notifications.
TypeOK ==
    /\ log \in Seq(Messages)
    /\ committed \in 0 .. Len(log)
    /\ position \in 0 .. Len(log)
    /\ current \in 0 .. Len(log)
    /\ at \in {"fetch", "insert", "broadcast", "commit", "backoff", "off"}
    /\ phase \in {"running", "stopping", "down"}
    /\ stored \in [Keys -> Notification \cup {None}]
    /\ broadcasts \in [Keys -> Nat]
    /\ readers \subseteq Users
    /\ failures \in 0 .. MaxFailures

\* A user is shown a notification at most once and only if it is stored, even
\* if the relay has repeated the event, the group is rejoined, an offset is
\* not committed or the service dies at any point (CreateFromEvent broadcasts
\* only what the INSERT added).
BroadcastAtMostOnce ==
    \A k \in Keys : broadcasts[k] <= (IF stored[k] = None THEN 0 ELSE 1)

\* A notification is never deleted, it is read only once its owner has called
\* MarkRead, whoever else tries, and one that was read never becomes unread
\* when its event is delivered again.
ReadIsSticky ==
    [][\A k \in Keys :
          /\ stored[k] # None =>
                stored'[k] # None /\ (stored[k].read => stored'[k].read)
          /\ stored'[k] # None /\ stored'[k].read => Owner[k.booking] \in readers']_vars

Lost == {k \in Keys : stored[k] = None /\ \E i \in 1 .. committed : log[i] = k}

\* Events whose notification was stored, and the broadcast then left out.
Unshown == {k \in Keys : /\ stored[k] # None /\ broadcasts[k] = 0
                         /\ ~(at = "broadcast" /\ Key = k)}

\* Committing a message commits all before it, also those whose own commit
\* failed, and the process may die between INSERT and broadcast; still, each
\* event the group will never see again without there being a notification of
\* it, or whose notification was not broadcast, is the event of a failure of
\* its own: a failure costs at most one notification, whatever it costs of it.
LossHasItsFailure == Cardinality(Lost \cup Unshown) <= failures

\* A signalled service stops.
ShutdownEnds == phase = "stopping" ~> phase = "down"

\* TASK_EXTENDED.md:193: the INSERT of an event fails, the offset is not
\* committed, and Kafka repeats the message.
FailedInsertIsRepeated == Lost = {}

\* notification-service/README.md:198: on a signal the consumer completes the
\* message at hand and commits its offset.
StopCompletesMessage ==
    phase = "down" /\ failures = 0 => committed = position
=============================================================================
