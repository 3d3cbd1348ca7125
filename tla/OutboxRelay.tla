---------------------------- MODULE OutboxRelay ----------------------------
(***************************************************************************)
(* The outbox of booking-service from the transactions that fill it to the *)
(* Kafka topic: each process of the service runs HTTP handlers, whose      *)
(* transactions add outbox rows, and one relay goroutine, which publishes  *)
(* pending rows in batches and marks them sent.  Processes are stopped by  *)
(* a signal, crash, and start again.                                       *)
(*                                                                         *)
(* An outbox row is identified by its event; its created_at is the start   *)
(* of the transaction that writes it (NOW() in PostgreSQL), so the order   *)
(* of created_at is not the order of the commits.  The topic is one log    *)
(* (one partition), and kafka.Writer, not under src/, a queue in front of  *)
(* it: WriteMessages returns when its records are written, or earlier when *)
(* its context ends, and then the queued records may still be written.     *)
(***************************************************************************)
EXTENDS Naturals, FiniteSets, Sequences

CONSTANTS Bookings,     \* bookings whose events pass through the outbox
          Processes,    \* instances of the service
          BatchSize,    \* rows a batch may hold (fetchBatchSize)
          MaxClock,     \* bound of the transactions started (model only)
          MaxFailures   \* bound of failures and crashes (model only)

ASSUME RelayAssumption == /\ IsFiniteSet(Bookings)
                          /\ BatchSize \in Nat \ {0}
                          /\ MaxClock \in Nat
                          /\ MaxFailures \in Nat

VARIABLES state,     \* state[r]: absent, open (uncommitted), pending or sent
          stamp,     \* stamp[r]: created_at of row r
          clock,     \* time of the last transaction start
          writer,    \* writer[r]: the process whose handler writes row r
          phase,     \* phase[p]: running, stopping, stopped or crashed
          serving,   \* serving[p]: p's HTTP handlers may still run
          relay,     \* relay[p]: idle, publish, mark or off
          draining,  \* draining[p]: p's relay has seen the signal
          batch,     \* batch[p]: rows locked by p's relay transaction
          queue,     \* queue[p]: rows p's writer still has to write
          log,       \* the topic
          failures,  \* failures so far
          fetched    \* processes whose relay has fetched a batch (history)

rowVars == <<state, stamp, clock, writer>>
relayVars == <<relay, draining, batch, queue>>
vars == <<rowVars, phase, serving, relayVars, log, failures, fetched>>

Events == [type : {"created", "cancelled"}, booking : Bookings]

Committed(r) == state[r] \in {"pending", "sent"}

Created(b) == [type |-> "created", booking |-> b]

OpenRows(p) == {r \in Events : state[r] = "open" /\ writer[r] = p}

Init ==
    /\ state = [r \in Events |-> "absent"]
    /\ stamp = [r \in Events |-> 0]
    /\ clock = 0
    /\ \E p \in Processes : writer = [r \in Events |-> p]
    /\ phase = [p \in Processes |-> "running"]
    /\ serving = [p \in Processes |-> TRUE]
    /\ relay = [p \in Processes |-> "idle"]
    /\ draining = [p \in Processes |-> FALSE]
    /\ batch = [p \in Processes |-> {}]
    /\ queue = [p \in Processes |-> <<>>]
    /\ log = <<>>
    /\ failures = 0
    /\ fetched = {}

(***************************************************************************)
(* The handlers' transactions (BookingService in detail).                  *)
(***************************************************************************)

\* A transaction starts.  A booking can only be cancelled by a client that
\* knows it, that is after the commit of its creation.
BeginTx(p, r) ==
    /\ serving[p]
    /\ state[r] = "absent"
    /\ r.type = "cancelled" => Committed(Created(r.booking))
    /\ clock < MaxClock
    /\ clock' = clock + 1
    /\ stamp' = [stamp EXCEPT ![r] = clock']
    /\ writer' = [writer EXCEPT ![r] = p]
    /\ state' = [state EXCEPT ![r] = "open"]
    /\ UNCHANGED <<phase, serving, relayVars, log, failures, fetched>>

CommitTx(r) ==
    /\ state[r] = "open"
    /\ state' = [state EXCEPT ![r] = "pending"]
    /\ UNCHANGED <<stamp, clock, writer, phase, serving, relayVars, log, failures, fetched>>

AbortTx(r) ==
    /\ state[r] = "open"
    /\ state' = [state EXCEPT ![r] = "absent"]
    /\ UNCHANGED <<stamp, clock, writer, phase, serving, relayVars, log, failures, fetched>>

(***************************************************************************)
(* ProcessBatch.                                                           *)
(***************************************************************************)

\* Defect: rows of open transactions are read.
VisibleUncommitted(r) == state[r] \in {"open", "pending"}

\* Defect: the WHERE clause is dropped.
VisibleSent(r) == Committed(r)

\* sent_at IS NULL, among the committed rows.
Visible(r) == state[r] = "pending"

\* Defect: the rows are not locked.
UnlockedNever(r) == r \in Events

\* FOR UPDATE SKIP LOCKED: no relay transaction has r.
Unlocked(r) == \A p \in Processes : r \notin batch[p]

Available == {r \in Events : Visible(r) /\ Unlocked(r)}

\* Defect: no ORDER BY created_at.
EarlierInAnyOrder(r, q) == r \in Events /\ q \in Events

\* ORDER BY created_at.
Earlier(r, q) == stamp[r] <= stamp[q]

\* The first rows of the order, as many as the limit allows.
FirstRows(rows) ==
    {s \in SUBSET rows :
        /\ Cardinality(s) <= BatchSize
        /\ Cardinality(s) < BatchSize => s = rows
        /\ \A r \in s, q \in rows \ s : Earlier(r, q)}

\* The records of a batch, in the order of the rows.
InOrder(rows) ==
    {q \in [1 .. Cardinality(rows) -> rows] :
        \A i, j \in 1 .. Cardinality(rows) : i < j => q[i] # q[j] /\ Earlier(q[i], q[j])}

\* Defect: rows are marked whatever WriteMessages returned.
AppliedOnAnyError(p) == relay[p] \in {"publish", "mark"}

\* A failed batch has been applied only if the failure is that of its commit.
AppliedOnError(p) == relay[p] = "mark"

MarkSent(p) == state' = [r \in Events |-> IF r \in batch[p] THEN "sent" ELSE state[r]]

\* End p's relay transaction.
EndBatch(p, next) ==
    /\ batch' = [batch EXCEPT ![p] = {}]
    /\ relay' = [relay EXCEPT ![p] = next]

\* Begin and fetch, on a tick of a running process or again while draining;
\* the records are handed to the writer.
Fetch(p) ==
    /\ relay[p] = "idle"
    /\ phase[p] = "running" \/ draining[p]
    /\ Available # {}
    /\ \E rows \in FirstRows(Available) :
          /\ batch' = [batch EXCEPT ![p] = rows]
          /\ \E q \in InOrder(rows) : queue' = [queue EXCEPT ![p] = @ \o q]
    /\ relay' = [relay EXCEPT ![p] = "publish"]
    /\ fetched' = fetched \cup {p}
    /\ UNCHANGED <<rowVars, phase, serving, draining, log, failures>>

\* The writer writes a record; with the last one WriteMessages returns.
Publish(p) ==
    /\ queue[p] # <<>>
    /\ log' = Append(log, Head(queue[p]))
    /\ queue' = [queue EXCEPT ![p] = Tail(@)]
    /\ relay' = [relay EXCEPT ![p] = IF @ = "publish" /\ Len(queue[p]) = 1 THEN "mark" ELSE @]
    /\ UNCHANGED <<rowVars, phase, serving, draining, batch, failures, fetched>>

\* UPDATE outbox SET sent_at and the commit.
Mark(p) ==
    /\ relay[p] = "mark"
    /\ MarkSent(p)
    /\ EndBatch(p, "idle")
    /\ UNCHANGED <<stamp, clock, writer, phase, serving, draining, queue, log, failures, fetched>>

(***************************************************************************)
(* Failures of a batch.                                                    *)
(***************************************************************************)

\* Defect: Run returns on an error.
AfterErrorStop(p) == IF p \in Processes THEN "off" ELSE "idle"

\* processBatch returns 0: the drain stops, the ticker loop goes on.
AfterError(p) == IF draining[p] THEN "off" ELSE "idle"

CountFailure == /\ failures < MaxFailures
                /\ failures' = failures + 1

\* What the writer keeps when a batch fails: the batch is given up, and what an
\* interrupted WriteMessages left before it is still written, or fails too.
LeftBefore(p) ==
    {SubSeq(queue[p], 1, n) :
        n \in {0} \cup {m \in 0 .. Len(queue[p]) : m + Cardinality(batch[p]) <= Len(queue[p])}}

\* The database or Kafka returns an error; the relay's transaction is rolled
\* back, unless its commit was applied unnoticed.  Records that could not be
\* written are given up.
BatchFails(p) ==
    /\ relay[p] \in {"publish", "mark"} \/ (relay[p] = "idle" /\ draining[p])
    /\ \/ UNCHANGED state
       \/ AppliedOnError(p) /\ MarkSent(p)
    /\ EndBatch(p, AfterError(p))
    /\ \E kept \in LeftBefore(p) : queue' = [queue EXCEPT ![p] = kept]
    /\ CountFailure
    /\ UNCHANGED <<stamp, clock, writer, phase, serving, draining, log, fetched>>

\* The acknowledgement of a produce request is lost: the writer sends the
\* batch again (RequiredAcks = RequireOne, no idempotent producer).
Resend(p) ==
    /\ relay[p] = "mark"
    /\ \E q \in InOrder(batch[p]) : queue' = [queue EXCEPT ![p] = q]
    /\ relay' = [relay EXCEPT ![p] = "publish"]
    /\ CountFailure
    /\ UNCHANGED <<rowVars, phase, serving, draining, batch, log, fetched>>

(***************************************************************************)
(* Stopping and starting a process: main and Relay.Run.                    *)
(***************************************************************************)

\* SIGTERM cancels the context relay and main wait for.
Signal(p) ==
    /\ phase[p] = "running"
    /\ phase' = [phase EXCEPT ![p] = "stopping"]
    /\ UNCHANGED <<rowVars, serving, relayVars, log, failures, fetched>>

\* The context of the batch at hand ends, by the signal or by DrainTimeout:
\* an error like others, but the writer keeps what it was given.
ContextEnds(p) ==
    /\ phase[p] = "stopping"
    /\ relay[p] \in {"publish", "mark"}
    /\ \/ UNCHANGED state
       \/ AppliedOnError(p) /\ MarkSent(p)
    /\ EndBatch(p, AfterError(p))
    /\ CountFailure
    /\ UNCHANGED <<stamp, clock, writer, phase, serving, draining, queue, log, fetched>>

StartDrain(p) ==
    /\ phase[p] = "stopping"
    /\ relay[p] = "idle"
    /\ ~draining[p]
    /\ draining' = [draining EXCEPT ![p] = TRUE]
    /\ UNCHANGED <<rowVars, phase, serving, relay, batch, queue, log, failures, fetched>>

\* Defect: break leaves the select, not the loop of the drain.
EndDrainLoops(p) ==
    /\ draining[p]
    /\ relay[p] = "idle"
    /\ Available = {}
    /\ UNCHANGED vars

\* The drain ends with the first batch that publishes nothing.
EndDrain(p) ==
    /\ draining[p]
    /\ relay[p] = "idle"
    /\ Available = {}
    /\ relay' = [relay EXCEPT ![p] = "off"]
    /\ UNCHANGED <<rowVars, phase, serving, draining, batch, queue, log, failures, fetched>>

\* srv.Shutdown returns once the requests in flight have ended.
CloseHTTP(p) ==
    /\ phase[p] = "stopping"
    /\ serving[p]
    /\ OpenRows(p) = {}
    /\ serving' = [serving EXCEPT ![p] = FALSE]
    /\ UNCHANGED <<rowVars, phase, relayVars, log, failures, fetched>>

\* Both are done, the writer's Close having waited for its queue: run returns.
Stop(p) ==
    /\ phase[p] = "stopping"
    /\ ~serving[p]
    /\ relay[p] = "off"
    /\ queue[p] = <<>>
    /\ phase' = [phase EXCEPT ![p] = "stopped"]
    /\ UNCHANGED <<rowVars, serving, relayVars, log, failures, fetched>>

\* The process dies, or gives up waiting at a timeout of its shutdown: the
\* server aborts the open transactions of its handlers and of its relay.
Crash(p) ==
    /\ phase[p] \in {"running", "stopping"}
    /\ CountFailure
    /\ phase' = [phase EXCEPT ![p] = "crashed"]
    /\ serving' = [serving EXCEPT ![p] = FALSE]
    /\ state' = [r \in Events |-> IF r \in OpenRows(p) THEN "absent" ELSE state[r]]
    /\ EndBatch(p, "off")
    /\ queue' = [queue EXCEPT ![p] = <<>>]
    /\ UNCHANGED <<stamp, clock, writer, draining, log, fetched>>

Start(p) ==
    /\ phase[p] \in {"stopped", "crashed"}
    /\ phase' = [phase EXCEPT ![p] = "running"]
    /\ serving' = [serving EXCEPT ![p] = TRUE]
    /\ relay' = [relay EXCEPT ![p] = "idle"]
    /\ draining' = [draining EXCEPT ![p] = FALSE]
    /\ UNCHANGED <<rowVars, batch, queue, log, failures, fetched>>

EndTx == \E r \in Events : CommitTx(r) \/ AbortTx(r)

Work(p) == Fetch(p) \/ Publish(p) \/ Mark(p)

Shutdown(p) == StartDrain(p) \/ EndDrain(p) \/ CloseHTTP(p) \/ Stop(p)

Next ==
    \/ \E p \in Processes :
          \/ \E r \in Events : BeginTx(p, r)
          \/ Work(p) \/ Shutdown(p)
          \/ BatchFails(p) \/ Resend(p) \/ ContextEnds(p)
          \/ Signal(p) \/ Crash(p) \/ Start(p)
    \/ EndTx

Spec == Init /\ [][Next]_vars

\* Handlers end, the relay polls and works, a stopping process goes on
\* stopping.  Nothing fails, is signalled or starts by fairness.
Fairness ==
    /\ WF_vars(EndTx)
    /\ \A p \in Processes : /\ WF_vars(Work(p))
                            /\ WF_vars(StartDrain(p)) /\ WF_vars(EndDrain(p))
                            /\ WF_vars(CloseHTTP(p)) /\ WF_vars(Stop(p))

FairSpec == Spec /\ Fairness

(***************************************************************************)
(* Properties.                                                             *)
(***************************************************************************)

\* Type invariant of the outbox, the relays and the topic.
TypeOK ==
    /\ state \in [Events -> {"absent", "open", "pending", "sent"}]
    /\ stamp \in [Events -> 0 .. MaxClock]
    /\ clock \in 0 .. MaxClock
    /\ writer \in [Events -> Processes]
    /\ phase \in [Processes -> {"running", "stopping", "stopped", "crashed"}]
    /\ serving \in [Processes -> BOOLEAN]
    /\ relay \in [Processes -> {"idle", "publish", "mark", "off"}]
    /\ draining \in [Processes -> BOOLEAN]
    /\ batch \in [Processes -> SUBSET Events]
    /\ queue \in [Processes -> Seq(Events)]
    /\ log \in Seq(Events)
    /\ failures \in 0 .. MaxFailures
    /\ fetched \subseteq Processes

Published == {log[i] : i \in 1 .. Len(log)}

\* No event is lost by the relay: a row is marked sent only once it is in the
\* topic, however WriteMessages, the mark and its commit fail, and whenever
\* the process is signalled or dies.
SentWasPublished == \A r \in Events : state[r] = "sent" => r \in Published

OneRelay == Cardinality(fetched) <= 1

\* As long as one process has relayed, the first cancelled event of a booking
\* comes after a created event of it, across batches, retries, resends and
\* restarts.
PerBookingOrder ==
    OneRelay =>
        \A i \in 1 .. Len(log), b \in Bookings :
            log[i] = [type |-> "cancelled", booking |-> b] =>
                \E j \in 1 .. i : log[j] = Created(b)

\* As long as one process has relayed, a row that is marked sent is never
\* published again: only batches that failed are repeated, and what an
\* interrupted WriteMessages left in the writer's queue is written before the
\* batch that is marked.
SentIsFinal ==
    [][\A r \in Events : OneRelay' /\ state[r] = "sent" =>
          /\ state'[r] = "sent"
          /\ Len(log') > Len(log) => log'[Len(log')] # r]_vars

Copies(r) == Cardinality({i \in 1 .. Len(log) : log[i] = r})

\* However many relays share the table, none publishes a row of another's
\* (FOR UPDATE SKIP LOCKED): as long as nothing fails a row is published once,
\* and each failure repeats it at most once more.
PublishedOnce == \A r \in Events : Copies(r) <= 1 + failures

\* Every committed event reaches the topic and is marked, provided the
\* service runs again and again: an error does not end the relay's loop.
EveryEventSent ==
    []<>(\E p \in Processes : phase[p] = "running") =>
        \A r \in Events : state[r] = "pending" ~> state[r] = "sent"

\* A signalled process stops, whatever the relay was doing.
ShutdownEnds ==
    \A p \in Processes : phase[p] = "stopping" ~> phase[p] # "stopping"

\* What notification-service may rely on: the outbox and its relays implement
\* EventTopic, with a topic that has room for every repetition.
Topic == INSTANCE EventTopic WITH
    Facts <- Events, Noise <- {},
    announced <- {r \in Events : Committed(r)},
    MaxMessages <- Cardinality(Events) * (MaxFailures + 1) + 1

ImplementsTopic == Topic!Spec

\* cmd/main.go:131 and :142: HTTP is stopped first, after that there are no
\* new rows in the outbox, and the relay drains what there is: a shutdown in
\* which nothing failed leaves no pending row behind.
CleanShutdownDrains ==
    failures = 0 /\ (\A p \in Processes : phase[p] = "stopped") =>
        \A r \in Events : state[r] # "pending"
=============================================================================
