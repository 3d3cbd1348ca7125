# A verification of the meeting room booking system

TLA+ models of the booking system, TLC runs over small instances of them, and
TLAPS proofs that hold for every instance. Paths are relative to the
repository's root (`src/` of this tree).

## The system

Two Go services, each with a PostgreSQL database, and a Kafka topic between them.

```
client ──HTTP──> booking-service ──tx──> bookings + outbox (PostgreSQL)
                     relay goroutine <──── outbox (FOR UPDATE SKIP LOCKED)
                          └──> topic booking.events ──> consumer goroutine
client <──SSE── hub <──────────── notification-service ──> notifications (PostgreSQL)
client ──HTTP──> notification-service (list, mark as read)
       both services trust the tokens booking-service signs
```

| Component | State | Operations | Hard behaviour | What makes it correct |
|---|---|---|---|---|
| booking write path: `handlers/booking.go`, `service/booking`, `repo/booking`, migration 0005 | tables `bookings` and `outbox`, open transactions, connection pool | create, cancel, late update of the conference link | concurrent transactions decided by a partial unique index; the past check precedes the transaction; deadline and lost commit acknowledgements; diagnosis on a second connection | one active booking per slot; exactly one event per change; only the owner cancels; answers agree with the tables; nobody waits in a circle |
| outbox and relay: `repo/outbox`, `outbox/relay.go`, `cmd/main.go` | `sent_at` of rows, the batch a relay transaction has locked, the queue of `kafka.Writer` | poll, publish a batch, mark it, drain on a signal | publish and mark are not atomic; `created_at` is not commit order; the drain runs beside the shutdown of HTTP; several processes | nothing uncommitted or unpublished is passed off as published; order within a booking; every event is published; shutdown ends |
| consumer: `kafka/consumer.go`, `service/notification`, `repo/notification`, `cmd/main.go` | table `notifications`, committed offset, position of the reader | fetch, insert, broadcast, commit; mark as read | repeated delivery, failed inserts and commits, rejoin, signal in the middle of a message | broadcast at most once, no lost notification without a failure, read stays read, no message blocks |
| SSE hub, tokens, stream: `hub/`, `handlers/sse.go` | subscriptions and their channels, one-time tokens with a lifetime | subscribe, unsubscribe, broadcast, issue, consume | full channels, a snapshot of subscriptions used after the lock, expiry against use | a token is used once; the limit per user holds; who is slow does not stop the others |
| schedules and slots: `handlers/schedule.go`, `handlers/slot.go`, `service/slot`, `repo/slot`, `repo/schedule` | tables `schedules` and `slots` | create a schedule, generate and list the free slots of a day | requests generate the same day at once and wait for each other's rows; boundaries of the working time | a half hour is stored once, days are stored whole, lists are complete, nobody waits in a circle |
| lists: `ListBookings`, `ListUserBookings`, `ListByUserID` | none | pages and totals | pages over a changing table, empty pages; a list beside a stream | who walks through the pages misses nothing; lists agree with earlier answers; list and stream leave no gap |
| authentication, users: `handlers/auth.go`, `service/auth`, `repo/auth`, `pkg/jwt`, middleware of both services | table `users`, signed tokens | register, login, dummy login, the checks before a call | racing registrations, lost answers and retries, tokens that outlive what they were signed from | an acknowledged account is the only one of its e-mail and can log in; tokens name accounts; calls are made in a right that was given |
| rooms, configuration, metrics, migrations | table `rooms`, counters | single statements | none | nothing that relates two steps |

The first component calls PostgreSQL only; the relay shares table `outbox` with
it; relay and consumer share the topic; the consumer calls the hub. In every
process one cancelled context (SIGTERM) reaches the goroutines at once.

## Modules

| Module | What it is |
|---|---|
| `SlotLedger` | abstract specification of the write path: a ledger of bookings, booked and cancelled in one step each, every change announced in the same step |
| `BookingService` | the write path: one action per round trip to the database |
| `BookingServiceProofs` | theorems about `BookingService`, with proofs |
| `OutboxRelay` | outbox rows from their transaction to the topic; start, shutdown and crash of the processes |
| `NotificationConsumer` | the consumer and the notifications, from the topic to hub and database |
| `EventTopic` | abstract specification of the topic: announced facts are finally published, and perhaps again |
| `EventDelivery` | abstract specification of both services: announced, then known to the owner, then shown at most once |
| `EventPipeline` | `EventTopic` and `NotificationConsumer` composed |
| `NotificationHub` | tokens, subscriptions, bounded channels and SSE streams, and the broadcasts through them |
| `RoomSlots` | the schedule of a room, and the slots of a day: generation, concurrent insertion, the list of the free ones |
| `Reconnection` | `NotificationHub` with the table behind it: a client that reconnects and lists what it missed |
| `BookingLists` | the two lists of bookings over `BookingService` |
| `Accounts` | registration, login, tokens, and the checks before a call |
| `AccountsProofs` | theorems about `Accounts`, with proofs |
| `OutboxRelayProofs`, `NotificationConsumerProofs`, `EventPipelineProofs`, `RoomSlotsProofs`, `BookingListsProofs` | theorems about the module each is named after, with proofs |
| `NotificationHubProofs` | theorems about `NotificationHub` and `Reconnection`, with proofs |
| `MC...` | values and symmetry for TLC |

```
SlotLedger <── implements ── BookingService <── extends ── BookingLists
EventDelivery <── implements ── EventPipeline = EventTopic + NotificationConsumer
                                EventTopic <── implements ── OutboxRelay
NotificationHub <── extends ── Reconnection        RoomSlots        Accounts
```

Operators whose comment begins with *Defect* are variants of the operator after
them with a plausible programming error in it. No action uses them; they are
there to check that each property can tell the code from the code with that error.

### BookingService

A request is a call of `createBooking` or `cancelBooking`; `pc[r]` is the
round trip it does next.

| Step | Code |
|---|---|
| `Arrive`, `Malformed` | the handler up to the service call |
| `GetSlot` | `GetSlotByID` and the check `slot.StartAt.Before(now)` |
| `Begin`, `Insert`, `InsertOutbox`, `Commit` | the transaction of `Repo.CreateBooking` |
| `Begin`, `Update`, `InsertOutbox`, `Commit` | the transaction of `Repo.CancelBooking` |
| `Diagnose` | `diagnoseCancelFailure`, after the rollback |
| `RequestLink`, `UpdateLink`, `LinkFails` | conference client and `UpdateConferenceLink` |
| `CommitUnacknowledged`, `LateCommit`, `LateAbort` | the deadline passes or the connection breaks before `tx.Commit` returns: 500, and what PostgreSQL later makes of the COMMIT |
| `Fail`, `Crash`, `Tick` | database error or deadline, death of the process, time |

`bookings` and `outbox` hold committed rows, `tx[r]` the uncommitted writes of
`r`, `conns` the requests that hold a connection. A booking is named by the
request that inserts it, as the code draws a fresh identifier. PostgreSQL is
modelled as the statements need it at READ COMMITTED: `InsertWaitsFor` (a unique
index entry waits for the transaction of a conflicting one), `RowLocked` (an
UPDATE waits for the row). A wait on a row that has changed is evaluated again
when it ends, which is what re-checking the WHERE clause does. `req`, `arrived`
and the `by` of events are kept to state properties.

The context given to `tx.Commit` ends the wait for the COMMIT, not the COMMIT. A request
whose wait has ended is answered 500 and is at "sent" (so is one whose process died
there, without an answer): its writes stay open, others go on waiting for its index entries
and rows, and PostgreSQL applies the transaction (`LateCommit`) or finds the connection
closed (`LateAbort`), at any later time.

Left out: the foreign key error of the INSERT (slots are never deleted), the
request body beyond "parses or not", and the wording of errors.

### OutboxRelay

`state[r]` is a row's life (absent, open, pending, sent); `stamp[r]` its
`created_at`, taken when the transaction begins, so that later commits may have
earlier stamps. `Fetch`, `Publish`, `Mark` are `ProcessBatch` and `WriteMessages`;
`batch[p]` are the rows the relay's transaction has locked. `kafka.Writer` is a
queue: when the context of `WriteMessages` ends, the queue stays and may still
be written (`ContextEnds`); when writing fails, the batch is given up
(`BatchFails`), and what an interrupted `WriteMessages` had left before it is kept or
fails with it (`LeftBefore`); when only the acknowledgement is lost, it is written again
(`Resend`). An error may be that of a commit that was applied; here, other than in
`BookingService`, it is applied or aborted in that step. `Signal`,
`StartDrain`, `EndDrain`, `CloseHTTP` and `Stop` are `Run` and `main`; the drain
and the closing of HTTP are not ordered, since both follow from the same
context. `Crash` also stands for the time limits after which `main` gives up.

`fetched` remembers which processes have fetched a batch: the order within a
booking (`PerBookingOrder`) and that marked rows stay marked (`SentIsFinal`) are stated for
histories in which one relay worked (`OneRelay`), everything else for any number.

The topic is one log. Events of one booking share a partition (key
`booking_id`), so nothing is lost for the order within a booking.

### NotificationConsumer

`position` is the reader's, `committed` the group's. `Fetch`, `Insert`,
`Broadcast`, `Commit` are the loop of `Run` with `CreateFromEvent` unfolded;
`InsertFails` goes on to the commit, as the code does; `CommitFails` and
`FetchFails` end `Run`, and `Retry` is the loop in `main` that calls it again
with the same reader. `Rejoin` sets the reader back to the committed offset. After
the signal an INSERT may fail, a commit may or may not take effect, and
`FetchMessage` may still return a message: `select` chooses among ready cases
at random. `readers` is kept to state a property.

### EventTopic, EventDelivery, EventPipeline

`EventTopic` is what a consumer may rely on. `OutboxRelay!ImplementsTopic` shows that
transactions and relays keep to it (`announced` are the committed rows);
`EventPipeline` puts it in the place of `NotificationConsumer`'s unrestricted `Produce`,
with messages of others as noise. `ImplementsDelivery` maps `known` to the rows of
table `notifications` and `shown` to the broadcasts. `skipped` remembers the events whose
INSERT has failed, the only ones `EveryFactKnown` excepts. The fairness of
`EventTopic`, that an announced fact is published, is `OutboxRelay!EveryEventSent`.

### NotificationHub

| Step | Code |
|---|---|
| `Issue`, `Consume`, `Cleanup` | `TokenStore`; each is one step, as it runs under the store's mutex |
| `Subscribe`, `Leave` | `Hub.Subscribe` and the function it returns, deferred by the handler |
| `Greet`, `Take`, `Write`, `Disconnect` | the loop of `streamNotifications`; a write that fails or meets its deadline, a failed ping and a client that goes away all end it |
| `Broadcast`, `Send` | the copy of the subscriptions under the lock, then one send with `default` after another without it |
| `Tick`, `Restart` | time, and the end of the process, which empties tokens and subscriptions |

A notification is its number in the order of the broadcasts; one broadcast ends
before the next begins because the consumer is one goroutine. `subs[u]` is a
set: its order, which `unsubscribe` changes, decides nothing but the order of the
sends of one broadcast, and every order is considered. `issued`, `token`, `since`,
`shown` and `dropped` are kept to state properties. Pings are left out except where
they fail. What a stream that has ended held is forgotten (`Forget`).

### Reconnection

`Insert` and `BroadcastInserted` are the two steps of the consumer, with the table
`rows` between them; `EndProcess` may come between the two, and leaves a row that is
never broadcast. `List` is GET `/notifications` with `unread_only`, as the client of an open
stream may call it, at any time and again: one SELECT, of which it gets the newest `ListLimit`
unread rows (`Pages`; the limit is 20 by default and 100 at most, the offset 0). `MarkAsRead`
takes one unread row, or all of a user, off the later lists. `created_at` is the
clock of the service when the one consumer goroutine handles an event, so that rows are taken
to be created in the order of their INSERTs. `TASK_EXTENDED.md:191` tells clients
to ask for this list. `NothingMissed` says what list and stream give together: every unread row
is on the list, has reached the stream, is about to be broadcast, or is older than a page
that is full. The last is what the limit leaves out; the `total` of the answer tells the client so.

### BookingLists

`Write` is any step of `BookingService`; `created_at` is the time of the BEGIN, so that a
creation gets its stamp (`createdAt`, a number that only `begins` counts up) when its
transaction begins and its row appears later, in any order. `Place` is a row's number in the
SELECT of `ListBookings`, ORDER BY `created_at` DESC, `Page` its LIMIT and OFFSET, `Total` its
window count; `UserList` is the SELECT of `ListUserBookings`. No two rows have one
`created_at`, which the database keeps to the microsecond: with equal times the order of the
SELECT would be open. `StartWalk` and `NextPage` are an administrator who asks for page after page
while the last total says that there are more; `walk.due` are the rows there were at the start.
A list that fails changes nothing and is left out.

### Accounts

| Step | Code |
|---|---|
| `Malformed` | every 400 before the service is called |
| `Register`, `CreateUser` | `register` and the one INSERT; its answer may be lost |
| `LogIn`, `GetUserByEmail`, `Compare` | `login`, the SELECT, then bcrypt and `GenerateToken` |
| `LoginAsDummy` | `DummyLogin`, which asks no table |
| `CallEndpoint` | `Auth` and `RequireRole` before a handler of either service |
| `Fail`, `Tick` | an error, a deadline or a crash; time |

A token is the record of its claims: signatures are sound, and whatever is not
signed with the secret is no token (None). The two spellings of the header's scheme
the services accept are not told apart. Passwords are compared as bcrypt does, up
to the 72 bytes a registration accepts.

### RoomSlots

`rooms`, `schedules`, `slots` and `booked` are the tables; a slot row is told by the
request that drew its uuid. `CreateSchedule` is the handler with its checks,
`InsertSchedule` the statement; `ListSlots`, `RoomExists`, `GetSchedule`, `InsertRow`,
`EndInsert` and `List` are `listSlots` down to the three repositories. `EnsureSlots` is one
statement of many rows: it writes them in order (`todo`), they stay invisible
(`held`) until it ends, and a row whose index entry another statement has
written waits for that statement (`WaitsFor`) and is then passed over if it was
committed (`Met`). `Book` and `CancelBooking` are single steps here; `BookingService`
has their detail. Times are minutes, day 0 is a Sunday.

`OpenStarts`, against which the lists and the stored days are checked, is stated
from the calendar (half hours of the day, weekday by remainder) and shares no
definition with `GenerateSlots` and `IsDayInSchedule`.

## Runs

| Run | Instance | Shows |
|---|---|---|
| `booking_races` | 4 requests, 1 slot, 2 users, 2 connections, the clock stands still, symmetry, `MCSpec` | `NoDoubleBooking`, `OutboxMirrorsBookings`, `CancelledByOwner`, `AnswersMatchTables`, `NoHoldAndWait`, `NeverAllWait`, `RowsOnlyAdvance`, `ImplementsLedger` |
| `booking_clock` | 2 requests, 2 slots, 2 connections, 2 older bookings, time 0..2, deadline 1, pages of 1 and 2, `ListSpec` | `LateBookingUnacknowledged`: a booking can appear after its slot has begun, but by more than the request's deadline only if its client was told 500, or nothing; `EveryRequestAnswered`; `WalkSeesAll`, `ListsMatchAnswers` |
| `booking_foreign_cancel` | 2 requests, 1 slot, 2 users | violation, see Findings |
| `relay_shared` | 2 processes, 1 booking (2 events), batches of 2, times 0..2, 2 failures, `FairSpec` | `SentWasPublished`, `PerBookingOrder`, `PublishedOnce`, `SentIsFinal`, `ImplementsTopic`, `EveryEventSent`, `ShutdownEnds` |
| `relay_clean_shutdown` | 1 process, 1 booking, no failure | violation, see Findings |
| `consumer_delivery` | 1 booking (2 events) and two kinds of noise, 3 messages, 2 users, 2 failures, `PipelineSpec` | `BroadcastAtMostOnce`, `LossHasItsFailure`, `ReadIsSticky`, `ImplementsDelivery`, `EveryFactKnown`, `ShutdownEnds` |
| `consumer_failed_insert`, `consumer_stop` | 2 messages | violations, see Findings |
| `hub_streams` | 3 streams, 3 tokens, 2 users, 2 subscriptions per user, channels of 1, 2 notifications, lists of 1 row for up to 2 streams, symmetry, `MCSpec` | `NothingMissed`, `TokenOpensOneStream`, `SubscribedWhileOpen`, `ShownInOrder`, `NotesAccounted`, `BroadcastNeverWaits` |
| `hub_overflow` | 1 stream, channel of 1 | violation, see Findings |
| `accounts` | 4 requests, 3 e-mails (2 of the seed), 2 passwords, 3 endpoints, lifetime 2, time 0..2, symmetry | `RegistrationsAnswered`, `LoginsAnswered`, `TokensNameAccounts`, `CallsInRight` |
| `room_slots` | 3 requests about 1 room, a Sunday and a Monday, windows of 1 and 2 slots, `FairSpec` | `SlotsDisjoint`, `DayIsWhole`, `CreatedScheduleStays`, `ListIsComplete`, `EveryRequestAnswered` |

### Bounds

* Four requests over one slot allow create, cancel, create again and one more
  racing with any of them; a double booking needs two creations and, for its
  most devious forms, a cancellation and a late link update besides. Two
  connections make requests wait for the pool. The theorems lift these bounds.
* `MaxTime` = 2 lets time pass the start of the slot and the deadline of a request
  that came before it; a booking is created at each side of both.
* Two rows older than every request and two requests give walks of up to four pages of
  one row, of which the client may ask for two before `parsePagination` refuses,
  and pages of two that new rows shift.
* Two processes, one booking and batches of two give batches that hold one event
  of the booking or both, rows locked by the other relay, late commits and aborted
  transactions. Two failures give a failure in the recovery from another. No
  property of the relay speaks of two bookings.
* Three messages give both events of a booking with either repeated or noise
  between; the reader besides goes back to the committed offset, so that each
  can be met any number of times.
* Four requests to the accounts are two registrations that race for an e-mail, a
  login and a call with its token. Three endpoints stand for the three kinds of
  rights. The theorems lift these bounds.
* Three streams of a user meet the limit of two subscriptions while one leaves;
  two notifications fill a channel of one; a lifetime of 0 puts the instant
  after the last valid one in reach of one tick. Capacity (16), limit (10) and
  lifetime (30 s) enter the code only in the comparisons the small values reach.
  Two rows and lists of one give a full page and a row behind it. `MCSpec` joins
  two halves in one run (`MCBound`): all three streams and the passing of time without
  lists, and lists and marks while one stream is still new and the clock stands at 0, so that two
  clients, or one that comes back, meet any order of INSERT, broadcast, list and mark.
* Three requests are one that creates a schedule and two that race for a day, or
  two that race for the schedule and one that lists; windows of two slots let
  statements hold one row and want another.
* `MaxClock`, `MaxFailures`, `MaxMessages`, `MaxNotes` and `MaxTime` bound the models only;
  they appear in guards of `BeginTx`, the failure actions, `Produce`, `WriteMore`, `Broadcast`,
  `Insert` and `Tick`.

### Fairness

Weak fairness of the steps of a goroutine that has one to take: the Go
scheduler runs it and the database or the broker answers; PostgreSQL also ends the
transactions nobody waits for (`Resolve`), one way or the other. No failure, signal,
start, client or time step is fair. `EveryRequestAnswered`, of both modules, does
not use the deadline: waits resolve without it. For the relay `Fetch` is fair because the
ticker goes on; `EveryEventSent` assumes a process that runs again and again,
`EveryFactKnown` a notification service that finally stays up.
`PipelineSpec` adds the fairness of `EventTopic`.
Failures are finitely many in these runs, as nothing can be promised otherwise.

## Findings

* **Cancelling someone else's booking is 404** (`booking_foreign_cancel`).
  `booking-service/api.yaml:737` and the test `booking_integration_test.go:117` say
  403; `diagnoseCancelFailure` (`repo/booking/booking.go:170`) returns
  `ErrBookingNotFound`. `booking-service/README.md:242` describes the 404 as intended.
* **A clean shutdown can leave pending events** (`relay_clean_shutdown`).
  `cmd/main.go:131` and `:142` say HTTP is stopped first and the relay then drains without
  the risk of new rows. The signal wakes both at once; a handler may commit
  after the relay has drained. The rows are published at the next start.
* **A failed INSERT loses the notification** (`consumer_failed_insert`).
  `TASK_EXTENDED.md:193` says the offset is not committed and Kafka repeats the message;
  `consumer.go:60-73` commits and goes on. `LossHasItsFailure` shows how far it goes: each
  notification that is not stored, or stored and not broadcast, has cost a failure of its own.
* **A signal may leave the message at hand uncommitted** (`consumer_stop`).
  `notification-service/README.md:198` says it is completed and committed. It is delivered
  again at the next start, which `BroadcastAtMostOnce` shows to be harmless,
  unless its INSERT failed and the commit still took effect: then it is lost.
* **A client whose channel overflows stays connected** (`hub_overflow`).
  `TASK_EXTENDED.md:101` says it is disconnected; `hub.go:61` drops the notification and
  goes on, and the client is not told. `NotesAccounted` shows that nothing but a
  full channel loses a notification for an open stream.

## Proofs

`BookingServiceProofs` proves, for every set of requests, slots and users, every
pool size and every deadline:

| Theorem | Statement |
|---|---|
| `Invariance` | `Spec => []Inv` |
| `TypeCorrectness` | `Spec => []TypeOK` |
| `SlotHasOneHolder` | `Spec => []NoDoubleBooking` |
| `OutboxIsExact` | `Spec => []OutboxMirrorsBookings` |
| `OwnerCancels` | `Spec => []CancelledByOwner` |
| `RowsAdvance` | `Spec => RowsOnlyAdvance` |
| `Refinement` | `Spec => ImplementsLedger` |
| `WaitersHoldNothing` | `Spec => []NoHoldAndWait` |
| `NoDeadlock` | `Spec => []NeverAllWait` |
| `LateByTimeout` | `Spec => LateBookingUnacknowledged` |
| `AnswersStayTrue` | `Spec => []AnswersMatchTables` |
| `CreationCommittedFirst` | `Spec => []KnownCreated` |
| `LedgerKeepsItsWord` | `Ledger!Spec => []LedgerWord` |

Assumptions: `NoneAssumption` and `RequestAssumption` (None is no identifier, no row and no
request), `ClockAssumption` (times are natural numbers), `PoolAssumption` (at least one connection).

`NoDoubleBooking` is not inductive: that a commit adds a second active booking
must be excluded by what its transaction did earlier. `Inv` therefore adds

* `Control`: which steps a request can be at for what it asks;
* `Transactions`: which uncommitted writes a request has at each step;
* `Rows`: a row belongs to the creation that made it;
* `PendingInserts`: while an insert is uncommitted its slot has no active booking
  and no other uncommitted insert or cancellation, which is what the unique
  index and its waits give;
* `PendingCancels`: while a cancellation is uncommitted its row is active, owned
  by the canceller, and no other request has an uncommitted cancellation of it;
* `EventsHaveRequests`: each event was written by a request of its kind.

Three more invariants stand on `Inv`. `Connections`: only a request at a statement of its
transaction, or at the late update, has a connection. `Deadlines`: a call that carries the
request's context is within its deadline, and a creation past the check arrived before the
start; together they say that a row somebody waits for appears within the deadline, and
later ones only by a COMMIT nobody waits for. `AnswerInv`: what each answer promises
(`Truthful`), which later steps keep because rows only advance and because a request that
has ended writes no more (`Authors`); a cancellation's booking stays (`Known`), and whoever is
to be told why it failed finds a cancelled one (`Diagnosed`).

`NoDeadlock` says for every size of the pool what `EveryRequestAnswered` needs of the state.
Whoever waits for an index entry or a row waits for a transaction with uncommitted writes, which
is about to write its event or to commit (`Transactions`) and waits for nobody. If there are no
uncommitted writes only connections are waited for, and their holders are at statements
(`Connections`). A cancel that kept its connection while it diagnosed would break the
second half.

`CreationCommittedFirst` joins the models of two components: `OutboxRelay!BeginTx` begins the
transaction of a cancellation only once that of the creation is committed, which here follows
from `Known` and `OutboxMirrorsBookings`, and rests on `Arrive`: a client knows
a booking only once it is committed, since its identifier is a fresh uuid. `LedgerKeepsItsWord` shows that the abstract
specification means what is said of it: one holder per slot, and exactly its changes announced.

There is one lemma per action, and under it a step per conjunct the action can
disturb. The refinement maps each row to its slot, owner and status, and each
event to its type and booking; `Commit` and `LateCommit` are `Book` or
`Cancel`, everything else is a stutter.

`AccountsProofs` proves, for every set of requests, e-mails, passwords and endpoints,
every lifetime and clock:

| Theorem | Statement |
|---|---|
| `AccountsInvariance` | `Spec => []Inv` |
| `AccountTypes` | `Spec => []TypeOK` |
| `RegistrationsHold` | `Spec => []RegistrationsAnswered` |
| `LoginsHold` | `Spec => []LoginsAnswered` |
| `TokensHold` | `Spec => []TokensNameAccounts` |
| `CallsHold` | `Spec => []CallsInRight` |

Assumptions: `SeedAssumption` (the two dummy accounts are two, with different e-mails, and
no registration draws their uuid), `ConstantsAssumption`, `NoneAssumption`.

The properties speak of answers given in the past and rows of now. Its `Inv` adds
`OneAccountPerEmail`, so that the row a login reads is the one that was
acknowledged; `OwnRows` and `ControlOf`, that the request behind a row or a token is done
and never changes again; `KnownOf`, that what a login could know when it arrived is in
the table; `TokenOf`, that a token expires a lifetime after it was signed and names a row
with its role. `StepFrame` and `OthersStay` show once that a step leaves the other requests
alone; each action then has a lemma about its own request.

`OutboxRelayProofs` proves, for every finite set of bookings, any number of processes,
failures and records, and any size of the batches:

| Theorem | Statement |
|---|---|
| `RelayInvariance` | `Spec => []Inv` |
| `RelayTypes` | `Spec => []TypeOK` |
| `MarkedIsPublished` | `Spec => []SentWasPublished` |
| `OrderOfBooking` | `Spec => []PerBookingOrder` |
| `MarkedIsFinal` | `Spec => SentIsFinal` |
| `PublishedOncePerFailure` | `Spec => []PublishedOnce` |
| `ImplementsEventTopic` | `Spec => ImplementsTopic` |
| `NothingIsStuck` | `Spec => [](PendingIsReachable /\ StoppingGoesOn)` |

Assumptions: `RelayAssumption`, of which the proofs need that bookings are finitely many, so
that a batch can be put in order. That a marked row is in the topic rests on `Locked` (the
rows of a batch are pending and no other relay has them), `Handed` (each is in the topic or
in the writer's queue) and `AtWork` (a relay that marks has an empty queue). The order within a
booking is carried by `Chained` (the cancellation has the later stamp, and a committed creation
before it), which gives the order of the records of a batch, then by `InQueue` (what is
queued keeps it, whatever was left there by an interrupted batch, and whatever beginning of it
a failed batch leaves), and so to the topic.

`PublishedOnce` counts. `Budget` says that the copies of a row, in the topic and in the queues of
all writers, are no more than the failures, and one more once a batch has taken the row: a
batch takes a row that is not taken, and every way a row is given back or written again
costs a failure. `QueuedCommitted` then gives the refinement: commits are announcements,
records written to the topic are of announced events, everything else is a stutter.

`NothingIsStuck` is the safety under `EveryEventSent` and `ShutdownEnds`. `PendingIsReachable`: a
pending row is locked by a relay at work, which has a step to take, or can be fetched by every
process that runs; `StoppingGoesOn`: a process that has been signalled has a step of its relay or
of its shutdown, or a handler's transaction has yet to end. It needs that there always is a batch
to fetch. The code's `ORDER BY created_at LIMIT` is a choice among sets and sequences here, and
that the choice is never empty (`RowsCanBeOrdered`, `BatchExists`) is an induction over finite sets
of rows, made as a proof by the smallest counterexample (`LeastNumber`).

`NotificationConsumerProofs` and `EventPipelineProofs` prove, for every set of bookings and
users, any number of messages and failures:

| Theorem | Statement |
|---|---|
| `ConsumerInvariance` | `Spec => []Inv` |
| `ConsumerTypes` | `Spec => []TypeOK` |
| `ShownOnce` | `Spec => []BroadcastAtMostOnce` |
| `ReadsStay` | `Spec => ReadIsSticky` |
| `PipelineInvariance` | `PipelineSpec => []PipelineInv` |
| `LossBounded` | `PipelineSpec => []LossHasItsFailure` |
| `DeliveryRefinement` | `PipelineSpec => ImplementsDelivery` |
| `PipelineConsumer` | `PipelineSpec => []BroadcastAtMostOnce /\ ReadIsSticky` |
| `TruthIsTold` | `PipelineSpec => []ToldInOrder` |
| `NoEventOutOfReach` | `PipelineSpec => []WithinReach` |

Assumptions: `ConsumerAssumption`. A broadcast is the first because of `FirstBroadcast`: the
INSERT before it has added the row, and nothing but the consumer adds rows or broadcasts;
`ReadByOwner` says who may have marked a row. For the composition `FromBookings` (what is in
the topic or stored was committed), `InOrder` (every message before the committed offset,
before the position and before the one at hand is stored or was skipped) and
`MissedFailed` (events whose INSERT failed once, or that are stored and not broadcast, are no more
than failures) make the invariant inductive. The
refinement maps `known` to the stored rows and `shown` to the broadcasts: an insert is the
learning of a fact, a broadcast its showing, the commit of booking-service its announcement,
everything else a stutter.

`MissedFailed` counts events against failures: without a failure nothing is missed
(`NothingMissedSilently`: an INSERT that adds its row leads to the broadcast, and a signal waits for
it), and a failure misses the event at hand only (`OneMissedPerFailure`). `TruthIsTold` is proved
of `EventDelivery` and carried over by the refinement: what is shown is stored, what is stored was
committed. `NoEventOutOfReach` is the safety under `EveryFactKnown`: an event without a
notification is ahead of the committed offset and of the position, or at hand, and a consumer
that runs has a step to take.

`NotificationHubProofs` proves, for any number of streams, tokens, users and notifications and
any limits:

| Theorem | Statement |
|---|---|
| `HubInvariance` | `Spec => []Inv` |
| `HubTypes` | `Spec => []TypeOK` |
| `TokenIsOneTime` | `Spec => TokenOpensOneStream` |
| `ChannelsOfTheLiving` | `Spec => []SubscribedWhileOpen` |
| `ClientsSeeInOrder` | `Spec => []ShownInOrder` |
| `NothingUnaccounted` | `Spec => []NotesAccounted` |
| `ChannelsBounded` | `Spec => []Bounded` |
| `InboxInvariance` | `InboxSpec => [](Inv /\ InboxInv)` |
| `InboxImplementsHub` | `InboxSpec => Spec` |
| `NoGapAfterTheList` | `InboxSpec => []NothingMissed` |

Assumptions: `HubAssumption`, `NoneAssumption`; nothing is asked of the limit of the list. `Spent` says that a token which has opened a
stream is gone from the store, where it cannot come back; `Entries` that the store's expiry
is that of the issue. `Ordered` puts what a stream has shown, what it writes, what its channel
holds and what the broadcast under way has yet to send to it in one order, one after another,
which is what a copied list of subscriptions could break. `FiniteSubs` lets subscriptions be
counted against the limit. `Bounded` (no channel beyond its capacity) is the fact behind
`BroadcastNeverWaits`: one of the two ways a send can go is always open.

`InboxInv` joins table and broadcasts for a client that reconnects: the consumer broadcasts one
row after the other (`OneAtATime`), to the user of the row (`OfItsUser`), and an unread row that is
neither on the list of a client nor behind its full page is broadcast after the subscription
of its stream or is about to be (`Unlisted`). A row inserted after the list is of the
second kind; one inserted before is on the page or behind it (`ListInbox`).
That the consumer with its table drives the hub as the hub alone allows
(`InboxImplementsHub`) makes the theorems above theorems about it.

`RoomSlotsProofs` proves, for any number of requests and rooms, any days and windows:

| Theorem | Statement |
|---|---|
| `SlotsInvariance` | `Spec => []Inv` |
| `SlotTypes` | `Spec => []TypeOK` |
| `SlotsApart` | `Spec => []SlotsDisjoint` |
| `ScheduleStays` | `Spec => []CreatedScheduleStays` |
| `DaysInvariance` | `Spec => [](Inv /\ DayInv)` |
| `DaysWhole` | `Spec => []DayIsWhole` |
| `ListsComplete` | `Spec => ListIsComplete` |
| `WaitsEnd` | `Spec => []NoCircularWait` |

Assumptions: `TimeAssumption`, `NoneAssumption`. Slots that are committed one by one are
disjoint because of what was written before: `Unique` says that rows, committed or held by open
statements, are of different half hours, `HeldFirst` and `TodoInOrder` that a statement writes its
half hours in order, each once, and `HalfHours` and `Windows` that slots begin at half hours, so
that two of them are the same or apart. `Acknowledged` is the schedules' part.

`DayInv` is about whole days. First the arithmetic, as lemmas: the weekday of the code and that
of the calendar agree (`Weekdays`), and the windows of `GenerateSlots`, an iteration in the code and a
sequence here, are exactly the open half hours of the calendar (`WindowFilled`,
`GeneratedDay`). Then, of a statement under way, `OnlyOpen` (it has nothing but open half hours)
and `Covered` (each open one is in the table, written by it, or yet to be), which is what makes
the day whole when it ends (`Whole`), whatever it has passed over because another
request's statement committed it first.

`NoCircularWait`: a statement that waits for the index entry of another's row is waiting, directly
or through others, for one that goes on. Whom it waits for has written that row and has its own
next one further on in the same day (`WaitsAscend`, from `HeldFirst` and the arithmetic of days); of
the statements of a day that wait, the one furthest on therefore waits for one that does not
(`FurthestGoesOn`). Rows written in any other order would allow the circle, as the run shows with
such a variant of `InsertRow`.

`BookingListsProofs` proves, for any requests and older bookings, any page sizes and any
number of pages:

| Theorem | Statement |
|---|---|
| `ListsOverWritePath` | `ListSpec => Spec` |
| `ListInvariance` | `ListSpec => [](Inv /\ ListInv)` |
| `WalkMissesNothing` | `ListSpec => []WalkSeesAll` |
| `ListsKeepTheirWord` | `ListSpec => []ListsMatchAnswers` |

Assumptions: `PageAssumption` (sizes and page numbers are positive), `ArchiveAssumption` (the
older bookings are finitely many, are no request's, and have times of their own before
every request's), besides those of the write path. `Stamps` says that a
row's time is its own, and given before the row can appear; since rows stay and keep their
times, a row's place only grows (`PlacesGrow`), and what a walk has yet to see stays on the
pages before it (`Ahead`). That the last total ends the walk rightly needs that places are
contiguous (`PlacesAreContiguous`): only a page past the last row is empty and has no total.
`ListsMatchAnswers` follows from `AnswersStayTrue`, `OutboxIsExact` and `Sources` (a cancellation is
announced for a request that asked for it).

The type invariants of the write path, the accounts, the relay, the consumer, the hub and the
slots are all theorems.

Only model-checked: liveness (`EveryRequestAnswered`, `EveryEventSent`, `ShutdownEnds`,
`EveryFactKnown`), and `BroadcastNeverWaits`, which is about ENABLED. Both are out of the
prover's reach. Of each liveness property the part that is about states is a theorem:
`NoDeadlock` and `WaitsEnd` (`EveryRequestAnswered` of the two modules), `NothingIsStuck`
(`EveryEventSent`, `ShutdownEnds` of the relay), `NoEventOutOfReach` (`EveryFactKnown`) and
`ChannelsBounded` (`BroadcastNeverWaits`). Their predicates `Waits`, `CanWork` and `CanShutDown` repeat
the guards of the actions they speak of, and TLC finds them equivalent to ENABLED of these
actions on the instances of the runs. What remains to TLC is that fairness takes the steps
that are open, and that they finally lead to the end. Every other invariant and action
property of the passing runs is a theorem.

## Not modelled

* The later pages of `GET /notifications`. Unread pages shift when rows are marked as
  read or inserted between two requests, so that a client that goes on by offset may skip or repeat
  some; no document promises otherwise, and `NothingMissed` speaks of the first page.
* The list of rooms, one SELECT that nothing else depends on.
* Configuration, metrics and logging, which decide nothing; migrations beyond the
  tables and constraints the models take from them.
* Bookings beyond page 10000 of the administrator's list: no request reaches them, and
  `WalkSeesAll` speaks of walks that end before that.
* The sizes of payloads, partitions other than the one of a booking, and the loss of
  data by PostgreSQL or Kafka themselves.

## Plan

What is left: the later pages of the notification list (see above), and the composition
of `BookingService` with `OutboxRelay` as one module, of which `CreationCommittedFirst` is the
part that the relay relies on.
