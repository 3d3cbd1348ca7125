-------------------------- MODULE OutboxRelayProofs --------------------------
(***************************************************************************)
(* Proofs about OutboxRelay for any number of bookings, processes and      *)
(* failures, and any size of the batches.                                  *)
(*                                                                         *)
(* A row is marked by the relay that has locked it, and only when its      *)
(* writer's queue is empty: then every row of the batch is in the topic.   *)
(* The order within a booking is carried from the stamps of the rows to    *)
(* the batch, from there to the queue, and from the queue to the topic.    *)
(*                                                                         *)
(* A row that is in the topic more than once has cost failures: Budget     *)
(* holds its copies, in the topic and in the queues, against them, and     *)
(* keeps room for one while a batch may still take the row.  With it, and  *)
(* with QueuedCommitted, the relays implement EventTopic.                  *)
(*                                                                         *)
(* At the end, why nothing is stuck: what a relay needs to fetch a batch   *)
(* and a shutdown to end is always there or under way.                     *)
(***************************************************************************)
EXTENDS OutboxRelay, FiniteSetTheorems, WellFoundedInduction, TLAPS

Cancelled(b) == [type |-> "cancelled", booking |-> b]

Queued(p) == {queue[p][i] : i \in 1 .. Len(queue[p])}

Busy(p) == relay[p] \in {"publish", "mark"}

\* What a relay is at and what it has locked and queued.
AtWork ==
    \A p \in Processes :
        /\ relay[p] = "publish" => queue[p] # <<>>
        /\ relay[p] = "mark" => queue[p] = <<>>
        /\ Busy(p) => batch[p] # {} /\ p \in fetched
        /\ ~Busy(p) => batch[p] = {}
        /\ phase[p] \in {"stopped", "crashed"} => relay[p] = "off"
        /\ p \notin fetched => queue[p] = <<>>

\* Locked rows are pending, and locked by one relay.
Locked ==
    \A p \in Processes, r \in Events : r \in batch[p] =>
        /\ state[r] = "pending"
        /\ \A q \in Processes : r \in batch[q] => q = p

\* The rows of a batch are in the topic or on their way to it.
Handed == \A p \in Processes, r \in Events : r \in batch[p] => r \in Published \cup Queued(p)

\* The event that cancels a booking is younger than the one that creates it,
\* which was committed before.
Chained ==
    /\ \A r \in Events : stamp[r] <= clock
    /\ \A b \in Bookings : state[Cancelled(b)] # "absent" =>
          Committed(Created(b)) /\ stamp[Created(b)] < stamp[Cancelled(b)]

\* The only relay there is has pending rows in its queue, the first of a
\* booking being the one that creates it.
InQueue ==
    OneRelay => \A p \in Processes : \A i \in 1 .. Len(queue[p]) :
        /\ state[queue[p][i]] = "pending"
        /\ \A b \in Bookings : queue[p][i] = Cancelled(b) =>
              \/ Created(b) \in Published
              \/ \E j \in 1 .. i - 1 : queue[p][j] = Created(b)

Inv ==
    /\ TypeOK /\ IsFiniteSet(fetched)
    /\ AtWork /\ Locked /\ Handed /\ Chained /\ InQueue
    /\ SentWasPublished /\ PerBookingOrder

-----------------------------------------------------------------------------
(* Sets and sequences of rows.                                             *)

\* There are finitely many events.
LEMMA FiniteEvents == IsFiniteSet(Events)
<1> DEFINE typed == [x \in {"created", "cancelled"} \X Bookings |-> [type |-> x[1], booking |-> x[2]]]
<1>1. {"created", "cancelled"} = {"created"} \cup {"cancelled"}
  OBVIOUS
<1>2. IsFiniteSet({"created", "cancelled"})
  <2>1. IsFiniteSet({"created"}) /\ IsFiniteSet({"cancelled"})
    BY FS_Singleton
  <2>2. IsFiniteSet({"created"} \cup {"cancelled"})
    BY <2>1, FS_Union
  <2> QED BY <1>1, <2>2
<1>3. IsFiniteSet({"created", "cancelled"} \X Bookings)
  BY <1>2, FS_Product, RelayAssumption
<1>4. typed \in Surjection({"created", "cancelled"} \X Bookings, Events)
  <2>1. typed \in [{"created", "cancelled"} \X Bookings -> Events]
    BY DEF Events
  <2>2. ASSUME NEW r \in Events
        PROVE  \E x \in {"created", "cancelled"} \X Bookings : typed[x] = r
    <3>1. <<r.type, r.booking>> \in {"created", "cancelled"} \X Bookings
      BY DEF Events
    <3>2. typed[<<r.type, r.booking>>] = r
      BY <3>1 DEF Events
    <3> QED BY <3>1, <3>2
  <2> QED BY <2>1, <2>2 DEF Surjection
<1> QED BY <1>3, <1>4, FS_Surjection

\* The records of a batch: every row once, in an order of their stamps.
LEMMA Records ==
    ASSUME NEW rows \in SUBSET Events, NEW q \in InOrder(rows), IsFiniteSet(rows)
    PROVE  /\ q \in Seq(rows) /\ q \in Seq(Events)
           /\ Len(q) \in Nat /\ (rows # {} => Len(q) # 0)
           /\ \A i \in 1 .. Len(q) : q[i] \in rows
           /\ \A r \in rows : \E i \in 1 .. Len(q) : q[i] = r
           /\ \A i, j \in 1 .. Len(q) : i < j => Earlier(q[i], q[j])
<1> DEFINE n == Cardinality(rows)
<1>1. n \in Nat /\ q \in [1 .. n -> rows]
      /\ \A i, j \in 1 .. n : i < j => q[i] # q[j] /\ Earlier(q[i], q[j])
  BY FS_CardinalityType DEF InOrder
<1>2. q \in Seq(rows) /\ q \in Seq(Events) /\ Len(q) = n
  BY <1>1
<1>3. q \in Injection(1 .. n, rows)
  <2>1. ASSUME NEW i \in 1 .. n, NEW j \in 1 .. n, q[i] = q[j]
        PROVE  i = j
    BY <1>1, <2>1
  <2> QED BY <1>1, <2>1 DEF Injection, IsInjective
<1>4. Cardinality(1 .. n) = n
  BY <1>1, FS_Interval
<1>5. q \in Surjection(1 .. n, rows)
  BY <1>3, <1>4, FS_Injection
<1> QED BY <1>1, <1>2, <1>5 DEF Surjection

\* A batch is a non-empty set of available rows, closed under earlier ones.
LEMMA BatchRows ==
    ASSUME NEW avail \in SUBSET Events, avail # {}, NEW rows \in FirstRows(avail)
    PROVE  /\ rows \subseteq avail /\ IsFiniteSet(rows) /\ rows # {}
           /\ \A r \in rows, q \in avail \ rows : Earlier(r, q)
<1>1. rows \subseteq avail /\ (Cardinality(rows) < BatchSize => rows = avail)
      /\ \A r \in rows, q \in avail \ rows : Earlier(r, q)
  BY DEF FirstRows
<1>2. IsFiniteSet(rows)
  BY <1>1, FiniteEvents, FS_Subset
<1>3. rows # {}
  BY <1>1, FS_EmptySet, RelayAssumption
<1> QED BY <1>1, <1>2, <1>3

\* One relay is one process.
LEMMA OnlyRelay ==
    ASSUME NEW set, IsFiniteSet(set), Cardinality(set) <= 1, NEW p \in set, NEW q \in set
    PROVE  p = q
<1>1. Cardinality(set) \in Nat
  BY FS_CardinalityType
<1>2. Cardinality(set) = 1
  BY <1>1, FS_EmptySet
<1> QED BY <1>2, FS_Singleton

\* A longer topic keeps its records.
LEMMA LongerLog ==
    ASSUME NEW s \in Seq(Events), NEW r \in Events
    PROVE  /\ Append(s, r) \in Seq(Events) /\ Len(Append(s, r)) = Len(s) + 1 /\ Len(s) \in Nat
           /\ \A i \in 1 .. Len(s) : Append(s, r)[i] = s[i]
           /\ Append(s, r)[Len(s) + 1] = r
OBVIOUS

\* The empty queue.
LEMMA EmptyQueue ==
    ASSUME NEW s \in Seq(Events)
    PROVE  s = <<>> <=> Len(s) = 0
OBVIOUS

\* s is the beginning of t.
StartOf(s, t) ==
    /\ s \in Seq(Events) /\ Len(s) <= Len(t)
    /\ \A i \in 1 .. Len(s) : s[i] = t[i]

\* A queue of which p's writer keeps a beginning.
Kept(p) ==
    \E kept \in Seq(Events) :
        StartOf(kept, queue[p]) /\ queue' = [queue EXCEPT ![p] = kept]

\* Where the records of a beginning are.
LEMMA StartParts ==
    ASSUME NEW t \in Seq(Events), NEW s, StartOf(s, t)
    PROVE  /\ Len(s) \in Nat /\ Len(t) \in Nat
           /\ \A i \in 1 .. Len(s) : i \in 1 .. Len(t) /\ s[i] = t[i]
<1>1. s \in Seq(Events) /\ Len(s) <= Len(t) /\ \A i \in 1 .. Len(s) : s[i] = t[i]
  BY DEF StartOf
<1>2. Len(s) \in Nat /\ Len(t) \in Nat
  BY <1>1
<1> QED BY <1>1, <1>2

\* All of a queue, nothing and the first records are beginnings of it.
LEMMA Starts ==
    ASSUME NEW s \in Seq(Events)
    PROVE  /\ StartOf(s, s) /\ StartOf(<<>>, s)
           /\ \A n \in 0 .. Len(s) : StartOf(SubSeq(s, 1, n), s)
<1>1. StartOf(s, s)
  BY DEF StartOf
<1>2. StartOf(<<>>, s)
  BY DEF StartOf
<1>3. ASSUME NEW n \in 0 .. Len(s) PROVE StartOf(SubSeq(s, 1, n), s)
  <2>1. n \in Nat /\ n <= Len(s) /\ Len(s) \in Nat
    OBVIOUS
  <2>2. SubSeq(s, 1, n) \in Seq(Events) /\ Len(SubSeq(s, 1, n)) = n
    BY <2>1
  <2>3. \A i \in 1 .. n : SubSeq(s, 1, n)[i] = s[i]
    BY <2>1
  <2> QED BY <2>1, <2>2, <2>3 DEF StartOf
<1> QED BY <1>1, <1>2, <1>3

\* A batch that ends, and a process that does, leave a beginning of the queue.
LEMMA QueueKept ==
    ASSUME TypeOK, NEW p \in Processes,
           queue' = queue \/ queue' = [queue EXCEPT ![p] = <<>>] \/ BatchFails(p)
    PROVE  Kept(p)
<1>1. queue[p] \in Seq(Events) /\ queue = [queue EXCEPT ![p] = queue[p]]
  BY DEF TypeOK
<1>2. StartOf(queue[p], queue[p]) /\ StartOf(<<>>, queue[p]) /\ <<>> \in Seq(Events)
  BY <1>1, Starts
<1>3. CASE queue' = queue
  BY <1>1, <1>2, <1>3 DEF Kept
<1>4. CASE queue' = [queue EXCEPT ![p] = <<>>]
  BY <1>2, <1>4 DEF Kept
<1>5. CASE BatchFails(p)
  <2>1. PICK kept \in LeftBefore(p) : queue' = [queue EXCEPT ![p] = kept]
    BY <1>5 DEF BatchFails
  <2>2. PICK n \in 0 .. Len(queue[p]) : kept = SubSeq(queue[p], 1, n)
    BY <1>1 DEF LeftBefore
  <2>3. StartOf(kept, queue[p])
    BY <1>1, <2>2, Starts
  <2> QED BY <2>1, <2>3 DEF Kept, StartOf
<1> QED BY <1>3, <1>4, <1>5

\* The queues after that.
LEMMA KeptQueues ==
    ASSUME TypeOK, NEW p \in Processes, Kept(p)
    PROVE  /\ queue' \in [Processes -> Seq(Events)]
           /\ \A q \in Processes : StartOf(queue'[q], queue[q]) /\ (q # p => queue'[q] = queue[q])
<1>1. PICK kept \in Seq(Events) :
         StartOf(kept, queue[p]) /\ queue' = [queue EXCEPT ![p] = kept]
  BY DEF Kept
<1>2. queue' \in [Processes -> Seq(Events)]
  BY <1>1 DEF TypeOK
<1>3. ASSUME NEW q \in Processes
      PROVE  StartOf(queue'[q], queue[q]) /\ (q # p => queue'[q] = queue[q])
  <2>1. queue[q] \in Seq(Events)
    BY DEF TypeOK
  <2>2. CASE q = p
    BY <1>1, <2>2 DEF TypeOK
  <2>3. CASE q # p
    <3>1. queue'[q] = queue[q]
      BY <1>1, <2>3 DEF TypeOK
    <3> QED BY <2>1, <2>3, <3>1, Starts
  <2> QED BY <2>2, <2>3
<1> QED BY <1>2, <1>3

\* What is left of a queue, one place further ahead.
LEMMA RestOfQueue ==
    ASSUME NEW s \in Seq(Events), s # <<>>
    PROVE  /\ Len(s) \in Nat /\ Len(s) >= 1 /\ Head(s) = s[1] /\ Head(s) \in Events
           /\ Tail(s) \in Seq(Events) /\ Len(Tail(s)) = Len(s) - 1
           /\ \A i \in 1 .. Len(s) - 1 : Tail(s)[i] = s[i + 1]
           /\ Len(s) = 1 => Tail(s) = <<>>
           /\ Len(s) # 1 => Tail(s) # <<>>
<1>1. Len(s) \in Nat /\ Len(s) >= 1 /\ Head(s) = s[1] /\ Head(s) \in Events
  OBVIOUS
<1>2. Tail(s) \in Seq(Events) /\ Len(Tail(s)) = Len(s) - 1
  OBVIOUS
<1>3. \A i \in 1 .. Len(s) - 1 : Tail(s)[i] = s[i + 1]
  BY <1>1
<1>4. PICK t \in Seq(Events) : t = Tail(s)
  BY <1>2
<1>5. (t = <<>> <=> Len(t) = 0) /\ Len(t) = Len(s) - 1
  BY <1>2, <1>4, EmptyQueue
<1>6. (Len(s) = 1 => t = <<>>) /\ (Len(s) # 1 => t # <<>>)
  BY <1>1, <1>5
<1> QED BY <1>1, <1>2, <1>3, <1>4, <1>6

\* A queue with the records of a batch behind it.
LEMMA LongerQueue ==
    ASSUME NEW s \in Seq(Events), NEW t \in Seq(Events)
    PROVE  /\ s \o t \in Seq(Events) /\ Len(s \o t) = Len(s) + Len(t)
           /\ Len(s) \in Nat /\ Len(t) \in Nat
           /\ \A i \in 1 .. Len(s) : (s \o t)[i] = s[i]
           /\ \A i \in 1 .. Len(t) : (s \o t)[Len(s) + i] = t[i]
OBVIOUS

-----------------------------------------------------------------------------
(* The invariant holds initially, and every action preserves it.           *)

\* The first state.
LEMMA Initially == Init => Inv
<1> SUFFICES ASSUME Init PROVE Inv
  OBVIOUS
<1>1. TypeOK
  BY RelayAssumption DEF Init, TypeOK
<1>2. IsFiniteSet(fetched)
  BY FS_EmptySet DEF Init
<1>3. AtWork /\ Locked /\ Handed
  BY DEF Init, AtWork, Locked, Handed, Busy
<1>4. Chained
  BY DEF Init, Chained, Events, Cancelled
<1>5. InQueue /\ SentWasPublished /\ PerBookingOrder
  BY DEF Init, InQueue, SentWasPublished, PerBookingOrder
<1> QED BY <1>1, <1>2, <1>3, <1>4, <1>5 DEF Inv

\* A step of the handlers' transactions: none that concerns a relay.
LEMMA HandlersInv ==
    ASSUME Inv, UNCHANGED <<phase, relay, batch, queue, log, fetched>>, TypeOK', Chained',
           \A r \in Events : Committed(r) => state'[r] = state[r],
           \A r \in Events : state'[r] = "sent" => state[r] = "sent"
    PROVE  Inv'
<1>1. Published' = Published
  BY DEF Published
<1>2. AtWork'
  BY DEF Inv, AtWork, Busy
<1>3. Locked'
  BY DEF Inv, Locked, Committed
<1>4. Handed'
  BY <1>1 DEF Inv, Handed, Queued
<1>5. OneRelay' = OneRelay
  BY DEF OneRelay
<1>6. InQueue'
  <2> SUFFICES ASSUME OneRelay, NEW p \in Processes, NEW i \in 1 .. Len(queue[p])
               PROVE  /\ state'[queue[p][i]] = "pending"
                      /\ \A b \in Bookings : queue[p][i] = Cancelled(b) =>
                            \/ Created(b) \in Published
                            \/ \E j \in 1 .. i - 1 : queue[p][j] = Created(b)
    BY <1>1, <1>5 DEF InQueue
  <2>1. queue[p][i] \in Events
    BY DEF Inv, TypeOK
  <2> QED BY <2>1 DEF Inv, InQueue, Committed
<1>7. SentWasPublished' /\ PerBookingOrder'
  BY <1>1, <1>5 DEF Inv, SentWasPublished, PerBookingOrder
<1> QED BY <1>2, <1>3, <1>4, <1>6, <1>7 DEF Inv

\* A transaction begins.
LEMMA BeginInv ==
    ASSUME Inv, NEW p \in Processes, NEW r \in Events, BeginTx(p, r)
    PROVE  Inv'
<1>1. /\ state \in [Events -> {"absent", "open", "pending", "sent"}] /\ stamp \in [Events -> 0 .. MaxClock]
      /\ clock \in 0 .. MaxClock /\ clock' = clock + 1 /\ clock < MaxClock
      /\ stamp' = [stamp EXCEPT ![r] = clock'] /\ state' = [state EXCEPT ![r] = "open"]
      /\ state[r] = "absent"
  BY DEF Inv, TypeOK, BeginTx
<1>2. TypeOK'
  BY <1>1, RelayAssumption DEF Inv, TypeOK, BeginTx, relayVars
<1>3. /\ \A s \in Events : Committed(s) => state'[s] = state[s]
      /\ \A s \in Events : state'[s] = "sent" => state[s] = "sent"
  BY <1>1 DEF Committed
<1>4. Chained'
  <2>1. \A s \in Events : stamp'[s] <= clock'
    BY <1>1, RelayAssumption DEF Inv, Chained
  <2>2. ASSUME NEW b \in Bookings, state'[Cancelled(b)] # "absent"
        PROVE  Committed(Created(b))' /\ stamp'[Created(b)] < stamp'[Cancelled(b)]
    <3>1. /\ Cancelled(b) \in Events /\ Created(b) \in Events /\ Cancelled(b) # Created(b)
          /\ Cancelled(b).type = "cancelled" /\ Cancelled(b).booking = b
      BY DEF Cancelled, Created, Events
    <3>2. Committed(Created(b))
      <4>1. CASE r = Cancelled(b)
        BY <3>1, <4>1 DEF BeginTx
      <4>2. CASE r # Cancelled(b)
        BY <1>1, <2>2, <3>1, <4>2 DEF Inv, Chained
      <4> QED BY <4>1, <4>2
    <3>3. r # Created(b) /\ Committed(Created(b))'
      BY <1>1, <1>3, <3>1, <3>2 DEF Committed
    <3>4. stamp'[Created(b)] = stamp[Created(b)] /\ stamp[Created(b)] \in Nat
      BY <1>1, <3>1, <3>3
    <3>5. CASE r = Cancelled(b)
      <4>1. stamp'[Cancelled(b)] = clock + 1 /\ stamp[Created(b)] <= clock
        BY <1>1, <3>1, <3>5 DEF Inv, Chained
      <4> QED BY <1>1, <3>3, <3>4, <4>1
    <3>6. CASE r # Cancelled(b)
      BY <1>1, <2>2, <3>1, <3>3, <3>4, <3>6 DEF Inv, Chained
    <3> QED BY <3>5, <3>6
  <2> QED BY <2>1, <2>2 DEF Chained
<1> QED BY <1>2, <1>3, <1>4, HandlersInv DEF BeginTx, relayVars

\* A transaction ends.
LEMMA EndTxInv ==
    ASSUME Inv, NEW r \in Events, CommitTx(r) \/ AbortTx(r)
    PROVE  Inv'
<1>1. /\ state[r] = "open" /\ UNCHANGED <<stamp, clock>>
      /\ \/ state' = [state EXCEPT ![r] = "pending"]
         \/ state' = [state EXCEPT ![r] = "absent"]
      /\ state \in [Events -> {"absent", "open", "pending", "sent"}]
  BY DEF Inv, TypeOK, CommitTx, AbortTx
<1>2. TypeOK'
  <2>1. state' \in [Events -> {"absent", "open", "pending", "sent"}]
    BY <1>1
  <2>2. UNCHANGED <<stamp, clock, writer, phase, serving, relayVars, log, failures, fetched>>
    BY DEF CommitTx, AbortTx
  <2>3. UNCHANGED <<stamp, clock, writer, phase, serving, relay, draining, batch, queue,
                    log, failures, fetched>>
    BY <2>2 DEF relayVars
  <2> QED BY <2>1, <2>3 DEF Inv, TypeOK
<1>3. /\ \A s \in Events : Committed(s) => state'[s] = state[s]
      /\ \A s \in Events : state'[s] = "sent" => state[s] = "sent"
      /\ \A s \in Events : state'[s] # "absent" => state[s] # "absent"
  BY <1>1 DEF Committed
<1>4. Chained'
  <2>1. \A b \in Bookings : Cancelled(b) \in Events /\ Created(b) \in Events
    BY DEF Cancelled, Created, Events
  <2> QED BY <1>1, <1>3, <2>1 DEF Inv, Chained, Committed
<1> QED BY <1>2, <1>3, <1>4, HandlersInv DEF CommitTx, AbortTx, relayVars

\* A step of a process that concerns neither its rows nor its batch.
LEMMA ProcessInv ==
    ASSUME Inv, NEW p \in Processes,
           Signal(p) \/ StartDrain(p) \/ EndDrain(p) \/ CloseHTTP(p) \/ Stop(p) \/ Start(p)
    PROVE  Inv'
<1>1. UNCHANGED <<rowVars, batch, queue, log, failures, fetched>>
  BY DEF Signal, StartDrain, EndDrain, CloseHTTP, Stop, Start, relayVars
<1>2. TypeOK'
  <2>1. /\ phase' \in [Processes -> {"running", "stopping", "stopped", "crashed"}]
        /\ serving' \in [Processes -> BOOLEAN]
        /\ relay' \in [Processes -> {"idle", "publish", "mark", "off"}]
        /\ draining' \in [Processes -> BOOLEAN]
    <3>1. CASE Signal(p)
      BY <3>1 DEF Inv, TypeOK, Signal, relayVars
    <3>4. CASE StartDrain(p) \/ EndDrain(p)
      BY <3>4 DEF Inv, TypeOK, StartDrain, EndDrain
    <3>2. CASE CloseHTTP(p) \/ Stop(p)
      BY <3>2 DEF Inv, TypeOK, CloseHTTP, Stop, relayVars
    <3>3. CASE Start(p)
      BY <3>3 DEF Inv, TypeOK, Start
    <3> QED BY <3>1, <3>2, <3>3, <3>4
  <2> QED BY <1>1, <2>1 DEF Inv, TypeOK, rowVars
<1>3. \A q \in Processes : /\ \/ relay'[q] = relay[q]
                               \/ {relay[q], relay'[q]} \cap {"publish", "mark"} = {}
                            /\ phase'[q] \in {"stopped", "crashed"} => relay'[q] = "off"
  BY DEF Inv, TypeOK, AtWork, Busy, Signal, StartDrain, EndDrain, CloseHTTP, Stop, Start, relayVars
<1>4. AtWork'
  <2> SUFFICES ASSUME NEW q \in Processes
               PROVE  /\ relay'[q] = "publish" => queue'[q] # <<>>
                      /\ relay'[q] = "mark" => queue'[q] = <<>>
                      /\ Busy(q)' => batch'[q] # {} /\ q \in fetched'
                      /\ ~Busy(q)' => batch'[q] = {}
                      /\ phase'[q] \in {"stopped", "crashed"} => relay'[q] = "off"
                      /\ q \notin fetched' => queue'[q] = <<>>
    BY DEF AtWork, Busy
  <2>1. queue'[q] = queue[q] /\ batch'[q] = batch[q] /\ fetched' = fetched
    BY <1>1
  <2>2. CASE relay'[q] = relay[q]
    BY <1>3, <2>1, <2>2 DEF Inv, AtWork, Busy
  <2>3. CASE {relay[q], relay'[q]} \cap {"publish", "mark"} = {}
    BY <1>3, <2>1, <2>3 DEF Inv, AtWork, Busy
  <2> QED BY <1>3, <2>2, <2>3
<1>5. Published' = Published /\ OneRelay' = OneRelay
  BY <1>1 DEF Published, OneRelay
<1>6. Locked' /\ Handed'
  BY <1>1, <1>5 DEF Inv, Locked, Handed, Queued, rowVars
<1>7. Chained' /\ InQueue'
  BY <1>1, <1>5 DEF Inv, Chained, InQueue, Committed, rowVars
<1>8. SentWasPublished' /\ PerBookingOrder'
  BY <1>1, <1>5 DEF Inv, SentWasPublished, PerBookingOrder, rowVars
<1> QED BY <1>1, <1>2, <1>4, <1>6, <1>7, <1>8 DEF Inv

\* What is true of the only relay: the others have nothing queued or locked.
LEMMA OthersIdle ==
    ASSUME Inv, OneRelay, NEW p \in fetched, NEW q \in Processes, q # p
    PROVE  queue[q] = <<>> /\ batch[q] = {} /\ ~Busy(q)
<1>1. q \notin fetched
  BY OnlyRelay DEF Inv, OneRelay
<1> QED BY <1>1 DEF Inv, AtWork

\* The rows of a batch are fetched, and their records queued.
LEMMA FetchInv == ASSUME Inv, NEW p \in Processes, Fetch(p) PROVE Inv'
<1>1. /\ relay[p] = "idle" /\ phase[p] # "stopped" /\ phase[p] # "crashed"
      /\ relay' = [relay EXCEPT ![p] = "publish"]
      /\ fetched' = fetched \cup {p}
      /\ UNCHANGED <<state, stamp, clock, writer, phase, serving, draining, log, failures>>
  BY DEF Inv, AtWork, Fetch, rowVars
<1>0. PICK rows \in FirstRows(Available) :
        /\ batch' = [batch EXCEPT ![p] = rows]
        /\ \E q \in InOrder(rows) : queue' = [queue EXCEPT ![p] = @ \o q]
  BY DEF Fetch
<1>2. PICK q \in InOrder(rows) : queue' = [queue EXCEPT ![p] = @ \o q]
  BY <1>0
<1>3. /\ rows \subseteq Available /\ IsFiniteSet(rows) /\ rows # {}
      /\ \A r \in rows, a \in Available \ rows : Earlier(r, a)
  BY BatchRows DEF Fetch, Available
<1>4. /\ rows \subseteq Events
      /\ \A r \in rows : state[r] = "pending" /\ \A o \in Processes : r \notin batch[o]
  BY <1>3 DEF Available, Visible, Unlocked
<1>5. /\ q \in Seq(Events) /\ Len(q) \in Nat /\ Len(q) # 0
      /\ \A i \in 1 .. Len(q) : q[i] \in rows
      /\ \A r \in rows : \E i \in 1 .. Len(q) : q[i] = r
      /\ \A i, j \in 1 .. Len(q) : i < j => Earlier(q[i], q[j])
  BY <1>3, <1>4, Records
<1>6. /\ queue'[p] = queue[p] \o q /\ queue'[p] \in Seq(Events)
      /\ Len(queue[p]) \in Nat /\ Len(queue'[p]) = Len(queue[p]) + Len(q)
      /\ \A i \in 1 .. Len(queue[p]) : queue'[p][i] = queue[p][i]
      /\ \A i \in 1 .. Len(q) : queue'[p][Len(queue[p]) + i] = q[i]
      /\ \A o \in Processes \ {p} : queue'[o] = queue[o]
  <2>1. queue[p] \in Seq(Events) /\ queue'[p] = queue[p] \o q
    BY <1>2 DEF Inv, TypeOK
  <2>2. \A o \in Processes \ {p} : queue'[o] = queue[o]
    BY <1>2 DEF Inv, TypeOK
  <2> QED BY <1>5, <2>1, <2>2, LongerQueue
<1>7. batch'[p] = rows /\ \A o \in Processes \ {p} : batch'[o] = batch[o]
  BY <1>0 DEF Inv, TypeOK
<1>8. relay'[p] = "publish" /\ \A o \in Processes \ {p} : relay'[o] = relay[o]
  BY <1>1 DEF Inv, TypeOK
<1>9. Published' = Published
  BY <1>1 DEF Published
<1>10. TypeOK'
  <2>1. queue' \in [Processes -> Seq(Events)]
    BY <1>2, <1>6 DEF Inv, TypeOK
  <2>2. batch' \in [Processes -> SUBSET Events]
    BY <1>0, <1>4 DEF Inv, TypeOK
  <2>3. relay' \in [Processes -> {"idle", "publish", "mark", "off"}] /\ fetched' \subseteq Processes
    BY <1>1 DEF Inv, TypeOK
  <2> QED BY <1>1, <2>1, <2>2, <2>3 DEF Inv, TypeOK
<1>11. IsFiniteSet(fetched')
  BY <1>1, FS_AddElement DEF Inv
<1>12. AtWork'
  <2>1. queue'[p] # <<>>
    BY <1>5, <1>6, EmptyQueue
  <2>2. \A o \in Processes \ {p} : Busy(o)' <=> Busy(o)
    BY <1>8 DEF Busy
  <2> QED BY <1>1, <1>3, <1>6, <1>7, <1>8, <2>1, <2>2 DEF Inv, AtWork, Busy
<1>13. Locked'
  BY <1>1, <1>4, <1>7 DEF Inv, Locked
<1>14. Handed'
  <2>1. ASSUME NEW r \in rows
        PROVE  \E i \in 1 .. Len(queue'[p]) : queue'[p][i] = r
    <3>1. PICK i \in 1 .. Len(q) : q[i] = r
      BY <1>5
    <3>2. Len(queue[p]) + i \in 1 .. Len(queue'[p]) /\ queue'[p][Len(queue[p]) + i] = r
      BY <1>5, <1>6, <3>1
    <3> QED BY <3>2
  <2>2. \A o \in Processes \ {p} : Queued(o)' = Queued(o)
    BY <1>6 DEF Queued
  <2>3. \A r \in rows : r \in Queued(p)'
    BY <2>1 DEF Queued
  <2> QED BY <1>7, <1>9, <2>2, <2>3 DEF Inv, Handed
<1>15. Chained'
  BY <1>1 DEF Inv, Chained, Committed
<1>16. OneRelay' => OneRelay /\ \A o \in Processes \ {p} : o \notin fetched /\ batch[o] = {}
  <2> SUFFICES ASSUME OneRelay'
               PROVE  OneRelay /\ \A o \in Processes \ {p} : o \notin fetched /\ batch[o] = {}
    OBVIOUS
  <2>1. \A o \in Processes \ {p} : o \notin fetched
    <3>1. Cardinality(fetched') <= 1 /\ p \in fetched' /\ fetched \subseteq fetched'
      BY <1>1 DEF OneRelay
    <3> QED BY <1>11, <3>1, OnlyRelay
  <2>2. Cardinality(fetched) <= 1
    <3>1. Cardinality(fetched) <= Cardinality(fetched') /\ Cardinality(fetched) \in Nat
          /\ Cardinality(fetched') \in Nat
      BY <1>1, <1>11, FS_Subset, FS_CardinalityType DEF Inv
    <3> QED BY <3>1 DEF OneRelay
  <2> QED BY <2>1, <2>2 DEF OneRelay, Inv, AtWork
<1>17. InQueue'
  <2> SUFFICES ASSUME OneRelay', NEW o \in Processes, NEW k \in 1 .. Len(queue'[o])
               PROVE  /\ state[queue'[o][k]] = "pending"
                      /\ \A b \in Bookings : queue'[o][k] = Cancelled(b) =>
                            \/ Created(b) \in Published
                            \/ \E j \in 1 .. k - 1 : queue'[o][j] = Created(b)
    BY <1>1, <1>9 DEF InQueue
  <2>1. o = p
    BY <1>6, <1>16, EmptyQueue DEF Inv, TypeOK, AtWork
  <2>2. CASE k \in 1 .. Len(queue[p])
    <3>1. queue'[p][k] = queue[p][k] /\ \A j \in 1 .. k - 1 : queue'[p][j] = queue[p][j]
      BY <1>6, <2>2
    <3> QED BY <1>16, <2>1, <2>2, <3>1 DEF Inv, InQueue
  <2>3. CASE k \notin 1 .. Len(queue[p])
    <3>1. PICK m \in 1 .. Len(q) : k = Len(queue[p]) + m
      <4>1. k - Len(queue[p]) \in 1 .. Len(q) /\ k = Len(queue[p]) + (k - Len(queue[p]))
        BY <1>5, <1>6, <2>1, <2>3
      <4> QED BY <4>1
    <3>2. queue'[p][k] = q[m] /\ q[m] \in rows
      BY <1>5, <1>6, <3>1
    <3>3. ASSUME NEW b \in Bookings, q[m] = Cancelled(b), Created(b) \notin Published
          PROVE  \E j \in 1 .. k - 1 : queue'[p][j] = Created(b)
      <4>1. /\ Created(b) \in Events /\ Cancelled(b) \in rows /\ Created(b) # Cancelled(b)
            /\ stamp[Created(b)] < stamp[Cancelled(b)] /\ Committed(Created(b))
            /\ stamp[Created(b)] \in Nat /\ stamp[Cancelled(b)] \in Nat
        <5>1. Created(b) \in Events /\ Cancelled(b) \in Events /\ Created(b) # Cancelled(b)
          BY DEF Created, Cancelled, Events
        <5>2. Cancelled(b) \in rows /\ state[Cancelled(b)] # "absent"
          BY <1>4, <3>2, <3>3
        <5> QED BY <5>1, <5>2 DEF Inv, TypeOK, Chained
      <4>2. state[Created(b)] = "pending"
        BY <3>3, <4>1 DEF Inv, SentWasPublished, Committed
      <4>3. Created(b) \in Available
        <5>1. batch[p] = {}
          BY <1>1 DEF Inv, AtWork, Busy
        <5> QED BY <1>16, <4>1, <4>2, <5>1 DEF Available, Visible, Unlocked
      <4>4. Created(b) \in rows
        BY <1>3, <4>1, <4>3 DEF Earlier
      <4>5. PICK j \in 1 .. Len(q) : q[j] = Created(b)
        BY <1>5, <4>4
      <4>6. j < m
        BY <1>5, <3>3, <4>1, <4>5 DEF Earlier
      <4>7. Len(queue[p]) + j \in 1 .. k - 1 /\ queue'[p][Len(queue[p]) + j] = Created(b)
        BY <1>5, <1>6, <3>1, <4>5, <4>6
      <4> QED BY <4>7
    <3> QED BY <1>4, <2>1, <3>2, <3>3
  <2> QED BY <2>2, <2>3
<1>18. SentWasPublished' /\ PerBookingOrder'
  BY <1>1, <1>9, <1>16 DEF Inv, SentWasPublished, PerBookingOrder
<1> QED
  BY <1>10, <1>11, <1>12, <1>13, <1>14, <1>15, <1>17, <1>18 DEF Inv

\* The record at the head of the queue is written.
LEMMA PublishInv == ASSUME Inv, NEW p \in Processes, Publish(p) PROVE Inv'
<1> DEFINE hd == Head(queue[p])
<1>1. /\ queue[p] \in Seq(Events) /\ queue[p] # <<>> /\ log \in Seq(Events)
      /\ log' = Append(log, hd)
      /\ queue' = [queue EXCEPT ![p] = Tail(@)]
      /\ relay' = [relay EXCEPT ![p] =
                      IF @ = "publish" /\ Len(queue[p]) = 1 THEN "mark" ELSE @]
      /\ UNCHANGED <<state, stamp, clock, writer, phase, serving, draining, batch, failures, fetched>>
  BY DEF Inv, TypeOK, Publish, rowVars
<1>2. /\ Len(queue[p]) \in Nat /\ Len(queue[p]) >= 1 /\ hd = queue[p][1] /\ hd \in Events
      /\ queue'[p] \in Seq(Events) /\ Len(queue'[p]) = Len(queue[p]) - 1
      /\ \A i \in 1 .. Len(queue[p]) - 1 : queue'[p][i] = queue[p][i + 1]
      /\ Len(queue[p]) = 1 => queue'[p] = <<>>
      /\ Len(queue[p]) # 1 => queue'[p] # <<>>
      /\ \A o \in Processes \ {p} : queue'[o] = queue[o]
  <2>1. queue'[p] = Tail(queue[p]) /\ \A o \in Processes \ {p} : queue'[o] = queue[o]
    BY <1>1 DEF Inv, TypeOK
  <2>2. /\ Len(queue[p]) \in Nat /\ Len(queue[p]) >= 1 /\ hd = queue[p][1] /\ hd \in Events
        /\ Tail(queue[p]) \in Seq(Events) /\ Len(Tail(queue[p])) = Len(queue[p]) - 1
        /\ \A i \in 1 .. Len(queue[p]) - 1 : Tail(queue[p])[i] = queue[p][i + 1]
        /\ Len(queue[p]) = 1 => Tail(queue[p]) = <<>>
        /\ Len(queue[p]) # 1 => Tail(queue[p]) # <<>>
    BY <1>1, RestOfQueue
  <2> QED BY <2>1, <2>2
<1> HIDE DEF hd
<1>3. /\ log' \in Seq(Events) /\ Len(log') = Len(log) + 1 /\ Len(log) \in Nat
      /\ \A i \in 1 .. Len(log) : log'[i] = log[i]
      /\ log'[Len(log) + 1] = hd
  BY <1>1, <1>2, LongerLog
<1>4. Published' = Published \cup {hd}
  BY <1>3 DEF Published
<1>5. /\ relay'[p] = IF relay[p] = "publish" /\ Len(queue[p]) = 1 THEN "mark" ELSE relay[p]
      /\ \A o \in Processes \ {p} : relay'[o] = relay[o]
  BY <1>1 DEF Inv, TypeOK
<1>6. relay[p] # "mark" /\ p \in fetched
  BY <1>1 DEF Inv, AtWork
<1>7. TypeOK'
  <2>1. queue' \in [Processes -> Seq(Events)]
    BY <1>1, <1>2 DEF Inv, TypeOK
  <2>2. relay' \in [Processes -> {"idle", "publish", "mark", "off"}]
    BY <1>1 DEF Inv, TypeOK
  <2> QED BY <1>1, <1>3, <2>1, <2>2 DEF Inv, TypeOK
<1>8. AtWork'
  <2>1. relay'[p] = "publish" => queue'[p] # <<>>
    BY <1>2, <1>5
  <2>2. relay'[p] = "mark" => queue'[p] = <<>>
    BY <1>2, <1>5, <1>6
  <2>3. \A o \in Processes : Busy(o)' <=> Busy(o)
    BY <1>5, <1>6 DEF Busy
  <2>4. \A o \in Processes : relay[o] = "off" => relay'[o] = "off"
    BY <1>5
  <2> QED BY <1>1, <1>2, <1>5, <1>6, <2>1, <2>2, <2>3, <2>4 DEF Inv, AtWork
<1>9. Locked' /\ Chained'
  BY <1>1 DEF Inv, Locked, Chained, Committed
<1>10. Handed'
  <2>1. Queued(p) \subseteq Queued(p)' \cup {hd}
    <3> SUFFICES ASSUME NEW i \in 1 .. Len(queue[p]), queue[p][i] # hd
                 PROVE  \E j \in 1 .. Len(queue'[p]) : queue'[p][j] = queue[p][i]
      BY DEF Queued
    <3>1. i # 1
      BY <1>2
    <3>2. i - 1 \in 1 .. Len(queue[p]) - 1 /\ queue'[p][i - 1] = queue[p][i]
      BY <1>2, <3>1
    <3> QED BY <1>2, <3>2
  <2>2. \A o \in Processes \ {p} : Queued(o)' = Queued(o)
    BY <1>2 DEF Queued
  <2> QED BY <1>1, <1>4, <2>1, <2>2 DEF Inv, Handed
<1>11. OneRelay' = OneRelay
  BY <1>1 DEF OneRelay
<1>12. OneRelay => \A b \in Bookings : hd = Cancelled(b) => Created(b) \in Published
  <2> SUFFICES ASSUME OneRelay, NEW b \in Bookings, hd = Cancelled(b)
               PROVE  Created(b) \in Published
    OBVIOUS
  <2>1. 1 \in 1 .. Len(queue[p]) /\ queue[p][1] = Cancelled(b) /\ 1 .. 1 - 1 = {}
    BY <1>2
  <2> QED BY <2>1 DEF Inv, InQueue
<1>13. InQueue'
  <2> SUFFICES ASSUME OneRelay, NEW o \in Processes, NEW k \in 1 .. Len(queue'[o])
               PROVE  /\ state[queue'[o][k]] = "pending"
                      /\ \A b \in Bookings : queue'[o][k] = Cancelled(b) =>
                            \/ Created(b) \in Published'
                            \/ \E j \in 1 .. k - 1 : queue'[o][j] = Created(b)
    BY <1>1, <1>11 DEF InQueue
  <2>1. CASE o # p
    BY <1>2, <1>4, <2>1 DEF Inv, InQueue
  <2>2. CASE o = p
    <3>1. k + 1 \in 1 .. Len(queue[p]) /\ queue'[p][k] = queue[p][k + 1]
      BY <1>2, <2>2
    <3>2. ASSUME NEW b \in Bookings, NEW j \in 1 .. k, queue[p][j] = Created(b)
          PROVE  Created(b) \in Published' \/ \E i \in 1 .. k - 1 : queue'[p][i] = Created(b)
      <4>1. CASE j = 1
        BY <1>2, <1>4, <3>2, <4>1
      <4>2. CASE j # 1
        <5>1. j - 1 \in 1 .. k - 1 /\ queue'[p][j - 1] = queue[p][j]
          BY <1>2, <2>2, <4>2
        <5> QED BY <3>2, <5>1
      <4> QED BY <4>1, <4>2
    <3>3. (k + 1) - 1 = k
      OBVIOUS
    <3> QED BY <1>4, <2>2, <3>1, <3>2, <3>3 DEF Inv, InQueue
  <2> QED BY <2>1, <2>2
<1>14. SentWasPublished'
  BY <1>1, <1>4 DEF Inv, SentWasPublished
<1>15. PerBookingOrder'
  <2> SUFFICES ASSUME OneRelay, NEW i \in 1 .. Len(log'), NEW b \in Bookings, log'[i] = Cancelled(b)
               PROVE  \E j \in 1 .. i : log'[j] = Created(b)
    BY <1>11 DEF PerBookingOrder, Cancelled
  <2>1. CASE i \in 1 .. Len(log)
    <3>1. log[i] = Cancelled(b) /\ \A j \in 1 .. i : log'[j] = log[j]
      BY <1>3, <2>1
    <3> QED BY <2>1, <3>1 DEF Inv, PerBookingOrder, Cancelled
  <2>2. CASE i \notin 1 .. Len(log)
    <3>1. i = Len(log) + 1
      BY <1>3, <2>2
    <3>2. Created(b) \in Published
      BY <1>3, <1>12, <3>1
    <3>3. PICK j \in 1 .. Len(log) : log[j] = Created(b)
      BY <3>2 DEF Published
    <3>4. j \in 1 .. i /\ log'[j] = Created(b)
      BY <1>3, <3>1, <3>3
    <3> QED BY <3>4
  <2> QED BY <2>1, <2>2
<1> QED
  BY <1>1, <1>7, <1>8, <1>9, <1>10, <1>13, <1>14, <1>15 DEF Inv

\* The writer writes a batch once more.
LEMMA ResendInv == ASSUME Inv, NEW p \in Processes, Resend(p) PROVE Inv'
<1>1. /\ relay[p] = "mark" /\ relay' = [relay EXCEPT ![p] = "publish"]
      /\ UNCHANGED <<state, stamp, clock, writer, phase, serving, draining, batch, log, fetched>>
      /\ failures' \in 0 .. MaxFailures
  BY RelayAssumption DEF Inv, TypeOK, Resend, CountFailure, rowVars
<1>2. PICK q \in InOrder(batch[p]) : queue' = [queue EXCEPT ![p] = q]
  BY DEF Resend
<1>3. /\ batch[p] \subseteq Events /\ batch[p] # {} /\ p \in fetched /\ IsFiniteSet(batch[p])
      /\ batch[p] \subseteq Published
  <2>1. batch[p] \subseteq Events /\ batch[p] # {} /\ p \in fetched /\ queue[p] = <<>>
    BY <1>1 DEF Inv, TypeOK, AtWork, Busy
  <2>2. Queued(p) = {}
    BY <2>1 DEF Queued
  <2> QED BY <2>1, <2>2, FiniteEvents, FS_Subset DEF Inv, Handed
<1>4. /\ q \in Seq(Events) /\ Len(q) \in Nat /\ Len(q) # 0
      /\ \A i \in 1 .. Len(q) : q[i] \in batch[p]
      /\ queue'[p] = q /\ \A o \in Processes \ {p} : queue'[o] = queue[o]
  <2>1. queue'[p] = q /\ \A o \in Processes \ {p} : queue'[o] = queue[o]
    BY <1>2 DEF Inv, TypeOK
  <2> QED BY <1>3, <2>1, Records
<1>5. relay'[p] = "publish" /\ \A o \in Processes \ {p} : relay'[o] = relay[o]
  BY <1>1 DEF Inv, TypeOK
<1>6. Published' = Published /\ OneRelay' = OneRelay
  BY <1>1 DEF Published, OneRelay
<1>7. TypeOK'
  BY <1>1, <1>2, <1>4 DEF Inv, TypeOK
<1>8. AtWork'
  <2>1. q # <<>>
    BY <1>4, EmptyQueue
  <2>2. \A o \in Processes : Busy(o)' <=> Busy(o)
    BY <1>1, <1>5 DEF Busy
  <2>3. \A o \in Processes \ {p} : relay'[o] = relay[o] /\ queue'[o] = queue[o]
    BY <1>4, <1>5
  <2>4. relay'[p] = "publish" /\ queue'[p] = q /\ batch[p] # {} /\ p \in fetched
    BY <1>3, <1>4, <1>5 DEF Inv, AtWork, Busy
  <2>5. UNCHANGED <<batch, phase, fetched>> /\ phase[p] \notin {"stopped", "crashed"}
    BY <1>1, <1>3 DEF Inv, AtWork
  <2> QED BY <2>1, <2>2, <2>3, <2>4, <2>5 DEF Inv, AtWork, Busy
<1>9. Locked' /\ Chained'
  BY <1>1 DEF Inv, Locked, Chained, Committed
<1>10. Handed'
  <2>1. \A o \in Processes \ {p} : Queued(o)' = Queued(o)
    BY <1>4 DEF Queued
  <2> QED BY <1>1, <1>3, <1>6, <2>1 DEF Inv, Handed
<1>11. InQueue'
  <2> SUFFICES ASSUME OneRelay, NEW o \in Processes, NEW k \in 1 .. Len(queue'[o])
               PROVE  /\ state[queue'[o][k]] = "pending"
                      /\ \A b \in Bookings : queue'[o][k] = Cancelled(b) =>
                            \/ Created(b) \in Published
                            \/ \E j \in 1 .. k - 1 : queue'[o][j] = Created(b)
    BY <1>1, <1>6 DEF InQueue
  <2>1. CASE o # p
    <3>1. queue'[o] = queue[o]
      BY <1>4, <2>1
    <3> QED BY <3>1 DEF Inv, InQueue
  <2>2. CASE o = p
    <3>1. queue'[p][k] \in batch[p]
      BY <1>4, <2>2
    <3>2. state[queue'[p][k]] = "pending"
      BY <1>3, <3>1 DEF Inv, Locked
    <3>3. ASSUME NEW b \in Bookings, queue'[p][k] = Cancelled(b)
          PROVE  Created(b) \in Published
      <4>1. PICK i \in 1 .. Len(log) : log[i] = Cancelled(b)
        BY <1>3, <3>1, <3>3 DEF Published
      <4>2. PICK j \in 1 .. i : log[j] = Created(b)
        BY <4>1 DEF Inv, PerBookingOrder, Cancelled
      <4>3. j \in 1 .. Len(log)
        BY DEF Inv, TypeOK
      <4> QED BY <4>2, <4>3 DEF Published
    <3> QED BY <2>2, <3>2, <3>3
  <2> QED BY <2>1, <2>2
<1>12. SentWasPublished' /\ PerBookingOrder'
  BY <1>1, <1>6 DEF Inv, SentWasPublished, PerBookingOrder
<1> QED
  BY <1>1, <1>7, <1>8, <1>9, <1>10, <1>11, <1>12 DEF Inv

\* The end of a batch: its rows are unlocked, and marked if all of them are in
\* the topic; a beginning of the queue is kept; open rows may vanish.
LEMMA EndOfBatch ==
    ASSUME Inv, NEW p \in Processes, TypeOK',
           UNCHANGED <<stamp, clock, log, fetched>>,
           batch' = [batch EXCEPT ![p] = {}],
           \E next \in {"idle", "off"} : relay' = [relay EXCEPT ![p] = next],
           Kept(p),
           \A q \in Processes : phase'[q] \in {"stopped", "crashed"} => relay'[q] = "off",
           \A r \in Events :
              \/ state'[r] = state[r]
              \/ relay[p] = "mark" /\ r \in batch[p] /\ state'[r] = "sent"
              \/ state[r] = "open" /\ state'[r] = "absent"
    PROVE  Inv'
<1>1. /\ relay'[p] \in {"idle", "off"} /\ batch'[p] = {}
      /\ \A q \in Processes : StartOf(queue'[q], queue[q])
      /\ \A q \in Processes \ {p} :
            relay'[q] = relay[q] /\ batch'[q] = batch[q] /\ queue'[q] = queue[q]
  <2>1. \A q \in Processes : StartOf(queue'[q], queue[q]) /\ (q # p => queue'[q] = queue[q])
    BY KeptQueues DEF Inv
  <2>2. /\ relay'[p] \in {"idle", "off"} /\ batch'[p] = {}
        /\ \A q \in Processes \ {p} : relay'[q] = relay[q] /\ batch'[q] = batch[q]
    BY DEF Inv, TypeOK
  <2> QED BY <2>1, <2>2
<1>2. Published' = Published /\ OneRelay' = OneRelay
  BY DEF Published, OneRelay
<1>3. AtWork'
  <2> SUFFICES ASSUME NEW q \in Processes
               PROVE  /\ relay'[q] = "publish" => queue'[q] # <<>>
                      /\ relay'[q] = "mark" => queue'[q] = <<>>
                      /\ Busy(q)' => batch'[q] # {} /\ q \in fetched
                      /\ ~Busy(q)' => batch'[q] = {}
                      /\ q \notin fetched => queue'[q] = <<>>
    BY DEF AtWork
  <2>1. CASE q = p
    <3>1. queue[p] = <<>> => queue'[p] = <<>>
      BY <1>1, EmptyQueue DEF StartOf
    <3> QED BY <1>1, <2>1, <3>1 DEF Inv, AtWork, Busy
  <2>2. CASE q # p
    BY <1>1, <2>2 DEF Inv, AtWork, Busy
  <2> QED BY <2>1, <2>2
<1>4. Locked'
  <2> SUFFICES ASSUME NEW q \in Processes, NEW r \in Events, r \in batch'[q]
               PROVE  state'[r] = "pending" /\ \A o \in Processes : r \in batch'[o] => o = q
    BY DEF Locked
  <2>1. q # p /\ r \in batch[q]
    BY <1>1
  <2>2. state[r] = "pending" /\ \A o \in Processes : r \in batch[o] => o = q
    BY <2>1 DEF Inv, Locked
  <2> QED BY <1>1, <2>1, <2>2
<1>5. Handed'
  <2>1. \A q \in Processes \ {p} : Queued(q)' = Queued(q)
    BY <1>1 DEF Queued
  <2> QED BY <1>1, <1>2, <2>1 DEF Inv, Handed
<1>6. \A r \in Events : Committed(r) => Committed(r)'
  BY DEF Committed
<1>7. Chained'
  <2>1. \A b \in Bookings : Cancelled(b) \in Events /\ Created(b) \in Events
    BY DEF Cancelled, Created, Events
  <2>2. \A r \in Events : state'[r] # "absent" => state[r] # "absent"
    BY DEF Inv, Locked
  <2> QED BY <1>6, <2>1, <2>2 DEF Inv, Chained
<1>8. SentWasPublished'
  <2>1. ASSUME relay[p] = "mark", NEW r \in batch[p]
        PROVE  r \in Published
    <3>1. queue[p] = <<>> /\ r \in Events
      BY <2>1 DEF Inv, TypeOK, AtWork
    <3>2. Queued(p) = {}
      BY <3>1 DEF Queued
    <3> QED BY <3>1, <3>2 DEF Inv, Handed
  <2> QED BY <1>2, <2>1 DEF Inv, SentWasPublished
<1>9. InQueue'
  <2> SUFFICES ASSUME OneRelay, NEW q \in Processes, NEW k \in 1 .. Len(queue'[q])
               PROVE  /\ state'[queue'[q][k]] = "pending"
                      /\ \A b \in Bookings : queue'[q][k] = Cancelled(b) =>
                            \/ Created(b) \in Published
                            \/ \E j \in 1 .. k - 1 : queue'[q][j] = Created(b)
    BY <1>2 DEF InQueue
  <2>1. /\ queue[q] \in Seq(Events) /\ queue[q] # <<>> /\ k \in 1 .. Len(queue[q])
        /\ queue'[q][k] = queue[q][k] /\ \A j \in 1 .. k - 1 : queue'[q][j] = queue[q][j]
    <3>1. StartOf(queue'[q], queue[q]) /\ queue[q] \in Seq(Events)
      BY <1>1 DEF Inv, TypeOK
    <3>2. /\ Len(queue'[q]) \in Nat /\ Len(queue[q]) \in Nat
          /\ \A i \in 1 .. Len(queue'[q]) : i \in 1 .. Len(queue[q]) /\ queue'[q][i] = queue[q][i]
      BY <3>1, StartParts
    <3>3. \A j \in 1 .. k - 1 : j \in 1 .. Len(queue'[q])
      BY <3>2
    <3>4. queue[q] # <<>>
      BY <3>1, <3>2, EmptyQueue
    <3> QED BY <3>1, <3>2, <3>3, <3>4
  <2>2. queue[q][k] \in Events /\ state[queue[q][k]] = "pending"
    BY <2>1 DEF Inv, InQueue
  <2>3. relay[p] # "mark"
    <3>1. CASE q = p
      BY <2>1, <3>1 DEF Inv, AtWork
    <3>2. CASE q # p
      <4>1. q \in fetched
        BY <2>1 DEF Inv, AtWork
      <4> QED BY <3>2, <4>1, OthersIdle DEF Busy
    <3> QED BY <3>1, <3>2
  <2>4. state'[queue[q][k]] = "pending"
    BY <2>2, <2>3
  <2> QED BY <2>1, <2>4 DEF Inv, InQueue
<1>10. PerBookingOrder'
  BY <1>2 DEF Inv, PerBookingOrder
<1> QED
  BY <1>3, <1>4, <1>5, <1>7, <1>8, <1>9, <1>10 DEF Inv

\* Rows are marked, and a batch fails by an error or by the end of its context.
LEMMA BatchInv ==
    ASSUME Inv, NEW p \in Processes, Mark(p) \/ BatchFails(p) \/ ContextEnds(p)
    PROVE  Inv'
<1>1. /\ UNCHANGED <<stamp, clock, writer, phase, serving, draining, log, fetched>>
      /\ \E next \in {"idle", "off"} : EndBatch(p, next)
      /\ Kept(p)
      /\ failures' \in 0 .. MaxFailures
      /\ state' = state \/ (relay[p] = "mark" /\ MarkSent(p))
  <2>1. AfterError(p) \in {"idle", "off"}
    BY DEF AfterError
  <2>2. failures' \in 0 .. MaxFailures
    BY RelayAssumption DEF Inv, TypeOK, Mark, BatchFails, ContextEnds, CountFailure
  <2>3. Kept(p)
    BY QueueKept DEF Inv, Mark, ContextEnds
  <2> QED BY <2>1, <2>2, <2>3 DEF Mark, BatchFails, ContextEnds, AppliedOnError
<1>2. phase[p] \notin {"stopped", "crashed"} \/ relay' = [relay EXCEPT ![p] = "off"]
  <2>1. phase[p] \in {"stopped", "crashed"} => relay[p] = "off"
    BY DEF Inv, AtWork
  <2> QED BY <2>1 DEF Mark, BatchFails, ContextEnds
<1>3. \A q \in Processes : phase'[q] \in {"stopped", "crashed"} => relay'[q] = "off"
  BY <1>1, <1>2 DEF Inv, TypeOK, AtWork, EndBatch
<1>4. \A r \in Events : \/ state'[r] = state[r]
                        \/ relay[p] = "mark" /\ r \in batch[p] /\ state'[r] = "sent"
  BY <1>1 DEF MarkSent
<1>5. TypeOK'
  <2>1. state' \in [Events -> {"absent", "open", "pending", "sent"}]
    BY <1>1 DEF Inv, TypeOK, MarkSent
  <2>2. queue' \in [Processes -> Seq(Events)]
    BY <1>1, KeptQueues DEF Inv
  <2>3. /\ batch' \in [Processes -> SUBSET Events]
        /\ relay' \in [Processes -> {"idle", "publish", "mark", "off"}]
    BY <1>1 DEF Inv, TypeOK, EndBatch
  <2> QED BY <1>1, <2>1, <2>2, <2>3 DEF Inv, TypeOK
<1> QED BY <1>1, <1>3, <1>4, <1>5, EndOfBatch DEF EndBatch

\* A process dies.
LEMMA CrashInv == ASSUME Inv, NEW p \in Processes, Crash(p) PROVE Inv'
<1>1. /\ UNCHANGED <<stamp, clock, writer, draining, log, fetched>>
      /\ EndBatch(p, "off") /\ phase' = [phase EXCEPT ![p] = "crashed"]
      /\ serving' = [serving EXCEPT ![p] = FALSE]
      /\ queue' = [queue EXCEPT ![p] = <<>>]
      /\ state' = [r \in Events |-> IF r \in OpenRows(p) THEN "absent" ELSE state[r]]
      /\ failures' \in 0 .. MaxFailures
  BY RelayAssumption DEF Inv, TypeOK, Crash, CountFailure
<1>2. \A q \in Processes : phase'[q] \in {"stopped", "crashed"} => relay'[q] = "off"
  BY <1>1 DEF Inv, TypeOK, AtWork, EndBatch
<1>3. \A r \in Events : \/ state'[r] = state[r]
                        \/ state[r] = "open" /\ state'[r] = "absent"
  BY <1>1 DEF OpenRows
<1>4. TypeOK'
  <2>1. state' \in [Events -> {"absent", "open", "pending", "sent"}]
    BY <1>1 DEF Inv, TypeOK
  <2>2. queue' \in [Processes -> Seq(Events)]
    <3>1. queue \in [Processes -> Seq(Events)] /\ <<>> \in Seq(Events)
      BY DEF Inv, TypeOK
    <3> QED BY <1>1, <3>1
  <2>3. /\ batch' \in [Processes -> SUBSET Events]
        /\ relay' \in [Processes -> {"idle", "publish", "mark", "off"}]
    BY <1>1 DEF Inv, TypeOK, EndBatch
  <2>4. /\ phase' \in [Processes -> {"running", "stopping", "stopped", "crashed"}]
        /\ serving' \in [Processes -> BOOLEAN]
    BY <1>1 DEF Inv, TypeOK
  <2> QED BY <1>1, <2>1, <2>2, <2>3, <2>4 DEF Inv, TypeOK
<1>5. Kept(p)
  BY <1>1, QueueKept DEF Inv
<1> QED BY <1>1, <1>2, <1>3, <1>4, <1>5, EndOfBatch DEF EndBatch

\* The invariant is inductive.
LEMMA Inductive == Inv /\ [Next]_vars => Inv'
<1> SUFFICES ASSUME Inv, [Next]_vars PROVE Inv'
  OBVIOUS
<1>1. CASE UNCHANGED vars
  <2>1. TypeOK' /\ IsFiniteSet(fetched)' /\ AtWork' /\ Locked' /\ Handed'
    BY <1>1 DEF Inv, vars, rowVars, relayVars, TypeOK, AtWork, Busy, Locked, Handed, Queued, Published
  <2>2. Chained' /\ InQueue' /\ SentWasPublished' /\ PerBookingOrder'
    BY <1>1 DEF Inv, vars, rowVars, relayVars, Chained, Committed, InQueue, OneRelay, Published,
                SentWasPublished, PerBookingOrder
  <2> QED BY <2>1, <2>2 DEF Inv
<1>2. CASE EndTx
  BY <1>2, EndTxInv DEF EndTx
<1>3. ASSUME NEW p \in Processes, NEW r \in Events, BeginTx(p, r)
      PROVE  Inv'
  BY <1>3, BeginInv
<1>4. ASSUME NEW p \in Processes, Work(p) \/ BatchFails(p) \/ Resend(p) \/ ContextEnds(p)
      PROVE  Inv'
  BY <1>4, FetchInv, PublishInv, BatchInv, ResendInv DEF Work
<1>5. ASSUME NEW p \in Processes, Shutdown(p) \/ Signal(p) \/ Crash(p) \/ Start(p)
      PROVE  Inv'
  BY <1>5, ProcessInv, CrashInv DEF Shutdown
<1> QED BY <1>1, <1>2, <1>3, <1>4, <1>5 DEF Next

\* A marked row stays marked, and the only relay there is does not write it.
LEMMA StepKeepsSent ==
    ASSUME Inv, [Next]_vars, NEW r \in Events, OneRelay', state[r] = "sent"
    PROVE  state'[r] = "sent" /\ (Len(log') > Len(log) => log'[Len(log')] # r)
<1>1. CASE \E p \in Processes : Publish(p)
  <2>1. PICK p \in Processes : Publish(p)
    BY <1>1
  <2>2. /\ queue[p] \in Seq(Events) /\ queue[p] # <<>> /\ log \in Seq(Events)
        /\ log' = Append(log, Head(queue[p])) /\ state' = state /\ fetched' = fetched
    BY <2>1 DEF Inv, TypeOK, Publish, rowVars
  <2>3. 1 \in 1 .. Len(queue[p]) /\ Head(queue[p]) = queue[p][1] /\ Head(queue[p]) \in Events
    BY <2>2, RestOfQueue
  <2>4. PICK hd \in Events : hd = Head(queue[p])
    BY <2>3
  <2>5. state[hd] = "pending"
    BY <2>2, <2>3, <2>4 DEF Inv, InQueue, OneRelay
  <2>6. log'[Len(log')] = hd
    BY <2>2, <2>4, LongerLog
  <2> QED BY <2>2, <2>5, <2>6
<1>2. CASE ~\E p \in Processes : Publish(p)
  <2>1. log' = log /\ Len(log) \in Nat
    BY <1>2
    DEF Inv, TypeOK, Next, Work, Shutdown, EndTx, BeginTx, CommitTx, AbortTx, Fetch, Mark, BatchFails,
        Resend, Signal, ContextEnds, StartDrain, EndDrain, CloseHTTP, Stop, Crash, Start, vars
  <2>2. state'[r] = "sent"
    BY DEF Inv, TypeOK, Next, Work, Shutdown, EndTx, BeginTx, CommitTx, AbortTx, Fetch, Publish, Mark,
           BatchFails, Resend, Signal, ContextEnds, StartDrain, EndDrain, CloseHTTP, Stop, Crash,
           Start, MarkSent, OpenRows, vars, rowVars
  <2> QED BY <2>1, <2>2
<1> QED BY <1>1, <1>2

-----------------------------------------------------------------------------
\* The inductive invariant holds, however many relays share the table and
\* however they fail, are signalled, die and start again.
THEOREM RelayInvariance == Spec => []Inv
BY Initially, Inductive, PTL DEF Spec

\* Type correctness of the outbox, the relays and the topic.
THEOREM RelayTypes == Spec => []TypeOK
<1>1. Inv => TypeOK
  BY DEF Inv
<1> QED BY <1>1, RelayInvariance, PTL

\* A row is marked as sent only once it is in the topic, for any number of
\* relays.
THEOREM MarkedIsPublished == Spec => []SentWasPublished
<1>1. Inv => SentWasPublished
  BY DEF Inv
<1> QED BY <1>1, RelayInvariance, PTL

\* One relay keeps the order of the events of a booking, whatever its batches
\* and failures.
THEOREM OrderOfBooking == Spec => []PerBookingOrder
<1>1. Inv => PerBookingOrder
  BY DEF Inv
<1> QED BY <1>1, RelayInvariance, PTL

\* One relay never publishes a row again that it has marked.
THEOREM MarkedIsFinal == Spec => SentIsFinal
<1>1. Inv /\ [Next]_vars =>
        [\A r \in Events : OneRelay' /\ state[r] = "sent" =>
          /\ state'[r] = "sent"
          /\ Len(log') > Len(log) => log'[Len(log')] # r]_vars
  BY StepKeepsSent
<1> QED BY <1>1, RelayInvariance, PTL DEF Spec, SentIsFinal

-----------------------------------------------------------------------------
(* How often a row is written.                                             *)

\* Where row r is written, and where it waits in the queues of the writers.
InLog(r) == {i \in 1 .. Len(log) : log[i] = r}

Place(p, i, r) == i \in 1 .. Len(queue[p]) /\ queue[p][i] = r

InQueues(r) == {x \in Processes \X Nat : Place(x[1], x[2], r)}

\* A row that is locked or marked is beyond the reach of the next batch.
Taken(r) == state[r] = "sent" \/ ~Unlocked(r)

\* Each failure allows one more copy of a row, and a batch takes one.
Budget ==
    \A r \in Events :
        /\ IsFiniteSet(InQueues(r))
        /\ Cardinality(InLog(r)) + Cardinality(InQueues(r)) <=
              IF Taken(r) THEN failures + 1 ELSE failures

\* The topic holds finitely many copies of a row.
LEMMA CopiesInLog ==
    ASSUME NEW r, log \in Seq(Events)
    PROVE  IsFiniteSet(InLog(r)) /\ Cardinality(InLog(r)) \in Nat
<1>1. Len(log) \in Nat /\ InLog(r) \subseteq 1 .. Len(log)
  BY DEF InLog
<1>2. IsFiniteSet(1 .. Len(log))
  BY <1>1, FS_Interval
<1> QED BY <1>1, <1>2, FS_Subset, FS_CardinalityType

\* A set with at most one member more.
LEMMA OneMore ==
    ASSUME NEW S, NEW T, NEW x, IsFiniteSet(S), T \subseteq S \cup {x}
    PROVE  /\ IsFiniteSet(T) /\ Cardinality(T) \in Nat /\ Cardinality(S) \in Nat
           /\ Cardinality(T) <= Cardinality(S) + 1
<1>1. /\ IsFiniteSet(S \cup {x})
      /\ Cardinality(S \cup {x}) = IF x \in S THEN Cardinality(S) ELSE Cardinality(S) + 1
  BY FS_AddElement
<1>2. IsFiniteSet(T) /\ Cardinality(T) <= Cardinality(S \cup {x})
  BY <1>1, FS_Subset
<1>3. Cardinality(T) \in Nat /\ Cardinality(S) \in Nat
  BY <1>2, FS_CardinalityType
<1> QED BY <1>1, <1>2, <1>3

\* One place more in the queues.
LEMMA OnePlaceMore ==
    ASSUME NEW r, NEW place,
           \A o \in Processes, k \in Nat : Place(o, k, r)' => Place(o, k, r) \/ place = <<o, k>>
    PROVE  InQueues(r)' \subseteq InQueues(r) \cup {place}
<1> SUFFICES ASSUME NEW x \in InQueues(r)', x \notin InQueues(r)
             PROVE  x = place
  OBVIOUS
<1>1. PICK o \in Processes, k \in Nat : x = <<o, k>>
  BY DEF InQueues
<1>2. Place(o, k, r)' /\ ~Place(o, k, r)
  BY <1>1 DEF InQueues
<1> QED BY <1>1, <1>2

\* Copies do not come from nowhere: a step that writes nothing, queues nothing
\* and gives no row up for nothing keeps the budget.
LEMMA BudgetKept ==
    ASSUME Inv, Budget, UNCHANGED log,
           \A p \in Processes : StartOf(queue'[p], queue[p]),
           \/ failures' = failures + 1
           \/ /\ failures' = failures
              /\ \A r \in Events : Taken(r) => Taken(r)'
    PROVE  Budget'
<1> SUFFICES ASSUME NEW r \in Events
             PROVE  /\ IsFiniteSet(InQueues(r)')
                    /\ Cardinality(InLog(r)') + Cardinality(InQueues(r)') <=
                          IF Taken(r)' THEN failures' + 1 ELSE failures'
  BY DEF Budget
<1>1. InLog(r)' = InLog(r)
  BY DEF InLog
<1>2. InQueues(r)' \subseteq InQueues(r)
  <2>1. ASSUME NEW x \in Processes \X Nat, Place(x[1], x[2], r)'
        PROVE  Place(x[1], x[2], r)
    <3>1. x[1] \in Processes /\ StartOf(queue'[x[1]], queue[x[1]]) /\ queue[x[1]] \in Seq(Events)
      BY DEF Inv, TypeOK
    <3> QED BY <2>1, <3>1, StartParts DEF Place
  <2> QED BY <2>1 DEF InQueues
<1>3. /\ IsFiniteSet(InQueues(r)')
      /\ Cardinality(InQueues(r)') <= Cardinality(InQueues(r))
      /\ Cardinality(InQueues(r)') \in Nat /\ Cardinality(InQueues(r)) \in Nat
  BY <1>2, FS_Subset, FS_CardinalityType DEF Budget
<1>4. Cardinality(InLog(r)) \in Nat /\ failures \in Nat
  BY CopiesInLog, RelayAssumption DEF Inv, TypeOK
<1>5. Cardinality(InLog(r)) + Cardinality(InQueues(r)) <=
         IF Taken(r) THEN failures + 1 ELSE failures
  BY DEF Budget
<1> QED BY <1>1, <1>3, <1>4, <1>5

\* A batch takes rows that nobody has, once each.
LEMMA FetchBudget ==
    ASSUME Inv, Budget, NEW p \in Processes, Fetch(p)
    PROVE  Budget'
<1>1. UNCHANGED <<state, log, failures>>
  BY DEF Fetch, rowVars
<1>2. PICK rows \in FirstRows(Available) :
        /\ batch' = [batch EXCEPT ![p] = rows]
        /\ \E q \in InOrder(rows) : queue' = [queue EXCEPT ![p] = @ \o q]
  BY DEF Fetch
<1>3. PICK q \in InOrder(rows) : queue' = [queue EXCEPT ![p] = @ \o q]
  BY <1>2
<1>4. rows \subseteq Available /\ IsFiniteSet(rows)
  BY BatchRows DEF Fetch, Available
<1>5. /\ rows \subseteq Events
      /\ \A r \in rows : state[r] = "pending" /\ Unlocked(r)
  BY <1>4 DEF Available, Visible
<1>6. /\ q \in Seq(Events) /\ Len(q) \in Nat
      /\ \A i \in 1 .. Len(q) : q[i] \in rows
      /\ \A i, j \in 1 .. Len(q) : i < j => q[i] # q[j]
  <2>1. Cardinality(rows) \in Nat /\ q \in [1 .. Cardinality(rows) -> rows]
    BY <1>4, FS_CardinalityType DEF InOrder
  <2>2. Len(q) = Cardinality(rows)
    BY <2>1
  <2> QED BY <1>4, <1>5, <2>1, <2>2, Records DEF InOrder
<1>7. /\ queue'[p] = queue[p] \o q /\ queue[p] \in Seq(Events)
      /\ Len(queue[p]) \in Nat /\ Len(queue'[p]) = Len(queue[p]) + Len(q)
      /\ \A i \in 1 .. Len(queue[p]) : queue'[p][i] = queue[p][i]
      /\ \A i \in 1 .. Len(q) : queue'[p][Len(queue[p]) + i] = q[i]
      /\ \A o \in Processes \ {p} : queue'[o] = queue[o]
  <2>1. queue[p] \in Seq(Events) /\ queue'[p] = queue[p] \o q
    BY <1>3 DEF Inv, TypeOK
  <2>2. \A o \in Processes \ {p} : queue'[o] = queue[o]
    BY <1>3 DEF Inv, TypeOK
  <2> QED BY <1>6, <2>1, <2>2, LongerQueue
<1>8. \A r \in Events : Unlocked(r)' <=> Unlocked(r) /\ r \notin rows
  <2>1. batch'[p] = rows /\ \A o \in Processes \ {p} : batch'[o] = batch[o]
    BY <1>2 DEF Inv, TypeOK
  <2>2. batch[p] = {}
    BY DEF Inv, AtWork, Busy, Fetch
  <2> QED BY <2>1, <2>2 DEF Unlocked
<1> SUFFICES ASSUME NEW r \in Events
             PROVE  /\ IsFiniteSet(InQueues(r)')
                    /\ Cardinality(InLog(r)') + Cardinality(InQueues(r)') <=
                          IF Taken(r)' THEN failures' + 1 ELSE failures'
  BY DEF Budget
<1>9. ASSUME NEW o \in Processes, NEW k \in Nat, Place(o, k, r)', ~Place(o, k, r)
      PROVE  o = p /\ \E i \in 1 .. Len(q) : k = Len(queue[p]) + i /\ q[i] = r
  <2>1. o = p
    BY <1>7, <1>9 DEF Place
  <2>2. k \in 1 .. Len(queue'[p]) /\ k \notin 1 .. Len(queue[p]) /\ queue'[p][k] = r
    BY <1>7, <1>9, <2>1 DEF Place
  <2>3. PICK i \in 1 .. Len(q) : k = Len(queue[p]) + i
    <3>1. k - Len(queue[p]) \in 1 .. Len(q) /\ k = Len(queue[p]) + (k - Len(queue[p]))
      BY <1>6, <1>7, <2>2
    <3> QED BY <3>1
  <2>4. q[i] = r
    BY <1>7, <2>2, <2>3
  <2> QED BY <2>1, <2>3, <2>4
<1>10. InLog(r)' = InLog(r)
  BY <1>1 DEF InLog
<1>11. /\ IsFiniteSet(InQueues(r))
       /\ Cardinality(InLog(r)) + Cardinality(InQueues(r)) <=
             IF Taken(r) THEN failures + 1 ELSE failures
       /\ Cardinality(InLog(r)) \in Nat /\ failures \in Nat
  BY CopiesInLog, RelayAssumption DEF Budget, Inv, TypeOK
<1>12. CASE r \in rows
  <2>1. ~Taken(r) /\ Taken(r)'
    BY <1>1, <1>5, <1>8, <1>12 DEF Taken
  <2>2. PICK x : InQueues(r)' \subseteq InQueues(r) \cup {x}
    <3>1. CASE \E i \in 1 .. Len(q) : q[i] = r
      <4>1. PICK i \in 1 .. Len(q) : q[i] = r
        BY <3>1
      <4>2. \A j \in 1 .. Len(q) : q[j] = r => j = i
        BY <1>6, <4>1
      <4>3. \A o \in Processes, k \in Nat :
               Place(o, k, r)' => Place(o, k, r) \/ <<p, Len(queue[p]) + i>> = <<o, k>>
        BY <1>9, <4>2
      <4> QED BY <4>3, OnePlaceMore
    <3>2. CASE ~\E i \in 1 .. Len(q) : q[i] = r
      <4>1. \A o \in Processes, k \in Nat : Place(o, k, r)' => Place(o, k, r)
        BY <1>9, <3>2
      <4> QED BY <4>1, OnePlaceMore
    <3> QED BY <3>1, <3>2
  <2>3. /\ IsFiniteSet(InQueues(r)') /\ Cardinality(InQueues(r)') \in Nat
        /\ Cardinality(InQueues(r)) \in Nat
        /\ Cardinality(InQueues(r)') <= Cardinality(InQueues(r)) + 1
    BY <1>11, <2>2, OneMore
  <2> QED BY <1>1, <1>10, <1>11, <2>1, <2>3
<1>13. CASE r \notin rows
  <2>1. Taken(r)' <=> Taken(r)
    BY <1>1, <1>8, <1>13 DEF Taken
  <2>2. \A y \in Processes \X Nat : Place(y[1], y[2], r)' => Place(y[1], y[2], r)
    BY <1>6, <1>9, <1>13
  <2>3. InQueues(r)' \subseteq InQueues(r)
    BY <2>2 DEF InQueues
  <2>4. /\ IsFiniteSet(InQueues(r)')
        /\ Cardinality(InQueues(r)') <= Cardinality(InQueues(r))
        /\ Cardinality(InQueues(r)') \in Nat /\ Cardinality(InQueues(r)) \in Nat
    BY <1>11, <2>3, FS_Subset, FS_CardinalityType
  <2> QED BY <1>1, <1>10, <1>11, <2>1, <2>4
<1> QED BY <1>12, <1>13

\* Writing the head of a queue takes it from there to the topic.
LEMMA PublishBudget ==
    ASSUME Inv, Budget, NEW p \in Processes, Publish(p)
    PROVE  Budget'
<1> DEFINE hd == Head(queue[p])
<1>1. /\ queue[p] \in Seq(Events) /\ queue[p] # <<>> /\ log \in Seq(Events)
      /\ log' = Append(log, hd)
      /\ queue' = [queue EXCEPT ![p] = Tail(@)]
      /\ UNCHANGED <<state, batch, failures>>
  BY DEF Inv, TypeOK, Publish, rowVars
<1>2. /\ Len(queue[p]) \in Nat /\ Len(queue[p]) >= 1 /\ hd = queue[p][1] /\ hd \in Events
      /\ Len(queue'[p]) = Len(queue[p]) - 1
      /\ \A i \in 1 .. Len(queue[p]) - 1 : queue'[p][i] = queue[p][i + 1]
      /\ \A o \in Processes \ {p} : queue'[o] = queue[o]
  <2>1. queue'[p] = Tail(queue[p]) /\ \A o \in Processes \ {p} : queue'[o] = queue[o]
    BY <1>1 DEF Inv, TypeOK
  <2>2. /\ Len(queue[p]) \in Nat /\ Len(queue[p]) >= 1 /\ hd = queue[p][1] /\ hd \in Events
        /\ Len(Tail(queue[p])) = Len(queue[p]) - 1
        /\ \A i \in 1 .. Len(queue[p]) - 1 : Tail(queue[p])[i] = queue[p][i + 1]
    BY <1>1, RestOfQueue
  <2> QED BY <2>1, <2>2
<1> HIDE DEF hd
<1>3. /\ Len(log') = Len(log) + 1 /\ Len(log) \in Nat
      /\ \A i \in 1 .. Len(log) : log'[i] = log[i]
      /\ log'[Len(log) + 1] = hd
  BY <1>1, <1>2, LongerLog
<1> SUFFICES ASSUME NEW r \in Events
             PROVE  /\ IsFiniteSet(InQueues(r)')
                    /\ Cardinality(InLog(r)') + Cardinality(InQueues(r)') <=
                          IF Taken(r)' THEN failures' + 1 ELSE failures'
  BY DEF Budget
<1>4. /\ IsFiniteSet(InQueues(r)) /\ IsFiniteSet(InLog(r))
      /\ Cardinality(InLog(r)) + Cardinality(InQueues(r)) <=
            IF Taken(r) THEN failures + 1 ELSE failures
      /\ Cardinality(InLog(r)) \in Nat /\ failures \in Nat
      /\ Cardinality(InQueues(r)) \in Nat
  BY CopiesInLog, RelayAssumption, FS_CardinalityType DEF Budget, Inv, TypeOK
<1>5. Taken(r)' <=> Taken(r)
  BY <1>1 DEF Taken, Unlocked
\* The places of r, each one step ahead in p's queue.
<1> DEFINE back(x) == IF x[1] = p THEN <<p, x[2] + 1>> ELSE x
           move == [x \in InQueues(r)' |-> back(x)]
           left == IF r = hd THEN InQueues(r) \ {<<p, 1>>} ELSE InQueues(r)
<1>6. \A x \in InQueues(r)' : /\ x \in Processes \X Nat /\ back(x) \in left
  <2> SUFFICES ASSUME NEW o \in Processes, NEW k \in Nat, Place(o, k, r)'
               PROVE  back(<<o, k>>) \in left
    BY DEF InQueues
  <2>1. CASE o = p
    <3>0. k \in 1 .. Len(queue'[p]) /\ queue'[p][k] = r
      BY <2>1 DEF Place
    <3>1. /\ k + 1 \in Nat /\ k + 1 # 1 /\ k + 1 \in 1 .. Len(queue[p])
          /\ queue[p][k + 1] = r
      BY <1>2, <3>0
    <3>2. <<p, k + 1>> \in InQueues(r) /\ <<p, k + 1>> # <<p, 1>>
      BY <3>1 DEF InQueues, Place
    <3>3. back(<<o, k>>) = <<p, k + 1>>
      BY <2>1
    <3> QED BY <3>2, <3>3
  <2>2. CASE o # p
    <3>1. <<o, k>> \in InQueues(r) /\ <<o, k>> # <<p, 1>>
      BY <1>2, <2>2 DEF InQueues, Place
    <3>2. back(<<o, k>>) = <<o, k>>
      BY <2>2
    <3> QED BY <3>1, <3>2
  <2> QED BY <2>1, <2>2
<1>7. \A x, y \in Processes \X Nat : back(x) = back(y) => x = y
  <2> SUFFICES ASSUME NEW a \in Processes, NEW i \in Nat, NEW b \in Processes, NEW j \in Nat,
                      back(<<a, i>>) = back(<<b, j>>)
               PROVE  a = b /\ i = j
    OBVIOUS
  <2>1. CASE a = p /\ b = p
    <3>1. <<p, i + 1>> = <<p, j + 1>>
      BY <2>1
    <3> QED BY <2>1, <3>1
  <2>2. CASE a = p /\ b # p
    BY <2>2
  <2>3. CASE a # p /\ b = p
    BY <2>3
  <2>4. CASE a # p /\ b # p
    BY <2>4
  <2> QED BY <2>1, <2>2, <2>3, <2>4
<1> HIDE DEF back, left
<1>8. move \in Injection(InQueues(r)', left)
  <2>1. \A x \in InQueues(r)' : back(x) \in left
    BY <1>6
  <2>2. \A x, y \in InQueues(r)' : back(x) = back(y) => x = y
    BY <1>6, <1>7
  <2>3. move \in [InQueues(r)' -> left] /\ \A x \in InQueues(r)' : move[x] = back(x)
    BY <2>1
  <2> HIDE DEF move
  <2>4. \A x, y \in InQueues(r)' : move[x] = move[y] => x = y
    BY <2>2, <2>3
  <2> QED BY <2>3, <2>4 DEF Injection, IsInjective
<1>9. /\ IsFiniteSet(left)
      /\ Cardinality(left) = IF r = hd THEN Cardinality(InQueues(r)) - 1
                             ELSE Cardinality(InQueues(r))
  <2>1. r = hd => <<p, 1>> \in InQueues(r)
    <3>1. 1 \in 1 .. Len(queue[p]) /\ 1 \in Nat
      BY <1>2
    <3> QED BY <1>2, <3>1 DEF InQueues, Place
  <2> QED BY <1>4, <2>1, FS_RemoveElement DEF left
<1>10. /\ IsFiniteSet(InQueues(r)')
       /\ Cardinality(InQueues(r)') <= Cardinality(left)
       /\ Cardinality(InQueues(r)') \in Nat
  <2> HIDE DEF move
  <2> QED BY <1>8, <1>9, FS_Injection, FS_CardinalityType
<1>11. /\ Cardinality(InLog(r)') \in Nat
       /\ r = hd => Cardinality(InLog(r)') <= Cardinality(InLog(r)) + 1
       /\ r # hd => Cardinality(InLog(r)') = Cardinality(InLog(r))
  <2>1. InLog(r)' \subseteq InLog(r) \cup {Len(log) + 1}
    BY <1>3 DEF InLog
  <2>2. r # hd => InLog(r)' = InLog(r)
    BY <1>3 DEF InLog
  <2> QED BY <1>4, <2>1, <2>2, OneMore
<1> QED BY <1>1, <1>4, <1>5, <1>9, <1>10, <1>11

\* Writing a batch once more is a failure, and repeats its rows once.
LEMMA ResendBudget ==
    ASSUME Inv, Budget, NEW p \in Processes, Resend(p)
    PROVE  Budget'
<1>1. UNCHANGED <<state, log, batch>> /\ failures' = failures + 1 /\ relay[p] = "mark"
  BY DEF Resend, CountFailure, rowVars
<1>2. PICK q \in InOrder(batch[p]) : queue' = [queue EXCEPT ![p] = q]
  BY DEF Resend
<1>3. batch[p] \subseteq Events /\ IsFiniteSet(batch[p]) /\ queue[p] = <<>>
  BY <1>1, FiniteEvents, FS_Subset DEF Inv, TypeOK, AtWork
<1>4. /\ Len(q) \in Nat
      /\ \A i \in 1 .. Len(q) : q[i] \in batch[p]
      /\ \A i, j \in 1 .. Len(q) : i < j => q[i] # q[j]
  <2>1. Cardinality(batch[p]) \in Nat /\ q \in [1 .. Cardinality(batch[p]) -> batch[p]]
    BY <1>3, FS_CardinalityType DEF InOrder
  <2>2. Len(q) = Cardinality(batch[p])
    BY <2>1
  <2> QED BY <1>3, <2>1, <2>2, Records DEF InOrder
<1>5. queue'[p] = q /\ \A o \in Processes \ {p} : queue'[o] = queue[o]
  BY <1>2 DEF Inv, TypeOK
<1> SUFFICES ASSUME NEW r \in Events
             PROVE  /\ IsFiniteSet(InQueues(r)')
                    /\ Cardinality(InLog(r)') + Cardinality(InQueues(r)') <=
                          IF Taken(r)' THEN failures' + 1 ELSE failures'
  BY DEF Budget
<1>6. /\ IsFiniteSet(InQueues(r))
      /\ Cardinality(InLog(r)) + Cardinality(InQueues(r)) <=
            IF Taken(r) THEN failures + 1 ELSE failures
      /\ Cardinality(InLog(r)) \in Nat /\ failures \in Nat
  BY CopiesInLog, RelayAssumption DEF Budget, Inv, TypeOK
<1>8. InLog(r)' = InLog(r) /\ (Taken(r)' <=> Taken(r))
  BY <1>1 DEF InLog, Taken, Unlocked
<1>7. PICK x : InQueues(r)' \subseteq InQueues(r) \cup {x}
  <2>1. CASE \E i \in 1 .. Len(q) : q[i] = r
    <3>1. PICK i \in 1 .. Len(q) : q[i] = r
      BY <2>1
    <3>2. \A j \in 1 .. Len(q) : q[j] = r => j = i
      BY <1>4, <3>1
    <3>3. \A o \in Processes, k \in Nat :
             Place(o, k, r)' => Place(o, k, r) \/ <<p, i>> = <<o, k>>
      BY <1>5, <3>2 DEF Place
    <3> QED BY <3>3, OnePlaceMore
  <2>2. CASE ~\E i \in 1 .. Len(q) : q[i] = r
    <3>1. \A o \in Processes, k \in Nat : Place(o, k, r)' => Place(o, k, r)
      BY <1>5, <2>2 DEF Place
    <3> QED BY <3>1, OnePlaceMore
  <2> QED BY <2>1, <2>2
<1>9. /\ IsFiniteSet(InQueues(r)') /\ Cardinality(InQueues(r)') \in Nat
      /\ Cardinality(InQueues(r)) \in Nat
      /\ Cardinality(InQueues(r)') <= Cardinality(InQueues(r)) + 1
  BY <1>6, <1>7, OneMore
<1> QED BY <1>1, <1>6, <1>8, <1>9

\* The budget is kept by every step.
LEMMA BudgetInductive ==
    ASSUME Inv, Budget, [Next]_vars
    PROVE  Budget'
<1>0. queue' = queue => \A p \in Processes : StartOf(queue'[p], queue[p])
  BY Starts DEF Inv, TypeOK
<1>1. ASSUME NEW r \in Events, state' = [state EXCEPT ![r] = "open"] \/ state' = [state EXCEPT ![r] = "pending"]
                               \/ state' = [state EXCEPT ![r] = "absent"],
             state[r] # "sent", UNCHANGED <<batch, queue, log, failures>>
      PROVE  Budget'
  <2>1. \A s \in Events : Taken(s) => Taken(s)'
    BY <1>1 DEF Inv, TypeOK, Taken, Unlocked
  <2> QED BY <1>0, <1>1, <2>1, BudgetKept
<1>2. ASSUME NEW p \in Processes, NEW r \in Events, BeginTx(p, r)
      PROVE  Budget'
  BY <1>1, <1>2 DEF BeginTx, relayVars
<1>3. CASE EndTx
  <2>1. PICK r \in Events : CommitTx(r) \/ AbortTx(r)
    BY <1>3 DEF EndTx
  <2> QED BY <1>1, <2>1 DEF CommitTx, AbortTx, relayVars
<1>4. ASSUME NEW p \in Processes, Mark(p)
      PROVE  Budget'
  <2>1. UNCHANGED <<log, queue, failures>> /\ MarkSent(p) /\ EndBatch(p, "idle")
    BY <1>4 DEF Mark
  <2>2. ASSUME NEW r \in Events, Taken(r) PROVE Taken(r)'
    <3>1. state'[r] = IF r \in batch[p] THEN "sent" ELSE state[r]
      BY <2>1 DEF MarkSent
    <3>2. \A q \in Processes \ {p} : batch'[q] = batch[q]
      BY <2>1 DEF EndBatch, Inv, TypeOK
    <3> QED BY <2>2, <3>1, <3>2 DEF Taken, Unlocked
  <2> QED BY <1>0, <2>1, <2>2, BudgetKept
<1>5. ASSUME NEW p \in Processes, BatchFails(p) \/ ContextEnds(p) \/ Crash(p)
      PROVE  Budget'
  <2>1. /\ log' = log /\ failures' = failures + 1
        /\ queue' = queue \/ queue' = [queue EXCEPT ![p] = <<>>] \/ BatchFails(p)
    BY <1>5 DEF BatchFails, ContextEnds, Crash, CountFailure
  <2>2. \A q \in Processes : StartOf(queue'[q], queue[q])
    BY <2>1, QueueKept, KeptQueues DEF Inv
  <2> QED BY <2>1, <2>2, BudgetKept
<1>6. ASSUME UNCHANGED <<state, batch, queue, log, failures>>
      PROVE  Budget'
  <2>1. \A r \in Events : Taken(r) => Taken(r)'
    BY <1>6 DEF Taken, Unlocked
  <2> QED BY <1>0, <1>6, <2>1, BudgetKept
<1>7. ASSUME NEW p \in Processes, Shutdown(p) \/ Signal(p) \/ Start(p)
      PROVE  Budget'
  BY <1>6, <1>7 DEF Shutdown, StartDrain, EndDrain, CloseHTTP, Stop, Signal, Start, rowVars, relayVars
<1>8. CASE UNCHANGED vars
  BY <1>6, <1>8 DEF vars, rowVars, relayVars
<1> QED BY <1>2, <1>3, <1>4, <1>5, <1>7, <1>8, FetchBudget, PublishBudget, ResendBudget
        DEF Next, Work

\* Nothing has been written yet.
LEMMA BudgetInitially == Init => Budget
<1> SUFFICES ASSUME Init, NEW r \in Events
             PROVE  /\ IsFiniteSet(InQueues(r))
                    /\ Cardinality(InLog(r)) + Cardinality(InQueues(r)) <=
                          IF Taken(r) THEN failures + 1 ELSE failures
  BY DEF Budget
<1>1. InLog(r) = {}
  BY DEF Init, InLog
<1>2. InQueues(r) = {}
  BY DEF Init, InQueues, Place
<1>3. failures = 0
  BY DEF Init
<1> QED BY <1>1, <1>2, <1>3, FS_EmptySet

\* A row is never written more often than failures excuse.
LEMMA BudgetBoundsCopies == Inv /\ Budget => PublishedOnce
<1> SUFFICES ASSUME Inv, Budget, NEW r \in Events
             PROVE  Cardinality(InLog(r)) <= 1 + failures
  BY DEF PublishedOnce, Copies, InLog
<1>1. Cardinality(InLog(r)) \in Nat /\ Cardinality(InQueues(r)) \in Nat /\ failures \in Nat
  BY CopiesInLog, FS_CardinalityType, RelayAssumption DEF Budget, Inv, TypeOK
<1>2. Cardinality(InLog(r)) + Cardinality(InQueues(r)) <=
         IF Taken(r) THEN failures + 1 ELSE failures
  BY DEF Budget
<1> QED BY <1>1, <1>2

\* However many relays share the table, a row is published once, and once more
\* for each failure at most.
THEOREM PublishedOncePerFailure == Spec => []PublishedOnce
BY BudgetInitially, BudgetInductive, BudgetBoundsCopies, RelayInvariance, PTL DEF Spec

-----------------------------------------------------------------------------
(* The relays implement the topic.                                         *)

\* What waits in a queue has been committed.
QueuedCommitted ==
    \A p \in Processes : \A i \in 1 .. Len(queue[p]) : Committed(queue[p][i])

\* Queues take committed rows only, and a committed row stays committed.
LEMMA CommittedStep ==
    ASSUME Inv, [Next]_vars, NEW r \in Events, Committed(r)
    PROVE  Committed(r)'
<1>1. state[r] \in {"pending", "sent"}
  BY DEF Committed
<1>2. state' = state \/ state'[r] \in {"pending", "sent"}
  <2>1. CASE EndTx \/ UNCHANGED vars \/ \E p \in Processes, s \in Events : BeginTx(p, s)
    BY <1>1, <2>1 DEF EndTx, CommitTx, AbortTx, BeginTx, vars, rowVars, Inv, TypeOK
  <2>2. ASSUME NEW p \in Processes, Work(p) \/ Shutdown(p) \/ Resend(p) \/ Signal(p) \/ Start(p)
        PROVE  state' = state \/ MarkSent(p)
    BY <2>2 DEF Work, Fetch, Publish, Mark, Shutdown, StartDrain, EndDrain, CloseHTTP, Stop,
       Resend, Signal, Start, rowVars
  <2>3. ASSUME NEW p \in Processes, BatchFails(p) \/ ContextEnds(p)
        PROVE  state' = state \/ MarkSent(p)
    BY <2>3 DEF BatchFails, ContextEnds
  <2>4. ASSUME NEW p \in Processes, Crash(p)
        PROVE  state'[r] = state[r]
    BY <1>1, <2>4 DEF Crash, OpenRows
  <2>5. ASSUME NEW p \in Processes, MarkSent(p)
        PROVE  state'[r] \in {"pending", "sent"}
    BY <1>1, <2>5 DEF MarkSent
  <2> QED BY <1>1, <2>1, <2>2, <2>3, <2>4, <2>5 DEF Next
<1> QED BY <1>1, <1>2 DEF Committed

\* Every step keeps what waits in the queues committed.
LEMMA QueuedInductive ==
    ASSUME Inv, QueuedCommitted, [Next]_vars
    PROVE  QueuedCommitted'
<1>1. ASSUME \A p \in Processes : StartOf(queue'[p], queue[p])
      PROVE  QueuedCommitted'
  <2> SUFFICES ASSUME NEW p \in Processes, NEW i \in 1 .. Len(queue'[p]), NEW r, r = queue'[p][i]
               PROVE  Committed(r)'
    BY DEF QueuedCommitted, Committed
  <2>1. StartOf(queue'[p], queue[p]) /\ queue[p] \in Seq(Events)
    BY <1>1 DEF Inv, TypeOK
  <2>2. queue[p] \in Seq(Events) /\ i \in 1 .. Len(queue[p]) /\ r = queue[p][i]
    BY <2>1, StartParts
  <2>3. r \in Events /\ Committed(r)
    BY <2>2 DEF QueuedCommitted
  <2> QED BY <2>3, CommittedStep
<1>2. ASSUME NEW p \in Processes, Fetch(p)
      PROVE  QueuedCommitted'
  <2>1. PICK rows \in FirstRows(Available) : \E q \in InOrder(rows) : queue' = [queue EXCEPT ![p] = @ \o q]
    BY <1>2 DEF Fetch
  <2>2. PICK q \in InOrder(rows) : queue' = [queue EXCEPT ![p] = @ \o q]
    BY <2>1
  <2>3. rows \subseteq Available /\ IsFiniteSet(rows)
    BY <1>2, BatchRows DEF Fetch, Available
  <2>4. rows \subseteq Events /\ \A r \in rows : Committed(r)
    BY <2>3 DEF Available, Visible, Committed
  <2>5. q \in Seq(Events) /\ Len(q) \in Nat /\ \A i \in 1 .. Len(q) : q[i] \in rows
    BY <2>3, <2>4, Records
  <2>6. /\ queue'[p] = queue[p] \o q /\ queue[p] \in Seq(Events)
        /\ \A o \in Processes \ {p} : queue'[o] = queue[o]
    BY <2>2 DEF Inv, TypeOK
  <2>7. /\ Len(queue[p]) \in Nat /\ Len(queue'[p]) = Len(queue[p]) + Len(q)
        /\ \A i \in 1 .. Len(queue[p]) : queue'[p][i] = queue[p][i]
        /\ \A i \in 1 .. Len(q) : queue'[p][Len(queue[p]) + i] = q[i]
    BY <2>5, <2>6, LongerQueue
  <2>8. state' = state
    BY <1>2 DEF Fetch, rowVars
  <2> SUFFICES ASSUME NEW o \in Processes, NEW k \in 1 .. Len(queue'[o])
               PROVE  Committed(queue'[o][k])
    BY <2>8 DEF QueuedCommitted, Committed
  <2>9. CASE o # p \/ k \in 1 .. Len(queue[p])
    BY <2>6, <2>7, <2>9 DEF QueuedCommitted
  <2>10. CASE o = p /\ k \notin 1 .. Len(queue[p])
    <3>1. k - Len(queue[p]) \in 1 .. Len(q) /\ k = Len(queue[p]) + (k - Len(queue[p]))
      BY <2>5, <2>7, <2>10
    <3>2. PICK i \in 1 .. Len(q) : k = Len(queue[p]) + i
      BY <3>1
    <3> QED BY <2>4, <2>5, <2>7, <2>10, <3>2
  <2> QED BY <2>9, <2>10
<1>3. ASSUME NEW p \in Processes, Publish(p)
      PROVE  QueuedCommitted'
  <2>1. /\ queue[p] \in Seq(Events) /\ queue[p] # <<>> /\ state' = state
        /\ queue'[p] = Tail(queue[p]) /\ \A o \in Processes \ {p} : queue'[o] = queue[o]
    BY <1>3 DEF Inv, TypeOK, Publish, rowVars
  <2>2. /\ Len(queue[p]) \in Nat /\ Len(queue'[p]) = Len(queue[p]) - 1
        /\ \A i \in 1 .. Len(queue[p]) - 1 : queue'[p][i] = queue[p][i + 1]
    BY <2>1, RestOfQueue
  <2> SUFFICES ASSUME NEW o \in Processes, NEW k \in 1 .. Len(queue'[o])
               PROVE  Committed(queue'[o][k])
    BY <2>1 DEF QueuedCommitted, Committed
  <2>3. CASE o # p
    BY <2>1, <2>3 DEF QueuedCommitted
  <2>4. CASE o = p
    <3>1. k + 1 \in 1 .. Len(queue[p]) /\ queue'[p][k] = queue[p][k + 1]
      BY <2>2, <2>4
    <3> QED BY <2>4, <3>1 DEF QueuedCommitted
  <2> QED BY <2>3, <2>4
<1>4. ASSUME NEW p \in Processes, Resend(p)
      PROVE  QueuedCommitted'
  <2>1. PICK q \in InOrder(batch[p]) : queue' = [queue EXCEPT ![p] = q]
    BY <1>4 DEF Resend
  <2>2. batch[p] \subseteq Events /\ IsFiniteSet(batch[p]) /\ state' = state
    BY <1>4, FiniteEvents, FS_Subset DEF Inv, TypeOK, Resend, rowVars
  <2>3. \A i \in 1 .. Len(q) : q[i] \in batch[p]
    BY <2>2, Records
  <2>4. \A r \in batch[p] : Committed(r)
    BY <2>2 DEF Inv, Locked, Committed
  <2>5. queue'[p] = q /\ \A o \in Processes \ {p} : queue'[o] = queue[o]
    BY <2>1 DEF Inv, TypeOK
  <2> QED BY <2>2, <2>3, <2>4, <2>5 DEF QueuedCommitted, Committed
<1>5. ASSUME NEW p \in Processes,
             \/ Mark(p) \/ Shutdown(p) \/ BatchFails(p) \/ ContextEnds(p)
             \/ Signal(p) \/ Crash(p) \/ Start(p)
      PROVE  \A q \in Processes : StartOf(queue'[q], queue[q])
  <2>1. queue' = queue \/ queue' = [queue EXCEPT ![p] = <<>>] \/ BatchFails(p)
    BY <1>5 DEF Mark, Shutdown, StartDrain, EndDrain, CloseHTTP, Stop, ContextEnds,
       Signal, Crash, Start, relayVars, vars
  <2> QED BY <2>1, QueueKept, KeptQueues DEF Inv
<1>6. ASSUME EndTx \/ UNCHANGED vars \/ \E p \in Processes, r \in Events : BeginTx(p, r)
      PROVE  queue' = queue
  BY <1>6 DEF EndTx, CommitTx, AbortTx, BeginTx, vars, relayVars
<1>7. queue' = queue => \A q \in Processes : StartOf(queue'[q], queue[q])
  BY Starts DEF Inv, TypeOK
<1> QED BY <1>1, <1>2, <1>3, <1>4, <1>5, <1>6, <1>7 DEF Next, Work

\* The records up to the i-th that are like it.
EarlierCopies(i) == {j \in 1 .. i : log[j] = log[i]}

\* The length of a log whose records occur at most n times each.
LEMMA LengthByCopies ==
    ASSUME log \in Seq(Events), NEW n \in Nat,
           \A r \in Events : Cardinality(InLog(r)) <= n
    PROVE  /\ IsFiniteSet(Published) /\ Cardinality(Published) \in Nat
           /\ Published \subseteq Events
           /\ Len(log) \in Nat
           /\ Len(log) <= Cardinality(Published) * n
<1> DEFINE rank == [i \in 1 .. Len(log) |-> <<log[i], Cardinality(EarlierCopies(i))>>]
<1>1. Len(log) \in Nat /\ \A i \in 1 .. Len(log) : log[i] \in Events
  OBVIOUS
<1>2. Published \subseteq Events /\ IsFiniteSet(Published) /\ Cardinality(Published) \in Nat
  <2>1. Published \subseteq Events
    BY <1>1 DEF Published
  <2> QED BY <2>1, FiniteEvents, FS_Subset, FS_CardinalityType
<1>3. ASSUME NEW i \in 1 .. Len(log)
      PROVE  /\ IsFiniteSet(EarlierCopies(i)) /\ IsFiniteSet(InLog(log[i]))
             /\ Cardinality(EarlierCopies(i)) \in 1 .. n
  <2>1. EarlierCopies(i) \subseteq InLog(log[i]) /\ i \in EarlierCopies(i)
    BY <1>1 DEF EarlierCopies, InLog
  <2>2. IsFiniteSet(InLog(log[i])) /\ Cardinality(InLog(log[i])) \in Nat
    BY CopiesInLog
  <2>3. /\ IsFiniteSet(EarlierCopies(i)) /\ Cardinality(EarlierCopies(i)) \in Nat
        /\ Cardinality(EarlierCopies(i)) <= Cardinality(InLog(log[i]))
    BY <2>1, <2>2, FS_Subset, FS_CardinalityType
  <2>4. Cardinality(EarlierCopies(i)) # 0
    BY <2>1, <2>3, FS_EmptySet
  <2>5. Cardinality(InLog(log[i])) <= n
    BY <1>1
  <2> QED BY <2>2, <2>3, <2>4, <2>5
<1>4. ASSUME NEW i \in 1 .. Len(log), NEW j \in 1 .. Len(log), i < j, log[i] = log[j]
      PROVE  Cardinality(EarlierCopies(i)) < Cardinality(EarlierCopies(j))
  <2>1. EarlierCopies(i) \subseteq EarlierCopies(j) \ {j} /\ j \in EarlierCopies(j)
    BY <1>1, <1>4 DEF EarlierCopies
  <2>2. IsFiniteSet(EarlierCopies(j)) /\ Cardinality(EarlierCopies(j)) \in Nat
        /\ Cardinality(EarlierCopies(i)) \in Nat
    BY <1>3, FS_CardinalityType
  <2>3. /\ IsFiniteSet(EarlierCopies(j) \ {j})
        /\ Cardinality(EarlierCopies(j) \ {j}) = Cardinality(EarlierCopies(j)) - 1
    BY <2>1, <2>2, FS_RemoveElement
  <2>4. Cardinality(EarlierCopies(i)) <= Cardinality(EarlierCopies(j) \ {j})
    BY <2>1, <2>3, FS_Subset
  <2> QED BY <2>2, <2>3, <2>4
<1>5. rank \in Injection(1 .. Len(log), Published \X (1 .. n))
  <2>1. \A i \in 1 .. Len(log) : <<log[i], Cardinality(EarlierCopies(i))>> \in Published \X (1 .. n)
    BY <1>3 DEF Published
  <2>2. rank \in [1 .. Len(log) -> Published \X (1 .. n)]
        /\ \A i \in 1 .. Len(log) : rank[i] = <<log[i], Cardinality(EarlierCopies(i))>>
    BY <2>1
  <2> HIDE DEF rank
  <2>3. ASSUME NEW i \in 1 .. Len(log), NEW j \in 1 .. Len(log), rank[i] = rank[j]
        PROVE  i = j
    <3>1. /\ log[i] = log[j]
          /\ Cardinality(EarlierCopies(i)) = Cardinality(EarlierCopies(j))
          /\ Cardinality(EarlierCopies(i)) \in 1 .. n
      BY <1>3, <2>2, <2>3
    <3>2. ~(i < j) /\ ~(j < i)
      BY <1>3, <1>4, <3>1
    <3> QED BY <1>1, <3>2
  <2> QED BY <2>2, <2>3 DEF Injection, IsInjective
<1> HIDE DEF rank
<1>6. /\ IsFiniteSet(Published \X (1 .. n))
      /\ Cardinality(Published \X (1 .. n)) = Cardinality(Published) * n
  <2>1. IsFiniteSet(1 .. n) /\ Cardinality(1 .. n) = n
    BY FS_Interval
  <2> QED BY <1>2, <2>1, FS_Product
<1>7. Cardinality(1 .. Len(log)) <= Cardinality(Published \X (1 .. n))
  BY <1>5, <1>6, FS_Injection
<1>8. Cardinality(1 .. Len(log)) = Len(log)
  <2>1. \A m \in Nat : Cardinality(1 .. m) = m
    BY FS_Interval
  <2> QED BY <1>1, <2>1
<1> QED BY <1>1, <1>2, <1>6, <1>7, <1>8

\* The topic counts as everybody does.
LEMMA TopicCounts == \A S : Topic!Cardinality(S) = Cardinality(S)
BY DEF Topic!Cardinality, Cardinality

\* The topic has room for one more repetition whenever a relay makes one.
LEMMA RoomForRepetition ==
    ASSUME Inv, PublishedOnce
    PROVE  Topic!Room
<1>1. log \in Seq(Events) /\ failures \in Nat /\ failures <= MaxFailures /\ MaxFailures \in Nat
  BY RelayAssumption DEF Inv, TypeOK
<1>2. ASSUME NEW r \in Events PROVE Cardinality(InLog(r)) <= MaxFailures + 1
  <2>1. Cardinality(InLog(r)) \in Nat
    BY <1>1, CopiesInLog
  <2>2. Cardinality(InLog(r)) <= 1 + failures
    BY DEF PublishedOnce, Copies, InLog
  <2> QED BY <1>1, <2>1, <2>2
<1>3. /\ IsFiniteSet(Published) /\ Cardinality(Published) \in Nat /\ Published \subseteq Events
      /\ Len(log) \in Nat /\ Len(log) <= Cardinality(Published) * (MaxFailures + 1)
  BY <1>1, <1>2, LengthByCopies
<1>4. PICK rest : rest = Events \ Published
  OBVIOUS
<1>8. /\ Cardinality(rest) \in Nat
      /\ Cardinality(Events) = Cardinality(Published) + Cardinality(rest)
  <2>1. IsFiniteSet(rest) /\ Cardinality(rest) \in Nat
    BY <1>4, FiniteEvents, FS_Subset, FS_CardinalityType
  <2>2. Published \cup rest = Events /\ Published \cap rest = {}
    BY <1>3, <1>4
  <2>3. Cardinality(Published \cup rest) =
           Cardinality(Published) + Cardinality(rest) - Cardinality(Published \cap rest)
    BY <1>3, <2>1, FS_Union
  <2>4. Cardinality(Events) =
           Cardinality(Published) + Cardinality(rest) - Cardinality({})
    BY <2>2, <2>3, Zenon
  <2> QED BY <1>3, <2>1, <2>4, FS_EmptySet
<1>5. \A a, b, n, l \in Nat : l <= a * (n + 1) => l + b < (a + b) * (n + 1) + 1
  <2> SUFFICES ASSUME NEW a \in Nat, NEW b \in Nat, NEW n \in Nat, NEW l \in Nat,
                      l <= a * (n + 1)
               PROVE  l + b < (a + b) * (n + 1) + 1
    OBVIOUS
  <2>1. (a + b) * (n + 1) = a * (n + 1) + b * n + b
    OBVIOUS
  <2>2. b * n \in Nat /\ a * (n + 1) \in Nat
    OBVIOUS
  <2> QED BY <2>1, <2>2
<1>6. Len(log) + Cardinality(rest) <
         (Cardinality(Published) + Cardinality(rest)) * (MaxFailures + 1) + 1
  BY <1>1, <1>3, <1>5, <1>8
<1>7. Topic!Records = Published
  BY DEF Topic!Records, Published
<1>9. Topic!Room <=>
         Len(log) + Cardinality(rest) < Cardinality(Events) * (MaxFailures + 1) + 1
  BY <1>4, <1>7, TopicCounts DEF Topic!Room
<1> QED BY <1>6, <1>8, <1>9, Zenon

\* A step of the outbox announces a row, publishes one, or changes neither.
LEMMA TopicStep ==
    ASSUME Inv, QueuedCommitted, PublishedOnce, [Next]_vars
    PROVE  \/ Topic!Next
           \/ UNCHANGED <<{r \in Events : Committed(r)}, log>>
<1>1. Topic!Records = Published
  BY DEF Topic!Records, Published
<1>2. \A r \in Events : Committed(r) => Committed(r)'
  BY CommittedStep
<1>3. CASE \E p \in Processes : Publish(p)
  <2>1. PICK p \in Processes : Publish(p)
    BY <1>3
  <2>2. /\ queue[p] \in Seq(Events) /\ queue[p] # <<>> /\ state' = state
        /\ log' = Append(log, Head(queue[p]))
    BY <2>1 DEF Inv, TypeOK, Publish, rowVars
  <2>3. PICK hd \in Events : hd = Head(queue[p])
    BY <2>2, RestOfQueue
  <2>4. Committed(hd)
    <3>1. 1 \in 1 .. Len(queue[p]) /\ hd = queue[p][1]
      BY <2>2, <2>3, RestOfQueue
    <3> QED BY <3>1 DEF QueuedCommitted
  <2>5. UNCHANGED {r \in Events : Committed(r)}
    BY <2>2 DEF Committed
  <2>6. CASE hd \in Published
    BY <1>1, <2>2, <2>3, <2>5, <2>6, RoomForRepetition DEF Topic!Next, Topic!WriteMore
  <2>7. CASE hd \notin Published
    BY <1>1, <2>2, <2>3, <2>4, <2>5, <2>7 DEF Topic!Next, Topic!Publish
  <2> QED BY <2>6, <2>7
<1>4. CASE EndTx
  <2>1. PICK r \in Events : CommitTx(r) \/ AbortTx(r)
    BY <1>4 DEF EndTx
  <2>2. log' = log /\ state[r] = "open"
    BY <2>1 DEF CommitTx, AbortTx
  <2>3. CASE CommitTx(r)
    <3>1. {s \in Events : Committed(s)'} = {s \in Events : Committed(s)} \cup {r}
      BY <2>3 DEF Inv, TypeOK, CommitTx, Committed
    <3> QED BY <2>2, <3>1 DEF Topic!Next, Topic!Announce
  <2>4. CASE AbortTx(r)
    <3>1. \A s \in Events : Committed(s)' <=> Committed(s)
      BY <2>4 DEF Inv, TypeOK, AbortTx, Committed
    <3> QED BY <2>2, <3>1
  <2> QED BY <2>1, <2>3, <2>4
<1>5. CASE ~EndTx /\ ~\E p \in Processes : Publish(p)
  <2>1. log' = log
    BY <1>5
    DEF Next, Work, Shutdown, BeginTx, Fetch, Mark, BatchFails, Resend, Signal, ContextEnds,
        StartDrain, EndDrain, CloseHTTP, Stop, Crash, Start, vars
  <2>2. ASSUME NEW r \in Events, ~Committed(r) PROVE ~Committed(r)'
    <3>1. state[r] \in {"absent", "open"} /\ \A p \in Processes : r \notin batch[p]
      BY <2>2 DEF Inv, TypeOK, Locked, Committed
    <3>2. ASSUME NEW p \in Processes, NEW s \in Events, BeginTx(p, s)
          PROVE  state'[r] \in {"absent", "open"}
      BY <3>1, <3>2 DEF Inv, TypeOK, BeginTx
    <3>3. ASSUME NEW p \in Processes, MarkSent(p) \/ Crash(p)
          PROVE  state'[r] \in {"absent", "open"}
      BY <3>1, <3>3 DEF MarkSent, Crash
    <3>4. ASSUME NEW p \in Processes,
                 Work(p) \/ Shutdown(p) \/ Resend(p) \/ Signal(p) \/ Start(p)
          PROVE  state' = state \/ MarkSent(p)
      BY <3>4 DEF Work, Fetch, Publish, Mark, Shutdown, StartDrain, EndDrain, CloseHTTP, Stop,
         Resend, Signal, Start, rowVars
    <3>5. ASSUME NEW p \in Processes, BatchFails(p) \/ ContextEnds(p)
          PROVE  state' = state \/ MarkSent(p)
      BY <3>5 DEF BatchFails, ContextEnds
    <3>6. UNCHANGED vars => state' = state
      BY DEF vars, rowVars
    <3> QED BY <1>5, <3>1, <3>2, <3>3, <3>4, <3>5, <3>6 DEF Next, Committed
  <2> QED BY <1>2, <2>1, <2>2
<1> QED BY <1>3, <1>4, <1>5

\* What notification-service relies on is what the outbox does: only committed
\* facts are published, and repeated no more often than failures excuse.
THEOREM ImplementsEventTopic == Spec => ImplementsTopic
<1>1. Init => Topic!Init /\ QueuedCommitted
  BY DEF Init, Topic!Init, QueuedCommitted, Committed
<1>2. Inv /\ QueuedCommitted /\ [Next]_vars => QueuedCommitted'
  BY QueuedInductive
<1>3. Inv /\ QueuedCommitted /\ PublishedOnce /\ [Next]_vars =>
         [Topic!Next]_<<{r \in Events : Committed(r)}, log>>
  BY TopicStep
<1> QED BY <1>1, <1>2, <1>3, RelayInvariance, PublishedOncePerFailure, PTL
        DEF Spec, ImplementsTopic, Topic!Spec

-----------------------------------------------------------------------------
(* Nobody is stuck: what liveness rests on, besides the fairness.          *)

\* The relay of p has a step to take (the guards of Fetch, Publish and Mark).
CanWork(p) ==
    \/ /\ relay[p] = "idle" /\ (phase[p] = "running" \/ draining[p]) /\ Available # {}
       /\ \E rows \in FirstRows(Available) : InOrder(rows) # {}
    \/ queue[p] # <<>>
    \/ relay[p] = "mark"

\* The shutdown of p has one (StartDrain, EndDrain, CloseHTTP, Stop).
CanShutDown(p) ==
    \/ relay[p] = "idle" /\ (~draining[p] \/ Available = {})
    \/ serving[p] /\ OpenRows(p) = {}
    \/ ~serving[p] /\ relay[p] = "off" /\ queue[p] = <<>>

\* A pending row is never left behind locks nobody will release: a relay that
\* has locked it can go on with it, and if none has, every running process can
\* fetch a batch.
PendingIsReachable ==
    \A r \in Events : state[r] = "pending" =>
        \/ \E p \in Processes : r \in batch[p] /\ CanWork(p)
        \/ \A p \in Processes : phase[p] = "running" => CanWork(p)

\* A process that has been signalled has a step of its relay or of its
\* shutdown to take, or a transaction of its handlers has yet to end.
StoppingGoesOn ==
    \A p \in Processes : phase[p] = "stopping" =>
        CanWork(p) \/ CanShutDown(p) \/ OpenRows(p) # {}

\* A set of natural numbers has a least one.
LEMMA LeastNumber ==
    ASSUME NEW T, T \subseteq Nat, T # {}
    PROVE  \E n \in T : \A k \in T : n <= k
<1>1. PICK n \in T : \A k \in T : <<k, n>> \notin OpToRel(<, Nat)
  BY NatLessThanWellFounded, WFMin, Zenon
<1>2. ASSUME NEW k \in T
      PROVE  n <= k
  <2>1. ~(k < n)
    BY <1>1, Zenon DEF OpToRel
  <2> QED BY <2>1
<1> QED BY <1>2

\* Of some rows one has the latest stamp.
LEMMA LatestRow ==
    ASSUME TypeOK, NEW rows \in SUBSET Events, rows # {}
    PROVE  \E e \in rows : \A r \in rows : Earlier(r, e)
<1> DEFINE T == {MaxClock - stamp[r] : r \in rows}
<1>1. MaxClock \in Nat /\ \A r \in rows : stamp[r] \in 0 .. MaxClock
  BY RelayAssumption DEF TypeOK
<1>2. T \subseteq Nat /\ T # {}
  BY <1>1
<1>3. PICK n \in T : \A k \in T : n <= k
  BY <1>2, LeastNumber
<1>4. PICK e \in rows : n = MaxClock - stamp[e]
  OBVIOUS
<1>5. ASSUME NEW r \in rows
      PROVE  stamp[r] <= stamp[e]
  <2>1. MaxClock - stamp[e] <= MaxClock - stamp[r]
    BY <1>3, <1>4
  <2> HIDE DEF T
  <2>2. /\ stamp[r] \in Int /\ stamp[e] \in Int /\ MaxClock \in Int
    BY <1>1
  <2> QED BY <2>1, <2>2
<1> QED BY <1>5 DEF Earlier

\* The row with the latest stamp can come last.
LEMMA LatestComesLast ==
    ASSUME NEW rows \in SUBSET Events, IsFiniteSet(rows),
           NEW e \in rows, \A r \in rows : Earlier(r, e),
           NEW q \in InOrder(rows \ {e})
    PROVE  InOrder(rows) # {}
<1> DEFINE n == Cardinality(rows \ {e})
           longer == [i \in 1 .. n + 1 |-> IF i = n + 1 THEN e ELSE q[i]]
<1>1. n \in Nat /\ Cardinality(rows) = n + 1
  <2>1. IsFiniteSet(rows \ {e}) /\ n = Cardinality(rows) - 1
    BY FS_RemoveElement
  <2>2. n \in Nat /\ Cardinality(rows) \in Nat
    BY <2>1, FS_CardinalityType
  <2> HIDE DEF n
  <2> QED BY <2>1, <2>2
<1>2. /\ q \in [1 .. n -> rows \ {e}]
      /\ \A i, j \in 1 .. n : i < j => q[i] # q[j] /\ Earlier(q[i], q[j])
  BY DEF InOrder
<1> HIDE DEF n
<1>3. longer \in [1 .. n + 1 -> rows]
  BY <1>1, <1>2
<1>4. ASSUME NEW i \in 1 .. n + 1, NEW j \in 1 .. n + 1, i < j
      PROVE  longer[i] # longer[j] /\ Earlier(longer[i], longer[j])
  <2>1. i \in 1 .. n /\ longer[i] = q[i] /\ q[i] \in rows \ {e}
    BY <1>1, <1>2, <1>4
  <2>2. CASE j = n + 1
    BY <2>1, <2>2
  <2>3. CASE j \in 1 .. n
    BY <1>1, <1>2, <1>4, <2>1, <2>3
  <2> QED BY <1>1, <2>2, <2>3
<1>5. longer \in InOrder(rows)
  BY <1>1, <1>3, <1>4 DEF InOrder
<1> QED BY <1>5

\* Rows can always be put in the order of their stamps.
LEMMA RowsCanBeOrdered ==
    ASSUME TypeOK, NEW rows \in SUBSET Events
    PROVE  InOrder(rows) # {}
<1> DEFINE Bad == {s \in SUBSET Events : InOrder(s) = {}}
           T == {Cardinality(s) : s \in Bad}
<1>1. ASSUME NEW s \in SUBSET Events
      PROVE  IsFiniteSet(s) /\ Cardinality(s) \in Nat
  BY FiniteEvents, FS_Subset, FS_CardinalityType
<1>2. ASSUME Bad # {}
      PROVE  FALSE
  <2>1. T \subseteq Nat /\ T # {}
    BY <1>1, <1>2
  <2>2. PICK n \in T : \A k \in T : n <= k
    BY <2>1, LeastNumber
  <2>3. PICK s \in Bad : n = Cardinality(s)
    OBVIOUS
  <2>4. s # {}
    <3>1. InOrder({}) # {}
      <4>1. Cardinality({}) = 0
        BY FS_EmptySet
      <4>2. [i \in 1 .. 0 |-> i] \in InOrder({})
        BY <4>1 DEF InOrder
      <4> QED BY <4>2
    <3> QED BY <3>1
  <2>5. PICK e \in s : \A r \in s : Earlier(r, e)
    BY <2>4, LatestRow
  <2>6. Cardinality(s \ {e}) = n - 1 /\ n \in Nat
    BY <1>1, <2>3, FS_RemoveElement
  <2>7. s \ {e} \notin Bad
    <3>1. ASSUME s \ {e} \in Bad
          PROVE  FALSE
      <4>1. n - 1 \in T
        BY <2>6, <3>1
      <4>2. n <= n - 1
        BY <2>2, <4>1
      <4> HIDE DEF T
      <4> QED BY <2>6, <4>2
    <3> QED BY <3>1
  <2>8. PICK q : q \in InOrder(s \ {e})
    BY <2>7
  <2>9. InOrder(s) # {}
    BY <1>1, <2>5, <2>8, LatestComesLast
  <2> QED BY <2>9
<1> QED BY <1>2

\* From any rows a batch can be cut, however large batches are.
LEMMA BatchExists ==
    ASSUME TypeOK, NEW avail \in SUBSET Events
    PROVE  \E rows \in FirstRows(avail) : InOrder(rows) # {}
<1> DEFINE n == Cardinality(avail)
           m == IF n < BatchSize THEN n ELSE BatchSize
<1>1. IsFiniteSet(avail) /\ n \in Nat /\ BatchSize \in Nat
  BY FiniteEvents, FS_Subset, FS_CardinalityType, RelayAssumption
<1>2. m \in Nat /\ m <= n /\ m <= BatchSize /\ (m < BatchSize => m = n)
  BY <1>1
<1>3. PICK q : q \in InOrder(avail)
  BY RowsCanBeOrdered
<1>4. /\ q \in [1 .. n -> avail]
      /\ \A i, j \in 1 .. n : i < j => q[i] # q[j] /\ Earlier(q[i], q[j])
  BY <1>3 DEF InOrder
<1>5. q \in Surjection(1 .. n, avail)
  <2>1. \A i, j \in 1 .. n : q[i] = q[j] => i = j
    BY <1>1, <1>4
  <2>2. q \in Injection(1 .. n, avail)
    BY <1>4, <2>1 DEF Injection, IsInjective
  <2>3. Cardinality(1 .. n) = n
    BY <1>1, FS_Interval
  <2> QED BY <1>1, <2>2, <2>3, FS_Injection
<1> HIDE DEF n, m
<1> DEFINE rows == {q[i] : i \in 1 .. m}
           first == [i \in 1 .. m |-> q[i]]
<1>6. 1 .. m \subseteq 1 .. n
  BY <1>1, <1>2
<1>7. rows \in SUBSET avail
  BY <1>4, <1>6
<1>8. Cardinality(rows) = m
  <2>1. first \in Surjection(1 .. m, rows)
    BY DEF Surjection
  <2>2. first \in Injection(1 .. m, rows)
    <3>1. ASSUME NEW i \in 1 .. m, NEW j \in 1 .. m, first[i] = first[j]
          PROVE  i = j
      BY <1>1, <1>2, <1>4, <1>6, <3>1
    <3> QED BY <3>1 DEF Injection, IsInjective
  <2>3. IsFiniteSet(1 .. m) /\ Cardinality(1 .. m) = m
    BY <1>2, FS_Interval
  <2> HIDE DEF rows, first
  <2> QED BY <2>1, <2>2, <2>3, FS_Surjection
<1>9. m < BatchSize => rows = avail
  BY <1>2, <1>5 DEF Surjection
<1>10. ASSUME NEW r \in rows, NEW s \in avail \ rows
       PROVE  Earlier(r, s)
  <2>1. PICK i \in 1 .. m : r = q[i]
    OBVIOUS
  <2>2. PICK j \in 1 .. n : s = q[j]
    BY <1>5 DEF Surjection
  <2>3. j \notin 1 .. m
    BY <2>2
  <2> QED BY <1>1, <1>2, <1>4, <1>6, <2>1, <2>2, <2>3
<1>11. rows \in FirstRows(avail)
  BY <1>2, <1>7, <1>8, <1>9, <1>10 DEF FirstRows
<1>12. rows \in SUBSET Events
  BY <1>7
<1> HIDE DEF rows
<1> QED BY <1>11, <1>12, RowsCanBeOrdered

\* A process that runs polls: its relay is not off, nor draining.
Polling == \A p \in Processes : phase[p] = "running" => relay[p] # "off" /\ ~draining[p]

\* Only the signal lets a relay drain, and only the drain switches it off.
LEMMA PollingInductive == Inv /\ Polling /\ [Next]_vars => Polling'
<1> SUFFICES ASSUME Inv, Polling, [Next]_vars, NEW p \in Processes, phase'[p] = "running"
             PROVE  relay'[p] # "off" /\ ~draining'[p]
  BY DEF Polling
<1>1. TypeOK
  BY DEF Inv
<1>2. CASE phase[p] = "running" /\ UNCHANGED <<relay, draining>>
  BY <1>2 DEF Polling
<1>3. ASSUME NEW q \in Processes, Fetch(q) \/ Publish(q) \/ Mark(q) \/ Resend(q)
      PROVE  relay'[p] # "off" /\ ~draining'[p]
  <2>1. /\ phase' = phase /\ draining' = draining
        /\ relay'[p] = relay[p] \/ relay'[p] # "off"
    BY <1>1, <1>3 DEF TypeOK, Fetch, Publish, Mark, Resend, EndBatch, rowVars
  <2> QED BY <2>1 DEF Polling
<1>4. ASSUME NEW q \in Processes, BatchFails(q) \/ ContextEnds(q)
      PROVE  relay'[p] # "off" /\ ~draining'[p]
  <2>1. /\ phase' = phase /\ draining' = draining
        /\ relay' = [relay EXCEPT ![q] = AfterError(q)]
    BY <1>4 DEF BatchFails, ContextEnds, EndBatch
  <2>2. relay[p] # "off" /\ ~draining[p]
    BY <2>1 DEF Polling
  <2> QED BY <1>1, <2>1, <2>2 DEF TypeOK, AfterError
<1>5. ASSUME NEW q \in Processes, StartDrain(q) \/ EndDrain(q)
      PROVE  relay'[p] # "off" /\ ~draining'[p]
  <2>1. phase' = phase /\ relay[p] # "off" /\ ~draining[p]
    BY <1>5 DEF StartDrain, EndDrain, Polling
  <2> QED BY <1>1, <1>5, <2>1 DEF TypeOK, StartDrain, EndDrain
<1>6. ASSUME NEW q \in Processes, Crash(q) \/ Start(q)
      PROVE  relay'[p] # "off" /\ ~draining'[p]
  <2>1. CASE p = q
    BY <1>1, <1>6, <2>1 DEF TypeOK, Crash, Start, EndBatch
  <2>2. CASE p # q
    BY <1>1, <1>6, <2>2 DEF TypeOK, Crash, Start, EndBatch, Polling
  <2> QED BY <2>1, <2>2
<1>7. ASSUME \/ EndTx \/ UNCHANGED vars
             \/ \E q \in Processes : \/ \E r \in Events : BeginTx(q, r)
                                     \/ CloseHTTP(q) \/ Stop(q) \/ Signal(q)
      PROVE  phase[p] = "running" /\ UNCHANGED <<relay, draining>>
  BY <1>1, <1>7 DEF TypeOK, EndTx, CommitTx, AbortTx, BeginTx, CloseHTTP, Stop, Signal,
     relayVars, vars
<1> QED BY <1>2, <1>3, <1>4, <1>5, <1>6, <1>7 DEF Next, Work, Shutdown

\* A relay that is idle and may poll can fetch what is available.
LEMMA FetchIsOpen ==
    ASSUME Inv, NEW p \in Processes, relay[p] = "idle",
           phase[p] = "running" \/ draining[p], Available # {}
    PROVE  CanWork(p)
<1>1. \E rows \in FirstRows(Available) : InOrder(rows) # {}
  BY BatchExists DEF Inv, Available
<1> QED BY <1>1 DEF CanWork

\* A relay at work goes on.
LEMMA BusyGoesOn == ASSUME Inv, NEW p \in Processes, Busy(p) PROVE CanWork(p)
BY DEF Inv, AtWork, Busy, CanWork

\* A pending row is locked by a relay at work, or available to every relay that
\* polls.
LEMMA RowsAreReachable == Inv /\ Polling => PendingIsReachable
<1> SUFFICES ASSUME Inv, Polling, NEW r \in Events, state[r] = "pending",
                    NEW p \in Processes, phase[p] = "running",
                    \A q \in Processes : ~(r \in batch[q] /\ CanWork(q))
             PROVE  CanWork(p)
  BY DEF PendingIsReachable
<1>1. \A q \in Processes : r \notin batch[q]
  BY BusyGoesOn DEF Inv, AtWork
<1>2. r \in Available
  BY <1>1 DEF Available, Visible, Unlocked
<1>3. relay[p] \in {"idle", "publish", "mark"}
  BY DEF Inv, TypeOK, Polling
<1> QED BY <1>2, <1>3, FetchIsOpen, BusyGoesOn DEF Busy

\* A relay that is stopping drains, goes off, or finds its queue empty.
LEMMA ShutdownIsOpen == Inv => StoppingGoesOn
<1> SUFFICES ASSUME Inv, NEW p \in Processes, phase[p] = "stopping",
                    ~CanWork(p), OpenRows(p) = {}
             PROVE  CanShutDown(p)
  BY DEF StoppingGoesOn
<1>1. ~Busy(p) /\ queue[p] = <<>>
  BY BusyGoesOn DEF CanWork
<1>2. relay[p] \in {"idle", "off"} /\ serving[p] \in BOOLEAN
  BY <1>1 DEF Inv, TypeOK, Busy
<1>3. CASE relay[p] = "idle"
  BY <1>3, FetchIsOpen DEF CanShutDown
<1>4. CASE relay[p] = "off"
  BY <1>1, <1>2, <1>4 DEF CanShutDown
<1> QED BY <1>2, <1>3, <1>4

\* No row stays behind the lock of a relay that cannot go on, and no shutdown
\* waits for what will not come, for any number of processes, failures and
\* crashes and any size of the batches.
THEOREM NothingIsStuck == Spec => [](PendingIsReachable /\ StoppingGoesOn)
<1>1. Init => Polling
  BY DEF Init, Polling
<1> QED BY <1>1, PollingInductive, RowsAreReachable, ShutdownIsOpen, RelayInvariance, PTL DEF Spec
=============================================================================
