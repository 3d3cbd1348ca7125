-------------------------- MODULE EventPipelineProofs --------------------------
(***************************************************************************)
(* Proofs about EventPipeline: the two services together implement         *)
(* EventDelivery, and an event that is lost, or stored and not broadcast,  *)
(* has cost a failure of its own, for any number of bookings, users,       *)
(* messages and failures.                                                  *)
(***************************************************************************)
EXTENDS EventPipeline, NotificationConsumerProofs, FiniteSetTheorems

\* What is in the topic, and what is stored, was committed by booking-service.
FromBookings ==
    /\ \A i \in 1 .. Len(log) : log[i] \in Keys => log[i] \in announced
    /\ \A k \in Keys : stored[k] # None => k \in announced

\* Message i needs no more work.
Settled(i) == log[i] \in Keys => stored[log[i]] # None \/ log[i] \in skipped

\* Every message below the committed offset is settled, and so is every one
\* below the position and below the message at hand, that message aside.
InOrder ==
    /\ \A i \in 1 .. committed : Settled(i)
    /\ at \in {"insert", "broadcast", "commit"} => \A i \in 1 .. current - 1 : Settled(i)
    /\ at \in {"broadcast", "commit"} => Settled(current)
    /\ at # "off" => \A i \in 1 .. position : Settled(i) \/ (at = "insert" /\ i = current)

\* Events that have lost their INSERT once, or their broadcast.
Missed == skipped \cup Unshown

\* Each of them has cost a failure of its own.
MissedFailed ==
    /\ IsFiniteSet(Missed)
    /\ Cardinality(Missed) <= failures

PipelineInv == Inv /\ FromBookings /\ InOrder /\ MissedFailed

-----------------------------------------------------------------------------
\* The topic grows by a message that is none of the events, or a committed one.
LEMMA Written ==
    ASSUME PipelineInv, Topic!Next
    PROVE  /\ announced \subseteq announced'
           /\ \/ UNCHANGED log
              \/ \E m \in Messages : log' = Append(log, m) /\ (m \in Keys => m \in announced)
<1>1. ASSUME NEW f \in Keys, Topic!Announce(f)
      PROVE  announced \subseteq announced' /\ UNCHANGED log
  BY <1>1 DEF Topic!Announce
<1>2. ASSUME NEW f \in Keys, Topic!Publish(f)
      PROVE  /\ announced \subseteq announced'
             /\ \E m \in Messages : log' = Append(log, m) /\ (m \in Keys => m \in announced)
  BY <1>2 DEF Topic!Publish, Messages
<1>3. ASSUME NEW m \in {Invalid, Unknown} \cup Keys, Topic!WriteMore(m)
      PROVE  /\ announced \subseteq announced'
             /\ log' = Append(log, m) /\ m \in Messages /\ (m \in Keys => m \in announced)
  <2>1. log' = Append(log, m) /\ UNCHANGED announced /\ m \in Messages
    BY <1>3 DEF Topic!WriteMore, Messages
  <2>2. m \in Keys => \E i \in 1 .. Len(log) : m = log[i]
    BY <1>3, ConsumerAssumption DEF Topic!WriteMore, Topic!Records
  <2> QED BY <2>1, <2>2 DEF PipelineInv, FromBookings
<1> QED BY <1>1, <1>2, <1>3 DEF Topic!Next

\* A step of booking-service keeps the invariant.
LEMMA BookingKeeps ==
    ASSUME PipelineInv, BookingStep
    PROVE  PipelineInv'
<1>1. UNCHANGED <<consumerVars, dataVars, failures, skipped>> /\ announced \subseteq announced'
  BY Written DEF BookingStep
<1>2. CASE UNCHANGED log
  <2>1. Inv'
    BY <1>1, <1>2, OtherInv DEF PipelineInv, Inv, TypeOK, AtHand, consumerVars
  <2>2. FromBookings' /\ InOrder' /\ MissedFailed'
    BY <1>1, <1>2
    DEF PipelineInv, FromBookings, InOrder, Settled, MissedFailed, Missed, Unshown, Key,
        consumerVars, dataVars
  <2> QED BY <2>1, <2>2 DEF PipelineInv
<1>3. ASSUME NEW m \in Messages, log' = Append(log, m), m \in Keys => m \in announced
      PROVE  PipelineInv'
  <2>1. Inv'
    BY <1>1, <1>3, AppendInv DEF PipelineInv
  <2>2. /\ Len(log') = Len(log) + 1 /\ Len(log) \in Nat /\ log'[Len(log) + 1] = m
        /\ \A i \in 1 .. Len(log) : log'[i] = log[i]
    BY <1>3, Appended DEF PipelineInv, Inv, TypeOK
  <2>3. FromBookings'
    BY <1>1, <1>3, <2>2 DEF PipelineInv, FromBookings, dataVars
  <2>4. \A i \in 1 .. Len(log) : Settled(i)' = Settled(i)
    BY <1>1, <2>2 DEF Settled, dataVars
  <2>5. /\ committed \in 0 .. Len(log) /\ position \in 0 .. Len(log)
        /\ at \in {"insert", "broadcast", "commit"} => current \in 1 .. Len(log)
    BY DEF PipelineInv, Inv, TypeOK, AtHand
  <2>6. InOrder'
    BY <1>1, <2>2, <2>4, <2>5 DEF PipelineInv, InOrder, consumerVars
  <2>7. MissedFailed'
    <3>1. at' = at /\ (at = "broadcast" => Key' = Key)
      BY <1>1, <2>2, <2>5 DEF Key, consumerVars
    <3>2. Missed' = Missed
      BY <1>1, <3>1 DEF Missed, Unshown, dataVars
    <3> QED BY <1>1, <3>2 DEF PipelineInv, MissedFailed
  <2> QED BY <2>1, <2>3, <2>6, <2>7 DEF PipelineInv
<1> QED BY <1>2, <1>3, Written DEF BookingStep

\* How the rows of notifications change in a step of the consumer: only the
\* INSERT adds one, of the event at hand.
LEMMA RowsGrow ==
    ASSUME Inv, Consume, NEW k \in Keys
    PROVE  /\ stored[k] # None => stored'[k] # None
           /\ stored[k] = None /\ stored'[k] # None => at = "insert" /\ k = Key
<1>1. Inv'
  BY Inductive DEF Next
<1>2. stored[k] # None => stored'[k] # None
  BY <1>1, StepKeepsReads DEF Next
<1>3. CASE stored' = stored
  BY <1>2, <1>3
<1>4. CASE Insert \/ InsertFails
  <2>1. Key \in Keys /\ at = "insert" /\ stored' \in {stored, StoredAfterInsert}
    BY <1>4 DEF Inv, AtHand, Insert, InsertFails
  <2>2. k # Key => StoredAfterInsert[k] = stored[k]
    BY <2>1, InsertedRows DEF Inv, TypeOK
  <2> QED BY <1>2, <2>1, <2>2
<1>5. ASSUME NEW u \in Users, NEW chosen \in SUBSET Keys, Mark(u, chosen)
      PROVE  stored[k] = None => stored'[k] = None
  BY <1>5 DEF Mark
<1>6. CASE \E u \in Users : MarkAllAsRead(u) \/ \E j \in Keys : MarkAsRead(u, j)
  BY <1>2, <1>5, <1>6 DEF MarkAllAsRead, MarkAsRead
<1> QED
  BY <1>3, <1>4, <1>6
  DEF Consume, Work, dataVars, Fetch, Broadcast, Commit, Retry, CommitFails, FetchFails,
      Rejoin, Signal, CommitInterrupted, EndRun, Stop, Crash, Start

\* A step of the consumer takes messages in order and settles the one at hand.
LEMMA ConsumeInOrder ==
    ASSUME PipelineInv, NotificationStep
    PROVE  InOrder'
<1>1. /\ Inv /\ InOrder /\ Consume /\ UNCHANGED log
      /\ skipped' = IF at = "insert" /\ at' = "commit" /\ failures' > failures
                    THEN skipped \cup {Key} ELSE skipped
  BY DEF PipelineInv, NotificationStep, Consume, Work, consumerVars, dataVars, Fetch, Insert,
         Broadcast, Commit, Retry, InsertFails, CommitFails, FetchFails, Rejoin, Signal,
         CommitInterrupted, EndRun, Stop, Crash, Start, MarkAllAsRead, MarkAsRead, Mark
<1>2. /\ committed \in 0 .. Len(log) /\ position \in 0 .. Len(log) /\ current \in 0 .. Len(log)
      /\ at \in {"insert", "broadcast", "commit"} => current \in 1 .. Len(log)
      /\ Len(log) \in Nat /\ failures \in Nat
  BY <1>1 DEF Inv, TypeOK, AtHand
<1>3. \A i : Settled(i) => Settled(i)'
  BY <1>1, RowsGrow DEF Settled
<1>4. CASE Fetch
  <2>1. \A i \in 1 .. position : Settled(i)
    BY <1>1, <1>4 DEF InOrder, Fetch
  <2>2. /\ committed' = committed /\ position' = position + 1 /\ current' = position + 1
        /\ at' = StepFor(log[position + 1])
    BY <1>4 DEF Fetch
  <2>3. at' \in {"insert", "commit"} /\ (at' = "commit" => log[position + 1] \notin Keys)
    BY <2>2 DEF StepFor
  <2>4. at' = "commit" => Settled(current)'
    BY <1>1, <2>2, <2>3 DEF Settled
  <2>5. \A i \in 1 .. position : Settled(i)'
    BY <1>3, <2>1
  <2>6. \A i \in 1 .. committed' : Settled(i)'
    BY <1>1, <1>3, <2>2 DEF InOrder
  <2>7. \A i \in 1 .. position' : Settled(i)' \/ (at' = "insert" /\ i = current')
    BY <1>2, <2>2, <2>3, <2>4, <2>5
  <2> QED BY <1>2, <2>2, <2>3, <2>4, <2>5, <2>6, <2>7 DEF InOrder
<1>5. CASE Insert \/ InsertFails
  <2>1. /\ at = "insert" /\ at' \in {"broadcast", "commit"} /\ Key \in Keys
        /\ UNCHANGED <<committed, position, current>>
    BY <1>1, <1>5 DEF Inv, AtHand, Insert, InsertFails, AfterInsertError
  <2>2. Insert => Settled(current)'
    <3> SUFFICES ASSUME Insert PROVE Settled(current)'
      OBVIOUS
    <3>1. stored'[Key] # None
      BY <1>1, <2>1, InsertedRows DEF Insert, Inv, TypeOK, Key
    <3> QED BY <1>1, <3>1, <2>1 DEF Settled, Key
  <2>3. InsertFails => Settled(current)'
    <3> SUFFICES ASSUME InsertFails PROVE Settled(current)'
      OBVIOUS
    <3>1. Key \in skipped'
      BY <1>1, <1>2 DEF InsertFails, AfterInsertError, CountFailure
    <3> QED BY <1>1, <3>1, <2>1 DEF Settled, Key
  <2>4. Settled(current)'
    BY <1>5, <2>2, <2>3
  <2>5. \A i \in 1 .. position' : Settled(i)'
    BY <1>1, <1>3, <2>1, <2>4 DEF InOrder
  <2> QED BY <1>1, <1>2, <1>3, <2>1, <2>4, <2>5 DEF InOrder
<1>6. CASE Broadcast \/ Signal \/ \E u \in Users : MarkAllAsRead(u) \/ \E k \in Keys : MarkAsRead(u, k)
  <2>1. /\ UNCHANGED <<committed, position, current>>
        /\ at' = at \/ (at = "broadcast" /\ at' = "commit")
    BY <1>6 DEF Broadcast, Signal, MarkAllAsRead, MarkAsRead, Mark, consumerVars
  <2> QED BY <1>1, <1>2, <1>3, <2>1 DEF InOrder
<1>7. CASE Commit \/ CommitFails \/ CommitInterrupted
  <2>1. /\ at = "commit" /\ at' \in {"fetch", "backoff"}
        /\ committed' \in {committed, current} /\ UNCHANGED <<position, current>>
    BY <1>7 DEF Commit, CommitFails, CommitInterrupted, AfterRunError
  <2>2. \A i \in 1 .. current : Settled(i)
    BY <1>1, <1>2, <2>1 DEF InOrder
  <2> QED BY <1>1, <1>2, <1>3, <2>1, <2>2 DEF InOrder
<1>8. CASE Rejoin
  BY <1>1, <1>2, <1>3, <1>8 DEF InOrder, Rejoin
<1>9. CASE FetchFails \/ Retry \/ EndRun \/ Stop \/ Crash \/ Start
  <2>1. /\ UNCHANGED committed /\ at' \in {"fetch", "backoff", "off"}
        /\ \/ position' = committed
           \/ at' = "off"
           \/ position' = position /\ at \in {"fetch", "backoff"}
    BY <1>9 DEF FetchFails, Retry, EndRun, Stop, Crash, Start, AfterRunError
  <2> QED BY <1>1, <1>2, <1>3, <2>1 DEF InOrder
<1> QED BY <1>1, <1>4, <1>5, <1>6, <1>7, <1>8, <1>9 DEF Consume, Work

\* A broadcast that is under way is not missed, and one that is not, unless it
\* was stored in this step, stays so.
LEMMA NothingMissedSilently ==
    ASSUME PipelineInv, NotificationStep, failures' = failures
    PROVE  Missed' \subseteq Missed
<1>1. Inv /\ Consume /\ skipped' = skipped /\ failures \in Nat
  <2>1. Inv /\ Consume /\ failures \in Nat
    BY DEF PipelineInv, Inv, TypeOK, NotificationStep
  <2> QED BY <2>1 DEF NotificationStep
<1>0. UNCHANGED log
  BY <1>1
  DEF Consume, Work, consumerVars, dataVars, Fetch, Insert, Broadcast, Commit, Retry, InsertFails,
      CommitFails, FetchFails, Rejoin, Signal, CommitInterrupted, EndRun, Stop, Crash, Start,
      MarkAllAsRead, MarkAsRead, Mark
<1> SUFFICES ASSUME NEW k \in Keys, stored'[k] # None, broadcasts'[k] = 0,
                    ~(at' = "broadcast" /\ Key' = k)
             PROVE  /\ stored[k] # None /\ broadcasts[k] = 0
                    /\ ~(at = "broadcast" /\ Key = k)
  BY <1>1 DEF Missed, Unshown
<1>2. ~InsertFails /\ ~CommitFails /\ ~FetchFails /\ ~Rejoin /\ ~Crash
  BY <1>1 DEF InsertFails, CommitFails, FetchFails, Rejoin, Crash, CountFailure
<1>3. CASE Insert
  <2>1. /\ at = "insert" /\ UNCHANGED <<broadcasts, current>>
        /\ stored[Key] = None => at' = "broadcast"
    BY <1>3 DEF Insert, Inserted
  <2>2. stored[k] = None => k = Key
    BY <1>1, RowsGrow
  <2>3. Key' = Key
    BY <1>0, <2>1 DEF Key
  <2> QED BY <2>1, <2>2, <2>3
<1>4. CASE Broadcast
  <2>1. stored' = stored /\ Key \in Keys /\ broadcasts \in [Keys -> Nat]
        /\ broadcasts' = [broadcasts EXCEPT ![Key] = @ + 1]
    BY <1>1, <1>4 DEF Broadcast, Inv, AtHand, TypeOK
  <2>2. k # Key /\ broadcasts'[k] = broadcasts[k]
    BY <2>1
  <2> QED BY <2>1, <2>2
<1>5. CASE \E u \in Users : MarkAllAsRead(u) \/ \E m \in Keys : MarkAsRead(u, m)
  <2>1. PICK u, chosen : Mark(u, chosen)
    BY <1>5 DEF MarkAllAsRead, MarkAsRead
  <2>2. UNCHANGED <<broadcasts, at, current>>
    BY <2>1 DEF Mark, consumerVars
  <2>3. stored[k] # None
    BY <2>1 DEF Mark
  <2> QED BY <1>0, <2>2, <2>3 DEF Key
<1>6. CASE Fetch \/ Commit \/ Retry \/ Signal \/ CommitInterrupted \/ EndRun \/ Stop \/ Start
  <2>1. stored' = stored /\ broadcasts' = broadcasts
    BY <1>6 DEF Fetch, Commit, Retry, Signal, CommitInterrupted, EndRun, Stop, Start, dataVars
  <2>2. at = "broadcast" => Signal
    BY <1>1, <1>6
    DEF Fetch, Commit, Retry, CommitInterrupted, EndRun, EndsWhere, Stop, Start, Inv, AtHand
  <2>3. Signal => at' = at /\ current' = current
    BY DEF Signal
  <2> QED BY <1>0, <2>1, <2>2, <2>3 DEF Key
<1> QED BY <1>1, <1>2, <1>3, <1>4, <1>5, <1>6 DEF Consume, Work

\* A failure loses the INSERT or the broadcast of the event at hand, not both
\* of two events.
LEMMA OneMissedPerFailure ==
    ASSUME PipelineInv, NotificationStep
    PROVE  Missed' \subseteq Missed \cup {Key}
<1>1. Inv /\ Consume /\ UNCHANGED log /\ skipped' \subseteq skipped \cup {Key}
  BY DEF PipelineInv, NotificationStep, Consume, Work, consumerVars, dataVars,
         Fetch, Insert, Broadcast, Commit, Retry, InsertFails, CommitFails, FetchFails, Rejoin,
         Signal, CommitInterrupted, EndRun, Stop, Crash, Start, MarkAllAsRead, MarkAsRead, Mark
<1> SUFFICES ASSUME NEW k \in Keys, stored'[k] # None, broadcasts'[k] = 0, k # Key
             PROVE  stored[k] # None /\ broadcasts[k] = 0
  BY <1>1 DEF Missed, Unshown
<1>2. stored[k] # None
  BY <1>1, RowsGrow
<1>3. \/ broadcasts' = broadcasts
      \/ broadcasts' = [broadcasts EXCEPT ![Key] = @ + 1]
  BY <1>1
  DEF Consume, Work, dataVars, Fetch, Insert, Broadcast, Commit, Retry, InsertFails, CommitFails,
      FetchFails, Rejoin, Signal, CommitInterrupted, EndRun, Stop, Crash, Start, MarkAllAsRead,
      MarkAsRead, Mark
<1> QED BY <1>1, <1>2, <1>3 DEF Inv, TypeOK

\* A step of the consumer misses an event only with a failure.
LEMMA ConsumeMisses ==
    ASSUME PipelineInv, NotificationStep
    PROVE  MissedFailed'
<1>1. Inv' /\ Inv /\ MissedFailed
  BY Inductive DEF PipelineInv, NotificationStep, Next
<1>2. failures \in Nat /\ failures' \in Nat
  BY <1>1 DEF Inv, TypeOK
<1>3. failures' \in {failures, failures + 1}
  BY DEF NotificationStep, Consume, Work, Fetch, Insert, Broadcast, Commit, Retry,
         InsertFails, CommitFails, FetchFails, Rejoin, Signal, CommitInterrupted, EndRun,
         Stop, Crash, Start, MarkAllAsRead, MarkAsRead, Mark, CountFailure
<1>4. /\ IsFiniteSet(Missed) /\ Cardinality(Missed) \in Nat
      /\ IsFiniteSet(Missed \cup {Key}) /\ Cardinality(Missed \cup {Key}) \in Nat
      /\ Cardinality(Missed \cup {Key}) <= Cardinality(Missed) + 1
  <2>1. IsFiniteSet(Missed) /\ Cardinality(Missed) \in Nat
    BY <1>1, FS_CardinalityType DEF MissedFailed
  <2>2. /\ IsFiniteSet(Missed \cup {Key})
        /\ Cardinality(Missed \cup {Key}) =
              IF Key \in Missed THEN Cardinality(Missed) ELSE Cardinality(Missed) + 1
    BY <2>1, FS_AddElement
  <2> QED BY <2>1, <2>2
<1>5. ASSUME NEW bound, IsFiniteSet(bound), Missed' \subseteq bound
      PROVE  IsFiniteSet(Missed') /\ Cardinality(Missed') <= Cardinality(bound)
             /\ Cardinality(Missed') \in Nat
  BY <1>5, FS_Subset, FS_CardinalityType
<1>6. CASE failures' = failures
  BY <1>1, <1>2, <1>4, <1>5, <1>6, NothingMissedSilently DEF MissedFailed
<1>7. CASE failures' = failures + 1
  BY <1>1, <1>2, <1>4, <1>5, <1>7, OneMissedPerFailure DEF MissedFailed
<1> QED BY <1>3, <1>6, <1>7

\* A step of notification-service keeps the invariant.
LEMMA NotificationKeeps ==
    ASSUME PipelineInv, NotificationStep
    PROVE  PipelineInv'
<1>1. Inv'
  BY Inductive DEF PipelineInv, NotificationStep, Next
<1>2. UNCHANGED <<log, announced>>
  BY DEF NotificationStep, Consume, Work, Fetch, Insert, Broadcast, Commit, Retry,
         InsertFails, CommitFails, FetchFails, Rejoin, Signal, CommitInterrupted, EndRun,
         Stop, Crash, Start, MarkAllAsRead, MarkAsRead, Mark
<1>3. at = "insert" => current \in 1 .. Len(log)
  BY DEF PipelineInv, Inv, AtHand
<1>4. FromBookings'
  BY <1>2, <1>3, RowsGrow DEF PipelineInv, FromBookings, NotificationStep, Key
<1> QED BY <1>1, <1>4, ConsumeInOrder, ConsumeMisses DEF PipelineInv

\* The first state, and every step.
LEMMA PipelineInitially == PipelineInit => PipelineInv
<1> SUFFICES ASSUME PipelineInit PROVE PipelineInv
  OBVIOUS
<1>1. Inv
  BY Initially DEF PipelineInit
<1>2. FromBookings /\ InOrder
  BY DEF PipelineInit, Init, FromBookings, InOrder
<1>3. MissedFailed
  <2>1. Missed = {}
    BY DEF PipelineInit, Init, Missed, Unshown
  <2> QED BY <2>1, FS_EmptySet DEF PipelineInit, Init, MissedFailed
<1> QED BY <1>1, <1>2, <1>3 DEF PipelineInv

\* The invariant is inductive.
LEMMA PipelineInductive == PipelineInv /\ [PipelineNext]_pipelineVars => PipelineInv'
<1> SUFFICES ASSUME PipelineInv, UNCHANGED pipelineVars PROVE PipelineInv'
  BY BookingKeeps, NotificationKeeps DEF PipelineNext
<1>1. Inv'
  BY Inductive DEF PipelineInv, pipelineVars
<1>2. FromBookings' /\ InOrder' /\ MissedFailed'
  BY DEF PipelineInv, FromBookings, InOrder, Settled, MissedFailed, Missed, Unshown, Key,
         pipelineVars, vars, consumerVars, dataVars
<1> QED BY <1>1, <1>2 DEF PipelineInv

-----------------------------------------------------------------------------
\* The inductive invariant of both services.
THEOREM PipelineInvariance == PipelineSpec => []PipelineInv
BY PipelineInitially, PipelineInductive, PTL DEF PipelineSpec

\* An event whose offset is committed without a notification, or whose
\* notification was not broadcast, has cost a failure of its own.
THEOREM LossBounded == PipelineSpec => []LossHasItsFailure
<1>1. PipelineInv => LossHasItsFailure
  <2> SUFFICES ASSUME PipelineInv PROVE Cardinality(Lost \cup Unshown) <= failures
    BY DEF LossHasItsFailure
  <2>1. Lost \cup Unshown \subseteq Missed
    BY DEF PipelineInv, InOrder, Settled, Lost, Missed
  <2>2. IsFiniteSet(Missed) /\ Cardinality(Missed) <= failures /\ failures \in Nat
    BY DEF PipelineInv, MissedFailed, Inv, TypeOK
  <2>3. /\ IsFiniteSet(Lost \cup Unshown)
        /\ Cardinality(Lost \cup Unshown) <= Cardinality(Missed)
    BY <2>1, <2>2, FS_Subset
  <2>4. Cardinality(Lost \cup Unshown) \in Nat /\ Cardinality(Missed) \in Nat
    BY <2>2, <2>3, FS_CardinalityType
  <2> QED BY <2>2, <2>3, <2>4
<1> QED BY <1>1, PipelineInvariance, PTL

\* A step of both services is one of EventDelivery or changes nothing there.
LEMMA StepDelivers ==
    ASSUME PipelineInv, [PipelineNext]_pipelineVars
    PROVE  [Delivery!Next]_(Delivery!vars)
<1> DEFINE known == {k \in Keys : stored[k] # None}
           shown == {k \in Keys : broadcasts[k] > 0}
<1>1. CASE BookingStep
  <2>1. UNCHANGED <<stored, broadcasts>>
    BY <1>1 DEF BookingStep, dataVars
  <2>2. UNCHANGED announced \/ \E f \in Keys : announced' = announced \cup {f}
    BY <1>1 DEF BookingStep, Topic!Next, Topic!Announce, Topic!Publish, Topic!WriteMore
  <2>3. UNCHANGED announced \/ \E f \in Keys : Delivery!Announce(f)
    BY <2>1, <2>2 DEF Delivery!Announce
  <2> QED BY <2>1, <2>3 DEF Delivery!Next, Delivery!vars
<1>2. CASE NotificationStep
  <2>1. Inv /\ Consume /\ UNCHANGED announced
    BY <1>2 DEF PipelineInv, NotificationStep
  <2>2. \A k \in Keys : /\ stored[k] # None => stored'[k] # None
                        /\ stored[k] = None /\ stored'[k] # None => at = "insert" /\ k = Key
    BY <2>1, RowsGrow
  <2>3. CASE Broadcast
    <3>1. Key \in Keys /\ stored[Key] # None /\ broadcasts[Key] = 0 /\ UNCHANGED stored
      BY <2>1, <2>3 DEF Inv, AtHand, FirstBroadcast, Broadcast
    <3>2. broadcasts'[Key] > 0 /\ \A k \in Keys \ {Key} : broadcasts'[k] = broadcasts[k]
      BY <2>1, <2>3, <3>1 DEF Inv, TypeOK, Broadcast
    <3> PICK f \in Keys : f = Key
      BY <3>1
    <3>3. shown' = shown \cup {f} /\ f \in known \ shown /\ known' = known
      BY <3>1, <3>2
    <3>4. Delivery!Show(f)
      BY <2>1, <3>3 DEF Delivery!Show
    <3>5. Delivery!Next
      BY <3>4 DEF Delivery!Next
    <3> QED BY <3>5
  <2>4. CASE UNCHANGED broadcasts
    <3>1. CASE known' = known
      BY <2>1, <2>4, <3>1 DEF Delivery!vars
    <3>2. CASE known' # known
      <4>1. PICK f \in Keys : f = Key /\ f \notin known /\ f \in known' /\ at = "insert"
        BY <2>2, <3>2
      <4>2. known' = known \cup {f}
        BY <2>2, <4>1
      <4>3. f \in announced
        BY <2>1, <4>1 DEF PipelineInv, FromBookings, Inv, AtHand, Key
      <4>4. Delivery!Learn(f)
        BY <2>1, <2>4, <4>1, <4>2, <4>3 DEF Delivery!Learn
      <4>5. Delivery!Next
        BY <4>4 DEF Delivery!Next
      <4> QED BY <4>5
    <3> QED BY <3>1, <3>2
  <2> QED
    BY <2>1, <2>3, <2>4
    DEF Consume, Work, dataVars, Fetch, Insert, Commit, Retry, InsertFails, CommitFails,
        FetchFails, Rejoin, Signal, CommitInterrupted, EndRun, Stop, Crash, Start,
        MarkAllAsRead, MarkAsRead, Mark
<1>3. CASE UNCHANGED pipelineVars
  BY <1>3 DEF pipelineVars, vars, dataVars, Delivery!vars
<1> QED BY <1>1, <1>2, <1>3 DEF PipelineNext

\* Both services together implement EventDelivery.
THEOREM DeliveryRefinement == PipelineSpec => ImplementsDelivery
<1>1. PipelineInit => Delivery!Init
  BY DEF PipelineInit, Init, Delivery!Init
<1>2. PipelineInv /\ [PipelineNext]_pipelineVars => [Delivery!Next]_(Delivery!vars)
  BY StepDelivers
<1> QED
  BY <1>1, <1>2, PipelineInvariance, PTL DEF PipelineSpec, ImplementsDelivery, Delivery!Spec

\* The consumer behind the topic is the consumer of NotificationConsumer.
THEOREM PipelineConsumer == PipelineSpec => []BroadcastAtMostOnce /\ ReadIsSticky
<1>1. PipelineInv => BroadcastAtMostOnce
  BY DEF PipelineInv, Inv
<1>2. PipelineInv /\ PipelineInv' /\ [PipelineNext]_pipelineVars =>
        [\A k \in Keys :
          /\ stored[k] # None =>
                stored'[k] # None /\ (stored[k].read => stored'[k].read)
          /\ stored'[k] # None /\ stored'[k].read => Owner[k.booking] \in readers']_vars
  <2> SUFFICES ASSUME PipelineInv, PipelineInv', [PipelineNext]_pipelineVars,
                      NEW k \in Keys
               PROVE  /\ stored[k] # None =>
                            stored'[k] # None /\ (stored[k].read => stored'[k].read)
                      /\ stored'[k] # None /\ stored'[k].read => Owner[k.booking] \in readers'
    OBVIOUS
  <2>1. CASE NotificationStep
    BY <2>1, StepKeepsReads DEF PipelineInv, NotificationStep, Next
  <2>2. CASE UNCHANGED dataVars
    BY <2>2 DEF PipelineInv, Inv, ReadByOwner, dataVars
  <2> QED BY <2>1, <2>2 DEF PipelineNext, BookingStep, pipelineVars, vars
<1> QED BY <1>1, <1>2, PipelineInvariance, PTL DEF PipelineSpec, ReadIsSticky

-----------------------------------------------------------------------------
\* What EventDelivery promises of a fact, in the terms of its tables and
\* streams: nothing is shown that is not stored, nothing is stored that was not
\* committed.
ToldInOrder ==
    \A k \in Keys : /\ broadcasts[k] > 0 => stored[k] # None
                    /\ stored[k] # None => k \in announced

\* EventDelivery keeps facts in this order.
LEMMA DeliveryInOrder == Delivery!Spec => []ToldInOrder
<1>1. Delivery!Init => ToldInOrder
  BY DEF Delivery!Init, ToldInOrder
<1>2. ToldInOrder /\ [Delivery!Next]_(Delivery!vars) => ToldInOrder'
  <2> SUFFICES ASSUME ToldInOrder, [Delivery!Next]_(Delivery!vars), NEW k \in Keys
               PROVE  /\ broadcasts'[k] > 0 => stored'[k] # None
                      /\ stored'[k] # None => k \in announced'
    BY DEF ToldInOrder
  <2> DEFINE known == {f \in Keys : stored[f] # None}
             shown == {f \in Keys : broadcasts[f] > 0}
  <2>1. /\ k \in known <=> stored[k] # None
        /\ k \in shown <=> broadcasts[k] > 0
        /\ k \in known' <=> stored'[k] # None
        /\ k \in shown' <=> broadcasts'[k] > 0
    OBVIOUS
  <2>2. shown \subseteq known /\ known \subseteq announced
    BY DEF ToldInOrder
  <2>3. \/ known' = known /\ shown' = shown /\ announced \subseteq announced'
        \/ \E f \in announced : known' = known \cup {f} /\ shown' = shown /\ announced' = announced
        \/ \E f \in known : shown' = shown \cup {f} /\ known' = known /\ announced' = announced
    BY DEF Delivery!Next, Delivery!Announce, Delivery!Learn, Delivery!Show, Delivery!vars
  <2> HIDE DEF known, shown
  <2> QED BY <2>1, <2>2, <2>3
<1> QED BY <1>1, <1>2, PTL DEF Delivery!Spec

\* The refinement carries it over: through both services, their databases and
\* the topic, a user is shown what is stored, and what is stored was committed.
THEOREM TruthIsTold == PipelineSpec => []ToldInOrder
BY DeliveryRefinement, DeliveryInOrder, PTL DEF ImplementsDelivery

-----------------------------------------------------------------------------
\* The consumer has a step to take (the guards of Work).
CanWork ==
    \/ at = "fetch" /\ position < Len(log)
    \/ at \in {"insert", "broadcast", "commit"}
    \/ at = "backoff" /\ phase = "running"

\* An event of the topic that has no notification, and whose INSERT has not
\* failed, is neither behind the committed offset nor behind the position of a
\* reader, unless it is the one at hand; and a service that runs goes on
\* towards it.
WithinReach ==
    \A i \in 1 .. Len(log) : ~Settled(i) =>
        /\ committed < i
        /\ at # "off" => position < i \/ (at = "insert" /\ current = i)
        /\ phase = "running" => CanWork

\* Only a service that stops or is down has switched its consumer off.
AtWork == phase = "running" => at # "off"

\* Errors of Run lead to the next Run, not to the end of the consumer.
LEMMA AtWorkInductive == AtWork /\ [PipelineNext]_pipelineVars => AtWork'
<1>1. CASE UNCHANGED <<at, phase>>
  BY <1>1 DEF AtWork
<1>2. CASE Consume
  BY <1>2
  DEF AtWork, Consume, Work, Fetch, StepFor, Insert, Broadcast, Commit, Retry, InsertFails,
      AfterInsertError, CommitFails, FetchFails, Rejoin, Signal, CommitInterrupted, AfterRunError,
      EndRun, Stop, Crash, Start, MarkAllAsRead, MarkAsRead, Mark, consumerVars
<1> QED
  BY <1>1, <1>2
  DEF PipelineNext, BookingStep, NotificationStep, pipelineVars, vars, consumerVars

\* No event of the topic gets behind the consumer: through every rejoin, failed
\* commit, signal and crash it stays to be read by this process or by the next
\* one, and one that runs is never stuck before it.
THEOREM NoEventOutOfReach == PipelineSpec => []WithinReach
<1>1. PipelineInit => AtWork
  BY DEF PipelineInit, Init, AtWork
<1>2. PipelineInv /\ AtWork => WithinReach
  <2> SUFFICES ASSUME PipelineInv, AtWork, NEW i \in 1 .. Len(log), ~Settled(i)
               PROVE  /\ committed < i
                      /\ at # "off" => position < i \/ (at = "insert" /\ current = i)
                      /\ phase = "running" => CanWork
    BY DEF WithinReach
  <2>1. committed < i
    BY DEF PipelineInv, Inv, TypeOK, InOrder
  <2>2. at # "off" => position < i \/ (at = "insert" /\ current = i)
    BY DEF PipelineInv, Inv, TypeOK, InOrder
  <2>3. phase = "running" => CanWork
    BY <2>2 DEF PipelineInv, Inv, TypeOK, AtWork, CanWork
  <2> QED BY <2>1, <2>2, <2>3
<1> QED BY <1>1, <1>2, AtWorkInductive, PipelineInvariance, PTL DEF PipelineSpec
=============================================================================
