----------------------- MODULE NotificationConsumerProofs -----------------------
(***************************************************************************)
(* Proofs about NotificationConsumer for any number of bookings, users,    *)
(* messages and failures, and for any use of the topic by its producers.   *)
(*                                                                         *)
(* A broadcast is the first one because the INSERT before it was the one   *)
(* that added the row: between the two the consumer does nothing else, and *)
(* nothing but the consumer adds rows or broadcasts.                       *)
(***************************************************************************)
EXTENDS NotificationConsumer, TLAPS

\* The message at hand: one the reader has handed out, and an event where the
\* step is one of an event.  A process that is down has none.
AtHand ==
    /\ at \in {"insert", "broadcast", "commit"} => current \in 1 .. Len(log)
    /\ at \in {"insert", "broadcast"} => Key \in Keys
    /\ phase = "down" => at = "off"

\* What is about to be broadcast is stored and was not broadcast before.
FirstBroadcast == at = "broadcast" => stored[Key] # None /\ broadcasts[Key] = 0

\* Nobody but its owner has marked a notification.
ReadByOwner ==
    \A k \in Keys : stored[k] # None /\ stored[k].read => Owner[k.booking] \in readers

Inv == TypeOK /\ AtHand /\ FirstBroadcast /\ BroadcastAtMostOnce /\ ReadByOwner

-----------------------------------------------------------------------------
\* A longer topic keeps its messages.
LEMMA Appended ==
    ASSUME NEW s \in Seq(Messages), NEW m \in Messages
    PROVE  /\ Append(s, m) \in Seq(Messages)
           /\ Len(Append(s, m)) = Len(s) + 1
           /\ \A i \in 1 .. Len(s) : Append(s, m)[i] = s[i]
OBVIOUS

\* The INSERT of an event adds its row, unread, if there is none, and changes
\* no other.
LEMMA InsertedRows ==
    ASSUME stored \in [Keys -> Notification \cup {None}], Key \in Keys
    PROVE  /\ StoredAfterInsert \in [Keys -> Notification \cup {None}]
           /\ StoredAfterInsert[Key] # None
           /\ stored[Key] = None => ~StoredAfterInsert[Key].read
           /\ \A k \in Keys : stored[k] # None \/ k # Key => StoredAfterInsert[k] = stored[k]
<1>0. [read |-> FALSE] \in Notification
  BY DEF Notification
<1>1. [read |-> FALSE] \in Notification /\ [read |-> FALSE] # None
  BY <1>0, ConsumerAssumption
<1>2. CASE stored[Key] = None
  BY <1>1, <1>2 DEF StoredAfterInsert
<1>3. CASE stored[Key] # None
  BY <1>3 DEF StoredAfterInsert
<1> QED BY <1>2, <1>3

\* The first state.
LEMMA Initially == Init => Inv
BY ConsumerAssumption
DEF Init, Inv, TypeOK, AtHand, FirstBroadcast, BroadcastAtMostOnce, ReadByOwner, Messages

\* A new message of the topic.
LEMMA AppendInv ==
    ASSUME Inv, NEW m \in Messages, log' = Append(log, m),
           UNCHANGED <<consumerVars, dataVars, failures>>
    PROVE  Inv'
<1>1. /\ log' \in Seq(Messages) /\ Len(log') = Len(log) + 1 /\ Len(log) \in Nat
      /\ \A i \in 1 .. Len(log) : log'[i] = log[i]
  BY Appended DEF Inv, TypeOK
<1>2. current \in 1 .. Len(log) => Key' = Key
  BY <1>1 DEF Key, consumerVars
<1>3. TypeOK'
  BY <1>1 DEF Inv, TypeOK, consumerVars, dataVars
<1>4. AtHand'
  BY <1>1, <1>2 DEF Inv, TypeOK, AtHand, consumerVars
<1>5. FirstBroadcast'
  BY <1>2 DEF Inv, AtHand, FirstBroadcast, consumerVars, dataVars
<1>6. BroadcastAtMostOnce' /\ ReadByOwner'
  BY DEF Inv, BroadcastAtMostOnce, ReadByOwner, dataVars
<1> QED BY <1>3, <1>4, <1>5, <1>6 DEF Inv

\* FetchMessage.
LEMMA FetchInv == Inv /\ Fetch => Inv'
<1> SUFFICES ASSUME Inv, Fetch PROVE Inv'
  OBVIOUS
<1>1. position + 1 \in 1 .. Len(log)
  BY DEF Inv, TypeOK, Fetch
<1>2. TypeOK'
  BY <1>1 DEF Inv, TypeOK, Fetch, StepFor, dataVars
<1>3. AtHand' /\ FirstBroadcast'
  BY <1>1 DEF Inv, Fetch, StepFor, AtHand, FirstBroadcast, Key
<1>4. BroadcastAtMostOnce' /\ ReadByOwner'
  BY DEF Inv, Fetch, BroadcastAtMostOnce, ReadByOwner, dataVars
<1> QED BY <1>2, <1>3, <1>4 DEF Inv

\* The INSERT, and the INSERT whose answer is an error.
LEMMA InsertInv == Inv /\ (Insert \/ InsertFails) => Inv'
<1> SUFFICES ASSUME Inv, Insert \/ InsertFails PROVE Inv'
  OBVIOUS
<1>1. /\ Key \in Keys /\ at = "insert"
      /\ UNCHANGED <<log, committed, position, current, phase, broadcasts, readers>>
      /\ stored' \in {stored, StoredAfterInsert}
  BY DEF Inv, AtHand, Insert, InsertFails
<1>2. /\ StoredAfterInsert \in [Keys -> Notification \cup {None}]
      /\ StoredAfterInsert[Key] # None
      /\ stored[Key] = None => ~StoredAfterInsert[Key].read
      /\ \A k \in Keys : stored[k] # None \/ k # Key => StoredAfterInsert[k] = stored[k]
  BY <1>1, InsertedRows DEF Inv, TypeOK
<1>3. /\ stored' \in [Keys -> Notification \cup {None}]
      /\ \A k \in Keys : stored[k] # None => stored'[k] = stored[k]
      /\ \A k \in Keys : stored'[k] # None /\ stored'[k].read =>
            stored[k] # None /\ stored[k].read
  BY <1>1, <1>2 DEF Inv, TypeOK
<1>4. at' \in {"broadcast", "commit"} /\ failures' \in 0 .. MaxFailures
  BY ConsumerAssumption
  DEF Inv, TypeOK, Insert, InsertFails, AfterInsertError, CountFailure
<1>5. TypeOK'
  BY <1>1, <1>3, <1>4 DEF Inv, TypeOK
<1>6. AtHand'
  BY <1>1, <1>4 DEF Inv, AtHand, Key
<1>7. at' = "broadcast" => stored[Key] = None /\ stored' = StoredAfterInsert
  BY DEF Insert, InsertFails, AfterInsertError, Inserted
<1>8. FirstBroadcast'
  BY <1>1, <1>2, <1>7 DEF Inv, TypeOK, FirstBroadcast, BroadcastAtMostOnce, Key
<1>9. BroadcastAtMostOnce'
  BY <1>1, <1>3 DEF Inv, TypeOK, BroadcastAtMostOnce
<1>10. ReadByOwner'
  BY <1>1, <1>3 DEF Inv, ReadByOwner
<1> QED BY <1>5, <1>6, <1>8, <1>9, <1>10 DEF Inv

\* The broadcast of what was stored.
LEMMA BroadcastInv == Inv /\ Broadcast => Inv'
<1> SUFFICES ASSUME Inv, Broadcast PROVE Inv'
  OBVIOUS
<1>1. Key \in Keys /\ stored[Key] # None /\ broadcasts[Key] = 0
  BY DEF Inv, AtHand, FirstBroadcast, Broadcast
<1>2. broadcasts' \in [Keys -> Nat] /\ broadcasts'[Key] = 1
  BY <1>1 DEF Inv, TypeOK, Broadcast
<1>3. \A k \in Keys \ {Key} : broadcasts'[k] = broadcasts[k]
  BY DEF Inv, TypeOK, Broadcast
<1>4. TypeOK' /\ AtHand' /\ FirstBroadcast'
  BY <1>2 DEF Inv, TypeOK, AtHand, FirstBroadcast, Broadcast
<1>5. BroadcastAtMostOnce'
  BY <1>1, <1>2, <1>3 DEF Inv, BroadcastAtMostOnce, Broadcast
<1>6. ReadByOwner'
  BY DEF Inv, ReadByOwner, Broadcast
<1> QED BY <1>4, <1>5, <1>6 DEF Inv

\* Marking notifications as read.
LEMMA MarkInv ==
    ASSUME Inv, NEW u \in Users, NEW chosen \in SUBSET Keys, Mark(u, chosen)
    PROVE  Inv'
<1>1. /\ UNCHANGED <<log, consumerVars, broadcasts, failures>>
      /\ readers' = readers \cup {u}
  BY DEF Mark
<1>2. \A k \in Keys : stored[k] # None =>
        /\ [stored[k] EXCEPT !.read = TRUE] \in Notification
        /\ [stored[k] EXCEPT !.read = TRUE].read
  BY DEF Inv, TypeOK, Notification
<1>3. stored' \in [Keys -> Notification \cup {None}]
  BY <1>2 DEF Inv, TypeOK, Mark
<1>4. \A k \in Keys : stored'[k] = None <=> stored[k] = None
  BY <1>2, ConsumerAssumption DEF Inv, TypeOK, Mark
<1>5. \A k \in Keys : stored'[k] # stored[k] => Owner[k.booking] = u
  BY DEF Mark, Owns, Inv, TypeOK
<1>6. TypeOK'
  BY <1>1, <1>3 DEF Inv, TypeOK, consumerVars
<1>7. AtHand' /\ FirstBroadcast'
  <2>1. Key' = Key /\ at' = at
    BY <1>1 DEF Key, consumerVars
  <2> QED BY <1>1, <1>4, <2>1 DEF Inv, AtHand, FirstBroadcast, consumerVars
<1>8. BroadcastAtMostOnce'
  BY <1>1, <1>4 DEF Inv, BroadcastAtMostOnce
<1>9. ReadByOwner'
  BY <1>1, <1>4, <1>5 DEF Inv, ReadByOwner
<1> QED BY <1>6, <1>7, <1>8, <1>9 DEF Inv

\* Steps that leave the topic and the notifications alone and after which no
\* event is at hand.
LEMMA OtherInv ==
    ASSUME Inv, UNCHANGED <<log, current, dataVars>>,
           committed' \in 0 .. Len(log), position' \in 0 .. Len(log),
           at' = at \/ at' \in {"fetch", "backoff", "off"},
           phase' \in {"running", "stopping", "down"},
           phase' = "down" => at' = "off",
           failures' \in 0 .. MaxFailures
    PROVE  Inv'
<1>1. TypeOK'
  BY DEF Inv, TypeOK, dataVars
<1>2. AtHand' /\ FirstBroadcast'
  BY DEF Inv, AtHand, FirstBroadcast, Key, dataVars
<1>3. BroadcastAtMostOnce' /\ ReadByOwner'
  BY DEF Inv, BroadcastAtMostOnce, ReadByOwner, dataVars
<1> QED BY <1>1, <1>2, <1>3 DEF Inv

\* Every step keeps the invariant.
LEMMA Inductive == Inv /\ [Next]_vars => Inv'
<1> SUFFICES ASSUME Inv, [Next]_vars PROVE Inv'
  OBVIOUS
<1> USE DEF CountFailure, consumerVars
<1>1. CASE Produce
  BY <1>1, AppendInv DEF Produce
<1>2. CASE Fetch
  BY <1>2, FetchInv
<1>3. CASE Insert \/ InsertFails
  BY <1>3, InsertInv
<1>4. CASE Broadcast
  BY <1>4, BroadcastInv
<1>5. CASE Commit \/ CommitFails \/ CommitInterrupted
  BY <1>5, OtherInv, ConsumerAssumption
  DEF Inv, TypeOK, AtHand, Commit, CommitFails, CommitInterrupted, AfterRunError
<1>6. CASE Retry \/ FetchFails \/ Rejoin
  BY <1>6, OtherInv, ConsumerAssumption DEF Inv, TypeOK, AtHand, Retry, FetchFails, Rejoin, AfterRunError
<1>7. CASE Signal \/ EndRun \/ Stop \/ Crash \/ Start
  BY <1>7, OtherInv, ConsumerAssumption DEF Inv, TypeOK, AtHand, Signal, EndRun, Stop, Crash, Start
<1>8. CASE \E u \in Users : MarkAllAsRead(u) \/ \E k \in Keys : MarkAsRead(u, k)
  BY <1>8, MarkInv DEF MarkAllAsRead, MarkAsRead
<1>9. CASE UNCHANGED vars
  BY <1>9, OtherInv DEF Inv, TypeOK, AtHand, vars
<1> QED
  BY <1>1, <1>2, <1>3, <1>4, <1>5, <1>6, <1>7, <1>8, <1>9 DEF Next, Consume, Work

\* Rows never vanish, never become unread, and are read through their owners:
\* one step.
LEMMA StepKeepsReads ==
    ASSUME Inv, Inv', [Next]_vars, NEW k \in Keys
    PROVE  /\ stored[k] # None =>
                 stored'[k] # None /\ (stored[k].read => stored'[k].read)
           /\ stored'[k] # None /\ stored'[k].read => Owner[k.booking] \in readers'
<1>1. stored'[k] # None /\ stored'[k].read => Owner[k.booking] \in readers'
  BY DEF Inv, ReadByOwner
<1>2. CASE stored' = stored
  BY <1>1, <1>2
<1>3. CASE Insert \/ InsertFails
  <2>1. Key \in Keys /\ stored' \in {stored, StoredAfterInsert}
    BY <1>3 DEF Inv, AtHand, Insert, InsertFails
  <2>2. stored[k] # None => StoredAfterInsert[k] = stored[k]
    BY <2>1, InsertedRows DEF Inv, TypeOK
  <2> QED BY <1>1, <2>1, <2>2
<1>4. ASSUME NEW u \in Users, NEW chosen \in SUBSET Keys, Mark(u, chosen)
      PROVE  stored[k] # None => stored'[k] # None /\ (stored[k].read => stored'[k].read)
  <2>1. SUFFICES ASSUME stored[k] # None
                 PROVE  stored'[k] # None /\ (stored[k].read => stored'[k].read)
    OBVIOUS
  <2>2. stored'[k] \in {stored[k], [stored[k] EXCEPT !.read = TRUE]}
    BY <1>4 DEF Mark
  <2>3. /\ [stored[k] EXCEPT !.read = TRUE] \in Notification
        /\ [stored[k] EXCEPT !.read = TRUE].read
    BY <2>1 DEF Inv, TypeOK, Notification
  <2> QED BY <2>1, <2>2, <2>3, ConsumerAssumption
<1>5. CASE \E u \in Users : MarkAllAsRead(u) \/ \E j \in Keys : MarkAsRead(u, j)
  BY <1>1, <1>4, <1>5 DEF MarkAllAsRead, MarkAsRead
<1> QED
  BY <1>2, <1>3, <1>5
  DEF Next, Consume, Work, vars, dataVars, Produce, Fetch, Broadcast, Commit, Retry,
      CommitFails, FetchFails, Rejoin, Signal, CommitInterrupted, EndRun, Stop, Crash, Start

-----------------------------------------------------------------------------
\* The inductive invariant holds, whatever is written to the topic and however
\* the consumer fails, dies and starts again.
THEOREM ConsumerInvariance == Spec => []Inv
BY Initially, Inductive, PTL DEF Spec

\* Type correctness of the topic, the consumer and the notifications.
THEOREM ConsumerTypes == Spec => []TypeOK
<1>1. Inv => TypeOK
  BY DEF Inv
<1> QED BY <1>1, ConsumerInvariance, PTL

\* A user is shown a notification at most once and only if it is stored.
THEOREM ShownOnce == Spec => []BroadcastAtMostOnce
<1>1. Inv => BroadcastAtMostOnce
  BY DEF Inv
<1> QED BY <1>1, ConsumerInvariance, PTL

\* A notification stays, stays read once it is, and is read through its owner.
THEOREM ReadsStay == Spec => ReadIsSticky
<1>1. Inv /\ Inv' /\ [Next]_vars =>
        [\A k \in Keys :
          /\ stored[k] # None =>
                stored'[k] # None /\ (stored[k].read => stored'[k].read)
          /\ stored'[k] # None /\ stored'[k].read => Owner[k.booking] \in readers']_vars
  BY StepKeepsReads
<1> QED BY <1>1, ConsumerInvariance, PTL DEF Spec, ReadIsSticky
=============================================================================
