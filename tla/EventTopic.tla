----------------------------- MODULE EventTopic -----------------------------
(***************************************************************************)
(* The topic of booking events as notification-service may rely on it:     *)
(* what the transactions and relays of booking-service promise             *)
(* (OutboxRelay implements this module) and what others may write.         *)
(*                                                                         *)
(* A fact is announced when a transaction commits its outbox row.  Every   *)
(* announced fact is finally published, in no particular order, and may    *)
(* be published again; nothing is published that was not announced.        *)
(***************************************************************************)
EXTENDS Naturals, FiniteSets, Sequences

CONSTANTS Facts,       \* bookings made and cancelled
          Noise,       \* messages that are no fact
          MaxMessages  \* bound of the topic (model only)

VARIABLES announced,   \* facts that were committed
          log          \* the topic

Records == {log[i] : i \in 1 .. Len(log)}

\* There is room for one more message than the facts still to come.
Room == Len(log) + Cardinality(Facts \ Records) < MaxMessages

Init == announced = {} /\ log = <<>>

Announce(f) ==
    /\ announced' = announced \cup {f}
    /\ UNCHANGED log

Publish(f) ==
    /\ f \in announced \ Records
    /\ log' = Append(log, f)
    /\ UNCHANGED announced

\* The repetition of a published fact, or somebody else's message.
WriteMore(m) ==
    /\ m \in Noise \cup (Facts \cap Records)
    /\ Room
    /\ log' = Append(log, m)
    /\ UNCHANGED announced

Next == (\E f \in Facts : Announce(f) \/ Publish(f))
        \/ \E m \in Noise \cup Facts : WriteMore(m)

Spec == Init /\ [][Next]_<<announced, log>>

Fairness == \A f \in Facts : WF_<<announced, log>>(Publish(f))
=============================================================================
