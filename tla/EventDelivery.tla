--------------------------- MODULE EventDelivery ---------------------------
(***************************************************************************)
(* What the two services promise together about one kind of fact, that a   *)
(* booking was made or cancelled: it is announced when booking-service     *)
(* commits it, known to its owner once there is a notification of it, and  *)
(* shown to the owner's open streams at most once.  Nothing is known that  *)
(* was not announced, nothing is shown that is not known, and nothing is   *)
(* ever forgotten.  A fact may stay unknown, or known and not shown.       *)
(***************************************************************************)
CONSTANT Facts

VARIABLES announced,  \* facts booking-service has committed
          known,      \* facts their owners have a notification of
          shown       \* facts given to the streams of their owners

vars == <<announced, known, shown>>

Init == announced = {} /\ known = {} /\ shown = {}

Announce(f) ==
    /\ announced' = announced \cup {f}
    /\ UNCHANGED <<known, shown>>

Learn(f) ==
    /\ f \in announced \ known
    /\ known' = known \cup {f}
    /\ UNCHANGED <<announced, shown>>

Show(f) ==
    /\ f \in known \ shown
    /\ shown' = shown \cup {f}
    /\ UNCHANGED <<announced, known>>

Next == \E f \in Facts : Announce(f) \/ Learn(f) \/ Show(f)

Spec == Init /\ [][Next]_vars
=============================================================================
