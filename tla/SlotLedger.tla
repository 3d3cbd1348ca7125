----------------------------- MODULE SlotLedger -----------------------------
(***************************************************************************)
(* What the booking service promises, without requests, transactions,      *)
(* connections or failures: a ledger of bookings in which every slot has   *)
(* at most one active booking, only its owner cancels a booking, a         *)
(* cancelled booking stays cancelled, and every change of the ledger is    *)
(* announced in the same step.                                             *)
(***************************************************************************)
CONSTANTS Bookings,   \* booking identifiers
          Slots,      \* slots that can be booked
          Users,      \* users with the role "user"
          None        \* "no such row"

VARIABLES ledger,     \* ledger[b]: None, or the slot, the owner and the status
          announced   \* set of <<event type, booking>> handed to the outbox

ledgerVars == <<ledger, announced>>

Entry == [slot : Slots, user : Users, status : {"active", "cancelled"}]

LedgerTypeOK ==
    /\ ledger \in [Bookings -> Entry \cup {None}]
    /\ announced \subseteq {"created", "cancelled"} \X Bookings

Holds(b, s) == /\ ledger[b] # None
               /\ ledger[b].slot = s
               /\ ledger[b].status = "active"

Init == /\ ledger = [b \in Bookings |-> None]
        /\ announced = {}

Book(b, s, u) ==
    /\ ledger[b] = None
    /\ \A other \in Bookings : ~Holds(other, s)
    /\ ledger' = [ledger EXCEPT ![b] = [slot |-> s, user |-> u, status |-> "active"]]
    /\ announced' = announced \cup {<<"created", b>>}

Cancel(b, u) ==
    /\ ledger[b] # None
    /\ ledger[b].user = u
    /\ ledger[b].status = "active"
    /\ ledger' = [ledger EXCEPT ![b].status = "cancelled"]
    /\ announced' = announced \cup {<<"cancelled", b>>}

Next == \E b \in Bookings, u \in Users :
            \/ \E s \in Slots : Book(b, s, u)
            \/ Cancel(b, u)

Spec == Init /\ [][Next]_ledgerVars
=============================================================================
