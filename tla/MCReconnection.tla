--------------------------- MODULE MCReconnection ---------------------------
(***************************************************************************)
(* Small instances of Reconnection for TLC.                                *)
(***************************************************************************)
EXTENDS Reconnection, TLC

\* Streams, tokens and users are interchangeable.
MCSymmetry == Permutations(Streams) \cup Permutations(Tokens) \cup Permutations(Users)

\* Lists and marks are made before time passes, while a stream is yet to open:
\* the instances with all streams and with lists are two halves of one run.
MCBound ==
    \/ asked = {} /\ read = {}
    \/ now = 0 /\ \E s \in Streams : pc[s] = "new"

MCSpec == InboxInit /\ [][InboxNext /\ MCBound']_<<vars, inboxVars>>
=============================================================================
