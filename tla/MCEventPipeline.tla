-------------------------- MODULE MCEventPipeline --------------------------
(***************************************************************************)
(* Small instances of EventPipeline for TLC.                               *)
(***************************************************************************)
EXTENDS EventPipeline, TLC

\* Each booking is one user's, and no two bookings are the same user's.
MCOwner == CHOOSE f \in [Bookings -> Users] :
              \A a, b \in Bookings : f[a] = f[b] => a = b
=============================================================================
