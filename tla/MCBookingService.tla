-------------------------- MODULE MCBookingService --------------------------
(***************************************************************************)
(* Small instances of BookingService for TLC.                              *)
(***************************************************************************)
EXTENDS BookingService, TLC

\* Every slot begins at time 1 of the clock.
MCStartAt == [s \in Slots |-> 1]

\* Spec while MaxTime is 0: the clock stands still.
MCSpec == Init /\ [][Serve]_vars

\* Requests, slots and users are interchangeable (safety runs only).
MCSymmetry == Permutations(Requests) \cup Permutations(Slots) \cup Permutations(Users)
=============================================================================
