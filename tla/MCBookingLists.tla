--------------------------- MODULE MCBookingLists ---------------------------
(***************************************************************************)
(* Small instances of BookingLists for TLC.                                *)
(***************************************************************************)
EXTENDS BookingLists, TLC

\* Every slot begins at time 0 of the clock.
MCStartAt == [s \in Slots |-> 0]

\* Two bookings that were there before.
CONSTANTS Later, Earlier
MCArchivedAt == Later :> -1 @@ Earlier :> -2
=============================================================================
