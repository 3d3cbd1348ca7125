----------------------------- MODULE MCRoomSlots -----------------------------
(***************************************************************************)
(* Small instances of RoomSlots for TLC: Sundays, Mondays, a list that     *)
(* names a day twice and one with a day that does not exist.               *)
(***************************************************************************)
EXTENDS RoomSlots

MCDayLists == {<<7>>, <<1, 7>>, <<1, 1>>, <<0, 1>>}
=============================================================================
