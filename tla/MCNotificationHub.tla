-------------------------- MODULE MCNotificationHub --------------------------
(***************************************************************************)
(* Small instances of NotificationHub for TLC.                             *)
(***************************************************************************)
EXTENDS NotificationHub
=============================================================================
