------------------------------ MODULE MCRestart ------------------------------
(* The instance of NotificationsRestart for TLC. *)
EXTENDS NotificationsRestart, MCNotifications
=============================================================================
