-------------------------- MODULE MCNotifications --------------------------
(***************************************************************************)
(* Notifications for TLC.                                                  *)
(***************************************************************************)
EXTENDS Notifications

=============================================================================
