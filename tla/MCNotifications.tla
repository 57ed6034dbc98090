-------------------------- MODULE MCNotifications ---------------------------
(***************************************************************************)
(* Small instances of Notifications: batches smaller than the number of    *)
(* notifications, so that some wait for the next tick.                     *)
(***************************************************************************)
EXTENDS Notifications
=============================================================================
