--------------------------- MODULE MCNotifications ---------------------------
(* Instance of Notifications for TLC: two runs at work on one notification.  *)
EXTENDS Notifications
=============================================================================
