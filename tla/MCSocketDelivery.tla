-------------------------- MODULE MCSocketDelivery --------------------------
(* Instance of SocketDelivery for TLC: a backlog of two frames, five sends.  *)
EXTENDS SocketDelivery
=============================================================================
