--------------------------- MODULE MCActionQueue ---------------------------
(* Instance of ActionQueue for TLC: two calls on one socket, with the same  *)
(* request ID, different ones or none, and a call on another socket.        *)
EXTENDS ActionQueue, TLC

CONSTANTS c1, c2, c3, s1, s2, i1, i2

MCSocketOf == c1 :> s1 @@ c2 :> s1 @@ c3 :> s2
MCIdsOf == c1 :> {i1} @@ c2 :> {i1, i2} @@ c3 :> {i1, None}
=============================================================================
