---------------------------- MODULE MCSseActions ----------------------------
(* Instance of SseActions for TLC: three ordinary actions and one stream     *)
(* compete for a coordinator that registers at most three.                   *)
EXTENDS SseActions
=============================================================================
