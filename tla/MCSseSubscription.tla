-------------------------- MODULE MCSseSubscription --------------------------
(* Instance of SseSubscription for TLC: a log that retains two events, one   *)
(* long-poll at a time, and pages that lose and reopen their connection.     *)
EXTENDS SseSubscription
=============================================================================
