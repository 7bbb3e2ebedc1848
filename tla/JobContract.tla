----------------------------- MODULE JobContract -----------------------------
(***************************************************************************)
(* What background jobs promise, whatever store, queue and lease are used: *)
(* each attempt number calls the handler at most once and there are at     *)
(* most MaxAttempts of them; a key settles once; it completes only when    *)
(* the handler has returned; a message leaves the queue only when its key  *)
(* is settled or its envelope is rejected.                                 *)
(***************************************************************************)
EXTENDS Integers

CONSTANTS Keys, Messages, KeyOf, BadMessages, MaxAttempts

VARIABLES
  verdict,   \* verdict[k]: "open", "completed" or "failed"
  attempts,  \* attempts[k]: attempt numbers whose handler was called
  returned,  \* keys whose handler has returned normally
  finished   \* messages the queue no longer holds

contractVars == <<verdict, attempts, returned, finished>>

ContractInit ==
  /\ verdict = [k \in Keys |-> "open"]
  /\ attempts = [k \in Keys |-> {}]
  /\ returned = {}
  /\ finished = {}

Attempt(k) ==
  /\ \E a \in (1..MaxAttempts) \ attempts[k] :
       attempts' = [attempts EXCEPT ![k] = @ \union {a}]
  /\ UNCHANGED <<verdict, returned, finished>>

Return(k) ==
  /\ attempts[k] # {}
  /\ returned' = returned \union {k}
  /\ UNCHANGED <<verdict, attempts, finished>>

Settle(k) ==
  /\ verdict[k] = "open"
  /\ \/ verdict' = [verdict EXCEPT ![k] = "failed"]
     \/ k \in returned /\ verdict' = [verdict EXCEPT ![k] = "completed"]
  /\ UNCHANGED <<attempts, returned, finished>>

Finish(m) ==
  /\ m \in BadMessages \/ verdict[KeyOf[m]] # "open"
  /\ finished' = finished \union {m}
  /\ UNCHANGED <<verdict, attempts, returned>>

ContractNext ==
  \/ \E k \in Keys : Attempt(k) \/ Return(k) \/ Settle(k)
  \/ \E m \in Messages : Finish(m)

ContractSpec == ContractInit /\ [][ContractNext]_contractVars
=============================================================================
