---------------------------- MODULE ScopeContract ----------------------------
(***************************************************************************)
(* What the actions of one SSE scope promise: they run as if one after the *)
(* other.  One is served at a time and at most once; only the served one   *)
(* writes, each write adds to the newest snapshot and to nothing else, a   *)
(* stream writes its frames in order, and what is over writes no more.     *)
(***************************************************************************)
EXTENDS Integers

CONSTANTS Ops, Streams, NoOp, MaxFrames

VARIABLES
  snapshot,  \* the writes <<operation, number>> the scope's state contains
  serving,   \* the operation that is served, or NoOp
  over       \* operations that are over

contractVars == <<snapshot, serving, over>>

ContractInit == snapshot = {} /\ serving = NoOp /\ over = {}

\* The next write of the served operation; an ordinary action makes one.
Write ==
  \E n \in 1..MaxFrames :
    /\ serving \in Streams \/ n = 1
    /\ \A m \in 1..MaxFrames : <<serving, m>> \in snapshot <=> m < n
    /\ snapshot' = snapshot \union {<<serving, n>>}

Serve(o) ==
  /\ serving = NoOp /\ o \notin over
  /\ serving' = o
  /\ UNCHANGED <<snapshot, over>>

Publish ==
  /\ serving # NoOp /\ Write
  /\ UNCHANGED <<serving, over>>

\* Refused, aborted before it was sent, or cancelled in line.
GiveUp(o) ==
  /\ o # serving
  /\ over' = over \union {o}
  /\ UNCHANGED <<snapshot, serving>>

\* The served one ends, perhaps with its last write; the next may follow at once.
Done ==
  /\ serving # NoOp
  /\ over' = over \union {serving}
  /\ Write \/ UNCHANGED snapshot
  /\ serving' \in {NoOp} \union (Ops \ over')

ContractNext == Publish \/ Done \/ \E o \in Ops : Serve(o) \/ GiveUp(o)

ContractSpec == ContractInit /\ [][ContractNext]_contractVars
=============================================================================
