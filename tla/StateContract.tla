---------------------------- MODULE StateContract ----------------------------
(***************************************************************************)
(* What the object of a stateful component promises its peers and storage, *)
(* whatever components it builds: it starts from what init() left, is      *)
(* stored before a peer sees it, is saved in order; a peer joins the       *)
(* current state and is never sent an older one while it is connected; a   *)
(* state is forgotten only by a restart or after a save that failed.       *)
(***************************************************************************)
EXTENDS Integers

CONSTANTS Peers, Fresh

Nothing == -1

VARIABLES
  saved,    \* the state storage holds, or Nothing
  current,  \* the state the object is in, or Nothing before it exists
  shown,    \* shown[p]: what peer p was sent last, Nothing unless connected
  failed    \* the last save failed

contractVars == <<saved, current, shown, failed>>

ContractInit ==
  /\ saved = Nothing /\ current = Nothing
  /\ shown = [p \in Peers |-> Nothing]
  /\ failed = FALSE

Exists == saved # Nothing

Begin(p) ==
  /\ ~Exists
  /\ saved' = Fresh /\ current' = Fresh
  /\ shown' = [shown EXCEPT ![p] = Fresh]
  /\ UNCHANGED failed

Join(p) ==
  /\ Exists /\ shown[p] = Nothing
  /\ shown' = [shown EXCEPT ![p] = current]
  /\ UNCHANGED <<saved, current, failed>>

Leave(P) ==
  /\ shown' = [p \in Peers |-> IF p \in P THEN Nothing ELSE shown[p]]
  /\ UNCHANGED <<saved, current, failed>>

\* A write makes a state newer than any that was sent.
Change ==
  /\ Exists
  /\ current' \in Int /\ current' > current
  /\ \A p \in Peers : shown[p] < current'
  /\ UNCHANGED <<saved, shown, failed>>

\* Everyone connected is sent the current state.
Announce ==
  /\ \A p \in Peers : shown[p] <= current
  /\ shown' = [p \in Peers |-> IF shown[p] = Nothing THEN Nothing ELSE current]
  /\ UNCHANGED <<saved, current, failed>>

Save ==
  /\ \/ saved' \in saved..current /\ failed' = FALSE
     \/ saved' = saved /\ failed' = TRUE
  /\ UNCHANGED <<current, shown>>

\* The object left memory while its peers stayed connected.
Forget ==
  /\ failed
  /\ current' = saved
  /\ UNCHANGED <<saved, shown, failed>>

Restart ==
  /\ current' = saved
  /\ shown' = [p \in Peers |-> Nothing]
  /\ failed' \in {failed, TRUE}
  /\ UNCHANGED saved

ContractNext ==
  \/ \E p \in Peers : Begin(p) \/ Join(p)
  \/ \E P \in SUBSET Peers : Leave(P)
  \/ Change \/ Announce \/ Save \/ Forget \/ Restart

ContractSpec == ContractInit /\ [][ContractNext]_contractVars
=============================================================================
