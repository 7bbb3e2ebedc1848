---------------------------- MODULE ActionQueue ----------------------------
(***************************************************************************)
(* Server actions called over the sockets of one live component:           *)
(* dispatchSocketRpcMessage (core/src/shared/runtime.ts) and executeAction *)
(* with _runAction (core/src/shared/cossack.ts).                           *)
(*                                                                         *)
(* Actions take turns: each waits for the turn of the one before it.  An   *)
(* action that returns an async generator gives its turn up as soon as the *)
(* first next() was called, if the framework wired an identity scope       *)
(* (AsyncLocalStorage), and keeps it to the end of the stream otherwise.   *)
(* this.user and this.c are read from the scope, or else from slots of the *)
(* component that every action shares.                                     *)
(*                                                                         *)
(* A step is the code between two awaits.  The application's code can read *)
(* its identity anywhere between its steps, so what a read returns is an   *)
(* operator on the state.                                                  *)
(***************************************************************************)
EXTENDS Naturals, Sequences, FiniteSets

CONSTANTS
  Calls,     \* action messages, each sent at most once
  Sockets,
  Ids,       \* request IDs
  SocketOf,  \* SocketOf[c]: the socket c arrives on
  IdsOf,     \* IdsOf[c]: the request IDs c may have, None for no ID
  None,      \* no call, no request ID
  Refused,   \* what an identity read returns when it throws
  MaxYields  \* bound: values one stream yields

ASSUME QueueAssumption ==
  /\ SocketOf \in [Calls -> Sockets]
  /\ IdsOf \in [Calls -> SUBSET (Ids \union {None})]
  /\ None \notin Calls \union Ids /\ Refused \notin Calls \union {None}
  /\ IsFiniteSet(Calls) /\ MaxYields \in Nat

VARIABLES
  wired,     \* setActionIdentityScope was called
  open,      \* the sockets that are open
  at,        \* at[c]: where the call is
  id,        \* id[c]: its request ID, or None
  hooks,     \* the calls registered in rpcCancellations of their socket
  cancelled, \* cancellation.cancelled
  tail,      \* whose turn _actionQueue is, or None
  ahead,     \* ahead[c]: whose turn c waits for, or None
  released,  \* the calls whose turn is over
  slots,     \* whose _actionIdentity and _cossack_ws_context are set, or None
  detached,  \* the streams that gave their turn up and still run
  streams,   \* _detachedStreams
  sent       \* sent[c]: the frames sent for c

turnVars   == <<tail, ahead>>
cancelVars == <<hooks, cancelled>>
idVars     == <<slots, detached, streams>>
vars == <<wired, open, at, id, cancelVars, turnVars, released, idVars, sent>>

Init ==
  /\ wired \in BOOLEAN /\ open = Sockets
  /\ at = [c \in Calls |-> "new"] /\ id = [c \in Calls |-> None]
  /\ hooks = {} /\ cancelled = {}
  /\ tail = None /\ ahead = [c \in Calls |-> None] /\ released = {}
  /\ slots = None /\ detached = {} /\ streams = 0
  /\ sent = [c \in Calls |-> <<>>]

Correlated(c) == id[c] # None

\* sendRpcFrame(): a frame for a socket that is not open is dropped.
Sends(c, frame) ==
  sent' = IF SocketOf[c] \in open THEN [sent EXCEPT ![c] = Append(@, frame)] ELSE sent

\* The calls whose hook has the key of c.
SameKey(c) == {d \in hooks : SocketOf[d] = SocketOf[c] /\ id[d] = id[c]}

-----------------------------------------------------------------------------
(* dispatchSocketRpcMessage *)

\* An action message; the socket's authorization is checked again.
Receive(c) ==
  /\ at[c] = "new" /\ SocketOf[c] \in open
  /\ at' = [at EXCEPT ![c] = "authorizing"]
  /\ \E i \in IdsOf[c] : id' = [id EXCEPT ![c] = i]
  /\ UNCHANGED <<wired, open, cancelVars, turnVars, released, idVars, sent>>

\* retireClient(): every registered call of the socket is cancelled.
Retire(s) ==
  /\ open' = open \ {s}
  /\ cancelled' = cancelled \union {c \in hooks : SocketOf[c] = s}
  /\ hooks' = {c \in hooks : SocketOf[c] # s}

\* The authorization was revoked: an error frame, and the socket is closed.
Deny(c) ==
  /\ at[c] = "authorizing"
  /\ at' = [at EXCEPT ![c] = "over"]
  /\ IF Correlated(c) THEN Sends(c, "error") ELSE UNCHANGED sent
  /\ Retire(SocketOf[c])
  /\ UNCHANGED <<wired, id, turnVars, released, idVars>>

\* A malformed message, an unknown target or a method that is not callable.
Reject(c) ==
  /\ at[c] = "authorizing"
  /\ at' = [at EXCEPT ![c] = "over"]
  /\ IF Correlated(c) THEN Sends(c, "error") ELSE UNCHANGED sent
  /\ UNCHANGED <<wired, id, open, cancelVars, turnVars, released, idVars>>

\* Mutation of Enqueue: a request ID in use is registered again.
EnqueueDuplicate(c) ==
  /\ at[c] = "authorizing"
  /\ at' = [at EXCEPT ![c] = "queued"]
  /\ hooks' = IF Correlated(c) THEN (hooks \ SameKey(c)) \union {c} ELSE hooks
  /\ ahead' = [ahead EXCEPT ![c] = tail] /\ tail' = c
  /\ UNCHANGED <<wired, id, open, cancelled, released, idVars, sent>>

\* executeAction(): a request ID in use is refused, else the call takes its place.
Enqueue(c) ==
  /\ at[c] = "authorizing"
  /\ IF Correlated(c) /\ SameKey(c) # {}
     THEN /\ at' = [at EXCEPT ![c] = "over"]
          /\ Sends(c, "error")
          /\ UNCHANGED <<hooks, turnVars>>
     ELSE /\ at' = [at EXCEPT ![c] = "queued"]
          /\ hooks' = IF Correlated(c) THEN hooks \union {c} ELSE hooks
          /\ ahead' = [ahead EXCEPT ![c] = tail] /\ tail' = c
          /\ UNCHANGED sent
  /\ UNCHANGED <<wired, id, open, cancelled, released, idVars>>

\* A cancel message: the hook, if there is one, cancels the call.
Cancel(c) ==
  /\ c \in hooks \ cancelled /\ SocketOf[c] \in open
  /\ cancelled' = cancelled \union {c}
  /\ UNCHANGED <<wired, id, open, at, hooks, turnVars, released, idVars, sent>>

Close(s) ==
  /\ s \in open
  /\ Retire(s)
  /\ UNCHANGED <<wired, id, at, turnVars, released, idVars, sent>>

-----------------------------------------------------------------------------
(* executeAction's run(), and _runAction *)

\* run() ends: the turn is over and the request ID is free.
Leave(c) ==
  /\ at' = [at EXCEPT ![c] = "over"]
  /\ released' = released \union {c}
  /\ hooks' = IF Correlated(c) THEN hooks \ SameKey(c) ELSE hooks

\* The call's last frame: nothing once it was cancelled, and "complete" for a
\* caller without a request ID whatever happened.
Answer(c, frame) ==
  IF ~Correlated(c) THEN Sends(c, "complete")
  ELSE IF c \in cancelled THEN UNCHANGED sent
  ELSE Sends(c, frame)

MyTurn(c) == at[c] = "queued" /\ (ahead[c] = None \/ ahead[c] \in released)

\* A call cancelled in the queue is not run; one whose method is missing neither.
Skip(c) ==
  /\ MyTurn(c)
  /\ IF c \in cancelled \/ ~Correlated(c) THEN UNCHANGED sent ELSE Sends(c, "error")
  /\ Leave(c)
  /\ UNCHANGED <<wired, id, open, cancelled, turnVars, idVars>>

\* The slots are taken, and the rate limit, the input and the authorization of
\* the action are checked.
Start(c) ==
  /\ MyTurn(c) /\ c \notin cancelled
  /\ at' = [at EXCEPT ![c] = "checks"]
  /\ slots' = c
  /\ UNCHANGED <<wired, id, open, cancelVars, turnVars, released, detached, streams, sent>>

\* The end of a call that still has its turn.
EndTurn(c, frame) ==
  /\ Answer(c, frame)
  /\ Leave(c)
  /\ slots' = None
  /\ UNCHANGED <<wired, id, open, cancelled, turnVars, detached, streams>>

\* Mutation of ChecksFail: a denied call gets no answer.
ChecksFailSilently(c) ==
  /\ at[c] = "checks"
  /\ Leave(c)
  /\ slots' = None
  /\ UNCHANGED <<wired, id, open, cancelled, turnVars, detached, streams, sent>>

\* A check fails, or the call was cancelled meanwhile.
ChecksFail(c) == at[c] = "checks" /\ EndTurn(c, "error")

Invoke(c) ==
  /\ at[c] = "checks" /\ c \notin cancelled
  /\ at' = [at EXCEPT ![c] = "running"]
  /\ UNCHANGED <<wired, id, open, cancelVars, turnVars, released, idVars, sent>>

\* Mutation of Return: the result is sent to a caller that cancelled.
ReturnAnyway(c) ==
  /\ at[c] = "running"
  /\ Sends(c, "done")
  /\ Leave(c)
  /\ slots' = None
  /\ UNCHANGED <<wired, id, open, cancelled, turnVars, detached, streams>>

\* The method returned a value, or threw.
Return(c) == at[c] = "running" /\ (EndTurn(c, "done") \/ EndTurn(c, "error"))

\* Mutation of Stream: the stream keeps its turn.
StreamKeepsTurn(c) ==
  /\ at[c] = "running" /\ Correlated(c)
  /\ IF c \in cancelled
     THEN at' = [at EXCEPT ![c] = "closing"] /\ UNCHANGED <<released, idVars>>
     ELSE /\ at' = [at EXCEPT ![c] = "stepping"]
          /\ IF wired
             THEN /\ detached' = detached \union {c} /\ streams' = streams + 1
                  /\ slots' = None /\ UNCHANGED released
             ELSE UNCHANGED <<released, idVars>>
  /\ UNCHANGED <<wired, id, open, cancelVars, turnVars, sent>>

\* The method returned an async generator.  Its first next() is called with the
\* caller's identity; then a stream with a scope of its own gives up its turn.
Stream(c) ==
  /\ at[c] = "running" /\ Correlated(c)
  /\ IF c \in cancelled
     THEN at' = [at EXCEPT ![c] = "closing"] /\ UNCHANGED <<released, idVars>>
     ELSE /\ at' = [at EXCEPT ![c] = "stepping"]
          /\ IF wired
             THEN /\ detached' = detached \union {c} /\ streams' = streams + 1
                  /\ slots' = None /\ released' = released \union {c}
             ELSE UNCHANGED <<released, idVars>>
  /\ UNCHANGED <<wired, id, open, cancelVars, turnVars, sent>>

\* next() resolved with a value: it is sent, and next() is called again.
Yield(c) ==
  /\ at[c] = "stepping" /\ c \notin cancelled /\ Len(sent[c]) < MaxYields
  /\ Sends(c, "yield")
  /\ UNCHANGED <<wired, id, open, at, cancelVars, turnVars, released, idVars>>

\* next() was the last, failed, or resolved for a call cancelled meanwhile; the
\* generator's return() is awaited.
EndStream(c) ==
  /\ at[c] = "stepping"
  /\ at' = [at EXCEPT ![c] = "closing"]
  /\ Answer(c, "done") \/ Answer(c, "error")
  /\ UNCHANGED <<wired, id, open, cancelVars, turnVars, released, idVars>>

\* Mutation of Closed: the slots are cleared whoever has them.
ClosedClears(c) ==
  /\ at[c] = "closing"
  /\ Leave(c)
  /\ detached' = detached \ {c}
  /\ streams' = IF c \in detached THEN streams - 1 ELSE streams
  /\ slots' = None
  /\ UNCHANGED <<wired, id, open, cancelled, turnVars, sent>>

\* A detached stream no longer owns the slots.
Closed(c) ==
  /\ at[c] = "closing"
  /\ Leave(c)
  /\ IF c \in detached
     THEN detached' = detached \ {c} /\ streams' = streams - 1 /\ UNCHANGED slots
     ELSE slots' = None /\ UNCHANGED <<detached, streams>>
  /\ UNCHANGED <<wired, id, open, cancelled, turnVars, sent>>

-----------------------------------------------------------------------------
\* The steps of a call that the framework, its checks and a method take.
Settle(c) ==
  \/ Skip(c) \/ Start(c) \/ ChecksFail(c) \/ Invoke(c) \/ Return(c) \/ Stream(c)
  \/ c \notin detached /\ Closed(c)

Next ==
  \/ \E c \in Calls :
       \/ Receive(c) \/ Deny(c) \/ Reject(c) \/ Enqueue(c) \/ Cancel(c)
       \/ Skip(c) \/ Start(c) \/ ChecksFail(c) \/ Invoke(c) \/ Return(c)
       \/ Stream(c) \/ Yield(c) \/ EndStream(c) \/ Closed(c)
  \/ \E s \in Sockets : Close(s)

Spec == Init /\ [][Next]_vars

\* Checks and plain methods settle; a stream may never yield again.
FairSpec == Spec /\ \A c \in Calls : WF_vars(Settle(c))

-----------------------------------------------------------------------------
(* Reading this.user or this.c *)

\* Outside any scope: the slots, unless a detached stream runs.
Ambient == IF streams > 0 THEN Refused ELSE slots

\* In a continuation of call c, inside its scope if there is one.
Scoped(c) == IF wired THEN c ELSE Ambient

\* The calls whose application code is running.
Active == {c \in Calls : at[c] \in {"checks", "running", "stepping", "closing"}}

-----------------------------------------------------------------------------
\* Every variable keeps its type.
TypeOK ==
  /\ wired \in BOOLEAN /\ open \subseteq Sockets
  /\ at \in [Calls -> {"new", "authorizing", "queued", "checks", "running",
                       "stepping", "closing", "over"}]
  /\ id \in [Calls -> Ids \union {None}]
  /\ hooks \subseteq Calls /\ cancelled \subseteq Calls
  /\ tail \in Calls \union {None} /\ ahead \in [Calls -> Calls \union {None}]
  /\ released \subseteq Calls /\ detached \subseteq Calls
  /\ slots \in Calls \union {None} /\ streams \in Nat
  /\ sent \in [Calls -> Seq({"yield", "done", "error", "complete"})]

\* However turns, streams, cancellations and closed sockets interleave, code of a
\* call that reads its identity after an await gets its own caller or an error,
\* and never an error inside its scope; the authorization of an action is checked
\* against its own caller; between calls the slots are empty.
OwnIdentity ==
  /\ \A c \in Active : Scoped(c) = c /\ Ambient \in {c, Refused}
  /\ \A c \in Calls : at[c] = "checks" => slots = c
  /\ Active = {} => slots = None /\ streams = 0

\* A call with a request ID gets its yields and then at most one last frame, and
\* gets that frame by the time it is over unless it was cancelled or its socket
\* closed.
OneAnswer ==
  \A c \in {d \in Calls : Correlated(d)} :
    /\ \A n \in 1..Len(sent[c]) : sent[c][n] # "yield" => n = Len(sent[c])
    /\ at[c] = "over" /\ c \notin cancelled /\ SocketOf[c] \in open
         => sent[c] # <<>> /\ sent[c][Len(sent[c])] # "yield"

\* Until its answer is complete, a call of an open socket can be cancelled by its
\* request ID, and no other call can take that ID.
Cancellable ==
  \A c \in {d \in Calls : Correlated(d)} :
    at[c] \in {"queued", "checks", "running", "stepping", "closing"} /\ SocketOf[c] \in open
      => c \in hooks /\ SameKey(c) = {c}

\* A cancelled call sends nothing more, and is not invoked if it was not yet:
\* "Closing a socket cancels registered queued work before invocation."
CancelHolds ==
  [][\A c \in cancelled :
       /\ sent'[c] = sent[c]
       /\ at[c] \in {"queued", "checks"} => at'[c] # "running"]_vars

\* "A long-lived stream cannot block other callers' actions": with an identity
\* scope every call gets its turn, whatever streams do.
TurnComes == \A c \in Calls : wired /\ at[c] = "queued" ~> at[c] # "queued"
=============================================================================
