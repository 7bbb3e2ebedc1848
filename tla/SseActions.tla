----------------------------- MODULE SseActions -----------------------------
(***************************************************************************)
(* Actions of one SSE scope on Cloudflare: the coordinator Durable Object  *)
(* (SseDurableObject.execute/cancel/#finish) and the Worker that handles   *)
(* each /crpc request (handleRpc in router.ts).                            *)
(*                                                                         *)
(* The coordinator serializes the actions of a scope in one slot.  The     *)
(* owner of the slot is called back in its Worker with the state read at   *)
(* that moment, publishes the state it computed, and keeps the slot until  *)
(* its response has been read to the end or closed by a cancellation.      *)
(*                                                                         *)
(* The object is single-threaded: a step below is the code between two     *)
(* awaits.  The continuation after `await ready` runs as a microtask of    *)
(* the step that called enter(), so both are one step here.  Calls between *)
(* Worker and object (execute, cancel, publish, the action callback, its   *)
(* response, stream frames) are separate steps and interleave.  A restart  *)
(* of the object, which forgets the slot, is not modelled.                 *)
(*                                                                         *)
(* The scope's state is abstracted to the set of writes it contains, one   *)
(* element per state an action has computed.                               *)
(***************************************************************************)
EXTENDS Integers, Sequences, FiniteSets

CONSTANTS
  Ops,         \* operation IDs (crypto.randomUUID(), one per request)
  Streams,     \* the operations whose action returns an async generator
  NoOp,        \* "no active operation"
  MaxPending,  \* MAX_PENDING: operations registered at once
  MaxFrames,   \* bound: states one stream yields
  MaxAborts    \* bound: requests whose client goes away

ASSUME OpsAssumption ==
  /\ Streams \subseteq Ops
  /\ NoOp \notin Ops
  /\ MaxPending \in Nat \ {0}
  /\ MaxFrames \in Nat \ {0}
  /\ MaxAborts \in Nat

VARIABLES
  state,       \* snapshot.state: the set of writes it contains
  registered,  \* keys of #actions
  queue,       \* #queue
  active,      \* #active, or NoOp
  cancelled,   \* operations whose entry.cancelled is set
  pc,          \* pc[o]: where the call chain of operation o is
  inst,        \* inst[o]: state of the component instance in o's Worker
  frame,       \* frame[o]: number of frames pulled from the stream of o so far
  pulling,     \* operations with an iterator.next() under way
  aborted,     \* operations whose request signal is aborted
  cancelCall   \* operations whose cancel() call is on its way

scopeVars == <<state, registered, queue, active, cancelled>>
callVars == <<pc, inst, frame, pulling>>
abortVars == <<aborted, cancelCall>>
vars == <<scopeVars, callVars, abortVars>>

\* Where a request can be.  From "calling" to "stream" it owns the slot.
OwnerSteps == {
  "calling",     \* the action callback is on its way to the Worker
  "working",     \* the action runs in the Worker
  "publishing",  \* its publish() call is on its way to the coordinator
  "replying",    \* the callback's JSON response is on its way
  "failing",     \* the callback's error response is on its way
  "opening",     \* the callback's stream response is on its way
  "body",        \* a plain response body is being read
  "stream"}      \* a stream response is being read
Steps == OwnerSteps \union {"new", "sent", "queued", "over"}

Writes == Ops \X (1..MaxFrames)

Init ==
  /\ state = {}
  /\ registered = {} /\ queue = <<>> /\ active = NoOp /\ cancelled = {}
  /\ pc = [o \in Ops |-> "new"]
  /\ inst = [o \in Ops |-> {}]
  /\ frame = [o \in Ops |-> 0]
  /\ pulling = {}
  /\ aborted = {} /\ cancelCall = {}

-----------------------------------------------------------------------------
(* The coordinator's slot *)

\* queue.splice(queue.indexOf(o), 1)
Without(q, o) ==
  IF \E n \in 1..Len(q) : q[n] = o
  THEN LET n == CHOOSE n \in 1..Len(q) : q[n] = o
       IN SubSeq(q, 1, n - 1) \o SubSeq(q, n + 1, Len(q))
  ELSE q

\* Operation o becomes the owner: enter() runs its continuation, which reads
\* the snapshot and calls the action back.
Enters(o) ==
  /\ active' = o
  /\ inst' = [inst EXCEPT ![o] = state']

\* Mutation of Finish: a cancelled operation is not taken out of the line.
FinishKeepsLine(o, step) ==
  /\ registered' = registered \ {o}
  /\ pc' = [pc EXCEPT ![o] = step]
  /\ IF active # o
     THEN UNCHANGED <<active, inst, queue>>
     ELSE active' = NoOp /\ UNCHANGED <<inst, queue>>

\* #finish(entry): forget o, whose request goes on with `step`; if o owned the
\* slot, the next in line enters.
Finish(o, step) ==
  /\ registered' = registered \ {o}
  /\ IF active # o
     THEN /\ queue' = Without(queue, o)
          /\ pc' = [pc EXCEPT ![o] = step]
          /\ UNCHANGED <<active, inst>>
     ELSE IF queue = <<>>
     THEN /\ active' = NoOp
          /\ pc' = [pc EXCEPT ![o] = step]
          /\ UNCHANGED <<queue, inst>>
     ELSE /\ queue' = Tail(queue)
          /\ pc' = [pc EXCEPT ![o] = step, ![Head(queue)] = "calling"]
          /\ Enters(Head(queue))

\* The request of o goes on with `step`; the slot is not touched.
Goes(o, step) ==
  /\ pc' = [pc EXCEPT ![o] = step]
  /\ UNCHANGED <<registered, queue, active>>

-----------------------------------------------------------------------------
(* Requests and cancellation *)

\* The Worker sends execute(), unless the request is already aborted.
Send(o) ==
  /\ pc[o] = "new"
  /\ Goes(o, IF o \in aborted THEN "over" ELSE "sent")
  /\ UNCHANGED <<state, cancelled, inst, frame, pulling, abortVars>>

\* execute() up to its first await: refuse, wait in line, or enter at once.
Execute(o) ==
  /\ pc[o] = "sent"
  /\ UNCHANGED state
  /\ IF Cardinality(registered) >= MaxPending
     THEN Goes(o, "over") /\ UNCHANGED inst
     ELSE /\ registered' = registered \union {o}
          /\ IF active # NoOp
             THEN /\ queue' = Append(queue, o)
                  /\ pc' = [pc EXCEPT ![o] = "queued"]
                  /\ UNCHANGED <<active, inst>>
             ELSE /\ pc' = [pc EXCEPT ![o] = "calling"]
                  /\ Enters(o)
                  /\ UNCHANGED queue
  /\ UNCHANGED <<cancelled, frame, pulling, abortVars>>

\* The client goes away: the Worker aborts the action's signal and sends
\* cancel(), once an execute() call may exist.
Abort(o) ==
  /\ o \notin aborted /\ pc[o] # "over"
  /\ Cardinality(aborted) < MaxAborts
  /\ aborted' = aborted \union {o}
  /\ cancelCall' = IF pc[o] = "new" THEN cancelCall ELSE cancelCall \union {o}
  /\ UNCHANGED <<scopeVars, callVars>>

\* Mutation of Cancel: an operation in line is only marked.
CancelOnlyMarks(o) ==
  /\ o \in cancelCall
  /\ cancelCall' = cancelCall \ {o}
  /\ cancelled' = cancelled \union (registered \intersect {o})
  /\ UNCHANGED <<state, registered, queue, active, pc, inst, frame, pulling, aborted>>

\* cancel(operationId): unknown and finished operations are ignored, one in line
\* leaves it, the owner is closed if its response has been wrapped (close is
\* set) and otherwise only marked.
Cancel(o) ==
  /\ o \in cancelCall
  /\ cancelCall' = cancelCall \ {o}
  /\ UNCHANGED state
  /\ IF o \in registered
     THEN /\ cancelled' = cancelled \union {o}
          /\ IF active # o \/ pc[o] \in {"body", "stream"}
             THEN Finish(o, "over")
             ELSE UNCHANGED <<registered, queue, active, pc, inst>>
     ELSE UNCHANGED <<cancelled, registered, queue, active, pc, inst>>
  /\ UNCHANGED <<frame, pulling, aborted>>

-----------------------------------------------------------------------------
(* The action in its Worker *)

\* The Worker moves on; the coordinator is not involved.
WorkerGoes(o, step) ==
  /\ pc' = [pc EXCEPT ![o] = step]
  /\ UNCHANGED <<scopeVars, frame, pulling, abortVars>>

\* The callback arrives: runComponentAction checks the signal before it invokes
\* the method on the hydrated instance.
Invoke(o) ==
  /\ pc[o] = "calling"
  /\ WorkerGoes(o, IF o \in aborted THEN "failing" ELSE "working")
  /\ UNCHANGED inst

\* The method returned a value: unless the signal was aborted meanwhile, the
\* instance's new state is sent to publish().
WorkDone(o) ==
  /\ pc[o] = "working" /\ o \notin Streams
  /\ IF o \in aborted
     THEN WorkerGoes(o, "failing") /\ UNCHANGED inst
     ELSE /\ WorkerGoes(o, "publishing")
          /\ inst' = [inst EXCEPT ![o] = @ \union {<<o, 1>>}]

\* The method returned a generator.
StreamOpened(o) ==
  /\ pc[o] = "working" /\ o \in Streams
  /\ WorkerGoes(o, IF o \in aborted THEN "failing" ELSE "opening")
  /\ UNCHANGED inst

\* The method or a check before it fails.
WorkFails(o) ==
  /\ pc[o] = "working"
  /\ WorkerGoes(o, "failing")
  /\ UNCHANGED inst

\* publish() of an ordinary action replaces the snapshot, whoever calls it, or
\* throws when the state breaks a limit.
Publish(o) ==
  /\ pc[o] = "publishing"
  /\ \/ state' = inst[o] /\ pc' = [pc EXCEPT ![o] = "replying"]
     \/ state' = state /\ pc' = [pc EXCEPT ![o] = "failing"]
  /\ UNCHANGED <<registered, queue, active, cancelled, inst, frame, pulling, abortVars>>

-----------------------------------------------------------------------------
(* The response in the coordinator *)

\* Mutation of Resume: the cancelled operation keeps its entry.
ResumeKeepsSlot(o) ==
  /\ pc[o] \in {"replying", "failing", "opening"}
  /\ Goes(o, IF o \in cancelled THEN "over" ELSE IF pc[o] = "opening" THEN "stream" ELSE "body")
  /\ UNCHANGED <<state, cancelled, inst, frame, pulling, abortVars>>

\* execute() resumes with the callback's response: a cancelled operation ends,
\* any other keeps the slot while its body is read.
Resume(o) ==
  /\ pc[o] \in {"replying", "failing", "opening"}
  /\ UNCHANGED state
  /\ IF o \in cancelled
     THEN Finish(o, "over")
     ELSE /\ Goes(o, IF pc[o] = "opening" THEN "stream" ELSE "body")
          /\ UNCHANGED inst
  /\ UNCHANGED <<cancelled, frame, pulling, abortVars>>

\* The callback rejects: its Worker is gone or the call broke.  A publish() that
\* was on its way is lost with it.
CallFails(o) ==
  /\ pc[o] \in {"calling", "working", "publishing", "replying", "failing", "opening"}
  /\ UNCHANGED state
  /\ Finish(o, "over")
  /\ UNCHANGED <<cancelled, frame, pulling, abortVars>>

\* The response was read to its end, failed, or was cancelled by its consumer;
\* for a stream also: an error frame.
ResponseEnds(o) ==
  /\ pc[o] \in {"body", "stream"}
  /\ UNCHANGED state
  /\ Finish(o, "over")
  /\ UNCHANGED <<cancelled, frame, pulling, abortVars>>

\* Mutation of Pull: the next frame is asked for while one is still awaited.
PullEager(o) ==
  /\ pc[o] = "stream" /\ frame[o] < MaxFrames
  /\ pulling' = pulling \union {o}
  /\ frame' = [frame EXCEPT ![o] = @ + 1]
  /\ inst' = [inst EXCEPT ![o] = @ \union {<<o, frame[o] + 1>>}]
  /\ UNCHANGED <<scopeVars, pc, abortVars>>

\* The consumer asks for the next frame; the generator computes it.
Pull(o) ==
  /\ pc[o] = "stream" /\ o \notin pulling /\ frame[o] < MaxFrames
  /\ pulling' = pulling \union {o}
  /\ frame' = [frame EXCEPT ![o] = @ + 1]
  /\ inst' = [inst EXCEPT ![o] = @ \union {<<o, frame[o] + 1>>}]
  /\ UNCHANGED <<scopeVars, pc, abortVars>>

\* Mutation of FrameArrives: entry.closed is not checked after the read.
LateFrameArrives(o) ==
  /\ o \in pulling
  /\ pulling' = pulling \ {o}
  /\ state' = inst[o]
  /\ UNCHANGED <<registered, queue, active, cancelled, pc, inst, frame, abortVars>>

\* A frame with state arrives and is published ("yield", or "done", which ends
\* the stream).  A stream that was closed during the read drops it.
FrameArrives(o) ==
  /\ o \in pulling
  /\ pulling' = pulling \ {o}
  /\ IF o \in registered
     THEN /\ state' = inst[o]
          /\ \/ /\ frame[o] < MaxFrames
                /\ UNCHANGED <<registered, queue, active, pc, inst>>
             \/ Finish(o, "over")
     ELSE UNCHANGED <<state, registered, queue, active, pc, inst>>
  /\ UNCHANGED <<cancelled, frame, abortVars>>

-----------------------------------------------------------------------------
Progress(o) ==
  \/ Send(o) \/ Execute(o)
  \/ Invoke(o) \/ WorkDone(o) \/ StreamOpened(o) \/ WorkFails(o) \/ Publish(o)
  \/ Resume(o) \/ CallFails(o)
  \/ Pull(o) \/ FrameArrives(o) \/ ResponseEnds(o)

Next == \E o \in Ops : Progress(o) \/ Abort(o) \/ Cancel(o)

\* Workers run, calls arrive, and a response is read or its consumer leaves.
Fairness == \A o \in Ops : WF_vars(Progress(o)) /\ WF_vars(Cancel(o))

Spec == Init /\ [][Next]_vars
FairSpec == Spec /\ Fairness

-----------------------------------------------------------------------------
Owner(o) == pc[o] \in OwnerSteps

\* Every variable keeps its type.
TypeOK ==
  /\ state \in SUBSET Writes
  /\ registered \in SUBSET Ops
  /\ queue \in Seq(Ops)
  /\ active \in Ops \union {NoOp}
  /\ cancelled \in SUBSET Ops /\ pulling \in SUBSET Ops
  /\ aborted \in SUBSET Ops /\ cancelCall \in SUBSET Ops
  /\ pc \in [Ops -> Steps]
  /\ inst \in [Ops -> SUBSET Writes]
  /\ frame \in [Ops -> 0..MaxFrames]

\* The slot is never leaked or shared: the registered operations are the owner
\* and those in line, each once, and only the owner is anywhere past the line.
SlotConsistent ==
  /\ active # NoOp => Owner(active)
  /\ active = NoOp => queue = <<>>
  /\ \A o \in Ops : Owner(o) => o = active
  /\ \A o \in Ops : pc[o] = "queued" <=> \E n \in 1..Len(queue) : queue[n] = o
  /\ \A m, n \in 1..Len(queue) : queue[m] = queue[n] => m = n
  /\ registered = {o \in Ops : Owner(o) \/ pc[o] = "queued"}
  /\ Cardinality(registered) <= MaxPending

\* No published write is ever lost: an action publishes what it computed from
\* a state nobody has replaced since, also when cancellations, failures and
\* frames that are still on their way cross the hand-over of the slot.  ScopeContract
\* implies it: none of its steps takes a write away.
NoLostWrite == [][state \subseteq state']_vars

\* A cancelled operation is never handed the slot: whoever waits in line when
\* its cancel() arrives leaves the line without calling its action back.
CancelledNeverCalled ==
  [][\A o \in Ops : o \in cancelled' /\ pc[o] \in {"sent", "queued"} => pc'[o] # "calling"]_vars

\* Every request ends: a cancelled, failed or closed operation always hands the
\* slot on, so that nobody waits in line forever.
EveryRequestEnds == \A o \in Ops : <>(pc[o] = "over")

\* The contract's variables as functions of the coordinator and its requests.
Contract == INSTANCE ScopeContract WITH
  snapshot <- state,
  serving <- active,
  over <- {o \in Ops : pc[o] = "over"}

\* The coordinator and its Workers keep every promise of ScopeContract: execute(),
\* cancel(), publish(), stream frames and #finish() take only its steps.
ImplementsScopeContract == Contract!ContractSpec
=============================================================================
