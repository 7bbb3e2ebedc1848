---------------------------- MODULE OptimisticPage ----------------------------
(***************************************************************************)
(* A page whose component makes server calls with optimistic previews,     *)
(* over a WebSocket to its Durable Object ("ws") or over /crpc with an     *)
(* EventSource on the scope's coordinator ("sse"): the call proxies        *)
(* (method-proxy.ts), the handlers of the connection                       *)
(* (transport-connections.ts) and the appliers of server state             *)
(* (rpc-state.ts) on the ledger of OptimisticState.                        *)
(*                                                                         *)
(* A call settles in the step that dispatches its last frame: its promise  *)
(* awaits the frames, and microtasks run before the next message.  A       *)
(* server method adds its contribution to the field; peers add theirs.     *)
(* The Durable Object answers a call at once and sends broadcasts through  *)
(* SocketDelivery, which authorizes and merges them.                       *)
(***************************************************************************)
EXTENDS OptimisticState

CONSTANTS
  MaxEdits,   \* bound: edits by the user
  MaxPeers,   \* bound: writes by other pages
  MaxBreaks   \* bound: connections lost

ASSUME BoundsAssumption == {MaxEdits, MaxPeers, MaxBreaks} \subseteq Nat

VARIABLES
  transport, \* "ws" or "sse"
  page,      \* the component and its ledger, see OptimisticState
  socket,    \* of "ws": "open", "down" between two attempts, or "closed" for good
  phase,     \* phase[c]: the call on the server
  preview,   \* preview[c]: what its optimistic handler did, until the server ran it
  server,    \* the field on the server
  cursor,    \* of "sse": the newest event
  dirty,     \* of "ws": a broadcast is scheduled
  outbox,    \* of "ws": broadcasts waiting for authorization
  wire,      \* frames on their way over the WebSocket or EventSource, in order
  replies,   \* of "sse": HTTP responses on their way
  executed,  \* history: the calls that took effect, in order
  edits,     \* history: the edits made
  peers, breaks  \* counters for the bounds

serverVars == <<phase, server, cursor, dirty, executed, peers>>
netVars == <<outbox, wire, replies>>
vars == <<transport, page, socket, preview, serverVars, netVars, edits, breaks>>

Phases == {"new", "sent", "ran", "over", "refused"}
Frame(type, c, value, at) == [type |-> type, call |-> c, value |-> value, cursor |-> at]
NoCursor == -1

Init ==
  /\ transport \in {"ws", "sse"}
  /\ page = FreshPage
  /\ socket = "open"
  /\ phase = [c \in Calls |-> "new"] /\ preview = [c \in Calls |-> "none"]
  /\ server = <<>> /\ cursor = 0 /\ dirty = FALSE
  /\ outbox = <<>> /\ wire = <<>> /\ replies = {}
  /\ executed = <<>> /\ edits = <<>> /\ peers = 0 /\ breaks = 0

-----------------------------------------------------------------------------
(* Applying server state to the page *)

\* acceptSseCursor(): a snapshot that is not newer than one applied is refused.
IsNews(p, at) == at = NoCursor \/ p.latest = NoCursor \/ at > p.latest
Recorded(p, at) == IF at = NoCursor THEN p ELSE [p EXCEPT !.latest = at]

\* setState() after acceptSettledOptimisticSnapshot().
Shown(p, v) == [p EXCEPT !.display = v, !.settled = {}]

\* applyStateToComponent(): a broadcast or, with call c, a correlated event.
StateApplied(p, v, at, c) ==
  LET q == Recorded(p, at)
      shown == Shown(q, v)
  IN CASE ~IsNews(p, at) -> IF c = NoCall THEN p ELSE Confirmed(p, c)
       [] IsNews(p, at) /\ c = NoCall /\ IsKnownEcho(p, v, at # NoCursor) -> q
       [] IsNews(p, at) /\ OwnsField(p, c) ->
            Applied(IF c = NoCall THEN [q EXCEPT !.settled = {}] ELSE q, v, c, FALSE)
       [] OTHER -> IF c = NoCall THEN shown ELSE [shown EXCEPT !.published[c] = {v}]

\* A field that still shows the call's own publication counts as sent by it.
Published(p, c) ==
  IF p.display \in p.published[c] THEN [p EXCEPT !.request[c] = p.display] ELSE p

\* createStateApplier(): the state frame of the reply to call c.
ReplyApplied(p, c, v, at) ==
  LET q == Published(p, c)
      current == q.display = q.request[c]
      echo == c \notin q.owns /\ v = q.request[c]
      news == Recorded(q, at)
      r == IF ~IsNews(q, at) THEN Confirmed(q, c)
           ELSE IF OwnsField(q, c) THEN Applied(news, v, c, echo)
           ELSE IF current THEN Shown(news, v)
           ELSE news
  IN IF current THEN [r EXCEPT !.request[c] = r.display] ELSE r

\* The last frame of the reply to call c, if c still waits for it.
Answered(p, f) ==
  IF p.seq[f.call] = 0 THEN p
  ELSE IF f.type = "error" THEN Finished(p, f.call, FALSE)
  ELSE Finished(ReplyApplied(p, f.call, f.value, f.cursor), f.call, TRUE)

-----------------------------------------------------------------------------
(* The page *)

\* A proxy is called: the optimistic handler runs and the request leaves.
Begin(c) ==
  /\ phase[c] = "new" /\ \A d \in 1..(c - 1) : phase[d] # "new"
  /\ transport = "ws" => socket = "open"
  /\ \E kind \in Previews :
       LET q == Began(page, c, kind)
       IN /\ preview' = [preview EXCEPT ![c] = kind]
          /\ page' = [q EXCEPT !.request[c] = RequestState(q)]
  /\ phase' = [phase EXCEPT ![c] = "sent"]
  /\ UNCHANGED <<transport, socket, server, cursor, dirty, executed, peers, netVars, edits, breaks>>

\* The user replaces the field, through its setter or by a nested write.
Edit ==
  /\ Len(edits) < MaxEdits
  /\ \E setter \in BOOLEAN :
       LET p == [page EXCEPT !.display = <<EditToken(Len(edits) + 1)>>]
       IN /\ page' = IF setter THEN Noted(p) ELSE p
          /\ edits' = Append(edits, [noted |-> setter /\ page.field.owned,
                                     after |-> Cardinality({c \in Calls : phase[c] # "new"})])
  /\ UNCHANGED <<transport, socket, preview, serverVars, netVars, breaks>>

\* A deadline, a cancellation or a network failure: the outcome on the server is
\* unknown.
Abandon(c) ==
  /\ page.seq[c] > 0
  /\ page' = Finished(page, c, FALSE)
  /\ UNCHANGED <<transport, socket, preview, serverVars, netVars, edits, breaks>>

\* The next frame of the connection is dispatched.  An event of the coordinator
\* carries the request ID of the call that published it.
Receive ==
  /\ wire # <<>>
  /\ LET f == Head(wire)
         pending == f.call # NoCall /\ page.seq[f.call] > 0
     IN page' = IF f.type = "state"
                THEN StateApplied(page, f.value, f.cursor, IF pending THEN f.call ELSE NoCall)
                ELSE Answered(page, f)
  /\ wire' = Tail(wire)
  /\ UNCHANGED <<transport, socket, preview, serverVars, outbox, replies, edits, breaks>>

\* A /crpc response arrives.
TakeReply(f) ==
  /\ f \in replies
  /\ page' = Answered(page, f)
  /\ replies' = replies \ {f}
  /\ UNCHANGED <<transport, socket, preview, serverVars, outbox, wire, edits, breaks>>

-----------------------------------------------------------------------------
(* The server *)

\* The Durable Object runs the actions of a connection in the order they came.
IsNext(c) ==
  /\ phase[c] = "sent"
  /\ transport = "ws" => \A d \in Calls : phase[d] # "ran" /\ (d < c => phase[d] # "sent")

Leaves(c, next) ==
  phase' = [phase EXCEPT ![c] = next] /\ preview' = [preview EXCEPT ![c] = "none"]

\* What call c leaves in the field: its contribution, or nothing new.
Effects(c) ==
  IF preview[c] = "assign" THEN {<<CallToken(c)>>}
  ELSE {Append(server, CallToken(c))} \union (IF preview[c] = "none" THEN {server} ELSE {})

\* Answer by transport: the socket frame at once, the HTTP response whenever.
Replies(f) ==
  IF transport = "sse" THEN replies' = replies \union {f} /\ UNCHANGED wire
  ELSE /\ wire' = IF socket = "open" THEN Append(wire, f) ELSE wire
       /\ UNCHANGED replies

\* The call fails before its method changed anything: validation, authorization.
Reject(c) ==
  /\ IsNext(c)
  /\ Leaves(c, "refused")
  /\ Replies(Frame("error", c, <<>>, NoCursor))
  /\ UNCHANGED <<transport, page, socket, server, cursor, dirty, executed, peers,
                 outbox, edits, breaks>>

\* The coordinator path: the action publishes its state, and its reply carries the
\* cursor of the publication.
Execute(c) ==
  /\ transport = "sse" /\ IsNext(c)
  /\ server' \in Effects(c)
  /\ cursor' = cursor + 1
  /\ Leaves(c, "over")
  /\ executed' = Append(executed, c)
  /\ wire' = Append(wire, Frame("state", c, server', cursor'))
  /\ replies' = replies \union {Frame("done", c, server', cursor')}
  /\ UNCHANGED <<transport, page, socket, dirty, peers, outbox, edits, breaks>>

\* The Durable Object: the method writes the field, which schedules a broadcast ...
Run(c) ==
  /\ transport = "ws" /\ IsNext(c)
  /\ server' \in Effects(c)
  /\ dirty' = (dirty \/ server' # server)
  /\ Leaves(c, "ran")
  /\ executed' = Append(executed, c)
  /\ UNCHANGED <<transport, page, socket, cursor, peers, netVars, edits, breaks>>

\* ... and returns, or throws after the write.
Return(c) ==
  /\ phase[c] = "ran"
  /\ phase' = [phase EXCEPT ![c] = "over"]
  /\ \E type \in {"done", "error"} : Replies(Frame(type, c, server, NoCursor))
  /\ UNCHANGED <<transport, page, socket, preview, server, cursor, dirty, executed, peers,
                 outbox, edits, breaks>>

\* Another page writes.
PeerWrite ==
  /\ peers < MaxPeers /\ \A c \in Calls : phase[c] # "ran"
  /\ peers' = peers + 1
  /\ server' = Append(server, PeerToken(peers'))
  /\ IF transport = "ws"
     THEN dirty' = TRUE /\ UNCHANGED <<cursor, wire>>
     ELSE /\ cursor' = cursor + 1
          /\ wire' = Append(wire, Frame("state", NoCall, server', cursor'))
          /\ UNCHANGED dirty
  /\ UNCHANGED <<transport, page, socket, preview, phase, executed, outbox, replies, edits, breaks>>

\* _flushStateBroadcast(): the value of that moment joins the peer's queue, where
\* it merges with a broadcast that does not await authorization yet.
Flush ==
  /\ dirty /\ dirty' = FALSE
  /\ IF socket # "open" THEN UNCHANGED outbox
     ELSE \E kept \in {Len(outbox), Len(outbox) - 1} \intersect {0, 1} :
            outbox' = Append(SubSeq(outbox, 1, kept), server)
  /\ UNCHANGED <<transport, page, socket, preview, phase, server, cursor, executed, peers,
                 wire, replies, edits, breaks>>

\* The batch is authorized and sent.
Deliver ==
  /\ outbox # <<>>
  /\ wire' = Append(wire, Frame("state", NoCall, Head(outbox), NoCursor))
  /\ outbox' = Tail(outbox)
  /\ UNCHANGED <<transport, page, socket, preview, serverVars, replies, edits, breaks>>

-----------------------------------------------------------------------------
(* Connections *)

\* failPendingSocketCalls(): every call of the socket fails, in the order made.
AllFailed(p) ==
  LET failed[c \in 0..MaxCalls] == IF c = 0 THEN p ELSE Finished(failed[c - 1], c, FALSE)
  IN failed[MaxCalls]

\* The socket closes: what it carried is lost, and so are the last calls if they
\* did not arrive.  It will reconnect, unless the server refused it.
Disconnect ==
  /\ transport = "ws" /\ socket = "open" /\ breaks < MaxBreaks
  /\ breaks' = breaks + 1
  /\ socket' \in {"down", "closed"}
  /\ page' = AllFailed(page)
  /\ wire' = <<>> /\ outbox' = <<>>
  /\ \E lost \in 1..(MaxCalls + 1) :
       phase' = [c \in Calls |-> IF phase[c] = "sent" /\ c >= lost THEN "refused" ELSE phase[c]]
  /\ UNCHANGED <<transport, preview, server, cursor, dirty, executed, peers, replies, edits>>

\* onopen of the next socket: the Durable Object sends the state it holds.
Reconnect ==
  /\ socket = "down"
  /\ socket' = "open"
  /\ page' = [page EXCEPT !.settled = {}]
  /\ outbox' = <<server>>
  /\ UNCHANGED <<transport, preview, serverVars, wire, replies, edits, breaks>>

\* The EventSource reopens after a failure: the events after Last-Event-ID are
\* replayed, then comes the snapshot.
Reopen ==
  /\ transport = "sse" /\ breaks < MaxBreaks
  /\ breaks' = breaks + 1
  /\ page' = [page EXCEPT !.settled = {}, !.latest = NoCursor]
  /\ wire' = Append(wire, Frame("state", NoCall, server, cursor))
  /\ UNCHANGED <<transport, socket, preview, serverVars, outbox, replies, edits>>

-----------------------------------------------------------------------------
Next ==
  \/ \E c \in Calls : Begin(c) \/ Abandon(c) \/ Reject(c) \/ Execute(c) \/ Run(c) \/ Return(c)
  \/ Edit \/ Receive \/ \E f \in replies : TakeReply(f)
  \/ PeerWrite \/ Flush \/ Deliver
  \/ Disconnect \/ Reconnect \/ Reopen

Spec == Init /\ [][Next]_vars

-----------------------------------------------------------------------------
(* Properties *)

Shows(v, token) == \E n \in DOMAIN v : v[n] = token
Values == {page.display, page.field.base} \union {l.value : l \in page.field.local}
Begun == {c \in Calls : phase[c] # "new"}

\* The page and the network keep their types, and a ledger goes with its last call.
TypeOK ==
  /\ phase \in [Calls -> Phases] /\ preview \in [Calls -> Previews]
  /\ socket \in {"open", "down", "closed"}
  /\ Active(page) \subseteq Begun /\ page.owns \subseteq Begun
  /\ Active(page) = {} => page.clock = 0 /\ page.field = Unowned
  /\ page.clock \in 0..(MaxCalls + 3 * MaxEdits)
  /\ \A ch \in page.field.changes : ch.call \in page.owns \/ ch.kind = "append"
  /\ Cardinality(page.field.local) <= 1 /\ Cardinality(page.settled) <= 1
  /\ Len(outbox) <= 2

\* A call that settled and took no effect on the server has left nothing on the page:
\* finishOptimisticCall() takes back its own contribution from the field, from the
\* base and from every value recorded above it, in whatever order the calls settle.
FailedLeavesNoTrace ==
  \A c \in Begun : page.seq[c] = 0 /\ ~Shows(executed, c) => \A v \in Values : ~Shows(v, CallToken(c))

\* The confirmed base never holds the guess of a preview: what it shows of a call, the
\* server did.  The base is what optimisticRequestState() sends and what a rejection
\* restores.
BaseHoldsNoGuess ==
  page.field.owned => \A c \in Begun : Shows(page.field.base, CallToken(c)) => Shows(executed, c)

\* The page never keeps a guess for a fact: both of the above.
NoGuessRemains == FailedLeavesNoTrace /\ BaseHoldsNoGuess

\* Every call is settled and everything sent has arrived.
Quiet ==
  /\ Active(page) = {} /\ wire = <<>> /\ outbox = <<>> /\ replies = {} /\ ~dirty
  /\ transport = "ws" => socket = "open"

Edited(v) == \E k \in 1..MaxEdits : Shows(v, EditToken(k))

\* Over a WebSocket, whatever was begun, refused, abandoned or lost with the connection,
\* a quiet page shows the field of the server, unless it shows an edit of its user.
Converged == transport = "ws" /\ Quiet /\ ~Edited(page.display) => page.display = server

\* Over SSE, a quiet page shows the newest state: "A higher cursor is authoritative even
\* when its public values equal an earlier snapshot" (docs/optimistic.md).  acceptSseCursor()
\* records the cursor of a reply whose field createStateApplier() then skips, and the
\* event with the same cursor is refused.
NewestIsShown == transport = "sse" /\ Quiet /\ ~Edited(page.display) => page.display = server

\* A frame of the WebSocket or EventSource, or the reply to a call, is dispatched.
Dispatches(f) ==
  \/ wire # <<>> /\ f = Head(wire) /\ wire' = Tail(wire) /\ replies' = replies
  \/ f \in replies /\ replies' = replies \ {f}
Dispatchable == replies \union {wire[n] : n \in DOMAIN wire \intersect {1}}

Begins == \E c \in Calls : phase[c] = "new" /\ phase'[c] # "new"

\* The preview of a pending call the server has not run stays on the page while other
\* calls settle and snapshots arrive: only the user, a new call, or the answer to a
\* call made later takes it away.
PendingStaysVisible ==
  [][\A c \in page.owns \intersect page'.owns :
       /\ ~Shows(executed, c)
       /\ Shows(page.display, CallToken(c)) /\ ~Shows(page'.display, CallToken(c))
       => \/ edits' # edits \/ Begins
          \/ \E f \in Dispatchable : f.call > c /\ Dispatches(f)]_vars

\* An edit made through a setter while a call owns the field stays until the user edits
\* again, a new call begins or the answer to a later call is dispatched, and, once the
\* calls it was made over have settled, until a snapshot arrives that is no echo of the
\* value they confirmed (noteOptimisticWrite, acceptSettledOptimisticSnapshot).
EditSurvives ==
  [][\A k \in DOMAIN edits :
       edits[k].noted /\ Shows(page.display, EditToken(k)) /\ ~Shows(page'.display, EditToken(k)) =>
         \/ edits' # edits \/ Begins
         \/ \E f \in Dispatchable : f.call > edits[k].after /\ Dispatches(f)
         \/ /\ \A c \in Active(page) : c > edits[k].after
            /\ \E f \in Dispatchable :
                 /\ f.type = "state" /\ Dispatches(f)
                 /\ Active(page) = {} => f.cursor # NoCursor \/ f.value \notin page.settled]_vars
=============================================================================
