--------------------------- MODULE SseSubscription ---------------------------
(***************************************************************************)
(* Delivery of one SSE scope's events on Cloudflare, end to end:           *)
(*                                                                         *)
(*   - the coordinator's bounded event log, its snapshot and its held      *)
(*     long-polls (SseDurableObject.publish/broadcast/updates/cancelWait); *)
(*   - the Worker that answers a subscription, one authorized batch at a   *)
(*     time (handleCoordinatorSubscription, authorizedSseStream in sse.ts);*)
(*   - the browser's EventSource and its handlers (connectSSE), and the    *)
(*     replies of its own actions (acceptSseCursor in rpc-state.ts).       *)
(*                                                                         *)
(* Event cursors are 1, 2, ... (AUTOINCREMENT).  A state is named by the   *)
(* cursor of the state-update that published it; 0 is the initial state.   *)
(* A frame leaves the Worker and is dispatched by the browser in one step: *)
(* frames that a lost connection still carried count as not sent.          *)
(***************************************************************************)
EXTENDS Integers, Sequences, FiniteSets

CONSTANTS
  Clients,      \* browser pages subscribed to the scope
  MaxEvents,    \* MAX_EVENTS: rows the log retains
  MaxWaiters,   \* SSE_MAX_WAITERS: long-polls held at once
  MaxCursor,    \* bound: events ever appended
  MaxConns      \* bound: connections one page opens

ASSUME SubscriptionAssumption ==
  /\ MaxEvents \in Nat \ {0}
  /\ MaxWaiters \in Nat \ {0}
  /\ MaxCursor \in Nat
  /\ MaxConns \in Nat \ {0}

VARIABLES
  log,         \* [kinds: what every event ever appended was, oldest: first retained]
  waiters,     \* #waiters: <<client, connection>> of every held long-poll
  phase,       \* phase[i]: where client i's subscription is
  conn,        \* conn[i]: number of the connection
  after,       \* after[i]: the cursor the Worker polls from
  pending,     \* pending[i]: frames read from the log and not yet delivered
  authorized,  \* authorized[i]: batchAuthorized
  lastId,      \* lastId[i]: the EventSource's Last-Event-ID, or NoCursor
  latest,      \* latest[i]: sseCursors, the newest snapshot cursor applied, or NoCursor
  shown,       \* shown[i]: the state the page shows
  replies,     \* replies[i]: cursors of action replies on their way to i
  revokedAt,   \* revokedAt[i]: newest event when i lost its access, or NoCursor
  handled,     \* history: events dispatched to the page's handlers, in order
  covered,     \* history: newest cursor a resync marker told the page about
  base         \* history: cursor from which the page asked for events first

workerVars == <<phase, conn, after, pending, authorized>>
pageVars == <<lastId, latest, shown>>
historyVars == <<handled, covered, base>>
vars == <<log, waiters, workerVars, pageVars, replies, revokedAt, historyVars>>

NoCursor == -1
Phases == {"down", "subscribing", "subscribed", "live", "closed"}

\* snapshot.cursor of a log: every event advances it.
Cursor(lg) == Len(lg.kinds)

\* The state as of event c: published by the last state-update up to c.
StateAt(lg, c) ==
  LET updates == {k \in 1..c : lg.kinds[k] = "state"}
  IN IF updates = {} THEN 0 ELSE CHOOSE k \in updates : \A j \in updates : j <= k

Frame(type, cursor) == [type |-> type, cursor |-> cursor]

Init ==
  /\ log = [kinds |-> <<>>, oldest |-> 1]
  /\ waiters = {}
  /\ phase = [i \in Clients |-> "down"]
  /\ conn = [i \in Clients |-> 0]
  /\ after = [i \in Clients |-> 0]
  /\ pending = [i \in Clients |-> <<>>]
  /\ authorized = [i \in Clients |-> FALSE]
  /\ lastId = [i \in Clients |-> NoCursor]
  /\ latest = [i \in Clients |-> NoCursor]
  /\ shown = [i \in Clients |-> 0]
  /\ replies = [i \in Clients |-> {}]
  /\ revokedAt = [i \in Clients |-> NoCursor]
  /\ handled = [i \in Clients |-> <<>>]
  /\ covered = [i \in Clients |-> 0]
  /\ base = [i \in Clients |-> 0]

-----------------------------------------------------------------------------
(* Reading the log *)

\* Mutation of Resync: off by one, the event after cursor n is the oldest one kept.
ResyncOffByOne(lg, n) ==
  \/ n > Cursor(lg)
  \/ lg.oldest <= Cursor(lg) /\ n < lg.oldest

\* #readUpdates: the history after cursor n is gone or n is ahead of it.
Resync(lg, n) ==
  \/ n > Cursor(lg)
  \/ lg.oldest <= Cursor(lg) /\ n < lg.oldest - 1

EventsAfter(lg, n) ==
  [k \in 1..(Cursor(lg) - n) |-> Frame(lg.kinds[n + k], n + k)]

\* Mutation of PollBatch: a resync is announced and no snapshot follows it.
PollBatchMarkerOnly(lg, n) ==
  IF Resync(lg, n) THEN <<Frame("resync", Cursor(lg))>> ELSE EventsAfter(lg, n)

\* What one poll of the Worker turns into frames.
PollBatch(lg, n) ==
  IF Resync(lg, n)
  THEN <<Frame("resync", Cursor(lg)), Frame("state", Cursor(lg))>>
  ELSE EventsAfter(lg, n)

\* Mutation of FirstBatch: the snapshot precedes the replay.
FirstBatchSnapshotFirst(lg, n) ==
  <<Frame("state", Cursor(lg))>>
  \o (IF Resync(lg, n) THEN <<Frame("resync", Cursor(lg))>> ELSE EventsAfter(lg, n))
  \o <<Frame("connected", Cursor(lg))>>

\* What a new subscription sends first: the replay, the snapshot, "connected".
FirstBatch(lg, n) ==
  (IF Resync(lg, n) THEN <<Frame("resync", Cursor(lg))>> ELSE EventsAfter(lg, n))
  \o <<Frame("state", Cursor(lg)), Frame("connected", Cursor(lg))>>

Held(i) == phase[i] = "live" /\ <<i, conn[i]>> \in waiters

\* Mutation of Answer: the authorization of the previous batch is kept.
AnswerKeepsAuthorization(S, lg) ==
  LET got == {i \in S : PollBatch(lg, after[i]) # <<>>}
  IN /\ pending' = [i \in Clients |-> IF i \in got THEN PollBatch(lg, after[i]) ELSE pending[i]]
     /\ after' = [i \in Clients |-> IF i \in got THEN Cursor(lg) ELSE after[i]]
     /\ UNCHANGED authorized

\* The polls of clients S are answered from lg: what they read becomes the next
\* batch, which is not authorized yet.
Answer(S, lg) ==
  LET got == {i \in S : PollBatch(lg, after[i]) # <<>>}
  IN /\ pending' = [i \in Clients |-> IF i \in got THEN PollBatch(lg, after[i]) ELSE pending[i]]
     /\ after' = [i \in Clients |-> IF i \in got THEN Cursor(lg) ELSE after[i]]
     /\ authorized' = [i \in Clients |-> authorized[i] /\ i \notin got]

-----------------------------------------------------------------------------
(* The coordinator *)

\* #appendEvent: one transaction inserts the event, moves the snapshot and prunes
\* by rows and by bytes (any shorter suffix; the newest event always fits), then
\* every held poll is woken and reads again.
AppendEvent(kind) ==
  /\ Cursor(log) < MaxCursor
  /\ \E oldest \in log.oldest..(Cursor(log) + 1) :
       /\ Cursor(log) + 1 - oldest < MaxEvents
       /\ log' = [kinds |-> Append(log.kinds, kind), oldest |-> oldest]
  /\ waiters' = {}
  /\ Answer({i \in Clients : Held(i)}, log')

\* An action of client i publishes its state; its reply carries the cursor.
Publish(i) ==
  /\ revokedAt[i] = NoCursor
  /\ AppendEvent("state")
  /\ replies' = [replies EXCEPT ![i] = @ \union {Cursor(log')}]
  /\ UNCHANGED <<phase, conn, pageVars, revokedAt, historyVars>>

\* An action broadcasts an event to the scope.
Broadcast ==
  /\ AppendEvent("event")
  /\ UNCHANGED <<phase, conn, pageVars, replies, revokedAt, historyVars>>

\* A held poll ends without an event: its wait elapsed, or its subscriber is gone
\* and cancelWait() arrived.
WaitEnds(w) ==
  /\ w \in waiters
  /\ waiters' = waiters \ {w}
  /\ Answer({i \in Clients : Held(i) /\ w = <<i, conn[i]>>}, log)
  /\ UNCHANGED <<log, phase, conn, pageVars, replies, revokedAt, historyVars>>

-----------------------------------------------------------------------------
(* The subscription in its Worker *)

\* EventSource connects.  The endpoint checks access, then reads currentState():
\* the poll starts at Last-Event-ID, or at the snapshot for a first connection.
Connect(i) ==
  /\ phase[i] = "down"
  /\ conn[i] < MaxConns
  /\ conn' = [conn EXCEPT ![i] = @ + 1]
  /\ LET from == IF lastId[i] = NoCursor THEN Cursor(log) ELSE lastId[i]
     IN IF revokedAt[i] # NoCursor
        THEN phase' = [phase EXCEPT ![i] = "closed"] /\ UNCHANGED <<after, base>>
        ELSE /\ phase' = [phase EXCEPT ![i] = "subscribing"]
             /\ after' = [after EXCEPT ![i] = from]
             /\ base' = [base EXCEPT ![i] = IF lastId[i] = NoCursor THEN from ELSE @]
  /\ UNCHANGED <<log, waiters, pending, authorized, pageVars, replies, revokedAt, handled, covered>>

\* updates(after) without a wait fills the first batch.
Subscribe(i) ==
  /\ phase[i] = "subscribing"
  /\ phase' = [phase EXCEPT ![i] = "subscribed"]
  /\ pending' = [pending EXCEPT ![i] = FirstBatch(log, after[i])]
  /\ after' = [after EXCEPT ![i] = Cursor(log)]
  /\ authorized' = [authorized EXCEPT ![i] = FALSE]
  /\ UNCHANGED <<log, waiters, conn, pageVars, replies, revokedAt, historyVars>>

\* The response reaches the browser: onopen forgets the snapshot cursor.
Opened(i) ==
  /\ phase[i] = "subscribed"
  /\ phase' = [phase EXCEPT ![i] = "live"]
  /\ latest' = [latest EXCEPT ![i] = NoCursor]
  /\ UNCHANGED <<log, waiters, conn, after, pending, authorized, lastId, shown, replies, revokedAt,
                 historyVars>>

\* updates(after, waitMs, waiterId) once the batch is drained: answered at once
\* from the log, else held.  With too many waiters it returns empty and the
\* Worker asks again later.
Poll(i) ==
  /\ phase[i] = "live" /\ pending[i] = <<>> /\ ~Held(i)
  /\ IF PollBatch(log, after[i]) # <<>>
     THEN Answer({i}, log) /\ UNCHANGED waiters
     ELSE /\ Cardinality(waiters) < MaxWaiters
          /\ waiters' = waiters \union {<<i, conn[i]>>}
          /\ UNCHANGED <<pending, after, authorized>>
  /\ UNCHANGED <<log, phase, conn, pageVars, replies, revokedAt, historyVars>>

\* The live middleware check of a batch.
Authorize(i) ==
  /\ phase[i] = "live" /\ pending[i] # <<>> /\ ~authorized[i]
  /\ revokedAt[i] = NoCursor
  /\ authorized' = [authorized EXCEPT ![i] = TRUE]
  /\ UNCHANGED <<log, waiters, phase, conn, after, pending, pageVars, replies, revokedAt, historyVars>>

\* The check of a batch, of a heartbeat or of a slowly drained batch fails: the
\* page gets an authorization-error and closes its EventSource.
Deny(i) ==
  /\ phase[i] = "live" /\ ~Held(i)
  /\ revokedAt[i] # NoCursor
  /\ phase' = [phase EXCEPT ![i] = "closed"]
  /\ pending' = [pending EXCEPT ![i] = <<>>]
  /\ UNCHANGED <<log, waiters, conn, after, authorized, pageVars, replies, revokedAt, historyVars>>

\* The connection breaks; EventSource will connect again.  The waiter of a held
\* poll stays until cancelWait() or its timeout.
Drop(i) ==
  /\ phase[i] \in {"subscribing", "subscribed", "live"}
  /\ conn[i] < MaxConns
  /\ phase' = [phase EXCEPT ![i] = "down"]
  /\ pending' = [pending EXCEPT ![i] = <<>>]
  /\ UNCHANGED <<log, waiters, conn, after, authorized, pageVars, replies, revokedAt, historyVars>>

Revoke(i) ==
  /\ revokedAt[i] = NoCursor
  /\ revokedAt' = [revokedAt EXCEPT ![i] = Cursor(log)]
  /\ UNCHANGED <<log, waiters, workerVars, pageVars, replies, historyVars>>

-----------------------------------------------------------------------------
(* The page *)

\* Mutation of ApplyState: the cursor is not compared.
ApplyAnyState(i, c) ==
  /\ latest' = [latest EXCEPT ![i] = c]
  /\ shown' = [shown EXCEPT ![i] = StateAt(log, c)]

\* applyStateToComponent: a snapshot no newer than one applied is ignored.
ApplyState(i, c) ==
  IF c > latest[i]
  THEN /\ latest' = [latest EXCEPT ![i] = c]
       /\ shown' = [shown EXCEPT ![i] = StateAt(log, c)]
  ELSE UNCHANGED <<latest, shown>>

OnState(i, c) ==
  /\ ApplyState(i, c)
  /\ lastId' = [lastId EXCEPT ![i] = c]
  /\ UNCHANGED <<handled, covered>>

OnEvent(i, c) ==
  /\ handled' = [handled EXCEPT ![i] = Append(@, c)]
  /\ lastId' = [lastId EXCEPT ![i] = c]
  /\ UNCHANGED <<latest, shown, covered>>

\* The marker carries no id.
OnResync(i, c) ==
  /\ covered' = [covered EXCEPT ![i] = c]
  /\ UNCHANGED <<latest, shown, lastId, handled>>

\* One reader pull: the next frame of an authorized batch reaches its handler.
Deliver(i) ==
  /\ phase[i] = "live" /\ pending[i] # <<>> /\ authorized[i]
  /\ pending' = [pending EXCEPT ![i] = Tail(@)]
  /\ LET f == Head(pending[i])
     IN CASE f.type = "state"  -> OnState(i, f.cursor)
          [] f.type = "event"  -> OnEvent(i, f.cursor)
          [] f.type = "resync" -> OnResync(i, f.cursor)
          [] OTHER -> UNCHANGED <<pageVars, handled, covered>>
  /\ UNCHANGED <<log, waiters, phase, conn, after, authorized, replies, revokedAt, base>>

\* The reply of an action of the page arrives, however late.
ReplyArrives(i) ==
  \E c \in replies[i] :
    /\ replies' = [replies EXCEPT ![i] = @ \ {c}]
    /\ ApplyState(i, c)
    /\ UNCHANGED <<log, waiters, workerVars, lastId, revokedAt, historyVars>>

-----------------------------------------------------------------------------
Subscription(i) ==
  Connect(i) \/ Subscribe(i) \/ Opened(i) \/ Poll(i) \/ Authorize(i) \/ Deny(i) \/ Deliver(i)

Next ==
  \/ Broadcast
  \/ \E w \in waiters : WaitEnds(w)
  \/ \E i \in Clients :
       Subscription(i) \/ Publish(i) \/ ReplyArrives(i) \/ Drop(i) \/ Revoke(i)

\* EventSource reconnects, the Worker's pull loop runs, the timer of a poll fires.
\* Nothing obliges an action to publish, a reply to arrive, or a connection to break.
Fairness ==
  /\ \A i \in Clients : WF_vars(Subscription(i))
  /\ \A i \in Clients, n \in 1..MaxConns : WF_vars(WaitEnds(<<i, n>>))

Spec == Init /\ [][Next]_vars
FairSpec == Spec /\ Fairness

-----------------------------------------------------------------------------
Cursors == 0..MaxCursor
Frames == [type : {"state", "event", "resync", "connected"}, cursor : Cursors]

\* Every variable keeps its type; no more long-polls are held than the limit.
TypeOK ==
  /\ log.kinds \in Seq({"state", "event"}) /\ Cursor(log) <= MaxCursor
  /\ log.oldest \in 1..(Cursor(log) + 1)
  /\ waiters \in SUBSET (Clients \X (1..MaxConns)) /\ Cardinality(waiters) <= MaxWaiters
  /\ phase \in [Clients -> Phases]
  /\ conn \in [Clients -> 0..MaxConns]
  /\ after \in [Clients -> Cursors]
  /\ pending \in [Clients -> Seq(Frames)]
  /\ authorized \in [Clients -> BOOLEAN]
  /\ lastId \in [Clients -> Cursors \union {NoCursor}]
  /\ latest \in [Clients -> Cursors \union {NoCursor}]
  /\ shown \in [Clients -> Cursors]
  /\ replies \in [Clients -> SUBSET Cursors]
  /\ revokedAt \in [Clients -> Cursors \union {NoCursor}]
  /\ handled \in [Clients -> Seq(Cursors)]
  /\ covered \in [Clients -> Cursors] /\ base \in [Clients -> Cursors]

\* No silent gap: every broadcast up to the page's Last-Event-ID, from where the
\* page first asked for events, was dispatched to its handlers or is covered by a
\* resync marker the page received, through any number of lost connections.
NoSilentGap ==
  \A i \in Clients : \A c \in (base[i] + 1)..lastId[i] :
    \/ log.kinds[c] = "state"
    \/ c <= covered[i]
    \/ \E n \in 1..Len(handled[i]) : handled[i][n] = c

\* Broadcasts are dispatched in cursor order and none twice, also when a
\* connection breaks in the middle of a replay.
InOrderOnce ==
  \A i \in Clients : \A m, n \in 1..Len(handled[i]) :
    m < n => handled[i][m] < handled[i][n]

\* Every broadcast reaches the page's handlers in order and once, or is covered by a
\* marker: both of the above, whatever breaks on the way.
EventsArrive == NoSilentGap /\ InOrderOnce

\* Once the first batch of a connection has been delivered, the page never shows
\* a state older than the newest one its EventSource has acknowledged, whenever
\* the replies of its own actions arrive.
NeverStale ==
  \A i \in Clients :
    phase[i] = "live" /\ (\A n \in 1..Len(pending[i]) : pending[i][n].type # "connected")
      => shown[i] >= StateAt(log, lastId[i])

\* A page that lost its access never receives an event published afterwards.
\* FeedContract implies it: nothing takes a page beyond its limit.
RevokedSeesNothingNew ==
  \A i \in Clients : revokedAt[i] # NoCursor => lastId[i] <= revokedAt[i]

\* A page whose access lasts ends up with every event acknowledged and the
\* current state shown, once the scope is quiet and connections stop breaking.
CatchesUp ==
  \A i \in Clients :
    <>[](\/ revokedAt[i] # NoCursor
         \/ lastId[i] = Cursor(log) /\ shown[i] = StateAt(log, Cursor(log)))
-----------------------------------------------------------------------------
\* Where the page resumes: its Last-Event-ID, or where it asked for events first.
Resumes(i) == IF lastId[i] = NoCursor THEN base[i] ELSE lastId[i]

\* The page is connected and its first batch was delivered.
CaughtUp(i) == phase[i] = "live" /\ \A n \in 1..Len(pending[i]) : pending[i][n].type # "connected"

Contract == INSTANCE FeedContract
  WITH Pages <- Clients, feed <- log.kinds, oldest <- log.oldest,
       at <- [i \in Clients |-> Resumes(i)], told <- handled, marked <- covered,
       current <- [i \in Clients |-> CaughtUp(i)], limit <- revokedAt

\* To a page, the log, the polls, the batches and the reconnects are one feed: each event
\* once and in order, a marker only when events are gone, states that never go back
\* (FeedContract), and nothing more after access is lost.
ImplementsFeedContract == Contract!ContractSpec
=============================================================================
