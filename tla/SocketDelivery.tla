--------------------------- MODULE SocketDelivery ---------------------------
(***************************************************************************)
(* SocketDeliveryQueue (core/src/shared/socket-delivery.ts): the outbound  *)
(* frames of one WebSocket peer.  Frames queue, adjacent state updates     *)
(* merge, and a drain loop authorizes and sends one batch at a time.       *)
(*                                                                         *)
(* Peers have queues of their own; only encodings are shared, and those    *)
(* are of immutable messages.  So the module has one peer.                 *)
(*                                                                         *)
(* Every frame is stamped with its position among the frames the runtime   *)
(* sent: a state update maps the keys it carries to its stamp.             *)
(* Steps are the code between two awaits: authorize() is the only await of *)
(* the loop, and the access is read at one moment inside it.               *)
(***************************************************************************)
EXTENDS Integers, Sequences, FiniteSets

CONSTANTS
  Keys,        \* public state keys
  MaxPending,  \* maxPending: frames in the backlog
  MaxSends     \* bound: frames the runtime sends

ASSUME DeliveryAssumption == MaxPending \in Nat \ {0} /\ MaxSends \in Nat

VARIABLES
  frames,     \* state.frames
  drain,      \* the drain loop: "off", "starting", "authorizing" or "decided"
  batch,      \* the frames spliced off for the authorization under way
  allowed,    \* the outcome of authorize()
  retired,    \* state.retired
  open,       \* isOpen(client)
  access,     \* the application's middleware admits the peer
  sent,       \* history: every frame handed to send()
  received,   \* history: every frame written to the socket
  lostAt      \* history: frames sent before the access was lost

queueVars == <<frames, drain, batch, allowed, retired>>
historyVars == <<sent, received, lostAt>>
vars == <<queueVars, open, access, historyVars>>

Stamps == 1..MaxSends
NoKeys == [k \in {} |-> 0]
StateFrame(k, n) == [kind |-> "state", keys |-> [key \in {k} |-> n], stamp |-> n]
OtherFrame(kind, n) == [kind |-> kind, keys |-> NoKeys, stamp |-> n]

Init ==
  /\ frames = <<>> /\ drain = "off" /\ batch = <<>>
  /\ allowed = FALSE /\ retired = FALSE
  /\ open = TRUE /\ access = TRUE
  /\ sent = <<>> /\ received = <<>> /\ lostAt = MaxSends

-----------------------------------------------------------------------------
(* The backlog *)

\* {...previous, ...next}: later keys win.
MergedKeys(old, new) ==
  [k \in DOMAIN old \union DOMAIN new |-> IF k \in DOMAIN new THEN new[k] ELSE old[k]]

Merge(f, g) == [kind |-> "state", keys |-> MergedKeys(f.keys, g.keys), stamp |-> g.stamp]

\* Mutation of MergesAt: a state update joins the last one in the backlog, over
\* events in between.
MergesOverEvents(q, f) ==
  {n \in 1..Len(q) : f.kind = "state" /\ q[n].kind = "state"
                     /\ \A m \in n + 1..Len(q) : q[m].kind # "state"}

\* Where f merges: into a state update it directly follows.
MergesAt(q, f) ==
  {n \in 1..Len(q) : f.kind = "state" /\ q[n].kind = "state" /\ n = Len(q)}

Retire == retired' = TRUE /\ frames' = <<>> /\ open' = FALSE

Full(q) == Len(q) >= MaxPending

\* send(): merge, refuse and retire the peer, or append; a peer with no drain loop
\* gets one.
Send(f) ==
  /\ Len(sent) < MaxSends
  /\ sent' = Append(sent, f)
  /\ IF retired
     THEN UNCHANGED <<queueVars, open>>
     ELSE /\ \/ /\ MergesAt(frames, f) # {}
                /\ LET n == CHOOSE n \in MergesAt(frames, f) : TRUE
                   IN frames' = [frames EXCEPT ![n] = Merge(@, f)]
                /\ UNCHANGED <<retired, open>>
             \/ /\ MergesAt(frames, f) = {} /\ Full(frames)
                /\ Retire
             \/ /\ MergesAt(frames, f) = {} /\ ~Full(frames)
                /\ frames' = Append(frames, f)
                /\ UNCHANGED <<retired, open>>
          /\ drain' = IF drain = "off" /\ ~retired' THEN "starting" ELSE drain
          /\ UNCHANGED <<batch, allowed>>
  /\ UNCHANGED <<access, received, lostAt>>

SendState == \E k \in Keys : Send(StateFrame(k, Len(sent) + 1))
SendOther == \E kind \in {"action", "other"} : Send(OtherFrame(kind, Len(sent) + 1))

-----------------------------------------------------------------------------
(* The drain loop *)

ActionPositions(q) == {n \in 1..Len(q) : q[n].kind = "action"}
FirstAction(q) == CHOOSE n \in ActionPositions(q) : \A m \in ActionPositions(q) : n <= m

\* A batch: everything before the next client-action, or that action alone.
BatchSize(q) ==
  IF ActionPositions(q) = {} THEN Len(q)
  ELSE IF FirstAction(q) = 1 THEN 1
  ELSE FirstAction(q) - 1

\* The top of the loop.  A closed socket's batches are dropped one after another
\* without an await; a retired peer's frames are gone.
NextBatch(isOpen) ==
  IF frames = <<>> \/ ~isOpen
  THEN drain' = "off" /\ batch' = <<>> /\ frames' = <<>>
  ELSE /\ drain' = "authorizing"
       /\ batch' = SubSeq(frames, 1, BatchSize(frames))
       /\ frames' = SubSeq(frames, BatchSize(frames) + 1, Len(frames))

\* The loop's first turn runs after the caller's.
StartDrain ==
  /\ drain = "starting"
  /\ NextBatch(open)
  /\ UNCHANGED <<allowed, retired, open, access, historyVars>>

\* authorize() decides: it reruns the middleware, which may also fail.
Decide ==
  /\ drain = "authorizing"
  /\ drain' = "decided"
  /\ \/ allowed' = access
     \/ allowed' = FALSE
  /\ UNCHANGED <<frames, batch, retired, open, access, historyVars>>

\* Mutation of Written: what queued during the authorization goes along.
WrittenWithBacklog == batch \o frames

\* The frames an authorized batch writes to the socket.
Written == IF retired \/ ~open THEN <<>> ELSE batch

\* Mutation of FinishBatch: the loop ends without another look at the backlog.
FinishAndStop ==
  /\ drain = "decided"
  /\ drain' = "off" /\ batch' = <<>>
  /\ IF allowed
     THEN received' = received \o Written /\ UNCHANGED <<frames, retired, open>>
     ELSE Retire /\ UNCHANGED received
  /\ UNCHANGED <<allowed, access, sent, lostAt>>

\* authorize() returned: write the batch and turn to the next, or retire the peer.
FinishBatch ==
  /\ drain = "decided"
  /\ IF allowed
     THEN /\ received' = received \o Written
          /\ NextBatch(open /\ ~retired)
          /\ UNCHANGED <<retired, open>>
     ELSE /\ Retire
          /\ drain' = "off" /\ batch' = <<>>
          /\ UNCHANGED received
  /\ UNCHANGED <<allowed, access, sent, lostAt>>

\* A write throws in the middle of a batch: the peer is retired with 1011.
WriteFails ==
  /\ drain = "decided" /\ allowed /\ open /\ ~retired
  /\ \E n \in 0..Len(batch) - 1 : received' = received \o SubSeq(batch, 1, n)
  /\ Retire
  /\ drain' = "off" /\ batch' = <<>>
  /\ UNCHANGED <<allowed, access, sent, lostAt>>

-----------------------------------------------------------------------------
(* The peer *)

\* The socket closes; the host then calls remove().
Close ==
  /\ open /\ open' = FALSE
  /\ UNCHANGED <<queueVars, access, historyVars>>

Remove ==
  /\ ~open /\ ~retired
  /\ retired' = TRUE /\ frames' = <<>>
  /\ UNCHANGED <<drain, batch, allowed, open, access, historyVars>>

LoseAccess ==
  /\ access /\ access' = FALSE
  /\ lostAt' = Len(sent)
  /\ UNCHANGED <<queueVars, open, sent, received>>

Drain == StartDrain \/ Decide \/ FinishBatch \/ WriteFails

Next == SendState \/ SendOther \/ Drain \/ Close \/ Remove \/ LoseAccess

\* The event loop runs the drain loop, and authorize() returns.
Fairness == WF_vars(Drain)

Spec == Init /\ [][Next]_vars
FairSpec == Spec /\ Fairness

-----------------------------------------------------------------------------
Frames == [kind : {"state", "action", "other"},
           keys : UNION {[S -> Stamps] : S \in SUBSET Keys},
           stamp : Stamps]

\* Every variable keeps its type; the backlog never exceeds its limit.
TypeOK ==
  /\ frames \in Seq(Frames) /\ Len(frames) <= MaxPending
  /\ drain \in {"off", "starting", "authorizing", "decided"}
  /\ batch \in Seq(Frames)
  /\ allowed \in BOOLEAN /\ retired \in BOOLEAN
  /\ open \in BOOLEAN /\ access \in BOOLEAN
  /\ sent \in Seq(Frames) /\ received \in Seq(Frames)
  /\ lostAt \in 0..MaxSends

\* Positions of the events and actions of s, and the state its reader holds after
\* the first n frames.
EventPositions(s) == {n \in 1..Len(s) : s[n].kind # "state"}
Writers(s, n, k) == {m \in 1..n : s[m].kind = "state" /\ k \in DOMAIN s[m].keys}
View(s, n) ==
  [k \in Keys |-> IF Writers(s, n, k) = {} THEN 0
                  ELSE s[CHOOSE m \in Writers(s, n, k) :
                           \A j \in Writers(s, n, k) : j <= m].keys[k]]

\* Merging is invisible: the peer receives the events and actions in the order
\* they were sent, none skipped before another and none twice, and at each of
\* them holds exactly the state the sender had when it sent it.
DeliveredInContext ==
  \A p \in EventPositions(received) :
    /\ received[p] = sent[received[p].stamp]
    /\ View(received, p) = View(sent, received[p].stamp)
    /\ Cardinality({n \in EventPositions(received) : n <= p})
         = Cardinality({n \in EventPositions(sent) : n <= received[p].stamp})

\* No frame sent after the peer lost its access is ever written to its socket,
\* whatever was queued or being authorized at that moment.
NothingAfterAccessLost ==
  \A p \in 1..Len(received) :
    /\ received[p].stamp <= lostAt
    /\ \A k \in DOMAIN received[p].keys : received[p].keys[k] <= lostAt

\* No frame is stranded: once the runtime stops sending, the peer holds the whole
\* state and every event, or its connection is gone.
EverythingArrives ==
  <>[](\/ ~open \/ retired
       \/ /\ View(received, Len(received)) = View(sent, Len(sent))
          /\ Cardinality(EventPositions(received)) = Cardinality(EventPositions(sent)))
=============================================================================
