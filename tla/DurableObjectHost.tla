------------------------- MODULE DurableObjectHost -------------------------
(***************************************************************************)
(* CossackDurableObject (core/src/shared/CossackDurableObject.ts) with its *)
(* DurableObjectRuntime: one Durable Object hosts one live component for   *)
(* the WebSockets that join it, restores it from storage after the object  *)
(* left memory, replaces an idle stateless one, and broadcasts the state   *)
(* its actions write.                                                      *)
(*                                                                         *)
(* A step is the code between two awaits.  A component's public state is   *)
(* one value, stamped with the number of the write that produced it; 0 is  *)
(* what init() seeds.  The peers of an object name one component path (it  *)
(* is part of the object's id), and a peer whose authorization fails joins *)
(* nothing.  Frames queue in SocketDelivery; here a peer is shown a frame  *)
(* when it is handed to that queue.                                        *)
(***************************************************************************)
EXTENDS Integers, Sequences, FiniteSets

CONSTANTS
  Conns,         \* WebSocket connections, each joining at most once
  Readers,       \* GET /state requests
  Nobody,        \* owner of the initialization when there is none
  Kinds,         \* which components there are: Stateful pages, Shared layouts
                 \* or realtime components, and plain pages, which are neither
  MaxComponents, \* bound: components constructed
  MaxWrites,     \* bound: state writes
  MaxFailures,   \* bound: hooks and storage puts that fail
  MaxStops       \* bound: times the object leaves memory

ASSUME HostAssumption ==
  /\ Conns \intersect Readers = {} /\ Nobody \notin Conns \union Readers
  /\ Kinds \subseteq {"stateful", "shared", "plain"}
  /\ {MaxComponents, MaxWrites, MaxFailures, MaxStops} \subseteq Nat

VARIABLES
  kind,     \* the kind of the object's component
  conn,     \* the socket of each connection
  call,     \* what each request in progress waits for the initialization for
  owner,    \* whose operation componentInitialization is
  phase,    \* how far that operation has come
  waiting,  \* the requests awaiting componentInitialization, in order
  instance, \* componentInstance, or 0
  status,   \* the life of each component
  value,    \* its public state
  dirty,    \* a broadcast of it is scheduled
  act,      \* the action each connection called: its component and progress
  known,    \* the deployed build registers the component's path
  stored,   \* componentState in storage, or -1
  puts,     \* persistState() calls under way
  putLost,  \* the last persistState() failed
  joined,   \* history: the component a connection was admitted to
  view,     \* the last state frame each peer was sent
  writes, failures, stops  \* counters for the bounds

lockVars  == <<owner, phase, waiting>>
compVars  == <<instance, status, value, dirty>>
storeVars == <<stored, puts, putLost>>
peerVars  == <<conn, joined, view>>
bounds    == <<writes, failures, stops>>
vars == <<kind, call, act, known, lockVars, compVars, storeVars, peerVars, bounds>>

Stateful == kind = "stateful"
Shared   == kind = "shared"

Callers == Conns \union Readers
Ids     == 1..MaxComponents
Ensures == {"ensureJoin", "ensureAct", "ensureRead"}
Idle    == [on |-> 0, at |-> "none"]
Unseen  == [from |-> 0, value |-> 0]

Init ==
  /\ kind \in Kinds
  /\ conn = [c \in Conns |-> "new"] /\ call = [c \in Callers |-> "none"]
  /\ owner = Nobody /\ phase = "none" /\ waiting = <<>>
  /\ instance = 0 /\ status = [k \in Ids |-> "none"]
  /\ value = [k \in Ids |-> 0] /\ dirty = [k \in Ids |-> FALSE]
  /\ act = [c \in Conns |-> Idle] /\ known = TRUE
  /\ stored = -1 /\ puts = <<>> /\ putLost = FALSE
  /\ joined = [c \in Conns |-> 0] /\ view = [c \in Conns |-> Unseen]
  /\ writes = 0 /\ failures = 0 /\ stops = 0

\* getWebSockets(): closed sockets whose handshake is not over included.
Sockets == {c \in Conns : conn[c] \in {"open", "closing"}}

-----------------------------------------------------------------------------
(* initializeComponent: one operation at a time, callers in order *)

Enter(c, what) ==
  /\ call' = [call EXCEPT ![c] = what]
  /\ IF owner = Nobody
     THEN owner' = c /\ phase' = "begin" /\ UNCHANGED waiting
     ELSE waiting' = Append(waiting, c) /\ UNCHANGED <<owner, phase>>

\* The operation settled: the first in line starts its own.
HandOver(line) ==
  IF line = <<>>
  THEN owner' = Nobody /\ phase' = "none" /\ waiting' = <<>>
  ELSE owner' = Head(line) /\ phase' = "begin" /\ waiting' = Tail(line)

\* Mutation of FailAll: componentInitialization is cleared only after success.
FailAllHeld ==
  /\ call' = [c \in Callers |-> "none"]
  /\ conn' = [c \in Conns |-> IF call[c] \in {"ensureJoin", "join"} THEN "gone" ELSE conn[c]]
  /\ phase' = "failed" /\ UNCHANGED <<owner, waiting>>

\* The operation failed: its owner and everybody who waits for it fail with it.
FailAll ==
  /\ call' = [c \in Callers |-> "none"]
  /\ conn' = [c \in Conns |-> IF call[c] \in {"ensureJoin", "join"} THEN "gone" ELSE conn[c]]
  /\ HandOver(<<>>)

\* ensureComponentInstance() returned to its caller: a join goes on to its own
\* operation, a message runs if there is a component now, else its socket closes.
Ensured(c, now, sockets) ==
  /\ HandOver(IF call[c] = "ensureJoin" THEN Append(waiting, c) ELSE waiting)
  /\ call' = [call EXCEPT ![c] = IF @ = "ensureJoin" THEN "join" ELSE "none"]
  /\ IF call[c] = "ensureAct" /\ now # 0
     THEN act' = [act EXCEPT ![c] = [on |-> now, at |-> "queued"]] /\ conn' = sockets
     ELSE /\ UNCHANGED act
          /\ conn' = IF call[c] = "ensureAct" /\ sockets[c] = "open"
                     THEN [sockets EXCEPT ![c] = "closing"] ELSE sockets

-----------------------------------------------------------------------------
(* Constructing a component *)

Unmade == {k \in Ids : status[k] = "none"}
Building == CHOOSE k \in Ids : status[k] = "building"

\* What init() leaves in a fresh component.
Seed == 0

\* createAndBootstrapComponent finds the class and constructs it.
Create(v) ==
  /\ known
  /\ \E k \in Unmade :
       /\ \A j \in Unmade : k <= j
       /\ status' = [status EXCEPT ![k] = "building"]
       /\ value' = [value EXCEPT ![k] = v]
  /\ phase' = "building"
  /\ UNCHANGED <<call, act, owner, waiting, instance, dirty, conn>>

\* ... or does not, and closes every socket.
Missing(c) ==
  LET closed == [d \in Conns |-> IF conn[d] = "open" THEN "closing" ELSE conn[d]]
  IN /\ ~known
     /\ IF call[c] = "join"
        THEN /\ HandOver(waiting) /\ call' = [call EXCEPT ![c] = "none"]
             /\ conn' = [closed EXCEPT ![c] = "gone"] /\ UNCHANGED act
        ELSE Ensured(c, 0, closed)
     /\ UNCHANGED compVars

Publish(k) ==
  /\ instance' = k
  /\ status' = [status EXCEPT ![k] = "published"]
  /\ UNCHANGED <<value, dirty>>

\* Mutation of BuildFails: the unpublished component is not disposed.
BuildFailsLeaks ==
  /\ phase \in {"building", "persisting"}
  /\ failures < MaxFailures /\ failures' = failures + 1
  /\ FailAll
  /\ UNCHANGED <<kind, known, status, act, instance, value, dirty, storeVars, joined, view, writes, stops>>

\* Bootstrap, init(), the first render or the first put throws: the component is
\* disposed before it was published.
BuildFails ==
  /\ phase \in {"building", "persisting"}
  /\ failures < MaxFailures /\ failures' = failures + 1
  /\ status' = [status EXCEPT ![Building] = "disposed"]
  /\ FailAll
  /\ UNCHANGED <<kind, known, act, instance, value, dirty, storeVars, joined, view, writes, stops>>

-----------------------------------------------------------------------------
(* ensureComponentInstance *)

NothingToRestore(c) ==
  /\ owner = c /\ phase = "begin" /\ call[c] \in Ensures
  /\ instance # 0 \/ stored = -1
  /\ Ensured(c, instance, conn)
  /\ UNCHANGED <<kind, known, compVars, storeVars, joined, view, bounds>>

Restore(c) ==
  /\ owner = c /\ phase = "begin" /\ call[c] \in Ensures
  /\ instance = 0 /\ stored # -1
  /\ Create(stored) \/ Missing(c)
  /\ UNCHANGED <<kind, known, storeVars, joined, view, bounds>>

Restored(c) ==
  /\ owner = c /\ phase = "building" /\ call[c] \in Ensures
  /\ Publish(Building)
  /\ Ensured(c, Building, conn)
  /\ UNCHANGED <<kind, known, storeVars, joined, view, bounds>>

-----------------------------------------------------------------------------
(* join *)

\* Mutation of FirstOf: a join skips ensureComponentInstance().
FirstOfSkipsRestore == "join"

\* What a join waits for first: the instance, if there is none to see.
FirstOf == IF instance # 0 THEN "join" ELSE "ensureJoin"

\* An authorized peer joins; one that is refused is accepted only to be closed.
Connect(c) ==
  /\ conn[c] = "new"
  /\ \/ conn' = [conn EXCEPT ![c] = "joining"] /\ Enter(c, FirstOf)
     \/ conn' = [conn EXCEPT ![c] = "closing"] /\ UNCHANGED <<call, lockVars>>
  /\ UNCHANGED <<kind, known, act, compVars, storeVars, joined, view, bounds>>

\* The component is stateless and nobody is connected to it.
Discards == instance # 0 /\ ~Stateful /\ Sockets = {}

Discard(c) ==
  /\ owner = c /\ phase = "begin" /\ call[c] = "join" /\ Discards
  /\ instance' = 0
  /\ status' = [status EXCEPT ![instance] = "disposed"]
  /\ phase' = "disposing"
  /\ UNCHANGED <<kind, known, call, act, owner, waiting, value, dirty, storeVars, peerVars, bounds>>

\* Once any disposal is over, a missing component is created from scratch.
CreateFresh(c) ==
  /\ owner = c /\ phase \in {"begin", "disposing"} /\ call[c] = "join" /\ instance = 0
  /\ Create(Seed) \/ Missing(c)
  /\ UNCHANGED <<kind, known, storeVars, joined, view, bounds>>

\* Mutation of Syncs: only what pages share is sent to a joining peer.
SyncsShared == Shared

\* Joining peers are sent the live state, except by a stateless page.
Syncs == Stateful \/ Shared

\* acceptWebSocket() before the initialization is released, then the snapshot.
Admit(c, k) ==
  /\ conn' = [conn EXCEPT ![c] = "open"]
  /\ joined' = [joined EXCEPT ![c] = k]
  /\ view' = IF Syncs THEN [view EXCEPT ![c] = [from |-> k, value |-> value[k]]] ELSE view
  /\ call' = [call EXCEPT ![c] = "none"]
  /\ HandOver(waiting)

JoinLive(c) ==
  /\ owner = c /\ phase = "begin" /\ call[c] = "join"
  /\ instance # 0 /\ ~Discards
  /\ Admit(c, instance)
  /\ UNCHANGED <<kind, known, act, compVars, storeVars, bounds>>

\* Mutation of Initialized: a stateful page too is published before it is stored.
InitializedUnstored(c) ==
  /\ owner = c /\ phase = "building" /\ call[c] = "join"
  /\ Publish(Building) /\ Admit(c, Building)
  /\ UNCHANGED <<kind, known, act, storeVars, bounds>>

\* init() and the first render are over; a stateful page is stored first.
Initialized(c) ==
  /\ owner = c /\ phase = "building" /\ call[c] = "join"
  /\ IF Stateful
     THEN phase' = "persisting" /\ UNCHANGED <<call, owner, waiting, compVars, peerVars>>
     ELSE Publish(Building) /\ Admit(c, Building)
  /\ UNCHANGED <<kind, known, act, storeVars, bounds>>

Persisted(c) ==
  /\ owner = c /\ phase = "persisting"
  /\ stored' = value[Building]
  /\ Publish(Building) /\ Admit(c, Building)
  /\ UNCHANGED <<kind, known, act, puts, putLost, bounds>>

-----------------------------------------------------------------------------
(* Messages and state requests *)

\* webSocketMessage(): an action call, at once or after a restoration.
Message(c) ==
  /\ conn[c] = "open" /\ call[c] = "none" /\ act[c] = Idle
  /\ IF instance # 0
     THEN act' = [act EXCEPT ![c] = [on |-> instance, at |-> "queued"]] /\ UNCHANGED <<call, lockVars>>
     ELSE Enter(c, "ensureAct") /\ UNCHANGED act
  /\ UNCHANGED <<kind, known, compVars, storeVars, peerVars, bounds>>

\* handleStateRequest() of a stored object whose component is not in memory; any
\* other is answered at once.
Read(r) ==
  /\ call[r] = "none" /\ stored # -1 /\ instance = 0
  /\ Enter(r, "ensureRead")
  /\ UNCHANGED <<kind, known, act, compVars, storeVars, peerVars, bounds>>

\* The component's action queue: one action runs at a time.
StartAction(c) ==
  /\ act[c].at = "queued"
  /\ \A d \in Conns : ~(act[d].on = act[c].on /\ act[d].at = "running")
  /\ act' = [act EXCEPT ![c].at = "running"]
  /\ UNCHANGED <<kind, known, call, lockVars, compVars, storeVars, peerVars, bounds>>

\* A write of public state schedules a broadcast, whatever became of the component.
Write(c) ==
  /\ act[c].at = "running" /\ writes < MaxWrites
  /\ writes' = writes + 1
  /\ value' = [value EXCEPT ![act[c].on] = writes']
  /\ dirty' = [dirty EXCEPT ![act[c].on] = TRUE]
  /\ UNCHANGED <<kind, known, call, act, lockVars, instance, status, storeVars, peerVars, failures, stops>>

EndAction(c) ==
  /\ act[c].at = "running"
  /\ act' = [act EXCEPT ![c] = Idle]
  /\ UNCHANGED <<kind, known, call, lockVars, compVars, storeVars, peerVars, bounds>>

\* _flushStateBroadcast(): the batch goes to every open socket of the object, and
\* a stateful component is stored.
Flush(k) ==
  /\ dirty[k]
  /\ dirty' = [dirty EXCEPT ![k] = FALSE]
  /\ view' = [c \in Conns |-> IF conn[c] = "open" THEN [from |-> k, value |-> value[k]] ELSE view[c]]
  /\ puts' = IF Stateful THEN Append(puts, value[k]) ELSE puts
  /\ UNCHANGED <<kind, known, call, act, lockVars, instance, status, value, stored, putLost, conn, joined, bounds>>

\* Storage applies puts in order; a put that fails is logged.
PutDone ==
  /\ puts # <<>>
  /\ puts' = Tail(puts)
  /\ \/ stored' = Head(puts) /\ putLost' = FALSE /\ UNCHANGED failures
     \/ UNCHANGED stored /\ putLost' = TRUE /\ failures < MaxFailures /\ failures' = failures + 1
  /\ UNCHANGED <<kind, known, call, act, lockVars, compVars, peerVars, writes, stops>>

\* webSocketClose(): calls still in the queue are cancelled, one that runs goes on.
Close(c) ==
  /\ conn[c] \in {"open", "closing"}
  /\ conn' = [conn EXCEPT ![c] = "gone"]
  /\ act' = IF act[c].at = "queued" THEN [act EXCEPT ![c] = Idle] ELSE act
  /\ UNCHANGED <<kind, known, call, lockVars, compVars, storeVars, joined, view, bounds>>

-----------------------------------------------------------------------------
(* The object leaves memory *)

MemoryLost ==
  /\ stops < MaxStops /\ stops' = stops + 1
  /\ instance' = 0
  /\ status' = [k \in Ids |-> IF status[k] \in {"building", "published"} THEN "gone" ELSE status[k]]
  /\ dirty' = [k \in Ids |-> FALSE]
  /\ UNCHANGED <<kind, value, stored, joined, view, writes, failures>>

\* Hibernation: nothing is going on, and the sockets stay connected.
Hibernate ==
  /\ owner = Nobody /\ instance # 0 /\ puts = <<>>
  /\ \A c \in Conns : act[c] = Idle
  /\ \A k \in Ids : ~dirty[k]
  /\ MemoryLost
  /\ UNCHANGED <<known, call, act, lockVars, conn, puts, putLost>>

\* A restart, perhaps with another build, ends every request and every socket;
\* unfinished puts are lost.
Restart ==
  /\ MemoryLost
  /\ conn' = [c \in Conns |-> IF conn[c] = "new" THEN "new" ELSE "gone"]
  /\ call' = [c \in Callers |-> "none"] /\ act' = [c \in Conns |-> Idle]
  /\ HandOver(<<>>)
  /\ known' \in BOOLEAN
  /\ puts' = <<>> /\ putLost' = (putLost \/ puts # <<>>)

-----------------------------------------------------------------------------
\* The steps of the operation that owns the initialization.
Operation(c) ==
  \/ NothingToRestore(c) \/ Restore(c) \/ Restored(c)
  \/ Discard(c) \/ CreateFresh(c) \/ JoinLive(c) \/ Initialized(c) \/ Persisted(c)

Next ==
  \/ \E c \in Callers : Operation(c)
  \/ BuildFails
  \/ \E c \in Conns :
       Connect(c) \/ Message(c) \/ StartAction(c) \/ Write(c) \/ EndAction(c) \/ Close(c)
  \/ \E r \in Readers : Read(r)
  \/ \E k \in Ids : Flush(k)
  \/ PutDone \/ Hibernate \/ Restart

Spec == Init /\ [][Next]_vars

\* The application's hooks and the storage settle.
FairSpec == Spec /\ WF_vars((\E c \in Callers : Operation(c)) \/ BuildFails)

-----------------------------------------------------------------------------
\* Every variable keeps its type.
TypeOK ==
  /\ kind \in Kinds
  /\ conn \in [Conns -> {"new", "joining", "open", "closing", "gone"}]
  /\ call \in [Callers -> Ensures \union {"none", "join"}]
  /\ owner \in Callers \union {Nobody} /\ waiting \in Seq(Callers)
  /\ phase \in {"none", "begin", "building", "disposing", "persisting"}
  /\ instance \in Ids \union {0}
  /\ status \in [Ids -> {"none", "building", "published", "disposed", "gone"}]
  /\ value \in [Ids -> 0..MaxWrites] /\ dirty \in [Ids -> BOOLEAN]
  /\ act \in [Conns -> [on : Ids \union {0}, at : {"none", "queued", "running"}]]
  /\ known \in BOOLEAN
  /\ stored \in -1..MaxWrites /\ puts \in Seq(0..MaxWrites) /\ putLost \in BOOLEAN
  /\ joined \in [Conns -> Ids \union {0}]
  /\ view \in [Conns -> [from : Ids \union {0}, value : 0..MaxWrites]]

\* One component at a time: however joins, messages, state requests, failures and
\* restarts interleave, at most one component is being built or published, the
\* published one is the instance, and the initialization is owned exactly while
\* some request needs it.
OneComponent ==
  /\ Cardinality({k \in Ids : status[k] \in {"building", "published"}}) <= 1
  /\ \A k \in Ids : status[k] = "published" <=> instance = k
  /\ \A k \in Ids : status[k] = "building" => phase \in {"building", "persisting"}
  /\ \A c \in Callers : call[c] # "none" <=> c = owner \/ \E n \in 1..Len(waiting) : waiting[n] = c

\* No join takes a component away from a peer that is connected to it: "an
\* overlapping join cannot mistake a newly initialized stateless component for
\* idle state".
PeersKeepTheirComponent ==
  \A c \in Conns : conn[c] = "open" => status[joined[c]] # "disposed"

\* Connected peers share one live component: both of the above.
OneComponentForAll == OneComponent /\ PeersKeepTheirComponent

\* The stored state never goes back: neither a fresh init() nor a restored
\* component nor a late put replaces a newer state by an older one.  For a stateful
\* object StateContract implies it, and no other one stores anything.
StoredNeverRegresses == [][stored <= stored']_vars

\* Every connected peer of a stateful object was sent the current state once its
\* broadcast is out, also across hibernation, unless the last put was lost.
PeersConverge ==
  \A c \in Conns :
    Stateful /\ conn[c] = "open" /\ instance # 0 /\ ~dirty[instance] /\ ~putLost
      => view[c].value = value[instance]

\* Every request that waits for the component is answered: a failed operation
\* lets go of the initialization, and nobody waits for a settled one.
EveryCallAnswered == \A c \in Callers : call[c] # "none" ~> call[c] = "none"

\* The state an object is in: its component's or, while there is none, the stored one.
CurrentState == IF instance # 0 THEN value[instance] ELSE stored

\* The contract's variables as functions of the host; other components keep no state.
Contract == INSTANCE StateContract WITH
  Peers <- Conns, Fresh <- Seed,
  saved <- IF Stateful THEN stored ELSE -1,
  current <- IF Stateful THEN CurrentState ELSE -1,
  shown <- [c \in Conns |-> IF Stateful /\ conn[c] = "open" THEN view[c].value ELSE -1],
  failed <- Stateful /\ putLost

\* The host of a stateful component keeps every promise of StateContract: joins,
\* restorations, writes, broadcasts, puts, hibernation and restarts take only its steps.
ImplementsStateContract == Contract!ContractSpec
=============================================================================
