-------------------------- MODULE ActionQueueProofs --------------------------
(***************************************************************************)
(* Proofs about ActionQueue for any number of calls, sockets and yields:   *)
(* every call reads its own identity, is answered once, can be cancelled,  *)
(* and stays silent when it was.                                           *)
(*                                                                         *)
(* The argument for the identity: calls form a line in which the turn of a *)
(* call begins only when all turns before it are over, so that at most one *)
(* call that is not a detached stream is active, and the slots are its.    *)
(***************************************************************************)
EXTENDS ActionQueue, FiniteSetTheorems, SequenceTheorems, TLAPS

\* The calls that executeAction() registered and that are not over.
Live == {c \in Calls : at[c] \in {"queued", "checks", "running", "stepping", "closing"}}

\* The calls that got a turn, past or present.
Joined == Live \union released

\* The line as a numbering of the calls that joined it.
LineOrder(rank) ==
  /\ tail # None => tail \in Joined
  /\ \A c \in Joined : tail # None /\ rank[c] <= rank[tail]
  /\ \A c \in Joined :
       IF ahead[c] = None THEN rank[c] = 0
       ELSE ahead[c] \in Joined /\ rank[c] = rank[ahead[c]] + 1
  /\ \A c, d \in Joined : rank[c] = rank[d] => c = d
  /\ \A c, d \in Joined : c \in Active \union released /\ rank[d] < rank[c] => d \in released

InOrder == \E rank \in [Calls -> Nat] : LineOrder(rank)

\* A call whose turn is over has ended or is a detached stream.
TurnsEnd ==
  /\ \A c \in released : at[c] \in {"stepping", "closing", "over"}
  /\ detached = Active \intersect released
  /\ detached # {} => wired
  /\ IsFiniteSet(detached) /\ streams = Cardinality(detached)

\* The slots belong to the active call that has its turn.
SlotsOwned ==
  /\ slots # None => slots \in Active \ detached
  /\ \A c \in Active \ detached : slots = c

\* The hooks of rpcCancellations.
HooksNameCalls ==
  /\ \A c \in hooks : c \in Live /\ Correlated(c)
  /\ \A c, d \in hooks : SocketOf[c] = SocketOf[d] /\ id[c] = id[d] => c = d
  /\ \A c \in Live : Correlated(c) /\ SocketOf[c] \in open => c \in hooks
  /\ \A c \in cancelled : Correlated(c) /\ at[c] \notin {"new", "authorizing"}

\* What was sent for a call agrees with where the call is.
SentFor(c) ==
  /\ at[c] = "new" => sent[c] = <<>>
  /\ Correlated(c) =>
       /\ \A n \in 1..Len(sent[c]) : sent[c][n] # "yield" =>
            n = Len(sent[c]) /\ at[c] \in {"closing", "over"}
       /\ at[c] \in {"closing", "over"} /\ c \notin cancelled /\ SocketOf[c] \in open
            => sent[c] # <<>> /\ sent[c][Len(sent[c])] # "yield"

SentSoFar == \A c \in Calls : SentFor(c)

Inv == TypeOK /\ InOrder /\ TurnsEnd /\ SlotsOwned /\ HooksNameCalls /\ SentSoFar

-----------------------------------------------------------------------------
(* Types *)

\* A frame is appended to the frames of one call.
LEMMA SendsType ==
  ASSUME TypeOK, NEW c \in Calls, NEW f \in {"yield", "done", "error", "complete"},
         Sends(c, f) \/ UNCHANGED sent
  PROVE  sent' \in [Calls -> Seq({"yield", "done", "error", "complete"})]
<1>1. sent \in [Calls -> Seq({"yield", "done", "error", "complete"})]
  BY DEF TypeOK
<1>2. Append(sent[c], f) \in Seq({"yield", "done", "error", "complete"})
  BY <1>1
<1>3. [sent EXCEPT ![c] = Append(@, f)] \in [Calls -> Seq({"yield", "done", "error", "complete"})]
  BY <1>1, <1>2
<1> QED
  BY <1>1, <1>3 DEF Sends

\* A last frame is one frame or none.
LEMMA AnswerType ==
  ASSUME TypeOK, NEW c \in Calls, NEW f \in {"done", "error"}, Answer(c, f)
  PROVE  sent' \in [Calls -> Seq({"yield", "done", "error", "complete"})]
BY SendsType DEF Answer

\* Every variable keeps its type.
LEMMA TypeKept == TypeOK /\ TurnsEnd /\ [Next]_vars => TypeOK'
<1> SUFFICES ASSUME TypeOK, TurnsEnd, [Next]_vars PROVE TypeOK'
  OBVIOUS
<1> USE QueueAssumption
<1>1. ASSUME NEW c \in Calls, Receive(c) PROVE TypeOK'
  BY <1>1 DEF TypeOK, Receive, cancelVars, turnVars, idVars
<1>2. ASSUME NEW c \in Calls, Deny(c) PROVE TypeOK'
  <2>1. sent' \in [Calls -> Seq({"yield", "done", "error", "complete"})]
    BY <1>2, SendsType DEF Deny
  <2> QED
    BY <1>2, <2>1 DEF TypeOK, Deny, Retire, turnVars, idVars
<1>3. ASSUME NEW c \in Calls, Reject(c) PROVE TypeOK'
  <2>1. sent' \in [Calls -> Seq({"yield", "done", "error", "complete"})]
    BY <1>3, SendsType DEF Reject
  <2> QED
    BY <1>3, <2>1 DEF TypeOK, Reject, cancelVars, turnVars, idVars
<1>4. ASSUME NEW c \in Calls, Enqueue(c) PROVE TypeOK'
  <2>1. sent' \in [Calls -> Seq({"yield", "done", "error", "complete"})]
    BY <1>4, SendsType DEF Enqueue
  <2>2. CASE Correlated(c) /\ SameKey(c) # {}
    <3>1. at' = [at EXCEPT ![c] = "over"] /\ UNCHANGED <<hooks, tail, ahead>>
      BY <1>4, <2>2 DEF Enqueue, turnVars
    <3> QED
      BY <1>4, <2>1, <3>1 DEF TypeOK, Enqueue, idVars
  <2>3. CASE ~(Correlated(c) /\ SameKey(c) # {})
    <3>1. /\ at' = [at EXCEPT ![c] = "queued"]
          /\ hooks' = IF Correlated(c) THEN hooks \union {c} ELSE hooks
          /\ ahead' = [ahead EXCEPT ![c] = tail] /\ tail' = c
      BY <1>4, <2>3 DEF Enqueue
    <3> QED
      BY <1>4, <2>1, <3>1 DEF TypeOK, Enqueue, idVars
  <2> QED
    BY <2>2, <2>3
<1>5. ASSUME NEW c \in Calls, Cancel(c) PROVE TypeOK'
  BY <1>5 DEF TypeOK, Cancel, turnVars, idVars
<1>6. ASSUME NEW c \in Calls, Skip(c) PROVE TypeOK'
  <2>1. sent' \in [Calls -> Seq({"yield", "done", "error", "complete"})]
    BY <1>6, SendsType DEF Skip
  <2> QED
    BY <1>6, <2>1 DEF TypeOK, Skip, Leave, turnVars, idVars
<1>7. ASSUME NEW c \in Calls, Start(c) PROVE TypeOK'
  BY <1>7 DEF TypeOK, Start, cancelVars, turnVars
<1>8. ASSUME NEW c \in Calls, NEW f \in {"done", "error"}, EndTurn(c, f) PROVE TypeOK'
  <2>1. sent' \in [Calls -> Seq({"yield", "done", "error", "complete"})]
    BY <1>8, AnswerType DEF EndTurn
  <2> QED
    BY <1>8, <2>1 DEF TypeOK, EndTurn, Leave, turnVars
<1>9. ASSUME NEW c \in Calls, Invoke(c) PROVE TypeOK'
  BY <1>9 DEF TypeOK, Invoke, cancelVars, turnVars, idVars
<1>10. ASSUME NEW c \in Calls, Stream(c) PROVE TypeOK'
  <2>1. at' \in [Calls -> {"new", "authorizing", "queued", "checks", "running", "stepping",
                          "closing", "over"}]
    <3>1. at' = [at EXCEPT ![c] = "closing"] \/ at' = [at EXCEPT ![c] = "stepping"]
      BY <1>10 DEF Stream
    <3> QED
      BY <3>1 DEF TypeOK
  <2>2. released' \subseteq Calls /\ detached' \subseteq Calls
    BY <1>10 DEF TypeOK, Stream, idVars
  <2>3. slots' \in Calls \union {None} /\ streams' \in Nat
    BY <1>10 DEF TypeOK, Stream, idVars
  <2> QED
    BY <1>10, <2>1, <2>2, <2>3 DEF TypeOK, Stream, cancelVars, turnVars
<1>11. ASSUME NEW c \in Calls, Yield(c) PROVE TypeOK'
  <2>1. sent' \in [Calls -> Seq({"yield", "done", "error", "complete"})]
    BY <1>11, SendsType DEF Yield
  <2> QED
    BY <1>11, <2>1 DEF TypeOK, Yield, cancelVars, turnVars, idVars
<1>12. ASSUME NEW c \in Calls, EndStream(c) PROVE TypeOK'
  <2>1. sent' \in [Calls -> Seq({"yield", "done", "error", "complete"})]
    BY <1>12, AnswerType DEF EndStream
  <2> QED
    BY <1>12, <2>1 DEF TypeOK, EndStream, cancelVars, turnVars, idVars
<1>13. ASSUME NEW c \in Calls, Closed(c) PROVE TypeOK'
  <2>1. c \in detached => streams # 0
    BY FS_EmptySet DEF TurnsEnd
  <2>2. c \in detached => streams - 1 \in Nat
    BY <2>1 DEF TypeOK
  <2> QED
    BY <1>13, <2>2 DEF TypeOK, Closed, Leave, turnVars
<1>14. ASSUME NEW s \in Sockets, Close(s) PROVE TypeOK'
  BY <1>14 DEF TypeOK, Close, Retire, turnVars, idVars
<1>15. CASE UNCHANGED vars
  BY <1>15 DEF TypeOK, vars, cancelVars, turnVars, idVars
<1> QED
  BY <1>1, <1>2, <1>3, <1>4, <1>5, <1>6, <1>7, <1>8, <1>9, <1>10, <1>11, <1>12, <1>13,
     <1>14, <1>15 DEF Next, ChecksFail, Return

-----------------------------------------------------------------------------
(* The line *)

\* A call whose turn it is, or was, has only calls whose turn is over before it.
LEMMA TurnsBefore ==
  ASSUME TypeOK, NEW rank \in [Calls -> Nat], LineOrder(rank),
         NEW c \in Calls, MyTurn(c) \/ c \in Active, NEW d \in Joined, rank[d] < rank[c]
  PROVE  d \in released
<1>1. c \in Joined /\ d \in Calls
  BY DEF MyTurn, Active, Joined, Live, TypeOK
<1>2. CASE c \in Active
  BY <1>1, <1>2 DEF LineOrder
<1>3. CASE MyTurn(c) /\ ahead[c] = None
  BY <1>1, <1>3 DEF LineOrder
<1>4. CASE MyTurn(c) /\ ahead[c] # None
  <2>1. ahead[c] \in released /\ ahead[c] \in Joined /\ rank[c] = rank[ahead[c]] + 1
    BY <1>1, <1>4 DEF MyTurn, LineOrder
  <2>2. ahead[c] \in Calls
    BY <2>1 DEF TypeOK
  <2>3. rank[d] = rank[ahead[c]] \/ rank[d] < rank[ahead[c]]
    BY <1>1, <2>1, <2>2
  <2> QED
    BY <2>1, <2>3 DEF LineOrder
<1> QED
  BY <1>2, <1>3, <1>4

\* A step that changes only whose turn it is keeps the order.
LEMMA TurnsMove ==
  ASSUME TypeOK, InOrder, NEW C \in SUBSET Calls, \A c \in C : MyTurn(c) \/ c \in Active,
         UNCHANGED <<tail, ahead>>, Joined' = Joined, released \subseteq released',
         (Active \union released)' \subseteq Active \union released \union C
  PROVE  InOrder'
<1> PICK rank \in [Calls -> Nat] : LineOrder(rank)
  BY DEF InOrder
<1>1. /\ tail' # None => tail' \in Joined'
      /\ \A c \in Joined' : tail' # None /\ rank[c] <= rank[tail']
      /\ \A c \in Joined' :
           IF ahead'[c] = None THEN rank[c] = 0
           ELSE ahead'[c] \in Joined' /\ rank[c] = rank[ahead'[c]] + 1
      /\ \A c, d \in Joined' : rank[c] = rank[d] => c = d
  BY DEF LineOrder
<1>2. ASSUME NEW c \in Joined', NEW d \in Joined', c \in (Active \union released)',
             rank[d] < rank[c]
      PROVE  d \in released'
  <2>1. CASE c \in C
    BY <1>2, <2>1, TurnsBefore
  <2>2. CASE c \in Active \union released
    BY <1>2, <2>2 DEF LineOrder
  <2> QED
    BY <1>2, <2>1, <2>2
<1> QED
  BY <1>1, <1>2 DEF InOrder, LineOrder

\* A new call takes the last place.
LEMMA JoinsLast ==
  ASSUME TypeOK, InOrder, TurnsEnd, NEW c \in Calls, at[c] = "authorizing",
         tail' = c, ahead' = [ahead EXCEPT ![c] = tail], at' = [at EXCEPT ![c] = "queued"],
         UNCHANGED released
  PROVE  InOrder'
<1> PICK rank \in [Calls -> Nat] : LineOrder(rank)
  BY DEF InOrder
<1> USE QueueAssumption
<1>1. c \notin Joined /\ c \notin Active /\ c # None
  BY DEF Joined, Live, Active, TurnsEnd
<1>2. Joined' = Joined \union {c} /\ Active' = Active
  BY DEF Joined, Live, Active, TypeOK
<1>3. Joined \subseteq Calls /\ tail \in Calls \union {None}
  BY DEF TypeOK, LineOrder, Joined, Live
<1> PICK place \in Nat : place = IF tail = None THEN 0 ELSE rank[tail] + 1
  BY <1>3
<1> PICK next \in [Calls -> Nat] : next = [rank EXCEPT ![c] = place]
  OBVIOUS
<1>4. \A d \in Joined : d # c /\ next[d] = rank[d] /\ next[d] < place /\ ahead'[d] = ahead[d]
  BY <1>1, <1>3 DEF LineOrder, TypeOK
<1>5. next[c] = place /\ ahead'[c] = tail
  BY DEF TypeOK
<1>6. \A d \in Joined' :
        IF ahead'[d] = None THEN next[d] = 0
        ELSE ahead'[d] \in Joined' /\ next[d] = next[ahead'[d]] + 1
  <2>1. ASSUME NEW d \in Joined
        PROVE  IF ahead'[d] = None THEN next[d] = 0
               ELSE ahead'[d] \in Joined' /\ next[d] = next[ahead'[d]] + 1
    BY <1>2, <1>4 DEF LineOrder
  <2>2. IF tail = None THEN place = 0 ELSE tail \in Joined /\ place = next[tail] + 1
    BY <1>4 DEF LineOrder
  <2> QED
    BY <1>2, <1>5, <2>1, <2>2
<1>7. \A d \in Joined' : next[d] <= next[c]
  BY <1>2, <1>3, <1>4, <1>5
<1>8. \A d, e \in Joined' : next[d] = next[e] => d = e
  <2>1. \A d, e \in Joined : next[d] = next[e] => d = e
    BY <1>4 DEF LineOrder
  <2>2. \A d \in Joined : next[d] # next[c]
    BY <1>3, <1>4, <1>5
  <2> QED
    BY <1>2, <2>1, <2>2
<1>9. ASSUME NEW d \in Joined', NEW e \in Joined', d \in Active' \union released',
             next[e] < next[d]
      PROVE  e \in released'
  <2>1. d \in Joined
    BY <1>1, <1>2, <1>9 DEF Joined
  <2>2. next[d] < place /\ next[d] \in Nat /\ next[e] \in Nat
    BY <1>2, <1>3, <1>4, <1>5, <2>1
  <2>3. e \in Joined
    BY <1>2, <1>3, <1>5, <1>9, <2>2
  <2> QED
    BY <1>2, <1>4, <1>9, <2>1, <2>3 DEF LineOrder
<1>10. LineOrder(next)'
  BY <1>1, <1>2, <1>6, <1>7, <1>8, <1>9 DEF LineOrder
<1> QED
  BY <1>10 DEF InOrder

\* Whoever has the turn, or gets it, is the only active call but for detached streams.
LEMMA Alone ==
  ASSUME TypeOK, InOrder, TurnsEnd, NEW c \in Calls, MyTurn(c) \/ c \in Active \ detached,
         NEW d \in Active \ detached
  PROVE  d = c
<1> SUFFICES ASSUME d # c PROVE FALSE
  OBVIOUS
<1> PICK rank \in [Calls -> Nat] : LineOrder(rank)
  BY DEF InOrder
<1>1. c \notin released /\ d \notin released /\ d \in Active
  BY DEF TurnsEnd, MyTurn
<1>2. c \in Joined /\ d \in Joined /\ d \in Calls
  BY DEF MyTurn, Active, Joined, Live
<1>3. rank[d] < rank[c] \/ rank[c] < rank[d]
  BY <1>2 DEF LineOrder
<1>4. ~(rank[d] < rank[c])
  BY <1>1, <1>2, TurnsBefore
<1>5. ~(rank[c] < rank[d])
  BY <1>1, <1>2 DEF LineOrder
<1> QED
  BY <1>3, <1>4, <1>5

\* The line stays in order.
LEMMA OrderKept == Inv /\ [Next]_vars => InOrder'
<1> SUFFICES ASSUME Inv, [Next]_vars PROVE InOrder'
  OBVIOUS
<1> USE DEF Inv
<1>1. ASSUME UNCHANGED <<tail, ahead, released>>, Live' = Live, Active' = Active PROVE InOrder'
  <2> DEFINE C == {}
  <2>1. Joined' = Joined /\ (Active \union released)' \subseteq Active \union released \union C
    BY <1>1 DEF Joined
  <2>2. C \in SUBSET Calls /\ \A c \in C : MyTurn(c) \/ c \in Active
    OBVIOUS
  <2> HIDE DEF C
  <2> QED
    BY <1>1, <2>1, <2>2, TurnsMove
<1>2. ASSUME NEW c \in Calls, Receive(c) \/ Deny(c) \/ Reject(c) PROVE InOrder'
  <2>1. Live' = Live /\ Active' = Active
    BY <1>2 DEF Receive, Deny, Reject, Live, Active, TypeOK
  <2>2. UNCHANGED <<tail, ahead, released>>
    BY <1>2 DEF Receive, Deny, Reject, turnVars
  <2> QED
    BY <1>1, <2>1, <2>2
<1>3. ASSUME NEW c \in Calls, Enqueue(c) PROVE InOrder'
  <2>1. CASE Correlated(c) /\ SameKey(c) # {}
    <3>1. at' = [at EXCEPT ![c] = "over"] /\ UNCHANGED <<tail, ahead, released>>
      BY <1>3, <2>1 DEF Enqueue, turnVars
    <3>2. Live' = Live /\ Active' = Active
      BY <1>3, <3>1 DEF Enqueue, Live, Active, TypeOK
    <3> QED
      BY <1>1, <3>1, <3>2
  <2>2. CASE ~(Correlated(c) /\ SameKey(c) # {})
    BY <1>3, <2>2, JoinsLast DEF Enqueue
  <2> QED
    BY <2>1, <2>2
<1>4. ASSUME NEW c \in Calls, Cancel(c) \/ Yield(c) \/ EndStream(c) PROVE InOrder'
  <2>1. Live' = Live /\ Active' = Active
    BY <1>4 DEF Cancel, Yield, EndStream, Live, Active, TypeOK
  <2>2. UNCHANGED <<tail, ahead, released>>
    BY <1>4 DEF Cancel, Yield, EndStream, turnVars
  <2> QED
    BY <1>1, <2>1, <2>2
<1>5. ASSUME NEW c \in Calls, MyTurn(c) \/ c \in Active, Leave(c), UNCHANGED turnVars PROVE InOrder'
  <2>1. Joined' = Joined
    BY <1>5 DEF Leave, Joined, Live, MyTurn, Active, TypeOK
  <2>2. (Active \union released)' \subseteq Active \union released \union {c}
    BY <1>5 DEF Leave, Active, TypeOK
  <2>3. UNCHANGED <<tail, ahead>> /\ released \subseteq released'
    BY <1>5 DEF Leave, turnVars
  <2> DEFINE C == {c}
  <2>4. /\ C \in SUBSET Calls /\ \A d \in C : MyTurn(d) \/ d \in Active
        /\ (Active \union released)' \subseteq Active \union released \union C
    BY <1>5, <2>2
  <2> HIDE DEF C
  <2> QED
    BY <2>1, <2>3, <2>4, TurnsMove
<1>6. ASSUME NEW c \in Calls, Start(c) \/ Invoke(c) PROVE InOrder'
  <2>1. Live' = Live /\ Active' \subseteq Active \union {c}
    BY <1>6 DEF Start, Invoke, MyTurn, Live, Active, TypeOK
  <2>2. UNCHANGED <<tail, ahead, released>> /\ (MyTurn(c) \/ c \in Active)
    BY <1>6 DEF Start, Invoke, turnVars, Active
  <2>3. Joined' = Joined /\ (Active \union released)' \subseteq Active \union released \union {c}
    BY <2>1, <2>2 DEF Joined
  <2> DEFINE C == {c}
  <2>4. /\ C \in SUBSET Calls /\ \A d \in C : MyTurn(d) \/ d \in Active
        /\ (Active \union released)' \subseteq Active \union released \union C
    BY <2>2, <2>3
  <2> HIDE DEF C
  <2> QED
    BY <2>2, <2>3, <2>4, TurnsMove
<1>7. ASSUME NEW c \in Calls, Stream(c) PROVE InOrder'
  <2>1. at' = [at EXCEPT ![c] = "closing"] \/ at' = [at EXCEPT ![c] = "stepping"]
    BY <1>7 DEF Stream
  <2>2. released' = released \/ released' = released \union {c}
    BY <1>7 DEF Stream
  <2>6. UNCHANGED <<tail, ahead>> /\ at[c] = "running"
    BY <1>7 DEF Stream, turnVars
  <2>3. Live' = Live /\ Active' = Active /\ c \in Live /\ c \in Active
    BY <2>1, <2>6 DEF Live, Active, TypeOK
  <2>4. Joined' = Joined /\ (Active \union released)' \subseteq Active \union released \union {c}
    BY <2>2, <2>3 DEF Joined
  <2>5. released \subseteq released' /\ {c} \in SUBSET Calls /\ \A d \in {c} : d \in Active
    BY <2>2, <2>3
  <2> QED
    BY <2>4, <2>5, <2>6, TurnsMove
<1>8. ASSUME NEW c \in Calls, Skip(c) \/ ChecksFail(c) \/ Return(c) \/ Closed(c) PROVE InOrder'
  BY <1>5, <1>8 DEF Skip, ChecksFail, Return, EndTurn, Closed, Active
<1>9. ASSUME NEW s \in Sockets, Close(s) PROVE InOrder'
  BY <1>1, <1>9 DEF Close, Live, Active, turnVars
<1>10. CASE UNCHANGED vars
  BY <1>1, <1>10 DEF vars, Live, Active, turnVars
<1> QED
  BY <1>2, <1>3, <1>4, <1>6, <1>7, <1>8, <1>9, <1>10 DEF Next

-----------------------------------------------------------------------------
(* Turns and slots *)

\* A turn that ends: the slots are left by a call that is not detached.
LEMMA TurnsKept == Inv /\ [Next]_vars => TurnsEnd' /\ SlotsOwned'
<1> SUFFICES ASSUME Inv, [Next]_vars PROVE TurnsEnd' /\ SlotsOwned'
  OBVIOUS
<1> USE DEF Inv
<1> USE QueueAssumption
<1>1. ASSUME UNCHANGED <<wired, released, detached, streams, slots>>, Active' = Active,
             \A c \in released : at'[c] \in {"stepping", "closing", "over"}
      PROVE  TurnsEnd' /\ SlotsOwned'
  BY <1>1 DEF TurnsEnd, SlotsOwned
<1>2. ASSUME NEW c \in Calls, Receive(c) \/ Deny(c) \/ Reject(c) PROVE TurnsEnd' /\ SlotsOwned'
  <2>1. UNCHANGED <<wired, released, detached, streams, slots>>
    BY <1>2 DEF Receive, Deny, Reject, idVars
  <2>2. /\ Active' = Active
        /\ \A d \in released : at'[d] \in {"stepping", "closing", "over"}
    BY <1>2 DEF Receive, Deny, Reject, Active, TypeOK, TurnsEnd
  <2> QED
    BY <1>1, <2>1, <2>2
<1>3. ASSUME NEW c \in Calls, Enqueue(c) PROVE TurnsEnd' /\ SlotsOwned'
  <2>1. at' = [at EXCEPT ![c] = "over"] \/ at' = [at EXCEPT ![c] = "queued"]
    BY <1>3 DEF Enqueue
  <2>2. at[c] = "authorizing" /\ UNCHANGED <<wired, released, detached, streams, slots>>
    BY <1>3 DEF Enqueue, idVars
  <2>3. /\ Active' = Active
        /\ \A d \in released : at'[d] \in {"stepping", "closing", "over"}
    BY <2>1, <2>2 DEF Active, TypeOK, TurnsEnd
  <2> QED
    BY <1>1, <2>2, <2>3
<1>4. ASSUME NEW c \in Calls, Cancel(c) \/ Invoke(c) \/ Yield(c) \/ EndStream(c)
      PROVE  TurnsEnd' /\ SlotsOwned'
  <2>1. UNCHANGED <<wired, released, detached, streams, slots>>
    BY <1>4 DEF Cancel, Invoke, Yield, EndStream, idVars
  <2>2. /\ Active' = Active
        /\ \A d \in released : at'[d] \in {"stepping", "closing", "over"}
    BY <1>4 DEF Cancel, Invoke, Yield, EndStream, Active, TypeOK, TurnsEnd
  <2> QED
    BY <1>1, <2>1, <2>2
<1>5. ASSUME NEW c \in Calls, Skip(c) PROVE TurnsEnd' /\ SlotsOwned'
  <2>1. at' = [at EXCEPT ![c] = "over"] /\ released' = released \union {c} /\ at[c] = "queued"
    BY <1>5 DEF Skip, Leave, MyTurn
  <2>2. UNCHANGED <<wired, detached, streams, slots>>
    BY <1>5 DEF Skip, idVars
  <2>3. Active' = Active /\ c \notin Active
    BY <2>1 DEF Active, TypeOK
  <2>4. \A d \in released' : at'[d] \in {"stepping", "closing", "over"}
    BY <2>1 DEF TypeOK, TurnsEnd
  <2> QED
    BY <2>1, <2>2, <2>3, <2>4 DEF TurnsEnd, SlotsOwned
<1>6. ASSUME NEW c \in Calls, Start(c) PROVE TurnsEnd' /\ SlotsOwned'
  <2>1. /\ at' = [at EXCEPT ![c] = "checks"] /\ at[c] = "queued" /\ MyTurn(c) /\ slots' = c
        /\ UNCHANGED <<wired, released, detached, streams>>
    BY <1>6 DEF Start, MyTurn
  <2>2. Active' = Active \union {c} /\ c \notin Active /\ c \notin released
    BY <2>1 DEF Active, TypeOK, TurnsEnd
  <2>3. \A d \in released' : at'[d] \in {"stepping", "closing", "over"}
    BY <2>1 DEF TypeOK, TurnsEnd
  <2>4. Active \ detached = {}
    BY <2>1, <2>2, Alone
  <2>5. Active' \ detached' = {c}
    BY <2>1, <2>2, <2>4 DEF TurnsEnd
  <2>6. TurnsEnd'
    BY <2>1, <2>2, <2>3 DEF TurnsEnd
  <2> QED
    BY <2>1, <2>5, <2>6 DEF SlotsOwned
<1>7. ASSUME NEW c \in Calls, c \in Active \ detached, at' = [at EXCEPT ![c] = "over"],
             released' = released \union {c}, slots' = None,
             UNCHANGED <<wired, detached, streams>>
      PROVE  TurnsEnd' /\ SlotsOwned'
  <2>1. Active' = Active \ {c} /\ c \notin released
    BY <1>7 DEF Active, TypeOK, TurnsEnd
  <2>2. \A d \in released' : at'[d] \in {"stepping", "closing", "over"}
    BY <1>7 DEF TypeOK, TurnsEnd
  <2>3. Active' \ detached' = {}
    BY <1>7, <2>1, Alone
  <2>4. TurnsEnd'
    BY <1>7, <2>1, <2>2 DEF TurnsEnd
  <2> QED
    BY <1>7, <2>3, <2>4 DEF SlotsOwned
<1>8. ASSUME NEW c \in Calls, ChecksFail(c) \/ Return(c) PROVE TurnsEnd' /\ SlotsOwned'
  <2>1. c \in Active \ detached
    BY <1>8 DEF ChecksFail, Return, Active, TurnsEnd
  <2>2. /\ at' = [at EXCEPT ![c] = "over"] /\ released' = released \union {c} /\ slots' = None
        /\ UNCHANGED <<wired, detached, streams>>
    BY <1>8 DEF ChecksFail, Return, EndTurn, Leave
  <2> QED
    BY <1>7, <2>1, <2>2
<1>9. ASSUME NEW c \in Calls, Stream(c) PROVE TurnsEnd' /\ SlotsOwned'
  <2>1. /\ at' = [at EXCEPT ![c] = "closing"] \/ at' = [at EXCEPT ![c] = "stepping"]
        /\ at[c] = "running" /\ UNCHANGED wired
    BY <1>9 DEF Stream
  <2>2. Active' = Active /\ c \in Active /\ c \notin detached /\ c \notin released
    BY <2>1 DEF Active, TypeOK, TurnsEnd
  <2>3. CASE c \notin cancelled /\ wired
    <3>1. /\ detached' = detached \union {c} /\ streams' = streams + 1
          /\ slots' = None /\ released' = released \union {c}
      BY <1>9, <2>3 DEF Stream
    <3>2. \A d \in released' : at'[d] \in {"stepping", "closing", "over"}
      BY <2>1, <3>1 DEF TypeOK, TurnsEnd
    <3>3. IsFiniteSet(detached') /\ streams' = Cardinality(detached')
      BY <2>2, <3>1, FS_AddElement DEF TurnsEnd
    <3>4. TurnsEnd'
      BY <2>1, <2>2, <2>3, <3>1, <3>2, <3>3 DEF TurnsEnd
    <3>5. Active' \ detached' = {}
      BY <2>2, <3>1, Alone
    <3> QED
      BY <3>1, <3>4, <3>5 DEF SlotsOwned
  <2>4. CASE c \in cancelled \/ ~wired
    <3>1. UNCHANGED <<released, detached, streams, slots>>
      BY <1>9, <2>4 DEF Stream, idVars
    <3>2. \A d \in released : at'[d] \in {"stepping", "closing", "over"}
      BY <2>1 DEF TypeOK, TurnsEnd
    <3> QED
      BY <1>1, <2>1, <2>2, <3>1, <3>2
  <2> QED
    BY <2>3, <2>4
<1>10. ASSUME NEW c \in Calls, Closed(c) PROVE TurnsEnd' /\ SlotsOwned'
  <2>1. /\ at' = [at EXCEPT ![c] = "over"] /\ released' = released \union {c}
        /\ at[c] = "closing" /\ UNCHANGED wired
    BY <1>10 DEF Closed, Leave
  <2>2. CASE c \in detached
    <3>1. detached' = detached \ {c} /\ streams' = streams - 1 /\ UNCHANGED slots
      BY <1>10, <2>2 DEF Closed
    <3>2. Active' = Active \ {c} /\ c \in released
      BY <2>1, <2>2 DEF Active, TypeOK, TurnsEnd
    <3>3. \A d \in released' : at'[d] \in {"stepping", "closing", "over"}
      BY <2>1 DEF TypeOK, TurnsEnd
    <3>4. IsFiniteSet(detached') /\ streams' = Cardinality(detached')
      BY <2>2, <3>1, FS_RemoveElement DEF TurnsEnd
    <3>5. TurnsEnd'
      BY <2>1, <3>1, <3>2, <3>3, <3>4 DEF TurnsEnd
    <3>6. Active' \ detached' = Active \ detached
      BY <2>2, <3>1, <3>2
    <3> QED
      BY <3>1, <3>5, <3>6 DEF SlotsOwned
  <2>3. CASE c \notin detached
    <3>1. c \in Active \ detached /\ slots' = None /\ UNCHANGED <<detached, streams>>
      BY <1>10, <2>1, <2>3 DEF Closed, Active
    <3> QED
      BY <1>7, <2>1, <3>1
  <2> QED
    BY <2>2, <2>3
<1>11. ASSUME NEW s \in Sockets, Close(s) PROVE TurnsEnd' /\ SlotsOwned'
  <2>1. UNCHANGED <<wired, released, detached, streams, slots, at>>
    BY <1>11 DEF Close, idVars
  <2> QED
    BY <1>1, <2>1 DEF Active, TurnsEnd
<1>12. CASE UNCHANGED vars
  <2>1. UNCHANGED <<wired, released, detached, streams, slots, at>>
    BY <1>12 DEF vars, idVars
  <2> QED
    BY <1>1, <2>1 DEF Active, TurnsEnd
<1> QED
  BY <1>2, <1>3, <1>4, <1>5, <1>6, <1>8, <1>9, <1>10, <1>11, <1>12 DEF Next

-----------------------------------------------------------------------------
(* Hooks and cancellations *)

\* The hooks keep naming the calls that have their request IDs.
LEMMA HooksKept == Inv /\ [Next]_vars => HooksNameCalls'
<1> SUFFICES ASSUME Inv, [Next]_vars PROVE HooksNameCalls'
  OBVIOUS
<1> USE DEF Inv, Correlated
<1>1. ASSUME UNCHANGED <<id, hooks, cancelled, open>>, Live' = Live,
             \A c \in Calls : at'[c] \in {"new", "authorizing"} => at[c] \in {"new", "authorizing"}
      PROVE  HooksNameCalls'
  BY <1>1 DEF HooksNameCalls, TypeOK
<1>2. ASSUME NEW c \in Calls, Receive(c) PROVE HooksNameCalls'
  <2>1. PICK i \in IdsOf[c] : id' = [id EXCEPT ![c] = i]
    BY <1>2 DEF Receive
  <2>2. /\ at' = [at EXCEPT ![c] = "authorizing"] /\ at[c] = "new"
        /\ UNCHANGED <<hooks, cancelled, open>>
    BY <1>2 DEF Receive, cancelVars
  <2>3. Live' = Live /\ c \notin Live /\ c \notin hooks /\ c \notin cancelled
    BY <2>2 DEF Live, TypeOK, HooksNameCalls
  <2>4. \A d \in Calls : d # c => id'[d] = id[d] /\ at'[d] = at[d]
    BY <2>1, <2>2 DEF TypeOK
  <2>5. Live \subseteq Calls /\ hooks \subseteq Calls /\ cancelled \subseteq Calls
    BY DEF Live, TypeOK
  <2> QED
    BY <2>2, <2>3, <2>4, <2>5 DEF HooksNameCalls
<1>3. ASSUME NEW s \in Sockets, Retire(s), Live' = Live, UNCHANGED id,
             \A c \in Calls : at'[c] \in {"new", "authorizing"} => at[c] \in {"new", "authorizing"}
      PROVE  HooksNameCalls'
  <2>1. \A c \in Live : c \in Calls /\ at[c] \notin {"new", "authorizing"}
    BY DEF Live
  <2> QED
    BY <1>3, <2>1 DEF HooksNameCalls, Retire, TypeOK
<1>4. ASSUME NEW c \in Calls, Deny(c) PROVE HooksNameCalls'
  <2>1. at' = [at EXCEPT ![c] = "over"] /\ at[c] = "authorizing" /\ Retire(SocketOf[c])
        /\ UNCHANGED id
    BY <1>4 DEF Deny
  <2>2. Live' = Live
    BY <2>1 DEF Live, TypeOK
  <2>3. \A d \in Calls : at'[d] \in {"new", "authorizing"} => at[d] \in {"new", "authorizing"}
    BY <2>1 DEF TypeOK
  <2>4. SocketOf[c] \in Sockets
    BY QueueAssumption
  <2> QED
    BY <1>3, <2>1, <2>2, <2>3, <2>4
<1>5. ASSUME NEW c \in Calls, Reject(c) \/ (Enqueue(c) /\ Correlated(c) /\ SameKey(c) # {})
      PROVE  HooksNameCalls'
  <2>1. at' = [at EXCEPT ![c] = "over"] /\ at[c] = "authorizing"
        /\ UNCHANGED <<id, hooks, cancelled, open>>
    BY <1>5 DEF Reject, Enqueue, cancelVars
  <2>2. Live' = Live
    BY <2>1 DEF Live, TypeOK
  <2>3. \A d \in Calls : at'[d] \in {"new", "authorizing"} => at[d] \in {"new", "authorizing"}
    BY <2>1 DEF TypeOK
  <2> QED
    BY <1>1, <2>1, <2>2, <2>3
<1>6. ASSUME NEW c \in Calls, Enqueue(c), ~(Correlated(c) /\ SameKey(c) # {})
      PROVE  HooksNameCalls'
  <2>1. /\ at' = [at EXCEPT ![c] = "queued"] /\ at[c] = "authorizing"
        /\ hooks' = IF Correlated(c) THEN hooks \union {c} ELSE hooks
        /\ UNCHANGED <<id, cancelled, open>>
    BY <1>6 DEF Enqueue
  <2>2. Live' = Live \union {c} /\ c \notin Live
    BY <2>1 DEF Live, TypeOK
  <2>3. \A d \in Calls : at'[d] \in {"new", "authorizing"} => at[d] \in {"new", "authorizing"}
    BY <2>1 DEF TypeOK
  <2>4. Correlated(c) => \A d \in hooks : ~(SocketOf[d] = SocketOf[c] /\ id[d] = id[c])
    BY <1>6 DEF SameKey
  <2>5. cancelled \subseteq Calls
    BY DEF TypeOK
  <2>6. \A d \in hooks' : d \in Live' /\ id'[d] # None
    BY <2>1, <2>2 DEF HooksNameCalls
  <2>7. \A d, e \in hooks' : SocketOf[d] = SocketOf[e] /\ id'[d] = id'[e] => d = e
    BY <2>1, <2>4 DEF HooksNameCalls
  <2>8. \A d \in Live' : id'[d] # None /\ SocketOf[d] \in open' => d \in hooks'
    BY <2>1, <2>2 DEF HooksNameCalls
  <2>9. \A d \in cancelled' : id'[d] # None /\ at'[d] \notin {"new", "authorizing"}
    BY <2>1, <2>3, <2>5 DEF HooksNameCalls
  <2> QED
    BY <2>6, <2>7, <2>8, <2>9 DEF HooksNameCalls
<1>7. ASSUME NEW c \in Calls, Cancel(c) PROVE HooksNameCalls'
  <2>1. c \in hooks /\ cancelled' = cancelled \union {c} /\ UNCHANGED <<id, at, hooks, open>>
    BY <1>7 DEF Cancel
  <2>2. Live' = Live /\ \A d \in Live : at[d] \notin {"new", "authorizing"}
    BY <2>1 DEF Live
  <2> QED
    BY <2>1, <2>2 DEF HooksNameCalls
<1>8. ASSUME NEW c \in Live, Leave(c), UNCHANGED <<id, cancelled, open>> PROVE HooksNameCalls'
  <2>1. Live' = Live \ {c} /\ c \in Calls
    BY <1>8 DEF Leave, Live, TypeOK
  <2>2. \A d \in Calls : at'[d] \in {"new", "authorizing"} => at[d] \in {"new", "authorizing"}
    BY <1>8 DEF Leave, TypeOK
  <2>3. cancelled \subseteq Calls /\ hooks' \subseteq hooks /\ c \notin hooks'
    BY <1>8 DEF Leave, SameKey, HooksNameCalls, TypeOK
  <2>4. ASSUME NEW d \in Live', id[d] # None, SocketOf[d] \in open PROVE d \in hooks'
    <3>1. d \in hooks /\ d # c
      BY <2>1, <2>4 DEF HooksNameCalls
    <3>2. ~(Correlated(c) /\ d \in SameKey(c))
      BY <2>4, <3>1 DEF SameKey, HooksNameCalls
    <3> QED
      BY <1>8, <3>1, <3>2 DEF Leave
  <2>5. \A d \in hooks' : d \in Live' /\ id[d] # None
    BY <2>1, <2>3 DEF HooksNameCalls
  <2>6. \A d \in cancelled : id[d] # None /\ at'[d] \notin {"new", "authorizing"}
    BY <2>2, <2>3 DEF HooksNameCalls
  <2> QED
    BY <1>8, <2>3, <2>4, <2>5, <2>6 DEF HooksNameCalls
<1>9. ASSUME NEW c \in Calls, Skip(c) \/ ChecksFail(c) \/ Return(c) \/ Closed(c)
      PROVE  HooksNameCalls'
  <2>1. c \in Live
    BY <1>9 DEF Skip, MyTurn, ChecksFail, Return, Closed, Live
  <2> QED
    BY <1>8, <1>9, <2>1 DEF Skip, ChecksFail, Return, EndTurn, Closed
<1>10. ASSUME NEW c \in Calls, Start(c) \/ Invoke(c) \/ Yield(c) \/ EndStream(c) PROVE HooksNameCalls'
  <2>1. Live' = Live
    BY <1>10 DEF Start, MyTurn, Invoke, Yield, EndStream, Live, TypeOK
  <2>2. \A d \in Calls : at'[d] \in {"new", "authorizing"} => at[d] \in {"new", "authorizing"}
    BY <1>10 DEF Start, Invoke, Yield, EndStream, TypeOK
  <2>3. UNCHANGED <<id, hooks, cancelled, open>>
    BY <1>10 DEF Start, Invoke, Yield, EndStream, cancelVars
  <2> QED
    BY <1>1, <2>1, <2>2, <2>3
<1>11. ASSUME NEW c \in Calls, Stream(c) PROVE HooksNameCalls'
  <2>1. /\ at' = [at EXCEPT ![c] = "closing"] \/ at' = [at EXCEPT ![c] = "stepping"]
        /\ at[c] = "running"
    BY <1>11 DEF Stream
  <2>2. UNCHANGED <<id, hooks, cancelled, open>>
    BY <1>11 DEF Stream, cancelVars
  <2>3. Live' = Live
    BY <2>1 DEF Live, TypeOK
  <2>4. \A d \in Calls : at'[d] \in {"new", "authorizing"} => at[d] \in {"new", "authorizing"}
    BY <2>1 DEF TypeOK
  <2> QED
    BY <1>1, <2>2, <2>3, <2>4
<1>12. ASSUME NEW s \in Sockets, Close(s) PROVE HooksNameCalls'
  BY <1>3, <1>12 DEF Close, Live
<1>13. CASE UNCHANGED vars
  BY <1>1, <1>13 DEF vars, cancelVars, Live
<1> QED
  BY <1>2, <1>4, <1>5, <1>6, <1>7, <1>9, <1>10, <1>11, <1>12, <1>13 DEF Next

-----------------------------------------------------------------------------
(* What is sent *)

\* A frame for one call leaves what the others got alone.
LEMMA SendsOne ==
  ASSUME TypeOK, NEW c \in Calls, NEW f, Sends(c, f)
  PROVE  /\ \A d \in Calls : d # c => sent'[d] = sent[d]
         /\ sent'[c] = IF SocketOf[c] \in open THEN Append(sent[c], f) ELSE sent[c]
BY DEF TypeOK, Sends

\* Appending to a list of yields.
LEMMA AppendToYields ==
  ASSUME NEW F, NEW q \in Seq(F), NEW f \in F, \A n \in 1..Len(q) : q[n] = "yield"
  PROVE  /\ Append(q, f) # <<>> /\ Append(q, f)[Len(Append(q, f))] = f
         /\ \A n \in 1..Len(Append(q, f)) : n # Len(Append(q, f)) => Append(q, f)[n] = "yield"
<1> DEFINE r == Append(q, f)
<1>1. /\ Len(r) = Len(q) + 1 /\ Len(q) \in Nat
      /\ \A n \in 1..Len(q) : r[n] = q[n]
      /\ r[Len(q) + 1] = f
  BY AppendProperties
<1>2. r # <<>>
  BY AppendProperties
<1> HIDE DEF r
<1>3. r # <<>> /\ r[Len(r)] = f /\ \A n \in 1..Len(r) : n # Len(r) => r[n] = "yield"
  BY <1>1, <1>2
<1> QED
  BY <1>3 DEF r

\* The last frame of a call.
LEMMA LastFrame ==
  ASSUME TypeOK, NEW c \in Calls, SentFor(c), at[c] \notin {"closing", "over"}, Correlated(c),
         NEW f \in {"done", "error"}, Sends(c, f) \/ Answer(c, f)
  PROVE  /\ \A d \in Calls : d # c => sent'[d] = sent[d]
         /\ \A n \in 1..Len(sent'[c]) : sent'[c][n] # "yield" => n = Len(sent'[c])
         /\ c \notin cancelled /\ SocketOf[c] \in open
              => sent'[c] # <<>> /\ sent'[c][Len(sent'[c])] # "yield"
<1>1. sent[c] \in Seq({"yield", "done", "error", "complete"})
  BY DEF TypeOK
<1>2. \A n \in 1..Len(sent[c]) : sent[c][n] = "yield"
  BY DEF SentFor
<1>3. CASE Sends(c, f)
  <2>1. /\ \A d \in Calls : d # c => sent'[d] = sent[d]
        /\ sent'[c] = IF SocketOf[c] \in open THEN Append(sent[c], f) ELSE sent[c]
    BY <1>3, SendsOne
  <2>2. /\ Append(sent[c], f) # <<>> /\ Append(sent[c], f)[Len(Append(sent[c], f))] = f
        /\ \A n \in 1..Len(Append(sent[c], f)) :
             n # Len(Append(sent[c], f)) => Append(sent[c], f)[n] = "yield"
    BY <1>1, <1>2, AppendToYields
  <2> QED
    BY <1>2, <2>1, <2>2
<1>4. CASE UNCHANGED sent /\ c \in cancelled
  BY <1>2, <1>4
<1> QED
  BY <1>3, <1>4 DEF Answer

\* What a step does to one call leaves the frames of the others in order.
LEMMA OthersKeep ==
  ASSUME Inv, NEW c \in Calls, NEW x, at' = [at EXCEPT ![c] = x], UNCHANGED id,
         cancelled \subseteq cancelled', open' \subseteq open,
         \A d \in Calls : d # c => sent'[d] = sent[d], SentFor(c)'
  PROVE  SentSoFar'
<1> SUFFICES ASSUME NEW d \in Calls, d # c PROVE SentFor(d)'
  BY DEF SentSoFar
<1>1. at'[d] = at[d] /\ id'[d] = id[d] /\ sent'[d] = sent[d]
  BY DEF Inv, TypeOK
<1>2. SentFor(d)
  BY DEF Inv, SentSoFar
<1> QED
  BY <1>1, <1>2 DEF SentFor, Correlated

\* A call that ends with a last frame.
LEMMA EndsAnswered ==
  ASSUME Inv, NEW c \in Calls, NEW x \in {"closing", "over"}, NEW f \in {"done", "error"},
         at[c] \notin {"closing", "over"}, at' = [at EXCEPT ![c] = x], UNCHANGED id,
         cancelled \subseteq cancelled', open' \subseteq open,
         Correlated(c) => Sends(c, f) \/ Answer(c, f),
         ~Correlated(c) => UNCHANGED sent \/ Sends(c, "complete")
  PROVE  SentSoFar'
<1>1. at'[c] = x /\ id'[c] = id[c] /\ SentFor(c) /\ TypeOK
  BY DEF Inv, TypeOK, SentSoFar
<1>2. CASE Correlated(c)
  <2>1. /\ \A d \in Calls : d # c => sent'[d] = sent[d]
        /\ \A n \in 1..Len(sent'[c]) : sent'[c][n] # "yield" => n = Len(sent'[c])
        /\ c \notin cancelled /\ SocketOf[c] \in open
              => sent'[c] # <<>> /\ sent'[c][Len(sent'[c])] # "yield"
    BY <1>1, <1>2, LastFrame
  <2>2. SentFor(c)'
    BY <1>1, <2>1 DEF SentFor
  <2> QED
    BY <2>1, <2>2, OthersKeep
<1>3. CASE ~Correlated(c)
  <2>1. \A d \in Calls : d # c => sent'[d] = sent[d]
    BY <1>1, <1>3, SendsOne
  <2>2. SentFor(c)'
    BY <1>1, <1>3 DEF SentFor, Correlated
  <2> QED
    BY <2>1, <2>2, OthersKeep
<1> QED
  BY <1>2, <1>3

\* Each call gets its yields and its last frame.
LEMMA SentKept == Inv /\ [Next]_vars => SentSoFar'
<1> SUFFICES ASSUME Inv, [Next]_vars PROVE SentSoFar'
  OBVIOUS
<1>0. TypeOK /\ \A c \in Calls : SentFor(c)
  BY DEF Inv, SentSoFar
<1>1. ASSUME NEW c \in Calls, Receive(c) PROVE SentSoFar'
  <2>1. PICK i \in IdsOf[c] : id' = [id EXCEPT ![c] = i]
    BY <1>1 DEF Receive
  <2>2. at' = [at EXCEPT ![c] = "authorizing"] /\ at[c] = "new" /\ UNCHANGED <<sent, cancelled, open>>
    BY <1>1 DEF Receive, cancelVars
  <2>3. \A d \in Calls : d # c => at'[d] = at[d] /\ id'[d] = id[d]
    BY <1>0, <2>1, <2>2 DEF TypeOK
  <2>4. sent[c] = <<>> /\ at'[c] = "authorizing"
    BY <1>0, <2>2 DEF SentFor, TypeOK
  <2> QED
    BY <1>0, <2>2, <2>3, <2>4 DEF SentSoFar, SentFor, Correlated
<1>2. ASSUME NEW c \in Calls, Deny(c) \/ Reject(c) PROVE SentSoFar'
  <2>1. /\ at' = [at EXCEPT ![c] = "over"] /\ at[c] = "authorizing" /\ UNCHANGED id
        /\ cancelled \subseteq cancelled' /\ open' \subseteq open
    BY <1>2 DEF Deny, Reject, Retire, cancelVars
  <2>2. IF Correlated(c) THEN Sends(c, "error") ELSE UNCHANGED sent
    BY <1>2 DEF Deny, Reject
  <2> QED
    BY <2>1, <2>2, EndsAnswered
<1>3. ASSUME NEW c \in Calls, Enqueue(c) PROVE SentSoFar'
  <2>1. at[c] = "authorizing" /\ UNCHANGED <<id, cancelled, open>>
    BY <1>3 DEF Enqueue
  <2>2. CASE Correlated(c) /\ SameKey(c) # {}
    <3>1. at' = [at EXCEPT ![c] = "over"] /\ Sends(c, "error")
      BY <1>3, <2>2 DEF Enqueue
    <3> QED
      BY <2>1, <2>2, <3>1, EndsAnswered
  <2>3. CASE ~(Correlated(c) /\ SameKey(c) # {})
    <3>1. at' = [at EXCEPT ![c] = "queued"] /\ UNCHANGED sent
      BY <1>3, <2>3 DEF Enqueue
    <3>2. SentFor(c)'
      BY <1>0, <2>1, <3>1 DEF SentFor, Correlated, TypeOK
    <3> QED
      BY <2>1, <3>1, <3>2, OthersKeep
  <2> QED
    BY <2>2, <2>3
<1>4. ASSUME NEW c \in Calls, Cancel(c) PROVE SentSoFar'
  <2>1. UNCHANGED <<at, id, sent, open>> /\ cancelled \subseteq cancelled'
    BY <1>4 DEF Cancel
  <2> QED
    BY <1>0, <2>1 DEF SentSoFar, SentFor, Correlated
<1>5. ASSUME NEW c \in Calls, Skip(c) PROVE SentSoFar'
  <2>1. at' = [at EXCEPT ![c] = "over"] /\ at[c] = "queued" /\ UNCHANGED <<id, cancelled, open>>
    BY <1>5 DEF Skip, Leave, MyTurn
  <2>2. CASE c \in cancelled \/ ~Correlated(c)
    <3>1. UNCHANGED sent
      BY <1>5, <2>2 DEF Skip
    <3>2. Correlated(c) => Answer(c, "error")
      BY <2>2, <3>1 DEF Answer
    <3> QED
      BY <2>1, <3>1, <3>2, EndsAnswered
  <2>3. CASE c \notin cancelled /\ Correlated(c)
    <3>1. Sends(c, "error")
      BY <1>5, <2>3 DEF Skip
    <3> QED
      BY <2>1, <2>3, <3>1, EndsAnswered
  <2> QED
    BY <2>2, <2>3
<1>6. ASSUME NEW c \in Calls, NEW x, x \notin {"new", "closing", "over"}, at[c] \notin {"closing", "over"},
             at' = [at EXCEPT ![c] = x], UNCHANGED <<id, sent, cancelled, open>>
      PROVE  SentSoFar'
  <2>1. SentFor(c)'
    BY <1>0, <1>6 DEF SentFor, Correlated, TypeOK
  <2> QED
    BY <1>6, <2>1, OthersKeep
<1>7. ASSUME NEW c \in Calls, Start(c) \/ Invoke(c) PROVE SentSoFar'
  <2>1. CASE Start(c)
    BY <1>6, <2>1 DEF Start, MyTurn, cancelVars
  <2>2. CASE Invoke(c)
    BY <1>6, <2>2 DEF Invoke, cancelVars
  <2> QED
    BY <1>7, <2>1, <2>2
<1>8. ASSUME NEW c \in Calls, NEW f \in {"done", "error"}, EndTurn(c, f), at[c] \in {"checks", "running"}
      PROVE  SentSoFar'
  <2>1. at' = [at EXCEPT ![c] = "over"] /\ UNCHANGED <<id, cancelled, open>> /\ Answer(c, f)
    BY <1>8 DEF EndTurn, Leave
  <2>2. ~Correlated(c) => Sends(c, "complete")
    BY <2>1 DEF Answer
  <2> QED
    BY <1>8, <2>1, <2>2, EndsAnswered
<1>9. ASSUME NEW c \in Calls, Stream(c) PROVE SentSoFar'
  <2>1. at[c] = "running" /\ UNCHANGED <<id, sent, cancelled, open>> /\ Correlated(c)
    BY <1>9 DEF Stream, cancelVars
  <2>2. CASE c \in cancelled
    <3>1. at' = [at EXCEPT ![c] = "closing"]
      BY <1>9, <2>2 DEF Stream
    <3>2. Answer(c, "done")
      BY <2>1, <2>2 DEF Answer
    <3> QED
      BY <2>1, <3>1, <3>2, EndsAnswered
  <2>3. CASE c \notin cancelled
    <3>1. at' = [at EXCEPT ![c] = "stepping"]
      BY <1>9, <2>3 DEF Stream
    <3> QED
      BY <1>6, <2>1, <3>1
  <2> QED
    BY <2>2, <2>3
<1>10. ASSUME NEW c \in Calls, Yield(c) PROVE SentSoFar'
  <2>1. UNCHANGED <<at, id, cancelled, open>> /\ at[c] = "stepping" /\ Sends(c, "yield")
    BY <1>10 DEF Yield, cancelVars
  <2>2. at' = [at EXCEPT ![c] = "stepping"]
    BY <1>0, <2>1 DEF TypeOK
  <2>3. sent[c] \in Seq({"yield", "done", "error", "complete"})
    BY <1>0 DEF TypeOK
  <2>6. Correlated(c) => \A n \in 1..Len(sent[c]) : sent[c][n] = "yield"
    BY <1>0, <2>1 DEF SentFor
  <2>7. Correlated(c) => \A n \in 1..Len(sent'[c]) : sent'[c][n] = "yield"
    <3>1. Correlated(c) => \A n \in 1..Len(Append(sent[c], "yield")) : Append(sent[c], "yield")[n] = "yield"
      BY <2>3, <2>6, AppendToYields
    <3> QED
      BY <1>0, <2>1, <2>6, <3>1, SendsOne
  <2>4. SentFor(c)'
    BY <2>1, <2>7 DEF SentFor, Correlated
  <2>5. \A d \in Calls : d # c => sent'[d] = sent[d]
    BY <1>0, <2>1, SendsOne
  <2> QED
    BY <2>1, <2>2, <2>4, <2>5, OthersKeep
<1>11. ASSUME NEW c \in Calls, EndStream(c) PROVE SentSoFar'
  <2>1. /\ at' = [at EXCEPT ![c] = "closing"] /\ at[c] = "stepping"
        /\ UNCHANGED <<id, cancelled, open>>
    BY <1>11 DEF EndStream, cancelVars
  <2>2. PICK f \in {"done", "error"} : Answer(c, f)
    BY <1>11 DEF EndStream
  <2>3. ~Correlated(c) => Sends(c, "complete")
    BY <2>2 DEF Answer
  <2> QED
    BY <2>1, <2>2, <2>3, EndsAnswered
<1>12. ASSUME NEW c \in Calls, Closed(c) PROVE SentSoFar'
  <2>1. at' = [at EXCEPT ![c] = "over"] /\ at[c] = "closing" /\ UNCHANGED <<id, sent, cancelled, open>>
    BY <1>12 DEF Closed, Leave
  <2>2. SentFor(c)'
    BY <1>0, <2>1 DEF SentFor, Correlated, TypeOK
  <2> QED
    BY <2>1, <2>2, OthersKeep
<1>13. ASSUME NEW s \in Sockets, Close(s) PROVE SentSoFar'
  <2>1. UNCHANGED <<at, id, sent>> /\ cancelled \subseteq cancelled' /\ open' \subseteq open
    BY <1>13 DEF Close, Retire
  <2> QED
    BY <1>0, <2>1 DEF SentSoFar, SentFor, Correlated
<1>14. CASE UNCHANGED vars
  BY <1>0, <1>14 DEF SentSoFar, SentFor, Correlated, vars, cancelVars
<1> QED
  BY <1>1, <1>2, <1>3, <1>4, <1>5, <1>7, <1>8, <1>9, <1>10, <1>11, <1>12, <1>13, <1>14
     DEF Next, ChecksFail, Return

-----------------------------------------------------------------------------
(* The theorems *)

\* Nothing was called yet.
LEMMA InitInv == Init => Inv
<1> SUFFICES ASSUME Init PROVE Inv
  OBVIOUS
<1> USE QueueAssumption DEF Init
<1>1. TypeOK
  <2>1. sent \in [Calls -> Seq({"yield", "done", "error", "complete"})]
    OBVIOUS
  <2> QED
    BY <2>1 DEF TypeOK
<1>2. Live = {} /\ Active = {} /\ Joined = {}
  BY DEF Live, Active, Joined
<1>3. InOrder
  <2> DEFINE rank == [c \in Calls |-> 0]
  <2>1. rank \in [Calls -> Nat]
    OBVIOUS
  <2>2. LineOrder(rank)
    BY <1>2 DEF LineOrder
  <2> QED
    BY <2>1, <2>2 DEF InOrder
<1>4. TurnsEnd
  BY <1>2, FS_EmptySet DEF TurnsEnd
<1>5. SlotsOwned /\ HooksNameCalls
  BY <1>2 DEF SlotsOwned, HooksNameCalls
<1>6. SentSoFar
  BY DEF SentSoFar, SentFor, Correlated
<1> QED
  BY <1>1, <1>3, <1>4, <1>5, <1>6 DEF Inv

\* Inv holds in every state: the turns of a line, the owner of the slots, the hooks
\* and the frames sent agree with one another, whatever calls, streams,
\* cancellations and closing sockets interleave.
THEOREM Invariance == Spec => []Inv
<1>1. Inv /\ [Next]_vars => Inv'
  BY TypeKept, OrderKept, TurnsKept, HooksKept, SentKept DEF Inv
<1> QED
  BY InitInv, <1>1, PTL DEF Spec

\* Every variable of ActionQueue keeps its type.
THEOREM TypeCorrect == Spec => []TypeOK
BY Invariance, PTL DEF Inv

\* A call of _runAction that reads this.user or this.c after an await gets its own
\* caller or an error, and never an error inside its identity scope.
THEOREM IdentityIsOwn == Spec => []OwnIdentity
<1>1. Inv => OwnIdentity
  <2> SUFFICES ASSUME Inv PROVE OwnIdentity
    OBVIOUS
  <2>1. TypeOK /\ InOrder /\ TurnsEnd /\ SlotsOwned
    BY DEF Inv
  <2>2. detached # {} => streams > 0
    <3>1. detached # {} => streams # 0
      BY <2>1, FS_EmptySet DEF TurnsEnd
    <3>2. streams \in Nat
      BY <2>1 DEF TypeOK
    <3> QED
      BY <3>1, <3>2
  <2>3. detached = {} => streams = 0 /\ ~(streams > 0)
    BY <2>1, FS_EmptySet DEF TurnsEnd
  <2>4. ASSUME NEW c \in Active PROVE Scoped(c) = c /\ Ambient \in {c, Refused}
    <3>1. CASE streams > 0
      BY <2>1, <2>3, <3>1 DEF Scoped, Ambient, TurnsEnd
    <3>2. CASE ~(streams > 0)
      BY <2>1, <2>2, <3>2 DEF Scoped, Ambient, SlotsOwned
    <3> QED
      BY <3>1, <3>2
  <2>5. ASSUME NEW c \in Calls, at[c] = "checks" PROVE slots = c
    BY <2>1, <2>5 DEF TurnsEnd, SlotsOwned, Active
  <2>6. ASSUME Active = {} PROVE slots = None /\ streams = 0
    BY <2>1, <2>3, <2>6 DEF TurnsEnd, SlotsOwned
  <2> QED
    BY <2>4, <2>5, <2>6 DEF OwnIdentity
<1> QED
  BY Invariance, <1>1, PTL

\* A call with a request ID gets its yields, then at most one last frame, and that
\* one by the end of _runAction unless it was cancelled or its socket closed.
THEOREM AnsweredOnce == Spec => []OneAnswer
<1>1. Inv => OneAnswer
  BY DEF Inv, SentSoFar, SentFor, OneAnswer
<1> QED
  BY Invariance, <1>1, PTL

\* Until it is over, a call of an open socket has the one hook of rpcCancellations
\* with its request ID.
THEOREM CancellableToTheEnd == Spec => []Cancellable
<1>1. Inv => Cancellable
  <2> SUFFICES ASSUME Inv, NEW c \in Calls, Correlated(c), c \in Live, SocketOf[c] \in open
               PROVE  c \in hooks /\ SameKey(c) = {c}
    BY DEF Cancellable, Live
  <2>1. c \in hooks
    BY DEF Inv, HooksNameCalls
  <2> QED
    BY <2>1 DEF Inv, HooksNameCalls, SameKey
<1> QED
  BY Invariance, <1>1, PTL

\* A step of _runAction sends nothing for a cancelled call and does not invoke it.
THEOREM CancelledIsSilent == Spec => CancelHolds
<1> DEFINE A == \A c \in cancelled :
                  /\ sent'[c] = sent[c]
                  /\ at[c] \in {"queued", "checks"} => at'[c] # "running"
<1>1. Inv /\ [Next]_vars => [A]_vars
  <2> SUFFICES ASSUME Inv, Next PROVE A
    OBVIOUS
  <2> SUFFICES ASSUME NEW c \in cancelled
               PROVE  /\ sent'[c] = sent[c]
                      /\ at[c] \in {"queued", "checks"} => at'[c] # "running"
    OBVIOUS
  <2>1. c \in Calls /\ Correlated(c) /\ at[c] \notin {"new", "authorizing"} /\ TypeOK
    BY DEF Inv, HooksNameCalls, TypeOK
  <2>2. ASSUME NEW d \in Calls, NEW f, d # c, Sends(d, f) PROVE sent'[c] = sent[c]
    BY <2>1, <2>2, SendsOne
  <2>3. ASSUME NEW d \in Calls, NEW f, Answer(d, f) PROVE sent'[c] = sent[c]
    BY <2>1, <2>2, <2>3 DEF Answer
  <2>4. ASSUME NEW d \in Calls, NEW x, x # "running", at' = [at EXCEPT ![d] = x]
        PROVE  at[c] \in {"queued", "checks"} => at'[c] # "running"
    BY <2>1, <2>4 DEF TypeOK
  <2>5. ASSUME NEW d \in Calls, Receive(d) \/ Cancel(d) \/ Start(d) \/ Stream(d) \/ Closed(d)
        PROVE  /\ sent'[c] = sent[c]
               /\ at[c] \in {"queued", "checks"} => at'[c] # "running"
    <3>1. sent' = sent /\ \E x \in {"authorizing", "checks", "closing", "stepping", "over"} :
            at' = [at EXCEPT ![d] = x] \/ at' = at
      BY <2>5 DEF Receive, Cancel, Start, Stream, Closed, Leave
    <3> QED
      BY <2>4, <3>1
  <2>6. ASSUME NEW d \in Calls, Deny(d) \/ Reject(d) \/ Enqueue(d)
        PROVE  /\ sent'[c] = sent[c]
               /\ at[c] \in {"queued", "checks"} => at'[c] # "running"
    <3>1. d # c
      BY <2>1, <2>6 DEF Deny, Reject, Enqueue
    <3>2. Sends(d, "error") \/ UNCHANGED sent
      BY <2>6 DEF Deny, Reject, Enqueue
    <3>3. at' = [at EXCEPT ![d] = "over"] \/ at' = [at EXCEPT ![d] = "queued"]
      BY <2>6 DEF Deny, Reject, Enqueue
    <3> QED
      BY <2>2, <2>4, <3>1, <3>2, <3>3
  <2>7. ASSUME NEW d \in Calls, Skip(d)
        PROVE  /\ sent'[c] = sent[c]
               /\ at[c] \in {"queued", "checks"} => at'[c] # "running"
    <3>1. UNCHANGED sent \/ (d # c /\ Sends(d, "error"))
      BY <2>7 DEF Skip
    <3>2. at' = [at EXCEPT ![d] = "over"]
      BY <2>7 DEF Skip, Leave
    <3> QED
      BY <2>2, <2>4, <3>1, <3>2
  <2>8. ASSUME NEW d \in Calls, ChecksFail(d) \/ Return(d)
        PROVE  /\ sent'[c] = sent[c]
               /\ at[c] \in {"queued", "checks"} => at'[c] # "running"
    <3>1. \E f \in {"done", "error"} : Answer(d, f) /\ at' = [at EXCEPT ![d] = "over"]
      BY <2>8 DEF ChecksFail, Return, EndTurn, Leave
    <3> QED
      BY <2>3, <2>4, <3>1
  <2>9. ASSUME NEW d \in Calls, Invoke(d)
        PROVE  /\ sent'[c] = sent[c]
               /\ at[c] \in {"queued", "checks"} => at'[c] # "running"
    BY <2>1, <2>9 DEF Invoke, TypeOK
  <2>10. ASSUME NEW d \in Calls, Yield(d)
        PROVE  /\ sent'[c] = sent[c]
               /\ at[c] \in {"queued", "checks"} => at'[c] # "running"
    <3>1. d # c /\ Sends(d, "yield") /\ UNCHANGED at
      BY <2>10 DEF Yield
    <3> QED
      BY <2>2, <3>1
  <2>11. ASSUME NEW d \in Calls, EndStream(d)
        PROVE  /\ sent'[c] = sent[c]
               /\ at[c] \in {"queued", "checks"} => at'[c] # "running"
    <3>1. \E f \in {"done", "error"} : Answer(d, f) /\ at' = [at EXCEPT ![d] = "closing"]
      BY <2>11 DEF EndStream
    <3> QED
      BY <2>3, <2>4, <3>1
  <2>12. ASSUME NEW s \in Sockets, Close(s)
        PROVE  /\ sent'[c] = sent[c]
               /\ at[c] \in {"queued", "checks"} => at'[c] # "running"
    BY <2>12 DEF Close
  <2> QED
    BY <2>5, <2>6, <2>7, <2>8, <2>9, <2>10, <2>11, <2>12 DEF Next
<1> QED
  BY Invariance, <1>1, PTL DEF Spec, CancelHolds
=============================================================================
