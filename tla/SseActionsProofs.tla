--------------------------- MODULE SseActionsProofs ---------------------------
(***************************************************************************)
(* Proofs about SseActions for any number of operations, streams, frames   *)
(* and cancellations: the slot of a scope is never shared or leaked, no    *)
(* published write is lost, a cancelled waiter is never called back, and   *)
(* the whole implements ScopeContract.                                     *)
(* The argument for the writes: only the owner of the slot publishes, and  *)
(* the owner's instance always contains the snapshot, because it was read  *)
(* when the slot was handed over and nobody has published since.           *)
(***************************************************************************)
EXTENDS SseActions, FiniteSetTheorems, SequenceTheorems, TLAPS

\* The owner's instance contains everything that has been published.
OwnersKnow == \A o \in Ops : Owner(o) => state \subseteq inst[o]

\* A read of a stream is under way only while the stream is open, or after it
\* was closed under the read.
PullsAreStreams == \A o \in pulling : pc[o] \in {"stream", "over"}

\* An operation is cancelled in line, where it ends at once, or as the owner.
CancelledIsPast == \A o \in cancelled : pc[o] \notin {"new", "sent", "queued"}

Inv ==
  /\ TypeOK
  /\ SlotConsistent
  /\ IsFiniteSet(registered)
  /\ OwnersKnow
  /\ PullsAreStreams
  /\ CancelledIsPast

-----------------------------------------------------------------------------
(* The line *)

InLine(o, q) == \E n \in 1..Len(q) : q[n] = o
Distinct(q) == \A m, n \in 1..Len(q) : q[m] = q[n] => m = n

\* Joining the line.
LEMMA AppendToLine ==
  ASSUME NEW q \in Seq(Ops), NEW o \in Ops, Distinct(q), ~InLine(o, q)
  PROVE  /\ Append(q, o) \in Seq(Ops)
         /\ Distinct(Append(q, o))
         /\ \A x \in Ops : InLine(x, Append(q, o)) <=> InLine(x, q) \/ x = o
<1> DEFINE r == Append(q, o)
<1>1. /\ r \in Seq(Ops)
      /\ Len(r) = Len(q) + 1 /\ Len(q) \in Nat
      /\ \A n \in 1..Len(q) : r[n] = q[n]
      /\ r[Len(q) + 1] = o
  BY AppendProperties
<1> HIDE DEF r
<1>2. Distinct(r)
  BY <1>1 DEF Distinct, InLine
<1>3. \A x \in Ops : InLine(x, r) <=> InLine(x, q) \/ x = o
  BY <1>1 DEF InLine
<1> QED
  BY <1>1, <1>2, <1>3 DEF r

\* The head of the line enters.
LEMMA TailOfLine ==
  ASSUME NEW q \in Seq(Ops), q # <<>>, Distinct(q)
  PROVE  /\ Tail(q) \in Seq(Ops) /\ Head(q) \in Ops
         /\ Distinct(Tail(q))
         /\ InLine(Head(q), q)
         /\ \A x \in Ops : InLine(x, Tail(q)) <=> InLine(x, q) /\ x # Head(q)
<1> DEFINE r == Tail(q)
<1>1. /\ r \in Seq(Ops) /\ Head(q) \in Ops /\ Head(q) = q[1]
      /\ Len(q) \in Nat /\ Len(q) >= 1 /\ Len(r) = Len(q) - 1
      /\ \A n \in 1..Len(r) : r[n] = q[n + 1]
  BY HeadTailProperties, EmptySeq, LenProperties
<1> HIDE DEF r
<1>2. Distinct(r)
  BY <1>1 DEF Distinct
<1>3. InLine(Head(q), q)
  BY <1>1 DEF InLine
<1>4. ASSUME NEW x \in Ops PROVE InLine(x, r) <=> InLine(x, q) /\ x # Head(q)
  <2>1. ASSUME InLine(x, r) PROVE InLine(x, q) /\ x # Head(q)
    BY <1>1, <2>1 DEF InLine, Distinct
  <2>2. ASSUME InLine(x, q), x # Head(q) PROVE InLine(x, r)
    <3>1. PICK n \in 1..Len(q) : q[n] = x
      BY <2>2 DEF InLine
    <3>2. n - 1 \in 1..Len(r) /\ r[n - 1] = q[n]
      BY <1>1, <2>2, <3>1
    <3> QED
      BY <3>1, <3>2 DEF InLine
  <2> QED
    BY <2>1, <2>2
<1> QED
  BY <1>1, <1>2, <1>3, <1>4 DEF r

\* A cancelled operation leaves the line.
LEMMA WithoutFromLine ==
  ASSUME NEW q \in Seq(Ops), NEW o \in Ops, Distinct(q)
  PROVE  /\ Without(q, o) \in Seq(Ops)
         /\ Distinct(Without(q, o))
         /\ \A x \in Ops : InLine(x, Without(q, o)) <=> InLine(x, q) /\ x # o
<1>1. CASE ~InLine(o, q)
  BY <1>1 DEF Without, InLine
<1>2. CASE InLine(o, q)
  <2> DEFINE n == CHOOSE m \in 1..Len(q) : q[m] = o
             a == SubSeq(q, 1, n - 1)
             b == SubSeq(q, n + 1, Len(q))
             r == a \o b
  <2>1. n \in 1..Len(q) /\ q[n] = o /\ Len(q) \in Nat
    BY <1>2, LenProperties DEF InLine
  <2>2. Without(q, o) = r
    BY <1>2 DEF Without, InLine
  <2> HIDE DEF n
  <2>3. /\ a \in Seq(Ops) /\ Len(a) = n - 1
        /\ \A m \in 1..(n - 1) : a[m] = q[m]
    BY <2>1, SubSeqProperties
  <2>4. /\ b \in Seq(Ops) /\ Len(b) = Len(q) - n
        /\ \A m \in 1..(Len(q) - n) : b[m] = q[n + m]
    BY <2>1, SubSeqProperties
  <2> HIDE DEF a, b
  <2>5. /\ r \in Seq(Ops) /\ Len(r) = Len(q) - 1
        /\ \A m \in 1..(Len(q) - 1) : r[m] = IF m < n THEN q[m] ELSE q[m + 1]
    <3>1. /\ r \in Seq(Ops) /\ Len(r) = Len(a) + Len(b)
          /\ \A m \in 1..(Len(a) + Len(b)) :
               r[m] = IF m <= Len(a) THEN a[m] ELSE b[m - Len(a)]
      BY <2>3, <2>4, ConcatProperties
    <3> HIDE DEF r
    <3>2. ASSUME NEW m \in 1..(Len(q) - 1)
          PROVE  r[m] = IF m < n THEN q[m] ELSE q[m + 1]
      <4>. m \in 1..(Len(a) + Len(b)) /\ m \in Int /\ n \in Int
        BY <2>1, <2>3, <2>4
      <4>1. CASE m < n
        <5>1. m \in 1..(n - 1) /\ m <= Len(a)
          BY <2>1, <2>3, <4>1
        <5>2. r[m] = a[m]
          BY <3>1, <5>1
        <5> QED
          BY <2>3, <4>1, <5>1, <5>2
      <4>2. CASE m >= n
        <5>1. m - (n - 1) \in 1..(Len(q) - n) /\ ~(m <= Len(a))
          BY <2>1, <2>3, <4>2
        <5>2. r[m] = b[m - (n - 1)]
          BY <2>3, <3>1, <5>1
        <5>3. n + (m - (n - 1)) = m + 1
          BY <2>1
        <5> QED
          BY <2>4, <4>2, <5>1, <5>2, <5>3
      <4> QED
        BY <2>1, <4>1, <4>2
    <3> QED
      BY <2>1, <2>3, <2>4, <3>1, <3>2
  <2> HIDE DEF r
  <2>6. Distinct(r)
    BY <2>1, <2>5 DEF Distinct
  <2>7. ASSUME NEW x \in Ops PROVE InLine(x, r) <=> InLine(x, q) /\ x # o
    <3>1. ASSUME InLine(x, r) PROVE InLine(x, q) /\ x # o
      BY <2>1, <2>5, <3>1 DEF InLine, Distinct
    <3>2. ASSUME InLine(x, q), x # o PROVE InLine(x, r)
      <4>1. PICK m \in 1..Len(q) : q[m] = x
        BY <3>2 DEF InLine
      <4>2. CASE m < n
        BY <2>1, <2>5, <4>1, <4>2 DEF InLine
      <4>3. CASE m > n
        <5>1. m - 1 \in 1..Len(r) /\ r[m - 1] = x
          BY <2>1, <2>5, <4>1, <4>3
        <5> QED
          BY <5>1 DEF InLine
      <4> QED
        BY <2>1, <3>2, <4>1, <4>2, <4>3
    <3> QED
      BY <3>1, <3>2
  <2> QED
    BY <2>2, <2>5, <2>6, <2>7
<1> QED
  BY <1>1, <1>2

-----------------------------------------------------------------------------
(* The slot *)

\* SlotConsistent in the words of the line.
LEMMA SlotAsLine ==
  SlotConsistent <=>
    /\ active # NoOp => Owner(active)
    /\ active = NoOp => queue = <<>>
    /\ \A o \in Ops : Owner(o) => o = active
    /\ \A o \in Ops : pc[o] = "queued" <=> InLine(o, queue)
    /\ Distinct(queue)
    /\ registered = {o \in Ops : Owner(o) \/ pc[o] = "queued"}
    /\ Cardinality(registered) <= MaxPending
  BY DEF SlotConsistent, InLine, Distinct

\* A request moves on without touching the slot: within the steps of the owner,
\* or outside the slot.
Moves(o, step) ==
  /\ pc' = [pc EXCEPT ![o] = step]
  /\ UNCHANGED <<registered, queue, active>>
  /\ \/ Owner(o) /\ step \in OwnerSteps
     \/ pc[o] \in {"new", "sent"} /\ step \in {"sent", "over"}

LEMMA MovesKeepSlot ==
  ASSUME TypeOK, SlotConsistent, NEW o \in Ops, NEW step, Moves(o, step)
  PROVE  /\ SlotConsistent'
         /\ pc' \in [Ops -> Steps]
         /\ \A x \in Ops : Owner(x)' <=> Owner(x)
<1>1. pc' \in [Ops -> Steps]
  BY DEF TypeOK, Moves, Steps, OwnerSteps
<1>2. \A x \in Ops : Owner(x)' <=> Owner(x)
  BY DEF TypeOK, Moves, Owner, OwnerSteps
<1>3. \A x \in Ops : pc'[x] = "queued" <=> pc[x] = "queued"
  BY DEF TypeOK, Moves, Owner, OwnerSteps
<1>4. active # NoOp => Owner(active)'
  <2>1. active' = active
    BY DEF Moves
  <2>2. active # NoOp => pc[active] \in OwnerSteps /\ active \in Ops
    BY DEF TypeOK, SlotConsistent, Owner
  <2>3. active # NoOp => pc'[active] \in OwnerSteps
    BY <1>2, <2>2 DEF Owner
  <2> QED
    BY <2>1, <2>3 DEF Owner
<1>5. registered' = {x \in Ops : Owner(x)' \/ pc'[x] = "queued"}
  BY <1>2, <1>3 DEF SlotConsistent, Moves
<1> QED
  BY <1>1, <1>2, <1>3, <1>4, <1>5 DEF SlotConsistent, Moves

\* An operation ends; the next in line, if it was the owner, enters.
LEMMA FinishEffect ==
  ASSUME TypeOK, SlotConsistent, IsFiniteSet(registered), NEW o \in Ops,
         o \in registered, Finish(o, "over"), state' \subseteq Writes
  PROVE  /\ SlotConsistent' /\ IsFiniteSet(registered')
         /\ registered' \subseteq Ops /\ queue' \in Seq(Ops)
         /\ active' \in Ops \union {NoOp}
         /\ pc' \in [Ops -> Steps] /\ inst' \in [Ops -> SUBSET Writes]
         /\ pc'[o] = "over"
         /\ \A x \in Ops \ {o} : \/ pc'[x] = pc[x] /\ inst'[x] = inst[x]
                                 \/ /\ pc[x] = "queued" /\ pc'[x] = "calling"
                                    /\ inst'[x] = state'
                                    /\ active = o
<1> USE OpsAssumption
<1>1. IsFiniteSet(registered \ {o}) /\ Cardinality(registered \ {o}) <= MaxPending
  <2>1. /\ IsFiniteSet(registered \ {o})
        /\ Cardinality(registered \ {o}) = Cardinality(registered) - 1
    BY FS_RemoveElement
  <2>2. Cardinality(registered) \in Nat
    BY FS_CardinalityType
  <2> QED
    BY <2>1, <2>2 DEF SlotConsistent
<1>2. registered' = registered \ {o}
  BY DEF Finish
<1>3. CASE active # o
  <2>1. pc[o] = "queued" /\ InLine(o, queue) /\ active # NoOp
    <3>1. pc[o] = "queued"
      BY <1>3, SlotAsLine
    <3>2. InLine(o, queue)
      BY <3>1, SlotAsLine
    <3>3. active = NoOp => Len(queue) = 0
      BY SlotAsLine
    <3> QED
      BY <3>1, <3>2, <3>3 DEF InLine
  <2>2. queue' = Without(queue, o) /\ pc' = [pc EXCEPT ![o] = "over"]
        /\ UNCHANGED <<active, inst>>
    BY <1>3 DEF Finish
  <2>3. /\ queue' \in Seq(Ops) /\ Distinct(queue')
        /\ \A x \in Ops : InLine(x, queue') <=> InLine(x, queue) /\ x # o
    BY <2>2, WithoutFromLine, SlotAsLine DEF TypeOK
  <2>4. pc' \in [Ops -> Steps] /\ pc'[o] = "over"
        /\ \A x \in Ops \ {o} : pc'[x] = pc[x]
    BY <2>2 DEF TypeOK, Steps
  <2>5. \A x \in Ops : Owner(x)' <=> Owner(x)
    BY <2>1, <2>4 DEF Owner, OwnerSteps
  <2>6. SlotConsistent'
    <3>1. active' # NoOp => Owner(active)'
      BY <2>2, <2>5, SlotAsLine DEF TypeOK
    <3>2. active' # NoOp
      BY <2>1, <2>2
    <3>3. \A x \in Ops : Owner(x)' => x = active'
      BY <2>2, <2>5, SlotAsLine
    <3>4. \A x \in Ops : pc'[x] = "queued" <=> InLine(x, queue')
      BY <2>3, <2>4, SlotAsLine
    <3>5. registered' = {x \in Ops : Owner(x)' \/ pc'[x] = "queued"}
      BY <1>2, <2>1, <2>4, <2>5, SlotAsLine DEF Owner, OwnerSteps
    <3>6. Cardinality(registered') <= MaxPending
      BY <1>1, <1>2
    <3> QED
      BY <2>3, <3>1, <3>2, <3>3, <3>4, <3>5, <3>6 DEF SlotConsistent, InLine, Distinct
  <2> QED
    BY <1>1, <1>2, <2>2, <2>3, <2>4, <2>6 DEF TypeOK
<1>4. CASE active = o /\ queue = <<>>
  <2>1. active' = NoOp /\ pc' = [pc EXCEPT ![o] = "over"] /\ UNCHANGED <<queue, inst>>
    BY <1>4 DEF Finish
  <2>2. pc' \in [Ops -> Steps] /\ pc'[o] = "over"
        /\ \A x \in Ops \ {o} : pc'[x] = pc[x]
    BY <2>1 DEF TypeOK, Steps
  <2>3. \A x \in Ops : ~Owner(x)'
    BY <1>4, <2>2, SlotAsLine DEF Owner, OwnerSteps
  <2>4. \A x \in Ops : pc'[x] # "queued" /\ ~InLine(x, queue')
    <3>1. \A x \in Ops : ~InLine(x, queue)
      BY <1>4 DEF InLine
    <3>2. \A x \in Ops : pc[x] # "queued"
      BY <3>1, SlotAsLine
    <3> QED
      BY <2>1, <2>2, <3>1, <3>2
  <2>5. registered' = {x \in Ops : Owner(x)' \/ pc'[x] = "queued"}
    <3>1. \A x \in registered : x = o
      BY <1>4, <2>2, <2>4, SlotAsLine
    <3> QED
      BY <1>2, <2>3, <2>4, <3>1
  <2>6. SlotConsistent'
    BY <1>1, <1>2, <1>4, <2>1, <2>3, <2>4, <2>5, SlotAsLine
      DEF SlotConsistent, InLine, Distinct
  <2> QED
    BY <1>1, <1>2, <2>1, <2>2, <2>6 DEF TypeOK
<1>5. CASE active = o /\ queue # <<>>
  <2> DEFINE h == Head(queue)
  <2>1. /\ Tail(queue) \in Seq(Ops) /\ h \in Ops /\ Distinct(Tail(queue)) /\ InLine(h, queue)
        /\ \A x \in Ops : InLine(x, Tail(queue)) <=> InLine(x, queue) /\ x # h
    BY <1>5, TailOfLine, SlotAsLine DEF TypeOK
  <2>2. /\ queue' = Tail(queue) /\ active' = h
        /\ pc' = [pc EXCEPT ![o] = "over", ![h] = "calling"]
        /\ inst' = [inst EXCEPT ![h] = state']
    BY <1>5 DEF Finish, Enters
  <2> HIDE DEF h
  <2>3. pc[h] = "queued" /\ h # o
    <3>1. pc[h] = "queued"
      BY <2>1, SlotAsLine
    <3>2. Owner(o)
      BY <1>5, OpsAssumption, SlotAsLine
    <3> QED
      BY <3>1, <3>2 DEF Owner, OwnerSteps
  <2>4. /\ pc' \in [Ops -> Steps] /\ pc'[o] = "over" /\ pc'[h] = "calling"
        /\ \A x \in Ops \ {o, h} : pc'[x] = pc[x]
    BY <2>1, <2>2, <2>3 DEF TypeOK, Steps, OwnerSteps
  <2>5. /\ inst' \in [Ops -> SUBSET Writes] /\ inst'[h] = state'
        /\ \A x \in Ops \ {h} : inst'[x] = inst[x]
    BY <2>1, <2>2 DEF TypeOK
  <2>6. \A x \in Ops : Owner(x)' <=> x = h
    BY <1>5, <2>3, <2>4, SlotAsLine DEF Owner, OwnerSteps
  <2>7. \A x \in Ops : pc'[x] = "queued" <=> InLine(x, queue')
    <3>1. ~InLine(o, queue)
      <4>1. Owner(o)
        BY <1>5, SlotAsLine
      <4> QED
        BY <4>1, SlotAsLine DEF Owner, OwnerSteps
    <3> QED
      BY <2>1, <2>2, <2>3, <2>4, <3>1, SlotAsLine
  <2>8. registered' = {x \in Ops : Owner(x)' \/ pc'[x] = "queued"}
    <3>1. \A x \in Ops : x \in registered <=> x = o \/ pc[x] = "queued"
      BY <1>5, SlotAsLine
    <3>2. pc[o] # "queued"
      BY <1>5, SlotAsLine DEF Owner, OwnerSteps
    <3> QED
      BY <1>2, <2>3, <2>4, <2>6, <3>1, <3>2 DEF TypeOK
  <2>9. SlotConsistent'
    <3>1. h \in Ops /\ h # NoOp
      BY <2>1
    <3> QED
      BY <1>1, <1>2, <2>1, <2>2, <2>6, <2>7, <2>8, <3>1 DEF SlotConsistent, InLine, Distinct
  <2> QED
    BY <1>1, <1>2, <1>5, <2>1, <2>2, <2>3, <2>4, <2>5, <2>9 DEF TypeOK
<1> QED
  BY <1>3, <1>4, <1>5

-----------------------------------------------------------------------------
(* What steps do to the invariant *)

\* A request that moves on keeps the invariant when it publishes nothing, or as
\* the owner its own instance, and instances only gain writes.
LEMMA MovesKeepInv ==
  ASSUME Inv, NEW o \in Ops, NEW step, Moves(o, step), pc[o] # "stream",
         UNCHANGED <<cancelled, frame, pulling, abortVars>>,
         inst' \in [Ops -> SUBSET Writes], \A x \in Ops : inst[x] \subseteq inst'[x],
         state' = state \/ (Owner(o) /\ state' = inst[o])
  PROVE  Inv'
<1>1. /\ SlotConsistent' /\ pc' \in [Ops -> Steps]
      /\ \A x \in Ops : Owner(x)' <=> Owner(x)
  BY MovesKeepSlot DEF Inv
<1>2. UNCHANGED <<registered, queue, active>>
  BY DEF Moves
<1>3. TypeOK' /\ IsFiniteSet(registered')
  BY <1>1, <1>2 DEF Inv, TypeOK, abortVars
<1>4. OwnersKnow'
  <2> SUFFICES ASSUME NEW x \in Ops, Owner(x)' PROVE state' \subseteq inst'[x]
    BY DEF OwnersKnow
  <2>1. Owner(x) /\ x = active /\ state \subseteq inst[x]
    BY <1>1 DEF Inv, OwnersKnow, SlotConsistent
  <2>2. Owner(o) => o = x
    BY <2>1 DEF Inv, SlotConsistent
  <2> QED
    BY <2>1, <2>2
<1>5. PullsAreStreams'
  BY DEF Inv, PullsAreStreams, Moves, TypeOK, Owner, OwnerSteps
<1>6. CancelledIsPast'
  BY DEF Inv, CancelledIsPast, Moves, TypeOK, Owner, OwnerSteps
<1> QED
  BY <1>1, <1>3, <1>4, <1>5, <1>6 DEF Inv

\* An operation that ends keeps the invariant, also when it publishes its last
\* frame as the owner.
LEMMA FinishKeepsInv ==
  ASSUME Inv, NEW o \in Ops, o \in registered, Finish(o, "over"),
         state' = state \/ (active = o /\ state' = inst[o]),
         cancelled' = cancelled \/ cancelled' = cancelled \union {o},
         pulling' \subseteq pulling, UNCHANGED <<frame, aborted>>,
         cancelCall' \subseteq cancelCall
  PROVE  Inv'
<1>1. state' \subseteq Writes
  BY DEF Inv, TypeOK
<1>2. /\ SlotConsistent' /\ IsFiniteSet(registered')
      /\ registered' \subseteq Ops /\ queue' \in Seq(Ops)
      /\ active' \in Ops \union {NoOp}
      /\ pc' \in [Ops -> Steps] /\ inst' \in [Ops -> SUBSET Writes]
      /\ pc'[o] = "over"
      /\ \A x \in Ops \ {o} : \/ pc'[x] = pc[x] /\ inst'[x] = inst[x]
                              \/ /\ pc[x] = "queued" /\ pc'[x] = "calling"
                                 /\ inst'[x] = state'
                                 /\ active = o
  BY <1>1, FinishEffect DEF Inv
<1>3. TypeOK'
  BY <1>1, <1>2 DEF Inv, TypeOK
<1>4. OwnersKnow'
  <2> SUFFICES ASSUME NEW x \in Ops, Owner(x)' PROVE state' \subseteq inst'[x]
    BY DEF OwnersKnow
  <2>1. x # o
    BY <1>2 DEF Owner, OwnerSteps
  <2>2. CASE pc'[x] = pc[x] /\ inst'[x] = inst[x]
    <3>1. Owner(x) /\ x = active /\ state \subseteq inst[x]
      BY <2>2 DEF Inv, OwnersKnow, SlotConsistent, Owner
    <3> QED
      BY <2>1, <2>2, <3>1
  <2> QED
    BY <1>2, <2>1, <2>2
<1>5. PullsAreStreams'
  BY <1>2 DEF Inv, PullsAreStreams, TypeOK
<1>6. CancelledIsPast'
  BY <1>2 DEF Inv, CancelledIsPast, TypeOK
<1> QED
  BY <1>2, <1>3, <1>4, <1>5, <1>6 DEF Inv

\* Owners are registered.
LEMMA OwnerIsRegistered ==
  ASSUME Inv, NEW o \in Ops, Owner(o)
  PROVE  o \in registered /\ o = active
  BY DEF Inv, SlotConsistent

-----------------------------------------------------------------------------
(* Every action keeps the invariant *)

LEMMA ExecuteKeepsInv ==
  ASSUME Inv, NEW o \in Ops, Execute(o)
  PROVE  Inv'
<1> USE OpsAssumption
<1>1. CASE Cardinality(registered) >= MaxPending
  <2>1. Moves(o, "over")
    BY <1>1 DEF Execute, Goes, Moves
  <2> QED
    BY <1>1, <2>1, MovesKeepInv DEF Execute, Inv, TypeOK
<1>2. CASE ~(Cardinality(registered) >= MaxPending)
  <2>1. /\ pc[o] = "sent" /\ registered' = registered \union {o}
        /\ UNCHANGED <<state, cancelled, frame, pulling, abortVars>>
    BY <1>2 DEF Execute
  <2>2. o \notin registered /\ ~InLine(o, queue)
    BY <2>1, SlotAsLine DEF Inv, Owner, OwnerSteps
  <2>3. IsFiniteSet(registered') /\ Cardinality(registered') <= MaxPending
    <3>1. /\ IsFiniteSet(registered \union {o})
          /\ Cardinality(registered \union {o}) = Cardinality(registered) + 1
      BY <2>2, FS_AddElement DEF Inv
    <3>2. Cardinality(registered) \in Nat
      BY FS_CardinalityType DEF Inv
    <3> QED
      BY <1>2, <2>1, <3>1, <3>2
  <2>4. CASE active # NoOp
    <3>1. /\ queue' = Append(queue, o) /\ pc' = [pc EXCEPT ![o] = "queued"]
          /\ UNCHANGED <<active, inst>>
      BY <1>2, <2>4 DEF Execute
    <3>2. /\ queue' \in Seq(Ops) /\ Distinct(queue')
          /\ \A x \in Ops : InLine(x, queue') <=> InLine(x, queue) \/ x = o
      BY <2>2, <3>1, AppendToLine, SlotAsLine DEF Inv, TypeOK
    <3>3. /\ pc' \in [Ops -> Steps] /\ pc'[o] = "queued"
          /\ \A x \in Ops \ {o} : pc'[x] = pc[x]
      BY <3>1 DEF Inv, TypeOK, Steps
    <3>4. \A x \in Ops : Owner(x)' <=> Owner(x)
      BY <2>1, <3>3 DEF Owner, OwnerSteps
    <3>5. TypeOK'
      BY <2>1, <3>1, <3>2, <3>3 DEF Inv, TypeOK, abortVars
    <3>6. SlotConsistent'
      <4>1. active' \in Ops /\ Owner(active)'
        <5>1. active \in Ops /\ Owner(active)
          BY <2>4, SlotAsLine DEF Inv, TypeOK
        <5>2. pc'[active] \in OwnerSteps
          BY <3>4, <5>1 DEF Owner
        <5> QED
          BY <3>1, <5>1, <5>2 DEF Owner
      <4>2. \A x \in Ops : Owner(x)' => x = active'
        BY <3>1, <3>4, SlotAsLine DEF Inv
      <4>3. \A x \in Ops : pc'[x] = "queued" <=> InLine(x, queue')
        BY <3>2, <3>3, SlotAsLine DEF Inv
      <4>4. registered' = {x \in Ops : Owner(x)' \/ pc'[x] = "queued"}
        <5>1. \A x \in Ops : x \in registered <=> Owner(x) \/ pc[x] = "queued"
          BY SlotAsLine DEF Inv
        <5>2. registered' \subseteq Ops
          BY <3>5 DEF TypeOK
        <5> QED
          BY <2>1, <3>3, <3>4, <5>1, <5>2
      <4> QED
        BY <2>3, <3>2, <4>1, <4>2, <4>3, <4>4 DEF SlotConsistent, InLine, Distinct
    <3>7. OwnersKnow' /\ PullsAreStreams' /\ CancelledIsPast'
      BY <2>1, <3>1, <3>3, <3>4
        DEF Inv, OwnersKnow, PullsAreStreams, CancelledIsPast, TypeOK
    <3> QED
      BY <2>3, <3>5, <3>6, <3>7 DEF Inv
  <2>5. CASE active = NoOp
    <3>1. /\ pc' = [pc EXCEPT ![o] = "calling"] /\ active' = o
          /\ inst' = [inst EXCEPT ![o] = state] /\ UNCHANGED queue
      BY <1>2, <2>1, <2>5 DEF Execute, Enters
    <3>2. /\ pc' \in [Ops -> Steps] /\ pc'[o] = "calling"
          /\ \A x \in Ops \ {o} : pc'[x] = pc[x]
      BY <3>1 DEF Inv, TypeOK, Steps, OwnerSteps
    <3>3. /\ inst' \in [Ops -> SUBSET Writes] /\ inst'[o] = state
      BY <3>1 DEF Inv, TypeOK
    <3>4. TypeOK'
      BY <2>1, <3>1, <3>2, <3>3 DEF Inv, TypeOK, abortVars
    <3>5. \A x \in Ops : ~Owner(x) /\ pc[x] # "queued"
      <4>1. \A x \in Ops : ~Owner(x)
        BY <2>5, SlotAsLine DEF Inv
      <4>2. queue = <<>>
        BY <2>5, SlotAsLine DEF Inv
      <4>3. \A x \in Ops : ~InLine(x, queue)
        BY <4>2 DEF InLine
      <4> QED
        BY <4>1, <4>3, SlotAsLine DEF Inv
    <3>6. \A x \in Ops : (Owner(x)' <=> x = o) /\ pc'[x] # "queued"
      BY <3>2, <3>5 DEF Owner, OwnerSteps
    <3>7. SlotConsistent'
      <4>1. registered = {}
        BY <3>5, SlotAsLine DEF Inv
      <4>2. registered' = {x \in Ops : Owner(x)' \/ pc'[x] = "queued"}
        BY <2>1, <3>6, <4>1
      <4>3. \A x \in Ops : ~InLine(x, queue')
        BY <3>1, <3>5, SlotAsLine DEF Inv
      <4>4. Owner(active)'
        BY <3>1, <3>6 DEF Owner
      <4>5. active' # NoOp /\ Distinct(queue')
        BY <3>1, SlotAsLine DEF Inv
      <4> QED
        BY <2>3, <3>1, <3>6, <4>2, <4>3, <4>4, <4>5 DEF SlotConsistent, InLine, Distinct
    <3>8. OwnersKnow' /\ PullsAreStreams' /\ CancelledIsPast'
      BY <2>1, <3>2, <3>3, <3>6
        DEF Inv, OwnersKnow, PullsAreStreams, CancelledIsPast, TypeOK
    <3> QED
      BY <2>3, <3>4, <3>7, <3>8 DEF Inv
  <2> QED
    BY <2>4, <2>5
<1> QED
  BY <1>1, <1>2

LEMMA CancelKeepsInv ==
  ASSUME Inv, NEW o \in Ops, Cancel(o)
  PROVE  Inv'
<1>1. /\ cancelCall' = cancelCall \ {o}
      /\ UNCHANGED <<state, frame, pulling, aborted>>
  BY DEF Cancel
<1>2. CASE o \in registered /\ (active # o \/ pc[o] \in {"body", "stream"})
  <2>1. Finish(o, "over") /\ cancelled' = cancelled \union {o}
    BY <1>2 DEF Cancel
  <2> QED
    BY <1>1, <1>2, <2>1, FinishKeepsInv
<1>3. CASE o \in registered /\ ~(active # o \/ pc[o] \in {"body", "stream"})
  <2>1. /\ cancelled' = cancelled \union {o}
        /\ UNCHANGED <<registered, queue, active, pc, inst>>
    BY <1>3 DEF Cancel
  <2>2. pc[o] \in OwnerSteps
    BY <1>3, OpsAssumption DEF Inv, SlotConsistent, Owner
  <2>3. CancelledIsPast'
    BY <2>1, <2>2 DEF Inv, CancelledIsPast, OwnerSteps
  <2> QED
    BY <1>1, <2>1, <2>3
      DEF Inv, TypeOK, SlotConsistent, Owner, OwnersKnow, PullsAreStreams
<1>4. CASE o \notin registered
  <2>1. UNCHANGED <<cancelled, registered, queue, active, pc, inst>>
    BY <1>4 DEF Cancel
  <2> QED
    BY <1>1, <2>1
      DEF Inv, TypeOK, SlotConsistent, Owner, OwnersKnow, PullsAreStreams, CancelledIsPast
<1> QED
  BY <1>2, <1>3, <1>4

LEMMA AbortKeepsInv ==
  ASSUME Inv, NEW o \in Ops, Abort(o)
  PROVE  Inv'
  BY DEF Abort, scopeVars, callVars,
         Inv, TypeOK, SlotConsistent, Owner, OwnersKnow, PullsAreStreams, CancelledIsPast

\* The steps of the Worker and of the callback's response up to the body.
LEMMA CallKeepsInv ==
  ASSUME Inv, NEW o \in Ops,
         \/ Send(o) \/ Invoke(o) \/ WorkDone(o) \/ StreamOpened(o) \/ WorkFails(o)
         \/ Publish(o) \/ (Resume(o) /\ o \notin cancelled)
  PROVE  Inv'
<1> USE OpsAssumption DEF Moves, Owner, OwnerSteps, Goes, WorkerGoes, scopeVars
<1>1. inst \in [Ops -> SUBSET Writes]
  BY DEF Inv, TypeOK
<1>2. ASSUME Send(o) PROVE Inv'
  <2>1. PICK step \in {"sent", "over"} : Moves(o, step)
    BY <1>2 DEF Send
  <2> QED
    BY <1>1, <1>2, <2>1, MovesKeepInv DEF Send
<1>3. ASSUME Invoke(o) PROVE Inv'
  <2>1. PICK step \in {"failing", "working"} : Moves(o, step)
    BY <1>3 DEF Invoke
  <2> QED
    BY <1>1, <1>3, <2>1, MovesKeepInv DEF Invoke
<1>4. ASSUME WorkDone(o) PROVE Inv'
  <2>1. PICK step \in {"failing", "publishing"} : Moves(o, step)
    BY <1>4 DEF WorkDone
  <2>2. /\ inst' \in [Ops -> SUBSET Writes]
        /\ \A x \in Ops : inst[x] \subseteq inst'[x]
    <3>1. <<o, 1>> \in Writes
      BY DEF Writes
    <3> QED
      BY <1>1, <1>4, <3>1 DEF WorkDone
  <2>3. UNCHANGED <<state, cancelled, frame, pulling, abortVars>> /\ pc[o] # "stream"
    BY <1>4 DEF WorkDone
  <2> QED
    BY <2>1, <2>2, <2>3, MovesKeepInv
<1>5. ASSUME StreamOpened(o) PROVE Inv'
  <2>1. PICK step \in {"failing", "opening"} : Moves(o, step)
    BY <1>5 DEF StreamOpened
  <2> QED
    BY <1>1, <1>5, <2>1, MovesKeepInv DEF StreamOpened
<1>6. ASSUME WorkFails(o) PROVE Inv'
  <2>1. Moves(o, "failing")
    BY <1>6 DEF WorkFails
  <2> QED
    BY <1>1, <1>6, <2>1, MovesKeepInv DEF WorkFails
<1>7. ASSUME Publish(o) PROVE Inv'
  <2>1. PICK step \in {"replying", "failing"} : Moves(o, step)
    BY <1>7 DEF Publish
  <2> QED
    BY <1>1, <1>7, <2>1, MovesKeepInv DEF Publish
<1>8. ASSUME Resume(o), o \notin cancelled PROVE Inv'
  <2>1. PICK step \in {"stream", "body"} : Moves(o, step)
    BY <1>8 DEF Resume
  <2> QED
    BY <1>1, <1>8, <2>1, MovesKeepInv DEF Resume
<1> QED
  BY <1>2, <1>3, <1>4, <1>5, <1>6, <1>7, <1>8

\* The ways an owner ends.
LEMMA EndKeepsInv ==
  ASSUME Inv, NEW o \in Ops,
         (Resume(o) /\ o \in cancelled) \/ CallFails(o) \/ ResponseEnds(o)
  PROVE  Inv'
<1>1. Owner(o)
  BY DEF Resume, CallFails, ResponseEnds, Owner, OwnerSteps
<1>2. Finish(o, "over") /\ UNCHANGED <<state, cancelled, frame, pulling, abortVars>>
  BY DEF Resume, CallFails, ResponseEnds
<1> QED
  BY <1>1, <1>2, OwnerIsRegistered, FinishKeepsInv DEF abortVars

LEMMA PullKeepsInv ==
  ASSUME Inv, NEW o \in Ops, Pull(o)
  PROVE  Inv'
<1> USE OpsAssumption
<1>1. frame[o] + 1 \in 1..MaxFrames /\ <<o, frame[o] + 1>> \in Writes
  BY DEF Inv, TypeOK, Pull, Writes
<1>2. /\ inst' \in [Ops -> SUBSET Writes]
      /\ \A x \in Ops : inst[x] \subseteq inst'[x]
  BY <1>1 DEF Inv, TypeOK, Pull
<1>3. frame' \in [Ops -> 0..MaxFrames]
  BY <1>1 DEF Inv, TypeOK, Pull
<1>4. UNCHANGED <<scopeVars, pc, abortVars>> /\ pulling' = pulling \union {o} /\ pc[o] = "stream"
  BY DEF Pull
<1>5. TypeOK'
  BY <1>2, <1>3, <1>4 DEF Inv, TypeOK, scopeVars, abortVars
<1>6. OwnersKnow'
  BY <1>2, <1>4 DEF Inv, OwnersKnow, Owner, scopeVars
<1> QED
  BY <1>4, <1>5, <1>6
    DEF Inv, SlotConsistent, Owner, PullsAreStreams, CancelledIsPast, scopeVars

LEMMA FrameKeepsInv ==
  ASSUME Inv, NEW o \in Ops, FrameArrives(o)
  PROVE  Inv'
<1>1. /\ o \in pulling /\ pulling' = pulling \ {o}
      /\ UNCHANGED <<cancelled, frame, abortVars>>
  BY DEF FrameArrives
<1>2. CASE o \in registered
  <2>1. Owner(o) /\ o = active
    BY <1>1, <1>2 DEF Inv, PullsAreStreams, SlotConsistent, Owner, OwnerSteps
  <2>2. state' = inst[o]
    BY <1>2 DEF FrameArrives
  <2>3. CASE UNCHANGED <<registered, queue, active, pc, inst>>
    <3>1. OwnersKnow'
      BY <2>1, <2>2, <2>3 DEF Inv, OwnersKnow, SlotConsistent, Owner
    <3> QED
      BY <1>1, <2>2, <2>3, <3>1
        DEF Inv, TypeOK, SlotConsistent, Owner, PullsAreStreams, CancelledIsPast, abortVars
  <2>4. CASE Finish(o, "over")
    BY <1>1, <1>2, <2>1, <2>2, <2>4, FinishKeepsInv DEF abortVars
  <2> QED
    BY <1>2, <2>3, <2>4 DEF FrameArrives
<1>3. CASE o \notin registered
  <2>1. UNCHANGED <<state, registered, queue, active, pc, inst>>
    BY <1>3 DEF FrameArrives
  <2> QED
    BY <1>1, <2>1
      DEF Inv, TypeOK, SlotConsistent, Owner, OwnersKnow, PullsAreStreams, CancelledIsPast,
          abortVars
<1> QED
  BY <1>2, <1>3

-----------------------------------------------------------------------------
(* Theorems *)

\* No step of any operation breaks the inductive invariant.
LEMMA InvStep ==
  ASSUME Inv, [Next]_vars
  PROVE  Inv'
<1>1. CASE UNCHANGED vars
  BY <1>1 DEF vars, scopeVars, callVars, abortVars,
              Inv, TypeOK, SlotConsistent, Owner, OwnersKnow, PullsAreStreams, CancelledIsPast
<1>2. ASSUME NEW o \in Ops, Progress(o) \/ Abort(o) \/ Cancel(o) PROVE Inv'
  <2>1. CASE Resume(o)
    BY <2>1, CallKeepsInv, EndKeepsInv
  <2> QED
    BY <1>2, <2>1, ExecuteKeepsInv, CallKeepsInv, EndKeepsInv, PullKeepsInv, FrameKeepsInv,
       AbortKeepsInv, CancelKeepsInv DEF Progress
<1> QED
  BY <1>1, <1>2 DEF Next

\* The inductive invariant holds in every reachable state of the coordinator
\* and its Workers (execute, cancel, publish, #finish, handleRpc).
THEOREM Invariance == Spec => []Inv
<1>1. Init => Inv
  <2> SUFFICES ASSUME Init PROVE Inv
    OBVIOUS
  <2> USE OpsAssumption DEF Init
  <2>1. TypeOK
    BY EmptySeq DEF TypeOK, Steps
  <2>2. \A o \in Ops : ~Owner(o) /\ pc[o] # "queued"
    BY DEF Owner, OwnerSteps
  <2>3. IsFiniteSet(registered) /\ Cardinality(registered) = 0
    BY FS_EmptySet
  <2>4. SlotConsistent
    BY <2>2, <2>3 DEF SlotConsistent
  <2> QED
    BY <2>1, <2>2, <2>3, <2>4 DEF Inv, OwnersKnow, PullsAreStreams, CancelledIsPast
<1>2. Inv /\ [Next]_vars => Inv'
  BY InvStep
<1> QED
  BY <1>1, <1>2, PTL DEF Spec

\* Every variable of the coordinator and its Workers keeps its type.
THEOREM TypeCorrect == Spec => []TypeOK
<1>1. Inv => TypeOK
  BY DEF Inv
<1> QED
  BY <1>1, Invariance, PTL

\* execute(), cancel() and #finish() never share the slot or leak it, and the
\* table of operations never exceeds its limit.
THEOREM SlotNeverShared == Spec => []SlotConsistent
<1>1. Inv => SlotConsistent
  BY DEF Inv
<1> QED
  BY <1>1, Invariance, PTL

\* publish() never replaces the snapshot by one that lacks a published write.
THEOREM WritesAreKept == Spec => NoLostWrite
<1>1. ASSUME Inv, [Next]_vars PROVE [state \subseteq state']_vars
  <2>1. CASE UNCHANGED vars
    BY <2>1
  <2>2. ASSUME NEW o \in Ops, Progress(o) \/ Abort(o) \/ Cancel(o)
        PROVE  state \subseteq state'
    <3>1. CASE Publish(o)
      <4>1. Owner(o)
        BY <3>1 DEF Publish, Owner, OwnerSteps
      <4> QED
        BY <1>1, <3>1, <4>1 DEF Inv, OwnersKnow, Publish
    <3>2. CASE FrameArrives(o)
      <4>1. o \in registered => Owner(o)
        BY <1>1, <3>2 DEF FrameArrives, Inv, PullsAreStreams, SlotConsistent
      <4> QED
        BY <1>1, <3>2, <4>1 DEF Inv, OwnersKnow, FrameArrives
    <3>3. CASE ~Publish(o) /\ ~FrameArrives(o)
      BY <2>2, <3>3 DEF Progress, Send, Execute, Invoke, WorkDone, StreamOpened, WorkFails,
        Resume, CallFails, Pull, ResponseEnds, Abort, Cancel, WorkerGoes, scopeVars
    <3> QED
      BY <3>1, <3>2, <3>3
  <2> QED
    BY <1>1, <2>1, <2>2 DEF Next
<1> QED
  BY <1>1, Invariance, PTL DEF Spec, NoLostWrite

\* The slot is never handed to an operation whose cancel() arrived while it
\* waited.
THEOREM CancelledStaysOut == Spec => CancelledNeverCalled
<1>1. ASSUME Inv, [Next]_vars
      PROVE  [\A o \in Ops :
               o \in cancelled' /\ pc[o] \in {"sent", "queued"} => pc'[o] # "calling"]_vars
  <2>1. CASE UNCHANGED vars
    BY <2>1
  <2>2. CASE Next
    <3>1. PICK o \in Ops : Progress(o) \/ Abort(o) \/ Cancel(o)
      BY <2>2 DEF Next
    <3>2. CASE Cancel(o)
      <4> SUFFICES ASSUME NEW x \in Ops, x \in cancelled', pc[x] \in {"sent", "queued"}
                   PROVE  pc'[x] # "calling"
        OBVIOUS
      <4>1. x \notin cancelled
        BY <1>1 DEF Inv, CancelledIsPast
      <4>2. x = o /\ o \in registered
        BY <3>2, <4>1 DEF Cancel
      <4>3. active # o
        BY <1>1, <4>2, OpsAssumption DEF Inv, SlotConsistent, Owner, OwnerSteps
      <4>4. pc' = [pc EXCEPT ![o] = "over"]
        BY <3>2, <4>2, <4>3 DEF Cancel, Finish
      <4> QED
        BY <1>1, <4>2, <4>4 DEF Inv, TypeOK
    <3>3. CASE ~Cancel(o)
      <4>1. cancelled' = cancelled
        BY <3>1, <3>3 DEF Progress, Send, Execute, Invoke, WorkDone, StreamOpened, WorkFails,
          Publish, Resume, CallFails, Pull, FrameArrives, ResponseEnds, Abort, WorkerGoes, scopeVars
      <4> QED
        BY <1>1, <4>1 DEF Inv, CancelledIsPast
    <3> QED
      BY <3>2, <3>3
  <2> QED
    BY <1>1, <2>1, <2>2
<1> QED
  BY <1>1, Invariance, PTL DEF Spec, CancelledNeverCalled


-----------------------------------------------------------------------------
(* The contract: what the owner's instance holds, exactly *)

\* Where an operation has published nothing yet.
Before == {"new", "sent", "queued", "calling", "working", "publishing", "opening"}

Silent(o) == \A n \in 1..MaxFrames : <<o, n>> \notin state

\* The owner's instance is the snapshot, and one write more once it has computed it; a
\* stream has published the frames before the one that is awaited.
ExactOf(o) ==
  /\ pc[o] \in Before => Silent(o) /\ frame[o] = 0
  /\ pc[o] \in {"calling", "working", "opening"} => inst[o] = state
  /\ pc[o] = "publishing" => inst[o] = state \union {<<o, 1>>}
  /\ pc[o] \in {"opening", "stream"} => o \in Streams
  /\ pc[o] = "stream" /\ o \in pulling =>
       /\ frame[o] # 0 /\ inst[o] = state \union {<<o, frame[o]>>}
       /\ \A n \in 1..MaxFrames : <<o, n>> \in state <=> n < frame[o]
  /\ pc[o] = "stream" /\ o \notin pulling =>
       /\ inst[o] = state
       /\ \A n \in 1..MaxFrames : <<o, n>> \in state <=> n <= frame[o]

Exact == \A o \in Ops : ExactOf(o)

\* A step of another operation: only the owner cares what the snapshot is.
LEMMA OthersStayExact ==
  ASSUME NEW x \in Ops, ExactOf(x), pc'[x] = pc[x], inst'[x] = inst[x], frame'[x] = frame[x],
         x \in pulling' <=> x \in pulling,
         state' = state \/ (~Owner(x) /\ (Silent(x) => Silent(x)'))
  PROVE  ExactOf(x)'
<1>1. CASE state' = state
  BY <1>1 DEF ExactOf, Silent
<1>2. CASE ~Owner(x) /\ (Silent(x) => Silent(x)')
  BY <1>2 DEF ExactOf, Owner, OwnerSteps, Before
<1> QED
  BY <1>1, <1>2

\* The owner owns the slot; who is elsewhere does not.
LEMMA OwnerIsServed ==
  ASSUME Inv, NEW o \in Ops
  PROVE  (Owner(o) <=> active = o) /\ o # NoOp
BY OpsAssumption DEF Inv, SlotConsistent

\* A write of operation o makes nobody else's.
LEMMA OthersStaySilent ==
  ASSUME NEW o \in Ops, NEW n, state' = state \union {<<o, n>>}, NEW x \in Ops \ {o}, Silent(x)
  PROVE  Silent(x)'
BY DEF Silent

\* The owner's last or next write is the contract's.
OwnWrite(o) == \E n \in 1..MaxFrames :
  /\ o \in Streams \/ n = 1
  /\ \A m \in 1..MaxFrames : <<o, m>> \in state <=> m < n
  /\ state' = state \union {<<o, n>>}

\* An operation ends, perhaps with its last write, and the next one enters.
LEMMA FinishImplements ==
  ASSUME Inv, Exact, NEW o \in Ops, o \in registered, Finish(o, "over"),
         frame' = frame, pulling' = pulling \/ pulling' = pulling \ {o},
         state' = state \/ (active = o /\ OwnWrite(o)), state' \subseteq Writes, SlotConsistent'
  PROVE  Exact' /\ Contract!ContractNext
<1>1. /\ active' \in Ops \union {NoOp} /\ pc'[o] = "over"
      /\ \A x \in Ops \ {o} : \/ pc'[x] = pc[x] /\ inst'[x] = inst[x]
                              \/ /\ pc[x] = "queued" /\ pc'[x] = "calling"
                                 /\ inst'[x] = state'
                                 /\ active = o
  BY FinishEffect DEF Inv
<1>2. ASSUME NEW x \in Ops \ {o}, Silent(x) PROVE Silent(x)'
  <2>1. CASE state' = state
    BY <1>2, <2>1 DEF Silent
  <2>2. CASE OwnWrite(o)
    BY <1>2, <2>2, OthersStaySilent DEF OwnWrite
  <2> QED
    BY <2>1, <2>2
<1>3. ASSUME NEW x \in Ops PROVE ExactOf(x)'
  <2>1. CASE x = o
    BY <1>1, <2>1 DEF ExactOf, Before
  <2>2. CASE x # o /\ pc'[x] = pc[x] /\ inst'[x] = inst[x]
    <3>1. state' = state \/ ~Owner(x)
      BY <2>2, OwnerIsServed
    <3>2. Silent(x) => Silent(x)'
      BY <1>2, <2>2
    <3>3. x \in pulling' <=> x \in pulling
      BY <2>2
    <3> QED
      BY <2>2, <3>1, <3>2, <3>3, OthersStayExact DEF Exact
  <2>3. CASE x # o /\ pc[x] = "queued" /\ pc'[x] = "calling" /\ inst'[x] = state'
    <3>1. Silent(x) /\ frame[x] = 0
      BY <2>3 DEF Exact, ExactOf, Before
    <3>2. Silent(x)'
      BY <1>2, <2>3, <3>1
    <3> QED
      BY <2>3, <3>1, <3>2 DEF ExactOf
  <2> QED
    BY <1>1, <2>1, <2>2, <2>3
<1>4. {x \in Ops : pc'[x] = "over"} = {x \in Ops : pc[x] = "over"} \union {o}
  BY <1>1
<1>5. CASE active = o
  <2>1. active' \in {NoOp} \union (Ops \ {x \in Ops : pc'[x] = "over"})
    BY <1>1 DEF SlotConsistent, Owner, OwnerSteps
  <2>2. Contract!Write \/ UNCHANGED state
    BY <1>5 DEF OwnWrite, Contract!Write
  <2>3. Contract!Done
    BY <1>4, <1>5, <2>1, <2>2, OwnerIsServed DEF Contract!Done
  <2> QED
    BY <1>3, <2>3 DEF Exact, Contract!ContractNext
<1>6. CASE active # o
  <2>1. active' = active /\ state' = state
    BY <1>6 DEF Finish
  <2>2. Contract!GiveUp(o)
    BY <1>4, <1>6, <2>1 DEF Contract!GiveUp
  <2> QED
    BY <1>3, <2>2 DEF Exact, Contract!ContractNext
<1> QED
  BY <1>5, <1>6

\* A request moves on, writing nothing: what it holds stays exact if its own part does.
LEMMA MoveStaysExact ==
  ASSUME Exact, NEW o \in Ops, state' = state, ExactOf(o)',
         \A x \in Ops \ {o} : /\ pc'[x] = pc[x] /\ inst'[x] = inst[x] /\ frame'[x] = frame[x]
                              /\ x \in pulling' <=> x \in pulling
  PROVE  Exact'
<1>1. ASSUME NEW x \in Ops \ {o} PROVE ExactOf(x)'
  BY <1>1, OthersStayExact DEF Exact
<1> QED
  BY <1>1 DEF Exact

\* Steps within the slot or outside it that end no operation change nothing of the contract's.
LEMMA MoveStutters ==
  ASSUME Inv, NEW o \in Ops, NEW step, pc' = [pc EXCEPT ![o] = step],
         pc[o] # "over", step # "over", UNCHANGED <<state, active>>
  PROVE  UNCHANGED Contract!contractVars
<1>1. {x \in Ops : pc'[x] = "over"} = {x \in Ops : pc[x] = "over"}
  BY DEF Inv, TypeOK
<1> QED
  BY <1>1 DEF Contract!contractVars

LEMMA GivesUp ==
  ASSUME Inv, Exact, NEW o \in Ops, pc[o] \in {"new", "sent"}, pc' = [pc EXCEPT ![o] = "over"],
         UNCHANGED <<state, active, inst, frame, pulling>>
  PROVE  Exact' /\ Contract!ContractNext
<1>1. pc'[o] = "over" /\ \A x \in Ops \ {o} : pc'[x] = pc[x]
  BY DEF Inv, TypeOK
<1>2. Exact'
  <2>1. ExactOf(o)'
    BY <1>1 DEF ExactOf, Before
  <2> QED
    BY <1>1, <2>1, MoveStaysExact
<1>3. active # o
  BY OwnerIsServed DEF Owner, OwnerSteps
<1>4. {x \in Ops : pc'[x] = "over"} = {x \in Ops : pc[x] = "over"} \union {o}
  BY <1>1
<1>5. Contract!GiveUp(o)
  BY <1>3, <1>4 DEF Contract!GiveUp
<1> QED
  BY <1>2, <1>5 DEF Contract!ContractNext

LEMMA ExecuteImplements ==
  ASSUME Inv, Exact, NEW o \in Ops, Execute(o)
  PROVE  Exact' /\ [Contract!ContractNext]_(Contract!contractVars)
<1>1. pc[o] = "sent" /\ UNCHANGED <<state, frame, pulling>> /\ Silent(o) /\ frame[o] = 0
  BY DEF Execute, Exact, ExactOf, Before
<1>2. CASE Cardinality(registered) >= MaxPending
  BY <1>1, <1>2, GivesUp DEF Execute, Goes
<1>3. CASE ~(Cardinality(registered) >= MaxPending) /\ active # NoOp
  <2>1. pc' = [pc EXCEPT ![o] = "queued"] /\ UNCHANGED <<active, inst>>
    BY <1>3 DEF Execute
  <2>2. pc'[o] = "queued" /\ \A x \in Ops \ {o} : pc'[x] = pc[x]
    BY <2>1 DEF Inv, TypeOK
  <2>3. ExactOf(o)'
    BY <1>1, <2>2 DEF ExactOf, Silent
  <2> QED
    BY <1>1, <2>1, <2>2, <2>3, MoveStaysExact, MoveStutters
<1>4. CASE ~(Cardinality(registered) >= MaxPending) /\ active = NoOp
  <2>1. pc' = [pc EXCEPT ![o] = "calling"] /\ active' = o /\ inst' = [inst EXCEPT ![o] = state]
    BY <1>1, <1>4 DEF Execute, Enters
  <2>2. pc'[o] = "calling" /\ inst'[o] = state /\ \A x \in Ops \ {o} : pc'[x] = pc[x] /\ inst'[x] = inst[x]
    BY <2>1 DEF Inv, TypeOK
  <2>3. ExactOf(o)'
    BY <1>1, <2>2 DEF ExactOf, Silent
  <2>4. {x \in Ops : pc'[x] = "over"} = {x \in Ops : pc[x] = "over"}
    BY <1>1, <2>2
  <2>5. Contract!Serve(o)
    BY <1>1, <1>4, <2>1, <2>4 DEF Contract!Serve
  <2> QED
    BY <1>1, <2>2, <2>3, <2>5, MoveStaysExact DEF Contract!ContractNext
<1> QED
  BY <1>2, <1>3, <1>4

LEMMA CancelImplements ==
  ASSUME Inv, Inv', Exact, NEW o \in Ops, Cancel(o)
  PROVE  Exact' /\ [Contract!ContractNext]_(Contract!contractVars)
<1>1. UNCHANGED <<state, frame, pulling>>
  BY DEF Cancel
<1>2. CASE o \in registered /\ Finish(o, "over")
  BY <1>1, <1>2, FinishImplements DEF Inv, TypeOK
<1>3. CASE UNCHANGED <<registered, queue, active, pc, inst>>
  BY <1>1, <1>3 DEF Exact, ExactOf, Silent, Contract!contractVars
<1> QED
  BY <1>2, <1>3 DEF Cancel

LEMMA EndImplements ==
  ASSUME Inv, Inv', Exact, NEW o \in Ops,
         (Resume(o) /\ o \in cancelled) \/ CallFails(o) \/ ResponseEnds(o)
  PROVE  Exact' /\ [Contract!ContractNext]_(Contract!contractVars)
<1>1. Owner(o)
  BY DEF Resume, CallFails, ResponseEnds, Owner, OwnerSteps
<1>2. Finish(o, "over") /\ UNCHANGED <<state, frame, pulling>>
  BY DEF Resume, CallFails, ResponseEnds
<1>3. state' \subseteq Writes /\ SlotConsistent'
  BY DEF Inv, TypeOK
<1> QED
  BY <1>1, <1>2, <1>3, OwnerIsRegistered, FinishImplements

\* The owner publishes and goes on.
LEMMA OwnerPublishes ==
  ASSUME Inv, Exact, NEW o \in Ops, active = o, active' = o, OwnWrite(o), ExactOf(o)',
         {x \in Ops : pc'[x] = "over"} = {x \in Ops : pc[x] = "over"},
         \A x \in Ops \ {o} : /\ pc'[x] = pc[x] /\ inst'[x] = inst[x] /\ frame'[x] = frame[x]
                              /\ x \in pulling' <=> x \in pulling
  PROVE  Exact' /\ Contract!ContractNext
<1>1. ASSUME NEW x \in Ops \ {o} PROVE ExactOf(x)'
  <2>1. Silent(x) => Silent(x)'
    BY OthersStaySilent DEF OwnWrite
  <2>2. ~Owner(x)
    BY OwnerIsServed
  <2> QED
    BY <2>1, <2>2, OthersStayExact DEF Exact
<1>2. Contract!Publish
  BY OwnerIsServed DEF OwnWrite, Contract!Write, Contract!Publish
<1> QED
  BY <1>1, <1>2 DEF Exact, Contract!ContractNext

LEMMA PublishImplements ==
  ASSUME Inv, Exact, NEW o \in Ops, Publish(o)
  PROVE  Exact' /\ [Contract!ContractNext]_(Contract!contractVars)
<1>1. /\ pc[o] = "publishing" /\ UNCHANGED <<active, inst, frame, pulling>>
      /\ Silent(o) /\ inst[o] = state \union {<<o, 1>>}
  BY DEF Publish, Exact, ExactOf, Before
<1>2. CASE state' = inst[o] /\ pc' = [pc EXCEPT ![o] = "replying"]
  <2>1. pc'[o] = "replying" /\ \A x \in Ops \ {o} : pc'[x] = pc[x]
    BY <1>2 DEF Inv, TypeOK
  <2>2. {x \in Ops : pc'[x] = "over"} = {x \in Ops : pc[x] = "over"}
    BY <1>1, <2>1
  <2>3. active = o
    BY <1>1, OwnerIsServed DEF Owner, OwnerSteps
  <2>4. OwnWrite(o)
    <3>1. 1 \in 1..MaxFrames /\ \A m \in 1..MaxFrames : ~(m < 1)
      BY OpsAssumption
    <3> QED
      BY <1>1, <1>2, <3>1 DEF OwnWrite, Silent
  <2>5. ExactOf(o)'
    BY <2>1 DEF ExactOf, Before
  <2> QED
    BY <1>1, <2>1, <2>2, <2>3, <2>4, <2>5, OwnerPublishes
<1>3. CASE state' = state /\ pc' = [pc EXCEPT ![o] = "failing"]
  <2>1. pc'[o] = "failing" /\ \A x \in Ops \ {o} : pc'[x] = pc[x]
    BY <1>3 DEF Inv, TypeOK
  <2>2. ExactOf(o)'
    BY <2>1 DEF ExactOf, Before
  <2> QED
    BY <1>1, <1>3, <2>1, <2>2, MoveStaysExact, MoveStutters
<1> QED
  BY <1>2, <1>3 DEF Publish

LEMMA FrameImplements ==
  ASSUME Inv, Inv', Exact, NEW o \in Ops, FrameArrives(o)
  PROVE  Exact' /\ [Contract!ContractNext]_(Contract!contractVars)
<1>1. /\ o \in pulling /\ pulling' = pulling \ {o} /\ frame' = frame
      /\ pc[o] \in {"stream", "over"} /\ frame \in [Ops -> 0..MaxFrames]
  BY DEF FrameArrives, Inv, PullsAreStreams, TypeOK
<1>2. CASE o \in registered
  <2>1. pc[o] = "stream" /\ active = o /\ state' = inst[o]
    BY <1>1, <1>2 DEF FrameArrives, Inv, SlotConsistent, Owner, OwnerSteps
  <2>2. /\ o \in Streams /\ frame[o] \in 1..MaxFrames /\ inst[o] = state \union {<<o, frame[o]>>}
        /\ \A n \in 1..MaxFrames : <<o, n>> \in state <=> n < frame[o]
    BY <1>1, <2>1 DEF Exact, ExactOf
  <2>3. OwnWrite(o)
    BY <2>1, <2>2 DEF OwnWrite
  <2>4. CASE UNCHANGED <<registered, queue, active, pc, inst>>
    <3>1. \A n \in 1..MaxFrames : <<o, n>> \in state' <=> n <= frame[o]
      BY <2>1, <2>2
    <3>2. ExactOf(o)'
      BY <1>1, <2>1, <2>2, <2>4, <3>1 DEF ExactOf, Before
    <3>3. \A x \in Ops \ {o} : x \in pulling' <=> x \in pulling
      BY <1>1
    <3> QED
      BY <1>1, <2>1, <2>3, <2>4, <3>2, <3>3, OwnerPublishes
  <2>5. CASE Finish(o, "over")
    <3>1. state' \subseteq Writes /\ SlotConsistent'
      BY DEF Inv, TypeOK
    <3> QED
      BY <1>1, <1>2, <2>1, <2>3, <2>5, <3>1, FinishImplements
  <2> QED
    BY <1>2, <2>4, <2>5 DEF FrameArrives
<1>3. CASE o \notin registered
  <2>1. UNCHANGED <<state, registered, queue, active, pc, inst>>
    BY <1>3 DEF FrameArrives
  <2>2. pc[o] # "stream"
    BY <1>3 DEF Inv, SlotConsistent, Owner, OwnerSteps
  <2>3. ExactOf(o)'
    BY <1>1, <2>1, <2>2 DEF ExactOf, Before
  <2>4. \A x \in Ops \ {o} : x \in pulling' <=> x \in pulling
    BY <1>1
  <2> QED
    BY <1>1, <2>1, <2>3, <2>4, MoveStaysExact DEF Contract!contractVars
<1> QED
  BY <1>2, <1>3

LEMMA PullImplements ==
  ASSUME Inv, Exact, NEW o \in Ops, Pull(o)
  PROVE  Exact' /\ [Contract!ContractNext]_(Contract!contractVars)
<1>1. /\ pc[o] = "stream" /\ o \notin pulling /\ pulling' = pulling \union {o}
      /\ frame' = [frame EXCEPT ![o] = @ + 1]
      /\ inst' = [inst EXCEPT ![o] = @ \union {<<o, frame[o] + 1>>}]
      /\ UNCHANGED <<state, active, pc>>
      /\ frame \in [Ops -> 0..MaxFrames] /\ inst \in [Ops -> SUBSET Writes]
  BY DEF Pull, Inv, TypeOK, scopeVars
<1>2. /\ o \in Streams /\ inst[o] = state
      /\ \A n \in 1..MaxFrames : <<o, n>> \in state <=> n <= frame[o]
  BY <1>1 DEF Exact, ExactOf
<1>3. /\ frame'[o] = frame[o] + 1 /\ inst'[o] = state \union {<<o, frame[o] + 1>>}
      /\ \A x \in Ops \ {o} : inst'[x] = inst[x] /\ frame'[x] = frame[x]
  BY <1>1, <1>2
<1>4. ExactOf(o)'
  <2>1. frame'[o] # 0 /\ \A n \in 1..MaxFrames : <<o, n>> \in state <=> n < frame'[o]
    BY <1>1, <1>2, <1>3
  <2> QED
    BY <1>1, <1>2, <1>3, <2>1 DEF ExactOf, Before
<1> QED
  BY <1>1, <1>3, <1>4, MoveStaysExact DEF Contract!contractVars

\* The remaining steps of the Worker and of the response up to the body.
LEMMA CallImplements ==
  ASSUME Inv, Exact, NEW o \in Ops,
         \/ Send(o) \/ Invoke(o) \/ WorkDone(o) \/ StreamOpened(o) \/ WorkFails(o)
         \/ (Resume(o) /\ o \notin cancelled)
  PROVE  Exact' /\ [Contract!ContractNext]_(Contract!contractVars)
<1>1. UNCHANGED <<state, active, frame, pulling>> /\ \A x \in Ops \ {o} : inst'[x] = inst[x]
  BY DEF Send, Invoke, WorkDone, StreamOpened, WorkFails, Resume, Goes, WorkerGoes, scopeVars, Inv, TypeOK
<1>2. pc \in [Ops -> Steps] /\ inst \in [Ops -> SUBSET Writes] /\ ExactOf(o)
  BY DEF Inv, TypeOK, Exact
<1>3. ASSUME NEW step, pc' = [pc EXCEPT ![o] = step], pc[o] # "over", step # "over",
             pc'[o] = step => ExactOf(o)'
      PROVE  Exact' /\ [Contract!ContractNext]_(Contract!contractVars)
  <2>1. pc'[o] = step /\ \A x \in Ops \ {o} : pc'[x] = pc[x]
    BY <1>2, <1>3
  <2> QED
    BY <1>1, <1>3, <2>1, MoveStaysExact, MoveStutters
<1>4. CASE Send(o)
  <2>1. pc[o] = "new" /\ inst' = inst
    BY <1>4 DEF Send
  <2>2. CASE pc' = [pc EXCEPT ![o] = "over"]
    BY <1>1, <2>1, <2>2, GivesUp
  <2>3. CASE pc' = [pc EXCEPT ![o] = "sent"]
    BY <1>1, <1>2, <1>3, <2>1, <2>3 DEF ExactOf, Before, Silent
  <2> QED
    BY <1>4, <2>2, <2>3 DEF Send, Goes
<1>5. CASE Invoke(o) \/ StreamOpened(o) \/ WorkFails(o)
  <2>1. pc[o] \in {"calling", "working"} /\ inst' = inst
    BY <1>5 DEF Invoke, StreamOpened, WorkFails
  <2>2. CASE pc' = [pc EXCEPT ![o] = "failing"]
    BY <1>1, <1>2, <1>3, <2>1, <2>2 DEF ExactOf, Before, Silent
  <2>3. CASE pc' = [pc EXCEPT ![o] = "working"]
    BY <1>1, <1>2, <1>3, <2>1, <2>3 DEF ExactOf, Before, Silent
  <2>4. CASE pc' = [pc EXCEPT ![o] = "opening"] /\ o \in Streams
    BY <1>1, <1>2, <1>3, <2>1, <2>4 DEF ExactOf, Before, Silent
  <2> QED
    BY <1>5, <2>2, <2>3, <2>4 DEF Invoke, StreamOpened, WorkFails, WorkerGoes
<1>6. CASE WorkDone(o)
  <2>1. pc[o] = "working"
    BY <1>6 DEF WorkDone
  <2>2. CASE pc' = [pc EXCEPT ![o] = "failing"]
    BY <1>1, <1>2, <1>3, <2>1, <2>2 DEF ExactOf, Before
  <2>3. CASE pc' = [pc EXCEPT ![o] = "publishing"] /\ inst' = [inst EXCEPT ![o] = @ \union {<<o, 1>>}]
    <3>1. inst'[o] = state \union {<<o, 1>>}
      BY <1>2, <2>1, <2>3 DEF ExactOf
    <3> QED
      BY <1>1, <1>2, <1>3, <2>1, <2>3, <3>1 DEF ExactOf, Before, Silent
  <2> QED
    BY <1>6, <2>2, <2>3 DEF WorkDone, WorkerGoes
<1>7. CASE Resume(o) /\ o \notin cancelled
  <2>1. pc[o] \in {"replying", "failing", "opening"} /\ inst' = inst
    BY <1>7 DEF Resume
  <2>2. CASE pc' = [pc EXCEPT ![o] = "body"]
    BY <1>1, <1>2, <1>3, <2>1, <2>2 DEF ExactOf, Before
  <2>3. CASE pc' = [pc EXCEPT ![o] = "stream"] /\ pc[o] = "opening"
    <3>1. o \notin pulling /\ o \in Streams /\ inst[o] = state /\ frame[o] = 0 /\ Silent(o)
      BY <1>2, <2>3 DEF Inv, PullsAreStreams, ExactOf, Before
    <3>2. \A n \in 1..MaxFrames : <<o, n>> \in state <=> n <= frame[o]
      BY <3>1 DEF Silent
    <3>3. pc'[o] = "stream" => ExactOf(o)'
      BY <1>1, <2>1, <3>1, <3>2 DEF ExactOf, Before
    <3> QED
      BY <1>3, <2>3, <3>3
  <2> QED
    BY <1>7, <2>2, <2>3 DEF Resume, Goes
<1> QED
  BY <1>4, <1>5, <1>6, <1>7

-----------------------------------------------------------------------------
(* The refinement *)

LEMMA ContractInitially == Init => Exact /\ Contract!ContractInit
<1> SUFFICES ASSUME Init PROVE Exact /\ Contract!ContractInit
  OBVIOUS
<1>1. Contract!ContractInit
  BY DEF Init, Contract!ContractInit
<1> QED
  BY <1>1 DEF Init, Exact, ExactOf, Silent

LEMMA StepImplements ==
  ASSUME Inv, Exact, [Next]_vars
  PROVE  Exact' /\ [Contract!ContractNext]_(Contract!contractVars)
<1>0. Inv'
  BY InvStep
<1>1. CASE UNCHANGED vars
  BY <1>1 DEF vars, scopeVars, callVars, Exact, ExactOf, Silent, Contract!contractVars
<1>2. ASSUME NEW o \in Ops, Progress(o)
      PROVE  Exact' /\ [Contract!ContractNext]_(Contract!contractVars)
  <2>1. CASE Resume(o)
    BY <1>0, <2>1, CallImplements, EndImplements
  <2> QED
    BY <1>0, <1>2, <2>1, ExecuteImplements, CallImplements, PublishImplements, EndImplements,
       PullImplements, FrameImplements DEF Progress
<1>3. ASSUME NEW o \in Ops, Abort(o)
      PROVE  Exact' /\ [Contract!ContractNext]_(Contract!contractVars)
  BY <1>3 DEF Abort, scopeVars, callVars, Exact, ExactOf, Silent, Contract!contractVars
<1>4. ASSUME NEW o \in Ops, Cancel(o)
      PROVE  Exact' /\ [Contract!ContractNext]_(Contract!contractVars)
  BY <1>0, <1>4, CancelImplements
<1> QED
  BY <1>1, <1>2, <1>3, <1>4 DEF Next

\* The coordinator and its Workers implement ScopeContract: execute(), cancel(), publish(),
\* stream frames and #finish() only take its steps, so that the actions of a scope run as if
\* one after the other and each adds exactly its own writes, in order, while it is served.
THEOREM Implementation == Spec => ImplementsScopeContract
<1>1. Init => Exact /\ Contract!ContractInit
  BY ContractInitially
<1>2. Inv /\ Exact /\ [Next]_vars => Exact' /\ [Contract!ContractNext]_(Contract!contractVars)
  BY StepImplements
<1> QED
  BY <1>1, <1>2, Invariance, PTL DEF Spec, ImplementsScopeContract, Contract!ContractSpec

=============================================================================
