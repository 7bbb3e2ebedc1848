----------------------------- MODULE TasksProofs -----------------------------
(***************************************************************************)
(* Proofs about Tasks for any number of tasks and executions: no execution *)
(* owns its task while an earlier one's registered cleanup is unfinished,  *)
(* only the newest commits, and the services outlive the cleanups.         *)
(*                                                                         *)
(* The argument: cleanups of a task end in the order in which they joined  *)
(* its line, so that the end of the last one awaited is the end of all     *)
(* before it, and whatever joins the line later was never owned.           *)
(***************************************************************************)
EXTENDS Tasks, SequenceTheorems, TLAPS

-----------------------------------------------------------------------------
(* Lines of cleanups *)

Elements(q) == {q[n] : n \in 1..Len(q)}
Distinct(q) == \A m, n \in 1..Len(q) : q[m] = q[n] => m = n

\* The elements of q that end no later than w does.
UpTo(q, w) == {q[n] : n \in {k \in 1..Len(q) : \E m \in k..Len(q) : q[m] = w}}

\* A cleanup joins the line.
LEMMA JoinLine ==
  ASSUME NEW S, NEW q \in Seq(S), NEW x \in S
  PROVE  /\ Append(q, x) \in Seq(S) /\ Append(q, x) # <<>> /\ LastOf(Append(q, x)) = x
         /\ Elements(Append(q, x)) = Elements(q) \union {x}
         /\ \A w : UpTo(q, w) \subseteq UpTo(Append(q, x), w)
         /\ Distinct(q) /\ x \notin Elements(q) => Distinct(Append(q, x))
<1> DEFINE r == Append(q, x)
<1>1. /\ r \in Seq(S) /\ r # <<>>
      /\ Len(r) = Len(q) + 1 /\ Len(q) \in Nat
      /\ \A n \in 1..Len(q) : r[n] = q[n]
      /\ r[Len(q) + 1] = x
  BY AppendProperties
<1> HIDE DEF r
<1>2. Elements(r) = Elements(q) \union {x}
  BY <1>1 DEF Elements
<1>3. \A w : UpTo(q, w) \subseteq UpTo(r, w)
  BY <1>1 DEF UpTo
<1>4. Distinct(q) /\ x \notin Elements(q) => Distinct(r)
  BY <1>1 DEF Distinct, Elements
<1>5. LastOf(r) = x
  BY <1>1 DEF LastOf
<1> QED
  BY <1>1, <1>2, <1>3, <1>4, <1>5 DEF r

\* The first of the line ends.
LEMMA LeaveLine ==
  ASSUME NEW S, NEW q \in Seq(S), q # <<>>
  PROVE  /\ Tail(q) \in Seq(S) /\ Head(q) \in S
         /\ Elements(q) = Elements(Tail(q)) \union {Head(q)}
         /\ \A w : UpTo(q, w) \subseteq UpTo(Tail(q), w) \union {Head(q)}
         /\ Distinct(q) => Distinct(Tail(q)) /\ Head(q) \notin Elements(Tail(q))
<1> DEFINE r == Tail(q)
<1>1. /\ r \in Seq(S) /\ Head(q) = q[1] /\ q[1] \in S
      /\ Len(q) = Len(r) + 1 /\ Len(r) \in Nat
      /\ \A n \in 1..Len(r) : r[n] = q[n + 1]
  BY HeadTailProperties
<1> HIDE DEF r
<1>2. \A n \in 1..Len(q) : n = 1 \/ (n - 1 \in 1..Len(r) /\ r[n - 1] = q[n])
  BY <1>1
<1>3. Elements(q) = Elements(r) \union {q[1]}
  <2>1. Elements(r) \union {q[1]} \subseteq Elements(q)
    BY <1>1 DEF Elements
  <2>2. Elements(q) \subseteq Elements(r) \union {q[1]}
    BY <1>2 DEF Elements
  <2> QED
    BY <2>1, <2>2
<1>4. ASSUME NEW w, NEW k \in 1..Len(q), NEW m \in k..Len(q), q[m] = w, k # 1
      PROVE  q[k] \in UpTo(r, w)
  <2>1. k - 1 \in 1..Len(r) /\ r[k - 1] = q[k]
    BY <1>2, <1>4
  <2>2. m - 1 \in (k - 1)..Len(r) /\ r[m - 1] = w
    BY <1>1, <1>2, <1>4
  <2> QED
    BY <2>1, <2>2 DEF UpTo
<1>5. \A w : UpTo(q, w) \subseteq UpTo(r, w) \union {q[1]}
  BY <1>4 DEF UpTo
<1>6. Distinct(q) => Distinct(r) /\ q[1] \notin Elements(r)
  <2>1. Distinct(q) => Distinct(r)
    BY <1>1 DEF Distinct
  <2>2. Distinct(q) => \A n \in 1..Len(r) : r[n] # q[1]
    BY <1>1 DEF Distinct
  <2> QED
    BY <2>1, <2>2 DEF Elements
<1> QED
  BY <1>1, <1>3, <1>5, <1>6 DEF r

\* Everything in a line ends no later than its last element.
LEMMA WholeLine ==
  ASSUME NEW S, NEW q \in Seq(S), q # <<>>
  PROVE  UpTo(q, LastOf(q)) = Elements(q) /\ LastOf(q) \in Elements(q)
<1>1. Len(q) \in Nat \ {0}
  BY EmptySeq, LenProperties
<1> QED
  BY <1>1 DEF UpTo, LastOf, Elements

\* Nothing ends no later than what is not in the line.
LEMMA NotInLine ==
  ASSUME NEW S, NEW q \in Seq(S), NEW w, w \notin Elements(q)
  PROVE  UpTo(q, w) = {}
BY DEF UpTo, Elements

-----------------------------------------------------------------------------
(* The inductive invariant *)

Owned(t, g) == acquired[t][g] = "owned"
InLine(t) == Elements(pending[t])

\* Requests: only the newest one can be current, and while it waits nobody is.
Newest(t) ==
  /\ current[t] \in {0, generation[t]}
  /\ registered[t] # 0 => registered[t] = current[t]
  /\ \A g \in Runs(t) : g > generation[t] => at[t][g] = "none"
  /\ \A g \in Runs(t) : g = generation[t] /\ at[t][g] = "waiting" => current[t] = 0
  /\ destroyed => current[t] = 0

\* Cleanups: what was acquired is registered, in line or released, and only one of them.
Accounted(t) ==
  /\ Distinct(pending[t])
  /\ InLine(t) \intersect released[t] = {}
  /\ registered[t] \notin InLine(t) \union released[t]
  /\ \A g \in Runs(t) :
       /\ g \in InLine(t) \union released[t] \/ g = registered[t] => at[t][g] = "over"
       /\ at[t][g] # "over" => acquired[t][g] = "nothing"
       /\ acquired[t][g] # "nothing" => g = registered[t] \/ g \in InLine(t) \union released[t]

\* Ownership: what others owned is released once an execution is current, and in line
\* no later than what the newest execution waits for while that one waits.
Ownership(t) ==
  \A g, h \in Runs(t) : Owned(t, h) /\ h # g /\ h \notin released[t] =>
    /\ current[t] # g
    /\ g = generation[t] /\ at[t][g] = "waiting" /\ ~destroyed
         => h \in UpTo(pending[t], waitsFor[t][g])

\* The end: destroy() awaits what is in line then.
Ending(t) ==
  /\ disposed => destroyed
  /\ destroyed => \A g \in Runs(t) : Holds(t, g) /\ acquired[t][g] # "afterwards" =>
       ~disposed /\ g \in UpTo(pending[t], awaited[t])

TaskInv(t) == Newest(t) /\ Accounted(t) /\ Ownership(t) /\ Ending(t)

Inv == TypeOK /\ \A t \in Keys : TaskInv(t)

-----------------------------------------------------------------------------
(* What steps do to one task *)

\* One entry of one task is changed.
LEMMA PutOne ==
  ASSUME NEW f, DOMAIN f = Keys, NEW V, \A u \in Keys : f[u] \in [Runs(u) -> V],
         NEW t \in Keys, NEW g \in Runs(t), NEW x \in V
  PROVE  /\ DOMAIN [f EXCEPT ![t][g] = x] = Keys
         /\ \A u \in Keys : [f EXCEPT ![t][g] = x][u] \in [Runs(u) -> V]
         /\ \A u \in Keys : u # t => [f EXCEPT ![t][g] = x][u] = f[u]
         /\ [f EXCEPT ![t][g] = x][t] = [f[t] EXCEPT ![g] = x]
<1>1. [f[t] EXCEPT ![g] = x] \in [Runs(t) -> V]
  OBVIOUS
<1>2. [f EXCEPT ![t][g] = x] = [f EXCEPT ![t] = [f[t] EXCEPT ![g] = x]]
  OBVIOUS
<1> QED
  BY <1>1, <1>2

\* A cleanup that runs joins the line, or is over at once.
LEMMA CleanUpEffect ==
  ASSUME TypeOK, NEW t \in Keys, NEW g \in Runs(t), CleanUp(t, g)
  PROVE  /\ DOMAIN pending' = Keys /\ DOMAIN released' = Keys
         /\ \A u \in Keys : u # t => pending'[u] = pending[u] /\ released'[u] = released[u]
         /\ pending'[t] \in Seq(Runs(t)) /\ released'[t] \subseteq Runs(t)
         /\ InLine(t)' \union released'[t] = InLine(t) \union released[t] \union {g}
         /\ released[t] \subseteq released'[t]
         /\ \A w : UpTo(pending[t], w) \subseteq UpTo(pending'[t], w)
         /\ Distinct(pending[t]) /\ g \notin InLine(t) => Distinct(pending'[t])
         /\ g \notin InLine(t) \union released[t] /\ InLine(t) \intersect released[t] = {}
              => InLine(t)' \intersect released'[t] = {}
<1>1. pending[t] \in Seq(Runs(t)) /\ released[t] \subseteq Runs(t)
      /\ DOMAIN pending = Keys /\ DOMAIN released = Keys
  BY DEF TypeOK
<1>2. CASE pending[t] = <<>> /\ released' = [released EXCEPT ![t] = @ \union {g}] /\ UNCHANGED pending
  BY <1>1, <1>2 DEF InLine
<1>3. CASE pending' = [pending EXCEPT ![t] = Append(@, g)] /\ UNCHANGED released
  <2>1. pending'[t] = Append(pending[t], g)
    BY <1>1, <1>3
  <2>2. /\ pending'[t] \in Seq(Runs(t)) /\ InLine(t)' = InLine(t) \union {g}
        /\ \A w : UpTo(pending[t], w) \subseteq UpTo(pending'[t], w)
        /\ Distinct(pending[t]) /\ g \notin InLine(t) => Distinct(pending'[t])
    BY <1>1, <2>1, JoinLine DEF InLine
  <2> QED
    BY <1>1, <1>3, <2>2
<1> QED
  BY <1>2, <1>3 DEF CleanUp

\* Every variable keeps its type.
LEMMA TypeKept == TypeOK /\ [Next]_vars => TypeOK'
<1> SUFFICES ASSUME TypeOK, [Next]_vars PROVE TypeOK'
  OBVIOUS
<1> USE TasksAssumption
<1>0. \A t \in Keys : MaxRuns[t] \in Nat
  OBVIOUS
<1>1. ASSUME NEW t \in Keys, Request(t) PROVE TypeOK'
  <2> DEFINE g == generation[t] + 1
  <2>1. g \in Runs(t) /\ generation' = [generation EXCEPT ![t] = g]
    BY <1>0, <1>1 DEF TypeOK, Request, Runs
  <2>2. /\ DOMAIN pending' = Keys /\ DOMAIN released' = Keys
        /\ \A u \in Keys : pending'[u] \in Seq(Runs(u)) /\ released'[u] \subseteq Runs(u)
    <3>1. CASE registered[t] # 0
      <4>1. CleanUp(t, registered[t]) /\ registered[t] \in Runs(t)
        BY <1>0, <1>1, <3>1 DEF Request, TypeOK, Runs
      <4>2. /\ DOMAIN pending' = Keys /\ DOMAIN released' = Keys
            /\ \A u \in Keys : u # t => pending'[u] = pending[u] /\ released'[u] = released[u]
            /\ pending'[t] \in Seq(Runs(t)) /\ released'[t] \subseteq Runs(t)
        BY <4>1, CleanUpEffect
      <4> QED
        BY <4>2 DEF TypeOK
    <3>2. CASE registered[t] = 0
      BY <1>1, <3>2 DEF Request, TypeOK
    <3> QED
      BY <3>1, <3>2
  <2>3. /\ registered' = [registered EXCEPT ![t] = 0]
        /\ UNCHANGED <<destroyed, disposed, awaited, acquired, field>>
    BY <1>1 DEF Request, endVars
  <2>4. PICK x \in {"setup", "waiting"}, y \in {0, g} :
          at' = [at EXCEPT ![t][g] = x] /\ current' = [current EXCEPT ![t] = y]
    BY <1>1 DEF Request, Begin
  <2>5. waitsFor' = waitsFor \/ waitsFor' = [waitsFor EXCEPT ![t][g] = LastOf(pending'[t])]
    BY <1>1 DEF Request, Begin
  <2>6. LastOf(pending'[t]) \in Nat
    BY <2>2, WholeLine DEF LastOf, Runs, Elements
  <2> HIDE DEF g
  <2>7. /\ DOMAIN waitsFor' = Keys
        /\ \A u \in Keys : waitsFor'[u] \in [Runs(u) -> Nat]
    <3>1. DOMAIN waitsFor = Keys /\ \A u \in Keys : waitsFor[u] \in [Runs(u) -> Nat]
      BY DEF TypeOK
    <3>2. \A w \in Nat :
            /\ DOMAIN [waitsFor EXCEPT ![t][g] = w] = Keys
            /\ \A u \in Keys : [waitsFor EXCEPT ![t][g] = w][u] \in [Runs(u) -> Nat]
      BY <2>1, <3>1, PutOne
    <3> QED
      BY <2>5, <2>6, <3>1, <3>2
  <2>8. /\ DOMAIN at' = Keys
        /\ \A u \in Keys : at'[u] \in [Runs(u) -> {"none", "waiting", "setup", "over"}]
    BY <2>1, <2>4, PutOne DEF TypeOK
  <2>9. /\ {generation', current', registered', awaited', field'} \subseteq [Keys -> Nat]
        /\ \A u \in Keys : {generation'[u], current'[u], registered'[u]} \subseteq 0..MaxRuns[u]
    <3>1. g \in 0..MaxRuns[t] /\ y \in 0..MaxRuns[t] /\ g \in Nat /\ y \in Nat
      BY <1>0, <2>1, <2>4 DEF Runs
    <3>2. generation' \in [Keys -> Nat] /\ \A u \in Keys : generation'[u] \in 0..MaxRuns[u]
      BY <2>1, <3>1 DEF TypeOK
    <3>3. current' \in [Keys -> Nat] /\ \A u \in Keys : current'[u] \in 0..MaxRuns[u]
      BY <2>4, <3>1 DEF TypeOK
    <3>4. registered' \in [Keys -> Nat] /\ \A u \in Keys : registered'[u] \in 0..MaxRuns[u]
      BY <1>0, <2>3 DEF TypeOK
    <3>5. {awaited', field'} \subseteq [Keys -> Nat]
      BY <2>3 DEF TypeOK
    <3> QED
      BY <3>2, <3>3, <3>4, <3>5
  <2> QED
    BY <2>2, <2>3, <2>7, <2>8, <2>9 DEF TypeOK
<1>2. ASSUME NEW t \in Keys, CleanupSettles(t) PROVE TypeOK'
  <2>1. /\ pending[t] \in Seq(Runs(t)) /\ pending[t] # <<>>
        /\ released' = [released EXCEPT ![t] = @ \union {Head(pending[t])}]
        /\ pending' = [pending EXCEPT ![t] = Tail(@)]
    BY <1>2 DEF CleanupSettles, TypeOK
  <2>2. Tail(pending[t]) \in Seq(Runs(t)) /\ Head(pending[t]) \in Runs(t)
    BY <2>1, LeaveLine
  <2>3. UNCHANGED <<generation, current, at, waitsFor, registered, destroyed, disposed, awaited,
                    acquired, field>>
    BY <1>2 DEF CleanupSettles, execVars, endVars
  <2>4. /\ DOMAIN pending' = Keys /\ DOMAIN released' = Keys
        /\ \A u \in Keys : pending'[u] \in Seq(Runs(u)) /\ released'[u] \subseteq Runs(u)
    BY <2>1, <2>2 DEF TypeOK
  <2> QED
    BY <2>3, <2>4 DEF TypeOK
<1>3. ASSUME NEW t \in Keys, NEW g \in Runs(t), Start(t, g) \/ SetupEmpty(t, g) PROVE TypeOK'
  <2>1. g \in 0..MaxRuns[t] /\ g \in Nat
    BY <1>0 DEF Runs
  <2>2. /\ at' = [at EXCEPT ![t][g] = "over"] \/ at' = [at EXCEPT ![t][g] = "setup"]
        /\ current' = current \/ current' = [current EXCEPT ![t] = g]
    BY <1>3 DEF Start, SetupEmpty
  <2>3. UNCHANGED <<generation, waitsFor, registered, pending, released, destroyed, disposed,
                    awaited, acquired, field>>
    BY <1>3 DEF Start, SetupEmpty, cleanupVars, endVars
  <2>4. /\ DOMAIN at' = Keys
        /\ \A u \in Keys : at'[u] \in [Runs(u) -> {"none", "waiting", "setup", "over"}]
    <3>1. \A u \in Keys : at[u] \in [Runs(u) -> {"none", "waiting", "setup", "over"}]
      BY DEF TypeOK
    <3>2. DOMAIN at = Keys
      BY DEF TypeOK
    <3>3. \A x \in {"none", "waiting", "setup", "over"} :
            /\ DOMAIN [at EXCEPT ![t][g] = x] = Keys
            /\ \A u \in Keys : [at EXCEPT ![t][g] = x][u] \in [Runs(u) -> {"none", "waiting", "setup", "over"}]
      BY <3>1, <3>2, PutOne
    <3> QED
      BY <2>2, <3>3
  <2>5. current' \in [Keys -> Nat] /\ \A u \in Keys : current'[u] \in 0..MaxRuns[u]
    <3>1. current \in [Keys -> Nat] /\ \A u \in Keys : current[u] \in 0..MaxRuns[u]
      BY DEF TypeOK
    <3>2. CASE current' = current
      BY <3>1, <3>2
    <3>3. CASE current' = [current EXCEPT ![t] = g]
      BY <2>1, <3>1, <3>3
    <3> QED
      BY <2>2, <3>2, <3>3
  <2>6. /\ {generation', current', registered', awaited', field'} \subseteq [Keys -> Nat]
        /\ \A u \in Keys : {generation'[u], current'[u], registered'[u]} \subseteq 0..MaxRuns[u]
    BY <2>3, <2>5 DEF TypeOK
  <2> QED
    BY <2>3, <2>4, <2>6 DEF TypeOK
<1>4. ASSUME NEW t \in Keys, NEW g \in Runs(t), SetupAcquires(t, g) PROVE TypeOK'
  <2>1. g \in 0..MaxRuns[t] /\ g \in Nat
    BY <1>0 DEF Runs
  <2>2. /\ DOMAIN pending' = Keys /\ DOMAIN released' = Keys
        /\ \A u \in Keys : pending'[u] \in Seq(Runs(u)) /\ released'[u] \subseteq Runs(u)
        /\ registered' = registered \/ registered' = [registered EXCEPT ![t] = g]
    <3>1. CASE Aborted(t, g)
      <4>1. CleanUp(t, g) /\ UNCHANGED registered
        BY <1>4, <3>1 DEF SetupAcquires
      <4>2. /\ DOMAIN pending' = Keys /\ DOMAIN released' = Keys
            /\ \A u \in Keys : u # t => pending'[u] = pending[u] /\ released'[u] = released[u]
            /\ pending'[t] \in Seq(Runs(t)) /\ released'[t] \subseteq Runs(t)
        BY <4>1, CleanUpEffect
      <4> QED
        BY <4>1, <4>2 DEF TypeOK
    <3>2. CASE ~Aborted(t, g)
      BY <1>4, <3>2 DEF SetupAcquires, TypeOK
    <3> QED
      BY <3>1, <3>2
  <2>3. PICK x \in {"owned", "late", "afterwards"} : acquired' = [acquired EXCEPT ![t][g] = x]
    BY <1>4 DEF SetupAcquires
  <2>4. /\ at' = [at EXCEPT ![t][g] = "over"]
        /\ UNCHANGED <<generation, current, waitsFor, destroyed, disposed, awaited, field>>
    BY <1>4 DEF SetupAcquires, endVars
  <2>5. /\ DOMAIN at' = Keys
        /\ \A u \in Keys : at'[u] \in [Runs(u) -> {"none", "waiting", "setup", "over"}]
    BY <2>4 DEF TypeOK
  <2>6. /\ DOMAIN acquired' = Keys
        /\ \A u \in Keys : acquired'[u] \in [Runs(u) -> {"nothing", "owned", "late", "afterwards"}]
    BY <2>3 DEF TypeOK
  <2>7. registered' \in [Keys -> Nat] /\ \A u \in Keys : registered'[u] \in 0..MaxRuns[u]
    <3>1. registered \in [Keys -> Nat] /\ \A u \in Keys : registered[u] \in 0..MaxRuns[u]
      BY DEF TypeOK
    <3>2. CASE registered' = registered
      BY <3>1, <3>2
    <3>3. CASE registered' = [registered EXCEPT ![t] = g]
      BY <2>1, <3>1, <3>3
    <3> QED
      BY <2>2, <3>2, <3>3
  <2>8. /\ {generation', current', registered', awaited', field'} \subseteq [Keys -> Nat]
        /\ \A u \in Keys : {generation'[u], current'[u], registered'[u]} \subseteq 0..MaxRuns[u]
    BY <2>4, <2>7 DEF TypeOK
  <2>9. /\ destroyed' \in BOOLEAN /\ disposed' \in BOOLEAN
        /\ DOMAIN waitsFor' = Keys /\ \A u \in Keys : waitsFor'[u] \in [Runs(u) -> Nat]
    BY <2>4 DEF TypeOK
  <2> QED
    BY <2>2, <2>5, <2>6, <2>8, <2>9 DEF TypeOK
<1>5. ASSUME NEW t \in Keys, NEW g \in Runs(t), Commit(t, g) PROVE TypeOK'
  <2>1. /\ field' = [field EXCEPT ![t] = g]
        /\ UNCHANGED <<generation, current, at, waitsFor, registered, pending, released,
                       destroyed, disposed, awaited, acquired>>
    BY <1>5 DEF Commit, execVars, cleanupVars, endVars
  <2>2. g \in Nat
    BY TasksAssumption DEF Runs
  <2>3. field' \in [Keys -> Nat]
    BY <2>1, <2>2 DEF TypeOK
  <2>4. {generation', current', registered', awaited', field'} \subseteq [Keys -> Nat]
    BY <2>1, <2>3 DEF TypeOK
  <2> QED
    BY <2>1, <2>4 DEF TypeOK
<1>6. ASSUME Destroy PROVE TypeOK'
  <2>1. PICK now \in SUBSET {t \in Keys : registered[t] # 0 /\ pending[t] = <<>>} :
          /\ released' = [t \in Keys |->
               IF t \in now THEN released[t] \union {registered[t]} ELSE released[t]]
          /\ pending' = [t \in Keys |->
               IF t \in now \/ registered[t] = 0 THEN pending[t] ELSE Append(pending[t], registered[t])]
    BY <1>6 DEF Destroy
  <2>2. \A t \in Keys : registered[t] # 0 => registered[t] \in Runs(t)
    BY <1>0 DEF TypeOK, Runs
  <2>3. \A t \in Keys : registered[t] # 0 => Append(pending[t], registered[t]) \in Seq(Runs(t))
    BY <2>2, JoinLine DEF TypeOK
  <2>4. /\ DOMAIN pending' = Keys /\ DOMAIN released' = Keys
        /\ \A u \in Keys : pending'[u] \in Seq(Runs(u)) /\ released'[u] \subseteq Runs(u)
    BY <2>1, <2>2, <2>3 DEF TypeOK
  <2>5. \A t \in Keys : LastOf(pending'[t]) \in Nat
    BY <2>4, WholeLine DEF LastOf, Runs, Elements
  <2>6. /\ destroyed' = TRUE /\ current' = [t \in Keys |-> 0] /\ registered' = [t \in Keys |-> 0]
        /\ awaited' = [t \in Keys |-> LastOf(pending'[t])]
        /\ UNCHANGED <<generation, at, waitsFor, disposed, acquired, field>>
    BY <1>6 DEF Destroy, Awaited
  <2>7. awaited' \in [Keys -> Nat]
    BY <2>5, <2>6
  <2> QED
    BY <1>0, <2>4, <2>6, <2>7 DEF TypeOK
<1>7. ASSUME DisposeScope PROVE TypeOK'
  BY <1>7 DEF DisposeScope, TypeOK, execVars, cleanupVars
<1>8. CASE UNCHANGED vars
  BY <1>8 DEF vars, execVars, cleanupVars, endVars, TypeOK
<1> QED
  BY <1>1, <1>2, <1>3, <1>4, <1>5, <1>6, <1>7, <1>8 DEF Next

-----------------------------------------------------------------------------
(* Each step keeps the invariant *)

\* What a step of one task leaves of another.
LEMMA Untouched ==
  ASSUME NEW u \in Keys, TaskInv(u),
         UNCHANGED <<generation[u], current[u], at[u], waitsFor[u], registered[u], pending[u],
                     acquired[u], released[u], awaited[u], destroyed, disposed>>
  PROVE  TaskInv(u)'
BY DEF TaskInv, Newest, Accounted, Ownership, Ending, Owned, InLine, Holds, Runs

\* A line joined by the cleanups in X, or with X over at once, loses nothing.
Joined(t, X) ==
  /\ pending'[t] \in Seq(Runs(t)) /\ released'[t] \subseteq Runs(t)
  /\ InLine(t)' \union released'[t] = InLine(t) \union released[t] \union X
  /\ released[t] \subseteq released'[t]
  /\ \A w : UpTo(pending[t], w) \subseteq UpTo(pending'[t], w)
  /\ Distinct(pending'[t])
  /\ InLine(t)' \intersect released'[t] = {}

\* The registered cleanup of a task is run, if there is one.
LEMMA RegisteredJoins ==
  ASSUME TypeOK, NEW t \in Keys, Accounted(t),
         IF registered[t] # 0 THEN CleanUp(t, registered[t]) ELSE UNCHANGED <<pending, released>>
  PROVE  Joined(t, {registered[t]} \ {0})
<1>1. MaxRuns[t] \in Nat
  BY TasksAssumption
<1>2. CASE registered[t] # 0
  <2>1. registered[t] \in Runs(t) /\ CleanUp(t, registered[t])
    BY <1>1, <1>2 DEF TypeOK, Runs
  <2> QED
    BY <1>2, <2>1, CleanUpEffect DEF Joined, Accounted
<1>3. CASE registered[t] = 0
  BY <1>3 DEF TypeOK, Joined, Accounted, InLine
<1> QED
  BY <1>2, <1>3

LEMMA RequestKeeps ==
  ASSUME TypeOK, TypeOK', NEW t \in Keys, TaskInv(t), Request(t)
  PROVE  TaskInv(t)'
<1> DEFINE g == generation[t] + 1
<1>1. /\ generation[t] \in Nat /\ g \in Nat /\ g \in Runs(t) /\ g > generation[t] /\ g # 0
      /\ \A h \in Runs(t) : h \in Nat /\ h # 0
  BY TasksAssumption DEF TypeOK, Request, Runs
<1>2. /\ generation'[t] = g /\ registered'[t] = 0 /\ acquired' = acquired
      /\ destroyed = FALSE /\ destroyed' = FALSE /\ disposed' = disposed
  BY DEF Request, TypeOK, endVars
<1>3. Joined(t, {registered[t]} \ {0})
  BY RegisteredJoins DEF Request, TaskInv
<1>4. at[t][g] = "none" /\ acquired[t][g] = "nothing"
  BY <1>1 DEF TaskInv, Newest, Accounted
<1>5. /\ at'[t] = [at[t] EXCEPT ![g] = "setup"] \/ at'[t] = [at[t] EXCEPT ![g] = "waiting"]
      /\ \/ pending'[t] = <<>> /\ current'[t] = g /\ at'[t] = [at[t] EXCEPT ![g] = "setup"]
         \/ pending'[t] # <<>> /\ current'[t] = 0 /\ waitsFor'[t][g] = LastOf(pending'[t])
  BY <1>1 DEF Request, Begin, TypeOK
<1> HIDE DEF g
<1>6. /\ \A h \in Runs(t) : h # g => at'[t][h] = at[t][h]
      /\ at'[t][g] \in {"setup", "waiting"}
      /\ at'[t][g] = "waiting" => current'[t] = 0
  BY <1>1, <1>5 DEF TypeOK
<1>7. Newest(t)'
  <2>1. \A h \in Runs(t) : h > g => at'[t][h] = "none"
    <3>1. \A h \in Runs(t) : h > g => h > generation[t] /\ h # g
      BY <1>1
    <3> QED
      BY <1>6, <3>1 DEF TaskInv, Newest
  <2> QED
    BY <1>2, <1>5, <1>6, <2>1 DEF Newest, Runs
<1>8. Accounted(t)'
  <2>1. \A h \in InLine(t) \union released[t] \union ({registered[t]} \ {0}) :
           h \in Runs(t) /\ at[t][h] = "over"
    <3>1. MaxRuns[t] \in Nat /\ pending[t] \in Seq(Runs(t)) /\ released[t] \subseteq Runs(t)
          /\ registered[t] \in 0..MaxRuns[t]
      BY TasksAssumption DEF TypeOK
    <3>2. InLine(t) \subseteq Runs(t) /\ {registered[t]} \ {0} \subseteq Runs(t)
      BY <3>1 DEF InLine, Elements, Runs
    <3>3. \A h \in Runs(t) :
             h \in InLine(t) \union released[t] \/ h = registered[t] => at[t][h] = "over"
      BY DEF TaskInv, Accounted
    <3> QED
      BY <3>1, <3>2, <3>3
  <2>2. \A h \in InLine(t)' \union released'[t] : h \in Runs(t) /\ at'[t][h] = "over" /\ h # 0
    BY <1>1, <1>3, <1>4, <1>6, <2>1 DEF Joined
  <2>3. \A h \in Runs(t) : acquired[t][h] # "nothing" => h \in InLine(t)' \union released'[t]
    BY <1>1, <1>3 DEF TaskInv, Accounted, Joined
  <2>4. \A h \in Runs(t) : at'[t][h] # "over" => acquired[t][h] = "nothing"
    BY <1>4, <1>6 DEF TaskInv, Accounted
  <2> QED
    BY <1>1, <1>2, <1>3, <2>2, <2>3, <2>4 DEF Accounted, Joined, Runs
<1>9. Ownership(t)'
  <2>1. \A h \in Runs(t) : Owned(t, h) /\ h \notin released'[t] => h \in InLine(t)'
    BY <1>1, <1>3 DEF TaskInv, Accounted, Joined, Owned
  <2>2. CASE pending'[t] = <<>>
    BY <1>2, <2>1, <2>2 DEF Ownership, Owned, InLine, Elements, Runs
  <2>3. CASE pending'[t] # <<>>
    <3>1. current'[t] = 0 /\ waitsFor'[t][g] = LastOf(pending'[t])
      BY <1>5, <2>3
    <3>2. UpTo(pending'[t], waitsFor'[t][g]) = InLine(t)'
      BY <1>3, <2>3, <3>1, WholeLine DEF InLine, Joined
    <3> QED
      BY <1>1, <1>2, <2>1, <3>1, <3>2 DEF Ownership, Owned, Runs
  <2> QED
    BY <2>2, <2>3
<1>10. Ending(t)'
  BY <1>2 DEF TaskInv, Ending
<1> QED
  BY <1>7, <1>8, <1>9, <1>10 DEF TaskInv

LEMMA CleanupSettlesKeeps ==
  ASSUME TypeOK, NEW t \in Keys, TaskInv(t), CleanupSettles(t)
  PROVE  TaskInv(t)'
<1> DEFINE x == Head(pending[t])
<1>1. /\ pending[t] \in Seq(Runs(t)) /\ pending[t] # <<>>
      /\ released'[t] = released[t] \union {x} /\ pending'[t] = Tail(pending[t])
      /\ UNCHANGED <<generation, current, at, waitsFor, registered, destroyed, disposed, awaited,
                     acquired>>
  BY DEF CleanupSettles, TypeOK, execVars, endVars
<1>2. /\ InLine(t) = InLine(t)' \union {x}
      /\ \A w : UpTo(pending[t], w) \subseteq UpTo(pending'[t], w) \union {x}
      /\ Distinct(pending[t]) => Distinct(pending'[t]) /\ x \notin InLine(t)'
  BY <1>1, LeaveLine DEF InLine
<1> HIDE DEF x
<1>3. Newest(t)'
  BY <1>1 DEF TaskInv, Newest, Runs
<1>4. Accounted(t)'
  BY <1>1, <1>2 DEF TaskInv, Accounted, Runs
<1>5. Ownership(t)'
  BY <1>1, <1>2 DEF TaskInv, Ownership, Owned, Runs
<1>6. Ending(t)'
  BY <1>1, <1>2 DEF TaskInv, Ending, Holds, Runs
<1> QED
  BY <1>3, <1>4, <1>5, <1>6 DEF TaskInv

LEMMA StartKeeps ==
  ASSUME TypeOK, NEW t \in Keys, NEW g \in Runs(t), TaskInv(t), Start(t, g)
  PROVE  TaskInv(t)'
<1>1. /\ at[t][g] = "waiting" /\ waitsFor[t][g] \notin InLine(t) /\ g # 0
      /\ UNCHANGED <<generation, waitsFor, registered, pending, released, destroyed, disposed,
                     awaited, acquired>>
  <2>1. /\ at[t][g] = "waiting" /\ ~Unfinished(t, waitsFor[t][g])
        /\ UNCHANGED <<generation, waitsFor, registered, pending, released, destroyed, disposed,
                       awaited, acquired>>
    BY DEF Start, cleanupVars, endVars
  <2>2. waitsFor[t][g] \notin InLine(t)
    BY <2>1 DEF Unfinished, InLine, Elements
  <2>3. g # 0
    BY TasksAssumption DEF Runs
  <2> QED
    BY <2>1, <2>2, <2>3
<1>2. UpTo(pending[t], waitsFor[t][g]) = {}
  BY <1>1, NotInLine DEF TypeOK, InLine
<1>3. at'[t][g] # "waiting" /\ \A h \in Runs(t) : h # g => at'[t][h] = at[t][h]
  BY DEF Start, TypeOK
<1>4. g \notin InLine(t) \union released[t] /\ g # registered[t] /\ acquired[t][g] = "nothing"
  BY <1>1 DEF TaskInv, Accounted
<1>5. Accounted(t)'
  BY <1>1, <1>3, <1>4 DEF TaskInv, Accounted, InLine, Runs
<1>6. Ending(t)'
  BY <1>1 DEF TaskInv, Ending, Holds, Runs
<1>7. g <= generation[t]
  <2>1. MaxRuns[t] \in Nat /\ generation[t] \in Nat /\ g \in Nat
    BY TasksAssumption DEF Runs, TypeOK
  <2>2. ~(g > generation[t])
    BY <1>1 DEF TaskInv, Newest
  <2> QED
    BY <2>1, <2>2
<1>8. \A h \in Runs(t) : h > generation[t] => at'[t][h] = "none"
  <2>1. \A h \in Runs(t) : h > generation[t] => h # g
    BY <1>7, TasksAssumption DEF Runs, TypeOK
  <2> QED
    BY <1>3, <2>1 DEF TaskInv, Newest
<1>9. CASE Superseded(t, g)
  <2>1. UNCHANGED current
    BY <1>9 DEF Start
  <2>2. Newest(t)'
    BY <1>1, <1>3, <1>8, <2>1 DEF TaskInv, Newest, Runs
  <2>3. Ownership(t)'
    BY <1>1, <1>3, <2>1 DEF TaskInv, Ownership, Owned, Runs
  <2> QED
    BY <1>5, <1>6, <2>2, <2>3 DEF TaskInv
<1>10. CASE ~Superseded(t, g)
  <2>1. current'[t] = g /\ generation[t] = g /\ destroyed = FALSE
    BY <1>10 DEF Start, Superseded, TypeOK
  <2>2. registered[t] = 0
    BY <1>1, <2>1 DEF TaskInv, Newest
  <2>3. Newest(t)'
    BY <1>1, <1>3, <1>8, <2>1, <2>2 DEF TaskInv, Newest, Runs
  <2>4. \A h \in Runs(t) : Owned(t, h) /\ h # g => h \in released[t]
    BY <1>1, <1>2, <2>1 DEF TaskInv, Ownership
  <2>5. Ownership(t)'
    BY <1>1, <1>3, <2>1, <2>4 DEF Ownership, Owned, Runs
  <2> QED
    BY <1>5, <1>6, <2>3, <2>5 DEF TaskInv
<1> QED
  BY <1>9, <1>10

LEMMA SetupEmptyKeeps ==
  ASSUME TypeOK, NEW t \in Keys, NEW g \in Runs(t), TaskInv(t), SetupEmpty(t, g)
  PROVE  TaskInv(t)'
<1>1. /\ at[t][g] = "setup" /\ at'[t][g] = "over"
      /\ \A h \in Runs(t) : h # g => at'[t][h] = at[t][h]
      /\ UNCHANGED <<generation, current, waitsFor, registered, pending, released, destroyed,
                     disposed, awaited, acquired>>
  BY DEF SetupEmpty, TypeOK, cleanupVars, endVars
<1>2. Newest(t)'
  BY <1>1 DEF TaskInv, Newest, Runs
<1>3. Accounted(t)'
  BY <1>1 DEF TaskInv, Accounted, InLine, Runs
<1>4. Ownership(t)'
  BY <1>1 DEF TaskInv, Ownership, Owned, Runs
<1>5. Ending(t)'
  BY <1>1 DEF TaskInv, Ending, Holds, Runs
<1> QED
  BY <1>2, <1>3, <1>4, <1>5 DEF TaskInv

LEMMA SetupAcquiresKeeps ==
  ASSUME TypeOK, NEW t \in Keys, NEW g \in Runs(t), TaskInv(t), SetupAcquires(t, g)
  PROVE  TaskInv(t)'
<1>1. /\ at[t][g] = "setup" /\ at'[t][g] = "over" /\ g # 0
      /\ \A h \in Runs(t) : h # g => at'[t][h] = at[t][h] /\ acquired'[t][h] = acquired[t][h]
      /\ UNCHANGED <<generation, current, waitsFor, destroyed, disposed, awaited>>
  <2>1. MaxRuns[t] \in Nat /\ g # 0
    BY TasksAssumption DEF Runs
  <2>2. DOMAIN at = Keys /\ at[t] \in [Runs(t) -> {"none", "waiting", "setup", "over"}]
        /\ DOMAIN acquired = Keys
        /\ acquired[t] \in [Runs(t) -> {"nothing", "owned", "late", "afterwards"}]
    BY DEF TypeOK
  <2>3. at[t][g] = "setup" /\ at'[t] = [at[t] EXCEPT ![g] = "over"]
    BY <2>2 DEF SetupAcquires
  <2>4. \A h \in Runs(t) : h # g => acquired'[t][h] = acquired[t][h]
    BY <2>2 DEF SetupAcquires
  <2> QED
    BY <2>1, <2>2, <2>3, <2>4 DEF SetupAcquires, endVars
<1>2. g \notin InLine(t) \union released[t] /\ g # registered[t]
  BY <1>1 DEF TaskInv, Accounted
<1>3. acquired'[t][g] =
        IF ~Aborted(t, g) THEN "owned" ELSE IF destroyed THEN "afterwards" ELSE "late"
  BY DEF SetupAcquires, TypeOK
<1>4. CASE Aborted(t, g)
  <2>1. Joined(t, {g}) /\ registered' = registered
    BY <1>2, <1>4, CleanUpEffect DEF SetupAcquires, TaskInv, Accounted, Joined
  <2>2. acquired'[t][g] = IF destroyed THEN "afterwards" ELSE "late"
    BY <1>3, <1>4
  <2>3. Newest(t)'
    BY <1>1, <2>1 DEF TaskInv, Newest, Runs
  <2>4. Accounted(t)'
    BY <1>1, <1>2, <2>1 DEF TaskInv, Accounted, Joined, Runs
  <2>5. Ownership(t)'
    BY <1>1, <2>1, <2>2 DEF TaskInv, Ownership, Owned, Joined, Runs
  <2>6. Ending(t)'
    BY <1>1, <2>1, <2>2 DEF TaskInv, Ending, Holds, Joined, Runs
  <2> QED
    BY <2>3, <2>4, <2>5, <2>6 DEF TaskInv
<1>5. CASE ~Aborted(t, g)
  <2>1. current[t] = g /\ acquired'[t][g] = "owned"
    BY <1>3, <1>5 DEF Aborted
  <2>2. registered'[t] = g /\ UNCHANGED <<pending, released>>
    BY <1>5 DEF SetupAcquires, TypeOK
  <2>3. registered[t] = 0 /\ generation[t] = g /\ destroyed = FALSE /\ disposed = FALSE
    BY <1>1, <1>2, <2>1 DEF TaskInv, Newest, Ending, TypeOK
  <2>4. Newest(t)'
    BY <1>1, <2>1, <2>2 DEF TaskInv, Newest, Runs
  <2>5. Accounted(t)'
    BY <1>1, <1>2, <2>2, <2>3 DEF TaskInv, Accounted, InLine, Runs
  <2>6. Ownership(t)'
    BY <1>1, <2>1, <2>2, <2>3 DEF TaskInv, Ownership, Owned, Runs
  <2>7. Ending(t)'
    BY <1>1, <2>3 DEF Ending
  <2> QED
    BY <2>4, <2>5, <2>6, <2>7 DEF TaskInv
<1> QED
  BY <1>4, <1>5

LEMMA DestroyKeeps ==
  ASSUME TypeOK, NEW t \in Keys, TaskInv(t), Destroy
  PROVE  TaskInv(t)'
<1> DEFINE r == registered[t]
<1>1. /\ destroyed = FALSE /\ destroyed' = TRUE /\ current'[t] = 0 /\ registered'[t] = 0
      /\ awaited'[t] = LastOf(pending'[t])
      /\ UNCHANGED <<generation, at, waitsFor, disposed, acquired>>
  BY DEF Destroy, Awaited, TypeOK
<1>2. disposed' = FALSE
  BY <1>1 DEF TaskInv, Ending, TypeOK
<1>3. /\ MaxRuns[t] \in Nat /\ pending[t] \in Seq(Runs(t)) /\ released[t] \subseteq Runs(t)
      /\ r # 0 => r \in Runs(t)
      /\ \A h \in Runs(t) : h # 0
  BY TasksAssumption DEF TypeOK, Runs
<1>4. \/ r = 0 /\ pending'[t] = pending[t] /\ released'[t] = released[t]
      \/ r # 0 /\ pending[t] = <<>> /\ pending'[t] = pending[t]
         /\ released'[t] = released[t] \union {r}
      \/ r # 0 /\ pending'[t] = Append(pending[t], r) /\ released'[t] = released[t]
  BY DEF Destroy
<1> HIDE DEF r
<1>5. Joined(t, {r} \ {0})
  <2>1. Distinct(pending[t]) /\ InLine(t) \intersect released[t] = {}
        /\ r \notin InLine(t) \union released[t]
    BY DEF TaskInv, Accounted, r
  <2>2. CASE pending'[t] = pending[t]
    BY <1>3, <1>4, <2>1, <2>2 DEF Joined, InLine
  <2>3. CASE r # 0 /\ pending'[t] = Append(pending[t], r) /\ released'[t] = released[t]
    <3>1. /\ pending'[t] \in Seq(Runs(t)) /\ InLine(t)' = InLine(t) \union {r}
          /\ \A w : UpTo(pending[t], w) \subseteq UpTo(pending'[t], w)
          /\ Distinct(pending'[t])
      BY <1>3, <2>1, <2>3, JoinLine DEF InLine
    <3> QED
      BY <1>3, <2>1, <2>3, <3>1 DEF Joined
  <2> QED
    BY <1>4, <2>2, <2>3
<1>6. InLine(t)' \subseteq UpTo(pending'[t], awaited'[t])
  <2>1. CASE pending'[t] = <<>>
    BY <2>1 DEF InLine, Elements
  <2>2. CASE pending'[t] # <<>>
    BY <1>1, <1>5, <2>2, WholeLine DEF InLine, Joined
  <2> QED
    BY <2>1, <2>2
<1>7. \A h \in Runs(t) : acquired[t][h] # "nothing" /\ h \notin released'[t] => h \in InLine(t)'
  BY <1>3, <1>5 DEF TaskInv, Accounted, Joined, r
<1>8. Newest(t)'
  BY <1>1 DEF TaskInv, Newest, Runs
<1>9. Accounted(t)'
  <2>1. \A h \in Runs(t) : h \in InLine(t) \union released[t] \/ h = r => at[t][h] = "over"
    BY DEF TaskInv, Accounted, r
  <2>2. \A h \in InLine(t)' \union released'[t] : h \in Runs(t)
    BY <1>5 DEF Joined, InLine, Elements
  <2>3. \A h \in InLine(t)' \union released'[t] : at[t][h] = "over" /\ h # 0
    BY <1>3, <1>5, <2>1, <2>2 DEF Joined
  <2>4. \A h \in Runs(t) : at[t][h] # "over" => acquired[t][h] = "nothing"
    BY DEF TaskInv, Accounted
  <2>5. \A h \in Runs(t) : acquired[t][h] # "nothing" => h \in InLine(t)' \union released'[t]
    BY <1>7
  <2> QED
    BY <1>1, <1>3, <1>5, <2>3, <2>4, <2>5 DEF Accounted, Joined, Runs
<1>10. Ownership(t)'
  BY <1>1, <1>3 DEF Ownership, Runs
<1>11. Ending(t)'
  BY <1>1, <1>2, <1>6, <1>7 DEF Ending, Holds, Runs
<1> QED
  BY <1>8, <1>9, <1>10, <1>11 DEF TaskInv

LEMMA DisposeScopeKeeps ==
  ASSUME TypeOK, NEW t \in Keys, TaskInv(t), DisposeScope
  PROVE  TaskInv(t)'
<1>1. /\ destroyed /\ awaited[t] \notin InLine(t)
      /\ UNCHANGED <<execVars, cleanupVars, destroyed, awaited, acquired>>
  BY DEF DisposeScope, Unfinished, InLine, Elements
<1>2. UpTo(pending[t], awaited[t]) = {}
  BY <1>1, NotInLine DEF TypeOK, InLine
<1>3. Newest(t)' /\ Accounted(t)' /\ Ownership(t)'
  BY <1>1 DEF TaskInv, Newest, Accounted, Ownership, InLine, Owned, Runs, execVars, cleanupVars
<1>4. Ending(t)'
  BY <1>1, <1>2 DEF TaskInv, Ending, Holds, Runs, cleanupVars
<1> QED
  BY <1>3, <1>4 DEF TaskInv

-----------------------------------------------------------------------------
(* The theorems *)

\* What a step of one task may change.
LEMMA OtherTasks ==
  ASSUME TypeOK, NEW t \in Keys, NEW u \in Keys, u # t,
         \/ Request(t) \/ CleanupSettles(t)
         \/ \E g \in Runs(t) : Start(t, g) \/ SetupEmpty(t, g) \/ SetupAcquires(t, g)
  PROVE  UNCHANGED <<generation[u], current[u], at[u], waitsFor[u], registered[u], pending[u],
                     acquired[u], released[u], awaited[u], destroyed, disposed>>
<1>1. CASE Request(t)
  BY <1>1 DEF Request, Begin, CleanUp, endVars, TypeOK
<1>2. CASE CleanupSettles(t)
  BY <1>2 DEF CleanupSettles, execVars, endVars, TypeOK
<1>3. ASSUME NEW g \in Runs(t), Start(t, g)
      PROVE  UNCHANGED <<generation[u], current[u], at[u], waitsFor[u], registered[u], pending[u],
                         acquired[u], released[u], awaited[u], destroyed, disposed>>
  BY <1>3 DEF Start, cleanupVars, endVars, TypeOK
<1>4. ASSUME NEW g \in Runs(t), SetupEmpty(t, g)
      PROVE  UNCHANGED <<generation[u], current[u], at[u], waitsFor[u], registered[u], pending[u],
                         acquired[u], released[u], awaited[u], destroyed, disposed>>
  BY <1>4 DEF SetupEmpty, cleanupVars, endVars, TypeOK
<1>5. ASSUME NEW g \in Runs(t), SetupAcquires(t, g)
      PROVE  UNCHANGED <<generation[u], current[u], at[u], waitsFor[u], registered[u], pending[u],
                         acquired[u], released[u], awaited[u], destroyed, disposed>>
  BY <1>5 DEF SetupAcquires, CleanUp, endVars, TypeOK
<1> QED
  BY <1>1, <1>2, <1>3, <1>4, <1>5

LEMMA InitInv == Init => Inv
<1> SUFFICES ASSUME Init PROVE Inv
  OBVIOUS
<1>1. \A t \in Keys : MaxRuns[t] \in Nat
  BY TasksAssumption
<1>2. TypeOK
  <2>1. /\ {generation, current, registered, awaited, field} \subseteq [Keys -> Nat]
        /\ \A t \in Keys : {generation[t], current[t], registered[t]} \subseteq 0..MaxRuns[t]
    BY <1>1 DEF Init
  <2>2. \A t \in Keys : pending[t] \in Seq(Runs(t)) /\ released[t] \subseteq Runs(t)
    BY EmptySeq DEF Init
  <2>3. \A t \in Keys :
          /\ at[t] \in [Runs(t) -> {"none", "waiting", "setup", "over"}]
          /\ waitsFor[t] \in [Runs(t) -> Nat]
          /\ acquired[t] \in [Runs(t) -> {"nothing", "owned", "late", "afterwards"}]
    BY DEF Init
  <2> QED
    BY <2>1, <2>2, <2>3 DEF Init, TypeOK
<1>3. ASSUME NEW t \in Keys PROVE TaskInv(t)
  <2>1. /\ InLine(t) = {} /\ released[t] = {} /\ registered[t] = 0 /\ Distinct(pending[t])
        /\ current[t] = 0 /\ destroyed = FALSE /\ disposed = FALSE
        /\ \A g \in Runs(t) : at[t][g] = "none" /\ acquired[t][g] = "nothing" /\ g # 0
    BY <1>1, <1>3 DEF Init, InLine, Elements, Distinct, Runs
  <2> QED
    BY <2>1 DEF TaskInv, Newest, Accounted, Ownership, Ending, Owned
<1> QED
  BY <1>2, <1>3 DEF Inv

\* The invariant is inductive: every step of every task keeps it.
LEMMA NextInv == Inv /\ [Next]_vars => Inv'
<1> SUFFICES ASSUME Inv, [Next]_vars PROVE Inv'
  OBVIOUS
<1>1. TypeOK /\ TypeOK'
  BY TypeKept DEF Inv
<1>2. \A u \in Keys : TaskInv(u)
  BY DEF Inv
<1> SUFFICES ASSUME NEW u \in Keys PROVE TaskInv(u)'
  BY <1>1 DEF Inv
<1>3. ASSUME NEW t \in Keys,
             \/ Request(t) \/ CleanupSettles(t)
             \/ \E g \in Runs(t) : Start(t, g) \/ SetupEmpty(t, g) \/ SetupAcquires(t, g)
      PROVE  TaskInv(u)'
  <2>1. CASE u = t
    BY <1>1, <1>2, <1>3, <2>1, RequestKeeps, CleanupSettlesKeeps, StartKeeps, SetupEmptyKeeps,
       SetupAcquiresKeeps
  <2>2. CASE u # t
    BY <1>1, <1>2, <1>3, <2>2, OtherTasks, Untouched
  <2> QED
    BY <2>1, <2>2
<1>4. ASSUME NEW t \in Keys, NEW g \in Runs(t), Commit(t, g) PROVE TaskInv(u)'
  BY <1>2, <1>4, Untouched DEF Commit, execVars, cleanupVars, endVars
<1>5. CASE Destroy
  BY <1>1, <1>2, <1>5, DestroyKeeps
<1>6. CASE DisposeScope
  BY <1>1, <1>2, <1>6, DisposeScopeKeeps
<1>7. CASE UNCHANGED vars
  BY <1>2, <1>7, Untouched DEF vars, execVars, cleanupVars, endVars
<1> QED
  BY <1>3, <1>4, <1>5, <1>6, <1>7 DEF Next

\* The bookkeeping of runTasks, _startTask, _runTaskCleanup and destroy: the inductive
\* invariant holds of every reachable state.
THEOREM Invariance == Spec => []Inv
BY InitInv, NextInv, PTL DEF Spec

\* Every variable of the task bookkeeping keeps its type.
THEOREM TypeCorrect == Spec => []TypeOK
<1>1. Inv => TypeOK
  BY DEF Inv
<1> QED
  BY <1>1, Invariance, PTL

\* The invariant gives the ownership of a task to one execution.
LEMMA InvOneOwner == Inv => OneOwner
<1> SUFFICES ASSUME Inv, NEW t \in Keys
    PROVE /\ \A g, h \in Runs(t) : current[t] = g /\ h # g /\ acquired[t][h] = "owned" => ~Holds(t, h)
          /\ \A m, n \in 1..Len(pending[t]) : pending[t][m] = pending[t][n] => m = n
          /\ \A g \in released[t] : ~Unfinished(t, g) /\ registered[t] # g
  BY DEF OneOwner
<1>1. Accounted(t) /\ Ownership(t)
  BY DEF Inv, TaskInv
<1>2. \A g, h \in Runs(t) : current[t] = g /\ h # g /\ acquired[t][h] = "owned" => ~Holds(t, h)
  BY <1>1 DEF Ownership, Owned, Holds
<1>3. \A g \in released[t] : ~Unfinished(t, g) /\ registered[t] # g
  BY <1>1 DEF Accounted, InLine, Elements, Unfinished
<1> QED
  BY <1>1, <1>2, <1>3 DEF Accounted, Distinct

\* _startTask awaits the cleanups in line: no execution owns its task while the cleanup
\* an earlier one registered is still to end, and _runTaskCleanup runs none twice.
THEOREM OwnersAreAlone == Spec => []OneOwner
BY Invariance, InvOneOwner, PTL

\* destroy() disposes the service scope after every cleanup it could know of.
THEOREM ServicesOutliveCleanups == Spec => []ScopeOutlivesCleanups
<1>1. Inv => ScopeOutlivesCleanups
  BY DEF Inv, TaskInv, Ending, ScopeOutlivesCleanups
<1> QED
  BY <1>1, Invariance, PTL

\* A commit through _createTaskContext is the newest request's, of a live component.
THEOREM OnlyTheNewestCommits == Spec => NewestCommits
<1>1. ASSUME Inv, [Next]_vars
      PROVE  [\A t \in Keys : field'[t] # field[t] => field'[t] = generation[t] /\ ~destroyed]_vars
  <2> SUFFICES ASSUME NEW t \in Keys, field'[t] # field[t]
               PROVE  field'[t] = generation[t] /\ ~destroyed
    OBVIOUS
  <2>1. PICK u \in Keys : \E g \in Runs(u) : Commit(u, g)
    BY <1>1 DEF Next, Request, CleanupSettles, Start, SetupEmpty, SetupAcquires, Destroy,
       DisposeScope, vars
  <2>2. PICK g \in Runs(u) : Commit(u, g)
    BY <2>1
  <2>3. field' = [field EXCEPT ![u] = g] /\ current[u] = g /\ ~destroyed
    BY <2>2 DEF Commit, IsCurrent, Aborted
  <2>4. field \in [Keys -> Nat] /\ current[u] \in {0, generation[u]} /\ g # 0
    BY <1>1, TasksAssumption DEF Inv, TypeOK, TaskInv, Newest, Runs
  <2> QED
    BY <2>3, <2>4
<1> QED
  BY <1>1, Invariance, PTL DEF Spec, NewestCommits
=============================================================================
