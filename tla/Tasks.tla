------------------------------- MODULE Tasks -------------------------------
(***************************************************************************)
(* The @Task methods of one component: runTasks, _startTask,               *)
(* _runTaskCleanup, task.commit and the part of destroy() that ends them   *)
(* (core/src/shared/cossack.ts).                                           *)
(*                                                                         *)
(* Every change a task tracks starts a new execution of it.  The one       *)
(* before is aborted, its cleanup runs, and the new one starts when the    *)
(* cleanups registered so far are over, unless a newer one was requested   *)
(* meanwhile.  A setup that settles after it was aborted has its cleanup   *)
(* run late.  destroy() aborts everything, runs the cleanups and disposes  *)
(* the service scope when they are over.                                   *)
(*                                                                         *)
(* A step is the code between two awaits.  runTasks() visits the tasks in  *)
(* one step; here each is a step of its own, because a task's method may   *)
(* destroy the component before the next.  An execution is named by its    *)
(* task and its generation; what a setup acquires is whatever its cleanup  *)
(* gives back, and a setup that failed acquired nothing.                   *)
(***************************************************************************)
EXTENDS Naturals, Sequences

CONSTANTS
  Keys,    \* the names of the component's tasks
  MaxRuns  \* bound: MaxRuns[t], the executions requested of t

ASSUME TasksAssumption == MaxRuns \in [Keys -> Nat]

VARIABLES
  destroyed,  \* the component is in its Destroyed phase
  disposed,   \* its service scope is disposed
  generation, \* _taskGenerations, 0 before the first request
  current,    \* the execution whose controller is in _taskExecutions, or 0
  at,         \* at[t][g]: where the execution is
  waitsFor,   \* waitsFor[t][g]: whose cleanup the execution awaits before it starts
  registered, \* the execution whose cleanup is in _taskCleanups, or 0
  pending,    \* the cleanups behind _taskCleanupPending: running the first, then the others
  acquired,   \* acquired[t][g]: when the setup settled with something to clean up
  released,   \* released[t]: the executions whose cleanup is over
  awaited,    \* awaited[t]: whose cleanup the disposal of the scope awaits, or 0
  field       \* the execution whose task.commit() wrote the task's field last

execVars    == <<generation, current, at, waitsFor>>
cleanupVars == <<registered, pending, released>>
endVars     == <<destroyed, disposed, awaited>>
vars == <<execVars, cleanupVars, endVars, acquired, field>>

Runs(t) == 1..MaxRuns[t]

Init ==
  /\ destroyed = FALSE /\ disposed = FALSE
  /\ generation = [t \in Keys |-> 0] /\ current = [t \in Keys |-> 0]
  /\ at = [t \in Keys |-> [g \in Runs(t) |-> "none"]]
  /\ waitsFor = [t \in Keys |-> [g \in Runs(t) |-> 0]]
  /\ registered = [t \in Keys |-> 0] /\ pending = [t \in Keys |-> <<>>]
  /\ acquired = [t \in Keys |-> [g \in Runs(t) |-> "nothing"]]
  /\ released = [t \in Keys |-> {}]
  /\ awaited = [t \in Keys |-> 0]
  /\ field = [t \in Keys |-> 0]

\* The cleanup of g is still to end: it runs or is in line.
Unfinished(t, g) == \E n \in 1..Len(pending[t]) : pending[t][n] = g

LastOf(line) == IF line = <<>> THEN 0 ELSE line[Len(line)]

\* The signal of an execution that started is aborted.
Aborted(t, g) == current[t] # g

-----------------------------------------------------------------------------
(* _runTaskCleanup *)

\* A cleanup is called after the ones before it.  If there are none it is called
\* at once, and may be over at once too: it is synchronous, or it throws.
CleanUp(t, g) ==
  \/ /\ pending[t] = <<>>
     /\ released' = [released EXCEPT ![t] = @ \union {g}] /\ UNCHANGED pending
  \/ pending' = [pending EXCEPT ![t] = Append(@, g)] /\ UNCHANGED released

\* A cleanup settles, also by being rejected, and the next is called.
CleanupSettles(t) ==
  /\ pending[t] # <<>>
  /\ released' = [released EXCEPT ![t] = @ \union {Head(pending[t])}]
  /\ pending' = [pending EXCEPT ![t] = Tail(@)]
  /\ UNCHANGED <<execVars, registered, endVars, acquired, field>>

-----------------------------------------------------------------------------
(* runTasks and _startTask *)

\* Mutation of Begin: a request without a cleanup of its own does not wait.
BeginAtOnce(t, g) ==
  IF registered[t] = 0 \/ pending'[t] = <<>>
  THEN /\ at' = [at EXCEPT ![t][g] = "setup"]
       /\ current' = [current EXCEPT ![t] = g] /\ UNCHANGED waitsFor
  ELSE /\ at' = [at EXCEPT ![t][g] = "waiting"]
       /\ current' = [current EXCEPT ![t] = 0]
       /\ waitsFor' = [waitsFor EXCEPT ![t][g] = LastOf(pending'[t])]

\* The execution before is aborted, and g starts, or awaits the last cleanup.
Begin(t, g) ==
  IF pending'[t] = <<>>
  THEN /\ at' = [at EXCEPT ![t][g] = "setup"]
       /\ current' = [current EXCEPT ![t] = g] /\ UNCHANGED waitsFor
  ELSE /\ at' = [at EXCEPT ![t][g] = "waiting"]
       /\ current' = [current EXCEPT ![t] = 0]
       /\ waitsFor' = [waitsFor EXCEPT ![t][g] = LastOf(pending'[t])]

\* runTasks() reaches a task that a change concerns.
Request(t) ==
  /\ ~destroyed /\ generation[t] < MaxRuns[t]
  /\ generation' = [generation EXCEPT ![t] = @ + 1]
  /\ IF registered[t] # 0 THEN CleanUp(t, registered[t]) ELSE UNCHANGED <<pending, released>>
  /\ registered' = [registered EXCEPT ![t] = 0]
  /\ Begin(t, generation[t] + 1)
  /\ UNCHANGED <<endVars, acquired, field>>

\* A newer execution was requested, or there is no component any more.
Superseded(t, g) == destroyed \/ generation[t] # g

\* The cleanups awaited are over: the execution starts, unless it was superseded.
Start(t, g) ==
  /\ at[t][g] = "waiting" /\ ~Unfinished(t, waitsFor[t][g])
  /\ IF Superseded(t, g)
     THEN at' = [at EXCEPT ![t][g] = "over"] /\ UNCHANGED current
     ELSE /\ at' = [at EXCEPT ![t][g] = "setup"]
          /\ current' = [current EXCEPT ![t] = g]
  /\ UNCHANGED <<generation, waitsFor, cleanupVars, endVars, acquired, field>>

\* The setup settles with nothing to clean up, or fails.
SetupEmpty(t, g) ==
  /\ at[t][g] = "setup"
  /\ at' = [at EXCEPT ![t][g] = "over"]
  /\ UNCHANGED <<generation, current, waitsFor, cleanupVars, endVars, acquired, field>>

\* Mutation of SetupAcquires: the cleanup of an aborted setup is forgotten.
SetupForgets(t, g) ==
  /\ at[t][g] = "setup"
  /\ at' = [at EXCEPT ![t][g] = "over"]
  /\ acquired' = [acquired EXCEPT ![t][g] =
                    IF ~Aborted(t, g) THEN "owned" ELSE IF destroyed THEN "afterwards" ELSE "late"]
  /\ registered' = IF Aborted(t, g) THEN registered ELSE [registered EXCEPT ![t] = g]
  /\ UNCHANGED <<generation, current, waitsFor, pending, released, endVars, field>>

\* The setup settles with a cleanup: it is registered, or run late.
SetupAcquires(t, g) ==
  /\ at[t][g] = "setup"
  /\ at' = [at EXCEPT ![t][g] = "over"]
  /\ acquired' = [acquired EXCEPT ![t][g] =
                    IF ~Aborted(t, g) THEN "owned" ELSE IF destroyed THEN "afterwards" ELSE "late"]
  /\ IF Aborted(t, g)
     THEN CleanUp(t, g) /\ UNCHANGED registered
     ELSE registered' = [registered EXCEPT ![t] = g] /\ UNCHANGED <<pending, released>>
  /\ UNCHANGED <<generation, current, waitsFor, endVars, field>>

\* Mutation of IsCurrent: only the abort of a destroyed component is looked at.
IsCurrentUntilDestroyed(t, g) == ~destroyed

\* current() of _createTaskContext.
IsCurrent(t, g) == ~Aborted(t, g) /\ ~destroyed

\* task.commit(), from code of an execution that started, at any later time.
Commit(t, g) ==
  /\ at[t][g] \in {"setup", "over"} /\ IsCurrent(t, g)
  /\ field' = [field EXCEPT ![t] = g]
  /\ UNCHANGED <<execVars, cleanupVars, endVars, acquired>>

-----------------------------------------------------------------------------
(* destroy *)

\* Mutation of Awaited: only the cleanups that destroy() itself runs are awaited.
AwaitedOwn(t) == IF registered[t] # 0 THEN LastOf(pending'[t]) ELSE 0

\* The last cleanup of the task that the disposal of the scope awaits.
Awaited(t) == LastOf(pending'[t])

\* Every signal is aborted, then every registered cleanup is run.
Destroy ==
  /\ ~destroyed /\ destroyed' = TRUE
  /\ current' = [t \in Keys |-> 0]
  /\ \E now \in SUBSET {t \in Keys : registered[t] # 0 /\ pending[t] = <<>>} :
       /\ released' = [t \in Keys |->
            IF t \in now THEN released[t] \union {registered[t]} ELSE released[t]]
       /\ pending' = [t \in Keys |->
            IF t \in now \/ registered[t] = 0 THEN pending[t] ELSE Append(pending[t], registered[t])]
  /\ registered' = [t \in Keys |-> 0]
  /\ awaited' = [t \in Keys |-> Awaited(t)]
  /\ UNCHANGED <<generation, at, waitsFor, disposed, acquired, field>>

\* The cleanups destroy() found are over: the services can go.
DisposeScope ==
  /\ destroyed /\ ~disposed
  /\ \A t \in Keys : ~Unfinished(t, awaited[t])
  /\ disposed' = TRUE
  /\ UNCHANGED <<execVars, cleanupVars, destroyed, awaited, acquired, field>>

-----------------------------------------------------------------------------
Next ==
  \/ \E t \in Keys :
       \/ Request(t) \/ CleanupSettles(t)
       \/ \E g \in Runs(t) :
            Start(t, g) \/ SetupEmpty(t, g) \/ SetupAcquires(t, g) \/ Commit(t, g)
  \/ Destroy \/ DisposeScope

Spec == Init /\ [][Next]_vars

\* The application's cleanups settle; its setups need not.
FairSpec ==
  /\ Spec /\ WF_vars(DisposeScope)
  /\ \A t \in Keys : WF_vars(CleanupSettles(t)) /\ WF_vars(\E g \in Runs(t) : Start(t, g))

-----------------------------------------------------------------------------
\* Every variable keeps its type.
TypeOK ==
  /\ destroyed \in BOOLEAN /\ disposed \in BOOLEAN
  /\ {generation, current, registered, awaited, field} \subseteq [Keys -> Nat]
  /\ \A t \in Keys : {generation[t], current[t], registered[t]} \subseteq 0..MaxRuns[t]
  /\ DOMAIN at = Keys /\ DOMAIN waitsFor = Keys /\ DOMAIN acquired = Keys
  /\ DOMAIN pending = Keys /\ DOMAIN released = Keys
  /\ \A t \in Keys :
       /\ at[t] \in [Runs(t) -> {"none", "waiting", "setup", "over"}]
       /\ waitsFor[t] \in [Runs(t) -> Nat]
       /\ acquired[t] \in [Runs(t) -> {"nothing", "owned", "late", "afterwards"}]
       /\ pending[t] \in Seq(Runs(t))
       /\ released[t] \subseteq Runs(t)

\* What the execution acquired has not been given back yet.
Holds(t, g) == acquired[t][g] # "nothing" /\ g \notin released[t]

\* "Repeated executions wait for that task's registered cleanup": while an execution
\* owns its task, nothing that an execution before it had registered is still held,
\* whatever requests and late setups came in between; and no cleanup runs twice.
OneOwner ==
  \A t \in Keys :
    /\ \A g, h \in Runs(t) : current[t] = g /\ h # g /\ acquired[t][h] = "owned" => ~Holds(t, h)
    /\ \A m, n \in 1..Len(pending[t]) : pending[t][m] = pending[t][n] => m = n
    /\ \A g \in released[t] : ~Unfinished(t, g) /\ registered[t] # g

\* The scope's services outlive every cleanup that destroy() could know of: one that
\* is still to run then belongs to a setup that settled afterwards.
ScopeOutlivesCleanups ==
  disposed => \A t \in Keys : \A g \in Runs(t) : Holds(t, g) => acquired[t][g] = "afterwards"

\* "A slow first execution cannot overwrite the results of a newer execution": a commit
\* is the newest request's, even while that one still awaits a cleanup, and nothing is
\* committed to a destroyed component.
NewestCommits ==
  [][\A t \in Keys : field'[t] # field[t] => field'[t] = generation[t] /\ ~destroyed]_vars

\* Nothing leaks: what an execution acquired is given back once a newer one was
\* requested or the component was destroyed, also when the setup settled too late, and
\* the newest request does not wait forever.
NothingLeaks ==
  \A t \in Keys : \A g \in Runs(t) :
    /\ Holds(t, g) /\ (destroyed \/ generation[t] > g) ~> ~Holds(t, g)
    /\ at[t][g] = "waiting" ~> at[t][g] # "waiting"
=============================================================================
