------------------------------ MODULE Migrations ------------------------------
(***************************************************************************)
(* MigrationRunner (database/src/migration/runner.ts) on one database:     *)
(* up, down, plan, applyPlan, rehash and baseline, from several processes  *)
(* and successive releases of the application.                             *)
(*                                                                         *)
(* A migration is a list of statements, each of which makes (up) or drops  *)
(* (down) one object.  A squashed migration makes what those it replaces   *)
(* make.  In mode "atomic" the driver runs a migration and its bookkeeping *)
(* in one transaction or one batch; in mode "steps" it has neither, or is  *)
(* MySQL, whose DDL commits, and every statement stands alone.             *)
(*                                                                         *)
(* Either a deployment lock admits one command at a time ("locked"), or    *)
(* the instances of a release all run up() as they start.                  *)
(***************************************************************************)
EXTENDS Integers, Sequences, FiniteSets, SequencesExt

CONSTANTS
  Runners,    \* processes with a MigrationRunner
  Releases,   \* sequence: name -> checksum of the migrations of each release
  Content,    \* name -> sequence of the objects its statements make
  Replaces,   \* name -> migrations it replaces; {} when it is not a squash
  Data,       \* objects whose statements succeed however often they run
  MaxRuns,    \* bound: commands
  MaxCrashes  \* bound: processes that die

Names == DOMAIN Content
Objects == UNION {ToSet(Content[m]) : m \in Names}
Baseline == 0  \* the row of baseline(), whose name is no migration's

ASSUME ReleasesAssumption ==
  /\ Names \subseteq Nat \ {Baseline} /\ Replaces \in [Names -> SUBSET Names]
  /\ \A n \in DOMAIN Releases : DOMAIN Releases[n] \subseteq Names
ASSUME BoundsAssumption == {MaxRuns, MaxCrashes} \subseteq Nat

VARIABLES
  mode, locked,  \* see above
  history,       \* rows of _cossack_migrations
  objects,       \* objects[o]: how often o was made, less how often it was dropped
  release,       \* the newest release
  run,           \* run[r]: the command at work in r
  plan,          \* the plan under review
  log,           \* history: the migrations recorded, in the order they were
  torn,          \* history: migrations a runner left between two statements, for good
  approved,      \* history: the last plan applied, and what became of it
  runs, crashes  \* counters for the bounds

vars == <<mode, locked, history, objects, release, run, plan, log, torn, approved, runs, crashes>>

Row(m, checksum, batch) == [name |-> m, checksum |-> checksum, batch |-> batch]
Entry(m, how) == [name |-> m, how |-> how]
Idle == [kind |-> "idle"]
NoPlan == [entries |-> <<>>]

Init ==
  /\ mode \in {"atomic", "steps"} /\ locked \in BOOLEAN
  /\ history = {} /\ objects = [o \in Objects |-> 0]
  /\ release = 1
  /\ run = [r \in Runners |-> Idle]
  /\ plan = NoPlan
  /\ log = <<>> /\ torn = {} /\ approved = [entries |-> <<>>, done |-> <<>>]
  /\ runs = 0 /\ crashes = 0

-----------------------------------------------------------------------------
(* Reading the history *)

Recorded(rows) == {row.name : row \in rows}

\* Checksums no longer match: the state "changed" of status().
Changed(defs) == \E row \in history : row.name \in DOMAIN defs /\ defs[row.name] # row.checksum

\* Pending migrations, in the order of their names.
Pending(defs) == SetToSortSeq(DOMAIN defs \ Recorded(history), <)

\* Applied migrations of these definitions, the newest batch first.
Newest(defs) ==
  LET later(a, b) == a.batch > b.batch \/ (a.batch = b.batch /\ a.name > b.name)
      rows == SetToSortSeq({row \in history : row.name \in DOMAIN defs}, later)
  IN [n \in DOMAIN rows |-> rows[n].name]

First(s, n) == SubSeq(s, 1, IF n < Len(s) THEN n ELSE Len(s))
Later(a, b) == IF a > b THEN a ELSE b

\* Mutation of LastBatch: every command is the first batch.
NoBatchYet == 0

LastBatch == FoldSet(LAMBDA row, top : Later(row.batch, top), 0, history)

\* How up() will carry out m over this history.
How(m) ==
  LET hit == Replaces[m] \intersect Recorded(history)
  IN IF Replaces[m] # {} /\ hit = Replaces[m] THEN "consolidate"
     ELSE IF hit # {} THEN "reject" ELSE "apply"

-----------------------------------------------------------------------------
(* Executing a migration *)

Creates(m) == [n \in DOMAIN Content[m] |-> [op |-> "create", on |-> Content[m][n]]]
Drops(m) == [n \in DOMAIN Content[m] |-> [op |-> "drop", on |-> Reverse(Content[m])[n]]]
Deletes(names) == LET s == SetToSortSeq(names, <) IN [n \in DOMAIN s |-> [op |-> "delete", on |-> s[n]]]
Insert(row) == <<[op |-> "insert", on |-> row]>>

\* The schema statements of a migration, then its bookkeeping.
Statements(entry, row) ==
  CASE entry.how = "apply" -> Creates(entry.name) \o Insert(row)
    [] entry.how = "consolidate" -> Deletes(Replaces[entry.name]) \o Insert(row)
    [] entry.how = "revert" -> Drops(entry.name) \o Deletes({entry.name})

\* The database executes statement s: an object is not made twice, and the name is
\* the primary key of the history.
Accepts(db, s) ==
  CASE s.op = "create" -> s.on \in Data \/ db.objects[s.on] = 0
    [] s.op = "drop" -> s.on \in Data \/ db.objects[s.on] > 0
    [] s.op = "insert" -> s.on.name \notin Recorded(db.history)
    [] OTHER -> TRUE

Executed(db, s) ==
  IF db.failed \/ ~Accepts(db, s) THEN [db EXCEPT !.failed = TRUE]
  ELSE CASE s.op = "create" -> [db EXCEPT !.objects[s.on] = @ + 1]
         [] s.op = "drop" -> [db EXCEPT !.objects[s.on] = @ - 1]
         [] s.op = "insert" -> [db EXCEPT !.history = @ \union {s.on}]
         [] s.op = "delete" -> [db EXCEPT !.history = {row \in @ : row.name # s.on}]

Database == [objects |-> objects, history |-> history, failed |-> FALSE]

-----------------------------------------------------------------------------
(* Commands *)

\* A command begins: alone if there is a lock, else it is one of the up() of a start.
Admitted(r, kind) ==
  /\ run[r] = Idle /\ runs < MaxRuns /\ runs' = runs + 1
  /\ IF locked THEN \A q \in Runners : run[q] = Idle ELSE kind \in {"up", "plan", "baseline"}

Command(kind, defs, todo, at) ==
  [kind |-> kind, defs |-> defs, todo |-> todo, at |-> at,
   batch |-> 0, how |-> "apply", line |-> 1, limit |-> 0, planned |-> FALSE]

\* A new release is installed; without a lock, once the runs of the last one are over.
Deploy ==
  /\ release < Len(Releases) /\ release' = release + 1
  /\ locked \/ \A r \in Runners : run[r] = Idle
  /\ UNCHANGED <<mode, locked, history, objects, run, plan, log, torn, approved, runs, crashes>>

\* What up() and down() find to do: status(), after the check of the checksums.
Selected(kind, defs, limit) ==
  IF Changed(defs) THEN <<>>
  ELSE First(IF kind = "up" THEN Pending(defs) ELSE Newest(defs), limit)

Up(r) ==
  /\ Admitted(r, "up")
  /\ LET defs == Releases[release]
         todo == Selected("up", defs, Cardinality(DOMAIN defs))
     IN /\ todo # <<>>
        /\ run' = [run EXCEPT ![r] = Command("up", defs, todo, "batch")]
  /\ UNCHANGED <<mode, locked, history, objects, release, plan, log, torn, approved, crashes>>

Down(r) ==
  /\ Admitted(r, "down")
  /\ \E count \in {1, 2} :
       LET todo == Selected("down", Releases[release], count)
       IN /\ todo # <<>>
          /\ run' = [run EXCEPT ![r] = Command("down", Releases[release], todo, "next")]
  /\ UNCHANGED <<mode, locked, history, objects, release, plan, log, torn, approved, crashes>>

\* The second read of up(), for the batch number.
ReadBatch(r) ==
  /\ run[r] # Idle /\ run[r].at = "batch"
  /\ run' = [run EXCEPT ![r].batch = LastBatch + 1, ![r].at = "next"]
  /\ UNCHANGED <<mode, locked, history, objects, release, plan, log, torn, approved, runs, crashes>>

\* Mutation of Verdict: one replaced migration in the history is enough.
VerdictOfAny(kind, m) ==
  IF kind = "down" THEN "revert"
  ELSE IF Replaces[m] \intersect Recorded(history) # {} THEN "consolidate" ELSE "apply"

\* What happens to m.  A squashed migration cannot be reverted.
Verdict(kind, m) ==
  IF kind = "up" THEN How(m) ELSE IF Replaces[m] # {} THEN "reject" ELSE "revert"

\* up() reads the history again before a squash; a rejection ends the command.
Decide(r) ==
  /\ run[r] # Idle /\ run[r].at = "next"
  /\ LET how == Verdict(run[r].kind, Head(run[r].todo))
     IN run' = [run EXCEPT ![r] = IF how = "reject" THEN Idle
                                  ELSE [@ EXCEPT !.how = how, !.at = "write"]]
  /\ UNCHANGED <<mode, locked, history, objects, release, plan, log, torn, approved, runs, crashes>>

\* The log of the rows that are left, and of those that are new.
Logged(rows) ==
  SelectSeq(log, LAMBDA m : m \in Recorded(rows)) \o SetToSeq(Recorded(rows \ history) \ {Baseline})

\* The migration r has begun to execute, statement by statement.
Begun(r) == IF run[r] # Idle /\ run[r].line > 1 THEN {Head(run[r].todo)} ELSE {}

\* executeAtomic(): all the statements of the migration, or the next one.  A statement
\* that fails ends the command, and in mode "atomic" takes back the others.
Write(r) ==
  /\ run[r] # Idle /\ run[r].at = "write"
  /\ LET entry == Entry(Head(run[r].todo), run[r].how)
         all == Statements(entry, Row(entry.name, run[r].defs[entry.name], run[r].batch))
         next == IF mode = "atomic" THEN all ELSE <<all[run[r].line]>>
         db == FoldLeft(Executed, Database, next)
         last == mode = "atomic" \/ run[r].line = Len(all)
         rest == Tail(run[r].todo)
     IN IF db.failed
        THEN /\ run' = [run EXCEPT ![r] = Idle]
             /\ torn' = torn \union Begun(r)
             /\ UNCHANGED <<history, objects, log, approved>>
        ELSE /\ history' = db.history /\ objects' = db.objects /\ log' = Logged(db.history)
             /\ IF last
                THEN /\ approved' = IF run[r].planned THEN [approved EXCEPT !.done = Append(@, entry)]
                                    ELSE approved
                     /\ run' = [run EXCEPT ![r] = IF rest = <<>> THEN Idle
                                                  ELSE [@ EXCEPT !.todo = rest, !.at = "next", !.line = 1]]
                ELSE /\ run' = [run EXCEPT ![r].line = @ + 1]
                     /\ UNCHANGED approved
             /\ UNCHANGED torn
  /\ UNCHANGED <<mode, locked, release, plan, runs, crashes>>

-----------------------------------------------------------------------------
(* Plans, checksums, baselines *)

\* plan(): what a command would do to the history as it is.  A partly applied squash
\* or a changed checksum throws.
Plan(r) ==
  /\ Admitted(r, "plan")
  /\ \E kind \in {"up", "down"} :
       LET defs == Releases[release]
           chosen == Selected(kind, defs, IF kind = "up" THEN Cardinality(DOMAIN defs) ELSE 1)
           entries == [n \in DOMAIN chosen |-> Entry(chosen[n], Verdict(kind, chosen[n]))]
       IN /\ entries # <<>> /\ \A n \in DOMAIN entries : entries[n].how # "reject"
          /\ plan' = [entries |-> entries, by |-> r, kind |-> kind, defs |-> defs, history |-> history]
  /\ UNCHANGED <<mode, locked, history, objects, release, run, log, torn, approved, crashes>>

\* Mutation of IsCurrent: the plan is applied whatever happened since.
IsAlwaysCurrent == TRUE

\* The history is the one the plan was made for.
IsCurrent == plan.history = history

\* applyPlan(): a plan that is not stale is consumed ...
ApplyPlan(r) ==
  /\ plan # NoPlan /\ plan.by = r /\ IsCurrent
  /\ Admitted(r, plan.kind)
  /\ run' = [run EXCEPT ![r] =
       [Command(plan.kind, plan.defs, <<>>, "status") EXCEPT !.limit = Len(plan.entries), !.planned = TRUE]]
  /\ approved' = [entries |-> plan.entries, done |-> <<>>]
  /\ plan' = NoPlan
  /\ UNCHANGED <<mode, locked, history, objects, release, log, torn, crashes>>

\* ... and up() or down() reads the history for itself.
Status(r) ==
  /\ run[r] # Idle /\ run[r].at = "status"
  /\ LET todo == Selected(run[r].kind, run[r].defs, run[r].limit)
     IN run' = [run EXCEPT ![r] =
          IF todo = <<>> THEN Idle
          ELSE [@ EXCEPT !.todo = todo, !.at = IF run[r].kind = "up" THEN "batch" ELSE "next"]]
  /\ UNCHANGED <<mode, locked, history, objects, release, plan, log, torn, approved, runs, crashes>>

\* rehash(): the named rows get the checksums of this release.
Rehash(r) ==
  /\ Admitted(r, "rehash")
  /\ \E names \in SUBSET (DOMAIN Releases[release] \intersect Recorded(history)) :
       history' = {IF row.name \in names THEN [row EXCEPT !.checksum = Releases[release][row.name]] ELSE row
                   : row \in history}
  /\ history' # history
  /\ UNCHANGED <<mode, locked, objects, release, run, plan, log, torn, approved, crashes>>

\* baseline()
RecordBaseline(r) ==
  /\ Admitted(r, "baseline")
  /\ Baseline \notin Recorded(history)
  /\ history' = history \union {Row(Baseline, 1, 0)}
  /\ UNCHANGED <<mode, locked, objects, release, run, plan, log, torn, approved, crashes>>

\* The process dies, and its plan with it.
Crash(r) ==
  /\ run[r] # Idle /\ crashes < MaxCrashes /\ crashes' = crashes + 1
  /\ run' = [run EXCEPT ![r] = Idle]
  /\ torn' = torn \union Begun(r)
  /\ plan' = IF plan # NoPlan /\ plan.by = r THEN NoPlan ELSE plan
  /\ UNCHANGED <<mode, locked, history, objects, release, log, approved, runs>>

-----------------------------------------------------------------------------
Next ==
  \/ Deploy
  \/ \E r \in Runners :
       \/ Up(r) \/ Down(r) \/ ReadBatch(r) \/ Decide(r) \/ Write(r)
       \/ Plan(r) \/ ApplyPlan(r) \/ Status(r) \/ Rehash(r) \/ RecordBaseline(r) \/ Crash(r)

Spec == Init /\ [][Next]_vars

-----------------------------------------------------------------------------
(* Properties *)

\* Every variable keeps its type, and a name has one row.
TypeOK ==
  /\ \A row \in history : row.name \in Names \union {Baseline} /\ row.batch \in 0..MaxRuns
  /\ \A a, b \in history : a.name = b.name => a = b
  /\ objects \in [Objects -> Int]
  /\ release \in DOMAIN Releases
  /\ \A r \in Runners : run[r] # Idle => ToSet(run[r].todo) \subseteq DOMAIN run[r].defs
  /\ torn \subseteq Names /\ (mode = "atomic" => torn = {})

\* Objects a command has left half made, in a database without transactions.
InDoubt == UNION {ToSet(Content[m]) : m \in torn \union UNION {Begun(r) : r \in Runners}}

\* What the history records is exactly what the database holds: each object once for
\* the migration that makes it, whichever of several runners applied it, after any
\* crash, and across a consolidation.  Without transactions or batches that is true of
\* every object but those of a migration some runner left between two statements.
HistoryMatchesSchema ==
  \A o \in Objects \ InDoubt :
    objects[o] = Cardinality({row \in history : row.name # Baseline /\ o \in ToSet(Content[row.name])})

\* Batch numbers order the history as it was applied, although up() reads them once
\* and several runners may number at a time: "down reverts the most recently applied
\* migration" (database/docs/migrations.md).
LastBatchIsNewest ==
  log # <<>> => LET all == [m \in Recorded(history) |-> 1]
                IN Newest(all)[1] = log[Len(log)]

\* A reviewed plan is carried out entry by entry, or not at all: whatever other
\* commands did between plan() and applyPlan(), under a deployment lock nothing runs
\* that was not in it.
AppliedAsPlanned == locked => IsPrefix(approved.done, approved.entries)
=============================================================================
