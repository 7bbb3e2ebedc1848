--------------------------- MODULE NotificationJobs ---------------------------
(***************************************************************************)
(* Notifications carried by the jobs of core/src/jobs/runtime.ts: each     *)
(* delivery of the job is an attempt, and the job ends with the attempt    *)
(* that reaches a verdict or with the last one it is allowed.              *)
(*                                                                         *)
(* Of Jobs it keeps what a handler sees: one attempt at a time, a failed   *)
(* or dead attempt is followed by another, and the store counts them.      *)
(***************************************************************************)
EXTENDS Notifications

CONSTANT JobAttempts  \* maxAttempts of the job

VARIABLE job  \* status of the job, and the attempts the store has counted

jobVars == <<vars, job>>

JobInit == Init /\ job = [status |-> "waiting", attempt |-> 0]

\* What the end of an attempt makes of the job.
Outcome ==
  IF row'.status \in Terminal THEN "completed"
  ELSE IF job.attempt < JobAttempts THEN "waiting" ELSE "failed"

\* consume(): an attempt is claimed and the handler calls deliver().
Deliver(r) ==
  /\ job.status = "waiting"
  /\ Start(r)
  /\ job' = [status |-> IF row'.status \in Terminal THEN "completed" ELSE "running",
             attempt |-> job.attempt + 1]

\* deliver() goes on, or the attempt ends: with a verdict, with an error, or with its
\* Worker.
Attempt(r) ==
  /\ Works(r) \/ Crash(r) \/ ReplyLost(r)
  /\ job' = IF run'[r].step = "idle" THEN [job EXCEPT !.status = Outcome] ELSE job

JobNext ==
  \/ \E r \in Runs : Deliver(r) \/ Attempt(r)
  \/ /\ Receipt \/ Lapse \/ \E e \in Callers : Insert(e) \/ Dispatch(e)
     /\ UNCHANGED job

JobFairness ==
  /\ \A r \in Runs : WF_jobVars(Deliver(r) \/ (Works(r) /\ Attempt(r)))
  /\ WF_jobVars(LapseOfTheDead /\ UNCHANGED job)

JobSpec == JobInit /\ [][JobNext]_jobVars /\ JobFairness

\* "For non-idempotent SMTP or Cloudflare email, a crashed or expired sending claim
\* becomes `unknown` instead of sending again" (docs/notifications.md), with a job that
\* is allowed the maxAttempts of the notification runtime.  claim() does that in a later
\* attempt, which a job that spent its attempts does not make.
CrashedSendBecomesUnknown ==
  row.sending = "none" /\ row.lapsed ~> row.status \in Terminal
=============================================================================
