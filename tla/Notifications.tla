---------------------------- MODULE Notifications ----------------------------
(***************************************************************************)
(* One notification: enqueue() and deliver() of the notification runtime   *)
(* (core/src/notifications/runtime.ts) on the D1 ledger (framework/src/    *)
(* notifications/d1-store.ts) and an email provider.                       *)
(*                                                                         *)
(* Notifications with different identity keys have rows of their own, so   *)
(* one row shows everything.  Every store call is one statement and one    *)
(* step.  Rolling deployments may give each run another provider; whether  *)
(* it deduplicates by the idempotency key is its "mode".                   *)
(*                                                                         *)
(* Leases are timestamps compared by Workers with clocks of their own, so  *)
(* when a lease has lapsed for one Worker its owner may still pass         *)
(* lease_until > now, until somebody else claims the row.                  *)
(***************************************************************************)
EXTENDS Integers, FiniteSets

CONSTANTS
  Callers,      \* concurrent enqueue() calls with one identity
  Runs,         \* concurrent deliver() calls
  Nobody,       \* token IS NULL
  MaxAttempts,  \* maxAttempts
  MaxFaults     \* bound: crashes, failed store calls and leases that lapse early

ASSUME NotificationsAssumption ==
  /\ Nobody \notin Runs
  /\ MaxAttempts \in Nat \ {0}
  /\ MaxFaults \in Nat

VARIABLES
  row,         \* the row of cossack_notifications
  caller,      \* caller[e]: "new", "inserted", "returned" or "failed"
  dispatched,  \* the job that calls deliver(id) has been dispatched
  run,         \* run[r]: step, what it claimed, its provider, the result to record
  faults,      \* number of faults so far
  plainMails,  \* mails a provider without deduplication accepted
  keyedMail    \* a deduplicating provider accepted the mail

vars == <<row, caller, dispatched, run, faults, plainMails, keyedMail>>

Modes == {"none", "provider"}
Channels == {"email", "in-app"}
Terminal == {"accepted", "failed", "unknown", "delivered"}
Statuses == Terminal \union {"queued"}
Codes == {"none", "unknown", "rejected", "other"}
Results == [status : Statuses, code : Codes]
Steps == {"idle", "acquire", "prefs", "begin", "send", "finish"}

Result(status, code) == [status |-> status, code |-> code]
IdleRun == [step |-> "idle", prior |-> "null", attempt |-> 0, mode |-> "none",
            result |-> Result("queued", "none")]

Init ==
  /\ \E channel \in Channels :
       row = [exists |-> FALSE, channel |-> channel, status |-> "queued", attempt |-> 0,
              token |-> Nobody, lapsed |-> TRUE, sending |-> "null"]
  /\ caller = [e \in Callers |-> "new"]
  /\ dispatched = FALSE
  /\ run = [r \in Runs |-> IdleRun]
  /\ faults = 0 /\ plainMails = 0 /\ keyedMail = FALSE

providerVars == <<plainMails, keyedMail>>
enqueueVars == <<caller, dispatched>>

Ends(r) == run' = [run EXCEPT ![r] = IdleRun]
Fault == faults < MaxFaults /\ faults' = faults + 1

-----------------------------------------------------------------------------
(* enqueue() *)

\* insert(): the first caller creates the row, the others find it.  Only a queued
\* record still needs its job.
Insert(e) ==
  /\ caller[e] = "new"
  /\ row' = [row EXCEPT !.exists = TRUE]
  /\ caller' = [caller EXCEPT ![e] = IF row.status = "queued" THEN "inserted" ELSE "returned"]
  /\ UNCHANGED <<dispatched, run, faults, providerVars>>

\* dispatch() of the job with the record's ID.
Dispatch(e) ==
  /\ caller[e] = "inserted"
  /\ \/ dispatched' = TRUE /\ caller' = [caller EXCEPT ![e] = "returned"]
     \/ UNCHANGED dispatched /\ caller' = [caller EXCEPT ![e] = "failed"]
  /\ UNCHANGED <<row, run, faults, providerVars>>

-----------------------------------------------------------------------------
(* deliver(): the claim *)

\* claim(), first statement: a plain send whose lease lapsed is never repeated.
Start(r) ==
  /\ dispatched /\ run[r].step = "idle" /\ row.status = "queued"
  /\ IF row.sending = "none" /\ row.lapsed
     THEN /\ row' = [row EXCEPT !.status = "unknown", !.token = Nobody, !.sending = "null"]
          /\ UNCHANGED run
     ELSE /\ run' = [run EXCEPT ![r].step = "acquire"]
          /\ UNCHANGED row
  /\ UNCHANGED <<enqueueVars, faults, providerVars>>

\* Mutations of Claimable: a lapsed plain send is claimed again; only a free row
\* is claimed.
ClaimableWhileSending ==
  row.status = "queued" /\ (row.token = Nobody \/ row.lapsed)

ClaimableWhenFree ==
  /\ row.status = "queued" /\ row.token = Nobody
  /\ row.sending \in {"null", "provider"}

\* queued, free or lapsed, and not in the middle of a plain send.
Claimable ==
  /\ row.status = "queued"
  /\ row.token = Nobody \/ row.lapsed
  /\ row.sending \in {"null", "provider"}

\* claim(), second statement; a row that cannot be claimed is busy or terminal.
Acquire(r) ==
  /\ run[r].step = "acquire"
  /\ IF Claimable
     THEN /\ row' = [row EXCEPT !.token = r, !.lapsed = FALSE, !.attempt = @ + 1]
          /\ run' = [run EXCEPT ![r] = [IdleRun EXCEPT !.step = "prefs",
                       !.prior = row.sending, !.attempt = row.attempt + 1]]
     ELSE Ends(r) /\ UNCHANGED row
  /\ UNCHANGED <<enqueueVars, faults, providerVars>>

-----------------------------------------------------------------------------
(* deliver(): the decision and the send *)

\* Back into the queue while attempts are left.
RetryOr(r, status) == IF run[r].attempt < MaxAttempts THEN "queued" ELSE status

Finishes(r, result) == run' = [run EXCEPT ![r].step = "finish", ![r].result = result]

\* preferences() throws, or says no.
PreferencesFail(r) ==
  /\ run[r].step = "prefs"
  /\ Finishes(r, IF run[r].prior # "null"
                 THEN Result(RetryOr(r, "unknown"), "unknown")
                 ELSE Result(RetryOr(r, "failed"), "other"))
  /\ UNCHANGED <<row, enqueueVars, faults, providerVars>>

\* The result when the notification is switched off or has no email channel.
Unavailable(r) ==
  IF run[r].prior # "null" THEN Result("unknown", "unknown") ELSE Result("failed", "other")

Disabled(r) ==
  /\ run[r].step = "prefs"
  /\ Finishes(r, Unavailable(r))
  /\ UNCHANGED <<row, enqueueVars, faults, providerVars>>

\* preferences() agrees: an in-app notification is delivered by the ledger, an
\* email goes to this Worker's provider, unless an earlier send that only a
\* deduplicating provider may repeat would reach one that does not.
Enabled(r) ==
  /\ run[r].step = "prefs"
  /\ \/ row.channel = "in-app" /\ Finishes(r, Result("delivered", "none"))
     \/ /\ row.channel = "email"
        /\ \E mode \in Modes :
             IF run[r].prior = "provider" /\ mode = "none"
             THEN Finishes(r, Result("unknown", "unknown"))
             ELSE run' = [run EXCEPT ![r].step = "begin", ![r].mode = mode]
  /\ UNCHANGED <<row, enqueueVars, faults, providerVars>>

\* token = ? AND lease_until > ?
Owns(r) == row.token = r

\* beginSend(): mark the row before the provider is called.
BeginSend(r) ==
  /\ run[r].step = "begin"
  /\ \/ /\ row.status = "queued" /\ Owns(r)
        /\ row.sending \in {"null", run[r].mode}
        /\ row' = [row EXCEPT !.sending = run[r].mode]
        /\ run' = [run EXCEPT ![r].step = "send"]
     \/ /\ row.status # "queued" \/ ~Owns(r) \/ row.lapsed
           \/ row.sending \notin {"null", run[r].mode}
        /\ Ends(r) /\ UNCHANGED row
  /\ UNCHANGED <<enqueueVars, faults, providerVars>>

\* The provider accepts the mail of run r.
Mailed(r) ==
  IF run[r].mode = "provider"
  THEN keyedMail' = TRUE /\ UNCHANGED plainMails
  ELSE plainMails' = plainMails + 1 /\ UNCHANGED keyedMail

\* provider.send() answers "provider-accepted".
Accepted(r) ==
  /\ run[r].step = "send"
  /\ Mailed(r)
  /\ Finishes(r, Result("accepted", "none"))
  /\ UNCHANGED <<row, enqueueVars, faults>>

\* The call fails, or its receipt is malformed: the mail may have been accepted.
Ambiguous(r) ==
  /\ run[r].step = "send"
  /\ Mailed(r) \/ UNCHANGED providerVars
  /\ Finishes(r, Result(IF run[r].mode = "provider" THEN RetryOr(r, "unknown") ELSE "unknown", "unknown"))
  /\ UNCHANGED <<row, enqueueVars, faults>>

\* Mutation of Uncertain: a rejection always counts as proof.
UncertainNever(r) == FALSE

\* A rejection cannot disprove an earlier send.
Uncertain(r) == run[r].prior = "provider"

\* The provider rejects this mail, for good or for now.
Rejected(r) ==
  /\ run[r].step = "send"
  /\ \E retryable \in BOOLEAN :
       LET final == IF Uncertain(r) THEN "unknown" ELSE "failed"
       IN Finishes(r, Result(IF retryable THEN RetryOr(r, final) ELSE final,
                             IF Uncertain(r) THEN "unknown" ELSE "rejected"))
  /\ UNCHANGED <<row, enqueueVars, faults, providerVars>>

-----------------------------------------------------------------------------
(* deliver(): the record *)

\* What the WHERE clause of finish() admits.
Admits(result) ==
  /\ result.status = "queued" =>
       \/ row.sending = "null"
       \/ result.code = "rejected"
       \/ row.sending = "provider" /\ result.code = "unknown"
  /\ result.status = "accepted" => row.channel = "email" /\ row.sending # "null"
  /\ result.status = "delivered" => row.channel = "in-app" /\ row.sending = "null"

KeepsSending(result) ==
  result.status = "queued" /\ result.code = "unknown" /\ row.sending = "provider"

\* finish() by run r takes effect.
Records(r) ==
  LET result == run[r].result
  IN /\ row.status = "queued" /\ Owns(r) /\ Admits(result)
     /\ row' = [row EXCEPT !.status = result.status, !.token = Nobody, !.lapsed = TRUE,
                           !.sending = IF KeepsSending(result) THEN @ ELSE "null"]

\* Mutation of Finish: finish() is not fenced by the status.
FinishAnyway(r) ==
  /\ run[r].step = "finish"
  /\ row' = [row EXCEPT !.status = run[r].result.status]
  /\ Ends(r)
  /\ UNCHANGED <<enqueueVars, faults, providerVars>>

\* finish(): the verdict is recorded or, when the row is no longer this run's,
\* refused.
Finish(r) ==
  /\ run[r].step = "finish"
  /\ \/ Records(r)
     \/ /\ row.status # "queued" \/ ~Owns(r) \/ row.lapsed \/ ~Admits(run[r].result)
        /\ UNCHANGED row
  /\ Ends(r)
  /\ UNCHANGED <<enqueueVars, faults, providerVars>>

\* recordDelivered(): an authenticated receipt for an accepted mail.
Receipt ==
  /\ row.channel = "email" /\ row.status = "accepted"
  /\ row' = [row EXCEPT !.status = "delivered"]
  /\ UNCHANGED <<enqueueVars, run, faults, providerVars>>

-----------------------------------------------------------------------------
(* Faults *)

\* A Worker dies, or a store call throws before its statement took effect.
Crash(r) ==
  /\ run[r].step # "idle" /\ Fault
  /\ Ends(r)
  /\ UNCHANGED <<row, enqueueVars, providerVars>>

\* A store call throws although its statement took effect.
ReplyLost(r) ==
  /\ Fault
  /\ \/ /\ run[r].step = "acquire" /\ Claimable
        /\ row' = [row EXCEPT !.token = r, !.lapsed = FALSE, !.attempt = @ + 1]
     \/ /\ run[r].step = "begin" /\ row.status = "queued" /\ Owns(r)
        /\ row.sending \in {"null", run[r].mode}
        /\ row' = [row EXCEPT !.sending = run[r].mode]
     \/ run[r].step = "finish" /\ Records(r)
  /\ Ends(r)
  /\ UNCHANGED <<enqueueVars, providerVars>>

\* Time passes the lease: of a run that is gone, or, a fault, of one still at work.
Lapse ==
  /\ row.token # Nobody /\ ~row.lapsed
  /\ row' = [row EXCEPT !.lapsed = TRUE]
  /\ IF run[row.token].step \in {"idle", "acquire"} THEN UNCHANGED faults ELSE Fault
  /\ UNCHANGED <<enqueueVars, run, providerVars>>

LapseOfTheDead ==
  /\ row.token # Nobody /\ run[row.token].step \in {"idle", "acquire"}
  /\ Lapse

-----------------------------------------------------------------------------
Works(r) ==
  \/ Acquire(r)
  \/ PreferencesFail(r) \/ Disabled(r) \/ Enabled(r)
  \/ BeginSend(r)
  \/ Accepted(r) \/ Ambiguous(r) \/ Rejected(r)
  \/ Finish(r)

Next ==
  \/ \E e \in Callers : Insert(e) \/ Dispatch(e)
  \/ \E r \in Runs : Start(r) \/ Works(r) \/ Crash(r) \/ ReplyLost(r)
  \/ Receipt
  \/ Lapse

\* A run that started goes on, the job of a queued notification is retried, and
\* time passes.
Fairness ==
  /\ \A r \in Runs : WF_vars(Start(r) \/ Works(r))
  /\ WF_vars(LapseOfTheDead)

Spec == Init /\ [][Next]_vars
FairSpec == Spec /\ Fairness

-----------------------------------------------------------------------------
Mails == plainMails + (IF keyedMail THEN 1 ELSE 0)

\* Every variable keeps its type; attempts grow beyond MaxAttempts only by faults.
TypeOK ==
  /\ row \in [exists : BOOLEAN, channel : Channels, status : Statuses,
              attempt : 0..(MaxAttempts + MaxFaults), token : Runs \union {Nobody},
              lapsed : BOOLEAN, sending : Modes \union {"null"}]
  /\ caller \in [Callers -> {"new", "inserted", "returned", "failed"}]
  /\ dispatched \in BOOLEAN
  /\ run \in [Runs -> [step : Steps, prior : {"null", "provider"}, mode : Modes,
                       attempt : 0..(MaxAttempts + MaxFaults), result : Results]]
  /\ faults \in 0..MaxFaults /\ plainMails \in Nat /\ keyedMail \in BOOLEAN

\* The recipient never gets a mail twice, whatever crashes, lapses or is deployed
\* between two attempts.
AtMostOneMail == Mails <= 1

\* The ledger never lies about a mail: "failed" means that no provider accepted
\* one, "accepted" that one did.
StatusIsHonest ==
  /\ row.status = "failed" => Mails = 0
  /\ row.channel = "email" /\ row.status \in {"accepted", "delivered"} => Mails = 1

\* A verdict is final: no late run changes it, and only a receipt moves an
\* accepted mail on to delivered.
VerdictIsFinal ==
  [][row.status \in Terminal /\ row'.status # row.status
       => row.status = "accepted" /\ row'.status = "delivered"]_vars

\* An enqueue() that returned leads to a verdict.
ReturnedIsSettled ==
  \A e \in Callers : caller[e] = "returned" ~> row.status \in Terminal
=============================================================================
