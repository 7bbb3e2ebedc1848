-------------------------------- MODULE Jobs --------------------------------
(***************************************************************************)
(* Background jobs: createJobRuntime (dispatch, consume, queue) over the   *)
(* durable D1 ledger, fed by an at-least-once queue.                       *)
(*                                                                         *)
(* A queue message carries the digest `key` of one logical job; several    *)
(* messages may carry the same key (one idempotency key dispatched twice). *)
(* Each delivery is one run of consume().  Runs interleave at every await. *)
(*                                                                         *)
(* Time is abstracted: a row's lease_until/retryAt is either in the future *)
(* or `due`.  The clock may pass it at any step, so every lease length,    *)
(* retry delay and clock difference between Workers is covered.  The       *)
(* random claim token is the attempt number the claim wrote: both are      *)
(* fresh for each claim of a row.                                          *)
(***************************************************************************)
EXTENDS Integers, FiniteSets

CONSTANTS
  Keys,         \* logical job identities (SHA-256 digests in the code)
  Messages,     \* queue messages, one per dispatch() call
  KeyOf,        \* KeyOf[m]: the key in the envelope of message m
  BadMessages,  \* messages whose envelope this deployment rejects
  Runs,         \* consume() invocations that can be in progress at once
  MaxAttempts,  \* the job definition's maxAttempts
  MaxFaults     \* bound: crashes, store errors, duplicate deliveries and
                \* leases that expire under a live run

ASSUME ConstantsAssumption ==
  /\ Messages # {}
  /\ KeyOf \in [Messages -> Keys]
  /\ BadMessages \subseteq Messages
  /\ MaxAttempts \in Nat \ {0}
  /\ MaxFaults \in Nat

VARIABLES
  ledger,   \* ledger[k]: row of cossack_jobs, status "none" when absent
  msgs,     \* msgs[m]: what the queue knows of message m
  runs,     \* runs[i]: program counter and locals of one consume()
  started,  \* history: started[k] holds the attempts whose handler was called
  settler,  \* history: settler[k] is the attempt that settled key k, or 0
  effects,  \* history: keys whose handler has once returned normally
  faults    \* faults spent so far

vars == <<ledger, msgs, runs, started, settler, effects, faults>>

Terminal == {"completed", "failed"}
Statuses == {"none", "running", "retrying"} \union Terminal

\* A message whose run has to be tried again is still "queued": the queue's
\* redelivery delay only postpones Deliver.
MessageStates == {"unsent", "queued", "acked"}

\* Steps of queue()/consume(), in order.  "claim" and "inspect" are the two SQL
\* statements of claim(); "record" awaits complete() or fail(); "reply" calls
\* message.ack() or message.retry().
Steps == {"idle", "claim", "inspect", "begin", "handler", "record", "reply"}

\* How an attempt ended, and (from "reply" on) what the queue is told.
Failures == {"invalid", "permanent", "transient", "cleanup", "exhausted"}
Outcomes == Failures \union {"none", "ok", "ack", "retry"}

NoRow == [status |-> "none", attempt |-> 0, token |-> 0, due |-> FALSE]
Idle == [pc |-> "idle", msg |-> CHOOSE m \in Messages : TRUE, token |-> 0, outcome |-> "none"]

RunKey(i) == KeyOf[runs[i].msg]
Settled(k) == ledger[k].status \in Terminal

\* Run i holds a claim of key k (the claim may have been superseded since).
Claims(i, k) == runs[i].pc \in {"begin", "handler", "record"} /\ RunKey(i) = k

\* Mutation of Owns: complete() and fail() forget the token.
OwnsAnyToken(i, k) == Claims(i, k) /\ ledger[k].status = "running"

\* The fence of complete() and fail(): WHERE token = ? AND status = 'running'.
Owns(i, k) ==
  /\ Claims(i, k)
  /\ ledger[k].status = "running"
  /\ ledger[k].token = runs[i].token

\* Run i moves on to step pc of consume() with this outcome.
Move(i, pc, outcome) ==
  runs' = [runs EXCEPT ![i].pc = pc, ![i].outcome = outcome]

Fault == faults < MaxFaults /\ faults' = faults + 1

-----------------------------------------------------------------------------
Init ==
  /\ ledger = [k \in Keys |-> NoRow]
  /\ msgs = [m \in Messages |-> "unsent"]
  /\ runs = [i \in Runs |-> Idle]
  /\ started = [k \in Keys |-> {}]
  /\ settler = [k \in Keys |-> 0]
  /\ effects = {}
  /\ faults = 0

\* dispatch(): the payload was validated and the adapter published it.
Dispatch(m) ==
  /\ msgs[m] = "unsent"
  /\ msgs' = [msgs EXCEPT ![m] = "queued"]
  /\ UNCHANGED <<ledger, runs, started, settler, effects, faults>>

\* queue() hands a message to consume().  The queue holds a delivered message
\* back; handing it to a second run at the same time is a delivery fault.
Deliver(i, m) ==
  /\ msgs[m] = "queued" /\ m \notin BadMessages
  /\ runs[i].pc = "idle"
  /\ IF \E j \in Runs : runs[j].pc # "idle" /\ runs[j].msg = m
     THEN Fault ELSE UNCHANGED faults
  /\ runs' = [runs EXCEPT ![i] = [Idle EXCEPT !.pc = "claim", !.msg = m]]
  /\ UNCHANGED <<ledger, msgs, started, settler, effects>>

\* consume() rejects the envelope (version, namespace, unregistered job):
\* the result is "failed" and the message is acknowledged without a row.
RejectEnvelope(m) ==
  /\ msgs[m] = "queued" /\ m \in BadMessages
  /\ msgs' = [msgs EXCEPT ![m] = "acked"]
  /\ UNCHANGED <<ledger, runs, started, settler, effects, faults>>

-----------------------------------------------------------------------------
\* Mutations of Claimable: a running row is taken over before its lease ends,
\* or never.
ClaimableBeforeExpiry(row) == row.status \notin Terminal
ClaimableUnlessRunning(row) == row.status = "none" \/ (row.status = "retrying" /\ row.due)

\* First statement of claim(): insert the row, or take over a retrying row or
\* an expired running row; RETURNING attempt tells whether it was acquired.
Claimable(row) ==
  \/ row.status = "none"
  \/ row.status \in {"retrying", "running"} /\ row.due

ClaimRow(row) ==
  [status |-> "running", attempt |-> row.attempt + 1,
   token |-> row.attempt + 1, due |-> FALSE]

Claim(i) ==
  LET k == RunKey(i)
      row == ClaimRow(ledger[k])
  IN
  /\ runs[i].pc = "claim"
  /\ IF Claimable(ledger[k])
     THEN /\ ledger' = [ledger EXCEPT ![k] = row]
          /\ runs' = [runs EXCEPT ![i].pc = "begin", ![i].token = row.token]
     ELSE /\ Move(i, "inspect", "none")
          /\ UNCHANGED ledger
  /\ UNCHANGED <<msgs, started, settler, effects, faults>>

\* Second statement of claim(): a settled row makes this message a duplicate
\* (acknowledged), anything else is busy and the message is retried.
Inspect(i) ==
  /\ runs[i].pc = "inspect"
  /\ Move(i, "reply", IF Settled(RunKey(i)) THEN "ack" ELSE "retry")
  /\ UNCHANGED <<ledger, msgs, started, settler, effects, faults>>

\* The claimed attempt number decides whether the handler may run at all.
Exhausted(i) ==
  /\ runs[i].pc = "begin"
  /\ runs[i].token > MaxAttempts
  /\ Move(i, "record", "exhausted")
  /\ UNCHANGED <<ledger, msgs, started, settler, effects, faults>>

\* job.schema.parse() rejects the payload: a permanent failure.
InvalidPayload(i) ==
  /\ runs[i].pc = "begin"
  /\ runs[i].token <= MaxAttempts
  /\ Move(i, "record", "invalid")
  /\ UNCHANGED <<ledger, msgs, started, settler, effects, faults>>

\* Mutation of StartHandler: the attempt limit is off by one.
StartOneMore(i) ==
  /\ runs[i].pc = "begin"
  /\ runs[i].token <= MaxAttempts + 1
  /\ Move(i, "handler", "none")
  /\ started' = [started EXCEPT ![RunKey(i)] = @ \union {runs[i].token}]
  /\ UNCHANGED <<ledger, msgs, settler, effects, faults>>

\* job.handle() is called for the claimed attempt.
StartHandler(i) ==
  /\ runs[i].pc = "begin"
  /\ runs[i].token <= MaxAttempts
  /\ Move(i, "handler", "none")
  /\ started' = [started EXCEPT ![RunKey(i)] = @ \union {runs[i].token}]
  /\ UNCHANGED <<ledger, msgs, settler, effects, faults>>

\* The handler settles and every cleanup has run.  A cleanup failure counts
\* only when nothing failed before it (failure ??= ...), hence after an effect.
HandlerEnd(i) ==
  /\ runs[i].pc = "handler"
  /\ \E outcome \in {"ok", "cleanup", "permanent", "transient"} :
       /\ Move(i, "record", outcome)
       /\ effects' = IF outcome \in {"ok", "cleanup"}
                     THEN effects \union {RunKey(i)} ELSE effects
  /\ UNCHANGED <<ledger, msgs, started, settler, faults>>

-----------------------------------------------------------------------------
\* A failure settles the key when it is permanent, when the effect already
\* happened, or when no attempt is left.
SettlesKey(run) ==
  run.outcome # "transient" \/ run.token >= MaxAttempts

\* The row complete() (outcome "ok") or fail() writes.
RecordedStatus(run) ==
  IF run.outcome = "ok" THEN "completed"
  ELSE IF SettlesKey(run) THEN "failed" ELSE "retrying"

\* complete()/fail() against the fenced row, and the result consume() returns:
\* only a recorded terminal status lets queue() acknowledge the message.
WriteVerdict(i) ==
  LET k == RunKey(i)
      status == RecordedStatus(runs[i])
  IN IF Owns(i, k)
     THEN /\ ledger' = [ledger EXCEPT ![k].status = status, ![k].due = FALSE]
          /\ IF status \in Terminal
             THEN settler' = [settler EXCEPT ![k] = runs[i].token]
             ELSE UNCHANGED settler
     ELSE UNCHANGED <<ledger, settler>>

Record(i) ==
  /\ runs[i].pc = "record"
  /\ WriteVerdict(i)
  /\ Move(i, "reply",
          IF Owns(i, RunKey(i)) /\ RecordedStatus(runs[i]) \in Terminal THEN "ack" ELSE "retry")
  /\ UNCHANGED <<msgs, started, effects, faults>>

Reply(i) ==
  /\ runs[i].pc = "reply"
  /\ IF runs[i].outcome = "ack"
     THEN msgs' = [msgs EXCEPT ![runs[i].msg] = "acked"]
     ELSE UNCHANGED msgs
  /\ runs' = [runs EXCEPT ![i] = Idle]
  /\ UNCHANGED <<ledger, started, settler, effects, faults>>

-----------------------------------------------------------------------------
\* Mutation of StoreError: the message is acknowledged although the write failed.
StoreErrorAcks(i) ==
  /\ Fault
  /\ runs[i].pc \in {"claim", "inspect", "record"}
  /\ Move(i, "reply", "ack")
  /\ UNCHANGED <<ledger, msgs, started, settler, effects>>

\* A store call throws, before or after its statement took effect: queue()
\* catches it and retries the message.
StoreError(i) ==
  LET k == RunKey(i) IN
  /\ Fault
  /\ runs[i].pc \in {"claim", "inspect", "record"}
  /\ \/ UNCHANGED <<ledger, settler>>
     \/ /\ runs[i].pc = "claim" /\ Claimable(ledger[k])
        /\ ledger' = [ledger EXCEPT ![k] = ClaimRow(@)]
        /\ UNCHANGED settler
     \/ /\ runs[i].pc = "record"
        /\ WriteVerdict(i)
  /\ Move(i, "reply", "retry")
  /\ UNCHANGED <<msgs, started, effects>>

\* The isolate dies; the queue redelivers what was not acknowledged.
Crash(i) ==
  /\ Fault
  /\ runs[i].pc # "idle"
  /\ runs' = [runs EXCEPT ![i] = Idle]
  /\ UNCHANGED <<ledger, msgs, started, settler, effects>>

\* The clock passes lease_until (or retryAt).  While the claiming run is still
\* at work the lease is longer than the work, so that this is a fault.
Lapse(k) ==
  /\ ledger[k].status \in {"running", "retrying"} /\ ~ledger[k].due
  /\ IF \E i \in Runs : Owns(i, k) THEN Fault ELSE UNCHANGED faults
  /\ ledger' = [ledger EXCEPT ![k].due = TRUE]
  /\ UNCHANGED <<msgs, runs, started, settler, effects>>

RunStep(i) ==
  \/ Claim(i) \/ Inspect(i)
  \/ Exhausted(i) \/ InvalidPayload(i) \/ StartHandler(i) \/ HandlerEnd(i)
  \/ Record(i) \/ Reply(i)

Next ==
  \/ \E m \in Messages : Dispatch(m) \/ RejectEnvelope(m)
  \/ \E i \in Runs, m \in Messages : Deliver(i, m)
  \/ \E i \in Runs : RunStep(i) \/ StoreError(i) \/ Crash(i)
  \/ \E k \in Keys : Lapse(k)

\* Runs make progress (handlers return, store calls settle), an expired
\* deadline is eventually in the past, and the queue eventually delivers a
\* message that keeps being deliverable.
Fairness ==
  /\ \A i \in Runs : WF_vars(RunStep(i))
  /\ \A k \in Keys : WF_vars(Lapse(k))
  /\ \A m \in Messages : SF_vars(RejectEnvelope(m) \/ \E i \in Runs : Deliver(i, m))

Spec == Init /\ [][Next]_vars
FairSpec == Spec /\ Fairness

-----------------------------------------------------------------------------
Rows == [status : Statuses, attempt : Nat, token : Nat, due : BOOLEAN]
RunRecords == [pc : Steps, msg : Messages, token : Nat, outcome : Outcomes]

\* Every variable keeps its type (the type invariant of this module).
TypeOK ==
  /\ ledger \in [Keys -> Rows]
  /\ msgs \in [Messages -> MessageStates]
  /\ runs \in [Runs -> RunRecords]
  /\ started \in [Keys -> SUBSET Nat]
  /\ settler \in [Keys -> Nat]
  /\ effects \in SUBSET Keys
  /\ faults \in Nat

\* A message that reached consume() is acknowledged only when its key is
\* settled in the ledger: queue() may not lose unrecorded work, whatever
\* crashes, store errors and lost claims happen on the way.
AckedMeansSettled ==
  \A m \in Messages \ BadMessages : msgs[m] = "acked" => Settled(KeyOf[m])

\* The verdict of a settled key is the verdict of the newest claim: a run whose
\* lease expired and was taken over cannot settle the key (the token fence).
NewestClaimSettles ==
  \A k \in Keys : Settled(k) => settler[k] = ledger[k].attempt

\* Without a fault no two runs hold a claim of one key, so that its handler
\* never runs twice at the same time, however many messages carry the key.
ExclusiveWithoutFaults ==
  faults = 0 =>
    \A k \in Keys, i, j \in Runs : Claims(i, k) /\ Claims(j, k) => i = j

\* Every message leaves the queue, hence (AckedMeansSettled) every dispatched
\* job settles: each crash, lost reply and expired lease is eventually taken
\* over, and the attempts of a failing handler run out.
QueuedIsAcked ==
  \A m \in Messages : msgs[m] = "queued" ~> msgs[m] = "acked"

\* The contract's variables as functions of the ledger and the queue.
Contract == INSTANCE JobContract WITH
  verdict <- [k \in Keys |-> IF Settled(k) THEN ledger[k].status ELSE "open"],
  attempts <- started,
  returned <- effects,
  finished <- {m \in Messages : msgs[m] = "acked"}

\* createJobRuntime over the D1 ledger keeps every promise of JobContract:
\* consume(), claim(), complete(), fail() and queue() take only its steps.
ImplementsContract == Contract!ContractSpec
=============================================================================
