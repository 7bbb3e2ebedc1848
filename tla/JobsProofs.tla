------------------------------ MODULE JobsProofs ------------------------------
(***************************************************************************)
(* Proofs about Jobs for any keys, messages, runs, attempts and faults.    *)
(* The inductive invariant adds to the properties what the token fence     *)
(* rests on: two claims of one key never have one token, no claim is newer *)
(* than its row, and a run that tells the queue to acknowledge has read or *)
(* written a settled row.                                                  *)
(***************************************************************************)
EXTENDS Jobs, TLAPS

\* The row's token is the token of its newest claim.
RowShape ==
  \A k \in Keys : /\ ledger[k].token = ledger[k].attempt
                  /\ ledger[k].status = "none" <=> ledger[k].attempt = 0

\* A claim is at most as new as the row.
ClaimsBounded ==
  \A i \in Runs, k \in Keys :
    Claims(i, k) => runs[i].token \in 1..ledger[k].attempt

\* Claims of one key are told apart by their tokens.
ClaimsDistinct ==
  \A i, j \in Runs, k \in Keys :
    Claims(i, k) /\ Claims(j, k) /\ runs[i].token = runs[j].token => i = j

\* Handler calls are numbered by attempts that were claimed, within the limit.
StartedBounded ==
  \A k \in Keys : started[k] \subseteq (1..MaxAttempts) \intersect (1..ledger[k].attempt)

\* A run that has not begun has not called the handler for its attempt.
BeginFresh ==
  \A i \in Runs : runs[i].pc = "begin" => runs[i].token \notin started[RunKey(i)]

\* What a run at work knows: its handler was called, and returned if "ok".
RunKnowledge ==
  \A i \in Runs :
    /\ runs[i].pc = "handler" => started[RunKey(i)] # {}
    /\ runs[i].pc = "record" =>
         /\ runs[i].outcome \in Failures \union {"ok"}
         /\ runs[i].outcome = "ok" => RunKey(i) \in effects

\* A run tells the queue to acknowledge only once the row is settled.
AckKnowsSettled ==
  \A i \in Runs : runs[i].pc = "reply" /\ runs[i].outcome = "ack" => Settled(RunKey(i))

CompletedReturned ==
  \A k \in Keys : ledger[k].status = "completed" => k \in effects

\* Before the first fault every claim owns its row and its lease runs.
OwnedWithoutFaults ==
  faults = 0 => \A i \in Runs, k \in Keys : Claims(i, k) => Owns(i, k) /\ ~ledger[k].due

Inv ==
  /\ TypeOK
  /\ RowShape
  /\ ClaimsBounded
  /\ ClaimsDistinct
  /\ StartedBounded
  /\ BeginFresh
  /\ RunKnowledge
  /\ AckKnowsSettled
  /\ CompletedReturned
  /\ NewestClaimSettles
  /\ AckedMeansSettled
  /\ OwnedWithoutFaults

-----------------------------------------------------------------------------
(* Types *)

LEMMA IdleType == Idle \in RunRecords
  BY ConstantsAssumption DEF Idle, RunRecords, Steps, Outcomes

\* What Move does to the runs.
LEMMA MoveEffect ==
  ASSUME TypeOK, NEW i \in Runs, NEW pc \in Steps, NEW outcome \in Outcomes,
         Move(i, pc, outcome)
  PROVE  /\ runs' \in [Runs -> RunRecords]
         /\ runs'[i].pc = pc /\ runs'[i].outcome = outcome
         /\ \A j \in Runs : j # i => runs'[j] = runs[j]
         /\ \A j \in Runs : runs'[j].msg = runs[j].msg /\ runs'[j].token = runs[j].token
  BY DEF TypeOK, Move, RunRecords

\* WriteVerdict writes a row and its settler only for the owner.
LEMMA VerdictEffect ==
  ASSUME TypeOK, NEW i \in Runs, WriteVerdict(i)
  PROVE  /\ ledger' \in [Keys -> Rows]
         /\ settler' \in [Keys -> Nat]
<1> DEFINE k == RunKey(i)
           status == RecordedStatus(runs[i])
<1>1. k \in Keys
  BY ConstantsAssumption DEF TypeOK, RunRecords, RunKey
<1>2. status \in Statuses
  BY DEF RecordedStatus, Statuses, Terminal
<1>3. CASE Owns(i, k)
  <2>1. ledger' = [ledger EXCEPT ![k].status = status, ![k].due = FALSE]
    BY <1>3 DEF WriteVerdict
  <2>2. ledger' \in [Keys -> Rows]
    BY <1>1, <1>2, <2>1 DEF TypeOK, Rows
  <2>3. settler' \in [Keys -> Nat]
    BY <1>1, <1>3 DEF WriteVerdict, TypeOK, RunRecords
  <2> QED
    BY <2>2, <2>3
<1>4. CASE ~Owns(i, k)
  BY <1>4 DEF WriteVerdict, TypeOK
<1> QED
  BY <1>3, <1>4

LEMMA ClaimRowType ==
  ASSUME TypeOK, NEW k \in Keys
  PROVE  ClaimRow(ledger[k]) \in Rows
  BY DEF TypeOK, Rows, ClaimRow, Statuses

LEMMA TypeStep ==
  ASSUME TypeOK, [Next]_vars
  PROVE  TypeOK'
<1> USE ConstantsAssumption, IdleType DEF TypeOK
<1>1. ASSUME NEW m \in Messages, Dispatch(m) \/ RejectEnvelope(m) PROVE TypeOK'
  BY <1>1 DEF Dispatch, RejectEnvelope, MessageStates
<1>2. ASSUME NEW i \in Runs, NEW m \in Messages, Deliver(i, m) PROVE TypeOK'
  <2>1. [Idle EXCEPT !.pc = "claim", !.msg = m] \in RunRecords
    BY DEF RunRecords, Steps
  <2> QED
    BY <1>2, <2>1 DEF Deliver, Fault
<1>3. ASSUME NEW i \in Runs, Claim(i) PROVE TypeOK'
  <2>1. RunKey(i) \in Keys
    BY DEF RunKey, RunRecords
  <2>2. CASE Claimable(ledger[RunKey(i)])
    <3> DEFINE row == ClaimRow(ledger[RunKey(i)])
    <3>1. row \in Rows
      BY <2>1, ClaimRowType
    <3>2. ledger' \in [Keys -> Rows]
      BY <1>3, <2>2, <3>1 DEF Claim
    <3>3. runs' \in [Runs -> RunRecords]
      <4>1. row.token \in Nat
        BY <3>1 DEF Rows
      <4>2. runs' = [runs EXCEPT ![i].pc = "begin", ![i].token = row.token]
        BY <1>3, <2>2 DEF Claim
      <4> HIDE DEF row
      <4> QED
        BY <4>1, <4>2 DEF RunRecords, Steps
    <3> QED
      BY <1>3, <3>2, <3>3 DEF Claim
  <2>3. CASE ~Claimable(ledger[RunKey(i)])
    BY <1>3, <2>3, MoveEffect DEF Claim, Steps, Outcomes
  <2> QED
    BY <2>2, <2>3
<1>4. ASSUME NEW i \in Runs, Inspect(i) PROVE TypeOK'
  BY <1>4, MoveEffect DEF Inspect, Steps, Outcomes
<1>5. ASSUME NEW i \in Runs, Exhausted(i) \/ InvalidPayload(i) PROVE TypeOK'
  BY <1>5, MoveEffect DEF Exhausted, InvalidPayload, Steps, Outcomes, Failures
<1>6. ASSUME NEW i \in Runs, StartHandler(i) PROVE TypeOK'
  <2>1. started' \in [Keys -> SUBSET Nat]
    BY <1>6 DEF StartHandler, RunRecords, RunKey
  <2>2. runs' \in [Runs -> RunRecords]
    BY <1>6, MoveEffect DEF StartHandler, Steps, Outcomes
  <2> QED
    BY <1>6, <2>1, <2>2 DEF StartHandler
<1>7. ASSUME NEW i \in Runs, HandlerEnd(i) PROVE TypeOK'
  <2>1. RunKey(i) \in Keys
    BY DEF RunKey, RunRecords
  <2>2. runs' \in [Runs -> RunRecords]
    BY <1>7, MoveEffect DEF HandlerEnd, Steps, Outcomes, Failures
  <2> QED
    BY <1>7, <2>1, <2>2 DEF HandlerEnd
<1>8. ASSUME NEW i \in Runs, Record(i) PROVE TypeOK'
  <2>1. runs' \in [Runs -> RunRecords]
    BY <1>8, MoveEffect DEF Record, Steps, Outcomes
  <2> QED
    BY <1>8, <2>1, VerdictEffect DEF Record
<1>9. ASSUME NEW i \in Runs, Reply(i) PROVE TypeOK'
  BY <1>9 DEF Reply, RunRecords, MessageStates
<1>10. ASSUME NEW i \in Runs, StoreError(i) PROVE TypeOK'
  <2>1. runs' \in [Runs -> RunRecords]
    BY <1>10, MoveEffect DEF StoreError, Steps, Outcomes
  <2>2. RunKey(i) \in Keys
    BY DEF RunKey, RunRecords
  <2>3. ClaimRow(ledger[RunKey(i)]) \in Rows
    BY <2>2, ClaimRowType
  <2>4. ledger' \in [Keys -> Rows] /\ settler' \in [Keys -> Nat]
    BY <1>10, <2>2, <2>3, VerdictEffect DEF StoreError
  <2> QED
    BY <1>10, <2>1, <2>4 DEF StoreError, Fault
<1>11. ASSUME NEW i \in Runs, Crash(i) PROVE TypeOK'
  BY <1>11 DEF Crash, Fault
<1>12. ASSUME NEW k \in Keys, Lapse(k) PROVE TypeOK'
  <2>1. ledger' \in [Keys -> Rows]
    BY <1>12 DEF Lapse, Rows
  <2> QED
    BY <1>12, <2>1 DEF Lapse, Fault
<1>13. CASE UNCHANGED vars
  BY <1>13 DEF vars
<1> QED
  BY <1>1, <1>2, <1>3, <1>4, <1>5, <1>6, <1>7, <1>8, <1>9, <1>10, <1>11, <1>12, <1>13
  DEF Next, RunStep

-----------------------------------------------------------------------------
(* The inductive invariant *)

LEMMA InitInv == Init => Inv
<1> SUFFICES ASSUME Init PROVE Inv
  OBVIOUS
<1> USE ConstantsAssumption, IdleType DEF Init
<1>1. TypeOK
  BY DEF TypeOK, NoRow, Rows, Statuses, MessageStates
<1>2. RowShape /\ NewestClaimSettles /\ CompletedReturned /\ StartedBounded /\ AckedMeansSettled
  BY DEF RowShape, NewestClaimSettles, CompletedReturned, StartedBounded, AckedMeansSettled,
         NoRow, Settled, Terminal
<1>3. ClaimsBounded /\ ClaimsDistinct /\ BeginFresh /\ RunKnowledge /\ AckKnowsSettled
      /\ OwnedWithoutFaults
  BY DEF ClaimsBounded, ClaimsDistinct, BeginFresh, RunKnowledge, AckKnowsSettled,
         OwnedWithoutFaults, Claims, Idle
<1> QED
  BY <1>1, <1>2, <1>3 DEF Inv

\* A step that changes only run i, keeps it from claiming anything new, and
\* lets it tell the queue to acknowledge only a settled key.
RunOnly(i) ==
  /\ UNCHANGED <<ledger, msgs, started, settler, effects>>
  /\ faults' = 0 => faults = 0
  /\ \A j \in Runs : j # i => runs'[j] = runs[j]
  /\ runs'[i].pc \notin {"begin", "handler"}
  /\ runs'[i].pc = "record" =>
       /\ runs[i].pc = "begin"
       /\ runs'[i].msg = runs[i].msg /\ runs'[i].token = runs[i].token
       /\ runs'[i].outcome \in Failures
  /\ runs'[i].pc = "reply" /\ runs'[i].outcome = "ack" => Settled(KeyOf[runs'[i].msg])

LEMMA KeyType ==
  ASSUME TypeOK, NEW i \in Runs
  PROVE  RunKey(i) \in Keys
  BY ConstantsAssumption DEF RunKey, TypeOK, RunRecords

LEMMA RunOnlyStep ==
  ASSUME Inv, TypeOK', NEW i \in Runs, RunOnly(i)
  PROVE  Inv'
<1> USE DEF Inv, RunOnly
<1>1. \A j \in Runs, k \in Keys : Claims(j, k)' => Claims(j, k) /\ runs'[j].token = runs[j].token
  BY DEF Claims, RunKey
<1>2. RowShape' /\ NewestClaimSettles' /\ CompletedReturned' /\ StartedBounded' /\ AckedMeansSettled'
  BY DEF RowShape, NewestClaimSettles, CompletedReturned, StartedBounded, AckedMeansSettled, Settled
<1>3. ClaimsBounded' /\ ClaimsDistinct'
  BY <1>1 DEF ClaimsBounded, ClaimsDistinct
<1>4. BeginFresh'
  BY DEF BeginFresh, RunKey
<1>5. RunKnowledge'
  BY DEF RunKnowledge, RunKey, Failures
<1>6. AckKnowsSettled'
  BY DEF AckKnowsSettled, RunKey, Settled
<1>7. OwnedWithoutFaults'
  <2> SUFFICES ASSUME faults' = 0, NEW j \in Runs, NEW k \in Keys, Claims(j, k)'
               PROVE  (Owns(j, k) /\ ~ledger[k].due)'
    BY DEF OwnedWithoutFaults
  <2>1. Owns(j, k) /\ ~ledger[k].due
    BY <1>1 DEF OwnedWithoutFaults
  <2> QED
    BY <1>1, <2>1 DEF Owns
<1> QED
  BY <1>2, <1>3, <1>4, <1>5, <1>6, <1>7

\* The claim statement takes key k over for run i, which learns of it ("begin")
\* or not (the store call throws after the write).
ClaimTaken(i, k) ==
  /\ UNCHANGED <<msgs, started, settler, effects>>
  /\ k = RunKey(i) /\ runs[i].pc = "claim"
  /\ Claimable(ledger[k])
  /\ ledger'[k] = ClaimRow(ledger[k])
  /\ \A q \in Keys : q # k => ledger'[q] = ledger[q]
  /\ \A j \in Runs : j # i => runs'[j] = runs[j]
  /\ \/ /\ faults' = faults
        /\ runs'[i].pc = "begin" /\ runs'[i].msg = runs[i].msg
        /\ runs'[i].token = ClaimRow(ledger[k]).token
     \/ /\ faults' # 0
        /\ runs'[i].pc = "reply" /\ runs'[i].outcome = "retry"

LEMMA ClaimTakenStep ==
  ASSUME Inv, TypeOK', NEW i \in Runs, NEW k \in Keys, ClaimTaken(i, k)
  PROVE  Inv'
<1> USE DEF Inv, ClaimTaken
<1>0. /\ ledger[k].attempt \in Nat
      /\ ledger'[k].status = "running" /\ ~ledger'[k].due
      /\ ledger'[k].attempt = ledger[k].attempt + 1 /\ ledger'[k].token = ledger[k].attempt + 1
      /\ ~Settled(k) /\ ~Settled(k)'
  BY DEF TypeOK, Rows, ClaimRow, Claimable, Settled, Terminal
<1>1. \A q \in Keys : Settled(q) => Settled(q)' /\ ledger'[q] = ledger[q]
  BY <1>0 DEF Settled
<1>2. \A q \in Keys : ledger[q].attempt \in Nat /\ ledger'[q].attempt \in Nat
                      /\ ledger[q].attempt <= ledger'[q].attempt
  BY <1>0 DEF TypeOK, Rows
<1>3. \A j \in Runs, q \in Keys : j # i /\ Claims(j, q)' => Claims(j, q) /\ runs'[j].token = runs[j].token
  BY DEF Claims, RunKey
<1>4. \A q \in Keys : Claims(i, q)' => q = k /\ runs'[i].token = ledger[k].attempt + 1 /\ faults' = faults
  BY DEF Claims, RunKey, ClaimRow
<1>5. RowShape'
  BY <1>0 DEF RowShape
<1>6. ClaimsBounded'
  <2> SUFFICES ASSUME NEW j \in Runs, NEW q \in Keys, Claims(j, q)'
               PROVE  runs'[j].token \in 1..ledger'[q].attempt
    BY DEF ClaimsBounded
  <2>1. CASE j = i
    BY <1>0, <1>4, <2>1
  <2>2. CASE j # i
    <3>1. runs[j].token \in 1..ledger[q].attempt /\ runs'[j].token = runs[j].token
      BY <1>3, <2>2 DEF ClaimsBounded
    <3> QED
      BY <1>2, <3>1
  <2> QED
    BY <2>1, <2>2
<1>7. ClaimsDistinct'
  <2>1. \A j \in Runs, q \in Keys : j # i /\ Claims(j, q)' => runs'[j].token \in 1..ledger[q].attempt
    BY <1>3 DEF ClaimsBounded
  <2>2. \A j \in Runs : j # i /\ Claims(j, k)' => runs'[j].token # ledger[k].attempt + 1
    BY <2>1, <1>0
  <2> SUFFICES ASSUME NEW a \in Runs, NEW b \in Runs, NEW q \in Keys,
                      Claims(a, q)', Claims(b, q)', runs'[a].token = runs'[b].token
               PROVE  a = b
    BY DEF ClaimsDistinct
  <2>3. CASE a = i \/ b = i
    BY <1>4, <2>2, <2>3
  <2>4. CASE a # i /\ b # i
    BY <1>3, <2>4 DEF ClaimsDistinct
  <2> QED
    BY <2>3, <2>4
<1>8. StartedBounded'
  BY <1>2 DEF StartedBounded
<1>9. BeginFresh'
  <2>1. ledger[k].attempt + 1 \notin started[k]
    BY <1>0 DEF StartedBounded
  <2>2. runs'[i].pc = "begin" => runs'[i].token = ledger[k].attempt + 1 /\ RunKey(i)' = k
    BY DEF ClaimRow, RunKey
  <2>3. \A j \in Runs : j # i => RunKey(j)' = RunKey(j)
    BY DEF RunKey
  <2> QED
    BY <2>1, <2>2, <2>3 DEF BeginFresh
<1>10. RunKnowledge'
  BY DEF RunKnowledge, RunKey
<1>11. AckKnowsSettled' /\ AckedMeansSettled'
  <2>1. \A j \in Runs : j # i => RunKey(j)' = RunKey(j) /\ RunKey(j) \in Keys
    BY KeyType DEF RunKey
  <2>2. \A m \in Messages : KeyOf[m] \in Keys
    BY ConstantsAssumption
  <2> QED
    BY <1>1, <2>1, <2>2 DEF AckKnowsSettled, AckedMeansSettled
<1>12. CompletedReturned' /\ NewestClaimSettles'
  BY <1>0 DEF CompletedReturned, NewestClaimSettles, Settled
<1>13. OwnedWithoutFaults'
  <2> SUFFICES ASSUME faults' = 0, NEW j \in Runs, NEW q \in Keys, Claims(j, q)'
               PROVE  (Owns(j, q) /\ ~ledger[q].due)'
    BY DEF OwnedWithoutFaults
  <2>1. faults = 0
    OBVIOUS
  <2>2. CASE j = i
    BY <1>0, <1>4, <2>2 DEF Owns
  <2>3. CASE j # i
    <3>1. Claims(j, q) /\ Owns(j, q) /\ ~ledger[q].due /\ runs'[j] = runs[j]
      BY <1>3, <2>1, <2>3 DEF OwnedWithoutFaults
    <3>2. q # k
      BY <3>1 DEF Owns, Claimable
    <3> QED
      BY <3>1, <3>2 DEF Owns
  <2> QED
    BY <2>2, <2>3
<1> QED
  BY <1>5, <1>6, <1>7, <1>8, <1>9, <1>10, <1>11, <1>12, <1>13

\* The owner of key k writes its verdict, and run i is told to acknowledge only
\* if the verdict is terminal.
VerdictWritten(i, k) ==
  /\ UNCHANGED <<msgs, started, effects>>
  /\ faults' = 0 => faults = 0
  /\ k = RunKey(i) /\ runs[i].pc = "record" /\ Owns(i, k)
  /\ ledger'[k] = [ledger[k] EXCEPT !.status = RecordedStatus(runs[i]), !.due = FALSE]
  /\ settler'[k] = IF RecordedStatus(runs[i]) \in Terminal THEN runs[i].token ELSE settler[k]
  /\ \A q \in Keys : q # k => ledger'[q] = ledger[q] /\ settler'[q] = settler[q]
  /\ \A j \in Runs : j # i => runs'[j] = runs[j]
  /\ runs'[i].pc = "reply" /\ runs'[i].msg = runs[i].msg
  /\ runs'[i].outcome = "ack" => RecordedStatus(runs[i]) \in Terminal

LEMMA VerdictWrittenStep ==
  ASSUME Inv, TypeOK', NEW i \in Runs, NEW k \in Keys, VerdictWritten(i, k)
  PROVE  Inv'
<1> USE DEF Inv, VerdictWritten
<1>0. /\ ledger[k].status = "running" /\ ledger[k].token = runs[i].token
      /\ ledger'[k].status = RecordedStatus(runs[i])
      /\ ledger'[k].attempt = ledger[k].attempt /\ ledger'[k].token = ledger[k].token
      /\ RecordedStatus(runs[i]) \in Terminal \union {"retrying"}
      /\ ~Settled(k)
  BY DEF Owns, TypeOK, Rows, RecordedStatus, Settled, Terminal
<1>1. \A q \in Keys : /\ Settled(q) => Settled(q)' /\ ledger'[q] = ledger[q]
                      /\ ledger'[q].attempt = ledger[q].attempt
  BY <1>0 DEF Settled
<1>2. \A j \in Runs, q \in Keys :
        Claims(j, q)' => j # i /\ Claims(j, q) /\ runs'[j] = runs[j]
  BY DEF Claims, RunKey
<1>3. \A j \in Runs : RunKey(j)' = RunKey(j) /\ RunKey(j) \in Keys
  BY KeyType DEF RunKey
<1>4. RowShape'
  <2>1. ledger[k].status # "none" /\ ledger'[k].status # "none"
    BY <1>0 DEF Terminal
  <2>2. ledger'[k].token = ledger'[k].attempt /\ ledger'[k].attempt # 0
    BY <1>0, <2>1 DEF RowShape
  <2>3. \A q \in Keys : q # k => /\ ledger'[q].token = ledger'[q].attempt
                                 /\ (ledger'[q].status = "none") <=> (ledger'[q].attempt = 0)
    BY DEF RowShape
  <2> QED
    BY <2>1, <2>2, <2>3 DEF RowShape
<1>5. ClaimsBounded' /\ ClaimsDistinct'
  BY <1>1, <1>2 DEF ClaimsBounded, ClaimsDistinct
<1>6. StartedBounded' /\ BeginFresh' /\ RunKnowledge'
  BY <1>1, <1>3 DEF StartedBounded, BeginFresh, RunKnowledge
<1>7. AckKnowsSettled'
  <2>1. runs'[i].outcome = "ack" => Settled(k)'
    BY <1>0 DEF Settled
  <2> QED
    BY <1>1, <1>3, <2>1 DEF AckKnowsSettled
<1>8. AckedMeansSettled'
  BY <1>1, ConstantsAssumption DEF AckedMeansSettled
<1>9. CompletedReturned'
  <2>1. RecordedStatus(runs[i]) = "completed" => k \in effects
    BY DEF RecordedStatus, RunKnowledge
  <2> QED
    BY <1>0, <2>1 DEF CompletedReturned
<1>10. NewestClaimSettles'
  <2>1. Settled(k)' => settler'[k] = ledger'[k].attempt
    BY <1>0 DEF Settled, RowShape
  <2>2. \A q \in Keys : q # k /\ Settled(q)' => settler'[q] = ledger'[q].attempt
    BY DEF Settled, NewestClaimSettles
  <2> QED
    BY <2>1, <2>2 DEF NewestClaimSettles
<1>11. OwnedWithoutFaults'
  <2> SUFFICES ASSUME faults' = 0, NEW j \in Runs, NEW q \in Keys, Claims(j, q)'
               PROVE  (Owns(j, q) /\ ~ledger[q].due)'
    BY DEF OwnedWithoutFaults
  <2>1. j # i /\ Claims(j, q) /\ Owns(j, q) /\ ~ledger[q].due /\ runs'[j] = runs[j]
    BY <1>2 DEF OwnedWithoutFaults
  <2>2. q # k
    BY <2>1 DEF Owns, ClaimsDistinct
  <2> QED
    BY <1>2, <2>1, <2>2 DEF Owns
<1> QED
  BY <1>4, <1>5, <1>6, <1>7, <1>8, <1>9, <1>10, <1>11

LEMMA StartStep ==
  ASSUME Inv, TypeOK', NEW i \in Runs, StartHandler(i)
  PROVE  Inv'
<1> DEFINE k == RunKey(i)
<1> USE DEF Inv
<1>0. /\ k \in Keys
      /\ Move(i, "handler", "none")
      /\ UNCHANGED <<ledger, msgs, settler, effects, faults>>
      /\ started' = [started EXCEPT ![k] = @ \union {runs[i].token}]
      /\ runs[i].pc = "begin" /\ runs[i].token <= MaxAttempts
  BY KeyType DEF StartHandler
<1>1. /\ runs'[i].pc = "handler"
      /\ \A j \in Runs : j # i => runs'[j] = runs[j]
      /\ \A j \in Runs : runs'[j].msg = runs[j].msg /\ runs'[j].token = runs[j].token
  BY <1>0, MoveEffect DEF Steps, Outcomes
<1>2. \A j \in Runs : RunKey(j)' = RunKey(j)
  BY <1>1 DEF RunKey
<1>3. \A j \in Runs, q \in Keys : Claims(j, q)' => Claims(j, q)
  BY <1>0, <1>1, <1>2 DEF Claims
<1>4. Claims(i, k) /\ runs[i].token \in 1..ledger[k].attempt
  BY <1>0, <1>1 DEF Claims, ClaimsBounded
<1>5. \A q \in Keys : started'[q] = IF q = k THEN started[k] \union {runs[i].token} ELSE started[q]
  BY <1>0, <1>1 DEF TypeOK
<1>6. RowShape' /\ NewestClaimSettles' /\ CompletedReturned' /\ AckedMeansSettled'
  BY <1>0, <1>1 DEF RowShape, NewestClaimSettles, CompletedReturned, AckedMeansSettled, Settled
<1>7. ClaimsBounded' /\ ClaimsDistinct'
  BY <1>0, <1>1, <1>3 DEF ClaimsBounded, ClaimsDistinct
<1>8. StartedBounded'
  <2>1. runs[i].token \in 1..MaxAttempts
    BY <1>0, <1>1, <1>4, ConstantsAssumption DEF TypeOK, RunRecords
  <2> QED
    BY <1>0, <1>1, <1>4, <1>5, <2>1 DEF StartedBounded
<1>9. BeginFresh'
  <2> SUFFICES ASSUME NEW j \in Runs, runs'[j].pc = "begin"
               PROVE  runs'[j].token \notin started'[RunKey(j)]
    BY <1>2 DEF BeginFresh
  <2>1. j # i /\ runs[j].pc = "begin" /\ RunKey(j) \in Keys /\ Claims(j, RunKey(j))
    BY <1>0, <1>1, KeyType DEF Claims
  <2>2. runs[j].token \notin started[RunKey(j)]
    BY <2>1 DEF BeginFresh
  <2>3. RunKey(j) = k => runs[j].token # runs[i].token
    BY <1>4, <2>1 DEF ClaimsDistinct
  <2> QED
    BY <1>1, <1>5, <2>1, <2>2, <2>3
<1>10. RunKnowledge'
  <2>1. started'[k] # {}
    BY <1>0, <1>1, <1>5
  <2>2. \A q \in Keys : started[q] # {} => started'[q] # {}
    BY <1>5
  <2> QED
    BY <1>0, <1>1, <1>2, <2>1, <2>2, KeyType DEF RunKnowledge
<1>11. AckKnowsSettled'
  BY <1>0, <1>1, <1>2 DEF AckKnowsSettled, Settled
<1>12. OwnedWithoutFaults'
  BY <1>0, <1>1, <1>3 DEF OwnedWithoutFaults, Owns
<1> QED
  BY <1>6, <1>7, <1>8, <1>9, <1>10, <1>11, <1>12

LEMMA HandlerEndStep ==
  ASSUME Inv, TypeOK', NEW i \in Runs, HandlerEnd(i)
  PROVE  Inv'
<1> USE DEF Inv
<1> PICK outcome \in {"ok", "cleanup", "permanent", "transient"} :
      /\ Move(i, "record", outcome)
      /\ effects' = IF outcome \in {"ok", "cleanup"} THEN effects \union {RunKey(i)} ELSE effects
  BY DEF HandlerEnd
<1>0. /\ RunKey(i) \in Keys
      /\ UNCHANGED <<ledger, msgs, settler, started, faults>>
      /\ runs[i].pc = "handler"
  BY KeyType DEF HandlerEnd
<1>1. /\ runs'[i].pc = "record" /\ runs'[i].outcome = outcome
      /\ \A j \in Runs : j # i => runs'[j] = runs[j]
      /\ \A j \in Runs : runs'[j].msg = runs[j].msg /\ runs'[j].token = runs[j].token
  BY MoveEffect DEF Steps, Outcomes, Failures
<1>2. \A j \in Runs : RunKey(j)' = RunKey(j)
  BY <1>1 DEF RunKey
<1>3. \A j \in Runs, q \in Keys : Claims(j, q)' => Claims(j, q)
  BY <1>0, <1>1, <1>2 DEF Claims
<1>4. effects \subseteq effects' /\ (outcome = "ok" => RunKey(i) \in effects')
  OBVIOUS
<1>5. RowShape' /\ NewestClaimSettles' /\ CompletedReturned' /\ AckedMeansSettled' /\ StartedBounded'
  BY <1>0, <1>1, <1>4
  DEF RowShape, NewestClaimSettles, CompletedReturned, AckedMeansSettled, StartedBounded, Settled
<1>6. ClaimsBounded' /\ ClaimsDistinct'
  BY <1>0, <1>1, <1>3 DEF ClaimsBounded, ClaimsDistinct
<1>7. BeginFresh' /\ AckKnowsSettled'
  BY <1>0, <1>1, <1>2 DEF BeginFresh, AckKnowsSettled, Settled
<1>8. RunKnowledge'
  BY <1>0, <1>1, <1>2, <1>4 DEF RunKnowledge, Failures
<1>9. OwnedWithoutFaults'
  BY <1>0, <1>1, <1>3 DEF OwnedWithoutFaults, Owns
<1> QED
  BY <1>5, <1>6, <1>7, <1>8, <1>9

\* Steps of the queue: a message is sent, rejected, or acknowledged.
LEMMA QueueStep ==
  ASSUME Inv, TypeOK',
         \/ \E m \in Messages : Dispatch(m) \/ RejectEnvelope(m)
         \/ \E i \in Runs : Reply(i)
  PROVE  Inv'
<1> USE DEF Inv
<1>1. ASSUME NEW m \in Messages, Dispatch(m) \/ RejectEnvelope(m) PROVE Inv'
  <2>1. /\ UNCHANGED <<ledger, runs, started, settler, effects, faults>>
        /\ \A n \in Messages \ BadMessages : msgs'[n] = "acked" => msgs[n] = "acked"
    BY <1>1 DEF Dispatch, RejectEnvelope, TypeOK
  <2>2. AckedMeansSettled'
    BY <2>1 DEF AckedMeansSettled, Settled
  <2>3. RowShape' /\ ClaimsBounded' /\ ClaimsDistinct' /\ StartedBounded' /\ BeginFresh'
        /\ RunKnowledge' /\ AckKnowsSettled' /\ CompletedReturned' /\ NewestClaimSettles'
        /\ OwnedWithoutFaults'
    BY <2>1 DEF RowShape, ClaimsBounded, ClaimsDistinct, StartedBounded, BeginFresh, RunKnowledge,
       AckKnowsSettled, CompletedReturned, NewestClaimSettles, OwnedWithoutFaults, Claims, Owns,
       RunKey, Settled
  <2> QED
    BY <2>2, <2>3
<1>2. ASSUME NEW i \in Runs, Reply(i) PROVE Inv'
  <2> DEFINE m == runs[i].msg
  <2>1. /\ UNCHANGED <<ledger, started, settler, effects, faults>>
        /\ runs'[i].pc = "idle"
        /\ \A j \in Runs : j # i => runs'[j] = runs[j]
        /\ m \in Messages
        /\ \A n \in Messages : msgs'[n] = "acked" =>
             msgs[n] = "acked" \/ (n = m /\ runs[i].outcome = "ack" /\ runs[i].pc = "reply")
    BY <1>2 DEF Reply, Idle, TypeOK, RunRecords
  <2>2. \A j \in Runs, k \in Keys : Claims(j, k)' => Claims(j, k) /\ runs'[j] = runs[j]
    BY <2>1 DEF Claims, RunKey
  <2>3. AckedMeansSettled'
    BY <2>1 DEF AckedMeansSettled, AckKnowsSettled, RunKey, Settled
  <2>4. RowShape' /\ StartedBounded' /\ CompletedReturned' /\ NewestClaimSettles'
    BY <2>1 DEF RowShape, StartedBounded, CompletedReturned, NewestClaimSettles, Settled
  <2>5. ClaimsBounded' /\ ClaimsDistinct'
    BY <2>1, <2>2 DEF ClaimsBounded, ClaimsDistinct
  <2>6. BeginFresh' /\ RunKnowledge' /\ AckKnowsSettled'
    BY <2>1 DEF BeginFresh, RunKnowledge, AckKnowsSettled, RunKey, Settled
  <2>7. OwnedWithoutFaults'
    BY <2>1, <2>2 DEF OwnedWithoutFaults, Owns
  <2> QED
    BY <2>3, <2>4, <2>5, <2>6, <2>7
<1> QED
  BY <1>1, <1>2

LEMMA LapseStep ==
  ASSUME Inv, TypeOK', NEW k \in Keys, Lapse(k)
  PROVE  Inv'
<1> USE DEF Inv
<1>0. /\ UNCHANGED <<msgs, runs, started, settler, effects>>
      /\ ledger' = [ledger EXCEPT ![k].due = TRUE]
      /\ faults' = 0 => faults = 0 /\ ~\E i \in Runs : Owns(i, k)
  BY DEF Lapse, Fault, TypeOK
<1>1. \A q \in Keys : /\ ledger'[q].status = ledger[q].status /\ ledger'[q].token = ledger[q].token
                      /\ ledger'[q].attempt = ledger[q].attempt
                      /\ q # k => ledger'[q] = ledger[q]
  BY <1>0 DEF TypeOK, Rows
<1>2. \A q \in Keys : Settled(q)' = Settled(q)
  BY <1>1 DEF Settled
<1>3. \A i \in Runs : RunKey(i)' = RunKey(i) /\ RunKey(i) \in Keys
  BY <1>0, KeyType DEF RunKey
<1>4. \A i \in Runs, q \in Keys : Claims(i, q)' = Claims(i, q)
  BY <1>0 DEF Claims, RunKey
<1>5. RowShape' /\ StartedBounded' /\ CompletedReturned' /\ NewestClaimSettles'
  BY <1>0, <1>1, <1>2 DEF RowShape, StartedBounded, CompletedReturned, NewestClaimSettles
<1>6. ClaimsBounded' /\ ClaimsDistinct'
  BY <1>0, <1>1, <1>4 DEF ClaimsBounded, ClaimsDistinct
<1>7. BeginFresh' /\ RunKnowledge' /\ AckKnowsSettled'
  BY <1>0, <1>2, <1>3 DEF BeginFresh, RunKnowledge, AckKnowsSettled
<1>8. AckedMeansSettled'
  BY <1>0, <1>2, ConstantsAssumption DEF AckedMeansSettled
<1>9. OwnedWithoutFaults'
  BY <1>0, <1>1, <1>4 DEF OwnedWithoutFaults, Owns
<1> QED
  BY <1>5, <1>6, <1>7, <1>8, <1>9

-----------------------------------------------------------------------------
\* The remaining actions are instances of RunOnly, ClaimTaken and VerdictWritten.
LEMMA RunOnlyActions ==
  ASSUME Inv, NEW i \in Runs,
         \/ \E m \in Messages : Deliver(i, m)
         \/ Claim(i) /\ ~Claimable(ledger[RunKey(i)])
         \/ Inspect(i) \/ Exhausted(i) \/ InvalidPayload(i) \/ Crash(i)
         \/ Record(i) /\ ~Owns(i, RunKey(i))
         \/ StoreError(i) /\ UNCHANGED <<ledger, settler>>
  PROVE  RunOnly(i)
<1> USE DEF Inv, RunOnly
<1>0. TypeOK
  OBVIOUS
<1>1. CASE \E m \in Messages : Deliver(i, m)
  <2> PICK m \in Messages : Deliver(i, m)
    BY <1>1
  <2>1. runs' = [runs EXCEPT ![i] = [Idle EXCEPT !.pc = "claim", !.msg = m]]
    BY DEF Deliver
  <2>2. runs'[i].pc = "claim" /\ \A j \in Runs : j # i => runs'[j] = runs[j]
    BY <2>1, IdleType DEF TypeOK, RunRecords
  <2>3. Fault \/ UNCHANGED faults
    BY DEF Deliver
  <2>4. faults' = 0 => faults = 0
    BY <2>3 DEF Fault, TypeOK
  <2> QED
    BY <2>2, <2>4 DEF Deliver
<1>2. CASE Claim(i) /\ ~Claimable(ledger[RunKey(i)])
  <2>1. Move(i, "inspect", "none") /\ UNCHANGED <<ledger, msgs, started, settler, effects, faults>>
    BY <1>2 DEF Claim
  <2> QED
    BY <2>1, MoveEffect DEF Steps, Outcomes
<1>3. CASE Inspect(i)
  <2> DEFINE outcome == IF Settled(RunKey(i)) THEN "ack" ELSE "retry"
  <2>1. Move(i, "reply", outcome) /\ UNCHANGED <<ledger, msgs, started, settler, effects, faults>>
    BY <1>3 DEF Inspect
  <2>2. outcome \in Outcomes /\ (outcome = "ack" => Settled(RunKey(i)))
    BY DEF Outcomes
  <2> QED
    BY <2>1, <2>2, MoveEffect DEF Steps, RunKey
<1>4. CASE Exhausted(i) \/ InvalidPayload(i)
  <2>1. PICK outcome \in {"exhausted", "invalid"} : Move(i, "record", outcome)
    BY <1>4 DEF Exhausted, InvalidPayload
  <2>2. runs[i].pc = "begin" /\ UNCHANGED <<ledger, msgs, started, settler, effects, faults>>
    BY <1>4 DEF Exhausted, InvalidPayload
  <2> QED
    BY <2>1, <2>2, MoveEffect DEF Steps, Outcomes, Failures
<1>5. CASE Crash(i)
  <2>1. runs'[i].pc = "idle" /\ \A j \in Runs : j # i => runs'[j] = runs[j]
    BY <1>5 DEF Crash, Idle, TypeOK
  <2> QED
    BY <1>5, <2>1 DEF Crash, Fault, TypeOK
<1>6. CASE Record(i) /\ ~Owns(i, RunKey(i))
  <2>1. Move(i, "reply", "retry") /\ UNCHANGED <<ledger, msgs, started, settler, effects, faults>>
    BY <1>6 DEF Record, WriteVerdict
  <2> QED
    BY <2>1, MoveEffect DEF Steps, Outcomes
<1>7. CASE StoreError(i) /\ UNCHANGED <<ledger, settler>>
  <2>1. Move(i, "reply", "retry") /\ UNCHANGED <<ledger, msgs, started, settler, effects>>
    BY <1>7 DEF StoreError
  <2>2. faults' # 0
    BY <1>7 DEF StoreError, Fault, TypeOK
  <2> QED
    BY <2>1, <2>2, MoveEffect DEF Steps, Outcomes
<1> QED
  BY <1>1, <1>2, <1>3, <1>4, <1>5, <1>6, <1>7

LEMMA ClaimActions ==
  ASSUME Inv, NEW i \in Runs, Claimable(ledger[RunKey(i)]),
         \/ Claim(i)
         \/ StoreError(i) /\ runs[i].pc = "claim" /\ ledger' # ledger
  PROVE  ClaimTaken(i, RunKey(i))
<1> DEFINE k == RunKey(i)
<1> USE DEF Inv
<1>0. k \in Keys /\ TypeOK
  BY KeyType
<1>1. CASE Claim(i)
  <2>1. /\ ledger' = [ledger EXCEPT ![k] = ClaimRow(ledger[k])]
        /\ runs' = [runs EXCEPT ![i].pc = "begin", ![i].token = ClaimRow(ledger[k]).token]
        /\ runs[i].pc = "claim"
        /\ UNCHANGED <<msgs, started, settler, effects, faults>>
    BY <1>1 DEF Claim
  <2> HIDE DEF k
  <2>2. runs'[i].pc = "begin" /\ runs'[i].msg = runs[i].msg
        /\ runs'[i].token = ClaimRow(ledger[k]).token
        /\ \A j \in Runs : j # i => runs'[j] = runs[j]
    BY <1>0, <2>1 DEF TypeOK, RunRecords
  <2>3. ledger'[k] = ClaimRow(ledger[k]) /\ \A q \in Keys : q # k => ledger'[q] = ledger[q]
    BY <1>0, <2>1 DEF TypeOK
  <2> QED
    BY <1>0, <2>1, <2>2, <2>3 DEF ClaimTaken, k
<1>2. CASE StoreError(i) /\ runs[i].pc = "claim" /\ ledger' # ledger
  <2>1. /\ ledger' = [ledger EXCEPT ![k] = ClaimRow(ledger[k])]
        /\ Move(i, "reply", "retry") /\ Fault
        /\ UNCHANGED <<msgs, started, settler, effects>>
    BY <1>2 DEF StoreError
  <2>2. ledger'[k] = ClaimRow(ledger[k]) /\ \A q \in Keys : q # k => ledger'[q] = ledger[q]
    BY <1>0, <2>1 DEF TypeOK
  <2>3. faults' # 0
    BY <2>1 DEF Fault, TypeOK
  <2> QED
    BY <1>0, <1>2, <2>1, <2>2, <2>3, MoveEffect DEF ClaimTaken, Steps, Outcomes
<1> QED
  BY <1>1, <1>2

LEMMA VerdictActions ==
  ASSUME Inv, NEW i \in Runs, Owns(i, RunKey(i)),
         \/ Record(i)
         \/ StoreError(i) /\ runs[i].pc = "record" /\ WriteVerdict(i)
  PROVE  VerdictWritten(i, RunKey(i))
<1> DEFINE k == RunKey(i)
           status == RecordedStatus(runs[i])
<1> USE DEF Inv
<1>0. k \in Keys /\ TypeOK
  BY KeyType
<1>1. PICK outcome \in {"ack", "retry"} :
        /\ Move(i, "reply", outcome)
        /\ outcome = "ack" => status \in Terminal
  BY DEF Record, StoreError
<1>2. /\ runs'[i].pc = "reply" /\ runs'[i].msg = runs[i].msg /\ runs'[i].outcome = outcome
      /\ \A j \in Runs : j # i => runs'[j] = runs[j]
  BY <1>1, MoveEffect DEF Steps, Outcomes
<1>3. /\ UNCHANGED <<msgs, started, effects>>
      /\ faults' = 0 => faults = 0
      /\ runs[i].pc = "record" /\ WriteVerdict(i)
  BY DEF Record, StoreError, Fault, TypeOK
<1>4. /\ ledger' = [ledger EXCEPT ![k].status = status, ![k].due = FALSE]
      /\ IF status \in Terminal
         THEN settler' = [settler EXCEPT ![k] = runs[i].token] ELSE UNCHANGED settler
  BY <1>3 DEF WriteVerdict
<1> HIDE DEF k, status
<1>5. /\ ledger'[k] = [ledger[k] EXCEPT !.status = status, !.due = FALSE]
      /\ \A q \in Keys : q # k => ledger'[q] = ledger[q]
  BY <1>0, <1>4 DEF TypeOK
<1>6. /\ settler'[k] = IF status \in Terminal THEN runs[i].token ELSE settler[k]
      /\ \A q \in Keys : q # k => settler'[q] = settler[q]
  BY <1>0, <1>4 DEF TypeOK
<1> QED
  BY <1>0, <1>1, <1>2, <1>3, <1>5, <1>6 DEF VerdictWritten, k, status

LEMMA InvStep ==
  ASSUME Inv, [Next]_vars
  PROVE  Inv'
<1>0. TypeOK'
  BY TypeStep DEF Inv
<1>k. \A i \in Runs : RunKey(i) \in Keys
  BY KeyType DEF Inv
<1>1. ASSUME NEW m \in Messages, Dispatch(m) \/ RejectEnvelope(m) PROVE Inv'
  BY <1>0, <1>1, QueueStep
<1>2. ASSUME NEW i \in Runs, NEW m \in Messages, Deliver(i, m) PROVE Inv'
  BY <1>0, <1>2, RunOnlyActions, RunOnlyStep
<1>3. ASSUME NEW i \in Runs, RunStep(i) PROVE Inv'
  <2>1. CASE Claim(i)
    BY <1>0, <1>k, <2>1, RunOnlyActions, RunOnlyStep, ClaimActions, ClaimTakenStep
  <2>2. CASE Inspect(i) \/ Exhausted(i) \/ InvalidPayload(i)
    BY <1>0, <2>2, RunOnlyActions, RunOnlyStep
  <2>3. CASE StartHandler(i)
    BY <1>0, <2>3, StartStep
  <2>4. CASE HandlerEnd(i)
    BY <1>0, <2>4, HandlerEndStep
  <2>5. CASE Record(i)
    BY <1>0, <1>k, <2>5, RunOnlyActions, RunOnlyStep, VerdictActions, VerdictWrittenStep
  <2>6. CASE Reply(i)
    BY <1>0, <2>6, QueueStep
  <2> QED
    BY <1>3, <2>1, <2>2, <2>3, <2>4, <2>5, <2>6 DEF RunStep
<1>4. ASSUME NEW i \in Runs, StoreError(i) PROVE Inv'
  <2>1. CASE UNCHANGED <<ledger, settler>>
    BY <1>0, <1>4, <2>1, RunOnlyActions, RunOnlyStep
  <2>2. CASE runs[i].pc = "claim" /\ Claimable(ledger[RunKey(i)]) /\ UNCHANGED settler /\ ledger' # ledger
    BY <1>0, <1>k, <1>4, <2>2, ClaimActions, ClaimTakenStep
  <2>3. CASE runs[i].pc = "record" /\ WriteVerdict(i) /\ Owns(i, RunKey(i))
    BY <1>0, <1>k, <1>4, <2>3, VerdictActions, VerdictWrittenStep
  <2> QED
    BY <1>4, <2>1, <2>2, <2>3 DEF StoreError, WriteVerdict
<1>5. ASSUME NEW i \in Runs, Crash(i) PROVE Inv'
  BY <1>0, <1>5, RunOnlyActions, RunOnlyStep
<1>6. ASSUME NEW k \in Keys, Lapse(k) PROVE Inv'
  BY <1>0, <1>6, LapseStep
<1>7. CASE UNCHANGED vars
  BY <1>7 DEF vars, Inv, TypeOK, RowShape, ClaimsBounded, ClaimsDistinct, StartedBounded, BeginFresh,
     RunKnowledge, AckKnowsSettled, CompletedReturned, NewestClaimSettles, AckedMeansSettled,
     OwnedWithoutFaults, Claims, Owns, RunKey, Settled
<1> QED
  BY <1>1, <1>2, <1>3, <1>4, <1>5, <1>6, <1>7 DEF Next

-----------------------------------------------------------------------------
(* What the invariant gives *)

\* The invariant is inductive: it holds in every state of every behaviour.
THEOREM Invariance == Spec => []Inv
<1>1. Init => Inv
  BY InitInv
<1>2. Inv /\ [Next]_vars => Inv'
  BY InvStep
<1> QED
  BY <1>1, <1>2, PTL DEF Spec

\* Ledger, queue and runs keep their types for any number of keys and runs.
THEOREM TypeCorrect == Spec => []TypeOK
<1>1. Inv => TypeOK
  BY DEF Inv
<1> QED
  BY <1>1, Invariance, PTL

\* queue() never acknowledges a message whose key is not settled.
THEOREM NoUnrecordedAck == Spec => []AckedMeansSettled
<1>1. Inv => AckedMeansSettled
  BY DEF Inv
<1> QED
  BY <1>1, Invariance, PTL

\* The token fence: only the newest claim of a key settles it.
THEOREM FencedVerdict == Spec => []NewestClaimSettles
<1>1. Inv => NewestClaimSettles
  BY DEF Inv
<1> QED
  BY <1>1, Invariance, PTL

\* No two runs work on one key before the first crash, store error, duplicate
\* delivery or early lease expiry.
THEOREM ExclusiveClaims == Spec => []ExclusiveWithoutFaults
<1>1. Inv => ExclusiveWithoutFaults
  <2> SUFFICES ASSUME Inv, faults = 0, NEW k \in Keys, NEW i \in Runs, NEW j \in Runs,
                      Claims(i, k), Claims(j, k)
               PROVE  i = j
    BY DEF ExclusiveWithoutFaults
  <2>1. runs[i].token = runs[j].token
    BY DEF Inv, OwnedWithoutFaults, Owns
  <2> QED
    BY <2>1 DEF Inv, ClaimsDistinct
<1> QED
  BY <1>1, Invariance, PTL

-----------------------------------------------------------------------------
(* Refinement *)

LEMMA ContractInitially == Init => Contract!ContractInit
  BY DEF Init, Contract!ContractInit, NoRow, Settled, Terminal

\* The handler is called for an attempt number no earlier call had.
LEMMA AttemptIsNew ==
  ASSUME Inv, NEW i \in Runs, StartHandler(i)
  PROVE  Contract!Attempt(RunKey(i))
<1>1. RunKey(i) \in Keys /\ Claims(i, RunKey(i))
  BY KeyType DEF Inv, StartHandler, Claims
<1>2. runs[i].token \in (1..MaxAttempts) \ started[RunKey(i)]
  BY <1>1, ConstantsAssumption
  DEF Inv, StartHandler, ClaimsBounded, BeginFresh, TypeOK, RunRecords
<1> QED
  BY <1>2 DEF Contract!Attempt, StartHandler, Settled

\* The owner settles an open key, as completed only after its handler returned.
LEMMA VerdictSettlesOnce ==
  ASSUME Inv, NEW i \in Runs, NEW k \in Keys, VerdictWritten(i, k), TypeOK'
  PROVE  Contract!Settle(k) \/ UNCHANGED Contract!contractVars
<1> DEFINE status == RecordedStatus(runs[i])
           verdict == [q \in Keys |-> IF Settled(q) THEN ledger[q].status ELSE "open"]
<1>0. /\ ledger[k].status = "running" /\ ledger'[k].status = status
      /\ status \in {"completed", "failed", "retrying"}
      /\ status = "completed" => k \in effects
  BY DEF Inv, VerdictWritten, Owns, TypeOK, Rows, RecordedStatus, RunKnowledge
<1>1. \A q \in Keys : q # k => ledger'[q] = ledger[q]
  BY DEF VerdictWritten
<1>2. verdict[k] = "open"
  BY <1>0 DEF Settled, Terminal
<1>3. CASE status = "retrying"
  <2>1. verdict' = verdict
    BY <1>0, <1>1, <1>3 DEF Settled, Terminal
  <2> QED
    BY <2>1 DEF Contract!contractVars, VerdictWritten
<1>4. CASE status # "retrying"
  <2>1. verdict' = [verdict EXCEPT ![k] = status]
    BY <1>0, <1>1, <1>4 DEF Settled, Terminal
  <2> QED
    BY <1>0, <1>2, <1>4, <2>1 DEF Contract!Settle, VerdictWritten
<1> QED
  BY <1>3, <1>4

LEMMA StepImplements ==
  ASSUME Inv, [Next]_vars
  PROVE  [Contract!ContractNext]_(Contract!contractVars)
<1> USE DEF Contract!ContractNext
<1>0. TypeOK'
  BY TypeStep DEF Inv
<1>k. \A i \in Runs : RunKey(i) \in Keys
  BY KeyType DEF Inv
<1> DEFINE Stutter == UNCHANGED Contract!contractVars
<1>r. ASSUME NEW i \in Runs, RunOnly(i) PROVE Stutter
  BY <1>r DEF RunOnly, Contract!contractVars, Settled
<1>c. ASSUME NEW i \in Runs, NEW k \in Keys, ClaimTaken(i, k) PROVE Stutter
  <2>1. \A q \in Keys : (Settled(q) <=> Settled(q)') /\ (Settled(q) => ledger'[q] = ledger[q])
    BY <1>c DEF ClaimTaken, Claimable, ClaimRow, Settled, Terminal
  <2> QED
    BY <1>c, <2>1 DEF ClaimTaken, Contract!contractVars
<1>1. ASSUME NEW m \in Messages, Dispatch(m) PROVE Stutter
  <2>1. {n \in Messages : msgs'[n] = "acked"} = {n \in Messages : msgs[n] = "acked"}
    BY <1>1 DEF Dispatch, Inv, TypeOK
  <2> QED
    BY <1>1, <2>1 DEF Dispatch, Contract!contractVars, Settled
<1>2. ASSUME NEW m \in Messages, RejectEnvelope(m) PROVE Contract!Finish(m)
  BY <1>2 DEF RejectEnvelope, Contract!Finish, Settled, Inv, TypeOK
<1>3. ASSUME NEW i \in Runs, NEW m \in Messages, Deliver(i, m) PROVE Stutter
  BY <1>r, <1>3, RunOnlyActions
<1>4. ASSUME NEW i \in Runs, RunStep(i) PROVE [Contract!ContractNext]_(Contract!contractVars)
  <2>1. CASE Claim(i)
    BY <1>k, <1>r, <1>c, <2>1, RunOnlyActions, ClaimActions
  <2>2. CASE Inspect(i) \/ Exhausted(i) \/ InvalidPayload(i)
    BY <1>r, <2>2, RunOnlyActions
  <2>3. CASE StartHandler(i)
    BY <1>k, <2>3, AttemptIsNew
  <2>4. CASE HandlerEnd(i)
    <3>1. started[RunKey(i)] # {}
      BY <2>4 DEF HandlerEnd, Inv, RunKnowledge
    <3>2. effects' = effects \union {RunKey(i)} \/ effects' = effects
      BY <2>4 DEF HandlerEnd
    <3>3. CASE effects' = effects \union {RunKey(i)}
      BY <1>k, <2>4, <3>1, <3>3 DEF HandlerEnd, Contract!Return, Settled
    <3>4. CASE effects' = effects
      BY <2>4, <3>4 DEF HandlerEnd, Contract!contractVars, Settled
    <3> QED
      BY <1>k, <3>2, <3>3, <3>4
  <2>5. CASE Record(i)
    BY <1>0, <1>k, <1>r, <2>5, RunOnlyActions, VerdictActions, VerdictSettlesOnce
  <2>6. CASE Reply(i)
    <3>1. PICK m \in Messages : m = runs[i].msg
      BY DEF Inv, TypeOK, RunRecords
    <3>2. CASE runs[i].outcome = "ack"
      <4>1. Settled(KeyOf[m]) /\ KeyOf[m] \in Keys
        BY <1>k, <2>6, <3>1, <3>2 DEF Reply, Inv, AckKnowsSettled, RunKey
      <4>2. msgs' = [msgs EXCEPT ![m] = "acked"]
        BY <2>6, <3>1, <3>2 DEF Reply
      <4>3. {n \in Messages : msgs'[n] = "acked"} = {n \in Messages : msgs[n] = "acked"} \union {m}
        BY <3>1, <4>2 DEF Inv, TypeOK
      <4> DEFINE verdict == [q \in Keys |-> IF Settled(q) THEN ledger[q].status ELSE "open"]
      <4>4. verdict[KeyOf[m]] # "open" /\ verdict' = verdict
        BY <2>6, <4>1 DEF Reply, Settled, Terminal
      <4>5. Contract!Finish(m)
        <5> HIDE DEF verdict
        <5>1. UNCHANGED <<started, effects>>
          BY <2>6 DEF Reply
        <5> QED
          BY <4>3, <4>4, <5>1 DEF Contract!Finish, verdict
      <4> QED
        BY <4>5
    <3>3. CASE runs[i].outcome # "ack"
      BY <2>6, <3>3 DEF Reply, Contract!contractVars, Settled
    <3> QED
      BY <3>2, <3>3
  <2> QED
    BY <1>4, <2>1, <2>2, <2>3, <2>4, <2>5, <2>6 DEF RunStep
<1>5. ASSUME NEW i \in Runs, StoreError(i) PROVE [Contract!ContractNext]_(Contract!contractVars)
  <2>1. CASE UNCHANGED <<ledger, settler>>
    BY <1>r, <1>5, <2>1, RunOnlyActions
  <2>2. CASE runs[i].pc = "claim" /\ Claimable(ledger[RunKey(i)]) /\ UNCHANGED settler /\ ledger' # ledger
    BY <1>k, <1>c, <1>5, <2>2, ClaimActions
  <2>3. CASE runs[i].pc = "record" /\ WriteVerdict(i) /\ Owns(i, RunKey(i))
    BY <1>0, <1>k, <1>5, <2>3, VerdictActions, VerdictSettlesOnce
  <2> QED
    BY <1>5, <2>1, <2>2, <2>3 DEF StoreError, WriteVerdict
<1>6. ASSUME NEW i \in Runs, Crash(i) PROVE Stutter
  BY <1>r, <1>6, RunOnlyActions
<1>7. ASSUME NEW k \in Keys, Lapse(k) PROVE Stutter
  <2>1. \A q \in Keys : ledger'[q].status = ledger[q].status
    BY <1>7 DEF Lapse, Inv, TypeOK, Rows
  <2> QED
    BY <1>7, <2>1 DEF Lapse, Contract!contractVars, Settled
<1>8. CASE UNCHANGED vars
  BY <1>8 DEF vars, Contract!contractVars, Settled
<1> QED
  BY <1>1, <1>2, <1>3, <1>4, <1>5, <1>6, <1>7, <1>8 DEF Next

\* createJobRuntime over the ledger implements JobContract: every step of a
\* consumer, of the queue, of a crash or of the clock is a step the contract
\* allows or changes nothing it speaks of.
THEOREM Implementation == Spec => ImplementsContract
<1>1. Init => Contract!ContractInit
  BY ContractInitially
<1>2. Inv /\ [Next]_vars => [Contract!ContractNext]_(Contract!contractVars)
  BY StepImplements
<1> QED
  BY <1>1, <1>2, Invariance, PTL DEF Spec, ImplementsContract, Contract!ContractSpec
=============================================================================
