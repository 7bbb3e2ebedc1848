------------------------- MODULE NotificationsProofs -------------------------
(***************************************************************************)
(* Proofs about Notifications for any callers, runs, attempts and faults:  *)
(* at most one mail is sent, the ledger tells the truth about it, and its  *)
(* verdict is final.                                                       *)
(*                                                                         *)
(* The argument rests on the column `sending`.  While a queued row has     *)
(* none, no provider was called or the call was rejected (Undelivered).  A *)
(* plain send is alone, because a row that is sending plainly is never     *)
(* claimed again (PlainAlone).  While the row is sending to a provider     *)
(* that deduplicates, no other kind of provider is called (Deduplicated).  *)
(***************************************************************************)
EXTENDS Notifications, TLAPS

\* Run r works on a claim of the row, which it may have lost.
Holds(r) == run[r].step \in {"prefs", "begin", "send", "finish"}

\* Run r owns the row, which is still queued.
Holder(r) == row.status = "queued" /\ row.token = r /\ Holds(r)

\* No mail was accepted, and none is on its way.
Clean == Mails = 0 /\ \A r \in Runs : run[r].step # "send"

\* No other run is at the provider.
Alone(r) == Mails = 0 /\ \A x \in Runs \ {r} : run[x].step # "send"

Undelivered ==
  row.status = "failed" \/ (row.status = "queued" /\ row.sending = "null") => Clean

Deduplicated ==
  row.status = "queued" /\ row.sending = "provider" =>
    plainMails = 0 /\ \A r \in Runs : run[r].step = "send" => run[r].mode = "provider"

PlainAlone ==
  \A r \in Runs : run[r].step = "send" /\ run[r].mode = "none" =>
    Alone(r) /\ (row.status = "queued" => row.token = r /\ row.sending = "none")

KeyedNeverPlain ==
  \A r \in Runs : run[r].step = "send" /\ run[r].mode = "provider" => plainMails = 0

\* What the owner may rely on at each of its steps.
OwnerAtPrefs(r) == run[r].step = "prefs" => row.sending = run[r].prior

OwnerAtBegin(r) ==
  run[r].step \in {"begin", "send"} =>
    row.channel = "email" /\ (run[r].prior = "provider" => run[r].mode = "provider")

OwnerAtSend(r) ==
  /\ run[r].step = "begin" => row.sending = run[r].prior
  /\ run[r].step = "send" =>
       row.sending = run[r].mode /\ (run[r].prior = "null" => Alone(r))

OwnerAtFinish(r) ==
  run[r].step = "finish" =>
    /\ Admits(run[r].result)
    /\ run[r].result.status = "queued" => run[r].attempt < MaxAttempts
    /\ run[r].result.status = "failed" \/ run[r].result.code = "rejected" => Clean

OwnerKnows ==
  \A r \in Runs : Holder(r) =>
    /\ run[r].attempt = row.attempt
    /\ OwnerAtPrefs(r) /\ OwnerAtBegin(r) /\ OwnerAtSend(r) /\ OwnerAtFinish(r)

AcceptedIsMailed ==
  \A r \in Runs : run[r].step = "finish" /\ run[r].result.status = "accepted" => Mails >= 1

InAppNeverSends == row.channel = "in-app" => row.sending = "null"

\* The row can be claimed now or as soon as its lease lapses.
Abandoned ==
  row.token = Nobody \/ row.lapsed \/ ~Holds(row.token)

\* Attempts beyond MaxAttempts are paid for by faults.
AttemptsPaid ==
  /\ row.attempt <= MaxAttempts + faults
  /\ row.status = "queued" /\ Abandoned => row.attempt + 1 <= MaxAttempts + faults

Inv ==
  /\ TypeOK
  /\ Undelivered /\ Deduplicated /\ PlainAlone /\ KeyedNeverPlain
  /\ OwnerKnows /\ AcceptedIsMailed /\ InAppNeverSends /\ AttemptsPaid
  /\ AtMostOneMail /\ StatusIsHonest

-----------------------------------------------------------------------------
(* Records *)

Attempts == 0..(MaxAttempts + MaxFaults)
RunRecords == [step : Steps, prior : {"null", "provider"}, mode : Modes,
               attempt : Attempts, result : Results]
RowRecords == [exists : BOOLEAN, channel : Channels, status : Statuses, attempt : Attempts,
               token : Runs \union {Nobody}, lapsed : BOOLEAN, sending : Modes \union {"null"}]

\* TypeOK in these sets.
LEMMA Types ==
  TypeOK <=>
    /\ row \in RowRecords
    /\ caller \in [Callers -> {"new", "inserted", "returned", "failed"}]
    /\ dispatched \in BOOLEAN
    /\ run \in [Runs -> RunRecords]
    /\ faults \in 0..MaxFaults /\ plainMails \in Nat /\ keyedMail \in BOOLEAN
  BY DEF TypeOK, RowRecords, RunRecords, Attempts

LEMMA IdleType == IdleRun \in RunRecords /\ IdleRun.step = "idle"
  BY NotificationsAssumption
    DEF IdleRun, RunRecords, Steps, Modes, Attempts, Results, Result, Statuses, Codes

\* Counting mails by cases.
LEMMA Counting ==
  ASSUME TypeOK
  PROVE  /\ Mails \in Nat
         /\ Mails = 0 <=> plainMails = 0 /\ ~keyedMail
         /\ Mails <= 1 <=> plainMails = 0 \/ (plainMails = 1 /\ ~keyedMail)
<1>1. CASE keyedMail
  BY <1>1 DEF TypeOK, Mails
<1>2. CASE ~keyedMail
  BY <1>2 DEF TypeOK, Mails
<1> QED
  BY <1>1, <1>2

\* What Ends and Finishes do to the runs.
LEMMA EndsEffect ==
  ASSUME TypeOK, NEW r \in Runs, Ends(r)
  PROVE  /\ run' \in [Runs -> RunRecords] /\ run'[r].step = "idle"
         /\ \A x \in Runs \ {r} : run'[x] = run[x]
  BY Types, IdleType DEF Ends

LEMMA FinishesEffect ==
  ASSUME TypeOK, NEW r \in Runs, NEW result \in Results, Finishes(r, result)
  PROVE  /\ run' \in [Runs -> RunRecords]
         /\ run'[r].step = "finish" /\ run'[r].result = result
         /\ run'[r].attempt = run[r].attempt
         /\ \A x \in Runs \ {r} : run'[x] = run[x]
<1>1. "finish" \in Steps
  BY DEF Steps
<1>2. run \in [Runs -> RunRecords]
  BY Types
<1> QED
  BY <1>1, <1>2 DEF Finishes, RunRecords

-----------------------------------------------------------------------------
(* What steps do to the invariant *)

\* A run ends without touching the row: it was not the owner, its lease had
\* lapsed, or a fault ends it.
LEMMA EndKeepsInv ==
  ASSUME Inv, NEW r \in Runs, Ends(r), UNCHANGED <<row, enqueueVars, providerVars>>,
         \/ faults' = faults /\ ~(Holder(r) /\ ~row.lapsed)
         \/ Fault
  PROVE  Inv'
<1>1. /\ run' \in [Runs -> RunRecords] /\ run'[r].step = "idle"
      /\ \A x \in Runs \ {r} : run'[x] = run[x]
  BY EndsEffect DEF Inv
<1>2. faults' \in 0..MaxFaults /\ faults' >= faults
  BY NotificationsAssumption DEF Inv, TypeOK, Fault
<1>3. TypeOK'
  BY <1>1, <1>2, Types DEF Inv, TypeOK, RunRecords, Attempts, enqueueVars, providerVars
<1>4. Mails' = Mails
  BY DEF Mails, providerVars
<1>5. \A x \in Runs : Holder(x)' => x # r /\ Holder(x) /\ run'[x] = run[x]
  BY <1>1 DEF Holder, Holds
<1>6. (Clean => Clean') /\ \A x \in Runs : Alone(x) => Alone(x)'
  BY <1>1, <1>4 DEF Clean, Alone
<1>7. Undelivered' /\ InAppNeverSends' /\ AtMostOneMail' /\ StatusIsHonest'
  BY <1>4, <1>6 DEF Inv, Undelivered, InAppNeverSends, AtMostOneMail, StatusIsHonest
<1>8. Deduplicated' /\ KeyedNeverPlain'
  BY <1>1 DEF Inv, Deduplicated, KeyedNeverPlain, providerVars
<1>9. PlainAlone' /\ AcceptedIsMailed'
  BY <1>1, <1>4, <1>6 DEF Inv, PlainAlone, AcceptedIsMailed
<1>10. OwnerKnows'
  <2> SUFFICES ASSUME NEW x \in Runs, Holder(x)'
               PROVE  /\ run'[x].attempt = row'.attempt
                      /\ OwnerAtPrefs(x)' /\ OwnerAtBegin(x)' /\ OwnerAtSend(x)'
                      /\ OwnerAtFinish(x)'
    BY DEF OwnerKnows
  <2>1. Holder(x) /\ run'[x] = run[x] /\ row' = row
    BY <1>5
  <2>2. /\ run[x].attempt = row.attempt
        /\ OwnerAtPrefs(x) /\ OwnerAtBegin(x) /\ OwnerAtSend(x) /\ OwnerAtFinish(x)
    BY <2>1 DEF Inv, OwnerKnows
  <2> QED
    BY <1>6, <2>1, <2>2
      DEF OwnerAtPrefs, OwnerAtBegin, OwnerAtSend, OwnerAtFinish, Admits
<1>11. AttemptsPaid'
  <2>1. row.attempt \in Nat /\ faults \in Nat /\ faults' \in Nat /\ MaxAttempts \in Nat
    BY <1>3, NotificationsAssumption DEF Inv, TypeOK
  <2>2. CASE Fault
    BY <2>1, <2>2 DEF Inv, AttemptsPaid, Fault
  <2>3. CASE faults' = faults /\ ~(Holder(r) /\ ~row.lapsed)
    <3>1. row.status = "queued" /\ Abandoned' => Abandoned
      BY <1>1, <2>3 DEF Abandoned, Holder, Holds, Inv, TypeOK
    <3> QED
      BY <2>1, <2>3, <3>1 DEF Inv, AttemptsPaid
  <2> QED
    BY <2>2, <2>3
<1> QED
  BY <1>3, <1>7, <1>8, <1>9, <1>10, <1>11 DEF Inv

\* A run reaches its verdict, having mailed or not.
LEMMA FinishesKeepInv ==
  ASSUME Inv, NEW r \in Runs, NEW result \in Results, Holds(r), Finishes(r, result),
         UNCHANGED <<row, enqueueVars, faults>>,
         UNCHANGED providerVars \/ (run[r].step = "send" /\ Mailed(r)),
         result.status = "failed" \/ result.code = "rejected" => UNCHANGED providerVars,
         result.status = "accepted" => run[r].step = "send" /\ Mailed(r),
         Holder(r) =>
           /\ Admits(result)
           /\ result.status = "queued" => run[r].attempt < MaxAttempts
           /\ result.status = "failed" \/ result.code = "rejected" => Alone(r)
  PROVE  Inv'
<1>1. /\ run' \in [Runs -> RunRecords]
      /\ run'[r].step = "finish" /\ run'[r].result = result
      /\ run'[r].attempt = run[r].attempt
      /\ \A x \in Runs \ {r} : run'[x] = run[x]
  BY FinishesEffect DEF Inv
<1>2. run \in [Runs -> RunRecords] /\ TypeOK
  BY Types DEF Inv
<1>3. /\ plainMails' \in Nat /\ keyedMail' \in BOOLEAN
      /\ Mails' >= Mails /\ Mails \in Nat /\ Mails' \in Nat
      /\ Mailed(r) => Mails' >= 1
  <2>1. CASE UNCHANGED providerVars /\ ~Mailed(r)
    BY <1>2, <2>1, Counting DEF TypeOK, Mails, providerVars
  <2>2. CASE Mailed(r) /\ run[r].mode = "provider"
    <3>1. keyedMail' = TRUE /\ plainMails' = plainMails
      BY <2>2 DEF Mailed
    <3>2. plainMails \in Nat /\ keyedMail \in BOOLEAN
      BY <1>2 DEF TypeOK
    <3> QED
      BY <3>1, <3>2 DEF Mails
  <2>3. CASE Mailed(r) /\ run[r].mode # "provider"
    <3>1. plainMails' = plainMails + 1 /\ keyedMail' = keyedMail
      BY <2>3 DEF Mailed
    <3>2. plainMails \in Nat /\ keyedMail \in BOOLEAN
      BY <1>2 DEF TypeOK
    <3> QED
      BY <3>1, <3>2 DEF Mails
  <2> QED
    BY <2>1, <2>2, <2>3
<1>4. TypeOK'
  BY <1>1, <1>2, <1>3, Types DEF TypeOK, RunRecords, Attempts, enqueueVars
<1>5. /\ \A x \in Runs : Holds(x)' <=> Holds(x)
      /\ \A x \in Runs : Holder(x)' <=> Holder(x)
  BY <1>1 DEF Holds, Holder
<1>6. AcceptedIsMailed' /\ InAppNeverSends'
  BY <1>1, <1>3 DEF Inv, AcceptedIsMailed, InAppNeverSends
<1>7. AttemptsPaid'
  <2>1. Abandoned' => Abandoned
    BY <1>2, <1>5 DEF Abandoned, TypeOK
  <2> QED
    BY <2>1 DEF Inv, AttemptsPaid
<1>8. \A x \in Runs : run'[x].step = "send" => x # r /\ run[x].step = "send" /\ run'[x] = run[x]
  BY <1>1
<1>9. CASE UNCHANGED providerVars
  <2>1. Mails' = Mails
    BY <1>9 DEF Mails, providerVars
  <2>2. (Clean => Clean') /\ (\A x \in Runs : Alone(x) => Alone(x)') /\ (Alone(r) => Clean')
    BY <1>1, <2>1 DEF Clean, Alone
  <2>3. Undelivered' /\ AtMostOneMail' /\ StatusIsHonest'
    BY <2>1, <2>2 DEF Inv, Undelivered, AtMostOneMail, StatusIsHonest
  <2>4. Deduplicated' /\ KeyedNeverPlain' /\ PlainAlone'
    BY <1>1, <1>9, <2>2 DEF Inv, Deduplicated, KeyedNeverPlain, PlainAlone, providerVars
  <2>5. OwnerKnows'
    <3> SUFFICES ASSUME NEW x \in Runs, Holder(x)'
                 PROVE  /\ run'[x].attempt = row'.attempt
                        /\ OwnerAtPrefs(x)' /\ OwnerAtBegin(x)' /\ OwnerAtSend(x)'
                        /\ OwnerAtFinish(x)'
      BY DEF OwnerKnows
    <3>1. /\ Holder(x) /\ row' = row /\ run[x].attempt = row.attempt
          /\ OwnerAtPrefs(x) /\ OwnerAtBegin(x) /\ OwnerAtSend(x) /\ OwnerAtFinish(x)
      BY <1>5 DEF Inv, OwnerKnows
    <3>2. CASE x = r
      BY <1>1, <2>2, <3>1, <3>2
        DEF OwnerAtPrefs, OwnerAtBegin, OwnerAtSend, OwnerAtFinish, Admits
    <3>3. CASE x # r
      BY <1>1, <2>2, <3>1, <3>3
        DEF OwnerAtPrefs, OwnerAtBegin, OwnerAtSend, OwnerAtFinish, Admits
    <3> QED
      BY <3>2, <3>3
  <2> QED
    BY <1>4, <1>6, <1>7, <2>3, <2>4, <2>5 DEF Inv
<1>10. CASE run[r].step = "send" /\ Mailed(r) /\ ~UNCHANGED providerVars
  <2>1. ~Clean /\ \A x \in Runs \ {r} : ~Alone(x)
    BY <1>10 DEF Clean, Alone
  <2>2. run[r].mode \in {"none", "provider"}
    BY <1>2 DEF RunRecords, Modes
  <2>3. Undelivered'
    BY <2>1 DEF Inv, Undelivered
  <2>4. AtMostOneMail'
    <3>1. plainMails \in Nat
      BY <1>2 DEF TypeOK
    <3>2. CASE run[r].mode = "none"
      <4>1. plainMails = 0 /\ keyedMail = FALSE
        BY <1>2, <1>10, <3>2, Counting DEF Inv, PlainAlone, Alone, TypeOK
      <4>2. plainMails' = 1 /\ keyedMail' = FALSE
        BY <1>10, <3>2, <4>1 DEF Mailed
      <4> QED
        BY <4>2 DEF AtMostOneMail, Mails
    <3>3. CASE run[r].mode = "provider"
      <4>1. plainMails = 0
        BY <1>10, <3>3 DEF Inv, KeyedNeverPlain
      <4>2. plainMails' = 0 /\ keyedMail' = TRUE
        BY <1>10, <3>3, <4>1 DEF Mailed
      <4> QED
        BY <4>2 DEF AtMostOneMail, Mails
    <3> QED
      BY <2>2, <3>2, <3>3
  <2>5. StatusIsHonest'
    <3>1. row.status # "failed"
      BY <2>1 DEF Inv, Undelivered
    <3>2. Mails' = 1
      BY <1>3, <1>10, <2>4 DEF AtMostOneMail
    <3> QED
      BY <3>1, <3>2 DEF StatusIsHonest
  <2>6. PlainAlone'
    BY <1>8, <2>1 DEF Inv, PlainAlone
  <2>7. Deduplicated' /\ KeyedNeverPlain'
    <3>1. CASE run[r].mode = "none"
      <4>1. \A x \in Runs : run'[x].step # "send"
        BY <1>8, <1>10, <3>1 DEF Inv, PlainAlone, Alone
      <4>2. ~(row.status = "queued" /\ row.sending = "provider")
        BY <1>10, <3>1 DEF Inv, Deduplicated
      <4> QED
        BY <4>1, <4>2 DEF Deduplicated, KeyedNeverPlain
    <3>2. CASE run[r].mode = "provider"
      <4>1. plainMails' = plainMails
        BY <1>10, <3>2 DEF Mailed
      <4> QED
        BY <1>8, <4>1 DEF Inv, Deduplicated, KeyedNeverPlain
    <3> QED
      BY <2>2, <3>1, <3>2
  <2>8. OwnerKnows'
    <3> SUFFICES ASSUME NEW x \in Runs, Holder(x)'
                 PROVE  /\ run'[x].attempt = row'.attempt
                        /\ OwnerAtPrefs(x)' /\ OwnerAtBegin(x)' /\ OwnerAtSend(x)'
                        /\ OwnerAtFinish(x)'
      BY DEF OwnerKnows
    <3>1. /\ Holder(x) /\ row' = row /\ run[x].attempt = row.attempt
          /\ OwnerAtPrefs(x) /\ OwnerAtBegin(x) /\ OwnerAtSend(x) /\ OwnerAtFinish(x)
      BY <1>5 DEF Inv, OwnerKnows
    <3>2. CASE x = r
      <4>1. /\ Admits(result) /\ result.status = "queued" => run[r].attempt < MaxAttempts
        BY <3>1, <3>2
      <4>2. ~(result.status = "failed" \/ result.code = "rejected")
        BY <1>10
      <4> QED
        BY <1>1, <3>1, <3>2, <4>1, <4>2
          DEF OwnerAtPrefs, OwnerAtBegin, OwnerAtSend, OwnerAtFinish, Admits
    <3>3. CASE x # r
      BY <1>1, <2>1, <3>1, <3>3
        DEF OwnerAtPrefs, OwnerAtBegin, OwnerAtSend, OwnerAtFinish, Admits
    <3> QED
      BY <3>2, <3>3
  <2> QED
    BY <1>4, <1>6, <1>7, <2>3, <2>4, <2>5, <2>6, <2>7, <2>8 DEF Inv
<1> QED
  BY <1>9, <1>10

\* A verdict is recorded by the owner.
LEMMA RecordsKeepsInv ==
  ASSUME Inv, NEW r \in Runs, run[r].step = "finish", Records(r), Ends(r),
         UNCHANGED <<enqueueVars, providerVars>>, faults' = faults \/ Fault
  PROVE  Inv'
<1> DEFINE result == run[r].result
<1>1. /\ run' \in [Runs -> RunRecords] /\ run'[r].step = "idle"
      /\ \A x \in Runs \ {r} : run'[x] = run[x]
  BY EndsEffect DEF Inv
<1>2. /\ row \in RowRecords /\ run \in [Runs -> RunRecords] /\ TypeOK
      /\ faults \in Nat /\ MaxAttempts \in Nat /\ MaxFaults \in Nat
  BY NotificationsAssumption, Types DEF Inv
<1>3. result \in Results /\ result.status \in Statuses
  BY <1>2 DEF RunRecords, Results
<1> HIDE DEF result
<1>4. /\ row.status = "queued" /\ row.token = r /\ Admits(result)
      /\ row'.exists = row.exists /\ row'.channel = row.channel
      /\ row'.attempt = row.attempt
      /\ row'.status = result.status /\ row'.token = Nobody /\ row'.lapsed = TRUE
      /\ row'.sending = IF KeepsSending(result) THEN row.sending ELSE "null"
      /\ row' \in RowRecords
  BY <1>2, <1>3 DEF Records, RowRecords, Owns, result
<1>5. faults' \in 0..MaxFaults /\ faults' >= faults
  BY <1>2 DEF TypeOK, Fault
<1>6. TypeOK'
  BY <1>1, <1>2, <1>4, <1>5 DEF TypeOK, RowRecords, RunRecords, Attempts, enqueueVars, providerVars
<1>7. Holder(r) /\ run[r].attempt = row.attempt /\ OwnerAtFinish(r)
  BY <1>4 DEF Inv, OwnerKnows, Holder, Holds
<1>8. Mails' = Mails /\ (Clean => Clean') /\ \A x \in Runs : Alone(x) => Alone(x)'
  BY <1>1 DEF Mails, Clean, Alone, providerVars
<1>9. result.status = "failed" \/ result.code = "rejected" => Clean
  BY <1>7 DEF OwnerAtFinish, result
<1>10. Undelivered'
  <2>1. ASSUME result.status = "queued", ~KeepsSending(result) PROVE Clean
    <3>1. CASE row.sending = "null"
      BY <1>4, <3>1 DEF Inv, Undelivered
    <3>2. CASE row.sending # "null"
      BY <1>4, <1>9, <2>1, <3>2 DEF Admits, KeepsSending
    <3> QED
      BY <3>1, <3>2
  <2> QED
    BY <1>4, <1>8, <1>9, <2>1 DEF Undelivered, KeepsSending
<1>11. Deduplicated'
  <2>1. row'.sending = "provider" => row.sending = "provider"
    BY <1>4
  <2> QED
    BY <1>1, <1>4, <2>1 DEF Inv, Deduplicated, providerVars
<1>12. KeyedNeverPlain' /\ AcceptedIsMailed'
  BY <1>1, <1>8 DEF Inv, KeyedNeverPlain, AcceptedIsMailed, providerVars
<1>13. PlainAlone'
  BY <1>1, <1>4, <1>8 DEF Inv, PlainAlone
<1>14. OwnerKnows'
  BY <1>4, NotificationsAssumption DEF OwnerKnows, Holder
<1>15. InAppNeverSends'
  BY <1>4 DEF Inv, InAppNeverSends
<1>16. AttemptsPaid'
  <2>1. row.attempt <= MaxAttempts + faults /\ row.attempt \in Nat
    BY <1>2 DEF Inv, AttemptsPaid, RowRecords, Attempts
  <2>2. result.status = "queued" => row.attempt < MaxAttempts
    BY <1>7 DEF OwnerAtFinish, result
  <2> QED
    BY <1>2, <1>4, <1>5, <2>1, <2>2 DEF AttemptsPaid
<1>17. AtMostOneMail'
  BY <1>8 DEF Inv, AtMostOneMail
<1>18. StatusIsHonest'
  <2>1. result.status = "failed" => Mails = 0
    BY <1>9 DEF Clean
  <2>2. result.status = "accepted" => Mails = 1
    <3>1. result.status = "accepted" => Mails >= 1
      BY DEF Inv, AcceptedIsMailed, result
    <3>2. Mails \in Nat /\ Mails <= 1
      BY <1>2, Counting DEF Inv, AtMostOneMail
    <3> QED
      BY <3>1, <3>2
  <2>3. result.status = "delivered" => row.channel # "email"
    BY <1>4 DEF Admits
  <2> QED
    BY <1>4, <1>8, <2>1, <2>2, <2>3 DEF StatusIsHonest
<1> QED
  BY <1>6, <1>10, <1>11, <1>12, <1>13, <1>14, <1>15, <1>16, <1>17, <1>18 DEF Inv

\* A run claims the row, and learns of it or not.
LEMMA ClaimKeepsInv ==
  ASSUME Inv, NEW r \in Runs, run[r].step = "acquire", Claimable,
         row' = [row EXCEPT !.token = r, !.lapsed = FALSE, !.attempt = @ + 1],
         UNCHANGED <<enqueueVars, providerVars>>,
         \/ /\ faults' = faults
            /\ run' = [run EXCEPT ![r] = [IdleRun EXCEPT !.step = "prefs",
                         !.prior = row.sending, !.attempt = row.attempt + 1]]
         \/ Fault /\ Ends(r)
  PROVE  Inv'
<1>1. /\ row \in RowRecords /\ run \in [Runs -> RunRecords] /\ TypeOK
      /\ faults \in Nat /\ MaxAttempts \in Nat /\ MaxFaults \in Nat
  BY NotificationsAssumption, Types DEF Inv
<1>2. row.attempt \in Nat /\ row.attempt + 1 <= MaxAttempts + faults
  BY <1>1 DEF Inv, AttemptsPaid, Abandoned, Claimable, RowRecords, Attempts
<1>3. faults' \in 0..MaxFaults /\ faults' >= faults /\ faults <= MaxFaults
  BY <1>1 DEF TypeOK, Fault
<1>4. /\ row' \in RowRecords /\ row'.exists = row.exists /\ row'.channel = row.channel
      /\ row'.status = row.status /\ row'.sending = row.sending /\ row'.token = r
      /\ row'.lapsed = FALSE /\ row'.attempt = row.attempt + 1
  <2>1. row.attempt + 1 \in Attempts
    BY <1>1, <1>2, <1>3 DEF Attempts
  <2> QED
    BY <1>1, <2>1 DEF RowRecords
<1>5. row.status = "queued" /\ row.sending \in {"null", "provider"}
  BY DEF Claimable
<1>6. /\ run' \in [Runs -> RunRecords]
      /\ \A x \in Runs \ {r} : run'[x] = run[x]
      /\ \/ /\ faults' = faults /\ run'[r].step = "prefs"
            /\ run'[r].prior = row.sending /\ run'[r].attempt = row.attempt + 1
         \/ faults' = faults + 1 /\ run'[r].step = "idle"
  <2>1. CASE Fault /\ Ends(r)
    BY <1>1, <2>1, EndsEffect DEF Fault
  <2>2. CASE /\ faults' = faults
             /\ run' = [run EXCEPT ![r] = [IdleRun EXCEPT !.step = "prefs",
                          !.prior = row.sending, !.attempt = row.attempt + 1]]
    <3> DEFINE rec == [IdleRun EXCEPT !.step = "prefs", !.prior = row.sending,
                                      !.attempt = row.attempt + 1]
    <3>1. /\ rec \in RunRecords /\ rec.step = "prefs" /\ rec.prior = row.sending
          /\ rec.attempt = row.attempt + 1
      <4>1. row.attempt + 1 \in Attempts /\ "prefs" \in Steps
        BY <1>1, <1>2, <1>3 DEF Attempts, Steps
      <4> QED
        BY <1>5, <4>1, IdleType DEF RunRecords
    <3>2. run' = [run EXCEPT ![r] = rec]
      BY <2>2
    <3> HIDE DEF rec
    <3> QED
      BY <1>1, <2>2, <3>1, <3>2
  <2> QED
    BY <2>1, <2>2
<1>7. TypeOK'
  BY <1>1, <1>3, <1>4, <1>6
    DEF TypeOK, RowRecords, RunRecords, Attempts, enqueueVars, providerVars
<1>8. \A x \in Runs : run'[x].step \in {"send", "finish"} => x # r /\ run'[x] = run[x]
  BY <1>6
<1>9. Mails' = Mails /\ (Clean => Clean') /\ \A x \in Runs : Alone(x) => Alone(x)'
  BY <1>8 DEF Mails, Clean, Alone, providerVars
<1>10. Undelivered' /\ InAppNeverSends' /\ AtMostOneMail' /\ StatusIsHonest'
  BY <1>4, <1>9 DEF Inv, Undelivered, InAppNeverSends, AtMostOneMail, StatusIsHonest
<1>11. Deduplicated' /\ KeyedNeverPlain' /\ AcceptedIsMailed'
  BY <1>4, <1>8, <1>9
    DEF Inv, Deduplicated, KeyedNeverPlain, AcceptedIsMailed, providerVars
<1>12. PlainAlone'
  <2>1. \A x \in Runs : ~(run[x].step = "send" /\ run[x].mode = "none")
    BY <1>5 DEF Inv, PlainAlone
  <2> QED
    BY <1>8, <2>1 DEF PlainAlone
<1>13. OwnerKnows'
  <2> SUFFICES ASSUME NEW x \in Runs, Holder(x)'
               PROVE  /\ run'[x].attempt = row'.attempt
                      /\ OwnerAtPrefs(x)' /\ OwnerAtBegin(x)' /\ OwnerAtSend(x)'
                      /\ OwnerAtFinish(x)'
    BY DEF OwnerKnows
  <2>1. x = r /\ run'[r].step = "prefs"
    BY <1>4, <1>6 DEF Holder, Holds
  <2> QED
    BY <1>4, <1>6, <2>1 DEF OwnerAtPrefs, OwnerAtBegin, OwnerAtSend, OwnerAtFinish
<1>14. AttemptsPaid'
  <2>1. CASE faults' = faults /\ run'[r].step = "prefs"
    <3>1. ~Abandoned'
      BY <1>4, <2>1, NotificationsAssumption DEF Abandoned, Holds
    <3> QED
      BY <1>2, <1>4, <2>1, <3>1 DEF AttemptsPaid
  <2>2. CASE faults' = faults + 1
    BY <1>1, <1>2, <1>4, <2>2 DEF AttemptsPaid
  <2> QED
    BY <1>6, <2>1, <2>2
<1> QED
  BY <1>7, <1>10, <1>11, <1>12, <1>13, <1>14 DEF Inv

\* beginSend() takes effect, and its run learns of it or not.
LEMMA MarkKeepsInv ==
  ASSUME Inv, NEW r \in Runs, run[r].step = "begin", row.status = "queued", Owns(r),
         row.sending \in {"null", run[r].mode},
         row' = [row EXCEPT !.sending = run[r].mode],
         UNCHANGED <<enqueueVars, providerVars>>,
         \/ faults' = faults /\ run' = [run EXCEPT ![r].step = "send"]
         \/ Fault /\ Ends(r)
  PROVE  Inv'
<1>1. /\ row \in RowRecords /\ run \in [Runs -> RunRecords] /\ TypeOK
      /\ faults \in Nat /\ MaxAttempts \in Nat /\ MaxFaults \in Nat
  BY NotificationsAssumption, Types DEF Inv
<1>2. faults' \in 0..MaxFaults /\ faults' >= faults
  BY <1>1 DEF TypeOK, Fault
<1>3. run[r].mode \in Modes /\ run[r].prior \in {"null", "provider"}
  BY <1>1 DEF RunRecords
<1>4. /\ row' \in RowRecords /\ row'.exists = row.exists /\ row'.channel = row.channel
      /\ row'.status = row.status /\ row'.sending = run[r].mode /\ row'.token = row.token
      /\ row'.lapsed = row.lapsed /\ row'.attempt = row.attempt
  BY <1>1, <1>3 DEF RowRecords
<1>5. /\ run' \in [Runs -> RunRecords]
      /\ \A x \in Runs \ {r} : run'[x] = run[x]
      /\ \/ /\ faults' = faults /\ run'[r].step = "send"
            /\ run'[r].mode = run[r].mode /\ run'[r].prior = run[r].prior
            /\ run'[r].attempt = run[r].attempt
         \/ faults' = faults + 1 /\ run'[r].step = "idle"
  <2>1. CASE Fault /\ Ends(r)
    BY <1>1, <2>1, EndsEffect DEF Fault
  <2>2. CASE faults' = faults /\ run' = [run EXCEPT ![r].step = "send"]
    <3>1. "send" \in Steps
      BY DEF Steps
    <3> QED
      BY <1>1, <2>2, <3>1 DEF RunRecords
  <2> QED
    BY <2>1, <2>2
<1>6. TypeOK'
  BY <1>1, <1>2, <1>4, <1>5
    DEF TypeOK, RowRecords, RunRecords, Attempts, enqueueVars, providerVars
<1>7. /\ Holder(r) /\ row.token = r /\ run[r].attempt = row.attempt
      /\ row.channel = "email" /\ row.sending = run[r].prior
      /\ run[r].prior = "provider" => run[r].mode = "provider"
  <2>1. Holder(r) /\ row.token = r
    BY DEF Holder, Holds, Owns
  <2> QED
    BY <2>1 DEF Inv, OwnerKnows, OwnerAtBegin, OwnerAtSend
<1>8. row.sending = "null" => Clean
  BY DEF Inv, Undelivered
<1>9. Mails' = Mails
  BY DEF Mails, providerVars
<1>10. run[r].prior = "null" => Alone(r)'
  BY <1>5, <1>7, <1>8, <1>9 DEF Clean, Alone
<1>11. Undelivered' /\ InAppNeverSends'
  BY <1>3, <1>4, <1>7 DEF Undelivered, InAppNeverSends, Modes
<1>12. AtMostOneMail' /\ StatusIsHonest' /\ AcceptedIsMailed'
  BY <1>4, <1>5, <1>9 DEF Inv, AtMostOneMail, StatusIsHonest, AcceptedIsMailed
<1>13. Deduplicated' /\ KeyedNeverPlain'
  <2>1. CASE run[r].mode = "provider"
    <3>1. plainMails = 0 /\ \A x \in Runs : run[x].step = "send" => run[x].mode = "provider"
      <4>1. CASE run[r].prior = "null"
        BY <1>1, <1>7, <1>8, <4>1, Counting DEF Clean
      <4>2. CASE run[r].prior = "provider"
        BY <1>7, <4>2 DEF Inv, Deduplicated
      <4> QED
        BY <1>3, <4>1, <4>2
    <3> QED
      BY <1>5, <2>1, <3>1 DEF Deduplicated, KeyedNeverPlain, providerVars
  <2>2. CASE run[r].mode = "none"
    BY <1>4, <1>5, <2>2 DEF Inv, Deduplicated, KeyedNeverPlain, providerVars
  <2> QED
    BY <1>3, <2>1, <2>2 DEF Modes
<1>14. PlainAlone'
  <2> SUFFICES ASSUME NEW x \in Runs, run'[x].step = "send", run'[x].mode = "none"
               PROVE  Alone(x)' /\ row'.token = x /\ row'.sending = "none"
    BY DEF PlainAlone
  <2>1. x = r
    <3> SUFFICES ASSUME x # r PROVE FALSE
      OBVIOUS
    <3>1. run[x].step = "send" /\ run[x].mode = "none"
      BY <1>5
    <3> QED
      BY <1>7, <3>1 DEF Inv, PlainAlone
  <2>2. run[r].mode = "none" /\ run[r].prior = "null"
    BY <1>3, <1>5, <1>7, <2>1
  <2> QED
    BY <1>4, <1>7, <1>10, <2>1, <2>2
<1>15. OwnerKnows'
  <2> SUFFICES ASSUME NEW x \in Runs, Holder(x)'
               PROVE  /\ run'[x].attempt = row'.attempt
                      /\ OwnerAtPrefs(x)' /\ OwnerAtBegin(x)' /\ OwnerAtSend(x)'
                      /\ OwnerAtFinish(x)'
    BY DEF OwnerKnows
  <2>1. x = r /\ run'[r].step = "send"
    BY <1>4, <1>5, <1>7 DEF Holder, Holds
  <2>2. /\ run'[r].mode = run[r].mode /\ run'[r].prior = run[r].prior
        /\ run'[r].attempt = run[r].attempt
    BY <1>5, <2>1
  <2> QED
    BY <1>4, <1>7, <1>10, <2>1, <2>2
      DEF OwnerAtPrefs, OwnerAtBegin, OwnerAtSend, OwnerAtFinish
<1>16. AttemptsPaid'
  <2>1. row.attempt \in Nat
    BY <1>1 DEF RowRecords, Attempts
  <2>2. CASE faults' = faults /\ run'[r].step = "send"
    <3>1. Abandoned' => Abandoned
      BY <1>4, <1>7, <2>2 DEF Abandoned, Holds
    <3> QED
      BY <1>4, <2>2, <3>1 DEF Inv, AttemptsPaid
  <2>3. CASE faults' = faults + 1
    BY <1>1, <1>4, <2>1, <2>3 DEF Inv, AttemptsPaid
  <2> QED
    BY <1>5, <2>2, <2>3
<1> QED
  BY <1>6, <1>11, <1>12, <1>13, <1>14, <1>15, <1>16 DEF Inv

\* preferences() agrees and an email is about to be sent.
LEMMA BeginsKeepsInv ==
  ASSUME Inv, NEW r \in Runs, run[r].step = "prefs", row.channel = "email",
         NEW mode \in Modes, ~(run[r].prior = "provider" /\ mode = "none"),
         run' = [run EXCEPT ![r].step = "begin", ![r].mode = mode],
         UNCHANGED <<row, enqueueVars, faults, providerVars>>
  PROVE  Inv'
<1>1. run \in [Runs -> RunRecords] /\ TypeOK /\ "begin" \in Steps
  BY Types DEF Inv, Steps
<1>2. /\ run' \in [Runs -> RunRecords]
      /\ \A x \in Runs \ {r} : run'[x] = run[x]
      /\ run'[r].step = "begin" /\ run'[r].mode = mode
      /\ run'[r].prior = run[r].prior /\ run'[r].attempt = run[r].attempt
  BY <1>1 DEF RunRecords
<1>3. TypeOK'
  BY <1>1, <1>2 DEF TypeOK, RunRecords, Attempts, enqueueVars, providerVars
<1>4. \A x \in Runs : run'[x].step \in {"send", "finish"} => x # r /\ run'[x] = run[x]
  BY <1>2
<1>5. \A x \in Runs : (Holds(x)' <=> Holds(x)) /\ (Holder(x)' <=> Holder(x))
  BY <1>2 DEF Holds, Holder
<1>6. Mails' = Mails /\ (Clean => Clean') /\ \A x \in Runs : Alone(x) => Alone(x)'
  BY <1>4 DEF Mails, Clean, Alone, providerVars
<1>7. Undelivered' /\ InAppNeverSends' /\ AtMostOneMail' /\ StatusIsHonest'
  BY <1>6 DEF Inv, Undelivered, InAppNeverSends, AtMostOneMail, StatusIsHonest
<1>8. Deduplicated' /\ KeyedNeverPlain' /\ AcceptedIsMailed' /\ PlainAlone'
  BY <1>4, <1>6 DEF Inv, Deduplicated, KeyedNeverPlain, AcceptedIsMailed, PlainAlone,
                    providerVars
<1>9. OwnerKnows'
  <2> SUFFICES ASSUME NEW x \in Runs, Holder(x)'
               PROVE  /\ run'[x].attempt = row'.attempt
                      /\ OwnerAtPrefs(x)' /\ OwnerAtBegin(x)' /\ OwnerAtSend(x)'
                      /\ OwnerAtFinish(x)'
    BY DEF OwnerKnows
  <2>1. /\ Holder(x) /\ row' = row /\ run[x].attempt = row.attempt
        /\ OwnerAtPrefs(x) /\ OwnerAtBegin(x) /\ OwnerAtSend(x) /\ OwnerAtFinish(x)
    BY <1>5 DEF Inv, OwnerKnows
  <2>2. CASE x = r
    <3>1. run[r].prior = "provider" => mode = "provider"
      BY DEF Modes
    <3> QED
      BY <1>2, <2>1, <2>2, <3>1 DEF OwnerAtPrefs, OwnerAtBegin, OwnerAtSend, OwnerAtFinish
  <2>3. CASE x # r
    BY <1>2, <1>6, <2>1, <2>3
      DEF OwnerAtPrefs, OwnerAtBegin, OwnerAtSend, OwnerAtFinish, Admits
  <2> QED
    BY <2>2, <2>3
<1>10. AttemptsPaid'
  <2>1. Abandoned' => Abandoned
    BY <1>1, <1>5 DEF Abandoned, TypeOK
  <2> QED
    BY <2>1 DEF Inv, AttemptsPaid
<1> QED
  BY <1>3, <1>7, <1>8, <1>9, <1>10 DEF Inv

\* Statements that leave the runs alone and settle the row or keep its status.
LEMMA RowKeepsInv ==
  ASSUME Inv, UNCHANGED <<run, providerVars>>, caller' \in [Callers -> {"new", "inserted", "returned", "failed"}],
         dispatched' \in BOOLEAN, faults' \in 0..MaxFaults, faults' >= faults,
         row' \in RowRecords, row'.channel = row.channel, row'.attempt = row.attempt,
         \/ /\ row'.status = row.status /\ row'.sending = row.sending /\ row'.token = row.token
            /\ row'.lapsed # row.lapsed => faults' > faults \/ ~Holds(row.token)
         \/ row'.status = "unknown" /\ row'.sending = "null"
         \/ /\ row.status = "accepted" /\ row'.status = "delivered"
            /\ row'.sending = row.sending
  PROVE  Inv'
<1>1. /\ row \in RowRecords /\ run \in [Runs -> RunRecords] /\ TypeOK
      /\ faults \in Nat /\ faults' \in Nat /\ MaxAttempts \in Nat /\ MaxFaults \in Nat
      /\ row.attempt \in Nat
  BY NotificationsAssumption, Types DEF Inv, RowRecords, Attempts
<1>2. TypeOK'
  BY <1>1 DEF TypeOK, RowRecords, RunRecords, Attempts, providerVars
<1>3. Mails' = Mails /\ (Clean <=> Clean') /\ \A x \in Runs : Alone(x) <=> Alone(x)'
  BY DEF Mails, Clean, Alone, providerVars
<1>4. \A x \in Runs : Holds(x)' <=> Holds(x)
  BY DEF Holds
<1>5. row'.status = "queued" =>
        row.status = "queued" /\ row'.sending = row.sending /\ row'.token = row.token
  OBVIOUS
<1>6. row'.status = "failed" => row.status = "failed"
  OBVIOUS
<1>7. Undelivered' /\ Deduplicated' /\ KeyedNeverPlain' /\ AcceptedIsMailed' /\ PlainAlone'
  BY <1>3, <1>5, <1>6 DEF Inv, Undelivered, Deduplicated, KeyedNeverPlain,
                         AcceptedIsMailed, PlainAlone, providerVars
<1>8. InAppNeverSends'
  BY DEF Inv, InAppNeverSends
<1>9. OwnerKnows'
  <2> SUFFICES ASSUME NEW x \in Runs, Holder(x)'
               PROVE  /\ run'[x].attempt = row'.attempt
                      /\ OwnerAtPrefs(x)' /\ OwnerAtBegin(x)' /\ OwnerAtSend(x)'
                      /\ OwnerAtFinish(x)'
    BY DEF OwnerKnows
  <2>1. Holder(x) /\ row'.sending = row.sending
    BY <1>4, <1>5 DEF Holder
  <2>2. /\ run[x].attempt = row.attempt
        /\ OwnerAtPrefs(x) /\ OwnerAtBegin(x) /\ OwnerAtSend(x) /\ OwnerAtFinish(x)
    BY <2>1 DEF Inv, OwnerKnows
  <2> QED
    BY <1>3, <2>1, <2>2
      DEF OwnerAtPrefs, OwnerAtBegin, OwnerAtSend, OwnerAtFinish, Admits
<1>10. AttemptsPaid'
  <2> SUFFICES ASSUME row'.status = "queued", Abandoned'
               PROVE  row.attempt + 1 <= MaxAttempts + faults'
    BY <1>1 DEF Inv, AttemptsPaid
  <2>1. CASE faults' > faults
    BY <1>1, <2>1 DEF Inv, AttemptsPaid
  <2>2. CASE ~(faults' > faults)
    <3>1. Abandoned
      BY <1>4, <2>2 DEF Abandoned, Holds
    <3> QED
      BY <1>1, <1>5, <3>1 DEF Inv, AttemptsPaid
  <2> QED
    BY <2>1, <2>2
<1>11. AtMostOneMail' /\ StatusIsHonest'
  BY <1>3 DEF Inv, AtMostOneMail, StatusIsHonest
<1> QED
  BY <1>2, <1>7, <1>8, <1>9, <1>10, <1>11 DEF Inv

-----------------------------------------------------------------------------
(* Every action keeps the invariant *)

LEMMA ResultType ==
  ASSUME NEW status \in Statuses, NEW code \in Codes
  PROVE  /\ Result(status, code) \in Results
         /\ Result(status, code).status = status /\ Result(status, code).code = code
  BY DEF Result, Results

LEMMA RetryOrType ==
  ASSUME NEW r \in Runs, NEW status \in Statuses
  PROVE  /\ RetryOr(r, status) \in Statuses
         /\ RetryOr(r, status) \in {"queued", status}
         /\ RetryOr(r, status) = "queued" /\ status # "queued" => run[r].attempt < MaxAttempts
  BY DEF RetryOr, Statuses

LEMMA EnqueueKeepsInv ==
  ASSUME Inv, NEW e \in Callers, Insert(e) \/ Dispatch(e)
  PROVE  Inv'
<1>1. TypeOK /\ row \in RowRecords /\ faults \in 0..MaxFaults /\ faults \in Nat
  BY Types DEF Inv, TypeOK
<1>2. CASE Insert(e)
  <2>1. /\ row' \in RowRecords /\ row'.channel = row.channel /\ row'.attempt = row.attempt
        /\ row'.status = row.status /\ row'.sending = row.sending /\ row'.token = row.token
        /\ row'.lapsed = row.lapsed
    BY <1>1, <1>2 DEF Insert, RowRecords
  <2>2. caller' \in [Callers -> {"new", "inserted", "returned", "failed"}]
    BY <1>1, <1>2 DEF Insert, TypeOK
  <2>3. UNCHANGED <<run, providerVars, dispatched, faults>>
    BY <1>2 DEF Insert
  <2> QED
    BY <1>1, <2>1, <2>2, <2>3, RowKeepsInv DEF TypeOK
<1>3. CASE Dispatch(e)
  <2>1. caller' \in [Callers -> {"new", "inserted", "returned", "failed"}] /\ dispatched' \in BOOLEAN
    BY <1>1, <1>3 DEF Dispatch, TypeOK
  <2>2. UNCHANGED <<run, row, providerVars, faults>>
    BY <1>3 DEF Dispatch
  <2> QED
    BY <1>1, <2>1, <2>2, RowKeepsInv
<1> QED
  BY <1>2, <1>3

LEMMA StartKeepsInv ==
  ASSUME Inv, NEW r \in Runs, Start(r)
  PROVE  Inv'
<1>1. TypeOK /\ row \in RowRecords /\ faults \in 0..MaxFaults /\ faults \in Nat
      /\ run \in [Runs -> RunRecords] /\ "acquire" \in Steps
  BY Types DEF Inv, TypeOK, Steps
<1>2. CASE row.sending = "none" /\ row.lapsed
  <2>1. /\ row' \in RowRecords /\ row'.channel = row.channel /\ row'.attempt = row.attempt
        /\ row'.status = "unknown" /\ row'.sending = "null"
    BY <1>1, <1>2 DEF Start, RowRecords, Statuses, Terminal
  <2>2. UNCHANGED <<run, enqueueVars, providerVars, faults>>
    BY <1>2 DEF Start
  <2> QED
    BY <1>1, <2>1, <2>2, RowKeepsInv DEF TypeOK, enqueueVars
<1>3. CASE ~(row.sending = "none" /\ row.lapsed)
  <2>1. run' = [run EXCEPT ![r].step = "acquire"] /\ run[r].step = "idle"
        /\ UNCHANGED <<row, enqueueVars, providerVars, faults>>
    BY <1>3 DEF Start
  <2>2. /\ run' \in [Runs -> RunRecords] /\ run'[r].step = "acquire"
        /\ \A x \in Runs \ {r} : run'[x] = run[x]
    BY <1>1, <2>1 DEF RunRecords
  <2>3. TypeOK'
    BY <1>1, <2>1, <2>2 DEF TypeOK, RunRecords, Attempts, enqueueVars, providerVars
  <2>4. \A x \in Runs : Holds(x)' <=> Holds(x)
    BY <2>1, <2>2 DEF Holds
  <2>5. \A x \in Runs : Holds(x) => run'[x] = run[x]
    BY <2>1, <2>2 DEF Holds
  <2>6. \A x \in Runs : run'[x].step \in {"send", "finish"} => run'[x] = run[x]
    BY <2>1, <2>2
  <2>7. Mails' = Mails /\ (Clean => Clean') /\ \A x \in Runs : Alone(x) => Alone(x)'
    BY <2>1, <2>6 DEF Mails, Clean, Alone, providerVars
  <2>8. Undelivered' /\ InAppNeverSends' /\ AtMostOneMail' /\ StatusIsHonest'
    BY <2>1, <2>7 DEF Inv, Undelivered, InAppNeverSends, AtMostOneMail, StatusIsHonest
  <2>9. Deduplicated' /\ KeyedNeverPlain' /\ AcceptedIsMailed' /\ PlainAlone'
    BY <2>1, <2>6, <2>7
      DEF Inv, Deduplicated, KeyedNeverPlain, AcceptedIsMailed, PlainAlone, providerVars
  <2>10. OwnerKnows'
    <3> SUFFICES ASSUME NEW x \in Runs, Holder(x)'
                 PROVE  /\ run'[x].attempt = row'.attempt
                        /\ OwnerAtPrefs(x)' /\ OwnerAtBegin(x)' /\ OwnerAtSend(x)'
                        /\ OwnerAtFinish(x)'
      BY DEF OwnerKnows
    <3>1. Holder(x) /\ run'[x] = run[x] /\ row' = row
      BY <2>1, <2>4, <2>5 DEF Holder
    <3>2. /\ run[x].attempt = row.attempt
          /\ OwnerAtPrefs(x) /\ OwnerAtBegin(x) /\ OwnerAtSend(x) /\ OwnerAtFinish(x)
      BY <3>1 DEF Inv, OwnerKnows
    <3> QED
      BY <2>7, <3>1, <3>2
        DEF OwnerAtPrefs, OwnerAtBegin, OwnerAtSend, OwnerAtFinish, Admits
  <2>11. AttemptsPaid'
    <3>1. Abandoned' => Abandoned
      BY <1>1, <2>1, <2>4 DEF Abandoned, TypeOK
    <3> QED
      BY <2>1, <3>1 DEF Inv, AttemptsPaid
  <2> QED
    BY <2>3, <2>8, <2>9, <2>10, <2>11 DEF Inv
<1> QED
  BY <1>2, <1>3

LEMMA AcquireKeepsInv ==
  ASSUME Inv, NEW r \in Runs, Acquire(r)
  PROVE  Inv'
<1>1. CASE Claimable
  BY <1>1, ClaimKeepsInv DEF Acquire
<1>2. CASE ~Claimable
  <2>1. ~Holder(r)
    BY DEF Acquire, Holder, Holds
  <2> QED
    BY <1>2, <2>1, EndKeepsInv DEF Acquire
<1> QED
  BY <1>1, <1>2

\* The decisions before a send.
LEMMA DecideKeepsInv ==
  ASSUME Inv, NEW r \in Runs, PreferencesFail(r) \/ Disabled(r) \/ Enabled(r)
  PROVE  Inv'
<1>1. run[r].step = "prefs" /\ Holds(r) /\ UNCHANGED <<row, enqueueVars, faults, providerVars>>
  BY DEF PreferencesFail, Disabled, Enabled, Holds
<1>2. run[r].prior \in {"null", "provider"} /\ row.channel \in Channels
  BY DEF Inv, TypeOK
<1>3. Holder(r) => row.status = "queued" /\ row.sending = run[r].prior
  BY <1>1 DEF Inv, OwnerKnows, OwnerAtPrefs, Holder
<1>4. Holder(r) /\ run[r].prior = "null" => Alone(r)
  BY <1>3 DEF Inv, Undelivered, Clean, Alone
<1>5. {"unknown", "failed", "queued", "delivered"} \subseteq Statuses
      /\ {"unknown", "other", "none"} \subseteq Codes
  BY DEF Statuses, Terminal, Codes
<1>6. CASE PreferencesFail(r)
  <2>1. CASE run[r].prior # "null"
    <3> DEFINE result == Result(RetryOr(r, "unknown"), "unknown")
    <3>1. /\ result \in Results /\ result.code = "unknown"
          /\ result.status \in {"queued", "unknown"}
          /\ result.status = "queued" => run[r].attempt < MaxAttempts
      BY <1>5, ResultType, RetryOrType
    <3>2. Finishes(r, result)
      BY <1>6, <2>1 DEF PreferencesFail
    <3> HIDE DEF result
    <3>3. Holder(r) => Admits(result)
      BY <1>2, <1>3, <2>1, <3>1 DEF Admits
    <3> QED
      BY <1>1, <3>1, <3>2, <3>3, FinishesKeepInv
  <2>2. CASE run[r].prior = "null"
    <3> DEFINE result == Result(RetryOr(r, "failed"), "other")
    <3>1. /\ result \in Results /\ result.code = "other"
          /\ result.status \in {"queued", "failed"}
          /\ result.status = "queued" => run[r].attempt < MaxAttempts
      BY <1>5, ResultType, RetryOrType
    <3>2. Finishes(r, result)
      BY <1>6, <2>2 DEF PreferencesFail
    <3> HIDE DEF result
    <3>3. Holder(r) => Admits(result)
      BY <1>3, <2>2, <3>1 DEF Admits
    <3> QED
      BY <1>1, <1>4, <2>2, <3>1, <3>2, <3>3, FinishesKeepInv
  <2> QED
    BY <2>1, <2>2
<1>7. CASE Disabled(r)
  <2>1. Finishes(r, Unavailable(r))
    BY <1>7 DEF Disabled
  <2>2. CASE run[r].prior # "null"
    <3> DEFINE result == Result("unknown", "unknown")
    <3>1. result \in Results /\ result.code = "unknown" /\ result.status = "unknown"
      BY <1>5, ResultType
    <3>2. Finishes(r, result)
      BY <2>1, <2>2 DEF Unavailable
    <3> HIDE DEF result
    <3> QED
      BY <1>1, <3>1, <3>2, FinishesKeepInv DEF Admits
  <2>3. CASE run[r].prior = "null"
    <3> DEFINE result == Result("failed", "other")
    <3>1. result \in Results /\ result.code = "other" /\ result.status = "failed"
      BY <1>5, ResultType
    <3>2. Finishes(r, result)
      BY <2>1, <2>3 DEF Unavailable
    <3> HIDE DEF result
    <3> QED
      BY <1>1, <1>4, <2>3, <3>1, <3>2, FinishesKeepInv DEF Admits
  <2> QED
    BY <2>2, <2>3
<1>8. CASE Enabled(r)
  <2>1. CASE row.channel = "in-app" /\ Finishes(r, Result("delivered", "none"))
    <3> DEFINE result == Result("delivered", "none")
    <3>1. result \in Results /\ result.code = "none" /\ result.status = "delivered"
      BY <1>5, ResultType
    <3>2. Finishes(r, result) /\ row.sending = "null"
      BY <2>1 DEF Inv, InAppNeverSends
    <3> HIDE DEF result
    <3>3. Admits(result)
      BY <2>1, <3>1, <3>2 DEF Admits
    <3> QED
      BY <1>1, <3>1, <3>2, <3>3, FinishesKeepInv
  <2>2. ASSUME row.channel = "email", NEW mode \in Modes,
               run[r].prior = "provider", mode = "none",
               Finishes(r, Result("unknown", "unknown"))
        PROVE  Inv'
    <3> DEFINE result == Result("unknown", "unknown")
    <3>1. result \in Results /\ result.code = "unknown" /\ result.status = "unknown"
      BY <1>5, ResultType
    <3>2. Finishes(r, result)
      BY <2>2
    <3> HIDE DEF result
    <3> QED
      BY <1>1, <3>1, <3>2, FinishesKeepInv DEF Admits
  <2>3. ASSUME row.channel = "email", NEW mode \in Modes,
               ~(run[r].prior = "provider" /\ mode = "none"),
               run' = [run EXCEPT ![r].step = "begin", ![r].mode = mode]
        PROVE  Inv'
    BY <1>1, <2>3, BeginsKeepsInv
  <2> QED
    BY <1>8, <2>1, <2>2, <2>3 DEF Enabled
<1> QED
  BY <1>6, <1>7, <1>8

LEMMA BeginSendKeepsInv ==
  ASSUME Inv, NEW r \in Runs, BeginSend(r)
  PROVE  Inv'
<1>1. run[r].step = "begin" /\ UNCHANGED <<enqueueVars, faults, providerVars>>
  BY DEF BeginSend
<1>2. CASE /\ row.status = "queued" /\ Owns(r)
           /\ row.sending \in {"null", run[r].mode}
           /\ row' = [row EXCEPT !.sending = run[r].mode]
           /\ run' = [run EXCEPT ![r].step = "send"]
  BY <1>1, <1>2, MarkKeepsInv
<1>3. CASE /\ row.status # "queued" \/ ~Owns(r) \/ row.lapsed
              \/ row.sending \notin {"null", run[r].mode}
           /\ Ends(r) /\ UNCHANGED row
  <2>1. ~(Holder(r) /\ ~row.lapsed)
    <3> SUFFICES ASSUME Holder(r), ~row.lapsed PROVE FALSE
      OBVIOUS
    <3>1. row.sending = run[r].prior /\ (run[r].prior = "provider" => run[r].mode = "provider")
      BY <1>1 DEF Inv, OwnerKnows, OwnerAtSend, OwnerAtBegin
    <3>2. run[r].prior \in {"null", "provider"}
      BY DEF Inv, TypeOK
    <3> QED
      BY <1>3, <3>1, <3>2 DEF Holder, Owns
  <2> QED
    BY <1>1, <1>3, <2>1, EndKeepsInv
<1> QED
  BY <1>2, <1>3 DEF BeginSend

\* The answers of the provider.
LEMMA SendKeepsInv ==
  ASSUME Inv, NEW r \in Runs, Accepted(r) \/ Ambiguous(r) \/ Rejected(r)
  PROVE  Inv'
<1>1. run[r].step = "send" /\ Holds(r) /\ UNCHANGED <<row, enqueueVars, faults>>
  BY DEF Accepted, Ambiguous, Rejected, Holds
<1>2. run[r].prior \in {"null", "provider"} /\ run[r].mode \in Modes
  BY DEF Inv, TypeOK
<1>3. Holder(r) => /\ row.sending = run[r].mode /\ row.channel = "email"
                   /\ run[r].prior = "provider" => run[r].mode = "provider"
                   /\ run[r].prior = "null" => Alone(r)
  BY <1>1 DEF Inv, OwnerKnows, OwnerAtSend, OwnerAtBegin
<1>4. {"unknown", "failed", "queued", "accepted"} \subseteq Statuses
      /\ {"unknown", "rejected", "none"} \subseteq Codes
  BY DEF Statuses, Terminal, Codes
<1>5. CASE Accepted(r)
  <2> DEFINE result == Result("accepted", "none")
  <2>1. result \in Results /\ result.code = "none" /\ result.status = "accepted"
    BY <1>4, ResultType
  <2>2. Finishes(r, result) /\ Mailed(r)
    BY <1>5 DEF Accepted
  <2> HIDE DEF result
  <2>3. Holder(r) => Admits(result)
    BY <1>2, <1>3, <2>1 DEF Admits, Modes
  <2> QED
    BY <1>1, <2>1, <2>2, <2>3, FinishesKeepInv
<1>6. CASE Ambiguous(r)
  <2> DEFINE status == IF run[r].mode = "provider" THEN RetryOr(r, "unknown") ELSE "unknown"
             result == Result(status, "unknown")
  <2>1. /\ status \in {"queued", "unknown"}
        /\ status = "queued" => run[r].mode = "provider" /\ run[r].attempt < MaxAttempts
    BY <1>4, RetryOrType
  <2>2. Finishes(r, result) /\ (Mailed(r) \/ UNCHANGED providerVars)
    BY <1>6 DEF Ambiguous
  <2> HIDE DEF status
  <2>3. result \in Results /\ result.code = "unknown" /\ result.status = status
    BY <1>4, <2>1, ResultType
  <2> HIDE DEF result
  <2>4. Holder(r) => Admits(result)
    BY <1>3, <2>1, <2>3 DEF Admits
  <2> QED
    BY <1>1, <2>1, <2>2, <2>3, <2>4, FinishesKeepInv
<1>7. CASE Rejected(r)
  <2> DEFINE final == IF Uncertain(r) THEN "unknown" ELSE "failed"
             code == IF Uncertain(r) THEN "unknown" ELSE "rejected"
  <2>1. final \in {"unknown", "failed"} /\ code \in {"unknown", "rejected"}
    OBVIOUS
  <2>2. PICK retryable \in BOOLEAN :
          Finishes(r, Result(IF retryable THEN RetryOr(r, final) ELSE final, code))
    BY <1>7 DEF Rejected
  <2>3. UNCHANGED providerVars
    BY <1>7 DEF Rejected
  <2> DEFINE status == IF retryable THEN RetryOr(r, final) ELSE final
             result == Result(status, code)
  <2>4. /\ status \in {"queued", final}
        /\ status = "queued" => run[r].attempt < MaxAttempts
    BY <1>4, <2>1, RetryOrType
  <2>5. /\ Uncertain(r) => final = "unknown" /\ code = "unknown"
        /\ ~Uncertain(r) => final = "failed" /\ code = "rejected"
    OBVIOUS
  <2>6. Finishes(r, result)
    BY <2>2
  <2> HIDE DEF final, code, status
  <2>7. result \in Results /\ result.code = code /\ result.status = status
    BY <1>4, <2>1, <2>4, ResultType
  <2> HIDE DEF result
  <2>8. Holder(r) => Admits(result)
    BY <1>2, <1>3, <2>1, <2>4, <2>5, <2>7 DEF Admits, Uncertain
  <2>9. Holder(r) /\ (result.status = "failed" \/ result.code = "rejected") => Alone(r)
    BY <1>2, <1>3, <2>1, <2>4, <2>5, <2>7 DEF Uncertain
  <2>10. result.status # "accepted" /\ (result.status = "queued" => run[r].attempt < MaxAttempts)
    BY <2>1, <2>4, <2>7
  <2> QED
    BY <1>1, <2>3, <2>6, <2>7, <2>8, <2>9, <2>10, FinishesKeepInv
<1> QED
  BY <1>5, <1>6, <1>7

LEMMA FinishKeepsInv ==
  ASSUME Inv, NEW r \in Runs, Finish(r)
  PROVE  Inv'
<1>1. run[r].step = "finish" /\ Ends(r) /\ UNCHANGED <<enqueueVars, faults, providerVars>>
  BY DEF Finish
<1>2. CASE Records(r)
  BY <1>1, <1>2, RecordsKeepsInv
<1>3. CASE /\ row.status # "queued" \/ ~Owns(r) \/ row.lapsed \/ ~Admits(run[r].result)
           /\ UNCHANGED row
  <2>1. ~(Holder(r) /\ ~row.lapsed)
    BY <1>1, <1>3 DEF Inv, OwnerKnows, OwnerAtFinish, Holder, Owns
  <2> QED
    BY <1>1, <1>3, <2>1, EndKeepsInv
<1> QED
  BY <1>2, <1>3 DEF Finish

LEMMA FaultKeepsInv ==
  ASSUME Inv, NEW r \in Runs, Crash(r) \/ ReplyLost(r)
  PROVE  Inv'
<1>1. CASE Crash(r)
  BY <1>1, EndKeepsInv DEF Crash
<1>2. CASE ReplyLost(r)
  <2>1. Fault /\ Ends(r) /\ UNCHANGED <<enqueueVars, providerVars>>
    BY <1>2 DEF ReplyLost
  <2>2. CASE /\ run[r].step = "acquire" /\ Claimable
             /\ row' = [row EXCEPT !.token = r, !.lapsed = FALSE, !.attempt = @ + 1]
    BY <2>1, <2>2, ClaimKeepsInv
  <2>3. CASE /\ run[r].step = "begin" /\ row.status = "queued" /\ Owns(r)
             /\ row.sending \in {"null", run[r].mode}
             /\ row' = [row EXCEPT !.sending = run[r].mode]
    BY <2>1, <2>3, MarkKeepsInv
  <2>4. CASE run[r].step = "finish" /\ Records(r)
    BY <2>1, <2>4, RecordsKeepsInv
  <2> QED
    BY <1>2, <2>2, <2>3, <2>4 DEF ReplyLost
<1> QED
  BY <1>1, <1>2

LEMMA ReceiptKeepsInv ==
  ASSUME Inv, Receipt
  PROVE  Inv'
<1>1. /\ TypeOK /\ row \in RowRecords /\ faults \in 0..MaxFaults /\ faults \in Nat
  BY Types DEF Inv, TypeOK
<1>2. /\ row' \in RowRecords /\ row'.channel = row.channel /\ row'.attempt = row.attempt
      /\ row.status = "accepted" /\ row'.status = "delivered" /\ row'.sending = row.sending
  BY <1>1 DEF Receipt, RowRecords, Statuses, Terminal
<1>3. UNCHANGED <<run, enqueueVars, providerVars, faults>>
  BY DEF Receipt
<1> QED
  BY <1>1, <1>2, <1>3, RowKeepsInv DEF TypeOK, enqueueVars

LEMMA LapseKeepsInv ==
  ASSUME Inv, Lapse
  PROVE  Inv'
<1>1. /\ TypeOK /\ row \in RowRecords /\ faults \in 0..MaxFaults /\ faults \in Nat
      /\ MaxFaults \in Nat
  BY NotificationsAssumption, Types DEF Inv, TypeOK
<1>2. /\ row' \in RowRecords /\ row'.channel = row.channel /\ row'.attempt = row.attempt
      /\ row'.status = row.status /\ row'.sending = row.sending /\ row'.token = row.token
  BY <1>1 DEF Lapse, RowRecords
<1>3. /\ faults' \in 0..MaxFaults /\ faults' >= faults
      /\ faults' > faults \/ ~Holds(row.token)
  <2>1. CASE run[row.token].step \in {"idle", "acquire"}
    <3>1. faults' = faults
      BY <2>1 DEF Lapse
    <3> QED
      BY <1>1, <2>1, <3>1 DEF Holds
  <2>2. CASE ~(run[row.token].step \in {"idle", "acquire"})
    <3>1. Fault
      BY <2>2 DEF Lapse
    <3> QED
      BY <1>1, <3>1 DEF Fault
  <2> QED
    BY <2>1, <2>2
<1>4. UNCHANGED <<run, enqueueVars, providerVars>>
  BY DEF Lapse
<1> QED
  BY <1>1, <1>2, <1>3, <1>4, RowKeepsInv DEF TypeOK, enqueueVars

-----------------------------------------------------------------------------
(* Theorems *)

LEMMA InvStep ==
  ASSUME Inv, [Next]_vars
  PROVE  Inv'
<1>1. CASE UNCHANGED vars
  <2>1. UNCHANGED <<row, run, faults, caller, dispatched, providerVars>>
    BY <1>1 DEF vars, providerVars
  <2>2. row \in RowRecords /\ faults \in 0..MaxFaults /\ faults \in Nat
    BY Types DEF Inv, TypeOK
  <2> QED
    BY <2>1, <2>2, RowKeepsInv DEF Inv, TypeOK
<1>2. ASSUME NEW e \in Callers, Insert(e) \/ Dispatch(e) PROVE Inv'
  BY <1>2, EnqueueKeepsInv
<1>3. ASSUME NEW r \in Runs, Start(r) \/ Works(r) \/ Crash(r) \/ ReplyLost(r) PROVE Inv'
  BY <1>3, StartKeepsInv, AcquireKeepsInv, DecideKeepsInv, BeginSendKeepsInv, SendKeepsInv,
     FinishKeepsInv, FaultKeepsInv DEF Works
<1> QED
  BY <1>1, <1>2, <1>3, ReceiptKeepsInv, LapseKeepsInv DEF Next

\* The inductive invariant of enqueue(), deliver() and the D1 ledger.
THEOREM Invariance == Spec => []Inv
<1>1. Init => Inv
  <2> SUFFICES ASSUME Init PROVE Inv
    OBVIOUS
  <2>1. PICK channel \in Channels :
          row = [exists |-> FALSE, channel |-> channel, status |-> "queued", attempt |-> 0,
                 token |-> Nobody, lapsed |-> TRUE, sending |-> "null"]
    BY DEF Init
  <2>2. /\ caller = [e \in Callers |-> "new"] /\ dispatched = FALSE
        /\ run = [r \in Runs |-> IdleRun]
        /\ faults = 0 /\ plainMails = 0 /\ keyedMail = FALSE
    BY DEF Init
  <2>3. MaxAttempts \in Nat \ {0} /\ MaxFaults \in Nat
    BY NotificationsAssumption
  <2>4. TypeOK
    <3>1. 0 \in Attempts
      BY <2>3 DEF Attempts
    <3>2. row \in RowRecords
      BY <2>1, <3>1 DEF RowRecords, Statuses
    <3>3. run \in [Runs -> RunRecords]
      BY <2>2, IdleType
    <3>4. faults \in 0..MaxFaults /\ plainMails \in Nat
      BY <2>2, <2>3
    <3> QED
      BY <2>2, <3>2, <3>3, <3>4 DEF TypeOK, RowRecords, RunRecords, Attempts
  <2>5. \A r \in Runs : run[r].step = "idle"
    BY <2>2, IdleType
  <2>6. Mails = 0
    BY <2>2 DEF Mails
  <2>7. Clean
    BY <2>5, <2>6 DEF Clean
  <2>8. Undelivered /\ Deduplicated /\ PlainAlone /\ KeyedNeverPlain /\ AcceptedIsMailed
    BY <2>2, <2>5, <2>7
      DEF Undelivered, Deduplicated, PlainAlone, KeyedNeverPlain, AcceptedIsMailed
  <2>9. OwnerKnows /\ InAppNeverSends
    BY <2>1, <2>5 DEF OwnerKnows, Holder, Holds, InAppNeverSends
  <2>10. AttemptsPaid
    BY <2>1, <2>2, <2>3 DEF AttemptsPaid
  <2>11. AtMostOneMail /\ StatusIsHonest
    BY <2>1, <2>6 DEF AtMostOneMail, StatusIsHonest
  <2> QED
    BY <2>4, <2>8, <2>9, <2>10, <2>11 DEF Inv
<1>2. Inv /\ [Next]_vars => Inv'
  BY InvStep
<1> QED
  BY <1>1, <1>2, PTL DEF Spec

\* Every variable keeps its type: a notification is claimed at most maxAttempts
\* times, plus once for every fault.
THEOREM TypeCorrect == Spec => []TypeOK
<1>1. Inv => TypeOK
  BY DEF Inv
<1> QED
  BY <1>1, Invariance, PTL

\* claim(), beginSend() and finish() never let a second mail out.
THEOREM OneMail == Spec => []AtMostOneMail
<1>1. Inv => AtMostOneMail
  BY DEF Inv
<1> QED
  BY <1>1, Invariance, PTL

\* finish() and recordDelivered() only record what happened to the mail.
THEOREM HonestStatus == Spec => []StatusIsHonest
<1>1. Inv => StatusIsHonest
  BY DEF Inv
<1> QED
  BY <1>1, Invariance, PTL

\* No statement of the ledger changes a verdict, but for the receipt of an
\* accepted mail.
THEOREM FinalVerdict == Spec => VerdictIsFinal
<1>1. ASSUME Inv, [Next]_vars
      PROVE  [row.status \in Terminal /\ row'.status # row.status
                => row.status = "accepted" /\ row'.status = "delivered"]_vars
  <2> SUFFICES ASSUME Next, row.status \in Terminal, row'.status # row.status
               PROVE  row.status = "accepted" /\ row'.status = "delivered"
    BY <1>1
  <2>1. row.status # "queued" /\ row \in RowRecords
    BY <1>1, Types DEF Terminal, Inv
  <2>2. ASSUME NEW e \in Callers, Insert(e) \/ Dispatch(e) PROVE FALSE
    BY <2>1, <2>2 DEF Insert, Dispatch, RowRecords
  <2>3. ASSUME NEW r \in Runs, Start(r) \/ Works(r) \/ Crash(r) \/ ReplyLost(r) PROVE FALSE
    BY <2>1, <2>3 DEF Start, Works, Acquire, PreferencesFail, Disabled, Enabled, BeginSend,
      Accepted, Ambiguous, Rejected, Finish, Crash, ReplyLost, Records, Claimable
  <2>4. ASSUME Lapse PROVE FALSE
    BY <2>1, <2>4 DEF Lapse, RowRecords
  <2>5. CASE Receipt
    BY <2>1, <2>5 DEF Receipt, RowRecords
  <2> QED
    BY <2>2, <2>3, <2>4, <2>5 DEF Next
<1> QED
  BY <1>1, Invariance, PTL DEF Spec, VerdictIsFinal
=============================================================================
