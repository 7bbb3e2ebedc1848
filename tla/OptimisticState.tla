--------------------------- MODULE OptimisticState ---------------------------
(***************************************************************************)
(* The ledger of optimistic calls (core/src/shared/optimistic-state.ts),   *)
(* for one component and one of its public fields.                         *)
(*                                                                         *)
(* Every function of the file is an operator from a page to the page it    *)
(* leaves.  A value of the field is the sequence of the contributions it   *)
(* shows.  A preview that appends is an optimistic() operation, replayed   *)
(* over any base; one that assigns replaces the field.  No ledger is the   *)
(* ledger whose clock is 0, in which no call has a sequence number.        *)
(***************************************************************************)
EXTENDS Integers, Sequences, FiniteSets

CONSTANT MaxCalls  \* bound: server calls the page makes

ASSUME CallsAssumption == MaxCalls \in Nat \ {0}

Calls == 1..MaxCalls
NoCall == 0
Previews == {"none", "assign", "append", "throws"}

CallToken(c) == <<"call", c>>
EditToken(k) == <<"edit", k>>
PeerToken(k) == <<"peer", k>>

\* Field.  changes and local hold the contributions replayed over base.
Unowned == [owned |-> FALSE, base |-> <<>>, sequence |-> 0, changes |-> {},
            local |-> {}, displayed |-> <<>>]

\* A page: its field, the ledger, settledEdits, sseCursors and, for each call,
\* call.fields, the request snapshot of its applier and call.published.
FreshPage ==
  [display |-> <<>>,
   clock |-> 0, seq |-> [c \in Calls |-> 0], field |-> Unowned,
   settled |-> {}, latest |-> -1,
   owns |-> {}, request |-> [c \in Calls |-> <<>>], published |-> [c \in Calls |-> {}]]

Active(p) == {c \in Calls : p.seq[c] > 0}

-----------------------------------------------------------------------------
(* write() and local edits *)

\* Mutation of Replay: contributions are replayed over a snapshot that has them.
ReplayAll(f, clock) ==
  LET at(n) == {ch \in f.changes \union f.local : ch.sequence = n}
      value[n \in 0..clock] ==
        IF n = 0 THEN f.base
        ELSE IF at(n) = {} THEN value[n - 1]
        ELSE LET ch == CHOOSE ch \in at(n) : TRUE
             IN IF ch.kind = "append" THEN Append(value[n - 1], CallToken(ch.call)) ELSE ch.value
  IN value[clock]

\* The base and, over it, the contributions newer than its snapshot, in the order
\* they were made.
Replay(f, clock) ==
  LET at(n) == {ch \in f.changes \union f.local : ch.sequence = n}
      value[n \in 0..clock] ==
        IF n = 0 THEN f.base
        ELSE IF n <= f.sequence \/ at(n) = {} THEN value[n - 1]
        ELSE LET ch == CHOOSE ch \in at(n) : TRUE
             IN IF ch.kind = "append" THEN Append(value[n - 1], CallToken(ch.call)) ELSE ch.value
  IN value[clock]

\* write()
Written(p) ==
  LET v == Replay(p.field, p.clock)
  IN [p EXCEPT !.display = v, !.field.displayed = v]

\* noteOptimisticWrite(), called by the setters.
Noted(p) ==
  IF ~p.field.owned THEN p
  ELSE [p EXCEPT !.clock = @ + 1, !.field.displayed = p.display,
          !.field.local = {[call |-> NoCall, kind |-> "assign", sequence |-> p.clock + 1,
                            value |-> p.display]}]

\* observeExternal(): a nested edit that no setter saw.
Observed(p) ==
  IF p.field.owned /\ p.display # p.field.displayed THEN Noted(p) ELSE p

-----------------------------------------------------------------------------
(* Calls *)

\* beginOptimisticCall(): the handler of call c runs once, and what it changed
\* becomes the contribution of c.  A handler that throws is taken back.
Began(p, c, preview) ==
  LET q == Observed(p)
      r == [q EXCEPT !.clock = @ + 1, !.seq[c] = q.clock + 1]
      f == IF r.field.owned THEN r.field
           ELSE [Unowned EXCEPT !.owned = TRUE, !.base = r.display, !.displayed = r.display]
      next == IF preview = "append" THEN Append(r.display, CallToken(c)) ELSE <<CallToken(c)>>
      change == [call |-> c, kind |-> preview, sequence |-> r.clock, value |-> next]
  IN CASE preview = "none" -> r
       [] preview = "throws" -> Written([r EXCEPT !.field = f])
       [] OTHER -> [r EXCEPT !.display = next, !.owns = @ \union {c},
                      !.field = [f EXCEPT !.changes = @ \union {change}, !.displayed = next]]

\* optimisticRequestState(): the field without the previews.
RequestState(p) ==
  IF ~p.field.owned THEN p.display
  ELSE IF p.field.local # {} THEN (CHOOSE l \in p.field.local : TRUE).value
  ELSE p.field.base

\* confirmOptimisticFields()
Confirmed(p, c) ==
  LET mine(q) == {ch \in q.field.changes : ch.call = c}
      q == Observed(p)
  IN IF p.seq[c] = 0 \/ mine(p) = {} THEN p
     ELSE Written([q EXCEPT !.field.changes = @ \ mine(q)])

\* ownsOptimisticField()
OwnsField(p, c) == p.field.owned /\ (c = NoCall \/ p.seq[c] > 0)

\* Mutation of Applied: an accepted snapshot is shown without the contributions.
AppliedBare(p, v, c, echo) ==
  LET q == Observed(p)
      n == IF c = NoCall THEN 0 ELSE q.seq[c]
  IN IF echo \/ (c # NoCall /\ n < q.field.sequence) THEN Written(q)
     ELSE [q EXCEPT !.display = v, !.field.base = v, !.field.displayed = v,
             !.field.sequence = IF c = NoCall THEN @ ELSE n]

\* applyOptimisticState() on a field that OwnsField: a newer answer, or an ambient
\* snapshot, becomes the base.
Applied(p, v, c, echo) ==
  LET q == Observed(p)
      n == IF c = NoCall THEN 0 ELSE q.seq[c]
  IN Written(IF echo \/ (c # NoCall /\ n < q.field.sequence) THEN q
             ELSE [q EXCEPT !.field.base = v,
                     !.field.sequence = IF c = NoCall THEN @ ELSE n,
                     !.field.local = {l \in @ : c = NoCall \/ n < l.sequence}])

\* Mutation of FinishedField: a failed call keeps its operation, like a committed one.
FinishedFieldKept(p, c, n, success) ==
  LET q == Observed(p)
      f == q.field
      mine == {ch \in f.changes : ch.call = c}
      operations == \E ch \in mine : ch.kind = "append"
  IN Written([q EXCEPT !.field.changes = IF operations THEN @ ELSE @ \ mine])

\* What finishOptimisticCall() does to a field of call c, whose number was n.
FinishedField(p, c, n, success) ==
  LET q == Observed(p)
      f == q.field
      mine == {ch \in f.changes : ch.call = c}
      operations == \E ch \in mine : ch.kind = "append"
      commits == success /\ mine # {} /\ ~operations /\ n > f.sequence
  IN Written([q EXCEPT
       !.field.base = IF commits THEN (CHOOSE ch \in mine : TRUE).value ELSE @,
       !.field.sequence = IF commits THEN n ELSE @,
       !.field.local = {l \in @ : ~(success /\ ~operations /\ n >= l.sequence)},
       !.field.changes = IF success /\ operations THEN @ ELSE @ \ mine])

\* The last call settled: the ledger goes, and remembers in settledEdits the
\* confirmed value under an edit that stays.
Closed(p) ==
  LET survives == \E l \in p.field.local : l.sequence > p.field.sequence
  IN [p EXCEPT !.clock = 0, !.field = Unowned,
        !.settled = IF ~p.field.owned THEN @ ELSE IF survives THEN {p.field.base} ELSE {}]

\* finishOptimisticCall(), after which nothing refers to the call.
Finished(p, c, success) ==
  IF p.seq[c] = 0 THEN p
  ELSE LET q == [p EXCEPT !.seq[c] = 0, !.owns = @ \ {c}, !.request[c] = <<>>, !.published[c] = {}]
           r == IF c \in p.owns THEN FinishedField(q, c, p.seq[c], success) ELSE q
       IN IF Active(r) = {} THEN Closed(r) ELSE r

\* Mutation of IsKnownEcho: settledEdits is not consulted.
NeverKnownEcho(p, v, authoritative) == FALSE

\* acceptSettledOptimisticSnapshot(): a known echo does not undo a surviving edit.
IsKnownEcho(p, v, authoritative) == ~authoritative /\ v \in p.settled
=============================================================================
