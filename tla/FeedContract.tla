---------------------------- MODULE FeedContract ----------------------------
(***************************************************************************)
(* What the event stream of an SSE scope promises a page, however often    *)
(* its connection breaks: it hears of every event in order and once, or    *)
(* gets a marker, and that only if events it was not told of are gone;     *)
(* once it is current it shows every state it was told of and never goes   *)
(* back; and what follows the loss of its access stays hidden from it.     *)
(***************************************************************************)
EXTENDS Integers, Sequences

CONSTANT Pages

NoLimit == -1

VARIABLES
  feed,     \* what was published, in order: "state" or "event"
  oldest,   \* the oldest entry that is still kept
  at,       \* at[i]: where page i resumes; it knows all up to there
  told,     \* told[i]: events handed to the page, in order
  marked,   \* marked[i]: how far the newest marker reaches
  shown,    \* shown[i]: the entry whose state the page shows, 0 at first
  current,  \* current[i]: the page is connected and has caught up
  limit     \* limit[i]: the newest entry when i lost its access, or NoLimit

pageVars == <<at, told, marked, shown, current, limit>>
contractVars == <<feed, oldest, pageVars>>

ContractInit ==
  /\ feed = <<>> /\ oldest = 1
  /\ at = [i \in Pages |-> 0] /\ marked = [i \in Pages |-> 0]
  /\ told = [i \in Pages |-> <<>>]
  /\ shown = [i \in Pages |-> 0]
  /\ current = [i \in Pages |-> FALSE]
  /\ limit = [i \in Pages |-> NoLimit]

\* Entry c may reach page i.
Open(i, c) == c \in 0..Len(feed) /\ (limit[i] # NoLimit => c <= limit[i])

\* Nothing from where page i is up to c remains to be told.
Told(i, c) == \A k \in (at[i] + 1)..c : feed[k] = "state" \/ k <= marked[i]

\* Page i may show the state of entry s when it is at c.
Showable(i, s, c) ==
  /\ Open(i, s)
  /\ s = 0 \/ feed[s] = "state"
  /\ current[i] => shown[i] <= s /\ \A k \in 1..c : feed[k] = "state" => k <= s

Publish ==
  /\ \E kind \in {"state", "event"} : feed' = Append(feed, kind)
  /\ oldest' \in oldest..Len(feed')
  /\ UNCHANGED pageVars

\* A page that was told nothing yet starts at the newest entry.
Start(i) ==
  /\ told[i] = <<>> /\ ~current[i] /\ limit[i] = NoLimit
  /\ at' = [at EXCEPT ![i] = Len(feed)]
  /\ UNCHANGED <<feed, oldest, told, marked, shown, current, limit>>

Tell(i) ==
  \E c \in 1..Len(feed) :
    /\ Open(i, c) /\ feed[c] = "event"
    /\ c > at[i] /\ c > marked[i] /\ Told(i, c - 1)
    /\ Showable(i, shown[i], c)
    /\ at' = [at EXCEPT ![i] = c]
    /\ told' = [told EXCEPT ![i] = Append(@, c)]
    /\ UNCHANGED <<feed, oldest, marked, shown, current, limit>>

\* A snapshot, newer than the one shown or not.
Acknowledge(i) ==
  \E c \in 0..Len(feed), s \in 0..Len(feed) :
    /\ Open(i, c) /\ c >= at[i] /\ Told(i, c)
    /\ Showable(i, s, c)
    /\ at' = [at EXCEPT ![i] = c]
    /\ shown' = [shown EXCEPT ![i] = s]
    /\ UNCHANGED <<feed, oldest, told, marked, current, limit>>

\* Entries the page does not know are gone.
Mark(i) ==
  /\ at[i] < oldest - 1
  /\ \E c \in marked[i]..Len(feed) :
       /\ Open(i, c) /\ c > at[i]
       /\ marked' = [marked EXCEPT ![i] = c]
  /\ UNCHANGED <<feed, oldest, at, told, shown, current, limit>>

\* The reply of an action of its own.
Reply(i) ==
  /\ \E s \in 0..Len(feed) :
       /\ Showable(i, s, at[i])
       /\ shown' = [shown EXCEPT ![i] = s]
  /\ UNCHANGED <<feed, oldest, at, told, marked, current, limit>>

CatchUp(i) ==
  /\ \A k \in 1..at[i] : feed[k] = "state" => k <= shown[i]
  /\ current' = [current EXCEPT ![i] = TRUE]
  /\ UNCHANGED <<feed, oldest, at, told, marked, shown, limit>>

Disconnect(i) ==
  /\ current' = [current EXCEPT ![i] = FALSE]
  /\ UNCHANGED <<feed, oldest, at, told, marked, shown, limit>>

Bar(i) ==
  /\ limit[i] = NoLimit
  /\ limit' = [limit EXCEPT ![i] = Len(feed)]
  /\ UNCHANGED <<feed, oldest, at, told, marked, shown, current>>

ContractNext ==
  \/ Publish
  \/ \E i \in Pages :
       \/ Start(i) \/ Tell(i) \/ Acknowledge(i) \/ Mark(i) \/ Reply(i)
       \/ CatchUp(i) \/ Disconnect(i) \/ Bar(i)

ContractSpec == ContractInit /\ [][ContractNext]_contractVars
=============================================================================
