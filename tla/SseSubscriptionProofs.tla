------------------------ MODULE SseSubscriptionProofs ------------------------
(***************************************************************************)
(* Proofs about SseSubscription for any number of pages, connections and   *)
(* events and for any size of the log and of the poll pool: every event    *)
(* arrives once and in order or is covered by a marker, no page goes back  *)
(* behind a state it has acknowledged, a page that lost its access         *)
(* receives nothing newer, and the whole implements FeedContract.          *)
(*                                                                         *)
(* The argument: a batch carries, in order, everything between what the    *)
(* page has acknowledged and the cursor the Worker polls from, and each of *)
(* its frames is preceded by all that the frame acknowledges.              *)
(***************************************************************************)
EXTENDS SseSubscription, SequenceTheorems, FiniteSetTheorems, WellFoundedInduction, TLAPS

-----------------------------------------------------------------------------
(* What a batch q says, on its own *)

Kinds == {"state", "event"}

\* The cursor of a frame that carries an id: it becomes the Last-Event-ID.
Acknowledges(f) == f.type \in Kinds

\* Frame f tells the page of event c.
Announces(f, c) ==
  \/ f.type = "event" /\ f.cursor = c
  \/ f.type = "resync" /\ c <= f.cursor

\* Frame f brings the page at least to the state published by event c.
Shows(f, c) == f.type = "state" /\ f.cursor >= c

AnnouncedBy(q, m, c) == \E n \in 1..m : Announces(q[n], c)
ShownBy(q, m, c) == \E n \in 1..m : Shows(q[n], c)

HasConnected(q) == \E n \in 1..Len(q) : q[n].type = "connected"

\* Frames come in cursor order, at most up to cursor a; each broadcast is newer than
\* everything before it; a marker is first and covers more than one before it did.
Ordered(q, a, cov) ==
  \A n \in 1..Len(q) :
    /\ q[n].cursor <= a
    /\ q[n].type = "resync" => n = 1 /\ cov <= q[n].cursor
    /\ q[n].type = "connected" => n = Len(q)
    /\ \A m \in 1..(n - 1) :
         /\ q[m].cursor <= q[n].cursor
         /\ q[n].type = "event" => q[m].cursor < q[n].cursor

\* Batch q is a reading of log lg from cursor a: all of it is newer, every later
\* event is announced and every later state shown, and both before a frame acknowledges it.
Reads(lg, a, q) ==
  /\ \A n \in 1..Len(q) : Acknowledges(q[n]) =>
       /\ a <= q[n].cursor /\ (q[n].type = "event" => a < q[n].cursor)
       /\ \A c \in (a + 1)..q[n].cursor :
            IF lg.kinds[c] = "state" THEN ShownBy(q, n, c) ELSE AnnouncedBy(q, n, c)
  /\ \A c \in (a + 1)..Cursor(lg) :
       IF lg.kinds[c] = "state" THEN ShownBy(q, Len(q), c) ELSE AnnouncedBy(q, Len(q), c)

-----------------------------------------------------------------------------
(* The inductive invariant.  lg: the log; a, q: the Worker's cursor and batch;     *)
(* l, lt, sh: the page's Last-Event-ID, snapshot cursor and state; h, cov, b: the  *)
(* history of what it was told.                                                    *)

\* Event c needs no telling, or the page was told of it.
Told(lg, h, cov, c) ==
  \/ lg.kinds[c] = "state"
  \/ c <= cov
  \/ \E n \in 1..Len(h) : h[n] = c

ToldOrAnnounced(lg, h, cov, q, m, b, to) ==
  \A c \in (b + 1)..to : Told(lg, h, cov, c) \/ AnnouncedBy(q, m, c)

\* Every event the batch acknowledges is told first, and every event up to a at its end.
Complete(lg, b, a, q, h, cov) ==
  /\ ToldOrAnnounced(lg, h, cov, q, Len(q), b, a)
  /\ \A n \in 1..Len(q) : Acknowledges(q[n]) =>
       ToldOrAnnounced(lg, h, cov, q, n, b, q[n].cursor)

\* Handlers ran in order, none of them ahead of the acknowledged cursor, and what the
\* batch still holds is newer.
Once(h, l, q) ==
  /\ \A m, n \in 1..Len(h) : m < n => h[m] < h[n]
  /\ \A m \in 1..Len(h) :
       /\ h[m] <= l
       /\ \A n \in 1..Len(q) : Acknowledges(q[n]) =>
            h[m] <= q[n].cursor /\ (q[n].type = "event" => h[m] < q[n].cursor)

\* A page past its first batch shows every state it has acknowledged, and the batch
\* shows every other one before it acknowledges it.
UpToDate(lg, l, lt, a, q) ==
  \A c \in 1..Cursor(lg) : lg.kinds[c] = "state" =>
    /\ c <= l => c <= lt
    /\ c <= a => c <= lt \/ ShownBy(q, Len(q), c)
    /\ \A n \in 1..Len(q) : Acknowledges(q[n]) /\ c <= q[n].cursor =>
         c <= lt \/ ShownBy(q, n, c)

\* The first batch ends with a snapshot at the Worker's cursor and "connected".
Fresh(lg, ph, l, lt, a, q) ==
  /\ ph = "subscribed" => HasConnected(q) /\ ShownBy(q, Len(q), a)
  /\ HasConnected(q) => ShownBy(q, Len(q), a) \/ (ph = "live" /\ a <= lt)
  /\ ph = "live" /\ ~HasConnected(q) => 0 <= lt /\ UpToDate(lg, l, lt, a, q)

\* What the page shows is the snapshot it applied last.
Showing(lg, lt, sh) == lt # NoCursor => sh = StateAt(lg, lt)

\* Nothing of what was read after the access was lost passes the authorization.
Barred(rev, l, au, q) ==
  rev # NoCursor =>
    /\ l <= rev
    /\ au => \A n \in 1..Len(q) : q[n].cursor <= rev

Active(i) == phase[i] \in {"subscribing", "subscribed", "live"}

\* Batches and held polls belong to the current connection; a poll is held with an
\* empty batch.
Places(i) ==
  /\ phase[i] \notin {"subscribed", "live"} => pending[i] = <<>>
  /\ phase[i] # "down" => conn[i] >= 1
  /\ <<i, conn[i]>> \in waiters => pending[i] = <<>> /\ phase[i] \notin {"subscribing", "subscribed"}
  /\ \A n \in 1..MaxConns : <<i, n>> \in waiters => n <= conn[i]

\* No cursor is ahead of the log.
Bounds(i) ==
  /\ after[i] <= Cursor(log) /\ lastId[i] <= Cursor(log) /\ latest[i] <= Cursor(log)
  /\ covered[i] <= Cursor(log) /\ revokedAt[i] <= Cursor(log)
  /\ \A c \in replies[i] : c <= Cursor(log)
  /\ Active(i) => lastId[i] <= after[i]

ClientInv(i) ==
  /\ Places(i)
  /\ Bounds(i)
  /\ Ordered(pending[i], after[i], covered[i])
  /\ ToldOrAnnounced(log, handled[i], covered[i], <<>>, 0, base[i], lastId[i])
  /\ Active(i) => Complete(log, base[i], after[i], pending[i], handled[i], covered[i])
  /\ Once(handled[i], lastId[i], pending[i])
  /\ Fresh(log, phase[i], lastId[i], latest[i], after[i], pending[i])
  /\ Showing(log, latest[i], shown[i])
  /\ Barred(revokedAt[i], lastId[i], authorized[i], pending[i])

Inv == TypeOK /\ IsFiniteSet(waiters) /\ \A i \in Clients : ClientInv(i)

-----------------------------------------------------------------------------
(* Logs and their readings *)

IsLog(lg) ==
  /\ lg.kinds \in Seq(Kinds) /\ Cursor(lg) <= MaxCursor
  /\ lg.oldest \in 1..(Cursor(lg) + 1)

\* The greatest number of a set of bounded naturals.
LEMMA Greatest ==
  ASSUME NEW n \in Nat, NEW S \in SUBSET (0..n), S # {}
  PROVE  \E m \in S : \A k \in S : k <= m
<1> DEFINE Above(m) == {k \in S : k > m}
           tops == {Above(m) : m \in S}
<1>1. IsFiniteSet(S)
  <2>1. IsFiniteSet(0..n)
    BY FS_Interval
  <2> QED
    BY <2>1, FS_Subset
<1>2. IsWellFoundedOn(StrictSubsetOrdering(S), SUBSET S)
  BY <1>1, FS_StrictSubsetOrderingWellFounded, FS_FiniteSubsetsOfFinite
<1>3. tops \in SUBSET (SUBSET S) /\ tops # {}
  OBVIOUS
<1>4. PICK x \in tops : \A y \in tops : <<y, x>> \notin StrictSubsetOrdering(S)
  <2> HIDE DEF tops
  <2> QED
    BY <1>2, <1>3, WFMin
<1>5. PICK m \in S : x = Above(m)
  OBVIOUS
<1>6. ASSUME NEW k \in S, k > m PROVE FALSE
  <2>1. Above(k) \in tops
    OBVIOUS
  <2>2. Above(k) \subseteq Above(m) /\ k \in Above(m) /\ k \notin Above(k)
    <3>1. \A j \in S : j \in Int
      OBVIOUS
    <3>2. k \in Int /\ m \in Int
      BY <3>1
    <3>3. ASSUME NEW j \in S, j > k PROVE j > m
      BY <1>6, <3>1, <3>2, <3>3
    <3>4. ~(k > k)
      BY <3>2
    <3> HIDE <1>5
    <3> QED
      BY <1>6, <3>3, <3>4
  <2>3. <<Above(k), x>> \in StrictSubsetOrdering(S)
    BY <1>5, <2>2 DEF StrictSubsetOrdering
  <2> QED
    BY <1>4, <2>1, <2>3
<1> QED
  BY <1>6

\* The state as of an event is that of the newest update up to it.
LEMMA StateAtIsNewest ==
  ASSUME NEW lg, NEW c \in Int
  PROVE  /\ StateAt(lg, c) \in Nat
         /\ \/ StateAt(lg, c) = 0
            \/ StateAt(lg, c) \in 1..c /\ lg.kinds[StateAt(lg, c)] = "state"
         /\ \A k \in 1..c : lg.kinds[k] = "state" => k <= StateAt(lg, c)
<1> DEFINE updates == {k \in 1..c : lg.kinds[k] = "state"}
<1>1. CASE updates = {}
  <2>1. StateAt(lg, c) = 0
    BY <1>1 DEF StateAt
  <2>2. \A k \in 1..c : lg.kinds[k] # "state"
    BY <1>1
  <2> QED
    BY <2>1, <2>2
<1>2. CASE updates # {}
  <2>1. c \in Nat /\ updates \in SUBSET (0..c)
    BY <1>2
  <2>2. \E m \in updates : \A k \in updates : k <= m
    <3> HIDE DEF updates
    <3> QED
      BY <1>2, <2>1, Greatest
  <2>3. StateAt(lg, c) = CHOOSE m \in updates : \A k \in updates : k <= m
    BY <1>2 DEF StateAt
  <2>4. StateAt(lg, c) \in updates /\ \A k \in updates : k <= StateAt(lg, c)
    <3> HIDE DEF updates
    <3> QED
      BY <2>2, <2>3
  <2> QED
    BY <2>4
<1> QED
  BY <1>1, <1>2

\* A batch has frames with cursors.
LEMMA BatchCursors ==
  ASSUME NEW q \in Seq(Frames)
  PROVE  /\ Len(q) \in Nat
         /\ \A n \in 1..Len(q) : q[n] \in Frames /\ q[n].cursor \in Nat
<1>1. Len(q) \in Nat /\ \A n \in 1..Len(q) : q[n] \in Frames
  BY LenProperties, ElementOfSeq
<1>2. \A f \in Frames : f.cursor \in Nat
  BY SubscriptionAssumption DEF Frames, Cursors
<1> QED
  BY <1>1, <1>2

\* What is read after cursor a of a log that still has it.
LEMMA EventsAfterElements ==
  ASSUME NEW lg, IsLog(lg), NEW a \in 0..Cursor(lg)
  PROVE  /\ EventsAfter(lg, a) \in Seq(Frames)
         /\ Len(EventsAfter(lg, a)) = Cursor(lg) - a
         /\ \A n \in 1..(Cursor(lg) - a) :
              EventsAfter(lg, a)[n] = Frame(lg.kinds[a + n], a + n)
<1> DEFINE N == Cursor(lg)
           q == EventsAfter(lg, a)
<1>1. N \in Nat /\ N <= MaxCursor /\ MaxCursor \in Nat /\ N - a \in Nat
  BY LenProperties, SubscriptionAssumption DEF IsLog, Cursor
<1>2. \A n \in 1..(N - a) : a + n \in 1..N /\ lg.kinds[a + n] \in Kinds
  BY <1>1, ElementOfSeq DEF IsLog, Cursor
<1>3. q = [n \in 1..(N - a) |-> Frame(lg.kinds[a + n], a + n)]
  BY DEF EventsAfter
<1>4. \A n \in 1..(N - a) : Frame(lg.kinds[a + n], a + n) \in Frames
  BY <1>1, <1>2 DEF Frame, Frames, Kinds, Cursors
<1>5. q \in [1..(N - a) -> Frames]
  <2> HIDE DEF N, q
  <2> QED
    BY <1>3, <1>4
<1>6. q \in Seq(Frames)
  BY <1>1, <1>5, SeqDef
<1>7. Len(q) = N - a
  <2> HIDE DEF N, q
  <2> QED
    BY <1>1, <1>5, <1>6, LenProperties
<1> QED
  BY <1>3, <1>6, <1>7

\* A reading without a marker.
LEMMA EventsRead ==
  ASSUME NEW lg, IsLog(lg), NEW a \in 0..Cursor(lg), NEW cov \in Int
  PROVE  /\ Ordered(EventsAfter(lg, a), Cursor(lg), cov)
         /\ Reads(lg, a, EventsAfter(lg, a))
         /\ ~HasConnected(EventsAfter(lg, a))
<1> DEFINE N == Cursor(lg)
           q == EventsAfter(lg, a)
<1>1. N \in Nat /\ N - a \in Nat /\ a \in Nat
  BY LenProperties DEF IsLog, Cursor
<1>2. Len(q) = N - a
  BY EventsAfterElements
<1>3. \A n \in 1..(N - a) :
        q[n].type = lg.kinds[a + n] /\ q[n].cursor = a + n /\ lg.kinds[a + n] \in Kinds
  <2>1. \A n \in 1..(N - a) : q[n] = Frame(lg.kinds[a + n], a + n)
    BY EventsAfterElements
  <2>2. \A n \in 1..(N - a) : lg.kinds[a + n] \in Kinds
    BY <1>1, ElementOfSeq DEF IsLog, Cursor
  <2> HIDE DEF N, q
  <2>3. ASSUME NEW n \in 1..(N - a)
        PROVE  q[n].type = lg.kinds[a + n] /\ q[n].cursor = a + n
    <3>1. q[n] = [type |-> lg.kinds[a + n], cursor |-> a + n]
      BY <2>1 DEF Frame
    <3> QED
      BY <3>1
  <2> QED
    BY <2>2, <2>3
<1> HIDE DEF N, q
<1>4. Ordered(q, N, cov)
  <2>1. \A n \in 1..Len(q) : q[n].cursor = a + n /\ q[n].cursor <= N
    BY <1>1, <1>2, <1>3
  <2>2. \A n \in 1..Len(q) : q[n].type # "resync" /\ q[n].type # "connected"
    BY <1>2, <1>3 DEF Kinds
  <2>3. \A n \in 1..Len(q) : \A m \in 1..(n - 1) : q[m].cursor < q[n].cursor
    BY <1>1, <1>2, <2>1
  <2>4. \A n \in 1..Len(q) : \A m \in 1..(n - 1) : q[m].cursor <= q[n].cursor
    BY <1>1, <1>2, <2>1
  <2> QED
    BY <2>1, <2>2, <2>3, <2>4 DEF Ordered
<1>5. ~HasConnected(q)
  BY <1>2, <1>3 DEF HasConnected, Kinds
<1>6. ASSUME NEW m \in 0..(N - a), NEW c \in (a + 1)..(a + m)
      PROVE  IF lg.kinds[c] = "state" THEN ShownBy(q, m, c) ELSE AnnouncedBy(q, m, c)
  <2>1. c - a \in 1..m /\ c - a \in 1..(N - a) /\ a + (c - a) = c
    BY <1>1
  <2>2. q[c - a].type = lg.kinds[c] /\ q[c - a].cursor = c /\ lg.kinds[c] \in Kinds
    BY <1>3, <2>1
  <2>3. CASE lg.kinds[c] = "state"
    BY <1>1, <2>1, <2>2, <2>3 DEF ShownBy, Shows
  <2>4. CASE lg.kinds[c] = "event"
    BY <2>1, <2>2, <2>4 DEF AnnouncedBy, Announces
  <2> QED
    BY <2>2, <2>3, <2>4 DEF Kinds
<1>7. Reads(lg, a, q)
  <2>1. \A n \in 1..Len(q) : a < q[n].cursor /\ q[n].cursor = a + n /\ n \in 0..(N - a)
    BY <1>1, <1>2, <1>3
  <2>2. \A n \in 1..Len(q) : \A c \in (a + 1)..q[n].cursor :
          IF lg.kinds[c] = "state" THEN ShownBy(q, n, c) ELSE AnnouncedBy(q, n, c)
    BY <1>6, <2>1
  <2>3. \A c \in (a + 1)..N :
          IF lg.kinds[c] = "state" THEN ShownBy(q, Len(q), c) ELSE AnnouncedBy(q, Len(q), c)
    <3>1. Len(q) \in 0..(N - a) /\ a + Len(q) = N
      BY <1>1, <1>2
    <3> QED
      BY <1>6, <3>1
  <2>4. \A n \in 1..Len(q) : a <= q[n].cursor
    BY <1>1, <2>1
  <2> QED
    BY <2>1, <2>2, <2>3, <2>4 DEF Reads, N
<1> QED
  BY <1>4, <1>5, <1>7 DEF N, q

\* A marker covers everything; the snapshot after it shows everything.
LEMMA PollReads ==
  ASSUME NEW lg, IsLog(lg), NEW a \in 0..Cursor(lg), NEW cov \in Int, cov <= Cursor(lg)
  PROVE  /\ PollBatch(lg, a) \in Seq(Frames)
         /\ Ordered(PollBatch(lg, a), Cursor(lg), cov)
         /\ Reads(lg, a, PollBatch(lg, a))
         /\ ~HasConnected(PollBatch(lg, a))
<1> DEFINE N == Cursor(lg)
           q == <<Frame("resync", N), Frame("state", N)>>
<1>1. N \in Nat /\ a \in Nat /\ a <= N /\ N \in Cursors
  BY LenProperties, SubscriptionAssumption DEF IsLog, Cursor, Cursors
<1> HIDE DEF N
<1>2. q \in Seq(Frames) /\ Len(q) = 2
      /\ q[1].type = "resync" /\ q[1].cursor = N /\ q[2].type = "state" /\ q[2].cursor = N
  BY <1>1 DEF Frame, Frames
<1> HIDE DEF q
<1>3. \A n \in 1..Len(q) : n = 1 \/ n = 2
  BY <1>2
<1>4. Ordered(q, N, cov) /\ ~HasConnected(q)
  BY <1>1, <1>2, <1>3 DEF Ordered, HasConnected, N
<1>5. \A c \in (a + 1)..N : AnnouncedBy(q, 2, c) /\ ShownBy(q, 2, c)
  BY <1>1, <1>2 DEF AnnouncedBy, Announces, ShownBy, Shows
<1>6. Reads(lg, a, q)
  BY <1>1, <1>2, <1>3, <1>5 DEF Reads, Acknowledges, Kinds, N
<1>7. CASE Resync(lg, a)
  BY <1>2, <1>4, <1>6, <1>7 DEF PollBatch, N, q
<1>8. CASE ~Resync(lg, a)
  BY <1>8, EventsAfterElements, EventsRead DEF PollBatch
<1> QED
  BY <1>7, <1>8

\* The first batch of a connection ends with a snapshot and "connected".
LEMMA FirstReads ==
  ASSUME NEW lg, IsLog(lg), NEW a \in 0..Cursor(lg), NEW cov \in Int, cov <= Cursor(lg)
  PROVE  /\ FirstBatch(lg, a) \in Seq(Frames)
         /\ Ordered(FirstBatch(lg, a), Cursor(lg), cov)
         /\ Reads(lg, a, FirstBatch(lg, a))
         /\ HasConnected(FirstBatch(lg, a))
         /\ ShownBy(FirstBatch(lg, a), Len(FirstBatch(lg, a)), Cursor(lg))
<1> DEFINE N == Cursor(lg)
           r == IF Resync(lg, a) THEN <<Frame("resync", N)>> ELSE EventsAfter(lg, a)
           t == <<Frame("state", N), Frame("connected", N)>>
           q == FirstBatch(lg, a)
<1>1. N \in Nat /\ a \in Nat /\ a <= N /\ N \in Cursors
  BY LenProperties, SubscriptionAssumption DEF IsLog, Cursor, Cursors
<1>2. t \in Seq(Frames) /\ Len(t) = 2 /\ t[1] = Frame("state", N) /\ t[2] = Frame("connected", N)
  <2> HIDE DEF N
  <2> QED
    BY <1>1 DEF Frame, Frames
<1>3. /\ r \in Seq(Frames)
      /\ Ordered(r, N, cov) /\ ~HasConnected(r)
      /\ \A n \in 1..Len(r) : Acknowledges(r[n]) =>
           /\ a <= r[n].cursor /\ (r[n].type = "event" => a < r[n].cursor)
           /\ r[n].cursor <= N
           /\ \A c \in (a + 1)..r[n].cursor :
                IF lg.kinds[c] = "state" THEN ShownBy(r, n, c) ELSE AnnouncedBy(r, n, c)
      /\ \A c \in (a + 1)..N : lg.kinds[c] # "state" => AnnouncedBy(r, Len(r), c)
  <2>1. CASE Resync(lg, a)
    <3>1. r = <<Frame("resync", N)>>
      BY <2>1
    <3> HIDE DEF r
    <3>2. r \in Seq(Frames) /\ Len(r) = 1 /\ r[1].type = "resync" /\ r[1].cursor = N
      <4> HIDE DEF N
      <4>1. r = <<[type |-> "resync", cursor |-> N]>>
        BY <3>1 DEF Frame
      <4> QED
        BY <1>1, <4>1 DEF Frames
    <3>3. Ordered(r, N, cov) /\ ~HasConnected(r)
      BY <1>1, <3>2 DEF Ordered, HasConnected, N
    <3>4. \A n \in 1..Len(r) : ~Acknowledges(r[n])
      BY <3>2 DEF Acknowledges, Kinds
    <3>5. \A c \in (a + 1)..N : AnnouncedBy(r, Len(r), c)
      BY <3>2 DEF AnnouncedBy, Announces
    <3> QED
      BY <3>2, <3>3, <3>4, <3>5
  <2>2. CASE ~Resync(lg, a)
    <3>1. r = EventsAfter(lg, a)
      BY <2>2
    <3>2. r \in Seq(Frames) /\ Ordered(r, N, cov) /\ ~HasConnected(r) /\ Reads(lg, a, r)
      BY <3>1, EventsAfterElements, EventsRead
    <3> HIDE DEF r, N
    <3> QED
      BY <3>2 DEF Ordered, Reads, N
  <2> QED
    BY <2>1, <2>2
<1>4. q = r \o t
  BY DEF FirstBatch
<1> HIDE DEF r, t, q
<1>5. /\ q \in Seq(Frames) /\ Len(r) \in Nat /\ Len(q) = Len(r) + 2
      /\ \A n \in 1..Len(r) : q[n] = r[n]
      /\ q[Len(r) + 1] = Frame("state", N) /\ q[Len(r) + 2] = Frame("connected", N)
  <2>1. q \in Seq(Frames) /\ Len(r) \in Nat /\ Len(q) = Len(r) + 2
    BY <1>2, <1>3, <1>4, ConcatProperties, LenProperties
  <2>2. \A n \in 1..(Len(r) + Len(t)) : q[n] = IF n <= Len(r) THEN r[n] ELSE t[n - Len(r)]
    BY <1>2, <1>3, <1>4, ConcatProperties
  <2> QED
    BY <1>2, <2>1, <2>2
<1> DEFINE k == Len(r)
<1> HIDE DEF N, k
<1>6. \A n \in 1..Len(q) : n \in 1..k \/ n = k + 1 \/ n = k + 2
  BY <1>5 DEF k
<1>7. /\ q[k + 1].type = "state" /\ q[k + 1].cursor = N
      /\ q[k + 2].type = "connected" /\ q[k + 2].cursor = N
      /\ Len(q) = k + 2 /\ k \in Nat
  BY <1>5 DEF Frame, k
<1>8. \A n \in 1..k : q[n] = r[n] /\ q[n].cursor <= N /\ q[n].cursor \in Int
  <2>1. \A n \in 1..k : r[n] \in Frames /\ r[n].cursor \in Int
    BY <1>3, BatchCursors DEF k
  <2> QED
    BY <1>3, <1>5, <2>1 DEF k, Ordered
<1>9. Ordered(q, N, cov)
  <2>1. ASSUME NEW n \in 1..k
        PROVE  /\ q[n].type = "resync" => n = 1 /\ cov <= q[n].cursor
               /\ q[n].type # "connected"
               /\ \A m \in 1..(n - 1) :
                    /\ q[m].cursor <= q[n].cursor
                    /\ q[n].type = "event" => q[m].cursor < q[n].cursor
    <3>1. \A m \in 1..(n - 1) : m \in 1..k /\ q[m] = r[m]
      BY <1>7, <1>8
    <3> QED
      BY <1>3, <1>8, <3>1 DEF Ordered, HasConnected, k
  <2>2. \A n \in 1..Len(q) : q[n].cursor <= N
    BY <1>1, <1>6, <1>7, <1>8
  <2>3. \A m \in 1..k : q[m].cursor <= q[k + 1].cursor /\ q[m].cursor <= q[k + 2].cursor
    BY <1>7, <1>8
  <2>4. \A m \in 1..((k + 2) - 1) : m \in 1..k \/ m = k + 1
    BY <1>7
  <2>5. \A m \in 1..((k + 1) - 1) : m \in 1..k
    BY <1>7
  <2> QED
    BY <1>1, <1>6, <1>7, <2>1, <2>2, <2>3, <2>4, <2>5 DEF Ordered
<1>10. ASSUME NEW m \in 1..k, NEW c
       PROVE  /\ ShownBy(r, m, c) <=> ShownBy(q, m, c)
              /\ AnnouncedBy(r, m, c) <=> AnnouncedBy(q, m, c)
  <2>1. \A j \in 1..m : r[j] = q[j]
    BY <1>7, <1>8
  <2> QED
    BY <2>1 DEF ShownBy, AnnouncedBy
<1>11. \A c \in (a + 1)..N : lg.kinds[c] # "state" =>
         AnnouncedBy(q, k + 1, c) /\ AnnouncedBy(q, k + 2, c)
  <2>1. \A c \in (a + 1)..N : lg.kinds[c] # "state" => \E j \in 1..k : Announces(q[j], c)
    BY <1>3, <1>8 DEF AnnouncedBy, k
  <2>2. \A j \in 1..k : j \in 1..(k + 1) /\ j \in 1..(k + 2)
    BY <1>7
  <2> QED
    BY <2>1, <2>2 DEF AnnouncedBy
<1>12. \A c \in 0..N : ShownBy(q, k + 1, c) /\ ShownBy(q, k + 2, c)
  BY <1>1, <1>7 DEF ShownBy, Shows
<1>13. Reads(lg, a, q)
  <2>1. ASSUME NEW n \in 1..Len(q), Acknowledges(q[n])
        PROVE  /\ a <= q[n].cursor /\ (q[n].type = "event" => a < q[n].cursor)
               /\ \A c \in (a + 1)..q[n].cursor :
                    IF lg.kinds[c] = "state" THEN ShownBy(q, n, c) ELSE AnnouncedBy(q, n, c)
    <3>1. CASE n \in 1..k
      <4>1. n \in 1..Len(r) /\ q[n] = r[n]
        BY <1>8, <3>1 DEF k
      <4>2. \A c : /\ ShownBy(r, n, c) <=> ShownBy(q, n, c)
                   /\ AnnouncedBy(r, n, c) <=> AnnouncedBy(q, n, c)
        BY <1>10, <3>1
      <4>3. /\ a <= r[n].cursor /\ (r[n].type = "event" => a < r[n].cursor)
            /\ \A c \in (a + 1)..r[n].cursor :
                 IF lg.kinds[c] = "state" THEN ShownBy(r, n, c) ELSE AnnouncedBy(r, n, c)
        <5>1. Acknowledges(r[n])
          BY <2>1, <4>1
        <5> QED
          BY <1>3, <4>1, <5>1
      <4> QED
        BY <4>1, <4>2, <4>3
    <3>2. CASE n = k + 1
      BY <1>1, <1>7, <1>11, <1>12, <3>2
    <3>3. CASE n = k + 2
      BY <1>7, <2>1, <3>3 DEF Acknowledges, Kinds
    <3> QED
      BY <1>6, <3>1, <3>2, <3>3
  <2>2. \A c \in (a + 1)..N :
          IF lg.kinds[c] = "state" THEN ShownBy(q, Len(q), c) ELSE AnnouncedBy(q, Len(q), c)
    BY <1>1, <1>7, <1>11, <1>12
  <2> QED
    BY <2>1, <2>2 DEF Reads, N
<1>14. HasConnected(q)
  BY <1>7 DEF HasConnected
<1> QED
  BY <1>1, <1>5, <1>7, <1>9, <1>12, <1>13, <1>14 DEF N, q

-----------------------------------------------------------------------------
(* The parts of the invariant when the log grows *)

Grows(lg, new) ==
  /\ IsLog(lg) /\ IsLog(new)
  /\ Cursor(lg) <= Cursor(new)
  /\ \A c \in 1..Cursor(lg) : new.kinds[c] = lg.kinds[c]

\* Appending an event is growth.
LEMMA AppendGrows ==
  ASSUME NEW lg, IsLog(lg), Cursor(lg) < MaxCursor, NEW kind \in Kinds,
         NEW oldest \in lg.oldest..(Cursor(lg) + 1),
         NEW new, new = [kinds |-> Append(lg.kinds, kind), oldest |-> oldest]
  PROVE  Grows(lg, new) /\ Cursor(new) = Cursor(lg) + 1
<1>1. new.kinds = Append(lg.kinds, kind) /\ new.oldest = oldest
  OBVIOUS
<1>2. /\ new.kinds \in Seq(Kinds) /\ Len(new.kinds) = Len(lg.kinds) + 1 /\ Len(lg.kinds) \in Nat
      /\ \A c \in 1..Len(lg.kinds) : new.kinds[c] = lg.kinds[c]
  BY <1>1, AppendProperties, LenProperties DEF IsLog
<1> QED
  BY <1>1, <1>2, SubscriptionAssumption DEF Grows, IsLog, Cursor

\* The state as of an event does not depend on later events.
LEMMA StateAtStable ==
  ASSUME NEW lg, NEW new, Grows(lg, new), NEW c \in Int, c <= Cursor(lg)
  PROVE  StateAt(new, c) = StateAt(lg, c)
<1>1. Cursor(lg) \in Nat
  BY LenProperties DEF Grows, IsLog, Cursor
<1>2. \A k \in 1..c : new.kinds[k] = lg.kinds[k]
  BY <1>1 DEF Grows
<1> DEFINE Updates(l) == {k \in 1..c : l.kinds[k] = "state"}
           Newest(S) == IF S = {} THEN 0 ELSE CHOOSE k \in S : \A j \in S : j <= k
<1>3. Updates(new) = Updates(lg)
  BY <1>2
<1>4. StateAt(new, c) = Newest(Updates(new)) /\ StateAt(lg, c) = Newest(Updates(lg))
  BY DEF StateAt
<1> HIDE DEF Updates, Newest
<1> QED
  BY <1>3, <1>4

\* What was told of the events up to some cursor of the shorter log.
LEMMA ToldStable ==
  ASSUME NEW lg, NEW new, Grows(lg, new), NEW h, NEW cov, NEW q, NEW m,
         NEW b \in Nat, NEW to \in Int, to <= Cursor(lg),
         ToldOrAnnounced(lg, h, cov, q, m, b, to)
  PROVE  ToldOrAnnounced(new, h, cov, q, m, b, to)
<1>1. Cursor(lg) \in Nat
  BY LenProperties DEF Grows, IsLog, Cursor
<1>2. \A c \in (b + 1)..to : new.kinds[c] = lg.kinds[c]
  BY <1>1 DEF Grows
<1> QED
  BY <1>2 DEF ToldOrAnnounced, Told

\* A batch read from the shorter log acknowledges nothing of what came later.
LEMMA CompleteStable ==
  ASSUME NEW lg, NEW new, Grows(lg, new), NEW h, NEW cov, NEW q \in Seq(Frames),
         NEW b \in Nat, NEW a \in Nat, a <= Cursor(lg), Ordered(q, a, cov),
         Complete(lg, b, a, q, h, cov)
  PROVE  Complete(new, b, a, q, h, cov)
<1>1. \A n \in 1..Len(q) : q[n].cursor \in Int /\ q[n].cursor <= Cursor(lg)
  <2>2. \A n \in 1..Len(q) : q[n].cursor \in Int
    BY BatchCursors
  <2>3. Cursor(lg) \in Nat
    BY LenProperties DEF Grows, IsLog, Cursor
  <2> QED
    BY <2>2, <2>3 DEF Ordered
<1>2. ToldOrAnnounced(new, h, cov, q, Len(q), b, a)
  BY ToldStable DEF Complete
<1>3. ASSUME NEW n \in 1..Len(q), Acknowledges(q[n])
      PROVE  ToldOrAnnounced(new, h, cov, q, n, b, q[n].cursor)
  BY <1>1, <1>3, ToldStable DEF Complete
<1> QED
  BY <1>2, <1>3 DEF Complete

\* Later states are not acknowledged yet.
LEMMA UpToDateStable ==
  ASSUME NEW lg, NEW new, Grows(lg, new), NEW q \in Seq(Frames), NEW cov,
         NEW a \in Nat, a <= Cursor(lg), NEW l \in Int, l <= Cursor(lg), NEW lt,
         Ordered(q, a, cov), UpToDate(lg, l, lt, a, q)
  PROVE  UpToDate(new, l, lt, a, q)
<1>1. Cursor(lg) \in Nat /\ Cursor(new) \in Nat
  BY LenProperties DEF Grows, IsLog, Cursor
<1>2. \A n \in 1..Len(q) : q[n].cursor \in Int /\ q[n].cursor <= Cursor(lg)
  <2>2. \A n \in 1..Len(q) : q[n].cursor \in Int
    BY BatchCursors
  <2> QED
    BY <1>1, <2>2 DEF Ordered
<1>3. ASSUME NEW c \in 1..Cursor(new), c \notin 1..Cursor(lg)
      PROVE  ~(c <= l) /\ ~(c <= a) /\ \A n \in 1..Len(q) : ~(c <= q[n].cursor)
  BY <1>1, <1>2, <1>3
<1>4. \A c \in 1..Cursor(lg) : new.kinds[c] = lg.kinds[c]
  BY DEF Grows
<1> QED
  BY <1>3, <1>4 DEF UpToDate

-----------------------------------------------------------------------------
(* The parts of the invariant when a batch is read *)

\* Everything later is announced by what was read.
LEMMA CompleteAfterRead ==
  ASSUME NEW lg, IsLog(lg), NEW h, NEW cov, NEW q \in Seq(Frames), NEW b \in Nat,
         NEW a \in 0..Cursor(lg), Reads(lg, a, q),
         ToldOrAnnounced(lg, h, cov, <<>>, 0, b, a)
  PROVE  Complete(lg, b, Cursor(lg), q, h, cov)
<1>1. \A c \in (b + 1)..a : Told(lg, h, cov, c)
  BY DEF ToldOrAnnounced, AnnouncedBy
<1>2. Cursor(lg) \in Nat
  BY LenProperties DEF IsLog, Cursor
<1>3. ToldOrAnnounced(lg, h, cov, q, Len(q), b, Cursor(lg))
  <2>1. ASSUME NEW c \in (b + 1)..Cursor(lg)
        PROVE  Told(lg, h, cov, c) \/ AnnouncedBy(q, Len(q), c)
    <3>1. CASE c <= a
      BY <1>1, <1>2, <3>1
    <3>2. CASE c \in (a + 1)..Cursor(lg)
      BY <3>2 DEF Reads, Told
    <3> QED
      BY <1>2, <3>1, <3>2
  <2> QED
    BY <2>1 DEF ToldOrAnnounced
<1>4. ASSUME NEW n \in 1..Len(q), Acknowledges(q[n])
      PROVE  ToldOrAnnounced(lg, h, cov, q, n, b, q[n].cursor)
  <2>1. q[n].cursor \in Int
    BY BatchCursors
  <2>2. ASSUME NEW c \in (b + 1)..q[n].cursor
        PROVE  Told(lg, h, cov, c) \/ AnnouncedBy(q, n, c)
    <3>1. CASE c <= a
      BY <1>1, <1>2, <2>1, <3>1
    <3>2. CASE c \in (a + 1)..q[n].cursor
      BY <1>4, <3>2 DEF Reads, Told
    <3> QED
      BY <1>2, <2>1, <3>1, <3>2
  <2> QED
    BY <2>2 DEF ToldOrAnnounced
<1> QED
  BY <1>3, <1>4 DEF Complete

\* What was read is newer than everything the page has handled.
LEMMA OnceAfterRead ==
  ASSUME NEW lg, IsLog(lg), NEW q \in Seq(Frames), NEW h \in Seq(Cursors), NEW l \in Int,
         NEW a \in 0..Cursor(lg), Reads(lg, a, q), l <= a, Once(h, l, <<>>)
  PROVE  Once(h, l, q)
<1>1. \A m \in 1..Len(h) : h[m] \in Int /\ h[m] <= a
  <2>1. \A m \in 1..Len(h) : h[m] \in Cursors
    BY ElementOfSeq
  <2>2. \A m \in 1..Len(h) : h[m] \in Int /\ h[m] <= l
    BY <2>1, SubscriptionAssumption DEF Cursors, Once
  <2> QED
    BY <2>2
<1>2. \A n \in 1..Len(q) : q[n].cursor \in Int
  BY BatchCursors
<1>3. \A n \in 1..Len(q) : Acknowledges(q[n]) =>
        a <= q[n].cursor /\ (q[n].type = "event" => a < q[n].cursor)
  BY DEF Reads
<1>4. \A m \in 1..Len(h) : \A n \in 1..Len(q) : Acknowledges(q[n]) =>
        h[m] <= q[n].cursor /\ (q[n].type = "event" => h[m] < q[n].cursor)
  BY <1>1, <1>2, <1>3
<1> QED
  BY <1>4 DEF Once

\* Every later state is shown by what was read.
LEMMA UpToDateAfterRead ==
  ASSUME NEW lg, IsLog(lg), NEW q \in Seq(Frames), NEW l, NEW lt,
         NEW a \in 0..Cursor(lg), Reads(lg, a, q), UpToDate(lg, l, lt, a, <<>>)
  PROVE  UpToDate(lg, l, lt, Cursor(lg), q)
<1>1. Cursor(lg) \in Nat
  BY LenProperties DEF IsLog, Cursor
<1>2. \A c \in 1..Cursor(lg) : lg.kinds[c] = "state" => (c <= l => c <= lt) /\ (c <= a => c <= lt)
  BY DEF UpToDate, ShownBy
<1>3. ASSUME NEW c \in 1..Cursor(lg), lg.kinds[c] = "state"
      PROVE  /\ c <= lt \/ ShownBy(q, Len(q), c)
             /\ \A n \in 1..Len(q) : Acknowledges(q[n]) /\ c <= q[n].cursor =>
                  c <= lt \/ ShownBy(q, n, c)
  <2>1. CASE c <= a
    BY <1>2, <1>3, <2>1
  <2>2. CASE a + 1 <= c
    <3>1. c \in (a + 1)..Cursor(lg)
      BY <1>1, <2>2
    <3>2. \A n \in 1..Len(q) : q[n].cursor \in Int
      BY BatchCursors
    <3>3. \A n \in 1..Len(q) : c <= q[n].cursor => c \in (a + 1)..q[n].cursor
      BY <1>1, <2>2, <3>2
    <3> QED
      BY <1>3, <3>1, <3>3 DEF Reads
  <2> QED
    BY <1>1, <2>1, <2>2
<1> QED
  BY <1>2, <1>3 DEF UpToDate

-----------------------------------------------------------------------------
(* The parts of the invariant when a frame is delivered *)

\* The first frame of a batch and the rest of it.
LEMMA HeadAndTail ==
  ASSUME NEW q \in Seq(Frames), q # <<>>
  PROVE  /\ Head(q) = q[1] /\ Head(q) \in Frames /\ Tail(q) \in Seq(Frames)
         /\ Len(q) = Len(Tail(q)) + 1 /\ Len(Tail(q)) \in Nat
         /\ \A n \in 1..Len(Tail(q)) : Tail(q)[n] = q[n + 1] /\ n + 1 \in 1..Len(q)
         /\ \A n \in 1..Len(q) : n = 1 \/ (n - 1 \in 1..Len(Tail(q)) /\ Tail(q)[n - 1] = q[n])
<1> DEFINE r == Tail(q)
<1>1. /\ r \in Seq(Frames) /\ Head(q) = q[1] /\ q[1] \in Frames
      /\ Len(q) = Len(r) + 1 /\ Len(r) \in Nat
      /\ \A n \in 1..Len(r) : r[n] = q[n + 1]
  BY HeadTailProperties
<1> HIDE DEF r
<1>2. \A n \in 1..Len(r) : n + 1 \in 1..Len(q)
  BY <1>1
<1>3. \A n \in 1..Len(q) : n = 1 \/ (n - 1 \in 1..Len(r) /\ r[n - 1] = q[n])
  BY <1>1
<1> QED
  BY <1>1, <1>2, <1>3 DEF r

\* What the first frames of a batch say, the first of them or those after it say.
LEMMA SaidByHeadOrTail ==
  ASSUME NEW q \in Seq(Frames), q # <<>>, NEW n \in 0..Len(Tail(q)), NEW c
  PROVE  /\ AnnouncedBy(q, n + 1, c) => Announces(Head(q), c) \/ AnnouncedBy(Tail(q), n, c)
         /\ ShownBy(q, n + 1, c) => Shows(Head(q), c) \/ ShownBy(Tail(q), n, c)
<1> DEFINE r == Tail(q)
           f == Head(q)
<1>1. /\ f = q[1] /\ Len(q) = Len(r) + 1 /\ Len(r) \in Nat
      /\ \A m \in 1..Len(q) : m = 1 \/ (m - 1 \in 1..Len(r) /\ r[m - 1] = q[m])
  BY HeadAndTail
<1> HIDE DEF r, f
<1>2. n \in 0..Len(r) /\ n \in Nat
  BY <1>1 DEF r
<1>3. \A m \in 1..(n + 1) : m = 1 \/ (m - 1 \in 1..n /\ r[m - 1] = q[m])
  <2>1. \A m \in 1..(n + 1) : m \in 1..Len(q)
    BY <1>1, <1>2
  <2> QED
    BY <1>1, <1>2, <2>1
<1>4. AnnouncedBy(q, n + 1, c) => Announces(f, c) \/ AnnouncedBy(r, n, c)
  BY <1>1, <1>3 DEF AnnouncedBy
<1>5. ShownBy(q, n + 1, c) => Shows(f, c) \/ ShownBy(r, n, c)
  BY <1>1, <1>3 DEF ShownBy
<1> QED
  BY <1>4, <1>5 DEF f, r

\* The rest of a batch is in order, and no marker is left.
LEMMA OrderedAfterDelivery ==
  ASSUME NEW q \in Seq(Frames), q # <<>>, NEW a, NEW cov, NEW new, Ordered(q, a, cov)
  PROVE  /\ Ordered(Tail(q), a, new)
         /\ Head(q).cursor <= a
         /\ Head(q).type = "resync" => cov <= Head(q).cursor
         /\ Head(q).type = "connected" => Tail(q) = <<>>
         /\ \A n \in 1..Len(Tail(q)) :
              /\ Head(q).cursor <= Tail(q)[n].cursor
              /\ Tail(q)[n].type = "event" => Head(q).cursor < Tail(q)[n].cursor
<1> DEFINE r == Tail(q)
           f == Head(q)
<1>1. /\ f = q[1] /\ Len(q) = Len(r) + 1 /\ Len(r) \in Nat /\ r \in Seq(Frames)
      /\ \A n \in 1..Len(r) : r[n] = q[n + 1] /\ n + 1 \in 1..Len(q)
  BY HeadAndTail
<1> HIDE DEF r, f
<1>2. 1 \in 1..Len(q)
  BY <1>1
<1>3. /\ f.cursor <= a /\ (f.type = "resync" => cov <= f.cursor)
      /\ (f.type = "connected" => Len(q) = 1)
  BY <1>1, <1>2 DEF Ordered
<1>4. f.type = "connected" => r = <<>>
  BY <1>1, <1>3, EmptySeq
<1>5. ASSUME NEW n \in 1..Len(r)
      PROVE  /\ r[n].cursor <= a /\ r[n].type # "resync"
             /\ r[n].type = "connected" => n = Len(r)
             /\ f.cursor <= r[n].cursor
             /\ r[n].type = "event" => f.cursor < r[n].cursor
             /\ \A m \in 1..(n - 1) :
                  /\ r[m].cursor <= r[n].cursor
                  /\ r[n].type = "event" => r[m].cursor < r[n].cursor
  <2>1. /\ q[n + 1].cursor <= a
        /\ q[n + 1].type = "resync" => n + 1 = 1
        /\ q[n + 1].type = "connected" => n + 1 = Len(q)
        /\ \A m \in 1..n :
             /\ q[m].cursor <= q[n + 1].cursor
             /\ q[n + 1].type = "event" => q[m].cursor < q[n + 1].cursor
    <3>1. n + 1 \in 1..Len(q) /\ (n + 1) - 1 = n
      BY <1>1
    <3> QED
      BY <3>1 DEF Ordered
  <2>2. 1 \in 1..n /\ \A m \in 1..(n - 1) : m + 1 \in 1..n /\ r[m] = q[m + 1]
    BY <1>1
  <2>3. r[n] = q[n + 1] /\ f = q[1] /\ n + 1 # 1 /\ (n + 1 = Len(q) => n = Len(r))
    BY <1>1
  <2>4. /\ r[n].cursor <= a /\ r[n].type # "resync"
        /\ r[n].type = "connected" => n = Len(r)
    BY <2>1, <2>3
  <2>5. f.cursor <= r[n].cursor /\ (r[n].type = "event" => f.cursor < r[n].cursor)
    BY <2>1, <2>2, <2>3
  <2>6. ASSUME NEW m \in 1..(n - 1)
        PROVE  r[m].cursor <= r[n].cursor /\ (r[n].type = "event" => r[m].cursor < r[n].cursor)
    <3>1. m + 1 \in 1..n /\ r[m] = q[m + 1]
      BY <2>2, <2>6
    <3> QED
      BY <2>1, <2>3, <3>1
  <2> QED
    BY <2>4, <2>5, <2>6
<1>6. Ordered(r, a, new)
  BY <1>5 DEF Ordered
<1> QED
  BY <1>3, <1>4, <1>5, <1>6 DEF r, f

\* The page is told of what the first frame announces.
LEMMA CompleteAfterDelivery ==
  ASSUME NEW lg, NEW q \in Seq(Frames), q # <<>>, NEW b \in Nat, NEW a, NEW h, NEW cov,
         NEW h2, NEW cov2, Complete(lg, b, a, q, h, cov),
         \A c \in Int : Told(lg, h, cov, c) \/ Announces(Head(q), c) => Told(lg, h2, cov2, c)
  PROVE  /\ Complete(lg, b, a, Tail(q), h2, cov2)
         /\ Acknowledges(Head(q)) =>
              ToldOrAnnounced(lg, h2, cov2, <<>>, 0, b, Head(q).cursor)
<1> DEFINE r == Tail(q)
           f == Head(q)
<1>1. /\ f = q[1] /\ Len(q) = Len(r) + 1 /\ Len(r) \in Nat
      /\ \A n \in 1..Len(r) : r[n] = q[n + 1] /\ n + 1 \in 1..Len(q)
  BY HeadAndTail
<1>2. \A n \in 0..Len(r) : \A c : AnnouncedBy(q, n + 1, c) => Announces(f, c) \/ AnnouncedBy(r, n, c)
  BY SaidByHeadOrTail
<1> HIDE DEF r, f
<1>3. ASSUME NEW n \in 0..Len(r), NEW to, ToldOrAnnounced(lg, h, cov, q, n + 1, b, to)
      PROVE  ToldOrAnnounced(lg, h2, cov2, r, n, b, to)
  BY <1>2, <1>3 DEF ToldOrAnnounced, f
<1>4. ToldOrAnnounced(lg, h2, cov2, r, Len(r), b, a)
  <2>1. Len(r) \in 0..Len(r) /\ ToldOrAnnounced(lg, h, cov, q, Len(r) + 1, b, a)
    BY <1>1 DEF Complete
  <2> QED
    BY <1>3, <2>1
<1>5. ASSUME NEW n \in 1..Len(r), Acknowledges(r[n])
      PROVE  ToldOrAnnounced(lg, h2, cov2, r, n, b, r[n].cursor)
  <2>1. n \in 0..Len(r) /\ n + 1 \in 1..Len(q) /\ r[n] = q[n + 1] /\ Acknowledges(q[n + 1])
    BY <1>1, <1>5
  <2>2. ToldOrAnnounced(lg, h, cov, q, n + 1, b, r[n].cursor)
    BY <2>1 DEF Complete
  <2> QED
    BY <1>3, <2>1, <2>2
<1>6. Acknowledges(f) => ToldOrAnnounced(lg, h2, cov2, <<>>, 0, b, f.cursor)
  <2> SUFFICES ASSUME Acknowledges(f)
               PROVE  ToldOrAnnounced(lg, h2, cov2, <<>>, 0, b, f.cursor)
    OBVIOUS
  <2>1. 1 \in 1..Len(q) /\ Acknowledges(q[1]) /\ 0 \in 0..Len(r)
    BY <1>1
  <2>2. ToldOrAnnounced(lg, h, cov, q, 0 + 1, b, f.cursor)
    BY <1>1, <2>1 DEF Complete
  <2>3. ToldOrAnnounced(lg, h2, cov2, r, 0, b, f.cursor)
    BY <1>3, <2>1, <2>2
  <2> QED
    BY <2>3 DEF ToldOrAnnounced, AnnouncedBy
<1> QED
  BY <1>4, <1>5, <1>6 DEF Complete, r, f

\* What is left in the batch is newer than what the handlers saw.
LEMMA OnceAfterDelivery ==
  ASSUME NEW q \in Seq(Frames), q # <<>>, NEW h \in Seq(Cursors), NEW l \in Int,
         NEW a, NEW cov, Ordered(q, a, cov), Once(h, l, q)
  PROVE  /\ Once(h, l, Tail(q))
         /\ Head(q).type = "state" => Once(h, Head(q).cursor, Tail(q))
         /\ Head(q).type = "event" => Once(Append(h, Head(q).cursor), Head(q).cursor, Tail(q))
<1> DEFINE r == Tail(q)
           f == Head(q)
           g == Append(h, f.cursor)
<1>1. /\ f = q[1] /\ f \in Frames /\ Len(q) = Len(r) + 1 /\ Len(r) \in Nat /\ r \in Seq(Frames)
      /\ \A n \in 1..Len(r) : r[n] = q[n + 1] /\ n + 1 \in 1..Len(q)
      /\ 1 \in 1..Len(q)
  BY HeadAndTail
<1>2. \A n \in 1..Len(r) :
        f.cursor <= r[n].cursor /\ (r[n].type = "event" => f.cursor < r[n].cursor)
  BY OrderedAfterDelivery
<1>3. f.cursor \in Cursors /\ f.cursor \in Nat
  BY <1>1, SubscriptionAssumption DEF Frames, Cursors
<1>4. /\ Len(g) = Len(h) + 1 /\ Len(h) \in Nat
      /\ \A m \in 1..Len(h) : g[m] = h[m]
      /\ g[Len(h) + 1] = f.cursor
  BY <1>3, AppendProperties, LenProperties
<1>5. \A m \in 1..Len(h) : h[m] \in Nat
  <2>1. \A m \in 1..Len(h) : h[m] \in Cursors
    BY ElementOfSeq
  <2> QED
    BY <2>1, SubscriptionAssumption DEF Cursors
<1> HIDE DEF r, f, g
<1>6. Once(h, l, r)
  BY <1>1 DEF Once
<1>7. \A m \in 1..Len(h) : Acknowledges(f) =>
        h[m] <= f.cursor /\ (f.type = "event" => h[m] < f.cursor)
  BY <1>1 DEF Once
<1>8. f.type = "state" => Once(h, f.cursor, r)
  BY <1>6, <1>7 DEF Once, Acknowledges, Kinds
<1>9. f.type = "event" => Once(g, f.cursor, r)
  <2> SUFFICES ASSUME f.type = "event" PROVE Once(g, f.cursor, r)
    OBVIOUS
  <2>1. \A m \in 1..Len(h) : h[m] < f.cursor
    <3>1. Acknowledges(f)
      BY DEF Acknowledges, Kinds
    <3> QED
      BY <1>7, <3>1
  <2>2. \A m \in 1..Len(g) : m \in 1..Len(h) \/ m = Len(h) + 1
    BY <1>4
  <2>3. \A m, n \in 1..Len(g) : m < n => g[m] < g[n]
    <3>1. \A m, n \in 1..Len(g) : m < n => m \in 1..Len(h)
      BY <1>4
    <3>2. \A m, n \in 1..Len(h) : m < n => h[m] < h[n]
      BY <1>6 DEF Once
    <3>3. ASSUME NEW m \in 1..Len(g), NEW n \in 1..Len(g), m < n
          PROVE  g[m] < g[n]
      <4>1. m \in 1..Len(h) /\ g[m] = h[m]
        BY <1>4, <3>1, <3>3
      <4>2. CASE n \in 1..Len(h)
        BY <1>4, <3>2, <3>3, <4>1, <4>2
      <4>3. CASE n = Len(h) + 1
        BY <1>4, <2>1, <4>1, <4>3
      <4> QED
        BY <2>2, <4>2, <4>3
    <3> QED
      BY <3>3
  <2>4. ASSUME NEW m \in 1..Len(g)
        PROVE  g[m] <= f.cursor /\ g[m] \in Nat
    <3>1. CASE m \in 1..Len(h)
      <4>1. g[m] = h[m] /\ h[m] \in Nat /\ h[m] < f.cursor /\ f.cursor \in Nat
        BY <1>3, <1>4, <1>5, <2>1, <3>1
      <4> QED
        BY <4>1
    <3>2. CASE m = Len(h) + 1
      BY <1>3, <1>4, <3>2
    <3> QED
      BY <2>2, <3>1, <3>2
  <2>5. \A n \in 1..Len(r) : r[n].cursor \in Nat
    BY <1>1, BatchCursors
  <2>6. \A m \in 1..Len(g) : \A n \in 1..Len(r) :
          g[m] <= r[n].cursor /\ (r[n].type = "event" => g[m] < r[n].cursor)
    BY <1>2, <1>3, <2>4, <2>5
  <2> QED
    BY <2>3, <2>4, <2>6 DEF Once
<1> QED
  BY <1>6, <1>8, <1>9 DEF r, f, g

\* The page shows what the first frame shows before it acknowledges more.
LEMMA UpToDateAfterDelivery ==
  ASSUME NEW lg, IsLog(lg), NEW q \in Seq(Frames), q # <<>>, NEW a, NEW l, NEW lt \in Int,
         NEW lt2 \in Int, lt <= lt2, UpToDate(lg, l, lt, a, q),
         Head(q).type = "state" => Head(q).cursor <= lt2
  PROVE  /\ UpToDate(lg, l, lt2, a, Tail(q))
         /\ Acknowledges(Head(q)) => UpToDate(lg, Head(q).cursor, lt2, a, Tail(q))
<1> DEFINE r == Tail(q)
           f == Head(q)
<1>1. /\ f = q[1] /\ Len(q) = Len(r) + 1 /\ Len(r) \in Nat /\ f \in Frames
      /\ \A n \in 1..Len(r) : r[n] = q[n + 1] /\ n + 1 \in 1..Len(q)
  BY HeadAndTail
<1>2. \A n \in 0..Len(r) : \A c : ShownBy(q, n + 1, c) => Shows(f, c) \/ ShownBy(r, n, c)
  BY SaidByHeadOrTail
<1>3. f.cursor \in Nat /\ Cursor(lg) \in Nat
  BY <1>1, LenProperties, SubscriptionAssumption DEF Frames, Cursors, IsLog, Cursor
<1> HIDE DEF r
<1>4. \A c \in 1..Cursor(lg) : c \in Nat /\ (c <= lt \/ Shows(f, c) => c <= lt2)
  BY <1>3 DEF Shows
<1> HIDE DEF f
<1>5. ASSUME NEW n \in 0..Len(r), NEW c \in 1..Cursor(lg), c <= lt \/ ShownBy(q, n + 1, c)
      PROVE  c <= lt2 \/ ShownBy(r, n, c)
  BY <1>2, <1>4, <1>5
<1>6. ASSUME NEW c \in 1..Cursor(lg), lg.kinds[c] = "state"
      PROVE  /\ c <= l => c <= lt2
             /\ c <= a => c <= lt2 \/ ShownBy(r, Len(r), c)
             /\ \A n \in 1..Len(r) : Acknowledges(r[n]) /\ c <= r[n].cursor =>
                  c <= lt2 \/ ShownBy(r, n, c)
             /\ Acknowledges(f) /\ c <= f.cursor => c <= lt2
  <2>1. c <= l => c <= lt2
    BY <1>4, <1>6 DEF UpToDate
  <2>2. c <= a => c <= lt2 \/ ShownBy(r, Len(r), c)
    <3>1. Len(r) \in 0..Len(r) /\ (c <= a => c <= lt \/ ShownBy(q, Len(r) + 1, c))
      BY <1>1, <1>6 DEF UpToDate
    <3> QED
      BY <1>5, <3>1
  <2>3. ASSUME NEW n \in 1..Len(r), Acknowledges(r[n]), c <= r[n].cursor
        PROVE  c <= lt2 \/ ShownBy(r, n, c)
    <3>1. n \in 0..Len(r) /\ n + 1 \in 1..Len(q) /\ r[n] = q[n + 1]
      BY <1>1
    <3>2. Acknowledges(q[n + 1]) /\ c <= q[n + 1].cursor
      BY <2>3, <3>1
    <3>3. c <= lt \/ ShownBy(q, n + 1, c)
      BY <1>6, <3>1, <3>2 DEF UpToDate
    <3> QED
      BY <1>5, <3>1, <3>3
  <2>4. Acknowledges(f) /\ c <= f.cursor => c <= lt2
    <3> SUFFICES ASSUME Acknowledges(f), c <= f.cursor PROVE c <= lt2
      OBVIOUS
    <3>1. 1 \in 1..Len(q) /\ 0 \in 0..Len(r) /\ Acknowledges(q[1]) /\ c <= q[1].cursor
      BY <1>1
    <3>2. c <= lt \/ ShownBy(q, 0 + 1, c)
      BY <1>6, <3>1 DEF UpToDate
    <3>3. c <= lt2 \/ ShownBy(r, 0, c)
      BY <1>5, <3>1, <3>2
    <3> QED
      BY <3>3 DEF ShownBy
  <2> QED
    BY <2>1, <2>2, <2>3, <2>4
<1> QED
  BY <1>6 DEF UpToDate, r, f

-----------------------------------------------------------------------------
(* Pages an action does not read for *)

ClientTypeOK(i) ==
  /\ phase[i] \in Phases /\ conn[i] \in 0..MaxConns
  /\ after[i] \in Cursors /\ pending[i] \in Seq(Frames) /\ authorized[i] \in BOOLEAN
  /\ lastId[i] \in Cursors \union {NoCursor} /\ latest[i] \in Cursors \union {NoCursor}
  /\ shown[i] \in Cursors /\ replies[i] \in SUBSET Cursors
  /\ revokedAt[i] \in Cursors \union {NoCursor}
  /\ handled[i] \in Seq(Cursors) /\ covered[i] \in Cursors /\ base[i] \in Cursors

\* The types of one page.
LEMMA ClientTypes ==
  ASSUME TypeOK, NEW i \in Clients
  PROVE  /\ ClientTypeOK(i) /\ IsLog(log) /\ Cursor(log) \in Nat
         /\ conn[i] \in Nat /\ after[i] \in Nat /\ covered[i] \in Nat /\ base[i] \in Nat
         /\ lastId[i] \in Int /\ latest[i] \in Int /\ revokedAt[i] \in Int
<1>1. ClientTypeOK(i) /\ IsLog(log)
  BY DEF TypeOK, ClientTypeOK, IsLog, Kinds
<1>2. Cursor(log) \in Nat
  BY <1>1, LenProperties DEF IsLog, Cursor
<1>3. /\ conn[i] \in Nat /\ after[i] \in Nat /\ covered[i] \in Nat /\ base[i] \in Nat
      /\ lastId[i] \in Int /\ latest[i] \in Int /\ revokedAt[i] \in Int
  BY <1>1, SubscriptionAssumption DEF ClientTypeOK, Cursors, NoCursor
<1> QED
  BY <1>1, <1>2, <1>3

SamePage(i) ==
  /\ lastId'[i] = lastId[i] /\ latest'[i] = latest[i] /\ shown'[i] = shown[i]
  /\ revokedAt'[i] = revokedAt[i] /\ handled'[i] = handled[i] /\ covered'[i] = covered[i]
  /\ base'[i] = base[i] /\ phase'[i] = phase[i] /\ conn'[i] = conn[i]

SameBatch(i) ==
  after'[i] = after[i] /\ pending'[i] = pending[i] /\ authorized'[i] = authorized[i]

NoNewPoll(i) == \A n \in Nat : <<i, n>> \in waiters' => <<i, n>> \in waiters

\* The log grows, polls of the page may end, and replies to it are of its events.
LEMMA Bystander ==
  ASSUME TypeOK, NEW i \in Clients, ClientInv(i), Grows(log, log'),
         SamePage(i), SameBatch(i), NoNewPoll(i),
         \A c \in replies'[i] : c <= Cursor(log')
  PROVE  ClientInv(i)'
<1> USE DEF SamePage, SameBatch
<1>1. ClientTypeOK(i) /\ IsLog(log) /\ Cursor(log) \in Nat /\ conn[i] \in Nat
  BY ClientTypes
<1>2. IsLog(log') /\ Cursor(log') \in Nat /\ Cursor(log) <= Cursor(log')
  <2>1. IsLog(log') /\ Cursor(log) <= Cursor(log')
    BY DEF Grows
  <2> QED
    BY <2>1, LenProperties DEF IsLog, Cursor
<1>4. /\ after[i] \in Nat /\ lastId[i] \in Int /\ latest[i] \in Int /\ covered[i] \in Nat
      /\ revokedAt[i] \in Int /\ base[i] \in Nat /\ pending[i] \in Seq(Frames)
  BY <1>1, ClientTypes DEF ClientTypeOK
<1>5. /\ after[i] <= Cursor(log) /\ lastId[i] <= Cursor(log) /\ latest[i] <= Cursor(log)
      /\ covered[i] <= Cursor(log) /\ revokedAt[i] <= Cursor(log)
      /\ Active(i) => lastId[i] <= after[i]
  BY DEF ClientInv, Bounds
<1>6. Places(i)'
  <2>1. Places(i)
    BY DEF ClientInv
  <2>2. <<i, conn[i]>> \in waiters' => <<i, conn[i]>> \in waiters
    BY <1>1 DEF NoNewPoll
  <2>3. 1..MaxConns \subseteq Nat
    BY SubscriptionAssumption
  <2> QED
    BY <2>1, <2>2, <2>3 DEF Places, NoNewPoll
<1>7. Bounds(i)'
  BY <1>1, <1>2, <1>4, <1>5 DEF Bounds, Active
<1>8. Ordered(pending[i], after[i], covered[i])
  BY DEF ClientInv
<1>9. ToldOrAnnounced(log', handled[i], covered[i], <<>>, 0, base[i], lastId[i])
  BY <1>4, <1>5, ToldStable DEF ClientInv
<1>10. Active(i) => Complete(log', base[i], after[i], pending[i], handled[i], covered[i])
  BY <1>4, <1>5, <1>8, CompleteStable DEF ClientInv
<1>11. Fresh(log', phase[i], lastId[i], latest[i], after[i], pending[i])
  <2>1. UpToDate(log, lastId[i], latest[i], after[i], pending[i])
          => UpToDate(log', lastId[i], latest[i], after[i], pending[i])
    BY <1>4, <1>5, <1>8, UpToDateStable
  <2> QED
    BY <2>1 DEF ClientInv, Fresh
<1>12. Showing(log', latest[i], shown[i])
  BY <1>4, <1>5, StateAtStable DEF ClientInv, Showing
<1>13. Once(handled[i], lastId[i], pending[i]) /\ Barred(revokedAt[i], lastId[i], authorized[i], pending[i])
  BY DEF ClientInv
<1> QED
  BY <1>6, <1>7, <1>8, <1>9, <1>10, <1>11, <1>12, <1>13 DEF ClientInv, Active

\* The log has what it had.
LEMMA SameLogGrows ==
  ASSUME IsLog(log)
  PROVE  Grows(log, log)
<1>1. Cursor(log) \in Nat
  BY LenProperties DEF IsLog, Cursor
<1> QED
  BY <1>1 DEF Grows

\* A poll of the page is answered: by a new event, at once, or when its wait ends.
LEMMA Answered ==
  ASSUME TypeOK, NEW i \in Clients, ClientInv(i), Grows(log, log'),
         phase[i] = "live", pending[i] = <<>>,
         SamePage(i), pending'[i] = PollBatch(log', after[i]), after'[i] = Cursor(log'),
         authorized'[i] = FALSE,
         NoNewPoll(i), <<i, conn[i]>> \notin waiters',
         \A c \in replies'[i] : c <= Cursor(log')
  PROVE  ClientInv(i)'
<1> USE DEF SamePage
<1>1. /\ ClientTypeOK(i) /\ IsLog(log) /\ Cursor(log) \in Nat /\ conn[i] \in Nat
      /\ after[i] \in Nat /\ lastId[i] \in Int /\ latest[i] \in Int /\ covered[i] \in Nat
      /\ revokedAt[i] \in Int /\ base[i] \in Nat /\ handled[i] \in Seq(Cursors)
  BY ClientTypes DEF ClientTypeOK
<1>2. IsLog(log') /\ Cursor(log') \in Nat /\ Cursor(log) <= Cursor(log')
  <2>1. IsLog(log') /\ Cursor(log) <= Cursor(log')
    BY DEF Grows
  <2> QED
    BY <2>1, LenProperties DEF IsLog, Cursor
<1>3. /\ after[i] <= Cursor(log) /\ lastId[i] <= Cursor(log) /\ latest[i] <= Cursor(log)
      /\ covered[i] <= Cursor(log) /\ revokedAt[i] <= Cursor(log)
      /\ lastId[i] <= after[i]
  BY DEF ClientInv, Bounds, Active
<1>4. /\ after[i] \in 0..Cursor(log') /\ covered[i] <= Cursor(log') /\ lastId[i] <= Cursor(log')
      /\ latest[i] <= Cursor(log') /\ revokedAt[i] <= Cursor(log')
  BY <1>1, <1>2, <1>3
<1> DEFINE q == PollBatch(log', after[i])
<1>5. /\ q \in Seq(Frames) /\ Ordered(q, Cursor(log'), covered[i])
      /\ Reads(log', after[i], q) /\ ~HasConnected(q)
  BY <1>1, <1>2, <1>4, PollReads
<1> HIDE DEF q
<1>6. pending'[i] = q
  BY DEF q
<1>7. Places(i)'
  <2>1. Places(i)
    BY DEF ClientInv
  <2>2. 1..MaxConns \subseteq Nat
    BY SubscriptionAssumption
  <2> QED
    BY <2>1, <2>2 DEF Places, NoNewPoll
<1>8. Bounds(i)'
  BY <1>1, <1>2, <1>4 DEF Bounds, Active
<1>9. ToldOrAnnounced(log', handled[i], covered[i], <<>>, 0, base[i], lastId[i])
  BY <1>1, <1>3, ToldStable DEF ClientInv
<1>10. Complete(log', base[i], Cursor(log'), q, handled[i], covered[i])
  <2>1. ToldOrAnnounced(log, handled[i], covered[i], <<>>, 0, base[i], after[i])
    <3>1. Complete(log, base[i], after[i], <<>>, handled[i], covered[i])
      BY DEF ClientInv, Active
    <3> QED
      BY <3>1, EmptySeq DEF Complete
  <2>2. ToldOrAnnounced(log', handled[i], covered[i], <<>>, 0, base[i], after[i])
    BY <1>1, <1>3, <2>1, ToldStable
  <2> QED
    BY <1>1, <1>2, <1>4, <1>5, <2>2, CompleteAfterRead
<1>11. Once(handled[i], lastId[i], q)
  <2>1. Once(handled[i], lastId[i], <<>>)
    BY DEF ClientInv
  <2> QED
    BY <1>1, <1>2, <1>3, <1>4, <1>5, <2>1, OnceAfterRead
<1>12. Fresh(log', phase[i], lastId[i], latest[i], Cursor(log'), q)
  <2>1. 0 <= latest[i] /\ UpToDate(log, lastId[i], latest[i], after[i], <<>>)
    <3>1. ~HasConnected(<<>>)
      BY EmptySeq DEF HasConnected
    <3> QED
      BY <3>1 DEF ClientInv, Fresh
  <2>2. Ordered(<<>>, after[i], covered[i]) /\ <<>> \in Seq(Frames)
    BY EmptySeq DEF ClientInv
  <2>3. UpToDate(log', lastId[i], latest[i], after[i], <<>>)
    BY <1>1, <1>3, <2>1, <2>2, UpToDateStable
  <2>4. UpToDate(log', lastId[i], latest[i], Cursor(log'), q)
    BY <1>2, <1>4, <1>5, <2>3, UpToDateAfterRead
  <2> QED
    BY <1>5, <2>1, <2>4 DEF Fresh
<1>13. Showing(log', latest[i], shown[i])
  BY <1>1, <1>3, StateAtStable DEF ClientInv, Showing
<1>14. Barred(revokedAt[i], lastId[i], FALSE, q)
  BY DEF ClientInv, Barred
<1> QED
  BY <1>5, <1>6, <1>7, <1>8, <1>9, <1>10, <1>11, <1>12, <1>13, <1>14 DEF ClientInv, Active

-----------------------------------------------------------------------------
(* The coordinator's steps *)

\* Held polls read the new event; the other pages only see the log grow.
LEMMA AppendStep ==
  ASSUME Inv, NEW kind \in Kinds, AppendEvent(kind),
         UNCHANGED <<phase, conn, pageVars, revokedAt, historyVars>>,
         NEW j \in Clients, \A c \in replies'[j] : c <= Cursor(log')
  PROVE  ClientInv(j)'
<1> USE DEF pageVars, historyVars
<1>1. /\ TypeOK /\ ClientInv(j) /\ ClientTypeOK(j) /\ IsLog(log)
  BY ClientTypes DEF Inv
<1>2. Grows(log, log')
  BY <1>1, AppendGrows DEF AppendEvent
<1>3. NoNewPoll(j) /\ <<j, conn[j]>> \notin waiters' /\ SamePage(j)
  BY DEF AppendEvent, NoNewPoll, SamePage
<1> DEFINE got == {i \in {k \in Clients : Held(k)} : PollBatch(log', after[i]) # <<>>}
<1>4. /\ pending'[j] = IF j \in got THEN PollBatch(log', after[j]) ELSE pending[j]
      /\ after'[j] = IF j \in got THEN Cursor(log') ELSE after[j]
      /\ authorized'[j] = (authorized[j] /\ j \notin got)
  BY DEF AppendEvent, Answer
<1> HIDE DEF got
<1>5. CASE j \in got
  <2>1. phase[j] = "live" /\ pending[j] = <<>>
    <3>1. Held(j)
      BY <1>5 DEF got
    <3> QED
      BY <1>1, <3>1 DEF Held, ClientInv, Places
  <2>2. authorized'[j] = FALSE
    BY <1>4, <1>5
  <2> QED
    BY <1>1, <1>2, <1>3, <1>4, <1>5, <2>1, <2>2, Answered
<1>6. CASE j \notin got
  <2>1. authorized'[j] = authorized[j]
    BY <1>1, <1>4, <1>6 DEF ClientTypeOK
  <2>2. SameBatch(j)
    BY <1>4, <1>6, <2>1 DEF SameBatch
  <2> QED
    BY <1>1, <1>2, <1>3, <2>2, Bystander
<1> QED
  BY <1>5, <1>6

\* A reply carries a cursor of the log it was published to.
LEMMA PublishStep ==
  ASSUME Inv, NEW i \in Clients, Publish(i), NEW j \in Clients
  PROVE  ClientInv(j)'
<1>1. TypeOK /\ ClientInv(j) /\ ClientTypeOK(j) /\ IsLog(log) /\ Cursor(log) \in Nat
  BY ClientTypes DEF Inv
<1>2. Cursor(log') = Cursor(log) + 1
  BY <1>1, AppendGrows DEF Publish, AppendEvent, Kinds
<1>3. \A c \in replies'[j] : c <= Cursor(log')
  <2>1. \A c \in replies'[j] : c \in replies[j] \/ c = Cursor(log')
    <3>1. replies \in [Clients -> SUBSET Cursors]
      BY <1>1 DEF TypeOK
    <3> QED
      BY <3>1 DEF Publish
  <2>2. \A c \in replies[j] : c \in Int /\ c <= Cursor(log)
    BY <1>1, SubscriptionAssumption DEF ClientInv, Bounds, ClientTypeOK, Cursors
  <2> QED
    BY <1>1, <1>2, <2>1, <2>2
<1> QED
  BY <1>3, AppendStep DEF Publish, Kinds

LEMMA BroadcastStep ==
  ASSUME Inv, Broadcast, NEW j \in Clients
  PROVE  ClientInv(j)'
<1>1. TypeOK /\ ClientInv(j) /\ ClientTypeOK(j) /\ IsLog(log) /\ Cursor(log) \in Nat
  BY ClientTypes DEF Inv
<1>2. Cursor(log') = Cursor(log) + 1
  BY <1>1, AppendGrows DEF Broadcast, AppendEvent, Kinds
<1>3. \A c \in replies[j] : c \in Int /\ c <= Cursor(log)
  BY <1>1, SubscriptionAssumption DEF ClientInv, Bounds, ClientTypeOK, Cursors
<1>4. \A c \in replies'[j] : c <= Cursor(log')
  BY <1>1, <1>2, <1>3 DEF Broadcast
<1> QED
  BY <1>4, AppendStep DEF Broadcast, Kinds

\* The page whose poll it was reads; a poll of an earlier connection is only forgotten.
LEMMA WaitEndsStep ==
  ASSUME Inv, NEW w \in waiters, WaitEnds(w), NEW j \in Clients
  PROVE  ClientInv(j)'
<1> USE DEF pageVars, historyVars
<1>1. TypeOK /\ ClientInv(j) /\ ClientTypeOK(j) /\ Grows(log, log) /\ log' = log
  BY ClientTypes, SameLogGrows DEF Inv, WaitEnds
<1>2. NoNewPoll(j) /\ SamePage(j) /\ \A c \in replies'[j] : c <= Cursor(log)
  BY <1>1 DEF WaitEnds, NoNewPoll, SamePage, ClientInv, Bounds
<1> DEFINE got == {i \in {k \in Clients : Held(k) /\ w = <<k, conn[k]>>} : PollBatch(log, after[i]) # <<>>}
<1>3. /\ pending'[j] = IF j \in got THEN PollBatch(log, after[j]) ELSE pending[j]
      /\ after'[j] = IF j \in got THEN Cursor(log) ELSE after[j]
      /\ authorized'[j] = (authorized[j] /\ j \notin got)
  BY DEF WaitEnds, Answer
<1>4. j \in got => Held(j) /\ w = <<j, conn[j]>>
  OBVIOUS
<1> HIDE DEF got
<1>5. CASE j \in got
  <2>1. phase[j] = "live" /\ pending[j] = <<>>
    BY <1>1, <1>4, <1>5 DEF Held, ClientInv, Places
  <2>2. authorized'[j] = FALSE
    BY <1>3, <1>5
  <2>3. <<j, conn[j]>> \notin waiters'
    BY <1>4, <1>5 DEF WaitEnds
  <2> QED
    BY <1>1, <1>2, <1>3, <1>5, <2>1, <2>2, <2>3, Answered
<1>6. CASE j \notin got
  <2>1. authorized'[j] = authorized[j]
    BY <1>1, <1>3, <1>6 DEF ClientTypeOK
  <2>2. SameBatch(j)
    BY <1>3, <1>6, <2>1 DEF SameBatch
  <2> QED
    BY <1>1, <1>2, <2>2, Bystander
<1> QED
  BY <1>5, <1>6

-----------------------------------------------------------------------------
(* The steps of one page *)

\* The step leaves the log and every other page alone.
OnlyPage(i) ==
  /\ log' = log
  /\ \A j \in Clients \ {i} :
       SamePage(j) /\ SameBatch(j) /\ NoNewPoll(j) /\ replies'[j] = replies[j]

LEMMA OtherPages ==
  ASSUME Inv, NEW i \in Clients, OnlyPage(i), NEW j \in Clients, j # i
  PROVE  ClientInv(j)'
<1>1. TypeOK /\ ClientInv(j) /\ Grows(log, log) /\ log' = log
  BY ClientTypes, SameLogGrows DEF Inv, OnlyPage
<1>2. SamePage(j) /\ SameBatch(j) /\ NoNewPoll(j) /\ replies'[j] = replies[j]
  BY DEF OnlyPage
<1>3. \A c \in replies'[j] : c <= Cursor(log')
  BY <1>1, <1>2 DEF ClientInv, Bounds
<1> QED
  BY <1>1, <1>2, <1>3, Bystander

\* An empty batch says nothing.
LEMMA EmptyBatch ==
  /\ <<>> \in Seq(Frames) /\ ~HasConnected(<<>>)
  /\ \A a, cov : Ordered(<<>>, a, cov)
  /\ \A lg, b, a, h, cov :
       Complete(lg, b, a, <<>>, h, cov) <=> ToldOrAnnounced(lg, h, cov, <<>>, 0, b, a)
  /\ \A h, l, q : Once(h, l, q) => Once(h, l, <<>>)
  /\ \A rev, l, au, au2, q : Barred(rev, l, au, q) => Barred(rev, l, au2, <<>>)
<1>1. Len(<<>>) = 0 /\ <<>> \in Seq(Frames)
  BY EmptySeq
<1>2. \A n \in 1..0 : FALSE
  OBVIOUS
<1> QED
  BY <1>1, <1>2 DEF HasConnected, Ordered, Complete, Once, Barred

LEMMA ConnectStep ==
  ASSUME Inv, NEW i \in Clients, Connect(i)
  PROVE  OnlyPage(i) /\ ClientInv(i)'
<1> USE DEF pageVars
<1>1. /\ TypeOK /\ ClientInv(i) /\ ClientTypeOK(i) /\ Cursor(log) \in Nat
      /\ conn[i] \in Nat /\ after[i] \in Nat /\ lastId[i] \in Int /\ base[i] \in Nat
  BY ClientTypes DEF Inv
<1>2. OnlyPage(i)
  BY <1>1 DEF Connect, OnlyPage, SamePage, SameBatch, NoNewPoll, TypeOK
<1>3. /\ phase[i] = "down" /\ pending[i] = <<>> /\ conn'[i] = conn[i] + 1
      /\ pending' = pending /\ authorized' = authorized /\ lastId' = lastId /\ latest' = latest
      /\ shown' = shown /\ replies' = replies /\ revokedAt' = revokedAt /\ handled' = handled
      /\ covered' = covered /\ log' = log /\ waiters' = waiters
  BY <1>1 DEF Connect, ClientInv, Places, TypeOK
<1>4. \A n \in 1..MaxConns : <<i, n>> \in waiters => n <= conn[i]
  BY <1>1 DEF ClientInv, Places
<1>5. <<i, conn'[i]>> \notin waiters
  <2>1. conn[i] + 1 \in 1..MaxConns
    BY <1>1, SubscriptionAssumption DEF Connect
  <2> QED
    BY <1>1, <1>3, <1>4, <2>1
<1>6. Places(i)'
  <2>1. phase'[i] \in {"closed", "subscribing"}
    BY <1>1 DEF Connect, TypeOK
  <2>2. 1..MaxConns \subseteq Int
    OBVIOUS
  <2> QED
    BY <1>1, <1>3, <1>4, <1>5, <2>1, <2>2 DEF Places
<1>7. CASE revokedAt[i] # NoCursor
  <2>1. phase'[i] = "closed" /\ after' = after /\ base' = base
    BY <1>1, <1>7 DEF Connect, TypeOK
  <2>2. Bounds(i)'
    BY <1>1, <1>3, <2>1 DEF ClientInv, Bounds, Active
  <2>3. Fresh(log, "closed", lastId[i], latest[i], after[i], <<>>)
    BY EmptyBatch DEF Fresh
  <2> QED
    BY <1>1, <1>2, <1>3, <1>6, <2>1, <2>2, <2>3 DEF ClientInv, Active
<1>8. CASE revokedAt[i] = NoCursor
  <2> DEFINE from == IF lastId[i] = NoCursor THEN Cursor(log) ELSE lastId[i]
  <2>1. /\ phase'[i] = "subscribing" /\ after'[i] = from
        /\ base'[i] = IF lastId[i] = NoCursor THEN from ELSE base[i]
    BY <1>1, <1>8 DEF Connect, TypeOK
  <2>2. lastId[i] <= from /\ from <= Cursor(log) /\ (lastId[i] # NoCursor => from = lastId[i])
    BY <1>1 DEF ClientInv, Bounds, ClientTypeOK, NoCursor
  <2>3. Bounds(i)'
    BY <1>1, <1>3, <2>1, <2>2 DEF ClientInv, Bounds
  <2>4. Ordered(<<>>, from, covered[i])
    BY EmptyBatch
  <2>5. /\ ToldOrAnnounced(log, handled[i], covered[i], <<>>, 0, base'[i], lastId[i])
        /\ ToldOrAnnounced(log, handled[i], covered[i], <<>>, 0, base'[i], from)
    <3>1. CASE lastId[i] = NoCursor
      <4>1. /\ from = base'[i] /\ from \in Nat /\ lastId[i] = -1
        BY <1>1, <2>1, <3>1 DEF NoCursor
      <4> HIDE DEF from
      <4>2. (base'[i] + 1)..from = {} /\ (base'[i] + 1)..lastId[i] = {}
        BY <4>1
      <4> QED
        BY <4>2 DEF ToldOrAnnounced
    <3>2. CASE lastId[i] # NoCursor
      BY <1>1, <2>1, <2>2, <3>2 DEF ClientInv
    <3> QED
      BY <3>1, <3>2
  <2>6. Complete(log, base'[i], from, <<>>, handled[i], covered[i])
    BY <2>5, EmptyBatch
  <2>7. Fresh(log, "subscribing", lastId[i], latest[i], from, <<>>)
    BY EmptyBatch DEF Fresh
  <2> QED
    BY <1>1, <1>2, <1>3, <1>6, <2>1, <2>3, <2>4, <2>5, <2>6, <2>7 DEF ClientInv
<1> QED
  BY <1>2, <1>7, <1>8

\* The first batch is a reading too, and its last frames are a snapshot and "connected".
LEMMA SubscribeStep ==
  ASSUME Inv, NEW i \in Clients, Subscribe(i)
  PROVE  OnlyPage(i) /\ ClientInv(i)'
<1> USE DEF pageVars, historyVars
<1>1. /\ TypeOK /\ ClientInv(i) /\ ClientTypeOK(i) /\ IsLog(log) /\ Cursor(log) \in Nat
      /\ after[i] \in Nat /\ lastId[i] \in Int /\ covered[i] \in Nat /\ base[i] \in Nat
      /\ handled[i] \in Seq(Cursors)
  BY ClientTypes DEF Inv, ClientTypeOK
<1>2. OnlyPage(i)
  BY <1>1 DEF Subscribe, OnlyPage, SamePage, SameBatch, NoNewPoll, TypeOK
<1> DEFINE q == FirstBatch(log, after[i])
<1>3. /\ phase[i] = "subscribing" /\ pending[i] = <<>>
      /\ phase'[i] = "subscribed" /\ pending'[i] = q /\ after'[i] = Cursor(log)
      /\ authorized'[i] = FALSE
      /\ lastId' = lastId /\ latest' = latest /\ shown' = shown /\ replies' = replies
      /\ revokedAt' = revokedAt /\ handled' = handled /\ covered' = covered /\ base' = base
      /\ log' = log /\ waiters' = waiters /\ conn' = conn
  BY <1>1 DEF Subscribe, ClientInv, Places, TypeOK
<1>4. /\ after[i] \in 0..Cursor(log) /\ covered[i] <= Cursor(log) /\ lastId[i] <= after[i]
      /\ lastId[i] <= Cursor(log)
  BY <1>1, <1>3 DEF ClientInv, Bounds, Active
<1>5. /\ q \in Seq(Frames) /\ Ordered(q, Cursor(log), covered[i])
      /\ Reads(log, after[i], q) /\ HasConnected(q) /\ ShownBy(q, Len(q), Cursor(log))
  BY <1>1, <1>4, FirstReads
<1> HIDE DEF q
<1>6. Places(i)'
  BY <1>1, <1>3 DEF ClientInv, Places
<1>7. Bounds(i)'
  BY <1>1, <1>3, <1>4 DEF ClientInv, Bounds, Active
<1>8. Complete(log, base[i], Cursor(log), q, handled[i], covered[i])
  <2>1. ToldOrAnnounced(log, handled[i], covered[i], <<>>, 0, base[i], after[i])
    BY <1>1, <1>3, EmptyBatch DEF ClientInv, Active
  <2> QED
    BY <1>1, <1>4, <1>5, <2>1, CompleteAfterRead
<1>9. Once(handled[i], lastId[i], q)
  <2>1. Once(handled[i], lastId[i], <<>>)
    BY <1>1, <1>3 DEF ClientInv
  <2> QED
    BY <1>1, <1>4, <1>5, <2>1, OnceAfterRead
<1>10. Fresh(log, "subscribed", lastId[i], latest[i], Cursor(log), q)
  BY <1>5 DEF Fresh
<1>11. Barred(revokedAt[i], lastId[i], FALSE, q)
  BY <1>1 DEF ClientInv, Barred
<1> QED
  BY <1>1, <1>2, <1>3, <1>5, <1>6, <1>7, <1>8, <1>9, <1>10, <1>11 DEF ClientInv

\* The batch stays as it is; the page forgets its snapshot cursor.
LEMMA OpenedStep ==
  ASSUME Inv, NEW i \in Clients, Opened(i)
  PROVE  OnlyPage(i) /\ ClientInv(i)'
<1> USE DEF historyVars
<1>1. /\ TypeOK /\ ClientInv(i) /\ ClientTypeOK(i) /\ Cursor(log) \in Nat
  BY ClientTypes DEF Inv
<1>2. OnlyPage(i)
  BY <1>1 DEF Opened, OnlyPage, SamePage, SameBatch, NoNewPoll, TypeOK
<1>3. /\ phase[i] = "subscribed" /\ phase'[i] = "live" /\ latest'[i] = NoCursor
      /\ pending' = pending /\ after' = after /\ authorized' = authorized
      /\ lastId' = lastId /\ shown' = shown /\ replies' = replies
      /\ revokedAt' = revokedAt /\ handled' = handled /\ covered' = covered /\ base' = base
      /\ log' = log /\ waiters' = waiters /\ conn' = conn
  BY <1>1 DEF Opened, TypeOK
<1>4. Places(i)'
  BY <1>1, <1>3 DEF ClientInv, Places
<1>5. Bounds(i)'
  BY <1>1, <1>3 DEF ClientInv, Bounds, Active, NoCursor
<1>6. Fresh(log, "live", lastId[i], NoCursor, after[i], pending[i])
  BY <1>1, <1>3 DEF ClientInv, Fresh
<1>7. Showing(log, NoCursor, shown[i])
  BY DEF Showing
<1>8. Complete(log, base[i], after[i], pending[i], handled[i], covered[i])
  BY <1>1, <1>3 DEF ClientInv, Active
<1> QED
  BY <1>1, <1>2, <1>3, <1>4, <1>5, <1>6, <1>7, <1>8 DEF ClientInv

\* The drained batch is followed by what came since, or the poll is held.
LEMMA PollStep ==
  ASSUME Inv, NEW i \in Clients, Poll(i)
  PROVE  OnlyPage(i) /\ ClientInv(i)'
<1> USE DEF pageVars, historyVars
<1>1. /\ TypeOK /\ ClientInv(i) /\ ClientTypeOK(i) /\ Grows(log, log) /\ log' = log
      /\ phase[i] = "live" /\ pending[i] = <<>> /\ <<i, conn[i]>> \notin waiters
      /\ \A j \in Clients : SamePage(j) /\ replies'[j] = replies[j] /\ authorized[j] \in BOOLEAN
  BY ClientTypes, SameLogGrows DEF Inv, Poll, Held, SamePage, TypeOK
<1>2. CASE PollBatch(log, after[i]) # <<>>
  <2>1. Answer({i}, log) /\ waiters' = waiters
    BY <1>2 DEF Poll
  <2>2. \A j \in Clients :
          /\ pending'[j] = IF j = i THEN PollBatch(log, after[j]) ELSE pending[j]
          /\ after'[j] = IF j = i THEN Cursor(log) ELSE after[j]
          /\ authorized'[j] = (authorized[j] /\ j # i)
    BY <1>2, <2>1 DEF Answer
  <2>3. authorized'[i] = FALSE /\ \A j \in Clients \ {i} : authorized'[j] = authorized[j]
    BY <1>1, <2>2
  <2>4. OnlyPage(i)
    BY <1>1, <2>1, <2>2, <2>3 DEF OnlyPage, SameBatch, NoNewPoll
  <2>5. NoNewPoll(i) /\ \A c \in replies'[i] : c <= Cursor(log')
    BY <1>1, <2>1 DEF NoNewPoll, ClientInv, Bounds
  <2>6. SamePage(i) /\ pending'[i] = PollBatch(log', after[i]) /\ after'[i] = Cursor(log')
    BY <1>1, <2>2
  <2> QED
    BY <1>1, <2>1, <2>3, <2>4, <2>5, <2>6, Answered
<1>3. CASE PollBatch(log, after[i]) = <<>>
  <2>1. /\ waiters' = waiters \union {<<i, conn[i]>>}
        /\ pending' = pending /\ after' = after /\ authorized' = authorized
        /\ phase' = phase /\ conn' = conn
    BY <1>3 DEF Poll
  <2>2. OnlyPage(i)
    BY <1>1, <2>1 DEF OnlyPage, SameBatch, NoNewPoll
  <2>3. conn[i] \in Int
    BY <1>1, ClientTypes
  <2>4. Places(i)'
    BY <1>1, <2>1, <2>3 DEF ClientInv, Places
  <2>5. Bounds(i)'
    BY <1>1, <2>1 DEF ClientInv, Bounds, Active, SamePage
  <2> QED
    BY <1>1, <2>1, <2>2, <2>4, <2>5 DEF ClientInv, Active, SamePage
<1> QED
  BY <1>2, <1>3

\* The check passes while the page has its access.
LEMMA AuthorizeStep ==
  ASSUME Inv, NEW i \in Clients, Authorize(i)
  PROVE  OnlyPage(i) /\ ClientInv(i)'
<1> USE DEF pageVars, historyVars
<1>1. TypeOK /\ ClientInv(i)
  BY DEF Inv
<1>2. OnlyPage(i)
  BY <1>1 DEF Authorize, OnlyPage, SamePage, SameBatch, NoNewPoll, TypeOK
<1>3. Places(i)' /\ Bounds(i)'
  BY <1>1 DEF Authorize, ClientInv, Places, Bounds, Active
<1>4. Barred(revokedAt'[i], lastId'[i], authorized'[i], pending'[i])
  BY DEF Authorize, Barred
<1> QED
  BY <1>1, <1>2, <1>3, <1>4 DEF Authorize, ClientInv, Active

\* A page that no longer subscribes keeps what it was told.
LEMMA InactivePage ==
  ASSUME Inv, NEW i \in Clients, OnlyPage(i),
         UNCHANGED <<after, lastId, latest, shown, replies, revokedAt, handled, covered, base, conn,
                     waiters, authorized>>,
         Active(i), phase'[i] \in {"down", "closed"}, pending'[i] = <<>>
  PROVE  ClientInv(i)'
<1>1. TypeOK /\ ClientInv(i) /\ log' = log
  BY DEF Inv, OnlyPage
<1>2. Places(i)'
  BY <1>1 DEF ClientInv, Places, Active
<1>3. Bounds(i)'
  BY <1>1 DEF ClientInv, Bounds, Active
<1>4. Ordered(<<>>, after[i], covered[i])
  BY EmptyBatch
<1>5. Once(handled[i], lastId[i], <<>>) /\ Barred(revokedAt[i], lastId[i], authorized[i], <<>>)
  BY <1>1, EmptyBatch DEF ClientInv
<1>6. Fresh(log, phase'[i], lastId[i], latest[i], after[i], <<>>)
  BY EmptyBatch DEF Fresh
<1> QED
  BY <1>1, <1>2, <1>3, <1>4, <1>5, <1>6 DEF ClientInv, Active

LEMMA DenyStep ==
  ASSUME Inv, NEW i \in Clients, Deny(i)
  PROVE  OnlyPage(i) /\ ClientInv(i)'
<1> USE DEF pageVars, historyVars
<1>1. TypeOK
  BY DEF Inv
<1>2. OnlyPage(i)
  BY <1>1 DEF Deny, OnlyPage, SamePage, SameBatch, NoNewPoll, TypeOK
<1>3. Active(i) /\ phase'[i] \in {"down", "closed"} /\ pending'[i] = <<>>
  BY <1>1 DEF Deny, Active, TypeOK
<1> QED
  BY <1>2, <1>3, InactivePage DEF Deny

LEMMA DropStep ==
  ASSUME Inv, NEW i \in Clients, Drop(i)
  PROVE  OnlyPage(i) /\ ClientInv(i)'
<1> USE DEF pageVars, historyVars
<1>1. TypeOK
  BY DEF Inv
<1>2. OnlyPage(i)
  BY <1>1 DEF Drop, OnlyPage, SamePage, SameBatch, NoNewPoll, TypeOK
<1>3. Active(i) /\ phase'[i] \in {"down", "closed"} /\ pending'[i] = <<>>
  BY <1>1 DEF Drop, Active, TypeOK
<1> QED
  BY <1>2, <1>3, InactivePage DEF Drop

\* What was read and acknowledged before the access was lost is older than the loss.
LEMMA RevokeStep ==
  ASSUME Inv, NEW i \in Clients, Revoke(i)
  PROVE  OnlyPage(i) /\ ClientInv(i)'
<1> USE DEF pageVars, historyVars, workerVars
<1>1. /\ TypeOK /\ ClientInv(i) /\ ClientTypeOK(i) /\ Cursor(log) \in Nat /\ after[i] \in Nat
  BY ClientTypes DEF Inv
<1>2. OnlyPage(i)
  BY <1>1 DEF Revoke, OnlyPage, SamePage, SameBatch, NoNewPoll, TypeOK
<1>3. revokedAt'[i] = Cursor(log)
  BY <1>1 DEF Revoke, TypeOK
<1>4. Places(i)' /\ Bounds(i)'
  BY <1>1, <1>3 DEF Revoke, ClientInv, Places, Bounds, Active
<1>5. \A n \in 1..Len(pending[i]) : pending[i][n].cursor <= Cursor(log)
  <2>1. \A n \in 1..Len(pending[i]) : pending[i][n].cursor \in Nat
    BY <1>1, BatchCursors DEF ClientTypeOK
  <2>2. \A n \in 1..Len(pending[i]) : pending[i][n].cursor <= after[i]
    BY <1>1 DEF ClientInv, Ordered
  <2>3. after[i] <= Cursor(log)
    BY <1>1 DEF ClientInv, Bounds
  <2> QED
    BY <1>1, <2>1, <2>2, <2>3
<1>6. Barred(Cursor(log), lastId[i], authorized[i], pending[i])
  BY <1>1, <1>5 DEF ClientInv, Bounds, Barred
<1> QED
  BY <1>1, <1>2, <1>3, <1>4, <1>6 DEF Revoke, ClientInv, Active

\* Being shown a newer snapshot leaves the page up to date.
LEMMA UpToDateWithNewer ==
  ASSUME NEW lg, IsLog(lg), NEW l, NEW a, NEW q, NEW lt \in Int, NEW lt2 \in Int, lt <= lt2,
         UpToDate(lg, l, lt, a, q)
  PROVE  UpToDate(lg, l, lt2, a, q)
<1>1. \A c \in 1..Cursor(lg) : c <= lt => c <= lt2
  OBVIOUS
<1> QED
  BY <1>1 DEF UpToDate

\* A snapshot is applied only if it is newer than the one shown.
LEMMA AppliedState ==
  ASSUME TypeOK, NEW i \in Clients, NEW c \in Cursors, ApplyState(i, c),
         Showing(log, latest[i], shown[i])
  PROVE  /\ latest'[i] = IF c > latest[i] THEN c ELSE latest[i]
         /\ Showing(log, latest'[i], shown'[i])
         /\ \A j \in Clients \ {i} : latest'[j] = latest[j] /\ shown'[j] = shown[j]
<1>1. latest \in [Clients -> Cursors \union {NoCursor}] /\ shown \in [Clients -> Cursors]
  BY DEF TypeOK
<1>2. CASE c > latest[i]
  <2>1. latest' = [latest EXCEPT ![i] = c] /\ shown' = [shown EXCEPT ![i] = StateAt(log, c)]
    BY <1>2 DEF ApplyState
  <2> QED
    BY <1>1, <1>2, <2>1 DEF Showing
<1>3. CASE ~(c > latest[i])
  BY <1>3 DEF ApplyState
<1> QED
  BY <1>2, <1>3

LEMMA ReplyStep ==
  ASSUME Inv, NEW i \in Clients, ReplyArrives(i)
  PROVE  OnlyPage(i) /\ ClientInv(i)'
<1> USE DEF historyVars, workerVars
<1>1. /\ TypeOK /\ ClientInv(i) /\ ClientTypeOK(i) /\ IsLog(log) /\ Cursor(log) \in Nat
      /\ latest[i] \in Int /\ after[i] \in Nat
  BY ClientTypes DEF Inv
<1>2. PICK c \in replies[i] :
        /\ replies' = [replies EXCEPT ![i] = @ \ {c}]
        /\ ApplyState(i, c)
        /\ UNCHANGED <<log, waiters, workerVars, lastId, revokedAt, historyVars>>
  BY DEF ReplyArrives
<1>3. c \in Cursors /\ c \in Int /\ c <= Cursor(log)
  BY <1>1, SubscriptionAssumption DEF ClientInv, Bounds, ClientTypeOK, Cursors
<1>4. /\ latest'[i] = IF c > latest[i] THEN c ELSE latest[i]
      /\ Showing(log, latest'[i], shown'[i])
      /\ \A j \in Clients \ {i} : latest'[j] = latest[j] /\ shown'[j] = shown[j]
  BY <1>1, <1>2, <1>3, AppliedState DEF ClientInv
<1>5. replies'[i] \subseteq replies[i] /\ \A j \in Clients \ {i} : replies'[j] = replies[j]
  BY <1>1, <1>2 DEF TypeOK
<1>6. OnlyPage(i)
  BY <1>2, <1>4, <1>5 DEF OnlyPage, SamePage, SameBatch, NoNewPoll
<1>7. latest'[i] \in Int /\ latest[i] <= latest'[i] /\ latest'[i] <= Cursor(log)
  BY <1>1, <1>3, <1>4 DEF ClientInv, Bounds
<1>8. Places(i)' /\ Bounds(i)'
  BY <1>1, <1>2, <1>5, <1>7 DEF ClientInv, Places, Bounds, Active
<1>9. Fresh(log, phase[i], lastId[i], latest'[i], after[i], pending[i])
  <2>1. Fresh(log, phase[i], lastId[i], latest[i], after[i], pending[i])
    BY <1>1 DEF ClientInv
  <2>2. UpToDate(log, lastId[i], latest[i], after[i], pending[i])
          => UpToDate(log, lastId[i], latest'[i], after[i], pending[i])
    BY <1>1, <1>7, UpToDateWithNewer
  <2>3. (0 <= latest[i] => 0 <= latest'[i]) /\ (after[i] <= latest[i] => after[i] <= latest'[i])
    BY <1>1, <1>7
  <2> QED
    BY <2>1, <2>2, <2>3 DEF Fresh
<1> QED
  BY <1>1, <1>2, <1>4, <1>6, <1>8, <1>9 DEF ClientInv, Active

\* Past the first batch the page is up to date: it has been shown the snapshot.
LEMMA FreshAfterDelivery ==
  ASSUME NEW lg, IsLog(lg), NEW q \in Seq(Frames), q # <<>>, NEW a \in Nat, NEW l \in Int, l <= a,
         NEW lt \in Int, NEW lt2 \in Int, lt <= lt2, NEW cov,
         Head(q).type = "state" => Head(q).cursor <= lt2,
         Ordered(q, a, cov), Fresh(lg, "live", l, lt, a, q)
  PROVE  /\ ~Acknowledges(Head(q)) => Fresh(lg, "live", l, lt2, a, Tail(q))
         /\ Acknowledges(Head(q)) => Fresh(lg, "live", Head(q).cursor, lt2, a, Tail(q))
<1> DEFINE r == Tail(q)
           f == Head(q)
<1>1. /\ f = q[1] /\ Len(q) = Len(r) + 1 /\ Len(r) \in Nat /\ f \in Frames /\ f.cursor \in Nat
      /\ 1 \in 1..Len(q)
      /\ \A n \in 1..Len(r) : r[n] = q[n + 1] /\ n + 1 \in 1..Len(q)
      /\ \A n \in 1..Len(q) : n = 1 \/ (n - 1 \in 1..Len(r) /\ r[n - 1] = q[n])
  <2>1. /\ f = q[1] /\ Len(q) = Len(r) + 1 /\ Len(r) \in Nat /\ f \in Frames
        /\ \A n \in 1..Len(r) : r[n] = q[n + 1] /\ n + 1 \in 1..Len(q)
        /\ \A n \in 1..Len(q) : n = 1 \/ (n - 1 \in 1..Len(r) /\ r[n - 1] = q[n])
    BY HeadAndTail
  <2> HIDE DEF f, r
  <2>2. 1 \in 1..Len(q)
    BY <2>1
  <2>3. f.cursor \in Nat
    BY <2>1, SubscriptionAssumption DEF Frames, Cursors
  <2> QED
    BY <2>1, <2>2, <2>3
<1>2. ShownBy(q, Len(q), a) => Shows(f, a) \/ ShownBy(r, Len(r), a)
  <2>1. Len(r) \in 0..Len(r)
    BY <1>1
  <2> QED
    BY <1>1, <2>1, SaidByHeadOrTail
<1>3. Shows(f, a) => a <= lt2
  BY <1>1 DEF Shows
<1>4. f.type = "connected" => r = <<>>
  BY OrderedAfterDelivery
<1>5. /\ UpToDate(lg, l, lt, a, q) => UpToDate(lg, l, lt2, a, r)
      /\ UpToDate(lg, l, lt, a, q) /\ Acknowledges(f) => UpToDate(lg, f.cursor, lt2, a, r)
  BY UpToDateAfterDelivery
<1> HIDE DEF r, f
<1>6. HasConnected(q) <=> f.type = "connected" \/ HasConnected(r)
  <2>1. HasConnected(q) => f.type = "connected" \/ HasConnected(r)
    BY <1>1 DEF HasConnected
  <2>2. f.type = "connected" => HasConnected(q)
    BY <1>1 DEF HasConnected
  <2>3. HasConnected(r) => HasConnected(q)
    BY <1>1 DEF HasConnected
  <2> QED
    BY <2>1, <2>2, <2>3
<1>7. CASE f.type = "connected"
  <2>1. r = <<>> /\ ~HasConnected(r) /\ Len(r) = 0
    BY <1>4, <1>7, EmptyBatch, EmptySeq
  <2>2. ~Shows(f, a) /\ ~ShownBy(r, Len(r), a)
    BY <1>7, <2>1 DEF Shows, ShownBy
  <2>3. a <= lt2 /\ 0 <= lt2
    <3>1. a <= lt
      BY <1>2, <1>6, <1>7, <2>2 DEF Fresh
    <3> QED
      BY <3>1
  <2>4. UpToDate(lg, l, lt2, a, r)
    <3>1. Cursor(lg) \in Nat
      BY LenProperties DEF IsLog, Cursor
    <3>2. \A c \in 1..Cursor(lg) : (c <= l => c <= lt2) /\ (c <= a => c <= lt2)
      BY <2>3, <3>1
    <3> QED
      BY <2>1, <3>2 DEF UpToDate
  <2>5. ~Acknowledges(f)
    BY <1>7 DEF Acknowledges, Kinds
  <2> QED
    BY <2>1, <2>3, <2>4, <2>5 DEF Fresh, r, f
<1>8. CASE f.type # "connected" /\ HasConnected(q)
  <2>1. HasConnected(r)
    BY <1>6, <1>8
  <2>2. ShownBy(r, Len(r), a) \/ a <= lt2
    <3>1. ShownBy(q, Len(q), a) \/ a <= lt
      BY <1>8 DEF Fresh
    <3> QED
      BY <1>2, <1>3, <3>1
  <2> QED
    BY <2>1, <2>2 DEF Fresh, r, f
<1>9. CASE ~HasConnected(q)
  <2>1. ~HasConnected(r) /\ 0 <= lt /\ UpToDate(lg, l, lt, a, q)
    BY <1>6, <1>9 DEF Fresh
  <2>2. 0 <= lt2
    BY <2>1
  <2> QED
    BY <1>5, <2>1, <2>2 DEF Fresh, r, f
<1> QED
  BY <1>7, <1>8, <1>9

\* What a handled event or a marker adds to what the page was told.
LEMMA ToldMore ==
  ASSUME NEW lg, NEW h \in Seq(Cursors), NEW cov \in Int, NEW e \in Cursors, NEW c \in Int
  PROVE  /\ Told(lg, h, cov, c) \/ c = e => Told(lg, Append(h, e), cov, c)
         /\ cov <= e => (Told(lg, h, cov, c) \/ c <= e => Told(lg, h, e, c))
<1>1. /\ Len(Append(h, e)) = Len(h) + 1 /\ Len(h) \in Nat
      /\ \A n \in 1..Len(h) : Append(h, e)[n] = h[n]
      /\ Append(h, e)[Len(h) + 1] = e
  BY AppendProperties, LenProperties
<1> DEFINE g == Append(h, e)
<1> HIDE DEF g
<1>2. (\E n \in 1..Len(h) : h[n] = c) \/ c = e => \E n \in 1..Len(g) : g[n] = c
  <2>1. \A n \in 1..Len(h) : n \in 1..Len(g) /\ g[n] = h[n]
    BY <1>1 DEF g
  <2>2. Len(h) + 1 \in 1..Len(g) /\ g[Len(h) + 1] = e
    BY <1>1 DEF g
  <2> QED
    BY <2>1, <2>2
<1>3. cov <= e => (c <= cov => c <= e)
  BY SubscriptionAssumption DEF Cursors
<1> QED
  BY <1>2, <1>3 DEF Told, g

\* What the invariant says of the page before a frame reaches it.
LEMMA BeforeDelivery ==
  ASSUME Inv, NEW i \in Clients, Deliver(i)
  PROVE  /\ TypeOK /\ ClientInv(i) /\ ClientTypeOK(i) /\ IsLog(log) /\ Cursor(log) \in Nat
         /\ after[i] \in Nat /\ lastId[i] \in Int /\ latest[i] \in Int /\ covered[i] \in Nat
         /\ base[i] \in Nat /\ revokedAt[i] \in Int
         /\ pending[i] \in Seq(Frames) /\ pending[i] # <<>> /\ handled[i] \in Seq(Cursors)
         /\ Head(pending[i]) \in Frames /\ Head(pending[i]).cursor \in Nat
         /\ Head(pending[i]).cursor \in Cursors
         /\ Head(pending[i]).cursor <= after[i] /\ Head(pending[i]).cursor <= Cursor(log)
         /\ Head(pending[i]).type = "resync" => covered[i] <= Head(pending[i]).cursor
         /\ phase[i] = "live" /\ authorized[i] = TRUE /\ Active(i)
         /\ after[i] <= Cursor(log) /\ lastId[i] <= after[i]
         /\ pending'[i] = Tail(pending[i])
         /\ \A j \in Clients \ {i} : pending'[j] = pending[j]
<1>1. /\ TypeOK /\ ClientInv(i) /\ ClientTypeOK(i) /\ IsLog(log) /\ Cursor(log) \in Nat
      /\ after[i] \in Nat /\ lastId[i] \in Int /\ latest[i] \in Int /\ covered[i] \in Nat
      /\ base[i] \in Nat /\ revokedAt[i] \in Int
      /\ pending[i] \in Seq(Frames) /\ handled[i] \in Seq(Cursors) /\ authorized[i] \in BOOLEAN
  BY ClientTypes DEF Inv, ClientTypeOK
<1>2. pending[i] # <<>> /\ phase[i] = "live" /\ authorized[i]
  BY DEF Deliver
<1>3. Active(i) /\ after[i] <= Cursor(log) /\ lastId[i] <= after[i]
  BY <1>1, <1>2 DEF Active, ClientInv, Bounds
<1>4. Head(pending[i]) \in Frames
  BY <1>1, <1>2, HeadAndTail
<1>5. Head(pending[i]).cursor \in Nat /\ Head(pending[i]).cursor \in Cursors
  BY <1>4, SubscriptionAssumption DEF Frames, Cursors
<1>6. /\ Head(pending[i]).cursor <= after[i]
      /\ Head(pending[i]).type = "resync" => covered[i] <= Head(pending[i]).cursor
  BY <1>1, <1>2, OrderedAfterDelivery DEF ClientInv
<1>7. pending'[i] = Tail(pending[i]) /\ \A j \in Clients \ {i} : pending'[j] = pending[j]
  BY <1>1 DEF Deliver, TypeOK
<1> QED
  BY <1>1, <1>2, <1>3, <1>4, <1>5, <1>6, <1>7

\* One frame reaches its handler.  l2, lt2, sh2, h2 and cov2 are what the page knows then.
LEMMA AfterDelivery ==
  ASSUME Inv, NEW i \in Clients, Deliver(i),
         NEW l2, NEW lt2 \in Int, NEW h2, NEW cov2 \in Nat,
         lastId'[i] = l2, latest'[i] = lt2, handled'[i] = h2, covered'[i] = cov2,
         l2 = IF Acknowledges(Head(pending[i])) THEN Head(pending[i]).cursor ELSE lastId[i],
         latest[i] <= lt2, lt2 <= Cursor(log), cov2 <= Cursor(log),
         Head(pending[i]).type = "state" => Head(pending[i]).cursor <= lt2,
         \A c \in Int : \/ Told(log, handled[i], covered[i], c)
                        \/ Announces(Head(pending[i]), c)
                        => Told(log, h2, cov2, c),
         Once(h2, l2, Tail(pending[i])),
         Showing(log, latest'[i], shown'[i])
  PROVE  ClientInv(i)'
<1> DEFINE q == pending[i]
           f == Head(q)
           r == Tail(q)
<1>1. /\ TypeOK /\ ClientInv(i) /\ ClientTypeOK(i) /\ IsLog(log) /\ Cursor(log) \in Nat
      /\ after[i] \in Nat /\ lastId[i] \in Int /\ latest[i] \in Int /\ base[i] \in Nat
      /\ q \in Seq(Frames) /\ q # <<>> /\ f.cursor \in Nat
      /\ f.cursor <= after[i] /\ f.cursor <= Cursor(log)
      /\ phase[i] = "live" /\ authorized[i] = TRUE /\ Active(i)
      /\ after[i] <= Cursor(log) /\ lastId[i] <= after[i] /\ pending'[i] = r
  BY BeforeDelivery
<1>2. /\ log' = log /\ waiters' = waiters /\ phase' = phase /\ conn' = conn /\ after' = after
      /\ authorized' = authorized /\ replies' = replies /\ revokedAt' = revokedAt /\ base' = base
  BY DEF Deliver
<1>3. /\ Ordered(q, after[i], covered[i])
      /\ Complete(log, base[i], after[i], q, handled[i], covered[i])
      /\ Fresh(log, "live", lastId[i], latest[i], after[i], q)
      /\ ToldOrAnnounced(log, handled[i], covered[i], <<>>, 0, base[i], lastId[i])
      /\ Barred(revokedAt[i], lastId[i], TRUE, q)
  BY <1>1 DEF ClientInv
<1> HIDE DEF q, f, r
<1>4. Places(i)'
  BY <1>1, <1>2 DEF ClientInv, Places, q
<1>5. l2 \in Int /\ l2 <= after[i]
  BY <1>1 DEF q, f
<1>6. Bounds(i)'
  BY <1>1, <1>2, <1>5 DEF ClientInv, Bounds, Active
<1>7. Ordered(r, after[i], cov2)
  BY <1>1, <1>3, OrderedAfterDelivery DEF r
<1>8. /\ Complete(log, base[i], after[i], r, h2, cov2)
      /\ Acknowledges(f) => ToldOrAnnounced(log, h2, cov2, <<>>, 0, base[i], f.cursor)
  <2>1. \A c \in Int : Told(log, handled[i], covered[i], c) \/ Announces(Head(q), c)
                       => Told(log, h2, cov2, c)
    BY DEF q
  <2> QED
    BY <1>1, <1>3, <2>1, CompleteAfterDelivery DEF f, r
<1>9. ToldOrAnnounced(log, h2, cov2, <<>>, 0, base[i], l2)
  <2>1. CASE Acknowledges(f)
    BY <1>8, <2>1 DEF f, q
  <2>2. CASE ~Acknowledges(f)
    <3>1. l2 = lastId[i]
      BY <2>2 DEF f, q
    <3>2. \A c \in (base[i] + 1)..l2 : Told(log, h2, cov2, c)
      BY <1>3, <3>1 DEF ToldOrAnnounced, AnnouncedBy
    <3> QED
      BY <3>2 DEF ToldOrAnnounced
  <2> QED
    BY <2>1, <2>2
<1>10. Fresh(log, "live", l2, lt2, after[i], r)
  <2>1. /\ ~Acknowledges(f) => Fresh(log, "live", lastId[i], lt2, after[i], r)
        /\ Acknowledges(f) => Fresh(log, "live", f.cursor, lt2, after[i], r)
    BY <1>1, <1>3, FreshAfterDelivery DEF q, f, r
  <2> QED
    BY <2>1 DEF q, f
<1>11. Barred(revokedAt[i], l2, TRUE, r)
  <2>1. /\ f = q[1] /\ 1 \in 1..Len(q)
        /\ \A n \in 1..Len(r) : r[n] = q[n + 1] /\ n + 1 \in 1..Len(q)
    BY <1>1, HeadAndTail DEF f, r
  <2>2. l2 = lastId[i] \/ l2 = f.cursor
    BY DEF f, q
  <2> QED
    BY <1>3, <2>1, <2>2 DEF Barred
<1> QED
  BY <1>1, <1>2, <1>4, <1>6, <1>7, <1>8, <1>9, <1>10, <1>11 DEF ClientInv, Active, r, q

LEMMA DeliverStep ==
  ASSUME Inv, NEW i \in Clients, Deliver(i)
  PROVE  OnlyPage(i) /\ ClientInv(i)'
<1> USE DEF pageVars
<1> DEFINE q == pending[i]
           f == Head(q)
<1>1. /\ TypeOK /\ ClientInv(i) /\ IsLog(log) /\ Cursor(log) \in Nat
      /\ lastId[i] \in Int /\ latest[i] \in Int /\ covered[i] \in Nat /\ covered[i] \in Int
      /\ q \in Seq(Frames) /\ q # <<>> /\ handled[i] \in Seq(Cursors)
      /\ f \in Frames /\ f.cursor \in Nat /\ f.cursor \in Cursors
      /\ f.cursor <= Cursor(log)
      /\ f.type = "resync" => covered[i] <= f.cursor
      /\ \A j \in Clients \ {i} : pending'[j] = pending[j]
  <2>1. /\ TypeOK /\ ClientInv(i) /\ IsLog(log) /\ Cursor(log) \in Nat
        /\ lastId[i] \in Int /\ latest[i] \in Int /\ covered[i] \in Nat
        /\ q \in Seq(Frames) /\ q # <<>> /\ handled[i] \in Seq(Cursors)
    BY BeforeDelivery
  <2>2. /\ f \in Frames /\ f.cursor \in Nat /\ f.cursor \in Cursors
        /\ f.cursor <= Cursor(log)
        /\ f.type = "resync" => covered[i] <= f.cursor
        /\ \A j \in Clients \ {i} : pending'[j] = pending[j]
    BY BeforeDelivery
  <2> HIDE DEF q, f
  <2> QED
    BY <2>1, <2>2
<1>2. /\ latest[i] <= Cursor(log) /\ covered[i] <= Cursor(log)
      /\ Ordered(q, after[i], covered[i]) /\ Once(handled[i], lastId[i], q)
      /\ Showing(log, latest[i], shown[i])
  BY <1>1 DEF ClientInv, Bounds
<1>3. /\ Once(handled[i], lastId[i], Tail(q))
      /\ f.type = "state" => Once(handled[i], f.cursor, Tail(q))
      /\ f.type = "event" => Once(Append(handled[i], f.cursor), f.cursor, Tail(q))
  BY <1>1, <1>2, OnceAfterDelivery
<1>4. f.type \in {"state", "event", "resync", "connected"}
  BY <1>1 DEF Frames
<1>5. CASE f.type = "state"
  <2>1. OnState(i, f.cursor)
    BY <1>5 DEF Deliver
  <2>2. /\ latest'[i] = IF f.cursor > latest[i] THEN f.cursor ELSE latest[i]
        /\ Showing(log, latest'[i], shown'[i])
        /\ \A j \in Clients \ {i} : latest'[j] = latest[j] /\ shown'[j] = shown[j]
    BY <1>1, <1>2, <2>1, AppliedState DEF OnState
  <2>3. /\ lastId'[i] = f.cursor /\ \A j \in Clients \ {i} : lastId'[j] = lastId[j]
        /\ handled' = handled /\ covered' = covered
    BY <1>1, <2>1 DEF OnState, TypeOK
  <2>4. OnlyPage(i)
    BY <1>1, <2>2, <2>3 DEF Deliver, OnlyPage, SamePage, SameBatch, NoNewPoll
  <2>5. /\ latest'[i] \in Int /\ latest[i] <= latest'[i] /\ latest'[i] <= Cursor(log)
        /\ f.cursor <= latest'[i]
    BY <1>1, <1>2, <2>2
  <2>6. Acknowledges(f) /\ \A c : ~Announces(f, c)
    BY <1>5 DEF Acknowledges, Announces, Kinds
  <2>7. f.cursor = IF Acknowledges(f) THEN f.cursor ELSE lastId[i]
    BY <2>6
  <2> QED
    BY <1>1, <1>2, <1>3, <1>5, <2>2, <2>3, <2>4, <2>5, <2>6, <2>7, AfterDelivery
<1>6. CASE f.type = "event"
  <2>1. OnEvent(i, f.cursor)
    BY <1>6 DEF Deliver
  <2>2. /\ handled'[i] = Append(handled[i], f.cursor) /\ lastId'[i] = f.cursor
        /\ \A j \in Clients \ {i} : lastId'[j] = lastId[j] /\ handled'[j] = handled[j]
        /\ latest' = latest /\ shown' = shown /\ covered' = covered
    BY <1>1, <2>1 DEF OnEvent, TypeOK
  <2>3. OnlyPage(i)
    BY <1>1, <2>2 DEF Deliver, OnlyPage, SamePage, SameBatch, NoNewPoll
  <2>4. Acknowledges(f) /\ f.type # "state" /\ \A c : Announces(f, c) => c = f.cursor
    BY <1>6 DEF Acknowledges, Announces, Kinds
  <2>5. \A c \in Int : Told(log, handled[i], covered[i], c) \/ Announces(f, c)
                       => Told(log, Append(handled[i], f.cursor), covered[i], c)
    BY <1>1, <2>4, ToldMore
  <2>6. f.cursor = IF Acknowledges(f) THEN f.cursor ELSE lastId[i]
    BY <2>4
  <2>7. latest[i] <= latest[i]
    BY <1>1
  <2> QED
    BY <1>1, <1>2, <1>3, <1>6, <2>2, <2>3, <2>4, <2>5, <2>6, <2>7, AfterDelivery
<1>7. CASE f.type = "resync"
  <2>1. OnResync(i, f.cursor)
    BY <1>7 DEF Deliver
  <2>2. /\ covered'[i] = f.cursor /\ \A j \in Clients \ {i} : covered'[j] = covered[j]
        /\ latest' = latest /\ shown' = shown /\ lastId' = lastId /\ handled' = handled
    BY <1>1, <2>1 DEF OnResync, TypeOK
  <2>3. OnlyPage(i)
    BY <1>1, <2>2 DEF Deliver, OnlyPage, SamePage, SameBatch, NoNewPoll
  <2>4. ~Acknowledges(f) /\ f.type # "state" /\ \A c : Announces(f, c) => c <= f.cursor
    BY <1>7 DEF Acknowledges, Announces, Kinds
  <2>5. \A c \in Int : Told(log, handled[i], covered[i], c) \/ Announces(f, c)
                       => Told(log, handled[i], f.cursor, c)
    BY <1>1, <1>7, <2>4, ToldMore
  <2>6. lastId[i] = IF Acknowledges(f) THEN f.cursor ELSE lastId[i]
    BY <2>4
  <2>7. latest[i] <= latest[i]
    BY <1>1
  <2> QED
    BY <1>1, <1>2, <1>3, <1>7, <2>2, <2>3, <2>4, <2>5, <2>6, <2>7, AfterDelivery
<1>8. CASE f.type = "connected"
  <2>1. UNCHANGED <<pageVars, handled, covered>>
    BY <1>8 DEF Deliver
  <2>2. OnlyPage(i)
    BY <1>1, <2>1 DEF Deliver, OnlyPage, SamePage, SameBatch, NoNewPoll
  <2>3. ~Acknowledges(f) /\ f.type # "state" /\ \A c : ~Announces(f, c)
    BY <1>8 DEF Acknowledges, Announces, Kinds
  <2>4. lastId[i] = IF Acknowledges(f) THEN f.cursor ELSE lastId[i]
    BY <2>3
  <2>5. latest[i] <= latest[i]
    BY <1>1
  <2> QED
    BY <1>1, <1>2, <1>3, <2>1, <2>2, <2>3, <2>4, <2>5, AfterDelivery
<1> QED
  BY <1>4, <1>5, <1>6, <1>7, <1>8

-----------------------------------------------------------------------------
(* Types *)

Typed == TypeOK /\ IsFiniteSet(waiters)

LEMMA AnswerTypes ==
  ASSUME Inv, NEW lg, IsLog(lg), Cursor(log) <= Cursor(lg), NEW S, Answer(S, lg)
  PROVE  /\ after' \in [Clients -> Cursors]
         /\ pending' \in [Clients -> Seq(Frames)]
         /\ authorized' \in [Clients -> BOOLEAN]
<1>1. /\ after \in [Clients -> Cursors] /\ pending \in [Clients -> Seq(Frames)]
      /\ authorized \in [Clients -> BOOLEAN]
  BY DEF Inv, TypeOK
<1>2. Cursor(lg) \in Nat /\ Cursor(lg) \in Cursors
  BY LenProperties, SubscriptionAssumption DEF IsLog, Cursor, Cursors
<1>3. \A i \in Clients : PollBatch(lg, after[i]) \in Seq(Frames)
  <2> TAKE i \in Clients
  <2>1. TypeOK /\ ClientInv(i)
    BY DEF Inv
  <2>2. Cursor(log) \in Nat /\ after[i] \in Nat /\ covered[i] \in Nat
    BY <2>1, ClientTypes
  <2>3. after[i] <= Cursor(log) /\ covered[i] <= Cursor(log)
    BY <2>1 DEF ClientInv, Bounds
  <2>4. after[i] \in 0..Cursor(lg) /\ covered[i] \in Int /\ covered[i] <= Cursor(lg)
    BY <1>2, <2>2, <2>3
  <2> QED
    BY <2>4, PollReads
<1> DEFINE got == {i \in S : PollBatch(lg, after[i]) # <<>>}
<1>4. /\ pending' = [i \in Clients |-> IF i \in got THEN PollBatch(lg, after[i]) ELSE pending[i]]
      /\ after' = [i \in Clients |-> IF i \in got THEN Cursor(lg) ELSE after[i]]
      /\ authorized' = [i \in Clients |-> authorized[i] /\ i \notin got]
  BY DEF Answer
<1> HIDE DEF got
<1>5. authorized' \in [Clients -> BOOLEAN]
  BY <1>4
<1>6. after' \in [Clients -> Cursors]
  BY <1>1, <1>2, <1>4
<1>7. pending' \in [Clients -> Seq(Frames)]
  BY <1>1, <1>3, <1>4
<1> QED
  BY <1>5, <1>6, <1>7

LEMMA AppendTypes ==
  ASSUME Inv, NEW kind \in Kinds, AppendEvent(kind),
         UNCHANGED <<phase, conn, pageVars, revokedAt, historyVars>>,
         replies' \in [Clients -> SUBSET Cursors]
  PROVE  Typed'
<1> USE DEF pageVars, historyVars
<1>1. TypeOK /\ IsLog(log)
  BY DEF Inv, TypeOK, IsLog, Kinds
<1>2. Grows(log, log')
  BY <1>1, AppendGrows DEF AppendEvent
<1>3. IsLog(log') /\ Cursor(log) <= Cursor(log')
  BY <1>2 DEF Grows
<1>4. waiters' = {} /\ \E S : Answer(S, log')
  BY DEF AppendEvent
<1>5. IsFiniteSet({}) /\ Cardinality({}) <= MaxWaiters
  BY FS_EmptySet, SubscriptionAssumption
<1>6. /\ after' \in [Clients -> Cursors] /\ pending' \in [Clients -> Seq(Frames)]
      /\ authorized' \in [Clients -> BOOLEAN]
  BY <1>3, <1>4, AnswerTypes
<1> QED
  BY <1>1, <1>3, <1>4, <1>5, <1>6 DEF Typed, TypeOK, IsLog, Kinds

LEMMA PublishTypes ==
  ASSUME Inv, NEW i \in Clients, Publish(i)
  PROVE  Typed'
<1>1. TypeOK /\ IsLog(log)
  BY DEF Inv, TypeOK, IsLog, Kinds
<1>2. Grows(log, log')
  BY <1>1, AppendGrows DEF Publish, AppendEvent, Kinds
<1>3. Cursor(log') \in Cursors
  BY <1>2, LenProperties, SubscriptionAssumption DEF Grows, IsLog, Cursor, Cursors
<1>4. replies' \in [Clients -> SUBSET Cursors]
  BY <1>1, <1>3 DEF Publish, TypeOK
<1> QED
  BY <1>4, AppendTypes DEF Publish, Kinds

LEMMA BroadcastTypes ==
  ASSUME Inv, Broadcast
  PROVE  Typed'
<1>1. replies' \in [Clients -> SUBSET Cursors]
  BY DEF Inv, Broadcast, TypeOK
<1> QED
  BY <1>1, AppendTypes DEF Broadcast, Kinds

\* Held polls are finitely many, and no more of them after one ends.
LEMMA WaitEndsTypes ==
  ASSUME Inv, NEW w \in waiters, WaitEnds(w)
  PROVE  Typed'
<1> USE DEF pageVars, historyVars
<1>1. TypeOK /\ IsLog(log) /\ IsFiniteSet(waiters) /\ Cursor(log) \in Int
  <2>1. TypeOK /\ IsLog(log) /\ IsFiniteSet(waiters)
    BY DEF Inv, TypeOK, IsLog, Kinds
  <2> QED
    BY <2>1, LenProperties DEF IsLog, Cursor
<1>2. waiters' = waiters \ {w} /\ \E S : Answer(S, log)
  BY DEF WaitEnds
<1>3. IsFiniteSet(waiters') /\ Cardinality(waiters') <= MaxWaiters
  <2>1. IsFiniteSet(waiters') /\ Cardinality(waiters') <= Cardinality(waiters)
    BY <1>1, <1>2, FS_Subset
  <2>2. Cardinality(waiters') \in Nat /\ Cardinality(waiters) \in Nat
    BY <1>1, <2>1, FS_CardinalityType
  <2> QED
    BY <1>1, <2>1, <2>2, SubscriptionAssumption DEF TypeOK
<1>4. Cursor(log) <= Cursor(log)
  BY <1>1
<1>5. /\ after' \in [Clients -> Cursors] /\ pending' \in [Clients -> Seq(Frames)]
      /\ authorized' \in [Clients -> BOOLEAN]
  BY <1>1, <1>2, <1>4, AnswerTypes
<1> QED
  BY <1>1, <1>2, <1>3, <1>5 DEF WaitEnds, Typed, TypeOK

LEMMA PollTypes ==
  ASSUME Inv, NEW i \in Clients, Poll(i)
  PROVE  Typed'
<1> USE DEF pageVars, historyVars
<1>1. TypeOK /\ IsLog(log) /\ IsFiniteSet(waiters) /\ Cursor(log) \in Int /\ ClientInv(i)
  <2>1. TypeOK /\ IsLog(log) /\ IsFiniteSet(waiters) /\ ClientInv(i)
    BY DEF Inv, TypeOK, IsLog, Kinds
  <2> QED
    BY <2>1, LenProperties DEF IsLog, Cursor
<1>2. CASE PollBatch(log, after[i]) # <<>>
  <2>1. Answer({i}, log) /\ waiters' = waiters
    BY <1>2 DEF Poll
  <2>2. Cursor(log) <= Cursor(log)
    BY <1>1
  <2>3. /\ after' \in [Clients -> Cursors] /\ pending' \in [Clients -> Seq(Frames)]
        /\ authorized' \in [Clients -> BOOLEAN]
    BY <1>1, <2>1, <2>2, AnswerTypes
  <2> QED
    BY <1>1, <2>1, <2>3 DEF Poll, Typed, TypeOK
<1>3. CASE PollBatch(log, after[i]) = <<>>
  <2>1. /\ waiters' = waiters \union {<<i, conn[i]>>} /\ Cardinality(waiters) < MaxWaiters
        /\ UNCHANGED <<pending, after, authorized>>
    BY <1>3 DEF Poll
  <2>2. <<i, conn[i]>> \in Clients \X (1..MaxConns)
    <3>1. conn[i] \in 0..MaxConns /\ conn[i] >= 1
      BY <1>1 DEF Poll, ClientInv, Places, TypeOK
    <3> QED
      BY <3>1, SubscriptionAssumption
  <2>3. IsFiniteSet(waiters') /\ Cardinality(waiters') <= MaxWaiters
    <3>1. /\ IsFiniteSet(waiters')
          /\ Cardinality(waiters') = IF <<i, conn[i]>> \in waiters THEN Cardinality(waiters)
                                                                  ELSE Cardinality(waiters) + 1
      BY <1>1, <2>1, FS_AddElement
    <3>2. Cardinality(waiters) \in Nat
      BY <1>1, FS_CardinalityType
    <3> QED
      BY <2>1, <3>1, <3>2, SubscriptionAssumption
  <2>4. waiters' \in SUBSET (Clients \X (1..MaxConns))
    BY <1>1, <2>1, <2>2 DEF TypeOK
  <2> QED
    BY <1>1, <2>1, <2>3, <2>4 DEF Poll, Typed, TypeOK
<1> QED
  BY <1>2, <1>3

\* The Worker's other steps.
LEMMA WorkerTypes ==
  ASSUME Inv, NEW i \in Clients,
         Connect(i) \/ Subscribe(i) \/ Opened(i) \/ Authorize(i) \/ Deny(i) \/ Drop(i) \/ Revoke(i)
  PROVE  Typed'
<1> USE DEF pageVars, historyVars, workerVars, Typed
<1>1. /\ TypeOK /\ ClientInv(i) /\ ClientTypeOK(i) /\ IsLog(log) /\ IsFiniteSet(waiters)
      /\ after[i] \in Nat /\ covered[i] \in Nat /\ Cursor(log) \in Cursors
  <2>1. Cursor(log) \in Cursors
    BY LenProperties, SubscriptionAssumption DEF Inv, TypeOK, Cursor, Cursors
  <2> QED
    BY <2>1, ClientTypes DEF Inv
<1>2. NoCursor \notin Cursors /\ <<>> \in Seq(Frames)
  BY EmptyBatch, SubscriptionAssumption DEF NoCursor, Cursors
<1>3. CASE Connect(i)
  <2> DEFINE from == IF lastId[i] = NoCursor THEN Cursor(log) ELSE lastId[i]
  <2>1. from \in Cursors
    BY <1>1 DEF ClientTypeOK
  <2>2. conn' \in [Clients -> 0..MaxConns]
    BY <1>1, <1>3, SubscriptionAssumption DEF Connect, TypeOK
  <2>3. /\ phase' \in [Clients -> Phases] /\ after' \in [Clients -> Cursors]
        /\ base' \in [Clients -> Cursors]
    <3>1. /\ phase \in [Clients -> Phases] /\ after \in [Clients -> Cursors]
          /\ base \in [Clients -> Cursors]
      BY <1>1 DEF TypeOK
    <3>2. phase' \in [Clients -> Phases]
      BY <1>3, <3>1 DEF Connect, Phases
    <3>3. after' \in [Clients -> Cursors]
      BY <1>3, <2>1, <3>1 DEF Connect
    <3>4. base' \in [Clients -> Cursors]
      BY <1>3, <2>1, <3>1 DEF Connect
    <3> QED
      BY <3>2, <3>3, <3>4
  <2> QED
    BY <1>1, <1>3, <2>2, <2>3 DEF Connect, TypeOK
<1>4. CASE Subscribe(i)
  <2>1. FirstBatch(log, after[i]) \in Seq(Frames)
    <3>1. after[i] \in 0..Cursor(log) /\ covered[i] \in Int /\ covered[i] <= Cursor(log)
      BY <1>1, SubscriptionAssumption DEF ClientInv, Bounds, Cursors
    <3> QED
      BY <1>1, <3>1, FirstReads
  <2> QED
    BY <1>1, <1>4, <2>1 DEF Subscribe, TypeOK, Phases
<1>5. CASE Opened(i)
  BY <1>1, <1>5 DEF Opened, TypeOK, Phases
<1>6. CASE Authorize(i)
  BY <1>1, <1>6 DEF Authorize, TypeOK
<1>7. CASE Deny(i)
  BY <1>1, <1>2, <1>7 DEF Deny, TypeOK, Phases
<1>8. CASE Drop(i)
  BY <1>1, <1>2, <1>8 DEF Drop, TypeOK, Phases
<1>9. CASE Revoke(i)
  BY <1>1, <1>9 DEF Revoke, TypeOK
<1> QED
  BY <1>3, <1>4, <1>5, <1>6, <1>7, <1>8, <1>9

\* What the page shows is the initial state or an event's.
LEMMA ApplyStateTypes ==
  ASSUME TypeOK, NEW i \in Clients, NEW c \in Cursors, ApplyState(i, c)
  PROVE  /\ latest' \in [Clients -> Cursors \union {NoCursor}]
         /\ shown' \in [Clients -> Cursors]
<1>1. StateAt(log, c) \in Cursors
  <2>1. c \in Int /\ c <= MaxCursor /\ 0 <= c /\ MaxCursor \in Nat
    BY SubscriptionAssumption DEF Cursors
  <2>2. StateAt(log, c) \in Nat /\ (StateAt(log, c) = 0 \/ StateAt(log, c) \in 1..c)
    BY <2>1, StateAtIsNewest
  <2> QED
    BY <2>1, <2>2 DEF Cursors
<1> QED
  BY <1>1 DEF ApplyState, TypeOK

LEMMA PageTypes ==
  ASSUME Inv, NEW i \in Clients, Deliver(i) \/ ReplyArrives(i)
  PROVE  Typed'
<1> USE DEF pageVars, historyVars, workerVars, Typed
<1>1. TypeOK /\ IsFiniteSet(waiters) /\ ClientTypeOK(i)
  BY ClientTypes DEF Inv
<1>2. CASE ReplyArrives(i)
  <2>1. PICK c \in replies[i] :
          /\ replies' = [replies EXCEPT ![i] = @ \ {c}]
          /\ ApplyState(i, c)
          /\ UNCHANGED <<log, waiters, workerVars, lastId, revokedAt, historyVars>>
    BY <1>2 DEF ReplyArrives
  <2>2. c \in Cursors
    BY <1>1 DEF ClientTypeOK
  <2>3. /\ latest' \in [Clients -> Cursors \union {NoCursor}] /\ shown' \in [Clients -> Cursors]
    BY <1>1, <2>1, <2>2, ApplyStateTypes
  <2>4. replies' \in [Clients -> SUBSET Cursors]
    BY <1>1, <2>1 DEF TypeOK
  <2> QED
    BY <1>1, <2>1, <2>3, <2>4 DEF TypeOK
<1>3. CASE Deliver(i)
  <2> DEFINE f == Head(pending[i])
  <2>1. f \in Frames /\ f.cursor \in Cursors /\ handled[i] \in Seq(Cursors)
    BY <1>3, BeforeDelivery
  <2>2. pending' \in [Clients -> Seq(Frames)]
    <3>1. Tail(pending[i]) \in Seq(Frames)
      BY <1>1, <1>3, HeadAndTail DEF Deliver, ClientTypeOK
    <3> QED
      BY <1>1, <1>3, <3>1 DEF Deliver, TypeOK
  <2>3. /\ latest' \in [Clients -> Cursors \union {NoCursor}] /\ shown' \in [Clients -> Cursors]
        /\ lastId' \in [Clients -> Cursors \union {NoCursor}]
        /\ handled' \in [Clients -> Seq(Cursors)] /\ covered' \in [Clients -> Cursors]
    <3> HIDE DEF f
    <3>1. CASE f.type = "state"
      <4>1. OnState(i, f.cursor)
        BY <1>3, <3>1 DEF Deliver, f
      <4> QED
        BY <1>1, <2>1, <4>1, ApplyStateTypes DEF OnState, TypeOK
    <3>2. CASE f.type = "event"
      <4>1. OnEvent(i, f.cursor)
        BY <1>3, <3>2 DEF Deliver, f
      <4>2. Append(handled[i], f.cursor) \in Seq(Cursors)
        BY <2>1, AppendProperties
      <4> QED
        BY <1>1, <2>1, <4>1, <4>2 DEF OnEvent, TypeOK
    <3>3. CASE f.type = "resync"
      <4>1. OnResync(i, f.cursor)
        BY <1>3, <3>3 DEF Deliver, f
      <4> QED
        BY <1>1, <2>1, <4>1 DEF OnResync, TypeOK
    <3>4. CASE f.type = "connected"
      <4>1. UNCHANGED <<pageVars, handled, covered>>
        BY <1>3, <3>4 DEF Deliver, f
      <4> QED
        BY <1>1, <4>1 DEF TypeOK
    <3>5. f.type \in {"state", "event", "resync", "connected"}
      BY <2>1 DEF Frames
    <3> QED
      BY <3>1, <3>2, <3>3, <3>4, <3>5
  <2> QED
    BY <1>1, <1>3, <2>2, <2>3 DEF Deliver, TypeOK
<1> QED
  BY <1>2, <1>3

-----------------------------------------------------------------------------
(* The theorems *)

LEMMA InitInv == Init => Inv
<1> SUFFICES ASSUME Init PROVE Inv
  OBVIOUS
<1>1. Cursor(log) = 0 /\ 0 \in Cursors
  BY EmptySeq, SubscriptionAssumption DEF Init, Cursor, Cursors
<1>2. IsFiniteSet(waiters) /\ Cardinality(waiters) <= MaxWaiters
  BY FS_EmptySet, SubscriptionAssumption DEF Init
<1>3. \A S : <<>> \in Seq(S)
  BY EmptySeq
<1>4. TypeOK
  BY <1>1, <1>2, <1>3, SubscriptionAssumption DEF Init, TypeOK, Phases, NoCursor
<1>5. ASSUME NEW i \in Clients PROVE ClientInv(i)
  <2>1. /\ phase[i] = "down" /\ pending[i] = <<>> /\ lastId[i] = -1 /\ latest[i] = -1
        /\ after[i] = 0 /\ covered[i] = 0 /\ revokedAt[i] = -1 /\ replies[i] = {} /\ base[i] = 0
        /\ handled[i] = <<>> /\ waiters = {}
    BY DEF Init, NoCursor
  <2>2. Places(i) /\ Bounds(i) /\ ~Active(i)
    BY <1>1, <2>1 DEF Places, Bounds, Active
  <2>3. Ordered(<<>>, 0, 0) /\ Fresh(log, "down", -1, -1, 0, <<>>)
    BY EmptyBatch DEF Fresh
  <2>4. ToldOrAnnounced(log, handled[i], 0, <<>>, 0, 0, -1)
    BY DEF ToldOrAnnounced
  <2>5. Once(<<>>, -1, <<>>)
    BY EmptySeq DEF Once
  <2>6. Showing(log, latest[i], shown[i]) /\ Barred(revokedAt[i], lastId[i], authorized[i], pending[i])
    BY <2>1 DEF Showing, Barred, NoCursor
  <2> QED
    BY <2>1, <2>2, <2>3, <2>4, <2>5, <2>6 DEF ClientInv
<1> QED
  BY <1>2, <1>4, <1>5 DEF Inv

LEMMA NextInv == Inv /\ [Next]_vars => Inv'
<1> SUFFICES ASSUME Inv, [Next]_vars PROVE Inv'
  OBVIOUS
<1>1. CASE Broadcast
  BY <1>1, BroadcastStep, BroadcastTypes DEF Inv, Typed
<1>2. ASSUME NEW w \in waiters, WaitEnds(w) PROVE Inv'
  BY <1>2, WaitEndsStep, WaitEndsTypes DEF Inv, Typed
<1>3. ASSUME NEW i \in Clients, Publish(i) PROVE Inv'
  BY <1>3, PublishStep, PublishTypes DEF Inv, Typed
<1>4. ASSUME NEW i \in Clients, OnlyPage(i), ClientInv(i)', Typed' PROVE Inv'
  <2>1. \A j \in Clients : ClientInv(j)'
    BY <1>4, OtherPages
  <2> QED
    BY <1>4, <2>1 DEF Inv, Typed
<1>5. ASSUME NEW i \in Clients, Subscription(i) PROVE Inv'
  <2>1. OnlyPage(i) /\ ClientInv(i)'
    BY <1>5, ConnectStep, SubscribeStep, OpenedStep, PollStep, AuthorizeStep, DenyStep, DeliverStep
       DEF Subscription
  <2>2. Typed'
    BY <1>5, PollTypes, WorkerTypes, PageTypes DEF Subscription
  <2> QED
    BY <1>4, <2>1, <2>2
<1>6. ASSUME NEW i \in Clients, ReplyArrives(i) PROVE Inv'
  BY <1>4, <1>6, ReplyStep, PageTypes
<1>7. ASSUME NEW i \in Clients, Drop(i) PROVE Inv'
  BY <1>4, <1>7, DropStep, WorkerTypes
<1>8. ASSUME NEW i \in Clients, Revoke(i) PROVE Inv'
  BY <1>4, <1>8, RevokeStep, WorkerTypes
<1>9. CASE UNCHANGED vars
  <2>1. TypeOK' /\ IsFiniteSet(waiters')
    BY <1>9 DEF Inv, TypeOK, vars, workerVars, pageVars, historyVars
  <2>2. ASSUME NEW j \in Clients PROVE ClientInv(j)'
    <3>1. TypeOK /\ ClientInv(j) /\ Grows(log, log) /\ log' = log
      BY <1>9, ClientTypes, SameLogGrows DEF Inv, vars
    <3>2. SamePage(j) /\ SameBatch(j) /\ NoNewPoll(j) /\ replies'[j] = replies[j]
      BY <1>9 DEF vars, workerVars, pageVars, historyVars, SamePage, SameBatch, NoNewPoll
    <3>3. \A c \in replies'[j] : c <= Cursor(log')
      BY <3>1, <3>2 DEF ClientInv, Bounds
    <3> QED
      BY <3>1, <3>2, <3>3, Bystander
  <2> QED
    BY <2>1, <2>2 DEF Inv
<1> QED
  BY <1>1, <1>2, <1>3, <1>5, <1>6, <1>7, <1>8, <1>9 DEF Next

\* The inductive invariant holds in every reachable state.
THEOREM Invariance == Spec => []Inv
<1>1. Init => Inv
  BY InitInv
<1>2. Inv /\ [Next]_vars => Inv'
  BY NextInv
<1> QED
  BY <1>1, <1>2, PTL DEF Spec

\* Every variable keeps its type, and no more polls are held than SSE_MAX_WAITERS allows.
THEOREM TypeCorrect == Spec => []TypeOK
<1>1. Inv => TypeOK
  BY DEF Inv
<1> QED
  BY <1>1, Invariance, PTL

\* Every broadcast reaches the handlers of connectSSE() in cursor order and once, or is
\* covered by a resync marker, through any number of lost connections and pruned events.
THEOREM EventsAlwaysArrive == Spec => []EventsArrive
<1>1. Inv => EventsArrive
  <2> SUFFICES ASSUME Inv, NEW i \in Clients
               PROVE  /\ \A c \in (base[i] + 1)..lastId[i] : Told(log, handled[i], covered[i], c)
                      /\ \A m, n \in 1..Len(handled[i]) : m < n => handled[i][m] < handled[i][n]
    BY DEF EventsArrive, NoSilentGap, InOrderOnce, Told
  <2>1. ClientInv(i)
    BY DEF Inv
  <2>2. ToldOrAnnounced(log, handled[i], covered[i], <<>>, 0, base[i], lastId[i])
    BY <2>1 DEF ClientInv
  <2>3. Once(handled[i], lastId[i], pending[i])
    BY <2>1 DEF ClientInv
  <2> QED
    BY <2>2, <2>3 DEF ToldOrAnnounced, AnnouncedBy, Once
<1> QED
  BY <1>1, Invariance, PTL

\* Past the first batch of a connection, applyStateToComponent never leaves the page with
\* a state older than its Last-Event-ID, whenever replies of its own actions arrive.
THEOREM PageNeverStale == Spec => []NeverStale
<1>1. Inv => NeverStale
  <2> SUFFICES ASSUME Inv, NEW i \in Clients, phase[i] = "live",
                      \A n \in 1..Len(pending[i]) : pending[i][n].type # "connected"
               PROVE  shown[i] >= StateAt(log, lastId[i])
    BY DEF NeverStale
  <2>1. /\ TypeOK /\ ClientInv(i) /\ Cursor(log) \in Nat
        /\ lastId[i] \in Int /\ latest[i] \in Int
    BY ClientTypes DEF Inv
  <2>2. lastId[i] <= Cursor(log) /\ 0 <= latest[i]
        /\ UpToDate(log, lastId[i], latest[i], after[i], pending[i])
    <3>1. ~HasConnected(pending[i])
      BY DEF HasConnected
    <3> QED
      BY <2>1, <3>1 DEF ClientInv, Bounds, Fresh
  <2>3. shown[i] = StateAt(log, latest[i])
    BY <2>1, <2>2 DEF ClientInv, Showing, NoCursor
  <2> DEFINE s == StateAt(log, lastId[i])
  <2>4. StateAt(log, latest[i]) \in Nat /\ s \in Nat
    BY <2>1, StateAtIsNewest
  <2>5. CASE s = 0
    BY <2>3, <2>4, <2>5
  <2>6. CASE s # 0
    <3>1. s \in 1..lastId[i] /\ log.kinds[s] = "state"
      BY <2>1, <2>6, StateAtIsNewest
    <3>2. s \in 1..Cursor(log) /\ s <= lastId[i]
      BY <2>1, <2>2, <3>1
    <3>3. s \in 1..latest[i]
      BY <2>1, <2>2, <3>1, <3>2 DEF UpToDate
    <3>4. s <= StateAt(log, latest[i])
      BY <2>1, <3>1, <3>3, StateAtIsNewest
    <3> QED
      BY <2>3, <2>4, <3>4
  <2> QED
    BY <2>5, <2>6
<1> QED
  BY <1>1, Invariance, PTL

\* authorizedSseStream lets nothing published after the loss of access reach the page.
THEOREM RevokedAlwaysSeesNothingNew == Spec => []RevokedSeesNothingNew
<1>1. Inv => RevokedSeesNothingNew
  BY DEF Inv, ClientInv, Barred, RevokedSeesNothingNew
<1> QED
  BY <1>1, Invariance, PTL

-----------------------------------------------------------------------------
(* The feed of FeedContract.  rs is where a page resumes, cov what its markers cover. *)

\* What a batch acknowledges is not behind the page, and its events are news to it.
Ahead(rs, cov, q) ==
  \A n \in 1..Len(q) : Acknowledges(q[n]) =>
    /\ rs <= q[n].cursor /\ cov <= q[n].cursor
    /\ q[n].type = "event" => rs < q[n].cursor /\ cov < q[n].cursor

\* Event c of the log is a broadcast.
Broadcasted(lg, c) == c \in 1..Cursor(lg) /\ lg.kinds[c] = "event"

\* A marker on its way replaces events that the log has forgotten; an event on its way
\* is one that was broadcast.
Justified(lg, rs, q) ==
  \A n \in 1..Len(q) :
    /\ q[n].type = "resync" => rs < lg.oldest - 1 /\ rs < q[n].cursor
    /\ q[n].type = "event" => Broadcasted(lg, q[n].cursor)

\* The batch takes the page to the Worker's cursor.
Ends(rs, a, q) == rs = a \/ \E n \in 1..Len(q) : Acknowledges(q[n]) /\ q[n].cursor = a

\* The page has a Last-Event-ID, or the batch holds a first one.
Seen(l, q) == l # NoCursor \/ \E n \in 1..Len(q) : Acknowledges(q[n])

\* The newest event is never pruned.
Kept(lg) == Cursor(lg) = 0 \/ lg.oldest <= Cursor(lg)

\* The state of an event, or the initial one.
Published(lg, s) == s = 0 \/ (s \in 1..Cursor(lg) /\ lg.kinds[s] = "state")

\* A page that got a marker and lost its connection before the snapshot gets another
\* one; a Worker asks for what follows the Last-Event-ID.
Follows(i) ==
  /\ base[i] <= Resumes(i)
  /\ Resumes(i) < covered[i] => Resumes(i) < log.oldest - 1
  /\ Active(i) => Resumes(i) <= after[i]
  /\ phase[i] = "subscribing" => after[i] = Resumes(i)
  /\ phase[i] \in {"subscribed", "live"} =>
       /\ covered[i] <= after[i]
       /\ Ends(Resumes(i), after[i], pending[i])
       /\ Seen(lastId[i], pending[i])
  /\ CaughtUp(i) => lastId[i] # NoCursor
  /\ Ahead(Resumes(i), covered[i], pending[i])
  /\ Justified(log, Resumes(i), pending[i])
  /\ Published(log, shown[i])
  /\ revokedAt[i] # NoCursor =>
       covered[i] <= revokedAt[i] /\ shown[i] <= revokedAt[i]
       /\ \A c \in replies[i] : c <= revokedAt[i]

AllFollow == Kept(log) /\ \A i \in Clients : Follows(i)

Following == Inv /\ AllFollow

\* The variables of the contract that are functions of several of ours.
At == [i \in Clients |-> Resumes(i)]
Now == [i \in Clients |-> CaughtUp(i)]

\* The first batch is a reading that ends with a snapshot and "connected".
LEMMA FirstBatchElements ==
  ASSUME NEW lg, IsLog(lg), NEW a \in 0..Cursor(lg), NEW n \in 1..Len(FirstBatch(lg, a))
  PROVE  /\ FirstBatch(lg, a)[n].type = "resync" =>
              Resync(lg, a) /\ FirstBatch(lg, a)[n].cursor = Cursor(lg)
         /\ FirstBatch(lg, a)[n].type = "event" => Broadcasted(lg, FirstBatch(lg, a)[n].cursor)
<1> DEFINE N == Cursor(lg)
           r == IF Resync(lg, a) THEN <<Frame("resync", N)>> ELSE EventsAfter(lg, a)
           t == <<Frame("state", N), Frame("connected", N)>>
<1>1. N \in Nat /\ N \in Cursors
  BY LenProperties, SubscriptionAssumption DEF IsLog, Cursor, Cursors
<1>2. t \in Seq(Frames) /\ Len(t) = 2 /\ t[1].type = "state" /\ t[2].type = "connected"
  <2> HIDE DEF N
  <2> QED
    BY <1>1 DEF Frame, Frames
<1>3. /\ r \in Seq(Frames)
      /\ \A m \in 1..Len(r) : /\ r[m].type = "resync" => Resync(lg, a) /\ r[m].cursor = N
                              /\ r[m].type = "event" => Broadcasted(lg, r[m].cursor)
  <2>1. CASE Resync(lg, a)
    <3>1. r = <<Frame("resync", N)>>
      BY <2>1
    <3> HIDE DEF r, N
    <3> QED
      BY <1>1, <2>1, <3>1 DEF Frame, Frames
  <2>2. CASE ~Resync(lg, a)
    <3>1. r = EventsAfter(lg, a) /\ r \in Seq(Frames) /\ Len(r) = N - a
      BY <2>2, EventsAfterElements
    <3>2. \A m \in 1..(N - a) : /\ r[m].type # "resync"
                                /\ r[m].type = "event" => Broadcasted(lg, r[m].cursor)
      <4>1. \A m \in 1..(N - a) : r[m] = [type |-> lg.kinds[a + m], cursor |-> a + m]
        BY <3>1, EventsAfterElements DEF Frame
      <4>2. \A m \in 1..(N - a) : lg.kinds[a + m] \in Kinds
        BY <1>1, ElementOfSeq DEF IsLog, Cursor
      <4> HIDE DEF r, N
      <4>3. ASSUME NEW m \in 1..(N - a)
            PROVE  r[m].type = lg.kinds[a + m] /\ r[m].cursor = a + m
        <5>1. r[m] = [type |-> lg.kinds[a + m], cursor |-> a + m]
          BY <4>1
        <5> QED
          BY <5>1
      <4>4. ASSUME NEW m \in 1..(N - a) PROVE a + m \in 1..Cursor(lg)
        BY <1>1 DEF N
      <4>5. ASSUME NEW m \in 1..(N - a), r[m].type = "event"
            PROVE  Broadcasted(lg, r[m].cursor)
        BY <4>3, <4>4, <4>5 DEF Broadcasted
      <4>6. ASSUME NEW m \in 1..(N - a) PROVE r[m].type # "resync"
        BY <4>2, <4>3 DEF Kinds
      <4> QED
        BY <4>5, <4>6
    <3> HIDE DEF r, N
    <3> QED
      BY <3>1, <3>2
  <2> QED
    BY <2>1, <2>2
<1>4. FirstBatch(lg, a) = r \o t
  BY DEF FirstBatch
<1> HIDE DEF r, t, N
<1>5. /\ Len(r \o t) = Len(r) + Len(t) /\ Len(r) \in Nat
      /\ \A m \in 1..(Len(r) + Len(t)) : (r \o t)[m] = IF m <= Len(r) THEN r[m] ELSE t[m - Len(r)]
  BY <1>2, <1>3, ConcatProperties, LenProperties
<1>6. CASE n <= Len(r)
  BY <1>3, <1>4, <1>5, <1>6 DEF N
<1>7. CASE ~(n <= Len(r))
  <2>1. n - Len(r) = 1 \/ n - Len(r) = 2
    BY <1>2, <1>4, <1>5, <1>7
  <2>2. FirstBatch(lg, a)[n] = t[n - Len(r)]
    BY <1>2, <1>4, <1>5, <1>7
  <2> QED
    BY <1>2, <2>1, <2>2
<1> QED
  BY <1>6, <1>7

\* What is read from where the page resumes follows it.
LEMMA ReadFollows ==
  ASSUME NEW lg, IsLog(lg), Kept(lg), NEW a \in 0..Cursor(lg),
         NEW cov \in Nat, cov <= Cursor(lg), a < cov => a < lg.oldest - 1,
         NEW q \in Seq(Frames), Reads(lg, a, q),
         \A n \in 1..Len(q) : q[n].type = "resync" => Resync(lg, a) /\ q[n].cursor = Cursor(lg),
         \A n \in 1..Len(q) : q[n].type = "event" => Broadcasted(lg, q[n].cursor),
         Resync(lg, a) => \A n \in 1..Len(q) : q[n].type # "event" /\ q[n].cursor = Cursor(lg)
  PROVE  Ahead(a, cov, q) /\ Justified(lg, a, q)
<1>1. Cursor(lg) \in Nat /\ a \in Nat /\ lg.oldest \in Int /\ lg.oldest <= Cursor(lg) + 1
      /\ \A n \in 1..Len(q) : q[n].cursor \in Nat
  BY LenProperties, BatchCursors DEF IsLog, Cursor
<1>2. CASE Resync(lg, a)
  <2>1. a < lg.oldest - 1 /\ a < Cursor(lg)
    BY <1>1, <1>2 DEF Resync
  <2>2. \A n \in 1..Len(q) : q[n].type # "event" /\ q[n].cursor = Cursor(lg)
    BY <1>2
  <2>3. Justified(lg, a, q)
    BY <2>1, <2>2 DEF Justified
  <2>4. a <= Cursor(lg) /\ cov <= Cursor(lg)
    BY <1>1
  <2>5. Ahead(a, cov, q)
    BY <2>2, <2>4 DEF Ahead
  <2> QED
    BY <2>3, <2>5
<1>3. CASE ~Resync(lg, a)
  <2>1. Justified(lg, a, q)
    BY <1>3 DEF Justified
  <2>2. cov <= a
    BY <1>1, <1>3 DEF Resync, Kept
  <2>3. \A n \in 1..Len(q) : Acknowledges(q[n]) =>
          a <= q[n].cursor /\ (q[n].type = "event" => a < q[n].cursor)
    BY DEF Reads
  <2>4. \A n \in 1..Len(q) : Acknowledges(q[n]) =>
          cov <= q[n].cursor /\ (q[n].type = "event" => cov < q[n].cursor)
    BY <1>1, <2>2, <2>3
  <2> QED
    BY <2>1, <2>3, <2>4 DEF Ahead
<1> QED
  BY <1>2, <1>3

LEMMA PollFollows ==
  ASSUME NEW lg, IsLog(lg), Kept(lg), NEW a \in 0..Cursor(lg),
         NEW cov \in Nat, cov <= Cursor(lg), a < cov => a < lg.oldest - 1
  PROVE  /\ Ahead(a, cov, PollBatch(lg, a)) /\ Justified(lg, a, PollBatch(lg, a))
         /\ PollBatch(lg, a) # <<>> =>
              \E n \in 1..Len(PollBatch(lg, a)) :
                Acknowledges(PollBatch(lg, a)[n]) /\ PollBatch(lg, a)[n].cursor = Cursor(lg)
<1> DEFINE N == Cursor(lg)
           q == PollBatch(lg, a)
<1>1. N \in Nat /\ a \in Nat /\ N \in Cursors
  BY LenProperties, SubscriptionAssumption DEF IsLog, Cursor, Cursors
<1>2. q \in Seq(Frames) /\ Reads(lg, a, q)
  BY PollReads
<1>3. CASE Resync(lg, a)
  <2>1. q = <<Frame("resync", N), Frame("state", N)>>
    BY <1>3 DEF PollBatch
  <2> HIDE DEF q, N
  <2>2. Len(q) = 2 /\ q[1].type = "resync" /\ q[1].cursor = N /\ q[2].type = "state" /\ q[2].cursor = N
    BY <1>1, <2>1 DEF Frame, Frames
  <2>3. \A n \in 1..Len(q) : n = 1 \/ n = 2
    BY <2>2
  <2>4. /\ \A n \in 1..Len(q) : q[n].type = "resync" => Resync(lg, a) /\ q[n].cursor = N
        /\ \A n \in 1..Len(q) : q[n].type # "event" /\ q[n].cursor = N
    BY <1>3, <2>2, <2>3
  <2>5. Ahead(a, cov, q) /\ Justified(lg, a, q)
    BY <1>2, <2>4, ReadFollows DEF N
  <2>6. 2 \in 1..Len(q) /\ Acknowledges(q[2])
    BY <2>2 DEF Acknowledges, Kinds
  <2> QED
    BY <2>2, <2>5, <2>6 DEF q, N
<1>4. CASE ~Resync(lg, a)
  <2>1. q = EventsAfter(lg, a) /\ Len(q) = N - a
    BY <1>4, EventsAfterElements DEF PollBatch
  <2>2. \A n \in 1..(N - a) : q[n] = [type |-> lg.kinds[a + n], cursor |-> a + n]
    BY <2>1, EventsAfterElements DEF Frame
  <2>3. \A n \in 1..(N - a) : lg.kinds[a + n] \in Kinds
    BY <1>1, ElementOfSeq DEF IsLog, Cursor
  <2> HIDE DEF q, N
  <2>4. ASSUME NEW n \in 1..Len(q) PROVE Acknowledges(q[n]) /\ q[n].cursor = a + n
    <3>1. q[n] = [type |-> lg.kinds[a + n], cursor |-> a + n] /\ lg.kinds[a + n] \in Kinds
      BY <2>1, <2>2, <2>3
    <3> QED
      BY <3>1 DEF Acknowledges
  <2>5. \A n \in 1..Len(q) : q[n].type # "resync"
    BY <2>4 DEF Acknowledges, Kinds
  <2>6. ASSUME NEW n \in 1..Len(q), q[n].type = "event" PROVE Broadcasted(lg, q[n].cursor)
    <3>1. q[n] = [type |-> lg.kinds[a + n], cursor |-> a + n]
      BY <2>1, <2>2
    <3>2. a + n \in 1..Cursor(lg)
      BY <1>1, <2>1 DEF N
    <3> QED
      BY <2>6, <3>1, <3>2 DEF Broadcasted
  <2>7. Ahead(a, cov, q) /\ Justified(lg, a, q)
    BY <1>2, <1>4, <2>5, <2>6, ReadFollows DEF N
  <2>8. q # <<>> => N - a \in 1..Len(q) /\ a + (N - a) = N
    BY <1>1, <1>2, <2>1, EmptySeq
  <2> QED
    BY <2>4, <2>7, <2>8 DEF q, N
<1> QED
  BY <1>3, <1>4

LEMMA FirstFollows ==
  ASSUME NEW lg, IsLog(lg), Kept(lg), NEW a \in 0..Cursor(lg),
         NEW cov \in Nat, cov <= Cursor(lg), a < cov => a < lg.oldest - 1
  PROVE  /\ Ahead(a, cov, FirstBatch(lg, a)) /\ Justified(lg, a, FirstBatch(lg, a))
         /\ \E n \in 1..Len(FirstBatch(lg, a)) :
              Acknowledges(FirstBatch(lg, a)[n]) /\ FirstBatch(lg, a)[n].cursor = Cursor(lg)
<1> DEFINE N == Cursor(lg)
           q == FirstBatch(lg, a)
<1>1. N \in Nat /\ a \in Nat /\ N \in Cursors
  BY LenProperties, SubscriptionAssumption DEF IsLog, Cursor, Cursors
<1>2. /\ q \in Seq(Frames) /\ Reads(lg, a, q) /\ Ordered(q, N, cov) /\ ShownBy(q, Len(q), N)
  BY FirstReads
<1>3. \A n \in 1..Len(q) :
        /\ q[n].type = "resync" => Resync(lg, a) /\ q[n].cursor = N
        /\ q[n].type = "event" => Broadcasted(lg, q[n].cursor)
  BY FirstBatchElements
<1>4. Resync(lg, a) => \A n \in 1..Len(q) : q[n].type # "event" /\ q[n].cursor = N
  <2> SUFFICES ASSUME Resync(lg, a)
               PROVE  \A n \in 1..Len(q) : q[n].type # "event" /\ q[n].cursor = N
    OBVIOUS
  <2>1. q = <<Frame("resync", N)>> \o <<Frame("state", N), Frame("connected", N)>>
    BY DEF FirstBatch
  <2> HIDE DEF q, N
  <2> DEFINE x == <<Frame("resync", N)>>
             y == <<Frame("state", N), Frame("connected", N)>>
  <2>2. /\ x \in Seq(Frames) /\ Len(x) = 1 /\ x[1].type = "resync" /\ x[1].cursor = N
        /\ y \in Seq(Frames) /\ Len(y) = 2 /\ y[1].type = "state" /\ y[1].cursor = N
        /\ y[2].type = "connected" /\ y[2].cursor = N
    BY <1>1 DEF Frame, Frames
  <2> HIDE DEF x, y
  <2>3. /\ Len(q) = Len(x) + Len(y)
        /\ \A n \in 1..(Len(x) + Len(y)) : q[n] = IF n <= Len(x) THEN x[n] ELSE y[n - Len(x)]
    BY <2>1, <2>2, ConcatProperties DEF x, y
  <2>4. /\ Len(q) = 3 /\ q[1].type = "resync" /\ q[2].type = "state" /\ q[3].type = "connected"
        /\ q[1].cursor = N /\ q[2].cursor = N /\ q[3].cursor = N
    BY <2>3, <2>2
  <2>5. \A n \in 1..Len(q) : n = 1 \/ n = 2 \/ n = 3
    BY <2>4
  <2> QED
    BY <2>4, <2>5
<1> HIDE DEF q
<1>5. Ahead(a, cov, q) /\ Justified(lg, a, q)
  BY <1>2, <1>3, <1>4, ReadFollows
<1>6. PICK n \in 1..Len(q) : Shows(q[n], N)
  BY <1>2 DEF ShownBy
<1>7. Acknowledges(q[n]) /\ q[n].cursor = N
  <2>1. q[n].cursor \in Nat /\ q[n].cursor <= N
    BY <1>2, BatchCursors DEF Ordered
  <2> QED
    BY <1>1, <1>6, <2>1 DEF Shows, Acknowledges, Kinds
<1> QED
  BY <1>5, <1>7 DEF q

LEMMA FollowsTypes ==
  ASSUME TypeOK, NEW i \in Clients
  PROVE  /\ Resumes(i) \in Cursors /\ Resumes(i) \in Nat /\ CaughtUp(i) \in BOOLEAN
         /\ shown[i] \in Nat /\ pending[i] \in Seq(Frames) /\ log.oldest \in Int
         /\ CaughtUp(i) <=> phase[i] = "live" /\ ~HasConnected(pending[i])
<1>1. ClientTypeOK(i) /\ IsLog(log)
  BY ClientTypes
<1>2. Resumes(i) \in Cursors /\ Cursors \subseteq Nat
  BY <1>1, SubscriptionAssumption DEF Resumes, ClientTypeOK, Cursors
<1>3. log.oldest \in Int
  <2>1. Cursor(log) \in Nat
    BY <1>1, LenProperties DEF IsLog, Cursor
  <2> QED
    BY <1>1, <2>1 DEF IsLog
<1>4. CaughtUp(i) <=> phase[i] = "live" /\ ~HasConnected(pending[i])
  BY DEF CaughtUp, HasConnected
<1>5. CaughtUp(i) \in BOOLEAN
  BY DEF CaughtUp
<1> QED
  BY <1>1, <1>2, <1>3, <1>4, <1>5 DEF ClientTypeOK

\* The log grows and forgets, the page and its batch stay.
LEMMA StaysFollowing ==
  ASSUME TypeOK, NEW i \in Clients, ClientInv(i), Follows(i),
         Grows(log, log'), log.oldest <= log'.oldest, log'.oldest \in Int,
         SamePage(i), SameBatch(i),
         revokedAt[i] # NoCursor => \A c \in replies'[i] : c <= revokedAt[i]
  PROVE  Follows(i)' /\ Resumes(i)' = Resumes(i) /\ CaughtUp(i)' = CaughtUp(i)
<1> USE DEF SamePage, SameBatch
<1>1. /\ Resumes(i) \in Nat /\ log.oldest \in Int /\ pending[i] \in Seq(Frames)
  BY FollowsTypes
<1>2. Resumes(i)' = Resumes(i) /\ CaughtUp(i)' = CaughtUp(i)
  BY DEF Resumes, CaughtUp
<1>3. Justified(log', Resumes(i), pending[i])
  <2>1. Cursor(log) \in Nat /\ Cursor(log') \in Nat
    BY LenProperties DEF Grows, IsLog, Cursor
  <2>2. \A c : Broadcasted(log, c) => Broadcasted(log', c)
    BY <2>1 DEF Broadcasted, Grows
  <2> QED
    BY <1>1, <2>2 DEF Follows, Justified
<1>4. Published(log', shown[i])
  <2>1. Cursor(log) \in Nat /\ Cursor(log') \in Nat
    BY LenProperties DEF Grows, IsLog, Cursor
  <2> QED
    BY <2>1 DEF Follows, Published, Grows
<1>5. Resumes(i) < covered[i] => Resumes(i) < log'.oldest - 1
  BY <1>1 DEF Follows
<1> QED
  BY <1>2, <1>3, <1>4, <1>5 DEF Follows, Active

\* A poll of a page whose batch is drained reads from where the page resumes.
LEMMA AnsweredFollows ==
  ASSUME TypeOK, NEW i \in Clients, ClientInv(i), Follows(i), Kept(log'),
         Grows(log, log'), log.oldest <= log'.oldest, log'.oldest \in Int,
         phase[i] = "live", pending[i] = <<>>, SamePage(i),
         PollBatch(log', after[i]) # <<>>,
         pending'[i] = PollBatch(log', after[i]), after'[i] = Cursor(log'),
         revokedAt[i] # NoCursor => \A c \in replies'[i] : c <= revokedAt[i]
  PROVE  Follows(i)' /\ Resumes(i)' = Resumes(i) /\ CaughtUp(i)' = CaughtUp(i)
<1> USE DEF SamePage
<1>1. /\ Resumes(i) \in Nat /\ log.oldest \in Int /\ covered[i] \in Nat /\ after[i] \in Nat
      /\ IsLog(log) /\ Cursor(log) \in Nat
  BY FollowsTypes, ClientTypes
<1>2. IsLog(log') /\ Cursor(log') \in Nat /\ Cursor(log) <= Cursor(log')
  <2>1. IsLog(log') /\ Cursor(log) <= Cursor(log')
    BY DEF Grows
  <2> QED
    BY <2>1, LenProperties DEF IsLog, Cursor
<1>3. after[i] = Resumes(i) /\ covered[i] <= after[i]
  <2>1. covered[i] <= after[i] /\ Ends(Resumes(i), after[i], <<>>)
    BY DEF Follows
  <2> QED
    BY <2>1, EmptySeq DEF Ends
<1>4. after[i] \in 0..Cursor(log') /\ covered[i] <= Cursor(log') /\ ~(after[i] < covered[i])
  BY <1>1, <1>2, <1>3 DEF ClientInv, Bounds
<1> DEFINE q == PollBatch(log', after[i])
<1>5. /\ Ahead(after[i], covered[i], q) /\ Justified(log', after[i], q) /\ ~HasConnected(q)
      /\ \E n \in 1..Len(q) : Acknowledges(q[n]) /\ q[n].cursor = Cursor(log')
  <2>1. ~HasConnected(q)
    BY <1>1, <1>2, <1>4, PollReads
  <2>2. after[i] < covered[i] => after[i] < log'.oldest - 1
    BY <1>4
  <2>3. /\ Ahead(after[i], covered[i], q) /\ Justified(log', after[i], q)
        /\ q # <<>> => \E n \in 1..Len(q) : Acknowledges(q[n]) /\ q[n].cursor = Cursor(log')
    BY <1>1, <1>2, <1>4, <2>2, PollFollows
  <2> QED
    BY <2>1, <2>3
<1>6. q # <<>> /\ pending'[i] = q
  OBVIOUS
<1> HIDE DEF q
<1>7. CaughtUp(i) /\ lastId[i] # NoCursor
  <2>1. CaughtUp(i)
    BY EmptySeq DEF CaughtUp
  <2> QED
    BY <2>1 DEF Follows
<1>8. Resumes(i)' = Resumes(i) /\ CaughtUp(i)' = TRUE
  BY <1>5, <1>6 DEF Resumes, CaughtUp, HasConnected
<1>9. Published(log', shown[i])
  BY <1>1, <1>2 DEF Follows, Published, Grows
<1>10. Ends(Resumes(i), Cursor(log'), q) /\ Seen(lastId[i], q)
  BY <1>5, <1>7 DEF Ends, Seen
<1>11. /\ base[i] <= Resumes(i) /\ ~(Resumes(i) < covered[i]) /\ Resumes(i) <= Cursor(log')
       /\ covered[i] <= Cursor(log')
       /\ revokedAt[i] # NoCursor => covered[i] <= revokedAt[i] /\ shown[i] <= revokedAt[i]
  BY <1>1, <1>2, <1>3, <1>4 DEF Follows
<1>12. CaughtUp(i) = TRUE
  BY <1>7 DEF CaughtUp
<1>13. Follows(i)'
  <2>1. /\ phase'[i] = "live" /\ base'[i] = base[i] /\ covered'[i] = covered[i]
        /\ lastId'[i] = lastId[i] /\ shown'[i] = shown[i] /\ revokedAt'[i] = revokedAt[i]
    OBVIOUS
  <2>2. Ahead(Resumes(i), covered[i], q) /\ Justified(log', Resumes(i), q)
    BY <1>3, <1>5
  <2> QED
    BY <1>6, <1>7, <1>8, <1>9, <1>10, <1>11, <2>1, <2>2 DEF Follows
<1> QED
  BY <1>8, <1>12, <1>13

\* The other pages follow their feed while one page, or none, takes a step.
LEMMA OthersFollow ==
  ASSUME Following, NEW i \in Clients, OnlyPage(i), NEW j \in Clients, j # i
  PROVE  Follows(j)' /\ Resumes(j)' = Resumes(j) /\ CaughtUp(j)' = CaughtUp(j)
<1>1. TypeOK /\ ClientInv(j) /\ Follows(j) /\ Grows(log, log) /\ log' = log
  BY ClientTypes, SameLogGrows DEF Following, AllFollow, Inv, OnlyPage
<1>2. SamePage(j) /\ SameBatch(j) /\ replies'[j] = replies[j]
  BY DEF OnlyPage
<1>3. log.oldest \in Int /\ log.oldest <= log.oldest
  BY <1>1, FollowsTypes
<1>4. revokedAt[j] # NoCursor => \A c \in replies'[j] : c <= revokedAt[j]
  BY <1>1, <1>2 DEF Follows
<1> QED
  BY <1>1, <1>2, <1>3, <1>4, StaysFollowing

\* What the contract sees of a step of one page.
LEMMA PageMoves ==
  ASSUME Following, NEW i \in Clients, OnlyPage(i), Follows(i)'
  PROVE  /\ AllFollow'
         /\ At' = [At EXCEPT ![i] = Resumes(i)']
         /\ Now' = [Now EXCEPT ![i] = CaughtUp(i)']
<1>1. \A j \in Clients : Follows(j)'
  BY OthersFollow
<1>2. Kept(log)'
  BY DEF Following, AllFollow, OnlyPage
<1>3. At' = [At EXCEPT ![i] = Resumes(i)']
  BY OthersFollow DEF At
<1>4. Now' = [Now EXCEPT ![i] = CaughtUp(i)']
  BY OthersFollow DEF Now
<1> QED
  BY <1>1, <1>2, <1>3, <1>4 DEF AllFollow

LEMMA PageStutters ==
  ASSUME Following, NEW i \in Clients, OnlyPage(i), Follows(i)',
         Resumes(i)' = Resumes(i), CaughtUp(i)' = CaughtUp(i),
         UNCHANGED <<handled, covered, shown, revokedAt>>
  PROVE  AllFollow' /\ UNCHANGED Contract!contractVars
<1>1. AllFollow' /\ At' = At /\ Now' = Now
  BY PageMoves DEF At, Now
<1>2. log' = log
  BY DEF OnlyPage
<1> QED
  BY <1>1, <1>2 DEF Contract!contractVars, Contract!pageVars, At, Now

\* The pages whose polls are answered read on, the others only see the log grow.
LEMMA AnswerFollows ==
  ASSUME Following, Grows(log, log'), Kept(log'), log.oldest <= log'.oldest, log'.oldest \in Int,
         NEW S, \A j \in S \cap Clients : Held(j), Answer(S, log'),
         UNCHANGED <<phase, conn, pageVars, revokedAt, historyVars>>,
         \A j \in Clients : revokedAt[j] # NoCursor => \A c \in replies'[j] : c <= revokedAt[j]
  PROVE  AllFollow' /\ At' = At /\ Now' = Now
<1> USE DEF pageVars, historyVars
<1> DEFINE got == {i \in S : PollBatch(log', after[i]) # <<>>}
<1>1. ASSUME NEW j \in Clients
      PROVE  Follows(j)' /\ Resumes(j)' = Resumes(j) /\ CaughtUp(j)' = CaughtUp(j)
  <2>1. TypeOK /\ ClientInv(j) /\ Follows(j) /\ SamePage(j) /\ authorized[j] \in BOOLEAN
    BY DEF Following, AllFollow, Inv, SamePage, TypeOK
  <2>2. /\ pending'[j] = IF j \in got THEN PollBatch(log', after[j]) ELSE pending[j]
        /\ after'[j] = IF j \in got THEN Cursor(log') ELSE after[j]
        /\ authorized'[j] = (authorized[j] /\ j \notin got)
    BY DEF Answer
  <2>3. revokedAt[j] # NoCursor => \A c \in replies'[j] : c <= revokedAt[j]
    OBVIOUS
  <2>4. CASE j \in got
    <3>1. Held(j) /\ PollBatch(log', after[j]) # <<>>
      BY <2>4
    <3>2. phase[j] = "live" /\ pending[j] = <<>>
      BY <2>1, <3>1 DEF Held, ClientInv, Places
    <3>3. pending'[j] = PollBatch(log', after[j]) /\ after'[j] = Cursor(log')
      BY <2>2, <2>4
    <3> QED
      BY <2>1, <2>3, <3>1, <3>2, <3>3, AnsweredFollows
  <2>5. CASE j \notin got
    <3>1. SameBatch(j)
      BY <2>1, <2>2, <2>5 DEF SameBatch
    <3> QED
      BY <2>1, <2>3, <3>1, StaysFollowing
  <2> QED
    BY <2>4, <2>5
<1>2. AllFollow'
  BY <1>1 DEF AllFollow
<1> QED
  BY <1>1, <1>2 DEF At, Now

LEMMA AppendImplements ==
  ASSUME Following, NEW kind \in Kinds, AppendEvent(kind),
         UNCHANGED <<phase, conn, pageVars, revokedAt, historyVars>>,
         \A j \in Clients : revokedAt[j] # NoCursor => \A c \in replies'[j] : c <= revokedAt[j]
  PROVE  AllFollow' /\ Contract!Publish
<1>1. TypeOK /\ IsLog(log) /\ Cursor(log) \in Nat
  <2>1. TypeOK /\ IsLog(log)
    BY DEF Following, Inv, TypeOK, IsLog, Kinds
  <2> QED
    BY <2>1, LenProperties DEF IsLog, Cursor
<1>2. PICK oldest \in log.oldest..(Cursor(log) + 1) :
        log' = [kinds |-> Append(log.kinds, kind), oldest |-> oldest]
  BY DEF AppendEvent
<1>3. Grows(log, log') /\ Cursor(log') = Cursor(log) + 1
  BY <1>1, <1>2, AppendGrows DEF AppendEvent
<1>4. /\ log'.kinds = Append(log.kinds, kind) /\ log'.oldest \in log.oldest..Cursor(log')
      /\ log'.oldest \in Int /\ log.oldest <= log'.oldest /\ Kept(log')
  <2>1. log.oldest \in Int
    BY <1>1 DEF IsLog
  <2> QED
    BY <1>1, <1>2, <1>3, <2>1 DEF Kept
<1>5. AllFollow' /\ At' = At /\ Now' = Now
  <2>1. Answer({i \in Clients : Held(i)}, log')
    BY DEF AppendEvent
  <2> QED
    BY <1>3, <1>4, <2>1, AnswerFollows
<1>6. Contract!Publish
  BY <1>4, <1>5 DEF Contract!Publish, Contract!pageVars, At, Now, Kinds, Cursor, pageVars, historyVars
<1> QED
  BY <1>5, <1>6

LEMMA PublishImplements ==
  ASSUME Following, NEW i \in Clients, Publish(i)
  PROVE  AllFollow' /\ Contract!Publish
<1>1. ASSUME NEW j \in Clients, revokedAt[j] # NoCursor, NEW c \in replies'[j]
      PROVE  c <= revokedAt[j]
  <2>1. j # i /\ Follows(j) /\ replies \in [Clients -> SUBSET Cursors]
    BY <1>1 DEF Publish, Following, AllFollow, Inv, TypeOK
  <2>2. c \in replies[j]
    BY <1>1, <2>1 DEF Publish
  <2> QED
    BY <1>1, <2>1, <2>2 DEF Follows
<1> QED
  BY <1>1, AppendImplements DEF Publish, Kinds

LEMMA BroadcastImplements ==
  ASSUME Following, Broadcast
  PROVE  AllFollow' /\ Contract!Publish
<1>1. \A j \in Clients : revokedAt[j] # NoCursor => \A c \in replies'[j] : c <= revokedAt[j]
  BY DEF Broadcast, Following, AllFollow, Follows
<1> QED
  BY <1>1, AppendImplements DEF Broadcast, Kinds

\* A wait that ends without an event changes nothing that the contract sees.
LEMMA WaitEndsImplements ==
  ASSUME Following, NEW w \in waiters, WaitEnds(w)
  PROVE  AllFollow' /\ UNCHANGED Contract!contractVars
<1>1. TypeOK /\ IsLog(log) /\ Kept(log) /\ log' = log
  BY DEF Following, AllFollow, Inv, TypeOK, IsLog, Kinds, WaitEnds
<1>2. Grows(log, log') /\ log'.oldest \in Int /\ log.oldest <= log'.oldest
  <2>1. log.oldest \in Int
    <3>1. Cursor(log) \in Nat
      BY <1>1, LenProperties DEF IsLog, Cursor
    <3> QED
      BY <1>1, <3>1 DEF IsLog
  <2> QED
    BY <1>1, <2>1, SameLogGrows
<1>3. \A j \in Clients : revokedAt[j] # NoCursor => \A c \in replies'[j] : c <= revokedAt[j]
  BY DEF WaitEnds, Following, AllFollow, Follows
<1>4. AllFollow' /\ At' = At /\ Now' = Now
  <2> DEFINE S == {i \in Clients : Held(i) /\ w = <<i, conn[i]>>}
  <2>1. Answer(S, log') /\ \A j \in S \cap Clients : Held(j)
    BY <1>1 DEF WaitEnds
  <2>2. UNCHANGED <<phase, conn, pageVars, revokedAt, historyVars>>
    BY DEF WaitEnds
  <2> HIDE DEF S
  <2> QED
    BY <1>1, <1>2, <1>3, <2>1, <2>2, AnswerFollows
<1> QED
  BY <1>1, <1>4 DEF WaitEnds, Contract!contractVars, Contract!pageVars, At, Now, pageVars, historyVars

\* An empty batch leads nowhere else.
LEMMA EmptyFollows ==
  /\ \A rs, cov : Ahead(rs, cov, <<>>)
  /\ \A lg, rs : Justified(lg, rs, <<>>)
  /\ \A rs, a : Ends(rs, a, <<>>) <=> rs = a
  /\ \A l : Seen(l, <<>>) <=> l # NoCursor
<1>1. Len(<<>>) = 0
  BY EmptySeq
<1>2. \A n \in 1..0 : FALSE
  OBVIOUS
<1> QED
  BY <1>1, <1>2 DEF Ahead, Justified, Ends, Seen

\* What the invariants say of one page.
LEMMA BeforeStep ==
  ASSUME Following, NEW i \in Clients
  PROVE  /\ Inv /\ TypeOK /\ ClientInv(i) /\ Follows(i) /\ ClientTypeOK(i) /\ IsLog(log) /\ Kept(log)
         /\ Cursor(log) \in Nat /\ log.oldest \in Int
         /\ after[i] \in Nat /\ covered[i] \in Nat /\ base[i] \in Nat /\ shown[i] \in Nat
         /\ lastId[i] \in Int /\ latest[i] \in Int /\ revokedAt[i] \in Int
         /\ Resumes(i) \in Nat /\ Resumes(i) \in Cursors
         /\ pending[i] \in Seq(Frames) /\ handled[i] \in Seq(Cursors)
         /\ CaughtUp(i) <=> phase[i] = "live" /\ ~HasConnected(pending[i])
<1>1. Inv /\ TypeOK /\ ClientInv(i) /\ Follows(i) /\ Kept(log)
  BY DEF Following, AllFollow, Inv
<1> QED
  BY <1>1, ClientTypes, FollowsTypes DEF ClientTypeOK

\* A page that was told nothing starts at the newest event; any other one resumes.
LEMMA ConnectImplements ==
  ASSUME Following, NEW i \in Clients, Connect(i)
  PROVE  AllFollow' /\ [Contract!ContractNext]_(Contract!contractVars)
<1> USE DEF pageVars
<1>1. /\ Inv /\ TypeOK /\ ClientInv(i) /\ Follows(i) /\ Cursor(log) \in Nat
      /\ covered[i] \in Nat /\ lastId[i] \in Int /\ handled[i] \in Seq(Cursors)
      /\ Resumes(i) \in Nat
  BY BeforeStep
<1>2. OnlyPage(i)
  BY <1>1, ConnectStep
<1>3. /\ phase[i] = "down" /\ pending[i] = <<>> /\ pending' = pending /\ lastId' = lastId
      /\ shown' = shown /\ replies' = replies /\ revokedAt' = revokedAt /\ handled' = handled
      /\ covered' = covered /\ log' = log
      /\ phase' \in [Clients -> Phases] /\ phase'[i] \in {"closed", "subscribing"}
  <2>1. phase \in [Clients -> Phases]
    BY <1>1 DEF TypeOK
  <2> QED
    BY <1>1, <2>1 DEF Connect, ClientInv, Places, Phases
<1>4. CaughtUp(i)' = FALSE /\ CaughtUp(i) = FALSE
  BY <1>3 DEF CaughtUp
<1>5. CASE revokedAt[i] # NoCursor
  <2>1. phase'[i] = "closed" /\ after' = after /\ base' = base
    BY <1>1, <1>5 DEF Connect, TypeOK
  <2>2. Resumes(i)' = Resumes(i)
    BY <1>3, <2>1 DEF Resumes
  <2>3. Follows(i)'
    BY <1>1, <1>3, <1>4, <2>1, <2>2 DEF Follows, Active
  <2> QED
    BY <1>2, <1>3, <1>4, <2>2, <2>3, PageStutters
<1>6. CASE revokedAt[i] = NoCursor /\ lastId[i] # NoCursor
  <2>1. /\ phase'[i] = "subscribing" /\ after'[i] = lastId[i] /\ base'[i] = base[i]
    BY <1>1, <1>6 DEF Connect, TypeOK
  <2>2. Resumes(i)' = Resumes(i) /\ after'[i] = Resumes(i)
    BY <1>3, <1>6, <2>1 DEF Resumes
  <2>3. Follows(i)'
    BY <1>1, <1>3, <1>4, <1>6, <2>1, <2>2 DEF Follows
  <2> QED
    BY <1>2, <1>3, <1>4, <2>2, <2>3, PageStutters
<1>7. CASE revokedAt[i] = NoCursor /\ lastId[i] = NoCursor
  <2>1. /\ phase'[i] = "subscribing" /\ after'[i] = Cursor(log) /\ base'[i] = Cursor(log)
    BY <1>1, <1>7 DEF Connect, TypeOK
  <2>2. Resumes(i)' = Cursor(log)
    BY <1>3, <1>7, <2>1 DEF Resumes
  <2>3. covered[i] <= Cursor(log)
    BY <1>1 DEF ClientInv, Bounds
  <2>4. Follows(i)'
    BY <1>1, <1>3, <1>4, <1>7, <2>1, <2>2, <2>3, EmptyFollows DEF Follows
  <2>5. AllFollow' /\ At' = [At EXCEPT ![i] = Cursor(log)] /\ Now' = Now
    <3>1. /\ AllFollow' /\ At' = [At EXCEPT ![i] = Cursor(log)]
          /\ Now' = [Now EXCEPT ![i] = CaughtUp(i)']
      BY <1>2, <2>2, <2>4, PageMoves
    <3> QED
      BY <1>4, <3>1 DEF Now
  <2>6. handled[i] = <<>>
    <3>1. \A m \in 1..Len(handled[i]) : handled[i][m] <= -1
      BY <1>1, <1>7 DEF ClientInv, Once, NoCursor
    <3>2. \A m \in 1..Len(handled[i]) : handled[i][m] \in Nat
      <4>1. Cursors \subseteq Nat
        BY SubscriptionAssumption DEF Cursors
      <4> QED
        BY <1>1, <4>1, ElementOfSeq
    <3>3. Len(handled[i]) \in Nat
      BY <1>1, LenProperties
    <3>4. Len(handled[i]) = 0
      BY <3>1, <3>2, <3>3
    <3> QED
      BY <1>1, <3>4, EmptySeq
  <2>7. Contract!Start(i)
    BY <1>3, <1>4, <1>7, <2>5, <2>6 DEF Contract!Start, Contract!NoLimit, NoCursor, At, Now, Cursor
  <2> QED
    BY <2>5, <2>7 DEF Contract!ContractNext
<1> QED
  BY <1>5, <1>6, <1>7

LEMMA SubscribeImplements ==
  ASSUME Following, NEW i \in Clients, Subscribe(i)
  PROVE  AllFollow' /\ [Contract!ContractNext]_(Contract!contractVars)
<1> USE DEF pageVars, historyVars
<1>1. /\ Inv /\ TypeOK /\ ClientInv(i) /\ Follows(i) /\ IsLog(log) /\ Kept(log)
      /\ Cursor(log) \in Nat /\ covered[i] \in Nat /\ after[i] \in Nat /\ Resumes(i) \in Nat
  BY BeforeStep
<1>2. OnlyPage(i)
  BY <1>1, SubscribeStep
<1> DEFINE q == FirstBatch(log, after[i])
<1>3. /\ phase[i] = "subscribing" /\ phase'[i] = "subscribed"
      /\ pending'[i] = q /\ after'[i] = Cursor(log)
      /\ lastId' = lastId /\ shown' = shown /\ replies' = replies /\ revokedAt' = revokedAt
      /\ handled' = handled /\ covered' = covered /\ base' = base /\ log' = log
  BY <1>1 DEF Subscribe, TypeOK
<1>4. CaughtUp(i)' = FALSE /\ CaughtUp(i) = FALSE /\ Resumes(i)' = Resumes(i)
  BY <1>3 DEF CaughtUp, Resumes
<1>5. after[i] = Resumes(i) /\ after[i] \in 0..Cursor(log) /\ covered[i] <= Cursor(log)
      /\ (after[i] < covered[i] => after[i] < log.oldest - 1)
  <2>1. after[i] = Resumes(i) /\ (Resumes(i) < covered[i] => Resumes(i) < log.oldest - 1)
    BY <1>1, <1>3 DEF Follows
  <2>2. after[i] <= Cursor(log) /\ covered[i] <= Cursor(log)
    BY <1>1 DEF ClientInv, Bounds
  <2> QED
    BY <1>1, <2>1, <2>2
<1>6. /\ Ahead(after[i], covered[i], q) /\ Justified(log, after[i], q)
      /\ \E n \in 1..Len(q) : Acknowledges(q[n]) /\ q[n].cursor = Cursor(log)
  BY <1>1, <1>5, FirstFollows
<1> HIDE DEF q
<1>7. Ends(Resumes(i), Cursor(log), q) /\ Seen(lastId[i], q)
  BY <1>6 DEF Ends, Seen
<1>8. Resumes(i) <= Cursor(log)
  BY <1>5
<1>9. Follows(i)'
  BY <1>1, <1>3, <1>4, <1>5, <1>6, <1>7, <1>8 DEF Follows
<1> QED
  BY <1>2, <1>3, <1>4, <1>9, PageStutters

\* A connection that opens has its first batch still ahead.
LEMMA OpenedImplements ==
  ASSUME Following, NEW i \in Clients, Opened(i)
  PROVE  AllFollow' /\ [Contract!ContractNext]_(Contract!contractVars)
<1> USE DEF historyVars
<1>1. Inv /\ TypeOK /\ ClientInv(i) /\ Follows(i)
  BY BeforeStep
<1>2. OnlyPage(i)
  BY <1>1, OpenedStep
<1>3. /\ phase[i] = "subscribed" /\ phase'[i] = "live"
      /\ pending' = pending /\ after' = after
      /\ lastId' = lastId /\ shown' = shown /\ replies' = replies /\ revokedAt' = revokedAt
      /\ handled' = handled /\ covered' = covered /\ base' = base /\ log' = log
  BY <1>1 DEF Opened, TypeOK
<1>4. HasConnected(pending[i])
  BY <1>1, <1>3 DEF ClientInv, Fresh
<1>5. CaughtUp(i)' = FALSE /\ CaughtUp(i) = FALSE /\ Resumes(i)' = Resumes(i)
  BY <1>3, <1>4 DEF CaughtUp, Resumes, HasConnected
<1>6. Follows(i)'
  BY <1>1, <1>3, <1>5 DEF Follows, Active
<1> QED
  BY <1>2, <1>3, <1>5, <1>6, PageStutters

LEMMA PollImplements ==
  ASSUME Following, NEW i \in Clients, Poll(i)
  PROVE  AllFollow' /\ [Contract!ContractNext]_(Contract!contractVars)
<1> USE DEF pageVars, historyVars
<1>1. /\ Inv /\ TypeOK /\ ClientInv(i) /\ Follows(i) /\ IsLog(log) /\ Kept(log) /\ log' = log
      /\ Grows(log, log) /\ log.oldest \in Int /\ log.oldest <= log.oldest
  BY BeforeStep, SameLogGrows DEF Poll
<1>2. OnlyPage(i) /\ phase[i] = "live" /\ pending[i] = <<>> /\ SamePage(i)
  BY <1>1, PollStep DEF Poll, SamePage
<1>3. revokedAt[i] # NoCursor => \A c \in replies'[i] : c <= revokedAt[i]
  BY <1>1 DEF Poll, Follows
<1>4. Follows(i)' /\ Resumes(i)' = Resumes(i) /\ CaughtUp(i)' = CaughtUp(i)
  <2>1. CASE PollBatch(log, after[i]) # <<>>
    <3>1. pending'[i] = PollBatch(log, after[i]) /\ after'[i] = Cursor(log)
      BY <2>1 DEF Poll, Answer
    <3> QED
      BY <1>1, <1>2, <1>3, <2>1, <3>1, AnsweredFollows
  <2>2. CASE PollBatch(log, after[i]) = <<>>
    <3>1. SameBatch(i)
      BY <2>2 DEF Poll, SameBatch
    <3> QED
      BY <1>1, <1>2, <1>3, <3>1, StaysFollowing
  <2> QED
    BY <2>1, <2>2
<1> QED
  BY <1>2, <1>4, PageStutters DEF Poll

LEMMA AuthorizeImplements ==
  ASSUME Following, NEW i \in Clients, Authorize(i)
  PROVE  AllFollow' /\ [Contract!ContractNext]_(Contract!contractVars)
<1> USE DEF pageVars, historyVars
<1>1. Inv /\ Follows(i)
  BY BeforeStep
<1>2. OnlyPage(i)
  BY <1>1, AuthorizeStep
<1>3. Resumes(i)' = Resumes(i) /\ CaughtUp(i)' = CaughtUp(i)
  BY DEF Authorize, Resumes, CaughtUp
<1>4. Follows(i)'
  BY <1>1, <1>3 DEF Authorize, Follows, Active
<1> QED
  BY <1>2, <1>3, <1>4, PageStutters DEF Authorize

\* A connection that ends takes what the batch still held with it.
LEMMA InactiveImplements ==
  ASSUME Following, NEW i \in Clients, OnlyPage(i),
         UNCHANGED <<lastId, shown, replies, revokedAt, handled, covered, base>>,
         phase'[i] \in {"down", "closed"}, pending'[i] = <<>>
  PROVE  AllFollow' /\ Contract!ContractNext
<1>1. Follows(i) /\ log' = log
  BY BeforeStep DEF OnlyPage
<1>2. Resumes(i)' = Resumes(i) /\ CaughtUp(i)' = FALSE
  BY DEF Resumes, CaughtUp
<1>3. Follows(i)'
  BY <1>1, <1>2, EmptyFollows DEF Follows, Active
<1>4. AllFollow' /\ At' = At /\ Now' = [Now EXCEPT ![i] = FALSE]
  <2>1. /\ AllFollow' /\ At' = [At EXCEPT ![i] = Resumes(i)']
        /\ Now' = [Now EXCEPT ![i] = CaughtUp(i)']
    BY <1>3, PageMoves
  <2> QED
    BY <1>2, <2>1 DEF At
<1>5. Contract!Disconnect(i)
  BY <1>1, <1>4 DEF Contract!Disconnect, At, Now
<1> QED
  BY <1>4, <1>5 DEF Contract!ContractNext

LEMMA EndImplements ==
  ASSUME Following, NEW i \in Clients, Deny(i) \/ Drop(i)
  PROVE  AllFollow' /\ Contract!ContractNext
<1> USE DEF pageVars, historyVars
<1>1. Inv /\ TypeOK
  BY BeforeStep
<1>2. OnlyPage(i)
  BY <1>1, DenyStep, DropStep
<1>3. phase'[i] \in {"down", "closed"} /\ pending'[i] = <<>>
  BY <1>1 DEF Deny, Drop, TypeOK
<1>4. UNCHANGED <<lastId, shown, replies, revokedAt, handled, covered, base>>
  BY DEF Deny, Drop
<1> QED
  BY <1>2, <1>3, <1>4, InactiveImplements

\* Everything the page was told, shown or promised is in the log by then.
LEMMA RevokeImplements ==
  ASSUME Following, NEW i \in Clients, Revoke(i)
  PROVE  AllFollow' /\ Contract!ContractNext
<1> USE DEF pageVars, historyVars, workerVars
<1>1. /\ Inv /\ TypeOK /\ ClientInv(i) /\ Follows(i) /\ Cursor(log) \in Nat /\ shown[i] \in Nat
  BY BeforeStep
<1>2. OnlyPage(i)
  BY <1>1, RevokeStep
<1>3. revokedAt[i] = NoCursor /\ revokedAt' = [revokedAt EXCEPT ![i] = Cursor(log)]
      /\ revokedAt'[i] = Cursor(log) /\ log' = log
  BY <1>1 DEF Revoke, TypeOK
<1>4. Resumes(i)' = Resumes(i) /\ CaughtUp(i)' = CaughtUp(i)
  BY DEF Revoke, Resumes, CaughtUp
<1>5. covered[i] <= Cursor(log) /\ shown[i] <= Cursor(log) /\ \A c \in replies[i] : c <= Cursor(log)
  BY <1>1 DEF ClientInv, Bounds, Follows, Published
<1>6. Follows(i)'
  BY <1>1, <1>3, <1>4, <1>5 DEF Revoke, Follows, Active
<1>7. AllFollow' /\ At' = At /\ Now' = Now
  <2>1. /\ AllFollow' /\ At' = [At EXCEPT ![i] = Resumes(i)']
        /\ Now' = [Now EXCEPT ![i] = CaughtUp(i)']
    BY <1>2, <1>6, PageMoves
  <2> QED
    BY <1>4, <2>1 DEF At, Now
<1>8. Contract!Bar(i)
  BY <1>3, <1>7 DEF Revoke, Contract!Bar, Contract!NoLimit, NoCursor, Cursor, At, Now
<1> QED
  BY <1>7, <1>8 DEF Contract!ContractNext

\* The snapshot a page may apply: what it then shows is published, allowed to it, and once
\* it is current no older than before or than the states up to an event it is at.
LEMMA AppliedFollows ==
  ASSUME Following, NEW i \in Clients, NEW c \in Cursors, c <= Cursor(log), ApplyState(i, c),
         revokedAt[i] # NoCursor => c <= revokedAt[i],
         NEW to \in Int, to <= Cursor(log),
         CaughtUp(i) => \A k \in 1..to : log.kinds[k] = "state" => k <= latest[i] \/ k <= c
  PROVE  /\ shown' = [shown EXCEPT ![i] = shown'[i]] /\ shown'[i] \in 0..Cursor(log)
         /\ Published(log, shown'[i])
         /\ revokedAt[i] # NoCursor => shown'[i] <= revokedAt[i]
         /\ CaughtUp(i) =>
              /\ shown[i] <= shown'[i]
              /\ \A k \in 1..to : log.kinds[k] = "state" => k <= shown'[i]
<1>1. /\ TypeOK /\ ClientInv(i) /\ Follows(i) /\ Cursor(log) \in Nat /\ shown[i] \in Nat
      /\ latest[i] \in Int /\ revokedAt[i] \in Int
      /\ CaughtUp(i) <=> phase[i] = "live" /\ ~HasConnected(pending[i])
  BY BeforeStep
<1>2. c \in Nat
  BY SubscriptionAssumption DEF Cursors
<1>3. shown \in [Clients -> Cursors]
  BY <1>1 DEF TypeOK
<1>4. Published(log, shown[i]) /\ (revokedAt[i] # NoCursor => shown[i] <= revokedAt[i])
  BY <1>1 DEF Follows
<1>5. CaughtUp(i) => 0 <= latest[i] /\ shown[i] = StateAt(log, latest[i])
  <2>1. CaughtUp(i) => 0 <= latest[i]
    BY <1>1 DEF ClientInv, Fresh
  <2> QED
    BY <1>1, <2>1 DEF ClientInv, Showing, NoCursor
<1>6. /\ StateAt(log, latest[i]) \in Nat
      /\ \/ StateAt(log, latest[i]) = 0
         \/ StateAt(log, latest[i]) \in 1..latest[i] /\ log.kinds[StateAt(log, latest[i])] = "state"
      /\ \A k \in 1..latest[i] : log.kinds[k] = "state" => k <= StateAt(log, latest[i])
  BY <1>1, StateAtIsNewest
<1>7. CASE c > latest[i]
  <2> DEFINE s == StateAt(log, c)
  <2>1. shown' = [shown EXCEPT ![i] = s] /\ shown'[i] = s
    BY <1>3, <1>7 DEF ApplyState
  <2>2. /\ s \in Nat /\ (s = 0 \/ (s \in 1..c /\ log.kinds[s] = "state"))
        /\ \A k \in 1..c : log.kinds[k] = "state" => k <= s
    BY <1>2, StateAtIsNewest
  <2> HIDE DEF s
  <2>3. s <= c /\ s \in 0..Cursor(log) /\ Published(log, s)
    BY <1>1, <1>2, <2>2 DEF Published
  <2>4. revokedAt[i] # NoCursor => s <= revokedAt[i]
    BY <1>1, <1>2, <2>2, <2>3
  <2>5. ASSUME CaughtUp(i) PROVE shown[i] <= s
    <3>1. CASE StateAt(log, latest[i]) = 0
      BY <1>5, <2>2, <2>5, <3>1
    <3>2. CASE StateAt(log, latest[i]) # 0
      <4>1. StateAt(log, latest[i]) \in 1..c
        BY <1>1, <1>2, <1>6, <1>7, <3>2
      <4> QED
        BY <1>5, <1>6, <2>2, <2>5, <3>2, <4>1
    <3> QED
      BY <3>1, <3>2
  <2>6. ASSUME CaughtUp(i), NEW k \in 1..to, log.kinds[k] = "state" PROVE k <= s
    <3>1. k <= latest[i] \/ k <= c
      BY <2>6
    <3>2. k \in 1..c
      BY <1>1, <1>2, <1>7, <3>1
    <3> QED
      BY <2>2, <2>6, <3>2
  <2> QED
    BY <2>1, <2>3, <2>4, <2>5, <2>6
<1>8. CASE ~(c > latest[i])
  <2>1. shown' = shown
    BY <1>8 DEF ApplyState
  <2>2. shown' = [shown EXCEPT ![i] = shown'[i]]
    BY <1>3, <2>1
  <2>3. shown[i] \in 0..Cursor(log)
    BY <1>1, <1>4 DEF Published
  <2>4. ASSUME CaughtUp(i), NEW k \in 1..to, log.kinds[k] = "state" PROVE k <= shown[i]
    <3>1. k \in 1..latest[i]
      BY <1>1, <1>2, <1>8, <2>4
    <3> QED
      BY <1>5, <1>6, <2>4, <3>1
  <2> QED
    BY <1>1, <1>4, <2>1, <2>2, <2>3, <2>4
<1> QED
  BY <1>7, <1>8

\* What a page past its first batch has acknowledged is in the snapshot it shows.
LEMMA CurrentKnows ==
  ASSUME Following, NEW i \in Clients, CaughtUp(i)
  PROVE  /\ Resumes(i) = lastId[i] /\ Resumes(i) <= Cursor(log) /\ 0 <= latest[i]
         /\ UpToDate(log, lastId[i], latest[i], after[i], pending[i])
         /\ shown[i] = StateAt(log, latest[i])
         /\ \A k \in 1..Resumes(i) : log.kinds[k] = "state" => k <= latest[i]
<1>1. /\ ClientInv(i) /\ Follows(i) /\ Cursor(log) \in Nat /\ lastId[i] \in Int
      /\ latest[i] \in Int
      /\ CaughtUp(i) <=> phase[i] = "live" /\ ~HasConnected(pending[i])
  BY BeforeStep
<1>2. Resumes(i) = lastId[i] /\ lastId[i] <= Cursor(log)
  BY <1>1 DEF Follows, Resumes, ClientInv, Bounds
<1>3. 0 <= latest[i] /\ UpToDate(log, lastId[i], latest[i], after[i], pending[i])
  BY <1>1 DEF ClientInv, Fresh
<1>4. shown[i] = StateAt(log, latest[i])
  BY <1>1, <1>3 DEF ClientInv, Showing, NoCursor
<1>5. \A k \in 1..Resumes(i) : log.kinds[k] = "state" => k <= latest[i]
  BY <1>1, <1>2, <1>3 DEF UpToDate
<1> QED
  BY <1>2, <1>3, <1>4, <1>5

\* A reply shows a newer state or, too late, nothing.
LEMMA ReplyImplements ==
  ASSUME Following, NEW i \in Clients, ReplyArrives(i)
  PROVE  AllFollow' /\ Contract!ContractNext
<1> USE DEF historyVars, workerVars
<1>1. /\ Inv /\ TypeOK /\ ClientInv(i) /\ Follows(i) /\ ClientTypeOK(i) /\ Cursor(log) \in Nat
      /\ Resumes(i) \in Nat /\ latest[i] \in Int
  BY BeforeStep
<1>2. OnlyPage(i)
  BY <1>1, ReplyStep
<1>3. PICK c \in replies[i] :
        /\ replies' = [replies EXCEPT ![i] = @ \ {c}]
        /\ ApplyState(i, c)
        /\ UNCHANGED <<log, waiters, workerVars, lastId, revokedAt, historyVars>>
  BY DEF ReplyArrives
<1>4. /\ c \in Cursors /\ c <= Cursor(log) /\ (revokedAt[i] # NoCursor => c <= revokedAt[i])
      /\ replies'[i] \subseteq replies[i]
  BY <1>1, <1>3 DEF ClientInv, Bounds, ClientTypeOK, Follows, TypeOK
<1>5. Resumes(i) <= Cursor(log) \/ ~CaughtUp(i)
  BY CurrentKnows
<1> DEFINE to == IF CaughtUp(i) THEN Resumes(i) ELSE 0
<1>6. /\ to \in Int /\ to <= Cursor(log)
      /\ CaughtUp(i) => \A k \in 1..to : log.kinds[k] = "state" => k <= latest[i] \/ k <= c
  BY <1>1, <1>5, CurrentKnows
<1>7. /\ shown' = [shown EXCEPT ![i] = shown'[i]] /\ shown'[i] \in 0..Cursor(log)
      /\ Published(log, shown'[i])
      /\ revokedAt[i] # NoCursor => shown'[i] <= revokedAt[i]
      /\ CaughtUp(i) =>
           /\ shown[i] <= shown'[i]
           /\ \A k \in 1..to : log.kinds[k] = "state" => k <= shown'[i]
  <2> HIDE DEF to
  <2> QED
    BY <1>3, <1>4, <1>6, AppliedFollows
<1>8. Resumes(i)' = Resumes(i) /\ CaughtUp(i)' = CaughtUp(i)
  BY <1>3 DEF Resumes, CaughtUp
<1>9. Follows(i)'
  BY <1>1, <1>3, <1>4, <1>7, <1>8 DEF Follows, Active
<1>10. AllFollow' /\ At' = At /\ Now' = Now
  <2>1. /\ AllFollow' /\ At' = [At EXCEPT ![i] = Resumes(i)']
        /\ Now' = [Now EXCEPT ![i] = CaughtUp(i)']
    BY <1>2, <1>9, PageMoves
  <2> QED
    BY <1>8, <2>1 DEF At, Now
<1>11. Contract!Showable(i, shown'[i], Resumes(i))
  BY <1>7 DEF Contract!Showable, Contract!Open, Contract!NoLimit, NoCursor, Published, Cursor
<1>12. Contract!Reply(i)
  BY <1>3, <1>7, <1>10, <1>11 DEF Contract!Reply, At, Now, Cursor
<1> QED
  BY <1>10, <1>12 DEF Contract!ContractNext

\* What the next frame of a batch means to the page.
LEMMA NextFrame ==
  ASSUME Following, NEW i \in Clients, Deliver(i)
  PROVE  /\ revokedAt[i] # NoCursor => Head(pending[i]).cursor <= revokedAt[i]
         /\ Acknowledges(Head(pending[i])) =>
              /\ Resumes(i) <= Head(pending[i]).cursor /\ covered[i] <= Head(pending[i]).cursor
              /\ Head(pending[i]).type = "event" =>
                   Resumes(i) < Head(pending[i]).cursor /\ covered[i] < Head(pending[i]).cursor
              /\ \A k \in (Resumes(i) + 1)..Head(pending[i]).cursor :
                   \/ log.kinds[k] = "state" \/ k <= covered[i]
                   \/ Head(pending[i]).type = "event" /\ k = Head(pending[i]).cursor
              /\ CaughtUp(i) => \A k \in 1..Head(pending[i]).cursor : log.kinds[k] = "state" =>
                   k <= latest[i] \/ (Head(pending[i]).type = "state" /\ k <= Head(pending[i]).cursor)
         /\ Head(pending[i]).type = "resync" =>
              Resumes(i) < log.oldest - 1 /\ Resumes(i) < Head(pending[i]).cursor
         /\ Head(pending[i]).type = "event" => Broadcasted(log, Head(pending[i]).cursor)
<1> DEFINE q == pending[i]
           f == Head(q)
<1>1. /\ Inv /\ Follows(i) /\ ClientInv(i) /\ Cursor(log) \in Nat /\ q \in Seq(Frames)
      /\ Resumes(i) \in Nat /\ covered[i] \in Nat /\ base[i] \in Nat /\ lastId[i] \in Int
      /\ handled[i] \in Seq(Cursors)
  BY BeforeStep
<1>2. /\ q # <<>> /\ f \in Frames /\ f.cursor \in Nat /\ f.cursor <= Cursor(log) /\ Active(i)
      /\ authorized[i] = TRUE
  BY <1>1, BeforeDelivery
<1>3. f = q[1] /\ 1 \in 1..Len(q)
  BY <1>1, <1>2, HeadAndTail
<1> HIDE DEF q, f
<1>4. revokedAt[i] # NoCursor => f.cursor <= revokedAt[i]
  BY <1>1, <1>2, <1>3 DEF ClientInv, Barred, q
<1>5. /\ f.type = "resync" => Resumes(i) < log.oldest - 1 /\ Resumes(i) < f.cursor
      /\ f.type = "event" => Broadcasted(log, f.cursor)
  BY <1>1, <1>3 DEF Follows, Justified, q
<1>6. ASSUME Acknowledges(f)
      PROVE  /\ Resumes(i) <= f.cursor /\ covered[i] <= f.cursor
             /\ f.type = "event" => Resumes(i) < f.cursor /\ covered[i] < f.cursor
  BY <1>1, <1>3, <1>6 DEF Follows, Ahead, q
<1>7. lastId[i] <= Resumes(i) /\ base[i] <= Resumes(i)
  <2>1. base[i] <= Resumes(i)
    BY <1>1 DEF Follows
  <2>2. lastId[i] <= Resumes(i)
    BY <1>1 DEF Resumes, NoCursor
  <2> QED
    BY <2>1, <2>2
<1>8. ASSUME Acknowledges(f), NEW k \in (Resumes(i) + 1)..f.cursor
      PROVE  \/ log.kinds[k] = "state" \/ k <= covered[i]
             \/ f.type = "event" /\ k = f.cursor
  <2>1. k \in (base[i] + 1)..f.cursor /\ k > lastId[i]
    <3>1. k \in Int /\ Resumes(i) + 1 <= k /\ k <= f.cursor
      BY <1>1, <1>2
    <3> QED
      BY <1>1, <1>2, <1>7, <3>1
  <2>2. ToldOrAnnounced(log, handled[i], covered[i], q, 1, base[i], f.cursor)
    BY <1>1, <1>2, <1>3, <1>8 DEF ClientInv, Complete, q
  <2>3. Told(log, handled[i], covered[i], k) \/ AnnouncedBy(q, 1, k)
    BY <2>1, <2>2 DEF ToldOrAnnounced
  <2>4. AnnouncedBy(q, 1, k) => f.type = "event" /\ k = f.cursor
    BY <1>3, <1>8 DEF AnnouncedBy, Announces, Acknowledges, Kinds
  <2>5. ASSUME NEW m \in 1..Len(handled[i]) PROVE handled[i][m] # k
    <3>1. handled[i][m] <= lastId[i]
      BY <1>1 DEF ClientInv, Once
    <3> QED
      BY <1>1, <2>1, <3>1
  <2> QED
    BY <2>3, <2>4, <2>5 DEF Told
<1>9. ASSUME Acknowledges(f), CaughtUp(i), NEW k \in 1..f.cursor, log.kinds[k] = "state"
      PROVE  k <= latest[i] \/ (f.type = "state" /\ k <= f.cursor)
  <2>1. UpToDate(log, lastId[i], latest[i], after[i], q)
    BY <1>9, CurrentKnows DEF q
  <2>2. k \in 1..Cursor(log) /\ k <= f.cursor
    BY <1>1, <1>2
  <2>3. k <= latest[i] \/ ShownBy(q, 1, k)
    BY <1>3, <1>9, <2>1, <2>2 DEF UpToDate
  <2>4. ShownBy(q, 1, k) => f.type = "state"
    BY <1>3 DEF ShownBy, Shows
  <2> QED
    BY <2>2, <2>3, <2>4
<1> QED
  BY <1>4, <1>5, <1>6, <1>8, <1>9 DEF f, q

\* What is left of a batch goes on from the frame that was taken.
LEMMA RestOfBatch ==
  ASSUME Following, NEW i \in Clients, Deliver(i)
  PROVE  /\ Acknowledges(Head(pending[i])) =>
              /\ Ahead(Head(pending[i]).cursor, covered[i], Tail(pending[i]))
              /\ Ends(Head(pending[i]).cursor, after[i], Tail(pending[i]))
         /\ Head(pending[i]).type = "resync" =>
              Ahead(Resumes(i), Head(pending[i]).cursor, Tail(pending[i]))
         /\ Head(pending[i]).type = "connected" => Tail(pending[i]) = <<>>
         /\ ~Acknowledges(Head(pending[i])) =>
              Ends(Resumes(i), after[i], Tail(pending[i])) /\ Seen(lastId[i], Tail(pending[i]))
         /\ \A rs : Justified(log, rs, Tail(pending[i]))
         /\ Head(pending[i]).type # "connected" =>
              (HasConnected(Tail(pending[i])) <=> HasConnected(pending[i]))
<1> DEFINE q == pending[i]
           f == Head(q)
           r == Tail(q)
<1>1. /\ Inv /\ Follows(i) /\ ClientInv(i) /\ q \in Seq(Frames)
      /\ Resumes(i) \in Nat /\ covered[i] \in Nat /\ after[i] \in Nat /\ lastId[i] \in Int
  BY BeforeStep
<1>2. /\ q # <<>> /\ f \in Frames /\ f.cursor \in Nat /\ f.cursor <= after[i]
      /\ phase[i] = "live"
  BY <1>1, BeforeDelivery
<1>3. /\ f = q[1] /\ Len(q) = Len(r) + 1 /\ Len(r) \in Nat
      /\ \A n \in 1..Len(r) : r[n] = q[n + 1] /\ n + 1 \in 1..Len(q)
      /\ \A n \in 1..Len(q) : n = 1 \/ (n - 1 \in 1..Len(r) /\ r[n - 1] = q[n])
  BY <1>1, <1>2, HeadAndTail
<1>4. /\ f.type = "connected" => r = <<>>
      /\ \A n \in 1..Len(r) : f.cursor <= r[n].cursor /\ (r[n].type = "event" => f.cursor < r[n].cursor)
  <2>1. Ordered(q, after[i], covered[i])
    BY <1>1 DEF ClientInv, q
  <2> QED
    BY <1>1, <1>2, <2>1, OrderedAfterDelivery
<1>5. \A n \in 1..Len(r) : r[n].type # "resync"
  <2>1. \A n \in 1..Len(q) : q[n].type = "resync" => n = 1
    BY <1>1 DEF ClientInv, Ordered, q
  <2> HIDE DEF q, f, r
  <2>2. ASSUME NEW n \in 1..Len(r) PROVE r[n].type # "resync"
    <3>1. r[n] = q[n + 1] /\ n + 1 \in 1..Len(q) /\ n + 1 # 1
      BY <1>3
    <3> QED
      BY <2>1, <3>1
  <2> QED
    BY <2>2
<1> HIDE DEF q, f, r
<1>6. Ahead(Resumes(i), covered[i], r)
  <2>1. Ahead(Resumes(i), covered[i], q)
    BY <1>1 DEF Follows, q
  <2> QED
    BY <1>3, <2>1 DEF Ahead
<1>7. \A rs : Justified(log, rs, r)
  <2>1. Justified(log, Resumes(i), q)
    BY <1>1 DEF Follows, q
  <2>2. \A n \in 1..Len(r) : r[n].type = "event" => Broadcasted(log, r[n].cursor)
    BY <1>3, <2>1 DEF Justified
  <2> QED
    BY <1>5, <2>2 DEF Justified
<1>8. Ends(Resumes(i), after[i], q) /\ Seen(lastId[i], q)
  BY <1>1, <1>2 DEF Follows, q
<1>9. ASSUME Acknowledges(f)
      PROVE  Ahead(f.cursor, covered[i], r) /\ Ends(f.cursor, after[i], r)
  <2>1. Ahead(f.cursor, covered[i], r)
    BY <1>4, <1>6 DEF Ahead
  <2>2. Resumes(i) <= f.cursor
    BY <1>9, NextFrame DEF f, q
  <2>3. Ends(f.cursor, after[i], r)
    <3>1. CASE Resumes(i) = after[i]
      <4>1. f.cursor = after[i]
        BY <1>1, <1>2, <2>2, <3>1
      <4> QED
        BY <4>1 DEF Ends
    <3>2. CASE Resumes(i) # after[i]
      <4>1. PICK n \in 1..Len(q) : Acknowledges(q[n]) /\ q[n].cursor = after[i]
        BY <1>8, <3>2 DEF Ends
      <4>2. n = 1 \/ (n - 1 \in 1..Len(r) /\ r[n - 1] = q[n])
        BY <1>3
      <4>3. CASE n = 1
        BY <1>3, <4>1, <4>3 DEF Ends
      <4>4. CASE n # 1
        BY <4>1, <4>2, <4>4 DEF Ends
      <4> QED
        BY <4>3, <4>4
    <3> QED
      BY <3>1, <3>2
  <2> QED
    BY <2>1, <2>3
<1>10. ASSUME f.type = "resync" PROVE Ahead(Resumes(i), f.cursor, r)
  BY <1>4, <1>6 DEF Ahead
<1>11. ASSUME ~Acknowledges(f)
       PROVE  Ends(Resumes(i), after[i], r) /\ Seen(lastId[i], r)
  <2>1. ASSUME NEW n \in 1..Len(q), Acknowledges(q[n])
        PROVE  n - 1 \in 1..Len(r) /\ r[n - 1] = q[n]
    BY <1>3, <1>11, <2>1
  <2>2. Ends(Resumes(i), after[i], r)
    BY <1>8, <2>1 DEF Ends
  <2>3. Seen(lastId[i], r)
    BY <1>8, <2>1 DEF Seen
  <2> QED
    BY <2>2, <2>3
<1>12. ASSUME f.type # "connected" PROVE HasConnected(r) <=> HasConnected(q)
  <2>1. HasConnected(r) => HasConnected(q)
    BY <1>3 DEF HasConnected
  <2>2. HasConnected(q) => HasConnected(r)
    BY <1>3, <1>12 DEF HasConnected
  <2> QED
    BY <2>1, <2>2
<1> QED
  BY <1>4, <1>7, <1>9, <1>10, <1>11, <1>12 DEF f, q, r

\* The page still follows its feed after a frame that takes it to rs2 and its markers to cov2.
LEMMA DeliveredFollows ==
  ASSUME Following, NEW i \in Clients, Deliver(i), NEW rs2, NEW cov2,
         Resumes(i)' = rs2, covered'[i] = cov2,
         base[i] <= rs2, rs2 <= after[i], cov2 <= after[i], rs2 < cov2 => rs2 < log.oldest - 1,
         Ahead(rs2, cov2, Tail(pending[i])), Ends(rs2, after[i], Tail(pending[i])),
         lastId'[i] # NoCursor \/ (lastId'[i] = lastId[i] /\ ~Acknowledges(Head(pending[i]))),
         CaughtUp(i)' => CaughtUp(i) \/ lastId'[i] # NoCursor,
         Published(log, shown'[i]),
         revokedAt[i] # NoCursor => cov2 <= revokedAt[i] /\ shown'[i] <= revokedAt[i]
  PROVE  Follows(i)'
<1>1. /\ Inv /\ Follows(i)
  BY BeforeStep
<1>2. pending'[i] = Tail(pending[i]) /\ phase[i] = "live" /\ Active(i)
  BY <1>1, BeforeDelivery
<1>3. /\ log' = log /\ phase' = phase /\ after' = after /\ replies' = replies
      /\ revokedAt' = revokedAt /\ base' = base
  BY DEF Deliver
<1>4. Justified(log, rs2, Tail(pending[i]))
  BY RestOfBatch
<1>5. Seen(lastId'[i], Tail(pending[i]))
  <2>1. CASE lastId'[i] # NoCursor
    BY <2>1 DEF Seen
  <2>2. CASE lastId'[i] = lastId[i] /\ ~Acknowledges(Head(pending[i]))
    BY <2>2, RestOfBatch
  <2> QED
    BY <2>1, <2>2
<1>6. CaughtUp(i)' => lastId'[i] # NoCursor
  <2>1. CaughtUp(i) => lastId[i] # NoCursor
    BY <1>1 DEF Follows
  <2> QED
    BY <2>1
<1> QED
  BY <1>1, <1>2, <1>3, <1>4, <1>5, <1>6 DEF Follows, Active

\* An event in its turn: the page is told of it.
LEMMA EventImplements ==
  ASSUME Following, NEW i \in Clients, Deliver(i), Head(pending[i]).type = "event"
  PROVE  AllFollow' /\ Contract!ContractNext
<1> DEFINE f == Head(pending[i])
<1>1. /\ Inv /\ TypeOK /\ Follows(i) /\ Cursor(log) \in Nat /\ Resumes(i) \in Nat
      /\ covered[i] \in Nat /\ base[i] \in Nat /\ shown[i] \in Nat /\ latest[i] \in Int
      /\ CaughtUp(i) <=> phase[i] = "live" /\ ~HasConnected(pending[i])
  BY BeforeStep
<1>2. /\ f.cursor \in Nat /\ f.cursor <= Cursor(log) /\ f.cursor <= after[i] /\ after[i] \in Nat
      /\ pending'[i] = Tail(pending[i]) /\ pending[i] # <<>>
  BY <1>1, BeforeDelivery
<1>3. OnlyPage(i)
  BY <1>1, DeliverStep
<1>4. Acknowledges(f)
  BY DEF Acknowledges, Kinds
<1>5. /\ Resumes(i) < f.cursor /\ covered[i] < f.cursor
      /\ revokedAt[i] # NoCursor => f.cursor <= revokedAt[i]
      /\ \A k \in (Resumes(i) + 1)..f.cursor :
           log.kinds[k] = "state" \/ k <= covered[i] \/ k = f.cursor
      /\ CaughtUp(i) => \A k \in 1..f.cursor : log.kinds[k] = "state" => k <= latest[i]
  BY <1>4, NextFrame
<1>6. /\ Ahead(f.cursor, covered[i], Tail(pending[i]))
      /\ Ends(f.cursor, after[i], Tail(pending[i]))
      /\ HasConnected(Tail(pending[i])) <=> HasConnected(pending[i])
  BY <1>4, RestOfBatch
<1>7. OnEvent(i, f.cursor)
  BY DEF Deliver
<1> HIDE DEF f
<1>8. /\ handled' = [handled EXCEPT ![i] = Append(@, f.cursor)] /\ lastId'[i] = f.cursor
      /\ shown' = shown /\ covered' = covered
  BY <1>1, <1>7 DEF OnEvent, TypeOK
<1>9. /\ log' = log /\ phase' = phase /\ revokedAt' = revokedAt
  BY DEF Deliver
<1>10. Resumes(i)' = f.cursor /\ f.cursor # NoCursor
  BY <1>2, <1>8 DEF Resumes, NoCursor
<1>11. CaughtUp(i)' = CaughtUp(i)
  <2>1. CaughtUp(i)' <=> phase'[i] = "live" /\ ~HasConnected(pending'[i])
    BY DEF CaughtUp, HasConnected
  <2>2. CaughtUp(i)' <=> CaughtUp(i)
    BY <1>1, <1>2, <1>6, <1>9, <2>1
  <2> QED
    BY <2>2 DEF CaughtUp
<1>12. Follows(i)'
  <2>1. base[i] <= f.cursor /\ covered[i] <= after[i] /\ ~(f.cursor < covered[i])
    BY <1>1, <1>2, <1>5 DEF Follows
  <2>2. /\ Published(log, shown'[i])
        /\ revokedAt[i] # NoCursor => covered[i] <= revokedAt[i] /\ shown'[i] <= revokedAt[i]
    BY <1>1, <1>8 DEF Follows
  <2>3. covered'[i] = covered[i] /\ lastId'[i] # NoCursor
    BY <1>8, <1>10
  <2> QED
    BY <1>2, <1>6, <1>10, <2>1, <2>2, <2>3, DeliveredFollows
<1>13. AllFollow' /\ At' = [At EXCEPT ![i] = f.cursor] /\ Now' = Now
  <2>1. /\ AllFollow' /\ At' = [At EXCEPT ![i] = Resumes(i)']
        /\ Now' = [Now EXCEPT ![i] = CaughtUp(i)']
    BY <1>3, <1>12, PageMoves
  <2> QED
    BY <1>10, <1>11, <2>1 DEF Now
<1>14. f.cursor \in 1..Len(log.kinds) /\ log.kinds[f.cursor] = "event"
  BY NextFrame DEF Broadcasted, f, Cursor
<1>15. Contract!Open(i, f.cursor)
  BY <1>5, <1>14 DEF Contract!Open, Contract!NoLimit, NoCursor
<1>16. Contract!Told(i, f.cursor - 1)
  <2>1. \A k \in (Resumes(i) + 1)..(f.cursor - 1) : log.kinds[k] = "state" \/ k <= covered[i]
    BY <1>1, <1>2, <1>5
  <2> QED
    BY <2>1 DEF Contract!Told
<1>17. Contract!Showable(i, shown[i], f.cursor)
  <2>1. Contract!Open(i, shown[i]) /\ Published(log, shown[i]) /\ shown[i] <= shown[i]
    BY <1>1 DEF Follows, Published, Contract!Open, Contract!NoLimit, NoCursor, Cursor
  <2>2. CaughtUp(i) => \A k \in 1..f.cursor : log.kinds[k] = "state" => k <= shown[i]
    <3> SUFFICES ASSUME CaughtUp(i), NEW k \in 1..f.cursor, log.kinds[k] = "state"
                 PROVE  k <= shown[i]
      OBVIOUS
    <3>1. k \in 1..latest[i]
      BY <1>1, <1>2, <1>5
    <3>2. shown[i] = StateAt(log, latest[i])
      BY CurrentKnows
    <3>3. k <= StateAt(log, latest[i])
      BY <1>1, <3>1, StateAtIsNewest
    <3> QED
      BY <3>2, <3>3
  <2> QED
    BY <2>1, <2>2 DEF Contract!Showable, Published
<1>18. Contract!Tell(i)
  BY <1>5, <1>8, <1>9, <1>13, <1>14, <1>15, <1>16, <1>17 DEF Contract!Tell, At, Now
<1> QED
  BY <1>13, <1>18 DEF Contract!ContractNext

\* A snapshot: the page has everything up to it, whether it applies it or not.
LEMMA StateImplements ==
  ASSUME Following, NEW i \in Clients, Deliver(i), Head(pending[i]).type = "state"
  PROVE  AllFollow' /\ Contract!ContractNext
<1> DEFINE f == Head(pending[i])
<1>1. /\ Inv /\ TypeOK /\ Follows(i) /\ Cursor(log) \in Nat /\ Resumes(i) \in Nat
      /\ covered[i] \in Nat /\ base[i] \in Nat /\ shown[i] \in Nat /\ latest[i] \in Int
      /\ CaughtUp(i) <=> phase[i] = "live" /\ ~HasConnected(pending[i])
  BY BeforeStep
<1>2. /\ f.cursor \in Nat /\ f.cursor <= Cursor(log) /\ f.cursor <= after[i] /\ after[i] \in Nat
      /\ f.cursor \in Cursors /\ pending'[i] = Tail(pending[i]) /\ pending[i] # <<>>
  BY <1>1, BeforeDelivery
<1>3. OnlyPage(i)
  BY <1>1, DeliverStep
<1>4. Acknowledges(f)
  BY DEF Acknowledges, Kinds
<1>5. /\ Resumes(i) <= f.cursor /\ covered[i] <= f.cursor
      /\ revokedAt[i] # NoCursor => f.cursor <= revokedAt[i]
      /\ \A k \in (Resumes(i) + 1)..f.cursor : log.kinds[k] = "state" \/ k <= covered[i]
      /\ CaughtUp(i) => \A k \in 1..f.cursor : log.kinds[k] = "state" => k <= latest[i] \/ k <= f.cursor
  BY <1>4, NextFrame
<1>6. /\ Ahead(f.cursor, covered[i], Tail(pending[i]))
      /\ Ends(f.cursor, after[i], Tail(pending[i]))
      /\ HasConnected(Tail(pending[i])) <=> HasConnected(pending[i])
  BY <1>4, RestOfBatch
<1>7. OnState(i, f.cursor)
  BY DEF Deliver
<1> HIDE DEF f
<1>8. /\ lastId'[i] = f.cursor /\ handled' = handled /\ covered' = covered
  BY <1>1, <1>7 DEF OnState, TypeOK
<1>9. /\ log' = log /\ phase' = phase /\ revokedAt' = revokedAt
  BY DEF Deliver
<1>10. Resumes(i)' = f.cursor /\ f.cursor # NoCursor
  BY <1>2, <1>8 DEF Resumes, NoCursor
<1>11. CaughtUp(i)' = CaughtUp(i)
  <2>1. CaughtUp(i)' <=> phase'[i] = "live" /\ ~HasConnected(pending'[i])
    BY DEF CaughtUp, HasConnected
  <2>2. CaughtUp(i)' <=> CaughtUp(i)
    BY <1>1, <1>2, <1>6, <1>9, <2>1
  <2> QED
    BY <2>2 DEF CaughtUp
<1>12. /\ shown' = [shown EXCEPT ![i] = shown'[i]] /\ shown'[i] \in 0..Cursor(log)
       /\ Published(log, shown'[i])
       /\ revokedAt[i] # NoCursor => shown'[i] <= revokedAt[i]
       /\ CaughtUp(i) =>
            /\ shown[i] <= shown'[i]
            /\ \A k \in 1..f.cursor : log.kinds[k] = "state" => k <= shown'[i]
  <2>1. f.cursor \in Int /\ ApplyState(i, f.cursor)
    BY <1>2, <1>7 DEF OnState
  <2> QED
    BY <1>2, <1>5, <2>1, AppliedFollows
<1>13. Follows(i)'
  <2>1. base[i] <= f.cursor /\ covered[i] <= after[i] /\ ~(f.cursor < covered[i])
    BY <1>1, <1>2, <1>5 DEF Follows
  <2>2. revokedAt[i] # NoCursor => covered[i] <= revokedAt[i] /\ shown'[i] <= revokedAt[i]
    BY <1>1, <1>12 DEF Follows
  <2>3. covered'[i] = covered[i] /\ lastId'[i] # NoCursor
    BY <1>8, <1>10
  <2> QED
    BY <1>2, <1>6, <1>10, <1>12, <2>1, <2>2, <2>3, DeliveredFollows
<1>14. AllFollow' /\ At' = [At EXCEPT ![i] = f.cursor] /\ Now' = Now
  <2>1. /\ AllFollow' /\ At' = [At EXCEPT ![i] = Resumes(i)']
        /\ Now' = [Now EXCEPT ![i] = CaughtUp(i)']
    BY <1>3, <1>13, PageMoves
  <2> QED
    BY <1>10, <1>11, <2>1 DEF Now
<1>15. f.cursor \in 0..Len(log.kinds) /\ shown'[i] \in 0..Len(log.kinds)
  BY <1>1, <1>2, <1>12 DEF Cursor
<1>16. Contract!Open(i, f.cursor) /\ Contract!Told(i, f.cursor)
  BY <1>5, <1>15 DEF Contract!Open, Contract!NoLimit, NoCursor, Contract!Told
<1>17. Contract!Showable(i, shown'[i], f.cursor)
  BY <1>12, <1>15 DEF Contract!Showable, Contract!Open, Contract!NoLimit, NoCursor, Published
<1>18. Contract!Acknowledge(i)
  <2>1. /\ f.cursor >= At[i] /\ At' = [At EXCEPT ![i] = f.cursor]
        /\ shown' = [shown EXCEPT ![i] = shown'[i]]
    BY <1>1, <1>2, <1>5, <1>12, <1>14 DEF At
  <2> QED
    BY <1>8, <1>9, <1>14, <1>15, <1>16, <1>17, <2>1 DEF Contract!Acknowledge, At, Now
<1> QED
  BY <1>14, <1>18 DEF Contract!ContractNext

\* A marker: the page is told of events that are gone, and has not moved yet.
LEMMA ResyncImplements ==
  ASSUME Following, NEW i \in Clients, Deliver(i), Head(pending[i]).type = "resync"
  PROVE  AllFollow' /\ Contract!ContractNext
<1> DEFINE f == Head(pending[i])
<1>1. /\ Inv /\ TypeOK /\ Follows(i) /\ Cursor(log) \in Nat /\ Resumes(i) \in Nat
      /\ covered[i] \in Nat /\ base[i] \in Nat /\ log.oldest \in Int
      /\ CaughtUp(i) <=> phase[i] = "live" /\ ~HasConnected(pending[i])
  BY BeforeStep
<1>2. /\ f.cursor \in Nat /\ f.cursor <= Cursor(log) /\ f.cursor <= after[i] /\ after[i] \in Nat
      /\ covered[i] <= f.cursor /\ Active(i)
      /\ pending'[i] = Tail(pending[i]) /\ pending[i] # <<>>
  BY <1>1, BeforeDelivery
<1>3. OnlyPage(i)
  BY <1>1, DeliverStep
<1>4. ~Acknowledges(f)
  BY DEF Acknowledges, Kinds
<1>5. /\ Resumes(i) < log.oldest - 1 /\ Resumes(i) < f.cursor
      /\ revokedAt[i] # NoCursor => f.cursor <= revokedAt[i]
  BY NextFrame
<1>6. /\ Ahead(Resumes(i), f.cursor, Tail(pending[i]))
      /\ Ends(Resumes(i), after[i], Tail(pending[i]))
      /\ HasConnected(Tail(pending[i])) <=> HasConnected(pending[i])
  BY <1>4, RestOfBatch
<1>7. OnResync(i, f.cursor)
  BY DEF Deliver
<1> HIDE DEF f
<1>8. /\ covered' = [covered EXCEPT ![i] = f.cursor] /\ covered'[i] = f.cursor
      /\ shown' = shown /\ lastId' = lastId /\ handled' = handled
  BY <1>1, <1>7 DEF OnResync, TypeOK
<1>9. /\ log' = log /\ phase' = phase /\ revokedAt' = revokedAt /\ base' = base
  BY DEF Deliver
<1>10. Resumes(i)' = Resumes(i)
  BY <1>8, <1>9 DEF Resumes
<1>11. CaughtUp(i)' = CaughtUp(i)
  <2>1. CaughtUp(i)' <=> phase'[i] = "live" /\ ~HasConnected(pending'[i])
    BY DEF CaughtUp, HasConnected
  <2>2. CaughtUp(i)' <=> CaughtUp(i)
    BY <1>1, <1>2, <1>6, <1>9, <2>1
  <2> QED
    BY <2>2 DEF CaughtUp
<1>12. Follows(i)'
  <2>1. base[i] <= Resumes(i) /\ Resumes(i) <= after[i]
    BY <1>1, <1>2 DEF Follows
  <2>2. /\ Published(log, shown'[i])
        /\ revokedAt[i] # NoCursor => f.cursor <= revokedAt[i] /\ shown'[i] <= revokedAt[i]
    BY <1>1, <1>5, <1>8 DEF Follows
  <2>3. lastId'[i] = lastId[i] /\ ~Acknowledges(Head(pending[i]))
    BY <1>4, <1>8 DEF f
  <2> QED
    BY <1>2, <1>5, <1>6, <1>8, <1>10, <1>11, <2>1, <2>2, <2>3, DeliveredFollows
<1>13. AllFollow' /\ At' = At /\ Now' = Now
  <2>1. /\ AllFollow' /\ At' = [At EXCEPT ![i] = Resumes(i)']
        /\ Now' = [Now EXCEPT ![i] = CaughtUp(i)']
    BY <1>3, <1>12, PageMoves
  <2> QED
    BY <1>10, <1>11, <2>1 DEF At, Now
<1>14. f.cursor \in covered[i]..Len(log.kinds) /\ f.cursor \in 0..Len(log.kinds)
  BY <1>1, <1>2 DEF Cursor
<1>15. Contract!Open(i, f.cursor)
  BY <1>5, <1>14 DEF Contract!Open, Contract!NoLimit, NoCursor
<1>16. Contract!Mark(i)
  BY <1>5, <1>8, <1>9, <1>13, <1>14, <1>15 DEF Contract!Mark, At, Now
<1> QED
  BY <1>13, <1>16 DEF Contract!ContractNext

\* "connected" ends the first batch, whose snapshot the page has by then.
LEMMA ConnectedImplements ==
  ASSUME Following, NEW i \in Clients, Deliver(i), Head(pending[i]).type = "connected"
  PROVE  AllFollow' /\ Contract!ContractNext
<1> USE DEF pageVars
<1> DEFINE q == pending[i]
           f == Head(q)
<1>1. /\ Inv /\ TypeOK /\ ClientInv(i) /\ Follows(i) /\ IsLog(log) /\ Cursor(log) \in Nat
      /\ Resumes(i) \in Nat /\ lastId[i] \in Int /\ latest[i] \in Int /\ q \in Seq(Frames)
      /\ base[i] \in Nat /\ covered[i] \in Nat
  BY BeforeStep
<1>2. /\ q # <<>> /\ pending'[i] = Tail(q) /\ phase[i] = "live" /\ Active(i)
      /\ after[i] \in Nat /\ lastId[i] <= after[i] /\ after[i] <= Cursor(log)
  BY <1>1, BeforeDelivery
<1>3. OnlyPage(i)
  BY <1>1, DeliverStep
<1>4. ~Acknowledges(f) /\ f.type # "state"
  BY DEF Acknowledges, Kinds
<1>5. /\ Tail(q) = <<>> /\ Ends(Resumes(i), after[i], Tail(q)) /\ Seen(lastId[i], Tail(q))
  BY <1>4, RestOfBatch
<1>6. UNCHANGED <<lastId, latest, shown, handled, covered>>
  BY DEF Deliver
<1>7. /\ log' = log /\ phase' = phase /\ revokedAt' = revokedAt /\ base' = base
  BY DEF Deliver
<1>8. lastId[i] # NoCursor /\ Resumes(i) = lastId[i] /\ Resumes(i)' = Resumes(i)
  <2>1. lastId[i] # NoCursor
    BY <1>5, EmptyFollows
  <2> QED
    BY <1>6, <2>1 DEF Resumes
<1>9. CaughtUp(i)' = TRUE
  <2>1. Len(pending'[i]) = 0
    BY <1>2, <1>5, EmptySeq
  <2> QED
    BY <1>2, <1>7, <2>1 DEF CaughtUp
<1>10. Follows(i)'
  <2>1. /\ base[i] <= Resumes(i) /\ Resumes(i) <= after[i] /\ covered[i] <= after[i]
        /\ Resumes(i) < covered[i] => Resumes(i) < log.oldest - 1
    BY <1>1, <1>2 DEF Follows
  <2>2. /\ Published(log, shown'[i])
        /\ revokedAt[i] # NoCursor => covered[i] <= revokedAt[i] /\ shown'[i] <= revokedAt[i]
    BY <1>1, <1>6 DEF Follows
  <2>3. Ahead(Resumes(i), covered[i], Tail(q))
    BY <1>5, EmptyFollows
  <2>4. lastId'[i] # NoCursor /\ covered'[i] = covered[i]
    BY <1>6, <1>8
  <2> QED
    BY <1>5, <1>8, <2>1, <2>2, <2>3, <2>4, DeliveredFollows
<1>11. AllFollow' /\ At' = At /\ Now' = [Now EXCEPT ![i] = TRUE]
  <2>1. /\ AllFollow' /\ At' = [At EXCEPT ![i] = Resumes(i)']
        /\ Now' = [Now EXCEPT ![i] = CaughtUp(i)']
    BY <1>3, <1>10, PageMoves
  <2> QED
    BY <1>8, <1>9, <2>1 DEF At
<1>12. \A k \in 1..Resumes(i) : log.kinds[k] = "state" => k <= shown[i]
  <2>1. Fresh(log, "live", lastId[i], latest[i], after[i], Tail(q))
    <3>1. /\ Ordered(q, after[i], covered[i])
          /\ Fresh(log, "live", lastId[i], latest[i], after[i], q)
      BY <1>1, <1>2 DEF ClientInv
    <3>2. latest[i] <= latest[i]
      BY <1>1
    <3> QED
      BY <1>1, <1>2, <1>4, <3>1, <3>2, FreshAfterDelivery
  <2>2. 0 <= latest[i] /\ UpToDate(log, lastId[i], latest[i], after[i], Tail(q))
    <3>1. ~HasConnected(Tail(q))
      BY <1>5, EmptySeq DEF HasConnected
    <3> QED
      BY <2>1, <3>1 DEF Fresh
  <2>3. shown[i] = StateAt(log, latest[i])
    BY <1>1, <2>2 DEF ClientInv, Showing, NoCursor
  <2> SUFFICES ASSUME NEW k \in 1..Resumes(i), log.kinds[k] = "state" PROVE k <= shown[i]
    OBVIOUS
  <2>4. k \in 1..Cursor(log) /\ k <= lastId[i]
    BY <1>1, <1>2, <1>8
  <2>5. k \in 1..latest[i]
    BY <1>1, <2>2, <2>4 DEF UpToDate
  <2>6. k <= StateAt(log, latest[i])
    BY <1>1, <2>5, StateAtIsNewest
  <2> QED
    BY <2>3, <2>6
<1>13. Contract!CatchUp(i)
  BY <1>6, <1>7, <1>11, <1>12 DEF Contract!CatchUp, At, Now
<1> QED
  BY <1>11, <1>13 DEF Contract!ContractNext

LEMMA DeliverImplements ==
  ASSUME Following, NEW i \in Clients, Deliver(i)
  PROVE  AllFollow' /\ Contract!ContractNext
<1>1. Inv
  BY BeforeStep
<1>2. Head(pending[i]).type \in {"state", "event", "resync", "connected"}
  BY <1>1, BeforeDelivery DEF Frames
<1> QED
  BY <1>2, StateImplements, EventImplements, ResyncImplements, ConnectedImplements

\* At first nothing is published and no page knows anything.
LEMMA InitFollows == Init => AllFollow /\ Contract!ContractInit
<1> SUFFICES ASSUME Init PROVE AllFollow /\ Contract!ContractInit
  OBVIOUS
<1>1. log.kinds = <<>> /\ log.oldest = 1 /\ Cursor(log) = 0
  BY EmptySeq DEF Init, Cursor
<1>2. Kept(log)
  BY <1>1 DEF Kept
<1>3. ASSUME NEW i \in Clients
      PROVE  Follows(i) /\ Resumes(i) = 0 /\ CaughtUp(i) = FALSE
  <2>1. /\ phase[i] = "down" /\ pending[i] = <<>> /\ lastId[i] = NoCursor /\ base[i] = 0
        /\ covered[i] = 0 /\ shown[i] = 0 /\ revokedAt[i] = NoCursor
    BY DEF Init
  <2>2. Resumes(i) = 0 /\ CaughtUp(i) = FALSE
    BY <2>1 DEF Resumes, CaughtUp
  <2>3. Published(log, 0)
    BY DEF Published
  <2> QED
    BY <2>1, <2>2, <2>3, EmptyFollows DEF Follows, Active
<1>4. At = [i \in Clients |-> 0] /\ Now = [i \in Clients |-> FALSE]
  BY <1>3 DEF At, Now
<1>5. Contract!ContractInit
  BY <1>1, <1>4 DEF Init, Contract!ContractInit, Contract!NoLimit, NoCursor, At, Now
<1> QED
  BY <1>2, <1>3, <1>5 DEF AllFollow

\* Every step keeps the pages on their feed and is one of the contract or none at all.
LEMMA StepImplements ==
  Following /\ [Next]_vars => AllFollow' /\ [Contract!ContractNext]_(Contract!contractVars)
<1> SUFFICES ASSUME Following, [Next]_vars
             PROVE  AllFollow' /\ [Contract!ContractNext]_(Contract!contractVars)
  OBVIOUS
<1>1. CASE Broadcast
  BY <1>1, BroadcastImplements DEF Contract!ContractNext
<1>2. ASSUME NEW w \in waiters, WaitEnds(w)
      PROVE  AllFollow' /\ [Contract!ContractNext]_(Contract!contractVars)
  BY <1>2, WaitEndsImplements
<1>3. ASSUME NEW i \in Clients, Subscription(i)
      PROVE  AllFollow' /\ [Contract!ContractNext]_(Contract!contractVars)
  BY <1>3, ConnectImplements, SubscribeImplements, OpenedImplements, PollImplements,
     AuthorizeImplements, EndImplements, DeliverImplements DEF Subscription
<1>4. ASSUME NEW i \in Clients, Publish(i) \/ ReplyArrives(i) \/ Drop(i) \/ Revoke(i)
      PROVE  AllFollow' /\ [Contract!ContractNext]_(Contract!contractVars)
  <2>1. CASE Publish(i)
    BY <2>1, PublishImplements DEF Contract!ContractNext
  <2>2. CASE ReplyArrives(i) \/ Drop(i) \/ Revoke(i)
    BY <2>2, ReplyImplements, EndImplements, RevokeImplements
  <2> QED
    BY <1>4, <2>1, <2>2
<1>5. CASE UNCHANGED vars
  <2> USE DEF vars, workerVars, pageVars, historyVars
  <2>1. \A i \in Clients : Resumes(i)' = Resumes(i) /\ CaughtUp(i)' = CaughtUp(i)
    BY <1>5 DEF Resumes, CaughtUp
  <2>2. At' = At /\ Now' = Now
    BY <2>1 DEF At, Now
  <2>3. AllFollow'
    <3>1. ASSUME NEW i \in Clients PROVE Follows(i)'
      <4>1. Follows(i)
        BY BeforeStep
      <4> QED
        BY <1>5, <2>1, <4>1 DEF Follows, Active
    <3> QED
      BY <1>5, <3>1 DEF Following, AllFollow
  <2> QED
    BY <1>5, <2>2, <2>3 DEF Contract!contractVars, Contract!pageVars, At, Now
<1> QED
  BY <1>1, <1>2, <1>3, <1>4, <1>5 DEF Next

\* The log, the polls, the Worker's batches and the reconnects of EventSource are one feed
\* to a page: each event once and in order, a marker only when events it was not told of
\* are gone, a state that never goes back, and nothing published after its access is lost.
THEOREM Implementation == Spec => ImplementsFeedContract
<1>1. Init => Following /\ Contract!ContractInit
  BY InitInv, InitFollows DEF Following
<1>2. Following /\ [Next]_vars => Following' /\ [Contract!ContractNext]_(Contract!contractVars)
  BY NextInv, StepImplements DEF Following
<1> QED
  BY <1>1, <1>2, PTL DEF Spec, ImplementsFeedContract, Contract!ContractSpec

=============================================================================
