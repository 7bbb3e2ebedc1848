------------------------ MODULE SocketDeliveryProofs ------------------------
(***************************************************************************)
(* Proofs about SocketDelivery for any backlog limit and any number of     *)
(* frames and keys: merging is invisible to the peer, and nothing sent     *)
(* after the access was lost reaches its socket.                           *)
(*                                                                         *)
(* The argument: what the peer received, what is being authorized and what *)
(* is queued are together one stream that says, at each of its events and  *)
(* at its end, what the sender said; the socket gets prefixes of it.       *)
(***************************************************************************)
EXTENDS SocketDelivery, SequenceTheorems, FiniteSetTheorems, WellFoundedInduction, TLAPS

-----------------------------------------------------------------------------
(* The inductive invariant *)

\* Frame f and every key it carries were sent among the first n frames.
SentBy(f, n) == f.stamp <= n /\ \A k \in DOMAIN f.keys : f.keys[k] <= n

AllSentBy(s, n) == \A p \in 1..Len(s) : SentBy(s[p], n)

EventsUpTo(s, p) == {n \in EventPositions(s) : n <= p}

\* Each event of s has the place among the events, and the state, it had when it was sent.
InContext(s, all) ==
  \A p \in EventPositions(s) :
    /\ s[p] = all[s[p].stamp]
    /\ View(s, p) = View(all, s[p].stamp)
    /\ Cardinality(EventsUpTo(s, p)) = Cardinality(EventsUpTo(all, s[p].stamp))

\* s says all that was sent.
Says(s, all) ==
  /\ InContext(s, all)
  /\ View(s, Len(s)) = View(all, Len(all))
  /\ Cardinality(EventsUpTo(s, Len(s))) = Cardinality(EventsUpTo(all, Len(all)))

Stream == (received \o batch) \o frames

Inv ==
  /\ TypeOK
  /\ Len(sent) <= MaxSends
  /\ \A n \in 1..Len(sent) : sent[n].stamp = n
  /\ AllSentBy(received, Len(sent)) /\ AllSentBy(batch, Len(sent)) /\ AllSentBy(frames, Len(sent))
  /\ access => lostAt = MaxSends
  /\ AllSentBy(received, lostAt)
  /\ drain = "decided" /\ allowed => AllSentBy(batch, lostAt)
  /\ drain \in {"off", "starting"} => batch = <<>>
  /\ retired => ~open /\ frames = <<>>
  /\ InContext(received, sent)
  /\ open => Says(Stream, sent)

-----------------------------------------------------------------------------
(* The state a reader holds *)

\* A bounded set of naturals has a greatest element.
LEMMA Greatest ==
  ASSUME NEW n \in Nat, NEW S \in SUBSET (0..n), S # {}
  PROVE  \E m \in S : \A k \in S : k <= m
<1> DEFINE After(m) == {k \in S : m < k}
           later == {After(m) : m \in S}
<1>1. IsWellFoundedOn(StrictSubsetOrdering(S), SUBSET S)
  <2>1. IsFiniteSet(0..n)
    BY FS_Interval
  <2>2. IsFiniteSet(S)
    BY <2>1, FS_Subset
  <2> QED
    BY <2>2, FS_StrictSubsetOrderingWellFounded, FS_FiniteSubsetsOfFinite
<1>2. later \in SUBSET (SUBSET S) /\ later # {}
  OBVIOUS
<1>3. PICK x \in later : \A y \in later : <<y, x>> \notin StrictSubsetOrdering(S)
  <2> HIDE DEF later
  <2> QED
    BY <1>1, <1>2, WFMin
<1>4. PICK m \in S : x = After(m)
  OBVIOUS
<1>5. ASSUME NEW k \in S, m < k PROVE FALSE
  <2>1. k \in Int /\ m \in Int /\ \A j \in S : j \in Int
    OBVIOUS
  <2>2. \A j \in S : k < j => m < j
    BY <1>5, <2>1
  <2>3. ~(k < k)
    BY <2>1
  <2>4. After(k) \in later
    OBVIOUS
  <2>5. After(k) \subseteq After(m) /\ k \in After(m) /\ k \notin After(k)
    <3> HIDE <1>4
    <3> QED
      BY <1>5, <2>2, <2>3
  <2>6. <<After(k), x>> \in StrictSubsetOrdering(S)
    BY <1>4, <2>5 DEF StrictSubsetOrdering
  <2> QED
    BY <1>3, <2>4, <2>6
<1> QED
  BY <1>5

\* ... and so has its mirror image a least one.
LEMMA Least ==
  ASSUME NEW n \in Nat, NEW S \in SUBSET (0..n), S # {}
  PROVE  \E m \in S : \A k \in S : m <= k
<1> DEFINE mirror == {n - k : k \in S}
<1>1. \A k \in S : k \in 0..n /\ n - k \in 0..n
  OBVIOUS
<1>2. mirror \in SUBSET (0..n) /\ mirror # {}
  BY <1>1
<1>3. PICK x \in mirror : \A y \in mirror : y <= x
  <2> HIDE DEF mirror
  <2> QED
    BY <1>2, Greatest
<1>4. PICK m \in S : x = n - m
  OBVIOUS
<1>5. \A k \in S : n - k <= n - m
  BY <1>3, <1>4
<1> QED
  BY <1>1, <1>5

\* The last state update that carries a key decides its value.
LEMMA LastWriter ==
  ASSUME NEW s, NEW n \in Nat, NEW k \in Keys
  PROVE  /\ Writers(s, n, k) = {} => View(s, n)[k] = 0
         /\ Writers(s, n, k) # {} =>
              \E m \in Writers(s, n, k) :
                (\A j \in Writers(s, n, k) : j <= m) /\ View(s, n)[k] = s[m].keys[k]
         /\ \A m \in Writers(s, n, k) :
              (\A j \in Writers(s, n, k) : j <= m) => View(s, n)[k] = s[m].keys[k]
<1> DEFINE W == Writers(s, n, k)
           last == CHOOSE m \in W : \A j \in W : j <= m
<1>1. W \in SUBSET (0..n)
  BY DEF Writers
<1>2. View(s, n)[k] = IF W = {} THEN 0 ELSE s[last].keys[k]
  BY DEF View
<1> HIDE DEF W
<1>3. W # {} => last \in W /\ \A j \in W : j <= last
  <2> SUFFICES ASSUME W # {} PROVE last \in W /\ \A j \in W : j <= last
    OBVIOUS
  <2>1. \E m \in W : \A j \in W : j <= m
    BY <1>1, Greatest
  <2> QED
    BY <2>1
<1> HIDE DEF last
<1>4. ASSUME NEW m \in W, \A j \in W : j <= m
      PROVE  m = last
  <2>1. \A j \in W : j \in Int
    BY <1>1
  <2>2. last \in W /\ last <= m /\ m <= last
    BY <1>3, <1>4
  <2> QED
    BY <2>1, <2>2
<1> QED
  BY <1>2, <1>3, <1>4 DEF W

\* Equal beginnings give equal views.
LEMMA SameView ==
  ASSUME NEW s, NEW t, NEW n \in Nat, \A m \in 1..n : s[m] = t[m]
  PROVE  View(s, n) = View(t, n)
<1>1. ASSUME NEW k \in Keys PROVE View(s, n)[k] = View(t, n)[k]
  <2>1. Writers(s, n, k) = Writers(t, n, k) /\ Writers(s, n, k) \subseteq 1..n
    BY DEF Writers
  <2> DEFINE W == Writers(s, n, k)
  <2>2. CASE W = {}
    BY <2>1, <2>2, LastWriter
  <2>3. CASE W # {}
    <3>1. PICK m \in W : (\A j \in W : j <= m) /\ View(s, n)[k] = s[m].keys[k]
      BY <2>3, LastWriter
    <3>2. View(t, n)[k] = t[m].keys[k]
      BY <2>1, <3>1, LastWriter
    <3>3. s[m] = t[m]
      BY <2>1
    <3> QED
      BY <3>1, <3>2, <3>3
  <2> QED
    BY <2>2, <2>3
<1> QED
  BY <1>1 DEF View

\* Reading one more frame: a state update overwrites what it carries.
LEMMA NextView ==
  ASSUME NEW s, NEW n \in Nat, NEW k \in Keys
  PROVE  View(s, n + 1)[k] = IF s[n + 1].kind = "state" /\ k \in DOMAIN s[n + 1].keys
                             THEN s[n + 1].keys[k]
                             ELSE View(s, n)[k]
<1> DEFINE W == Writers(s, n, k)
           X == Writers(s, n + 1, k)
<1>1. CASE s[n + 1].kind = "state" /\ k \in DOMAIN s[n + 1].keys
  <2>1. n + 1 \in X /\ \A j \in X : j <= n + 1
    BY <1>1 DEF Writers
  <2>2. View(s, n + 1)[k] = s[n + 1].keys[k]
    BY <2>1, LastWriter
  <2> QED
    BY <1>1, <2>2
<1>2. CASE ~(s[n + 1].kind = "state" /\ k \in DOMAIN s[n + 1].keys)
  <2>1. X = W
    <3>1. \A m \in 1..(n + 1) : m \in 1..n \/ m = n + 1
      OBVIOUS
    <3>2. 1..n \subseteq 1..(n + 1)
      OBVIOUS
    <3> QED
      BY <1>2, <3>1, <3>2 DEF Writers
  <2>2. CASE W = {}
    BY <1>2, <2>1, <2>2, LastWriter
  <2>3. CASE W # {}
    <3>1. PICK m \in W : (\A j \in W : j <= m) /\ View(s, n)[k] = s[m].keys[k]
      BY <2>3, LastWriter
    <3>2. View(s, n + 1)[k] = s[m].keys[k]
      BY <2>1, <3>1, LastWriter
    <3> QED
      BY <1>2, <3>1, <3>2
  <2> QED
    BY <2>2, <2>3
<1> QED
  BY <1>1, <1>2

-----------------------------------------------------------------------------
(* The events and actions of a stream *)

LEMMA EventsAreFinite ==
  ASSUME NEW s, Len(s) \in Nat, NEW p
  PROVE  IsFiniteSet(EventsUpTo(s, p)) /\ EventsUpTo(s, p) \subseteq 1..Len(s)
<1>1. IsFiniteSet(1..Len(s))
  BY FS_Interval
<1>2. EventsUpTo(s, p) \subseteq 1..Len(s)
  BY DEF EventsUpTo, EventPositions
<1> QED
  BY <1>1, <1>2, FS_Subset

\* Equal beginnings have the same events.
LEMMA SameEvents ==
  ASSUME NEW s, NEW t, Len(s) \in Nat, Len(t) \in Nat, NEW p \in Int, p <= Len(s), p <= Len(t),
         \A m \in 1..p : s[m] = t[m]
  PROVE  EventsUpTo(s, p) = EventsUpTo(t, p)
<1>1. EventsUpTo(s, p) = {n \in 1..p : s[n].kind # "state"}
  BY DEF EventsUpTo, EventPositions
<1>2. EventsUpTo(t, p) = {n \in 1..p : t[n].kind # "state"}
  BY DEF EventsUpTo, EventPositions
<1> QED
  BY <1>1, <1>2

\* One frame more is at most one event more.
LEMMA NextEvents ==
  ASSUME NEW s, Len(s) \in Nat, NEW p \in 0..(Len(s) - 1)
  PROVE  /\ s[p + 1].kind = "state" => EventsUpTo(s, p + 1) = EventsUpTo(s, p)
         /\ s[p + 1].kind # "state" =>
              Cardinality(EventsUpTo(s, p + 1)) = Cardinality(EventsUpTo(s, p)) + 1
<1>1. p + 1 \in 1..Len(s) /\ \A n \in 1..Len(s) : n <= p + 1 <=> n <= p \/ n = p + 1
  OBVIOUS
<1>2. CASE s[p + 1].kind = "state"
  BY <1>1, <1>2 DEF EventsUpTo, EventPositions
<1>3. CASE s[p + 1].kind # "state"
  <2>1. EventsUpTo(s, p + 1) = EventsUpTo(s, p) \union {p + 1} /\ p + 1 \notin EventsUpTo(s, p)
    <3>1. ~(p + 1 <= p)
      OBVIOUS
    <3> QED
      BY <1>1, <1>3, <3>1 DEF EventsUpTo, EventPositions
  <2>2. IsFiniteSet(EventsUpTo(s, p))
    BY EventsAreFinite
  <2> QED
    BY <1>3, <2>1, <2>2, FS_AddElement
<1> QED
  BY <1>2, <1>3

-----------------------------------------------------------------------------
(* Streams that say what was sent *)

\* The frames of a stream.
LEMMA StreamFrames ==
  ASSUME NEW s \in Seq(Frames)
  PROVE  /\ Len(s) \in Nat
         /\ \A n \in 1..Len(s) :
              /\ s[n] \in Frames /\ s[n].stamp \in Nat \ {0} /\ s[n].stamp \in Int
              /\ DOMAIN s[n].keys \subseteq Keys /\ \A k \in DOMAIN s[n].keys : s[n].keys[k] \in Int
<1>1. Len(s) \in Nat /\ \A n \in 1..Len(s) : s[n] \in Frames
  BY LenProperties, ElementOfSeq
<1>2. ASSUME NEW f \in Frames
      PROVE  /\ f.stamp \in Nat \ {0} /\ f.stamp \in Int
             /\ DOMAIN f.keys \subseteq Keys /\ \A k \in DOMAIN f.keys : f.keys[k] \in Int
  <2>1. f.stamp \in Stamps /\ f.keys \in UNION {[S -> Stamps] : S \in SUBSET Keys}
    BY DEF Frames
  <2>2. PICK S \in SUBSET Keys : f.keys \in [S -> Stamps]
    BY <2>1
  <2>3. \A n \in Stamps : n \in Nat \ {0} /\ n \in Int
    BY DeliveryAssumption DEF Stamps
  <2>4. DOMAIN f.keys = S /\ \A k \in S : f.keys[k] \in Stamps
    BY <2>2
  <2> QED
    BY <2>1, <2>3, <2>4
<1> QED
  BY <1>1, <1>2

\* Positions of a stream that begins like another one.
Begins(s, t) == Len(s) <= Len(t) /\ \A n \in 1..Len(s) : s[n] = t[n]

\* What the sender sends later does not change what was said.
LEMMA InContextGrows ==
  ASSUME NEW s \in Seq(Frames), NEW all \in Seq(Frames), NEW more \in Seq(Frames),
         Begins(all, more), AllSentBy(s, Len(all)), InContext(s, all)
  PROVE  InContext(s, more)
<1>1. Len(all) \in Nat /\ Len(more) \in Nat /\ Len(all) <= Len(more)
  BY LenProperties DEF Begins
<1>2. ASSUME NEW p \in EventPositions(s)
      PROVE  /\ s[p] = more[s[p].stamp]
             /\ View(s, p) = View(more, s[p].stamp)
             /\ Cardinality(EventsUpTo(s, p)) = Cardinality(EventsUpTo(more, s[p].stamp))
  <2>1. p \in 1..Len(s) /\ s[p].stamp \in Nat \ {0} /\ s[p].stamp <= Len(all)
    <3>1. p \in 1..Len(s)
      BY DEF EventPositions
    <3> QED
      BY <3>1, StreamFrames DEF AllSentBy, SentBy
  <2> DEFINE c == s[p].stamp
  <2>2. c \in Nat /\ c \in 1..Len(all) /\ c <= Len(more) /\ c \in Int
    BY <1>1, <2>1
  <2> HIDE DEF c
  <2>3. \A m \in 1..c : all[m] = more[m]
    BY <1>1, <2>2 DEF Begins
  <2>4. View(all, c) = View(more, c)
    BY <2>2, <2>3, SameView
  <2>5. EventsUpTo(all, c) = EventsUpTo(more, c)
    BY <1>1, <2>2, <2>3, SameEvents
  <2>6. all[c] = more[c]
    BY <2>2 DEF Begins
  <2> QED
    BY <2>4, <2>5, <2>6 DEF InContext, c
<1> QED
  BY <1>2 DEF InContext

\* The beginning of a stream says what the stream says.
LEMMA InContextPrefix ==
  ASSUME NEW s \in Seq(Frames), NEW t \in Seq(Frames), NEW all,
         Begins(s, t), InContext(t, all)
  PROVE  InContext(s, all)
<1>1. Len(s) \in Nat /\ Len(t) \in Nat /\ Len(s) <= Len(t)
  BY LenProperties DEF Begins
<1>2. ASSUME NEW p \in EventPositions(s)
      PROVE  /\ p \in EventPositions(t) /\ s[p] = t[p] /\ View(s, p) = View(t, p)
             /\ EventsUpTo(s, p) = EventsUpTo(t, p)
  <2>1. p \in 1..Len(s) /\ s[p] = t[p] /\ s[p].kind # "state"
    BY DEF EventPositions, Begins
  <2>2. p \in Nat /\ p \in Int /\ p \in 1..Len(t) /\ p <= Len(s) /\ p <= Len(t)
    BY <1>1, <2>1
  <2>3. \A m \in 1..p : s[m] = t[m]
    BY <1>1, <2>1 DEF Begins
  <2>4. p \in EventPositions(t)
    BY <2>1, <2>2 DEF EventPositions
  <2>5. View(s, p) = View(t, p)
    BY <2>2, <2>3, SameView
  <2>6. EventsUpTo(s, p) = EventsUpTo(t, p)
    BY <1>1, <2>2, <2>3, SameEvents
  <2> QED
    BY <2>1, <2>4, <2>5, <2>6
<1> QED
  BY <1>2 DEF InContext

\* A frame joins the end of what was sent.
LEMMA SentGrows ==
  ASSUME NEW s \in Seq(Frames), NEW f \in Frames
  PROVE  /\ Append(s, f) \in Seq(Frames) /\ Len(Append(s, f)) = Len(s) + 1 /\ Len(s) \in Nat
         /\ Begins(s, Append(s, f)) /\ Append(s, f)[Len(s) + 1] = f
         /\ View(Append(s, f), Len(s)) = View(s, Len(s))
         /\ EventsUpTo(Append(s, f), Len(s)) = EventsUpTo(s, Len(s))
<1> DEFINE t == Append(s, f)
<1>1. /\ t \in Seq(Frames) /\ Len(t) = Len(s) + 1 /\ Len(s) \in Nat
      /\ \A n \in 1..Len(s) : t[n] = s[n]
      /\ t[Len(s) + 1] = f
  BY AppendProperties, LenProperties
<1> HIDE DEF t
<1>2. Len(s) <= Len(t) /\ Len(t) \in Nat /\ Len(s) \in Int /\ Len(s) <= Len(s)
  BY <1>1
<1>3. View(t, Len(s)) = View(s, Len(s))
  BY <1>1, SameView
<1>4. EventsUpTo(t, Len(s)) = EventsUpTo(s, Len(s))
  BY <1>1, <1>2, SameEvents
<1> QED
  BY <1>1, <1>2, <1>3, <1>4 DEF Begins, t

\* A frame is sent and joins the stream.
LEMMA SaysAppend ==
  ASSUME NEW s \in Seq(Frames), NEW all \in Seq(Frames), Says(s, all), AllSentBy(s, Len(all)),
         NEW f \in Frames, f.stamp = Len(all) + 1
  PROVE  Says(Append(s, f), Append(all, f))
<1> DEFINE t == Append(s, f)
           more == Append(all, f)
           m == Len(s)
           n == Len(all)
<1>1. /\ t \in Seq(Frames) /\ Len(t) = m + 1 /\ m \in Nat /\ Begins(s, t) /\ t[m + 1] = f
      /\ View(t, m) = View(s, m) /\ EventsUpTo(t, m) = EventsUpTo(s, m)
  BY SentGrows
<1>2. /\ more \in Seq(Frames) /\ Len(more) = n + 1 /\ n \in Nat /\ Begins(all, more)
      /\ more[n + 1] = f
      /\ View(more, n) = View(all, n) /\ EventsUpTo(more, n) = EventsUpTo(all, n)
  BY SentGrows
<1>3. /\ InContext(s, all) /\ View(s, m) = View(all, n)
      /\ Cardinality(EventsUpTo(s, m)) = Cardinality(EventsUpTo(all, n))
  BY DEF Says
<1>4. InContext(s, more)
  BY <1>2, <1>3, InContextGrows
<1> HIDE DEF t, more
<1>5. View(t, m + 1) = View(more, n + 1)
  <2>1. \A k \in Keys : View(t, m + 1)[k] = View(more, n + 1)[k]
    <3> TAKE k \in Keys
    <3>1. View(t, m + 1)[k] = IF f.kind = "state" /\ k \in DOMAIN f.keys THEN f.keys[k]
                              ELSE View(t, m)[k]
      BY <1>1, NextView
    <3>2. View(more, n + 1)[k] = IF f.kind = "state" /\ k \in DOMAIN f.keys THEN f.keys[k]
                                 ELSE View(more, n)[k]
      BY <1>2, NextView
    <3> QED
      BY <1>1, <1>2, <1>3, <3>1, <3>2
  <2> QED
    BY <2>1 DEF View
<1>6. Cardinality(EventsUpTo(t, m + 1)) = Cardinality(EventsUpTo(more, n + 1))
  <2>1. m \in 0..(Len(t) - 1) /\ n \in 0..(Len(more) - 1) /\ Len(t) \in Nat /\ Len(more) \in Nat
    BY <1>1, <1>2
  <2>2. CASE f.kind = "state"
    <3>1. EventsUpTo(t, m + 1) = EventsUpTo(t, m)
      BY <1>1, <2>1, <2>2, NextEvents
    <3>2. EventsUpTo(more, n + 1) = EventsUpTo(more, n)
      BY <1>2, <2>1, <2>2, NextEvents
    <3> QED
      BY <1>1, <1>2, <1>3, <3>1, <3>2
  <2>3. CASE f.kind # "state"
    <3>1. Cardinality(EventsUpTo(t, m + 1)) = Cardinality(EventsUpTo(t, m)) + 1
      BY <1>1, <2>1, <2>3, NextEvents
    <3>2. Cardinality(EventsUpTo(more, n + 1)) = Cardinality(EventsUpTo(more, n)) + 1
      BY <1>2, <2>1, <2>3, NextEvents
    <3> QED
      BY <1>1, <1>2, <1>3, <3>1, <3>2
  <2> QED
    BY <2>2, <2>3
<1>7. InContext(t, more)
  <2>1. ASSUME NEW p \in EventPositions(t)
        PROVE  /\ t[p] = more[t[p].stamp]
               /\ View(t, p) = View(more, t[p].stamp)
               /\ Cardinality(EventsUpTo(t, p)) = Cardinality(EventsUpTo(more, t[p].stamp))
    <3>1. p \in 1..(m + 1) /\ t[p].kind # "state"
      BY <1>1 DEF EventPositions
    <3>2. CASE p \in 1..m
      <4>1. s[p] = t[p] /\ p \in EventPositions(s)
        BY <1>1, <3>1, <3>2 DEF Begins, EventPositions
      <4>2. p \in Nat /\ p \in Int /\ p <= Len(s) /\ p <= Len(t) /\ Len(t) \in Nat
        BY <1>1, <3>2
      <4>3. \A j \in 1..p : s[j] = t[j]
        BY <1>1, <3>2 DEF Begins
      <4>4. View(s, p) = View(t, p) /\ EventsUpTo(s, p) = EventsUpTo(t, p)
        BY <1>1, <4>2, <4>3, SameView, SameEvents
      <4> QED
        BY <1>4, <4>1, <4>4 DEF InContext
    <3>3. CASE p = m + 1
      <4>1. t[p] = f /\ t[p].stamp = n + 1
        BY <1>1, <3>3
      <4> QED
        BY <1>2, <1>5, <1>6, <3>3, <4>1
    <3> QED
      BY <1>1, <3>1, <3>2, <3>3
  <2> QED
    BY <2>1 DEF InContext
<1> QED
  BY <1>1, <1>2, <1>5, <1>6, <1>7 DEF Says, t, more

\* A state update is sent and merges into the last frame of the stream.
LEMMA SaysMerge ==
  ASSUME NEW s \in Seq(Frames), NEW all \in Seq(Frames), Says(s, all), AllSentBy(s, Len(all)),
         NEW f \in Frames, f.kind = "state", f.stamp = Len(all) + 1,
         NEW t \in Seq(Frames), Len(s) # 0, Len(t) = Len(s),
         s[Len(s)].kind = "state", t[Len(s)] = Merge(s[Len(s)], f),
         \A p \in 1..(Len(s) - 1) : t[p] = s[p]
  PROVE  Says(t, Append(all, f))
<1> DEFINE more == Append(all, f)
           m == Len(s) - 1
           n == Len(all)
           g == s[m + 1]
<1>1. Len(s) \in Nat /\ m \in Nat /\ m + 1 = Len(s) /\ m \in Int /\ m <= Len(s) /\ m <= Len(t)
  BY LenProperties
<1>2. /\ more \in Seq(Frames) /\ Len(more) = n + 1 /\ n \in Nat /\ Begins(all, more)
      /\ more[n + 1] = f
      /\ View(more, n) = View(all, n) /\ EventsUpTo(more, n) = EventsUpTo(all, n)
  BY SentGrows
<1>3. /\ InContext(s, all) /\ View(s, m + 1) = View(all, n)
      /\ Cardinality(EventsUpTo(s, m + 1)) = Cardinality(EventsUpTo(all, n))
  BY <1>1 DEF Says
<1>4. InContext(s, more)
  BY <1>2, <1>3, InContextGrows
<1>5. /\ \A p \in 1..m : t[p] = s[p]
      /\ g.kind = "state" /\ t[m + 1].kind = "state"
      /\ t[m + 1].keys = MergedKeys(g.keys, f.keys)
  <2>1. t[m + 1] = Merge(g, f) /\ g.kind = "state"
    BY <1>1
  <2> HIDE DEF g, m
  <2> QED
    BY <2>1 DEF Merge, m
<1>6. View(s, m) = View(t, m) /\ EventsUpTo(s, m) = EventsUpTo(t, m)
  BY <1>1, <1>5, SameView, SameEvents
<1> HIDE DEF more, m, g
<1>7. View(t, m + 1) = View(more, n + 1)
  <2>1. \A k \in Keys : View(t, m + 1)[k] = View(more, n + 1)[k]
    <3> TAKE k \in Keys
    <3>1. View(s, m + 1)[k] = IF k \in DOMAIN g.keys THEN g.keys[k] ELSE View(s, m)[k]
      BY <1>1, <1>5, NextView DEF g
    <3>2. View(more, n + 1)[k] = IF k \in DOMAIN f.keys THEN f.keys[k] ELSE View(more, n)[k]
      BY <1>2, NextView
    <3>3. View(t, m + 1)[k] = IF k \in DOMAIN g.keys \union DOMAIN f.keys
                              THEN MergedKeys(g.keys, f.keys)[k] ELSE View(t, m)[k]
      <4>1. DOMAIN MergedKeys(g.keys, f.keys) = DOMAIN g.keys \union DOMAIN f.keys
        BY DEF MergedKeys
      <4>2. View(t, m + 1)[k] = IF k \in DOMAIN t[m + 1].keys THEN t[m + 1].keys[k]
                                ELSE View(t, m)[k]
        BY <1>1, <1>5, NextView
      <4> QED
        BY <1>5, <4>1, <4>2
    <3>4. k \in DOMAIN g.keys \union DOMAIN f.keys =>
            MergedKeys(g.keys, f.keys)[k] = IF k \in DOMAIN f.keys THEN f.keys[k] ELSE g.keys[k]
      BY DEF MergedKeys
    <3>5. View(more, n)[k] = View(s, m + 1)[k] /\ View(t, m)[k] = View(s, m)[k]
      BY <1>2, <1>3, <1>6
    <3> QED
      BY <3>1, <3>2, <3>3, <3>4, <3>5
  <2> QED
    BY <2>1 DEF View
<1>8. Cardinality(EventsUpTo(t, m + 1)) = Cardinality(EventsUpTo(more, n + 1))
  <2>1. m \in 0..(Len(s) - 1) /\ m \in 0..(Len(t) - 1) /\ Len(t) \in Nat
        /\ n \in 0..(Len(more) - 1) /\ Len(more) \in Nat
    BY <1>1, <1>2
  <2>2. EventsUpTo(t, m + 1) = EventsUpTo(t, m)
    BY <1>5, <2>1, NextEvents
  <2>3. EventsUpTo(s, m + 1) = EventsUpTo(s, m)
    BY <1>1, <1>5, <2>1, NextEvents DEF g
  <2>4. EventsUpTo(more, n + 1) = EventsUpTo(more, n)
    BY <1>2, <2>1, NextEvents
  <2> QED
    BY <1>2, <1>3, <1>6, <2>2, <2>3, <2>4
<1>9. InContext(t, more)
  <2>1. ASSUME NEW p \in EventPositions(t)
        PROVE  /\ t[p] = more[t[p].stamp]
               /\ View(t, p) = View(more, t[p].stamp)
               /\ Cardinality(EventsUpTo(t, p)) = Cardinality(EventsUpTo(more, t[p].stamp))
    <3>1. p \in 1..m /\ p \in Nat /\ p \in Int /\ p <= Len(s) /\ p <= Len(t)
      <4>1. p \in 1..(m + 1) /\ t[p].kind # "state"
        BY <1>1 DEF EventPositions
      <4> QED
        BY <1>1, <1>5, <4>1
    <3>2. s[p] = t[p] /\ p \in EventPositions(s)
      BY <1>1, <1>5, <3>1 DEF EventPositions
    <3>3. \A j \in 1..p : s[j] = t[j]
      BY <1>1, <1>5, <3>1
    <3>4. View(s, p) = View(t, p) /\ EventsUpTo(s, p) = EventsUpTo(t, p)
      BY <1>1, <3>1, <3>3, SameView, SameEvents
    <3> QED
      BY <1>4, <3>2, <3>4 DEF InContext
  <2> QED
    BY <2>1 DEF InContext
<1> QED
  BY <1>1, <1>2, <1>7, <1>8, <1>9 DEF Says, more

-----------------------------------------------------------------------------
(* Joining and cutting streams *)

LEMMA Joined ==
  ASSUME NEW s \in Seq(Frames), NEW t \in Seq(Frames), NEW n \in Int
  PROVE  /\ s \o t \in Seq(Frames) /\ Begins(s, s \o t)
         /\ Len(s \o t) = Len(s) + Len(t)
         /\ AllSentBy(s \o t, n) <=> AllSentBy(s, n) /\ AllSentBy(t, n)
<1> DEFINE u == s \o t
<1>1. Len(s) \in Nat /\ Len(t) \in Nat
  BY LenProperties
<1>2. /\ u \in Seq(Frames) /\ Len(u) = Len(s) + Len(t)
      /\ \A i \in 1..(Len(s) + Len(t)) : u[i] = IF i <= Len(s) THEN s[i] ELSE t[i - Len(s)]
  BY ConcatProperties
<1> HIDE DEF u
<1>3. \A i \in 1..Len(s) : i \in 1..Len(u) /\ u[i] = s[i]
  BY <1>1, <1>2
<1>4. \A i \in 1..Len(t) : Len(s) + i \in 1..Len(u) /\ u[Len(s) + i] = t[i]
  <2> TAKE i \in 1..Len(t)
  <2>1. Len(s) + i \in 1..(Len(s) + Len(t)) /\ ~(Len(s) + i <= Len(s)) /\ (Len(s) + i) - Len(s) = i
    BY <1>1
  <2> QED
    BY <1>2, <2>1
<1>5. \A i \in 1..Len(u) : \/ i \in 1..Len(s) /\ u[i] = s[i]
                           \/ i - Len(s) \in 1..Len(t) /\ u[i] = t[i - Len(s)]
  BY <1>1, <1>2
<1>6. AllSentBy(u, n) => AllSentBy(s, n) /\ AllSentBy(t, n)
  BY <1>3, <1>4 DEF AllSentBy
<1>7. AllSentBy(s, n) /\ AllSentBy(t, n) => AllSentBy(u, n)
  BY <1>5 DEF AllSentBy
<1>8. Begins(s, u)
  BY <1>1, <1>2, <1>3 DEF Begins
<1> QED
  BY <1>2, <1>6, <1>7, <1>8 DEF u

\* A frame that joins the backlog joins the stream.
LEMMA JoinedAppend ==
  ASSUME NEW s \in Seq(Frames), NEW t \in Seq(Frames), NEW f \in Frames
  PROVE  s \o Append(t, f) = Append(s \o t, f)
<1>1. Append(t, f) = t \o <<f>> /\ <<f>> \in Seq(Frames)
  BY AppendIsConcat
<1>2. s \o t \in Seq(Frames)
  BY ConcatProperties
<1>3. Append(s \o t, f) = (s \o t) \o <<f>>
  BY <1>2, AppendIsConcat
<1> QED
  BY <1>1, <1>3, ConcatAssociative

\* What changes the last frame of the backlog changes the last frame of the stream.
LEMMA JoinedExcept ==
  ASSUME NEW s \in Seq(Frames), NEW t \in Seq(Frames), t # <<>>, NEW f \in Frames
  PROVE  LET u == s \o t
             v == s \o [t EXCEPT ![Len(t)] = f]
         IN  /\ v \in Seq(Frames) /\ Len(v) = Len(u) /\ Len(u) # 0
             /\ u[Len(u)] = t[Len(t)] /\ v[Len(u)] = f
             /\ \A p \in 1..(Len(u) - 1) : v[p] = u[p]
<1> DEFINE r == [t EXCEPT ![Len(t)] = f]
           u == s \o t
           v == s \o r
           m == Len(s)
           n == Len(t)
<1>1. m \in Nat /\ n \in Nat \ {0} /\ n \in 1..n
  BY LenProperties, EmptySeq
<1>2. /\ r \in Seq(Frames) /\ Len(r) = n
      /\ \A j \in 1..n : r[j] = IF j = n THEN f ELSE t[j]
  BY <1>1, ExceptSeq
<1> HIDE DEF r
<1>3. /\ u \in Seq(Frames) /\ Len(u) = m + n
      /\ \A i \in 1..(m + n) : u[i] = IF i <= m THEN s[i] ELSE t[i - m]
  BY ConcatProperties
<1>4. /\ v \in Seq(Frames) /\ Len(v) = m + n
      /\ \A i \in 1..(m + n) : v[i] = IF i <= m THEN s[i] ELSE r[i - m]
  <2>1. r \in Seq(Frames) /\ Len(r) = n
    BY <1>2
  <2>2. /\ v \in Seq(Frames) /\ Len(v) = m + Len(r)
        /\ \A i \in 1..(m + Len(r)) : v[i] = IF i <= m THEN s[i] ELSE r[i - m]
    BY <2>1, ConcatProperties
  <2> HIDE DEF v, m, n
  <2> QED
    BY <2>1, <2>2
<1> HIDE DEF u, v, m, n
<1>5. m + n \in 1..(m + n) /\ ~(m + n <= m) /\ (m + n) - m = n /\ m + n # 0
  BY <1>1
<1>6. u[m + n] = t[n] /\ v[m + n] = f
  BY <1>1, <1>2, <1>3, <1>4, <1>5
<1>7. ASSUME NEW p \in 1..(m + n - 1) PROVE v[p] = u[p]
  <2>1. p \in 1..(m + n) /\ (~(p <= m) => p - m \in 1..n /\ p - m # n)
    BY <1>1
  <2> QED
    BY <1>2, <1>3, <1>4, <2>1
<1> QED
  BY <1>3, <1>4, <1>5, <1>6, <1>7 DEF u, v, m, n, r

\* A stream cut in two.
LEMMA Cut ==
  ASSUME NEW s \in Seq(Frames), NEW n \in 0..Len(s), NEW k \in Int, AllSentBy(s, k)
  PROVE  /\ SubSeq(s, 1, n) \in Seq(Frames) /\ SubSeq(s, n + 1, Len(s)) \in Seq(Frames)
         /\ SubSeq(s, 1, n) \o SubSeq(s, n + 1, Len(s)) = s
         /\ Len(SubSeq(s, 1, n)) = n /\ Len(SubSeq(s, n + 1, Len(s))) = Len(s) - n
         /\ Begins(SubSeq(s, 1, n), s)
         /\ AllSentBy(SubSeq(s, 1, n), k) /\ AllSentBy(SubSeq(s, n + 1, Len(s)), k)
<1> DEFINE a == SubSeq(s, 1, n)
           b == SubSeq(s, n + 1, Len(s))
<1>1. Len(s) \in Nat /\ n \in Nat /\ n <= Len(s) /\ \A i \in 1..Len(s) : s[i] \in Frames
  BY LenProperties, ElementOfSeq
<1>2. a \in Seq(Frames) /\ Len(a) = n
  <2>1. 1 \in Int /\ n \in Int /\ \A i \in 1..n : s[i] \in Frames
    BY <1>1
  <2>2. a \in Seq(Frames) /\ Len(a) = IF 1 <= n THEN n - 1 + 1 ELSE 0
    BY <2>1, SubSeqProperties
  <2> QED
    BY <1>1, <2>2
<1>3. b \in Seq(Frames) /\ Len(b) = Len(s) - n
  <2>1. n + 1 \in Int /\ Len(s) \in Int /\ \A i \in (n + 1)..Len(s) : s[i] \in Frames
    BY <1>1
  <2>2. b \in Seq(Frames) /\ Len(b) = IF n + 1 <= Len(s) THEN Len(s) - (n + 1) + 1 ELSE 0
    BY <2>1, SubSeqProperties
  <2> QED
    BY <1>1, <2>2
<1>4. a \o b = s
  <2>1. 1 \in 1..(Len(s) + 1) /\ n \in (1 - 1)..Len(s) /\ Len(s) \in n..Len(s)
    BY <1>1
  <2>2. SubSeq(s, 1, n) \o SubSeq(s, n + 1, Len(s)) = SubSeq(s, 1, Len(s))
    BY <2>1, ConcatAdjacentSubSeq
  <2> QED
    BY <2>2, SubSeqFull
<1> HIDE DEF a, b
<1>5. Begins(a, s) /\ AllSentBy(a, k) /\ AllSentBy(b, k)
  BY <1>2, <1>3, <1>4, Joined
<1> QED
  BY <1>1, <1>2, <1>3, <1>4, <1>5 DEF a, b

\* The drain loop never takes an empty batch off a backlog, nor more than there is.
LEMMA BatchFits ==
  ASSUME NEW q \in Seq(Frames), q # <<>>
  PROVE  BatchSize(q) \in 0..Len(q) /\ BatchSize(q) # 0
<1>1. Len(q) \in Nat \ {0}
  BY EmptySeq
<1>2. CASE ActionPositions(q) = {}
  BY <1>1, <1>2 DEF BatchSize
<1>3. CASE ActionPositions(q) # {}
  <2>1. ActionPositions(q) \in SUBSET (0..Len(q)) /\ ActionPositions(q) \subseteq 1..Len(q)
    BY <1>1 DEF ActionPositions
  <2>2. \E m \in ActionPositions(q) : \A k \in ActionPositions(q) : m <= k
    BY <1>1, <1>3, <2>1, Least
  <2>3. FirstAction(q) \in 1..Len(q)
    BY <2>1, <2>2 DEF FirstAction
  <2>4. BatchSize(q) = IF FirstAction(q) = 1 THEN 1 ELSE FirstAction(q) - 1
    BY <1>3 DEF BatchSize
  <2> QED
    BY <1>1, <2>3, <2>4
<1> QED
  BY <1>2, <1>3

\* What was sent by then was sent by any later time.
LEMMA SentLater ==
  ASSUME NEW s \in Seq(Frames), NEW m \in Int, NEW n \in Int, m <= n, AllSentBy(s, m)
  PROVE  AllSentBy(s, n)
<1> SUFFICES ASSUME NEW p \in 1..Len(s) PROVE SentBy(s[p], n)
  BY DEF AllSentBy
<1>1. s[p].stamp \in Int /\ \A k \in DOMAIN s[p].keys : s[p].keys[k] \in Int
  BY StreamFrames
<1>2. SentBy(s[p], m)
  BY DEF AllSentBy
<1> QED
  BY <1>1, <1>2 DEF SentBy

\* No frame is from beyond the bound.
LEMMA SentWithinBound ==
  ASSUME NEW s \in Seq(Frames)
  PROVE  AllSentBy(s, MaxSends)
<1> SUFFICES ASSUME NEW f \in Frames PROVE SentBy(f, MaxSends)
  BY ElementOfSeq DEF AllSentBy
<1>1. f.stamp \in Stamps /\ f.keys \in UNION {[S -> Stamps] : S \in SUBSET Keys}
  BY DEF Frames
<1>2. PICK S \in SUBSET Keys : f.keys \in [S -> Stamps]
  BY <1>1
<1>3. \A n \in Stamps : n <= MaxSends
  BY DeliveryAssumption DEF Stamps
<1>4. DOMAIN f.keys = S /\ \A k \in S : f.keys[k] \in Stamps
  BY <1>2
<1> QED
  BY <1>1, <1>3, <1>4 DEF SentBy

-----------------------------------------------------------------------------
(* The frames the runtime sends *)

LEMMA SentFrame ==
  ASSUME NEW n \in Stamps
  PROVE  /\ \A k \in Keys : /\ StateFrame(k, n) \in Frames /\ SentBy(StateFrame(k, n), n)
                            /\ StateFrame(k, n).stamp = n
         /\ \A kind \in {"action", "other"} :
              /\ OtherFrame(kind, n) \in Frames /\ SentBy(OtherFrame(kind, n), n)
              /\ OtherFrame(kind, n).stamp = n
<1>1. n \in Int /\ n <= n
  BY DeliveryAssumption DEF Stamps
<1>2. ASSUME NEW k \in Keys
      PROVE  StateFrame(k, n) \in Frames /\ SentBy(StateFrame(k, n), n) /\ StateFrame(k, n).stamp = n
  <2>1. [key \in {k} |-> n] \in [{k} -> Stamps] /\ {k} \in SUBSET Keys
    OBVIOUS
  <2>2. [key \in {k} |-> n] \in UNION {[S -> Stamps] : S \in SUBSET Keys}
    BY <2>1
  <2>3. StateFrame(k, n) \in Frames
    BY <2>2 DEF StateFrame, Frames
  <2> QED
    BY <1>1, <2>3 DEF StateFrame, SentBy
<1>3. ASSUME NEW kind \in {"action", "other"}
      PROVE  /\ OtherFrame(kind, n) \in Frames /\ SentBy(OtherFrame(kind, n), n)
             /\ OtherFrame(kind, n).stamp = n
  <2>1. NoKeys \in [{} -> Stamps] /\ {} \in SUBSET Keys /\ DOMAIN NoKeys = {}
    BY DEF NoKeys
  <2>2. NoKeys \in UNION {[S -> Stamps] : S \in SUBSET Keys}
    BY <2>1
  <2>3. OtherFrame(kind, n) \in Frames
    BY <2>2 DEF OtherFrame, Frames
  <2> QED
    BY <1>1, <2>1, <2>3 DEF OtherFrame, SentBy
<1> QED
  BY <1>2, <1>3

LEMMA MergedFrame ==
  ASSUME NEW g \in Frames, NEW f \in Frames, NEW n, SentBy(g, n), SentBy(f, n)
  PROVE  Merge(g, f) \in Frames /\ SentBy(Merge(g, f), n)
<1>1. PICK S \in SUBSET Keys : g.keys \in [S -> Stamps]
  BY DEF Frames
<1>2. PICK T \in SUBSET Keys : f.keys \in [T -> Stamps]
  BY DEF Frames
<1> DEFINE both == MergedKeys(g.keys, f.keys)
<1>3. both \in [S \union T -> Stamps] /\ S \union T \in SUBSET Keys
  BY <1>1, <1>2 DEF MergedKeys
<1>4. \A k \in DOMAIN both : both[k] <= n
  <2> SUFFICES ASSUME NEW k \in DOMAIN g.keys \union DOMAIN f.keys PROVE both[k] <= n
    BY DEF MergedKeys
  <2>1. both[k] = IF k \in DOMAIN f.keys THEN f.keys[k] ELSE g.keys[k]
    BY DEF MergedKeys
  <2> QED
    BY <2>1 DEF SentBy
<1> HIDE DEF both
<1>5. both \in UNION {[U -> Stamps] : U \in SUBSET Keys}
  BY <1>3
<1>6. /\ Merge(g, f).kind = "state" /\ Merge(g, f).keys = both /\ Merge(g, f).stamp = f.stamp
      /\ Merge(g, f) = [kind |-> "state", keys |-> both, stamp |-> f.stamp]
  BY DEF Merge, both
<1>7. f.stamp \in Stamps
  BY DEF Frames
<1>8. Merge(g, f) \in Frames
  BY <1>5, <1>6, <1>7 DEF Frames
<1>9. SentBy(Merge(g, f), n)
  BY <1>4, <1>6 DEF SentBy
<1> QED
  BY <1>8, <1>9

-----------------------------------------------------------------------------
(* What the steps of the queue make of the stream *)

\* Where f merges is the end of the backlog.
LEMMA MergesAtTheEnd ==
  ASSUME NEW q \in Seq(Frames), NEW f \in Frames, MergesAt(q, f) # {}
  PROVE  /\ (CHOOSE n \in MergesAt(q, f) : TRUE) = Len(q)
         /\ q # <<>> /\ f.kind = "state" /\ q[Len(q)].kind = "state" /\ Len(q) \in 1..Len(q)
<1>1. Len(q) \in Nat
  BY LenProperties
<1>2. \A n \in MergesAt(q, f) : n = Len(q) /\ n \in 1..Len(q) /\ f.kind = "state" /\ q[n].kind = "state"
  BY DEF MergesAt
<1>3. PICK n \in MergesAt(q, f) : TRUE
  OBVIOUS
<1>4. Len(q) \in 1..Len(q) /\ q # <<>>
  BY <1>1, <1>2, <1>3, EmptySeq
<1> QED
  BY <1>2, <1>3, <1>4

\* Sending a frame to an open peer either retires it or adds to its stream.
LEMMA SendSays ==
  ASSUME Inv, NEW f \in Frames, f.stamp = Len(sent) + 1, SentBy(f, Len(sent) + 1), Send(f)
  PROVE  /\ frames' \in Seq(Frames) /\ Len(frames') <= MaxPending
         /\ AllSentBy(frames', Len(sent) + 1)
         /\ open' => Says(Stream', sent')
         /\ retired' => ~open' /\ frames' = <<>>
         /\ retired' \in BOOLEAN /\ open' \in BOOLEAN
         /\ UNCHANGED <<batch, allowed, access, received, lostAt>> /\ sent' = Append(sent, f)
         /\ drain' \in {drain, "starting"} /\ (drain' # drain => drain = "off")
<1> DEFINE past == received \o batch
           n == Len(sent)
<1>1. /\ frames \in Seq(Frames) /\ batch \in Seq(Frames) /\ received \in Seq(Frames)
      /\ sent \in Seq(Frames) /\ Len(frames) <= MaxPending
      /\ n \in Nat /\ n \in Int /\ n + 1 \in Int /\ n <= n + 1 /\ Len(frames) \in Nat
  BY LenProperties DEF Inv, TypeOK
<1>2. /\ past \in Seq(Frames) /\ Stream \in Seq(Frames) /\ Stream = past \o frames
      /\ AllSentBy(Stream, n) /\ AllSentBy(frames, n)
  <2>1. AllSentBy(received, n) /\ AllSentBy(batch, n) /\ AllSentBy(frames, n)
    BY DEF Inv
  <2>2. past \in Seq(Frames) /\ AllSentBy(past, n)
    BY <1>1, <2>1, Joined
  <2> HIDE DEF past
  <2>3. past \o frames \in Seq(Frames) /\ AllSentBy(past \o frames, n)
    BY <1>1, <2>1, <2>2, Joined
  <2> QED
    BY <2>1, <2>2, <2>3 DEF Stream, past
<1>3. AllSentBy(frames, n + 1)
  BY <1>1, <1>2, SentLater
<1>4. /\ UNCHANGED <<batch, allowed, access, received, lostAt>> /\ sent' = Append(sent, f)
      /\ drain' \in {drain, "starting"} /\ (drain' # drain => drain = "off")
  BY DEF Send, queueVars, Retire
<1>5. past' = past /\ Stream' = past \o frames'
  BY <1>4 DEF Stream
<1>6. /\ (retired => ~open /\ frames = <<>>) /\ (open => Says(Stream, sent))
      /\ retired \in BOOLEAN /\ open \in BOOLEAN
  BY DEF Inv, TypeOK
<1> HIDE DEF past
<1>7. CASE retired
  BY <1>1, <1>3, <1>4, <1>6, <1>7 DEF Send, queueVars
<1>8. CASE ~retired /\ MergesAt(frames, f) # {}
  <2> DEFINE m == Len(frames)
             g == Merge(frames[m], f)
  <2>1. frames # <<>> /\ f.kind = "state" /\ frames[m].kind = "state" /\ m \in 1..m
    BY <1>1, <1>8, MergesAtTheEnd
  <2>2. frames' = [frames EXCEPT ![m] = g] /\ retired' = retired /\ open' = open
    <3>1. (CHOOSE i \in MergesAt(frames, f) : TRUE) = m
      BY <1>1, <1>8, MergesAtTheEnd
    <3> QED
      BY <1>8, <3>1 DEF Send
  <2>3. g \in Frames /\ SentBy(g, n + 1)
    <3>1. frames[m] \in Frames /\ SentBy(frames[m], n + 1)
      BY <1>1, <1>3, <2>1, ElementOfSeq DEF AllSentBy
    <3> QED
      BY <3>1, MergedFrame
  <2>4. /\ frames' \in Seq(Frames) /\ Len(frames') = m
        /\ \A j \in 1..m : frames'[j] = IF j = m THEN g ELSE frames[j]
    <3> HIDE DEF g
    <3>1. /\ [frames EXCEPT ![m] = g] \in Seq(Frames) /\ Len([frames EXCEPT ![m] = g]) = m
          /\ \A j \in 1..m : [frames EXCEPT ![m] = g][j] = IF j = m THEN g ELSE frames[j]
      BY <1>1, <2>1, <2>3, ExceptSeq
    <3> QED
      BY <2>2, <3>1
  <2>5. AllSentBy(frames', n + 1)
    BY <1>3, <2>3, <2>4 DEF AllSentBy
  <2>6. /\ Stream' \in Seq(Frames) /\ Len(Stream') = Len(Stream) /\ Len(Stream) # 0
        /\ Stream[Len(Stream)] = frames[m] /\ Stream'[Len(Stream)] = g
        /\ \A p \in 1..(Len(Stream) - 1) : Stream'[p] = Stream[p]
    <3> HIDE DEF g
    <3> DEFINE u == past \o frames
               v == past \o [frames EXCEPT ![m] = g]
    <3>1. /\ v \in Seq(Frames) /\ Len(v) = Len(u) /\ Len(u) # 0
          /\ u[Len(u)] = frames[m] /\ v[Len(u)] = g
          /\ \A p \in 1..(Len(u) - 1) : v[p] = u[p]
      <4>1. past \in Seq(Frames) /\ frames \in Seq(Frames) /\ frames # <<>> /\ g \in Frames
        BY <1>1, <1>2, <2>1, <2>3
      <4> QED
        BY <4>1, JoinedExcept
    <3>2. Stream = u /\ Stream' = v
      BY <1>2, <1>5, <2>2
    <3> HIDE DEF u, v
    <3> QED
      BY <3>1, <3>2
  <2>7. open' => Says(Stream', sent')
    <3> SUFFICES ASSUME open PROVE Says(Stream', Append(sent, f))
      BY <1>4, <2>2
    <3>1. Says(Stream, sent) /\ AllSentBy(Stream, Len(sent))
      BY <1>2, <1>6
    <3> DEFINE s == Stream
               t == Stream'
    <3>2. /\ s \in Seq(Frames) /\ t \in Seq(Frames) /\ Len(t) = Len(s) /\ Len(s) # 0
          /\ s[Len(s)].kind = "state" /\ t[Len(s)] = Merge(s[Len(s)], f)
          /\ \A p \in 1..(Len(s) - 1) : t[p] = s[p]
      BY <1>2, <2>1, <2>6
    <3> HIDE DEF s, t
    <3>3. Says(s, sent) /\ AllSentBy(s, Len(sent))
      BY <3>1 DEF s
    <3>4. Says(t, Append(sent, f))
      BY <1>1, <2>1, <3>2, <3>3, SaysMerge
    <3> QED
      BY <3>4 DEF t
  <2> QED
    BY <1>1, <1>4, <1>6, <1>8, <2>2, <2>4, <2>5, <2>7
<1>9. CASE ~retired /\ MergesAt(frames, f) = {} /\ Full(frames)
  <2>1. retired' = TRUE /\ frames' = <<>> /\ open' = FALSE
    BY <1>9 DEF Send, Retire
  <2>2. frames' \in Seq(Frames) /\ Len(frames') <= MaxPending /\ AllSentBy(frames', n + 1)
    <3>1. <<>> \in Seq(Frames) /\ Len(<<>>) = 0 /\ 0 <= MaxPending
      BY DeliveryAssumption, EmptySeq
    <3>2. AllSentBy(<<>>, n + 1)
      BY <3>1 DEF AllSentBy
    <3> QED
      BY <2>1, <3>1, <3>2
  <2> QED
    BY <1>4, <2>1, <2>2
<1>10. CASE ~retired /\ MergesAt(frames, f) = {} /\ ~Full(frames)
  <2>1. frames' = Append(frames, f) /\ retired' = retired /\ open' = open
    BY <1>10 DEF Send
  <2>2. /\ frames' \in Seq(Frames) /\ Len(frames') = Len(frames) + 1
        /\ \A j \in 1..Len(frames) : frames'[j] = frames[j]
        /\ frames'[Len(frames) + 1] = f
    <3>1. /\ Append(frames, f) \in Seq(Frames) /\ Len(Append(frames, f)) = Len(frames) + 1
          /\ \A j \in 1..Len(frames) : Append(frames, f)[j] = frames[j]
          /\ Append(frames, f)[Len(frames) + 1] = f
      BY <1>1, AppendProperties
    <3> QED
      BY <2>1, <3>1
  <2>3. Len(frames') <= MaxPending
    BY <1>1, <1>10, <2>2, DeliveryAssumption DEF Full
  <2>4. AllSentBy(frames', n + 1)
    <3>1. \A j \in 1..Len(frames') : j \in 1..Len(frames) \/ j = Len(frames) + 1
      BY <1>1, <2>2
    <3> QED
      BY <1>3, <2>2, <3>1 DEF AllSentBy
  <2>5. Stream' = Append(Stream, f)
    BY <1>1, <1>2, <1>5, <2>1, JoinedAppend
  <2>6. open' => Says(Stream', sent')
    <3> SUFFICES ASSUME open PROVE Says(Append(Stream, f), Append(sent, f))
      BY <1>4, <2>1, <2>5
    <3>1. Says(Stream, sent) /\ AllSentBy(Stream, Len(sent))
      BY <1>2, <1>6
    <3> QED
      BY <1>1, <1>2, <3>1, SaysAppend
  <2> QED
    BY <1>4, <1>6, <1>10, <2>1, <2>2, <2>3, <2>4, <2>6
<1> QED
  BY <1>7, <1>8, <1>9, <1>10

\* Nothing said is nothing to hold against.
LEMMA NoFrames ==
  <<>> \in Seq(Frames) /\ Len(<<>>) <= MaxPending /\ \A n : AllSentBy(<<>>, n)
<1>1. <<>> \in Seq(Frames) /\ Len(<<>>) = 0
  BY EmptySeq
<1> QED
  BY <1>1, DeliveryAssumption DEF AllSentBy

\* Taking the next batch off the backlog of an open peer, once the last one is
\* written, leaves the stream as it was.
LEMMA NextBatchSays ==
  ASSUME Inv, NextBatch(open /\ ~retired), received' = IF open THEN received \o batch ELSE received
  PROVE  /\ frames' \in Seq(Frames) /\ Len(frames') <= MaxPending /\ AllSentBy(frames', Len(sent))
         /\ batch' \in Seq(Frames) /\ AllSentBy(batch', Len(sent))
         /\ drain' \in {"off", "authorizing"} /\ (drain' = "off" => batch' = <<>>)
         /\ retired => frames' = <<>>
         /\ open => Stream' = Stream
<1>1. /\ frames \in Seq(Frames) /\ batch \in Seq(Frames) /\ received \in Seq(Frames)
      /\ Len(frames) <= MaxPending /\ AllSentBy(frames, Len(sent)) /\ Len(sent) \in Int
      /\ Len(frames) \in Nat
      /\ retired \in BOOLEAN /\ open \in BOOLEAN /\ (retired => ~open /\ frames = <<>>)
  BY LenProperties DEF Inv, TypeOK
<1>2. ~retired \/ ~open
  BY <1>1
<1>3. CASE frames = <<>> \/ ~open
  <2>1. drain' = "off" /\ batch' = <<>> /\ frames' = <<>>
    BY <1>1, <1>3 DEF NextBatch
  <2>2. ASSUME open PROVE Stream' = Stream
    <3>1. received' = received \o batch /\ frames = <<>>
      BY <1>3, <2>2
    <3>2. received \o batch \in Seq(Frames)
      BY <1>1, ConcatProperties
    <3>3. (received \o batch) \o <<>> = received \o batch
      BY <3>2, ConcatEmptySeq
    <3> QED
      BY <2>1, <3>1, <3>3 DEF Stream
  <2> QED
    BY <2>1, <2>2, NoFrames
<1>4. CASE frames # <<>> /\ open
  <2> DEFINE b == BatchSize(frames)
             one == SubSeq(frames, 1, b)
             two == SubSeq(frames, b + 1, Len(frames))
  <2>1. b \in 0..Len(frames) /\ b # 0
    BY <1>1, <1>4, BatchFits
  <2>2. drain' = "authorizing" /\ batch' = one /\ frames' = two /\ ~retired
    BY <1>1, <1>4 DEF NextBatch
  <2> HIDE DEF b
  <2>3. /\ one \in Seq(Frames) /\ two \in Seq(Frames) /\ one \o two = frames
        /\ Len(two) = Len(frames) - b /\ AllSentBy(one, Len(sent)) /\ AllSentBy(two, Len(sent))
    BY <1>1, <2>1, Cut
  <2> HIDE DEF one, two
  <2>4. Len(two) <= MaxPending
    BY <1>1, <2>1, <2>3, DeliveryAssumption
  <2>5. Stream' = Stream
    <3>1. received \o batch \in Seq(Frames)
      BY <1>1, ConcatProperties
    <3>2. ((received \o batch) \o one) \o two = (received \o batch) \o (one \o two)
      <4> DEFINE past == received \o batch
      <4>1. past \in Seq(Frames) /\ one \in Seq(Frames) /\ two \in Seq(Frames)
        BY <2>3, <3>1
      <4> HIDE DEF past
      <4>2. (past \o one) \o two = past \o (one \o two)
        BY <4>1, ConcatAssociative
      <4> QED
        BY <4>2 DEF past
    <3>3. received' = received \o batch
      BY <1>4
    <3>4. Stream' = (received' \o batch') \o frames'
      BY DEF Stream
    <3> QED
      BY <2>2, <2>3, <3>2, <3>3, <3>4 DEF Stream
  <2> QED
    BY <2>2, <2>3, <2>4, <2>5
<1> QED
  BY <1>1, <1>3, <1>4

\* Concatenation under a name, which the provers need not look into.
Then(s, t) == s \o t

\* A border moved within the middle part of a sequence.
LEMMA Regrouped ==
  ASSUME NEW s \in Seq(Frames), NEW m \in Seq(Frames), NEW v \in Seq(Frames),
         NEW t \in Seq(Frames), NEW u \in Seq(Frames), Then(t, u) = m
  PROVE  Then(Then(s, m), v) = Then(Then(s, t), Then(u, v))
<1>1. \A S : \A a, b, c \in Seq(S) : Then(Then(a, b), c) = Then(a, Then(b, c))
  BY ConcatAssociative, Zenon DEF Then
<1>2. \A S : \A a, b \in Seq(S) : Then(a, b) \in Seq(S)
  BY ConcatProperties, Zenon DEF Then
<1>3. Then(Then(s, t), u) = Then(s, m) /\ Then(s, t) \in Seq(Frames)
  BY <1>1, <1>2
<1> QED
  BY <1>1, <1>3

\* The peer's socket gets a beginning of its stream: what an open peer may still
\* receive is in context.
LEMMA WrittenInContext ==
  ASSUME Inv, open, NEW n \in 0..Len(batch)
  PROVE  /\ received \o SubSeq(batch, 1, n) \in Seq(Frames)
         /\ InContext(received \o SubSeq(batch, 1, n), sent)
         /\ AllSentBy(received \o SubSeq(batch, 1, n), Len(sent))
         /\ AllSentBy(batch, lostAt) => AllSentBy(received \o SubSeq(batch, 1, n), lostAt)
<1> DEFINE one == SubSeq(batch, 1, n)
           two == SubSeq(batch, n + 1, Len(batch))
<1>1. /\ frames \in Seq(Frames) /\ batch \in Seq(Frames) /\ received \in Seq(Frames)
      /\ sent \in Seq(Frames)
      /\ AllSentBy(received, Len(sent)) /\ AllSentBy(batch, Len(sent)) /\ Len(sent) \in Int
      /\ AllSentBy(received, lostAt) /\ lostAt \in Int
      /\ Says(Stream, sent)
  BY LenProperties, DeliveryAssumption DEF Inv, TypeOK
<1>2. /\ one \in Seq(Frames) /\ two \in Seq(Frames) /\ one \o two = batch
      /\ AllSentBy(one, Len(sent))
  BY <1>1, Cut
<1>3. AllSentBy(batch, lostAt) => AllSentBy(one, lostAt)
  BY <1>1, Cut
<1> HIDE DEF one, two
<1> DEFINE w == received \o one
           rest == two \o frames
<1>4. /\ w \in Seq(Frames) /\ AllSentBy(w, Len(sent))
      /\ AllSentBy(one, lostAt) => AllSentBy(w, lostAt)
  BY <1>1, <1>2, Joined
<1>5. rest \in Seq(Frames)
  BY <1>1, <1>2, Joined
<1>6. Stream = w \o rest
  <2>1. (received \o batch) \o frames = (received \o one) \o (two \o frames)
    <3>1. /\ received \in Seq(Frames) /\ batch \in Seq(Frames) /\ frames \in Seq(Frames)
          /\ one \in Seq(Frames) /\ two \in Seq(Frames) /\ one \o two = batch
      BY <1>1, <1>2
    <3>2. Then(one, two) = batch
      BY <3>1 DEF Then
    <3>3. Then(Then(received, batch), frames) = Then(Then(received, one), Then(two, frames))
      BY <3>1, <3>2, Regrouped
    <3> QED
      BY <3>3, Zenon DEF Then
  <2> QED
    BY <2>1 DEF Stream
<1> HIDE DEF w, rest
<1>7. Begins(w, Stream) /\ Stream \in Seq(Frames)
  BY <1>4, <1>5, <1>6, Joined
<1>8. InContext(w, sent)
  BY <1>1, <1>4, <1>7, InContextPrefix DEF Says
<1> QED
  BY <1>3, <1>4, <1>8 DEF w, one

-----------------------------------------------------------------------------
(* One step at a time *)

LEMMA InitInv == Init => Inv
<1> SUFFICES ASSUME Init PROVE Inv
  OBVIOUS
<1>1. /\ frames = <<>> /\ batch = <<>> /\ sent = <<>> /\ received = <<>>
      /\ drain = "off" /\ allowed = FALSE /\ retired = FALSE
      /\ open = TRUE /\ access = TRUE /\ lostAt = MaxSends
  BY DEF Init
<1>2. <<>> \in Seq(Frames) /\ Len(<<>>) = 0 /\ 1..0 = {}
  BY EmptySeq
<1>3. MaxSends \in 0..MaxSends /\ 0 <= MaxSends /\ 0 <= MaxPending
  BY DeliveryAssumption
<1>4. TypeOK
  BY <1>1, <1>2, <1>3 DEF TypeOK
<1>5. \A n : AllSentBy(<<>>, n)
  BY <1>2 DEF AllSentBy
<1>6. InContext(<<>>, <<>>)
  BY <1>2 DEF InContext, EventPositions
<1>7. Says(<<>>, <<>>)
  BY <1>6 DEF Says
<1>8. Stream = <<>>
  BY <1>1, <1>2, ConcatEmptySeq DEF Stream
<1>9. Len(sent) <= MaxSends /\ \A n \in 1..Len(sent) : sent[n].stamp = n
  BY <1>1, <1>2, <1>3
<1> QED
  BY <1>1, <1>4, <1>5, <1>6, <1>7, <1>8, <1>9 DEF Inv

LEMMA SendStep ==
  ASSUME Inv, Len(sent) < MaxSends, NEW f \in Frames, f.stamp = Len(sent) + 1,
         SentBy(f, Len(sent) + 1), Send(f)
  PROVE  Inv'
<1> DEFINE n == Len(sent)
<1>1. /\ batch \in Seq(Frames) /\ received \in Seq(Frames) /\ sent \in Seq(Frames)
      /\ n \in Nat /\ n \in Int /\ n + 1 \in Int /\ n <= n + 1 /\ n + 1 <= MaxSends
      /\ AllSentBy(received, n) /\ AllSentBy(batch, n) /\ InContext(received, sent)
  BY LenProperties, DeliveryAssumption DEF Inv, TypeOK
<1>2. /\ frames' \in Seq(Frames) /\ Len(frames') <= MaxPending /\ AllSentBy(frames', n + 1)
      /\ open' => Says(Stream', sent')
      /\ retired' => ~open' /\ frames' = <<>>
      /\ retired' \in BOOLEAN /\ open' \in BOOLEAN
      /\ UNCHANGED <<batch, allowed, access, received, lostAt>> /\ sent' = Append(sent, f)
      /\ drain' \in {drain, "starting"} /\ (drain' # drain => drain = "off")
  BY SendSays
<1>3. /\ sent' \in Seq(Frames) /\ Len(sent') = n + 1 /\ Begins(sent, sent')
      /\ sent'[n + 1] = f
  BY <1>1, <1>2, SentGrows
<1>4. TypeOK'
  BY <1>2, <1>3 DEF Inv, TypeOK
<1>5. \A m \in 1..Len(sent') : sent'[m].stamp = m
  <2>1. \A m \in 1..Len(sent') : m \in 1..n \/ m = n + 1
    BY <1>1, <1>3
  <2> QED
    BY <1>1, <1>3, <2>1 DEF Inv, Begins
<1>6. AllSentBy(received, n + 1) /\ AllSentBy(batch, n + 1)
  BY <1>1, SentLater
<1>7. InContext(received, sent')
  BY <1>1, <1>3, InContextGrows
<1>8. /\ drain' = "decided" /\ allowed' => AllSentBy(batch', lostAt')
      /\ drain' \in {"off", "starting"} => batch' = <<>>
      /\ access' => lostAt' = MaxSends
      /\ AllSentBy(received', lostAt')
  BY <1>2 DEF Inv
<1> QED
  BY <1>1, <1>2, <1>3, <1>4, <1>5, <1>6, <1>7, <1>8 DEF Inv

LEMMA SendStateStep == Inv /\ SendState => Inv'
<1> SUFFICES ASSUME Inv, NEW k \in Keys, Send(StateFrame(k, Len(sent) + 1)) PROVE Inv'
  BY DEF SendState
<1>1. Len(sent) < MaxSends
  BY DEF Send
<1>2. Len(sent) + 1 \in Stamps
  BY <1>1, LenProperties, DeliveryAssumption DEF Inv, TypeOK, Stamps
<1> DEFINE f == StateFrame(k, Len(sent) + 1)
<1>3. f \in Frames /\ SentBy(f, Len(sent) + 1) /\ f.stamp = Len(sent) + 1 /\ Send(f)
  BY <1>2, SentFrame
<1> HIDE DEF f
<1> QED
  BY <1>1, <1>3, SendStep

LEMMA SendOtherStep == Inv /\ SendOther => Inv'
<1> SUFFICES ASSUME Inv, NEW kind \in {"action", "other"}, Send(OtherFrame(kind, Len(sent) + 1))
             PROVE  Inv'
  BY DEF SendOther
<1>1. Len(sent) < MaxSends
  BY DEF Send
<1>2. Len(sent) + 1 \in Stamps
  BY <1>1, LenProperties, DeliveryAssumption DEF Inv, TypeOK, Stamps
<1> DEFINE f == OtherFrame(kind, Len(sent) + 1)
<1>3. f \in Frames /\ SentBy(f, Len(sent) + 1) /\ f.stamp = Len(sent) + 1 /\ Send(f)
  BY <1>2, SentFrame
<1> HIDE DEF f
<1> QED
  BY <1>1, <1>3, SendStep

LEMMA StartDrainStep == Inv /\ StartDrain => Inv'
<1> SUFFICES ASSUME Inv, StartDrain PROVE Inv'
  OBVIOUS
<1>1. /\ drain = "starting" /\ NextBatch(open)
      /\ UNCHANGED <<allowed, retired, open, access, sent, received, lostAt>>
  BY DEF StartDrain, historyVars
<1>2. batch = <<>> /\ received \in Seq(Frames) /\ retired \in BOOLEAN /\ open \in BOOLEAN
      /\ (retired => ~open)
  BY <1>1 DEF Inv, TypeOK
<1>3. received' = IF open THEN received \o batch ELSE received
  BY <1>1, <1>2, ConcatEmptySeq
<1>4. NextBatch(open /\ ~retired)
  <2>1. (open /\ ~retired) = open
    BY <1>2
  <2> QED
    BY <1>1, <2>1
<1>5. /\ frames' \in Seq(Frames) /\ Len(frames') <= MaxPending /\ AllSentBy(frames', Len(sent))
      /\ batch' \in Seq(Frames) /\ AllSentBy(batch', Len(sent))
      /\ drain' \in {"off", "authorizing"} /\ (drain' = "off" => batch' = <<>>)
      /\ retired => frames' = <<>>
      /\ open => Stream' = Stream
  BY <1>3, <1>4, NextBatchSays
<1>6. TypeOK'
  BY <1>1, <1>5 DEF Inv, TypeOK
<1>7. open' => Says(Stream', sent')
  BY <1>1, <1>5 DEF Inv
<1> QED
  BY <1>1, <1>2, <1>5, <1>6, <1>7 DEF Inv

\* The access authorize() finds was not lost before.
LEMMA DecideStep == Inv /\ Decide => Inv'
<1> SUFFICES ASSUME Inv, Decide PROVE Inv'
  OBVIOUS
<1>1. /\ drain' = "decided" /\ (allowed' = access \/ allowed' = FALSE)
      /\ UNCHANGED <<frames, batch, retired, open, access, sent, received, lostAt>>
  BY DEF Decide, historyVars
<1>2. TypeOK'
  BY <1>1 DEF Inv, TypeOK
<1>3. allowed' => AllSentBy(batch, lostAt)
  <2>1. allowed' => lostAt = MaxSends
    BY <1>1 DEF Inv
  <2>2. AllSentBy(batch, MaxSends)
    BY SentWithinBound DEF Inv, TypeOK
  <2> QED
    BY <2>1, <2>2
<1>4. Stream' = Stream
  BY <1>1 DEF Stream
<1> QED
  BY <1>1, <1>2, <1>3, <1>4 DEF Inv

LEMMA FinishBatchStep == Inv /\ FinishBatch => Inv'
<1> SUFFICES ASSUME Inv, FinishBatch PROVE Inv'
  OBVIOUS
<1>1. drain = "decided" /\ UNCHANGED <<allowed, access, sent, lostAt>>
  BY DEF FinishBatch
<1>2. /\ batch \in Seq(Frames) /\ received \in Seq(Frames) /\ Len(batch) \in Nat
      /\ retired \in BOOLEAN /\ open \in BOOLEAN /\ (retired => ~open)
      /\ AllSentBy(received, Len(sent)) /\ AllSentBy(received, lostAt) /\ InContext(received, sent)
  BY LenProperties DEF Inv, TypeOK
<1>3. CASE allowed
  <2>1. received' = received \o Written /\ NextBatch(open /\ ~retired) /\ UNCHANGED <<retired, open>>
    BY <1>3 DEF FinishBatch
  <2>2. received' = IF open THEN received \o batch ELSE received
    BY <1>2, <2>1, ConcatEmptySeq DEF Written
  <2>3. /\ received' \in Seq(Frames) /\ InContext(received', sent)
        /\ AllSentBy(received', Len(sent)) /\ AllSentBy(received', lostAt)
    <3>1. CASE ~open
      BY <1>2, <2>2, <3>1
    <3>2. CASE open
      <4>1. Len(batch) \in 0..Len(batch) /\ SubSeq(batch, 1, Len(batch)) = batch
        BY <1>2, SubSeqFull
      <4>2. AllSentBy(batch, lostAt)
        BY <1>1, <1>3 DEF Inv
      <4> QED
        BY <2>2, <3>2, <4>1, <4>2, WrittenInContext
    <3> QED
      BY <1>2, <3>1, <3>2
  <2>4. /\ frames' \in Seq(Frames) /\ Len(frames') <= MaxPending /\ AllSentBy(frames', Len(sent))
        /\ batch' \in Seq(Frames) /\ AllSentBy(batch', Len(sent))
        /\ drain' \in {"off", "authorizing"} /\ (drain' = "off" => batch' = <<>>)
        /\ retired => frames' = <<>>
        /\ open => Stream' = Stream
    BY <2>1, <2>2, NextBatchSays
  <2>5. TypeOK'
    BY <1>1, <2>1, <2>3, <2>4 DEF Inv, TypeOK
  <2>6. open' => Says(Stream', sent')
    BY <1>1, <2>1, <2>4 DEF Inv
  <2> QED
    BY <1>1, <1>2, <2>1, <2>3, <2>4, <2>5, <2>6 DEF Inv
<1>4. CASE ~allowed
  <2>1. /\ retired' = TRUE /\ frames' = <<>> /\ open' = FALSE
        /\ drain' = "off" /\ batch' = <<>> /\ received' = received
    BY <1>4 DEF FinishBatch, Retire
  <2>2. TypeOK'
    BY <1>1, <2>1, NoFrames DEF Inv, TypeOK
  <2> QED
    BY <1>1, <2>1, <2>2, NoFrames DEF Inv
<1> QED
  BY <1>3, <1>4

LEMMA WriteFailsStep == Inv /\ WriteFails => Inv'
<1> SUFFICES ASSUME Inv, WriteFails PROVE Inv'
  OBVIOUS
<1>1. /\ drain = "decided" /\ allowed /\ open
      /\ retired' = TRUE /\ frames' = <<>> /\ open' = FALSE
      /\ drain' = "off" /\ batch' = <<>>
      /\ UNCHANGED <<allowed, access, sent, lostAt>>
  BY DEF WriteFails, Retire
<1>2. PICK n \in 0..Len(batch) - 1 : received' = received \o SubSeq(batch, 1, n)
  BY DEF WriteFails
<1>3. n \in 0..Len(batch)
  BY LenProperties DEF Inv, TypeOK
<1>4. AllSentBy(batch, lostAt)
  BY <1>1 DEF Inv
<1>5. /\ received' \in Seq(Frames) /\ InContext(received', sent)
      /\ AllSentBy(received', Len(sent)) /\ AllSentBy(received', lostAt)
  BY <1>1, <1>2, <1>3, <1>4, WrittenInContext
<1>6. TypeOK'
  BY <1>1, <1>5, NoFrames DEF Inv, TypeOK
<1> QED
  BY <1>1, <1>5, <1>6, NoFrames DEF Inv

LEMMA CloseStep == Inv /\ Close => Inv'
<1> SUFFICES ASSUME Inv, Close PROVE Inv'
  OBVIOUS
<1>1. /\ open' = FALSE
      /\ UNCHANGED <<frames, drain, batch, allowed, retired, access, sent, received, lostAt>>
  BY DEF Close, queueVars, historyVars
<1>2. TypeOK'
  BY <1>1 DEF Inv, TypeOK
<1> QED
  BY <1>1, <1>2 DEF Inv

LEMMA RemoveStep == Inv /\ Remove => Inv'
<1> SUFFICES ASSUME Inv, Remove PROVE Inv'
  OBVIOUS
<1>1. /\ ~open /\ retired' = TRUE /\ frames' = <<>>
      /\ UNCHANGED <<drain, batch, allowed, open, access, sent, received, lostAt>>
  BY DEF Remove, historyVars
<1>2. TypeOK'
  BY <1>1, NoFrames DEF Inv, TypeOK
<1> QED
  BY <1>1, <1>2, NoFrames DEF Inv

LEMMA LoseAccessStep == Inv /\ LoseAccess => Inv'
<1> SUFFICES ASSUME Inv, LoseAccess PROVE Inv'
  OBVIOUS
<1>1. /\ access' = FALSE /\ lostAt' = Len(sent)
      /\ UNCHANGED <<frames, drain, batch, allowed, retired, open, sent, received>>
  BY DEF LoseAccess, queueVars
<1>2. Len(sent) \in 0..MaxSends
  BY LenProperties, DeliveryAssumption DEF Inv, TypeOK
<1>3. TypeOK'
  BY <1>1, <1>2 DEF Inv, TypeOK
<1>4. Stream' = Stream
  BY <1>1 DEF Stream
<1>5. AllSentBy(received', lostAt') /\ AllSentBy(batch', lostAt')
  BY <1>1 DEF Inv
<1> QED
  BY <1>1, <1>3, <1>4, <1>5 DEF Inv

-----------------------------------------------------------------------------
(* The theorems *)

\* The inductive invariant holds in every reachable state of the queue.
THEOREM Invariance == Spec => []Inv
<1>1. Init => Inv
  BY InitInv
<1>2. Inv /\ [Next]_vars => Inv'
  <2> SUFFICES ASSUME Inv, [Next]_vars PROVE Inv'
    OBVIOUS
  <2>1. CASE UNCHANGED vars
    <3>1. UNCHANGED <<frames, drain, batch, allowed, retired, open, access, sent, received, lostAt>>
      BY <2>1 DEF vars, queueVars, historyVars
    <3>2. TypeOK'
      BY <3>1 DEF Inv, TypeOK
    <3>3. Stream' = Stream
      BY <3>1 DEF Stream
    <3> QED
      BY <3>1, <3>2, <3>3 DEF Inv
  <2>2. CASE Next
    BY <2>2, SendStateStep, SendOtherStep, StartDrainStep, DecideStep, FinishBatchStep,
       WriteFailsStep, CloseStep, RemoveStep, LoseAccessStep DEF Next, Drain
  <2> QED
    BY <2>1, <2>2
<1> QED
  BY <1>1, <1>2, PTL DEF Spec

\* Every variable of the queue keeps its type and the backlog its limit (maxPending),
\* for any limit, any number of frames and any keys.
THEOREM TypeCorrect == Spec => []TypeOK
<1>1. Inv => TypeOK
  BY DEF Inv
<1> QED
  BY <1>1, Invariance, PTL

\* The merging of state updates in the backlog (SocketDeliveryQueue.send), the cutting
\* of batches at client actions (nextBatchSize) and a write that fails half way are
\* invisible to the peer: at every event and action it received it holds the state the
\* sender had, with none skipped and none repeated.
THEOREM MergingIsInvisible == Spec => []DeliveredInContext
<1>1. Inv => DeliveredInContext
  <2> SUFFICES ASSUME Inv PROVE DeliveredInContext
    OBVIOUS
  <2>1. InContext(received, sent)
    BY DEF Inv
  <2> QED
    BY <2>1 DEF InContext, DeliveredInContext, EventsUpTo
<1> QED
  BY <1>1, Invariance, PTL

\* authorize() before every batch keeps from the socket whatever was sent after the
\* access was lost: queued, merged into an older frame or being authorized.
THEOREM NothingWrittenAfterAccessLost == Spec => []NothingAfterAccessLost
<1>1. Inv => NothingAfterAccessLost
  <2> SUFFICES ASSUME Inv PROVE NothingAfterAccessLost
    OBVIOUS
  <2>1. AllSentBy(received, lostAt)
    BY DEF Inv
  <2> QED
    BY <2>1 DEF AllSentBy, SentBy, NothingAfterAccessLost
<1> QED
  BY <1>1, Invariance, PTL

=============================================================================
