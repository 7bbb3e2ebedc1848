----------------------- MODULE DurableObjectHostProofs -----------------------
(***************************************************************************)
(* Proofs about DurableObjectHost for any connections, readers and bounds: *)
(* there is one component at a time and no join takes it from a connected  *)
(* peer, the stored state never goes back, connected peers hold the        *)
(* current state, across hibernation and restarts, and the whole           *)
(* implements StateContract.                                               *)
(***************************************************************************)
EXTENDS DurableObjectHost, SequenceTheorems, FiniteSetTheorems, TLAPS

-----------------------------------------------------------------------------
(* The inductive invariant *)

InLine(c, line) == \E n \in 1..Len(line) : line[n] = c

\* Nobody stands in the line twice.
Orderly(line) == \A m, n \in 1..Len(line) : line[m] = line[n] => m = n

\* The initialization belongs to the requests that need it, each in one place.
Lock ==
  /\ owner = Nobody <=> phase = "none"
  /\ owner = Nobody => waiting = <<>>
  /\ Orderly(waiting) /\ ~InLine(owner, waiting)
  /\ \A c \in Callers : call[c] # "none" <=> c = owner \/ InLine(c, waiting)

\* What each request can be about: readers only read, sockets that are new do nothing.
Requests ==
  /\ \A c \in Callers : call[c] \notin {"none", "ensureRead"} => c \in Conns
  /\ \A c \in Conns : conn[c] = "new" => call[c] = "none"

Constructing == phase \in {"building", "persisting"}

\* The components: one is being built exactly while an operation builds it, for want of
\* an instance; one is published exactly when it is the instance.
Lives ==
  /\ \A k \in Ids : status[k] = "published" <=> instance = k
  /\ \A k \in Ids : status[k] = "building" => Constructing
  /\ \A j, k \in Ids : status[j] = "building" /\ status[k] = "building" => j = k
  /\ Constructing => known /\ instance = 0 /\ \E k \in Ids : status[k] = "building"
  /\ phase = "persisting" => Stateful /\ call[owner] = "join"

\* A connected peer's component was published, and not disposed since.
Hosted ==
  \A c \in Conns : conn[c] = "open" => joined[c] \in Ids /\ status[joined[c]] \in {"published", "gone"}

\* Only the instance of a stateful object is at work: it acts, waits to be broadcast
\* and stores itself.  Anything else stores nothing.
Storage ==
  /\ ~Stateful => stored = -1 /\ puts = <<>>
  /\ Stateful => /\ \A c \in Conns : act[c].at # "none" => instance # 0 /\ act[c].on = instance
                 /\ \A k \in Ids : dirty[k] => k = instance
                 /\ puts # <<>> => instance # 0

\* States are stored in the order they were written.
Forward ==
  /\ writes \in 0..MaxWrites /\ stored <= writes /\ \A k \in Ids : value[k] <= writes
  /\ \A n \in 1..Len(puts) : stored <= puts[n] /\ (instance # 0 => puts[n] <= value[instance])
  /\ \A m, n \in 1..Len(puts) : m <= n => puts[m] <= puts[n]
  /\ \A k \in Ids : Stateful /\ status[k] \in {"building", "published"} => stored <= value[k]

\* A component is created afresh only if nothing is stored, else it is restored.
Restoring ==
  /\ \A c \in Callers : Stateful /\ known /\ instance = 0 /\ call[c] = "join" => stored = -1
  /\ \A k \in Ids : Stateful /\ status[k] = "building" /\ call[owner] # "join" => value[k] = stored

\* What is stored, or about to be, is the current state once it was broadcast.
StoredIsCurrent ==
  Stateful /\ instance # 0 /\ ~dirty[instance] =>
    /\ puts # <<>> => puts[Len(puts)] = value[instance]
    /\ puts = <<>> /\ ~putLost => stored = value[instance]

\* ... and so is what the peers were sent: by the instance or, while there is none, by
\* the one that was stored.
PeersAreCurrent ==
  \A c \in Conns : Stateful /\ conn[c] = "open" =>
    /\ instance = 0 /\ ~putLost => view[c].value = stored
    /\ instance # 0 /\ ~dirty[instance] /\ (~putLost \/ puts # <<>>) => view[c].value = value[instance]

Inv ==
  /\ TypeOK
  /\ Lock /\ Requests /\ Lives /\ Hosted
  /\ Storage /\ Forward /\ Restoring /\ StoredIsCurrent /\ PeersAreCurrent

-----------------------------------------------------------------------------
(* The line for the initialization *)

LEMMA LineTypes ==
  ASSUME NEW line \in Seq(Callers)
  PROVE  /\ Len(line) \in Nat /\ \A n \in 1..Len(line) : line[n] \in Callers
         /\ \A c : InLine(c, line) => c \in Callers
<1>1. Len(line) \in Nat /\ \A n \in 1..Len(line) : line[n] \in Callers
  BY LenProperties, ElementOfSeq
<1> QED
  BY <1>1 DEF InLine

LEMMA EmptyLine ==
  /\ <<>> \in Seq(Callers) /\ Orderly(<<>>) /\ \A c : ~InLine(c, <<>>)
<1>1. <<>> \in Seq(Callers) /\ Len(<<>>) = 0
  BY EmptySeq
<1> QED
  BY <1>1 DEF Orderly, InLine

LEMMA LongerLine ==
  ASSUME NEW line \in Seq(Callers), Orderly(line), NEW c \in Callers, ~InLine(c, line)
  PROVE  /\ Append(line, c) \in Seq(Callers) /\ Orderly(Append(line, c))
         /\ \A d : InLine(d, Append(line, c)) <=> InLine(d, line) \/ d = c
<1> DEFINE l == Append(line, c)
           n == Len(line)
<1>1. /\ l \in Seq(Callers) /\ Len(l) = n + 1 /\ n \in Nat
      /\ \A m \in 1..n : l[m] = line[m]
      /\ l[n + 1] = c
  BY AppendProperties, LenProperties
<1> HIDE DEF l
<1>2. \A m \in 1..Len(l) : m \in 1..n \/ m = n + 1
  BY <1>1
<1>3. \A m \in 1..n : m \in 1..Len(l)
  BY <1>1
<1>4. n + 1 \in 1..Len(l)
  BY <1>1
<1>5. ASSUME NEW i \in 1..Len(l), NEW j \in 1..Len(l), l[i] = l[j] PROVE i = j
  <2>1. CASE i \in 1..n /\ j \in 1..n
    BY <1>1, <1>5, <2>1 DEF Orderly
  <2>2. CASE i = n + 1 /\ j \in 1..n
    BY <1>1, <1>5, <2>2 DEF InLine
  <2>3. CASE i \in 1..n /\ j = n + 1
    BY <1>1, <1>5, <2>3 DEF InLine
  <2>4. CASE i = n + 1 /\ j = n + 1
    BY <2>4
  <2> QED
    BY <1>2, <2>1, <2>2, <2>3, <2>4
<1>6. ASSUME NEW d PROVE InLine(d, l) <=> InLine(d, line) \/ d = c
  <2>1. InLine(d, l) => InLine(d, line) \/ d = c
    BY <1>1, <1>2 DEF InLine
  <2>2. InLine(d, line) => InLine(d, l)
    BY <1>1, <1>3 DEF InLine
  <2>3. InLine(c, l)
    BY <1>1, <1>4 DEF InLine
  <2> QED
    BY <2>1, <2>2, <2>3
<1> QED
  BY <1>1, <1>5, <1>6 DEF Orderly, l

LEMMA ShorterLine ==
  ASSUME NEW line \in Seq(Callers), Orderly(line), line # <<>>
  PROVE  /\ Tail(line) \in Seq(Callers) /\ Orderly(Tail(line)) /\ Head(line) \in Callers
         /\ ~InLine(Head(line), Tail(line))
         /\ \A d : InLine(d, line) <=> d = Head(line) \/ InLine(d, Tail(line))
<1> DEFINE t == Tail(line)
           n == Len(line)
<1>1. /\ t \in Seq(Callers) /\ Len(t) = n - 1 /\ n \in Nat \ {0} /\ Head(line) = line[1]
      /\ Head(line) \in Callers
      /\ \A m \in 1..Len(t) : t[m] = line[m + 1]
  BY HeadTailProperties, EmptySeq
<1> HIDE DEF t
<1>2. \A m \in 1..Len(t) : m + 1 \in 1..n /\ t[m] = line[m + 1] /\ m + 1 # 1
  BY <1>1
<1>3. 1 \in 1..n
  BY <1>1
<1>4. ASSUME NEW i \in 1..Len(t), NEW j \in 1..Len(t), t[i] = t[j] PROVE i = j
  <2>1. line[i + 1] = line[j + 1] /\ i + 1 \in 1..n /\ j + 1 \in 1..n
    BY <1>2, <1>4
  <2>2. i + 1 = j + 1
    BY <2>1 DEF Orderly
  <2> QED
    BY <2>2
<1>5. ~InLine(line[1], t)
  BY <1>2, <1>3 DEF InLine, Orderly
<1>6. ASSUME NEW d PROVE InLine(d, line) <=> d = line[1] \/ InLine(d, t)
  <2>1. ASSUME NEW m \in 1..n, line[m] = d PROVE d = line[1] \/ InLine(d, t)
    <3>1. m = 1 \/ (m - 1 \in 1..Len(t) /\ (m - 1) + 1 = m)
      BY <1>1
    <3> QED
      BY <1>2, <2>1, <3>1 DEF InLine
  <2>2. InLine(d, t) => InLine(d, line)
    BY <1>2 DEF InLine
  <2>3. InLine(line[1], line)
    BY <1>3 DEF InLine
  <2> QED
    BY <2>1, <2>2, <2>3 DEF InLine
<1> QED
  BY <1>1, <1>4, <1>5, <1>6 DEF Orderly, t

\* The first in line takes over, or there is nobody.
LEMMA HandedOver ==
  ASSUME NEW line \in Seq(Callers), Orderly(line), HandOver(line)
  PROVE  /\ owner' \in Callers \union {Nobody} /\ waiting' \in Seq(Callers)
         /\ phase' \in {"none", "begin"} /\ (owner' = Nobody <=> phase' = "none")
         /\ owner' = Nobody => waiting' = <<>>
         /\ Orderly(waiting') /\ ~InLine(owner', waiting')
         /\ \A c \in Callers : InLine(c, line) <=> c = owner' \/ InLine(c, waiting')
<1>1. Nobody \notin Callers
  BY HostAssumption DEF Callers
<1>2. CASE line = <<>>
  <2>1. owner' = Nobody /\ phase' = "none" /\ waiting' = <<>>
    BY <1>2 DEF HandOver
  <2> QED
    BY <1>1, <1>2, <2>1, EmptyLine
<1>3. CASE line # <<>>
  <2>1. owner' = Head(line) /\ phase' = "begin" /\ waiting' = Tail(line)
    BY <1>3 DEF HandOver
  <2>2. /\ Tail(line) \in Seq(Callers) /\ Orderly(Tail(line)) /\ Head(line) \in Callers
        /\ ~InLine(Head(line), Tail(line))
        /\ \A d : InLine(d, line) <=> d = Head(line) \/ InLine(d, Tail(line))
    BY <1>3, ShorterLine
  <2> QED
    BY <1>1, <2>1, <2>2
<1> QED
  BY <1>2, <1>3

-----------------------------------------------------------------------------
(* How operations take and release the initialization *)

CallTypes == [Callers -> Ensures \union {"none", "join"}]

LEMMA OwnerCalls ==
  ASSUME Inv, owner # Nobody
  PROVE  owner \in Callers /\ call[owner] # "none" /\ call[owner] \in Ensures \union {"join"}
<1>1. owner \in Callers /\ call \in [Callers -> Ensures \union {"none", "join"}]
  BY DEF Inv, TypeOK
<1> QED
  BY <1>1 DEF Inv, Lock

\* A request that does nothing yet takes the initialization or stands in line for it.
LEMMA Entered ==
  ASSUME Inv, NEW c \in Callers, call[c] = "none", NEW what \in Ensures \union {"join"}, Enter(c, what)
  PROVE  /\ Lock' /\ call' \in CallTypes
         /\ owner' \in Callers \union {Nobody} /\ waiting' \in Seq(Callers)
         /\ phase' \in {"none", "begin", "building", "disposing", "persisting"}
         /\ \A d \in Callers : call'[d] = IF d = c THEN what ELSE call[d]
         /\ Constructing' <=> Constructing
         /\ phase' = "persisting" <=> phase = "persisting"
         /\ Constructing => owner' = owner /\ call'[owner'] = call[owner]
<1>1. /\ call \in CallTypes /\ owner \in Callers \union {Nobody} /\ waiting \in Seq(Callers)
      /\ phase \in {"none", "begin", "building", "disposing", "persisting"}
  BY DEF Inv, TypeOK, CallTypes
<1>2. Nobody \notin Callers
  BY HostAssumption DEF Callers
<1>3. /\ owner = Nobody <=> phase = "none"
      /\ owner = Nobody => waiting = <<>>
      /\ Orderly(waiting) /\ ~InLine(owner, waiting)
      /\ \A d \in Callers : call[d] # "none" <=> d = owner \/ InLine(d, waiting)
  BY DEF Inv, Lock
<1>4. call' \in CallTypes /\ \A d \in Callers : call'[d] = IF d = c THEN what ELSE call[d]
  BY <1>1 DEF Enter, CallTypes
<1>5. c # owner /\ ~InLine(c, waiting) /\ what # "none"
  BY <1>3 DEF Ensures
<1>6. CASE owner = Nobody
  <2>1. owner' = c /\ phase' = "begin" /\ waiting' = waiting /\ waiting = <<>> /\ phase = "none"
    BY <1>3, <1>6 DEF Enter
  <2>2. Lock'
    BY <1>2, <1>3, <1>4, <1>5, <1>6, <2>1, EmptyLine DEF Lock
  <2> QED
    BY <1>1, <1>4, <2>1, <2>2 DEF Constructing
<1>7. CASE owner # Nobody
  <2>1. owner' = owner /\ phase' = phase /\ waiting' = Append(waiting, c)
    BY <1>7 DEF Enter
  <2>2. /\ waiting' \in Seq(Callers) /\ Orderly(waiting')
        /\ \A d : InLine(d, waiting') <=> InLine(d, waiting) \/ d = c
    BY <1>1, <1>3, <1>5, <2>1, LongerLine
  <2>3. Lock'
    BY <1>3, <1>4, <1>5, <1>7, <2>1, <2>2 DEF Lock
  <2>4. call'[owner] = call[owner]
    BY <1>1, <1>4, <1>5, <1>7
  <2> QED
    BY <1>1, <1>4, <2>1, <2>2, <2>3, <2>4 DEF Constructing
<1> QED
  BY <1>6, <1>7

\* An operation that is over, and whose request is answered, hands over.
LEMMA Answered ==
  ASSUME Inv, NEW c \in Callers, owner = c, HandOver(waiting), call' = [call EXCEPT ![c] = "none"]
  PROVE  /\ Lock' /\ call' \in CallTypes
         /\ owner' \in Callers \union {Nobody} /\ waiting' \in Seq(Callers)
         /\ phase' \in {"none", "begin"} /\ ~Constructing'
         /\ \A d \in Callers : call'[d] = IF d = c THEN "none" ELSE call[d]
<1>1. call \in CallTypes /\ waiting \in Seq(Callers)
  BY DEF Inv, TypeOK, CallTypes
<1>2. /\ Orderly(waiting) /\ ~InLine(owner, waiting)
      /\ \A d \in Callers : call[d] # "none" <=> d = owner \/ InLine(d, waiting)
  BY DEF Inv, Lock
<1>3. /\ owner' \in Callers \union {Nobody} /\ waiting' \in Seq(Callers)
      /\ phase' \in {"none", "begin"} /\ (owner' = Nobody <=> phase' = "none")
      /\ owner' = Nobody => waiting' = <<>>
      /\ Orderly(waiting') /\ ~InLine(owner', waiting')
      /\ \A d \in Callers : InLine(d, waiting) <=> d = owner' \/ InLine(d, waiting')
  BY <1>1, <1>2, HandedOver
<1>4. call' \in CallTypes /\ \A d \in Callers : call'[d] = IF d = c THEN "none" ELSE call[d]
  BY <1>1 DEF CallTypes
<1>5. Lock'
  BY <1>2, <1>3, <1>4 DEF Lock
<1> QED
  BY <1>3, <1>4, <1>5 DEF Constructing

\* What every settling of an operation keeps of the sockets.
FewerOpen ==
  \A d \in Conns : /\ conn'[d] = "open" => conn[d] = "open"
                   /\ conn'[d] = "new" => conn[d] = "new"

ConnTypes == [Conns -> {"new", "joining", "open", "closing", "gone"}]

ActTypes == [Conns -> [on : Ids \union {0}, at : {"none", "queued", "running"}]]

\* ensureComponentInstance() is over.
LEMMA EnsuredEffect ==
  ASSUME Inv, NEW c \in Callers, owner = c, call[c] \in Ensures, NEW now \in Ids \union {0},
         NEW sockets \in ConnTypes, Ensured(c, now, sockets),
         \A d \in Conns : /\ sockets[d] = "open" => conn[d] = "open"
                          /\ sockets[d] = "new" => conn[d] = "new"
  PROVE  /\ Lock' /\ call' \in CallTypes
         /\ owner' \in Callers \union {Nobody} /\ waiting' \in Seq(Callers)
         /\ phase' \in {"none", "begin"} /\ ~Constructing'
         /\ conn' \in ConnTypes /\ FewerOpen /\ Requests'
         /\ act' \in ActTypes
         /\ \A d \in Conns : \/ now # 0 /\ act'[d].on = now
                             \/ act'[d] = act[d]
         /\ \A d \in Callers : call'[d] = "join" => call[d] = "join" \/ d = c
<1>1. /\ call \in CallTypes /\ waiting \in Seq(Callers) /\ conn \in ConnTypes /\ act \in ActTypes
  BY DEF Inv, TypeOK, CallTypes, ConnTypes, ActTypes
<1>2. /\ Orderly(waiting) /\ ~InLine(c, waiting)
      /\ \A d \in Callers : call[d] # "none" <=> d = c \/ InLine(d, waiting)
  BY DEF Inv, Lock
<1>3. /\ HandOver(IF call[c] = "ensureJoin" THEN Append(waiting, c) ELSE waiting)
      /\ call' = [call EXCEPT ![c] = IF @ = "ensureJoin" THEN "join" ELSE "none"]
      /\ IF call[c] = "ensureAct" /\ now # 0
         THEN act' = [act EXCEPT ![c] = [on |-> now, at |-> "queued"]] /\ conn' = sockets
         ELSE /\ UNCHANGED act
              /\ conn' = IF call[c] = "ensureAct" /\ sockets[c] = "open"
                         THEN [sockets EXCEPT ![c] = "closing"] ELSE sockets
  BY DEF Ensured
<1> DEFINE line == IF call[c] = "ensureJoin" THEN Append(waiting, c) ELSE waiting
<1>4. /\ line \in Seq(Callers) /\ Orderly(line) /\ HandOver(line)
      /\ \A d : InLine(d, line) <=> InLine(d, waiting) \/ (d = c /\ call[c] = "ensureJoin")
  <2>1. CASE call[c] = "ensureJoin"
    BY <1>1, <1>2, <1>3, <2>1, LongerLine
  <2>2. CASE call[c] # "ensureJoin"
    BY <1>1, <1>2, <1>3, <2>2
  <2> QED
    BY <2>1, <2>2
<1> HIDE DEF line
<1>5. /\ owner' \in Callers \union {Nobody} /\ waiting' \in Seq(Callers)
      /\ phase' \in {"none", "begin"} /\ (owner' = Nobody <=> phase' = "none")
      /\ owner' = Nobody => waiting' = <<>>
      /\ Orderly(waiting') /\ ~InLine(owner', waiting')
      /\ \A d \in Callers : InLine(d, line) <=> d = owner' \/ InLine(d, waiting')
  BY <1>4, HandedOver
<1>6. /\ call' \in CallTypes
      /\ \A d \in Callers :
           call'[d] = IF d = c THEN (IF call[c] = "ensureJoin" THEN "join" ELSE "none") ELSE call[d]
  BY <1>1, <1>3 DEF CallTypes
<1>7. Lock'
  BY <1>2, <1>4, <1>5, <1>6 DEF Lock
<1>8. conn' \in ConnTypes /\ FewerOpen
  <2>1. CASE conn' = sockets
    BY <2>1 DEF FewerOpen
  <2>2. CASE conn' = [sockets EXCEPT ![c] = "closing"]
    BY <2>2 DEF FewerOpen, ConnTypes
  <2> QED
    BY <1>3, <2>1, <2>2
<1>9. Requests'
  <2>1. /\ \A d \in Callers : call[d] \notin {"none", "ensureRead"} => d \in Conns
        /\ \A d \in Conns : conn[d] = "new" => call[d] = "none"
    BY DEF Inv, Requests
  <2>2. Conns \subseteq Callers
    BY DEF Callers
  <2>3. ASSUME NEW d \in Callers, call'[d] \notin {"none", "ensureRead"} PROVE d \in Conns
    BY <1>6, <2>1, <2>3
  <2>4. ASSUME NEW d \in Conns, conn'[d] = "new" PROVE call'[d] = "none"
    <3>1. call[d] = "none" /\ d \in Callers
      BY <1>8, <2>1, <2>2, <2>4 DEF FewerOpen
    <3>2. d # c
      BY <3>1 DEF Ensures
    <3> QED
      BY <1>6, <3>1, <3>2
  <2> QED
    BY <2>3, <2>4 DEF Requests
<1>10. act' \in ActTypes /\ \A d \in Conns : (now # 0 /\ act'[d].on = now) \/ act'[d] = act[d]
  <2>1. CASE UNCHANGED act
    BY <1>1, <2>1
  <2>2. CASE now # 0 /\ act' = [act EXCEPT ![c] = [on |-> now, at |-> "queued"]]
    <3>1. \A d \in Conns : act'[d] = IF d = c THEN [on |-> now, at |-> "queued"] ELSE act[d]
      BY <1>1, <2>2 DEF ActTypes
    <3>2. act' \in ActTypes
      BY <1>1, <2>2 DEF ActTypes
    <3>3. \A d \in Conns : act'[d].on = now \/ act'[d] = act[d]
      BY <3>1
    <3> QED
      BY <2>2, <3>2, <3>3
  <2> QED
    BY <1>3, <2>1, <2>2
<1> QED
  BY <1>5, <1>6, <1>7, <1>8, <1>9, <1>10 DEF Constructing

\* An operation failed, and everybody who waited with it.
LEMMA AllFailed ==
  ASSUME Inv, FailAll
  PROVE  /\ Lock' /\ Requests' /\ call' \in CallTypes /\ conn' \in ConnTypes /\ FewerOpen
         /\ owner' \in Callers \union {Nobody} /\ waiting' \in Seq(Callers)
         /\ phase' \in {"none", "begin"} /\ ~Constructing'
         /\ \A d \in Callers : call'[d] = "none"
<1>1. conn \in ConnTypes
  BY DEF Inv, TypeOK, ConnTypes
<1>2. owner' = Nobody /\ phase' = "none" /\ waiting' = <<>>
  BY DEF FailAll, HandOver
<1>3. call' \in CallTypes /\ \A d \in Callers : call'[d] = "none"
  BY DEF FailAll, CallTypes
<1>4. conn' \in ConnTypes /\ FewerOpen
  BY <1>1 DEF FailAll, ConnTypes, FewerOpen
<1>5. Nobody \notin Callers /\ Conns \subseteq Callers
  BY HostAssumption DEF Callers
<1>6. Lock'
  BY <1>2, <1>3, <1>5, EmptyLine DEF Lock
<1>7. Requests'
  BY <1>3, <1>5 DEF Requests
<1> QED
  BY <1>2, <1>3, <1>4, <1>6, <1>7, EmptyLine DEF Constructing

-----------------------------------------------------------------------------
(* The component that is being built *)

LEMMA BuildingOne ==
  ASSUME Inv, Constructing
  PROVE  /\ Building \in Ids /\ status[Building] = "building" /\ instance = 0 /\ known
         /\ \A k \in Ids : status[k] = "building" => k = Building
         /\ \A k \in Ids : status[k] # "published"
         /\ owner # Nobody
<1>1. /\ \A k \in Ids : status[k] = "published" <=> instance = k
      /\ \A j, k \in Ids : status[j] = "building" /\ status[k] = "building" => j = k
      /\ known /\ instance = 0 /\ \E k \in Ids : status[k] = "building"
  BY DEF Inv, Lives
<1>2. Building \in Ids /\ status[Building] = "building"
  BY <1>1 DEF Building
<1>3. \A k \in Ids : k # 0
  BY HostAssumption DEF Ids
<1>4. owner # Nobody
  BY DEF Inv, Lock, Constructing
<1> QED
  BY <1>1, <1>2, <1>3, <1>4

\* Steps that leave the components and what is stored alone.
LEMMA SameComponents ==
  ASSUME Inv, UNCHANGED <<kind, known, compVars, storeVars, joined, view, writes>>,
         TypeOK', Lock', Requests', FewerOpen,
         Constructing' <=> Constructing, phase' = "persisting" => phase = "persisting",
         Constructing => call'[owner'] = call[owner],
         \A c \in Conns : Stateful /\ act'[c].at # "none" => instance # 0 /\ act'[c].on = instance,
         \A c \in Callers : Stateful /\ known /\ instance = 0 /\ call'[c] = "join" => stored = -1
  PROVE  Inv'
<1>1. UNCHANGED <<kind, known, instance, status, value, dirty, stored, puts, putLost, joined, view, writes>>
  BY DEF compVars, storeVars
<1>2. Stateful' = Stateful
  BY <1>1 DEF Stateful
<1>3. Lives'
  <2>1. Lives
    BY DEF Inv
  <2>2. Constructing => call'[owner'] = call[owner]
    OBVIOUS
  <2>3. phase' = "persisting" => Stateful /\ call'[owner'] = "join"
    BY <2>1, <2>2 DEF Lives, Constructing
  <2> QED
    BY <1>1, <1>2, <2>1, <2>3 DEF Lives
<1>4. Hosted'
  BY <1>1 DEF Inv, Hosted, FewerOpen
<1>5. Storage'
  BY <1>1, <1>2 DEF Inv, Storage
<1>6. Forward'
  BY <1>1, <1>2 DEF Inv, Forward
<1>7. Restoring'
  <2>1. ASSUME NEW k \in Ids, Stateful, status[k] = "building", call'[owner'] # "join" PROVE value[k] = stored
    <3>1. Constructing
      BY <2>1 DEF Inv, Lives
    <3> QED
      BY <2>1, <3>1 DEF Inv, Restoring
  <2> QED
    BY <1>1, <1>2, <2>1 DEF Restoring
<1>8. StoredIsCurrent'
  BY <1>1, <1>2 DEF Inv, StoredIsCurrent
<1>9. PeersAreCurrent'
  BY <1>1, <1>2 DEF Inv, PeersAreCurrent, FewerOpen
<1> QED
  BY <1>3, <1>4, <1>5, <1>6, <1>7, <1>8, <1>9 DEF Inv

\* A component is constructed, restored or seeded.
LEMMA CreateStep ==
  ASSUME Inv, phase \in {"begin", "disposing"}, instance = 0, NEW v, Create(v),
         UNCHANGED <<kind, known, storeVars, joined, view, bounds>>,
         v \in 0..MaxWrites, v <= writes, Stateful => stored <= v,
         Stateful /\ call[owner] # "join" => v = stored
  PROVE  Inv'
<1>1. PICK k \in Ids : /\ status[k] = "none"
                       /\ status' = [status EXCEPT ![k] = "building"]
                       /\ value' = [value EXCEPT ![k] = v]
  BY DEF Create, Unmade
<1>2. /\ known /\ phase' = "building"
      /\ UNCHANGED <<call, act, owner, waiting, instance, dirty, conn>>
      /\ UNCHANGED <<kind, known, stored, puts, putLost, joined, view, writes, failures, stops>>
  BY DEF Create, storeVars, bounds
<1>3. /\ status \in [Ids -> {"none", "building", "published", "disposed", "gone"}]
      /\ value \in [Ids -> 0..MaxWrites]
  BY DEF Inv, TypeOK
<1>4. /\ \A j \in Ids : status'[j] = IF j = k THEN "building" ELSE status[j]
      /\ \A j \in Ids : value'[j] = IF j = k THEN v ELSE value[j]
      /\ status' \in [Ids -> {"none", "building", "published", "disposed", "gone"}]
      /\ value' \in [Ids -> 0..MaxWrites]
  BY <1>1, <1>3
<1>5. ~Constructing /\ Constructing' /\ \A j \in Ids : status[j] # "building"
  BY <1>2 DEF Inv, Lives, Constructing
<1>6. Stateful' = Stateful
  BY <1>2 DEF Stateful
<1>7. TypeOK'
  BY <1>2, <1>4 DEF Inv, TypeOK
<1>8. Lock'
  BY <1>2 DEF Inv, Lock
<1>9. Requests'
  BY <1>2 DEF Inv, Requests
<1>10. Lives'
  <2>1. \A j \in Ids : j # 0
    BY DEF Ids
  <2>2. \A j \in Ids : status[j] # "published"
    BY <2>1 DEF Inv, Lives
  <2> QED
    BY <1>2, <1>4, <1>5, <2>1, <2>2 DEF Lives
<1>11. Hosted'
  BY <1>1, <1>2, <1>4 DEF Inv, Hosted
<1>12. Storage'
  BY <1>2, <1>6 DEF Inv, Storage
<1>13. Forward'
  <2>1. \A j \in Ids : value'[j] <= writes
    BY <1>4 DEF Inv, Forward
  <2>2. \A j \in Ids : Stateful /\ status'[j] \in {"building", "published"} => stored <= value'[j]
    BY <1>4 DEF Inv, Forward
  <2> QED
    BY <1>2, <1>6, <2>1, <2>2 DEF Inv, Forward
<1>14. Restoring'
  BY <1>2, <1>4, <1>5, <1>6 DEF Inv, Restoring
<1>15. StoredIsCurrent'
  BY <1>2 DEF StoredIsCurrent
<1>16. PeersAreCurrent'
  BY <1>2, <1>6 DEF Inv, PeersAreCurrent
<1> QED
  BY <1>7, <1>8, <1>9, <1>10, <1>11, <1>12, <1>13, <1>14, <1>15, <1>16 DEF Inv

\* No class is registered for the path: every socket closes.
LEMMA MissingStep ==
  ASSUME Inv, NEW c \in Callers, owner = c, phase \in {"begin", "disposing"},
         call[c] \in Ensures \union {"join"}, Missing(c),
         UNCHANGED <<kind, known, storeVars, joined, view, bounds>>
  PROVE  Inv'
<1> DEFINE closed == [d \in Conns |-> IF conn[d] = "open" THEN "closing" ELSE conn[d]]
<1>1. ~known /\ UNCHANGED compVars
  BY DEF Missing
<1>2. conn \in ConnTypes /\ call \in CallTypes /\ act \in ActTypes
  BY DEF Inv, TypeOK, ConnTypes, CallTypes, ActTypes
<1>3. /\ closed \in ConnTypes
      /\ \A d \in Conns : (closed[d] = "open" => conn[d] = "open") /\ (closed[d] = "new" => conn[d] = "new")
  BY <1>2 DEF ConnTypes
<1>4. UNCHANGED <<kind, known, instance, status, value, dirty, stored, puts, putLost, joined, view,
                  writes, failures, stops>>
  BY <1>1 DEF compVars, storeVars, bounds
<1>5. /\ Lock' /\ call' \in CallTypes
      /\ owner' \in Callers \union {Nobody} /\ waiting' \in Seq(Callers)
      /\ phase' \in {"none", "begin"} /\ ~Constructing'
      /\ conn' \in ConnTypes /\ FewerOpen /\ Requests' /\ act' \in ActTypes
      /\ \A d \in Conns : Stateful /\ act'[d].at # "none" => instance # 0 /\ act'[d].on = instance
  <2>0. \A d \in Conns : Stateful /\ act[d].at # "none" => instance # 0 /\ act[d].on = instance
    BY DEF Inv, Storage
  <2>1. CASE call[c] = "join"
    <3>1. /\ HandOver(waiting) /\ call' = [call EXCEPT ![c] = "none"]
          /\ conn' = [closed EXCEPT ![c] = "gone"] /\ UNCHANGED act
      BY <2>1 DEF Missing
    <3>2. /\ Lock' /\ call' \in CallTypes
          /\ owner' \in Callers \union {Nobody} /\ waiting' \in Seq(Callers)
          /\ phase' \in {"none", "begin"} /\ ~Constructing'
          /\ \A d \in Callers : call'[d] = IF d = c THEN "none" ELSE call[d]
      BY <3>1, Answered
    <3>3. conn' \in ConnTypes /\ FewerOpen
      <4> HIDE DEF closed
      <4> QED
        BY <1>3, <3>1 DEF FewerOpen, ConnTypes
    <3>4. Requests'
      <4>1. Conns \subseteq Callers
        BY DEF Callers
      <4> QED
        BY <3>2, <3>3, <4>1 DEF Inv, Requests, FewerOpen
    <3> QED
      BY <1>2, <2>0, <3>1, <3>2, <3>3, <3>4
  <2>2. CASE call[c] # "join"
    <3>1. Ensured(c, 0, closed)
      BY <2>2 DEF Missing
    <3>2. /\ Lock' /\ call' \in CallTypes
          /\ owner' \in Callers \union {Nobody} /\ waiting' \in Seq(Callers)
          /\ phase' \in {"none", "begin"} /\ ~Constructing'
          /\ conn' \in ConnTypes /\ FewerOpen /\ Requests' /\ act' \in ActTypes
      <4> HIDE DEF closed
      <4>1. 0 \in Ids \union {0} /\ call[c] \in Ensures
        BY <2>2
      <4> QED
        BY <1>3, <3>1, <4>1, EnsuredEffect
    <3>3. UNCHANGED act
      BY <3>1 DEF Ensured
    <3> QED
      BY <2>0, <3>2, <3>3
  <2> QED
    BY <2>1, <2>2
<1> HIDE DEF closed
<1>6. TypeOK'
  BY <1>4, <1>5 DEF Inv, TypeOK, CallTypes, ConnTypes, ActTypes
<1>7. ~Constructing /\ phase' # "persisting"
  BY <1>5 DEF Constructing
<1> QED
  BY <1>1, <1>4, <1>5, <1>6, <1>7, SameComponents DEF bounds

\* The component under construction becomes the instance.
LEMMA PublishStep ==
  ASSUME Inv, Constructing, Publish(Building),
         UNCHANGED <<kind, known, puts, putLost, writes>>,
         TypeOK', Lock', Requests', ~Constructing',
         Stateful => stored' = value[Building] /\ (stored = -1 \/ stored = value[Building]),
         ~Stateful => stored' = stored,
         \A d \in Conns : Stateful /\ act'[d].at # "none" => act'[d].on = Building,
         \A d \in Conns : conn'[d] = "open" =>
           \/ conn[d] = "open" /\ joined'[d] = joined[d] /\ view'[d] = view[d]
           \/ joined'[d] = Building /\ (Stateful => view'[d].value = value[Building])
  PROVE  Inv'
<1> DEFINE b == Building
<1>1. /\ b \in Ids /\ status[b] = "building" /\ instance = 0 /\ known /\ b # 0
      /\ \A k \in Ids : status[k] = "building" => k = b
      /\ \A k \in Ids : status[k] # "published"
  BY BuildingOne DEF Ids
<1>2. /\ instance' = b /\ status' = [status EXCEPT ![b] = "published"]
      /\ value' = value /\ dirty' = dirty
  BY DEF Publish
<1> HIDE DEF b
<1>3. \A k \in Ids : status'[k] = IF k = b THEN "published" ELSE status[k]
  BY <1>2 DEF Inv, TypeOK
<1>4. Stateful' = Stateful
  BY DEF Stateful
<1>5. /\ value \in [Ids -> 0..MaxWrites]
      /\ view \in [Conns -> [from : Ids \union {0}, value : 0..MaxWrites]]
  BY DEF Inv, TypeOK
<1>6. Lives'
  <2>1. phase' # "persisting"
    BY DEF Constructing
  <2> QED
    BY <1>1, <1>2, <1>3, <2>1 DEF Lives
<1>7. Hosted'
  <2>1. ASSUME NEW d \in Conns, conn'[d] = "open"
        PROVE  joined'[d] \in Ids /\ status'[joined'[d]] \in {"published", "gone"}
    <3>1. CASE conn[d] = "open" /\ joined'[d] = joined[d]
      <4>1. joined[d] \in Ids /\ status[joined[d]] \in {"published", "gone"}
        BY <3>1 DEF Inv, Hosted
      <4> QED
        BY <1>1, <1>3, <3>1, <4>1
    <3>2. CASE joined'[d] = b
      BY <1>1, <1>3, <3>2
    <3> QED
      BY <2>1, <3>1, <3>2 DEF b
  <2> QED
    BY <2>1 DEF Hosted
<1>8. puts = <<>> /\ Len(puts) = 0
  <2>1. puts = <<>>
    BY <1>1 DEF Inv, Storage
  <2> QED
    BY <2>1, EmptySeq
<1>9. Storage'
  <2>1. \A k \in Ids : Stateful => ~dirty[k]
    BY <1>1 DEF Inv, Storage, Ids
  <2>2. dirty \in [Ids -> BOOLEAN]
    BY DEF Inv, TypeOK
  <2> QED
    BY <1>1, <1>2, <1>4, <1>8, <2>1, <2>2 DEF Inv, Storage, b
<1>10. Forward'
  <2>1. writes \in 0..MaxWrites /\ stored <= writes /\ \A k \in Ids : value[k] <= writes
    BY DEF Inv, Forward
  <2>2. stored' <= writes
    BY <1>1, <2>1 DEF b
  <2>3. \A k \in Ids : Stateful /\ status'[k] \in {"building", "published"} => stored' <= value[k]
    <3>1. \A k \in Ids : status'[k] \in {"building", "published"} => k = b
      BY <1>1, <1>3
    <3>2. Stateful => stored' <= value[b]
      BY <1>1, <1>5 DEF b
    <3> QED
      BY <3>1, <3>2
  <2>4. \A n \in 1..Len(puts) : FALSE
    BY <1>8
  <2> QED
    BY <1>2, <1>4, <2>1, <2>2, <2>3, <2>4 DEF Forward
<1>11. Restoring'
  BY <1>1, <1>2, <1>3 DEF Restoring
<1>12. StoredIsCurrent'
  BY <1>2, <1>4, <1>8 DEF StoredIsCurrent, b
<1>13. PeersAreCurrent'
  <2>1. ASSUME NEW d \in Conns, Stateful, conn'[d] = "open", ~putLost PROVE view'[d].value = value[b]
    <3>1. CASE conn[d] = "open" /\ view'[d] = view[d]
      <4>1. view[d].value = stored
        BY <1>1, <2>1, <3>1 DEF Inv, PeersAreCurrent
      <4>2. view[d].value \in 0..MaxWrites
        BY <1>5
      <4> QED
        BY <2>1, <3>1, <4>1, <4>2 DEF b
    <3>2. CASE view'[d].value = value[b]
      BY <3>2
    <3> QED
      BY <2>1, <3>1, <3>2 DEF b
  <2> QED
    BY <1>1, <1>2, <1>4, <1>8, <2>1 DEF PeersAreCurrent
<1> QED
  BY <1>6, <1>7, <1>9, <1>10, <1>11, <1>12, <1>13 DEF Inv

-----------------------------------------------------------------------------
(* ensureComponentInstance *)

LEMMA NothingToRestoreStep ==
  ASSUME Inv, NEW c \in Callers, NothingToRestore(c) PROVE Inv'
<1>1. /\ owner = c /\ phase = "begin" /\ call[c] \in Ensures /\ (instance # 0 \/ stored = -1)
      /\ Ensured(c, instance, conn)
      /\ UNCHANGED <<kind, known, compVars, storeVars, joined, view, bounds>>
  BY DEF NothingToRestore
<1>2. instance \in Ids \union {0} /\ conn \in ConnTypes
  BY DEF Inv, TypeOK, ConnTypes
<1>3. /\ Lock' /\ call' \in CallTypes
      /\ owner' \in Callers \union {Nobody} /\ waiting' \in Seq(Callers)
      /\ phase' \in {"none", "begin"} /\ ~Constructing'
      /\ conn' \in ConnTypes /\ FewerOpen /\ Requests' /\ act' \in ActTypes
      /\ \A d \in Conns : (instance # 0 /\ act'[d].on = instance) \/ act'[d] = act[d]
      /\ \A d \in Callers : call'[d] = "join" => call[d] = "join" \/ d = c
  <2>1. /\ owner = c /\ call[c] \in Ensures /\ Ensured(c, instance, conn)
        /\ \A d \in Conns : /\ conn[d] = "open" => conn[d] = "open"
                            /\ conn[d] = "new" => conn[d] = "new"
    BY <1>1
  <2> QED
    BY <1>2, <2>1, EnsuredEffect
<1>4. TypeOK'
  <2>1. UNCHANGED <<kind, known, instance, status, value, dirty, stored, puts, putLost, joined, view,
                    writes, failures, stops>>
    BY <1>1 DEF compVars, storeVars, bounds
  <2> QED
    BY <1>3, <2>1 DEF Inv, TypeOK, CallTypes, ConnTypes, ActTypes
<1>5. ~Constructing /\ phase' # "persisting"
  BY <1>1, <1>3 DEF Constructing
<1>6. \A d \in Conns : Stateful /\ act'[d].at # "none" => instance # 0 /\ act'[d].on = instance
  BY <1>3 DEF Inv, Storage
<1>7. \A d \in Callers : Stateful /\ known /\ instance = 0 /\ call'[d] = "join" => stored = -1
  BY <1>1, <1>3 DEF Inv, Restoring
<1> QED
  BY <1>1, <1>3, <1>4, <1>5, <1>6, <1>7, SameComponents DEF bounds

LEMMA RestoreStep ==
  ASSUME Inv, NEW c \in Callers, Restore(c) PROVE Inv'
<1>1. /\ owner = c /\ phase = "begin" /\ call[c] \in Ensures /\ instance = 0 /\ stored # -1
      /\ Create(stored) \/ Missing(c)
      /\ UNCHANGED <<kind, known, storeVars, joined, view, bounds>>
  BY DEF Restore
<1>2. CASE Missing(c)
  BY <1>1, <1>2, MissingStep
<1>3. CASE Create(stored)
  <2>1. stored \in 0..MaxWrites /\ stored <= writes /\ stored <= stored
    BY <1>1 DEF Inv, TypeOK, Forward
  <2> QED
    BY <1>1, <1>3, <2>1, CreateStep
<1> QED
  BY <1>1, <1>2, <1>3

LEMMA RestoredStep ==
  ASSUME Inv, NEW c \in Callers, Restored(c) PROVE Inv'
<1>1. /\ owner = c /\ phase = "building" /\ call[c] \in Ensures
      /\ Publish(Building) /\ Ensured(c, Building, conn)
      /\ UNCHANGED <<kind, known, storeVars, joined, view, bounds>>
  BY DEF Restored
<1>2. Constructing /\ conn \in ConnTypes
  BY <1>1 DEF Constructing, Inv, TypeOK, ConnTypes
<1>3. Building \in Ids /\ status[Building] = "building" /\ instance = 0
  BY <1>2, BuildingOne
<1>4. /\ Lock' /\ call' \in CallTypes
      /\ owner' \in Callers \union {Nobody} /\ waiting' \in Seq(Callers)
      /\ phase' \in {"none", "begin"} /\ ~Constructing'
      /\ conn' \in ConnTypes /\ FewerOpen /\ Requests' /\ act' \in ActTypes
      /\ \A d \in Conns : act'[d].on = Building \/ act'[d] = act[d]
  <2>1. Building \in Ids \union {0}
    BY <1>3
  <2> QED
    BY <1>1, <1>2, <2>1, EnsuredEffect
<1>5. UNCHANGED <<kind, known, stored, puts, putLost, joined, view, writes, failures, stops>>
  BY <1>1 DEF storeVars, bounds
<1>6. TypeOK'
  <2>1. /\ instance' = Building /\ status' = [status EXCEPT ![Building] = "published"]
        /\ value' = value /\ dirty' = dirty
    BY <1>1 DEF Publish
  <2> QED
    BY <1>3, <1>4, <1>5, <2>1 DEF Inv, TypeOK, CallTypes, ConnTypes, ActTypes
<1>7. Stateful => stored = value[Building]
  BY <1>1, <1>3 DEF Inv, Restoring, Ensures
<1>8. \A d \in Conns : Stateful /\ act'[d].at # "none" => act'[d].on = Building
  BY <1>3, <1>4 DEF Inv, Storage
<1> QED
  BY <1>1, <1>2, <1>4, <1>5, <1>6, <1>7, <1>8, PublishStep DEF FewerOpen

-----------------------------------------------------------------------------
(* join *)

LEMMA ConnectStep ==
  ASSUME Inv, NEW c \in Conns, Connect(c) PROVE Inv'
<1>1. /\ conn[c] = "new" /\ UNCHANGED <<kind, known, act, compVars, storeVars, joined, view, bounds>>
      /\ UNCHANGED <<kind, known, act, instance, status, value, dirty, stored, puts, putLost, joined, view,
                     writes, failures, stops>>
  BY DEF Connect, compVars, storeVars, bounds
<1>2. c \in Callers /\ Conns \subseteq Callers /\ call[c] = "none"
  BY <1>1 DEF Inv, Requests, Callers
<1>3. conn \in ConnTypes /\ call \in CallTypes
  BY DEF Inv, TypeOK, ConnTypes, CallTypes
<1>4. \A d \in Conns : Stateful /\ act'[d].at # "none" => instance # 0 /\ act'[d].on = instance
  BY <1>1 DEF Inv, Storage
<1>5. CASE conn' = [conn EXCEPT ![c] = "joining"] /\ Enter(c, FirstOf)
  <2>1. FirstOf \in Ensures \union {"join"} /\ FirstOf \in {"join", "ensureJoin"}
        /\ (FirstOf = "join" => instance # 0)
    BY DEF FirstOf, Ensures
  <2> DEFINE what == FirstOf
  <2>2. what \in Ensures \union {"join"} /\ Enter(c, what) /\ (what = "join" => instance # 0)
        /\ what # "none"
    BY <1>5, <2>1
  <2> HIDE DEF what
  <2>3. /\ Lock' /\ call' \in CallTypes
        /\ owner' \in Callers \union {Nobody} /\ waiting' \in Seq(Callers)
        /\ phase' \in {"none", "begin", "building", "disposing", "persisting"}
        /\ \A d \in Callers : call'[d] = IF d = c THEN what ELSE call[d]
        /\ Constructing' <=> Constructing
        /\ phase' = "persisting" <=> phase = "persisting"
        /\ Constructing => owner' = owner /\ call'[owner'] = call[owner]
    BY <1>2, <2>2, Entered
  <2>4. /\ conn' \in ConnTypes /\ FewerOpen
        /\ \A d \in Conns : conn'[d] = IF d = c THEN "joining" ELSE conn[d]
    BY <1>3, <1>5 DEF ConnTypes, FewerOpen
  <2>5. TypeOK'
    BY <1>1, <2>3, <2>4 DEF Inv, TypeOK, CallTypes, ConnTypes
  <2>6. Requests'
    BY <1>2, <2>3, <2>4 DEF Inv, Requests
  <2>7. \A d \in Callers : Stateful /\ known /\ instance = 0 /\ call'[d] = "join" => stored = -1
    BY <2>2, <2>3 DEF Inv, Restoring
  <2> QED
    BY <1>1, <1>4, <2>3, <2>4, <2>5, <2>6, <2>7, SameComponents DEF bounds
<1>6. CASE conn' = [conn EXCEPT ![c] = "closing"] /\ UNCHANGED <<call, lockVars>>
  <2>1. UNCHANGED <<call, owner, phase, waiting>>
    BY <1>6 DEF lockVars
  <2>2. /\ conn' \in ConnTypes /\ FewerOpen
        /\ \A d \in Conns : conn'[d] = IF d = c THEN "closing" ELSE conn[d]
    BY <1>3, <1>6 DEF ConnTypes, FewerOpen
  <2>3. TypeOK'
    BY <1>1, <2>1, <2>2 DEF Inv, TypeOK, ConnTypes
  <2>4. Lock' /\ Requests'
    BY <2>1, <2>2 DEF Inv, Lock, Requests
  <2>5. \A d \in Callers : Stateful /\ known /\ instance = 0 /\ call'[d] = "join" => stored = -1
    BY <2>1 DEF Inv, Restoring
  <2>6. (Constructing' <=> Constructing) /\ call'[owner'] = call[owner] /\ phase' = phase
    BY <2>1 DEF Constructing
  <2> QED
    BY <1>1, <1>4, <2>2, <2>3, <2>4, <2>5, <2>6, SameComponents DEF bounds
<1> QED
  BY <1>5, <1>6 DEF Connect

\* Only an object without sockets loses its component to a join.
LEMMA DiscardStep ==
  ASSUME Inv, NEW c \in Callers, Discard(c) PROVE Inv'
<1>1. /\ owner = c /\ phase = "begin" /\ call[c] = "join"
      /\ instance # 0 /\ ~Stateful /\ Sockets = {}
      /\ instance' = 0 /\ status' = [status EXCEPT ![instance] = "disposed"]
      /\ phase' = "disposing"
      /\ UNCHANGED <<kind, known, call, act, owner, waiting, value, dirty, stored, puts, putLost,
                     conn, joined, view, writes, failures, stops>>
  BY DEF Discard, Discards, storeVars, peerVars, bounds
<1>2. instance \in Ids /\ 0 \notin Ids
  BY <1>1 DEF Inv, TypeOK, Ids
<1>3. \A k \in Ids : status'[k] = IF k = instance THEN "disposed" ELSE status[k]
  BY <1>1 DEF Inv, TypeOK
<1>4. ~Stateful' /\ ~Constructing /\ ~Constructing' /\ phase' # "persisting"
  BY <1>1 DEF Stateful, Constructing
<1>5. TypeOK'
  BY <1>1, <1>2 DEF Inv, TypeOK
<1>6. Lock'
  BY <1>1 DEF Inv, Lock
<1>7. Requests'
  BY <1>1 DEF Inv, Requests
<1>8. Lives'
  BY <1>1, <1>2, <1>3, <1>4 DEF Inv, Lives
<1>9. Hosted'
  BY <1>1 DEF Hosted, Sockets
<1>10. Storage'
  BY <1>1, <1>4 DEF Inv, Storage
<1>11. Forward'
  BY <1>1, <1>4 DEF Inv, Forward
<1>12. Restoring' /\ StoredIsCurrent' /\ PeersAreCurrent'
  BY <1>4 DEF Restoring, StoredIsCurrent, PeersAreCurrent
<1> QED
  BY <1>5, <1>6, <1>7, <1>8, <1>9, <1>10, <1>11, <1>12 DEF Inv

LEMMA CreateFreshStep ==
  ASSUME Inv, NEW c \in Callers, CreateFresh(c) PROVE Inv'
<1>1. /\ owner = c /\ phase \in {"begin", "disposing"} /\ call[c] = "join" /\ instance = 0
      /\ Create(Seed) \/ Missing(c)
      /\ UNCHANGED <<kind, known, storeVars, joined, view, bounds>>
  BY DEF CreateFresh
<1>2. CASE Missing(c)
  BY <1>1, <1>2, MissingStep
<1>3. CASE Create(Seed)
  <2>1. known
    BY <1>3 DEF Create
  <2>2. Stateful => stored = -1
    BY <1>1, <2>1 DEF Inv, Restoring
  <2>3. Seed \in 0..MaxWrites /\ Seed <= writes /\ (Stateful => stored <= Seed)
    BY <2>2, HostAssumption DEF Seed, Inv, Forward
  <2> QED
    BY <1>1, <1>3, <2>3, CreateStep
<1> QED
  BY <1>1, <1>2, <1>3

\* A peer is accepted to component k.
LEMMA AdmitEffect ==
  ASSUME Inv, NEW c \in Callers, owner = c, call[c] = "join", NEW k \in Ids, Admit(c, k)
  PROVE  /\ Lock' /\ Requests' /\ call' \in CallTypes /\ conn' \in ConnTypes
         /\ owner' \in Callers \union {Nobody} /\ waiting' \in Seq(Callers)
         /\ phase' \in {"none", "begin"} /\ ~Constructing' /\ c \in Conns
         /\ \A d \in Callers : call'[d] = "join" => call[d] = "join"
         /\ joined' \in [Conns -> Ids \union {0}]
         /\ view' \in [Conns -> [from : Ids \union {0}, value : 0..MaxWrites]]
         /\ conn'[c] = "open" /\ joined'[c] = k /\ (Stateful => view'[c].value = value[k])
         /\ \A d \in Conns \ {c} : conn'[d] = conn[d] /\ joined'[d] = joined[d] /\ view'[d] = view[d]
<1>1. /\ conn' = [conn EXCEPT ![c] = "open"] /\ joined' = [joined EXCEPT ![c] = k]
      /\ view' = IF Syncs THEN [view EXCEPT ![c] = [from |-> k, value |-> value[k]]] ELSE view
      /\ call' = [call EXCEPT ![c] = "none"] /\ HandOver(waiting)
  BY DEF Admit
<1>2. /\ conn \in ConnTypes /\ joined \in [Conns -> Ids \union {0}]
      /\ view \in [Conns -> [from : Ids \union {0}, value : 0..MaxWrites]]
      /\ value \in [Ids -> 0..MaxWrites]
  BY DEF Inv, TypeOK, ConnTypes
<1>3. c \in Conns /\ Conns \subseteq Callers
  BY DEF Inv, Requests, Callers
<1>4. /\ Lock' /\ call' \in CallTypes
      /\ owner' \in Callers \union {Nobody} /\ waiting' \in Seq(Callers)
      /\ phase' \in {"none", "begin"} /\ ~Constructing'
      /\ \A d \in Callers : call'[d] = IF d = c THEN "none" ELSE call[d]
  BY <1>1, Answered
<1>5. /\ conn' \in ConnTypes /\ joined' \in [Conns -> Ids \union {0}]
      /\ \A d \in Conns : conn'[d] = IF d = c THEN "open" ELSE conn[d]
      /\ \A d \in Conns : joined'[d] = IF d = c THEN k ELSE joined[d]
  BY <1>1, <1>2 DEF ConnTypes
<1>6. /\ view' \in [Conns -> [from : Ids \union {0}, value : 0..MaxWrites]]
      /\ Stateful => view'[c].value = value[k]
      /\ \A d \in Conns \ {c} : view'[d] = view[d]
  <2>1. [from |-> k, value |-> value[k]] \in [from : Ids \union {0}, value : 0..MaxWrites]
    BY <1>2
  <2>2. CASE Syncs
    BY <1>1, <1>2, <1>3, <2>1, <2>2
  <2>3. CASE ~Syncs
    BY <1>1, <1>2, <2>3 DEF Syncs
  <2> QED
    BY <2>2, <2>3
<1>7. Requests'
  BY <1>3, <1>4, <1>5 DEF Inv, Requests
<1> QED
  BY <1>3, <1>4, <1>5, <1>6, <1>7

LEMMA JoinLiveStep ==
  ASSUME Inv, NEW c \in Callers, JoinLive(c) PROVE Inv'
<1>1. /\ owner = c /\ phase = "begin" /\ call[c] = "join" /\ instance # 0 /\ Admit(c, instance)
      /\ UNCHANGED <<kind, known, act, instance, status, value, dirty, stored, puts, putLost,
                     writes, failures, stops>>
  BY DEF JoinLive, compVars, storeVars, bounds
<1>2. instance \in Ids
  BY <1>1 DEF Inv, TypeOK
<1>3. /\ Lock' /\ Requests' /\ call' \in CallTypes /\ conn' \in ConnTypes
      /\ owner' \in Callers \union {Nobody} /\ waiting' \in Seq(Callers)
      /\ phase' \in {"none", "begin"} /\ ~Constructing' /\ c \in Conns
      /\ joined' \in [Conns -> Ids \union {0}]
      /\ view' \in [Conns -> [from : Ids \union {0}, value : 0..MaxWrites]]
      /\ conn'[c] = "open" /\ joined'[c] = instance /\ (Stateful => view'[c].value = value[instance])
      /\ \A d \in Conns \ {c} : conn'[d] = conn[d] /\ joined'[d] = joined[d] /\ view'[d] = view[d]
  BY <1>1, <1>2, AdmitEffect
<1>4. ~Constructing /\ Stateful' = Stateful /\ phase' # "persisting"
  BY <1>1, <1>3 DEF Constructing, Stateful
<1>5. TypeOK'
  BY <1>1, <1>3 DEF Inv, TypeOK, CallTypes, ConnTypes
<1>6. Lives'
  BY <1>1, <1>3, <1>4 DEF Inv, Lives
<1>7. Hosted'
  <2>1. status[instance] = "published"
    BY <1>2 DEF Inv, Lives
  <2>2. ASSUME NEW d \in Conns, conn'[d] = "open"
        PROVE  joined'[d] \in Ids /\ status[joined'[d]] \in {"published", "gone"}
    <3>1. CASE d = c
      BY <1>2, <1>3, <2>1, <3>1
    <3>2. CASE d # c
      BY <1>3, <2>2, <3>2 DEF Inv, Hosted
    <3> QED
      BY <3>1, <3>2
  <2> QED
    BY <1>1, <2>2 DEF Hosted
<1>8. Storage'
  BY <1>1, <1>4 DEF Inv, Storage
<1>9. Forward'
  BY <1>1, <1>4 DEF Inv, Forward
<1>10. Restoring'
  BY <1>1, <1>4 DEF Inv, Restoring, Lives
<1>11. StoredIsCurrent'
  BY <1>1, <1>4 DEF Inv, StoredIsCurrent
<1>12. PeersAreCurrent'
  <2>1. ASSUME NEW d \in Conns, Stateful, conn'[d] = "open", ~dirty[instance], ~putLost \/ puts # <<>>
        PROVE  view'[d].value = value[instance]
    <3>1. CASE d = c
      BY <1>3, <2>1, <3>1
    <3>2. CASE d # c
      BY <1>1, <1>3, <2>1, <3>2 DEF Inv, PeersAreCurrent
    <3> QED
      BY <3>1, <3>2
  <2> QED
    BY <1>1, <1>4, <2>1 DEF PeersAreCurrent
<1> QED
  BY <1>3, <1>5, <1>6, <1>7, <1>8, <1>9, <1>10, <1>11, <1>12 DEF Inv

LEMMA PublishAndAdmit ==
  ASSUME Inv, NEW c \in Callers, owner = c, Constructing, call[c] = "join",
         Publish(Building), Admit(c, Building),
         UNCHANGED <<kind, known, act, puts, putLost, writes, failures, stops>>,
         stored' \in -1..MaxWrites, Stateful => stored' = value[Building] /\ stored = -1,
         ~Stateful => stored' = stored
  PROVE  Inv'
<1>1. Building \in Ids /\ status[Building] = "building" /\ instance = 0
  BY BuildingOne
<1>2. /\ Lock' /\ Requests' /\ call' \in CallTypes /\ conn' \in ConnTypes
      /\ owner' \in Callers \union {Nobody} /\ waiting' \in Seq(Callers)
      /\ phase' \in {"none", "begin"} /\ ~Constructing' /\ c \in Conns
      /\ joined' \in [Conns -> Ids \union {0}]
      /\ view' \in [Conns -> [from : Ids \union {0}, value : 0..MaxWrites]]
      /\ joined'[c] = Building /\ (Stateful => view'[c].value = value[Building])
      /\ \A d \in Conns \ {c} : conn'[d] = conn[d] /\ joined'[d] = joined[d] /\ view'[d] = view[d]
  BY <1>1, AdmitEffect
<1>3. TypeOK'
  <2>1. /\ instance' = Building /\ status' = [status EXCEPT ![Building] = "published"]
        /\ value' = value /\ dirty' = dirty
    BY DEF Publish
  <2> QED
    BY <1>1, <1>2, <2>1 DEF Inv, TypeOK, CallTypes, ConnTypes
<1>4. \A d \in Conns : Stateful /\ act'[d].at # "none" => act'[d].on = Building
  BY <1>1 DEF Inv, Storage
<1>5. \A d \in Conns : conn'[d] = "open" =>
        \/ conn[d] = "open" /\ joined'[d] = joined[d] /\ view'[d] = view[d]
        \/ joined'[d] = Building /\ (Stateful => view'[d].value = value[Building])
  BY <1>2
<1> QED
  BY <1>2, <1>3, <1>4, <1>5, PublishStep

LEMMA InitializedStep ==
  ASSUME Inv, NEW c \in Callers, Initialized(c) PROVE Inv'
<1>1. /\ owner = c /\ phase = "building" /\ call[c] = "join"
      /\ UNCHANGED <<kind, known, act, stored, puts, putLost, writes, failures, stops>>
  BY DEF Initialized, storeVars, bounds
<1>2. Constructing
  BY <1>1 DEF Constructing
<1>3. CASE ~Stateful
  <2>1. Publish(Building) /\ Admit(c, Building)
    BY <1>3 DEF Initialized
  <2>2. stored' \in -1..MaxWrites
    BY <1>1 DEF Inv, TypeOK
  <2> QED
    BY <1>1, <1>2, <1>3, <2>1, <2>2, PublishAndAdmit
<1>4. CASE Stateful
  <2>1. /\ phase' = "persisting"
        /\ UNCHANGED <<call, owner, waiting, instance, status, value, dirty, conn, joined, view>>
    BY <1>4 DEF Initialized, compVars, peerVars
  <2>2. Constructing' /\ Stateful'
    BY <1>1, <1>4, <2>1 DEF Constructing, Stateful
  <2>3. TypeOK'
    BY <1>1, <2>1 DEF Inv, TypeOK
  <2>4. Lock' /\ Requests'
    BY <1>1, <2>1 DEF Inv, Lock, Requests
  <2>5. Lives'
    BY <1>1, <1>2, <2>1, <2>2 DEF Inv, Lives
  <2>6. Hosted'
    BY <1>1, <2>1 DEF Inv, Hosted
  <2>7. Storage'
    BY <1>1, <1>4, <2>1, <2>2 DEF Inv, Storage
  <2>8. Forward'
    BY <1>1, <1>4, <2>1, <2>2 DEF Inv, Forward
  <2>9. Restoring'
    BY <1>1, <1>4, <2>1, <2>2 DEF Inv, Restoring
  <2>10. StoredIsCurrent'
    BY <1>1, <1>4, <2>1, <2>2 DEF Inv, StoredIsCurrent
  <2>11. PeersAreCurrent'
    BY <1>1, <1>4, <2>1, <2>2 DEF Inv, PeersAreCurrent
  <2> QED
    BY <2>3, <2>4, <2>5, <2>6, <2>7, <2>8, <2>9, <2>10, <2>11 DEF Inv
<1> QED
  BY <1>3, <1>4

\* A component that is stored before it is published was created because nothing was.
LEMMA PersistsFirst ==
  ASSUME Inv, phase = "persisting"
  PROVE  Stateful /\ stored = -1 /\ call[owner] = "join" /\ value[Building] \in 0..MaxWrites
<1>1. Constructing
  BY DEF Constructing
<1>2. Building \in Ids /\ instance = 0 /\ known /\ owner # Nobody
  BY <1>1, BuildingOne
<1>3. Stateful /\ call[owner] = "join" /\ owner \in Callers
  BY <1>2 DEF Inv, Lives, TypeOK
<1> QED
  BY <1>2, <1>3 DEF Inv, Restoring, TypeOK

LEMMA PersistedStep ==
  ASSUME Inv, NEW c \in Callers, Persisted(c) PROVE Inv'
<1>1. /\ owner = c /\ phase = "persisting" /\ stored' = value[Building]
      /\ Publish(Building) /\ Admit(c, Building)
      /\ UNCHANGED <<kind, known, act, puts, putLost, writes, failures, stops>>
  BY DEF Persisted, bounds
<1>2. Stateful /\ stored = -1 /\ call[c] = "join" /\ value[Building] \in 0..MaxWrites
  BY <1>1, PersistsFirst
<1>3. stored' \in -1..MaxWrites
  BY <1>1, <1>2, HostAssumption
<1>4. Constructing
  BY <1>1 DEF Constructing
<1> QED
  BY <1>1, <1>2, <1>3, <1>4, PublishAndAdmit

LEMMA BuildFailsStep == Inv /\ BuildFails => Inv'
<1> SUFFICES ASSUME Inv, BuildFails PROVE Inv'
  OBVIOUS
<1>1. /\ Constructing /\ status' = [status EXCEPT ![Building] = "disposed"] /\ FailAll
      /\ UNCHANGED <<kind, known, act, instance, value, dirty, stored, puts, putLost, joined, view,
                     writes, stops>>
  BY DEF BuildFails, storeVars, Constructing
<1>2. /\ Building \in Ids /\ status[Building] = "building" /\ instance = 0
      /\ \A k \in Ids : status[k] = "building" => k = Building
  BY <1>1, BuildingOne
<1> DEFINE b == Building
<1>3. /\ b \in Ids /\ status[b] = "building" /\ \A k \in Ids : status[k] = "building" => k = b
      /\ status' = [status EXCEPT ![b] = "disposed"]
  BY <1>1, <1>2
<1> HIDE DEF b
<1>4. \A k \in Ids : status'[k] = IF k = b THEN "disposed" ELSE status[k]
  BY <1>3 DEF Inv, TypeOK
<1>5. /\ Lock' /\ Requests' /\ call' \in CallTypes /\ conn' \in ConnTypes /\ FewerOpen
      /\ owner' \in Callers \union {Nobody} /\ waiting' \in Seq(Callers)
      /\ phase' \in {"none", "begin"} /\ ~Constructing'
      /\ \A d \in Callers : call'[d] = "none"
  BY <1>1, AllFailed
<1>6. Stateful' = Stateful /\ phase' # "persisting"
  BY <1>1, <1>5 DEF Stateful
<1>7. TypeOK'
  BY <1>1, <1>3, <1>5 DEF Inv, TypeOK, CallTypes, ConnTypes
<1>8. Lives'
  <2>1. \A k \in Ids : status[k] = "published" <=> instance = k
    BY DEF Inv, Lives
  <2>2. \A k \in Ids : k # 0
    BY DEF Ids
  <2> QED
    BY <1>1, <1>2, <1>3, <1>4, <1>5, <1>6, <2>1, <2>2 DEF Lives
<1>9. Hosted'
  BY <1>1, <1>3, <1>4, <1>5 DEF Inv, Hosted, FewerOpen
<1>10. Storage'
  BY <1>1, <1>6 DEF Inv, Storage
<1>11. Forward'
  BY <1>1, <1>4, <1>6 DEF Inv, Forward
<1>12. Restoring'
  BY <1>3, <1>4, <1>5 DEF Restoring
<1>13. StoredIsCurrent'
  BY <1>1, <1>6 DEF Inv, StoredIsCurrent
<1>14. PeersAreCurrent'
  BY <1>1, <1>5, <1>6 DEF Inv, PeersAreCurrent, FewerOpen
<1> QED
  BY <1>5, <1>7, <1>8, <1>9, <1>10, <1>11, <1>12, <1>13, <1>14 DEF Inv

-----------------------------------------------------------------------------
(* Messages and state requests *)

LEMMA MessageStep ==
  ASSUME Inv, NEW c \in Conns, Message(c) PROVE Inv'
<1>1. /\ conn[c] = "open" /\ call[c] = "none"
      /\ UNCHANGED <<kind, known, compVars, storeVars, conn, joined, view, bounds>>
      /\ UNCHANGED <<instance, status, value, dirty, stored, puts, putLost, writes, failures, stops>>
  BY DEF Message, compVars, storeVars, peerVars, bounds
<1>2. c \in Callers /\ Conns \subseteq Callers /\ FewerOpen
  BY <1>1 DEF Callers, FewerOpen
<1>3. CASE instance # 0
  <2>1. /\ act' = [act EXCEPT ![c] = [on |-> instance, at |-> "queued"]]
        /\ UNCHANGED <<call, owner, phase, waiting>>
    BY <1>3 DEF Message, lockVars
  <2>2. instance \in Ids /\ act \in ActTypes
    BY <1>3 DEF Inv, TypeOK, ActTypes
  <2>3. /\ act' \in ActTypes
        /\ \A d \in Conns : act'[d] = IF d = c THEN [on |-> instance, at |-> "queued"] ELSE act[d]
    BY <2>1, <2>2 DEF ActTypes
  <2>4. TypeOK'
    BY <1>1, <2>1, <2>3 DEF Inv, TypeOK, ActTypes
  <2>5. Lock' /\ Requests'
    BY <1>1, <2>1 DEF Inv, Lock, Requests
  <2>6. \A d \in Conns : Stateful /\ act'[d].at # "none" => instance # 0 /\ act'[d].on = instance
    BY <1>3, <2>3 DEF Inv, Storage
  <2>7. (Constructing' <=> Constructing) /\ call'[owner'] = call[owner] /\ phase' = phase
    BY <2>1 DEF Constructing
  <2>8. \A d \in Callers : Stateful /\ known /\ instance = 0 /\ call'[d] = "join" => stored = -1
    BY <1>3
  <2> QED
    BY <1>1, <1>2, <2>4, <2>5, <2>6, <2>7, <2>8, SameComponents DEF bounds
<1>4. CASE instance = 0
  <2>1. Enter(c, "ensureAct") /\ act' = act
    BY <1>4 DEF Message
  <2>2. /\ Lock' /\ call' \in CallTypes
        /\ owner' \in Callers \union {Nobody} /\ waiting' \in Seq(Callers)
        /\ phase' \in {"none", "begin", "building", "disposing", "persisting"}
        /\ \A d \in Callers : call'[d] = IF d = c THEN "ensureAct" ELSE call[d]
        /\ Constructing' <=> Constructing
        /\ phase' = "persisting" <=> phase = "persisting"
        /\ Constructing => owner' = owner /\ call'[owner'] = call[owner]
    <3>1. "ensureAct" \in Ensures \union {"join"}
      BY DEF Ensures
    <3> QED
      BY <1>1, <1>2, <2>1, <3>1, Entered
  <2>3. TypeOK'
    BY <1>1, <2>1, <2>2 DEF Inv, TypeOK, CallTypes
  <2>4. Requests'
    BY <1>1, <1>2, <2>2 DEF Inv, Requests
  <2>5. \A d \in Conns : Stateful /\ act'[d].at # "none" => instance # 0 /\ act'[d].on = instance
    BY <2>1 DEF Inv, Storage
  <2>6. \A d \in Callers : Stateful /\ known /\ instance = 0 /\ call'[d] = "join" => stored = -1
    BY <2>2 DEF Inv, Restoring
  <2> QED
    BY <1>1, <1>2, <2>2, <2>3, <2>4, <2>5, <2>6, SameComponents DEF bounds
<1> QED
  BY <1>3, <1>4

LEMMA ReadStep ==
  ASSUME Inv, NEW r \in Readers, Read(r) PROVE Inv'
<1>1. /\ call[r] = "none" /\ Enter(r, "ensureRead")
      /\ UNCHANGED <<kind, known, act, compVars, storeVars, conn, joined, view, bounds>>
      /\ UNCHANGED <<instance, status, value, dirty, stored, puts, putLost, writes, failures, stops>>
  BY DEF Read, compVars, storeVars, peerVars, bounds
<1>2. r \in Callers /\ r \notin Conns /\ Conns \subseteq Callers /\ FewerOpen
  BY <1>1, HostAssumption DEF Callers, FewerOpen
<1>3. /\ Lock' /\ call' \in CallTypes
      /\ owner' \in Callers \union {Nobody} /\ waiting' \in Seq(Callers)
      /\ phase' \in {"none", "begin", "building", "disposing", "persisting"}
      /\ \A d \in Callers : call'[d] = IF d = r THEN "ensureRead" ELSE call[d]
      /\ Constructing' <=> Constructing
      /\ phase' = "persisting" <=> phase = "persisting"
      /\ Constructing => owner' = owner /\ call'[owner'] = call[owner]
  <2>1. "ensureRead" \in Ensures \union {"join"}
    BY DEF Ensures
  <2> QED
    BY <1>1, <1>2, <2>1, Entered
<1>4. TypeOK'
  BY <1>1, <1>3 DEF Inv, TypeOK, CallTypes
<1>5. Requests'
  BY <1>1, <1>2, <1>3 DEF Inv, Requests
<1>6. \A d \in Conns : Stateful /\ act'[d].at # "none" => instance # 0 /\ act'[d].on = instance
  BY <1>1 DEF Inv, Storage
<1>7. \A d \in Callers : Stateful /\ known /\ instance = 0 /\ call'[d] = "join" => stored = -1
  BY <1>3 DEF Inv, Restoring
<1> QED
  BY <1>1, <1>2, <1>3, <1>4, <1>5, <1>6, <1>7, SameComponents DEF bounds

-----------------------------------------------------------------------------
(* Actions and broadcasts *)

\* Steps of the action queue and of a socket that closes.
LEMMA QuietStep ==
  ASSUME Inv, UNCHANGED <<kind, known, call, lockVars, compVars, storeVars, joined, view, bounds>>,
         conn' \in ConnTypes, FewerOpen, act' \in ActTypes,
         \A d \in Conns : act'[d].at # "none" => act[d].at # "none" /\ act'[d].on = act[d].on
  PROVE  Inv'
<1>1. UNCHANGED <<kind, known, call, owner, phase, waiting, instance, status, value, dirty, stored, puts,
                  putLost, joined, view, writes, failures, stops>>
  BY DEF lockVars, compVars, storeVars, bounds
<1>2. TypeOK'
  BY <1>1 DEF Inv, TypeOK, ConnTypes, ActTypes
<1>3. Lock' /\ Requests'
  BY <1>1 DEF Inv, Lock, Requests, FewerOpen
<1>4. \A d \in Conns : Stateful /\ act'[d].at # "none" => instance # 0 /\ act'[d].on = instance
  BY DEF Inv, Storage
<1>5. \A d \in Callers : Stateful /\ known /\ instance = 0 /\ call'[d] = "join" => stored = -1
  BY <1>1 DEF Inv, Restoring
<1>6. (Constructing' <=> Constructing) /\ call'[owner'] = call[owner] /\ phase' = phase
  BY <1>1 DEF Constructing
<1> QED
  BY <1>1, <1>2, <1>3, <1>4, <1>5, <1>6, SameComponents

LEMMA StartActionStep ==
  ASSUME Inv, NEW c \in Conns, StartAction(c) PROVE Inv'
<1>1. /\ act[c].at = "queued" /\ act' = [act EXCEPT ![c].at = "running"]
      /\ UNCHANGED <<kind, known, call, lockVars, compVars, storeVars, conn, joined, view, bounds>>
  BY DEF StartAction, peerVars
<1>2. act \in ActTypes /\ conn \in ConnTypes
  BY DEF Inv, TypeOK, ActTypes, ConnTypes
<1>3. /\ act' \in ActTypes
      /\ \A d \in Conns : act'[d].at # "none" => act[d].at # "none" /\ act'[d].on = act[d].on
  BY <1>1, <1>2 DEF ActTypes
<1>4. conn' \in ConnTypes /\ FewerOpen
  BY <1>1, <1>2 DEF FewerOpen
<1> QED
  BY <1>1, <1>3, <1>4, QuietStep

LEMMA EndActionStep ==
  ASSUME Inv, NEW c \in Conns, EndAction(c) PROVE Inv'
<1>1. /\ act' = [act EXCEPT ![c] = Idle]
      /\ UNCHANGED <<kind, known, call, lockVars, compVars, storeVars, conn, joined, view, bounds>>
  BY DEF EndAction, peerVars
<1>2. act \in ActTypes /\ conn \in ConnTypes
  BY DEF Inv, TypeOK, ActTypes, ConnTypes
<1>3. /\ act' \in ActTypes
      /\ \A d \in Conns : act'[d].at # "none" => act[d].at # "none" /\ act'[d].on = act[d].on
  BY <1>1, <1>2 DEF ActTypes, Idle
<1>4. conn' \in ConnTypes /\ FewerOpen
  BY <1>1, <1>2 DEF FewerOpen
<1> QED
  BY <1>1, <1>3, <1>4, QuietStep

LEMMA CloseStep ==
  ASSUME Inv, NEW c \in Conns, Close(c) PROVE Inv'
<1>1. /\ conn' = [conn EXCEPT ![c] = "gone"]
      /\ act' = act \/ act' = [act EXCEPT ![c] = Idle]
      /\ UNCHANGED <<kind, known, call, lockVars, compVars, storeVars, joined, view, bounds>>
  BY DEF Close
<1>2. act \in ActTypes /\ conn \in ConnTypes
  BY DEF Inv, TypeOK, ActTypes, ConnTypes
<1>3. /\ act' \in ActTypes
      /\ \A d \in Conns : act'[d].at # "none" => act[d].at # "none" /\ act'[d].on = act[d].on
  BY <1>1, <1>2 DEF ActTypes, Idle
<1>4. conn' \in ConnTypes /\ FewerOpen
  BY <1>1, <1>2 DEF FewerOpen, ConnTypes
<1> QED
  BY <1>1, <1>3, <1>4, QuietStep

\* The puts under way are numbers, in a sequence.
LEMMA PutsTypes ==
  ASSUME Inv
  PROVE  /\ puts \in Seq(0..MaxWrites) /\ Len(puts) \in Nat
         /\ \A n \in 1..Len(puts) : puts[n] \in 0..MaxWrites /\ puts[n] \in Int
         /\ value \in [Ids -> 0..MaxWrites] /\ \A j \in Ids : value[j] \in Int
         /\ stored \in -1..MaxWrites /\ stored \in Int /\ writes \in Int
<1>1. puts \in Seq(0..MaxWrites) /\ value \in [Ids -> 0..MaxWrites] /\ stored \in -1..MaxWrites
  BY DEF Inv, TypeOK
<1>2. Len(puts) \in Nat /\ \A n \in 1..Len(puts) : puts[n] \in 0..MaxWrites
  BY <1>1, LenProperties, ElementOfSeq
<1>3. writes \in Int
  BY DEF Inv, Forward
<1> QED
  BY <1>1, <1>2, <1>3

\* A write of a stateful object is the newest state of its instance.
LEMMA WriteStep ==
  ASSUME Inv, NEW c \in Conns, Write(c) PROVE Inv'
<1> DEFINE k == act[c].on
<1>1. /\ act[c].at = "running" /\ writes < MaxWrites /\ writes' = writes + 1
      /\ value' = [value EXCEPT ![k] = writes'] /\ dirty' = [dirty EXCEPT ![k] = TRUE]
      /\ UNCHANGED <<kind, known, call, act, owner, phase, waiting, instance, status, stored, puts, putLost,
                     conn, joined, view, failures, stops>>
  BY DEF Write, lockVars, storeVars, peerVars
<1>2. /\ value \in [Ids -> 0..MaxWrites] /\ dirty \in [Ids -> BOOLEAN] /\ writes \in 0..MaxWrites
      /\ \A j \in Ids : value[j] \in Int /\ value[j] <= writes
      /\ writes \in Int /\ writes' \in 0..MaxWrites /\ stored \in Int /\ stored <= writes
  BY <1>1, HostAssumption DEF Inv, TypeOK, Forward
<1>3. Stateful => k = instance /\ k \in Ids
  <2>1. act[c].at # "none"
    BY <1>1
  <2>2. instance \in Ids \union {0}
    BY DEF Inv, TypeOK
  <2> QED
    BY <2>1, <2>2 DEF Inv, Storage
<1> HIDE DEF k
<1>4. /\ \A j \in Ids : value'[j] = IF j = k THEN writes' ELSE value[j]
      /\ \A j \in Ids : dirty'[j] = IF j = k THEN TRUE ELSE dirty[j]
      /\ value' \in [Ids -> 0..MaxWrites] /\ dirty' \in [Ids -> BOOLEAN]
  BY <1>1, <1>2
<1>5. (Stateful' <=> Stateful) /\ (Constructing' <=> Constructing)
  BY <1>1 DEF Stateful, Constructing
<1>6. \A j \in Ids : value[j] <= value'[j] /\ value'[j] <= writes' /\ value'[j] \in Int
  BY <1>1, <1>2, <1>4
<1>7. TypeOK'
  BY <1>1, <1>4 DEF Inv, TypeOK
<1>8. Lock' /\ Requests' /\ Lives' /\ Hosted'
  BY <1>1, <1>5 DEF Inv, Lock, Requests, Lives, Hosted
<1>9. Storage'
  BY <1>1, <1>3, <1>4, <1>5 DEF Inv, Storage
<1>10. Forward'
  <2>1. stored <= writes'
    BY <1>1, <1>2
  <2>2. ASSUME NEW n \in 1..Len(puts), instance # 0 PROVE puts[n] <= value'[instance]
    <3>1. puts[n] <= value[instance] /\ instance \in Ids
      BY <2>2 DEF Inv, Forward, TypeOK
    <3>2. puts[n] \in Int
      BY PutsTypes
    <3>3. value[instance] <= value'[instance] /\ value[instance] \in Int /\ value'[instance] \in Int
      BY <1>2, <1>6, <3>1
    <3> QED
      BY <3>1, <3>2, <3>3
  <2>3. ASSUME NEW j \in Ids, Stateful, status[j] \in {"building", "published"} PROVE stored <= value'[j]
    <3>1. stored <= value[j]
      BY <2>3 DEF Inv, Forward
    <3>2. value[j] <= value'[j] /\ value[j] \in Int /\ value'[j] \in Int
      BY <1>2, <1>6
    <3> QED
      BY <1>2, <3>1, <3>2
  <2>4. \A n \in 1..Len(puts) : stored <= puts[n]
    BY DEF Inv, Forward
  <2>5. \A m, n \in 1..Len(puts) : m <= n => puts[m] <= puts[n]
    BY DEF Inv, Forward
  <2> QED
    BY <1>1, <1>2, <1>5, <1>6, <2>1, <2>2, <2>3, <2>4, <2>5 DEF Forward
<1>11. Restoring'
  <2>1. ASSUME NEW j \in Ids, Stateful, status[j] = "building", call[owner] # "join"
        PROVE  value'[j] = stored
    <3>1. instance = 0 /\ 0 \notin Ids
      BY <2>1 DEF Inv, Lives, Ids
    <3> QED
      BY <1>3, <2>1, <3>1
  <2> QED
    BY <1>1, <1>5, <2>1 DEF Inv, Restoring
<1>12. StoredIsCurrent'
  BY <1>1, <1>3, <1>4, <1>5 DEF StoredIsCurrent
<1>13. PeersAreCurrent'
  <2>1. Stateful => instance # 0
    BY <1>3 DEF Ids
  <2>2. \A j \in Ids : j = k => dirty'[j] = TRUE
    BY <1>4
  <2>3. Stateful => dirty'[instance] = TRUE
    BY <1>3, <2>2
  <2> QED
    BY <1>1, <1>5, <2>1, <2>3 DEF PeersAreCurrent
<1> QED
  BY <1>7, <1>8, <1>9, <1>10, <1>11, <1>12, <1>13 DEF Inv

LEMMA FlushStep ==
  ASSUME Inv, NEW k \in Ids, Flush(k) PROVE Inv'
<1> DEFINE frame == [from |-> k, value |-> value[k]]
<1>1. /\ dirty[k] /\ dirty' = [dirty EXCEPT ![k] = FALSE]
      /\ view' = [c \in Conns |-> IF conn[c] = "open" THEN frame ELSE view[c]]
      /\ puts' = IF Stateful THEN Append(puts, value[k]) ELSE puts
      /\ UNCHANGED <<kind, known, call, act, owner, phase, waiting, instance, status, value, stored, putLost,
                     conn, joined, writes, failures, stops>>
  BY DEF Flush, lockVars, bounds
<1>2. /\ puts \in Seq(0..MaxWrites) /\ Len(puts) \in Nat
      /\ \A n \in 1..Len(puts) : puts[n] \in 0..MaxWrites /\ puts[n] \in Int
      /\ value \in [Ids -> 0..MaxWrites] /\ \A j \in Ids : value[j] \in Int
      /\ stored \in Int
  BY PutsTypes
<1>3. Stateful => k = instance /\ instance # 0
  BY <1>1 DEF Inv, Storage, Ids
<1>4. dirty' \in [Ids -> BOOLEAN] /\ \A j \in Ids : dirty'[j] = IF j = k THEN FALSE ELSE dirty[j]
  BY <1>1 DEF Inv, TypeOK
<1>5. /\ view' \in [Conns -> [from : Ids \union {0}, value : 0..MaxWrites]]
      /\ \A c \in Conns : conn[c] = "open" => view'[c].value = value[k]
  <2>1. frame \in [from : Ids \union {0}, value : 0..MaxWrites] /\ frame.value = value[k]
    BY <1>2
  <2>2. view \in [Conns -> [from : Ids \union {0}, value : 0..MaxWrites]]
    BY DEF Inv, TypeOK
  <2> HIDE DEF frame
  <2> QED
    BY <1>1, <2>1, <2>2
<1> HIDE DEF frame
<1>6. Stateful => /\ puts' \in Seq(0..MaxWrites) /\ puts' # <<>> /\ Len(puts') = Len(puts) + 1
                  /\ \A n \in 1..Len(puts) : puts'[n] = puts[n]
                  /\ puts'[Len(puts) + 1] = value[k]
  <2>1. value[k] \in 0..MaxWrites
    BY <1>2
  <2> QED
    BY <1>1, <1>2, <2>1, AppendProperties
<1>7. (Stateful' <=> Stateful) /\ (Constructing' <=> Constructing)
  BY <1>1 DEF Stateful, Constructing
<1>8. TypeOK'
  <2>1. puts' \in Seq(0..MaxWrites)
    BY <1>1, <1>2, <1>6
  <2> QED
    BY <1>1, <1>4, <1>5, <2>1 DEF Inv, TypeOK
<1>9. Lock' /\ Requests' /\ Lives' /\ Hosted'
  BY <1>1, <1>7 DEF Inv, Lock, Requests, Lives, Hosted
<1>10. Storage'
  BY <1>1, <1>3, <1>4, <1>7 DEF Inv, Storage
<1>11. Restoring'
  BY <1>1, <1>7 DEF Inv, Restoring
<1>12. CASE ~Stateful
  <2>1. Forward'
    BY <1>1, <1>7, <1>12 DEF Inv, Forward
  <2>2. StoredIsCurrent' /\ PeersAreCurrent'
    BY <1>7, <1>12 DEF StoredIsCurrent, PeersAreCurrent
  <2> QED
    BY <1>8, <1>9, <1>10, <1>11, <2>1, <2>2 DEF Inv
<1>13. CASE Stateful
  <2>1. \A n \in 1..Len(puts') : \/ n \in 1..Len(puts) /\ puts'[n] = puts[n]
                                 \/ n = Len(puts) + 1 /\ puts'[n] = value[k]
    BY <1>2, <1>6, <1>13
  <2>2. status[k] = "published" /\ k = instance
    BY <1>3, <1>13 DEF Inv, Lives
  <2>3. stored <= value[k]
    BY <1>13, <2>2 DEF Inv, Forward
  <2>4. \A n \in 1..Len(puts) : stored <= puts[n] /\ puts[n] <= value[k]
    BY <1>3, <1>13 DEF Inv, Forward
  <2>5. ASSUME NEW n \in 1..Len(puts') PROVE stored <= puts'[n] /\ puts'[n] <= value[instance]
    BY <1>2, <2>1, <2>2, <2>3, <2>4
  <2>6. ASSUME NEW m \in 1..Len(puts'), NEW n \in 1..Len(puts'), m <= n PROVE puts'[m] <= puts'[n]
    <3>1. CASE n \in 1..Len(puts) /\ puts'[n] = puts[n]
      <4>1. m \in 1..Len(puts) /\ puts'[m] = puts[m]
        BY <1>2, <2>1, <2>6, <3>1
      <4> QED
        BY <2>6, <3>1, <4>1 DEF Inv, Forward
    <3>2. CASE puts'[n] = value[k]
      BY <2>2, <2>5, <3>2
    <3> QED
      BY <2>1, <3>1, <3>2
  <2>7. Forward'
    <3>1. /\ writes \in 0..MaxWrites /\ stored <= writes /\ \A j \in Ids : value[j] <= writes
          /\ \A j \in Ids : Stateful /\ status[j] \in {"building", "published"} => stored <= value[j]
      BY DEF Inv, Forward
    <3> QED
      BY <1>1, <1>7, <2>5, <2>6, <3>1 DEF Forward
  <2>8. StoredIsCurrent'
    <3>1. puts' # <<>> /\ puts'[Len(puts')] = value[instance]
      BY <1>6, <1>13, <2>2
    <3> QED
      BY <1>1, <3>1 DEF StoredIsCurrent
  <2>9. PeersAreCurrent'
    BY <1>1, <1>3, <1>5, <1>7, <1>13 DEF PeersAreCurrent
  <2> QED
    BY <1>8, <1>9, <1>10, <1>11, <2>7, <2>8, <2>9 DEF Inv
<1> QED
  BY <1>12, <1>13

-----------------------------------------------------------------------------
(* Storage, hibernation and restarts *)

LEMMA PutDoneStep == Inv /\ PutDone => Inv'
<1> SUFFICES ASSUME Inv, PutDone PROVE Inv'
  OBVIOUS
<1>1. /\ puts # <<>> /\ puts' = Tail(puts)
      /\ \/ stored' = Head(puts) /\ putLost' = FALSE
         \/ stored' = stored /\ putLost' = TRUE
      /\ UNCHANGED <<kind, known, call, act, owner, phase, waiting, instance, status, value, dirty,
                     conn, joined, view, writes, stops>>
  BY DEF PutDone, lockVars, compVars, peerVars
<1>2. /\ puts \in Seq(0..MaxWrites) /\ Len(puts) \in Nat
      /\ \A n \in 1..Len(puts) : puts[n] \in 0..MaxWrites /\ puts[n] \in Int
      /\ \A j \in Ids : value[j] \in Int
      /\ stored \in -1..MaxWrites /\ stored \in Int /\ writes \in Int
  BY PutsTypes
<1>3. Stateful /\ instance # 0 /\ instance \in Ids
  BY <1>1 DEF Inv, Storage, TypeOK
<1> DEFINE rest == Tail(puts)
           n == Len(puts)
<1>4. /\ Len(puts) # 0 /\ Head(puts) = puts[1] /\ rest \in Seq(0..MaxWrites) /\ Len(rest) = n - 1
      /\ \A m \in 1..Len(rest) : rest[m] = puts[m + 1]
  BY <1>1, <1>2, EmptySeq, HeadTailProperties
<1> HIDE DEF rest
<1>5. 1 \in 1..n /\ n \in 1..n /\ \A m \in 1..Len(rest) : m + 1 \in 1..n /\ 1 <= m + 1
  BY <1>2, <1>4
<1>6. /\ \A m \in 1..n : stored <= puts[m] /\ puts[m] <= value[instance]
      /\ \A i, j \in 1..n : i <= j => puts[i] <= puts[j]
      /\ writes \in 0..MaxWrites /\ stored <= writes /\ \A k \in Ids : value[k] <= writes
      /\ \A k \in Ids : status[k] \in {"building", "published"} => stored <= value[k]
  BY <1>3 DEF Inv, Forward
<1>7. puts[1] <= value[instance] /\ puts[1] <= writes /\ stored <= puts[1] /\ puts[1] \in 0..MaxWrites
  BY <1>2, <1>3, <1>5, <1>6
<1>8. stored' \in {stored, puts[1]} /\ stored' \in -1..MaxWrites /\ stored' <= writes
  BY <1>1, <1>2, <1>4, <1>6, <1>7
<1>9. (Stateful' <=> Stateful) /\ (Constructing' <=> Constructing)
  BY <1>1 DEF Stateful, Constructing
<1>10. \A k \in Ids : status[k] \in {"building", "published"} => k = instance
  BY <1>3 DEF Inv, Lives
<1>11. TypeOK'
  <2>1. puts' \in Seq(0..MaxWrites) /\ putLost' \in BOOLEAN
    BY <1>1, <1>4 DEF rest
  <2> QED
    BY <1>1, <1>8, <2>1 DEF Inv, TypeOK
<1>12. Lock' /\ Requests' /\ Lives' /\ Hosted'
  BY <1>1, <1>9 DEF Inv, Lock, Requests, Lives, Hosted
<1>13. Storage'
  BY <1>1, <1>3, <1>9 DEF Inv, Storage
<1>14. Restoring'
  <2>1. \A k \in Ids : status[k] # "building"
    BY <1>3 DEF Inv, Lives
  <2> QED
    BY <1>1, <1>3, <2>1 DEF Restoring
<1>15. Forward'
  <2>1. ASSUME NEW m \in 1..Len(rest) PROVE stored' <= rest[m] /\ rest[m] <= value[instance]
    <3>1. rest[m] = puts[m + 1] /\ m + 1 \in 1..n /\ puts[1] <= puts[m + 1]
      BY <1>4, <1>5, <1>6
    <3>2. stored <= puts[m + 1] /\ puts[m + 1] <= value[instance]
      BY <1>6, <3>1
    <3> QED
      BY <1>8, <3>1, <3>2
  <2>2. ASSUME NEW i \in 1..Len(rest), NEW j \in 1..Len(rest), i <= j PROVE rest[i] <= rest[j]
    <3>1. rest[i] = puts[i + 1] /\ rest[j] = puts[j + 1] /\ i + 1 \in 1..n /\ j + 1 \in 1..n /\ i + 1 <= j + 1
      BY <1>4, <1>5, <2>2
    <3> QED
      BY <1>6, <3>1
  <2>3. ASSUME NEW k \in Ids, status[k] \in {"building", "published"} PROVE stored' <= value[k]
    BY <1>6, <1>7, <1>8, <1>10, <2>3
  <2>4. puts' = rest
    BY <1>1 DEF rest
  <2> QED
    BY <1>1, <1>6, <1>8, <2>1, <2>2, <2>3, <2>4 DEF Forward
<1>16. puts' # <<>> => n - 1 \in 1..Len(rest) /\ Len(puts') = n - 1 /\ puts'[Len(puts')] = puts[n]
  <2>1. puts' = rest
    BY <1>1 DEF rest
  <2>2. puts' # <<>> => Len(rest) # 0
    BY <1>4, <2>1, EmptySeq
  <2>3. Len(rest) # 0 => n - 1 \in 1..Len(rest) /\ (n - 1) + 1 = n
    BY <1>2, <1>4
  <2> QED
    BY <1>4, <2>1, <2>2, <2>3
<1>17. puts' = <<>> => n = 1
  <2>1. puts' = <<>> => Len(rest) = 0
    BY <1>1, EmptySeq DEF rest
  <2> QED
    BY <1>2, <1>4, <2>1
<1>18. StoredIsCurrent'
  <2>1. ASSUME ~dirty[instance]
        PROVE  /\ puts' # <<>> => puts'[Len(puts')] = value[instance]
               /\ puts' = <<>> /\ ~putLost' => stored' = value[instance]
    <3>1. puts[n] = value[instance]
      BY <1>1, <1>3, <2>1 DEF Inv, StoredIsCurrent
    <3>2. ~putLost' => stored' = puts[1]
      BY <1>1, <1>4
    <3> QED
      BY <1>16, <1>17, <3>1, <3>2
  <2> QED
    BY <1>1, <2>1 DEF StoredIsCurrent
<1>19. PeersAreCurrent'
  BY <1>1, <1>3, <1>9 DEF Inv, PeersAreCurrent
<1> QED
  BY <1>11, <1>12, <1>13, <1>14, <1>15, <1>18, <1>19 DEF Inv

\* The components a stopped object leaves behind.
LEMMA LostComponents ==
  ASSUME Inv, MemoryLost
  PROVE  /\ instance' = 0 /\ 0 \notin Ids
         /\ status' \in [Ids -> {"none", "building", "published", "disposed", "gone"}]
         /\ \A k \in Ids : /\ status'[k] \notin {"building", "published"}
                           /\ status[k] \in {"published", "gone"} => status'[k] = "gone"
         /\ dirty' \in [Ids -> BOOLEAN] /\ \A k \in Ids : ~dirty'[k]
         /\ UNCHANGED <<kind, value, stored, joined, view, writes, failures>>
<1>1. /\ status \in [Ids -> {"none", "building", "published", "disposed", "gone"}]
      /\ status' = [k \in Ids |-> IF status[k] \in {"building", "published"} THEN "gone" ELSE status[k]]
      /\ dirty' = [k \in Ids |-> FALSE] /\ instance' = 0
      /\ UNCHANGED <<kind, value, stored, joined, view, writes, failures>>
  BY DEF Inv, TypeOK, MemoryLost
<1>2. dirty' \in [Ids -> BOOLEAN] /\ \A k \in Ids : ~dirty'[k]
  BY <1>1
<1> QED
  BY <1>1, <1>2 DEF Ids

\* Hibernation leaves the peers connected: what they hold is what is stored.
LEMMA HibernateStep == Inv /\ Hibernate => Inv'
<1> SUFFICES ASSUME Inv, Hibernate PROVE Inv'
  OBVIOUS
<1>1. /\ owner = Nobody /\ instance # 0 /\ puts = <<>> /\ MemoryLost
      /\ \A c \in Conns : act[c] = Idle
      /\ \A k \in Ids : ~dirty[k]
      /\ UNCHANGED <<known, call, act, owner, phase, waiting, conn, puts, putLost>>
  BY DEF Hibernate, lockVars
<1>2. /\ instance' = 0 /\ 0 \notin Ids
      /\ status' \in [Ids -> {"none", "building", "published", "disposed", "gone"}]
      /\ \A k \in Ids : /\ status'[k] \notin {"building", "published"}
                        /\ status[k] \in {"published", "gone"} => status'[k] = "gone"
      /\ dirty' \in [Ids -> BOOLEAN] /\ \A k \in Ids : ~dirty'[k]
      /\ UNCHANGED <<kind, value, stored, joined, view, writes, failures>>
  BY <1>1, LostComponents
<1>3. /\ phase = "none" /\ waiting = <<>> /\ ~Constructing /\ instance \in Ids
      /\ \A c \in Callers : call[c] = "none"
  <2>1. phase = "none" /\ waiting = <<>> /\ instance \in Ids
    BY <1>1 DEF Inv, Lock, TypeOK
  <2>2. Nobody \notin Callers
    BY HostAssumption DEF Callers
  <2>3. \A c \in Callers : call[c] = "none"
    BY <1>1, <2>1, <2>2, EmptyLine DEF Inv, Lock
  <2> QED
    BY <2>1, <2>3 DEF Constructing
<1>4. (Stateful' <=> Stateful) /\ ~Constructing' /\ phase' # "persisting"
  BY <1>1, <1>2, <1>3 DEF Stateful, Constructing
<1>5. TypeOK'
  BY <1>1, <1>2 DEF Inv, TypeOK
<1>6. Lock' /\ Requests'
  BY <1>1, <1>2 DEF Inv, Lock, Requests
<1>7. Lives'
  BY <1>2, <1>4 DEF Lives
<1>8. Hosted'
  BY <1>1, <1>2 DEF Inv, Hosted
<1>9. Storage'
  BY <1>1, <1>2, <1>4 DEF Inv, Storage, Idle
<1>10. Forward'
  <2>1. Len(puts) = 0
    BY <1>1, EmptySeq
  <2> QED
    BY <1>1, <1>2, <2>1 DEF Inv, Forward
<1>11. Restoring'
  BY <1>1, <1>2, <1>3 DEF Restoring
<1>12. StoredIsCurrent'
  BY <1>2 DEF StoredIsCurrent
<1>13. PeersAreCurrent'
  <2>1. ASSUME NEW c \in Conns, Stateful, conn[c] = "open", ~putLost PROVE view[c].value = stored
    <3>1. stored = value[instance]
      BY <1>1, <1>3, <2>1 DEF Inv, StoredIsCurrent
    <3>2. view[c].value = value[instance]
      BY <1>1, <1>3, <2>1 DEF Inv, PeersAreCurrent
    <3> QED
      BY <3>1, <3>2
  <2> QED
    BY <1>1, <1>2, <1>4, <2>1 DEF PeersAreCurrent
<1> QED
  BY <1>5, <1>6, <1>7, <1>8, <1>9, <1>10, <1>11, <1>12, <1>13 DEF Inv

LEMMA RestartStep == Inv /\ Restart => Inv'
<1> SUFFICES ASSUME Inv, Restart PROVE Inv'
  OBVIOUS
<1>1. /\ MemoryLost
      /\ conn' = [c \in Conns |-> IF conn[c] = "new" THEN "new" ELSE "gone"]
      /\ call' = [c \in Callers |-> "none"] /\ act' = [c \in Conns |-> Idle]
      /\ owner' = Nobody /\ phase' = "none" /\ waiting' = <<>>
      /\ known' \in BOOLEAN /\ puts' = <<>> /\ putLost' = (putLost \/ puts # <<>>)
  BY DEF Restart, HandOver
<1>2. /\ instance' = 0 /\ 0 \notin Ids
      /\ status' \in [Ids -> {"none", "building", "published", "disposed", "gone"}]
      /\ \A k \in Ids : status'[k] \notin {"building", "published"}
      /\ dirty' \in [Ids -> BOOLEAN] /\ \A k \in Ids : ~dirty'[k]
      /\ UNCHANGED <<kind, value, stored, joined, view, writes, failures>>
  BY <1>1, LostComponents
<1>3. ~Constructing' /\ Nobody \notin Callers /\ Conns \subseteq Callers
  BY <1>1, HostAssumption DEF Constructing, Callers
<1>4. /\ \A c \in Callers : call'[c] = "none"
      /\ \A c \in Conns : act'[c].at = "none" /\ conn'[c] # "open"
  BY <1>1 DEF Idle
<1>5. TypeOK'
  <2>1. act' \in [Conns -> [on : Ids \union {0}, at : {"none", "queued", "running"}]]
    BY <1>1 DEF Idle
  <2>2. /\ conn' \in [Conns -> {"new", "joining", "open", "closing", "gone"}]
        /\ call' \in [Callers -> Ensures \union {"none", "join"}]
    BY <1>1
  <2>3. puts' \in Seq(0..MaxWrites) /\ waiting' \in Seq(Callers) /\ putLost' \in BOOLEAN
    BY <1>1, EmptySeq
  <2> QED
    BY <1>1, <1>2, <2>1, <2>2, <2>3 DEF Inv, TypeOK
<1>6. Lock'
  BY <1>1, <1>3, <1>4, EmptyLine DEF Lock
<1>7. Requests' /\ Hosted'
  BY <1>3, <1>4 DEF Requests, Hosted
<1>8. Lives'
  BY <1>1, <1>2, <1>3 DEF Lives
<1>9. Storage'
  BY <1>1, <1>2, <1>4 DEF Inv, Storage, Stateful
<1>10. Forward'
  <2>1. Len(puts') = 0
    BY <1>1, EmptySeq
  <2> QED
    BY <1>2, <2>1 DEF Inv, Forward
<1>11. Restoring'
  BY <1>2, <1>4 DEF Restoring
<1>12. StoredIsCurrent' /\ PeersAreCurrent'
  BY <1>2, <1>4 DEF StoredIsCurrent, PeersAreCurrent
<1> QED
  BY <1>5, <1>6, <1>7, <1>8, <1>9, <1>10, <1>11, <1>12 DEF Inv

-----------------------------------------------------------------------------
(* The theorems *)

LEMMA InitInv == Init => Inv
<1> SUFFICES ASSUME Init PROVE Inv
  OBVIOUS
<1>1. /\ kind \in Kinds
      /\ conn = [c \in Conns |-> "new"] /\ call = [c \in Callers |-> "none"]
      /\ owner = Nobody /\ phase = "none" /\ waiting = <<>>
      /\ instance = 0 /\ status = [k \in Ids |-> "none"]
      /\ value = [k \in Ids |-> 0] /\ dirty = [k \in Ids |-> FALSE]
      /\ act = [c \in Conns |-> Idle] /\ known = TRUE
      /\ stored = -1 /\ puts = <<>> /\ putLost = FALSE
      /\ joined = [c \in Conns |-> 0] /\ view = [c \in Conns |-> Unseen] /\ writes = 0
  BY DEF Init
<1>2. 0 \in 0..MaxWrites /\ -1 \in -1..MaxWrites /\ 0 \notin Ids
  BY HostAssumption DEF Ids
<1>3. ~Constructing /\ Nobody \notin Callers /\ Conns \subseteq Callers
  BY <1>1, HostAssumption DEF Constructing, Callers
<1>4. /\ \A c \in Callers : call[c] = "none"
      /\ \A c \in Conns : act[c].at = "none" /\ conn[c] = "new"
      /\ \A k \in Ids : status[k] = "none" /\ value[k] = 0 /\ ~dirty[k]
  BY <1>1 DEF Idle
<1>5. TypeOK
  <2>1. act \in [Conns -> [on : Ids \union {0}, at : {"none", "queued", "running"}]]
    BY <1>1 DEF Idle
  <2>2. view \in [Conns -> [from : Ids \union {0}, value : 0..MaxWrites]]
    <3>1. Unseen \in [from : Ids \union {0}, value : 0..MaxWrites]
      BY <1>2 DEF Unseen
    <3> QED
      BY <1>1, <3>1
  <2>3. /\ conn \in [Conns -> {"new", "joining", "open", "closing", "gone"}]
        /\ call \in [Callers -> Ensures \union {"none", "join"}]
        /\ status \in [Ids -> {"none", "building", "published", "disposed", "gone"}]
        /\ joined \in [Conns -> Ids \union {0}]
    BY <1>1
  <2>4. value \in [Ids -> 0..MaxWrites]
    BY <1>1, <1>2
  <2>5. dirty \in [Ids -> BOOLEAN] /\ known \in BOOLEAN /\ putLost \in BOOLEAN
    BY <1>1
  <2>6. puts \in Seq(0..MaxWrites) /\ waiting \in Seq(Callers)
    BY <1>1, EmptySeq
  <2> QED
    BY <1>1, <1>2, <2>1, <2>2, <2>3, <2>4, <2>5, <2>6 DEF TypeOK
<1>6. Lock
  BY <1>1, <1>3, <1>4, EmptyLine DEF Lock
<1>7. Requests /\ Hosted
  BY <1>3, <1>4 DEF Requests, Hosted
<1>8. Lives
  BY <1>1, <1>2, <1>3, <1>4 DEF Lives
<1>9. Storage
  BY <1>1, <1>4 DEF Storage
<1>10. Forward
  <2>1. Len(puts) = 0
    BY <1>1, EmptySeq
  <2> QED
    BY <1>1, <1>2, <1>4, <2>1 DEF Forward
<1>11. Restoring
  BY <1>4 DEF Restoring
<1>12. StoredIsCurrent /\ PeersAreCurrent
  BY <1>1, <1>4 DEF StoredIsCurrent, PeersAreCurrent
<1> QED
  BY <1>5, <1>6, <1>7, <1>8, <1>9, <1>10, <1>11, <1>12 DEF Inv

LEMMA OperationStep ==
  ASSUME Inv, NEW c \in Callers, Operation(c) PROVE Inv'
BY NothingToRestoreStep, RestoreStep, RestoredStep, DiscardStep, CreateFreshStep, JoinLiveStep,
   InitializedStep, PersistedStep DEF Operation

LEMMA NextInv == Inv /\ [Next]_vars => Inv'
<1> SUFFICES ASSUME Inv, [Next]_vars PROVE Inv'
  OBVIOUS
<1>1. CASE UNCHANGED vars
  <2>1. UNCHANGED <<kind, known, call, act, lockVars, compVars, storeVars, conn, joined, view, bounds>>
    BY <1>1 DEF vars, peerVars
  <2>2. conn' \in ConnTypes /\ act' \in ActTypes /\ FewerOpen
    BY <2>1 DEF Inv, TypeOK, ConnTypes, ActTypes, FewerOpen
  <2> QED
    BY <2>1, <2>2, QuietStep
<1>2. ASSUME NEW c \in Callers, Operation(c) PROVE Inv'
  BY <1>2, OperationStep
<1>3. CASE BuildFails
  BY <1>3, BuildFailsStep
<1>4. ASSUME NEW c \in Conns,
             Connect(c) \/ Message(c) \/ StartAction(c) \/ Write(c) \/ EndAction(c) \/ Close(c)
      PROVE  Inv'
  BY <1>4, ConnectStep, MessageStep, StartActionStep, WriteStep, EndActionStep, CloseStep
<1>5. ASSUME NEW r \in Readers, Read(r) PROVE Inv'
  BY <1>5, ReadStep
<1>6. ASSUME NEW k \in Ids, Flush(k) PROVE Inv'
  BY <1>6, FlushStep
<1>7. CASE PutDone
  BY <1>7, PutDoneStep
<1>8. CASE Hibernate
  BY <1>8, HibernateStep
<1>9. CASE Restart
  BY <1>9, RestartStep
<1> QED
  BY <1>1, <1>2, <1>3, <1>4, <1>5, <1>6, <1>7, <1>8, <1>9 DEF Next

\* The inductive invariant holds in every reachable state of the host.
THEOREM Invariance == Spec => []Inv
<1>1. Init => Inv
  BY InitInv
<1>2. Inv /\ [Next]_vars => Inv'
  BY NextInv
<1> QED
  BY <1>1, <1>2, PTL DEF Spec

\* Every variable of the host keeps its type, for any connections, readers and bounds.
THEOREM TypeCorrect == Spec => []TypeOK
<1>1. Inv => TypeOK
  BY DEF Inv
<1> QED
  BY <1>1, Invariance, PTL

\* Initialization is serialized (initializeComponent): whatever joins, messages, state
\* requests, failing hooks and restarts do, an object has at most one component, and
\* what connected peers joined is never disposed by another join.
THEOREM PeersShareOneComponent == Spec => []OneComponentForAll
<1>1. Inv => OneComponent
  <2> SUFFICES ASSUME Inv PROVE OneComponent
    OBVIOUS
  <2> DEFINE live == {k \in Ids : status[k] \in {"building", "published"}}
  <2>1. /\ \A k \in Ids : status[k] = "published" <=> instance = k
        /\ \A k \in Ids : status[k] = "building" => Constructing
        /\ \A j, k \in Ids : status[j] = "building" /\ status[k] = "building" => j = k
        /\ Constructing => instance = 0
    BY DEF Inv, Lives
  <2>2. \A k \in Ids : k # 0
    BY DEF Ids
  <2>3. \A j, k \in live : j = k
    BY <2>1, <2>2
  <2>4. Cardinality(live) <= 1
    <3>1. CASE live = {}
      BY <3>1, FS_EmptySet
    <3>2. CASE live # {}
      <4>1. PICK k \in live : TRUE
        BY <3>2
      <4>2. live = {k}
        BY <2>3, <4>1
      <4>3. Cardinality({k}) = 1
        BY FS_Singleton
      <4> HIDE DEF live
      <4> QED
        BY <4>2, <4>3
    <3> QED
      BY <3>1, <3>2
  <2>5. \A k \in Ids : status[k] = "building" => phase \in {"building", "persisting"}
    BY <2>1 DEF Constructing
  <2>6. \A c \in Callers : call[c] # "none" <=> c = owner \/ \E n \in 1..Len(waiting) : waiting[n] = c
    BY DEF Inv, Lock, InLine
  <2> QED
    BY <2>1, <2>4, <2>5, <2>6 DEF OneComponent
<1>2. Inv => PeersKeepTheirComponent
  BY DEF Inv, Hosted, PeersKeepTheirComponent
<1> QED
  BY <1>1, <1>2, Invariance, PTL DEF OneComponentForAll

\* Neither a component created afresh (a join restores first), nor a restored one, nor a
\* put that is late or fails replaces the stored state by an older one.
THEOREM StoredMovesForward == Spec => StoredNeverRegresses
<1>1. Inv /\ [Next]_vars => [stored <= stored']_vars
  <2> SUFFICES ASSUME Inv, Next PROVE stored <= stored'
    OBVIOUS
  <2>0. stored \in Int
    BY PutsTypes
  <2>1. CASE stored' = stored
    BY <2>0, <2>1
  <2>2. ASSUME NEW c \in Callers, Persisted(c) PROVE stored <= stored'
    <3>1. stored' = value[Building] /\ phase = "persisting"
      BY <2>2 DEF Persisted
    <3> QED
      BY <3>1, PersistsFirst
  <2>3. CASE PutDone
    <3>1. puts # <<>> /\ (stored' = Head(puts) \/ stored' = stored)
      BY <2>3 DEF PutDone
    <3>2. puts \in Seq(0..MaxWrites) /\ Len(puts) \in Nat
      BY PutsTypes
    <3>3. Head(puts) = puts[1] /\ 1 \in 1..Len(puts)
      BY <3>1, <3>2, EmptySeq
    <3>4. stored <= puts[1]
      BY <3>3 DEF Inv, Forward
    <3> QED
      BY <2>0, <3>1, <3>3, <3>4
  <2>4. ASSUME NEW c \in Callers, Operation(c) PROVE stored' = stored \/ Persisted(c)
    BY <2>4 DEF Operation, NothingToRestore, Restore, Restored, Discard, CreateFresh, JoinLive,
                Initialized, storeVars
  <2>5. BuildFails => stored' = stored
    BY DEF BuildFails, storeVars
  <2>6. ASSUME NEW c \in Conns,
               Connect(c) \/ Message(c) \/ StartAction(c) \/ Write(c) \/ EndAction(c) \/ Close(c)
        PROVE  stored' = stored
    BY <2>6 DEF Connect, Message, StartAction, Write, EndAction, Close, storeVars
  <2>7. ASSUME NEW r \in Readers, Read(r) PROVE stored' = stored
    BY <2>7 DEF Read, storeVars
  <2>8. ASSUME NEW k \in Ids, Flush(k) PROVE stored' = stored
    BY <2>8 DEF Flush
  <2>9. Hibernate \/ Restart => stored' = stored
    BY DEF Hibernate, Restart, MemoryLost
  <2> QED
    BY <2>1, <2>2, <2>3, <2>4, <2>5, <2>6, <2>7, <2>8, <2>9 DEF Next
<1> QED
  BY <1>1, Invariance, PTL DEF Spec, StoredNeverRegresses

\* A peer connected to a stateful object holds the current state as soon as its broadcast
\* is out, also when the object was hibernated and its component restored in between,
\* unless the last put of the state was lost.
THEOREM PeersAlwaysConverge == Spec => []PeersConverge
<1>1. Inv => PeersConverge
  BY DEF Inv, PeersAreCurrent, PeersConverge
<1> QED
  BY <1>1, Invariance, PTL

-----------------------------------------------------------------------------
(* The contract: what else the host keeps *)

\* A component of a stateful object is published only once it is stored.
SavedFirst == Stateful /\ instance # 0 => stored # -1

\* What waits to be broadcast is the newest write, and no peer was sent a newer one.
Newest ==
  /\ \A k \in Ids : Stateful /\ dirty[k] => value[k] = writes
  /\ \A c \in Conns : view[c].value <= writes

\* Nobody writes to a component that is created afresh before it is stored.
Seeded ==
  \A k \in Ids : Stateful /\ status[k] = "building" /\ call[owner] = "join" => value[k] = Seed

Joins == {"ensureJoin", "join"}

\* A peer whose join is in progress is not connected yet.
Joiners == \A c \in Conns : call[c] \in Joins => conn[c] = "joining"

Promises == SavedFirst /\ Newest /\ Seeded /\ Joiners

\* Steps after which nobody is connected who was not.
OnlyLeave ==
  /\ \A d \in Conns : conn'[d] = "open" => conn[d] = "open"
  /\ Joiners'

LEMMA EnsuredLeaves ==
  ASSUME Inv, Promises, NEW c \in Callers, NEW now, NEW sockets \in ConnTypes, Ensured(c, now, sockets),
         \A d \in Conns : /\ sockets[d] = "open" => conn[d] = "open"
                          /\ conn[d] = "joining" => sockets[d] = "joining"
  PROVE  OnlyLeave
<1>1. /\ call' = [call EXCEPT ![c] = IF @ = "ensureJoin" THEN "join" ELSE "none"]
      /\ conn' = sockets \/ (sockets[c] = "open" /\ conn' = [sockets EXCEPT ![c] = "closing"])
  BY DEF Ensured
<1>2. Conns \subseteq Callers /\ call \in CallTypes
  BY DEF Callers, Inv, TypeOK, CallTypes
<1>3. ASSUME NEW d \in Conns, call'[d] \in Joins PROVE conn'[d] = "joining"
  <2>1. call[d] \in Joins
    BY <1>1, <1>2, <1>3 DEF CallTypes, Joins
  <2>2. sockets[d] = "joining"
    BY <2>1 DEF Promises, Joiners
  <2> QED
    BY <1>1, <2>2 DEF ConnTypes
<1>4. ASSUME NEW d \in Conns, conn'[d] = "open" PROVE conn[d] = "open"
  BY <1>1, <1>4 DEF ConnTypes
<1> QED
  BY <1>3, <1>4 DEF OnlyLeave, Joiners

LEMMA MissingLeaves ==
  ASSUME Inv, Promises, NEW c \in Callers, Missing(c)
  PROVE  OnlyLeave
<1> DEFINE closed == [d \in Conns |-> IF conn[d] = "open" THEN "closing" ELSE conn[d]]
<1>1. conn \in ConnTypes /\ call \in CallTypes /\ Conns \subseteq Callers
  BY DEF Inv, TypeOK, ConnTypes, CallTypes, Callers
<1>2. /\ closed \in ConnTypes
      /\ \A d \in Conns : closed[d] # "open" /\ (conn[d] = "joining" => closed[d] = "joining")
  BY <1>1 DEF ConnTypes
<1>3. CASE call[c] = "join"
  <2>1. call' = [call EXCEPT ![c] = "none"] /\ conn' = [closed EXCEPT ![c] = "gone"]
    BY <1>3 DEF Missing
  <2> HIDE DEF closed
  <2>2. \A d \in Conns : conn'[d] = IF d = c THEN "gone" ELSE closed[d]
    BY <1>2, <2>1 DEF ConnTypes
  <2>3. \A d \in Conns : call'[d] = IF d = c THEN "none" ELSE call[d]
    BY <1>1, <2>1 DEF CallTypes
  <2> QED
    BY <1>2, <2>2, <2>3 DEF OnlyLeave, Promises, Joiners, Joins
<1>4. CASE call[c] # "join"
  <2>1. Ensured(c, 0, closed)
    BY <1>4 DEF Missing
  <2> HIDE DEF closed
  <2> QED
    BY <1>2, <2>1, EnsuredLeaves
<1> QED
  BY <1>3, <1>4

\* A request enters: only a new connection joins.
LEMMA EnterLeaves ==
  ASSUME Inv, Promises, NEW c \in Callers, NEW what \in Ensures \union {"join"}, Enter(c, what), call[c] = "none",
         \A d \in Conns \ {c} : conn'[d] = conn[d],
         c \in Conns => /\ conn'[c] = "open" => conn[c] = "open"
                        /\ what \in Joins => conn'[c] = "joining",
         UNCHANGED <<kind, status, value>>
  PROVE  OnlyLeave /\ Seeded'
<1>1. /\ \A d \in Callers : call'[d] = IF d = c THEN what ELSE call[d]
      /\ Constructing' <=> Constructing
      /\ Constructing => owner' = owner /\ call'[owner'] = call[owner]
  BY Entered
<1>2. Conns \subseteq Callers
  BY DEF Callers
<1>3. OnlyLeave
  BY <1>1, <1>2 DEF OnlyLeave, Promises, Joiners
<1>4. \A k \in Ids : status[k] = "building" => Constructing
  BY DEF Inv, Lives
<1> QED
  BY <1>1, <1>3, <1>4 DEF Promises, Seeded, Stateful

-----------------------------------------------------------------------------
(* The steps of the contract *)

\* Objects of the other kinds keep no state: the contract has nothing to say of them.
LEMMA StatelessStutters ==
  ASSUME ~Stateful, kind' = kind PROVE UNCHANGED Contract!contractVars
BY DEF Stateful, Contract!contractVars

\* Steps that change no state, while peers may leave.
LEMMA QuietImplements ==
  ASSUME Inv, Promises, UNCHANGED <<kind, stored, putLost, view, writes>>, OnlyLeave, Seeded',
         Stateful => \A k \in Ids : dirty'[k] => dirty[k] /\ value'[k] = value[k],
         Stateful => CurrentState' = CurrentState /\ (instance' # 0 => stored # -1)
  PROVE  Promises' /\ [Contract!ContractNext]_(Contract!contractVars)
<1>1. Stateful' = Stateful
  BY DEF Stateful
<1>2. Promises'
  BY <1>1 DEF Promises, SavedFirst, Newest, OnlyLeave
<1>3. CASE ~Stateful
  BY <1>2, <1>3, StatelessStutters
<1>4. CASE Stateful
  <2>1. PICK gone \in SUBSET Conns : gone = {c \in Conns : conn'[c] # "open"}
    OBVIOUS
  <2>2. Contract!Leave(gone)
    BY <1>1, <1>4, <2>1 DEF Contract!Leave, Contract!Nothing, OnlyLeave
  <2>3. Contract!ContractNext
    BY <2>2 DEF Contract!ContractNext
  <2> QED
    BY <1>2, <2>3
<1> QED
  BY <1>3, <1>4

\* A component is constructed: restored, or created with what init() leaves.
LEMMA CreateImplements ==
  ASSUME Inv, Promises, NEW v, Create(v), phase \in {"begin", "disposing"}, instance = 0,
         call[owner] = "join" => v = Seed,
         UNCHANGED <<kind, stored, putLost, view, writes>>
  PROVE  Promises' /\ [Contract!ContractNext]_(Contract!contractVars)
<1>1. PICK k \in Ids : /\ status' = [status EXCEPT ![k] = "building"]
                       /\ value' = [value EXCEPT ![k] = v]
  BY DEF Create, Unmade
<1>2. UNCHANGED <<call, owner, instance, dirty, conn>>
  BY DEF Create
<1>3. \A j \in Ids : status[j] # "building"
  BY DEF Inv, Lives, Constructing
<1>4. Seeded'
  BY <1>1, <1>2, <1>3 DEF Seeded, Inv, TypeOK
<1>5. OnlyLeave
  BY <1>2 DEF OnlyLeave, Promises, Joiners
<1>6. Stateful => \A j \in Ids : ~dirty[j]
  BY DEF Inv, Storage, Ids
<1> QED
  BY <1>2, <1>4, <1>5, <1>6, QuietImplements DEF CurrentState

LEMMA MissingImplements ==
  ASSUME Inv, Promises, NEW c \in Callers, Missing(c), phase \in {"begin", "disposing"},
         UNCHANGED <<kind, stored, putLost, view, writes>>
  PROVE  Promises' /\ [Contract!ContractNext]_(Contract!contractVars)
<1>1. UNCHANGED <<instance, status, value, dirty>>
  BY DEF Missing, compVars
<1>2. Seeded'
  BY <1>1 DEF Seeded, Inv, Lives, Constructing
<1> QED
  BY <1>1, <1>2, MissingLeaves, QuietImplements DEF Promises, SavedFirst, CurrentState

LEMMA RestoreImplements ==
  ASSUME Inv, Promises, NEW c \in Callers, Restore(c)
  PROVE  Promises' /\ [Contract!ContractNext]_(Contract!contractVars)
<1>1. /\ owner = c /\ phase = "begin" /\ call[c] \in Ensures /\ instance = 0
      /\ Create(stored) \/ Missing(c)
      /\ UNCHANGED <<kind, stored, putLost, view, writes>>
  BY DEF Restore, storeVars, bounds
<1>2. CASE Create(stored)
  BY <1>1, <1>2, CreateImplements DEF Ensures
<1>3. CASE Missing(c)
  BY <1>1, <1>3, MissingImplements
<1> QED
  BY <1>1, <1>2, <1>3

LEMMA CreateFreshImplements ==
  ASSUME Inv, Promises, NEW c \in Callers, CreateFresh(c)
  PROVE  Promises' /\ [Contract!ContractNext]_(Contract!contractVars)
<1>1. /\ owner = c /\ phase \in {"begin", "disposing"} /\ instance = 0
      /\ Create(Seed) \/ Missing(c)
      /\ UNCHANGED <<kind, stored, putLost, view, writes>>
  BY DEF CreateFresh, storeVars, bounds
<1>2. CASE Create(Seed)
  BY <1>1, <1>2, CreateImplements
<1>3. CASE Missing(c)
  BY <1>1, <1>3, MissingImplements
<1> QED
  BY <1>1, <1>2, <1>3

LEMMA NothingToRestoreImplements ==
  ASSUME Inv, Promises, NEW c \in Callers, NothingToRestore(c)
  PROVE  Promises' /\ [Contract!ContractNext]_(Contract!contractVars)
<1>1. /\ phase = "begin" /\ Ensured(c, instance, conn)
      /\ UNCHANGED <<kind, instance, status, value, dirty, stored, putLost, view, writes>>
  BY DEF NothingToRestore, compVars, storeVars, bounds
<1>2. OnlyLeave
  <2>1. conn \in ConnTypes
    BY DEF Inv, TypeOK, ConnTypes
  <2> QED
    BY <1>1, <2>1, EnsuredLeaves
<1>3. \A k \in Ids : status[k] # "building"
  BY <1>1 DEF Inv, Lives, Constructing
<1>4. Seeded'
  BY <1>1, <1>3 DEF Seeded
<1> QED
  BY <1>1, <1>2, <1>4, QuietImplements DEF Promises, SavedFirst, CurrentState

LEMMA RestoredImplements ==
  ASSUME Inv, Promises, NEW c \in Callers, Restored(c)
  PROVE  Promises' /\ [Contract!ContractNext]_(Contract!contractVars)
<1>1. /\ owner = c /\ phase = "building" /\ call[c] \in Ensures
      /\ Publish(Building) /\ Ensured(c, Building, conn)
      /\ UNCHANGED <<kind, stored, putLost, view, writes>>
  BY DEF Restored, storeVars, bounds
<1>2. /\ Building \in Ids /\ status[Building] = "building" /\ instance = 0
      /\ \A k \in Ids : status[k] = "building" => k = Building
  BY <1>1, BuildingOne DEF Constructing
<1>3. OnlyLeave
  <2>1. conn \in ConnTypes
    BY DEF Inv, TypeOK, ConnTypes
  <2> QED
    BY <1>1, <2>1, EnsuredLeaves
<1>4. /\ instance' = Building /\ Building # 0 /\ UNCHANGED <<value, dirty>>
      /\ status' = [status EXCEPT ![Building] = "published"]
  BY <1>1, <1>2 DEF Publish, Ids
<1>5. Seeded'
  BY <1>2, <1>4 DEF Seeded, Inv, TypeOK
<1>6. Stateful => value[Building] = stored /\ stored # -1
  <2>1. value[Building] \in 0..MaxWrites
    BY <1>2 DEF Inv, TypeOK
  <2> QED
    BY <1>1, <1>2, <2>1 DEF Inv, Restoring, Ensures
<1> QED
  BY <1>1, <1>2, <1>3, <1>4, <1>5, <1>6, QuietImplements DEF CurrentState

LEMMA DiscardImplements ==
  ASSUME Inv, Promises, NEW c \in Callers, Discard(c)
  PROVE  Promises' /\ [Contract!ContractNext]_(Contract!contractVars)
<1>1. ~Stateful /\ UNCHANGED <<kind, call, conn, stored, putLost, view, writes>>
  BY DEF Discard, Discards, storeVars, peerVars, bounds
<1>2. OnlyLeave /\ Seeded'
  BY <1>1 DEF OnlyLeave, Promises, Joiners, Seeded, Stateful
<1> QED
  BY <1>1, <1>2, QuietImplements

LEMMA BuildFailsImplements ==
  ASSUME Inv, Promises, BuildFails
  PROVE  Promises' /\ [Contract!ContractNext]_(Contract!contractVars)
<1>1. /\ FailAll /\ status' = [status EXCEPT ![Building] = "disposed"]
      /\ UNCHANGED <<kind, instance, value, dirty, stored, putLost, view, writes>>
  BY DEF BuildFails, storeVars
<1>2. /\ Building \in Ids /\ \A k \in Ids : status[k] = "building" => k = Building
  BY BuildingOne DEF BuildFails, Constructing
<1>3. /\ \A d \in Callers : call'[d] = "none"
      /\ FewerOpen /\ Conns \subseteq Callers
  BY <1>1, AllFailed DEF Callers
<1>4. OnlyLeave
  BY <1>3 DEF OnlyLeave, FewerOpen, Joiners, Joins
<1>5. Seeded'
  BY <1>1, <1>2 DEF Seeded, Inv, TypeOK
<1> QED
  BY <1>1, <1>4, <1>5, QuietImplements DEF Promises, SavedFirst, CurrentState

\* Requests, the action queue and sockets that close change no component.
LEMMA RequestImplements ==
  ASSUME Inv, Promises, OnlyLeave, Seeded',
         UNCHANGED <<kind, compVars, storeVars, view, bounds>>
  PROVE  Promises' /\ [Contract!ContractNext]_(Contract!contractVars)
BY QuietImplements DEF Promises, SavedFirst, CurrentState, compVars, storeVars, bounds

LEMMA ConnectImplements ==
  ASSUME Inv, Promises, NEW c \in Conns, Connect(c)
  PROVE  Promises' /\ [Contract!ContractNext]_(Contract!contractVars)
<1>1. conn[c] = "new" /\ UNCHANGED <<kind, compVars, storeVars, view, bounds>>
  BY DEF Connect
<1>2. call[c] = "none" /\ c \in Callers /\ conn \in ConnTypes
  BY <1>1 DEF Inv, Requests, TypeOK, ConnTypes, Callers
<1>3. CASE conn' = [conn EXCEPT ![c] = "joining"] /\ Enter(c, FirstOf)
  <2>1. FirstOf \in Ensures \union {"join"}
    BY DEF FirstOf, Ensures
  <2>2. conn'[c] = "joining" /\ \A d \in Conns \ {c} : conn'[d] = conn[d]
    BY <1>2, <1>3 DEF ConnTypes
  <2>3. UNCHANGED <<kind, status, value>>
    BY <1>1 DEF compVars
  <2>4. OnlyLeave /\ Seeded'
    BY <1>2, <1>3, <2>1, <2>2, <2>3, EnterLeaves
  <2> QED
    BY <1>1, <2>4, RequestImplements
<1>4. CASE conn' = [conn EXCEPT ![c] = "closing"] /\ UNCHANGED <<call, lockVars>>
  <2>1. \A d \in Conns : conn'[d] = IF d = c THEN "closing" ELSE conn[d]
    BY <1>2, <1>4 DEF ConnTypes
  <2>2. OnlyLeave
    BY <1>2, <1>4, <2>1 DEF OnlyLeave, Promises, Joiners, Joins
  <2>3. Seeded'
    BY <1>1, <1>4 DEF Promises, Seeded, Stateful, compVars, lockVars
  <2> QED
    BY <1>1, <2>2, <2>3, RequestImplements
<1> QED
  BY <1>3, <1>4 DEF Connect

LEMMA ReadImplements ==
  ASSUME Inv, Promises, NEW r \in Readers, Read(r)
  PROVE  Promises' /\ [Contract!ContractNext]_(Contract!contractVars)
<1>1. /\ call[r] = "none" /\ Enter(r, "ensureRead") /\ conn' = conn
      /\ UNCHANGED <<kind, compVars, storeVars, view, bounds>> /\ UNCHANGED <<kind, status, value>>
  BY DEF Read, peerVars, compVars
<1>2. r \in Callers /\ r \notin Conns /\ "ensureRead" \in Ensures \union {"join"}
  BY HostAssumption DEF Callers, Ensures
<1>3. OnlyLeave /\ Seeded'
  BY <1>1, <1>2, EnterLeaves
<1> QED
  BY <1>1, <1>3, RequestImplements

LEMMA MessageImplements ==
  ASSUME Inv, Promises, NEW c \in Conns, Message(c)
  PROVE  Promises' /\ [Contract!ContractNext]_(Contract!contractVars)
<1>1. /\ call[c] = "none" /\ conn' = conn
      /\ UNCHANGED <<kind, compVars, storeVars, view, bounds>> /\ UNCHANGED <<kind, status, value>>
  BY DEF Message, peerVars, compVars
<1>2. CASE Enter(c, "ensureAct")
  <2>1. c \in Callers /\ "ensureAct" \in Ensures \union {"join"} /\ "ensureAct" \notin Joins
    BY DEF Callers, Ensures, Joins
  <2>2. OnlyLeave /\ Seeded'
    BY <1>1, <1>2, <2>1, EnterLeaves
  <2> QED
    BY <1>1, <2>2, RequestImplements
<1>3. CASE UNCHANGED <<call, lockVars>>
  <2>1. OnlyLeave /\ Seeded'
    BY <1>1, <1>3 DEF OnlyLeave, Promises, Joiners, Seeded, Stateful, lockVars
  <2> QED
    BY <1>1, <2>1, RequestImplements
<1> QED
  BY <1>2, <1>3 DEF Message

LEMMA ActionImplements ==
  ASSUME Inv, Promises, NEW c \in Conns, StartAction(c) \/ EndAction(c) \/ Close(c)
  PROVE  Promises' /\ [Contract!ContractNext]_(Contract!contractVars)
<1>1. /\ UNCHANGED <<kind, compVars, storeVars, view, bounds>>
      /\ UNCHANGED <<call, owner, status, value>>
  BY DEF StartAction, EndAction, Close, peerVars, compVars, lockVars
<1>2. Seeded'
  BY <1>1 DEF Promises, Seeded, Stateful
<1>3. CASE conn' = conn
  <2>1. OnlyLeave
    BY <1>1, <1>3 DEF OnlyLeave, Promises, Joiners
  <2> QED
    BY <1>1, <1>2, <2>1, RequestImplements
<1>4. CASE Close(c)
  <2>1. conn[c] \in {"open", "closing"} /\ conn' = [conn EXCEPT ![c] = "gone"] /\ conn \in ConnTypes
    BY <1>4 DEF Close, Inv, TypeOK, ConnTypes
  <2>2. \A d \in Conns : conn'[d] = IF d = c THEN "gone" ELSE conn[d]
    BY <2>1 DEF ConnTypes
  <2>3. OnlyLeave
    BY <1>1, <2>1, <2>2 DEF OnlyLeave, Promises, Joiners
  <2> QED
    BY <1>1, <1>2, <2>3, RequestImplements
<1> QED
  BY <1>3, <1>4 DEF StartAction, EndAction, peerVars

\* A peer is accepted: it is connected now, to the state of component k.
LEMMA AdmitPromises ==
  ASSUME Inv, Promises, NEW c \in Callers, owner = c, call[c] = "join", NEW k \in Ids, Admit(c, k)
  PROVE  /\ c \in Conns /\ Joiners' /\ conn[c] = "joining" /\ conn'[c] = "open"
         /\ \A d \in Conns : view'[d].value <= writes
         /\ Stateful => view'[c].value = value[k]
         /\ \A d \in Conns \ {c} : conn'[d] = conn[d] /\ view'[d] = view[d]
<1>1. /\ c \in Conns /\ conn'[c] = "open" /\ (Stateful => view'[c].value = value[k])
      /\ \A d \in Conns \ {c} : conn'[d] = conn[d] /\ view'[d] = view[d]
  BY AdmitEffect
<1>2. /\ call' = [call EXCEPT ![c] = "none"]
      /\ view' = IF Syncs THEN [view EXCEPT ![c] = [from |-> k, value |-> value[k]]] ELSE view
  BY DEF Admit
<1>3. /\ view \in [Conns -> [from : Ids \union {0}, value : 0..MaxWrites]]
      /\ call \in CallTypes /\ Conns \subseteq Callers /\ value[k] <= writes
  BY DEF Inv, TypeOK, CallTypes, Callers, Forward
<1>4. view'[c] = [from |-> k, value |-> value[k]] \/ view'[c] = view[c]
  BY <1>1, <1>2, <1>3
<1>5. \A d \in Conns : view'[d].value <= writes
  BY <1>1, <1>3, <1>4 DEF Promises, Newest
<1>6. \A d \in Conns : call'[d] = IF d = c THEN "none" ELSE call[d]
  BY <1>2, <1>3 DEF CallTypes
<1>7. conn[c] = "joining"
  BY <1>1 DEF Promises, Joiners, Joins
<1>8. Joiners'
  BY <1>1, <1>6 DEF Promises, Joiners, Joins
<1> QED
  BY <1>1, <1>5, <1>7, <1>8

\* What the peers are shown when one of them has joined.
LEMMA AdmitShows ==
  ASSUME NEW c \in Conns, Stateful, kind' = kind, NEW now, view'[c].value = now, conn'[c] = "open",
         \A d \in Conns \ {c} : conn'[d] = conn[d] /\ view'[d] = view[d]
  PROVE  [d \in Conns |-> IF Stateful /\ conn[d] = "open" THEN view[d].value ELSE -1]'
           = [[d \in Conns |-> IF Stateful /\ conn[d] = "open" THEN view[d].value ELSE -1] EXCEPT ![c] = now]
BY DEF Stateful

LEMMA JoinLiveImplements ==
  ASSUME Inv, Promises, NEW c \in Callers, JoinLive(c)
  PROVE  Promises' /\ [Contract!ContractNext]_(Contract!contractVars)
<1>1. /\ owner = c /\ phase = "begin" /\ call[c] = "join" /\ instance # 0 /\ Admit(c, instance)
      /\ UNCHANGED <<kind, instance, status, value, dirty, stored, putLost, writes>>
  BY DEF JoinLive, compVars, storeVars, bounds
<1>2. /\ c \in Conns /\ Joiners' /\ conn[c] = "joining" /\ conn'[c] = "open"
      /\ \A d \in Conns : view'[d].value <= writes
      /\ Stateful => view'[c].value = value[instance]
      /\ \A d \in Conns \ {c} : conn'[d] = conn[d] /\ view'[d] = view[d]
  <2>1. instance \in Ids
    BY <1>1 DEF Inv, TypeOK
  <2> QED
    BY <1>1, <2>1, AdmitPromises
<1>3. Stateful' = Stateful /\ \A k \in Ids : status[k] # "building"
  BY <1>1 DEF Stateful, Inv, Lives, Constructing
<1>4. Promises'
  BY <1>1, <1>2, <1>3 DEF Promises, SavedFirst, Newest, Seeded
<1>5. CASE Stateful
  <2>1. stored # -1
    BY <1>1, <1>5 DEF Promises, SavedFirst
  <2>2. Contract!Join(c)
    BY <1>1, <1>2, <1>3, <1>5, <2>1, AdmitShows DEF Contract!Join, Contract!Exists, Contract!Nothing, CurrentState
  <2> QED
    BY <1>2, <1>4, <2>2 DEF Contract!ContractNext
<1> QED
  BY <1>1, <1>4, <1>5, StatelessStutters

LEMMA InitializedImplements ==
  ASSUME Inv, Promises, NEW c \in Callers, Initialized(c)
  PROVE  Promises' /\ [Contract!ContractNext]_(Contract!contractVars)
<1>1. /\ owner = c /\ phase = "building" /\ call[c] = "join"
      /\ UNCHANGED <<kind, stored, putLost, writes>>
  BY DEF Initialized, storeVars, bounds
<1>2. CASE Stateful
  <2>1. UNCHANGED <<call, owner, instance, status, value, dirty, conn, view>>
    BY <1>2 DEF Initialized, compVars, peerVars
  <2>2. OnlyLeave /\ Seeded'
    BY <1>1, <2>1 DEF OnlyLeave, Promises, Joiners, Seeded, Stateful
  <2> QED
    BY <1>1, <2>1, <2>2, QuietImplements DEF Promises, SavedFirst, CurrentState
<1>3. CASE ~Stateful
  <2>1. Admit(c, Building) /\ Building \in Ids
    BY <1>1, <1>3, BuildingOne DEF Initialized, Constructing
  <2>2. Joiners' /\ \A d \in Conns : view'[d].value <= writes
    BY <1>1, <2>1, AdmitPromises
  <2>3. Promises'
    BY <1>1, <1>3, <2>2 DEF Promises, SavedFirst, Newest, Seeded, Stateful
  <2> QED
    BY <1>1, <1>3, <2>3, StatelessStutters
<1> QED
  BY <1>2, <1>3

\* The first component of an object: its state is stored, and its first peer is sent it.
LEMMA PersistedImplements ==
  ASSUME Inv, Promises, NEW c \in Callers, Persisted(c)
  PROVE  Promises' /\ [Contract!ContractNext]_(Contract!contractVars)
<1>1. /\ owner = c /\ phase = "persisting" /\ stored' = value[Building]
      /\ Publish(Building) /\ Admit(c, Building)
      /\ UNCHANGED <<kind, putLost, writes>>
  BY DEF Persisted, bounds
<1>2. Stateful /\ stored = -1 /\ call[owner] = "join" /\ value[Building] \in 0..MaxWrites
  BY <1>1, PersistsFirst
<1>3. /\ Building \in Ids /\ status[Building] = "building" /\ instance = 0
      /\ \A k \in Ids : status[k] = "building" => k = Building
  BY <1>1, BuildingOne DEF Constructing
<1>4. /\ c \in Conns /\ Joiners' /\ conn[c] = "joining" /\ conn'[c] = "open"
      /\ \A d \in Conns : view'[d].value <= writes
      /\ view'[c].value = value[Building]
      /\ \A d \in Conns \ {c} : conn'[d] = conn[d] /\ view'[d] = view[d]
  BY <1>1, <1>2, <1>3, AdmitPromises
<1>5. /\ instance' = Building /\ UNCHANGED <<value, dirty>>
      /\ status' = [status EXCEPT ![Building] = "published"]
  BY <1>1 DEF Publish
<1>6. value[Building] = Seed
  BY <1>2, <1>3 DEF Promises, Seeded
<1>7. Stateful' = Stateful /\ Building # 0
  BY <1>1, <1>3 DEF Stateful, Ids
<1>8. Promises'
  <2>1. SavedFirst'
    BY <1>1, <1>6 DEF SavedFirst, Seed
  <2>2. Newest'
    BY <1>1, <1>4, <1>5, <1>7 DEF Promises, Newest
  <2>3. Seeded'
    BY <1>3, <1>5 DEF Seeded, Inv, TypeOK
  <2> QED
    BY <1>4, <2>1, <2>2, <2>3 DEF Promises
<1>9. Contract!Begin(c)
  <2>1. CurrentState' = Seed
    BY <1>5, <1>6, <1>7 DEF CurrentState
  <2> QED
    BY <1>1, <1>2, <1>4, <1>6, <1>7, <2>1, AdmitShows DEF Contract!Begin, Contract!Exists, Contract!Nothing
<1> QED
  BY <1>4, <1>8, <1>9 DEF Contract!ContractNext

LEMMA WriteImplements ==
  ASSUME Inv, Promises, NEW c \in Conns, Write(c)
  PROVE  Promises' /\ [Contract!ContractNext]_(Contract!contractVars)
<1> DEFINE k == act[c].on
<1>1. /\ act[c].at # "none" /\ writes' = writes + 1
      /\ value' = [value EXCEPT ![k] = writes'] /\ dirty' = [dirty EXCEPT ![k] = TRUE]
      /\ UNCHANGED <<kind, call, owner, instance, status, stored, putLost, conn, view>>
  BY DEF Write, lockVars, storeVars, peerVars
<1>2. /\ value \in [Ids -> 0..MaxWrites] /\ dirty \in [Ids -> BOOLEAN] /\ writes \in Int
      /\ view \in [Conns -> [from : Ids \union {0}, value : 0..MaxWrites]]
      /\ instance \in Ids \union {0}
  BY DEF Inv, TypeOK, Forward
<1>3. Stateful => k = instance /\ instance # 0 /\ k \in Ids
  BY <1>1, <1>2 DEF Inv, Storage
<1> HIDE DEF k
<1>4. Stateful' = Stateful
  BY <1>1 DEF Stateful
<1>5. ASSUME NEW d \in Conns PROVE view[d].value < writes'
  <2>1. view[d].value <= writes /\ view[d].value \in Int
    BY <1>2 DEF Promises, Newest
  <2> QED
    BY <1>1, <1>2, <2>1
<1>6. ASSUME Stateful, NEW j \in Ids, dirty'[j] PROVE value'[j] = writes'
  <2>1. j = k
    BY <1>1, <1>2, <1>3, <1>6 DEF Inv, Storage
  <2> QED
    BY <1>1, <1>2, <2>1
<1>7. Seeded'
  <2>1. ASSUME Stateful, NEW j \in Ids, status[j] = "building" PROVE FALSE
    BY <1>3, <2>1 DEF Inv, Lives, Constructing
  <2> QED
    BY <1>1, <1>4, <2>1 DEF Seeded
<1>8. Promises'
  <2>1. \A d \in Conns : view'[d].value <= writes'
    <3>1. \A d \in Conns : view[d].value \in Int
      BY <1>2
    <3> QED
      BY <1>1, <1>2, <1>5, <3>1
  <2>2. Newest'
    BY <1>4, <1>6, <2>1 DEF Newest
  <2>3. SavedFirst' /\ Joiners'
    BY <1>1, <1>4 DEF Promises, SavedFirst, Joiners
  <2> QED
    BY <1>7, <2>2, <2>3 DEF Promises
<1>9. CASE Stateful
  <2>1. CurrentState' = writes' /\ CurrentState = value[instance] /\ value[instance] \in Int
    BY <1>1, <1>2, <1>3, <1>9 DEF CurrentState
  <2>2. value[instance] < writes'
    <3>1. value[instance] <= writes
      BY <1>3, <1>9 DEF Inv, Forward
    <3> QED
      BY <1>1, <1>2, <2>1, <3>1
  <2>3. stored # -1
    BY <1>3, <1>9 DEF Promises, SavedFirst
  <2>4. \A p \in Conns : (IF Stateful /\ conn[p] = "open" THEN view[p].value ELSE -1) < writes'
    <3>1. -1 < writes'
      BY <1>1, <1>2 DEF Inv, Forward
    <3> QED
      BY <1>5, <3>1
  <2>5. UNCHANGED [p \in Conns |-> IF Stateful /\ conn[p] = "open" THEN view[p].value ELSE -1]
    BY <1>1, <1>4
  <2>6. Contract!Change
    BY <1>1, <1>2, <1>4, <1>9, <2>1, <2>2, <2>3, <2>4, <2>5 DEF Contract!Change, Contract!Exists, Contract!Nothing
  <2> QED
    BY <1>8, <2>6 DEF Contract!ContractNext
<1> QED
  BY <1>1, <1>8, <1>9, StatelessStutters

LEMMA FlushImplements ==
  ASSUME Inv, Promises, NEW k \in Ids, Flush(k)
  PROVE  Promises' /\ [Contract!ContractNext]_(Contract!contractVars)
<1>1. /\ dirty[k] /\ dirty' = [dirty EXCEPT ![k] = FALSE]
      /\ view' = [c \in Conns |-> IF conn[c] = "open" THEN [from |-> k, value |-> value[k]] ELSE view[c]]
      /\ UNCHANGED <<kind, call, owner, instance, status, value, stored, putLost, conn, writes>>
  BY DEF Flush, lockVars, bounds
<1>2. /\ value[k] <= writes /\ Stateful' = Stateful
      /\ dirty \in [Ids -> BOOLEAN] /\ value \in [Ids -> 0..MaxWrites]
      /\ view \in [Conns -> [from : Ids \union {0}, value : 0..MaxWrites]]
  BY <1>1 DEF Inv, Forward, Stateful, TypeOK
<1>3. \A c \in Conns : view'[c].value = IF conn[c] = "open" THEN value[k] ELSE view[c].value
  BY <1>1
<1>4. Promises'
  <2>1. Newest'
    BY <1>1, <1>2, <1>3 DEF Promises, Newest
  <2> QED
    BY <1>1, <1>2, <2>1 DEF Promises, SavedFirst, Seeded, Joiners
<1>5. CASE Stateful
  <2> DEFINE shown == [c \in Conns |-> IF Stateful /\ conn[c] = "open" THEN view[c].value ELSE -1]
  <2>1. CurrentState = value[k] /\ CurrentState' = CurrentState /\ value[k] = writes
    BY <1>1, <1>5 DEF Inv, Storage, CurrentState, Promises, Newest, Ids
  <2>2. value[k] \in 0..MaxWrites
    BY <1>2
  <2>3. \A c \in Conns : shown[c] <= CurrentState
    BY <1>5, <2>1, <2>2 DEF Promises, Newest
  <2>4. \A c \in Conns : shown[c] = -1 <=> conn[c] # "open"
    BY <1>2, <1>5
  <2>5. shown' = [c \in Conns |-> IF conn[c] = "open" THEN CurrentState ELSE -1]
    BY <1>1, <1>2, <1>3, <1>5, <2>1
  <2> HIDE DEF shown
  <2>6. shown' = [c \in Conns |-> IF shown[c] = -1 THEN -1 ELSE CurrentState]
    BY <2>4, <2>5
  <2>7. Contract!Announce
    BY <1>1, <1>2, <1>5, <2>1, <2>3, <2>6 DEF Contract!Announce, Contract!Nothing, shown
  <2> QED
    BY <1>4, <2>7 DEF Contract!ContractNext
<1> QED
  BY <1>1, <1>4, <1>5, StatelessStutters

LEMMA PutDoneImplements ==
  ASSUME Inv, Promises, PutDone
  PROVE  Promises' /\ [Contract!ContractNext]_(Contract!contractVars)
<1>1. /\ puts # <<>>
      /\ (stored' = Head(puts) /\ putLost' = FALSE) \/ (stored' = stored /\ putLost' = TRUE)
      /\ UNCHANGED <<kind, call, owner, instance, status, value, dirty, conn, view, writes>>
  BY DEF PutDone, lockVars, compVars, peerVars
<1>2. Stateful /\ instance # 0 /\ instance \in Ids /\ Stateful' = Stateful
  BY <1>1 DEF Inv, Storage, Stateful, TypeOK
<1>3. /\ Head(puts) = puts[1] /\ 1 \in 1..Len(puts) /\ puts[1] \in 0..MaxWrites
      /\ stored \in Int /\ value[instance] \in Int
  BY <1>1, <1>2, PutsTypes, EmptySeq
<1>4. stored <= puts[1] /\ puts[1] <= value[instance]
  BY <1>2, <1>3 DEF Inv, Forward
<1>5. Promises'
  <2>1. SavedFirst'
    BY <1>1, <1>2, <1>3 DEF SavedFirst, Promises
  <2>2. Newest' /\ Seeded'
    BY <1>1, <1>2 DEF Promises, Newest, Seeded
  <2>3. Joiners'
    BY <1>1 DEF Promises, Joiners
  <2> QED
    BY <2>1, <2>2, <2>3 DEF Promises
<1>6. CurrentState = value[instance] /\ CurrentState' = CurrentState
  BY <1>1, <1>2 DEF CurrentState
<1>7. Contract!Save
  <2>1. UNCHANGED [c \in Conns |-> IF Stateful /\ conn[c] = "open" THEN view[c].value ELSE -1]
    BY <1>1, <1>2
  <2> QED
    BY <1>1, <1>2, <1>3, <1>4, <1>6, <2>1 DEF Contract!Save
<1> QED
  BY <1>5, <1>7 DEF Contract!ContractNext

\* Leaving memory, the object falls back to what is stored.
LEMMA StoppedPromises ==
  ASSUME Inv, Promises, MemoryLost, Joiners'
  PROVE  Promises' /\ CurrentState' = stored /\ stored' = stored
<1>1. /\ instance' = 0 /\ UNCHANGED <<kind, stored, view, writes>>
      /\ \A k \in Ids : ~dirty'[k] /\ status'[k] # "building"
  BY LostComponents
<1>2. SavedFirst' /\ Newest' /\ Seeded'
  BY <1>1 DEF Promises, SavedFirst, Newest, Seeded
<1> QED
  BY <1>1, <1>2 DEF Promises, CurrentState

LEMMA HibernateImplements ==
  ASSUME Inv, Promises, Hibernate
  PROVE  Promises' /\ [Contract!ContractNext]_(Contract!contractVars)
<1>1. /\ MemoryLost /\ instance # 0 /\ puts = <<>> /\ \A k \in Ids : ~dirty[k]
      /\ UNCHANGED <<call, conn, putLost>>
  BY DEF Hibernate
<1>2. UNCHANGED <<kind, stored, view, writes>>
  BY <1>1, LostComponents
<1>3. Joiners' /\ Stateful' = Stateful
  BY <1>1, <1>2 DEF Promises, Joiners, Stateful
<1>4. Promises' /\ CurrentState' = stored
  BY <1>1, <1>3, StoppedPromises
<1>5. CASE Stateful /\ ~putLost
  <2>1. CurrentState = stored
    BY <1>1, <1>5 DEF Inv, TypeOK, StoredIsCurrent, CurrentState
  <2>2. UNCHANGED Contract!contractVars
    BY <1>1, <1>2, <1>3, <1>4, <2>1 DEF Contract!contractVars
  <2> QED
    BY <1>4, <2>2
<1>6. CASE Stateful /\ putLost
  <2>1. Contract!Forget
    BY <1>1, <1>2, <1>3, <1>4, <1>6 DEF Contract!Forget
  <2> QED
    BY <1>4, <2>1 DEF Contract!ContractNext
<1> QED
  BY <1>2, <1>4, <1>5, <1>6, StatelessStutters

LEMMA RestartImplements ==
  ASSUME Inv, Promises, Restart
  PROVE  Promises' /\ [Contract!ContractNext]_(Contract!contractVars)
<1>1. /\ MemoryLost
      /\ conn' = [c \in Conns |-> IF conn[c] = "new" THEN "new" ELSE "gone"]
      /\ call' = [c \in Callers |-> "none"]
      /\ putLost' = (putLost \/ puts # <<>>)
  BY DEF Restart
<1>2. UNCHANGED <<kind, stored, view, writes>>
  BY <1>1, LostComponents
<1>3. Joiners' /\ Stateful' = Stateful /\ \A c \in Conns : conn'[c] # "open"
  BY <1>1, <1>2 DEF Joiners, Joins, Callers, Stateful
<1>4. Promises' /\ CurrentState' = stored
  BY <1>1, <1>3, StoppedPromises
<1>5. CASE Stateful
  <2>1. (Stateful /\ putLost)' \in {(Stateful /\ putLost), TRUE}
    <3>1. putLost' = putLost \/ putLost' = TRUE
      BY <1>1 DEF Inv, TypeOK
    <3>2. (Stateful /\ putLost)' = (Stateful /\ putLost) \/ (Stateful /\ putLost)' = TRUE
      BY <1>3, <1>5, <3>1
    <3> QED
      BY <3>2
  <2>2. [c \in Conns |-> IF Stateful /\ conn[c] = "open" THEN view[c].value ELSE -1]' = [c \in Conns |-> -1]
    BY <1>3
  <2>3. Contract!Restart
    BY <1>2, <1>3, <1>4, <1>5, <2>1, <2>2 DEF Contract!Restart, Contract!Nothing
  <2> QED
    BY <1>4, <2>3 DEF Contract!ContractNext
<1> QED
  BY <1>2, <1>4, <1>5, StatelessStutters

-----------------------------------------------------------------------------
(* The refinement *)

LEMMA ContractInitially == Init => Promises /\ Contract!ContractInit
<1> SUFFICES ASSUME Init PROVE Promises /\ Contract!ContractInit
  OBVIOUS
<1>1. /\ conn = [c \in Conns |-> "new"] /\ call = [c \in Callers |-> "none"]
      /\ instance = 0 /\ status = [k \in Ids |-> "none"]
      /\ dirty = [k \in Ids |-> FALSE] /\ stored = -1 /\ putLost = FALSE
      /\ view = [c \in Conns |-> Unseen] /\ writes = 0
  BY DEF Init
<1>2. SavedFirst /\ Newest /\ Seeded
  BY <1>1 DEF SavedFirst, Newest, Seeded, Unseen
<1>3. Joiners
  BY <1>1 DEF Joiners, Joins, Callers
<1>4. Contract!ContractInit
  BY <1>1 DEF Contract!ContractInit, Contract!Nothing, CurrentState
<1> QED
  BY <1>2, <1>3, <1>4 DEF Promises

LEMMA StepImplements ==
  ASSUME Inv, Promises, [Next]_vars
  PROVE  Promises' /\ [Contract!ContractNext]_(Contract!contractVars)
<1>1. CASE UNCHANGED vars
  <2>1. /\ UNCHANGED <<kind, compVars, storeVars, view, bounds>>
        /\ UNCHANGED <<call, conn, owner, status, value>>
    BY <1>1 DEF vars, peerVars, compVars, lockVars
  <2>2. OnlyLeave /\ Seeded'
    BY <2>1 DEF OnlyLeave, Promises, Joiners, Seeded, Stateful
  <2> QED
    BY <2>1, <2>2, RequestImplements
<1>2. ASSUME NEW c \in Callers, Operation(c)
      PROVE  Promises' /\ [Contract!ContractNext]_(Contract!contractVars)
  BY <1>2, NothingToRestoreImplements, RestoreImplements, RestoredImplements, DiscardImplements,
     CreateFreshImplements, JoinLiveImplements, InitializedImplements, PersistedImplements DEF Operation
<1>3. CASE BuildFails
  BY <1>3, BuildFailsImplements
<1>4. ASSUME NEW c \in Conns,
             Connect(c) \/ Message(c) \/ StartAction(c) \/ Write(c) \/ EndAction(c) \/ Close(c)
      PROVE  Promises' /\ [Contract!ContractNext]_(Contract!contractVars)
  BY <1>4, ConnectImplements, MessageImplements, ActionImplements, WriteImplements
<1>5. ASSUME NEW r \in Readers, Read(r)
      PROVE  Promises' /\ [Contract!ContractNext]_(Contract!contractVars)
  BY <1>5, ReadImplements
<1>6. ASSUME NEW k \in Ids, Flush(k)
      PROVE  Promises' /\ [Contract!ContractNext]_(Contract!contractVars)
  BY <1>6, FlushImplements
<1>7. CASE PutDone \/ Hibernate \/ Restart
  BY <1>7, PutDoneImplements, HibernateImplements, RestartImplements
<1> QED
  BY <1>1, <1>2, <1>3, <1>4, <1>5, <1>6, <1>7 DEF Next

\* The host of a stateful component implements StateContract: joins, restorations, writes,
\* broadcasts, puts, hibernation and restarts only take its steps, so that an object starts
\* from what init() left, saves in order, and never sends a connected peer an older state.
THEOREM Implementation == Spec => ImplementsStateContract
<1>1. Init => Promises /\ Contract!ContractInit
  BY ContractInitially
<1>2. Inv /\ Promises /\ [Next]_vars => Promises' /\ [Contract!ContractNext]_(Contract!contractVars)
  BY StepImplements
<1> QED
  BY <1>1, <1>2, Invariance, PTL DEF Spec, ImplementsStateContract, Contract!ContractSpec

=============================================================================
