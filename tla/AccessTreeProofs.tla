------------------------ MODULE AccessTreeProofs ------------------------
(***************************************************************************)
(* Safety of RenderSync and of AccessTree, for a screen of any size, any   *)
(* texts, any scroll offsets and any bounds.                               *)
(*                                                                         *)
(* The first part is about RenderSync (Spec, Next), the second about the   *)
(* view and the reader with it (ASpec).  A behaviour of ASpec is one of    *)
(* Spec (TakesPart), so what the first part proves holds in the second.    *)
(***************************************************************************)
EXTENDS AccessTree, FiniteSetTheorems, FunctionTheorems, SequenceTheorems, TLAPS

-----------------------------------------------------------------------------
\* RenderSync.

IsUpdate(m) == m.type = "RenderUpdate"
Carries(m, r) == IsUpdate(m) /\ r \in DOMAIN m.rows

\* A row of copy m holds text once the updates in q are applied ...
HoldsAfter(q, m, r, text) ==
    \/ \E i \in DOMAIN q :
         /\ Carries(q[i], r) /\ q[i].rows[r] = text
         /\ \A j \in DOMAIN q : j > i => ~ Carries(q[j], r)
    \/ /\ m[r] = text
       /\ \A i \in DOMAIN q : ~ Carries(q[i], r)

\* ... and the copy, now at a place, stands at another.
StandsAfter(q, at, place) ==
    \/ \E i \in DOMAIN q :
         /\ IsUpdate(q[i]) /\ q[i].place = place
         /\ \A j \in DOMAIN q : j > i => ~ IsUpdate(q[j])
    \/ /\ at = place
       /\ \A i \in DOMAIN q : ~ IsUpdate(q[i])

Updates(q) == {i \in DOMAIN q : q[i] # Notify}
HasUpdate(q) == \E i \in DOMAIN q : IsUpdate(q[i])
HasNotify(q) == \E i \in DOMAIN q : q[i] = Notify

\* A place is of the past at epoch e, and of that epoch only if the client
\* will stand at or after it.
Behind(place, standing, e) ==
    /\ place.epoch <= e
    /\ place.epoch = e => standing.epoch = e /\ place.seqno <= standing.seqno

PlacesOf(q, standing, e) ==
    \A i \in DOMAIN q : IsUpdate(q[i]) => Behind(q[i].place, standing, e)

Shows == grids[active]

\* Every place that a request may name.
PlacesBehind(standing) ==
    /\ Behind(since, standing, epoch)
    /\ \A i \in DOMAIN toDaemon : Behind(toDaemon[i], standing, epoch)
    /\ PlacesOf(toClient, standing, epoch)

\* The rows that no later change has stamped will be as the screen has them.
RowsFollow(standing) ==
    ~ missed /\ standing.epoch = epoch =>
      \A r \in Rows :
        Shows.stamp[r] <= standing.seqno
          => HoldsAfter(toClient, mirror, r, Shows.text[r])

\* What the client will still lack, it is being told of or has asked for.
Current(standing) ==
    standing.epoch = epoch /\ \A r \in Rows : Shows.stamp[r] <= standing.seqno

UnderWay ==
    unseen \/ HasNotify(toClient) \/ toDaemon # <<>> \/ (pending /\ HasUpdate(toClient))

\* Where the client will stand once what is on its way has been applied.
StandsAt(standing) ==
    /\ StandsAfter(toClient, since, standing)
    /\ standing.epoch = epoch => standing.seqno <= Shows.seqno
    /\ PlacesBehind(standing)
    /\ RowsFollow(standing)
    /\ Current(standing) \/ UnderWay

Standing == \E standing \in Places : StandsAt(standing)

\* One request or answer is outstanding while one is in flight, but for those
\* of the refreshes.
Outstanding ==
    /\ pending => inFlight
    /\ inFlight => toDaemon # <<>> \/ HasUpdate(toClient)
    /\ Len(toDaemon) + Cardinality(Updates(toClient))
         <= refreshes + IF inFlight THEN 1 ELSE 0

\* The inductive invariant.
IInv == TypeOK /\ Standing /\ Outstanding

-----------------------------------------------------------------------------
\* Queues.

LEMMA AppendItems ==
  ASSUME NEW S, NEW q \in Seq(S), NEW m \in S
  PROVE  /\ Append(q, m) \in Seq(S)
         /\ Append(q, m) # <<>>
         /\ Len(Append(q, m)) = Len(q) + 1
         /\ Len(q) \in Nat
         /\ DOMAIN q = 1 .. Len(q)
         /\ DOMAIN Append(q, m) = 1 .. (Len(q) + 1)
         /\ \A i \in DOMAIN q : Append(q, m)[i] = q[i]
         /\ Append(q, m)[Len(q) + 1] = m
OBVIOUS

LEMMA TailItems ==
  ASSUME NEW S, NEW q \in Seq(S), q # <<>>
  PROVE  /\ Tail(q) \in Seq(S)
         /\ Head(q) = q[1]
         /\ Head(q) \in S
         /\ Len(q) \in Nat \ {0}
         /\ Len(Tail(q)) = Len(q) - 1
         /\ DOMAIN q = 1 .. Len(q)
         /\ DOMAIN Tail(q) = 1 .. (Len(q) - 1)
         /\ \A i \in 1 .. (Len(q) - 1) : Tail(q)[i] = q[i + 1]
OBVIOUS

LEMMA MessageKinds ==
  /\ ~ IsUpdate(Notify)
  /\ \A m \in Messages : m = Notify \/ IsUpdate(m)
BY DEF IsUpdate, Notify, Messages

\* Each item of a queue is its first or one of its tail's.
LEMMA ItemOfTail ==
  ASSUME NEW q \in Seq(Messages), q # <<>>, NEW i \in DOMAIN q
  PROVE  i = 1 \/ (i - 1 \in DOMAIN Tail(q) /\ Tail(q)[i - 1] = q[i])
BY TailItems

LEMMA ItemOfQueue ==
  ASSUME NEW q \in Seq(Messages), q # <<>>, NEW i \in DOMAIN Tail(q)
  PROVE  i \in Nat /\ i + 1 \in DOMAIN q /\ q[i + 1] = Tail(q)[i] /\ i + 1 > 1
BY TailItems

\* A message that does not carry the row, put at the end, changes nothing for
\* it; one that does decides it.
LEMMA HoldsAppend ==
  ASSUME NEW q \in Seq(Messages), NEW u \in Messages, NEW m, NEW r, NEW text,
         IF Carries(u, r) THEN u.rows[r] = text ELSE HoldsAfter(q, m, r, text)
  PROVE  HoldsAfter(Append(q, u), m, r, text)
<1> DEFINE p == Append(q, u)
<1>1. /\ DOMAIN p = 1 .. (Len(q) + 1) /\ DOMAIN q = 1 .. Len(q)
      /\ Len(q) \in Nat
      /\ \A i \in DOMAIN q : p[i] = q[i]
      /\ p[Len(q) + 1] = u
  BY AppendItems
<1> HIDE DEF p
<1>2. CASE Carries(u, r)
  BY <1>1, <1>2 DEF HoldsAfter
<1>3. CASE ~ Carries(u, r)
  <2>1. ASSUME NEW i \in DOMAIN p, NEW k \in DOMAIN q, i > k,
               \A j \in DOMAIN q : j > k => ~ Carries(q[j], r)
        PROVE  ~ Carries(p[i], r)
    BY <1>1, <1>3, <2>1
  <2>2. ASSUME NEW i \in DOMAIN p, \A j \in DOMAIN q : ~ Carries(q[j], r)
        PROVE  ~ Carries(p[i], r)
    BY <1>1, <1>3, <2>2
  <2> QED BY <1>1, <1>3, <2>1, <2>2 DEF HoldsAfter
<1> QED BY <1>2, <1>3 DEF p

\* Applying the first update now or later comes to the same.
LEMMA HoldsTail ==
  ASSUME NEW q \in Seq(Messages), q # <<>>, NEW m, NEW n, NEW r, NEW text,
         HoldsAfter(q, m, r, text),
         n[r] = IF Carries(Head(q), r) THEN Head(q).rows[r] ELSE m[r]
  PROVE  HoldsAfter(Tail(q), n, r, text)
<1>1. Head(q) = q[1] /\ 1 \in DOMAIN q
  BY TailItems
<1>2. CASE \A i \in DOMAIN q : ~ Carries(q[i], r)
  BY <1>1, <1>2, ItemOfQueue DEF HoldsAfter
<1>3. CASE \E i \in DOMAIN q : Carries(q[i], r)
  <2>1. PICK i \in DOMAIN q :
             /\ Carries(q[i], r) /\ q[i].rows[r] = text
             /\ \A j \in DOMAIN q : j > i => ~ Carries(q[j], r)
    BY <1>3 DEF HoldsAfter
  <2>2. CASE i = 1
    <3>1. \A j \in DOMAIN Tail(q) : ~ Carries(Tail(q)[j], r)
      BY <2>1, <2>2, ItemOfQueue
    <3> QED BY <1>1, <2>1, <2>2, <3>1 DEF HoldsAfter
  <2>3. CASE i # 1
    <3>1. i - 1 \in DOMAIN Tail(q) /\ Tail(q)[i - 1] = q[i] /\ i \in Nat
      BY <2>3, ItemOfTail, TailItems
    <3>2. PICK k \in Nat : k = i - 1
      BY <2>3, TailItems
    <3>3. \A j \in DOMAIN Tail(q) : j > k => ~ Carries(Tail(q)[j], r)
      BY <2>1, <3>1, <3>2, ItemOfQueue
    <3>4. k \in DOMAIN Tail(q) /\ Carries(Tail(q)[k], r) /\ Tail(q)[k].rows[r] = text
      BY <2>1, <3>1, <3>2
    <3> QED BY <3>3, <3>4 DEF HoldsAfter
  <2> QED BY <2>2, <2>3
<1> QED BY <1>2, <1>3

LEMMA StandsAppend ==
  ASSUME NEW q \in Seq(Messages), NEW u \in Messages, NEW at, NEW place,
         IF IsUpdate(u) THEN u.place = place ELSE StandsAfter(q, at, place)
  PROVE  StandsAfter(Append(q, u), at, place)
<1> DEFINE p == Append(q, u)
<1>1. /\ DOMAIN p = 1 .. (Len(q) + 1) /\ DOMAIN q = 1 .. Len(q)
      /\ Len(q) \in Nat
      /\ \A i \in DOMAIN q : p[i] = q[i]
      /\ p[Len(q) + 1] = u
  BY AppendItems
<1> HIDE DEF p
<1>2. CASE IsUpdate(u)
  BY <1>1, <1>2 DEF StandsAfter
<1>3. CASE ~ IsUpdate(u)
  <2>1. ASSUME NEW i \in DOMAIN p, NEW k \in DOMAIN q, i > k,
               \A j \in DOMAIN q : j > k => ~ IsUpdate(q[j])
        PROVE  ~ IsUpdate(p[i])
    BY <1>1, <1>3, <2>1
  <2>2. ASSUME NEW i \in DOMAIN p, \A j \in DOMAIN q : ~ IsUpdate(q[j])
        PROVE  ~ IsUpdate(p[i])
    BY <1>1, <1>3, <2>2
  <2> QED BY <1>1, <1>3, <2>1, <2>2 DEF StandsAfter
<1> QED BY <1>2, <1>3 DEF p

LEMMA StandsTail ==
  ASSUME NEW q \in Seq(Messages), q # <<>>, NEW at, NEW place,
         StandsAfter(q, at, place)
  PROVE  StandsAfter(Tail(q), IF IsUpdate(Head(q)) THEN Head(q).place ELSE at, place)
<1> DEFINE now == IF IsUpdate(Head(q)) THEN Head(q).place ELSE at
<1>1. Head(q) = q[1] /\ 1 \in DOMAIN q
  BY TailItems
<1>2. CASE \A i \in DOMAIN q : ~ IsUpdate(q[i])
  BY <1>1, <1>2, ItemOfQueue DEF StandsAfter
<1>3. CASE \E i \in DOMAIN q : IsUpdate(q[i])
  <2>1. PICK i \in DOMAIN q :
             /\ IsUpdate(q[i]) /\ q[i].place = place
             /\ \A j \in DOMAIN q : j > i => ~ IsUpdate(q[j])
    BY <1>3 DEF StandsAfter
  <2>2. CASE i = 1
    <3>1. \A j \in DOMAIN Tail(q) : ~ IsUpdate(Tail(q)[j])
      BY <2>1, <2>2, ItemOfQueue
    <3> QED BY <1>1, <2>1, <2>2, <3>1 DEF StandsAfter
  <2>3. CASE i # 1
    <3>1. i - 1 \in DOMAIN Tail(q) /\ Tail(q)[i - 1] = q[i] /\ i \in Nat
      BY <2>3, ItemOfTail, TailItems
    <3>2. PICK k \in Nat : k = i - 1
      BY <2>3, TailItems
    <3>3. \A j \in DOMAIN Tail(q) : j > k => ~ IsUpdate(Tail(q)[j])
      BY <2>1, <3>1, <3>2, ItemOfQueue
    <3>4. k \in DOMAIN Tail(q) /\ IsUpdate(Tail(q)[k]) /\ Tail(q)[k].place = place
      BY <2>1, <3>1, <3>2
    <3> HIDE DEF now
    <3> QED BY <3>3, <3>4 DEF StandsAfter
  <2> QED BY <2>2, <2>3
<1> QED BY <1>2, <1>3

-----------------------------------------------------------------------------
\* Counting the updates of a queue.

LEMMA UpdatesFinite ==
  ASSUME NEW q \in Seq(Messages)
  PROVE  IsFiniteSet(Updates(q)) /\ Cardinality(Updates(q)) \in Nat
<1>1. DOMAIN q = 1 .. Len(q) /\ Len(q) \in Nat
  OBVIOUS
<1>2. IsFiniteSet(1 .. Len(q))
  BY <1>1, FS_Interval
<1>3. Updates(q) \in SUBSET (1 .. Len(q))
  BY <1>1 DEF Updates
<1>4. IsFiniteSet(Updates(q))
  BY <1>2, <1>3, FS_Subset
<1> QED BY <1>4, FS_CardinalityType

LEMMA UpdatesEmpty ==
  Cardinality(Updates(<<>>)) = 0
<1>1. Updates(<<>>) = {}
  BY DEF Updates
<1> QED BY <1>1, FS_EmptySet

LEMMA UpdatesAppend ==
  ASSUME NEW q \in Seq(Messages), NEW u \in Messages
  PROVE  Cardinality(Updates(Append(q, u))) =
           Cardinality(Updates(q)) + IF u = Notify THEN 0 ELSE 1
<1> DEFINE p == Append(q, u)
<1>1. /\ DOMAIN p = 1 .. (Len(q) + 1) /\ DOMAIN q = 1 .. Len(q)
      /\ Len(q) \in Nat
      /\ \A i \in DOMAIN q : p[i] = q[i]
      /\ p[Len(q) + 1] = u
  BY AppendItems
<1> HIDE DEF p
<1>2. CASE u = Notify
  <2>1. Updates(p) = Updates(q)
    BY <1>1, <1>2 DEF Updates
  <2> QED BY <1>2, <2>1, UpdatesFinite DEF p
<1>3. CASE u # Notify
  <2>1. Updates(p) = Updates(q) \cup {Len(q) + 1} /\ Len(q) + 1 \notin Updates(q)
    BY <1>1, <1>3 DEF Updates
  <2>2. Cardinality(Updates(q) \cup {Len(q) + 1}) = Cardinality(Updates(q)) + 1
    BY <2>1, UpdatesFinite, FS_AddElement
  <2> QED BY <1>3, <2>1, <2>2 DEF p
<1> QED BY <1>2, <1>3

LEMMA UpdatesTail ==
  ASSUME NEW q \in Seq(Messages), q # <<>>
  PROVE  Cardinality(Updates(q)) =
           Cardinality(Updates(Tail(q))) + IF Head(q) = Notify THEN 0 ELSE 1
<1> DEFINE rest == Updates(q) \ {1}
           next == [i \in Updates(Tail(q)) |-> i + 1]
<1>1. /\ Tail(q) \in Seq(Messages) /\ Head(q) = q[1] /\ 1 \in DOMAIN q
      /\ DOMAIN q = 1 .. Len(q) /\ Len(q) \in Nat
      /\ DOMAIN Tail(q) = 1 .. (Len(q) - 1)
      /\ \A i \in DOMAIN Tail(q) : Tail(q)[i] = q[i + 1]
  BY TailItems
<1>2. next \in Bijection(Updates(Tail(q)), rest)
  <2>1. next \in [Updates(Tail(q)) -> rest]
    BY <1>1 DEF Updates
  <2>2. \A i, j \in Updates(Tail(q)) : next[i] = next[j] => i = j
    BY <1>1 DEF Updates
  <2>3. \A k \in rest : \E i \in Updates(Tail(q)) : next[i] = k
    <3> TAKE k \in rest
    <3>1. k - 1 \in Updates(Tail(q))
      BY <1>1 DEF Updates
    <3>2. next[k - 1] = k
      BY <1>1, <3>1 DEF Updates
    <3> QED BY <3>1, <3>2
  <2> QED BY <2>1, <2>2, <2>3, Fun_IsBij
<1>3. Cardinality(rest) = Cardinality(Updates(Tail(q)))
  BY <1>1, <1>2, UpdatesFinite, FS_Bijection DEF ExistsBijection
<1>4. Cardinality(rest) =
        IF 1 \in Updates(q) THEN Cardinality(Updates(q)) - 1 ELSE Cardinality(Updates(q))
  BY UpdatesFinite, FS_RemoveElement
<1>5. 1 \in Updates(q) <=> Head(q) # Notify
  BY <1>1 DEF Updates
<1>6. Cardinality(Updates(q)) \in Nat
  BY UpdatesFinite
<1> QED BY <1>3, <1>4, <1>5, <1>6

-----------------------------------------------------------------------------
\* What a queue holds.

LEMMA HasAppend ==
  ASSUME NEW q \in Seq(Messages), NEW u \in Messages
  PROVE  /\ HasUpdate(Append(q, u)) <=> HasUpdate(q) \/ IsUpdate(u)
         /\ HasNotify(Append(q, u)) <=> HasNotify(q) \/ u = Notify
<1> DEFINE p == Append(q, u)
<1>1. /\ DOMAIN p = 1 .. (Len(q) + 1) /\ DOMAIN q = 1 .. Len(q)
      /\ Len(q) \in Nat
      /\ \A i \in DOMAIN q : p[i] = q[i]
      /\ p[Len(q) + 1] = u
  BY AppendItems
<1> HIDE DEF p
<1> QED BY <1>1 DEF HasUpdate, HasNotify, p

LEMMA HasTail ==
  ASSUME NEW q \in Seq(Messages), q # <<>>
  PROVE  /\ HasUpdate(q) <=> HasUpdate(Tail(q)) \/ IsUpdate(Head(q))
         /\ HasNotify(q) <=> HasNotify(Tail(q)) \/ Head(q) = Notify
<1>1. Head(q) = q[1] /\ 1 \in DOMAIN q
  BY TailItems
<1>2. ASSUME NEW i \in DOMAIN Tail(q)
      PROVE  \E k \in DOMAIN q : q[k] = Tail(q)[i]
  BY ItemOfQueue
<1>3. ASSUME NEW i \in DOMAIN q
      PROVE  q[i] = Head(q) \/ \E k \in DOMAIN Tail(q) : Tail(q)[k] = q[i]
  BY <1>1, ItemOfTail
<1>4. HasUpdate(q) <=> HasUpdate(Tail(q)) \/ IsUpdate(Head(q))
  BY <1>1, <1>2, <1>3 DEF HasUpdate
<1>5. HasNotify(q) <=> HasNotify(Tail(q)) \/ Head(q) = Notify
  BY <1>1, <1>2, <1>3 DEF HasNotify
<1> QED BY <1>4, <1>5

LEMMA PlacesAppend ==
  ASSUME NEW q \in Seq(Messages), NEW u \in Messages, NEW standing, NEW e,
         PlacesOf(q, standing, e), IsUpdate(u) => Behind(u.place, standing, e)
  PROVE  PlacesOf(Append(q, u), standing, e)
<1> DEFINE p == Append(q, u)
<1>1. /\ DOMAIN p = 1 .. (Len(q) + 1) /\ DOMAIN q = 1 .. Len(q)
      /\ Len(q) \in Nat
      /\ \A i \in DOMAIN q : p[i] = q[i]
      /\ p[Len(q) + 1] = u
  BY AppendItems
<1> HIDE DEF p
<1>2. \A i \in DOMAIN p : i \in DOMAIN q \/ i = Len(q) + 1
  BY <1>1
<1>3. PlacesOf(p, standing, e)
  BY <1>1, <1>2 DEF PlacesOf
<1> QED BY <1>3 DEF p

LEMMA PlacesTail ==
  ASSUME NEW q \in Seq(Messages), q # <<>>, NEW standing, NEW e,
         PlacesOf(q, standing, e)
  PROVE  /\ PlacesOf(Tail(q), standing, e)
         /\ IsUpdate(Head(q)) => Behind(Head(q).place, standing, e)
<1>1. Head(q) = q[1] /\ 1 \in DOMAIN q
  BY TailItems
<1> QED BY <1>1, ItemOfQueue DEF PlacesOf

-----------------------------------------------------------------------------
\* The terminal.

Stamped(g) == g \in Grids /\ \A r \in Rows : g.stamp[r] <= g.seqno

LEMMA TouchKeeps ==
  ASSUME NEW g, Stamped(g)
  PROVE  /\ \A r \in Rows : Stamped(TouchRow(g, r))
         /\ Stamped(TouchAll(g))
         /\ \A text \in [Rows -> Texts] : Stamped([g EXCEPT !.text = text])
         /\ \A flags \in SUBSET Flags : Stamped([g EXCEPT !.flags = flags])
<1>1. ASSUME NEW r \in Rows
      PROVE  Stamped(TouchRow(g, r))
  <2>1. TouchRow(g, r) \in Grids
    <3>1. g \in Grids /\ g.seqno + 1 \in Nat /\ g.stamp \in [Rows -> Nat]
      BY DEF Stamped, Grids
    <3>2. PICK n \in Nat : n = g.seqno + 1
      BY <3>1
    <3>3. PICK stamp \in [Rows -> Nat] : stamp = [g.stamp EXCEPT ![r] = n]
      BY <3>1
    <3>4. TouchRow(g, r) = [[g EXCEPT !.seqno = n] EXCEPT !.stamp = stamp]
      BY <3>1, <3>2, <3>3 DEF TouchRow, Grids
    <3> QED BY <3>1, <3>4 DEF Grids
  <2>2. /\ TouchRow(g, r).seqno = g.seqno + 1
        /\ \A x \in Rows : TouchRow(g, r).stamp[x] \in {g.stamp[x], g.seqno + 1}
    BY DEF Stamped, Grids, TouchRow
  <2>3. g.seqno \in Nat /\ g.stamp \in [Rows -> Nat]
    BY DEF Stamped, Grids
  <2> QED BY <2>1, <2>2, <2>3 DEF Stamped
<1>2. Stamped(TouchAll(g))
  <2>1. TouchAll(g) \in Grids
    <3>1. g \in Grids /\ g.seqno + 1 \in Nat
      BY DEF Stamped, Grids
    <3>2. PICK n \in Nat : n = g.seqno + 1
      BY <3>1
    <3>3. PICK stamp \in [Rows -> Nat] : stamp = AllRows(n)
      BY DEF AllRows
    <3>4. TouchAll(g) = [[g EXCEPT !.seqno = n] EXCEPT !.stamp = stamp]
      BY <3>1, <3>2, <3>3 DEF TouchAll, Grids
    <3> QED BY <3>1, <3>4 DEF Grids
  <2>2. /\ TouchAll(g).seqno = g.seqno + 1
        /\ \A x \in Rows : TouchAll(g).stamp[x] = g.seqno + 1
    BY DEF Stamped, Grids, TouchAll, AllRows
  <2>3. g.seqno \in Nat
    BY DEF Stamped, Grids
  <2> QED BY <2>1, <2>2, <2>3 DEF Stamped
<1>3. ASSUME NEW text \in [Rows -> Texts]
      PROVE  Stamped([g EXCEPT !.text = text])
  BY DEF Stamped, Grids
<1>4. ASSUME NEW flags \in SUBSET Flags
      PROVE  Stamped([g EXCEPT !.flags = flags])
  BY DEF Stamped, Grids
<1> QED BY <1>1, <1>2, <1>3, <1>4

LEMMA BlankText ==
  AllRows(Blank) \in [Rows -> Texts]
BY BlankAssumption DEF AllRows

LEMMA ClearKeeps ==
  ASSUME NEW g, Stamped(g)
  PROVE  Stamped(ClearGrid(g))
BY BlankText, TouchKeeps DEF ClearGrid

LEMMA FreshStamped ==
  Stamped(FreshGrid)
BY BlankText DEF Stamped, FreshGrid, Grids, AllRows

AllStamped == grids \in [Screens -> Grids] /\ \A s \in Screens : Stamped(grids[s])

\* Every row that h changes of g, h stamps after g's last change.
Follows(h, g) ==
    /\ h.seqno >= g.seqno
    /\ \A r \in Rows :
         h.stamp[r] > g.seqno \/ (h.text[r] = g.text[r] /\ h.stamp[r] = g.stamp[r])

LEMMA TouchFollows ==
  ASSUME NEW g, Stamped(g)
  PROVE  /\ \A r \in Rows, text \in Texts :
              Follows(TouchRow([g EXCEPT !.text[r] = text], r), g)
         /\ \A text \in [Rows -> Texts] :
              Follows(TouchAll([g EXCEPT !.text = text]), g)
<1>1. ASSUME NEW r \in Rows, NEW text \in Texts
      PROVE  Follows(TouchRow([g EXCEPT !.text[r] = text], r), g)
  BY DEF Stamped, Grids, TouchRow, Follows
<1>2. ASSUME NEW text \in [Rows -> Texts]
      PROVE  Follows(TouchAll([g EXCEPT !.text = text]), g)
  BY DEF Stamped, Grids, TouchAll, AllRows, Follows
<1> QED BY <1>1, <1>2

\* What any change of the terminal does to what is shown.
LEMMA TerminalStep ==
  ASSUME AllStamped, active \in Screens, epoch \in Nat, Terminal
  PROVE  /\ AllStamped' /\ active' \in Screens /\ epoch' \in Nat
         /\ \/ epoch' = epoch + 1
            \/ epoch' = epoch /\ Follows(Shows', Shows)
<1>1. ASSUME NEW r \in Rows, NEW text \in Texts, WriteRow(r, text)
      PROVE  /\ AllStamped' /\ active' = active /\ epoch' = epoch
             /\ Follows(Shows', Shows)
  <2> DEFINE h == TouchRow([Shows EXCEPT !.text[r] = text], r)
  <2>1. grids' = [grids EXCEPT ![active] = h] /\ active' = active /\ epoch' = epoch
    BY <1>1 DEF WriteRow, Shows
  <2>2. Stamped(Shows)
    BY DEF AllStamped, Shows
  <2>3. [Shows.text EXCEPT ![r] = text] \in [Rows -> Texts]
    BY <2>2 DEF Stamped, Grids
  <2>4. Stamped(h) /\ Follows(h, Shows)
    BY <2>2, <2>3, TouchKeeps, TouchFollows
  <2> HIDE DEF h
  <2>5. Shows' = h
    BY <2>1 DEF Shows, AllStamped
  <2>6. Follows(Shows', Shows)
    BY <2>4, <2>5
  <2>7. AllStamped'
    BY <2>1, <2>4 DEF AllStamped, Stamped
  <2> QED BY <2>1, <2>6, <2>7
<1>2. ASSUME ScrollUp
      PROVE  /\ AllStamped' /\ active' = active /\ epoch' = epoch
             /\ Follows(Shows', Shows)
  <2> DEFINE moved == [r \in Rows |-> IF r < RowCount THEN Shows.text[r + 1] ELSE Blank]
             h == TouchAll([Shows EXCEPT !.text = moved])
  <2>1. grids' = [grids EXCEPT ![active] = h] /\ active' = active /\ epoch' = epoch
    BY <1>2 DEF ScrollUp, Shows, AllStamped
  <2>2. Stamped(Shows)
    BY DEF AllStamped, Shows
  <2>3. moved \in [Rows -> Texts]
    BY <2>2, BlankAssumption, RowsAssumption DEF Stamped, Grids, Rows
  <2>4. Stamped(h) /\ Follows(h, Shows)
    <3> HIDE DEF moved
    <3> QED BY <2>2, <2>3, TouchKeeps, TouchFollows
  <2> HIDE DEF h
  <2>5. Shows' = h
    BY <2>1 DEF Shows, AllStamped
  <2>6. Follows(Shows', Shows)
    BY <2>4, <2>5
  <2>7. AllStamped'
    BY <2>1, <2>4 DEF AllStamped, Stamped
  <2> QED BY <2>1, <2>6, <2>7
<1>3. ASSUME NEW mode \in {"47", "1047", "1049"}, EnterAlternate(mode)
      PROVE  AllStamped' /\ active' = "alternate" /\ epoch' = epoch + 1
  <2>1. PICK flagged : flagged = [grids EXCEPT ![active].flags = @ \cup (Flags \cap {mode})]
    OBVIOUS
  <2>2. \A s \in Screens : Stamped(flagged[s])
    BY <2>1, TouchKeeps DEF AllStamped, Stamped, Grids
  <2>3. /\ active' = "alternate" /\ epoch' = epoch + 1
        /\ grids' = [flagged EXCEPT !["alternate"] =
                       IF mode = "47" THEN TouchAll(@) ELSE ClearGrid(@)]
    BY <1>3, <2>1 DEF EnterAlternate
  <2>4. flagged \in [Screens -> Grids] /\ "alternate" \in Screens
    BY <2>1, <2>2 DEF AllStamped, Stamped, Screens
  <2>5. /\ Stamped(TouchAll(flagged["alternate"]))
        /\ Stamped(ClearGrid(flagged["alternate"]))
    BY <2>2, <2>4, TouchKeeps, ClearKeeps
  <2>6. PICK h : h = IF mode = "47" THEN TouchAll(flagged["alternate"])
                                    ELSE ClearGrid(flagged["alternate"])
    OBVIOUS
  <2>7. grids' = [flagged EXCEPT !["alternate"] = h] /\ Stamped(h)
    BY <2>3, <2>4, <2>5, <2>6
  <2> QED BY <2>2, <2>3, <2>4, <2>7 DEF AllStamped, Stamped
<1>4. ASSUME NEW mode \in {"47", "1049"}, LeaveAlternate(mode)
      PROVE  AllStamped' /\ active' = "primary" /\ epoch' = epoch + 1
  <2>1. PICK unflagged : unflagged = [grids EXCEPT !["primary"].flags = @ \ {mode}]
    OBVIOUS
  <2>2. /\ active' = "primary" /\ epoch' = epoch + 1
        /\ grids' = [unflagged EXCEPT !["primary"] = TouchAll(@)]
    BY <1>4, <2>1 DEF LeaveAlternate
  <2>3. \A x \in SUBSET Flags : x \ {mode} \in SUBSET Flags
    OBVIOUS
  <2>4. unflagged \in [Screens -> Grids] /\ \A s \in Screens : Stamped(unflagged[s])
    <3>1. PICK g : g = grids["primary"]
      OBVIOUS
    <3>2. Stamped(g)
      BY <3>1 DEF AllStamped, Screens
    <3>3. PICK flags : flags = g.flags \ {mode}
      OBVIOUS
    <3>4. flags \in SUBSET Flags
      BY <2>3, <3>2, <3>3 DEF Stamped, Grids
    <3>5. PICK kept : kept = [g EXCEPT !.flags = flags]
      OBVIOUS
    <3>6. Stamped(kept)
      BY <3>2, <3>4, <3>5, TouchKeeps
    <3>7. unflagged = [grids EXCEPT !["primary"] = kept]
      BY <2>1, <3>1, <3>3, <3>5
    <3> QED BY <3>6, <3>7 DEF AllStamped, Stamped
  <2>5. PICK h : h = TouchAll(unflagged["primary"])
    OBVIOUS
  <2>6. grids' = [unflagged EXCEPT !["primary"] = h] /\ Stamped(h)
    BY <2>2, <2>4, <2>5, TouchKeeps DEF Screens
  <2> QED BY <2>2, <2>4, <2>6 DEF AllStamped, Stamped
<1>5. ASSUME ClearAndLeave
      PROVE  AllStamped' /\ active' = "primary" /\ epoch' = epoch + 1
  <2>1. PICK cleared : cleared = [grids EXCEPT ![active] = ClearGrid(@)]
    OBVIOUS
  <2>2. /\ active' = "primary" /\ epoch' = epoch + 1
        /\ grids' = [cleared EXCEPT !["primary"].flags = @ \ {"1047"}]
    BY <1>5, <2>1 DEF ClearAndLeave
  <2>3. cleared \in [Screens -> Grids] /\ \A s \in Screens : Stamped(cleared[s])
    BY <2>1, ClearKeeps DEF AllStamped, Stamped
  <2>4. "primary" \in Screens /\ cleared["primary"].flags \ {"1047"} \in SUBSET Flags
    BY <2>3 DEF Grids, Screens
  <2> QED BY <2>2, <2>3, <2>4, TouchKeeps DEF AllStamped, Stamped
<1>6. ASSUME ResetTerminal
      PROVE  AllStamped' /\ active' = "primary" /\ epoch' = epoch + 1
  BY <1>6, FreshStamped DEF ResetTerminal, AllStamped, Stamped
<1>7. {"primary", "alternate"} = Screens
  BY DEF Screens
<1> QED BY <1>1, <1>2, <1>3, <1>4, <1>5, <1>6, <1>7 DEF Terminal

-----------------------------------------------------------------------------
\* The steps.

WellTyped ==
    /\ AllStamped
    /\ active \in Screens
    /\ outputs \in 0 .. MaxOutputs
    /\ loop \in {"reading", "notify"}
    /\ unseen \in BOOLEAN /\ wake \in BOOLEAN
    /\ toDaemon \in Seq(Places)
    /\ toClient \in Seq(Messages)
    /\ mirror \in [Rows -> Texts] /\ since \in Places
    /\ inFlight \in BOOLEAN /\ pending \in BOOLEAN
    /\ refreshes \in 0 .. MaxRefreshes
    /\ epoch \in Nat /\ missed \in BOOLEAN

LEMMA Typed ==
  TypeOK <=> WellTyped
<1>1. grids \in [Screens -> Grids] => \A s \in Screens : grids[s] \in Grids
  OBVIOUS
<1> QED BY <1>1 DEF TypeOK, WellTyped, AllStamped, Stamped

LEMMA TypedNext ==
  TypeOK' <=> WellTyped'
BY Typed, PTL

ShowsWell ==
    /\ Shows.seqno \in Nat
    /\ \A r \in Rows : /\ Shows.stamp[r] \in Nat /\ Shows.stamp[r] <= Shows.seqno
                        /\ Shows.text[r] \in Texts

LEMMA ShowsStamped ==
  TypeOK => ShowsWell
BY Typed DEF WellTyped, AllStamped, Stamped, Shows, ShowsWell, Grids

LEMMA ShowsStampedNext ==
  TypeOK' => ShowsWell'
BY ShowsStamped, PTL

\* Where the client will stand is of no later epoch.
LEMMA StandingPast ==
  ASSUME TypeOK, NEW standing, StandsAt(standing)
  PROVE  standing.epoch <= epoch
BY DEF StandsAt, StandsAfter, PlacesBehind, PlacesOf, Behind

LEMMA OutputKeeps ==
  ASSUME IInv, Output
  PROVE  IInv'
<1>1. TypeOK /\ Standing /\ Outstanding
  BY DEF IInv
<1>2. /\ Terminal /\ outputs' = outputs + 1 /\ unseen' = TRUE /\ loop' = "notify"
      /\ wake' = wake /\ toDaemon' = toDaemon /\ toClient' = toClient
      /\ mirror' = mirror /\ since' = since /\ inFlight' = inFlight
      /\ pending' = pending /\ refreshes' = refreshes /\ missed' = missed
      /\ outputs < MaxOutputs
  BY DEF Output, clientVars
<1>3. AllStamped /\ active \in Screens /\ epoch \in Nat /\ Standing
  BY <1>1, Typed DEF WellTyped
<1>4. /\ AllStamped' /\ active' \in Screens /\ epoch' \in Nat
      /\ \/ epoch' = epoch + 1
         \/ epoch' = epoch /\ Follows(Shows', Shows)
  BY <1>2, <1>3, TerminalStep
<1>5. TypeOK'
  <2>1. outputs' \in 0 .. MaxOutputs
    BY <1>1, <1>2, LimitsAssumption DEF TypeOK
  <2> QED BY <1>1, <1>2, <1>4, <2>1, Typed, TypedNext DEF WellTyped
<1>6. Outstanding'
  BY <1>1, <1>2 DEF Outstanding
<1>7. Standing'
  <2>1. PICK standing \in Places : StandsAt(standing)
    BY <1>1 DEF Standing
  <2>2. standing.epoch <= epoch /\ standing.epoch \in Nat /\ standing.seqno \in Nat
    BY <1>1, <2>1, StandingPast DEF Places
  <2>3. StandsAfter(toClient', since', standing)
    BY <1>2, <2>1 DEF StandsAt
  <2>4. UnderWay'
    BY <1>2 DEF UnderWay
  <2>5. PlacesBehind(standing)'
    <3>1. ASSUME NEW place \in Places, Behind(place, standing, epoch)
          PROVE  Behind(place, standing, epoch')
      <4>1. place.epoch \in Nat
        BY DEF Places
      <4> QED BY <1>3, <1>4, <2>2, <3>1, <4>1 DEF Behind
    <3>2. /\ since \in Places
          /\ \A i \in DOMAIN toDaemon : toDaemon[i] \in Places
          /\ \A i \in DOMAIN toClient : IsUpdate(toClient[i]) => toClient[i].place \in Places
      BY <1>1 DEF TypeOK, Messages, IsUpdate, Notify
    <3> QED BY <1>2, <2>1, <3>1, <3>2 DEF StandsAt, PlacesBehind, PlacesOf
  <2>6. CASE epoch' = epoch + 1
    <3>1. standing.epoch # epoch'
      BY <1>3, <2>2, <2>6
    <3> QED BY <2>1, <2>3, <2>4, <2>5, <3>1 DEF Standing, StandsAt, RowsFollow
  <2>7. CASE epoch' = epoch /\ Follows(Shows', Shows)
    <3>1. Shows.seqno \in Nat /\ Shows'.seqno >= Shows.seqno
      BY <1>1, <2>7, ShowsStamped DEF Follows, ShowsWell
    <3>2. Shows'.seqno \in Nat
      BY <1>5, ShowsStampedNext DEF ShowsWell
    <3>3. standing.epoch = epoch => standing.seqno <= Shows.seqno
      BY <2>1 DEF StandsAt
    <3>4. standing.epoch = epoch' => standing.seqno <= Shows'.seqno
      BY <2>2, <2>7, <3>1, <3>2, <3>3
    <3>5. RowsFollow(standing)'
      <4> SUFFICES ASSUME ~ missed', standing.epoch = epoch',
                          NEW r \in Rows, Shows'.stamp[r] <= standing.seqno
                   PROVE  HoldsAfter(toClient', mirror', r, Shows'.text[r])
        BY DEF RowsFollow
      <4>1. Shows'.stamp[r] \in Nat
        BY <1>5, ShowsStampedNext DEF ShowsWell
      <4>2. Shows'.text[r] = Shows.text[r] /\ Shows'.stamp[r] = Shows.stamp[r]
        BY <2>2, <2>7, <3>1, <3>3, <4>1 DEF Follows
      <4>3. HoldsAfter(toClient, mirror, r, Shows.text[r])
        BY <1>2, <2>1, <2>7, <4>2 DEF StandsAt, RowsFollow
      <4> QED BY <1>2, <4>2, <4>3
    <3> QED BY <2>3, <2>4, <2>5, <3>4, <3>5 DEF Standing, StandsAt
  <2> QED BY <1>4, <2>6, <2>7
<1> QED BY <1>5, <1>6, <1>7 DEF IInv

LEMMA WakeKeeps ==
  ASSUME IInv, WakeClients
  PROVE  IInv'
<1>1. TypeOK /\ Standing /\ Outstanding
  BY DEF IInv
<1>2. /\ grids' = grids /\ active' = active /\ outputs' = outputs
      /\ unseen' = unseen /\ toDaemon' = toDaemon /\ toClient' = toClient
      /\ mirror' = mirror /\ since' = since /\ inFlight' = inFlight
      /\ pending' = pending /\ refreshes' = refreshes
      /\ epoch' = epoch /\ missed' = missed
      /\ loop' = "reading" /\ wake' = TRUE
  BY DEF WakeClients, clientVars, historyVars
<1>3. TypeOK'
  BY <1>1, <1>2 DEF TypeOK
<1>4. Outstanding'
  BY <1>1, <1>2 DEF Outstanding
<1>5. Shows' = Shows
  BY <1>2 DEF Shows
<1>6. Standing'
  BY <1>1, <1>2, <1>5 DEF Standing, StandsAt, PlacesBehind, RowsFollow, Current, UnderWay
<1> QED BY <1>3, <1>4, <1>6 DEF IInv

LEMMA SendDirtyKeeps ==
  ASSUME IInv, SendDirtyNotifications
  PROVE  IInv'
<1>1. TypeOK /\ Standing /\ Outstanding
  BY DEF IInv
<1>2. /\ grids' = grids /\ active' = active /\ outputs' = outputs /\ loop' = loop
      /\ toDaemon' = toDaemon /\ mirror' = mirror /\ since' = since
      /\ inFlight' = inFlight /\ pending' = pending /\ refreshes' = refreshes
      /\ epoch' = epoch /\ missed' = missed
      /\ wake' = FALSE /\ unseen' = FALSE
      /\ toClient' = IF unseen THEN Append(toClient, Notify) ELSE toClient
  BY DEF SendDirtyNotifications, clientVars, historyVars
<1>3. toClient \in Seq(Messages) /\ Notify \in Messages /\ ~ IsUpdate(Notify)
  BY <1>1, MessageKinds DEF TypeOK, Messages
<1>4. TypeOK'
  <2>1. toClient' \in Seq(Messages)
    BY <1>2, <1>3, AppendItems
  <2> QED BY <1>1, <1>2, <2>1 DEF TypeOK
<1>5. Shows' = Shows
  BY <1>2 DEF Shows
<1>6. HasUpdate(toClient') <=> HasUpdate(toClient)
  BY <1>2, <1>3, HasAppend
<1>7. Outstanding'
  <2>1. Cardinality(Updates(toClient')) = Cardinality(Updates(toClient))
    BY <1>2, <1>3, UpdatesAppend, UpdatesFinite
  <2> QED BY <1>1, <1>2, <1>6, <2>1 DEF Outstanding
<1>8. Standing'
  <2>1. PICK standing \in Places : StandsAt(standing)
    BY <1>1 DEF Standing
  <2>2. StandsAfter(toClient', since', standing)
    BY <1>2, <1>3, <2>1, StandsAppend DEF StandsAt
  <2>3. \A r : ~ Carries(Notify, r)
    BY <1>3 DEF Carries
  <2>4. RowsFollow(standing)'
    BY <1>2, <1>3, <1>5, <2>1, <2>3, HoldsAppend DEF StandsAt, RowsFollow
  <2>5. PlacesOf(toClient', standing, epoch)
    BY <1>2, <1>3, <2>1, PlacesAppend DEF StandsAt, PlacesBehind
  <2>6. PlacesBehind(standing)'
    BY <1>2, <2>1, <2>5 DEF StandsAt, PlacesBehind
  <2>7. Current(standing)' \/ UnderWay'
    <3>1. unseen => HasNotify(toClient')
      BY <1>2, <1>3, HasAppend
    <3>2. HasNotify(toClient) => HasNotify(toClient')
      BY <1>2, <1>3, HasAppend
    <3> QED BY <1>2, <1>5, <1>6, <2>1, <3>1, <3>2 DEF StandsAt, Current, UnderWay
  <2> QED BY <1>2, <1>5, <2>1, <2>2, <2>4, <2>6, <2>7 DEF Standing, StandsAt
<1> QED BY <1>4, <1>7, <1>8 DEF IInv

LEMMA RenderUpdateKeeps ==
  ASSUME IInv, GetRenderUpdate
  PROVE  IInv'
<1>1. TypeOK /\ Standing /\ Outstanding
  BY DEF IInv
<1>2. PICK request : request = Head(toDaemon)
  OBVIOUS
<1>3. PICK sent : sent = RowsToSend(Shows, request.seqno)
  OBVIOUS
<1>4. PICK place : place = [seqno |-> Shows.seqno, epoch |-> epoch]
  OBVIOUS
<1>5. PICK update : update = [type |-> "RenderUpdate", place |-> place,
                              rows |-> [r \in sent |-> Shows.text[r]]]
  OBVIOUS
<1>6. /\ grids' = grids /\ active' = active /\ outputs' = outputs /\ loop' = loop
      /\ unseen' = unseen /\ wake' = wake
      /\ mirror' = mirror /\ since' = since
      /\ inFlight' = inFlight /\ pending' = pending /\ refreshes' = refreshes
      /\ epoch' = epoch
      /\ toDaemon # <<>> /\ toDaemon' = Tail(toDaemon)
      /\ toClient' = Append(toClient, update)
      /\ missed' = (sent # Rows /\ (missed \/ request.epoch # epoch))
  BY <1>2, <1>3, <1>4, <1>5 DEF GetRenderUpdate, clientVars, daemonVars, Shows
<1>7. ShowsWell
  BY <1>1, ShowsStamped
<1>8. place \in Places /\ place.seqno = Shows.seqno /\ place.epoch = epoch
  BY <1>1, <1>4, <1>7 DEF Places, TypeOK, ShowsWell
<1>9. /\ toDaemon \in Seq(Places) /\ toClient \in Seq(Messages)
      /\ request \in Places /\ request = toDaemon[1] /\ 1 \in DOMAIN toDaemon
  BY <1>1, <1>2, <1>6, TailItems DEF TypeOK
<1>10. sent \in SUBSET Rows
  BY <1>3 DEF RowsToSend, DirtyRows
<1>11. /\ update \in Messages /\ IsUpdate(update) /\ update # Notify
       /\ update.place = place
       /\ \A r \in Rows : Carries(update, r) <=> r \in sent
       /\ \A r \in sent : update.rows[r] = Shows.text[r]
  <2>1. [r \in sent |-> Shows.text[r]] \in [sent -> Texts]
    BY <1>7, <1>10 DEF ShowsWell
  <2>2. update \in Messages
    BY <1>5, <1>8, <1>10, <2>1 DEF Messages
  <2>3. IsUpdate(update) /\ update.place = place
    BY <1>5 DEF IsUpdate
  <2>4. update.rows = [r \in sent |-> Shows.text[r]]
    BY <1>5
  <2> QED BY <2>2, <2>3, <2>4, MessageKinds DEF Carries
<1>12. Shows' = Shows
  BY <1>6 DEF Shows
<1>13. HasUpdate(toClient') /\ (HasNotify(toClient) => HasNotify(toClient'))
  BY <1>6, <1>9, <1>11, HasAppend
<1>14. TypeOK'
  <2>1. toClient' \in Seq(Messages) /\ toDaemon' \in Seq(Places)
    BY <1>6, <1>9, <1>11, AppendItems, TailItems
  <2> QED BY <1>1, <1>6, <2>1 DEF TypeOK
<1>15. Outstanding'
  <2>1. Cardinality(Updates(toClient')) = Cardinality(Updates(toClient)) + 1
    BY <1>6, <1>9, <1>11, UpdatesAppend, UpdatesFinite
  <2>2. Len(toDaemon') = Len(toDaemon) - 1 /\ Len(toDaemon) \in Nat
    BY <1>6, <1>9, TailItems
  <2>3. Cardinality(Updates(toClient)) \in Nat
    BY <1>9, UpdatesFinite
  <2> QED BY <1>1, <1>6, <1>13, <2>1, <2>2, <2>3 DEF Outstanding, TypeOK
<1>16. Standing'
  <2>1. PICK standing \in Places : StandsAt(standing)
    BY <1>1 DEF Standing
  <2>2. Behind(request, standing, epoch)
    BY <1>9, <2>1 DEF StandsAt, PlacesBehind
  \* The new place is at or after every place so far.
  <2>3. ASSUME NEW p, Behind(p, standing, epoch), p \in Places
        PROVE  Behind(p, place, epoch)
    BY <1>7, <1>8, <2>1, <2>3 DEF Behind, StandsAt, Places, ShowsWell
  <2>4. StandsAfter(toClient', since', place)
    BY <1>6, <1>9, <1>11, StandsAppend
  <2>5. PlacesBehind(place)'
    <3>1. Behind(since, place, epoch)
      BY <1>1, <2>1, <2>3 DEF StandsAt, PlacesBehind, TypeOK
    <3>2. \A i \in DOMAIN toDaemon : toDaemon[i] \in Places
      BY <1>9
    <3>3. \A i \in DOMAIN toDaemon' : \E j \in DOMAIN toDaemon : toDaemon'[i] = toDaemon[j]
      BY <1>6, <1>9, TailItems
    <3>4. \A i \in DOMAIN toDaemon' : Behind(toDaemon'[i], place, epoch)
      BY <2>1, <2>3, <3>2, <3>3 DEF StandsAt, PlacesBehind
    <3>5. PlacesOf(toClient, place, epoch)
      <4>1. \A i \in DOMAIN toClient : IsUpdate(toClient[i]) => toClient[i].place \in Places
        BY <1>9 DEF Messages, IsUpdate, Notify
      <4> QED BY <2>1, <2>3, <4>1 DEF StandsAt, PlacesBehind, PlacesOf
    <3>6. Behind(place, place, epoch)
      BY <1>7, <1>8 DEF Behind, ShowsWell, Places, TypeOK
    <3>7. PlacesOf(toClient', place, epoch)
      BY <1>6, <1>9, <1>11, <3>5, <3>6, PlacesAppend
    <3> QED BY <1>6, <3>1, <3>4, <3>7 DEF PlacesBehind
  <2>6. RowsFollow(place)'
    <3> SUFFICES ASSUME ~ missed', NEW r \in Rows
                 PROVE  HoldsAfter(toClient', mirror', r, Shows.text[r])
      BY <1>12 DEF RowsFollow
    <3>1. CASE r \in sent
      BY <1>6, <1>9, <1>11, <3>1, HoldsAppend
    <3>2. CASE r \notin sent
      <4>1. ~ missed /\ request.epoch = epoch
        BY <1>6, <3>2
      <4>2. Shows.stamp[r] <= request.seqno
        BY <1>3, <1>7, <1>9, <3>2 DEF RowsToSend, DirtyRows, ShowsWell, Places
      <4>3. standing.epoch = epoch /\ Shows.stamp[r] <= standing.seqno
        BY <1>7, <1>9, <2>1, <2>2, <4>1, <4>2 DEF Behind, Places, ShowsWell
      <4>4. HoldsAfter(toClient, mirror, r, Shows.text[r])
        BY <2>1, <4>1, <4>3 DEF StandsAt, RowsFollow
      <4> QED BY <1>6, <1>9, <1>11, <3>2, <4>4, HoldsAppend
    <3> QED BY <3>1, <3>2
  <2>7. Current(place)'
    BY <1>6, <1>7, <1>8, <1>12 DEF Current, ShowsWell
  <2>8. place.epoch = epoch' => place.seqno <= Shows'.seqno
    BY <1>7, <1>8, <1>12 DEF ShowsWell
  <2> QED BY <1>8, <2>4, <2>5, <2>6, <2>7, <2>8 DEF Standing, StandsAt
<1> QED BY <1>14, <1>15, <1>16 DEF IInv

LEMMA DirtyNotifyKeeps ==
  ASSUME IInv, OnDirtyNotify
  PROVE  IInv'
<1>1. TypeOK /\ Standing /\ Outstanding
  BY DEF IInv
<1>2. /\ grids' = grids /\ active' = active /\ outputs' = outputs /\ loop' = loop
      /\ unseen' = unseen /\ wake' = wake
      /\ mirror' = mirror /\ since' = since /\ refreshes' = refreshes
      /\ epoch' = epoch /\ missed' = missed
      /\ toClient # <<>> /\ Head(toClient).type = "DirtyNotify"
      /\ toClient' = Tail(toClient)
      /\ IF inFlight
         THEN pending' = TRUE /\ inFlight' = inFlight /\ toDaemon' = toDaemon
         ELSE inFlight' = TRUE /\ toDaemon' = Append(toDaemon, since) /\ pending' = pending
  BY DEF OnDirtyNotify, Incoming, Request, daemonVars, historyVars
<1>3. /\ toDaemon \in Seq(Places) /\ toClient \in Seq(Messages) /\ since \in Places
      /\ inFlight \in BOOLEAN /\ pending \in BOOLEAN
  BY <1>1 DEF TypeOK
<1>4. ~ IsUpdate(Head(toClient)) /\ Head(toClient) = Notify
  BY <1>2, <1>3, TailItems DEF Messages, IsUpdate
<1>5. Shows' = Shows
  BY <1>2 DEF Shows
<1>6. /\ toDaemon' \in Seq(Places) /\ toClient' \in Seq(Messages)
      /\ ~ inFlight => toDaemon' # <<>>
      /\ toDaemon # <<>> => toDaemon' # <<>>
      /\ Len(toDaemon') = Len(toDaemon) + IF inFlight THEN 0 ELSE 1
      /\ Len(toDaemon) \in Nat
  BY <1>2, <1>3, AppendItems, TailItems
<1>7. HasUpdate(toClient') <=> HasUpdate(toClient)
  BY <1>2, <1>3, <1>4, HasTail
<1>8. TypeOK'
  BY <1>1, <1>2, <1>6 DEF TypeOK
<1>9. Outstanding'
  <2>1. Cardinality(Updates(toClient')) = Cardinality(Updates(toClient))
    <3>1. Cardinality(Updates(toClient)) = Cardinality(Updates(toClient')) + 0
      BY <1>2, <1>3, <1>4, UpdatesTail
    <3>2. Cardinality(Updates(toClient')) \in Nat
      BY <1>6, UpdatesFinite
    <3> QED BY <3>1, <3>2
  <2>2. Cardinality(Updates(toClient)) \in Nat
    BY <1>3, UpdatesFinite
  <2> QED BY <1>1, <1>2, <1>3, <1>6, <1>7, <2>1, <2>2 DEF Outstanding, TypeOK
<1>10. Standing'
  <2>1. PICK standing \in Places : StandsAt(standing)
    BY <1>1 DEF Standing
  <2>2. StandsAfter(toClient', since', standing)
    BY <1>2, <1>3, <1>4, <2>1, StandsTail DEF StandsAt
  <2>3. \A r : ~ Carries(Head(toClient), r)
    BY <1>4 DEF Carries
  <2>4. RowsFollow(standing)'
    BY <1>2, <1>3, <1>5, <2>1, <2>3, HoldsTail DEF StandsAt, RowsFollow
  <2>5. PlacesBehind(standing)'
    <3>1. PlacesOf(toClient', standing, epoch)
      BY <1>2, <1>3, <2>1, PlacesTail DEF StandsAt, PlacesBehind
    <3>2. Behind(since, standing, epoch)
      BY <2>1 DEF StandsAt, PlacesBehind
    <3>3. ASSUME NEW i \in DOMAIN toDaemon'
          PROVE  Behind(toDaemon'[i], standing, epoch)
      <4>1. toDaemon'[i] = since \/ \E j \in DOMAIN toDaemon : toDaemon'[i] = toDaemon[j]
        <5>1. CASE inFlight
          BY <1>2, <5>1
        <5>2. CASE ~ inFlight
          <6>1. toDaemon' = Append(toDaemon, since)
            BY <1>2, <5>2
          <6>2. /\ DOMAIN toDaemon' = 1 .. (Len(toDaemon) + 1) /\ Len(toDaemon) \in Nat
                /\ DOMAIN toDaemon = 1 .. Len(toDaemon)
                /\ \A j \in DOMAIN toDaemon : toDaemon'[j] = toDaemon[j]
                /\ toDaemon'[Len(toDaemon) + 1] = since
            BY <1>3, <6>1, AppendItems
          <6> QED BY <6>2
        <5> QED BY <5>1, <5>2
      <4> QED BY <2>1, <3>2, <4>1 DEF StandsAt, PlacesBehind
    <3> QED BY <1>2, <3>1, <3>2, <3>3 DEF PlacesBehind
  <2>6. UnderWay'
    BY <1>1, <1>2, <1>6, <1>7 DEF Outstanding, UnderWay
  <2> QED BY <1>2, <1>5, <2>1, <2>2, <2>4, <2>5, <2>6 DEF Standing, StandsAt
<1> QED BY <1>8, <1>9, <1>10 DEF IInv

LEMMA UpdateKeeps ==
  ASSUME IInv, OnRenderUpdate
  PROVE  IInv'
<1>1. TypeOK /\ Standing /\ Outstanding
  BY DEF IInv
<1>2. PICK update : update = Head(toClient)
  OBVIOUS
<1>3. /\ grids' = grids /\ active' = active /\ outputs' = outputs /\ loop' = loop
      /\ unseen' = unseen /\ wake' = wake /\ refreshes' = refreshes
      /\ epoch' = epoch /\ missed' = missed
      /\ toClient # <<>> /\ IsUpdate(update)
      /\ toClient' = Tail(toClient)
      /\ mirror' = [r \in Rows |-> IF r \in DOMAIN update.rows
                                   THEN update.rows[r] ELSE mirror[r]]
      /\ since' = update.place
      /\ toDaemon' = IF pending THEN Append(toDaemon, update.place) ELSE toDaemon
      /\ pending' = FALSE /\ inFlight' = pending
  BY <1>2 DEF OnRenderUpdate, ApplyUpdate, Incoming, Request, daemonVars, historyVars,
              IsUpdate
<1>4. /\ toDaemon \in Seq(Places) /\ toClient \in Seq(Messages) /\ since \in Places
      /\ inFlight \in BOOLEAN /\ pending \in BOOLEAN /\ mirror \in [Rows -> Texts]
      /\ refreshes \in Nat
  BY <1>1, LimitsAssumption DEF TypeOK
<1>5. update \in Messages /\ update # Notify
  BY <1>2, <1>3, <1>4, TailItems, MessageKinds
<1>6. update.place \in Places /\ \A r \in DOMAIN update.rows : update.rows[r] \in Texts
  BY <1>5 DEF Messages
<1>7. Shows' = Shows
  BY <1>3 DEF Shows
<1>8. /\ toDaemon' \in Seq(Places) /\ toClient' \in Seq(Messages)
      /\ pending => toDaemon' # <<>>
      /\ toDaemon # <<>> => toDaemon' # <<>>
      /\ Len(toDaemon') = Len(toDaemon) + IF pending THEN 1 ELSE 0
      /\ Len(toDaemon) \in Nat
  BY <1>3, <1>4, <1>6, AppendItems, TailItems
<1>9. TypeOK'
  <2>1. mirror' \in [Rows -> Texts]
    BY <1>3, <1>4, <1>6
  <2> QED BY <1>1, <1>3, <1>4, <1>6, <1>8, <2>1 DEF TypeOK
<1>10. Outstanding'
  <2>1. Cardinality(Updates(toClient)) = Cardinality(Updates(toClient')) + 1
    BY <1>2, <1>3, <1>4, <1>5, UpdatesTail
  <2>2. Cardinality(Updates(toClient')) \in Nat
    BY <1>8, UpdatesFinite
  <2>3. Len(toDaemon) + Cardinality(Updates(toClient))
          <= refreshes + IF inFlight THEN 1 ELSE 0
    BY <1>1 DEF Outstanding
  <2>4. Len(toDaemon') + Cardinality(Updates(toClient'))
          <= refreshes' + IF inFlight' THEN 1 ELSE 0
    <3>1. CASE pending
      <4>1. inFlight
        BY <1>1, <3>1 DEF Outstanding
      <4> QED BY <1>3, <1>4, <1>8, <2>1, <2>2, <2>3, <3>1, <4>1
    <3>2. CASE ~ pending
      BY <1>3, <1>4, <1>8, <2>1, <2>2, <2>3, <3>2
    <3> QED BY <3>1, <3>2
  <2> QED BY <1>3, <1>8, <2>4 DEF Outstanding
<1>11. Standing'
  <2>1. PICK standing \in Places : StandsAt(standing)
    BY <1>1 DEF Standing
  <2>2. StandsAfter(toClient', since', standing)
    BY <1>2, <1>3, <1>4, <2>1, StandsTail DEF StandsAt
  <2>3. RowsFollow(standing)'
    <3>1. ASSUME NEW r \in Rows
          PROVE  mirror'[r] = IF Carries(Head(toClient), r) THEN Head(toClient).rows[r]
                                                            ELSE mirror[r]
      BY <1>2, <1>3 DEF Carries
    <3> QED BY <1>3, <1>4, <1>7, <2>1, <3>1, HoldsTail DEF StandsAt, RowsFollow
  <2>4. PlacesBehind(standing)'
    <3>1. PlacesOf(toClient', standing, epoch) /\ Behind(update.place, standing, epoch)
      BY <1>2, <1>3, <1>4, <2>1, PlacesTail DEF StandsAt, PlacesBehind
    <3>2. ASSUME NEW i \in DOMAIN toDaemon'
          PROVE  Behind(toDaemon'[i], standing, epoch)
      <4>1. toDaemon'[i] = update.place \/ \E j \in DOMAIN toDaemon : toDaemon'[i] = toDaemon[j]
        BY <1>3, <1>4, <1>6, AppendItems
      <4> QED BY <2>1, <3>1, <4>1 DEF StandsAt, PlacesBehind
    <3> QED BY <1>3, <3>1, <3>2 DEF PlacesBehind
  <2>5. Current(standing)' \/ UnderWay'
    <3>1. HasNotify(toClient) => HasNotify(toClient')
      BY <1>2, <1>3, <1>4, <1>5, HasTail
    <3> QED BY <1>3, <1>7, <1>8, <2>1, <3>1 DEF StandsAt, Current, UnderWay
  <2> QED BY <1>3, <1>7, <2>1, <2>2, <2>3, <2>4, <2>5 DEF Standing, StandsAt
<1> QED BY <1>9, <1>10, <1>11 DEF IInv

LEMMA ReturnToLiveKeeps ==
  ASSUME IInv, ReturnToLive
  PROVE  IInv'
<1>1. TypeOK /\ Standing /\ Outstanding
  BY DEF IInv
<1>2. PICK all : all = [since EXCEPT !.seqno = 0]
  OBVIOUS
<1>3. /\ grids' = grids /\ active' = active /\ outputs' = outputs /\ loop' = loop
      /\ unseen' = unseen /\ wake' = wake /\ toClient' = toClient
      /\ mirror' = mirror /\ since' = since /\ inFlight' = inFlight
      /\ pending' = pending /\ epoch' = epoch /\ missed' = missed
      /\ refreshes < MaxRefreshes /\ refreshes' = refreshes + 1
      /\ toDaemon' = Append(toDaemon, all)
  BY <1>2 DEF ReturnToLive, Request, daemonVars, historyVars
<1>4. /\ toDaemon \in Seq(Places) /\ toClient \in Seq(Messages) /\ since \in Places
      /\ refreshes \in 0 .. MaxRefreshes
  BY <1>1 DEF TypeOK
<1>5. all \in Places /\ all.seqno = 0 /\ all.epoch = since.epoch
  BY <1>2, <1>4 DEF Places
<1>6. /\ toDaemon' \in Seq(Places) /\ toDaemon' # <<>>
      /\ Len(toDaemon') = Len(toDaemon) + 1 /\ Len(toDaemon) \in Nat
  BY <1>3, <1>4, <1>5, AppendItems
<1>7. TypeOK'
  <2>1. refreshes' \in 0 .. MaxRefreshes
    BY <1>3, <1>4, LimitsAssumption
  <2> QED BY <1>1, <1>3, <1>6, <2>1 DEF TypeOK
<1>8. Outstanding'
  <2>1. Cardinality(Updates(toClient)) \in Nat /\ refreshes \in Nat
    BY <1>4, UpdatesFinite, LimitsAssumption
  <2> QED BY <1>1, <1>3, <1>6, <2>1 DEF Outstanding
<1>9. Standing'
  <2>1. PICK standing \in Places : StandsAt(standing)
    BY <1>1 DEF Standing
  <2>2. Shows' = Shows
    BY <1>3 DEF Shows
  <2>3. Behind(all, standing, epoch)
    BY <1>5, <2>1 DEF StandsAt, PlacesBehind, Behind, Places
  <2>4. ASSUME NEW i \in DOMAIN toDaemon'
        PROVE  Behind(toDaemon'[i], standing, epoch)
    <3>1. toDaemon'[i] = all \/ \E j \in DOMAIN toDaemon : toDaemon'[i] = toDaemon[j]
      BY <1>3, <1>4, <1>5, AppendItems
    <3> QED BY <2>1, <2>3, <3>1 DEF StandsAt, PlacesBehind
  <2>5. PlacesBehind(standing)'
    BY <1>3, <2>1, <2>4 DEF StandsAt, PlacesBehind
  <2>6. UnderWay'
    BY <1>6 DEF UnderWay
  <2>7. RowsFollow(standing)'
    BY <1>3, <2>1, <2>2 DEF StandsAt, RowsFollow
  <2> QED BY <1>3, <2>1, <2>2, <2>5, <2>6, <2>7 DEF Standing, StandsAt
<1> QED BY <1>7, <1>8, <1>9 DEF IInv

-----------------------------------------------------------------------------
LEMMA Initially ==
  Init => IInv
<1> SUFFICES ASSUME Init PROVE IInv
  OBVIOUS
<1>1. TypeOK
  <2>1. AllStamped /\ active \in Screens
    BY FreshStamped DEF Init, AllStamped, Stamped, Screens
  <2>2. 0 \in 0 .. MaxOutputs /\ 0 \in 0 .. MaxRefreshes
    BY LimitsAssumption
  <2>3. since \in Places /\ mirror \in [Rows -> Texts]
    BY BlankText DEF Init, Places
  <2>4. toDaemon \in Seq(Places) /\ toClient \in Seq(Messages)
    BY DEF Init
  <2> QED BY <2>1, <2>2, <2>3, <2>4, Typed DEF Init, WellTyped
<1>2. Standing
  <2> DEFINE start == [seqno |-> 0, epoch |-> 0]
  <2>1. start \in Places /\ start.seqno = 0 /\ start.epoch = 0
    BY DEF Places
  <2>2. /\ Shows = FreshGrid /\ since = start /\ epoch = 0
        /\ toDaemon = <<>> /\ toClient = <<>> /\ mirror = AllRows(Blank)
    BY DEF Init, Shows, Screens
  <2>3. /\ Shows.seqno = 0 /\ Shows.text = AllRows(Blank)
        /\ \A r \in Rows : Shows.stamp[r] = 0
    BY <2>2 DEF FreshGrid, AllRows
  <2> HIDE DEF start
  <2>4. StandsAfter(toClient, since, start)
    BY <2>2 DEF StandsAfter
  <2>5. PlacesBehind(start)
    BY <2>1, <2>2 DEF PlacesBehind, PlacesOf, Behind
  <2>6. RowsFollow(start)
    BY <2>2, <2>3 DEF RowsFollow, HoldsAfter
  <2>7. Current(start)
    BY <2>1, <2>2, <2>3 DEF Current
  <2> QED BY <2>1, <2>2, <2>3, <2>4, <2>5, <2>6, <2>7 DEF Standing, StandsAt
<1>3. Outstanding
  BY UpdatesEmpty DEF Init, Outstanding
<1> QED BY <1>1, <1>2, <1>3 DEF IInv

LEMMA Stepwise ==
  IInv /\ [Next]_vars => IInv'
<1> SUFFICES ASSUME IInv, [Next]_vars PROVE IInv'
  OBVIOUS
<1>1. CASE UNCHANGED vars
  <2>1. /\ grids' = grids /\ active' = active /\ outputs' = outputs /\ loop' = loop
        /\ unseen' = unseen /\ wake' = wake
        /\ toDaemon' = toDaemon /\ toClient' = toClient
        /\ mirror' = mirror /\ since' = since /\ inFlight' = inFlight
        /\ pending' = pending /\ refreshes' = refreshes
        /\ epoch' = epoch /\ missed' = missed
    BY <1>1 DEF vars, daemonVars, clientVars, historyVars
  <2>2. TypeOK' /\ Outstanding'
    BY <2>1 DEF IInv, TypeOK, Outstanding
  <2>3. Standing'
    BY <2>1 DEF IInv, Standing, StandsAt, PlacesBehind, RowsFollow, Current, UnderWay,
                Shows
  <2> QED BY <2>2, <2>3 DEF IInv
<1>2. CASE Next
  BY <1>2, OutputKeeps, WakeKeeps, SendDirtyKeeps, RenderUpdateKeeps, DirtyNotifyKeeps,
     UpdateKeeps, ReturnToLiveKeeps DEF Next, Deliver
<1> QED BY <1>1, <1>2

LEMMA FollowsFromInvariant ==
  IInv => MirrorFollows
<1> SUFFICES ASSUME IInv PROVE MirrorFollows
  OBVIOUS
<1>1. TypeOK /\ Standing /\ Outstanding
  BY DEF IInv
<1>2. ConvergedOnScreen
  <2> SUFFICES ASSUME Quiet, ~ missed PROVE mirror = Shown
    BY DEF ConvergedOnScreen
  <2>1. PICK standing \in Places : StandsAt(standing)
    BY <1>1 DEF Standing
  <2>2. ~ UnderWay
    BY DEF Quiet, UnderWay, HasNotify, HasUpdate
  <2>3. \A r \in Rows : HoldsAfter(toClient, mirror, r, Shows.text[r])
    BY <2>1, <2>2 DEF StandsAt, Current, RowsFollow
  <2>4. \A r \in Rows : mirror[r] = Shows.text[r]
    BY <2>3 DEF Quiet, HoldsAfter
  <2>5. mirror \in [Rows -> Texts] /\ Shown \in [Rows -> Texts]
    BY <1>1, Typed DEF WellTyped, AllStamped, Grids, Shown
  <2> QED BY <2>4, <2>5 DEF Shows, Shown
<1>3. Debounced
  <2>1. Cardinality(Updates(toClient)) \in Nat /\ Len(toDaemon) \in Nat /\ refreshes \in Nat
    BY <1>1, UpdatesFinite, LimitsAssumption DEF TypeOK
  <2> QED BY <1>1, <2>1 DEF Outstanding, Debounced, Updates
<1> QED BY <1>1, <1>2, <1>3 DEF MirrorFollows

LEMMA Invariance ==
  Spec => []IInv
BY Initially, Stepwise, PTL DEF Spec

\* Once nothing is on its way the client shows what the terminal shows, and a
\* flood of output leaves one exchange outstanding, but for the refreshes.
THEOREM Converges ==
  Spec => []MirrorFollows
BY Invariance, FollowsFromInvariant, PTL

-----------------------------------------------------------------------------
\* AccessTree.

Selections == Int \X Int
ScreenSet ==
    [texts : [Rows -> Texts], cursor : Rows, offset : Nat, selection : Selections]
Pages == [texts : [Rows -> Texts], cursor : Rows, of : Nat]
Views ==
    [offset : Nat, painted : Nat, frozen : BOOLEAN, page : Pages,
     copy : {NotCopying} \cup ScreenSet, selection : Selections]

ViewTyped ==
    /\ view \in Views /\ cursor \in Rows /\ pages \in Seq(Nat)
    /\ announced \in BOOLEAN /\ frameDue \in BOOLEAN /\ retrying \in BOOLEAN
    /\ snap \in ScreenSet

\* A terminal node says what snapshot s does, but for a caret that is excused.
NodeKnows(node, s, excuses) ==
    /\ node.offset = s.offset /\ node.selection = s.selection
    /\ "caret" \notin excuses => node.caret[1] = s.cursor
    /\ "caret" \notin excuses /\ "column" \notin excuses =>
         node.caret[2] = TextLen(s.texts[s.cursor])

\* What an update says, snapshot s does.
UpdateKnows(update, s, excuses) ==
    /\ DOMAIN update.texts \subseteq Rows
    /\ \A r \in DOMAIN update.texts : update.texts[r] = s.texts[r]
    /\ update.node # NoNode => NodeKnows(update.node, s, excuses)

TreeKnows ==
    /\ tree # NoTree => tree.texts = snap.texts /\ NodeKnows(tree.node, snap, excused)
    /\ queued # NoUpdate => UpdateKnows(queued, snap, excused)

\* The snapshot is of what is shown, or what will make it so is on its way:
\* for a live screen an update, for a page the page, for copy mode a frame.
Heard == snap = OnScreen
Excused == "screen" \in excused \/ (announced /\ frameDue)

LiveHeard ==
    ~ view.frozen => Heard \/ Excused \/ toDaemon # <<>> \/ HasUpdate(toClient)
PageHeard ==
    view.frozen /\ view.copy = NotCopying =>
      Heard \/ Excused \/ (view.offset # 0 /\ pages # <<>>)
CopyHeard == view.copy # NotCopying => view.frozen /\ (Heard \/ frameDue)

\* A view off the live screen waits for the page of its offset, or shows it.
PageAsked ==
    view.copy = NotCopying =>
      IF view.offset = 0
      THEN view.painted = 0 /\ (view.frozen => view.page.of = 0)
      ELSE /\ view.frozen
           /\ IF pages = <<>>
              THEN view.painted = view.offset /\ view.page.of = view.offset
              ELSE pages[Len(pages)] = view.offset

\* The inductive invariant.
ViewInv ==
    ViewTyped /\ TreeKnows /\ LiveHeard /\ PageHeard /\ CopyHeard /\ PageAsked
AInv == TypeOK /\ ViewInv

-----------------------------------------------------------------------------
\* Screens.

LEMMA RowsNat ==
  /\ LastRow \in Rows /\ 1 \in Rows /\ 0 \notin Rows
  /\ Rows \subseteq Nat
  /\ NoSelection \in Selections
BY RowsAssumption DEF Rows, LastRow, NoSelection, Selections

LEMMA VisibleTyped ==
  ASSUME NEW selection \in Selections, NEW offset \in Nat
  PROVE  Visible(selection, offset) \in Selections
BY RowsAssumption DEF Visible, Selections, NoSelection

LEMMA ScreenTyped ==
  ASSUME NEW v \in Views, NEW rows \in [Rows -> Texts], NEW at \in Rows
  PROVE  Screen(v, rows, at) \in ScreenSet
<1>1. Visible(v.selection, v.offset) \in Selections
  BY VisibleTyped DEF Views
<1> QED BY <1>1 DEF Screen, Views, Pages, ScreenSet

\* A copy-mode screen is one.
LEMMA CopyTyped ==
  NotCopying \notin ScreenSet
<1>1. ASSUME NotCopying \in ScreenSet PROVE FALSE
  <2>1. NotCopying.cursor \in Rows
    BY <1>1 DEF ScreenSet
  <2> QED BY <2>1, RowsNat DEF NotCopying
<1> QED BY <1>1

LEMMA ViewsFields ==
  ASSUME NEW v \in Views
  PROVE  /\ v.offset \in Nat /\ v.painted \in Nat /\ v.frozen \in BOOLEAN
         /\ v.page \in Pages /\ v.page.texts \in [Rows -> Texts] /\ v.page.cursor \in Rows
         /\ v.page.of \in Nat
         /\ v.copy \in {NotCopying} \cup ScreenSet /\ v.selection \in Selections
BY DEF Views, Pages

LEMMA ScreenFields ==
  ASSUME NEW s \in ScreenSet
  PROVE  /\ s.texts \in [Rows -> Texts] /\ s.cursor \in Rows /\ s.offset \in Nat
         /\ s.selection \in Selections
BY DEF ScreenSet

LEMMA ScreensEqual ==
  ASSUME NEW s \in ScreenSet, NEW t \in ScreenSet,
         s.texts = t.texts, s.cursor = t.cursor, s.offset = t.offset,
         s.selection = t.selection
  PROVE  s = t
BY DEF ScreenSet

LEMMA FrozenTyped ==
  ASSUME NEW v \in Views, mirror \in [Rows -> Texts], cursor \in Rows
  PROVE  /\ Frozen(v) \in Views /\ Frozen(v).frozen
         /\ Frozen(v).offset = v.offset /\ Frozen(v).painted = v.painted
         /\ Frozen(v).copy = v.copy /\ Frozen(v).selection = v.selection
         /\ Frozen(v).page = IF v.frozen THEN v.page
                             ELSE [texts |-> mirror, cursor |-> cursor, of |-> 0]
<1>1. PICK page : page = [texts |-> mirror, cursor |-> cursor, of |-> 0]
  OBVIOUS
<1>2. page \in Pages
  BY <1>1 DEF Pages
<1>3. CASE v.frozen
  BY <1>3, ViewsFields DEF Frozen
<1>4. CASE ~ v.frozen
  <2>1. Frozen(v) = [v EXCEPT !.frozen = TRUE, !.page = page]
    BY <1>1, <1>4 DEF Frozen
  <2>2. [v EXCEPT !.frozen = TRUE, !.page = page] \in Views
    BY <1>2 DEF Views
  <2> QED BY <1>1, <1>4, <2>1, <2>2 DEF Views
<1> QED BY <1>3, <1>4

LEMMA LiveTyped ==
  ASSUME NEW v \in Views
  PROVE  /\ SnappedToLive(v) \in Views /\ ~ SnappedToLive(v).frozen
         /\ SnappedToLive(v).offset = 0 /\ SnappedToLive(v).painted = 0
         /\ SnappedToLive(v).copy = NotCopying
         /\ SnappedToLive(v).selection = v.selection
<1>1. LivePage \in Pages
  BY BlankText, RowsNat DEF LivePage, Pages
<1>2. LiveView \in Views
  BY <1>1, RowsNat DEF LiveView, Views
<1> QED BY <1>2, ViewsFields DEF SnappedToLive, LiveView, Views

LEMMA CopyingTyped ==
  ASSUME NEW v \in Views, mirror \in [Rows -> Texts], cursor \in Rows
  PROVE  /\ Copying(v) \in Views /\ Copying(v).frozen
         /\ Copying(v).copy # NotCopying
<1>1. PICK f : f = Frozen(v)
  OBVIOUS
<1>2. f \in Views /\ f.frozen
  BY <1>1, FrozenTyped
<1>3. PICK copy : copy = [texts |-> f.page.texts, cursor |-> LastRow,
                          offset |-> f.painted, selection |-> NoSelection]
  OBVIOUS
<1>4. copy \in ScreenSet
  BY <1>2, <1>3, ViewsFields, RowsNat DEF ScreenSet
<1>5. Copying(v) = [f EXCEPT !.offset = f.painted, !.selection = NoSelection, !.copy = copy]
  BY <1>1, <1>3 DEF Copying
<1>6. f.painted \in Nat /\ NoSelection \in Selections
  BY <1>2, ViewsFields, RowsNat
<1>7. copy # NotCopying
  BY <1>4, CopyTyped
<1> QED BY <1>2, <1>4, <1>5, <1>6, <1>7 DEF Views

LEMMA PaintedTyped ==
  ASSUME NEW v \in Views, NEW of \in Nat, NEW text \in Texts, mirror \in [Rows -> Texts]
  PROVE  /\ Painted(v, of, text) \in Views
         /\ Painted(v, of, text).painted = v.offset /\ Painted(v, of, text).page.of = of
         /\ Painted(v, of, text).offset = v.offset /\ Painted(v, of, text).copy = v.copy
         /\ Painted(v, of, text).frozen = v.frozen
<1>1. PICK texts : texts = [r \in Rows |-> IF r <= v.offset THEN text ELSE mirror[r - v.offset]]
  OBVIOUS
<1>2. texts \in [Rows -> Texts]
  <2>1. ASSUME NEW r \in Rows, ~ r <= v.offset
        PROVE  r - v.offset \in Rows
    BY <2>1, ViewsFields, RowsAssumption DEF Rows
  <2> QED BY <1>1, <2>1
<1>3. PICK page : page = [texts |-> texts, cursor |-> v.page.cursor, of |-> of]
  OBVIOUS
<1>4. page \in Pages /\ page.of = of
  BY <1>2, <1>3, ViewsFields DEF Pages
<1>5. Painted(v, of, text) = [v EXCEPT !.painted = v.offset, !.page = page]
  BY <1>1, <1>3 DEF Painted
<1>6. v.offset \in Nat
  BY ViewsFields
<1> QED BY <1>4, <1>5, <1>6 DEF Views

-----------------------------------------------------------------------------
\* What AT is told.

\* Rows an update does not name are as AT has them.
LEMMA AppliedKnows ==
  ASSUME NEW s \in ScreenSet, NEW excuses, NEW u, UpdateKnows(u, s, excuses),
         NEW t,
         \A r \in Rows : r \notin DOMAIN u.texts => t.texts[r] = s.texts[r],
         u.node = NoNode => NodeKnows(t.node, s, excuses)
  PROVE  Applied(t, u).texts = s.texts /\ NodeKnows(Applied(t, u).node, s, excuses)
<1>1. Applied(t, u).texts =
        [r \in Rows |-> IF r \in DOMAIN u.texts THEN u.texts[r] ELSE t.texts[r]]
  BY DEF Applied
<1>2. \A r \in Rows :
        (IF r \in DOMAIN u.texts THEN u.texts[r] ELSE t.texts[r]) = s.texts[r]
  BY DEF UpdateKnows
<1>3. s.texts = [r \in Rows |-> s.texts[r]]
  BY ScreenFields
<1>4. Applied(t, u).texts = s.texts
  BY <1>1, <1>2, <1>3
<1>5. Applied(t, u).node = IF u.node = NoNode THEN t.node ELSE u.node
  BY DEF Applied
<1> QED BY <1>4, <1>5 DEF UpdateKnows

LEMMA FullKnows ==
  ASSUME NEW s \in ScreenSet, NEW excuses
  PROVE  /\ FullTree(s).texts = s.texts
         /\ NodeKnows(FullTree(s).node, s, excuses)
         /\ UpdateKnows(FullTree(s), s, excuses)
BY ScreenFields DEF FullTree, NodeOf, NodeKnows, UpdateKnows

\* A push of what the new snapshot says leaves AT knowing it.
LEMMA PushTells ==
  ASSUME NEW s \in ScreenSet, NEW excuses, NEW update, Push(update),
         UpdateKnows(update, s, excuses), snap' = s, excused' = excuses,
         snap \in ScreenSet, TreeKnows,
         \A r \in Rows : r \notin DOMAIN update.texts => snap.texts[r] = s.texts[r],
         update.node = NoNode =>
           \A node : NodeKnows(node, snap, excused) => NodeKnows(node, s, excuses)
  PROVE  TreeKnows'
<1>1. CASE tree = NoTree
  BY <1>1 DEF Push, TreeKnows
<1>2. CASE tree # NoTree
  <2>1. tree' = Applied(tree, update) /\ queued' = NoUpdate
    BY <1>2 DEF Push
  <2>2. tree.texts = snap.texts /\ NodeKnows(tree.node, snap, excused)
    BY <1>2 DEF TreeKnows
  <2>4. Applied(tree, update).texts = s.texts
        /\ NodeKnows(Applied(tree, update).node, s, excuses)
    BY <2>2, AppliedKnows
  <2> QED BY <2>1, <2>4 DEF TreeKnows
<1> QED BY <1>1, <1>2

\* The rows that changed and, if the terminal changed, its node.
LEMMA ToldKnows ==
  ASSUME NEW s \in ScreenSet, NEW screen \in ScreenSet, NEW named \in SUBSET Rows,
         NEW rebuilt \in BOOLEAN, NEW excuses,
         \A r \in named : screen.texts[r] = s.texts[r],
         rebuilt /\ "caret" \notin excuses =>
           s.cursor = screen.cursor /\ s.texts[s.cursor] = screen.texts[s.cursor]
  PROVE  /\ UpdateKnows(Told(s, screen, named, rebuilt), s, excuses)
         /\ DOMAIN Told(s, screen, named, rebuilt).texts = named
         /\ Told(s, screen, named, rebuilt).node = NoNode => ~ rebuilt
<1> DEFINE u == Told(s, screen, named, rebuilt)
<1>1. /\ u.texts = [r \in named |-> screen.texts[r]]
      /\ u.node = IF rebuilt THEN NodeOf(s, screen) ELSE NoNode
  BY DEF Told
<1>2. NodeOf(s, screen) # NoNode
  BY DEF NodeOf, NoNode
<1>3. rebuilt => NodeKnows(NodeOf(s, screen), s, excuses)
  BY DEF NodeOf, NodeKnows
<1> HIDE DEF u
<1>4. UpdateKnows(u, s, excuses)
  BY <1>1, <1>3 DEF UpdateKnows
<1> QED BY <1>1, <1>2, <1>4 DEF u

Knowing == snap \in ScreenSet /\ TreeKnows

LEMMA RenderTells ==
  ASSUME NEW screen \in ScreenSet, NEW named \in SUBSET Rows, Knowing,
         TellRender(screen, named)
  PROVE  snap' = screen /\ TreeKnows'
<1>1. snap' = screen
  BY DEF TellRender, SnapOf
<1>2. PICK excuses : excuses = IF Rebuilt(screen) THEN {}
        ELSE (excused \ {"screen"})
               \cup {why \in {"column"} : screen.cursor \in ChangedRows(snap, screen)}
  OBVIOUS
<1>3. PICK rebuilt \in BOOLEAN : rebuilt = Rebuilt(screen)
  BY DEF Rebuilt
<1>4. PICK told \in SUBSET Rows : told = named \cup ChangedRows(snap, screen)
  BY DEF ChangedRows
<1>5. PICK update : update = Told(screen, screen, told, rebuilt)
  OBVIOUS
<1>6. excused' = excuses /\ Push(update)
  BY <1>1, <1>2, <1>3, <1>4, <1>5 DEF TellRender
<1>7. /\ UpdateKnows(update, screen, excuses) /\ DOMAIN update.texts = told
      /\ update.node = NoNode => ~ rebuilt
  BY <1>5, ToldKnows
<1>8. \A r \in Rows : r \notin told => snap.texts[r] = screen.texts[r]
  BY <1>4 DEF ChangedRows
<1>9. ASSUME ~ rebuilt, NEW node, NodeKnows(node, snap, excused)
      PROVE  NodeKnows(node, screen, excuses)
  <2>1. /\ screen.cursor = snap.cursor /\ screen.offset = snap.offset
        /\ screen.selection = snap.selection
    BY <1>3, <1>9 DEF Rebuilt
  <2>2. /\ "caret" \in excused => "caret" \in excuses
        /\ "column" \in excused => "column" \in excuses
        /\ screen.cursor \in ChangedRows(snap, screen) => "column" \in excuses
    BY <1>2, <1>3, <1>9
  <2>3. screen.cursor \in ChangedRows(snap, screen)
          \/ screen.texts[screen.cursor] = snap.texts[screen.cursor]
    BY ScreenFields DEF ChangedRows
  <2> QED BY <1>9, <2>1, <2>2, <2>3 DEF NodeKnows
<1> QED BY <1>1, <1>6, <1>7, <1>8, <1>9, PushTells DEF Knowing

LEMMA ViewTells ==
  ASSUME NEW screen \in ScreenSet, Knowing, TellView(screen)
  PROVE  snap' = screen /\ TreeKnows'
<1>1. snap' = screen
  BY DEF TellView, SnapOf
<1>2. PICK excuses : excuses = IF RebuiltInView(screen) THEN {} ELSE excused \ {"screen"}
  OBVIOUS
<1>3. PICK rebuilt \in BOOLEAN : rebuilt = RebuiltInView(screen)
  BY DEF RebuiltInView, Rebuilt
<1>4. PICK told \in SUBSET Rows : told = ChangedRows(snap, screen)
  BY DEF ChangedRows
<1>5. PICK update : update = Told(screen, screen, told, rebuilt)
  OBVIOUS
<1>6. excused' = excuses /\ Push(update)
  BY <1>1, <1>2, <1>3, <1>4, <1>5 DEF TellView
<1>7. /\ UpdateKnows(update, screen, excuses) /\ DOMAIN update.texts = told
      /\ update.node = NoNode => ~ rebuilt
  BY <1>5, ToldKnows
<1>8. \A r \in Rows : r \notin told => snap.texts[r] = screen.texts[r]
  BY <1>4 DEF ChangedRows
<1>9. ASSUME ~ rebuilt, NEW node, NodeKnows(node, snap, excused)
      PROVE  NodeKnows(node, screen, excuses)
  <2>1. /\ screen.cursor = snap.cursor /\ screen.offset = snap.offset
        /\ screen.selection = snap.selection
        /\ screen.cursor \notin ChangedRows(snap, screen)
    BY <1>3, <1>9 DEF RebuiltInView, Rebuilt
  <2>2. /\ "caret" \in excused => "caret" \in excuses
        /\ "column" \in excused => "column" \in excuses
    BY <1>2, <1>3, <1>9
  <2>3. screen.texts[screen.cursor] = snap.texts[screen.cursor]
    BY <2>1, ScreenFields DEF ChangedRows
  <2> QED BY <1>9, <2>1, <2>2, <2>3 DEF NodeKnows
<1> QED BY <1>1, <1>6, <1>7, <1>8, <1>9, PushTells DEF Knowing

LEMMA PageTells ==
  ASSUME NEW screen \in ScreenSet, Knowing, TellPage(screen)
  PROVE  snap' = screen /\ TreeKnows'
<1>1. snap' = screen /\ excused' = {}
  BY DEF TellPage, SnapOf
<1>2. PICK update : update = Told(screen, screen, Rows, TRUE)
  OBVIOUS
<1>3. Push(update)
  BY <1>1, <1>2 DEF TellPage
<1>4. /\ UpdateKnows(update, screen, {}) /\ DOMAIN update.texts = Rows
      /\ update.node # NoNode
  <2>1. Rows \in SUBSET Rows /\ TRUE \in BOOLEAN
    OBVIOUS
  <2> QED BY <1>2, <2>1, ToldKnows
<1> QED BY <1>1, <1>3, <1>4, PushTells DEF Knowing

\* The caret a title or a selection tells of is excused if the snapshot does
\* not know it.
LEMMA CaretExcused ==
  ASSUME NEW screen \in ScreenSet, snap \in ScreenSet, "caret" \notin CaretOf(screen)
  PROVE  /\ snap.cursor = screen.cursor
         /\ snap.texts[screen.cursor] = screen.texts[screen.cursor]
BY ScreenFields DEF CaretOf, ChangedRows

LEMMA TitleTells ==
  ASSUME NEW screen \in ScreenSet, Knowing, TellTitle(screen)
  PROVE  /\ snap' = [snap EXCEPT !.offset = screen.offset] /\ TreeKnows'
         /\ "screen" \in excused => "screen" \in excused'
<1>1. PICK s : s = [snap EXCEPT !.offset = screen.offset]
  OBVIOUS
<1>2. /\ s \in ScreenSet /\ s.texts = snap.texts /\ s.cursor = snap.cursor
      /\ s.offset = screen.offset /\ s.selection = snap.selection
  BY <1>1, ScreenFields DEF Knowing, ScreenSet
<1>3. PICK excuses : excuses = (excused \cap {"screen"}) \cup CaretOf(screen)
  OBVIOUS
<1>4. PICK update : update = Told(s, screen, {}, TRUE)
  OBVIOUS
<1>5. snap' = s /\ excused' = excuses /\ Push(update)
  BY <1>1, <1>3, <1>4 DEF TellTitle
<1>6. "caret" \notin excuses => /\ s.cursor = screen.cursor
                                /\ s.texts[s.cursor] = screen.texts[s.cursor]
  BY <1>2, <1>3, CaretExcused DEF Knowing
<1>7. /\ UpdateKnows(update, s, excuses) /\ DOMAIN update.texts = {}
      /\ update.node # NoNode
  BY <1>2, <1>4, <1>6, ToldKnows
<1>8. TreeKnows'
  BY <1>2, <1>5, <1>7, PushTells DEF Knowing
<1> QED BY <1>1, <1>3, <1>5, <1>8

LEMMA SelectionTells ==
  ASSUME NEW screen \in ScreenSet, Knowing, TellSelection(screen)
  PROVE  /\ TreeKnows'
         /\ "screen" \in excused => "screen" \in excused'
         /\ \/ snap' = snap /\ snap.selection = screen.selection
            \/ snap' = [snap EXCEPT !.selection = screen.selection,
                                    !.offset = screen.offset]
<1>1. CASE snap.selection = screen.selection
  BY <1>1 DEF TellSelection, a11yVars, Knowing, TreeKnows
<1>2. CASE snap.selection # screen.selection
  <2>1. PICK s : s = [snap EXCEPT !.selection = screen.selection, !.offset = screen.offset]
    OBVIOUS
  <2>2. /\ s \in ScreenSet /\ s.texts = snap.texts /\ s.cursor = snap.cursor
        /\ s.offset = screen.offset /\ s.selection = screen.selection
    BY <2>1, ScreenFields DEF Knowing, ScreenSet
  <2>3. PICK excuses : excuses = (excused \cap {"screen"}) \cup CaretOf(screen)
    OBVIOUS
  <2>4. PICK update : update = Told(s, screen, {}, TRUE)
    OBVIOUS
  <2>5. snap' = s /\ excused' = excuses /\ Push(update)
    BY <1>2, <2>1, <2>3, <2>4 DEF TellSelection
  <2>6. "caret" \notin excuses => /\ s.cursor = screen.cursor
                                  /\ s.texts[s.cursor] = screen.texts[s.cursor]
    BY <2>2, <2>3, CaretExcused DEF Knowing
  <2>7. /\ UpdateKnows(update, s, excuses) /\ DOMAIN update.texts = {}
        /\ update.node # NoNode
    BY <2>2, <2>4, <2>6, ToldKnows
  <2>8. TreeKnows'
    BY <2>2, <2>5, <2>7, PushTells DEF Knowing
  <2> QED BY <2>1, <2>3, <2>5, <2>8
<1> QED BY <1>1, <1>2

LEMMA DimensionsTell ==
  ASSUME NEW screen \in ScreenSet, Knowing, TellDimensions(screen)
  PROVE  snap' = screen /\ TreeKnows'
<1>1. snap' = screen /\ excused' = {}
  BY DEF TellDimensions, SnapOf
<1>2. PICK update : update = FullTree(screen)
  OBVIOUS
<1>3. Push(update)
  BY <1>1, <1>2 DEF TellDimensions
<1>4. /\ UpdateKnows(update, screen, {}) /\ DOMAIN update.texts = Rows
      /\ update.node # NoNode
  BY <1>2, FullKnows, ScreenFields DEF FullTree, NodeOf, NoNode
<1> QED BY <1>1, <1>3, <1>4, PushTells DEF Knowing

LEMMA OriginTells ==
  ASSUME NEW screen \in ScreenSet, Knowing, TellOrigin(screen)
  PROVE  /\ snap' = [snap EXCEPT !.offset = screen.offset] /\ TreeKnows'
         /\ "screen" \in excused => "screen" \in excused'
<1>1. PICK s : s = [snap EXCEPT !.offset = screen.offset]
  OBVIOUS
<1>2. s \in ScreenSet /\ s.texts = snap.texts
  BY <1>1, ScreenFields DEF Knowing, ScreenSet
<1>3. PICK excuses : excuses = excused \cap {"screen"}
  OBVIOUS
<1>4. PICK update : update = FullTree(s)
  OBVIOUS
<1>5. snap' = s /\ excused' = excuses /\ Push(update)
  BY <1>1, <1>3, <1>4 DEF TellOrigin
<1>6. /\ UpdateKnows(update, s, excuses) /\ DOMAIN update.texts = Rows
      /\ update.node # NoNode
  BY <1>2, <1>4, FullKnows, ScreenFields DEF FullTree, NodeOf, NoNode
<1>7. TreeKnows'
  BY <1>2, <1>5, <1>6, PushTells DEF Knowing
<1> QED BY <1>1, <1>3, <1>5, <1>7

-----------------------------------------------------------------------------
\* The steps of the exchange with the daemon.

SameView ==
    /\ view' = view /\ cursor' = cursor /\ pages' = pages /\ announced' = announced
    /\ frameDue' = frameDue /\ retrying' = retrying
SameTree == snap' = snap /\ tree' = tree /\ queued' = queued /\ excused' = excused
SameSync ==
    mirror' = mirror /\ toDaemon' = toDaemon /\ toClient' = toClient

LEMMA UnchangedVars ==
  /\ UNCHANGED viewVars => SameView
  /\ UNCHANGED a11yVars => SameTree
  /\ UNCHANGED syncVars => SameSync
BY DEF viewVars, a11yVars, syncVars, vars, clientVars, SameView, SameTree, SameSync

\* More may be excused of the screen, and AT knows as much.
LEMMA KnowsAsMuch ==
  ASSUME TreeKnows, snap' = snap, tree' = tree, queued' = queued,
         "caret" \in excused' <=> "caret" \in excused,
         "column" \in excused' <=> "column" \in excused
  PROVE  TreeKnows'
BY DEF TreeKnows, UpdateKnows, NodeKnows

LEMMA OnScreenTyped ==
  TypeOK /\ ViewTyped => OnScreen \in ScreenSet
BY ScreenTyped DEF OnScreen, TypeOK, ViewTyped

\* A live view is at the live bottom, out of copy mode.
LEMMA LiveBottom ==
  ASSUME ViewTyped, CopyHeard, PageAsked, ~ view.frozen
  PROVE  view.copy = NotCopying /\ view.offset = 0 /\ view.painted = 0
BY DEF CopyHeard, PageAsked, ViewTyped, Views

\* What a screen out of copy mode, or in it, is made of.
LEMMA ScreenParts ==
  ASSUME NEW v, NEW rows, NEW at
  PROVE  /\ v.copy # NotCopying => Screen(v, rows, at) = v.copy
         /\ v.copy = NotCopying =>
              /\ Screen(v, rows, at).texts = IF v.frozen THEN v.page.texts ELSE rows
              /\ Screen(v, rows, at).cursor = IF v.frozen THEN v.page.cursor ELSE at
              /\ Screen(v, rows, at).offset = v.offset
              /\ Screen(v, rows, at).selection = Visible(v.selection, v.offset)
BY DEF Screen

LEMMA DaemonKeepsUnderWay ==
  ASSUME TypeOK, \/ Output \/ WakeClients \/ SendDirtyNotifications
                 \/ GetRenderUpdate \/ OnDirtyNotify
  PROVE  /\ mirror' = mirror
         /\ toDaemon # <<>> \/ HasUpdate(toClient) =>
              toDaemon' # <<>> \/ HasUpdate(toClient')
<1>1. /\ toDaemon \in Seq(Places) /\ toClient \in Seq(Messages) /\ since \in Places
      /\ Notify \in Messages /\ ~ IsUpdate(Notify)
  BY MessageKinds DEF TypeOK, Messages
<1>2. CASE Output \/ WakeClients
  BY <1>2 DEF Output, WakeClients, clientVars
<1>3. CASE SendDirtyNotifications
  <2>1. /\ mirror' = mirror /\ toDaemon' = toDaemon
        /\ toClient' = IF unseen THEN Append(toClient, Notify) ELSE toClient
    BY <1>3 DEF SendDirtyNotifications, clientVars
  <2> QED BY <1>1, <2>1, HasAppend
<1>4. CASE GetRenderUpdate
  <2>1. PICK update : update = [type |-> "RenderUpdate",
               place |-> [seqno |-> grids[active].seqno, epoch |-> epoch],
               rows |-> [r \in RowsToSend(grids[active], Head(toDaemon).seqno) |->
                           grids[active].text[r]]]
    OBVIOUS
  <2>2. toClient' = Append(toClient, update) /\ mirror' = mirror /\ IsUpdate(update)
    BY <1>4, <2>1 DEF GetRenderUpdate, clientVars, IsUpdate
  <2>3. PICK n \in Nat : n = Len(toClient)
    BY <1>1
  <2>4. toClient'[n + 1] = update /\ n + 1 \in DOMAIN toClient'
    BY <1>1, <2>2, <2>3
  <2> QED BY <2>2, <2>4 DEF HasUpdate
<1>5. CASE OnDirtyNotify
  <2>1. /\ mirror' = mirror /\ toClient # <<>> /\ toClient' = Tail(toClient)
        /\ toDaemon' = toDaemon \/ toDaemon' = Append(toDaemon, since)
        /\ Head(toClient).type = "DirtyNotify"
    BY <1>5 DEF OnDirtyNotify, Request, Incoming
  <2>2. ~ IsUpdate(Head(toClient))
    BY <2>1 DEF IsUpdate
  <2>3. HasUpdate(toClient) <=> HasUpdate(toClient')
    BY <1>1, <2>1, <2>2, HasTail
  <2>4. toDaemon # <<>> => toDaemon' # <<>>
    BY <1>1, <2>1, AppendItems
  <2> QED BY <2>1, <2>3, <2>4
<1> QED BY <1>2, <1>3, <1>4, <1>5

LEMMA DaemonKeeps ==
  ASSUME TypeOK, ViewInv, Daemon
  PROVE  ViewInv'
<1>1. SameView /\ SameTree
  BY UnchangedVars DEF Daemon
<1>2. /\ mirror' = mirror
      /\ toDaemon # <<>> \/ HasUpdate(toClient) =>
           toDaemon' # <<>> \/ HasUpdate(toClient')
  BY DaemonKeepsUnderWay DEF Daemon
<1>3. OnScreen' = OnScreen
  BY <1>1, <1>2 DEF OnScreen, SameView
<1> QED BY <1>1, <1>2, <1>3 DEF ViewInv, SameView, SameTree, ViewTyped, TreeKnows,
      LiveHeard, PageHeard, CopyHeard, PageAsked, Heard, Excused

LEMMA RenderKeeps ==
  ASSUME TypeOK, TypeOK', ViewInv, RenderUpdate
  PROVE  ViewInv'
<1>1. /\ OnRenderUpdate /\ cursor' \in Rows
      /\ IF view.frozen
         THEN UNCHANGED <<a11yVars, frameDue>>
         ELSE /\ TellRender(Screen(view, mirror', cursor'), DOMAIN Head(toClient).rows)
              /\ frameDue' = TRUE
      /\ view' = view /\ pages' = pages /\ announced' = announced
      /\ retrying' = retrying
  BY DEF RenderUpdate
<1>2. ViewTyped /\ TreeKnows /\ LiveHeard /\ PageHeard /\ CopyHeard /\ PageAsked
  BY DEF ViewInv
<1>3. PageAsked'
  BY <1>1, <1>2 DEF PageAsked
<1>4. CASE view.frozen
  <2>1. SameTree /\ frameDue' = frameDue
    BY <1>1, <1>4 DEF a11yVars, SameTree
  <2>2. OnScreen' = OnScreen
    BY <1>1, <1>4 DEF OnScreen, Screen
  <2>3. ViewTyped'
    BY <1>1, <1>2, <2>1 DEF ViewTyped, SameTree
  <2>4. TreeKnows'
    BY <1>2, <2>1 DEF TreeKnows, SameTree
  <2> QED BY <1>1, <1>2, <1>3, <1>4, <2>1, <2>2, <2>3, <2>4 DEF ViewInv, SameTree,
        LiveHeard, PageHeard, CopyHeard, Heard, Excused
<1>5. CASE ~ view.frozen
  <2>1. PICK screen : screen = Screen(view, mirror', cursor')
    OBVIOUS
  <2>2. screen \in ScreenSet
    BY <1>1, <1>2, <2>1, ScreenTyped DEF ViewTyped, TypeOK
  <2>3. PICK named : named = DOMAIN Head(toClient).rows
    OBVIOUS
  <2>4. named \in SUBSET Rows
    <3>1. toClient # <<>> /\ Head(toClient).type = "RenderUpdate"
      BY <1>1 DEF OnRenderUpdate, Incoming
    <3>2. Head(toClient) \in Messages /\ Head(toClient) # Notify
      BY <3>1, TailItems DEF TypeOK, Notify
    <3> QED BY <2>3, <3>2 DEF Messages
  <2>5. snap' = screen /\ TreeKnows'
    BY <1>1, <1>2, <1>5, <2>1, <2>2, <2>3, <2>4, RenderTells DEF Knowing, ViewTyped
  <2>6. OnScreen' = screen
    BY <1>1, <2>1 DEF OnScreen
  <2>7. ViewTyped'
    BY <1>1, <1>2, <1>5, <2>2, <2>5 DEF ViewTyped
  <2> QED BY <1>1, <1>2, <1>3, <1>5, <2>5, <2>6, <2>7 DEF ViewInv, LiveHeard, PageHeard,
        CopyHeard, Heard
<1> QED BY <1>4, <1>5

LEMMA ActivateKeeps ==
  ASSUME TypeOK, ViewInv, Activate
  PROVE  ViewInv'
<1>1. /\ tree' = FullTree(snap) /\ snap' = snap /\ queued' = queued
      /\ excused' = excused /\ SameView /\ SameSync
  BY UnchangedVars DEF Activate
<1>2. TreeKnows'
  BY <1>1, FullKnows DEF ViewInv, TreeKnows, ViewTyped
<1>3. OnScreen' = OnScreen
  BY <1>1 DEF OnScreen, SameView, SameSync
<1> QED BY <1>1, <1>2, <1>3 DEF ViewInv, SameView, SameSync, ViewTyped,
      LiveHeard, PageHeard, CopyHeard, PageAsked, Heard, Excused

LEMMA OfferKeeps ==
  ASSUME TypeOK, ViewInv, Offer
  PROVE  ViewInv'
<1>1. /\ queued # NoUpdate /\ queued' = NoUpdate
      /\ tree' = IF tree = NoTree THEN NoTree ELSE Applied(tree, queued)
      /\ snap' = snap /\ excused' = excused /\ SameView /\ SameSync
  BY UnchangedVars DEF Offer
<1>2. TreeKnows'
  <2>1. CASE tree # NoTree
    <3>1. /\ tree.texts = snap.texts /\ NodeKnows(tree.node, snap, excused)
          /\ UpdateKnows(queued, snap, excused) /\ snap \in ScreenSet
      BY <1>1, <2>1 DEF ViewInv, TreeKnows, ViewTyped
    <3>2. Applied(tree, queued).texts = snap.texts
          /\ NodeKnows(Applied(tree, queued).node, snap, excused)
      BY <3>1, AppliedKnows
    <3> QED BY <1>1, <2>1, <3>2 DEF TreeKnows
  <2>2. CASE tree = NoTree
    BY <1>1, <2>2 DEF TreeKnows
  <2> QED BY <2>1, <2>2
<1>3. OnScreen' = OnScreen
  BY <1>1 DEF OnScreen, SameView, SameSync
<1> QED BY <1>1, <1>2, <1>3 DEF ViewInv, SameView, SameSync, ViewTyped,
      LiveHeard, PageHeard, CopyHeard, PageAsked, Heard, Excused

-----------------------------------------------------------------------------
\* The steps of the GUI thread.

\* What the user's steps share.
Base ==
    /\ ViewTyped /\ TreeKnows /\ LiveHeard /\ PageHeard /\ CopyHeard /\ PageAsked
    /\ mirror \in [Rows -> Texts]

LEMMA FromViewInv ==
  TypeOK /\ ViewInv => Base
BY DEF ViewInv, Base, TypeOK

LEMMA TailLast ==
  ASSUME NEW S, NEW q \in Seq(S), q # <<>>
  PROVE  /\ Tail(q) \in Seq(S)
         /\ Len(q) > 1 => Tail(q) # <<>> /\ Tail(q)[Len(Tail(q))] = q[Len(q)]
         /\ Len(q) = 1 => Tail(q) = <<>>
<1>1. PICK n \in Nat : n = Len(q)
  OBVIOUS
<1>2. /\ Tail(q) \in Seq(S) /\ Len(Tail(q)) = n - 1 /\ n # 0
      /\ \A i \in 1 .. (n - 1) : Tail(q)[i] = q[i + 1]
  BY <1>1, TailItems
<1>3. PICK t \in Seq(S) : t = Tail(q)
  BY <1>2
<1>4. Len(t) = 0 <=> t = <<>>
  BY <1>3, EmptySeq
<1>5. ASSUME n > 1
      PROVE  t # <<>> /\ t[n - 1] = q[n]
  <2>1. n - 1 \in 1 .. (n - 1) /\ n - 1 # 0 /\ (n - 1) + 1 = n
    BY <1>5
  <2>2. t[n - 1] = q[n]
    BY <1>2, <1>3, <2>1
  <2> QED BY <1>2, <1>3, <1>4, <2>1, <2>2
<1> QED BY <1>1, <1>2, <1>3, <1>4, <1>5

LEMMA ScrollToKeeps ==
  ASSUME TypeOK, ViewInv, NEW offset \in Offsets, ScrollTo(offset)
  PROVE  ViewInv'
<1>1. Base
  BY FromViewInv
<1>2. /\ view' = [Frozen(view) EXCEPT !.offset = offset, !.copy = NotCopying]
      /\ pages' = Append(pages, offset)
      /\ SameSync /\ SameTree /\ cursor' = cursor /\ announced' = announced
      /\ frameDue' = frameDue /\ retrying' = retrying
  BY UnchangedVars DEF ScrollTo
<1>3. offset \in Nat /\ offset # 0
  BY OffsetsAssumption
<1>4. Frozen(view) \in Views /\ Frozen(view).frozen
  BY <1>1, FrozenTyped DEF Base, ViewTyped
<1>5. /\ view' \in Views /\ view'.offset = offset /\ view'.copy = NotCopying
      /\ view'.frozen
  BY <1>2, <1>3, <1>4 DEF Views
<1>6. /\ pages' \in Seq(Nat) /\ pages' # <<>> /\ pages'[Len(pages')] = offset
  BY <1>1, <1>2, <1>3, AppendItems DEF Base, ViewTyped
<1>7. ViewTyped'
  BY <1>1, <1>2, <1>5, <1>6 DEF Base, ViewTyped, SameTree
<1>8. TreeKnows'
  BY <1>1, <1>2 DEF Base, TreeKnows, SameTree
<1> QED BY <1>3, <1>5, <1>6, <1>7, <1>8 DEF ViewInv, LiveHeard, PageHeard, CopyHeard,
      PageAsked

LEMMA SearchPromptKeeps ==
  ASSUME TypeOK, ViewInv, SearchPrompt
  PROVE  ViewInv'
<1>1. Base
  BY FromViewInv
<1>2. /\ view.copy = NotCopying /\ view' = Frozen(view)
      /\ excused' = excused \cup {why \in {"screen"} : snap # SnapOf(OnScreen)}
      /\ SameSync /\ snap' = snap /\ tree' = tree /\ queued' = queued
      /\ cursor' = cursor /\ pages' = pages /\ announced' = announced
      /\ frameDue' = frameDue /\ retrying' = retrying
  BY UnchangedVars DEF SearchPrompt
<1>3. view \in Views /\ cursor \in Rows
  BY <1>1 DEF Base, ViewTyped
<1>4. /\ view' \in Views /\ view'.frozen /\ view'.copy = NotCopying
      /\ view'.offset = view.offset /\ view'.painted = view.painted
      /\ view'.selection = view.selection
      /\ view'.page = IF view.frozen THEN view.page
                      ELSE [texts |-> mirror, cursor |-> cursor, of |-> 0]
  BY <1>1, <1>2, <1>3, FrozenTyped DEF Base
\* What is frozen is what was shown.
<1>5. OnScreen' = OnScreen
  <2>1. OnScreen = [texts |-> IF view.frozen THEN view.page.texts ELSE mirror,
                    cursor |-> IF view.frozen THEN view.page.cursor ELSE cursor,
                    offset |-> view.offset,
                    selection |-> Visible(view.selection, view.offset)]
    BY <1>2 DEF OnScreen, Screen
  <2>2. OnScreen' = [texts |-> view'.page.texts, cursor |-> view'.page.cursor,
                     offset |-> view'.offset,
                     selection |-> Visible(view'.selection, view'.offset)]
    BY <1>4 DEF OnScreen, Screen
  <2> QED BY <1>4, <2>1, <2>2
<1>6. Heard' \/ "screen" \in excused'
  BY <1>2, <1>5 DEF Heard, SnapOf
<1>7. ViewTyped'
  BY <1>1, <1>2, <1>4 DEF Base, ViewTyped
<1>8. TreeKnows'
  <2>1. /\ "caret" \in excused' <=> "caret" \in excused
        /\ "column" \in excused' <=> "column" \in excused
    BY <1>2
  <2> QED BY <1>1, <1>2, <2>1, KnowsAsMuch DEF Base
<1>9. PageAsked'
  <2>1. ~ view.frozen => view.offset = 0
    BY <1>1, LiveBottom DEF Base
  <2> QED BY <1>1, <1>2, <1>4, <2>1 DEF Base, PageAsked
<1> QED BY <1>4, <1>6, <1>7, <1>8, <1>9 DEF ViewInv, LiveHeard, PageHeard, CopyHeard,
      Excused

LEMMA BackToLiveKeeps ==
  ASSUME TypeOK, ViewInv, BackToLive, pages' = pages \/ (pages # <<>> /\ pages' = Tail(pages))
  PROVE  ViewInv'
<1>1. Base
  BY FromViewInv
<1>2. /\ view' = SnappedToLive(view) /\ ReturnToLive /\ SameTree
      /\ cursor' = cursor /\ announced' = announced /\ retrying' = retrying
      /\ frameDue' = TRUE
  BY UnchangedVars DEF BackToLive
<1>3. /\ view' \in Views /\ ~ view'.frozen /\ view'.offset = 0 /\ view'.painted = 0
      /\ view'.copy = NotCopying
  BY <1>1, <1>2, LiveTyped DEF Base, ViewTyped
<1>4. toDaemon' # <<>>
  <2>1. PICK place : place = [since EXCEPT !.seqno = 0]
    OBVIOUS
  <2>2. toDaemon' = Append(toDaemon, place) /\ toDaemon \in Seq(Places)
        /\ place \in Places
    BY <1>2, <2>1 DEF ReturnToLive, Request, TypeOK, Places
  <2> QED BY <2>2, AppendItems
<1>5. ViewTyped'
  BY <1>1, <1>2, <1>3, TailItems DEF Base, ViewTyped, SameTree
<1>6. TreeKnows'
  BY <1>1, <1>2 DEF Base, TreeKnows, SameTree
<1> QED BY <1>3, <1>4, <1>5, <1>6 DEF ViewInv, LiveHeard, PageHeard, CopyHeard, PageAsked

LEMMA DropPageKeeps ==
  ASSUME TypeOK, ViewInv, DropPage
  PROVE  ViewInv'
<1>1. Base
  BY FromViewInv
<1>2. /\ pages # <<>> /\ pages' = Tail(pages)
      /\ view.copy # NotCopying \/ Len(pages) > 1 \/ view.offset = 0
      /\ SameSync /\ SameTree /\ view' = view /\ cursor' = cursor
      /\ announced' = announced /\ frameDue' = frameDue /\ retrying' = retrying
  BY UnchangedVars DEF DropPage, Superseded
<1>3. OnScreen' = OnScreen
  BY <1>2 DEF OnScreen, SameSync
<1>4. /\ pages' \in Seq(Nat)
      /\ Len(pages) > 1 => pages' # <<>> /\ pages'[Len(pages')] = pages[Len(pages)]
  BY <1>1, <1>2, TailLast DEF Base, ViewTyped
<1>5. ViewTyped' /\ TreeKnows'
  BY <1>1, <1>2, <1>4 DEF Base, ViewTyped, TreeKnows, SameTree
<1>6. PageHeard'
  BY <1>1, <1>2, <1>3, <1>4 DEF Base, PageHeard, Heard, Excused, SameTree
<1>7. PageAsked'
  BY <1>1, <1>2, <1>4 DEF Base, PageAsked
<1> QED BY <1>1, <1>2, <1>3, <1>5, <1>6, <1>7 DEF Base, ViewInv, LiveHeard, CopyHeard,
      Heard, Excused, SameTree, SameSync

LEMMA PaintPageKeeps ==
  ASSUME TypeOK, ViewInv, NEW total \in Rows, NEW text \in Texts, PaintPage(total, text)
  PROVE  ViewInv'
<1>1. Base
  BY FromViewInv
<1>2. PICK of : of = IF Head(pages) > total THEN total ELSE Head(pages)
  OBVIOUS
<1>3. PICK offset : offset = IF view.offset > total THEN total ELSE view.offset
  OBVIOUS
<1>4. PICK at : at = [view EXCEPT !.offset = offset]
  OBVIOUS
<1>5. PICK v : v = Painted(at, of, text)
  OBVIOUS
<1>6. PICK screen : screen = Screen(v, mirror, cursor)
  OBVIOUS
<1>7. /\ pages # <<>> /\ pages' = Tail(pages) /\ ~ Len(pages) > 1
      /\ view.copy = NotCopying /\ view.offset > 0
      /\ TellPage(screen)
      /\ view' = Copying(v) \/ view' = v
      /\ frameDue' = TRUE /\ retrying' = FALSE
      /\ SameSync /\ cursor' = cursor /\ announced' = announced
  BY <1>2, <1>3, <1>4, <1>5, <1>6, UnchangedVars DEF PaintPage, Paintable, Superseded
<1>8. /\ view \in Views /\ cursor \in Rows /\ pages \in Seq(Nat)
      /\ view.offset \in Nat \ {0} /\ total \in Nat \ {0}
  BY <1>1, <1>7, ViewsFields, RowsNat DEF Base, ViewTyped
<1>9. Len(pages) = 1 /\ Head(pages) = view.offset /\ view.frozen
  <2>1. Len(pages) = 1 /\ Head(pages) = pages[1]
    <3>1. Len(pages) \in Nat \ {0} /\ Head(pages) = pages[1]
      BY <1>7, <1>8, TailItems
    <3>2. PICK n \in Nat \ {0} : n = Len(pages)
      BY <3>1
    <3>3. ~ n > 1
      BY <1>7, <3>2
    <3> QED BY <3>1, <3>2, <3>3
  <2>2. view.frozen /\ pages[Len(pages)] = view.offset
    BY <1>1, <1>7, <1>8 DEF Base, PageAsked
  <2> QED BY <2>1, <2>2
<1>10. of = offset /\ offset \in Nat \ {0}
  BY <1>2, <1>3, <1>8, <1>9
<1>11. /\ at \in Views /\ at.offset = offset /\ at.copy = NotCopying /\ at.frozen
  BY <1>4, <1>7, <1>8, <1>9, <1>10 DEF Views
<1>12. /\ v \in Views /\ v.painted = offset /\ v.page.of = offset /\ v.offset = offset
       /\ v.copy = NotCopying /\ v.frozen
  BY <1>1, <1>5, <1>10, <1>11, PaintedTyped DEF Base
<1>13. screen \in ScreenSet
  BY <1>1, <1>6, <1>8, <1>12, ScreenTyped DEF Base
<1>14. snap' = screen /\ TreeKnows'
  BY <1>1, <1>7, <1>13, PageTells DEF Knowing, Base, ViewTyped
<1>15. pages' = <<>> /\ pages' \in Seq(Nat)
  BY <1>7, <1>8, <1>9, TailLast
<1>16. CASE view' = v
  <2>1. OnScreen' = screen
    BY <1>6, <1>7, <1>16 DEF OnScreen, SameSync
  <2>2. ViewTyped'
    BY <1>1, <1>7, <1>12, <1>13, <1>14, <1>15, <1>16 DEF Base, ViewTyped
  <2> QED BY <1>10, <1>12, <1>14, <1>15, <1>16, <2>1, <2>2 DEF ViewInv, LiveHeard,
        PageHeard, CopyHeard, PageAsked, Heard
<1>17. CASE view' = Copying(v)
  <2>1. view' \in Views /\ view'.frozen /\ view'.copy # NotCopying
    BY <1>1, <1>8, <1>12, <1>17, CopyingTyped DEF Base
  <2>2. ViewTyped'
    BY <1>1, <1>7, <1>13, <1>14, <1>15, <2>1 DEF Base, ViewTyped
  <2> QED BY <1>7, <1>14, <2>1, <2>2 DEF ViewInv, LiveHeard, PageHeard, CopyHeard,
        PageAsked
<1> QED BY <1>7, <1>16, <1>17

LEMMA EnterKeeps ==
  ASSUME TypeOK, ViewInv, EnterCopyMode
  PROVE  ViewInv'
<1>1. Base
  BY FromViewInv
<1>2. /\ view' = Copying(view) /\ frameDue' = TRUE /\ retrying' = FALSE
      /\ SameSync /\ SameTree /\ cursor' = cursor /\ pages' = pages
      /\ announced' = announced
  BY UnchangedVars DEF EnterCopyMode
<1>3. view' \in Views /\ view'.frozen /\ view'.copy # NotCopying
  BY <1>1, <1>2, CopyingTyped DEF Base, ViewTyped
<1>4. ViewTyped' /\ TreeKnows'
  BY <1>1, <1>2, <1>3 DEF Base, ViewTyped, TreeKnows, SameTree
<1> QED BY <1>2, <1>3, <1>4 DEF ViewInv, LiveHeard, PageHeard, CopyHeard, PageAsked

LEMMA DeferKeeps ==
  ASSUME TypeOK, ViewInv, DeferCopyMode
  PROVE  ViewInv'
<1>1. Base
  BY FromViewInv
<1>2. /\ view.copy = NotCopying /\ Partial(view) /\ retrying' = ~ retrying
      /\ pages' = IF retrying THEN pages ELSE Append(pages, view.offset)
      /\ SameSync /\ SameTree /\ view' = view /\ cursor' = cursor
      /\ announced' = announced /\ frameDue' = frameDue
  BY UnchangedVars DEF DeferCopyMode
<1>3. /\ view.offset \in Nat /\ pages \in Seq(Nat) /\ pages' \in Seq(Nat)
      /\ ~ retrying => pages' # <<>> /\ pages'[Len(pages')] = view.offset
  BY <1>1, <1>2, ViewsFields, AppendItems DEF Base, ViewTyped
<1>4. OnScreen' = OnScreen
  BY <1>2 DEF OnScreen, SameSync
<1>5. ViewTyped' /\ TreeKnows'
  BY <1>1, <1>2, <1>3 DEF Base, ViewTyped, TreeKnows, SameTree
<1>6. retrying \in BOOLEAN
  BY <1>1 DEF Base, ViewTyped
<1>7. PageHeard' /\ PageAsked'
  BY <1>1, <1>2, <1>3, <1>4, <1>6 DEF Base, PageHeard, PageAsked, Heard, Excused, SameTree
<1> QED BY <1>1, <1>2, <1>4, <1>5, <1>7 DEF Base, ViewInv, LiveHeard, CopyHeard,
      Heard, Excused, SameTree, SameSync

LEMMA InCopyKeeps ==
  ASSUME TypeOK, ViewInv, NEW text \in Texts, NEW at \in Rows,
         NEW offset \in {0, LastRow}, InCopyMode(text, at, offset)
  PROVE  ViewInv'
<1>1. Base
  BY FromViewInv
<1>2. PICK copy : copy = [texts |-> AllRows(text), cursor |-> at, offset |-> offset,
                          selection |-> IF offset = 0 THEN NoSelection ELSE <<1, at>>]
  OBVIOUS
<1>3. /\ view.copy # NotCopying /\ view' = [view EXCEPT !.copy = copy]
      /\ frameDue' = TRUE /\ SameSync /\ SameTree /\ cursor' = cursor
      /\ pages' = pages /\ announced' = announced /\ retrying' = retrying
  BY <1>2, UnchangedVars DEF InCopyMode
<1>4. offset \in Nat /\ at \in Int
  BY RowsNat
<1>5. copy \in ScreenSet
  <2>1. AllRows(text) \in [Rows -> Texts]
    BY DEF AllRows
  <2>2. (IF offset = 0 THEN NoSelection ELSE <<1, at>>) \in Selections
    BY <1>4, RowsNat DEF Selections
  <2> QED BY <1>2, <1>4, <2>1, <2>2 DEF ScreenSet
<1>6. /\ view' \in Views /\ view'.copy # NotCopying /\ view'.frozen = view.frozen
  BY <1>1, <1>3, <1>5, CopyTyped DEF Base, ViewTyped, Views
<1>7. ViewTyped' /\ TreeKnows'
  BY <1>1, <1>3, <1>6 DEF Base, ViewTyped, TreeKnows, SameTree
<1> QED BY <1>1, <1>3, <1>6, <1>7 DEF Base, ViewInv, LiveHeard, PageHeard, CopyHeard,
      PageAsked

LEMMA ExitKeeps ==
  ASSUME TypeOK, ViewInv, ExitCopyMode
  PROVE  ViewInv'
<1>1. Base
  BY FromViewInv
<1>2. /\ view' = SnappedToLive(view) /\ frameDue' = TRUE
      /\ excused' = IF announced THEN excused ELSE excused \cup {"screen"}
      /\ SameSync /\ snap' = snap /\ tree' = tree /\ queued' = queued
      /\ cursor' = cursor /\ pages' = pages /\ announced' = announced
      /\ retrying' = retrying
  BY UnchangedVars DEF ExitCopyMode
<1>3. /\ view' \in Views /\ ~ view'.frozen /\ view'.offset = 0 /\ view'.painted = 0
      /\ view'.copy = NotCopying
  BY <1>1, <1>2, LiveTyped DEF Base, ViewTyped
<1>4. ViewTyped'
  BY <1>1, <1>2, <1>3 DEF Base, ViewTyped
<1>5. TreeKnows'
  BY <1>1, <1>2, KnowsAsMuch DEF Base
<1>6. Excused'
  BY <1>2 DEF Excused
<1> QED BY <1>3, <1>4, <1>5, <1>6 DEF ViewInv, LiveHeard, PageHeard, CopyHeard, PageAsked

LEMMA SelectKeeps ==
  ASSUME TypeOK, ViewInv, NEW selection \in {NoSelection, <<1, LastRow>>},
         Select(selection)
  PROVE  ViewInv'
<1>1. Base
  BY FromViewInv
<1>2. PICK chosen : chosen = IF selection = NoSelection THEN NoSelection
                             ELSE <<selection[1] - view.offset, selection[2] - view.offset>>
  OBVIOUS
<1>3. PICK v : v = [view EXCEPT !.selection = chosen]
  OBVIOUS
<1>4. PICK screen : screen = Screen(v, mirror, cursor)
  OBVIOUS
<1>5. /\ view.copy = NotCopying /\ view' = v
      /\ TellSelection(screen) /\ frameDue' = TRUE
      /\ SameSync /\ cursor' = cursor /\ pages' = pages
      /\ announced' = announced /\ retrying' = retrying
  BY <1>2, <1>3, <1>4, UnchangedVars DEF Select
<1>6. view \in Views /\ view.offset \in Int /\ cursor \in Rows
  BY <1>1, ViewsFields DEF Base, ViewTyped
<1>7. chosen \in Selections
  BY <1>2, <1>6, RowsNat DEF Selections
<1>8. /\ v \in Views /\ v.copy = NotCopying /\ v.offset = view.offset
      /\ v.frozen = view.frozen /\ v.page = view.page /\ v.painted = view.painted
  BY <1>3, <1>5, <1>6, <1>7 DEF Views
<1>9. screen \in ScreenSet /\ OnScreen' = screen
  BY <1>1, <1>4, <1>5, <1>6, <1>8, ScreenTyped DEF Base, OnScreen, SameSync
<1>10. /\ TreeKnows' /\ ("screen" \in excused => "screen" \in excused')
       /\ \/ snap' = snap /\ snap.selection = screen.selection
          \/ snap' = [snap EXCEPT !.selection = screen.selection, !.offset = screen.offset]
  BY <1>1, <1>5, <1>9, SelectionTells DEF Knowing, Base, ViewTyped
<1>11. snap \in ScreenSet
  BY <1>1 DEF Base, ViewTyped
<1>12. snap' \in ScreenSet
  BY <1>9, <1>10, <1>11 DEF ScreenSet
\* But for the selection, the screen is as it was.
<1>13. OnScreen \in ScreenSet /\ OnScreen.texts = screen.texts
       /\ OnScreen.cursor = screen.cursor /\ OnScreen.offset = screen.offset
  BY <1>1, <1>4, <1>5, <1>6, <1>8, ScreenParts, ScreenTyped DEF Base, OnScreen
<1>14. Heard => Heard'
  <2> SUFFICES ASSUME snap = OnScreen PROVE snap' = screen
    BY <1>9 DEF Heard
  <2>1. /\ snap'.texts = screen.texts /\ snap'.cursor = screen.cursor
        /\ snap'.offset = screen.offset /\ snap'.selection = screen.selection
    BY <1>10, <1>11, <1>13 DEF ScreenSet
  <2> QED BY <1>9, <1>12, <2>1, ScreensEqual
<1>15. Excused => Excused'
  BY <1>5, <1>10 DEF Excused
<1>16. ViewTyped'
  BY <1>1, <1>5, <1>8, <1>12 DEF Base, ViewTyped
<1>17. LiveHeard' /\ PageHeard' /\ PageAsked'
  BY <1>1, <1>5, <1>8, <1>14, <1>15 DEF Base, LiveHeard, PageHeard, PageAsked, SameSync
<1> QED BY <1>5, <1>8, <1>10, <1>16, <1>17 DEF ViewInv, CopyHeard

\* An event that tells the snapshot of the scroll position alone.
LEMMA OffsetTold ==
  ASSUME TypeOK, ViewInv, snap' = [snap EXCEPT !.offset = OnScreen.offset], TreeKnows',
         "screen" \in excused => "screen" \in excused',
         frameDue' \in {frameDue, TRUE},
         SameSync, view' = view, cursor' = cursor, pages' = pages,
         announced' = announced, retrying' = retrying
  PROVE  ViewInv'
<1>1. Base
  BY FromViewInv
<1>2. OnScreen' = OnScreen
  BY DEF OnScreen, SameSync
<1>3. OnScreen \in ScreenSet /\ snap \in ScreenSet
  BY <1>1, OnScreenTyped DEF Base, ViewTyped
<1>4. snap' \in ScreenSet
  BY <1>3 DEF ScreenSet
<1>5. Heard => Heard'
  BY <1>2, <1>3 DEF Heard, ScreenSet
<1>6. frameDue \in BOOLEAN /\ (frameDue => frameDue')
  BY <1>1 DEF Base, ViewTyped
<1>7. Excused => Excused'
  BY <1>6 DEF Excused
<1>8. ViewTyped'
  BY <1>1, <1>4, <1>6 DEF Base, ViewTyped
<1> QED BY <1>1, <1>5, <1>6, <1>7, <1>8 DEF Base, ViewInv, LiveHeard, PageHeard, CopyHeard,
      PageAsked, SameSync

LEMMA TitleKeeps ==
  ASSUME TypeOK, ViewInv, TitleChanged
  PROVE  ViewInv'
<1>1. Base
  BY FromViewInv
<1>2. /\ TellTitle(OnScreen) /\ frameDue' \in {frameDue, TRUE} /\ SameSync
      /\ view' = view /\ cursor' = cursor /\ pages' = pages
      /\ announced' = announced /\ retrying' = retrying
  BY UnchangedVars DEF TitleChanged
<1>3. PICK screen : screen = OnScreen
  OBVIOUS
<1>4. screen \in ScreenSet /\ Knowing
  BY <1>1, <1>3, OnScreenTyped DEF Base, Knowing, ViewTyped
<1>5. /\ snap' = [snap EXCEPT !.offset = OnScreen.offset] /\ TreeKnows'
      /\ "screen" \in excused => "screen" \in excused'
  BY <1>2, <1>3, <1>4, TitleTells
<1> QED BY <1>2, <1>5, OffsetTold

LEMMA OriginKeeps ==
  ASSUME TypeOK, ViewInv, MoveOrigin
  PROVE  ViewInv'
<1>1. Base
  BY FromViewInv
<1>2. /\ TellOrigin(OnScreen) /\ frameDue' = TRUE /\ SameSync
      /\ view' = view /\ cursor' = cursor /\ pages' = pages
      /\ announced' = announced /\ retrying' = retrying
  BY UnchangedVars DEF MoveOrigin
<1>3. PICK screen : screen = OnScreen
  OBVIOUS
<1>4. screen \in ScreenSet /\ Knowing
  BY <1>1, <1>3, OnScreenTyped DEF Base, Knowing, ViewTyped
<1>5. /\ snap' = [snap EXCEPT !.offset = OnScreen.offset] /\ TreeKnows'
      /\ "screen" \in excused => "screen" \in excused'
  BY <1>2, <1>3, <1>4, OriginTells
<1> QED BY <1>2, <1>5, OffsetTold

LEMMA ResizeKeeps ==
  ASSUME TypeOK, ViewInv, Resize
  PROVE  ViewInv'
<1>1. Base
  BY FromViewInv
<1>2. PICK v : v = SnappedToLive(view)
  OBVIOUS
<1>3. PICK screen : screen = Screen(v, mirror, cursor)
  OBVIOUS
<1>4. /\ view' = v /\ TellDimensions(screen) /\ frameDue' = TRUE /\ SameSync
      /\ cursor' = cursor /\ pages' = pages
      /\ announced' = announced /\ retrying' = retrying
  BY <1>2, <1>3, UnchangedVars DEF Resize
<1>5. /\ v \in Views /\ ~ v.frozen /\ v.offset = 0 /\ v.painted = 0
      /\ v.copy = NotCopying
  BY <1>1, <1>2, LiveTyped DEF Base, ViewTyped
<1>6. screen \in ScreenSet /\ OnScreen' = screen
  BY <1>1, <1>3, <1>4, <1>5, ScreenTyped DEF Base, ViewTyped, OnScreen, SameSync
<1>7. snap' = screen /\ TreeKnows'
  BY <1>1, <1>4, <1>6, DimensionsTell DEF Knowing, Base, ViewTyped
<1>8. ViewTyped'
  BY <1>1, <1>4, <1>5, <1>6, <1>7 DEF Base, ViewTyped
<1> QED BY <1>4, <1>5, <1>6, <1>7, <1>8 DEF ViewInv, LiveHeard, PageHeard, CopyHeard,
      PageAsked, Heard

LEMMA RedrawKeeps ==
  ASSUME TypeOK, ViewInv, Redraw
  PROVE  ViewInv'
<1>1. Base
  BY FromViewInv
<1>2. PICK screen : screen = OnScreen
  OBVIOUS
<1>3. /\ frameDue /\ frameDue' = FALSE
      /\ IF view.copy # NotCopying \/ announced THEN TellView(screen) ELSE SameTree
      /\ announced' = (view.copy # NotCopying)
      /\ SameSync /\ view' = view /\ cursor' = cursor /\ pages' = pages
      /\ retrying' = retrying
  BY <1>2, UnchangedVars DEF Redraw
<1>4. screen \in ScreenSet /\ OnScreen' = screen
  BY <1>1, <1>2, <1>3, OnScreenTyped DEF Base, OnScreen, SameSync
<1>5. CASE view.copy # NotCopying \/ announced
  <2>1. snap' = screen /\ TreeKnows'
    BY <1>1, <1>3, <1>4, <1>5, ViewTells DEF Knowing, Base, ViewTyped
  <2>2. ViewTyped'
    BY <1>1, <1>3, <1>4, <2>1 DEF Base, ViewTyped
  <2> QED BY <1>1, <1>3, <1>4, <2>1, <2>2 DEF Base, ViewInv, LiveHeard, PageHeard,
        CopyHeard, PageAsked, Heard
<1>6. CASE ~ (view.copy # NotCopying \/ announced)
  <2>1. SameTree /\ TreeKnows'
    BY <1>1, <1>3, <1>6 DEF Base, SameTree, TreeKnows
  <2>2. ViewTyped'
    BY <1>1, <1>3, <2>1 DEF Base, ViewTyped, SameTree
  <2> QED BY <1>1, <1>2, <1>3, <1>4, <1>6, <2>1, <2>2 DEF Base, ViewInv, LiveHeard,
        PageHeard, CopyHeard, PageAsked, Heard, Excused, SameTree, SameSync
<1> QED BY <1>5, <1>6

-----------------------------------------------------------------------------
\* The view and RenderSync together.

LEMMA ViewInitially ==
  AInit => ViewInv
<1> SUFFICES ASSUME AInit PROVE ViewInv
  OBVIOUS
<1>1. /\ view = LiveView /\ cursor = 1 /\ pages = <<>> /\ mirror = AllRows(Blank)
      /\ announced = FALSE /\ frameDue = FALSE /\ retrying = FALSE
      /\ snap = Screen(LiveView, AllRows(Blank), 1)
      /\ tree = NoTree /\ queued = NoUpdate /\ excused = {}
  BY DEF AInit, Init, SnapOf
<1>2. LiveView \in Views
  <2>1. LivePage \in Pages
    BY BlankText, RowsNat DEF LivePage, Pages
  <2> QED BY <2>1, RowsNat DEF LiveView, Views
<1>3. snap \in ScreenSet
  BY <1>1, <1>2, BlankText, RowsNat, ScreenTyped
<1>4. ViewTyped
  <2>1. view \in Views /\ cursor \in Rows /\ pages \in Seq(Nat)
    BY <1>1, <1>2, RowsNat
  <2>2. announced \in BOOLEAN /\ frameDue \in BOOLEAN /\ retrying \in BOOLEAN
    BY <1>1
  <2> QED BY <1>3, <2>1, <2>2 DEF ViewTyped
<1>5. TreeKnows
  BY <1>1 DEF TreeKnows
<1>6. Heard
  BY <1>1 DEF Heard, OnScreen
<1> QED BY <1>1, <1>4, <1>5, <1>6 DEF ViewInv, LiveHeard, PageHeard, CopyHeard, PageAsked,
      LiveView

LEMMA GuiKeeps ==
  ASSUME TypeOK, TypeOK', ViewInv, Gui
  PROVE  ViewInv'
<1>1. CASE ScrollToLive \/ NoHistory
  BY <1>1, BackToLiveKeeps DEF ScrollToLive, NoHistory, Paintable
<1> QED BY <1>1, RenderKeeps, ScrollToKeeps, SearchPromptKeeps, DropPageKeeps,
      PaintPageKeeps, EnterKeeps, DeferKeeps, InCopyKeeps, ExitKeeps, SelectKeeps,
      TitleKeeps, ResizeKeeps, OriginKeeps, RedrawKeeps DEF Gui

LEMMA ViewStepwise ==
  TypeOK /\ TypeOK' /\ ViewInv /\ [ANext]_allVars => ViewInv'
<1> SUFFICES ASSUME TypeOK, TypeOK', ViewInv, [ANext]_allVars PROVE ViewInv'
  OBVIOUS
<1>1. CASE UNCHANGED allVars
  <2>1. SameView /\ SameTree /\ SameSync
    BY <1>1, UnchangedVars DEF allVars
  <2>2. OnScreen' = OnScreen
    BY <2>1 DEF OnScreen, SameView, SameSync
  <2> QED BY <2>1, <2>2 DEF ViewInv, SameView, SameTree, SameSync, ViewTyped, TreeKnows,
        LiveHeard, PageHeard, CopyHeard, PageAsked, Heard, Excused
<1>2. CASE ANext
  BY <1>2, DaemonKeeps, GuiKeeps, ActivateKeeps, OfferKeeps DEF ANext
<1> QED BY <1>1, <1>2

\* The view adds to RenderSync's client and changes nothing of it.
LEMMA StepIsSync ==
  [ANext]_allVars => [Next]_vars
<1> SUFFICES ASSUME ANext PROVE Next \/ UNCHANGED vars
  BY DEF allVars, syncVars
<1>1. CASE Daemon
  BY <1>1 DEF Daemon, Next, Deliver
<1>2. CASE Gui
  BY <1>2 DEF Gui, RenderUpdate, ScrollTo, SearchPrompt, ScrollToLive, BackToLive,
     DropPage, PaintPage, NoHistory, EnterCopyMode, DeferCopyMode, InCopyMode,
     ExitCopyMode, Select, TitleChanged, Resize, MoveOrigin, Redraw, syncVars, Next,
     Deliver
<1>3. CASE Activate \/ Offer
  BY <1>3 DEF Activate, Offer, syncVars
<1> QED BY <1>1, <1>2, <1>3 DEF ANext

\* A pane's view with its accessibility tree is a client of RenderSync's.
THEOREM TakesPart ==
  ASpec => Spec
<1>1. AInit => Init
  BY DEF AInit
<1> QED BY <1>1, StepIsSync, PTL DEF ASpec, Spec

\* So its mirror follows the screen as RenderSync's does.
THEOREM ViewConverges ==
  ASpec => []MirrorFollows
BY TakesPart, Converges, PTL

LEMMA ViewInvariance ==
  ASpec => []AInv
<1>1. IInv => TypeOK
  BY DEF IInv
<1>2. ASpec => []TypeOK
  BY <1>1, TakesPart, Invariance, PTL
<1>3. ASpec => []ViewInv
  BY <1>2, ViewInitially, ViewStepwise, PTL DEF ASpec
<1> QED BY <1>2, <1>3, PTL DEF AInv

LEMMA HearsFromInvariant ==
  AInv => ReaderHearsScreen
<1> SUFFICES ASSUME AInv PROVE ReaderHearsScreen
  OBVIOUS
<1>1. TypeOK /\ Base
  BY FromViewInv DEF AInv
<1>2. ToldWhatItKnows
  BY <1>1 DEF Base, ToldWhatItKnows, TreeKnows, NodeKnows
<1>3. ReadsWhatShows
  <2> SUFFICES ASSUME tree # NoTree, Settled, "screen" \notin excused
               PROVE  /\ tree.texts = OnScreen.texts
                      /\ snap.cursor = OnScreen.cursor
                      /\ "caret" \notin excused => tree.node.caret[1] = OnScreen.cursor
                      /\ tree.node.offset = OnScreen.offset
                      /\ tree.node.selection = OnScreen.selection
                      /\ excused = {} =>
                           tree.node.caret[2] = TextLen(OnScreen.texts[OnScreen.cursor])
    BY DEF ReadsWhatShows
  <2>1. ~ frameDue /\ pages = <<>> /\ toDaemon = <<>> /\ ~ HasUpdate(toClient)
    BY DEF Settled, Quiet, HasUpdate
  <2>2. Heard
    BY <1>1, <2>1 DEF Base, LiveHeard, PageHeard, CopyHeard, Excused, ViewTyped, Views
  <2> QED BY <1>1, <2>2 DEF Base, TreeKnows, NodeKnows, Heard
<1>4. PageIsTheOneAsked
  BY <1>1 DEF Base, PageAsked, PageIsTheOneAsked
<1> QED BY <1>2, <1>3, <1>4 DEF ReaderHearsScreen

\* With nothing on its way to the pane, assistive technology has been told
\* what the pane shows, but for what is excused; and the page shown is the one
\* that was asked for last.
THEOREM Hears ==
  ASpec => []ReaderHearsScreen
BY ViewInvariance, HearsFromInvariant, PTL
=============================================================================
