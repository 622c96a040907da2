------------------------- MODULE ScrollbackProofs -------------------------
(***************************************************************************)
(* Theorems about module Scrollback, for every length of the history and   *)
(* every size of mailbox, frames and disk: whatever fails, every row given *)
(* to the archive is accounted for, no request is answered with another    *)
(* row than it asked for, and what it leaves blank is gone; a search or a  *)
(* prompt jump answers a row of its kind that the client may see.          *)
(***************************************************************************)
EXTENDS Scrollback, FiniteSetTheorems, SequenceTheorems, TLAPS

\* Rows that stand one behind the other, from an index on.
InLine(rows, first) == \A k \in DOMAIN rows : rows[k] = first + k - 1

RowsOf(rows) == {rows[k] : k \in DOMAIN rows}

Segments == [first : Nat, rows : Seq(Nat)]

Cores == [base : Nat, segments : Seq(Segments), active : Seq(Nat), pending : Seq(Nat),
          key : BOOLEAN, paused : BOOLEAN, lost : Nat, evicted : Nat]

Past(s) == s.first + Len(s.rows)

\* The segments' rows stand under their indices, in order, before an index.
Filed(segments, base) ==
    /\ \A i \in DOMAIN segments :
         InLine(segments[i].rows, segments[i].first) /\ Past(segments[i]) <= base
    /\ \A i, j \in DOMAIN segments : i < j => Past(segments[i]) <= segments[j].first

\* The index the core gives to the next row.
End(c) == c.base + Len(c.active) + Len(c.pending)

Sound(c) ==
    /\ c \in Cores
    /\ InLine(c.active, c.base)
    /\ InLine(c.pending, c.base + Len(c.active))
    /\ Filed(c.segments, c.base)

\* Nothing is under way while the disk is given a rest.
Rested(c) == c.paused => c.active = <<>> /\ c.pending = <<>>

\* Rows the core has, or knows to be gone.
Counted(c) == c.lost + c.evicted + DiskRows(c.segments) + Len(c.active) + Len(c.pending)

Windows == [lo : Nat, hi : Nat]

Batches == [kind : {"batch"}, gap : Nat, rows : Seq(Nat)]
ReadMessages == [kind : {"read"}, reader : Readers, window : Windows]
ShutdownMessages == [kind : {"shutdown"}]

MailboxMessages == Batches \cup ReadMessages \cup ShutdownMessages

Cells == Nat \cup {Blank}
Pages == [kind : {"page"}, first : Nat, tail : Seq(Nat)]
Yanks == [kind : {"yank", "topped"}, first : Nat, last : Nat, start : Nat,
          rows : Seq(Cells), top : Nat]

Typed ==
    /\ received \in Nat /\ dropped \in Nat /\ pendingGap \in Nat
    /\ manager \in {"open", "closing", "none"}
    /\ mailbox \in Seq(MailboxMessages)
    /\ writer \in {"running", "exited", "dead"}
    /\ read \in [Readers -> {"idle", "planned", "waiting", "replied", "answered", "failed"}]
    /\ window \in [Readers -> Windows]
    /\ reply \in [Readers -> SUBSET (Nat \X Nat)]
    /\ attached \in BOOLEAN
    /\ pushed \in Nat /\ hot \in Seq(Nat)
    /\ DOMAIN plan = Readers

\* Every message is at the index where the rows before it end, and no rows
\* behind a read are rows it wants.
InPlace(box, at) ==
    /\ \A i \in DOMAIN box :
         IF box[i].kind = "batch"
         THEN /\ InLine(box[i].rows, at[i] + box[i].gap)
              /\ at[i + 1] = at[i] + box[i].gap + Len(box[i].rows)
         ELSE at[i + 1] = at[i]
    /\ \A i, j \in 1 .. Len(box) + 1 : i <= j => at[i] <= at[j]
    /\ \A i, j \in DOMAIN box :
         i < j /\ box[i].kind = "read" /\ box[j].kind = "batch"
         => box[i].window.hi <= at[j] + box[j].gap

\* The mailbox takes the rows from the core's end to where the manager is.
PlacedAt(at) ==
    /\ at \in [1 .. Len(mailbox) + 1 -> Nat]
    /\ InPlace(mailbox, at)
    /\ at[1] = End(core)
    /\ manager # "none" => at[Len(mailbox) + 1] + pendingGap = received

Placed == writer = "running" => \E at : PlacedAt(at)

\* The rows the manager was given are those that have left the hot buffer.
Tiers ==
    /\ Len(hot) <= pushed /\ InLine(hot, pushed - Len(hot))
    /\ received = IF attached THEN pushed - Len(hot) ELSE 0
    /\ ~ attached => core = NewCore /\ mailbox = <<>> /\ manager = "none"
         /\ writer # "running"

Books ==
    writer = "running" /\ manager # "none" =>
        received = dropped + Counted(core) + Cardinality(Queued)

ArchiveInv == Sound(core) /\ Rested(core) /\ Placed /\ Tiers /\ Books

\* A read in the mailbox is one its reader waits for, or has given up.
ReadsPosted ==
    /\ \A i \in DOMAIN mailbox : mailbox[i].kind = "read" =>
         LET r == mailbox[i].reader
         IN  /\ read[r] \in {"waiting", "failed"}
             /\ read[r] = "waiting" => mailbox[i].window = window[r]
             /\ mailbox[i].window.hi <= received
    /\ \A i, j \in DOMAIN mailbox :
         /\ mailbox[i].kind = "read" /\ mailbox[j].kind = "read"
         /\ mailbox[i].reader = mailbox[j].reader
         => i = j

Held == Kept(core) \cup Queued \cup RowsOf(hot)
Gone(i) == i \in 0 .. pushed - 1 /\ i \notin Held

\* What a reader has been answered is rows of its window; the others are gone.
Truthful(rows, w) ==
    /\ \A p \in rows : p[1] = p[2] /\ p[1] \in w.lo .. w.hi - 1
    /\ \A i \in w.lo .. w.hi - 1 : <<i, i>> \in rows \/ Gone(i)

InLineOrGone(rows, first) ==
    \A k \in DOMAIN rows :
      rows[k] = first + k - 1 \/ (rows[k] = Blank /\ Gone(first + k - 1))

\* A yank has the rows from its first on, up to where the archive has been read.
Chained(y) ==
    /\ InLineOrGone(y.rows, y.start)
    /\ IF y.rows = <<>> THEN y.top <= y.first
       ELSE y.start = y.first /\ y.start + Len(y.rows) = y.top

YankFits(y, w) ==
    /\ y.kind = "yank" =>
         /\ y.rows = <<>>
         /\ IF w.lo < w.hi THEN w.lo = y.first ELSE w.hi <= y.first
    /\ y.kind = "topped" =>
         /\ w.lo = Greater(y.top, y.first) /\ w.lo < w.hi
         /\ Chained(y)

PageFits(p, w) ==
    /\ p.first = w.lo /\ w.lo < w.hi
    /\ InLine(p.tail, w.hi)

\* What a reader has planned fits the window it has asked for.
PlanFits(p, w) ==
    /\ p \in Pages \cup Yanks
    /\ w.hi <= received
    /\ p \in Pages => PageFits(p, w)
    /\ p \in Yanks => YankFits(p, w)

Fit(r) ==
    /\ read[r] = "idle" => reply[r] = {}
    /\ read[r] \in {"planned", "waiting", "replied"} => PlanFits(plan[r], window[r])
    /\ read[r] = "replied" => Truthful(reply[r], window[r])

ReadsFit == \A r \in Readers : Fit(r)

AnswersFit == ReadsAreAligned /\ \A i \in blank : Gone(i)

IInv == Typed /\ ArchiveInv /\ ReadsPosted /\ ReadsFit /\ AnswersFit
-----------------------------------------------------------------------------
\* Rows in line.

\* The rows in line from an index on are an interval of the indices.
LEMMA LineRows ==
  ASSUME NEW rows \in Seq(Nat), NEW first \in Nat, InLine(rows, first)
  PROVE  /\ RowsOf(rows) = first .. first + Len(rows) - 1
         /\ IsFiniteSet(RowsOf(rows))
         /\ Cardinality(RowsOf(rows)) = Len(rows)
<1>1. Len(rows) \in Nat /\ DOMAIN rows = 1 .. Len(rows)
  OBVIOUS
<1>2. RowsOf(rows) = first .. first + Len(rows) - 1
  <2>1. ASSUME NEW x \in RowsOf(rows) PROVE x \in first .. first + Len(rows) - 1
    BY <1>1, <2>1 DEF RowsOf, InLine
  <2>2. ASSUME NEW x \in first .. first + Len(rows) - 1 PROVE x \in RowsOf(rows)
    <3>1. x - first + 1 \in DOMAIN rows /\ rows[x - first + 1] = x
      BY <1>1, <2>2 DEF InLine
    <3> QED  BY <3>1 DEF RowsOf
  <2> QED  BY <2>1, <2>2
<1>3. /\ IsFiniteSet(first .. first + Len(rows) - 1)
      /\ Cardinality(first .. first + Len(rows) - 1) = Len(rows)
  <2> DEFINE last == first + Len(rows) - 1
  <2>1. last \in Int /\ (first > last <=> Len(rows) = 0) /\ last - first + 1 = Len(rows)
    BY <1>1
  <2> HIDE DEF last
  <2>2. first \in Int /\ last \in Int
    BY <2>1
  <2>3. /\ IsFiniteSet(first .. last)
        /\ Cardinality(first .. last) = IF first > last THEN 0 ELSE last - first + 1
    BY <2>2, FS_Interval
  <2>4. IsFiniteSet(first .. last) /\ Cardinality(first .. last) = Len(rows)
    BY <2>1, <2>3
  <2> QED  BY <2>4 DEF last
<1> QED  BY <1>2, <1>3

\* Rows in line, one run behind the other, are in line.
LEMMA LineConcat ==
  ASSUME NEW a \in Seq(Nat), NEW b \in Seq(Nat), NEW first \in Nat,
         InLine(a, first), InLine(b, first + Len(a))
  PROVE  /\ a \o b \in Seq(Nat) /\ Len(a \o b) = Len(a) + Len(b)
         /\ InLine(a \o b, first)
         /\ RowsOf(a \o b) = RowsOf(a) \cup RowsOf(b)
<1>1. /\ a \o b \in Seq(Nat) /\ Len(a \o b) = Len(a) + Len(b)
      /\ Len(a) \in Nat /\ Len(b) \in Nat
      /\ \A i \in 1 .. Len(a) + Len(b) :
           (a \o b)[i] = IF i <= Len(a) THEN a[i] ELSE b[i - Len(a)]
  BY ConcatProperties
<1>2. InLine(a \o b, first)
  <2>1. ASSUME NEW k \in 1 .. Len(a) + Len(b) PROVE (a \o b)[k] = first + k - 1
    <3>1. CASE k <= Len(a)
      BY <1>1, <3>1 DEF InLine
    <3>2. CASE ~ k <= Len(a)
      <4>1. k - Len(a) \in 1 .. Len(b)
        BY <1>1, <3>2
      <4> QED  BY <1>1, <3>2, <4>1 DEF InLine
    <3> QED  BY <3>1, <3>2
  <2> QED  BY <1>1, <2>1 DEF InLine
<1>3. /\ RowsOf(a \o b) = first .. first + (Len(a) + Len(b)) - 1
      /\ RowsOf(a) = first .. first + Len(a) - 1
      /\ RowsOf(b) = first + Len(a) .. first + Len(a) + Len(b) - 1
  <2>1. RowsOf(a \o b) = first .. first + Len(a \o b) - 1
    BY <1>1, <1>2, LineRows
  <2>2. RowsOf(b) = (first + Len(a)) .. (first + Len(a)) + Len(b) - 1
    BY <1>1, LineRows
  <2> QED  BY <1>1, <2>1, <2>2, LineRows
<1> QED  BY <1>1, <1>2, <1>3

LEMMA NoRows ==
  ASSUME NEW first
  PROVE  <<>> \in Seq(Nat) /\ Len(<<>>) = 0 /\ InLine(<<>>, first) /\ RowsOf(<<>>) = {}
BY DEF InLine, RowsOf

-----------------------------------------------------------------------------
\* The segments.

FiledRows(segments) == UNION {RowsOf(segments[i].rows) : i \in DOMAIN segments}

Cellar(segments) ==
    UNION {{<<i, k>> : k \in DOMAIN segments[i].rows} : i \in DOMAIN segments}

\* Every row of a segment stands alone: the rows can be counted by their
\* places.
LEMMA SegmentsCount ==
  ASSUME NEW segments \in Seq(Segments), NEW base \in Nat, Filed(segments, base)
  PROVE  /\ FiledRows(segments) \subseteq 0 .. base - 1
         /\ IsFiniteSet(FiledRows(segments))
         /\ Cardinality(FiledRows(segments)) = DiskRows(segments)
         /\ DiskRows(segments) \in Nat
<1> DEFINE cellar == Cellar(segments)
           f == [p \in cellar |-> segments[p[1]].rows[p[2]]]
<1>1. \A i \in DOMAIN segments :
        /\ segments[i].rows \in Seq(Nat) /\ segments[i].first \in Nat
        /\ DOMAIN segments[i].rows = 1 .. Len(segments[i].rows)
        /\ Len(segments[i].rows) \in Nat
        /\ \A k \in DOMAIN segments[i].rows :
             segments[i].rows[k] = segments[i].first + k - 1
        /\ segments[i].first + Len(segments[i].rows) <= base
  <2> TAKE i \in DOMAIN segments
  <2>1. segments[i] \in Segments
    OBVIOUS
  <2> QED  BY <2>1 DEF Segments, Filed, InLine, Past
<1>2. \A i, j \in DOMAIN segments : i < j =>
        segments[i].first + Len(segments[i].rows) <= segments[j].first
  BY DEF Filed, Past
<1>3. FiledRows(segments) \subseteq 0 .. base - 1
  <2>1. SUFFICES ASSUME NEW i \in DOMAIN segments, NEW k \in DOMAIN segments[i].rows
                 PROVE  segments[i].rows[k] \in 0 .. base - 1
    BY DEF FiledRows, RowsOf
  <2>2. PICK a \in Nat, c \in Nat : /\ a = segments[i].first /\ a + c <= base
                                /\ k \in 1 .. c /\ segments[i].rows[k] = a + k - 1
    BY <1>1
  <2> QED  BY <2>2
<1>4. IsFiniteSet(FiledRows(segments))
  <2>1. IsFiniteSet(0 .. base - 1)
    BY FS_Interval
  <2> QED  BY <1>3, <2>1, FS_Subset
<1>5. \A p \in cellar : \E i \in DOMAIN segments :
        \E k \in DOMAIN segments[i].rows : p = <<i, k>> /\ f[p] = segments[i].rows[k]
  <2>1. ASSUME NEW p \in cellar, NEW i \in DOMAIN segments,
               NEW k \in DOMAIN segments[i].rows, p = <<i, k>>
        PROVE  f[p] = segments[i].rows[k]
    BY <2>1
  <2>2. \A p \in cellar : \E i \in DOMAIN segments :
          \E k \in DOMAIN segments[i].rows : p = <<i, k>>
    BY DEF Cellar
  <2> QED  BY <2>1, <2>2
<1>6. f \in Injection(cellar, FiledRows(segments))
  <2>1. f \in [cellar -> FiledRows(segments)]
    BY <1>5 DEF FiledRows, RowsOf
  <2>2. ASSUME NEW p \in cellar, NEW q \in cellar, f[p] = f[q] PROVE p = q
    <3>1. PICK i \in DOMAIN segments : \E k \in DOMAIN segments[i].rows :
            p = <<i, k>> /\ f[p] = segments[i].rows[k]
      BY <1>5
    <3>2. PICK k \in DOMAIN segments[i].rows : p = <<i, k>> /\ f[p] = segments[i].rows[k]
      BY <3>1
    <3>3. PICK j \in DOMAIN segments : \E m \in DOMAIN segments[j].rows :
            q = <<j, m>> /\ f[q] = segments[j].rows[m]
      BY <1>5
    <3>4. PICK m \in DOMAIN segments[j].rows : q = <<j, m>> /\ f[q] = segments[j].rows[m]
      BY <3>3
    <3> HIDE DEF f, cellar
    <3>5. PICK a \in Nat, c \in Nat : /\ a = segments[i].first /\ c = Len(segments[i].rows)
                                  /\ k \in 1 .. c
      BY <1>1
    <3>6. PICK b \in Nat, d \in Nat : /\ b = segments[j].first /\ d = Len(segments[j].rows)
                                  /\ m \in 1 .. d
      BY <1>1
    <3>7. a + k - 1 = b + m - 1
      BY <1>1, <2>2, <3>2, <3>4, <3>5, <3>6
    <3>8. i \in Nat /\ j \in Nat /\ (i < j => a + c <= b) /\ (j < i => b + d <= a)
      BY <1>2, <3>5, <3>6
    <3>9. i = j
      <4>1. k \in Int /\ m \in Int /\ 1 <= k /\ k <= c /\ 1 <= m /\ m <= d
        BY <3>5, <3>6
      <4>2. ~ a + c <= b /\ ~ b + d <= a
        BY <3>7, <4>1
      <4> QED  BY <3>8, <4>2
    <3>10. k = m
      BY <3>5, <3>6, <3>7, <3>9
    <3> QED  BY <3>2, <3>4, <3>9, <3>10
  <2> QED  BY <2>1, <2>2 DEF Injection, IsInjective
<1>7. f \in Surjection(cellar, FiledRows(segments))
  <2>1. ASSUME NEW x \in FiledRows(segments) PROVE \E p \in cellar : f[p] = x
    <3>1. PICK i \in DOMAIN segments : \E k \in DOMAIN segments[i].rows :
            x = segments[i].rows[k]
      BY DEF FiledRows, RowsOf
    <3>3. PICK k \in DOMAIN segments[i].rows : x = segments[i].rows[k]
      BY <3>1
    <3>2. <<i, k>> \in cellar
      BY DEF Cellar
    <3> QED  BY <3>2, <3>3 DEF Cellar
  <2>2. f \in [cellar -> FiledRows(segments)]
    BY <1>6 DEF Injection
  <2> QED  BY <2>1, <2>2 DEF Surjection
<1>8. Cardinality(cellar) = Cardinality(FiledRows(segments))
  BY <1>4, <1>6, <1>7, FS_Injection
<1>9. DiskRows(segments) = Cardinality(cellar)
  BY DEF DiskRows, Cellar
<1> QED  BY <1>3, <1>4, <1>8, <1>9, FS_CardinalityType

LEMMA NoSegments ==
  ASSUME NEW base
  PROVE  /\ <<>> \in Seq(Segments) /\ Filed(<<>>, base) /\ FiledRows(<<>>) = {}
         /\ DiskRows(<<>>) = 0
<1>1. <<>> \in Seq(Segments) /\ Filed(<<>>, base) /\ FiledRows(<<>>) = {}
  BY DEF Filed, FiledRows
<1>2. Filed(<<>>, 0)
  BY DEF Filed
<1>3. Cardinality(FiledRows(<<>>)) = DiskRows(<<>>)
  BY <1>1, <1>2, SegmentsCount
<1> QED  BY <1>1, <1>3, FS_EmptySet

LEMMA SegmentEnds ==
  ASSUME NEW segments \in Seq(Segments), NEW base \in Nat, Filed(segments, base),
         NEW i \in DOMAIN segments
  PROVE  Past(segments[i]) \in Nat /\ Past(segments[i]) <= base
<1>1. segments[i] \in Segments
  OBVIOUS
<1>2. segments[i].first \in Nat /\ Len(segments[i].rows) \in Nat
  BY <1>1 DEF Segments
<1> QED  BY <1>2 DEF Past, Filed

LEMMA FiledLater ==
  ASSUME NEW segments \in Seq(Segments), NEW base \in Nat, NEW later \in Nat,
         Filed(segments, base), base <= later
  PROVE  Filed(segments, later)
<1>1. ASSUME NEW i \in DOMAIN segments PROVE Past(segments[i]) <= later
  <2>1. Past(segments[i]) \in Nat /\ Past(segments[i]) <= base
    BY SegmentEnds
  <2> QED  BY <2>1
<1> QED  BY <1>1 DEF Filed

\* A segment more.
LEMMA OneMoreSegment ==
  ASSUME NEW segments \in Seq(Segments), NEW base \in Nat, NEW rows \in Seq(Nat),
         Filed(segments, base), InLine(rows, base)
  PROVE  LET more == Append(segments, [first |-> base, rows |-> rows])
         IN  /\ more \in Seq(Segments)
             /\ Filed(more, base + Len(rows))
             /\ FiledRows(more) = FiledRows(segments) \cup RowsOf(rows)
             /\ DiskRows(more) = DiskRows(segments) + Len(rows)
<1> DEFINE s == [first |-> base, rows |-> rows]
           more == Append(segments, s)
<1>1. s \in Segments /\ s.rows = rows /\ s.first = base /\ Past(s) = base + Len(rows)
  BY DEF Segments, Past
<1> HIDE DEF s
<1>2. PICK n \in Nat : n = Len(segments) /\ DOMAIN segments = 1 .. n
  OBVIOUS
<1>3. /\ more \in Seq(Segments) /\ DOMAIN more = 1 .. n + 1
      /\ \A i \in 1 .. n : more[i] = segments[i]
      /\ more[n + 1] = s
  BY <1>1, <1>2, AppendProperties
<1> HIDE DEF more
<1>4. Len(rows) \in Nat
  OBVIOUS
<1>5. Filed(more, base + Len(rows))
  <2>1. \A i \in 1 .. n : Past(segments[i]) \in Nat /\ Past(segments[i]) <= base
    BY <1>2, SegmentEnds
  <2>2. ASSUME NEW i \in 1 .. n + 1
        PROVE  /\ InLine(more[i].rows, more[i].first)
               /\ Past(more[i]) <= base + Len(rows)
    <3>1. CASE i \in 1 .. n
      <4>1. PICK end \in Nat, l \in Nat : end = Past(segments[i]) /\ l = Len(rows) /\ end <= base
        BY <1>4, <2>1, <3>1
      <4>2. InLine(segments[i].rows, segments[i].first)
        BY <1>2, <3>1 DEF Filed
      <4>3. more[i] = segments[i]
        BY <1>3, <3>1
      <4>4. end <= base + l
        BY <4>1
      <4> QED  BY <4>1, <4>2, <4>3, <4>4
    <3>2. CASE i = n + 1
      <4>1. more[i] = s
        BY <1>3, <3>2
      <4>2. base + Len(rows) <= base + Len(rows)
        BY <1>4
      <4> QED  BY <1>1, <4>1, <4>2, Zenon
    <3> QED  BY <3>1, <3>2
  <2>3. ASSUME NEW i \in 1 .. n + 1, NEW j \in 1 .. n + 1, i < j
        PROVE  Past(more[i]) <= more[j].first
    <3>1. i \in 1 .. n
      BY <2>3
    <3>2. CASE j \in 1 .. n
      BY <1>2, <1>3, <2>3, <3>1, <3>2 DEF Filed
    <3>3. CASE j = n + 1
      BY <1>1, <1>3, <2>1, <3>1, <3>3
    <3> QED  BY <3>2, <3>3
  <2> QED  BY <1>3, <2>2, <2>3 DEF Filed
<1>6. FiledRows(more) = FiledRows(segments) \cup RowsOf(rows)
  <2>1. ASSUME NEW x \in FiledRows(more) PROVE x \in FiledRows(segments) \cup RowsOf(rows)
    <3>1. PICK i \in 1 .. n + 1 : x \in RowsOf(more[i].rows)
      BY <1>3 DEF FiledRows
    <3>2. CASE i \in 1 .. n
      BY <1>2, <1>3, <3>1, <3>2 DEF FiledRows
    <3>3. CASE i = n + 1
      BY <1>1, <1>3, <3>1, <3>3
    <3> QED  BY <3>2, <3>3
  <2>2. ASSUME NEW x \in FiledRows(segments) PROVE x \in FiledRows(more)
    BY <1>2, <1>3, <2>2 DEF FiledRows
  <2>3. ASSUME NEW x \in RowsOf(rows) PROVE x \in FiledRows(more)
    BY <1>1, <1>3, <2>3 DEF FiledRows
  <2> QED  BY <2>1, <2>2, <2>3
<1>7. DiskRows(more) = DiskRows(segments) + Len(rows)
  <2>1. /\ FiledRows(segments) \subseteq 0 .. base - 1
        /\ IsFiniteSet(FiledRows(segments))
        /\ Cardinality(FiledRows(segments)) = DiskRows(segments)
        /\ DiskRows(segments) \in Nat
    BY SegmentsCount
  <2>2. base + Len(rows) \in Nat
    BY <1>4
  <2>3. Cardinality(FiledRows(more)) = DiskRows(more)
    BY <1>3, <1>5, <2>2, SegmentsCount
  <2>4. /\ RowsOf(rows) = base .. base + Len(rows) - 1
        /\ IsFiniteSet(RowsOf(rows)) /\ Cardinality(RowsOf(rows)) = Len(rows)
    BY LineRows
  <2>5. FiledRows(segments) \cap RowsOf(rows) = {}
    BY <1>4, <2>1, <2>4
  <2>6. Cardinality(FiledRows(segments) \cup RowsOf(rows))
          = Cardinality(FiledRows(segments)) + Cardinality(RowsOf(rows)) - Cardinality({})
    <3>1. Cardinality(FiledRows(segments) \cup RowsOf(rows))
            = Cardinality(FiledRows(segments)) + Cardinality(RowsOf(rows))
                - Cardinality(FiledRows(segments) \cap RowsOf(rows))
      BY <2>1, <2>4, FS_Union
    <3> QED  BY <2>5, <3>1
  <2>7. Cardinality({}) = 0
    BY FS_EmptySet
  <2> QED  BY <1>4, <1>6, <2>1, <2>3, <2>4, <2>6, <2>7
<1> QED  BY <1>3, <1>5, <1>6, <1>7 DEF more, s

\* The oldest segments go.
LEMMA OldestGo ==
  ASSUME NEW segments \in Seq(Segments), NEW base \in Nat, Filed(segments, base),
         NEW n \in 0 .. Len(segments)
  PROVE  /\ Without(segments, n) \in Seq(Segments)
         /\ Filed(Without(segments, n), base)
         /\ FiledRows(Without(segments, n)) \subseteq FiledRows(segments)
         /\ DiskRows(segments)
              = DiskRows(SubSeq(segments, 1, n)) + DiskRows(Without(segments, n))
         /\ DiskRows(SubSeq(segments, 1, n)) \in Nat
<1> DEFINE old == SubSeq(segments, 1, n)
           kept == Without(segments, n)
<1>1. PICK l \in Nat : l = Len(segments) /\ DOMAIN segments = 1 .. l /\ n \in 0 .. l
  OBVIOUS
<1>2. /\ old \in Seq(Segments) /\ Len(old) = n /\ DOMAIN old = 1 .. n
      /\ \A i \in 1 .. n : old[i] = segments[i]
  <2>1. 1 \in Int /\ n \in Int /\ \A i \in 1 .. n : segments[i] \in Segments
    BY <1>1
  <2>2. /\ old \in Seq(Segments) /\ Len(old) = IF 1 <= n THEN n - 1 + 1 ELSE 0
        /\ \A i \in 1 .. n - 1 + 1 : old[i] = segments[1 + i - 1]
    BY <2>1, SubSeqProperties
  <2> QED  BY <1>1, <2>2
<1>3. /\ kept \in Seq(Segments) /\ Len(kept) = l - n /\ DOMAIN kept = 1 .. l - n
      /\ \A i \in 1 .. l - n : kept[i] = segments[n + i]
  <2>1. n + 1 \in Int /\ l \in Int /\ \A i \in n + 1 .. l : segments[i] \in Segments
    BY <1>1
  <2>2. /\ kept \in Seq(Segments)
        /\ Len(kept) = IF n + 1 <= l THEN l - (n + 1) + 1 ELSE 0
        /\ \A i \in 1 .. l - (n + 1) + 1 : kept[i] = segments[n + 1 + i - 1]
    BY <1>1, <2>1, SubSeqProperties DEF Without
  <2> QED  BY <1>1, <2>2
<1> HIDE DEF old, kept
<1>4. Filed(old, base)
  BY <1>1, <1>2 DEF Filed
<1>5. Filed(kept, base)
  <2>1. \A i \in 1 .. l - n : n + i \in DOMAIN segments
    BY <1>1
  <2>2. \A i, j \in 1 .. l - n : i < j => n + i < n + j
    BY <1>1
  <2> QED  BY <1>3, <2>1, <2>2 DEF Filed
<1>6. FiledRows(segments) = FiledRows(old) \cup FiledRows(kept)
  <2>1. ASSUME NEW x \in FiledRows(segments) PROVE x \in FiledRows(old) \cup FiledRows(kept)
    <3>1. PICK i \in 1 .. l : x \in RowsOf(segments[i].rows)
      BY <1>1 DEF FiledRows
    <3>2. CASE i <= n
      BY <1>2, <3>1, <3>2 DEF FiledRows
    <3>3. CASE ~ i <= n
      <4>1. i - n \in 1 .. l - n /\ n + (i - n) = i
        BY <1>1, <3>3
      <4>2. kept[i - n] = segments[i]
        BY <1>3, <4>1
      <4> QED  BY <1>3, <3>1, <4>1, <4>2 DEF FiledRows
    <3> QED  BY <3>2, <3>3
  <2>2. ASSUME NEW x \in FiledRows(old) PROVE x \in FiledRows(segments)
    BY <1>1, <1>2, <2>2 DEF FiledRows
  <2>3. ASSUME NEW x \in FiledRows(kept) PROVE x \in FiledRows(segments)
    <3>1. PICK i \in 1 .. l - n : x \in RowsOf(kept[i].rows)
      BY <1>3, <2>3 DEF FiledRows
    <3>2. n + i \in DOMAIN segments /\ kept[i] = segments[n + i]
      BY <1>1, <1>3
    <3> QED  BY <3>1, <3>2 DEF FiledRows
  <2> QED  BY <2>1, <2>2, <2>3
<1>7. FiledRows(old) \cap FiledRows(kept) = {}
  <2> SUFFICES ASSUME NEW x, x \in FiledRows(old), x \in FiledRows(kept) PROVE FALSE
    OBVIOUS
  <2>1. PICK i \in 1 .. n : x \in RowsOf(segments[i].rows)
    BY <1>2 DEF FiledRows
  <2>2. PICK m \in 1 .. l - n : x \in RowsOf(segments[n + m].rows)
    BY <1>3 DEF FiledRows
  <2>3. PICK j \in DOMAIN segments : i < j /\ x \in RowsOf(segments[j].rows)
    <3>1. n + m \in DOMAIN segments /\ i < n + m
      BY <1>1
    <3> QED  BY <2>2, <3>1
  <2>4. i \in DOMAIN segments
    BY <1>1
  <2>5. segments[i] \in Segments /\ segments[j] \in Segments
    BY <2>4
  <2>6. PICK a \in Nat, c \in Nat : /\ a = segments[i].first /\ c = Len(segments[i].rows)
                                    /\ RowsOf(segments[i].rows) = a .. a + c - 1
    <3>1. segments[i].rows \in Seq(Nat) /\ segments[i].first \in Nat
      BY <2>5 DEF Segments
    <3>2. InLine(segments[i].rows, segments[i].first)
      BY <2>4 DEF Filed
    <3> QED  BY <3>1, <3>2, LineRows
  <2>7. PICK b \in Nat, d \in Nat : /\ b = segments[j].first
                                    /\ RowsOf(segments[j].rows) = b .. b + d - 1
    <3>1. segments[j].rows \in Seq(Nat) /\ segments[j].first \in Nat
      BY <2>5 DEF Segments
    <3>2. InLine(segments[j].rows, segments[j].first)
      BY DEF Filed
    <3> QED  BY <3>1, <3>2, LineRows
  <2>8. a + c <= b
    BY <2>3, <2>4, <2>6, <2>7 DEF Filed, Past
  <2>9. x \in Int /\ x <= a + c - 1 /\ b <= x
    BY <2>1, <2>3, <2>6, <2>7
  <2> QED  BY <2>8, <2>9
<1>8. /\ IsFiniteSet(FiledRows(old)) /\ Cardinality(FiledRows(old)) = DiskRows(old)
      /\ DiskRows(old) \in Nat
  BY <1>2, <1>4, SegmentsCount
<1>9. /\ IsFiniteSet(FiledRows(kept)) /\ Cardinality(FiledRows(kept)) = DiskRows(kept)
      /\ DiskRows(kept) \in Nat
  BY <1>3, <1>5, SegmentsCount
<1>10. Cardinality(FiledRows(segments)) = DiskRows(segments)
  BY SegmentsCount
<1>11. Cardinality(FiledRows(old) \cup FiledRows(kept))
         = Cardinality(FiledRows(old)) + Cardinality(FiledRows(kept)) - Cardinality({})
  BY <1>7, <1>8, <1>9, FS_Union
<1>12. DiskRows(segments) = DiskRows(old) + DiskRows(kept)
  BY <1>6, <1>8, <1>9, <1>10, <1>11, FS_EmptySet
<1> QED  BY <1>3, <1>5, <1>6, <1>8, <1>12 DEF old, kept

\* There are segments enough to delete.
LEMMA EvictsSome ==
  ASSUME NEW segments \in Seq(Segments), NEW base \in Nat, Filed(segments, base)
  PROVE  MustEvict(segments) \in 0 .. Len(segments)
<1>1. PICK l \in Nat : l = Len(segments)
  OBVIOUS
<1>2. CASE DiskRows(segments) <= DiskCap
  BY <1>1, <1>2 DEF MustEvict
<1>3. CASE ~ DiskRows(segments) <= DiskCap
  <2> DEFINE T == {n \in 1 .. l : SmallEnough(Without(segments, n))}
  <2>1. DiskCap \in Nat /\ DiskRows(segments) \in Nat /\ DiskRows(<<>>) = 0
    BY ArchiveAssumption, SegmentsCount, NoSegments
  <2>2. l # 0
    <3>1. SUFFICES ASSUME l = 0 PROVE FALSE
      OBVIOUS
    <3>2. segments = <<>>
      BY <1>1, <3>1, EmptySeq
    <3> QED  BY <1>3, <2>1, <3>2
  <2>3. l \in T
    <3>1. Without(segments, l) = <<>>
      BY <1>1, SubSeqEmpty DEF Without
    <3>2. SmallEnough(<<>>)
      BY <2>1 DEF SmallEnough
    <3> QED  BY <1>1, <2>2, <3>1, <3>2
  <2>4. PICK n \in T : \A m \in T : ~ (<<m, n>> \in OpToRel(<, Nat))
    <3>1. T \subseteq Nat /\ T # {}
      BY <2>3
    <3> HIDE DEF T
    <3> QED  BY <3>1, NatLessThanWellFounded, WFMin
  <2>5. \A m \in T : ~ m < n
    <3>1. OpToRel(<, Nat) = {p \in Nat \X Nat : p[1] < p[2]}
      BY DEF OpToRel
    <3>2. \A m \in T : m < n => <<m, n>> \in {p \in Nat \X Nat : p[1] < p[2]}
      OBVIOUS
    <3> QED  BY <2>4, <3>1, <3>2
  <2>6. ~ SmallEnough(Without(segments, 0))
    <3>1. Without(segments, 0) = segments
      BY <1>1, SubSeqFull DEF Without
    <3>2. (DiskCap * 9) \div 10 <= DiskCap
      BY <2>1
    <3> QED  BY <1>3, <2>1, <3>1, <3>2 DEF SmallEnough
  <2>7. \A m \in 0 .. n - 1 : ~ SmallEnough(Without(segments, m))
    <3> TAKE m \in 0 .. n - 1
    <3>1. CASE m = 0
      BY <2>6, <3>1
    <3>2. CASE m # 0
      <4>1. m \in 1 .. l /\ m < n
        BY <3>2
      <4> QED  BY <2>5, <4>1
    <3> QED  BY <3>1, <3>2
  <2>8. \E k \in 1 .. l : /\ SmallEnough(Without(segments, k))
                          /\ \A m \in 0 .. k - 1 : ~ SmallEnough(Without(segments, m))
    BY <2>7
  <2>9. MustEvict(segments) = CHOOSE k \in 1 .. l :
          /\ SmallEnough(Without(segments, k))
          /\ \A m \in 0 .. k - 1 : ~ SmallEnough(Without(segments, m))
    BY <1>1, <1>3 DEF MustEvict
  <2>10. MustEvict(segments) \in 1 .. l
    BY <2>8, <2>9
  <2> QED  BY <1>1, <2>10
<1> QED  BY <1>2, <1>3

-----------------------------------------------------------------------------
\* The core's operations.  What they do with the rows they have keeps the
\* books: an index is never given twice, and what is no longer kept is counted.

Keeps(c, d) ==
    /\ Sound(d)
    /\ End(d) = End(c)
    /\ Counted(d) = Counted(c)
    /\ Kept(d) \subseteq Kept(c)

SameFlow(c, d) ==
    d.active = c.active /\ d.pending = c.pending /\ d.paused = c.paused

Emptied(d) == d.active = <<>> /\ d.pending = <<>>

LEMMA CoreFields ==
  ASSUME NEW c, Sound(c)
  PROVE  /\ c.base \in Nat /\ c.lost \in Nat /\ c.evicted \in Nat
         /\ c.segments \in Seq(Segments)
         /\ c.active \in Seq(Nat) /\ c.pending \in Seq(Nat)
         /\ Len(c.active) \in Nat /\ Len(c.pending) \in Nat
         /\ c.key \in BOOLEAN /\ c.paused \in BOOLEAN
         /\ DiskRows(c.segments) \in Nat
<1>1. /\ c.base \in Nat /\ c.lost \in Nat /\ c.evicted \in Nat
      /\ c.segments \in Seq(Segments)
      /\ c.active \in Seq(Nat) /\ c.pending \in Seq(Nat)
      /\ c.key \in BOOLEAN /\ c.paused \in BOOLEAN
  BY DEF Sound, Cores
<1> QED  BY <1>1, SegmentsCount DEF Sound

LEMMA KeptRows ==
  ASSUME NEW c
  PROVE  Kept(c) = RowsOf(c.active) \cup RowsOf(c.pending) \cup FiledRows(c.segments)
BY DEF Kept, RowsOf, FiledRows

LEMMA KeepsOn ==
  ASSUME NEW c, NEW d, NEW e, Keeps(c, d), Keeps(d, e)
  PROVE  Keeps(c, e)
BY DEF Keeps

LEMMA KeepsStill ==
  ASSUME NEW c, Sound(c)
  PROVE  Keeps(c, c) /\ SameFlow(c, c)
BY DEF Keeps, SameFlow

\* What is not on disk yet is lost, and the base passes it.
LEMMA LosesAll ==
  ASSUME NEW c, Sound(c), NEW d \in Cores, Emptied(d),
         d.segments = c.segments, d.evicted = c.evicted, d.base = End(c),
         d.lost = c.lost + (Len(c.pending) + Len(c.active))
  PROVE  Keeps(c, d)
<1>1. /\ c.base \in Nat /\ c.lost \in Nat /\ c.evicted \in Nat
      /\ c.segments \in Seq(Segments)
      /\ Len(c.active) \in Nat /\ Len(c.pending) \in Nat
      /\ DiskRows(c.segments) \in Nat
  BY CoreFields
<1>2. End(c) \in Nat /\ c.base <= End(c)
  BY <1>1 DEF End
<1>3. Len(<<>>) = 0 /\ RowsOf(<<>>) = {} /\ \A n : InLine(<<>>, n)
  BY NoRows
<1>4. Filed(c.segments, End(c))
  BY <1>1, <1>2, FiledLater DEF Sound
<1>5. Sound(d)
  BY <1>3, <1>4 DEF Sound, Emptied
<1>6. End(d) = End(c)
  BY <1>2, <1>3 DEF End, Emptied
<1>7. Counted(d) = Counted(c)
  <2>1. Len(d.active) = 0 /\ Len(d.pending) = 0
    BY <1>3 DEF Emptied
  <2>2. PICK a \in Nat, p \in Nat, k \in Nat, e \in Nat, l \in Nat :
          /\ a = Len(c.active) /\ p = Len(c.pending) /\ k = DiskRows(c.segments)
          /\ e = c.evicted /\ l = c.lost
    BY <1>1
  <2>3. d.lost = l + (p + a) /\ d.evicted = e /\ DiskRows(d.segments) = k
    BY <2>2
  <2>4. Counted(d) = (l + (p + a)) + e + k + 0 + 0
    BY <2>1, <2>3 DEF Counted
  <2>5. Counted(c) = l + e + k + a + p
    BY <2>2 DEF Counted
  <2> QED  BY <2>4, <2>5
<1>8. Kept(d) \subseteq Kept(c)
  BY <1>3, KeptRows DEF Emptied
<1> QED  BY <1>5, <1>6, <1>7, <1>8 DEF Keeps

\* The open segment becomes a file ...
LEMMA Finalizes ==
  ASSUME NEW c, Sound(c)
  PROVE  /\ Keeps(c, Finalized(c))
         /\ Finalized(c).active = <<>> /\ Finalized(c).pending = c.pending
         /\ Finalized(c).paused = c.paused
<1> DEFINE d == Finalized(c)
           more == Append(c.segments, [first |-> c.base, rows |-> c.active])
<1>1. /\ c.base \in Nat /\ c.segments \in Seq(Segments) /\ c.active \in Seq(Nat)
      /\ Len(c.active) \in Nat /\ Len(c.pending) \in Nat /\ c.lost \in Nat
      /\ c.evicted \in Nat /\ DiskRows(c.segments) \in Nat
  BY CoreFields
<1>2. /\ more \in Seq(Segments)
      /\ Filed(more, c.base + Len(c.active))
      /\ FiledRows(more) = FiledRows(c.segments) \cup RowsOf(c.active)
      /\ DiskRows(more) = DiskRows(c.segments) + Len(c.active)
  BY <1>1, OneMoreSegment DEF Sound
<1>3. Len(<<>>) = 0 /\ RowsOf(<<>>) = {} /\ \A n : InLine(<<>>, n) /\ <<>> \in Seq(Nat)
  BY NoRows
<1>4. /\ d \in Cores /\ d.segments = more /\ d.base = c.base + Len(c.active)
      /\ d.active = <<>> /\ d.pending = c.pending /\ d.paused = c.paused
      /\ d.lost = c.lost /\ d.evicted = c.evicted
  <2>1. c \in Cores
    BY DEF Sound
  <2> HIDE DEF more
  <2>2. c.base + Len(c.active) \in Nat
    BY <1>1
  <2>3. d = [c EXCEPT !.segments = more, !.base = c.base + Len(c.active), !.active = <<>>]
    BY <2>1 DEF Finalized, Cores, more
  <2> HIDE DEF d
  <2> QED  BY <1>2, <1>3, <2>1, <2>2, <2>3 DEF Cores
<1> HIDE DEF d, more
<1>5. Sound(d)
  <2>1. InLine(c.pending, c.base + Len(c.active))
    BY DEF Sound
  <2>2. (c.base + Len(c.active)) + 0 = c.base + Len(c.active)
    BY <1>1
  <2> QED  BY <1>2, <1>3, <1>4, <2>1, <2>2 DEF Sound
<1>6. End(d) = End(c)
  BY <1>1, <1>3, <1>4 DEF End
<1>7. Counted(d) = Counted(c)
  <2>1. PICK a \in Nat, p \in Nat, k \in Nat, e \in Nat, l \in Nat :
          /\ a = Len(c.active) /\ p = Len(c.pending) /\ k = DiskRows(c.segments)
          /\ e = c.evicted /\ l = c.lost
    BY <1>1
  <2>2. Counted(d) = l + e + (k + a) + 0 + p
    BY <1>2, <1>3, <1>4, <2>1 DEF Counted
  <2>3. Counted(c) = l + e + k + a + p
    BY <2>1 DEF Counted
  <2> QED  BY <2>2, <2>3
<1>8. Kept(d) \subseteq Kept(c)
  BY <1>2, <1>3, <1>4, KeptRows
<1>9. Keeps(c, d)
  BY <1>5, <1>6, <1>7, <1>8 DEF Keeps
<1> QED  BY <1>4, <1>9 DEF d

\* ... or is lost.
LEMMA Discards ==
  ASSUME NEW c, Sound(c), NEW d \in DiscardFailedSegment(c)
  PROVE  Keeps(c, d) /\ d.active = <<>> /\ d.pending = c.pending
<1>1. /\ c.base \in Nat /\ c.segments \in Seq(Segments) /\ c.active \in Seq(Nat)
      /\ Len(c.active) \in Nat /\ Len(c.pending) \in Nat /\ c.lost \in Nat
      /\ c.evicted \in Nat /\ DiskRows(c.segments) \in Nat
  BY CoreFields
<1>2. Len(<<>>) = 0 /\ RowsOf(<<>>) = {} /\ \A n : InLine(<<>>, n) /\ <<>> \in Seq(Nat)
  BY NoRows
<1>3. c \in Cores
  BY DEF Sound
<1>4. PICK salvaged \in BOOLEAN :
        d = [LoseUnfinalized(c, Len(c.active))
               EXCEPT !.active = <<>>, !.paused = TRUE, !.key = salvaged]
  BY DEF DiscardFailedSegment
<1>5. /\ d \in Cores /\ d.segments = c.segments /\ d.base = c.base + Len(c.active)
      /\ d.active = <<>> /\ d.pending = c.pending
      /\ d.lost = c.lost + Len(c.active) /\ d.evicted = c.evicted
  <2>1. c.base + Len(c.active) \in Nat /\ c.lost + Len(c.active) \in Nat
    BY <1>1
  <2>2. d = [c EXCEPT !.lost = c.lost + Len(c.active), !.base = c.base + Len(c.active),
                      !.active = <<>>, !.paused = TRUE, !.key = salvaged]
    BY <1>3, <1>4 DEF LoseUnfinalized, Cores
  <2> QED  BY <1>2, <1>3, <2>1, <2>2 DEF Cores
<1>6. Sound(d)
  <2>1. InLine(c.pending, c.base + Len(c.active)) /\ Filed(c.segments, c.base)
    BY DEF Sound
  <2>2. /\ (c.base + Len(c.active)) + 0 = c.base + Len(c.active)
        /\ c.base <= c.base + Len(c.active) /\ c.base + Len(c.active) \in Nat
    BY <1>1
  <2>3. Filed(c.segments, c.base + Len(c.active))
    BY <1>1, <2>1, <2>2, FiledLater
  <2> QED  BY <1>2, <1>5, <2>1, <2>2, <2>3 DEF Sound
<1>7. End(d) = End(c)
  BY <1>1, <1>2, <1>5 DEF End
<1>8. Counted(d) = Counted(c)
  <2>1. PICK a \in Nat, p \in Nat, k \in Nat, e \in Nat, l \in Nat :
          /\ a = Len(c.active) /\ p = Len(c.pending) /\ k = DiskRows(c.segments)
          /\ e = c.evicted /\ l = c.lost
    BY <1>1
  <2>2. Counted(d) = (l + a) + e + k + 0 + p
    BY <1>2, <1>5, <2>1 DEF Counted
  <2>3. Counted(c) = l + e + k + a + p
    BY <2>1 DEF Counted
  <2> QED  BY <2>2, <2>3
<1>9. Kept(d) \subseteq Kept(c)
  BY <1>2, <1>5, KeptRows
<1> QED  BY <1>5, <1>6, <1>7, <1>8, <1>9 DEF Keeps

LEMMA Finalizing ==
  ASSUME NEW c, Sound(c), NEW o \in FinalizeActive(c)
  PROVE  /\ Keeps(c, o.core)
         /\ o.core.active = <<>> /\ o.core.pending = c.pending
         /\ o.ok => o.core.paused = c.paused
<1>1. CASE o = Outcome(TRUE, Finalized(c))
  BY <1>1, Finalizes DEF Outcome
<1>2. ASSUME NEW d \in DiscardFailedSegment(c), o = Outcome(FALSE, d)
      PROVE  /\ Keeps(c, o.core)
             /\ o.core.active = <<>> /\ o.core.pending = c.pending
             /\ ~ o.ok
  <2>1. o.core = d /\ o.ok = FALSE
    BY <1>2 DEF Outcome
  <2> QED  BY <2>1, Discards
<1>3. o = Outcome(TRUE, Finalized(c)) \/ \E d \in DiscardFailedSegment(c) : o = Outcome(FALSE, d)
  BY DEF FinalizeActive
<1> QED  BY <1>1, <1>2, <1>3

\* Segments deleted for the cap are counted as evicted.
LEMMA Prunes ==
  ASSUME NEW c, Sound(c), NEW d \in PruneIfNeeded(c)
  PROVE  Keeps(c, d) /\ SameFlow(c, d)
<1>1. /\ c.base \in Nat /\ c.segments \in Seq(Segments) /\ c.active \in Seq(Nat)
      /\ Len(c.active) \in Nat /\ Len(c.pending) \in Nat /\ c.lost \in Nat
      /\ c.evicted \in Nat /\ DiskRows(c.segments) \in Nat
  BY CoreFields
<1>2. PICK n \in 0 .. Len(c.segments) : d = Evict(c, n)
  <2>1. MustEvict(c.segments) \in 0 .. Len(c.segments)
    BY <1>1, EvictsSome DEF Sound
  <2>2. Len(c.segments) \in Nat
    BY <1>1
  <2>3. 0 .. MustEvict(c.segments) \subseteq 0 .. Len(c.segments)
    BY <2>1, <2>2
  <2> QED  BY <2>1, <2>3 DEF PruneIfNeeded
<1> DEFINE kept == Without(c.segments, n)
           gone == DiskRows(SubSeq(c.segments, 1, n))
<1>3. /\ kept \in Seq(Segments)
      /\ Filed(kept, c.base)
      /\ FiledRows(kept) \subseteq FiledRows(c.segments)
      /\ DiskRows(c.segments) = gone + DiskRows(kept)
      /\ gone \in Nat
  BY <1>1, OldestGo DEF Sound
<1>4. c \in Cores
  BY DEF Sound
<1> HIDE DEF kept, gone
<1>5. /\ d \in Cores /\ d.segments = kept /\ d.base = c.base
      /\ d.active = c.active /\ d.pending = c.pending /\ d.paused = c.paused
      /\ d.lost = c.lost /\ d.evicted = c.evicted + gone
  <2>1. d = [c EXCEPT !.segments = kept, !.evicted = c.evicted + gone]
    BY <1>2, <1>4 DEF Evict, Cores, kept, gone
  <2>2. c.evicted + gone \in Nat
    BY <1>1, <1>3
  <2> QED  BY <1>3, <1>4, <2>1, <2>2 DEF Cores
<1>6. Sound(d)
  BY <1>3, <1>5 DEF Sound
<1>7. End(d) = End(c)
  BY <1>5 DEF End
<1>8. Counted(d) = Counted(c)
  <2>1. DiskRows(kept) \in Nat
    BY <1>1, <1>3, SegmentsCount
  <2>2. PICK a \in Nat, p \in Nat, k \in Nat, g \in Nat, e \in Nat, l \in Nat :
          /\ a = Len(c.active) /\ p = Len(c.pending) /\ k = DiskRows(kept) /\ g = gone
          /\ e = c.evicted /\ l = c.lost
    BY <1>1, <1>3, <2>1
  <2>3. Counted(d) = l + (e + g) + k + a + p
    BY <1>5, <2>2 DEF Counted
  <2>4. Counted(c) = l + e + (g + k) + a + p
    BY <1>3, <2>2 DEF Counted
  <2> QED  BY <2>3, <2>4
<1>9. Kept(d) \subseteq Kept(c)
  BY <1>3, <1>5, KeptRows
<1> QED  BY <1>5, <1>6, <1>7, <1>8, <1>9 DEF Keeps, SameFlow

\* Without its key, what is on disk is lost.
LEMMA Regenerates ==
  ASSUME NEW c, Sound(c), NEW d \in Regenerated(c)
  PROVE  Keeps(c, d) /\ SameFlow(c, d)
<1>1. /\ c.base \in Nat /\ c.segments \in Seq(Segments) /\ c.active \in Seq(Nat)
      /\ Len(c.active) \in Nat /\ Len(c.pending) \in Nat /\ c.lost \in Nat
      /\ c.evicted \in Nat /\ DiskRows(c.segments) \in Nat
  BY CoreFields
<1>2. PICK made \in BOOLEAN : d = [ResetEra(c) EXCEPT !.key = made]
  BY DEF Regenerated
<1>3. c \in Cores
  BY DEF Sound
<1>4. /\ <<>> \in Seq(Segments) /\ Filed(<<>>, c.base) /\ FiledRows(<<>>) = {}
      /\ DiskRows(<<>>) = 0
  BY NoSegments
<1>5. /\ d \in Cores /\ d.segments = <<>> /\ d.base = c.base
      /\ d.active = c.active /\ d.pending = c.pending /\ d.paused = c.paused
      /\ d.lost = c.lost + DiskRows(c.segments) /\ d.evicted = c.evicted
  <2>1. c.lost + DiskRows(c.segments) \in Nat
    BY <1>1
  <2>2. d = [c EXCEPT !.lost = c.lost + DiskRows(c.segments), !.segments = <<>>, !.key = made]
    BY <1>2, <1>3 DEF ResetEra, Cores
  <2> QED  BY <1>3, <1>4, <2>1, <2>2 DEF Cores
<1>6. Sound(d)
  BY <1>4, <1>5 DEF Sound
<1>7. End(d) = End(c)
  BY <1>5 DEF End
<1>8. Counted(d) = Counted(c)
  <2>1. PICK a \in Nat, p \in Nat, k \in Nat, e \in Nat, l \in Nat :
          /\ a = Len(c.active) /\ p = Len(c.pending) /\ k = DiskRows(c.segments)
          /\ e = c.evicted /\ l = c.lost
    BY <1>1
  <2>2. Counted(d) = (l + k) + e + 0 + a + p
    BY <1>4, <1>5, <2>1 DEF Counted
  <2>3. Counted(c) = l + e + k + a + p
    BY <2>1 DEF Counted
  <2> QED  BY <2>2, <2>3
<1>9. Kept(d) \subseteq Kept(c)
  BY <1>4, <1>5, KeptRows
<1> QED  BY <1>5, <1>6, <1>7, <1>8, <1>9 DEF Keeps, SameFlow

\* Pruning after an operation that went well changes nothing of the flow.
LEMMA ThenPrunes ==
  ASSUME NEW outcomes, NEW o \in ThenPrune(outcomes),
         \A p \in outcomes : p.ok \in BOOLEAN /\ Sound(p.core)
  PROVE  \E p \in outcomes :
           Keeps(p.core, o.core) /\ SameFlow(p.core, o.core) /\ o.ok = p.ok
<1>1. PICK p \in outcomes :
        o \in IF p.ok THEN {Outcome(TRUE, c) : c \in PruneIfNeeded(p.core)} ELSE {p}
  BY DEF ThenPrune
<1>2. CASE p.ok
  <2>1. PICK c \in PruneIfNeeded(p.core) : o = Outcome(TRUE, c)
    BY <1>1, <1>2
  <2>2. o.core = c /\ o.ok = TRUE
    BY <2>1 DEF Outcome
  <2>3. p.ok = TRUE
    BY <1>2
  <2> QED  BY <2>1, <2>2, <2>3, Prunes
<1>3. CASE ~ p.ok
  BY <1>1, <1>3, KeepsStill
<1> QED  BY <1>2, <1>3

LEMMA FinalizingOk ==
  ASSUME NEW c, NEW o \in FinalizeActive(c)
  PROVE  o.ok \in BOOLEAN
<1>1. \/ o = Outcome(TRUE, Finalized(c))
      \/ \E d \in DiscardFailedSegment(c) : o = Outcome(FALSE, d)
  BY DEF FinalizeActive
<1>2. o.ok = TRUE \/ o.ok = FALSE
  BY <1>1 DEF Outcome
<1> QED  BY <1>2

LEMMA Seals ==
  ASSUME NEW c, Sound(c), NEW o \in SealActive(c)
  PROVE  Keeps(c, o.core) /\ o.core.active = <<>> /\ o.core.pending = c.pending
<1>1. CASE c.active = <<>>
  <2>1. o = Outcome(TRUE, c)
    BY <1>1 DEF SealActive
  <2> QED  BY <1>1, <2>1, KeepsStill DEF Outcome
<1>2. CASE c.active # <<>>
  <2>1. o \in ThenPrune(FinalizeActive(c))
    BY <1>2 DEF SealActive
  <2>2. \A p \in FinalizeActive(c) : p.ok \in BOOLEAN /\ Sound(p.core)
    BY Finalizing, FinalizingOk DEF Keeps
  <2>3. PICK p \in FinalizeActive(c) : Keeps(p.core, o.core) /\ SameFlow(p.core, o.core)
    BY <2>1, <2>2, ThenPrunes
  <2>4. /\ Keeps(c, p.core) /\ p.core.active = <<>> /\ p.core.pending = c.pending
    BY Finalizing
  <2> QED  BY <2>3, <2>4, KeepsOn DEF SameFlow
<1> QED  BY <1>1, <1>2

LEMMA Abandons ==
  ASSUME NEW c, Sound(c), NEW d \in AbandonAfterError(c)
  PROVE  Keeps(c, d) /\ Emptied(d)
<1> DEFINE torn == [LoseUnfinalized(c, Len(c.pending) + Len(c.active))
                      EXCEPT !.pending = <<>>, !.active = <<>>, !.paused = TRUE]
<1>1. /\ c.base \in Nat /\ c.segments \in Seq(Segments) /\ c.lost \in Nat
      /\ Len(c.active) \in Nat /\ Len(c.pending) \in Nat
  BY CoreFields
<1>2. c \in Cores
  BY DEF Sound
<1>3. /\ torn \in Cores /\ Emptied(torn) /\ torn.segments = c.segments
      /\ torn.evicted = c.evicted /\ torn.base = End(c)
      /\ torn.lost = c.lost + (Len(c.pending) + Len(c.active))
  <2>1. /\ c.base + (Len(c.pending) + Len(c.active)) \in Nat
        /\ c.lost + (Len(c.pending) + Len(c.active)) \in Nat
        /\ c.base + (Len(c.pending) + Len(c.active)) = End(c)
    <3>1. PICK a \in Nat, p \in Nat, b \in Nat, l \in Nat :
            a = Len(c.active) /\ p = Len(c.pending) /\ b = c.base /\ l = c.lost
      BY <1>1
    <3>2. b + (p + a) \in Nat /\ l + (p + a) \in Nat /\ b + (p + a) = b + a + p
      OBVIOUS
    <3> QED  BY <3>1, <3>2 DEF End
  <2>2. torn = [c EXCEPT !.lost = c.lost + (Len(c.pending) + Len(c.active)),
                         !.base = c.base + (Len(c.pending) + Len(c.active)),
                         !.pending = <<>>, !.active = <<>>, !.paused = TRUE]
    BY <1>2 DEF LoseUnfinalized, Cores
  <2> HIDE DEF torn
  <2> QED  BY <1>2, <2>1, <2>2, NoRows DEF Cores, Emptied
<1>4. Keeps(c, torn) /\ Sound(torn)
  BY <1>3, LosesAll DEF Keeps
<1>5. d \in Regenerated(torn) \/ d = torn
  BY DEF AbandonAfterError
<1> HIDE DEF torn
<1>6. CASE d \in Regenerated(torn)
  <2>1. Keeps(torn, d) /\ SameFlow(torn, d)
    BY <1>4, <1>6, Regenerates
  <2> QED  BY <1>3, <1>4, <2>1, KeepsOn DEF SameFlow, Emptied
<1>7. CASE d = torn
  BY <1>3, <1>4, <1>7
<1> QED  BY <1>5, <1>6, <1>7

LEMMA EnsuresWriter ==
  ASSUME NEW c, Sound(c), NEW d \in EnsureWriter(c)
  PROVE  Keeps(c, d) /\ SameFlow(c, d)
BY KeepsStill, Regenerates DEF EnsureWriter

LEMMA WritesOneFrame ==
  ASSUME NEW c, Sound(c)
  PROVE  /\ Keeps(c, FrameWritten(c))
         /\ FrameWritten(c).pending = <<>> /\ FrameWritten(c).paused = c.paused
<1> DEFINE d == FrameWritten(c)
           rows == c.active \o c.pending
<1>1. /\ c.base \in Nat /\ c.segments \in Seq(Segments)
      /\ c.active \in Seq(Nat) /\ c.pending \in Seq(Nat)
      /\ Len(c.active) \in Nat /\ Len(c.pending) \in Nat /\ c.lost \in Nat
      /\ c.evicted \in Nat /\ DiskRows(c.segments) \in Nat
  BY CoreFields
<1>2. /\ rows \in Seq(Nat) /\ Len(rows) = Len(c.active) + Len(c.pending)
      /\ InLine(rows, c.base)
      /\ RowsOf(rows) = RowsOf(c.active) \cup RowsOf(c.pending)
  BY <1>1, LineConcat DEF Sound
<1>3. Len(<<>>) = 0 /\ RowsOf(<<>>) = {} /\ \A n : InLine(<<>>, n) /\ <<>> \in Seq(Nat)
  BY NoRows
<1>4. c \in Cores
  BY DEF Sound
<1> HIDE DEF rows
<1>5. /\ d \in Cores /\ d.segments = c.segments /\ d.base = c.base
      /\ d.active = rows /\ d.pending = <<>> /\ d.paused = c.paused
      /\ d.lost = c.lost /\ d.evicted = c.evicted
  <2>1. d = [c EXCEPT !.active = rows, !.pending = <<>>]
    BY <1>4 DEF FrameWritten, Cores, rows
  <2> HIDE DEF d
  <2> QED  BY <1>2, <1>3, <1>4, <2>1 DEF Cores
<1> HIDE DEF d
<1>6. Sound(d)
  <2>1. Filed(c.segments, c.base)
    BY DEF Sound
  <2> QED  BY <1>2, <1>3, <1>5, <2>1 DEF Sound
<1>7. End(d) = End(c)
  <2>1. PICK a \in Nat, p \in Nat, b \in Nat :
          a = Len(c.active) /\ p = Len(c.pending) /\ b = c.base
    BY <1>1
  <2>2. End(d) = b + (a + p) + 0
    BY <1>2, <1>3, <1>5, <2>1 DEF End
  <2>3. End(c) = b + a + p
    BY <2>1 DEF End
  <2> QED  BY <2>2, <2>3
<1>8. Counted(d) = Counted(c)
  <2>1. PICK a \in Nat, p \in Nat, k \in Nat, e \in Nat, l \in Nat :
          /\ a = Len(c.active) /\ p = Len(c.pending) /\ k = DiskRows(c.segments)
          /\ e = c.evicted /\ l = c.lost
    BY <1>1
  <2>2. Counted(d) = l + e + k + (a + p) + 0
    BY <1>2, <1>3, <1>5, <2>1 DEF Counted
  <2>3. Counted(c) = l + e + k + a + p
    BY <2>1 DEF Counted
  <2> QED  BY <2>2, <2>3
<1>9. Kept(d) \subseteq Kept(c)
  BY <1>2, <1>3, <1>5, KeptRows
<1> QED  BY <1>5, <1>6, <1>7, <1>8, <1>9 DEF Keeps, d

\* An operation that ends well leaves nothing pending, and one that does not
\* leaves nothing at all.
Written(c, o) ==
    /\ o.ok \in BOOLEAN
    /\ Keeps(c, o.core) /\ o.core.pending = <<>> /\ Rested(o.core)
    /\ ~ o.ok => Emptied(o.core)

LEMMA WritesFrames ==
  ASSUME NEW c, Sound(c), c.paused = FALSE, NEW o \in WriteFrame(c)
  PROVE  Written(c, o)
<1> DEFINE e == FrameWritten(c)
           outcomes == {Outcome(TRUE, e)} \cup FinalizeActive(e)
<1>1. Keeps(c, e) /\ Sound(e) /\ e.pending = <<>> /\ e.paused = FALSE
  BY WritesOneFrame DEF Keeps
<1>2. o \in ThenPrune(outcomes)
  BY DEF WriteFrame
<1> HIDE DEF e
<1>3. ASSUME NEW p \in outcomes
      PROVE  /\ p.ok \in BOOLEAN /\ Keeps(c, p.core) /\ p.core.pending = <<>>
             /\ ~ p.ok => p.core.active = <<>>
             /\ p.core.paused = FALSE \/ p.core.active = <<>>
  <2>1. CASE p = Outcome(TRUE, e)
    BY <1>1, <2>1 DEF Outcome
  <2>2. CASE p \in FinalizeActive(e)
    <3>1. /\ Keeps(e, p.core) /\ p.core.active = <<>> /\ p.core.pending = e.pending
          /\ p.ok \in BOOLEAN
      BY <1>1, <2>2, Finalizing, FinalizingOk
    <3> QED  BY <1>1, <3>1, KeepsOn
  <2> QED  BY <2>1, <2>2
<1>4. \A p \in outcomes : p.ok \in BOOLEAN /\ Sound(p.core)
  BY <1>3 DEF Keeps
<1> HIDE DEF outcomes
<1>5. PICK p \in outcomes :
        Keeps(p.core, o.core) /\ SameFlow(p.core, o.core) /\ o.ok = p.ok
  BY <1>2, <1>4, ThenPrunes
<1>6. Keeps(c, o.core)
  BY <1>3, <1>5, KeepsOn
<1> QED  BY <1>3, <1>5, <1>6 DEF Written, SameFlow, Emptied, Rested

LEMMA WritesRows ==
  ASSUME NEW c, Sound(c), c.paused = FALSE, NEW o \in WriteRows(c)
  PROVE  Written(c, o)
<1>1. \/ \E d \in EnsureWriter(c) : d.key /\ o \in WriteFrame(d)
      \/ \E e \in EnsureWriter(c) \cup {c} : \E d \in AbandonAfterError(e) :
           o = Outcome(FALSE, d)
  <2> DEFINE good == UNION {IF d.key THEN WriteFrame(d) ELSE {} : d \in EnsureWriter(c)}
             bad == UNION {IF "disk" \in Faults \/ ~ e.key THEN AbandonAfterError(e) ELSE {}
                             : e \in EnsureWriter(c) \cup {c}}
  <2>1. WriteRows(c) = good \cup {Outcome(FALSE, d) : d \in bad}
    BY Zenon DEF WriteRows
  <2>2. CASE o \in good
    <3>1. PICK d \in EnsureWriter(c) : o \in IF d.key THEN WriteFrame(d) ELSE {}
      BY <2>2
    <3> QED  BY <3>1
  <2>3. ASSUME NEW d \in bad, o = Outcome(FALSE, d)
        PROVE  \E e \in EnsureWriter(c) \cup {c} : d \in AbandonAfterError(e)
    <3>1. PICK e \in EnsureWriter(c) \cup {c} :
            d \in IF "disk" \in Faults \/ ~ e.key THEN AbandonAfterError(e) ELSE {}
      OBVIOUS
    <3> QED  BY <3>1
  <2> HIDE DEF good, bad
  <2> QED  BY <2>1, <2>2, <2>3
<1>2. \A d \in EnsureWriter(c) \cup {c} : Keeps(c, d) /\ Sound(d) /\ d.paused = FALSE
  <2> TAKE d \in EnsureWriter(c) \cup {c}
  <2>1. Keeps(c, d) /\ SameFlow(c, d)
    BY EnsuresWriter, KeepsStill
  <2> QED  BY <2>1 DEF Keeps, SameFlow
<1>3. ASSUME NEW d \in EnsureWriter(c), o \in WriteFrame(d) PROVE Written(c, o)
  <2>1. Written(d, o)
    BY <1>2, <1>3, WritesFrames
  <2> QED  BY <1>2, <2>1, KeepsOn DEF Written
<1>4. ASSUME NEW e \in EnsureWriter(c) \cup {c}, NEW d \in AbandonAfterError(e),
             o = Outcome(FALSE, d)
      PROVE  Written(c, o)
  <2>1. o.ok = FALSE /\ o.core = d
    BY <1>4 DEF Outcome
  <2>2. Keeps(e, d) /\ Emptied(d)
    BY <1>2, Abandons
  <2>3. Keeps(c, d)
    BY <1>2, <2>2, KeepsOn
  <2> QED  BY <2>1, <2>2, <2>3 DEF Written, Rested, Emptied
<1> QED  BY <1>1, <1>3, <1>4

LEMMA LowSpace ==
  ASSUME NEW c, Sound(c), NEW d \in LowOnSpace(c)
  PROVE  Keeps(c, d) /\ Emptied(d)
<1>1. \E o \in IF c.active = <<>> THEN {Outcome(TRUE, c)} ELSE FinalizeActive(c) :
        d = [LoseUnfinalized(o.core, Len(c.pending)) EXCEPT !.pending = <<>>,
                                                            !.paused = TRUE]
  BY DEF LowOnSpace
<1>2. PICK e :
        /\ Keeps(c, e) /\ e.active = <<>> /\ e.pending = c.pending
        /\ d = [LoseUnfinalized(e, Len(c.pending)) EXCEPT !.pending = <<>>, !.paused = TRUE]
  <2>1. PICK o \in IF c.active = <<>> THEN {Outcome(TRUE, c)} ELSE FinalizeActive(c) :
          d = [LoseUnfinalized(o.core, Len(c.pending)) EXCEPT !.pending = <<>>,
                                                              !.paused = TRUE]
    BY <1>1
  <2>2. CASE c.active = <<>>
    <3>1. o.core = c
      BY <2>1, <2>2 DEF Outcome
    <3> QED  BY <2>1, <2>2, <3>1, KeepsStill
  <2>3. CASE c.active # <<>>
    <3>1. o \in FinalizeActive(c)
      BY <2>3
    <3>2. Keeps(c, o.core) /\ o.core.active = <<>> /\ o.core.pending = c.pending
      BY <3>1, Finalizing
    <3> QED  BY <2>1, <3>2
  <2> QED  BY <2>2, <2>3
<1>3. Sound(e) /\ e \in Cores
  BY <1>2 DEF Keeps, Sound
<1>4. PICK p \in Nat, b \in Nat, l \in Nat :
        p = Len(e.pending) /\ b = e.base /\ l = e.lost
  BY <1>3, CoreFields
<1>5. Len(e.active) = 0
  BY <1>2, NoRows
<1>6. /\ d \in Cores /\ Emptied(d) /\ d.segments = e.segments /\ d.evicted = e.evicted
      /\ d.base = b + p /\ d.lost = l + p
  <2>1. d = [e EXCEPT !.lost = l + p, !.base = b + p, !.pending = <<>>, !.paused = TRUE]
    BY <1>2, <1>3, <1>4 DEF LoseUnfinalized, Cores
  <2>2. e.active = <<>> /\ l + p \in Nat /\ b + p \in Nat /\ <<>> \in Seq(Nat)
    BY <1>2, NoRows
  <2> QED  BY <1>3, <2>1, <2>2 DEF Cores, Emptied
<1>7. End(e) = b + 0 + p
  BY <1>4, <1>5 DEF End
<1>8. d.base = End(e) /\ d.lost = e.lost + (Len(e.pending) + Len(e.active))
  BY <1>4, <1>5, <1>6, <1>7
<1>9. Keeps(e, d)
  BY <1>3, <1>6, <1>8, LosesAll
<1> QED  BY <1>2, <1>6, <1>9, KeepsOn

LEMMA Flushes ==
  ASSUME NEW c, Sound(c), Rested(c), NEW o \in FlushPending(c)
  PROVE  Written(c, o)
<1>1. CASE c.pending = <<>>
  <2>1. o = Outcome(TRUE, c)
    BY <1>1 DEF FlushPending
  <2>2. o.ok = TRUE /\ o.core = c
    BY <2>1 DEF Outcome
  <2> QED  BY <1>1, <2>2, KeepsStill DEF Written
<1>2. CASE c.pending # <<>>
  <2>1. c.paused = FALSE
    BY <1>2, CoreFields DEF Rested
  <2>2. \/ o \in WriteRows(c)
        \/ \E d \in LowOnSpace(c) : o = Outcome(TRUE, d)
    BY <1>2 DEF FlushPending
  <2>3. ASSUME NEW d \in LowOnSpace(c), o = Outcome(TRUE, d) PROVE Written(c, o)
    <3>1. o.ok = TRUE /\ o.core = d
      BY <2>3 DEF Outcome
    <3>2. Keeps(c, d) /\ Emptied(d)
      BY LowSpace
    <3> QED  BY <3>1, <3>2 DEF Written, Rested, Emptied
  <2> QED  BY <2>1, <2>2, <2>3, WritesRows
<1> QED  BY <1>1, <1>2

LEMMA FlushesAndSeals ==
  ASSUME NEW c, Sound(c), Rested(c), NEW o \in FlushAndSeal(c)
  PROVE  Keeps(c, o.core) /\ Emptied(o.core)
<1>1. PICK f \in FlushPending(c) : o \in IF f.ok THEN SealActive(f.core) ELSE {f}
  BY DEF FlushAndSeal
<1>2. Written(c, f) /\ Sound(f.core)
  BY Flushes DEF Written, Keeps
<1>3. CASE f.ok
  <2>1. Keeps(f.core, o.core) /\ o.core.active = <<>> /\ o.core.pending = f.core.pending
    BY <1>1, <1>2, <1>3, Seals
  <2> QED  BY <1>2, <2>1, KeepsOn DEF Written, Emptied
<1>4. CASE ~ f.ok
  BY <1>1, <1>2, <1>4 DEF Written
<1> QED  BY <1>3, <1>4

\* Before a read the rows it wants are in the segments, or nowhere.
LEMMA ReadsBehind ==
  ASSUME NEW c, Sound(c), Rested(c), NEW hi \in Nat, NEW d \in BeforeRead(c, hi)
  PROVE  /\ Keeps(c, d) /\ Rested(d)
         /\ \A i \in Kept(d) : i < hi => i \in FiledRows(d.segments)
<1>1. CASE hi <= c.base
  <2>1. d = c
    BY <1>1 DEF BeforeRead
  <2>2. ASSUME NEW i \in Kept(c), i < hi PROVE i \in FiledRows(c.segments)
    <3>1. /\ c.base \in Nat /\ c.active \in Seq(Nat) /\ c.pending \in Seq(Nat)
          /\ InLine(c.active, c.base) /\ InLine(c.pending, c.base + Len(c.active))
          /\ Len(c.active) \in Nat /\ c.base + Len(c.active) \in Nat
      BY CoreFields DEF Sound
    <3>2. RowsOf(c.active) = c.base .. c.base + Len(c.active) - 1
      BY <3>1, LineRows
    <3>3. RowsOf(c.pending)
            = (c.base + Len(c.active)) .. (c.base + Len(c.active)) + Len(c.pending) - 1
      BY <3>1, LineRows
    <3>4. i \notin RowsOf(c.active)
      BY <1>1, <2>2, <3>1, <3>2
    <3>5. i \notin RowsOf(c.pending)
      BY <1>1, <2>2, <3>1, <3>3
    <3> QED  BY <3>4, <3>5, KeptRows
  <2> QED  BY <2>1, <2>2, KeepsStill
<1>2. CASE ~ hi <= c.base
  <2>1. PICK f \in FlushPending(c) : \E o \in SealActive(f.core) : d = o.core
    <3>1. BeforeRead(c, hi) = {o.core : o \in UNION {SealActive(f.core) : f \in FlushPending(c)}}
      BY <1>2 DEF BeforeRead
    <3>2. PICK o \in UNION {SealActive(f.core) : f \in FlushPending(c)} : d = o.core
      BY <3>1
    <3>3. PICK f \in FlushPending(c) : o \in SealActive(f.core)
      OBVIOUS
    <3> QED  BY <3>2, <3>3
  <2>2. PICK o \in SealActive(f.core) : d = o.core
    BY <2>1
  <2>3. Written(c, f) /\ Sound(f.core)
    BY Flushes DEF Written, Keeps
  <2>4. Keeps(f.core, d) /\ d.active = <<>> /\ d.pending = f.core.pending
    BY <2>2, <2>3, Seals
  <2>5. Keeps(c, d) /\ d.active = <<>> /\ d.pending = <<>>
    BY <2>3, <2>4, KeepsOn DEF Written
  <2>6. Kept(d) = FiledRows(d.segments)
    BY <2>5, KeptRows, NoRows
  <2> QED  BY <2>5, <2>6 DEF Rested
<1> QED  BY <1>1, <1>2

\* Rows given to the core at an index: it has them or counts them.
Took(c, rows, at, d) ==
    /\ Sound(d) /\ Rested(d)
    /\ End(d) = at + Len(rows)
    /\ Counted(d) = Counted(c) + Len(rows)
    /\ Kept(d) \subseteq Kept(c) \cup RowsOf(rows)

LEMMA EndsNat ==
  ASSUME NEW c, Sound(c)
  PROVE  End(c) \in Nat /\ Counted(c) \in Nat
<1>1. PICK b \in Nat, a \in Nat, p \in Nat, k \in Nat, e \in Nat, l \in Nat :
        /\ b = c.base /\ a = Len(c.active) /\ p = Len(c.pending) /\ e = c.evicted
        /\ k = DiskRows(c.segments) /\ l = c.lost
  BY CoreFields
<1>2. End(c) = b + a + p /\ Counted(c) = l + e + k + a + p
  BY <1>1 DEF End, Counted
<1> QED  BY <1>2

LEMMA TookOn ==
  ASSUME NEW c, NEW d, NEW e, NEW rows, NEW at, Took(c, rows, at, d), Keeps(d, e), Rested(e)
  PROVE  Took(c, rows, at, e)
BY DEF Took, Keeps

\* Rows that come while nothing is under way can be lost at once.
LEMMA LosesRows ==
  ASSUME NEW c, Sound(c), Emptied(c), NEW rows \in Seq(Nat)
  PROVE  Took(c, rows, End(c), LoseUnfinalized(c, Len(rows)))
<1> DEFINE d == LoseUnfinalized(c, Len(rows))
<1>1. c \in Cores /\ Len(<<>>) = 0 /\ (\A n : InLine(<<>>, n)) /\ Len(c.active) = 0
      /\ Len(c.pending) = 0
  BY NoRows DEF Sound, Emptied
<1>2. PICK b \in Nat, k \in Nat, e \in Nat, l \in Nat, n \in Nat :
        /\ b = c.base /\ e = c.evicted /\ k = DiskRows(c.segments) /\ l = c.lost
        /\ n = Len(rows)
  BY CoreFields
<1> HIDE DEF d
<1>3. /\ d \in Cores /\ d.segments = c.segments /\ d.evicted = e
      /\ d.active = <<>> /\ d.pending = <<>> /\ d.base = b + n /\ d.lost = l + n
  <2>1. d = [c EXCEPT !.lost = l + n, !.base = b + n]
    BY <1>1, <1>2 DEF LoseUnfinalized, Cores, d
  <2>2. c.active = <<>> /\ c.pending = <<>>
    BY DEF Emptied
  <2>3. c \in Cores
    BY <1>1
  <2>5. l + n \in Nat /\ b + n \in Nat
    OBVIOUS
  <2>4. /\ d \in Cores /\ d.segments = c.segments /\ d.evicted = c.evicted
        /\ d.active = c.active /\ d.pending = c.pending /\ d.base = b + n /\ d.lost = l + n
    BY <2>1, <2>3, <2>5 DEF Cores
  <2> QED  BY <1>2, <2>2, <2>4
<1>4. Sound(d)
  <2>1. /\ Filed(c.segments, b) /\ b <= b + n /\ b + n \in Nat
        /\ c.segments \in Seq(Segments)
    BY <1>2, CoreFields DEF Sound
  <2>2. Filed(c.segments, b + n)
    BY <2>1, FiledLater
  <2> QED  BY <1>1, <1>3, <2>2 DEF Sound
<1>5. End(c) = b + 0 + 0 /\ End(d) = (b + n) + 0 + 0
  BY <1>1, <1>2, <1>3 DEF End
<1>6. Counted(c) = l + e + k + 0 + 0 /\ Counted(d) = (l + n) + e + k + 0 + 0
  BY <1>1, <1>2, <1>3 DEF Counted
<1>7. Kept(d) \subseteq Kept(c)
  <2>1. RowsOf(<<>>) = {}
    BY NoRows
  <2> QED  BY <1>3, <2>1, KeptRows
<1>8. Rested(d)
  BY <1>3 DEF Rested
<1>9. End(d) = End(c) + n /\ Counted(d) = Counted(c) + n
  BY <1>5, <1>6
<1> QED  BY <1>2, <1>4, <1>7, <1>8, <1>9 DEF Took, d

LEMMA Batches1 ==
  ASSUME NEW c, Sound(c), NEW rows \in Seq(Nat), InLine(rows, End(c)),
         NEW d \in BatchRows(c, rows)
  PROVE  Took(c, rows, End(c), d)
<1> DEFINE more == c.pending \o rows
           e == [c EXCEPT !.pending = more, !.paused = FALSE]
<1>1. c \in Cores /\ c.active \in Seq(Nat) /\ c.pending \in Seq(Nat)
      /\ InLine(c.active, c.base) /\ InLine(c.pending, c.base + Len(c.active))
      /\ Filed(c.segments, c.base)
  BY CoreFields DEF Sound
<1> HIDE DEF more, e
<1>2. PICK b \in Nat, a \in Nat, p \in Nat, k \in Nat, v \in Nat, l \in Nat, n \in Nat :
        /\ b = c.base /\ a = Len(c.active) /\ p = Len(c.pending) /\ v = c.evicted
        /\ k = DiskRows(c.segments) /\ l = c.lost /\ n = Len(rows)
  <2>1. Len(rows) \in Nat
    OBVIOUS
  <2> QED  BY <2>1, CoreFields
<1>3. End(c) = (b + a) + p
  BY <1>2 DEF End
<1>4. more \in Seq(Nat) /\ Len(more) = p + n /\ InLine(more, b + a)
      /\ RowsOf(more) = RowsOf(c.pending) \cup RowsOf(rows)
  <2>1. b + a \in Nat /\ InLine(c.pending, b + a) /\ InLine(rows, (b + a) + Len(c.pending))
    BY <1>1, <1>2, <1>3
  <2> QED  BY <1>1, <1>2, <2>1, LineConcat DEF more
<1>5. /\ e \in Cores /\ e.segments = c.segments /\ e.evicted = v /\ e.active = c.active
      /\ e.pending = more /\ e.base = b /\ e.lost = l /\ e.paused = FALSE
  BY <1>1, <1>2, <1>4 DEF Cores, e
<1>6. BatchRows(c, rows) = IF Len(e.pending) < FrameRows THEN {e}
                           ELSE {o.core : o \in FlushPending(e)}
  <2>1. e = [c EXCEPT !.pending = c.pending \o rows, !.paused = FALSE]
    BY DEF more, e
  <2>2. e = [c EXCEPT !.pending = @ \o rows, !.paused = FALSE]
    BY <1>1, <2>1 DEF Cores
  <2> QED  BY <2>2, Zenon DEF BatchRows
<1>7. Sound(e)
  BY <1>1, <1>2, <1>4, <1>5 DEF Sound
<1>8. Took(c, rows, End(c), e)
  <2>1. End(e) = b + a + (p + n)
    BY <1>2, <1>4, <1>5 DEF End
  <2>2. Counted(e) = l + v + k + a + (p + n) /\ Counted(c) = l + v + k + a + p
    BY <1>2, <1>4, <1>5 DEF Counted
  <2>3. End(e) = End(c) + n /\ Counted(e) = Counted(c) + n
    BY <1>3, <2>1, <2>2
  <2>4. Kept(e) \subseteq Kept(c) \cup RowsOf(rows)
    BY <1>4, <1>5, KeptRows
  <2>5. Rested(e)
    BY <1>5 DEF Rested
  <2> QED  BY <1>2, <1>7, <2>3, <2>4, <2>5 DEF Took
<1>9. CASE d = e
  BY <1>8, <1>9
<1>10. ASSUME NEW o \in FlushPending(e), d = o.core
       PROVE  Took(c, rows, End(c), d)
  <2>1. Written(e, o)
    BY <1>7, <1>8, Flushes DEF Took
  <2> QED  BY <1>8, <1>10, <2>1, TookOn DEF Written
<1> QED  BY <1>6, <1>9, <1>10

LEMMA Accepts ==
  ASSUME NEW c, Sound(c), Rested(c), NEW rows \in Seq(Nat), InLine(rows, End(c)),
         NEW d \in AcceptRows(c, rows)
  PROVE  Took(c, rows, End(c), d)
<1>1. CASE d \in BatchRows(c, rows)
  BY <1>1, Batches1
<1>2. CASE c.paused /\ d = LoseUnfinalized(c, Len(rows))
  BY <1>2, LosesRows DEF Rested, Emptied
<1>3. d \in BatchRows(c, rows) \/ (c.paused /\ d = LoseUnfinalized(c, Len(rows)))
  BY DEF AcceptRows
<1> QED  BY <1>1, <1>2, <1>3

\* A gap in front of the rows moves the base, whatever happens.
LEMMA Archives ==
  ASSUME NEW c, Sound(c), Rested(c), NEW rows \in Seq(Nat), NEW gap \in Nat,
         InLine(rows, End(c) + gap), NEW d \in ArchiveRows(c, rows, gap)
  PROVE  Took(c, rows, End(c) + gap, d)
<1>1. CASE gap = 0
  <2>1. d \in AcceptRows(c, rows) /\ End(c) + gap = End(c)
    BY <1>1, EndsNat DEF ArchiveRows
  <2> QED  BY <2>1, Accepts
<1>2. CASE gap # 0
  <2>1. PICK o \in FlushAndSeal(c) :
          d \in LET moved == [o.core EXCEPT !.base = @ + gap]
                IN  IF o.ok THEN AcceptRows(moved, rows)
                    ELSE {LoseUnfinalized(moved, Len(rows))}
    BY <1>2 DEF ArchiveRows
  <2> DEFINE e == o.core
             moved == [e EXCEPT !.base = @ + gap]
  <2>2. Keeps(c, e) /\ Emptied(e) /\ Sound(e)
    BY FlushesAndSeals DEF Keeps
  <2>3. d \in AcceptRows(moved, rows) \/ d = LoseUnfinalized(moved, Len(rows))
    BY <2>1
  <2> HIDE DEF e
  <2>4. e \in Cores /\ Len(e.active) = 0 /\ Len(e.pending) = 0 /\ e.active = <<>>
        /\ e.pending = <<>>
    BY <2>2, NoRows DEF Sound, Emptied
  <2>5. PICK b \in Nat, k \in Nat, v \in Nat, l \in Nat :
          b = e.base /\ v = e.evicted /\ k = DiskRows(e.segments) /\ l = e.lost
    BY <2>2, CoreFields
  <2>6. /\ moved \in Cores /\ moved.base = b + gap /\ moved.segments = e.segments
        /\ moved.evicted = v /\ moved.lost = l /\ moved.active = <<>> /\ moved.pending = <<>>
    <3>1. moved = [e EXCEPT !.base = b + gap] /\ b + gap \in Nat
      BY <2>4, <2>5 DEF Cores
    <3> HIDE DEF moved
    <3>2. /\ moved \in Cores /\ moved.base = b + gap /\ moved.segments = e.segments
          /\ moved.evicted = e.evicted /\ moved.lost = e.lost
          /\ moved.active = e.active /\ moved.pending = e.pending
      BY <2>4, <3>1 DEF Cores
    <3> QED  BY <2>4, <2>5, <3>2
  <2> HIDE DEF moved
  <2>7. Sound(moved) /\ Emptied(moved) /\ Rested(moved)
    <3>1. Filed(e.segments, b) /\ e.segments \in Seq(Segments) /\ b <= b + gap /\ b + gap \in Nat
      BY <2>2, <2>5, CoreFields DEF Sound
    <3>2. Filed(e.segments, b + gap)
      BY <3>1, FiledLater
    <3>3. \A n : InLine(<<>>, n)
      BY NoRows
    <3> QED  BY <2>6, <3>2, <3>3 DEF Sound, Emptied, Rested
  <2>8. End(e) = b + 0 + 0 /\ End(moved) = (b + gap) + 0 + 0
    BY <2>4, <2>5, <2>6 DEF End
  <2>9. Counted(moved) = l + v + k + 0 + 0 /\ Counted(e) = l + v + k + 0 + 0
    BY <2>4, <2>5, <2>6 DEF Counted
  <2>10. Kept(moved) = Kept(e)
    BY <2>4, <2>6, KeptRows
  <2>11. /\ End(moved) = End(c) + gap /\ Counted(moved) = Counted(c)
         /\ Kept(moved) \subseteq Kept(c)
    BY <2>2, <2>8, <2>9, <2>10 DEF Keeps
  <2>12. Took(moved, rows, End(moved), d)
    <3>1. InLine(rows, End(moved))
      BY <2>11
    <3> QED  BY <2>3, <2>7, <3>1, Accepts, LosesRows
  <2> QED  BY <2>11, <2>12 DEF Took
<1> QED  BY <1>1, <1>2

-----------------------------------------------------------------------------
\* The mailbox.

QueuedIn(box) ==
    UNION {RowsOf(box[i].rows) : i \in {i \in DOMAIN box : box[i].kind = "batch"}}

\* Where the next message goes that is put behind those before it.
Behind(m, at) == IF m.kind = "batch" THEN at + m.gap + Len(m.rows) ELSE at

LEMMA QueuedRows == Queued = QueuedIn(mailbox)
BY DEF Queued, QueuedIn, RowsOf

LEMMA MessageKinds ==
  ASSUME NEW m \in MailboxMessages
  PROVE  /\ m.kind = "batch" => m \in Batches /\ m.gap \in Nat /\ m.rows \in Seq(Nat)
         /\ m.kind = "read" => m \in ReadMessages /\ m.reader \in Readers
              /\ m.window \in Windows /\ m.window.hi \in Nat /\ m.window.lo \in Nat
         /\ m.kind = "shutdown" \/ m.kind = "read" \/ m.kind = "batch"
BY DEF MailboxMessages, Batches, ReadMessages, ShutdownMessages, Windows

LEMMA QueuedRow ==
  ASSUME NEW box, NEW x
  PROVE  x \in QueuedIn(box) <=>
           \E i \in DOMAIN box : box[i].kind = "batch" /\ x \in RowsOf(box[i].rows)
BY DEF QueuedIn

\* A message more.
LEMMA AppendedRows ==
  ASSUME NEW box \in Seq(MailboxMessages), NEW m \in MailboxMessages
  PROVE  QueuedIn(Append(box, m))
           = QueuedIn(box) \cup (IF m.kind = "batch" THEN RowsOf(m.rows) ELSE {})
<1> DEFINE more == Append(box, m)
           news == IF m.kind = "batch" THEN RowsOf(m.rows) ELSE {}
<1>1. /\ Len(box) \in Nat /\ DOMAIN box = 1 .. Len(box)
      /\ DOMAIN more = 1 .. Len(box) + 1
      /\ \A i \in 1 .. Len(box) : more[i] = box[i]
      /\ more[Len(box) + 1] = m
  OBVIOUS
<1> HIDE DEF more
<1>2. ASSUME NEW x \in QueuedIn(more) PROVE x \in QueuedIn(box) \cup news
  <2>1. PICK i \in DOMAIN more : more[i].kind = "batch" /\ x \in RowsOf(more[i].rows)
    BY <1>2, QueuedRow
  <2>2. CASE i = Len(box) + 1
    BY <1>1, <2>1, <2>2
  <2>3. CASE i # Len(box) + 1
    <3>1. i \in DOMAIN box /\ more[i] = box[i]
      BY <1>1, <2>3
    <3> QED  BY <2>1, <3>1, QueuedRow
  <2> QED  BY <2>2, <2>3
<1>3. ASSUME NEW x \in QueuedIn(box) PROVE x \in QueuedIn(more)
  <2>1. PICK i \in DOMAIN box : box[i].kind = "batch" /\ x \in RowsOf(box[i].rows)
    BY <1>3, QueuedRow
  <2>2. i \in DOMAIN more /\ more[i] = box[i]
    BY <1>1
  <2> QED  BY <2>1, <2>2, QueuedRow
<1>4. ASSUME NEW x \in news PROVE x \in QueuedIn(more)
  <2>1. Len(box) + 1 \in DOMAIN more /\ m.kind = "batch" /\ x \in RowsOf(m.rows)
    BY <1>1, <1>4
  <2> QED  BY <1>1, <2>1, QueuedRow
<1>5. QueuedIn(more) = QueuedIn(box) \cup news
  BY <1>2, <1>3, <1>4
<1> QED  BY <1>5 DEF more

\* A mailbox in place that goes on from one row to another.
GoesOn(more, from, until) ==
    \E at \in [1 .. Len(more) + 1 -> Nat] :
      InPlace(more, at) /\ at[1] = from /\ at[Len(more) + 1] = until

LEMMA Appended ==
  ASSUME NEW box \in Seq(MailboxMessages), NEW m \in MailboxMessages,
         NEW at \in [1 .. Len(box) + 1 -> Nat], InPlace(box, at),
         NEW end, end = at[Len(box) + 1],
         m.kind = "batch" =>
           /\ InLine(m.rows, end + m.gap)
           /\ \A i \in DOMAIN box : box[i].kind = "read" =>
                box[i].window.hi <= end + m.gap
  PROVE  GoesOn(Append(box, m), at[1], Behind(m, end))
<1> DEFINE more == Append(box, m)
<1>1. PICK n \in Nat : n = Len(box) /\ DOMAIN box = 1 .. n
  OBVIOUS
<1>2. /\ DOMAIN more = 1 .. n + 1 /\ Len(more) = n + 1
      /\ \A i \in 1 .. n : more[i] = box[i]
      /\ more[n + 1] = m
  BY <1>1
<1>3. end \in Nat /\ Behind(m, end) \in Nat /\ end <= Behind(m, end)
  <2>1. end \in Nat
    BY <1>1
  <2>2. m.kind = "batch" => m.gap \in Nat /\ Len(m.rows) \in Nat
    BY MessageKinds
  <2> QED  BY <2>1, <2>2 DEF Behind
<1> DEFINE next == Behind(m, end)
<1> HIDE DEF next
<1> DEFINE to == [i \in 1 .. n + 2 |-> IF i <= n + 1 THEN at[i] ELSE next]
<1>4. /\ to \in [1 .. n + 2 -> Nat] /\ to[n + 2] = Behind(m, end)
      /\ \A i \in 1 .. n + 1 : to[i] = at[i] /\ at[i] \in Nat
  <2>1. at \in [1 .. n + 1 -> Nat] /\ next \in Nat
    BY <1>1, <1>3 DEF next
  <2>2. \A i \in 1 .. n + 2 : i <= n + 1 => i \in 1 .. n + 1
    OBVIOUS
  <2>3. to \in [1 .. n + 2 -> Nat]
    BY <2>1, <2>2
  <2>4. to[n + 2] = next
    OBVIOUS
  <2>5. \A i \in 1 .. n + 1 : to[i] = at[i] /\ at[i] \in Nat
    BY <2>1
  <2> QED  BY <2>3, <2>4, <2>5 DEF next
<1> HIDE DEF more, to
<1>5. ASSUME NEW i \in DOMAIN more
      PROVE  IF more[i].kind = "batch"
             THEN /\ InLine(more[i].rows, to[i] + more[i].gap)
                  /\ to[i + 1] = to[i] + more[i].gap + Len(more[i].rows)
             ELSE to[i + 1] = to[i]
  <2>1. CASE i = n + 1
    <3>1. to[i] = end /\ to[i + 1] = Behind(m, end) /\ more[i] = m
      <4>1. n + 1 \in 1 .. n + 1 /\ (n + 1) + 1 = n + 2
        BY <1>1
      <4> QED  BY <1>1, <1>2, <1>4, <2>1, <4>1
    <3> QED  BY <3>1 DEF Behind
  <2>2. CASE i # n + 1
    <3>1. i \in DOMAIN box /\ i \in 1 .. n + 1 /\ i + 1 \in 1 .. n + 1 /\ more[i] = box[i]
      BY <1>1, <1>2, <2>2
    <3>2. to[i] = at[i] /\ to[i + 1] = at[i + 1]
      BY <1>4, <3>1
    <3> QED  BY <3>1, <3>2 DEF InPlace
  <2> QED  BY <2>1, <2>2
<1>6. ASSUME NEW i \in 1 .. n + 2, NEW j \in 1 .. n + 2, i <= j
      PROVE  to[i] <= to[j]
  <2>1. \A k, l \in 1 .. n + 1 : k <= l => at[k] <= at[l]
    BY <1>1 DEF InPlace
  <2>2. n + 1 \in 1 .. n + 1 /\ at[n + 1] = end
    BY <1>1
  <2>3. CASE j # n + 2
    BY <1>1, <1>4, <1>6, <2>1, <2>3
  <2>4. CASE j = n + 2 /\ i # n + 2
    <3>1. i \in 1 .. n + 1 /\ i <= n + 1
      BY <1>1, <2>4
    <3>2. at[i] <= end /\ to[i] = at[i] /\ at[i] \in Nat
      BY <1>4, <2>1, <2>2, <3>1
    <3> QED  BY <1>3, <1>4, <2>4, <3>2
  <2>5. CASE j = n + 2 /\ i = n + 2
    BY <1>3, <1>4, <2>5
  <2> QED  BY <2>3, <2>4, <2>5
<1>7. ASSUME NEW i \in DOMAIN more, NEW j \in DOMAIN more, i < j,
             more[i].kind = "read", more[j].kind = "batch"
      PROVE  more[i].window.hi <= to[j] + more[j].gap
  <2>1. i \in DOMAIN box /\ more[i] = box[i]
    BY <1>1, <1>2, <1>7
  <2>2. CASE j = n + 1
    <3>1. to[j] = end /\ more[j] = m
      BY <1>1, <1>2, <1>4, <2>2
    <3> QED  BY <1>7, <2>1, <3>1
  <2>3. CASE j # n + 1
    <3>1. j \in DOMAIN box /\ more[j] = box[j] /\ to[j] = at[j]
      BY <1>1, <1>2, <1>4, <2>3
    <3> QED  BY <1>7, <2>1, <3>1 DEF InPlace
  <2> QED  BY <2>2, <2>3
<1>8. InPlace(more, to)
  <2>1. Len(more) + 1 = n + 2
    BY <1>1, <1>2
  <2> QED  BY <1>5, <1>6, <1>7, <2>1 DEF InPlace
<1>9. to[1] = at[1] /\ Len(more) + 1 = n + 2
  BY <1>1, <1>2, <1>4
<1>10. GoesOn(more, at[1], Behind(m, end))
  BY <1>4, <1>8, <1>9 DEF GoesOn
<1> QED  BY <1>10 DEF more

\* The first message is taken.
LEMMA HandledRows ==
  ASSUME NEW box \in Seq(MailboxMessages), box # <<>>
  PROVE  QueuedIn(box) = QueuedIn(Tail(box))
           \cup (IF Head(box).kind = "batch" THEN RowsOf(Head(box).rows) ELSE {})
<1> DEFINE less == Tail(box)
           first == Head(box)
           gone == IF first.kind = "batch" THEN RowsOf(first.rows) ELSE {}
<1>1. /\ Len(box) \in Nat \ {0} /\ DOMAIN box = 1 .. Len(box)
      /\ DOMAIN less = 1 .. Len(box) - 1
      /\ \A i \in 1 .. Len(box) - 1 : less[i] = box[i + 1]
      /\ first = box[1]
  OBVIOUS
<1> HIDE DEF less, first
<1>2. ASSUME NEW x \in QueuedIn(box) PROVE x \in QueuedIn(less) \cup gone
  <2>1. PICK i \in DOMAIN box : box[i].kind = "batch" /\ x \in RowsOf(box[i].rows)
    BY <1>2, QueuedRow
  <2>2. CASE i = 1
    BY <1>1, <2>1, <2>2
  <2>3. CASE i # 1
    <3>1. i - 1 \in DOMAIN less /\ less[i - 1] = box[i]
      BY <1>1, <2>3
    <3> QED  BY <2>1, <3>1, QueuedRow
  <2> QED  BY <2>2, <2>3
<1>3. ASSUME NEW x \in QueuedIn(less) PROVE x \in QueuedIn(box)
  <2>1. PICK i \in DOMAIN less : less[i].kind = "batch" /\ x \in RowsOf(less[i].rows)
    BY <1>3, QueuedRow
  <2>2. i + 1 \in DOMAIN box /\ less[i] = box[i + 1]
    BY <1>1
  <2> QED  BY <2>1, <2>2, QueuedRow
<1>4. ASSUME NEW x \in gone PROVE x \in QueuedIn(box)
  <2>1. 1 \in DOMAIN box /\ box[1].kind = "batch" /\ x \in RowsOf(box[1].rows)
    BY <1>1, <1>4
  <2> QED  BY <2>1, QueuedRow
<1>5. QueuedIn(box) = QueuedIn(less) \cup gone
  BY <1>2, <1>3, <1>4
<1> QED  BY <1>5 DEF less, first

LEMMA Handled ==
  ASSUME NEW box \in Seq(MailboxMessages), box # <<>>,
         NEW at \in [1 .. Len(box) + 1 -> Nat], InPlace(box, at)
  PROVE  LET less == Tail(box)
         IN  /\ Head(box) \in MailboxMessages /\ less \in Seq(MailboxMessages)
             /\ Head(box).kind = "batch" => InLine(Head(box).rows, at[1] + Head(box).gap)
             /\ \A j \in DOMAIN less :
                  Head(box).kind = "read" /\ less[j].kind = "batch"
                  => \A x \in RowsOf(less[j].rows) : x >= Head(box).window.hi
             /\ \E to \in [1 .. Len(less) + 1 -> Nat] :
                  /\ InPlace(less, to) /\ to[1] = Behind(Head(box), at[1])
                  /\ to[Len(less) + 1] = at[Len(box) + 1]
<1> DEFINE less == Tail(box)
           first == Head(box)
<1>1. PICK n \in Nat \ {0} : n = Len(box) /\ DOMAIN box = 1 .. n
  OBVIOUS
<1>2. /\ DOMAIN less = 1 .. n - 1 /\ Len(less) = n - 1
      /\ \A i \in 1 .. n - 1 : less[i] = box[i + 1]
      /\ first = box[1] /\ first \in MailboxMessages /\ less \in Seq(MailboxMessages)
  BY <1>1
<1> DEFINE to == [i \in 1 .. n |-> at[i + 1]]
<1>3. to \in [1 .. n -> Nat] /\ (\A i \in 1 .. n : to[i] = at[i + 1])
      /\ (\A i \in 1 .. n : i \in 1 .. n + 1 /\ i + 1 \in 1 .. n + 1)
      /\ (\A i \in 1 .. n - 1 : i \in DOMAIN less /\ i + 1 \in DOMAIN box
                                /\ i \in 1 .. n /\ i + 1 \in 1 .. n)
  BY <1>1, <1>2
<1> HIDE DEF less, first, to
<1>4. /\ \A i \in DOMAIN box :
           IF box[i].kind = "batch"
           THEN /\ InLine(box[i].rows, at[i] + box[i].gap)
                /\ at[i + 1] = at[i] + box[i].gap + Len(box[i].rows)
           ELSE at[i + 1] = at[i]
      /\ \A i, j \in 1 .. n + 1 : i <= j => at[i] <= at[j]
      /\ \A i, j \in DOMAIN box :
           i < j /\ box[i].kind = "read" /\ box[j].kind = "batch"
           => box[i].window.hi <= at[j] + box[j].gap
  BY <1>1 DEF InPlace
<1>5. InPlace(less, to)
  <2>1. ASSUME NEW i \in DOMAIN less
        PROVE  IF less[i].kind = "batch"
               THEN /\ InLine(less[i].rows, to[i] + less[i].gap)
                    /\ to[i + 1] = to[i] + less[i].gap + Len(less[i].rows)
               ELSE to[i + 1] = to[i]
    <3>1. i + 1 \in DOMAIN box /\ less[i] = box[i + 1] /\ to[i] = at[i + 1]
          /\ to[i + 1] = at[(i + 1) + 1]
      BY <1>1, <1>2, <1>3
    <3> QED  BY <1>4, <3>1
  <2>2. ASSUME NEW i \in 1 .. n, NEW j \in 1 .. n, i <= j PROVE to[i] <= to[j]
    BY <1>1, <1>3, <1>4, <2>2
  <2>3. ASSUME NEW i \in DOMAIN less, NEW j \in DOMAIN less, i < j,
               less[i].kind = "read", less[j].kind = "batch"
        PROVE  less[i].window.hi <= to[j] + less[j].gap
    <3>1. i + 1 \in DOMAIN box /\ less[i] = box[i + 1] /\ j + 1 \in DOMAIN box
          /\ less[j] = box[j + 1] /\ to[j] = at[j + 1] /\ i + 1 < j + 1
      BY <1>1, <1>2, <1>3, <2>3
    <3> QED  BY <1>4, <2>3, <3>1
  <2>4. Len(less) + 1 = n
    BY <1>1, <1>2
  <2> QED  BY <2>1, <2>2, <2>3, <2>4 DEF InPlace
<1>6. 1 \in DOMAIN box /\ 1 \in 1 .. n /\ n \in 1 .. n /\ Len(less) + 1 = n
  BY <1>1, <1>2
<1>7. to[1] = Behind(first, at[1]) /\ to[n] = at[n + 1]
  BY <1>2, <1>3, <1>4, <1>6 DEF Behind
<1>8. first.kind = "batch" => InLine(first.rows, at[1] + first.gap)
  BY <1>2, <1>4, <1>6
<1>9. ASSUME NEW j \in DOMAIN less, first.kind = "read", less[j].kind = "batch",
             NEW x \in RowsOf(less[j].rows)
      PROVE  x >= first.window.hi
  <2>1. j + 1 \in DOMAIN box /\ less[j] = box[j + 1] /\ 1 < j + 1
    BY <1>1, <1>2, <1>3
  <2>2. InLine(less[j].rows, at[j + 1] + less[j].gap)
        /\ first.window.hi <= at[j + 1] + less[j].gap
    BY <1>2, <1>4, <1>6, <1>9, <2>1
  <2>3. less[j] \in MailboxMessages /\ less[j].gap \in Nat /\ less[j].rows \in Seq(Nat)
        /\ at[j + 1] \in Nat /\ first.window.hi \in Nat
    <3>1. less[j] \in MailboxMessages /\ at[j + 1] \in Nat
      BY <1>1, <1>2, <1>3
    <3> QED  BY <1>2, <1>9, <3>1, MessageKinds
  <2>4. PICK k \in DOMAIN less[j].rows : x = less[j].rows[k]
    BY DEF RowsOf
  <2>5. k \in Nat \ {0} /\ x = (at[j + 1] + less[j].gap) + k - 1
    BY <2>2, <2>3, <2>4 DEF InLine
  <2>6. PICK a \in Nat, g \in Nat, h \in Nat :
          a = at[j + 1] /\ g = less[j].gap /\ h = first.window.hi
    BY <2>3
  <2>7. h <= a + g /\ x = (a + g) + k - 1 /\ k \in Nat \ {0}
    BY <2>2, <2>5, <2>6
  <2>8. x >= h
    BY <2>7
  <2> QED  BY <2>6, <2>8
<1>10. \E t \in [1 .. Len(less) + 1 -> Nat] :
         /\ InPlace(less, t) /\ t[1] = Behind(first, at[1])
         /\ t[Len(less) + 1] = at[Len(box) + 1]
  BY <1>1, <1>3, <1>5, <1>6, <1>7
<1> QED  BY <1>2, <1>8, <1>9, <1>10 DEF less, first

\* The rows in the mailbox are behind the core's, and before those to come.
LEMMA QueuedWithin ==
  ASSUME NEW box \in Seq(MailboxMessages), NEW at \in [1 .. Len(box) + 1 -> Nat],
         InPlace(box, at)
  PROVE  /\ \A x \in QueuedIn(box) : x \in Nat /\ at[1] <= x /\ x < at[Len(box) + 1]
         /\ IsFiniteSet(QueuedIn(box)) /\ Cardinality(QueuedIn(box)) \in Nat
<1>1. PICK n \in Nat : n = Len(box) /\ DOMAIN box = 1 .. n
  OBVIOUS
<1>2. ASSUME NEW x \in QueuedIn(box)
      PROVE  x \in Nat /\ at[1] <= x /\ x < at[n + 1]
  <2>1. PICK i \in DOMAIN box : box[i].kind = "batch" /\ x \in RowsOf(box[i].rows)
    BY QueuedRow
  <2>2. PICK k \in DOMAIN box[i].rows : x = box[i].rows[k]
    BY <2>1 DEF RowsOf
  <2>3. box[i] \in MailboxMessages /\ i \in 1 .. n
    BY <1>1
  <2>4. box[i].gap \in Nat /\ box[i].rows \in Seq(Nat)
    BY <2>1, <2>3, MessageKinds
  <2>5. PICK g \in Nat, l \in Nat : g = box[i].gap /\ l = Len(box[i].rows) /\ k \in 1 .. l
    <3>1. Len(box[i].rows) \in Nat /\ DOMAIN box[i].rows = 1 .. Len(box[i].rows)
      BY <2>4
    <3> QED  BY <2>4, <3>1, Zenon
  <2>6. /\ x = at[i] + g + k - 1 /\ at[i + 1] = at[i] + g + l
    BY <1>1, <2>1, <2>2, <2>5 DEF InPlace, InLine
  <2>7. /\ 1 \in 1 .. n + 1 /\ i \in 1 .. n + 1 /\ i + 1 \in 1 .. n + 1 /\ n + 1 \in 1 .. n + 1
        /\ 1 <= i /\ i + 1 <= n + 1
    BY <1>1, <2>3
  <2>8. at[1] <= at[i] /\ at[i + 1] <= at[n + 1]
    BY <1>1, <2>7 DEF InPlace
  <2>9. at[1] \in Nat /\ at[i] \in Nat /\ at[i + 1] \in Nat /\ at[n + 1] \in Nat
    BY <1>1, <2>7
  <2>10. PICK a \in Nat, b \in Nat, c \in Nat, d \in Nat :
           a = at[1] /\ b = at[i] /\ c = at[i + 1] /\ d = at[n + 1]
    BY <2>9
  <2>11. a <= b /\ c <= d /\ x = b + g + k - 1 /\ c = b + g + l /\ k \in 1 .. l
    BY <2>5, <2>6, <2>8, <2>10
  <2>12. x \in Nat /\ a <= x /\ x < d
    BY <2>11
  <2> QED  BY <2>10, <2>12
<1>3. IsFiniteSet(QueuedIn(box)) /\ Cardinality(QueuedIn(box)) \in Nat
  <2>1. PICK e \in Nat : e = at[n + 1]
    <3>1. n + 1 \in 1 .. Len(box) + 1
      BY <1>1
    <3> QED  BY <3>1
  <2>2. 0 \in Int /\ e \in Int
    OBVIOUS
  <2>3. IsFiniteSet(0 .. e)
    BY <2>2, FS_Interval
  <2>4. QueuedIn(box) \subseteq 0 .. e
    BY <1>2, <2>1
  <2>5. IsFiniteSet(QueuedIn(box))
    BY <2>3, <2>4, FS_Subset
  <2> QED  BY <2>5, FS_CardinalityType
<1> QED  BY <1>1, <1>2, <1>3

\* A set of rows behind another.
LEMMA RowsBehind ==
  ASSUME NEW A, NEW B, NEW limit \in Nat, IsFiniteSet(A), IsFiniteSet(B),
         \A x \in A : x \in Nat /\ x < limit, \A x \in B : x \in Nat /\ x >= limit
  PROVE  /\ IsFiniteSet(A \cup B)
         /\ Cardinality(A \cup B) = Cardinality(A) + Cardinality(B)
<1>1. A \cap B = {}
  OBVIOUS
<1>2. Cardinality(A \cap B) = 0
  BY <1>1, FS_EmptySet
<1>3. /\ IsFiniteSet(A \cup B)
      /\ Cardinality(A \cup B) = Cardinality(A) + Cardinality(B) - Cardinality(A \cap B)
  BY FS_Union
<1>4. Cardinality(A) \in Nat /\ Cardinality(B) \in Nat
  BY FS_CardinalityType
<1> QED  BY <1>2, <1>3, <1>4

\* The rows the core has are before its end, and can be counted by their places.
LEMMA KeptCount ==
  ASSUME NEW c, Sound(c)
  PROVE  /\ IsFiniteSet(Kept(c))
         /\ \A x \in Kept(c) : x \in Nat /\ x < End(c)
         /\ Cardinality(Kept(c)) = DiskRows(c.segments) + Len(c.active) + Len(c.pending)
<1>1. /\ c.segments \in Seq(Segments) /\ c.active \in Seq(Nat) /\ c.pending \in Seq(Nat)
      /\ InLine(c.active, c.base) /\ InLine(c.pending, c.base + Len(c.active))
      /\ Filed(c.segments, c.base)
  BY CoreFields DEF Sound
<1>2. PICK b \in Nat, a \in Nat, p \in Nat, k \in Nat :
        b = c.base /\ a = Len(c.active) /\ p = Len(c.pending) /\ k = DiskRows(c.segments)
  BY CoreFields
<1>3. End(c) = b + a + p
  BY <1>2 DEF End
<1> DEFINE A == FiledRows(c.segments)
           B == RowsOf(c.active)
           C == RowsOf(c.pending)
<1>4. A \subseteq 0 .. b - 1 /\ IsFiniteSet(A) /\ Cardinality(A) = k
  BY <1>1, <1>2, SegmentsCount
<1>5. B = b .. b + a - 1 /\ IsFiniteSet(B) /\ Cardinality(B) = a
  BY <1>1, <1>2, LineRows
<1>6. C = (b + a) .. (b + a) + p - 1 /\ IsFiniteSet(C) /\ Cardinality(C) = p
  <2>1. b + a \in Nat /\ InLine(c.pending, b + a)
    BY <1>1, <1>2
  <2> QED  BY <1>1, <1>2, <2>1, LineRows
<1> HIDE DEF A, B, C
<1>7. Kept(c) = (A \cup B) \cup C
  BY KeptRows DEF A, B, C
<1>8. /\ \A x \in A : x \in Nat /\ x < b /\ x < b + a
      /\ \A x \in B : x \in Nat /\ x >= b /\ x < b + a
      /\ \A x \in C : x \in Nat /\ x >= b + a /\ x < b + a + p
  BY <1>4, <1>5, <1>6
<1>9. IsFiniteSet(A \cup B) /\ Cardinality(A \cup B) = k + a
  <2>1. /\ \A x \in A : x \in Nat /\ x < b
        /\ \A x \in B : x \in Nat /\ x >= b
    BY <1>8
  <2> QED  BY <1>4, <1>5, <2>1, RowsBehind
<1> DEFINE D == A \cup B
<1>10. IsFiniteSet(D \cup C) /\ Cardinality(D \cup C) = (k + a) + p
  <2>1. /\ \A x \in D : x \in Nat /\ x < b + a
        /\ \A x \in C : x \in Nat /\ x >= b + a
    BY <1>8
  <2>2. b + a \in Nat /\ IsFiniteSet(D) /\ Cardinality(D) = k + a
    BY <1>9
  <2> HIDE DEF D
  <2>3. /\ IsFiniteSet(D \cup C)
        /\ Cardinality(D \cup C) = Cardinality(D) + Cardinality(C)
    BY <1>6, <2>1, <2>2, RowsBehind
  <2> QED  BY <1>6, <2>2, <2>3
<1>11. \A x \in Kept(c) : x \in Nat /\ x < End(c)
  BY <1>3, <1>7, <1>8
<1> QED  BY <1>2, <1>7, <1>10, <1>11

-----------------------------------------------------------------------------
\* What every step leaves as it was.

\* What is gone stays gone.
GoneStays == \A i : Gone(i) => Gone(i)'

LEMMA Goes ==
  ASSUME pushed \in Nat, pushed' \in Nat, pushed <= pushed',
         \A i \in Held' : i \in Held \/ i >= pushed
  PROVE  GoneStays
<1> SUFFICES ASSUME NEW i, Gone(i) PROVE Gone(i)'
  BY DEF GoneStays
<1>1. i \in Nat /\ i < pushed /\ i \notin Held
  BY DEF Gone
<1>2. i \notin Held'
  <2>1. ~ i >= pushed
    BY <1>1
  <2> QED  BY <1>1, <2>1
<1>3. i \in 0 .. pushed' - 1
  <2>1. PICK p \in Nat, q \in Nat : p = pushed /\ q = pushed'
    OBVIOUS
  <2>2. i \in Nat /\ i < p /\ p <= q
    BY <1>1, <2>1
  <2>3. i \in 0 .. q - 1
    BY <2>2
  <2> QED  BY <2>1, <2>3
<1> QED  BY <1>2, <1>3 DEF Gone

\* Neither the tiers, nor what is between them, change.
LEMMA Untouched ==
  ASSUME Typed, ArchiveInv,
         UNCHANGED <<facadeVars, manager, mailbox, writer, core, attached, pushed, hot>>
  PROVE  ArchiveInv' /\ GoneStays
<1> USE DEF facadeVars
<1>1. Placed' /\ Books' /\ Tiers'
  <2>1. Placed' = Placed
    BY DEF Placed, PlacedAt
  <2>2. Books' = Books
    BY QueuedRows DEF Books, Queued
  <2>3. Tiers' = Tiers
    BY DEF Tiers
  <2> QED  BY <2>1, <2>2, <2>3 DEF ArchiveInv
<1>2. Sound(core') /\ Rested(core')
  BY DEF ArchiveInv
<1>3. Held' = Held
  BY DEF Held, Queued
<1>4. GoneStays
  BY <1>3, Goes DEF Typed
<1> QED  BY <1>1, <1>2, <1>4 DEF ArchiveInv

\* The reads in the mailbox are among those before.
LEMMA PostedStays ==
  ASSUME Typed, ReadsPosted, received' \in Nat, received <= received', NEW was,
         \A i \in DOMAIN mailbox' : mailbox'[i].kind = "read" =>
           /\ was[i] \in DOMAIN mailbox /\ mailbox'[i] = mailbox[was[i]]
           /\ LET r == mailbox'[i].reader
              IN  \/ read'[r] = read[r] /\ window'[r] = window[r]
                  \/ read'[r] = "failed",
         \A i, j \in DOMAIN mailbox' : was[i] = was[j] => i = j
  PROVE  ReadsPosted'
<1>1. ASSUME NEW i \in DOMAIN mailbox', mailbox'[i].kind = "read"
      PROVE  LET r == mailbox'[i].reader
             IN  /\ read'[r] \in {"waiting", "failed"}
                 /\ read'[r] = "waiting" => mailbox'[i].window = window'[r]
                 /\ mailbox'[i].window.hi <= received'
  <2> DEFINE k == was[i]
             r == mailbox[k].reader
  <2>1. k \in DOMAIN mailbox /\ mailbox'[i] = mailbox[k] /\ mailbox[k].kind = "read"
    BY <1>1
  <2>2. \/ read'[r] = read[r] /\ window'[r] = window[r]
        \/ read'[r] = "failed"
    BY <1>1, <2>1
  <2>3. /\ read[r] \in {"waiting", "failed"}
        /\ read[r] = "waiting" => mailbox[k].window = window[r]
        /\ mailbox[k].window.hi <= received
    BY <2>1 DEF ReadsPosted
  <2>4. mailbox[k].window.hi \in Nat /\ received \in Nat
    <3>1. mailbox[k] \in MailboxMessages /\ received \in Nat
      BY <2>1 DEF Typed
    <3> QED  BY <2>1, <3>1, MessageKinds
  <2>5. mailbox[k].window.hi <= received'
    BY <2>3, <2>4
  <2> HIDE DEF k
  <2> QED  BY <2>1, <2>2, <2>3, <2>5
<1>2. ASSUME NEW i \in DOMAIN mailbox', NEW j \in DOMAIN mailbox',
             mailbox'[i].kind = "read", mailbox'[j].kind = "read",
             mailbox'[i].reader = mailbox'[j].reader
      PROVE  i = j
  BY <1>2 DEF ReadsPosted
<1> QED  BY <1>1, <1>2 DEF ReadsPosted
-----------------------------------------------------------------------------
\* The hot buffer.

LEMMA SubRows ==
  ASSUME NEW rows \in Seq(Nat), NEW first \in Nat, InLine(rows, first),
         NEW m \in Nat, NEW n \in 0 .. Len(rows), m \in 1 .. n + 1
  PROVE  /\ SubSeq(rows, m, n) \in Seq(Nat) /\ Len(SubSeq(rows, m, n)) = n - m + 1
         /\ InLine(SubSeq(rows, m, n), first + m - 1)
<1>1. PICK l \in Nat : l = Len(rows) /\ DOMAIN rows = 1 .. l
  OBVIOUS
<1> DEFINE part == SubSeq(rows, m, n)
<1>2. part \in Seq(Nat) /\ Len(part) = n - m + 1
  BY <1>1
<1>3. \A k \in 1 .. n - m + 1 : part[k] = rows[m + k - 1]
  BY <1>1
<1>4. \A k \in 1 .. n - m + 1 : m + k - 1 \in 1 .. l
  BY <1>1
<1>5. \A k \in 1 .. n - m + 1 : part[k] = (first + m - 1) + k - 1
  <2> HIDE DEF part
  <2> TAKE k \in 1 .. n - m + 1
  <2>1. PICK j \in 1 .. l : j = m + k - 1 /\ part[k] = rows[j]
    BY <1>3, <1>4
  <2>2. rows[j] = first + j - 1
    BY <1>1 DEF InLine
  <2> QED  BY <2>1, <2>2
<1>6. DOMAIN part = 1 .. n - m + 1
  BY <1>2
<1> HIDE DEF part
<1>7. InLine(part, first + m - 1)
  BY <1>5, <1>6 DEF InLine
<1> QED  BY <1>2, <1>7 DEF part

\* One row more, and some of the oldest are no longer hot.
LEMMA Scrolls ==
  ASSUME Typed, Tiers, PushToScrollback
  PROVE  \E f \in Nat, n \in Nat, old \in Seq(Nat) :
           /\ f = pushed - Len(hot) /\ (attached => received = f)
           /\ Len(old) = n /\ InLine(old, f) /\ RowsOf(old) = f .. f + n - 1
           /\ f + n <= pushed'
           /\ hot' \in Seq(Nat) /\ InLine(hot', f + n) /\ Len(hot') = pushed' - (f + n)
           /\ \A x \in RowsOf(hot') : x \in RowsOf(hot) \/ x = pushed
           /\ \A x \in RowsOf(old) : x \in RowsOf(hot) \/ x = pushed
           /\ IF attached /\ n > 0 THEN ManagerArchiveRows(old) ELSE UNCHANGED archiveVars
<1> DEFINE rows == Append(hot, pushed)
<1> HIDE DEF rows
<1>1. PICK p \in Nat, h \in Nat : p = pushed /\ h = Len(hot) /\ DOMAIN hot = 1 .. h /\ h <= p
  <2>1. pushed \in Nat /\ hot \in Seq(Nat) /\ Len(hot) <= pushed
    BY DEF Typed, Tiers
  <2>2. Len(hot) \in Nat /\ DOMAIN hot = 1 .. Len(hot)
    BY <2>1
  <2> QED  BY <2>1, <2>2, Zenon
<1>2. PICK f \in Nat : f = p - h
  BY <1>1
<1>3. InLine(hot, f) /\ hot \in Seq(Nat) /\ (attached => received = f)
  BY <1>1, <1>2 DEF Typed, Tiers
<1>4. pushed' = p + 1
  BY <1>1 DEF PushToScrollback
<1>5. PICK n \in Pruned(rows) :
        /\ hot' = SubSeq(rows, n + 1, Len(rows))
        /\ IF attached /\ n > 0 THEN ManagerArchiveRows(SubSeq(rows, 1, n))
           ELSE UNCHANGED archiveVars
  BY DEF PushToScrollback, rows
<1>6. rows \in Seq(Nat) /\ Len(rows) = h + 1 /\ InLine(rows, f)
  <2>1. /\ rows \in Seq(Nat) /\ Len(rows) = h + 1 /\ DOMAIN rows = 1 .. h + 1
        /\ (\A k \in 1 .. h : rows[k] = hot[k]) /\ rows[h + 1] = p
    BY <1>1, <1>3 DEF rows
  <2>2. ASSUME NEW k \in 1 .. h + 1 PROVE rows[k] = f + k - 1
    <3>1. CASE k = h + 1
      BY <1>2, <2>1, <3>1
    <3>2. CASE k # h + 1
      <4>1. k \in 1 .. h
        BY <3>2
      <4> QED  BY <1>1, <1>3, <2>1, <4>1 DEF InLine
    <3> QED  BY <3>1, <3>2
  <2> QED  BY <2>1, <2>2 DEF InLine
<1>7. n \in 0 .. h + 1 /\ n \in Nat /\ n + 1 \in Nat
  <2>1. n \in {0} \/ n \in 1 .. Len(rows)
    BY DEF Pruned
  <2> QED  BY <1>6, <2>1
<1> DEFINE old == SubSeq(rows, 1, n)
<1>8. old \in Seq(Nat) /\ Len(old) = n /\ InLine(old, f)
  <2>1. n \in 0 .. Len(rows) /\ 1 \in 1 .. n + 1 /\ 1 \in Nat
    BY <1>6, <1>7
  <2>2. /\ old \in Seq(Nat) /\ Len(old) = n - 1 + 1
        /\ InLine(old, f + 1 - 1)
    BY <1>6, <2>1, SubRows
  <2>3. n - 1 + 1 = n /\ f + 1 - 1 = f
    BY <1>7
  <2> QED  BY <2>2, <2>3
<1>9. hot' \in Seq(Nat) /\ Len(hot') = h + 1 - n /\ InLine(hot', f + n)
  <2>1. h + 1 \in 0 .. Len(rows) /\ n + 1 \in 1 .. (h + 1) + 1 /\ n + 1 \in Nat
    BY <1>6, <1>7
  <2>2. /\ SubSeq(rows, n + 1, h + 1) \in Seq(Nat)
        /\ Len(SubSeq(rows, n + 1, h + 1)) = (h + 1) - (n + 1) + 1
        /\ InLine(SubSeq(rows, n + 1, h + 1), f + (n + 1) - 1)
    BY <1>6, <2>1, SubRows
  <2>3. (h + 1) - (n + 1) + 1 = h + 1 - n /\ f + (n + 1) - 1 = f + n
    BY <1>7
  <2> QED  BY <1>5, <1>6, <2>2, <2>3
<1>10. RowsOf(old) = f .. f + n - 1
  BY <1>8, LineRows
<1>11. RowsOf(hot') = f + n .. (f + n) + (h + 1 - n) - 1
  <2>1. f + n \in Nat
    BY <1>7
  <2> QED  BY <1>9, <2>1, LineRows
<1>12. RowsOf(hot) = f .. f + h - 1
  BY <1>1, <1>3, LineRows
<1>13. f + n <= p + 1 /\ (p + 1) - (f + n) = h + 1 - n
  BY <1>2, <1>7
<1>14. /\ \A x \in RowsOf(hot') : x \in RowsOf(hot) \/ x = p
       /\ \A x \in RowsOf(old) : x \in RowsOf(hot) \/ x = p
  <2> HIDE DEF old
  <2>1. f + h = p
    BY <1>2
  <2>2. ASSUME NEW x \in f + n .. (f + n) + (h + 1 - n) - 1 PROVE x \in f .. f + h - 1 \/ x = p
    BY <1>7, <2>1
  <2>3. ASSUME NEW x \in f .. f + n - 1 PROVE x \in f .. f + h - 1 \/ x = p
    BY <1>7, <2>1
  <2> QED  BY <1>10, <1>11, <1>12, <2>2, <2>3
<1> HIDE DEF old
<1>15. IF attached /\ n > 0 THEN ManagerArchiveRows(old) ELSE UNCHANGED archiveVars
  BY <1>5 DEF old
<1>16. /\ f = pushed - Len(hot) /\ f + n <= pushed' /\ Len(hot') = pushed' - (f + n)
       /\ n \in Nat
  BY <1>1, <1>2, <1>4, <1>7, <1>9, <1>13
<1>17. /\ \A x \in RowsOf(hot') : x \in RowsOf(hot) \/ x = pushed
       /\ \A x \in RowsOf(old) : x \in RowsOf(hot) \/ x = pushed
  BY <1>1, <1>14
<1> QED  BY <1>3, <1>8, <1>9, <1>10, <1>15, <1>16, <1>17, Zenon

\* The rows that leave the hot buffer are put behind those on their way, or
\* counted as dropped.
LEMMA Takes ==
  ASSUME Typed, ArchiveInv, ReadsPosted, NEW f \in Nat, NEW n \in Nat, NEW old \in Seq(Nat),
         attached, received = f, Len(old) = n, InLine(old, f), RowsOf(old) = f .. f + n - 1,
         ManagerArchiveRows(old)
  PROVE  /\ received' = f + n
         /\ received' \in Nat /\ dropped' \in Nat /\ pendingGap' \in Nat
         /\ mailbox' \in Seq(MailboxMessages)
         /\ Placed' /\ Books' /\ ReadsPosted'
         /\ \A x \in Queued' : x \in Queued \/ x \in RowsOf(old)
<1>1. PICK d \in Nat, g \in Nat : d = dropped /\ g = pendingGap
  BY DEF Typed
<1>2. /\ received' = f + n /\ manager' = manager /\ writer' = writer /\ core' = core
      /\ read' = read /\ window' = window /\ received' \in Nat /\ received <= received'
  BY DEF ManagerArchiveRows, readVars
<1>3. mailbox \in Seq(MailboxMessages) /\ Placed /\ Books
  BY DEF Typed, ArchiveInv
<1>4. CASE manager = "open" /\ HasRoom
  <2> DEFINE m == [kind |-> "batch", gap |-> g, rows |-> old]
  <2>1. mailbox' = Append(mailbox, m) /\ pendingGap' = 0 /\ dropped' = d
    BY <1>1, <1>4 DEF ManagerArchiveRows
  <2>2. m \in MailboxMessages /\ m.kind = "batch" /\ m.gap = g /\ m.rows = old
    BY DEF MailboxMessages, Batches
  <2> HIDE DEF m
  <2>3. writer = "running" /\ manager # "none"
    BY <1>4 DEF HasRoom
  <2>4. PICK at : PlacedAt(at)
    BY <1>3, <2>3 DEF Placed
  <2>5. PICK l \in Nat : l = Len(mailbox) /\ DOMAIN mailbox = 1 .. l
    BY <1>3
  <2>6. /\ at \in [1 .. Len(mailbox) + 1 -> Nat] /\ InPlace(mailbox, at) /\ at[1] = End(core)
        /\ at[Len(mailbox) + 1] + g = f
    BY <1>1, <2>3, <2>4 DEF PlacedAt
  <2>7. PICK end \in Nat : end = at[Len(mailbox) + 1] /\ end + g = f
    BY <2>5, <2>6
  <2>8. \A i \in DOMAIN mailbox : mailbox[i].kind = "read" => mailbox[i].window.hi <= end + m.gap
    BY <2>2, <2>7 DEF ReadsPosted
  <2>9. InLine(m.rows, end + m.gap)
    BY <2>2, <2>7
  <2>10. PICK to \in [1 .. Len(mailbox') + 1 -> Nat] :
           /\ InPlace(mailbox', to) /\ to[1] = at[1]
           /\ to[Len(mailbox') + 1] = Behind(m, end)
    <3>1. at \in [1 .. Len(mailbox) + 1 -> Nat] /\ InPlace(mailbox, at)
          /\ mailbox \in Seq(MailboxMessages) /\ m \in MailboxMessages
          /\ end = at[Len(mailbox) + 1]
      BY <1>3, <2>2, <2>6, <2>7
    <3>2. GoesOn(Append(mailbox, m), at[1], Behind(m, end))
      BY <2>8, <2>9, <3>1, Appended, Zenon
    <3>3. GoesOn(mailbox', at[1], Behind(m, end))
      BY <2>1, <3>2, Zenon
    <3> QED  BY <3>3, Zenon DEF GoesOn
  <2>11. Behind(m, end) = f + n
    BY <2>2, <2>7 DEF Behind
  <2>12. PlacedAt(to)'
    <3>1. to[Len(mailbox') + 1] + pendingGap' = received'
      BY <1>2, <2>1, <2>10, <2>11
    <3> QED  BY <1>2, <2>6, <2>10, <3>1 DEF PlacedAt
  <2>13. Placed'
    BY <2>12 DEF Placed
  <2>14. Queued' = QueuedIn(mailbox) \cup RowsOf(old) /\ Queued = QueuedIn(mailbox)
    <3>1. Queued' = QueuedIn(mailbox')
      BY DEF Queued, QueuedIn, RowsOf
    <3> QED  BY <1>3, <2>1, <2>2, <3>1, AppendedRows, QueuedRows
  <2>15. /\ \A x \in QueuedIn(mailbox) : x \in Nat /\ x < f
         /\ IsFiniteSet(QueuedIn(mailbox)) /\ Cardinality(QueuedIn(mailbox)) \in Nat
    <3>1. /\ \A x \in QueuedIn(mailbox) : x \in Nat /\ x < end
          /\ IsFiniteSet(QueuedIn(mailbox)) /\ Cardinality(QueuedIn(mailbox)) \in Nat
      BY <1>3, <2>6, <2>7, QueuedWithin
    <3>2. end <= f
      BY <2>7
    <3>3. \A x \in Nat : x < end => x < f
      BY <3>2
    <3> QED  BY <3>1, <3>3, Zenon
  <2>16. /\ \A x \in RowsOf(old) : x \in Nat /\ x >= f
         /\ IsFiniteSet(RowsOf(old)) /\ Cardinality(RowsOf(old)) = n
    BY LineRows
  <2>17. Cardinality(Queued') = Cardinality(Queued) + n
    BY <2>14, <2>15, <2>16, RowsBehind
  <2>18. Books'
    <3>1. f = d + Counted(core) + Cardinality(Queued)
      BY <1>1, <1>3, <2>3 DEF Books
    <3>2. PICK c \in Nat, q \in Nat : c = Counted(core) /\ q = Cardinality(Queued)
      <4>1. Counted(core) \in Nat
        BY EndsNat DEF ArchiveInv
      <4> QED  BY <2>14, <2>15, <4>1
    <3>5. f = d + c + q
      BY <3>1, <3>2, Zenon
    <3>3. f + n = d + c + (q + n)
      BY <3>5
    <3>4. received' = dropped' + Counted(core') + Cardinality(Queued')
      BY <1>2, <2>1, <2>17, <3>2, <3>3
    <3> QED  BY <3>4 DEF Books
  <2>19. ReadsPosted'
    <3> DEFINE was == [i \in DOMAIN mailbox' |-> i]
    <3>1. DOMAIN mailbox' = 1 .. l + 1 /\ (\A i \in 1 .. l : mailbox'[i] = mailbox[i])
          /\ mailbox'[l + 1] = m
      BY <1>3, <2>1, <2>5
    <3>2. \A i \in DOMAIN mailbox' : mailbox'[i].kind = "read" =>
             was[i] \in DOMAIN mailbox /\ mailbox'[i] = mailbox[was[i]]
      BY <2>2, <2>5, <3>1
    <3>3. \A i, j \in DOMAIN mailbox' : was[i] = was[j] => i = j
      OBVIOUS
    <3> HIDE DEF was
    <3> QED  BY <1>2, <3>2, <3>3, PostedStays
  <2>20. mailbox' \in Seq(MailboxMessages)
    BY <1>3, <2>1, <2>2
  <2>21. \A x \in Queued' : x \in Queued \/ x \in RowsOf(old)
    BY <2>14
  <2> QED  BY <1>2, <2>1, <2>13, <2>18, <2>19, <2>20, <2>21
<1>5. CASE ~ (manager = "open" /\ HasRoom)
  <2> DEFINE more == IF manager = "none" THEN 0 ELSE n
  <2>1. mailbox' = mailbox /\ pendingGap' = g + more /\ dropped' = d + more /\ more \in Nat
    BY <1>1, <1>5 DEF ManagerArchiveRows
  <2>2. manager # "none" => more = n
    OBVIOUS
  <2> HIDE DEF more
  <2>3. Placed'
    <3>1. SUFFICES ASSUME writer = "running" PROVE \E to : PlacedAt(to)'
      BY <1>2 DEF Placed
    <3>2. PICK at : PlacedAt(at)
      BY <1>3, <3>1 DEF Placed
    <3>3. PICK l \in Nat : l = Len(mailbox)
      BY <1>3
    <3>4. PICK end \in Nat : end = at[Len(mailbox) + 1]
      BY <3>2, <3>3 DEF PlacedAt
    <3>5. manager # "none" => end + (g + more) = f + n
      <4>1. manager # "none" => more = n /\ end + g = f
        BY <1>1, <2>2, <3>2, <3>4 DEF PlacedAt
      <4>2. end + g = f => end + (g + n) = f + n
        OBVIOUS
      <4> QED  BY <4>1, <4>2, Zenon
    <3>6. PlacedAt(at)'
      BY <1>2, <2>1, <3>2, <3>4, <3>5 DEF PlacedAt
    <3> QED  BY <3>6
  <2>4. Queued' = Queued
    BY <2>1 DEF Queued
  <2>5. Books'
    <3>1. SUFFICES ASSUME writer = "running", manager # "none"
                   PROVE  received' = dropped' + Counted(core') + Cardinality(Queued')
      BY <1>2 DEF Books
    <3>2. PICK at : PlacedAt(at)
      BY <1>3, <3>1 DEF Placed
    <3>3. Queued = QueuedIn(mailbox) /\ Cardinality(QueuedIn(mailbox)) \in Nat
      BY <1>3, <3>2, QueuedRows, QueuedWithin DEF PlacedAt
    <3>4. PICK c \in Nat, q \in Nat : c = Counted(core) /\ q = Cardinality(Queued)
      <4>1. Counted(core) \in Nat
        BY EndsNat DEF ArchiveInv
      <4> QED  BY <3>3, <4>1
    <3>5. f = d + c + q
      BY <1>1, <1>3, <3>1, <3>4 DEF Books
    <3>6. f + n = (d + n) + c + q
      BY <3>5
    <3> QED  BY <1>2, <2>1, <2>2, <2>4, <3>1, <3>4, <3>6
  <2>6. ReadsPosted'
    <3> DEFINE was == [i \in DOMAIN mailbox' |-> i]
    <3>1. \A i \in DOMAIN mailbox' : was[i] \in DOMAIN mailbox /\ mailbox'[i] = mailbox[was[i]]
      BY <2>1
    <3>2. \A i, j \in DOMAIN mailbox' : was[i] = was[j] => i = j
      OBVIOUS
    <3> HIDE DEF was
    <3> QED  BY <1>2, <3>1, <3>2, PostedStays
  <2> QED  BY <1>2, <1>3, <2>1, <2>3, <2>4, <2>5, <2>6
<1> QED  BY <1>4, <1>5

LEMMA Pushes ==
  ASSUME Typed, ArchiveInv, ReadsPosted, PushToScrollback
  PROVE  /\ Typed' /\ ArchiveInv' /\ ReadsPosted' /\ GoneStays
         /\ received <= received'
<1>1. PICK f \in Nat, n \in Nat, old \in Seq(Nat) :
        /\ f = pushed - Len(hot) /\ (attached => received = f)
        /\ Len(old) = n /\ InLine(old, f) /\ RowsOf(old) = f .. f + n - 1
        /\ f + n <= pushed'
        /\ hot' \in Seq(Nat) /\ InLine(hot', f + n) /\ Len(hot') = pushed' - (f + n)
        /\ \A x \in RowsOf(hot') : x \in RowsOf(hot) \/ x = pushed
        /\ \A x \in RowsOf(old) : x \in RowsOf(hot) \/ x = pushed
        /\ IF attached /\ n > 0 THEN ManagerArchiveRows(old) ELSE UNCHANGED archiveVars
  BY Scrolls DEF ArchiveInv
<1>2. /\ attached' = attached /\ pushed' = pushed + 1 /\ UNCHANGED plan
  BY DEF PushToScrollback, answerVars
<1>3. PICK p \in Nat : p = pushed /\ pushed' = p + 1
  BY <1>2 DEF Typed
<1>4. received \in Nat /\ pushed' - (f + n) <= pushed' /\ pushed' - Len(hot') = f + n
  <2>1. received \in Nat
    BY DEF Typed
  <2> QED  BY <1>1, <1>3, <2>1
<1>5. CASE attached /\ n > 0
  <2>1. ManagerArchiveRows(old)
    BY <1>1, <1>5
  <2>2. /\ received' = f + n
        /\ received' \in Nat /\ dropped' \in Nat /\ pendingGap' \in Nat
        /\ mailbox' \in Seq(MailboxMessages)
        /\ Placed' /\ Books' /\ ReadsPosted'
        /\ \A x \in Queued' : x \in Queued \/ x \in RowsOf(old)
    BY <1>1, <1>5, <2>1, Takes
  <2>3. UNCHANGED <<manager, writer, core, read, window, reply>>
    BY <2>1 DEF ManagerArchiveRows, readVars
  <2>4. Sound(core') /\ Rested(core')
    BY <2>3 DEF ArchiveInv
  <2>5. Tiers'
    BY <1>1, <1>2, <1>4, <1>5, <2>2 DEF Tiers
  <2>6. \A x \in Held' : x \in Held \/ x >= pushed
    <3>1. ASSUME NEW x \in Held' PROVE x \in Held \/ x = p
      BY <1>1, <1>3, <2>2, <2>3 DEF Held
    <3> QED  BY <1>3, <3>1
  <2>7. GoneStays
    BY <1>3, <2>6, Goes
  <2>8. Typed'
    BY <1>1, <1>2, <1>3, <2>2, <2>3 DEF Typed
  <2>9. received <= received'
    BY <1>1, <1>5, <2>2
  <2> QED  BY <2>2, <2>4, <2>5, <2>7, <2>8, <2>9 DEF ArchiveInv
<1>6. CASE ~ (attached /\ n > 0)
  <2>1. UNCHANGED <<received, dropped, pendingGap, manager, mailbox, writer, core, read, window, reply>>
    BY <1>1, <1>6 DEF archiveVars, facadeVars, readVars
  <2>2. Queued' = Queued /\ Placed' = Placed /\ Books' = Books /\ ReadsPosted' = ReadsPosted
    BY <2>1 DEF Queued, Placed, PlacedAt, Books, ReadsPosted
  <2>3. attached => f + n = f
    BY <1>1, <1>6
  <2>4. Tiers'
    BY <1>1, <1>2, <1>4, <2>1, <2>3 DEF Tiers, ArchiveInv
  <2>5. \A x \in Held' : x \in Held \/ x >= pushed
    <3>1. ASSUME NEW x \in Held' PROVE x \in Held \/ x = p
      BY <1>1, <1>3, <2>1, <2>2 DEF Held
    <3> QED  BY <1>3, <3>1
  <2>6. GoneStays
    BY <1>3, <2>5, Goes
  <2>7. Typed'
    BY <1>1, <1>2, <1>3, <2>1 DEF Typed
  <2> QED  BY <1>4, <2>1, <2>2, <2>4, <2>6, <2>7 DEF ArchiveInv
<1> QED  BY <1>5, <1>6

-----------------------------------------------------------------------------
\* The mailbox and the writer.

\* The manager is given up.
LEMMA LetsGo ==
  ASSUME Typed, ArchiveInv, manager' = "none",
         UNCHANGED <<facadeVars, mailbox, writer, core, attached, pushed, hot>>
  PROVE  ArchiveInv' /\ GoneStays
<1>1. UNCHANGED <<received, dropped, pendingGap, mailbox, writer, core, attached, pushed, hot>>
  BY DEF facadeVars
<1>2. Placed'
  <2>1. SUFFICES ASSUME writer = "running" PROVE \E to : PlacedAt(to)'
    BY <1>1 DEF Placed
  <2>2. PICK at : PlacedAt(at)
    BY <2>1 DEF ArchiveInv, Placed
  <2>3. PlacedAt(at)'
    BY <1>1, <2>2 DEF PlacedAt
  <2> QED  BY <2>3
<1>3. Books' /\ Tiers'
  BY <1>1 DEF ArchiveInv, Books, Tiers
<1>4. Sound(core') /\ Rested(core')
  BY <1>1 DEF ArchiveInv
<1>5. Held' = Held
  BY <1>1 DEF Held, Queued
<1>6. GoneStays
  BY <1>1, <1>5, Goes DEF Typed
<1> QED  BY <1>2, <1>3, <1>4, <1>6 DEF ArchiveInv

\* A message without rows.
LEMMA Posts ==
  ASSUME Typed, ArchiveInv, writer = "running", manager # "none",
         NEW m \in MailboxMessages, m.kind # "batch", mailbox' = Append(mailbox, m),
         UNCHANGED <<facadeVars, writer, core, attached, pushed, hot>>
  PROVE  ArchiveInv' /\ GoneStays /\ mailbox' \in Seq(MailboxMessages)
<1>1. /\ UNCHANGED <<received, dropped, pendingGap, writer, core, attached, pushed, hot>>
      /\ mailbox \in Seq(MailboxMessages) /\ mailbox' \in Seq(MailboxMessages)
  <2>1. mailbox \in Seq(MailboxMessages)
    BY DEF Typed
  <2> QED  BY <2>1 DEF facadeVars
<1>2. PICK at : PlacedAt(at)
  BY DEF ArchiveInv, Placed
<1>3. at \in [1 .. Len(mailbox) + 1 -> Nat] /\ InPlace(mailbox, at)
  BY <1>2 DEF PlacedAt
<1>4. PICK to \in [1 .. Len(Append(mailbox, m)) + 1 -> Nat] :
        /\ InPlace(Append(mailbox, m), to) /\ to[1] = at[1]
        /\ to[Len(Append(mailbox, m)) + 1] = Behind(m, at[Len(mailbox) + 1])
  <2>1. PICK end : end = at[Len(mailbox) + 1]
    OBVIOUS
  <2>2. m.kind = "batch" =>
          /\ InLine(m.rows, end + m.gap)
          /\ \A i \in DOMAIN mailbox : mailbox[i].kind = "read" =>
               mailbox[i].window.hi <= end + m.gap
    OBVIOUS
  <2>3. mailbox \in Seq(MailboxMessages)
    BY <1>1
  <2>4. GoesOn(Append(mailbox, m), at[1], Behind(m, end))
    BY <1>3, <2>1, <2>2, <2>3, Appended, Zenon
  <2> QED  BY <2>1, <2>4, Zenon DEF GoesOn
<1>5. Behind(m, at[Len(mailbox) + 1]) = at[Len(mailbox) + 1]
  BY DEF Behind
<1>6. PlacedAt(to)'
  BY <1>1, <1>2, <1>4, <1>5 DEF PlacedAt
<1>7. Placed'
  BY <1>6 DEF Placed
<1>8. Queued' = Queued
  <2>1. Queued' = QueuedIn(mailbox')
    BY DEF Queued, QueuedIn, RowsOf
  <2> QED  BY <1>1, <2>1, AppendedRows, QueuedRows
<1>9. Books' /\ Tiers'
  BY <1>1, <1>8 DEF ArchiveInv, Books, Tiers
<1>10. Sound(core') /\ Rested(core')
  BY <1>1 DEF ArchiveInv
<1>11. Held' = Held
  BY <1>1, <1>8 DEF Held
<1>12. GoneStays
  BY <1>1, <1>11, Goes DEF Typed
<1> QED  BY <1>1, <1>7, <1>9, <1>10, <1>12 DEF ArchiveInv

\* The writer has taken a message.
LEMMA Handles ==
  ASSUME Typed, ArchiveInv, writer = "running", mailbox # <<>>, mailbox' = Tail(mailbox),
         UNCHANGED <<facadeVars, manager, attached, pushed, hot>>, Rested(core'),
         IF Head(mailbox).kind = "batch"
         THEN Took(core, Head(mailbox).rows, End(core) + Head(mailbox).gap, core')
         ELSE Keeps(core, core')
  PROVE  ArchiveInv' /\ GoneStays /\ mailbox' \in Seq(MailboxMessages)
<1> DEFINE m == Head(mailbox)
<1>1. /\ UNCHANGED <<received, dropped, pendingGap, manager, attached, pushed, hot>>
      /\ mailbox \in Seq(MailboxMessages)
  BY DEF Typed, facadeVars
<1>2. PICK at : PlacedAt(at)
  BY DEF ArchiveInv, Placed
<1>3. at \in [1 .. Len(mailbox) + 1 -> Nat] /\ InPlace(mailbox, at) /\ at[1] = End(core)
  BY <1>2 DEF PlacedAt
<1>4. /\ m \in MailboxMessages /\ Tail(mailbox) \in Seq(MailboxMessages)
      /\ m.kind = "batch" => InLine(m.rows, at[1] + m.gap)
      /\ \E to \in [1 .. Len(Tail(mailbox)) + 1 -> Nat] :
           /\ InPlace(Tail(mailbox), to) /\ to[1] = Behind(m, at[1])
           /\ to[Len(Tail(mailbox)) + 1] = at[Len(mailbox) + 1]
  BY <1>1, <1>3, Handled, Zenon
<1>5. PICK to \in [1 .. Len(mailbox') + 1 -> Nat] :
        /\ InPlace(mailbox', to) /\ to[1] = Behind(m, at[1])
        /\ to[Len(mailbox') + 1] = at[Len(mailbox) + 1]
  BY <1>4, Zenon
<1>6. m.kind = "batch" => m.gap \in Nat /\ m.rows \in Seq(Nat)
  BY <1>4, MessageKinds
<1> DEFINE news == IF m.kind = "batch" THEN RowsOf(m.rows) ELSE {}
           n == IF m.kind = "batch" THEN Len(m.rows) ELSE 0
<1>7. /\ Sound(core') /\ End(core') = Behind(m, at[1]) /\ Counted(core') = Counted(core) + n
      /\ Kept(core') \subseteq Kept(core) \cup news
  <2>1. CASE m.kind = "batch"
    BY <1>3, <2>1 DEF Took, Behind
  <2>2. CASE m.kind # "batch"
    <3>1. Counted(core) \in Nat
      BY EndsNat DEF ArchiveInv
    <3>2. Counted(core) = Counted(core) + 0
      BY <3>1
    <3> QED  BY <1>3, <2>2, <3>2 DEF Keeps, Behind
  <2> QED  BY <2>1, <2>2
<1>8. Queued = Queued' \cup news
  <2>1. Queued' = QueuedIn(mailbox')
    BY DEF Queued, QueuedIn, RowsOf
  <2>2. QueuedIn(mailbox) = QueuedIn(Tail(mailbox)) \cup news
    BY <1>1, HandledRows, Zenon
  <2> QED  BY <2>1, <2>2, QueuedRows
<1>9. PlacedAt(to)'
  BY <1>1, <1>2, <1>5, <1>7 DEF PlacedAt
<1>10. Cardinality(Queued) = n + Cardinality(Queued') /\ Cardinality(Queued') \in Nat /\ n \in Nat
  <2>1. Queued' = QueuedIn(mailbox')
    BY DEF Queued, QueuedIn, RowsOf
  <2>2. mailbox' \in Seq(MailboxMessages)
    BY <1>4
  <2>3. /\ \A x \in Queued' : x \in Nat /\ to[1] <= x
        /\ IsFiniteSet(Queued') /\ Cardinality(Queued') \in Nat
    BY <1>5, <2>1, <2>2, QueuedWithin
  <2>4. CASE m.kind = "batch"
    <3>1. PICK a \in Nat, g \in Nat, l \in Nat : a = at[1] /\ g = m.gap /\ l = Len(m.rows)
      <4>1. End(core) \in Nat
        BY EndsNat DEF ArchiveInv
      <4>2. Len(m.rows) \in Nat /\ m.gap \in Nat
        BY <1>6, <2>4
      <4> QED  BY <1>3, <4>1, <4>2
    <3>2. to[1] = a + g + l
      BY <1>5, <2>4, <3>1 DEF Behind
    <3>3. InLine(m.rows, a + g) /\ a + g \in Nat /\ m.rows \in Seq(Nat)
      BY <1>4, <1>6, <2>4, <3>1
    <3>4. /\ news = a + g .. (a + g) + l - 1 /\ IsFiniteSet(news) /\ Cardinality(news) = l
      BY <2>4, <3>1, <3>3, LineRows
    <3> HIDE DEF news
    <3>5. \A x \in news : x \in Nat /\ x < a + g + l
      BY <3>4
    <3>6. \A x \in Queued' : x \in Nat /\ x >= a + g + l
      BY <2>3, <3>2
    <3>7. a + g + l \in Nat
      OBVIOUS
    <3>8. Cardinality(news \cup Queued') = Cardinality(news) + Cardinality(Queued')
      BY <2>3, <3>4, <3>5, <3>6, <3>7, RowsBehind
    <3>9. Queued = news \cup Queued'
      BY <1>8
    <3> QED  BY <2>3, <2>4, <3>1, <3>4, <3>8, <3>9
  <2>5. CASE m.kind # "batch"
    <3>1. n = 0 /\ Queued = Queued'
      BY <1>8, <2>5
    <3> QED  BY <2>3, <3>1
  <2> QED  BY <2>4, <2>5
<1> HIDE DEF news, n, m
<1>11. Books'
  <2>1. SUFFICES ASSUME manager # "none"
                 PROVE  received' = dropped' + Counted(core') + Cardinality(Queued')
    BY <1>1 DEF Books
  <2>2. received = dropped + Counted(core) + Cardinality(Queued)
    BY <2>1 DEF ArchiveInv, Books
  <2>3. PICK d \in Nat, c \in Nat, q \in Nat :
          d = dropped /\ c = Counted(core) /\ q = Cardinality(Queued')
    <3>1. Counted(core) \in Nat /\ dropped \in Nat
      BY EndsNat DEF ArchiveInv, Typed
    <3> QED  BY <1>10, <3>1
  <2>4. received = d + c + (n + q)
    BY <1>10, <2>2, <2>3, Zenon
  <2>5. d + c + (n + q) = d + (c + n) + q
    BY <1>10
  <2>6. received' = received /\ dropped' = d /\ Counted(core') = c + n
    BY <1>1, <1>7, <2>3
  <2> QED  BY <2>3, <2>4, <2>5, <2>6, Zenon
<1>12. Tiers'
  BY <1>1 DEF ArchiveInv, Tiers
<1>13. \A x \in Held' : x \in Held
  BY <1>1, <1>7, <1>8 DEF Held
<1>14. GoneStays
  BY <1>1, <1>13, Goes DEF Typed
<1>15. mailbox' \in Seq(MailboxMessages)
  BY <1>4
<1> QED  BY <1>7, <1>9, <1>11, <1>12, <1>14, <1>15 DEF ArchiveInv, Placed

-----------------------------------------------------------------------------
\* The readers.

LEMMA ChainStays ==
  ASSUME GoneStays, NEW rows, NEW first, InLineOrGone(rows, first)
  PROVE  InLineOrGone(rows, first)'
BY DEF InLineOrGone, GoneStays

LEMMA TruthStays ==
  ASSUME GoneStays, NEW rows, NEW w, Truthful(rows, w)
  PROVE  Truthful(rows, w)'
BY DEF Truthful, GoneStays

LEMMA PlanStays ==
  ASSUME GoneStays, received \in Nat, received' \in Nat, received <= received',
         NEW p, NEW w \in Windows, PlanFits(p, w)
  PROVE  PlanFits(p, w)'
<1>1. w.hi \in Nat
  BY DEF Windows
<1>2. w.hi <= received'
  BY <1>1 DEF PlanFits
<1>3. Chained(p) => Chained(p)'
  BY ChainStays DEF Chained
<1>4. YankFits(p, w) => YankFits(p, w)'
  BY <1>3 DEF YankFits
<1> QED  BY <1>2, <1>4 DEF PlanFits

LEMMA FitStays ==
  ASSUME GoneStays, received \in Nat, received' \in Nat, received <= received',
         NEW r \in Readers, window \in [Readers -> Windows], Fit(r),
         read'[r] = read[r] \/ (read[r] = "planned" /\ read'[r] = "waiting"),
         window'[r] = window[r], reply'[r] = reply[r], plan'[r] = plan[r]
  PROVE  Fit(r)'
<1>1. PICK p, w, a :
        /\ p = plan[r] /\ p = plan'[r] /\ w = window[r] /\ w = window'[r]
        /\ a = reply[r] /\ a = reply'[r] /\ w \in Windows
  OBVIOUS
<1>2. ASSUME read'[r] \in {"planned", "waiting", "replied"} PROVE PlanFits(plan[r], window[r])'
  <2>1. PlanFits(p, w)
    BY <1>1, <1>2 DEF Fit
  <2>2. PlanFits(p, w)'
    BY <1>1, <2>1, PlanStays
  <2> QED  BY <1>1, <2>2
<1>3. ASSUME read'[r] = "replied" PROVE Truthful(reply[r], window[r])'
  <2>1. Truthful(a, w)
    BY <1>1, <1>3 DEF Fit
  <2>2. Truthful(a, w)'
    BY <2>1, TruthStays
  <2> QED  BY <1>1, <2>2
<1>4. read'[r] = "idle" => reply'[r] = {}
  BY DEF Fit
<1> QED  BY <1>2, <1>3, <1>4 DEF Fit

LEMMA DoneFits ==
  ASSUME NEW r, read'[r] \in {"answered", "failed"}
  PROVE  Fit(r)'
BY DEF Fit

\* No answer is given.
LEMMA AnswersStay ==
  ASSUME AnswersFit, GoneStays, UNCHANGED <<served, blank>>
  PROVE  AnswersFit'
BY DEF AnswersFit, ReadsAreAligned, GoneStays

\* A reader that goes on has its plan still.
Proceeds == plan' = [r \in Readers |-> IF read'[r] = "failed" THEN None ELSE plan[r]]

LEMMA ReadsStay ==
  ASSUME Typed, ReadsFit, GoneStays, received' \in Nat, received <= received', Proceeds,
         UNCHANGED <<read, window, reply>>
  PROVE  ReadsFit'
<1> SUFFICES ASSUME NEW r \in Readers PROVE Fit(r)'
  BY DEF ReadsFit
<1>1. received \in Nat /\ window \in [Readers -> Windows] /\ Fit(r)
  BY DEF Typed, ReadsFit
<1>2. CASE read'[r] = "failed"
  BY <1>2, DoneFits
<1>3. CASE read'[r] # "failed"
  <2>1. plan'[r] = plan[r]
    BY <1>3 DEF Proceeds
  <2> QED  BY <1>1, <2>1, FitStays
<1> QED  BY <1>2, <1>3

-----------------------------------------------------------------------------
\* The steps of the archive.

\* The reads still in the mailbox, when one message has been taken.
LEMMA TakesMessage ==
  ASSUME Typed, ReadsPosted, mailbox # <<>>, mailbox' = Tail(mailbox), received' = received,
         \A q \in Readers :
           \/ read'[q] = read[q] /\ window'[q] = window[q]
           \/ Head(mailbox).kind = "read" /\ q = Head(mailbox).reader
  PROVE  ReadsPosted'
<1>1. mailbox \in Seq(MailboxMessages) /\ received \in Nat
  BY DEF Typed
<1>2. PICK n \in Nat \ {0} : n = Len(mailbox) /\ DOMAIN mailbox = 1 .. n
  BY <1>1
<1>3. DOMAIN mailbox' = 1 .. n - 1 /\ (\A i \in 1 .. n - 1 : mailbox'[i] = mailbox[i + 1])
      /\ Head(mailbox) = mailbox[1]
  BY <1>1, <1>2
<1> DEFINE was == [i \in DOMAIN mailbox' |-> i + 1]
<1>4. \A i \in DOMAIN mailbox' : was[i] \in DOMAIN mailbox /\ was[i] # 1
                                 /\ mailbox'[i] = mailbox[was[i]]
  BY <1>2, <1>3
<1>5. \A i, j \in DOMAIN mailbox' : was[i] = was[j] => i = j
  BY <1>3
<1> HIDE DEF was
<1>6. ASSUME NEW i \in DOMAIN mailbox', mailbox'[i].kind = "read"
      PROVE  LET q == mailbox'[i].reader
             IN  read'[q] = read[q] /\ window'[q] = window[q]
  <2> DEFINE k == was[i]
  <2>1. k \in DOMAIN mailbox /\ k # 1 /\ mailbox'[i] = mailbox[k] /\ mailbox[k].kind = "read"
        /\ 1 \in DOMAIN mailbox
    BY <1>2, <1>4, <1>6
  <2>2. mailbox[k] \in MailboxMessages
    BY <1>1, <2>1
  <2>3. mailbox[k].reader \in Readers
    BY <2>1, <2>2, MessageKinds
  <2>4. ~ (Head(mailbox).kind = "read" /\ mailbox[k].reader = Head(mailbox).reader)
    BY <1>3, <2>1 DEF ReadsPosted
  <2> QED  BY <2>1, <2>3, <2>4
<1>7. \A i \in DOMAIN mailbox' : mailbox'[i].kind = "read" =>
           /\ was[i] \in DOMAIN mailbox /\ mailbox'[i] = mailbox[was[i]]
           /\ LET r == mailbox'[i].reader
              IN  \/ read'[r] = read[r] /\ window'[r] = window[r]
                  \/ read'[r] = "failed"
  BY <1>4, <1>6
<1>8. received' \in Nat /\ received <= received'
  BY <1>1
<1> QED  BY <1>5, <1>7, <1>8, PostedStays

\* What a step of the archive has to show.
Upheld ==
    /\ Typed' /\ ArchiveInv' /\ ReadsPosted' /\ ReadsFit' /\ GoneStays

LEMMA NextMessages ==
  ASSUME Typed, NEW kind, NextMessage(kind)
  PROVE  /\ writer = "running" /\ mailbox # <<>> /\ Head(mailbox).kind = kind
         /\ mailbox' = Tail(mailbox) /\ mailbox \in Seq(MailboxMessages)
         /\ Head(mailbox) \in MailboxMessages
<1>1. mailbox \in Seq(MailboxMessages) /\ mailbox # <<>>
  BY DEF Typed, NextMessage
<1> QED  BY <1>1 DEF NextMessage

LEMMA WritesBatch ==
  ASSUME IInv, WriteBatch, Proceeds, UNCHANGED paneVars
  PROVE  Upheld
<1>1. /\ writer = "running" /\ mailbox # <<>> /\ Head(mailbox).kind = "batch"
      /\ mailbox' = Tail(mailbox) /\ mailbox \in Seq(MailboxMessages)
      /\ Head(mailbox) \in MailboxMessages
  BY NextMessages DEF WriteBatch, IInv
<1>2. /\ UNCHANGED <<received, dropped, pendingGap, manager, writer, read, window, reply>>
      /\ UNCHANGED <<attached, pushed, hot>> /\ UNCHANGED facadeVars
      /\ core' \in ArchiveRows(core, Head(mailbox).rows, Head(mailbox).gap)
  BY DEF WriteBatch, facadeVars, readVars, paneVars
<1>3. Typed /\ ArchiveInv /\ ReadsPosted /\ ReadsFit
  BY DEF IInv
<1>4. Head(mailbox).rows \in Seq(Nat) /\ Head(mailbox).gap \in Nat
  BY <1>1, MessageKinds
<1>5. InLine(Head(mailbox).rows, End(core) + Head(mailbox).gap)
  <2>1. PICK at : PlacedAt(at)
    BY <1>1, <1>3 DEF ArchiveInv, Placed
  <2>2. 1 \in DOMAIN mailbox /\ mailbox[1] = Head(mailbox)
    BY <1>1
  <2> QED  BY <1>1, <2>1, <2>2 DEF PlacedAt, InPlace
<1>6. Took(core, Head(mailbox).rows, End(core) + Head(mailbox).gap, core')
  <2>1. Sound(core) /\ Rested(core)
    BY <1>3 DEF ArchiveInv
  <2> QED  BY <1>2, <1>4, <1>5, <2>1, Archives
<1>7. Rested(core')
  BY <1>6 DEF Took
<1>8. ArchiveInv' /\ GoneStays /\ mailbox' \in Seq(MailboxMessages)
  BY <1>1, <1>2, <1>3, <1>6, <1>7, Handles
<1>9. ReadsPosted'
  BY <1>1, <1>2, <1>3, TakesMessage
<1>10. Typed'
  BY <1>2, <1>3, <1>8 DEF Typed, Proceeds
<1>11. ReadsFit'
  <2>1. received' \in Nat /\ received <= received'
    BY <1>2, <1>3 DEF Typed
  <2> QED  BY <1>2, <1>3, <1>8, <2>1, ReadsStay
<1> QED  BY <1>8, <1>9, <1>10, <1>11 DEF Upheld

\* What a read finds in the segments is true, and what it does not is gone.
LEMMA FindsRows ==
  ASSUME NEW c, Sound(c), NEW w \in Windows
  PROVE  /\ \A p \in ReadRange(c, w) : p[1] = p[2] /\ p[1] \in w.lo .. w.hi - 1
                                       /\ p \in Nat \X Nat
         /\ \A i \in w.lo .. w.hi - 1 : i \in FiledRows(c.segments) =>
              <<i, i>> \in ReadRange(c, w)
<1>1. c.segments \in Seq(Segments) /\ Filed(c.segments, c.base)
  BY CoreFields DEF Sound
<1>2. \A i \in DOMAIN c.segments :
        /\ c.segments[i].first \in Nat /\ c.segments[i].rows \in Seq(Nat)
        /\ InLine(c.segments[i].rows, c.segments[i].first)
  <2> TAKE i \in DOMAIN c.segments
  <2>1. c.segments[i] \in Segments
    BY <1>1
  <2> QED  BY <1>1, <2>1 DEF Segments, Filed
<1>3. ASSUME NEW p \in ReadRange(c, w)
      PROVE  p[1] = p[2] /\ p[1] \in w.lo .. w.hi - 1 /\ p \in Nat \X Nat
  <2>1. PICK i \in DOMAIN c.segments : p \in SegmentRows(c.segments[i], w)
    BY DEF ReadRange
  <2> DEFINE s == c.segments[i]
  <2>2. PICK k \in DOMAIN s.rows : /\ s.first + k - 1 \in w.lo .. w.hi - 1
                                   /\ p = <<s.first + k - 1, s.rows[k]>>
    BY <2>1 DEF SegmentRows
  <2>3. s.rows[k] = s.first + k - 1 /\ s.rows[k] \in Nat
    BY <1>2 DEF InLine
  <2> QED  BY <2>2, <2>3
<1>4. ASSUME NEW i \in w.lo .. w.hi - 1, i \in FiledRows(c.segments)
      PROVE  <<i, i>> \in ReadRange(c, w)
  <2>1. PICK j \in DOMAIN c.segments : i \in RowsOf(c.segments[j].rows)
    BY <1>4 DEF FiledRows
  <2> DEFINE s == c.segments[j]
  <2>2. PICK k \in DOMAIN s.rows : i = s.rows[k]
    BY <2>1 DEF RowsOf
  <2>3. s.first + k - 1 = i
    BY <1>2, <2>2 DEF InLine
  <2>4. <<i, i>> \in SegmentRows(s, w)
    BY <2>2, <2>3 DEF SegmentRows
  <2> QED  BY <2>4 DEF ReadRange
<1> QED  BY <1>3, <1>4

\* When a read is taken, no row that comes after can be one it wants.
LEMMA NoneComes ==
  ASSUME Typed, ArchiveInv, ReadsPosted, NextMessage("read"),
         UNCHANGED <<received, attached, pushed, hot>>
  PROVE  LET w == Head(mailbox).window
         IN  /\ w \in Windows
             /\ \A i \in Queued' \cup RowsOf(hot') : i \notin w.lo .. w.hi - 1
             /\ \A i \in w.lo .. w.hi - 1 : i \in 0 .. pushed' - 1
<1>1. /\ writer = "running" /\ mailbox # <<>> /\ Head(mailbox).kind = "read"
      /\ mailbox' = Tail(mailbox) /\ mailbox \in Seq(MailboxMessages)
      /\ Head(mailbox) \in MailboxMessages
  BY NextMessages
<1> DEFINE w == Head(mailbox).window
<1>2. w \in Windows /\ w.lo \in Nat /\ w.hi \in Nat
  BY <1>1, MessageKinds
<1>3. PICK lo \in Nat, hi \in Nat : lo = w.lo /\ hi = w.hi
  BY <1>2
<1>4. PICK at : PlacedAt(at)
  BY <1>1 DEF ArchiveInv, Placed
<1>5. at \in [1 .. Len(mailbox) + 1 -> Nat] /\ InPlace(mailbox, at)
  BY <1>4 DEF PlacedAt
<1>6. \A j \in DOMAIN mailbox' : mailbox'[j].kind = "batch" =>
        \A x \in RowsOf(mailbox'[j].rows) : x >= hi
  <2>1. \A j \in DOMAIN Tail(mailbox) :
          Head(mailbox).kind = "read" /\ Tail(mailbox)[j].kind = "batch"
          => \A x \in RowsOf(Tail(mailbox)[j].rows) : x >= Head(mailbox).window.hi
    BY <1>1, <1>5, Handled, Zenon
  <2> QED  BY <1>1, <1>3, <2>1
<1>7. Tail(mailbox) \in Seq(MailboxMessages)
  BY <1>1
<1>8. \A i \in Queued' : i >= hi /\ i \in Nat
  <2>1. Queued' = QueuedIn(mailbox')
    BY DEF Queued, QueuedIn, RowsOf
  <2>2. ASSUME NEW i \in QueuedIn(mailbox') PROVE i >= hi /\ i \in Nat
    <3>1. PICK j \in DOMAIN mailbox' : mailbox'[j].kind = "batch" /\ i \in RowsOf(mailbox'[j].rows)
      BY <2>2, QueuedRow
    <3>2. mailbox'[j] \in MailboxMessages
      BY <1>1, <1>7
    <3>3. mailbox'[j].rows \in Seq(Nat)
      BY <3>1, <3>2, MessageKinds
    <3>4. i \in Nat
      BY <3>1, <3>3 DEF RowsOf
    <3> QED  BY <1>6, <3>1, <3>4
  <2> QED  BY <2>1, <2>2
<1>9. hi <= received /\ attached
  <2>1. 1 \in DOMAIN mailbox /\ mailbox[1] = Head(mailbox)
    BY <1>1
  <2>2. w.hi <= received
    BY <1>1, <2>1 DEF ReadsPosted
  <2>3. attached
    BY <1>1 DEF ArchiveInv, Tiers, Typed
  <2> QED  BY <1>3, <2>2, <2>3
<1>10. PICK p \in Nat, h \in Nat : p = pushed /\ h = Len(hot) /\ hot \in Seq(Nat)
  <2>1. pushed \in Nat /\ hot \in Seq(Nat)
    BY DEF Typed
  <2> QED  BY <2>1
<1>11. h <= p /\ received = p - h /\ InLine(hot, p - h)
  BY <1>9, <1>10 DEF ArchiveInv, Tiers
<1>12. PICK f \in Nat : f = p - h
  BY <1>11
<1>13. hi <= f /\ f <= p
  BY <1>9, <1>11, <1>12
<1>14. RowsOf(hot) = f .. f + h - 1
  <2>1. InLine(hot, f)
    BY <1>11, <1>12
  <2> QED  BY <1>10, <2>1, LineRows
<1>15. \A i \in RowsOf(hot') : i \notin lo .. hi - 1
  <2>1. \A i \in f .. f + h - 1 : i \notin lo .. hi - 1
    BY <1>13
  <2> QED  BY <1>14, <2>1
<1>16. \A i \in Queued' : i \notin lo .. hi - 1
  BY <1>8
<1>17. \A i \in lo .. hi - 1 : i \in 0 .. pushed' - 1
  <2>1. \A i \in lo .. hi - 1 : i \in 0 .. p - 1
    BY <1>13
  <2> QED  BY <1>10, <2>1
<1> HIDE DEF w
<1>18. /\ \A i \in Queued' \cup RowsOf(hot') : i \notin w.lo .. w.hi - 1
       /\ \A i \in w.lo .. w.hi - 1 : i \in 0 .. pushed' - 1
  BY <1>3, <1>15, <1>16, <1>17
<1> QED  BY <1>2, <1>18 DEF w

LEMMA ServesRead ==
  ASSUME IInv, ServeRead, Proceeds, UNCHANGED paneVars
  PROVE  Upheld
<1>1. /\ writer = "running" /\ mailbox # <<>> /\ Head(mailbox).kind = "read"
      /\ mailbox' = Tail(mailbox) /\ mailbox \in Seq(MailboxMessages)
      /\ Head(mailbox) \in MailboxMessages /\ NextMessage("read")
  BY NextMessages DEF ServeRead, IInv
<1> DEFINE r == Head(mailbox).reader
           w == Head(mailbox).window
<1>2. /\ UNCHANGED <<received, dropped, pendingGap, manager, writer>>
      /\ UNCHANGED <<attached, pushed, hot>> /\ UNCHANGED facadeVars
      /\ core' \in BeforeRead(core, w.hi)
  BY DEF ServeRead, facadeVars, paneVars
<1>3. Typed /\ ArchiveInv /\ ReadsPosted /\ ReadsFit
  BY DEF IInv
<1>4. r \in Readers /\ w \in Windows /\ w.hi \in Nat
  BY <1>1, MessageKinds
<1>5. Sound(core) /\ Rested(core)
  BY <1>3 DEF ArchiveInv
<1>6. /\ Keeps(core, core') /\ Rested(core')
      /\ \A i \in Kept(core') : i < w.hi => i \in FiledRows(core'.segments)
  BY <1>2, <1>4, <1>5, ReadsBehind
<1>7. ArchiveInv' /\ GoneStays /\ mailbox' \in Seq(MailboxMessages)
  BY <1>1, <1>2, <1>3, <1>6, Handles
<1>8. /\ read \in [Readers -> {"idle", "planned", "waiting", "replied", "answered", "failed"}]
      /\ window \in [Readers -> Windows] /\ reply \in [Readers -> SUBSET (Nat \X Nat)]
      /\ received \in Nat
  BY <1>3 DEF Typed
<1> HIDE DEF r, w
<1>9. \/ /\ read[r] = "waiting"
         /\ reply' = [reply EXCEPT ![r] = ReadRange(core', w)]
         /\ read' = [read EXCEPT ![r] = "replied"] /\ window' = window
      \/ /\ read' = [read EXCEPT ![r] = "failed"]
         /\ window' = [window EXCEPT ![r] = NoWindow] /\ reply' = reply
      \/ read' = read /\ window' = window /\ reply' = reply
  BY DEF ServeRead, r, w, readVars
<1>10. /\ \A p \in ReadRange(core', w) : p[1] = p[2] /\ p[1] \in w.lo .. w.hi - 1
                                         /\ p \in Nat \X Nat
       /\ \A i \in w.lo .. w.hi - 1 : i \in FiledRows(core'.segments) =>
            <<i, i>> \in ReadRange(core', w)
  BY <1>4, <1>6, FindsRows DEF Keeps
<1>11. /\ read' \in [Readers -> {"idle", "planned", "waiting", "replied", "answered", "failed"}]
       /\ window' \in [Readers -> Windows] /\ reply' \in [Readers -> SUBSET (Nat \X Nat)]
  <2>1. NoWindow \in Windows
    BY DEF NoWindow, Windows
  <2>2. ReadRange(core', w) \in SUBSET (Nat \X Nat)
    BY <1>10
  <2> QED  BY <1>4, <1>8, <1>9, <2>1, <2>2
<1>12. Typed'
  BY <1>2, <1>3, <1>7, <1>11 DEF Typed, Proceeds
<1>13. \A q \in Readers : q # r =>
         read'[q] = read[q] /\ window'[q] = window[q] /\ reply'[q] = reply[q]
  BY <1>8, <1>9
<1>14. ReadsPosted'
  BY <1>1, <1>2, <1>3, <1>13, TakesMessage DEF r
<1>15. ReadsFit'
  <2>1. SUFFICES ASSUME NEW q \in Readers PROVE Fit(q)'
    BY DEF ReadsFit
  <2>2. received' \in Nat /\ received <= received' /\ Fit(q)
    BY <1>2, <1>3, <1>8 DEF ReadsFit
  <2>3. CASE read'[q] = "failed"
    BY <2>3, DoneFits
  <2>4. CASE read'[q] # "failed" /\ read'[q] = read[q] /\ window'[q] = window[q]
             /\ reply'[q] = reply[q]
    <3>1. plan'[q] = plan[q]
      BY <2>4 DEF Proceeds
    <3> QED  BY <1>7, <1>8, <2>2, <2>4, <3>1, FitStays
  <2>5. CASE q = r /\ read[r] = "waiting" /\ read'[r] = "replied" /\ window' = window
             /\ reply' = [reply EXCEPT ![r] = ReadRange(core', w)]
    <3>1. w = window[r]
      <4>1. 1 \in DOMAIN mailbox /\ mailbox[1] = Head(mailbox)
        BY <1>1
      <4> QED  BY <1>1, <1>3, <2>5, <4>1 DEF ReadsPosted, r, w
    <3>2. plan'[r] = plan[r]
      BY <1>4, <2>5 DEF Proceeds
    <3>3. PICK p, a, v : /\ p = plan[r] /\ p = plan'[r] /\ v = w /\ v \in Windows
                         /\ a = ReadRange(core', w) /\ a = reply'[r] /\ v = window[r]
                         /\ v = window'[r]
      BY <1>4, <1>8, <2>5, <3>1, <3>2
    <3>4. PlanFits(p, v)
      BY <2>2, <2>5, <3>3 DEF Fit
    <3>5. PlanFits(p, v)'
      BY <1>7, <1>8, <2>2, <3>3, <3>4, PlanStays
    <3>6. Truthful(a, v)'
      <4>1. /\ \A i \in Queued' \cup RowsOf(hot') : i \notin v.lo .. v.hi - 1
            /\ \A i \in v.lo .. v.hi - 1 : i \in 0 .. pushed' - 1
        BY <1>1, <1>2, <1>3, <3>3, NoneComes DEF w
      <4>2. ASSUME NEW i \in v.lo .. v.hi - 1 PROVE <<i, i>> \in a \/ Gone(i)'
        <5>1. CASE i \in FiledRows(core'.segments)
          BY <1>10, <3>3, <5>1
        <5>2. CASE i \notin FiledRows(core'.segments)
          <6>1. i < v.hi
            <7>1. v.lo \in Nat /\ v.hi \in Nat
              BY <3>3 DEF Windows
            <7> QED  BY <7>1
          <6>2. i \notin Kept(core')
            BY <1>6, <3>3, <5>2, <6>1
          <6>3. i \notin Held'
            BY <4>1, <6>2 DEF Held
          <6> QED  BY <4>1, <6>3 DEF Gone
        <5> QED  BY <5>1, <5>2
      <4>3. \A x \in a : x[1] = x[2] /\ x[1] \in v.lo .. v.hi - 1
        BY <1>10, <3>3
      <4> QED  BY <4>2, <4>3 DEF Truthful
    <3>7. PlanFits(plan[q], window[q])' /\ Truthful(reply[q], window[q])'
      BY <2>5, <3>3, <3>5, <3>6
    <3> QED  BY <2>5, <3>7 DEF Fit
  <2>6. CASE q # r
    BY <1>13, <2>3, <2>4, <2>6
  <2>7. CASE q = r
    BY <1>4, <1>8, <1>9, <2>3, <2>4, <2>5, <2>7
  <2> QED  BY <2>6, <2>7
<1> QED  BY <1>7, <1>12, <1>14, <1>15 DEF Upheld

LEMMA ShutsDown ==
  ASSUME IInv, ShutDown, Proceeds, UNCHANGED paneVars
  PROVE  Upheld
<1>1. /\ writer = "running" /\ mailbox # <<>> /\ Head(mailbox).kind = "shutdown"
      /\ mailbox' = Tail(mailbox) /\ mailbox \in Seq(MailboxMessages)
  BY NextMessages DEF ShutDown, IInv
<1>2. /\ UNCHANGED <<received, dropped, pendingGap, manager, core, read, window, reply>>
      /\ UNCHANGED <<attached, pushed, hot>> /\ UNCHANGED facadeVars /\ writer' = "exited"
  BY DEF ShutDown, facadeVars, readVars, paneVars
<1>3. Typed /\ ArchiveInv /\ ReadsPosted /\ ReadsFit
  BY DEF IInv
<1>4. Sound(core) /\ Rested(core)
  BY <1>3 DEF ArchiveInv
<1>5. Sound(core') /\ Rested(core')
  BY <1>2, <1>4
<1>6. Keeps(core, core')
  BY <1>2, <1>4, KeepsStill
<1>7. ArchiveInv' /\ GoneStays /\ mailbox' \in Seq(MailboxMessages)
  BY <1>1, <1>2, <1>3, <1>5, <1>6, Handles
<1>8. ReadsPosted'
  BY <1>1, <1>2, <1>3, TakesMessage
<1>9. Typed'
  BY <1>2, <1>3, <1>7 DEF Typed, Proceeds
<1>10. ReadsFit'
  <2>1. received' \in Nat /\ received <= received'
    BY <1>2, <1>3 DEF Typed
  <2> QED  BY <1>2, <1>3, <1>7, <2>1, ReadsStay
<1> QED  BY <1>7, <1>8, <1>9, <1>10 DEF Upheld

\* The writer ends, and the rows still on their way are let go of or not.
LEMMA WriterEnds ==
  ASSUME IInv, Proceeds, UNCHANGED paneVars,
         UNCHANGED <<facadeVars, manager, core, readVars>>,
         writer' \in {"exited", "dead"}, mailbox' = mailbox \/ mailbox' = <<>>
  PROVE  Upheld
<1>1. /\ UNCHANGED <<received, dropped, pendingGap, manager, core, read, window, reply>>
      /\ UNCHANGED <<attached, pushed, hot>>
  BY DEF facadeVars, readVars, paneVars
<1>2. Typed /\ ArchiveInv /\ ReadsPosted /\ ReadsFit
  BY DEF IInv
<1>3. mailbox \in Seq(MailboxMessages) /\ received \in Nat /\ pushed \in Nat
  BY <1>2 DEF Typed
<1>4. ArchiveInv'
  BY <1>1, <1>2 DEF ArchiveInv, Placed, Books, Tiers
<1>5. \A x \in Queued' : x \in Queued
  BY DEF Queued
<1>6. GoneStays
  BY <1>1, <1>3, <1>5, Goes DEF Held
<1>7. mailbox' \in Seq(MailboxMessages)
  <2>1. <<>> \in Seq(MailboxMessages)
    OBVIOUS
  <2> QED  BY <1>3, <2>1
<1>8. ReadsPosted'
  <2>1. CASE mailbox' = mailbox
    BY <1>1, <1>2, <2>1 DEF ReadsPosted
  <2>2. CASE mailbox' = <<>>
    BY <2>2 DEF ReadsPosted
  <2> QED  BY <2>1, <2>2
<1>9. Typed'
  BY <1>1, <1>2, <1>7 DEF Typed, Proceeds
<1>10. ReadsFit'
  BY <1>1, <1>2, <1>3, <1>6, ReadsStay
<1> QED  BY <1>4, <1>6, <1>8, <1>9, <1>10 DEF Upheld

\* run has returned.
LEMMA Exits ==
  ASSUME IInv, Proceeds, UNCHANGED paneVars,
         UNCHANGED <<facadeVars, manager, mailbox, writer, core, readVars>>
  PROVE  Upheld
<1>1. /\ UNCHANGED <<received, dropped, pendingGap, manager, mailbox, writer, core, read,
                      window, reply>>
      /\ UNCHANGED <<attached, pushed, hot>>
  BY DEF facadeVars, readVars, paneVars
<1>2. Typed /\ ArchiveInv /\ ReadsPosted /\ ReadsFit
  BY DEF IInv
<1>3. ArchiveInv' /\ GoneStays
  BY <1>1, <1>2, Untouched
<1>4. ReadsPosted'
  BY <1>1, <1>2 DEF ReadsPosted
<1>5. Typed'
  BY <1>1, <1>2 DEF Typed, Proceeds
<1>6. received' \in Nat /\ received <= received'
  BY <1>1, <1>2 DEF Typed
<1>7. ReadsFit'
  BY <1>1, <1>2, <1>3, <1>6, ReadsStay
<1> QED  BY <1>3, <1>4, <1>5, <1>7 DEF Upheld

\* The manager is closed, or given up.
LEMMA ManagerEnds ==
  ASSUME IInv, Proceeds, UNCHANGED paneVars, manager' = "none",
         UNCHANGED <<facadeVars, mailbox, writer, core, readVars>>
  PROVE  Upheld
<1>1. /\ UNCHANGED <<received, dropped, pendingGap, mailbox, writer, core, read, window, reply>>
      /\ UNCHANGED <<attached, pushed, hot>>
  BY DEF facadeVars, readVars, paneVars
<1>2. Typed /\ ArchiveInv /\ ReadsPosted /\ ReadsFit
  BY DEF IInv
<1>3. ArchiveInv' /\ GoneStays
  BY <1>1, <1>2, LetsGo
<1>4. ReadsPosted'
  BY <1>1, <1>2 DEF ReadsPosted
<1>5. Typed'
  BY <1>1, <1>2 DEF Typed, Proceeds
<1>6. received' \in Nat /\ received <= received'
  BY <1>1, <1>2 DEF Typed
<1>7. ReadsFit'
  BY <1>1, <1>2, <1>3, <1>6, ReadsStay
<1> QED  BY <1>3, <1>4, <1>5, <1>7 DEF Upheld

LEMMA SendsShutdown ==
  ASSUME IInv, SendShutdown, Proceeds, UNCHANGED paneVars
  PROVE  Upheld
<1> DEFINE m == [kind |-> "shutdown"]
<1>1. /\ UNCHANGED <<received, dropped, pendingGap, writer, core, read, window, reply>>
      /\ UNCHANGED <<attached, pushed, hot>> /\ UNCHANGED facadeVars
      /\ mailbox' = Append(mailbox, m) /\ manager = "open" /\ manager' = "closing"
      /\ writer = "running"
  BY DEF SendShutdown, HasRoom, facadeVars, readVars, paneVars
<1>2. m \in MailboxMessages /\ m.kind = "shutdown"
  BY DEF MailboxMessages, ShutdownMessages
<1> HIDE DEF m
<1>3. Typed /\ ArchiveInv /\ ReadsPosted /\ ReadsFit
  BY DEF IInv
<1>4. ArchiveInv' /\ GoneStays /\ mailbox' \in Seq(MailboxMessages)
  BY <1>1, <1>2, <1>3, Posts
<1>5. mailbox \in Seq(MailboxMessages) /\ received \in Nat
  BY <1>3 DEF Typed
<1>6. ReadsPosted'
  <2> DEFINE was == [i \in DOMAIN mailbox' |-> i]
  <2>1. PICK l \in Nat : l = Len(mailbox) /\ DOMAIN mailbox = 1 .. l
    BY <1>5
  <2>2. DOMAIN mailbox' = 1 .. l + 1 /\ (\A i \in 1 .. l : mailbox'[i] = mailbox[i])
        /\ mailbox'[l + 1] = m
    BY <1>1, <1>5, <2>1
  <2>3. \A i \in DOMAIN mailbox' : mailbox'[i].kind = "read" =>
           was[i] \in DOMAIN mailbox /\ mailbox'[i] = mailbox[was[i]]
    BY <1>2, <2>1, <2>2
  <2>4. \A i, j \in DOMAIN mailbox' : was[i] = was[j] => i = j
    OBVIOUS
  <2> HIDE DEF was
  <2> QED  BY <1>1, <1>3, <1>5, <2>3, <2>4, PostedStays
<1>7. Typed'
  BY <1>1, <1>3, <1>4 DEF Typed, Proceeds
<1>8. ReadsFit'
  BY <1>1, <1>3, <1>4, <1>5, ReadsStay
<1> QED  BY <1>4, <1>6, <1>7, <1>8 DEF Upheld

LEMMA SendsRead ==
  ASSUME IInv, NEW r \in Readers, SendRead(r), Proceeds, UNCHANGED paneVars
  PROVE  Upheld
<1> DEFINE m == [kind |-> "read", reader |-> r, window |-> window[r]]
<1>1. /\ UNCHANGED <<received, dropped, pendingGap, manager, writer, core, window, reply>>
      /\ UNCHANGED <<attached, pushed, hot>> /\ UNCHANGED facadeVars
      /\ mailbox' = Append(mailbox, m) /\ manager # "none" /\ writer = "running"
      /\ read[r] = "planned" /\ read' = [read EXCEPT ![r] = "waiting"]
  BY DEF SendRead, HasRoom, facadeVars, paneVars
<1>2. Typed /\ ArchiveInv /\ ReadsPosted /\ ReadsFit
  BY DEF IInv
<1>3. /\ read \in [Readers -> {"idle", "planned", "waiting", "replied", "answered", "failed"}]
      /\ window \in [Readers -> Windows] /\ mailbox \in Seq(MailboxMessages) /\ received \in Nat
  BY <1>2 DEF Typed
<1>4. m \in MailboxMessages /\ m.kind = "read" /\ m.reader = r /\ m.window = window[r]
  BY <1>3 DEF MailboxMessages, ReadMessages
<1> HIDE DEF m
<1>5. ArchiveInv' /\ GoneStays /\ mailbox' \in Seq(MailboxMessages)
  BY <1>1, <1>2, <1>4, Posts
<1>6. read' \in [Readers -> {"idle", "planned", "waiting", "replied", "answered", "failed"}]
      /\ read'[r] = "waiting" /\ \A q \in Readers : q # r => read'[q] = read[q]
  BY <1>1, <1>3
<1>7. ReadsPosted'
  <2>1. PICK l \in Nat : l = Len(mailbox) /\ DOMAIN mailbox = 1 .. l
    BY <1>3
  <2>2. DOMAIN mailbox' = 1 .. l + 1 /\ (\A i \in 1 .. l : mailbox'[i] = mailbox[i])
        /\ mailbox'[l + 1] = m
    BY <1>1, <1>3, <2>1
  <2>3. window[r].hi <= received
    BY <1>1, <1>2 DEF ReadsFit, Fit, PlanFits
  <2>4. \A i \in 1 .. l : mailbox[i].kind = "read" =>
          mailbox[i].reader \in Readers /\ mailbox[i].reader # r
    <3>1. ASSUME NEW i \in 1 .. l, mailbox[i].kind = "read"
          PROVE  mailbox[i].reader \in Readers /\ mailbox[i].reader # r
      <4>1. mailbox[i] \in MailboxMessages
        BY <1>3, <2>1
      <4>2. mailbox[i].reader \in Readers
        BY <3>1, <4>1, MessageKinds
      <4> QED  BY <1>1, <1>2, <2>1, <3>1, <4>2 DEF ReadsPosted
    <3> QED  BY <3>1
  <2>5. ASSUME NEW i \in DOMAIN mailbox', mailbox'[i].kind = "read"
        PROVE  LET q == mailbox'[i].reader
               IN  /\ read'[q] \in {"waiting", "failed"}
                   /\ read'[q] = "waiting" => mailbox'[i].window = window'[q]
                   /\ mailbox'[i].window.hi <= received'
    <3>1. CASE i = l + 1
      BY <1>1, <1>4, <1>6, <2>2, <2>3, <3>1
    <3>2. CASE i # l + 1
      <4>1. i \in 1 .. l /\ mailbox'[i] = mailbox[i] /\ mailbox[i].kind = "read"
        BY <2>2, <2>5, <3>2
      <4> QED  BY <1>1, <1>2, <1>6, <2>1, <2>4, <4>1 DEF ReadsPosted
    <3> QED  BY <3>1, <3>2
  <2>6. ASSUME NEW i \in DOMAIN mailbox', NEW j \in DOMAIN mailbox',
               mailbox'[i].kind = "read", mailbox'[j].kind = "read",
               mailbox'[i].reader = mailbox'[j].reader
        PROVE  i = j
    <3>1. CASE i = l + 1 /\ j # l + 1
      BY <1>4, <2>2, <2>4, <2>6, <3>1
    <3>2. CASE i # l + 1 /\ j = l + 1
      BY <1>4, <2>2, <2>4, <2>6, <3>2
    <3>3. CASE i # l + 1 /\ j # l + 1
      <4>1. i \in DOMAIN mailbox /\ j \in DOMAIN mailbox /\ mailbox'[i] = mailbox[i]
            /\ mailbox'[j] = mailbox[j]
        BY <2>1, <2>2, <3>3
      <4> QED  BY <1>2, <2>6, <4>1 DEF ReadsPosted
    <3> QED  BY <3>1, <3>2, <3>3
  <2> QED  BY <2>5, <2>6 DEF ReadsPosted
<1>8. Typed'
  BY <1>1, <1>2, <1>5, <1>6 DEF Typed, Proceeds
<1>9. ReadsFit'
  <2>1. SUFFICES ASSUME NEW q \in Readers PROVE Fit(q)'
    BY DEF ReadsFit
  <2>2. received' \in Nat /\ received <= received' /\ Fit(q)
    BY <1>1, <1>2, <1>3 DEF ReadsFit
  <2>3. CASE read'[q] = "failed"
    BY <2>3, DoneFits
  <2>4. CASE read'[q] # "failed"
    <3>1. plan'[q] = plan[q]
      BY <2>4 DEF Proceeds
    <3>2. read'[q] = read[q] \/ (read[q] = "planned" /\ read'[q] = "waiting")
      BY <1>1, <1>6
    <3> QED  BY <1>1, <1>3, <1>5, <2>2, <3>1, <3>2, FitStays
  <2> QED  BY <2>3, <2>4
<1> QED  BY <1>5, <1>7, <1>8, <1>9 DEF Upheld

\* A reader whose read is not in the mailbox, or who gives up.
LEMMA PostedSame ==
  ASSUME Typed, ReadsPosted, mailbox' = mailbox, received' = received,
         \A q \in Readers :
           \/ read'[q] = read[q] /\ window'[q] = window[q]
           \/ read'[q] = "failed"
           \/ read[q] \notin {"waiting", "failed"}
  PROVE  ReadsPosted'
<1>1. mailbox \in Seq(MailboxMessages)
  BY DEF Typed
<1>2. ASSUME NEW i \in DOMAIN mailbox, mailbox[i].kind = "read"
      PROVE  LET q == mailbox[i].reader
             IN  /\ read'[q] \in {"waiting", "failed"}
                 /\ read'[q] = "waiting" => mailbox[i].window = window'[q]
                 /\ mailbox[i].window.hi <= received
  <2>1. mailbox[i] \in MailboxMessages
    BY <1>1
  <2>2. PICK q \in Readers : q = mailbox[i].reader
    BY <1>2, <2>1, MessageKinds
  <2>3. /\ read[q] \in {"waiting", "failed"}
        /\ read[q] = "waiting" => mailbox[i].window = window[q]
        /\ mailbox[i].window.hi <= received
    BY <1>2, <2>2 DEF ReadsPosted
  <2>4. \/ read'[q] = read[q] /\ window'[q] = window[q]
        \/ read'[q] = "failed"
    BY <2>3
  <2> QED  BY <2>2, <2>3, <2>4
<1>3. \A i, j \in DOMAIN mailbox :
        /\ mailbox[i].kind = "read" /\ mailbox[j].kind = "read"
        /\ mailbox[i].reader = mailbox[j].reader
        => i = j
  BY DEF ReadsPosted
<1> QED  BY <1>2, <1>3 DEF ReadsPosted

LEMMA FailsRead ==
  ASSUME IInv, NEW r \in Readers, ReadFails(r), Proceeds, UNCHANGED paneVars
  PROVE  Upheld
<1>1. /\ UNCHANGED <<received, dropped, pendingGap, manager, mailbox, writer, core>>
      /\ UNCHANGED <<attached, pushed, hot>> /\ UNCHANGED facadeVars
      /\ read' = [read EXCEPT ![r] = "failed"]
      /\ window' = [window EXCEPT ![r] = NoWindow]
      /\ reply' = [reply EXCEPT ![r] = {}]
  BY DEF ReadFails, EndRead, facadeVars, paneVars
<1>2. Typed /\ ArchiveInv /\ ReadsPosted /\ ReadsFit
  BY DEF IInv
<1>3. /\ read \in [Readers -> {"idle", "planned", "waiting", "replied", "answered", "failed"}]
      /\ window \in [Readers -> Windows] /\ mailbox \in Seq(MailboxMessages) /\ received \in Nat
      /\ reply \in [Readers -> SUBSET (Nat \X Nat)]
  BY <1>2 DEF Typed
<1>4. ArchiveInv' /\ GoneStays
  BY <1>1, <1>2, Untouched
<1>5. /\ read' \in [Readers -> {"idle", "planned", "waiting", "replied", "answered", "failed"}]
      /\ window' \in [Readers -> Windows] /\ reply' \in [Readers -> SUBSET (Nat \X Nat)]
  <2>1. NoWindow \in Windows
    BY DEF NoWindow, Windows
  <2> QED  BY <1>1, <1>3, <2>1
<1>6. Typed'
  BY <1>1, <1>2, <1>5 DEF Typed, Proceeds
<1>7. /\ read'[r] = "failed"
      /\ \A q \in Readers : q # r =>
           read'[q] = read[q] /\ window'[q] = window[q] /\ reply'[q] = reply[q]
  BY <1>1, <1>3
<1>8. ReadsPosted'
  BY <1>1, <1>2, <1>7, PostedSame
<1>9. ReadsFit'
  <2>1. SUFFICES ASSUME NEW q \in Readers PROVE Fit(q)'
    BY DEF ReadsFit
  <2>2. received' \in Nat /\ received <= received' /\ Fit(q)
    BY <1>1, <1>2, <1>3 DEF ReadsFit
  <2>3. CASE read'[q] = "failed"
    BY <2>3, DoneFits
  <2>4. CASE read'[q] # "failed"
    <3>1. plan'[q] = plan[q]
      BY <2>4 DEF Proceeds
    <3>2. q # r
      BY <1>7, <2>4
    <3> QED  BY <1>3, <1>4, <1>7, <2>2, <3>1, <3>2, FitStays
  <2> QED  BY <2>3, <2>4
<1> QED  BY <1>4, <1>6, <1>8, <1>9 DEF Upheld

\* Every step of the archive, and of the manager's end.
LEMMA ArchiveSteps ==
  ASSUME IInv, ArchiveStep
  PROVE  IInv'
<1>1. Proceeds /\ UNCHANGED paneVars /\ UNCHANGED <<served, blank>>
  BY DEF ArchiveStep, Proceeds
<1>2. CASE WriterStep
  <2> SUFFICES Upheld
    BY <1>1, AnswersStay DEF IInv, Upheld
  <2>1. CASE WriteBatch
    BY <1>1, <2>1, WritesBatch
  <2>2. CASE ServeRead
    BY <1>1, <2>2, ServesRead
  <2>3. CASE ShutDown
    BY <1>1, <2>3, ShutsDown
  <2>4. CASE Disconnected
    BY <1>1, <2>4, WriterEnds DEF Disconnected
  <2>5. CASE WriterDies
    BY <1>1, <2>5, WriterEnds DEF WriterDies
  <2> QED  BY <1>2, <2>1, <2>2, <2>3, <2>4, <2>5 DEF WriterStep
<1>3. CASE Exit
  <2>1. Upheld
    BY <1>1, <1>3, Exits DEF Exit
  <2> QED  BY <1>1, <2>1, AnswersStay DEF IInv, Upheld
<1>4. ASSUME NEW r \in Readers, ReaderStep(r) PROVE IInv'
  <2>1. Upheld
    BY <1>1, <1>4, SendsRead, FailsRead DEF ReaderStep
  <2> QED  BY <1>1, <2>1, AnswersStay DEF IInv, Upheld
<1>5. CASE SendShutdown
  <2>1. Upheld
    BY <1>1, <1>5, SendsShutdown
  <2> QED  BY <1>1, <2>1, AnswersStay DEF IInv, Upheld
<1>6. CASE ShutdownDone
  <2>1. Upheld
    BY <1>1, <1>6, ManagerEnds DEF ShutdownDone
  <2> QED  BY <1>1, <2>1, AnswersStay DEF IInv, Upheld
<1> QED  BY <1>2, <1>3, <1>4, <1>5, <1>6 DEF ArchiveStep

\* The pane's own steps.
LEMMA PaneSteps ==
  ASSUME IInv, PushToScrollback \/ ClosePane \/ DropPane \/ Search
  PROVE  IInv'
<1>1. Typed /\ ArchiveInv /\ ReadsPosted /\ ReadsFit /\ AnswersFit
  BY DEF IInv
<1>2. UNCHANGED <<plan, served, blank, read, window, reply>>
  BY DEF PushToScrollback, ClosePane, DropPane, Search, SearchScrollback, SearchNav, SearchClose,
         SearchRequest, answerVars, archiveVars, readVars, ManagerArchiveRows, DropManager
<1>3. /\ Typed' /\ ArchiveInv' /\ ReadsPosted' /\ GoneStays
      /\ received' \in Nat /\ received <= received'
  <2>1. CASE PushToScrollback
    BY <1>1, <2>1, Pushes DEF Typed
  <2>2. CASE ClosePane \/ Search
    <3>1. UNCHANGED <<facadeVars, manager, mailbox, writer, core, attached, pushed, hot>>
      BY <2>2 DEF ClosePane, Search, SearchScrollback, SearchNav, SearchClose, SearchRequest,
                  archiveVars, paneVars
    <3>2. UNCHANGED <<received, dropped, pendingGap>>
      BY <3>1 DEF facadeVars
    <3> QED  BY <1>1, <1>2, <3>1, <3>2, Untouched DEF Typed, ReadsPosted
  <2>3. CASE DropPane
    <3>1. /\ UNCHANGED <<facadeVars, mailbox, writer, core, attached, pushed, hot>>
          /\ manager' = "none"
      BY <2>3 DEF DropPane, DropManager, paneVars
    <3>2. UNCHANGED <<received, dropped, pendingGap>>
      BY <3>1 DEF facadeVars
    <3> QED  BY <1>1, <1>2, <3>1, <3>2, LetsGo DEF Typed, ReadsPosted
  <2> QED  BY <2>1, <2>2, <2>3
<1>4. ReadsFit'
  <2> SUFFICES ASSUME NEW r \in Readers PROVE Fit(r)'
    BY DEF ReadsFit
  <2>1. received \in Nat /\ window \in [Readers -> Windows] /\ Fit(r)
    BY <1>1 DEF Typed, ReadsFit
  <2> QED  BY <1>2, <1>3, <2>1, FitStays
<1>5. AnswersFit'
  BY <1>1, <1>2, <1>3, AnswersStay
<1> QED  BY <1>3, <1>4, <1>5 DEF IInv

-----------------------------------------------------------------------------
\* The requests.  Only the reader's own read changes.

Requested(r) ==
    /\ Typed' /\ Fit(r)'
    /\ UNCHANGED <<facadeVars, manager, mailbox, writer, core, attached, pushed, hot>>
    /\ \A q \in Readers : q # r =>
         /\ read'[q] = read[q] /\ window'[q] = window[q] /\ reply'[q] = reply[q]
         /\ plan'[q] = plan[q]

LEMMA RequestKeeps ==
  ASSUME IInv, NEW r \in Readers, Requested(r), read[r] \notin {"waiting", "failed"},
         GoneStays => AnswersFit'
  PROVE  IInv'
<1>1. Typed /\ ArchiveInv /\ ReadsPosted /\ ReadsFit
  BY DEF IInv
<1>2. ArchiveInv' /\ GoneStays
  BY <1>1, Untouched DEF Requested
<1>3. UNCHANGED <<received, mailbox>>
  BY DEF Requested, facadeVars
<1>4. received \in Nat /\ received' \in Nat /\ received <= received'
      /\ window \in [Readers -> Windows]
  BY <1>1, <1>3 DEF Typed
<1>5. ReadsPosted'
  BY <1>1, <1>3, PostedSame DEF Requested
<1>6. ReadsFit'
  <2>1. SUFFICES ASSUME NEW q \in Readers PROVE Fit(q)'
    BY DEF ReadsFit
  <2>2. CASE q = r
    BY <2>2 DEF Requested
  <2>3. CASE q # r
    BY <1>1, <1>2, <1>4, <2>3, FitStays DEF Requested, ReadsFit
  <2> QED  BY <2>2, <2>3
<1> QED  BY <1>2, <1>5, <1>6 DEF IInv, Requested

LEMMA Finishes ==
  ASSUME Typed, NEW r \in Readers, NEW outcome \in {"answered", "failed"}, Finish(r, outcome),
         UNCHANGED paneVars
  PROVE  Requested(r)
<1>1. /\ read \in [Readers -> {"idle", "planned", "waiting", "replied", "answered", "failed"}]
      /\ window \in [Readers -> Windows] /\ reply \in [Readers -> SUBSET (Nat \X Nat)]
      /\ DOMAIN plan = Readers
  BY DEF Typed
<1>2. /\ read' = [read EXCEPT ![r] = outcome] /\ window' = [window EXCEPT ![r] = NoWindow]
      /\ reply' = [reply EXCEPT ![r] = {}] /\ plan' = [plan EXCEPT ![r] = None]
      /\ UNCHANGED <<received, dropped, pendingGap, manager, mailbox, writer, core>>
      /\ UNCHANGED <<attached, pushed, hot>> /\ UNCHANGED facadeVars
  BY DEF Finish, EndRead, paneVars, facadeVars
<1>3. NoWindow \in Windows
  BY DEF NoWindow, Windows
<1>4. /\ read' \in [Readers -> {"idle", "planned", "waiting", "replied", "answered", "failed"}]
      /\ window' \in [Readers -> Windows] /\ reply' \in [Readers -> SUBSET (Nat \X Nat)]
      /\ DOMAIN plan' = Readers
  BY <1>1, <1>2, <1>3
<1>5. Typed'
  BY <1>2, <1>4 DEF Typed
<1>6. Fit(r)'
  <2>1. read'[r] = outcome
    BY <1>1, <1>2
  <2> QED  BY <2>1, DoneFits
<1>7. \A q \in Readers : q # r =>
         /\ read'[q] = read[q] /\ window'[q] = window[q] /\ reply'[q] = reply[q]
         /\ plan'[q] = plan[q]
  BY <1>1, <1>2
<1> QED  BY <1>2, <1>5, <1>6, <1>7 DEF Requested

\* A reader that goes to the archive has a plan that fits its window.
LEMMA Starts ==
  ASSUME Typed, ArchiveInv, NEW r \in Readers, NEW w \in Windows, NEW y, PlanFits(y, w),
         \/ StartRead(r, w)
         \/ SkipRead(r, w) /\ reply[r] = {} /\ w.hi <= w.lo,
         plan' = [plan EXCEPT ![r] = y], UNCHANGED paneVars
  PROVE  Requested(r)
<1>1. /\ read \in [Readers -> {"idle", "planned", "waiting", "replied", "answered", "failed"}]
      /\ window \in [Readers -> Windows] /\ reply \in [Readers -> SUBSET (Nat \X Nat)]
      /\ DOMAIN plan = Readers /\ received \in Nat
  BY DEF Typed
<1>2. /\ \/ read' = [read EXCEPT ![r] = "planned"] /\ reply' = [reply EXCEPT ![r] = {}]
         \/ read' = [read EXCEPT ![r] = "replied"] /\ reply' = reply /\ reply[r] = {}
            /\ w.hi <= w.lo
      /\ window' = [window EXCEPT ![r] = w]
      /\ UNCHANGED <<received, dropped, pendingGap, manager, mailbox, writer, core>>
      /\ UNCHANGED <<attached, pushed, hot>> /\ UNCHANGED facadeVars
  BY DEF StartRead, SkipRead, paneVars, facadeVars
<1>3. /\ read' \in [Readers -> {"idle", "planned", "waiting", "replied", "answered", "failed"}]
      /\ window' \in [Readers -> Windows] /\ reply' \in [Readers -> SUBSET (Nat \X Nat)]
      /\ DOMAIN plan' = Readers
  BY <1>1, <1>2
<1>4. Typed'
  BY <1>2, <1>3 DEF Typed
<1>5. /\ plan'[r] = y /\ window'[r] = w /\ reply'[r] = {}
      /\ read'[r] = "planned" \/ (read'[r] = "replied" /\ w.hi <= w.lo)
  BY <1>1, <1>2
<1>6. GoneStays
  BY <1>2, Untouched
<1>7. PlanFits(y, w)'
  BY <1>1, <1>2, <1>6, PlanStays
<1>8. read'[r] = "replied" => Truthful({}, w)'
  <2>1. SUFFICES ASSUME w.hi <= w.lo PROVE \A i \in w.lo .. w.hi - 1 : FALSE
    BY <1>5 DEF Truthful
  <2>2. w.lo \in Nat /\ w.hi \in Nat
    BY DEF Windows
  <2> QED  BY <2>1, <2>2
<1>9. PICK a : a = {} /\ a = reply'[r]
  BY <1>5
<1>10. PlanFits(plan[r], window[r])' /\ (read'[r] = "replied" => Truthful(reply[r], window[r])')
  BY <1>5, <1>7, <1>8
<1>11. Fit(r)'
  BY <1>5, <1>10 DEF Fit
<1>12. \A q \in Readers : q # r =>
         /\ read'[q] = read[q] /\ window'[q] = window[q] /\ reply'[q] = reply[q]
         /\ plan'[q] = plan[q]
  BY <1>1, <1>2
<1> QED  BY <1>2, <1>4, <1>11, <1>12 DEF Requested

\* A cell of an answer is the row asked for, or blank where there is none.
CellFits(cell, i) == cell = i \/ (cell = Blank /\ Gone(i))

LEMMA Delivers ==
  ASSUME AnswersFit, GoneStays, NEW first \in Nat, NEW rows \in Seq(Cells), NEW excused,
         Deliver(first, rows, excused),
         \A k \in DOMAIN rows :
           \/ CellFits(rows[k], first + k - 1)
           \/ rows[k] = Blank /\ first + k - 1 \in excused
  PROVE  AnswersFit'
<1>1. ASSUME NEW p \in served' PROVE p[1] = p[2]
  <2>1. CASE p \in served
    BY <2>1 DEF AnswersFit, ReadsAreAligned
  <2>2. CASE p \notin served
    <3>1. PICK k \in DOMAIN rows : rows[k] # Blank /\ p = <<first + k - 1, rows[k]>>
      BY <1>1, <2>2 DEF Deliver
    <3>2. rows[k] = first + k - 1
      BY <3>1 DEF CellFits
    <3> QED  BY <3>1, <3>2
  <2> QED  BY <2>1, <2>2
<1>2. ASSUME NEW i \in blank' PROVE Gone(i)'
  <2>1. CASE i \in blank
    BY <2>1 DEF AnswersFit, GoneStays
  <2>2. CASE i \notin blank
    <3>1. PICK k \in DOMAIN rows : rows[k] = Blank /\ i = first + k - 1 /\ i \notin excused
      BY <1>2, <2>2 DEF Deliver
    <3>2. CellFits(Blank, i)
      BY <3>1
    <3>3. CASE i # Blank
      BY <3>2, <3>3 DEF CellFits, GoneStays
    <3>4. i # Blank
      <4>1. k \in Nat
        OBVIOUS
      <4>2. i \in Int
        BY <3>1, <4>1
      <4>3. Blank \notin Int
        BY ScrollbackAssumption
      <4> QED  BY <4>2, <4>3
    <3> QED  BY <3>3, <3>4
  <2> QED  BY <2>1, <2>2
<1> QED  BY <1>1, <1>2 DEF AnswersFit, ReadsAreAligned

-----------------------------------------------------------------------------
\* The tiers, and what a page plan takes from each.

LEMMA Layouts ==
  ASSUME Typed, ArchiveInv
  PROVE  \E f \in Nat, h \in Nat :
           /\ f + h = pushed /\ Layout.hotFirst = f /\ Layout.pushed = f + h
           /\ Layout.archived = (IF attached THEN f ELSE 0)
           /\ received = (IF attached THEN f ELSE 0)
           /\ \A i \in 0 .. h - 1 : HotRow(i) = f + i
           /\ ~ attached => \A i \in 0 .. f - 1 : Gone(i)
<1>1. pushed \in Nat /\ hot \in Seq(Nat)
  BY DEF Typed
<1>2. PICK p \in Nat, h \in Nat : p = pushed /\ h = Len(hot) /\ DOMAIN hot = 1 .. h
  <2>1. Len(hot) \in Nat /\ DOMAIN hot = 1 .. Len(hot)
    BY <1>1
  <2> QED  BY <1>1, <2>1, Zenon
<1>3. /\ h <= p /\ InLine(hot, p - h) /\ received = IF attached THEN p - h ELSE 0
      /\ ~ attached => core = NewCore /\ mailbox = <<>>
  BY <1>2 DEF ArchiveInv, Tiers
<1>4. PICK f \in Nat : f = p - h /\ f + h = p
  BY <1>3
<1>5. Layout.hotFirst = f /\ Layout.pushed = p
      /\ Layout.archived = IF attached THEN Lesser(received, f) ELSE 0
  BY <1>2, <1>4 DEF Layout
<1>6. attached => Lesser(received, f) = f
  BY <1>3, <1>4 DEF Lesser
<1>7. ASSUME NEW i \in 0 .. h - 1 PROVE HotRow(i) = f + i
  <2>1. i + 1 \in DOMAIN hot /\ hot[i + 1] = f + (i + 1) - 1
    BY <1>2, <1>3, <1>4 DEF InLine
  <2> QED  BY <2>1 DEF HotRow
<1>8. ASSUME ~ attached, NEW i \in 0 .. f - 1 PROVE Gone(i)
  <2>1. RowsOf(hot) = f .. f + h - 1
    BY <1>1, <1>2, <1>3, <1>4, LineRows
  <2>2. Kept(core) = {}
    BY <1>3, <1>8 DEF Kept, NewCore
  <2>3. Queued = {}
    BY <1>3, <1>8 DEF Queued
  <2>4. i \notin f .. f + h - 1 /\ i \in 0 .. p - 1
    BY <1>4
  <2> QED  BY <1>2, <2>1, <2>2, <2>3, <2>4 DEF Held, Gone
<1>9. received = (IF attached THEN f ELSE 0)
  BY <1>3, <1>4
<1> QED  BY <1>2, <1>4, <1>5, <1>6, <1>7, <1>8, <1>9

LEMMA MadeRows ==
  ASSUME NEW S, NEW n \in Nat, NEW row \in [1 .. n -> S]
  PROVE  row \in Seq(S) /\ Len(row) = n /\ DOMAIN row = 1 .. n
OBVIOUS

LEMMA Joined ==
  ASSUME NEW S, NEW a \in Seq(S), NEW b \in Seq(S)
  PROVE  /\ a \o b \in Seq(S) /\ Len(a \o b) = Len(a) + Len(b)
         /\ DOMAIN (a \o b) = 1 .. Len(a) + Len(b)
         /\ \A k \in 1 .. Len(a) + Len(b) :
              (a \o b)[k] = IF k <= Len(a) THEN a[k] ELSE b[k - Len(a)]
<1>1. /\ a \o b \in Seq(S) /\ Len(a \o b) = Len(a) + Len(b)
      /\ \A k \in 1 .. Len(a) + Len(b) :
           (a \o b)[k] = IF k <= Len(a) THEN a[k] ELSE b[k - Len(a)]
  BY ConcatProperties
<1> QED  BY <1>1

\* A window of history, cut where the tiers meet.
Cut(f, h, archived, start, end) ==
    LET archiveEnd == Lesser(end, archived)
        lo == Lesser(start, archiveEnd)
        gap == Monus(Lesser(end, f), Greater(start, archived))
        hotFrom == Greater(start, f)
        hotCount == Monus(end, hotFrom)
        from == IF lo < archiveEnd THEN archiveEnd ELSE start
    IN  /\ archiveEnd \in Nat /\ lo \in Nat /\ gap \in Nat /\ hotCount \in Nat /\ from \in Nat
        /\ hotFrom - f \in Nat
        /\ lo < archiveEnd => lo = start
        /\ archiveEnd <= archived
        /\ archived = f => gap = 0
        /\ \A k \in 1 .. gap : from + k - 1 \in 0 .. f - 1
        /\ \A k \in 1 .. hotCount :
             /\ (hotFrom - f) + k - 1 \in 0 .. h - 1
             /\ f + ((hotFrom - f) + k - 1) = from + gap + k - 1

LEMMA CutsWindow ==
  ASSUME NEW f \in Nat, NEW h \in Nat, NEW archived \in {0, f}, NEW start \in Nat, NEW end \in Nat,
         start <= end, end <= f + h
  PROVE  Cut(f, h, archived, start, end)
<1>1. CASE archived = f
  <2>1. CASE start < f
    <3>1. CASE end < f
      BY <1>1, <2>1, <3>1 DEF Cut, Lesser, Greater, Monus
    <3>2. CASE end >= f
      BY <1>1, <2>1, <3>2 DEF Cut, Lesser, Greater, Monus
    <3> QED  BY <3>1, <3>2
  <2>2. CASE start >= f
    BY <1>1, <2>2 DEF Cut, Lesser, Greater, Monus
  <2> QED  BY <2>1, <2>2
<1>2. CASE archived = 0
  <2>1. CASE start < f
    <3>1. CASE end < f
      BY <1>2, <2>1, <3>1 DEF Cut, Lesser, Greater, Monus
    <3>2. CASE end >= f
      BY <1>2, <2>1, <3>2 DEF Cut, Lesser, Greater, Monus
    <3> QED  BY <3>1, <3>2
  <2>2. CASE start >= f
    BY <1>2, <2>2 DEF Cut, Lesser, Greater, Monus
  <2> QED  BY <2>1, <2>2
<1> QED  BY <1>1, <1>2

\* What a page plan promises: its archive window and its tail fit together,
\* and the tail is rows that are there or blanks for rows that are gone.
LEMMA PlansRead ==
  ASSUME Typed, ArchiveInv, NEW base \in 0 .. pushed, NEW start_row \in Int, NEW count \in Nat
  PROVE  LET p == PlanScrollbackRead(Layout, base, start_row, count)
             first == base + p.servedStart
             tail == BuildTail(p)
             from == IF NeedsArchive(p.archive) THEN p.archive.hi ELSE first
         IN  /\ first \in Nat /\ p.archive \in Windows /\ tail \in Seq(Cells)
             /\ NeedsArchive(p.archive) => p.archive.lo = first
             /\ p.archive.hi <= received
             /\ NeedsArchive(p.archive) => tail \in Seq(Nat) /\ InLine(tail, from)
             /\ \A k \in DOMAIN tail : CellFits(tail[k], from + k - 1)
<1>1. PICK f \in Nat, h \in Nat :
        /\ f + h = pushed /\ Layout.hotFirst = f /\ Layout.pushed = f + h
        /\ Layout.archived = (IF attached THEN f ELSE 0)
        /\ received = (IF attached THEN f ELSE 0)
        /\ \A i \in 0 .. h - 1 : HotRow(i) = f + i
        /\ ~ attached => \A i \in 0 .. f - 1 : Gone(i)
  BY Layouts
<1>2. PICK archived \in {0, f} : archived = Layout.archived /\ archived = received
                                 /\ (attached => archived = f) /\ (~ attached => archived = 0)
  BY <1>1
<1>3. MaxPage \in Nat
  BY ScrollbackAssumption
<1>4. base \in Nat
  BY <1>1
<1>5. PICK start \in Nat : start = Lesser(Greater(base + start_row, 0), Layout.pushed)
                           /\ start <= f + h
  BY <1>1, <1>4 DEF Lesser, Greater
<1>6. PICK n \in Nat : n = Lesser(count, MaxPage)
  BY <1>3 DEF Lesser
<1>7. PICK end \in Nat : end = Lesser(start + n, Layout.pushed) /\ start <= end /\ end <= f + h
  BY <1>1, <1>5 DEF Lesser
<1> DEFINE archiveEnd == Lesser(end, archived)
           lo == Lesser(start, archiveEnd)
           gap == Monus(Lesser(end, f), Greater(start, archived))
           hotFrom == Greater(start, f)
           hotCount == Monus(end, hotFrom)
           from == IF lo < archiveEnd THEN archiveEnd ELSE start
           p == PlanScrollbackRead(Layout, base, start_row, count)
<1>8. p = [archive |-> [lo |-> lo, hi |-> archiveEnd], servedStart |-> start - base,
           gap |-> gap, hotStart |-> hotFrom - f, hotCount |-> hotCount]
  BY <1>1, <1>2, <1>5, <1>6, <1>7 DEF PlanScrollbackRead
<1>9. /\ archiveEnd \in Nat /\ lo \in Nat /\ gap \in Nat /\ hotCount \in Nat /\ from \in Nat
      /\ hotFrom - f \in Nat
      /\ lo < archiveEnd => lo = start
      /\ archiveEnd <= archived
      /\ archived = f => gap = 0
      /\ \A k \in 1 .. gap : from + k - 1 \in 0 .. f - 1
      /\ \A k \in 1 .. hotCount :
           /\ (hotFrom - f) + k - 1 \in 0 .. h - 1
           /\ f + ((hotFrom - f) + k - 1) = from + gap + k - 1
  <2>1. Cut(f, h, archived, start, end)
    BY <1>7, CutsWindow
  <2> QED  BY <2>1 DEF Cut
<1> HIDE DEF archiveEnd, lo, gap, hotFrom, hotCount, from
<1>10. /\ p.archive.lo = lo /\ p.archive.hi = archiveEnd /\ p.servedStart = start - base
       /\ p.gap = gap /\ p.hotStart = hotFrom - f /\ p.hotCount = hotCount
       /\ p.archive = [lo |-> lo, hi |-> archiveEnd]
  BY <1>8
<1> HIDE DEF p
<1>11. base + p.servedStart = start
  BY <1>4, <1>10
<1>12. p.archive \in Windows
  BY <1>9, <1>10 DEF Windows
<1> DEFINE blanks == [k \in 1 .. gap |-> Blank]
           rows == [k \in 1 .. hotCount |-> HotRow((hotFrom - f) + k - 1)]
           tail == BuildTail(p)
<1>13. tail = blanks \o rows
  BY <1>10 DEF BuildTail
<1>14. \A k \in 1 .. hotCount : rows[k] = from + gap + k - 1 /\ rows[k] \in Nat
  BY <1>1, <1>9
<1>15. blanks \in Seq(Cells) /\ Len(blanks) = gap /\ (\A k \in 1 .. gap : blanks[k] = Blank)
  <2>1. blanks \in [1 .. gap -> Cells]
    BY DEF Cells
  <2> QED  BY <1>9, <2>1, MadeRows
<1>16. rows \in Seq(Nat) /\ rows \in Seq(Cells) /\ Len(rows) = hotCount
  <2>1. rows \in [1 .. hotCount -> Nat] /\ rows \in [1 .. hotCount -> Cells]
    BY <1>14 DEF Cells
  <2> HIDE DEF rows
  <2> QED  BY <1>9, <2>1, MadeRows
<1> HIDE DEF blanks, rows
<1>17. /\ tail \in Seq(Cells) /\ DOMAIN tail = 1 .. gap + hotCount
       /\ \A k \in 1 .. gap + hotCount :
            tail[k] = IF k <= gap THEN blanks[k] ELSE rows[k - gap]
  BY <1>13, <1>15, <1>16, Joined
<1> HIDE DEF tail
<1>18. ASSUME NEW k \in 1 .. gap + hotCount PROVE CellFits(tail[k], from + k - 1)
  <2>1. CASE k <= gap
    <3>1. k \in 1 .. gap
      BY <1>9, <2>1
    <3>2. tail[k] = Blank /\ gap # 0 /\ from + k - 1 \in 0 .. f - 1
      BY <1>9, <1>15, <1>17, <2>1, <3>1
    <3>3. ~ attached
      BY <1>2, <1>9, <3>2
    <3> QED  BY <1>1, <3>2, <3>3 DEF CellFits
  <2>2. CASE ~ k <= gap
    <3>1. k - gap \in 1 .. hotCount
      BY <1>9, <2>2
    <3>2. tail[k] = rows[k - gap] /\ rows[k - gap] = from + gap + (k - gap) - 1
      BY <1>14, <1>17, <2>2, <3>1
    <3>3. from + gap + (k - gap) - 1 = from + k - 1
      BY <1>9
    <3> QED  BY <3>2, <3>3 DEF CellFits
  <2> QED  BY <2>1, <2>2
<1>19. NeedsArchive(p.archive) <=> lo < archiveEnd
  BY <1>10 DEF NeedsArchive
<1>20. ASSUME NeedsArchive(p.archive) PROVE tail \in Seq(Nat) /\ InLine(tail, from)
  <2>1. lo < archiveEnd /\ archiveEnd <= archived
    BY <1>9, <1>19, <1>20
  <2>2. gap = 0
    <3>1. archived # 0
      BY <1>9, <2>1
    <3> QED  BY <1>2, <1>9, <3>1
  <2>3. blanks \in Seq(Nat)
    <3>1. blanks \in [1 .. gap -> Nat]
      BY <2>2 DEF blanks
    <3> QED  BY <1>9, <3>1, MadeRows
  <2>4. tail \in Seq(Nat)
    BY <1>13, <1>16, <2>3, Joined DEF tail
  <2>5. ASSUME NEW k \in 1 .. gap + hotCount PROVE tail[k] = from + k - 1
    <3>1. tail[k] = rows[k] /\ k \in 1 .. hotCount
      BY <1>9, <1>17, <2>2, <2>5
    <3>2. rows[k] = from + gap + k - 1
      BY <1>14, <3>1
    <3> QED  BY <1>9, <2>2, <3>1, <3>2
  <2> QED  BY <1>17, <2>4, <2>5 DEF InLine
<1>21. from = IF NeedsArchive(p.archive) THEN p.archive.hi ELSE base + p.servedStart
  BY <1>10, <1>11, <1>19 DEF from
<1>22. p.archive.hi <= received
  BY <1>2, <1>9, <1>10
<1>23. NeedsArchive(p.archive) => p.archive.lo = base + p.servedStart
  BY <1>9, <1>10, <1>11, <1>19
<1>24. /\ base + p.servedStart \in Nat /\ p.archive \in Windows /\ tail \in Seq(Cells)
       /\ \A k \in DOMAIN tail : CellFits(tail[k], from + k - 1)
  BY <1>11, <1>12, <1>17, <1>18
<1> QED  BY <1>20, <1>21, <1>22, <1>23, <1>24 DEF p, tail

\* The archive's answer, laid out over its window.
LEMMA Aligns ==
  ASSUME NEW w \in Windows, NEW rows \in SUBSET (Nat \X Nat), Truthful(rows, w)
  PROVE  /\ Aligned(rows, w) \in Seq(Cells)
         /\ Len(Aligned(rows, w)) = (IF w.lo < w.hi THEN w.hi - w.lo ELSE 0)
         /\ InLineOrGone(Aligned(rows, w), w.lo)
<1>1. PICK lo \in Nat, hi \in Nat : lo = w.lo /\ hi = w.hi
  BY DEF Windows
<1>2. PICK n \in Nat : n = (IF lo < hi THEN hi - lo ELSE 0)
  BY <1>1
<1>3. 1 .. hi - lo = 1 .. n
  BY <1>1, <1>2
<1> DEFINE row(i) == IF \E p \in rows : p[1] = i
                     THEN (CHOOSE p \in rows : p[1] = i)[2] ELSE Blank
           answer == [k \in 1 .. n |-> row(lo + k - 1)]
<1>4. Aligned(rows, w) = answer
  BY <1>1, <1>3 DEF Aligned
<1>5. ASSUME NEW i \in lo .. hi - 1 PROVE CellFits(row(i), i) /\ row(i) \in Cells
  <2>1. CASE \E p \in rows : p[1] = i
    <3>1. PICK p : p = (CHOOSE q \in rows : q[1] = i)
      OBVIOUS
    <3>2. p \in rows /\ p[1] = i
      BY <2>1, <3>1
    <3>3. p[1] = p[2]
      BY <3>2 DEF Truthful
    <3>4. row(i) = i /\ i \in Nat
      BY <1>1, <2>1, <3>1, <3>2, <3>3
    <3> QED  BY <3>4 DEF CellFits, Cells
  <2>2. CASE ~ \E p \in rows : p[1] = i
    <3>1. <<i, i>> \notin rows
      BY <2>2
    <3>2. Gone(i)
      BY <1>1, <3>1 DEF Truthful
    <3> QED  BY <2>2, <3>2 DEF CellFits, Cells
  <2> QED  BY <2>1, <2>2
<1> HIDE DEF row
<1>6. ASSUME NEW k \in 1 .. n PROVE lo + k - 1 \in lo .. hi - 1
  BY <1>1, <1>2
<1>7. answer \in [1 .. n -> Cells]
  BY <1>5, <1>6
<1>8. \A k \in 1 .. n : CellFits(answer[k], lo + k - 1)
  BY <1>5, <1>6
<1>9. \A k \in 1 .. n : answer[k] = lo + k - 1 \/ (answer[k] = Blank /\ Gone(lo + k - 1))
  BY <1>8 DEF CellFits
<1> HIDE DEF answer
<1>10. answer \in Seq(Cells) /\ Len(answer) = n /\ DOMAIN answer = 1 .. n
  BY <1>2, <1>7, MadeRows
<1>11. InLineOrGone(answer, lo)
  BY <1>9, <1>10 DEF InLineOrGone
<1> QED  BY <1>1, <1>2, <1>4, <1>10, <1>11

-----------------------------------------------------------------------------
\* The pages.

LEMMA GetsScrollback ==
  ASSUME IInv, NEW r \in Readers, NEW base \in 0 .. pushed, NEW start_row \in Int,
         NEW count \in Nat, GetScrollback(r, base, start_row, count)
  PROVE  IInv'
<1> DEFINE p == PlanScrollbackRead(Layout, base, start_row, count)
           first == base + p.servedStart
           tail == BuildTail(p)
           page == [kind |-> "page", first |-> first, tail |-> tail]
<1>1. Typed /\ ArchiveInv /\ AnswersFit /\ read[r] = "idle" /\ UNCHANGED paneVars
  BY DEF IInv, GetScrollback
<1>2. /\ \/ ~ NeedsArchive(p.archive) /\ Deliver(first, tail, {}) /\ Finish(r, "answered")
         \/ /\ NeedsArchive(p.archive)
            /\ \/ Finish(r, "failed")
               \/ StartRead(r, p.archive) /\ plan' = [plan EXCEPT ![r] = page]
            /\ UNCHANGED <<served, blank>>
  BY DEF GetScrollback
<1>3. /\ first \in Nat /\ p.archive \in Windows /\ tail \in Seq(Cells)
      /\ NeedsArchive(p.archive) => p.archive.lo = first
      /\ p.archive.hi <= received
      /\ NeedsArchive(p.archive) => tail \in Seq(Nat) /\ InLine(tail, p.archive.hi)
      /\ ~ NeedsArchive(p.archive) => \A k \in DOMAIN tail : CellFits(tail[k], first + k - 1)
  BY <1>1, PlansRead
<1> HIDE DEF first, tail, p
<1>4. CASE ~ NeedsArchive(p.archive)
  <2>1. Requested(r)
    BY <1>1, <1>2, <1>4, Finishes
  <2>2. GoneStays => AnswersFit'
    BY <1>1, <1>2, <1>3, <1>4, Delivers
  <2> QED  BY <1>1, <2>1, <2>2, RequestKeeps
<1>5. CASE NeedsArchive(p.archive)
  <2>1. GoneStays => AnswersFit'
    BY <1>1, <1>2, <1>5, AnswersStay
  <2>2. CASE Finish(r, "failed")
    <3>1. Requested(r)
      BY <1>1, <2>2, Finishes
    <3> QED  BY <1>1, <2>1, <3>1, RequestKeeps
  <2>3. CASE StartRead(r, p.archive) /\ plan' = [plan EXCEPT ![r] = page]
    <3>1. page \in Pages /\ page.kind = "page" /\ page.first = first /\ page.tail = tail
      BY <1>3, <1>5 DEF Pages
    <3>2. page \notin Yanks
      BY <3>1 DEF Yanks
    <3>3. PageFits(page, p.archive)
      BY <1>3, <1>5, <3>1 DEF PageFits, NeedsArchive
    <3>4. PlanFits(page, p.archive)
      BY <1>3, <3>1, <3>2, <3>3 DEF PlanFits
    <3> HIDE DEF page
    <3>5. Requested(r)
      BY <1>1, <1>3, <2>3, <3>4, Starts
    <3> QED  BY <1>1, <2>1, <3>5, RequestKeeps
  <2> QED  BY <1>2, <1>5, <2>2, <2>3
<1> QED  BY <1>4, <1>5

LEMMA AssemblesPage ==
  ASSUME IInv, NEW r \in Readers, AssemblePage(r)
  PROVE  IInv'
<1>1. /\ Typed /\ AnswersFit /\ read[r] = "replied" /\ plan[r].kind = "page" /\ UNCHANGED paneVars
      /\ Finish(r, "answered")
      /\ Deliver(plan[r].first, Aligned(reply[r], window[r]) \o plan[r].tail, {})
      /\ Fit(r)
  BY DEF IInv, AssemblePage, ReadsFit
<1>2. PICK w \in Windows, rows \in SUBSET (Nat \X Nat) : w = window[r] /\ rows = reply[r]
  BY <1>1 DEF Typed
<1>3. PICK y : y = plan[r]
  OBVIOUS
<1>4. Truthful(rows, w) /\ PlanFits(y, w)
  BY <1>1, <1>2, <1>3 DEF Fit
<1>5. y \in Pages
  <2>1. y \in Pages \cup Yanks /\ y.kind = "page"
    BY <1>1, <1>3, <1>4 DEF PlanFits
  <2> QED  BY <2>1 DEF Yanks
<1>6. y.first = w.lo /\ w.lo < w.hi /\ InLine(y.tail, w.hi)
  BY <1>4, <1>5 DEF PlanFits, PageFits
<1>7. PICK tail \in Seq(Nat) : tail = y.tail
  BY <1>5 DEF Pages
<1>8. PICK lo \in Nat, hi \in Nat : lo = w.lo /\ hi = w.hi
  BY <1>2 DEF Windows
<1>9. /\ Aligned(rows, w) \in Seq(Cells) /\ Len(Aligned(rows, w)) = hi - lo
      /\ InLineOrGone(Aligned(rows, w), lo)
  BY <1>2, <1>4, <1>6, <1>8, Aligns
<1>10. PICK head \in Seq(Cells) : head = Aligned(rows, w)
  BY <1>9
<1>11. PICK n \in Nat, m \in Nat : n = hi - lo /\ n = Len(head) /\ m = Len(tail) /\ DOMAIN head = 1 .. n
                                  /\ DOMAIN tail = 1 .. m
  <2>1. Len(head) \in Nat /\ Len(tail) \in Nat /\ DOMAIN head = 1 .. Len(head)
        /\ DOMAIN tail = 1 .. Len(tail) /\ Len(head) = hi - lo
    BY <1>7, <1>9, <1>10
  <2> QED  BY <2>1, Zenon
<1>12. tail \in Seq(Cells)
  <2>1. \A k \in 1 .. m : tail[k] \in Nat
    BY <1>7, <1>11
  <2>2. tail \in [1 .. m -> Cells]
    BY <1>7, <1>11, <2>1 DEF Cells
  <2> QED  BY <1>11, <2>2, MadeRows
<1>13. PICK joined \in Seq(Cells) :
         /\ joined = head \o tail /\ DOMAIN joined = 1 .. n + m
         /\ \A k \in 1 .. n + m :
              joined[k] = IF k <= n THEN head[k] ELSE tail[k - n]
  <2>1. /\ head \o tail \in Seq(Cells) /\ DOMAIN (head \o tail) = 1 .. Len(head) + Len(tail)
        /\ \A k \in 1 .. Len(head) + Len(tail) :
             (head \o tail)[k] = IF k <= Len(head) THEN head[k] ELSE tail[k - Len(head)]
    BY <1>12, Joined
  <2>2. Len(head) = n /\ Len(tail) = m
    BY <1>11
  <2> QED  BY <2>1, <2>2
<1>14. ASSUME NEW k \in 1 .. n + m PROVE CellFits(joined[k], lo + k - 1)
  <2>1. CASE k <= n
    <3>1. k \in 1 .. n
      BY <1>11, <2>1
    <3>2. head[k] = lo + k - 1 \/ (head[k] = Blank /\ Gone(lo + k - 1))
      BY <1>9, <1>10, <1>11, <3>1 DEF InLineOrGone
    <3> QED  BY <1>13, <2>1, <3>2 DEF CellFits
  <2>2. CASE ~ k <= n
    <3>1. k - n \in 1 .. m
      BY <1>11, <2>2
    <3>2. tail[k - n] = hi + (k - n) - 1
      BY <1>6, <1>7, <1>8, <1>11, <3>1 DEF InLine
    <3>3. hi + (k - n) - 1 = lo + k - 1
      <4>1. k \in Int /\ n = hi - lo
        BY <1>11
      <4> QED  BY <4>1
    <3>4. joined[k] = tail[k - n]
      BY <1>13, <2>2
    <3>5. joined[k] = lo + k - 1
      BY <3>2, <3>3, <3>4
    <3> QED  BY <3>5 DEF CellFits
  <2> QED  BY <2>1, <2>2
<1>15. Deliver(lo, joined, {})
  BY <1>1, <1>2, <1>3, <1>6, <1>7, <1>8, <1>10, <1>13
<1>16. GoneStays => AnswersFit'
  BY <1>1, <1>8, <1>13, <1>14, <1>15, Delivers
<1>17. Requested(r)
  BY <1>1, Finishes
<1> QED  BY <1>1, <1>16, <1>17, RequestKeeps

-----------------------------------------------------------------------------
\* The yanks.

\* What a yank has is its window's rows, joined to those it had.
LEMMA Extends ==
  ASSUME NEW y \in Yanks, NEW w \in Windows, NEW rows \in SUBSET (Nat \X Nat),
         YankFits(y, w), Truthful(rows, w)
  PROVE  LET z == Extended(y, w, Aligned(rows, w))
         IN  /\ z \in Yanks /\ Chained(z)
             /\ z.kind = y.kind /\ z.first = y.first /\ z.last = y.last /\ z.top = w.hi
<1> DEFINE z == Extended(y, w, Aligned(rows, w))
<1>1. PICK lo \in Nat, hi \in Nat : lo = w.lo /\ hi = w.hi
  BY DEF Windows
<1>2. PICK kind \in {"yank", "topped"}, first \in Nat, last \in Nat, start \in Nat, top \in Nat :
        /\ kind = y.kind /\ first = y.first /\ last = y.last /\ start = y.start /\ top = y.top
  BY DEF Yanks
<1>3. PICK had \in Seq(Cells) : had = y.rows
  BY DEF Yanks
<1>4. PICK more \in Seq(Cells) : more = Aligned(rows, w) /\ InLineOrGone(more, lo)
                                 /\ Len(more) = (IF lo < hi THEN hi - lo ELSE 0)
  BY <1>1, Aligns
<1>5. PICK n \in Nat, m \in Nat : n = Len(had) /\ m = Len(more) /\ DOMAIN had = 1 .. n
                                  /\ DOMAIN more = 1 .. m
  <2>1. Len(had) \in Nat /\ Len(more) \in Nat /\ DOMAIN had = 1 .. Len(had)
        /\ DOMAIN more = 1 .. Len(more)
    BY <1>3, <1>4
  <2> QED  BY <2>1, Zenon
<1>6. m = IF lo < hi THEN hi - lo ELSE 0
  BY <1>4, <1>5
<1>7. PICK joined \in Seq(Cells) :
        /\ joined = had \o more /\ Len(joined) = n + m /\ DOMAIN joined = 1 .. n + m
        /\ \A k \in 1 .. n + m : joined[k] = IF k <= n THEN had[k] ELSE more[k - n]
  <2>1. /\ had \o more \in Seq(Cells) /\ DOMAIN (had \o more) = 1 .. Len(had) + Len(more)
        /\ Len(had \o more) = Len(had) + Len(more)
        /\ \A k \in 1 .. Len(had) + Len(more) :
             (had \o more)[k] = IF k <= Len(had) THEN had[k] ELSE more[k - Len(had)]
    BY Joined
  <2>2. Len(had) = n /\ Len(more) = m
    BY <1>5
  <2> QED  BY <2>1, <2>2, Zenon
<1>8. PICK from \in Nat : from = IF had = <<>> THEN lo ELSE start
  BY <1>1, <1>2
<1>9. z = [y EXCEPT !.start = from, !.rows = joined, !.top = hi]
  BY <1>1, <1>2, <1>3, <1>4, <1>7, <1>8 DEF Extended
<1>10. /\ z \in Yanks /\ z.kind = kind /\ z.first = first /\ z.last = last /\ z.top = hi
       /\ z.start = from /\ z.rows = joined
  BY <1>2, <1>9 DEF Yanks
<1> HIDE DEF z
<1>11. (had = <<>> <=> n = 0) /\ (joined = <<>> <=> n + m = 0)
  BY <1>3, <1>5, <1>7, EmptySeq
<1>12. InLineOrGone(joined, from) /\ IF joined = <<>> THEN hi <= first
                                     ELSE from = first /\ from + (n + m) = hi
  <2>1. CASE kind = "yank"
    <3>1. had = <<>> /\ n = 0 /\ IF lo < hi THEN lo = first ELSE hi <= first
      BY <1>1, <1>2, <1>3, <1>11, <2>1 DEF YankFits
    <3>2. from = lo
      BY <1>8, <3>1
    <3>3. \A k \in 1 .. n + m : joined[k] = more[k]
      <4> SUFFICES ASSUME NEW k \in 1 .. n + m PROVE joined[k] = more[k]
        OBVIOUS
      <4>1. k \in 1 .. m /\ ~ k <= n /\ k - n = k
        BY <1>5, <3>1
      <4> QED  BY <1>7, <4>1
    <3>4. 1 .. n + m = 1 .. m
      BY <1>5, <3>1
    <3>5. InLineOrGone(joined, from)
      BY <1>4, <1>5, <1>7, <3>2, <3>3, <3>4 DEF InLineOrGone
    <3>6. IF joined = <<>> THEN hi <= first ELSE from = first /\ from + (n + m) = hi
      <4>1. joined = <<>> <=> ~ lo < hi
        BY <1>6, <1>11, <3>1
      <4> QED  BY <1>6, <3>1, <3>2, <4>1
    <3> QED  BY <3>5, <3>6
  <2>2. CASE kind = "topped"
    <3>1. lo = Greater(top, first) /\ lo < hi /\ Chained(y)
      BY <1>1, <1>2, <2>2 DEF YankFits
    <3>2. InLineOrGone(had, start) /\ IF had = <<>> THEN top <= first
                                      ELSE start = first /\ start + n = top
      BY <1>2, <1>3, <1>5, <3>1 DEF Chained
    <3>3. from = first /\ from + n = lo
      <4>1. CASE had = <<>>
        BY <1>1, <1>2, <1>5, <1>8, <1>11, <3>1, <3>2, <4>1 DEF Greater
      <4>2. CASE had # <<>>
        BY <1>1, <1>2, <1>5, <1>8, <3>1, <3>2, <4>2 DEF Greater
      <4> QED  BY <4>1, <4>2
    <3>4. m = hi - lo /\ n + m # 0 /\ from + (n + m) = hi
      <4>1. lo < hi
        BY <3>1
      <4>2. m = hi - lo
        BY <1>6, <4>1
      <4> QED  BY <3>3, <4>1, <4>2
    <3>5. ASSUME NEW k \in 1 .. n + m
          PROVE  joined[k] = from + k - 1 \/ (joined[k] = Blank /\ Gone(from + k - 1))
      <4>1. CASE k <= n
        <5>1. k \in 1 .. n /\ had # <<>>
          BY <1>5, <1>11, <4>1
        <5>2. had[k] = start + k - 1 \/ (had[k] = Blank /\ Gone(start + k - 1))
          BY <1>5, <3>2, <5>1 DEF InLineOrGone
        <5>3. start = from /\ joined[k] = had[k]
          BY <1>7, <1>8, <4>1, <5>1
        <5> QED  BY <5>2, <5>3
      <4>2. CASE ~ k <= n
        <5>1. k - n \in 1 .. m
          BY <1>5, <4>2
        <5>2. joined[k] = more[k - n]
          BY <1>7, <4>2
        <5>3. PICK i : i = k - n
          OBVIOUS
        <5>4. more[i] = lo + i - 1 \/ (more[i] = Blank /\ Gone(lo + i - 1))
          BY <1>4, <1>5, <5>1, <5>3 DEF InLineOrGone
        <5>5. lo + i - 1 = from + k - 1
          <6>1. k \in Int
            OBVIOUS
          <6> QED  BY <3>3, <5>3, <6>1
        <5> QED  BY <5>2, <5>3, <5>4, <5>5
      <4> QED  BY <4>1, <4>2
    <3>6. InLineOrGone(joined, from)
      BY <1>7, <3>5 DEF InLineOrGone
    <3> QED  BY <1>11, <3>3, <3>4, <3>6
  <2> QED  BY <1>2, <2>1, <2>2
<1>13. Chained(z)
  BY <1>7, <1>10, <1>12 DEF Chained
<1> QED  BY <1>1, <1>2, <1>10, <1>13 DEF z

\* The cell of a yank for a row.
YankCell(l, y, row) ==
    LET i == row - y.start + 1
    IN  IF row < l.archived
        THEN IF i \in DOMAIN y.rows THEN y.rows[i] ELSE Blank
        ELSE IF row < l.hotFirst THEN Blank
        ELSE IF row < l.pushed THEN HotRow(row - l.hotFirst)
        ELSE row

LEMMA YankCells ==
  ASSUME Typed, ArchiveInv, NEW y \in Yanks, Chained(y),
         y.kind = "yank" => ~ NeedsArchive(TopUp(Layout, y)),
         NEW row \in Nat, y.first <= row, row <= y.last
  PROVE  /\ YankCell(Layout, y, row) \in Cells
         /\ \/ CellFits(YankCell(Layout, y, row), row)
            \/ YankCell(Layout, y, row) = Blank /\ row \in MovedLate(Layout, y)
<1>1. PICK f \in Nat, h \in Nat :
        /\ f + h = pushed /\ Layout.hotFirst = f /\ Layout.pushed = f + h
        /\ Layout.archived = (IF attached THEN f ELSE 0)
        /\ received = (IF attached THEN f ELSE 0)
        /\ \A i \in 0 .. h - 1 : HotRow(i) = f + i
        /\ ~ attached => \A i \in 0 .. f - 1 : Gone(i)
  BY Layouts
<1>2. PICK archived \in {0, f} : archived = Layout.archived /\ (archived = f \/ ~ attached)
  BY <1>1
<1>3. PICK kind \in {"yank", "topped"}, first \in Nat, last \in Nat, start \in Nat, top \in Nat :
        /\ kind = y.kind /\ first = y.first /\ last = y.last /\ start = y.start /\ top = y.top
  BY DEF Yanks
<1>4. PICK rows \in Seq(Cells) : rows = y.rows
  BY DEF Yanks
<1>5. PICK n \in Nat : n = Len(rows) /\ DOMAIN rows = 1 .. n /\ (rows = <<>> <=> n = 0)
  <2>1. Len(rows) \in Nat /\ DOMAIN rows = 1 .. Len(rows) /\ (rows = <<>> <=> Len(rows) = 0)
    BY EmptySeq
  <2> QED  BY <2>1, Zenon
<1>6. InLineOrGone(rows, start) /\ IF rows = <<>> THEN top <= first
                                   ELSE start = first /\ start + n = top
  BY <1>3, <1>4, <1>5 DEF Chained
<1>7. first <= row /\ row <= last
  BY <1>3
<1> DEFINE cell == YankCell(Layout, y, row)
           i == row - start + 1
<1>8. cell = (IF row < archived THEN IF i \in DOMAIN rows THEN rows[i] ELSE Blank
              ELSE IF row < f THEN Blank
              ELSE IF row < f + h THEN HotRow(row - f) ELSE row)
  BY <1>1, <1>2, <1>3, <1>4 DEF YankCell
<1>9. CASE row < archived
  <2>1. cell = IF i \in DOMAIN rows THEN rows[i] ELSE Blank
    BY <1>8, <1>9
  <2>2. CASE row < top
    <3>1. start = first /\ start + n = top
      BY <1>6, <1>7, <2>2
    <3>2. i \in 1 .. n /\ start + i - 1 = row
      BY <1>7, <2>2, <3>1
    <3>3. rows[i] = start + i - 1 \/ (rows[i] = Blank /\ Gone(start + i - 1))
      BY <1>5, <1>6, <3>2 DEF InLineOrGone
    <3>4. cell = rows[i] /\ rows[i] \in Cells
      BY <1>5, <2>1, <3>2
    <3> QED  BY <3>2, <3>3, <3>4 DEF CellFits
  <2>3. CASE ~ row < top
    <3>1. kind = "topped"
      <4>1. SUFFICES ASSUME kind = "yank" PROVE FALSE
        OBVIOUS
      <4>2. ~ Greater(top, first) < Lesser(archived, last + 1)
        BY <1>2, <1>3, <4>1 DEF NeedsArchive, TopUp
      <4>3. CASE top < first
        BY <1>7, <1>9, <2>3, <4>2, <4>3 DEF Greater, Lesser
      <4>4. CASE ~ top < first
        BY <1>7, <1>9, <2>3, <4>2, <4>4 DEF Greater, Lesser
      <4> QED  BY <4>3, <4>4
    <3>2. row \in top .. archived - 1
      BY <1>9, <2>3
    <3>3. row \in MovedLate(Layout, y)
      BY <1>2, <1>3, <3>1, <3>2 DEF MovedLate
    <3>4. i \notin DOMAIN rows
      <4>1. CASE rows = <<>>
        BY <1>5, <4>1
      <4>2. CASE rows # <<>>
        <5>1. start + n = top
          BY <1>6, <4>2
        <5>2. i \notin 1 .. n
          BY <2>3, <5>1
        <5> QED  BY <1>5, <5>2
      <4> QED  BY <4>1, <4>2
    <3> QED  BY <2>1, <3>3, <3>4 DEF Cells
  <2> QED  BY <2>2, <2>3
<1>10. CASE ~ row < archived /\ row < f
  <2>1. cell = Blank
    BY <1>8, <1>10
  <2>2. ~ attached /\ row \in 0 .. f - 1
    BY <1>2, <1>10
  <2> QED  BY <1>1, <2>1, <2>2 DEF CellFits, Cells
<1>11. CASE ~ row < archived /\ ~ row < f /\ row < f + h
  <2>1. cell = HotRow(row - f)
    BY <1>8, <1>11
  <2>2. row - f \in 0 .. h - 1 /\ f + (row - f) = row
    BY <1>11
  <2>3. HotRow(row - f) = row
    BY <1>1, <2>2
  <2> QED  BY <2>1, <2>3 DEF CellFits, Cells
<1>12. CASE ~ row < archived /\ ~ row < f /\ ~ row < f + h
  <2>1. cell = row
    BY <1>8, <1>12
  <2> QED  BY <2>1 DEF CellFits, Cells
<1> QED  BY <1>9, <1>10, <1>11, <1>12

LEMMA DeliversYank ==
  ASSUME IInv, NEW r \in Readers, read[r] \notin {"waiting", "failed"}, NEW y \in Yanks,
         Chained(y), y.kind = "yank" => ~ NeedsArchive(TopUp(Layout, y)),
         DeliverYank(r, y), UNCHANGED paneVars
  PROVE  IInv'
<1>1. Typed /\ ArchiveInv /\ AnswersFit
  BY DEF IInv
<1>2. PICK first \in Nat, last \in Nat : first = y.first /\ last = y.last
  BY DEF Yanks
<1>3. PICK n \in Nat : n = (IF last < first THEN 0 ELSE last - first + 1)
  BY <1>2
<1>4. 1 .. last - first + 1 = 1 .. n
  BY <1>3
<1> DEFINE text == CollectYankText(Layout, y)
<1>5. text = [k \in 1 .. n |-> YankCell(Layout, y, first + k - 1)]
  BY <1>2, <1>4 DEF CollectYankText, YankCell
<1>6. ASSUME NEW k \in 1 .. n
      PROVE  /\ YankCell(Layout, y, first + k - 1) \in Cells
             /\ \/ CellFits(YankCell(Layout, y, first + k - 1), first + k - 1)
                \/ /\ YankCell(Layout, y, first + k - 1) = Blank
                   /\ first + k - 1 \in MovedLate(Layout, y)
  <2>1. PICK row \in Nat : row = first + k - 1 /\ first <= row /\ row <= last
    BY <1>3
  <2>2. y.first <= row /\ row <= y.last
    BY <1>2, <2>1
  <2>3. /\ YankCell(Layout, y, row) \in Cells
        /\ \/ CellFits(YankCell(Layout, y, row), row)
           \/ YankCell(Layout, y, row) = Blank /\ row \in MovedLate(Layout, y)
    BY <1>1, <2>2, YankCells
  <2> QED  BY <2>1, <2>3
<1>7. text \in [1 .. n -> Cells]
  BY <1>5, <1>6
<1>8. \A k \in 1 .. n :
        \/ CellFits(text[k], first + k - 1)
        \/ text[k] = Blank /\ first + k - 1 \in MovedLate(Layout, y)
  BY <1>5, <1>6
<1> HIDE DEF text
<1>9. text \in Seq(Cells) /\ DOMAIN text = 1 .. n
  BY <1>7, MadeRows
<1>10. Deliver(first, text, MovedLate(Layout, y)) /\ Finish(r, "answered")
  BY <1>2 DEF DeliverYank, text
<1>11. GoneStays => AnswersFit'
  BY <1>1, <1>8, <1>9, <1>10, Delivers
<1>12. Requested(r)
  BY <1>1, <1>10, Finishes
<1> QED  BY <1>11, <1>12, RequestKeeps

\* A read that ends with nothing answered, or goes to the archive.
LEMMA Undelivered ==
  ASSUME IInv, NEW r \in Readers, read[r] \notin {"waiting", "failed"}, Requested(r),
         UNCHANGED <<served, blank>>
  PROVE  IInv'
<1>1. AnswersFit
  BY DEF IInv
<1>2. GoneStays => AnswersFit'
  BY <1>1, AnswersStay
<1> QED  BY <1>2, RequestKeeps

LEMMA ContinuesYank ==
  ASSUME IInv, NEW r \in Readers, read[r] \notin {"waiting", "failed"}, NEW y \in Yanks,
         Chained(y), y.kind = "yank", ContinueYank(r, y), UNCHANGED paneVars
  PROVE  IInv'
<1>1. Typed /\ ArchiveInv
  BY DEF IInv
<1>2. PICK w : w = TopUp(Layout, y)
  OBVIOUS
<1>3. CASE ~ NeedsArchive(w)
  <2>1. DeliverYank(r, y)
    BY <1>2, <1>3 DEF ContinueYank
  <2> QED  BY <1>2, <1>3, <2>1, DeliversYank
<1>4. CASE NeedsArchive(w)
  <2>1. /\ UNCHANGED <<served, blank>>
        /\ \/ Finish(r, "failed")
           \/ StartRead(r, w) /\ plan' = [plan EXCEPT ![r] = [y EXCEPT !.kind = "topped"]]
    BY <1>2, <1>4 DEF ContinueYank
  <2>2. CASE Finish(r, "failed")
    <3>1. Requested(r)
      BY <1>1, <2>2, Finishes
    <3> QED  BY <2>1, <3>1, Undelivered
  <2>3. CASE StartRead(r, w) /\ plan' = [plan EXCEPT ![r] = [y EXCEPT !.kind = "topped"]]
    <3>1. PICK z \in Yanks :
            /\ z = [y EXCEPT !.kind = "topped"] /\ z.kind = "topped" /\ z.first = y.first
            /\ z.start = y.start /\ z.rows = y.rows /\ z.top = y.top
      <4> DEFINE z == [y EXCEPT !.kind = "topped"]
      <4>1. /\ z \in Yanks /\ z.kind = "topped" /\ z.first = y.first
            /\ z.start = y.start /\ z.rows = y.rows /\ z.top = y.top
        BY DEF Yanks
      <4> QED  BY <4>1
    <3>2. Chained(z)
      BY <3>1 DEF Chained
    <3>3. PICK archived \in Nat : archived = Layout.archived /\ archived = received
      <4>1. PICK f \in Nat : /\ Layout.archived = (IF attached THEN f ELSE 0)
                             /\ received = (IF attached THEN f ELSE 0)
        BY <1>1, Layouts
      <4> QED  BY <4>1
    <3>4. PICK first \in Nat, last \in Nat, top \in Nat :
            first = y.first /\ last = y.last /\ top = y.top
      BY DEF Yanks
    <3>5. w = [lo |-> Greater(top, first), hi |-> Lesser(archived, last + 1)]
      BY <1>2, <3>3, <3>4 DEF TopUp
    <3>6. /\ Greater(top, first) \in Nat /\ Lesser(archived, last + 1) \in Nat
          /\ Lesser(archived, last + 1) <= archived
      BY DEF Greater, Lesser
    <3>7. w \in Windows /\ w.lo = Greater(top, first) /\ w.hi <= received
      BY <3>3, <3>5, <3>6 DEF Windows
    <3>8. w.lo < w.hi
      BY <1>4 DEF NeedsArchive
    <3>9. YankFits(z, w)
      BY <3>1, <3>2, <3>4, <3>7, <3>8 DEF YankFits
    <3>10. z \notin Pages
      BY <3>1 DEF Pages
    <3>11. PlanFits(z, w)
      BY <3>7, <3>9, <3>10 DEF PlanFits
    <3>12. plan' = [plan EXCEPT ![r] = z]
      BY <2>3, <3>1
    <3>13. Requested(r)
      BY <1>1, <2>3, <3>7, <3>11, <3>12, Starts
    <3> QED  BY <2>1, <3>13, Undelivered
  <2> QED  BY <2>1, <2>2, <2>3
<1> QED  BY <1>3, <1>4

LEMMA ResumesYank ==
  ASSUME IInv, NEW r \in Readers, ResumeYank(r)
  PROVE  IInv'
<1>1. /\ Typed /\ read[r] = "replied" /\ plan[r].kind \in {"yank", "topped"}
      /\ UNCHANGED paneVars /\ Fit(r)
  BY DEF IInv, ReadsFit, ResumeYank
<1>2. PICK w \in Windows, rows \in SUBSET (Nat \X Nat) : w = window[r] /\ rows = reply[r]
  BY <1>1 DEF Typed
<1>3. Truthful(rows, w) /\ PlanFits(plan[r], w)
  BY <1>1, <1>2 DEF Fit
<1>4. PICK y \in Yanks : y = plan[r] /\ YankFits(y, w)
  <2>1. plan[r] \in Yanks
    BY <1>1, <1>3 DEF PlanFits, Pages
  <2> QED  BY <1>3, <2>1 DEF PlanFits
<1>5. PICK z \in Yanks : z = Extended(y, w, Aligned(rows, w)) /\ Chained(z) /\ z.kind = y.kind
  BY <1>2, <1>3, <1>4, Extends
<1>6. \/ Finish(r, "failed") /\ UNCHANGED <<served, blank>>
      \/ z.kind = "yank" /\ ContinueYank(r, z)
      \/ z.kind # "yank" /\ DeliverYank(r, z)
  BY <1>2, <1>4, <1>5 DEF ResumeYank
<1>7. CASE Finish(r, "failed") /\ UNCHANGED <<served, blank>>
  <2>1. Requested(r)
    BY <1>1, <1>7, Finishes
  <2> QED  BY <1>1, <1>7, <2>1, Undelivered
<1>8. CASE z.kind = "yank" /\ ContinueYank(r, z)
  BY <1>1, <1>5, <1>8, ContinuesYank
<1>9. CASE z.kind # "yank" /\ DeliverYank(r, z)
  BY <1>1, <1>5, <1>9, DeliversYank
<1> QED  BY <1>6, <1>7, <1>8, <1>9

LEMMA YanksSelection ==
  ASSUME IInv, NEW r \in Readers, NEW base \in 0 .. pushed, NEW start_row \in Int,
         NEW end_row \in Int, YankSelection(r, base, start_row, end_row)
  PROVE  IInv'
<1> DEFINE p == PlanYank(base, start_row, end_row)
           w == [lo |-> Lesser(p.first, Layout.archived),
                 hi |-> Lesser(p.last + 1, Layout.archived)]
           y == [kind |-> "yank", first |-> p.first, last |-> p.last,
                 start |-> w.lo, rows |-> <<>>, top |-> w.hi]
<1>1. /\ Typed /\ ArchiveInv /\ read[r] = "idle" /\ UNCHANGED paneVars /\ Fit(r)
      /\ UNCHANGED <<served, blank>>
  BY DEF IInv, ReadsFit, YankSelection
<1>2. \/ Finish(r, "answered") \/ Finish(r, "failed")
      \/ /\ ~ p.first > p.last /\ ((StartRead(r, w) /\ NeedsArchive(w))
                                    \/ (SkipRead(r, w) /\ ~ NeedsArchive(w)))
         /\ plan' = [plan EXCEPT ![r] = y]
  <2>1. IF p.first > p.last THEN Finish(r, "answered")
        ELSE IF p.last - p.first + 1 > MaxYank THEN Finish(r, "failed")
        ELSE IF ~ NeedsArchive(w)
        THEN SkipRead(r, w) /\ plan' = [plan EXCEPT ![r] = y]
        ELSE IF manager = "none" THEN Finish(r, "failed")
        ELSE StartRead(r, w) /\ plan' = [plan EXCEPT ![r] = y]
    BY DEF YankSelection
  <2> HIDE DEF p, w, y
  <2> QED  BY <2>1
<1>3. PICK archived \in Nat : archived = Layout.archived /\ archived = received
  <2>1. PICK f \in Nat : /\ Layout.archived = (IF attached THEN f ELSE 0)
                         /\ received = (IF attached THEN f ELSE 0)
    BY <1>1, Layouts
  <2> QED  BY <2>1
<1>4. PICK first \in Nat, last \in Nat : first = p.first /\ last = p.last
  <2>1. pushed \in Nat /\ base \in Int /\ GridRows \in Nat \ {0}
    BY <1>1, ScrollbackAssumption DEF Typed
  <2>2. PICK a \in Nat, b \in Nat : a = Greater(base + start_row, 0) /\ b = Greater(base + end_row, 0)
    BY <2>1 DEF Greater
  <2>3. Lesser(a, b) \in Nat /\ Lesser(Greater(a, b), pushed + GridRows - 1) \in Nat
    BY <2>1 DEF Greater, Lesser
  <2> QED  BY <2>2, <2>3 DEF PlanYank
<1> HIDE DEF p
<1>5. PICK lo \in Nat, hi \in Nat :
        lo = Lesser(first, archived) /\ hi = Lesser(last + 1, archived) /\ hi <= archived
  BY DEF Lesser
<1>6. w = [lo |-> lo, hi |-> hi]
  BY <1>3, <1>4, <1>5
<1>7. w \in Windows /\ w.lo = lo /\ w.hi = hi
  BY <1>6 DEF Windows
<1>8. y = [kind |-> "yank", first |-> first, last |-> last, start |-> lo, rows |-> <<>>, top |-> hi]
  BY <1>4, <1>7
<1>9. y \in Yanks /\ y.kind = "yank" /\ y.first = first /\ y.rows = <<>>
  <2>1. <<>> \in Seq(Cells)
    BY EmptySeq
  <2> QED  BY <1>8, <2>1 DEF Yanks
<1> HIDE DEF w, y
<1>10. CASE Finish(r, "answered") \/ Finish(r, "failed")
  <2>1. Requested(r)
    BY <1>1, <1>10, Finishes
  <2> QED  BY <1>1, <2>1, Undelivered
<1>11. CASE /\ ~ p.first > p.last /\ ((StartRead(r, w) /\ NeedsArchive(w))
                                       \/ (SkipRead(r, w) /\ ~ NeedsArchive(w)))
            /\ plan' = [plan EXCEPT ![r] = y]
  <2>1. first <= last
    BY <1>4, <1>11
  <2>2. (lo < hi => lo = first) /\ (~ lo < hi => hi <= first /\ hi <= lo)
    BY <1>5, <2>1 DEF Lesser
  <2>3. YankFits(y, w)
    BY <1>7, <1>9, <2>2 DEF YankFits
  <2>4. y \notin Pages
    BY <1>9 DEF Pages
  <2>5. w.hi <= received
    BY <1>3, <1>5, <1>7
  <2>6. PlanFits(y, w)
    BY <1>9, <2>3, <2>4, <2>5 DEF PlanFits
  <2>7. reply[r] = {}
    BY <1>1 DEF Fit
  <2>8. ~ NeedsArchive(w) => w.hi <= w.lo
    BY <1>7, <2>2 DEF NeedsArchive
  <2>9. Requested(r)
    BY <1>1, <1>7, <1>11, <2>6, <2>7, <2>8, Starts
  <2> QED  BY <1>1, <2>9, Undelivered
<1> QED  BY <1>2, <1>10, <1>11

-----------------------------------------------------------------------------
\* The invariant, from the start on.

LEMMA NewCoreIsSound == Sound(NewCore) /\ End(NewCore) = 0 /\ Counted(NewCore) = 0
<1> DEFINE c == NewCore
<1>1. /\ c.base = 0 /\ c.segments = <<>> /\ c.active = <<>> /\ c.pending = <<>>
      /\ c.lost = 0 /\ c.evicted = 0
  BY DEF NewCore
<1>2. <<>> \in Seq(Segments) /\ <<>> \in Seq(Nat)
  OBVIOUS
<1>3. c \in Cores
  BY <1>2 DEF NewCore, Cores
<1> HIDE DEF c
<1>4. Len(<<>>) = 0 /\ DiskRows(<<>>) = 0 /\ Filed(<<>>, 0)
  BY NoSegments
<1>5. InLine(<<>>, 0) /\ InLine(<<>>, 0 + Len(<<>>))
  BY DEF InLine
<1>6. Sound(c)
  BY <1>1, <1>3, <1>4, <1>5 DEF Sound
<1>7. End(c) = 0 /\ Counted(c) = 0
  BY <1>1, <1>4 DEF End, Counted
<1> QED  BY <1>6, <1>7 DEF c

LEMMA Begins ==
  ASSUME Init
  PROVE  IInv
<1>1. /\ attached \in BOOLEAN /\ received = 0 /\ dropped = 0 /\ pendingGap = 0
      /\ manager = (IF attached THEN "open" ELSE "none") /\ mailbox = <<>>
      /\ writer = (IF attached THEN "running" ELSE "exited") /\ core = NewCore
      /\ read = [r \in Readers |-> "idle"] /\ window = [r \in Readers |-> NoWindow]
      /\ reply = [r \in Readers |-> {}] /\ pushed = 0 /\ hot = <<>>
      /\ plan = [r \in Readers |-> None] /\ served = {} /\ blank = {}
  BY DEF Init, ArchiveInit
<1>2. <<>> \in Seq(MailboxMessages) /\ <<>> \in Seq(Nat) /\ Len(<<>>) = 0 /\ DOMAIN <<>> = {}
  OBVIOUS
<1>3. Typed
  <2>1. window \in [Readers -> Windows]
    BY <1>1 DEF NoWindow, Windows
  <2>2. read \in [Readers -> {"idle", "planned", "waiting", "replied", "answered", "failed"}]
        /\ reply \in [Readers -> SUBSET (Nat \X Nat)] /\ DOMAIN plan = Readers
    BY <1>1
  <2>3. manager \in {"open", "closing", "none"} /\ writer \in {"running", "exited", "dead"}
    BY <1>1
  <2> QED  BY <1>1, <1>2, <2>1, <2>2, <2>3 DEF Typed
<1>4. Placed
  <2> DEFINE at == [i \in 1 .. 1 |-> 0]
  <2>1. Len(mailbox) + 1 = 1 /\ DOMAIN mailbox = {}
    BY <1>1, <1>2
  <2>2. at \in [1 .. Len(mailbox) + 1 -> Nat] /\ at[1] = 0 /\ at[Len(mailbox) + 1] = 0
    BY <2>1
  <2>3. InPlace(mailbox, at)
    <3>1. \A i, j \in 1 .. Len(mailbox) + 1 : i <= j => at[i] <= at[j]
      BY <2>1
    <3> QED  BY <2>1, <3>1 DEF InPlace
  <2> HIDE DEF at
  <2>4. at[Len(mailbox) + 1] + pendingGap = received
    BY <1>1, <2>2
  <2>5. PlacedAt(at)
    BY <1>1, <2>2, <2>3, <2>4, NewCoreIsSound DEF PlacedAt
  <2> QED  BY <2>5 DEF Placed
<1>5. Tiers
  <2>1. Len(hot) = 0 /\ pushed - Len(hot) = 0 /\ InLine(hot, pushed - Len(hot))
    <3>1. Len(hot) = 0 /\ pushed = 0 /\ DOMAIN hot = {}
      BY <1>1, <1>2, Zenon
    <3> QED  BY <3>1 DEF InLine
  <2> QED  BY <1>1, <2>1 DEF Tiers
<1>6. Queued = {}
  BY <1>1 DEF Queued
<1>7. Books
  <2>1. Cardinality(Queued) = 0
    BY <1>6, FS_EmptySet
  <2> QED  BY <1>1, <2>1, NewCoreIsSound DEF Books
<1>8. ArchiveInv
  BY <1>1, <1>4, <1>5, <1>7, NewCoreIsSound DEF ArchiveInv, Rested, NewCore
<1>9. ReadsPosted
  BY <1>1 DEF ReadsPosted
<1>10. ReadsFit
  BY <1>1 DEF ReadsFit, Fit
<1>11. AnswersFit
  BY <1>1 DEF AnswersFit, ReadsAreAligned
<1> QED  BY <1>3, <1>8, <1>9, <1>10, <1>11 DEF IInv

LEMMA Requests ==
  ASSUME IInv, NEW r \in Readers, Request(r)
  PROVE  IInv'
<1>1. MaxRows \in Nat /\ GridRows \in Nat /\ MaxPage \in Nat
  BY ScrollbackAssumption
<1>2. Offsets \subseteq Int /\ 0 .. MaxPage + 1 \subseteq Nat /\ Bases = 0 .. pushed
  BY <1>1 DEF Offsets, Bases
<1>3. CASE \E base \in Bases, start_row \in Offsets, count \in 0 .. MaxPage + 1 :
             GetScrollback(r, base, start_row, count)
  <2>1. PICK base \in Bases, start_row \in Offsets, count \in 0 .. MaxPage + 1 :
          GetScrollback(r, base, start_row, count)
    BY <1>3
  <2>2. base \in 0 .. pushed /\ start_row \in Int /\ count \in Nat
    BY <1>2
  <2> QED  BY <2>1, <2>2, GetsScrollback
<1>4. CASE \E base \in Bases, start_row, end_row \in Offsets :
             YankSelection(r, base, start_row, end_row)
  <2>1. PICK base \in Bases, start_row \in Offsets, end_row \in Offsets :
          YankSelection(r, base, start_row, end_row)
    BY <1>4
  <2>2. base \in 0 .. pushed /\ start_row \in Int /\ end_row \in Int
    BY <1>2
  <2> QED  BY <2>1, <2>2, YanksSelection
<1> QED  BY <1>3, <1>4, AssemblesPage, ResumesYank DEF Request

LEMMA Stutters ==
  ASSUME IInv, UNCHANGED vars
  PROVE  IInv'
<1>1. /\ UNCHANGED <<received, dropped, pendingGap, manager, mailbox, writer, core>>
      /\ UNCHANGED <<attached, pushed, hot>>
      /\ UNCHANGED <<read, window, reply, plan, served, blank>> /\ UNCHANGED facadeVars
  BY DEF vars, archiveVars, facadeVars, readVars, paneVars, answerVars
<1>2. Typed /\ ArchiveInv /\ ReadsPosted /\ ReadsFit /\ AnswersFit
  BY DEF IInv
<1>3. Typed'
  BY <1>1, <1>2 DEF Typed
<1>4. ArchiveInv' /\ GoneStays
  BY <1>1, <1>2, Untouched
<1>5. ReadsPosted'
  BY <1>1, <1>2 DEF ReadsPosted
<1>6. AnswersFit'
  BY <1>1, <1>2, <1>4, AnswersStay
<1>7. received \in Nat /\ received' \in Nat /\ received <= received'
      /\ window \in [Readers -> Windows]
  BY <1>1, <1>2 DEF Typed
<1>8. ReadsFit'
  BY <1>1, <1>2, <1>4, <1>7, FitStays DEF ReadsFit
<1> QED  BY <1>3, <1>4, <1>5, <1>6, <1>8 DEF IInv

LEMMA Steps == IInv /\ [Next]_vars => IInv'
<1>1. ASSUME IInv, Next PROVE IInv'
  BY <1>1, ArchiveSteps, PaneSteps, Requests DEF Next
<1> QED  BY <1>1, Stutters

\* What the core has, what is on its way, and what is counted as gone make up
\* the rows received.
LEMMA Counts == IInv => LossesCounted
<1>1. SUFFICES ASSUME IInv, writer = "running", manager = "open"
               PROVE  received = dropped + core.lost + core.evicted
                                   + Cardinality(Kept(core) \cup Queued)
  BY DEF LossesCounted
<1>2. Typed /\ Sound(core) /\ Placed /\ Books
  BY <1>1 DEF IInv, ArchiveInv
<1>3. PICK at : PlacedAt(at)
  BY <1>1, <1>2 DEF Placed
<1>4. mailbox \in Seq(MailboxMessages) /\ at \in [1 .. Len(mailbox) + 1 -> Nat]
      /\ InPlace(mailbox, at) /\ at[1] = End(core)
  BY <1>2, <1>3 DEF Typed, PlacedAt
<1>5. /\ \A x \in Queued : x \in Nat /\ x >= End(core)
      /\ IsFiniteSet(Queued) /\ Cardinality(Queued) \in Nat
  <2>1. /\ \A x \in QueuedIn(mailbox) : x \in Nat /\ at[1] <= x
        /\ IsFiniteSet(QueuedIn(mailbox)) /\ Cardinality(QueuedIn(mailbox)) \in Nat
    BY <1>4, QueuedWithin
  <2>2. End(core) \in Nat
    BY <1>2, EndsNat DEF Sound
  <2>3. at[1] = End(core)
    BY <1>4
  <2> QED  BY <2>1, <2>2, <2>3, QueuedRows
<1>6. PICK e \in Nat : e = End(core)
  BY <1>2, EndsNat DEF Sound
<1>7. /\ IsFiniteSet(Kept(core)) /\ \A x \in Kept(core) : x \in Nat /\ x < e
      /\ Cardinality(Kept(core)) = DiskRows(core.segments) + Len(core.active) + Len(core.pending)
  BY <1>2, <1>6, KeptCount
<1>8. Cardinality(Kept(core) \cup Queued) = Cardinality(Kept(core)) + Cardinality(Queued)
  BY <1>5, <1>6, <1>7, RowsBehind
<1>9. received = dropped + Counted(core) + Cardinality(Queued)
  BY <1>1, <1>2 DEF Books
<1>10. PICK lost \in Nat, evicted \in Nat, disk \in Nat, a \in Nat, p \in Nat, q \in Nat :
         /\ lost = core.lost /\ evicted = core.evicted /\ disk = DiskRows(core.segments)
         /\ a = Len(core.active) /\ p = Len(core.pending) /\ q = Cardinality(Queued)
  BY <1>2, <1>5, CoreFields
<1>11. PICK d \in Nat : d = dropped
  BY <1>2 DEF Typed
<1>12. received = d + (lost + evicted + disk + a + p) + q
  BY <1>9, <1>10, <1>11 DEF Counted
<1>13. Cardinality(Kept(core) \cup Queued) = disk + a + p + q
  BY <1>7, <1>8, <1>10
<1>14. received = d + lost + evicted + (disk + a + p + q)
  BY <1>12
<1> QED  BY <1>10, <1>11, <1>13, <1>14

\* A row that is gone is in no tier.
LEMMA Reads == IInv => ReadsAreTrue
<1>1. SUFFICES ASSUME IInv PROVE ReadsAreTrue
  OBVIOUS
<1>2. ReadsAreAligned /\ \A i \in blank : i \notin Held
  BY <1>1 DEF IInv, AnswersFit, Gone
<1>3. Held = Kept(core) \cup Queued \cup {hot[i] : i \in DOMAIN hot}
  BY DEF Held, RowsOf
<1>4. BlankIsGone
  BY <1>2, <1>3 DEF BlankIsGone
<1> QED  BY <1>2, <1>4 DEF ReadsAreTrue

-----------------------------------------------------------------------------
\* Rows are in line in every tier and on their way between them, the books of
\* the archive balance, and what a reader has planned or been answered fits
\* the window it asked for, in every state of the pane, its archive and its
\* requests.
THEOREM Standing == Spec => []IInv
<1>1. Init => IInv
  BY Begins
<1> QED  BY <1>1, Steps, PTL DEF Spec

\* Every row the archive is handed while it is open is stored, on its way,
\* deleted for the disk cap or counted as lost (ArchiveManager::archive_rows,
\* ArchiveCore): whichever of its writes fail, for any mailbox, frame and disk.
THEOREM Accounted == Spec => []LossesCounted
<1>1. Init => IInv
  BY Begins
<1> QED  BY <1>1, Steps, Counts, PTL DEF Spec

\* No page and no yank is answered with another row than the one asked for,
\* and what one leaves blank is in no tier (plan_scrollback_read,
\* align_archive_rows, resolve_yank, collect_yank_text), whichever rows move
\* down a tier, are lost or are evicted while it waits for the archive.  Only
\* rows that cross into the archive behind a yank's second read are excused.
THEOREM Truth == Spec => []ReadsAreTrue
<1>1. Init => IInv
  BY Begins
<1> QED  BY <1>1, Steps, Reads, PTL DEF Spec

-----------------------------------------------------------------------------
\* Searches.

\* An engine's matches are rows that matched when it ran, and it is at one of
\* them or at none.
EngineFits(e) ==
    /\ e \in [matches : Seq(Nat), active : Nat, prunedThen : Nat]
    /\ e.active <= Len(e.matches)
    /\ \A i \in DOMAIN e.matches : e.prunedThen + e.matches[i] \in Matching

SearchInv == (engine = None \/ EngineFits(engine)) /\ SearchAnswersFit

LEMMA LeastIndex ==
  ASSUME NEW S \in SUBSET Nat, S # {}
  PROVE  \E n \in S : \A m \in S : n <= m
<1>1. PICK n \in S : \A m \in S : ~ (<<m, n>> \in OpToRel(<, Nat))
  BY NatLessThanWellFounded, WFMin
<1>2. \A m \in S : ~ m < n
  <2>1. OpToRel(<, Nat) = {p \in Nat \X Nat : p[1] < p[2]}
    BY DEF OpToRel
  <2>2. \A m \in S : m < n => <<m, n>> \in {p \in Nat \X Nat : p[1] < p[2]}
    OBVIOUS
  <2> QED  BY <1>1, <2>1, <2>2
<1> QED  BY <1>2

LEMMA GreatestIndex ==
  ASSUME NEW n \in Nat, NEW S \in SUBSET (0 .. n), S # {}
  PROVE  \E g \in S : \A m \in S : m <= g
<1> DEFINE T == {m \in 0 .. n : n - m \in S}
<1>1. T \in SUBSET Nat /\ T # {}
  <2>1. PICK s \in S : TRUE
    OBVIOUS
  <2>2. n - s \in 0 .. n /\ n - (n - s) = s
    BY <2>1
  <2> QED  BY <2>1, <2>2
<1>2. PICK l \in T : \A m \in T : l <= m
  BY <1>1, LeastIndex
<1>3. \A m \in S : n - m \in T
  <2>1. \A m \in S : n - m \in 0 .. n /\ n - (n - m) = m
    OBVIOUS
  <2> QED  BY <2>1
<1>4. \A m \in S : l <= n - m
  BY <1>2, <1>3
<1>5. \A m \in S : m <= n - l
  BY <1>2, <1>4
<1> QED  BY <1>2, <1>5

\* What Max and Min choose.
LEMMA MaxIs ==
  ASSUME NEW n \in Nat, NEW S \in SUBSET (0 .. n), S # {}
  PROVE  Max(S) \in S /\ \A m \in S : m <= Max(S)
<1>1. \E g \in S : \A m \in S : g >= m
  BY GreatestIndex
<1> QED  BY <1>1 DEF Max

LEMMA MinIs ==
  ASSUME NEW S \in SUBSET Nat, S # {}
  PROVE  Min(S) \in S /\ \A m \in S : Min(S) <= m
<1>1. \E g \in S : \A m \in S : g =< m
  BY LeastIndex
<1> QED  BY <1>1 DEF Min

\* There are as many indices as Nth is asked for.
LEMMA NthIs ==
  ASSUME NEW n \in Nat, NEW S \in SUBSET (0 .. n), NEW k \in 1 .. Cardinality(S)
  PROVE  Nth(S, k) \in S
<1> DEFINE Below(i) == {j \in S : j < i}
<1>1. IsFiniteSet(S) /\ Cardinality(S) \in Nat
  <2>1. IsFiniteSet(0 .. n)
    BY FS_Interval
  <2> QED  BY <2>1, FS_Subset, FS_CardinalityType
<1>2. \A i : IsFiniteSet(Below(i)) /\ Cardinality(Below(i)) \in Nat
  <2> TAKE i
  <2>1. Below(i) \subseteq S
    OBVIOUS
  <2> QED  BY <1>1, <2>1, FS_Subset, FS_CardinalityType
<1>3. S # {}
  BY FS_EmptySet
<1> DEFINE Enough == {i \in S : k - 1 <= Cardinality(Below(i))}
<1>4. Enough # {}
  <2>1. PICK g \in S : \A m \in S : m <= g
    BY <1>3, GreatestIndex
  <2>2. Below(g) = S \ {g}
    <3>1. \A m \in S : m < g <=> m # g
      BY <2>1
    <3> QED  BY <3>1
  <2>3. Cardinality(S \ {g}) = Cardinality(S) - 1
    BY <1>1, FS_RemoveElement
  <2>4. k - 1 <= Cardinality(Below(g))
    BY <1>1, <2>2, <2>3
  <2> QED  BY <2>4
<1>5. PICK i \in Enough : \A m \in Enough : i <= m
  <2>1. Enough \in SUBSET Nat
    <3>1. Enough \subseteq S /\ S \subseteq 0 .. n
      OBVIOUS
    <3> HIDE DEF Enough
    <3> QED  BY <3>1
  <2> QED  BY <1>4, <2>1, LeastIndex
<1>6. Cardinality(Below(i)) = k - 1
  <2> SUFFICES ASSUME Cardinality(Below(i)) # k - 1 PROVE FALSE
    OBVIOUS
  <2>1. PICK c \in Nat : c = Cardinality(Below(i)) /\ k - 1 <= c /\ c # k - 1
    BY <1>2, <1>5
  <2>2. k \in Nat /\ k <= c
    BY <1>1, <2>1
  <2>3. Below(i) # {}
    BY <2>1, <2>2, FS_EmptySet
  <2>4. Below(i) \in SUBSET (0 .. n)
    OBVIOUS
  <2>5. PICK g \in Below(i) : \A m \in Below(i) : m <= g
    BY <2>3, <2>4, GreatestIndex
  <2>6. Below(g) = Below(i) \ {g}
    <3>1. \A m \in Below(i) : m < g <=> m # g
      BY <2>5
    <3>2. \A m \in S : m < g => m < i
      BY <2>5
    <3> QED  BY <3>1, <3>2
  <2>7. Cardinality(Below(i) \ {g}) = Cardinality(Below(i)) - 1
    <3>1. IsFiniteSet(Below(i)) /\ g \in Below(i)
      BY <1>2, <2>5
    <3> HIDE DEF Below
    <3> QED  BY <3>1, FS_RemoveElement
  <2>8. k - 1 <= Cardinality(Below(g))
    BY <2>1, <2>2, <2>6, <2>7
  <2>9. g \in Enough
    BY <2>8
  <2>10. i <= g /\ g < i /\ i \in Nat /\ g \in Nat
    BY <1>5, <2>9
  <2> QED  BY <2>10
<1>7. i \in S
  BY <1>5
<1> QED  BY <1>6, <1>7 DEF Nth

\* A search leaves an engine that fits.
LEMMA EnginesFit ==
  ASSUME IInv
  PROVE  EngineFits(EngineOn(hot))
<1>1. PICK n \in Nat, first \in Nat :
        /\ n = Len(hot) /\ first = pushed - Len(hot) /\ DOMAIN hot = 1 .. n
        /\ \A i \in 1 .. n : hot[i] = first + i - 1
  <2>1. /\ Len(hot) <= pushed /\ InLine(hot, pushed - Len(hot))
        /\ hot \in Seq(Nat) /\ pushed \in Nat
    BY DEF IInv, ArchiveInv, Tiers, Typed
  <2>2. PICK n \in Nat, p \in Nat : n = Len(hot) /\ p = pushed
    BY <2>1
  <2>3. PICK first \in Nat : first = p - n
    BY <2>1, <2>2
  <2>4. DOMAIN hot = 1 .. n /\ \A i \in 1 .. n : hot[i] = first + i - 1
    BY <2>1, <2>2, <2>3 DEF InLine
  <2> QED  BY <2>2, <2>3, <2>4
<1> DEFINE hits == {i \in 0 .. Len(hot) - 1 : hot[i + 1] \in Matching}
           kept == Lesser(Cardinality(hits), MaxMatches)
<1>2. hits \in SUBSET (0 .. n) /\ \A i \in hits : i \in Nat /\ first + i \in Matching
  <2>1. \A i \in hits : i \in 0 .. n - 1
    BY <1>1
  <2>2. \A i \in 0 .. n - 1 : i + 1 \in 1 .. n /\ first + (i + 1) - 1 = first + i
    OBVIOUS
  <2>3. \A i \in 0 .. n - 1 : hot[i + 1] = first + i
    BY <1>1, <2>2
  <2> QED  BY <2>1, <2>3
<1>3. Cardinality(hits) \in Nat
  <2>1. IsFiniteSet(0 .. n)
    BY FS_Interval
  <2> QED  BY <1>2, <2>1, FS_Subset, FS_CardinalityType
<1>4. kept \in Nat /\ kept <= Cardinality(hits)
  <2>1. MaxMatches \in Nat
    BY ScrollbackAssumption
  <2> QED  BY <1>3, <2>1 DEF Lesser
<1>5. \A k \in 1 .. kept : Nth(hits, k) \in hits
  <2> TAKE k \in 1 .. kept
  <2>1. k \in 1 .. Cardinality(hits)
    BY <1>3, <1>4
  <2> QED  BY <1>2, <2>1, NthIs
<1> HIDE DEF hits, kept
<1>6. PICK s : s = [k \in 1 .. kept |-> Nth(hits, k)]
  OBVIOUS
<1>7. s \in Seq(Nat) /\ Len(s) = kept /\ \A k \in DOMAIN s : s[k] \in hits
  <2>1. s \in [1 .. kept -> Nat]
    BY <1>2, <1>5, <1>6
  <2>2. \A k \in DOMAIN s : s[k] \in hits
    BY <1>5, <1>6
  <2> QED  BY <1>4, <2>1, <2>2
<1>8. EngineOn(hot) = [matches |-> s, active |-> kept, prunedThen |-> first]
  BY <1>1, <1>6 DEF EngineOn, hits, kept
<1>9. \A i \in DOMAIN s : first + s[i] \in Matching
  BY <1>2, <1>7
<1> QED  BY <1>4, <1>7, <1>8, <1>9 DEF EngineFits

\* Where k steps in a direction lead from match a of n.
Lands(n, a, forward, k) ==
    IF forward THEN IF a + k <= n THEN a + k ELSE a + k - n
    ELSE IF k < a THEN a - k ELSE a - k + n

\* One step on from match b, and a walk that comes by every match.
Onward(n, b, forward) ==
    IF forward THEN IF b \in 1 .. n - 1 THEN b + 1 ELSE 1
    ELSE IF b \in {0, 1} THEN n ELSE b - 1

GoesRound(n, a, forward) ==
    /\ Lands(n, a, forward, 0) = a
    /\ \A k \in 1 .. n :
         Lands(n, a, forward, k) = Onward(n, Lands(n, a, forward, k - 1), forward)
    /\ \A i \in 1 .. n : \E k \in 0 .. n : Lands(n, a, forward, k) = i

LEMMA LandsOn ==
  ASSUME NEW n \in Nat, n # 0, NEW a \in 1 .. n, NEW forward \in BOOLEAN
  PROVE  GoesRound(n, a, forward)
<1>1. CASE forward = TRUE
  <2>1. \A k : Lands(n, a, forward, k) = IF a + k <= n THEN a + k ELSE a + k - n
    BY <1>1 DEF Lands
  <2>2. \A i \in 1 .. n : \E k \in 0 .. n : Lands(n, a, forward, k) = i
    <3> TAKE i \in 1 .. n
    <3>1. CASE a <= i
      <4>1. i - a \in 0 .. n /\ Lands(n, a, forward, i - a) = i
        BY <2>1, <3>1
      <4> QED  BY <4>1
    <3>2. CASE i < a
      <4>1. i - a + n \in 0 .. n /\ Lands(n, a, forward, i - a + n) = i
        BY <2>1, <3>2
      <4> QED  BY <4>1
    <3> QED  BY <3>1, <3>2
  <2>3. ASSUME NEW k \in 1 .. n
        PROVE  Lands(n, a, forward, k) = Onward(n, Lands(n, a, forward, k - 1), forward)
    <3>1. PICK b \in Int, c \in Int :
            /\ b = Lands(n, a, forward, k - 1) /\ c = Lands(n, a, forward, k)
            /\ b = IF a + (k - 1) <= n THEN a + (k - 1) ELSE a + (k - 1) - n
            /\ c = IF a + k <= n THEN a + k ELSE a + k - n
      BY <2>1
    <3>2. /\ b \in 1 .. n
          /\ c = IF b \in 1 .. n - 1 THEN b + 1 ELSE 1
      <4>1. CASE a + k <= n
        BY <3>1, <4>1
      <4>2. CASE a + k = n + 1
        BY <3>1, <4>2
      <4>3. CASE a + k > n + 1
        BY <3>1, <4>3
      <4> QED  BY <4>1, <4>2, <4>3
    <3>3. c = Onward(n, b, forward)
      BY <1>1, <3>2 DEF Onward
    <3> QED  BY <3>1, <3>3
  <2>4. Lands(n, a, forward, 0) = a
    BY <2>1
  <2> QED  BY <2>2, <2>3, <2>4 DEF GoesRound
<1>2. CASE forward = FALSE
  <2>1. \A k : Lands(n, a, forward, k) = IF k < a THEN a - k ELSE a - k + n
    BY <1>2 DEF Lands
  <2>2. \A i \in 1 .. n : \E k \in 0 .. n : Lands(n, a, forward, k) = i
    <3> TAKE i \in 1 .. n
    <3>1. CASE i <= a
      <4>1. a - i \in 0 .. n /\ Lands(n, a, forward, a - i) = i
        BY <2>1, <3>1
      <4> QED  BY <4>1
    <3>2. CASE a < i
      <4>1. a - i + n \in 0 .. n /\ Lands(n, a, forward, a - i + n) = i
        BY <2>1, <3>2
      <4> QED  BY <4>1
    <3> QED  BY <3>1, <3>2
  <2>3. ASSUME NEW k \in 1 .. n
        PROVE  Lands(n, a, forward, k) = Onward(n, Lands(n, a, forward, k - 1), forward)
    <3>1. PICK b \in Int, c \in Int :
            /\ b = Lands(n, a, forward, k - 1) /\ c = Lands(n, a, forward, k)
            /\ b = IF k - 1 < a THEN a - (k - 1) ELSE a - (k - 1) + n
            /\ c = IF k < a THEN a - k ELSE a - k + n
      BY <2>1
    <3>2. b \in 1 .. n /\ c = Onward(n, b, forward)
      BY <1>2, <3>1 DEF Onward
    <3> QED  BY <3>1, <3>2
  <2>4. Lands(n, a, forward, 0) = a
    BY <2>1
  <2> QED  BY <2>2, <2>3, <2>4 DEF GoesRound
<1> QED  BY <1>1, <1>2

\* The skip walks along these, so it comes by every match.
LEMMA SkipsTo ==
  ASSUME NEW e, EngineFits(e), NEW pin, NEW forward \in BOOLEAN,
         Len(e.matches) # 0 => e.active # 0
  PROVE  LET s == SkipIneligible(e, pin, forward)
         IN  /\ EngineFits(s) /\ s.matches = e.matches
             /\ s.prunedThen = e.prunedThen
             /\ Eligible(e, pin) # {} => s.active \in Eligible(e, pin)
<1>1. PICK n \in Nat : n = Len(e.matches) /\ DOMAIN e.matches = 1 .. n
  BY DEF EngineFits
<1>2. PICK a \in 0 .. n : a = e.active /\ (n # 0 => a \in 1 .. n)
  BY <1>1 DEF EngineFits
<1> DEFINE Eq(f) == f = [k \in 0 .. n |->
                           IF k = 0 THEN a ELSE Advance(e, f[k - 1], forward)]
           at == CHOOSE f : Eq(f)
           stops == {k \in DOMAIN at : at[k] \in Eligible(e, pin)}
<1>3. SkipIneligible(e, pin, forward) =
        IF stops = {} THEN e
        ELSE [e EXCEPT !.active = at[CHOOSE k \in stops : \A m \in stops : k <= m]]
  BY <1>1, <1>2 DEF SkipIneligible
<1>4. \A b : n # 0 => Advance(e, b, forward) =
                        IF forward THEN IF b \in 1 .. n - 1 THEN b + 1 ELSE 1
                        ELSE IF b \in {0, 1} THEN n ELSE b - 1
  BY <1>1 DEF Advance
<1>5. ASSUME n # 0
       PROVE  /\ Lands(n, a, forward, 0) = a
              /\ \A k \in 1 .. n : Lands(n, a, forward, k)
                                     = Advance(e, Lands(n, a, forward, k - 1), forward)
              /\ \A i \in 1 .. n : \E k \in 0 .. n : Lands(n, a, forward, k) = i
  <2>1. a \in 1 .. n
    BY <1>2, <1>5
  <2>2. GoesRound(n, a, forward)
    BY <1>5, <2>1, LandsOn
  <2>3. \A b : Advance(e, b, forward) = Onward(n, b, forward)
    BY <1>4, <1>5 DEF Onward
  <2> QED  BY <2>2, <2>3 DEF GoesRound
<1>6. PICK walk : walk = [k \in 0 .. n |-> IF n = 0 THEN a ELSE Lands(n, a, forward, k)]
  OBVIOUS
<1>7. /\ DOMAIN walk = 0 .. n /\ walk[0] = a
      /\ \A k \in 1 .. n : walk[k] = Advance(e, walk[k - 1], forward)
  <2>1. ASSUME NEW k \in 1 .. n
        PROVE  walk[k] = Advance(e, walk[k - 1], forward)
    <3>1. n # 0 /\ k - 1 \in 0 .. n /\ k \in 0 .. n
      OBVIOUS
    <3>2. walk[k - 1] = Lands(n, a, forward, k - 1) /\ walk[k] = Lands(n, a, forward, k)
      BY <1>6, <3>1
    <3>3. Lands(n, a, forward, k) = Advance(e, Lands(n, a, forward, k - 1), forward)
      BY <1>5, <3>1
    <3> QED  BY <3>2, <3>3
  <2>2. walk[0] = a
    BY <1>5, <1>6
  <2>3. DOMAIN walk = 0 .. n
    BY <1>6
  <2> QED  BY <2>1, <2>2, <2>3
<1>8. Eq(walk)
  <2>1. walk = [k \in 0 .. n |-> walk[k]]
    BY <1>6
  <2>2. \A k \in 0 .. n : walk[k] = IF k = 0 THEN a ELSE Advance(e, walk[k - 1], forward)
    BY <1>7
  <2> QED  BY <2>1, <2>2
<1>9. Eq(at)
  BY <1>8
<1> HIDE DEF at
<1>10. /\ DOMAIN at = 0 .. n /\ at[0] = a
      /\ \A k \in 1 .. n : at[k] = Advance(e, at[k - 1], forward)
  BY <1>9
<1>11. \A k \in 0 .. n : at[k] = walk[k]
  <2> DEFINE Off == {k \in 0 .. n : at[k] # walk[k]}
  <2> SUFFICES ASSUME Off # {} PROVE FALSE
    OBVIOUS
  <2>1. Off \in SUBSET Nat
    OBVIOUS
  <2>2. PICK k \in Off : \A m \in Off : k <= m
    BY <2>1, LeastIndex
  <2>3. k \in 1 .. n
    BY <1>10, <1>7, <2>2
  <2>4. k - 1 \in 0 .. n /\ k - 1 \notin Off
    BY <2>2, <2>3
  <2>5. at[k - 1] = walk[k - 1]
    BY <2>4
  <2> QED  BY <1>10, <1>7, <2>2, <2>3, <2>5
<1>12. Eligible(e, pin) \subseteq 1 .. n
  BY <1>1 DEF Eligible
<1>13. ASSUME Eligible(e, pin) # {}
       PROVE  stops # {}
  <2>1. PICK i \in Eligible(e, pin) : i \in 1 .. n
    BY <1>12, <1>13
  <2>2. n # 0
    BY <2>1
  <2>3. PICK k \in 0 .. n : Lands(n, a, forward, k) = i
    BY <1>5, <2>1, <2>2
  <2>4. at[k] = i
    BY <1>11, <1>6, <2>2, <2>3
  <2> QED  BY <1>10, <2>1, <2>4
<1>14. CASE stops = {}
  BY <1>3, <1>13, <1>14
<1>15. CASE stops # {}
  <2>1. stops \in SUBSET Nat
    BY <1>10
  <2>2. PICK k \in stops : \A m \in stops : k <= m
    BY <1>15, <2>1, LeastIndex
  <2>3. PICK l \in stops : l = CHOOSE x \in stops : \A m \in stops : x <= m
    BY <2>2
  <2>4. PICK i : i = at[l]
    OBVIOUS
  <2>5. i \in Eligible(e, pin)
    BY <2>3, <2>4
  <2>6. SkipIneligible(e, pin, forward) = [e EXCEPT !.active = i]
    BY <1>3, <1>15, <2>3, <2>4
  <2>7. i \in 1 .. n
    BY <1>12, <2>5
  <2>8. PICK s : s = SkipIneligible(e, pin, forward)
    OBVIOUS
  <2>9. /\ s.matches = e.matches /\ s.active = i /\ s.prunedThen = e.prunedThen
        /\ s \in [matches : Seq(Nat), active : Nat, prunedThen : Nat]
    BY <2>6, <2>7, <2>8 DEF EngineFits
  <2>10. EngineFits(s)
    BY <1>1, <2>7, <2>9 DEF EngineFits
  <2> QED  BY <2>5, <2>8, <2>9, <2>10
<1> QED  BY <1>14, <1>15

\* The tiers of a pane, as numbers.
LEMMA HotInLine ==
  ASSUME IInv
  PROVE  \E n, first \in Nat :
           /\ n = Len(hot) /\ first = Layout.hotFirst /\ first + n = pushed
           /\ pushed \in Nat
           /\ DOMAIN hot = 1 .. n /\ \A i \in 0 .. n - 1 : hot[i + 1] = first + i
<1>1. /\ Len(hot) <= pushed /\ InLine(hot, pushed - Len(hot))
      /\ hot \in Seq(Nat) /\ pushed \in Nat
  BY DEF IInv, ArchiveInv, Tiers, Typed
<1>2. PICK n \in Nat, p \in Nat : n = Len(hot) /\ p = pushed
  BY <1>1
<1>3. PICK first \in Nat : first = p - n
  BY <1>1, <1>2
<1>4. DOMAIN hot = 1 .. n /\ \A i \in 1 .. n : hot[i] = first + i - 1
  BY <1>1, <1>2, <1>3 DEF InLine
<1>5. \A i \in 0 .. n - 1 : hot[i + 1] = first + i
  <2>1. \A i \in 0 .. n - 1 : i + 1 \in 1 .. n /\ first + (i + 1) - 1 = first + i
    OBVIOUS
  <2> QED  BY <1>4, <2>1
<1>6. first = Layout.hotFirst /\ first + n = pushed
  BY <1>2, <1>3 DEF Layout
<1> QED  BY <1>1, <1>2, <1>4, <1>5, <1>6

\* What an answer promises.
AnswerFits(f) ==
    /\ f.offset # None =>
         /\ f.pin # None => f.offset < 0
         /\ f.fresh => f.at + f.offset \in Matching
    /\ f.by = "nav" /\ f.total > 0 => f.offset # None

LEMMA ResponseFits ==
  ASSUME IInv, NEW e, EngineFits(e), NEW pin \in Bases \cup {None}, NEW by,
         by = "nav" /\ Eligible(e, pin) # {} => e.active \in Eligible(e, pin)
  PROVE  AnswerFits(SearchResponse(e, pin, by))
<1>1. PICK n \in Nat, first \in Nat :
        n = Len(hot) /\ first = Layout.hotFirst /\ first + n = pushed
  BY HotInLine
<1>2. PICK origin \in Nat : /\ origin = Origin(pin) /\ (pin # None => origin = pin)
  BY <1>1 DEF Origin, Bases
<1>3. PICK f : f = SearchResponse(e, pin, by)
  OBVIOUS
<1>4. /\ f.by = by /\ f.pin = pin /\ f.at = origin
      /\ f.total = Cardinality(Eligible(e, pin))
      /\ f.offset = IF e.active \in Eligible(e, pin)
                    THEN first + e.matches[e.active] - origin ELSE None
      /\ f.fresh <=> e.prunedThen = first
  BY <1>1, <1>2, <1>3 DEF SearchResponse
<1>5. f.by = "nav" /\ f.total > 0 => e.active \in Eligible(e, pin)
  <2>1. Eligible(e, pin) = {} => f.total = 0
    BY <1>4, FS_EmptySet
  <2> QED  BY <1>4, <2>1
<1>6. ASSUME e.active \in Eligible(e, pin)
      PROVE  /\ f.offset # None /\ (f.pin # None => f.offset < 0)
             /\ f.fresh => f.at + f.offset \in Matching
  <2>1. /\ e.active \in DOMAIN e.matches
        /\ pin = None \/ e.matches[e.active] < RowLimitFor(pin)
    BY <1>6 DEF Eligible
  <2>2. PICK m \in Nat : m = e.matches[e.active]
    BY <2>1 DEF EngineFits
  <2>3. f.offset = first + m - origin /\ first + m - origin \in Int
    BY <1>4, <1>6, <2>2
  <2>4. f.offset # None
    BY <2>3, ScrollbackAssumption
  <2>5. pin # None => m < pin - first
    <3> SUFFICES ASSUME pin # None PROVE m < pin - first
      OBVIOUS
    <3>1. m < Greater(origin - first, 0)
      BY <1>1, <1>2, <2>1, <2>2 DEF RowLimitFor, Monus
    <3> QED  BY <1>2, <3>1 DEF Greater
  <2>6. f.pin # None => f.offset < 0
    BY <1>2, <1>4, <2>3, <2>5
  <2>7. f.fresh => f.at + f.offset \in Matching
    <3> SUFFICES ASSUME f.fresh PROVE f.at + f.offset \in Matching
      OBVIOUS
    <3>1. first + m \in Matching
      BY <1>4, <2>1, <2>2 DEF EngineFits
    <3>2. origin + (first + m - origin) = first + m
      OBVIOUS
    <3> QED  BY <1>4, <2>3, <3>1, <3>2
  <2> QED  BY <2>4, <2>6, <2>7
<1>7. e.active \notin Eligible(e, pin) => f.offset = None
  BY <1>4
<1>8. AnswerFits(f)
  BY <1>5, <1>6, <1>7 DEF AnswerFits
<1> QED  BY <1>3, <1>8

LEMMA SearchKeeps ==
  ASSUME IInv, SearchInv, Search
  PROVE  SearchInv'
<1>1. ASSUME engine' = None, found' = None
      PROVE  SearchInv'
  BY <1>1 DEF SearchInv, SearchAnswersFit
<1>2. ASSUME NEW pin \in Bases \cup {None}, NEW by, EngineFits(engine'),
             found' = SearchResponse(engine', pin, by),
             by = "nav" /\ Eligible(engine', pin) # {}
               => engine'.active \in Eligible(engine', pin)
      PROVE  SearchInv'
  <2>1. PICK e : e = engine'
    OBVIOUS
  <2>2. AnswerFits(SearchResponse(e, pin, by))
    BY <1>2, <2>1, ResponseFits
  <2>3. AnswerFits(found')
    BY <1>2, <2>1, <2>2
  <2>4. SearchAnswersFit'
    BY <2>3 DEF AnswerFits, SearchAnswersFit
  <2> QED  BY <1>2, <2>4 DEF SearchInv, EngineFits
<1>3. ASSUME NEW pin \in Bases \cup {None}, SearchScrollback(pin)
      PROVE  SearchInv'
  BY <1>2, <1>3, EnginesFit DEF SearchScrollback
<1>4. ASSUME NEW pin \in Bases \cup {None}, NEW forward \in BOOLEAN,
             SearchNav(pin, forward)
      PROVE  SearchInv'
  <2>1. CASE engine = None
    BY <1>1, <1>4, <2>1 DEF SearchNav
  <2>2. CASE engine # None
    <3>1. EngineFits(engine)
      BY <2>2 DEF SearchInv
    <3>2. PICK n \in Nat, a \in Nat :
            /\ n = Len(engine.matches) /\ DOMAIN engine.matches = 1 .. n
            /\ a = engine.active /\ a <= n
      BY <3>1 DEF EngineFits
    <3>3. PICK b : b = Advance(engine, engine.active, forward)
      OBVIOUS
    <3>4. b \in 0 .. n /\ (n # 0 => b # 0)
      BY <3>2, <3>3 DEF Advance
    <3>5. PICK e : e = [engine EXCEPT !.active = b]
      OBVIOUS
    <3>6. /\ e \in [matches : Seq(Nat), active : Nat, prunedThen : Nat]
          /\ e.matches = engine.matches /\ e.active = b
          /\ e.prunedThen = engine.prunedThen
      BY <3>1, <3>4, <3>5 DEF EngineFits
    <3>7. EngineFits(e)
      <4>1. e.active <= Len(e.matches)
        BY <3>2, <3>4, <3>6
      <4>2. \A i \in DOMAIN e.matches : e.prunedThen + e.matches[i] \in Matching
        BY <3>1, <3>6 DEF EngineFits
      <4> QED  BY <3>6, <4>1, <4>2 DEF EngineFits
    <3>8. Len(e.matches) # 0 => e.active # 0
      BY <3>2, <3>4, <3>6
    <3>9. /\ engine' = SkipIneligible(e, pin, forward)
          /\ found' = SearchResponse(engine', pin, "nav")
      BY <1>4, <2>2, <3>3, <3>5 DEF SearchNav
    <3>10. /\ EngineFits(SkipIneligible(e, pin, forward))
           /\ SkipIneligible(e, pin, forward).matches = e.matches
           /\ Eligible(e, pin) # {} =>
                SkipIneligible(e, pin, forward).active \in Eligible(e, pin)
      BY <3>7, <3>8, SkipsTo
    <3>11. Eligible(engine', pin) = Eligible(e, pin)
      BY <3>9, <3>10 DEF Eligible
    <3> QED  BY <1>2, <3>9, <3>10, <3>11
  <2> QED  BY <2>1, <2>2
<1>5. CASE SearchClose
  BY <1>1, <1>5 DEF SearchClose
<1> QED  BY <1>3, <1>4, <1>5 DEF Search

LEMMA SearchRests ==
  ASSUME SearchInv, UNCHANGED searchVars
  PROVE  SearchInv'
<1>1. engine' = engine /\ found' = found
  BY DEF searchVars
<1> QED  BY <1>1 DEF SearchInv, EngineFits, SearchAnswersFit

LEMMA SearchStep == IInv /\ SearchInv /\ [Next]_vars => (IInv /\ SearchInv)'
<1> SUFFICES ASSUME IInv, SearchInv, [Next]_vars PROVE (IInv /\ SearchInv)'
  OBVIOUS
<1>1. IInv'
  BY Steps
<1>2. CASE Search
  BY <1>1, <1>2, SearchKeeps
<1>3. ASSUME NEW r \in Readers, Request(r) PROVE UNCHANGED searchVars
  <2>1. ASSUME NEW base \in Bases, NEW start \in Offsets, NEW count \in 0 .. MaxPage + 1,
               GetScrollback(r, base, start, count)
        PROVE  UNCHANGED searchVars
    BY <2>1 DEF GetScrollback
  <2>2. ASSUME NEW base \in Bases, NEW start \in Offsets, NEW end \in Offsets,
               YankSelection(r, base, start, end)
        PROVE  UNCHANGED searchVars
    BY <2>2 DEF YankSelection
  <2>3. ASSUME AssemblePage(r) PROVE UNCHANGED searchVars
    BY <2>3 DEF AssemblePage
  <2>4. ASSUME ResumeYank(r) PROVE UNCHANGED searchVars
    BY <2>4 DEF ResumeYank
  <2> QED  BY <1>3, <2>1, <2>2, <2>3, <2>4 DEF Request
<1>4. CASE PushToScrollback \/ ClosePane \/ DropPane \/ ArchiveStep
  <2>1. UNCHANGED searchVars
    BY <1>4 DEF PushToScrollback, ClosePane, DropPane, ArchiveStep
  <2> QED  BY <1>1, <2>1, SearchRests
<1>5. CASE UNCHANGED vars
  <2>1. UNCHANGED searchVars
    BY <1>5 DEF vars
  <2> QED  BY <1>1, <2>1, SearchRests
<1> QED  BY <1>1, <1>2, <1>3, <1>4, <1>5, SearchRests DEF Next

LEMMA SearchBegins == Init => SearchInv
  BY DEF Init, SearchInv, SearchAnswersFit

\* The prompts a client may be shown, on one side of a row.
Shown(pin, from, older) ==
    {p \in Prompts :
       /\ p \in Layout.hotFirst .. pushed - 1
       /\ pin # None => p < pin
       /\ IF older THEN p < from + Origin(pin)
          ELSE p > Greater(from + Origin(pin), Layout.hotFirst)}

LEMMA NearestIs ==
  ASSUME IInv, NEW pin \in Bases \cup {None}, NEW from \in Offsets, NEW older \in BOOLEAN
  PROVE  LET answer == FindPrompt(hot, Layout.hotFirst, pin, from, older)
         IN  IF Shown(pin, from, older) = {} THEN answer = None
             ELSE /\ answer # None
                  /\ Origin(pin) + answer = IF older THEN Max(Shown(pin, from, older))
                                            ELSE Min(Shown(pin, from, older))
<1>1. PICK n \in Nat, first \in Nat :
        /\ n = Len(hot) /\ first = Layout.hotFirst /\ first + n = pushed
        /\ pushed \in Nat
        /\ DOMAIN hot = 1 .. n /\ \A i \in 0 .. n - 1 : hot[i + 1] = first + i
  BY HotInLine
<1>2. PICK origin \in Nat : /\ origin = Origin(pin)
                            /\ origin = IF pin = None THEN first + n ELSE pin
                            /\ pin # None => pin \in Nat
  BY <1>1 DEF Origin, Bases
<1>3. from \in Int /\ None \notin Int
  BY ScrollbackAssumption DEF Offsets
<1>4. PICK turned \in Int : turned = IF pin # None /\ older THEN Lesser(from, 0) ELSE from
  BY <1>3 DEF Lesser
<1>5. PICK start \in Nat : /\ start = Lesser(Greater(origin + turned - first, 0), n)
                           /\ start <= n
  BY <1>3 DEF Lesser, Greater
<1>6. PICK shown : shown = Shown(pin, from, older)
  OBVIOUS
<1>7. PICK hits : hits = {i \in 0 .. n - 1 :
                            /\ hot[i + 1] \in Prompts
                            /\ IF older THEN i < start ELSE i > start}
  OBVIOUS
<1>8. PICK found_offset : found_offset = FindPromptInBuffer(hot, first, origin, turned, older)
  OBVIOUS
<1>9. /\ hits = {} => found_offset = None
      /\ hits # {} => found_offset = first + (IF older THEN Max(hits) ELSE Min(hits)) - origin
  BY <1>1, <1>5, <1>7, <1>8 DEF FindPromptInBuffer
<1>10. PICK answer : answer = FindPrompt(hot, Layout.hotFirst, pin, from, older)
  OBVIOUS
<1>11. answer = IF found_offset # None /\ pin # None /\ found_offset >= 0 THEN None
                ELSE found_offset
  BY <1>1, <1>2, <1>4, <1>8, <1>10 DEF FindPrompt
<1>12. \A i \in 0 .. n - 1 : older =>
         (i < start <=> first + i < from + origin /\ (pin # None => first + i < pin))
  <2>1. CASE pin = None
    BY <1>2, <1>3, <1>4, <1>5, <2>1 DEF Lesser, Greater
  <2>2. CASE pin # None
    BY <1>2, <1>3, <1>4, <1>5, <2>2 DEF Lesser, Greater
  <2> QED  BY <2>1, <2>2
<1>13. \A i \in 0 .. n - 1 : ~ older =>
         (i > start <=> first + i > Greater(from + origin, first))
  BY <1>3, <1>4, <1>5 DEF Lesser, Greater
<1>14. \A i \in 0 .. n - 1 :
         first + i \in shown <=> i \in hits /\ (pin # None => first + i < pin)
  <2> SUFFICES ASSUME NEW i \in 0 .. n - 1
               PROVE  first + i \in shown <=> i \in hits /\ (pin # None => first + i < pin)
    OBVIOUS
  <2>1. first + i \in first .. pushed - 1
    BY <1>1
  <2>2. first + i \in shown <=>
          /\ first + i \in Prompts
          /\ pin # None => first + i < pin
          /\ IF older THEN first + i < from + origin
             ELSE first + i > Greater(from + origin, first)
    BY <1>1, <1>2, <1>6, <2>1 DEF Shown
  <2>3. i \in hits <=> /\ first + i \in Prompts
                       /\ IF older THEN i < start ELSE i > start
    BY <1>1, <1>7
  <2> QED  BY <1>12, <1>13, <2>2, <2>3
<1>15. \A p \in shown : \E i \in 0 .. n - 1 : p = first + i
  <2> SUFFICES ASSUME NEW p \in shown PROVE \E i \in 0 .. n - 1 : p = first + i
    OBVIOUS
  <2>1. p \in first .. pushed - 1
    BY <1>1, <1>6 DEF Shown
  <2>2. p - first \in 0 .. n - 1 /\ p = first + (p - first)
    BY <1>1, <2>1
  <2> QED  BY <2>2
<1>16. older => \A i \in hits : pin # None => first + i < pin
  BY <1>7, <1>12
<1>17. hits \in SUBSET (0 .. n) /\ hits \in SUBSET Nat
  BY <1>7
<1>18. shown \in SUBSET (0 .. pushed) /\ shown \in SUBSET Nat
  BY <1>1, <1>15
<1>19. CASE hits = {}
  <2>1. shown = {}
    BY <1>14, <1>15, <1>19
  <2>2. answer = None
    BY <1>9, <1>11, <1>19
  <2> QED  BY <1>6, <1>10, <2>1, <2>2
<1>20. CASE hits # {} /\ older
  <2>1. PICK g \in Nat : /\ g = Max(hits) /\ g \in hits /\ g \in 0 .. n - 1
                         /\ \A i \in hits : i <= g
    BY <1>7, <1>17, <1>20, MaxIs
  <2>2. found_offset = first + g - origin /\ first + g - origin \in Int
    BY <1>9, <1>20, <2>1
  <2>3. pin # None => first + g - origin < 0
    BY <1>2, <1>16, <1>20, <2>1
  <2>4. answer = first + g - origin /\ answer # None
    BY <1>3, <1>11, <2>2, <2>3
  <2>5. first + g \in shown
    BY <1>14, <1>16, <1>20, <2>1
  <2>6. \A p \in shown : p <= first + g
    BY <1>14, <1>15, <2>1
  <2>7. Max(shown) \in shown /\ first + g <= Max(shown)
    BY <1>1, <1>18, <2>5, MaxIs
  <2>8. Max(shown) = first + g
    <3>1. PICK x \in Nat : x = Max(shown)
      BY <1>18, <2>7
    <3>2. x <= first + g /\ first + g <= x
      BY <2>6, <2>7, <3>1
    <3> QED  BY <3>1, <3>2
  <2>9. origin + (first + g - origin) = first + g
    OBVIOUS
  <2>10. origin + answer = Max(shown)
    BY <2>4, <2>8, <2>9
  <2> QED  BY <1>2, <1>6, <1>10, <1>20, <2>4, <2>5, <2>10
<1>21. CASE hits # {} /\ ~ older
  <2>1. PICK g \in Nat : /\ g = Min(hits) /\ g \in hits /\ g \in 0 .. n - 1
                         /\ \A i \in hits : g <= i
    BY <1>7, <1>17, <1>21, MinIs
  <2>2. found_offset = first + g - origin /\ first + g - origin \in Int
    BY <1>9, <1>21, <2>1
  <2>3. \A p \in shown : first + g <= p
    BY <1>14, <1>15, <2>1
  <2>4. CASE pin # None /\ pin <= first + g
    <3>1. first + g - origin >= 0
      BY <1>2, <2>4
    <3>2. answer = None
      BY <1>3, <1>11, <2>2, <2>4, <3>1
    <3>3. \A p \in shown : p < pin
      BY <1>6, <2>4 DEF Shown
    <3>4. shown = {}
      BY <1>2, <1>18, <2>3, <2>4, <3>3
    <3> QED  BY <1>6, <1>10, <3>2, <3>4
  <2>5. CASE ~ (pin # None /\ pin <= first + g)
    <3>1. pin # None => first + g < pin /\ first + g - origin < 0
      BY <1>2, <2>5
    <3>2. answer = first + g - origin /\ answer # None
      BY <1>3, <1>11, <2>2, <3>1
    <3>3. first + g \in shown
      BY <1>14, <2>1, <3>1
    <3>4. Min(shown) \in shown /\ Min(shown) <= first + g
      BY <1>18, <3>3, MinIs
    <3>5. Min(shown) = first + g
      <4>1. PICK x \in Nat : x = Min(shown)
        BY <1>18, <3>4
      <4>2. x <= first + g /\ first + g <= x
        BY <2>3, <3>4, <4>1
      <4> QED  BY <4>1, <4>2
    <3>6. origin + (first + g - origin) = first + g
      OBVIOUS
    <3>7. origin + answer = Min(shown)
      BY <3>2, <3>5, <3>6
    <3> QED  BY <1>2, <1>6, <1>10, <1>21, <3>2, <3>3, <3>7
  <2> QED  BY <2>4, <2>5
<1> QED  BY <1>19, <1>20, <1>21

LEMMA Navigates == IInv /\ SearchInv => NavigationFits
<1> SUFFICES ASSUME IInv, SearchInv PROVE PromptsAreNearest
  BY DEF NavigationFits, SearchInv
<1> QED  BY NearestIs DEF PromptsAreNearest, Shown

\* What a search or a prompt jump answers is a row of its kind, on its side,
\* that the client may see, whatever was pruned since (requests/search.rs).
THEOREM Navigation == Spec => []NavigationFits
<1>1. Init => IInv /\ SearchInv
  BY Begins, SearchBegins
<1>2. IInv /\ SearchInv /\ [Next]_vars => (IInv /\ SearchInv)'
  BY SearchStep
<1>3. IInv /\ SearchInv => NavigationFits
  BY Navigates
<1> QED  BY <1>1, <1>2, <1>3, PTL DEF Spec
=============================================================================
