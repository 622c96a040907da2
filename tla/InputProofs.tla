---------------------------- MODULE InputProofs ----------------------------
(***************************************************************************)
(* Safety of InputLoop for any config directories, keys and bounds.  The   *)
(* invariant, InputInv, says which values the input state takes and what   *)
(* each keeps to (Shape), what a step sends (Sent), that keys, VMs and     *)
(* clicks are numbered in order (Numbered, HandSound), and what the hand   *)
(* holds down (Marked).  Each handler is taken from a state of Shape to    *)
(* the next by lemmas of its own, from which the actions' lemmas follow.   *)
(***************************************************************************)
EXTENDS InputLoop, FiniteSetTheorems, SequenceTheorems, TLAPS

-----------------------------------------------------------------------------
\* Facts about numbers and sets of numbers that the proofs below need.
LEMMA LeastIndex ==
  ASSUME NEW S \in SUBSET Nat, S # {}
  PROVE  \E n \in S : \A m \in S : n <= m
<1>1. PICK n \in S : \A m \in S : ~ (<<m, n>> \in OpToRel(<, Nat))
  BY NatLessThanWellFounded, WFMin
<1>2. \A m \in S : ~ m < n
  <2>1. OpToRel(<, Nat) = {p \in Nat \X Nat : p[1] < p[2]}
    BY DEF OpToRel
  <2>2. \A m \in S : m < n => <<m, n>> \in {p \in Nat \X Nat : p[1] < p[2]}
    OBVIOUS
  <2> QED  BY <1>1, <2>1, <2>2
<1> QED  BY <1>2

LEMMA GreatestIndex ==
  ASSUME NEW n \in Nat, NEW S \in SUBSET (0 .. n), S # {}
  PROVE  \E g \in S : \A m \in S : m <= g
<1> DEFINE T == {m \in 0 .. n : n - m \in S}
<1>1. T \in SUBSET Nat /\ T # {}
  <2>1. PICK s \in S : TRUE
    OBVIOUS
  <2>2. n - s \in 0 .. n /\ n - (n - s) = s
    BY <2>1
  <2> QED  BY <2>1, <2>2
<1>2. PICK l \in T : \A m \in T : l <= m
  BY <1>1, LeastIndex
<1>3. \A m \in S : n - m \in T
  <2>1. \A m \in S : n - m \in 0 .. n /\ n - (n - m) = m
    OBVIOUS
  <2> QED  BY <2>1
<1>4. \A m \in S : l <= n - m
  BY <1>2, <1>3
<1>5. \A m \in S : m <= n - l
  BY <1>2, <1>4
<1> QED  BY <1>2, <1>5

\* What Max and Min choose.
LEMMA MaxIs ==
  ASSUME NEW n \in Nat, NEW S \in SUBSET (0 .. n), S # {}
  PROVE  Max(S) \in S /\ \A m \in S : m <= Max(S)
<1>1. \E g \in S : \A m \in S : g >= m
  BY GreatestIndex
<1> QED  BY <1>1 DEF Max

LEMMA MinIs ==
  ASSUME NEW S \in SUBSET Nat, S # {}
  PROVE  Min(S) \in S /\ \A m \in S : Min(S) <= m
<1>1. \E g \in S : \A m \in S : g =< m
  BY LeastIndex
<1> QED  BY <1>1 DEF Min

\* There are as many indices as Nth is asked for.
LEMMA NthIs ==
  ASSUME NEW n \in Nat, NEW S \in SUBSET (0 .. n), NEW k \in 1 .. Cardinality(S)
  PROVE  Nth(S, k) \in S
<1> DEFINE Below(i) == {j \in S : j < i}
<1>1. IsFiniteSet(S) /\ Cardinality(S) \in Nat
  <2>1. IsFiniteSet(0 .. n)
    BY FS_Interval
  <2> QED  BY <2>1, FS_Subset, FS_CardinalityType
<1>2. \A i : IsFiniteSet(Below(i)) /\ Cardinality(Below(i)) \in Nat
  <2> TAKE i
  <2>1. Below(i) \subseteq S
    OBVIOUS
  <2> QED  BY <1>1, <2>1, FS_Subset, FS_CardinalityType
<1>3. S # {}
  BY FS_EmptySet
<1> DEFINE Enough == {i \in S : k - 1 <= Cardinality(Below(i))}
<1>4. Enough # {}
  <2>1. PICK g \in S : \A m \in S : m <= g
    BY <1>3, GreatestIndex
  <2>2. Below(g) = S \ {g}
    <3>1. \A m \in S : m < g <=> m # g
      BY <2>1
    <3> QED  BY <3>1
  <2>3. Cardinality(S \ {g}) = Cardinality(S) - 1
    BY <1>1, FS_RemoveElement
  <2>4. k - 1 <= Cardinality(Below(g))
    BY <1>1, <2>2, <2>3
  <2> QED  BY <2>4
<1>5. PICK i \in Enough : \A m \in Enough : i <= m
  <2>1. Enough \in SUBSET Nat
    <3>1. Enough \subseteq S /\ S \subseteq 0 .. n
      OBVIOUS
    <3> HIDE DEF Enough
    <3> QED  BY <3>1
  <2> QED  BY <1>4, <2>1, LeastIndex
<1>6. Cardinality(Below(i)) = k - 1
  <2> SUFFICES ASSUME Cardinality(Below(i)) # k - 1 PROVE FALSE
    OBVIOUS
  <2>1. PICK c \in Nat : c = Cardinality(Below(i)) /\ k - 1 <= c /\ c # k - 1
    BY <1>2, <1>5
  <2>2. k \in Nat /\ k <= c
    BY <1>1, <2>1
  <2>3. Below(i) # {}
    BY <2>1, <2>2, FS_EmptySet
  <2>4. Below(i) \in SUBSET (0 .. n)
    OBVIOUS
  <2>5. PICK g \in Below(i) : \A m \in Below(i) : m <= g
    BY <2>3, <2>4, GreatestIndex
  <2>6. Below(g) = Below(i) \ {g}
    <3>1. \A m \in Below(i) : m < g <=> m # g
      BY <2>5
    <3>2. \A m \in S : m < g => m < i
      BY <2>5
    <3> QED  BY <3>1, <3>2
  <2>7. Cardinality(Below(i) \ {g}) = Cardinality(Below(i)) - 1
    <3>1. IsFiniteSet(Below(i)) /\ g \in Below(i)
      BY <1>2, <2>5
    <3> HIDE DEF Below
    <3> QED  BY <3>1, FS_RemoveElement
  <2>8. k - 1 <= Cardinality(Below(g))
    BY <2>1, <2>2, <2>6, <2>7
  <2>9. g \in Enough
    BY <2>8
  <2>10. i <= g /\ g < i /\ i \in Nat /\ g \in Nat
    BY <1>5, <2>9
  <2> QED  BY <2>10
<1>7. i \in S
  BY <1>5
<1> QED  BY <1>6, <1>7 DEF Nth

-----------------------------------------------------------------------------
(***************************************************************************)
(* The shape of the application: the parts every handler may count on and  *)
(* leaves as sound as it found them.                                       *)
(***************************************************************************)
AppFields == {"panes", "focus", "asked", "copying", "offset", "palette", "shown", "pending",
              "file", "binds", "events", "lua", "held", "problem", "chrome", "suppressed",
              "drag", "selecting", "link", "exiting", "active", "blink", "out"}

\* The panes and how far each is scrolled.
Screened(s) ==
    /\ s.panes \in {{1}, {2}, Panes} /\ s.focus \in s.panes
    /\ s.copying \subseteq s.panes /\ (s.copying # {} => CopySupported)
    /\ s.offset \in [Panes -> Pages]
    /\ \A p \in Panes : s.offset[p] > 0 => p \in s.panes

\* The adopted file and the VM its callbacks live in.
Scripted(s) ==
    /\ s.file \in DOMAIN Directories
    /\ s.lua \in Nat /\ s.binds = s.lua /\ s.events = s.lua /\ s.held = {s.lua} \ {0}
    /\ s.lua = 0 => ~ Loaded[s.file].vm

PaletteFields == {"visible", "query", "results", "selected", "window", "recent"}

PaletteSound(p) ==
    /\ DOMAIN p = PaletteFields
    /\ p.visible \in BOOLEAN
    /\ p.selected \in Nat \ {0}
    /\ p.recent \in Seq(ActionIds)
    /\ \E S : p.query \in Seq(S)
    /\ \E S : p.results \in Seq(S)
    /\ \A i \in DOMAIN p.results : p.results[i].id \in ActionIds

\* The leader waits only where it may.
Waiting(s) ==
    /\ s.pending \in [on : BOOLEAN, key : Nat]
    /\ s.pending.key # 0 => s.pending.on
    /\ s.pending.on => Settings(s).leader /\ ~ s.palette.visible

Linked(s) ==
    /\ s.link \in {"up", "broken", "none"}
    /\ s.exiting \in BOOLEAN /\ s.active \in BOOLEAN /\ s.blink \in BOOLEAN

\* What was sent: keys, text, buttons and the live VM's callbacks.
Sent(s) ==
    /\ \E S : s.out \in Seq(S)
    /\ \A i \in DOMAIN s.out :
         /\ s.out[i].kind # "skipped"
         /\ s.out[i].kind = "call" => s.out[i].n = s.lua /\ s.lua # 0

Shape(s) ==
    /\ DOMAIN s = AppFields
    /\ Screened(s) /\ Scripted(s) /\ PaletteSound(s.palette) /\ Waiting(s) /\ Linked(s)

\* What handlers of keys, timers and files leave alone: the mouse.
Hands(s, t) ==
    /\ t.drag = s.drag /\ t.chrome = s.chrome /\ t.suppressed = s.suppressed
    /\ t.active = s.active
    /\ t.selecting => s.selecting

-----------------------------------------------------------------------------
(***************************************************************************)
(* The palette shows actions of the catalog only.                          *)
(***************************************************************************)
\* What SelectIn keeps is a sequence of the set's items.
LEMMA SelectInIs ==
  ASSUME NEW S, NEW s \in Seq(S), NEW T
  PROVE  SelectIn(s, T) \in Seq(T)
<1> DEFINE hits == {i \in DOMAIN s : s[i] \in T}
<1>1. PICK n \in Nat : n = Len(s) /\ DOMAIN s = 1 .. n
  OBVIOUS
<1>2. hits \in SUBSET (0 .. n)
  BY <1>1
<1>3. Cardinality(hits) \in Nat
  <2>1. IsFiniteSet(0 .. n)
    BY FS_Interval
  <2> HIDE DEF hits
  <2> QED  BY <1>2, <2>1, FS_Subset, FS_CardinalityType
<1>4. \A k \in 1 .. Cardinality(hits) : Nth(hits, k) \in hits
  <2> HIDE DEF hits
  <2> QED  BY <1>2, NthIs
<1>5. \A k \in 1 .. Cardinality(hits) : s[Nth(hits, k)] \in T
  BY <1>4
<1>6. PICK c \in Nat : c = Cardinality(hits)
  BY <1>3
<1>7. [k \in 1 .. c |-> s[Nth(hits, k)]] \in Seq(T)
  <2> HIDE DEF hits
  <2> QED  BY <1>5, <1>6
<1>8. SelectIn(s, T) = [k \in 1 .. c |-> s[Nth(hits, k)]]
  BY <1>6 DEF SelectIn
<1> QED  BY <1>7, <1>8

\* In a strict total order every item of 1..n has its place, and every place
\* its item.
Ordering(n, R) ==
    /\ \A i \in 1 .. n : <<i, i>> \notin R
    /\ \A i, j \in 1 .. n : i # j => <<i, j>> \in R \/ <<j, i>> \in R
    /\ \A i, j, k \in 1 .. n : <<i, j>> \in R /\ <<j, k>> \in R => <<i, k>> \in R

PlaceIn(n, R, i) == Cardinality({j \in 1 .. n : <<j, i>> \in R}) + 1

LEMMA EveryPlace ==
  ASSUME NEW n \in Nat, NEW R, Ordering(n, R), NEW k \in 1 .. n
  PROVE  \E i \in 1 .. n : PlaceIn(n, R, i) = k
<1> DEFINE D == 1 .. n
<1> DEFINE Before(i) == {j \in D : <<j, i>> \in R}
<1>1. IsFiniteSet(D) /\ Cardinality(D) = n
  BY FS_Interval
<1>2. \A i : Before(i) \in SUBSET D
  OBVIOUS
<1>3. \A i : IsFiniteSet(Before(i)) /\ Cardinality(Before(i)) \in Nat
  <2> HIDE DEF D, Before
  <2> QED  BY <1>1, <1>2, FS_Subset, FS_CardinalityType
<1>4. \A i \in D : Cardinality(Before(i)) + 1 \in D
  <2> TAKE i \in D
  <2>1. Before(i) \in SUBSET (D \ {i})
    BY DEF Ordering
  <2>2. IsFiniteSet(D \ {i}) /\ Cardinality(D \ {i}) = n - 1
    <3> HIDE DEF D
    <3> QED  BY <1>1, FS_RemoveElement
  <2>3. Cardinality(Before(i)) <= n - 1
    <3> HIDE DEF D, Before
    <3> QED  BY <2>1, <2>2, FS_Subset
  <2>4. PICK c \in Nat : c = Cardinality(Before(i))
    <3> HIDE DEF D, Before
    <3> QED  BY <1>3
  <2>5. c + 1 \in 1 .. n
    BY <2>3, <2>4
  <2> QED  BY <2>4, <2>5
<1>5. \A i, j \in D : <<i, j>> \in R => Cardinality(Before(i)) # Cardinality(Before(j))
  <2> TAKE i, j \in D
  <2> HAVE <<i, j>> \in R
  <2>1. Before(i) \in SUBSET Before(j)
    BY DEF Ordering
  <2>2. i \in Before(j) /\ i \notin Before(i)
    BY DEF Ordering
  <2>3. Before(i) # Before(j)
    <3> HIDE DEF D, Before
    <3> QED  BY <2>2
  <2> HIDE DEF D, Before
  <2> QED  BY <1>3, <2>1, <2>3, FS_Subset
<1>6. \A i, j \in D : i # j => Cardinality(Before(i)) # Cardinality(Before(j))
  <2>1. \A i, j \in D : i # j => <<i, j>> \in R \/ <<j, i>> \in R
    BY DEF Ordering
  <2> HIDE DEF D, Before
  <2> QED  BY <1>5, <2>1
<1> SUFFICES ASSUME ~ \E i \in 1 .. n : PlaceIn(n, R, i) = k PROVE FALSE
  OBVIOUS
<1> DEFINE f == [i \in D |-> Cardinality(Before(i)) + 1]
<1>7. \A i \in D : f[i] \in D \ {k}
  <2>1. \A i \in D : PlaceIn(n, R, i) = Cardinality(Before(i)) + 1 /\ PlaceIn(n, R, i) # k
    BY DEF PlaceIn
  <2>2. \A i \in D : f[i] = PlaceIn(n, R, i)
    <3> HIDE DEF D, Before
    <3> QED  BY <2>1
  <2> HIDE DEF D, Before
  <2> QED  BY <1>4, <2>1, <2>2
<1>8. f \in [D -> D \ {k}]
  <2> HIDE DEF D, Before
  <2> QED  BY <1>7
<1>9. IsFiniteSet(D \ {k}) /\ Cardinality(D \ {k}) < Cardinality(D)
  <2>1. k \in D
    OBVIOUS
  <2>2. IsFiniteSet(D \ {k}) /\ Cardinality(D \ {k}) = n - 1
    <3> HIDE DEF D
    <3> QED  BY <1>1, <2>1, FS_RemoveElement
  <2> HIDE DEF D
  <2> QED  BY <1>1, <2>2
<1>10. PICK x, y \in D : x # y /\ f[x] = f[y]
  <2> HIDE DEF D, f
  <2> QED  BY <1>1, <1>8, <1>9, FS_PigeonHole
<1>11. Cardinality(Before(x)) + 1 = Cardinality(Before(y)) + 1
  <2> HIDE DEF D, Before
  <2> QED  BY <1>10
<1>12. Cardinality(Before(x)) = Cardinality(Before(y))
  <2>1. PICK a, b \in Nat : a = Cardinality(Before(x)) /\ b = Cardinality(Before(y))
    <3> HIDE DEF D, Before
    <3> QED  BY <1>3
  <2> HIDE DEF D, Before
  <2> QED  BY <2>1, <1>11
<1> HIDE DEF D, Before, f
<1> QED  BY <1>6, <1>10, <1>12

\* The scores of a table's row.
RowSound(label, row) ==
    /\ DOMAIN row = 1 .. Len(label)
    /\ \A j \in 1 .. Len(label) : row[j].score \in Int

LEMMA BonusIsInt ==
  ASSUME NEW label, NEW j
  PROVE  PositionalBonus(label, j) \in Int
BY DEF PositionalBonus

LEMMA FirstRowSound ==
  ASSUME NEW query, NEW label
  PROVE  RowSound(label, FirstRow(query, label))
BY BonusIsInt DEF RowSound, FirstRow, Unreachable

\* Of scored indices one is the best, the earliest of equals.
BestOf(K, f, k) == \A l \in K : f[l] < f[k] \/ (f[l] = f[k] /\ k <= l)

LEMMA SomeBest ==
  ASSUME NEW n \in Nat, NEW K \in SUBSET (0 .. n), K # {}, NEW f \in [K -> Int]
  PROVE  \E k \in K : BestOf(K, f, k)
<1> DEFINE Low(m) == {k \in K : k <= m}
           Bad == {m \in 0 .. n : Low(m) # {} /\ ~ \E k \in Low(m) : BestOf(Low(m), f, k)}
<1>1. SUFFICES ASSUME Bad # {} PROVE FALSE
  <2>1. Low(n) = K /\ n \in 0 .. n
    <3>1. \A k \in K : k <= n
      OBVIOUS
    <3>2. n \in 0 .. n
      OBVIOUS
    <3>3. Low(n) = K
      BY <3>1
    <3> HIDE DEF Bad, Low
    <3> QED  BY <3>2, <3>3
  <2>2. n \notin Bad
    BY <1>1
  <2> QED  BY <2>1, <2>2
<1>2. PICK m \in Bad : \A o \in Bad : m <= o
  <2>1. Bad \in SUBSET Nat
    OBVIOUS
  <2> HIDE DEF Bad
  <2> QED  BY <1>1, <2>1, LeastIndex
<1>3. m \in 0 .. n /\ Low(m) # {} /\ ~ \E k \in Low(m) : BestOf(Low(m), f, k)
  OBVIOUS
<1>4. m \in K
  <2> SUFFICES ASSUME m \notin K PROVE FALSE
    OBVIOUS
  <2>1. PICK x \in K : x <= m
    BY <1>3
  <2>2. m - 1 \in 0 .. n
    BY <1>3, <2>1
  <2>3. \A k \in K : k <= m <=> k <= m - 1
    BY <1>3
  <2>4. Low(m) = Low(m - 1)
    BY <2>3
  <2>5. m - 1 \in Bad
    BY <1>3, <2>2, <2>4
  <2>6. m <= m - 1 /\ m \in Nat
    <3> HIDE DEF Bad
    <3> QED  BY <1>2, <1>3, <2>5
  <2> QED  BY <2>6
<1>5. \A k \in K : k <= m <=> k = m \/ k <= m - 1
  BY <1>3
<1>6. CASE Low(m - 1) = {}
  <2>1. Low(m) = {m}
    BY <1>4, <1>5, <1>6
  <2>2. BestOf({m}, f, m)
    BY <1>3, <1>4 DEF BestOf
  <2> QED  BY <1>3, <2>1, <2>2
<1>7. CASE Low(m - 1) # {}
  <2>1. m - 1 \in 0 .. n
    <3>1. PICK x \in K : x <= m - 1
      BY <1>7
    <3>2. x \in Nat /\ m \in 0 .. n
      BY <1>3
    <3> HIDE DEF Bad
    <3> QED  BY <3>1, <3>2
  <2>2. m - 1 \notin Bad
    <3>1. m \in Nat
      BY <1>3
    <3> HIDE DEF Bad
    <3> QED  BY <1>2, <3>1
  <2>3. PICK b \in Low(m - 1) : BestOf(Low(m - 1), f, b)
    BY <1>7, <2>1, <2>2
  <2>4. b \in K /\ b <= m - 1
    BY <2>3
  <2>5. \A k \in Low(m) : k = m \/ k \in Low(m - 1)
    BY <1>5
  <2>6. PICK x \in Int, y \in Int : x = f[b] /\ y = f[m]
    BY <1>4, <2>4
  <2>7. CASE x < y
    <3>1. \A l \in Low(m) : f[l] < f[m] \/ (f[l] = f[m] /\ m <= l)
      <4> TAKE l \in Low(m)
      <4>1. CASE l = m
        BY <1>3, <4>1
      <4>2. CASE l \in Low(m - 1)
        <5>1. f[l] < f[b] \/ f[l] = f[b]
          BY <2>3, <4>2 DEF BestOf
        <5>2. f[l] \in Int
          OBVIOUS
        <5> QED  BY <2>6, <2>7, <5>1, <5>2
      <4> QED  BY <2>5, <4>1, <4>2
    <3>2. m \in Low(m)
      BY <1>3, <1>4
    <3> QED  BY <1>3, <3>1, <3>2 DEF BestOf
  <2>8. CASE ~ x < y
    <3>1. \A l \in Low(m) : f[l] < f[b] \/ (f[l] = f[b] /\ b <= l)
      <4> TAKE l \in Low(m)
      <4>1. CASE l = m
        BY <1>3, <2>4, <2>6, <2>8, <4>1
      <4>2. CASE l \in Low(m - 1)
        BY <2>3, <4>2 DEF BestOf
      <4> QED  BY <2>5, <4>1, <4>2
    <3>2. b \in Low(m)
      BY <1>3, <2>4, <1>5
    <3> QED  BY <1>3, <3>1, <3>2 DEF BestOf
  <2> QED  BY <2>6, <2>7, <2>8
<1> QED  BY <1>6, <1>7

LEMMA NextRowSound ==
  ASSUME NEW query, NEW label, Len(label) \in Nat, NEW i \in Nat, i >= 2, NEW row,
         RowSound(label, row)
  PROVE  RowSound(label, NextRow(query, label, i, row))
<1>1. PICK n \in Nat : n = Len(label)
  OBVIOUS
<1> DEFINE Ks(j) == {k \in (i - 1)..(j - 1) : row[k].score # Unreachable}
           At(j, k) == row[k].score + Step(label, k, j)
           Top(j) == {k \in Ks(j) : \A l \in Ks(j) : At(j, l) < At(j, k) \/ (At(j, l) = At(j, k) /\ k <= l)}
<1>2. \A j \in 1 .. n : \A k \in Ks(j) : At(j, k) \in Int /\ k \in 0 .. n
  <2> TAKE j \in 1 .. n
  <2> TAKE k \in Ks(j)
  <2>1. k \in 1 .. n
    OBVIOUS
  <2>2. row[k].score \in Int
    BY <1>1, <2>1 DEF RowSound
  <2>3. Step(label, k, j) \in Int
    BY <2>1, BonusIsInt DEF Step
  <2> QED  BY <2>1, <2>2, <2>3
<1>3. ASSUME NEW j \in 1 .. n, Ks(j) # {}
      PROVE  At(j, CHOOSE k \in Top(j) : TRUE) \in Int
  <2> DEFINE f == [k \in Ks(j) |-> At(j, k)]
  <2>1. f \in [Ks(j) -> Int] /\ Ks(j) \in SUBSET (0 .. n)
    <3> HIDE DEF Ks, At
    <3> QED  BY <1>2
  <2>2. PICK b \in Ks(j) : BestOf(Ks(j), f, b)
    <3> HIDE DEF Ks, f
    <3> QED  BY <1>3, <2>1, SomeBest
  <2>3. \A l \in Ks(j) : At(j, l) < At(j, b) \/ (At(j, l) = At(j, b) /\ b <= l)
    <3>1. \A l \in Ks(j) : f[l] = At(j, l)
      OBVIOUS
    <3>2. \A l \in Ks(j) : f[l] < f[b] \/ (f[l] = f[b] /\ b <= l)
      <4> HIDE DEF Ks, f, At
      <4> QED  BY <2>2 DEF BestOf
    <3> HIDE DEF Ks, f, At
    <3> QED  BY <2>2, <3>1, <3>2
  <2>4. b \in Top(j)
    <3> HIDE DEF Ks, At
    <3> QED  BY <2>3
  <2>5. (CHOOSE k \in Top(j) : TRUE) \in Top(j)
    <3> HIDE DEF Top
    <3> QED  BY <2>4
  <2>6. \A k \in Top(j) : k \in Ks(j)
    OBVIOUS
  <2> HIDE DEF Ks, At, Top
  <2> QED  BY <1>2, <2>5, <2>6
<1> DEFINE entry(j) == IF j < i \/ label[j] # query[i] \/ Ks(j) = {}
                       THEN [score |-> Unreachable, from |-> 0]
                       ELSE LET k == CHOOSE k \in Top(j) : TRUE IN [score |-> At(j, k), from |-> k]
<1>4. \A j \in 1 .. n : entry(j).score \in Int
  <2> HIDE DEF Ks, At, Top
  <2> QED  BY <1>3 DEF Unreachable
<1>5. NextRow(query, label, i, row) = [j \in 1 .. n |-> entry(j)]
  BY <1>1, Zenon DEF NextRow
<1> HIDE DEF entry
<1> QED  BY <1>1, <1>4, <1>5 DEF RowSound

\* The table of the first m rows.
TableOf(g, query, label, m) ==
    g = [i \in 1 .. m |->
           IF i = 1 THEN FirstRow(query, label) ELSE NextRow(query, label, i, g[i - 1])]

LEMMA TablesExist ==
  ASSUME NEW query, NEW label, NEW n \in Nat, n >= 1
  PROVE  \E g : TableOf(g, query, label, n)
<1> DEFINE Bad == {m \in 1 .. n : ~ \E g : TableOf(g, query, label, m)}
<1> SUFFICES ASSUME Bad # {} PROVE FALSE
  <2>1. n \in 1 .. n
    OBVIOUS
  <2> QED  BY <2>1
<1>1. PICK m \in Bad : \A o \in Bad : m <= o
  <2>1. Bad \in SUBSET Nat
    OBVIOUS
  <2> HIDE DEF Bad
  <2> QED  BY <2>1, LeastIndex
<1>2. m \in 1 .. n /\ m \in Nat /\ ~ \E g : TableOf(g, query, label, m)
  OBVIOUS
<1>3. CASE m = 1
  <2> DEFINE g == [i \in 1 .. 1 |-> FirstRow(query, label)]
  <2>1. TableOf(g, query, label, 1)
    <3>1. \A i \in 1 .. 1 : i = 1
      OBVIOUS
    <3>2. g = [i \in 1 .. 1 |->
                 IF i = 1 THEN FirstRow(query, label) ELSE NextRow(query, label, i, g[i - 1])]
      BY <3>1
    <3> HIDE DEF g
    <3> QED  BY <3>2 DEF TableOf
  <2> HIDE DEF g
  <2> QED  BY <1>2, <1>3, <2>1
<1>4. CASE m # 1
  <2>1. m - 1 \in 1 .. n /\ ~ m <= m - 1
    BY <1>2, <1>4
  <2>2. PICK h : TableOf(h, query, label, m - 1)
    BY <1>1, <2>1
  <2> DEFINE entry(i) == IF i = 1 THEN FirstRow(query, label) ELSE NextRow(query, label, i, h[i - 1])
             g == [i \in 1 .. m |-> entry(i)]
  <2>3. \A i \in 1 .. m - 1 : h[i] = entry(i)
    <3>1. h = [i \in 1 .. m - 1 |-> entry(i)]
      BY <2>2 DEF TableOf
    <3> HIDE DEF entry
    <3>2. \A i \in 1 .. m - 1 : [j \in 1 .. m - 1 |-> entry(j)][i] = entry(i)
      OBVIOUS
    <3> QED  BY <3>1, <3>2
  <2>4. \A i \in 1 .. m : i # 1 => g[i - 1] = h[i - 1]
    <3>1. \A i \in 1 .. m : i # 1 => i - 1 \in 1 .. m - 1 /\ i - 1 \in 1 .. m
      BY <1>2
    <3> HIDE DEF entry
    <3> QED  BY <2>3, <3>1
  <2>5. \A i \in 1 .. m :
           entry(i) = IF i = 1 THEN FirstRow(query, label) ELSE NextRow(query, label, i, g[i - 1])
    <3> HIDE DEF g
    <3> QED  BY <2>4
  <2>6. g = [i \in 1 .. m |->
               IF i = 1 THEN FirstRow(query, label) ELSE NextRow(query, label, i, g[i - 1])]
    <3> DEFINE other(i) == IF i = 1 THEN FirstRow(query, label) ELSE NextRow(query, label, i, g[i - 1])
    <3>1. \A i \in 1 .. m : entry(i) = other(i)
      BY <2>5
    <3>2. g = [i \in 1 .. m |-> entry(i)]
      OBVIOUS
    <3> HIDE DEF entry, other, g
    <3>3. [i \in 1 .. m |-> entry(i)] = [i \in 1 .. m |-> other(i)]
      BY <3>1
    <3>4. g = [i \in 1 .. m |-> other(i)]
      BY <3>2, <3>3
    <3> QED  BY <3>4 DEF other
  <2>7. TableOf(g, query, label, m)
    <3> HIDE DEF g
    <3> QED  BY <2>6 DEF TableOf
  <2> HIDE DEF g
  <2> QED  BY <1>2, <2>7
<1> QED  BY <1>3, <1>4

LEMMA RowsSound ==
  ASSUME NEW query, Len(query) \in Nat, Len(query) >= 1, NEW label, Len(label) \in Nat
  PROVE  \A i \in 1 .. Len(query) : RowSound(label, Rows(query, label)[i])
<1>1. PICK n \in Nat : n = Len(query) /\ n >= 1
  OBVIOUS
<1>2. PICK g : g = Rows(query, label)
  OBVIOUS
<1>3. TableOf(g, query, label, n)
  <2>1. Rows(query, label) = CHOOSE h : TableOf(h, query, label, n)
    BY <1>1 DEF Rows, TableOf
  <2>2. TableOf(CHOOSE h : TableOf(h, query, label, n), query, label, n)
    BY <1>1, TablesExist, Zenon
  <2> QED  BY <1>2, <2>1, <2>2
<1>4. \A i \in 1 .. n :
         g[i] = IF i = 1 THEN FirstRow(query, label) ELSE NextRow(query, label, i, g[i - 1])
  <2> DEFINE entry(i) == IF i = 1 THEN FirstRow(query, label) ELSE NextRow(query, label, i, g[i - 1])
  <2>1. g = [i \in 1 .. n |-> entry(i)]
    BY <1>3 DEF TableOf
  <2> HIDE DEF entry
  <2>2. \A i \in 1 .. n : [j \in 1 .. n |-> entry(j)][i] = entry(i)
    OBVIOUS
  <2>3. \A i \in 1 .. n : g[i] = entry(i)
    BY <2>1, <2>2
  <2> QED  BY <2>3 DEF entry
<1> DEFINE Bad == {i \in 1 .. n : ~ RowSound(label, g[i])}
<1> SUFFICES ASSUME Bad # {} PROVE FALSE
  BY <1>1, <1>2
<1>5. PICK m \in Bad : \A o \in Bad : m <= o
  <2>1. Bad \in SUBSET Nat
    OBVIOUS
  <2> HIDE DEF Bad
  <2> QED  BY <2>1, LeastIndex
<1>6. m \in 1 .. n /\ m \in Nat /\ ~ RowSound(label, g[m])
  OBVIOUS
<1>7. CASE m = 1
  BY <1>4, <1>6, <1>7, FirstRowSound
<1>8. CASE m # 1
  <2>1. m - 1 \in 1 .. n /\ ~ m <= m - 1 /\ m >= 2
    BY <1>6, <1>8
  <2>2. RowSound(label, g[m - 1])
    BY <1>5, <2>1
  <2>3. g[m] = NextRow(query, label, m, g[m - 1])
    BY <1>4, <1>6, <1>8
  <2>4. RowSound(label, NextRow(query, label, m, g[m - 1]))
    BY <1>6, <2>1, <2>2, NextRowSound
  <2> QED  BY <1>6, <2>3, <2>4
<1> QED  BY <1>7, <1>8

LEMMA MatchScores ==
  ASSUME NEW S, NEW query \in Seq(S), NEW T, NEW label \in Seq(T)
  PROVE  FuzzyMatch(query, label).score \in Int
<1>1. CASE query = <<>>
  BY <1>1 DEF FuzzyMatch
<1>2. CASE query # <<>> /\ Len(query) > Len(label)
  BY <1>2 DEF FuzzyMatch, NoMatch
<1>3. CASE query # <<>> /\ ~ Len(query) > Len(label)
  <2>1. PICK n \in Nat, w \in Nat : n = Len(query) /\ n >= 1 /\ w = Len(label)
    BY <1>3
  <2>2. PICK row : row = Rows(query, label)[n]
    OBVIOUS
  <2>3. RowSound(label, row)
    BY <2>1, <2>2, RowsSound
  <2> DEFINE ends == {j \in DOMAIN row : row[j].score # Unreachable}
             Tops(j) == \A l \in ends : \/ row[l].score < row[j].score
                                        \/ row[l].score = row[j].score /\ j <= l
             last == CHOOSE j \in ends : Tops(j)
  <2>4. \A j \in ends : row[j].score \in Int /\ j \in 0 .. w
    BY <2>1, <2>3 DEF RowSound
  <2>5. CASE ends = {}
    <3>1. FuzzyMatch(query, label) = NoMatch
      BY <1>3, <2>1, <2>2, <2>5 DEF FuzzyMatch, BestPath
    <3> QED  BY <3>1 DEF NoMatch
  <2>6. CASE ends # {}
    <3> DEFINE f == [j \in ends |-> row[j].score]
    <3>1. f \in [ends -> Int] /\ ends \in SUBSET (0 .. w)
      <4> HIDE DEF ends
      <4> QED  BY <2>4
    <3>2. PICK b \in ends : BestOf(ends, f, b)
      <4> HIDE DEF ends, f
      <4> QED  BY <2>6, <3>1, SomeBest
    <3>3. Tops(b)
      <4>1. \A l \in ends : f[l] = row[l].score
        OBVIOUS
      <4>2. \A l \in ends : f[l] < f[b] \/ (f[l] = f[b] /\ b <= l)
        <5> HIDE DEF ends, f
        <5> QED  BY <3>2 DEF BestOf
      <4> HIDE DEF ends, f
      <4> QED  BY <4>1, <4>2
    <3>4. last \in ends
      <4> HIDE DEF ends, Tops
      <4> QED  BY <3>3
    <3>5. FuzzyMatch(query, label).score = row[last].score
      <4>1. FuzzyMatch(query, label) = BestPath(Rows(query, label), n)
        BY <1>3, <2>1 DEF FuzzyMatch
      <4>2. BestPath(Rows(query, label), n).score = row[last].score
        BY <2>2, <2>6, Zenon DEF BestPath
      <4> QED  BY <4>1, <4>2
    <3> HIDE DEF ends, last
    <3> QED  BY <2>4, <3>4, <3>5
  <2> QED  BY <2>5, <2>6
<1> QED  BY <1>1, <1>2, <1>3

LEMMA CatalogIs ==
  /\ ActionIds = {"SplitPaneRight", "SplitPaneDown", "ClosePane", "FocusPaneLeft",
                  "FocusPaneRight", "FocusPaneUp", "FocusPaneDown", "NewTab",
                  "CloseTab", "NextTab", "PreviousTab", "ToggleFullscreen",
                  "ShowCommandPalette", "ReloadConfig", "EnterCopyMode", "Find"}
  /\ Catalog \in Seq(ActionIds) /\ ByCategory \in Seq(ActionIds)
<1> DEFINE ids == {"SplitPaneRight", "SplitPaneDown", "ClosePane", "FocusPaneLeft",
                  "FocusPaneRight", "FocusPaneUp", "FocusPaneDown", "NewTab",
                  "CloseTab", "NextTab", "PreviousTab", "ToggleFullscreen",
                  "ShowCommandPalette", "ReloadConfig", "EnterCopyMode", "Find"}
<1>1. Catalog \in Seq(ids) /\ ByCategory \in Seq(ids)
  BY DEF Catalog, ByCategory
<1>2. \A x \in ids : \E i \in DOMAIN Catalog : Catalog[i] = x
  BY DEF Catalog
<1>3. \A i \in DOMAIN Catalog : Catalog[i] \in ids
  <2> HIDE DEF ids
  <2> QED  BY <1>1
<1>4. ActionIds = ids
  <2>1. ActionIds = {Catalog[i] : i \in DOMAIN Catalog}
    BY DEF ActionIds, ToSet
  <2> HIDE DEF ids
  <2> QED  BY <1>2, <1>3, <2>1
<1> HIDE DEF ids
<1>5. Catalog \in Seq(ActionIds) /\ ByCategory \in Seq(ActionIds)
  BY <1>1, <1>4
<1> QED  BY <1>4, <1>5 DEF ids

Letters == {"c", "d", "e", "f", "l", "m", "n", "p", "r", "s", "t", "u", "x", "_"}

LEMMA LabelsAre == \A id \in ActionIds : Label[id] \in Seq(Letters)
<1>1. Label["SplitPaneRight"] \in Seq(Letters)
  <2>1. Label["SplitPaneRight"] = <<"s", "_", "p", "_", "r">>
    BY DEF Label
  <2>2. <<"s", "_", "p", "_", "r">> \in Seq(Letters)
    BY DEF Letters
  <2> QED  BY <2>1, <2>2
<1>2. Label["SplitPaneDown"] \in Seq(Letters)
  <2>1. Label["SplitPaneDown"] = <<"s", "_", "p", "_", "d">>
    BY DEF Label
  <2>2. <<"s", "_", "p", "_", "d">> \in Seq(Letters)
    BY DEF Letters
  <2> QED  BY <2>1, <2>2
<1>3. Label["ClosePane"] \in Seq(Letters)
  <2>1. Label["ClosePane"] = <<"c", "l", "_", "p", "n">>
    BY DEF Label
  <2>2. <<"c", "l", "_", "p", "n">> \in Seq(Letters)
    BY DEF Letters
  <2> QED  BY <2>1, <2>2
<1>4. Label["FocusPaneLeft"] \in Seq(Letters)
  <2>1. Label["FocusPaneLeft"] = <<"f", "_", "p", "_", "l">>
    BY DEF Label
  <2>2. <<"f", "_", "p", "_", "l">> \in Seq(Letters)
    BY DEF Letters
  <2> QED  BY <2>1, <2>2
<1>5. Label["FocusPaneRight"] \in Seq(Letters)
  <2>1. Label["FocusPaneRight"] = <<"f", "_", "p", "_", "r">>
    BY DEF Label
  <2>2. <<"f", "_", "p", "_", "r">> \in Seq(Letters)
    BY DEF Letters
  <2> QED  BY <2>1, <2>2
<1>6. Label["FocusPaneUp"] \in Seq(Letters)
  <2>1. Label["FocusPaneUp"] = <<"f", "_", "p", "_", "u", "p">>
    BY DEF Label
  <2>2. <<"f", "_", "p", "_", "u", "p">> \in Seq(Letters)
    BY DEF Letters
  <2> QED  BY <2>1, <2>2
<1>7. Label["FocusPaneDown"] \in Seq(Letters)
  <2>1. Label["FocusPaneDown"] = <<"f", "_", "p", "n", "_", "d", "n">>
    BY DEF Label
  <2>2. <<"f", "_", "p", "n", "_", "d", "n">> \in Seq(Letters)
    BY DEF Letters
  <2> QED  BY <2>1, <2>2
<1>8. Label["NewTab"] \in Seq(Letters)
  <2>1. Label["NewTab"] = <<"n", "_", "t">>
    BY DEF Label
  <2>2. <<"n", "_", "t">> \in Seq(Letters)
    BY DEF Letters
  <2> QED  BY <2>1, <2>2
<1>9. Label["CloseTab"] \in Seq(Letters)
  <2>1. Label["CloseTab"] = <<"c", "l", "_", "t">>
    BY DEF Label
  <2>2. <<"c", "l", "_", "t">> \in Seq(Letters)
    BY DEF Letters
  <2> QED  BY <2>1, <2>2
<1>10. Label["NextTab"] \in Seq(Letters)
  <2>1. Label["NextTab"] = <<"n", "x", "_", "t">>
    BY DEF Label
  <2>2. <<"n", "x", "_", "t">> \in Seq(Letters)
    BY DEF Letters
  <2> QED  BY <2>1, <2>2
<1>11. Label["PreviousTab"] \in Seq(Letters)
  <2>1. Label["PreviousTab"] = <<"p", "r", "_", "t">>
    BY DEF Label
  <2>2. <<"p", "r", "_", "t">> \in Seq(Letters)
    BY DEF Letters
  <2> QED  BY <2>1, <2>2
<1>12. Label["ToggleFullscreen"] \in Seq(Letters)
  <2>1. Label["ToggleFullscreen"] = <<"t", "l", "_", "f", "n">>
    BY DEF Label
  <2>2. <<"t", "l", "_", "f", "n">> \in Seq(Letters)
    BY DEF Letters
  <2> QED  BY <2>1, <2>2
<1>13. Label["ShowCommandPalette"] \in Seq(Letters)
  <2>1. Label["ShowCommandPalette"] = <<"s", "_", "c", "n", "_", "p">>
    BY DEF Label
  <2>2. <<"s", "_", "c", "n", "_", "p">> \in Seq(Letters)
    BY DEF Letters
  <2> QED  BY <2>1, <2>2
<1>14. Label["ReloadConfig"] \in Seq(Letters)
  <2>1. Label["ReloadConfig"] = <<"r", "l", "_", "c", "n">>
    BY DEF Label
  <2>2. <<"r", "l", "_", "c", "n">> \in Seq(Letters)
    BY DEF Letters
  <2> QED  BY <2>1, <2>2
<1>15. Label["EnterCopyMode"] \in Seq(Letters)
  <2>1. Label["EnterCopyMode"] = <<"e", "n", "_", "c", "p", "_", "m">>
    BY DEF Label
  <2>2. <<"e", "n", "_", "c", "p", "_", "m">> \in Seq(Letters)
    BY DEF Letters
  <2> QED  BY <2>1, <2>2
<1>16. Label["Find"] \in Seq(Letters)
  <2>1. Label["Find"] = <<"f", "n">>
    BY DEF Label
  <2>2. <<"f", "n">> \in Seq(Letters)
    BY DEF Letters
  <2> QED  BY <2>1, <2>2
<1> QED  BY <1>1, <1>2, <1>3, <1>4, <1>5, <1>6, <1>7, <1>8, <1>9, <1>10, <1>11, <1>12, <1>13, <1>14, <1>15, <1>16, CatalogIs

\* The order of the results has a place for each.
LEMMA InOrderIs ==
  ASSUME NEW S, NEW m \in Seq(S), \A i \in 1 .. Len(m) : m[i].score \in Int /\ m[i].id \in ActionIds
  PROVE  InOrder(m) \in Seq({m[i] : i \in 1 .. Len(m)})
<1> DEFINE n == Len(m)
<1>1. n \in Nat /\ n = Len(m)
  OBVIOUS
<1> DEFINE size(i) == Len(Label[m[i].id])
           before(i, j) == \/ m[i].score > m[j].score
                           \/ /\ m[i].score = m[j].score
                              /\ \/ size(i) < size(j)
                                 \/ size(i) = size(j) /\ i < j
           R == {p \in (1 .. n) \X (1 .. n) : before(p[1], p[2])}
<1>2. \A i \in 1 .. n : size(i) \in Nat /\ m[i].score \in Int
  <2>1. \A i \in 1 .. n : m[i].id \in ActionIds /\ m[i].score \in Int
    BY <1>1
  <2>2. \A i \in 1 .. n : Label[m[i].id] \in Seq(Letters)
    BY <2>1, LabelsAre
  <2> QED  BY <2>1, <2>2
<1>3. \A i, j \in 1 .. n : <<i, j>> \in R <=> before(i, j)
  <2> HIDE DEF n, before
  <2> QED  OBVIOUS
<1>4. Ordering(n, R)
  <2>1. \A i \in 1 .. n : ~ before(i, i)
    <3> HIDE DEF n, size
    <3> QED  BY <1>2
  <2>2. \A i, j \in 1 .. n : i # j => before(i, j) \/ before(j, i)
    <3> HIDE DEF n, size
    <3> QED  BY <1>2
  <2>3. \A i, j, k \in 1 .. n : before(i, j) /\ before(j, k) => before(i, k)
    <3> HIDE DEF n, size
    <3> QED  BY <1>2
  <2> HIDE DEF n, before, R
  <2> QED  BY <1>3, <2>1, <2>2, <2>3 DEF Ordering
<1> DEFINE place(i) == Cardinality({j \in 1 .. n : before(j, i)}) + 1
           at(k) == CHOOSE i \in 1 .. n : place(i) = k
<1>5. \A i \in 1 .. n : place(i) = PlaceIn(n, R, i)
  <2> TAKE i \in 1 .. n
  <2>1. {j \in 1 .. n : before(j, i)} = {j \in 1 .. n : <<j, i>> \in R}
    <3> HIDE DEF n, before, R
    <3> QED  BY <1>3
  <2> HIDE DEF n, before, R
  <2> QED  BY <2>1 DEF PlaceIn
<1>6. \A k \in 1 .. n : at(k) \in 1 .. n
  <2> TAKE k \in 1 .. n
  <2>1. \E i \in 1 .. n : PlaceIn(n, R, i) = k
    <3> HIDE DEF n, R
    <3> QED  BY <1>1, <1>4, EveryPlace
  <2>2. \E i \in 1 .. n : place(i) = k
    <3> HIDE DEF n, place, R
    <3> QED  BY <1>5, <2>1
  <2> HIDE DEF n, place
  <2> QED  BY <2>2
<1>7. InOrder(m) = [k \in 1 .. n |-> m[at(k)]]
  BY Zenon DEF InOrder
<1>8. \A k \in 1 .. n : m[at(k)] \in {m[i] : i \in 1 .. n}
  <2> HIDE DEF n, at
  <2> QED  BY <1>6
<1>9. [k \in 1 .. n |-> m[at(k)]] \in Seq({m[i] : i \in 1 .. n})
  <2>1. PICK T : T = {m[i] : i \in 1 .. n}
    OBVIOUS
  <2>2. PICK q : q = [k \in 1 .. n |-> m[at(k)]]
    OBVIOUS
  <2> HIDE DEF n, at
  <2>3. q \in [1 .. n -> T]
    BY <1>8, <2>1, <2>2
  <2>4. q \in Seq(T)
    BY <1>1, <2>3
  <2> QED  BY <2>1, <2>2, <2>4
<1> HIDE DEF n, at
<1> QED  BY <1>1, <1>7, <1>9

\* What the palette may show for any query: results of the catalog.
Shows(results) ==
    /\ \E S : results \in Seq(S)
    /\ \A i \in DOMAIN results : results[i].id \in ActionIds

LEMMA RankedShows ==
  ASSUME NEW S, NEW query \in Seq(S), NEW ctx
  PROVE  Shows(Ranked(query, ctx))
<1> DEFINE found == {id \in ActionIds : Performable(id, ctx) /\ FuzzyMatch(query, Label[id]).found}
           ids == SelectIn(Catalog, found)
           scored(id, m) == [id |-> id, score |-> m.score, at |-> m.at]
           all == [i \in 1..Len(ids) |-> scored(ids[i], FuzzyMatch(query, Label[ids[i]]))]
<1>1. ids \in Seq(found)
  <2> HIDE DEF found
  <2> QED  BY CatalogIs, SelectInIs
<1>2. PICK n \in Nat : n = Len(ids)
  <2> HIDE DEF found, ids
  <2> QED  BY <1>1
<1>3. \A i \in 1 .. n : ids[i] \in ActionIds
  <2>1. \A i \in 1 .. n : ids[i] \in found
    <3> HIDE DEF found, ids
    <3> QED  BY <1>1, <1>2
  <2> HIDE DEF ids
  <2> QED  BY <2>1
<1>4. all = [i \in 1 .. n |-> scored(ids[i], FuzzyMatch(query, Label[ids[i]]))]
  BY <1>2
<1>5. \A i \in 1 .. n : all[i].id = ids[i] /\ all[i].score = FuzzyMatch(query, Label[ids[i]]).score
  <2> HIDE DEF ids, all
  <2> QED  BY <1>4
<1>6. \A i \in 1 .. n : FuzzyMatch(query, Label[ids[i]]).score \in Int
  <2> HIDE DEF ids, all
  <2> QED  BY <1>3, LabelsAre, MatchScores
<1>7. PICK T : T = {all[i] : i \in 1 .. n}
  OBVIOUS
<1>8. all \in Seq(T) /\ Len(all) = n
  <2> HIDE DEF ids, scored
  <2> QED  BY <1>4, <1>7
<1>9. InOrder(all) \in Seq({all[i] : i \in 1 .. n})
  <2>1. \A i \in 1 .. n : all[i].score \in Int /\ all[i].id \in ActionIds
    <3> HIDE DEF ids, all
    <3> QED  BY <1>3, <1>5, <1>6
  <2> HIDE DEF all, ids
  <2> QED  BY <1>8, <2>1, InOrderIs
<1>10. \A i \in DOMAIN InOrder(all) : InOrder(all)[i].id \in ActionIds
  <2>1. \A i \in DOMAIN InOrder(all) : InOrder(all)[i] \in {all[j] : j \in 1 .. n}
    <3> HIDE DEF all, ids
    <3> QED  BY <1>9
  <2>2. \A j \in 1 .. n : all[j].id \in ActionIds
    <3> HIDE DEF all, ids
    <3> QED  BY <1>3, <1>5
  <2> HIDE DEF all, ids
  <2> QED  BY <2>1, <2>2
<1>11. Ranked(query, ctx) = InOrder(all)
  BY Zenon DEF Ranked
<1> HIDE DEF all, ids
<1> QED  BY <1>9, <1>10, <1>11 DEF Shows

LEMMA DefaultShows ==
  ASSUME NEW recent \in Seq(ActionIds), NEW ctx
  PROVE  Shows(DefaultView(recent, ctx))
<1> DEFINE fit == {id \in ActionIds : Performable(id, ctx)}
           ids == SelectIn(recent, fit) \o SelectIn(ByCategory, fit \ ToSet(recent))
<1>1. SelectIn(recent, fit) \in Seq(ActionIds)
  <2>1. SelectIn(recent, fit) \in Seq(fit)
    <3> HIDE DEF fit
    <3> QED  BY SelectInIs
  <2>2. fit \subseteq ActionIds
    OBVIOUS
  <2> HIDE DEF fit
  <2> QED  BY <2>1, <2>2
<1>2. SelectIn(ByCategory, fit \ ToSet(recent)) \in Seq(ActionIds)
  <2>1. SelectIn(ByCategory, fit \ ToSet(recent)) \in Seq(fit \ ToSet(recent))
    <3> HIDE DEF fit
    <3> QED  BY CatalogIs, SelectInIs
  <2>2. fit \ ToSet(recent) \subseteq ActionIds
    OBVIOUS
  <2> HIDE DEF fit
  <2> QED  BY <2>1, <2>2
<1>3. ids \in Seq(ActionIds)
  <2> HIDE DEF fit
  <2> QED  BY <1>1, <1>2
<1>4. DefaultView(recent, ctx) = Found(ids)
  BY DEF DefaultView
<1>5. PICK S : S = {[id |-> x, score |-> 0, at |-> <<>>] : x \in ActionIds}
  OBVIOUS
<1>6. PICK n \in Nat : n = Len(ids) /\ \A i \in 1 .. n : ids[i] \in ActionIds
  <2> HIDE DEF ids
  <2> QED  BY <1>3
<1>7. Found(ids) = [i \in 1 .. n |-> [id |-> ids[i], score |-> 0, at |-> <<>>]]
  <2> HIDE DEF ids
  <2> QED  BY <1>6 DEF Found
<1>8. Found(ids) \in Seq(S)
  <2> HIDE DEF ids
  <2> QED  BY <1>5, <1>6, <1>7
<1>9. \A i \in DOMAIN Found(ids) : Found(ids)[i].id \in ActionIds
  <2> HIDE DEF ids
  <2> QED  BY <1>6, <1>7
<1> HIDE DEF ids
<1> QED  BY <1>4, <1>8, <1>9 DEF Shows

LEMMA ResultsShow ==
  ASSUME NEW S, NEW query \in Seq(S), NEW recent \in Seq(ActionIds), NEW ctx
  PROVE  Shows(Results(query, recent, ctx))
<1>1. PICK q : q = Scoped(query)
  OBVIOUS
<1>2. q.text \in Seq(S)
  BY <1>1 DEF Scoped
<1>3. Shows(<<>>)
  <2>1. <<>> \in Seq({})
    OBVIOUS
  <2> QED  BY <2>1 DEF Shows
<1>4. Shows(Ranked(q.text, ctx))
  BY <1>2, RankedShows
<1>5. Shows(DefaultView(recent, ctx))
  BY DefaultShows
<1> QED  BY <1>1, <1>3, <1>4, <1>5 DEF Results

LEMMA RefreshedSound ==
  ASSUME NEW p, PaletteSound(p), NEW S, NEW query \in Seq(S), NEW ctx
  PROVE  /\ PaletteSound(Refreshed(p, query, ctx))
         /\ Refreshed(p, query, ctx).visible = p.visible
<1>1. PICK r : r = Results(query, p.recent, ctx)
  OBVIOUS
<1>2. Shows(r)
  BY <1>1, ResultsShow DEF PaletteSound
<1>3. Refreshed(p, query, ctx) = [p EXCEPT !.query = query, !.selected = 1, !.window = 1, !.results = r]
  BY <1>1 DEF Refreshed
<1> QED  BY <1>2, <1>3 DEF PaletteSound, PaletteFields, Shows

LEMMA PaletteMoves ==
  ASSUME NEW p, PaletteSound(p), NEW ctx
  PROVE  /\ PaletteSound(ClosePalette(p)) /\ ~ ClosePalette(p).visible
         /\ PaletteSound(OpenPalette(p, ctx)) /\ OpenPalette(p, ctx).visible
         /\ PaletteSound(MoveUp(p)) /\ MoveUp(p).visible = p.visible
         /\ PaletteSound(MoveDown(p)) /\ MoveDown(p).visible = p.visible
<1>1. PaletteSound(ClosePalette(p)) /\ ~ ClosePalette(p).visible
  BY DEF ClosePalette, PaletteSound, PaletteFields
<1>2. PaletteSound(OpenPalette(p, ctx)) /\ OpenPalette(p, ctx).visible
  <2>1. PICK o : o = [p EXCEPT !.visible = TRUE]
    OBVIOUS
  <2>2. PaletteSound(o) /\ o.visible
    BY <2>1 DEF PaletteSound, PaletteFields
  <2>3. <<>> \in Seq({})
    OBVIOUS
  <2>4. OpenPalette(p, ctx) = Refreshed(o, <<>>, ctx)
    BY <2>1 DEF OpenPalette
  <2>5. PaletteSound(Refreshed(o, <<>>, ctx)) /\ Refreshed(o, <<>>, ctx).visible = o.visible
    BY <2>2, <2>3, RefreshedSound
  <2> QED  BY <2>2, <2>4, <2>5
<1>3. PaletteSound(MoveUp(p)) /\ MoveUp(p).visible = p.visible
  BY DEF MoveUp, PaletteSound, PaletteFields
<1>4. PaletteSound(MoveDown(p)) /\ MoveDown(p).visible = p.visible
  BY DEF MoveDown, PaletteSound, PaletteFields
<1> QED  BY <1>1, <1>2, <1>3, <1>4

LEMMA InputSound ==
  ASSUME NEW p, PaletteSound(p), NEW ctx, NEW c
  PROVE  /\ PaletteSound(InputChar(p, c, ctx)) /\ InputChar(p, c, ctx).visible = p.visible
         /\ PaletteSound(Backspaced(p, ctx)) /\ Backspaced(p, ctx).visible = p.visible
<1>1. PICK S : p.query \in Seq(S)
  BY DEF PaletteSound
<1>2. Append(p.query, c) \in Seq(S \cup {c})
  <2>1. p.query \in Seq(S \cup {c})
    BY <1>1
  <2> QED  BY <2>1
<1>3. p.query # <<>> => Front(p.query) \in Seq(S)
  BY <1>1 DEF Front
<1>4. (IF p.query = <<>> THEN <<>> ELSE Front(p.query)) \in Seq(S)
  BY <1>1, <1>3
<1> QED  BY <1>2, <1>4, RefreshedSound DEF InputChar, Backspaced

LEMMA ConfirmedSound ==
  ASSUME NEW p, PaletteSound(p), CanConfirm(p)
  PROVE  /\ PaletteSound(Confirmed(p)) /\ ~ Confirmed(p).visible
         /\ p.results[p.selected].id \in ActionIds
<1>1. PICK id : id = p.results[p.selected].id
  OBVIOUS
<1>2. id \in ActionIds
  <2>1. p.selected \in 1 .. Len(p.results) /\ DOMAIN p.results = 1 .. Len(p.results)
    BY DEF PaletteSound, CanConfirm
  <2> QED  BY <1>1, <2>1 DEF PaletteSound
<1>3. SelectIn(p.recent, ActionIds \ {id}) \in Seq(ActionIds)
  <2>1. SelectIn(p.recent, ActionIds \ {id}) \in Seq(ActionIds \ {id})
    BY SelectInIs DEF PaletteSound
  <2> QED  BY <2>1
<1>4. PICK all : all = <<id>> \o SelectIn(p.recent, ActionIds \ {id})
  OBVIOUS
<1>5. all \in Seq(ActionIds)
  BY <1>2, <1>3, <1>4
<1>6. PICK r : r = SubSeq(all, 1, IF Len(all) < 5 THEN Len(all) ELSE 5)
  OBVIOUS
<1>7. r \in Seq(ActionIds)
  BY <1>5, <1>6
<1>8. Confirmed(p) = [p EXCEPT !.visible = FALSE, !.recent = r]
  BY <1>1, <1>4, <1>6 DEF Confirmed
<1> QED  BY <1>1, <1>2, <1>7, <1>8 DEF PaletteSound, PaletteFields

-----------------------------------------------------------------------------
(***************************************************************************)
(* The handlers, piece by piece.                                           *)
(***************************************************************************)
\* A piece that sends nothing and touches neither leader, palette nor script.
Quiet(s, t) ==
    /\ Shape(t) /\ Hands(s, t)
    /\ t.out = s.out /\ t.pending = s.pending /\ t.palette = s.palette
    /\ t.file = s.file /\ t.lua = s.lua

LEMMA LiveQuiet ==
  ASSUME NEW s, Shape(s), NEW pane \in Panes
  PROVE  Quiet(s, ReturnToLive(s, pane)) /\ ReturnToLive(s, pane).focus = s.focus
BY DEF Quiet, Shape, ReturnToLive, AppFields, Screened, Scripted, Waiting, Settings, Linked, Hands, Panes, Pages

LEMMA AllLiveQuiet ==
  ASSUME NEW s, Shape(s)
  PROVE  Quiet(s, AllLive(s))
BY DEF Quiet, Shape, AllLive, AppFields, Screened, Scripted, Waiting, Settings, Linked, Hands, Panes, Pages

LEMMA BlinkQuiet ==
  ASSUME NEW s, Shape(s), NEW blink \in BOOLEAN
  PROVE  Quiet(s, [s EXCEPT !.blink = blink])
BY DEF Quiet, Shape, AppFields, Screened, Scripted, Waiting, Settings, Linked, Hands, Panes, Pages

LEMMA Loads ==
  ASSUME NEW d \in DOMAIN Directories
  PROVE  /\ Loaded[d] \in LoadResults
         /\ Loaded[d].config.leader \in BOOLEAN /\ Loaded[d].config.blink \in BOOLEAN
         /\ Loaded[d].error \in BOOLEAN /\ Loaded[d].vm \in BOOLEAN
BY InputAssumption DEF LoadResults

LEMMA ResetQuiet ==
  ASSUME NEW s, Shape(s)
  PROVE  Quiet(s, ResetBlink(s)) /\ ResetBlink(s).focus = s.focus
<1>1. ShouldBlink(s) \in BOOLEAN
  BY DEF ShouldBlink
<1>2. ResetBlink(s).focus = s.focus
  BY DEF ResetBlink, Shape, AppFields
<1> QED  BY <1>1, <1>2, BlinkQuiet DEF ResetBlink

LEMMA ScrollQuiet ==
  ASSUME NEW s, Shape(s), NEW by \in Int
  PROVE  Quiet(s, Scroll(s, by)) /\ Scroll(s, by).focus = s.focus
<1>1. s.focus \in Panes /\ s.offset[s.focus] \in 0 .. 2
  BY DEF Shape, Screened, Panes, Pages
<1>2. PICK to \in Int : to = s.offset[s.focus] + by
  BY <1>1
<1>3. CASE to <= 0
  BY <1>1, <1>2, <1>3, LiveQuiet DEF Scroll
<1>4. CASE ~ to <= 0
  <2>1. PICK o : o = IF to > 2 THEN 2 ELSE to
    OBVIOUS
  <2>2. o \in Pages
    BY <1>4, <2>1 DEF Pages
  <2>3. Scroll(s, by) = [s EXCEPT !.offset[s.focus] = o, !.copying = @ \ {s.focus}]
    BY <1>2, <1>4, <2>1 DEF Scroll
  <2>4. Quiet(s, [s EXCEPT !.offset[s.focus] = o, !.copying = @ \ {s.focus}])
    BY <1>1, <2>2 DEF Quiet, Shape, AppFields, Screened, Scripted, Waiting, Settings, Linked, Hands
  <2>5. [s EXCEPT !.offset[s.focus] = o, !.copying = @ \ {s.focus}].focus = s.focus
    BY DEF Shape, AppFields
  <2> QED  BY <2>3, <2>4, <2>5
<1> QED  BY <1>2, <1>3, <1>4

LEMMA EnterQuiet ==
  ASSUME NEW s, Shape(s)
  PROVE  Quiet(s, EnterCopyMode(s))
<1>1. CASE ~ CopySupported
  BY <1>1 DEF EnterCopyMode, Quiet, Shape, Hands
<1>2. CASE CopySupported /\ s.link = "up"
  <2>1. EnterCopyMode(s) = [[s EXCEPT !.selecting = FALSE] EXCEPT !.copying = @ \cup {s.focus}]
    BY <1>2 DEF EnterCopyMode
  <2> QED  BY <1>2, <2>1 DEF Quiet, Shape, AppFields, Screened, Scripted, Waiting, Settings, Linked, Hands
<1>3. CASE CopySupported /\ s.link # "up"
  <2>1. EnterCopyMode(s) = [[s EXCEPT !.selecting = FALSE] EXCEPT !.copying = @ \ {s.focus}, !.link = "none"]
    BY <1>3 DEF EnterCopyMode
  <2> QED  BY <1>3, <2>1 DEF Quiet, Shape, AppFields, Screened, Scripted, Waiting, Settings, Linked, Hands
<1> QED  BY <1>1, <1>2, <1>3, InputAssumption

LEMMA AskQuiet ==
  ASSUME NEW s, Shape(s), NEW what
  PROVE  Quiet(s, Ask(s, what))
BY DEF Ask, Quiet, Shape, AppFields, Screened, Scripted, Waiting, Settings, Linked, Hands

\* Only a command asks for the palette, and no leader waits then.
LEMMA CommandIs ==
  ASSUME NEW s, Shape(s), ~ s.pending.on, NEW action
  PROVE  /\ Shape(Command(s, action)) /\ Hands(s, Command(s, action))
         /\ Command(s, action).out = s.out /\ Command(s, action).pending = s.pending
<1>1. CASE action.type = "SplitPane" \/ action.type = "ClosePane"
  BY <1>1, AskQuiet DEF Command, Quiet
<1>2. CASE action.type = "FocusPane"
  <2>1. CASE Neighbour(s, action.arg) = 0
    BY <1>2, <2>1 DEF Command, Hands
  <2>2. CASE Neighbour(s, action.arg) # 0
    <3>1. s.panes = Panes /\ Neighbour(s, action.arg) \in Panes
      BY <2>2 DEF Neighbour, Panes
    <3>2. Command(s, action) = [s EXCEPT !.focus = Neighbour(s, action.arg)]
      BY <1>2, <2>2 DEF Command
    <3> QED  BY <3>1, <3>2 DEF Shape, AppFields, Screened, Scripted, Waiting, Settings, Linked, Hands
  <2> QED  BY <2>1, <2>2
<1>3. CASE action.type = "EnterCopyMode"
  BY <1>3, EnterQuiet DEF Command, Quiet
<1>4. CASE action.type = "Find"
  <2>1. Command(s, action) = IF InCopyMode(s) THEN s ELSE EnterCopyMode(s)
    BY <1>4 DEF Command
  <2> QED  BY <2>1, EnterQuiet DEF Quiet, Hands
<1>5. CASE action.type = "ShowCommandPalette"
  <2>1. PICK p : p = OpenPalette(s.palette, Context(s))
    OBVIOUS
  <2>2. PaletteSound(p)
    BY <2>1, PaletteMoves DEF Shape
  <2>3. PICK ctx : ctx = Context(s)
    OBVIOUS
  <2>4. Command(s, action) = [s EXCEPT !.palette = p, !.shown = ctx]
    BY <1>5, <2>1, <2>3 DEF Command
  <2> QED  BY <2>2, <2>4 DEF Shape, AppFields, Screened, Scripted, Waiting, Settings, Linked, Hands
<1>6. CASE action.type \notin {"SplitPane", "ClosePane", "FocusPane", "EnterCopyMode", "Find", "ShowCommandPalette"}
  <2>1. Command(s, action) = s
    BY <1>6 DEF Command
  <2> QED  BY <2>1 DEF Hands
<1> QED  BY <1>1, <1>2, <1>3, <1>4, <1>5, <1>6

-----------------------------------------------------------------------------
(***************************************************************************)
(* What is sent.  The keys of an output stand first, at most two of them.  *)
(***************************************************************************)
KeysAre(out, ns, pane) ==
    /\ KeysIn(out) = DOMAIN ns
    /\ \A i \in DOMAIN ns : out[i].n = ns[i] /\ out[i].pane = pane

\* A handler's outcome: the keys ns go to the focused pane.
Outcome(s, t, ns) ==
    Shape(t) /\ Hands(s, t) /\ Sent(t) /\ KeysAre(t.out, ns, s.focus)

Item(s, kind, n, name) == [kind |-> kind, pane |-> s.focus, n |-> n, name |-> name]

LEMMA QuietOutcome ==
  ASSUME NEW s, s.out = <<>>, NEW t, Shape(t), Hands(s, t), t.out = s.out
  PROVE  Outcome(s, t, <<>>)
<1>1. <<>> \in Seq({}) /\ DOMAIN <<>> = {}
  OBVIOUS
<1> QED  BY <1>1 DEF Outcome, Sent, KeysAre, KeysIn

LEMMA EmitIs ==
  ASSUME NEW s, Shape(s), NEW kind, NEW n, NEW name
  PROVE  LET t == Emit(s, kind, n, name)
         IN /\ Shape(t) /\ Hands(s, t)
            /\ t.out = Append(s.out, Item(s, kind, n, name))
            /\ t.pending = s.pending /\ t.lua = s.lua /\ t.focus = s.focus /\ t.copying = s.copying
            /\ t.palette = s.palette /\ t.link = s.link /\ t.exiting = s.exiting
BY DEF Emit, Item, Shape, AppFields, Screened, Scripted, Waiting, Settings, Linked, Hands

\* A first item that is no key.
LEMMA OtherOutcome ==
  ASSUME NEW s, Shape(s), s.out = <<>>, NEW kind \in {"call", "text", "mouse"}, NEW n, NEW name,
         kind = "call" => n = s.lua /\ s.lua # 0
  PROVE  Outcome(s, Emit(s, kind, n, name), <<>>)
<1>1. PICK t : t = Emit(s, kind, n, name)
  OBVIOUS
<1>2. Shape(t) /\ Hands(s, t) /\ t.out = Append(s.out, Item(s, kind, n, name)) /\ t.lua = s.lua
  BY <1>1, EmitIs
<1>3. PICK item : item = Item(s, kind, n, name)
  OBVIOUS
<1>4. item.kind = kind /\ item.n = n
  BY <1>3 DEF Item
<1>5. t.out = <<item>>
  BY <1>2, <1>3
<1>6. DOMAIN t.out = {1} /\ t.out[1] = item /\ t.out \in Seq({item})
  BY <1>5
<1>7. Sent(t)
  BY <1>2, <1>4, <1>6 DEF Sent
<1>8. KeysAre(t.out, <<>>, s.focus)
  <2>1. KeysIn(t.out) = {}
    BY <1>4, <1>6 DEF KeysIn
  <2>2. DOMAIN <<>> = {}
    OBVIOUS
  <2> QED  BY <2>1, <2>2 DEF KeysAre
<1> QED  BY <1>1, <1>2, <1>7, <1>8 DEF Outcome

\* Handlers are called in a sequence.
LEMMA CallsAre ==
  ASSUME NEW s, s.file \in DOMAIN Directories, NEW event \in KnownEvents
  PROVE  \E n \in Nat : DOMAIN Calls(s, Handlers[s.file][event]) = 1 .. n
<1> DEFINE all == Loaded[s.file].events
           own == {i \in DOMAIN all : all[i].event = event}
           run == {i \in own : \A j \in own : j < i => all[j].handler # "cancels"}
           ones == [i \in DOMAIN all |-> i]
           order == SelectIn(ones, run)
<1>1. PICK m \in Nat : DOMAIN all = 1 .. m
  BY Loads DEF LoadResults
<1>2. ones \in Seq(1 .. m)
  <2> HIDE DEF all
  <2> QED  BY <1>1
<1>3. order \in Seq(run)
  <2> HIDE DEF ones, run
  <2> QED  BY <1>2, SelectInIs
<1>4. PICK n \in Nat : DOMAIN order = 1 .. n
  <2> HIDE DEF order, run
  <2> QED  BY <1>3
<1>5. PICK hs : hs = HandlersOf(all, event)
  OBVIOUS
<1>6. DOMAIN hs = 1 .. n
  <2>1. HandlersOf(all, event) = [k \in DOMAIN order |-> all[order[k]].handler]
    BY DEF HandlersOf
  <2> HIDE DEF order, all
  <2> QED  BY <1>4, <1>5, <2>1
<1>7. Handlers[s.file][event] = hs
  <2>1. Handlers[s.file] = [e \in KnownEvents |-> HandlersOf(Loaded[s.file].events, e)]
    BY DEF Handlers
  <2>2. Handlers[s.file][event] = HandlersOf(Loaded[s.file].events, event)
    BY <2>1
  <2> QED  BY <1>5, <2>2
<1>8. DOMAIN Calls(s, hs) = 1 .. n
  BY <1>6 DEF Calls
<1> QED  BY <1>7, <1>8

LEMMA FireIs ==
  ASSUME NEW s, Shape(s), NEW ns, NEW event \in KnownEvents, Sent(s),
         KeysAre(s.out, ns, s.focus)
  PROVE  /\ Outcome(s, Fire(s, event), ns)
         /\ Fire(s, event).pending = s.pending
<1>1. CASE s.lua = 0
  BY <1>1 DEF Fire, Outcome, Hands
<1>2. CASE s.lua # 0
  <2>1. PICK calls : calls = Calls(s, Handlers[s.file][event])
    OBVIOUS
  <2>2. PICK n \in Nat : DOMAIN calls = 1 .. n
    BY <2>1, CallsAre DEF Shape, Scripted
  <2>3. \A k \in 1 .. n : calls[k].kind = "call" /\ calls[k].n = s.lua
    BY <2>1, <2>2 DEF Calls, Shape, Scripted
  <2>4. PICK t : t = Fire(s, event)
    OBVIOUS
  <2>5. t = [s EXCEPT !.out = @ \o calls]
    BY <1>2, <2>1, <2>4 DEF Fire
  <2>6. /\ Shape(t) /\ Hands(s, t) /\ t.out = s.out \o calls
        /\ t.pending = s.pending /\ t.lua = s.lua
    BY <2>5 DEF Shape, AppFields, Screened, Scripted, Waiting, Settings, Linked, Hands
  <2>7. PICK S : s.out \in Seq(S)
    BY DEF Sent
  <2>8. PICK T : T = {calls[k] : k \in 1 .. n}
    OBVIOUS
  <2>9. calls \in Seq(T) /\ Len(calls) = n
    <3>1. calls = [k \in 1 .. n |-> calls[k]]
      BY <2>1, <2>2 DEF Calls
    <3> QED  BY <2>8, <3>1
  <2>10. PICK m \in Nat : m = Len(s.out) /\ DOMAIN s.out = 1 .. m
    BY <2>7
  <2>11. s.out \in Seq(S \cup T) /\ calls \in Seq(S \cup T)
    BY <2>7, <2>9
  <2>12. PICK out : out = s.out \o calls
    OBVIOUS
  <2>13. out \in Seq(S \cup T) /\ DOMAIN out = 1 .. m + n
    <3>1. out \in Seq(S \cup T)
      BY <2>11, <2>12
    <3>2. Len(out) = m + n
      <4>1. Len(s.out \o calls) = Len(s.out) + Len(calls)
        BY <2>11, ConcatProperties
      <4> QED  BY <2>9, <2>10, <2>12, <4>1
    <3> QED  BY <3>1, <3>2
  <2>14. \A i \in 1 .. m : out[i] = s.out[i]
    BY <2>9, <2>10, <2>11, <2>12
  <2>15. \A i \in 1 .. m + n : i > m => out[i] = calls[i - m] /\ i - m \in 1 .. n
    BY <2>9, <2>10, <2>11, <2>12
  <2>16. \A i \in 1 .. m + n : i \in 1 .. m \/ (out[i].kind = "call" /\ out[i].n = s.lua)
    BY <2>3, <2>15
  <2>17. Sent(t)
    BY <1>2, <2>6, <2>10, <2>12, <2>13, <2>14, <2>16 DEF Sent
  <2>18. KeysIn(out) = KeysIn(s.out)
    <3>1. \A i : i \in KeysIn(out) <=> i \in 1 .. m + n /\ out[i].kind = "key"
      BY <2>13 DEF KeysIn
    <3>2. \A i : i \in KeysIn(s.out) <=> i \in 1 .. m /\ s.out[i].kind = "key"
      BY <2>10 DEF KeysIn
    <3>3. \A i \in 1 .. m : i \in 1 .. m + n
      OBVIOUS
    <3>4. \A i : i \in KeysIn(out) <=> i \in KeysIn(s.out)
      BY <2>14, <2>16, <3>1, <3>2, <3>3
    <3> QED  BY <3>4
  <2>19. KeysAre(out, ns, s.focus)
    <3>1. KeysIn(s.out) \subseteq 1 .. m
      BY <2>10 DEF KeysIn
    <3> QED  BY <2>14, <2>18, <3>1 DEF KeysAre
  <2> QED  BY <2>4, <2>6, <2>12, <2>17, <2>19 DEF Outcome
<1> QED  BY <1>1, <1>2

\* What FlushLeader and TrySend do not touch.
Rest(s, t) ==
    /\ DOMAIN t = AppFields
    /\ t.panes = s.panes /\ t.focus = s.focus /\ t.asked = s.asked /\ t.copying = s.copying
    /\ t.offset = s.offset /\ t.palette = s.palette /\ t.shown = s.shown /\ t.file = s.file
    /\ t.binds = s.binds /\ t.events = s.events /\ t.lua = s.lua /\ t.held = s.held
    /\ t.problem = s.problem /\ t.chrome = s.chrome /\ t.suppressed = s.suppressed
    /\ t.drag = s.drag /\ t.selecting = s.selecting /\ t.active = s.active /\ t.blink = s.blink

Flushes(s) == s.pending.key # 0 /\ ~ InCopyMode(s) /\ s.link = "up"

Flushed(s) == IF Flushes(s) THEN <<s.pending.key>> ELSE <<>>

LEMMA TrySendIs ==
  ASSUME NEW s, DOMAIN s = AppFields, s.link \in {"up", "broken", "none"}, NEW key
  PROVE  LET t == TrySend(s, key)
         IN /\ Rest(s, t) /\ t.pending = s.pending /\ t.exiting = s.exiting
            /\ t.link \in {"up", "broken", "none"}
            /\ t.out = IF s.link = "up" THEN Append(s.out, Item(s, "key", key, "")) ELSE s.out
<1>1. CASE s.link = "none"
  BY <1>1 DEF TrySend, Rest
<1>2. CASE s.link = "broken"
  BY <1>2 DEF TrySend, Rest, AppFields
<1>3. CASE s.link = "up"
  BY <1>3 DEF TrySend, Emit, Item, Rest, AppFields
<1> QED  BY <1>1, <1>2, <1>3

LEMMA FlushIs ==
  ASSUME NEW s, DOMAIN s = AppFields, s.link \in {"up", "broken", "none"}
  PROVE  LET t == FlushLeader(s)
         IN /\ Rest(s, t) /\ t.pending = NotPending /\ t.exiting = s.exiting
            /\ t.link \in {"up", "broken", "none"}
            /\ t.out = IF Flushes(s) THEN Append(s.out, Item(s, "key", s.pending.key, "")) ELSE s.out
<1>1. PICK u : u = [s EXCEPT !.pending = NotPending]
  OBVIOUS
<1>2. Rest(s, u) /\ u.pending = NotPending /\ u.exiting = s.exiting /\ u.link = s.link /\ u.out = s.out
  BY <1>1 DEF Rest, AppFields
<1>3. CASE s.pending.key = 0 \/ InCopyMode(s)
  <2>1. FlushLeader(s) = u
    BY <1>1, <1>3 DEF FlushLeader
  <2> QED  BY <1>2, <1>3, <2>1 DEF Flushes
<1>4. CASE ~ (s.pending.key = 0 \/ InCopyMode(s))
  <2>1. PICK key : key = s.pending.key
    OBVIOUS
  <2>2. FlushLeader(s) = TrySend(u, key)
    BY <1>1, <1>4, <2>1 DEF FlushLeader
  <2>3. DOMAIN u = AppFields /\ u.link \in {"up", "broken", "none"} /\ u.focus = s.focus
    BY <1>2 DEF Rest
  <2>4. PICK t : t = TrySend(u, key)
    OBVIOUS
  <2>5. /\ Rest(u, t) /\ t.pending = u.pending /\ t.exiting = u.exiting
        /\ t.link \in {"up", "broken", "none"}
        /\ t.out = IF u.link = "up" THEN Append(u.out, Item(u, "key", key, "")) ELSE u.out
    BY <2>3, <2>4, TrySendIs
  <2>6. Item(u, "key", key, "") = Item(s, "key", s.pending.key, "")
    BY <2>1, <2>3 DEF Item
  <2>7. Rest(s, t)
    BY <1>2, <2>5 DEF Rest
  <2> QED  BY <1>2, <1>4, <2>2, <2>4, <2>5, <2>6, <2>7 DEF Flushes
<1> QED  BY <1>3, <1>4

\* One key, alone or behind another.
LEMMA KeyOut ==
  ASSUME NEW s, NEW n
  PROVE  LET out == Append(<<>>, Item(s, "key", n, ""))
         IN /\ \E S : out \in Seq(S)
            /\ KeysAre(out, <<n>>, s.focus)
            /\ \A i \in DOMAIN out : out[i].kind = "key"
<1>1. PICK item : item = Item(s, "key", n, "")
  OBVIOUS
<1>2. item.kind = "key" /\ item.n = n /\ item.pane = s.focus
  BY <1>1 DEF Item
<1>3. PICK out : out = Append(<<>>, item)
  OBVIOUS
<1>4. DOMAIN out = {1} /\ out[1] = item /\ out \in Seq({item})
  BY <1>3
<1>5. PICK ns : ns = <<n>>
  OBVIOUS
<1>6. DOMAIN ns = {1} /\ ns[1] = n
  BY <1>5
<1>7. KeysIn(out) = {1}
  BY <1>2, <1>4 DEF KeysIn
<1>8. KeysAre(out, ns, s.focus)
  BY <1>2, <1>4, <1>6, <1>7 DEF KeysAre
<1> QED  BY <1>1, <1>2, <1>3, <1>4, <1>5, <1>8

\* What was sent is these keys and nothing else.
OnlyKeys(out, ns, pane) ==
    /\ \E S : out \in Seq(S)
    /\ KeysAre(out, ns, pane)
    /\ \A i \in DOMAIN out : out[i].kind = "key"

LEMMA TwoKeysOut ==
  ASSUME NEW s, NEW t, t.focus = s.focus, NEW m, NEW n
  PROVE  OnlyKeys(Append(Append(<<>>, Item(s, "key", m, "")), Item(t, "key", n, "")),
                  <<m, n>>, s.focus)
<1>1. PICK one, two : one = Item(s, "key", m, "") /\ two = Item(t, "key", n, "")
  OBVIOUS
<1>2. /\ one.kind = "key" /\ one.n = m /\ one.pane = s.focus
      /\ two.kind = "key" /\ two.n = n /\ two.pane = s.focus
  BY <1>1 DEF Item
<1>3. PICK out : out = Append(Append(<<>>, one), two)
  OBVIOUS
<1>4. DOMAIN out = {1, 2} /\ out[1] = one /\ out[2] = two /\ out \in Seq({one, two})
  BY <1>3
<1>5. PICK ns : ns = <<m, n>>
  OBVIOUS
<1>6. DOMAIN ns = {1, 2} /\ ns[1] = m /\ ns[2] = n
  BY <1>5
<1>7. KeysIn(out) = {1, 2}
  BY <1>2, <1>4 DEF KeysIn
<1>8. KeysAre(out, ns, s.focus)
  BY <1>2, <1>4, <1>6, <1>7 DEF KeysAre
<1>9. OnlyKeys(out, ns, s.focus)
  BY <1>2, <1>4, <1>8 DEF OnlyKeys
<1> QED  BY <1>1, <1>3, <1>5, <1>9, Zenon

-----------------------------------------------------------------------------
(***************************************************************************)
(* Reloading: the new file's VM is live with its own callbacks, and a key  *)
(* held back for the old leader has been sent.                             *)
(***************************************************************************)
LEMMA AdoptIs ==
  ASSUME NEW s, Shape(s), s.out = <<>>, NEW d \in DOMAIN Directories,
         NEW vm \in Nat, vm = 0 => ~ Loaded[d].vm
  PROVE  LET t == Adopt(s, d, vm)
         IN Outcome(s, t, Flushed(s)) /\ t.pending = NotPending /\ t.focus = s.focus
<1>1. PICK p : p = ClosePalette(s.palette)
  OBVIOUS
<1>2. PaletteSound(p) /\ ~ p.visible
  BY <1>1, PaletteMoves DEF Shape
<1>3. PICK u : u = [s EXCEPT !.held = (@ \ {s.lua}) \cup ({vm} \ {0}), !.file = d,
                             !.problem = FALSE, !.binds = vm, !.events = vm, !.palette = p]
  OBVIOUS
<1>4. DOMAIN u = AppFields /\ u.link \in {"up", "broken", "none"}
  BY <1>3 DEF Shape, Linked, AppFields
<1>5. /\ u.panes = s.panes /\ u.focus = s.focus /\ u.copying = s.copying /\ u.offset = s.offset
      /\ u.pending = s.pending /\ u.out = s.out /\ u.chrome = s.chrome /\ u.suppressed = s.suppressed
      /\ u.drag = s.drag /\ u.selecting = s.selecting /\ u.active = s.active /\ u.blink = s.blink
      /\ u.exiting = s.exiting /\ u.link = s.link
      /\ u.palette = p /\ u.file = d /\ u.binds = vm /\ u.events = vm
  BY <1>3 DEF Shape, AppFields
<1>6. u.held = {vm} \ {0}
  BY <1>3 DEF Shape, Scripted, AppFields
<1>7. PICK f : f = FlushLeader(u)
  OBVIOUS
<1>8. /\ Rest(u, f) /\ f.pending = NotPending /\ f.exiting = u.exiting
      /\ f.link \in {"up", "broken", "none"}
      /\ f.out = IF Flushes(u) THEN Append(u.out, Item(u, "key", u.pending.key, "")) ELSE u.out
  BY <1>4, <1>7, FlushIs
<1>9. PICK t : t = [f EXCEPT !.lua = vm]
  OBVIOUS
<1>10. Adopt(s, d, vm) = t
  BY <1>1, <1>3, <1>7, <1>9 DEF Adopt
<1>11. /\ t.lua = vm /\ t.pending = NotPending
       /\ t.exiting = s.exiting /\ t.link = f.link /\ t.out = f.out
  BY <1>5, <1>8, <1>9 DEF Rest, AppFields
<1>12. /\ DOMAIN t = AppFields /\ t.panes = s.panes /\ t.focus = s.focus /\ t.copying = s.copying
       /\ t.offset = s.offset /\ t.palette = p /\ t.file = d /\ t.binds = vm /\ t.events = vm
       /\ t.held = {vm} \ {0} /\ t.blink = s.blink
       /\ Hands(s, t)
  <2>1. /\ DOMAIN t = AppFields /\ t.panes = f.panes /\ t.focus = f.focus /\ t.copying = f.copying
        /\ t.offset = f.offset /\ t.palette = f.palette /\ t.file = f.file /\ t.binds = f.binds
        /\ t.events = f.events /\ t.held = f.held /\ t.blink = f.blink /\ t.drag = f.drag
        /\ t.chrome = f.chrome /\ t.suppressed = f.suppressed /\ t.active = f.active
        /\ t.selecting = f.selecting
    BY <1>8, <1>9 DEF Rest, AppFields
  <2>2. /\ f.panes = u.panes /\ f.focus = u.focus /\ f.copying = u.copying
        /\ f.offset = u.offset /\ f.palette = u.palette /\ f.file = u.file /\ f.binds = u.binds
        /\ f.events = u.events /\ f.held = u.held /\ f.blink = u.blink /\ f.drag = u.drag
        /\ f.chrome = u.chrome /\ f.suppressed = u.suppressed /\ f.active = u.active
        /\ f.selecting = u.selecting
    BY <1>8 DEF Rest
  <2> QED  BY <1>5, <1>6, <2>1, <2>2 DEF Hands
<1>13. Shape(t)
  <2>1. Screened(t)
    BY <1>12 DEF Shape, Screened
  <2>2. Scripted(t)
    BY <1>11, <1>12 DEF Scripted
  <2>3. Waiting(t)
    BY <1>11 DEF Waiting, NotPending
  <2>4. Linked(t)
    BY <1>8, <1>11, <1>12 DEF Shape, Linked, Hands
  <2> QED  BY <1>2, <1>12, <2>1, <2>2, <2>3, <2>4 DEF Shape
<1>14. Flushes(u) = Flushes(s) /\ Item(u, "key", u.pending.key, "") = Item(s, "key", s.pending.key, "")
  BY <1>5 DEF Flushes, InCopyMode, Item
<1>15. KeysAre(t.out, Flushed(s), s.focus) /\ Sent(t)
  <2>1. CASE Flushes(s)
    <3>1. t.out = Append(<<>>, Item(s, "key", s.pending.key, ""))
      BY <1>5, <1>8, <1>11, <1>14, <2>1
    <3>2. Flushed(s) = <<s.pending.key>>
      BY <2>1 DEF Flushed
    <3> QED  BY <3>1, <3>2, KeyOut DEF Sent
  <2>2. CASE ~ Flushes(s)
    <3>1. t.out = <<>> /\ Flushed(s) = <<>>
      BY <1>5, <1>8, <1>11, <1>14, <2>2 DEF Flushed
    <3>2. <<>> \in Seq({}) /\ DOMAIN <<>> = {}
      OBVIOUS
    <3> QED  BY <3>1, <3>2 DEF Sent, KeysAre, KeysIn
  <2> QED  BY <2>1, <2>2
<1> QED  BY <1>10, <1>11, <1>12, <1>13, <1>15 DEF Outcome

LEMMA OutcomeAfterQuiet ==
  ASSUME NEW s, NEW t, NEW ns, Outcome(s, t, ns), NEW u, Quiet(t, u)
  PROVE  Outcome(s, u, ns) /\ u.pending = t.pending
BY DEF Outcome, Quiet, Hands, Sent

LEMMA ReloadIs ==
  ASSUME NEW s, Shape(s), s.out = <<>>, NEW d \in DOMAIN Directories,
         NEW vm \in Nat, vm = 0 => ~ Loaded[d].vm, NEW fontOk \in BOOLEAN
  PROVE  LET t == Reload(s, d, vm, fontOk)
         IN \/ Outcome(s, t, <<>>) /\ t.pending = s.pending
            \/ Outcome(s, t, Flushed(s)) /\ t.pending = NotPending
<1>1. CASE Loaded[d].error
  <2>1. PICK t : t = [s EXCEPT !.problem = TRUE]
    OBVIOUS
  <2>2. Shape(t) /\ Hands(s, t) /\ t.out = s.out /\ t.pending = s.pending
    BY <2>1 DEF Shape, AppFields, Screened, Scripted, Waiting, Settings, Linked, Hands
  <2>3. Reload(s, d, vm, fontOk) = t
    BY <1>1, <2>1 DEF Reload
  <2> QED  BY <2>2, <2>3, QuietOutcome
<1>2. CASE ~ Loaded[d].error
  <2>1. PICK a : a = Adopt(s, d, vm)
    OBVIOUS
  <2>2. Outcome(s, a, Flushed(s)) /\ a.pending = NotPending /\ a.focus = s.focus
    BY <2>1, AdoptIs
  <2>3. PICK was, now : was = Settings(s) /\ now = Loaded[d].config
    OBVIOUS
  <2>4. PICK b : b = IF now.font # was.font THEN ReturnToLive(a, a.focus) ELSE a
    OBVIOUS
  <2>5. Outcome(s, b, Flushed(s)) /\ b.pending = NotPending /\ b.focus = s.focus
    <3>1. Shape(a) /\ a.focus \in Panes
      BY <2>2 DEF Outcome, Shape, Screened, Panes
    <3>2. Quiet(a, ReturnToLive(a, a.focus)) /\ ReturnToLive(a, a.focus).focus = a.focus
      BY <3>1, LiveQuiet
    <3> QED  BY <2>2, <2>4, <3>2, OutcomeAfterQuiet
  <2>6. PICK c : c = IF <<now.statusBar, now.position>> # <<was.statusBar, was.position>>
                     THEN AllLive(b) ELSE b
    OBVIOUS
  <2>7. Outcome(s, c, Flushed(s)) /\ c.pending = NotPending /\ c.focus = s.focus
    <3>1. Shape(b)
      BY <2>5 DEF Outcome
    <3>2. Quiet(b, AllLive(b)) /\ AllLive(b).focus = b.focus
      BY <3>1, AllLiveQuiet DEF AllLive, Shape, AppFields
    <3> QED  BY <2>5, <2>6, <3>2, OutcomeAfterQuiet
  <2>8. PICK e : e = Fire(c, "config.reloaded")
    OBVIOUS
  <2>9. Outcome(s, e, Flushed(s)) /\ e.pending = NotPending
    <3>1. Outcome(c, e, Flushed(s)) /\ e.pending = c.pending
      BY <2>7, <2>8, FireIs DEF Outcome, KnownEvents
    <3> QED  BY <2>7, <3>1 DEF Outcome, Hands
  <2>10. PICK g : g = [a EXCEPT !.problem = TRUE]
    OBVIOUS
  <2>11. Outcome(s, g, Flushed(s)) /\ g.pending = NotPending
    <3>1. Quiet(a, g)
      BY <2>2, <2>10 DEF Outcome, Quiet, Shape, AppFields, Screened, Scripted, Waiting, Settings, Linked, Hands
    <3> QED  BY <2>2, <3>1, OutcomeAfterQuiet
  <2>12. Reload(s, d, vm, fontOk) = IF now.font # was.font /\ ~ fontOk THEN g ELSE e
    BY <1>2, <2>1, <2>3, <2>4, <2>6, <2>8, <2>10, Zenon DEF Reload
  <2> QED  BY <2>9, <2>11, <2>12
<1> QED  BY <1>1, <1>2

-----------------------------------------------------------------------------
(***************************************************************************)
(* Actions: a callback is there to be called, in the VM that is live.      *)
(***************************************************************************)
\* A binding from which a callback may be called.
Callable(s, leader, index) ==
    LET table == IF leader THEN LeaderTable(s) ELSE KeyTable(s)
    IN s.lua # 0 /\ ~ index > Len(table) /\ table[index].action.type = "Callback"

Environment(env) ==
    /\ env.dir \in DOMAIN Directories /\ env.vm \in Nat /\ (env.vm = 0 => ~ Loaded[env.dir].vm)
    /\ env.fontOk \in BOOLEAN

LEMMA ExecuteIs ==
  ASSUME NEW s, Shape(s), s.out = <<>>, ~ s.pending.on, NEW action, NEW leader, NEW index,
         NEW env, Environment(env),
         action.type = "Callback" => Callable(s, leader, index)
  PROVE  LET t == Execute(s, action, leader, index, env)
         IN Outcome(s, t, <<>>) /\ ~ t.pending.on /\ t.pending.key = 0
<1> DEFINE t == Execute(s, action, leader, index, env)
           Fine(u) == Outcome(s, u, <<>>) /\ ~ u.pending.on /\ u.pending.key = 0
<1>1. s.pending.key = 0
  BY DEF Shape, Waiting
<1>2. \A u : Quiet(s, u) => Fine(u)
  BY <1>1, QuietOutcome DEF Quiet
<1>3. CASE action.type = "ScrollUp"
  <2>1. PICK by \in Int : by = IF action.arg = "all" THEN 2 ELSE 1
    OBVIOUS
  <2>2. t = Scroll(s, by)
    BY <1>3, <2>1 DEF Execute
  <2> HIDE DEF t, Fine
  <2> QED  BY <1>2, <2>2, ScrollQuiet DEF t, Fine
<1>4. CASE action.type = "ScrollDown"
  <2>1. PICK by \in Int : by = IF action.arg = "all" THEN -2 ELSE -1
    OBVIOUS
  <2>2. t = Scroll(s, by)
    BY <1>4, <2>1 DEF Execute
  <2> HIDE DEF t, Fine
  <2> QED  BY <1>2, <2>2, ScrollQuiet DEF t, Fine
<1>5. CASE action.type = "ScrollToPrompt" /\ action.arg = "older"
  <2>1. PICK u : u = [s EXCEPT !.copying = @ \ {s.focus}]
    OBVIOUS
  <2>2. Quiet(s, u)
    BY <2>1 DEF Quiet, Shape, AppFields, Screened, Scripted, Waiting, Settings, Linked, Hands
  <2>3. t = u
    BY <1>5, <2>1 DEF Execute
  <2> HIDE DEF t, Fine
  <2> QED  BY <1>2, <2>2, <2>3 DEF t, Fine
<1>6. CASE action.type \in {"SendString", "Paste"} /\ s.link = "up"
  <2>1. PICK text : t = Emit(s, "text", 0, text)
    BY <1>6 DEF Execute
  <2>2. Outcome(s, Emit(s, "text", 0, text), <<>>)
    BY OtherOutcome
  <2>3. Emit(s, "text", 0, text).pending = s.pending
    BY EmitIs
  <2> HIDE DEF t
  <2> QED  BY <1>1, <2>1, <2>2, <2>3 DEF t
<1>7. CASE action.type \in {"SendString", "Paste"} /\ s.link # "up"
  <2>1. PICK u : u = [s EXCEPT !.link = "none"]
    OBVIOUS
  <2>2. Quiet(s, u) /\ Quiet(s, s)
    BY <2>1 DEF Quiet, Shape, AppFields, Screened, Scripted, Waiting, Settings, Linked, Hands
  <2>3. t = u \/ t = s
    BY <1>7, <2>1 DEF Execute
  <2> HIDE DEF t, Fine
  <2> QED  BY <1>2, <2>2, <2>3 DEF t, Fine
<1>8. CASE action.type = "ReloadConfig"
  <2>1. t = Reload(s, env.dir, env.vm, env.fontOk)
    BY <1>8 DEF Execute
  <2>2. \/ Outcome(s, Reload(s, env.dir, env.vm, env.fontOk), <<>>)
             /\ Reload(s, env.dir, env.vm, env.fontOk).pending = s.pending
        \/ Outcome(s, Reload(s, env.dir, env.vm, env.fontOk), Flushed(s))
             /\ Reload(s, env.dir, env.vm, env.fontOk).pending = NotPending
    BY ReloadIs DEF Environment
  <2>3. Flushed(s) = <<>>
    BY <1>1 DEF Flushed, Flushes
  <2>4. ~ NotPending.on /\ NotPending.key = 0
    BY DEF NotPending
  <2> HIDE DEF t
  <2> QED  BY <1>1, <2>1, <2>2, <2>3, <2>4 DEF t
<1>9. CASE action.type = "Callback"
  <2>1. PICK table : table = IF leader THEN LeaderTable(s) ELSE KeyTable(s)
    OBVIOUS
  <2>2. s.lua # 0 /\ ~ index > Len(table) /\ table[index].action.type = "Callback"
    BY <1>9, <2>1 DEF Callable
  <2>3. PICK name : name = table[index].action.arg
    OBVIOUS
  <2>4. t = Emit(s, "call", s.binds, name)
    BY <1>9, <2>1, <2>2, <2>3 DEF Execute, Call, CallAt
  <2>5. s.binds = s.lua
    BY DEF Shape, Scripted
  <2>6. Outcome(s, Emit(s, "call", s.binds, name), <<>>)
    BY <2>2, <2>5, OtherOutcome
  <2>7. Emit(s, "call", s.binds, name).pending = s.pending
    BY EmitIs
  <2> HIDE DEF t
  <2> QED  BY <1>1, <2>4, <2>6, <2>7 DEF t
<1>10. CASE /\ action.type \notin {"ScrollUp", "ScrollDown", "SendString", "Paste", "ReloadConfig", "Callback"}
            /\ ~ (action.type = "ScrollToPrompt" /\ action.arg = "older")
  <2>1. t = Command(s, action)
    BY <1>10 DEF Execute
  <2>2. PICK c : c = Command(s, action)
    OBVIOUS
  <2>3. Shape(c) /\ Hands(s, c) /\ c.out = s.out /\ c.pending = s.pending
    BY <2>2, CommandIs
  <2> HIDE DEF t
  <2> QED  BY <1>1, <2>1, <2>2, <2>3, QuietOutcome DEF t
<1> HIDE DEF t
<1> QED  BY <1>3, <1>4, <1>5, <1>6, <1>7, <1>8, <1>9, <1>10 DEF t

-----------------------------------------------------------------------------
(***************************************************************************)
(* Keys.                                                                   *)
(***************************************************************************)
LEMMA RestSound ==
  ASSUME NEW s, Shape(s), NEW t, Rest(s, t), t.pending = s.pending \/ t.pending = NotPending,
         t.link \in {"up", "broken", "none"}, t.exiting \in BOOLEAN
  PROVE  Shape(t) /\ Hands(s, t)
<1>1. Screened(t) /\ Scripted(t) /\ PaletteSound(t.palette)
  BY DEF Shape, Rest, Screened, Scripted
<1>2. Waiting(t)
  <2>1. NotPending \in [on : BOOLEAN, key : Nat] /\ NotPending.key = 0 /\ ~ NotPending.on
    BY DEF NotPending
  <2> QED  BY <2>1 DEF Shape, Rest, Waiting, Settings
<1>3. Linked(t)
  BY DEF Shape, Rest, Linked
<1>4. Hands(s, t)
  BY DEF Rest, Hands
<1>5. DOMAIN t = AppFields
  BY DEF Rest
<1> QED  BY <1>1, <1>2, <1>3, <1>4, <1>5 DEF Shape

\* A forwarded key, behind what was sent before.
LEMMA ForwardIs ==
  ASSUME NEW s, Shape(s), NEW key, NEW n
  PROVE  LET t == Forward(s, key, n)
         IN /\ Shape(t) /\ Hands(s, t) /\ t.pending = s.pending /\ t.lua = s.lua
            /\ t.out = s.out \/ t.out = Append(s.out, Item(s, "key", n, ""))
<1>1. s.focus \in Panes
  BY DEF Shape, Screened, Panes
<1>2. PICK u : u = IF s.offset[s.focus] > 0 THEN ReturnToLive(s, s.focus) ELSE s
  OBVIOUS
<1>3. /\ Shape(u) /\ Hands(s, u) /\ u.pending = s.pending /\ u.out = s.out
      /\ u.focus = s.focus /\ u.lua = s.lua
  BY <1>1, <1>2, LiveQuiet DEF Quiet, Hands
<1>4. PICK w : w = TrySend(u, n)
  OBVIOUS
<1>5. /\ Rest(u, w) /\ w.pending = u.pending /\ w.exiting = u.exiting
      /\ w.link \in {"up", "broken", "none"}
      /\ w.out = IF u.link = "up" THEN Append(u.out, Item(u, "key", n, "")) ELSE u.out
  BY <1>3, <1>4, TrySendIs DEF Shape, Linked
<1>6. PICK x : x = OrExit(s, w)
  OBVIOUS
<1>7. Rest(w, x) /\ x.pending = w.pending /\ x.link = w.link /\ x.out = w.out /\ x.exiting \in BOOLEAN
  BY <1>3, <1>5, <1>6 DEF OrExit, Rest, AppFields, Shape, Linked
<1>8. Shape(x) /\ Hands(s, x) /\ x.lua = s.lua
  <2>1. Rest(u, x)
    BY <1>5, <1>7 DEF Rest
  <2>2. Shape(x) /\ Hands(u, x)
    <3>1. Shape(u) /\ x.pending = u.pending
      BY <1>3, <1>5, <1>7
    <3>2. x.link \in {"up", "broken", "none"} /\ x.exiting \in BOOLEAN
      BY <1>5, <1>7
    <3> QED  BY <2>1, <3>1, <3>2, RestSound
  <2>3. Hands(s, x)
    BY <1>3, <2>2 DEF Hands
  <2>4. x.lua = u.lua
    BY <2>1 DEF Rest
  <2> QED  BY <1>3, <2>2, <2>3, <2>4
<1>9. Item(u, "key", n, "") = Item(s, "key", n, "")
  BY <1>3 DEF Item
<1>10. Forward(s, key, n) = IF Types(key) THEN x ELSE u
  BY <1>2, <1>4, <1>6 DEF Forward
<1> QED  BY <1>3, <1>5, <1>7, <1>8, <1>9, <1>10

\* The leader's wait ends, its key going first.
LEMMA FlushOutIs ==
  ASSUME NEW s, Shape(s), s.out = <<>>
  PROVE  LET t == OrExit(s, FlushLeader(s))
         IN /\ Outcome(s, t, Flushed(s)) /\ t.pending = NotPending /\ t.focus = s.focus
            /\ t.out = IF Flushes(s) THEN Append(<<>>, Item(s, "key", s.pending.key, "")) ELSE <<>>
<1>1. PICK w : w = FlushLeader(s)
  OBVIOUS
<1>2. /\ Rest(s, w) /\ w.pending = NotPending /\ w.exiting = s.exiting
      /\ w.link \in {"up", "broken", "none"}
      /\ w.out = IF Flushes(s) THEN Append(s.out, Item(s, "key", s.pending.key, "")) ELSE s.out
  BY <1>1, FlushIs DEF Shape, Linked
<1>3. PICK x : x = OrExit(s, w)
  OBVIOUS
<1>4. Rest(w, x) /\ x.pending = w.pending /\ x.link = w.link /\ x.out = w.out /\ x.exiting \in BOOLEAN
  BY <1>2, <1>3 DEF OrExit, Rest, AppFields, Shape, Linked
<1>5. Shape(x) /\ Hands(s, x) /\ x.focus = s.focus
  <2>1. Rest(s, x)
    BY <1>2, <1>4 DEF Rest
  <2> QED  BY <1>2, <1>4, <2>1, RestSound DEF Rest
<1>6. KeysAre(x.out, Flushed(s), s.focus) /\ Sent(x)
  <2>1. CASE Flushes(s)
    <3>1. x.out = Append(<<>>, Item(s, "key", s.pending.key, ""))
      BY <1>2, <1>4, <2>1
    <3>2. Flushed(s) = <<s.pending.key>>
      BY <2>1 DEF Flushed
    <3> QED  BY <3>1, <3>2, KeyOut DEF Sent
  <2>2. CASE ~ Flushes(s)
    <3>1. x.out = <<>> /\ Flushed(s) = <<>>
      BY <1>2, <1>4, <2>2 DEF Flushed
    <3>2. <<>> \in Seq({}) /\ DOMAIN <<>> = {}
      OBVIOUS
    <3> QED  BY <3>1, <3>2 DEF Sent, KeysAre, KeysIn
  <2> QED  BY <2>1, <2>2
<1> QED  BY <1>1, <1>2, <1>3, <1>4, <1>5, <1>6 DEF Outcome

\* What a key press may come to: nothing is sent, or the held-back key first
\* and the press behind it; a press that arms the leader is held back itself.
Presses(s, n) ==
    IF Flushes(s) THEN {<<s.pending.key>>, <<s.pending.key, n>>} ELSE {<<n>>}

Pressed(s, t, n) ==
    \/ Outcome(s, t, <<>>) /\ (t.pending.key = 0 \/ (~ s.pending.on /\ t.pending.key = n))
    \/ /\ ~ InCopyMode(s) /\ ~ s.palette.visible /\ t.pending.key = 0
       /\ \E ns \in Presses(s, n) : Outcome(s, t, ns)

LEMMA PressedAfterQuiet ==
  ASSUME NEW s, NEW t, NEW n, Pressed(s, t, n), NEW u, Quiet(t, u)
  PROVE  Pressed(s, u, n)
BY OutcomeAfterQuiet DEF Pressed

LEMMA LookupIs ==
  ASSUME NEW S, NEW table \in Seq(S), NEW chord
  PROVE  LookupIndex(table, chord) = 0 \/ LookupIndex(table, chord) \in 1 .. Len(table)
<1> DEFINE hits == {i \in 1 .. Len(table) : table[i].chord = chord}
<1>1. PICK n \in Nat : n = Len(table)
  OBVIOUS
<1>2. CASE hits = {}
  BY <1>2 DEF LookupIndex
<1>3. CASE hits # {}
  <2>1. hits \in SUBSET (0 .. n)
    BY <1>1
  <2>2. \E i \in hits : \A j \in hits : j <= i
    <3> HIDE DEF hits
    <3> QED  BY <1>3, <2>1, GreatestIndex
  <2>3. (CHOOSE i \in hits : \A j \in hits : j <= i) \in hits
    <3> HIDE DEF hits
    <3> QED  BY <2>2
  <2>4. LookupIndex(table, chord) = CHOOSE i \in hits : \A j \in hits : j <= i
    BY <1>3, Zenon DEF LookupIndex
  <2> QED  BY <2>3, <2>4
<1> QED  BY <1>2, <1>3

LEMMA TablesAre ==
  ASSUME NEW s, Shape(s)
  PROVE  KeyTable(s) \in Bindings /\ LeaderTable(s) \in Bindings
BY Loads DEF Shape, Scripted, KeyTable, LeaderTable, LoadResults

\* Without a VM there are the built-in bindings, and none is a callback.
LEMMA NoVmNoCallbacks ==
  ASSUME NEW d \in DOMAIN Directories, ~ Loaded[d].vm
  PROVE  /\ Loaded[d].tables.leaders = <<>>
         /\ \A i \in 1 .. Len(Loaded[d].tables.keys) :
               Loaded[d].tables.keys[i].action.type # "Callback"
<1>1. PICK dir : dir = Directories[d]
  OBVIOUS
<1>2. Loaded[d] = LoadConfig(dir)
  BY <1>1 DEF Loaded
<1>3. NoVmResult.tables = [keys |-> DefaultBindings(OakMod), leaders |-> <<>>]
  BY DEF NoVmResult
<1>4. dir.main = <<>>
  <2> SUFFICES ASSUME dir.main # <<>> PROVE FALSE
    OBVIOUS
  <2>1. PICK ran : ran = Exec(dir)
    OBVIOUS
  <2>2. Loaded[d] = IF ran.failed THEN [NoVmResult EXCEPT !.error = TRUE, !.vm = TRUE]
                    ELSE Extracted(ran)
    BY <1>2, <2>1 DEF LoadConfig
  <2>3. [NoVmResult EXCEPT !.error = TRUE, !.vm = TRUE].vm
    BY DEF NoVmResult
  <2>4. Extracted(ran).vm
    BY DEF Extracted
  <2> QED  BY <2>2, <2>3, <2>4
<1>5. Loaded[d].tables = [keys |-> DefaultBindings(OakMod), leaders |-> <<>>]
  BY <1>2, <1>3, <1>4 DEF LoadConfig
<1>6. \A i \in 1 .. Len(DefaultBindings(OakMod)) : DefaultBindings(OakMod)[i].action.type # "Callback"
  <2> DEFINE b == DefaultBindings(OakMod)
  <2>1. Len(b) = 23
    BY DEF DefaultBindings
  <2>2. b[1].action.type = "ScrollUp"
    BY DEF DefaultBindings, Bind, Act
  <2>3. b[2].action.type = "ScrollDown"
    BY DEF DefaultBindings, Bind, Act
  <2>4. b[3].action.type = "ScrollUp"
    BY DEF DefaultBindings, Bind, Act
  <2>5. b[4].action.type = "ScrollDown"
    BY DEF DefaultBindings, Bind, Act
  <2>6. b[5].action.type = "ScrollToPrompt"
    BY DEF DefaultBindings, Bind, Act
  <2>7. b[6].action.type = "ScrollToPrompt"
    BY DEF DefaultBindings, Bind, Act
  <2>8. b[7].action.type = "SplitPane"
    BY DEF DefaultBindings, Bind, Act
  <2>9. b[8].action.type = "SplitPane"
    BY DEF DefaultBindings, Bind, Act
  <2>10. b[9].action.type = "FocusPane"
    BY DEF DefaultBindings, Bind, Act
  <2>11. b[10].action.type = "FocusPane"
    BY DEF DefaultBindings, Bind, Act
  <2>12. b[11].action.type = "FocusPane"
    BY DEF DefaultBindings, Bind, Act
  <2>13. b[12].action.type = "FocusPane"
    BY DEF DefaultBindings, Bind, Act
  <2>14. b[13].action.type = "NewTab"
    BY DEF DefaultBindings, Bind, Act
  <2>15. b[14].action.type = "ClosePane"
    BY DEF DefaultBindings, Bind, Act
  <2>16. b[15].action.type = "ShowCommandPalette"
    BY DEF DefaultBindings, Bind, Act
  <2>17. b[16].action.type = "EnterCopyMode"
    BY DEF DefaultBindings, Bind, Act
  <2>18. b[17].action.type = "Find"
    BY DEF DefaultBindings, Bind, Act
  <2>19. b[18].action.type = "NextTab"
    BY DEF DefaultBindings, Bind, Act
  <2>20. b[19].action.type = "PreviousTab"
    BY DEF DefaultBindings, Bind, Act
  <2>21. b[20].action.type = "SwitchTab"
    BY DEF DefaultBindings, Bind, Act
  <2>22. b[21].action.type = "SwitchTab"
    BY DEF DefaultBindings, Bind, Act
  <2>23. b[22].action.type = "SwitchTab"
    BY DEF DefaultBindings, Bind, Act
  <2>24. b[23].action.type = "SwitchTab"
    BY DEF DefaultBindings, Bind, Act
  <2> HIDE DEF b
  <2> QED  BY <2>1, <2>2, <2>3, <2>4, <2>5, <2>6, <2>7, <2>8, <2>9, <2>10, <2>11, <2>12, <2>13, <2>14, <2>15, <2>16, <2>17, <2>18, <2>19, <2>20, <2>21, <2>22, <2>23, <2>24 DEF b
<1> QED  BY <1>5, <1>6

LEMMA CallbacksCallable ==
  ASSUME NEW s, Shape(s), NEW leader \in BOOLEAN, NEW index,
         index \in 1 .. Len(IF leader THEN LeaderTable(s) ELSE KeyTable(s)),
         (IF leader THEN LeaderTable(s) ELSE KeyTable(s))[index].action.type = "Callback"
  PROVE  Callable(s, leader, index)
<1>1. s.file \in DOMAIN Directories /\ (s.lua = 0 => ~ Loaded[s.file].vm)
  BY DEF Shape, Scripted
<1>2. PICK table : table = IF leader THEN LeaderTable(s) ELSE KeyTable(s)
  OBVIOUS
<1>3. index \in 1 .. Len(table) /\ table[index].action.type = "Callback"
  BY <1>2
<1>4. table \in Bindings
  BY <1>2, TablesAre
<1>5. PICK n \in Nat : n = Len(table)
  BY <1>4 DEF Bindings
<1>6. ~ index > Len(table)
  BY <1>3, <1>5
<1>7. s.lua # 0
  <2> SUFFICES ASSUME s.lua = 0 PROVE FALSE
    OBVIOUS
  <2>1. /\ Loaded[s.file].tables.leaders = <<>>
        /\ \A i \in 1 .. Len(Loaded[s.file].tables.keys) :
              Loaded[s.file].tables.keys[i].action.type # "Callback"
    BY <1>1, NoVmNoCallbacks
  <2>2. CASE leader
    <3>1. table = <<>>
      BY <1>2, <2>1, <2>2 DEF LeaderTable
    <3> QED  BY <1>3, <3>1
  <2>3. CASE ~ leader
    BY <1>2, <1>3, <2>1, <2>3 DEF KeyTable
  <2> QED  BY <2>2, <2>3
<1> QED  BY <1>2, <1>3, <1>6, <1>7 DEF Callable

\* Where a key goes.
Resolved(s, to) ==
    /\ to.kind \in {"LeaderAction", "LeaderMiss", "LeaderMissDrop", "LeaderArm", "Binding",
                    "CopyMode", "Forward"}
    /\ s.pending.on <=> to.kind \in {"LeaderAction", "LeaderMiss", "LeaderMissDrop"}
    /\ to.kind = "LeaderAction" => to.index \in 1 .. Len(LeaderTable(s))
    /\ to.kind = "LeaderArm" => Settings(s).leader
    /\ to.kind = "Binding" => to.index \in 1 .. Len(KeyTable(s))
    /\ to.kind = "Binding" /\ InCopyMode(s) => KeyTable(s)[to.index].action.type = "Find"
    /\ to.kind \in {"LeaderMiss", "Forward"} => ~ InCopyMode(s)

LEMMA ResolveIs ==
  ASSUME NEW s, Shape(s), NEW key
  PROVE  Resolved(s, Resolve(s, key))
<1>1. PICK l1, l2 : /\ l1 = LookupIndex(LeaderTable(s), LogicalChord(key))
                    /\ l2 = LookupIndex(LeaderTable(s), PhysicalChord(key))
  OBVIOUS
<1>2. PICK b1, b2 : /\ b1 = LookupIndex(KeyTable(s), LogicalChord(key))
                    /\ b2 = LookupIndex(KeyTable(s), PhysicalChord(key))
  OBVIOUS
<1>3. PICK ls, ks : ls = LeaderTable(s) /\ ks = KeyTable(s)
  OBVIOUS
<1>4. ls \in Bindings /\ ks \in Bindings
  BY <1>3, TablesAre
<1>5. /\ l1 = 0 \/ l1 \in 1 .. Len(ls)
      /\ l2 = 0 \/ l2 \in 1 .. Len(ls)
      /\ b1 = 0 \/ b1 \in 1 .. Len(ks)
      /\ b2 = 0 \/ b2 \in 1 .. Len(ks)
  BY <1>1, <1>2, <1>3, <1>4, LookupIs DEF Bindings
<1>6. PICK f1, f2 : /\ f1 = (IF b1 = 0 THEN 0 ELSE IF ks[b1].action.type = "Find" THEN b1 ELSE 0)
                    /\ f2 = (IF b2 = 0 THEN 0 ELSE IF ks[b2].action.type = "Find" THEN b2 ELSE 0)
  OBVIOUS
<1>7. PICK l, b, f : /\ l = (IF l1 # 0 THEN l1 ELSE l2) /\ b = (IF b1 # 0 THEN b1 ELSE b2)
                     /\ f = (IF f1 # 0 THEN f1 ELSE f2)
  OBVIOUS
<1>8. /\ l # 0 => l \in 1 .. Len(ls)
      /\ b # 0 => b \in 1 .. Len(ks)
      /\ f # 0 => f \in 1 .. Len(ks) /\ ks[f].action.type = "Find"
  BY <1>5, <1>6, <1>7
<1> DEFINE found(kind, index, otherwise) ==
             IF index = 0 THEN [kind |-> otherwise, index |-> 0] ELSE [kind |-> kind, index |-> index]
<1>9. Resolve(s, key) =
        IF s.pending.on
        THEN found("LeaderAction", l, IF InCopyMode(s) THEN "LeaderMissDrop" ELSE "LeaderMiss")
        ELSE IF Settings(s).leader /\ Leader \in {LogicalChord(key), PhysicalChord(key)}
        THEN found("LeaderArm", 0, "LeaderArm")
        ELSE IF InCopyMode(s) THEN found("Binding", f, "CopyMode")
        ELSE found("Binding", b, "Forward")
  BY <1>1, <1>2, <1>3, <1>6, <1>7 DEF Resolve
<1>10. PICK to : to = Resolve(s, key)
  OBVIOUS
<1>11. CASE s.pending.on
  <2>1. to = found("LeaderAction", l, IF InCopyMode(s) THEN "LeaderMissDrop" ELSE "LeaderMiss")
    BY <1>9, <1>10, <1>11
  <2> QED  BY <1>3, <1>8, <1>10, <1>11, <2>1 DEF Resolved
<1>12. CASE ~ s.pending.on /\ Settings(s).leader /\ Leader \in {LogicalChord(key), PhysicalChord(key)}
  <2>1. to = found("LeaderArm", 0, "LeaderArm")
    BY <1>9, <1>10, <1>12
  <2> QED  BY <1>10, <1>12, <2>1 DEF Resolved
<1>13. CASE /\ ~ s.pending.on /\ ~ (Settings(s).leader /\ Leader \in {LogicalChord(key), PhysicalChord(key)})
            /\ InCopyMode(s)
  <2>1. to = found("Binding", f, "CopyMode")
    BY <1>9, <1>10, <1>13
  <2> QED  BY <1>3, <1>8, <1>10, <1>13, <2>1 DEF Resolved
<1>14. CASE /\ ~ s.pending.on /\ ~ (Settings(s).leader /\ Leader \in {LogicalChord(key), PhysicalChord(key)})
            /\ ~ InCopyMode(s)
  <2>1. to = found("Binding", b, "Forward")
    BY <1>9, <1>10, <1>14
  <2> QED  BY <1>3, <1>8, <1>10, <1>14, <2>1 DEF Resolved
<1> QED  BY <1>11, <1>12, <1>13, <1>14

\* The open palette takes the key; what it confirms is never a callback.
LEMMA PaletteKeyIs ==
  ASSUME NEW s, Shape(s), s.out = <<>>, s.palette.visible, NEW key, NEW env, Environment(env)
  PROVE  LET t == PaletteKey(s, key, env)
         IN Outcome(s, t, <<>>) /\ t.pending.key = 0
<1>1. ~ s.pending.on /\ s.pending.key = 0
  BY DEF Shape, Waiting
<1>2. PICK ctx, effect : ctx = Context(s) /\ effect = PaletteEffect(key)
  OBVIOUS
<1>3. ASSUME NEW p, PaletteSound(p), NEW shown
      PROVE  LET t == [s EXCEPT !.palette = p, !.shown = shown]
             IN Outcome(s, t, <<>>) /\ t.pending.key = 0 /\ Shape(t) /\ ~ t.pending.on
  <2>1. PICK t : t = [s EXCEPT !.palette = p, !.shown = shown]
    OBVIOUS
  <2>2. Shape(t) /\ Hands(s, t) /\ t.out = s.out /\ t.pending = s.pending
    BY <1>1, <1>3, <2>1 DEF Shape, AppFields, Screened, Scripted, Waiting, Settings, Linked, Hands
  <2> QED  BY <1>1, <2>1, <2>2, QuietOutcome
<1>4. ASSUME NEW p, PaletteSound(p)
      PROVE  LET t == [s EXCEPT !.palette = p]
             IN /\ Outcome(s, t, <<>>) /\ t.pending.key = 0 /\ Shape(t) /\ ~ t.pending.on
                /\ t.out = <<>> /\ t.focus = s.focus /\ Hands(s, t)
  <2>1. PICK t : t = [s EXCEPT !.palette = p]
    OBVIOUS
  <2>2. Shape(t) /\ Hands(s, t) /\ t.out = s.out /\ t.pending = s.pending /\ t.focus = s.focus
    BY <1>1, <1>4, <2>1 DEF Shape, AppFields, Screened, Scripted, Waiting, Settings, Linked, Hands
  <2> QED  BY <1>1, <2>1, <2>2, QuietOutcome
<1>5. PaletteSound(s.palette)
  BY DEF Shape
<1>6. Outcome(s, s, <<>>)
  BY QuietOutcome DEF Hands
<1> DEFINE t == PaletteKey(s, key, env)
<1>7. CASE effect = "close"
  <2>1. t = [s EXCEPT !.palette = ClosePalette(s.palette)]
    BY <1>2, <1>7 DEF PaletteKey
  <2> HIDE DEF t
  <2> QED  BY <1>4, <1>5, <2>1, PaletteMoves DEF t
<1>8. CASE effect = "up"
  <2>1. t = [s EXCEPT !.palette = MoveUp(s.palette)]
    BY <1>2, <1>8 DEF PaletteKey
  <2> HIDE DEF t
  <2> QED  BY <1>4, <1>5, <2>1, PaletteMoves DEF t
<1>9. CASE effect = "down"
  <2>1. t = [s EXCEPT !.palette = MoveDown(s.palette)]
    BY <1>2, <1>9 DEF PaletteKey
  <2> HIDE DEF t
  <2> QED  BY <1>4, <1>5, <2>1, PaletteMoves DEF t
<1>10. CASE effect = "backspace"
  <2>1. PICK p : p = Backspaced(s.palette, ctx)
    OBVIOUS
  <2>2. t = [s EXCEPT !.palette = p, !.shown = ctx]
    BY <1>2, <1>10, <2>1 DEF PaletteKey
  <2>3. PaletteSound(p)
    BY <1>5, <2>1, InputSound
  <2> HIDE DEF t
  <2>4. Outcome(s, [s EXCEPT !.palette = p, !.shown = ctx], <<>>)
          /\ [s EXCEPT !.palette = p, !.shown = ctx].pending.key = 0
    BY <1>3, <2>3
  <2> QED  BY <2>2, <2>4 DEF t
<1>11. CASE effect = "input"
  <2>1. PICK p : p = InputChar(s.palette, key.text, ctx)
    OBVIOUS
  <2>2. t = [s EXCEPT !.palette = p, !.shown = ctx]
    BY <1>2, <1>11, <2>1 DEF PaletteKey
  <2>3. PaletteSound(p)
    BY <1>5, <2>1, InputSound
  <2> HIDE DEF t
  <2>4. Outcome(s, [s EXCEPT !.palette = p, !.shown = ctx], <<>>)
          /\ [s EXCEPT !.palette = p, !.shown = ctx].pending.key = 0
    BY <1>3, <2>3
  <2> QED  BY <2>2, <2>4 DEF t
<1>12. CASE effect = "confirm"
  <2>1. CASE ~ CanConfirm(s.palette)
    <3>1. t = s
      BY <1>2, <1>12, <2>1 DEF PaletteKey
    <3> HIDE DEF t
    <3> QED  BY <1>1, <1>6, <3>1 DEF t
  <2>2. CASE CanConfirm(s.palette)
    <3>1. PICK u : u = [s EXCEPT !.palette = Confirmed(s.palette)]
      OBVIOUS
    <3>2. PICK id : id = s.palette.results[s.palette.selected].id
      OBVIOUS
    <3>3. id \in ActionIds /\ PaletteSound(Confirmed(s.palette))
      BY <1>5, <2>2, <3>2, ConfirmedSound
    <3>4. PICK action : action = ActionOf(id)
      OBVIOUS
    <3>5. action.type # "Callback"
      BY <3>3, <3>4, CatalogIs DEF ActionOf, Act
    <3>6. t = Execute(u, action, FALSE, 0, env)
      BY <1>2, <1>12, <2>2, <3>1, <3>2, <3>4 DEF PaletteKey
    <3>7. Shape(u) /\ u.out = <<>> /\ ~ u.pending.on /\ u.focus = s.focus /\ Hands(s, u)
      BY <1>4, <3>1, <3>3
    <3>8. PICK x : x = Execute(u, action, FALSE, 0, env)
      OBVIOUS
    <3>9. Outcome(u, x, <<>>) /\ x.pending.key = 0
      BY <3>5, <3>7, <3>8, ExecuteIs
    <3>10. Outcome(s, x, <<>>)
      BY <3>7, <3>9 DEF Outcome, Hands
    <3> HIDE DEF t
    <3> QED  BY <3>6, <3>8, <3>9, <3>10 DEF t
  <2> QED  BY <2>1, <2>2
<1>13. CASE effect = "ignored"
  <2>1. t = s
    BY <1>2, <1>13 DEF PaletteKey
  <2> HIDE DEF t
  <2> QED  BY <1>1, <1>6, <2>1 DEF t
<1>14. effect \in {"close", "up", "down", "backspace", "input", "confirm", "ignored"}
  BY <1>2 DEF PaletteEffect
<1> HIDE DEF t
<1> QED  BY <1>7, <1>8, <1>9, <1>10, <1>11, <1>12, <1>13, <1>14 DEF t

LEMMA LeaderActionIs ==
  ASSUME NEW s, Shape(s), s.out = <<>>, NEW index \in 1 .. Len(LeaderTable(s)),
         NEW env, Environment(env)
  PROVE  LET t == LeaderAction(s, index, env)
         IN Outcome(s, t, <<>>) /\ t.pending.key = 0
<1>1. PICK u : u = [s EXCEPT !.pending = NotPending]
  OBVIOUS
<1>2. /\ Shape(u) /\ Hands(s, u) /\ u.out = s.out /\ u.focus = s.focus /\ u.file = s.file
      /\ u.pending = NotPending
  <2>1. Rest(s, u) /\ u.pending = NotPending /\ u.link = s.link /\ u.exiting = s.exiting /\ u.out = s.out
    BY <1>1 DEF Shape, Rest, AppFields
  <2> QED  BY <2>1, RestSound DEF Rest, Shape, Linked
<1>3. LeaderTable(u) = LeaderTable(s)
  BY <1>2 DEF LeaderTable
<1>4. PICK action : action = LeaderTable(s)[index].action
  OBVIOUS
<1>5. PICK x : x = Execute(u, action, TRUE, index, env)
  OBVIOUS
<1>6. ~ u.pending.on /\ u.pending.key = 0
  BY <1>2 DEF NotPending
<1>7. action.type = "Callback" => Callable(u, TRUE, index)
  BY <1>2, <1>3, <1>4, CallbacksCallable
<1>8. Outcome(u, x, <<>>) /\ x.pending.key = 0
  BY <1>2, <1>5, <1>6, <1>7, ExecuteIs
<1>9. Outcome(s, x, <<>>)
  BY <1>2, <1>8 DEF Outcome, Hands
<1>10. Outcome(s, u, <<>>)
  BY <1>2, QuietOutcome
<1>11. LeaderAction(s, index, env) = IF Runs(u, action) THEN x ELSE u
  BY <1>1, <1>4, <1>5 DEF LeaderAction
<1> QED  BY <1>6, <1>8, <1>9, <1>10, <1>11

LEMMA ForwardPressed ==
  ASSUME NEW s, Shape(s), s.out = <<>>, ~ s.pending.on, ~ s.palette.visible, ~ InCopyMode(s),
         NEW key, NEW n
  PROVE  Pressed(s, Forward(s, key, n), n)
<1>1. PICK t : t = Forward(s, key, n)
  OBVIOUS
<1>2. /\ Shape(t) /\ Hands(s, t) /\ t.pending = s.pending
      /\ t.out = s.out \/ t.out = Append(s.out, Item(s, "key", n, ""))
  BY <1>1, ForwardIs
<1>3. t.pending.key = 0 /\ ~ Flushes(s)
  BY <1>2 DEF Shape, Waiting, Flushes
<1>4. CASE t.out = s.out
  <2>1. Outcome(s, t, <<>>)
    BY <1>2, <1>4, QuietOutcome
  <2> QED  BY <1>1, <1>3, <2>1 DEF Pressed
<1>5. CASE t.out = Append(s.out, Item(s, "key", n, ""))
  <2>1. Sent(t) /\ KeysAre(t.out, <<n>>, s.focus)
    BY <1>5, KeyOut DEF Sent
  <2>2. Outcome(s, t, <<n>>)
    BY <1>2, <2>1 DEF Outcome
  <2>3. <<n>> \in Presses(s, n)
    BY <1>3 DEF Presses
  <2> QED  BY <1>1, <1>3, <2>2, <2>3 DEF Pressed
<1> QED  BY <1>2, <1>4, <1>5

LEMMA LeaderMissPressed ==
  ASSUME NEW s, Shape(s), s.out = <<>>, s.pending.on, ~ InCopyMode(s), NEW key, NEW n
  PROVE  Pressed(s, LeaderMiss(s, key, n), n)
<1>1. PICK f : f = OrExit(s, FlushLeader(s))
  OBVIOUS
<1>2. /\ Outcome(s, f, Flushed(s)) /\ f.pending = NotPending /\ f.focus = s.focus
      /\ f.out = IF Flushes(s) THEN Append(<<>>, Item(s, "key", s.pending.key, "")) ELSE <<>>
  BY <1>1, FlushOutIs
<1>3. PICK t : t = Forward(f, key, n)
  OBVIOUS
<1>4. /\ Shape(t) /\ Hands(f, t) /\ t.pending = f.pending /\ t.lua = f.lua
      /\ t.out = f.out \/ t.out = Append(f.out, Item(f, "key", n, ""))
  BY <1>2, <1>3, ForwardIs DEF Outcome
<1>5. t.pending.key = 0 /\ ~ s.palette.visible
  <2>1. NotPending.key = 0
    BY DEF NotPending
  <2>2. ~ s.palette.visible
    BY DEF Shape, Waiting
  <2> QED  BY <1>2, <1>4, <2>1, <2>2
<1>6. Hands(s, t)
  BY <1>2, <1>4 DEF Outcome, Hands
<1>7. LeaderMiss(s, key, n) = t
  BY <1>1, <1>3 DEF LeaderMiss
<1>8. CASE t.out = f.out
  <2>1. Outcome(s, t, Flushed(s))
    BY <1>2, <1>4, <1>6, <1>8 DEF Outcome, Sent
  <2>2. CASE Flushes(s)
    <3>1. Flushed(s) \in Presses(s, n)
      BY <2>2 DEF Flushed, Presses
    <3> QED  BY <1>5, <1>7, <2>1, <3>1 DEF Pressed
  <2>3. CASE ~ Flushes(s)
    BY <1>5, <1>7, <2>1, <2>3 DEF Flushed, Pressed
  <2> QED  BY <2>2, <2>3
<1>9. CASE t.out = Append(f.out, Item(f, "key", n, ""))
  <2>1. CASE Flushes(s)
    <3>1. t.out = Append(Append(<<>>, Item(s, "key", s.pending.key, "")), Item(f, "key", n, ""))
      BY <1>2, <1>9, <2>1
    <3>2. PICK m : m = s.pending.key
      OBVIOUS
    <3>3. Sent(t) /\ KeysAre(t.out, <<m, n>>, s.focus)
      <4>1. t.out = Append(Append(<<>>, Item(s, "key", m, "")), Item(f, "key", n, ""))
        BY <3>1, <3>2
      <4>2. f.focus = s.focus
        BY <1>2
      <4>3. OnlyKeys(t.out, <<m, n>>, s.focus)
        BY <4>1, <4>2, TwoKeysOut, Zenon
      <4> QED  BY <4>3 DEF OnlyKeys, Sent
    <3>4. Outcome(s, t, <<m, n>>) /\ <<m, n>> \in Presses(s, n)
      BY <1>4, <1>6, <2>1, <3>2, <3>3 DEF Outcome, Presses
    <3> QED  BY <1>5, <1>7, <3>4 DEF Pressed
  <2>2. CASE ~ Flushes(s)
    <3>1. t.out = Append(<<>>, Item(f, "key", n, ""))
      BY <1>2, <1>9, <2>2
    <3>2. Sent(t) /\ KeysAre(t.out, <<n>>, f.focus)
      BY <3>1, KeyOut DEF Sent
    <3>3. Outcome(s, t, <<n>>) /\ <<n>> \in Presses(s, n)
      BY <1>2, <1>4, <1>6, <2>2, <3>2 DEF Outcome, Presses
    <3> QED  BY <1>5, <1>7, <3>3 DEF Pressed
  <2> QED  BY <2>1, <2>2
<1> QED  BY <1>4, <1>8, <1>9

LEMMA ArmedShape ==
  ASSUME NEW s, Shape(s), s.out = <<>>, ~ s.pending.on, ~ s.palette.visible, Settings(s).leader,
         NEW key \in Nat
  PROVE  LET t == [s EXCEPT !.pending = [on |-> TRUE, key |-> key]]
         IN Outcome(s, t, <<>>) /\ t.pending.key = key
<1>1. PICK p : p = [on |-> TRUE, key |-> key]
  OBVIOUS
<1>2. p \in [on : BOOLEAN, key : Nat] /\ p.on /\ p.key = key
  BY <1>1
<1>3. PICK t : t = [s EXCEPT !.pending = p]
  OBVIOUS
<1>4. Shape(t) /\ Hands(s, t) /\ t.out = s.out /\ t.pending = p
  BY <1>2, <1>3 DEF Shape, AppFields, Screened, Scripted, Waiting, Settings, Linked, Hands
<1> QED  BY <1>1, <1>2, <1>3, <1>4, QuietOutcome

\* The whole of a key press.
LEMMA KeyPressIs ==
  ASSUME NEW s, Shape(s), s.out = <<>>, NEW key, NEW n \in Nat, NEW leaves \in BOOLEAN,
         NEW env, Environment(env)
  PROVE  Pressed(s, KeyPress(s, key, n, leaves, env), n)
<1>1. PICK to : to = Resolve(s, key)
  OBVIOUS
<1>2. Resolved(s, to)
  BY <1>1, ResolveIs
<1> DEFINE Bound(index) == KeyTable(s)[index].action
           Take == CASE to.kind = "LeaderArm" ->
                          [s EXCEPT !.pending = [on |-> TRUE, key |-> IF Types(key) THEN n ELSE 0]]
                     [] to.kind = "LeaderAction" -> LeaderAction(s, to.index, env)
                     [] to.kind = "LeaderMiss" -> LeaderMiss(s, key, n)
                     [] to.kind = "LeaderMissDrop" -> OrExit(s, FlushLeader(s))
                     [] to.kind = "CopyMode" -> [s EXCEPT !.copying = IF leaves THEN @ \ {s.focus} ELSE @]
                     [] to.kind = "Binding" /\ Consumes(s, Bound(to.index)) ->
                          Execute(s, Bound(to.index), FALSE, to.index, env)
                     [] OTHER -> Forward(s, key, n)
<1>3. KeyPress(s, key, n, leaves, env) =
        ResetBlink(IF s.palette.visible THEN PaletteKey(s, key, env) ELSE Take)
  BY <1>1 DEF KeyPress
<1>4. CASE s.palette.visible
  <2>1. Pressed(s, PaletteKey(s, key, env), n)
    BY <1>4, PaletteKeyIs DEF Pressed
  <2>2. Shape(PaletteKey(s, key, env))
    BY <1>4, PaletteKeyIs DEF Outcome
  <2>3. Quiet(PaletteKey(s, key, env), ResetBlink(PaletteKey(s, key, env)))
    BY <2>2, ResetQuiet
  <2>4. KeyPress(s, key, n, leaves, env) = ResetBlink(PaletteKey(s, key, env))
    BY <1>3, <1>4
  <2> QED  BY <2>1, <2>3, <2>4, PressedAfterQuiet
<1>5. ASSUME ~ s.palette.visible
      PROVE  Pressed(s, Take, n)
  <2>1. CASE to.kind = "LeaderArm"
    <3>1. PICK k \in Nat : k = (IF Types(key) THEN n ELSE 0)
      OBVIOUS
    <3>2. Take = [s EXCEPT !.pending = [on |-> TRUE, key |-> k]]
      BY <2>1, <3>1
    <3>3. ~ s.pending.on /\ Settings(s).leader
      BY <1>2, <2>1 DEF Resolved
    <3>4. Outcome(s, [s EXCEPT !.pending = [on |-> TRUE, key |-> k]], <<>>)
            /\ [s EXCEPT !.pending = [on |-> TRUE, key |-> k]].pending.key = k
      BY <1>5, <3>3, ArmedShape
    <3> HIDE DEF Take
    <3> QED  BY <3>1, <3>2, <3>3, <3>4 DEF Pressed
  <2>2. CASE to.kind = "LeaderAction"
    <3>1. Take = LeaderAction(s, to.index, env)
      BY <2>2
    <3>2. PICK index : index = to.index
      OBVIOUS
    <3>3. index \in 1 .. Len(LeaderTable(s))
      BY <1>2, <2>2, <3>2 DEF Resolved
    <3>4. Outcome(s, LeaderAction(s, index, env), <<>>) /\ LeaderAction(s, index, env).pending.key = 0
      BY <3>3, LeaderActionIs
    <3> HIDE DEF Take
    <3> QED  BY <3>1, <3>2, <3>4 DEF Pressed
  <2>3. CASE to.kind = "LeaderMiss"
    <3>1. Take = LeaderMiss(s, key, n)
      BY <2>3
    <3>2. s.pending.on /\ ~ InCopyMode(s)
      BY <1>2, <2>3 DEF Resolved
    <3> HIDE DEF Take
    <3> QED  BY <3>1, <3>2, LeaderMissPressed
  <2>4. CASE to.kind = "LeaderMissDrop"
    <3>1. Take = OrExit(s, FlushLeader(s))
      BY <2>4
    <3>2. Outcome(s, OrExit(s, FlushLeader(s)), Flushed(s)) /\ OrExit(s, FlushLeader(s)).pending = NotPending
      BY FlushOutIs
    <3>3. Flushed(s) = <<>> \/ (Flushes(s) /\ Flushed(s) \in Presses(s, n))
      BY DEF Flushed, Presses
    <3>4. NotPending.key = 0 /\ (Flushes(s) => ~ InCopyMode(s))
      BY DEF NotPending, Flushes
    <3> HIDE DEF Take
    <3> QED  BY <1>5, <3>1, <3>2, <3>3, <3>4 DEF Pressed
  <2>5. CASE to.kind = "CopyMode"
    <3>1. PICK c : c = (IF leaves THEN s.copying \ {s.focus} ELSE s.copying)
      OBVIOUS
    <3>2. PICK t : t = [s EXCEPT !.copying = c]
      OBVIOUS
    <3>3. Take = t
      BY <2>5, <3>1, <3>2
    <3>4. c \subseteq s.copying
      BY <3>1
    <3>5. Shape(t) /\ Hands(s, t) /\ t.out = s.out /\ t.pending = s.pending
      BY <3>2, <3>4 DEF Shape, AppFields, Screened, Scripted, Waiting, Settings, Linked, Hands
    <3>6. s.pending.key = 0
      BY <1>2, <2>5 DEF Resolved, Shape, Waiting
    <3> HIDE DEF Take
    <3> QED  BY <3>3, <3>5, <3>6, QuietOutcome DEF Pressed
  <2>6. CASE to.kind = "Binding" /\ Consumes(s, Bound(to.index))
    <3>1. PICK index, action : index = to.index /\ action = Bound(to.index)
      OBVIOUS
    <3>2. Take = Execute(s, action, FALSE, index, env)
      BY <2>6, <3>1
    <3>3. index \in 1 .. Len(KeyTable(s)) /\ ~ s.pending.on
      BY <1>2, <2>6, <3>1 DEF Resolved
    <3>4. action.type = "Callback" => Callable(s, FALSE, index)
      BY <3>1, <3>3, CallbacksCallable
    <3>5. Outcome(s, Execute(s, action, FALSE, index, env), <<>>)
            /\ Execute(s, action, FALSE, index, env).pending.key = 0
      BY <3>3, <3>4, ExecuteIs
    <3> HIDE DEF Take
    <3> QED  BY <3>2, <3>5 DEF Pressed
  <2>7. CASE to.kind = "Binding" /\ ~ Consumes(s, Bound(to.index))
    <3>1. Take = Forward(s, key, n)
      BY <2>7
    <3>2. ~ s.pending.on
      BY <1>2, <2>7 DEF Resolved
    <3>3. ~ InCopyMode(s)
      <4> SUFFICES ASSUME InCopyMode(s) PROVE FALSE
        OBVIOUS
      <4>1. PICK action : action = Bound(to.index)
        OBVIOUS
      <4>2. action.type = "Find"
        BY <1>2, <2>7, <4>1 DEF Resolved
      <4>3. CopySupported
        BY DEF InCopyMode, Shape, Screened
      <4>4. Runs(s, action)
        BY <4>2, <4>3 DEF Runs, ActionIdOf, Performable, Context
      <4>5. Consumes(s, action)
        BY <4>2, <4>4 DEF Consumes
      <4> QED  BY <2>7, <4>1, <4>5
    <3> HIDE DEF Take
    <3> QED  BY <1>5, <3>1, <3>2, <3>3, ForwardPressed
  <2>8. CASE to.kind = "Forward"
    <3>1. Take = Forward(s, key, n)
      BY <2>8
    <3>2. ~ s.pending.on /\ ~ InCopyMode(s)
      BY <1>2, <2>8 DEF Resolved
    <3> HIDE DEF Take
    <3> QED  BY <1>5, <3>1, <3>2, ForwardPressed
  <2>9. QED
    <3> HIDE DEF Take, Bound
    <3> QED  BY <1>2, <2>1, <2>2, <2>3, <2>4, <2>5, <2>6, <2>7, <2>8 DEF Resolved
<1>6. CASE ~ s.palette.visible
  <2>1. PICK t : t = Take
    OBVIOUS
  <2>2. Pressed(s, t, n) /\ KeyPress(s, key, n, leaves, env) = ResetBlink(t)
    <3> HIDE DEF Take
    <3> QED  BY <1>3, <1>5, <1>6, <2>1
  <2>3. Shape(t)
    BY <2>2 DEF Pressed, Outcome
  <2>4. Quiet(t, ResetBlink(t))
    BY <2>3, ResetQuiet
  <2> HIDE DEF Take
  <2> QED  BY <2>2, <2>4, PressedAfterQuiet
<1> QED  BY <1>4, <1>6

-----------------------------------------------------------------------------
(***************************************************************************)
(* The mouse, the timers, the windows and the daemon's answers.            *)
(***************************************************************************)
\* What sends no keys and leaves the leader waiting.
Still(s, t) ==
    Shape(t) /\ Sent(t) /\ KeysIn(t.out) = {} /\ t.pending = s.pending

LEMMA SendMouseIs ==
  ASSUME NEW s, Shape(s), s.out = <<>>, NEW name
  PROVE  LET t == SendMouse(s, name)
         IN /\ Still(s, t) /\ Hands(s, t)
            /\ s.link = "up" => t.out = <<Item(s, "mouse", 0, name)>>
<1>1. PICK t : t = SendMouse(s, name)
  OBVIOUS
<1>2. s.link \in {"up", "broken", "none"} /\ DOMAIN s = AppFields
  BY DEF Shape, Linked
<1>3. CASE s.link = "up"
  <2>1. t = Emit(s, "mouse", 0, name)
    BY <1>1, <1>3 DEF SendMouse
  <2>2. Outcome(s, t, <<>>)
    BY <2>1, OtherOutcome
  <2>3. t.out = Append(s.out, Item(s, "mouse", 0, name)) /\ t.pending = s.pending
    BY <2>1, EmitIs
  <2>4. PICK item : item = Item(s, "mouse", 0, name)
    OBVIOUS
  <2>5. t.out = <<item>>
    BY <2>3, <2>4
  <2>6. KeysIn(t.out) = {}
    BY <2>2 DEF Outcome, KeysAre
  <2> QED  BY <1>1, <2>2, <2>3, <2>4, <2>5, <2>6 DEF Outcome, Still
<1>4. CASE s.link = "broken"
  <2>1. t = [s EXCEPT !.link = "none", !.exiting = TRUE]
    BY <1>1, <1>4 DEF SendMouse
  <2>2. Shape(t) /\ Hands(s, t) /\ t.out = s.out /\ t.pending = s.pending
    BY <2>1 DEF Shape, AppFields, Screened, Scripted, Waiting, Settings, Linked, Hands
  <2>3. Outcome(s, t, <<>>)
    BY <2>2, QuietOutcome
  <2> QED  BY <1>1, <1>4, <2>2, <2>3 DEF Outcome, KeysAre, Still
<1>5. CASE s.link = "none"
  <2>1. t = s
    BY <1>1, <1>5 DEF SendMouse
  <2>2. Hands(s, t)
    BY <2>1 DEF Hands
  <2>3. Outcome(s, t, <<>>)
    BY <2>1, <2>2, QuietOutcome
  <2> QED  BY <1>1, <1>5, <2>1, <2>3 DEF Outcome, KeysAre, Still
<1> QED  BY <1>2, <1>3, <1>4, <1>5

\* A step of the mouse's own fields.
LEMMA MouseFieldsStill ==
  ASSUME NEW s, Shape(s), s.out = <<>>, NEW t, DOMAIN t = AppFields,
         \A f \in AppFields \ {"drag", "chrome", "suppressed", "selecting"} : t[f] = s[f]
  PROVE  Still(s, t)
<1>1. /\ t.panes = s.panes /\ t.focus = s.focus /\ t.copying = s.copying /\ t.offset = s.offset
      /\ t.palette = s.palette /\ t.pending = s.pending /\ t.file = s.file /\ t.binds = s.binds
      /\ t.events = s.events /\ t.lua = s.lua /\ t.held = s.held /\ t.link = s.link
      /\ t.exiting = s.exiting /\ t.active = s.active /\ t.blink = s.blink /\ t.out = s.out
  BY DEF AppFields
<1>2. Shape(t)
  BY <1>1 DEF Shape, Screened, Scripted, Waiting, Settings, Linked
<1>3. <<>> \in Seq({}) /\ DOMAIN <<>> = {}
  OBVIOUS
<1> QED  BY <1>1, <1>2, <1>3 DEF Still, Sent, KeysIn

\* Who is told of a release, by what goes out.
LEMMA ToldIs ==
  ASSUME NEW s
  PROVE  /\ Told(<<Item(s, "mouse", 0, "release")>>) = {s.focus}
         /\ Told(<<>>) = {}
<1>1. PICK item : item = Item(s, "mouse", 0, "release")
  OBVIOUS
<1>2. item.name = "release" /\ item.pane = s.focus
  BY <1>1 DEF Item
<1>3. Told(<<item>>) = {item.pane}
  <2>1. Len(<<item>>) = 1 /\ <<item>>[1] = item
    OBVIOUS
  <2>2. {j \in 1 .. Len(<<item>>) : <<item>>[j].name = "release"} = {1}
    BY <1>2, <2>1
  <2> QED  BY <2>1, <2>2 DEF Told
<1>4. Told(<<>>) = {}
  <2>1. 1 .. Len(<<>>) = {}
    OBVIOUS
  <2> QED  BY <2>1 DEF Told
<1> QED  BY <1>1, <1>2, <1>3, <1>4

\* A press sets the mark its fate names and no other.
Pushed(s, t, button, fate) ==
    /\ Still(s, t) /\ t.active = s.active
    /\ fate \in {"chrome", "border", "kept", "sent"}
    /\ fate = "border" => button = "left"
    /\ t.drag = IF fate = "border" THEN TRUE ELSE s.drag
    /\ t.chrome = IF fate = "chrome" THEN s.chrome \cup {Bit(button)} ELSE s.chrome
    /\ t.suppressed = IF fate = "kept" THEN s.suppressed \cup {Bit(button)} ELSE s.suppressed
    /\ t.selecting => s.selecting \/ (fate = "kept" /\ Bit(button) = 0)

LEMMA MousePressIs ==
  ASSUME NEW s, Shape(s), s.out = <<>>, NEW button \in Buttons, NEW place, NEW shift,
         NEW t, t = MousePress(s, button, place, shift), NEW fate, fate = PressFate(s, button, place, shift)
  PROVE  Pushed(s, t, button, fate)
<1>1. fate \in {"chrome", "border", "kept", "sent"} /\ (fate = "border" => button = "left")
  BY DEF PressFate
<1>2. DOMAIN s = AppFields
  BY DEF Shape
<1>3. PICK selecting : selecting = (s.selecting \/ (Bit(button) = 0 /\ ~ InCopyMode(s) /\ shift))
  OBVIOUS
<1>4. CASE fate = "chrome"
  <2>1. t = [s EXCEPT !.chrome = @ \cup {Bit(button)}]
    BY <1>4 DEF MousePress
  <2>2. Still(s, t)
    BY <1>2, <2>1, MouseFieldsStill DEF AppFields
  <2>3. /\ t.drag = s.drag /\ t.chrome = s.chrome \cup {Bit(button)}
        /\ t.suppressed = s.suppressed /\ t.selecting = s.selecting /\ t.active = s.active
    BY <1>2, <2>1 DEF AppFields
  <2> QED  BY <1>4, <2>2, <2>3 DEF Pushed
<1>5. CASE fate = "border"
  <2>1. t = [s EXCEPT !.drag = TRUE]
    BY <1>5 DEF MousePress
  <2>2. Still(s, t)
    BY <1>2, <2>1, MouseFieldsStill DEF AppFields
  <2>3. /\ t.drag = TRUE /\ t.chrome = s.chrome
        /\ t.suppressed = s.suppressed /\ t.selecting = s.selecting /\ t.active = s.active
    BY <1>2, <2>1 DEF AppFields
  <2> QED  BY <1>1, <1>5, <2>2, <2>3 DEF Pushed
<1>6. CASE fate = "kept"
  <2>1. t = [s EXCEPT !.suppressed = @ \cup {Bit(button)}, !.selecting = selecting]
    BY <1>3, <1>6 DEF MousePress
  <2>2. Still(s, t)
    BY <1>2, <2>1, MouseFieldsStill DEF AppFields
  <2>3. /\ t.drag = s.drag /\ t.chrome = s.chrome
        /\ t.suppressed = s.suppressed \cup {Bit(button)} /\ t.selecting = selecting
        /\ t.active = s.active
    BY <1>2, <2>1 DEF AppFields
  <2> QED  BY <1>3, <1>6, <2>2, <2>3 DEF Pushed
<1>7. CASE fate = "sent"
  <2>1. t = SendMouse(s, "press")
    BY <1>7 DEF MousePress
  <2>2. Still(s, t) /\ Hands(s, t)
    BY <2>1, SendMouseIs
  <2> QED  BY <1>7, <2>2 DEF Hands, Pushed
<1> QED  BY <1>1, <1>4, <1>5, <1>6, <1>7 DEF Pushed

\* A release takes back the mark its fate names; sent, it is what goes out.
LetGo(s, t, button, fate) ==
    /\ Still(s, t) /\ t.active = s.active
    /\ fate \in {"chrome", "border", "kept", "sent"}
    /\ fate = "border" => button = "left"
    /\ t.drag = IF fate = "border" THEN FALSE ELSE s.drag
    /\ t.chrome = IF fate = "chrome" THEN s.chrome \ {Bit(button)} ELSE s.chrome
    /\ t.suppressed = IF fate = "kept" THEN s.suppressed \ {Bit(button)} ELSE s.suppressed
    /\ t.selecting => s.selecting /\ ~ (fate = "kept" /\ Bit(button) = 0)
    /\ fate = "sent" /\ s.link = "up" => Told(t.out) = {s.focus}
    /\ fate # "sent" => Told(t.out) = {}

LEMMA MouseReleaseIs ==
  ASSUME NEW s, Shape(s), s.out = <<>>, NEW button \in Buttons,
         NEW t, t = MouseRelease(s, button), NEW fate, fate = ReleaseFate(s, button)
  PROVE  LetGo(s, t, button, fate)
<1>1. fate \in {"chrome", "border", "kept", "sent"} /\ (fate = "border" => button = "left")
  BY DEF ReleaseFate
<1>2. DOMAIN s = AppFields
  BY DEF Shape
<1>3. PICK selecting : selecting = (s.selecting /\ Bit(button) # 0)
  OBVIOUS
<1>4. CASE fate = "chrome"
  <2>1. t = [s EXCEPT !.chrome = @ \ {Bit(button)}]
    BY <1>4 DEF MouseRelease
  <2>2. Still(s, t)
    BY <1>2, <2>1, MouseFieldsStill DEF AppFields
  <2>3. /\ t.drag = s.drag /\ t.chrome = s.chrome \ {Bit(button)} /\ t.out = <<>>
        /\ t.suppressed = s.suppressed /\ t.selecting = s.selecting /\ t.active = s.active
    BY <1>2, <2>1 DEF AppFields
  <2> QED  BY <1>4, <2>2, <2>3, ToldIs DEF LetGo
<1>5. CASE fate = "border"
  <2>1. t = [s EXCEPT !.drag = FALSE]
    BY <1>5 DEF MouseRelease
  <2>2. Still(s, t)
    BY <1>2, <2>1, MouseFieldsStill DEF AppFields
  <2>3. /\ t.drag = FALSE /\ t.chrome = s.chrome /\ t.out = <<>>
        /\ t.suppressed = s.suppressed /\ t.selecting = s.selecting /\ t.active = s.active
    BY <1>2, <2>1 DEF AppFields
  <2> QED  BY <1>1, <1>5, <2>2, <2>3, ToldIs DEF LetGo
<1>6. CASE fate = "kept"
  <2>1. t = [s EXCEPT !.suppressed = @ \ {Bit(button)}, !.selecting = selecting]
    BY <1>3, <1>6 DEF MouseRelease
  <2>2. Still(s, t)
    BY <1>2, <2>1, MouseFieldsStill DEF AppFields
  <2>3. /\ t.drag = s.drag /\ t.chrome = s.chrome /\ t.out = <<>>
        /\ t.suppressed = s.suppressed \ {Bit(button)} /\ t.selecting = selecting
        /\ t.active = s.active
    BY <1>2, <2>1 DEF AppFields
  <2> QED  BY <1>3, <1>6, <2>2, <2>3, ToldIs DEF LetGo
<1>7. CASE fate = "sent"
  <2>1. t = SendMouse(s, "release")
    BY <1>7 DEF MouseRelease
  <2>2. Still(s, t) /\ Hands(s, t) /\ (s.link = "up" => Told(t.out) = {s.focus})
    BY <2>1, SendMouseIs, ToldIs
  <2> QED  BY <1>7, <2>2 DEF Hands, LetGo
<1> QED  BY <1>1, <1>4, <1>5, <1>6, <1>7 DEF LetGo

\* A quiet piece is still.
LEMMA QuietStill ==
  ASSUME NEW s, Shape(s), s.out = <<>>, NEW t, Quiet(s, t)
  PROVE  Still(s, t) /\ Hands(s, t)
<1>1. Outcome(s, t, <<>>)
  BY QuietOutcome DEF Quiet
<1> QED  BY <1>1 DEF Outcome, KeysAre, Still, Quiet

LEMMA SameStill ==
  ASSUME NEW s, Shape(s), s.out = <<>>
  PROVE  Still(s, s) /\ Hands(s, s)
BY QuietStill DEF Quiet, Hands

LEMMA WheelIs ==
  ASSUME NEW s, Shape(s), s.out = <<>>, NEW up \in BOOLEAN, NEW shift \in BOOLEAN, NEW alternate \in BOOLEAN
  PROVE  Still(s, Wheel(s, up, shift, alternate)) /\ Hands(s, Wheel(s, up, shift, alternate))
<1>1. PICK t : t = Wheel(s, up, shift, alternate)
  OBVIOUS
<1>2. PICK by \in {1, -1} : by = (IF up THEN 1 ELSE -1)
  OBVIOUS
<1>3. t = s \/ t = Scroll(s, by) \/ t = SendMouse(s, "wheel")
  BY <1>1, <1>2 DEF Wheel
<1>4. by \in Int
  BY <1>2
<1>5. Quiet(s, Scroll(s, by))
  BY <1>4, ScrollQuiet
<1>6. Still(s, Scroll(s, by)) /\ Hands(s, Scroll(s, by))
  BY <1>5, QuietStill
<1> QED  BY <1>1, <1>3, <1>6, SendMouseIs, SameStill

\* A window switch ends a drag when the window goes behind another.
LEMMA WindowFocusIs ==
  ASSUME NEW s, Shape(s), s.out = <<>>, NEW active \in BOOLEAN
  PROVE  LET t == WindowFocus(s, active)
         IN /\ Still(s, t) /\ t.active = active
            /\ t.chrome = s.chrome /\ t.suppressed = s.suppressed /\ (t.selecting => s.selecting)
            /\ t.drag = IF active THEN s.drag ELSE FALSE
<1>1. PICK u : u = [s EXCEPT !.active = active]
  OBVIOUS
<1>2. /\ Shape(u) /\ u.active = active /\ u.out = s.out /\ u.pending = s.pending
      /\ u.chrome = s.chrome /\ u.suppressed = s.suppressed /\ u.selecting = s.selecting
      /\ u.drag = s.drag
  BY <1>1 DEF Shape, AppFields, Screened, Scripted, Waiting, Settings, Linked
<1>3. PICK b \in BOOLEAN : b = IF active THEN ShouldBlink(u) ELSE FALSE
  BY DEF ShouldBlink
<1>4. PICK t : t = WindowFocus(s, active)
  OBVIOUS
<1>5. /\ Shape(t) /\ t.active = u.active /\ t.out = u.out /\ t.pending = u.pending
      /\ t.chrome = u.chrome /\ t.suppressed = u.suppressed /\ (t.selecting => u.selecting)
      /\ t.drag = IF active THEN u.drag ELSE FALSE
  <2>1. CASE active
    <3>1. t = [u EXCEPT !.blink = b]
      BY <1>1, <1>3, <1>4, <2>1 DEF WindowFocus, ResetBlink
    <3>2. Quiet(u, t)
      BY <1>2, <3>1, BlinkQuiet
    <3> QED  BY <2>1, <3>2 DEF Quiet, Hands
  <2>2. CASE ~ active
    <3>1. t = [u EXCEPT !.blink = FALSE, !.drag = FALSE]
      BY <1>1, <1>4, <2>2 DEF WindowFocus
    <3>2. /\ Shape(t) /\ t.active = u.active /\ t.out = u.out /\ t.pending = u.pending
          /\ t.chrome = u.chrome /\ t.suppressed = u.suppressed
      BY <1>2, <3>1 DEF Shape, AppFields, Screened, Scripted, Waiting, Settings, Linked
    <3>3. t.selecting = u.selecting
      BY <1>2, <3>1 DEF Shape, AppFields
    <3>4. t.drag = FALSE
      BY <1>2, <3>1 DEF Shape, AppFields
    <3> QED  BY <2>2, <3>2, <3>3, <3>4
  <2> QED  BY <2>1, <2>2
<1>6. <<>> \in Seq({}) /\ DOMAIN <<>> = {}
  OBVIOUS
<1>7. Still(s, t)
  BY <1>2, <1>5, <1>6 DEF Still, Sent, KeysIn
<1> QED  BY <1>2, <1>4, <1>5, <1>7

\* The timers: the leader's sends the held-back key and nothing else does.
LEMMA ExpireIs ==
  ASSUME NEW s, Shape(s), s.out = <<>>, NEW reached
  PROVE  LET t == Expire(s, reached)
         IN \/ Outcome(s, t, <<>>) /\ t.pending = s.pending
            \/ Outcome(s, t, Flushed(s)) /\ t.pending = NotPending
<1>1. PICK u : u = IF "leader" \in reached /\ s.pending.on THEN OrExit(s, FlushLeader(s)) ELSE s
  OBVIOUS
<1>2. \/ Outcome(s, u, <<>>) /\ u.pending = s.pending
      \/ Outcome(s, u, Flushed(s)) /\ u.pending = NotPending
  <2>1. CASE "leader" \in reached /\ s.pending.on
    BY <1>1, <2>1, FlushOutIs
  <2>2. CASE ~ ("leader" \in reached /\ s.pending.on)
    <3>1. Outcome(s, s, <<>>)
      BY QuietOutcome DEF Hands
    <3> QED  BY <1>1, <2>2, <3>1
  <2> QED  BY <2>1, <2>2
<1>3. Shape(u)
  BY <1>2 DEF Outcome
<1>4. PICK b \in BOOLEAN : b = IF "blink" \in reached THEN ShouldBlink(u) ELSE u.blink
  BY <1>3 DEF ShouldBlink, Shape, Linked
<1>5. PICK t : t = [u EXCEPT !.blink = b]
  OBVIOUS
<1>6. Expire(s, reached) = t
  BY <1>1, <1>4, <1>5 DEF Expire
<1>7. Quiet(u, t)
  BY <1>3, <1>5, BlinkQuiet
<1>8. t.pending = u.pending
  BY <1>7 DEF Quiet
<1> HIDE DEF Flushed
<1> QED  BY <1>2, <1>6, <1>7, <1>8, OutcomeAfterQuiet

\* What leaves the marks alone and at most ends a drag.
Dropped(s, t) ==
    /\ t.chrome = s.chrome /\ t.suppressed = s.suppressed
    /\ t.drag \in {s.drag, FALSE}
    /\ t.selecting => s.selecting

LEMMA HandsDropped ==
  ASSUME NEW s, NEW t, Hands(s, t)
  PROVE  Dropped(s, t) /\ t.active = s.active
BY DEF Hands, Dropped

\* A border moved, or a connection found broken.
LEMMA DragBorderIs ==
  ASSUME NEW s, Shape(s), s.out = <<>>
  PROVE  LET t == DragBorder(s)
         IN Still(s, t) /\ Dropped(s, t) /\ t.active = s.active
<1>1. DOMAIN s = AppFields
  BY DEF Shape
<1>2. PICK asked, link, drag :
        /\ DragBorder(s) = [s EXCEPT !.asked = asked, !.link = link, !.drag = drag]
        /\ link \in {s.link, "none"} /\ drag \in {s.drag, FALSE}
  <2>1. CASE s.link = "up"
    <3>1. PICK asked : asked = s.asked \cup {[what |-> "resize", pane |-> s.focus]}
      OBVIOUS
    <3>2. Ask(s, "resize") = [s EXCEPT !.asked = asked]
      BY <2>1, <3>1 DEF Ask
    <3>3. [s EXCEPT !.asked = asked].link = "up" /\ [s EXCEPT !.asked = asked].drag = s.drag
      BY <1>1, <2>1 DEF AppFields
    <3>4. DragBorder(s) = [s EXCEPT !.asked = asked, !.link = s.link, !.drag = s.drag /\ TRUE]
      BY <1>1, <3>2, <3>3 DEF DragBorder, AppFields
    <3> QED  BY <3>4
  <2>2. CASE s.link # "up"
    <3>1. Ask(s, "resize") = [s EXCEPT !.link = "none"]
      BY <2>2 DEF Ask
    <3>2. DragBorder(s) = [s EXCEPT !.asked = s.asked, !.link = "none", !.drag = FALSE]
      BY <1>1, <3>1 DEF DragBorder, AppFields
    <3> QED  BY <3>2
  <2> QED  BY <2>1, <2>2
<1>3. PICK t : t = DragBorder(s)
  OBVIOUS
<1>4. Shape(t) /\ Dropped(s, t) /\ t.active = s.active /\ t.out = s.out /\ t.pending = s.pending
  <2>1. t = [s EXCEPT !.asked = asked, !.link = link, !.drag = drag]
    BY <1>2, <1>3
  <2>2. DOMAIN t = AppFields /\ \A f \in AppFields \ {"asked", "link", "drag"} : t[f] = s[f]
    BY <1>1, <2>1 DEF AppFields
  <2>3. Dropped(s, t) /\ t.active = s.active /\ t.out = s.out /\ t.pending = s.pending
    BY <1>2, <2>1 DEF Shape, AppFields, Dropped
  <2>4. Screened(t) /\ Scripted(t) /\ Waiting(t)
    BY <2>2 DEF Shape, AppFields, Screened, Scripted, Waiting, Settings
  <2> QED  BY <1>2, <2>1, <2>3, <2>4 DEF Shape, AppFields, Linked
<1>5. <<>> \in Seq({}) /\ DOMAIN <<>> = {}
  OBVIOUS
<1> QED  BY <1>3, <1>4, <1>5 DEF Still, Sent, KeysIn

\* The daemon's answers resize the panes that are left.
LEMMA SplitIs ==
  ASSUME NEW s, Shape(s), s.out = <<>>
  PROVE  Still(s, Split(s)) /\ Hands(s, Split(s))
<1>1. CASE s.panes = Panes
  BY <1>1, SameStill DEF Split
<1>2. CASE s.panes # Panes
  <2>1. PICK p : p = (CHOOSE q \in Panes : q \notin s.panes)
    OBVIOUS
  <2>2. p \in Panes
    <3>1. s.panes = {1} \/ s.panes = {2}
      BY <1>2 DEF Shape, Screened
    <3>2. \E q \in Panes : q \notin s.panes
      BY <3>1 DEF Panes
    <3> QED  BY <2>1, <3>2
  <2>3. PICK u : u = [s EXCEPT !.panes = Panes, !.focus = p]
    OBVIOUS
  <2>4. Split(s) = AllLive(u)
    BY <1>2, <2>1, <2>3 DEF Split
  <2>5. Shape(u) /\ Hands(s, u) /\ u.out = s.out /\ u.pending = s.pending
    BY <2>2, <2>3 DEF Shape, AppFields, Screened, Scripted, Waiting, Settings, Linked, Hands, Panes
  <2>6. Quiet(u, AllLive(u))
    BY <2>5, AllLiveQuiet
  <2>7. Still(u, AllLive(u)) /\ Hands(u, AllLive(u))
    BY <2>5, <2>6, QuietStill
  <2> QED  BY <2>4, <2>5, <2>7 DEF Still, Hands
<1> QED  BY <1>1, <1>2

LEMMA ClosePaneIs ==
  ASSUME NEW s, Shape(s), s.out = <<>>, NEW pane
  PROVE  LET t == ClosePane(s, pane)
         IN Still(s, t) /\ Dropped(s, t) /\ t.active = s.active
<1>1. CASE s.panes = {pane} \/ pane \notin s.panes
  BY <1>1, SameStill, HandsDropped DEF ClosePane
<1>2. CASE ~ (s.panes = {pane} \/ pane \notin s.panes)
  <2>1. pane \in Panes /\ s.panes = Panes
    BY <1>2 DEF Shape, Screened, Panes
  <2>2. PICK other : other = (CHOOSE p \in Panes : p # pane)
    OBVIOUS
  <2>3. other \in Panes /\ other # pane
    BY <2>1, <2>2 DEF Panes
  <2>4. PICK focus : focus = (IF s.focus = pane THEN other ELSE s.focus)
    OBVIOUS
  <2>5. Panes \ {pane} = {other} /\ focus = other
    BY <2>1, <2>3, <2>4 DEF Panes, Shape, Screened
  <2>6. PICK offset : offset = [p \in Panes |-> 0]
    OBVIOUS
  <2>7. PICK t : t = [s EXCEPT !.panes = {other}, !.focus = other, !.drag = FALSE,
                           !.offset = offset, !.copying = {}]
    OBVIOUS
  <2>8. ClosePane(s, pane) = t
    <3>1. ClosePane(s, pane)
            = AllLive([s EXCEPT !.panes = @ \ {pane}, !.drag = FALSE,
                                !.focus = IF @ = pane THEN other ELSE @])
      BY <1>2, <2>2 DEF ClosePane
    <3>2. DOMAIN s = AppFields
      BY DEF Shape
    <3>3. PICK u : u = [s EXCEPT !.panes = @ \ {pane}, !.drag = FALSE,
                               !.focus = IF @ = pane THEN other ELSE @]
      OBVIOUS
    <3>4. u = [s EXCEPT !.panes = {other}, !.focus = other, !.drag = FALSE]
      BY <2>1, <2>4, <2>5, <3>2, <3>3 DEF AppFields
    <3>5. AllLive(u) = t
      BY <2>6, <2>7, <3>2, <3>4 DEF AllLive, AppFields
    <3> QED  BY <3>1, <3>3, <3>5
  <2>9. Screened(t)
    <3>1. /\ t.panes = {other} /\ t.focus = other /\ t.copying = {} /\ t.offset = offset
      BY <2>7 DEF Shape, AppFields
    <3>2. other = 1 \/ other = 2
      BY <2>3 DEF Panes
    <3> QED  BY <2>6, <3>1, <3>2 DEF Screened, Panes, Pages
  <2>10. Shape(t) /\ Dropped(s, t) /\ t.active = s.active /\ t.out = s.out /\ t.pending = s.pending
    BY <2>7, <2>9 DEF Shape, AppFields, Scripted, Waiting, Settings, Linked, Dropped
  <2>11. <<>> \in Seq({}) /\ DOMAIN <<>> = {}
    OBVIOUS
  <2> QED  BY <2>8, <2>10, <2>11 DEF Still, Sent, KeysIn
<1> QED  BY <1>1, <1>2

\* A step that only forgets a request, drops a pane's copy mode, loses the
\* connection or ends the loop.
LEMMA FieldStill ==
  ASSUME NEW s, Shape(s), s.out = <<>>
  PROVE  /\ \A asked : LET t == [s EXCEPT !.asked = asked]
                       IN Still(s, t) /\ Hands(s, t)
         /\ \A copying \in SUBSET s.copying : LET t == [s EXCEPT !.copying = copying]
                                              IN Still(s, t) /\ Hands(s, t)
         /\ \A link \in {"up", "broken", "none"} : LET t == [s EXCEPT !.link = link]
                                                   IN Still(s, t) /\ Hands(s, t)
         /\ \A exiting \in BOOLEAN : LET t == [s EXCEPT !.exiting = exiting]
                                     IN Still(s, t) /\ Hands(s, t)
<1> DEFINE Moves(t) == /\ Shape(t) /\ Hands(s, t) /\ t.out = s.out /\ t.pending = s.pending
                       /\ t.palette = s.palette /\ t.file = s.file /\ t.lua = s.lua
<1>1. ASSUME NEW t, Moves(t)
      PROVE  Still(s, t) /\ Hands(s, t)
  BY <1>1, QuietStill DEF Quiet
<1>2. ASSUME NEW asked
      PROVE  Moves([s EXCEPT !.asked = asked])
  BY DEF Shape, AppFields, Screened, Scripted, Waiting, Settings, Linked, Hands
<1>3. ASSUME NEW copying \in SUBSET s.copying
      PROVE  Moves([s EXCEPT !.copying = copying])
  BY <1>3 DEF Shape, AppFields, Screened, Scripted, Waiting, Settings, Linked, Hands
<1>4. ASSUME NEW link \in {"up", "broken", "none"}
      PROVE  Moves([s EXCEPT !.link = link])
  BY <1>4 DEF Shape, AppFields, Screened, Scripted, Waiting, Settings, Linked, Hands
<1>5. ASSUME NEW exiting \in BOOLEAN
      PROVE  Moves([s EXCEPT !.exiting = exiting])
  BY <1>5 DEF Shape, AppFields, Screened, Scripted, Waiting, Settings, Linked, Hands
<1> HIDE DEF Moves
<1> QED  BY <1>1, <1>2, <1>3, <1>4, <1>5

\* The application as it starts, its first handlers called.
LEMMA StartedIs ==
  ASSUME NEW d \in DOMAIN Directories
  PROVE  LET t == Started(d)
         IN /\ Shape(t) /\ Sent(t) /\ t.pending = NotPending
            /\ t.chrome = {} /\ t.suppressed = {} /\ t.drag = FALSE /\ ~ t.selecting
            /\ t.active = TRUE
<1>1. PICK vm : vm = VmOf(d, WatcherVm(0))
  OBVIOUS
<1>2. vm \in Nat /\ (vm = 0 => ~ Loaded[d].vm)
  BY <1>1 DEF VmOf, WatcherVm
<1>3. PICK problem : problem = Loaded[d].error
  OBVIOUS
<1>4. PICK offset : offset = [p \in Panes |-> 0]
  OBVIOUS
<1>5. PICK held : held = {vm} \ {0}
  OBVIOUS
<1>6. PICK shown : shown = [panes |-> 1, tabs |-> 1, focus |-> {}, copyMode |-> CopySupported]
  OBVIOUS
<1>7. PICK s : s = [panes |-> {1}, focus |-> 1, asked |-> {}, copying |-> {},
                    offset |-> offset, palette |-> Closed, shown |-> shown,
                    pending |-> NotPending, file |-> d, binds |-> vm, events |-> vm, lua |-> vm,
                    held |-> held, problem |-> problem, chrome |-> {}, suppressed |-> {},
                    drag |-> FALSE, selecting |-> FALSE, link |-> "up", exiting |-> FALSE,
                    active |-> TRUE, blink |-> FALSE, out |-> <<>>]
  OBVIOUS
<1>8. Started(d) = IF problem THEN s ELSE Fire(s, "config.loaded")
  BY <1>1, <1>3, <1>4, <1>5, <1>6, <1>7 DEF Started
<1>9. Screened(s)
  <2>1. s.panes = {1} /\ s.focus = 1 /\ s.copying = {} /\ s.offset = offset
    BY <1>7
  <2> QED  BY <1>4, <2>1 DEF Screened, Panes, Pages
<1>10. Scripted(s)
  <2>1. s.file = d /\ s.lua = vm /\ s.binds = vm /\ s.events = vm /\ s.held = held
    BY <1>7
  <2> QED  BY <1>2, <1>5, <2>1 DEF Scripted
<1>11. PaletteSound(s.palette)
  <2>1. s.palette = Closed
    BY <1>7
  <2>2. PICK p : p = Closed
    OBVIOUS
  <2>3. /\ DOMAIN p = PaletteFields /\ p.visible = FALSE /\ p.query = <<>>
        /\ p.results = <<>> /\ p.selected = 1 /\ p.recent = <<>>
    <3>1. DOMAIN p = PaletteFields
      BY <2>2 DEF Closed, PaletteFields
    <3>2. p.visible = FALSE
      BY <2>2 DEF Closed
    <3>3. p.query = <<>> /\ p.results = <<>> /\ p.recent = <<>>
      BY <2>2 DEF Closed
    <3>4. p.selected = 1
      BY <2>2 DEF Closed
    <3> QED  BY <3>1, <3>2, <3>3, <3>4
  <2>4. p.visible \in BOOLEAN /\ p.selected \in Nat \ {0} /\ p.recent \in Seq(ActionIds)
    <3>1. <<>> \in Seq(ActionIds) /\ FALSE \in BOOLEAN /\ 1 \in Nat \ {0}
      OBVIOUS
    <3>2. p.recent \in Seq(ActionIds)
      BY <2>3, <3>1
    <3>3. p.visible \in BOOLEAN
      BY <2>3, <3>1
    <3>4. p.selected \in Nat \ {0}
      BY <2>3, <3>1
    <3> QED  BY <3>2, <3>3, <3>4
  <2>5. (\E S : p.query \in Seq(S)) /\ (\E S : p.results \in Seq(S))
    <3>1. <<>> \in Seq({})
      OBVIOUS
    <3> QED  BY <2>3, <3>1
  <2>6. \A i \in DOMAIN p.results : p.results[i].id \in ActionIds
    <3>1. DOMAIN <<>> = {}
      OBVIOUS
    <3> QED  BY <2>3, <3>1
  <2> QED  BY <2>1, <2>2, <2>3, <2>4, <2>5, <2>6 DEF PaletteSound
<1>12. Waiting(s)
  <2>1. s.pending = NotPending
    BY <1>7
  <2> QED  BY <2>1 DEF Waiting, NotPending
<1>13. Linked(s)
  <2>1. s.link = "up" /\ s.exiting = FALSE /\ s.active = TRUE /\ s.blink = FALSE
    BY <1>7
  <2> QED  BY <2>1 DEF Linked
<1>14. DOMAIN s = AppFields
  BY <1>7 DEF AppFields
<1>15. Shape(s)
  BY <1>9, <1>10, <1>11, <1>12, <1>13, <1>14 DEF Shape
<1>16. Sent(s) /\ KeysAre(s.out, <<>>, s.focus)
  <2>1. s.out = <<>>
    BY <1>7
  <2>2. <<>> \in Seq({}) /\ DOMAIN <<>> = {}
    OBVIOUS
  <2> QED  BY <2>1, <2>2 DEF Sent, KeysAre, KeysIn
<1>17. Outcome(s, Fire(s, "config.loaded"), <<>>) /\ Fire(s, "config.loaded").pending = s.pending
  <2>1. "config.loaded" \in KnownEvents
    BY DEF KnownEvents
  <2> QED  BY <1>15, <1>16, <2>1, FireIs
<1>18. /\ s.pending = NotPending /\ s.chrome = {} /\ s.suppressed = {} /\ s.drag = FALSE
       /\ s.selecting = FALSE /\ s.active = TRUE
  BY <1>7
<1>19. PICK t : t = Started(d)
  OBVIOUS
<1>20. /\ Shape(t) /\ Sent(t) /\ t.pending = NotPending /\ t.chrome = {} /\ t.suppressed = {}
       /\ t.drag = FALSE /\ t.active = TRUE /\ ~ t.selecting
  BY <1>8, <1>15, <1>16, <1>17, <1>18, <1>19 DEF Outcome, Hands
<1> QED  BY <1>19, <1>20

-----------------------------------------------------------------------------
(***************************************************************************)
(* The loop.  The inductive invariant: the application is sound, what is   *)
(* posted can be adopted, a held-back key is newer than any sent, and what *)
(* the application takes to be pressed is what the user holds.             *)
(***************************************************************************)
Fates == {"none", "chrome", "border", "kept", "sent", "cut"}

Posts == [dir : DOMAIN Directories, vm : Nat \ {0}]

FilesSound ==
    /\ DOMAIN files = {"current", "started", "watching", "dirty", "missed", "posted", "loads"}
    /\ files.current \in DOMAIN Directories
    /\ files.posted \in Seq(Posts)
    /\ files.loads \in Nat

HandSet == [down : [Buttons -> Fates], pane : [Buttons -> Panes \cup {0}], clean : BOOLEAN, last : Nat]

HandSound ==
    /\ hand \in HandSet
    /\ hand.down["right"] \notin {"border", "cut"} /\ hand.down["back"] \notin {"border", "cut"}
    /\ hand.down["left"] = "border" => gui.drag /\ gui.active
    /\ hand.clean => hand.down["left"] = "none" \/ hand.down["back"] = "none"

\* Keys are numbered as they are typed, and the one held back is the newest.
Numbered ==
    /\ count \in Nat /\ hand.last <= count
    /\ gui.pending.key # 0 => hand.last < gui.pending.key /\ gui.pending.key <= count

InputInv ==
    /\ Shape(gui) /\ Sent(gui) /\ FilesSound /\ HandSound /\ Numbered
    /\ gui.chrome \cup gui.suppressed \subseteq {0, 2}
    /\ hand.clean => Marked(gui, hand.down)

\* What a step does to the keys, and to the buttons.
TypedStep ==
    LET sent == KeysIn(gui'.out)
    IN gui' # gui =>
         /\ \A i \in sent :
             /\ gui'.out[i].n > hand.last
             /\ \A j \in sent : j < i => gui'.out[j].n < gui'.out[i].n
             /\ ~ gui.palette.visible /\ gui'.out[i].pane \notin gui.copying
         /\ (gui.pending.key # 0 /\ gui'.pending # gui.pending /\ gui.link = "up"
                 /\ ~ InCopyMode(gui)) =>
             IF sent = {} THEN count' # count
             ELSE gui'.out[Min(sent)].n = gui.pending.key

ClickedStep ==
    hand'.clean =>
        /\ Marked(gui', hand'.down)
        /\ \A b \in Buttons : Released(b) => Whole(b) \/ Halved(b)

LEMMA NowIs ==
  ASSUME NEW s, Shape(s)
  PROVE  LET t == [s EXCEPT !.out = <<>>]
         IN /\ Shape(t) /\ t.out = <<>> /\ t.drag = s.drag /\ t.chrome = s.chrome
            /\ t.suppressed = s.suppressed /\ t.selecting = s.selecting /\ t.active = s.active
            /\ t.pending = s.pending /\ t.link = s.link /\ t.focus = s.focus
            /\ t.copying = s.copying /\ t.palette = s.palette /\ t.lua = s.lua
            /\ t.panes = s.panes /\ t.asked = s.asked
BY DEF Shape, AppFields, Screened, Scripted, Waiting, Settings, Linked

\* The keys of an output, by how many there are.
LEMMA NoKeysAre ==
  ASSUME NEW out, NEW pane, KeysAre(out, <<>>, pane)
  PROVE  KeysIn(out) = {}
<1>1. DOMAIN <<>> = {}
  OBVIOUS
<1> QED  BY <1>1 DEF KeysAre

LEMMA OneKeyIs ==
  ASSUME NEW out, NEW pane, NEW m, KeysAre(out, <<m>>, pane)
  PROVE  /\ KeysIn(out) = {1} /\ out[1].n = m /\ out[1].pane = pane
         /\ Max(KeysIn(out)) = 1 /\ Min(KeysIn(out)) = 1
<1>1. DOMAIN <<m>> = {1} /\ <<m>>[1] = m
  OBVIOUS
<1>2. KeysIn(out) = {1} /\ out[1].n = m /\ out[1].pane = pane
  BY <1>1 DEF KeysAre
<1>3. Max({1}) = 1
  BY MaxIs
<1>4. Min({1}) = 1
  BY MinIs
<1> QED  BY <1>2, <1>3, <1>4

LEMMA TwoKeysAre ==
  ASSUME NEW out, NEW pane, NEW m, NEW n, KeysAre(out, <<m, n>>, pane)
  PROVE  /\ KeysIn(out) = {1, 2} /\ out[1].n = m /\ out[2].n = n
         /\ out[1].pane = pane /\ out[2].pane = pane
         /\ Max(KeysIn(out)) = 2 /\ Min(KeysIn(out)) = 1
<1>1. DOMAIN <<m, n>> = {1, 2} /\ <<m, n>>[1] = m /\ <<m, n>>[2] = n
  OBVIOUS
<1>2. KeysIn(out) = {1, 2} /\ out[1].n = m /\ out[2].n = n /\ out[1].pane = pane /\ out[2].pane = pane
  BY <1>1 DEF KeysAre
<1>3. Max({1, 2}) = 2
  BY MaxIs
<1>4. Min({1, 2}) = 1
  BY MinIs
<1> QED  BY <1>2, <1>3, <1>4

-----------------------------------------------------------------------------
\* Hands and marks that a step leaves alone.
LEMMA KeptHands ==
  ASSUME InputInv, Hands(gui, gui'), hand'.down = hand.down, hand'.clean = hand.clean,
         NEW k \in Nat, hand' = [hand EXCEPT !.last = k]
  PROVE  /\ HandSound' /\ ClickedStep
         /\ (gui.chrome \cup gui.suppressed \subseteq {0, 2})'
         /\ (hand.clean => Marked(gui, hand.down))'
<1>1. HandSound'
  <2>1. hand' \in HandSet
    BY DEF InputInv, HandSound, HandSet
  <2> QED  BY <2>1 DEF InputInv, HandSound, Hands
<1>2. (gui.chrome \cup gui.suppressed \subseteq {0, 2})'
  BY DEF InputInv, Hands
<1>3. hand.clean => Marked(gui, hand.down)
  BY DEF InputInv
<1>4. Marked(gui, hand.down) => Marked(gui', hand'.down)
  BY DEF Marked, Hands
<1>5. hand'.clean => Marked(gui', hand'.down)
  BY <1>3, <1>4
<1>6. ClickedStep
  BY <1>5 DEF ClickedStep, Released, Held
<1> QED  BY <1>1, <1>2, <1>5, <1>6

\* A step that sends no keys and keeps the leader waiting types nothing.
LEMMA StillTypes ==
  ASSUME InputInv, Still(gui, gui'), hand'.last = hand.last, count' \in {count, count + 1}
  PROVE  TypedStep /\ Numbered' /\ Shape(gui)' /\ Sent(gui)'
<1>1. hand.last \in Nat
  BY DEF InputInv, HandSound, HandSet
<1>2. KeysIn(gui'.out) = {} /\ gui'.pending = gui.pending
  BY DEF Still
<1>3. TypedStep
  BY <1>2 DEF TypedStep
<1>4. Numbered'
  <2>1. PICK key \in Nat : key = gui.pending.key
    BY DEF InputInv, Shape, Waiting
  <2>2. gui'.pending.key = key
    BY <1>2, <2>1
  <2> QED  BY <1>1, <2>1, <2>2 DEF InputInv, Numbered
<1> QED  BY <1>3, <1>4 DEF Still

\* From the outcome of a handler that starts with nothing sent.
LEMMA OutcomeSteps ==
  ASSUME InputInv, NEW ns, Outcome(Now, gui', ns)
  PROVE  /\ Shape(gui)' /\ Sent(gui)' /\ Hands(gui, gui') /\ KeysAre(gui'.out, ns, gui.focus)
         /\ gui'.pending.key \in Nat
<1>1. PICK s : s = Now
  OBVIOUS
<1>2. /\ s.drag = gui.drag /\ s.chrome = gui.chrome /\ s.suppressed = gui.suppressed
      /\ s.selecting = gui.selecting /\ s.active = gui.active /\ s.focus = gui.focus
  BY <1>1, NowIs DEF InputInv, Now
<1>3. Shape(gui') /\ Sent(gui') /\ Hands(s, gui') /\ KeysAre(gui'.out, ns, s.focus)
  BY <1>1 DEF Outcome
<1>4. Hands(gui, gui')
  BY <1>2, <1>3 DEF Hands
<1>5. gui'.pending.key \in Nat
  BY <1>3 DEF Shape, Waiting
<1> QED  BY <1>2, <1>3, <1>4, <1>5

\* No key goes out: the leader starts to wait, keeps waiting or is claimed.
LEMMA NothingTyped ==
  ASSUME InputInv, Outcome(Now, gui', <<>>), hand' = [hand EXCEPT !.last = LastKey(gui'.out)],
         count' \in {count, count + 1},
         \/ gui'.pending = gui.pending
         \/ gui'.pending.key = 0
         \/ gui'.pending.key = count' /\ count' = count + 1,
         \/ gui'.pending = gui.pending \/ count' # count \/ gui.pending.key = 0
         \/ InCopyMode(gui) \/ gui.link # "up"
  PROVE  TypedStep /\ Numbered' /\ hand' = [hand EXCEPT !.last = hand.last]
<1>1. hand.last \in Nat /\ count \in Nat /\ hand.last <= count
  BY DEF InputInv, HandSound, HandSet, Numbered
<1>2. KeysIn(gui'.out) = {}
  BY OutcomeSteps, NoKeysAre
<1>3. hand' = [hand EXCEPT !.last = hand.last] /\ hand'.last = hand.last
  BY <1>2 DEF LastKey, InputInv, HandSound
<1>4. TypedStep
  BY <1>2 DEF TypedStep
<1>5. Numbered'
  <2>1. PICK key \in Nat, next \in Nat : key = gui.pending.key /\ next = gui'.pending.key
    BY OutcomeSteps DEF InputInv, Shape, Waiting
  <2>2. key # 0 => hand.last < key /\ key <= count
    BY <2>1 DEF InputInv, Numbered
  <2>3. next = key \/ next = 0 \/ (next = count' /\ count' = count + 1)
    BY <2>1
  <2>4. count' \in Nat /\ hand.last <= count' /\ (next # 0 => hand.last < next /\ next <= count')
    BY <1>1, <2>2, <2>3
  <2> QED  BY <1>3, <2>1, <2>4 DEF Numbered
<1> QED  BY <1>3, <1>4, <1>5

\* One key goes out: the one held back, or this press.
LEMMA OneTyped ==
  ASSUME InputInv, NEW n \in Nat, Outcome(Now, gui', <<n>>),
         hand' = [hand EXCEPT !.last = LastKey(gui'.out)],
         count' \in {count, count + 1}, gui'.pending.key = 0,
         ~ gui.palette.visible, ~ InCopyMode(gui),
         \/ n = gui.pending.key /\ n # 0
         \/ n = count + 1 /\ count' = n /\ (gui.pending.key = 0 \/ gui.link # "up")
  PROVE  TypedStep /\ Numbered' /\ hand' = [hand EXCEPT !.last = n]
<1>1. hand.last \in Nat /\ count \in Nat /\ hand.last <= count
  BY DEF InputInv, HandSound, HandSet, Numbered
<1>2. PICK out : out = gui'.out
  OBVIOUS
<1>3. KeysAre(out, <<n>>, gui.focus)
  BY <1>2, OutcomeSteps
<1>4. /\ KeysIn(out) = {1} /\ out[1].n = n /\ out[1].pane = gui.focus
      /\ Max(KeysIn(out)) = 1 /\ Min(KeysIn(out)) = 1
  BY <1>3, OneKeyIs
<1>5. LastKey(out) = n
  BY <1>4 DEF LastKey
<1>6. hand' = [hand EXCEPT !.last = n] /\ hand'.last = n
  BY <1>2, <1>5 DEF InputInv, HandSound
<1>7. PICK key \in Nat : key = gui.pending.key
  BY DEF InputInv, Shape, Waiting
<1>8. key # 0 => hand.last < key /\ key <= count
  BY <1>7 DEF InputInv, Numbered
<1>9. n > hand.last /\ n <= count' /\ count' \in Nat
  BY <1>1, <1>7, <1>8
<1>10. TypedStep
  <2>1. gui.focus \notin gui.copying
    BY DEF InCopyMode
  <2>2. key # 0 /\ gui.link = "up" => n = key
    BY <1>7
  <2>3. ~ 1 < 1
    OBVIOUS
  <2> QED  BY <1>2, <1>4, <1>7, <1>9, <2>1, <2>2, <2>3 DEF TypedStep
<1>11. Numbered'
  BY <1>6, <1>9 DEF Numbered
<1> QED  BY <1>6, <1>10, <1>11

\* The held-back key goes out and this press behind it.
LEMMA TwoTyped ==
  ASSUME InputInv, NEW m \in Nat, NEW n \in Nat, Outcome(Now, gui', <<m, n>>),
         hand' = [hand EXCEPT !.last = LastKey(gui'.out)],
         count' = count + 1, n = count', gui'.pending.key = 0,
         ~ gui.palette.visible, ~ InCopyMode(gui), m = gui.pending.key, m # 0
  PROVE  TypedStep /\ Numbered' /\ hand' = [hand EXCEPT !.last = n]
<1>1. hand.last \in Nat /\ count \in Nat /\ hand.last <= count
  BY DEF InputInv, HandSound, HandSet, Numbered
<1>2. PICK out : out = gui'.out
  OBVIOUS
<1>3. KeysAre(out, <<m, n>>, gui.focus)
  BY <1>2, OutcomeSteps
<1>4. /\ KeysIn(out) = {1, 2} /\ out[1].n = m /\ out[2].n = n
      /\ out[1].pane = gui.focus /\ out[2].pane = gui.focus
      /\ Max(KeysIn(out)) = 2 /\ Min(KeysIn(out)) = 1
  BY <1>3, TwoKeysAre
<1>5. LastKey(out) = n
  BY <1>4 DEF LastKey
<1>6. hand' = [hand EXCEPT !.last = n] /\ hand'.last = n
  BY <1>2, <1>5 DEF InputInv, HandSound
<1>7. hand.last < m /\ m <= count
  BY DEF InputInv, Numbered
<1>8. m > hand.last /\ n > hand.last /\ m < n /\ count' \in Nat /\ n <= count'
  BY <1>1, <1>7
<1>9. TypedStep
  <2>1. gui.focus \notin gui.copying
    BY DEF InCopyMode
  <2>2. \A i \in {1, 2} : \A j \in {1, 2} : j < i => j = 1 /\ i = 2
    OBVIOUS
  <2> QED  BY <1>2, <1>4, <1>8, <2>1, <2>2 DEF TypedStep
<1>10. Numbered'
  BY <1>6, <1>8 DEF Numbered
<1> QED  BY <1>6, <1>9, <1>10

-----------------------------------------------------------------------------
(***************************************************************************)
(* Every step keeps the invariant and does as TypedStep and ClickedStep    *)
(* say.                                                                    *)
(***************************************************************************)
LEMMA NowKeeps ==
  ASSUME InputInv
  PROVE  /\ Shape(Now) /\ Now.out = <<>> /\ Now.pending = gui.pending /\ Now.link = gui.link
         /\ Now.focus = gui.focus /\ Now.copying = gui.copying /\ Now.palette = gui.palette
         /\ Now.drag = gui.drag /\ Now.chrome = gui.chrome /\ Now.suppressed = gui.suppressed
         /\ Now.selecting = gui.selecting /\ Now.active = gui.active
         /\ (InCopyMode(Now) <=> InCopyMode(gui)) /\ (Flushes(Now) <=> Flushes(gui))
         /\ Now.asked = gui.asked
<1>1. PICK s : s = Now
  OBVIOUS
<1>2. /\ Shape(s) /\ s.out = <<>> /\ s.pending = gui.pending /\ s.link = gui.link
      /\ s.focus = gui.focus /\ s.copying = gui.copying /\ s.palette = gui.palette
      /\ s.drag = gui.drag /\ s.chrome = gui.chrome /\ s.suppressed = gui.suppressed
      /\ s.selecting = gui.selecting /\ s.active = gui.active /\ s.asked = gui.asked
  BY <1>1, NowIs DEF InputInv, Now
<1>3. InCopyMode(s) <=> InCopyMode(gui)
  BY <1>2 DEF InCopyMode
<1>4. Flushes(s) <=> Flushes(gui)
  BY <1>2, <1>3 DEF Flushes
<1> QED  BY <1>1, <1>2, <1>3, <1>4

\* What is left to show of a step that changes no marks.
LEMMA KeyStep ==
  ASSUME InputInv, NEW ns, Outcome(Now, gui', ns), NEW k \in Nat, hand' = [hand EXCEPT !.last = k],
         TypedStep, Numbered', FilesSound'
  PROVE  InputInv' /\ TypedStep /\ ClickedStep
<1>1. hand'.down = hand.down /\ hand'.clean = hand.clean
  BY DEF InputInv, HandSound
<1>2. Shape(gui)' /\ Sent(gui)' /\ Hands(gui, gui')
  BY OutcomeSteps
<1>3. /\ HandSound' /\ ClickedStep
      /\ (gui.chrome \cup gui.suppressed \subseteq {0, 2})'
      /\ (hand.clean => Marked(gui, hand.down))'
  BY <1>1, <1>2, KeptHands
<1> QED  BY <1>2, <1>3 DEF InputInv

LEMMA KeyPressed ==
  ASSUME InputInv, NEW key, PressKey(key)
  PROVE  InputInv' /\ TypedStep /\ ClickedStep
<1>1. count \in Nat /\ FilesSound
  BY DEF InputInv, Numbered
<1>2. PICK n \in Nat : n = count + 1
  BY <1>1
<1>3. count' = n /\ files' = files /\ hand' = [hand EXCEPT !.last = LastKey(gui'.out)]
  BY <1>2 DEF PressKey, Counted
<1>4. FilesSound'
  BY <1>1, <1>3 DEF FilesSound
<1>5. PICK vm : vm = VmOf(files.current, KeyVm(n))
  OBVIOUS
<1>6. vm \in Nat /\ (vm = 0 => ~ Loaded[files.current].vm)
  BY <1>1, <1>2, <1>5 DEF VmOf, KeyVm
<1>7. PICK leaves \in BOOLEAN, fontOk \in BOOLEAN :
        gui' = KeyPress(Now, key, n, leaves, [dir |-> files.current, fontOk |-> fontOk, vm |-> vm])
  BY <1>2, <1>5 DEF PressKey
<1>8. PICK env : env = [dir |-> files.current, fontOk |-> fontOk, vm |-> vm]
  OBVIOUS
<1>9. Environment(env)
  <2>1. env.dir = files.current /\ env.vm = vm /\ env.fontOk = fontOk
    BY <1>8
  <2> QED  BY <1>1, <1>6, <2>1 DEF Environment, FilesSound
<1>10. PICK s : s = Now
  OBVIOUS
<1>11. Pressed(s, gui', n)
  <2>1. Shape(s) /\ s.out = <<>>
    BY <1>10, NowKeeps
  <2>2. Pressed(s, KeyPress(s, key, n, leaves, env), n)
    BY <1>9, <2>1, KeyPressIs
  <2> QED  BY <1>7, <1>8, <1>10, <2>2
<1>12. hand.last \in Nat
  BY DEF InputInv, HandSound, HandSet
<1>13. /\ s.pending = gui.pending /\ s.palette = gui.palette /\ s.link = gui.link
       /\ (InCopyMode(s) <=> InCopyMode(gui)) /\ (Flushes(s) <=> Flushes(gui))
  BY <1>10, NowKeeps
<1>14. count' = count + 1 /\ count' # count
  BY <1>1, <1>2, <1>3
<1>15. CASE Outcome(s, gui', <<>>) /\ (gui'.pending.key = 0 \/ (~ s.pending.on /\ gui'.pending.key = n))
  <2>1. Outcome(Now, gui', <<>>)
    BY <1>10, <1>15
  <2>2. TypedStep /\ Numbered' /\ hand' = [hand EXCEPT !.last = hand.last]
    BY <1>3, <1>14, <1>15, <2>1, NothingTyped
  <2> QED  BY <1>4, <1>12, <2>1, <2>2, KeyStep
<1>16. CASE /\ ~ InCopyMode(s) /\ ~ s.palette.visible /\ gui'.pending.key = 0
            /\ \E ns \in Presses(s, n) : Outcome(s, gui', ns)
  <2>1. PICK ns \in Presses(s, n) : Outcome(s, gui', ns)
    BY <1>16
  <2>2. Outcome(Now, gui', ns)
    BY <1>10, <2>1
  <2>3. PICK m \in Nat : m = gui.pending.key
    BY DEF InputInv, Shape, Waiting
  <2>4. ~ InCopyMode(gui) /\ ~ gui.palette.visible
    BY <1>13, <1>16
  <2>5. CASE Flushes(s) /\ ns = <<m>>
    <3>1. m # 0
      BY <1>13, <2>3, <2>5 DEF Flushes
    <3>2. Outcome(Now, gui', <<m>>)
      BY <2>2, <2>5
    <3>3. TypedStep /\ Numbered' /\ hand' = [hand EXCEPT !.last = m]
      BY <1>3, <1>14, <1>16, <2>3, <2>4, <3>1, <3>2, OneTyped
    <3> QED  BY <1>4, <2>2, <3>3, KeyStep
  <2>6. CASE Flushes(s) /\ ns = <<m, n>>
    <3>1. m # 0
      BY <1>13, <2>3, <2>6 DEF Flushes
    <3>2. Outcome(Now, gui', <<m, n>>)
      BY <2>2, <2>6
    <3>3. TypedStep /\ Numbered' /\ hand' = [hand EXCEPT !.last = n]
      BY <1>3, <1>14, <1>16, <2>3, <2>4, <3>1, <3>2, TwoTyped
    <3> QED  BY <1>4, <2>2, <3>3, KeyStep
  <2>7. CASE ~ Flushes(s) /\ ns = <<n>>
    <3>1. gui.pending.key = 0 \/ gui.link # "up"
      BY <1>13, <2>4, <2>7 DEF Flushes
    <3>2. Outcome(Now, gui', <<n>>)
      BY <2>2, <2>7
    <3>3. TypedStep /\ Numbered' /\ hand' = [hand EXCEPT !.last = n]
      BY <1>2, <1>3, <1>14, <1>16, <2>4, <3>1, <3>2, OneTyped
    <3> QED  BY <1>4, <2>2, <3>3, KeyStep
  <2> QED  BY <1>13, <2>1, <2>3, <2>5, <2>6, <2>7 DEF Presses
<1> QED  BY <1>11, <1>15, <1>16 DEF Pressed

\* The wait for the leader ends, or nothing about it changes.
LEMMA Settled ==
  ASSUME InputInv, count' = count, hand' = [hand EXCEPT !.last = LastKey(gui'.out)], FilesSound',
         \/ Outcome(Now, gui', <<>>) /\ gui'.pending = Now.pending
         \/ Outcome(Now, gui', Flushed(Now)) /\ gui'.pending = NotPending
  PROVE  InputInv' /\ TypedStep /\ ClickedStep
<1>1. hand.last \in Nat /\ count \in Nat
  BY DEF InputInv, HandSound, HandSet, Numbered
<1>2. PICK s : s = Now
  OBVIOUS
<1>3. /\ s.pending = gui.pending /\ s.palette = gui.palette /\ s.link = gui.link
      /\ (InCopyMode(s) <=> InCopyMode(gui)) /\ (Flushes(s) <=> Flushes(gui))
  BY <1>2, NowKeeps
<1>4. NotPending.key = 0
  BY DEF NotPending
<1>5. PICK m \in Nat : m = gui.pending.key
  BY DEF InputInv, Shape, Waiting
<1>6. CASE Outcome(s, gui', <<>>) /\ gui'.pending = s.pending
  <2>1. Outcome(Now, gui', <<>>) /\ gui'.pending = gui.pending
    BY <1>2, <1>3, <1>6
  <2>2. TypedStep /\ Numbered' /\ hand' = [hand EXCEPT !.last = hand.last]
    BY <2>1, NothingTyped
  <2> QED  BY <1>1, <2>1, <2>2, KeyStep
<1>7. CASE Outcome(s, gui', Flushed(s)) /\ gui'.pending = NotPending /\ Flushes(s)
  <2>1. Flushed(s) = <<m>> /\ m # 0 /\ ~ InCopyMode(gui)
    BY <1>3, <1>5, <1>7 DEF Flushed, Flushes
  <2>2. ~ gui.palette.visible
    <3>1. gui.pending.on
      BY <1>5, <2>1 DEF InputInv, Shape, Waiting
    <3> QED  BY <3>1 DEF InputInv, Shape, Waiting
  <2>3. Outcome(Now, gui', <<m>>)
    BY <1>2, <1>7, <2>1
  <2>4. TypedStep /\ Numbered' /\ hand' = [hand EXCEPT !.last = m]
    BY <1>4, <1>5, <1>7, <2>1, <2>2, <2>3, OneTyped
  <2> QED  BY <2>3, <2>4, KeyStep
<1>8. CASE Outcome(s, gui', Flushed(s)) /\ gui'.pending = NotPending /\ ~ Flushes(s)
  <2>1. Outcome(Now, gui', <<>>)
    BY <1>2, <1>8 DEF Flushed
  <2>2. gui.pending.key = 0 \/ InCopyMode(gui) \/ gui.link # "up"
    BY <1>3, <1>8 DEF Flushes
  <2>3. TypedStep /\ Numbered' /\ hand' = [hand EXCEPT !.last = hand.last]
    BY <1>4, <1>8, <2>1, <2>2, NothingTyped
  <2> QED  BY <1>1, <2>1, <2>3, KeyStep
<1> QED  BY <1>2, <1>6, <1>7, <1>8

LEMMA TimersGo ==
  ASSUME InputInv, NEW reached, Wake(reached)
  PROVE  InputInv' /\ TypedStep /\ ClickedStep
<1>1. PICK s : s = Now
  OBVIOUS
<1>2. gui' = Expire(s, reached) /\ hand' = [hand EXCEPT !.last = LastKey(gui'.out)]
      /\ files' = files /\ count' = count
  BY <1>1 DEF Wake
<1>3. Shape(s) /\ s.out = <<>>
  BY <1>1, NowKeeps
<1>4. \/ Outcome(s, gui', <<>>) /\ gui'.pending = s.pending
      \/ Outcome(s, gui', Flushed(s)) /\ gui'.pending = NotPending
  BY <1>2, <1>3, ExpireIs
<1>5. FilesSound'
  BY <1>2 DEF InputInv, FilesSound
<1> QED  BY <1>1, <1>2, <1>4, <1>5, Settled

LEMMA FileReloaded ==
  ASSUME InputInv, Reloaded
  PROVE  InputInv' /\ TypedStep /\ ClickedStep
<1>1. FilesSound
  BY DEF InputInv
<1>2. PICK result : result = Head(files.posted)
  OBVIOUS
<1>3. files.posted \in Seq(Posts) /\ files.posted # <<>>
  BY <1>1 DEF FilesSound, Reloaded
<1>4. result \in Posts /\ Tail(files.posted) \in Seq(Posts)
  BY <1>2, <1>3, HeadTailProperties
<1>5. result.dir \in DOMAIN Directories /\ result.vm \in Nat \ {0}
  BY <1>4 DEF Posts
<1>6. PICK vm : vm = VmOf(result.dir, result.vm)
  OBVIOUS
<1>7. vm \in Nat /\ (vm = 0 => ~ Loaded[result.dir].vm)
  BY <1>5, <1>6 DEF VmOf
<1>8. PICK s : s = Now
  OBVIOUS
<1>9. PICK fontOk \in BOOLEAN : gui' = Reload(s, result.dir, vm, fontOk)
  BY <1>2, <1>6, <1>8 DEF Reloaded
<1>10. Shape(s) /\ s.out = <<>>
  BY <1>8, NowKeeps
<1>11. \/ Outcome(s, gui', <<>>) /\ gui'.pending = s.pending
       \/ Outcome(s, gui', Flushed(s)) /\ gui'.pending = NotPending
  BY <1>5, <1>7, <1>9, <1>10, ReloadIs
<1>12. files' = [files EXCEPT !.posted = Tail(@)] /\ count' = count
       /\ hand' = [hand EXCEPT !.last = LastKey(gui'.out)]
  BY DEF Reloaded
<1>13. FilesSound'
  <2>1. PICK rest : rest = Tail(files.posted)
    OBVIOUS
  <2>2. files' = [files EXCEPT !.posted = rest]
    BY <1>12, <2>1
  <2> QED  BY <1>1, <1>4, <2>1, <2>2 DEF FilesSound
<1> QED  BY <1>8, <1>11, <1>12, <1>13, Settled

\* A step of neither keys nor buttons.
LEMMA StillStep ==
  ASSUME InputInv, Still(Now, gui'), Hands(Now, gui'), hand' = hand, files' = files,
         count' \in {count, count + 1}
  PROVE  InputInv' /\ TypedStep /\ ClickedStep
<1>1. PICK s : s = Now
  OBVIOUS
<1>2. /\ s.pending = gui.pending /\ s.drag = gui.drag /\ s.chrome = gui.chrome
      /\ s.suppressed = gui.suppressed /\ s.selecting = gui.selecting /\ s.active = gui.active
  BY <1>1, NowKeeps
<1>3. Still(gui, gui') /\ Hands(gui, gui')
  BY <1>1, <1>2 DEF Still, Hands
<1>4. TypedStep /\ Numbered' /\ Shape(gui)' /\ Sent(gui)'
  BY <1>3, StillTypes
<1>5. hand.last \in Nat /\ hand' = [hand EXCEPT !.last = hand.last]
  BY DEF InputInv, HandSound, HandSet
<1>6. /\ HandSound' /\ ClickedStep
      /\ (gui.chrome \cup gui.suppressed \subseteq {0, 2})'
      /\ (hand.clean => Marked(gui, hand.down))'
  BY <1>3, <1>5, KeptHands
<1>7. FilesSound'
  BY DEF InputInv, FilesSound
<1> QED  BY <1>4, <1>6, <1>7 DEF InputInv

LEMMA WheelTurns ==
  ASSUME InputInv, TurnWheel
  PROVE  InputInv' /\ TypedStep /\ ClickedStep
<1>1. Shape(Now) /\ Now.out = <<>>
  BY NowKeeps
<1>2. PICK up \in BOOLEAN, shift \in BOOLEAN, alternate \in BOOLEAN : gui' = Wheel(Now, up, shift, alternate)
  BY DEF TurnWheel
<1>3. Still(Now, gui') /\ Hands(Now, gui')
  BY <1>1, <1>2, WheelIs
<1> QED  BY <1>3, StillStep DEF TurnWheel, Counted

LEMMA WindowChanges ==
  ASSUME InputInv, WindowResized \/ ThemeChanged
  PROVE  InputInv' /\ TypedStep /\ ClickedStep
<1>1. Shape(Now) /\ Now.out = <<>>
  BY NowKeeps
<1>2. CASE WindowResized
  <2>1. Quiet(Now, AllLive(Now))
    BY <1>1, AllLiveQuiet
  <2>2. Still(Now, AllLive(Now)) /\ Hands(Now, AllLive(Now))
    BY <1>1, <2>1, QuietStill
  <2>3. gui' = AllLive(Now) /\ hand' = hand /\ files' = files /\ count' \in {count, count + 1}
    BY <1>2 DEF WindowResized, Counted
  <2> QED  BY <2>2, <2>3, StillStep
<1>3. CASE ThemeChanged
  <2>1. Sent(Now) /\ KeysAre(Now.out, <<>>, Now.focus)
    <3>1. <<>> \in Seq({}) /\ DOMAIN <<>> = {}
      OBVIOUS
    <3> QED  BY <1>1, <3>1 DEF Sent, KeysAre, KeysIn
  <2>2. "appearance.changed" \in KnownEvents
    BY DEF KnownEvents
  <2>3. PICK t : t = Fire(Now, "appearance.changed")
    OBVIOUS
  <2>4. Outcome(Now, t, <<>>) /\ t.pending = Now.pending
    BY <1>1, <2>1, <2>2, <2>3, FireIs
  <2>5. KeysIn(t.out) = {}
    BY <2>4, NoKeysAre DEF Outcome
  <2>6. Still(Now, t) /\ Hands(Now, t)
    BY <2>4, <2>5 DEF Outcome, Still
  <2>7. gui' = t /\ hand' = hand /\ files' = files /\ count' \in {count, count + 1}
    BY <1>3, <2>3 DEF ThemeChanged, Counted
  <2> QED  BY <2>6, <2>7, StillStep
<1> QED  BY <1>2, <1>3

\* Copy mode ended by the daemon, the connection lost, the loop's end.
LEMMA LinkAndCopyModeGo ==
  ASSUME InputInv, (\E pane \in Panes : CopyModeEnds(pane)) \/ LinkBreaks \/ Disconnected
  PROVE  InputInv' /\ TypedStep /\ ClickedStep
<1>1. Shape(Now) /\ Now.out = <<>>
  BY NowKeeps
<1>2. CASE \E pane \in Panes : CopyModeEnds(pane)
  <2>1. PICK pane \in Panes : CopyModeEnds(pane)
    BY <1>2
  <2>2. PICK c : c = Now.copying \ {pane}
    OBVIOUS
  <2>3. gui' = [Now EXCEPT !.copying = c] /\ hand' = hand /\ files' = files /\ count' \in {count, count + 1}
    BY <2>1, <2>2 DEF CopyModeEnds, Counted
  <2>4. Still(Now, gui') /\ Hands(Now, gui')
    BY <1>1, <2>2, <2>3, FieldStill
  <2> QED  BY <2>3, <2>4, StillStep
<1>3. CASE LinkBreaks
  <2>1. /\ gui' = [Now EXCEPT !.link = "broken"] /\ hand' = hand /\ files' = files
        /\ count' \in {count, count + 1}
    BY <1>3 DEF LinkBreaks, Counted
  <2>2. Still(Now, gui') /\ Hands(Now, gui')
    BY <1>1, <2>1, FieldStill
  <2> QED  BY <2>1, <2>2, StillStep
<1>4. CASE Disconnected
  <2>1. gui' = [Now EXCEPT !.exiting = TRUE] /\ hand' = hand /\ files' = files /\ count' = count
    BY <1>4 DEF Disconnected
  <2>2. Still(Now, gui') /\ Hands(Now, gui')
    BY <1>1, <2>1, FieldStill
  <2> QED  BY <2>1, <2>2, StillStep
<1> QED  BY <1>2, <1>3, <1>4

\* The config directory and its watcher touch neither application nor user.
LEMMA FilesMove ==
  ASSUME InputInv, (\E d \in DOMAIN Directories : Edit(d)) \/ StartWatcher \/ WatcherLoads
  PROVE  InputInv' /\ TypedStep /\ ClickedStep
<1>1. gui' = gui /\ hand' = hand /\ count' \in {count, count + 1}
  BY DEF Edit, StartWatcher, WatcherLoads, Counted
<1>2. FilesSound'
  <2>1. FilesSound
    BY DEF InputInv
  <2>2. CASE \E d \in DOMAIN Directories : Edit(d)
    BY <2>1, <2>2 DEF FilesSound, Edit
  <2>3. CASE StartWatcher
    BY <2>1, <2>3 DEF FilesSound, StartWatcher
  <2>4. CASE WatcherLoads
    <3>1. PICK loads \in Nat : loads = files.loads + 1
      BY <2>1 DEF FilesSound
    <3>2. PICK post : post = [dir |-> files.current, vm |-> WatcherVm(files.loads + 1)]
      OBVIOUS
    <3>3. post \in Posts
      <4>1. WatcherVm(loads) \in Nat \ {0}
        BY DEF WatcherVm
      <4> QED  BY <2>1, <3>1, <3>2, <4>1 DEF Posts, FilesSound
    <3>4. PICK posted : posted = Append(files.posted, post)
      OBVIOUS
    <3>5. posted \in Seq(Posts)
      BY <2>1, <3>3, <3>4, AppendProperties DEF FilesSound
    <3>6. files' = [files EXCEPT !.dirty = FALSE, !.loads = loads, !.posted = posted]
      BY <2>1, <2>4, <3>1, <3>2, <3>4 DEF WatcherLoads, FilesSound
    <3> QED  BY <2>1, <3>5, <3>6 DEF FilesSound
  <2> QED  BY <2>2, <2>3, <2>4
<1>3. HandSound' /\ Shape(gui)' /\ Sent(gui)'
  BY <1>1 DEF InputInv, HandSound
<1>4. Numbered'
  BY <1>1 DEF InputInv, Numbered, HandSound, HandSet, Shape, Waiting
<1>5. TypedStep
  BY <1>1 DEF TypedStep
<1>6. (gui.chrome \cup gui.suppressed \subseteq {0, 2})' /\ (hand.clean => Marked(gui, hand.down))'
  BY <1>1 DEF InputInv, Marked
<1>7. ClickedStep
  BY <1>1 DEF InputInv, ClickedStep, Released, Held
<1> QED  BY <1>2, <1>3, <1>4, <1>5, <1>6, <1>7 DEF InputInv

-----------------------------------------------------------------------------
(***************************************************************************)
(* Buttons.                                                                *)
(***************************************************************************)
\* A set of marks, button by button.
Marks(down, fate) == {Bit(b) : b \in {c \in Buttons : down[c] = fate}}

LEMMA Bits ==
  Bit("left") = 0 /\ Bit("back") = 0 /\ Bit("right") = 2
BY DEF Bit

LEMMA MarkSet ==
  ASSUME NEW S, NEW down, NEW fate
  PROVE  S = Marks(down, fate)
           <=> /\ S \subseteq {0, 2}
               /\ (0 \in S <=> down["left"] = fate \/ down["back"] = fate)
               /\ (2 \in S <=> down["right"] = fate)
<1>1. PICK T : T = {Bit(b) : b \in {c \in Buttons : down[c] = fate}}
  OBVIOUS
<1>2. /\ T \subseteq {0, 2} /\ (0 \in T <=> down["left"] = fate \/ down["back"] = fate)
      /\ (2 \in T <=> down["right"] = fate)
  <2>1. \A x : x \in T <=> \E b \in {"left", "right", "back"} : down[b] = fate /\ x = Bit(b)
    BY <1>1 DEF Buttons
  <2>2. \A x : x \in T <=> \/ down["left"] = fate /\ x = 0
                           \/ down["back"] = fate /\ x = 0
                           \/ down["right"] = fate /\ x = 2
    BY <2>1, Bits
  <2> QED  BY <2>2
<1>3. S \subseteq {0, 2} /\ (0 \in S <=> 0 \in T) /\ (2 \in S <=> 2 \in T) => S = T
  <2>1. SUFFICES ASSUME S \subseteq {0, 2}, 0 \in S <=> 0 \in T, 2 \in S <=> 2 \in T
                 PROVE  S = T
    OBVIOUS
  <2>2. \A x : x \in S <=> x \in T
    BY <1>2, <2>1
  <2> QED  BY <2>2
<1> QED  BY <1>1, <1>2, <1>3 DEF Marks

\* The marks, button by button.
MarkedSo(s, down) ==
    /\ s.drag = (down["left"] = "border")
    /\ s.chrome \subseteq {0, 2} /\ s.suppressed \subseteq {0, 2}
    /\ (0 \in s.chrome <=> down["left"] = "chrome" \/ down["back"] = "chrome")
    /\ (2 \in s.chrome <=> down["right"] = "chrome")
    /\ (0 \in s.suppressed <=> down["left"] = "kept" \/ down["back"] = "kept")
    /\ (2 \in s.suppressed <=> down["right"] = "kept")
    /\ s.selecting => down["left"] = "kept" \/ down["back"] = "kept"

LEMMA MarkedIs ==
  ASSUME NEW s, NEW down
  PROVE  Marked(s, down) <=> MarkedSo(s, down)
<1>1. s.chrome = Marks(down, "chrome")
        <=> /\ s.chrome \subseteq {0, 2}
            /\ (0 \in s.chrome <=> down["left"] = "chrome" \/ down["back"] = "chrome")
            /\ (2 \in s.chrome <=> down["right"] = "chrome")
  BY MarkSet
<1>2. s.suppressed = Marks(down, "kept")
        <=> /\ s.suppressed \subseteq {0, 2}
            /\ (0 \in s.suppressed <=> down["left"] = "kept" \/ down["back"] = "kept")
            /\ (2 \in s.suppressed <=> down["right"] = "kept")
  BY MarkSet
<1>3. (\E b \in Buttons : down[b] = "kept" /\ Bit(b) = 0)
        <=> down["left"] = "kept" \/ down["back"] = "kept"
  BY Bits DEF Buttons
<1>4. Marked(s, down)
        <=> /\ s.drag = (down["left"] = "border") /\ s.chrome = Marks(down, "chrome")
            /\ s.suppressed = Marks(down, "kept")
            /\ (s.selecting => down["left"] = "kept" \/ down["back"] = "kept")
  BY <1>3 DEF Marked, Marks
<1> QED  BY <1>1, <1>2, <1>4 DEF MarkedSo

\* One button's entry changes and the others' stay.
LEMMA OneButton ==
  ASSUME NEW down \in [Buttons -> Fates], NEW button \in Buttons, NEW fate,
         NEW next, next = [down EXCEPT ![button] = fate]
  PROVE  \/ /\ button = "left" /\ next["left"] = fate
            /\ next["right"] = down["right"] /\ next["back"] = down["back"]
         \/ /\ button = "right" /\ next["right"] = fate
            /\ next["left"] = down["left"] /\ next["back"] = down["back"]
         \/ /\ button = "back" /\ next["back"] = fate
            /\ next["left"] = down["left"] /\ next["right"] = down["right"]
BY DEF Buttons

LEMMA ButtonPressed ==
  ASSUME InputInv, NEW button \in Buttons, PressButton(button)
  PROVE  InputInv' /\ TypedStep /\ ClickedStep
<1>1. PICK s : s = Now
  OBVIOUS
<1>2. /\ Shape(s) /\ s.out = <<>> /\ s.pending = gui.pending /\ s.drag = gui.drag
      /\ s.chrome = gui.chrome /\ s.suppressed = gui.suppressed /\ s.selecting = gui.selecting
      /\ s.active = gui.active /\ (InCopyMode(s) <=> InCopyMode(gui))
  BY <1>1, NowKeeps
<1>3. PICK place, shift :
        /\ gui' = MousePress(s, button, place, shift)
        /\ hand' = [hand EXCEPT !.down[button] = PressFate(gui, button, place, shift),
                                !.pane[button] = gui.focus,
                                !.clean = @ /\ \A b \in Held : Bit(b) # Bit(button)]
  BY <1>1 DEF PressButton
<1>4. PICK fate : fate = PressFate(s, button, place, shift)
  OBVIOUS
<1>5. fate = PressFate(gui, button, place, shift)
  BY <1>2, <1>4 DEF PressFate
<1>6. /\ Still(s, gui') /\ gui'.active = s.active
      /\ fate \in {"chrome", "border", "kept", "sent"}
      /\ fate = "border" => button = "left"
      /\ gui'.drag = IF fate = "border" THEN TRUE ELSE s.drag
      /\ gui'.chrome = IF fate = "chrome" THEN s.chrome \cup {Bit(button)} ELSE s.chrome
      /\ gui'.suppressed = IF fate = "kept" THEN s.suppressed \cup {Bit(button)} ELSE s.suppressed
      /\ gui'.selecting => s.selecting \/ (fate = "kept" /\ Bit(button) = 0)
  <2>1. Pushed(s, gui', button, fate)
    BY <1>2, <1>3, <1>4, MousePressIs
  <2> QED  BY <2>1 DEF Pushed
<1>7. hand \in HandSet /\ gui.focus \in Panes
  <2>1. hand \in HandSet /\ Shape(gui)
    BY DEF InputInv, HandSound
  <2> QED  BY <2>1 DEF Shape, Screened, Panes
<1>8. /\ hand' \in HandSet /\ hand'.last = hand.last
      /\ hand'.clean => hand.clean /\ \A b \in Held : Bit(b) # Bit(button)
      /\ hand'.down = [hand.down EXCEPT ![button] = fate]
  <2>1. PICK clean \in BOOLEAN : clean = (hand.clean /\ \A b \in Held : Bit(b) # Bit(button))
    OBVIOUS
  <2>2. hand' = [hand EXCEPT !.down[button] = fate, !.pane[button] = gui.focus, !.clean = clean]
    BY <1>3, <1>5, <1>7, <2>1 DEF HandSet
  <2>3. fate \in Fates
    BY <1>6 DEF Fates
  <2> QED  BY <1>7, <2>1, <2>2, <2>3 DEF HandSet
<1>9. PICK down \in [Buttons -> Fates], next \in [Buttons -> Fates] :
        down = hand.down /\ next = hand'.down
  BY <1>7, <1>8 DEF HandSet
<1>10. next = [down EXCEPT ![button] = fate] /\ down[button] = "none"
  BY <1>8, <1>9 DEF PressButton
<1>11. \/ /\ button = "left" /\ next["left"] = fate
          /\ next["right"] = down["right"] /\ next["back"] = down["back"]
       \/ /\ button = "right" /\ next["right"] = fate
          /\ next["left"] = down["left"] /\ next["back"] = down["back"]
       \/ /\ button = "back" /\ next["back"] = fate
          /\ next["left"] = down["left"] /\ next["right"] = down["right"]
  BY <1>9, <1>10, OneButton
<1>12. Still(gui, gui')
  BY <1>2, <1>6 DEF Still
<1>13. TypedStep /\ Numbered' /\ Shape(gui)' /\ Sent(gui)'
  BY <1>8, <1>12, StillTypes DEF PressButton, Counted
<1>14. (gui.chrome \cup gui.suppressed \subseteq {0, 2})'
  BY <1>2, <1>6, <1>11, Bits DEF InputInv
<1>15. ASSUME hand'.clean
       PROVE  /\ Bit(button) = 0 => down["left"] = "none" /\ down["back"] = "none"
              /\ next["left"] = "none" \/ next["back"] = "none"
  <2>1. \A b \in Held : Bit(b) # Bit(button)
    BY <1>8, <1>15
  <2>2. Bit(button) = 0 => "left" \notin Held /\ "back" \notin Held
    BY <2>1, Bits
  <2>3. Bit(button) = 0 => down["left"] = "none" /\ down["back"] = "none"
    BY <1>9, <2>2 DEF Held, Buttons
  <2>4. down["left"] = "none" \/ down["back"] = "none"
    BY <1>8, <1>9, <1>15 DEF InputInv, HandSound
  <2> QED  BY <1>11, <2>3, <2>4, Bits
<1>16. ASSUME hand'.clean
       PROVE  Marked(gui', next)
  <2>1. MarkedSo(gui, down)
    BY <1>8, <1>9, <1>16, MarkedIs DEF InputInv
  <2>2. gui'.drag = (next["left"] = "border")
    BY <1>2, <1>6, <1>10, <1>11, <2>1 DEF MarkedSo
  <2>3. /\ gui'.chrome \subseteq {0, 2} /\ gui'.suppressed \subseteq {0, 2}
        /\ (0 \in gui'.chrome <=> next["left"] = "chrome" \/ next["back"] = "chrome")
        /\ (2 \in gui'.chrome <=> next["right"] = "chrome")
        /\ (0 \in gui'.suppressed <=> next["left"] = "kept" \/ next["back"] = "kept")
        /\ (2 \in gui'.suppressed <=> next["right"] = "kept")
    <3>1. CASE Bit(button) = 0
      BY <1>2, <1>6, <1>11, <1>15, <1>16, <2>1, <3>1, Bits DEF MarkedSo
    <3>2. CASE Bit(button) # 0
      BY <1>2, <1>6, <1>10, <1>11, <2>1, <3>2, Bits DEF MarkedSo
    <3> QED  BY <3>1, <3>2
  <2>4. gui'.selecting => next["left"] = "kept" \/ next["back"] = "kept"
    BY <1>2, <1>6, <1>10, <1>11, <2>1, Bits DEF MarkedSo
  <2> QED  BY <2>2, <2>3, <2>4, MarkedIs DEF MarkedSo
<1>17. ClickedStep
  <2>1. \A b \in Buttons : down[b] # "none" => next[b] # "none"
    BY <1>6, <1>9, <1>10
  <2> QED  BY <1>9, <1>16, <2>1 DEF ClickedStep, Released, Held
<1>18. HandSound'
  <2>1. next["right"] \notin {"border", "cut"} /\ next["back"] \notin {"border", "cut"}
    BY <1>6, <1>9, <1>11 DEF InputInv, HandSound
  <2>2. next["left"] = "border" => gui'.drag /\ gui'.active
    <3>1. gui'.active
      BY <1>2, <1>6 DEF PressButton
    <3>2. down["left"] = "border" => gui.drag
      BY <1>9 DEF InputInv, HandSound
    <3> QED  BY <1>2, <1>6, <1>11, <3>1, <3>2
  <2> QED  BY <1>8, <1>9, <1>15, <2>1, <2>2 DEF HandSound
<1>19. FilesSound'
  BY DEF InputInv, FilesSound, PressButton
<1>20. (hand.clean => Marked(gui, hand.down))'
  BY <1>9, <1>16
<1> QED  BY <1>13, <1>14, <1>17, <1>18, <1>19, <1>20 DEF InputInv

\* Whose release it is, while the marks are the user's: the press's, or a
\* program's where a drag was cut short.
LEMMA FateIsKept ==
  ASSUME NEW s, NEW down \in [Buttons -> Fates], MarkedSo(s, down), NEW button \in Buttons,
         down[button] # "none", down["left"] = "none" \/ down["back"] = "none",
         down["right"] \notin {"border", "cut"}, down["back"] \notin {"border", "cut"},
         NEW fate, fate = ReleaseFate(s, button)
  PROVE  fate = IF down[button] = "cut" THEN "sent" ELSE down[button]
<1>1. fate = IF Bit(button) \in s.chrome THEN "chrome"
             ELSE IF button = "left" /\ s.drag THEN "border"
             ELSE IF Bit(button) \in s.suppressed THEN "kept" ELSE "sent"
  BY DEF ReleaseFate
<1>2. down[button] \in {"chrome", "border", "kept", "sent", "cut"}
  BY DEF Fates
<1>3. CASE button = "left"
  BY <1>1, <1>2, <1>3, Bits DEF MarkedSo
<1>4. CASE button = "right"
  BY <1>1, <1>2, <1>4, Bits DEF MarkedSo
<1>5. CASE button = "back"
  BY <1>1, <1>2, <1>5, Bits DEF MarkedSo
<1> QED  BY <1>3, <1>4, <1>5 DEF Buttons

\* A button let go, of which the others know nothing.
LEMMA HandLetsGo ==
  ASSUME InputInv, NEW button \in Held, NEW clean \in BOOLEAN,
         hand' = [hand EXCEPT !.down[button] = "none", !.pane[button] = 0, !.clean = clean],
         clean => hand.clean,
         gui'.active = gui.active,
         button = "left" \/ gui'.drag = gui.drag
  PROVE  /\ HandSound' /\ hand'.last = hand.last /\ hand'.clean = clean
         /\ \E down, next \in [Buttons -> Fates] :
              /\ down = hand.down /\ next = hand'.down
              /\ next = [down EXCEPT ![button] = "none"] /\ down[button] # "none"
<1>1. hand \in HandSet /\ button \in Buttons /\ hand.down[button] # "none"
  BY DEF InputInv, HandSound, Held
<1>2. /\ hand' \in HandSet /\ hand'.last = hand.last /\ hand'.clean = clean
      /\ hand'.down = [hand.down EXCEPT ![button] = "none"]
  BY <1>1 DEF Fates, HandSet
<1>3. PICK down \in [Buttons -> Fates], next \in [Buttons -> Fates] :
        down = hand.down /\ next = hand'.down
  BY <1>1, <1>2 DEF HandSet
<1>4. next = [down EXCEPT ![button] = "none"] /\ down[button] # "none"
  BY <1>1, <1>2, <1>3
<1>5. \/ /\ button = "left" /\ next["left"] = "none"
         /\ next["right"] = down["right"] /\ next["back"] = down["back"]
      \/ /\ button = "right" /\ next["right"] = "none"
         /\ next["left"] = down["left"] /\ next["back"] = down["back"]
      \/ /\ button = "back" /\ next["back"] = "none"
         /\ next["left"] = down["left"] /\ next["right"] = down["right"]
  BY <1>1, <1>3, <1>4, OneButton
<1>6. next["right"] \notin {"border", "cut"} /\ next["back"] \notin {"border", "cut"}
  BY <1>3, <1>5 DEF InputInv, HandSound
<1>7. next["left"] = "border" => gui'.drag /\ gui'.active
  BY <1>3, <1>5 DEF InputInv, HandSound
<1>8. clean => next["left"] = "none" \/ next["back"] = "none"
  BY <1>3, <1>5 DEF InputInv, HandSound
<1>9. HandSound'
  BY <1>2, <1>3, <1>6, <1>7, <1>8 DEF HandSound
<1> QED  BY <1>2, <1>3, <1>4, <1>9

LEMMA ButtonReleased ==
  ASSUME InputInv, NEW button \in Buttons, ReleaseButton(button)
  PROVE  InputInv' /\ TypedStep /\ ClickedStep
<1>1. PICK s : s = Now
  OBVIOUS
<1>2. /\ Shape(s) /\ s.out = <<>> /\ s.pending = gui.pending /\ s.drag = gui.drag
      /\ s.chrome = gui.chrome /\ s.suppressed = gui.suppressed /\ s.selecting = gui.selecting
      /\ s.active = gui.active /\ s.link = gui.link /\ s.focus = gui.focus
  BY <1>1, NowKeeps
<1>3. /\ gui' = MouseRelease(s, button) /\ count' = count /\ files' = files
      /\ hand' = [hand EXCEPT !.down[button] = "none", !.pane[button] = 0]
      /\ button \in Held
  BY <1>1 DEF ReleaseButton
<1>4. PICK fate : fate = ReleaseFate(s, button)
  OBVIOUS
<1>5. LetGo(s, gui', button, fate)
  BY <1>2, <1>3, <1>4, MouseReleaseIs
<1>6. /\ Still(s, gui') /\ gui'.active = s.active
      /\ fate \in {"chrome", "border", "kept", "sent"}
      /\ fate = "border" => button = "left"
      /\ gui'.drag = IF fate = "border" THEN FALSE ELSE s.drag
      /\ gui'.chrome = IF fate = "chrome" THEN s.chrome \ {Bit(button)} ELSE s.chrome
      /\ gui'.suppressed = IF fate = "kept" THEN s.suppressed \ {Bit(button)} ELSE s.suppressed
      /\ gui'.selecting => s.selecting /\ ~ (fate = "kept" /\ Bit(button) = 0)
      /\ fate = "sent" /\ s.link = "up" => Told(gui'.out) = {s.focus}
      /\ fate # "sent" => Told(gui'.out) = {}
  BY <1>5 DEF LetGo
<1>7. PICK clean \in BOOLEAN : clean = hand.clean
  BY DEF InputInv, HandSound, HandSet
<1>8. hand' = [hand EXCEPT !.down[button] = "none", !.pane[button] = 0, !.clean = clean]
  BY <1>3, <1>7 DEF InputInv, HandSound, HandSet
<1>9. /\ button \in Held /\ gui'.active = gui.active /\ (clean => hand.clean)
      /\ button = "left" \/ gui'.drag = gui.drag
  BY <1>2, <1>3, <1>6, <1>7
<1>10. /\ HandSound' /\ hand'.last = hand.last /\ hand'.clean = clean
       /\ \E down, next \in [Buttons -> Fates] :
            /\ down = hand.down /\ next = hand'.down
            /\ next = [down EXCEPT ![button] = "none"] /\ down[button] # "none"
  BY <1>8, <1>9, HandLetsGo
<1>11. PICK down \in [Buttons -> Fates], next \in [Buttons -> Fates] :
         /\ down = hand.down /\ next = hand'.down
         /\ next = [down EXCEPT ![button] = "none"] /\ down[button] # "none"
  BY <1>10
<1>12. \/ /\ button = "left" /\ next["left"] = "none"
          /\ next["right"] = down["right"] /\ next["back"] = down["back"]
       \/ /\ button = "right" /\ next["right"] = "none"
          /\ next["left"] = down["left"] /\ next["back"] = down["back"]
       \/ /\ button = "back" /\ next["back"] = "none"
          /\ next["left"] = down["left"] /\ next["right"] = down["right"]
  BY <1>11, OneButton
<1>13. Still(gui, gui')
  BY <1>2, <1>6 DEF Still
<1>14. TypedStep /\ Numbered' /\ Shape(gui)' /\ Sent(gui)'
  BY <1>3, <1>10, <1>13, StillTypes
<1>15. (gui.chrome \cup gui.suppressed \subseteq {0, 2})'
  BY <1>2, <1>6 DEF InputInv
<1>16. ASSUME hand'.clean
       PROVE  /\ Marked(gui', next)
              /\ fate = IF down[button] = "cut" THEN "sent" ELSE down[button]
  <2>1. MarkedSo(gui, down) /\ MarkedSo(s, down)
    BY <1>2, <1>7, <1>10, <1>11, <1>16, MarkedIs DEF InputInv, MarkedSo
  <2>2. /\ down["left"] = "none" \/ down["back"] = "none"
        /\ down["right"] \notin {"border", "cut"} /\ down["back"] \notin {"border", "cut"}
    BY <1>7, <1>10, <1>11, <1>16 DEF InputInv, HandSound
  <2>3. fate = IF down[button] = "cut" THEN "sent" ELSE down[button]
    BY <1>4, <1>11, <2>1, <2>2, FateIsKept
  <2>4. gui'.drag = (next["left"] = "border")
    BY <1>2, <1>6, <1>12, <2>1, <2>3 DEF MarkedSo
  <2>5. /\ gui'.chrome \subseteq {0, 2} /\ gui'.suppressed \subseteq {0, 2}
        /\ (0 \in gui'.chrome <=> next["left"] = "chrome" \/ next["back"] = "chrome")
        /\ (2 \in gui'.chrome <=> next["right"] = "chrome")
        /\ (0 \in gui'.suppressed <=> next["left"] = "kept" \/ next["back"] = "kept")
        /\ (2 \in gui'.suppressed <=> next["right"] = "kept")
    <3>1. CASE button = "right"
      BY <1>2, <1>6, <1>12, <2>1, <2>3, <3>1, Bits DEF MarkedSo
    <3>2. CASE button = "left"
      BY <1>2, <1>6, <1>11, <1>12, <2>1, <2>2, <2>3, <3>2, Bits DEF MarkedSo
    <3>3. CASE button = "back"
      BY <1>2, <1>6, <1>11, <1>12, <2>1, <2>2, <2>3, <3>3, Bits DEF MarkedSo
    <3> QED  BY <1>12, <3>1, <3>2, <3>3
  <2>6. gui'.selecting => next["left"] = "kept" \/ next["back"] = "kept"
    BY <1>2, <1>6, <1>11, <1>12, <2>1, <2>2, <2>3, Bits DEF MarkedSo
  <2>7. Marked(gui', next)
    BY <2>4, <2>5, <2>6, MarkedIs DEF MarkedSo
  <2> QED  BY <2>3, <2>7
<1>17. ASSUME hand'.clean, NEW b \in Buttons, Released(b)
       PROVE  Whole(b) \/ Halved(b)
  <2>1. b = button /\ gui.link = "up"
    BY <1>11, <1>17 DEF Released, Held
  <2>2. fate = IF down[b] = "cut" THEN "sent" ELSE down[b]
    BY <1>16, <1>17, <2>1
  <2>3. CASE down[b] = "sent"
    BY <1>2, <1>6, <1>11, <2>1, <2>2, <2>3 DEF Whole, Halved
  <2>4. CASE down[b] = "cut"
    BY <1>2, <1>6, <1>11, <2>1, <2>2, <2>4 DEF Halved
  <2>5. CASE down[b] \notin {"sent", "cut"}
    BY <1>6, <1>11, <2>2, <2>5 DEF Whole
  <2> QED  BY <2>3, <2>4, <2>5
<1>18. ClickedStep
  BY <1>11, <1>16, <1>17 DEF ClickedStep
<1>19. FilesSound'
  BY <1>3 DEF InputInv, FilesSound
<1>20. (hand.clean => Marked(gui, hand.down))'
  BY <1>11, <1>16
<1> QED  BY <1>10, <1>14, <1>15, <1>18, <1>19, <1>20 DEF InputInv

\* Behind another window: the release never comes.
LEMMA ButtonReleasedElsewhere ==
  ASSUME InputInv, NEW button \in Buttons, ReleasedElsewhere(button)
  PROVE  InputInv' /\ TypedStep /\ ClickedStep
<1>1. /\ gui' = Now /\ count' = count /\ files' = files /\ ~ gui.active
      /\ hand' = [hand EXCEPT !.down[button] = "none", !.pane[button] = 0,
                              !.clean = @ /\ Bit(button) \notin gui.chrome \cup gui.suppressed]
      /\ button \in Held
  BY DEF ReleasedElsewhere
<1>2. PICK s : s = gui'
  OBVIOUS
<1>3. /\ Shape(s) /\ s.out = <<>> /\ s.pending = gui.pending /\ s.drag = gui.drag
      /\ s.chrome = gui.chrome /\ s.suppressed = gui.suppressed /\ s.selecting = gui.selecting
      /\ s.active = gui.active
  BY <1>1, <1>2, NowKeeps
<1>4. Still(gui, s)
  BY <1>3, SameStill DEF Still
<1>5. PICK clean \in BOOLEAN : clean = (hand.clean /\ Bit(button) \notin gui.chrome \cup gui.suppressed)
  OBVIOUS
<1>6. hand' = [hand EXCEPT !.down[button] = "none", !.pane[button] = 0, !.clean = clean]
  BY <1>1, <1>5 DEF InputInv, HandSound, HandSet
<1>7. /\ HandSound' /\ hand'.last = hand.last /\ hand'.clean = clean
      /\ \E down, next \in [Buttons -> Fates] :
           /\ down = hand.down /\ next = hand'.down
           /\ next = [down EXCEPT ![button] = "none"] /\ down[button] # "none"
  <2>1. (clean => hand.clean) /\ gui'.active = gui.active /\ gui'.drag = gui.drag
    BY <1>2, <1>3, <1>5
  <2>2. button \in Held
    BY <1>1
  <2> QED  BY <1>6, <2>1, <2>2, HandLetsGo
<1>8. PICK down \in [Buttons -> Fates], next \in [Buttons -> Fates] :
        /\ down = hand.down /\ next = hand'.down
        /\ next = [down EXCEPT ![button] = "none"] /\ down[button] # "none"
  BY <1>7
<1>9. \/ /\ button = "left" /\ next["left"] = "none"
         /\ next["right"] = down["right"] /\ next["back"] = down["back"]
      \/ /\ button = "right" /\ next["right"] = "none"
         /\ next["left"] = down["left"] /\ next["back"] = down["back"]
      \/ /\ button = "back" /\ next["back"] = "none"
         /\ next["left"] = down["left"] /\ next["right"] = down["right"]
  BY <1>8, OneButton
<1>10. TypedStep /\ Numbered' /\ Shape(gui)' /\ Sent(gui)'
  BY <1>1, <1>2, <1>4, <1>7, StillTypes
<1>11. (gui.chrome \cup gui.suppressed \subseteq {0, 2})'
  BY <1>2, <1>3 DEF InputInv
<1>12. down["left"] # "border"
  BY <1>1, <1>8 DEF InputInv, HandSound
<1>13. ASSUME hand'.clean
       PROVE  Marked(s, next)
  <2>1. MarkedSo(gui, down) /\ Bit(button) \notin gui.chrome /\ Bit(button) \notin gui.suppressed
    BY <1>5, <1>7, <1>8, <1>13, MarkedIs DEF InputInv
  <2>2. s.drag = (next["left"] = "border")
    BY <1>3, <1>9, <1>12, <2>1 DEF MarkedSo
  <2>3. /\ s.chrome \subseteq {0, 2} /\ s.suppressed \subseteq {0, 2}
        /\ (0 \in s.chrome <=> next["left"] = "chrome" \/ next["back"] = "chrome")
        /\ (2 \in s.chrome <=> next["right"] = "chrome")
        /\ (0 \in s.suppressed <=> next["left"] = "kept" \/ next["back"] = "kept")
        /\ (2 \in s.suppressed <=> next["right"] = "kept")
    BY <1>3, <1>9, <2>1, Bits DEF MarkedSo
  <2>4. s.selecting => next["left"] = "kept" \/ next["back"] = "kept"
    BY <1>3, <1>9, <2>1, Bits DEF MarkedSo
  <2> QED  BY <2>2, <2>3, <2>4, MarkedIs DEF MarkedSo
<1>14. ClickedStep
  BY <1>1, <1>2, <1>8, <1>13 DEF ClickedStep, Released
<1>15. FilesSound'
  BY <1>1 DEF InputInv, FilesSound
<1>16. (hand.clean => Marked(gui, hand.down))'
  BY <1>2, <1>8, <1>13
<1> QED  BY <1>7, <1>10, <1>11, <1>14, <1>15, <1>16 DEF InputInv

\* A step that at most ends a drag.
LEMMA DragStep ==
  ASSUME InputInv, Still(Now, gui'), Dropped(Now, gui'), gui'.drag /\ gui.active => gui'.active,
         hand' = [hand EXCEPT !.down = CutShort(@)], files' = files, count' \in {count, count + 1}
  PROVE  InputInv' /\ TypedStep /\ ClickedStep
<1>1. PICK s : s = Now
  OBVIOUS
<1>2. /\ s.pending = gui.pending /\ s.drag = gui.drag /\ s.chrome = gui.chrome
      /\ s.suppressed = gui.suppressed /\ s.selecting = gui.selecting
  BY <1>1, NowKeeps
<1>3. Still(gui, gui') /\ Dropped(gui, gui')
  BY <1>1, <1>2 DEF Still, Dropped
<1>4. PICK down \in [Buttons -> Fates] : down = hand.down
  BY DEF InputInv, HandSound, HandSet
<1>5. PICK fate : fate = IF down["left"] = "border" /\ ~ gui'.drag THEN "cut" ELSE down["left"]
  OBVIOUS
<1>6. fate \in Fates
  BY <1>4, <1>5 DEF Buttons, Fates
<1>7. PICK next \in [Buttons -> Fates] : next = [down EXCEPT !["left"] = fate]
  BY <1>4, <1>6
<1>8. next["left"] = fate /\ next["right"] = down["right"] /\ next["back"] = down["back"]
  BY <1>4, <1>7 DEF Buttons
<1>9. /\ hand' \in HandSet /\ hand'.last = hand.last /\ hand'.clean = hand.clean
      /\ hand'.down = next
  <2>1. CutShort(down) = next
    BY <1>5, <1>7 DEF CutShort
  <2>2. hand \in HandSet
    BY DEF InputInv, HandSound
  <2>3. hand' = [hand EXCEPT !.down = next]
    BY <1>4, <2>1, <2>2 DEF HandSet
  <2> QED  BY <1>7, <2>2, <2>3 DEF HandSet
<1>10. TypedStep /\ Numbered' /\ Shape(gui)' /\ Sent(gui)'
  BY <1>3, <1>9, StillTypes
<1>11. (gui.chrome \cup gui.suppressed \subseteq {0, 2})'
  BY <1>3 DEF InputInv, Dropped
<1>12. ASSUME hand'.clean
       PROVE  Marked(gui', next)
  <2>1. MarkedSo(gui, down)
    BY <1>4, <1>9, <1>12, MarkedIs DEF InputInv
  <2>2. gui'.drag = (next["left"] = "border")
    BY <1>3, <1>5, <1>8, <2>1 DEF MarkedSo, Dropped
  <2>3. MarkedSo(gui', next)
    BY <1>3, <1>5, <1>8, <2>1, <2>2 DEF MarkedSo, Dropped
  <2> QED  BY <2>3, MarkedIs
<1>13. ClickedStep
  <2>1. \A b \in Buttons : next[b] = "none" => down[b] = "none"
    BY <1>4, <1>5, <1>7 DEF Buttons
  <2> QED  BY <1>4, <1>9, <1>12, <2>1 DEF ClickedStep, Released, Held
<1>14. HandSound'
  <2>1. next["right"] \notin {"border", "cut"} /\ next["back"] \notin {"border", "cut"}
    BY <1>4, <1>8 DEF InputInv, HandSound
  <2>2. next["left"] = "border" => gui'.drag /\ gui'.active
    BY <1>4, <1>5, <1>8 DEF InputInv, HandSound
  <2>3. hand.clean => next["left"] = "none" \/ next["back"] = "none"
    BY <1>4, <1>5, <1>8 DEF InputInv, HandSound
  <2> QED  BY <1>9, <2>1, <2>2, <2>3 DEF HandSound
<1>15. FilesSound'
  BY DEF InputInv, FilesSound
<1> QED  BY <1>9, <1>10, <1>11, <1>12, <1>13, <1>14, <1>15 DEF InputInv

LEMMA WindowSwitched ==
  ASSUME InputInv, SwitchWindow
  PROVE  InputInv' /\ TypedStep /\ ClickedStep
<1>1. PICK s : s = Now
  OBVIOUS
<1>2. Shape(s) /\ s.out = <<>>
  BY <1>1, NowKeeps
<1>3. PICK active \in BOOLEAN : active = ~ gui.active
  OBVIOUS
<1>4. gui' = WindowFocus(s, active)
  BY <1>1, <1>3 DEF SwitchWindow
<1>5. Still(s, gui') /\ Dropped(s, gui') /\ (gui'.drag => active) /\ gui'.active = active
  BY <1>2, <1>4, WindowFocusIs DEF Dropped
<1> QED  BY <1>1, <1>5, DragStep DEF SwitchWindow, Counted

LEMMA BorderMoved ==
  ASSUME InputInv, MoveBorder
  PROVE  InputInv' /\ TypedStep /\ ClickedStep
<1>1. Shape(Now) /\ Now.out = <<>> /\ Now.active = gui.active
  BY NowKeeps
<1>2. gui' = DragBorder(Now)
  BY DEF MoveBorder
<1>3. Still(Now, gui') /\ Dropped(Now, gui') /\ gui'.active = Now.active
  BY <1>1, <1>2, DragBorderIs
<1> QED  BY <1>1, <1>3, DragStep DEF MoveBorder, Counted

LEMMA DaemonAnswers ==
  ASSUME InputInv, NEW request, Answered(request)
  PROVE  InputInv' /\ TypedStep /\ ClickedStep
<1>1. Shape(Now) /\ Now.out = <<>> /\ Now.active = gui.active
  BY NowKeeps
<1>2. PICK asked : asked = Now.asked \ {request}
  OBVIOUS
<1>3. PICK s : s = [Now EXCEPT !.asked = asked]
  OBVIOUS
<1>4. Still(Now, s) /\ Hands(Now, s)
  BY <1>1, <1>3, FieldStill
<1>5. Shape(s) /\ s.out = <<>>
  BY <1>1, <1>3, <1>4 DEF Still, Shape, AppFields
<1>6. gui' = Split(s) \/ gui' = ClosePane(s, request.pane) \/ gui' = s \/ gui' = AllLive(s)
  BY <1>2, <1>3 DEF Answered
<1>7. Still(s, gui') /\ Dropped(s, gui') /\ gui'.active = s.active
  <2>1. CASE gui' = Split(s)
    BY <1>5, <2>1, SplitIs, HandsDropped
  <2>2. CASE gui' = ClosePane(s, request.pane)
    BY <1>5, <2>2, ClosePaneIs
  <2>3. CASE gui' = s
    BY <1>5, <2>3, SameStill, HandsDropped
  <2>4. CASE gui' = AllLive(s)
    BY <1>5, <2>4, AllLiveQuiet, QuietStill, HandsDropped
  <2> QED  BY <1>6, <2>1, <2>2, <2>3, <2>4
<1>8. Still(Now, gui') /\ Dropped(Now, gui') /\ gui'.active = gui.active
  BY <1>1, <1>4, <1>7 DEF Still, Hands, Dropped
<1>9. /\ hand' = [hand EXCEPT !.down = CutShort(@)] /\ files' = files /\ count' = count
  BY DEF Answered
<1> QED  BY <1>8, <1>9, DragStep

-----------------------------------------------------------------------------
LEMMA InputStarts ==
  Init => InputInv
<1> SUFFICES ASSUME Init PROVE InputInv
  OBVIOUS
<1>1. PICK d \in FirstFiles :
        /\ gui = Started(d)
        /\ files = [current |-> d, started |-> FALSE, watching |-> FALSE, dirty |-> FALSE,
                    missed |-> FALSE, posted |-> <<>>, loads |-> 0]
        /\ hand = [down |-> [b \in Buttons |-> "none"], pane |-> [b \in Buttons |-> 0],
                   clean |-> TRUE, last |-> 0]
        /\ count = 0
  BY DEF Init
<1>2. d \in DOMAIN Directories
  BY LoopAssumption
<1>3. /\ Shape(gui) /\ Sent(gui) /\ gui.pending = NotPending
      /\ gui.chrome = {} /\ gui.suppressed = {} /\ gui.drag = FALSE /\ ~ gui.selecting
      /\ gui.active = TRUE
  BY <1>1, <1>2, StartedIs
<1>4. FilesSound
  <2>1. <<>> \in Seq(Posts)
    OBVIOUS
  <2> QED  BY <1>1, <1>2, <2>1 DEF FilesSound
<1>5. hand.down = [b \in Buttons |-> "none"] /\ hand.last = 0 /\ hand \in HandSet
  BY <1>1 DEF Fates, HandSet
<1>6. hand.down["left"] = "none" /\ hand.down["right"] = "none" /\ hand.down["back"] = "none"
  BY <1>5 DEF Buttons
<1>7. HandSound
  BY <1>3, <1>5, <1>6 DEF HandSound
<1>8. Numbered
  BY <1>1, <1>3, <1>5 DEF Numbered, NotPending
<1>9. gui.chrome \cup gui.suppressed \subseteq {0, 2}
  BY <1>3
<1>10. Marked(gui, hand.down)
  BY <1>3, <1>6, MarkedIs DEF MarkedSo
<1> QED  BY <1>3, <1>4, <1>7, <1>8, <1>9, <1>10 DEF InputInv

LEMMA InputSteps ==
  InputInv /\ Next => InputInv' /\ TypedStep /\ ClickedStep
<1> SUFFICES ASSUME InputInv, Next
             PROVE  InputInv' /\ TypedStep /\ ClickedStep
  OBVIOUS
<1>1. CASE \E key \in Keys : PressKey(key)
  BY <1>1, KeyPressed
<1>2. CASE \E button \in Buttons : PressButton(button)
  BY <1>2, ButtonPressed
<1>3. CASE \E button \in Buttons : ReleaseButton(button)
  BY <1>3, ButtonReleased
<1>4. CASE \E button \in Buttons : ReleasedElsewhere(button)
  BY <1>4, ButtonReleasedElsewhere
<1>5. CASE TurnWheel
  BY <1>5, WheelTurns
<1>6. CASE SwitchWindow \/ MoveBorder
  BY <1>6, WindowSwitched, BorderMoved
<1>7. CASE WindowResized \/ ThemeChanged
  BY <1>7, WindowChanges
<1>8. CASE \E request \in gui.asked : Answered(request)
  BY <1>8, DaemonAnswers
<1>9. CASE (\E pane \in Panes : CopyModeEnds(pane)) \/ LinkBreaks \/ Disconnected
  BY <1>9, LinkAndCopyModeGo
<1>10. CASE (\E d \in DOMAIN Directories : Edit(d)) \/ StartWatcher \/ WatcherLoads
  BY <1>10, FilesMove
<1>11. CASE Reloaded
  BY <1>11, FileReloaded
<1>12. CASE \E reached \in SUBSET Timers : Wake(reached)
  BY <1>12, TimersGo
<1> QED  BY <1>1, <1>2, <1>3, <1>4, <1>5, <1>6, <1>7, <1>8, <1>9, <1>10, <1>11, <1>12 DEF Next

\* A step of no variable keeps everything, the marks included.
LEMMA InputStutters ==
  InputInv /\ UNCHANGED vars => InputInv'
<1> SUFFICES ASSUME InputInv, UNCHANGED vars
             PROVE  InputInv'
  OBVIOUS
<1>1. gui' = gui /\ files' = files /\ hand' = hand /\ count' = count
  BY DEF vars
<1>2. Shape(gui)' /\ Sent(gui)' /\ FilesSound' /\ HandSound'
  BY <1>1 DEF InputInv, FilesSound, HandSound
<1>3. Numbered' /\ (hand.clean => Marked(gui, hand.down))'
      /\ (gui.chrome \cup gui.suppressed \subseteq {0, 2})'
  BY <1>1 DEF InputInv, Numbered, Marked
<1> QED  BY <1>2, <1>3 DEF InputInv

-----------------------------------------------------------------------------
(***************************************************************************)
(* Theorems.                                                               *)
(***************************************************************************)
\* The invariant holds of every behaviour of the loop.
THEOREM InputIsSound == Spec => []InputInv
<1>1. InputInv /\ [Next]_vars => InputInv'
  BY InputSteps, InputStutters
<1> QED  BY InputStarts, <1>1, PTL DEF Spec

\* Every callback the event loop makes is one of the live config's, in its VM:
\* whatever files are edited, reloaded or refused while the user types.
THEOREM Callbacks == Spec => []CallsAreSound
<1>1. InputInv => CallsAreSound
  <2> SUFFICES ASSUME InputInv
               PROVE  CallsAreSound
    OBVIOUS
  <2>1. Shape(gui) /\ Sent(gui) /\ Numbered /\ HandSound
    BY DEF InputInv
  <2>2. TypeOK
    <3>1. gui.panes \in {{1}, {2}, Panes} /\ gui.focus \in gui.panes /\ gui.copying \subseteq gui.panes
      BY <2>1 DEF Shape, Screened
    <3>2. \A p \in Panes : gui.offset[p] > 0 => p \in gui.panes
      BY <2>1 DEF Shape, Screened
    <3>3. gui.link \in {"up", "broken", "none"} /\ gui.file \in DOMAIN Directories
      BY <2>1 DEF Shape, Linked, Scripted
    <3>4. gui.pending.on => Settings(gui).leader /\ ~ gui.palette.visible
      BY <2>1 DEF Shape, Waiting
    <3>5. gui.pending.key # 0 => gui.pending.on /\ gui.pending.key \in 1 .. count
      <4>1. PICK key \in Nat : key = gui.pending.key
        BY <2>1 DEF Shape, Waiting
      <4>2. key # 0 => key \in 1 .. count
        BY <2>1, <4>1 DEF Numbered, HandSound
      <4>3. key # 0 => gui.pending.on
        BY <2>1, <4>1 DEF Shape, Waiting
      <4> QED  BY <4>1, <4>2, <4>3
    <3>6. gui.chrome \cup gui.suppressed \subseteq {0, 2}
      BY DEF InputInv
    <3> QED  BY <3>1, <3>2, <3>3, <3>4, <3>5, <3>6 DEF TypeOK
  <2>3. CallbacksAreLive
    <3>1. gui.held = {gui.lua} \ {0} /\ gui.binds = gui.lua /\ gui.events = gui.lua
      BY <2>1 DEF Shape, Scripted
    <3>2. PICK S : gui.out \in Seq(S)
      BY <2>1 DEF Sent
    <3>3. DOMAIN gui.out = 1 .. Len(gui.out)
      BY <3>2
    <3>4. \A i \in DOMAIN gui.out :
            /\ gui.out[i].kind # "skipped"
            /\ gui.out[i].kind = "call" => gui.out[i].n = gui.lua /\ gui.lua # 0
      BY <2>1 DEF Sent
    <3> QED  BY <3>1, <3>3, <3>4 DEF CallbacksAreLive
  <2> QED  BY <2>2, <2>3 DEF CallsAreSound
<1> QED  BY InputIsSound, <1>1, PTL

\* Keys reach the shell in the order they were typed, at most once, and the
\* one held back for the leader goes first.
THEOREM Typing == Spec => TypingStaysInOrder
<1>1. InputInv /\ [Next]_vars => [TypedStep]_vars
  BY InputSteps
<1>2. Spec => [][TypedStep]_vars
  BY InputIsSound, <1>1, PTL DEF Spec
<1> QED  BY <1>2 DEF TypedStep, TypingStaysInOrder

\* What the application takes to be pressed is what the user holds, and the
\* pane's program hears of a release exactly when it heard of the press.
THEOREM Clicking == Spec => ClicksComeWhole
<1>1. InputInv /\ [Next]_vars => [ClickedStep]_vars
  BY InputSteps
<1>2. Spec => [][ClickedStep]_vars
  BY InputIsSound, <1>1, PTL DEF Spec
<1> QED  BY <1>2 DEF ClickedStep, ClicksComeWhole
=============================================================================
