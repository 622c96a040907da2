-------------------------- MODULE GuiSyncProofs --------------------------
(***************************************************************************)
(* Safety of GuiSync, for any bounds on panes, tabs and what the user and  *)
(* the shells do: a view goes only when its pane is gone, and once all is  *)
(* answered the client shows the daemon's active tab, at its size.         *)
(*                                                                         *)
(* The invariant says of every message on its way what it will correct:    *)
(* a part of the mirror is right, or a request or reply that puts it right *)
(* is in one of the queues.                                                *)
(***************************************************************************)
EXTENDS GuiSync, MuxStateProofs

-----------------------------------------------------------------------------
\* Some message of the queue is of one of these kinds.
Has(q, ops) == \E m \in ToSet(q) : m.op \in ops

\* The last message of one of these kinds, d if there is none.
IsLast(q, ops, i) ==
    /\ i \in DOMAIN q /\ q[i].op \in ops
    /\ \A j \in DOMAIN q : q[j].op \in ops => j <= i
LastOf(q, ops, d) ==
    IF Has(q, ops) THEN q[CHOOSE i \in DOMAIN q : IsLast(q, ops, i)] ELSE d

\* What travels.
Asks ==
    [op : {"SplitPane", "ClosePane", "FocusPane"}, id : PaneIds,
     n : 0 .. MaxActions]
    \cup [op : {"CloseTab", "SwitchTab", "GetLayoutTree"}, id : TabIds,
          n : 0 .. MaxActions]
    \cup [op : {"NewTab", "ListTabs"}, id : {0}, n : 0 .. MaxActions]
    \cup [op : {"Resize"}, panes : SUBSET PaneIds]

Strips == Seq([tab : TabIds, focus : PaneIds])

Events ==
    [op : {"SplitCreated", "TabCreated"}, pane : PaneIds]
    \cup [op : {"TabClosed", "TitleChanged"}]
    \cup [op : {"PaneClosed", "Failed"}, n : 0 .. MaxActions]
    \cup [op : {"TabList"}, active : TabIds, strip : Strips]
    \cup [op : {"LayoutTree"}, panes : (SUBSET PaneIds) \ {{}}]

\* The newest strip and layout: the one on its way, or the one adopted.
Adopted == [op |-> "TabList", active |-> knownActive, strip |-> known]
NewestList == LastOf(toClient, {"TabList"}, Adopted)
AdoptedTree == [op |-> "LayoutTree", panes |-> tree]
NewestTree == LastOf(toClient, {"LayoutTree"}, AdoptedTree).panes

\* A tab list will be asked for, or is; a layout is; a layout comes; the
\* daemon will be told of a focus.
Relisting ==
    \/ Has(toDaemon, {"ListTabs"})
    \/ Has(toClient, {"TabCreated", "TabClosed", "PaneClosed"})
Fetching == Has(toDaemon, {"GetLayoutTree"})
Adopting == Has(toClient, {"LayoutTree"})
Telling == Has(toDaemon, {"SplitPane", "FocusPane"})

\* The tab the client shows is still there.
ShownLives == knownActive \in TabIds /\ layout[knownActive] # {}

\* Which pane the requests on their way are about.
Asked(t) == IF t = NoTab THEN 0 ELSE t
AskedNow == [op |-> "GetLayoutTree", id |-> Asked(knownActive)]
ToldNow == [op |-> "FocusPane", id |-> focused]
ListedNow == [op |-> "ListTabs"]

-----------------------------------------------------------------------------
\* The inductive invariant.

SyncTypeOK ==
    /\ views \in SUBSET PaneIds /\ focused \in PaneIds
    /\ tree \in SUBSET PaneIds
    /\ pendingFocus \in PaneIds \cup {NoPane} /\ missed \in BOOLEAN
    /\ known \in Strips
    /\ knownActive \in TabIds \cup {NoTab}
    /\ refocus \in BOOLEAN /\ redrawn \in {"no", "first", "late"}
    /\ actions \in 0 .. MaxActions /\ closes \in 0 .. actions
    /\ closing \in SUBSET [n : 0 .. closes, pane : PaneIds]
    /\ sentDims \in [PaneIds -> [panes : SUBSET PaneIds, bar : BOOLEAN]]
    /\ published \in [tab : TabIds \cup {NoTab}, panes : SUBSET PaneIds]
    /\ toDaemon \in Seq(Asks)
    /\ toClient \in Seq(Events)
    /\ running \in SUBSET PaneIds

\* The daemon has one workspace, and has handed out the ids it uses.
DaemonInv ==
    /\ MuxInv
    /\ workspaces = <<0>> /\ activeWorkspace = 1
    /\ nextPaneId \in 0 .. MaxPanes
    /\ \A p \in Live : p < nextPaneId
    /\ running \subseteq Live

\* ... and the client has every id it uses from the daemon.
Heard ==
    /\ focused < nextPaneId
    /\ \A p \in views \cup tree : p < nextPaneId
    /\ \A c \in closing : c.pane < nextPaneId
    /\ \A p \in PaneIds : sentDims[p] # Unsent => p < nextPaneId
    /\ knownActive = NoTab \/ knownActive < nextTabId
    /\ \A e \in ToSet(toClient) :
         /\ e.op = "LayoutTree" => \A p \in e.panes : p < nextPaneId
         /\ e.op = "TabList" => e.active < nextTabId

\* The strip: right, or it will be fetched again; and the tab it marks active
\* is one of its tabs and has panes.
ListRight ==
    /\ Relisting
         \/ /\ Names(NewestList.strip) = tabs[0]
            /\ NewestList.active \in TabIds
            /\ layout[NewestList.active] # {}
    /\ \A e \in ToSet(toClient) :
         e.op = "TabList" => \E i \in DOMAIN e.strip : e.strip[i].tab = e.active
    /\ LastOf(toDaemon, {"SwitchTab", "ListTabs"}, ListedNow).op = "ListTabs"
    /\ refocus => Has(toDaemon, {"ListTabs"}) \/ Has(toClient, {"TabList"})

\* The tree: right, or it will be fetched again, or its tab is gone.
TreeRight ==
    /\ LastOf(toDaemon, {"GetLayoutTree"}, AskedNow).id = Asked(knownActive)
    /\ ShownLives =>
         \/ Fetching \/ NewestTree = layout[knownActive]
         \/ Has(toClient, {"SplitCreated", "PaneClosed"}) \/ refocus
    /\ ShownLives => Fetching \/ Adopting \/ published.tab = knownActive
    /\ tree = {} \/ published.panes = tree \/ ~ tree \subseteq Live

\* The focus: the daemon has heard of it, or will, and shows its tab; or the
\* client waits for a pane to focus, or has dropped it.
FocusRight ==
    /\ LastOf(toDaemon, {"SplitPane", "FocusPane"}, ToldNow).id = focused
    /\ tree = {} \/ focused \in tree
    /\ Relisting \/ Telling \/ ActiveTabId = NewestList.active
         \/ focused \notin layout[NewestList.active]
    /\ ShownLives =>
         \/ Telling
         \/ \A t \in TabIds : focused \in layout[t] => focusedPane[t] = focused
         \/ Has(toClient, {"SplitCreated"})
         \/ pendingFocus # NoPane /\ (Fetching \/ Adopting)
         \/ missed

\* Each pane on screen has a view and was sent a size, for the window as it
\* is, and runs a shell or will.
SizesRight ==
    /\ \A p \in tree \cap Live :
         /\ p \in views /\ sentDims[p] # Unsent
         /\ redrawn = "first" => sentDims[p] = Geometry(tree, known)
    /\ \A p \in Live :
         sentDims[p] # Unsent =>
           \/ p \in running
           \/ \E q \in ToSet(toDaemon) : q.op = "Resize" /\ p \in q.panes

\* Each close in flight will be answered, by its number or a higher one, and
\* an answer with its number says its pane is gone.
ClosesRight ==
    /\ \A q \in ToSet(toDaemon) :
         /\ q.op # "Resize" => q.n <= closes
         /\ q.op = "ClosePane" => \A c \in closing : c.n = q.n => c.pane = q.id
    /\ \A e \in ToSet(toClient) :
         /\ e.op \in {"PaneClosed", "Failed"} => e.n <= closes
         /\ e.op = "PaneClosed" => \A c \in closing : c.n = e.n => c.pane \notin Live
    /\ \A c \in closing :
         \/ \E q \in ToSet(toDaemon) : q.op = "ClosePane" /\ q.n = c.n
         \/ \E e \in ToSet(toClient) :
              e.op \in {"PaneClosed", "Failed"} /\ e.n >= c.n

MirrorInv ==
    /\ SyncTypeOK /\ DaemonInv /\ Heard
    /\ ListRight /\ TreeRight /\ FocusRight /\ SizesRight /\ ClosesRight

-----------------------------------------------------------------------------
\* Queues.

LEMMA ToSetConcat ==
  ASSUME NEW S, NEW q \in Seq(S), NEW r \in Seq(S)
  PROVE  /\ q \o r \in Seq(S)
         /\ ToSet(q \o r) = ToSet(q) \cup ToSet(r)
<1>1. PICK m \in Nat, n \in Nat : m = Len(q) /\ n = Len(r)
  OBVIOUS
<1>2. PICK s \in Seq(S) : s = q \o r
  BY ConcatProperties
<1>3. /\ Len(s) = m + n
      /\ \A k \in 1 .. m + n : s[k] = IF k <= m THEN q[k] ELSE r[k - m]
  BY <1>1, <1>2, ConcatProperties
<1>4. DOMAIN s = 1 .. m + n /\ DOMAIN q = 1 .. m /\ DOMAIN r = 1 .. n
  BY <1>1, <1>3
<1>5. \A k \in 1 .. m : k \in 1 .. m + n /\ s[k] = q[k]
  BY <1>3
<1>6. \A k \in 1 .. n : m + k \in 1 .. m + n /\ s[m + k] = r[k]
  <2> TAKE k \in 1 .. n
  <2>1. m + k \in 1 .. m + n /\ ~ (m + k <= m) /\ (m + k) - m = k
    OBVIOUS
  <2> QED  BY <1>3, <2>1
<1>7. \A k \in 1 .. m + n : k \in 1 .. m \/ (k - m \in 1 .. n /\ s[k] = r[k - m])
  BY <1>3
<1>8. ToSet(q) \subseteq ToSet(s)
  BY <1>4, <1>5 DEF ToSet
<1>9. ToSet(r) \subseteq ToSet(s)
  BY <1>4, <1>6 DEF ToSet
<1>10. ToSet(s) \subseteq ToSet(q) \cup ToSet(r)
  <2> SUFFICES ASSUME NEW k \in 1 .. m + n
               PROVE  s[k] \in ToSet(q) \cup ToSet(r)
    BY <1>4 DEF ToSet
  <2>1. CASE k \in 1 .. m
    BY <1>4, <1>5, <2>1 DEF ToSet
  <2>2. CASE k - m \in 1 .. n /\ s[k] = r[k - m]
    BY <1>4, <2>2 DEF ToSet
  <2> QED  BY <1>7, <2>1, <2>2
<1> QED  BY <1>2, <1>8, <1>9, <1>10

LEMMA OneIsSeq ==
  ASSUME NEW S, NEW x \in S
  PROVE  <<x>> \in Seq(S)
  OBVIOUS

LEMMA ToSetShort ==
  /\ ToSet(<<>>) = {}
  /\ \A x : ToSet(<<x>>) = {x}
  BY DEF ToSet

LEMMA HeadAndTail ==
  ASSUME NEW S, NEW q \in Seq(S), q # <<>>
  PROVE  /\ Head(q) \in S /\ Tail(q) \in Seq(S) /\ <<Head(q)>> \in Seq(S)
         /\ q = <<Head(q)>> \o Tail(q)
         /\ ToSet(q) = {Head(q)} \cup ToSet(Tail(q))
<1>1. /\ Head(q) \in S /\ Tail(q) \in Seq(S)
      /\ q = <<Head(q)>> \o Tail(q)
  BY HeadTailProperties
<1>2. <<Head(q)>> \in Seq(S)
  BY <1>1
<1>3. ToSet(<<Head(q)>> \o Tail(q)) = ToSet(<<Head(q)>>) \cup ToSet(Tail(q))
  <2>1. PICK one, rest : one = <<Head(q)>> /\ rest = Tail(q)
    OBVIOUS
  <2>2. one \in Seq(S) /\ rest \in Seq(S)
    BY <1>1, <1>2, <2>1, Zenon
  <2>3. ToSet(one \o rest) = ToSet(one) \cup ToSet(rest)
    BY <2>2, ToSetConcat, Zenon
  <2> QED  BY <2>1, <2>3, Zenon
<1> QED  BY <1>1, <1>2, <1>3, ToSetShort

LEMMA LeastOf ==
  ASSUME NEW these \in SUBSET Nat, these # {}
  PROVE  \E n \in these : \A m \in these : n <= m
<1>1. PICK n \in these : \A m \in these : ~ (<<m, n>> \in OpToRel(<, Nat))
  <2>1. these \subseteq Nat /\ these # {}
    OBVIOUS
  <2> QED  BY <2>1, NatLessThanWellFounded, WFMin
<1>2. \A m \in these : ~ m < n
  <2>1. OpToRel(<, Nat) = {p \in Nat \X Nat : p[1] < p[2]}
    BY DEF OpToRel
  <2>2. \A m \in these : m < n => <<m, n>> \in {p \in Nat \X Nat : p[1] < p[2]}
    OBVIOUS
  <2> QED  BY <1>1, <2>1, <2>2
<1> QED  BY <1>2

\* There is a last message of a kind, if there is one.
LEMMA LastExists ==
  ASSUME NEW S, NEW q \in Seq(S), NEW ops, Has(q, ops)
  PROVE  \E i : IsLast(q, ops, i)
<1>1. PICK n \in Nat : n = Len(q) /\ DOMAIN q = 1 .. n
  OBVIOUS
<1> DEFINE these == {m \in Nat : m < n /\ q[n - m].op \in ops}
<1>2. PICK k \in 1 .. n : q[k].op \in ops
  BY <1>1 DEF Has, ToSet
<1>3. n - k \in these
  BY <1>2
<1>4. PICK m \in these : \A l \in these : m <= l
  BY <1>3, LeastOf
<1>5. \A j \in 1 .. n : q[j].op \in ops => j <= n - m
  <2> SUFFICES ASSUME NEW j \in 1 .. n, q[j].op \in ops PROVE j <= n - m
    OBVIOUS
  <2>1. n - j \in Nat /\ n - j < n /\ n - (n - j) = j
    OBVIOUS
  <2>2. n - j \in these
    BY <2>1
  <2>3. m \in Nat /\ m <= n - j
    BY <1>4, <2>2
  <2> HIDE DEF these
  <2> QED  BY <2>3
<1> QED  BY <1>1, <1>4, <1>5 DEF IsLast

\* ... and LastOf is it.
LEMMA LastIs ==
  ASSUME NEW S, NEW q \in Seq(S), NEW ops, NEW i, IsLast(q, ops, i)
  PROVE  /\ Has(q, ops) /\ q[i] \in ToSet(q) /\ q[i].op \in ops
         /\ \A d : LastOf(q, ops, d) = q[i]
<1>1. /\ i \in DOMAIN q /\ q[i].op \in ops
      /\ Has(q, ops) /\ q[i] \in ToSet(q)
  BY DEF IsLast, Has, ToSet
<1>2. PICK n \in Nat : DOMAIN q = 1 .. n
  OBVIOUS
<1>3. \A j : IsLast(q, ops, j) => j = i
  BY <1>2 DEF IsLast
<1>4. (CHOOSE j \in DOMAIN q : IsLast(q, ops, j)) = i
  BY <1>1, <1>3
<1> QED  BY <1>1, <1>4 DEF LastOf

LEMMA LastMember ==
  ASSUME NEW S, NEW q \in Seq(S), NEW ops
  PROVE  /\ Has(q, ops) => \A d : /\ LastOf(q, ops, d) \in ToSet(q)
                                  /\ LastOf(q, ops, d).op \in ops
         /\ Has(q, ops) => \A d, e : LastOf(q, ops, d) = LastOf(q, ops, e)
         /\ ~ Has(q, ops) => \A d : LastOf(q, ops, d) = d
<1>1. CASE Has(q, ops)
  <2>1. PICK i : IsLast(q, ops, i)
    BY <1>1, LastExists
  <2>2. /\ q[i] \in ToSet(q) /\ q[i].op \in ops
        /\ \A d : LastOf(q, ops, d) = q[i]
    BY <2>1, LastIs
  <2> QED  BY <1>1, <2>2
<1>2. CASE ~ Has(q, ops)
  BY <1>2 DEF LastOf
<1> QED  BY <1>1, <1>2

LEMMA LastConcat ==
  ASSUME NEW S, NEW q \in Seq(S), NEW r \in Seq(S)
  PROVE  \A ops, d : LastOf(q \o r, ops, d) = LastOf(r, ops, LastOf(q, ops, d))
<1> SUFFICES ASSUME NEW ops, NEW d
             PROVE  LastOf(q \o r, ops, d) = LastOf(r, ops, LastOf(q, ops, d))
  OBVIOUS
<1>1. PICK m \in Nat, n \in Nat : /\ m = Len(q) /\ n = Len(r)
                                 /\ DOMAIN q = 1 .. m /\ DOMAIN r = 1 .. n
  OBVIOUS
<1>2. PICK s \in Seq(S) : s = q \o r
  BY ToSetConcat
<1>3. /\ DOMAIN s = 1 .. m + n
      /\ \A k \in 1 .. m + n : s[k] = IF k <= m THEN q[k] ELSE r[k - m]
  BY <1>1, <1>2, ConcatProperties
<1>4. Has(s, ops) <=> Has(q, ops) \/ Has(r, ops)
  <2>1. ToSet(s) = ToSet(q) \cup ToSet(r)
    BY <1>2, ToSetConcat
  <2> QED  BY <2>1 DEF Has
<1>5. CASE Has(r, ops)
  <2>1. PICK i : IsLast(r, ops, i)
    BY <1>5, LastExists
  <2>2. i \in 1 .. n /\ r[i].op \in ops /\ \A j \in 1 .. n : r[j].op \in ops => j <= i
    BY <1>1, <2>1 DEF IsLast
  <2>3. m + i \in 1 .. m + n /\ s[m + i] = r[i]
    <3>1. m + i \in 1 .. m + n /\ ~ (m + i <= m) /\ (m + i) - m = i
      BY <2>2
    <3> QED  BY <1>3, <3>1
  <2>4. \A j \in 1 .. m + n : s[j].op \in ops => j <= m + i
    <3> SUFFICES ASSUME NEW j \in 1 .. m + n, s[j].op \in ops, ~ (j <= m)
                 PROVE  j <= m + i
      BY <2>2
    <3>1. j - m \in 1 .. n /\ s[j] = r[j - m]
      BY <1>3
    <3>2. j - m <= i
      BY <2>2, <3>1
    <3> QED  BY <2>2, <3>2
  <2>5. IsLast(s, ops, m + i)
    BY <1>3, <2>2, <2>3, <2>4 DEF IsLast
  <2>6. LastOf(s, ops, d) = s[m + i]
    BY <2>5, LastIs
  <2>7. LastOf(r, ops, LastOf(q, ops, d)) = r[i]
    BY <2>1, LastIs
  <2> QED  BY <1>2, <2>3, <2>6, <2>7
<1>6. CASE ~ Has(r, ops) /\ Has(q, ops)
  <2>1. PICK i : IsLast(q, ops, i)
    BY <1>6, LastExists
  <2>2. i \in 1 .. m /\ q[i].op \in ops /\ \A j \in 1 .. m : q[j].op \in ops => j <= i
    BY <1>1, <2>1 DEF IsLast
  <2>3. i \in 1 .. m + n /\ s[i] = q[i]
    BY <1>3, <2>2
  <2>4. \A j \in 1 .. m + n : s[j].op \in ops => j <= i
    <3> SUFFICES ASSUME NEW j \in 1 .. m + n, s[j].op \in ops
                 PROVE  j <= i
      OBVIOUS
    <3>1. CASE j <= m
      <4>1. j \in 1 .. m /\ s[j] = q[j]
        BY <1>3, <3>1
      <4> QED  BY <2>2, <4>1
    <3>2. CASE ~ (j <= m)
      <4>1. j - m \in 1 .. n /\ s[j] = r[j - m]
        BY <1>3, <3>2
      <4>2. r[j - m] \in ToSet(r)
        BY <1>1, <4>1 DEF ToSet
      <4> QED  BY <1>6, <4>1, <4>2 DEF Has
    <3> QED  BY <3>1, <3>2
  <2>5. IsLast(s, ops, i)
    BY <1>3, <2>2, <2>3, <2>4 DEF IsLast
  <2>6. LastOf(s, ops, d) = s[i] /\ LastOf(q, ops, d) = q[i]
    BY <2>1, <2>5, LastIs
  <2>7. LastOf(r, ops, LastOf(q, ops, d)) = LastOf(q, ops, d)
    BY <1>6 DEF LastOf
  <2> QED  BY <1>2, <2>3, <2>6, <2>7
<1>7. CASE ~ Has(r, ops) /\ ~ Has(q, ops)
  BY <1>2, <1>4, <1>7 DEF LastOf
<1> QED  BY <1>5, <1>6, <1>7

LEMMA LastShort ==
  /\ \A ops, d : LastOf(<<>>, ops, d) = d
  /\ \A x, ops, d : LastOf(<<x>>, ops, d) = IF x.op \in ops THEN x ELSE d
<1>1. \A ops, d : LastOf(<<>>, ops, d) = d
  BY ToSetShort DEF LastOf, Has
<1>2. ASSUME NEW x, NEW ops, NEW d
      PROVE  LastOf(<<x>>, ops, d) = IF x.op \in ops THEN x ELSE d
  <2>1. CASE x.op \in ops
    <3>1. <<x>> \in Seq({x}) /\ DOMAIN <<x>> = {1} /\ <<x>>[1] = x
      OBVIOUS
    <3>2. IsLast(<<x>>, ops, 1)
      BY <2>1, <3>1 DEF IsLast
    <3>3. PICK q : q = <<x>>
      OBVIOUS
    <3>4. q \in Seq({x}) /\ q[1] = x /\ IsLast(q, ops, 1)
      BY <3>1, <3>2, <3>3
    <3>5. LastOf(q, ops, d) = q[1]
      BY <3>4, LastIs
    <3> QED  BY <2>1, <3>3, <3>4, <3>5
  <2>2. CASE x.op \notin ops
    BY <2>2, ToSetShort DEF LastOf, Has
  <2> QED  BY <2>1, <2>2
<1> QED  BY <1>1, <1>2

\* Serving the oldest message leaves the last of a kind, or the default.
LEMMA LastOfTail ==
  ASSUME NEW S, NEW q \in Seq(S), q # <<>>
  PROVE  \A ops, d : LastOf(q, ops, d) =
           LastOf(Tail(q), ops, IF Head(q).op \in ops THEN Head(q) ELSE d)
<1>1. PICK h \in Seq(S), r \in Seq(S) :
        h = <<Head(q)>> /\ r = Tail(q) /\ q = h \o r
  BY HeadAndTail
<1>2. \A ops, d : LastOf(h, ops, d) = IF Head(q).op \in ops THEN Head(q) ELSE d
  BY <1>1, LastShort
<1>3. ASSUME NEW ops, NEW d
      PROVE  LastOf(q, ops, d) = LastOf(r, ops, LastOf(h, ops, d))
  <2>1. LastOf(h \o r, ops, d) = LastOf(r, ops, LastOf(h, ops, d))
    BY LastConcat
  <2> QED  BY <1>1, <2>1, Zenon
<1> QED  BY <1>1, <1>2, <1>3

-----------------------------------------------------------------------------
\* What a step does to the queues.

LEMMA SendFacts ==
  ASSUME toDaemon \in Seq(Asks), NEW r \in Seq(Asks), Send(r)
  PROVE  /\ toDaemon' \in Seq(Asks)
         /\ ToSet(toDaemon') = ToSet(toDaemon) \cup ToSet(r)
         /\ \A ops : Has(toDaemon', ops) <=> Has(toDaemon, ops) \/ Has(r, ops)
         /\ \A ops, d :
              LastOf(toDaemon', ops, d) = LastOf(r, ops, LastOf(toDaemon, ops, d))
<1>1. toDaemon' = toDaemon \o r
  BY DEF Send
<1>2. /\ toDaemon \o r \in Seq(Asks)
      /\ ToSet(toDaemon \o r) = ToSet(toDaemon) \cup ToSet(r)
  BY ToSetConcat
<1>3. \A ops, d :
        LastOf(toDaemon \o r, ops, d) = LastOf(r, ops, LastOf(toDaemon, ops, d))
  BY LastConcat
<1>4. /\ toDaemon' \in Seq(Asks)
      /\ ToSet(toDaemon') = ToSet(toDaemon) \cup ToSet(r)
  BY <1>1, <1>2
<1>5. ASSUME NEW ops, NEW d
      PROVE  LastOf(toDaemon', ops, d) = LastOf(r, ops, LastOf(toDaemon, ops, d))
  <2>1. LastOf(toDaemon \o r, ops, d) = LastOf(r, ops, LastOf(toDaemon, ops, d))
    BY <1>3
  <2> QED  BY <1>1, <2>1, Zenon
<1> QED  BY <1>4, <1>5 DEF Has

LEMMA ServeFacts ==
  ASSUME toDaemon \in Seq(Asks), toDaemon # <<>>, toDaemon' = Tail(toDaemon)
  PROVE  /\ Head(toDaemon) \in Asks /\ toDaemon' \in Seq(Asks)
         /\ ToSet(toDaemon) = {Head(toDaemon)} \cup ToSet(toDaemon')
         /\ \A ops : Has(toDaemon, ops)
                       <=> Head(toDaemon).op \in ops \/ Has(toDaemon', ops)
         /\ \A ops, d : LastOf(toDaemon, ops, d) =
              LastOf(toDaemon', ops,
                     IF Head(toDaemon).op \in ops THEN Head(toDaemon) ELSE d)
<1>1. /\ Head(toDaemon) \in Asks /\ Tail(toDaemon) \in Seq(Asks)
      /\ ToSet(toDaemon) = {Head(toDaemon)} \cup ToSet(Tail(toDaemon))
  BY HeadAndTail
<1>2. \A ops, d : LastOf(toDaemon, ops, d) =
        LastOf(Tail(toDaemon), ops,
               IF Head(toDaemon).op \in ops THEN Head(toDaemon) ELSE d)
  BY LastOfTail
<1>3. \A ops : Has(toDaemon, ops)
                 <=> Head(toDaemon).op \in ops \/ Has(Tail(toDaemon), ops)
  BY <1>1 DEF Has
<1> QED  BY <1>1, <1>2, <1>3

LEMMA ReplyFacts ==
  ASSUME toClient \in Seq(Events), NEW x \in Events, Reply(x)
  PROVE  /\ toClient' \in Seq(Events)
         /\ ToSet(toClient') = ToSet(toClient) \cup {x}
         /\ \A ops : Has(toClient', ops) <=> Has(toClient, ops) \/ x.op \in ops
         /\ \A ops, d : LastOf(toClient', ops, d) =
              IF x.op \in ops THEN x ELSE LastOf(toClient, ops, d)
<1>1. PICK r \in Seq(Events) : r = <<x>>
  BY OneIsSeq
<1>2. toClient' = toClient \o r
  <2>1. Append(toClient, x) = toClient \o <<x>>
    BY AppendIsConcat
  <2> QED  BY <1>1, <2>1 DEF Reply
<1>3. /\ toClient \o r \in Seq(Events)
      /\ ToSet(toClient \o r) = ToSet(toClient) \cup ToSet(r)
  BY ToSetConcat
<1>4. \A ops, d :
        LastOf(toClient \o r, ops, d) = LastOf(r, ops, LastOf(toClient, ops, d))
  BY LastConcat
<1>5. ToSet(r) = {x}
  BY <1>1, ToSetShort
<1>6. \A ops, d : LastOf(r, ops, d) = IF x.op \in ops THEN x ELSE d
  BY <1>1, LastShort
<1>7. /\ toClient' \in Seq(Events)
      /\ ToSet(toClient') = ToSet(toClient) \cup {x}
  BY <1>2, <1>3, <1>5
<1>8. ASSUME NEW ops, NEW d
      PROVE  LastOf(toClient', ops, d) =
               IF x.op \in ops THEN x ELSE LastOf(toClient, ops, d)
  <2>1. LastOf(toClient \o r, ops, d) = LastOf(r, ops, LastOf(toClient, ops, d))
    BY <1>4
  <2>2. LastOf(toClient', ops, d) = LastOf(r, ops, LastOf(toClient, ops, d))
    BY <1>2, <2>1, Zenon
  <2> QED  BY <1>6, <2>2
<1> QED  BY <1>7, <1>8 DEF Has

LEMMA HandleFacts ==
  ASSUME toClient \in Seq(Events), toClient # <<>>, toClient' = Tail(toClient)
  PROVE  /\ Head(toClient) \in Events /\ toClient' \in Seq(Events)
         /\ ToSet(toClient) = {Head(toClient)} \cup ToSet(toClient')
         /\ \A ops : Has(toClient, ops)
                       <=> Head(toClient).op \in ops \/ Has(toClient', ops)
         /\ \A ops, d : LastOf(toClient, ops, d) =
              LastOf(toClient', ops,
                     IF Head(toClient).op \in ops THEN Head(toClient) ELSE d)
<1>1. /\ Head(toClient) \in Events /\ Tail(toClient) \in Seq(Events)
      /\ ToSet(toClient) = {Head(toClient)} \cup ToSet(Tail(toClient))
  BY HeadAndTail
<1>2. \A ops, d : LastOf(toClient, ops, d) =
        LastOf(Tail(toClient), ops,
               IF Head(toClient).op \in ops THEN Head(toClient) ELSE d)
  BY LastOfTail
<1>3. \A ops : Has(toClient, ops)
                 <=> Head(toClient).op \in ops \/ Has(Tail(toClient), ops)
  BY <1>1 DEF Has
<1> QED  BY <1>1, <1>2, <1>3

-----------------------------------------------------------------------------
\* What the daemon does for a request.

\* Ids grow, and nothing dead comes back.
Ages ==
    /\ nextPaneId' \in Nat /\ nextPaneId' >= nextPaneId
    /\ nextTabId' \in Nat /\ nextTabId' >= nextTabId
    /\ \A t \in TabIds : \A p \in layout'[t] : p < nextPaneId => p \in layout[t]

\* A pane joins tab t, which becomes the active one.
Splits(p, t) ==
    /\ p \in layout[t]
    /\ layout' = [layout EXCEPT ![t] = @ \cup {nextPaneId}]
    /\ focusedPane' = [focusedPane EXCEPT ![t] = nextPaneId]
    /\ ActiveTabId' = t
    /\ UNCHANGED <<tabs, running>>

\* A pane of tab t is focused, and t becomes the active one.
Focuses(p, t) ==
    /\ p \in layout[t]
    /\ focusedPane' = [focusedPane EXCEPT ![t] = p]
    /\ ActiveTabId' = t
    /\ UNCHANGED <<layout, tabs, running>>

\* A tab t of one pane is there.
Opens(t) ==
    /\ layout[t] = {} /\ t >= nextTabId
    /\ layout' = [layout EXCEPT ![t] = {nextPaneId}]
    /\ focusedPane' = [focusedPane EXCEPT ![t] = nextPaneId]
    /\ UNCHANGED running

\* These panes of tab t go.
Closes(gone, t) ==
    /\ gone \subseteq layout[t]
    /\ layout' = [layout EXCEPT ![t] = @ \ gone]
    /\ \A s \in TabIds :
         focusedPane[s] \in layout'[s] => focusedPane'[s] = focusedPane[s]
    /\ running' = running \ gone

LEMMA LiveMeans ==
  /\ \A p : p \in Live <=> \E t \in TabIds : p \in layout[t]
  /\ \A p : p \in Live' <=> \E t \in TabIds : p \in layout'[t]
  BY DEF Live

\* The one workspace.
LEMMA OnePlace ==
  ASSUME DaemonInv
  PROVE  /\ DOMAIN workspaces = {1} /\ workspaces[1] = 0 /\ 0 \in WorkspaceIds
         /\ Len(workspaces) = 1 /\ 1 \in DOMAIN workspaces
         /\ \A ti : TabAt(1, ti) = tabs[0][ti]
         /\ ActiveTabId = tabs[0][activeTab[0]] /\ activeTab[0] \in DOMAIN tabs[0]
<1>1. workspaces = <<0>> /\ activeWorkspace = 1
  BY DEF DaemonInv
<1>2. 0 \in WorkspaceIds
  BY BoundsAssumption DEF WorkspaceIds
<1>3. activeTab[workspaces[1]] \in DOMAIN tabs[workspaces[1]]
  BY <1>1 DEF DaemonInv, MuxInv, FocusValid
<1> QED  BY <1>1, <1>2, <1>3 DEF TabAt, ActiveTabId

\* The active tab has panes, and its focus is one of them.
LEMMA ActiveLives ==
  ASSUME DaemonInv
  PROVE  /\ ActiveTabId \in TabIds
         /\ focusedPane[ActiveTabId] \in layout[ActiveTabId]
         /\ layout[ActiveTabId] # {}
         /\ \A i \in DOMAIN tabs[0] :
              /\ tabs[0][i] \in TabIds
              /\ focusedPane[tabs[0][i]] \in layout[tabs[0][i]]
              /\ tabs[0][i] < nextTabId
<1>1. /\ 1 \in DOMAIN workspaces /\ workspaces[1] = 0 /\ 0 \in WorkspaceIds
      /\ ActiveTabId = tabs[0][activeTab[0]] /\ activeTab[0] \in DOMAIN tabs[0]
  BY OnePlace
<1>2. ASSUME NEW i \in DOMAIN tabs[0]
      PROVE  /\ tabs[0][i] \in TabIds
             /\ focusedPane[tabs[0][i]] \in layout[tabs[0][i]]
             /\ tabs[0][i] < nextTabId
  <2>1. tabs[0] \in Seq(TabIds)
    BY <1>1 DEF DaemonInv, MuxInv, MuxTypeOK
  <2>2. tabs[0][i] \in TabIds
    BY <2>1
  <2>3. tabs[0][i] \in TabsOf(0)
    BY DEF TabsOf
  <2>4. focusedPane[tabs[0][i]] \in layout[tabs[0][i]]
    BY <1>1, <2>3 DEF DaemonInv, MuxInv, FocusValid
  <2>5. tabs[0][i] < nextTabId
    BY <1>1 DEF DaemonInv, MuxInv, TabIdsFresh
  <2> QED  BY <2>2, <2>4, <2>5
<1> QED  BY <1>1, <1>2

LEMMA AgesLive ==
  ASSUME Ages
  PROVE  \A p : p \in Live' /\ p < nextPaneId => p \in Live
  BY LiveMeans DEF Ages

LEMMA SplitEffect ==
  ASSUME DaemonInv, NEW q, q.id \in PaneIds, ServeSplit(q)
  PROVE  \/ q.id \notin Live /\ Refuse(q)
         \/ /\ \E t \in TabIds : Splits(q.id, t)
            /\ Reply([op |-> "SplitCreated", pane |-> nextPaneId])
            /\ nextPaneId \in PaneIds
            /\ DaemonInv' /\ Ages
<1> SUFFICES ASSUME ~ (q.id \notin Live /\ Refuse(q))
             PROVE  /\ \E t \in TabIds : Splits(q.id, t)
                    /\ Reply([op |-> "SplitCreated", pane |-> nextPaneId])
                    /\ nextPaneId \in PaneIds
                    /\ DaemonInv' /\ Ages
  OBVIOUS
<1>1. PICK ti \in TabIndices :
        /\ Located(q.id, 1, ti)
        /\ AddLeaf(TabAt(1, ti), nextPaneId)
        /\ focusedPane' = [focusedPane EXCEPT ![TabAt(1, ti)] = nextPaneId]
        /\ Activate(1, ti)
  BY DEF ServeSplit
<1>2. /\ AllocatePaneId
      /\ Reply([op |-> "SplitCreated", pane |-> nextPaneId])
      /\ UNCHANGED <<workspaces, tabs, nextTabId, nextWorkspaceId, running>>
  BY DEF ServeSplit
<1>3. /\ 1 \in DOMAIN workspaces /\ workspaces[1] = 0 /\ 0 \in WorkspaceIds
      /\ ti \in DOMAIN tabs[workspaces[1]]
      /\ q.id \in layout[TabAt(1, ti)]
  BY <1>1, OnePlace DEF Located
<1>4. PICK t \in TabIds : t = TabAt(1, ti)
  BY <1>3, Places DEF DaemonInv, MuxInv
<1>5. /\ nextPaneId \in Nat /\ nextPaneId < MaxPanes /\ nextPaneId' = nextPaneId + 1
      /\ nextPaneId \in PaneIds /\ nextPaneId' \in 0 .. MaxPanes
  BY <1>2, BoundsAssumption DEF AllocatePaneId, DaemonInv, PaneIds
<1>6. layout \in [TabIds -> SUBSET PaneIds] /\ nextTabId \in Nat
      /\ activeTab \in [WorkspaceIds -> Nat \ {0}]
  BY DEF DaemonInv, MuxInv, MuxTypeOK
<1>7. layout' = [layout EXCEPT ![t] = @ \cup {nextPaneId}]
  BY <1>1, <1>4 DEF AddLeaf
<1>8. ActiveTabId' = t
  <2>1. activeWorkspace' = 1 /\ activeTab' = [activeTab EXCEPT ![0] = ti]
    BY <1>1, <1>3 DEF Activate
  <2> QED  BY <1>2, <1>3, <1>4, <1>6, <2>1 DEF ActiveTabId, TabAt
<1>9. Splits(q.id, t)
  BY <1>1, <1>2, <1>3, <1>4, <1>7, <1>8 DEF Splits
<1>10. \A u \in TabIds : nextPaneId \notin layout[u]
  BY <1>5, LiveMeans DEF DaemonInv
<1>11. MuxInv'
  <2>1. layout[TabAt(1, ti)] # {}
    BY <1>3
  <2> QED  BY <1>1, <1>2, <1>3, <1>5, <1>10, <2>1, AddLeafKeeps DEF DaemonInv
<1>12. Ages
  <2>1. \A u \in TabIds : \A p \in layout'[u] : p \in layout[u] \/ p = nextPaneId
    BY <1>6, <1>7
  <2> QED  BY <1>2, <1>5, <1>6, <2>1 DEF Ages
<1>13. \A p \in Live' : p < nextPaneId'
  <2>1. \A u \in TabIds : \A p \in layout'[u] : p \in layout[u] \/ p = nextPaneId
    BY <1>6, <1>7
  <2>2. \A p \in Live' : p \in Live \/ p = nextPaneId
    BY <2>1, LiveMeans
  <2>3. \A p \in Live : p \in Nat /\ p < nextPaneId
    <3>1. \A p \in Live : p \in PaneIds
      BY <1>6, LiveMeans
    <3> QED  BY <3>1, BoundsAssumption DEF DaemonInv, PaneIds
  <2> QED  BY <1>5, <2>2, <2>3
<1>14. running' \subseteq Live'
  <2>1. \A p \in Live : p \in Live'
    BY <1>6, <1>7, LiveMeans
  <2> QED  BY <1>2, <2>1 DEF DaemonInv
<1>15. DaemonInv'
  <2>1. workspaces' = <<0>> /\ activeWorkspace' = 1
    BY <1>1, <1>2 DEF DaemonInv, Activate
  <2> QED  BY <1>5, <1>11, <1>13, <1>14, <2>1 DEF DaemonInv
<1> QED  BY <1>2, <1>5, <1>9, <1>12, <1>15

LEMMA FocusEffect ==
  ASSUME DaemonInv, NEW p, NEW ti \in TabIndices, FocusAt(p, 1, ti),
         UNCHANGED running
  PROVE  /\ \E t \in TabIds : Focuses(p, t) /\ TabAt(1, ti) = t
         /\ DaemonInv' /\ Ages
<1>1. /\ ti \in DOMAIN tabs[workspaces[1]]
      /\ p \in layout[TabAt(1, ti)]
      /\ focusedPane' = [focusedPane EXCEPT ![TabAt(1, ti)] = p]
      /\ Activate(1, ti)
      /\ UNCHANGED <<workspaces, tabs, layout, nextPaneId, nextTabId, nextWorkspaceId>>
  BY DEF FocusAt, Located, idVars
<1>2. 1 \in DOMAIN workspaces /\ workspaces[1] = 0 /\ 0 \in WorkspaceIds
  BY OnePlace
<1>3. PICK t \in TabIds : t = TabAt(1, ti)
  BY <1>1, <1>2, Places DEF DaemonInv, MuxInv
<1>4. activeTab \in [WorkspaceIds -> Nat \ {0}] /\ nextTabId \in Nat
  BY DEF DaemonInv, MuxInv, MuxTypeOK
<1>5. /\ activeWorkspace' = 1 /\ activeTab' = [activeTab EXCEPT ![0] = ti]
  BY <1>1, <1>2 DEF Activate
<1>6. ActiveTabId' = t
  BY <1>1, <1>2, <1>3, <1>4, <1>5 DEF ActiveTabId, TabAt
<1>7. Focuses(p, t)
  BY <1>1, <1>3, <1>6 DEF Focuses
<1>8. MuxInv'
  BY FocusKeeps DEF DaemonInv
<1>9. Live' = Live
  BY <1>1 DEF Live
<1>10. DaemonInv'
  BY <1>1, <1>5, <1>8, <1>9 DEF DaemonInv
<1>11. Ages
  BY <1>1, <1>4 DEF Ages, DaemonInv
<1> QED  BY <1>3, <1>7, <1>10, <1>11

LEMMA NewTabEffect ==
  ASSUME DaemonInv, ServeNewTab
  PROVE  /\ \E t \in TabIds : Opens(t)
         /\ Reply([op |-> "TabCreated", pane |-> nextPaneId])
         /\ nextPaneId \in PaneIds
         /\ DaemonInv' /\ Ages
<1>1. /\ NewTabIn(nextPaneId) /\ AllocatePaneId
      /\ Reply([op |-> "TabCreated", pane |-> nextPaneId])
      /\ UNCHANGED running
  BY DEF ServeNewTab
<1>2. /\ nextPaneId \in Nat /\ nextPaneId < MaxPanes /\ nextPaneId' = nextPaneId + 1
      /\ nextPaneId \in PaneIds /\ nextPaneId' \in 0 .. MaxPanes
  BY <1>1, BoundsAssumption DEF AllocatePaneId, DaemonInv, PaneIds
<1>3. /\ nextTabId < MaxTabs /\ nextTabId' = nextTabId + 1
      /\ layout' = [layout EXCEPT ![nextTabId] = {nextPaneId}]
      /\ focusedPane' = [focusedPane EXCEPT ![nextTabId] = nextPaneId]
      /\ UNCHANGED <<workspaces, activeWorkspace>>
  BY <1>1 DEF NewTabIn, AllocateTabId
<1>4. /\ layout \in [TabIds -> SUBSET PaneIds] /\ nextTabId \in Nat
  BY DEF DaemonInv, MuxInv, MuxTypeOK
<1>5. nextTabId \in TabIds /\ layout[nextTabId] = {}
  BY <1>3, FreshTab DEF DaemonInv
<1>6. Opens(nextTabId)
  BY <1>1, <1>3, <1>4, <1>5 DEF Opens
<1>7. \A u \in TabIds : nextPaneId \notin layout[u]
  BY <1>2, LiveMeans DEF DaemonInv
<1>8. MuxInv'
  BY <1>1, <1>2, <1>7, NewTabKeeps DEF DaemonInv
<1>9. \A u \in TabIds : \A p \in layout'[u] : p \in layout[u] \/ p = nextPaneId
  BY <1>3, <1>4, <1>5
<1>10. Ages
  BY <1>2, <1>3, <1>4, <1>9 DEF Ages
<1>11. \A p \in Live' : p < nextPaneId'
  <2>1. \A p \in Live' : p \in Live \/ p = nextPaneId
    BY <1>9, LiveMeans
  <2>2. \A p \in Live : p \in Nat /\ p < nextPaneId
    <3>1. \A p \in Live : p \in PaneIds
      BY <1>4, LiveMeans
    <3> QED  BY <3>1, BoundsAssumption DEF DaemonInv, PaneIds
  <2> QED  BY <1>2, <2>1, <2>2
<1>12. running' \subseteq Live'
  <2>1. \A p \in Live : p \in Live'
    BY <1>3, <1>4, <1>5, LiveMeans
  <2> QED  BY <1>1, <2>1 DEF DaemonInv
<1>13. DaemonInv'
  BY <1>2, <1>3, <1>8, <1>11, <1>12 DEF DaemonInv
<1> QED  BY <1>1, <1>2, <1>5, <1>6, <1>10, <1>13

\* When panes of one tab go, what is left is as it was.
LEMMA CloseEffect ==
  ASSUME DaemonInv, MuxInv', NEW t \in TabIds, NEW gone, Closes(gone, t),
         UNCHANGED <<workspaces, activeWorkspace, idVars>>
  PROVE  DaemonInv' /\ Ages
<1>1. /\ layout \in [TabIds -> SUBSET PaneIds] /\ nextTabId \in Nat
      /\ nextPaneId \in Nat
      /\ UNCHANGED <<nextPaneId, nextTabId>>
  BY BoundsAssumption DEF DaemonInv, MuxInv, MuxTypeOK, idVars
<1>2. layout' = [layout EXCEPT ![t] = @ \ gone] /\ gone \subseteq layout[t]
  BY DEF Closes
<1>3. \A u \in TabIds : \A p \in layout'[u] : p \in layout[u]
  BY <1>1, <1>2
<1>4. Ages
  BY <1>1, <1>3 DEF Ages
<1>5. \A p \in Live' : p \in Live
  BY <1>3, LiveMeans
<1>6. running' \subseteq Live'
  <2> SUFFICES ASSUME NEW p \in running, p \notin gone PROVE p \in Live'
    BY DEF Closes
  <2>1. PICK u \in TabIds : p \in layout[u]
    BY LiveMeans DEF DaemonInv
  <2>2. p \in layout'[u]
    BY <1>1, <1>2, <2>1
  <2> QED  BY <2>2, LiveMeans
<1>7. DaemonInv'
  BY <1>1, <1>5, <1>6 DEF DaemonInv
<1> QED  BY <1>4, <1>7

\* A pane elsewhere means the last tab is not the one that goes.
LEMMA NotTheLast ==
  ASSUME DaemonInv, NEW ti \in DOMAIN tabs[workspaces[1]],
         layout[TabAt(1, ti)] # Live
  PROVE  Len(tabs[workspaces[1]]) > 1
<1>1. 1 \in DOMAIN workspaces /\ Len(workspaces) = 1
  BY OnePlace
<1>2. PICK t \in TabIds : t = TabAt(1, ti)
  BY <1>1, Places DEF DaemonInv, MuxInv
<1>3. \A p \in layout[t] : p \in Live
  BY <1>2, LiveMeans
<1>4. PICK p \in Live : p \notin layout[t]
  BY <1>2, <1>3
<1>5. PICK u \in TabIds : p \in layout[u]
  BY <1>4, LiveMeans
<1>6. layout[u] # {} /\ u # TabAt(1, ti)
  BY <1>2, <1>4, <1>5
<1> QED  BY <1>1, <1>6, AnotherPlace DEF DaemonInv

\* A tab goes with all its panes.
LEMMA CloseTabEffect ==
  ASSUME DaemonInv, NEW ti \in DOMAIN tabs[workspaces[1]], CloseTabAt(1, ti),
         layout[TabAt(1, ti)] # Live,
         running' = running \ layout[TabAt(1, ti)]
  PROVE  /\ Closes(layout[TabAt(1, ti)], TabAt(1, ti))
         /\ DaemonInv' /\ Ages
<1>1. /\ 1 \in DOMAIN workspaces /\ workspaces[1] = 0 /\ 0 \in WorkspaceIds
  BY OnePlace
<1>2. PICK t \in TabIds : t = TabAt(1, ti)
  BY <1>1, Places DEF DaemonInv, MuxInv
<1>3. Len(tabs[workspaces[1]]) > 1
  BY NotTheLast
<1>4. MuxInv'
  BY <1>1, <1>3, CloseTabKeeps DEF DaemonInv
<1>5. /\ layout' = [layout EXCEPT ![t] = {}]
      /\ focusedPane' = [focusedPane EXCEPT ![t] = NoPane]
      /\ UNCHANGED idVars
  BY <1>2 DEF CloseTabAt
<1>6. UNCHANGED <<workspaces, activeWorkspace>>
  <2>1. tabs[0] \in Seq(TabIds)
    BY <1>1 DEF DaemonInv, MuxInv, MuxTypeOK
  <2>2. Len(RemoveAt(tabs[0], ti)) = Len(tabs[0]) - 1
    BY <1>1, <2>1, Removed
  <2>3. RemoveAt(tabs[0], ti) # <<>>
    BY <1>1, <1>3, <2>1, <2>2
  <2> QED  BY <1>1, <2>3 DEF CloseTabAt
<1>7. layout \in [TabIds -> SUBSET PaneIds]
      /\ focusedPane \in [TabIds -> PaneIds \cup {NoPane}]
  BY DEF DaemonInv, MuxInv, MuxTypeOK
<1>8. Closes(layout[t], t)
  BY <1>2, <1>5, <1>7 DEF Closes
<1>9. DaemonInv' /\ Ages
  BY <1>4, <1>5, <1>6, <1>8, CloseEffect
<1> QED  BY <1>2, <1>8, <1>9

LEMMA ServeCloseTabEffect ==
  ASSUME DaemonInv, NEW q, q.id \in TabIds, ServeCloseTab(q)
  PROVE  \/ Refuse(q)
         \/ /\ Closes(layout[q.id], q.id)
            /\ Reply([op |-> "TabClosed"])
            /\ DaemonInv' /\ Ages
<1> SUFFICES ASSUME ~ Refuse(q)
             PROVE  /\ Closes(layout[q.id], q.id)
                    /\ Reply([op |-> "TabClosed"])
                    /\ DaemonInv' /\ Ages
  OBVIOUS
<1>1. PICK ti \in TabIndices : LocatedTab(q.id, 1, ti) /\ CloseTabAt(1, ti)
  BY DEF ServeCloseTab
<1>2. /\ layout[q.id] # Live /\ running' = running \ layout[q.id]
      /\ Reply([op |-> "TabClosed"])
  BY DEF ServeCloseTab
<1>3. ti \in DOMAIN tabs[workspaces[1]] /\ TabAt(1, ti) = q.id
  BY <1>1 DEF LocatedTab
<1>4. layout[TabAt(1, ti)] # Live /\ running' = running \ layout[TabAt(1, ti)]
  BY <1>2, <1>3
<1>5. /\ Closes(layout[TabAt(1, ti)], TabAt(1, ti))
      /\ DaemonInv' /\ Ages
  BY <1>1, <1>3, <1>4, CloseTabEffect
<1> QED  BY <1>2, <1>3, <1>5

LEMMA ServeClosePaneEffect ==
  ASSUME DaemonInv, NEW q, q.id \in PaneIds, ServeClosePane(q)
  PROVE  \/ Refuse(q)
         \/ /\ \E t \in TabIds : Closes({q.id}, t)
            /\ q.id \notin Live'
            /\ Reply([op |-> "PaneClosed", n |-> q.n])
            /\ DaemonInv' /\ Ages
<1> SUFFICES ASSUME ~ Refuse(q)
             PROVE  /\ \E t \in TabIds : Closes({q.id}, t)
                    /\ q.id \notin Live'
                    /\ Reply([op |-> "PaneClosed", n |-> q.n])
                    /\ DaemonInv' /\ Ages
  OBVIOUS
<1>1. PICK ti \in TabIndices : CloseAt(q.id, 1, ti)
  BY DEF ServeClosePane
<1>2. /\ Cardinality(Live) > 1 /\ running' = running \ {q.id}
      /\ Reply([op |-> "PaneClosed", n |-> q.n])
  BY DEF ServeClosePane
<1>3. 1 \in DOMAIN workspaces
  BY OnePlace
<1>4. ti \in DOMAIN tabs[workspaces[1]] /\ q.id \in layout[TabAt(1, ti)]
  BY <1>1 DEF CloseAt, Located
<1>5. PICK t \in TabIds : t = TabAt(1, ti)
  BY <1>3, <1>4, Places DEF DaemonInv, MuxInv
<1>6. /\ layout \in [TabIds -> SUBSET PaneIds]
      /\ focusedPane \in [TabIds -> PaneIds \cup {NoPane}]
  BY DEF DaemonInv, MuxInv, MuxTypeOK
<1>7. Closes({q.id}, t) /\ DaemonInv' /\ Ages
  <2>1. CASE layout[t] = {q.id} /\ CloseTabAt(1, ti)
    <3>1. Cardinality({q.id}) = 1
      BY FS_Singleton
    <3>2. layout[TabAt(1, ti)] # Live /\ layout[TabAt(1, ti)] = {q.id}
      BY <1>2, <1>5, <2>1, <3>1
    <3>3. running' = running \ layout[TabAt(1, ti)]
      BY <1>2, <3>2
    <3>4. Closes(layout[TabAt(1, ti)], TabAt(1, ti)) /\ DaemonInv' /\ Ages
      BY <1>4, <2>1, <3>2, <3>3, CloseTabEffect
    <3> QED  BY <1>5, <3>2, <3>4
  <2>2. CASE layout[t] # {q.id} /\ CloseLeafAt(q.id, 1, ti)
    <3>1. MuxInv'
      BY <1>3, <1>4, <2>2, CloseLeafKeeps DEF DaemonInv
    <3>2. /\ layout' = [layout EXCEPT ![t] = @ \ {q.id}]
          /\ UNCHANGED <<workspaces, activeWorkspace, idVars>>
      BY <1>5, <2>2 DEF CloseLeafAt, orderVars
    <3>3. PICK hint \in layout[t] \ {q.id} :
            focusedPane' =
              [focusedPane EXCEPT ![t] = IF @ = q.id THEN hint ELSE @]
      BY <1>5, <2>2 DEF CloseLeafAt
    <3>4. \A s \in TabIds :
            focusedPane[s] \in layout'[s] => focusedPane'[s] = focusedPane[s]
      BY <1>6, <3>2, <3>3
    <3>5. Closes({q.id}, t)
      BY <1>2, <1>4, <1>5, <3>2, <3>4 DEF Closes
    <3> QED  BY <3>1, <3>2, <3>5, CloseEffect
  <2> QED  BY <1>1, <1>5, <2>1, <2>2 DEF CloseAt
<1>8. q.id \notin Live'
  <2> SUFFICES ASSUME NEW u \in TabIds, q.id \in layout'[u] PROVE FALSE
    BY LiveMeans
  <2>1. u # t /\ q.id \in layout[u]
    BY <1>6, <1>7 DEF Closes
  <2>2. layout[u] \cap layout[t] = {}
    BY <2>1 DEF DaemonInv, MuxInv, PlacedOnce
  <2> QED  BY <1>4, <1>5, <2>1, <2>2
<1> QED  BY <1>2, <1>7, <1>8

-----------------------------------------------------------------------------
\* What travels has its type.

LEMMA TabsReplyIs ==
  ASSUME DaemonInv
  PROVE  /\ TabsReply \in Events
         /\ TabsReply.op = "TabList" /\ TabsReply.active = ActiveTabId
         /\ Names(TabsReply.strip) = tabs[0]
         /\ \E i \in DOMAIN TabsReply.strip : TabsReply.strip[i].tab = ActiveTabId
<1>1. workspaces[activeWorkspace] = 0
  BY DEF DaemonInv
<1>2. PICK shown : shown = tabs[0] /\ shown \in Seq(TabIds)
  BY OnePlace DEF DaemonInv, MuxInv, MuxTypeOK
<1> DEFINE strip == [i \in DOMAIN shown |->
                       [tab |-> shown[i], focus |-> focusedPane[shown[i]]]]
<1>3. /\ TabsReply.op = "TabList" /\ TabsReply.active = ActiveTabId
      /\ TabsReply.strip = strip
      /\ TabsReply = [op |-> "TabList", active |-> ActiveTabId, strip |-> strip]
  BY <1>1, <1>2 DEF TabsReply, TabListSnapshot
<1>4. \A i \in DOMAIN shown : shown[i] \in TabIds /\ focusedPane[shown[i]] \in PaneIds
  <2> TAKE i \in DOMAIN shown
  <2>1. /\ shown[i] \in TabIds /\ focusedPane[shown[i]] \in layout[shown[i]]
    BY <1>2, ActiveLives
  <2> QED  BY <2>1 DEF DaemonInv, MuxInv, MuxTypeOK
<1>5. PICK n \in Nat : DOMAIN shown = 1 .. n
  BY <1>2
<1>6. strip \in Strips
  <2>1. strip \in [1 .. n -> [tab : TabIds, focus : PaneIds]]
    BY <1>4, <1>5
  <2> QED  BY <2>1 DEF Strips
<1>7. Names(strip) = shown
  <2>1. DOMAIN strip = DOMAIN shown /\ \A i \in DOMAIN shown : strip[i].tab = shown[i]
    OBVIOUS
  <2>2. Names(strip) = [i \in DOMAIN shown |-> shown[i]]
    BY <2>1 DEF Names
  <2>3. shown = [i \in DOMAIN shown |-> shown[i]]
    BY <1>2
  <2> QED  BY <2>2, <2>3
<1>8. \E i \in DOMAIN strip : strip[i].tab = ActiveTabId
  <2>1. activeTab[0] \in DOMAIN shown /\ shown[activeTab[0]] = ActiveTabId
    BY <1>2, OnePlace
  <2> QED  BY <2>1
<1>9. TabsReply \in Events
  <2>1. ActiveTabId \in TabIds
    BY ActiveLives
  <2> HIDE DEF strip
  <2>2. [op |-> "TabList", active |-> ActiveTabId, strip |-> strip]
          \in [op : {"TabList"}, active : TabIds, strip : Strips]
    BY <1>6, <2>1
  <2> QED  BY <1>3, <2>2 DEF Events
<1> QED  BY <1>2, <1>3, <1>7, <1>8, <1>9

LEMMA EventTypes ==
  /\ \A p \in PaneIds : /\ [op |-> "SplitCreated", pane |-> p] \in Events
                        /\ [op |-> "TabCreated", pane |-> p] \in Events
  /\ [op |-> "TabClosed"] \in Events /\ [op |-> "TitleChanged"] \in Events
  /\ \A k \in 0 .. MaxActions : /\ [op |-> "PaneClosed", n |-> k] \in Events
                                /\ [op |-> "Failed", n |-> k] \in Events
  /\ \A panes \in SUBSET PaneIds : panes # {} =>
       [op |-> "LayoutTree", panes |-> panes] \in Events
<1>1. \A p \in PaneIds :
        /\ [op |-> "SplitCreated", pane |-> p]
             \in [op : {"SplitCreated", "TabCreated"}, pane : PaneIds]
        /\ [op |-> "TabCreated", pane |-> p]
             \in [op : {"SplitCreated", "TabCreated"}, pane : PaneIds]
  OBVIOUS
<1>2. /\ [op |-> "TabClosed"] \in [op : {"TabClosed", "TitleChanged"}]
      /\ [op |-> "TitleChanged"] \in [op : {"TabClosed", "TitleChanged"}]
  OBVIOUS
<1>3. \A k \in 0 .. MaxActions :
        /\ [op |-> "PaneClosed", n |-> k]
             \in [op : {"PaneClosed", "Failed"}, n : 0 .. MaxActions]
        /\ [op |-> "Failed", n |-> k]
             \in [op : {"PaneClosed", "Failed"}, n : 0 .. MaxActions]
  OBVIOUS
<1>4. \A panes \in SUBSET PaneIds : panes # {} =>
        [op |-> "LayoutTree", panes |-> panes]
          \in [op : {"LayoutTree"}, panes : (SUBSET PaneIds) \ {{}}]
  OBVIOUS
<1> QED  BY <1>1, <1>2, <1>3, <1>4 DEF Events

LEMMA EventParts ==
  ASSUME NEW e \in Events
  PROVE  /\ e.op \in {"SplitCreated", "TabCreated"} => e.pane \in PaneIds
         /\ e.op \in {"PaneClosed", "Failed"} => e.n \in 0 .. MaxActions
         /\ e.op = "TabList" => e.active \in TabIds /\ e.strip \in Strips
         /\ e.op = "LayoutTree" => e.panes \in SUBSET PaneIds /\ e.panes # {}
         /\ e.op \in {"SplitCreated", "TabCreated", "TabClosed", "TitleChanged",
                      "PaneClosed", "Failed", "TabList", "LayoutTree"}
<1>1. CASE e \in [op : {"SplitCreated", "TabCreated"}, pane : PaneIds]
  BY <1>1
<1>2. CASE e \in [op : {"TabClosed", "TitleChanged"}]
  BY <1>2
<1>3. CASE e \in [op : {"PaneClosed", "Failed"}, n : 0 .. MaxActions]
  BY <1>3
<1>4. CASE e \in [op : {"TabList"}, active : TabIds, strip : Strips]
  BY <1>4
<1>5. CASE e \in [op : {"LayoutTree"}, panes : (SUBSET PaneIds) \ {{}}]
  BY <1>5
<1> QED  BY <1>1, <1>2, <1>3, <1>4, <1>5 DEF Events

LEMMA AskParts ==
  ASSUME NEW q \in Asks
  PROVE  /\ q.op \in {"SplitPane", "ClosePane", "FocusPane"} => q.id \in PaneIds
         /\ q.op \in {"CloseTab", "SwitchTab", "GetLayoutTree"} => q.id \in TabIds
         /\ q.op # "Resize" => q.n \in 0 .. MaxActions
         /\ q.op = "Resize" => q.panes \in SUBSET PaneIds
         /\ q.op \in {"SplitPane", "ClosePane", "FocusPane", "CloseTab",
                      "SwitchTab", "GetLayoutTree", "NewTab", "ListTabs", "Resize"}
  BY DEF Asks

\* The newest list and tree, of the client's queue as it is.
LEMMA NewestTypes ==
  ASSUME SyncTypeOK
  PROVE  /\ NewestList.active \in TabIds \cup {NoTab}
         /\ NewestTree \in SUBSET PaneIds
<1>1. toClient \in Seq(Events)
  BY DEF SyncTypeOK
<1>2. NewestList.active \in TabIds \cup {NoTab}
  <2>1. CASE Has(toClient, {"TabList"})
    <3>1. NewestList \in ToSet(toClient) /\ NewestList.op \in {"TabList"}
      BY <1>1, <2>1, LastMember DEF NewestList
    <3>2. NewestList \in Events
      BY <1>1, <3>1 DEF ToSet
    <3> QED  BY <3>1, <3>2, EventParts
  <2>2. CASE ~ Has(toClient, {"TabList"})
    <3>1. NewestList = Adopted
      BY <1>1, <2>2, LastMember DEF NewestList
    <3> QED  BY <3>1 DEF Adopted, SyncTypeOK
  <2> QED  BY <2>1, <2>2
<1>3. NewestTree \in SUBSET PaneIds
  <2> DEFINE last == LastOf(toClient, {"LayoutTree"}, AdoptedTree)
  <2>1. CASE Has(toClient, {"LayoutTree"})
    <3>1. last \in ToSet(toClient) /\ last.op \in {"LayoutTree"}
      BY <1>1, <2>1, LastMember
    <3>2. last \in Events
      BY <1>1, <3>1 DEF ToSet
    <3>3. last.panes \in SUBSET PaneIds
      BY <3>1, <3>2, EventParts
    <3> QED  BY <3>3 DEF NewestTree
  <2>2. CASE ~ Has(toClient, {"LayoutTree"})
    <3>1. last = AdoptedTree
      BY <1>1, <2>2, LastMember
    <3> QED  BY <3>1 DEF AdoptedTree, NewestTree, SyncTypeOK
  <2> QED  BY <2>1, <2>2
<1> QED  BY <1>2, <1>3

-----------------------------------------------------------------------------
\* The daemon serves a request: what it may be, and what comes of it.

Serving(q) ==
    /\ MirrorInv
    /\ toDaemon # <<>> /\ q = Head(toDaemon) /\ toDaemon' = Tail(toDaemon)
    /\ UNCHANGED clientVars

Refused(q) ==
    /\ q.op \in {"SplitPane", "CloseTab", "ClosePane", "FocusPane", "SwitchTab",
                 "GetLayoutTree"}
    /\ q.op \in {"SplitPane", "FocusPane"} => q.id \notin Live
    /\ q.op = "GetLayoutTree" => layout[q.id] = {}
    /\ Refuse(q)
Listed(q) == q.op = "ListTabs" /\ Reply(TabsReply) /\ UNCHANGED daemonVars
Fetched(q) ==
    /\ q.op = "GetLayoutTree" /\ q.id \in TabIds /\ layout[q.id] # {}
    /\ Reply([op |-> "LayoutTree", panes |-> layout[q.id]])
    /\ UNCHANGED daemonVars
Resized(q) == q.op = "Resize" /\ ServeResize(q)
WasSplit(q) ==
    /\ q.op = "SplitPane" /\ \E t \in TabIds : Splits(q.id, t)
    /\ Reply([op |-> "SplitCreated", pane |-> nextPaneId])
    /\ nextPaneId \in PaneIds
TabMade(q) ==
    /\ q.op = "NewTab" /\ \E t \in TabIds : Opens(t)
    /\ Reply([op |-> "TabCreated", pane |-> nextPaneId])
    /\ nextPaneId \in PaneIds
TabGone(q) ==
    /\ q.op = "CloseTab" /\ q.id \in TabIds /\ Closes(layout[q.id], q.id)
    /\ Reply([op |-> "TabClosed"])
PaneGone(q) ==
    /\ q.op = "ClosePane" /\ q.id \notin Live'
    /\ \E t \in TabIds : Closes({q.id}, t)
    /\ Reply([op |-> "PaneClosed", n |-> q.n])
FocusMoved(q) ==
    /\ \/ q.op = "FocusPane" /\ \E t \in TabIds : Focuses(q.id, t)
       \/ q.op = "SwitchTab" /\ \E t \in TabIds : Focuses(focusedPane[t], t)
    /\ UNCHANGED toClient

Outcome(q) ==
    \/ Refused(q) \/ Listed(q) \/ Fetched(q) \/ Resized(q) \/ WasSplit(q)
    \/ TabMade(q) \/ TabGone(q) \/ PaneGone(q) \/ FocusMoved(q)

LEMMA DaemonRests ==
  ASSUME DaemonInv, UNCHANGED daemonVars
  PROVE  DaemonInv' /\ Ages
<1>1. UNCHANGED <<workspaces, activeWorkspace, tabs, activeTab, layout,
                  focusedPane, nextPaneId, nextTabId, nextWorkspaceId, running>>
  BY DEF daemonVars, muxVars, orderVars, treeVars, idVars
<1>2. MuxInv'
  BY <1>1, MuxRests DEF DaemonInv
<1>3. Live' = Live
  BY <1>1 DEF Live
<1>4. Ages
  BY <1>1 DEF Ages, DaemonInv, MuxInv, MuxTypeOK
<1> QED  BY <1>1, <1>2, <1>3, <1>4 DEF DaemonInv

LEMMA ServeOutcome ==
  ASSUME Serve, MirrorInv
  PROVE  \E q : Serving(q) /\ Outcome(q) /\ DaemonInv' /\ Ages
<1> DEFINE q == Head(toDaemon)
<1>1. Serving(q)
  BY DEF Serve, Serving
<1>2. DaemonInv /\ SyncTypeOK
  BY DEF MirrorInv
<1>3. q \in Asks
  BY <1>2, HeadAndTail DEF SyncTypeOK, Serve
<1>4. \/ q.op = "SplitPane" /\ ServeSplit(q)
      \/ q.op = "NewTab" /\ ServeNewTab
      \/ q.op = "CloseTab" /\ ServeCloseTab(q)
      \/ q.op = "ClosePane" /\ ServeClosePane(q)
      \/ q.op = "FocusPane" /\ ServeFocus(q)
      \/ q.op = "SwitchTab" /\ ServeSwitch(q)
      \/ q.op = "GetLayoutTree" /\ ServeLayout(q)
      \/ q.op = "ListTabs" /\ ServeList
      \/ q.op = "Resize" /\ ServeResize(q)
  BY DEF Serve
<1> HIDE DEF q
<1>5. ASSUME Refuse(q)
      PROVE  DaemonInv' /\ Ages
  BY <1>2, <1>5, DaemonRests DEF Refuse
<1>6. CASE q.op = "SplitPane" /\ ServeSplit(q)
  <2>1. q.id \in PaneIds
    BY <1>3, <1>6, AskParts
  <2>2. CASE q.id \notin Live /\ Refuse(q)
    <3>1. Refused(q)
      BY <1>6, <2>2 DEF Refused
    <3> QED  BY <1>1, <1>5, <2>2, <3>1 DEF Outcome
  <2>3. CASE /\ \E t \in TabIds : Splits(q.id, t)
             /\ Reply([op |-> "SplitCreated", pane |-> nextPaneId])
             /\ nextPaneId \in PaneIds
             /\ DaemonInv' /\ Ages
    <3>1. WasSplit(q)
      BY <1>6, <2>3 DEF WasSplit
    <3> QED  BY <1>1, <2>3, <3>1 DEF Outcome
  <2> QED  BY <1>2, <1>6, <2>1, <2>2, <2>3, SplitEffect
<1>7. CASE q.op = "NewTab" /\ ServeNewTab
  <2>1. /\ \E t \in TabIds : Opens(t)
        /\ Reply([op |-> "TabCreated", pane |-> nextPaneId])
        /\ nextPaneId \in PaneIds /\ DaemonInv' /\ Ages
    BY <1>2, <1>7, NewTabEffect
  <2>2. TabMade(q)
    BY <1>7, <2>1 DEF TabMade
  <2> QED  BY <1>1, <2>1, <2>2 DEF Outcome
<1>8. CASE q.op = "CloseTab" /\ ServeCloseTab(q)
  <2>1. q.id \in TabIds
    BY <1>3, <1>8, AskParts
  <2>2. CASE Refuse(q)
    <3>1. Refused(q)
      BY <1>8, <2>2 DEF Refused
    <3> QED  BY <1>1, <1>5, <2>2, <3>1 DEF Outcome
  <2>3. CASE /\ Closes(layout[q.id], q.id)
             /\ Reply([op |-> "TabClosed"])
             /\ DaemonInv' /\ Ages
    <3>1. TabGone(q)
      BY <1>8, <2>1, <2>3 DEF TabGone
    <3> QED  BY <1>1, <2>3, <3>1 DEF Outcome
  <2> QED  BY <1>2, <1>8, <2>1, <2>2, <2>3, ServeCloseTabEffect
<1>9. CASE q.op = "ClosePane" /\ ServeClosePane(q)
  <2>1. q.id \in PaneIds
    BY <1>3, <1>9, AskParts
  <2>2. CASE Refuse(q)
    <3>1. Refused(q)
      BY <1>9, <2>2 DEF Refused
    <3> QED  BY <1>1, <1>5, <2>2, <3>1 DEF Outcome
  <2>3. CASE /\ \E t \in TabIds : Closes({q.id}, t)
             /\ q.id \notin Live'
             /\ Reply([op |-> "PaneClosed", n |-> q.n])
             /\ DaemonInv' /\ Ages
    <3>1. PaneGone(q)
      BY <1>9, <2>3 DEF PaneGone
    <3> QED  BY <1>1, <2>3, <3>1 DEF Outcome
  <2> QED  BY <1>2, <1>9, <2>1, <2>2, <2>3, ServeClosePaneEffect
<1>10. CASE q.op = "FocusPane" /\ ServeFocus(q)
  <2>1. CASE q.id \notin Live /\ Refuse(q)
    <3>1. Refused(q)
      BY <1>10, <2>1 DEF Refused
    <3> QED  BY <1>1, <1>5, <2>1, <3>1 DEF Outcome
  <2>2. CASE /\ \E ti \in TabIndices : FocusAt(q.id, 1, ti)
             /\ UNCHANGED <<running, toClient>>
    <3>1. /\ \E t \in TabIds : Focuses(q.id, t)
          /\ DaemonInv' /\ Ages
      BY <1>2, <2>2, FocusEffect
    <3>2. FocusMoved(q)
      BY <1>10, <2>2, <3>1 DEF FocusMoved
    <3> QED  BY <1>1, <3>1, <3>2 DEF Outcome
  <2> QED  BY <1>10, <2>1, <2>2 DEF ServeFocus
<1>11. CASE q.op = "SwitchTab" /\ ServeSwitch(q)
  <2>1. CASE Refuse(q)
    <3>1. Refused(q)
      BY <1>11, <2>1 DEF Refused
    <3> QED  BY <1>1, <1>5, <2>1, <3>1 DEF Outcome
  <2>2. CASE /\ \E ti \in TabIndices :
                  LocatedTab(q.id, 1, ti) /\ FocusAt(focusedPane[q.id], 1, ti)
             /\ UNCHANGED <<running, toClient>>
    <3>1. PICK ti \in TabIndices :
            LocatedTab(q.id, 1, ti) /\ FocusAt(focusedPane[q.id], 1, ti)
      BY <2>2
    <3>2. /\ \E t \in TabIds : Focuses(focusedPane[q.id], t) /\ TabAt(1, ti) = t
          /\ DaemonInv' /\ Ages
      BY <1>2, <2>2, <3>1, FocusEffect
    <3>3. TabAt(1, ti) = q.id
      BY <3>1 DEF LocatedTab
    <3>4. FocusMoved(q)
      BY <1>11, <2>2, <3>2, <3>3 DEF FocusMoved
    <3> QED  BY <1>1, <3>2, <3>4 DEF Outcome
  <2> QED  BY <1>11, <2>1, <2>2 DEF ServeSwitch
<1>12. CASE q.op = "GetLayoutTree" /\ ServeLayout(q)
  <2>1. q.id \in TabIds
    BY <1>3, <1>12, AskParts
  <2>2. CASE layout[q.id] = {} /\ Refuse(q)
    <3>1. Refused(q)
      BY <1>12, <2>2 DEF Refused
    <3> QED  BY <1>1, <1>5, <2>2, <3>1 DEF Outcome
  <2>3. CASE /\ layout[q.id] # {}
             /\ Reply([op |-> "LayoutTree", panes |-> layout[q.id]])
             /\ UNCHANGED daemonVars
    <3>1. Fetched(q)
      BY <1>12, <2>1, <2>3 DEF Fetched
    <3> QED  BY <1>1, <1>2, <2>3, <3>1, DaemonRests DEF Outcome
  <2> QED  BY <1>12, <2>2, <2>3 DEF ServeLayout
<1>13. CASE q.op = "ListTabs" /\ ServeList
  <2>1. Listed(q)
    BY <1>13 DEF Listed, ServeList
  <2> QED  BY <1>1, <1>2, <1>13, <2>1, DaemonRests DEF Outcome, ServeList
<1>14. CASE q.op = "Resize" /\ ServeResize(q)
  <2>1. Resized(q)
    BY <1>14 DEF Resized
  <2>2. /\ UNCHANGED <<workspaces, activeWorkspace, tabs, activeTab, layout,
                       focusedPane, nextPaneId, nextTabId, nextWorkspaceId>>
        /\ running' = running \cup (q.panes \cap Live)
    BY <1>14 DEF ServeResize, muxVars, orderVars, treeVars, idVars
  <2>3. MuxInv'
    BY <1>2, <2>2, MuxRests DEF DaemonInv
  <2>4. Live' = Live
    BY <2>2 DEF Live
  <2>5. Ages
    BY <1>2, <2>2 DEF Ages, DaemonInv, MuxInv, MuxTypeOK
  <2>6. DaemonInv'
    BY <1>2, <2>2, <2>3, <2>4 DEF DaemonInv
  <2> QED  BY <1>1, <2>1, <2>5, <2>6 DEF Outcome
<1> QED  BY <1>4, <1>6, <1>7, <1>8, <1>9, <1>10, <1>11, <1>12, <1>13, <1>14

\* Its request leaves the queue, and the client stands still.
LEMMA ServingFacts ==
  ASSUME NEW q, Serving(q)
  PROVE  /\ q \in Asks /\ q \in ToSet(toDaemon)
         /\ toDaemon \in Seq(Asks) /\ toDaemon' \in Seq(Asks)
         /\ toClient \in Seq(Events)
         /\ ToSet(toDaemon) = {q} \cup ToSet(toDaemon')
         /\ \A ops : Has(toDaemon, ops) <=> q.op \in ops \/ Has(toDaemon', ops)
         /\ \A ops, d : LastOf(toDaemon, ops, d) =
              LastOf(toDaemon', ops, IF q.op \in ops THEN q ELSE d)
         /\ UNCHANGED <<views, focused, tree, pendingFocus, missed, known,
                        knownActive, refocus, closing, closes, actions,
                        sentDims, redrawn, published>>
         /\ UNCHANGED <<Adopted, AdoptedTree, AskedNow, ToldNow, ListedNow>>
<1>1. toDaemon \in Seq(Asks) /\ toClient \in Seq(Events)
  BY DEF Serving, MirrorInv, SyncTypeOK
<1>2. /\ q \in Asks /\ toDaemon' \in Seq(Asks)
      /\ ToSet(toDaemon) = {q} \cup ToSet(toDaemon')
      /\ \A ops : Has(toDaemon, ops) <=> q.op \in ops \/ Has(toDaemon', ops)
      /\ \A ops, d : LastOf(toDaemon, ops, d) =
           LastOf(toDaemon', ops, IF q.op \in ops THEN q ELSE d)
  BY <1>1, ServeFacts DEF Serving
<1>3. UNCHANGED <<views, focused, tree, pendingFocus, missed, known,
                  knownActive, refocus, closing, closes, actions,
                  sentDims, redrawn, published>>
  BY DEF Serving, clientVars, mirrorVars, viewVars, closeVars
<1>4. UNCHANGED <<Adopted, AdoptedTree, AskedNow, ToldNow, ListedNow>>
  BY <1>3 DEF Adopted, AdoptedTree, AskedNow, ToldNow, ListedNow, Asked
<1> QED  BY <1>1, <1>2, <1>3, <1>4

\* What the last requests of a kind say holds of those that are left; and a
\* request that was the last of its kind said it.
LEMMA ServingLasts ==
  ASSUME NEW q, Serving(q)
  PROVE  /\ LastOf(toDaemon', {"SwitchTab", "ListTabs"}, ListedNow').op = "ListTabs"
         /\ q.op = "SwitchTab" => Has(toDaemon', {"ListTabs"})
         /\ LastOf(toDaemon', {"GetLayoutTree"}, AskedNow').id = Asked(knownActive)
         /\ q.op = "GetLayoutTree" =>
              Has(toDaemon', {"GetLayoutTree"}) \/ q.id = Asked(knownActive)
         /\ LastOf(toDaemon', {"SplitPane", "FocusPane"}, ToldNow').id = focused
         /\ q.op \in {"SplitPane", "FocusPane"} =>
              Has(toDaemon', {"SplitPane", "FocusPane"}) \/ q.id = focused
<1>1. /\ toDaemon' \in Seq(Asks)
      /\ UNCHANGED <<AskedNow, ToldNow, ListedNow>>
      /\ \A ops, d : LastOf(toDaemon, ops, d) =
           LastOf(toDaemon', ops, IF q.op \in ops THEN q ELSE d)
  BY ServingFacts
<1>2. \A ops : Has(toDaemon', ops) =>
        \A d : LastOf(toDaemon', ops, d) = LastOf(toDaemon, ops, d)
  <2> SUFFICES ASSUME NEW ops, Has(toDaemon', ops), NEW d
               PROVE  LastOf(toDaemon', ops, d) = LastOf(toDaemon, ops, d)
    OBVIOUS
  <2>1. LastOf(toDaemon', ops, d)
          = LastOf(toDaemon', ops, IF q.op \in ops THEN q ELSE d)
    BY <1>1, LastMember
  <2> QED  BY <1>1, <2>1
<1>3. \A ops : ~ Has(toDaemon', ops) =>
        \A d : /\ LastOf(toDaemon', ops, d) = d
               /\ q.op \in ops => LastOf(toDaemon, ops, d) = q
  <2> SUFFICES ASSUME NEW ops, ~ Has(toDaemon', ops), NEW d
               PROVE  /\ LastOf(toDaemon', ops, d) = d
                      /\ q.op \in ops => LastOf(toDaemon, ops, d) = q
    OBVIOUS
  <2>1. LastOf(toDaemon', ops, d) = d /\ LastOf(toDaemon', ops, q) = q
    BY <1>1, LastMember
  <2>2. q.op \in ops => LastOf(toDaemon, ops, d) = LastOf(toDaemon', ops, q)
    BY <1>1
  <2> QED  BY <2>1, <2>2
<1>4. /\ LastOf(toDaemon', {"SwitchTab", "ListTabs"}, ListedNow).op = "ListTabs"
      /\ q.op = "SwitchTab" => Has(toDaemon', {"SwitchTab", "ListTabs"})
  <2>1. LastOf(toDaemon, {"SwitchTab", "ListTabs"}, ListedNow).op = "ListTabs"
    BY DEF Serving, MirrorInv, ListRight
  <2>2. CASE Has(toDaemon', {"SwitchTab", "ListTabs"})
    <3>1. LastOf(toDaemon', {"SwitchTab", "ListTabs"}, ListedNow)
            = LastOf(toDaemon, {"SwitchTab", "ListTabs"}, ListedNow)
      BY <1>2, <2>2
    <3> QED  BY <2>1, <2>2, <3>1
  <2>3. CASE ~ Has(toDaemon', {"SwitchTab", "ListTabs"})
    <3>1. /\ LastOf(toDaemon', {"SwitchTab", "ListTabs"}, ListedNow) = ListedNow
          /\ q.op \in {"SwitchTab", "ListTabs"} =>
               LastOf(toDaemon, {"SwitchTab", "ListTabs"}, ListedNow) = q
      BY <1>3, <2>3
    <3>2. ListedNow.op = "ListTabs"
      BY DEF ListedNow
    <3> QED  BY <2>1, <3>1, <3>2
  <2> QED  BY <2>2, <2>3
<1>5. q.op = "SwitchTab" => Has(toDaemon', {"ListTabs"})
  <2> SUFFICES ASSUME q.op = "SwitchTab" PROVE Has(toDaemon', {"ListTabs"})
    OBVIOUS
  <2>1. LastOf(toDaemon', {"SwitchTab", "ListTabs"}, ListedNow)
          \in ToSet(toDaemon')
    BY <1>1, <1>4, LastMember
  <2> QED  BY <1>4, <2>1 DEF Has
<1>6. /\ LastOf(toDaemon', {"GetLayoutTree"}, AskedNow).id = Asked(knownActive)
      /\ q.op = "GetLayoutTree" =>
           Has(toDaemon', {"GetLayoutTree"}) \/ q.id = Asked(knownActive)
  <2>1. LastOf(toDaemon, {"GetLayoutTree"}, AskedNow).id = Asked(knownActive)
    BY DEF Serving, MirrorInv, TreeRight
  <2>2. CASE Has(toDaemon', {"GetLayoutTree"})
    <3>1. LastOf(toDaemon', {"GetLayoutTree"}, AskedNow)
            = LastOf(toDaemon, {"GetLayoutTree"}, AskedNow)
      BY <1>2, <2>2
    <3> QED  BY <2>1, <2>2, <3>1
  <2>3. CASE ~ Has(toDaemon', {"GetLayoutTree"})
    <3>1. /\ LastOf(toDaemon', {"GetLayoutTree"}, AskedNow) = AskedNow
          /\ q.op \in {"GetLayoutTree"} =>
               LastOf(toDaemon, {"GetLayoutTree"}, AskedNow) = q
      BY <1>3, <2>3
    <3>2. AskedNow.id = Asked(knownActive)
      BY DEF AskedNow
    <3> QED  BY <2>1, <3>1, <3>2
  <2> QED  BY <2>2, <2>3
<1>7. /\ LastOf(toDaemon', {"SplitPane", "FocusPane"}, ToldNow).id = focused
      /\ q.op \in {"SplitPane", "FocusPane"} =>
           Has(toDaemon', {"SplitPane", "FocusPane"}) \/ q.id = focused
  <2>1. LastOf(toDaemon, {"SplitPane", "FocusPane"}, ToldNow).id = focused
    BY DEF Serving, MirrorInv, FocusRight
  <2>2. CASE Has(toDaemon', {"SplitPane", "FocusPane"})
    <3>1. LastOf(toDaemon', {"SplitPane", "FocusPane"}, ToldNow)
            = LastOf(toDaemon, {"SplitPane", "FocusPane"}, ToldNow)
      BY <1>2, <2>2
    <3> QED  BY <2>1, <2>2, <3>1
  <2>3. CASE ~ Has(toDaemon', {"SplitPane", "FocusPane"})
    <3>1. /\ LastOf(toDaemon', {"SplitPane", "FocusPane"}, ToldNow) = ToldNow
          /\ q.op \in {"SplitPane", "FocusPane"} =>
               LastOf(toDaemon, {"SplitPane", "FocusPane"}, ToldNow) = q
      BY <1>3, <2>3
    <3>2. ToldNow.id = focused
      BY DEF ToldNow
    <3> QED  BY <2>1, <3>1, <3>2
  <2> QED  BY <2>2, <2>3
<1> QED  BY <1>1, <1>4, <1>5, <1>6, <1>7

\* The answer, if there is one.
LEMMA OutcomeReply ==
  ASSUME NEW q, Serving(q), Outcome(q)
  PROVE  \/ UNCHANGED toClient /\ (Resized(q) \/ FocusMoved(q))
         \/ \E x \in Events : Reply(x) /\
              \/ Refused(q) /\ x.op = "Failed" /\ x.n = q.n
              \/ Listed(q) /\ x = TabsReply
              \/ Fetched(q) /\ x.op = "LayoutTree" /\ x.panes = layout[q.id]
              \/ WasSplit(q) /\ x.op = "SplitCreated"
              \/ TabMade(q) /\ x.op = "TabCreated"
              \/ TabGone(q) /\ x.op = "TabClosed"
              \/ PaneGone(q) /\ x.op = "PaneClosed" /\ x.n = q.n
<1>1. q \in Asks /\ DaemonInv
  BY ServingFacts DEF Serving, MirrorInv
<1>2. CASE Refused(q)
  <2>1. q.n \in 0 .. MaxActions
    BY <1>1, <1>2, AskParts DEF Refused
  <2>2. [op |-> "Failed", n |-> q.n] \in Events
    BY <2>1, EventTypes
  <2> QED  BY <1>2, <2>2 DEF Refused, Refuse
<1>3. CASE Listed(q)
  BY <1>1, <1>3, TabsReplyIs DEF Listed
<1>4. CASE Fetched(q)
  <2>1. layout[q.id] \in SUBSET PaneIds /\ layout[q.id] # {}
    BY <1>1, <1>4 DEF Fetched, DaemonInv, MuxInv, MuxTypeOK
  <2>2. [op |-> "LayoutTree", panes |-> layout[q.id]] \in Events
    BY <2>1, EventTypes
  <2> QED  BY <1>4, <2>2 DEF Fetched
<1>5. CASE Resized(q)
  BY <1>5 DEF Resized, ServeResize
<1>6. CASE WasSplit(q)
  BY <1>6, EventTypes DEF WasSplit
<1>7. CASE TabMade(q)
  BY <1>7, EventTypes DEF TabMade
<1>8. CASE TabGone(q)
  BY <1>8, EventTypes DEF TabGone
<1>9. CASE PaneGone(q)
  <2>1. q.n \in 0 .. MaxActions
    BY <1>1, <1>9, AskParts DEF PaneGone
  <2>2. [op |-> "PaneClosed", n |-> q.n] \in Events
    BY <2>1, EventTypes
  <2> QED  BY <1>9, <2>2 DEF PaneGone
<1>10. CASE FocusMoved(q)
  BY <1>10 DEF FocusMoved
<1> QED  BY <1>2, <1>3, <1>4, <1>5, <1>6, <1>7, <1>8, <1>9, <1>10 DEF Outcome

LEMMA ServeTypes ==
  ASSUME NEW q, Serving(q), Outcome(q), DaemonInv'
  PROVE  SyncTypeOK'
<1>1. toClient' \in Seq(Events)
  <2>1. toClient \in Seq(Events)
    BY ServingFacts
  <2>2. CASE UNCHANGED toClient
    BY <2>1, <2>2
  <2>3. CASE \E x \in Events : Reply(x)
    BY <2>1, <2>3, ReplyFacts
  <2> QED  BY <2>2, <2>3, OutcomeReply
<1>2. running' \in SUBSET PaneIds
  <2>1. \A t \in TabIds : layout'[t] \in SUBSET PaneIds
    BY DEF DaemonInv, MuxInv, MuxTypeOK
  <2>2. \A p \in Live' : p \in PaneIds
    BY <2>1, LiveMeans
  <2> QED  BY <2>2 DEF DaemonInv
<1>3. SyncTypeOK /\ toDaemon' \in Seq(Asks)
      /\ UNCHANGED <<views, focused, tree, pendingFocus, missed, known,
                     knownActive, refocus, closing, closes, actions,
                     sentDims, redrawn, published>>
  BY ServingFacts DEF Serving, MirrorInv
<1> QED  BY <1>1, <1>2, <1>3 DEF SyncTypeOK

\* The ids of PaneIds and TabIds are numbers.
LEMMA IdsAreNumbers ==
  /\ \A p \in PaneIds : p \in Nat
  /\ \A t \in TabIds : t \in Nat
  BY BoundsAssumption DEF PaneIds, TabIds

LEMMA ServeHeard ==
  ASSUME NEW q, Serving(q), Outcome(q), Ages
  PROVE  Heard'
<1>1. /\ SyncTypeOK /\ DaemonInv /\ Heard
      /\ nextPaneId \in Nat /\ nextTabId \in Nat
      /\ layout \in [TabIds -> SUBSET PaneIds]
  BY BoundsAssumption DEF Serving, MirrorInv, DaemonInv, MuxInv, MuxTypeOK
<1>2. /\ \A p \in PaneIds : p < nextPaneId => p < nextPaneId'
      /\ \A t \in TabIds : t < nextTabId => t < nextTabId'
  BY <1>1, IdsAreNumbers DEF Ages
<1>3. /\ UNCHANGED <<views, focused, tree, knownActive, closing, sentDims>>
      /\ toClient \in Seq(Events)
  BY ServingFacts
<1>4. /\ focused' < nextPaneId'
      /\ \A p \in views' \cup tree' : p < nextPaneId'
      /\ knownActive' = NoTab \/ knownActive' < nextTabId'
      /\ \A p \in PaneIds : sentDims'[p] # Unsent => p < nextPaneId'
  BY <1>1, <1>2, <1>3 DEF SyncTypeOK, Heard
<1>5. \A c \in closing' : c.pane < nextPaneId'
  <2>1. \A c \in closing : c.pane \in PaneIds
    BY <1>1 DEF SyncTypeOK
  <2> QED  BY <1>1, <1>2, <1>3, <2>1 DEF Heard
<1>6. \A e \in ToSet(toClient) :
        /\ e.op = "LayoutTree" => \A p \in e.panes : p < nextPaneId'
        /\ e.op = "TabList" => e.active < nextTabId'
  <2> SUFFICES ASSUME NEW e \in ToSet(toClient)
               PROVE  /\ e.op = "LayoutTree" => \A p \in e.panes : p < nextPaneId'
                      /\ e.op = "TabList" => e.active < nextTabId'
    OBVIOUS
  <2>1. e \in Events
    BY <1>3 DEF ToSet
  <2>2. /\ e.op = "LayoutTree" => e.panes \in SUBSET PaneIds
        /\ e.op = "TabList" => e.active \in TabIds
    BY <2>1, EventParts
  <2>3. /\ e.op = "LayoutTree" => \A p \in e.panes : p < nextPaneId
        /\ e.op = "TabList" => e.active < nextTabId
    BY <1>1 DEF Heard
  <2> QED  BY <1>2, <2>2, <2>3
<1>7. \A e \in ToSet(toClient') :
        /\ e.op = "LayoutTree" => \A p \in e.panes : p < nextPaneId'
        /\ e.op = "TabList" => e.active < nextTabId'
  <2>1. CASE UNCHANGED toClient
    BY <1>6, <2>1
  <2>2. ASSUME NEW x \in Events, Reply(x),
               /\ x.op = "LayoutTree" => \A p \in x.panes : p < nextPaneId'
               /\ x.op = "TabList" => x.active < nextTabId'
        PROVE  \A e \in ToSet(toClient') :
                 /\ e.op = "LayoutTree" => \A p \in e.panes : p < nextPaneId'
                 /\ e.op = "TabList" => e.active < nextTabId'
    <3>1. ToSet(toClient') = ToSet(toClient) \cup {x}
      BY <1>3, <2>2, ReplyFacts
    <3> QED  BY <1>6, <2>2, <3>1
  <2>3. /\ TabsReply.op = "TabList" /\ TabsReply.active < nextTabId'
    <3>1. ActiveTabId \in TabIds /\ ActiveTabId < nextTabId
      BY <1>1, OnePlace, ActiveLives
    <3> QED  BY <1>1, <1>2, <3>1, TabsReplyIs
  <2>4. q.id \in TabIds => \A p \in layout[q.id] : p < nextPaneId'
    <3> SUFFICES ASSUME q.id \in TabIds, NEW p \in layout[q.id]
                 PROVE  p < nextPaneId'
      OBVIOUS
    <3>1. p \in PaneIds /\ p < nextPaneId
      BY <1>1, LiveMeans DEF DaemonInv
    <3> QED  BY <1>2, <3>1
  <2> QED  BY <2>1, <2>2, <2>3, <2>4, OutcomeReply DEF Fetched
<1> QED  BY <1>4, <1>5, <1>7 DEF Heard

\* The queue to the client, unless the answer says otherwise, brings what it
\* brought.
LEMMA ServingClient ==
  ASSUME NEW q, Serving(q), Outcome(q)
  PROVE  /\ \A ops : Has(toClient, ops) => Has(toClient', ops)
         /\ \A e \in ToSet(toClient) : e \in ToSet(toClient')
         /\ ~ Listed(q) => /\ NewestList' = NewestList
                           /\ \A e \in ToSet(toClient') :
                                e.op = "TabList" => e \in ToSet(toClient)
         /\ ~ Fetched(q) => NewestTree' = NewestTree
         /\ ~ PaneGone(q) => \A e \in ToSet(toClient') :
                               e.op = "PaneClosed" => e \in ToSet(toClient)
<1>1. toClient \in Seq(Events) /\ UNCHANGED <<Adopted, AdoptedTree>>
  BY ServingFacts
<1>2. CASE UNCHANGED toClient
  BY <1>1, <1>2 DEF NewestList, NewestTree
<1>3. ASSUME NEW x \in Events, Reply(x),
             ~ Listed(q) => x.op # "TabList",
             ~ Fetched(q) => x.op # "LayoutTree",
             ~ PaneGone(q) => x.op # "PaneClosed"
      PROVE  /\ \A ops : Has(toClient, ops) => Has(toClient', ops)
             /\ \A e \in ToSet(toClient) : e \in ToSet(toClient')
             /\ ~ Listed(q) => /\ NewestList' = NewestList
                               /\ \A e \in ToSet(toClient') :
                                    e.op = "TabList" => e \in ToSet(toClient)
             /\ ~ Fetched(q) => NewestTree' = NewestTree
             /\ ~ PaneGone(q) => \A e \in ToSet(toClient') :
                                   e.op = "PaneClosed" => e \in ToSet(toClient)
  <2>1. /\ ToSet(toClient') = ToSet(toClient) \cup {x}
        /\ \A ops : Has(toClient', ops) <=> Has(toClient, ops) \/ x.op \in ops
        /\ \A ops, d : LastOf(toClient', ops, d) =
             IF x.op \in ops THEN x ELSE LastOf(toClient, ops, d)
    BY <1>1, <1>3, ReplyFacts
  <2>2. x.op # "TabList" => NewestList' = NewestList
    BY <1>1, <2>1 DEF NewestList
  <2>3. x.op # "LayoutTree" => NewestTree' = NewestTree
    BY <1>1, <2>1 DEF NewestTree
  <2> QED  BY <1>3, <2>1, <2>2, <2>3
<1>4. TabsReply.op = "TabList"
  BY TabsReplyIs DEF Serving, MirrorInv
<1> QED  BY <1>2, <1>3, <1>4, OutcomeReply

\* What changed what is to be seen is announced.
LEMMA Announced ==
  ASSUME NEW q, Serving(q)
  PROVE  /\ TabMade(q) \/ TabGone(q) \/ PaneGone(q) =>
              Has(toClient', {"TabCreated", "TabClosed", "PaneClosed"})
         /\ WasSplit(q) \/ PaneGone(q) =>
              Has(toClient', {"SplitCreated", "PaneClosed"})
         /\ WasSplit(q) => Has(toClient', {"SplitCreated"})
         /\ Fetched(q) => /\ Adopting' /\ NewestTree' = layout[q.id]
<1>1. toClient \in Seq(Events) /\ q \in Asks
      /\ layout \in [TabIds -> SUBSET PaneIds]
  BY ServingFacts DEF Serving, MirrorInv, DaemonInv, MuxInv, MuxTypeOK
<1>2. \A x \in Events : Reply(x) => \A ops : x.op \in ops => Has(toClient', ops)
  BY <1>1, ReplyFacts
<1>3. CASE WasSplit(q)
  <2>1. PICK x \in Events : Reply(x) /\ x.op = "SplitCreated"
    BY <1>3, EventTypes DEF WasSplit
  <2>2. q.op = "SplitPane"
    BY <1>3 DEF WasSplit
  <2> QED  BY <1>2, <2>1, <2>2 DEF TabMade, TabGone, PaneGone, Fetched
<1>4. CASE TabMade(q)
  <2>1. PICK x \in Events : Reply(x) /\ x.op = "TabCreated"
    BY <1>4, EventTypes DEF TabMade
  <2>2. q.op = "NewTab"
    BY <1>4 DEF TabMade
  <2> QED  BY <1>2, <2>1, <2>2 DEF WasSplit, PaneGone, Fetched
<1>5. CASE TabGone(q)
  <2>1. PICK x \in Events : Reply(x) /\ x.op = "TabClosed"
    BY <1>5, EventTypes DEF TabGone
  <2>2. q.op = "CloseTab"
    BY <1>5 DEF TabGone
  <2> QED  BY <1>2, <2>1, <2>2 DEF WasSplit, PaneGone, Fetched
<1>6. CASE PaneGone(q)
  <2>1. q.n \in 0 .. MaxActions
    BY <1>1, <1>6, AskParts DEF PaneGone
  <2>2. [op |-> "PaneClosed", n |-> q.n] \in Events
    BY <2>1, EventTypes
  <2>3. PICK x \in Events : Reply(x) /\ x.op = "PaneClosed"
    BY <1>6, <2>2 DEF PaneGone
  <2>4. q.op = "ClosePane"
    BY <1>6 DEF PaneGone
  <2> QED  BY <1>2, <2>3, <2>4 DEF WasSplit, Fetched
<1>7. CASE Fetched(q)
  <2>1. layout[q.id] \in SUBSET PaneIds /\ layout[q.id] # {}
    BY <1>1, <1>7 DEF Fetched
  <2>2. [op |-> "LayoutTree", panes |-> layout[q.id]] \in Events
    BY <2>1, EventTypes
  <2>3. PICK x \in Events :
          Reply(x) /\ x.op = "LayoutTree" /\ x.panes = layout[q.id]
    BY <1>7, <2>2 DEF Fetched
  <2>4. /\ Has(toClient', {"LayoutTree"})
        /\ LastOf(toClient', {"LayoutTree"}, AdoptedTree') = x
    BY <1>1, <2>3, ReplyFacts
  <2>5. q.op = "GetLayoutTree"
    BY <1>7 DEF Fetched
  <2> QED  BY <2>3, <2>4, <2>5 DEF Adopting, NewestTree, WasSplit, TabMade,
              TabGone, PaneGone
<1> QED  BY <1>3, <1>4, <1>5, <1>6, <1>7

\* Which outcomes leave the strip right.
LEMMA ServeListRight ==
  ASSUME NEW q, Serving(q), Outcome(q)
  PROVE  ListRight'
<1>1. /\ ListRight /\ DaemonInv
      /\ layout \in [TabIds -> SUBSET PaneIds]
  BY DEF Serving, MirrorInv, DaemonInv, MuxInv, MuxTypeOK
<1>2. /\ toClient \in Seq(Events)
      /\ \A ops : Has(toDaemon, ops) <=> q.op \in ops \/ Has(toDaemon', ops)
      /\ UNCHANGED <<refocus, Adopted>>
  BY ServingFacts
<1>3. LastOf(toDaemon', {"SwitchTab", "ListTabs"}, ListedNow').op = "ListTabs"
  BY ServingLasts
<1>4. CASE Listed(q)
  <2>1. Reply(TabsReply) /\ UNCHANGED <<tabs, layout>>
    BY <1>4 DEF Listed, daemonVars, muxVars, orderVars, treeVars
  <2>2. /\ TabsReply \in Events
        /\ TabsReply.op = "TabList" /\ TabsReply.active = ActiveTabId
        /\ Names(TabsReply.strip) = tabs[0]
        /\ \E i \in DOMAIN TabsReply.strip : TabsReply.strip[i].tab = ActiveTabId
    BY <1>1, TabsReplyIs
  <2>3. PICK x \in Events : x = TabsReply
    BY <2>2
  <2>4. /\ ToSet(toClient') = ToSet(toClient) \cup {x}
        /\ Has(toClient', {"TabList"})
        /\ NewestList' = x
    BY <1>2, <2>1, <2>2, <2>3, ReplyFacts DEF NewestList
  <2>5. ActiveTabId \in TabIds /\ layout[ActiveTabId] # {}
    BY <1>1, ActiveLives
  <2>6. /\ Names(x.strip) = tabs'[0]
        /\ x.active \in TabIds /\ layout'[x.active] # {}
    BY <2>1, <2>2, <2>3, <2>5
  <2>7. \A e \in ToSet(toClient') :
          e.op = "TabList" => \E i \in DOMAIN e.strip : e.strip[i].tab = e.active
    BY <1>1, <2>2, <2>3, <2>4 DEF ListRight
  <2>8. \/ Relisting'
        \/ /\ Names(NewestList'.strip) = tabs'[0]
           /\ NewestList'.active \in TabIds
           /\ layout'[NewestList'.active] # {}
    BY <2>4, <2>6
  <2> QED  BY <1>3, <2>4, <2>7, <2>8 DEF ListRight
<1>5. CASE ~ Listed(q)
  <2>1. /\ \A ops : Has(toClient, ops) => Has(toClient', ops)
        /\ NewestList' = NewestList
        /\ \A e \in ToSet(toClient') : e.op = "TabList" => e \in ToSet(toClient)
    BY <1>5, ServingClient
  <2>2. q.op # "ListTabs"
    BY <1>5 DEF Outcome, Refused, Listed, Fetched, Resized, WasSplit, TabMade,
       TabGone, PaneGone, FocusMoved
  <2>3. Has(toDaemon', {"ListTabs"}) <=> Has(toDaemon, {"ListTabs"})
    BY <1>2, <2>2
  <2>4. Relisting => Relisting'
    BY <2>1, <2>3 DEF Relisting
  <2>5. CASE TabMade(q) \/ TabGone(q) \/ PaneGone(q)
    <3>1. Has(toClient', {"TabCreated", "TabClosed", "PaneClosed"})
      BY <2>5, Announced
    <3> QED  BY <1>1, <1>2, <1>3, <2>1, <2>3, <3>1 DEF ListRight, Relisting
  <2>6. CASE ~ (TabMade(q) \/ TabGone(q) \/ PaneGone(q))
    <3>1. UNCHANGED tabs /\ \A t \in TabIds : layout[t] # {} => layout'[t] # {}
      <4>1. CASE Refused(q) \/ Fetched(q) \/ Resized(q)
        <5>1. UNCHANGED <<tabs, layout>>
          BY <4>1 DEF Refused, Refuse, Fetched, Resized, ServeResize, daemonVars,
             muxVars, orderVars, treeVars
        <5> QED  BY <5>1
      <4>2. CASE WasSplit(q)
        BY <1>1, <4>2 DEF WasSplit, Splits
      <4>3. CASE FocusMoved(q)
        BY <4>3 DEF FocusMoved, Focuses
      <4> QED  BY <1>5, <2>6, <4>1, <4>2, <4>3 DEF Outcome
    <3>2. \/ Relisting'
          \/ /\ Names(NewestList'.strip) = tabs'[0]
             /\ NewestList'.active \in TabIds
             /\ layout'[NewestList'.active] # {}
      BY <1>1, <2>1, <2>4, <3>1 DEF ListRight
    <3> QED  BY <1>1, <1>2, <1>3, <2>1, <2>3, <3>2 DEF ListRight
  <2> QED  BY <2>5, <2>6
<1> QED  BY <1>4, <1>5

\* The tab the client shows keeps its panes, unless the answer says otherwise.
LEMMA ShownStays ==
  ASSUME NEW q, Serving(q), Outcome(q), ShownLives'
  PROVE  /\ ShownLives
         /\ ~ (WasSplit(q) \/ PaneGone(q)) => layout'[knownActive] = layout[knownActive]
<1>1. /\ knownActive' = knownActive /\ knownActive \in TabIds
      /\ layout'[knownActive] # {}
  BY ServingFacts DEF ShownLives
<1>2. /\ layout \in [TabIds -> SUBSET PaneIds] /\ nextTabId \in Nat
      /\ knownActive = NoTab \/ knownActive < nextTabId
  BY DEF Serving, MirrorInv, DaemonInv, MuxInv, MuxTypeOK, Heard
<1>3. CASE Refused(q) \/ Listed(q) \/ Fetched(q) \/ Resized(q) \/ FocusMoved(q)
  <2>1. UNCHANGED layout
    BY <1>3 DEF Refused, Refuse, Listed, Fetched, Resized, ServeResize,
       FocusMoved, Focuses, daemonVars, muxVars, treeVars
  <2> QED  BY <1>1, <2>1 DEF ShownLives
<1>4. CASE WasSplit(q)
  BY <1>1, <1>2, <1>4 DEF WasSplit, Splits, ShownLives
<1>5. CASE PaneGone(q)
  BY <1>1, <1>2, <1>5 DEF PaneGone, Closes, ShownLives
<1>6. CASE TabGone(q)
  <2>1. layout' = [layout EXCEPT ![q.id] = @ \ layout[q.id]]
    BY <1>6 DEF TabGone, Closes
  <2>2. knownActive # q.id
    BY <1>1, <1>2, <2>1
  <2> QED  BY <1>1, <1>2, <2>1, <2>2 DEF ShownLives
<1>7. CASE TabMade(q)
  <2>1. PICK t \in TabIds :
          t >= nextTabId /\ layout' = [layout EXCEPT ![t] = {nextPaneId}]
    BY <1>7 DEF TabMade, Opens
  <2>2. knownActive # t
    <3>1. knownActive < nextTabId
      BY <1>1, <1>2, GuiBoundsAssumption
    <3> QED  BY <1>1, <1>2, <2>1, <3>1, IdsAreNumbers
  <2> QED  BY <1>1, <1>2, <2>1, <2>2 DEF ShownLives
<1> QED  BY <1>3, <1>4, <1>5, <1>6, <1>7 DEF Outcome

\* A layout that is asked for last is that of the tab shown, and comes.
LEMMA LayoutComes ==
  ASSUME NEW q, Serving(q), Outcome(q), ShownLives'
  PROVE  /\ q.op # "GetLayoutTree" => (Fetching' <=> Fetching)
         /\ q.op = "GetLayoutTree" =>
              Fetching' \/ (Adopting' /\ NewestTree' = layout'[knownActive'])
         /\ Adopting => Adopting'
<1>1. /\ \A ops : Has(toDaemon, ops) <=> q.op \in ops \/ Has(toDaemon', ops)
      /\ UNCHANGED knownActive
      /\ \A ops : Has(toClient, ops) => Has(toClient', ops)
  BY ServingFacts, ServingClient
<1>2. q.op # "GetLayoutTree" => (Fetching' <=> Fetching)
  BY <1>1 DEF Fetching
<1>3. ASSUME q.op = "GetLayoutTree", ~ Fetching'
      PROVE  Adopting' /\ NewestTree' = layout'[knownActive']
  <2>1. knownActive # NoTab
    BY <1>1, GuiBoundsAssumption DEF ShownLives
  <2>2. q.id = knownActive
    BY <1>3, <2>1, ServingLasts DEF Fetching, Asked
  <2>3. CASE Refused(q)
    <3>1. ShownLives
      BY ShownStays
    <3> QED  BY <1>3, <2>2, <2>3, <3>1 DEF Refused, ShownLives
  <2>4. CASE Fetched(q)
    <3>1. UNCHANGED layout
      BY <2>4 DEF Fetched, daemonVars, muxVars, treeVars
    <3> QED  BY <1>1, <2>2, <2>4, <3>1, Announced
  <2> QED  BY <1>3, <2>3, <2>4 DEF Outcome, Listed, Resized, WasSplit, TabMade,
              TabGone, PaneGone, FocusMoved
<1> QED  BY <1>1, <1>2, <1>3 DEF Adopting

LEMMA ServeTreeRight ==
  ASSUME NEW q, Serving(q), Outcome(q), Ages
  PROVE  TreeRight'
<1>1. TreeRight /\ Heard
  BY DEF Serving, MirrorInv
<1>2. UNCHANGED <<refocus, tree, published, knownActive>>
  BY ServingFacts
<1>3. LastOf(toDaemon', {"GetLayoutTree"}, AskedNow').id = Asked(knownActive')
  BY <1>2, ServingLasts
<1>4. /\ \A ops : Has(toClient, ops) => Has(toClient', ops)
      /\ ~ Fetched(q) => NewestTree' = NewestTree
  BY ServingClient
<1>5. q.op # "GetLayoutTree" => ~ Fetched(q)
  BY DEF Fetched
<1>6. ShownLives' =>
        \/ Fetching' \/ NewestTree' = layout'[knownActive']
        \/ Has(toClient', {"SplitCreated", "PaneClosed"}) \/ refocus'
  <2> SUFFICES ASSUME ShownLives'
               PROVE  \/ Fetching' \/ NewestTree' = layout'[knownActive']
                      \/ Has(toClient', {"SplitCreated", "PaneClosed"})
                      \/ refocus'
    OBVIOUS
  <2>1. CASE q.op = "GetLayoutTree"
    BY <2>1, LayoutComes
  <2>2. CASE WasSplit(q) \/ PaneGone(q)
    BY <2>2, Announced
  <2>3. CASE q.op # "GetLayoutTree" /\ ~ (WasSplit(q) \/ PaneGone(q))
    <3>1. ShownLives /\ layout'[knownActive] = layout[knownActive]
      BY <2>3, ShownStays
    <3>2. Fetching' <=> Fetching
      BY <2>3, LayoutComes
    <3> QED  BY <1>1, <1>2, <1>4, <1>5, <2>3, <3>1, <3>2 DEF TreeRight
  <2> QED  BY <2>1, <2>2, <2>3
<1>7. ShownLives' => Fetching' \/ Adopting' \/ published'.tab = knownActive'
  <2> SUFFICES ASSUME ShownLives'
               PROVE  Fetching' \/ Adopting' \/ published'.tab = knownActive'
    OBVIOUS
  <2>1. CASE q.op = "GetLayoutTree"
    BY <2>1, LayoutComes
  <2>2. CASE q.op # "GetLayoutTree"
    BY <1>1, <1>2, <2>2, ShownStays, LayoutComes DEF TreeRight
  <2> QED  BY <2>1, <2>2
<1>8. tree' = {} \/ published'.panes = tree' \/ ~ tree' \subseteq Live'
  <2>1. \A p \in tree : p \in Live' => p \in Live
    BY <1>1, AgesLive DEF Heard
  <2> QED  BY <1>1, <1>2, <2>1 DEF TreeRight
<1> QED  BY <1>3, <1>6, <1>7, <1>8 DEF TreeRight

\* Where the focus stands in the daemon's tabs after an outcome.
Heeded == \A t \in TabIds : focused \in layout[t] => focusedPane[t] = focused

\* A pane of one tab is in no other.
LEMMA OneTab ==
  ASSUME DaemonInv, NEW s \in TabIds, NEW t \in TabIds, NEW p,
         p \in layout[s], p \in layout[t]
  PROVE  s = t
  BY DEF DaemonInv, MuxInv, PlacedOnce

\* A focus the daemon is told of last is the client's: then it shows that
\* pane's tab, and its focus in that tab, unless it was a split.
LEMMA FocusTold ==
  ASSUME NEW q, Serving(q), Outcome(q), Ages,
         q.op \in {"SplitPane", "FocusPane"}, ~ Telling'
  PROVE  /\ \A t \in TabIds : focused \in layout'[t] => ActiveTabId' = t
         /\ Heeded' \/ WasSplit(q)
<1>1. q.id = focused /\ UNCHANGED focused
  BY ServingFacts, ServingLasts DEF Telling
<1>2. /\ DaemonInv /\ focused < nextPaneId
      /\ layout \in [TabIds -> SUBSET PaneIds]
      /\ focusedPane \in [TabIds -> PaneIds \cup {NoPane}]
  BY DEF Serving, MirrorInv, DaemonInv, MuxInv, MuxTypeOK, Heard
<1>3. CASE Refused(q)
  <2>1. focused \notin Live /\ UNCHANGED layout
    BY <1>1, <1>3 DEF Refused, Refuse, daemonVars, muxVars, treeVars
  <2>2. \A t \in TabIds : focused \notin layout'[t]
    BY <2>1, LiveMeans
  <2> QED  BY <1>1, <2>2 DEF Heeded
<1>4. ASSUME NEW t \in TabIds, focused \in layout[t], ActiveTabId' = t
      PROVE  \A s \in TabIds : focused \in layout'[s] => s = t
  <2>1. \A s \in TabIds : focused \in layout'[s] => focused \in layout[s]
    BY <1>2 DEF Ages
  <2> QED  BY <1>2, <1>4, <2>1, OneTab
<1>5. CASE FocusMoved(q)
  <2>1. PICK t \in TabIds : Focuses(focused, t)
    BY <1>1, <1>5 DEF FocusMoved
  <2>2. \A s \in TabIds : focused \in layout'[s] => s = t
    BY <1>4, <2>1 DEF Focuses
  <2>3. Heeded'
    BY <1>1, <1>2, <2>1, <2>2 DEF Heeded, Focuses
  <2> QED  BY <2>1, <2>2, <2>3 DEF Focuses
<1>6. CASE WasSplit(q)
  <2>1. PICK t \in TabIds : Splits(focused, t)
    BY <1>1, <1>6 DEF WasSplit
  <2>2. \A s \in TabIds : focused \in layout'[s] => s = t
    BY <1>4, <2>1 DEF Splits
  <2> QED  BY <1>6, <2>1, <2>2 DEF Splits
<1> QED  BY <1>3, <1>5, <1>6 DEF Outcome, Listed, Fetched, Resized, TabMade,
            TabGone, PaneGone

\* Other outcomes leave a focus that was heeded so.
LEMMA HeededStays ==
  ASSUME NEW q, Serving(q), Outcome(q), Ages,
         q.op \notin {"SplitPane", "FocusPane"}, Heeded
  PROVE  Heeded'
<1>1. UNCHANGED focused
  BY ServingFacts
<1>2. /\ DaemonInv /\ focused < nextPaneId /\ focused \in PaneIds
      /\ layout \in [TabIds -> SUBSET PaneIds]
      /\ focusedPane \in [TabIds -> PaneIds \cup {NoPane}]
  BY DEF Serving, MirrorInv, DaemonInv, MuxInv, MuxTypeOK, Heard, SyncTypeOK
<1>3. \A t \in TabIds : focused \in layout'[t] => focused \in layout[t]
  BY <1>2 DEF Ages
<1>4. CASE Refused(q) \/ Listed(q) \/ Fetched(q) \/ Resized(q)
  <2>1. UNCHANGED <<layout, focusedPane>>
    BY <1>4 DEF Refused, Refuse, Listed, Fetched, Resized, ServeResize,
       daemonVars, muxVars, treeVars
  <2> QED  BY <1>1, <2>1 DEF Heeded
<1>5. CASE TabMade(q)
  <2>1. PICK t \in TabIds : Opens(t)
    BY <1>5 DEF TabMade
  <2>2. focused \notin layout[t]
    BY <2>1 DEF Opens
  <2> QED  BY <1>1, <1>2, <1>3, <2>1, <2>2 DEF Opens, Heeded
<1>6. ASSUME NEW t \in TabIds, NEW gone, Closes(gone, t)
      PROVE  Heeded'
  <2> SUFFICES ASSUME NEW s \in TabIds, focused \in layout'[s]
               PROVE  focusedPane'[s] = focused
    BY <1>1 DEF Heeded
  <2>1. focusedPane[s] = focused
    BY <1>3 DEF Heeded
  <2> QED  BY <1>6, <2>1 DEF Closes
<1>7. CASE TabGone(q) \/ PaneGone(q)
  BY <1>6, <1>7 DEF TabGone, PaneGone
<1>8. CASE FocusMoved(q)
  <2>1. PICK t \in TabIds : Focuses(focusedPane[t], t)
    BY <1>8 DEF FocusMoved
  <2> QED  BY <1>1, <1>2, <2>1 DEF Focuses, Heeded
<1> QED  BY <1>4, <1>5, <1>7, <1>8 DEF Outcome, WasSplit

LEMMA ServeFocusRight ==
  ASSUME NEW q, Serving(q), Outcome(q), Ages
  PROVE  FocusRight'
<1>1. /\ FocusRight /\ ListRight /\ DaemonInv /\ Heard
      /\ layout \in [TabIds -> SUBSET PaneIds]
  BY DEF Serving, MirrorInv, DaemonInv, MuxInv, MuxTypeOK
<1>2. /\ \A ops : Has(toDaemon, ops) <=> q.op \in ops \/ Has(toDaemon', ops)
      /\ UNCHANGED <<focused, tree, knownActive, pendingFocus, missed>>
  BY ServingFacts
<1>3. LastOf(toDaemon', {"SplitPane", "FocusPane"}, ToldNow').id = focused'
  BY <1>2, ServingLasts
<1>4. /\ \A ops : Has(toClient, ops) => Has(toClient', ops)
      /\ ~ Listed(q) => NewestList' = NewestList
  BY ServingClient
<1>5. q.op \notin {"SplitPane", "FocusPane"} => (Telling' <=> Telling)
  BY <1>2 DEF Telling
<1>6. \/ Relisting' \/ Telling' \/ ActiveTabId' = NewestList'.active
      \/ focused' \notin layout'[NewestList'.active]
  <2>1. CASE TabMade(q) \/ TabGone(q) \/ PaneGone(q)
    BY <2>1, Announced DEF Relisting
  <2>2. CASE Listed(q)
    <3>1. Reply(TabsReply) /\ toClient \in Seq(Events) /\ TabsReply \in Events
      BY <1>1, <2>2, TabsReplyIs, ServingFacts DEF Listed
    <3>2. NewestList' = TabsReply
      <4>1. PICK x \in Events : x = TabsReply
        BY <3>1
      <4>2. x.op \in {"TabList"}
        BY <1>1, <4>1, TabsReplyIs
      <4>3. LastOf(toClient', {"TabList"}, Adopted') = x
        BY <3>1, <4>1, <4>2, ReplyFacts
      <4> QED  BY <4>1, <4>3 DEF NewestList
    <3>3. ActiveTabId' = ActiveTabId
      BY <2>2 DEF Listed, daemonVars, muxVars, orderVars, ActiveTabId, TabAt
    <3>4. TabsReply.active = ActiveTabId
      BY <1>1, TabsReplyIs
    <3> QED  BY <3>2, <3>3, <3>4
  <2>3. CASE q.op = "SwitchTab" /\ FocusMoved(q)
    BY <2>3, ServingLasts DEF Relisting
  <2>4. ASSUME ~ Listed(q), ~ Relisting'
        PROVE  NewestList'.active \in TabIds \/ Relisting
    BY <1>1, <1>4, <2>4 DEF ListRight
  <2>5. CASE q.op \in {"SplitPane", "FocusPane"}
    <3>1. ~ Listed(q)
      BY <2>5 DEF Listed
    <3>2. Relisting => Relisting'
      <4>1. Has(toDaemon, {"ListTabs"}) <=> Has(toDaemon', {"ListTabs"})
        BY <1>2, <2>5
      <4> QED  BY <1>4, <4>1 DEF Relisting
    <3> QED  BY <1>2, <2>4, <2>5, <3>1, <3>2, FocusTold
  <2>6. CASE /\ Refused(q) \/ Fetched(q) \/ Resized(q)
             /\ q.op \notin {"SplitPane", "FocusPane"}
    <3>1. UNCHANGED <<layout, ActiveTabId>>
      BY <2>6 DEF Refused, Refuse, Fetched, Resized, ServeResize, daemonVars,
         muxVars, orderVars, treeVars, ActiveTabId, TabAt
    <3>2. q.op # "ListTabs" /\ ~ Listed(q)
      BY <2>6 DEF Refused, Fetched, Resized, Listed
    <3>3. Relisting => Relisting'
      <4>1. Has(toDaemon, {"ListTabs"}) <=> Has(toDaemon', {"ListTabs"})
        BY <1>2, <3>2
      <4> QED  BY <1>4, <4>1 DEF Relisting
    <3> QED  BY <1>1, <1>2, <1>4, <1>5, <2>6, <3>1, <3>2, <3>3 DEF FocusRight
  <2> QED  BY <2>1, <2>2, <2>3, <2>5, <2>6 DEF Outcome, WasSplit, FocusMoved
<1>7. ShownLives' =>
        \/ Telling' \/ Heeded' \/ Has(toClient', {"SplitCreated"})
        \/ pendingFocus' # NoPane /\ (Fetching' \/ Adopting')
        \/ missed'
  <2> SUFFICES ASSUME ShownLives', ~ Telling'
               PROVE  \/ Heeded' \/ Has(toClient', {"SplitCreated"})
                      \/ pendingFocus' # NoPane /\ (Fetching' \/ Adopting')
                      \/ missed'
    OBVIOUS
  <2>1. CASE q.op \in {"SplitPane", "FocusPane"}
    BY <2>1, FocusTold, Announced
  <2>2. CASE q.op \notin {"SplitPane", "FocusPane"}
    <3>1. /\ ~ Telling /\ ShownLives
      BY <1>5, <2>2, ShownStays
    <3>2. \/ Heeded \/ Has(toClient, {"SplitCreated"})
          \/ pendingFocus # NoPane /\ (Fetching \/ Adopting)
          \/ missed
      BY <1>1, <3>1 DEF FocusRight, Heeded
    <3>3. Fetching \/ Adopting => Fetching' \/ Adopting'
      BY LayoutComes
    <3> QED  BY <1>2, <1>4, <2>2, <3>2, <3>3, HeededStays
  <2> QED  BY <2>1, <2>2
<1>8. tree' = {} \/ focused' \in tree'
  BY <1>1, <1>2 DEF FocusRight
<1> QED  BY <1>3, <1>6, <1>7, <1>8 DEF FocusRight, Heeded

LEMMA ServeSizesRight ==
  ASSUME NEW q, Serving(q), Outcome(q), Ages, DaemonInv'
  PROVE  SizesRight'
<1>1. SizesRight /\ Heard /\ SyncTypeOK /\ DaemonInv
      /\ layout \in [TabIds -> SUBSET PaneIds]
  BY DEF Serving, MirrorInv, DaemonInv, MuxInv, MuxTypeOK
<1>2. /\ UNCHANGED <<views, tree, known, sentDims, redrawn>>
      /\ ToSet(toDaemon) = {q} \cup ToSet(toDaemon')
  BY ServingFacts
<1>3. \A p \in Live' : p < nextPaneId => p \in Live
  BY AgesLive
<1>4. \A p \in tree' \cap Live' :
        /\ p \in views' /\ sentDims'[p] # Unsent
        /\ redrawn' = "first" => sentDims'[p] = Geometry(tree', known')
  BY <1>1, <1>2, <1>3 DEF SizesRight, Heard
<1>5. \A p \in running : p \in Live' => p \in running'
  <2>1. CASE Refused(q) \/ Listed(q) \/ Fetched(q)
    BY <2>1 DEF Refused, Refuse, Listed, Fetched, daemonVars
  <2>2. CASE Resized(q)
    BY <2>2 DEF Resized, ServeResize
  <2>3. CASE WasSplit(q) \/ TabMade(q) \/ FocusMoved(q)
    BY <2>3 DEF WasSplit, TabMade, FocusMoved, Splits, Opens, Focuses
  <2>4. ASSUME NEW t \in TabIds, NEW gone, Closes(gone, t)
        PROVE  \A p \in running : p \in Live' => p \in running'
    <3> SUFFICES ASSUME NEW p \in gone, p \in Live' PROVE FALSE
      BY <2>4 DEF Closes
    <3>1. PICK s \in TabIds : p \in layout'[s]
      BY LiveMeans
    <3>2. p \in layout[s] /\ p \in layout[t] /\ s # t
      BY <1>1, <2>4, <3>1 DEF Closes
    <3> QED  BY <1>1, <3>2, OneTab
  <2>5. CASE TabGone(q) \/ PaneGone(q)
    BY <2>4, <2>5 DEF TabGone, PaneGone
  <2> QED  BY <2>1, <2>2, <2>3, <2>5 DEF Outcome
<1>6. q.op = "Resize" => \A p \in q.panes : p \in Live' => p \in running'
  <2>1. q.op = "Resize" => Resized(q)
    BY DEF Outcome, Refused, Listed, Fetched, WasSplit, TabMade, TabGone,
       PaneGone, FocusMoved
  <2>2. Resized(q) => running' = running \cup (q.panes \cap Live)
                      /\ UNCHANGED layout
    BY DEF Resized, ServeResize, muxVars, treeVars
  <2>3. UNCHANGED layout => Live' = Live
    BY DEF Live
  <2> QED  BY <2>1, <2>2, <2>3
<1>7. \A p \in Live' :
        sentDims'[p] # Unsent =>
          \/ p \in running'
          \/ \E r \in ToSet(toDaemon') : r.op = "Resize" /\ p \in r.panes
  <2> SUFFICES ASSUME NEW p \in Live', sentDims[p] # Unsent
               PROVE  \/ p \in running'
                      \/ \E r \in ToSet(toDaemon') : r.op = "Resize" /\ p \in r.panes
    BY <1>2
  <2>1. p \in Live
    <3>1. p \in PaneIds
      BY LiveMeans DEF DaemonInv, MuxInv, MuxTypeOK
    <3> QED  BY <1>1, <1>3, <3>1 DEF Heard
  <2>2. \/ p \in running
        \/ \E r \in ToSet(toDaemon) : r.op = "Resize" /\ p \in r.panes
    BY <1>1, <2>1 DEF SizesRight
  <2> QED  BY <1>2, <1>5, <1>6, <2>2
<1> QED  BY <1>4, <1>7 DEF SizesRight

LEMMA ServeClosesRight ==
  ASSUME NEW q, Serving(q), Outcome(q), Ages
  PROVE  ClosesRight'
<1>1. /\ ClosesRight /\ Heard
      /\ q \in Asks /\ toClient \in Seq(Events)
      /\ ToSet(toDaemon) = {q} \cup ToSet(toDaemon')
      /\ UNCHANGED <<closing, closes>>
  BY ServingFacts DEF Serving, MirrorInv
<1>2. \A c \in closing : c.pane \notin Live => c.pane \notin Live'
  BY <1>1, AgesLive DEF Heard
<1>3. \A r \in ToSet(toDaemon') :
        /\ r.op # "Resize" => r.n <= closes'
        /\ r.op = "ClosePane" => \A c \in closing' : c.n = r.n => c.pane = r.id
  BY <1>1 DEF ClosesRight
<1>4. /\ q.op # "Resize" => q.n <= closes /\ q.n \in Nat
      /\ q.op = "ClosePane" => \A c \in closing : c.n = q.n => c.pane = q.id
  BY <1>1, AskParts, GuiBoundsAssumption DEF ClosesRight
<1>5. ASSUME NEW x \in Events, Reply(x),
             x.op = "Failed" => x.n <= closes,
             x.op = "PaneClosed" =>
               x.n <= closes /\ \A c \in closing : c.n = x.n => c.pane \notin Live'
      PROVE  \A e \in ToSet(toClient') :
               /\ e.op \in {"PaneClosed", "Failed"} => e.n <= closes'
               /\ e.op = "PaneClosed" =>
                    \A c \in closing' : c.n = e.n => c.pane \notin Live'
  <2>1. ToSet(toClient') = ToSet(toClient) \cup {x}
    BY <1>1, <1>5, ReplyFacts
  <2> QED  BY <1>1, <1>2, <1>5, <2>1 DEF ClosesRight
<1>6. UNCHANGED toClient =>
        \A e \in ToSet(toClient') :
          /\ e.op \in {"PaneClosed", "Failed"} => e.n <= closes'
          /\ e.op = "PaneClosed" =>
               \A c \in closing' : c.n = e.n => c.pane \notin Live'
  BY <1>1, <1>2 DEF ClosesRight
<1>7. \A e \in ToSet(toClient') :
        /\ e.op \in {"PaneClosed", "Failed"} => e.n <= closes'
        /\ e.op = "PaneClosed" =>
             \A c \in closing' : c.n = e.n => c.pane \notin Live'
  <2>1. CASE UNCHANGED toClient
    BY <1>6, <2>1
  <2>2. ASSUME NEW x \in Events, Reply(x), Refused(q), x.op = "Failed", x.n = q.n
        PROVE  x.n <= closes
    BY <1>4, <2>2 DEF Refused
  <2>3. ASSUME NEW x \in Events, PaneGone(q), x.op = "PaneClosed", x.n = q.n
        PROVE  x.n <= closes /\ \A c \in closing : c.n = x.n => c.pane \notin Live'
    BY <1>4, <2>3 DEF PaneGone
  <2>4. TabsReply.op = "TabList"
    BY TabsReplyIs DEF Serving, MirrorInv
  <2> QED  BY <1>5, <2>1, <2>2, <2>3, <2>4, OutcomeReply
<1>8. q.op = "ClosePane" =>
        \E e \in ToSet(toClient') :
          e.op \in {"PaneClosed", "Failed"} /\ e.n = q.n
  <2> SUFFICES ASSUME q.op = "ClosePane"
               PROVE  \E e \in ToSet(toClient') :
                        e.op \in {"PaneClosed", "Failed"} /\ e.n = q.n
    OBVIOUS
  <2>1. Refused(q) \/ PaneGone(q)
    BY DEF Outcome, Listed, Fetched, Resized, WasSplit, TabMade, TabGone,
       FocusMoved
  <2>2. \E x \in Events : Reply(x) /\ x.op \in {"PaneClosed", "Failed"} /\ x.n = q.n
    BY <2>1, OutcomeReply DEF Listed, Fetched, Resized, WasSplit, TabMade,
       TabGone, FocusMoved
  <2> QED  BY <1>1, <2>2, ReplyFacts
<1>9. \A c \in closing' :
        \/ \E r \in ToSet(toDaemon') : r.op = "ClosePane" /\ r.n = c.n
        \/ \E e \in ToSet(toClient') :
             e.op \in {"PaneClosed", "Failed"} /\ e.n >= c.n
  <2> SUFFICES ASSUME NEW c \in closing
               PROVE  \/ \E r \in ToSet(toDaemon') : r.op = "ClosePane" /\ r.n = c.n
                      \/ \E e \in ToSet(toClient') :
                           e.op \in {"PaneClosed", "Failed"} /\ e.n >= c.n
    BY <1>1
  <2>1. CASE \E e \in ToSet(toClient) :
               e.op \in {"PaneClosed", "Failed"} /\ e.n >= c.n
    BY <2>1, ServingClient
  <2>2. CASE \E r \in ToSet(toDaemon) : r.op = "ClosePane" /\ r.n = c.n
    <3>1. CASE q.op = "ClosePane" /\ q.n = c.n
      <4>1. q.n \in Nat
        BY <1>4, <3>1
      <4> QED  BY <1>8, <3>1, <4>1
    <3>2. CASE ~ (q.op = "ClosePane" /\ q.n = c.n)
      BY <1>1, <2>2, <3>2
    <3> QED  BY <3>1, <3>2
  <2> QED  BY <1>1, <2>1, <2>2 DEF ClosesRight
<1> QED  BY <1>3, <1>7, <1>9 DEF ClosesRight

\* A request the daemon serves keeps the invariant.
LEMMA ServeKeeps ==
  ASSUME MirrorInv, Serve
  PROVE  MirrorInv'
<1>1. PICK q : Serving(q) /\ Outcome(q) /\ DaemonInv' /\ Ages
  BY ServeOutcome
<1>2. SyncTypeOK'
  BY <1>1, ServeTypes
<1>3. Heard'
  BY <1>1, ServeHeard
<1>4. ListRight'
  BY <1>1, ServeListRight
<1>5. TreeRight'
  BY <1>1, ServeTreeRight
<1>6. FocusRight'
  BY <1>1, ServeFocusRight
<1>7. SizesRight'
  BY <1>1, ServeSizesRight
<1>8. ClosesRight'
  BY <1>1, ServeClosesRight
<1> QED  BY <1>1, <1>2, <1>3, <1>4, <1>5, <1>6, <1>7, <1>8 DEF MirrorInv

-----------------------------------------------------------------------------
\* The client sends requests, and the daemon stands still.

ClientSends(r) == MirrorInv /\ r \in Seq(Asks) /\ Send(r) /\ UNCHANGED daemonVars

\* What the client may ask for, and what its requests say.
LEMMA RequestTypes ==
  ASSUME SyncTypeOK
  PROVE  /\ \A p \in PaneIds : /\ Req("SplitPane", p) \in Asks
                               /\ Req("FocusPane", p) \in Asks
         /\ \A t \in TabIds : /\ Req("CloseTab", t) \in Asks
                              /\ Req("SwitchTab", t) \in Asks
         /\ \A t \in TabIds \cup {NoTab} : GetLayout(t) \in Asks
         /\ Req("NewTab", 0) \in Asks /\ ListTabs \in Asks
         /\ \A panes \in SUBSET PaneIds : ResizeAll(panes) \in Asks
<1>1. closes \in 0 .. MaxActions /\ 0 \in TabIds
  BY BoundsAssumption, GuiBoundsAssumption DEF SyncTypeOK, TabIds
<1>2. \A p \in PaneIds :
        /\ Req("SplitPane", p) \in [op : {"SplitPane", "ClosePane", "FocusPane"},
                                    id : PaneIds, n : 0 .. MaxActions]
        /\ Req("FocusPane", p) \in [op : {"SplitPane", "ClosePane", "FocusPane"},
                                    id : PaneIds, n : 0 .. MaxActions]
  BY <1>1 DEF Req
<1>3. \A t \in TabIds :
        /\ Req("CloseTab", t) \in [op : {"CloseTab", "SwitchTab", "GetLayoutTree"},
                                   id : TabIds, n : 0 .. MaxActions]
        /\ Req("SwitchTab", t) \in [op : {"CloseTab", "SwitchTab", "GetLayoutTree"},
                                    id : TabIds, n : 0 .. MaxActions]
        /\ Req("GetLayoutTree", t)
             \in [op : {"CloseTab", "SwitchTab", "GetLayoutTree"},
                  id : TabIds, n : 0 .. MaxActions]
  BY <1>1 DEF Req
<1>4. /\ Req("NewTab", 0) \in [op : {"NewTab", "ListTabs"}, id : {0},
                               n : 0 .. MaxActions]
      /\ ListTabs \in [op : {"NewTab", "ListTabs"}, id : {0}, n : 0 .. MaxActions]
  BY <1>1 DEF Req, ListTabs
<1>5. \A panes \in SUBSET PaneIds :
        ResizeAll(panes) \in [op : {"Resize"}, panes : SUBSET PaneIds]
  BY DEF ResizeAll
<1>6. \A t \in TabIds \cup {NoTab} : GetLayout(t) \in Asks
  BY <1>1, <1>3 DEF GetLayout, Asks
<1> QED  BY <1>2, <1>3, <1>4, <1>5, <1>6 DEF Asks

LEMMA RequestParts ==
  /\ \A op, id : /\ Req(op, id).op = op /\ Req(op, id).id = id
                 /\ Req(op, id).n = closes
  /\ \A t : /\ GetLayout(t).op = "GetLayoutTree" /\ GetLayout(t).id = Asked(t)
            /\ GetLayout(t).n = closes
  /\ ListTabs.op = "ListTabs" /\ ListTabs.n = closes
  /\ \A panes : ResizeAll(panes).op = "Resize" /\ ResizeAll(panes).panes = panes
  BY DEF Req, GetLayout, Asked, ListTabs, ResizeAll

LEMMA ClientSendsFacts ==
  ASSUME NEW r, ClientSends(r)
  PROVE  /\ toDaemon' \in Seq(Asks)
         /\ ToSet(toDaemon') = ToSet(toDaemon) \cup ToSet(r)
         /\ \A ops : Has(toDaemon', ops) <=> Has(toDaemon, ops) \/ Has(r, ops)
         /\ \A ops, d :
              LastOf(toDaemon', ops, d) = LastOf(r, ops, LastOf(toDaemon, ops, d))
         /\ DaemonInv'
         /\ UNCHANGED <<tabs, layout, focusedPane, running, nextPaneId,
                        nextTabId, Live, ActiveTabId>>
<1>1. /\ toDaemon' \in Seq(Asks)
      /\ ToSet(toDaemon') = ToSet(toDaemon) \cup ToSet(r)
      /\ \A ops : Has(toDaemon', ops) <=> Has(toDaemon, ops) \/ Has(r, ops)
      /\ \A ops, d :
           LastOf(toDaemon', ops, d) = LastOf(r, ops, LastOf(toDaemon, ops, d))
  BY SendFacts DEF ClientSends, MirrorInv, SyncTypeOK
<1>2. DaemonInv'
  BY DaemonRests DEF ClientSends, MirrorInv
<1>3. UNCHANGED <<tabs, layout, focusedPane, running, nextPaneId, nextTabId,
                  workspaces, activeWorkspace, activeTab>>
  BY DEF ClientSends, daemonVars, muxVars, orderVars, treeVars, idVars
<1>4. UNCHANGED <<Live, ActiveTabId>>
  BY <1>3 DEF Live, ActiveTabId, TabAt
<1> QED  BY <1>1, <1>2, <1>3, <1>4

\* No request, or one.
LEMMA SendsNone ==
  /\ \A ops, d : LastOf(<<>>, ops, d) = d /\ ~ Has(<<>>, ops)
  /\ ToSet(<<>>) = {} /\ <<>> \in Seq(Asks)
  BY LastShort, ToSetShort DEF Has

LEMMA SendsOne ==
  ASSUME NEW x \in Asks
  PROVE  /\ \A ops, d : LastOf(<<x>>, ops, d) = IF x.op \in ops THEN x ELSE d
         /\ \A ops : Has(<<x>>, ops) <=> x.op \in ops
         /\ ToSet(<<x>>) = {x} /\ <<x>> \in Seq(Asks)
  BY LastShort, ToSetShort, OneIsSeq DEF Has

\* The client waits for a layout to focus a pane of.
FocusWaits == pendingFocus # NoPane /\ (Fetching \/ Adopting)

\* The parts of the invariant that such a step does not disturb.
LEMMA ListStays ==
  ASSUME NEW r, ClientSends(r), UNCHANGED <<known, knownActive>>,
         \A d : d.op = "ListTabs" =>
           LastOf(r, {"SwitchTab", "ListTabs"}, d).op = "ListTabs",
         NewestList' = NewestList,
         \A e \in ToSet(toClient') : e.op = "TabList" => e \in ToSet(toClient),
         Relisting => Relisting',
         refocus' => Has(toDaemon', {"ListTabs"}) \/ Has(toClient', {"TabList"})
  PROVE  ListRight'
<1>1. ListRight
  BY DEF ClientSends, MirrorInv
<1>2. ListedNow' = ListedNow
  BY DEF ListedNow
<1>3. LastOf(toDaemon', {"SwitchTab", "ListTabs"}, ListedNow').op = "ListTabs"
  <2>1. LastOf(toDaemon, {"SwitchTab", "ListTabs"}, ListedNow).op = "ListTabs"
    BY <1>1 DEF ListRight
  <2> QED  BY <1>2, <2>1, ClientSendsFacts
<1>4. UNCHANGED <<tabs, layout>>
  BY ClientSendsFacts
<1> QED  BY <1>1, <1>3, <1>4 DEF ListRight

LEMMA TreeStays ==
  ASSUME NEW r, ClientSends(r), UNCHANGED <<knownActive, tree, published>>,
         \A d : d.id = Asked(knownActive) =>
           LastOf(r, {"GetLayoutTree"}, d).id = Asked(knownActive),
         NewestTree' = NewestTree, Adopting => Adopting',
         Has(toClient, {"SplitCreated", "PaneClosed"}) \/ refocus =>
           Fetching' \/ Has(toClient', {"SplitCreated", "PaneClosed"}) \/ refocus'
  PROVE  TreeRight'
<1>1. TreeRight
  BY DEF ClientSends, MirrorInv
<1>2. AskedNow' = AskedNow
  BY DEF AskedNow, Asked
<1>3. LastOf(toDaemon', {"GetLayoutTree"}, AskedNow').id = Asked(knownActive')
  <2>1. LastOf(toDaemon, {"GetLayoutTree"}, AskedNow).id = Asked(knownActive)
    BY <1>1 DEF TreeRight
  <2> QED  BY <1>2, <2>1, ClientSendsFacts
<1>4. UNCHANGED <<layout, Live>> /\ (Fetching => Fetching')
  BY ClientSendsFacts DEF Fetching
<1>5. UNCHANGED ShownLives
  BY <1>4 DEF ShownLives
<1>6. ShownLives' =>
        \/ Fetching' \/ NewestTree' = layout'[knownActive']
        \/ Has(toClient', {"SplitCreated", "PaneClosed"}) \/ refocus'
  BY <1>1, <1>4, <1>5 DEF TreeRight
<1>7. ShownLives' => Fetching' \/ Adopting' \/ published'.tab = knownActive'
  BY <1>1, <1>4, <1>5 DEF TreeRight
<1> QED  BY <1>1, <1>3, <1>4, <1>6, <1>7 DEF TreeRight

LEMMA FocusStays ==
  ASSUME NEW r, ClientSends(r), UNCHANGED <<knownActive, tree, focused, missed>>,
         \A d : d.id = focused =>
           LastOf(r, {"SplitPane", "FocusPane"}, d).id = focused,
         NewestList' = NewestList, Relisting => Relisting',
         Has(toClient, {"SplitCreated"}) \/ FocusWaits =>
           Has(toClient', {"SplitCreated"}) \/ FocusWaits'
  PROVE  FocusRight'
<1>1. FocusRight
  BY DEF ClientSends, MirrorInv
<1>2. ToldNow' = ToldNow
  BY DEF ToldNow
<1>3. LastOf(toDaemon', {"SplitPane", "FocusPane"}, ToldNow').id = focused'
  <2>1. LastOf(toDaemon, {"SplitPane", "FocusPane"}, ToldNow).id = focused
    BY <1>1 DEF FocusRight
  <2> QED  BY <1>2, <2>1, ClientSendsFacts
<1>4. UNCHANGED <<layout, focusedPane, ActiveTabId>> /\ (Telling => Telling')
  BY ClientSendsFacts DEF Telling
<1>5. UNCHANGED ShownLives
  BY <1>4 DEF ShownLives
<1>6. \/ Relisting' \/ Telling' \/ ActiveTabId' = NewestList'.active
      \/ focused' \notin layout'[NewestList'.active]
  BY <1>1, <1>4 DEF FocusRight
<1>7. ShownLives' =>
        \/ Telling' \/ Heeded' \/ Has(toClient', {"SplitCreated"})
        \/ pendingFocus' # NoPane /\ (Fetching' \/ Adopting')
        \/ missed'
  BY <1>1, <1>4, <1>5 DEF FocusRight, Heeded, FocusWaits
<1> QED  BY <1>1, <1>3, <1>6, <1>7 DEF FocusRight, Heeded

LEMMA SizesStay ==
  ASSUME NEW r, ClientSends(r), UNCHANGED <<views, tree, known, sentDims, redrawn>>
  PROVE  SizesRight'
<1>1. SizesRight
  BY DEF ClientSends, MirrorInv
<1>2. /\ UNCHANGED <<Live, running>>
      /\ \A q \in ToSet(toDaemon) : q \in ToSet(toDaemon')
  BY ClientSendsFacts
<1>3. \A p \in tree' \cap Live' :
        /\ p \in views' /\ sentDims'[p] # Unsent
        /\ redrawn' = "first" => sentDims'[p] = Geometry(tree', known')
  BY <1>1, <1>2 DEF SizesRight
<1> QED  BY <1>1, <1>2, <1>3 DEF SizesRight

LEMMA ClosesStay ==
  ASSUME NEW r, ClientSends(r), UNCHANGED <<closing, closes>>,
         \A m \in ToSet(r) : /\ m.op # "Resize" => m.n <= closes
                             /\ m.op # "ClosePane",
         \A e : e.op \in {"PaneClosed", "Failed"} =>
           (e \in ToSet(toClient) <=> e \in ToSet(toClient'))
  PROVE  ClosesRight'
<1>1. ClosesRight
  BY DEF ClientSends, MirrorInv
<1>2. UNCHANGED Live /\ ToSet(toDaemon') = ToSet(toDaemon) \cup ToSet(r)
  BY ClientSendsFacts
<1>3. \A q \in ToSet(toDaemon') :
        /\ q.op # "Resize" => q.n <= closes'
        /\ q.op = "ClosePane" => \A c \in closing' : c.n = q.n => c.pane = q.id
  BY <1>1, <1>2 DEF ClosesRight
<1>4. \A e \in ToSet(toClient') :
        /\ e.op \in {"PaneClosed", "Failed"} => e.n <= closes'
        /\ e.op = "PaneClosed" =>
             \A c \in closing' : c.n = e.n => c.pane \notin Live'
  BY <1>1, <1>2 DEF ClosesRight
<1>5. \A c \in closing' :
        \/ \E q \in ToSet(toDaemon') : q.op = "ClosePane" /\ q.n = c.n
        \/ \E e \in ToSet(toClient') :
             e.op \in {"PaneClosed", "Failed"} /\ e.n >= c.n
  BY <1>1, <1>2 DEF ClosesRight
<1> QED  BY <1>3, <1>4, <1>5 DEF ClosesRight

\* The client's queue, as it was.
LEMMA QueueStays ==
  ASSUME UNCHANGED <<toClient, known, knownActive, tree>>
  PROVE  UNCHANGED <<NewestList, NewestTree, Adopting>>
  BY DEF NewestList, NewestTree, Adopted, AdoptedTree, Adopting

LEMMA ActsFacts ==
  ASSUME SyncTypeOK, Acts
  PROVE  /\ actions' \in 0 .. MaxActions /\ closes \in Nat /\ closes + 1 <= actions'
         /\ closes \in 0 .. actions' /\ closes + 1 \in 0 .. actions'
         /\ closing \in SUBSET [n : 0 .. closes + 1, pane : PaneIds]
         /\ closes + 1 \in 0 .. MaxActions
<1>1. /\ MaxActions \in Nat /\ actions \in 0 .. MaxActions /\ closes \in 0 .. actions
      /\ actions < MaxActions /\ actions' = actions + 1
      /\ closing \in SUBSET [n : 0 .. closes, pane : PaneIds]
  BY GuiBoundsAssumption DEF SyncTypeOK, Acts
<1>2. /\ actions' \in 0 .. MaxActions /\ closes \in Nat /\ closes + 1 <= actions'
      /\ closes \in 0 .. actions' /\ closes + 1 \in 0 .. actions'
      /\ closes + 1 \in 0 .. MaxActions
  BY <1>1
<1>3. \A k \in 0 .. closes : k \in 0 .. closes + 1
  BY <1>2
<1>4. closing \in SUBSET [n : 0 .. closes + 1, pane : PaneIds]
  BY <1>1, <1>3
<1> QED  BY <1>2, <1>4

\* The user's requests that change nothing at the client.
LEMMA OnlySends ==
  ASSUME NEW r, ClientSends(r), Acts, UNCHANGED toClient,
         UNCHANGED <<mirrorVars, viewVars, closeVars>>,
         \A d : d.op = "ListTabs" =>
           LastOf(r, {"SwitchTab", "ListTabs"}, d).op = "ListTabs",
         \A d : d.id = Asked(knownActive) =>
           LastOf(r, {"GetLayoutTree"}, d).id = Asked(knownActive),
         \A d : d.id = focused =>
           LastOf(r, {"SplitPane", "FocusPane"}, d).id = focused,
         \A m \in ToSet(r) : /\ m.op # "Resize" => m.n <= closes
                             /\ m.op # "ClosePane"
  PROVE  MirrorInv'
<1>1. /\ UNCHANGED <<views, focused, tree, pendingFocus, missed, known,
                     knownActive, refocus, closing, closes, sentDims, redrawn,
                     published, toClient>>
      /\ MirrorInv /\ SyncTypeOK
  BY DEF mirrorVars, viewVars, closeVars, ClientSends, MirrorInv
<1>2. /\ UNCHANGED <<NewestList, NewestTree, Adopting>>
      /\ UNCHANGED <<nextPaneId, nextTabId, running>> /\ DaemonInv'
      /\ toDaemon' \in Seq(Asks)
      /\ \A ops : Has(toDaemon, ops) => Has(toDaemon', ops)
  BY <1>1, QueueStays, ClientSendsFacts
<1>3. /\ Relisting => Relisting'
      /\ Has(toClient, {"SplitCreated"}) \/ FocusWaits =>
           Has(toClient', {"SplitCreated"}) \/ FocusWaits'
  BY <1>1, <1>2 DEF Relisting, FocusWaits, Fetching
<1>4. SyncTypeOK'
  BY <1>1, <1>2, ActsFacts DEF SyncTypeOK
<1>5. Heard'
  BY <1>1, <1>2 DEF MirrorInv, Heard
<1>6. ListRight'
  BY <1>1, <1>2, <1>3, ListStays DEF MirrorInv, ListRight
<1>7. TreeRight'
  BY <1>1, <1>2, TreeStays
<1>8. FocusRight'
  BY <1>1, <1>2, <1>3, FocusStays
<1>9. SizesRight'
  BY <1>1, SizesStay
<1>10. ClosesRight'
  BY <1>1, ClosesStay
<1> QED  BY <1>2, <1>4, <1>5, <1>6, <1>7, <1>8, <1>9, <1>10 DEF MirrorInv

LEMMA PressesThatSend ==
  ASSUME MirrorInv, Acts, UNCHANGED <<toClient, daemonVars>>,
         PressSplit \/ PressNewTab \/ PressCloseTab
  PROVE  MirrorInv'
<1>1. /\ SyncTypeOK /\ focused \in PaneIds /\ closes \in Nat
      /\ knownActive \in TabIds \cup {NoTab} /\ 0 \in TabIds
  BY BoundsAssumption DEF MirrorInv, SyncTypeOK, TabIds
<1>2. ASSUME NEW x \in Asks, Send(<<x>>),
             UNCHANGED <<mirrorVars, viewVars, closeVars>>,
             x.op \in {"SplitPane", "NewTab", "CloseTab"}, x.n = closes,
             x.op = "SplitPane" => x.id = focused
      PROVE  MirrorInv'
  <2>1. /\ \A ops, d : LastOf(<<x>>, ops, d) = IF x.op \in ops THEN x ELSE d
        /\ ToSet(<<x>>) = {x} /\ <<x>> \in Seq(Asks)
    BY SendsOne
  <2>2. PICK r \in Seq(Asks) : r = <<x>>
    BY <2>1
  <2>3. ClientSends(r)
    BY <1>2, <2>2 DEF ClientSends
  <2>4. /\ \A ops, d : LastOf(r, ops, d) = IF x.op \in ops THEN x ELSE d
        /\ \A m \in ToSet(r) : m.n <= closes /\ m.op # "ClosePane"
    BY <1>1, <1>2, <2>1, <2>2
  <2>5. /\ \A d : LastOf(r, {"SwitchTab", "ListTabs"}, d) = d
        /\ \A d : LastOf(r, {"GetLayoutTree"}, d) = d
        /\ \A d : d.id = focused => LastOf(r, {"SplitPane", "FocusPane"}, d).id = focused
    BY <1>2, <2>4
  <2> QED  BY <1>2, <2>3, <2>4, <2>5, OnlySends
<1>3. CASE PressSplit
  BY <1>1, <1>2, <1>3, RequestTypes, RequestParts DEF PressSplit
<1>4. CASE PressNewTab
  BY <1>1, <1>2, <1>4, RequestTypes, RequestParts DEF PressNewTab
<1>5. CASE PressCloseTab
  <2>1. PICK t \in TabIds : Send(<<Req("CloseTab", t)>>)
    BY <1>1, <1>5 DEF PressCloseTab
  <2> QED  BY <1>1, <1>2, <1>5, <2>1, RequestTypes, RequestParts DEF PressCloseTab
<1> QED  BY <1>3, <1>4, <1>5

LEMMA TwoIsSeq ==
  ASSUME NEW S, NEW x \in S, NEW y \in S
  PROVE  <<x>> \o <<y>> = <<x, y>> /\ <<x, y>> \in Seq(S)
<1>1. <<x, y>> \in Seq(S)
  OBVIOUS
<1>2. PICK q \in Seq(S) : q = <<x, y>> /\ Len(q) = 2 /\ q[1] = x /\ q[2] = y
  BY <1>1
<1>3. PICK a \in Seq(S), b \in Seq(S) :
        /\ a = <<x>> /\ Len(a) = 1 /\ a[1] = x
        /\ b = <<y>> /\ Len(b) = 1 /\ b[1] = y
  <2>1. /\ <<x>> \in Seq(S) /\ Len(<<x>>) = 1 /\ <<x>>[1] = x
        /\ <<y>> \in Seq(S) /\ Len(<<y>>) = 1 /\ <<y>>[1] = y
    BY OneIsSeq
  <2> QED  BY <2>1
<1>4. PICK r \in Seq(S) : r = a \o b
  BY ConcatProperties
<1>5. Len(r) = 2 /\ r[1] = x /\ r[2] = y
  <2>1. /\ Len(r) = 1 + 1
        /\ \A i \in 1 .. 1 + 1 : r[i] = IF i <= 1 THEN a[i] ELSE b[i - 1]
    BY <1>3, <1>4, ConcatProperties
  <2>2. r[1] = a[1] /\ r[2] = b[1]
    BY <2>1
  <2> QED  BY <1>3, <2>1, <2>2
<1>6. r = q
  BY <1>2, <1>5, SeqEqual
<1> QED  BY <1>1, <1>2, <1>3, <1>4, <1>6

LEMMA PressSwitchKeeps ==
  ASSUME MirrorInv, Acts, UNCHANGED <<toClient, daemonVars>>,
         NEW t \in TabIds, PressSwitch(t)
  PROVE  MirrorInv'
<1>1. SyncTypeOK /\ closes \in Nat
  BY DEF MirrorInv, SyncTypeOK
<1>2. PICK x \in Asks, y \in Asks :
        /\ x = Req("SwitchTab", t) /\ y = ListTabs
        /\ x.op = "SwitchTab" /\ x.n = closes
        /\ y.op = "ListTabs" /\ y.n = closes
  BY <1>1, RequestTypes, RequestParts
<1>3. PICK a \in Seq(Asks), b \in Seq(Asks), r \in Seq(Asks) :
        a = <<x>> /\ b = <<y>> /\ r = <<x, y>> /\ a \o b = r
  <2>1. PICK a \in Seq(Asks), b \in Seq(Asks) : a = <<x>> /\ b = <<y>>
    BY OneIsSeq
  <2>2. <<x>> \o <<y>> = <<x, y>> /\ <<x, y>> \in Seq(Asks)
    BY TwoIsSeq
  <2> QED  BY <2>1, <2>2
<1>4. a \o b = r
  BY <1>3
<1>5. /\ \A ops, d : LastOf(r, ops, d) = LastOf(b, ops, LastOf(a, ops, d))
      /\ ToSet(r) = ToSet(a) \cup ToSet(b)
  <2>1. /\ \A ops, d : LastOf(a \o b, ops, d) = LastOf(b, ops, LastOf(a, ops, d))
        /\ ToSet(a \o b) = ToSet(a) \cup ToSet(b)
    BY LastConcat, ToSetConcat
  <2> QED  BY <1>4, <2>1
<1>6. /\ \A ops, d : LastOf(a, ops, d) = IF x.op \in ops THEN x ELSE d
      /\ \A ops, d : LastOf(b, ops, d) = IF y.op \in ops THEN y ELSE d
      /\ ToSet(a) = {x} /\ ToSet(b) = {y}
  BY <1>3, SendsOne
<1>7. ClientSends(r) /\ UNCHANGED <<mirrorVars, viewVars, closeVars>>
  BY <1>2, <1>3 DEF PressSwitch, ClientSends
<1>8. /\ \A d : LastOf(r, {"SwitchTab", "ListTabs"}, d) = y
      /\ \A d : LastOf(r, {"GetLayoutTree"}, d) = d
      /\ \A d : LastOf(r, {"SplitPane", "FocusPane"}, d) = d
  BY <1>2, <1>5, <1>6
<1>9. \A m \in ToSet(r) : m.n <= closes /\ m.op # "ClosePane"
  BY <1>1, <1>2, <1>5, <1>6
<1> QED  BY <1>2, <1>7, <1>8, <1>9, OnlySends

LEMMA PressClosePaneKeeps ==
  ASSUME MirrorInv, Acts, UNCHANGED <<toClient, daemonVars>>, PressClosePane
  PROVE  MirrorInv'
<1>1. /\ SyncTypeOK /\ Heard /\ ListRight /\ ClosesRight
      /\ focused \in PaneIds /\ focused < nextPaneId
      /\ closing \in SUBSET [n : 0 .. closes, pane : PaneIds]
  BY DEF MirrorInv, SyncTypeOK, Heard
<1>2. /\ actions' \in 0 .. MaxActions /\ closes \in Nat
      /\ closes + 1 \in 0 .. actions' /\ closes + 1 \in 0 .. MaxActions
      /\ closing \in SUBSET [n : 0 .. closes + 1, pane : PaneIds]
  BY <1>1, ActsFacts
<1>3. PICK x \in Asks : /\ x = [op |-> "ClosePane", id |-> focused, n |-> closes + 1]
                        /\ x.op = "ClosePane" /\ x.id = focused /\ x.n = closes + 1
  <2>1. [op |-> "ClosePane", id |-> focused, n |-> closes + 1]
          \in [op : {"SplitPane", "ClosePane", "FocusPane"}, id : PaneIds,
               n : 0 .. MaxActions]
    BY <1>1, <1>2
  <2>2. [op |-> "ClosePane", id |-> focused, n |-> closes + 1] \in Asks
    BY <2>1 DEF Asks
  <2> QED  BY <2>2
<1>4. PICK r \in Seq(Asks) : r = <<x>>
  BY SendsOne
<1>5. /\ \A ops, d : LastOf(r, ops, d) = IF x.op \in ops THEN x ELSE d
      /\ ToSet(r) = {x}
  BY <1>4, SendsOne
<1>6. ClientSends(r)
  BY <1>3, <1>4 DEF PressClosePane, ClientSends
<1>7. /\ UNCHANGED <<views, focused, tree, pendingFocus, missed, known,
                     knownActive, refocus, sentDims, redrawn, published, toClient>>
      /\ closes' = closes + 1
      /\ closing' = closing \cup {[n |-> closes + 1, pane |-> focused]}
  BY DEF PressClosePane, mirrorVars, viewVars
<1>8. /\ UNCHANGED <<NewestList, NewestTree, Adopting>>
      /\ UNCHANGED <<nextPaneId, nextTabId, running, Live>> /\ DaemonInv'
      /\ toDaemon' \in Seq(Asks)
      /\ ToSet(toDaemon') = ToSet(toDaemon) \cup {x}
      /\ \A ops : Has(toDaemon, ops) => Has(toDaemon', ops)
  BY <1>5, <1>6, <1>7, QueueStays, ClientSendsFacts
<1>9. /\ Relisting => Relisting'
      /\ Has(toClient, {"SplitCreated"}) \/ FocusWaits =>
           Has(toClient', {"SplitCreated"}) \/ FocusWaits'
  BY <1>7, <1>8 DEF Relisting, FocusWaits, Fetching
<1>10. SyncTypeOK'
  <2>1. closing' \in SUBSET [n : 0 .. closes', pane : PaneIds]
    <3>1. closes + 1 \in 0 .. closes + 1
      BY <1>2
    <3> QED  BY <1>1, <1>2, <1>7, <3>1
  <2>2. toClient \in Seq(Events) /\ toClient' = toClient
    BY <1>1, <1>7 DEF SyncTypeOK
  <2> QED  BY <1>1, <1>2, <1>7, <1>8, <2>1, <2>2 DEF SyncTypeOK
<1>11. Heard'
  BY <1>1, <1>7, <1>8 DEF Heard
<1>12. ListRight'
  <2>1. \A d : LastOf(r, {"SwitchTab", "ListTabs"}, d) = d
    BY <1>3, <1>5
  <2> QED  BY <1>1, <1>6, <1>7, <1>8, <1>9, <2>1, ListStays DEF ListRight
<1>13. TreeRight'
  <2>1. \A d : LastOf(r, {"GetLayoutTree"}, d) = d
    BY <1>3, <1>5
  <2> QED  BY <1>6, <1>7, <1>8, <2>1, TreeStays
<1>14. FocusRight'
  <2>1. \A d : LastOf(r, {"SplitPane", "FocusPane"}, d) = d
    BY <1>3, <1>5
  <2> QED  BY <1>6, <1>7, <1>8, <1>9, <2>1, FocusStays
<1>15. SizesRight'
  BY <1>6, <1>7, SizesStay
<1>16. ClosesRight'
  <2>1. \A c \in closing : c.n \in Nat /\ c.n <= closes
    BY <1>1, <1>2
  <2>2. \A q \in ToSet(toDaemon) : q.op # "Resize" => q.n \in Nat /\ q.n <= closes
    <3> SUFFICES ASSUME NEW q \in ToSet(toDaemon), q.op # "Resize"
                 PROVE  q.n \in Nat /\ q.n <= closes
      OBVIOUS
    <3>1. q \in Asks
      BY <1>1 DEF SyncTypeOK, ToSet
    <3>2. q.n \in 0 .. MaxActions
      BY <3>1, AskParts
    <3> QED  BY <1>1, <3>2, GuiBoundsAssumption DEF ClosesRight
  <2>3. \A e \in ToSet(toClient) :
          e.op \in {"PaneClosed", "Failed"} => e.n \in Nat /\ e.n <= closes
    <3> SUFFICES ASSUME NEW e \in ToSet(toClient), e.op \in {"PaneClosed", "Failed"}
                 PROVE  e.n \in Nat /\ e.n <= closes
      OBVIOUS
    <3>1. e \in Events
      BY <1>1 DEF SyncTypeOK, ToSet
    <3>2. e.n \in 0 .. MaxActions
      BY <3>1, EventParts
    <3> QED  BY <1>1, <3>2, GuiBoundsAssumption DEF ClosesRight
  <2>4. \A k \in Nat : k <= closes => k <= closes + 1 /\ k # closes + 1
    BY <1>2
  <2>5. \A q \in ToSet(toDaemon') :
          /\ q.op # "Resize" => q.n <= closes'
          /\ q.op = "ClosePane" => \A c \in closing' : c.n = q.n => c.pane = q.id
    <3>1. x.n <= closes'
      BY <1>2, <1>3, <1>7
    <3>2. \A q \in ToSet(toDaemon) :
            q.op = "ClosePane" => \A c \in closing' : c.n = q.n => c.pane = q.id
      BY <1>1, <1>7, <2>2, <2>4 DEF ClosesRight
    <3>3. \A c \in closing' : c.n = x.n => c.pane = x.id
      BY <1>3, <1>7, <2>1, <2>4
    <3> QED  BY <1>7, <1>8, <2>2, <2>4, <3>1, <3>2, <3>3
  <2>6. \A e \in ToSet(toClient') :
          /\ e.op \in {"PaneClosed", "Failed"} => e.n <= closes'
          /\ e.op = "PaneClosed" =>
               \A c \in closing' : c.n = e.n => c.pane \notin Live'
    BY <1>1, <1>7, <1>8, <2>3, <2>4 DEF ClosesRight
  <2>7. \A c \in closing' :
          \/ \E q \in ToSet(toDaemon') : q.op = "ClosePane" /\ q.n = c.n
          \/ \E e \in ToSet(toClient') :
               e.op \in {"PaneClosed", "Failed"} /\ e.n >= c.n
    BY <1>1, <1>3, <1>7, <1>8 DEF ClosesRight
  <2> QED  BY <2>5, <2>6, <2>7 DEF ClosesRight
<1> QED  BY <1>8, <1>10, <1>11, <1>12, <1>13, <1>14, <1>15, <1>16 DEF MirrorInv

LEMMA PressFocusKeeps ==
  ASSUME MirrorInv, Acts, UNCHANGED <<toClient, daemonVars>>,
         NEW p \in PaneIds, PressFocus(p)
  PROVE  MirrorInv'
<1>1. SyncTypeOK /\ Heard /\ ListRight /\ p \in tree /\ closes \in Nat
  BY DEF MirrorInv, SyncTypeOK, PressFocus
<1>2. PICK x \in Asks : /\ x = Req("FocusPane", p)
                        /\ x.op = "FocusPane" /\ x.id = p /\ x.n = closes
  BY <1>1, RequestTypes, RequestParts
<1>3. PICK r \in Seq(Asks) : r = <<x>>
  BY SendsOne
<1>4. /\ \A ops, d : LastOf(r, ops, d) = IF x.op \in ops THEN x ELSE d
      /\ \A ops : Has(r, ops) <=> x.op \in ops
      /\ ToSet(r) = {x}
  BY <1>3, SendsOne
<1>5. ClientSends(r)
  BY <1>2, <1>3 DEF PressFocus, ClientSends
<1>6. /\ UNCHANGED <<views, tree, pendingFocus, known, knownActive, refocus,
                     sentDims, redrawn, published, closing, closes, toClient>>
      /\ focused' = p /\ missed' = FALSE
  BY DEF PressFocus, closeVars
<1>7. /\ UNCHANGED <<NewestList, NewestTree, Adopting>>
      /\ UNCHANGED <<nextPaneId, nextTabId, running>> /\ DaemonInv'
      /\ toDaemon' \in Seq(Asks) /\ Telling'
      /\ \A ops : Has(toDaemon, ops) => Has(toDaemon', ops)
      /\ \A ops, d : LastOf(toDaemon', ops, d) =
           IF x.op \in ops THEN x ELSE LastOf(toDaemon, ops, d)
  BY <1>2, <1>4, <1>5, <1>6, QueueStays, ClientSendsFacts DEF Telling
<1>8. Relisting => Relisting'
  BY <1>6, <1>7 DEF Relisting
<1>9. SyncTypeOK'
  <2>1. /\ actions' \in 0 .. MaxActions /\ closes \in 0 .. actions'
        /\ toClient \in Seq(Events) /\ toClient' = toClient
    BY <1>1, <1>6, ActsFacts DEF SyncTypeOK
  <2> QED  BY <1>1, <1>6, <1>7, <2>1 DEF SyncTypeOK
<1>10. Heard'
  BY <1>1, <1>6, <1>7 DEF Heard
<1>11. ListRight'
  <2>1. \A d : LastOf(r, {"SwitchTab", "ListTabs"}, d) = d
    BY <1>2, <1>4
  <2> QED  BY <1>1, <1>5, <1>6, <1>7, <1>8, <2>1, ListStays DEF ListRight
<1>12. TreeRight'
  <2>1. \A d : LastOf(r, {"GetLayoutTree"}, d) = d
    BY <1>2, <1>4
  <2> QED  BY <1>5, <1>6, <1>7, <2>1, TreeStays
<1>13. FocusRight'
  <2>1. LastOf(toDaemon', {"SplitPane", "FocusPane"}, ToldNow').id = focused'
    BY <1>2, <1>6, <1>7
  <2> QED  BY <1>1, <1>6, <1>7, <2>1 DEF FocusRight
<1>14. SizesRight'
  BY <1>5, <1>6, SizesStay
<1>15. ClosesRight'
  BY <1>1, <1>2, <1>4, <1>5, <1>6, ClosesStay
<1> QED  BY <1>7, <1>9, <1>10, <1>11, <1>12, <1>13, <1>14, <1>15 DEF MirrorInv

\* What the user does keeps the invariant.
LEMMA UserKeeps ==
  ASSUME MirrorInv, User
  PROVE  MirrorInv'
<1>1. Acts /\ UNCHANGED <<toClient, daemonVars>>
  BY DEF User
<1>2. CASE PressSplit \/ PressNewTab \/ PressCloseTab
  BY <1>1, <1>2, PressesThatSend
<1>3. CASE PressClosePane
  BY <1>1, <1>3, PressClosePaneKeeps
<1>4. ASSUME NEW p \in PaneIds, PressFocus(p)
      PROVE  MirrorInv'
  BY <1>1, <1>4, PressFocusKeeps
<1>5. ASSUME NEW t \in TabIds, PressSwitch(t)
      PROVE  MirrorInv'
  BY <1>1, <1>5, PressSwitchKeeps
<1> QED  BY <1>2, <1>3, <1>4, <1>5 DEF User

LEMMA GeometryFacts ==
  /\ \A panes, strip : panes # {} => Geometry(panes, strip) # Unsent
  /\ \A panes \in SUBSET PaneIds : \A strip :
       Geometry(panes, strip) \in [panes : SUBSET PaneIds, bar : BOOLEAN]
<1>1. \A panes, strip : Geometry(panes, strip).panes = panes
  BY DEF Geometry
<1>2. Unsent.panes = {}
  BY DEF Unsent
<1>3. \A panes \in SUBSET PaneIds : \A strip :
        Geometry(panes, strip) \in [panes : SUBSET PaneIds, bar : BOOLEAN]
  BY DEF Geometry
<1> QED  BY <1>1, <1>2, <1>3

\* Nothing is sent.
LEMMA NothingSent ==
  ASSUME MirrorInv, UNCHANGED <<toDaemon, daemonVars>>
  PROVE  ClientSends(<<>>)
<1>1. toDaemon \in Seq(Asks)
  BY DEF MirrorInv, SyncTypeOK
<1>2. toDaemon \o <<>> = toDaemon
  BY <1>1, ConcatEmptySeq
<1> QED  BY <1>2, SendsNone DEF ClientSends, Send

LEMMA TitleSetKeeps ==
  ASSUME MirrorInv, TitleSet
  PROVE  MirrorInv'
<1>1. SyncTypeOK /\ Heard /\ ListRight
  BY DEF MirrorInv
<1>2. /\ UNCHANGED <<views, focused, tree, pendingFocus, missed, known,
                     knownActive, refocus, sentDims, redrawn, published,
                     closing, closes, toDaemon, daemonVars>>
      /\ Acts
  BY DEF TitleSet, mirrorVars, viewVars, closeVars
<1>3. ClientSends(<<>>)
  BY <1>2, NothingSent
<1>4. PICK x \in Events : x.op = "TitleChanged" /\ Reply(x)
  BY EventTypes DEF TitleSet, Reply
<1>5. /\ toClient' \in Seq(Events)
      /\ ToSet(toClient') = ToSet(toClient) \cup {x}
      /\ \A ops : Has(toClient', ops) <=> Has(toClient, ops) \/ x.op \in ops
      /\ \A ops, d : LastOf(toClient', ops, d) =
           IF x.op \in ops THEN x ELSE LastOf(toClient, ops, d)
  BY <1>1, <1>4, ReplyFacts DEF SyncTypeOK
<1>6. UNCHANGED <<Adopted, AdoptedTree>>
  BY <1>2 DEF Adopted, AdoptedTree
<1>7. UNCHANGED <<NewestList, NewestTree>> /\ (Adopting => Adopting')
  <2>1. /\ \A d : LastOf(toClient', {"TabList"}, d) = LastOf(toClient, {"TabList"}, d)
        /\ \A d : LastOf(toClient', {"LayoutTree"}, d) =
                   LastOf(toClient, {"LayoutTree"}, d)
    BY <1>4, <1>5
  <2>2. NewestList' = NewestList /\ NewestTree' = NewestTree
    BY <1>6, <2>1 DEF NewestList, NewestTree
  <2> QED  BY <1>5, <2>2 DEF Adopting
<1>8. UNCHANGED <<nextPaneId, nextTabId, running>> /\ DaemonInv'
  BY <1>3, ClientSendsFacts
<1>9. /\ Relisting => Relisting'
      /\ Has(toClient, {"SplitCreated"}) \/ FocusWaits =>
           Has(toClient', {"SplitCreated"}) \/ FocusWaits'
  BY <1>2, <1>5, <1>7 DEF Relisting, FocusWaits, Fetching
<1>10. \A e \in ToSet(toClient') :
         e.op # "TitleChanged" => e \in ToSet(toClient)
  BY <1>4, <1>5
<1>11. SyncTypeOK'
  <2>1. actions' \in 0 .. MaxActions /\ closes \in 0 .. actions'
    BY <1>1, <1>2, ActsFacts
  <2> QED  BY <1>1, <1>2, <1>5, <1>8, <2>1 DEF SyncTypeOK
<1>12. Heard'
  BY <1>1, <1>2, <1>8, <1>10 DEF Heard
<1>13. ListRight'
  BY <1>1, <1>2, <1>3, <1>5, <1>7, <1>9, <1>10, SendsNone, ListStays DEF ListRight
<1>14. TreeRight'
  BY <1>2, <1>3, <1>5, <1>7, SendsNone, TreeStays
<1>15. FocusRight'
  BY <1>2, <1>3, <1>7, <1>9, SendsNone, FocusStays
<1>16. SizesRight'
  BY <1>2, <1>3, SizesStay
<1>17. ClosesRight'
  BY <1>2, <1>3, <1>4, <1>5, SendsNone, ClosesStay
<1> QED  BY <1>8, <1>11, <1>12, <1>13, <1>14, <1>15, <1>16, <1>17 DEF MirrorInv

LEMMA FirstRedrawKeeps ==
  ASSUME MirrorInv, FirstRedraw
  PROVE  MirrorInv'
<1>1. /\ SyncTypeOK /\ Heard /\ ListRight /\ SizesRight
      /\ focused \in PaneIds /\ focused < nextPaneId
      /\ sentDims \in [PaneIds -> [panes : SUBSET PaneIds, bar : BOOLEAN]]
  BY DEF MirrorInv, SyncTypeOK, Heard
<1>2. /\ UNCHANGED <<views, focused, tree, pendingFocus, missed, known,
                     knownActive, refocus, published, closing, closes, actions,
                     toClient, daemonVars>>
      /\ redrawn' = IF tree = {} THEN "first" ELSE "late"
      /\ sentDims' = [sentDims EXCEPT ![focused] = Geometry({focused}, known)]
      /\ focused \in views
  BY DEF FirstRedraw, mirrorVars, closeVars
<1>3. PICK x \in Asks : /\ x = ResizeAll({focused})
                        /\ x.op = "Resize" /\ x.panes = {focused}
  BY <1>1, RequestTypes, RequestParts
<1>4. PICK r \in Seq(Asks) : r = <<x>>
  BY SendsOne
<1>5. /\ \A ops, d : LastOf(r, ops, d) = IF x.op \in ops THEN x ELSE d
      /\ ToSet(r) = {x}
  BY <1>4, SendsOne
<1>6. ClientSends(r)
  BY <1>2, <1>3, <1>4 DEF FirstRedraw, ClientSends
<1>7. /\ UNCHANGED <<NewestList, NewestTree, Adopting>>
      /\ UNCHANGED <<nextPaneId, nextTabId, running, Live>> /\ DaemonInv'
      /\ toDaemon' \in Seq(Asks)
      /\ ToSet(toDaemon') = ToSet(toDaemon) \cup {x}
      /\ \A ops : Has(toDaemon, ops) => Has(toDaemon', ops)
  BY <1>2, <1>5, <1>6, QueueStays, ClientSendsFacts
<1>8. /\ Relisting => Relisting'
      /\ Has(toClient, {"SplitCreated"}) \/ FocusWaits =>
           Has(toClient', {"SplitCreated"}) \/ FocusWaits'
  BY <1>2, <1>7 DEF Relisting, FocusWaits, Fetching
<1>9. /\ sentDims'[focused] # Unsent
      /\ \A p \in PaneIds : p # focused => sentDims'[p] = sentDims[p]
      /\ sentDims' \in [PaneIds -> [panes : SUBSET PaneIds, bar : BOOLEAN]]
  <2>1. /\ Geometry({focused}, known) # Unsent
        /\ Geometry({focused}, known) \in [panes : SUBSET PaneIds, bar : BOOLEAN]
    BY <1>1, GeometryFacts
  <2> QED  BY <1>1, <1>2, <2>1
<1>10. SyncTypeOK'
  BY <1>1, <1>2, <1>7, <1>9 DEF SyncTypeOK
<1>11. Heard'
  BY <1>1, <1>2, <1>7, <1>9 DEF Heard
<1>12. ListRight'
  <2>1. \A d : LastOf(r, {"SwitchTab", "ListTabs"}, d) = d
    BY <1>3, <1>5
  <2> QED  BY <1>1, <1>2, <1>6, <1>7, <1>8, <2>1, ListStays DEF ListRight
<1>13. TreeRight'
  <2>1. \A d : LastOf(r, {"GetLayoutTree"}, d) = d
    BY <1>3, <1>5
  <2> QED  BY <1>2, <1>6, <1>7, <2>1, TreeStays
<1>14. FocusRight'
  <2>1. \A d : LastOf(r, {"SplitPane", "FocusPane"}, d) = d
    BY <1>3, <1>5
  <2> QED  BY <1>2, <1>6, <1>7, <1>8, <2>1, FocusStays
<1>15. SizesRight'
  <2>1. \A p \in Live : p \in PaneIds
    BY LiveMeans DEF MirrorInv, DaemonInv, MuxInv, MuxTypeOK
  <2>2. \A p \in tree' \cap Live' :
          /\ p \in views' /\ sentDims'[p] # Unsent
          /\ redrawn' = "first" => sentDims'[p] = Geometry(tree', known')
    BY <1>1, <1>2, <1>7, <1>9, <2>1 DEF SizesRight
  <2>3. \A p \in Live' :
          sentDims'[p] # Unsent =>
            \/ p \in running'
            \/ \E q \in ToSet(toDaemon') : q.op = "Resize" /\ p \in q.panes
    <3> SUFFICES ASSUME NEW p \in Live, sentDims'[p] # Unsent
                 PROVE  \/ p \in running
                        \/ \E q \in ToSet(toDaemon') : q.op = "Resize" /\ p \in q.panes
      BY <1>7
    <3>1. CASE p = focused
      BY <1>3, <1>7, <3>1
    <3>2. CASE p # focused
      <4>1. sentDims[p] # Unsent
        BY <1>9, <2>1, <3>2
      <4> QED  BY <1>1, <1>7, <4>1 DEF SizesRight
    <3> QED  BY <3>1, <3>2
  <2> QED  BY <2>2, <2>3 DEF SizesRight
<1>16. ClosesRight'
  BY <1>2, <1>3, <1>5, <1>6, ClosesStay
<1> QED  BY <1>7, <1>10, <1>11, <1>12, <1>13, <1>14, <1>15, <1>16 DEF MirrorInv

-----------------------------------------------------------------------------
\* The client handles an event, and sends requests.

Handling(e, r) ==
    /\ ClientSends(r) /\ UNCHANGED actions
    /\ toClient # <<>> /\ e = Head(toClient) /\ toClient' = Tail(toClient)

LEMMA HandlingFacts ==
  ASSUME NEW e, NEW r, Handling(e, r)
  PROVE  /\ e \in Events /\ e \in ToSet(toClient) /\ toClient' \in Seq(Events)
         /\ ToSet(toClient) = {e} \cup ToSet(toClient')
         /\ \A ops : Has(toClient, ops) <=> e.op \in ops \/ Has(toClient', ops)
         /\ \A ops, d : LastOf(toClient, ops, d) =
              LastOf(toClient', ops, IF e.op \in ops THEN e ELSE d)
         /\ e.op # "TabList" /\ UNCHANGED Adopted => NewestList' = NewestList
         /\ e.op # "LayoutTree" /\ UNCHANGED AdoptedTree => NewestTree' = NewestTree
<1>1. toClient \in Seq(Events)
  BY DEF Handling, ClientSends, MirrorInv, SyncTypeOK
<1>2. /\ e \in Events /\ toClient' \in Seq(Events)
      /\ ToSet(toClient) = {e} \cup ToSet(toClient')
      /\ \A ops : Has(toClient, ops) <=> e.op \in ops \/ Has(toClient', ops)
      /\ \A ops, d : LastOf(toClient, ops, d) =
           LastOf(toClient', ops, IF e.op \in ops THEN e ELSE d)
  BY <1>1, HandleFacts DEF Handling
<1>3. ASSUME e.op # "TabList", UNCHANGED Adopted
      PROVE  NewestList' = NewestList
  <2>1. LastOf(toClient, {"TabList"}, Adopted) = LastOf(toClient', {"TabList"}, Adopted)
    BY <1>2, <1>3
  <2> QED  BY <1>3, <2>1 DEF NewestList
<1>4. ASSUME e.op # "LayoutTree", UNCHANGED AdoptedTree
      PROVE  NewestTree' = NewestTree
  <2>1. LastOf(toClient, {"LayoutTree"}, AdoptedTree) =
          LastOf(toClient', {"LayoutTree"}, AdoptedTree)
    BY <1>2, <1>4
  <2> QED  BY <1>4, <2>1 DEF NewestTree
<1> QED  BY <1>2, <1>3, <1>4

\* Closes that are answered are forgotten.
LEMMA ClosesShrink ==
  ASSUME NEW e, NEW r, Handling(e, r), UNCHANGED closes, closing' \subseteq closing,
         \A m \in ToSet(r) : /\ m.op # "Resize" => m.n <= closes
                             /\ m.op # "ClosePane",
         e.op \in {"PaneClosed", "Failed"} => \A c \in closing' : ~ (e.n >= c.n)
  PROVE  ClosesRight'
<1>1. ClosesRight
  BY DEF Handling, ClientSends, MirrorInv
<1>2. UNCHANGED Live /\ ToSet(toDaemon') = ToSet(toDaemon) \cup ToSet(r)
  BY ClientSendsFacts DEF Handling
<1>3. ToSet(toClient) = {e} \cup ToSet(toClient')
  BY HandlingFacts
<1>4. \A q \in ToSet(toDaemon') :
        /\ q.op # "Resize" => q.n <= closes'
        /\ q.op = "ClosePane" => \A c \in closing' : c.n = q.n => c.pane = q.id
  BY <1>1, <1>2 DEF ClosesRight
<1>5. \A f \in ToSet(toClient') :
        /\ f.op \in {"PaneClosed", "Failed"} => f.n <= closes'
        /\ f.op = "PaneClosed" =>
             \A c \in closing' : c.n = f.n => c.pane \notin Live'
  BY <1>1, <1>2, <1>3 DEF ClosesRight
<1>6. \A c \in closing' :
        \/ \E q \in ToSet(toDaemon') : q.op = "ClosePane" /\ q.n = c.n
        \/ \E f \in ToSet(toClient') :
             f.op \in {"PaneClosed", "Failed"} /\ f.n >= c.n
  BY <1>1, <1>2, <1>3 DEF ClosesRight
<1> QED  BY <1>4, <1>5, <1>6 DEF ClosesRight

\* Events after which the client asks for one thing at most, and changes its
\* pending focus at most.
LEMMA HandlesOne ==
  ASSUME NEW e, NEW r, Handling(e, r),
         e.op \in {"SplitCreated", "TabCreated", "TabClosed", "TitleChanged"},
         UNCHANGED <<views, focused, tree, missed, known, knownActive, refocus,
                     sentDims, redrawn, published, closing, closes>>,
         pendingFocus' \in PaneIds \/ UNCHANGED pendingFocus,
         e.op = "SplitCreated" =>
           pendingFocus' \in PaneIds /\ Has(r, {"GetLayoutTree"}),
         e.op \in {"TabCreated", "TabClosed"} => Has(r, {"ListTabs"}),
         \A m \in ToSet(r) : /\ m.op \in {"ListTabs", "GetLayoutTree"}
                             /\ m.n <= closes,
         \A d : d.op = "ListTabs" =>
           LastOf(r, {"SwitchTab", "ListTabs"}, d).op = "ListTabs",
         \A d : d.id = Asked(knownActive) =>
           LastOf(r, {"GetLayoutTree"}, d).id = Asked(knownActive),
         \A d : LastOf(r, {"SplitPane", "FocusPane"}, d) = d
  PROVE  MirrorInv'
<1>1. /\ SyncTypeOK /\ Heard /\ ListRight /\ ClientSends(r) /\ UNCHANGED actions
  BY DEF Handling, ClientSends, MirrorInv
<1>2. UNCHANGED <<Adopted, AdoptedTree>>
  BY DEF Adopted, AdoptedTree
<1>3. /\ UNCHANGED <<nextPaneId, nextTabId, running>> /\ DaemonInv'
      /\ toDaemon' \in Seq(Asks)
      /\ \A ops : Has(toDaemon', ops) <=> Has(toDaemon, ops) \/ Has(r, ops)
  BY <1>1, ClientSendsFacts
<1>4. /\ toClient' \in Seq(Events)
      /\ ToSet(toClient) = {e} \cup ToSet(toClient')
      /\ \A ops : Has(toClient, ops) <=> e.op \in ops \/ Has(toClient', ops)
      /\ NewestList' = NewestList /\ NewestTree' = NewestTree
  BY <1>2, HandlingFacts
<1>5. /\ Relisting => Relisting'
      /\ Adopting => Adopting'
      /\ Fetching => Fetching'
      /\ e.op = "SplitCreated" => Fetching'
  BY <1>3, <1>4 DEF Relisting, Adopting, Fetching
<1>6. NoPane \notin PaneIds
  BY NoPaneAssumption
<1>7. Has(toClient, {"SplitCreated"}) \/ FocusWaits =>
        Has(toClient', {"SplitCreated"}) \/ FocusWaits'
  BY <1>4, <1>5, <1>6 DEF FocusWaits
<1>8. SyncTypeOK'
  BY <1>1, <1>3, <1>4 DEF SyncTypeOK
<1>9. Heard'
  BY <1>1, <1>3, <1>4 DEF Heard
<1>10. ListRight'
  <2>1. refocus' => Has(toDaemon', {"ListTabs"}) \/ Has(toClient', {"TabList"})
    BY <1>1, <1>3, <1>4 DEF ListRight
  <2> QED  BY <1>1, <1>4, <1>5, <2>1, ListStays
<1>11. TreeRight'
  BY <1>1, <1>4, <1>5, TreeStays
<1>12. FocusRight'
  BY <1>1, <1>4, <1>5, <1>7, FocusStays
<1>13. SizesRight'
  BY <1>1, SizesStay
<1>14. ClosesRight'
  BY ClosesShrink
<1> QED  BY <1>3, <1>8, <1>9, <1>10, <1>11, <1>12, <1>13, <1>14 DEF MirrorInv

\* An event popped, the daemon at rest: what Handle says of each.
Popped(e) ==
    /\ MirrorInv /\ toClient # <<>> /\ e = Head(toClient)
    /\ toClient' = Tail(toClient) /\ UNCHANGED <<actions, daemonVars>>

LEMMA OneAsked ==
  ASSUME NEW e, Popped(e), NEW x \in Asks, Send(<<x>>),
         e.op \in {"SplitCreated", "TabCreated", "TabClosed", "TitleChanged"},
         UNCHANGED <<views, focused, tree, missed, known, knownActive, refocus,
                     sentDims, redrawn, published, closing, closes>>,
         pendingFocus' \in PaneIds \/ UNCHANGED pendingFocus,
         \/ e.op = "SplitCreated" /\ pendingFocus' \in PaneIds
            /\ x.op = "GetLayoutTree" /\ x.id = Asked(knownActive)
         \/ e.op # "SplitCreated" /\ x.op = "ListTabs",
         x.n = closes
  PROVE  MirrorInv'
<1>1. PICK r \in Seq(Asks) : r = <<x>>
  BY SendsOne
<1>2. /\ \A ops, d : LastOf(r, ops, d) = IF x.op \in ops THEN x ELSE d
      /\ \A ops : Has(r, ops) <=> x.op \in ops
      /\ ToSet(r) = {x}
  BY <1>1, SendsOne
<1>3. Handling(e, r)
  BY <1>1 DEF Popped, Handling, ClientSends
<1>4. closes \in Nat
  BY DEF Popped, MirrorInv, SyncTypeOK
<1>5. \A m \in ToSet(r) : m.op \in {"ListTabs", "GetLayoutTree"} /\ m.n <= closes
  BY <1>2, <1>4
<1>6. \A d : d.op = "ListTabs" =>
        LastOf(r, {"SwitchTab", "ListTabs"}, d).op = "ListTabs"
  BY <1>2
<1>7. \A d : d.id = Asked(knownActive) =>
        LastOf(r, {"GetLayoutTree"}, d).id = Asked(knownActive)
  BY <1>2
<1>8. \A d : LastOf(r, {"SplitPane", "FocusPane"}, d) = d
  BY <1>2
<1>9. /\ e.op = "SplitCreated" =>
           pendingFocus' \in PaneIds /\ Has(r, {"GetLayoutTree"})
      /\ e.op \in {"TabCreated", "TabClosed"} => Has(r, {"ListTabs"})
  BY <1>2
<1> QED  BY <1>3, <1>5, <1>6, <1>7, <1>8, <1>9, HandlesOne

LEMMA CreatedKeeps ==
  ASSUME NEW e, Popped(e),
         \/ e.op = "SplitCreated" /\ OnSplitCreated(e)
         \/ e.op = "TabCreated" /\ OnTabCreated(e)
  PROVE  MirrorInv'
<1>1. SyncTypeOK /\ knownActive \in TabIds \cup {NoTab} /\ e.pane \in PaneIds
  <2>1. e \in Events
    BY HandleFacts DEF Popped, MirrorInv, SyncTypeOK
  <2>2. e.pane \in PaneIds
    BY <2>1, EventParts
  <2> QED  BY <2>2 DEF Popped, MirrorInv, SyncTypeOK
<1>2. CASE e.op = "SplitCreated" /\ OnSplitCreated(e)
  <2>1. PICK x \in Asks : /\ x = GetLayout(knownActive)
                          /\ x.op = "GetLayoutTree" /\ x.id = Asked(knownActive)
                          /\ x.n = closes
    BY <1>1, RequestTypes, RequestParts
  <2>2. /\ UNCHANGED <<views, focused, tree, missed, known, knownActive, refocus,
                       sentDims, redrawn, published, closing, closes>>
        /\ pendingFocus' = e.pane /\ Send(<<x>>)
    BY <1>2, <2>1 DEF OnSplitCreated, viewVars, closeVars
  <2> QED  BY <1>1, <1>2, <2>1, <2>2, OneAsked
<1>3. CASE e.op = "TabCreated" /\ OnTabCreated(e)
  <2>1. PICK x \in Asks : x = ListTabs /\ x.op = "ListTabs" /\ x.n = closes
    BY <1>1, RequestTypes, RequestParts
  <2>2. /\ UNCHANGED <<views, focused, tree, missed, known, knownActive, refocus,
                       sentDims, redrawn, published, closing, closes>>
        /\ pendingFocus' = e.pane /\ Send(<<x>>)
    BY <1>3, <2>1 DEF OnTabCreated, viewVars, closeVars
  <2> QED  BY <1>1, <1>3, <2>1, <2>2, OneAsked
<1> QED  BY <1>2, <1>3

LEMMA RelistsKeep ==
  ASSUME NEW e, Popped(e),
         \/ e.op = "TabClosed" /\ OnTabClosed
         \/ e.op = "TitleChanged" /\ OnTitleChanged
  PROVE  MirrorInv'
<1>1. UNCHANGED <<views, focused, tree, pendingFocus, missed, known, knownActive,
                  refocus, sentDims, redrawn, published, closing, closes>>
  BY DEF OnTabClosed, OnTitleChanged, mirrorVars, viewVars, closeVars
<1>2. PICK x \in Asks : x = ListTabs /\ x.op = "ListTabs" /\ x.n = closes
  BY RequestTypes, RequestParts DEF Popped, MirrorInv
<1>3. Send(<<x>>) \/ (e.op = "TitleChanged" /\ Send(<<>>))
  BY <1>2 DEF OnTabClosed, OnTitleChanged
<1>4. CASE Send(<<x>>)
  BY <1>1, <1>2, <1>4, OneAsked
<1>5. CASE e.op = "TitleChanged" /\ Send(<<>>)
  <2>1. Handling(e, <<>>)
    BY <1>5, SendsNone DEF Popped, Handling, ClientSends
  <2> QED  BY <1>1, <1>5, <2>1, SendsNone, HandlesOne
<1> QED  BY <1>3, <1>4, <1>5

LEMMA FailedKeeps ==
  ASSUME NEW e, Popped(e), e.op = "Failed", OnFailed(e)
  PROVE  MirrorInv'
<1>1. /\ UNCHANGED <<views, focused, tree, pendingFocus, missed, known,
                     knownActive, refocus, sentDims, redrawn, published, closes,
                     toDaemon, actions, daemonVars>>
      /\ closing' = Unanswered(e.n)
  BY DEF Popped, OnFailed, mirrorVars, viewVars
<1>2. SyncTypeOK /\ Heard /\ ListRight /\ MirrorInv
  BY DEF Popped, MirrorInv
<1>3. Handling(e, <<>>) /\ ClientSends(<<>>)
  <2>1. ClientSends(<<>>)
    BY <1>1, <1>2, NothingSent
  <2> QED  BY <2>1 DEF Popped, Handling
<1>4. UNCHANGED <<Adopted, AdoptedTree>>
  BY <1>1 DEF Adopted, AdoptedTree
<1>5. /\ UNCHANGED <<nextPaneId, nextTabId, running>> /\ DaemonInv'
  BY <1>3, ClientSendsFacts
<1>6. /\ toClient' \in Seq(Events) /\ e \in Events
      /\ ToSet(toClient) = {e} \cup ToSet(toClient')
      /\ \A ops : Has(toClient, ops) <=> e.op \in ops \/ Has(toClient', ops)
      /\ NewestList' = NewestList /\ NewestTree' = NewestTree
  BY <1>3, <1>4, HandlingFacts
<1>7. /\ Relisting => Relisting'
      /\ Adopting => Adopting'
      /\ Has(toClient, {"SplitCreated"}) \/ FocusWaits =>
           Has(toClient', {"SplitCreated"}) \/ FocusWaits'
  BY <1>1, <1>6 DEF Relisting, Adopting, FocusWaits, Fetching
<1>8. closing' \subseteq closing /\ \A c \in closing' : c.n > e.n
  BY <1>1 DEF Unanswered
<1>9. SyncTypeOK'
  BY <1>1, <1>2, <1>5, <1>6, <1>8 DEF SyncTypeOK
<1>10. Heard'
  BY <1>1, <1>2, <1>5, <1>6, <1>8 DEF Heard
<1>11. ListRight'
  <2>1. refocus' => Has(toDaemon', {"ListTabs"}) \/ Has(toClient', {"TabList"})
    BY <1>1, <1>2, <1>6 DEF ListRight
  <2> QED  BY <1>1, <1>3, <1>6, <1>7, <2>1, SendsNone, ListStays
<1>12. TreeRight'
  BY <1>1, <1>3, <1>6, <1>7, SendsNone, TreeStays
<1>13. FocusRight'
  BY <1>1, <1>3, <1>6, <1>7, SendsNone, FocusStays
<1>14. SizesRight'
  BY <1>1, <1>3, SizesStay
<1>15. ClosesRight'
  <2>1. e.n \in Nat
    <3>1. e.n \in 0 .. MaxActions
      BY <1>6, EventParts
    <3> QED  BY <3>1, GuiBoundsAssumption
  <2>2. \A c \in closing' : c.n \in Nat
    BY <1>2, <1>8 DEF SyncTypeOK
  <2>3. \A c \in closing' : ~ (e.n >= c.n)
    BY <1>8, <2>1, <2>2
  <2> QED  BY <1>1, <1>3, <1>8, <2>3, SendsNone, ClosesShrink
<1> QED  BY <1>5, <1>9, <1>10, <1>11, <1>12, <1>13, <1>14, <1>15 DEF MirrorInv

\* The pane a close resolves to is gone.
LEMMA ResolvedAreGone ==
  ASSUME NEW e, Popped(e), e.op = "PaneClosed"
  PROVE  /\ e \in Events /\ e.n \in Nat
         /\ \A p \in ResolvePaneClose(e.n) : p \notin Live
<1>1. e \in Events /\ e \in ToSet(toClient)
  BY HandleFacts DEF Popped, MirrorInv, SyncTypeOK
<1>2. e.n \in 0 .. MaxActions
  BY <1>1, EventParts
<1>3. \A c \in closing : c.n = e.n => c.pane \notin Live
  BY <1>1 DEF Popped, MirrorInv, ClosesRight
<1> QED  BY <1>1, <1>2, <1>3, GuiBoundsAssumption DEF ResolvePaneClose

LEMMA PaneClosedKeeps ==
  ASSUME NEW e, Popped(e), e.op = "PaneClosed", OnPaneClosed(e)
  PROVE  MirrorInv'
<1>1. SyncTypeOK /\ Heard /\ ListRight /\ SizesRight /\ MirrorInv
  BY DEF Popped, MirrorInv
<1>2. PICK x \in Asks : x = ListTabs /\ x.op = "ListTabs" /\ x.n = closes
  BY <1>1, RequestTypes, RequestParts
<1>3. PICK r \in Seq(Asks) : r = <<x>>
  BY SendsOne
<1>4. /\ \A ops, d : LastOf(r, ops, d) = IF x.op \in ops THEN x ELSE d
      /\ \A ops : Has(r, ops) <=> x.op \in ops
      /\ ToSet(r) = {x}
  BY <1>3, SendsOne
<1>5. Handling(e, r) /\ ClientSends(r)
  BY <1>2, <1>3 DEF OnPaneClosed, Popped, Handling, ClientSends
<1>6. PICK gone : gone = ResolvePaneClose(e.n)
  OBVIOUS
<1>7. /\ e \in Events /\ e.n \in Nat
      /\ \A p \in gone : p \notin Live
  BY <1>6, ResolvedAreGone
<1>8. /\ UNCHANGED <<focused, tree, pendingFocus, missed, known, knownActive,
                     redrawn, published, closes, actions, daemonVars>>
      /\ views' = views \ gone
      /\ sentDims' = [p \in PaneIds |-> IF p \in gone THEN Unsent ELSE sentDims[p]]
      /\ closing' = Unanswered(e.n) /\ refocus' = TRUE
  BY <1>6 DEF Popped, OnPaneClosed
<1>9. UNCHANGED <<Adopted, AdoptedTree>>
  BY <1>8 DEF Adopted, AdoptedTree
<1>10. /\ UNCHANGED <<nextPaneId, nextTabId, running, Live>> /\ DaemonInv'
       /\ toDaemon' \in Seq(Asks)
       /\ ToSet(toDaemon') = ToSet(toDaemon) \cup {x}
       /\ \A ops : Has(toDaemon', ops) <=> Has(toDaemon, ops) \/ Has(r, ops)
  BY <1>4, <1>5, ClientSendsFacts
<1>11. /\ toClient' \in Seq(Events)
       /\ ToSet(toClient) = {e} \cup ToSet(toClient')
       /\ \A ops : Has(toClient, ops) <=> e.op \in ops \/ Has(toClient', ops)
       /\ NewestList' = NewestList /\ NewestTree' = NewestTree
  BY <1>5, <1>9, HandlingFacts
<1>12. /\ Relisting' /\ Has(toDaemon', {"ListTabs"})
       /\ Adopting => Adopting'
       /\ Has(toClient, {"SplitCreated"}) \/ FocusWaits =>
            Has(toClient', {"SplitCreated"}) \/ FocusWaits'
  BY <1>2, <1>4, <1>8, <1>10, <1>11 DEF Relisting, Adopting, FocusWaits, Fetching
<1>13. closing' \subseteq closing /\ \A c \in closing' : c.n > e.n
  BY <1>8 DEF Unanswered
<1>14. sentDims' \in [PaneIds -> [panes : SUBSET PaneIds, bar : BOOLEAN]]
  <2>1. Unsent \in [panes : SUBSET PaneIds, bar : BOOLEAN]
    BY DEF Unsent
  <2> QED  BY <1>1, <1>8, <2>1 DEF SyncTypeOK
<1>15. SyncTypeOK'
  BY <1>1, <1>8, <1>10, <1>11, <1>13, <1>14 DEF SyncTypeOK
<1>16. Heard'
  <2>1. \A p \in PaneIds : sentDims'[p] # Unsent => p < nextPaneId'
    BY <1>1, <1>8, <1>10 DEF Heard
  <2> QED  BY <1>1, <1>8, <1>10, <1>11, <1>13, <2>1 DEF Heard
<1>17. ListRight'
  <2>1. \A d : LastOf(r, {"SwitchTab", "ListTabs"}, d) = x
    BY <1>2, <1>4
  <2> QED  BY <1>2, <1>5, <1>8, <1>11, <1>12, <2>1, ListStays
<1>18. TreeRight'
  <2>1. \A d : LastOf(r, {"GetLayoutTree"}, d) = d
    BY <1>2, <1>4
  <2> QED  BY <1>5, <1>8, <1>11, <1>12, <2>1, TreeStays
<1>19. FocusRight'
  <2>1. \A d : LastOf(r, {"SplitPane", "FocusPane"}, d) = d
    BY <1>2, <1>4
  <2> QED  BY <1>5, <1>8, <1>11, <1>12, <2>1, FocusStays
<1>20. SizesRight'
  <2>1. \A p \in Live : p \in PaneIds /\ p \notin gone
    BY <1>7, LiveMeans DEF Popped, MirrorInv, DaemonInv, MuxInv, MuxTypeOK
  <2>2. \A p \in Live : sentDims'[p] = sentDims[p]
    BY <1>8, <2>1
  <2>3. \A p \in tree' \cap Live' :
          /\ p \in views' /\ sentDims'[p] # Unsent
          /\ redrawn' = "first" => sentDims'[p] = Geometry(tree', known')
    BY <1>1, <1>8, <1>10, <2>1, <2>2 DEF SizesRight
  <2> QED  BY <1>1, <1>8, <1>10, <2>2, <2>3 DEF SizesRight
<1>21. ClosesRight'
  <2>1. \A c \in closing' : c.n \in Nat
    BY <1>1, <1>13 DEF SyncTypeOK
  <2>2. \A c \in closing' : ~ (e.n >= c.n)
    BY <1>7, <1>13, <2>1
  <2>3. closes \in Nat
    BY <1>1 DEF SyncTypeOK
  <2>4. \A m \in ToSet(r) : m.n <= closes /\ m.op # "ClosePane"
    BY <1>2, <1>4, <2>3
  <2> QED  BY <1>5, <1>8, <1>13, <2>2, <2>4, ClosesShrink
<1> QED  BY <1>10, <1>15, <1>16, <1>17, <1>18, <1>19, <1>20, <1>21 DEF MirrorInv

-----------------------------------------------------------------------------
\* What panes are sized for.

SizedType == [panes : SUBSET PaneIds, bar : BOOLEAN]

LEMMA SizedFacts ==
  ASSUME SyncTypeOK, NEW panes \in SUBSET PaneIds, NEW g \in SizedType,
         sentDims' = Sized(panes, g)
  PROVE  /\ sentDims' \in [PaneIds -> SizedType]
         /\ \A p \in PaneIds : sentDims'[p] = IF p \in panes THEN g ELSE sentDims[p]
<1>1. sentDims \in [PaneIds -> SizedType]
  BY DEF SyncTypeOK, SizedType
<1>2. sentDims' = [p \in PaneIds |-> IF p \in panes THEN g ELSE sentDims[p]]
  BY DEF Sized
<1> QED  BY <1>1, <1>2

\* The resizes that are sent: to each pane last sized for another geometry.
LEMMA ResizesAlone ==
  ASSUME SyncTypeOK, NEW panes \in SUBSET PaneIds, NEW g
  PROVE  /\ ResizesFor(panes, g) \in Seq(Asks)
         /\ \A m \in ToSet(ResizesFor(panes, g)) : m.op = "Resize"
         /\ \A p \in panes : sentDims[p] # g =>
              \E m \in ToSet(ResizesFor(panes, g)) : m.op = "Resize" /\ p \in m.panes
<1>1. PICK stale \in SUBSET PaneIds :
        stale = Stale(panes, g) /\ \A p \in panes : sentDims[p] # g => p \in stale
  BY DEF Stale
<1>2. PICK x \in Asks : x = ResizeAll(stale) /\ x.op = "Resize" /\ x.panes = stale
  BY RequestTypes, RequestParts
<1>3. CASE stale = {}
  <2>1. ResizesFor(panes, g) = <<>>
    BY <1>1, <1>3 DEF ResizesFor
  <2> QED  BY <1>1, <1>3, <2>1, SendsNone
<1>4. CASE stale # {}
  <2>1. ResizesFor(panes, g) = <<x>>
    BY <1>1, <1>2, <1>4 DEF ResizesFor
  <2>2. <<x>> \in Seq(Asks) /\ ToSet(<<x>>) = {x}
    BY SendsOne
  <2> QED  BY <1>1, <1>2, <2>1, <2>2
<1> QED  BY <1>3, <1>4

\* Resizes say nothing of what other requests say last.
LEMMA ResizesThen ==
  ASSUME NEW a \in Seq(Asks), \A m \in ToSet(a) : m.op = "Resize",
         NEW b \in Seq(Asks)
  PROVE  /\ a \o b \in Seq(Asks)
         /\ ToSet(a \o b) = ToSet(a) \cup ToSet(b)
         /\ \A ops, d : "Resize" \notin ops => LastOf(a \o b, ops, d) = LastOf(b, ops, d)
         /\ \A ops : "Resize" \notin ops => (Has(a \o b, ops) <=> Has(b, ops))
<1>1. /\ a \o b \in Seq(Asks)
      /\ ToSet(a \o b) = ToSet(a) \cup ToSet(b)
  BY ToSetConcat
<1>2. ASSUME NEW ops, NEW d, "Resize" \notin ops
      PROVE  LastOf(a \o b, ops, d) = LastOf(b, ops, d)
  <2>1. LastOf(a \o b, ops, d) = LastOf(b, ops, LastOf(a, ops, d))
    BY LastConcat
  <2>2. ~ Has(a, ops)
    BY <1>2 DEF Has
  <2>3. LastOf(a, ops, d) = d
    BY <2>2 DEF LastOf
  <2> QED  BY <2>1, <2>3, Zenon
<1>3. ASSUME NEW ops, "Resize" \notin ops
      PROVE  Has(a \o b, ops) <=> Has(b, ops)
  BY <1>1, <1>3 DEF Has
<1> QED  BY <1>1, <1>2, <1>3

\* A pane that is sized runs a shell, or will.
LEMMA ShellsCome ==
  ASSUME NEW r, ClientSends(r), NEW panes \in SUBSET PaneIds, NEW g \in SizedType,
         sentDims' = Sized(panes, g),
         \A p \in panes : sentDims[p] # g =>
           \E m \in ToSet(r) : m.op = "Resize" /\ p \in m.panes
  PROVE  \A p \in Live' :
           sentDims'[p] # Unsent =>
             \/ p \in running'
             \/ \E q \in ToSet(toDaemon') : q.op = "Resize" /\ p \in q.panes
<1>1. SizesRight /\ SyncTypeOK
  BY DEF ClientSends, MirrorInv
<1>2. UNCHANGED <<Live, running>> /\ ToSet(toDaemon') = ToSet(toDaemon) \cup ToSet(r)
  BY ClientSendsFacts
<1>3. \A p \in PaneIds : sentDims'[p] = IF p \in panes THEN g ELSE sentDims[p]
  BY <1>1, SizedFacts
<1>4. \A p \in Live : p \in PaneIds
  BY LiveMeans DEF ClientSends, MirrorInv, DaemonInv, MuxInv, MuxTypeOK
<1> SUFFICES ASSUME NEW p \in Live, sentDims'[p] # Unsent
             PROVE  \/ p \in running
                    \/ \E q \in ToSet(toDaemon') : q.op = "Resize" /\ p \in q.panes
  BY <1>2
<1>5. CASE p \in panes /\ sentDims[p] # g
  BY <1>2, <1>5
<1>6. CASE ~ (p \in panes /\ sentDims[p] # g)
  <2>1. sentDims[p] # Unsent
    BY <1>3, <1>4, <1>6
  <2> QED  BY <1>1, <1>2, <2>1 DEF SizesRight
<1> QED  BY <1>5, <1>6

\* An event is what it says.
LEMMA EventsAre ==
  ASSUME NEW e \in Events
  PROVE  /\ e.op = "TabList" =>
              e = [op |-> "TabList", active |-> e.active, strip |-> e.strip]
         /\ e.op = "LayoutTree" => e = [op |-> "LayoutTree", panes |-> e.panes]
<1>1. ASSUME e.op = "TabList"
      PROVE  e = [op |-> "TabList", active |-> e.active, strip |-> e.strip]
  <2>1. e \in [op : {"TabList"}, active : TabIds, strip : Strips]
    BY <1>1 DEF Events
  <2> QED  BY <2>1
<1>2. ASSUME e.op = "LayoutTree"
      PROVE  e = [op |-> "LayoutTree", panes |-> e.panes]
  <2>1. e \in [op : {"LayoutTree"}, panes : (SUBSET PaneIds) \ {{}}]
    BY <1>2 DEF Events
  <2> QED  BY <2>1
<1> QED  BY <1>1, <1>2

\* What an adopted layout makes the client tell the daemon: the focus it moved
\* to, if it moved it.
FocusSent(r) ==
    /\ Has(r, {"FocusPane"})
    /\ \A d : LastOf(r, {"SplitPane", "FocusPane"}, d).id = focused'
FocusLeft(r) ==
    /\ focused' = focused /\ (missed \/ pendingFocus # NoPane => missed')
    /\ \A d : LastOf(r, {"SplitPane", "FocusPane"}, d) = d
Resizes(r, panes, g) ==
    \A p \in panes : sentDims[p] # g =>
      \E m \in ToSet(r) : m.op = "Resize" /\ p \in m.panes

LEMMA LayoutSends ==
  ASSUME NEW e, Popped(e), e.op = "LayoutTree", OnLayoutTree(e)
  PROVE  \E r \in Seq(Asks) :
           /\ Send(r) /\ focused' \in e.panes
           /\ FocusSent(r) \/ FocusLeft(r)
           /\ Resizes(r, e.panes, Geometry(e.panes, known))
           /\ \A m \in ToSet(r) :
                m.op = "Resize" \/ (m.op = "FocusPane" /\ m.n = closes)
<1>1. /\ SyncTypeOK /\ e \in Events /\ e.panes \in SUBSET PaneIds
      /\ pendingFocus \in PaneIds \cup {NoPane} /\ focused \in PaneIds
  <2>1. SyncTypeOK /\ e \in Events
    BY HandleFacts DEF Popped, MirrorInv, SyncTypeOK
  <2> QED  BY <2>1, EventParts DEF SyncTypeOK
<1>2. PICK a \in Seq(Asks) :
        /\ a = ResizesFor(e.panes, Geometry(e.panes, known))
        /\ \A m \in ToSet(a) : m.op = "Resize"
        /\ Resizes(a, e.panes, Geometry(e.panes, known))
  <2>1. PICK g : g = Geometry(e.panes, known)
    OBVIOUS
  <2>2. /\ ResizesFor(e.panes, g) \in Seq(Asks)
        /\ \A m \in ToSet(ResizesFor(e.panes, g)) : m.op = "Resize"
        /\ \A p \in e.panes : sentDims[p] # g =>
             \E m \in ToSet(ResizesFor(e.panes, g)) : m.op = "Resize" /\ p \in m.panes
    BY <1>1, ResizesAlone
  <2>3. PICK a \in Seq(Asks) : a = ResizesFor(e.panes, g)
    BY <2>2
  <2>4. Resizes(a, e.panes, g)
    BY <2>2, <2>3 DEF Resizes
  <2> QED  BY <2>1, <2>2, <2>3, <2>4
<1>3. ASSUME NEW p \in PaneIds
      PROVE  \E x \in Asks : /\ x = Req("FocusPane", p)
                             /\ x.op = "FocusPane" /\ x.id = p /\ x.n = closes
  BY <1>1, RequestTypes, RequestParts
<1>4. ASSUME NEW b \in Seq(Asks), Send(a \o b), focused' \in e.panes,
             FocusSent(b) \/ FocusLeft(b),
             \A m \in ToSet(b) : m.op = "FocusPane" /\ m.n = closes
      PROVE  \E r \in Seq(Asks) :
               /\ Send(r) /\ focused' \in e.panes
               /\ FocusSent(r) \/ FocusLeft(r)
               /\ Resizes(r, e.panes, Geometry(e.panes, known))
               /\ \A m \in ToSet(r) :
                    m.op = "Resize" \/ (m.op = "FocusPane" /\ m.n = closes)
  <2>1. PICK r \in Seq(Asks) :
          /\ r = a \o b
          /\ ToSet(r) = ToSet(a) \cup ToSet(b)
          /\ \A ops, d : "Resize" \notin ops => LastOf(r, ops, d) = LastOf(b, ops, d)
          /\ \A ops : "Resize" \notin ops => (Has(r, ops) <=> Has(b, ops))
    BY <1>2, ResizesThen
  <2>2. /\ \A d : LastOf(r, {"SplitPane", "FocusPane"}, d) =
                  LastOf(b, {"SplitPane", "FocusPane"}, d)
        /\ Has(r, {"FocusPane"}) <=> Has(b, {"FocusPane"})
    BY <2>1
  <2>3. FocusSent(r) \/ FocusLeft(r)
    BY <1>4, <2>2 DEF FocusSent, FocusLeft
  <2>4. Resizes(r, e.panes, Geometry(e.panes, known))
    BY <1>2, <2>1 DEF Resizes
  <2> QED  BY <1>2, <1>4, <2>1, <2>3, <2>4
<1>5. PICK moved, now, follow :
        /\ moved = {pendingFocus} \cap (views \cup e.panes)
        /\ now = IF moved = {} THEN focused ELSE pendingFocus
        /\ follow = IF moved = {} THEN <<>> ELSE <<Req("FocusPane", now)>>
        /\ \/ /\ now \in e.panes /\ focused' = now
              /\ missed' = (moved = {} /\ (missed \/ pendingFocus # NoPane))
              /\ Send(a \o follow)
           \/ \E p \in e.panes :
                focused' = p /\ Send(a \o follow \o <<Req("FocusPane", p)>>)
  BY <1>2 DEF OnLayoutTree
<1>6. now \in PaneIds
  BY <1>1, <1>5 DEF SyncTypeOK
<1>7. PICK y \in Asks : /\ y = Req("FocusPane", now)
                        /\ y.op = "FocusPane" /\ y.id = now /\ y.n = closes
  BY <1>3, <1>6
<1>8. /\ \A ops, d : LastOf(<<y>>, ops, d) = IF y.op \in ops THEN y ELSE d
      /\ \A ops : Has(<<y>>, ops) <=> y.op \in ops
      /\ ToSet(<<y>>) = {y} /\ <<y>> \in Seq(Asks)
  BY SendsOne
<1>9. PICK f \in Seq(Asks) :
        /\ f = follow /\ \A m \in ToSet(f) : m.op = "FocusPane" /\ m.n = closes
  BY <1>5, <1>7, <1>8, SendsNone
<1>10. CASE /\ now \in e.panes /\ focused' = now
            /\ missed' = (moved = {} /\ (missed \/ pendingFocus # NoPane))
            /\ Send(a \o follow)
  <2>1. CASE moved = {}
    <3>1. follow = <<>> /\ focused' = focused
      BY <1>5, <1>10, <2>1
    <3>2. missed \/ pendingFocus # NoPane => missed'
      BY <1>10, <2>1
    <3>3. FocusLeft(f)
      BY <1>9, <3>1, <3>2, SendsNone DEF FocusLeft
    <3> QED  BY <1>4, <1>9, <1>10, <3>3
  <2>2. CASE moved # {}
    <3>1. follow = <<y>>
      BY <1>5, <1>7, <2>2
    <3>2. FocusSent(f)
      BY <1>7, <1>8, <1>9, <1>10, <3>1 DEF FocusSent
    <3> QED  BY <1>4, <1>9, <1>10, <3>2
  <2> QED  BY <2>1, <2>2
<1>11. CASE \E p \in e.panes :
              focused' = p /\ Send(a \o follow \o <<Req("FocusPane", p)>>)
  <2>1. PICK p \in e.panes :
          focused' = p /\ Send(a \o follow \o <<Req("FocusPane", p)>>)
    BY <1>11
  <2>2. PICK x \in Asks : /\ x = Req("FocusPane", p)
                          /\ x.op = "FocusPane" /\ x.id = p /\ x.n = closes
    BY <1>1, <1>3
  <2>3. PICK w \in Seq(Asks) : w = <<x>>
    BY SendsOne
  <2>4. /\ \A ops, d : LastOf(w, ops, d) = IF x.op \in ops THEN x ELSE d
        /\ \A ops : Has(w, ops) <=> x.op \in ops
        /\ ToSet(w) = {x}
    BY <2>3, SendsOne
  <2>5. PICK b \in Seq(Asks) : b = f \o w /\ ToSet(b) = ToSet(f) \cup ToSet(w)
    BY ToSetConcat
  <2>6. a \o follow \o <<Req("FocusPane", p)>> = a \o b
    <3>1. (a \o f) \o w = a \o (f \o w)
      BY ConcatAssociative
    <3> QED  BY <1>9, <2>2, <2>3, <2>5, <3>1
  <2>7. \A d : LastOf(b, {"SplitPane", "FocusPane"}, d) = x
    <3>1. ASSUME NEW d
          PROVE  LastOf(b, {"SplitPane", "FocusPane"}, d) = x
      <4>1. LastOf(f \o w, {"SplitPane", "FocusPane"}, d) =
              LastOf(w, {"SplitPane", "FocusPane"},
                     LastOf(f, {"SplitPane", "FocusPane"}, d))
        BY LastConcat
      <4>2. \A c : LastOf(w, {"SplitPane", "FocusPane"}, c) = x
        BY <2>2, <2>4
      <4> QED  BY <2>5, <4>1, <4>2, Zenon
    <3> QED  BY <3>1
  <2>8. FocusSent(b)
    <3>1. x \in ToSet(b)
      BY <2>4, <2>5
    <3> QED  BY <2>1, <2>2, <2>7, <3>1 DEF FocusSent, Has
  <2>9. \A m \in ToSet(b) : m.op = "FocusPane" /\ m.n = closes
    BY <1>9, <2>2, <2>4, <2>5
  <2>10. Send(a \o b)
    BY <2>1, <2>6
  <2> QED  BY <1>4, <2>1, <2>8, <2>9, <2>10
<1> QED  BY <1>5, <1>10, <1>11

LEMMA LayoutTreeKeeps ==
  ASSUME NEW e, Popped(e), e.op = "LayoutTree", OnLayoutTree(e)
  PROVE  MirrorInv'
<1>1. /\ SyncTypeOK /\ Heard /\ ListRight /\ TreeRight /\ FocusRight /\ MirrorInv
      /\ NoPane \notin PaneIds
  BY NoPaneAssumption DEF Popped, MirrorInv
<1>2. PICK r \in Seq(Asks) :
        /\ Send(r) /\ focused' \in e.panes
        /\ FocusSent(r) \/ FocusLeft(r)
        /\ Resizes(r, e.panes, Geometry(e.panes, known))
        /\ \A m \in ToSet(r) :
             m.op = "Resize" \/ (m.op = "FocusPane" /\ m.n = closes)
  BY LayoutSends
<1>3. Handling(e, r) /\ ClientSends(r)
  BY <1>2 DEF Popped, Handling, ClientSends
<1>4. /\ e \in Events /\ e \in ToSet(toClient) /\ toClient' \in Seq(Events)
      /\ ToSet(toClient) = {e} \cup ToSet(toClient')
      /\ \A ops : Has(toClient, ops) <=> e.op \in ops \/ Has(toClient', ops)
      /\ \A ops, d : LastOf(toClient, ops, d) =
           LastOf(toClient', ops, IF e.op \in ops THEN e ELSE d)
  BY <1>3, HandlingFacts
<1>5. /\ e.panes \in SUBSET PaneIds /\ e.panes # {}
      /\ e = [op |-> "LayoutTree", panes |-> e.panes]
      /\ \A p \in e.panes : p < nextPaneId
  BY <1>1, <1>4, EventParts, EventsAre DEF Heard
<1>6. /\ UNCHANGED <<known, knownActive, refocus, redrawn, closing, closes, actions>>
      /\ tree' = e.panes /\ views' = views \cup e.panes
      /\ sentDims' = Sized(e.panes, Geometry(e.panes, known))
      /\ published' = [tab |-> knownActive, panes |-> e.panes]
      /\ pendingFocus' = NoPane
      /\ missed' \in BOOLEAN
  BY <1>1 DEF Popped, OnLayoutTree, closeVars, SyncTypeOK
<1>7. /\ toDaemon' \in Seq(Asks)
      /\ ToSet(toDaemon') = ToSet(toDaemon) \cup ToSet(r)
      /\ \A ops : Has(toDaemon', ops) <=> Has(toDaemon, ops) \/ Has(r, ops)
      /\ \A ops, d :
           LastOf(toDaemon', ops, d) = LastOf(r, ops, LastOf(toDaemon, ops, d))
      /\ DaemonInv'
      /\ UNCHANGED <<tabs, layout, focusedPane, running, nextPaneId, nextTabId,
                     Live, ActiveTabId>>
  BY <1>3, ClientSendsFacts
<1>8. PICK g \in SizedType :
        g = Geometry(e.panes, known) /\ g # Unsent
  BY <1>5, GeometryFacts DEF SizedType
<1>9. /\ sentDims' \in [PaneIds -> SizedType]
      /\ \A p \in PaneIds : sentDims'[p] = IF p \in e.panes THEN g ELSE sentDims[p]
  BY <1>1, <1>5, <1>6, <1>8, SizedFacts
<1>10. \A ops, d : "Resize" \notin ops /\ "FocusPane" \notin ops => LastOf(r, ops, d) = d
  BY <1>2 DEF LastOf, Has
<1>11. NewestList' = NewestList /\ NewestTree' = NewestTree
  <2>1. UNCHANGED Adopted
    BY <1>6 DEF Adopted
  <2>2. NewestList' = NewestList
    BY <1>3, <2>1, HandlingFacts
  <2>3. AdoptedTree' = e
    BY <1>5, <1>6 DEF AdoptedTree
  <2>4. LastOf(toClient, {"LayoutTree"}, AdoptedTree) = LastOf(toClient', {"LayoutTree"}, e)
    BY <1>4
  <2>5. NewestTree' = NewestTree
    BY <2>3, <2>4 DEF NewestTree
  <2> QED  BY <2>2, <2>5
<1>12. /\ Relisting => Relisting'
       /\ Fetching => Fetching'
       /\ Telling => Telling'
       /\ ShownLives' <=> ShownLives
  BY <1>4, <1>6, <1>7 DEF Relisting, Fetching, Telling, ShownLives
<1>13. SyncTypeOK'
  <2>1. /\ focused' \in PaneIds /\ views' \in SUBSET PaneIds
        /\ published' \in [tab : TabIds \cup {NoTab}, panes : SUBSET PaneIds]
    BY <1>1, <1>2, <1>5, <1>6 DEF SyncTypeOK
  <2> QED  BY <1>1, <1>4, <1>5, <1>6, <1>7, <1>9, <2>1 DEF SyncTypeOK, SizedType
<1>14. Heard'
  <2>1. \A p \in PaneIds : sentDims'[p] # Unsent => p < nextPaneId'
    BY <1>1, <1>5, <1>7, <1>9 DEF Heard
  <2> QED  BY <1>1, <1>2, <1>4, <1>5, <1>6, <1>7, <2>1 DEF Heard
<1>15. ListRight'
  <2>1. \A d : LastOf(r, {"SwitchTab", "ListTabs"}, d) = d
    BY <1>10
  <2>2. refocus' => Has(toDaemon', {"ListTabs"}) \/ Has(toClient', {"TabList"})
    BY <1>1, <1>4, <1>6, <1>7 DEF ListRight
  <2> QED  BY <1>3, <1>4, <1>6, <1>11, <1>12, <2>1, <2>2, ListStays
<1>16. TreeRight'
  <2>1. LastOf(toDaemon', {"GetLayoutTree"}, AskedNow').id = Asked(knownActive')
    <3>1. AskedNow' = AskedNow
      BY <1>6 DEF AskedNow, Asked
    <3>2. \A d : LastOf(r, {"GetLayoutTree"}, d) = d
      BY <1>10
    <3> QED  BY <1>1, <1>6, <1>7, <3>1, <3>2 DEF TreeRight
  <2>2. ShownLives' =>
          \/ Fetching' \/ NewestTree' = layout'[knownActive']
          \/ Has(toClient', {"SplitCreated", "PaneClosed"}) \/ refocus'
    BY <1>1, <1>4, <1>6, <1>7, <1>11, <1>12 DEF TreeRight
  <2> QED  BY <1>6, <2>1, <2>2 DEF TreeRight
<1>17. FocusRight'
  <2>1. CASE FocusSent(r)
    <3>1. Telling'
      BY <1>7, <2>1 DEF FocusSent, Telling, Has
    <3>2. LastOf(toDaemon', {"SplitPane", "FocusPane"}, ToldNow').id = focused'
      BY <1>7, <2>1 DEF FocusSent
    <3> QED  BY <1>2, <1>6, <3>1, <3>2 DEF FocusRight
  <2>2. CASE FocusLeft(r)
    <3>1. ToldNow' = ToldNow /\ focused' = focused
      BY <2>2 DEF ToldNow, FocusLeft
    <3>2. LastOf(toDaemon', {"SplitPane", "FocusPane"}, ToldNow').id = focused'
      <4>1. LastOf(toDaemon, {"SplitPane", "FocusPane"}, ToldNow).id = focused
        BY <1>1 DEF FocusRight
      <4> QED  BY <1>7, <2>2, <3>1, <4>1 DEF FocusLeft
    <3>3. \/ Relisting' \/ Telling' \/ ActiveTabId' = NewestList'.active
          \/ focused' \notin layout'[NewestList'.active]
      BY <1>1, <1>7, <1>11, <1>12, <3>1 DEF FocusRight
    <3>4. ShownLives' =>
            \/ Telling' \/ Heeded' \/ Has(toClient', {"SplitCreated"})
            \/ pendingFocus' # NoPane /\ (Fetching' \/ Adopting')
            \/ missed'
      <4>1. ShownLives =>
              \/ Telling \/ Heeded \/ Has(toClient, {"SplitCreated"})
              \/ pendingFocus # NoPane \/ missed
        BY <1>1 DEF FocusRight, Heeded
      <4>2. Heeded => Heeded'
        BY <1>7, <3>1 DEF Heeded
      <4> QED  BY <1>4, <1>12, <2>2, <4>1, <4>2 DEF FocusLeft
    <3> QED  BY <1>2, <1>6, <3>2, <3>3, <3>4 DEF FocusRight, Heeded
  <2> QED  BY <1>2, <2>1, <2>2
<1>18. SizesRight'
  <2>1. \A p \in Live' :
          sentDims'[p] # Unsent =>
            \/ p \in running'
            \/ \E q \in ToSet(toDaemon') : q.op = "Resize" /\ p \in q.panes
    BY <1>2, <1>3, <1>5, <1>6, <1>8, ShellsCome DEF Resizes
  <2>2. \A p \in tree' \cap Live' :
          /\ p \in views' /\ sentDims'[p] # Unsent
          /\ redrawn' = "first" => sentDims'[p] = Geometry(tree', known')
    BY <1>5, <1>6, <1>8, <1>9
  <2> QED  BY <2>1, <2>2 DEF SizesRight
<1>19. ClosesRight'
  <2>1. closes \in Nat
    BY <1>1 DEF SyncTypeOK
  <2>2. \A m \in ToSet(r) : /\ m.op # "Resize" => m.n <= closes
                            /\ m.op # "ClosePane"
    BY <1>2, <2>1
  <2>3. e.op \notin {"PaneClosed", "Failed"}
    BY <1>5
  <2> QED  BY <1>3, <1>6, <2>2, <2>3, ClosesShrink
<1> QED  BY <1>7, <1>13, <1>14, <1>15, <1>16, <1>17, <1>18, <1>19 DEF MirrorInv

\* A tree that is not split is its one pane.
LEMMA LonePane ==
  ASSUME NEW panes \in SUBSET PaneIds, ~ (Cardinality(panes) > 1),
         NEW p \in panes
  PROVE  panes = {p}
<1>1. IsFiniteSet(PaneIds)
  BY BoundsAssumption, FS_Interval DEF PaneIds
<1>2. IsFiniteSet(panes)
  BY <1>1, FS_Subset
<1>3. Cardinality(panes) \in Nat /\ Cardinality(panes) # 0
  BY <1>2, FS_CardinalityType, FS_EmptySet
<1>4. Cardinality(panes) = 1
  BY <1>3
<1> QED  BY <1>2, <1>4, FS_Singleton

\* A tab bar that comes or goes has every pane on screen sized again.
LEMMA RelaidFacts ==
  ASSUME SyncTypeOK, tree = {} \/ focused \in tree, NEW strip
  PROVE  /\ Relaid \in SUBSET PaneIds
         /\ Relaid \subseteq tree \cup {focused}
         /\ redrawn # "no" => tree \cap views \subseteq Relaid
         /\ \A p \in tree :
              Geometry(IF Cardinality(tree) > 1 THEN tree ELSE {focused}, strip)
                = Geometry(tree, strip)
         /\ Geometry(IF Cardinality(tree) > 1 THEN tree ELSE {focused}, strip)
              # Unsent
         /\ Geometry(IF Cardinality(tree) > 1 THEN tree ELSE {focused}, strip)
              \in SizedType
<1>1. tree \in SUBSET PaneIds /\ focused \in PaneIds /\ {focused} \in SUBSET PaneIds
  BY DEF SyncTypeOK
<1>2. CASE Cardinality(tree) > 1
  <2>1. tree # {}
    <3>1. Cardinality({}) = 0
      BY FS_EmptySet
    <3> QED  BY <1>2, <3>1
  <2>2. PICK g \in SizedType : g = Geometry(tree, strip) /\ g # Unsent
    BY <1>1, <2>1, GeometryFacts DEF SizedType
  <2>3. Relaid = IF redrawn = "no" THEN {} ELSE tree
    BY <1>2 DEF Relaid
  <2> QED  BY <1>1, <1>2, <2>2, <2>3
<1>3. CASE ~ (Cardinality(tree) > 1)
  <2>1. PICK g \in SizedType : g = Geometry({focused}, strip) /\ g # Unsent
    BY <1>1, GeometryFacts DEF SizedType
  <2>2. tree = {} \/ tree = {focused}
    BY <1>1, <1>3, LonePane
  <2>3. Relaid = IF redrawn = "no" THEN {} ELSE {focused} \cap views
    BY <1>3 DEF Relaid
  <2> QED  BY <1>1, <1>3, <2>1, <2>2, <2>3
<1> QED  BY <1>2, <1>3

LEMMA SeqHolds ==
  ASSUME NEW S, NEW q \in Seq(S)
  PROVE  \A j \in DOMAIN q : q[j] \in S
  OBVIOUS

\* The focus a strip gives a tab of its own.
LEMMA StripFocus ==
  ASSUME NEW strip \in Strips, NEW t, \E i \in DOMAIN strip : strip[i].tab = t
  PROVE  FocusOf(strip, t) \in PaneIds
<1> DEFINE i == CHOOSE j \in DOMAIN strip : strip[j].tab = t
<1>1. i \in DOMAIN strip
  <2>1. PICK k : k \in DOMAIN strip /\ strip[k].tab = t
    OBVIOUS
  <2> QED  BY <2>1, Zenon
<1>2. \A j \in DOMAIN strip : strip[j].focus \in PaneIds
  <2>1. PICK parts : /\ parts = [tab : TabIds, focus : PaneIds]
                     /\ strip \in Seq(parts)
    BY DEF Strips
  <2>2. \A j \in DOMAIN strip : strip[j] \in parts
    BY <2>1, SeqHolds, Zenon
  <2> QED  BY <2>1, <2>2
<1> QED  BY <1>1, <1>2 DEF FocusOf

\* What a tab list changes at the client.
ListTaken(e, r, panes, g) ==
    /\ Send(r) /\ Resizes(r, panes, g)
    /\ known' = e.strip /\ knownActive' = e.active /\ refocus' = FALSE
    /\ views' = views \cup panes /\ sentDims' = Sized(panes, g)
    /\ UNCHANGED <<focused, tree, missed, redrawn, closing, closes, actions>>
    /\ panes \subseteq tree \cup {focused} /\ g # Unsent
    /\ published'.panes = published.panes \/ published'.panes = tree \cap views
    /\ redrawn = "first" =>
         \A p \in tree \cap views :
           IF p \in panes THEN g = Geometry(tree, e.strip)
           ELSE Geometry(tree, known) = Geometry(tree, e.strip)

\* With a layout on its way to the client, and without.
ListFetches(e, r) ==
    /\ pendingFocus' \in PaneIds /\ Has(r, {"GetLayoutTree"})
    /\ \A d : LastOf(r, {"GetLayoutTree"}, d).id = Asked(e.active)
ListSettles(e, r) ==
    /\ pendingFocus' = pendingFocus /\ e.active = knownActive /\ ~ refocus
    /\ \A d : LastOf(r, {"GetLayoutTree"}, d) = d
    /\ published'.tab = e.active

\* A tab list marks one of its own tabs active.
LEMMA ListIsWhole ==
  ASSUME NEW e, Popped(e), e.op = "TabList"
  PROVE  /\ e \in Events /\ e.active \in TabIds /\ e.strip \in Strips
         /\ ActiveOf(e) = e.active /\ e.active # NoTab
         /\ e.active < nextTabId
         /\ FocusOf(e.strip, e.active) \in PaneIds
         /\ e = [op |-> "TabList", active |-> e.active, strip |-> e.strip]
         /\ LayoutInbound(e) <=> e.active # knownActive \/ refocus
<1>1. /\ e \in Events /\ e \in ToSet(toClient)
  BY HandleFacts DEF Popped, MirrorInv, SyncTypeOK
<1>2. /\ e.active \in TabIds /\ e.strip \in Strips /\ e.active # NoTab
  BY <1>1, EventParts, GuiBoundsAssumption
<1>3. /\ \E i \in DOMAIN e.strip : e.strip[i].tab = e.active
      /\ e.active < nextTabId
  BY <1>1 DEF Popped, MirrorInv, ListRight, Heard
<1>4. ActiveOf(e) = e.active
  BY <1>3 DEF ActiveOf
<1>5. FocusOf(e.strip, e.active) \in PaneIds
  BY <1>2, <1>3, StripFocus
<1>6. LayoutInbound(e) <=> e.active # knownActive \/ refocus
  BY <1>2, <1>4 DEF LayoutInbound, Popped, MirrorInv, SyncTypeOK
<1> QED  BY <1>1, <1>2, <1>3, <1>4, <1>5, <1>6, EventsAre

LEMMA ListSends ==
  ASSUME NEW e, Popped(e), e.op = "TabList", OnTabList(e)
  PROVE  \E r \in Seq(Asks), panes \in SUBSET PaneIds, g \in SizedType :
           /\ ListTaken(e, r, panes, g)
           /\ ListFetches(e, r) \/ ListSettles(e, r)
           /\ published' \in [tab : TabIds \cup {NoTab}, panes : SUBSET PaneIds]
           /\ \A m \in ToSet(r) :
                m.op = "Resize" \/ (m.op = "GetLayoutTree" /\ m.n = closes)
<1>1. /\ e \in Events /\ e.active \in TabIds /\ e.strip \in Strips
      /\ ActiveOf(e) = e.active /\ e.active # NoTab
      /\ FocusOf(e.strip, e.active) \in PaneIds
      /\ LayoutInbound(e) <=> e.active # knownActive \/ refocus
  BY ListIsWhole
<1>2. /\ SyncTypeOK
      /\ tree = {} \/ focused \in tree
      /\ published \in [tab : TabIds \cup {NoTab}, panes : SUBSET PaneIds]
      /\ tree \in SUBSET PaneIds
  BY DEF Popped, MirrorInv, FocusRight, SyncTypeOK
<1>3. PICK barMoved, panes, g, shown :
        /\ barMoved <=> (Len(e.strip) > 1) # (Len(known) > 1)
        /\ panes = IF barMoved THEN Relaid ELSE {}
        /\ g = Geometry(IF Cardinality(tree) > 1 THEN tree ELSE {focused}, e.strip)
        /\ shown = IF barMoved /\ Cardinality(tree) > 1
                   THEN tree \cap views ELSE published.panes
        /\ known' = e.strip /\ knownActive' = e.active /\ refocus' = FALSE
        /\ views' = views \cup panes /\ sentDims' = Sized(panes, g)
        /\ \/ /\ LayoutInbound(e)
              /\ pendingFocus' = FocusOf(e.strip, e.active)
              /\ published' = [published EXCEPT !.panes = shown]
              /\ Send(ResizesFor(panes, g) \o <<GetLayout(e.active)>>)
           \/ /\ ~ LayoutInbound(e)
              /\ UNCHANGED pendingFocus
              /\ published' = [tab |-> e.active, panes |-> shown]
              /\ Send(ResizesFor(panes, g))
        /\ UNCHANGED <<focused, tree, missed, redrawn, closing, closes>>
  BY <1>1 DEF OnTabList, closeVars
<1>4. /\ Relaid \in SUBSET PaneIds
      /\ Relaid \subseteq tree \cup {focused}
      /\ redrawn # "no" => tree \cap views \subseteq Relaid
      /\ \A p \in tree : g = Geometry(tree, e.strip)
      /\ g # Unsent /\ g \in SizedType
  BY <1>2, <1>3, RelaidFacts
<1>5. /\ panes \in SUBSET PaneIds /\ panes \subseteq tree \cup {focused}
      /\ shown \in SUBSET PaneIds
      /\ shown = published.panes \/ shown = tree \cap views
  BY <1>2, <1>3, <1>4
<1>6. redrawn = "first" =>
        \A p \in tree \cap views :
          IF p \in panes THEN g = Geometry(tree, e.strip)
          ELSE Geometry(tree, known) = Geometry(tree, e.strip)
  <2>1. CASE barMoved
    BY <1>3, <1>4, <2>1
  <2>2. CASE ~ barMoved
    <3>1. (Len(e.strip) > 1) = (Len(known) > 1)
      BY <1>3, <2>2
    <3>2. Geometry(tree, known) = Geometry(tree, e.strip)
      BY <3>1 DEF Geometry
    <3> QED  BY <1>3, <2>2, <3>2
  <2> QED  BY <2>1, <2>2
<1>7. /\ published' \in [tab : TabIds \cup {NoTab}, panes : SUBSET PaneIds]
      /\ published'.panes = shown
  <2>1. CASE published' = [published EXCEPT !.panes = shown]
    BY <1>2, <1>5, <2>1
  <2>2. CASE published' = [tab |-> e.active, panes |-> shown]
    BY <1>1, <1>5, <2>2
  <2> QED  BY <1>3, <2>1, <2>2
<1>8. PICK a \in Seq(Asks) :
        /\ a = ResizesFor(panes, g)
        /\ \A m \in ToSet(a) : m.op = "Resize"
        /\ Resizes(a, panes, g)
  <2>1. /\ ResizesFor(panes, g) \in Seq(Asks)
        /\ \A m \in ToSet(ResizesFor(panes, g)) : m.op = "Resize"
        /\ \A p \in panes : sentDims[p] # g =>
             \E m \in ToSet(ResizesFor(panes, g)) : m.op = "Resize" /\ p \in m.panes
    BY <1>2, <1>5, ResizesAlone
  <2> QED  BY <2>1 DEF Resizes
<1>9. ASSUME NEW r \in Seq(Asks), Send(r), Resizes(r, panes, g)
      PROVE  ListTaken(e, r, panes, g)
  BY <1>3, <1>4, <1>5, <1>6, <1>7, <1>9 DEF ListTaken, Popped
<1>10. CASE LayoutInbound(e)
  <2>1. PICK x \in Asks : /\ x = GetLayout(e.active)
                          /\ x.op = "GetLayoutTree" /\ x.id = Asked(e.active)
                          /\ x.n = closes
    BY <1>1, <1>2, RequestTypes, RequestParts
  <2>2. PICK b \in Seq(Asks) : b = <<x>>
    BY SendsOne
  <2>3. /\ \A ops, d : LastOf(b, ops, d) = IF x.op \in ops THEN x ELSE d
        /\ \A ops : Has(b, ops) <=> x.op \in ops
        /\ ToSet(b) = {x}
    BY <2>2, SendsOne
  <2>4. PICK r \in Seq(Asks) :
          /\ r = a \o b
          /\ ToSet(r) = ToSet(a) \cup ToSet(b)
          /\ \A ops, d : "Resize" \notin ops => LastOf(r, ops, d) = LastOf(b, ops, d)
          /\ \A ops : "Resize" \notin ops => (Has(r, ops) <=> Has(b, ops))
    BY <1>8, ResizesThen
  <2>5. Send(r)
    BY <1>3, <1>8, <1>10, <2>1, <2>2, <2>4
  <2>6. Resizes(r, panes, g)
    BY <1>8, <2>4 DEF Resizes
  <2>7. /\ \A d : LastOf(r, {"GetLayoutTree"}, d) = x
        /\ Has(r, {"GetLayoutTree"})
    <3>1. /\ \A d : LastOf(r, {"GetLayoutTree"}, d) = LastOf(b, {"GetLayoutTree"}, d)
          /\ Has(r, {"GetLayoutTree"}) <=> Has(b, {"GetLayoutTree"})
      BY <2>4
    <3> QED  BY <2>1, <2>3, <3>1
  <2>8. ListFetches(e, r)
    BY <1>1, <1>3, <1>10, <2>1, <2>7 DEF ListFetches
  <2>9. \A m \in ToSet(r) :
          m.op = "Resize" \/ (m.op = "GetLayoutTree" /\ m.n = closes)
    BY <1>8, <2>1, <2>3, <2>4
  <2> QED  BY <1>4, <1>5, <1>7, <1>9, <2>5, <2>6, <2>8, <2>9
<1>11. CASE ~ LayoutInbound(e)
  <2>1. \A d : LastOf(a, {"GetLayoutTree"}, d) = d
    BY <1>8 DEF LastOf, Has
  <2>2. published'.tab = e.active /\ Send(a) /\ pendingFocus' = pendingFocus
    BY <1>3, <1>8, <1>11
  <2>3. ListSettles(e, a)
    BY <1>1, <1>11, <2>1, <2>2 DEF ListSettles
  <2> QED  BY <1>4, <1>5, <1>7, <1>8, <1>9, <2>2, <2>3
<1> QED  BY <1>10, <1>11

LEMMA TabListKeeps ==
  ASSUME NEW e, Popped(e), e.op = "TabList", OnTabList(e)
  PROVE  MirrorInv'
<1>1. /\ SyncTypeOK /\ Heard /\ ListRight /\ TreeRight /\ FocusRight /\ SizesRight
      /\ MirrorInv /\ NoPane \notin PaneIds
  BY NoPaneAssumption DEF Popped, MirrorInv
<1>2. /\ e.active \in TabIds /\ e.strip \in Strips
      /\ e.active < nextTabId
      /\ e = [op |-> "TabList", active |-> e.active, strip |-> e.strip]
  BY ListIsWhole
<1>3. PICK r \in Seq(Asks), panes \in SUBSET PaneIds, g \in SizedType :
        /\ ListTaken(e, r, panes, g)
        /\ ListFetches(e, r) \/ ListSettles(e, r)
        /\ published' \in [tab : TabIds \cup {NoTab}, panes : SUBSET PaneIds]
        /\ \A m \in ToSet(r) :
             m.op = "Resize" \/ (m.op = "GetLayoutTree" /\ m.n = closes)
  BY ListSends
<1>4. /\ Send(r) /\ Resizes(r, panes, g)
      /\ known' = e.strip /\ knownActive' = e.active /\ refocus' = FALSE
      /\ views' = views \cup panes /\ sentDims' = Sized(panes, g)
      /\ UNCHANGED <<focused, tree, missed, redrawn, closing, closes, actions>>
      /\ panes \subseteq tree \cup {focused} /\ g # Unsent
      /\ published'.panes = published.panes \/ published'.panes = tree \cap views
  BY <1>3 DEF ListTaken
<1>5. pendingFocus' \in PaneIds \cup {NoPane}
  BY <1>1, <1>3 DEF ListFetches, ListSettles, SyncTypeOK
<1>6. Handling(e, r) /\ ClientSends(r)
  BY <1>4 DEF Popped, Handling, ClientSends
<1>7. /\ toClient' \in Seq(Events)
      /\ ToSet(toClient) = {e} \cup ToSet(toClient')
      /\ \A ops : Has(toClient, ops) <=> e.op \in ops \/ Has(toClient', ops)
      /\ \A ops, d : LastOf(toClient, ops, d) =
           LastOf(toClient', ops, IF e.op \in ops THEN e ELSE d)
  BY <1>6, HandlingFacts
<1>8. /\ toDaemon' \in Seq(Asks)
      /\ ToSet(toDaemon') = ToSet(toDaemon) \cup ToSet(r)
      /\ \A ops : Has(toDaemon', ops) <=> Has(toDaemon, ops) \/ Has(r, ops)
      /\ \A ops, d :
           LastOf(toDaemon', ops, d) = LastOf(r, ops, LastOf(toDaemon, ops, d))
      /\ DaemonInv'
      /\ UNCHANGED <<tabs, layout, focusedPane, running, nextPaneId, nextTabId,
                     Live, ActiveTabId>>
  BY <1>6, ClientSendsFacts
<1>9. /\ sentDims' \in [PaneIds -> SizedType]
      /\ \A p \in PaneIds : sentDims'[p] = IF p \in panes THEN g ELSE sentDims[p]
  BY <1>1, <1>4, SizedFacts
<1>10. \A ops, d : "Resize" \notin ops /\ "GetLayoutTree" \notin ops =>
         LastOf(r, ops, d) = d
  BY <1>3 DEF LastOf, Has
<1>11. NewestList' = NewestList /\ NewestTree' = NewestTree
  <2>1. UNCHANGED AdoptedTree
    BY <1>4 DEF AdoptedTree
  <2>2. NewestTree' = NewestTree
    <3>1. e.op # "LayoutTree"
      BY <1>2
    <3> QED  BY <1>6, <2>1, <3>1, HandlingFacts
  <2>3. Adopted' = e
    BY <1>2, <1>4 DEF Adopted
  <2>4. LastOf(toClient, {"TabList"}, Adopted) = LastOf(toClient', {"TabList"}, e)
    BY <1>7
  <2>5. NewestList' = NewestList
    BY <2>3, <2>4 DEF NewestList
  <2> QED  BY <2>2, <2>5
<1>12. /\ Relisting => Relisting'
       /\ Fetching => Fetching'
       /\ Telling => Telling'
       /\ Adopting => Adopting'
  BY <1>7, <1>8 DEF Relisting, Fetching, Telling, Adopting
<1>13. SyncTypeOK'
  <2>1. views' \in SUBSET PaneIds
    BY <1>1, <1>4 DEF SyncTypeOK
  <2> QED  BY <1>1, <1>2, <1>3, <1>4, <1>5, <1>7, <1>8, <1>9, <2>1
           DEF SyncTypeOK, SizedType
<1>14. Heard'
  <2>1. \A p \in PaneIds : sentDims'[p] # Unsent => p < nextPaneId'
    BY <1>1, <1>4, <1>8, <1>9 DEF Heard
  <2>2. \A p \in views' \cup tree' : p < nextPaneId'
    BY <1>1, <1>4, <1>8 DEF Heard
  <2> QED  BY <1>1, <1>2, <1>4, <1>7, <1>8, <2>1, <2>2 DEF Heard
<1>15. ListRight'
  <2>1. LastOf(toDaemon', {"SwitchTab", "ListTabs"}, ListedNow').op = "ListTabs"
    <3>1. ListedNow' = ListedNow
      BY DEF ListedNow
    <3>2. \A d : LastOf(r, {"SwitchTab", "ListTabs"}, d) = d
      BY <1>10
    <3> QED  BY <1>1, <1>8, <3>1, <3>2 DEF ListRight
  <2>2. \/ Relisting'
        \/ /\ Names(NewestList'.strip) = tabs'[0]
           /\ NewestList'.active \in TabIds
           /\ layout'[NewestList'.active] # {}
    BY <1>1, <1>8, <1>11, <1>12 DEF ListRight
  <2> QED  BY <1>1, <1>4, <1>7, <2>1, <2>2 DEF ListRight
<1>16. tree' = {} \/ published'.panes = tree' \/ ~ tree' \subseteq Live'
  <2>1. tree \subseteq Live => tree \cap views = tree
    BY <1>1 DEF SizesRight
  <2> QED  BY <1>1, <1>4, <1>8, <2>1 DEF TreeRight
<1>17. TreeRight'
  <2>1. CASE ListFetches(e, r)
    <3>1. Fetching'
      BY <1>8, <2>1 DEF ListFetches, Fetching
    <3>2. LastOf(toDaemon', {"GetLayoutTree"}, AskedNow').id = Asked(knownActive')
      BY <1>4, <1>8, <2>1 DEF ListFetches
    <3> QED  BY <1>16, <3>1, <3>2 DEF TreeRight
  <2>2. CASE ListSettles(e, r)
    <3>1. /\ UNCHANGED <<knownActive, ShownLives, AskedNow>> /\ ~ refocus
          /\ \A d : LastOf(r, {"GetLayoutTree"}, d) = d
          /\ published'.tab = knownActive'
      BY <1>4, <1>8, <2>2 DEF ListSettles, ShownLives, AskedNow, Asked
    <3>2. LastOf(toDaemon', {"GetLayoutTree"}, AskedNow').id = Asked(knownActive')
      BY <1>1, <1>8, <3>1 DEF TreeRight
    <3>3. ShownLives' =>
            \/ Fetching' \/ NewestTree' = layout'[knownActive']
            \/ Has(toClient', {"SplitCreated", "PaneClosed"}) \/ refocus'
      <4>1. e.op \notin {"SplitCreated", "PaneClosed"}
        BY <1>2
      <4> QED  BY <1>1, <1>7, <1>8, <1>11, <1>12, <3>1, <4>1 DEF TreeRight
    <3> QED  BY <1>16, <3>1, <3>2, <3>3 DEF TreeRight
  <2> QED  BY <1>3, <2>1, <2>2
<1>18. FocusRight'
  <2>1. LastOf(toDaemon', {"SplitPane", "FocusPane"}, ToldNow').id = focused'
    <3>1. ToldNow' = ToldNow
      BY <1>4 DEF ToldNow
    <3>2. \A d : LastOf(r, {"SplitPane", "FocusPane"}, d) = d
      BY <1>10
    <3> QED  BY <1>1, <1>4, <1>8, <3>1, <3>2 DEF FocusRight
  <2>2. \/ Relisting' \/ Telling' \/ ActiveTabId' = NewestList'.active
        \/ focused' \notin layout'[NewestList'.active]
    BY <1>1, <1>4, <1>8, <1>11, <1>12 DEF FocusRight
  <2>3. ShownLives' =>
          \/ Telling' \/ Heeded' \/ Has(toClient', {"SplitCreated"})
          \/ pendingFocus' # NoPane /\ (Fetching' \/ Adopting')
          \/ missed'
    <3>1. CASE ListFetches(e, r)
      BY <1>1, <1>8, <3>1 DEF ListFetches, Fetching
    <3>2. CASE ListSettles(e, r)
      <4>1. UNCHANGED <<ShownLives, pendingFocus>>
        BY <1>4, <1>8, <3>2 DEF ListSettles, ShownLives
      <4>2. Heeded' <=> Heeded
        BY <1>4, <1>8 DEF Heeded
      <4>3. Has(toClient, {"SplitCreated"}) => Has(toClient', {"SplitCreated"})
        BY <1>2, <1>7
      <4>4. ShownLives =>
              \/ Telling \/ Heeded \/ Has(toClient, {"SplitCreated"})
              \/ pendingFocus # NoPane /\ (Fetching \/ Adopting)
              \/ missed
        BY <1>1 DEF FocusRight, Heeded
      <4> QED  BY <1>4, <1>12, <4>1, <4>2, <4>3, <4>4
    <3> QED  BY <1>3, <3>1, <3>2
  <2> QED  BY <1>1, <1>4, <2>1, <2>2, <2>3 DEF FocusRight, Heeded
<1>19. SizesRight'
  <2>1. \A p \in Live' :
          sentDims'[p] # Unsent =>
            \/ p \in running'
            \/ \E q \in ToSet(toDaemon') : q.op = "Resize" /\ p \in q.panes
    BY <1>4, <1>6, ShellsCome DEF Resizes
  <2>2. \A p \in tree \cap Live :
          /\ p \in views /\ sentDims[p] # Unsent /\ p \in PaneIds
          /\ redrawn = "first" => sentDims[p] = Geometry(tree, known)
    BY <1>1 DEF SizesRight, SyncTypeOK
  <2>3. redrawn = "first" =>
          \A p \in tree \cap views :
            IF p \in panes THEN g = Geometry(tree, e.strip)
            ELSE Geometry(tree, known) = Geometry(tree, e.strip)
    BY <1>3 DEF ListTaken
  <2>4. Geometry(tree', known') = Geometry(tree, e.strip)
    BY <1>4
  <2>5. \A p \in tree' \cap Live' :
          /\ p \in views' /\ sentDims'[p] # Unsent
          /\ redrawn' = "first" => sentDims'[p] = Geometry(tree', known')
    BY <1>4, <1>8, <1>9, <2>2, <2>3, <2>4
  <2> QED  BY <2>1, <2>5 DEF SizesRight
<1>20. ClosesRight'
  <2>1. closes \in Nat
    BY <1>1 DEF SyncTypeOK
  <2>2. \A m \in ToSet(r) : /\ m.op # "Resize" => m.n <= closes
                            /\ m.op # "ClosePane"
    BY <1>3, <2>1
  <2>3. e.op \notin {"PaneClosed", "Failed"}
    BY <1>2
  <2> QED  BY <1>4, <1>6, <2>2, <2>3, ClosesShrink
<1> QED  BY <1>8, <1>13, <1>14, <1>15, <1>17, <1>18, <1>19, <1>20 DEF MirrorInv

\* The client handling an event keeps the invariant.
LEMMA HandleKeeps ==
  ASSUME MirrorInv, Handle
  PROVE  MirrorInv'
<1>1. PICK e : e = Head(toClient)
  OBVIOUS
<1>2. Popped(e)
  BY <1>1 DEF Handle, Popped
<1>3. \/ e.op = "SplitCreated" /\ OnSplitCreated(e)
      \/ e.op = "TabCreated" /\ OnTabCreated(e)
      \/ e.op = "TabClosed" /\ OnTabClosed
      \/ e.op = "TitleChanged" /\ OnTitleChanged
      \/ e.op = "PaneClosed" /\ OnPaneClosed(e)
      \/ e.op = "Failed" /\ OnFailed(e)
      \/ e.op = "TabList" /\ OnTabList(e)
      \/ e.op = "LayoutTree" /\ OnLayoutTree(e)
  BY <1>1 DEF Handle
<1>4. CASE \/ e.op = "SplitCreated" /\ OnSplitCreated(e)
           \/ e.op = "TabCreated" /\ OnTabCreated(e)
  BY <1>2, <1>4, CreatedKeeps
<1>5. CASE \/ e.op = "TabClosed" /\ OnTabClosed
           \/ e.op = "TitleChanged" /\ OnTitleChanged
  BY <1>2, <1>5, RelistsKeep
<1>6. CASE e.op = "PaneClosed" /\ OnPaneClosed(e)
  BY <1>2, <1>6, PaneClosedKeeps
<1>7. CASE e.op = "Failed" /\ OnFailed(e)
  BY <1>2, <1>7, FailedKeeps
<1>8. CASE e.op = "TabList" /\ OnTabList(e)
  BY <1>2, <1>8, TabListKeeps
<1>9. CASE e.op = "LayoutTree" /\ OnLayoutTree(e)
  BY <1>2, <1>9, LayoutTreeKeeps
<1> QED  BY <1>3, <1>4, <1>5, <1>6, <1>7, <1>8, <1>9

-----------------------------------------------------------------------------
\* The start.

\* One workspace whose tabs, in this order, have these panes.
OneWorkspace(s, a, D, T, n, k) ==
    /\ workspaces = <<0>> /\ activeWorkspace = 1
    /\ tabs = [w \in WorkspaceIds |-> IF w = 0 THEN s ELSE <<>>]
    /\ activeTab = [w \in WorkspaceIds |-> IF w = 0 THEN a ELSE 1]
    /\ layout = [t \in TabIds |-> IF t \in D THEN T[t] ELSE {}]
    /\ \A t \in D : focusedPane[t] \in T[t]
    /\ focusedPane \in [TabIds -> PaneIds \cup {NoPane}]
    /\ nextPaneId = n /\ nextWorkspaceId = 1 /\ nextTabId = k

\* Its tabs are in one place each, and its ids were handed out.
InOrder(s, a, D, T, n, k) ==
    /\ s \in Seq(TabIds) /\ a \in DOMAIN s /\ a \in Nat \ {0}
    /\ \A i, j \in DOMAIN s : s[i] = s[j] => i = j
    /\ \A i \in DOMAIN s : s[i] \in D
    /\ \A t \in D : /\ \E i \in DOMAIN s : s[i] = t
                    /\ t \in 0 .. k - 1 /\ T[t] \in SUBSET (0 .. n - 1)
    /\ \A t, u \in D : t # u => T[t] \cap T[u] = {}
    /\ n \in 1 .. MaxPanes /\ k \in 1 .. MaxTabs

LEMMA OneWorkspaceInv ==
  ASSUME NEW s, NEW a, NEW D, NEW T, NEW n, NEW k,
         OneWorkspace(s, a, D, T, n, k), InOrder(s, a, D, T, n, k)
  PROVE  /\ MuxInv /\ workspaces = <<0>> /\ activeWorkspace = 1
         /\ nextPaneId \in 1 .. MaxPanes
         /\ \A p \in Live : p < nextPaneId
         /\ Live = UNION {T[t] : t \in D}
<1>1. 0 \in WorkspaceIds /\ 1 \in 0 .. MaxWorkspaces
  BY BoundsAssumption DEF WorkspaceIds
<1>2. /\ workspaces \in Seq(WorkspaceIds) /\ DOMAIN workspaces = {1}
      /\ workspaces[1] = 0
  BY <1>1 DEF OneWorkspace
<1>3. /\ n \in 1 .. MaxPanes /\ n \in Nat /\ k \in 1 .. MaxTabs /\ k \in Nat
      /\ D \subseteq TabIds /\ (0 .. n - 1) \subseteq PaneIds
      /\ \A t \in D : t < k /\ T[t] \in SUBSET PaneIds
  BY BoundsAssumption DEF InOrder, TabIds, PaneIds
<1>4. /\ tabs \in [WorkspaceIds -> Seq(TabIds)]
      /\ tabs[0] = s /\ \A w \in WorkspaceIds : w # 0 => tabs[w] = <<>>
  BY <1>1 DEF OneWorkspace, InOrder
<1>5. /\ layout \in [TabIds -> SUBSET PaneIds]
      /\ \A t \in D : layout[t] = T[t]
      /\ \A t \in TabIds \ D : layout[t] = {}
  BY <1>3 DEF OneWorkspace
<1>6. activeTab \in [WorkspaceIds -> Nat \ {0}] /\ activeTab[0] = a
  BY <1>1 DEF OneWorkspace, InOrder
<1>7. nextTabId \in 0 .. MaxTabs /\ nextWorkspaceId \in 0 .. MaxWorkspaces
  BY <1>1, <1>3 DEF OneWorkspace
<1>8. MuxTypeOK
  BY <1>2, <1>4, <1>5, <1>6, <1>7 DEF OneWorkspace, MuxTypeOK
<1>9. PlacedOnce
  <2>1. \A t, u \in TabIds : t # u => layout[t] \cap layout[u] = {}
    BY <1>3, <1>5 DEF InOrder
  <2>2. \A w \in WorkspaceIds : \A i \in DOMAIN tabs[w] : w = 0
    BY <1>4
  <2>3. \A v, w \in WorkspaceIds :
          \A i \in DOMAIN tabs[v], j \in DOMAIN tabs[w] :
            tabs[v][i] = tabs[w][j] => v = w /\ i = j
    BY <1>4, <2>2 DEF InOrder
  <2> QED  BY <1>2, <2>1, <2>3 DEF PlacedOnce
<1>10. FocusValid
  <2>1. \A t \in TabsOf(0) : focusedPane[t] \in layout[t]
    BY <1>4, <1>5 DEF TabsOf, InOrder, OneWorkspace
  <2> QED  BY <1>2, <1>4, <1>6, <2>1 DEF FocusValid, InOrder, OneWorkspace
<1>11. TabsListed
  BY <1>2, <1>4, <1>5 DEF TabsListed, InOrder
<1>12. TabIdsFresh
  <2>1. \A w \in WorkspaceIds : \A i \in DOMAIN tabs[w] : tabs[w][i] < nextTabId
    BY <1>3, <1>4 DEF InOrder, OneWorkspace
  <2> QED  BY <1>2, <2>1 DEF TabIdsFresh, OneWorkspace
<1>13. Live = UNION {T[t] : t \in D}
  BY <1>3, <1>5 DEF Live
<1>14. \A p \in Live : p < nextPaneId
  <2>1. \A p \in Live : p \in 0 .. n - 1
    BY <1>13 DEF InOrder
  <2> QED  BY <1>3, <2>1 DEF OneWorkspace
<1> QED  BY <1>3, <1>8, <1>9, <1>10, <1>11, <1>12, <1>13, <1>14
         DEF MuxInv, OneWorkspace

\* A daemon an earlier client left behind is one.
LEMMA LeftBehindIs ==
  ASSUME NEW s, NEW a, NEW D, NEW T, NEW n, NEW k, InOrder(s, a, D, T, n, k),
         DOMAIN T = D, \A t \in D : T[t] # {}, Cardinality(D \cup {0}) = k,
         LeftBehind(s, a, T, n)
  PROVE  OneWorkspace(s, a, D, T, n, k)
<1>1. \A t \in D : (CHOOSE p \in T[t] : TRUE) \in T[t]
  OBVIOUS
<1>2. \A t \in D : t \in TabIds /\ T[t] \subseteq PaneIds
  BY BoundsAssumption DEF InOrder, TabIds, PaneIds
<1>3. focusedPane \in [TabIds -> PaneIds \cup {NoPane}]
  BY <1>1, <1>2 DEF LeftBehind
<1>4. \A t \in D : focusedPane[t] \in T[t]
  BY <1>1, <1>2 DEF LeftBehind
<1> QED  BY <1>3, <1>4 DEF LeftBehind, OneWorkspace

LEMMA SmallSets ==
  Cardinality({0} \cup {0}) = 1 /\ Cardinality({1} \cup {0}) = 2
  /\ Cardinality({0, 1} \cup {0}) = 2
<1>1. IsFiniteSet({0}) /\ Cardinality({0}) = 1
  BY FS_Singleton
<1>2. Cardinality({0} \cup {1}) = Cardinality({0}) + 1
  BY <1>1, FS_AddElement
<1>3. {0} \cup {0} = {0} /\ {1} \cup {0} = {0} \cup {1} /\ {0, 1} \cup {0} = {0} \cup {1}
  OBVIOUS
<1> QED  BY <1>1, <1>2, <1>3

LEMMA InitDaemon == Init => DaemonInv /\ nextPaneId \in 1 .. MaxPanes
<1> SUFFICES ASSUME Init PROVE DaemonInv /\ nextPaneId \in 1 .. MaxPanes
  OBVIOUS
<1>1. MaxPanes \in Nat /\ MaxPanes >= 2 /\ MaxTabs \in Nat /\ MaxTabs >= 2
  BY BoundsAssumption, GuiBoundsAssumption
<1>2. 0 \in TabIds /\ 1 \in TabIds /\ 0 \in PaneIds
  BY <1>1 DEF TabIds, PaneIds
<1>3. ASSUME NEW s, NEW a, NEW D, NEW T, NEW n, NEW k,
             OneWorkspace(s, a, D, T, n, k), InOrder(s, a, D, T, n, k),
             running \subseteq UNION {T[t] : t \in D}
      PROVE  DaemonInv /\ nextPaneId \in 1 .. MaxPanes
  <2>1. /\ MuxInv /\ workspaces = <<0>> /\ activeWorkspace = 1
        /\ nextPaneId \in 1 .. MaxPanes
        /\ \A p \in Live : p < nextPaneId
        /\ Live = UNION {T[t] : t \in D}
    BY <1>3, OneWorkspaceInv
  <2>2. nextPaneId \in 0 .. MaxPanes
    BY <1>1, <2>1
  <2> QED  BY <1>3, <2>1, <2>2 DEF DaemonInv
<1>4. CASE Seeded /\ running = {}
  <2>1. PICK T : T = [t \in {0} |-> {0}]
    OBVIOUS
  <2>2. DOMAIN T = {0} /\ T[0] = {0}
    BY <2>1
  <2>3. InOrder(<<0>>, 1, {0}, T, 1, 1)
    BY <1>1, <1>2, <2>2 DEF InOrder
  <2>4. OneWorkspace(<<0>>, 1, {0}, T, 1, 1)
    BY <1>2, <1>4, <2>2 DEF Seeded, OneWorkspace
  <2> QED  BY <1>3, <1>4, <2>3, <2>4
<1>5. CASE /\ LeftBehind(<<0>>, 1, [t \in {0} |-> {0, 1}], 2)
           /\ running = {0, 1}
  <2>1. PICK T : T = [t \in {0} |-> {0, 1}]
    OBVIOUS
  <2>2. DOMAIN T = {0} /\ T[0] = {0, 1}
    BY <2>1
  <2>3. InOrder(<<0>>, 1, {0}, T, 2, 1)
    BY <1>1, <1>2, <2>2 DEF InOrder
  <2>4. OneWorkspace(<<0>>, 1, {0}, T, 2, 1)
    BY <1>5, <2>1, <2>2, <2>3, SmallSets, LeftBehindIs
  <2>5. running \subseteq UNION {T[t] : t \in {0}}
    BY <1>5, <2>2
  <2> QED  BY <1>3, <2>3, <2>4, <2>5
<1>6. CASE /\ LeftBehind(<<1>>, 1, [t \in {1} |-> {1}], 2)
           /\ running = {1}
  <2>1. PICK T : T = [t \in {1} |-> {1}]
    OBVIOUS
  <2>2. DOMAIN T = {1} /\ T[1] = {1}
    BY <2>1
  <2>3. InOrder(<<1>>, 1, {1}, T, 2, 2)
    BY <1>1, <1>2, <2>2 DEF InOrder
  <2>4. OneWorkspace(<<1>>, 1, {1}, T, 2, 2)
    BY <1>6, <2>1, <2>2, <2>3, SmallSets, LeftBehindIs
  <2>5. running \subseteq UNION {T[t] : t \in {1}}
    BY <1>6, <2>2
  <2> QED  BY <1>3, <2>3, <2>4, <2>5
<1>7. CASE /\ LeftBehind(<<0, 1>>, 2, [t \in {0, 1} |-> {t}], 2)
           /\ running = {0, 1}
  <2>1. PICK T : T = [t \in {0, 1} |-> {t}]
    OBVIOUS
  <2>2. DOMAIN T = {0, 1} /\ T[0] = {0} /\ T[1] = {1}
    BY <2>1
  <2>3. InOrder(<<0, 1>>, 2, {0, 1}, T, 2, 2)
    BY <1>1, <1>2, <2>2 DEF InOrder
  <2>4. OneWorkspace(<<0, 1>>, 2, {0, 1}, T, 2, 2)
    BY <1>7, <2>1, <2>2, <2>3, SmallSets, LeftBehindIs
  <2>5. running \subseteq UNION {T[t] : t \in {0, 1}}
    BY <1>7, <2>2
  <2> QED  BY <1>3, <2>3, <2>4, <2>5
<1> QED  BY <1>4, <1>5, <1>6, <1>7 DEF Init

\* The client's first request, and a mirror that promises nothing yet.
LEMMA InitKeeps == Init => MirrorInv
<1> SUFFICES ASSUME Init PROVE MirrorInv
  OBVIOUS
<1>1. DaemonInv /\ nextPaneId \in 1 .. MaxPanes
  BY InitDaemon
<1>2. /\ 0 < nextPaneId /\ 0 \in PaneIds /\ 0 \in 0 .. MaxActions
      /\ NoTab \notin TabIds
  BY <1>1, BoundsAssumption, GuiBoundsAssumption DEF PaneIds
<1>3. [op |-> "ListTabs", id |-> 0, n |-> 0]
        \in [op : {"NewTab", "ListTabs"}, id : {0}, n : 0 .. MaxActions]
  BY <1>2
<1>4. PICK q \in Asks : q = [op |-> "ListTabs", id |-> 0, n |-> 0]
  BY <1>3 DEF Asks
<1>5. q.op = "ListTabs" /\ q.n = 0 /\ toDaemon = <<q>>
  BY <1>4 DEF Init
<1>6. /\ \A ops, d : LastOf(toDaemon, ops, d) = IF q.op \in ops THEN q ELSE d
      /\ \A ops : Has(toDaemon, ops) <=> q.op \in ops
      /\ ToSet(toDaemon) = {q} /\ toDaemon \in Seq(Asks)
  BY <1>5, SendsOne
<1>7. toClient = <<>> /\ ToSet(toClient) = {}
  BY SendsNone DEF Init
<1>8. running \in SUBSET PaneIds
  <2>1. running \subseteq Live /\ layout \in [TabIds -> SUBSET PaneIds]
    BY <1>1 DEF DaemonInv, MuxInv, MuxTypeOK
  <2> QED  BY <2>1, LiveMeans
<1>9. SyncTypeOK
  <2>1. /\ known \in Strips
        /\ toClient \in Seq(Events)
    BY <1>7 DEF Init, Strips
  <2>2. /\ sentDims \in [PaneIds -> [panes : SUBSET PaneIds, bar : BOOLEAN]]
        /\ published \in [tab : TabIds \cup {NoTab}, panes : SUBSET PaneIds]
    BY <1>2 DEF Init, Unsent
  <2>3. actions \in 0 .. MaxActions /\ closes \in 0 .. actions
    BY <1>2 DEF Init
  <2>4. /\ views \in SUBSET PaneIds /\ focused \in PaneIds
        /\ tree \in SUBSET PaneIds
        /\ pendingFocus \in PaneIds \cup {NoPane} /\ missed \in BOOLEAN
        /\ knownActive \in TabIds \cup {NoTab}
        /\ refocus \in BOOLEAN /\ redrawn \in {"no", "first", "late"}
        /\ closing \in SUBSET [n : 0 .. closes, pane : PaneIds]
    BY <1>2 DEF Init
  <2> QED  BY <1>6, <1>8, <2>1, <2>2, <2>3, <2>4 DEF SyncTypeOK
<1>10. ~ ShownLives /\ tree = {} /\ closing = {} /\ refocus = FALSE
       /\ closes = 0 /\ focused = 0 /\ views = {0} /\ knownActive = NoTab
       /\ \A p \in PaneIds : sentDims[p] = Unsent
  BY <1>2 DEF Init, ShownLives
<1>11. Heard
  BY <1>2, <1>7, <1>10 DEF Heard
<1>12. Relisting
  BY <1>5, <1>6 DEF Relisting
<1>13. ListRight
  BY <1>5, <1>6, <1>7, <1>10, <1>12 DEF ListRight
<1>14. TreeRight
  <2>1. LastOf(toDaemon, {"GetLayoutTree"}, AskedNow) = AskedNow
    BY <1>5, <1>6
  <2> QED  BY <1>10, <2>1 DEF TreeRight, AskedNow
<1>15. FocusRight
  <2>1. LastOf(toDaemon, {"SplitPane", "FocusPane"}, ToldNow) = ToldNow
    BY <1>5, <1>6
  <2> QED  BY <1>10, <1>12, <2>1 DEF FocusRight, ToldNow
<1>16. SizesRight
  <2>1. Live \subseteq PaneIds
    BY <1>1, LiveMeans DEF DaemonInv, MuxInv, MuxTypeOK
  <2> QED  BY <1>10, <2>1 DEF SizesRight
<1>17. ClosesRight
  <2>1. \A m \in ToSet(toDaemon) : m.op = "ListTabs" /\ m.n <= closes
    BY <1>5, <1>6, <1>10
  <2> QED  BY <1>7, <1>10, <2>1 DEF ClosesRight
<1> QED  BY <1>1, <1>9, <1>11, <1>13, <1>14, <1>15, <1>16, <1>17 DEF MirrorInv

-----------------------------------------------------------------------------
\* Every step.

\* Nothing happens.
LEMMA RestKeeps ==
  ASSUME MirrorInv, UNCHANGED vars
  PROVE  MirrorInv'
<1>1. UNCHANGED <<views, focused, tree, pendingFocus, missed, known,
                  knownActive, refocus, closing, sentDims, redrawn, published,
                  closes, actions, toDaemon, toClient, running, daemonVars>>
  BY DEF vars, clientVars, mirrorVars, viewVars, closeVars, daemonVars
<1>2. ClientSends(<<>>)
  BY <1>1, NothingSent
<1>3. UNCHANGED <<NewestList, NewestTree, Adopting, nextPaneId, nextTabId>>
      /\ DaemonInv'
  BY <1>1, <1>2, QueueStays, ClientSendsFacts
<1>4. (Relisting => Relisting') /\ (FocusWaits => FocusWaits')
  BY <1>1, <1>3 DEF Relisting, FocusWaits, Fetching
<1>5. SyncTypeOK'
  BY <1>1 DEF MirrorInv, SyncTypeOK
<1>6. Heard'
  BY <1>1, <1>3 DEF MirrorInv, Heard
<1>7. ListRight'
  BY <1>1, <1>2, <1>3, <1>4, SendsNone, ListStays DEF MirrorInv, ListRight
<1>8. TreeRight'
  BY <1>1, <1>2, <1>3, SendsNone, TreeStays
<1>9. FocusRight'
  BY <1>1, <1>2, <1>3, <1>4, SendsNone, FocusStays
<1>10. SizesRight'
  BY <1>1, <1>2, SizesStay
<1>11. ClosesRight'
  BY <1>1, <1>2, SendsNone, ClosesStay
<1> QED  BY <1>3, <1>5, <1>6, <1>7, <1>8, <1>9, <1>10, <1>11 DEF MirrorInv

LEMMA StepKeeps == MirrorInv /\ [Next]_vars => MirrorInv'
  BY UserKeeps, TitleSetKeeps, FirstRedrawKeeps, ServeKeeps, HandleKeeps, RestKeeps
     DEF Next

-----------------------------------------------------------------------------
\* What the invariant says.

\* A live tab's focused pane is one of its panes.
LEMMA TabsAreFocused ==
  ASSUME DaemonInv
  PROVE  \A t \in TabIds : layout[t] # {} => focusedPane[t] \in layout[t]
<1> SUFFICES ASSUME NEW t \in TabIds, layout[t] # {}
             PROVE  focusedPane[t] \in layout[t]
  OBVIOUS
<1>1. PICK i \in DOMAIN workspaces :
        \E j \in DOMAIN tabs[workspaces[i]] : tabs[workspaces[i]][j] = t
  BY DEF DaemonInv, MuxInv, TabsListed
<1>2. t \in TabsOf(workspaces[i])
  BY <1>1 DEF TabsOf
<1> QED  BY <1>1, <1>2 DEF DaemonInv, MuxInv, FocusValid

LEMMA TypesHold == MirrorInv => TypeOK
<1> SUFFICES ASSUME MirrorInv PROVE TypeOK
  OBVIOUS
<1>1. SyncTypeOK /\ DaemonInv
  BY DEF MirrorInv
<1>2. closes \in 0 .. MaxActions /\ (0 .. closes) \subseteq 0 .. MaxActions
  BY <1>1, GuiBoundsAssumption DEF SyncTypeOK
<1>3. Asks \subseteq Requests
  <2>1. 0 \in PaneIds \cup TabIds
    BY BoundsAssumption DEF PaneIds
  <2> QED  BY <2>1 DEF Asks, Requests
<1>4. toDaemon \in Seq(Requests)
  BY <1>1, <1>3 DEF SyncTypeOK
<1>5. closing \in SUBSET [n : 0 .. MaxActions, pane : PaneIds]
  BY <1>1, <1>2 DEF SyncTypeOK
<1>6. running \in SUBSET Live
  BY <1>1 DEF DaemonInv
<1> QED  BY <1>1, <1>4, <1>5, <1>6, TabsAreFocused DEF SyncTypeOK, TypeOK

\* When nothing is on its way, nothing is left to correct.
LEMMA QuietFacts ==
  ASSUME MirrorInv, Quiet
  PROVE  /\ ShownLives /\ Names(known) = tabs[0]
         /\ tree = layout[knownActive] /\ tree # {} /\ tree \subseteq Live
         /\ knownActive = ActiveTabId
         /\ focused \in tree /\ (missed \/ Heeded)
         /\ published.tab = knownActive /\ published.panes = tree
         /\ closing = {}
<1>1. /\ toDaemon = <<>> /\ toClient = <<>>
      /\ \A ops : ~ Has(toDaemon, ops) /\ ~ Has(toClient, ops)
      /\ \A ops, d : LastOf(toDaemon, ops, d) = d /\ LastOf(toClient, ops, d) = d
      /\ ToSet(toDaemon) = {} /\ ToSet(toClient) = {}
  BY SendsNone DEF Quiet
<1>2. ~ Relisting /\ ~ Fetching /\ ~ Adopting /\ ~ Telling
  BY <1>1 DEF Relisting, Fetching, Adopting, Telling
<1>3. NewestList = Adopted /\ NewestTree = tree
  BY <1>1 DEF NewestList, NewestTree, AdoptedTree
<1>4. Adopted.active = knownActive /\ Adopted.strip = known
  BY DEF Adopted
<1>5. /\ Names(known) = tabs[0] /\ ShownLives /\ ~ refocus
  BY <1>1, <1>2, <1>3, <1>4 DEF MirrorInv, ListRight, ShownLives
<1>6. tree = layout[knownActive] /\ published.tab = knownActive
  BY <1>1, <1>2, <1>3, <1>5 DEF MirrorInv, TreeRight
<1>7. tree # {} /\ tree \subseteq Live
  BY <1>5, <1>6, LiveMeans DEF ShownLives
<1>8. published.panes = tree
  BY <1>7 DEF MirrorInv, TreeRight
<1>9. focused \in tree /\ knownActive = ActiveTabId
  BY <1>2, <1>3, <1>4, <1>6, <1>7 DEF MirrorInv, FocusRight
<1>10. missed \/ Heeded
  BY <1>1, <1>2, <1>5 DEF MirrorInv, FocusRight, Heeded
<1>11. closing = {}
  BY <1>1 DEF MirrorInv, ClosesRight
<1> QED  BY <1>5, <1>6, <1>7, <1>8, <1>9, <1>10, <1>11

LEMMA MirrorHolds == MirrorInv => MirrorIsTrue
<1> SUFFICES ASSUME MirrorInv PROVE MirrorIsTrue
  OBVIOUS
<1>1. TypeOK
  BY TypesHold
<1>2. MirrorAgrees
  <2> SUFFICES ASSUME Quiet
               PROVE  /\ knownActive = ActiveTabId
                      /\ Names(known) = tabs[0]
                      /\ tree = layout[ActiveTabId]
                      /\ focused \in tree
                      /\ missed \/ focused = focusedPane[ActiveTabId]
                      /\ published = [tab |-> knownActive, panes |-> tree]
                      /\ closing = {}
    BY DEF MirrorAgrees
  <2>1. /\ ShownLives /\ Names(known) = tabs[0]
        /\ tree = layout[knownActive] /\ knownActive = ActiveTabId
        /\ focused \in tree /\ (missed \/ Heeded)
        /\ published.tab = knownActive /\ published.panes = tree
        /\ closing = {}
    BY QuietFacts
  <2>2. published = [tab |-> knownActive, panes |-> tree]
    BY <2>1 DEF MirrorInv, SyncTypeOK
  <2>3. missed \/ focused = focusedPane[ActiveTabId]
    BY <2>1 DEF Heeded, ShownLives
  <2> QED  BY <2>1, <2>2, <2>3
<1>3. ShellsFit
  <2> SUFFICES ASSUME Quiet
               PROVE  /\ tree \subseteq running
                      /\ redrawn = "first" =>
                           \A p \in tree : sentDims[p] = Geometry(tree, known)
    BY DEF ShellsFit
  <2>1. tree \subseteq Live
    BY QuietFacts
  <2>2. ToSet(toDaemon) = {}
    BY SendsNone DEF Quiet
  <2> QED  BY <2>1, <2>2 DEF MirrorInv, SizesRight
<1> QED  BY <1>1, <1>2, <1>3 DEF MirrorIsTrue

\* Only the answer to a close takes a view away.
LEMMA ViewsGone ==
  MirrorInv /\ [Next]_vars => [\A p \in views \ views' : p \notin Live]_vars
<1> SUFFICES ASSUME MirrorInv, [Next]_vars
             PROVE  \A p \in views \ views' : p \notin Live
  OBVIOUS
<1>1. CASE UNCHANGED vars
  BY <1>1 DEF vars, clientVars, viewVars
<1>2. CASE User
  BY <1>2 DEF User, PressSplit, PressNewTab, PressCloseTab, PressClosePane,
     PressFocus, PressSwitch, viewVars
<1>3. CASE TitleSet \/ FirstRedraw \/ Serve
  BY <1>3 DEF TitleSet, FirstRedraw, Serve, clientVars, viewVars
<1>4. CASE Handle
  <2>1. PICK e : e = Head(toClient)
    OBVIOUS
  <2>2. Popped(e)
    BY <1>4, <2>1 DEF Handle, Popped
  <2>3. \/ views \subseteq views'
        \/ e.op = "PaneClosed" /\ views' = views \ ResolvePaneClose(e.n)
    BY <1>4, <2>1 DEF Handle, OnSplitCreated, OnTabCreated, OnTabClosed,
       OnTitleChanged, OnPaneClosed, OnFailed, OnTabList, OnLayoutTree, viewVars
  <2> QED  BY <2>2, <2>3, ResolvedAreGone
<1> QED  BY <1>1, <1>2, <1>3, <1>4 DEF Next

-----------------------------------------------------------------------------
\* Whatever is on its way between client and daemon, each part of the mirror is
\* right or a message in one of the queues puts it right: the strip and its
\* active tab, the tree, the focus on both sides, the sizes, and the closes in
\* flight (main.rs, layout_state.rs, tab_bar.rs and the daemon's handlers).
THEOREM MirrorHeals == Spec => []MirrorInv
<1>1. Init => MirrorInv
  BY InitKeeps
<1>2. MirrorInv /\ [Next]_vars => MirrorInv'
  BY StepKeeps
<1> QED  BY <1>1, <1>2, PTL DEF Spec

\* Once every request and reply has been handled the client shows the daemon's
\* active tab: its strip, its panes, each of them sized for the window and
\* running a shell, its focused pane unless the log says it was dropped, and no
\* close is waited for, whatever the user did while older answers came in.
THEOREM MirrorTrue == Spec => []MirrorIsTrue
<1>1. MirrorInv => MirrorIsTrue
  BY MirrorHolds
<1> QED  BY <1>1, MirrorHeals, PTL

\* A pane's view is taken away only when the daemon has closed the pane, though
\* the answer carries a serial and no pane, and other closes may be in flight.
THEOREM ViewsGoWithTheirPanes == Spec => ClosedViewsAreClosed
<1>1. MirrorInv /\ [Next]_vars => [\A p \in views \ views' : p \notin Live]_vars
  BY ViewsGone
<1> QED  BY <1>1, MirrorHeals, PTL DEF Spec, ClosedViewsAreClosed
=============================================================================
