------------------------- MODULE MuxStateProofs -------------------------
(***************************************************************************)
(* What the methods of MultiplexerState keep, for any bounds on panes,     *)
(* tabs and workspaces: each lemma takes one operator of MuxState from a   *)
(* state of MuxInv to the next.  LifecycleProofs and GuiSyncProofs use     *)
(* them under their own actions.                                           *)
(***************************************************************************)
EXTENDS MuxState, FiniteSetTheorems, SequenceTheorems, TLAPS

\* Whoever has panes is on display: a tab with panes is listed in a workspace
\* that is listed.
TabsListed ==
    \A t \in TabIds :
      layout[t] # {} =>
        \E i \in DOMAIN workspaces :
          \E j \in DOMAIN tabs[workspaces[i]] : tabs[workspaces[i]][j] = t

\* The ids about to be allocated name nothing yet.
TabIdsFresh ==
    /\ \A i \in DOMAIN workspaces : workspaces[i] < nextWorkspaceId
    /\ \A w \in WorkspaceIds : \A i \in DOMAIN tabs[w] : tabs[w][i] < nextTabId

\* The types of the multiplexer.
MuxTypeOK ==
    /\ workspaces \in Seq(WorkspaceIds)
    /\ activeWorkspace \in Nat \ {0}
    /\ tabs \in [WorkspaceIds -> Seq(TabIds)]
    /\ activeTab \in [WorkspaceIds -> Nat \ {0}]
    /\ layout \in [TabIds -> SUBSET PaneIds]
    /\ focusedPane \in [TabIds -> PaneIds \cup {NoPane}]
    /\ nextTabId \in 0 .. MaxTabs
    /\ nextWorkspaceId \in 0 .. MaxWorkspaces

\* The inductive invariant of the multiplexer.
MuxInv == MuxTypeOK /\ PlacedOnce /\ FocusValid /\ TabsListed /\ TabIdsFresh

\* The invariant speaks of the multiplexer's variables only.
LEMMA MuxRests ==
  ASSUME MuxInv,
         UNCHANGED <<workspaces, activeWorkspace, tabs, activeTab, layout, focusedPane,
                     nextTabId, nextWorkspaceId>>
  PROVE  MuxInv'
<1>1. MuxTypeOK' /\ PlacedOnce'
  BY DEF MuxInv, MuxTypeOK, PlacedOnce
<1>2. FocusValid'
  BY DEF MuxInv, FocusValid, TabsOf
<1>3. TabsListed' /\ TabIdsFresh'
  BY DEF MuxInv, TabsListed, TabIdsFresh
<1>4. QED
  BY <1>1, <1>2, <1>3 DEF MuxInv

-----------------------------------------------------------------------------
\* Sequences: what RemoveAt and a move leave where.
\* The two pieces of a list around position r.
LEMMA Pieces ==
  ASSUME NEW S, NEW s \in Seq(S), NEW m \in 0 .. Len(s), NEW n \in 1 .. Len(s) + 1
  PROVE  /\ SubSeq(s, 1, m) \in Seq(S) /\ SubSeq(s, n, Len(s)) \in Seq(S)
         /\ Len(SubSeq(s, 1, m)) = m
         /\ Len(SubSeq(s, n, Len(s))) = Len(s) - n + 1
         /\ \A k \in 1 .. m : SubSeq(s, 1, m)[k] = s[k]
         /\ \A k \in 1 .. Len(s) - n + 1 : SubSeq(s, n, Len(s))[k] = s[n + k - 1]
<1>1. \A k \in 1 .. Len(s) : s[k] \in S
  OBVIOUS
<1>2. /\ SubSeq(s, 1, m) \in Seq(S)
      /\ Len(SubSeq(s, 1, m)) = IF 1 <= m THEN m - 1 + 1 ELSE 0
      /\ \A k \in 1 .. m - 1 + 1 : SubSeq(s, 1, m)[k] = s[1 + k - 1]
  BY <1>1, SubSeqProperties
<1>3. /\ SubSeq(s, n, Len(s)) \in Seq(S)
      /\ Len(SubSeq(s, n, Len(s))) = IF n <= Len(s) THEN Len(s) - n + 1 ELSE 0
      /\ \A k \in 1 .. Len(s) - n + 1 : SubSeq(s, n, Len(s))[k] = s[n + k - 1]
  BY <1>1, SubSeqProperties
<1>4. QED
  BY <1>2, <1>3

LEMMA Removed ==
  ASSUME NEW S, NEW s \in Seq(S), NEW r \in DOMAIN s
  PROVE  /\ RemoveAt(s, r) \in Seq(S)
         /\ Len(RemoveAt(s, r)) = Len(s) - 1
         /\ \A k \in 1 .. Len(s) - 1 :
              RemoveAt(s, r)[k] = IF k < r THEN s[k] ELSE s[k + 1]
<1> DEFINE n == Len(s)
           left == SubSeq(s, 1, r - 1)
           right == SubSeq(s, r + 1, n)
<1>1. n \in Nat /\ r \in 1 .. n
  OBVIOUS
<1>2. /\ left \in Seq(S) /\ Len(left) = r - 1
      /\ \A k \in 1 .. r - 1 : left[k] = s[k]
  BY <1>1, Pieces
<1>3. /\ right \in Seq(S) /\ Len(right) = n - r
      /\ \A k \in 1 .. n - r : right[k] = s[r + k]
  <2>1. r + 1 \in 1 .. n + 1
    BY <1>1
  <2>2. /\ right \in Seq(S) /\ Len(right) = n - (r + 1) + 1
        /\ \A k \in 1 .. n - (r + 1) + 1 : right[k] = s[(r + 1) + k - 1]
    BY <2>1, Pieces
  <2>3. QED
    BY <1>1, <2>2
<1> HIDE DEF left, right
<1>4. /\ left \o right \in Seq(S)
      /\ Len(left \o right) = n - 1
      /\ \A k \in 1 .. n - 1 :
           (left \o right)[k] = IF k <= r - 1 THEN left[k] ELSE right[k - (r - 1)]
  <2>1. /\ left \o right \in Seq(S)
        /\ Len(left \o right) = Len(left) + Len(right)
        /\ \A k \in 1 .. Len(left) + Len(right) :
             (left \o right)[k] = IF k <= Len(left) THEN left[k] ELSE right[k - Len(left)]
    BY <1>2, <1>3, ConcatProperties
  <2>2. (r - 1) + (n - r) = n - 1
    BY <1>1
  <2>3. QED
    BY <1>2, <1>3, <2>1, <2>2
<1>5. \A k \in 1 .. n - 1 :
        (left \o right)[k] = IF k < r THEN s[k] ELSE s[k + 1]
  <2> TAKE k \in 1 .. n - 1
  <2>1. CASE k < r
    BY <1>1, <1>2, <1>4, <2>1
  <2>2. CASE ~ (k < r)
    <3>1. k - (r - 1) \in 1 .. n - r /\ r + (k - (r - 1)) = k + 1
      BY <1>1, <2>2
    <3>2. right[k - (r - 1)] = s[k + 1]
      BY <1>3, <3>1
    <3>3. QED
      BY <1>1, <1>4, <2>2, <3>2
  <2>3. QED
    BY <2>1, <2>2
<1>6. QED
  BY <1>4, <1>5 DEF RemoveAt, left, right

\* Workspace::close_tab and close_workspace_at: the active index follows.
LEMMA ClampFollows ==
  ASSUME NEW S, NEW s \in Seq(S), NEW r \in DOMAIN s, NEW a \in DOMAIN s
  PROVE  LET b == ClampActive(a, r, Len(s) - 1)
         IN  /\ b \in Nat \ {0}
             /\ Len(s) > 1 => b \in DOMAIN RemoveAt(s, r)
             /\ a # r => RemoveAt(s, r)[b] = s[a]
<1>1. PICK n \in Nat : n = Len(s) /\ DOMAIN s = 1 .. n
  OBVIOUS
<1>2. /\ RemoveAt(s, r) \in Seq(S)
      /\ Len(RemoveAt(s, r)) = n - 1
      /\ \A k \in 1 .. n - 1 : RemoveAt(s, r)[k] = IF k < r THEN s[k] ELSE s[k + 1]
  BY <1>1, Removed
<1>3. DOMAIN RemoveAt(s, r) = 1 .. n - 1
  BY <1>1, <1>2
<1>4. QED
  BY <1>1, <1>2, <1>3 DEF ClampActive

\* MoveTabAt's list.
Moved(s, from, to) == InsertAt(RemoveAt(s, from), to, s[from])

\* Where the item at position k of the moved list was.
Was(from, to, k) ==
    IF k = to THEN from
    ELSE LET m == IF k < to THEN k ELSE k - 1
         IN  IF m < from THEN m ELSE m + 1

LEMMA MovedIsPermuted ==
  ASSUME NEW S, NEW s \in Seq(S), NEW from \in DOMAIN s, NEW to \in DOMAIN s
  PROVE  /\ Moved(s, from, to) \in Seq(S)
         /\ Len(Moved(s, from, to)) = Len(s)
         /\ \A k \in DOMAIN s : /\ Was(from, to, k) \in DOMAIN s
                                /\ Moved(s, from, to)[k] = s[Was(from, to, k)]
<1> DEFINE rest == RemoveAt(s, from)
           n == Len(s)
<1>1. n \in Nat /\ DOMAIN s = 1 .. n /\ from \in 1 .. n /\ to \in 1 .. n
  OBVIOUS
<1>2. /\ rest \in Seq(S)
      /\ Len(rest) = n - 1
      /\ \A k \in 1 .. n - 1 : rest[k] = IF k < from THEN s[k] ELSE s[k + 1]
  BY Removed
<1> HIDE DEF rest
<1> DEFINE left == SubSeq(rest, 1, to - 1)
           right == SubSeq(rest, to, n - 1)
<1>3. /\ left \in Seq(S) /\ Len(left) = to - 1
      /\ \A k \in 1 .. to - 1 : left[k] = rest[k]
  BY <1>1, <1>2, Pieces
<1>4. /\ right \in Seq(S) /\ Len(right) = n - to
      /\ \A k \in 1 .. n - to : right[k] = rest[to + k - 1]
  <2>1. to \in 1 .. Len(rest) + 1
    BY <1>1, <1>2
  <2>2. /\ right \in Seq(S) /\ Len(right) = (n - 1) - to + 1
        /\ \A k \in 1 .. (n - 1) - to + 1 : right[k] = rest[to + k - 1]
    BY <1>2, <2>1, Pieces
  <2>3. QED
    BY <1>1, <2>2
<1> DEFINE item == <<s[from]>>
<1>5. Moved(s, from, to) = left \o item \o right
  BY <1>2 DEF Moved, InsertAt, rest
<1> HIDE DEF left, right
<1>6. item \in Seq(S) /\ Len(item) = 1 /\ item[1] = s[from]
  BY <1>1
<1> HIDE DEF item
<1>7. /\ left \o item \in Seq(S)
      /\ Len(left \o item) = to
      /\ (left \o item)[to] = s[from]
      /\ \A k \in 1 .. to - 1 : (left \o item)[k] = rest[k]
  <2>1. /\ left \o item \in Seq(S)
        /\ Len(left \o item) = Len(left) + Len(item)
        /\ \A k \in 1 .. Len(left) + Len(item) :
             (left \o item)[k] = IF k <= Len(left) THEN left[k] ELSE item[k - Len(left)]
    BY <1>3, <1>6, ConcatProperties
  <2>2. QED
    BY <1>1, <1>3, <1>6, <2>1
<1>8. /\ Moved(s, from, to) \in Seq(S)
      /\ Len(Moved(s, from, to)) = n
      /\ Moved(s, from, to)[to] = s[from]
      /\ \A k \in 1 .. to - 1 : Moved(s, from, to)[k] = rest[k]
      /\ \A k \in to + 1 .. n : Moved(s, from, to)[k] = rest[k - 1]
  <2> DEFINE front == left \o item
  <2>1. front \in Seq(S) /\ Len(front) = to
    BY <1>7
  <2> HIDE DEF front
  <2>2. /\ front \o right \in Seq(S)
        /\ Len(front \o right) = to + Len(right)
        /\ \A k \in 1 .. to + Len(right) :
             (front \o right)[k] = IF k <= to THEN front[k] ELSE right[k - to]
    BY <1>4, <2>1, ConcatProperties
  <2>3. Moved(s, from, to) = front \o right
    BY <1>5 DEF front
  <2>4. \A k \in to + 1 .. n : Moved(s, from, to)[k] = rest[k - 1]
    <3> TAKE k \in to + 1 .. n
    <3>1. k - to \in 1 .. n - to /\ to + (k - to) - 1 = k - 1 /\ k \in 1 .. n
      BY <1>1
    <3>2. right[k - to] = rest[k - 1]
      BY <1>4, <3>1
    <3>3. PICK moved : moved = front \o right
      OBVIOUS
    <3>4. \A i \in 1 .. n : moved[i] = IF i <= to THEN front[i] ELSE right[i - to]
      <4>1. to + Len(right) = n
        BY <1>1, <1>4
      <4>2. QED
        BY <2>2, <3>3, <4>1, Zenon
    <3>5. moved[k] = right[k - to]
      BY <1>1, <3>1, <3>4
    <3>6. QED
      BY <2>3, <3>2, <3>3, <3>5
  <2>5. \A k \in 1 .. to : Moved(s, from, to)[k] = front[k]
    BY <1>1, <1>4, <2>2, <2>3
  <2>6. \A k \in 1 .. to - 1 : Moved(s, from, to)[k] = rest[k]
    <3> TAKE k \in 1 .. to - 1
    <3>1. k \in 1 .. to /\ front[k] = rest[k]
      BY <1>1, <1>7 DEF front
    <3>2. QED
      BY <2>5, <3>1
  <2>7. Moved(s, from, to)[to] = s[from]
    BY <1>1, <1>7, <2>5 DEF front
  <2>8. Moved(s, from, to) \in Seq(S) /\ Len(Moved(s, from, to)) = n
    <3>1. to + Len(right) = n
      BY <1>1, <1>4
    <3>2. QED
      BY <2>2, <2>3, <3>1
  <2>9. QED
    BY <2>4, <2>6, <2>7, <2>8
<1>9. ASSUME NEW k \in 1 .. n
      PROVE  Was(from, to, k) \in 1 .. n /\ Moved(s, from, to)[k] = s[Was(from, to, k)]
  <2>1. CASE k = to
    BY <1>1, <1>8, <2>1 DEF Was
  <2>2. CASE k < to
    BY <1>1, <1>2, <1>8, <2>2 DEF Was
  <2>3. CASE k > to
    <3>1. k - 1 \in 1 .. n - 1
      BY <1>1, <2>3
    <3>2. Moved(s, from, to)[k] = rest[k - 1]
      BY <1>1, <1>8, <2>3
    <3>3. QED
      BY <1>1, <1>2, <2>3, <3>1, <3>2 DEF Was
  <2>4. QED
    BY <1>1, <2>1, <2>2, <2>3
<1>10. QED
  BY <1>1, <1>8, <1>9
-----------------------------------------------------------------------------
\* The multiplexer.

LEMMA Places ==
  ASSUME MuxTypeOK, NEW wi \in DOMAIN workspaces,
         NEW ti \in DOMAIN tabs[workspaces[wi]]
  PROVE  /\ workspaces[wi] \in WorkspaceIds
         /\ tabs[workspaces[wi]] \in Seq(TabIds)
         /\ TabAt(wi, ti) \in TabIds
         /\ wi \in Nat \ {0} /\ ti \in Nat \ {0}
<1>1. workspaces[wi] \in WorkspaceIds /\ wi \in Nat \ {0}
  BY DEF MuxTypeOK
<1>2. tabs[workspaces[wi]] \in Seq(TabIds)
  BY <1>1 DEF MuxTypeOK
<1>3. QED
  BY <1>1, <1>2 DEF TabAt

\* Activating a tab that exists.
LEMMA ActivateKeeps ==
  ASSUME MuxInv, NEW wi \in DOMAIN workspaces,
         NEW ti \in DOMAIN tabs[workspaces[wi]],
         Activate(wi, ti) \/ UNCHANGED <<activeWorkspace, activeTab>>,
         UNCHANGED <<workspaces, tabs>>
  PROVE  /\ activeWorkspace' \in Nat \ {0}
         /\ activeTab' \in [WorkspaceIds -> Nat \ {0}]
         /\ activeWorkspace' \in DOMAIN workspaces'
         /\ \A i \in DOMAIN workspaces' :
              activeTab'[workspaces'[i]] \in DOMAIN tabs'[workspaces'[i]]
<1>1. MuxTypeOK
  BY DEF MuxInv
<1>2. workspaces[wi] \in WorkspaceIds /\ wi \in Nat \ {0} /\ ti \in Nat \ {0}
  BY <1>1, Places
<1>3. CASE UNCHANGED <<activeWorkspace, activeTab>>
  BY <1>3 DEF MuxInv, MuxTypeOK, FocusValid
<1>4. CASE Activate(wi, ti)
  <2>1. activeTab' \in [WorkspaceIds -> Nat \ {0}] /\ activeWorkspace' = wi
    BY <1>1, <1>2, <1>4 DEF Activate, MuxTypeOK
  <2>2. ASSUME NEW i \in DOMAIN workspaces
        PROVE  activeTab'[workspaces[i]] \in DOMAIN tabs[workspaces[i]]
    <3>1. workspaces[i] \in WorkspaceIds
      BY <1>1 DEF MuxTypeOK
    <3>2. QED
      BY <1>1, <1>4, <3>1 DEF Activate, MuxInv, FocusValid, MuxTypeOK
  <2>3. QED
    BY <1>2, <2>1, <2>2
<1>5. QED
  BY <1>3, <1>4

\* Tab::split, with or without the focus following.
LEMMA AddLeafKeeps ==
  ASSUME MuxInv, NEW wi \in DOMAIN workspaces,
         NEW ti \in DOMAIN tabs[workspaces[wi]], NEW new \in PaneIds,
         \A t \in TabIds : new \notin layout[t],
         layout[TabAt(wi, ti)] # {},
         AddLeaf(TabAt(wi, ti), new),
         \/ UNCHANGED focusedPane
         \/ focusedPane' = [focusedPane EXCEPT ![TabAt(wi, ti)] = new],
         Activate(wi, ti) \/ UNCHANGED <<activeWorkspace, activeTab>>,
         UNCHANGED <<workspaces, tabs, nextTabId, nextWorkspaceId>>
  PROVE  MuxInv'
<1> DEFINE here == TabAt(wi, ti)
<1>1. MuxTypeOK /\ here \in TabIds
  BY Places DEF MuxInv
<1> HIDE DEF here
<1>2. layout' = [layout EXCEPT ![here] = @ \cup {new}]
  BY DEF AddLeaf, here
<1>3. \/ UNCHANGED focusedPane
      \/ focusedPane' = [focusedPane EXCEPT ![here] = new]
  BY DEF here
<1>4. /\ activeWorkspace' \in Nat \ {0}
      /\ activeTab' \in [WorkspaceIds -> Nat \ {0}]
      /\ activeWorkspace' \in DOMAIN workspaces'
      /\ \A i \in DOMAIN workspaces' :
           activeTab'[workspaces'[i]] \in DOMAIN tabs'[workspaces'[i]]
  <2>1. Activate(wi, ti) \/ UNCHANGED <<activeWorkspace, activeTab>>
    OBVIOUS
  <2>2. UNCHANGED <<workspaces, tabs>>
    OBVIOUS
  <2>3. QED
    BY <2>1, <2>2, ActivateKeeps, Zenon
<1>5. MuxTypeOK'
  <2>1. layout' \in [TabIds -> SUBSET PaneIds]
    BY <1>1, <1>2 DEF MuxTypeOK
  <2>2. focusedPane' \in [TabIds -> PaneIds \cup {NoPane}]
    BY <1>1, <1>3 DEF MuxTypeOK
  <2>3. QED
    BY <1>1, <1>4, <2>1, <2>2 DEF MuxTypeOK
<1>6. PlacedOnce'
  <2>1. \A s, t \in TabIds : s # t => layout'[s] \cap layout'[t] = {}
    BY <1>1, <1>2 DEF MuxInv, MuxTypeOK, PlacedOnce
  <2>2. QED
    BY <2>1 DEF MuxInv, PlacedOnce
<1>7. FocusValid'
  <2>1. ASSUME NEW i \in DOMAIN workspaces, NEW t \in TabsOf(workspaces[i])
        PROVE  focusedPane'[t] \in layout'[t]
    <3>1. t \in TabIds
      BY <1>1 DEF MuxTypeOK, TabsOf
    <3>2. focusedPane[t] \in layout[t]
      BY DEF MuxInv, FocusValid
    <3>3. QED
      BY <1>1, <1>2, <1>3, <3>1, <3>2 DEF MuxTypeOK
  <2>2. QED
    BY <1>4, <2>1 DEF FocusValid, TabsOf
<1>8. TabsListed'
  <2>1. \A t \in TabIds : layout'[t] # {} => layout[t] # {}
    BY <1>1, <1>2 DEF MuxTypeOK, here
  <2>2. QED
    BY <2>1 DEF MuxInv, TabsListed
<1>9. TabIdsFresh'
  BY DEF MuxInv, TabIdsFresh
<1>10. QED
  BY <1>5, <1>6, <1>7, <1>8, <1>9 DEF MuxInv

\* MultiplexerState::focus_pane.
LEMMA FocusKeeps ==
  ASSUME MuxInv, NEW p, NEW wi, NEW ti, FocusAt(p, wi, ti)
  PROVE  MuxInv'
<1>1. /\ wi \in DOMAIN workspaces /\ ti \in DOMAIN tabs[workspaces[wi]]
      /\ p \in layout[TabAt(wi, ti)]
      /\ focusedPane' = [focusedPane EXCEPT ![TabAt(wi, ti)] = p]
      /\ Activate(wi, ti)
      /\ UNCHANGED <<workspaces, tabs, layout, nextTabId, nextWorkspaceId>>
  BY DEF FocusAt, Located, idVars
<1>2. MuxTypeOK /\ TabAt(wi, ti) \in TabIds
  BY <1>1, Places DEF MuxInv
<1>3. p \in PaneIds
  BY <1>1, <1>2 DEF MuxTypeOK
<1>4. /\ activeWorkspace' \in Nat \ {0}
      /\ activeTab' \in [WorkspaceIds -> Nat \ {0}]
      /\ activeWorkspace' \in DOMAIN workspaces'
      /\ \A i \in DOMAIN workspaces' :
           activeTab'[workspaces'[i]] \in DOMAIN tabs'[workspaces'[i]]
  BY <1>1, ActivateKeeps
<1>5. MuxTypeOK'
  BY <1>1, <1>2, <1>3, <1>4 DEF MuxTypeOK
<1>6. FocusValid'
  <2>1. ASSUME NEW i \in DOMAIN workspaces, NEW t \in TabsOf(workspaces[i])
        PROVE  focusedPane'[t] \in layout[t]
    <3>1. t \in TabIds
      BY <1>2 DEF MuxTypeOK, TabsOf
    <3>2. focusedPane[t] \in layout[t]
      BY DEF MuxInv, FocusValid
    <3>3. QED
      BY <1>1, <1>2, <3>1, <3>2 DEF MuxTypeOK
  <2>2. QED
    BY <1>1, <1>4, <2>1 DEF FocusValid, TabsOf
<1>7. PlacedOnce' /\ TabsListed' /\ TabIdsFresh'
  BY <1>1 DEF MuxInv, PlacedOnce, TabsListed, TabIdsFresh
<1>8. QED
  BY <1>5, <1>6, <1>7 DEF MuxInv
\* MultiplexerState::move_tab.
LEMMA MoveTabKeeps ==
  ASSUME MuxInv, NEW wi \in DOMAIN workspaces,
         NEW from \in DOMAIN tabs[workspaces[wi]],
         NEW to \in DOMAIN tabs[workspaces[wi]], MoveTabAt(wi, from, to)
  PROVE  MuxInv'
<1> DEFINE w == workspaces[wi]
           old == tabs[w]
           new == Moved(old, from, to)
<1>1. MuxTypeOK /\ w \in WorkspaceIds /\ old \in Seq(TabIds)
  BY Places DEF MuxInv
<1>2. /\ new \in Seq(TabIds) /\ DOMAIN new = DOMAIN old
      /\ \A k \in DOMAIN old : /\ Was(from, to, k) \in DOMAIN old
                               /\ new[k] = old[Was(from, to, k)]
  <2>1. /\ new \in Seq(TabIds) /\ Len(new) = Len(old)
        /\ \A k \in DOMAIN old : /\ Was(from, to, k) \in DOMAIN old
                                 /\ new[k] = old[Was(from, to, k)]
    <3> HIDE DEF old
    <3>1. from \in DOMAIN old /\ to \in DOMAIN old
      BY DEF old
    <3>2. QED
      BY <1>1, <3>1, MovedIsPermuted
  <2>2. QED
    BY <1>1, <2>1
<1>3. PICK k \in DOMAIN new : /\ new[k] = old[activeTab[w]]
                              /\ activeTab' = [activeTab EXCEPT ![w] = k]
  BY DEF MoveTabAt, Moved
<1>4. tabs' = [tabs EXCEPT ![w] = new]
  BY DEF MoveTabAt, Moved
<1>5. UNCHANGED <<workspaces, activeWorkspace, layout, focusedPane, nextTabId,
                  nextWorkspaceId>>
  BY DEF MoveTabAt, treeVars, idVars
<1>6. \A i, j \in DOMAIN old : Was(from, to, i) = Was(from, to, j) => i = j
  <2>1. DOMAIN old \subseteq Nat /\ from \in Nat /\ to \in Nat
    BY <1>1
  <2>2. QED
    BY <2>1 DEF Was
<1>7. \A t \in DOMAIN old : \E j \in DOMAIN old : Was(from, to, j) = t
  <2>1. PICK n \in Nat : DOMAIN old = 1 .. n
    BY <1>1
  <2> SUFFICES ASSUME NEW t \in 1 .. n PROVE \E j \in 1 .. n : Was(from, to, j) = t
    BY <2>1
  <2> DEFINE back == IF t = from THEN to
                     ELSE LET m == IF t < from THEN t ELSE t - 1
                          IN  IF m < to THEN m ELSE m + 1
  <2>2. back \in 1 .. n /\ Was(from, to, back) = t
    BY <2>1 DEF Was
  <2>3. QED
    BY <2>2
<1> HIDE DEF new, old, w
<1>8. \A v \in WorkspaceIds : tabs'[v] = IF v = w THEN new ELSE tabs[v]
  BY <1>1, <1>4 DEF MuxTypeOK
<1>9. \A i, j \in DOMAIN old : old[i] = old[j] => i = j
  BY <1>1 DEF MuxInv, PlacedOnce, old
<1>10. MuxTypeOK'
  <2>1. k \in Nat \ {0}
    BY <1>2
  <2>2. QED
    BY <1>1, <1>2, <1>3, <1>4, <1>5, <2>1 DEF MuxTypeOK
<1>11. ASSUME NEW t \in TabIds
       PROVE  (\E j \in DOMAIN new : new[j] = t) <=> \E j \in DOMAIN old : old[j] = t
  BY <1>2, <1>7
<1>12. PlacedOnce'
  <2>1. ASSUME NEW v \in WorkspaceIds, NEW u \in WorkspaceIds,
               NEW i \in DOMAIN tabs'[v], NEW j \in DOMAIN tabs'[u],
               tabs'[v][i] = tabs'[u][j]
        PROVE  v = u /\ i = j
    <3>1. CASE v = w /\ u = w
      BY <1>2, <1>6, <1>8, <1>9, <2>1, <3>1
    <3>2. CASE v = w /\ u # w
      <4>1. old[Was(from, to, i)] = tabs[u][j] /\ Was(from, to, i) \in DOMAIN tabs[w]
            /\ j \in DOMAIN tabs[u]
        BY <1>2, <1>8, <2>1, <3>2 DEF old
      <4>2. QED
        BY <1>1, <3>2, <4>1 DEF MuxInv, PlacedOnce, old
    <3>3. CASE v # w /\ u = w
      <4>1. old[Was(from, to, j)] = tabs[v][i] /\ Was(from, to, j) \in DOMAIN tabs[w]
            /\ i \in DOMAIN tabs[v]
        BY <1>2, <1>8, <2>1, <3>3 DEF old
      <4>2. QED
        BY <1>1, <3>3, <4>1 DEF MuxInv, PlacedOnce, old
    <3>4. CASE v # w /\ u # w
      BY <1>8, <2>1, <3>4 DEF MuxInv, PlacedOnce
    <3>5. QED
      BY <3>1, <3>2, <3>3, <3>4
  <2>2. QED
    BY <1>5, <2>1 DEF MuxInv, PlacedOnce
<1>13. ASSUME NEW i \in DOMAIN workspaces
       PROVE  /\ workspaces[i] \in WorkspaceIds
              /\ activeTab'[workspaces[i]] \in DOMAIN tabs'[workspaces[i]]
              /\ \A t \in TabIds :
                   (\E j \in DOMAIN tabs'[workspaces[i]] : tabs'[workspaces[i]][j] = t)
                   <=> \E j \in DOMAIN tabs[workspaces[i]] : tabs[workspaces[i]][j] = t
  <2>1. workspaces[i] \in WorkspaceIds
    BY <1>1 DEF MuxTypeOK
  <2>2. activeTab'[workspaces[i]] \in DOMAIN tabs'[workspaces[i]]
    BY <1>1, <1>3, <1>8, <2>1 DEF MuxInv, FocusValid, MuxTypeOK
  <2>3. QED
    BY <1>8, <1>11, <2>1, <2>2 DEF old
<1>14. FocusValid'
  <2>1. ASSUME NEW i \in DOMAIN workspaces,
               NEW j \in DOMAIN tabs'[workspaces[i]]
        PROVE  LET t == tabs'[workspaces[i]][j] IN focusedPane[t] \in layout[t]
    <3>1. tabs'[workspaces[i]][j] \in TabIds
      BY <1>10, <1>13, <2>1 DEF MuxTypeOK
    <3>2. tabs'[workspaces[i]][j] \in TabsOf(workspaces[i])
      BY <1>13, <2>1, <3>1 DEF TabsOf
    <3>3. QED
      BY <3>2 DEF MuxInv, FocusValid
  <2>2. QED
    BY <1>5, <1>13, <2>1 DEF MuxInv, FocusValid, TabsOf
<1>15. TabsListed'
  BY <1>5, <1>13 DEF MuxInv, TabsListed
<1>16. TabIdsFresh'
  <2>1. ASSUME NEW v \in WorkspaceIds, NEW i \in DOMAIN tabs'[v]
        PROVE  tabs'[v][i] < nextTabId
    <3>1. CASE v = w
      BY <1>1, <1>2, <1>8, <2>1, <3>1 DEF MuxInv, TabIdsFresh, old
    <3>2. CASE v # w
      BY <1>8, <2>1, <3>2 DEF MuxInv, TabIdsFresh
    <3>3. QED
      BY <3>1, <3>2
  <2>2. QED
    BY <1>5, <2>1 DEF MuxInv, TabIdsFresh
<1>17. QED
  BY <1>10, <1>12, <1>14, <1>15, <1>16 DEF MuxInv

\* What is about to be allocated is in no list and has no panes.
LEMMA FreshTab ==
  ASSUME MuxInv, nextTabId < MaxTabs
  PROVE  /\ nextTabId \in TabIds
         /\ layout[nextTabId] = {}
         /\ \A w \in WorkspaceIds : \A j \in DOMAIN tabs[w] : tabs[w][j] # nextTabId
<1>1. nextTabId \in TabIds
  BY BoundsAssumption DEF MuxInv, MuxTypeOK, TabIds
<1>2. \A w \in WorkspaceIds : \A j \in DOMAIN tabs[w] : tabs[w][j] # nextTabId
  <2>1. \A t \in TabIds : t < nextTabId => t # nextTabId
    BY <1>1 DEF TabIds
  <2>2. QED
    BY <1>1, <2>1 DEF MuxInv, TabIdsFresh, MuxTypeOK
<1>3. layout[nextTabId] = {}
  <2>1. \A i \in DOMAIN workspaces : workspaces[i] \in WorkspaceIds
    BY DEF MuxInv, MuxTypeOK
  <2>2. QED
    BY <1>1, <1>2, <2>1 DEF MuxInv, TabsListed
<1>4. QED
  BY <1>1, <1>2, <1>3

\* MultiplexerState::new_tab.
LEMMA NewTabKeeps ==
  ASSUME MuxInv, NEW pane \in PaneIds, \A t \in TabIds : pane \notin layout[t],
         NewTabIn(pane)
  PROVE  MuxInv'
<1> DEFINE w == workspaces[activeWorkspace]
           t0 == nextTabId
           n == Len(tabs[w])
<1>1. /\ MuxTypeOK /\ w \in WorkspaceIds /\ tabs[w] \in Seq(TabIds)
      /\ activeWorkspace \in DOMAIN workspaces
  BY DEF MuxInv, MuxTypeOK, FocusValid
<1>2. /\ t0 \in TabIds /\ layout[t0] = {}
      /\ \A v \in WorkspaceIds : \A j \in DOMAIN tabs[v] : tabs[v][j] # t0
  BY FreshTab DEF NewTabIn, AllocateTabId
<1>3. /\ nextTabId' = t0 + 1 /\ t0 + 1 \in 0 .. MaxTabs
      /\ layout' = [layout EXCEPT ![t0] = {pane}]
      /\ focusedPane' = [focusedPane EXCEPT ![t0] = pane]
      /\ tabs' = [tabs EXCEPT ![w] = Append(@, t0)]
      /\ activeTab' = [activeTab EXCEPT ![w] = n + 1]
      /\ UNCHANGED <<workspaces, activeWorkspace, nextWorkspaceId>>
  BY <1>1, BoundsAssumption DEF NewTabIn, AllocateTabId, MuxTypeOK
<1>4. n \in Nat /\ DOMAIN tabs[w] = 1 .. n
  BY <1>1
<1>5. /\ tabs'[w] \in Seq(TabIds) /\ DOMAIN tabs'[w] = 1 .. n + 1
      /\ tabs'[w][n + 1] = t0
      /\ \A j \in 1 .. n : tabs'[w][j] = tabs[w][j]
      /\ \A v \in WorkspaceIds : v # w => tabs'[v] = tabs[v]
  BY <1>1, <1>2, <1>3 DEF MuxTypeOK
<1> HIDE DEF w, t0, n
<1>6. MuxTypeOK'
  <2>1. tabs' \in [WorkspaceIds -> Seq(TabIds)]
    BY <1>1, <1>3, <1>5 DEF MuxTypeOK
  <2>2. activeTab' \in [WorkspaceIds -> Nat \ {0}]
    BY <1>1, <1>3, <1>4 DEF MuxTypeOK
  <2>3. QED
    BY <1>1, <1>2, <1>3, <2>1, <2>2 DEF MuxTypeOK
<1>7. PlacedOnce'
  <2>1. \A s, t \in TabIds : s # t => layout'[s] \cap layout'[t] = {}
    BY <1>1, <1>2, <1>3 DEF MuxInv, PlacedOnce, MuxTypeOK
  <2>2. ASSUME NEW v \in WorkspaceIds, NEW u \in WorkspaceIds,
               NEW i \in DOMAIN tabs'[v], NEW j \in DOMAIN tabs'[u],
               tabs'[v][i] = tabs'[u][j]
        PROVE  v = u /\ i = j
    <3>1. \A x \in WorkspaceIds : \A k \in DOMAIN tabs'[x] :
            \/ k \in DOMAIN tabs[x] /\ tabs'[x][k] = tabs[x][k] /\ tabs[x][k] # t0
            \/ x = w /\ k = n + 1 /\ tabs'[x][k] = t0
      BY <1>2, <1>4, <1>5
    <3>2. QED
      BY <2>2, <3>1 DEF MuxInv, PlacedOnce
  <2>3. QED
    BY <1>3, <2>1, <2>2 DEF MuxInv, PlacedOnce
<1>8. ASSUME NEW i \in DOMAIN workspaces
      PROVE  /\ workspaces[i] \in WorkspaceIds
             /\ activeTab'[workspaces[i]] \in DOMAIN tabs'[workspaces[i]]
             /\ \A j \in DOMAIN tabs[workspaces[i]] :
                  /\ j \in DOMAIN tabs'[workspaces[i]]
                  /\ tabs'[workspaces[i]][j] = tabs[workspaces[i]][j]
             /\ \A j \in DOMAIN tabs'[workspaces[i]] :
                  LET t == tabs'[workspaces[i]][j] IN focusedPane'[t] \in layout'[t]
  <2>1. workspaces[i] \in WorkspaceIds
    BY <1>1 DEF MuxTypeOK
  <2>2. activeTab'[workspaces[i]] \in DOMAIN tabs'[workspaces[i]]
    <3>1. CASE workspaces[i] = w
      BY <1>1, <1>3, <1>4, <1>5, <3>1 DEF MuxTypeOK
    <3>2. CASE workspaces[i] # w
      BY <1>1, <1>3, <1>5, <2>1, <3>2 DEF MuxInv, FocusValid, MuxTypeOK
    <3>3. QED
      BY <3>1, <3>2
  <2>3. \A j \in DOMAIN tabs[workspaces[i]] :
          /\ j \in DOMAIN tabs'[workspaces[i]]
          /\ tabs'[workspaces[i]][j] = tabs[workspaces[i]][j]
    BY <1>4, <1>5, <2>1
  <2>4. ASSUME NEW j \in DOMAIN tabs'[workspaces[i]]
        PROVE  LET t == tabs'[workspaces[i]][j] IN focusedPane'[t] \in layout'[t]
    <3>1. CASE tabs'[workspaces[i]][j] = t0
      BY <1>1, <1>2, <1>3, <3>1 DEF MuxTypeOK
    <3>2. CASE tabs'[workspaces[i]][j] # t0
      <4>1. /\ j \in DOMAIN tabs[workspaces[i]]
            /\ tabs'[workspaces[i]][j] = tabs[workspaces[i]][j]
        BY <1>4, <1>5, <2>1, <3>2
      <4>2. tabs[workspaces[i]][j] \in TabIds
        BY <1>1, <2>1, <4>1 DEF MuxTypeOK
      <4>3. focusedPane[tabs[workspaces[i]][j]] \in layout[tabs[workspaces[i]][j]]
        BY <4>1 DEF MuxInv, FocusValid, TabsOf
      <4>4. QED
        BY <1>1, <1>3, <3>2, <4>1, <4>2, <4>3 DEF MuxTypeOK
    <3>3. QED
      BY <3>1, <3>2
  <2>5. QED
    BY <2>1, <2>2, <2>3, <2>4
<1>9. FocusValid'
  BY <1>1, <1>3, <1>8 DEF FocusValid, TabsOf
<1>10. TabsListed'
  <2>1. ASSUME NEW t \in TabIds, layout'[t] # {}
        PROVE  \E i \in DOMAIN workspaces : \E j \in DOMAIN tabs'[workspaces[i]] :
                 tabs'[workspaces[i]][j] = t
    <3>1. CASE t = t0
      BY <1>1, <1>4, <1>5, <3>1 DEF w
    <3>2. CASE t # t0
      <4>1. layout[t] # {}
        BY <1>1, <1>3, <2>1, <3>2 DEF MuxTypeOK
      <4>2. QED
        BY <1>8, <4>1 DEF MuxInv, TabsListed
    <3>3. QED
      BY <3>1, <3>2
  <2>2. QED
    BY <1>3, <2>1 DEF TabsListed
<1>11. TabIdsFresh'
  <2>1. ASSUME NEW v \in WorkspaceIds, NEW i \in DOMAIN tabs'[v]
        PROVE  tabs'[v][i] < t0 + 1
    <3>1. CASE tabs'[v][i] = t0
      BY <1>2, <3>1, BoundsAssumption DEF TabIds
    <3>2. CASE tabs'[v][i] # t0
      <4>1. i \in DOMAIN tabs[v] /\ tabs'[v][i] = tabs[v][i] /\ tabs[v][i] \in TabIds
        <5>1. i \in DOMAIN tabs[v] /\ tabs'[v][i] = tabs[v][i]
          <6>1. CASE v = w
            BY <1>4, <1>5, <3>2, <6>1
          <6>2. CASE v # w
            BY <1>5, <6>2
          <6>3. QED
            BY <6>1, <6>2
        <5>2. tabs[v] \in Seq(TabIds)
          BY <1>1 DEF MuxTypeOK
        <5>3. QED
          BY <5>1, <5>2
      <4>2. tabs[v][i] < t0
        BY <4>1 DEF MuxInv, TabIdsFresh, t0
      <4>3. QED
        BY <1>2, <4>1, <4>2, BoundsAssumption DEF TabIds
    <3>3. QED
      BY <3>1, <3>2
  <2>2. QED
    BY <1>3, <2>1 DEF MuxInv, TabIdsFresh
<1>12. QED
  BY <1>6, <1>7, <1>9, <1>10, <1>11 DEF MuxInv

\* MultiplexerState::new_workspace.
LEMMA NewWorkspaceKeeps ==
  ASSUME MuxInv, NEW pane \in PaneIds, \A t \in TabIds : pane \notin layout[t],
         NewWorkspaceWith(pane)
  PROVE  MuxInv'
<1> DEFINE w0 == nextWorkspaceId
           t0 == nextTabId
           n == Len(workspaces)
<1>1. MuxTypeOK
  BY DEF MuxInv
<1>2. /\ t0 \in TabIds /\ layout[t0] = {}
      /\ \A v \in WorkspaceIds : \A j \in DOMAIN tabs[v] : tabs[v][j] # t0
  BY FreshTab DEF NewWorkspaceWith, AllocateTabId
<1>3. w0 \in WorkspaceIds /\ \A i \in DOMAIN workspaces : workspaces[i] # w0
  BY BoundsAssumption DEF NewWorkspaceWith, AllocateWorkspaceId, WorkspaceIds,
     MuxInv, MuxTypeOK, TabIdsFresh
<1>4. /\ nextTabId' = t0 + 1 /\ t0 + 1 \in 0 .. MaxTabs
      /\ nextWorkspaceId' = w0 + 1 /\ w0 + 1 \in 0 .. MaxWorkspaces
      /\ layout' = [layout EXCEPT ![t0] = {pane}]
      /\ focusedPane' = [focusedPane EXCEPT ![t0] = pane]
      /\ tabs' = [tabs EXCEPT ![w0] = <<t0>>]
      /\ activeTab' = [activeTab EXCEPT ![w0] = 1]
      /\ workspaces' = Append(workspaces, w0)
      /\ activeWorkspace' = n + 1
  BY <1>1, BoundsAssumption
     DEF NewWorkspaceWith, AllocateTabId, AllocateWorkspaceId, MuxTypeOK
<1>5. /\ n \in Nat /\ DOMAIN workspaces = 1 .. n
      /\ workspaces' \in Seq(WorkspaceIds) /\ DOMAIN workspaces' = 1 .. n + 1
      /\ workspaces'[n + 1] = w0
      /\ \A i \in 1 .. n : workspaces'[i] = workspaces[i]
  BY <1>1, <1>3, <1>4 DEF MuxTypeOK
<1>6. /\ tabs'[w0] = <<t0>> /\ <<t0>> \in Seq(TabIds) /\ DOMAIN <<t0>> = {1}
      /\ <<t0>>[1] = t0
      /\ \A v \in WorkspaceIds : v # w0 => tabs'[v] = tabs[v]
  BY <1>1, <1>2, <1>3, <1>4 DEF MuxTypeOK
<1> HIDE DEF w0, t0, n
<1>7. MuxTypeOK'
  <2>1. tabs' \in [WorkspaceIds -> Seq(TabIds)]
    BY <1>1, <1>4, <1>6 DEF MuxTypeOK
  <2>2. QED
    BY <1>1, <1>2, <1>4, <1>5, <2>1 DEF MuxTypeOK
<1>8. PlacedOnce'
  <2>1. \A s, t \in TabIds : s # t => layout'[s] \cap layout'[t] = {}
    BY <1>1, <1>2, <1>4 DEF MuxInv, PlacedOnce, MuxTypeOK
  <2>2. ASSUME NEW v \in WorkspaceIds, NEW u \in WorkspaceIds,
               NEW i \in DOMAIN tabs'[v], NEW j \in DOMAIN tabs'[u],
               tabs'[v][i] = tabs'[u][j]
        PROVE  v = u /\ i = j
    <3>1. \A x \in WorkspaceIds : \A k \in DOMAIN tabs'[x] :
            \/ k \in DOMAIN tabs[x] /\ tabs'[x][k] = tabs[x][k] /\ tabs[x][k] # t0
            \/ x = w0 /\ k = 1 /\ tabs'[x][k] = t0
      BY <1>2, <1>6
    <3>2. QED
      BY <2>2, <3>1 DEF MuxInv, PlacedOnce
  <2>3. \A i, j \in DOMAIN workspaces' : workspaces'[i] = workspaces'[j] => i = j
    <3>1. \A k \in DOMAIN workspaces' :
            \/ k \in DOMAIN workspaces /\ workspaces'[k] = workspaces[k] /\ workspaces[k] # w0
            \/ k = n + 1 /\ workspaces'[k] = w0
      BY <1>3, <1>5
    <3>2. QED
      BY <3>1 DEF MuxInv, PlacedOnce
  <2>4. QED
    BY <2>1, <2>2, <2>3 DEF PlacedOnce
<1>9. ASSUME NEW i \in DOMAIN workspaces
      PROVE  /\ i \in DOMAIN workspaces' /\ workspaces'[i] = workspaces[i]
             /\ workspaces[i] \in WorkspaceIds
             /\ tabs'[workspaces[i]] = tabs[workspaces[i]]
             /\ activeTab'[workspaces[i]] = activeTab[workspaces[i]]
  <2>1. workspaces[i] \in WorkspaceIds /\ workspaces[i] # w0
    BY <1>1, <1>3 DEF MuxTypeOK
  <2>2. QED
    BY <1>1, <1>4, <1>5, <1>6, <2>1 DEF MuxTypeOK
<1>10. FocusValid'
  <2>1. ASSUME NEW i \in DOMAIN workspaces'
        PROVE  /\ activeTab'[workspaces'[i]] \in DOMAIN tabs'[workspaces'[i]]
               /\ \A j \in DOMAIN tabs'[workspaces'[i]] :
                    LET t == tabs'[workspaces'[i]][j] IN focusedPane'[t] \in layout'[t]
    <3>1. CASE i = n + 1
      BY <1>1, <1>2, <1>3, <1>4, <1>5, <1>6, <3>1 DEF MuxTypeOK
    <3>2. CASE i # n + 1
      <4>1. i \in DOMAIN workspaces
        BY <1>5, <3>2
      <4>2. \A j \in DOMAIN tabs[workspaces[i]] :
              LET t == tabs[workspaces[i]][j] IN
                t # t0 /\ t \in TabIds /\ focusedPane[t] \in layout[t]
        <5>1. \A j \in DOMAIN tabs[workspaces[i]] :
                LET t == tabs[workspaces[i]][j] IN focusedPane[t] \in layout[t]
          BY <4>1 DEF MuxInv, FocusValid, TabsOf
        <5>2. QED
          BY <1>1, <1>2, <1>9, <4>1, <5>1 DEF MuxTypeOK
      <4>3. \A t \in TabIds : t # t0 => /\ layout'[t] = layout[t]
                                        /\ focusedPane'[t] = focusedPane[t]
        BY <1>1, <1>4 DEF MuxTypeOK
      <4>4. activeTab[workspaces[i]] \in DOMAIN tabs[workspaces[i]]
        BY <4>1 DEF MuxInv, FocusValid
      <4>5. QED
        BY <1>9, <4>1, <4>2, <4>3, <4>4
    <3>3. QED
      BY <3>1, <3>2
  <2>2. activeWorkspace' \in DOMAIN workspaces'
    BY <1>4, <1>5
  <2>3. QED
    BY <2>1, <2>2 DEF FocusValid, TabsOf
<1>11. TabsListed'
  <2>1. ASSUME NEW t \in TabIds, layout'[t] # {}
        PROVE  \E i \in DOMAIN workspaces' : \E j \in DOMAIN tabs'[workspaces'[i]] :
                 tabs'[workspaces'[i]][j] = t
    <3>1. CASE t = t0
      <4>1. n + 1 \in DOMAIN workspaces' /\ 1 \in DOMAIN tabs'[w0] /\ tabs'[w0][1] = t0
        BY <1>5, <1>6
      <4>2. QED
        BY <1>5, <3>1, <4>1
    <3>2. CASE t # t0
      <4>1. layout[t] # {}
        BY <1>1, <1>4, <2>1, <3>2 DEF MuxTypeOK
      <4>2. QED
        BY <1>9, <4>1 DEF MuxInv, TabsListed
    <3>3. QED
      BY <3>1, <3>2
  <2>2. QED
    BY <2>1 DEF TabsListed
<1>12. TabIdsFresh'
  <2>1. ASSUME NEW v \in WorkspaceIds, NEW i \in DOMAIN tabs'[v]
        PROVE  tabs'[v][i] < t0 + 1
    <3>1. CASE v = w0
      BY <1>2, <1>6, <2>1, <3>1, BoundsAssumption DEF TabIds
    <3>2. CASE v # w0
      <4>1. i \in DOMAIN tabs[v] /\ tabs'[v][i] = tabs[v][i] /\ tabs[v][i] \in TabIds
        BY <1>1, <1>6, <2>1, <3>2 DEF MuxTypeOK
      <4>2. tabs[v][i] < t0
        BY <4>1 DEF MuxInv, TabIdsFresh, t0
      <4>3. QED
        BY <1>2, <4>1, <4>2, BoundsAssumption DEF TabIds
    <3>3. QED
      BY <3>1, <3>2
  <2>2. ASSUME NEW i \in DOMAIN workspaces' PROVE workspaces'[i] < w0 + 1
    <3>1. CASE i = n + 1
      BY <1>3, <1>5, <3>1, BoundsAssumption DEF WorkspaceIds
    <3>2. CASE i # n + 1
      <4>1. i \in DOMAIN workspaces /\ workspaces'[i] = workspaces[i]
            /\ workspaces[i] \in WorkspaceIds
        BY <1>5, <1>9, <3>2
      <4>2. workspaces[i] < w0
        BY <4>1 DEF MuxInv, TabIdsFresh, w0
      <4>3. QED
        BY <1>3, <4>1, <4>2, BoundsAssumption DEF WorkspaceIds
    <3>3. QED
      BY <3>1, <3>2
  <2>3. QED
    BY <1>4, <2>1, <2>2 DEF TabIdsFresh
<1>13. QED
  BY <1>7, <1>8, <1>10, <1>11, <1>12 DEF MuxInv

-----------------------------------------------------------------------------
\* Closing.

\* Where the item at position k of a list stood before the one at r left it.
Kept(r, k) == IF k < r THEN k ELSE k + 1

LEMMA RemovedItems ==
  ASSUME NEW S, NEW s \in Seq(S), NEW r \in DOMAIN s
  PROVE  LET rest == RemoveAt(s, r)
         IN  /\ rest \in Seq(S)
             /\ Len(rest) = Len(s) - 1
             /\ \A k \in DOMAIN rest : /\ Kept(r, k) \in DOMAIN s \ {r}
                                       /\ rest[k] = s[Kept(r, k)]
             /\ \A j, k \in DOMAIN rest : Kept(r, j) = Kept(r, k) => j = k
             /\ \A j \in DOMAIN s : j # r => \E k \in DOMAIN rest : rest[k] = s[j]
<1> DEFINE rest == RemoveAt(s, r)
<1>1. PICK n \in Nat : n = Len(s) /\ DOMAIN s = 1 .. n
  OBVIOUS
<1>2. /\ rest \in Seq(S) /\ Len(rest) = n - 1
      /\ \A k \in 1 .. n - 1 : rest[k] = IF k < r THEN s[k] ELSE s[k + 1]
  BY <1>1, Removed
<1> HIDE DEF rest
<1>3. DOMAIN rest = 1 .. n - 1
  BY <1>1, <1>2
<1>4. \A k \in DOMAIN rest : Kept(r, k) \in DOMAIN s \ {r} /\ rest[k] = s[Kept(r, k)]
  BY <1>1, <1>2, <1>3 DEF Kept
<1>5. \A j, k \in DOMAIN rest : Kept(r, j) = Kept(r, k) => j = k
  BY <1>1, <1>3 DEF Kept
<1>6. ASSUME NEW j \in DOMAIN s, j # r
      PROVE  \E k \in DOMAIN rest : rest[k] = s[j]
  <2>1. CASE j < r
    <3>1. j \in DOMAIN rest /\ rest[j] = s[j]
      BY <1>1, <1>2, <1>3, <2>1
    <3>2. QED
      BY <3>1
  <2>2. CASE j > r
    <3>1. j - 1 \in DOMAIN rest /\ rest[j - 1] = s[j]
      BY <1>1, <1>2, <1>3, <2>2
    <3>2. QED
      BY <3>1
  <2>3. QED
    BY <1>1, <1>6, <2>1, <2>2
<1>7. QED
  BY <1>1, <1>2, <1>4, <1>5, <1>6 DEF rest

\* close_workspace_at, of one workspace of several.
LEMMA DropKeeps ==
  ASSUME MuxInv, NEW wi \in DOMAIN workspaces, Len(workspaces) > 1,
         DropWorkspaceAt(wi)
  PROVE  /\ workspaces' \in Seq(WorkspaceIds)
         /\ activeWorkspace' \in DOMAIN workspaces'
         /\ \A i, j \in DOMAIN workspaces' : workspaces'[i] = workspaces'[j] => i = j
         /\ \A i \in DOMAIN workspaces' :
              \E k \in DOMAIN workspaces : k # wi /\ workspaces'[i] = workspaces[k]
         /\ \A k \in DOMAIN workspaces : k # wi =>
              \E i \in DOMAIN workspaces' : workspaces'[i] = workspaces[k]
         /\ activeWorkspace # wi =>
              workspaces'[activeWorkspace'] = workspaces[activeWorkspace]
<1> DEFINE rest == RemoveAt(workspaces, wi)
<1>1. /\ workspaces \in Seq(WorkspaceIds)
      /\ activeWorkspace \in DOMAIN workspaces
      /\ workspaces' = rest
      /\ activeWorkspace' = ClampActive(activeWorkspace, wi, Len(workspaces) - 1)
  BY DEF MuxInv, MuxTypeOK, FocusValid, DropWorkspaceAt
<1>2. /\ rest \in Seq(WorkspaceIds)
      /\ \A k \in DOMAIN rest : /\ Kept(wi, k) \in DOMAIN workspaces \ {wi}
                                /\ rest[k] = workspaces[Kept(wi, k)]
      /\ \A j, k \in DOMAIN rest : Kept(wi, j) = Kept(wi, k) => j = k
      /\ \A j \in DOMAIN workspaces : j # wi =>
           \E k \in DOMAIN rest : rest[k] = workspaces[j]
  BY <1>1, RemovedItems
<1>3. /\ activeWorkspace' \in DOMAIN rest
      /\ activeWorkspace # wi => rest[activeWorkspace'] = workspaces[activeWorkspace]
  BY <1>1, ClampFollows
<1> HIDE DEF rest
<1>4. \A i, j \in DOMAIN rest : rest[i] = rest[j] => i = j
  BY <1>2 DEF MuxInv, PlacedOnce
<1>5. QED
  BY <1>1, <1>2, <1>3, <1>4

\* Workspace::close_tab, of one tab of several in the multiplexer.
LEMMA CloseTabKeeps ==
  ASSUME MuxInv, NEW wi \in DOMAIN workspaces,
         NEW ti \in DOMAIN tabs[workspaces[wi]],
         Len(workspaces) > 1 \/ Len(tabs[workspaces[wi]]) > 1,
         CloseTabAt(wi, ti)
  PROVE  MuxInv'
<1> DEFINE w == workspaces[wi]
           t0 == TabAt(wi, ti)
           old == tabs[w]
           rest == RemoveAt(old, ti)
<1>1. /\ MuxTypeOK /\ w \in WorkspaceIds /\ old \in Seq(TabIds) /\ t0 \in TabIds
      /\ old[ti] = t0 /\ ti \in DOMAIN old
  BY Places DEF MuxInv, TabAt
<1>2. activeTab[w] \in DOMAIN old
  BY DEF MuxInv, FocusValid
<1>3. /\ rest \in Seq(TabIds) /\ Len(rest) = Len(old) - 1
      /\ \A k \in DOMAIN rest : /\ Kept(ti, k) \in DOMAIN old \ {ti}
                                /\ rest[k] = old[Kept(ti, k)]
      /\ \A j, k \in DOMAIN rest : Kept(ti, j) = Kept(ti, k) => j = k
      /\ \A j \in DOMAIN old : j # ti => \E k \in DOMAIN rest : rest[k] = old[j]
  BY <1>1, RemovedItems
<1>4. /\ ClampActive(activeTab[w], ti, Len(rest)) \in Nat \ {0}
      /\ Len(old) > 1 => ClampActive(activeTab[w], ti, Len(rest)) \in DOMAIN rest
  BY <1>1, <1>2, <1>3, ClampFollows
<1>5. /\ tabs' = [tabs EXCEPT ![w] = rest]
      /\ activeTab' = [activeTab EXCEPT ![w] = ClampActive(@, ti, Len(rest))]
      /\ layout' = [layout EXCEPT ![t0] = {}]
      /\ focusedPane' = [focusedPane EXCEPT ![t0] = NoPane]
      /\ \/ rest = <<>> /\ DropWorkspaceAt(wi)
         \/ rest # <<>> /\ UNCHANGED <<workspaces, activeWorkspace>>
      /\ UNCHANGED <<nextTabId, nextWorkspaceId>>
  BY DEF CloseTabAt, idVars
<1>6. Len(old) \in Nat /\ (rest # <<>> => Len(old) > 1)
  <2>1. rest # <<>> => Len(rest) # 0
    BY <1>3
  <2>2. QED
    BY <1>1, <1>3, <2>1
<1>7. rest = <<>> => Len(workspaces) > 1 /\ \A k \in DOMAIN old : k = ti
  <2> SUFFICES ASSUME rest = <<>>
               PROVE  Len(workspaces) > 1 /\ \A k \in DOMAIN old : k = ti
    OBVIOUS
  <2>1. Len(old) \in Nat /\ Len(rest) = 0
    BY <1>1
  <2> HIDE DEF rest
  <2>2. Len(old) = 1
    BY <1>3, <2>1
  <2>3. DOMAIN old = {1}
    BY <1>1, <2>2
  <2>4. QED
    BY <1>1, <2>2, <2>3
<1> HIDE DEF w, t0, old, rest
\* The list of workspaces.
<1>8. /\ workspaces' \in Seq(WorkspaceIds)
      /\ activeWorkspace' \in DOMAIN workspaces'
      /\ \A i, j \in DOMAIN workspaces' : workspaces'[i] = workspaces'[j] => i = j
      /\ \A i \in DOMAIN workspaces' :
           \E k \in DOMAIN workspaces :
             /\ workspaces'[i] = workspaces[k]
             /\ workspaces[k] = w => rest # <<>>
      /\ \A k \in DOMAIN workspaces : k # wi \/ rest # <<>> =>
           \E i \in DOMAIN workspaces' : workspaces'[i] = workspaces[k]
  <2>1. CASE rest = <<>> /\ DropWorkspaceAt(wi)
    <3>1. \A k \in DOMAIN workspaces : workspaces[k] = w => k = wi
      BY DEF MuxInv, PlacedOnce, w
    <3>2. QED
      BY <1>7, <2>1, <3>1, DropKeeps
  <2>2. CASE rest # <<>> /\ UNCHANGED <<workspaces, activeWorkspace>>
    BY <1>1, <2>2 DEF MuxTypeOK, MuxInv, FocusValid, PlacedOnce
  <2>3. QED
    BY <1>5, <2>1, <2>2
\* The lists of tabs.
<1>9. /\ tabs'[w] = rest
      /\ \A v \in WorkspaceIds : v # w => tabs'[v] = tabs[v]
      /\ tabs' \in [WorkspaceIds -> Seq(TabIds)]
  BY <1>1, <1>3, <1>5 DEF MuxTypeOK
<1>10. MuxTypeOK'
  <2>1. /\ activeTab' \in [WorkspaceIds -> Nat \ {0}]
        /\ layout' \in [TabIds -> SUBSET PaneIds]
        /\ focusedPane' \in [TabIds -> PaneIds \cup {NoPane}]
    BY <1>1, <1>4, <1>5 DEF MuxTypeOK
  <2>2. activeWorkspace' \in Nat \ {0}
    BY <1>8
  <2>3. QED
    BY <1>1, <1>5, <1>8, <1>9, <2>1, <2>2 DEF MuxTypeOK
<1>11. PlacedOnce'
  <2>1. \A s, t \in TabIds : s # t => layout'[s] \cap layout'[t] = {}
    BY <1>1, <1>5 DEF MuxInv, PlacedOnce, MuxTypeOK
  <2>2. ASSUME NEW v \in WorkspaceIds, NEW u \in WorkspaceIds,
               NEW i \in DOMAIN tabs'[v], NEW j \in DOMAIN tabs'[u],
               tabs'[v][i] = tabs'[u][j]
        PROVE  v = u /\ i = j
    <3> DEFINE At(x, k) == IF x = w THEN Kept(ti, k) ELSE k
    <3>1. \A x \in WorkspaceIds : \A k \in DOMAIN tabs'[x] :
            At(x, k) \in DOMAIN tabs[x] /\ tabs'[x][k] = tabs[x][At(x, k)]
      BY <1>3, <1>9 DEF old
    <3>2. v = u /\ At(v, i) = At(u, j)
      BY <2>2, <3>1 DEF MuxInv, PlacedOnce
    <3>3. QED
      BY <1>3, <1>9, <3>2
  <2>3. QED
    BY <1>8, <2>1, <2>2 DEF PlacedOnce
\* A tab listed after the step was listed before it, and is not the closed one.
<1>12. ASSUME NEW v \in WorkspaceIds, NEW j \in DOMAIN tabs'[v]
       PROVE  /\ tabs'[v][j] \in TabIds /\ tabs'[v][j] # t0
              /\ tabs'[v][j] \in TabsOf(v)
  <2>1. PICK k \in DOMAIN tabs[v] : tabs'[v][j] = tabs[v][k] /\ (v = w => k # ti)
    BY <1>3, <1>9 DEF old
  <2>2. tabs[v][k] \in TabIds
    BY <1>1 DEF MuxTypeOK
  <2>3. tabs[v][k] # t0
    BY <1>1, <2>1 DEF MuxInv, PlacedOnce, old
  <2>4. QED
    BY <2>1, <2>2, <2>3 DEF TabsOf
<1>13. FocusValid'
  <2>1. ASSUME NEW i \in DOMAIN workspaces'
        PROVE  /\ activeTab'[workspaces'[i]] \in DOMAIN tabs'[workspaces'[i]]
               /\ \A j \in DOMAIN tabs'[workspaces'[i]] :
                    LET t == tabs'[workspaces'[i]][j] IN focusedPane'[t] \in layout'[t]
    <3>1. PICK k \in DOMAIN workspaces :
            /\ workspaces'[i] = workspaces[k]
            /\ workspaces[k] = w => rest # <<>>
      BY <1>8
    <3>2. workspaces[k] \in WorkspaceIds
      BY <1>1 DEF MuxTypeOK
    <3>3. activeTab'[workspaces[k]] \in DOMAIN tabs'[workspaces[k]]
      <4>1. CASE workspaces[k] = w
        BY <1>1, <1>4, <1>5, <1>6, <1>9, <3>1, <4>1 DEF MuxTypeOK
      <4>2. CASE workspaces[k] # w
        BY <1>1, <1>5, <1>9, <3>2, <4>2 DEF MuxInv, FocusValid, MuxTypeOK
      <4>3. QED
        BY <4>1, <4>2
    <3>4. ASSUME NEW j \in DOMAIN tabs'[workspaces[k]]
          PROVE  LET t == tabs'[workspaces[k]][j] IN focusedPane'[t] \in layout'[t]
      <4> DEFINE t == tabs'[workspaces[k]][j]
      <4>1. t \in TabIds /\ t # t0 /\ t \in TabsOf(workspaces[k])
        BY <1>12, <3>2
      <4> HIDE DEF t
      <4>2. focusedPane[t] \in layout[t]
        BY <4>1 DEF MuxInv, FocusValid
      <4>3. focusedPane'[t] \in layout'[t]
        BY <1>1, <1>5, <4>1, <4>2 DEF MuxTypeOK
      <4>4. QED
        BY <4>3 DEF t
    <3>5. QED
      BY <3>1, <3>3, <3>4
  <2>2. QED
    BY <1>8, <2>1 DEF FocusValid, TabsOf
<1>14. TabsListed'
  <2>1. ASSUME NEW t \in TabIds, layout'[t] # {}
        PROVE  \E i \in DOMAIN workspaces' : \E j \in DOMAIN tabs'[workspaces'[i]] :
                 tabs'[workspaces'[i]][j] = t
    <3>1. t # t0 /\ layout[t] # {}
      BY <1>1, <1>5, <2>1 DEF MuxTypeOK
    <3>2. PICK k \in DOMAIN workspaces : \E j \in DOMAIN tabs[workspaces[k]] :
            tabs[workspaces[k]][j] = t
      BY <3>1 DEF MuxInv, TabsListed
    <3>3. PICK j \in DOMAIN tabs[workspaces[k]] : tabs[workspaces[k]][j] = t
      BY <3>2
    <3>4. workspaces[k] \in WorkspaceIds
      BY <1>1 DEF MuxTypeOK
    <3>5. CASE workspaces[k] = w
      <4>1. j \in DOMAIN old /\ j # ti /\ old[j] = t
        BY <1>1, <3>1, <3>3, <3>5 DEF old
      <4>2. PICK m \in DOMAIN rest : rest[m] = t
        BY <1>3, <4>1
      <4>3. rest # <<>>
        BY <1>7, <4>1
      <4>4. QED
        BY <1>8, <1>9, <3>5, <4>2, <4>3
    <3>6. CASE workspaces[k] # w
      BY <1>8, <1>9, <3>3, <3>4, <3>6 DEF w
    <3>7. QED
      BY <3>5, <3>6
  <2>2. QED
    BY <2>1 DEF TabsListed
<1>15. TabIdsFresh'
  <2>1. \A v \in WorkspaceIds : \A j \in DOMAIN tabs'[v] : tabs'[v][j] < nextTabId
    BY <1>12 DEF MuxInv, TabIdsFresh, TabsOf
  <2>2. QED
    BY <1>5, <1>8, <2>1 DEF MuxInv, TabIdsFresh
<1>16. QED
  BY <1>10, <1>11, <1>13, <1>14, <1>15 DEF MuxInv

\* MultiplexerState::close_workspace, of one workspace of several.
LEMMA CloseWorkspaceKeeps ==
  ASSUME MuxInv, NEW wi \in DOMAIN workspaces, Len(workspaces) > 1,
         CloseWorkspaceAt(wi)
  PROVE  MuxInv'
<1> DEFINE w == workspaces[wi]
           gone == TabsOf(w)
<1>1. MuxTypeOK /\ w \in WorkspaceIds
  BY DEF MuxInv, MuxTypeOK
<1>2. /\ DropWorkspaceAt(wi)
      /\ tabs' = [tabs EXCEPT ![w] = <<>>]
      /\ activeTab' = [activeTab EXCEPT ![w] = 1]
      /\ layout' = [t \in TabIds |-> IF t \in gone THEN {} ELSE layout[t]]
      /\ focusedPane' = [t \in TabIds |-> IF t \in gone THEN NoPane ELSE focusedPane[t]]
      /\ UNCHANGED <<nextTabId, nextWorkspaceId>>
  BY DEF CloseWorkspaceAt, idVars
<1>3. \A k \in DOMAIN workspaces : workspaces[k] = w <=> k = wi
  BY DEF MuxInv, PlacedOnce
<1> HIDE DEF w, gone
<1>4. /\ workspaces' \in Seq(WorkspaceIds)
      /\ activeWorkspace' \in DOMAIN workspaces'
      /\ \A i, j \in DOMAIN workspaces' : workspaces'[i] = workspaces'[j] => i = j
      /\ \A i \in DOMAIN workspaces' :
           \E k \in DOMAIN workspaces : workspaces[k] # w /\ workspaces'[i] = workspaces[k]
      /\ \A k \in DOMAIN workspaces : workspaces[k] # w =>
           \E i \in DOMAIN workspaces' : workspaces'[i] = workspaces[k]
  <2>1. /\ workspaces' \in Seq(WorkspaceIds)
        /\ activeWorkspace' \in DOMAIN workspaces'
        /\ \A i, j \in DOMAIN workspaces' : workspaces'[i] = workspaces'[j] => i = j
        /\ \A i \in DOMAIN workspaces' :
             \E k \in DOMAIN workspaces : k # wi /\ workspaces'[i] = workspaces[k]
        /\ \A k \in DOMAIN workspaces : k # wi =>
             \E i \in DOMAIN workspaces' : workspaces'[i] = workspaces[k]
    BY <1>2, DropKeeps
  <2>2. QED
    BY <1>3, <2>1
<1>5. /\ tabs'[w] = <<>> /\ DOMAIN tabs'[w] = {}
      /\ \A v \in WorkspaceIds : v # w => tabs'[v] = tabs[v]
      /\ tabs' \in [WorkspaceIds -> Seq(TabIds)]
  BY <1>1, <1>2 DEF MuxTypeOK
<1>6. MuxTypeOK'
  <2>1. activeWorkspace' \in Nat \ {0}
    <3>1. workspaces' \in Seq(WorkspaceIds) /\ activeWorkspace' \in DOMAIN workspaces'
      BY <1>4
    <3>2. QED
      BY <3>1
  <2>2. activeTab' \in [WorkspaceIds -> Nat \ {0}]
    BY <1>1, <1>2 DEF MuxTypeOK
  <2>3. /\ layout' \in [TabIds -> SUBSET PaneIds]
        /\ focusedPane' \in [TabIds -> PaneIds \cup {NoPane}]
        /\ nextTabId' \in 0 .. MaxTabs /\ nextWorkspaceId' \in 0 .. MaxWorkspaces
    BY <1>1, <1>2 DEF MuxTypeOK
  <2>4. QED
    BY <1>4, <1>5, <2>1, <2>2, <2>3 DEF MuxTypeOK
<1>7. PlacedOnce'
  <2>1. \A s, t \in TabIds : s # t => layout'[s] \cap layout'[t] = {}
    BY <1>1, <1>2 DEF MuxInv, PlacedOnce
  <2>2. ASSUME NEW v \in WorkspaceIds, NEW u \in WorkspaceIds,
               NEW i \in DOMAIN tabs'[v], NEW j \in DOMAIN tabs'[u],
               tabs'[v][i] = tabs'[u][j]
        PROVE  v = u /\ i = j
    <3>1. v # w /\ u # w
      BY <1>5
    <3>2. QED
      BY <1>5, <2>2, <3>1 DEF MuxInv, PlacedOnce
  <2>3. QED
    BY <1>4, <2>1, <2>2 DEF PlacedOnce
<1>8. ASSUME NEW v \in WorkspaceIds, v # w, NEW j \in DOMAIN tabs[v]
      PROVE  tabs[v][j] \in TabIds \ gone
  <2>1. tabs[v][j] \in TabIds
    BY <1>1 DEF MuxTypeOK
  <2>2. tabs[v][j] \notin gone
    BY <1>1, <1>8 DEF MuxInv, PlacedOnce, TabsOf, gone
  <2>3. QED
    BY <2>1, <2>2
<1>9. FocusValid'
  <2>1. ASSUME NEW i \in DOMAIN workspaces'
        PROVE  /\ activeTab'[workspaces'[i]] \in DOMAIN tabs'[workspaces'[i]]
               /\ \A j \in DOMAIN tabs'[workspaces'[i]] :
                    LET t == tabs'[workspaces'[i]][j] IN focusedPane'[t] \in layout'[t]
    <3>1. PICK k \in DOMAIN workspaces :
            workspaces[k] # w /\ workspaces'[i] = workspaces[k]
      BY <1>4
    <3>2. workspaces[k] \in WorkspaceIds
      BY <1>1 DEF MuxTypeOK
    <3>3. /\ activeTab[workspaces[k]] \in DOMAIN tabs[workspaces[k]]
          /\ \A j \in DOMAIN tabs[workspaces[k]] :
               LET t == tabs[workspaces[k]][j] IN focusedPane[t] \in layout[t]
      BY DEF MuxInv, FocusValid, TabsOf
    <3>4. activeTab'[workspaces[k]] = activeTab[workspaces[k]]
          /\ tabs'[workspaces[k]] = tabs[workspaces[k]]
      BY <1>1, <1>2, <1>5, <3>1, <3>2 DEF MuxTypeOK
    <3>5. \A j \in DOMAIN tabs[workspaces[k]] : tabs[workspaces[k]][j] \in TabIds \ gone
      BY <1>8, <3>1, <3>2
    <3>6. QED
      BY <1>2, <3>1, <3>3, <3>4, <3>5
  <2>2. QED
    BY <1>4, <2>1 DEF FocusValid, TabsOf
<1>10. TabsListed'
  <2>1. ASSUME NEW t \in TabIds, layout'[t] # {}
        PROVE  \E i \in DOMAIN workspaces' : \E j \in DOMAIN tabs'[workspaces'[i]] :
                 tabs'[workspaces'[i]][j] = t
    <3>1. t \notin gone /\ layout[t] # {}
      BY <1>2, <2>1
    <3>2. PICK k \in DOMAIN workspaces : \E j \in DOMAIN tabs[workspaces[k]] :
            tabs[workspaces[k]][j] = t
      BY <3>1 DEF MuxInv, TabsListed
    <3>3. workspaces[k] # w
      BY <3>1, <3>2 DEF TabsOf, gone
    <3>4. workspaces[k] \in WorkspaceIds
      BY <1>1 DEF MuxTypeOK
    <3>5. PICK i \in DOMAIN workspaces' : workspaces'[i] = workspaces[k]
      BY <1>4, <3>3
    <3>6. tabs'[workspaces[k]] = tabs[workspaces[k]]
      BY <1>5, <3>3, <3>4
    <3>7. QED
      BY <3>2, <3>5, <3>6
  <2>2. QED
    BY <2>1 DEF TabsListed
<1>11. TabIdsFresh'
  <2>1. \A v \in WorkspaceIds : \A j \in DOMAIN tabs'[v] : tabs'[v][j] < nextTabId
    BY <1>5 DEF MuxInv, TabIdsFresh
  <2>2. QED
    BY <1>2, <1>4, <2>1 DEF MuxInv, TabIdsFresh
<1>12. QED
  BY <1>6, <1>7, <1>9, <1>10, <1>11 DEF MuxInv

\* Tab::close_pane on a tab with other leaves.
LEMMA CloseLeafKeeps ==
  ASSUME MuxInv, NEW p, NEW wi \in DOMAIN workspaces,
         NEW ti \in DOMAIN tabs[workspaces[wi]], CloseLeafAt(p, wi, ti)
  PROVE  MuxInv'
<1> DEFINE t0 == TabAt(wi, ti)
<1>1. MuxTypeOK /\ t0 \in TabIds
  BY Places DEF MuxInv
<1> HIDE DEF t0
<1>2. PICK hint \in layout[t0] \ {p} :
        focusedPane' = [focusedPane EXCEPT ![t0] = IF @ = p THEN hint ELSE @]
  BY DEF CloseLeafAt, t0
<1>3. /\ layout' = [layout EXCEPT ![t0] = @ \ {p}]
      /\ UNCHANGED <<workspaces, activeWorkspace, tabs, activeTab,
                     nextTabId, nextWorkspaceId>>
  BY DEF CloseLeafAt, orderVars, idVars, t0
<1>4. hint \in PaneIds
  BY <1>1 DEF MuxTypeOK
<1>5. MuxTypeOK'
  BY <1>1, <1>2, <1>3, <1>4 DEF MuxTypeOK
<1>6. PlacedOnce'
  <2>1. \A s, t \in TabIds : s # t => layout'[s] \cap layout'[t] = {}
    BY <1>1, <1>3 DEF MuxInv, PlacedOnce, MuxTypeOK
  <2>2. QED
    BY <1>3, <2>1 DEF MuxInv, PlacedOnce
<1>7. FocusValid'
  <2>1. ASSUME NEW i \in DOMAIN workspaces, NEW t \in TabsOf(workspaces[i])
        PROVE  focusedPane'[t] \in layout'[t]
    <3>1. t \in TabIds
      BY <1>1 DEF MuxTypeOK, TabsOf
    <3>2. focusedPane[t] \in layout[t]
      BY DEF MuxInv, FocusValid
    <3>3. QED
      BY <1>1, <1>2, <1>3, <3>1, <3>2 DEF MuxTypeOK
  <2>2. QED
    BY <1>3, <2>1 DEF MuxInv, FocusValid, TabsOf
<1>8. TabsListed' /\ TabIdsFresh'
  <2>1. \A t \in TabIds : layout'[t] # {} => layout[t] # {}
    BY <1>1, <1>3 DEF MuxTypeOK
  <2>2. QED
    BY <1>3, <2>1 DEF MuxInv, TabsListed, TabIdsFresh
<1>9. QED
  BY <1>5, <1>6, <1>7, <1>8 DEF MuxInv

\* A tab with panes is a reason for its neighbours to be closable.
LEMMA AnotherPlace ==
  ASSUME MuxInv, NEW wi \in DOMAIN workspaces,
         NEW ti \in DOMAIN tabs[workspaces[wi]],
         NEW u \in TabIds, layout[u] # {}, u # TabAt(wi, ti)
  PROVE  Len(workspaces) > 1 \/ Len(tabs[workspaces[wi]]) > 1
<1>1. PICK i \in DOMAIN workspaces : \E j \in DOMAIN tabs[workspaces[i]] :
        tabs[workspaces[i]][j] = u
  BY DEF MuxInv, TabsListed
<1>2. PICK j \in DOMAIN tabs[workspaces[i]] : tabs[workspaces[i]][j] = u
  BY <1>1
<1>3. workspaces \in Seq(WorkspaceIds) /\ tabs[workspaces[wi]] \in Seq(TabIds)
  BY Places DEF MuxInv, MuxTypeOK
<1>4. CASE i = wi
  <2>1. j # ti /\ j \in DOMAIN tabs[workspaces[wi]]
    BY <1>2, <1>4 DEF TabAt
  <2>2. QED
    BY <1>3, <2>1
<1>5. CASE i # wi
  BY <1>3, <1>5
<1>6. QED
  BY <1>4, <1>5
=============================================================================
