---------------------------- MODULE MuxState ----------------------------
(***************************************************************************)
(* Workspaces, tabs and panes of the multiplexer (oakterm-mux).            *)
(*                                                                         *)
(* A workspace is an ordered list of tabs with an active index; the        *)
(* multiplexer is an ordered list of workspaces with an active index.      *)
(* Indices are 1-based here and 0-based in the code.  A tab's layout tree  *)
(* is abstracted to the set of its leaves: no property of this module      *)
(* depends on the shape of the tree or on the weights.  The operators      *)
(* below are the mutating methods of MultiplexerState; PaneManager calls   *)
(* them with a pane id it has just allocated, or one that is in its map.   *)
(***************************************************************************)
EXTENDS Naturals, Sequences, SequencesExt

CONSTANTS
    MaxPanes,       \* bound on allocated pane ids   (u32 in the code)
    MaxTabs,        \* bound on allocated tab ids
    MaxWorkspaces,  \* bound on allocated workspace ids
    NoPane          \* the focus of a tab that does not exist

ASSUME BoundsAssumption ==
    /\ MaxPanes \in Nat \ {0}
    /\ MaxTabs \in Nat \ {0}
    /\ MaxWorkspaces \in Nat \ {0}

PaneIds == 0 .. MaxPanes - 1
TabIds == 0 .. MaxTabs - 1
WorkspaceIds == 0 .. MaxWorkspaces - 1

ASSUME NoPaneAssumption == NoPane \notin PaneIds

VARIABLES
    workspaces,       \* workspace ids, in display order
    activeWorkspace,  \* index into workspaces
    tabs,             \* workspace id -> its tab ids, in display order
    activeTab,        \* workspace id -> index into its tabs
    layout,           \* tab id -> leaves of its layout tree ({}: no such tab)
    focusedPane,      \* tab id -> its focused pane
    nextPaneId, nextTabId, nextWorkspaceId

orderVars == <<workspaces, activeWorkspace, tabs, activeTab>>
treeVars == <<layout, focusedPane>>
idVars == <<nextPaneId, nextTabId, nextWorkspaceId>>
muxVars == <<orderVars, treeVars, idVars>>

TabAt(wi, ti) == tabs[workspaces[wi]][ti]

\* The tab at (wi, ti) exists and holds pane p.
Located(p, wi, ti) ==
    /\ wi \in DOMAIN workspaces
    /\ ti \in DOMAIN tabs[workspaces[wi]]
    /\ p \in layout[TabAt(wi, ti)]

LocatedTab(t, wi, ti) ==
    /\ wi \in DOMAIN workspaces
    /\ ti \in DOMAIN tabs[workspaces[wi]]
    /\ TabAt(wi, ti) = t

ActiveTabId ==
    TabAt(activeWorkspace, activeTab[workspaces[activeWorkspace]])

\* Variant, for mutation: the index shifts only when it runs off the end.
ClampActiveAtEnd(active, removed, newLen) ==
    IF active > newLen /\ active > 1 THEN active - 1 ELSE active

\* Where the active index goes when the item at index "removed" has left a
\* list that now has newLen items.
ClampActive(active, removed, newLen) ==
    IF (active > removed \/ active > newLen) /\ active > 1
    THEN active - 1
    ELSE active

-----------------------------------------------------------------------------
\* Index pairs (wi, ti) range over these.
WorkspaceIndices == 1 .. MaxWorkspaces
TabIndices == 1 .. MaxTabs

Activate(wi, ti) ==
    /\ activeWorkspace' = wi
    /\ activeTab' = [activeTab EXCEPT ![workspaces[wi]] = ti]

\* Tab::split: the new leaf joins the target's tab.
AddLeaf(t, new) == layout' = [layout EXCEPT ![t] = @ \cup {new}]

\* allocate_tab_id, allocate_workspace_id: ids are never used again.
AllocateTabId == nextTabId < MaxTabs /\ nextTabId' = nextTabId + 1
AllocateWorkspaceId ==
    /\ nextWorkspaceId < MaxWorkspaces
    /\ nextWorkspaceId' = nextWorkspaceId + 1

\* MultiplexerState::new_tab: a tab of one pane, last in the active workspace.
NewTabIn(pane) ==
    LET w == workspaces[activeWorkspace] IN
    /\ AllocateTabId
    /\ layout' = [layout EXCEPT ![nextTabId] = {pane}]
    /\ focusedPane' = [focusedPane EXCEPT ![nextTabId] = pane]
    /\ tabs' = [tabs EXCEPT ![w] = Append(@, nextTabId)]
    /\ activeTab' = [activeTab EXCEPT ![w] = Len(tabs[w]) + 1]
    /\ UNCHANGED <<workspaces, activeWorkspace, nextWorkspaceId>>

\* MultiplexerState::new_workspace: one tab of one pane, made active.
NewWorkspaceWith(pane) ==
    /\ AllocateTabId
    /\ AllocateWorkspaceId
    /\ layout' = [layout EXCEPT ![nextTabId] = {pane}]
    /\ focusedPane' = [focusedPane EXCEPT ![nextTabId] = pane]
    /\ tabs' = [tabs EXCEPT ![nextWorkspaceId] = <<nextTabId>>]
    /\ activeTab' = [activeTab EXCEPT ![nextWorkspaceId] = 1]
    /\ workspaces' = Append(workspaces, nextWorkspaceId)
    /\ activeWorkspace' = Len(workspaces) + 1

\* MultiplexerState::focus_pane.
FocusAt(p, wi, ti) ==
    /\ Located(p, wi, ti)
    /\ focusedPane' = [focusedPane EXCEPT ![TabAt(wi, ti)] = p]
    /\ Activate(wi, ti)
    /\ UNCHANGED <<workspaces, tabs, layout, idVars>>

\* MultiplexerState::move_tab: reorder, then let the active index follow the
\* tab that was active.
MoveTabAt(wi, from, to) ==
    LET w == workspaces[wi]
        moved == InsertAt(RemoveAt(tabs[w], from), to, tabs[w][from])
    IN /\ tabs' = [tabs EXCEPT ![w] = moved]
       /\ \E k \in DOMAIN moved :
            /\ moved[k] = tabs[w][activeTab[w]]
            /\ activeTab' = [activeTab EXCEPT ![w] = k]
       /\ UNCHANGED <<workspaces, activeWorkspace, treeVars, idVars>>

\* close_workspace_at: the workspace leaves the list.
DropWorkspaceAt(wi) ==
    /\ workspaces' = RemoveAt(workspaces, wi)
    /\ activeWorkspace' =
         ClampActive(activeWorkspace, wi, Len(workspaces) - 1)

\* Workspace::close_tab, and close_workspace_at when that was the last tab.
CloseTabAt(wi, ti) ==
    LET w == workspaces[wi]
        t == TabAt(wi, ti)
        rest == RemoveAt(tabs[w], ti)
    IN /\ tabs' = [tabs EXCEPT ![w] = rest]
       /\ activeTab' = [activeTab EXCEPT ![w] = ClampActive(@, ti, Len(rest))]
       /\ layout' = [layout EXCEPT ![t] = {}]
       /\ focusedPane' = [focusedPane EXCEPT ![t] = NoPane]
       /\ IF rest = <<>>
          THEN DropWorkspaceAt(wi)
          ELSE UNCHANGED <<workspaces, activeWorkspace>>
       /\ UNCHANGED idVars

\* Tab::close_pane on a tab with other leaves: focus moves to a neighbouring
\* leaf (here any remaining one) only if the closed pane had it.
CloseLeafAt(p, wi, ti) ==
    LET t == TabAt(wi, ti) IN
    /\ layout' = [layout EXCEPT ![t] = @ \ {p}]
    /\ \E hint \in layout[t] \ {p} :
         focusedPane' =
           [focusedPane EXCEPT ![t] = IF @ = p THEN hint ELSE @]
    /\ UNCHANGED <<orderVars, idVars>>

\* MultiplexerState::close_pane: the last pane takes its tab with it.
CloseAt(p, wi, ti) ==
    /\ Located(p, wi, ti)
    /\ \/ layout[TabAt(wi, ti)] = {p} /\ CloseTabAt(wi, ti)
       \/ layout[TabAt(wi, ti)] # {p} /\ CloseLeafAt(p, wi, ti)

\* MultiplexerState::close_workspace.
TabsOf(w) == {tabs[w][i] : i \in DOMAIN tabs[w]}
PanesOf(w) == UNION {layout[t] : t \in TabsOf(w)}

CloseWorkspaceAt(wi) ==
    LET w == workspaces[wi] IN
    /\ DropWorkspaceAt(wi)
    /\ tabs' = [tabs EXCEPT ![w] = <<>>]
    /\ activeTab' = [activeTab EXCEPT ![w] = 1]
    /\ layout' =
         [t \in TabIds |-> IF t \in TabsOf(w) THEN {} ELSE layout[t]]
    /\ focusedPane' =
         [t \in TabIds |-> IF t \in TabsOf(w) THEN NoPane ELSE focusedPane[t]]
    /\ UNCHANGED idVars

\* MultiplexerState::seed, with the pane the daemon creates at construction.
Seeded ==
    /\ workspaces = <<0>>
    /\ activeWorkspace = 1
    /\ tabs = [w \in WorkspaceIds |-> IF w = 0 THEN <<0>> ELSE <<>>]
    /\ activeTab = [w \in WorkspaceIds |-> 1]
    /\ layout = [t \in TabIds |-> IF t = 0 THEN {0} ELSE {}]
    /\ focusedPane = [t \in TabIds |-> IF t = 0 THEN 0 ELSE NoPane]
    /\ nextPaneId = 1 /\ nextTabId = 1 /\ nextWorkspaceId = 1

-----------------------------------------------------------------------------
\* A pane is placed in one tab, a tab in one workspace at one position, and
\* a workspace once: pane ids and tab ids name one thing whatever was
\* closed, moved or cascaded before.
PlacedOnce ==
    /\ \A s, t \in TabIds : s # t => layout[s] \cap layout[t] = {}
    /\ \A i, j \in DOMAIN workspaces :
         workspaces[i] = workspaces[j] => i = j
    /\ \A v, w \in WorkspaceIds :
         \A i \in DOMAIN tabs[v], j \in DOMAIN tabs[w] :
           tabs[v][i] = tabs[w][j] => v = w /\ i = j

\* What the code indexes without a check is there: the active workspace, each
\* listed workspace's active tab, and in each listed tab a focused pane that
\* is a leaf of that tab's layout.
FocusValid ==
    /\ activeWorkspace \in DOMAIN workspaces
    /\ \A i \in DOMAIN workspaces :
         activeTab[workspaces[i]] \in DOMAIN tabs[workspaces[i]]
    /\ \A i \in DOMAIN workspaces :
         \A t \in TabsOf(workspaces[i]) : focusedPane[t] \in layout[t]
=============================================================================
