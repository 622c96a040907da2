--------------------------- MODULE PaneManager ---------------------------
(***************************************************************************)
(* The daemon's PaneManager and the request handlers that mutate it        *)
(* (oakterm-daemon: pane.rs, requests/{panes,tabs,workspaces,layout}.rs).  *)
(*                                                                         *)
(* Each client connection runs one handler at a time.  A handler holds the *)
(* manager lock for one action; between the actions of one handler other   *)
(* clients run.  Two handlers span several lock sections: SplitPane checks *)
(* a preview first and creates later, and the three closing requests first *)
(* remove panes from the map and then, lock released, tombstone each one.  *)
(* Requests that are refused change nothing and are not modelled, except   *)
(* the split that fails after its id was allocated.                        *)
(***************************************************************************)
EXTENDS MuxState, FiniteSets

CONSTANT Users

VARIABLES
    panes,      \* keys of the pane map
    tombstoned, \* panes whose state carries the closed tombstone
    splitting,  \* client -> target of a split that passed its preview
    doomed      \* client -> panes it removed and has still to tombstone

mgrVars == <<panes, tombstoned, splitting, doomed>>
managerVars == <<muxVars, mgrVars>>

Idle(c) == splitting[c] = NoPane /\ doomed[c] = {}

ManagerInit ==
    /\ Seeded
    /\ panes = {0}
    /\ tombstoned = {}
    /\ splitting = [c \in Users |-> NoPane]
    /\ doomed = [c \in Users |-> {}]

\* allocate_pane_id: the id is spent whether or not the caller succeeds.
AllocatePaneId ==
    /\ nextPaneId < MaxPanes
    /\ nextPaneId' = nextPaneId + 1

\* insert_pane_state
InsertPaneState(id) == panes' = panes \cup {id}

-----------------------------------------------------------------------------
\* PaneManager::create: split the active tab's focused pane without moving
\* focus.
Create ==
    /\ AllocatePaneId
    /\ \E wi \in WorkspaceIndices, ti \in TabIndices :
         /\ Located(focusedPane[ActiveTabId], wi, ti)
         /\ AddLeaf(TabAt(wi, ti), nextPaneId)
    /\ InsertPaneState(nextPaneId)
    /\ UNCHANGED <<orderVars, focusedPane, nextTabId, nextWorkspaceId>>

CreatePane(c) ==
    /\ Idle(c)
    /\ Create
    /\ UNCHANGED <<tombstoned, splitting, doomed>>

\* SplitPane, first part: the target is live and its preview computed.
SplitPreview(c, target) ==
    /\ Idle(c)
    /\ target \in panes
    /\ splitting' = [splitting EXCEPT ![c] = target]
    /\ UNCHANGED <<muxVars, panes, tombstoned, doomed>>

\* The minimum-size check refuses the split.
SplitRefused(c) ==
    /\ splitting[c] # NoPane
    /\ splitting' = [splitting EXCEPT ![c] = NoPane]
    /\ UNCHANGED <<muxVars, panes, tombstoned, doomed>>

\* SplitPane, last part -> split_create: insert beside the target and focus
\* the new pane.
SplitCreate(c) ==
    /\ splitting[c] # NoPane
    /\ AllocatePaneId
    /\ \E wi \in WorkspaceIndices, ti \in TabIndices :
         /\ Located(splitting[c], wi, ti)
         /\ AddLeaf(TabAt(wi, ti), nextPaneId)
         /\ focusedPane' = [focusedPane EXCEPT ![TabAt(wi, ti)] = nextPaneId]
         /\ Activate(wi, ti)
    /\ InsertPaneState(nextPaneId)
    /\ splitting' = [splitting EXCEPT ![c] = NoPane]
    /\ UNCHANGED <<workspaces, tabs, nextTabId, nextWorkspaceId,
                   tombstoned, doomed>>

\* Variant, for mutation: the state is inserted before the split is known to
\* have found its target.
SplitMissedInserts(c) ==
    /\ splitting[c] # NoPane
    /\ AllocatePaneId
    /\ \A wi \in WorkspaceIndices, ti \in TabIndices :
         ~ Located(splitting[c], wi, ti)
    /\ InsertPaneState(nextPaneId)
    /\ splitting' = [splitting EXCEPT ![c] = NoPane]
    /\ UNCHANGED <<orderVars, treeVars, nextTabId, nextWorkspaceId,
                   tombstoned, doomed>>

\* The target was closed since the preview: the allocated id is burnt.
SplitMissed(c) ==
    /\ splitting[c] # NoPane
    /\ AllocatePaneId
    /\ \A wi \in WorkspaceIndices, ti \in TabIndices :
         ~ Located(splitting[c], wi, ti)
    /\ splitting' = [splitting EXCEPT ![c] = NoPane]
    /\ UNCHANGED <<orderVars, treeVars, nextTabId, nextWorkspaceId,
                   panes, tombstoned, doomed>>

\* A pane in a tab of its own, which becomes the active one.
NewTabCreate ==
    /\ AllocatePaneId
    /\ NewTabIn(nextPaneId)
    /\ InsertPaneState(nextPaneId)

NewTab(c) ==
    /\ Idle(c)
    /\ NewTabCreate
    /\ UNCHANGED <<tombstoned, splitting, doomed>>

\* A pane in a tab in a workspace, all new and active.
NewWorkspaceCreate ==
    /\ AllocatePaneId
    /\ NewWorkspaceWith(nextPaneId)
    /\ InsertPaneState(nextPaneId)

NewWorkspace(c) ==
    /\ Idle(c)
    /\ NewWorkspaceCreate
    /\ UNCHANGED <<tombstoned, splitting, doomed>>

-----------------------------------------------------------------------------
\* Remove S from the pane map and leave it to client c to shut down.
RemovePanes(c, S) ==
    /\ panes' = panes \ S
    /\ doomed' = [doomed EXCEPT ![c] = S]
    /\ UNCHANGED <<tombstoned, splitting>>

ClosePane(c, p) ==
    /\ Idle(c)
    /\ Cardinality(panes) > 1
    /\ p \in panes
    /\ \E wi \in WorkspaceIndices, ti \in TabIndices : CloseAt(p, wi, ti)
    /\ RemovePanes(c, {p})

\* tab_pane_ids; there are no floating panes.
TabPaneIds(t) == layout[t]

\* Every pane of the tab is removed under one manager lock; the last one
\* takes the tab with it.
CloseTab(c, t) ==
    /\ Idle(c)
    /\ \E wi \in WorkspaceIndices, ti \in TabIndices :
         /\ LocatedTab(t, wi, ti)
         /\ Cardinality(TabPaneIds(t)) < Cardinality(panes)
         /\ CloseTabAt(wi, ti)
    /\ RemovePanes(c, TabPaneIds(t))

\* PaneManager::close_workspace: out of the model and out of the pane map.
RemoveWorkspace(c, w) ==
    /\ \E wi \in WorkspaceIndices :
         /\ wi \in DOMAIN workspaces
         /\ workspaces[wi] = w
         /\ CloseWorkspaceAt(wi)
    /\ RemovePanes(c, PanesOf(w))

CloseWorkspace(c, w) ==
    /\ Idle(c)
    /\ Len(workspaces) > 1
    /\ RemoveWorkspace(c, w)

\* Variant, for mutation: only one of the removed panes is shut down.
ShutdownFirstRemoved(c, p) ==
    /\ p \in doomed[c]
    /\ tombstoned' = tombstoned \cup {p}
    /\ doomed' = [doomed EXCEPT ![c] = {}]
    /\ UNCHANGED <<muxVars, panes, splitting>>

\* shutdown_removed_pane, once for each removed pane.
ShutdownRemoved(c, p) ==
    /\ p \in doomed[c]
    /\ tombstoned' = tombstoned \cup {p}
    /\ doomed' = [doomed EXCEPT ![c] = @ \ {p}]
    /\ UNCHANGED <<muxVars, panes, splitting>>

-----------------------------------------------------------------------------
FocusPane(c, p) ==
    /\ Idle(c)
    /\ \E wi \in WorkspaceIndices, ti \in TabIndices : FocusAt(p, wi, ti)
    /\ UNCHANGED mgrVars

\* Both switches re-focus the focused pane of the tab they activate.
ActivateTab(t) ==
    \E wi \in WorkspaceIndices, ti \in TabIndices :
      /\ LocatedTab(t, wi, ti)
      /\ FocusAt(focusedPane[t], wi, ti)

ActivateWorkspace(w) ==
    \E wi \in DOMAIN workspaces :
      /\ workspaces[wi] = w
      /\ FocusAt(focusedPane[TabAt(wi, activeTab[w])], wi, activeTab[w])

SwitchTab(c, t) ==
    /\ Idle(c)
    /\ ActivateTab(t)
    /\ UNCHANGED mgrVars

SwitchWorkspace(c, w) ==
    /\ Idle(c)
    /\ ActivateWorkspace(w)
    /\ UNCHANGED mgrVars

\* The requested index is clamped to the tab count.
MoveTab(c, t, index) ==
    /\ Idle(c)
    /\ \E wi \in WorkspaceIndices, from \in TabIndices :
         /\ LocatedTab(t, wi, from)
         /\ LET count == Len(tabs[workspaces[wi]])
                to == IF index > count THEN count ELSE index
            IN to # from /\ MoveTabAt(wi, from, to)
    /\ UNCHANGED mgrVars

\* What build_session writes: the panes of the layout of the active tab.
SavedPanes == layout[ActiveTabId]

Split(c) == SplitRefused(c) \/ SplitCreate(c) \/ SplitMissed(c)

ManagerStep(c) ==
    \/ CreatePane(c) \/ NewTab(c) \/ NewWorkspace(c)
    \/ Split(c)
    \/ \E p \in PaneIds :
         \/ SplitPreview(c, p) \/ ClosePane(c, p)
         \/ ShutdownRemoved(c, p) \/ FocusPane(c, p)
    \/ \E t \in TabIds : CloseTab(c, t) \/ SwitchTab(c, t)
    \/ \E w \in WorkspaceIds : CloseWorkspace(c, w) \/ SwitchWorkspace(c, w)
    \/ \E t \in TabIds, i \in TabIndices : MoveTab(c, t, i)

ManagerNext == \E c \in Users : ManagerStep(c)

ManagerSpec == ManagerInit /\ [][ManagerNext]_managerVars

\* A handler that has removed panes runs on to shut them down: nothing in it
\* waits for another client.
FairManagerSpec ==
    /\ ManagerSpec
    /\ \A c \in Users, p \in PaneIds : WF_managerVars(ShutdownRemoved(c, p))
-----------------------------------------------------------------------------
\* Every variable has its type.
ManagerTypeOK ==
    /\ workspaces \in Seq(WorkspaceIds)
    /\ activeWorkspace \in Nat \ {0}
    /\ tabs \in [WorkspaceIds -> Seq(TabIds)]
    /\ activeTab \in [WorkspaceIds -> Nat \ {0}]
    /\ layout \in [TabIds -> SUBSET PaneIds]
    /\ focusedPane \in [TabIds -> PaneIds \cup {NoPane}]
    /\ nextPaneId \in 0 .. MaxPanes
    /\ nextTabId \in 0 .. MaxTabs
    /\ nextWorkspaceId \in 0 .. MaxWorkspaces
    /\ panes \in SUBSET PaneIds
    /\ tombstoned \in SUBSET PaneIds
    /\ splitting \in [Users -> PaneIds \cup {NoPane}]
    /\ doomed \in [Users -> SUBSET PaneIds]

\* The documented invariant of PaneManager: the panes placed in tabs are
\* exactly the keys of the pane map, although the two are changed by
\* different calls and by handlers that release the lock in between.
MapMatchesMux == panes = UNION {layout[t] : t \in TabIds}

\* A pane that left the map is in the hands of exactly one closing handler
\* until its tombstone is set, so no shell is left running without a pane and
\* none is shut down twice.
RemovedByOne ==
    /\ \A b, c \in Users : b # c => doomed[b] \cap doomed[c] = {}
    /\ \A c \in Users : doomed[c] \cap (panes \cup tombstoned) = {}
    /\ tombstoned \cap panes = {}

\* The layout and the pane map, changed by different calls and by handlers
\* that release the lock in between, describe the same panes, each in one
\* place and with valid focus, and what left them is in one handler's hands.
PanesAndTabsAgree ==
    ManagerTypeOK /\ MapMatchesMux /\ PlacedOnce /\ FocusValid /\ RemovedByOne

\* What closes or moves panes and tabs ...
Rearrange ==
    \E c \in Users :
      \/ \E p \in PaneIds : ClosePane(c, p)
      \/ \E t \in TabIds : CloseTab(c, t)
      \/ \E w \in WorkspaceIds : CloseWorkspace(c, w)
      \/ \E t \in TabIds, i \in TabIndices : MoveTab(c, t, i)

ActiveOf(w) == tabs[w][activeTab[w]]

Listed(w) == \E i \in DOMAIN workspaces : workspaces[i] = w

\* ... leaves active what survives: in every workspace the active tab stays
\* the active tab, and the active workspace the active one, though their
\* indices shift.
ActiveSurvives ==
    \A w \in WorkspaceIds :
      Listed(w) =>
        /\ \A t \in TabIds :
             t = ActiveOf(w) /\ t \in TabsOf(w)' => ActiveOf(w)' = t
        /\ w = workspaces[activeWorkspace] /\ Listed(w)'
             => workspaces'[activeWorkspace'] = w

\* A pane as its clients know it.
Life(p) ==
    CASE p \in panes -> "live"
      [] \E c \in Users : p \in doomed[c] -> "removed"
      [] p >= nextPaneId -> "unborn"
      [] OTHER -> "closed"

Directory == INSTANCE PaneDirectory WITH
    Panes <- PaneIds,
    life <- [p \in PaneIds |-> Life(p)],
    current <- focusedPane[ActiveTabId]

\* The manager implements the directory of panes it promises its clients: no
\* id comes back to life, the last pane is never closed, the current pane
\* moves only when a client focuses another or its pane is closed, and no
\* rearrangement around it moves what is active.
ImplementsDirectory ==
    Directory!DirSpec /\ [][Rearrange => ActiveSurvives]_managerVars

\* Every pane removed from the map is tombstoned, and with it its shell told
\* to exit, whichever request removed it and whatever other clients do.
RemovedIsReaped ==
    \A p \in PaneIds :
      (\E c \in Users : p \in doomed[c]) ~> (p \in tombstoned)
=============================================================================
