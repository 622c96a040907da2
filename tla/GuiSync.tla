----------------------------- MODULE GuiSync -----------------------------
(***************************************************************************)
(* One GUI client and the daemon it drives: the client's mirror of tabs,   *)
(* layout and focus (oakterm: main.rs, layout_state.rs, tab_bar.rs,        *)
(* daemon_conn.rs) against the daemon's multiplexer state.                 *)
(*                                                                         *)
(* Requests and replies travel through two FIFO queues: the daemon serves  *)
(* one connection's requests in order, and the reader thread hands frames  *)
(* to the event loop in order.  The daemon announces no topology change,   *)
(* so the client learns of one only by asking, while the user acts on.     *)
(* Serials matter to pane closes alone, and only by their order: a request *)
(* carries the number of ClosePane requests sent up to it.                 *)
(* A layout tree is the set of its leaves, as in MuxState; which leaf is   *)
(* first, and which one lies in a direction, is left open.                 *)
(***************************************************************************)
EXTENDS MuxState, FiniteSets

CONSTANTS
    NoTab,       \* no active tab is known
    MaxActions   \* bound on what the user and the shells do

\* Two panes and two tabs may be there before the client is.
ASSUME GuiBoundsAssumption ==
    /\ MaxActions \in Nat /\ NoTab \notin TabIds
    /\ MaxPanes >= 2 /\ MaxTabs >= 2

VARIABLES
    \* the client
    views,        \* panes with a PaneView
    focused,      \* App.focused_pane
    tree,         \* leaves of the adopted layout tree ({}: none yet)
    pendingFocus, \* pane to focus once its view exists
    missed,       \* the last pane to focus was logged as missing from the
                  \* layout, and the client has told the daemon of no focus since
    known,        \* the tab strip: [tab, focus] in display order
    knownActive,  \* the tab the strip marks active
    refocus,      \* refocus_after_close
    closing,      \* closes in flight, a set of [n, pane]
    sentDims,     \* pane -> the geometry its last Resize was computed for
    redrawn,      \* initial_resize_sent, and whether a layout came first:
                  \* "no", "first", "late"
    published,    \* what assistive technology sees: [tab, panes]
    closes,       \* ClosePane requests sent
    actions,      \* what the user and the shells did
    \* the wire
    toDaemon, toClient,
    \* the daemon, besides its multiplexer state
    running       \* panes whose first Resize has started a shell

mirrorVars == <<known, knownActive, refocus, pendingFocus, missed>>
viewVars == <<views, focused, tree, sentDims, redrawn, published>>
closeVars == <<closing, closes>>
clientVars == <<mirrorVars, viewVars, closeVars, actions>>
daemonVars == <<muxVars, running>>
vars == <<clientVars, toDaemon, toClient, daemonVars>>

Unsent == [panes |-> {}, bar |-> FALSE]

\* What decides a pane's size: the panes it shares the window with, and
\* whether the tab bar takes a row.
Geometry(S, strip) == [panes |-> S, bar |-> Len(strip) > 1]

Req(op, id) == [op |-> op, id |-> id, n |-> closes]
ListTabs == Req("ListTabs", 0)
GetLayout(t) == Req("GetLayoutTree", IF t = NoTab THEN 0 ELSE t)
ResizeAll(S) == [op |-> "Resize", panes |-> S]

Send(reqs) == toDaemon' = toDaemon \o reqs

-----------------------------------------------------------------------------
(* The daemon: a fresh one, or one an earlier client left behind.          *)

LeftBehind(strip, active, trees, next) ==
    /\ workspaces = <<0>> /\ activeWorkspace = 1
    /\ tabs = [w \in WorkspaceIds |-> IF w = 0 THEN strip ELSE <<>>]
    /\ activeTab = [w \in WorkspaceIds |-> IF w = 0 THEN active ELSE 1]
    /\ layout = [t \in TabIds |-> IF t \in DOMAIN trees THEN trees[t] ELSE {}]
    /\ focusedPane =
         [t \in TabIds |-> IF t \in DOMAIN trees
                           THEN CHOOSE p \in trees[t] : TRUE ELSE NoPane]
    /\ nextPaneId = next /\ nextWorkspaceId = 1
    /\ nextTabId = Cardinality(DOMAIN trees \cup {0})

Init ==
    /\ \/ Seeded /\ running = {}
       \/ LeftBehind(<<0>>, 1, [t \in {0} |-> {0, 1}], 2) /\ running = {0, 1}
       \/ LeftBehind(<<1>>, 1, [t \in {1} |-> {1}], 2) /\ running = {1}
       \/ LeftBehind(<<0, 1>>, 2, [t \in {0, 1} |-> {t}], 2)
          /\ running = {0, 1}
    /\ views = {0} /\ focused = 0 /\ tree = {}
    /\ pendingFocus = NoPane /\ missed = FALSE
    /\ known = <<>> /\ knownActive = NoTab /\ refocus = FALSE
    /\ closing = {} /\ closes = 0 /\ actions = 0
    /\ sentDims = [p \in PaneIds |-> Unsent]
    /\ redrawn = "no"
    /\ published = [tab |-> NoTab, panes |-> {0}]
    /\ toDaemon = <<[op |-> "ListTabs", id |-> 0, n |-> 0]>>
    /\ toClient = <<>>

-----------------------------------------------------------------------------
(* The user, and the shells.                                               *)

Acts == actions < MaxActions /\ actions' = actions + 1

\* Creating requests on their way.
Creating == Cardinality({i \in DOMAIN toDaemon :
                           toDaemon[i].op \in {"SplitPane", "NewTab"}})

\* SplitPane of the focused pane, NewTab, CloseTab of the tab marked active.
PressSplit ==
    /\ nextPaneId + Creating < MaxPanes
    /\ Send(<<Req("SplitPane", focused)>>)
    /\ UNCHANGED <<mirrorVars, viewVars, closeVars>>

PressNewTab ==
    /\ nextPaneId + Creating < MaxPanes /\ nextTabId + Creating < MaxTabs
    /\ Send(<<Req("NewTab", 0)>>)
    /\ UNCHANGED <<mirrorVars, viewVars, closeVars>>

PressCloseTab ==
    /\ Send(<<Req("CloseTab", IF knownActive = NoTab THEN 0 ELSE knownActive)>>)
    /\ UNCHANGED <<mirrorVars, viewVars, closeVars>>

\* ClosePane: the close is remembered by its serial until it is answered.
PressClosePane ==
    /\ closes' = closes + 1
    /\ closing' = closing \cup {[n |-> closes + 1, pane |-> focused]}
    /\ Send(<<[op |-> "ClosePane", id |-> focused, n |-> closes + 1]>>)
    /\ UNCHANGED <<mirrorVars, viewVars>>

\* FocusPane in a direction, a press in a pane: only within a split window.
PressFocus(p) ==
    /\ focused \in tree /\ p \in tree \ {focused}
    /\ focused' = p /\ missed' = FALSE
    /\ Send(<<Req("FocusPane", p)>>)
    /\ UNCHANGED <<known, knownActive, refocus, pendingFocus, closeVars,
                   views, tree, sentDims, redrawn, published>>

\* SwitchTab, NextTab, PreviousTab, a click on the tab bar.
PressSwitch(t) ==
    /\ \E i \in DOMAIN known : known[i].tab = t
    /\ t # knownActive
    /\ Send(<<Req("SwitchTab", t), ListTabs>>)
    /\ UNCHANGED <<mirrorVars, viewVars, closeVars>>

User ==
    /\ Acts
    /\ \/ PressSplit \/ PressNewTab \/ PressCloseTab \/ PressClosePane
       \/ \E p \in PaneIds : PressFocus(p)
       \/ \E t \in TabIds : PressSwitch(t)
    /\ UNCHANGED <<toClient, daemonVars>>

\* A shell sets its title: the daemon pushes it.
TitleSet ==
    /\ Acts
    /\ running # {}
    /\ toClient' = Append(toClient, [op |-> "TitleChanged"])
    /\ UNCHANGED <<mirrorVars, viewVars, closeVars, toDaemon, daemonVars>>

\* try_send_initial_resize: the first redraw sizes the focused pane to the
\* whole window.
FirstRedraw ==
    /\ redrawn = "no" /\ focused \in views
    /\ redrawn' = IF tree = {} THEN "first" ELSE "late"
    /\ sentDims' = [sentDims EXCEPT ![focused] = Geometry({focused}, known)]
    /\ Send(<<ResizeAll({focused})>>)
    /\ UNCHANGED <<mirrorVars, closeVars, actions, toClient, daemonVars,
                   views, focused, tree, published>>

-----------------------------------------------------------------------------
(* The daemon serves the oldest request.                                   *)

Reply(r) == toClient' = Append(toClient, r)
Refuse(q) == Reply([op |-> "Failed", n |-> q.n]) /\ UNCHANGED daemonVars

Live == UNION {layout[t] : t \in TabIds}

\* tab_list_snapshot: the active workspace's tabs, under one lock.
TabListSnapshot ==
    LET shown == tabs[workspaces[activeWorkspace]] IN
    [active |-> ActiveTabId,
     strip |-> [i \in DOMAIN shown |-> [tab |-> shown[i], focus |-> focusedPane[shown[i]]]]]

\* tab_list_response
TabsReply ==
    [op |-> "TabList", active |-> TabListSnapshot.active, strip |-> TabListSnapshot.strip]

\* allocate_pane_id; what the user may ask for keeps within the bound.
AllocatePaneId == nextPaneId < MaxPanes /\ nextPaneId' = nextPaneId + 1

ServeSplit(q) ==
    \/ q.id \notin Live /\ Refuse(q)
    \/ /\ \E ti \in TabIndices :
            /\ Located(q.id, 1, ti)
            /\ AddLeaf(TabAt(1, ti), nextPaneId)
            /\ focusedPane' =
                 [focusedPane EXCEPT ![TabAt(1, ti)] = nextPaneId]
            /\ Activate(1, ti)
       /\ AllocatePaneId
       /\ Reply([op |-> "SplitCreated", pane |-> nextPaneId])
       /\ UNCHANGED <<workspaces, tabs, nextTabId, nextWorkspaceId, running>>

ServeNewTab ==
    /\ NewTabIn(nextPaneId)
    /\ AllocatePaneId
    /\ Reply([op |-> "TabCreated", pane |-> nextPaneId])
    /\ UNCHANGED running

ServeCloseTab(q) ==
    \/ layout[q.id] \in {{}, Live} /\ Refuse(q)
    \/ /\ \E ti \in TabIndices : LocatedTab(q.id, 1, ti) /\ CloseTabAt(1, ti)
       /\ layout[q.id] # Live
       /\ running' = running \ layout[q.id]
       /\ Reply([op |-> "TabClosed"])

ServeClosePane(q) ==
    \/ (q.id \notin Live \/ Cardinality(Live) = 1) /\ Refuse(q)
    \/ /\ Cardinality(Live) > 1
       /\ \E ti \in TabIndices : CloseAt(q.id, 1, ti)
       /\ running' = running \ {q.id}
       /\ Reply([op |-> "PaneClosed", n |-> q.n])

\* Variant, for mutation: the focus waits for its pane to appear.
ServeFocusWaits(q) ==
    /\ \E ti \in TabIndices : FocusAt(q.id, 1, ti)
    /\ UNCHANGED <<running, toClient>>

\* Both are pushes: only a refusal is answered.
ServeFocus(q) ==
    \/ q.id \notin Live /\ Refuse(q)
    \/ /\ \E ti \in TabIndices : FocusAt(q.id, 1, ti)
       /\ UNCHANGED <<running, toClient>>

ServeSwitch(q) ==
    \/ layout[q.id] = {} /\ Refuse(q)
    \/ /\ \E ti \in TabIndices :
            LocatedTab(q.id, 1, ti) /\ FocusAt(focusedPane[q.id], 1, ti)
       /\ UNCHANGED <<running, toClient>>

ServeLayout(q) ==
    \/ layout[q.id] = {} /\ Refuse(q)
    \/ /\ layout[q.id] # {}
       /\ Reply([op |-> "LayoutTree", panes |-> layout[q.id]])
       /\ UNCHANGED daemonVars

ServeList == Reply(TabsReply) /\ UNCHANGED daemonVars

\* The first Resize of a pane starts its shell; one of a pane that is gone
\* is dropped.
ServeResize(q) ==
    /\ running' = running \cup (q.panes \cap Live)
    /\ UNCHANGED <<muxVars, toClient>>

Serve ==
    /\ toDaemon # <<>>
    /\ LET q == Head(toDaemon) IN
         \/ q.op = "SplitPane" /\ ServeSplit(q)
         \/ q.op = "NewTab" /\ ServeNewTab
         \/ q.op = "CloseTab" /\ ServeCloseTab(q) /\ UNCHANGED nextPaneId
         \/ q.op = "ClosePane" /\ ServeClosePane(q) /\ UNCHANGED nextPaneId
         \/ q.op = "FocusPane" /\ ServeFocus(q)
         \/ q.op = "SwitchTab" /\ ServeSwitch(q)
         \/ q.op = "GetLayoutTree" /\ ServeLayout(q)
         \/ q.op = "ListTabs" /\ ServeList
         \/ q.op = "Resize" /\ ServeResize(q)
    /\ toDaemon' = Tail(toDaemon)
    /\ UNCHANGED clientVars

-----------------------------------------------------------------------------
(* The client handles the oldest event.                                    *)

\* SplitCreated: focus follows once the layout with the new pane arrives.
OnSplitCreated(e) ==
    /\ pendingFocus' = e.pane
    /\ Send(<<GetLayout(knownActive)>>)
    /\ UNCHANGED <<known, knownActive, refocus, missed, viewVars, closeVars>>

OnTabCreated(e) ==
    /\ pendingFocus' = e.pane
    /\ Send(<<ListTabs>>)
    /\ UNCHANGED <<known, knownActive, refocus, missed, viewVars, closeVars>>

\* TitleChanged: unnamed tabs show titles, so a visible strip is fetched anew.
OnTitleChanged ==
    /\ Send(IF Len(known) > 1 THEN <<ListTabs>> ELSE <<>>)
    /\ UNCHANGED <<mirrorVars, viewVars, closeVars>>

OnTabClosed ==
    /\ Send(<<ListTabs>>)
    /\ UNCHANGED <<mirrorVars, viewVars, closeVars>>

\* Variant, for mutation: the newest close in flight is taken for the one
\* that was answered.
ResolveNewestClose(n) ==
    {c.pane : c \in {c \in closing : \A d \in closing : d.n <= c.n}}

\* resolve_pane_close: the close with this very serial.
ResolvePaneClose(n) == {c.pane : c \in {c \in closing : c.n = n}}

\* Closes at or below an answered serial are settled.
Unanswered(n) == {c \in closing : c.n > n}

OnPaneClosed(e) ==
    /\ views' = views \ ResolvePaneClose(e.n)
    /\ sentDims' = [p \in PaneIds |->
                      IF p \in ResolvePaneClose(e.n) THEN Unsent
                      ELSE sentDims[p]]
    /\ closing' = Unanswered(e.n)
    /\ refocus' = TRUE
    /\ Send(<<ListTabs>>)
    /\ UNCHANGED <<known, knownActive, pendingFocus, missed, closes,
                   focused, tree, redrawn, published>>

OnFailed(e) ==
    /\ closing' = Unanswered(e.n)
    /\ UNCHANGED <<mirrorVars, viewVars, closes, toDaemon>>

\* TabsState::apply
ActiveOf(e) ==
    IF \E i \in DOMAIN e.strip : e.strip[i].tab = e.active
    THEN e.active ELSE NoTab

\* relayout_panes, for a tab bar that comes or goes: the panes of a split
\* window, or else the focused pane; nothing before the first redraw.
Relaid ==
    IF redrawn = "no" THEN {}
    ELSE IF Cardinality(tree) > 1 THEN tree
    ELSE {focused} \cap views

\* plan_pane_syncs: a Resize for each pane last sized for another geometry.
Stale(S, g) == {p \in S : sentDims[p] # g}
ResizesFor(S, g) ==
    IF Stale(S, g) = {} THEN <<>> ELSE <<ResizeAll(Stale(S, g))>>
Sized(S, g) ==
    [p \in PaneIds |-> IF p \in S THEN g ELSE sentDims[p]]

\* Variant, for mutation: a close in the active tab brings no layout.
LayoutInboundOnSwitch(e) ==
    ActiveOf(e) # knownActive /\ ActiveOf(e) # NoTab

\* tab_sync_timing
LayoutInbound(e) ==
    IF ActiveOf(e) # knownActive THEN ActiveOf(e) # NoTab ELSE refocus

\* focused_pane_of
FocusOf(strip, t) ==
    strip[CHOOSE i \in DOMAIN strip : strip[i].tab = t].focus

\* apply_tab_list: follow the daemon's active tab by fetching its tree, and
\* let the focus wait for that tree.
OnTabList(e) ==
    LET barMoved == (Len(e.strip) > 1) # (Len(known) > 1)
        S == IF barMoved THEN Relaid ELSE {}
        g == Geometry(IF Cardinality(tree) > 1 THEN tree ELSE {focused},
                      e.strip)
        shown == IF barMoved /\ Cardinality(tree) > 1
                 THEN tree \cap views ELSE published.panes
    IN /\ known' = e.strip
       /\ knownActive' = ActiveOf(e)
       /\ refocus' = FALSE
       /\ views' = views \cup S
       /\ sentDims' = Sized(S, g)
       /\ IF LayoutInbound(e)
          THEN /\ pendingFocus' =
                    IF ActiveOf(e) = NoTab THEN pendingFocus
                    ELSE FocusOf(e.strip, ActiveOf(e))
               /\ published' = [published EXCEPT !.panes = shown]
               /\ Send(ResizesFor(S, g) \o <<GetLayout(ActiveOf(e))>>)
          ELSE /\ UNCHANGED pendingFocus
               /\ published' = [tab |-> ActiveOf(e), panes |-> shown]
               /\ Send(ResizesFor(S, g))
       /\ UNCHANGED <<focused, tree, missed, redrawn, closeVars>>

\* apply_layout_tree: adopt the tree, create and size its views, publish,
\* apply the pending focus if that pane has a view, and leave the focus on a
\* pane of the tree.
OnLayoutTree(e) ==
    LET S == e.panes
        g == Geometry(S, known)
        moved == {pendingFocus} \cap (views \cup S)
        now == IF moved = {} THEN focused ELSE pendingFocus
        follow == IF moved = {} THEN <<>> ELSE <<Req("FocusPane", now)>>
    IN /\ tree' = S
       /\ views' = views \cup S
       /\ sentDims' = Sized(S, g)
       /\ published' = [tab |-> knownActive, panes |-> S]
       /\ pendingFocus' = NoPane
       /\ \/ /\ now \in S
             /\ focused' = now
             /\ missed' = (moved = {} /\ (missed \/ pendingFocus # NoPane))
             /\ Send(ResizesFor(S, g) \o follow)
          \/ /\ now \notin S
             /\ missed' = FALSE
             /\ \E p \in S :
                  /\ focused' = p
                  /\ Send(ResizesFor(S, g) \o follow
                            \o <<Req("FocusPane", p)>>)
       /\ UNCHANGED <<known, knownActive, refocus, redrawn, closeVars>>

Handle ==
    /\ toClient # <<>>
    /\ LET e == Head(toClient) IN
         \/ e.op = "SplitCreated" /\ OnSplitCreated(e)
         \/ e.op = "TabCreated" /\ OnTabCreated(e)
         \/ e.op = "TabClosed" /\ OnTabClosed
         \/ e.op = "TitleChanged" /\ OnTitleChanged
         \/ e.op = "PaneClosed" /\ OnPaneClosed(e)
         \/ e.op = "Failed" /\ OnFailed(e)
         \/ e.op = "TabList" /\ OnTabList(e)
         \/ e.op = "LayoutTree" /\ OnLayoutTree(e)
    /\ toClient' = Tail(toClient)
    /\ UNCHANGED <<actions, daemonVars>>

Next == User \/ TitleSet \/ FirstRedraw \/ Serve \/ Handle

Spec == Init /\ [][Next]_vars

\* The daemon's connection task and the client's event loop take up what is
\* queued; a window is drawn; the user owes nothing.
FairSpec ==
    Spec /\ WF_vars(FirstRedraw) /\ WF_vars(Serve) /\ WF_vars(Handle)
-----------------------------------------------------------------------------
Requests ==
    [op : {"SplitPane", "NewTab", "CloseTab", "ClosePane", "FocusPane",
           "SwitchTab", "GetLayoutTree", "ListTabs"},
     id : PaneIds \cup TabIds, n : 0 .. MaxActions]
    \cup [op : {"Resize"}, panes : SUBSET PaneIds]

\* Every variable has its type, and a live tab's focused pane is one of its
\* panes (the strip tells the client to focus it).
TypeOK ==
    /\ views \in SUBSET PaneIds /\ focused \in PaneIds
    /\ tree \in SUBSET PaneIds
    /\ pendingFocus \in PaneIds \cup {NoPane} /\ missed \in BOOLEAN
    /\ knownActive \in TabIds \cup {NoTab}
    /\ refocus \in BOOLEAN /\ redrawn \in {"no", "first", "late"}
    /\ closing \in SUBSET [n : 0 .. MaxActions, pane : PaneIds]
    /\ sentDims \in [PaneIds -> [panes : SUBSET PaneIds, bar : BOOLEAN]]
    /\ published \in [tab : TabIds \cup {NoTab}, panes : SUBSET PaneIds]
    /\ toDaemon \in Seq(Requests)
    /\ running \in SUBSET Live
    /\ \A t \in TabIds : layout[t] # {} => focusedPane[t] \in layout[t]

\* The tabs of a strip, in display order.
Names(strip) == [i \in DOMAIN strip |-> strip[i].tab]

\* Nothing is on its way between the two.
Quiet == toDaemon = <<>> /\ toClient = <<>> /\ redrawn # "no"

\* Whatever the user did while older answers were on their way (splits,
\* closes, switches, layouts of a tab that is no longer active), once
\* everything is answered the client shows the daemon's active tab: its
\* strip, its panes, its focused pane, and no close is still waited for.  Its
\* focus is another pane of that tab only if it dropped the pane to focus, and
\* said so in its log (the README shows how a new tab brings this about).
MirrorAgrees ==
    Quiet =>
      /\ knownActive = ActiveTabId
      /\ Names(known) = tabs[0]
      /\ tree = layout[ActiveTabId]
      /\ focused \in tree
      /\ missed \/ focused = focusedPane[ActiveTabId]
      /\ published = [tab |-> knownActive, panes |-> tree]
      /\ closing = {}

\* Then every pane on screen runs a shell, sized for the window as it is
\* split now and for the tab bar as it is now.  The size is not owed when
\* the first redraw comes after a layout: it sizes the focused pane to the
\* whole window (the README lists this).
ShellsFit ==
    Quiet =>
      /\ tree \subseteq running
      /\ redrawn = "first" =>
           \A p \in tree : sentDims[p] = Geometry(tree, known)

\* Once all is answered the client shows the daemon's tab, at its size.
MirrorIsTrue == TypeOK /\ MirrorAgrees /\ ShellsFit

\* A view goes only when its pane is gone, although the answer to a close
\* names no pane and others, refused or accepted, may be in flight.
ClosedViewsAreClosed ==
    [][\A p \in views \ views' : p \notin Live]_vars

\* Answers breed requests (a tab list a layout, a layout a focus, a focus a
\* change of the active tab), but the exchange dies down.
Settles == <>[]Quiet
=============================================================================
