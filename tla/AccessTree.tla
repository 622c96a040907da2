---------------------------- MODULE AccessTree ----------------------------
(***************************************************************************)
(* What one pane's view shows - the live screen, a page of history, or     *)
(* copy mode's window - and the accessibility tree that tells a screen     *)
(* reader about it (oakterm: pane_view.rs, a11y_bridge.rs and the event    *)
(* handlers of main.rs).  The live screen is RenderSync's mirror.          *)
(*                                                                         *)
(* The bridge keeps a snapshot of what it last told assistive technology   *)
(* (AT), and each event pushes only the nodes that differ from it, so an   *)
(* event that looks at too little leaves AT reading what is gone.  The     *)
(* tree AT holds is built from the snapshot when it connects, on a thread  *)
(* of its own, and from the pushes afterwards.                             *)
(*                                                                         *)
(* One pane.  A row's text is its RenderSync value, long if it is not      *)
(* blank; the cursor is in the last column.  History rows, and what copy   *)
(* mode composes (CopyView), are any text, the same in every such row.     *)
(* Left out: columns, titles, bounds, announcements, scroll_y_max, the     *)
(* tabs and the focus of the tree, requests that fail, and copy mode's     *)
(* refusal before the first update and on the alternate screen.            *)
(***************************************************************************)
EXTENDS RenderSync

CONSTANTS
    Offsets,     \* scroll offsets asked for
    MaxSteps     \* bound on chunks of output and on what the user does

ASSUME OffsetsAssumption == Offsets \subseteq Nat \ {0}
ASSUME StepsAssumption == MaxSteps \in Nat

VARIABLES
    view,        \* the pane's PaneView, but for its live cells
    cursor,      \* the live screen's cursor row
    pages,       \* GetScrollbacks not answered yet: the offset of each
    snap,        \* PaneA11ySnapshot
    tree,        \* what AT holds, or NoTree
    queued,      \* an update built and not yet offered to the adapter
    excused,     \* history: what AT may not have heard; "caret" once a title
                 \* or a selection told it of a cursor the snapshot does not
                 \* know, "screen" once copy mode came and went between two
                 \* frames or a prompt search froze a screen not heard of
                 \* yet, so that no event tells AT what is shown,
                 \* "column" once the text under a live cursor changed
    announced,   \* CopyModeAnnouncer has the pane
    frameDue,    \* a redraw was requested
    retrying,    \* copy_entry_retry has the pane
    acts         \* what the user did so far

a11yVars == <<snap, tree, queued, excused>>
viewVars == <<view, cursor, pages, announced, frameDue, retrying, acts>>
syncVars == vars
allVars == <<syncVars, a11yVars, viewVars>>

NoTree == [texts |-> <<>>, node |-> <<>>]
NoNode == <<>>
NoUpdate == [texts |-> <<>>, node |-> NoNode]
NotCopying == [cursor |-> 0]
NoSelection == <<0, 0>>
LastRow == RowCount

-----------------------------------------------------------------------------
\* PaneView.  The grid's cells are the mirror or, once frozen, a page: what was
\* shown when it froze, or the page last painted.

LivePage == [texts |-> AllRows(Blank), cursor |-> LastRow, of |-> 0]

LiveView ==
    [offset |-> 0, painted |-> 0, frozen |-> FALSE, page |-> LivePage,
     copy |-> NotCopying, selection |-> NoSelection]

\* freeze: enter_scrollback, a no-op if frozen.
Frozen(v) ==
    IF v.frozen
    THEN v
    ELSE [v EXCEPT !.frozen = TRUE,
                   !.page = [texts |-> mirror, cursor |-> cursor, of |-> 0]]

\* snap_to_live, and the copy mode its callers invalidate.
SnappedToLive(v) == [LiveView EXCEPT !.selection = v.selection]

\* A selection counts its rows from the live bottom, 0 for none: its part of
\* the rows shown, if any.
Visible(selection, offset) ==
    LET first == selection[1] + offset
        last == selection[2] + offset
    IN IF selection = NoSelection \/ last < 1 \/ first > RowCount
       THEN NoSelection
       ELSE <<IF first < 1 THEN 1 ELSE first,
              IF last > RowCount THEN RowCount ELSE last>>

\* on_screen and screen_scroll_offset, of view v over the live rows and cursor.
Screen(v, rows, at) ==
    IF v.copy # NotCopying
    THEN v.copy
    ELSE [texts |-> IF v.frozen THEN v.page.texts ELSE rows,
          cursor |-> IF v.frozen THEN v.page.cursor ELSE at,
          offset |-> v.offset,
          selection |-> Visible(v.selection, v.offset)]

OnScreen == Screen(view, mirror, cursor)

-----------------------------------------------------------------------------
\* The bridge.

\* refresh_from_screen: the snapshot of a screen is what it shows.
SnapOf(screen) == screen

\* build_terminal_node: the caret is clamped to its row's text.
TextLen(text) == IF text = Blank THEN 0 ELSE 1
NodeOf(s, screen) ==
    [caret |-> <<screen.cursor, TextLen(screen.texts[screen.cursor])>>,
     offset |-> s.offset, selection |-> s.selection]

\* build_full_tree.
FullTree(s) == [texts |-> s.texts, node |-> NodeOf(s, s)]

\* How AT takes an update: nodes it names replace the old ones.
Applied(t, update) ==
    [texts |-> [r \in Rows |-> IF r \in DOMAIN update.texts
                              THEN update.texts[r] ELSE t.texts[r]],
     node |-> IF update.node = NoNode THEN t.node ELSE update.node]

\* update_if_active: a tree nobody asked for yet gets no updates.  If AT is
\* connected nothing comes between the update and its push; if not, it may
\* connect there.
Push(update) ==
    /\ queued' = IF tree = NoTree THEN update ELSE NoUpdate
    /\ tree' = IF tree = NoTree THEN NoTree ELSE Applied(tree, update)

\* build_incremental_update, of the rows named and, if it is rebuilt, the
\* terminal node.
Told(s, screen, rows, rebuilt) ==
    [texts |-> [r \in rows |-> screen.texts[r]],
     node |-> IF rebuilt THEN NodeOf(s, screen) ELSE NoNode]

ChangedRows(old, new) == {r \in Rows : new.texts[r] # old.texts[r]}

\* The terminal node is told again if what it carries changed.
Rebuilt(screen) ==
    \/ screen.cursor # snap.cursor
    \/ screen.offset # snap.offset
    \/ screen.selection # snap.selection

\* A11yEvent::Render: the rows the daemon names and those AT last heard from
\* another view.  New text under a cursor that has not moved leaves the caret
\* where the old text let it.
TellRender(screen, named) ==
    LET changed == ChangedRows(snap, screen)
    IN /\ snap' = SnapOf(screen)
       /\ excused' = IF Rebuilt(screen) THEN {}
                     ELSE (excused \ {"screen"})
                            \cup {why \in {"column"} : screen.cursor \in changed}
       /\ Push(Told(snap', screen, named \cup changed, Rebuilt(screen)))

\* Variant, for mutation: the caret is left alone as a render leaves it.
RebuiltAsRendered(screen) == Rebuilt(screen)

\* A11yEvent::ViewChanged: new text under the caret rebuilds the terminal too.
RebuiltInView(screen) ==
    Rebuilt(screen) \/ screen.cursor \in ChangedRows(snap, screen)

TellView(screen) ==
    /\ snap' = SnapOf(screen)
    /\ excused' = IF RebuiltInView(screen) THEN {} ELSE excused \ {"screen"}
    /\ Push(Told(snap', screen, ChangedRows(snap, screen), RebuiltInView(screen)))

\* A11yEvent::Scrollback: every row is named.
TellPage(screen) ==
    /\ snap' = SnapOf(screen)
    /\ excused' = {}
    /\ Push(Told(snap', screen, Rows, TRUE))

CaretOf(screen) ==
    {why \in {"caret"} : \/ screen.cursor # snap.cursor
                         \/ screen.cursor \in ChangedRows(snap, screen)}

\* A11yEvent::Title: the terminal is rebuilt, so its scroll position must be
\* current even if no page has come yet.
TellTitle(screen) ==
    /\ snap' = [snap EXCEPT !.offset = screen.offset]
    /\ excused' = (excused \cap {"screen"}) \cup CaretOf(screen)
    /\ Push(Told(snap', screen, {}, TRUE))

\* A11yEvent::SelectionChanged.
TellSelection(screen) ==
    IF snap.selection = screen.selection
    THEN UNCHANGED a11yVars
    ELSE /\ snap' = [snap EXCEPT !.selection = screen.selection,
                                 !.offset = screen.offset]
         /\ excused' = (excused \cap {"screen"}) \cup CaretOf(screen)
         /\ Push(Told(snap', screen, {}, TRUE))

\* reconcile_panes: new dimensions refresh the snapshot, a new origin only its
\* scroll position; both rebuild the whole tree.
TellDimensions(screen) ==
    /\ snap' = SnapOf(screen)
    /\ excused' = {}
    /\ Push(FullTree(snap'))

TellOrigin(screen) ==
    /\ snap' = [snap EXCEPT !.offset = screen.offset]
    /\ excused' = excused \cap {"screen"}
    /\ Push(FullTree(snap'))

-----------------------------------------------------------------------------
\* The GUI thread.

GuiFree == queued = NoUpdate

\* Bound: one step more once AT is connected.
Step == outputs + acts < IF tree = NoTree THEN MaxSteps - 1 ELSE MaxSteps

Acts ==
    /\ GuiFree
    /\ Step
    /\ acts' = acts + 1

\* UserEvent::RenderUpdate: into the screen or, under a page, behind it.
RenderUpdate ==
    /\ GuiFree
    /\ OnRenderUpdate
    /\ cursor' \in Rows
    /\ IF view.frozen
       THEN UNCHANGED <<a11yVars, frameDue>>
       ELSE /\ TellRender(Screen(view, mirror', cursor'), DOMAIN Head(toClient).rows)
            /\ frameDue' = TRUE
    /\ UNCHANGED <<view, pages, announced, retrying, acts>>

\* scroll_up, scroll_down and set_scroll_offset to a page of history, by wheel,
\* key, AT or an answered prompt search.
ScrollTo(offset) ==
    /\ Acts
    /\ view' = [Frozen(view) EXCEPT !.offset = offset, !.copy = NotCopying]
    /\ pages' = Append(pages, offset)
    /\ UNCHANGED <<syncVars, a11yVars, cursor, announced, frameDue, retrying>>

\* ScrollToPrompt(older): freeze_live.  An answer that names no prompt leaves
\* the view so.  A live screen AT has not heard of yet is frozen unheard: the
\* update that would tell it goes behind the page.
SearchPrompt ==
    /\ Acts
    /\ view.copy = NotCopying
    /\ view' = Frozen(view)
    /\ excused' = excused \cup {why \in {"screen"} : snap # SnapOf(OnScreen)}
    /\ UNCHANGED <<syncVars, snap, tree, queued, cursor, pages, announced,
                   frameDue, retrying>>

\* return_to_live, which asks for the whole screen.
BackToLive ==
    /\ view' = SnappedToLive(view)
    /\ ReturnToLive
    /\ frameDue' = TRUE
    /\ UNCHANGED <<a11yVars, cursor, announced, retrying>>

ScrollToLive ==
    /\ Acts
    /\ BackToLive
    /\ UNCHANGED pages

\* apply_scrollback: history on top of the live rows, at the current offset.
Painted(v, of, text) ==
    [v EXCEPT
       !.painted = v.offset,
       !.page = [texts |-> [r \in Rows |-> IF r <= v.offset THEN text
                                           ELSE mirror[r - v.offset]],
                 cursor |-> v.page.cursor, of |-> of]]

\* UserEvent::ScrollbackData, routed by route_scrollback.
Superseded == Len(pages) > 1

DropPage ==
    /\ GuiFree /\ pages # <<>>
    /\ view.copy # NotCopying \/ Superseded \/ view.offset = 0
    /\ pages' = Tail(pages)
    /\ UNCHANGED <<syncVars, a11yVars, view, cursor, announced, frameDue, retrying, acts>>

Paintable ==
    /\ GuiFree /\ pages # <<>>
    /\ view.copy = NotCopying /\ ~ Superseded /\ view.offset > 0

\* PaneView::enter_copy_mode: the painted cells as they stand.
Copying(v) ==
    LET f == Frozen(v)
    IN [f EXCEPT !.offset = f.painted, !.selection = NoSelection,
                 !.copy = [texts |-> f.page.texts, cursor |-> LastRow,
                           offset |-> f.painted, selection |-> NoSelection]]

\* copy_mode_entry_base: a page part history and part live screen may be of
\* two instants, and then has no base.
Partial(v) == v.painted > 0 /\ v.painted < RowCount

\* clamp_scrollback: the offset is cut to the history there is.  An entry to
\* copy mode that waited for this page is tried again, once.
PaintPage(total, text) ==
    /\ Paintable
    /\ total > 0
    /\ pages' = Tail(pages)
    /\ LET cut(offset) == IF offset > total THEN total ELSE offset
           v == Painted([view EXCEPT !.offset = cut(@)], cut(Head(pages)), text)
       IN /\ TellPage(Screen(v, mirror, cursor))
          /\ \/ retrying /\ view' = Copying(v)
             \/ (retrying => Partial(v)) /\ view' = v
    /\ frameDue' = TRUE
    /\ retrying' = FALSE
    /\ UNCHANGED <<syncVars, cursor, announced, acts>>

\* No history is left: back to the live screen.
NoHistory ==
    /\ Paintable
    /\ pages' = Tail(pages)
    /\ BackToLive
    /\ UNCHANGED acts

\* App::enter_copy_mode, on a page of one instant.
EnterCopyMode ==
    /\ Acts
    /\ view.copy = NotCopying
    /\ view' = Copying(view)
    /\ frameDue' = TRUE
    /\ retrying' = FALSE
    /\ UNCHANGED <<syncVars, a11yVars, cursor, pages, announced>>

\* On a page of two: the page is asked for once more, at the offset the view
\* stands at; a second press gives up.
DeferCopyMode ==
    /\ Acts
    /\ view.copy = NotCopying
    /\ Partial(view)
    /\ retrying' = ~ retrying
    /\ pages' = IF retrying THEN pages ELSE Append(pages, view.offset)
    /\ UNCHANGED <<syncVars, a11yVars, view, cursor, announced, frameDue>>

\* A key, a fill, a search or AT moves what copy mode shows.
InCopyMode(text, at, offset) ==
    /\ Acts
    /\ view.copy # NotCopying
    /\ view' = [view EXCEPT !.copy =
                  [texts |-> AllRows(text), cursor |-> at, offset |-> offset,
                   selection |-> IF offset = 0 THEN NoSelection
                                 ELSE <<1, at>>]]
    /\ frameDue' = TRUE
    /\ UNCHANGED <<syncVars, a11yVars, cursor, pages, announced, retrying>>

ExitCopyMode ==
    /\ Acts
    /\ view.copy # NotCopying
    /\ view' = SnappedToLive(view)
    /\ excused' = IF announced THEN excused ELSE excused \cup {"screen"}
    /\ frameDue' = TRUE
    /\ UNCHANGED <<syncVars, snap, tree, queued, cursor, pages, announced, retrying>>

\* start_selection, a drag, AT's SetTextSelection or a key that clears it.
Select(selection) ==
    /\ Acts
    /\ view.copy = NotCopying
    /\ view' = [view EXCEPT !.selection =
                  IF selection = NoSelection
                  THEN NoSelection
                  ELSE <<selection[1] - view.offset,
                         selection[2] - view.offset>>]
    /\ TellSelection(Screen(view', mirror, cursor))
    /\ frameDue' = TRUE
    /\ UNCHANGED <<syncVars, cursor, pages, announced, retrying>>

\* The status bar of a focused pane is drawn again.
TitleChanged ==
    /\ Acts
    /\ TellTitle(OnScreen)
    /\ frameDue' \in {frameDue, TRUE}
    /\ UNCHANGED <<syncVars, view, cursor, pages, announced, retrying>>

\* relayout_panes: the grid's columns change, which ends pages and copy mode.
Resize ==
    /\ Acts
    /\ view' = SnappedToLive(view)
    /\ TellDimensions(Screen(view', mirror, cursor))
    /\ frameDue' = TRUE
    /\ UNCHANGED <<syncVars, cursor, pages, announced, retrying>>

\* relayout_panes: the pane only moves in the window.
MoveOrigin ==
    /\ Acts
    /\ TellOrigin(OnScreen)
    /\ frameDue' = TRUE
    /\ UNCHANGED <<syncVars, view, cursor, pages, announced, retrying>>

\* redraw: sync_copy_mode_a11y, for a pane in copy mode or last announced so.
Redraw ==
    /\ GuiFree
    /\ frameDue
    /\ frameDue' = FALSE
    /\ IF view.copy # NotCopying \/ announced
       THEN TellView(OnScreen)
       ELSE UNCHANGED a11yVars
    /\ announced' = (view.copy # NotCopying)
    /\ UNCHANGED <<syncVars, view, cursor, pages, retrying, acts>>

\* The adapter's thread: request_initial_tree.
Activate ==
    /\ tree = NoTree
    /\ tree' = FullTree(snap)
    /\ UNCHANGED <<syncVars, snap, queued, excused, viewVars>>

\* update_if_active, for an update built before AT connected.
Offer ==
    /\ queued # NoUpdate
    /\ queued' = NoUpdate
    /\ tree' = IF tree = NoTree THEN NoTree ELSE Applied(tree, queued)
    /\ UNCHANGED <<syncVars, snap, excused, viewVars>>

-----------------------------------------------------------------------------
Daemon ==
    /\ \/ Step /\ Output
       \/ WakeClients \/ SendDirtyNotifications \/ GetRenderUpdate
       \/ OnDirtyNotify
    /\ UNCHANGED <<a11yVars, viewVars>>

Gui ==
    \/ RenderUpdate
    \/ \E offset \in Offsets : ScrollTo(offset)
    \/ SearchPrompt
    \/ ScrollToLive
    \/ DropPage
    \/ \E total \in Rows, text \in Texts : PaintPage(total, text)
    \/ NoHistory
    \/ EnterCopyMode
    \/ DeferCopyMode
    \/ \E text \in Texts, at \in Rows, offset \in {0, LastRow} :
         InCopyMode(text, at, offset)
    \/ ExitCopyMode
    \/ \E selection \in {NoSelection, <<1, LastRow>>} :
         Select(selection)
    \/ TitleChanged
    \/ Resize
    \/ MoveOrigin
    \/ Redraw

AInit ==
    /\ Init
    /\ view = LiveView /\ cursor = 1
    /\ pages = <<>> /\ announced = FALSE /\ frameDue = FALSE
    /\ retrying = FALSE /\ acts = 0
    /\ snap = SnapOf(Screen(LiveView, AllRows(Blank), 1))
    /\ tree = NoTree /\ queued = NoUpdate /\ excused = {}

ANext == Daemon \/ Gui \/ Activate \/ Offer

\* As in RenderSync; the GUI thread runs, and offers what it built.
ASpec ==
    /\ AInit /\ [][ANext]_allVars
    /\ WF_allVars(WakeClients /\ UNCHANGED <<a11yVars, viewVars>>)
    /\ WF_allVars(OnDirtyNotify /\ UNCHANGED <<a11yVars, viewVars>>)
    /\ WF_allVars(RenderUpdate) /\ WF_allVars(Offer)
    /\ SF_allVars(SendDirtyNotifications /\ UNCHANGED <<a11yVars, viewVars>>)
    /\ SF_allVars(GetRenderUpdate /\ UNCHANGED <<a11yVars, viewVars>>)

-----------------------------------------------------------------------------
\* AT was told what the snapshot says, whatever event said it and whenever it
\* connected (a11y_bridge.rs: "snapshot state can never diverge").  The caret
\* may be ahead of the snapshot's, from a title or a selection.
ToldWhatItKnows ==
    tree # NoTree /\ GuiFree =>
      /\ tree.texts = snap.texts
      /\ tree.node.offset = snap.offset
      /\ tree.node.selection = snap.selection

\* Nothing is on its way to the pane: no update, no page, no frame.
Settled == Quiet /\ pages = <<>> /\ ~ frameDue /\ GuiFree

\* Then AT reads what the pane shows, at the cursor it shows, in copy mode and
\* out of it.
ReadsWhatShows ==
    tree # NoTree /\ Settled /\ "screen" \notin excused =>
      /\ tree.texts = OnScreen.texts
      /\ snap.cursor = OnScreen.cursor
      /\ "caret" \notin excused => tree.node.caret[1] = OnScreen.cursor
      /\ tree.node.offset = OnScreen.offset
      /\ tree.node.selection = OnScreen.selection
      /\ excused = {} =>
           tree.node.caret[2] = TextLen(OnScreen.texts[OnScreen.cursor])

\* With no page on its way, the page painted is the one asked for last, at the
\* offset the view stands at.
PageIsTheOneAsked ==
    pages = <<>> /\ view.copy = NotCopying =>
      /\ view.painted = view.offset
      /\ view.frozen => view.page.of = view.offset

\* A screen reader reads what is on screen, and that is what was asked for.
ReaderHearsScreen == ToldWhatItKnows /\ ReadsWhatShows /\ PageIsTheOneAsked
=============================================================================
