--------------------------- MODULE TabLayout ---------------------------
(***************************************************************************)
(* One tab's layout, from the daemon's handlers (requests/layout.rs and    *)
(* pane.rs) to the client that draws it and drags its borders.             *)
(*                                                                         *)
(* A split is checked against the minimum pane size under locks that are   *)
(* released before it is made, and the sizes it is checked against are     *)
(* those the client last sent, so both steps are actions and other         *)
(* operations run between them.  The client lays out the tree it adopted   *)
(* last and keeps the pair of panes it dragged first while the tree moves  *)
(* on.  Tabs, and the pane map, are MuxState's and PaneManager's.          *)
(***************************************************************************)
EXTENDS ClientLayout

CONSTANTS
    MaxPanes,        \* bound on allocated pane ids (u32 in the code)
    MaxMoves,        \* bound on border moves and swaps; weights are exact here
    MaxChecked,      \* bound on splits between their check and their commit
    ContentWidth, ContentHeight,   \* the client's content area, in pixels
    MaxDelta         \* bound on a drag's delta, in cells (i16 in the code)

ASSUME TabBoundsAssumption ==
    /\ MaxPanes \in Nat \ {0}
    /\ MaxMoves \in Nat
    /\ MaxChecked \in Nat
    /\ ContentWidth \in Nat \ {0} /\ ContentHeight \in Nat \ {0}
    /\ MaxDelta \in Nat

PaneIds == 0 .. MaxPanes - 1

Deltas == {-MaxDelta, MaxDelta}

\* The size a pane has before the client sends its own (80x24 in the code).
DefaultDims == [cols |-> 8, rows |-> 6]

Content == Rect(0, 0, ContentWidth, ContentHeight)

GrabPad == 1     \* BORDER_GRAB_PAD, in pixels of this content area

NoDrag == [before |-> MaxPanes, after |-> MaxPanes]

VARIABLES
    tree,       \* the tab's layout tree
    focused,    \* the tab's focused pane
    nextPane,   \* allocated pane ids are below it
    dims,       \* pane -> its grid's size
    checked,    \* splits that passed the minimum-size check
    shown,      \* the tree the client lays out
    drag,       \* the pair of panes whose border the client drags
    moves       \* number of border moves and swaps

daemonVars == <<tree, focused, nextPane, dims, checked, moves>>
clientVars == <<shown, drag>>
vars == <<daemonVars, clientVars>>

Init ==
    /\ tree = Leaf(0)
    /\ focused = 0
    /\ nextPane = 1
    /\ dims = [p \in PaneIds |-> DefaultDims]
    /\ checked = {}
    /\ shown = Leaf(0)
    /\ drag = NoDrag
    /\ moves = 0

ShownGeometry == Geometry(shown, Content)

-----------------------------------------------------------------------------
\* The daemon.

MinCells(dir) == IF dir = Horizontal THEN 2 ELSE 1
CellsOf(p, dir) == IF dir = Horizontal THEN dims[p].cols ELSE dims[p].rows

\* split_min_size_violation: the newcomer, its target and every sibling that
\* shrinks with it would stay at the minimum size or above.
LeavesRoom(preview, target, dir) ==
    LET enough(p, part) ==
          AtMost(<<MinCells(dir), 1>>, Times(<<CellsOf(p, dir), 1>>, part))
    IN /\ enough(target, preview.new)
       /\ enough(target, preview.kept)
       /\ \A p \in preview.shrunk : enough(p, preview.kept)

\* split_pane, up to the moment the manager is locked again.
CheckSplit(target, dir) ==
    /\ target \in PanesIn(tree)
    /\ Cardinality(checked) < MaxChecked /\ nextPane < MaxPanes
    /\ LeavesRoom(SplitPreview(tree, target, dir), target, dir)
    /\ checked' = checked \cup {[target |-> target, dir |-> dir]}
    /\ UNCHANGED <<tree, focused, nextPane, dims, moves, clientVars>>

\* split_create: only the target's presence is checked again; an id is spent
\* even if it is gone.  The newcomer gets the focus and the default size.
CommitSplit(req) ==
    /\ req \in checked
    /\ nextPane < MaxPanes
    /\ checked' = checked \ {req}
    /\ nextPane' = nextPane + 1
    /\ IF req.target \in PanesIn(tree)
       THEN /\ tree' = Split(tree, req.target, nextPane, req.dir)
            /\ focused' = nextPane
       ELSE UNCHANGED <<tree, focused>>
    /\ UNCHANGED <<dims, moves, clientVars>>

\* Tab::close_pane, for a pane that is not the tab's last.
ClosePane(p) ==
    /\ p \in PanesIn(tree) /\ IsContainer(tree)
    /\ tree' = Close(tree, p)
    /\ focused' = IF focused = p THEN FocusHint(tree, p) ELSE focused
    /\ UNCHANGED <<nextPane, dims, checked, moves, clientVars>>

\* resize_weights: a number of cells as a weight of the border's container,
\* which is as many cells long as the pane's own size says.
AsWeight(cells, ext, p) ==
    Over(<<cells, 1>>,
         Times(Over(<<CellsOf(p, ext.axis), 1>>, ext.pane), ext.container))

\* resize_pane: move the border between p and q by delta cells, if they share
\* one.
MoveBorder(p, q, delta) ==
    /\ moves < MaxMoves
    /\ {p, q} \subseteq PanesIn(tree)
    /\ BorderPath(tree, p, q) # NoPath
    /\ moves' = moves + 1
    /\ LET path == BorderPath(tree, p, q)
           ext == BorderExtents(tree, path, p)
       IN tree' = Resize(tree, path, p, q, AsWeight(delta, ext, p),
                         AsWeight(MinCells(ext.axis), ext, p))
    /\ UNCHANGED <<focused, nextPane, dims, checked>>

\* swap_pane.
SwapPanes(p, q) ==
    /\ moves < MaxMoves
    /\ {p, q} \subseteq PanesIn(tree) /\ p < q
    /\ moves' = moves + 1
    /\ tree' = Swap(tree, p, q)
    /\ UNCHANGED <<focused, nextPane, dims, checked, clientVars>>

-----------------------------------------------------------------------------
\* The client.

\* apply_layout_tree, with the tree get_layout_tree answered: a drag of a pane
\* that is gone ends, and each pane's grid takes the size of its rectangle.
AdoptTree ==
    /\ shown # tree
    /\ shown' = tree
    /\ LET g == Geometry(tree, Content) IN
       dims' = [p \in PaneIds |->
                  IF p \in PanesIn(tree) THEN GridDims(RectOf(g, p)) ELSE dims[p]]
    /\ drag' = IF {drag.before, drag.after} \subseteq PanesIn(tree)
               THEN drag ELSE NoDrag
    /\ UNCHANGED <<tree, focused, nextPane, checked, moves>>

\* The positions along border k where a press on its line grabs it and not a
\* border before it, and the pairs border_panes finds there.
PressedAt(geometry, k) ==
    LET r == geometry.borders[k].rect
        vertical == IsVertical(geometry.borders[k])
        span == IF vertical
                THEN r.y .. r.y + r.height - 1
                ELSE r.x .. r.x + r.width - 1
        grabbed(c) == IF vertical
                      THEN GrabbedBorders(geometry, r.x, c, GrabPad)
                      ELSE GrabbedBorders(geometry, c, r.y, GrabPad)
    IN {c \in span : k = Min(grabbed(c))}

FlankingPairs(geometry, k) ==
    LET b == geometry.borders[k]
        before(c) == PanesBefore(geometry, b, c)
        after(c) == PanesAfter(geometry, b, c)
    IN {[before |-> before(c)[1].pane, after |-> after(c)[1].pane] :
          c \in {c \in PressedAt(geometry, k) :
                   before(c) # <<>> /\ after(c) # <<>>}}

\* begin_border_drag: the pair is picked once, when the button goes down.
BeginDrag ==
    /\ drag = NoDrag /\ moves < MaxMoves
    /\ Len(ShownGeometry.panes) > 1
    /\ \E k \in DOMAIN ShownGeometry.borders :
         drag' \in FlankingPairs(ShownGeometry, k)
    /\ UNCHANGED <<daemonVars, shown>>

\* drag_border: a ResizePane per whole number of cells, and the daemon's answer.
DragBorder(delta) ==
    /\ drag # NoDrag
    /\ MoveBorder(drag.before, drag.after, delta)
    /\ UNCHANGED clientVars

EndDrag ==
    /\ drag # NoDrag
    /\ drag' = NoDrag
    /\ UNCHANGED <<daemonVars, shown>>

Next ==
    \/ \E p \in PaneIds, dir \in Directions : CheckSplit(p, dir)
    \/ \E req \in checked : CommitSplit(req)
    \/ \E p \in PaneIds : ClosePane(p)
    \/ \E p, q \in PaneIds : SwapPanes(p, q)
    \/ AdoptTree
    \/ BeginDrag
    \/ \E delta \in Deltas : DragBorder(delta)
    \/ EndDrag

Spec == Init /\ [][Next]_vars

-----------------------------------------------------------------------------
\* After any sequence of splits, closes, swaps and border moves the tree is
\* canonical, each of its panes is in one place and was once allocated, and the
\* focus is one of them; so is the client's.
TypeOK ==
    /\ \A t \in {tree, shown} :
         /\ IsCanonical(t)
         /\ IsInjective(PaneIdsOf(t))
         /\ PanesIn(t) \subseteq 0 .. nextPane - 1
    /\ focused \in PanesIn(tree)
    /\ nextPane \in 1 .. MaxPanes
    /\ dims \in [PaneIds -> [cols : Nat \ {0}, rows : Nat \ {0}]]
    /\ checked \subseteq [target : PaneIds, dir : Directions]
    /\ drag # NoDrag => drag.before # drag.after
    /\ moves \in 0 .. MaxMoves

\* The extent of p along d, in tree t.
ExtentOf(t, p, d) == Extent(PaneRect(t, p), d)

\* A split gives every pane exactly what split_preview promised the minimum
\* check, although the preview and the split compute it apart.
SplitAsPreviewed ==
    \A req \in checked :
      (nextPane \in PanesIn(tree') /\ checked' = checked \ {req}) =>
        LET preview == SplitPreview(tree, req.target, req.dir)
            shrunk == preview.shrunk \cup {req.target}
            old(p) == ExtentOf(tree, p, req.dir)
        IN /\ ExtentOf(tree', nextPane, req.dir) =
                Times(preview.new, old(req.target))
           /\ \A p \in shrunk :
                ExtentOf(tree', p, req.dir) = Times(preview.kept, old(p))
           /\ \A p \in PanesIn(tree) \ shrunk :
                PaneRect(tree', p) = PaneRect(tree, p)

\* Closing a pane takes no space from the others, and focus moves only if the
\* pane had it, to one that shared a border with it.
CloseGivesSpaceAway ==
    \A p \in PanesIn(tree) \ PanesIn(tree') :
      /\ PanesIn(tree') = PanesIn(tree) \ {p}
      /\ \A q \in PanesIn(tree'), d \in Directions :
           AtMost(ExtentOf(tree, q, d), ExtentOf(tree', q, d))
      /\ BorderPath(tree, p, FocusHint(tree, p)) # NoPath
      /\ focused' = IF focused = p THEN FocusHint(tree, p) ELSE focused

\* Moving a border moves nothing outside the two subtrees it separates, and
\* only along its axis.
ResizeIsLocal ==
    (moves' > moves /\ PaneIdsOf(tree') = PaneIdsOf(tree)) =>
      LET path == BorderPath(tree, drag.before, drag.after)
          c == NodeAt(tree, path)
          touched == UNION {PanesIn(c.kids[ChildWith(c, p)].node) :
                              p \in {drag.before, drag.after}}
      IN /\ \A p \in PanesIn(tree) \ touched :
              PaneRect(tree', p) = PaneRect(tree, p)
         /\ \A p \in touched, d \in Directions \ {c.dir} :
              ExtentOf(tree', p, d) = ExtentOf(tree, p, d)

\* Every operation moves exactly the panes it should, by what was announced.
GeometryOfSteps ==
    [][SplitAsPreviewed /\ CloseGivesSpaceAway /\ ResizeIsLocal]_vars

\* When the client adopts a tree, it draws every pixel of the content area once,
\* as part of a pane or of a border, and each of its panes can be reached from
\* every other by directional focus moves and has a border to highlight, as long
\* as no pane is squeezed to nothing.
Pixels(rect) ==
    (rect.x .. rect.x + rect.width - 1) \X (rect.y .. rect.y + rect.height - 1)

RECURSIVE ReachedFrom(_, _)
ReachedFrom(geometry, reached) ==
    LET next == reached \cup
          UNION {FocusTargets(geometry, p, d) :
                   p \in reached, d \in FocusDirections}
    IN IF next = reached THEN reached ELSE ReachedFrom(geometry, next)

AllVisible(geometry) ==
    \A r \in ToSet(geometry.panes) : r.rect.width > 0 /\ r.rect.height > 0

TilesContent(t) ==
    LET g == Geometry(t, Content)
        rects == [i \in DOMAIN g.panes |-> g.panes[i].rect]
                 \o [i \in DOMAIN g.borders |-> g.borders[i].rect]
    IN AllVisible(g) =>
         /\ UNION {Pixels(rects[i]) : i \in DOMAIN rects} = Pixels(Content)
         /\ FoldLeft(LAMBDA a, r : a + r.width * r.height, 0, rects)
              = ContentWidth * ContentHeight
         /\ \A p \in PanesIn(t) :
              /\ ReachedFrom(g, {p}) = PanesIn(t)
              /\ IsContainer(t) => FocusedBorders(g, p) # {}

PixelsFollowTree == [][shown' # shown => TilesContent(shown')]_vars

\* In every tree the client adopts, the pair it picks for a border it draws,
\* when the daemon accepts it, names that border and no other; and every border
\* has such a pair.
PairsNameTheirBorder(t) ==
    LET g == Geometry(t, Content) IN
    AllVisible(g) =>
      \A k \in DOMAIN g.borders :
        LET b == g.borders[k]
            accepted == {pair \in FlankingPairs(g, k) :
                  BorderPath(t, pair.before, pair.after) # NoPath}
        IN /\ accepted # {}
           /\ \A pair \in accepted :
                /\ BorderPath(t, pair.before, pair.after) = b.path
                /\ ChildWith(NodeAt(t, b.path), pair.before) = b.at

DragsMoveTheirBorder == [][shown' # shown => PairsNameTheirBorder(shown')]_vars

\* The trees stay canonical (TypeOK), and what the client adopts of them it
\* draws and drags as the daemon means it.
ScreenFollowsTree == []TypeOK /\ PixelsFollowTree /\ DragsMoveTheirBorder
=============================================================================
