--------------------------- MODULE LayoutTree ---------------------------
(***************************************************************************)
(* The layout tree of a tab (oakterm-mux: layout.rs, ops.rs, geometry.rs). *)
(*                                                                         *)
(* A node is a leaf, [pane |-> p], or a container,                         *)
(* [dir |-> d, kids |-> <<[node |-> n, w |-> weight], ...>>].  A weight is *)
(* a fraction <<n, d>> in lowest terms: the f32 of the code without its    *)
(* rounding.  A path is the sequence of child indices (1-based) that leads *)
(* from the root to a node.                                                *)
(***************************************************************************)
EXTENDS Integers, Sequences, SequencesExt

Horizontal == "horizontal"
Vertical == "vertical"
Directions == {Horizontal, Vertical}

NoPath == <<0>>    \* not a path: children are numbered from 1

-----------------------------------------------------------------------------
\* Fractions.
RECURSIVE GCD(_, _)
GCD(a, b) == IF b = 0 THEN a ELSE GCD(b, a % b)

AbsOf(n) == IF n < 0 THEN -n ELSE n

Frac(n, d) == LET g == GCD(AbsOf(n), d) IN <<n \div g, d \div g>>

Zero == <<0, 1>>
One == <<1, 1>>
Plus(a, b) == Frac(a[1] * b[2] + b[1] * a[2], a[2] * b[2])
Minus(a, b) == Plus(a, <<-b[1], b[2]>>)
Times(a, b) == Frac(a[1] * b[1], a[2] * b[2])
Over(a, b) == Frac(a[1] * b[2], a[2] * b[1])
Less(a, b) == a[1] * b[2] < b[1] * a[2]
AtMost(a, b) == ~Less(b, a)
Largest(a, b) == IF Less(a, b) THEN b ELSE a
Least(a, b) == IF Less(a, b) THEN a ELSE b
TotalOf(fracs) == FoldLeft(Plus, Zero, fracs)

-----------------------------------------------------------------------------
\* Shape.
Leaf(p) == [pane |-> p]
IsLeaf(node) == "pane" \in DOMAIN node
IsContainer(node) == ~IsLeaf(node)
Container(dir, kids) == [dir |-> dir, kids |-> kids]
Child(node, w) == [node |-> node, w |-> w]
Weights(c) == [i \in DOMAIN c.kids |-> c.kids[i].w]
Pair(dir, p, q) ==
    Container(dir, <<Child(Leaf(p), <<1, 2>>), Child(Leaf(q), <<1, 2>>)>>)

\* LayoutNode::pane_ids: the leaves, in child order.
RECURSIVE PaneIdsOf(_)
PaneIdsOf(node) ==
    IF IsLeaf(node)
    THEN <<node.pane>>
    ELSE FlattenSeq([i \in DOMAIN node.kids |-> PaneIdsOf(node.kids[i].node)])

PanesIn(node) == ToSet(PaneIdsOf(node))
HasPane(node, p) == p \in PanesIn(node)

\* The child of container c that p is under.
ChildWith(c, p) == CHOOSE i \in DOMAIN c.kids : HasPane(c.kids[i].node, p)

\* LayoutNode::validate: no container has fewer than two children or one of
\* its own direction, and the weights are positive and sum to one.
RECURSIVE IsCanonical(_)
IsCanonical(node) ==
    \/ IsLeaf(node)
    \/ /\ Len(node.kids) >= 2
       /\ \A i \in DOMAIN node.kids : Less(Zero, node.kids[i].w)
       /\ TotalOf(Weights(node)) = One
       /\ \A i \in DOMAIN node.kids :
            LET kid == node.kids[i].node IN
            /\ IsContainer(kid) => kid.dir # node.dir
            /\ IsCanonical(kid)

\* Variant, for mutation: the grandchildren keep the weight they had.
MergedUnscaled(dir, kid) ==
    IF IsContainer(kid.node) /\ kid.node.dir = dir
    THEN kid.node.kids
    ELSE <<kid>>

\* flatten_container: bottom-up, the children of a child of the same direction
\* join the container with their weight scaled by that child's, and a container
\* left with one child becomes that child.
Merged(dir, kid) ==
    IF IsContainer(kid.node) /\ kid.node.dir = dir
    THEN [i \in DOMAIN kid.node.kids |->
            [kid.node.kids[i] EXCEPT !.w = Times(@, kid.w)]]
    ELSE <<kid>>

RECURSIVE Flatten(_)
Flatten(node) ==
    IF IsLeaf(node)
    THEN node
    ELSE LET kids == FlattenSeq([i \in DOMAIN node.kids |->
                 Merged(node.dir,
                        [node.kids[i] EXCEPT !.node = Flatten(@)])])
         IN IF Len(kids) = 1
            THEN kids[1].node
            ELSE Container(node.dir, kids)

\* node_at, node_at_mut, container_at_mut.
RECURSIVE NodeAt(_, _)
NodeAt(node, path) ==
    IF path = <<>>
    THEN node
    ELSE NodeAt(node.kids[Head(path)].node, Tail(path))

RECURSIVE PutAt(_, _, _)
PutAt(node, path, new) ==
    IF path = <<>>
    THEN new
    ELSE [node EXCEPT !.kids[Head(path)].node =
            PutAt(@, Tail(path), new)]

-----------------------------------------------------------------------------
\* Split.

HasLeaf(c, p) == \E i \in DOMAIN c.kids : c.kids[i].node = Leaf(p)

\* locate_split_site: the path to the container of this direction that has
\* target as a leaf of its own or, failing that, to the target leaf.
RECURSIVE SplitSite(_, _, _)
SplitSite(node, target, dir) ==
    IF IsLeaf(node) \/ (node.dir = dir /\ HasLeaf(node, target))
    THEN <<>>
    ELSE LET i == ChildWith(node, target) IN
         <<i>> \o SplitSite(node.kids[i].node, target, dir)

\* Variant, for mutation: the newcomer takes half of its target instead.
SplitSlotHalves(site, target, new, dir) ==
    IF IsLeaf(site)
    THEN Pair(dir, target, new)
    ELSE LET k == ChildWith(site, target)
             half == Times(site.kids[k].w, <<1, 2>>)
         IN Container(dir, InsertAt([site.kids EXCEPT ![k].w = half], k + 1,
                                    Child(Leaf(new), half)))

\* split_in, rule 1: the newcomer follows its target with weight 1/(n+1) and
\* the others make room.  Rule 2: the target's slot is halved.
SplitSlot(site, target, new, dir) ==
    IF IsLeaf(site)
    THEN Pair(dir, target, new)
    ELSE LET n == Len(site.kids)
             room == [i \in DOMAIN site.kids |->
                        [site.kids[i] EXCEPT !.w = Times(@, <<n, n + 1>>)]]
         IN Container(dir, InsertAt(room, ChildWith(site, target) + 1,
                                    Child(Leaf(new), <<1, n + 1>>)))

Split(tree, target, new, dir) ==
    LET path == SplitSite(tree, target, dir) IN
    PutAt(tree, path, SplitSlot(NodeAt(tree, path), target, new, dir))

\* split_preview_in: what the newcomer gets and what the target keeps, as
\* fractions of the target's extent, and the panes that shrink with it.
SplitPreview(tree, target, dir) ==
    LET site == NodeAt(tree, SplitSite(tree, target, dir)) IN
    IF IsLeaf(site)
    THEN [new |-> <<1, 2>>, kept |-> <<1, 2>>, shrunk |-> {}]
    ELSE LET n == Len(site.kids)
             own == site.kids[ChildWith(site, target)].w
         IN [new |-> Over(<<1, n + 1>>, own), kept |-> <<n, n + 1>>,
             shrunk |-> PanesIn(site) \ {target}]

-----------------------------------------------------------------------------
\* Close.

\* renormalize: a list of positive weights is scaled to sum to one.
Renormalized(kids) ==
    LET sum == TotalOf([i \in DOMAIN kids |-> kids[i].w]) IN
    [i \in DOMAIN kids |-> [kids[i] EXCEPT !.w = Over(@, sum)]]

\* remove_leaf: the path to the container that has p as a leaf of its own.
RECURSIVE ParentPath(_, _)
ParentPath(c, p) ==
    IF HasLeaf(c, p)
    THEN <<>>
    ELSE LET i == ChildWith(c, p) IN <<i>> \o ParentPath(c.kids[i].node, p)

\* LayoutNode::close on a container: the leaf leaves its parent, the siblings
\* take its weight in proportion, and the tree is made canonical again.
Close(tree, p) ==
    LET path == ParentPath(tree, p)
        c == NodeAt(tree, path)
        kids == Renormalized(RemoveAt(c.kids, ChildWith(c, p)))
    IN Flatten(PutAt(tree, path, Container(c.dir, kids)))

\* The focus hint of remove_leaf: the last pane of the sibling before p, or the
\* first of the one after it.
FocusHint(tree, p) ==
    LET c == NodeAt(tree, ParentPath(tree, p))
        i == ChildWith(c, p)
    IN IF i > 1
       THEN Last(PaneIdsOf(c.kids[i - 1].node))
       ELSE Head(PaneIdsOf(c.kids[i + 1].node))

-----------------------------------------------------------------------------
\* Rectangles in the unit square, and shared borders.

UnitRect == [x0 |-> Zero, x1 |-> One, y0 |-> Zero, y1 |-> One]

\* The part of rect, along dir, between the fractions from and to.
SliceOf(rect, dir, from, to) ==
    LET w == Minus(rect.x1, rect.x0)
        h == Minus(rect.y1, rect.y0)
    IN IF dir = Horizontal
       THEN [rect EXCEPT !.x0 = Plus(rect.x0, Times(from, w)),
                         !.x1 = Plus(rect.x0, Times(to, w))]
       ELSE [rect EXCEPT !.y0 = Plus(rect.y0, Times(from, h)),
                         !.y1 = Plus(rect.y0, Times(to, h))]

WeightBefore(c, i) == TotalOf(SubSeq(Weights(c), 1, i - 1))

\* pane_rect: the bounds of pane p in a node that occupies rect.
RECURSIVE RectIn(_, _, _)
RectIn(node, p, rect) ==
    IF IsLeaf(node)
    THEN rect
    ELSE LET i == ChildWith(node, p)
             from == WeightBefore(node, i)
         IN RectIn(node.kids[i].node, p,
                   SliceOf(rect, node.dir, from, Plus(from, node.kids[i].w)))

PaneRect(node, p) == RectIn(node, p, UnitRect)

Extent(rect, dir) ==
    IF dir = Horizontal
    THEN Minus(rect.x1, rect.x0)
    ELSE Minus(rect.y1, rect.y0)

\* touches_edge: along axis, p is in the first (or last) child all the way.
RECURSIVE TouchesEdge(_, _, _, _)
TouchesEdge(node, p, axis, trailing) ==
    \/ IsLeaf(node)
    \/ LET i == ChildWith(node, p) IN
       /\ node.dir = axis => i = IF trailing THEN Len(node.kids) ELSE 1
       /\ TouchesEdge(node.kids[i].node, p, axis, trailing)

\* Whether two rectangles overlap across the axis of a border.
OverlapAcross(r, s, axis) ==
    IF axis = Horizontal
    THEN Less(Largest(r.y0, s.y0), Least(r.y1, s.y1))
    ELSE Less(Largest(r.x0, s.x0), Least(r.x1, s.x1))

\* panes_share_border, for p under child i of c and q under child i + 1.
SharesBorder(c, i, p, q) ==
    /\ TouchesEdge(c.kids[i].node, p, c.dir, TRUE)
    /\ TouchesEdge(c.kids[i + 1].node, q, c.dir, FALSE)
    /\ OverlapAcross(PaneRect(c.kids[i].node, p),
                     PaneRect(c.kids[i + 1].node, q), c.dir)

\* locate_border: the path to the container where p and q part ways, if they
\* are in adjacent children of it that both reach the edge between them.
RECURSIVE BorderPath(_, _, _)
BorderPath(node, p, q) ==
    IF IsLeaf(node)
    THEN NoPath
    ELSE LET i == ChildWith(node, p)
             j == ChildWith(node, q)
             below == BorderPath(node.kids[i].node, p, q)
         IN CASE i = j /\ below = NoPath -> NoPath
              [] i = j /\ below # NoPath -> <<i>> \o below
              [] j = i + 1 /\ SharesBorder(node, i, p, q) -> <<>>
              [] i = j + 1 /\ SharesBorder(node, j, q, p) -> <<>>
              [] OTHER -> NoPath

\* border_extents: the axis of the border container, its extent along it and
\* the extent of the pane.
RECURSIVE NodeExtent(_, _, _)
NodeExtent(node, path, axis) ==
    IF path = <<>>
    THEN One
    ELSE LET kid == node.kids[Head(path)] IN
         Times(IF node.dir = axis THEN kid.w ELSE One,
               NodeExtent(kid.node, Tail(path), axis))

BorderExtents(tree, path, p) ==
    LET axis == NodeAt(tree, path).dir IN
    [axis |-> axis,
     pane |-> Extent(PaneRect(tree, p), axis),
     container |-> NodeExtent(tree, path, axis)]

-----------------------------------------------------------------------------
\* Resize and swap.

\* MIN_SIBLING_WEIGHT.
MinSiblingWeight == <<1, 10000>>

\* resize_at_border: the delta is clamped so that neither sibling drops below
\* the floor (nor a sibling that is below it any lower), then applied.
Resize(tree, path, p, q, delta, minWeight) ==
    LET c == NodeAt(tree, path)
        i == ChildWith(c, p)
        j == ChildWith(c, q)
        floor == Largest(minWeight, MinSiblingWeight)
        lo == Minus(Zero, Largest(Minus(c.kids[i].w, floor), Zero))
        hi == Largest(Minus(c.kids[j].w, floor), Zero)
        applied == Least(Largest(delta, lo), hi)
        kids == [c.kids EXCEPT ![i].w = Plus(@, applied),
                               ![j].w = Minus(@, applied)]
    IN PutAt(tree, path, Container(c.dir, Renormalized(kids)))

\* swap_leaves.
RECURSIVE Swap(_, _, _)
Swap(node, p, q) ==
    IF IsLeaf(node)
    THEN Leaf(CASE node.pane = p -> q
                [] node.pane = q -> p
                [] OTHER -> node.pane)
    ELSE [node EXCEPT !.kids =
            [i \in DOMAIN @ |-> [@[i] EXCEPT !.node = Swap(@, p, q)]]]
=============================================================================
