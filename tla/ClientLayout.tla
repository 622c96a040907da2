-------------------------- MODULE ClientLayout --------------------------
(***************************************************************************)
(* The client's pixel geometry of a layout tree (oakterm/src/layout.rs).   *)
(*                                                                         *)
(* A rectangle is [x, y, width, height] in pixels.  The geometry of a tree *)
(* is the sequence of its panes, [pane |-> p, rect |-> r], and of the      *)
(* one-pixel borders between siblings, [rect |-> r, path |-> s, at |-> i]: *)
(* the border after child i of the container at path s.  The code keeps    *)
(* only the rectangle; the properties use where it comes from.             *)
(***************************************************************************)
EXTENDS LayoutTree, FiniteSetsExt

CONSTANT CellPixels      \* width and height of a character cell

ASSUME CellPixelsAssumption == CellPixels \in Nat \ {0}

Rect(x, y, width, height) ==
    [x |-> x, y |-> y, width |-> width, height |-> height]

RectExtent(rect, dir) == IF dir = Horizontal THEN rect.width ELSE rect.height

\* A fraction of a number of pixels, rounded half up.
RoundedPart(frac, pixels) ==
    (2 * frac[1] * pixels + frac[2]) \div (2 * frac[2])

\* walk: the pixels that are left for the children, and where child i of c
\* ends among them.
AvailablePixels(c, rect) ==
    Max({RectExtent(rect, c.dir) - (Len(c.kids) - 1), 0})

\* Variant, for mutation: every child is rounded on its own.
EdgeRoundedApart(c, rect, i) ==
    FoldLeft(LAMBDA a, k : a + RoundedPart(k.w, AvailablePixels(c, rect)),
             0, SubSeq(c.kids, 1, i))

EdgeAfter(c, rect, i) ==
    RoundedPart(WeightBefore(c, i + 1), AvailablePixels(c, rect))

\* The rectangle of child i, and of the border after it.
Along(rect, dir, from, size) ==
    IF dir = Horizontal
    THEN Rect(rect.x + from, rect.y, size, rect.height)
    ELSE Rect(rect.x, rect.y + from, rect.width, size)

KidRect(c, rect, i) ==
    LET start == EdgeAfter(c, rect, i - 1) IN
    Along(rect, c.dir, start + i - 1, EdgeAfter(c, rect, i) - start)

BorderRect(c, rect, i) ==
    Along(rect, c.dir, EdgeAfter(c, rect, i) + i - 1, 1)

\* compute_layout.
RECURSIVE PanesAt(_, _)
PanesAt(node, rect) ==
    IF IsLeaf(node)
    THEN <<[pane |-> node.pane, rect |-> rect]>>
    ELSE FlattenSeq([i \in DOMAIN node.kids |->
           PanesAt(node.kids[i].node, KidRect(node, rect, i))])

RECURSIVE BordersAt(_, _, _)
BordersAt(node, rect, path) ==
    IF IsLeaf(node)
    THEN <<>>
    ELSE FlattenSeq([i \in DOMAIN node.kids |->
           BordersAt(node.kids[i].node, KidRect(node, rect, i),
                     Append(path, i))
           \o IF i < Len(node.kids)
              THEN <<[rect |-> BorderRect(node, rect, i),
                      path |-> path, at |-> i]>>
              ELSE <<>>])

Geometry(tree, content) ==
    [panes |-> PanesAt(tree, content),
     borders |-> BordersAt(tree, content, <<>>)]

RectOf(geometry, p) ==
    (CHOOSE r \in ToSet(geometry.panes) : r.pane = p).rect

\* grid_dims: whole cells, at least one.
GridDims(rect) == [cols |-> Max({rect.width \div CellPixels, 1}),
                   rows |-> Max({rect.height \div CellPixels, 1})]

-----------------------------------------------------------------------------
\* Borders under the pointer.

\* Whether n is in the span of the given length from lo.
InSpan(n, lo, len) == lo <= n /\ n < lo + len

\* Whether two spans share a pixel.
SpansOverlap(lo, len, lo2, len2) == lo < lo2 + len2 /\ lo2 < lo + len

\* is_vertical_border.
IsVertical(border) == border.rect.width = 1

\* border_at: the first border whose grab zone holds (x, y).
GrabbedBorders(geometry, x, y, pad) ==
    {k \in DOMAIN geometry.borders :
       LET b == geometry.borders[k] IN
       IF IsVertical(b)
       THEN InSpan(x, b.rect.x - pad, 1 + 2 * pad)
            /\ InSpan(y, b.rect.y, b.rect.height)
       ELSE InSpan(y, b.rect.y - pad, 1 + 2 * pad)
            /\ InSpan(x, b.rect.x, b.rect.width)}

\* border_panes: the panes on either side of the border at the cross position.
Covers(border, rect, cross) ==
    IF IsVertical(border)
    THEN InSpan(cross, rect.y, rect.height)
    ELSE InSpan(cross, rect.x, rect.width)

EndsAt(border, rect) ==
    IF IsVertical(border)
    THEN rect.x + rect.width = border.rect.x
    ELSE rect.y + rect.height = border.rect.y

StartsAfter(border, rect) ==
    IF IsVertical(border)
    THEN rect.x = border.rect.x + 1
    ELSE rect.y = border.rect.y + 1

PanesBefore(geometry, border, cross) ==
    SelectSeq(geometry.panes, LAMBDA p :
        EndsAt(border, p.rect) /\ Covers(border, p.rect, cross))

PanesAfter(geometry, border, cross) ==
    SelectSeq(geometry.panes, LAMBDA p :
        StartsAfter(border, p.rect) /\ Covers(border, p.rect, cross))

\* focused_border_indices: the borders that are drawn as the pane's own.
FocusedBorders(geometry, p) ==
    LET r == RectOf(geometry, p) IN
    {k \in DOMAIN geometry.borders :
       LET b == geometry.borders[k] IN
       /\ EndsAt(b, r) \/ StartsAfter(b, r)
       /\ IF IsVertical(b)
          THEN SpansOverlap(b.rect.y, b.rect.height, r.y, r.height)
          ELSE SpansOverlap(b.rect.x, b.rect.width, r.x, r.width)}

-----------------------------------------------------------------------------
\* Focus navigation.

Left == "left"
Right == "right"
Up == "up"
Down == "down"
FocusDirections == {Left, Right, Up, Down}

Sideways(dir) == dir \in {Left, Right}

\* The span of a rectangle across, and along, the direction of a move.
CrossSpan(rect, dir) ==
    IF Sideways(dir) THEN <<rect.y, rect.height>> ELSE <<rect.x, rect.width>>

LongSpan(rect, dir) ==
    IF Sideways(dir) THEN <<rect.x, rect.width>> ELSE <<rect.y, rect.height>>

\* How far rect begins beyond the focused pane's edge; negative if it does not.
EdgeDistance(from, rect, dir) ==
    LET f == LongSpan(from, dir)
        r == LongSpan(rect, dir)
    IN IF dir \in {Left, Up}
       THEN f[1] - (r[1] + r[2])
       ELSE r[1] - (f[1] + f[2])

\* Whether rect is beyond the edge and overlaps the focused pane's band.
IsBeyond(from, rect, dir) ==
    LET f == CrossSpan(from, dir)
        r == CrossSpan(rect, dir)
    IN /\ SpansOverlap(f[1], f[2], r[1], r[2])
       /\ EdgeDistance(from, rect, dir) >= 0

\* How far the ray from the focused pane's centre passes from rect.
RayDistance(from, rect, dir) ==
    LET f == CrossSpan(from, dir)
        r == CrossSpan(rect, dir)
        ray == f[1] + f[2] \div 2
        end == r[1] + Max({r[2] - 1, 0})
    IN Max({r[1] - ray, ray - end, 0})

\* focus_target: the candidates that are nearest by edge, then by ray, then by
\* cross position; a set of at most one pane when no pane is empty.
Nearest(cands, key(_)) == {c \in cands : \A d \in cands : key(c) <= key(d)}

FocusTargets(geometry, p, dir) ==
    LET from == RectOf(geometry, p)
        beyond == {c \in ToSet(geometry.panes) :
                     c.pane # p /\ IsBeyond(from, c.rect, dir)}
        byEdge == Nearest(beyond,
                          LAMBDA c : EdgeDistance(from, c.rect, dir))
        byRay == Nearest(byEdge, LAMBDA c : RayDistance(from, c.rect, dir))
    IN {c.pane : c \in Nearest(byRay,
                               LAMBDA c : CrossSpan(c.rect, dir)[1])}
=============================================================================
