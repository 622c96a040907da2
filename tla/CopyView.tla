------------------------------ MODULE CopyView ------------------------------
(***************************************************************************)
(* The client's view in copy mode (oakterm: copy_mode.rs, copy_search.rs,  *)
(* copy_session.rs, copy_keys.rs, copy_motion.rs; callers in main.rs and   *)
(* pane_view.rs): a cursor and a display window over a history of which    *)
(* the client holds one window of rows, fetched as the display nears its   *)
(* edges, as a search runs past it, or around a place to return to.        *)
(*                                                                         *)
(* One session on one pane, from entry to exit.  Row 0 is the top of the   *)
(* live grid at entry; the history's rows are negative and never change    *)
(* (CopyModePins has what keeps the pin).  The rows of the painted page    *)
(* come from a snapshot.  The connection is FIFO: the daemon answers the   *)
(* fills and yanks in the order they were sent.                            *)
(*                                                                         *)
(* A query is its length; the cells where each query's matches start are   *)
(* chosen at entry.  Bells, announcements and painting are left out.       *)
(***************************************************************************)
EXTENDS Integers, Sequences, FiniteSets, FiniteSetsExt

CONSTANTS
    Histories,      \* the rows of history the pin may have
    Offsets,        \* how far above the live bottom the page may be
    Visible,        \* visible_rows: rows of the page
    Cols,           \* columns of the pane
    ChunkRows,      \* rows of one search chunk (scan_chunk_rows)
    Later,          \* rows that scroll off after the pin
    MaxKeys,        \* bound on what the user does
    MaxFailures,    \* bound on the requests that fail
    None            \* no selection, search, scan, seek, window or yank

ASSUME ShapeAssumption ==
    /\ Histories \subseteq Nat /\ Offsets \subseteq Nat
    /\ Visible \in Nat \ {0} /\ Cols \in Nat \ {0} /\ ChunkRows \in Nat \ {0}
    /\ Later \in Nat /\ MaxKeys \in Nat /\ MaxFailures \in Nat

VARIABLES
    world,      \* what the pin froze: history, offset, hits
    mode,       \* "entering", "pinned" or "left"
    view,       \* CopyModeState
    sent,       \* the requests not answered, in order
    yank,       \* the pane's pending yank
    copied,     \* the last text written to the clipboard, and its selection
    keys,       \* what the user did
    asked,      \* history: where the last search began, and its way
    told,       \* the step the last event took
    failures    \* requests that failed

vars == <<world, mode, view, sent, yank, copied, keys, asked, told, failures>>

Directions == {"Forward", "Backward"}
Shapes == {"Character", "Line", "Block"}
Presets == {"Vim", "Emacs", "Basic"}
MaxQuery == 2

Lesser(a, b) == IF a < b THEN a ELSE b
Greater(a, b) == IF a < b THEN b ELSE a
Clamp(x, low, high) == Greater(low, Lesser(x, high))
Reversed(d) == IF d = "Forward" THEN "Backward" ELSE "Forward"

\* Reading order of cells.
Before(p, q) == p[1] < q[1] \/ (p[1] = q[1] /\ p[2] < q[2])

\* A half-open window of rows.
Window(start, count) == [start |-> start, count |-> count]
RowsOf(w) == w.start .. w.start + w.count - 1
Span(rows) == Window(Min(rows), Max(rows) - Min(rows) + 1)
Overlap(w, x) == RowsOf(w) \cap RowsOf(x) # {}

-----------------------------------------------------------------------------
\* The rows copy mode can address.
Top == -world.offset                    \* viewport_top
LastRow == Top + Visible - 1
Page == Top .. LastRow
FirstRow(v) == Min(v.cache \cup {Top})
Held(v) == v.cache \cup Page

\* history_start before the daemon has shown where history begins: no
\* window reaches so far.
Unknown == -(Max(Histories) + ChunkRows + Visible + 1)

Capacity == 3 * Visible

\* set_cursor: a scan or seek in flight is dropped, the display follows.
SetCursor(v, at) ==
    LET row == Clamp(at[1], FirstRow(v), LastRow) IN
    [v EXCEPT !.cursor = <<row, Lesser(at[2], Cols - 1)>>,
              !.scan = None, !.seek = None,
              !.displayTop = IF row < @ THEN row
                             ELSE IF row >= @ + Visible
                             THEN Lesser(row - Visible + 1, Top)
                             ELSE @]

\* scroll_display: the cursor is pulled into the window it leaves.
ScrollDisplay(v, delta) ==
    LET top == Clamp(v.displayTop + delta, FirstRow(v), Top) IN
    [v EXCEPT !.displayTop = top,
              !.cursor = <<Clamp(@[1], top, top + Visible - 1), @[2]>>,
              !.scan = IF delta # 0 THEN None ELSE @,
              !.seek = IF delta # 0 THEN None ELSE @]

-----------------------------------------------------------------------------
\* The cache: a window of rows that grows only at its ends.
Abuts(cache, rows) ==
    /\ rows # {}
    /\ cache # {} =>
         Min(rows) <= Max(cache) + 1 /\ Max(rows) + 1 >= Min(cache)

\* trim_to_capacity: evict from the end farther from the centre.
RECURSIVE Trimmed(_, _)
Trimmed(cache, centre) ==
    IF Cardinality(cache) <= Capacity THEN cache
    ELSE LET first == Min(cache)
             last == Max(cache)
         IN  Trimmed(cache \ {IF centre - first >= last - centre
                              THEN first ELSE last}, centre)

\* The trim is centred on the display: the wheel leaves the cursor behind.
DisplayCentre(v) == v.displayTop + Visible \div 2

\* display_hole: the display rows neither the cache nor the page holds.
DisplayHole(v) ==
    {row \in Greater(v.displayTop, v.historyStart)
             .. Lesser(v.displayTop + Visible, Top) - 1 : row \notin v.cache}

\* Variant, for mutation: no window replaces a cache it does not touch.
FillsNoHole(v, rows) == FALSE

\* fills_display_hole.
FillsHole(v, rows) == DisplayHole(v) # {} /\ Min(DisplayHole(v)) \in rows

\* The next chunk when the display is in an outer quarter of the cache.
EdgeChunk(v) ==
    LET start == Min(v.cache)
        end == Max(v.cache) + 1
        zone == Greater((end - start) \div 4, 1)
        older == Lesser(Visible, start - v.historyStart)
        newer == Lesser(Visible, -end)
        bottom == v.displayTop + Visible
    IN  IF v.cache = {} THEN {}
        ELSE IF end < v.displayTop \/ start > bottom THEN {}
        ELSE IF v.displayTop < start + zone
        THEN IF older > 0 THEN {Window(start - older, older)} ELSE {}
        ELSE IF bottom > end - zone /\ newer > 0
        THEN {Window(end, newer)}
        ELSE {}

\* plan_prefetch: a hole in the display first; nothing already on its way.
PlanPrefetch(v, queue) ==
    LET wanted == IF DisplayHole(v) # {} THEN {Span(DisplayHole(v))}
                  ELSE EdgeChunk(v)
    IN  {w \in wanted : \A i \in DOMAIN queue :
            queue[i].type = "fill" => ~Overlap(queue[i].window, w)}

Fill(w, retried) == [type |-> "fill", window |-> w, retried |-> retried]

\* send_copy_mode_fill for each window, and prefetch_copy_mode.
Fetching(queue, windows) ==
    IF windows = {} THEN queue
    ELSE Append(queue, Fill(CHOOSE w \in windows : TRUE, FALSE))
Prefetching(v, queue) == Fetching(queue, PlanPrefetch(v, queue))

\* initial_fill: the page and one screen above it, up to row 0.
InitialFill ==
    Window(Top - Visible, Lesser(Visible - Top, Capacity))

-----------------------------------------------------------------------------
\* Search.  find: the nearest match past `from` in the readable rows, or
\* the first row in the way that cannot be read, or neither.
Hits(v) == world.hits[v.search.query]

Beyond(p, from, direction, inclusive) ==
    \/ direction = "Forward" /\ Before(from, p)
    \/ direction = "Backward" /\ Before(p, from)
    \/ inclusive /\ p = from

Nearest(cells, direction) ==
    CHOOSE p \in cells : \A q \in cells \ {p} :
        IF direction = "Forward" THEN Before(p, q) ELSE Before(q, p)

Find(readable, hits, from, direction, inclusive, first, last) ==
    LET way == {row \in first .. last :
                  IF direction = "Forward" THEN row >= from[1]
                                           ELSE row <= from[1]}
        unread == way \ readable
        gap == IF direction = "Forward" THEN Min(unread) ELSE Max(unread)
        open == {row \in way : unread # {} =>
                   IF direction = "Forward" THEN row < gap ELSE row > gap}
        found == {p \in hits : /\ p[1] \in open
                               /\ Beyond(p, from, direction, inclusive)}
    IN  IF from[1] \notin first .. last THEN [kind |-> "Exhausted"]
        ELSE IF found # {}
        THEN [kind |-> "Found", at |-> Nearest(found, direction)]
        ELSE IF unread # {} THEN [kind |-> "Missing", row |-> gap]
        ELSE [kind |-> "Exhausted"]

\* search_status: the matches counted, and whether history that is not held
\* remains in the search's direction.
HeldMatches(v) ==
    {p \in Hits(v) : p[1] \in Page \/ (p[1] \in v.cache /\ p[1] < Top)}

HistoryRemains(v) ==
    \/ v.scan # None /\ v.scan.direction = v.search.direction
    \/ v.search.direction = "Backward" /\ FirstRow(v) > v.historyStart
    \/ /\ v.search.direction = "Forward" /\ v.cache # {}
       /\ Max(v.cache) + 1 < Lesser(Top, 0)

\* display_matches: the matches drawn.
DisplayMatches(v) ==
    {p \in Hits(v) : p[1] \in Held(v) \cap v.displayTop .. v.displayTop + Visible - 1}

\* scan_chunk: the largest window toward the direction from a row.
ScanChunk(v, row, direction) ==
    IF direction = "Backward"
    THEN LET start == Greater(row - ChunkRows + 1, v.historyStart)
         IN  Window(start, row - start + 1)
    ELSE Window(row, Greater(1, Lesser(ChunkRows, Lesser(Top, 0) - row)))

Step(v, step) == [view |-> v, step |-> step, fetch |-> {}]

\* fetch: sent now, or held until the pin lands, or already in flight.
Await(v, queue, w) ==
    IF mode = "pinned" /\ \A i \in DOMAIN queue :
         queue[i].type = "fill" => queue[i].window # w
    THEN [view |-> v, step |-> "Fetch", fetch |-> {w}]
    ELSE Step(v, "Updated")

\* Variant, for mutation: the rows past a gap are read from the far edge.
FarEdge(direction) == IF direction = "Forward" THEN Cols ELSE 0

\* A later row is read whole from its near edge.
Edge(direction) == IF direction = "Forward" THEN 0 ELSE Cols

\* scan_from: through the held rows, then history chunk by chunk.
ScanFrom(v, queue, from, direction, inclusive) ==
    LET s == [v EXCEPT !.scan = None, !.seek = None]
        result == Find(Held(s), Hits(s), from, direction, inclusive,
                       s.historyStart, LastRow)
        chunk == ScanChunk(s, result.row, direction)
        scan == [from |-> IF result.row = from[1] THEN from
                          ELSE <<result.row, Edge(direction)>>,
                 inclusive |-> result.row # from[1] \/ inclusive,
                 direction |-> direction, window |-> chunk]
    IN  IF s.search.query = 0 THEN Step(s, "Inert")
        ELSE IF result.kind = "Found"
        THEN Step(SetCursor(s, result.at), "Moved")
        ELSE IF result.kind = "Exhausted" THEN Step(s, "NotFound")
        ELSE Await([s EXCEPT !.scan = scan], queue, chunk)

\* go_to: back to a cell, around which rows may have to be fetched.
GoTo(v, queue, target) ==
    LET start == Greater(target[1] - Visible, v.historyStart)
        w == Window(start, Lesser(Capacity, -start))
    IN  IF target[1] >= Top \/ target[1] \in v.cache
        THEN Step(SetCursor([v EXCEPT !.seek = None], target), "Updated")
        ELSE Await([v EXCEPT !.seek = [target |-> target, window |-> w]],
                   queue, w)

\* adopt_window: the window joins the cache it touches, or replaces it.
AdoptWindow(v, rows, at) ==
    LET joined == [v EXCEPT !.cache =
                     IF Abuts(@, rows) THEN @ \cup rows ELSE rows]
        placed == SetCursor(joined, at)
        kept == [placed EXCEPT !.cache = Trimmed(@, DisplayCentre(placed))]
    IN  [kept EXCEPT !.displayTop = Clamp(@, FirstRow(kept), Top)]

\* scan_landed: a chunk scanned, adopted on a match, or scanned past.
ScanLanded(v, queue, start, rows) ==
    LET scan == v.scan
        s == [v EXCEPT !.scan = None]
        end == start + Cardinality(rows)
        result == Find(rows, Hits(v), scan.from, scan.direction,
                       scan.inclusive, start, Lesser(end - 1, LastRow))
    IN  IF s.search.query = 0 THEN Step(s, "Inert")
        ELSE IF result.kind = "Found"
        THEN Step(AdoptWindow(s, rows, result.at), "Moved")
        ELSE IF scan.direction = "Forward"
        THEN ScanFrom(s, queue, <<end, 0>>, "Forward", TRUE)
        ELSE IF start <= s.historyStart THEN Step(s, "NotFound")
        ELSE ScanFrom(s, queue, <<start - 1, Cols>>, "Backward", TRUE)

\* apply_fill.  An answer teaches where history begins; the rows past row 0
\* are the snapshot's.  It belongs to the scan or seek that awaits its
\* window; any other joins the cache it touches, or fills a display hole.
Landed(v, queue, w, start, served, hasMore) ==
    LET rows == {row \in served : row < 0}
        s == [v EXCEPT !.historyStart =
                IF start > w.start \/ ~hasMore THEN start ELSE @]
        filed == [s EXCEPT !.cache =
                    IF Abuts(@, rows) THEN @ \cup rows ELSE rows]
        kept == [filed EXCEPT !.cache = Trimmed(@, DisplayCentre(filed))]
    IN  IF s.scan # None /\ s.scan.window = w
        THEN ScanLanded(s, queue, start, rows)
        ELSE IF s.seek # None /\ s.seek.window = w
        THEN Step(AdoptWindow([s EXCEPT !.seek = None], rows, s.seek.target),
                  "Updated")
        ELSE IF Abuts(s.cache, rows) \/ FillsHole(s, rows)
        THEN Step(ScrollDisplay(kept, 0), "Inert")
        ELSE Step(s, "Inert")

-----------------------------------------------------------------------------
\* Selection.  The cells between two cells in reading order, whole rows, or
\* a rectangle; Cols stands for an open row edge.
Cell == (Min({-h : h \in Histories}) .. Visible) \X (0 .. Cols - 1)

CellsOf(shape, from, to) ==
    {p \in Cell :
       CASE shape = "Line" -> from[1] <= p[1] /\ p[1] <= to[1]
         [] shape = "Block" -> /\ from[1] <= p[1] /\ p[1] <= to[1]
                               /\ from[2] <= p[2] /\ p[2] <= to[2]
         [] shape = "Character" -> ~Before(p, from) /\ ~Before(to, p)}

\* normalize_range: reading order, or each axis of a block on its own.
Corners(shape, a, b) ==
    IF shape = "Block"
    THEN <<<<Lesser(a[1], b[1]), Lesser(a[2], b[2])>>,
           <<Greater(a[1], b[1]), Greater(a[2], b[2])>>>>
    ELSE IF Before(b, a) THEN <<b, a>> ELSE <<a, b>>

\* Variant, for mutation: the daemon's half keeps the true end column.
SplitKeepsColumn(shape, range) ==
    [daemon |-> <<range[1], <<-1, range[2][2]>>>>,
     local |-> <<<<0, IF shape = "Block" THEN range[1][2] ELSE 0>>, range[2]>>]

\* yank_plan across rows -1 and 0: open to the row edge, or the block's.
Split(shape, range) ==
    [daemon |-> <<range[1],
                  <<-1, IF shape = "Block" THEN range[2][2] ELSE Cols>>>>,
     local |-> <<<<0, IF shape = "Block" THEN range[1][2] ELSE 0>>, range[2]>>]

\* yank_plan: which part the daemon reads and which the snapshot has.
YankPlan(v) ==
    LET range == Corners(v.selection.shape, v.selection.anchor, v.cursor) IN
    IF range[2][1] < 0 THEN [daemon |-> range, local |-> None]
    ELSE IF range[1][1] >= 0 THEN [daemon |-> None, local |-> range]
    ELSE Split(v.selection.shape, range)

\* plan_yank, clamped_to, columns_for: the daemon orders the corners again;
\* an endpoint before history opens to the edge of the oldest row.
DaemonCells(shape, range) ==
    LET Kept(p, edge) == IF p[1] >= -world.history THEN p
                         ELSE <<-world.history,
                                IF shape = "Block" THEN p[2] ELSE edge>>
        ordered == Corners(shape, range[1], range[2])
    IN  CellsOf(shape, Kept(ordered[1], 0), Kept(ordered[2], Cols))

\* extract_from_snapshot.
LocalCells(shape, range) ==
    IF range = None THEN {} ELSE CellsOf(shape, range[1], range[2])

\* display_selection and Selection::contains: the cells drawn selected.
ShownCells(v) ==
    LET s == v.selection
        range == Corners("Character", s.anchor, v.cursor)
        lefts == {s.anchor[2], v.cursor[2]}
    IN  {p \in Cell :
           /\ range[1][1] <= p[1] /\ p[1] <= range[2][1]
           /\ CASE s.shape = "Line" -> TRUE
                [] s.shape = "Block" -> Min(lefts) <= p[2] /\ p[2] <= Max(lefts)
                [] s.shape = "Character" ->
                     /\ p[1] = range[1][1] => p[2] >= range[1][2]
                     /\ p[1] = range[2][1] => p[2] <= range[2][2]}

-----------------------------------------------------------------------------
\* SearchState::new: an open bar.
NewSearch(direction, style, origin) ==
    [direction |-> direction, style |-> style, origin |-> origin,
     editing |-> TRUE, query |-> 0]

Entered(top, bar) ==
    LET cursor == <<top + Visible - 1, 0>> IN
    [cursor |-> cursor, displayTop |-> top, cache |-> {},
     historyStart |-> Unknown, selection |-> None, prefix |-> FALSE,
     search |-> IF bar THEN NewSearch("Backward", "Find", cursor) ELSE None,
     scan |-> None, seek |-> None]

\* The history's oldest row, a row in its middle and the page's last row
\* may match; the longer query matches in the first column only.
Worlds ==
    {[history |-> h, offset |-> o, hits |->
        << cells, {p \in cells : p[2] = 0} >>] :
       h \in Histories, o \in Offsets, cells \in
         {{}, {<<-Max(Histories), 1>>, <<0, 0>>},
          {<<-3, 0>>, <<-3, 1>>}, {<<-3, 1>>, <<Visible - 1, 0>>}}}

Init ==
    /\ world \in {w \in Worlds : w.offset <= w.history}
    /\ mode = "entering"
    /\ view \in {Entered(-world.offset, bar) : bar \in BOOLEAN}
    /\ sent = <<>> /\ yank = None /\ copied = None
    /\ keys = 0 /\ asked = None /\ told = "Inert" /\ failures = 0

\* exit_copy_mode: fills and yanks in flight answer nobody.
Leave ==
    /\ mode' = "left"
    /\ view' = Entered(0, FALSE)
    /\ sent' = <<>> /\ yank' = None /\ asked' = None /\ told' = "Inert"

\* after_copy_search.
Follow(result, queue) ==
    /\ view' = result.view
    /\ told' = result.step
    /\ sent' = CASE result.step = "Fetch" -> Fetching(queue, result.fetch)
                 [] result.step \in {"Moved", "Updated"} ->
                      Prefetching(result.view, queue)
                 [] OTHER -> queue

Pressed == mode # "left" /\ keys < MaxKeys /\ keys' = keys + 1
BarOpen == view.search # None /\ view.search.editing

\* Bound: the letter that begins a preset search is not counted beside the key
\* that opened its bar.
Typed ==
    IF view.search.style = "Preset" /\ view.search.query = 0
    THEN mode # "left" /\ UNCHANGED keys
    ELSE Pressed

\* A search is begun: what was asked is remembered.
Search(v, from, direction, inclusive) ==
    /\ Follow(ScanFrom(v, sent, from, direction, inclusive), sent)
    /\ asked' = [from |-> from, direction |-> direction,
                 inclusive |-> inclusive, query |-> v.search.query]

SearchOn(v, direction) == Search(v, v.cursor, direction, FALSE)

\* search_from_origin: an edited query starts over, an empty one goes back.
\* The find bar reads its whole starting row.
SearchFromOrigin(v) ==
    LET origin == v.search.origin
        from == IF v.search.style = "Find" THEN <<origin[1], Cols>> ELSE origin
    IN  IF v.search.query = 0
        THEN /\ Follow(GoTo([v EXCEPT !.scan = None], sent, origin), sent)
             /\ UNCHANGED asked
        ELSE Search(v, from, v.search.direction, TRUE)

still == UNCHANGED <<world, yank, copied, failures>>

-----------------------------------------------------------------------------
\* The open bar takes the keys (edit_search, bar_key, preset_bar_key).
Insert ==
    /\ BarOpen /\ Typed /\ view.search.query < MaxQuery
    /\ SearchFromOrigin([view EXCEPT !.search.query = @ + 1])
    /\ UNCHANGED mode /\ still

Backspace ==
    /\ Pressed /\ BarOpen
    /\ SearchFromOrigin([view EXCEPT !.search.query = Greater(@ - 1, 0)])
    /\ UNCHANGED mode /\ still

\* A scan still running finishes.
Accept ==
    /\ Pressed /\ BarOpen /\ view.search.style = "Preset"
    /\ Follow(Step([view EXCEPT !.search.editing = FALSE], "Updated"), sent)
    /\ UNCHANGED <<mode, asked>> /\ still

Cancel ==
    /\ Pressed /\ BarOpen /\ view.search.style = "Preset"
    /\ Follow(GoTo([view EXCEPT !.search.editing = FALSE, !.scan = None],
                   sent, view.search.origin), sent)
    /\ UNCHANGED <<mode, asked>> /\ still

\* Ctrl+S and Ctrl+R in Emacs, Ctrl+F in Basic.
Repeat(preset, direction) ==
    /\ Pressed /\ BarOpen /\ view.search.style = "Preset"
    /\ preset = "Emacs" \/ (preset = "Basic" /\ direction = "Backward")
    /\ SearchOn([view EXCEPT !.search.direction = direction], direction)
    /\ UNCHANGED mode /\ still

\* Enter in the find bar, and Shift+Enter.
NextMatch(reverse) ==
    /\ Pressed /\ BarOpen /\ view.search.style = "Find"
    /\ SearchOn(view, IF reverse THEN Reversed(view.search.direction)
                      ELSE view.search.direction)
    /\ UNCHANGED mode /\ still

\* Escape in the find bar leaves copy mode.
LeaveBar ==
    /\ Pressed /\ BarOpen /\ view.search.style = "Find"
    /\ Leave
    /\ UNCHANGED <<world, copied, failures>>

OpenBar(direction, style) ==
    /\ view' = [view EXCEPT !.search = NewSearch(direction, style, view.cursor),
                            !.scan = None, !.seek = None, !.prefix = FALSE]
    /\ told' = "Inert"
    /\ UNCHANGED <<mode, sent, yank, copied, world, failures, asked>>

\* find: the find bar opens unless a bar is open.
FindCommand == Pressed /\ ~BarOpen /\ OpenBar("Backward", "Find")

-----------------------------------------------------------------------------
\* The preset's table takes the others (advance_copy_key, vim_key,
\* emacs_key, basic_key).  The preset is read at each press.
Motions(preset) ==
    {"Left", "Right", "Up", "Down", "PageUp", "PageDown", "Top", "Bottom"}
    \cup (IF preset = "Basic" THEN {} ELSE {"LineStart", "LineText", "Word"})
    \cup (IF preset = "Vim" THEN {"HalfPageUp", "HalfPageDown"} ELSE {})

Effects(preset) == IF preset = "Basic" THEN {"Extend", "Clear"} ELSE {"Keep"}

TogglesOf(preset) ==
    CASE preset = "Vim" -> Shapes
      [] preset = "Emacs" -> {"Character"}
      [] preset = "Basic" -> {}

\* resolve: where a motion may go.  A word motion goes to a word near by,
\* and stops at a row the client does not hold.
Targets(v, motion) ==
    LET row == v.cursor[1]
        col == v.cursor[2]
        half == Greater(Visible \div 2, 1)
        Vertical(n) == {<<Clamp(row + n, FirstRow(v), LastRow), col>>}
    IN  CASE motion = "Left" -> {<<row, Greater(col - 1, 0)>>}
          [] motion = "Right" -> {<<row, Lesser(col + 1, Cols - 1)>>}
          [] motion = "Up" -> Vertical(-1)
          [] motion = "Down" -> Vertical(1)
          [] motion = "HalfPageUp" -> Vertical(-half)
          [] motion = "HalfPageDown" -> Vertical(half)
          [] motion = "PageUp" -> Vertical(-Visible)
          [] motion = "PageDown" -> Vertical(Visible)
          [] motion = "Top" -> {<<FirstRow(v), 0>>}
          [] motion = "Bottom" -> {<<LastRow, 0>>}
          [] motion = "LineStart" -> {<<row, 0>>}
          [] motion = "LineText" -> {row} \X (0 .. Cols - 1)
          [] motion = "Word" ->
               {p \in Held(v) \X (0 .. Cols - 1) :
                  p[1] \in row - 1 .. row + 1}

\* A key of the preset's table, when no prefix of Vim's waits.
Command(preset) == /\ Pressed /\ ~BarOpen
                   /\ preset = "Vim" => ~view.prefix

Anchored(v) ==
    [v EXCEPT !.selection = [shape |-> "Character", anchor |-> v.cursor]]

Effect(v, effect) ==
    CASE effect = "Keep" -> v
      [] effect = "Clear" -> [v EXCEPT !.selection = None]
      [] effect = "Extend" -> IF v.selection = None THEN Anchored(v) ELSE v

Moved(v, at) ==
    LET s == SetCursor([v EXCEPT !.prefix = FALSE], at) IN
    /\ view' = s
    /\ sent' = Prefetching(s, sent)
    /\ told' = "Inert"
    /\ UNCHANGED <<mode, asked>> /\ still

Move(preset) ==
    /\ Command(preset)
    /\ \E motion \in Motions(preset), effect \in Effects(preset) :
         \E at \in Targets(view, motion) : Moved(Effect(view, effect), at)

\* g, and then g or a key that is dropped.
ArmPrefix ==
    /\ Command("Vim")
    /\ view' = [view EXCEPT !.prefix = TRUE]
    /\ told' = "Inert"
    /\ UNCHANGED <<mode, sent, asked>> /\ still

SecondKey ==
    /\ Pressed /\ ~BarOpen /\ view.prefix
    /\ \/ Moved(view, <<FirstRow(view), 0>>)
       \/ /\ view' = [view EXCEPT !.prefix = FALSE]
          /\ told' = "Inert"
          /\ UNCHANGED <<mode, sent, asked>> /\ still

Quiet(v) ==
    /\ view' = [v EXCEPT !.prefix = FALSE]
    /\ told' = "Inert"
    /\ UNCHANGED <<mode, sent, asked>> /\ still

\* toggle_selection: the active shape cancels, another one switches.
Toggle(preset, shape) ==
    /\ Command(preset) /\ shape \in TogglesOf(preset)
    /\ Quiet([view EXCEPT
         !.scan = None, !.seek = None,
         !.selection = IF @ = None
                       THEN [shape |-> shape, anchor |-> view.cursor]
                       ELSE IF @.shape = shape THEN None
                       ELSE [@ EXCEPT !.shape = shape]])

\* Escape clears a selection, and leaves when there is none.
ClearOrExit(preset) ==
    /\ Command(preset)
    /\ IF view.selection # None
       THEN Quiet([view EXCEPT !.selection = None,
                               !.scan = None, !.seek = None])
       ELSE Leave /\ UNCHANGED <<world, copied, failures>>

Exit(preset) ==
    /\ Command(preset) /\ preset # "Basic"
    /\ Leave
    /\ UNCHANGED <<world, copied, failures>>

OpenSearch(preset, direction) ==
    /\ Command(preset)
    /\ preset = "Basic" => direction = "Backward"
    /\ OpenBar(direction, "Preset")

\* n and N, once a query was typed.
SearchAgain(reverse) ==
    /\ Command("Vim") /\ view.search # None /\ view.search.query > 0
    /\ SearchOn([view EXCEPT !.prefix = FALSE],
                IF reverse THEN Reversed(view.search.direction)
                ELSE view.search.direction)
    /\ UNCHANGED mode /\ still

-----------------------------------------------------------------------------
\* The wheel and assistive technology, whatever bar is open.
Wheel(delta) ==
    LET s == ScrollDisplay(view, delta) IN
    /\ Pressed
    /\ view' = s
    /\ sent' = Prefetching(s, sent)
    /\ told' = "Inert"
    /\ UNCHANGED <<mode, asked>> /\ still

\* select_in_window: a caret, or a selection between two cells of the
\* window assistive technology reads, which is taken to be the one shown.
Select(at, anchor) ==
    LET none == [view EXCEPT !.selection = None]
        from == IF anchor = None THEN none
                ELSE Anchored(SetCursor(none, anchor))
    IN  /\ Pressed
        /\ view' = SetCursor(from, at)
        /\ told' = "Inert"
        /\ UNCHANGED <<mode, sent, asked>> /\ still

CellsFrom(top) == (top .. top + Visible - 1) \X (0 .. Cols - 1)

-----------------------------------------------------------------------------
\* Yank: text is the cells it is made of.
Text(daemon, local) == [daemon |-> daemon, local |-> local]

Yank(preset) ==
    LET plan == YankPlan(view)
        shape == view.selection.shape
        tail == LocalCells(shape, plan.local)
    IN  /\ Command(preset) /\ view.selection # None
        /\ IF plan.daemon = None
           THEN \/ copied' = [text |-> Text({}, tail),
                              shown |-> ShownCells(view)] /\ Leave
                \/ /\ view' = [view EXCEPT !.prefix = FALSE]
                   /\ told' = "Inert"
                   /\ UNCHANGED <<mode, sent, yank, copied, asked>>
           ELSE /\ sent' = Append(sent,
                     [type |-> "yank", serial |-> keys, shape |-> shape,
                      range |-> plan.daemon])
                /\ yank' = [serial |-> keys, tail |-> tail,
                            shown |-> ShownCells(view)]
                /\ view' = [view EXCEPT !.prefix = FALSE]
                /\ told' = "Inert"
                /\ UNCHANGED <<mode, copied, asked>>
        /\ UNCHANGED <<world, failures>>

-----------------------------------------------------------------------------
\* The pin lands: the initial fill goes out, and the window a search waits
\* for (UserEvent::CopyModeEntered).
PinLands ==
    LET held == {w.window : w \in {view.scan, view.seek} \ {None}} IN
    /\ mode = "entering"
    /\ mode' = "pinned"
    /\ sent' = Fetching(Append(sent, Fill(InitialFill, FALSE)), held)
    /\ told' = "Inert"
    /\ UNCHANGED <<view, keys, asked>> /\ still

\* The next answer, after the one to EnterCopyMode.
Answered(type) == mode = "pinned" /\ sent # <<>> /\ Head(sent).type = type

\* plan_scrollback_read: clamped to the history's start, the row count
\* kept, so that it may run into rows that came after the pin.
Answer ==
    LET w == Head(sent).window
        start == Lesser(Greater(w.start, -world.history), Later)
        served == start .. Lesser(start + w.count, Later) - 1
        followed(result) ==
            [view |-> result.view, told |-> result.step,
             sent |-> Prefetching(result.view,
                        IF result.step = "Fetch"
                        THEN Fetching(Tail(sent), result.fetch) ELSE Tail(sent))]
    IN  followed(Landed(view, Tail(sent), w, start, served,
                        start > -world.history))

FillLands ==
    /\ Answered("fill")
    /\ \E answer \in {Answer} :
         view' = answer.view /\ told' = answer.told /\ sent' = answer.sent
    /\ UNCHANGED <<mode, keys, asked>> /\ still

\* The archive fails a read: retried once, then copy mode is left; a
\* refusal that no retry can change leaves at once.
FillFails(retryable) ==
    /\ Answered("fill") /\ failures < MaxFailures
    /\ failures' = failures + 1
    /\ IF retryable /\ ~Head(sent).retried
       THEN /\ sent' = Append(Tail(sent), Fill(Head(sent).window, TRUE))
            /\ told' = "Inert"
            /\ UNCHANGED <<mode, view, yank, asked>>
       ELSE Leave
    /\ UNCHANGED <<world, copied, keys>>

Claimed == yank # None /\ yank.serial = Head(sent).serial

\* finish_yank: the text of the newest yank, with its local tail.
YankLands ==
    LET text == Text(DaemonCells(Head(sent).shape, Head(sent).range),
                     yank.tail)
    IN  /\ Answered("yank")
        /\ IF Claimed
           THEN \/ copied' = [text |-> text, shown |-> yank.shown] /\ Leave
                \/ /\ yank' = None /\ sent' = Tail(sent) /\ told' = "Inert"
                   /\ UNCHANGED <<copied, mode, view, asked>>
           ELSE /\ sent' = Tail(sent) /\ told' = "Inert"
                /\ UNCHANGED <<yank, copied, mode, view, asked>>
        /\ UNCHANGED <<world, keys, failures>>

YankFails ==
    /\ Answered("yank") /\ failures < MaxFailures
    /\ failures' = failures + 1
    /\ yank' = IF Claimed THEN None ELSE yank
    /\ sent' = Tail(sent) /\ told' = "Inert"
    /\ UNCHANGED <<world, mode, view, copied, keys, asked>>

-----------------------------------------------------------------------------
BarKey ==
    \/ Insert \/ Backspace \/ Accept \/ Cancel \/ LeaveBar
    \/ \E preset \in Presets, direction \in Directions :
         Repeat(preset, direction)
    \/ \E reverse \in BOOLEAN : NextMatch(reverse)

TableKey ==
    \/ ArmPrefix \/ SecondKey
    \/ \E reverse \in BOOLEAN : SearchAgain(reverse)
    \/ \E preset \in Presets :
         \/ Move(preset) \/ Yank(preset)
         \/ ClearOrExit(preset) \/ Exit(preset)
         \/ \E shape \in Shapes : Toggle(preset, shape)
         \/ \E direction \in Directions : OpenSearch(preset, direction)

User ==
    \/ BarKey \/ TableKey \/ FindCommand
    \/ \E delta \in {-Visible, -1, 1, Visible} : Wheel(delta)
    \/ \E at \in CellsFrom(view.displayTop),
         anchor \in {<<view.displayTop, 1>>, None} : Select(at, anchor)

Connection ==
    \/ PinLands \/ FillLands \/ YankLands \/ YankFails
    \/ \E retryable \in BOOLEAN : FillFails(retryable)

Next == User \/ Connection

Spec == Init /\ [][Next]_vars

\* Some answer changes something: ENABLED <<FillLands \/ YankLands>>_vars.
AnswerWaits ==
    \/ Answered("yank")
    \/ /\ Answered("fill")
       /\ Answer # [view |-> view, told |-> told, sent |-> sent]

\* The connection answers; nobody has to press a key.  The last conjunct is
\* WF_vars(FillLands \/ YankLands), written out.
FairSpec ==
    /\ Spec
    /\ WF_vars(PinLands)
    /\ []<>~AnswerWaits \/ []<><<FillLands \/ YankLands>>_vars

-----------------------------------------------------------------------------
\* The cache is one window of the history's rows within its capacity; the
\* display stays over addressable rows and the cursor inside the display;
\* nothing is asked before the pin has landed (ADR-0025 clause 2).
TypeOK ==
    /\ mode \in {"entering", "pinned", "left"}
    /\ view.cache \subseteq -world.history .. -1
    /\ Cardinality(view.cache) <= Capacity
    /\ view.cache # {} => view.cache = Min(view.cache) .. Max(view.cache)
    /\ mode # "left" =>
         /\ view.displayTop \in FirstRow(view) .. Top
         /\ view.cursor[1] \in view.displayTop
                                .. view.displayTop + Visible - 1
         /\ view.cursor[2] \in 0 .. Cols - 1
    /\ mode = "entering" => \A i \in DOMAIN sent : sent[i].type # "fill"

\* A search says it moved only onto the match nearest to where it began, in
\* the whole pinned history and the page, and says that there is none only
\* when there is none: whatever was held, fetched, evicted or front-clamped
\* on the way (scan_from, scan_landed, adopt_window).  The match is drawn and
\* counted, and while the bar claims no more history, no match further on in
\* the search's direction is missing from its count (search_status).
SearchTellsTruth ==
    LET further == {p \in Hits(view) :
                      /\ p[1] \in -world.history .. LastRow
                      /\ Beyond(p, view.cursor, view.search.direction, FALSE)}
        there == {p \in world.hits[asked.query] :
                    /\ p[1] \in -world.history .. LastRow
                    /\ Beyond(p, asked.from, asked.direction, asked.inclusive)}
    IN  /\ told = "Moved" =>
             /\ there # {}
             /\ view.cursor = Nearest(there, asked.direction)
             /\ view.cursor \in HeldMatches(view) \cap DisplayMatches(view)
        /\ told = "NotFound" => there = {}
        /\ view.search # None /\ view.search.query # 0 /\ ~HistoryRemains(view) =>
             further \subseteq HeldMatches(view)

\* The view is sound, and what a search says of it true.
ViewIsTrue == TypeOK /\ SearchTellsTruth

\* The text that lands on the clipboard is what was drawn selected when it
\* was yanked, each cell once, though the daemon read the rows below 0 and
\* the client the page's, and though another yank may have come between
\* (yank_plan, plan_yank, PendingYanks, display_selection).
YankTakesWhatShows ==
    copied # None =>
      /\ copied.text.daemon \cup copied.text.local = copied.shown
      /\ copied.text.daemon \cap copied.text.local = {}

\* When the user stops, the view comes to rest with every row of its
\* display held, no request in flight and no search waiting: no chunk is
\* evicted and fetched again for ever, and no search waits for an answer
\* that went to another (plan_prefetch, trim_to_capacity, fetch).
ComesToRest ==
    <>[](mode = "left" \/ ( /\ sent = <<>> /\ DisplayHole(view) = {}
                            /\ view.scan = None /\ view.seek = None))

=============================================================================
