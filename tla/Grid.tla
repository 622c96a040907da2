------------------------------- MODULE Grid -------------------------------
(***************************************************************************)
(* One terminal screen and what each escape sequence does to it            *)
(* (oakterm-terminal: grid/mod.rs, grid/row.rs, handler.rs).               *)
(*                                                                         *)
(* Rows and columns count from 0, as in the code.  A cell is inked or      *)
(* blank; glyphs, colours, attributes, titles and the bell are left out.   *)
(* A row's sequence                                                        *)
(* number is compared with one number only, the last one a client was      *)
(* sent, so it is abstracted to the outcome of that comparison: `fresh`.   *)
(* The rows a handler returns for the scrollback are the field `out`.      *)
(* `strayed` is history: set_mode has switched origin mode on with the     *)
(* cursor outside the region, and nothing has placed the cursor since.     *)
(***************************************************************************)
EXTENDS Naturals, Sequences, FiniteSets

Least(a, b) == IF a < b THEN a ELSE b
Most(a, b) == IF a < b THEN b ELSE a
Less(a, b) == IF a < b THEN 0 ELSE a - b        \* saturating_sub
Clamp(x, lo, hi) == Most(lo, Least(x, hi))

NoRegion == [top |-> 0, bottom |-> 0]
Home == [row |-> 0, col |-> 0]

\* Row::new, Row::new_with_bg
BlankRow(cols) ==
    [width |-> cols, ink |-> {}, mark |-> "None", meta |-> "None",
     fresh |-> FALSE]

TabWidth == 2    \* 8 in the code

DefaultStops(cols) == {c \in 1 .. cols - 1 : c % TabWidth = 0}

\* Grid::new
NewGrid(cols, rows) ==
    [cols |-> cols, rows |-> rows,
     lines |-> [r \in 0 .. rows - 1 |-> BlankRow(cols)],
     cursor |-> Home, saved |-> Home, savedOrigin |-> FALSE,
     modes |-> {7}, region |-> NoRegion, stops |-> DefaultStops(cols),
     strayed |-> FALSE, out |-> <<>>]

Has(g, mode) == mode \in g.modes
LastRow(g) == g.rows - 1
LastCol(g) == g.cols - 1
RowsOf(g) == 0 .. LastRow(g)

\* scroll_bounds
Top(g) == IF g.region = NoRegion THEN 0 ELSE g.region.top
Bottom(g) == IF g.region = NoRegion THEN LastRow(g) ELSE g.region.bottom

\* Grid::touch_row, touch_all and the stamping loops of the scrolls.
TouchRows(g, rows) ==
    [g EXCEPT !.lines = [r \in RowsOf(g) |->
        IF r \in rows THEN [@[r] EXCEPT !.fresh = TRUE] ELSE @[r]]]
TouchAll(g) == TouchRows(g, RowsOf(g))

\* The cells of one row, erased or shifted; the row is touched.
Inked(g, r, ink) == TouchRows([g EXCEPT !.lines[r].ink = ink], {r})
Erased(g, cols) ==
    Inked(g, g.cursor.row, g.lines[g.cursor.row].ink \ cols)

-----------------------------------------------------------------------------
\* Scrolling.

\* The rows from top to bottom move by n towards the top; blank rows come in.
RotatedUp(g, top, bottom, n) ==
    TouchRows([g EXCEPT !.lines = [r \in RowsOf(g) |->
        IF r \notin top .. bottom THEN @[r]
        ELSE IF r + n <= bottom THEN @[r + n] ELSE BlankRow(g.cols)]],
        top .. bottom)

RotatedDown(g, top, bottom, n) ==
    TouchRows([g EXCEPT !.lines = [r \in RowsOf(g) |->
        IF r \notin top .. bottom THEN @[r]
        ELSE IF r >= top + n THEN @[r - n] ELSE BlankRow(g.cols)]],
        top .. bottom)

\* do_scroll_up: what leaves row 0 goes to the scrollback.
ScrollUp(g, count) ==
    LET n == Least(count, Bottom(g) - Top(g) + 1)
    IN [RotatedUp(g, Top(g), Bottom(g), n) EXCEPT !.out =
          IF Top(g) = 0 THEN [i \in 1 .. n |-> g.lines[i - 1]] ELSE <<>>]

\* do_scroll_down
ScrollDown(g, count) ==
    RotatedDown(g, Top(g), Bottom(g), Least(count, Bottom(g) - Top(g) + 1))

\* insert_blank_lines and delete_lines: nothing is captured.
InLines(g) == g.cursor.row \in Top(g) .. Bottom(g)
LinesBelow(g, count) == Least(count, Bottom(g) - g.cursor.row + 1)
InsertLines(g, count) ==
    IF InLines(g)
    THEN RotatedDown(g, g.cursor.row, Bottom(g), LinesBelow(g, count)) ELSE g
DeleteLines(g, count) ==
    IF InLines(g)
    THEN RotatedUp(g, g.cursor.row, Bottom(g), LinesBelow(g, count)) ELSE g

\* do_linefeed: a cursor at or below the region's bottom scrolls the region.
Linefeed(g) ==
    LET moved == IF g.cursor.row >= Bottom(g) THEN ScrollUp(g, 1)
                 ELSE [g EXCEPT !.cursor.row = @ + 1]
    IN IF Has(g, 20) THEN [moved EXCEPT !.cursor.col = 0] ELSE moved

\* reverse_index
ReverseIndex(g) ==
    IF g.cursor.row <= Top(g) THEN ScrollDown(g, 1)
    ELSE [g EXCEPT !.cursor.row = @ - 1]

-----------------------------------------------------------------------------
\* Characters.

\* do_insert_blank
ShiftedRight(g, count) ==
    LET col == g.cursor.col
        n == Least(count, g.cols - col)
        ink == g.lines[g.cursor.row].ink
    IN IF col >= g.cols THEN g
       ELSE [g EXCEPT !.lines[g.cursor.row].ink =
               {c \in ink : c < col}
               \cup {c + n : c \in {k \in ink : k >= col /\ k + n < g.cols}}]

InsertBlank(g, count) == TouchRows(ShiftedRight(g, count), {g.cursor.row})

DeleteChars(g, count) ==
    LET col == g.cursor.col
        n == Least(count, g.cols - col)
        ink == g.lines[g.cursor.row].ink
    IN Inked(g, g.cursor.row,
             {c \in ink : c < col} \cup {c - n : c \in {k \in ink : k >= col + n}})

EraseChars(g, count) ==
    Erased(g, g.cursor.col .. Least(g.cursor.col + count, g.cols) - 1)

\* The pending wrap of write_char: a cursor past the last column goes to the
\* next line, or back onto the last column when mode 7 is off.
Unwrapped(g) ==
    IF g.cursor.col < g.cols THEN g
    ELSE IF Has(g, 7) THEN Linefeed([g EXCEPT !.cursor.col = 0])
    ELSE [g EXCEPT !.cursor.col = LastCol(g)]

\* Variant, for mutation: only inserted cells move the row's number.
InputUntouched(g) ==
    LET at == IF Has(g, 4) THEN InsertBlank(Unwrapped(g), 1) ELSE Unwrapped(g)
        r == at.cursor.row
    IN [at EXCEPT !.lines[r].ink = @ \cup {at.cursor.col}, !.cursor.col = @ + 1]

\* write_char, for input and substitute
Input(g) ==
    LET at == IF Has(g, 4) THEN ShiftedRight(Unwrapped(g), 1) ELSE Unwrapped(g)
        r == at.cursor.row
    IN [Inked(at, r, at.lines[r].ink \cup {at.cursor.col})
          EXCEPT !.cursor.col = @ + 1]

-----------------------------------------------------------------------------
\* Erasing.

ClearLine(g, mode) ==
    Erased(g, CASE mode = "Right" -> g.cursor.col .. LastCol(g)
                [] mode = "Left" -> 0 .. Least(g.cursor.col, LastCol(g))
                [] mode = "All" -> 0 .. LastCol(g))

\* clear_screen: whole rows are replaced, the cursor's row loses cells.
ClearScreen(g, mode) ==
    LET gone == CASE mode = "Below" -> g.cursor.row + 1 .. LastRow(g)
                  [] mode = "Above" -> 0 .. g.cursor.row - 1
                  [] mode = "All" -> RowsOf(g)
                  [] mode = "Saved" -> {}
        kept == CASE mode = "Below" -> ClearLine(g, "Right")
                  [] mode = "Above" -> ClearLine(g, "Left")
                  [] mode \in {"All", "Saved"} -> g
    IN TouchAll([kept EXCEPT !.lines = [r \in RowsOf(g) |->
           IF r \in gone THEN BlankRow(g.cols) ELSE @[r]]])

\* clear_grid
ClearGrid(g) == ClearScreen(g, "All")

\* decaln: every cell an E, no region.
Decaln(g) ==
    TouchAll([g EXCEPT
        !.lines = [r \in RowsOf(g) |-> [@[r] EXCEPT !.ink = 0 .. LastCol(g)]],
        !.cursor = Home, !.region = NoRegion, !.strayed = FALSE])

\* set_color and reset_color, for the colours that cells show.
Recolor(g) == TouchAll(g)

-----------------------------------------------------------------------------
\* The cursor.

\* goto and goto_line: under origin mode rows count from the region's top.
GotoLine(g, line) ==
    [g EXCEPT
        !.cursor.row = IF Has(g, 6) THEN Clamp(line + Top(g), Top(g), Bottom(g))
                       ELSE Least(line, LastRow(g)),
        !.strayed = FALSE]
GotoCol(g, col) == [g EXCEPT !.cursor.col = Least(col, LastCol(g))]
Goto(g, line, col) == GotoCol(GotoLine(g, line), col)

MoveUp(g, count) ==
    [g EXCEPT !.cursor.row =
        Most(Less(@, count), IF Has(g, 6) THEN Top(g) ELSE 0)]
MoveDown(g, count) ==
    [g EXCEPT !.cursor.row =
        Least(@ + count, IF Has(g, 6) THEN Bottom(g) ELSE LastRow(g))]
MoveForward(g, count) == GotoCol(g, g.cursor.col + count)
MoveBackward(g, count) == [g EXCEPT !.cursor.col = Less(@, count)]
CarriageReturn(g) == [g EXCEPT !.cursor.col = 0]

\* do_tab, move_forward_tabs and move_backward_tabs, one stop at a time.
NextTab(g) ==
    LET ahead == {c \in g.stops : c > g.cursor.col}
    IN [g EXCEPT !.cursor.col =
          IF ahead = {} THEN LastCol(g)
          ELSE CHOOSE c \in ahead : \A k \in ahead : c <= k]
\* move_forward_tabs leaves a pending wrap alone; do_tab does not.
ForwardTab(g) == IF g.cursor.col + 1 >= g.cols THEN g ELSE NextTab(g)
BackTab(g) ==
    LET behind == {c \in g.stops : c < g.cursor.col}
    IN [g EXCEPT !.cursor.col =
          IF behind = {} THEN 0
          ELSE CHOOSE c \in behind : \A k \in behind : c >= k]

SetTab(g) ==
    IF g.cursor.col < g.cols THEN [g EXCEPT !.stops = @ \cup {g.cursor.col}]
    ELSE g
ClearTabs(g, mode) ==
    [g EXCEPT !.stops = IF mode = "All" THEN {} ELSE @ \ {g.cursor.col}]

SaveCursor(g) ==
    [g EXCEPT !.saved = g.cursor, !.savedOrigin = Has(g, 6)]

WithMode(g, mode, on) ==
    [g EXCEPT !.modes = IF on THEN @ \cup {mode} ELSE @ \ {mode}]

\* The row a cursor in origin mode may be on.
InRegion(g) == g.cursor.row \in Top(g) .. Bottom(g)

\* set_mode and unset_mode, and the private modes that are a bit only.  ANSI
\* and private modes share the bits; the cursor stays where it is.
SetMode(g, mode, on) ==
    [WithMode(g, mode, on) EXCEPT
        !.strayed = IF mode = 6 THEN on /\ ~ InRegion(g) ELSE @]

\* Variant, for mutation: origin mode returns, the region it is bound to
\* does not count.
RestoreCursorAnywhere(g) ==
    [WithMode(g, 6, g.savedOrigin) EXCEPT
        !.cursor = [row |-> Least(g.saved.row, LastRow(g)),
                    col |-> Least(g.saved.col, LastCol(g))],
        !.strayed = FALSE]

\* restore_cursor: clamped to the screen, then to the region.
RestoreCursor(g) ==
    LET row == Least(g.saved.row, LastRow(g))
    IN [WithMode(g, 6, g.savedOrigin) EXCEPT
          !.cursor = [row |-> IF g.savedOrigin THEN Clamp(row, Top(g), Bottom(g))
                              ELSE row,
                      col |-> Least(g.saved.col, LastCol(g))],
          !.strayed = FALSE]

\* set_scrolling_region, with vte's 1-based rows: a region that is empty or
\* the whole screen is none; the cursor goes home.
SetRegion(g, top, bottom) ==
    LET t == Least(Less(top, 1), LastRow(g))
        b == Least(Less(bottom, 1), LastRow(g))
        region == IF t < b /\ (t > 0 \/ b < LastRow(g))
                  THEN [top |-> t, bottom |-> b] ELSE NoRegion
        bounded == [g EXCEPT !.region = region]
    IN [bounded EXCEPT
          !.cursor = [row |-> IF Has(g, 6) THEN Top(bounded) ELSE 0, col |-> 0],
          !.strayed = FALSE]

\* DECSET and DECRST 6.
SetOrigin(g, on) ==
    [WithMode(g, 6, on) EXCEPT
        !.cursor = [row |-> IF on THEN Top(g) ELSE 0, col |-> 0],
        !.strayed = FALSE]

\* device_status 6: the row is reported from the origin, 1-based.
CursorReport(g) ==
    <<Less(g.cursor.row, IF Has(g, 6) THEN Top(g) ELSE 0) + 1, g.cursor.col + 1>>

-----------------------------------------------------------------------------
\* Resizing.

\* Row::resize
RowResized(row, cols) ==
    [row EXCEPT !.width = cols, !.ink = {c \in @ : c < cols}]

\* Variant, for mutation: one row too few.
ScrolledOffFew(g, rows) == IF rows < g.rows THEN Less(g.cursor.row, rows) ELSE 0

\* How many rows a shrink scrolls off: only what keeps the cursor on screen.
ScrolledOff(g, rows) == IF rows < g.rows THEN Less(g.cursor.row + 1, rows) ELSE 0

\* The clamps of Grid::resize.
Fitted(pos, cols, rows) ==
    [row |-> Least(pos.row, rows - 1), col |-> Least(pos.col, cols - 1)]

\* Grid::resize: rows scrolled off the top are returned, rows below the last
\* are dropped.
Resize(g, cols, rows) ==
    LET off == ScrolledOff(g, rows)
        line(r) == IF r + off < g.rows THEN g.lines[r + off] ELSE BlankRow(cols)
        sized == [g EXCEPT
            !.cols = cols, !.rows = rows,
            !.lines = [r \in 0 .. rows - 1 |-> RowResized(line(r), cols)],
            !.stops = DefaultStops(cols),
            !.cursor = Fitted(@, cols, rows), !.saved = Fitted(@, cols, rows),
            !.region = NoRegion, !.strayed = FALSE,
            !.out = [i \in 1 .. off |-> g.lines[i - 1]]]
    IN TouchAll(sized)
=============================================================================
