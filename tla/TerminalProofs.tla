------------------------- MODULE TerminalProofs -------------------------
(***************************************************************************)
(* Safety of Terminal for screens of any size, any counts and any number   *)
(* of sequences.                                                           *)
(***************************************************************************)
EXTENDS Terminal, SequenceTheorems, WellFoundedInduction, TLAPS

Sizing == Nat \ {0}
RowSet ==
    [width : Nat, ink : SUBSET Nat, mark : {"None", "PromptStart", "OutputEnd"},
     meta : {"None", "ExitCode", "WorkingDirectory"}, fresh : BOOLEAN]

\* A row of a screen this wide: an exit code ends an output.
RowOf(cols) ==
    {row \in RowSet : /\ row.width = cols /\ row.ink \subseteq 0 .. cols - 1
                      /\ row.meta = "ExitCode" => row.mark = "OutputEnd"}

Places(cols, rows) == [row : 0 .. rows - 1, col : 0 .. cols]

GridSet(cols, rows) ==
    [cols : {cols}, rows : {rows}, lines : [0 .. rows - 1 -> RowOf(cols)],
     cursor : Places(cols, rows), saved : Places(cols, rows), savedOrigin : BOOLEAN,
     modes : SUBSET Nat, region : [top : 0 .. rows - 1, bottom : 0 .. rows - 1],
     stops : SUBSET (0 .. cols - 1), strayed : BOOLEAN, out : Seq(RowSet)]

\* Origin mode binds the cursor: it is on, and not because set_mode stored the
\* bit while the cursor was elsewhere.
Tied(g) == Has(g, 6) /\ ~ g.strayed

\* A bound cursor is in the region; this is what keeps every move there, and
\* what a resize or a restored cursor could break.
Regioned(g) ==
    /\ g.region = NoRegion \/ g.region.top < g.region.bottom
    /\ Tied(g) => g.cursor.row \in Top(g) .. Bottom(g)

\* A screen of this size that a handler may be given.
Screens(cols, rows) == {g \in GridSet(cols, rows) : Regioned(g)}

\* A row that changed is newer than what the client has, and stays so.
Advances(was, now) ==
    /\ Shown(now) # Shown(was) => now.fresh
    /\ was.fresh => now.fresh

\* The screens a handler may make of screen g.
Follows(g, cols, rows) ==
    {h \in Screens(cols, rows) : \A r \in 0 .. rows - 1 : Advances(g.lines[r], h.lines[r])}
-----------------------------------------------------------------------------
\* Screens and their parts.

LEMMA Bounds ==
  ASSUME NEW cols \in Sizing, NEW rows \in Sizing, NEW g \in Screens(cols, rows)
  PROVE  /\ Top(g) \in 0 .. rows - 1 /\ Bottom(g) \in 0 .. rows - 1
         /\ Top(g) <= Bottom(g)
BY DEF Sizing, Screens, GridSet, Regioned, Top, Bottom, LastRow, NoRegion

LEMMA Fields ==
  ASSUME NEW cols \in Sizing, NEW rows \in Sizing, NEW g \in Screens(cols, rows)
  PROVE  /\ g.cols = cols /\ g.rows = rows /\ RowsOf(g) = 0 .. rows - 1
         /\ LastRow(g) = rows - 1 /\ LastCol(g) = cols - 1
         /\ g.lines \in [0 .. rows - 1 -> RowOf(cols)]
         /\ g.cursor \in Places(cols, rows) /\ g.saved \in Places(cols, rows)
         /\ g.cursor.row \in 0 .. rows - 1 /\ g.cursor.col \in 0 .. cols
         /\ g.saved.row \in 0 .. rows - 1 /\ g.saved.col \in 0 .. cols
         /\ g.stops \in SUBSET (0 .. cols - 1) /\ g.modes \in SUBSET Nat
         /\ g.savedOrigin \in BOOLEAN
BY DEF Screens, GridSet, Places, RowsOf, LastRow, LastCol

LEMMA Steady ==
  ASSUME NEW cols \in Sizing, NEW rows \in Sizing, NEW g \in Screens(cols, rows)
  PROVE  g \in Follows(g, cols, rows)
BY DEF Follows, Advances

\* Two handlers, one after the other.
LEMMA Chains ==
  ASSUME NEW cols, NEW rows, NEW g, NEW h \in Follows(g, cols, rows),
         NEW k \in Follows(h, cols, rows)
  PROVE  k \in Follows(g, cols, rows)
<1> SUFFICES ASSUME NEW r \in 0 .. rows - 1
             PROVE  Advances(g.lines[r], k.lines[r])
  BY DEF Follows
<1>1. Advances(g.lines[r], h.lines[r]) /\ Advances(h.lines[r], k.lines[r])
  BY DEF Follows
<1> QED  BY <1>1 DEF Advances

\* Another set of rows.
LEMMA Replaces ==
  ASSUME NEW cols \in Sizing, NEW rows \in Sizing, NEW g \in Screens(cols, rows),
         NEW lines \in [0 .. rows - 1 -> RowOf(cols)]
  PROVE  [g EXCEPT !.lines = lines] \in Screens(cols, rows)
<1> DEFINE h == [g EXCEPT !.lines = lines]
<1>1. h \in GridSet(cols, rows)
  BY DEF Screens, GridSet
<1>2. /\ h.region = g.region /\ h.cursor = g.cursor /\ h.modes = g.modes /\ h.rows = g.rows
      /\ h.strayed = g.strayed /\ Regioned(g)
  BY DEF Screens, GridSet
<1>3. Regioned(h)
  BY <1>2 DEF Regioned, Tied, Top, Bottom, LastRow, Has
<1> QED  BY <1>1, <1>3 DEF Screens

\* Another place for the cursor, and whether it has strayed.
LEMMA PutsCursor ==
  ASSUME NEW cols \in Sizing, NEW rows \in Sizing, NEW g \in Screens(cols, rows),
         NEW place \in Places(cols, rows), NEW strayed \in BOOLEAN,
         Has(g, 6) /\ ~ strayed => place.row \in Top(g) .. Bottom(g)
  PROVE  [g EXCEPT !.cursor = place, !.strayed = strayed] \in Follows(g, cols, rows)
<1> DEFINE h == [g EXCEPT !.cursor = place, !.strayed = strayed]
<1>1. h \in GridSet(cols, rows)
  BY DEF Screens, GridSet
<1>2. /\ h.region = g.region /\ h.modes = g.modes /\ h.rows = g.rows
      /\ h.cursor = place /\ h.strayed = strayed /\ h.lines = g.lines /\ Regioned(g)
  BY DEF Screens, GridSet
<1> HIDE DEF h
<1>3. Top(h) = Top(g) /\ Bottom(h) = Bottom(g) /\ Has(h, 6) = Has(g, 6)
  BY <1>2 DEF Top, Bottom, LastRow, Has
<1>4. Regioned(h)
  BY <1>2, <1>3 DEF Regioned, Tied
<1>5. h \in Follows(g, cols, rows)
  BY <1>1, <1>2, <1>4 DEF Screens, Follows, Advances
<1> QED  BY <1>5 DEF h

\* A move.
LEMMA Moves ==
  ASSUME NEW cols \in Sizing, NEW rows \in Sizing, NEW g \in Screens(cols, rows),
         NEW place \in Places(cols, rows),
         Tied(g) => place.row \in Top(g) .. Bottom(g)
  PROVE  [g EXCEPT !.cursor = place] \in Follows(g, cols, rows)
<1>1. g.strayed \in BOOLEAN
  BY DEF Screens, GridSet
<1>2. [g EXCEPT !.cursor = place] = [g EXCEPT !.cursor = place, !.strayed = g.strayed]
  BY DEF Screens, GridSet
<1>3. [g EXCEPT !.cursor = place, !.strayed = g.strayed] \in Follows(g, cols, rows)
  BY <1>1, PutsCursor DEF Tied
<1> QED  BY <1>2, <1>3

LEMMA MovesRow ==
  ASSUME NEW cols \in Sizing, NEW rows \in Sizing, NEW g \in Screens(cols, rows),
         NEW row \in 0 .. rows - 1,
         Tied(g) => row \in Top(g) .. Bottom(g)
  PROVE  /\ [g EXCEPT !.cursor.row = row] \in Follows(g, cols, rows)
         /\ [g EXCEPT !.cursor.row = row].lines = g.lines
<1> DEFINE place == [g.cursor EXCEPT !.row = row]
<1>1. place \in Places(cols, rows) /\ place.row = row
  BY DEF Screens, GridSet, Places
<1>2. [g EXCEPT !.cursor = place] \in Follows(g, cols, rows)
  BY <1>1, Moves
<1>3. /\ [g EXCEPT !.cursor.row = row] = [g EXCEPT !.cursor = place]
      /\ [g EXCEPT !.cursor.row = row].lines = g.lines
  BY DEF Screens, GridSet
<1> QED  BY <1>2, <1>3

LEMMA MovesCol ==
  ASSUME NEW cols \in Sizing, NEW rows \in Sizing, NEW g \in Screens(cols, rows),
         NEW col \in 0 .. cols
  PROVE  /\ [g EXCEPT !.cursor.col = col] \in Follows(g, cols, rows)
         /\ [g EXCEPT !.cursor.col = col].lines = g.lines
<1> DEFINE place == [g.cursor EXCEPT !.col = col]
<1>1. place \in Places(cols, rows) /\ (Tied(g) => place.row \in Top(g) .. Bottom(g))
  BY DEF Screens, GridSet, Places, Regioned
<1>2. [g EXCEPT !.cursor = place] \in Follows(g, cols, rows)
  BY <1>1, Moves
<1>3. /\ [g EXCEPT !.cursor.col = col] = [g EXCEPT !.cursor = place]
      /\ [g EXCEPT !.cursor.col = col].lines = g.lines
  BY DEF Screens, GridSet
<1> QED  BY <1>2, <1>3

\* Rows stamped: the handler may have changed those before.
LEMMA Stamps ==
  ASSUME NEW cols \in Sizing, NEW rows \in Sizing, NEW g, NEW touched,
         NEW h \in Screens(cols, rows),
         \A r \in (0 .. rows - 1) \ touched : Advances(g.lines[r], h.lines[r])
  PROVE  TouchRows(h, touched) \in Follows(g, cols, rows)
<1> DEFINE lines == [r \in 0 .. rows - 1 |->
                       IF r \in touched THEN [h.lines[r] EXCEPT !.fresh = TRUE] ELSE h.lines[r]]
           k == [h EXCEPT !.lines = lines]
<1>1. RowsOf(h) = 0 .. rows - 1 /\ h.lines \in [0 .. rows - 1 -> RowOf(cols)]
  BY Fields
<1>2. TouchRows(h, touched) = k
  BY <1>1 DEF TouchRows
<1>3. ASSUME NEW r \in 0 .. rows - 1
      PROVE  lines[r] \in RowOf(cols)
  BY <1>1 DEF RowOf, RowSet
<1>4. lines \in [0 .. rows - 1 -> RowOf(cols)]
  BY <1>3
<1>5. k \in Screens(cols, rows)
  <2> HIDE DEF lines
  <2> QED  BY <1>4, Replaces
<1>6. k.lines = lines
  BY DEF Screens, GridSet
<1>7. ASSUME NEW r \in 0 .. rows - 1
      PROVE  Advances(g.lines[r], lines[r])
  <2>1. CASE r \in touched
    <3>1. h.lines[r] \in RowSet
      BY <1>1 DEF RowOf
    <3>2. lines[r].fresh
      BY <2>1, <3>1 DEF RowSet
    <3> QED  BY <3>2 DEF Advances
  <2>2. CASE r \notin touched
    BY <2>2
  <2> QED  BY <2>1, <2>2
<1> HIDE DEF lines, k
<1> QED  BY <1>2, <1>5, <1>6, <1>7 DEF Follows

\* Stamping rows changes nothing but their numbers.
LEMMA Stamped ==
  ASSUME NEW cols \in Sizing, NEW rows \in Sizing, NEW g \in Screens(cols, rows), NEW touched
  PROVE  /\ TouchRows(g, touched) \in Follows(g, cols, rows)
         /\ TouchAll(g) \in Follows(g, cols, rows)
<1>1. \A r \in (0 .. rows - 1) \ touched : Advances(g.lines[r], g.lines[r])
  BY DEF Advances
<1>2. \A r \in (0 .. rows - 1) \ RowsOf(g) : Advances(g.lines[r], g.lines[r])
  BY DEF Advances
<1>3. TouchRows(g, touched) \in Follows(g, cols, rows)
  BY <1>1, Stamps
<1>4. TouchRows(g, RowsOf(g)) \in Follows(g, cols, rows)
  BY <1>2, Stamps
<1> QED  BY <1>3, <1>4 DEF TouchAll

\* A handler that replaces rows and stamps them all.
LEMMA StampsAll ==
  ASSUME NEW cols \in Sizing, NEW rows \in Sizing, NEW g, NEW h \in Screens(cols, rows)
  PROVE  TouchAll(h) \in Follows(g, cols, rows)
<1>1. \A r \in (0 .. rows - 1) \ RowsOf(h) : Advances(g.lines[r], h.lines[r])
  <2>1. RowsOf(h) = 0 .. rows - 1
    BY Fields
  <2> QED  BY <2>1
<1>2. TouchRows(h, RowsOf(h)) \in Follows(g, cols, rows)
  BY <1>1, Stamps
<1> QED  BY <1>2 DEF TouchAll

\* What stamping and rewriting rows leave alone.
LEMMA StampKeeps ==
  ASSUME NEW cols \in Sizing, NEW rows \in Sizing, NEW g \in Screens(cols, rows), NEW touched
  PROVE  /\ TouchRows(g, touched).cursor = g.cursor
         /\ TouchRows(g, touched).region = g.region
         /\ TouchRows(g, touched).modes = g.modes
BY DEF Screens, GridSet, TouchRows

LEMMA BlankFits ==
  ASSUME NEW cols \in Sizing
  PROVE  BlankRow(cols) \in RowOf(cols)
<1>1. cols \in Nat
  BY DEF Sizing
<1>2. PICK none : none = {}
  OBVIOUS
<1>3. none \in SUBSET Nat /\ none \in SUBSET (0 .. cols - 1)
  BY <1>2
<1> DEFINE row == [width |-> cols, ink |-> none, mark |-> "None", meta |-> "None",
                   fresh |-> FALSE]
<1>4. row \in RowSet
  BY <1>1, <1>3 DEF RowSet
<1>5. row.width = cols /\ row.ink = none /\ row.meta = "None"
  OBVIOUS
<1> HIDE DEF row
<1>6. row \in RowOf(cols)
  <2>1. "None" # "ExitCode"
    OBVIOUS
  <2> QED  BY <1>3, <1>4, <1>5, <2>1 DEF RowOf
<1> QED  BY <1>2, <1>6 DEF BlankRow, row

LEMMA InksRow ==
  ASSUME NEW cols \in Sizing, NEW row \in RowOf(cols), NEW ink \in SUBSET (0 .. cols - 1)
  PROVE  [row EXCEPT !.ink = ink] \in RowOf(cols)
<1>1. ink \in SUBSET Nat
  BY DEF Sizing
<1>2. [row EXCEPT !.ink = ink] \in RowSet
  BY <1>1 DEF RowOf, RowSet
<1>3. /\ [row EXCEPT !.ink = ink].ink = ink
      /\ [row EXCEPT !.ink = ink].width = row.width
      /\ [row EXCEPT !.ink = ink].mark = row.mark
      /\ [row EXCEPT !.ink = ink].meta = row.meta
  BY DEF RowOf, RowSet
<1> QED  BY <1>2, <1>3 DEF RowOf

\* Other cells in one row, which is not stamped.
WithInk(g, r, ink) == [g EXCEPT !.lines[r].ink = ink]

LEMMA InksOne ==
  ASSUME NEW cols \in Sizing, NEW rows \in Sizing, NEW g \in Screens(cols, rows),
         NEW r \in 0 .. rows - 1, NEW ink \in SUBSET (0 .. cols - 1)
  PROVE  /\ WithInk(g, r, ink) \in Screens(cols, rows)
         /\ WithInk(g, r, ink).cursor = g.cursor
         /\ \A s \in (0 .. rows - 1) \ {r} : WithInk(g, r, ink).lines[s] = g.lines[s]
<1> DEFINE row == [g.lines[r] EXCEPT !.ink = ink]
           lines == [g.lines EXCEPT ![r] = row]
           h == [g EXCEPT !.lines = lines]
<1>1. g.lines \in [0 .. rows - 1 -> RowOf(cols)]
  BY Fields
<1>2. row \in RowOf(cols)
  BY <1>1, InksRow
<1>3. /\ WithInk(g, r, ink) = h
      /\ h.lines = lines /\ h.cursor = g.cursor
  BY DEF Screens, GridSet, WithInk
<1> HIDE DEF row
<1>4. /\ lines \in [0 .. rows - 1 -> RowOf(cols)]
      /\ \A s \in (0 .. rows - 1) \ {r} : lines[s] = g.lines[s]
  BY <1>1, <1>2
<1> HIDE DEF lines
<1>5. h \in Screens(cols, rows)
  BY <1>4, Replaces
<1> HIDE DEF h
<1> QED  BY <1>3, <1>4, <1>5
-----------------------------------------------------------------------------
\* One lemma for each handler: it makes of a screen a screen, of the same
\* size, whose changed rows are newer.

LEMMA Inks ==
  ASSUME NEW cols \in Sizing, NEW rows \in Sizing, NEW g \in Screens(cols, rows),
         NEW r \in 0 .. rows - 1, NEW ink \in SUBSET (0 .. cols - 1)
  PROVE  /\ Inked(g, r, ink) \in Follows(g, cols, rows)
         /\ Inked(g, r, ink).cursor = g.cursor
<1> DEFINE h == WithInk(g, r, ink)
<1>1. /\ h \in Screens(cols, rows) /\ h.cursor = g.cursor
      /\ \A s \in (0 .. rows - 1) \ {r} : h.lines[s] = g.lines[s]
  BY InksOne
<1>2. Inked(g, r, ink) = TouchRows(h, {r})
  BY DEF Inked, WithInk
<1> HIDE DEF h
<1>3. \A s \in (0 .. rows - 1) \ {r} : Advances(g.lines[s], h.lines[s])
  BY <1>1 DEF Advances
<1>4. /\ TouchRows(h, {r}) \in Follows(g, cols, rows)
      /\ TouchRows(h, {r}).cursor = h.cursor
  BY <1>1, <1>3, Stamps, StampKeeps
<1> QED  BY <1>1, <1>2, <1>4

LEMMA Erases ==
  ASSUME NEW cols \in Sizing, NEW rows \in Sizing, NEW g \in Screens(cols, rows), NEW gone
  PROVE  /\ Erased(g, gone) \in Follows(g, cols, rows)
         /\ Erased(g, gone).cursor = g.cursor
<1> DEFINE r == g.cursor.row
           ink == g.lines[r].ink \ gone
<1>1. r \in 0 .. rows - 1 /\ g.lines \in [0 .. rows - 1 -> RowOf(cols)]
  BY Fields
<1>2. ink \in SUBSET (0 .. cols - 1)
  BY <1>1 DEF RowOf
<1> HIDE DEF r, ink
<1>3. Inked(g, r, ink) \in Follows(g, cols, rows) /\ Inked(g, r, ink).cursor = g.cursor
  BY <1>1, <1>2, Inks
<1> QED  BY <1>3 DEF Erased, r, ink

LEMMA ClearsLine ==
  ASSUME NEW cols \in Sizing, NEW rows \in Sizing, NEW g \in Screens(cols, rows),
         NEW mode
  PROVE  ClearLine(g, mode) \in Follows(g, cols, rows)
BY Erases DEF ClearLine

LEMMA ErasesChars ==
  ASSUME NEW cols \in Sizing, NEW rows \in Sizing, NEW g \in Screens(cols, rows),
         NEW count
  PROVE  EraseChars(g, count) \in Follows(g, cols, rows)
BY Erases DEF EraseChars

LEMMA ClearsScreen ==
  ASSUME NEW cols \in Sizing, NEW rows \in Sizing, NEW g \in Screens(cols, rows),
         NEW mode \in {"Below", "Above", "All", "Saved"}
  PROVE  ClearScreen(g, mode) \in Follows(g, cols, rows)
<1> DEFINE gone == CASE mode = "Below" -> g.cursor.row + 1 .. LastRow(g)
                     [] mode = "Above" -> 0 .. g.cursor.row - 1
                     [] mode = "All" -> RowsOf(g)
                     [] mode = "Saved" -> {}
           kept == CASE mode = "Below" -> ClearLine(g, "Right")
                     [] mode = "Above" -> ClearLine(g, "Left")
                     [] mode \in {"All", "Saved"} -> g
           lines == [r \in RowsOf(g) |->
                       IF r \in gone THEN BlankRow(g.cols) ELSE kept.lines[r]]
<1>1. kept \in Screens(cols, rows)
  <2>1. g \in Screens(cols, rows)
    OBVIOUS
  <2>2. /\ ClearLine(g, "Right") \in Screens(cols, rows)
        /\ ClearLine(g, "Left") \in Screens(cols, rows)
    BY ClearsLine DEF Follows
  <2> QED  BY <2>1, <2>2
<1>2. g.cols = cols /\ RowsOf(g) = 0 .. rows - 1
  BY Fields
<1> HIDE DEF gone, kept
<1>3. kept.lines \in [0 .. rows - 1 -> RowOf(cols)]
  BY <1>1, Fields
<1>4. lines \in [0 .. rows - 1 -> RowOf(cols)]
  BY <1>2, <1>3, BlankFits
<1>5. ClearScreen(g, mode) = TouchAll([kept EXCEPT !.lines = lines])
  BY DEF ClearScreen, gone, kept
<1> HIDE DEF lines
<1>6. [kept EXCEPT !.lines = lines] \in Screens(cols, rows)
  BY <1>1, <1>4, Replaces
<1> QED  BY <1>5, <1>6, StampsAll

LEMMA ClearsGrid ==
  ASSUME NEW cols \in Sizing, NEW rows \in Sizing, NEW g \in Screens(cols, rows)
  PROVE  ClearGrid(g) \in Follows(g, cols, rows)
BY ClearsScreen DEF ClearGrid

LEMMA Aligns ==
  ASSUME NEW cols \in Sizing, NEW rows \in Sizing, NEW g \in Screens(cols, rows)
  PROVE  Decaln(g) \in Follows(g, cols, rows)
<1> DEFINE lines == [r \in RowsOf(g) |-> [g.lines[r] EXCEPT !.ink = 0 .. LastCol(g)]]
           h == [g EXCEPT !.lines = lines, !.cursor = Home, !.region = NoRegion,
                          !.strayed = FALSE]
<1>1. /\ RowsOf(g) = 0 .. rows - 1 /\ LastCol(g) = cols - 1
      /\ g.lines \in [0 .. rows - 1 -> RowOf(cols)]
  BY Fields
<1>2. ASSUME NEW r \in 0 .. rows - 1 PROVE lines[r] \in RowOf(cols)
  BY <1>1, InksRow
<1>3. lines \in [0 .. rows - 1 -> RowOf(cols)]
  BY <1>1, <1>2
<1>4. Decaln(g) = TouchAll(h)
  BY DEF Decaln
<1> HIDE DEF lines
<1>5. /\ Home \in Places(cols, rows)
      /\ NoRegion \in [top : 0 .. rows - 1, bottom : 0 .. rows - 1]
  BY DEF Home, Places, NoRegion, Sizing
<1>6. h \in GridSet(cols, rows)
  BY <1>3, <1>5 DEF Screens, GridSet
<1>7. /\ h.region = NoRegion /\ h.cursor.row = 0 /\ h.rows = rows
  BY Fields DEF Screens, GridSet, Home
<1>8. Top(h) = 0 /\ Bottom(h) = rows - 1
  BY <1>7 DEF Top, Bottom, LastRow
<1>9. Regioned(h)
  BY <1>7, <1>8 DEF Regioned, Sizing
<1>10. h \in Screens(cols, rows)
  BY <1>6, <1>9 DEF Screens
<1> HIDE DEF h
<1> QED  BY <1>4, <1>10, StampsAll

LEMMA Recolors ==
  ASSUME NEW cols \in Sizing, NEW rows \in Sizing, NEW g \in Screens(cols, rows)
  PROVE  Recolor(g) \in Follows(g, cols, rows)
BY Stamped DEF Recolor

\* Rows for the scrollback.
LEMMA Gives ==
  ASSUME NEW cols \in Sizing, NEW rows \in Sizing, NEW g, NEW h \in Follows(g, cols, rows),
         NEW given \in Seq(RowSet)
  PROVE  /\ [h EXCEPT !.out = given] \in Follows(g, cols, rows)
         /\ [h EXCEPT !.out = given].cursor = h.cursor
         /\ [h EXCEPT !.out = given].modes = h.modes
<1> DEFINE k == [h EXCEPT !.out = given]
<1>1. k \in GridSet(cols, rows)
  BY DEF Follows, Screens, GridSet
<1>2. /\ k.region = h.region /\ k.modes = h.modes /\ k.rows = h.rows
      /\ k.cursor = h.cursor /\ k.lines = h.lines /\ k.strayed = h.strayed /\ Regioned(h)
  BY DEF Follows, Screens, GridSet
<1>3. Regioned(k)
  BY <1>2 DEF Regioned, Tied, Top, Bottom, LastRow, Has
<1> HIDE DEF k
<1>4. k \in Follows(g, cols, rows)
  BY <1>1, <1>2, <1>3 DEF Screens, Follows
<1> QED  BY <1>2, <1>4 DEF k

\* Rows move within some of the lines, which are stamped.
LEMMA Rotates ==
  ASSUME NEW cols \in Sizing, NEW rows \in Sizing, NEW g \in Screens(cols, rows),
         NEW top \in 0 .. rows - 1, NEW bottom \in 0 .. rows - 1, NEW n \in Nat
  PROVE  /\ RotatedUp(g, top, bottom, n) \in Follows(g, cols, rows)
         /\ RotatedUp(g, top, bottom, n).cursor = g.cursor
         /\ RotatedUp(g, top, bottom, n).modes = g.modes
         /\ RotatedDown(g, top, bottom, n) \in Follows(g, cols, rows)
         /\ RotatedDown(g, top, bottom, n).cursor = g.cursor
<1> DEFINE up == [r \in RowsOf(g) |->
                    IF r \notin top .. bottom THEN g.lines[r]
                    ELSE IF r + n <= bottom THEN g.lines[r + n] ELSE BlankRow(g.cols)]
           down == [r \in RowsOf(g) |->
                      IF r \notin top .. bottom THEN g.lines[r]
                      ELSE IF r >= top + n THEN g.lines[r - n] ELSE BlankRow(g.cols)]
           raised == [g EXCEPT !.lines = up]
           lowered == [g EXCEPT !.lines = down]
<1>1. /\ g.cols = cols /\ RowsOf(g) = 0 .. rows - 1
      /\ g.lines \in [0 .. rows - 1 -> RowOf(cols)]
  BY Fields
<1>2. BlankRow(cols) \in RowOf(cols)
  BY BlankFits
<1>3. ASSUME NEW r \in 0 .. rows - 1 PROVE up[r] \in RowOf(cols)
  <2>1. r + n <= bottom => r + n \in 0 .. rows - 1
    BY DEF Sizing
  <2> QED  BY <1>1, <1>2, <2>1
<1>4. ASSUME NEW r \in 0 .. rows - 1 PROVE down[r] \in RowOf(cols)
  <2>1. r >= top + n => r - n \in 0 .. rows - 1
    BY DEF Sizing
  <2> QED  BY <1>1, <1>2, <2>1
<1>5. /\ up \in [0 .. rows - 1 -> RowOf(cols)]
      /\ down \in [0 .. rows - 1 -> RowOf(cols)]
  BY <1>1, <1>3, <1>4
<1>6. \A r \in (0 .. rows - 1) \ (top .. bottom) : up[r] = g.lines[r] /\ down[r] = g.lines[r]
  BY <1>1
<1>7. /\ RotatedUp(g, top, bottom, n) = TouchRows(raised, top .. bottom)
      /\ RotatedDown(g, top, bottom, n) = TouchRows(lowered, top .. bottom)
  BY DEF RotatedUp, RotatedDown
<1> HIDE DEF up, down
<1>8. /\ raised \in Screens(cols, rows) /\ lowered \in Screens(cols, rows)
  BY <1>5, Replaces
<1>9. /\ raised.lines = up /\ raised.cursor = g.cursor /\ raised.modes = g.modes
      /\ lowered.lines = down /\ lowered.cursor = g.cursor
  BY DEF Screens, GridSet
<1> HIDE DEF raised, lowered
<1>10. \A r \in (0 .. rows - 1) \ (top .. bottom) :
         /\ Advances(g.lines[r], raised.lines[r]) /\ Advances(g.lines[r], lowered.lines[r])
  BY <1>6, <1>9 DEF Advances
<1>11. /\ TouchRows(raised, top .. bottom) \in Follows(g, cols, rows)
       /\ TouchRows(raised, top .. bottom).cursor = raised.cursor
       /\ TouchRows(raised, top .. bottom).modes = raised.modes
  BY <1>8, <1>10, Stamps, StampKeeps
<1>12. /\ TouchRows(lowered, top .. bottom) \in Follows(g, cols, rows)
       /\ TouchRows(lowered, top .. bottom).cursor = lowered.cursor
  BY <1>8, <1>10, Stamps, StampKeeps
<1> QED  BY <1>7, <1>9, <1>11, <1>12

LEMMA ScrollsUp ==
  ASSUME NEW cols \in Sizing, NEW rows \in Sizing, NEW g \in Screens(cols, rows),
         NEW count \in Nat
  PROVE  /\ ScrollUp(g, count) \in Follows(g, cols, rows)
         /\ ScrollUp(g, count).cursor = g.cursor
         /\ ScrollUp(g, count).modes = g.modes
<1> DEFINE n == Least(count, Bottom(g) - Top(g) + 1)
           given == IF Top(g) = 0 THEN [i \in 1 .. n |-> g.lines[i - 1]] ELSE <<>>
           moved == RotatedUp(g, Top(g), Bottom(g), n)
<1>1. /\ Top(g) \in 0 .. rows - 1 /\ Bottom(g) \in 0 .. rows - 1 /\ Top(g) <= Bottom(g)
  BY Bounds
<1>2. n \in Nat /\ (Top(g) = 0 => n <= rows)
  BY <1>1 DEF Least, Sizing
<1>3. g.lines \in [0 .. rows - 1 -> RowOf(cols)]
  BY Fields
<1>4. ScrollUp(g, count) = [moved EXCEPT !.out = given]
  BY DEF ScrollUp
<1> HIDE DEF n
<1>5. given \in Seq(RowSet)
  <2>1. CASE Top(g) = 0
    <3>1. ASSUME NEW i \in 1 .. n PROVE g.lines[i - 1] \in RowSet
      <4>1. i - 1 \in 0 .. rows - 1
        BY <1>2, <2>1 DEF Sizing
      <4> QED  BY <1>3, <4>1 DEF RowOf
    <3>2. [i \in 1 .. n |-> g.lines[i - 1]] \in [1 .. n -> RowSet]
      BY <3>1
    <3>3. [i \in 1 .. n |-> g.lines[i - 1]] \in Seq(RowSet)
      BY <1>2, <3>2
    <3> QED  BY <2>1, <3>3
  <2>2. CASE Top(g) # 0
    BY <2>2, EmptySeq
  <2> QED  BY <2>1, <2>2
<1>6. /\ moved \in Follows(g, cols, rows)
      /\ moved.cursor = g.cursor /\ moved.modes = g.modes
  BY <1>1, <1>2, Rotates
<1> HIDE DEF given, moved
<1> QED  BY <1>4, <1>5, <1>6, Gives

LEMMA ScrollsDown ==
  ASSUME NEW cols \in Sizing, NEW rows \in Sizing, NEW g \in Screens(cols, rows),
         NEW count \in Nat
  PROVE  ScrollDown(g, count) \in Follows(g, cols, rows)
<1>1. /\ Top(g) \in 0 .. rows - 1 /\ Bottom(g) \in 0 .. rows - 1 /\ Top(g) <= Bottom(g)
  BY Bounds
<1>2. Least(count, Bottom(g) - Top(g) + 1) \in Nat
  BY <1>1 DEF Least
<1> QED  BY <1>1, <1>2, Rotates DEF ScrollDown

LEMMA EditsLines ==
  ASSUME NEW cols \in Sizing, NEW rows \in Sizing, NEW g \in Screens(cols, rows),
         NEW count \in Nat
  PROVE  /\ InsertLines(g, count) \in Follows(g, cols, rows)
         /\ DeleteLines(g, count) \in Follows(g, cols, rows)
<1>1. /\ g \in Follows(g, cols, rows)
      /\ g.cursor.row \in 0 .. rows - 1 /\ Bottom(g) \in 0 .. rows - 1
  BY Steady, Fields, Bounds
<1>2. CASE InLines(g)
  <2>1. LinesBelow(g, count) \in Nat
    <3>1. g.cursor.row <= Bottom(g)
      <4>1. Top(g) \in 0 .. rows - 1
        BY Bounds
      <4> QED  BY <1>1, <1>2, <4>1 DEF InLines
    <3> QED  BY <1>1, <3>1 DEF LinesBelow, Least
  <2> QED  BY <1>1, <1>2, <2>1, Rotates DEF InsertLines, DeleteLines
<1>3. CASE ~ InLines(g)
  BY <1>1, <1>3 DEF InsertLines, DeleteLines
<1> QED  BY <1>2, <1>3

LEMMA Linefeeds ==
  ASSUME NEW cols \in Sizing, NEW rows \in Sizing, NEW g \in Screens(cols, rows)
  PROVE  /\ Linefeed(g) \in Follows(g, cols, rows)
         /\ Linefeed(g).cursor.col \in {g.cursor.col, 0}
<1> DEFINE moved == IF g.cursor.row >= Bottom(g) THEN ScrollUp(g, 1)
                    ELSE [g EXCEPT !.cursor.row = g.cursor.row + 1]
<1>1. /\ g.cursor.row \in 0 .. rows - 1 /\ Bottom(g) \in 0 .. rows - 1
      /\ Top(g) \in 0 .. rows - 1
  BY Fields, Bounds
<1>2. moved \in Follows(g, cols, rows) /\ moved.cursor.col = g.cursor.col
  <2>1. CASE g.cursor.row >= Bottom(g)
    BY <2>1, ScrollsUp
  <2>2. CASE ~ g.cursor.row >= Bottom(g)
    <3> DEFINE row == g.cursor.row + 1
    <3>1. row \in 0 .. rows - 1
      BY <1>1, <2>2 DEF Sizing
    <3>2. Tied(g) => row \in Top(g) .. Bottom(g)
      <4>1. Tied(g) => g.cursor.row \in Top(g) .. Bottom(g)
        BY DEF Screens, Regioned
      <4> QED  BY <1>1, <2>2, <4>1
    <3> HIDE DEF row
    <3>3. [g EXCEPT !.cursor.row = row] \in Follows(g, cols, rows)
      BY <3>1, <3>2, MovesRow
    <3>4. [g EXCEPT !.cursor.row = row].cursor.col = g.cursor.col
      BY DEF Screens, GridSet, Places
    <3>5. moved = [g EXCEPT !.cursor.row = row]
      BY <2>2 DEF row
    <3> QED  BY <3>3, <3>4, <3>5
  <2> QED  BY <2>1, <2>2
<1>3. Linefeed(g) = IF Has(g, 20) THEN [moved EXCEPT !.cursor.col = 0] ELSE moved
  BY DEF Linefeed
<1> HIDE DEF moved
<1>4. moved \in Screens(cols, rows)
  BY <1>2 DEF Follows
<1>5. [moved EXCEPT !.cursor.col = 0] \in Follows(moved, cols, rows)
  BY <1>4, MovesCol DEF Sizing
<1>6. [moved EXCEPT !.cursor.col = 0].cursor.col = 0
  BY <1>4 DEF Screens, GridSet, Places
<1>7. [moved EXCEPT !.cursor.col = 0] \in Follows(g, cols, rows)
  BY <1>2, <1>5, Chains
<1> QED  BY <1>2, <1>3, <1>6, <1>7

LEMMA IndexesUp ==
  ASSUME NEW cols \in Sizing, NEW rows \in Sizing, NEW g \in Screens(cols, rows)
  PROVE  ReverseIndex(g) \in Follows(g, cols, rows)
<1>1. /\ g.cursor.row \in 0 .. rows - 1 /\ Bottom(g) \in 0 .. rows - 1
      /\ Top(g) \in 0 .. rows - 1
  BY Fields, Bounds
<1>2. CASE g.cursor.row <= Top(g)
  BY <1>2, ScrollsDown DEF ReverseIndex
<1>3. CASE ~ g.cursor.row <= Top(g)
  <2> DEFINE row == g.cursor.row - 1
  <2>1. row \in 0 .. rows - 1
    BY <1>1, <1>3 DEF Sizing
  <2>2. Tied(g) => row \in Top(g) .. Bottom(g)
    <3>1. Tied(g) => g.cursor.row \in Top(g) .. Bottom(g)
      BY DEF Screens, Regioned
    <3> QED  BY <1>1, <1>3, <3>1
  <2>3. ReverseIndex(g) = [g EXCEPT !.cursor.row = row]
    BY <1>3 DEF ReverseIndex
  <2> HIDE DEF row
  <2> QED  BY <2>1, <2>2, <2>3, MovesRow
<1> QED  BY <1>2, <1>3

\* Cells move within a row, which is not stamped yet.
LEMMA Shifts ==
  ASSUME NEW cols \in Sizing, NEW rows \in Sizing, NEW g \in Screens(cols, rows),
         NEW count \in Nat
  PROVE  /\ ShiftedRight(g, count) \in Screens(cols, rows)
         /\ ShiftedRight(g, count).cursor = g.cursor
         /\ \A s \in (0 .. rows - 1) \ {g.cursor.row} :
               ShiftedRight(g, count).lines[s] = g.lines[s]
<1> DEFINE col == g.cursor.col
           n == Least(count, cols - col)
           r == g.cursor.row
           ink == g.lines[r].ink
           shifted == {c \in ink : c < col}
                      \cup {c + n : c \in {k \in ink : k >= col /\ k + n < cols}}
<1>1. /\ g.cols = cols /\ r \in 0 .. rows - 1 /\ col \in 0 .. cols
      /\ g.lines \in [0 .. rows - 1 -> RowOf(cols)]
  BY Fields
<1>2. CASE col >= cols
  BY <1>1, <1>2 DEF ShiftedRight
<1>3. CASE ~ col >= cols
  <2>1. n \in Nat /\ ink \in SUBSET (0 .. cols - 1) /\ cols \in Nat
    BY <1>1, <1>3 DEF Least, RowOf, Sizing
  <2>2. ShiftedRight(g, count) = WithInk(g, r, shifted)
    BY <1>1, <1>3 DEF ShiftedRight, WithInk
  <2>3. shifted \in SUBSET (0 .. cols - 1)
    <3> HIDE DEF n, ink
    <3>1. ASSUME NEW c \in shifted PROVE c \in 0 .. cols - 1
      BY <1>1, <2>1
    <3> HIDE DEF shifted
    <3> QED  BY <3>1
  <2> HIDE DEF shifted, r
  <2> QED  BY <1>1, <2>2, <2>3, InksOne DEF r
<1> QED  BY <1>2, <1>3

LEMMA EditsChars ==
  ASSUME NEW cols \in Sizing, NEW rows \in Sizing, NEW g \in Screens(cols, rows),
         NEW count \in Nat
  PROVE  /\ InsertBlank(g, count) \in Follows(g, cols, rows)
         /\ DeleteChars(g, count) \in Follows(g, cols, rows)
<1>1. InsertBlank(g, count) \in Follows(g, cols, rows)
  <2> DEFINE h == ShiftedRight(g, count)
  <2>1. h \in Screens(cols, rows)
    BY Shifts
  <2>2. \A s \in (0 .. rows - 1) \ {g.cursor.row} : Advances(g.lines[s], h.lines[s])
    BY Shifts DEF Advances
  <2>3. InsertBlank(g, count) = TouchRows(h, {g.cursor.row})
    BY DEF InsertBlank
  <2> HIDE DEF h
  <2> QED  BY <2>1, <2>2, <2>3, Stamps
<1>2. DeleteChars(g, count) \in Follows(g, cols, rows)
  <2> DEFINE col == g.cursor.col
             n == Least(count, cols - col)
             r == g.cursor.row
             ink == g.lines[r].ink
             left == {c \in ink : c < col} \cup {c - n : c \in {k \in ink : k >= col + n}}
  <2>1. /\ g.cols = cols /\ r \in 0 .. rows - 1 /\ col \in 0 .. cols
        /\ g.lines \in [0 .. rows - 1 -> RowOf(cols)]
    BY Fields
  <2>2. n \in Nat /\ ink \in SUBSET (0 .. cols - 1) /\ cols \in Nat
    BY <2>1 DEF Least, RowOf, Sizing
  <2>3. DeleteChars(g, count) = Inked(g, r, left)
    BY <2>1 DEF DeleteChars
  <2>4. left \in SUBSET (0 .. cols - 1)
    <3> HIDE DEF n, ink
    <3>1. ASSUME NEW c \in left PROVE c \in 0 .. cols - 1
      BY <2>1, <2>2
    <3> QED  BY <3>1
  <2> HIDE DEF left, r
  <2> QED  BY <2>1, <2>3, <2>4, Inks
<1> QED  BY <1>1, <1>2

LEMMA Unwraps ==
  ASSUME NEW cols \in Sizing, NEW rows \in Sizing, NEW g \in Screens(cols, rows)
  PROVE  /\ Unwrapped(g) \in Follows(g, cols, rows)
         /\ Unwrapped(g).cursor.col \in 0 .. cols - 1
<1>1. /\ g.cols = cols /\ LastCol(g) = cols - 1 /\ g.cursor.col \in 0 .. cols
      /\ 0 \in 0 .. cols - 1 /\ cols - 1 \in 0 .. cols /\ cols \in Nat
  BY Fields DEF Sizing
<1>2. CASE g.cursor.col < g.cols
  <2>1. Unwrapped(g) = g
    BY <1>2 DEF Unwrapped
  <2> QED  BY <1>1, <1>2, <2>1, Steady
<1>3. CASE ~ g.cursor.col < g.cols /\ Has(g, 7)
  <2> DEFINE h == [g EXCEPT !.cursor.col = 0]
  <2>1. h \in Follows(g, cols, rows) /\ h.cursor.col = 0
    <3>1. h.cursor.col = 0
      BY DEF Screens, GridSet, Places
    <3> QED  BY <1>1, <3>1, MovesCol
  <2>2. Unwrapped(g) = Linefeed(h)
    BY <1>3 DEF Unwrapped
  <2> HIDE DEF h
  <2>3. h \in Screens(cols, rows)
    BY <2>1 DEF Follows
  <2>4. Linefeed(h) \in Follows(h, cols, rows) /\ Linefeed(h).cursor.col \in {h.cursor.col, 0}
    BY <2>3, Linefeeds
  <2>5. Linefeed(h) \in Follows(g, cols, rows)
    BY <2>1, <2>4, Chains
  <2> QED  BY <1>1, <2>1, <2>2, <2>4, <2>5
<1>4. CASE ~ g.cursor.col < g.cols /\ ~ Has(g, 7)
  <2>1. Unwrapped(g) = [g EXCEPT !.cursor.col = cols - 1]
    BY <1>1, <1>4 DEF Unwrapped
  <2>2. [g EXCEPT !.cursor.col = cols - 1].cursor.col = cols - 1
    BY DEF Screens, GridSet, Places
  <2>3. [g EXCEPT !.cursor.col = cols - 1] \in Follows(g, cols, rows)
    BY <1>1, MovesCol
  <2>4. cols - 1 \in 0 .. cols - 1
    BY <1>1
  <2> QED  BY <2>1, <2>2, <2>3, <2>4
<1> QED  BY <1>2, <1>3, <1>4

LEMMA Inputs ==
  ASSUME NEW cols \in Sizing, NEW rows \in Sizing, NEW g \in Screens(cols, rows)
  PROVE  Input(g) \in Follows(g, cols, rows)
<1> DEFINE u == Unwrapped(g)
           at == IF Has(g, 4) THEN ShiftedRight(u, 1) ELSE u
           r == at.cursor.row
           col == at.cursor.col
           inked == Inked(at, r, at.lines[r].ink \cup {col})
<1>1. /\ u \in Follows(g, cols, rows) /\ u \in Screens(cols, rows)
      /\ u.cursor.col \in 0 .. cols - 1
  BY Unwraps DEF Follows
<1> HIDE DEF u
<1>2. /\ at \in Screens(cols, rows) /\ at.cursor = u.cursor
      /\ \A s \in (0 .. rows - 1) \ {u.cursor.row} : at.lines[s] = u.lines[s]
  BY <1>1, Shifts
<1>3. Input(g) = [inked EXCEPT !.cursor.col = inked.cursor.col + 1]
  BY DEF Input, u
<1> HIDE DEF at
<1>4. /\ r \in 0 .. rows - 1 /\ at.lines \in [0 .. rows - 1 -> RowOf(cols)]
      /\ col \in 0 .. cols - 1
  BY <1>1, <1>2, Fields
<1>5. at.lines[r].ink \cup {col} \in SUBSET (0 .. cols - 1)
  BY <1>4 DEF RowOf
<1>6. /\ inked \in Follows(at, cols, rows) /\ inked.cursor = at.cursor
  BY <1>2, <1>4, <1>5, Inks
<1>7. inked \in Follows(u, cols, rows)
  <2> DEFINE ink == at.lines[r].ink \cup {col}
             h == WithInk(at, r, ink)
  <2>1. /\ h \in Screens(cols, rows)
        /\ \A s \in (0 .. rows - 1) \ {r} : h.lines[s] = at.lines[s]
    BY <1>2, <1>4, <1>5, InksOne
  <2>2. inked = TouchRows(h, {r})
    BY DEF Inked, WithInk
  <2> HIDE DEF h
  <2>3. \A s \in (0 .. rows - 1) \ {r} : Advances(u.lines[s], h.lines[s])
    BY <1>2, <2>1 DEF Advances
  <2> QED  BY <2>1, <2>2, <2>3, Stamps
<1>8. inked \in Follows(g, cols, rows) /\ inked \in Screens(cols, rows)
  <2>1. inked \in Follows(g, cols, rows)
    BY <1>1, <1>7, Chains
  <2> QED  BY <2>1 DEF Follows
<1>9. inked.cursor.col + 1 \in 0 .. cols
  BY <1>4, <1>6 DEF Sizing
<1> HIDE DEF inked
<1>10. [inked EXCEPT !.cursor.col = inked.cursor.col + 1] \in Follows(inked, cols, rows)
  BY <1>8, <1>9, MovesCol
<1> QED  BY <1>3, <1>8, <1>10, Chains
-----------------------------------------------------------------------------
\* The cursor.

LEMMA MovesTo ==
  ASSUME NEW cols \in Sizing, NEW rows \in Sizing, NEW g \in Screens(cols, rows),
         NEW row \in Nat, NEW col \in Nat
  PROVE  /\ GotoLine(g, row) \in Follows(g, cols, rows)
         /\ GotoCol(g, col) \in Follows(g, cols, rows)
<1>1. /\ LastRow(g) = rows - 1 /\ LastCol(g) = cols - 1
      /\ g.cursor.row \in 0 .. rows - 1 /\ Bottom(g) \in 0 .. rows - 1
      /\ Top(g) \in 0 .. rows - 1 /\ Top(g) <= Bottom(g)
      /\ cols \in Nat /\ cols # 0 /\ rows \in Nat /\ rows # 0
  BY Fields, Bounds DEF Sizing
<1>2. GotoLine(g, row) \in Follows(g, cols, rows)
  <2> DEFINE to == IF Has(g, 6) THEN Clamp(row + Top(g), Top(g), Bottom(g))
                   ELSE Least(row, LastRow(g))
  <2>1. to \in 0 .. rows - 1 /\ (Has(g, 6) => to \in Top(g) .. Bottom(g))
    BY <1>1 DEF Clamp, Least, Most
  <2>2. GotoLine(g, row) = [g EXCEPT !.cursor.row = to, !.strayed = FALSE]
    BY DEF GotoLine
  <2> HIDE DEF to
  <2> DEFINE place == [g.cursor EXCEPT !.row = to]
  <2>3. place \in Places(cols, rows) /\ place.row = to
    BY <2>1 DEF Screens, GridSet, Places
  <2>4. [g EXCEPT !.cursor.row = to, !.strayed = FALSE]
          = [g EXCEPT !.cursor = place, !.strayed = FALSE]
    BY DEF Screens, GridSet
  <2> HIDE DEF place
  <2>5. [g EXCEPT !.cursor = place, !.strayed = FALSE] \in Follows(g, cols, rows)
    BY <2>1, <2>3, PutsCursor
  <2> QED  BY <2>2, <2>4, <2>5
<1>3. GotoCol(g, col) \in Follows(g, cols, rows)
  <2> DEFINE to == Least(col, LastCol(g))
  <2>1. to \in 0 .. cols
    BY <1>1 DEF Least
  <2>2. GotoCol(g, col) = [g EXCEPT !.cursor.col = to]
    BY DEF GotoCol
  <2> HIDE DEF to
  <2> QED  BY <2>1, <2>2, MovesCol
<1> QED  BY <1>2, <1>3

LEMMA Goes ==
  ASSUME NEW cols \in Sizing, NEW rows \in Sizing, NEW g \in Screens(cols, rows),
         NEW row \in Nat, NEW col \in Nat
  PROVE  Goto(g, row, col) \in Follows(g, cols, rows)
<1>1. GotoLine(g, row) \in Follows(g, cols, rows)
  BY MovesTo
<1>2. GotoLine(g, row) \in Screens(cols, rows)
  BY <1>1 DEF Follows
<1>3. GotoCol(GotoLine(g, row), col) \in Follows(GotoLine(g, row), cols, rows)
  BY <1>2, MovesTo
<1> QED  BY <1>1, <1>3, Chains DEF Goto

LEMMA MovesBy ==
  ASSUME NEW cols \in Sizing, NEW rows \in Sizing, NEW g \in Screens(cols, rows),
         NEW count \in Nat
  PROVE  /\ MoveUp(g, count) \in Follows(g, cols, rows)
         /\ MoveDown(g, count) \in Follows(g, cols, rows)
         /\ MoveForward(g, count) \in Follows(g, cols, rows)
         /\ MoveBackward(g, count) \in Follows(g, cols, rows)
<1>1. /\ LastRow(g) = rows - 1 /\ g.cursor.col \in 0 .. cols
      /\ g.cursor.row \in 0 .. rows - 1 /\ Bottom(g) \in 0 .. rows - 1
      /\ Top(g) \in 0 .. rows - 1 /\ Top(g) <= Bottom(g)
      /\ cols \in Nat /\ rows \in Nat /\ rows # 0
  BY Fields, Bounds DEF Sizing
<1>2. Tied(g) => g.cursor.row \in Top(g) .. Bottom(g)
  BY DEF Screens, Regioned
<1>3. MoveUp(g, count) \in Follows(g, cols, rows)
  <2> DEFINE to == Most(Less(g.cursor.row, count), IF Has(g, 6) THEN Top(g) ELSE 0)
  <2>1. to \in 0 .. rows - 1 /\ (Tied(g) => to \in Top(g) .. Bottom(g))
    BY <1>1, <1>2 DEF Most, Less, Tied
  <2>2. MoveUp(g, count) = [g EXCEPT !.cursor.row = to]
    BY DEF MoveUp
  <2> HIDE DEF to
  <2> QED  BY <2>1, <2>2, MovesRow
<1>4. MoveDown(g, count) \in Follows(g, cols, rows)
  <2> DEFINE to == Least(g.cursor.row + count, IF Has(g, 6) THEN Bottom(g) ELSE LastRow(g))
  <2>1. to \in 0 .. rows - 1 /\ (Tied(g) => to \in Top(g) .. Bottom(g))
    BY <1>1, <1>2 DEF Least, Tied
  <2>2. MoveDown(g, count) = [g EXCEPT !.cursor.row = to]
    BY DEF MoveDown
  <2> HIDE DEF to
  <2> QED  BY <2>1, <2>2, MovesRow
<1>5. MoveForward(g, count) \in Follows(g, cols, rows)
  <2>1. g.cursor.col + count \in Nat
    BY <1>1
  <2> QED  BY <2>1, MovesTo DEF MoveForward
<1>6. MoveBackward(g, count) \in Follows(g, cols, rows)
  <2> DEFINE to == Less(g.cursor.col, count)
  <2>1. to \in 0 .. cols
    BY <1>1 DEF Less
  <2>2. MoveBackward(g, count) = [g EXCEPT !.cursor.col = to]
    BY DEF MoveBackward
  <2> HIDE DEF to
  <2> QED  BY <2>1, <2>2, MovesCol
<1> QED  BY <1>3, <1>4, <1>5, <1>6

LEMMA Returns ==
  ASSUME NEW cols \in Sizing, NEW rows \in Sizing, NEW g \in Screens(cols, rows)
  PROVE  CarriageReturn(g) \in Follows(g, cols, rows)
<1>1. 0 \in 0 .. cols
  BY DEF Sizing
<1> QED  BY <1>1, MovesCol DEF CarriageReturn

\* A move and a carriage return.
LEMMA MovesAndReturns ==
  ASSUME NEW cols \in Sizing, NEW rows \in Sizing, NEW g, NEW h \in Follows(g, cols, rows)
  PROVE  CarriageReturn(h) \in Follows(g, cols, rows)
<1>1. h \in Screens(cols, rows)
  BY DEF Follows
<1> QED  BY <1>1, Returns, Chains

\* A set of numbers that is not empty has a least one.
LEMMA LeastOf ==
  ASSUME NEW these \in SUBSET Nat, these # {}
  PROVE  \E n \in these : \A m \in these : n <= m
<1>1. PICK n \in these : \A m \in these : ~ (<<m, n>> \in OpToRel(<, Nat))
  <2>1. these \subseteq Nat /\ these # {}
    OBVIOUS
  <2> QED  BY <2>1, NatLessThanWellFounded, WFMin
<1>2. \A m \in these : ~ m < n
  <2>1. OpToRel(<, Nat) = {p \in Nat \X Nat : p[1] < p[2]}
    BY DEF OpToRel
  <2>2. \A m \in these : m < n => <<m, n>> \in {p \in Nat \X Nat : p[1] < p[2]}
    OBVIOUS
  <2> QED  BY <1>1, <2>1, <2>2
<1> QED  BY <1>2

LEMMA MostOf ==
  ASSUME NEW b \in Nat, NEW S \in SUBSET (0 .. b), S # {}
  PROVE  \E n \in S : \A m \in S : n >= m
<1> DEFINE T == {b - m : m \in S}
<1>1. T \in SUBSET Nat /\ T # {}
  <2>1. ASSUME NEW m \in S PROVE b - m \in Nat
    OBVIOUS
  <2>2. PICK m \in S : TRUE
    OBVIOUS
  <2>3. b - m \in T
    BY <2>2
  <2> QED  BY <2>1, <2>3
<1>2. PICK t \in T : \A u \in T : t <= u
  <2> HIDE DEF T
  <2> QED  BY <1>1, LeastOf
<1>3. PICK n \in S : t = b - n
  OBVIOUS
<1>4. ASSUME NEW m \in S PROVE n >= m
  <2>1. t <= b - m
    BY <1>2
  <2> QED  BY <1>3, <2>1
<1> QED  BY <1>4

LEMMA Tabbing ==
  ASSUME NEW cols \in Sizing, NEW rows \in Sizing, NEW g \in Screens(cols, rows)
  PROVE  /\ NextTab(g) \in Follows(g, cols, rows)
         /\ ForwardTab(g) \in Follows(g, cols, rows)
         /\ BackTab(g) \in Follows(g, cols, rows)
<1>1. /\ LastCol(g) = cols - 1 /\ g.stops \in SUBSET (0 .. cols - 1)
      /\ cols \in Nat /\ cols # 0
  BY Fields DEF Sizing
<1>2. NextTab(g) \in Follows(g, cols, rows)
  <2> DEFINE ahead == {c \in g.stops : c > g.cursor.col}
             first == CHOOSE c \in ahead : \A k \in ahead : c <= k
             to == IF ahead = {} THEN LastCol(g) ELSE first
  <2>1. ahead \in SUBSET (0 .. cols - 1) /\ ahead \in SUBSET Nat
    BY <1>1
  <2>2. NextTab(g) = [g EXCEPT !.cursor.col = to]
    BY DEF NextTab
  <2> HIDE DEF ahead
  <2>3. ahead # {} => first \in ahead
    BY <2>1, LeastOf
  <2> HIDE DEF first
  <2>4. to \in 0 .. cols
    <3>1. \A c \in 0 .. cols - 1 : c \in 0 .. cols
      BY <1>1
    <3>2. LastCol(g) \in 0 .. cols
      BY <1>1
    <3> QED  BY <2>1, <2>3, <3>1, <3>2
  <2> HIDE DEF to
  <2> QED  BY <2>2, <2>4, MovesCol
<1>3. ForwardTab(g) \in Follows(g, cols, rows)
  BY <1>2, Steady DEF ForwardTab
<1>4. BackTab(g) \in Follows(g, cols, rows)
  <2> DEFINE behind == {c \in g.stops : c < g.cursor.col}
             last == CHOOSE c \in behind : \A k \in behind : c >= k
             to == IF behind = {} THEN 0 ELSE last
  <2>1. behind \in SUBSET (0 .. cols - 1) /\ cols - 1 \in Nat
    BY <1>1
  <2>2. BackTab(g) = [g EXCEPT !.cursor.col = to]
    BY DEF BackTab
  <2> HIDE DEF behind
  <2>3. behind # {} => last \in behind
    BY <2>1, MostOf
  <2> HIDE DEF last
  <2>4. to \in 0 .. cols
    <3>1. \A c \in 0 .. cols - 1 : c \in 0 .. cols
      BY <1>1
    <3>2. 0 \in 0 .. cols
      BY <1>1
    <3> QED  BY <2>1, <2>3, <3>1, <3>2
  <2> HIDE DEF to
  <2> QED  BY <2>2, <2>4, MovesCol
<1> QED  BY <1>2, <1>3, <1>4

WithStops(g, stops) == [g EXCEPT !.stops = stops]

LEMMA SetsStops ==
  ASSUME NEW cols \in Sizing, NEW rows \in Sizing, NEW g \in Screens(cols, rows),
         NEW stops \in SUBSET (0 .. cols - 1)
  PROVE  WithStops(g, stops) \in Follows(g, cols, rows)
<1> DEFINE h == [g EXCEPT !.stops = stops]
<1>1. h \in GridSet(cols, rows)
  BY DEF Screens, GridSet
<1>2. /\ h.region = g.region /\ h.modes = g.modes /\ h.rows = g.rows
      /\ h.cursor = g.cursor /\ h.lines = g.lines /\ h.strayed = g.strayed /\ Regioned(g)
  BY DEF Screens, GridSet
<1>3. Regioned(h)
  BY <1>2 DEF Regioned, Tied, Top, Bottom, LastRow, Has
<1> QED  BY <1>1, <1>2, <1>3 DEF Screens, Follows, Advances, WithStops

LEMMA TabStopping ==
  ASSUME NEW cols \in Sizing, NEW rows \in Sizing, NEW g \in Screens(cols, rows), NEW mode
  PROVE  /\ SetTab(g) \in Follows(g, cols, rows)
         /\ ClearTabs(g, mode) \in Follows(g, cols, rows)
<1>1. /\ g.cols = cols /\ g.stops \in SUBSET (0 .. cols - 1) /\ g.cursor.col \in 0 .. cols
      /\ cols \in Nat /\ g \in Follows(g, cols, rows)
  BY Fields, Steady DEF Sizing
<1>2. SetTab(g) \in Follows(g, cols, rows)
  <2>1. CASE g.cursor.col < g.cols
    <3>1. g.stops \cup {g.cursor.col} \in SUBSET (0 .. cols - 1)
      BY <1>1, <2>1
    <3> QED  BY <2>1, <3>1, SetsStops DEF SetTab, WithStops
  <2>2. CASE ~ g.cursor.col < g.cols
    BY <1>1, <2>2 DEF SetTab
  <2> QED  BY <2>1, <2>2
<1>3. ClearTabs(g, mode) \in Follows(g, cols, rows)
  <2> DEFINE stops == IF mode = "All" THEN {} ELSE g.stops \ {g.cursor.col}
  <2>1. stops \in SUBSET (0 .. cols - 1)
    BY <1>1
  <2>2. ClearTabs(g, mode) = WithStops(g, stops)
    BY DEF ClearTabs, WithStops
  <2> HIDE DEF stops
  <2> QED  BY <2>1, <2>2, SetsStops
<1> QED  BY <1>2, <1>3

LEMMA Saves ==
  ASSUME NEW cols \in Sizing, NEW rows \in Sizing, NEW g \in Screens(cols, rows)
  PROVE  SaveCursor(g) \in Follows(g, cols, rows)
<1> DEFINE h == SaveCursor(g)
<1>1. h \in GridSet(cols, rows)
  <2>1. Has(g, 6) \in BOOLEAN
    BY DEF Has
  <2> QED  BY <2>1 DEF Screens, GridSet, SaveCursor
<1>2. /\ h.region = g.region /\ h.modes = g.modes /\ h.rows = g.rows
      /\ h.cursor = g.cursor /\ h.strayed = g.strayed /\ h.lines = g.lines /\ Regioned(g)
  BY DEF Screens, GridSet, SaveCursor
<1> HIDE DEF h
<1>3. Regioned(h)
  BY <1>2 DEF Regioned, Tied, Top, Bottom, LastRow, Has
<1> QED  BY <1>1, <1>2, <1>3 DEF Screens, Follows, Advances, h

ModeAt(g, mode, on, place, strayed) ==
    [WithMode(g, mode, on) EXCEPT !.cursor = place, !.strayed = strayed]

MayPut(g, mode, on, place, strayed) ==
    \/ strayed
    \/ place.row \in Top(g) .. Bottom(g)
    \/ mode = 6 /\ ~ on
    \/ mode # 6 /\ place = g.cursor /\ strayed = g.strayed

\* A mode set or reset, and the cursor moved with it: into the region, if it
\* is origin mode that is set, or it has strayed.
LEMMA SetsModes ==
  ASSUME NEW cols \in Sizing, NEW rows \in Sizing, NEW g \in Screens(cols, rows),
         NEW mode \in Nat, NEW on \in BOOLEAN, NEW place \in Places(cols, rows),
         NEW strayed \in BOOLEAN, MayPut(g, mode, on, place, strayed)
  PROVE  ModeAt(g, mode, on, place, strayed) \in Follows(g, cols, rows)
<1> DEFINE modes == IF on THEN g.modes \cup {mode} ELSE g.modes \ {mode}
           h == ModeAt(g, mode, on, place, strayed)
<1>1. modes \in SUBSET Nat
  <2>1. g.modes \in SUBSET Nat
    BY Fields
  <2> QED  BY <2>1
<1>2. h = [g EXCEPT !.modes = modes, !.cursor = place, !.strayed = strayed]
  BY DEF WithMode, ModeAt, Screens, GridSet
<1>3. 6 \in modes => \/ mode = 6 /\ on
                     \/ mode # 6 /\ Has(g, 6)
  BY DEF Has
<1> HIDE DEF modes, h
<1>4. h \in GridSet(cols, rows)
  BY <1>1, <1>2 DEF Screens, GridSet
<1>5. /\ h.region = g.region /\ h.modes = modes /\ h.rows = g.rows
      /\ h.cursor = place /\ h.strayed = strayed /\ h.lines = g.lines /\ Regioned(g)
  BY <1>2 DEF Screens, GridSet
<1>6. Top(h) = Top(g) /\ Bottom(h) = Bottom(g)
  BY <1>5 DEF Top, Bottom, LastRow
<1>7. Tied(h) => place.row \in Top(g) .. Bottom(g)
  <2> SUFFICES ASSUME 6 \in modes, ~ strayed
               PROVE  place.row \in Top(g) .. Bottom(g)
    BY <1>5 DEF Tied, Has
  <2>1. CASE mode = 6
    BY <1>3, <2>1 DEF MayPut
  <2>2. CASE mode # 6
    BY <1>3, <1>5, <2>2 DEF MayPut, Regioned, Tied
  <2> QED  BY <2>1, <2>2
<1>8. Regioned(h)
  BY <1>5, <1>6, <1>7 DEF Regioned
<1>9. h \in Follows(g, cols, rows)
  BY <1>4, <1>5, <1>8 DEF Screens, Follows, Advances
<1> QED  BY <1>9 DEF h

\* Modes other than origin mode.
LEMMA SetsMode ==
  ASSUME NEW cols \in Sizing, NEW rows \in Sizing, NEW g \in Screens(cols, rows),
         NEW mode \in Nat \ {6}, NEW on \in BOOLEAN
  PROVE  /\ WithMode(g, mode, on) \in Follows(g, cols, rows)
         /\ WithMode(g, mode, on).modes = IF on THEN g.modes \cup {mode} ELSE g.modes \ {mode}
<1>1. g.cursor \in Places(cols, rows) /\ g.strayed \in BOOLEAN
  BY DEF Screens, GridSet
<1>2. WithMode(g, mode, on) = ModeAt(g, mode, on, g.cursor, g.strayed)
  BY DEF WithMode, ModeAt, Screens, GridSet
<1>3. MayPut(g, mode, on, g.cursor, g.strayed)
  BY DEF MayPut
<1>4. ModeAt(g, mode, on, g.cursor, g.strayed) \in Follows(g, cols, rows)
  BY <1>1, <1>3, SetsModes
<1>5. WithMode(g, mode, on).modes = IF on THEN g.modes \cup {mode} ELSE g.modes \ {mode}
  BY DEF WithMode, Screens, GridSet
<1> QED  BY <1>2, <1>4, <1>5

\* A mode bit stored, origin mode's too.
LEMMA StoresMode ==
  ASSUME NEW cols \in Sizing, NEW rows \in Sizing, NEW g \in Screens(cols, rows),
         NEW mode \in Nat, NEW on \in BOOLEAN
  PROVE  SetMode(g, mode, on) \in Follows(g, cols, rows)
<1> DEFINE strayed == IF mode = 6 THEN on /\ ~ InRegion(g) ELSE g.strayed
<1>1. g.cursor \in Places(cols, rows) /\ g.strayed \in BOOLEAN
  BY DEF Screens, GridSet
<1>2. InRegion(g) \in BOOLEAN
  BY DEF InRegion
<1>3. strayed \in BOOLEAN
  BY <1>1, <1>2
<1>4. MayPut(g, mode, on, g.cursor, strayed)
  BY DEF MayPut, InRegion
<1>5. SetMode(g, mode, on) = ModeAt(g, mode, on, g.cursor, strayed)
  BY DEF SetMode, WithMode, ModeAt, Screens, GridSet
<1> HIDE DEF strayed
<1> QED  BY <1>1, <1>3, <1>4, <1>5, SetsModes

LEMMA Restores ==
  ASSUME NEW cols \in Sizing, NEW rows \in Sizing, NEW g \in Screens(cols, rows)
  PROVE  RestoreCursor(g) \in Follows(g, cols, rows)
<1> DEFINE row == Least(g.saved.row, LastRow(g))
           place == [row |-> IF g.savedOrigin THEN Clamp(row, Top(g), Bottom(g)) ELSE row,
                     col |-> Least(g.saved.col, LastCol(g))]
<1>1. /\ LastRow(g) = rows - 1 /\ LastCol(g) = cols - 1
      /\ g.saved.row \in 0 .. rows - 1 /\ g.saved.col \in 0 .. cols
      /\ Bottom(g) \in 0 .. rows - 1
      /\ Top(g) \in 0 .. rows - 1 /\ Top(g) <= Bottom(g) /\ g.savedOrigin \in BOOLEAN
      /\ cols \in Nat /\ cols # 0 /\ rows \in Nat /\ rows # 0
  BY Fields, Bounds DEF Sizing
<1>2. row \in 0 .. rows - 1
  BY <1>1 DEF Least
<1>3. Least(g.saved.col, LastCol(g)) \in 0 .. cols
  BY <1>1 DEF Least
<1>4. Clamp(row, Top(g), Bottom(g)) \in Top(g) .. Bottom(g)
  <2> HIDE DEF row
  <2> QED  BY <1>1, <1>2 DEF Clamp, Least, Most
<1>5. RestoreCursor(g) = ModeAt(g, 6, g.savedOrigin, place, FALSE)
  BY DEF RestoreCursor, ModeAt
<1> HIDE DEF row
<1>6. /\ place \in Places(cols, rows)
      /\ MayPut(g, 6, g.savedOrigin, place, FALSE)
  BY <1>1, <1>2, <1>3, <1>4 DEF Places, MayPut
<1> HIDE DEF place
<1> QED  BY <1>1, <1>5, <1>6, SetsModes

LEMMA SetsOrigin ==
  ASSUME NEW cols \in Sizing, NEW rows \in Sizing, NEW g \in Screens(cols, rows),
         NEW on \in BOOLEAN
  PROVE  SetOrigin(g, on) \in Follows(g, cols, rows)
<1> DEFINE place == [row |-> IF on THEN Top(g) ELSE 0, col |-> 0]
<1>1. /\ Bottom(g) \in 0 .. rows - 1
      /\ Top(g) \in 0 .. rows - 1 /\ Top(g) <= Bottom(g)
      /\ cols \in Nat /\ rows \in Nat /\ rows # 0
  BY Bounds DEF Sizing
<1>2. /\ place \in Places(cols, rows)
      /\ MayPut(g, 6, on, place, FALSE)
  BY <1>1 DEF Places, MayPut
<1>3. SetOrigin(g, on) = ModeAt(g, 6, on, place, FALSE)
  BY DEF SetOrigin, ModeAt
<1> HIDE DEF place
<1> QED  BY <1>2, <1>3, SetsModes

LEMMA SetsRegion ==
  ASSUME NEW cols \in Sizing, NEW rows \in Sizing, NEW g \in Screens(cols, rows),
         NEW top \in Nat, NEW bottom \in Nat
  PROVE  SetRegion(g, top, bottom) \in Follows(g, cols, rows)
<1> DEFINE t == Least(Less(top, 1), LastRow(g))
           b == Least(Less(bottom, 1), LastRow(g))
           region == IF t < b /\ (t > 0 \/ b < LastRow(g))
                     THEN [top |-> t, bottom |-> b] ELSE NoRegion
           bounded == [g EXCEPT !.region = region]
           place == [row |-> IF Has(g, 6) THEN Top(bounded) ELSE 0, col |-> 0]
           h == [bounded EXCEPT !.cursor = place, !.strayed = FALSE]
<1>1. /\ LastRow(g) = rows - 1 /\ g.rows = rows
      /\ cols \in Nat /\ cols # 0 /\ rows \in Nat /\ rows # 0
  BY Fields DEF Sizing
<1>2. t \in 0 .. rows - 1 /\ b \in 0 .. rows - 1
  BY <1>1 DEF Least, Less
<1>3. SetRegion(g, top, bottom) = h
  BY DEF SetRegion
<1> HIDE DEF t, b
<1>4. /\ region \in [top : 0 .. rows - 1, bottom : 0 .. rows - 1]
      /\ region = NoRegion \/ region.top < region.bottom
  BY <1>1, <1>2 DEF NoRegion
<1> HIDE DEF region
<1>5. /\ bounded \in GridSet(cols, rows)
      /\ bounded.region = region /\ bounded.modes = g.modes /\ bounded.rows = rows
      /\ bounded.lines = g.lines
  BY <1>1, <1>4 DEF Screens, GridSet
<1> HIDE DEF bounded
<1>6. /\ Top(bounded) \in 0 .. rows - 1 /\ Bottom(bounded) \in 0 .. rows - 1
      /\ Top(bounded) <= Bottom(bounded)
  BY <1>1, <1>4, <1>5 DEF Top, Bottom, LastRow
<1>7. /\ place \in Places(cols, rows)
      /\ Has(g, 6) => place.row \in Top(bounded) .. Bottom(bounded)
  BY <1>1, <1>6 DEF Places
<1> HIDE DEF place
<1>8. /\ h \in GridSet(cols, rows)
      /\ h.region = region /\ h.modes = g.modes /\ h.rows = rows
      /\ h.lines = g.lines /\ h.cursor = place
  BY <1>5, <1>7 DEF GridSet
<1> HIDE DEF h
<1>9. Top(h) = Top(bounded) /\ Bottom(h) = Bottom(bounded)
  BY <1>5, <1>8 DEF Top, Bottom, LastRow
<1>10. Regioned(h)
  BY <1>4, <1>7, <1>8, <1>9 DEF Regioned, Tied, Has
<1> QED  BY <1>3, <1>8, <1>10 DEF Screens, Follows, Advances
-----------------------------------------------------------------------------
\* Screens made anew.

LEMMA DefaultStopsFit ==
  ASSUME NEW cols \in Sizing
  PROVE  DefaultStops(cols) \in SUBSET (0 .. cols - 1)
BY DEF DefaultStops, Sizing

LEMMA New ==
  ASSUME NEW cols \in Sizing, NEW rows \in Sizing
  PROVE  /\ NewGrid(cols, rows) \in Screens(cols, rows)
         /\ NewGrid(cols, rows).out = <<>>
<1> DEFINE lines == [r \in 0 .. rows - 1 |-> BlankRow(cols)]
           g == NewGrid(cols, rows)
<1>1. lines \in [0 .. rows - 1 -> RowOf(cols)]
  BY BlankFits
<1>2. /\ Home \in Places(cols, rows)
      /\ NoRegion \in [top : 0 .. rows - 1, bottom : 0 .. rows - 1]
      /\ DefaultStops(cols) \in SUBSET (0 .. cols - 1)
      /\ <<>> \in Seq(RowSet)
  BY DefaultStopsFit, EmptySeq DEF Home, Places, NoRegion, Sizing
<1>3. g = [cols |-> cols, rows |-> rows, lines |-> lines,
           cursor |-> Home, saved |-> Home, savedOrigin |-> FALSE,
           modes |-> {7}, region |-> NoRegion, stops |-> DefaultStops(cols),
           strayed |-> FALSE, out |-> <<>>]
  BY DEF NewGrid
<1> HIDE DEF lines
<1>4. g \in GridSet(cols, rows) /\ g.out = <<>>
  BY <1>1, <1>2, <1>3 DEF GridSet
<1>5. g.region = NoRegion /\ g.modes = {7}
  BY <1>3
<1>6. Regioned(g)
  BY <1>5 DEF Regioned, Tied, Has
<1> QED  BY <1>4, <1>6 DEF Screens

LEMMA ResizesRow ==
  ASSUME NEW width \in Sizing, NEW cols \in Sizing, NEW row \in RowOf(width)
  PROVE  RowResized(row, cols) \in RowOf(cols)
<1> DEFINE ink == {c \in row.ink : c < cols}
           h == RowResized(row, cols)
<1>1. ink \in SUBSET (0 .. cols - 1) /\ ink \in SUBSET Nat /\ cols \in Nat
  BY DEF RowOf, RowSet, Sizing
<1>2. h = [row EXCEPT !.width = cols, !.ink = ink]
  BY DEF RowResized
<1> HIDE DEF ink, h
<1>3. h \in RowSet
  BY <1>1, <1>2 DEF RowOf, RowSet
<1>4. h.ink = ink /\ h.width = cols /\ h.mark = row.mark /\ h.meta = row.meta
  BY <1>2 DEF RowOf, RowSet
<1> QED  BY <1>1, <1>3, <1>4 DEF RowOf, h

LEMMA Resizes ==
  ASSUME NEW width \in Sizing, NEW height \in Sizing, NEW g \in Screens(width, height),
         NEW cols \in Sizing, NEW rows \in Sizing
  PROVE  Resize(g, cols, rows) \in Follows(g, cols, rows)
<1> DEFINE off == ScrolledOff(g, rows)
           line(r) == IF r + off < g.rows THEN g.lines[r + off] ELSE BlankRow(cols)
           lines == [r \in 0 .. rows - 1 |-> RowResized(line(r), cols)]
           given == [i \in 1 .. off |-> g.lines[i - 1]]
           cursor == Fitted(g.cursor, cols, rows)
           saved == Fitted(g.saved, cols, rows)
           sized == [g EXCEPT
             !.cols = cols, !.rows = rows, !.lines = lines, !.stops = DefaultStops(cols),
             !.cursor = cursor, !.saved = saved, !.region = NoRegion, !.strayed = FALSE,
             !.out = given]
<1>1. /\ g.rows = height /\ g.lines \in [0 .. height - 1 -> RowOf(width)]
      /\ g.cursor.row \in 0 .. height - 1 /\ g.cursor.col \in 0 .. width
      /\ g.saved.row \in 0 .. height - 1 /\ g.saved.col \in 0 .. width
      /\ height \in Nat /\ rows \in Nat /\ rows # 0 /\ cols \in Nat /\ cols # 0
      /\ width \in Nat
  BY Fields DEF Sizing
<1>2. off \in 0 .. height
  BY <1>1 DEF ScrolledOff, Less
<1>3. Resize(g, cols, rows) = TouchAll(sized)
  BY DEF Resize
<1>4. DefaultStops(cols) \in SUBSET (0 .. cols - 1) /\ BlankRow(cols) \in RowOf(cols)
  BY DefaultStopsFit, BlankFits
<1> HIDE DEF off
<1>5. ASSUME NEW r \in 0 .. rows - 1 PROVE RowResized(line(r), cols) \in RowOf(cols)
  <2>1. CASE r + off < height
    <3>1. r + off \in 0 .. height - 1
      BY <1>1, <1>2, <2>1
    <3>2. line(r) \in RowOf(width)
      BY <1>1, <2>1, <3>1
    <3> HIDE DEF line
    <3> QED  BY <3>2, ResizesRow
  <2>2. CASE ~ r + off < height
    <3>1. line(r) \in RowOf(cols)
      BY <1>1, <1>4, <2>2
    <3> HIDE DEF line
    <3> QED  BY <3>1, ResizesRow
  <2> QED  BY <2>1, <2>2
<1> HIDE DEF line
<1>6. lines \in [0 .. rows - 1 -> RowOf(cols)]
  BY <1>5
<1>7. given \in Seq(RowSet)
  <2>1. ASSUME NEW i \in 1 .. off PROVE g.lines[i - 1] \in RowSet
    <3>1. i - 1 \in 0 .. height - 1
      BY <1>1, <1>2
    <3> QED  BY <1>1, <3>1 DEF RowOf
  <2>2. given \in [1 .. off -> RowSet]
    BY <2>1
  <2>3. off \in Nat
    BY <1>2
  <2> HIDE DEF given
  <2> QED  BY <2>2, <2>3
<1>8. /\ cursor \in Places(cols, rows) /\ saved \in Places(cols, rows)
      /\ cursor.row \in 0 .. rows - 1
      /\ NoRegion \in [top : 0 .. rows - 1, bottom : 0 .. rows - 1]
  BY <1>1 DEF Fitted, Least, Places, NoRegion
<1> HIDE DEF lines, given, cursor, saved
<1>9. /\ sized \in GridSet(cols, rows)
      /\ sized.region = NoRegion /\ sized.rows = rows /\ sized.cursor = cursor
  BY <1>4, <1>6, <1>7, <1>8 DEF Screens, GridSet
<1> HIDE DEF sized
<1>10. Top(sized) = 0 /\ Bottom(sized) = rows - 1
  BY <1>9 DEF Top, Bottom, LastRow
<1>11. Regioned(sized)
  BY <1>8, <1>9, <1>10 DEF Regioned
<1>12. sized \in Screens(cols, rows)
  BY <1>9, <1>11 DEF Screens
<1> QED  BY <1>3, <1>12, StampsAll

LEMMA MarksRow ==
  ASSUME NEW cols \in Sizing, NEW row \in RowOf(cols), NEW mark \in Marks
  PROVE  Marked(row, mark) \in RowOf(cols)
<1>1. CASE mark = "CommandFinished"
  BY <1>1 DEF Marked, RowOf, RowSet
<1>2. CASE mark = "CommandFailed"
  BY <1>2 DEF Marked, RowOf, RowSet
<1>3. CASE mark = "WorkingDirectory"
  BY <1>3 DEF Marked, RowOf, RowSet
<1>4. CASE mark = "PromptStart"
  BY <1>4 DEF Marked, RowOf, RowSet
<1> QED  BY <1>1, <1>2, <1>3, <1>4 DEF Marks

WithMark(g, mark) ==
    LET r == g.cursor.row IN TouchRows([g EXCEPT !.lines[r] = Marked(@, mark)], {r})

LEMMA SetsMark ==
  ASSUME NEW cols \in Sizing, NEW rows \in Sizing, NEW g \in Screens(cols, rows),
         NEW mark \in Marks
  PROVE  WithMark(g, mark) \in Follows(g, cols, rows)
<1> DEFINE r == g.cursor.row
           row == Marked(g.lines[r], mark)
           lines == [g.lines EXCEPT ![r] = row]
           h == [g EXCEPT !.lines = lines]
<1>1. r \in 0 .. rows - 1 /\ g.lines \in [0 .. rows - 1 -> RowOf(cols)]
  BY Fields
<1>2. row \in RowOf(cols)
  BY <1>1, MarksRow
<1>3. WithMark(g, mark) = TouchRows(h, {r})
  BY DEF WithMark
<1> HIDE DEF row, r
<1>4. /\ lines \in [0 .. rows - 1 -> RowOf(cols)]
      /\ \A s \in (0 .. rows - 1) \ {r} : lines[s] = g.lines[s]
  BY <1>1, <1>2
<1> HIDE DEF lines
<1>5. h.lines = lines
  BY DEF Screens, GridSet
<1>6. h \in Screens(cols, rows)
  BY <1>4, Replaces
<1> HIDE DEF h
<1>7. \A s \in (0 .. rows - 1) \ {r} : Advances(g.lines[s], h.lines[s])
  BY <1>4, <1>5 DEF Advances
<1> QED  BY <1>3, <1>6, <1>7, Stamps
-----------------------------------------------------------------------------
\* The two screens.

\* Both screens have one size, and have given up what they had for the
\* scrollback; the alternate one is there while it is shown, and a mode says so.
ScreensInv ==
    /\ active \in {"Primary", "Alternate"} /\ saveAlt \in BOOLEAN /\ replaced \in BOOLEAN
    /\ \E cols, rows \in Sizing :
          /\ primary \in Screens(cols, rows) /\ primary.out = <<>>
          /\ alternate # NoGrid =>
               alternate \in Screens(cols, rows) /\ alternate.out = <<>>
    /\ active = "Alternate" =>
          alternate # NoGrid /\ \E m \in AltModes : m \in primary.modes

\* A row of the screen shown that this step changes is newer than what the
\* client has, and stays so.
RowsAdvance ==
    \A r \in RowsOf(ActiveGrid) \cap RowsOf(ActiveGrid') :
        Advances(ActiveGrid.lines[r], ActiveGrid'.lines[r])

SizedScreens(cols, rows) ==
    /\ primary \in Screens(cols, rows) /\ primary.out = <<>>
    /\ alternate # NoGrid => alternate \in Screens(cols, rows) /\ alternate.out = <<>>
    /\ ActiveGrid \in Screens(cols, rows)

LEMMA Sized ==
  ASSUME ScreensInv
  PROVE  \E cols, rows \in Sizing : SizedScreens(cols, rows)
BY DEF ScreensInv, ActiveGrid, SizedScreens

LEMMA RealGrids ==
  ASSUME NEW cols \in Sizing, NEW rows \in Sizing, NEW g \in Screens(cols, rows)
  PROVE  g # NoGrid
<1>1. g.rows = rows
  BY Fields
<1>2. NoGrid.rows = 0
  BY DEF NoGrid
<1> QED  BY <1>1, <1>2 DEF Sizing

LEMMA Cleared ==
  ASSUME NEW cols \in Sizing, NEW rows \in Sizing, NEW g, NEW h \in Follows(g, cols, rows)
  PROVE  /\ [h EXCEPT !.out = <<>>] \in Follows(g, cols, rows)
         /\ [h EXCEPT !.out = <<>>].out = <<>>
         /\ [h EXCEPT !.out = <<>>].lines = h.lines
<1>1. <<>> \in Seq(RowSet)
  BY EmptySeq
<1>2. [h EXCEPT !.out = <<>>] \in Follows(g, cols, rows)
  BY <1>1, Gives
<1> QED  BY <1>2 DEF Follows, Screens, GridSet

\* A screen in the place of the one shown.
LEMMA Puts ==
  ASSUME ScreensInv, NEW cols \in Sizing, NEW rows \in Sizing, SizedScreens(cols, rows),
         NEW h \in Screens(cols, rows), Put(h)
  PROVE  /\ ScreensInv'
         /\ h \in Follows(ActiveGrid, cols, rows) => RowsAdvance
<1> DEFINE k == [h EXCEPT !.out = <<>>]
<1>1. k \in Screens(cols, rows) /\ k.out = <<>> /\ k.lines = h.lines
  <2>1. h \in Follows(h, cols, rows)
    BY Steady
  <2>2. k \in Follows(h, cols, rows) /\ k.out = <<>> /\ k.lines = h.lines
    BY <2>1, Cleared
  <2> QED  BY <2>2 DEF Follows
<1>2. /\ active' = active /\ saveAlt' = saveAlt /\ replaced' = FALSE
      /\ active = "Primary" => primary' = k /\ alternate' = alternate
      /\ active # "Primary" => alternate' = k /\ primary' = primary
  BY DEF Put
<1> HIDE DEF k
<1>3. k # NoGrid
  BY <1>1, RealGrids
<1>4. ScreensInv'
  <2>1. CASE active = "Primary"
    BY <1>1, <1>2, <2>1 DEF ScreensInv, SizedScreens
  <2>2. CASE active = "Alternate"
    BY <1>1, <1>2, <1>3, <2>2 DEF ScreensInv, SizedScreens
  <2> QED  BY <2>1, <2>2 DEF ScreensInv
<1>5. ASSUME h \in Follows(ActiveGrid, cols, rows) PROVE RowsAdvance
  <2>1. ActiveGrid' = k
    BY <1>2 DEF ActiveGrid
  <2>2. RowsOf(k) = 0 .. rows - 1
    BY <1>1, Fields
  <2> QED  BY <1>1, <1>5, <2>1, <2>2 DEF RowsAdvance, Follows
<1> QED  BY <1>4, <1>5

\* The handlers that stay on one screen, but for sending an update.
OnScreen ==
    \/ PrintChar \/ LineFeed \/ Scroll \/ IndexUp
    \/ EditLines \/ EditChars \/ EraseLine \/ EraseScreen
    \/ AlignmentTest \/ SetColor
    \/ MoveTo \/ MoveBy \/ Return \/ Backspace \/ Tabs \/ TabStops
    \/ Save \/ Restore \/ Region \/ OriginMode \/ PlainMode
    \/ \E m \in Marks : ShellMark(m)

LEMMA OneScreen ==
  ASSUME NEW cols \in Sizing, NEW rows \in Sizing, ActiveGrid \in Screens(cols, rows),
         OnScreen
  PROVE  \E h \in Follows(ActiveGrid, cols, rows) : Put(h)
<1> USE CountsAssumption
<1>1. CASE PrintChar
  BY <1>1, Inputs DEF PrintChar
<1>2. CASE LineFeed
  BY <1>2, Linefeeds DEF LineFeed
<1>3. CASE Scroll
  BY <1>3, ScrollsUp, ScrollsDown DEF Scroll, PutOneOf
<1>4. CASE IndexUp
  BY <1>4, IndexesUp DEF IndexUp
<1>5. CASE EditLines
  BY <1>5, EditsLines DEF EditLines, PutOneOf
<1>6. CASE EditChars
  BY <1>6, EditsChars, ErasesChars DEF EditChars, PutOneOf
<1>7. CASE EraseLine
  BY <1>7, ClearsLine DEF EraseLine
<1>8. CASE EraseScreen
  BY <1>8, ClearsScreen DEF EraseScreen
<1>9. CASE AlignmentTest \/ SetColor
  BY <1>9, Aligns, Recolors DEF AlignmentTest, SetColor
<1>10. CASE MoveTo
  BY <1>10, Goes DEF MoveTo
<1>11. CASE MoveBy
  <2>1. PICK n \in Counts :
               \E h \in {MoveUp(ActiveGrid, n), MoveDown(ActiveGrid, n),
                         CarriageReturn(MoveUp(ActiveGrid, n)),
                         CarriageReturn(MoveDown(ActiveGrid, n)),
                         GotoLine(ActiveGrid, n), GotoCol(ActiveGrid, n),
                         MoveForward(ActiveGrid, n), MoveBackward(ActiveGrid, n)} : Put(h)
    BY <1>11 DEF MoveBy, PutOneOf
  <2>2. /\ MoveUp(ActiveGrid, n) \in Follows(ActiveGrid, cols, rows)
        /\ MoveDown(ActiveGrid, n) \in Follows(ActiveGrid, cols, rows)
        /\ MoveForward(ActiveGrid, n) \in Follows(ActiveGrid, cols, rows)
        /\ MoveBackward(ActiveGrid, n) \in Follows(ActiveGrid, cols, rows)
    BY MovesBy
  <2>3. /\ GotoLine(ActiveGrid, n) \in Follows(ActiveGrid, cols, rows)
        /\ GotoCol(ActiveGrid, n) \in Follows(ActiveGrid, cols, rows)
    BY MovesTo
  <2>4. /\ CarriageReturn(MoveUp(ActiveGrid, n)) \in Follows(ActiveGrid, cols, rows)
        /\ CarriageReturn(MoveDown(ActiveGrid, n)) \in Follows(ActiveGrid, cols, rows)
    BY <2>2, MovesAndReturns
  <2> QED  BY <2>1, <2>2, <2>3, <2>4
<1>12. CASE Return
  BY <1>12, Returns DEF Return
<1>13. CASE Backspace
  BY <1>13, MovesBy DEF Backspace
<1>14. CASE Tabs
  BY <1>14, Tabbing DEF Tabs, PutOneOf
<1>15. CASE TabStops
  BY <1>15, TabStopping DEF TabStops, PutOneOf
<1>16. CASE Save \/ Restore
  BY <1>16, Saves, Restores DEF Save, Restore
<1>17. CASE Region
  BY <1>17, SetsRegion DEF Region
<1>18. CASE OriginMode
  BY <1>18, SetsOrigin DEF OriginMode
<1>19. CASE PlainMode
  <2>1. PICK m \in ModesRead, on \in BOOLEAN : Put(SetMode(ActiveGrid, m, on))
    BY <1>19 DEF PlainMode
  <2>2. m \in Nat
    BY <2>1 DEF ModesRead, AltModes
  <2>3. SetMode(ActiveGrid, m, on) \in Follows(ActiveGrid, cols, rows)
    BY <2>2, StoresMode
  <2> QED  BY <2>1, <2>3
<1>20. CASE \E m \in Marks : ShellMark(m)
  BY <1>20, SetsMark DEF ShellMark, WithMark
<1> QED  BY <1>1, <1>2, <1>3, <1>4, <1>5, <1>6, <1>7, <1>8, <1>9, <1>10, <1>11, <1>12,
            <1>13, <1>14, <1>15, <1>16, <1>17, <1>18, <1>19, <1>20 DEF OnScreen

LEMMA SendsUpdate ==
  ASSUME ScreensInv, SendUpdate
  PROVE  ScreensInv'
<1> DEFINE g == ActiveGrid
           lines == [r \in RowsOf(g) |-> [g.lines[r] EXCEPT !.fresh = FALSE]]
           h == [g EXCEPT !.lines = lines]
<1>1. PICK cols \in Sizing, rows \in Sizing : SizedScreens(cols, rows)
  BY Sized
<1>2. Put(h)
  BY DEF SendUpdate
<1>3. g \in Screens(cols, rows)
  BY <1>1 DEF SizedScreens
<1> HIDE DEF g
<1>4. RowsOf(g) = 0 .. rows - 1 /\ g.lines \in [0 .. rows - 1 -> RowOf(cols)]
  BY <1>3, Fields
<1>5. ASSUME NEW r \in 0 .. rows - 1
      PROVE  [g.lines[r] EXCEPT !.fresh = FALSE] \in RowOf(cols)
  BY <1>4 DEF RowOf, RowSet
<1>6. lines \in [0 .. rows - 1 -> RowOf(cols)]
  BY <1>4, <1>5
<1> HIDE DEF lines
<1>7. h \in Screens(cols, rows)
  BY <1>3, <1>6, Replaces
<1> QED  BY <1>1, <1>2, <1>7, Puts

LEMMA AllocatesAlternate ==
  ASSUME NEW cols \in Sizing, NEW rows \in Sizing, SizedScreens(cols, rows)
  PROVE  Allocated \in Screens(cols, rows) /\ Allocated.out = <<>>
<1>1. primary.cols = cols /\ primary.rows = rows
  BY Fields DEF SizedScreens
<1>2. CASE alternate = NoGrid
  BY <1>1, <1>2, New DEF Allocated
<1>3. CASE alternate # NoGrid
  BY <1>3 DEF Allocated, SizedScreens
<1> QED  BY <1>2, <1>3

\* No handler but a scroll gives rows to the scrollback.
LEMMA GivesNothing ==
  ASSUME NEW cols \in Sizing, NEW rows \in Sizing, NEW g \in Screens(cols, rows),
         g.out = <<>>, NEW touched, NEW mode \in Nat, NEW on \in BOOLEAN
  PROVE  /\ TouchRows(g, touched).out = <<>>
         /\ TouchAll(g).out = <<>>
         /\ WithMode(g, mode, on).out = <<>>
         /\ SaveCursor(g).out = <<>>
         /\ RestoreCursor(g).out = <<>>
         /\ ClearGrid(g).out = <<>>
<1>1. /\ TouchRows(g, touched).out = <<>>
      /\ TouchAll(g).out = <<>>
  BY DEF Screens, GridSet, TouchRows, TouchAll
<1>2. /\ WithMode(g, mode, on).out = <<>>
      /\ SaveCursor(g).out = <<>>
      /\ RestoreCursor(g).out = <<>>
  BY DEF Screens, GridSet, WithMode, SaveCursor, RestoreCursor
<1>3. ClearGrid(g).out = <<>>
  <2> DEFINE gone == RowsOf(g)
             lines == [r \in RowsOf(g) |->
                         IF r \in gone THEN BlankRow(g.cols) ELSE g.lines[r]]
             h == [g EXCEPT !.lines = lines]
  <2>1. ClearGrid(g) = TouchAll(h)
    BY DEF ClearGrid, ClearScreen
  <2> HIDE DEF lines
  <2>2. h.out = <<>>
    BY DEF Screens, GridSet
  <2>3. TouchAll(h).out = h.out
    BY DEF Screens, GridSet, TouchAll, TouchRows
  <2> QED  BY <2>1, <2>2, <2>3
<1> QED  BY <1>1, <1>2, <1>3

\* A mode bit set or cleared.
LEMMA TurnsMode ==
  ASSUME NEW cols \in Sizing, NEW rows \in Sizing, NEW g \in Screens(cols, rows),
         g.out = <<>>, NEW mode \in Nat \ {6}
  PROVE  /\ WithMode(g, mode, TRUE) \in Follows(g, cols, rows)
         /\ WithMode(g, mode, TRUE) \in Screens(cols, rows)
         /\ WithMode(g, mode, TRUE).out = <<>>
         /\ mode \in WithMode(g, mode, TRUE).modes
         /\ WithMode(g, mode, FALSE) \in Follows(g, cols, rows)
         /\ WithMode(g, mode, FALSE) \in Screens(cols, rows)
         /\ WithMode(g, mode, FALSE).out = <<>>
<1>1. \A on \in BOOLEAN : WithMode(g, mode, on) \in Follows(g, cols, rows)
  BY SetsMode
<1>2. \A on \in BOOLEAN : WithMode(g, mode, on).out = <<>>
  BY DEF WithMode, Screens, GridSet
<1>3. mode \in WithMode(g, mode, TRUE).modes
  BY DEF WithMode, Screens, GridSet
<1>4. /\ WithMode(g, mode, TRUE) \in Follows(g, cols, rows)
      /\ WithMode(g, mode, FALSE) \in Follows(g, cols, rows)
  BY <1>1
<1>5. /\ WithMode(g, mode, TRUE).out = <<>>
      /\ WithMode(g, mode, FALSE).out = <<>>
  BY <1>2
<1> QED  BY <1>3, <1>4, <1>5 DEF Follows

\* The screen that is left for the alternate one, or stays it.
LeftFor(g, mode) == WithMode(IF mode = 1049 THEN SaveCursor(g) ELSE g, mode, TRUE)

LEMMA Leaves ==
  ASSUME NEW cols \in Sizing, NEW rows \in Sizing, NEW g \in Screens(cols, rows),
         g.out = <<>>, NEW mode \in AltModes
  PROVE  /\ LeftFor(g, mode) \in Follows(g, cols, rows)
         /\ LeftFor(g, mode) \in Screens(cols, rows)
         /\ LeftFor(g, mode).out = <<>> /\ mode \in LeftFor(g, mode).modes
<1> DEFINE h == IF mode = 1049 THEN SaveCursor(g) ELSE g
           left == WithMode(h, mode, TRUE)
<1>1. h \in Follows(g, cols, rows) /\ h.out = <<>>
  <2>1. /\ g \in Follows(g, cols, rows) /\ SaveCursor(g) \in Follows(g, cols, rows)
        /\ SaveCursor(g).out = <<>>
    BY Steady, Saves, GivesNothing
  <2> QED  BY <2>1
<1> HIDE DEF h
<1>2. h \in Screens(cols, rows)
  BY <1>1 DEF Follows
<1>3. mode \in Nat \ {6}
  BY DEF AltModes
<1>4. /\ left \in Follows(h, cols, rows) /\ left.out = <<>> /\ mode \in left.modes
  BY <1>1, <1>2, <1>3, TurnsMode
<1>5. left \in Follows(g, cols, rows)
  BY <1>1, <1>4, Chains
<1>6. left \in Screens(cols, rows)
  BY <1>5 DEF Follows
<1> QED  BY <1>4, <1>5, <1>6 DEF h, LeftFor

LEMMA Enters ==
  ASSUME ScreensInv, NEW mode \in AltModes, EnterAlternate(mode)
  PROVE  /\ ScreensInv'
         /\ ~ replaced' /\ active' = active => RowsAdvance
<1> DEFINE left == LeftFor(ActiveGrid, mode)
           entered == IF active = "Alternate" THEN left ELSE Allocated
           shown == IF mode = 47 THEN TouchAll(entered) ELSE ClearGrid(entered)
<1>1. PICK cols \in Sizing, rows \in Sizing : SizedScreens(cols, rows)
  BY Sized
<1>2. /\ active' = "Alternate" /\ saveAlt' = saveAlt /\ replaced' = (active = "Primary")
      /\ primary' = IF active = "Primary" THEN left ELSE primary
      /\ alternate' = shown
  BY DEF EnterAlternate, LeftFor
<1>3. ActiveGrid \in Screens(cols, rows) /\ ActiveGrid.out = <<>>
  BY <1>1 DEF SizedScreens, ActiveGrid, ScreensInv
<1>4. /\ left \in Follows(ActiveGrid, cols, rows) /\ left \in Screens(cols, rows)
      /\ left.out = <<>> /\ mode \in left.modes
  BY <1>3, Leaves
<1> HIDE DEF left
<1>5. entered \in Screens(cols, rows) /\ entered.out = <<>>
  BY <1>1, <1>4, AllocatesAlternate
<1>6. active = "Alternate" => entered \in Follows(ActiveGrid, cols, rows)
  BY <1>4
<1> HIDE DEF entered
<1>7. /\ shown \in Follows(entered, cols, rows) /\ shown \in Screens(cols, rows)
      /\ shown.out = <<>>
  <2>1. /\ TouchAll(entered) \in Follows(entered, cols, rows)
        /\ ClearGrid(entered) \in Follows(entered, cols, rows)
        /\ TouchAll(entered).out = <<>> /\ ClearGrid(entered).out = <<>>
    BY <1>5, Stamped, ClearsGrid, GivesNothing
  <2> QED  BY <2>1 DEF Follows
<1>8. active = "Alternate" => shown \in Follows(ActiveGrid, cols, rows)
  BY <1>6, <1>7, Chains
<1> HIDE DEF shown
<1>9. shown # NoGrid
  BY <1>7, RealGrids
<1>10. ScreensInv'
  <2>1. /\ primary' \in Screens(cols, rows) /\ primary'.out = <<>>
        /\ \E m \in AltModes : m \in primary'.modes
    BY <1>1, <1>2, <1>4 DEF SizedScreens, ScreensInv
  <2> QED  BY <1>2, <1>7, <1>9, <2>1 DEF ScreensInv
<1>11. ASSUME ~ replaced' /\ active' = active PROVE RowsAdvance
  <2>1. active = "Alternate" /\ ActiveGrid' = shown
    BY <1>2, <1>11 DEF ActiveGrid
  <2>2. RowsOf(shown) = 0 .. rows - 1
    BY <1>7, Fields
  <2> QED  BY <1>8, <2>1, <2>2 DEF RowsAdvance, Follows
<1> QED  BY <1>10, <1>11

\* Back to the primary screen, which is not replaced if it was shown.
LEMMA ShowsPrimary ==
  ASSUME ScreensInv, NEW cols \in Sizing, NEW rows \in Sizing, SizedScreens(cols, rows),
         active' = "Primary", saveAlt' = saveAlt, replaced' \in BOOLEAN,
         primary' \in Screens(cols, rows), primary'.out = <<>>,
         alternate' # NoGrid => alternate' \in Screens(cols, rows) /\ alternate'.out = <<>>,
         active = "Primary" => replaced' \/ primary' \in Follows(primary, cols, rows)
  PROVE  /\ ScreensInv'
         /\ ~ replaced' /\ active' = active => RowsAdvance
<1>1. ScreensInv'
  BY DEF ScreensInv
<1>2. ASSUME ~ replaced' /\ active' = active PROVE RowsAdvance
  <2>1. ActiveGrid = primary /\ ActiveGrid' = primary'
    BY <1>2 DEF ActiveGrid
  <2>2. RowsOf(primary') = 0 .. rows - 1
    BY Fields
  <2>3. primary' \in Follows(primary, cols, rows)
    BY <1>2
  <2> QED  BY <2>1, <2>2, <2>3 DEF RowsAdvance, Follows
<1> QED  BY <1>1, <1>2

LEMMA Backs ==
  ASSUME ScreensInv, NEW mode \in AltModes, LeaveAlternate(mode)
  PROVE  /\ ScreensInv'
         /\ ~ replaced' /\ active' = active => RowsAdvance
<1> DEFINE back == WithMode(primary, mode, FALSE)
           to == IF mode = 1049 THEN RestoreCursor(back) ELSE back
<1>1. PICK cols \in Sizing, rows \in Sizing : SizedScreens(cols, rows)
  BY Sized
<1>2. /\ active' = "Primary" /\ saveAlt' = saveAlt /\ replaced' \in BOOLEAN
      /\ primary' = TouchAll(to) /\ alternate' = alternate
  BY DEF LeaveAlternate
<1>3. primary \in Screens(cols, rows) /\ primary.out = <<>> /\ mode \in Nat \ {6}
  BY <1>1 DEF SizedScreens, AltModes
<1>4. back \in Screens(cols, rows) /\ back.out = <<>>
  BY <1>3, TurnsMode
<1> HIDE DEF back
<1>5. to \in Screens(cols, rows) /\ to.out = <<>>
  <2>1. RestoreCursor(back) \in Screens(cols, rows) /\ RestoreCursor(back).out = <<>>
    BY <1>4, Restores, GivesNothing DEF Follows
  <2> QED  BY <1>4, <2>1
<1> HIDE DEF to
<1>6. /\ TouchAll(to) \in Follows(primary, cols, rows)
      /\ TouchAll(to) \in Screens(cols, rows) /\ TouchAll(to).out = <<>>
  BY <1>5, StampsAll, GivesNothing DEF Follows
<1>7. alternate # NoGrid => alternate \in Screens(cols, rows) /\ alternate.out = <<>>
  BY <1>1 DEF SizedScreens
<1> QED  BY <1>1, <1>2, <1>6, <1>7, ShowsPrimary

LEMMA BacksAndClears ==
  ASSUME ScreensInv, LeaveAlternateClear
  PROVE  /\ ScreensInv'
         /\ ~ replaced' /\ active' = active => RowsAdvance
<1> DEFINE cleared == ClearGrid(ActiveGrid)
           off == 1047
<1>0. off \in Nat \ {6}
  OBVIOUS
<1>1. PICK cols \in Sizing, rows \in Sizing : SizedScreens(cols, rows)
  BY Sized
<1>2. /\ active' = "Primary" /\ saveAlt' = saveAlt /\ replaced' \in BOOLEAN
      /\ active = "Alternate" => alternate' = cleared /\ primary' = WithMode(primary, off, FALSE)
      /\ active # "Alternate" => alternate' = alternate
                                 /\ primary' = WithMode(cleared, off, FALSE)
  <2>1. active' = "Primary" /\ saveAlt' = saveAlt /\ replaced' \in BOOLEAN
    BY DEF LeaveAlternateClear
  <2>2. active = "Alternate" => alternate' = cleared /\ primary' = WithMode(primary, off, FALSE)
    BY DEF LeaveAlternateClear
  <2>3. active # "Alternate" => alternate' = alternate
                                /\ primary' = WithMode(cleared, off, FALSE)
    BY DEF LeaveAlternateClear
  <2> HIDE DEF cleared, off
  <2> QED  BY <2>1, <2>2, <2>3
<1>3. /\ ActiveGrid \in Screens(cols, rows) /\ ActiveGrid.out = <<>>
      /\ primary \in Screens(cols, rows) /\ primary.out = <<>>
      /\ alternate # NoGrid => alternate \in Screens(cols, rows) /\ alternate.out = <<>>
      /\ active = "Primary" => ActiveGrid = primary
      /\ active \in {"Primary", "Alternate"}
  BY <1>1 DEF SizedScreens, ActiveGrid, ScreensInv
<1>4. /\ cleared \in Follows(ActiveGrid, cols, rows) /\ cleared \in Screens(cols, rows)
      /\ cleared.out = <<>>
  BY <1>3, ClearsGrid, GivesNothing DEF Follows
<1> HIDE DEF cleared
<1> HIDE DEF off
<1>5. /\ WithMode(primary, off, FALSE) \in Screens(cols, rows)
      /\ WithMode(primary, off, FALSE).out = <<>>
  BY <1>0, <1>3, TurnsMode
<1>6. /\ WithMode(cleared, off, FALSE) \in Follows(cleared, cols, rows)
      /\ WithMode(cleared, off, FALSE).out = <<>>
  BY <1>0, <1>4, TurnsMode
<1>7. /\ WithMode(cleared, off, FALSE) \in Follows(ActiveGrid, cols, rows)
      /\ WithMode(cleared, off, FALSE) \in Screens(cols, rows)
  <2>1. WithMode(cleared, off, FALSE) \in Follows(ActiveGrid, cols, rows)
    BY <1>4, <1>6, Chains
  <2> QED  BY <2>1 DEF Follows
<1>8. CASE active = "Alternate"
  BY <1>1, <1>2, <1>4, <1>5, <1>8, ShowsPrimary
<1>9. CASE active = "Primary"
  BY <1>1, <1>2, <1>3, <1>6, <1>7, <1>9, ShowsPrimary
<1> QED  BY <1>3, <1>8, <1>9

LEMMA ResetsAll ==
  ASSUME ScreensInv, Reset
  PROVE  /\ ScreensInv'
         /\ ~ replaced' /\ active' = active => RowsAdvance
<1>1. PICK cols \in Sizing, rows \in Sizing : SizedScreens(cols, rows)
  BY Sized
<1>2. primary.cols = cols /\ primary.rows = rows
  BY <1>1, Fields DEF SizedScreens
<1>3. /\ active' = "Primary" /\ saveAlt' = saveAlt /\ replaced' = TRUE
      /\ primary' = NewGrid(cols, rows) /\ alternate' = NoGrid
  BY <1>2 DEF Reset
<1>4. NewGrid(cols, rows) \in Screens(cols, rows) /\ NewGrid(cols, rows).out = <<>>
  BY New
<1> QED  BY <1>1, <1>3, <1>4, ShowsPrimary

LEMMA ResizesAll ==
  ASSUME ScreensInv, NEW size \in Sizes, ResizeAll(size)
  PROVE  /\ ScreensInv'
         /\ ~ replaced' /\ active' = active => RowsAdvance
<1> DEFINE p == Resize(primary, size[1], size[2])
           q == Resize(alternate, size[1], size[2])
           a == IF alternate = NoGrid THEN NoGrid ELSE q
           first == [p EXCEPT !.out = <<>>]
           second == [q EXCEPT !.out = <<>>]
<1>1. PICK width \in Sizing, height \in Sizing : SizedScreens(width, height)
  BY Sized
<1>2. PICK cols \in Sizing, rows \in Sizing : cols = size[1] /\ rows = size[2]
  BY SizesAssumption DEF Sizes, Sizing
<1>3. /\ active' = active /\ saveAlt' = saveAlt /\ replaced' = FALSE
      /\ primary' = first
      /\ alternate' = IF a = NoGrid THEN NoGrid ELSE [a EXCEPT !.out = <<>>]
  BY DEF ResizeAll
<1>4. primary \in Screens(width, height)
  BY <1>1 DEF SizedScreens
<1>5. p \in Follows(primary, cols, rows)
  BY <1>2, <1>4, Resizes
<1>6. ASSUME alternate # NoGrid
      PROVE  /\ q \in Follows(alternate, cols, rows) /\ q \in Screens(cols, rows)
             /\ q # NoGrid
  <2>1. alternate \in Screens(width, height)
    BY <1>1, <1>6 DEF SizedScreens
  <2>2. q \in Follows(alternate, cols, rows)
    BY <1>2, <2>1, Resizes
  <2>3. q \in Screens(cols, rows)
    BY <2>2 DEF Follows
  <2> QED  BY <2>2, <2>3, RealGrids
<1> HIDE DEF p, q
<1>7. first \in Follows(primary, cols, rows) /\ first.out = <<>>
  BY <1>5, Cleared
<1>8. alternate # NoGrid => second \in Follows(alternate, cols, rows) /\ second.out = <<>>
  BY <1>6, Cleared
<1>9. /\ alternate = NoGrid => alternate' = NoGrid
      /\ alternate # NoGrid => alternate' = second
  BY <1>3, <1>6
<1> HIDE DEF first, second, a
<1>10. /\ primary' \in Screens(cols, rows) /\ primary'.out = <<>>
       /\ alternate' # NoGrid => alternate' \in Screens(cols, rows) /\ alternate'.out = <<>>
  BY <1>3, <1>7, <1>8, <1>9 DEF Follows
<1>11. ASSUME active = "Alternate"
       PROVE  /\ alternate' # NoGrid /\ alternate' = second /\ alternate # NoGrid
  <2>1. alternate # NoGrid
    BY <1>11 DEF ScreensInv
  <2>2. second # NoGrid
    BY <1>8, <2>1, RealGrids DEF Follows
  <2> QED  BY <1>9, <2>1, <2>2
<1>12. primary'.modes = primary.modes
  <2>1. p.modes = primary.modes /\ first.modes = p.modes
    BY <1>4, <1>5 DEF Screens, GridSet, Follows, Resize, TouchAll, TouchRows, p, first
  <2> QED  BY <1>3, <2>1
<1>13. ScreensInv'
  BY <1>3, <1>10, <1>11, <1>12 DEF ScreensInv
<1>14. RowsAdvance
  <2>1. ActiveGrid' \in Follows(ActiveGrid, cols, rows)
    <3>1. CASE active = "Primary"
      BY <1>3, <1>7, <3>1 DEF ActiveGrid
    <3>2. CASE active = "Alternate"
      BY <1>3, <1>8, <1>11, <3>2 DEF ActiveGrid
    <3> QED  BY <3>1, <3>2 DEF ScreensInv
  <2>2. RowsOf(ActiveGrid') = 0 .. rows - 1
    BY <2>1, Fields DEF Follows
  <2> QED  BY <2>1, <2>2 DEF RowsAdvance, Follows
<1> QED  BY <1>13, <1>14
-----------------------------------------------------------------------------
\* Every step.

LEMMA StepKinds ==
  ASSUME Next
  PROVE  \/ OnScreen \/ SendUpdate
         \/ \E m \in AltModes : EnterAlternate(m)
         \/ \E m \in AltModes : LeaveAlternate(m)
         \/ LeaveAlternateClear \/ Reset
         \/ \E s \in Sizes : ResizeAll(s)
BY DEF Next, OnScreen

LEMMA Steps ==
  ASSUME ScreensInv, Next
  PROVE  /\ ScreensInv'
         /\ SendUpdate \/ (~ replaced' /\ active' = active => RowsAdvance)
<1>1. CASE OnScreen
  <2>1. PICK cols \in Sizing, rows \in Sizing : SizedScreens(cols, rows)
    BY Sized
  <2>2. ActiveGrid \in Screens(cols, rows)
    BY <2>1 DEF SizedScreens
  <2>3. PICK h \in Follows(ActiveGrid, cols, rows) : Put(h)
    BY <1>1, <2>2, OneScreen
  <2>4. h \in Screens(cols, rows)
    BY DEF Follows
  <2> QED  BY <2>1, <2>3, <2>4, Puts
<1>2. CASE SendUpdate
  BY <1>2, SendsUpdate
<1>3. CASE \E m \in AltModes : EnterAlternate(m)
  BY <1>3, Enters
<1>4. CASE \E m \in AltModes : LeaveAlternate(m)
  BY <1>4, Backs
<1>5. CASE LeaveAlternateClear
  BY <1>5, BacksAndClears
<1>6. CASE Reset
  BY <1>6, ResetsAll
<1>7. CASE \E s \in Sizes : ResizeAll(s)
  BY <1>7, ResizesAll
<1> QED  BY <1>1, <1>2, <1>3, <1>4, <1>5, <1>6, <1>7, StepKinds

LEMMA Initially == Init => ScreensInv
<1> SUFFICES ASSUME Init PROVE ScreensInv
  OBVIOUS
<1>1. PICK s \in Sizes : primary = NewGrid(s[1], s[2])
  BY DEF Init
<1>2. PICK cols \in Sizing, rows \in Sizing : cols = s[1] /\ rows = s[2]
  BY SizesAssumption DEF Sizes, Sizing
<1>3. primary \in Screens(cols, rows) /\ primary.out = <<>>
  BY <1>1, <1>2, New
<1> QED  BY <1>3 DEF Init, ScreensInv

LEMMA Preserves == ScreensInv /\ [Next]_vars => ScreensInv'
<1> SUFFICES ASSUME ScreensInv, [Next]_vars PROVE ScreensInv'
  OBVIOUS
<1>1. CASE Next
  BY <1>1, Steps
<1>2. CASE UNCHANGED vars
  BY <1>2 DEF vars, ScreensInv
<1> QED  BY <1>1, <1>2

\* The invariant holds of every screen size, in whatever order a program sends
\* its sequences and the window is resized.
THEOREM ScreensInvariant == Spec => []ScreensInv
BY Initially, Preserves, PTL DEF Spec

\* A screen of the invariant is one a handler can index.
LEMMA Indexes ==
  ASSUME NEW cols \in Sizing, NEW rows \in Sizing, NEW g \in Screens(cols, rows),
         g.out = <<>>
  PROVE  InBounds(g) /\ CodesEndOutputs(g)
<1>1. /\ g.cols = cols /\ g.rows = rows /\ RowsOf(g) = 0 .. rows - 1
      /\ LastCol(g) = cols - 1
      /\ g.lines \in [0 .. rows - 1 -> RowOf(cols)]
      /\ g.cursor.row \in 0 .. rows - 1 /\ g.cursor.col \in 0 .. cols
      /\ g.saved.row \in 0 .. rows - 1 /\ g.saved.col \in 0 .. cols
      /\ g.stops \in SUBSET (0 .. cols - 1)
  BY Fields
<1>2. /\ g.region = NoRegion \/ g.region.top < g.region.bottom
      /\ g.region.bottom \in 0 .. rows - 1
  BY DEF Screens, GridSet, Regioned
<1>3. ASSUME NEW r \in 0 .. rows - 1
      PROVE  /\ g.lines[r].width = cols /\ g.lines[r].ink \subseteq 0 .. cols - 1
             /\ g.lines[r].meta = "ExitCode" => g.lines[r].mark = "OutputEnd"
  BY <1>1 DEF RowOf
<1>4. DOMAIN g.lines = 0 .. rows - 1
  BY <1>1
<1>5. CodesEndOutputs(g)
  BY <1>1, <1>3 DEF CodesEndOutputs
<1>6. InBounds(g)
  BY <1>1, <1>2, <1>3, <1>4 DEF InBounds
<1> QED  BY <1>5, <1>6

LEMMA TypesFromInvariant == ScreensInv => TypeOK
<1> SUFFICES ASSUME ScreensInv PROVE TypeOK
  OBVIOUS
<1>1. PICK cols \in Sizing, rows \in Sizing : SizedScreens(cols, rows)
  BY Sized
<1>2. /\ primary \in Screens(cols, rows) /\ primary.out = <<>>
      /\ alternate # NoGrid => alternate \in Screens(cols, rows) /\ alternate.out = <<>>
  BY <1>1 DEF SizedScreens
<1>3. InBounds(primary) /\ CodesEndOutputs(primary)
  BY <1>2, Indexes
<1>4. primary.cols = cols /\ primary.rows = rows
  BY <1>2, Fields
<1>5. ASSUME alternate # NoGrid
      PROVE  /\ InBounds(alternate) /\ CodesEndOutputs(alternate)
             /\ alternate.cols = cols /\ alternate.rows = rows
  <2>1. InBounds(alternate) /\ CodesEndOutputs(alternate)
    BY <1>2, <1>5, Indexes
  <2>2. alternate.cols = cols /\ alternate.rows = rows
    BY <1>2, <1>5, Fields
  <2> QED  BY <2>1, <2>2
<1> QED  BY <1>3, <1>4, <1>5 DEF TypeOK, ScreensInv

LEMMA ModesFromInvariant == ScreensInv => ModesHoldTrue
<1> SUFFICES ASSUME ScreensInv PROVE ModesHoldTrue
  OBVIOUS
<1> DEFINE g == ActiveGrid
<1>1. PICK cols \in Sizing, rows \in Sizing : SizedScreens(cols, rows)
  BY Sized
<1>2. active = "Alternate" => \E m \in AltModes : ReportPrivateMode(m)
  BY DEF ScreensInv, ReportPrivateMode, Has
<1>3. ReportPrivateMode(6) = Has(g, 6)
  BY DEF ReportPrivateMode, AltModes
<1>4. g \in Screens(cols, rows)
  BY <1>1 DEF SizedScreens
<1> HIDE DEF g
<1>5. ASSUME Has(g, 6), ~ g.strayed
      PROVE  ReportsOrigin(g)
  <2>1. /\ g.cursor.row \in Top(g) .. Bottom(g) /\ g.cursor.row \in 0 .. rows - 1
        /\ Top(g) \in 0 .. rows - 1 /\ Bottom(g) \in 0 .. rows - 1
    BY <1>4, <1>5, Bounds, Fields DEF Screens, Regioned, Tied
  <2>2. CursorReport(g)[1] - 1 = Less(g.cursor.row, Top(g))
    <3>1. Less(g.cursor.row, Top(g)) \in Nat
      BY <2>1 DEF Less
    <3>2. CursorReport(g)[1] = Less(g.cursor.row, Top(g)) + 1
      BY <1>5 DEF CursorReport
    <3> QED  BY <3>1, <3>2
  <2>3. Clamp(Less(g.cursor.row, Top(g)) + Top(g), Top(g), Bottom(g)) = g.cursor.row
    BY <2>1 DEF Clamp, Less, Least, Most
  <2>4. GotoLine(g, CursorReport(g)[1] - 1)
          = [g EXCEPT !.cursor.row =
               Clamp(Less(g.cursor.row, Top(g)) + Top(g), Top(g), Bottom(g)),
             !.strayed = FALSE]
    BY <1>5, <2>2 DEF GotoLine
  <2>5. GotoLine(g, CursorReport(g)[1] - 1) = [g EXCEPT !.cursor.row = g.cursor.row, !.strayed = FALSE]
    BY <2>3, <2>4
  <2>6. [g EXCEPT !.cursor.row = g.cursor.row, !.strayed = FALSE].cursor.row = g.cursor.row
    BY <1>4 DEF Screens, GridSet, Places
  <2> QED  BY <2>1, <2>5, <2>6 DEF ReportsOrigin, InRegion
<1> QED  BY <1>2, <1>3, <1>5 DEF ModesHoldTrue, g

\* No order of sequences and resizes makes the handler index out of a row, a
\* screen or the tab stops, and its modes stay what a program is told of them:
\* ScreensHold, for every size of screen (handler.rs, grid/mod.rs).
THEOREM Holds == Spec => []ScreensHold
<1>1. ScreensInv => ScreensHold
  BY TypesFromInvariant, ModesFromInvariant DEF ScreensHold
<1> QED  BY <1>1, ScreensInvariant, PTL

LEMMA ShipsFromInvariant ==
  ScreensInv /\ [Next]_vars =>
    [~replaced' /\ active' = active =>
         \A r \in RowsOf(ActiveGrid) \cap RowsOf(ActiveGrid') :
            LET was == ActiveGrid.lines[r]
                now == ActiveGrid'.lines[r]
            IN /\ Shown(now) # Shown(was) => now.fresh
               /\ was.fresh /\ ~now.fresh => SendUpdate]_vars
<1> SUFFICES ASSUME ScreensInv, Next, ~ replaced', active' = active,
                    NEW r \in RowsOf(ActiveGrid) \cap RowsOf(ActiveGrid')
             PROVE  /\ Shown(ActiveGrid'.lines[r]) # Shown(ActiveGrid.lines[r]) =>
                         ActiveGrid'.lines[r].fresh
                    /\ ActiveGrid.lines[r].fresh /\ ~ ActiveGrid'.lines[r].fresh =>
                         SendUpdate
  OBVIOUS
<1>1. CASE RowsAdvance
  BY <1>1 DEF RowsAdvance, Advances
<1>2. CASE SendUpdate
  <2> DEFINE g == ActiveGrid
             lines == [s \in RowsOf(g) |-> [g.lines[s] EXCEPT !.fresh = FALSE]]
  <2>1. PICK cols \in Sizing, rows \in Sizing : SizedScreens(cols, rows)
    BY Sized
  <2>2. g \in Screens(cols, rows)
    BY <2>1 DEF SizedScreens
  <2>3. ActiveGrid' = [[g EXCEPT !.lines = lines] EXCEPT !.out = <<>>]
    BY <1>2 DEF SendUpdate, Put, ActiveGrid
  <2> HIDE DEF g, lines
  <2>4. ActiveGrid'.lines = lines
    BY <2>2, <2>3 DEF Screens, GridSet
  <2>5. RowsOf(g) = 0 .. rows - 1 /\ g.lines \in [0 .. rows - 1 -> RowOf(cols)]
    BY <2>2, Fields
  <2>6. r \in 0 .. rows - 1
    BY <2>5 DEF g
  <2>7. lines[r] = [g.lines[r] EXCEPT !.fresh = FALSE] /\ g.lines[r] \in RowSet
    BY <2>5, <2>6 DEF lines, RowOf
  <2>8. Shown(lines[r]) = Shown(g.lines[r])
    BY <2>7 DEF Shown, RowSet
  <2> QED  BY <1>2, <2>4, <2>8 DEF g
<1> QED  BY <1>1, <1>2, Steps

\* A row that a step changes is newer than what the client was sent, and is
\* until it is sent: ChangedRowsShip, for every handler and every size of
\* screen.
THEOREM RowsShip == Spec => ChangedRowsShip
<1>1. []ScreensInv /\ [][Next]_vars => ChangedRowsShip
  BY ShipsFromInvariant, PTL DEF ChangedRowsShip
<1> QED  BY <1>1, ScreensInvariant, PTL DEF Spec
-----------------------------------------------------------------------------
\* What leaves a screen for the scrollback.

Sights == (SUBSET Nat) \X {"None", "PromptStart", "OutputEnd"}
            \X {"None", "ExitCode", "WorkingDirectory"}

LEMMA Sees ==
  ASSUME NEW cols, NEW row \in RowOf(cols)
  PROVE  Shown(row) \in Sights
BY DEF Shown, Sights, RowOf, RowSet

LEMMA LinesSeen ==
  ASSUME NEW cols \in Sizing, NEW rows \in Sizing, NEW g \in Screens(cols, rows)
  PROVE  /\ Lines(g) \in Seq(Sights) /\ Len(Lines(g)) = rows
         /\ \A i \in 1 .. rows : Lines(g)[i] = Shown(g.lines[i - 1])
<1>1. g.rows = rows /\ g.lines \in [0 .. rows - 1 -> RowOf(cols)] /\ rows \in Nat
  BY Fields DEF Sizing
<1>2. ASSUME NEW i \in 1 .. rows PROVE Shown(g.lines[i - 1]) \in Sights
  <2>1. i - 1 \in 0 .. rows - 1
    BY <1>1
  <2> QED  BY <1>1, <2>1, Sees
<1>3. Lines(g) = [i \in 1 .. rows |-> Shown(g.lines[i - 1])]
  BY <1>1 DEF Lines
<1>4. Lines(g) \in [1 .. rows -> Sights]
  BY <1>2, <1>3
<1>5. Lines(g) \in Seq(Sights) /\ Len(Lines(g)) = rows
  BY <1>1, <1>4
<1> QED  BY <1>3, <1>5

LEMMA TextsSeen ==
  ASSUME NEW given \in Seq(RowSet)
  PROVE  /\ Texts(given) \in Seq(Sights) /\ Len(Texts(given)) = Len(given)
         /\ \A i \in 1 .. Len(given) : Texts(given)[i] = Shown(given[i])
<1>1. PICK n \in Nat : n = Len(given)
  OBVIOUS
<1>2. ASSUME NEW i \in 1 .. n PROVE Shown(given[i]) \in Sights
  <2>1. given[i] \in RowSet
    BY <1>1
  <2> QED  BY <2>1 DEF Shown, Sights, RowSet
<1>3. Texts(given) = [i \in 1 .. n |-> Shown(given[i])]
  BY <1>1 DEF Texts
<1>4. Texts(given) \in [1 .. n -> Sights]
  BY <1>2, <1>3
<1>5. Texts(given) \in Seq(Sights) /\ Len(Texts(given)) = n
  BY <1>4
<1> QED  BY <1>1, <1>3, <1>5

\* The first m of the lines of screen g are the rows given up by screen h and
\* then its own, from the top.
Flows(g, m, h) ==
    /\ m <= Len(h.out) + h.rows
    /\ \A i \in 1 .. m :
         Shown(g.lines[i - 1]) = IF i <= Len(h.out) THEN Shown(h.out[i])
                                 ELSE Shown(h.lines[i - 1 - Len(h.out)])

LEMMA Fronts ==
  ASSUME NEW s \in Seq(Sights), NEW t \in Seq(Sights), NEW m \in Nat,
         m <= Len(s), m <= Len(t), \A i \in 1 .. m : s[i] = t[i]
  PROVE  IsFront(SubSeq(s, 1, m), t)
<1> DEFINE a == SubSeq(s, 1, m)
           b == SubSeq(t, 1, m)
<1>1. PICK k \in Nat, l \in Nat : k = Len(s) /\ l = Len(t)
  OBVIOUS
<1>2. \A i \in 1 .. m : s[i] \in Sights /\ t[i] \in Sights
  BY <1>1
<1>3. /\ a \in Seq(Sights) /\ Len(a) = (IF 1 <= m THEN m - 1 + 1 ELSE 0)
      /\ \A i \in 1 .. m - 1 + 1 : a[i] = s[1 + i - 1]
  BY <1>2, SubSeqProperties
<1>4. /\ b \in Seq(Sights) /\ Len(b) = (IF 1 <= m THEN m - 1 + 1 ELSE 0)
      /\ \A i \in 1 .. m - 1 + 1 : b[i] = t[1 + i - 1]
  BY <1>2, SubSeqProperties
<1> HIDE DEF a, b
<1>5. Len(a) = m /\ Len(b) = m
  BY <1>3, <1>4
<1>6. \A i \in 1 .. m : a[i] = s[i] /\ b[i] = t[i]
  BY <1>3, <1>4
<1>7. \A i \in 1 .. Len(a) : a[i] = b[i]
  BY <1>5, <1>6
<1>8. a = b
  BY <1>3, <1>4, <1>5, <1>7, SeqEqual
<1>9. Len(a) <= Len(t) /\ SubSeq(t, 1, Len(a)) = a
  BY <1>5, <1>8 DEF b
<1> QED  BY <1>9 DEF IsFront, a

LEMMA FlowsToFront ==
  ASSUME NEW cols \in Sizing, NEW rows \in Sizing, NEW g \in Screens(cols, rows),
         NEW width \in Sizing, NEW height \in Sizing, NEW h \in Screens(width, height),
         NEW m \in 0 .. rows, Flows(g, m, h), NEW k \in Screens(width, height),
         k.lines = h.lines
  PROVE  IsFront(SubSeq(Lines(g), 1, m), Texts(h.out) \o Lines(k))
<1>1. h.out \in Seq(RowSet) /\ h.rows = height /\ rows \in Nat /\ height \in Nat
  BY DEF Screens, GridSet, Sizing
<1>2. PICK n \in Nat : n = Len(h.out)
  BY <1>1
<1>3. PICK above : above = Lines(g)
  OBVIOUS
<1>4. PICK given : given = Texts(h.out)
  OBVIOUS
<1>5. PICK below : below = Lines(k)
  OBVIOUS
<1>6. PICK all : all = given \o below
  OBVIOUS
<1>7. /\ above \in Seq(Sights) /\ Len(above) = rows
      /\ \A i \in 1 .. rows : above[i] = Shown(g.lines[i - 1])
  BY <1>3, LinesSeen
<1>8. /\ given \in Seq(Sights) /\ Len(given) = n
      /\ \A i \in 1 .. n : given[i] = Shown(h.out[i])
  BY <1>1, <1>2, <1>4, TextsSeen
<1>9. /\ below \in Seq(Sights) /\ Len(below) = height
      /\ \A i \in 1 .. height : below[i] = Shown(h.lines[i - 1])
  BY <1>5, LinesSeen
<1>10. /\ all \in Seq(Sights) /\ Len(all) = n + height
       /\ \A i \in 1 .. n + height : all[i] = IF i <= n THEN given[i] ELSE below[i - n]
  <2>1. /\ given \o below \in Seq(Sights)
        /\ Len(given \o below) = Len(given) + Len(below)
        /\ \A i \in 1 .. Len(given) + Len(below) :
             (given \o below)[i] = IF i <= Len(given) THEN given[i] ELSE below[i - Len(given)]
    BY <1>8, <1>9, ConcatProperties
  <2> QED  BY <1>6, <1>8, <1>9, <2>1
<1>11. /\ m <= n + height
       /\ \A i \in 1 .. m : Shown(g.lines[i - 1]) = IF i <= n THEN Shown(h.out[i])
                                                    ELSE Shown(h.lines[i - 1 - n])
  BY <1>1, <1>2 DEF Flows
<1>12. ASSUME NEW i \in 1 .. m PROVE above[i] = all[i]
  <2>1. i \in 1 .. rows /\ i \in 1 .. n + height
    BY <1>1, <1>11
  <2>2. CASE i <= n
    <3>1. i \in 1 .. n
      BY <2>1, <2>2
    <3> QED  BY <1>7, <1>8, <1>10, <1>11, <2>1, <2>2, <3>1
  <2>3. CASE ~ i <= n
    <3>1. i - n \in 1 .. height /\ (i - n) - 1 = i - 1 - n
      BY <1>1, <2>1, <2>3
    <3>2. below[i - n] = Shown(h.lines[(i - n) - 1])
      BY <1>9, <3>1
    <3>3. all[i] = below[i - n]
      BY <1>10, <2>1, <2>3
    <3>4. above[i] = Shown(h.lines[i - 1 - n])
      BY <1>7, <1>11, <2>1, <2>3
    <3> QED  BY <3>1, <3>2, <3>3, <3>4
  <2> QED  BY <2>2, <2>3
<1>13. m \in Nat /\ m <= Len(above) /\ m <= Len(all)
  BY <1>1, <1>7, <1>10, <1>11
<1>14. IsFront(SubSeq(above, 1, m), all)
  BY <1>7, <1>10, <1>12, <1>13, Fronts
<1> QED  BY <1>3, <1>4, <1>5, <1>6, <1>14

LEMMA StampShows ==
  ASSUME NEW cols \in Sizing, NEW rows \in Sizing, NEW g \in Screens(cols, rows), NEW touched
  PROVE  /\ TouchRows(g, touched).out = g.out
         /\ TouchRows(g, touched).rows = g.rows
         /\ \A r \in 0 .. rows - 1 : Shown(TouchRows(g, touched).lines[r]) = Shown(g.lines[r])
<1>1. RowsOf(g) = 0 .. rows - 1 /\ g.lines \in [0 .. rows - 1 -> RowOf(cols)]
  BY Fields
<1> DEFINE lines == [r \in RowsOf(g) |->
                       IF r \in touched THEN [g.lines[r] EXCEPT !.fresh = TRUE] ELSE g.lines[r]]
<1>2. /\ TouchRows(g, touched).lines = lines
      /\ TouchRows(g, touched).out = g.out
      /\ TouchRows(g, touched).rows = g.rows
  BY DEF TouchRows, Screens, GridSet
<1>3. ASSUME NEW r \in 0 .. rows - 1 PROVE Shown(lines[r]) = Shown(g.lines[r])
  <2>1. g.lines[r] \in RowSet
    BY <1>1 DEF RowOf
  <2>2. lines[r] = IF r \in touched THEN [g.lines[r] EXCEPT !.fresh = TRUE] ELSE g.lines[r]
    BY <1>1
  <2> HIDE DEF lines
  <2> QED  BY <2>1, <2>2 DEF Shown, RowSet
<1> HIDE DEF lines
<1> QED  BY <1>2, <1>3

\* Without a region a scroll by one row gives up the top one.
LEMMA ScrollsOne ==
  ASSUME NEW cols \in Sizing, NEW rows \in Sizing, NEW g \in Screens(cols, rows),
         g.region = NoRegion
  PROVE  /\ ScrollUp(g, 1).out = <<g.lines[0]>>
         /\ \A r \in 0 .. rows - 2 : Shown(ScrollUp(g, 1).lines[r]) = Shown(g.lines[r + 1])
<1> DEFINE lines == [r \in RowsOf(g) |->
                       IF r \notin 0 .. rows - 1 THEN g.lines[r]
                       ELSE IF r + 1 <= rows - 1 THEN g.lines[r + 1] ELSE BlankRow(g.cols)]
           h == [g EXCEPT !.lines = lines]
           k == TouchRows(h, 0 .. rows - 1)
           given == [i \in 1 .. 1 |-> g.lines[i - 1]]
<1>1. /\ Top(g) = 0 /\ Bottom(g) = rows - 1 /\ rows \in Nat /\ rows # 0
      /\ RowsOf(g) = 0 .. rows - 1 /\ g.cols = cols
      /\ g.lines \in [0 .. rows - 1 -> RowOf(cols)]
  BY Fields DEF Top, Bottom, Sizing
<1>2. Least(1, Bottom(g) - Top(g) + 1) = 1
  BY <1>1 DEF Least
<1>3. ScrollUp(g, 1) = [RotatedUp(g, 0, rows - 1, 1) EXCEPT !.out = given]
  BY <1>1, <1>2 DEF ScrollUp
<1>4. RotatedUp(g, 0, rows - 1, 1) = k
  BY DEF RotatedUp
<1>5. given = <<g.lines[0]>>
  OBVIOUS
<1>6. BlankRow(cols) \in RowOf(cols)
  BY BlankFits
<1>7. ASSUME NEW r \in 0 .. rows - 1
      PROVE  lines[r] \in RowOf(cols) /\ (r + 1 <= rows - 1 => lines[r] = g.lines[r + 1])
  <2>1. r + 1 <= rows - 1 => r + 1 \in 0 .. rows - 1
    BY <1>1
  <2> QED  BY <1>1, <1>6, <2>1
<1>8. lines \in [0 .. rows - 1 -> RowOf(cols)]
  BY <1>1, <1>7
<1> HIDE DEF lines, given
<1>9. h \in Screens(cols, rows)
  BY <1>8, Replaces
<1>10. h.lines = lines
  BY DEF Screens, GridSet
<1> HIDE DEF h
<1>11. /\ k \in Screens(cols, rows)
       /\ \A r \in 0 .. rows - 1 : Shown(k.lines[r]) = Shown(h.lines[r])
  BY <1>9, Stamped, StampShows DEF Follows
<1> HIDE DEF k
<1>12. [k EXCEPT !.out = given].out = given /\ [k EXCEPT !.out = given].lines = k.lines
  BY <1>11 DEF Screens, GridSet
<1>13. ASSUME NEW r \in 0 .. rows - 2
       PROVE  Shown(k.lines[r]) = Shown(g.lines[r + 1])
  <2>1. r \in 0 .. rows - 1 /\ r + 1 <= rows - 1
    BY <1>1
  <2> QED  BY <1>7, <1>10, <1>11, <2>1
<1> QED  BY <1>3, <1>4, <1>5, <1>12, <1>13

\* A feed loses nothing above the cursor, which stays at or below what is kept.
FlowsOn(g, h) ==
    /\ Flows(g, g.cursor.row, h)
    /\ g.cursor.row <= h.cursor.row + Len(h.out)

LEMMA FlowsStill ==
  ASSUME NEW cols \in Sizing, NEW rows \in Sizing, NEW g \in Screens(cols, rows),
         NEW h \in Screens(cols, rows), h.out = <<>>, h.lines = g.lines,
         g.cursor.row <= h.cursor.row
  PROVE  FlowsOn(g, h)
<1>1. /\ h.rows = rows /\ rows \in Nat /\ g.cursor.row \in 0 .. rows - 1
      /\ h.cursor.row \in 0 .. rows - 1
  BY Fields DEF Sizing
<1>2. PICK m \in Nat : m = g.cursor.row
  BY <1>1
<1>3. Len(h.out) = 0
  OBVIOUS
<1>4. ASSUME NEW i \in 1 .. m
      PROVE  ~ i <= 0 /\ i - 1 - 0 = i - 1
  OBVIOUS
<1>5. Flows(g, m, h)
  BY <1>1, <1>2, <1>3, <1>4 DEF Flows
<1> QED  BY <1>1, <1>2, <1>3, <1>5 DEF FlowsOn

LEMMA FeedsOn ==
  ASSUME NEW cols \in Sizing, NEW rows \in Sizing, NEW g \in Screens(cols, rows),
         g.region = NoRegion, g.out = <<>>
  PROVE  FlowsOn(g, Linefeed(g))
<1> DEFINE moved == IF g.cursor.row >= Bottom(g) THEN ScrollUp(g, 1)
                    ELSE [g EXCEPT !.cursor.row = g.cursor.row + 1]
           fed == Linefeed(g)
<1>1. Bottom(g) = rows - 1 /\ g.cursor.row \in 0 .. rows - 1 /\ rows \in Nat
  <2> HIDE DEF moved, fed
  <2>1. g.cursor.row \in 0 .. rows - 1 /\ LastRow(g) = rows - 1
    BY Fields
  <2>2. rows \in Nat
    BY DEF Sizing
  <2> QED  BY <2>1, <2>2 DEF Bottom
<1>2. fed = IF Has(g, 20) THEN [moved EXCEPT !.cursor.col = 0] ELSE moved
  BY DEF Linefeed
<1>3. fed \in Screens(cols, rows)
  BY Linefeeds DEF Follows
<1>4. CASE g.cursor.row >= Bottom(g)
  <2>1. moved = ScrollUp(g, 1)
    BY <1>4
  <2>2. /\ moved \in Screens(cols, rows) /\ moved.cursor = g.cursor
        /\ moved.out = <<g.lines[0]>>
        /\ \A r \in 0 .. rows - 2 : Shown(moved.lines[r]) = Shown(g.lines[r + 1])
    <3>1. 1 \in Nat
      OBVIOUS
    <3>2. ScrollUp(g, 1) \in Follows(g, cols, rows) /\ ScrollUp(g, 1).cursor = g.cursor
      BY <3>1, ScrollsUp
    <3>3. /\ ScrollUp(g, 1).out = <<g.lines[0]>>
          /\ \A r \in 0 .. rows - 2 : Shown(ScrollUp(g, 1).lines[r]) = Shown(g.lines[r + 1])
      BY ScrollsOne
    <3> HIDE DEF moved, fed
    <3> QED  BY <2>1, <3>2, <3>3 DEF Follows
  <2> HIDE DEF moved, fed
  <2>3. fed.lines = moved.lines /\ fed.out = moved.out /\ fed.cursor.row = g.cursor.row
    BY <1>2, <2>2 DEF Screens, GridSet, Places
  <2>4. PICK m \in Nat : m = g.cursor.row
    BY <1>1
  <2>5. Len(fed.out) = 1 /\ fed.out[1] = g.lines[0] /\ fed.rows = rows /\ m = rows - 1
    BY <1>1, <1>3, <1>4, <2>2, <2>3, <2>4, Fields
  <2>6. ASSUME NEW i \in 1 .. m
        PROVE  Shown(g.lines[i - 1]) = IF i <= 1 THEN Shown(fed.out[i])
                                       ELSE Shown(fed.lines[i - 1 - 1])
    <3>1. CASE i = 1
      <4>1. i - 1 = 0
        BY <3>1
      <4> QED  BY <2>5, <3>1, <4>1
    <3>2. CASE i # 1
      <4>1. i - 1 - 1 \in 0 .. rows - 2 /\ (i - 1 - 1) + 1 = i - 1 /\ ~ i <= 1
        BY <1>1, <2>5, <3>2
      <4>2. Shown(fed.lines[i - 1 - 1]) = Shown(g.lines[(i - 1 - 1) + 1])
        BY <2>2, <2>3, <4>1
      <4> QED  BY <4>1, <4>2
    <3> QED  BY <3>1, <3>2
  <2>7. m <= 1 + rows
    BY <1>1, <2>5
  <2>8. Flows(g, m, fed)
    BY <2>5, <2>6, <2>7 DEF Flows
  <2> QED  BY <1>1, <2>3, <2>4, <2>5, <2>8 DEF FlowsOn, fed
<1>5. CASE ~ g.cursor.row >= Bottom(g)
  <2>1. moved = [g EXCEPT !.cursor.row = g.cursor.row + 1]
    BY <1>5
  <2> HIDE DEF moved, fed
  <2>2. /\ fed.lines = g.lines /\ fed.out = <<>>
        /\ fed.cursor.row = g.cursor.row + 1
    BY <1>2, <2>1 DEF Screens, GridSet, Places
  <2>3. g.cursor.row <= fed.cursor.row
    BY <1>1, <2>2
  <2> QED  BY <1>3, <2>2, <2>3, FlowsStill DEF fed
<1> QED  BY <1>4, <1>5

LEMMA UnwrapsOn ==
  ASSUME NEW cols \in Sizing, NEW rows \in Sizing, NEW g \in Screens(cols, rows),
         g.region = NoRegion, g.out = <<>>
  PROVE  FlowsOn(g, Unwrapped(g))
<1>1. /\ g.cursor.row \in 0 .. rows - 1 /\ rows \in Nat
      /\ Unwrapped(g) \in Screens(cols, rows)
  BY Fields, Unwraps DEF Sizing, Follows
<1>2. CASE g.cursor.col < g.cols
  <2>1. Unwrapped(g) = g
    BY <1>2 DEF Unwrapped
  <2>2. g.cursor.row <= g.cursor.row
    BY <1>1
  <2> QED  BY <2>1, <2>2, FlowsStill
<1>3. CASE ~ g.cursor.col < g.cols /\ Has(g, 7)
  <2> DEFINE h == [g EXCEPT !.cursor.col = 0]
  <2>1. h \in Screens(cols, rows)
    <3>1. 0 \in 0 .. cols
      BY DEF Sizing
    <3> QED  BY <3>1, MovesCol DEF Follows
  <2>2. /\ h.region = NoRegion /\ h.out = <<>> /\ h.lines = g.lines
        /\ h.cursor.row = g.cursor.row
    BY DEF Screens, GridSet, Places
  <2>3. Unwrapped(g) = Linefeed(h)
    BY <1>3 DEF Unwrapped
  <2> HIDE DEF h
  <2>4. FlowsOn(h, Linefeed(h))
    BY <2>1, <2>2, FeedsOn
  <2> QED  BY <2>2, <2>3, <2>4 DEF FlowsOn, Flows
<1>4. CASE ~ g.cursor.col < g.cols /\ ~ Has(g, 7)
  <2>1. Unwrapped(g) = [g EXCEPT !.cursor.col = LastCol(g)]
    BY <1>4 DEF Unwrapped
  <2>2. /\ Unwrapped(g).out = <<>> /\ Unwrapped(g).lines = g.lines
        /\ Unwrapped(g).cursor.row = g.cursor.row
    BY <2>1 DEF Screens, GridSet, Places
  <2>3. g.cursor.row <= Unwrapped(g).cursor.row
    BY <1>1, <2>2
  <2> QED  BY <1>1, <2>2, <2>3, FlowsStill
<1> QED  BY <1>2, <1>3, <1>4

\* The cells written are below what flows on.
LEMMA InputsOn ==
  ASSUME NEW cols \in Sizing, NEW rows \in Sizing, NEW g \in Screens(cols, rows),
         g.region = NoRegion, g.out = <<>>
  PROVE  FlowsOn(g, Input(g))
<1> DEFINE u == Unwrapped(g)
           at == IF Has(g, 4) THEN ShiftedRight(u, 1) ELSE u
           r == at.cursor.row
           ink == at.lines[r].ink \cup {at.cursor.col}
           h == WithInk(at, r, ink)
           inked == Inked(at, r, ink)
           in == Input(g)
<1>1. /\ u \in Screens(cols, rows) /\ u.cursor.col \in 0 .. cols - 1 /\ FlowsOn(g, u)
      /\ rows \in Nat /\ g.cursor.row \in 0 .. rows - 1
  BY Unwraps, UnwrapsOn, Fields DEF Follows, Sizing
<1> HIDE DEF u
<1>2. /\ at \in Screens(cols, rows) /\ at.cursor = u.cursor /\ at.out = u.out
      /\ \A s \in (0 .. rows - 1) \ {u.cursor.row} : at.lines[s] = u.lines[s]
  <2>1. ShiftedRight(u, 1).out = u.out
    BY <1>1 DEF ShiftedRight, Screens, GridSet
  <2>2. /\ ShiftedRight(u, 1) \in Screens(cols, rows) /\ ShiftedRight(u, 1).cursor = u.cursor
        /\ \A s \in (0 .. rows - 1) \ {u.cursor.row} :
             ShiftedRight(u, 1).lines[s] = u.lines[s]
    <3>1. u \in Screens(cols, rows) /\ 1 \in Nat
      BY <1>1
    <3> QED  BY <3>1, Shifts
  <2> QED  BY <1>1, <2>1, <2>2
<1>3. in = [inked EXCEPT !.cursor.col = inked.cursor.col + 1] /\ inked = TouchRows(h, {r})
  BY DEF Input, u, Inked, WithInk
<1> HIDE DEF at
<1>4. /\ r \in 0 .. rows - 1 /\ at.lines \in [0 .. rows - 1 -> RowOf(cols)]
      /\ at.cursor.col \in 0 .. cols - 1
  BY <1>1, <1>2, Fields
<1>5. ink \in SUBSET (0 .. cols - 1)
  BY <1>4 DEF RowOf
<1> HIDE DEF ink, in
<1>6. /\ h \in Screens(cols, rows) /\ h.cursor = at.cursor
      /\ \A s \in (0 .. rows - 1) \ {r} : h.lines[s] = at.lines[s]
  BY <1>2, <1>4, <1>5, InksOne
<1>7. h.out = at.out
  BY <1>2 DEF WithInk, Screens, GridSet
<1> HIDE DEF h, inked
<1>8. /\ inked \in Screens(cols, rows) /\ inked.out = h.out /\ inked.cursor = h.cursor
      /\ \A s \in 0 .. rows - 1 : Shown(inked.lines[s]) = Shown(h.lines[s])
  BY <1>3, <1>6, Stamped, StampKeeps, StampShows DEF Follows
<1>9. /\ in.lines = inked.lines /\ in.out = inked.out /\ in.rows = inked.rows
      /\ in.cursor.row = inked.cursor.row
  BY <1>3, <1>8 DEF Screens, GridSet, Places
<1>10. /\ in.out = u.out /\ in.rows = rows /\ in.cursor.row = u.cursor.row /\ u.rows = rows
       /\ r = u.cursor.row
  BY <1>1, <1>2, <1>6, <1>7, <1>8, <1>9, Fields
<1>11. \A s \in (0 .. rows - 1) \ {r} : Shown(in.lines[s]) = Shown(u.lines[s])
  BY <1>2, <1>6, <1>8, <1>9, <1>10
<1>12. PICK m \in Nat, n \in Nat, c \in Nat :
         m = g.cursor.row /\ n = Len(u.out) /\ c = u.cursor.row
  <2>1. u.out \in Seq(RowSet) /\ u.cursor.row \in 0 .. rows - 1
    BY <1>1, Fields DEF Screens, GridSet
  <2> QED  BY <1>1, <2>1
<1>13. /\ m <= n + rows /\ m <= c + n
       /\ \A i \in 1 .. m : Shown(g.lines[i - 1]) = IF i <= n THEN Shown(u.out[i])
                                                    ELSE Shown(u.lines[i - 1 - n])
  BY <1>1, <1>10, <1>12 DEF FlowsOn, Flows
<1>14. ASSUME NEW i \in 1 .. m
       PROVE  Shown(g.lines[i - 1]) = IF i <= n THEN Shown(in.out[i])
                                      ELSE Shown(in.lines[i - 1 - n])
  <2>1. CASE i <= n
    BY <1>10, <1>13, <2>1
  <2>2. CASE ~ i <= n
    <3>1. i - 1 - n \in (0 .. rows - 1) \ {c}
      <4>1. i - 1 - n \in 0 .. rows - 1
        BY <1>1, <1>13, <2>2
      <4>2. i - 1 - n # c
        BY <1>13
      <4> QED  BY <4>1, <4>2
    <3>2. Shown(in.lines[i - 1 - n]) = Shown(u.lines[i - 1 - n])
      BY <1>10, <1>11, <1>12, <3>1
    <3> QED  BY <1>13, <2>2, <3>2
  <2> QED  BY <2>1, <2>2
<1>15. Flows(g, m, in)
  BY <1>10, <1>12, <1>13, <1>14 DEF Flows
<1>16. g.cursor.row <= in.cursor.row + Len(in.out)
  BY <1>10, <1>12, <1>13
<1> QED  BY <1>12, <1>15, <1>16 DEF FlowsOn, in

\* A resize to no fewer columns loses nothing down to the cursor's row.
LEMMA ResizesOn ==
  ASSUME NEW width \in Sizing, NEW height \in Sizing, NEW g \in Screens(width, height),
         NEW cols \in Sizing, NEW rows \in Sizing, cols >= width
  PROVE  Flows(g, g.cursor.row + 1, Resize(g, cols, rows))
<1> DEFINE off == ScrolledOff(g, rows)
           line(r) == IF r + off < g.rows THEN g.lines[r + off] ELSE BlankRow(cols)
           lines == [r \in 0 .. rows - 1 |-> RowResized(line(r), cols)]
           given == [i \in 1 .. off |-> g.lines[i - 1]]
           sized == [g EXCEPT
             !.cols = cols, !.rows = rows, !.lines = lines, !.stops = DefaultStops(cols),
             !.cursor = Fitted(g.cursor, cols, rows), !.saved = Fitted(g.saved, cols, rows),
             !.region = NoRegion, !.strayed = FALSE, !.out = given]
           h == Resize(g, cols, rows)
<1>1. /\ g.rows = height /\ g.lines \in [0 .. height - 1 -> RowOf(width)]
      /\ g.cursor.row \in 0 .. height - 1
      /\ height \in Nat /\ rows \in Nat /\ rows # 0 /\ cols \in Nat /\ width \in Nat
  <2>1. /\ g.rows = height /\ g.lines \in [0 .. height - 1 -> RowOf(width)]
        /\ g.cursor.row \in 0 .. height - 1
    BY Fields
  <2>2. height \in Nat /\ rows \in Nat /\ rows # 0 /\ cols \in Nat /\ width \in Nat
    BY DEF Sizing
  <2> QED  BY <2>1, <2>2
<1>2. PICK m \in Nat : m = g.cursor.row + 1
  BY <1>1
<1>3. PICK n \in Nat : n = off
  BY <1>1 DEF ScrolledOff, Less
<1>4. n <= m /\ m <= n + rows /\ m <= height
  <2>1. n = IF rows < height THEN Less(m, rows) ELSE 0
    BY <1>1, <1>2, <1>3 DEF ScrolledOff
  <2>2. m <= height
    BY <1>1, <1>2
  <2> QED  BY <1>1, <2>1, <2>2 DEF Less
<1>5. h = TouchAll(sized)
  BY DEF Resize
<1>6. sized.lines = lines /\ sized.out = given /\ sized.rows = rows
  BY DEF Screens, GridSet
<1>7. RowsOf(sized) = 0 .. rows - 1
  BY <1>6 DEF RowsOf, LastRow
<1>8. given = [i \in 1 .. n |-> g.lines[i - 1]]
  BY <1>3
<1>9. ASSUME NEW r \in 0 .. rows - 1, r + n < height
      PROVE  /\ lines[r] = RowResized(g.lines[r + n], cols)
             /\ g.lines[r + n] \in RowOf(width)
  <2>1. r + n \in 0 .. height - 1
    BY <1>1, <1>9
  <2>2. line(r) = g.lines[r + n]
    BY <1>1, <1>3, <1>9
  <2>3. lines[r] = RowResized(line(r), cols)
    OBVIOUS
  <2> HIDE DEF lines, line
  <2> QED  BY <1>1, <2>1, <2>2, <2>3
<1> HIDE DEF lines, given, off, line
<1>10. /\ h.out = given /\ h.rows = rows
       /\ h.lines = [r \in 0 .. rows - 1 |-> [lines[r] EXCEPT !.fresh = TRUE]]
  <2>1. TouchAll(sized) = [sized EXCEPT !.lines = [r \in RowsOf(sized) |->
          IF r \in RowsOf(sized) THEN [sized.lines[r] EXCEPT !.fresh = TRUE]
          ELSE sized.lines[r]]]
    BY DEF TouchAll, TouchRows
  <2>2. [r \in RowsOf(sized) |->
          IF r \in RowsOf(sized) THEN [sized.lines[r] EXCEPT !.fresh = TRUE]
          ELSE sized.lines[r]]
          = [r \in 0 .. rows - 1 |-> [lines[r] EXCEPT !.fresh = TRUE]]
    BY <1>6, <1>7
  <2>3. TouchAll(sized)
          = [sized EXCEPT !.lines = [r \in 0 .. rows - 1 |-> [lines[r] EXCEPT !.fresh = TRUE]]]
    BY <2>1, <2>2
  <2>4. {"lines", "out", "rows"} \subseteq DOMAIN sized
    BY DEF Screens, GridSet
  <2> HIDE DEF sized
  <2> QED  BY <1>5, <1>6, <2>3, <2>4
<1> HIDE DEF h
<1>11. ASSUME NEW r \in 0 .. rows - 1, r + n < height
       PROVE  Shown(h.lines[r]) = Shown(g.lines[r + n])
  <2>1. PICK row \in RowOf(width) : row = g.lines[r + n]
    BY <1>9, <1>11
  <2>2. h.lines[r] = [RowResized(row, cols) EXCEPT !.fresh = TRUE]
    BY <1>9, <1>10, <1>11, <2>1
  <2>3. row \in RowSet /\ row.ink \subseteq 0 .. width - 1
    BY DEF RowOf
  <2>4. {c \in row.ink : c < cols} = row.ink
    BY <1>1, <2>3
  <2>5. RowResized(row, cols) = [row EXCEPT !.width = cols, !.ink = row.ink]
    BY <2>4 DEF RowResized
  <2> QED  BY <2>1, <2>2, <2>3, <2>5 DEF Shown, RowSet
<1>12. Len(h.out) = n
  BY <1>8, <1>10
<1>13. ASSUME NEW i \in 1 .. m
       PROVE  Shown(g.lines[i - 1]) = IF i <= n THEN Shown(h.out[i])
                                      ELSE Shown(h.lines[i - 1 - n])
  <2>1. CASE i <= n
    <3>1. i \in 1 .. n
      BY <2>1
    <3>2. h.out[i] = g.lines[i - 1]
      BY <1>8, <1>10, <3>1
    <3> QED  BY <2>1, <3>2
  <2>2. CASE ~ i <= n
    <3>1. i - 1 - n \in 0 .. rows - 1 /\ (i - 1 - n) + n < height /\ (i - 1 - n) + n = i - 1
      BY <1>1, <1>4, <2>2
    <3>2. Shown(h.lines[i - 1 - n]) = Shown(g.lines[(i - 1 - n) + n])
      BY <1>11, <3>1
    <3> QED  BY <2>2, <3>1, <3>2
  <2> QED  BY <2>1, <2>2
<1>14. Flows(g, m, h)
  BY <1>4, <1>10, <1>12, <1>13 DEF Flows
<1> QED  BY <1>2, <1>14 DEF h

\* A handler of the primary screen that flows on.
LEMMA PutsOn ==
  ASSUME NEW cols \in Sizing, NEW rows \in Sizing, primary \in Screens(cols, rows),
         active = "Primary", NEW h \in Screens(cols, rows), FlowsOn(primary, h), Put(h)
  PROVE  IsFront(SubSeq(Lines(primary), 1, primary.cursor.row), Texts(pushed') \o Lines(primary'))
<1>1. /\ pushed' = h.out /\ primary' = [h EXCEPT !.out = <<>>]
  BY DEF Put, Kept
<1>2. h \in Follows(h, cols, rows)
  BY Steady
<1>3. primary' \in Screens(cols, rows) /\ primary'.lines = h.lines
  <2>1. /\ [h EXCEPT !.out = <<>>] \in Follows(h, cols, rows)
        /\ [h EXCEPT !.out = <<>>].lines = h.lines
    BY <1>2, Cleared
  <2> QED  BY <1>1, <2>1 DEF Follows
<1>4. primary.cursor.row \in 0 .. rows
  <2>1. primary.cursor.row \in 0 .. rows - 1 /\ rows \in Nat
    BY Fields DEF Sizing
  <2> QED  BY <2>1
<1>5. Flows(primary, primary.cursor.row, h)
  BY DEF FlowsOn
<1> QED  BY <1>1, <1>3, <1>4, <1>5, FlowsToFront

LEMMA ResizesFlow ==
  ASSUME ScreensInv, NEW size \in Sizes, ResizeAll(size), size[1] >= primary.cols,
         saveAlt => alternate = NoGrid
  PROVE  IsFront(SubSeq(Lines(primary), 1, primary.cursor.row + 1),
                 Texts(pushed') \o Lines(primary'))
<1> DEFINE p == Resize(primary, size[1], size[2])
           a == IF alternate = NoGrid THEN NoGrid
                ELSE Resize(alternate, size[1], size[2])
           given == IF a = NoGrid THEN <<>> ELSE Kept("Alternate", a.out)
<1>1. PICK width \in Sizing, height \in Sizing : SizedScreens(width, height)
  BY Sized
<1>2. PICK cols \in Sizing, rows \in Sizing : cols = size[1] /\ rows = size[2]
  BY SizesAssumption DEF Sizes, Sizing
<1>3. primary' = [p EXCEPT !.out = <<>>] /\ pushed' = p.out \o given
  BY DEF ResizeAll
<1>4. primary \in Screens(width, height) /\ primary.cols = width
  BY <1>1, Fields DEF SizedScreens
<1>5. given = <<>>
  BY DEF Kept
<1>6. p \in Follows(primary, cols, rows)
  BY <1>2, <1>4, Resizes
<1>7. Flows(primary, primary.cursor.row + 1, p)
  BY <1>2, <1>4, ResizesOn
<1> HIDE DEF p, given
<1>8. /\ primary' \in Screens(cols, rows) /\ primary'.lines = p.lines
      /\ p \in Screens(cols, rows)
  <2>1. /\ [p EXCEPT !.out = <<>>] \in Follows(primary, cols, rows)
        /\ [p EXCEPT !.out = <<>>].lines = p.lines
    BY <1>6, Cleared
  <2> QED  BY <1>3, <1>6, <2>1 DEF Follows
<1>9. pushed' = p.out
  <2>1. p.out \in Seq(RowSet)
    BY <1>8 DEF Screens, GridSet
  <2>2. p.out \o <<>> = p.out
    BY <2>1, ConcatEmptySeq
  <2> QED  BY <1>3, <1>5, <2>2
<1>10. primary.cursor.row + 1 \in 0 .. height
  <2>1. primary.cursor.row \in 0 .. height - 1 /\ height \in Nat
    BY <1>4, Fields DEF Sizing
  <2> QED  BY <2>1
<1> QED  BY <1>4, <1>7, <1>8, <1>9, <1>10, FlowsToFront

LEMMA FlowsFromInvariant ==
  ScreensInv /\ [Next]_vars =>
    [active = "Primary" /\ primary.region = NoRegion =>
         LET above(g) == SubSeq(Lines(g), 1, g.cursor.row)
         IN /\ LineFeed => IsFront(above(primary), Texts(pushed') \o Lines(primary'))
            /\ PrintChar => IsFront(above(primary), Texts(pushed') \o Lines(primary'))
            /\ (\E s \in Sizes : ResizeAll(s) /\ s[1] >= primary.cols)
               /\ (saveAlt => alternate = NoGrid) =>
                  IsFront(SubSeq(Lines(primary), 1, primary.cursor.row + 1),
                          Texts(pushed') \o Lines(primary'))]_vars
<1> DEFINE Kept1 == IsFront(SubSeq(Lines(primary), 1, primary.cursor.row),
                            Texts(pushed') \o Lines(primary'))
           Kept2 == IsFront(SubSeq(Lines(primary), 1, primary.cursor.row + 1),
                            Texts(pushed') \o Lines(primary'))
<1> SUFFICES ASSUME ScreensInv, active = "Primary", primary.region = NoRegion
             PROVE  /\ LineFeed => Kept1
                    /\ PrintChar => Kept1
                    /\ (\E s \in Sizes : ResizeAll(s) /\ s[1] >= primary.cols)
                       /\ (saveAlt => alternate = NoGrid) => Kept2
  OBVIOUS
<1>1. PICK cols \in Sizing, rows \in Sizing : SizedScreens(cols, rows)
  BY Sized
<1>2. primary \in Screens(cols, rows) /\ primary.out = <<>> /\ ActiveGrid = primary
  BY <1>1 DEF SizedScreens, ActiveGrid
<1>3. ASSUME LineFeed PROVE Kept1
  <2>1. /\ Put(Linefeed(primary)) /\ Linefeed(primary) \in Screens(cols, rows)
        /\ FlowsOn(primary, Linefeed(primary))
    BY <1>2, <1>3, Linefeeds, FeedsOn DEF LineFeed, Follows
  <2> QED  BY <1>2, <2>1, PutsOn
<1>4. ASSUME PrintChar PROVE Kept1
  <2>1. /\ Put(Input(primary)) /\ Input(primary) \in Screens(cols, rows)
        /\ FlowsOn(primary, Input(primary))
    BY <1>2, <1>4, Inputs, InputsOn DEF PrintChar, Follows
  <2> QED  BY <1>2, <2>1, PutsOn
<1>5. ASSUME NEW s \in Sizes, ResizeAll(s), s[1] >= primary.cols, saveAlt => alternate = NoGrid
      PROVE  Kept2
  BY <1>5, ResizesFlow
<1> HIDE DEF Kept1, Kept2
<1> QED  BY <1>3, <1>4, <1>5

\* Printing with no region, and shrinking, lose nothing above the cursor:
\* LinesFlowToHistory, for every size of screen (do_scroll_up, Grid::resize).
THEOREM LinesFlow == Spec => LinesFlowToHistory
<1>1. []ScreensInv /\ [][Next]_vars => LinesFlowToHistory
  BY FlowsFromInvariant, PTL DEF LinesFlowToHistory
<1> QED  BY <1>1, ScreensInvariant, PTL DEF Spec
=============================================================================
