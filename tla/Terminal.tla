----------------------------- MODULE Terminal -----------------------------
(***************************************************************************)
(* A pane's terminal: the primary and the alternate screen, the handler    *)
(* that applies escape sequences to the active one, resizes, shell marks   *)
(* and the rows given to the scrollback (oakterm-terminal: handler.rs,     *)
(* grid/mod.rs).                                                           *)
(*                                                                         *)
(* One action per kind of escape sequence; the parser is external (vte).   *)
(* What happens to rows in the scrollback is ScrollArchive's, how a client *)
(* follows a switch of screens RenderSync's.                               *)
(***************************************************************************)
EXTENDS Grid, ShellScan

CONSTANTS
    Widths, Heights,   \* what a resize may ask for
    Counts,      \* what a sequence may give as a count
    MaxSteps     \* bound on the number of sequences and resizes

ASSUME SizesAssumption ==
    /\ Widths # {} /\ Widths \subseteq Nat \ {0}
    /\ Heights # {} /\ Heights \subseteq Nat \ {0}
ASSUME CountsAssumption == Counts \subseteq Nat
ASSUME StepsAssumption == MaxSteps \in Nat

Sizes == Widths \X Heights
AltModes == {47, 1047, 1049}
ModesRead == {4, 6, 7, 20} \cup AltModes     \* the bits a handler reads
NoGrid == [rows |-> 0]

VARIABLES
    active,      \* the screen shown
    primary,
    alternate,   \* NoGrid until it is first entered
    saveAlt,     \* save_alternate_scrollback
    pushed,      \* the rows the last step gave to the scrollback
    replaced,    \* history: the last step put another grid in a grid's place
    steps

vars == <<active, primary, alternate, saveAlt, pushed, replaced, steps>>

Init ==
    /\ active = "Primary"
    /\ \E s \in Sizes : primary = NewGrid(s[1], s[2])
    /\ alternate = NoGrid
    /\ saveAlt \in BOOLEAN
    /\ pushed = <<>> /\ replaced = FALSE
    /\ steps = 0

ActiveGrid == IF active = "Primary" THEN primary ELSE alternate

\* A step that changes neither screen is free.
Step ==
    /\ steps < MaxSteps
    /\ steps' = steps + (IF <<primary, alternate>>' = <<primary, alternate>> THEN 0 ELSE 1)

-----------------------------------------------------------------------------
\* One grid, and what it gave up for the scrollback.

\* TermTarget::push_scrollback: the alternate screen's rows are kept on
\* request only.
Kept(screen, rows) ==
    IF screen = "Alternate" /\ ~saveAlt THEN <<>> ELSE rows

\* The active grid becomes g.
Put(g) ==
    /\ IF active = "Primary"
       THEN primary' = [g EXCEPT !.out = <<>>] /\ UNCHANGED alternate
       ELSE alternate' = [g EXCEPT !.out = <<>>] /\ UNCHANGED primary
    /\ pushed' = Kept(active, g.out)
    /\ replaced' = FALSE
    /\ Step
    /\ UNCHANGED <<active, saveAlt>>

\* One of several grids.
PutOneOf(gs) == \E g \in gs : Put(g)

PrintChar == Put(Input(ActiveGrid))
LineFeed == Put(Linefeed(ActiveGrid))
Scroll == \E n \in Counts : PutOneOf({ScrollUp(ActiveGrid, n), ScrollDown(ActiveGrid, n)})
IndexUp == Put(ReverseIndex(ActiveGrid))
EditLines == \E n \in Counts : PutOneOf({InsertLines(ActiveGrid, n), DeleteLines(ActiveGrid, n)})
EditChars ==
    \E n \in Counts : PutOneOf({InsertBlank(ActiveGrid, n),
                                DeleteChars(ActiveGrid, n),
                                EraseChars(ActiveGrid, n)})
EraseLine == \E m \in {"Right", "Left", "All"} : Put(ClearLine(ActiveGrid, m))
EraseScreen ==
    \E m \in {"Below", "Above", "All", "Saved"} : Put(ClearScreen(ActiveGrid, m))
AlignmentTest == Put(Decaln(ActiveGrid))
SetColor == Put(Recolor(ActiveGrid))

\* Absolute and relative moves; move_up_and_cr and move_down_and_cr are a
\* move and a carriage return.
MoveTo == \E r, c \in Counts : Put(Goto(ActiveGrid, r, c))
MoveBy ==
    \E n \in Counts :
        LET up == MoveUp(ActiveGrid, n)
            down == MoveDown(ActiveGrid, n)
        IN PutOneOf({up, down, CarriageReturn(up), CarriageReturn(down),
                     GotoLine(ActiveGrid, n), GotoCol(ActiveGrid, n),
                     MoveForward(ActiveGrid, n), MoveBackward(ActiveGrid, n)})
Return == Put(CarriageReturn(ActiveGrid))
Backspace == Put(MoveBackward(ActiveGrid, 1))
Tabs == PutOneOf({NextTab(ActiveGrid), ForwardTab(ActiveGrid), BackTab(ActiveGrid)})
TabStops ==
    PutOneOf({SetTab(ActiveGrid), ClearTabs(ActiveGrid, "Current"),
              ClearTabs(ActiveGrid, "All")})
Save == Put(SaveCursor(ActiveGrid))
Restore == Put(RestoreCursor(ActiveGrid))
Region == \E t, b \in Counts \cup {1} : Put(SetRegion(ActiveGrid, t, b))
OriginMode == \E on \in BOOLEAN : Put(SetOrigin(ActiveGrid, on))
PlainMode == \E m \in ModesRead, on \in BOOLEAN : Put(SetMode(ActiveGrid, m, on))

-----------------------------------------------------------------------------
\* The two screens.

\* ScreenSet::enter_alternate
Allocated == IF alternate = NoGrid THEN NewGrid(primary.cols, primary.rows)
             ELSE alternate

\* DECSET 47, 1047, 1049: the flag, and for 1049 the cursor, stay on the
\* screen that is left.  47 and 1047 do nothing if that screen has the flag.
EnterAlternate(mode) ==
    /\ mode = 1049 \/ ~Has(ActiveGrid, mode)
    /\ LET left == WithMode(IF mode = 1049 THEN SaveCursor(ActiveGrid)
                            ELSE ActiveGrid, mode, TRUE)
           entered == IF active = "Alternate" THEN left ELSE Allocated
       IN /\ primary' = IF active = "Primary" THEN left ELSE primary
          /\ alternate' = IF mode = 47 THEN TouchAll(entered) ELSE ClearGrid(entered)
    /\ active' = "Alternate"
    /\ pushed' = <<>> /\ replaced' = (active = "Primary")
    /\ Step
    /\ UNCHANGED saveAlt

\* DECRST 47 and 1049.
LeaveAlternate(mode) ==
    /\ mode \in {47, 1049}
    /\ LET back == WithMode(primary, mode, FALSE)
       IN primary' = TouchAll(IF mode = 1049 THEN RestoreCursor(back) ELSE back)
    /\ active' = "Primary"
    /\ pushed' = <<>> /\ replaced' = (active = "Alternate")
    /\ UNCHANGED <<alternate, saveAlt>>
    /\ Step

\* DECRST 1047 clears the screen it leaves, which is the primary one if that
\* is active, and does not touch the rows of the screen it returns to.
LeaveAlternateClear ==
    /\ LET cleared == ClearGrid(ActiveGrid)
       IN IF active = "Alternate"
          THEN /\ alternate' = cleared
               /\ primary' = WithMode(primary, 1047, FALSE)
          ELSE /\ primary' = WithMode(cleared, 1047, FALSE)
               /\ UNCHANGED alternate
    /\ active' = "Primary"
    /\ pushed' = <<>> /\ replaced' = (active = "Alternate")
    /\ Step
    /\ UNCHANGED saveAlt

\* ScreenSet::reset (RIS); the scrollback stays.
Reset ==
    /\ active' = "Primary"
    /\ primary' = NewGrid(primary.cols, primary.rows)
    /\ alternate' = NoGrid
    /\ pushed' = <<>> /\ replaced' = TRUE
    /\ Step
    /\ UNCHANGED saveAlt

\* ScreenSet::resize_all: both grids, whichever is shown.
ResizeAll(size) ==
    /\ size \in Sizes
    /\ LET p == Resize(primary, size[1], size[2])
           a == IF alternate = NoGrid THEN NoGrid ELSE Resize(alternate, size[1], size[2])
       IN /\ primary' = [p EXCEPT !.out = <<>>]
          /\ alternate' = IF a = NoGrid THEN NoGrid ELSE [a EXCEPT !.out = <<>>]
          /\ pushed' = p.out \o (IF a = NoGrid THEN <<>> ELSE Kept("Alternate", a.out))
    /\ replaced' = FALSE
    /\ Step
    /\ UNCHANGED <<active, saveAlt>>

-----------------------------------------------------------------------------
\* Shell integration and readers.

\* PromptStart stands for InputStart and OutputStart, CommandFailed for a D
\* mark with a code.
Marks == {"PromptStart", "CommandFinished", "CommandFailed", "WorkingDirectory"}

\* apply_shell_mark, on a row.
Marked(row, mark) ==
    CASE mark = "CommandFinished" -> [row EXCEPT !.mark = "OutputEnd", !.meta = "None"]
      [] mark = "CommandFailed" -> [row EXCEPT !.mark = "OutputEnd", !.meta = "ExitCode"]
      [] mark = "WorkingDirectory" -> [row EXCEPT !.meta = mark]
      [] OTHER -> [row EXCEPT !.mark = mark,
                              !.meta = IF @ = "ExitCode" THEN "None" ELSE @]

ShellMark(mark) ==
    LET g == ActiveGrid
        r == g.cursor.row
    IN Put(TouchRows([g EXCEPT !.lines[r] = Marked(@, mark)], {r}))

\* get_render_update: a client is sent the active grid's fresh rows.
SendUpdate ==
    /\ \E r \in RowsOf(ActiveGrid) : ActiveGrid.lines[r].fresh
    /\ Put([ActiveGrid EXCEPT !.lines =
              [r \in RowsOf(ActiveGrid) |-> [@[r] EXCEPT !.fresh = FALSE]]])

\* report_private_mode: the modes of the alternate screen are asked of the
\* primary one, the others of the screen shown.
ReportPrivateMode(mode) ==
    IF mode \in AltModes THEN Has(primary, mode) ELSE Has(ActiveGrid, mode)

Next ==
    \/ PrintChar \/ LineFeed \/ Scroll \/ IndexUp
    \/ EditLines \/ EditChars \/ EraseLine \/ EraseScreen
    \/ AlignmentTest \/ SetColor
    \/ MoveTo \/ MoveBy \/ Return \/ Backspace \/ Tabs \/ TabStops
    \/ Save \/ Restore \/ Region \/ OriginMode \/ PlainMode
    \/ \E m \in AltModes : EnterAlternate(m) \/ LeaveAlternate(m)
    \/ LeaveAlternateClear \/ Reset
    \/ \E s \in Sizes : ResizeAll(s)
    \/ \E m \in Marks : ShellMark(m)
    \/ SendUpdate

Spec == Init /\ [][Next]_vars
-----------------------------------------------------------------------------
\* Properties.

\* What every slice and index of the handler relies on: rows as wide as the
\* screen says, cursors on it (past the last column while a wrap is pending).
InBounds(g) ==
    /\ DOMAIN g.lines = RowsOf(g)
    /\ \A r \in RowsOf(g) :
          /\ g.lines[r].width = g.cols
          /\ g.lines[r].ink \subseteq 0 .. LastCol(g)
    /\ g.cursor.row \in RowsOf(g) /\ g.cursor.col \in 0 .. g.cols
    /\ g.saved.row \in RowsOf(g) /\ g.saved.col \in 0 .. g.cols
    /\ g.region = NoRegion \/ (g.region.top < g.region.bottom
                               /\ g.region.bottom \in RowsOf(g))
    /\ g.stops \subseteq 0 .. LastCol(g)
    /\ g.out = <<>>

\* An exit code belongs to the end of an output.
CodesEndOutputs(g) ==
    \A r \in RowsOf(g) : g.lines[r].meta = "ExitCode" => g.lines[r].mark = "OutputEnd"

\* No sequence, in whatever order, can make the handler index out of a row, a
\* screen or the tab stops; the two screens have one size; the alternate one
\* exists while it is shown; exit codes stand by the outputs they end.
TypeOK ==
    /\ InBounds(primary) /\ CodesEndOutputs(primary)
    /\ alternate # NoGrid =>
          /\ InBounds(alternate) /\ CodesEndOutputs(alternate)
          /\ alternate.cols = primary.cols /\ alternate.rows = primary.rows
    /\ active = "Alternate" => alternate # NoGrid
    /\ saveAlt \in BOOLEAN /\ replaced \in BOOLEAN

\* What a program in origin mode is told of the cursor (device_status): it is
\* in the region, and the row reported is the row a goto would go back to.
ReportsOrigin(g) ==
    /\ InRegion(g)
    /\ GotoLine(g, CursorReport(g)[1] - 1).cursor.row = g.cursor.row

\* Modes mean what a program is told of them (report_private_mode): while the
\* alternate screen is shown one of its modes is reported set, and in origin
\* mode the cursor's report is true.  The exception: set_mode (ESC[6h without
\* the ?) stores the bit and leaves the cursor outside the region, and it is
\* true again only once a goto, a new region, DECOM, a restore, DECALN or a
\* resize has placed the cursor.
ModesHoldTrue ==
    /\ active = "Alternate" => \E m \in AltModes : ReportPrivateMode(m)
    /\ ReportPrivateMode(6) /\ ~ ActiveGrid.strayed => ReportsOrigin(ActiveGrid)

\* Any order of sequences leaves the screens sound and their modes true.
ScreensHold == TypeOK /\ ModesHoldTrue

Shown(row) == <<row.ink, row.mark, row.meta>>

\* What a client shows of the screen is never stale without a trace: a row
\* of the active screen that a step changes is newer than what the client was
\* sent, and stays so until it is sent (dirty_rows).
ChangedRowsShip ==
    [][~replaced' /\ active' = active =>
         \A r \in RowsOf(ActiveGrid) \cap RowsOf(ActiveGrid') :
            LET was == ActiveGrid.lines[r]
                now == ActiveGrid'.lines[r]
            IN /\ Shown(now) # Shown(was) => now.fresh
               /\ was.fresh /\ ~now.fresh => SendUpdate]_vars

Lines(g) == [i \in 1 .. g.rows |-> Shown(g.lines[i - 1])]
Texts(rows) == [i \in 1 .. Len(rows) |-> Shown(rows[i])]
IsFront(s, t) == Len(s) <= Len(t) /\ SubSeq(t, 1, Len(s)) = s

\* Printing with no region, and shrinking, lose nothing above the cursor: what
\* the scrollback receives is the top of the screen, in order, and what stays
\* follows on.  A row below the cursor is the most a shrink may drop.  (With
\* save_alternate_scrollback a shrink also gives the rows of an alternate
\* screen, shown or not, and they come in between.)
LinesFlowToHistory ==
    [][active = "Primary" /\ primary.region = NoRegion =>
         LET above(g) == SubSeq(Lines(g), 1, g.cursor.row)
         IN /\ LineFeed => IsFront(above(primary), Texts(pushed') \o Lines(primary'))
            /\ PrintChar => IsFront(above(primary), Texts(pushed') \o Lines(primary'))
            /\ (\E s \in Sizes : ResizeAll(s) /\ s[1] >= primary.cols)
               /\ (saveAlt => alternate = NoGrid) =>
                  IsFront(SubSeq(Lines(primary), 1, primary.cursor.row + 1),
                          Texts(pushed') \o Lines(primary'))]_vars

\* The shell's marks stand on the rows the shell sent them for, however the
\* reads of the pty cut its output, but for the two that are Lost.  (The scanner reads nothing of the screens
\* and starts where nothing was printed, so the question is asked there.)
MarksStandWhereSent == steps = 0 => SetWhereSent
=============================================================================
