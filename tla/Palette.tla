------------------------------ MODULE Palette ------------------------------
(***************************************************************************)
(* The command palette of the GUI client: the catalog of core actions and  *)
(* what each needs to be performable (oakterm-config/src/actions.rs), and  *)
(* the palette's query, ranking and selection (oakterm/src/palette.rs).    *)
(* Everything here is a function of its arguments, as in the code: the     *)
(* caller passes the live catalog and a snapshot of the context.           *)
(*                                                                         *)
(* A label is kept as the skeleton a match depends on: the initial of each *)
(* word and one more letter of a word that shares it, "_" for a space.     *)
(***************************************************************************)
EXTENDS Integers, Sequences, FiniteSets, SequencesExt

CONSTANT MaxVisible        \* MAX_VISIBLE_RESULTS, 10 rows in the code

ASSUME PaletteAssumption == MaxVisible \in Nat \ {0}

-----------------------------------------------------------------------------
\* The catalog, in the order of ActionId::ALL.
Catalog == << "SplitPaneRight", "SplitPaneDown", "ClosePane", "FocusPaneLeft",
              "FocusPaneRight", "FocusPaneUp", "FocusPaneDown", "NewTab",
              "CloseTab", "NextTab", "PreviousTab", "ToggleFullscreen",
              "ShowCommandPalette", "ReloadConfig", "EnterCopyMode", "Find" >>

ActionIds == ToSet(Catalog)

\* The same actions by category and then by label, as default_view sorts them.
ByCategory == << "ClosePane", "SplitPaneDown", "SplitPaneRight", "CloseTab",
                 "NewTab", "NextTab", "PreviousTab", "FocusPaneDown",
                 "FocusPaneLeft", "FocusPaneRight", "FocusPaneUp",
                 "EnterCopyMode", "Find", "ShowCommandPalette",
                 "ToggleFullscreen", "ReloadConfig" >>

Label == [SplitPaneRight     |-> <<"s", "_", "p", "_", "r">>,
          SplitPaneDown      |-> <<"s", "_", "p", "_", "d">>,
          ClosePane          |-> <<"c", "l", "_", "p", "n">>,
          FocusPaneLeft      |-> <<"f", "_", "p", "_", "l">>,
          FocusPaneRight     |-> <<"f", "_", "p", "_", "r">>,
          FocusPaneUp        |-> <<"f", "_", "p", "_", "u", "p">>,
          FocusPaneDown      |-> <<"f", "_", "p", "n", "_", "d", "n">>,
          NewTab             |-> <<"n", "_", "t">>,
          CloseTab           |-> <<"c", "l", "_", "t">>,
          NextTab            |-> <<"n", "x", "_", "t">>,
          PreviousTab        |-> <<"p", "r", "_", "t">>,
          ToggleFullscreen   |-> <<"t", "l", "_", "f", "n">>,
          ShowCommandPalette |-> <<"s", "_", "c", "n", "_", "p">>,
          ReloadConfig       |-> <<"r", "l", "_", "c", "n">>,
          EnterCopyMode      |-> <<"e", "n", "_", "c", "p", "_", "m">>,
          Find               |-> <<"f", "n">>]

\* What performability depends on: the panes of the tab, the tabs, the
\* directions in which the focused pane has a neighbour, and whether the
\* daemon is new enough for copy mode.
Performable(id, ctx) ==
    CASE id = "ClosePane" -> ctx.panes > 1 \/ ctx.tabs > 1
      [] id \in {"CloseTab", "NextTab", "PreviousTab"} -> ctx.tabs > 1
      [] id = "FocusPaneLeft"  -> "left" \in ctx.focus
      [] id = "FocusPaneRight" -> "right" \in ctx.focus
      [] id = "FocusPaneUp"    -> "up" \in ctx.focus
      [] id = "FocusPaneDown"  -> "down" \in ctx.focus
      [] id \in {"EnterCopyMode", "Find"} -> ctx.copyMode
      [] OTHER -> TRUE

-----------------------------------------------------------------------------
(***************************************************************************)
(* Fuzzy matching: the code's dynamic programme, dp[i][j] the best score   *)
(* with query[i] matched at label position j and from[i][j] the position   *)
(* of query[i-1] on that path.                                             *)
(***************************************************************************)
Unreachable == -1000

PositionalBonus(label, j) ==
    IF j = 1 THEN 3 ELSE IF label[j - 1] = "_" THEN 2 ELSE 0

\* Variant, for mutation: a run of matched letters earns nothing.
StepWithoutRuns(label, k, j) == PositionalBonus(label, j) - (j - k - 1)

Step(label, k, j) ==
    PositionalBonus(label, j) + (IF j = k + 1 THEN 3 ELSE 0) - (j - k - 1)

\* The first row of the table, then each row from the one before: score and
\* back pointer of each label position, the first best predecessor winning.
FirstRow(query, label) ==
    [j \in 1..Len(label) |->
        [score |-> IF label[j] = query[1] THEN PositionalBonus(label, j) ELSE Unreachable,
         from  |-> 0]]

NextRow(query, label, i, row) ==
    [j \in 1..Len(label) |->
        LET ks == {k \in (i - 1)..(j - 1) : row[k].score # Unreachable}
            at(k) == row[k].score + Step(label, k, j)
            best == {k \in ks : \A l \in ks : at(l) < at(k) \/ (at(l) = at(k) /\ k <= l)}
        IN IF j < i \/ label[j] # query[i] \/ ks = {}
           THEN [score |-> Unreachable, from |-> 0]
           ELSE LET k == CHOOSE k \in best : TRUE IN [score |-> at(k), from |-> k]]

Rows(query, label) ==
    LET table[i \in 1..Len(query)] ==
            IF i = 1 THEN FirstRow(query, label) ELSE NextRow(query, label, i, table[i - 1])
    IN table

NoMatch == [found |-> FALSE, score |-> 0, at |-> <<>>]

\* The best last position, the earliest of equals, and the positions of the
\* other characters read back through the table.
BestPath(rows, n) ==
    LET ends == {j \in DOMAIN rows[n] : rows[n][j].score # Unreachable}
        Best(last) ==
            LET pos[i \in 1..n] == IF i = n THEN last ELSE rows[i + 1][pos[i + 1]].from
            IN [found |-> TRUE, score |-> rows[n][last].score, at |-> [i \in 1..n |-> pos[i]]]
    IN IF ends = {} THEN NoMatch
       ELSE Best(CHOOSE j \in ends : \A l \in ends :
                   \/ rows[n][l].score < rows[n][j].score
                   \/ rows[n][l].score = rows[n][j].score /\ j <= l)

\* fuzzy_match.
FuzzyMatch(query, label) ==
    IF query = <<>> THEN [found |-> TRUE, score |-> 0, at |-> <<>>]
    ELSE IF Len(query) > Len(label) THEN NoMatch
    ELSE BestPath(Rows(query, label), Len(query))

\* Reference: every way of matching the query in the label in order, scored
\* by the rules alone.
Alignments(query, label) ==
    {p \in [1..Len(query) -> 1..Len(label)] :
        /\ \A i \in 1..Len(query) : label[p[i]] = query[i]
        /\ \A i \in 1..(Len(query) - 1) : p[i] < p[i + 1]}

Score(label, p) ==
    FoldLeft(+, PositionalBonus(label, p[1]),
             [i \in 1..(Len(p) - 1) |->
                PositionalBonus(label, p[i + 1])
                  + (IF p[i + 1] = p[i] + 1 THEN 3 ELSE 0) - (p[i + 1] - p[i] - 1)])

-----------------------------------------------------------------------------
\* The palette: [visible, query, results, selected, window, recent]; a
\* result is the action, its score and the matched positions.
Closed == [visible |-> FALSE, query |-> <<>>, results |-> <<>>, selected |-> 1,
           window |-> 1, recent |-> <<>>]

\* parse_query: a leading sign scopes the query; three of the scopes have no
\* provider yet.
Scoped(query) ==
    LET sign == IF query = <<>> THEN "" ELSE query[1]
    IN [empty |-> sign \in {"@", "#", ":"},
        text  |-> IF sign \in {">", "@", "#", ":"} THEN Tail(query) ELSE query]

Found(ids) == [i \in 1..Len(ids) |-> [id |-> ids[i], score |-> 0, at |-> <<>>]]

\* The k-th of some indices, from the lowest.
Nth(S, k) == CHOOSE i \in S : Cardinality({j \in S : j < i}) = k - 1

\* The items of a sequence that are in a set, in its order.
SelectIn(s, T) ==
    LET hits == {i \in DOMAIN s : s[i] \in T}
    IN [k \in 1..Cardinality(hits) |-> s[Nth(hits, k)]]

DefaultView(recent, ctx) ==
    LET fit == {id \in ActionIds : Performable(id, ctx)}
    IN Found(SelectIn(recent, fit) \o SelectIn(ByCategory, fit \ ToSet(recent)))

\* Better score first, then the shorter label, then catalog order (the sort
\* is stable).
InOrder(m) ==
    LET before(i, j) == \/ m[i].score > m[j].score
                        \/ /\ m[i].score = m[j].score
                           /\ \/ Len(Label[m[i].id]) < Len(Label[m[j].id])
                              \/ Len(Label[m[i].id]) = Len(Label[m[j].id]) /\ i < j
        place(i) == Cardinality({j \in 1..Len(m) : before(j, i)}) + 1
    IN [k \in 1..Len(m) |-> m[CHOOSE i \in 1..Len(m) : place(i) = k]]

Ranked(query, ctx) ==
    LET found == {id \in ActionIds : Performable(id, ctx) /\ FuzzyMatch(query, Label[id]).found}
        ids == SelectIn(Catalog, found)
        scored(id, m) == [id |-> id, score |-> m.score, at |-> m.at]
    IN InOrder([i \in 1..Len(ids) |-> scored(ids[i], FuzzyMatch(query, Label[ids[i]]))])

Results(query, recent, ctx) ==
    LET q == Scoped(query)
    IN IF q.empty THEN <<>>
       ELSE IF q.text = <<>> THEN DefaultView(recent, ctx)
       ELSE Ranked(q.text, ctx)

\* open, input_char and backspace all refresh with the selection at the top.
Refreshed(p, query, ctx) ==
    [p EXCEPT !.query = query, !.selected = 1, !.window = 1,
              !.results = Results(query, p.recent, ctx)]

OpenPalette(p, ctx) == Refreshed([p EXCEPT !.visible = TRUE], <<>>, ctx)

ClosePalette(p) == [p EXCEPT !.visible = FALSE]

InputChar(p, c, ctx) == Refreshed(p, Append(p.query, c), ctx)

Backspaced(p, ctx) ==
    Refreshed(p, IF p.query = <<>> THEN <<>> ELSE Front(p.query), ctx)

MoveUp(p) ==
    LET to == IF p.selected = 1 THEN 1 ELSE p.selected - 1
    IN [p EXCEPT !.selected = to, !.window = IF to < @ THEN to ELSE @]

MoveDown(p) ==
    IF p.selected >= Len(p.results) THEN p
    ELSE [p EXCEPT !.selected = @ + 1,
                   !.window = IF p.selected + 1 >= @ + MaxVisible THEN @ + 1 ELSE @]

\* confirm: with nothing selected the palette stays open; a confirmed action
\* moves to the front of the five most recent.
CanConfirm(p) == p.selected <= Len(p.results)

Confirmed(p) ==
    LET id == p.results[p.selected].id
        rest == SelectIn(p.recent, ActionIds \ {id})
        all == <<id>> \o rest
    IN [p EXCEPT !.visible = FALSE, !.recent = SubSeq(all, 1, IF Len(all) < 5 THEN Len(all) ELSE 5)]

-----------------------------------------------------------------------------
\* What the open palette owes its user, for any query and context: exactly
\* the performable actions that contain the query in order, each with the
\* best score any alignment earns and with positions that earn it, better
\* matches first, and the selected row inside the visible window.
ShowsTheBest(p, ctx) ==
    LET q == Scoped(p.query)
        shown == {p.results[i].id : i \in 1..Len(p.results)}
        fit == {id \in ActionIds : Performable(id, ctx) /\ ~ q.empty
                    /\ (q.text = <<>> \/ Alignments(q.text, Label[id]) # {})}
    IN /\ shown = fit /\ Len(p.results) = Cardinality(fit)
       /\ q.text # <<>> =>
            \A i \in 1..Len(p.results) :
                LET r == p.results[i]
                    all == Alignments(q.text, Label[r.id])
                IN /\ r.at \in all /\ Score(Label[r.id], r.at) = r.score
                   /\ \A a \in all : Score(Label[r.id], a) <= r.score
                   /\ i > 1 => p.results[i - 1].score >= r.score
       /\ p.results # <<>> => /\ p.selected \in 1..Len(p.results)
                              /\ p.selected \in p.window..(p.window + MaxVisible - 1)
=============================================================================
