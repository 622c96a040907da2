---------------------------- MODULE Scrollback ----------------------------
(***************************************************************************)
(* A pane's history and what clients ask of it: pages (GetScrollback),     *)
(* yanks and searches (oakterm-daemon: requests/scrollback.rs,             *)
(* requests/copy_mode.rs, requests/search.rs; oakterm-terminal:            *)
(* hot_buffer.rs, search.rs).                                              *)
(*                                                                         *)
(* A row is its absolute index, whichever tier holds it: the archive       *)
(* (module ScrollArchive), the hot buffer or the grid.  A page is planned  *)
(* and its live rows copied under the pane lock, the archive read under    *)
(* none; a yank takes the lock again when the archive has answered.        *)
(* Meanwhile rows move down a tier.  A client's copy-mode pin is a row,    *)
(* any row: that a resize drops it is in module CopyModePins.  Columns are *)
(* left out, and a row matches a search once or not at all.                *)
(***************************************************************************)
EXTENDS ScrollArchive, Integers, SequencesExt

CONSTANTS
    MaxRows,        \* bound on the rows that scroll off
    HotRows,        \* scrollback limit in rows, of a pane with an archive
    BareHotRows,    \* and of one without
    GridRows,
    MaxPage,        \* MAX_SCROLLBACK_ROWS_PER_REQUEST
    MaxYank,        \* MAX_YANK_ROWS
    MaxMatches,     \* MAX_MATCHES
    MaxSearches,    \* bound on the search requests
    Matching,       \* the rows that match the query
    Prompts,        \* the rows that carry a prompt mark
    Blank,          \* a row with nothing on it
    None            \* no pin, no match, no search

ASSUME ScrollbackAssumption ==
    /\ {MaxRows, HotRows, BareHotRows, MaxPage} \subseteq Nat
    /\ {MaxYank, MaxMatches, MaxSearches} \subseteq Nat
    /\ GridRows \in Nat \ {0} /\ MaxMatches > 0
    /\ Matching \subseteq Nat /\ Prompts \subseteq Nat
    /\ Blank \notin Int /\ None \notin Int

VARIABLES
    alive,      \* the pane is not closed
    attached,   \* it has an archive
    pushed,     \* rows that ever scrolled off
    hot,        \* the hot buffer
    plan,       \* reader -> what it has planned
    served,     \* history: <<index, row>> pairs that requests returned
    blank,      \* history: indices that requests left blank
    engine,     \* the pane's SearchEngine, or None
    found,      \* what the last search request was answered
    searches    \* search requests so far

paneVars == <<alive, attached, pushed, hot>>
answerVars == <<plan, served, blank>>
searchVars == <<engine, found, searches>>
vars == <<archiveVars, paneVars, answerVars, searchVars>>

Init ==
    /\ alive = TRUE /\ attached \in BOOLEAN
    /\ ArchiveInit(attached)
    /\ pushed = 0 /\ hot = <<>>
    /\ plan = [r \in Readers |-> None]
    /\ served = {} /\ blank = {}
    /\ engine = None /\ found = None /\ searches = 0

-----------------------------------------------------------------------------
\* The tiers: HistoryLayout.

Lesser(a, b) == IF a < b THEN a ELSE b
Greater(a, b) == IF a < b THEN b ELSE a
Monus(a, b) == Greater(a - b, 0)

Layout == [archived |-> IF attached THEN Lesser(received, pushed - Len(hot)) ELSE 0,
           hotFirst |-> pushed - Len(hot),
           pushed |-> pushed]

HotLimit == IF attached THEN HotRows ELSE BareHotRows

HotRow(i) == IF i + 1 \in DOMAIN hot THEN hot[i + 1] ELSE Blank

\* prune_if_needed: over the limit, some of the oldest rows go: how many is a
\* matter of their widths.
Pruned(rows) == IF Len(rows) <= HotLimit THEN {0} ELSE 1 .. Len(rows)

\* push_to_scrollback: one row more, and those pruned go to the archive if
\* there is one.
PushToScrollback ==
    /\ Up /\ alive /\ manager # "closing"
    /\ pushed < MaxRows
    /\ pushed' = pushed + 1
    /\ LET rows == Append(hot, pushed)
       IN  \E n \in Pruned(rows) :
             /\ hot' = SubSeq(rows, n + 1, Len(rows))
             /\ IF attached /\ n > 0
                THEN ManagerArchiveRows(SubSeq(rows, 1, n))
                ELSE UNCHANGED archiveVars
    /\ UNCHANGED <<alive, attached, answerVars, searchVars>>

\* shutdown_removed_pane: closed, for whoever locks the pane from here on ...
ClosePane ==
    /\ Up /\ alive /\ manager # "closing"
    /\ alive' = FALSE
    /\ UNCHANGED <<archiveVars, attached, pushed, hot, answerVars, searchVars>>

\* ... and dropped with its archive once its read loop has let go of it.  (The
\* daemon's shutdown does not see a pane that is out of the map.)
DropPane ==
    /\ Up /\ ~ alive /\ manager = "open"
    /\ DropManager
    /\ UNCHANGED <<paneVars, answerVars, searchVars>>

-----------------------------------------------------------------------------
\* GetScrollback.

\* plan_scrollback_read: a window of history, split over its tiers.
PlanScrollbackRead(l, base, start_row, count) ==
    LET start == Lesser(Greater(base + start_row, 0), l.pushed)
        end == Lesser(start + Lesser(count, MaxPage), l.pushed)
        archiveEnd == Lesser(end, l.archived)
        hotFrom == Greater(start, l.hotFirst)
    IN  [archive |-> [lo |-> Lesser(start, archiveEnd), hi |-> archiveEnd],
         servedStart |-> start - base,
         gap |-> Monus(Lesser(end, l.hotFirst), Greater(start, l.archived)),
         hotStart |-> hotFrom - l.hotFirst,
         hotCount |-> Monus(end, hotFrom)]

BuildTail(p) ==
    [k \in 1 .. p.gap |-> Blank]
      \o [k \in 1 .. p.hotCount |-> HotRow(p.hotStart + k - 1)]

\* align_archive_rows
Aligned(rows, w) ==
    [k \in 1 .. w.hi - w.lo |->
       IF \E p \in rows : p[1] = w.lo + k - 1
       THEN (CHOOSE p \in rows : p[1] = w.lo + k - 1)[2] ELSE Blank]

\* An answer reaches its client, who files its rows by position from first
\* on.  What it leaves blank is noted, but for the indices excused.
Deliver(first, rows, excused) ==
    /\ served' = served \cup {<<first + k - 1, rows[k]>>
                                : k \in {k \in DOMAIN rows : rows[k] # Blank}}
    /\ blank' = blank \cup ({first + k - 1 : k \in {k \in DOMAIN rows :
                                                      rows[k] = Blank}} \ excused)

Finish(r, outcome) ==
    /\ EndRead(r, outcome)
    /\ plan' = [plan EXCEPT ![r] = None]

\* A plan that reaches into the archive goes to the writer, unless the writer
\* has been shut down.
NeedsArchive(w) == w.lo < w.hi

GetScrollback(r, base, start_row, count) ==
    LET p == PlanScrollbackRead(Layout, base, start_row, count)
        first == base + p.servedStart
        tail == BuildTail(p)
    IN  /\ Up /\ alive /\ manager # "closing"
        /\ read[r] = "idle"
        /\ IF ~ NeedsArchive(p.archive)
           THEN Deliver(first, tail, {}) /\ Finish(r, "answered")
           ELSE /\ IF manager = "none" THEN Finish(r, "failed")
                   ELSE /\ StartRead(r, p.archive)
                        /\ plan' = [plan EXCEPT ![r] =
                             [kind |-> "page", first |-> first, tail |-> tail]]
                /\ UNCHANGED <<served, blank>>
        /\ UNCHANGED <<paneVars, searchVars>>

AssemblePage(r) ==
    /\ Up /\ read[r] = "replied" /\ plan[r].kind = "page"
    /\ Deliver(plan[r].first, Aligned(reply[r], window[r]) \o plan[r].tail, {})
    /\ Finish(r, "answered")
    /\ UNCHANGED <<paneVars, searchVars>>

-----------------------------------------------------------------------------
\* YankSelection: resolve_yank.

\* The rows between two endpoints, below what there is.
PlanYank(base, start_row, end_row) ==
    LET a == Greater(base + start_row, 0)
        b == Greater(base + end_row, 0)
    IN  [first |-> Lesser(a, b),
         last |-> Lesser(Greater(a, b), pushed + GridRows - 1)]

\* collect_yank_text: each row from the tier it is in by now.
CollectYankText(l, y) ==
    [k \in 1 .. y.last - y.first + 1 |->
       LET row == y.first + k - 1
           i == row - y.start + 1
       IN  IF row < l.archived
           THEN IF i \in DOMAIN y.rows THEN y.rows[i] ELSE Blank
           ELSE IF row < l.hotFirst THEN Blank
           ELSE IF row < l.pushed THEN HotRow(row - l.hotFirst)
           ELSE row]

\* The rows that moved into the archive after its last read are blank, and
\* known to be.
MovedLate(l, y) == IF y.kind = "topped" THEN y.top .. l.archived - 1 ELSE {}

DeliverYank(r, y) ==
    /\ Deliver(y.first, CollectYankText(Layout, y), MovedLate(Layout, y))
    /\ Finish(r, "answered")

\* Under the second lock: what has moved into the archive meanwhile is read
\* too, once.
TopUp(l, y) == [lo |-> Greater(y.top, y.first),
                hi |-> Lesser(l.archived, y.last + 1)]

\* Variant, for mutation: what has been read will do.
ContinueYankAtOnce(r, y) == DeliverYank(r, y)

ContinueYank(r, y) ==
    LET w == TopUp(Layout, y)
    IN  IF ~ NeedsArchive(w) THEN DeliverYank(r, y)
        ELSE /\ IF manager = "none" THEN Finish(r, "failed")
                ELSE /\ StartRead(r, w)
                     /\ plan' = [plan EXCEPT ![r] = [y EXCEPT !.kind = "topped"]]
             /\ UNCHANGED <<served, blank>>

\* What the archive answered joins the window, at its end.
Extended(y, w, rows) ==
    [y EXCEPT !.start = IF y.rows = <<>> THEN w.lo ELSE @,
              !.rows = @ \o rows, !.top = w.hi]

YankSelection(r, base, start_row, end_row) ==
    LET p == PlanYank(base, start_row, end_row)
        w == [lo |-> Lesser(p.first, Layout.archived),
              hi |-> Lesser(p.last + 1, Layout.archived)]
        y == [kind |-> "yank", first |-> p.first, last |-> p.last,
              start |-> w.lo, rows |-> <<>>, top |-> w.hi]
    IN  /\ Up /\ alive /\ manager # "closing"
        /\ read[r] = "idle"
        /\ IF p.first > p.last THEN Finish(r, "answered")
           ELSE IF p.last - p.first + 1 > MaxYank THEN Finish(r, "failed")
           ELSE IF ~ NeedsArchive(w)
           THEN SkipRead(r, w) /\ plan' = [plan EXCEPT ![r] = y]
           ELSE IF manager = "none" THEN Finish(r, "failed")
           ELSE StartRead(r, w) /\ plan' = [plan EXCEPT ![r] = y]
        /\ UNCHANGED <<served, blank, paneVars, searchVars>>

\* The archive has answered, or was not asked: the pane's lock again, if there
\* is a pane still.
ResumeYank(r) ==
    /\ Up /\ read[r] = "replied" /\ plan[r].kind \in {"yank", "topped"}
    /\ manager # "closing"
    /\ LET y == Extended(plan[r], window[r], Aligned(reply[r], window[r]))
       IN  IF ~ alive THEN Finish(r, "failed") /\ UNCHANGED <<served, blank>>
           ELSE IF y.kind = "yank" THEN ContinueYank(r, y)
           ELSE DeliverYank(r, y)
    /\ UNCHANGED <<paneVars, searchVars>>

-----------------------------------------------------------------------------
\* The k-th of some indices, from the lowest.
Nth(S, k) == CHOOSE i \in S : Cardinality({j \in S : j < i}) = k - 1

\* The search.  An engine keeps the hot-buffer indices of its matches, from
\* the moment it ran; prunedThen is a history variable.

EngineOn(rows) ==
    LET hits == {i \in 0 .. Len(rows) - 1 : rows[i + 1] \in Matching}
        kept == Lesser(Cardinality(hits), MaxMatches)
    IN  [matches |-> [k \in 1 .. kept |-> Nth(hits, k)], active |-> kept,
         prunedThen |-> pushed - Len(rows)]

\* next and prev, which wrap; 0 is no match.
Advance(e, active, forward) ==
    LET n == Len(e.matches)
    IN  IF n = 0 THEN active
        ELSE IF forward THEN IF active \in 1 .. n - 1 THEN active + 1 ELSE 1
        ELSE IF active \in {0, 1} THEN n ELSE active - 1

\* row_limit_for: the hot-buffer index of the pinned page's first row.
RowLimitFor(pin) == Monus(pin, Layout.hotFirst)

Eligible(e, pin) ==
    {i \in DOMAIN e.matches : pin = None \/ e.matches[i] < RowLimitFor(pin)}

\* skip_ineligible_matches: on in the same direction until a match the pinned
\* client may see, once around at most.
SkipIneligible(e, pin, forward) ==
    LET at[k \in 0 .. Len(e.matches)] ==
          IF k = 0 THEN e.active ELSE Advance(e, at[k - 1], forward)
        stops == {k \in DOMAIN at : at[k] \in Eligible(e, pin)}
    IN  IF stops = {} THEN e
        ELSE [e EXCEPT !.active = at[CHOOSE k \in stops : \A m \in stops : k <= m]]

\* What a client counts rows from: the page it has pinned, or the end.
Origin(pin) == IF pin = None THEN pushed ELSE pin

\* build_search_response.  A client reads an offset from its own origin (at).
SearchResponse(e, pin, by) ==
    [by |-> by, pin |-> pin, at |-> Origin(pin),
     total |-> Cardinality(Eligible(e, pin)),
     offset |-> IF e.active \in Eligible(e, pin)
                THEN Layout.hotFirst + e.matches[e.active] - Origin(pin) ELSE None,
     fresh |-> e.prunedThen = Layout.hotFirst]

\* Bound: searches are explored on a pane without an archive, which takes no
\* part in them.
SearchExplored == ~ attached

SearchRequest ==
    /\ SearchExplored
    /\ Up /\ alive
    /\ searches < MaxSearches
    /\ searches' = searches + 1
    /\ UNCHANGED <<archiveVars, paneVars, answerVars>>

\* The query is new; the engine is the pane's, whoever asked.
SearchScrollback(pin) ==
    /\ SearchRequest
    /\ engine' = EngineOn(hot)
    /\ found' = SearchResponse(engine', pin, "search")

\* SearchNext, SearchPrev.
SearchNav(pin, forward) ==
    /\ SearchRequest
    /\ IF engine = None THEN engine' = None /\ found' = None
       ELSE /\ engine' = SkipIneligible(
                 [engine EXCEPT !.active = Advance(engine, @, forward)], pin, forward)
            /\ found' = SearchResponse(engine', pin, "nav")

\* SearchClose.  What a client was answered before no longer stands.
SearchClose ==
    /\ SearchRequest
    /\ engine' = None /\ found' = None

\* find_prompt_in_buffer: the nearest prompt, older or newer than an offset
\* from base, as such an offset.
FindPromptInBuffer(rows, first, base, from, older) ==
    LET start == Lesser(Greater(base + from - first, 0), Len(rows))
        hits == {i \in 0 .. Len(rows) - 1 :
                   /\ rows[i + 1] \in Prompts
                   /\ IF older THEN i < start ELSE i > start}
    IN  IF hits = {} THEN None
        ELSE first + (IF older THEN Max(hits) ELSE Min(hits)) - base

\* Variant, for mutation: a page's own prompt hides the older ones.
FindPromptOnPage(rows, first, pin, from, older) ==
    LET found_offset == FindPromptInBuffer(rows, first, Origin(pin), from, older)
    IN  IF found_offset # None /\ pin # None /\ found_offset >= 0 THEN None
        ELSE found_offset

\* find_prompt: a pinned client is not shown a prompt of its page.
FindPrompt(rows, first, pin, from, older) ==
    LET from_offset == IF pin # None /\ older THEN Lesser(from, 0) ELSE from
        found_offset == FindPromptInBuffer(rows, first, Origin(pin), from_offset, older)
    IN  IF found_offset # None /\ pin # None /\ found_offset >= 0 THEN None
        ELSE found_offset

-----------------------------------------------------------------------------
Bases == 0 .. pushed

\* What a client may ask for, one row beyond history on either side.
Offsets == -1 - MaxRows .. GridRows

Request(r) ==
    \/ \E base \in Bases, start_row \in Offsets, count \in 0 .. MaxPage + 1 :
         GetScrollback(r, base, start_row, count)
    \/ \E base \in Bases, start_row, end_row \in Offsets :
         YankSelection(r, base, start_row, end_row)
    \/ AssemblePage(r) \/ ResumeYank(r)

Search ==
    \/ \E pin \in Bases \cup {None} :
         SearchScrollback(pin) \/ \E forward \in BOOLEAN : SearchNav(pin, forward)
    \/ SearchClose

ArchiveStep ==
    /\ \/ WriterStep \/ Exit \/ \E r \in Readers : ReaderStep(r)
       \/ alive /\ (SendShutdown \/ ShutdownDone)
    /\ plan' = [r \in Readers |-> IF read'[r] = "failed" THEN None ELSE plan[r]]
    /\ UNCHANGED <<paneVars, served, blank, searchVars>>

Next ==
    \/ PushToScrollback \/ ClosePane \/ DropPane \/ Search \/ ArchiveStep
    \/ \E r \in Readers : Request(r)

Spec == Init /\ [][Next]_vars

-----------------------------------------------------------------------------
\* No request is ever answered with another row than the one it asked for,
\* whatever was lost before it on whichever channel, over every seam between
\* archive, hot buffer and grid, and whichever rows crossed one meanwhile.
ReadsAreAligned == \A p \in served : p[1] = p[2]

\* "Archive read errors return an error frame, never blanks: blank rows always
\* mean permanently absent history" (docs/specs/0004): what an answer left
\* blank is in no tier and on its way to none.  A yank is excused for rows
\* that reach the archive after its second read.
BlankIsGone == blank \cap (Kept(core) \cup Queued \cup {hot[i] : i \in DOMAIN hot}) = {}

\* A search's answer never names a row of the page its client has pinned,
\* however much was pruned since the search ran; it names a row that matches
\* unless something was; and a step to the next or previous match does not
\* end on nothing while there is a match the client may see.
SearchAnswersFit ==
    found # None =>
      /\ found.offset # None =>
           /\ found.pin # None => found.offset < 0
           /\ found.fresh => found.at + found.offset \in Matching
      /\ found.by = "nav" /\ found.total > 0 => found.offset # None

\* A prompt search from any row, by any client, finds the nearest prompt of
\* the buffer on that side that is not on the client's own pinned page,
\* whatever was pruned.  From a row the buffer has lost, it starts at the
\* first it has.
PromptsAreNearest ==
    SearchExplored =>
      \A pin \in Bases \cup {None}, from \in Offsets, older \in BOOLEAN :
        LET start == from + Origin(pin)
            shown == {p \in Prompts :
                        /\ p \in Layout.hotFirst .. pushed - 1
                        /\ pin # None => p < pin
                        /\ IF older THEN p < start
                           ELSE p > Greater(start, Layout.hotFirst)}
            answer == FindPrompt(hot, Layout.hotFirst, pin, from, older)
        IN  IF shown = {} THEN answer = None
            ELSE /\ answer # None
                 /\ Origin(pin) + answer = IF older THEN Max(shown) ELSE Min(shown)

\* What a read answers is what was asked for, and blank only where history is
\* gone.
ReadsAreTrue == ReadsAreAligned /\ BlankIsGone

\* What a search or a prompt jump answers is a row of its kind, on its side,
\* which the client may see.
NavigationFits == SearchAnswersFit /\ PromptsAreNearest
=============================================================================
