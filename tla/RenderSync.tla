---------------------------- MODULE RenderSync ----------------------------
(***************************************************************************)
(* How a client's copy of a pane's screen follows the screen (Spec-0001's  *)
(* DirtyNotify / GetRenderUpdate / RenderUpdate).                          *)
(*                                                                         *)
(* In the daemon, a terminal has two grids, each with its own sequence     *)
(* number, and every change stamps the rows it touches (oakterm-terminal:  *)
(* grid/mod.rs, handler.rs).  The PTY loop processes output and wakes the  *)
(* client's connection task, which pushes DirtyNotify and answers          *)
(* GetRenderUpdate (oakterm-daemon: server/mod.rs, requests/render.rs).    *)
(* In the client, the reader thread asks for one update at a time          *)
(* (oakterm: daemon_conn.rs) while the GUI thread may ask for all of the   *)
(* screen (main.rs, return_to_live); both requests are answered into the   *)
(* reader.  Both directions of the socket are FIFO.                        *)
(*                                                                         *)
(* One pane, one client, rows that keep their number: a resize is not      *)
(* modelled.  A row's cells are one value.  The reader's update and its    *)
(* application by the GUI thread are one step: no other thread writes the  *)
(* mirror.                                                                 *)
(***************************************************************************)
EXTENDS Naturals, Sequences, FiniteSets

CONSTANTS
    RowCount,      \* rows of the screen
    Texts,         \* what a row can hold
    Blank,         \* the content of an erased row
    MaxOutputs,    \* bound on the chunks of output
    MaxRefreshes   \* bound on the returns to live view

ASSUME RowsAssumption == RowCount \in Nat \ {0}
ASSUME BlankAssumption == Blank \in Texts
ASSUME LimitsAssumption == MaxOutputs \in Nat /\ MaxRefreshes \in Nat

VARIABLES
    grids,       \* screen -> its grid
    active,      \* the screen shown
    outputs,     \* chunks of output so far
    loop,        \* the PTY loop: reading, or about to notify
    unseen,      \* dirty_seqno is ahead of the task's last_seen
    wake,        \* the task's dirty channel has a change
    toDaemon,    \* GetRenderUpdate: the since_seqno of each, a Place
    toClient,    \* DirtyNotify and RenderUpdate
    mirror,      \* the client's copy of the screen, row by row
    since,       \* ReaderState.seqnos: where the copy stands, a Place
    inFlight,    \* ReaderState.in_flight has the pane
    pending,     \* ReaderState.pending has the pane
    refreshes,   \* returns to live view so far
    epoch,       \* history: how often the screen shown was switched, or
                 \* cleared on the way, or replaced by a reset
    missed       \* history: since the daemon last sent every row, it sent
                 \* some for a since_seqno of another epoch

daemonVars == <<grids, active, outputs, loop, unseen, wake>>
clientVars == <<mirror, since, inFlight, pending, refreshes>>
historyVars == <<epoch, missed>>
vars == <<daemonVars, toDaemon, toClient, clientVars, historyVars>>

Rows == 1 .. RowCount
Screens == {"primary", "alternate"}
\* The modes that stop a screen from being entered twice (47 and 1047).
Flags == {"47", "1047"}

AllRows(x) == [r \in Rows |-> x]

\* Grid::new
FreshGrid ==
    [text |-> AllRows(Blank), stamp |-> AllRows(0), seqno |-> 0, flags |-> {}]

Notify == [type |-> "DirtyNotify"]

Init ==
    /\ grids = [s \in Screens |-> FreshGrid]
    /\ active = "primary"
    /\ outputs = 0 /\ loop = "reading"
    /\ unseen = FALSE /\ wake = FALSE
    /\ toDaemon = <<>> /\ toClient = <<>>
    /\ mirror = AllRows(Blank) /\ since = [seqno |-> 0, epoch |-> 0]
    /\ inFlight = FALSE /\ pending = FALSE
    /\ refreshes = 0
    /\ epoch = 0 /\ missed = FALSE

-----------------------------------------------------------------------------
\* The terminal.  Grid::touch_row, Grid::touch_all and clear_grid.
TouchRow(g, r) ==
    [g EXCEPT !.seqno = @ + 1, !.stamp[r] = g.seqno + 1]

TouchAll(g) ==
    [g EXCEPT !.seqno = @ + 1, !.stamp = AllRows(g.seqno + 1)]

ClearGrid(g) == TouchAll([g EXCEPT !.text = AllRows(Blank)])

\* A printed or edited row.
WriteRow(r, text) ==
    /\ grids' = [grids EXCEPT ![active] =
                   TouchRow([@ EXCEPT !.text[r] = text], r)]
    /\ UNCHANGED <<active, epoch>>

\* do_scroll_up over the whole screen: every row moves.
ScrollUp ==
    /\ LET text == grids[active].text
           scrolled == [r \in Rows |-> IF r < RowCount THEN text[r + 1] ELSE Blank]
       IN grids' = [grids EXCEPT ![active] = TouchAll([@ EXCEPT !.text = scrolled])]
    /\ UNCHANGED <<active, epoch>>

\* DECSET 47, 1047, 1049: the flag goes on the screen that is left.  The
\* alternate grid, if none is allocated, is a fresh one.
EnterAlternate(mode) ==
    /\ mode \notin grids[active].flags
    /\ LET flagged == [grids EXCEPT ![active].flags = @ \cup (Flags \cap {mode})]
       IN grids' = [flagged EXCEPT !["alternate"] =
                      IF mode = "47" THEN TouchAll(@) ELSE ClearGrid(@)]
    /\ active' = "alternate"
    /\ epoch' = epoch + 1

\* DECRST 47 and 1049: back to the primary screen, all of it touched.
LeaveAlternate(mode) ==
    /\ mode \in {"47", "1049"}
    /\ LET unflagged == [grids EXCEPT !["primary"].flags = @ \ {mode}]
       IN grids' = [unflagged EXCEPT !["primary"] = TouchAll(@)]
    /\ active' = "primary"
    /\ epoch' = epoch + 1

\* DECRST 1047: clear the screen shown, then back without touching.
ClearAndLeave ==
    /\ LET cleared == [grids EXCEPT ![active] = ClearGrid(@)]
       IN grids' = [cleared EXCEPT !["primary"].flags = @ \ {"1047"}]
    /\ active' = "primary"
    /\ epoch' = epoch + 1

\* RIS: a new primary grid, no alternate.
ResetTerminal ==
    /\ grids' = [s \in Screens |-> FreshGrid]
    /\ active' = "primary"
    /\ epoch' = epoch + 1

Terminal ==
    \/ \E r \in Rows, text \in Texts : WriteRow(r, text)
    \/ ScrollUp
    \/ \E mode \in {"47", "1047", "1049"} : EnterAlternate(mode)
    \/ \E mode \in {"47", "1049"} : LeaveAlternate(mode)
    \/ ClearAndLeave
    \/ ResetTerminal

-----------------------------------------------------------------------------
\* The daemon.  The PTY loop applies output and bumps dirty_seqno under the
\* pane lock ...
Output ==
    /\ loop = "reading" /\ outputs < MaxOutputs
    /\ Terminal
    /\ outputs' = outputs + 1
    /\ unseen' = TRUE
    /\ loop' = "notify"
    /\ UNCHANGED <<wake, toDaemon, toClient, clientVars, missed>>

\* ... and wakes the connection tasks after releasing it.
WakeClients ==
    /\ loop = "notify"
    /\ loop' = "reading"
    /\ wake' = TRUE
    /\ UNCHANGED <<grids, active, outputs, unseen, toDaemon, toClient,
                   clientVars, historyVars>>

\* The dirty arm: collect_notifications and send_dirty_notifications.
SendDirtyNotifications ==
    /\ wake
    /\ wake' = FALSE
    /\ unseen' = FALSE
    /\ toClient' = IF unseen THEN Append(toClient, Notify) ELSE toClient
    /\ UNCHANGED <<grids, active, outputs, loop, toDaemon, clientVars,
                   historyVars>>

DirtyRows(g, seqno) == {r \in Rows : g.stamp[r] > seqno}

\* Variant, for mutation: a row changed right after the client's last update
\* is taken for one the client has.
RowsToSendLate(g, seqno) ==
    IF seqno > g.seqno THEN Rows ELSE DirtyRows(g, seqno + 1)

\* A since_seqno beyond the grid's is from another grid: send every row.
RowsToSend(g, seqno) ==
    IF seqno > g.seqno THEN Rows ELSE DirtyRows(g, seqno)

\* get_render_update
GetRenderUpdate ==
    LET g == grids[active]
        request == Head(toDaemon)
        sent == RowsToSend(g, request.seqno)
    IN /\ toDaemon # <<>>
       /\ toDaemon' = Tail(toDaemon)
       /\ toClient' = Append(toClient,
            [type |-> "RenderUpdate",
             place |-> [seqno |-> g.seqno, epoch |-> epoch],
             rows |-> [r \in sent |-> g.text[r]]])
       /\ missed' = (sent # Rows /\ (missed \/ request.epoch # epoch))
       /\ UNCHANGED <<daemonVars, clientVars, epoch>>

-----------------------------------------------------------------------------
\* The client.
Request(place) == toDaemon' = Append(toDaemon, place)

Incoming(type) == toClient # <<>> /\ Head(toClient).type = type

\* on_dirty_notify
OnDirtyNotify ==
    /\ Incoming("DirtyNotify")
    /\ toClient' = Tail(toClient)
    /\ IF inFlight
       THEN pending' = TRUE /\ UNCHANGED <<inFlight, toDaemon>>
       ELSE inFlight' = TRUE /\ Request(since) /\ UNCHANGED pending
    /\ UNCHANGED <<daemonVars, mirror, since, refreshes, historyVars>>

\* apply_update, and one follow-up for all the notifies that came meanwhile.
ApplyUpdate(update) ==
    /\ mirror' = [r \in Rows |-> IF r \in DOMAIN update.rows
                                 THEN update.rows[r] ELSE mirror[r]]
    /\ since' = update.place
    /\ IF pending THEN Request(update.place) ELSE UNCHANGED toDaemon

\* Variant, for mutation: the pane stays marked as requested.
OnRenderUpdateStaysInFlight ==
    /\ Incoming("RenderUpdate")
    /\ ApplyUpdate(Head(toClient))
    /\ toClient' = Tail(toClient)
    /\ pending' = FALSE /\ inFlight' = TRUE
    /\ UNCHANGED <<daemonVars, refreshes, historyVars>>

\* on_render_update, and the update's application.
OnRenderUpdate ==
    /\ Incoming("RenderUpdate")
    /\ ApplyUpdate(Head(toClient))
    /\ toClient' = Tail(toClient)
    /\ pending' = FALSE /\ inFlight' = pending
    /\ UNCHANGED <<daemonVars, refreshes, historyVars>>

\* return_to_live asks for everything, past the reader's bookkeeping.
ReturnToLive ==
    /\ refreshes < MaxRefreshes
    /\ refreshes' = refreshes + 1
    /\ Request([since EXCEPT !.seqno = 0])
    /\ UNCHANGED <<daemonVars, toClient, mirror, since, inFlight, pending,
                   historyVars>>

Deliver ==
    \/ WakeClients \/ SendDirtyNotifications \/ GetRenderUpdate
    \/ OnDirtyNotify \/ OnRenderUpdate

Next == Output \/ Deliver \/ ReturnToLive

Spec == Init /\ [][Next]_vars

\* The PTY loop sends its wake, the task and the reader thread run on; what
\* the program prints and what the user does is up to them.  The loop and
\* the task take turns with requests at random, so neither is starved.
FairSpec ==
    /\ Spec
    /\ WF_vars(WakeClients) /\ WF_vars(OnDirtyNotify) /\ WF_vars(OnRenderUpdate)
    /\ SF_vars(SendDirtyNotifications) /\ SF_vars(GetRenderUpdate)

-----------------------------------------------------------------------------
\* A sequence number and the epoch it was published in: a history component,
\* the code compares numbers alone.
Places == [seqno : Nat, epoch : Nat]

Messages ==
    {Notify} \cup [type : {"RenderUpdate"}, place : Places,
                   rows : UNION {[sent -> Texts] : sent \in SUBSET Rows}]

Grids == [text : [Rows -> Texts], stamp : [Rows -> Nat], seqno : Nat,
          flags : SUBSET Flags]

\* Among the types: a row is never stamped ahead of its grid.
TypeOK ==
    /\ grids \in [Screens -> Grids]
    /\ \A s \in Screens, r \in Rows : grids[s].stamp[r] <= grids[s].seqno
    /\ active \in Screens
    /\ outputs \in 0 .. MaxOutputs
    /\ loop \in {"reading", "notify"}
    /\ unseen \in BOOLEAN /\ wake \in BOOLEAN
    /\ toDaemon \in Seq(Places)
    /\ toClient \in Seq(Messages)
    /\ mirror \in [Rows -> Texts] /\ since \in Places
    /\ inFlight \in BOOLEAN /\ pending \in BOOLEAN
    /\ refreshes \in 0 .. MaxRefreshes
    /\ epoch \in Nat /\ missed \in BOOLEAN

\* Nothing is on its way to the client or back.
Quiet ==
    /\ loop = "reading" /\ ~ unseen /\ ~ wake
    /\ toDaemon = <<>> /\ toClient = <<>>

Shown == grids[active].text

\* When all is quiet the client shows what the terminal shows, whatever was
\* coalesced, refreshed or overtaken on the way and however the screens were
\* switched, unless a request's number was taken for one of another grid's.
ConvergedOnScreen == Quiet /\ ~ missed => mirror = Shown

\* Output is never left unshown: once the program is silent the exchange
\* comes to rest, and nothing waits for a reply that will not come.
SettlesDown == unseen ~> (Quiet /\ ~ inFlight /\ ~ pending)

\* The debounce: a flood of output never has more than one request or reply
\* outstanding, but for those the user's own refreshes add.
Debounced ==
    Len(toDaemon) + Cardinality({i \in DOMAIN toClient : toClient[i] # Notify})
      <= 1 + refreshes

\* The client's mirror follows the screen, one request at a time.
MirrorFollows == TypeOK /\ ConvergedOnScreen /\ Debounced
=============================================================================
