--------------------------- MODULE CopyModePins ---------------------------
(***************************************************************************)
(* Copy mode: a client reads a frozen page while output and other clients' *)
(* resizes move the rows beneath it (ADR-0025, Spec-0008).                 *)
(*                                                                         *)
(* The daemon pins each client's row 0 to an absolute history row          *)
(* (oakterm-daemon: pane.rs, requests/copy_mode.rs, scrollback.rs,         *)
(* input.rs); the client keeps a session and sends EnterCopyMode,          *)
(* ExitCopyMode, cache fills and Resize (oakterm: main.rs, copy_mode.rs,   *)
(* copy_session.rs).  Both directions of each socket are FIFO, and a       *)
(* connection's task handles one frame, or one notification pass, at a     *)
(* time.                                                                   *)
(*                                                                         *)
(* One pane, whose shell runs.  A base is a history row together with the  *)
(* epoch it was published in, the number of resizes that had moved rows:   *)
(* the epoch is a history variable, the code compares rows alone.          *)
(* Requests that fail to encode or decode, archive errors and yanks (which *)
(* pass the same guard as fills) are left out.                             *)
(***************************************************************************)
EXTENDS Naturals, Sequences

CONSTANTS
    Clients,        \* the clients that use copy mode
    MaxHistory,     \* bound on the rows that scroll off
    MaxSessions,    \* bound on the copy-mode entries of one client
    MaxUserSteps,   \* bound on the other things one user does
    NoBase          \* a client without a pin, or without a painted page

ASSUME LimitsAssumption ==
    MaxHistory \in Nat /\ MaxSessions \in Nat /\ MaxUserSteps \in Nat

VARIABLES
    historyLen,      \* rows that ever scrolled off
    epoch,           \* resizes that moved rows
    resizeWatermark, \* resize_watermark
    pins,            \* copy_mode_pins: client -> base
    invalidations,   \* pending_pin_invalidations
    wake,            \* client -> its task's dirty channel has a change
    toDaemon,        \* client -> frames it sent
    toClient,        \* client -> frames sent to it
    connected,       \* clients connected
    session,         \* client -> its copy-mode session: none, entering, pinned
    serial,          \* client -> serial of its latest EnterCopyMode
    pendingEnter,    \* client -> serial its pending enter awaits, or 0
    pinnedBase,      \* client -> the base its acknowledged session echoes
    painted,         \* client -> base of the page it has painted
    userSteps        \* client -> other things the user did

paneVars == <<historyLen, epoch, resizeWatermark, pins, invalidations>>
netVars == <<wake, toDaemon, toClient, connected>>
sessionVars == <<session, serial, pendingEnter, pinnedBase>>
clientVars == <<sessionVars, painted, userSteps>>
vars == <<paneVars, netVars, clientVars>>

Bases == [row : 0 .. MaxHistory, epoch : 0 .. MaxHistory]

\* None is not Some.
ASSUME NoBaseAssumption == NoBase \notin Bases

\* The daemon publishes its history length with what it paints.
Published == [row |-> historyLen, epoch |-> epoch]

Init ==
    /\ historyLen = 0 /\ epoch = 0 /\ resizeWatermark = 0
    /\ pins = [c \in Clients |-> NoBase]
    /\ invalidations = [c \in Clients |-> "none"]
    /\ wake = [c \in Clients |-> FALSE]
    /\ toDaemon = [c \in Clients |-> <<>>]
    /\ toClient = [c \in Clients |-> <<>>]
    /\ connected = Clients
    /\ session = [c \in Clients |-> "none"]
    /\ serial = [c \in Clients |-> 0]
    /\ pendingEnter = [c \in Clients |-> 0]
    /\ pinnedBase = [c \in Clients |-> NoBase]
    /\ painted = [c \in Clients |-> NoBase]
    /\ userSteps = [c \in Clients |-> 0]

WakeAll == wake' = [c \in Clients |-> TRUE]

-----------------------------------------------------------------------------
\* The pane.  A row scrolls off the top: output.
ScrollOff ==
    /\ historyLen < MaxHistory
    /\ historyLen' = historyLen + 1
    /\ WakeAll
    /\ UNCHANGED <<epoch, resizeWatermark, pins, invalidations, toDaemon,
                   toClient, connected, clientVars>>

\* invalidate_pins_after_resize, when the resize captured grid rows.
InvalidatePins ==
    /\ epoch' = epoch + 1
    /\ resizeWatermark' = historyLen'
    /\ invalidations' = [c \in Clients |->
         IF pins[c] # NoBase THEN "queued" ELSE invalidations[c]]
    /\ pins' = [c \in Clients |-> NoBase]

\* The next frame of client c is handled and maybe answered.
Handled(c) == toDaemon' = [toDaemon EXCEPT ![c] = Tail(@)]
Received(c, type) == toDaemon[c] # <<>> /\ Head(toDaemon[c]).type = type
Push(c, message) == toClient' = [toClient EXCEPT ![c] = Append(@, message)]

\* resize: one that captures a row moves history; any of them wakes all.
Resize ==
    /\ \/ UNCHANGED paneVars
       \/ /\ historyLen < MaxHistory
          /\ historyLen' = historyLen + 1
          /\ InvalidatePins
    /\ WakeAll
    /\ UNCHANGED <<toClient, connected, clientVars>>

HandleResize(c) ==
    /\ Received(c, "Resize")
    /\ Handled(c)
    /\ Resize

\* A resize by a client that is never in copy mode.
ResizeByOther ==
    /\ Resize
    /\ UNCHANGED toDaemon

\* pin_copy_mode's validation.
InRange(base) == resizeWatermark <= base.row /\ base.row <= historyLen

\* enter_copy_mode
HandleEnter(c) ==
    /\ Received(c, "Enter")
    /\ Handled(c)
    /\ LET enter == Head(toDaemon[c]) IN
       IF InRange(enter.base)
       THEN /\ pins' = [pins EXCEPT ![c] = enter.base]
            /\ invalidations' = [invalidations EXCEPT ![c] = "none"]
            /\ Push(c, [type |-> "Ack", serial |-> enter.serial,
                        base |-> enter.base])
       ELSE /\ Push(c, [type |-> "EnterRefused", serial |-> enter.serial])
            /\ UNCHANGED <<pins, invalidations>>
    /\ UNCHANGED <<historyLen, epoch, resizeWatermark, wake, connected,
                   clientVars>>

\* unpin_copy_mode
Unpin(c) ==
    /\ pins' = [pins EXCEPT ![c] = NoBase]
    /\ invalidations' = [invalidations EXCEPT ![c] = "none"]

HandleExit(c) ==
    /\ Received(c, "Exit")
    /\ Handled(c)
    /\ Unpin(c)
    /\ UNCHANGED <<historyLen, epoch, resizeWatermark, wake, toClient,
                   connected, clientVars>>

\* copy_mode_base: an unpinned client resolves against the live end.
CopyModeBase(c) == IF pins[c] # NoBase THEN pins[c] ELSE Published

\* Variant, for mutation: reads are refused only until the push is written.
RefusedUntilSent(c) == invalidations[c] = "queued"

\* pin_invalidation_pending
Refused(c) == invalidations[c] # "none"

\* get_scrollback
HandleFill(c) ==
    /\ Received(c, "Fill")
    /\ Handled(c)
    /\ LET fill == Head(toDaemon[c]) IN
       IF Refused(c)
       THEN Push(c, [type |-> "FillRefused", serial |-> fill.serial])
       ELSE Push(c, [type |-> "Data", serial |-> fill.serial,
                     base |-> CopyModeBase(c)])
    /\ UNCHANGED <<paneVars, wake, connected, clientVars>>

\* The dirty arm: a queued invalidation is claimed and written.
NotifyClient(c) ==
    /\ c \in connected
    /\ wake[c]
    /\ wake' = [wake EXCEPT ![c] = FALSE]
    /\ IF invalidations[c] = "queued"
       THEN /\ invalidations' = [invalidations EXCEPT ![c] = "sent"]
            /\ Push(c, [type |-> "Invalidated"])
       ELSE UNCHANGED <<invalidations, toClient>>
    /\ UNCHANGED <<historyLen, epoch, resizeWatermark, pins, toDaemon,
                   connected, clientVars>>

\* A RenderUpdate, or a page of scrollback, answers the client's request and
\* carries the history length of that moment.
PublishBase(c) ==
    /\ c \in connected
    /\ \A i \in DOMAIN toClient[c] : toClient[c][i].type # "Update"
    /\ painted[c] # Published
    /\ Push(c, [type |-> "Update", base |-> Published])
    /\ UNCHANGED <<paneVars, wake, toDaemon, connected, clientVars>>

\* The connection of a client that left ends, at the latest when its last
\* frame was read: release_client_pins.
ReleaseClientPins(c) ==
    /\ c \notin connected
    /\ pins[c] # NoBase \/ invalidations[c] # "none" \/ toDaemon[c] # <<>>
    /\ Unpin(c)
    /\ toDaemon' = [toDaemon EXCEPT ![c] = <<>>]
    /\ UNCHANGED <<historyLen, epoch, resizeWatermark, wake, toClient,
                   connected, clientVars>>

-----------------------------------------------------------------------------
\* The client.
Sends(c, frames) == toDaemon' = [toDaemon EXCEPT ![c] = @ \o frames]
Incoming(c, type) ==
    c \in connected /\ toClient[c] # <<>> /\ Head(toClient[c]).type = type
Consumed(c) == toClient' = [toClient EXCEPT ![c] = Tail(@)]

Exit == [type |-> "Exit"]
FillFor(n) == [type |-> "Fill", serial |-> n]

LeaveSession(c) ==
    /\ session' = [session EXCEPT ![c] = "none"]
    /\ pinnedBase' = [pinnedBase EXCEPT ![c] = NoBase]

UserStep(c) ==
    /\ c \in connected
    /\ userSteps[c] < MaxUserSteps
    /\ userSteps' = [userSteps EXCEPT ![c] = @ + 1]

\* enter_copy_mode: freeze the page and ask for a pin at its base.  Entering
\* again replaces the session, and supersedes an entry that is pending.
EnterCopyMode(c) ==
    /\ c \in connected
    /\ painted[c] # NoBase
    /\ serial[c] < MaxSessions
    /\ serial' = [serial EXCEPT ![c] = @ + 1]
    /\ pendingEnter' = [pendingEnter EXCEPT ![c] = serial[c] + 1]
    /\ session' = [session EXCEPT ![c] = "entering"]
    /\ pinnedBase' = [pinnedBase EXCEPT ![c] = NoBase]
    /\ Sends(c, <<[type |-> "Enter", serial |-> serial[c] + 1,
                   base |-> painted[c]]>>)
    /\ UNCHANGED <<paneVars, wake, toClient, connected, painted, userSteps>>

\* exit_copy_mode, or a move of the viewport that discards the session.
ExitCopyMode(c) ==
    /\ UserStep(c)
    /\ session[c] # "none"
    /\ LeaveSession(c)
    /\ Sends(c, <<Exit>>)
    /\ UNCHANGED <<paneVars, wake, toClient, connected, serial, pendingEnter,
                   painted>>

\* Variant, for mutation: a resize ends the session and sends no exit.
ResizePaneQuietly(c) ==
    /\ UserStep(c)
    /\ LeaveSession(c)
    /\ Sends(c, <<[type |-> "Resize"]>>)
    /\ UNCHANGED <<paneVars, wake, toClient, connected, serial, pendingEnter,
                   painted>>

\* The window, or another pane's border, changes this pane's size.
ResizePane(c) ==
    /\ UserStep(c)
    /\ LeaveSession(c)
    /\ LET resize == [type |-> "Resize"] IN
       Sends(c, IF session[c] = "none" THEN <<resize>> ELSE <<Exit, resize>>)
    /\ UNCHANGED <<paneVars, wake, toClient, connected, serial, pendingEnter,
                   painted>>

\* Navigation asks for rows that are not cached.
RequestFill(c) ==
    /\ UserStep(c)
    /\ session[c] = "pinned"
    /\ Sends(c, <<FillFor(serial[c])>>)
    /\ UNCHANGED <<paneVars, wake, toClient, connected, sessionVars, painted>>

Disconnect(c) ==
    /\ UserStep(c)
    /\ connected' = connected \ {c}
    /\ LeaveSession(c)
    /\ pendingEnter' = [pendingEnter EXCEPT ![c] = 0]
    /\ toClient' = [toClient EXCEPT ![c] = <<>>]
    /\ UNCHANGED <<paneVars, wake, toDaemon, serial, painted>>

OnUpdate(c) ==
    /\ Incoming(c, "Update")
    /\ Consumed(c)
    /\ painted' = [painted EXCEPT ![c] = Head(toClient[c]).base]
    /\ UNCHANGED <<paneVars, wake, toDaemon, connected, sessionVars, userSteps>>

\* CopyModeEntered: an ack nothing awaits any more is dropped, one whose
\* session was torn down meanwhile releases the pin, and otherwise the first
\* fill goes out.
OnAck(c) ==
    /\ Incoming(c, "Ack")
    /\ Consumed(c)
    /\ LET ack == Head(toClient[c]) IN
       IF pendingEnter[c] # ack.serial
       THEN UNCHANGED <<sessionVars, toDaemon>>
       ELSE /\ pendingEnter' = [pendingEnter EXCEPT ![c] = 0]
            /\ IF session[c] = "none"
               THEN Sends(c, <<Exit>>) /\ UNCHANGED <<session, pinnedBase>>
               ELSE /\ session' = [session EXCEPT ![c] = "pinned"]
                    /\ pinnedBase' = [pinnedBase EXCEPT ![c] = ack.base]
                    /\ Sends(c, <<FillFor(ack.serial)>>)
            /\ UNCHANGED serial
    /\ UNCHANGED <<paneVars, wake, connected, painted, userSteps>>

\* RequestFailed for an entry: abandon it, and release a pin left behind.
OnEnterRefused(c) ==
    /\ Incoming(c, "EnterRefused")
    /\ Consumed(c)
    /\ IF pendingEnter[c] # Head(toClient[c]).serial
       THEN UNCHANGED <<sessionVars, toDaemon>>
       ELSE /\ pendingEnter' = [pendingEnter EXCEPT ![c] = 0]
            /\ LeaveSession(c)
            /\ Sends(c, <<Exit>>)
            /\ UNCHANGED serial
    /\ UNCHANGED <<paneVars, wake, connected, painted, userSteps>>

\* A fill of the current session is filed if it resolved against the
\* session's base, one of an earlier session is not claimed: no state here.
OnData(c) ==
    /\ Incoming(c, "Data")
    /\ Consumed(c)
    /\ UNCHANGED <<paneVars, wake, toDaemon, connected, clientVars>>

\* RequestFailed for a fill of the current session: leave copy mode.
OnFillRefused(c) ==
    /\ Incoming(c, "FillRefused")
    /\ Consumed(c)
    /\ IF session[c] = "pinned" /\ Head(toClient[c]).serial = serial[c]
       THEN LeaveSession(c) /\ Sends(c, <<Exit>>)
       ELSE UNCHANGED <<session, pinnedBase, toDaemon>>
    /\ UNCHANGED <<paneVars, wake, connected, serial, pendingEnter, painted,
                   userSteps>>

\* Variant, for mutation: the session ends and the daemon is not told.
OnInvalidatedQuietly(c) ==
    /\ Incoming(c, "Invalidated")
    /\ Consumed(c)
    /\ LeaveSession(c)
    /\ UNCHANGED <<paneVars, wake, toDaemon, connected, serial, pendingEnter,
                   painted, userSteps>>

\* CopyModeInvalidated: leave copy mode if in it, and always tell the daemon.
OnInvalidated(c) ==
    /\ Incoming(c, "Invalidated")
    /\ Consumed(c)
    /\ LeaveSession(c)
    /\ Sends(c, <<Exit>>)
    /\ UNCHANGED <<paneVars, wake, connected, serial, pendingEnter, painted,
                   userSteps>>

Serve(c) ==
    \/ HandleResize(c) \/ HandleEnter(c) \/ HandleExit(c) \/ HandleFill(c)
    \/ NotifyClient(c) \/ ReleaseClientPins(c)

React(c) ==
    \/ OnUpdate(c) \/ OnAck(c) \/ OnEnterRefused(c)
    \/ OnData(c) \/ OnFillRefused(c) \/ OnInvalidated(c)

User(c) ==
    \/ EnterCopyMode(c) \/ ExitCopyMode(c) \/ ResizePane(c) \/ RequestFill(c)
    \/ Disconnect(c)

Next ==
    \/ ScrollOff \/ ResizeByOther
    \/ \E c \in Clients : Serve(c) \/ PublishBase(c) \/ React(c) \/ User(c)

Spec == Init /\ [][Next]_vars

\* A connection's task goes on while it has frames or a wake, and takes
\* turns between them; a client reads what it is sent.
FairSpec ==
    /\ Spec
    /\ \A c \in Clients :
         /\ WF_vars(React(c))
         /\ WF_vars(HandleResize(c) \/ HandleEnter(c) \/ HandleExit(c)
                      \/ HandleFill(c) \/ ReleaseClientPins(c))
         /\ SF_vars(NotifyClient(c))

-----------------------------------------------------------------------------
Entries == {"none", "queued", "sent"}

\* Among the types: a pin never coexists with its own invalidation.
TypeOK ==
    /\ historyLen \in 0 .. MaxHistory
    /\ epoch \in 0 .. MaxHistory
    /\ resizeWatermark \in 0 .. historyLen
    /\ pins \in [Clients -> Bases \cup {NoBase}]
    /\ invalidations \in [Clients -> Entries]
    /\ \A c \in Clients : pins[c] # NoBase => invalidations[c] = "none"
    /\ wake \in [Clients -> BOOLEAN]
    /\ connected \in SUBSET Clients
    /\ session \in [Clients -> {"none", "entering", "pinned"}]
    /\ serial \in [Clients -> 0 .. MaxSessions]
    /\ pendingEnter \in [Clients -> 0 .. MaxSessions]
    /\ pinnedBase \in [Clients -> Bases \cup {NoBase}]
    /\ painted \in [Clients -> Bases \cup {NoBase}]
    /\ userSteps \in [Clients -> 0 .. MaxUserSteps]

\* A pin names rows as they are now: no resize has moved rows since the page
\* it was echoed from was published, though the daemon compares row numbers
\* only and the page may be arbitrarily old.
PinsAreCurrent ==
    \A c \in Clients : pins[c] # NoBase => pins[c].epoch = epoch

\* What a session is served resolves against the base it was acknowledged
\* at, or is refused: never against the live end a dropped pin falls back to.
FillsMatchTheirPin ==
    \A c \in Clients :
      session[c] = "pinned" =>
        \A i \in DOMAIN toClient[c] :
          toClient[c][i].type = "Data" /\ toClient[c][i].serial = serial[c]
            => toClient[c][i].base = pinnedBase[c]

\* A session reads the rows it pinned, and none that has been moved since.
ReadsMatchTheirPin == TypeOK /\ PinsAreCurrent /\ FillsMatchTheirPin

Idle(c) ==
    c \in connected /\ toDaemon[c] = <<>> /\ toClient[c] = <<>> /\ ~ wake[c]

\* When nothing is under way for a client, daemon and client agree: a session
\* has its pin, and a client without one has left nothing behind that would
\* hold the pane's rows or get its reads refused, however it left.
NothingLeftBehind ==
    \A c \in Clients :
      Idle(c) => IF session[c] = "none"
                 THEN pins[c] = NoBase /\ invalidations[c] = "none"
                 ELSE session[c] = "pinned" /\ pins[c] = pinnedBase[c]

\* A client's reads are refused for a while only: its invalidation reaches
\* it and the exit it answers with comes back, or it is gone.
RefusalsEnd ==
    \A c \in Clients : invalidations[c] # "none" ~> invalidations[c] = "none"

\* A client that goes leaves no pin for the life of the pane.
GoneIsUnpinned ==
    \A c \in Clients : c \notin connected ~> pins[c] = NoBase

\* Neither a refusal nor a pin lasts: both end however the client's messages,
\* the daemon's and the end of the connection cross.
NothingLasts == RefusalsEnd /\ GoneIsUnpinned
=============================================================================
