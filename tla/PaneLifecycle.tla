-------------------------- MODULE PaneLifecycle --------------------------
(***************************************************************************)
(* The life of one pane's shell (oakterm-daemon: requests/input.rs,        *)
(* requests/panes.rs, pty_io.rs, collect_notifications).                   *)
(*                                                                         *)
(* The shell is spawned by the first Resize, read by a loop of its own     *)
(* task, and ended by itself or by ClosePane.  Handlers and the loop reach *)
(* the pane in two steps, as lock_live_pane does: look it up in the map    *)
(* under the manager lock, then, that lock released, take the pane lock    *)
(* and check the closed tombstone.  Anything can happen in between.        *)
(* Other panes exist, so ClosePane is never refused as the last one.       *)
(***************************************************************************)
EXTENDS Naturals

CONSTANTS
    Clients,
    MaxOutput   \* bound on the reads of the shell's output

ASSUME MaxOutputAssumption == MaxOutput \in Nat

VARIABLES
    inMap,     \* the pane is in the manager's map
    closed,    \* the tombstone of the pane's state
    pty,       \* PtyState
    spawns,    \* how many shells were ever spawned for the pane
    dirty,     \* dirty_seqno: changes of the screen
    cancel,    \* the cancel signal was sent to the read loop
    loop,      \* where the read loop is
    child,     \* the shell process
    handler,   \* client -> what its connection's task is doing
    wake,      \* client -> its watch receiver has an unseen change
    exitSent,  \* client -> PaneExited was queued for it
    lastSeen   \* client -> the dirty seqno its last DirtyNotify stood for

paneVars == <<closed, pty, dirty>>
noticeVars == <<exitSent, lastSeen>>
clientVars == <<handler, wake, noticeVars>>
shellVars == <<inMap, paneVars, spawns, cancel, loop, child, clientVars>>

\* pty_read_loop after "ended" still records the exit and drops the Pty.
LoopStates == {"none", "starting", "reading", "lookup", "locking", "notify",
               "ended", "recording", "closing", "done"}

PaneInit ==
    /\ inMap = TRUE
    /\ closed = FALSE /\ pty = "notSpawned" /\ dirty = 0
    /\ spawns = 0 /\ cancel = FALSE /\ loop = "none" /\ child = "none"
    /\ handler = [c \in Clients |-> "idle"]
    /\ wake = [c \in Clients |-> FALSE]
    /\ exitSent = [c \in Clients |-> FALSE]
    /\ lastSeen = [c \in Clients |-> 0]

Become(c, state) == handler' = [handler EXCEPT ![c] = state]

\* dirty_tx.send: every receiver has something unseen.
WakeAll == wake' = [c \in Clients |-> TRUE]

\* The bound on output stops new changes short of MaxOutput, so that one
\* already read is still processed.
RoomForOutput == dirty + 1 < MaxOutput

-----------------------------------------------------------------------------
\* Resize looks the pane up; an unknown one is refused.
ResizeLookup(c) ==
    /\ handler[c] = "idle"
    /\ inMap
    /\ Become(c, "resizing")
    /\ UNCHANGED <<inMap, paneVars, spawns, cancel, loop, child, wake, noticeVars>>

\* A tombstoned pane reads as unknown; a failed or exited shell is refused.
ResizeRefused(c) ==
    /\ handler[c] = "resizing"
    /\ closed \/ pty \in {"failed", "exited"}
    /\ Become(c, "idle")
    /\ UNCHANGED <<inMap, paneVars, spawns, cancel, loop, child, wake, noticeVars>>

\* spawn_pty: publish Running and start the read loop.
SpawnPty(c) ==
    /\ handler[c] = "resizing"
    /\ ~ closed /\ pty = "notSpawned"
    /\ pty' = "running"
    /\ spawns' = spawns + 1
    /\ loop' = "starting" /\ child' = "alive" /\ cancel' = FALSE
    /\ Become(c, "idle")
    /\ UNCHANGED <<inMap, closed, dirty, wake, noticeVars>>

\* The command is malformed, the spawn or the preparation of the master
\* fails (which kills the child): a terminal state.
SpawnFails(c) ==
    /\ handler[c] = "resizing"
    /\ ~ closed /\ pty = "notSpawned"
    /\ pty' = "failed"
    /\ Become(c, "idle")
    /\ UNCHANGED <<inMap, closed, dirty, spawns, cancel, loop, child, wake,
                   noticeVars>>

ResizeRunning(c) ==
    /\ handler[c] = "resizing"
    /\ ~ closed /\ pty = "running"
    /\ RoomForOutput
    /\ dirty' = dirty + 1
    /\ WakeAll
    /\ Become(c, "idle")
    /\ UNCHANGED <<inMap, closed, pty, spawns, cancel, loop, child, noticeVars>>

\* resize_fd reports an error: nothing changes.
ResizeFdFails(c) ==
    /\ handler[c] = "resizing"
    /\ ~ closed /\ pty = "running"
    /\ Become(c, "idle")
    /\ UNCHANGED <<inMap, paneVars, spawns, cancel, loop, child, wake, noticeVars>>

-----------------------------------------------------------------------------
\* ClosePane, under the manager lock.
RemovePane(c) ==
    /\ handler[c] = "idle"
    /\ inMap
    /\ inMap' = FALSE
    /\ Become(c, "removing")
    /\ UNCHANGED <<paneVars, spawns, cancel, loop, child, wake, noticeVars>>

\* Variant, for mutation: the read loop is left to notice by itself.
ShutdownWithoutCancel(c) ==
    /\ handler[c] = "removing"
    /\ closed' = TRUE
    /\ pty' = "notSpawned"
    /\ Become(c, "idle")
    /\ UNCHANGED <<inMap, dirty, spawns, cancel, loop, child, wake, noticeVars>>

\* shutdown_removed_pane, under the pane lock.
ShutdownRemovedPane(c) ==
    /\ handler[c] = "removing"
    /\ closed' = TRUE
    /\ pty' = "notSpawned"
    /\ cancel' = (pty = "running")
    /\ Become(c, "idle")
    /\ UNCHANGED <<inMap, dirty, spawns, loop, child, wake, noticeVars>>

-----------------------------------------------------------------------------
Advance(from, to) == loop = from /\ loop' = to

LoopStarts ==
    /\ Advance("starting", "reading")
    /\ UNCHANGED <<inMap, paneVars, spawns, cancel, child, clientVars>>

\* Variant, for mutation: a failed setup returns from the loop.
LoopSetupReturns ==
    /\ Advance("starting", "done")
    /\ UNCHANGED <<inMap, paneVars, spawns, cancel, child, clientVars>>

\* The master is not usable: straight to the shared teardown.
LoopSetupFails ==
    /\ Advance("starting", "ended")
    /\ UNCHANGED <<inMap, paneVars, spawns, cancel, child, clientVars>>

\* The select is biased: a cancel that was sent wins over pending output.
LoopCancelled ==
    /\ cancel
    /\ Advance("reading", "ended")
    /\ UNCHANGED <<inMap, paneVars, spawns, cancel, child, clientVars>>

LoopReads ==
    /\ ~ cancel /\ child = "alive"
    /\ RoomForOutput
    /\ Advance("reading", "lookup")
    /\ UNCHANGED <<inMap, paneVars, spawns, cancel, child, clientVars>>

\* EOF of a child that exited: its status is collected.
LoopEof ==
    /\ ~ cancel /\ child = "exited"
    /\ Advance("reading", "ended")
    /\ child' = "reaped"
    /\ UNCHANGED <<inMap, paneVars, spawns, cancel, clientVars>>

\* A read error, or EOF of a child that closed its terminal and lives on:
\* capture_exit_code kills it and waits.
LoopError ==
    /\ ~ cancel
    /\ Advance("reading", "ended")
    /\ child' = "reaped"
    /\ UNCHANGED <<inMap, paneVars, spawns, cancel, clientVars>>

\* Output was read: the pane is looked up again for every read.
LoopLookup ==
    /\ \/ inMap /\ Advance("lookup", "locking")
       \/ ~ inMap /\ Advance("lookup", "ended")
    /\ UNCHANGED <<inMap, paneVars, spawns, cancel, child, clientVars>>

\* Variant, for mutation: the tombstone is not checked under the pane lock.
LoopProcessUnchecked ==
    /\ Advance("locking", "notify")
    /\ dirty' = dirty + 1
    /\ UNCHANGED <<inMap, closed, pty, spawns, cancel, child, clientVars>>

LoopProcess ==
    /\ ~ closed
    /\ Advance("locking", "notify")
    /\ dirty' = dirty + 1
    /\ UNCHANGED <<inMap, closed, pty, spawns, cancel, child, clientVars>>

LoopFindsClosed ==
    /\ closed
    /\ Advance("locking", "ended")
    /\ UNCHANGED <<inMap, paneVars, spawns, cancel, child, clientVars>>

LoopNotify ==
    /\ Advance("notify", "reading")
    /\ WakeAll
    /\ UNCHANGED <<inMap, paneVars, spawns, cancel, child, handler, noticeVars>>

\* record_pane_exit, again in two steps.
RecordLookup ==
    /\ \/ inMap /\ Advance("ended", "recording")
       \/ ~ inMap /\ Advance("ended", "closing")
    /\ UNCHANGED <<inMap, paneVars, spawns, cancel, child, clientVars>>

RecordPaneExit ==
    /\ Advance("recording", "closing")
    /\ pty' = IF closed THEN pty ELSE "exited"
    /\ UNCHANGED <<inMap, closed, dirty, spawns, cancel, child, clientVars>>

\* Variant, for mutation: nobody is woken for the exit.
LoopEndsSilently ==
    /\ Advance("closing", "done")
    /\ child' = "reaped"
    /\ UNCHANGED <<inMap, paneVars, spawns, cancel, clientVars>>

\* Wake everyone, then drop the Pty, which kills and reaps the child.
LoopEnds ==
    /\ Advance("closing", "done")
    /\ WakeAll
    /\ child' = "reaped"
    /\ UNCHANGED <<inMap, paneVars, spawns, cancel, handler, noticeVars>>

ChildExits ==
    /\ child = "alive"
    /\ child' = "exited"
    /\ UNCHANGED <<inMap, paneVars, spawns, cancel, loop, clientVars>>

-----------------------------------------------------------------------------
\* A connection's notification pass: snapshot the map, then lock the pane.
NotifyLookup(c) ==
    /\ handler[c] = "idle"
    /\ wake[c]
    /\ wake' = [wake EXCEPT ![c] = FALSE]
    /\ Become(c, IF inMap THEN "notifying" ELSE "idle")
    /\ UNCHANGED <<inMap, paneVars, spawns, cancel, loop, child, noticeVars>>

\* collect_notifications: a tombstoned pane is skipped.
NotifyPane(c) ==
    /\ handler[c] = "notifying"
    /\ exitSent' = [exitSent EXCEPT ![c] = @ \/ (~ closed /\ pty = "exited")]
    /\ lastSeen' = [lastSeen EXCEPT ![c] = IF closed THEN @ ELSE dirty]
    /\ Become(c, "idle")
    /\ UNCHANGED <<inMap, paneVars, spawns, cancel, loop, child, wake>>

Resize(c) ==
    \/ ResizeRefused(c) \/ SpawnPty(c) \/ SpawnFails(c)
    \/ ResizeRunning(c) \/ ResizeFdFails(c)

Handler(c) == Resize(c) \/ ShutdownRemovedPane(c) \/ NotifyPane(c)

\* What the loop's task does when it is polled.
LoopStep ==
    \/ LoopStarts \/ LoopCancelled \/ LoopEof
    \/ LoopLookup \/ LoopProcess \/ LoopFindsClosed \/ LoopNotify
    \/ RecordLookup \/ RecordPaneExit \/ LoopEnds

PaneNext ==
    \/ \E c \in Clients : ResizeLookup(c) \/ RemovePane(c)
                         \/ NotifyLookup(c) \/ Handler(c)
    \/ LoopStep \/ LoopSetupFails \/ LoopReads \/ LoopError
    \/ ChildExits

PaneSpec == PaneInit /\ [][PaneNext]_shellVars

\* Tasks that can run are polled.  Clients need not send anything, and the
\* shell need neither print nor exit.  A connection's select takes its ready
\* arms in random order, so a client that always has a frame waiting does not
\* keep its notification pass from running: strong fairness.
FairPaneSpec ==
    /\ PaneSpec
    /\ WF_shellVars(LoopStep)
    /\ \A c \in Clients : WF_shellVars(Handler(c)) /\ SF_shellVars(NotifyLookup(c))

-----------------------------------------------------------------------------
\* Among the types: no client is told of a change that has not happened.
PaneTypeOK ==
    /\ inMap \in BOOLEAN /\ closed \in BOOLEAN /\ cancel \in BOOLEAN
    /\ pty \in {"notSpawned", "running", "failed", "exited"}
    /\ spawns \in Nat /\ dirty \in 0 .. MaxOutput
    /\ loop \in LoopStates
    /\ child \in {"none", "alive", "exited", "reaped"}
    /\ handler \in [Clients -> {"idle", "resizing", "removing", "notifying"}]
    /\ wake \in [Clients -> BOOLEAN]
    /\ exitSent \in [Clients -> BOOLEAN]
    /\ lastSeen \in [Clients -> 0 .. dirty]

\* A pane gets at most one shell, however many Resizes race each other and a
\* close.
SpawnedOnce == spawns <= 1

\* A pane clients can reach is never stranded in Running: while it is, some
\* read loop is on its way to notice the end of the shell and record it.
RunningIsWatched ==
    inMap /\ pty = "running" => loop \notin {"none", "closing", "done"}

\* One shell, and a read loop that watches it.
OneShellWatched == PaneTypeOK /\ SpawnedOnce /\ RunningIsWatched

\* A tombstoned pane is dead: no shell is attached to it again and its screen
\* does not change, by requests or output that were on their way.
ClosedIsDead ==
    [][closed => closed' /\ pty' = pty /\ dirty' = dirty /\ spawns' = spawns]_shellVars

\* The shell of a closed pane is killed and reaped even if it stays silent.
NoOrphanShell == closed ~> (child \in {"none", "reaped"})

\* Every client learns of an exit, unless the pane is closed first.
ExitAnnounced ==
    \A c \in Clients : (pty = "exited") ~> (exitSent[c] \/ ~ inMap)

\* Every change of the screen is followed by a DirtyNotify to every client,
\* though a pass marks the signal seen before it reads the seqno and the
\* change may come in between.
DirtyAnnounced ==
    \A c \in Clients, n \in 1 .. MaxOutput :
      (dirty = n) ~> (lastSeen[c] >= n \/ ~ inMap)

\* What happens to a pane reaches everyone.
Announced == ExitAnnounced /\ DirtyAnnounced
=============================================================================
