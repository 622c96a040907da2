--------------------------- MODULE ShutdownGate ---------------------------
(***************************************************************************)
(* Request dispatch against a client-requested shutdown                    *)
(* (oakterm-daemon: server/shutdown.rs, dispatch_incoming in server/mod.rs *)
(* and save_session).                                                      *)
(*                                                                         *)
(* Each connection handles one frame at a time.  A request runs under a    *)
(* read permit of the gate and replies after dropping it; RequestShutdown  *)
(* takes the write side, saves the session, signals termination and only   *)
(* then lets go.  The gate is tokio's RwLock: waiters are served in FIFO   *)
(* order, and a waiting writer holds up the readers behind it.             *)
(* A malformed RequestShutdown is answered with an error and changes       *)
(* nothing; only requests that mutate are modelled, each one a unit of     *)
(* "applied".                                                              *)
(***************************************************************************)
EXTENDS Naturals, Sequences, FiniteSets

CONSTANTS
    Tasks,        \* client connections
    MaxRequests   \* bound on the frames one connection sends

ASSUME MaxRequestsAssumption == MaxRequests \in Nat

VARIABLES
    phase,     \* connection -> what its handler is doing
    frames,    \* connection -> frames received so far
    queue,     \* connections waiting for the gate, first come first served
    readers,   \* connections holding a dispatch permit
    writer,    \* connections holding the save barrier
    stopping,  \* the termination signal has been sent
    applied,   \* connection -> number of its mutations that took effect
    acked,     \* connection -> number of its mutations it was told about
    snapshot,  \* what the save in progress has read
    stored     \* what session.json holds

gateVars == <<queue, readers, writer>>
dataVars == <<applied, acked, snapshot, stored>>
gateStateVars == <<phase, frames, gateVars, stopping, dataVars>>

Waiting == {"wantPermit", "wantBarrier"}
Dispatching == {"dispatch", "dispatched"}
Saving == {"save", "built", "saved", "failed", "signalled"}
Answering == {"reply", "ackAccepted", "ackFailed"}
Phases == {"ready", "closed"} \cup Waiting \cup Dispatching \cup Saving
            \cup Answering

Counts == [Tasks -> Nat]
Zero == [c \in Tasks |-> 0]

GateInit ==
    /\ phase = [c \in Tasks |-> "ready"]
    /\ frames = Zero
    /\ queue = <<>> /\ readers = {} /\ writer = {}
    /\ stopping = FALSE
    /\ applied = Zero /\ acked = Zero /\ snapshot = Zero /\ stored = Zero

Goto(c, p) == phase' = [phase EXCEPT ![c] = p]

\* dispatch_incoming decodes the next frame and queues for the gate.
ReceiveFrame(c, want) ==
    /\ phase[c] = "ready"
    /\ frames[c] < MaxRequests
    /\ frames' = [frames EXCEPT ![c] = @ + 1]
    /\ queue' = Append(queue, c)
    /\ Goto(c, want)
    /\ UNCHANGED <<readers, writer, stopping, dataVars>>

-----------------------------------------------------------------------------
NextInLine(c) == queue # <<>> /\ Head(queue) = c

\* The read side is granted and the signal, checked under it, is not set.
DispatchPermit(c) ==
    /\ phase[c] = "wantPermit"
    /\ NextInLine(c) /\ writer = {}
    /\ ~ stopping
    /\ queue' = Tail(queue)
    /\ readers' = readers \cup {c}
    /\ Goto(c, "dispatch")
    /\ UNCHANGED <<frames, writer, stopping, dataVars>>

\* The read side is granted but termination was signalled: drop the frame.
DropFrame(c) ==
    /\ phase[c] = "wantPermit"
    /\ NextInLine(c) /\ writer = {}
    /\ stopping
    /\ queue' = Tail(queue)
    /\ Goto(c, "ready")
    /\ UNCHANGED <<frames, readers, writer, stopping, dataVars>>

HandleRequest(c) ==
    /\ phase[c] = "dispatch"
    /\ applied' = [applied EXCEPT ![c] = @ + 1]
    /\ Goto(c, "dispatched")
    /\ UNCHANGED <<frames, gateVars, stopping, acked, snapshot, stored>>

\* The permit is dropped before the response is written.
DropPermit(c) ==
    /\ phase[c] = "dispatched"
    /\ readers' = readers \ {c}
    /\ Goto(c, "reply")
    /\ UNCHANGED <<frames, queue, writer, stopping, dataVars>>

Reply(c) ==
    /\ phase[c] = "reply"
    /\ acked' = [acked EXCEPT ![c] = applied[c]]
    /\ Goto(c, "ready")
    /\ UNCHANGED <<frames, gateVars, stopping, applied, snapshot, stored>>

-----------------------------------------------------------------------------
\* Variants, for mutation: the save does not wait for the requests that are
\* being dispatched ...
BarrierIgnoresReaders(c) ==
    /\ phase[c] = "wantBarrier"
    /\ NextInLine(c) /\ writer = {}
    /\ queue' = Tail(queue)

BarrierGranted(c) ==
    /\ phase[c] = "wantBarrier"
    /\ NextInLine(c) /\ writer = {} /\ readers = {}
    /\ queue' = Tail(queue)

\* SaveAttempt::Proceed
BeginSave(c) ==
    /\ BarrierGranted(c)
    /\ ~ stopping
    /\ writer' = writer \cup {c}
    /\ Goto(c, "save")
    /\ UNCHANGED <<frames, readers, stopping, dataVars>>

\* SaveAttempt::AlreadyInProgress
AlreadyInProgress(c) ==
    /\ BarrierGranted(c)
    /\ stopping
    /\ Goto(c, "ackAccepted")
    /\ UNCHANGED <<frames, readers, writer, stopping, dataVars>>

BuildSession(c) ==
    /\ phase[c] = "save"
    /\ snapshot' = applied
    /\ Goto(c, "built")
    /\ UNCHANGED <<frames, gateVars, stopping, applied, acked, stored>>

\* Written to a temporary file and renamed over session.json in one step.
WriteSession(c) ==
    /\ phase[c] = "built"
    /\ stored' = snapshot
    /\ Goto(c, "saved")
    /\ UNCHANGED <<frames, gateVars, stopping, applied, acked, snapshot>>

\* The save fails at any point before the rename.
SaveFails(c) ==
    /\ phase[c] \in {"save", "built"}
    /\ Goto(c, "failed")
    /\ UNCHANGED <<frames, gateVars, stopping, dataVars>>

\* Variant, for mutation: a failed save shuts the daemon down too.
SignalAnyway(c) ==
    /\ phase[c] \in {"saved", "failed"}
    /\ stopping' = TRUE
    /\ Goto(c, "signalled")
    /\ UNCHANGED <<frames, gateVars, dataVars>>

\* SaveGuard::commit sends the signal ...
Signal(c) ==
    /\ phase[c] = "saved"
    /\ stopping' = TRUE
    /\ Goto(c, "signalled")
    /\ UNCHANGED <<frames, gateVars, dataVars>>

\* ... and then drops the barrier.
ReleaseBarrier(c) ==
    /\ phase[c] = "signalled"
    /\ writer' = writer \ {c}
    /\ Goto(c, "ackAccepted")
    /\ UNCHANGED <<frames, queue, readers, stopping, dataVars>>

\* Variant, for mutation: an aborted save keeps the barrier.
AbortKeepsBarrier(c) ==
    /\ phase[c] \in {"saved", "failed"}
    /\ Goto(c, "ackFailed")
    /\ UNCHANGED <<frames, gateVars, stopping, dataVars>>

\* A failed save, or an acknowledgement that does not encode, drops the
\* barrier without a signal.
AbortSave(c) ==
    /\ phase[c] \in {"saved", "failed"}
    /\ writer' = writer \ {c}
    /\ Goto(c, "ackFailed")
    /\ UNCHANGED <<frames, queue, readers, stopping, dataVars>>

SendShutdownAck(c) ==
    /\ phase[c] \in {"ackAccepted", "ackFailed"}
    /\ Goto(c, "ready")
    /\ UNCHANGED <<frames, gateVars, stopping, dataVars>>

\* The client goes away, or the term arm has pushed Shutdown: the connection
\* loop ends.
Close(c) ==
    /\ phase[c] \in {"ready"} \cup Answering
    /\ Goto(c, "closed")
    /\ UNCHANGED <<frames, gateVars, stopping, dataVars>>

\* What the daemon does by itself once a frame has been received.
Serve(c) ==
    \/ DispatchPermit(c) \/ DropFrame(c) \/ HandleRequest(c) \/ DropPermit(c)
    \/ BeginSave(c) \/ AlreadyInProgress(c) \/ BuildSession(c)
    \/ WriteSession(c) \/ SaveFails(c)
    \/ Signal(c) \/ ReleaseBarrier(c) \/ AbortSave(c)

\* What needs the client: sending, and reading the answers.
ClientSide(c) ==
    \/ \E want \in Waiting : ReceiveFrame(c, want)
    \/ Reply(c) \/ SendShutdownAck(c) \/ Close(c)

GateNext == \E c \in Tasks : Serve(c) \/ ClientSide(c)

GateSpec == GateInit /\ [][GateNext]_gateStateVars

\* The runtime keeps polling a handler that can run.  A client that stops
\* reading stalls the writes to it for ever, so those have no fairness.
FairGateSpec == GateSpec /\ \A c \in Tasks : WF_gateStateVars(Serve(c))

-----------------------------------------------------------------------------
\* Among the types: one connection at a time holds the save barrier.
GateTypeOK ==
    /\ phase \in [Tasks -> Phases]
    /\ frames \in Counts
    /\ queue \in Seq(Tasks)
    /\ readers \in SUBSET Tasks
    /\ writer \in {{}} \cup {{c} : c \in Tasks}
    /\ stopping \in BOOLEAN
    /\ applied \in Counts
    /\ acked \in Counts
    /\ snapshot \in Counts
    /\ stored \in Counts

\* Once the daemon has said it will stop, every mutation any client was told
\* about is in the session file, and so is every one still being answered.
NothingLost ==
    stopping => \A c \in Tasks : acked[c] <= stored[c] /\ applied[c] = stored[c]

\* A permit acquired after the signal is never used: no request is being
\* dispatched once the daemon is terminating, on any connection.
NoDispatchAfterTerm ==
    stopping => \A c \in Tasks : phase[c] \notin Dispatching

\* While a save reads and writes the session, nothing it reads changes.
SaveIsQuiet ==
    [][(\E c \in Tasks : phase[c] \in Saving) => applied' = applied]_gateStateVars

\* A second RequestShutdown is acknowledged without saving again: the session
\* the first one promised is the one on disk when the daemon exits.
SavedOnce == [][stopping => stored' = stored]_gateStateVars

\* The permit, the barrier, the save and the signal implement the one-step
\* save point.
Point == INSTANCE SavePoint
ImplementsSavePoint == Point!PointSpec

\* What the gate promises in every state: no acknowledged mutation outside
\* the session file of a terminating daemon, and nothing dispatched in one.
GateIsSafe == GateTypeOK /\ NothingLost /\ NoDispatchAfterTerm

\* What it promises of every step: a save is one point in time, during which
\* no mutation takes effect.
SavesAtOnePoint == ImplementsSavePoint /\ SaveIsQuiet

\* Everyone who waits for the gate gets through, though other clients may
\* never read their answers: a shutdown cannot be held up by a stalled client
\* and dispatch resumes after a save that was aborted.
NobodyStuck ==
    \A c \in Tasks : (phase[c] \in Waiting) ~> (phase[c] \notin Waiting)
=============================================================================
