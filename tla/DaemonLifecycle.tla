------------------------- MODULE DaemonLifecycle -------------------------
(***************************************************************************)
(* The daemon's main loop and the life of its connections                  *)
(* (oakterm-daemon: Daemon::run, handle_client, perform_handshake in       *)
(* server/mod.rs).                                                         *)
(*                                                                         *)
(* Every accepted connection is a task of its own; the tasks and the main  *)
(* loop share the client counter, the idle signal the last task to end     *)
(* sends, and the termination signal a RequestShutdown sends.  A watch     *)
(* channel keeps its value: a signal once sent stays.  What a connection   *)
(* does while it is served is left out but for the two ends that matter    *)
(* here; ShutdownGate has the save.  Each client connects at most once.    *)
(***************************************************************************)
EXTENDS Naturals, FiniteSets

CONSTANT Conns    \* connections the clients attempt

VARIABLES
    persist,   \* set before run, from the --persist flag
    server,    \* where Daemon::run is
    conn,      \* connection -> where its client and task are
    count,     \* client_count
    idle,      \* shutdown_tx: the last client disconnected
    term,      \* term_tx: a client requested shutdown
    seen,      \* connection -> its receiver has marked the termination seen
    told,      \* connection -> Shutdown was pushed to it
    saved,     \* a session was saved for the exit
    expired    \* the drain ran into its deadline

connVars == <<conn, seen, told>>
signals == <<idle, term, saved>>
vars == <<persist, server, connVars, count, signals, expired>>

ServerStates == {"running", "idleExit", "termExit", "draining", "archiving",
                 "exited"}

\* The task runs, and is counted, from "accepted" to "releasing"; "last" is
\* between the decrement that reached zero and the signal it leads to.
Counted == {"accepted", "handshake", "serving", "releasing"}
Attached == {"handshake", "serving"}
ConnStates == Counted \cup {"absent", "backlog", "last", "gone", "refused"}

Init ==
    /\ persist \in BOOLEAN
    /\ server = "running"
    /\ conn = [c \in Conns |-> "absent"]
    /\ count = 0
    /\ idle = FALSE /\ term = FALSE /\ saved = FALSE /\ expired = FALSE
    /\ seen = [c \in Conns |-> FALSE]
    /\ told = [c \in Conns |-> FALSE]

Move(c, from, to) == conn[c] = from /\ conn' = [conn EXCEPT ![c] = to]

-----------------------------------------------------------------------------
\* A client connects to the socket; the listener has not accepted it yet.
Connect(c) ==
    /\ server \in {"running", "idleExit", "termExit"}
    /\ Move(c, "absent", "backlog")
    /\ UNCHANGED <<server, seen, told, count, signals, expired>>

Accept(c) ==
    /\ server = "running"
    /\ Move(c, "backlog", "accepted")
    /\ count' = count + 1
    /\ UNCHANGED <<server, seen, told, signals, expired>>

\* The arms of the loop that leave it.
SeeIdle ==
    /\ server = "running"
    /\ idle
    /\ server' = "idleExit"
    /\ UNCHANGED <<connVars, count, signals, expired>>

SeeTerm ==
    /\ server = "running"
    /\ term
    /\ server' = "termExit"
    /\ UNCHANGED <<connVars, count, signals, expired>>

\* Drop the listener and remove the socket: whoever is in the backlog is
\* reset.  Only the termination drains the connections.
CloseListener ==
    /\ \/ server = "idleExit" /\ server' = "archiving"
       \/ server = "termExit" /\ server' = "draining"
    /\ conn' = [c \in Conns |-> IF conn[c] = "backlog" THEN "refused"
                                ELSE conn[c]]
    /\ UNCHANGED <<seen, told, count, signals, expired>>

DrainDone ==
    /\ server = "draining"
    /\ count = 0
    /\ server' = "archiving"
    /\ UNCHANGED <<connVars, count, signals, expired>>

\* One second has passed.
DrainExpires ==
    /\ server = "draining"
    /\ count > 0
    /\ server' = "archiving"
    /\ expired' = TRUE
    /\ UNCHANGED <<connVars, count, signals>>

\* Every pane's archive is shut down and run returns, ending the process and
\* with it every task.
Exit ==
    /\ server = "archiving"
    /\ server' = "exited"
    /\ UNCHANGED <<connVars, count, signals, expired>>

-----------------------------------------------------------------------------
Alive == server # "exited"

\* Variant, for mutation: a termination signalled before the subscription is
\* not looked for.
SubscribeUnchecked(c) ==
    /\ Alive
    /\ Move(c, "accepted", "handshake")
    /\ seen' = [seen EXCEPT ![c] = term]
    /\ UNCHANGED <<server, told, count, signals, expired>>

\* handle_client subscribes, which marks the current value seen, and leaves
\* at once if termination was already signalled.
Subscribe(c) ==
    /\ Alive
    /\ seen' = [seen EXCEPT ![c] = term]
    /\ IF term THEN Move(c, "accepted", "releasing")
               ELSE Move(c, "accepted", "handshake")
    /\ UNCHANGED <<server, told, count, signals, expired>>

\* ClientHello and ServerHello were exchanged within the timeout ...
HandshakeDone(c) ==
    /\ Alive
    /\ Move(c, "handshake", "serving")
    /\ UNCHANGED <<server, seen, told, count, signals, expired>>

\* Variant, for mutation: a failed handshake ends the task past its
\* bookkeeping.
HandshakeLeaks(c) ==
    /\ Alive
    /\ Move(c, "handshake", "gone")
    /\ UNCHANGED <<server, seen, told, count, signals, expired>>

\* ... or not: no or a bad hello, another version, the timeout.
HandshakeFails(c) ==
    /\ Alive
    /\ Move(c, "handshake", "releasing")
    /\ UNCHANGED <<server, seen, told, count, signals, expired>>

\* RequestShutdown, accepted: the session is saved, then the signal sent.
AcceptShutdown(c) ==
    /\ Alive
    /\ conn[c] = "serving"
    /\ saved' = TRUE /\ term' = TRUE
    /\ UNCHANGED <<server, connVars, count, idle, expired>>

\* The term arm: push Shutdown and leave.
TermArm(c) ==
    /\ Alive
    /\ term /\ ~ seen[c]
    /\ Move(c, "serving", "releasing")
    /\ seen' = [seen EXCEPT ![c] = TRUE]
    /\ told' = [told EXCEPT ![c] = TRUE]
    /\ UNCHANGED <<server, count, signals, expired>>

\* The client hangs up, detaches, or a write to it fails.
Disconnect(c) ==
    /\ Alive
    /\ Move(c, "serving", "releasing")
    /\ UNCHANGED <<server, seen, told, count, signals, expired>>

\* The task ends: count itself out ...
Leave(c) ==
    /\ Alive
    /\ count' = count - 1
    /\ Move(c, "releasing", IF count' = 0 /\ ~ persist THEN "last" ELSE "gone")
    /\ UNCHANGED <<server, seen, told, signals, expired>>

\* ... and, if it was the last, send the idle signal.
SignalIdle(c) ==
    /\ Alive
    /\ Move(c, "last", "gone")
    /\ idle' = TRUE
    /\ UNCHANGED <<server, seen, told, count, term, saved, expired>>

\* What the daemon does by itself.
RunStep ==
    \/ \E c \in Conns : Accept(c)
    \/ SeeIdle \/ SeeTerm \/ CloseListener \/ DrainDone \/ Exit

TaskStep(c) ==
    \/ Subscribe(c) \/ HandshakeFails(c) \/ TermArm(c)
    \/ Leave(c) \/ SignalIdle(c)

ClientStep(c) ==
    \/ Connect(c) \/ HandshakeDone(c) \/ AcceptShutdown(c) \/ Disconnect(c)

Next ==
    /\ \/ RunStep \/ DrainExpires
       \/ \E c \in Conns : TaskStep(c) \/ ClientStep(c)
    /\ UNCHANGED persist

Spec == Init /\ [][Next]_vars

\* The runtime polls the loop and the tasks that can run, and the handshake
\* timeout ends a handshake nobody finishes.  A Shutdown push gets through to
\* a client that reads; the deadline of the drain, which is there for one that
\* does not, has no fairness, so nothing below leans on it.
FairSpec ==
    /\ Spec
    /\ WF_vars(RunStep /\ UNCHANGED persist)
    /\ \A c \in Conns : WF_vars(TaskStep(c) /\ UNCHANGED persist)
-----------------------------------------------------------------------------
\* Among the types: the counter counts the tasks that still have to leave,
\* whichever way each of them ends.
TypeOK ==
    /\ persist \in BOOLEAN
    /\ server \in ServerStates
    /\ conn \in [Conns -> ConnStates]
    /\ count = Cardinality({c \in Conns : conn[c] \in Counted})
    /\ idle \in BOOLEAN /\ term \in BOOLEAN
    /\ saved \in BOOLEAN /\ expired \in BOOLEAN
    /\ seen \in [Conns -> BOOLEAN]
    /\ told \in [Conns -> BOOLEAN]

\* A termination cuts no client off: after it the daemon exits with a
\* connection still open only if the deadline of the drain passed, or the last
\* client had left before and the daemon was on its way out already.
DrainedBeforeExit ==
    server \in {"archiving", "exited"} /\ term /\ ~ idle /\ ~ expired
      => \A c \in Conns : conn[c] \notin Counted

\* A persistent daemon stops on request only, with the session saved.
PersistStays == persist /\ server # "running" => term /\ saved

\* A connection is not left open in a daemon that terminates: those being
\* served are told, and the ones that slipped in around the signal leave too,
\* without the help of the drain's deadline.
NobodyMissesTerm ==
    \A c \in Conns :
      term ~> (conn[c] \notin Attached \cup {"accepted"} \/ server = "exited")

\* Once a client has come and every one has gone, the daemon exits: no way a
\* connection can end leaves it running for nobody.
ExitsWhenIdle ==
    (~ persist /\ (\E c \in Conns : conn[c] = "gone")
               /\ (\A c \in Conns : conn[c] \in {"absent", "gone", "refused"}))
      ~> (server = "exited" \/ \E c \in Conns : conn[c] \in Counted)

\* The daemon's exit is the right one: the clients are counted, drained
\* first, and a persistent daemon waits for a request.
ExitsRightly == TypeOK /\ DrainedBeforeExit /\ PersistStays

\* The daemon ends, and nobody is left hanging when it does.
DaemonEnds == NobodyMissesTerm /\ ExitsWhenIdle
=============================================================================
