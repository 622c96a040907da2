------------------------- MODULE LifecycleProofs -------------------------
(***************************************************************************)
(* Safety of the daemon's bookkeeping, and of how things end.  First of    *)
(* how they end: of DaemonLifecycle for any set of connections (which need *)
(* not be finite, as only finitely many are accepted at any time), of      *)
(* PaneLifecycle for any set of clients and any amount of output, and of   *)
(* ShutdownGate for any set of connections and any number of requests,     *)
(* with its refinement of SavePoint.  Then of PaneManager, with its        *)
(* refinement of PaneDirectory, for any set of clients and any bounds on   *)
(* panes, tabs and workspaces.  The four share nothing: the parts are      *)
(* about Spec, PaneSpec, GateSpec and ManagerSpec.                         *)
(***************************************************************************)
EXTENDS DaemonLifecycle, PaneLifecycle, ShutdownGate, PaneManager,
        MuxStateProofs

-----------------------------------------------------------------------------
\* The daemon's main loop and its connections.

\* The connections client_count stands for.
CountedConns == {c \in Conns : conn[c] \in Counted}

CountInv == TypeOK /\ IsFiniteSet(CountedConns)

\* Why the daemon leaves its loop, and what it has done by then.
ExitInv ==
    /\ term => saved
    /\ persist => ~ idle /\ \A c \in Conns : conn[c] # "last"
    /\ server = "idleExit" => idle
    /\ server \in {"termExit", "draining"} => term
    /\ server \in {"archiving", "exited"} =>
         \/ idle
         \/ term /\ (expired \/ CountedConns = {})

DaemonInv == CountInv /\ ExitInv

\* Every step is one of the loop's or of a connection's.
LEMMA StepCases ==
  ASSUME [Next]_vars
  PROVE  \/ /\ UNCHANGED persist
            /\ \/ RunStep \/ DrainExpires
               \/ \E c \in Conns : TaskStep(c) \/ ClientStep(c)
         \/ UNCHANGED vars
  BY DEF Next

\* A step of c's task or client moves c only.
LEMMA MoveType ==
  ASSUME TypeOK, NEW c \in Conns, NEW from, NEW to \in ConnStates,
         Move(c, from, to)
  PROVE  conn' \in [Conns -> ConnStates]
  BY DEF TypeOK, Move

\* A move within the counted states, or outside them, changes no count.
LEMMA MoveWithin ==
  ASSUME TypeOK, NEW c \in Conns, NEW from, NEW to,
         Move(c, from, to), from \in Counted <=> to \in Counted
  PROVE  CountedConns' = CountedConns
  BY DEF TypeOK, Move, CountedConns

\* A move into the counted states adds the connection ...
LEMMA MoveIn ==
  ASSUME TypeOK, NEW c \in Conns, NEW from, NEW to,
         Move(c, from, to), from \notin Counted, to \in Counted
  PROVE  CountedConns' = CountedConns \cup {c} /\ c \notin CountedConns
  BY DEF TypeOK, Move, CountedConns

\* ... and a move out of them removes it.
LEMMA MoveOut ==
  ASSUME TypeOK, NEW c \in Conns, NEW from, NEW to,
         Move(c, from, to), from \in Counted, to \notin Counted
  PROVE  CountedConns' = CountedConns \ {c} /\ c \in CountedConns
  BY DEF TypeOK, Move, CountedConns

-----------------------------------------------------------------------------
\* Each action leaves the types and the count right: the counter moves with
\* the set it counts in Accept and Leave, and neither moves elsewhere.
LEMMA CountStep == CountInv /\ [Next]_vars => CountInv'
<1> SUFFICES ASSUME CountInv, [Next]_vars PROVE CountInv'
  OBVIOUS
<1> USE DEF CountInv
<1> DEFINE Others == /\ persist' \in BOOLEAN /\ server' \in ServerStates
                     /\ idle' \in BOOLEAN /\ term' \in BOOLEAN
                     /\ saved' \in BOOLEAN /\ expired' \in BOOLEAN
                     /\ seen' \in [Conns -> BOOLEAN]
                     /\ told' \in [Conns -> BOOLEAN]
           Same == /\ Others
                   /\ conn' \in [Conns -> ConnStates]
                   /\ CountedConns' = CountedConns
                   /\ count' = count
<1>1. Same => CountInv'
  BY DEF TypeOK, CountedConns
\* A step that leaves the connections where they are.
<1>2. Others /\ UNCHANGED <<conn, count>> => Same
  BY DEF TypeOK, CountedConns
\* A step of one connection between two states that count alike.
<1>3. ASSUME NEW c \in Conns, NEW from, NEW to \in ConnStates,
             Move(c, from, to), from \in Counted <=> to \in Counted,
             Others, UNCHANGED count
      PROVE  Same
  BY <1>3, MoveType, MoveWithin
<1>4. ASSUME NEW c \in Conns, Accept(c), UNCHANGED persist PROVE CountInv'
  <2>1. Move(c, "backlog", "accepted") /\ count' = count + 1
    BY <1>4 DEF Accept
  <2>2. Others
    BY <1>4 DEF Accept, TypeOK, signals
  <2>3. CountedConns' = CountedConns \cup {c} /\ c \notin CountedConns
    BY <2>1, MoveIn DEF Counted
  <2>4. /\ IsFiniteSet(CountedConns')
        /\ Cardinality(CountedConns') = Cardinality(CountedConns) + 1
    BY <2>3, FS_AddElement
  <2>5. conn' \in [Conns -> ConnStates]
    BY <2>1, MoveType DEF ConnStates, Counted
  <2>6. QED
    BY <2>1, <2>2, <2>4, <2>5 DEF TypeOK, CountedConns
<1>5. ASSUME NEW c \in Conns, Leave(c), UNCHANGED persist PROVE CountInv'
  <2>1. PICK to \in {"last", "gone"} : Move(c, "releasing", to)
    BY <1>5 DEF Leave
  <2>2. count' = count - 1
    BY <1>5 DEF Leave
  <2>3. Others
    BY <1>5 DEF Leave, TypeOK, signals
  <2>4. CountedConns' = CountedConns \ {c} /\ c \in CountedConns
    BY <2>1, MoveOut DEF Counted
  <2>5. /\ IsFiniteSet(CountedConns')
        /\ Cardinality(CountedConns') = Cardinality(CountedConns) - 1
    BY <2>4, FS_RemoveElement
  <2>6. conn' \in [Conns -> ConnStates]
    BY <2>1, MoveType DEF ConnStates
  <2>7. QED
    BY <2>2, <2>3, <2>5, <2>6 DEF TypeOK, CountedConns
<1>6. ASSUME CloseListener, UNCHANGED persist PROVE CountInv'
  <2>1. Others /\ count' = count
    BY <1>6 DEF CloseListener, TypeOK, signals, ServerStates
  <2>2. /\ conn' \in [Conns -> ConnStates]
        /\ \A c \in Conns : conn'[c] \in Counted <=> conn[c] \in Counted
    BY <1>6 DEF CloseListener, TypeOK, ConnStates, Counted
  <2>3. QED
    BY <1>1, <2>1, <2>2 DEF CountedConns
<1>7. ASSUME SeeIdle \/ SeeTerm \/ DrainDone \/ DrainExpires \/ Exit,
             UNCHANGED persist
      PROVE  CountInv'
  BY <1>1, <1>2, <1>7 DEF SeeIdle, SeeTerm, DrainDone, DrainExpires, Exit,
     TypeOK, ServerStates, signals, connVars
<1>8. ASSUME NEW c \in Conns, ClientStep(c), UNCHANGED persist
      PROVE  CountInv'
  <2>1. CASE Connect(c)
    <3>1. Others /\ Move(c, "absent", "backlog") /\ count' = count
      BY <1>8, <2>1 DEF Connect, TypeOK, signals
    <3>2. QED
      BY <1>1, <1>3, <3>1 DEF ConnStates, Counted
  <2>2. CASE HandshakeDone(c)
    <3>1. Others /\ Move(c, "handshake", "serving") /\ count' = count
      BY <1>8, <2>2 DEF HandshakeDone, TypeOK, signals
    <3>2. QED
      BY <1>1, <1>3, <3>1 DEF ConnStates, Counted
  <2>3. CASE Disconnect(c)
    <3>1. Others /\ Move(c, "serving", "releasing") /\ count' = count
      BY <1>8, <2>3 DEF Disconnect, TypeOK, signals
    <3>2. QED
      BY <1>1, <1>3, <3>1 DEF ConnStates, Counted
  <2>4. CASE AcceptShutdown(c)
    BY <1>1, <1>2, <1>8, <2>4 DEF AcceptShutdown, TypeOK, connVars
  <2>5. QED
    BY <1>8, <2>1, <2>2, <2>3, <2>4 DEF ClientStep
<1>9. ASSUME NEW c \in Conns, UNCHANGED persist,
             Subscribe(c) \/ HandshakeFails(c) \/ TermArm(c) \/ SignalIdle(c)
      PROVE  CountInv'
  <2>1. CASE Subscribe(c)
    <3>1. Others /\ count' = count
      BY <1>9, <2>1 DEF Subscribe, TypeOK, signals
    <3>2. \E to \in {"handshake", "releasing"} : Move(c, "accepted", to)
      BY <2>1 DEF Subscribe
    <3>3. QED
      BY <1>1, <1>3, <3>1, <3>2 DEF ConnStates, Counted
  <2>2. CASE HandshakeFails(c)
    <3>1. Others /\ Move(c, "handshake", "releasing") /\ count' = count
      BY <1>9, <2>2 DEF HandshakeFails, TypeOK, signals
    <3>2. QED
      BY <1>1, <1>3, <3>1 DEF ConnStates, Counted
  <2>3. CASE TermArm(c)
    <3>1. Others /\ Move(c, "serving", "releasing") /\ count' = count
      BY <1>9, <2>3 DEF TermArm, TypeOK, signals
    <3>2. QED
      BY <1>1, <1>3, <3>1 DEF ConnStates, Counted
  <2>4. CASE SignalIdle(c)
    <3>1. Others /\ Move(c, "last", "gone") /\ count' = count
      BY <1>9, <2>4 DEF SignalIdle, TypeOK
    <3>2. QED
      BY <1>1, <1>3, <3>1 DEF ConnStates, Counted
  <2>5. QED
    BY <1>9, <2>1, <2>2, <2>3, <2>4
<1>10. CASE UNCHANGED vars
  BY <1>1, <1>2, <1>10 DEF vars, connVars, signals, TypeOK
<1>11. QED
  BY StepCases, <1>4, <1>5, <1>6, <1>7, <1>8, <1>9, <1>10
     DEF RunStep, TaskStep

-----------------------------------------------------------------------------
\* Only Accept adds to the connections that count, and only while the loop
\* runs.
LEMMA NoNewcomers ==
  ASSUME TypeOK, [Next]_vars, server # "running"
  PROVE  CountedConns' \subseteq CountedConns
<1>1. ASSUME NEW c \in Conns, TaskStep(c) \/ ClientStep(c)
      PROVE  CountedConns' \subseteq CountedConns
  <2>1. CASE TaskStep(c)
    BY <2>1 DEF TaskStep, Subscribe, HandshakeFails, TermArm, Leave, SignalIdle,
       Move, CountedConns, Counted, TypeOK
  <2>2. CASE ClientStep(c)
    BY <2>2 DEF ClientStep, Connect, HandshakeDone, AcceptShutdown, Disconnect,
       Move, CountedConns, Counted, TypeOK, connVars
  <2>3. QED
    BY <1>1, <2>1, <2>2
<1>2. CASE RunStep \/ DrainExpires \/ UNCHANGED vars
  BY <1>2 DEF RunStep, Accept, SeeIdle, SeeTerm, CloseListener, DrainDone,
     DrainExpires, Exit, CountedConns, Counted, TypeOK, vars, connVars
<1>3. QED
  BY StepCases, <1>1, <1>2

\* ExitInv is inductive, given that the counter counts: the drain ends on a
\* counter of zero.
LEMMA ExitStep == CountInv /\ ExitInv /\ [Next]_vars => ExitInv'
<1> SUFFICES ASSUME CountInv, ExitInv, [Next]_vars PROVE ExitInv'
  OBVIOUS
<1>1. /\ server # "running" => CountedConns' \subseteq CountedConns
      /\ conn \in [Conns -> ConnStates]
  BY NoNewcomers DEF CountInv, TypeOK
<1> USE DEF ExitInv
<1>2. CASE DrainDone /\ UNCHANGED persist
  <2>1. CountedConns = {}
    <3>1. Cardinality(CountedConns) = 0
      BY <1>2 DEF CountInv, TypeOK, CountedConns, DrainDone
    <3>2. QED
      BY <3>1, FS_EmptySet DEF CountInv
  <2>2. QED
    BY <1>1, <1>2, <2>1 DEF DrainDone, connVars, signals
<1>3. CASE (SeeIdle \/ SeeTerm \/ DrainExpires \/ Exit) /\ UNCHANGED persist
  BY <1>1, <1>3 DEF SeeIdle, SeeTerm, DrainExpires, Exit, connVars, signals
<1>4. CASE CloseListener /\ UNCHANGED persist
  BY <1>1, <1>4 DEF CloseListener, signals
<1>5. ASSUME NEW c \in Conns, Accept(c), UNCHANGED persist PROVE ExitInv'
  BY <1>1, <1>5 DEF Accept, signals, Move
<1>6. ASSUME NEW c \in Conns, Leave(c), UNCHANGED persist PROVE ExitInv'
  BY <1>1, <1>6 DEF Leave, signals, Move
<1>7. ASSUME NEW c \in Conns, SignalIdle(c), UNCHANGED persist PROVE ExitInv'
  BY <1>1, <1>7 DEF SignalIdle, Move
<1>8. ASSUME NEW c \in Conns, AcceptShutdown(c), UNCHANGED persist
      PROVE  ExitInv'
  BY <1>1, <1>8 DEF AcceptShutdown, connVars
<1>9. ASSUME NEW c \in Conns, UNCHANGED persist,
             \/ Subscribe(c) \/ HandshakeFails(c) \/ TermArm(c)
             \/ Connect(c) \/ HandshakeDone(c) \/ Disconnect(c)
      PROVE  ExitInv'
  BY <1>1, <1>9 DEF Subscribe, HandshakeFails, TermArm, Connect, HandshakeDone,
     Disconnect, Move, signals
<1>10. CASE UNCHANGED vars
  BY <1>1, <1>10 DEF vars, connVars, signals, CountedConns
<1>11. QED
  BY StepCases, <1>2, <1>3, <1>4, <1>5, <1>6, <1>7, <1>8, <1>9, <1>10
     DEF RunStep, TaskStep, ClientStep

\* DaemonInv holds in every reachable state.
LEMMA DaemonInvariant == Spec => []DaemonInv
<1>1. Init => CountInv /\ ExitInv
  <2> SUFFICES ASSUME Init PROVE CountInv /\ ExitInv
    OBVIOUS
  <2>1. CountedConns = {} /\ count = 0
    BY DEF Init, CountedConns, Counted
  <2>2. IsFiniteSet(CountedConns) /\ count = Cardinality(CountedConns)
    BY <2>1, FS_EmptySet
  <2>3. CountInv
    BY <2>2 DEF Init, CountInv, TypeOK, CountedConns, ServerStates, ConnStates
  <2>4. QED
    BY <2>3 DEF Init, ExitInv
<1>2. CountInv /\ ExitInv /\ [Next]_vars => (CountInv /\ ExitInv)'
  BY CountStep, ExitStep
<1>3. QED
  BY <1>1, <1>2, PTL DEF Spec, DaemonInv

\* The counter is the number of tasks that still have to leave: neither a way
\* a connection ends nor an interleaving of Accept and Leave makes it drift.
THEOREM CounterCounts == Spec => []TypeOK
<1>1. DaemonInv => TypeOK
  BY DEF DaemonInv, CountInv
<1>2. QED
  BY <1>1, DaemonInvariant, PTL

\* A termination cuts nobody off but by the drain's deadline, or in a daemon
\* whose last client had already left.
THEOREM DrainsFirst == Spec => []DrainedBeforeExit
<1>1. DaemonInv => DrainedBeforeExit
  BY DEF DaemonInv, ExitInv, DrainedBeforeExit, CountedConns
<1>2. QED
  BY <1>1, DaemonInvariant, PTL

\* --persist: the daemon leaves its loop on request only, session saved.
THEOREM PersistHolds == Spec => []PersistStays
<1>1. DaemonInv => PersistStays
  BY DEF DaemonInv, CountInv, TypeOK, ServerStates, ExitInv, PersistStays
<1>2. QED
  BY <1>1, DaemonInvariant, PTL

\* The three together, for any set of connections.
THEOREM ExitIsRight == Spec => []ExitsRightly
<1>1. TypeOK /\ DrainedBeforeExit /\ PersistStays => ExitsRightly
  BY DEF ExitsRightly
<1>2. QED
  BY <1>1, CounterCounts, DrainsFirst, PersistHolds, PTL

-----------------------------------------------------------------------------
\* A pane, its shell and its read loop.

\* A chunk that was read when there was room for it still finds room,
\* whatever resizes repainted in the meantime.
OutputFits == loop \in {"lookup", "locking"} => dirty < MaxOutput

\* A pane that could still be given a shell never had one, and a tombstoned
\* pane has none left.
ShellInv ==
    /\ SpawnedOnce
    /\ ~ closed /\ pty = "notSpawned" => spawns = 0
    /\ closed => pty = "notSpawned"

PaneInv == ShellInv /\ RunningIsWatched

\* The steps of a client's connection task.
PaneStep(c) == ResizeLookup(c) \/ RemovePane(c) \/ NotifyLookup(c) \/ Handler(c)

\* Every step is a client's, the loop's or the shell's.
LEMMA PaneStepCases ==
  ASSUME [PaneNext]_shellVars
  PROVE  \/ \E c \in Clients : PaneStep(c)
         \/ LoopStep \/ LoopSetupFails \/ LoopReads \/ LoopError \/ ChildExits
         \/ UNCHANGED shellVars
  BY DEF PaneNext, PaneStep

-----------------------------------------------------------------------------
\* Types, with the room that output in flight has been left.
LEMMA TypeStep == PaneTypeOK /\ OutputFits /\ [PaneNext]_shellVars => PaneTypeOK' /\ OutputFits'
<1> SUFFICES ASSUME PaneTypeOK, OutputFits, [PaneNext]_shellVars
             PROVE  PaneTypeOK' /\ OutputFits'
  OBVIOUS
<1> USE MaxOutputAssumption DEF PaneTypeOK, OutputFits, LoopStates, paneVars,
        noticeVars, clientVars
<1>1. ASSUME NEW c \in Clients, ResizeLookup(c) \/ ResizeRefused(c)
      PROVE  PaneTypeOK' /\ OutputFits'
  BY <1>1 DEF ResizeLookup, ResizeRefused, Become
<1>2. ASSUME NEW c \in Clients, SpawnPty(c) \/ SpawnFails(c) \/ ResizeFdFails(c)
      PROVE  PaneTypeOK' /\ OutputFits'
  <2>1. CASE SpawnPty(c)
    <3>1. pty' = "running" /\ loop' = "starting" /\ child' = "alive"
      BY <2>1 DEF SpawnPty
    <3>2. cancel' \in BOOLEAN
      BY <2>1 DEF SpawnPty
    <3>3. spawns' \in Nat
      <4>1. spawns' = spawns + 1
        BY <2>1 DEF SpawnPty
      <4>2. QED
        BY <4>1
    <3>4. handler' \in [Clients -> {"idle", "resizing", "removing", "notifying"}]
      BY <2>1 DEF SpawnPty, Become
    <3>5. UNCHANGED <<inMap, closed, dirty, wake, exitSent, lastSeen>>
      BY <2>1 DEF SpawnPty
    <3>6. QED
      BY <3>1, <3>2, <3>3, <3>4, <3>5
  <2>2. CASE SpawnFails(c)
    BY <2>2 DEF SpawnFails, Become
  <2>3. CASE ResizeFdFails(c)
    BY <2>3 DEF ResizeFdFails, Become
  <2>4. QED
    BY <1>2, <2>1, <2>2, <2>3
<1>3. ASSUME NEW c \in Clients, ResizeRunning(c)
      PROVE  PaneTypeOK' /\ OutputFits'
  <2>1. dirty' \in 0 .. MaxOutput /\ dirty' < MaxOutput /\ 0 .. dirty \subseteq 0 .. dirty'
    BY <1>3 DEF ResizeRunning, RoomForOutput
  <2>2. lastSeen' \in [Clients -> 0 .. dirty']
    BY <1>3, <2>1 DEF ResizeRunning
  <2>3. QED
    BY <1>3, <2>1, <2>2 DEF ResizeRunning, Become, WakeAll
<1>4. ASSUME NEW c \in Clients, RemovePane(c) \/ ShutdownRemovedPane(c)
      PROVE  PaneTypeOK' /\ OutputFits'
  BY <1>4 DEF RemovePane, ShutdownRemovedPane, Become
<1>5. ASSUME NEW c \in Clients, NotifyLookup(c) \/ NotifyPane(c)
      PROVE  PaneTypeOK' /\ OutputFits'
  <2>1. CASE NotifyLookup(c)
    BY <2>1 DEF NotifyLookup, Become
  <2>2. CASE NotifyPane(c)
    <3>1. exitSent' \in [Clients -> BOOLEAN]
      BY <2>2 DEF NotifyPane
    <3>2. lastSeen' \in [Clients -> 0 .. dirty']
      BY <2>2 DEF NotifyPane
    <3>3. QED
      BY <2>2, <3>1, <3>2 DEF NotifyPane, Become
  <2>3. QED
    BY <1>5, <2>1, <2>2
<1>6. CASE LoopProcess
  <2>1. dirty' \in 0 .. MaxOutput /\ 0 .. dirty \subseteq 0 .. dirty'
    BY <1>6 DEF LoopProcess, Advance
  <2>2. lastSeen' \in [Clients -> 0 .. dirty']
    BY <1>6, <2>1 DEF LoopProcess
  <2>3. QED
    BY <1>6, <2>1, <2>2 DEF LoopProcess, Advance
<1>7. CASE LoopReads
  BY <1>7 DEF LoopReads, RoomForOutput, Advance
<1>8. CASE \/ LoopStarts \/ LoopSetupFails \/ LoopCancelled \/ LoopEof
           \/ LoopError \/ LoopLookup \/ LoopFindsClosed
  BY <1>8 DEF LoopStarts, LoopSetupFails, LoopCancelled, LoopEof, LoopError,
     LoopLookup, LoopFindsClosed, Advance
<1>9. CASE LoopNotify \/ RecordLookup \/ RecordPaneExit \/ LoopEnds \/ ChildExits
  <2>1. CASE LoopNotify \/ RecordLookup \/ LoopEnds \/ ChildExits
    BY <2>1 DEF LoopNotify, RecordLookup, LoopEnds, ChildExits, Advance, WakeAll
  <2>2. CASE RecordPaneExit
    BY <2>2 DEF RecordPaneExit, Advance, WakeAll
  <2>3. QED
    BY <1>9, <2>1, <2>2
<1>10. CASE UNCHANGED shellVars
  BY <1>10 DEF shellVars
<1>11. QED
  BY PaneStepCases, <1>1, <1>2, <1>3, <1>4, <1>5, <1>6, <1>7, <1>8, <1>9, <1>10
     DEF PaneStep, Handler, Resize, LoopStep

\* Every variable has its type, and no client is told of a change that has
\* not happened (NotifyPane records the seqno it announces).
THEOREM PaneTypeCorrect == PaneSpec => []PaneTypeOK
<1>1. PaneInit => PaneTypeOK /\ OutputFits
  <2> SUFFICES ASSUME PaneInit PROVE PaneTypeOK /\ OutputFits
    OBVIOUS
  <2> USE MaxOutputAssumption DEF PaneInit
  <2>1. dirty \in 0 .. MaxOutput /\ spawns \in Nat /\ OutputFits
    BY DEF OutputFits
  <2>2. lastSeen \in [Clients -> 0 .. dirty]
    OBVIOUS
  <2>3. wake \in [Clients -> BOOLEAN] /\ exitSent \in [Clients -> BOOLEAN]
    OBVIOUS
  <2>4. QED
    BY <2>1, <2>2, <2>3 DEF PaneTypeOK, LoopStates
<1>2. QED
  BY <1>1, TypeStep, PTL DEF PaneSpec

-----------------------------------------------------------------------------
\* PaneInv is inductive.  Five actions can disturb it; the others leave the
\* shell alone and the loop on its way to the end.
LEMMA ShellStep == PaneInv /\ [PaneNext]_shellVars => PaneInv'
<1> SUFFICES ASSUME PaneInv, [PaneNext]_shellVars PROVE PaneInv'
  OBVIOUS
<1> USE DEF PaneInv, ShellInv, SpawnedOnce, RunningIsWatched, paneVars,
        clientVars, noticeVars
\* The pane had no shell before: the second part of ShellInv.
<1>1. ASSUME NEW c \in Clients, SpawnPty(c) PROVE PaneInv'
  BY <1>1 DEF SpawnPty
<1>2. ASSUME NEW c \in Clients, SpawnFails(c) PROVE PaneInv'
  BY <1>2 DEF SpawnFails
<1>3. ASSUME NEW c \in Clients, ShutdownRemovedPane(c) PROVE PaneInv'
  BY <1>3 DEF ShutdownRemovedPane
\* The exit is recorded, or the pane is tombstoned and not running.
<1>4. CASE RecordPaneExit
  BY <1>4 DEF RecordPaneExit, Advance
\* Out of the map, there is nobody left to watch for.
<1>5. CASE RecordLookup
  BY <1>5 DEF RecordLookup, Advance
<1>6. ASSUME NEW c \in Clients,
             \/ ResizeLookup(c) \/ ResizeRefused(c) \/ ResizeRunning(c)
             \/ ResizeFdFails(c) \/ RemovePane(c) \/ NotifyLookup(c)
             \/ NotifyPane(c)
      PROVE  PaneInv'
  BY <1>6 DEF ResizeLookup, ResizeRefused, ResizeRunning, ResizeFdFails,
     RemovePane, NotifyLookup, NotifyPane
<1>7. CASE \/ LoopStarts \/ LoopSetupFails \/ LoopCancelled \/ LoopReads
           \/ LoopEof \/ LoopError \/ LoopLookup
  BY <1>7 DEF LoopStarts, LoopSetupFails, LoopCancelled, LoopReads, LoopEof,
     LoopError, LoopLookup, Advance
<1>8. CASE \/ LoopProcess \/ LoopFindsClosed \/ LoopNotify \/ LoopEnds
           \/ ChildExits \/ UNCHANGED shellVars
  BY <1>8 DEF LoopProcess, LoopFindsClosed, LoopNotify, LoopEnds, ChildExits,
     Advance, shellVars
<1>9. QED
  BY PaneStepCases, <1>1, <1>2, <1>3, <1>4, <1>5, <1>6, <1>7, <1>8
     DEF PaneStep, Handler, Resize, LoopStep

\* PaneInv holds in every reachable state.
LEMMA PaneInvariant == PaneSpec => []PaneInv
<1>1. PaneInit => PaneInv
  BY DEF PaneInit, PaneInv, ShellInv, SpawnedOnce, RunningIsWatched
<1>2. QED
  BY <1>1, ShellStep, PTL DEF PaneSpec

\* Resizes may race each other, an exit and a close: the spawn under the pane
\* lock happens once at most.
THEOREM OneShell == PaneSpec => []SpawnedOnce
<1>1. PaneInv => SpawnedOnce
  BY DEF PaneInv, ShellInv
<1>2. QED
  BY <1>1, PaneInvariant, PTL

\* No way out of the read loop forgets to record the exit of a pane that
\* clients can still reach.
THEOREM AlwaysWatched == PaneSpec => []RunningIsWatched
<1>1. PaneInv => RunningIsWatched
  BY DEF PaneInv
<1>2. QED
  BY <1>1, PaneInvariant, PTL

\* The pane's invariants together.
THEOREM ShellIsWatched == PaneSpec => []OneShellWatched
<1>1. PaneTypeOK /\ SpawnedOnce /\ RunningIsWatched => OneShellWatched
  BY DEF OneShellWatched
<1>2. QED
  BY <1>1, PaneTypeCorrect, OneShell, AlwaysWatched, PTL

\* The tombstone check under the pane lock covers every path that looked the
\* pane up before it was closed.
THEOREM NothingAfterClose == PaneSpec => ClosedIsDead
<1>1. PaneInv /\ [PaneNext]_shellVars =>
        [closed => closed' /\ pty' = pty /\ dirty' = dirty /\ spawns' = spawns]_shellVars
  <2> SUFFICES ASSUME PaneInv, [PaneNext]_shellVars, closed
               PROVE  closed' /\ pty' = pty /\ dirty' = dirty /\ spawns' = spawns
    OBVIOUS
  <2> USE DEF paneVars, clientVars, noticeVars
  <2>1. ASSUME NEW c \in Clients, PaneStep(c)
        PROVE  closed' /\ pty' = pty /\ dirty' = dirty /\ spawns' = spawns
    <3>1. CASE ShutdownRemovedPane(c)
      BY <3>1 DEF ShutdownRemovedPane, PaneInv, ShellInv
    <3>2. CASE \/ ResizeLookup(c) \/ RemovePane(c) \/ NotifyLookup(c)
               \/ NotifyPane(c) \/ Resize(c)
      BY <3>2 DEF ResizeLookup, RemovePane, NotifyLookup, NotifyPane, Resize,
         ResizeRefused, SpawnPty, SpawnFails, ResizeRunning, ResizeFdFails
    <3>3. QED
      BY <2>1, <3>1, <3>2 DEF PaneStep, Handler
  <2>2. CASE LoopStep
    BY <2>2 DEF LoopStep, LoopStarts, LoopCancelled, LoopEof, LoopLookup,
       LoopProcess, LoopFindsClosed, LoopNotify, RecordLookup, RecordPaneExit,
       LoopEnds
  <2>3. CASE \/ LoopSetupFails \/ LoopReads \/ LoopError \/ ChildExits
             \/ UNCHANGED shellVars
    BY <2>3 DEF LoopSetupFails, LoopReads, LoopError, ChildExits, shellVars
  <2>4. QED
    BY PaneStepCases, <2>1, <2>2, <2>3
<1>2. QED
  BY <1>1, PaneInvariant, PTL DEF PaneSpec, ClosedIsDead

-----------------------------------------------------------------------------
\* The shutdown gate.

\* Who holds the gate is who is in the corresponding part of its handler, and
\* the two sides of the gate exclude each other.
GateInv ==
    /\ \A c \in Tasks : c \in readers <=> phase[c] \in Dispatching
    /\ \A c \in Tasks : c \in writer <=> phase[c] \in Saving
    /\ \A b, c \in writer : b = c
    /\ writer = {} \/ readers = {}

\* What a save has read is still what has been applied, and what it wrote is
\* what the session file holds; once the signal is sent that stays so, and
\* only the connection that sent it can still hold the barrier.
DataInv ==
    /\ \A c \in Tasks : phase[c] = "built" => snapshot = applied
    /\ \A c \in Tasks : phase[c] = "saved" => stored = applied
    /\ \A c \in Tasks : phase[c] = "signalled" => stopping
    /\ stopping => /\ stored = applied
               /\ readers = {}
               /\ \A c \in writer : phase[c] = "signalled"
    /\ \A c \in Tasks : acked[c] <= applied[c]

SafeInv == GateInv /\ DataInv

\* Taking the head of the queue leaves a queue.
LEMMA TailIsSeq == ASSUME NEW S, NEW s \in Seq(S), s # <<>>
                   PROVE  Tail(s) \in Seq(S)
  OBVIOUS

\* Dropping the barrier leaves it held by one connection at most.
LEMMA DropLeavesHolder ==
  ASSUME NEW S, NEW w \in {{}} \cup {{c} : c \in S}, NEW d
  PROVE  w \ {d} \in {{}} \cup {{c} : c \in S}
<1>1. CASE w = {}
  BY <1>1
<1>2. ASSUME NEW c \in S, w = {c} PROVE w \ {d} = {} \/ w \ {d} = {c}
  BY <1>2
<1>3. QED
  BY <1>1, <1>2

\* GateTypeOK, every variable's range, holds in every reachable state.
THEOREM TypeCorrect == GateSpec => []GateTypeOK
<1> USE DEF GateTypeOK, Phases, Waiting, Dispatching, Saving, Answering, Counts,
            gateVars, dataVars, Goto
<1>1. GateInit => GateTypeOK
  <2> USE DEF GateInit, Zero
  <2>1. GateInit => phase \in [Tasks -> Phases] /\ frames \in Counts
    OBVIOUS
  <2>2. GateInit => queue \in Seq(Tasks)
    OBVIOUS
  <2>3. GateInit => readers \in SUBSET Tasks /\ writer \in SUBSET Tasks
    OBVIOUS
  <2>4. GateInit => stopping \in BOOLEAN
    OBVIOUS
  <2>5. GateInit => /\ applied \in Counts /\ acked \in Counts
                /\ snapshot \in Counts /\ stored \in Counts
    OBVIOUS
  <2>6. QED
    BY <2>1, <2>2, <2>3, <2>4, <2>5
<1>2. GateTypeOK /\ [GateNext]_gateStateVars => GateTypeOK'
  <2> SUFFICES ASSUME GateTypeOK, [GateNext]_gateStateVars PROVE GateTypeOK'
    OBVIOUS
  <2>1. ASSUME NEW c \in Tasks, NEW want \in Waiting, ReceiveFrame(c, want)
        PROVE  GateTypeOK'
    <3>1. frames' \in Counts
      BY <2>1 DEF ReceiveFrame
    <3>2. queue' \in Seq(Tasks)
      BY <2>1 DEF ReceiveFrame
    <3>3. phase' \in [Tasks -> Phases]
      BY <2>1 DEF ReceiveFrame
    <3>4. UNCHANGED <<readers, writer, stopping, applied, acked, snapshot, stored>>
      BY <2>1 DEF ReceiveFrame
    <3>5. QED
      BY <3>1, <3>2, <3>3, <3>4
  <2>2. ASSUME NEW c \in Tasks, DispatchPermit(c) PROVE GateTypeOK'
    <3>1. queue' \in Seq(Tasks)
      BY <2>2, TailIsSeq DEF DispatchPermit, NextInLine
    <3>2. QED
      BY <2>2, <3>1 DEF DispatchPermit
  <2>3. ASSUME NEW c \in Tasks, DropFrame(c) PROVE GateTypeOK'
    <3>1. queue' \in Seq(Tasks)
      BY <2>3, TailIsSeq DEF DropFrame, NextInLine
    <3>2. QED
      BY <2>3, <3>1 DEF DropFrame
  <2>4. ASSUME NEW c \in Tasks, HandleRequest(c) PROVE GateTypeOK'
    BY <2>4 DEF HandleRequest
  <2>5. ASSUME NEW c \in Tasks, DropPermit(c) PROVE GateTypeOK'
    BY <2>5 DEF DropPermit
  <2>6. ASSUME NEW c \in Tasks, Reply(c) PROVE GateTypeOK'
    BY <2>6 DEF Reply
  <2>7. ASSUME NEW c \in Tasks, BarrierGranted(c)
        PROVE  queue' \in Seq(Tasks)
    BY <2>7, TailIsSeq DEF BarrierGranted, NextInLine
  <2>8. ASSUME NEW c \in Tasks, BeginSave(c) PROVE GateTypeOK'
    <3>1. queue' \in Seq(Tasks)
      BY <2>7, <2>8 DEF BeginSave
    <3>2. writer' = {c}
      BY <2>8 DEF BeginSave, BarrierGranted
    <3>3. QED
      BY <2>8, <3>1, <3>2 DEF BeginSave
  <2>9. ASSUME NEW c \in Tasks, AlreadyInProgress(c) PROVE GateTypeOK'
    <3>1. queue' \in Seq(Tasks)
      BY <2>7, <2>9 DEF AlreadyInProgress
    <3>2. QED
      BY <2>9, <3>1 DEF AlreadyInProgress
  <2>10. ASSUME NEW c \in Tasks,
                BuildSession(c) \/ WriteSession(c) \/ SaveFails(c)
         PROVE  GateTypeOK'
    BY <2>10 DEF BuildSession, WriteSession, SaveFails
  <2>11. ASSUME NEW c \in Tasks,
                Signal(c) \/ ReleaseBarrier(c) \/ AbortSave(c)
         PROVE  GateTypeOK'
    <3>1. CASE Signal(c)
      BY <3>1 DEF Signal
    <3>2. writer \ {c} \in {{}} \cup {{d} : d \in Tasks}
      BY DropLeavesHolder
    <3>3. CASE ReleaseBarrier(c)
      BY <3>2, <3>3 DEF ReleaseBarrier
    <3>4. CASE AbortSave(c)
      BY <3>2, <3>4 DEF AbortSave
    <3>5. QED
      BY <2>11, <3>1, <3>3, <3>4
  <2>12. ASSUME NEW c \in Tasks, SendShutdownAck(c) \/ Close(c)
         PROVE  GateTypeOK'
    BY <2>12 DEF SendShutdownAck, Close
  <2>13. CASE UNCHANGED gateStateVars
    BY <2>13 DEF gateStateVars
  <2>14. QED
    BY <2>1, <2>2, <2>3, <2>4, <2>5, <2>6, <2>8, <2>9, <2>10, <2>11, <2>12,
       <2>13
       DEF GateNext, Serve, ClientSide
<1>3. QED
  BY <1>1, <1>2, PTL DEF GateSpec

\* The gate is inductive: permits and barrier follow the handlers' progress.
LEMMA GateStep == GateTypeOK /\ GateInv /\ [GateNext]_gateStateVars => GateInv'
<1> SUFFICES ASSUME GateTypeOK, GateInv, [GateNext]_gateStateVars PROVE GateInv'
  OBVIOUS
<1> USE DEF GateTypeOK, GateInv, Dispatching, Saving, gateVars, Goto
<1>1. ASSUME NEW c \in Tasks, NEW want \in Waiting, ReceiveFrame(c, want)
      PROVE  GateInv'
  BY <1>1 DEF ReceiveFrame, Waiting
<1>2. ASSUME NEW c \in Tasks, DispatchPermit(c) \/ DropFrame(c)
      PROVE  GateInv'
  BY <1>2 DEF DispatchPermit, DropFrame
<1>3. ASSUME NEW c \in Tasks, HandleRequest(c) \/ DropPermit(c) \/ Reply(c)
      PROVE  GateInv'
  BY <1>3 DEF HandleRequest, DropPermit, Reply
<1>4. ASSUME NEW c \in Tasks, BeginSave(c) \/ AlreadyInProgress(c)
      PROVE  GateInv'
  BY <1>4 DEF BeginSave, AlreadyInProgress, BarrierGranted
<1>5. ASSUME NEW c \in Tasks,
             BuildSession(c) \/ WriteSession(c) \/ SaveFails(c)
      PROVE  GateInv'
  BY <1>5 DEF BuildSession, WriteSession, SaveFails
<1>6. ASSUME NEW c \in Tasks,
             Signal(c) \/ ReleaseBarrier(c) \/ AbortSave(c)
      PROVE  GateInv'
  BY <1>6 DEF Signal, ReleaseBarrier, AbortSave
<1>7. ASSUME NEW c \in Tasks, SendShutdownAck(c) \/ Close(c)
      PROVE  GateInv'
  BY <1>7 DEF SendShutdownAck, Close, Answering
<1>8. CASE UNCHANGED gateStateVars
  BY <1>8 DEF gateStateVars
<1>9. QED
  BY <1>1, <1>2, <1>3, <1>4, <1>5, <1>6, <1>7, <1>8
     DEF GateNext, Serve, ClientSide

\* The data is inductive: a mutation needs a permit, so none happens between
\* the read of a save and the end of its barrier, or after the signal.
LEMMA DataStep == GateTypeOK /\ SafeInv /\ [GateNext]_gateStateVars => DataInv'
<1> SUFFICES ASSUME GateTypeOK, SafeInv, [GateNext]_gateStateVars PROVE DataInv'
  OBVIOUS
<1> USE DEF SafeInv, GateTypeOK, GateInv, DataInv, Dispatching, Saving, Counts,
            gateVars, dataVars, Goto
<1>1. ASSUME NEW c \in Tasks, NEW want \in Waiting, ReceiveFrame(c, want)
      PROVE  DataInv'
  BY <1>1 DEF ReceiveFrame, Waiting
<1>2. ASSUME NEW c \in Tasks, DispatchPermit(c) PROVE DataInv'
  BY <1>2 DEF DispatchPermit
<1>3. ASSUME NEW c \in Tasks, DropFrame(c) PROVE DataInv'
  BY <1>3 DEF DropFrame
<1>4. ASSUME NEW c \in Tasks, HandleRequest(c) PROVE DataInv'
  <2>1. c \in readers /\ writer = {} /\ ~ stopping
    BY <1>4 DEF HandleRequest
  <2>2. \A d \in Tasks : phase'[d] \notin Saving
    BY <1>4, <2>1 DEF HandleRequest
  <2>3. ~ stopping'
    BY <1>4, <2>1 DEF HandleRequest
  <2>4. \A d \in Tasks : acked'[d] <= applied'[d]
    BY <1>4 DEF HandleRequest
  <2>5. QED
    BY <2>2, <2>3, <2>4
<1>5. ASSUME NEW c \in Tasks, DropPermit(c) PROVE DataInv'
  BY <1>5 DEF DropPermit
<1>6. ASSUME NEW c \in Tasks, Reply(c) PROVE DataInv'
  BY <1>6 DEF Reply
<1>7. ASSUME NEW c \in Tasks, BeginSave(c) PROVE DataInv'
  <2>1. ~ stopping /\ ~ stopping'
    BY <1>7 DEF BeginSave
  <2>2. \A d \in Tasks :
          phase'[d] \in {"built", "saved", "signalled"} => phase'[d] = phase[d]
    BY <1>7 DEF BeginSave
  <2>3. QED
    BY <1>7, <2>1, <2>2 DEF BeginSave
<1>8. ASSUME NEW c \in Tasks, AlreadyInProgress(c) PROVE DataInv'
  BY <1>8 DEF AlreadyInProgress, BarrierGranted
<1>9. ASSUME NEW c \in Tasks, BuildSession(c) PROVE DataInv'
  BY <1>9 DEF BuildSession
<1>10. ASSUME NEW c \in Tasks, WriteSession(c) PROVE DataInv'
  BY <1>10 DEF WriteSession
<1>11. ASSUME NEW c \in Tasks, SaveFails(c) PROVE DataInv'
  BY <1>11 DEF SaveFails
<1>12. ASSUME NEW c \in Tasks, Signal(c) PROVE DataInv'
  BY <1>12 DEF Signal
<1>13. ASSUME NEW c \in Tasks, ReleaseBarrier(c) PROVE DataInv'
  BY <1>13 DEF ReleaseBarrier
<1>14. ASSUME NEW c \in Tasks, AbortSave(c) PROVE DataInv'
  BY <1>14 DEF AbortSave
<1>15. ASSUME NEW c \in Tasks, SendShutdownAck(c) PROVE DataInv'
  BY <1>15 DEF SendShutdownAck
<1>16. ASSUME NEW c \in Tasks, Close(c) PROVE DataInv'
  BY <1>16 DEF Close, Answering
<1>17. CASE UNCHANGED gateStateVars
  BY <1>17 DEF gateStateVars
<1>18. QED
  BY <1>1, <1>2, <1>3, <1>4, <1>5, <1>6, <1>7, <1>8, <1>9, <1>10, <1>11, <1>12, <1>13, <1>14, <1>15, <1>16, <1>17
     DEF GateNext, Serve, ClientSide

\* The gate and data invariants hold in every reachable state.
THEOREM SafeInvariant == GateSpec => [](GateTypeOK /\ SafeInv)
<1>1. GateInit => GateInv
  BY DEF GateInit, GateInv, Dispatching, Saving
<1>2. GateInit => DataInv
  BY DEF GateInit, DataInv, Zero
<1>3. GateTypeOK /\ SafeInv /\ [GateNext]_gateStateVars => SafeInv'
  BY GateStep, DataStep DEF SafeInv
<1>4. QED
  BY <1>1, <1>2, <1>3, TypeCorrect, PTL DEF GateSpec, SafeInv

-----------------------------------------------------------------------------
\* No acknowledged mutation is missing from the session file the daemon stops
\* with, for any number of connections and requests.
THEOREM NothingIsLost == GateSpec => []NothingLost
<1>1. GateTypeOK /\ SafeInv => NothingLost
  BY DEF GateTypeOK, SafeInv, DataInv, NothingLost
<1>2. QED
  BY <1>1, SafeInvariant, PTL

\* No request is being dispatched once termination has been signalled.
THEOREM NoDispatch == GateSpec => []NoDispatchAfterTerm
<1>1. SafeInv => NoDispatchAfterTerm
  BY DEF SafeInv, GateInv, DataInv, NoDispatchAfterTerm
<1>2. QED
  BY <1>1, SafeInvariant, PTL

\* No mutation takes effect while a save is under way.
THEOREM SavesAreQuiet == GateSpec => SaveIsQuiet
<1>1. SafeInv /\ [GateNext]_gateStateVars
        => [(\E c \in Tasks : phase[c] \in Saving) => applied' = applied]_gateStateVars
  <2> SUFFICES ASSUME SafeInv, GateNext, NEW c \in Tasks, phase[c] \in Saving
               PROVE  applied' = applied
    BY DEF gateStateVars
  <2>1. readers = {}
    BY DEF SafeInv, GateInv
  <2>2. \A d \in Tasks : phase[d] # "dispatch"
    BY <2>1 DEF SafeInv, GateInv, Dispatching
  <2>3. QED
    BY <2>2 DEF GateNext, Serve, ClientSide, ReceiveFrame, DispatchPermit, DropFrame,
       HandleRequest, DropPermit, Reply, BeginSave, AlreadyInProgress,
       BuildSession, WriteSession, SaveFails, Signal, ReleaseBarrier,
       AbortSave, SendShutdownAck, Close, dataVars
<1>2. QED
  BY <1>1, SafeInvariant, PTL DEF GateSpec, SaveIsQuiet

\* The session file never changes after the signal.
THEOREM SessionSavedOnce == GateSpec => SavedOnce
<1>1. SafeInv /\ [GateNext]_gateStateVars => [stopping => stored' = stored]_gateStateVars
  <2> SUFFICES ASSUME SafeInv, GateNext, stopping PROVE stored' = stored
    BY DEF gateStateVars
  <2>1. \A d \in Tasks : phase[d] # "built"
    BY DEF SafeInv, GateInv, DataInv, Saving
  <2>2. QED
    BY <2>1 DEF GateNext, Serve, ClientSide, ReceiveFrame, DispatchPermit, DropFrame,
       HandleRequest, DropPermit, Reply, BeginSave, AlreadyInProgress,
       BuildSession, WriteSession, SaveFails, Signal, ReleaseBarrier,
       AbortSave, SendShutdownAck, Close, dataVars
<1>2. QED
  BY <1>1, SafeInvariant, PTL DEF GateSpec, SavedOnce

-----------------------------------------------------------------------------
\* Every step of the gate is a step of the save point or leaves it unchanged.
LEMMA GateStepSimulates ==
  GateTypeOK /\ SafeInv /\ [GateNext]_gateStateVars => [Point!PointNext]_(Point!pointVars)
<1> SUFFICES ASSUME GateTypeOK, SafeInv, [GateNext]_gateStateVars
             PROVE  Point!PointNext \/ UNCHANGED Point!pointVars
  OBVIOUS
<1> USE DEF Point!pointVars, gateVars, dataVars, Goto
<1>1. ASSUME NEW c \in Tasks, HandleRequest(c) PROVE Point!PointNext
  <2>1. ~ stopping
    BY <1>1 DEF HandleRequest, SafeInv, GateInv, DataInv, Dispatching
  <2>2. Point!Apply(c)
    BY <1>1, <2>1 DEF HandleRequest, Point!Apply
  <2>3. QED
    BY <2>2 DEF Point!PointNext
<1>2. ASSUME NEW c \in Tasks, Reply(c) PROVE Point!PointNext
  <2>1. Point!Acknowledge(c)
    BY <1>2 DEF Reply, Point!Acknowledge
  <2>2. QED
    BY <2>1 DEF Point!PointNext
<1>3. ASSUME NEW c \in Tasks, WriteSession(c) PROVE Point!PointNext
  <2>1. ~ stopping /\ snapshot = applied
    BY <1>3 DEF WriteSession, SafeInv, GateInv, DataInv, Saving
  <2>2. Point!Save
    BY <1>3, <2>1 DEF WriteSession, Point!Save
  <2>3. QED
    BY <2>2 DEF Point!PointNext
<1>4. ASSUME NEW c \in Tasks, Signal(c) PROVE Point!PointNext
  <2>1. ~ stopping /\ stored = applied
    BY <1>4 DEF Signal, SafeInv, GateInv, DataInv, Saving
  <2>2. Point!Stop
    BY <1>4, <2>1 DEF Signal, Point!Stop
  <2>3. QED
    BY <2>2 DEF Point!PointNext
<1>5. ASSUME NEW c \in Tasks,
             \/ \E want \in Waiting : ReceiveFrame(c, want)
             \/ DispatchPermit(c) \/ DropFrame(c) \/ DropPermit(c)
             \/ BeginSave(c) \/ AlreadyInProgress(c) \/ BuildSession(c)
             \/ SaveFails(c) \/ ReleaseBarrier(c) \/ AbortSave(c)
             \/ SendShutdownAck(c) \/ Close(c)
      PROVE  UNCHANGED Point!pointVars
  BY <1>5 DEF ReceiveFrame, DispatchPermit, DropFrame, DropPermit, BeginSave,
     AlreadyInProgress, BuildSession, SaveFails, ReleaseBarrier, AbortSave,
     SendShutdownAck, Close
<1>6. CASE UNCHANGED gateStateVars
  BY <1>6 DEF gateStateVars
<1>7. QED
  BY <1>1, <1>2, <1>3, <1>4, <1>5, <1>6 DEF GateNext, Serve, ClientSide

\* The protocol of permits, barrier, save and signal implements the save point.
THEOREM GateImplementsSavePoint == GateSpec => ImplementsSavePoint
<1>1. GateInit => Point!PointInit
  BY DEF GateInit, Zero, Point!PointInit
<1>2. QED
  BY <1>1, GateStepSimulates, SafeInvariant, PTL
     DEF GateSpec, ImplementsSavePoint, Point!PointSpec

\* The gate's invariants together, for any set of connections.
THEOREM GateSafety == GateSpec => []GateIsSafe
<1>1. GateTypeOK /\ NothingLost /\ NoDispatchAfterTerm => GateIsSafe
  BY DEF GateIsSafe
<1>2. QED
  BY <1>1, TypeCorrect, NothingIsLost, NoDispatch, PTL

\* Its action properties together.
THEOREM GateSavesAtOnePoint == GateSpec => SavesAtOnePoint
BY GateImplementsSavePoint, SavesAreQuiet DEF SavesAtOnePoint

-----------------------------------------------------------------------------
\* The pane manager, its handlers and the directory they implement.

\* The ids about to be allocated name nothing yet.
PaneIdsFresh ==
    /\ \A p \in panes \cup tombstoned : p < nextPaneId
    /\ \A c \in Users : \A p \in doomed[c] : p < nextPaneId

\* The types of the map around the multiplexer.
MgrTypeOK ==
    /\ nextPaneId \in 0 .. MaxPanes
    /\ panes \in SUBSET PaneIds
    /\ tombstoned \in SUBSET PaneIds
    /\ splitting \in [Users -> PaneIds \cup {NoPane}]
    /\ doomed \in [Users -> SUBSET PaneIds]

\* The inductive invariant, of the multiplexer and of the map around it.
MgrInv == MgrTypeOK /\ MapMatchesMux /\ RemovedByOne /\ PaneIdsFresh
IInv == MuxInv /\ MgrInv

LEMMA IInvImplies == IInv => PanesAndTabsAgree
  BY DEF IInv, MuxInv, MgrInv, MuxTypeOK, MgrTypeOK, PanesAndTabsAgree, ManagerTypeOK

-----------------------------------------------------------------------------
\* The manager around the multiplexer.

LEMMA FreshPane ==
  ASSUME IInv, AllocatePaneId
  PROVE  /\ nextPaneId \in PaneIds /\ nextPaneId' = nextPaneId + 1
         /\ nextPaneId' \in 0 .. MaxPanes
         /\ nextPaneId \notin panes \cup tombstoned
         /\ \A c \in Users : nextPaneId \notin doomed[c]
         /\ \A t \in TabIds : nextPaneId \notin layout[t]
<1>1. /\ nextPaneId \in PaneIds /\ nextPaneId' = nextPaneId + 1
      /\ nextPaneId' \in 0 .. MaxPanes
  BY BoundsAssumption DEF AllocatePaneId, IInv, MgrInv, MgrTypeOK, PaneIds
<1>2. ~ (nextPaneId < nextPaneId)
  BY <1>1, BoundsAssumption DEF PaneIds
<1>3. nextPaneId \notin panes \cup tombstoned /\ \A c \in Users : nextPaneId \notin doomed[c]
  BY <1>2 DEF IInv, MgrInv, PaneIdsFresh
<1>4. \A t \in TabIds : nextPaneId \notin layout[t]
  BY <1>3 DEF IInv, MgrInv, MapMatchesMux
<1>5. QED
  BY <1>1, <1>3, <1>4

\* An id is allocated, and a pane of that id born or not.
LEMMA AllocateKeeps ==
  ASSUME IInv, AllocatePaneId,
         UNCHANGED panes \/ InsertPaneState(nextPaneId),
         UNCHANGED <<tombstoned, doomed>>,
         splitting' \in [Users -> PaneIds \cup {NoPane}],
         MapMatchesMux'
  PROVE  MgrInv'
<1>1. /\ nextPaneId \in PaneIds /\ nextPaneId' = nextPaneId + 1
      /\ nextPaneId' \in 0 .. MaxPanes
      /\ nextPaneId \notin tombstoned /\ \A c \in Users : nextPaneId \notin doomed[c]
  BY FreshPane
<1>2. panes' = panes \/ panes' = panes \cup {nextPaneId}
  BY DEF InsertPaneState
<1>3. MgrTypeOK'
  BY <1>1, <1>2 DEF IInv, MgrInv, MgrTypeOK
<1>4. RemovedByOne'
  BY <1>1, <1>2 DEF IInv, MgrInv, RemovedByOne
<1>5. PaneIdsFresh'
  <2>1. \A p \in PaneIds : p < nextPaneId => p < nextPaneId + 1
    BY <1>1, BoundsAssumption DEF PaneIds
  <2>2. nextPaneId < nextPaneId + 1
    BY <1>1, BoundsAssumption DEF PaneIds
  <2>3. \A p \in panes' \cup tombstoned : p < nextPaneId + 1
    BY <1>1, <1>2, <2>1, <2>2 DEF IInv, MgrInv, PaneIdsFresh, MgrTypeOK
  <2>4. \A c \in Users : \A p \in doomed[c] : p < nextPaneId + 1
    BY <1>1, <2>1 DEF IInv, MgrInv, PaneIdsFresh, MgrTypeOK
  <2>5. QED
    BY <1>1, <2>3, <2>4 DEF PaneIdsFresh
<1>6. QED
  BY <1>3, <1>4, <1>5 DEF MgrInv

\* Panes leave the map for the hands of an idle client.
LEMMA RemoveKeeps ==
  ASSUME IInv, NEW c \in Users, Idle(c), NEW S \in SUBSET panes,
         RemovePanes(c, S), UNCHANGED nextPaneId, MapMatchesMux'
  PROVE  MgrInv'
<1>1. /\ panes' = panes \ S
      /\ doomed' = [doomed EXCEPT ![c] = S]
      /\ UNCHANGED <<tombstoned, splitting>>
      /\ doomed[c] = {}
  BY DEF RemovePanes, Idle
<1>2. MgrTypeOK'
  BY <1>1 DEF IInv, MgrInv, MgrTypeOK
<1>3. \A b \in Users : doomed'[b] = IF b = c THEN S ELSE doomed[b]
  BY <1>1 DEF IInv, MgrInv, MgrTypeOK
<1>4. RemovedByOne'
  BY <1>1, <1>3 DEF IInv, MgrInv, RemovedByOne
<1>5. PaneIdsFresh'
  BY <1>1, <1>3 DEF IInv, MgrInv, PaneIdsFresh
<1>6. QED
  BY <1>2, <1>4, <1>5 DEF MgrInv

\* What only moves the focus, or tabs, leaves the manager as it was.
LEMMA ArrangeKeeps ==
  ASSUME IInv, UNCHANGED mgrVars, UNCHANGED layout, UNCHANGED nextPaneId
  PROVE  MgrInv'
  BY DEF IInv, MgrInv, MgrTypeOK, MapMatchesMux, RemovedByOne, PaneIdsFresh, mgrVars

LEMMA MuxUntouched ==
  ASSUME MuxInv, UNCHANGED <<orderVars, treeVars, nextTabId, nextWorkspaceId>>
  PROVE  MuxInv'
<1>1. UNCHANGED <<workspaces, activeWorkspace, tabs, activeTab, layout, focusedPane,
                  nextTabId, nextWorkspaceId>>
  BY DEF orderVars, treeVars
<1>2. MuxTypeOK'
  BY <1>1 DEF MuxInv, MuxTypeOK
<1>3. PlacedOnce'
  BY <1>1 DEF MuxInv, PlacedOnce
<1>4. FocusValid'
  BY <1>1 DEF MuxInv, FocusValid, TabsOf
<1>5. TabsListed' /\ TabIdsFresh'
  BY <1>1 DEF MuxInv, TabsListed, TabIdsFresh
<1>6. QED
  BY <1>2, <1>3, <1>4, <1>5 DEF MuxInv

-----------------------------------------------------------------------------
\* The actions that allocate.

LEMMA CreateKeeps ==
  ASSUME IInv, NEW c \in Users, CreatePane(c)
  PROVE  IInv'
<1>1. PICK wi \in WorkspaceIndices, ti \in TabIndices :
        /\ Located(focusedPane[ActiveTabId], wi, ti)
        /\ AddLeaf(TabAt(wi, ti), nextPaneId)
  BY DEF CreatePane, Create
<1>2. /\ AllocatePaneId /\ InsertPaneState(nextPaneId)
      /\ UNCHANGED <<workspaces, activeWorkspace, tabs, activeTab, focusedPane,
                     nextTabId, nextWorkspaceId, tombstoned, splitting, doomed>>
  BY DEF CreatePane, Create, orderVars
<1>3. /\ wi \in DOMAIN workspaces /\ ti \in DOMAIN tabs[workspaces[wi]]
      /\ layout[TabAt(wi, ti)] # {}
  BY <1>1 DEF Located
<1>4. nextPaneId \in PaneIds /\ \A t \in TabIds : nextPaneId \notin layout[t]
  BY <1>2, FreshPane
<1>5. MuxInv /\ TabAt(wi, ti) \in TabIds
  BY <1>3, Places DEF IInv, MuxInv
<1>6. MuxInv'
  BY <1>1, <1>2, <1>3, <1>4, <1>5, AddLeafKeeps
<1>7. MapMatchesMux'
  BY <1>1, <1>2, <1>5
     DEF IInv, MgrInv, MapMatchesMux, MuxInv, MuxTypeOK, AddLeaf, InsertPaneState
<1>8. MgrInv'
  BY <1>2, <1>7, AllocateKeeps DEF IInv, MgrInv, MgrTypeOK
<1>9. QED
  BY <1>6, <1>8 DEF IInv

LEMMA SplitKeeps ==
  ASSUME IInv, NEW c \in Users, Split(c)
  PROVE  IInv'
<1>1. splitting \in [Users -> PaneIds \cup {NoPane}]
  BY DEF IInv, MgrInv, MgrTypeOK
<1>2. CASE SplitRefused(c)
  <2>1. /\ UNCHANGED <<muxVars, panes, tombstoned, doomed>>
        /\ splitting' \in [Users -> PaneIds \cup {NoPane}]
    BY <1>1, <1>2 DEF SplitRefused
  <2>2. MuxInv'
    BY <2>1, MuxUntouched DEF IInv, muxVars, idVars
  <2>3. MgrInv'
    BY <2>1 DEF IInv, MgrInv, MgrTypeOK, MapMatchesMux, RemovedByOne, PaneIdsFresh,
       muxVars, treeVars, idVars
  <2>4. QED
    BY <2>2, <2>3 DEF IInv
<1>3. CASE SplitMissed(c)
  <2>1. /\ AllocatePaneId
        /\ UNCHANGED <<orderVars, treeVars, nextTabId, nextWorkspaceId,
                       panes, tombstoned, doomed>>
        /\ splitting' \in [Users -> PaneIds \cup {NoPane}]
    BY <1>1, <1>3 DEF SplitMissed
  <2>2. MuxInv'
    BY <2>1, MuxUntouched DEF IInv
  <2>3. MapMatchesMux'
    BY <2>1 DEF IInv, MgrInv, MapMatchesMux, treeVars
  <2>4. MgrInv'
    BY <2>1, <2>3, AllocateKeeps
  <2>5. QED
    BY <2>2, <2>4 DEF IInv
<1>4. CASE SplitCreate(c)
  <2>1. PICK wi \in WorkspaceIndices, ti \in TabIndices :
          /\ Located(splitting[c], wi, ti)
          /\ AddLeaf(TabAt(wi, ti), nextPaneId)
          /\ focusedPane' = [focusedPane EXCEPT ![TabAt(wi, ti)] = nextPaneId]
          /\ Activate(wi, ti)
    BY <1>4 DEF SplitCreate
  <2>2. /\ AllocatePaneId /\ InsertPaneState(nextPaneId)
        /\ UNCHANGED <<workspaces, tabs, nextTabId, nextWorkspaceId, tombstoned, doomed>>
        /\ splitting' \in [Users -> PaneIds \cup {NoPane}]
    BY <1>1, <1>4 DEF SplitCreate
  <2>3. /\ wi \in DOMAIN workspaces /\ ti \in DOMAIN tabs[workspaces[wi]]
        /\ layout[TabAt(wi, ti)] # {}
    BY <2>1 DEF Located
  <2>4. nextPaneId \in PaneIds /\ \A t \in TabIds : nextPaneId \notin layout[t]
    BY <2>2, FreshPane
  <2>5. MuxInv /\ TabAt(wi, ti) \in TabIds
    BY <2>3, Places DEF IInv, MuxInv
  <2>6. MuxInv'
    BY <2>1, <2>2, <2>3, <2>4, <2>5, AddLeafKeeps
  <2>7. MapMatchesMux'
    BY <2>1, <2>2, <2>5
       DEF IInv, MgrInv, MapMatchesMux, MuxInv, MuxTypeOK, AddLeaf, InsertPaneState
  <2>8. MgrInv'
    BY <2>2, <2>7, AllocateKeeps
  <2>9. QED
    BY <2>6, <2>8 DEF IInv
<1>5. QED
  BY <1>2, <1>3, <1>4 DEF Split

LEMMA NewTabStep ==
  ASSUME IInv, NEW c \in Users, NewTab(c) \/ NewWorkspace(c)
  PROVE  IInv'
<1>1. /\ AllocatePaneId /\ InsertPaneState(nextPaneId)
      /\ NewTabIn(nextPaneId) \/ NewWorkspaceWith(nextPaneId)
      /\ UNCHANGED <<tombstoned, splitting, doomed>>
  BY DEF NewTab, NewTabCreate, NewWorkspace, NewWorkspaceCreate
<1>2. nextPaneId \in PaneIds /\ \A t \in TabIds : nextPaneId \notin layout[t]
  BY <1>1, FreshPane
<1>3. MuxInv'
  BY <1>1, <1>2, NewTabKeeps, NewWorkspaceKeeps DEF IInv
<1>4. MapMatchesMux'
  <2>1. /\ layout' = [layout EXCEPT ![nextTabId] = {nextPaneId}]
        /\ nextTabId < MaxTabs
    BY <1>1 DEF NewTabIn, NewWorkspaceWith, AllocateTabId
  <2>2. nextTabId \in TabIds /\ layout[nextTabId] = {}
    BY <2>1, FreshTab DEF IInv
  <2>3. QED
    BY <1>1, <2>1, <2>2
       DEF IInv, MgrInv, MapMatchesMux, MuxInv, MuxTypeOK, InsertPaneState
<1>5. MgrInv'
  BY <1>1, <1>4, AllocateKeeps DEF IInv, MgrInv, MgrTypeOK
<1>6. QED
  BY <1>3, <1>5 DEF IInv

-----------------------------------------------------------------------------
\* The actions that close.

\* A pane is closed as a leaf among others, or with a tab that is not the last.
LEMMA ClosePaneShape ==
  ASSUME IInv, NEW c \in Users, NEW p \in PaneIds, ClosePane(c, p)
  PROVE  \E wi \in DOMAIN workspaces :
           \E ti \in DOMAIN tabs[workspaces[wi]] :
             /\ p \in layout[TabAt(wi, ti)]
             /\ \/ /\ layout[TabAt(wi, ti)] = {p}
                   /\ Len(workspaces) > 1 \/ Len(tabs[workspaces[wi]]) > 1
                   /\ CloseTabAt(wi, ti)
                \/ CloseLeafAt(p, wi, ti)
<1>1. PICK wi \in WorkspaceIndices, ti \in TabIndices : CloseAt(p, wi, ti)
  BY DEF ClosePane
<1>2. /\ wi \in DOMAIN workspaces /\ ti \in DOMAIN tabs[workspaces[wi]]
      /\ p \in layout[TabAt(wi, ti)]
  BY <1>1 DEF CloseAt, Located
<1> DEFINE t0 == TabAt(wi, ti)
<1>3. CASE layout[t0] = {p} /\ CloseTabAt(wi, ti)
  <2>1. panes # {p}
    <3>1. Cardinality({p}) = 1
      BY FS_Singleton
    <3>2. QED
      BY <3>1 DEF ClosePane
  <2>2. PICK q \in panes : q # p
    BY <2>1 DEF ClosePane
  <2>3. PICK u \in TabIds : q \in layout[u]
    BY DEF IInv, MgrInv, MapMatchesMux
  <2>4. layout[u] # {} /\ u # t0
    BY <1>3, <2>2, <2>3
  <2>5. Len(workspaces) > 1 \/ Len(tabs[workspaces[wi]]) > 1
    BY <1>2, <2>4, AnotherPlace DEF IInv
  <2>6. QED
    BY <1>2, <1>3, <2>5
<1>4. CASE CloseLeafAt(p, wi, ti)
  BY <1>2, <1>4
<1>5. QED
  BY <1>1, <1>3, <1>4 DEF CloseAt

LEMMA ClosePaneKeeps ==
  ASSUME IInv, NEW c \in Users, NEW p \in PaneIds, ClosePane(c, p)
  PROVE  IInv'
<1>0. PICK wi \in DOMAIN workspaces :
        \E ti \in DOMAIN tabs[workspaces[wi]] :
          /\ p \in layout[TabAt(wi, ti)]
          /\ \/ /\ layout[TabAt(wi, ti)] = {p}
                /\ Len(workspaces) > 1 \/ Len(tabs[workspaces[wi]]) > 1
                /\ CloseTabAt(wi, ti)
             \/ CloseLeafAt(p, wi, ti)
  BY ClosePaneShape
<1>1. PICK ti \in DOMAIN tabs[workspaces[wi]] :
        /\ p \in layout[TabAt(wi, ti)]
        /\ \/ /\ layout[TabAt(wi, ti)] = {p}
              /\ Len(workspaces) > 1 \/ Len(tabs[workspaces[wi]]) > 1
              /\ CloseTabAt(wi, ti)
           \/ CloseLeafAt(p, wi, ti)
  BY <1>0
<1> DEFINE t0 == TabAt(wi, ti)
<1>2. MuxInv /\ MuxTypeOK /\ t0 \in TabIds
  BY Places DEF IInv, MuxInv
<1>3. Idle(c) /\ p \in panes /\ RemovePanes(c, {p})
  BY DEF ClosePane
<1>4. MuxInv'
  BY <1>1, <1>2, CloseTabKeeps, CloseLeafKeeps
<1>5. layout' = [layout EXCEPT ![t0] = @ \ {p}] /\ UNCHANGED nextPaneId
  <2>1. CASE layout[t0] = {p} /\ CloseTabAt(wi, ti)
    <3>1. layout' = [layout EXCEPT ![t0] = {}] /\ layout[t0] \ {p} = {}
          /\ UNCHANGED nextPaneId
      BY <2>1 DEF CloseTabAt, idVars
    <3>2. QED
      BY <1>2, <3>1 DEF MuxTypeOK
  <2>2. CASE CloseLeafAt(p, wi, ti)
    BY <2>2 DEF CloseLeafAt, idVars
  <2>3. QED
    BY <1>1, <2>1, <2>2
<1> HIDE DEF t0
<1>6. MapMatchesMux'
  <2>1. panes' = panes \ {p}
    BY <1>3 DEF RemovePanes
  <2>2. \A t \in TabIds : layout'[t] = layout[t] \ {p}
    BY <1>1, <1>2, <1>5 DEF MuxInv, PlacedOnce, MuxTypeOK, t0
  <2>3. QED
    BY <2>1, <2>2 DEF IInv, MgrInv, MapMatchesMux
<1>7. MgrInv'
  BY <1>3, <1>5, <1>6, RemoveKeeps
<1>8. QED
  BY <1>4, <1>7 DEF IInv

LEMMA CloseTabShape ==
  ASSUME IInv, NEW c \in Users, NEW t0 \in TabIds, CloseTab(c, t0)
  PROVE  \E wi \in DOMAIN workspaces :
           \E ti \in DOMAIN tabs[workspaces[wi]] :
             /\ TabAt(wi, ti) = t0
             /\ Len(workspaces) > 1 \/ Len(tabs[workspaces[wi]]) > 1
             /\ CloseTabAt(wi, ti)
<1>1. PICK wi \in WorkspaceIndices, ti \in TabIndices :
        /\ LocatedTab(t0, wi, ti)
        /\ Cardinality(TabPaneIds(t0)) < Cardinality(panes)
        /\ CloseTabAt(wi, ti)
  BY DEF CloseTab
<1>2. /\ wi \in DOMAIN workspaces /\ ti \in DOMAIN tabs[workspaces[wi]]
      /\ TabAt(wi, ti) = t0
  BY <1>1 DEF LocatedTab
<1>3. layout[t0] # panes
  <2> SUFFICES ASSUME layout[t0] = panes PROVE FALSE
    OBVIOUS
  <2>1. IsFiniteSet(panes)
    <3>1. panes \subseteq 0 .. MaxPanes - 1
      BY DEF IInv, MgrInv, MgrTypeOK, PaneIds
    <3>2. 0 \in Int /\ MaxPanes - 1 \in Int
      BY BoundsAssumption
    <3>3. IsFiniteSet(0 .. MaxPanes - 1)
      BY <3>2, FS_Interval
    <3>4. QED
      BY <3>1, <3>3, FS_Subset
  <2>2. Cardinality(panes) \in Nat
    BY <2>1, FS_CardinalityType
  <2>3. QED
    BY <1>1, <2>2 DEF TabPaneIds
<1>4. PICK q \in panes : q \notin layout[t0]
  BY <1>3 DEF IInv, MgrInv, MapMatchesMux
<1>5. PICK u \in TabIds : q \in layout[u]
  BY DEF IInv, MgrInv, MapMatchesMux
<1>6. layout[u] # {} /\ u # TabAt(wi, ti)
  BY <1>2, <1>4, <1>5
<1>7. Len(workspaces) > 1 \/ Len(tabs[workspaces[wi]]) > 1
  BY <1>2, <1>6, AnotherPlace DEF IInv
<1>8. QED
  BY <1>1, <1>2, <1>7

LEMMA CloseTabStep ==
  ASSUME IInv, NEW c \in Users, NEW t0 \in TabIds, CloseTab(c, t0)
  PROVE  IInv'
<1>0. PICK wi \in DOMAIN workspaces :
        \E ti \in DOMAIN tabs[workspaces[wi]] :
          /\ TabAt(wi, ti) = t0
          /\ Len(workspaces) > 1 \/ Len(tabs[workspaces[wi]]) > 1
          /\ CloseTabAt(wi, ti)
  BY CloseTabShape
<1>1. PICK ti \in DOMAIN tabs[workspaces[wi]] :
        /\ TabAt(wi, ti) = t0
        /\ Len(workspaces) > 1 \/ Len(tabs[workspaces[wi]]) > 1
        /\ CloseTabAt(wi, ti)
  BY <1>0
<1>2. Idle(c) /\ RemovePanes(c, layout[t0])
  BY DEF CloseTab, TabPaneIds
<1>3. MuxInv /\ MuxTypeOK /\ layout[t0] \subseteq panes
  BY DEF IInv, MuxInv, MgrInv, MapMatchesMux
<1>4. MuxInv'
  BY <1>1, <1>3, CloseTabKeeps
<1>5. layout' = [layout EXCEPT ![t0] = {}] /\ UNCHANGED nextPaneId
  BY <1>1 DEF CloseTabAt, idVars
<1>6. MapMatchesMux'
  <2>1. panes' = panes \ layout[t0]
    BY <1>2 DEF RemovePanes
  <2>2. \A t \in TabIds : layout'[t] = layout[t] \ layout[t0]
    BY <1>3, <1>5 DEF MuxInv, PlacedOnce, MuxTypeOK
  <2>3. QED
    BY <2>1, <2>2 DEF IInv, MgrInv, MapMatchesMux
<1>7. MgrInv'
  BY <1>2, <1>3, <1>5, <1>6, RemoveKeeps
<1>8. QED
  BY <1>4, <1>7 DEF IInv

LEMMA CloseWorkspaceStep ==
  ASSUME IInv, NEW c \in Users, NEW w \in WorkspaceIds, CloseWorkspace(c, w)
  PROVE  IInv'
<1>1. PICK wi \in WorkspaceIndices :
        wi \in DOMAIN workspaces /\ workspaces[wi] = w /\ CloseWorkspaceAt(wi)
  BY DEF CloseWorkspace, RemoveWorkspace
<1>2. Idle(c) /\ Len(workspaces) > 1 /\ RemovePanes(c, PanesOf(w))
  BY DEF CloseWorkspace, RemoveWorkspace
<1>3. MuxInv /\ MuxTypeOK
  BY DEF IInv, MuxInv
<1>4. MuxInv'
  BY <1>1, <1>2, <1>3, CloseWorkspaceKeeps
<1>5. /\ layout' = [t \in TabIds |-> IF t \in TabsOf(w) THEN {} ELSE layout[t]]
      /\ UNCHANGED nextPaneId
  BY <1>1 DEF CloseWorkspaceAt, idVars
<1>6. TabsOf(w) \subseteq TabIds
  BY <1>3 DEF TabsOf, MuxTypeOK
<1>7. PanesOf(w) \subseteq panes
  BY <1>6 DEF PanesOf, IInv, MgrInv, MapMatchesMux
<1>8. MapMatchesMux'
  <2>1. panes' = panes \ PanesOf(w)
    BY <1>2 DEF RemovePanes
  <2>2. \A t \in TabIds : layout'[t] = layout[t] \ PanesOf(w)
    <3>1. \A t \in TabIds : t \in TabsOf(w) => layout[t] \subseteq PanesOf(w)
      BY DEF PanesOf
    <3>2. \A t \in TabIds : t \notin TabsOf(w) => layout[t] \cap PanesOf(w) = {}
      BY <1>3, <1>6 DEF PanesOf, MuxInv, PlacedOnce
    <3>3. QED
      BY <1>5, <3>1, <3>2
  <2>3. QED
    BY <2>1, <2>2 DEF IInv, MgrInv, MapMatchesMux
<1>9. MgrInv'
  BY <1>2, <1>5, <1>7, <1>8, RemoveKeeps
<1>10. QED
  BY <1>4, <1>9 DEF IInv

-----------------------------------------------------------------------------
\* The actions that move nothing but the focus, the order or a tombstone.

LEMMA ShutdownKeeps ==
  ASSUME IInv, NEW c \in Users, NEW p \in PaneIds, ShutdownRemoved(c, p)
  PROVE  IInv'
<1>1. /\ p \in doomed[c] /\ tombstoned' = tombstoned \cup {p}
      /\ doomed' = [doomed EXCEPT ![c] = @ \ {p}]
      /\ UNCHANGED <<muxVars, panes, splitting>>
  BY DEF ShutdownRemoved
<1>2. MuxInv'
  BY <1>1, MuxUntouched DEF IInv, muxVars, idVars
<1>3. \A b \in Users : doomed'[b] = IF b = c THEN doomed[b] \ {p} ELSE doomed[b]
  BY <1>1 DEF IInv, MgrInv, MgrTypeOK
<1>4. MgrTypeOK'
  BY <1>1 DEF IInv, MgrInv, MgrTypeOK, muxVars, idVars
<1>5. RemovedByOne'
  BY <1>1, <1>3 DEF IInv, MgrInv, RemovedByOne
<1>6. PaneIdsFresh' /\ MapMatchesMux'
  BY <1>1, <1>3 DEF IInv, MgrInv, PaneIdsFresh, MapMatchesMux, muxVars, treeVars, idVars
<1>7. QED
  BY <1>2, <1>4, <1>5, <1>6 DEF IInv, MgrInv

LEMMA FocusStep ==
  ASSUME IInv, NEW p, NEW wi, NEW ti, FocusAt(p, wi, ti), UNCHANGED mgrVars
  PROVE  IInv'
<1>1. MuxInv'
  BY FocusKeeps DEF IInv
<1>2. MgrInv'
  BY ArrangeKeeps DEF FocusAt, idVars
<1>3. QED
  BY <1>1, <1>2 DEF IInv

LEMMA MoveTabShape ==
  ASSUME IInv, NEW c \in Users, NEW t \in TabIds, NEW index \in TabIndices,
         MoveTab(c, t, index)
  PROVE  \E wi \in DOMAIN workspaces :
           \E from, to \in DOMAIN tabs[workspaces[wi]] : MoveTabAt(wi, from, to)
<1>1. PICK wi \in WorkspaceIndices, from \in TabIndices :
        /\ LocatedTab(t, wi, from)
        /\ LET many == Len(tabs[workspaces[wi]])
               to == IF index > many THEN many ELSE index
           IN to # from /\ MoveTabAt(wi, from, to)
  BY DEF MoveTab
<1> DEFINE many == Len(tabs[workspaces[wi]])
           to == IF index > many THEN many ELSE index
<1>2. wi \in DOMAIN workspaces /\ from \in DOMAIN tabs[workspaces[wi]]
  BY <1>1 DEF LocatedTab
<1>3. tabs[workspaces[wi]] \in Seq(TabIds)
  BY <1>2, Places DEF IInv, MuxInv
<1>4. to \in DOMAIN tabs[workspaces[wi]]
  BY <1>2, <1>3, BoundsAssumption DEF TabIndices
<1>5. MoveTabAt(wi, from, to)
  BY <1>1
<1>6. QED
  BY <1>2, <1>4, <1>5

LEMMA MoveTabStep ==
  ASSUME IInv, NEW c \in Users, NEW t \in TabIds, NEW index \in TabIndices,
         MoveTab(c, t, index)
  PROVE  IInv'
<1>0. PICK wi \in DOMAIN workspaces :
        \E from, to \in DOMAIN tabs[workspaces[wi]] : MoveTabAt(wi, from, to)
  BY MoveTabShape
<1>1. PICK from \in DOMAIN tabs[workspaces[wi]], to \in DOMAIN tabs[workspaces[wi]] :
        MoveTabAt(wi, from, to)
  BY <1>0
<1>2. MuxInv'
  BY <1>1, MoveTabKeeps DEF IInv
<1>3. UNCHANGED mgrVars /\ UNCHANGED layout /\ UNCHANGED nextPaneId
  BY <1>1 DEF MoveTab, MoveTabAt, treeVars, idVars
<1>4. QED
  BY <1>2, <1>3, ArrangeKeeps DEF IInv

LEMMA Initially == ManagerInit => IInv
<1> SUFFICES ASSUME ManagerInit PROVE IInv
  OBVIOUS
<1>1. 0 \in PaneIds /\ 0 \in TabIds /\ 0 \in WorkspaceIds
  BY BoundsAssumption DEF PaneIds, TabIds, WorkspaceIds
<1>2. Seeded /\ panes = {0} /\ tombstoned = {}
      /\ splitting = [c \in Users |-> NoPane] /\ doomed = [c \in Users |-> {}]
  BY DEF ManagerInit
<1>3. /\ <<0>> \in Seq(WorkspaceIds) /\ <<0>> \in Seq(TabIds) /\ <<>> \in Seq(TabIds)
      /\ DOMAIN <<0>> = {1} /\ <<0>>[1] = 0 /\ DOMAIN <<>> = {}
  BY <1>1
<1>4. MuxTypeOK
  BY <1>1, <1>2, <1>3, BoundsAssumption DEF Seeded, MuxTypeOK
<1>5. PlacedOnce
  BY <1>2, <1>3 DEF Seeded, PlacedOnce
<1>6. FocusValid
  BY <1>1, <1>2, <1>3 DEF Seeded, FocusValid, TabsOf
<1>7. TabsListed
  BY <1>1, <1>2, <1>3 DEF Seeded, TabsListed
<1>8. TabIdsFresh
  BY <1>1, <1>2, <1>3 DEF Seeded, TabIdsFresh
<1>9. MgrTypeOK /\ RemovedByOne /\ PaneIdsFresh
  BY <1>1, <1>2, BoundsAssumption DEF Seeded, MgrTypeOK, RemovedByOne, PaneIdsFresh
<1>10. MapMatchesMux
  BY <1>1, <1>2 DEF Seeded, MapMatchesMux
<1>11. QED
  BY <1>4, <1>5, <1>6, <1>7, <1>8, <1>9, <1>10 DEF IInv, MuxInv, MgrInv

LEMMA Stepwise == IInv /\ [ManagerNext]_managerVars => IInv'
<1> SUFFICES ASSUME IInv, [ManagerNext]_managerVars PROVE IInv'
  OBVIOUS
<1>1. CASE UNCHANGED managerVars
  <2>1. MuxInv'
    BY <1>1, MuxUntouched DEF IInv, managerVars, muxVars, idVars
  <2>2. MgrInv'
    BY <1>1, ArrangeKeeps DEF managerVars, muxVars, treeVars, idVars
  <2>3. QED
    BY <2>1, <2>2 DEF IInv
<1>2. ASSUME NEW c \in Users, ManagerStep(c)
      PROVE  IInv'
  <2>1. CASE CreatePane(c)
    BY <2>1, CreateKeeps
  <2>2. CASE NewTab(c) \/ NewWorkspace(c)
    BY <2>2, NewTabStep
  <2>3. CASE Split(c)
    BY <2>3, SplitKeeps
  <2>4. ASSUME NEW p \in PaneIds, SplitPreview(c, p)
        PROVE  IInv'
    <3>1. /\ UNCHANGED <<muxVars, panes, tombstoned, doomed>>
          /\ splitting' \in [Users -> PaneIds \cup {NoPane}]
      BY <2>4 DEF SplitPreview, IInv, MgrInv, MgrTypeOK
    <3>2. MuxInv'
      BY <3>1, MuxUntouched DEF IInv, muxVars, idVars
    <3>3. MgrInv'
      BY <3>1 DEF IInv, MgrInv, MgrTypeOK, MapMatchesMux, RemovedByOne, PaneIdsFresh,
         muxVars, treeVars, idVars
    <3>4. QED
      BY <3>2, <3>3 DEF IInv
  <2>5. ASSUME NEW p \in PaneIds, ClosePane(c, p) \/ ShutdownRemoved(c, p)
        PROVE  IInv'
    BY <2>5, ClosePaneKeeps, ShutdownKeeps
  <2>6. ASSUME NEW p \in PaneIds, FocusPane(c, p)
        PROVE  IInv'
    BY <2>6, FocusStep DEF FocusPane
  <2>7. ASSUME NEW t \in TabIds, CloseTab(c, t)
        PROVE  IInv'
    BY <2>7, CloseTabStep
  <2>8. ASSUME NEW t \in TabIds, SwitchTab(c, t)
        PROVE  IInv'
    BY <2>8, FocusStep DEF SwitchTab, ActivateTab
  <2>9. ASSUME NEW w \in WorkspaceIds, CloseWorkspace(c, w)
        PROVE  IInv'
    BY <2>9, CloseWorkspaceStep
  <2>10. ASSUME NEW w \in WorkspaceIds, SwitchWorkspace(c, w)
         PROVE  IInv'
    BY <2>10, FocusStep DEF SwitchWorkspace, ActivateWorkspace
  <2>11. ASSUME NEW t \in TabIds, NEW i \in TabIndices, MoveTab(c, t, i)
         PROVE  IInv'
    BY <2>11, MoveTabStep
  <2>12. QED
    BY <1>2, <2>1, <2>2, <2>3, <2>4, <2>5, <2>6, <2>7, <2>8, <2>9, <2>10, <2>11
       DEF ManagerStep
<1>3. QED
  BY <1>1, <1>2 DEF ManagerNext

\* The pane map and the layout agree in every state, for any number of
\* clients whose handlers interleave and any bounds on what they allocate.
THEOREM Agreement == ManagerSpec => []PanesAndTabsAgree
<1>1. ManagerSpec => []IInv
  BY Initially, Stepwise, PTL DEF ManagerSpec
<1>2. QED
  BY <1>1, IInvImplies, PTL

-----------------------------------------------------------------------------
\* The directory.  What its variables stand for, and what they say of a pane.
LifeOf == [p \in PaneIds |-> Life(p)]
Current == focusedPane[ActiveTabId]

LifeTells ==
  /\ LifeOf = [p \in PaneIds |-> LifeOf[p]]
  /\ \A p \in PaneIds :
       /\ LifeOf[p] = "live" <=> p \in panes
       /\ LifeOf[p] = "removed" <=> \E c \in Users : p \in doomed[c]
       /\ LifeOf[p] = "unborn" <=> p >= nextPaneId
       /\ LifeOf[p] \in {"live", "removed", "unborn", "closed"}

LEMMA LifeTold == IInv => LifeTells
<1> SUFFICES ASSUME IInv PROVE LifeTells
  OBVIOUS
<1>1. ASSUME NEW p \in PaneIds
      PROVE  /\ Life(p) = "live" <=> p \in panes
             /\ Life(p) = "removed" <=> \E c \in Users : p \in doomed[c]
             /\ Life(p) = "unborn" <=> p >= nextPaneId
             /\ Life(p) \in {"live", "removed", "unborn", "closed"}
  <2> DEFINE isLive == p \in panes
             isRemoved == \E c \in Users : p \in doomed[c]
             isUnborn == p >= nextPaneId
  <2>1. /\ ~ (isLive /\ isRemoved) /\ ~ (isLive /\ isUnborn) /\ ~ (isRemoved /\ isUnborn)
    <3>1. ~ (isLive /\ isRemoved)
      BY DEF IInv, MgrInv, RemovedByOne
    <3>2. p < nextPaneId => ~ isUnborn
      BY BoundsAssumption DEF IInv, MgrInv, MgrTypeOK, PaneIds
    <3>3. isLive => p < nextPaneId
      BY DEF IInv, MgrInv, PaneIdsFresh
    <3>4. isRemoved => p < nextPaneId
      BY DEF IInv, MgrInv, PaneIdsFresh
    <3>5. QED
      BY <3>1, <3>2, <3>3, <3>4
  <2>2. Life(p) = CASE isLive -> "live"
                    [] isRemoved -> "removed"
                    [] isUnborn -> "unborn"
                    [] OTHER -> "closed"
    BY DEF Life
  <2> HIDE DEF isLive, isRemoved, isUnborn
  <2>3. /\ Life(p) = "live" <=> isLive
        /\ Life(p) = "removed" <=> isRemoved
        /\ Life(p) = "unborn" <=> isUnborn
        /\ Life(p) \in {"live", "removed", "unborn", "closed"}
    BY <2>1, <2>2
  <2>4. QED
    BY <2>3 DEF isLive, isRemoved, isUnborn
<1>2. QED
  BY <1>1 DEF LifeTells, LifeOf

LEMMA LifeToldNext == IInv' => LifeTells'
  BY LifeTold, PTL

\* The current pane is live, in the active tab, which is listed.
CurrentHolds ==
  /\ activeWorkspace \in DOMAIN workspaces
  /\ workspaces[activeWorkspace] \in WorkspaceIds
  /\ activeTab[workspaces[activeWorkspace]] \in DOMAIN tabs[workspaces[activeWorkspace]]
  /\ ActiveTabId \in TabIds
  /\ ActiveTabId = ActiveOf(workspaces[activeWorkspace])
  /\ ActiveTabId \in TabsOf(workspaces[activeWorkspace])
  /\ Current \in layout[ActiveTabId] /\ Current \in panes /\ Current \in PaneIds

LEMMA CurrentHeld == IInv => CurrentHolds
<1> SUFFICES ASSUME IInv PROVE CurrentHolds
  OBVIOUS
<1> DEFINE w == workspaces[activeWorkspace]
<1>1. /\ activeWorkspace \in DOMAIN workspaces /\ w \in WorkspaceIds
      /\ activeTab[w] \in DOMAIN tabs[w] /\ tabs[w] \in Seq(TabIds)
  BY DEF IInv, MuxInv, MuxTypeOK, FocusValid
<1>2. /\ ActiveTabId = tabs[w][activeTab[w]] /\ ActiveTabId \in TabIds
      /\ ActiveTabId \in TabsOf(w)
  BY <1>1 DEF ActiveTabId, TabAt, TabsOf
<1>3. Current \in layout[ActiveTabId]
  BY <1>1, <1>2 DEF Current, IInv, MuxInv, FocusValid
<1>4. Current \in panes /\ Current \in PaneIds
  BY <1>2, <1>3 DEF IInv, MgrInv, MgrTypeOK, MapMatchesMux
<1>5. QED
  BY <1>1, <1>2, <1>3, <1>4 DEF CurrentHolds, ActiveOf

LEMMA CurrentHeldNext == IInv' => CurrentHolds'
  BY CurrentHeld, PTL

LEMMA DirectoryInit == ManagerInit => Directory!DirInit
<1> SUFFICES ASSUME ManagerInit PROVE Directory!DirInit
  OBVIOUS
<1>1. IInv
  BY Initially
<1>2. /\ panes = {0} /\ nextPaneId = 1 /\ 0 \in PaneIds
      /\ \A c \in Users : doomed[c] = {}
  BY BoundsAssumption DEF ManagerInit, Seeded, PaneIds
<1>3. \A p \in PaneIds : p >= 1 <=> p # 0
  BY BoundsAssumption DEF PaneIds
<1>4. LifeOf = [p \in PaneIds |-> IF p = 0 THEN "live" ELSE "unborn"]
  BY <1>1, <1>2, <1>3, LifeTold DEF LifeTells
<1>5. Current = 0
  BY <1>1, <1>2, CurrentHeld DEF CurrentHolds
<1>6. QED
  BY <1>2, <1>4, <1>5 DEF Directory!DirInit, LifeOf, Current

-----------------------------------------------------------------------------
\* What closing and moving do to the order of tabs: none is added to a list,
\* and what was active stays so if it is still there.
Shrinks == \A v \in WorkspaceIds : TabsOf(v)' \subseteq TabsOf(v)

\* The workspace list after close_workspace_at.
LEMMA DropFollows ==
  ASSUME MuxInv, NEW wi \in DOMAIN workspaces, Len(workspaces) > 1,
         DropWorkspaceAt(wi)
  PROVE  \A v \in WorkspaceIds :
           Listed(v) /\ v = workspaces[activeWorkspace] /\ Listed(v)'
             => workspaces'[activeWorkspace'] = v
<1>1. /\ \A i \in DOMAIN workspaces' :
           \E k \in DOMAIN workspaces : k # wi /\ workspaces'[i] = workspaces[k]
      /\ activeWorkspace # wi =>
           workspaces'[activeWorkspace'] = workspaces[activeWorkspace]
  BY DropKeeps
<1>2. SUFFICES ASSUME NEW v \in WorkspaceIds,
                      v = workspaces[activeWorkspace], Listed(v)'
               PROVE  workspaces'[activeWorkspace'] = v
  OBVIOUS
<1>3. PICK k \in DOMAIN workspaces : k # wi /\ v = workspaces[k]
  BY <1>1, <1>2 DEF Listed
<1>4. activeWorkspace = k
  BY <1>2, <1>3 DEF MuxInv, FocusValid, PlacedOnce
<1>5. QED
  BY <1>1, <1>2, <1>3, <1>4

LEMMA CloseTabFollows ==
  ASSUME MuxInv, NEW wi \in DOMAIN workspaces,
         NEW ti \in DOMAIN tabs[workspaces[wi]],
         Len(workspaces) > 1 \/ Len(tabs[workspaces[wi]]) > 1,
         CloseTabAt(wi, ti)
  PROVE  ActiveSurvives /\ Shrinks
<1> DEFINE w == workspaces[wi]
           old == tabs[w]
           rest == RemoveAt(old, ti)
           b == ClampActive(activeTab[w], ti, Len(old) - 1)
<1>1. /\ MuxTypeOK /\ w \in WorkspaceIds /\ old \in Seq(TabIds) /\ ti \in DOMAIN old
      /\ activeTab[w] \in DOMAIN old
  BY Places DEF MuxInv, FocusValid
<1>2. /\ rest \in Seq(TabIds) /\ Len(rest) = Len(old) - 1
      /\ \A k \in DOMAIN rest : /\ Kept(ti, k) \in DOMAIN old \ {ti}
                                /\ rest[k] = old[Kept(ti, k)]
      /\ \A j, k \in DOMAIN rest : Kept(ti, j) = Kept(ti, k) => j = k
      /\ \A j \in DOMAIN old : j # ti => \E k \in DOMAIN rest : rest[k] = old[j]
  <2> HIDE DEF old
  <2>1. QED
    BY <1>1, RemovedItems
<1>3. activeTab[w] # ti => rest[b] = old[activeTab[w]]
  BY <1>1, ClampFollows
<1>4. /\ tabs' = [tabs EXCEPT ![w] = rest]
      /\ activeTab' = [activeTab EXCEPT ![w] = b]
      /\ \/ rest = <<>> /\ DropWorkspaceAt(wi)
         \/ rest # <<>> /\ UNCHANGED <<workspaces, activeWorkspace>>
  BY <1>2 DEF CloseTabAt
<1>5. rest = <<>> => Len(workspaces) > 1
  <2> SUFFICES ASSUME rest = <<>> PROVE Len(workspaces) > 1
    OBVIOUS
  <2>1. Len(rest) = 0
    OBVIOUS
  <2> HIDE DEF rest
  <2>2. Len(old) = 1
    BY <1>1, <1>2, <2>1
  <2>3. QED
    BY <2>2
<1> HIDE DEF w, old, rest, b
<1>6. /\ tabs'[w] = rest /\ activeTab'[w] = b
      /\ \A v \in WorkspaceIds : v # w => tabs'[v] = tabs[v] /\ activeTab'[v] = activeTab[v]
  BY <1>1, <1>4 DEF MuxTypeOK
<1>7. Shrinks
  BY <1>2, <1>6 DEF Shrinks, TabsOf, old
<1>8. ASSUME NEW v \in WorkspaceIds, NEW t \in TabIds,
             t = ActiveOf(v), t \in TabsOf(v)'
      PROVE  ActiveOf(v)' = t
  <2>1. CASE v = w
    <3>1. t = old[activeTab[w]] /\ \E k \in DOMAIN rest : rest[k] = t
      BY <1>6, <1>8, <2>1 DEF ActiveOf, TabsOf, old
    <3>2. PICK j \in DOMAIN old : j # ti /\ old[j] = t
      BY <1>2, <3>1
    <3>3. activeTab[w] = j
      BY <1>1, <3>1, <3>2 DEF MuxInv, PlacedOnce, old
    <3>4. rest[b] = t
      BY <1>3, <3>1, <3>2, <3>3
    <3>5. QED
      BY <1>6, <2>1, <3>4 DEF ActiveOf
  <2>2. CASE v # w
    BY <1>6, <1>8, <2>2 DEF ActiveOf
  <2>3. QED
    BY <2>1, <2>2
<1>9. ASSUME NEW v \in WorkspaceIds, Listed(v), v = workspaces[activeWorkspace], Listed(v)'
      PROVE  workspaces'[activeWorkspace'] = v
  BY <1>4, <1>5, <1>9, DropFollows
<1>10. QED
  BY <1>7, <1>8, <1>9 DEF ActiveSurvives

LEMMA CloseLeafFollows ==
  ASSUME UNCHANGED orderVars
  PROVE  ActiveSurvives /\ Shrinks
<1>1. UNCHANGED <<workspaces, activeWorkspace, tabs, activeTab>>
  BY DEF orderVars
<1>2. QED
  BY <1>1 DEF ActiveSurvives, Shrinks, ActiveOf, TabsOf, Listed

LEMMA CloseWorkspaceFollows ==
  ASSUME MuxInv, NEW wi \in DOMAIN workspaces, Len(workspaces) > 1,
         CloseWorkspaceAt(wi)
  PROVE  ActiveSurvives /\ Shrinks
<1> DEFINE w == workspaces[wi]
<1>1. MuxTypeOK /\ w \in WorkspaceIds
  BY DEF MuxInv, MuxTypeOK
<1>2. /\ DropWorkspaceAt(wi)
      /\ tabs' = [tabs EXCEPT ![w] = <<>>]
      /\ activeTab' = [activeTab EXCEPT ![w] = 1]
  BY DEF CloseWorkspaceAt
<1> HIDE DEF w
<1>3. /\ DOMAIN tabs'[w] = {}
      /\ \A v \in WorkspaceIds : v # w => tabs'[v] = tabs[v] /\ activeTab'[v] = activeTab[v]
  BY <1>1, <1>2 DEF MuxTypeOK
<1>4. Shrinks
  BY <1>3 DEF Shrinks, TabsOf
<1>5. ASSUME NEW v \in WorkspaceIds, NEW t \in TabIds,
             t = ActiveOf(v), t \in TabsOf(v)'
      PROVE  ActiveOf(v)' = t
  BY <1>3, <1>5 DEF ActiveOf, TabsOf
<1>6. QED
  BY <1>2, <1>4, <1>5, DropFollows DEF ActiveSurvives

LEMMA MoveTabFollows ==
  ASSUME MuxInv, NEW wi \in DOMAIN workspaces,
         NEW from \in DOMAIN tabs[workspaces[wi]],
         NEW to \in DOMAIN tabs[workspaces[wi]],
         MoveTabAt(wi, from, to)
  PROVE  ActiveSurvives /\ Shrinks
<1> DEFINE w == workspaces[wi]
           old == tabs[w]
           moved == Moved(old, from, to)
<1>1. /\ MuxTypeOK /\ w \in WorkspaceIds /\ old \in Seq(TabIds)
      /\ from \in DOMAIN old /\ to \in DOMAIN old
  BY Places DEF MuxInv
<1>2. PICK k \in DOMAIN moved :
        /\ tabs' = [tabs EXCEPT ![w] = moved]
        /\ moved[k] = old[activeTab[w]]
        /\ activeTab' = [activeTab EXCEPT ![w] = k]
        /\ UNCHANGED <<workspaces, activeWorkspace>>
  BY DEF MoveTabAt, Moved
<1>3. /\ moved \in Seq(TabIds) /\ Len(moved) = Len(old)
      /\ \A m \in DOMAIN old : /\ Was(from, to, m) \in DOMAIN old
                               /\ moved[m] = old[Was(from, to, m)]
  <2> HIDE DEF old
  <2>1. QED
    BY <1>1, MovedIsPermuted
<1> HIDE DEF w, old, moved
<1>4. /\ tabs'[w] = moved /\ activeTab'[w] = k
      /\ \A v \in WorkspaceIds : v # w => tabs'[v] = tabs[v] /\ activeTab'[v] = activeTab[v]
  BY <1>1, <1>2 DEF MuxTypeOK
<1>5. DOMAIN moved = DOMAIN old
  BY <1>1, <1>3
<1>6. Shrinks
  BY <1>3, <1>4, <1>5 DEF Shrinks, TabsOf, old
<1>7. ASSUME NEW v \in WorkspaceIds PROVE ActiveOf(v)' = ActiveOf(v)
  BY <1>2, <1>4 DEF ActiveOf, old
<1>8. QED
  BY <1>2, <1>6, <1>7 DEF ActiveSurvives

\* If the active tab keeps panes, it is still the active tab.
LEMMA ActiveStays ==
  ASSUME IInv, IInv', ActiveSurvives, Shrinks, layout'[ActiveTabId] # {}
  PROVE  ActiveTabId' = ActiveTabId
<1>1. PICK w \in WorkspaceIds, a \in TabIds :
        /\ w = workspaces[activeWorkspace] /\ activeWorkspace \in DOMAIN workspaces
        /\ a = ActiveTabId /\ a = ActiveOf(w) /\ a \in TabsOf(w)
  BY CurrentHeld DEF CurrentHolds
<1>2. PICK i \in DOMAIN workspaces' :
        \E j \in DOMAIN tabs'[workspaces'[i]] : tabs'[workspaces'[i]][j] = a
  BY <1>1 DEF IInv, MuxInv, TabsListed
<1>3. PICK v \in WorkspaceIds : v = workspaces'[i]
  BY DEF IInv, MuxInv, MuxTypeOK
<1>4. a \in TabsOf(v)'
  BY <1>2, <1>3 DEF TabsOf
<1>5. v = w
  <2>1. a \in TabsOf(v)
    BY <1>4 DEF Shrinks
  <2>2. QED
    BY <1>1, <2>1 DEF IInv, MuxInv, PlacedOnce, TabsOf
<1>6. Listed(w) /\ Listed(w)' /\ a \in TabsOf(w)'
  BY <1>1, <1>3, <1>4, <1>5 DEF Listed
<1>7. ActiveOf(w)' = a /\ workspaces'[activeWorkspace'] = w
  BY <1>1, <1>6 DEF ActiveSurvives
<1>8. ActiveTabId' = tabs'[w][activeTab'[w]]
  BY <1>7 DEF ActiveTabId, TabAt
<1>9. QED
  BY <1>1, <1>7, <1>8 DEF ActiveOf

LEMMA RearrangeFollows ==
  ASSUME IInv, Rearrange
  PROVE  ActiveSurvives /\ Shrinks
<1>1. PICK c \in Users :
        \/ \E p \in PaneIds : ClosePane(c, p)
        \/ \E t \in TabIds : CloseTab(c, t)
        \/ \E w \in WorkspaceIds : CloseWorkspace(c, w)
        \/ \E t \in TabIds, i \in TabIndices : MoveTab(c, t, i)
  BY DEF Rearrange
<1>2. MuxInv
  BY DEF IInv
<1>3. ASSUME NEW p \in PaneIds, ClosePane(c, p)
      PROVE  ActiveSurvives /\ Shrinks
  BY <1>2, <1>3, ClosePaneShape, CloseTabFollows, CloseLeafFollows DEF CloseLeafAt
<1>4. ASSUME NEW t \in TabIds, CloseTab(c, t)
      PROVE  ActiveSurvives /\ Shrinks
  BY <1>2, <1>4, CloseTabShape, CloseTabFollows
<1>5. ASSUME NEW w \in WorkspaceIds, CloseWorkspace(c, w)
      PROVE  ActiveSurvives /\ Shrinks
  BY <1>2, <1>5, CloseWorkspaceFollows DEF CloseWorkspace, RemoveWorkspace
<1>6. ASSUME NEW t \in TabIds, NEW i \in TabIndices, MoveTab(c, t, i)
      PROVE  ActiveSurvives /\ Shrinks
  BY <1>2, <1>6, MoveTabShape, MoveTabFollows
<1>7. QED
  BY <1>1, <1>3, <1>4, <1>5, <1>6

-----------------------------------------------------------------------------
\* Each step of the manager is a step of the directory, or none.

LEMMA LifeUntouched ==
  ASSUME IInv, IInv', UNCHANGED <<panes, doomed, nextPaneId>>
  PROVE  UNCHANGED LifeOf
<1>1. LifeTells /\ LifeTells'
  BY LifeTold, LifeToldNext
<1>2. ASSUME NEW p \in PaneIds PROVE LifeOf'[p] = LifeOf[p]
  BY <1>1 DEF LifeTells
<1>3. QED
  BY <1>1, <1>2 DEF LifeTells

LEMMA OpenStep ==
  ASSUME IInv, IInv', AllocatePaneId, InsertPaneState(nextPaneId),
         UNCHANGED doomed, Current' \in {Current, nextPaneId}
  PROVE  Directory!DirNext
<1>1. LifeTells /\ LifeTells'
  BY LifeTold, LifeToldNext
<1>2. /\ nextPaneId \in PaneIds /\ nextPaneId' = nextPaneId + 1
      /\ panes' = panes \cup {nextPaneId}
      /\ nextPaneId \notin panes
  BY FreshPane DEF InsertPaneState
<1>3. LifeOf[nextPaneId] = "unborn" /\ LifeOf'[nextPaneId] = "live"
  BY <1>1, <1>2, BoundsAssumption DEF LifeTells, PaneIds
<1>4. ASSUME NEW p \in PaneIds, p # nextPaneId PROVE LifeOf'[p] = LifeOf[p]
  <2>1. p >= nextPaneId <=> p >= nextPaneId + 1
    BY <1>2, <1>4, BoundsAssumption DEF PaneIds
  <2>2. p \in panes' <=> p \in panes
    BY <1>2, <1>4
  <2>3. QED
    BY <1>1, <1>2, <2>1, <2>2 DEF LifeTells
<1>5. LifeOf' = [LifeOf EXCEPT ![nextPaneId] = "live"]
  BY <1>1, <1>2, <1>3, <1>4 DEF LifeTells
<1>6. Directory!Open(nextPaneId)
  BY <1>3, <1>5 DEF Directory!Open, LifeOf, Current
<1>7. QED
  BY <1>2, <1>6 DEF Directory!DirNext

LEMMA WasteStep ==
  ASSUME IInv, IInv', NEW c \in Users, SplitMissed(c)
  PROVE  Directory!DirNext
<1>1. LifeTells /\ LifeTells'
  BY LifeTold, LifeToldNext
<1>2. /\ AllocatePaneId
      /\ UNCHANGED <<workspaces, activeWorkspace, tabs, activeTab, focusedPane,
                     panes, doomed>>
  BY DEF SplitMissed, orderVars, treeVars
<1>3. /\ nextPaneId \in PaneIds /\ nextPaneId' = nextPaneId + 1
      /\ nextPaneId \notin panes
      /\ \A b \in Users : nextPaneId \notin doomed[b]
  BY <1>2, FreshPane
<1>4. LifeOf[nextPaneId] = "unborn"
  BY <1>1, <1>3, BoundsAssumption DEF LifeTells, PaneIds
<1>5. LifeOf'[nextPaneId] = "closed"
  <2>1. ~ (nextPaneId >= nextPaneId')
    BY <1>3, BoundsAssumption DEF PaneIds
  <2>2. QED
    BY <1>1, <1>2, <1>3, <2>1 DEF LifeTells
<1>6. ASSUME NEW p \in PaneIds, p # nextPaneId PROVE LifeOf'[p] = LifeOf[p]
  <2>1. p >= nextPaneId <=> p >= nextPaneId'
    BY <1>3, <1>6, BoundsAssumption DEF PaneIds
  <2>2. QED
    BY <1>1, <1>2, <2>1 DEF LifeTells
<1>7. LifeOf' = [LifeOf EXCEPT ![nextPaneId] = "closed"]
  BY <1>1, <1>3, <1>5, <1>6 DEF LifeTells
<1>8. UNCHANGED Current
  BY <1>2 DEF Current, ActiveTabId, TabAt
<1>9. Directory!Waste(nextPaneId)
  BY <1>4, <1>7, <1>8 DEF Directory!Waste, LifeOf, Current
<1>10. QED
  BY <1>3, <1>9 DEF Directory!DirNext

LEMMA ReapStep ==
  ASSUME IInv, IInv', NEW c \in Users, NEW p \in PaneIds, ShutdownRemoved(c, p)
  PROVE  Directory!DirNext
<1>1. LifeTells /\ LifeTells'
  BY LifeTold, LifeToldNext
<1>2. /\ p \in doomed[c] /\ doomed' = [doomed EXCEPT ![c] = @ \ {p}]
      /\ UNCHANGED <<workspaces, activeWorkspace, tabs, activeTab, focusedPane,
                     panes, nextPaneId>>
  BY DEF ShutdownRemoved, muxVars, orderVars, treeVars, idVars
<1>3. \A b \in Users : doomed'[b] = IF b = c THEN doomed[b] \ {p} ELSE doomed[b]
  BY <1>2 DEF IInv, MgrInv, MgrTypeOK
<1>4. \A b \in Users : p \notin doomed'[b]
  BY <1>2, <1>3 DEF IInv, MgrInv, RemovedByOne
<1>5. LifeOf[p] = "removed" /\ LifeOf'[p] = "closed"
  BY <1>1, <1>2, <1>4 DEF LifeTells
<1>6. ASSUME NEW q \in PaneIds, q # p PROVE LifeOf'[q] = LifeOf[q]
  <2>1. (\E b \in Users : q \in doomed'[b]) <=> \E b \in Users : q \in doomed[b]
    BY <1>3, <1>6
  <2>2. QED
    BY <1>1, <1>2, <2>1 DEF LifeTells
<1>7. LifeOf' = [LifeOf EXCEPT ![p] = "closed"]
  BY <1>1, <1>5, <1>6 DEF LifeTells
<1>8. UNCHANGED Current
  BY <1>2 DEF Current, ActiveTabId, TabAt
<1>9. Directory!Reap(p)
  BY <1>5, <1>7, <1>8 DEF Directory!Reap, LifeOf, Current
<1>10. QED
  BY <1>9 DEF Directory!DirNext

LEMMA FocusDirStep ==
  ASSUME IInv, IInv', NEW p, NEW wi, NEW ti, FocusAt(p, wi, ti), UNCHANGED mgrVars
  PROVE  Directory!DirNext
<1>1. LifeTells
  BY LifeTold
<1>2. /\ wi \in DOMAIN workspaces /\ ti \in DOMAIN tabs[workspaces[wi]]
      /\ p \in layout[TabAt(wi, ti)]
      /\ focusedPane' = [focusedPane EXCEPT ![TabAt(wi, ti)] = p]
      /\ activeWorkspace' = wi
      /\ activeTab' = [activeTab EXCEPT ![workspaces[wi]] = ti]
      /\ UNCHANGED <<workspaces, tabs, layout, nextPaneId>>
  BY DEF FocusAt, Located, Activate, idVars
<1>3. MuxTypeOK /\ TabAt(wi, ti) \in TabIds /\ workspaces[wi] \in WorkspaceIds
  BY <1>2, Places DEF IInv, MuxInv
<1>4. p \in panes /\ p \in PaneIds
  BY <1>2, <1>3 DEF IInv, MgrInv, MgrTypeOK, MapMatchesMux
<1>5. ActiveTabId' = TabAt(wi, ti)
  BY <1>2, <1>3 DEF ActiveTabId, TabAt, MuxTypeOK
<1>6. Current' = p
  BY <1>2, <1>3, <1>5 DEF Current, MuxTypeOK
<1>7. UNCHANGED LifeOf
  BY <1>2, LifeUntouched DEF mgrVars
<1>8. LifeOf[p] = "live"
  BY <1>1, <1>4 DEF LifeTells
<1>9. Directory!Focus(p)
  BY <1>4, <1>6, <1>7, <1>8 DEF Directory!Focus, Directory!Live, LifeOf, Current
<1>10. QED
  BY <1>4, <1>9 DEF Directory!DirNext

\* Panes leave the map: the current one among them, or it stays current.
LEMMA CloseStep ==
  ASSUME IInv, IInv', NEW c \in Users, NEW S \in SUBSET panes,
         Idle(c), RemovePanes(c, S), UNCHANGED nextPaneId,
         ActiveSurvives, Shrinks,
         Current \notin S => /\ layout'[ActiveTabId] # {}
                             /\ focusedPane'[ActiveTabId] = Current
  PROVE  Directory!DirNext
<1>1. LifeTells /\ LifeTells' /\ CurrentHolds /\ CurrentHolds'
  BY LifeTold, LifeToldNext, CurrentHeld, CurrentHeldNext
<1>2. /\ panes' = panes \ S /\ doomed' = [doomed EXCEPT ![c] = S] /\ doomed[c] = {}
  BY DEF RemovePanes, Idle
<1>3. panes \subseteq PaneIds /\ S \subseteq PaneIds
  BY DEF IInv, MgrInv, MgrTypeOK
<1>4. \A b \in Users : doomed'[b] = IF b = c THEN S ELSE doomed[b]
  BY <1>2 DEF IInv, MgrInv, MgrTypeOK
<1>5. ASSUME NEW p \in PaneIds
      PROVE  LifeOf'[p] = IF p \in S THEN "removed" ELSE LifeOf[p]
  <2>1. (\E b \in Users : p \in doomed'[b])
          <=> p \in S \/ \E b \in Users : p \in doomed[b]
    BY <1>2, <1>4
  <2>2. p \in panes' <=> p \in panes /\ p \notin S
    BY <1>2
  <2>3. QED
    BY <1>1, <2>1, <2>2 DEF LifeTells
<1>6. LifeOf' = [p \in PaneIds |-> IF p \in S THEN "removed" ELSE LifeOf[p]]
  BY <1>1, <1>5 DEF LifeTells
<1>7. Directory!Live = panes
  <2>1. Directory!Live = {p \in PaneIds : LifeOf[p] = "live"}
    BY DEF Directory!Live, LifeOf
  <2>2. QED
    BY <1>1, <1>3, <2>1 DEF LifeTells
<1>8. Current' \in panes \ S
  BY <1>1, <1>2 DEF CurrentHolds
<1>9. Current \notin S => Current' = Current
  <2> SUFFICES ASSUME Current \notin S PROVE Current' = Current
    OBVIOUS
  <2>1. PICK a : a = ActiveTabId
    OBVIOUS
  <2>2. layout'[a] # {} /\ focusedPane'[a] = Current
    BY <2>1
  <2>3. ActiveTabId' = a
    BY <2>1, <2>2, ActiveStays
  <2>4. QED
    BY <2>2, <2>3 DEF Current
<1>10. S \subseteq panes /\ S # panes
  BY <1>8
<1>11. Directory!Close(S)
  <2>1. Directory!Close(S) =
          (/\ S \subseteq Directory!Live /\ S # Directory!Live
           /\ LifeOf' = [p \in PaneIds |-> IF p \in S THEN "removed" ELSE LifeOf[p]]
           /\ IF Current \in S THEN Current' \in Directory!Live \ S
                               ELSE Current' = Current)
    BY DEF Directory!Close, LifeOf, Current
  <2>2. QED
    BY <1>6, <1>7, <1>8, <1>9, <1>10, <2>1
<1>12. QED
  BY <1>3, <1>11 DEF Directory!DirNext

LEMMA ClosingSteps ==
  ASSUME IInv, IInv', NEW c \in Users,
         \/ \E p \in PaneIds : ClosePane(c, p)
         \/ \E t \in TabIds : CloseTab(c, t)
         \/ \E w \in WorkspaceIds : CloseWorkspace(c, w)
  PROVE  Directory!DirNext
<1>1. ActiveSurvives /\ Shrinks
  BY RearrangeFollows DEF Rearrange
<1>2. /\ MuxTypeOK /\ PlacedOnce /\ ActiveTabId \in TabIds
      /\ ActiveTabId \in TabsOf(workspaces[activeWorkspace])
      /\ Current = focusedPane[ActiveTabId] /\ Current \in layout[ActiveTabId]
  BY CurrentHeld DEF CurrentHolds, IInv, MuxInv, Current
<1>3. PICK a \in TabIds : a = ActiveTabId
  BY <1>2
<1>4. ASSUME NEW p \in PaneIds, ClosePane(c, p)
      PROVE  Directory!DirNext
  <2>1. PICK wi \in DOMAIN workspaces :
          \E ti \in DOMAIN tabs[workspaces[wi]] :
            /\ p \in layout[TabAt(wi, ti)]
            /\ \/ /\ layout[TabAt(wi, ti)] = {p}
                  /\ Len(workspaces) > 1 \/ Len(tabs[workspaces[wi]]) > 1
                  /\ CloseTabAt(wi, ti)
               \/ CloseLeafAt(p, wi, ti)
    BY <1>4, ClosePaneShape
  <2>2. PICK ti \in DOMAIN tabs[workspaces[wi]] :
          /\ p \in layout[TabAt(wi, ti)]
          /\ \/ layout[TabAt(wi, ti)] = {p} /\ CloseTabAt(wi, ti)
             \/ CloseLeafAt(p, wi, ti)
    BY <2>1
  <2>3. PICK t0 \in TabIds : t0 = TabAt(wi, ti)
    BY <1>2, Places
  <2>4. UNCHANGED nextPaneId
    BY <2>2 DEF CloseTabAt, CloseLeafAt, idVars
  <2>5. Current # p => layout'[a] # {} /\ focusedPane'[a] = Current
    <3> SUFFICES ASSUME Current # p PROVE layout'[a] # {} /\ focusedPane'[a] = Current
      OBVIOUS
    <3>1. CASE layout[t0] = {p} /\ CloseTabAt(wi, ti)
      <4>1. /\ layout' = [layout EXCEPT ![t0] = {}]
            /\ focusedPane' = [focusedPane EXCEPT ![t0] = NoPane]
        BY <2>3, <3>1 DEF CloseTabAt
      <4>2. a # t0
        BY <1>2, <1>3, <3>1
      <4>3. QED
        BY <1>2, <1>3, <4>1, <4>2 DEF MuxTypeOK
    <3>2. CASE CloseLeafAt(p, wi, ti)
      <4>1. PICK hint :
              /\ layout' = [layout EXCEPT ![t0] = @ \ {p}]
              /\ focusedPane' = [focusedPane EXCEPT ![t0] = IF @ = p THEN hint ELSE @]
        BY <2>3, <3>2 DEF CloseLeafAt
      <4>2. Current \in layout'[a]
        BY <1>2, <1>3, <4>1 DEF MuxTypeOK
      <4>3. focusedPane'[a] = Current
        BY <1>2, <1>3, <4>1 DEF MuxTypeOK
      <4>4. QED
        BY <4>2, <4>3
    <3>3. QED
      BY <2>2, <2>3, <3>1, <3>2
  <2>6. Idle(c) /\ {p} \in SUBSET panes /\ RemovePanes(c, {p})
    BY <1>4 DEF ClosePane
  <2>7. QED
    BY <1>1, <1>3, <2>4, <2>5, <2>6, CloseStep
<1>5. ASSUME NEW t0 \in TabIds, CloseTab(c, t0)
      PROVE  Directory!DirNext
  <2>1. PICK wi \in DOMAIN workspaces :
          \E ti \in DOMAIN tabs[workspaces[wi]] :
            TabAt(wi, ti) = t0 /\ CloseTabAt(wi, ti)
    BY <1>5, CloseTabShape
  <2>2. PICK ti \in DOMAIN tabs[workspaces[wi]] :
          TabAt(wi, ti) = t0 /\ CloseTabAt(wi, ti)
    BY <2>1
  <2>3. /\ layout' = [layout EXCEPT ![t0] = {}]
        /\ focusedPane' = [focusedPane EXCEPT ![t0] = NoPane]
        /\ UNCHANGED nextPaneId
    BY <2>2 DEF CloseTabAt, idVars
  <2>4. Current \notin layout[t0] => layout'[a] # {} /\ focusedPane'[a] = Current
    BY <1>2, <1>3, <2>3 DEF MuxTypeOK
  <2>5. /\ Idle(c) /\ RemovePanes(c, layout[t0])
        /\ layout[t0] \in SUBSET panes
    BY <1>5 DEF CloseTab, TabPaneIds, IInv, MgrInv, MapMatchesMux
  <2>6. QED
    BY <1>1, <1>3, <2>3, <2>4, <2>5, CloseStep
<1>6. ASSUME NEW w \in WorkspaceIds, CloseWorkspace(c, w)
      PROVE  Directory!DirNext
  <2>1. /\ layout' = [t \in TabIds |-> IF t \in TabsOf(w) THEN {} ELSE layout[t]]
        /\ focusedPane' =
             [t \in TabIds |-> IF t \in TabsOf(w) THEN NoPane ELSE focusedPane[t]]
        /\ UNCHANGED nextPaneId
    BY <1>6 DEF CloseWorkspace, RemoveWorkspace, CloseWorkspaceAt, idVars
  <2>2. Idle(c) /\ RemovePanes(c, PanesOf(w))
    BY <1>6 DEF CloseWorkspace, RemoveWorkspace
  <2>3. PanesOf(w) \in SUBSET panes
    <3>1. TabsOf(w) \subseteq TabIds
      BY <1>2 DEF TabsOf, MuxTypeOK
    <3>2. QED
      BY <3>1 DEF PanesOf, IInv, MgrInv, MapMatchesMux
  <2>4. Current \notin PanesOf(w) => layout'[a] # {} /\ focusedPane'[a] = Current
    <3>1. a \in TabsOf(w) => Current \in PanesOf(w)
      BY <1>2, <1>3 DEF PanesOf
    <3>2. QED
      BY <1>2, <1>3, <2>1, <3>1
  <2>5. QED
    BY <1>1, <1>3, <2>1, <2>2, <2>3, <2>4, CloseStep
<1>7. QED
  BY <1>4, <1>5, <1>6

LEMMA OpeningSteps ==
  ASSUME IInv, IInv', NEW c \in Users,
         CreatePane(c) \/ NewTab(c) \/ NewWorkspace(c) \/ SplitCreate(c)
  PROVE  Directory!DirNext
<1>1. MuxTypeOK /\ FocusValid
  BY DEF IInv, MuxInv
<1>2. CASE CreatePane(c)
  <2>1. /\ AllocatePaneId /\ InsertPaneState(nextPaneId)
        /\ UNCHANGED <<workspaces, activeWorkspace, tabs, activeTab, focusedPane, doomed>>
    BY <1>2 DEF CreatePane, Create, orderVars
  <2>2. UNCHANGED Current
    BY <2>1 DEF Current, ActiveTabId, TabAt
  <2>3. QED
    BY <2>1, <2>2, OpenStep
<1>3. CASE NewTab(c)
  <2>1. PICK w \in WorkspaceIds : w = workspaces[activeWorkspace]
    BY <1>1 DEF MuxTypeOK, FocusValid
  <2>2. /\ AllocatePaneId /\ InsertPaneState(nextPaneId) /\ UNCHANGED doomed
        /\ focusedPane' = [focusedPane EXCEPT ![nextTabId] = nextPaneId]
        /\ tabs' = [tabs EXCEPT ![w] = Append(@, nextTabId)]
        /\ activeTab' = [activeTab EXCEPT ![w] = Len(tabs[w]) + 1]
        /\ UNCHANGED <<workspaces, activeWorkspace>>
    BY <1>3, <2>1 DEF NewTab, NewTabCreate, NewTabIn
  <2>3. nextTabId \in TabIds
    BY <1>3, FreshTab DEF NewTab, NewTabCreate, NewTabIn, AllocateTabId, IInv
  <2>4. Append(tabs[w], nextTabId)[Len(tabs[w]) + 1] = nextTabId
    BY <1>1, <2>3 DEF MuxTypeOK
  <2>5. ActiveTabId' = nextTabId
    BY <1>1, <2>1, <2>2, <2>4 DEF ActiveTabId, TabAt, MuxTypeOK
  <2>6. Current' = nextPaneId
    BY <1>1, <2>2, <2>3, <2>5 DEF Current, MuxTypeOK
  <2>7. QED
    BY <2>2, <2>6, OpenStep
<1>4. CASE NewWorkspace(c)
  <2>1. /\ AllocatePaneId /\ InsertPaneState(nextPaneId) /\ UNCHANGED doomed
        /\ focusedPane' = [focusedPane EXCEPT ![nextTabId] = nextPaneId]
        /\ tabs' = [tabs EXCEPT ![nextWorkspaceId] = <<nextTabId>>]
        /\ activeTab' = [activeTab EXCEPT ![nextWorkspaceId] = 1]
        /\ workspaces' = Append(workspaces, nextWorkspaceId)
        /\ activeWorkspace' = Len(workspaces) + 1
        /\ nextTabId < MaxTabs /\ nextWorkspaceId < MaxWorkspaces
    BY <1>4 DEF NewWorkspace, NewWorkspaceCreate, NewWorkspaceWith, AllocateTabId,
       AllocateWorkspaceId
  <2>2. nextTabId \in TabIds /\ nextWorkspaceId \in WorkspaceIds
    BY <1>1, <2>1, FreshTab, BoundsAssumption DEF IInv, MuxTypeOK, WorkspaceIds
  <2>3. Append(workspaces, nextWorkspaceId)[Len(workspaces) + 1] = nextWorkspaceId
    BY <1>1, <2>2 DEF MuxTypeOK
  <2>4. ActiveTabId' = nextTabId
    BY <1>1, <2>1, <2>2, <2>3 DEF ActiveTabId, TabAt, MuxTypeOK
  <2>5. Current' = nextPaneId
    BY <1>1, <2>1, <2>2, <2>4 DEF Current, MuxTypeOK
  <2>6. QED
    BY <2>1, <2>5, OpenStep
<1>5. CASE SplitCreate(c)
  <2>1. PICK wi \in WorkspaceIndices, ti \in TabIndices :
          /\ Located(splitting[c], wi, ti)
          /\ focusedPane' = [focusedPane EXCEPT ![TabAt(wi, ti)] = nextPaneId]
          /\ Activate(wi, ti)
    BY <1>5 DEF SplitCreate
  <2>2. /\ AllocatePaneId /\ InsertPaneState(nextPaneId)
        /\ UNCHANGED <<workspaces, tabs, doomed>>
    BY <1>5 DEF SplitCreate
  <2>3. /\ wi \in DOMAIN workspaces /\ ti \in DOMAIN tabs[workspaces[wi]]
        /\ activeWorkspace' = wi
        /\ activeTab' = [activeTab EXCEPT ![workspaces[wi]] = ti]
    BY <2>1 DEF Located, Activate
  <2>4. TabAt(wi, ti) \in TabIds /\ workspaces[wi] \in WorkspaceIds
    BY <1>1, <2>3, Places
  <2>5. ActiveTabId' = TabAt(wi, ti)
    BY <1>1, <2>2, <2>3, <2>4 DEF ActiveTabId, TabAt, MuxTypeOK
  <2>6. Current' = nextPaneId
    BY <1>1, <2>1, <2>4, <2>5 DEF Current, MuxTypeOK
  <2>7. QED
    BY <2>2, <2>6, OpenStep
<1>6. QED
  BY <1>2, <1>3, <1>4, <1>5

LEMMA MoveTabIsSilent ==
  ASSUME IInv, IInv', NEW c \in Users, NEW t \in TabIds, NEW i \in TabIndices,
         MoveTab(c, t, i)
  PROVE  UNCHANGED <<LifeOf, Current>>
<1>1. ActiveSurvives /\ Shrinks
  BY RearrangeFollows DEF Rearrange
<1>2. UNCHANGED <<layout, focusedPane, nextPaneId, panes, doomed>>
  BY MoveTabShape DEF MoveTab, MoveTabAt, treeVars, idVars, mgrVars
<1>3. layout[ActiveTabId] # {}
  BY CurrentHeld DEF CurrentHolds
<1>4. PICK a : a = ActiveTabId
  OBVIOUS
<1>5. ActiveTabId' = a
  BY <1>1, <1>2, <1>3, <1>4, ActiveStays
<1>6. UNCHANGED Current
  BY <1>2, <1>4, <1>5 DEF Current
<1>7. QED
  BY <1>2, <1>6, LifeUntouched

LEMMA SilentSteps ==
  ASSUME IInv, IInv', UNCHANGED <<muxVars, panes, doomed>>
  PROVE  UNCHANGED <<LifeOf, Current>>
<1>1. UNCHANGED <<workspaces, activeWorkspace, tabs, activeTab, focusedPane,
                  nextPaneId, panes, doomed>>
  BY DEF muxVars, orderVars, treeVars, idVars
<1>2. UNCHANGED Current
  BY <1>1 DEF Current, ActiveTabId, TabAt
<1>3. QED
  BY <1>1, <1>2, LifeUntouched

LEMMA DirectoryNext ==
  ASSUME IInv, IInv', [ManagerNext]_managerVars
  PROVE  Directory!DirNext \/ UNCHANGED <<LifeOf, Current>>
<1>1. CASE UNCHANGED managerVars
  BY <1>1, SilentSteps DEF managerVars, mgrVars
<1>2. ASSUME NEW c \in Users, ManagerStep(c)
      PROVE  Directory!DirNext \/ UNCHANGED <<LifeOf, Current>>
  <2>1. CASE CreatePane(c) \/ NewTab(c) \/ NewWorkspace(c)
    BY <2>1, OpeningSteps
  <2>2. CASE Split(c)
    BY <2>2, OpeningSteps, WasteStep, SilentSteps DEF Split, SplitRefused
  <2>3. ASSUME NEW p \in PaneIds, SplitPreview(c, p)
        PROVE  UNCHANGED <<LifeOf, Current>>
    BY <2>3, SilentSteps DEF SplitPreview
  <2>4. ASSUME NEW p \in PaneIds, ClosePane(c, p)
        PROVE  Directory!DirNext
    BY <2>4, ClosingSteps
  <2>5. ASSUME NEW p \in PaneIds, ShutdownRemoved(c, p)
        PROVE  Directory!DirNext
    BY <2>5, ReapStep
  <2>6. ASSUME NEW p \in PaneIds, FocusPane(c, p)
        PROVE  Directory!DirNext
    BY <2>6, FocusDirStep DEF FocusPane
  <2>7. ASSUME NEW t \in TabIds, CloseTab(c, t)
        PROVE  Directory!DirNext
    BY <2>7, ClosingSteps
  <2>8. ASSUME NEW t \in TabIds, SwitchTab(c, t)
        PROVE  Directory!DirNext
    BY <2>8, FocusDirStep DEF SwitchTab, ActivateTab
  <2>9. ASSUME NEW w \in WorkspaceIds, CloseWorkspace(c, w)
        PROVE  Directory!DirNext
    BY <2>9, ClosingSteps
  <2>10. ASSUME NEW w \in WorkspaceIds, SwitchWorkspace(c, w)
         PROVE  Directory!DirNext
    BY <2>10, FocusDirStep DEF SwitchWorkspace, ActivateWorkspace
  <2>11. ASSUME NEW t \in TabIds, NEW i \in TabIndices, MoveTab(c, t, i)
         PROVE  UNCHANGED <<LifeOf, Current>>
    BY <2>11, MoveTabIsSilent
  <2>12. QED
    BY <1>2, <2>1, <2>2, <2>3, <2>4, <2>5, <2>6, <2>7, <2>8, <2>9, <2>10, <2>11
       DEF ManagerStep
<1>3. QED
  BY <1>1, <1>2 DEF ManagerNext

\* The manager implements the directory of panes its clients rely on, and no
\* rearrangement moves what is active.
THEOREM Implementation == ManagerSpec => ImplementsDirectory
<1>1. ManagerSpec => []IInv
  BY Initially, Stepwise, PTL DEF ManagerSpec
<1>2. IInv /\ IInv' /\ [ManagerNext]_managerVars =>
        [Directory!DirNext]_(Directory!dirVars)
  BY DirectoryNext DEF Directory!dirVars, LifeOf, Current
<1>3. IInv => [Rearrange => ActiveSurvives]_managerVars
  BY RearrangeFollows
<1>4. QED
  BY <1>1, <1>2, <1>3, DirectoryInit, PTL
     DEF ManagerSpec, ImplementsDirectory, Directory!DirSpec
=============================================================================
