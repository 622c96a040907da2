-------------------------- MODULE ScrollArchive --------------------------
(***************************************************************************)
(* The scrollback archive of a pane (oakterm-terminal: archive_manager.rs, *)
(* archive_core.rs); the pane that feeds and reads it is module            *)
(* Scrollback.                                                             *)
(*                                                                         *)
(* Rows pruned from the hot buffer go, in batches, to a writer thread      *)
(* through a bounded mailbox that never blocks the output: what does not   *)
(* fit is dropped and counted.  The writer batches rows into frames,       *)
(* frames into segments, and loses rows to a full or failing disk.  Every  *)
(* row has an absolute index, which is how clients ask for it, so a loss   *)
(* must leave a gap and never shift what follows.                          *)
(*                                                                         *)
(* A row is its absolute index, so that a row stored under another index   *)
(* shows.  The writer owns its state: one message is one step, whatever    *)
(* its I/O comes to, and an operation is the set of its outcomes.          *)
(***************************************************************************)
EXTENDS Naturals, Sequences, FiniteSets

CONSTANTS
    Readers,       \* blocking tasks, each with one request
    MailboxDepth,
    FrameRows,     \* rows that make a frame worth writing
    DiskCap,       \* max_disk_bytes, in rows
    Faults         \* what may go wrong; see AllFaults

AllFaults == {"disk", "key", "space", "read", "remove", "timeout", "death"}

ASSUME ArchiveAssumption ==
    /\ {FrameRows, DiskCap} \subseteq Nat
    /\ MailboxDepth \in Nat \ {0}
    /\ Faults \subseteq AllFaults

VARIABLES
    received,    \* rows handed to the manager so far
    dropped,     \* of these, dropped at the mailbox
    pendingGap,  \* dropped since the last batch that got in
    manager,     \* "open", "closing" while it waits for shutdown, "none"
                 \* without a writer's mailbox
    mailbox,
    writer,      \* the thread: "running", "exited" or "dead"
    core,        \* ArchiveCore
    read,        \* reader -> where its read is
    window,      \* reader -> [lo, hi): the rows it wants
    reply,       \* reader -> the <<index, row>> pairs it got
    process      \* "up", or "exited" once run has returned

facadeVars == <<received, dropped, pendingGap>>
readVars == <<read, window, reply>>
archiveVars == <<facadeVars, manager, mailbox, writer, core, readVars, process>>

\* evicted is a history variable: rows deleted to stay under the disk cap.
NewCore == [base |-> 0, segments |-> <<>>, active |-> <<>>, pending |-> <<>>,
            key |-> TRUE, paused |-> FALSE, lost |-> 0, evicted |-> 0]

NoWindow == [lo |-> 0, hi |-> 0]

\* The first pane has a manager, the others have none.
ArchiveInit(attached) ==
    /\ received = 0 /\ dropped = 0 /\ pendingGap = 0
    /\ manager = IF attached THEN "open" ELSE "none"
    /\ mailbox = <<>>
    /\ writer = IF attached THEN "running" ELSE "exited"
    /\ core = NewCore
    /\ read = [r \in Readers |-> "idle"]
    /\ window = [r \in Readers |-> NoWindow]
    /\ reply = [r \in Readers |-> {}]
    /\ process = "up"

-----------------------------------------------------------------------------
\* ArchiveCore.  A core has a key, with its open segment or without, or has
\* lost it.

Outcome(ok, c) == [ok |-> ok, core |-> c]

LoseUnfinalized(c, n) == [c EXCEPT !.lost = @ + n, !.base = @ + n]

DiskRows(segments) ==
    Cardinality(UNION {{<<i, k>> : k \in DOMAIN segments[i].rows}
                         : i \in DOMAIN segments})

\* lose_finalized: the base has moved past these rows already.
ResetEra(c) ==
    [c EXCEPT !.lost = @ + DiskRows(c.segments), !.segments = <<>>]

\* A new key cannot read what the old one wrote.
Regenerated(c) ==
    {[ResetEra(c) EXCEPT !.key = made]
       : made \in IF "key" \in Faults THEN BOOLEAN ELSE {TRUE}}

\* A segment that does not finalize is lost, with its key or without.
DiscardFailedSegment(c) ==
    {[LoseUnfinalized(c, Len(c.active))
        EXCEPT !.active = <<>>, !.paused = TRUE, !.key = salvaged]
       : salvaged \in BOOLEAN}

Finalized(c) ==
    [c EXCEPT !.segments = Append(@, [first |-> c.base, rows |-> c.active]),
              !.base = @ + Len(c.active), !.active = <<>>]

FinalizeActive(c) ==
    {Outcome(TRUE, Finalized(c))} \cup
    {Outcome(FALSE, d) : d \in IF "disk" \in Faults THEN DiscardFailedSegment(c)
                               ELSE {}}

\* Oldest segments first, down to nine tenths of the cap.
Without(segments, n) == SubSeq(segments, n + 1, Len(segments))
SmallEnough(segments) == DiskRows(segments) <= (DiskCap * 9) \div 10

MustEvict(segments) ==
    IF DiskRows(segments) <= DiskCap THEN 0
    ELSE CHOOSE n \in 1 .. Len(segments) :
           /\ SmallEnough(Without(segments, n))
           /\ \A m \in 0 .. n - 1 : ~ SmallEnough(Without(segments, m))

Evict(c, n) ==
    [c EXCEPT !.segments = Without(@, n),
              !.evicted = @ + DiskRows(SubSeq(c.segments, 1, n))]

\* A file that cannot be removed ends the pruning, which the caller is not
\* told of.
PruneIfNeeded(c) ==
    {Evict(c, n) : n \in IF "remove" \in Faults THEN 0 .. MustEvict(c.segments)
                         ELSE {MustEvict(c.segments)}}

ThenPrune(outcomes) ==
    UNION {IF o.ok THEN {Outcome(TRUE, c) : c \in PruneIfNeeded(o.core)} ELSE {o}
             : o \in outcomes}

SealActive(c) ==
    IF c.active = <<>> THEN {Outcome(TRUE, c)} ELSE ThenPrune(FinalizeActive(c))

\* Variant, for mutation: the rows of the open segment are not counted.
AbandonPendingOnly(c) ==
    LET torn == [LoseUnfinalized(c, Len(c.pending))
                   EXCEPT !.pending = <<>>, !.active = <<>>, !.paused = TRUE]
    IN  Regenerated(torn) \cup (IF c.key THEN {torn} ELSE {})

\* Pending rows and the open segment are lost.  Its key is salvaged, or a new
\* one is made.
AbandonAfterError(c) ==
    LET torn == [LoseUnfinalized(c, Len(c.pending) + Len(c.active))
                   EXCEPT !.pending = <<>>, !.active = <<>>, !.paused = TRUE]
    IN  Regenerated(torn) \cup (IF c.key THEN {torn} ELSE {})

\* ensure_writer, as far as it needs a key: one per segment.
EnsureWriter(c) == IF c.key THEN {c} ELSE Regenerated(c)

\* One frame into the open segment.
FrameWritten(c) == [c EXCEPT !.active = @ \o c.pending, !.pending = <<>>]

\* A segment is full after 256 frames: here after any.
WriteFrame(c) ==
    ThenPrune({Outcome(TRUE, FrameWritten(c))} \cup FinalizeActive(FrameWritten(c)))

WriteRows(c) ==
    (UNION {IF d.key THEN WriteFrame(d) ELSE {} : d \in EnsureWriter(c)}) \cup
    {Outcome(FALSE, d) : d \in UNION {
       IF "disk" \in Faults \/ ~ e.key THEN AbandonAfterError(e) ELSE {}
         : e \in EnsureWriter(c) \cup {c}}}

\* The open segment is closed first: the base moves past what is lost.
LowOnSpace(c) ==
    {[LoseUnfinalized(o.core, Len(c.pending)) EXCEPT !.pending = <<>>,
                                                     !.paused = TRUE]
       : o \in IF c.active = <<>> THEN {Outcome(TRUE, c)} ELSE FinalizeActive(c)}

FlushPending(c) ==
    IF c.pending = <<>> THEN {Outcome(TRUE, c)}
    ELSE WriteRows(c) \cup
         {Outcome(TRUE, d) : d \in IF "space" \in Faults THEN LowOnSpace(c)
                                   ELSE {}}

FlushAndSeal(c) ==
    UNION {IF o.ok THEN SealActive(o.core) ELSE {o} : o \in FlushPending(c)}

\* The rows join the pending ones, which make a frame when there are enough.
BatchRows(c, rows) ==
    LET batched == [c EXCEPT !.pending = @ \o rows, !.paused = FALSE]
    IN  IF Len(batched.pending) < FrameRows THEN {batched}
        ELSE {o.core : o \in FlushPending(batched)}

\* Paused, the disk is looked at once a second at most.
AcceptRows(c, rows) ==
    BatchRows(c, rows) \cup
    (IF c.paused THEN {LoseUnfinalized(c, Len(rows))} ELSE {})

\* archive_rows: the gap counts whatever becomes of the rows before it, and
\* the rows after it are lost with those.
ArchiveRows(c, rows, gap) ==
    IF gap = 0 THEN AcceptRows(c, rows)
    ELSE UNION {LET moved == [o.core EXCEPT !.base = @ + gap]
                IN  IF o.ok THEN AcceptRows(moved, rows)
                    ELSE {LoseUnfinalized(moved, Len(rows))}
                  : o \in FlushAndSeal(c)}

\* A read that reaches past the finalized segments flushes and seals first,
\* the one whatever comes of the other.
BeforeRead(c, hi) ==
    IF hi <= c.base THEN {c}
    ELSE {o.core : o \in UNION {SealActive(f.core) : f \in FlushPending(c)}}

\* read_rows of a segment, over the frames that hold them.
SegmentRows(s, w) ==
    {<<s.first + k - 1, s.rows[k]>>
       : k \in {k \in DOMAIN s.rows : s.first + k - 1 \in w.lo .. w.hi - 1}}

ReadRange(c, w) ==
    UNION {SegmentRows(c.segments[i], w) : i \in DOMAIN c.segments}

-----------------------------------------------------------------------------
\* The manager, under the pane lock, and its readers, under none.

Up == process = "up"

HasRoom == writer = "running" /\ Len(mailbox) < MailboxDepth

\* archive_rows of the manager: the rows are received, and keep their indices,
\* even if they are dropped.  After shutdown nothing counts their loss.
ManagerArchiveRows(rows) ==
    /\ received' = received + Len(rows)
    /\ IF manager = "open" /\ HasRoom
       THEN /\ mailbox' = Append(mailbox, [kind |-> "batch", gap |-> pendingGap,
                                           rows |-> rows])
            /\ pendingGap' = 0
            /\ UNCHANGED dropped
       ELSE /\ dropped' = dropped + IF manager = "none" THEN 0 ELSE Len(rows)
            /\ pendingGap' = pendingGap
                 + IF manager = "none" THEN 0 ELSE Len(rows)
            /\ UNCHANGED mailbox
    /\ UNCHANGED <<manager, writer, core, readVars, process>>

\* A reader takes a window to the writer.
StartRead(r, w) ==
    /\ read' = [read EXCEPT ![r] = "planned"]
    /\ window' = [window EXCEPT ![r] = w]
    /\ reply' = [reply EXCEPT ![r] = {}]
    /\ UNCHANGED <<facadeVars, manager, mailbox, writer, core, process>>

\* A window with no row of the archive needs no answer.
SkipRead(r, w) ==
    /\ read' = [read EXCEPT ![r] = "replied"]
    /\ window' = [window EXCEPT ![r] = w]
    /\ UNCHANGED <<facadeVars, manager, mailbox, writer, core, reply, process>>

\* Its request has been answered, or has failed.
EndRead(r, outcome) ==
    /\ read' = [read EXCEPT ![r] = outcome]
    /\ window' = [window EXCEPT ![r] = NoWindow]
    /\ reply' = [reply EXCEPT ![r] = {}]
    /\ UNCHANGED <<facadeVars, manager, mailbox, writer, core, process>>

\* send_with_deadline: tried again while the mailbox is full.
SendRead(r) ==
    /\ Up /\ manager # "none" /\ HasRoom
    /\ read[r] = "planned"
    /\ mailbox' = Append(mailbox, [kind |-> "read", reader |-> r,
                                    window |-> window[r]])
    /\ read' = [read EXCEPT ![r] = "waiting"]
    /\ UNCHANGED <<facadeVars, manager, writer, core, window, reply, process>>

\* The mailbox or the reply channel is closed, or the deadline has passed:
\* an error, never blanks.
ReadFails(r) ==
    /\ Up
    /\ \/ read[r] = "planned" /\ (manager = "none" \/ writer # "running")
       \/ read[r] = "waiting" /\ writer # "running"
       \/ read[r] \in {"planned", "waiting"} /\ "timeout" \in Faults
    /\ EndRead(r, "failed")

\* run returns: shutdown of the archive, queued like anything else ...
SendShutdown ==
    /\ Up /\ manager = "open" /\ HasRoom
    /\ mailbox' = Append(mailbox, [kind |-> "shutdown"])
    /\ manager' = "closing"
    /\ UNCHANGED <<facadeVars, writer, core, readVars, process>>

\* ... and answered by the writer's end; a dead writer's files are removed in
\* its place; a wedged writer is abandoned.
ShutdownDone ==
    /\ Up
    /\ \/ manager = "closing" /\ writer = "exited"
       \/ manager \in {"open", "closing"} /\ writer = "dead"
       \/ manager \in {"open", "closing"} /\ writer = "running"
            /\ "timeout" \in Faults
    /\ manager' = "none"
    /\ UNCHANGED <<facadeVars, mailbox, writer, core, readVars, process>>

\* The pane is dropped, and its manager stops the writer.
DropManager ==
    /\ manager' = "none"
    /\ UNCHANGED <<facadeVars, mailbox, writer, core, readVars, process>>

\* run has returned, and takes the thread and the blocking tasks with it.
Exit ==
    /\ Up /\ manager = "none"
    /\ process' = "exited"
    /\ UNCHANGED <<facadeVars, manager, mailbox, writer, core, readVars>>

-----------------------------------------------------------------------------
\* The writer's thread.

NextMessage(kind) ==
    /\ Up /\ writer = "running"
    /\ mailbox # <<>> /\ Head(mailbox).kind = kind
    /\ mailbox' = Tail(mailbox)

WriteBatch ==
    /\ NextMessage("batch")
    /\ core' \in ArchiveRows(core, Head(mailbox).rows, Head(mailbox).gap)
    /\ UNCHANGED <<facadeVars, manager, writer, readVars, process>>

\* A reader that gave up is not there for the answer, but its read has sealed.
ServeRead ==
    /\ NextMessage("read")
    /\ LET r == Head(mailbox).reader
           w == Head(mailbox).window
       IN  /\ core' \in BeforeRead(core, w.hi)
           /\ \/ /\ read[r] = "waiting" /\ core'.key
                 /\ reply' = [reply EXCEPT ![r] = ReadRange(core', w)]
                 /\ read' = [read EXCEPT ![r] = "replied"]
                 /\ UNCHANGED window
              \* No key, or a segment that cannot be read.
              \/ /\ read[r] = "waiting" /\ (~ core'.key \/ "read" \in Faults)
                 /\ read' = [read EXCEPT ![r] = "failed"]
                 /\ window' = [window EXCEPT ![r] = NoWindow]
                 /\ UNCHANGED reply
              \/ /\ read[r] # "waiting"
                 /\ UNCHANGED readVars
    /\ UNCHANGED <<facadeVars, manager, writer, process>>

\* Finalize, delete the directory, reply and end.
ShutDown ==
    /\ NextMessage("shutdown")
    /\ writer' = "exited"
    /\ UNCHANGED <<facadeVars, manager, core, readVars, process>>

\* Everything queued before the disconnect has been handled.
Disconnected ==
    /\ Up /\ writer = "running" /\ manager = "none" /\ mailbox = <<>>
    /\ writer' = "exited"
    /\ UNCHANGED <<facadeVars, manager, mailbox, core, readVars, process>>

WriterDies ==
    /\ Up /\ writer = "running" /\ "death" \in Faults
    /\ writer' = "dead"
    /\ mailbox' = <<>>
    /\ UNCHANGED <<facadeVars, manager, core, readVars, process>>

WriterStep == WriteBatch \/ ServeRead \/ ShutDown \/ Disconnected \/ WriterDies

ReaderStep(r) == SendRead(r) \/ ReadFails(r)

-----------------------------------------------------------------------------
\* The rows of the core, by index, and those on their way to it.
Kept(c) ==
    {c.active[k] : k \in DOMAIN c.active}
      \cup {c.pending[k] : k \in DOMAIN c.pending}
      \cup UNION {{c.segments[i].rows[k] : k \in DOMAIN c.segments[i].rows}
                    : i \in DOMAIN c.segments}

Queued == UNION {{mailbox[i].rows[k] : k \in DOMAIN mailbox[i].rows}
                   : i \in {i \in DOMAIN mailbox : mailbox[i].kind = "batch"}}

\* Every row handed to the archive while it is open is stored, on its way,
\* deleted for the disk cap, or counted as lost on one channel or the other.
LossesCounted ==
    writer = "running" /\ manager = "open" =>
      received = dropped + core.lost + core.evicted
                   + Cardinality(Kept(core) \cup Queued)
=============================================================================
