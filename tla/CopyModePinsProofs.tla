------------------------ MODULE CopyModePinsProofs ------------------------
(***************************************************************************)
(* Safety of CopyModePins, for any set of clients and any bounds.          *)
(***************************************************************************)
EXTENDS CopyModePins, SequenceTheorems, TLAPS

Serials == 1 .. MaxSessions
Frames ==
    {[type |-> "Exit"], [type |-> "Resize"]}
      \cup [type : {"Enter"}, serial : Serials, base : Bases]
      \cup [type : {"Fill"}, serial : Serials]
Messages ==
    {[type |-> "Invalidated"]}
      \cup [type : {"Update"}, base : Bases]
      \cup [type : {"Ack", "Data"}, serial : Serials, base : Bases]
      \cup [type : {"EnterRefused", "FillRefused"}, serial : Serials]

QueuesTyped ==
    /\ toDaemon \in [Clients -> Seq(Frames)]
    /\ toClient \in [Clients -> Seq(Messages)]
    /\ epoch <= historyLen

\* A published base either names rows as they are, or is below the watermark
\* the latest move of rows left.
Sound(base) ==
    /\ base.row <= historyLen
    /\ resizeWatermark <= base.row => base.epoch = epoch

BasesSound(c) ==
    /\ painted[c] # NoBase => Sound(painted[c])
    /\ \A i \in DOMAIN toDaemon[c] :
         toDaemon[c][i].type = "Enter" => Sound(toDaemon[c][i].base)
    /\ \A i \in DOMAIN toClient[c] :
         toClient[c][i].type = "Update" => Sound(toClient[c][i].base)

\* Frames and messages about the latest entry of a client.
IsEnter(m, n) == m.type = "Enter" /\ m.serial = n
IsAnswer(m, n) == m.type \in {"Ack", "EnterRefused"} /\ m.serial = n
HasEnter(q, n) == \E i \in DOMAIN q : IsEnter(q[i], n)
HasAnswer(q, n) == \E i \in DOMAIN q : IsAnswer(q[i], n)
EntersOnce(q, n) ==
    \A i, j \in DOMAIN q : IsEnter(q[i], n) /\ IsEnter(q[j], n) => i = j
AnswersOnce(q, n) ==
    \A i, j \in DOMAIN q : IsAnswer(q[i], n) /\ IsAnswer(q[j], n) => i = j
EnterFollows(q, i, n) == \E j \in DOMAIN q : j > i /\ IsEnter(q[j], n)

Asked(c) == HasEnter(toDaemon[c], serial[c])
Answered(c) == HasAnswer(toClient[c], serial[c])
ExitComes(c) == \E i \in DOMAIN toDaemon[c] : toDaemon[c][i].type = "Exit"

\* No frame and no message is of an entry yet to come.
SerialsKnown(c) ==
    /\ \A i \in DOMAIN toDaemon[c] :
         toDaemon[c][i].type \in {"Enter", "Fill"} => toDaemon[c][i].serial <= serial[c]
    /\ \A i \in DOMAIN toClient[c] :
         toClient[c][i].type \in {"Ack", "EnterRefused", "Data", "FillRefused"}
           => toClient[c][i].serial <= serial[c]

\* The latest entry is asked or answered, once, exactly while it is pending,
\* and every earlier one still to be handled is ahead of it.
EntryTracked(c) ==
    /\ pendingEnter[c] \in {0, serial[c]}
    /\ pendingEnter[c] # 0 <=> Asked(c) \/ Answered(c)
    /\ ~ (Asked(c) /\ Answered(c))
    /\ EntersOnce(toDaemon[c], serial[c]) /\ AnswersOnce(toClient[c], serial[c])
    /\ \A i \in DOMAIN toDaemon[c] :
         toDaemon[c][i].type = "Enter" /\ toDaemon[c][i].serial # serial[c]
           => EnterFollows(toDaemon[c], i, serial[c])

\* What the daemon holds for a session that it acknowledged.
Holds(c, base) == pins[c] = base \/ invalidations[c] # "none"

\* No exit follows the entry of a session that is open.
OpenSession(c) ==
    session[c] # "none" =>
      \A i \in DOMAIN toDaemon[c] :
        toDaemon[c][i].type = "Exit" => EnterFollows(toDaemon[c], i, serial[c])

EnteringSession(c) ==
    session[c] = "entering" =>
      /\ pendingEnter[c] # 0
      /\ \A i \in DOMAIN toDaemon[c] :
           toDaemon[c][i].type = "Fill" => toDaemon[c][i].serial # serial[c]
      /\ \A i \in DOMAIN toClient[c] :
           toClient[c][i].type = "Data" => toClient[c][i].serial # serial[c]
      /\ \A i \in DOMAIN toClient[c] :
           toClient[c][i].type = "Ack" /\ toClient[c][i].serial = serial[c]
             => Holds(c, toClient[c][i].base)

PinnedSession(c) ==
    session[c] = "pinned" =>
      /\ pendingEnter[c] = 0 /\ serial[c] # 0
      /\ pinnedBase[c] \in Bases
      /\ Holds(c, pinnedBase[c])
      /\ \A i \in DOMAIN toClient[c] :
           toClient[c][i].type = "Data" /\ toClient[c][i].serial = serial[c]
             => toClient[c][i].base = pinnedBase[c]

\* Whatever the daemon holds for a client that is not in copy mode, an exit
\* is on its way to release it.
NoSession(c) ==
    session[c] = "none" /\ pendingEnter[c] = 0 /\ pins[c] # NoBase => ExitComes(c)

InvalidationTracked(c) ==
    /\ invalidations[c] = "queued" => wake[c]
    /\ invalidations[c] = "sent" =>
         \/ \E i \in DOMAIN toClient[c] : toClient[c][i].type = "Invalidated"
         \/ ExitComes(c)

ClientInv(c) ==
    /\ SerialsKnown(c) /\ EntryTracked(c)
    /\ OpenSession(c) /\ EnteringSession(c) /\ PinnedSession(c) /\ NoSession(c)
    /\ InvalidationTracked(c)

\* The inductive invariant.
IInv ==
    /\ TypeOK /\ QueuesTyped /\ PinsAreCurrent
    /\ \A c \in Clients :
         /\ BasesSound(c)
         /\ IF c \in connected THEN ClientInv(c) ELSE session[c] = "none"

LEMMA IInvImplies == IInv => ReadsMatchTheirPin /\ NothingLeftBehind
<1> SUFFICES ASSUME IInv PROVE ReadsMatchTheirPin /\ NothingLeftBehind
  OBVIOUS
<1>1. ASSUME NEW c \in Clients, session[c] = "pinned"
      PROVE  PinnedSession(c)
  BY <1>1 DEF IInv, ClientInv
<1>2. FillsMatchTheirPin
  BY <1>1 DEF FillsMatchTheirPin, PinnedSession
<1>3. ASSUME NEW c \in Clients, Idle(c)
      PROVE  IF session[c] = "none"
             THEN pins[c] = NoBase /\ invalidations[c] = "none"
             ELSE session[c] = "pinned" /\ pins[c] = pinnedBase[c]
  <2>1. /\ c \in connected /\ ~ wake[c]
        /\ DOMAIN toDaemon[c] = {} /\ DOMAIN toClient[c] = {}
    BY <1>3 DEF Idle
  <2>2. ClientInv(c)
    BY <2>1 DEF IInv
  <2>3. invalidations[c] = "none"
    BY <2>1, <2>2 DEF ClientInv, InvalidationTracked, ExitComes, IInv, TypeOK, Entries
  <2>4. pendingEnter[c] = 0
    BY <2>1, <2>2 DEF ClientInv, EntryTracked, Asked, Answered, HasEnter, HasAnswer
  <2>5. session[c] = "none" => pins[c] = NoBase
    BY <2>1, <2>2, <2>4 DEF ClientInv, NoSession, ExitComes
  <2>6. session[c] # "none" => session[c] = "pinned" /\ pins[c] = pinnedBase[c]
    BY <2>2, <2>3, <2>4
       DEF ClientInv, EnteringSession, PinnedSession, Holds, IInv, TypeOK
  <2>7. QED
    BY <2>3, <2>5, <2>6
<1>4. QED
  BY <1>2, <1>3 DEF IInv, ReadsMatchTheirPin, NothingLeftBehind

LEMMA Initially == Init => IInv
<1> SUFFICES ASSUME Init PROVE IInv
  OBVIOUS
<1>1. TypeOK
  BY LimitsAssumption DEF Init, TypeOK, Entries
<1>2. <<>> \in Seq(Frames) /\ <<>> \in Seq(Messages) /\ DOMAIN <<>> = {}
  OBVIOUS
<1>3. QueuesTyped
  BY <1>2 DEF Init, QueuesTyped
<1>4. PinsAreCurrent /\ \A c \in Clients : BasesSound(c)
  BY <1>2 DEF Init, BasesSound, PinsAreCurrent
<1>5. ASSUME NEW c \in Clients PROVE ClientInv(c)
  <2>1. /\ DOMAIN toDaemon[c] = {} /\ DOMAIN toClient[c] = {}
        /\ session[c] = "none" /\ serial[c] = 0 /\ pendingEnter[c] = 0
        /\ pins[c] = NoBase /\ invalidations[c] = "none"
    BY <1>2 DEF Init
  <2>2. SerialsKnown(c) /\ EntryTracked(c)
    BY <2>1 DEF SerialsKnown, EntryTracked, Asked, Answered, HasEnter, HasAnswer,
                EntersOnce, AnswersOnce
  <2>3. OpenSession(c) /\ EnteringSession(c) /\ PinnedSession(c) /\ NoSession(c)
    BY <2>1 DEF OpenSession, EnteringSession, PinnedSession, NoSession
  <2>4. InvalidationTracked(c)
    BY <2>1 DEF InvalidationTracked
  <2>5. QED
    BY <2>2, <2>3, <2>4 DEF ClientInv
<1>6. QED
  BY <1>1, <1>3, <1>4, <1>5 DEF IInv, Init

-----------------------------------------------------------------------------
\* Queues.

LEMMA TailItems ==
  ASSUME NEW S, NEW q \in Seq(S), q # <<>>
  PROVE  /\ Tail(q) \in Seq(S) /\ Head(q) = q[1] /\ 1 \in DOMAIN q /\ q[1] \in S
         /\ \A i \in DOMAIN Tail(q) :
              i \in Nat /\ i # 0 /\ i + 1 \in DOMAIN q /\ Tail(q)[i] = q[i + 1]
         /\ \A i \in DOMAIN q :
              /\ i \in Nat /\ i # 0
              /\ i # 1 => i - 1 \in DOMAIN Tail(q) /\ Tail(q)[i - 1] = q[i]
<1>1. PICK n \in Nat : n = Len(q) /\ DOMAIN q = 1 .. n /\ n # 0
  OBVIOUS
<1>2. Tail(q) \in Seq(S) /\ Len(Tail(q)) = n - 1
  BY <1>1
<1>3. DOMAIN Tail(q) = 1 .. n - 1
  BY <1>1, <1>2
<1>4. \A i \in 1 .. n - 1 : Tail(q)[i] = q[i + 1]
  BY <1>1
<1>5. QED
  BY <1>1, <1>2, <1>3, <1>4

LEMMA AppendItems ==
  ASSUME NEW S, NEW q \in Seq(S), NEW m \in S
  PROVE  /\ Append(q, m) \in Seq(S)
         /\ \A i \in DOMAIN q : /\ i \in Nat /\ i \in DOMAIN Append(q, m)
                                /\ Append(q, m)[i] = q[i] /\ Len(q) + 1 > i
         /\ Len(q) + 1 \in DOMAIN Append(q, m) /\ Append(q, m)[Len(q) + 1] = m
         /\ \A i \in DOMAIN Append(q, m) :
              \/ i \in DOMAIN q /\ Append(q, m)[i] = q[i]
              \/ i = Len(q) + 1 /\ Append(q, m)[i] = m
<1>1. PICK n \in Nat : n = Len(q) /\ DOMAIN q = 1 .. n
  OBVIOUS
<1>2. /\ Append(q, m) \in Seq(S) /\ DOMAIN Append(q, m) = 1 .. n + 1
      /\ \A i \in 1 .. n : Append(q, m)[i] = q[i]
      /\ Append(q, m)[n + 1] = m
  BY <1>1
<1>3. QED
  BY <1>1, <1>2

LEMMA FrameFields ==
  ASSUME NEW m \in Frames
  PROVE  /\ m.type \in {"Exit", "Resize", "Enter", "Fill"}
         /\ m.type \in {"Enter", "Fill"} => m.serial \in Serials
         /\ m.type = "Enter" => m.base \in Bases
BY DEF Frames

LEMMA MessageFields ==
  ASSUME NEW m \in Messages
  PROVE  /\ m.type \in {"Invalidated", "Update", "Ack", "Data", "EnterRefused", "FillRefused"}
         /\ m.type \in {"Ack", "Data", "EnterRefused", "FillRefused"} => m.serial \in Serials
         /\ m.type \in {"Update", "Ack", "Data"} => m.base \in Bases
BY DEF Messages

\* How the items of a queue and of the same queue without its first one, or
\* with more at its end, correspond.
Popped(q, r) ==
    /\ \A i \in DOMAIN r :
         i \in Nat /\ i # 0 /\ i + 1 \in DOMAIN q /\ r[i] = q[i + 1]
    /\ \A i \in DOMAIN q :
         /\ i \in Nat /\ i # 0
         /\ i # 1 => i - 1 \in DOMAIN r /\ r[i - 1] = q[i]
Grown(q, m, r) ==
    /\ \A i \in DOMAIN q : i \in Nat /\ i \in DOMAIN r /\ r[i] = q[i]
    /\ \E k \in DOMAIN r :
         /\ k \in Nat /\ r[k] = m
         /\ \A i \in DOMAIN q : k > i
         /\ \A i \in DOMAIN r : i # k => i \in DOMAIN q

LEMMA PoppedFrames ==
  ASSUME NEW q, NEW r, NEW n, Popped(q, r)
  PROVE  /\ HasEnter(r, n) => HasEnter(q, n)
         /\ HasEnter(q, n) /\ ~ IsEnter(q[1], n) => HasEnter(r, n)
         /\ EntersOnce(q, n) => EntersOnce(r, n)
         /\ \A i \in DOMAIN r : EnterFollows(q, i + 1, n) => EnterFollows(r, i, n)
<1>1. HasEnter(r, n) => HasEnter(q, n)
  BY DEF Popped, HasEnter
<1>2. HasEnter(q, n) /\ ~ IsEnter(q[1], n) => HasEnter(r, n)
  BY DEF Popped, HasEnter
<1>3. ASSUME EntersOnce(q, n), NEW i \in DOMAIN r, NEW j \in DOMAIN r,
             IsEnter(r[i], n), IsEnter(r[j], n)
      PROVE  i = j
  <2>1. i \in Nat /\ j \in Nat /\ i + 1 = j + 1
    BY <1>3 DEF Popped, EntersOnce
  <2>2. QED
    BY <2>1
<1>4. ASSUME NEW i \in DOMAIN r, EnterFollows(q, i + 1, n)
      PROVE  EnterFollows(r, i, n)
  <2>1. PICK j \in DOMAIN q : j > i + 1 /\ IsEnter(q[j], n)
    BY <1>4 DEF EnterFollows
  <2>2. i \in Nat /\ j \in Nat /\ j # 1
    BY <2>1 DEF Popped
  <2>3. j - 1 \in DOMAIN r /\ r[j - 1] = q[j] /\ j - 1 > i
    BY <2>1, <2>2 DEF Popped
  <2>4. QED
    BY <2>1, <2>3 DEF EnterFollows
<1>5. EntersOnce(q, n) => EntersOnce(r, n)
  BY <1>3 DEF EntersOnce
<1>6. QED
  BY <1>1, <1>2, <1>4, <1>5

\* When the only frame that enters is the first, none is left and none
\* followed another.
LEMMA PoppedEnter ==
  ASSUME NEW q, NEW r, NEW n, Popped(q, r), 1 \in DOMAIN q,
         EntersOnce(q, n), IsEnter(q[1], n)
  PROVE  /\ ~ HasEnter(r, n)
         /\ \A i \in DOMAIN q : ~ EnterFollows(q, i, n)
<1>1. \A i \in DOMAIN q : i \in Nat /\ i # 0 /\ (IsEnter(q[i], n) => i = 1)
  BY DEF Popped, EntersOnce
<1>2. ASSUME NEW i \in DOMAIN r, IsEnter(r[i], n)
      PROVE  FALSE
  <2>1. i \in Nat /\ i # 0 /\ i + 1 = 1
    BY <1>1, <1>2 DEF Popped
  <2>2. QED
    BY <2>1
<1>3. ASSUME NEW i \in DOMAIN q, EnterFollows(q, i, n)
      PROVE  FALSE
  <2>1. i \in Nat /\ i # 0 /\ 1 > i
    BY <1>1, <1>3 DEF EnterFollows
  <2>2. QED
    BY <2>1
<1>4. QED
  BY <1>2, <1>3 DEF HasEnter

LEMMA GrownFrames ==
  ASSUME NEW q, NEW m, NEW r, NEW n, Grown(q, m, r)
  PROVE  /\ HasEnter(r, n) <=> HasEnter(q, n) \/ IsEnter(m, n)
         /\ EntersOnce(q, n) /\ ~ (HasEnter(q, n) /\ IsEnter(m, n))
              => EntersOnce(r, n)
         /\ \A i \in DOMAIN q :
              EnterFollows(q, i, n) \/ IsEnter(m, n) => EnterFollows(r, i, n)
         /\ \A i \in DOMAIN r : r[i] # m => i \in DOMAIN q /\ r[i] = q[i]
         /\ \E i \in DOMAIN r : r[i] = m
<1>1. HasEnter(r, n) <=> HasEnter(q, n) \/ IsEnter(m, n)
  BY DEF Grown, HasEnter
<1>2. EntersOnce(q, n) /\ ~ (HasEnter(q, n) /\ IsEnter(m, n)) => EntersOnce(r, n)
  BY DEF Grown, HasEnter, EntersOnce
<1>3. \A i \in DOMAIN q :
        EnterFollows(q, i, n) \/ IsEnter(m, n) => EnterFollows(r, i, n)
  BY DEF Grown, EnterFollows
<1>4. /\ \A i \in DOMAIN r : r[i] # m => i \in DOMAIN q /\ r[i] = q[i]
      /\ \E i \in DOMAIN r : r[i] = m
  BY DEF Grown
<1>5. QED
  BY <1>1, <1>2, <1>3, <1>4

LEMMA PoppedMessages ==
  ASSUME NEW q, NEW r, NEW n, Popped(q, r)
  PROVE  /\ HasAnswer(r, n) => HasAnswer(q, n)
         /\ HasAnswer(q, n) /\ ~ IsAnswer(q[1], n) => HasAnswer(r, n)
         /\ AnswersOnce(q, n) => AnswersOnce(r, n)
         /\ AnswersOnce(q, n) /\ 1 \in DOMAIN q /\ IsAnswer(q[1], n)
              => ~ HasAnswer(r, n)
<1>1. HasAnswer(r, n) => HasAnswer(q, n)
  BY DEF Popped, HasAnswer
<1>2. HasAnswer(q, n) /\ ~ IsAnswer(q[1], n) => HasAnswer(r, n)
  BY DEF Popped, HasAnswer
<1>3. ASSUME AnswersOnce(q, n), NEW i \in DOMAIN r, NEW j \in DOMAIN r,
             IsAnswer(r[i], n), IsAnswer(r[j], n)
      PROVE  i = j
  <2>1. i \in Nat /\ j \in Nat /\ i + 1 = j + 1
    BY <1>3 DEF Popped, AnswersOnce
  <2>2. QED
    BY <2>1
<1>4. AnswersOnce(q, n) => AnswersOnce(r, n)
  BY <1>3 DEF AnswersOnce
<1>5. ASSUME AnswersOnce(q, n), 1 \in DOMAIN q, IsAnswer(q[1], n)
      PROVE  ~ HasAnswer(r, n)
  <2>1. \A i \in DOMAIN q : i \in Nat /\ i # 0 /\ (IsAnswer(q[i], n) => i = 1)
    BY <1>5 DEF Popped, AnswersOnce
  <2>2. ASSUME NEW i \in DOMAIN r, IsAnswer(r[i], n)
        PROVE  FALSE
    <3>1. i \in Nat /\ i # 0 /\ i + 1 = 1
      BY <2>1, <2>2 DEF Popped
    <3>2. QED
      BY <3>1
  <2>3. QED
    BY <2>2 DEF HasAnswer
<1>6. QED
  BY <1>1, <1>2, <1>4, <1>5

LEMMA GrownMessages ==
  ASSUME NEW q, NEW m, NEW r, NEW n, Grown(q, m, r)
  PROVE  /\ HasAnswer(r, n) <=> HasAnswer(q, n) \/ IsAnswer(m, n)
         /\ AnswersOnce(q, n) /\ ~ (HasAnswer(q, n) /\ IsAnswer(m, n))
              => AnswersOnce(r, n)
         /\ \A i \in DOMAIN r : r[i] # m => i \in DOMAIN q /\ r[i] = q[i]
         /\ \A i \in DOMAIN q : i \in DOMAIN r /\ r[i] = q[i]
         /\ \E i \in DOMAIN r : r[i] = m
<1>1. HasAnswer(r, n) <=> HasAnswer(q, n) \/ IsAnswer(m, n)
  BY DEF Grown, HasAnswer
<1>2. AnswersOnce(q, n) /\ ~ (HasAnswer(q, n) /\ IsAnswer(m, n)) => AnswersOnce(r, n)
  BY DEF Grown, HasAnswer, AnswersOnce
<1>3. /\ \A i \in DOMAIN r : r[i] # m => i \in DOMAIN q /\ r[i] = q[i]
      /\ \A i \in DOMAIN q : i \in DOMAIN r /\ r[i] = q[i]
      /\ \E i \in DOMAIN r : r[i] = m
  BY DEF Grown
<1>4. QED
  BY <1>1, <1>2, <1>3

LEMMA FrameHandled ==
  ASSUME NEW c \in Clients, QueuesTyped, toDaemon[c] # <<>>, Handled(c)
  PROVE  /\ toDaemon' \in [Clients -> Seq(Frames)]
         /\ \A d \in Clients : d # c => toDaemon'[d] = toDaemon[d]
         /\ Popped(toDaemon[c], toDaemon'[c])
         /\ Head(toDaemon[c]) = toDaemon[c][1] /\ 1 \in DOMAIN toDaemon[c]
         /\ toDaemon[c][1] \in Frames
<1>1. toDaemon[c] \in Seq(Frames)
  BY DEF QueuesTyped
<1>2. /\ Tail(toDaemon[c]) \in Seq(Frames)
      /\ Head(toDaemon[c]) = toDaemon[c][1] /\ 1 \in DOMAIN toDaemon[c]
      /\ toDaemon[c][1] \in Frames
      /\ Popped(toDaemon[c], Tail(toDaemon[c]))
  BY <1>1, TailItems DEF Popped
<1>3. /\ toDaemon' \in [Clients -> Seq(Frames)]
      /\ toDaemon'[c] = Tail(toDaemon[c])
      /\ \A d \in Clients : d # c => toDaemon'[d] = toDaemon[d]
  BY <1>2 DEF Handled, QueuesTyped
<1>4. QED
  BY <1>2, <1>3

LEMMA MessageConsumed ==
  ASSUME NEW c \in Clients, QueuesTyped, toClient[c] # <<>>, Consumed(c)
  PROVE  /\ toClient' \in [Clients -> Seq(Messages)]
         /\ \A d \in Clients : d # c => toClient'[d] = toClient[d]
         /\ Popped(toClient[c], toClient'[c])
         /\ Head(toClient[c]) = toClient[c][1] /\ 1 \in DOMAIN toClient[c]
         /\ toClient[c][1] \in Messages
<1>1. toClient[c] \in Seq(Messages)
  BY DEF QueuesTyped
<1>2. /\ Tail(toClient[c]) \in Seq(Messages)
      /\ Head(toClient[c]) = toClient[c][1] /\ 1 \in DOMAIN toClient[c]
      /\ toClient[c][1] \in Messages
      /\ Popped(toClient[c], Tail(toClient[c]))
  BY <1>1, TailItems DEF Popped
<1>3. /\ toClient' \in [Clients -> Seq(Messages)]
      /\ toClient'[c] = Tail(toClient[c])
      /\ \A d \in Clients : d # c => toClient'[d] = toClient[d]
  BY <1>2 DEF Consumed, QueuesTyped
<1>4. QED
  BY <1>2, <1>3

LEMMA GrownByAppend ==
  ASSUME NEW S, NEW q \in Seq(S), NEW m \in S
  PROVE  Append(q, m) \in Seq(S) /\ Grown(q, m, Append(q, m))
BY AppendItems DEF Grown

LEMMA MessagePushed ==
  ASSUME NEW c \in Clients, NEW m \in Messages, QueuesTyped, Push(c, m)
  PROVE  /\ toClient' \in [Clients -> Seq(Messages)]
         /\ \A d \in Clients : d # c => toClient'[d] = toClient[d]
         /\ Grown(toClient[c], m, toClient'[c])
<1>1. toClient[c] \in Seq(Messages)
  BY DEF QueuesTyped
<1>2. PICK q \in Seq(Messages) : q = toClient[c]
  BY <1>1
<1>3. Append(q, m) \in Seq(Messages) /\ Grown(q, m, Append(q, m))
  BY GrownByAppend
<1>4. /\ toClient' \in [Clients -> Seq(Messages)]
      /\ toClient'[c] = Append(q, m)
      /\ \A d \in Clients : d # c => toClient'[d] = toClient[d]
  BY <1>2, <1>3 DEF Push, QueuesTyped
<1>5. QED
  BY <1>2, <1>3, <1>4

LEMMA FrameSent ==
  ASSUME NEW c \in Clients, NEW m \in Frames, QueuesTyped, Sends(c, <<m>>)
  PROVE  /\ toDaemon' \in [Clients -> Seq(Frames)]
         /\ \A d \in Clients : d # c => toDaemon'[d] = toDaemon[d]
         /\ Grown(toDaemon[c], m, toDaemon'[c])
<1>1. PICK q \in Seq(Frames) : q = toDaemon[c]
  BY DEF QueuesTyped
<1>2. PICK r \in Seq(Frames) : r = Append(q, m) /\ r = q \o <<m>>
  BY AppendProperties, AppendIsConcat
<1>3. Grown(q, m, r)
  BY <1>2, GrownByAppend
<1>4. /\ toDaemon' \in [Clients -> Seq(Frames)]
      /\ toDaemon'[c] = r
      /\ \A d \in Clients : d # c => toDaemon'[d] = toDaemon[d]
  BY <1>1, <1>2 DEF Sends, QueuesTyped
<1>5. QED
  BY <1>1, <1>3, <1>4

LEMMA FramesSent ==
  ASSUME NEW c \in Clients, NEW m \in Frames, NEW n \in Frames, QueuesTyped,
         Sends(c, <<m, n>>)
  PROVE  /\ toDaemon' \in [Clients -> Seq(Frames)]
         /\ \A d \in Clients : d # c => toDaemon'[d] = toDaemon[d]
         /\ \E s \in Seq(Frames) :
              Grown(toDaemon[c], m, s) /\ Grown(s, n, toDaemon'[c])
<1>1. PICK q \in Seq(Frames) : q = toDaemon[c]
  BY DEF QueuesTyped
<1>2. PICK s \in Seq(Frames) : s = Append(q, m) /\ s = q \o <<m>>
  BY AppendProperties, AppendIsConcat
<1>3. PICK r \in Seq(Frames) : r = Append(s, n) /\ r = s \o <<n>>
  BY AppendProperties, AppendIsConcat
<1>4. Grown(q, m, s) /\ Grown(s, n, r)
  <2>1. Grown(q, m, s)
    BY <1>2, GrownByAppend
  <2>2. Grown(s, n, r)
    BY <1>3, GrownByAppend
  <2>3. QED
    BY <2>1, <2>2
<1>5. r = q \o <<m, n>>
  <2>1. <<m>> \in Seq(Frames) /\ <<n>> \in Seq(Frames)
    OBVIOUS
  <2>2. r = q \o (<<m>> \o <<n>>)
    BY <1>2, <1>3, <2>1, ConcatAssociative
  <2>3. <<m>> \o <<n>> = <<m, n>>
    <3>1. Append(<<m>>, n) = <<m>> \o <<n>>
      BY <2>1, AppendIsConcat
    <3>2. Append(<<m>>, n) = <<m, n>>
      <4>1. Append(<<m>>, n) \in Seq(Frames) /\ <<m, n>> \in Seq(Frames)
        BY <2>1
      <4>2. Len(Append(<<m>>, n)) = 2 /\ Len(<<m, n>>) = 2
        BY <2>1
      <4>3. \A i \in 1 .. 2 : Append(<<m>>, n)[i] = <<m, n>>[i]
        BY <2>1
      <4>4. QED
        BY <4>1, <4>2, <4>3, SeqEqual
    <3>3. QED
      BY <3>1, <3>2
  <2>4. QED
    BY <2>2, <2>3
<1>6. /\ toDaemon' \in [Clients -> Seq(Frames)]
      /\ toDaemon'[c] = r
      /\ \A d \in Clients : d # c => toDaemon'[d] = toDaemon[d]
  BY <1>1, <1>3, <1>5 DEF Sends, QueuesTyped
<1>7. QED
  BY <1>1, <1>4, <1>6

-----------------------------------------------------------------------------
\* A step of one client, or of the daemon for one, leaves the others' part of
\* the state as it is.
Same(d) ==
    /\ toDaemon'[d] = toDaemon[d] /\ toClient'[d] = toClient[d]
    /\ pins'[d] = pins[d] /\ invalidations'[d] = invalidations[d]
    /\ wake'[d] = wake[d] /\ painted'[d] = painted[d]
    /\ session'[d] = session[d] /\ serial'[d] = serial[d]
    /\ pendingEnter'[d] = pendingEnter[d] /\ pinnedBase'[d] = pinnedBase[d]
    /\ d \in connected' <=> d \in connected

LEMMA Untouched ==
  ASSUME NEW d \in Clients, Same(d), ClientInv(d)
  PROVE  ClientInv(d)'
<1>1. SerialsKnown(d)' /\ EntryTracked(d)'
  BY DEF Same, ClientInv, SerialsKnown, EntryTracked, Asked, Answered, HasEnter, HasAnswer
<1>2. OpenSession(d)' /\ EnteringSession(d)' /\ PinnedSession(d)' /\ NoSession(d)'
  BY DEF Same, ClientInv, OpenSession, EnteringSession, PinnedSession, NoSession,
         Holds, ExitComes
<1>3. InvalidationTracked(d)'
  BY DEF Same, ClientInv, InvalidationTracked, ExitComes
<1>4. QED
  BY <1>1, <1>2, <1>3 DEF ClientInv

LEMMA OneClient ==
  ASSUME IInv, NEW c \in Clients,
         UNCHANGED <<historyLen, epoch, resizeWatermark>>,
         \A d \in Clients : d # c => Same(d),
         TypeOK', QueuesTyped', BasesSound(c)',
         pins'[c] # NoBase => pins'[c].epoch = epoch,
         IF c \in connected' THEN ClientInv(c)' ELSE session'[c] = "none"
  PROVE  IInv'
<1>1. ASSUME NEW d \in Clients, d # c
      PROVE  BasesSound(d)'
  BY <1>1 DEF IInv, BasesSound, Sound, Same
<1>2. ASSUME NEW d \in Clients, d # c, d \in connected'
      PROVE  ClientInv(d)'
  BY <1>2, Untouched DEF IInv, Same
<1>3. ASSUME NEW d \in Clients, d # c, d \notin connected'
      PROVE  session'[d] = "none"
  BY <1>3 DEF IInv, Same
<1>4. PinsAreCurrent'
  BY DEF IInv, PinsAreCurrent, Same
<1>5. QED
  BY <1>1, <1>2, <1>3, <1>4 DEF IInv

-----------------------------------------------------------------------------
\* The daemon's steps for one client.

LEMMA HandleEnterKeeps ==
  ASSUME IInv, NEW c \in Clients, HandleEnter(c)
  PROVE  IInv'
<1>1. PICK e \in Frames : e = toDaemon[c][1] /\ e = Head(toDaemon[c]) /\ e.type = "Enter"
  BY FrameHandled DEF IInv, HandleEnter, Received
<1>2. /\ toDaemon' \in [Clients -> Seq(Frames)]
      /\ \A d \in Clients : d # c => toDaemon'[d] = toDaemon[d]
      /\ Popped(toDaemon[c], toDaemon'[c])
      /\ 1 \in DOMAIN toDaemon[c]
  BY FrameHandled DEF IInv, HandleEnter, Received
<1>3. e.serial \in Serials /\ e.base \in Bases
  BY <1>1, FrameFields
<1>4. PICK m \in Messages :
        /\ Push(c, m)
        /\ m.serial = e.serial
        /\ IF InRange(e.base)
           THEN /\ m.type = "Ack" /\ m.base = e.base
                /\ pins' = [pins EXCEPT ![c] = e.base]
                /\ invalidations' = [invalidations EXCEPT ![c] = "none"]
           ELSE m.type = "EnterRefused" /\ UNCHANGED <<pins, invalidations>>
  <2>1. CASE InRange(e.base)
    <3>1. [type |-> "Ack", serial |-> e.serial, base |-> e.base] \in Messages
      BY <1>3 DEF Messages
    <3>2. QED
      BY <1>1, <2>1, <3>1 DEF HandleEnter
  <2>2. CASE ~ InRange(e.base)
    <3>1. [type |-> "EnterRefused", serial |-> e.serial] \in Messages
      BY <1>3 DEF Messages
    <3>2. QED
      BY <1>1, <2>2, <3>1 DEF HandleEnter
  <2>3. QED
    BY <2>1, <2>2
<1>5. /\ toClient' \in [Clients -> Seq(Messages)]
      /\ \A d \in Clients : d # c => toClient'[d] = toClient[d]
      /\ Grown(toClient[c], m, toClient'[c])
  BY <1>4, MessagePushed DEF IInv
<1>6. UNCHANGED <<historyLen, epoch, resizeWatermark, wake, connected, clientVars>>
  BY DEF HandleEnter
<1>7. TypeOK /\ QueuesTyped /\ BasesSound(c)
  BY DEF IInv
<1>8. /\ pins' \in [Clients -> Bases \cup {NoBase}]
      /\ invalidations' \in [Clients -> Entries]
      /\ \A d \in Clients : d # c => pins'[d] = pins[d] /\ invalidations'[d] = invalidations[d]
      /\ \/ pins'[c] = e.base /\ invalidations'[c] = "none" /\ InRange(e.base)
         \/ pins'[c] = pins[c] /\ invalidations'[c] = invalidations[c]
  BY <1>3, <1>4, <1>7 DEF TypeOK, Entries
<1>9. TypeOK' /\ QueuesTyped'
  BY <1>2, <1>5, <1>6, <1>7, <1>8
     DEF TypeOK, QueuesTyped, clientVars, sessionVars
<1>10. ASSUME NEW d \in Clients, d # c PROVE Same(d)
  BY <1>2, <1>5, <1>6, <1>8, <1>10 DEF Same, clientVars, sessionVars
<1>11. BasesSound(c)'
  <2>1. \A i \in DOMAIN toDaemon'[c] :
          toDaemon'[c][i].type = "Enter" => Sound(toDaemon'[c][i].base)
    BY <1>2, <1>7 DEF Popped, BasesSound
  <2>2. \A i \in DOMAIN toClient'[c] :
          toClient'[c][i].type = "Update" => Sound(toClient'[c][i].base)
    BY <1>4, <1>5, <1>7 DEF Grown, BasesSound
  <2>3. painted[c] # NoBase => Sound(painted[c])
    BY <1>7 DEF BasesSound
  <2>4. QED
    BY <1>6, <2>1, <2>2, <2>3 DEF BasesSound, Sound, clientVars
<1>12. pins'[c] # NoBase => pins'[c].epoch = epoch
  <2>1. Sound(e.base)
    BY <1>1, <1>2, <1>7 DEF BasesSound
  <2>2. InRange(e.base) => e.base.epoch = epoch
    BY <2>1 DEF InRange, Sound
  <2>3. QED
    BY <1>8, <2>2 DEF IInv, PinsAreCurrent
<1>13. ASSUME c \in connected' PROVE ClientInv(c)'
  <2>1. ClientInv(c) /\ serial'[c] = serial[c] /\ pendingEnter'[c] = pendingEnter[c]
        /\ session'[c] = session[c] /\ pinnedBase'[c] = pinnedBase[c] /\ wake'[c] = wake[c]
    BY <1>6, <1>13 DEF IInv, clientVars, sessionVars
  <2>2. PICK n \in Nat : n = serial[c]
    BY <1>7 DEF TypeOK
  <2>3. PICK q : q = toDaemon[c]
    OBVIOUS
  <2>4. e.serial <= n
    BY <1>1, <1>2, <2>1, <2>2 DEF ClientInv, SerialsKnown
  <2>5. SerialsKnown(c)'
    BY <1>2, <1>4, <1>5, <2>1, <2>2, <2>4 DEF ClientInv, SerialsKnown, Popped, Grown
  <2>6. InvalidationTracked(c)'
    <3>1. invalidations'[c] = "queued" => wake'[c]
      BY <1>8, <2>1 DEF ClientInv, InvalidationTracked
    <3>2. ExitComes(c) => ExitComes(c)'
      BY <1>1, <1>2 DEF ExitComes, Popped
    <3>3. \A i \in DOMAIN toClient[c] : i \in DOMAIN toClient'[c] /\ toClient'[c][i] = toClient[c][i]
      BY <1>5 DEF Grown
    <3>4. QED
      BY <1>8, <2>1, <3>1, <3>2, <3>3 DEF ClientInv, InvalidationTracked
  <2>7. /\ EntersOnce(q, n) /\ AnswersOnce(toClient[c], n)
        /\ pendingEnter[c] \in {0, n} /\ (pendingEnter[c] # 0 <=> HasEnter(q, n) \/ HasAnswer(toClient[c], n))
        /\ ~ (HasEnter(q, n) /\ HasAnswer(toClient[c], n))
        /\ \A i \in DOMAIN q : q[i].type = "Enter" /\ q[i].serial # n => EnterFollows(q, i, n)
        /\ session[c] # "none" => \A i \in DOMAIN q : q[i].type = "Exit" => EnterFollows(q, i, n)
    BY <2>1, <2>2, <2>3 DEF ClientInv, EntryTracked, OpenSession, Asked, Answered
  <2>8. HasEnter(q, n)
    <3>1. e.serial = n => IsEnter(q[1], n)
      BY <1>1, <2>3 DEF IsEnter
    <3>2. e.serial # n => EnterFollows(q, 1, n)
      BY <1>1, <1>2, <2>3, <2>7
    <3>3. QED
      BY <3>1, <3>2, <1>2, <2>3 DEF HasEnter, EnterFollows
  <2>9. ~ HasAnswer(toClient[c], n) /\ pendingEnter[c] # 0 /\ pendingEnter[c] = n
    BY <2>7, <2>8
  <2>10. (HasAnswer(toClient'[c], n) <=> e.serial = n) /\ AnswersOnce(toClient'[c], n)
    <3>1. IsAnswer(m, n) <=> e.serial = n
      BY <1>4 DEF IsAnswer
    <3>2. QED
      BY <3>1, <1>5, <2>7, <2>9, GrownMessages
  <2>11. (HasEnter(toDaemon'[c], n) <=> e.serial # n) /\ EntersOnce(toDaemon'[c], n)
    <3>1. IsEnter(q[1], n) <=> e.serial = n
      BY <1>1, <2>3 DEF IsEnter
    <3>2. e.serial = n => ~ HasEnter(toDaemon'[c], n)
      BY <3>1, <1>2, <2>3, <2>7, PoppedEnter
    <3>3. QED
      BY <3>1, <3>2, <1>2, <2>3, <2>7, <2>8, PoppedFrames
  <2>12. ASSUME NEW i \in DOMAIN toDaemon'[c], EnterFollows(q, i + 1, n)
         PROVE  EnterFollows(toDaemon'[c], i, n)
    BY <1>2, <2>3, <2>12, PoppedFrames
  <2>13. \A i \in DOMAIN toDaemon'[c] : i + 1 \in DOMAIN q /\ toDaemon'[c][i] = q[i + 1]
    BY <1>2, <2>3 DEF Popped
  <2>14. EntryTracked(c)'
    BY <2>1, <2>2, <2>7, <2>8, <2>9, <2>10, <2>11, <2>12, <2>13 DEF EntryTracked, Asked, Answered
  <2>15. OpenSession(c)'
    BY <2>1, <2>2, <2>7, <2>12, <2>13 DEF OpenSession
  <2>16. EnteringSession(c)'
    <3> SUFFICES ASSUME session[c] = "entering" PROVE EnteringSession(c)'
      BY <2>1 DEF EnteringSession
    <3>1. \A i \in DOMAIN toDaemon'[c] :
            toDaemon'[c][i].type = "Fill" => toDaemon'[c][i].serial # n
      BY <2>1, <2>2, <2>3, <2>13 DEF ClientInv, EnteringSession
    <3>2. m.type # "Data" /\ (m.type = "Ack" => pins'[c] = m.base)
      <4>1. pins \in [Clients -> Bases \cup {NoBase}]
        BY <1>7 DEF TypeOK
      <4>2. CASE InRange(e.base)
        BY <1>4, <4>1, <4>2
      <4>3. CASE ~ InRange(e.base)
        BY <1>4, <4>3
      <4>4. QED
        BY <4>2, <4>3
    <3>3. ASSUME NEW i \in DOMAIN toClient'[c]
          PROVE  /\ toClient'[c][i].type = "Data" => toClient'[c][i].serial # n
                 /\ toClient'[c][i].type = "Ack" /\ toClient'[c][i].serial = n
                      => pins'[c] = toClient'[c][i].base
      <4>1. CASE toClient'[c][i] = m
        BY <3>2, <4>1
      <4>2. CASE i \in DOMAIN toClient[c] /\ toClient'[c][i] = toClient[c][i]
        BY <4>2, <2>1, <2>2, <2>9 DEF ClientInv, EnteringSession, HasAnswer, IsAnswer
      <4>3. QED
        BY <4>1, <4>2, <1>5 DEF Grown
    <3>4. QED
      BY <2>1, <2>2, <2>9, <3>1, <3>3 DEF EnteringSession, Holds
  <2>17. PinnedSession(c)' /\ NoSession(c)'
    BY <2>1, <2>9 DEF ClientInv, PinnedSession, NoSession
  <2>18. QED
    BY <2>5, <2>6, <2>14, <2>15, <2>16, <2>17 DEF ClientInv
<1>14. ASSUME c \notin connected' PROVE session'[c] = "none"
  BY <1>6, <1>14 DEF IInv, clientVars, sessionVars
<1>15. QED
  BY <1>6, <1>9, <1>10, <1>11, <1>12, <1>13, <1>14, OneClient

-----------------------------------------------------------------------------
\* What the queues' growing and shrinking leaves of a client's part of the
\* invariant, when the frame or message is about no entry.
SameAnswers(c) ==
    /\ HasAnswer(toClient'[c], serial[c]) <=> HasAnswer(toClient[c], serial[c])
    /\ AnswersOnce(toClient[c], serial[c]) => AnswersOnce(toClient'[c], serial[c])

LEMMA AnswersPushed ==
  ASSUME NEW c \in Clients, NEW m, Grown(toClient[c], m, toClient'[c]),
         m.type \notin {"Ack", "EnterRefused"}
  PROVE  SameAnswers(c)
<1>1. ~ IsAnswer(m, serial[c])
  BY DEF IsAnswer
<1>2. QED
  BY <1>1, GrownMessages DEF SameAnswers

LEMMA AnswersConsumed ==
  ASSUME NEW c \in Clients, Popped(toClient[c], toClient'[c]),
         \/ toClient[c][1].type \notin {"Ack", "EnterRefused"}
         \/ toClient[c][1].serial # serial[c]
  PROVE  SameAnswers(c)
<1>1. ~ IsAnswer(toClient[c][1], serial[c])
  BY DEF IsAnswer
<1>2. QED
  BY <1>1, PoppedMessages DEF SameAnswers

LEMMA FrameHandledKeeps ==
  ASSUME NEW c \in Clients, EntryTracked(c), OpenSession(c),
         Popped(toDaemon[c], toDaemon'[c]), toDaemon[c][1].type # "Enter",
         serial'[c] = serial[c], pendingEnter'[c] = pendingEnter[c],
         session'[c] = session[c], SameAnswers(c)
  PROVE  /\ EntryTracked(c)' /\ OpenSession(c)'
         /\ ExitComes(c) /\ toDaemon[c][1].type # "Exit" => ExitComes(c)'
<1>1. PICK n : n = serial[c]
  OBVIOUS
<1>2. /\ HasEnter(toDaemon'[c], n) <=> HasEnter(toDaemon[c], n)
      /\ EntersOnce(toDaemon'[c], n)
  <2>1. ~ IsEnter(toDaemon[c][1], n)
    BY DEF IsEnter
  <2>2. EntersOnce(toDaemon[c], n)
    BY <1>1 DEF EntryTracked
  <2>3. QED
    BY <2>1, <2>2, PoppedFrames
<1>3. \A i \in DOMAIN toDaemon'[c] :
        /\ i + 1 \in DOMAIN toDaemon[c] /\ toDaemon'[c][i] = toDaemon[c][i + 1]
        /\ EnterFollows(toDaemon[c], i + 1, n) => EnterFollows(toDaemon'[c], i, n)
  BY PoppedFrames DEF Popped
<1>4. EntryTracked(c)'
  BY <1>1, <1>2, <1>3 DEF EntryTracked, Asked, Answered, SameAnswers
<1>5. OpenSession(c)'
  BY <1>1, <1>3 DEF OpenSession
<1>6. ExitComes(c) /\ toDaemon[c][1].type # "Exit" => ExitComes(c)'
  BY DEF ExitComes, Popped
<1>7. QED
  BY <1>4, <1>5, <1>6

LEMMA FrameSentKeeps ==
  ASSUME NEW c \in Clients, NEW m, EntryTracked(c),
         Grown(toDaemon[c], m, toDaemon'[c]), m.type # "Enter",
         serial'[c] = serial[c], pendingEnter'[c] = pendingEnter[c], SameAnswers(c)
  PROVE  /\ EntryTracked(c)'
         /\ ExitComes(c) => ExitComes(c)'
         /\ m.type = "Exit" => ExitComes(c)'
<1>1. PICK n : n = serial[c]
  OBVIOUS
<1>2. /\ HasEnter(toDaemon'[c], n) <=> HasEnter(toDaemon[c], n)
      /\ EntersOnce(toDaemon'[c], n)
  <2>1. ~ IsEnter(m, n)
    BY DEF IsEnter
  <2>2. EntersOnce(toDaemon[c], n)
    BY <1>1 DEF EntryTracked
  <2>3. QED
    BY <2>1, <2>2, GrownFrames
<1>3. \A i \in DOMAIN toDaemon'[c] :
        \/ toDaemon'[c][i] = m
        \/ /\ i \in DOMAIN toDaemon[c] /\ toDaemon'[c][i] = toDaemon[c][i]
           /\ EnterFollows(toDaemon[c], i, n) => EnterFollows(toDaemon'[c], i, n)
  <2>1. \A i \in DOMAIN toDaemon[c] :
          EnterFollows(toDaemon[c], i, n) => EnterFollows(toDaemon'[c], i, n)
    BY GrownFrames
  <2>2. \A i \in DOMAIN toDaemon'[c] : 
          toDaemon'[c][i] # m => i \in DOMAIN toDaemon[c] /\ toDaemon'[c][i] = toDaemon[c][i]
    BY DEF Grown
  <2>3. QED
    BY <2>1, <2>2
<1>4. EntryTracked(c)'
  BY <1>1, <1>2, <1>3 DEF EntryTracked, Asked, Answered, SameAnswers
<1>5. ExitComes(c) => ExitComes(c)'
  BY DEF ExitComes, Grown
<1>6. m.type = "Exit" => ExitComes(c)'
  BY DEF ExitComes, Grown
<1>7. QED
  BY <1>4, <1>5, <1>6

LEMMA NoFrameKeeps ==
  ASSUME NEW c \in Clients, EntryTracked(c), toDaemon'[c] = toDaemon[c],
         serial'[c] = serial[c], pendingEnter'[c] = pendingEnter[c], SameAnswers(c)
  PROVE  EntryTracked(c)'
BY DEF EntryTracked, Asked, Answered, SameAnswers

-----------------------------------------------------------------------------
LEMMA HandleExitKeeps ==
  ASSUME IInv, NEW c \in Clients, HandleExit(c)
  PROVE  IInv'
<1>1. /\ toDaemon' \in [Clients -> Seq(Frames)]
      /\ \A d \in Clients : d # c => toDaemon'[d] = toDaemon[d]
      /\ Popped(toDaemon[c], toDaemon'[c])
      /\ 1 \in DOMAIN toDaemon[c] /\ toDaemon[c][1].type = "Exit"
  BY FrameHandled DEF IInv, HandleExit, Received
<1>2. UNCHANGED <<historyLen, epoch, resizeWatermark, wake, toClient, connected, clientVars>>
  BY DEF HandleExit
<1>3. TypeOK /\ QueuesTyped /\ BasesSound(c)
  BY DEF IInv
<1>4. /\ pins' \in [Clients -> Bases \cup {NoBase}]
      /\ invalidations' \in [Clients -> Entries]
      /\ \A d \in Clients : d # c => pins'[d] = pins[d] /\ invalidations'[d] = invalidations[d]
      /\ pins'[c] = NoBase /\ invalidations'[c] = "none"
  BY <1>3 DEF HandleExit, Unpin, TypeOK, Entries
<1>5. TypeOK' /\ QueuesTyped'
  BY <1>1, <1>2, <1>3, <1>4 DEF TypeOK, QueuesTyped, clientVars, sessionVars
<1>6. ASSUME NEW d \in Clients, d # c PROVE Same(d)
  BY <1>1, <1>2, <1>4, <1>6 DEF Same, clientVars, sessionVars
<1>7. BasesSound(c)'
  BY <1>1, <1>2, <1>3 DEF BasesSound, Popped, Sound, clientVars
<1>8. ASSUME c \in connected' PROVE ClientInv(c)'
  <2>1. /\ ClientInv(c) /\ serial'[c] = serial[c] /\ pendingEnter'[c] = pendingEnter[c]
        /\ session'[c] = session[c] /\ toClient'[c] = toClient[c]
    BY <1>2, <1>8 DEF IInv, clientVars, sessionVars
  <2>2. SameAnswers(c)
    BY <2>1 DEF SameAnswers
  <2>3. EntryTracked(c)' /\ OpenSession(c)'
    BY <1>1, <2>1, <2>2, FrameHandledKeeps DEF ClientInv
  <2>4. SerialsKnown(c)'
    BY <1>1, <2>1 DEF ClientInv, SerialsKnown, Popped
  <2>5. session[c] # "none" => pendingEnter[c] # 0 /\ ~ Answered(c)
    <3>1. session[c] # "none" => EnterFollows(toDaemon[c], 1, serial[c])
      BY <1>1, <2>1 DEF ClientInv, OpenSession
    <3>2. session[c] # "none" => Asked(c)
      BY <3>1 DEF Asked, HasEnter, EnterFollows
    <3>3. QED
      BY <2>1, <3>2 DEF ClientInv, EntryTracked
  <2>6. EnteringSession(c)'
    BY <1>1, <2>1, <2>5
       DEF ClientInv, EnteringSession, Answered, HasAnswer, IsAnswer, Popped
  <2>7. PinnedSession(c)' /\ NoSession(c)' /\ InvalidationTracked(c)'
    BY <1>4, <2>1, <2>5 DEF ClientInv, PinnedSession, NoSession, InvalidationTracked
  <2>8. QED
    BY <2>3, <2>4, <2>6, <2>7 DEF ClientInv
<1>9. ASSUME c \notin connected' PROVE session'[c] = "none"
  BY <1>2, <1>9 DEF IInv, clientVars, sessionVars
<1>10. QED
  BY <1>2, <1>4, <1>5, <1>6, <1>7, <1>8, <1>9, OneClient

LEMMA HandleFillKeeps ==
  ASSUME IInv, NEW c \in Clients, HandleFill(c)
  PROVE  IInv'
<1>1. PICK f \in Frames : f = toDaemon[c][1] /\ f = Head(toDaemon[c]) /\ f.type = "Fill"
  BY FrameHandled DEF IInv, HandleFill, Received
<1>2. /\ toDaemon' \in [Clients -> Seq(Frames)]
      /\ \A d \in Clients : d # c => toDaemon'[d] = toDaemon[d]
      /\ Popped(toDaemon[c], toDaemon'[c])
      /\ 1 \in DOMAIN toDaemon[c] /\ toDaemon[c][1].type = "Fill"
  BY <1>1, FrameHandled DEF IInv, HandleFill, Received
<1>3. f.serial \in Serials
  BY <1>1, FrameFields
<1>4. TypeOK /\ QueuesTyped /\ BasesSound(c)
  BY DEF IInv
<1>5. CopyModeBase(c) \in Bases
  BY <1>4 DEF CopyModeBase, Published, Bases, TypeOK
<1>6. PICK m \in Messages :
        /\ Push(c, m)
        /\ m.serial = f.serial
        /\ m.type \in {"FillRefused", "Data"}
        /\ m.type = "Data" => ~ Refused(c) /\ m.base = CopyModeBase(c)
  <2>1. CASE Refused(c)
    <3>1. [type |-> "FillRefused", serial |-> f.serial] \in Messages
      BY <1>3 DEF Messages
    <3>2. QED
      BY <1>1, <2>1, <3>1 DEF HandleFill
  <2>2. CASE ~ Refused(c)
    <3>1. [type |-> "Data", serial |-> f.serial, base |-> CopyModeBase(c)] \in Messages
      BY <1>3, <1>5 DEF Messages
    <3>2. QED
      BY <1>1, <2>2, <3>1 DEF HandleFill
  <2>3. QED
    BY <2>1, <2>2
<1>7. /\ toClient' \in [Clients -> Seq(Messages)]
      /\ \A d \in Clients : d # c => toClient'[d] = toClient[d]
      /\ Grown(toClient[c], m, toClient'[c])
  BY <1>6, MessagePushed DEF IInv
<1>8. UNCHANGED <<paneVars, wake, connected, clientVars>>
  BY DEF HandleFill
<1>9. TypeOK' /\ QueuesTyped'
  BY <1>2, <1>4, <1>7, <1>8
     DEF TypeOK, QueuesTyped, paneVars, clientVars, sessionVars
<1>10. ASSUME NEW d \in Clients, d # c PROVE Same(d)
  BY <1>2, <1>7, <1>8, <1>10 DEF Same, paneVars, clientVars, sessionVars
<1>11. BasesSound(c)'
  <2>1. \A i \in DOMAIN toDaemon'[c] :
          toDaemon'[c][i].type = "Enter" => Sound(toDaemon'[c][i].base)
    BY <1>2, <1>4 DEF Popped, BasesSound
  <2>2. \A i \in DOMAIN toClient'[c] :
          toClient'[c][i].type = "Update" => Sound(toClient'[c][i].base)
    BY <1>4, <1>6, <1>7 DEF Grown, BasesSound
  <2>3. painted[c] # NoBase => Sound(painted[c])
    BY <1>4 DEF BasesSound
  <2>4. QED
    BY <1>8, <2>1, <2>2, <2>3 DEF BasesSound, Sound, clientVars, paneVars
<1>12. pins'[c] # NoBase => pins'[c].epoch = epoch
  BY <1>8 DEF IInv, PinsAreCurrent, paneVars
<1>13. ASSUME c \in connected' PROVE ClientInv(c)'
  <2>1. /\ ClientInv(c) /\ serial'[c] = serial[c] /\ pendingEnter'[c] = pendingEnter[c]
        /\ session'[c] = session[c] /\ pinnedBase'[c] = pinnedBase[c] /\ wake'[c] = wake[c]
        /\ pins'[c] = pins[c] /\ invalidations'[c] = invalidations[c]
    BY <1>8, <1>13 DEF IInv, paneVars, clientVars, sessionVars
  <2>2. SameAnswers(c)
    BY <1>6, <1>7, AnswersPushed
  <2>3. /\ EntryTracked(c)' /\ OpenSession(c)'
        /\ ExitComes(c) => ExitComes(c)'
    BY <1>2, <2>1, <2>2, FrameHandledKeeps DEF ClientInv
  <2>4. SerialsKnown(c)'
    <3>1. \A i \in DOMAIN toDaemon'[c] :
            toDaemon'[c][i].type \in {"Enter", "Fill"} => toDaemon'[c][i].serial <= serial'[c]
      BY <1>2, <2>1 DEF ClientInv, SerialsKnown, Popped
    <3>2. m.serial <= serial[c]
      BY <1>1, <1>2, <1>6, <2>1 DEF ClientInv, SerialsKnown
    <3>3. \A i \in DOMAIN toClient'[c] :
            toClient'[c][i].type \in {"Ack", "EnterRefused", "Data", "FillRefused"}
              => toClient'[c][i].serial <= serial'[c]
      BY <1>7, <2>1, <3>2 DEF ClientInv, SerialsKnown, Grown
    <3>4. QED
      BY <3>1, <3>3 DEF SerialsKnown
  <2>5. \A i \in DOMAIN toClient'[c] :
          \/ toClient'[c][i] = m
          \/ i \in DOMAIN toClient[c] /\ toClient'[c][i] = toClient[c][i]
    BY <1>7 DEF Grown
  <2>6. EnteringSession(c)'
    <3> SUFFICES ASSUME session[c] = "entering" PROVE EnteringSession(c)'
      BY <2>1 DEF EnteringSession
    <3>1. f.serial # serial[c] /\ EnteringSession(c)
      BY <1>1, <1>2, <2>1 DEF ClientInv, EnteringSession
    <3>2. \A i \in DOMAIN toDaemon'[c] :
            toDaemon'[c][i].type = "Fill" => toDaemon'[c][i].serial # serial[c]
      BY <1>2, <3>1 DEF EnteringSession, Popped
    <3>3. \A i \in DOMAIN toClient'[c] :
            /\ toClient'[c][i].type = "Data" => toClient'[c][i].serial # serial[c]
            /\ toClient'[c][i].type = "Ack" /\ toClient'[c][i].serial = serial[c]
                 => Holds(c, toClient'[c][i].base)
      BY <1>6, <2>5, <3>1 DEF EnteringSession
    <3>4. QED
      BY <2>1, <3>1, <3>2, <3>3 DEF EnteringSession, Holds
  <2>7. PinnedSession(c)'
    <3> SUFFICES ASSUME session[c] = "pinned" PROVE PinnedSession(c)'
      BY <2>1 DEF PinnedSession
    <3>1. PinnedSession(c) /\ pinnedBase[c] \in Bases /\ Holds(c, pinnedBase[c])
      BY <2>1 DEF ClientInv, PinnedSession
    <3>2. m.type = "Data" => m.base = pinnedBase[c]
      BY <1>6, <3>1, NoBaseAssumption DEF Holds, Refused, CopyModeBase
    <3>3. \A i \in DOMAIN toClient'[c] :
            toClient'[c][i].type = "Data" /\ toClient'[c][i].serial = serial[c]
              => toClient'[c][i].base = pinnedBase[c]
      BY <2>5, <3>1, <3>2 DEF PinnedSession
    <3>4. QED
      BY <2>1, <3>1, <3>3 DEF PinnedSession, Holds
  <2>8. NoSession(c)'
    BY <2>1, <2>3 DEF ClientInv, NoSession
  <2>9. InvalidationTracked(c)'
    BY <1>7, <2>1, <2>3 DEF ClientInv, InvalidationTracked, Grown
  <2>10. QED
    BY <2>3, <2>4, <2>6, <2>7, <2>8, <2>9 DEF ClientInv
<1>14. ASSUME c \notin connected' PROVE session'[c] = "none"
  BY <1>8, <1>14 DEF IInv, clientVars, sessionVars
<1>15. QED
  BY <1>8, <1>9, <1>10, <1>11, <1>12, <1>13, <1>14, OneClient DEF paneVars

LEMMA NotifyClientKeeps ==
  ASSUME IInv, NEW c \in Clients, NotifyClient(c)
  PROVE  IInv'
<1>1. UNCHANGED <<historyLen, epoch, resizeWatermark, pins, toDaemon, connected, clientVars>>
  BY DEF NotifyClient
<1>2. TypeOK /\ QueuesTyped /\ BasesSound(c) /\ ClientInv(c)
  BY DEF IInv, NotifyClient
<1>3. wake' = [wake EXCEPT ![c] = FALSE]
  BY DEF NotifyClient
<1>4. CASE invalidations[c] = "queued"
  <2>1. PICK m \in Messages : m.type = "Invalidated" /\ Push(c, m)
    <3>1. [type |-> "Invalidated"] \in Messages
      BY DEF Messages
    <3>2. QED
      BY <1>4, <3>1 DEF NotifyClient
  <2>2. /\ toClient' \in [Clients -> Seq(Messages)]
        /\ \A d \in Clients : d # c => toClient'[d] = toClient[d]
        /\ Grown(toClient[c], m, toClient'[c])
    BY <1>2, <2>1, MessagePushed
  <2>3. invalidations' = [invalidations EXCEPT ![c] = "sent"]
    BY <1>4 DEF NotifyClient
  <2>4. TypeOK' /\ QueuesTyped'
    <3>1. pins[c] = NoBase
      BY <1>2, <1>4 DEF TypeOK
    <3>2. QED
      BY <1>1, <1>2, <1>3, <2>2, <2>3, <3>1
         DEF TypeOK, QueuesTyped, Entries, clientVars, sessionVars
  <2>5. ASSUME NEW d \in Clients, d # c PROVE Same(d)
    BY <1>1, <1>2, <1>3, <2>2, <2>3, <2>5 DEF Same, TypeOK, clientVars, sessionVars
  <2>6. \A i \in DOMAIN toClient'[c] :
          \/ toClient'[c][i] = m
          \/ i \in DOMAIN toClient[c] /\ toClient'[c][i] = toClient[c][i]
    BY <2>2 DEF Grown
  <2>7. BasesSound(c)'
    BY <1>1, <1>2, <2>1, <2>6 DEF BasesSound, Sound, clientVars
  <2>8. pins'[c] # NoBase => pins'[c].epoch = epoch
    BY <1>1 DEF IInv, PinsAreCurrent
  <2>9. ClientInv(c)'
    <3>1. /\ serial'[c] = serial[c] /\ pendingEnter'[c] = pendingEnter[c]
          /\ session'[c] = session[c] /\ pinnedBase'[c] = pinnedBase[c]
          /\ pins'[c] = pins[c] /\ toDaemon'[c] = toDaemon[c]
          /\ invalidations'[c] = "sent"
      BY <1>1, <1>2, <2>3 DEF TypeOK, clientVars, sessionVars
    <3>2. EntryTracked(c)'
      BY <1>2, <2>1, <2>2, <3>1, AnswersPushed, NoFrameKeeps DEF ClientInv
    <3>3. SerialsKnown(c)'
      BY <1>2, <2>1, <2>6, <3>1 DEF ClientInv, SerialsKnown
    <3>4. OpenSession(c)' /\ NoSession(c)'
      BY <1>2, <3>1 DEF ClientInv, OpenSession, NoSession, ExitComes
    <3>5. EnteringSession(c)' /\ PinnedSession(c)'
      BY <1>2, <2>1, <2>6, <3>1 DEF ClientInv, EnteringSession, PinnedSession, Holds
    <3>6. InvalidationTracked(c)'
      <4>1. \E i \in DOMAIN toClient'[c] : toClient'[c][i].type = "Invalidated"
        BY <2>1, <2>2 DEF Grown
      <4>2. QED
        BY <3>1, <4>1 DEF InvalidationTracked
    <3>7. QED
      BY <3>2, <3>3, <3>4, <3>5, <3>6 DEF ClientInv
  <2>10. QED
    BY <1>1, <2>4, <2>5, <2>7, <2>8, <2>9, OneClient DEF NotifyClient
<1>5. CASE invalidations[c] # "queued"
  <2>1. UNCHANGED <<invalidations, toClient>>
    BY <1>5 DEF NotifyClient
  <2>2. TypeOK' /\ QueuesTyped'
    BY <1>1, <1>2, <1>3, <2>1 DEF TypeOK, QueuesTyped, clientVars, sessionVars
  <2>3. ASSUME NEW d \in Clients, d # c PROVE Same(d)
    BY <1>1, <1>2, <1>3, <2>1, <2>3 DEF Same, TypeOK, clientVars, sessionVars
  <2>4. BasesSound(c)'
    BY <1>1, <1>2, <2>1 DEF BasesSound, Sound, clientVars
  <2>5. pins'[c] # NoBase => pins'[c].epoch = epoch
    BY <1>1 DEF IInv, PinsAreCurrent
  <2>6. ClientInv(c)'
    <3>1. SerialsKnown(c)' /\ EntryTracked(c)' /\ OpenSession(c)'
      BY <1>1, <1>2, <2>1
         DEF ClientInv, SerialsKnown, EntryTracked, OpenSession, Asked, Answered,
             clientVars, sessionVars
    <3>2. EnteringSession(c)' /\ PinnedSession(c)' /\ NoSession(c)'
      BY <1>1, <1>2, <2>1
         DEF ClientInv, EnteringSession, PinnedSession, NoSession, Holds,
             ExitComes, clientVars, sessionVars
    <3>3. InvalidationTracked(c)'
      BY <1>1, <1>2, <1>5, <2>1 DEF ClientInv, InvalidationTracked, ExitComes
    <3>4. QED
      BY <3>1, <3>2, <3>3 DEF ClientInv
  <2>7. QED
    BY <1>1, <2>2, <2>3, <2>4, <2>5, <2>6, OneClient DEF NotifyClient
<1>6. QED
  BY <1>4, <1>5

LEMMA PublishedSound == TypeOK /\ QueuesTyped => Published \in Bases /\ Sound(Published)
BY DEF TypeOK, QueuesTyped, Published, Bases, Sound

LEMMA PublishBaseKeeps ==
  ASSUME IInv, NEW c \in Clients, PublishBase(c)
  PROVE  IInv'
<1>1. UNCHANGED <<paneVars, wake, toDaemon, connected, clientVars>>
  BY DEF PublishBase
<1>2. TypeOK /\ QueuesTyped /\ BasesSound(c) /\ ClientInv(c)
  BY DEF IInv, PublishBase
<1>3. PICK m \in Messages : m.type = "Update" /\ Sound(m.base) /\ Push(c, m)
  <2>1. [type |-> "Update", base |-> Published] \in Messages
    BY <1>2, PublishedSound DEF Messages
  <2>2. QED
    BY <1>2, <2>1, PublishedSound DEF PublishBase
<1>4. /\ toClient' \in [Clients -> Seq(Messages)]
      /\ \A d \in Clients : d # c => toClient'[d] = toClient[d]
      /\ Grown(toClient[c], m, toClient'[c])
  BY <1>2, <1>3, MessagePushed
<1>5. TypeOK' /\ QueuesTyped'
  BY <1>1, <1>2, <1>4 DEF TypeOK, QueuesTyped, paneVars, clientVars, sessionVars
<1>6. ASSUME NEW d \in Clients, d # c PROVE Same(d)
  BY <1>1, <1>4, <1>6 DEF Same, paneVars, clientVars, sessionVars
<1>7. \A i \in DOMAIN toClient'[c] :
        \/ toClient'[c][i] = m
        \/ i \in DOMAIN toClient[c] /\ toClient'[c][i] = toClient[c][i]
  BY <1>4 DEF Grown
<1>8. BasesSound(c)'
  BY <1>1, <1>2, <1>3, <1>7 DEF BasesSound, Sound, paneVars, clientVars
<1>9. pins'[c] # NoBase => pins'[c].epoch = epoch
  BY <1>1 DEF IInv, PinsAreCurrent, paneVars
<1>10. ClientInv(c)'
  <2>1. /\ serial'[c] = serial[c] /\ pendingEnter'[c] = pendingEnter[c]
        /\ session'[c] = session[c] /\ pinnedBase'[c] = pinnedBase[c]
        /\ pins'[c] = pins[c] /\ toDaemon'[c] = toDaemon[c]
        /\ invalidations'[c] = invalidations[c] /\ wake'[c] = wake[c]
    BY <1>1 DEF paneVars, clientVars, sessionVars
  <2>2. EntryTracked(c)'
    BY <1>2, <1>3, <1>4, <2>1, AnswersPushed, NoFrameKeeps DEF ClientInv
  <2>3. SerialsKnown(c)'
    BY <1>2, <1>3, <1>7, <2>1 DEF ClientInv, SerialsKnown
  <2>4. OpenSession(c)' /\ NoSession(c)'
    BY <1>2, <2>1 DEF ClientInv, OpenSession, NoSession, ExitComes
  <2>5. EnteringSession(c)' /\ PinnedSession(c)'
    BY <1>2, <1>3, <1>7, <2>1 DEF ClientInv, EnteringSession, PinnedSession, Holds
  <2>6. InvalidationTracked(c)'
    BY <1>2, <1>4, <2>1 DEF ClientInv, InvalidationTracked, ExitComes, Grown
  <2>7. QED
    BY <2>2, <2>3, <2>4, <2>5, <2>6 DEF ClientInv
<1>11. QED
  BY <1>1, <1>5, <1>6, <1>8, <1>9, <1>10, OneClient DEF PublishBase, paneVars

LEMMA ReleaseClientPinsKeeps ==
  ASSUME IInv, NEW c \in Clients, ReleaseClientPins(c)
  PROVE  IInv'
<1>1. /\ UNCHANGED <<historyLen, epoch, resizeWatermark, wake, toClient, connected, clientVars>>
      /\ c \notin connected
      /\ pins' = [pins EXCEPT ![c] = NoBase]
      /\ invalidations' = [invalidations EXCEPT ![c] = "none"]
      /\ toDaemon' = [toDaemon EXCEPT ![c] = <<>>]
  BY DEF ReleaseClientPins, Unpin
<1>2. TypeOK /\ QueuesTyped /\ BasesSound(c) /\ session[c] = "none"
  BY <1>1 DEF IInv
<1>3. <<>> \in Seq(Frames) /\ DOMAIN <<>> = {}
  OBVIOUS
<1>4. TypeOK' /\ QueuesTyped'
  BY <1>1, <1>2, <1>3 DEF TypeOK, QueuesTyped, Entries, clientVars, sessionVars
<1>5. ASSUME NEW d \in Clients, d # c PROVE Same(d)
  BY <1>1, <1>2, <1>5 DEF Same, TypeOK, QueuesTyped, clientVars, sessionVars
<1>6. BasesSound(c)'
  BY <1>1, <1>2, <1>3 DEF BasesSound, QueuesTyped, Sound, clientVars
<1>7. pins'[c] = NoBase /\ session'[c] = "none"
  BY <1>1, <1>2 DEF TypeOK, clientVars, sessionVars
<1>8. QED
  BY <1>1, <1>4, <1>5, <1>6, <1>7, OneClient

-----------------------------------------------------------------------------
\* The client's steps.

LEMMA ExitIsFrame == Exit \in Frames /\ Exit.type = "Exit" /\ Exit.type # "Enter"
BY DEF Exit, Frames

\* A client that is out of copy mode with an exit on its way holds what it
\* has to hold.
LEMMA Left ==
  ASSUME NEW c \in Clients, ClientInv(c), EntryTracked(c)', SerialsKnown(c)',
         ExitComes(c)', session'[c] = "none",
         invalidations'[c] = invalidations[c], wake'[c] = wake[c]
  PROVE  ClientInv(c)'
<1>1. OpenSession(c)' /\ EnteringSession(c)' /\ PinnedSession(c)' /\ NoSession(c)'
  BY DEF OpenSession, EnteringSession, PinnedSession, NoSession
<1>2. InvalidationTracked(c)'
  BY DEF ClientInv, InvalidationTracked
<1>3. QED
  BY <1>1, <1>2 DEF ClientInv

LEMMA EnterCopyModeKeeps ==
  ASSUME IInv, NEW c \in Clients, EnterCopyMode(c)
  PROVE  IInv'
<1>1. UNCHANGED <<paneVars, wake, toClient, connected, painted, userSteps>>
  BY DEF EnterCopyMode
<1>2. TypeOK /\ QueuesTyped /\ BasesSound(c) /\ ClientInv(c)
  BY DEF IInv, EnterCopyMode
<1>3. PICK n \in Nat : n = serial[c] /\ n + 1 <= MaxSessions
  BY <1>2, LimitsAssumption DEF TypeOK, EnterCopyMode
<1>4. /\ serial'[c] = n + 1 /\ pendingEnter'[c] = n + 1
      /\ session'[c] = "entering" /\ pinnedBase'[c] = NoBase
  BY <1>2, <1>3 DEF EnterCopyMode, TypeOK
<1>5. PICK m \in Frames :
        /\ m.type = "Enter" /\ m.serial = n + 1 /\ m.base = painted[c]
        /\ Sends(c, <<m>>)
  <2>1. painted[c] \in Bases /\ n + 1 \in Serials
    BY <1>2, <1>3, LimitsAssumption DEF EnterCopyMode, TypeOK, Serials
  <2>2. [type |-> "Enter", serial |-> n + 1, base |-> painted[c]] \in Frames
    BY <2>1 DEF Frames
  <2>3. QED
    BY <1>3, <2>2 DEF EnterCopyMode
<1>6. /\ toDaemon' \in [Clients -> Seq(Frames)]
      /\ \A d \in Clients : d # c => toDaemon'[d] = toDaemon[d]
      /\ Grown(toDaemon[c], m, toDaemon'[c])
  BY <1>2, <1>5, FrameSent
<1>7. TypeOK' /\ QueuesTyped'
  <2>1. serial' \in [Clients -> 0 .. MaxSessions]
        /\ pendingEnter' \in [Clients -> 0 .. MaxSessions]
    BY <1>2, <1>3, LimitsAssumption DEF EnterCopyMode, TypeOK
  <2>2. /\ session' \in [Clients -> {"none", "entering", "pinned"}]
        /\ pinnedBase' \in [Clients -> Bases \cup {NoBase}]
    BY <1>2 DEF EnterCopyMode, TypeOK
  <2>3. QED
    BY <1>1, <1>2, <1>6, <2>1, <2>2 DEF TypeOK, QueuesTyped, paneVars
<1>8. ASSUME NEW d \in Clients, d # c PROVE Same(d)
  BY <1>1, <1>2, <1>6, <1>8 DEF Same, EnterCopyMode, TypeOK, paneVars
<1>9. \A i \in DOMAIN toDaemon'[c] :
        \/ toDaemon'[c][i] = m
        \/ i \in DOMAIN toDaemon[c] /\ toDaemon'[c][i] = toDaemon[c][i]
  BY <1>6 DEF Grown
<1>10. BasesSound(c)'
  <2>1. Sound(m.base)
    BY <1>2, <1>5 DEF BasesSound, EnterCopyMode
  <2>2. QED
    BY <1>1, <1>2, <1>9, <2>1 DEF BasesSound, Sound, paneVars
<1>11. pins'[c] # NoBase => pins'[c].epoch = epoch
  BY <1>1 DEF IInv, PinsAreCurrent, paneVars
<1>12. ClientInv(c)'
  <2>1. /\ \A i \in DOMAIN toDaemon[c] :
             toDaemon[c][i].type \in {"Enter", "Fill"}
               => toDaemon[c][i].serial <= n /\ toDaemon[c][i].serial \in Nat
        /\ \A i \in DOMAIN toClient[c] :
             toClient[c][i].type \in {"Ack", "EnterRefused", "Data", "FillRefused"}
               => toClient[c][i].serial <= n /\ toClient[c][i].serial \in Nat
    <3>1. \A i \in DOMAIN toDaemon[c] : toDaemon[c][i] \in Frames
      BY <1>2 DEF QueuesTyped
    <3>2. \A i \in DOMAIN toClient[c] : toClient[c][i] \in Messages
      BY <1>2 DEF QueuesTyped
    <3>3. QED
      BY <1>2, <1>3, <3>1, <3>2, FrameFields, MessageFields, LimitsAssumption
         DEF ClientInv, SerialsKnown, Serials
  <2>2. SerialsKnown(c)'
    BY <1>1, <1>3, <1>4, <1>5, <1>9, <2>1 DEF SerialsKnown
  <2>3. /\ ~ HasEnter(toDaemon[c], n + 1) /\ EntersOnce(toDaemon[c], n + 1)
        /\ ~ HasAnswer(toClient[c], n + 1) /\ AnswersOnce(toClient[c], n + 1)
    BY <2>1 DEF HasEnter, HasAnswer, EntersOnce, AnswersOnce, IsEnter, IsAnswer
  <2>4. IsEnter(m, n + 1)
    BY <1>5 DEF IsEnter
  <2>5. HasEnter(toDaemon'[c], n + 1) /\ EntersOnce(toDaemon'[c], n + 1)
    BY <1>6, <2>3, <2>4, GrownFrames
  <2>6. \A i \in DOMAIN toDaemon[c] : EnterFollows(toDaemon'[c], i, n + 1)
    BY <1>6, <2>4, GrownFrames
  <2>7. EntryTracked(c)'
    <3>1. n + 1 # 0
      BY <1>3
    <3>2. QED
      BY <1>1, <1>4, <1>5, <1>9, <2>3, <2>5, <2>6, <3>1
         DEF EntryTracked, Asked, Answered
  <2>8. OpenSession(c)'
    BY <1>4, <1>5, <1>9, <2>6 DEF OpenSession
  <2>9. EnteringSession(c)'
    BY <1>1, <1>3, <1>4, <1>5, <1>9, <2>1 DEF EnteringSession
  <2>10. PinnedSession(c)' /\ NoSession(c)'
    BY <1>4 DEF PinnedSession, NoSession
  <2>11. InvalidationTracked(c)'
    BY <1>1, <1>2, <1>6 DEF ClientInv, InvalidationTracked, ExitComes, paneVars, Grown
  <2>12. QED
    BY <2>2, <2>7, <2>8, <2>9, <2>10, <2>11 DEF ClientInv
<1>13. QED
  BY <1>1, <1>7, <1>8, <1>10, <1>11, <1>12, OneClient DEF EnterCopyMode, paneVars

LEMMA ExitCopyModeKeeps ==
  ASSUME IInv, NEW c \in Clients, ExitCopyMode(c)
  PROVE  IInv'
<1>1. /\ UNCHANGED <<paneVars, wake, toClient, connected, serial, pendingEnter, painted>>
      /\ c \in connected
  BY DEF ExitCopyMode, UserStep
<1>2. TypeOK /\ QueuesTyped /\ BasesSound(c) /\ ClientInv(c)
  BY <1>1 DEF IInv
<1>3. Sends(c, <<Exit>>)
  BY DEF ExitCopyMode
<1>4. /\ toDaemon' \in [Clients -> Seq(Frames)]
      /\ \A d \in Clients : d # c => toDaemon'[d] = toDaemon[d]
      /\ Grown(toDaemon[c], Exit, toDaemon'[c])
  BY <1>2, <1>3, ExitIsFrame, FrameSent
<1>5. TypeOK' /\ QueuesTyped'
  BY <1>1, <1>2, <1>4, LimitsAssumption
     DEF TypeOK, QueuesTyped, paneVars, ExitCopyMode, UserStep, LeaveSession
<1>6. ASSUME NEW d \in Clients, d # c PROVE Same(d)
  BY <1>1, <1>2, <1>4, <1>6 DEF Same, ExitCopyMode, LeaveSession, TypeOK, paneVars
<1>7. \A i \in DOMAIN toDaemon'[c] :
        \/ toDaemon'[c][i] = Exit
        \/ i \in DOMAIN toDaemon[c] /\ toDaemon'[c][i] = toDaemon[c][i]
  BY <1>4 DEF Grown
<1>8. BasesSound(c)'
  BY <1>1, <1>2, <1>7, ExitIsFrame DEF BasesSound, Sound, paneVars
<1>9. pins'[c] # NoBase => pins'[c].epoch = epoch
  BY <1>1 DEF IInv, PinsAreCurrent, paneVars
<1>10. ClientInv(c)'
  <2>1. SameAnswers(c)
    BY <1>1 DEF SameAnswers
  <2>2. EntryTracked(c)' /\ ExitComes(c)'
    BY <1>1, <1>2, <1>4, <2>1, ExitIsFrame, FrameSentKeeps DEF ClientInv
  <2>3. SerialsKnown(c)'
    BY <1>1, <1>2, <1>7, ExitIsFrame DEF ClientInv, SerialsKnown
  <2>4. session'[c] = "none"
    BY <1>2 DEF ExitCopyMode, LeaveSession, TypeOK
  <2>5. QED
    BY <1>1, <1>2, <2>2, <2>3, <2>4, Left DEF paneVars
<1>11. QED
  BY <1>1, <1>5, <1>6, <1>8, <1>9, <1>10, OneClient DEF paneVars

LEMMA RequestFillKeeps ==
  ASSUME IInv, NEW c \in Clients, RequestFill(c)
  PROVE  IInv'
<1>1. /\ UNCHANGED <<paneVars, wake, toClient, connected, sessionVars, painted>>
      /\ c \in connected /\ session[c] = "pinned"
  BY DEF RequestFill, UserStep
<1>2. TypeOK /\ QueuesTyped /\ BasesSound(c) /\ ClientInv(c)
  BY <1>1 DEF IInv
<1>3. PICK m \in Frames : m.type = "Fill" /\ m.serial = serial[c] /\ Sends(c, <<m>>)
  <2>1. serial[c] \in Serials
    BY <1>1, <1>2, LimitsAssumption DEF TypeOK, ClientInv, PinnedSession, Serials
  <2>2. [type |-> "Fill", serial |-> serial[c]] \in Frames
    BY <2>1 DEF Frames
  <2>3. QED
    BY <2>2 DEF RequestFill, FillFor
<1>4. /\ toDaemon' \in [Clients -> Seq(Frames)]
      /\ \A d \in Clients : d # c => toDaemon'[d] = toDaemon[d]
      /\ Grown(toDaemon[c], m, toDaemon'[c])
  BY <1>2, <1>3, FrameSent
<1>5. TypeOK' /\ QueuesTyped'
  BY <1>1, <1>2, <1>4, LimitsAssumption
     DEF TypeOK, QueuesTyped, paneVars, sessionVars, RequestFill, UserStep
<1>6. ASSUME NEW d \in Clients, d # c PROVE Same(d)
  BY <1>1, <1>4, <1>6 DEF Same, sessionVars, paneVars
<1>7. \A i \in DOMAIN toDaemon'[c] :
        \/ toDaemon'[c][i] = m
        \/ i \in DOMAIN toDaemon[c] /\ toDaemon'[c][i] = toDaemon[c][i]
  BY <1>4 DEF Grown
<1>8. BasesSound(c)'
  BY <1>1, <1>2, <1>3, <1>7 DEF BasesSound, Sound, paneVars
<1>9. pins'[c] # NoBase => pins'[c].epoch = epoch
  BY <1>1 DEF IInv, PinsAreCurrent, paneVars
<1>10. ClientInv(c)'
  <2>1. SameAnswers(c)
    BY <1>1 DEF SameAnswers
  <2>2. EntryTracked(c)' /\ (ExitComes(c) => ExitComes(c)')
    BY <1>1, <1>2, <1>3, <1>4, <2>1, FrameSentKeeps DEF ClientInv, sessionVars
  <2>3. SerialsKnown(c)'
    BY <1>1, <1>2, <1>3, <1>7 DEF ClientInv, SerialsKnown, sessionVars, TypeOK
  <2>4. OpenSession(c)'
    <3> DEFINE n == serial[c]
    <3>1. \A i \in DOMAIN toDaemon[c] :
            EnterFollows(toDaemon[c], i, n) => EnterFollows(toDaemon'[c], i, n)
      <4> HIDE DEF n
      <4>1. QED
        BY <1>4, GrownFrames
    <3>2. QED
      BY <1>1, <1>2, <1>3, <1>7, <3>1 DEF ClientInv, OpenSession, sessionVars
  <2>5. PinnedSession(c)' /\ EnteringSession(c)' /\ NoSession(c)'
    BY <1>1, <1>2
       DEF ClientInv, PinnedSession, EnteringSession, NoSession, Holds, sessionVars, paneVars
  <2>6. InvalidationTracked(c)'
    BY <1>1, <1>2, <2>2 DEF ClientInv, InvalidationTracked, paneVars
  <2>7. QED
    BY <2>2, <2>3, <2>4, <2>5, <2>6 DEF ClientInv
<1>11. QED
  BY <1>1, <1>5, <1>6, <1>8, <1>9, <1>10, OneClient DEF paneVars

LEMMA ResizePaneKeeps ==
  ASSUME IInv, NEW c \in Clients, ResizePane(c)
  PROVE  IInv'
<1>1. /\ UNCHANGED <<paneVars, wake, toClient, connected, serial, pendingEnter, painted>>
      /\ c \in connected
  BY DEF ResizePane, UserStep
<1>2. TypeOK /\ QueuesTyped /\ BasesSound(c) /\ ClientInv(c)
  BY <1>1 DEF IInv
<1>3. PICK resize \in Frames :
        /\ resize.type = "Resize"
        /\ Sends(c, IF session[c] = "none" THEN <<resize>> ELSE <<Exit, resize>>)
  <2>1. [type |-> "Resize"] \in Frames
    BY DEF Frames
  <2>2. QED
    BY <2>1 DEF ResizePane
<1>4. /\ toDaemon' \in [Clients -> Seq(Frames)]
      /\ \A d \in Clients : d # c => toDaemon'[d] = toDaemon[d]
  <2>1. CASE session[c] = "none"
    <3>1. Sends(c, <<resize>>)
      BY <1>3, <2>1
    <3>2. QED
      BY <1>2, <3>1, FrameSent
  <2>2. CASE session[c] # "none"
    <3>1. Sends(c, <<Exit, resize>>)
      BY <1>3, <2>2
    <3>2. QED
      BY <1>2, <3>1, ExitIsFrame, FramesSent
  <2>3. QED
    BY <2>1, <2>2
<1>5. TypeOK' /\ QueuesTyped'
  BY <1>1, <1>2, <1>4, LimitsAssumption
     DEF TypeOK, QueuesTyped, paneVars, ResizePane, UserStep, LeaveSession
<1>6. ASSUME NEW d \in Clients, d # c PROVE Same(d)
  BY <1>1, <1>2, <1>4, <1>6 DEF Same, ResizePane, LeaveSession, TypeOK, paneVars
<1>7. pins'[c] # NoBase => pins'[c].epoch = epoch
  BY <1>1 DEF IInv, PinsAreCurrent, paneVars
<1>8. session'[c] = "none"
  BY <1>2 DEF ResizePane, LeaveSession, TypeOK
<1>9. SameAnswers(c)
  BY <1>1 DEF SameAnswers
<1>10. BasesSound(c)' /\ ClientInv(c)'
  <2>1. CASE session[c] = "none"
    <3>1. Grown(toDaemon[c], resize, toDaemon'[c])
      BY <1>2, <1>3, <2>1, FrameSent
    <3>2. \A i \in DOMAIN toDaemon'[c] :
            \/ toDaemon'[c][i] = resize
            \/ i \in DOMAIN toDaemon[c] /\ toDaemon'[c][i] = toDaemon[c][i]
      BY <3>1 DEF Grown
    <3>3. BasesSound(c)'
      BY <1>1, <1>2, <1>3, <3>2 DEF BasesSound, Sound, paneVars
    <3>4. EntryTracked(c)' /\ (ExitComes(c) => ExitComes(c)')
      BY <1>1, <1>2, <1>3, <1>9, <3>1, FrameSentKeeps DEF ClientInv
    <3>5. SerialsKnown(c)'
      BY <1>1, <1>2, <1>3, <3>2 DEF ClientInv, SerialsKnown
    <3>6. OpenSession(c)' /\ EnteringSession(c)' /\ PinnedSession(c)'
      BY <1>8 DEF OpenSession, EnteringSession, PinnedSession
    <3>7. NoSession(c)' /\ InvalidationTracked(c)'
      BY <1>1, <1>2, <2>1, <3>4 DEF ClientInv, NoSession, InvalidationTracked, paneVars
    <3>8. QED
      BY <3>3, <3>4, <3>5, <3>6, <3>7 DEF ClientInv
  <2>2. CASE session[c] # "none"
    <3>1. PICK s \in Seq(Frames) :
            Grown(toDaemon[c], Exit, s) /\ Grown(s, resize, toDaemon'[c])
      BY <1>2, <1>3, <2>2, ExitIsFrame, FramesSent
    <3>2. \A i \in DOMAIN toDaemon'[c] :
            \/ toDaemon'[c][i] \in {Exit, resize}
            \/ i \in DOMAIN toDaemon[c] /\ toDaemon'[c][i] = toDaemon[c][i]
      BY <3>1 DEF Grown
    <3>3. BasesSound(c)'
      BY <1>1, <1>2, <1>3, <3>2, ExitIsFrame DEF BasesSound, Sound, paneVars
    <3>4. SerialsKnown(c)'
      BY <1>1, <1>2, <1>3, <3>2, ExitIsFrame DEF ClientInv, SerialsKnown
    <3>5. ExitComes(c)'
      <4>1. \E i \in DOMAIN s : s[i].type = "Exit"
        BY <3>1, ExitIsFrame DEF Grown
      <4>2. QED
        BY <3>1, <4>1 DEF ExitComes, Grown
    <3>6. EntryTracked(c)'
      <4>1. PICK n : n = serial[c]
        OBVIOUS
      <4>2. ~ IsEnter(Exit, n) /\ ~ IsEnter(resize, n)
        BY <1>3, ExitIsFrame DEF IsEnter
      <4>3. EntersOnce(toDaemon[c], n)
        BY <1>2, <4>1 DEF ClientInv, EntryTracked
      <4>4. EntersOnce(s, n) /\ (HasEnter(s, n) <=> HasEnter(toDaemon[c], n))
        BY <3>1, <4>2, <4>3, GrownFrames
      <4>5. /\ EntersOnce(toDaemon'[c], n)
            /\ HasEnter(toDaemon'[c], n) <=> HasEnter(toDaemon[c], n)
        BY <3>1, <4>2, <4>4, GrownFrames
      <4>6. \A i \in DOMAIN toDaemon[c] :
              EnterFollows(toDaemon[c], i, n) => EnterFollows(toDaemon'[c], i, n)
        <5>1. \A i \in DOMAIN toDaemon[c] :
                i \in DOMAIN s /\ (EnterFollows(toDaemon[c], i, n) => EnterFollows(s, i, n))
          BY <3>1, GrownFrames DEF Grown
        <5>2. \A i \in DOMAIN s : EnterFollows(s, i, n) => EnterFollows(toDaemon'[c], i, n)
          BY <3>1, GrownFrames
        <5>3. QED
          BY <5>1, <5>2
      <4>7. QED
        BY <1>1, <1>2, <1>3, <1>9, <3>2, <4>1, <4>5, <4>6, ExitIsFrame
           DEF ClientInv, EntryTracked, Asked, Answered
    <3>7. QED
      BY <1>1, <1>2, <1>8, <3>3, <3>4, <3>5, <3>6, Left DEF paneVars
  <2>3. QED
    BY <2>1, <2>2
<1>11. QED
  BY <1>1, <1>5, <1>6, <1>7, <1>10, OneClient DEF paneVars

LEMMA DisconnectKeeps ==
  ASSUME IInv, NEW c \in Clients, Disconnect(c)
  PROVE  IInv'
<1>1. /\ UNCHANGED <<paneVars, wake, toDaemon, serial, painted>>
      /\ connected' = connected \ {c}
      /\ toClient' = [toClient EXCEPT ![c] = <<>>]
  BY DEF Disconnect
<1>2. TypeOK /\ QueuesTyped /\ BasesSound(c)
  BY DEF IInv
<1>3. <<>> \in Seq(Messages) /\ DOMAIN <<>> = {}
  OBVIOUS
<1>4. TypeOK' /\ QueuesTyped'
  BY <1>1, <1>2, <1>3, LimitsAssumption
     DEF TypeOK, QueuesTyped, paneVars, Disconnect, UserStep, LeaveSession
<1>5. ASSUME NEW d \in Clients, d # c PROVE Same(d)
  BY <1>1, <1>2, <1>5
     DEF Same, Disconnect, LeaveSession, TypeOK, QueuesTyped, paneVars
<1>6. BasesSound(c)'
  BY <1>1, <1>2, <1>3 DEF BasesSound, QueuesTyped, Sound, paneVars
<1>7. pins'[c] # NoBase => pins'[c].epoch = epoch
  BY <1>1 DEF IInv, PinsAreCurrent, paneVars
<1>8. session'[c] = "none" /\ c \notin connected'
  BY <1>1, <1>2 DEF Disconnect, LeaveSession, TypeOK
<1>9. QED
  BY <1>1, <1>4, <1>5, <1>6, <1>7, <1>8, OneClient DEF paneVars

-----------------------------------------------------------------------------
\* The client's handlers.

\* A message that changes no session.
LEMMA ConsumedKeeps ==
  ASSUME NEW c \in Clients, ClientInv(c),
         Popped(toClient[c], toClient'[c]), toClient[c][1].type # "Invalidated",
         SameAnswers(c), toDaemon'[c] = toDaemon[c],
         session'[c] = session[c], serial'[c] = serial[c],
         pendingEnter'[c] = pendingEnter[c], pinnedBase'[c] = pinnedBase[c],
         pins'[c] = pins[c], invalidations'[c] = invalidations[c],
         wake'[c] = wake[c]
  PROVE  ClientInv(c)'
<1>1. \A i \in DOMAIN toClient'[c] :
        \E j \in DOMAIN toClient[c] : toClient'[c][i] = toClient[c][j]
  BY DEF Popped
<1>2. EntryTracked(c)'
  BY NoFrameKeeps DEF ClientInv
<1>3. SerialsKnown(c)'
  BY <1>1 DEF ClientInv, SerialsKnown
<1>4. OpenSession(c)' /\ NoSession(c)'
  BY DEF ClientInv, OpenSession, NoSession, ExitComes
<1>5. EnteringSession(c)'
  BY <1>1 DEF ClientInv, EnteringSession, Holds
<1>6. PinnedSession(c)'
  BY <1>1 DEF ClientInv, PinnedSession, Holds
<1>7. InvalidationTracked(c)'
  BY DEF ClientInv, InvalidationTracked, ExitComes, Popped
<1>8. QED
  BY <1>2, <1>3, <1>4, <1>5, <1>6, <1>7 DEF ClientInv

LEMMA OnUpdateKeeps ==
  ASSUME IInv, NEW c \in Clients, OnUpdate(c)
  PROVE  IInv'
<1>1. /\ UNCHANGED <<paneVars, wake, toDaemon, connected, sessionVars, userSteps>>
      /\ c \in connected /\ toClient[c] # <<>> /\ Consumed(c)
  BY DEF OnUpdate, Incoming
<1>2. TypeOK /\ QueuesTyped /\ BasesSound(c) /\ ClientInv(c)
  BY <1>1 DEF IInv
<1>3. PICK m \in Messages : m = toClient[c][1] /\ m = Head(toClient[c]) /\ m.type = "Update"
  BY <1>1, <1>2, MessageConsumed DEF OnUpdate, Incoming
<1>4. /\ toClient' \in [Clients -> Seq(Messages)]
      /\ \A d \in Clients : d # c => toClient'[d] = toClient[d]
      /\ Popped(toClient[c], toClient'[c]) /\ 1 \in DOMAIN toClient[c]
  BY <1>1, <1>2, MessageConsumed
<1>5. m.base \in Bases /\ Sound(m.base)
  BY <1>2, <1>3, <1>4, MessageFields DEF BasesSound
<1>6. painted' = [painted EXCEPT ![c] = m.base]
  BY <1>3 DEF OnUpdate
<1>7. TypeOK' /\ QueuesTyped'
  BY <1>1, <1>2, <1>4, <1>5, <1>6 DEF TypeOK, QueuesTyped, paneVars, sessionVars
<1>8. ASSUME NEW d \in Clients, d # c PROVE Same(d)
  BY <1>1, <1>2, <1>4, <1>6, <1>8 DEF Same, TypeOK, paneVars, sessionVars
<1>9. BasesSound(c)'
  <2>1. painted'[c] = m.base
    BY <1>2, <1>6 DEF TypeOK
  <2>2. \A i \in DOMAIN toClient'[c] :
          toClient'[c][i].type = "Update" => Sound(toClient'[c][i].base)
    BY <1>2, <1>4 DEF BasesSound, Popped
  <2>3. QED
    BY <1>1, <1>2, <1>5, <2>1, <2>2 DEF BasesSound, Sound, paneVars
<1>10. pins'[c] # NoBase => pins'[c].epoch = epoch
  BY <1>1 DEF IInv, PinsAreCurrent, paneVars
<1>11. ClientInv(c)'
  <2>1. SameAnswers(c)
    BY <1>3, <1>4, AnswersConsumed
  <2>2. QED
    BY <1>1, <1>2, <1>3, <1>4, <2>1, ConsumedKeeps DEF paneVars, sessionVars
<1>12. QED
  BY <1>1, <1>7, <1>8, <1>9, <1>10, <1>11, OneClient DEF paneVars

\* What every other handler keeps.
LEMMA OtherHandlers ==
  ASSUME IInv, NEW c \in Clients, c \in connected, toClient[c] # <<>>, Consumed(c),
         UNCHANGED <<paneVars, wake, connected, serial, painted, userSteps>>,
         toDaemon' \in [Clients -> Seq(Frames)],
         \A d \in Clients : d # c => toDaemon'[d] = toDaemon[d],
         \A i \in DOMAIN toDaemon'[c] : toDaemon'[c][i].type = "Enter" =>
           i \in DOMAIN toDaemon[c] /\ toDaemon'[c][i] = toDaemon[c][i],
         session' \in [Clients -> {"none", "entering", "pinned"}],
         pendingEnter' \in [Clients -> 0 .. MaxSessions],
         pinnedBase' \in [Clients -> Bases \cup {NoBase}],
         \A d \in Clients : d # c => /\ session'[d] = session[d]
                                     /\ pendingEnter'[d] = pendingEnter[d]
                                     /\ pinnedBase'[d] = pinnedBase[d],
         ClientInv(c)'
  PROVE  IInv'
<1>1. TypeOK /\ QueuesTyped /\ BasesSound(c)
  BY DEF IInv
<1>2. /\ toClient' \in [Clients -> Seq(Messages)]
      /\ \A d \in Clients : d # c => toClient'[d] = toClient[d]
      /\ Popped(toClient[c], toClient'[c])
  BY <1>1, MessageConsumed
<1>3. TypeOK' /\ QueuesTyped'
  BY <1>1, <1>2 DEF TypeOK, QueuesTyped, paneVars
<1>4. ASSUME NEW d \in Clients, d # c PROVE Same(d)
  BY <1>2, <1>4 DEF Same, paneVars
<1>5. BasesSound(c)'
  BY <1>1, <1>2 DEF BasesSound, Sound, Popped, paneVars
<1>6. pins'[c] # NoBase => pins'[c].epoch = epoch
  BY DEF IInv, PinsAreCurrent, paneVars
<1>7. QED
  BY <1>3, <1>4, <1>5, <1>6, OneClient DEF paneVars

LEMMA OnDataKeeps ==
  ASSUME IInv, NEW c \in Clients, OnData(c)
  PROVE  IInv'
<1>1. /\ UNCHANGED <<paneVars, wake, toDaemon, connected, clientVars>>
      /\ c \in connected /\ toClient[c] # <<>> /\ Consumed(c)
  BY DEF OnData, Incoming
<1>2. TypeOK /\ QueuesTyped /\ ClientInv(c)
  BY <1>1 DEF IInv
<1>3. /\ Popped(toClient[c], toClient'[c])
      /\ toClient[c][1].type = "Data"
  BY <1>1, <1>2, MessageConsumed DEF OnData, Incoming
<1>4. ClientInv(c)'
  BY <1>1, <1>2, <1>3, AnswersConsumed, ConsumedKeeps
     DEF paneVars, clientVars, sessionVars
<1>5. QED
  BY <1>1, <1>2, <1>4, OtherHandlers
     DEF TypeOK, QueuesTyped, clientVars, sessionVars

LEMMA OnInvalidatedKeeps ==
  ASSUME IInv, NEW c \in Clients, OnInvalidated(c)
  PROVE  IInv'
<1>1. /\ UNCHANGED <<paneVars, wake, connected, serial, pendingEnter, painted, userSteps>>
      /\ c \in connected /\ toClient[c] # <<>> /\ Consumed(c) /\ Sends(c, <<Exit>>)
  BY DEF OnInvalidated, Incoming
<1>2. TypeOK /\ QueuesTyped /\ ClientInv(c)
  BY <1>1 DEF IInv
<1>3. /\ Popped(toClient[c], toClient'[c])
      /\ toClient[c][1].type = "Invalidated"
  BY <1>1, <1>2, MessageConsumed DEF OnInvalidated, Incoming
<1>4. /\ toDaemon' \in [Clients -> Seq(Frames)]
      /\ \A d \in Clients : d # c => toDaemon'[d] = toDaemon[d]
      /\ Grown(toDaemon[c], Exit, toDaemon'[c])
  BY <1>1, <1>2, ExitIsFrame, FrameSent
<1>5. \A i \in DOMAIN toDaemon'[c] :
        \/ toDaemon'[c][i] = Exit
        \/ i \in DOMAIN toDaemon[c] /\ toDaemon'[c][i] = toDaemon[c][i]
  BY <1>4 DEF Grown
<1>6. ClientInv(c)'
  <2>1. SameAnswers(c)
    BY <1>3, AnswersConsumed
  <2>2. EntryTracked(c)' /\ ExitComes(c)'
    BY <1>1, <1>2, <1>4, <2>1, ExitIsFrame, FrameSentKeeps DEF ClientInv
  <2>3. SerialsKnown(c)'
    BY <1>1, <1>2, <1>3, <1>5, ExitIsFrame DEF ClientInv, SerialsKnown, Popped
  <2>4. session'[c] = "none"
    BY <1>2 DEF OnInvalidated, LeaveSession, TypeOK
  <2>5. QED
    BY <1>1, <1>2, <2>2, <2>3, <2>4, Left DEF paneVars
<1>7. /\ session' \in [Clients -> {"none", "entering", "pinned"}]
      /\ pendingEnter' \in [Clients -> 0 .. MaxSessions]
      /\ pinnedBase' \in [Clients -> Bases \cup {NoBase}]
      /\ \A d \in Clients : d # c => /\ session'[d] = session[d]
                                     /\ pendingEnter'[d] = pendingEnter[d]
                                     /\ pinnedBase'[d] = pinnedBase[d]
  BY <1>1, <1>2 DEF OnInvalidated, LeaveSession, TypeOK
<1>8. \A i \in DOMAIN toDaemon'[c] : toDaemon'[c][i].type = "Enter" =>
        i \in DOMAIN toDaemon[c] /\ toDaemon'[c][i] = toDaemon[c][i]
  BY <1>5, ExitIsFrame
<1>9. QED
  BY <1>1, <1>4, <1>6, <1>7, <1>8, OtherHandlers

LEMMA OnFillRefusedKeeps ==
  ASSUME IInv, NEW c \in Clients, OnFillRefused(c)
  PROVE  IInv'
<1>1. /\ UNCHANGED <<paneVars, wake, connected, serial, pendingEnter, painted, userSteps>>
      /\ c \in connected /\ toClient[c] # <<>> /\ Consumed(c)
  BY DEF OnFillRefused, Incoming
<1>2. TypeOK /\ QueuesTyped /\ ClientInv(c)
  BY <1>1 DEF IInv
<1>3. /\ Popped(toClient[c], toClient'[c])
      /\ toClient[c][1].type = "FillRefused"
  BY <1>1, <1>2, MessageConsumed DEF OnFillRefused, Incoming
<1>4. SameAnswers(c)
  BY <1>3, AnswersConsumed
<1>5. CASE UNCHANGED <<session, pinnedBase, toDaemon>>
  <2>1. ClientInv(c)'
    BY <1>1, <1>2, <1>3, <1>4, <1>5, ConsumedKeeps DEF paneVars
  <2>2. QED
    BY <1>1, <1>2, <1>5, <2>1, OtherHandlers DEF TypeOK, QueuesTyped
<1>6. CASE LeaveSession(c) /\ Sends(c, <<Exit>>)
  <2>1. /\ toDaemon' \in [Clients -> Seq(Frames)]
        /\ \A d \in Clients : d # c => toDaemon'[d] = toDaemon[d]
        /\ Grown(toDaemon[c], Exit, toDaemon'[c])
    BY <1>2, <1>6, ExitIsFrame, FrameSent
  <2>2. \A i \in DOMAIN toDaemon'[c] :
          \/ toDaemon'[c][i] = Exit
          \/ i \in DOMAIN toDaemon[c] /\ toDaemon'[c][i] = toDaemon[c][i]
    BY <2>1 DEF Grown
  <2>3. ClientInv(c)'
    <3>1. EntryTracked(c)' /\ ExitComes(c)'
      BY <1>1, <1>2, <1>4, <2>1, ExitIsFrame, FrameSentKeeps DEF ClientInv
    <3>2. SerialsKnown(c)'
      BY <1>1, <1>2, <1>3, <2>2, ExitIsFrame DEF ClientInv, SerialsKnown, Popped
    <3>3. session'[c] = "none"
      BY <1>2, <1>6 DEF LeaveSession, TypeOK
    <3>4. QED
      BY <1>1, <1>2, <3>1, <3>2, <3>3, Left DEF paneVars
  <2>4. /\ session' \in [Clients -> {"none", "entering", "pinned"}]
        /\ pendingEnter' \in [Clients -> 0 .. MaxSessions]
        /\ pinnedBase' \in [Clients -> Bases \cup {NoBase}]
        /\ \A d \in Clients : d # c => /\ session'[d] = session[d]
                                       /\ pendingEnter'[d] = pendingEnter[d]
                                       /\ pinnedBase'[d] = pinnedBase[d]
    BY <1>1, <1>2, <1>6 DEF LeaveSession, TypeOK
  <2>5. \A i \in DOMAIN toDaemon'[c] : toDaemon'[c][i].type = "Enter" =>
          i \in DOMAIN toDaemon[c] /\ toDaemon'[c][i] = toDaemon[c][i]
    BY <2>2, ExitIsFrame
  <2>6. QED
    BY <1>1, <2>1, <2>3, <2>4, <2>5, OtherHandlers
<1>7. QED
  BY <1>5, <1>6 DEF OnFillRefused

\* An answer to the entry that is pending, and the frame that the client
\* sends after it: nothing of the entry is under way any more.
LEMMA AnswerTaken ==
  ASSUME NEW c \in Clients, NEW m \in Frames, m.type # "Enter", ClientInv(c),
         Popped(toClient[c], toClient'[c]), 1 \in DOMAIN toClient[c],
         toClient[c][1].type \in {"Ack", "EnterRefused"},
         pendingEnter[c] = toClient[c][1].serial, pendingEnter[c] # 0,
         Grown(toDaemon[c], m, toDaemon'[c]),
         m.type = "Fill" => m.serial = serial[c], serial[c] \in Nat,
         serial'[c] = serial[c], pendingEnter'[c] = 0
  PROVE  /\ pendingEnter[c] = serial[c] /\ ~ Asked(c)
         /\ EntryTracked(c)' /\ SerialsKnown(c)'
         /\ m.type = "Exit" => ExitComes(c)'
<1>1. PICK n : n = serial[c] /\ n = pendingEnter[c]
  BY DEF ClientInv, EntryTracked
<1>2. /\ IsAnswer(toClient[c][1], n) /\ HasAnswer(toClient[c], n)
      /\ AnswersOnce(toClient[c], n) /\ EntersOnce(toDaemon[c], n)
      /\ ~ HasEnter(toDaemon[c], n)
  BY <1>1 DEF ClientInv, EntryTracked, IsAnswer, HasAnswer, Answered, Asked
<1>3. ~ HasAnswer(toClient'[c], n) /\ AnswersOnce(toClient'[c], n)
  BY <1>2, PoppedMessages
<1>4. ~ HasEnter(toDaemon'[c], n) /\ EntersOnce(toDaemon'[c], n)
  <2>1. ~ IsEnter(m, n)
    BY DEF IsEnter
  <2>2. QED
    BY <1>2, <2>1, GrownFrames
<1>5. \A i \in DOMAIN toDaemon'[c] :
        \/ toDaemon'[c][i] = m
        \/ i \in DOMAIN toDaemon[c] /\ toDaemon'[c][i] = toDaemon[c][i]
  BY DEF Grown
<1>6. \A i \in DOMAIN toDaemon[c] : toDaemon[c][i].type = "Enter" => FALSE
  <2>1. \A i \in DOMAIN toDaemon[c] :
          /\ ~ IsEnter(toDaemon[c][i], n)
          /\ ~ EnterFollows(toDaemon[c], i, n)
    BY <1>2 DEF HasEnter, EnterFollows
  <2>2. QED
    BY <1>1, <2>1 DEF ClientInv, EntryTracked, IsEnter
<1>7. EntryTracked(c)'
  BY <1>1, <1>3, <1>4, <1>5, <1>6 DEF EntryTracked, Asked, Answered
<1>8. SerialsKnown(c)'
  BY <1>5 DEF ClientInv, SerialsKnown, Popped
<1>9. m.type = "Exit" => ExitComes(c)'
  BY DEF ExitComes, Grown
<1>10. QED
  BY <1>1, <1>2, <1>7, <1>8, <1>9 DEF Asked

LEMMA OnEnterRefusedKeeps ==
  ASSUME IInv, NEW c \in Clients, OnEnterRefused(c)
  PROVE  IInv'
<1>1. /\ UNCHANGED <<paneVars, wake, connected, painted, userSteps>>
      /\ c \in connected /\ toClient[c] # <<>> /\ Consumed(c)
  BY DEF OnEnterRefused, Incoming
<1>2. TypeOK /\ QueuesTyped /\ ClientInv(c)
  BY <1>1 DEF IInv
<1>3. PICK m \in Messages :
        m = toClient[c][1] /\ m = Head(toClient[c]) /\ m.type = "EnterRefused"
  BY <1>1, <1>2, MessageConsumed DEF OnEnterRefused, Incoming
<1>4. Popped(toClient[c], toClient'[c]) /\ 1 \in DOMAIN toClient[c]
  BY <1>1, <1>2, MessageConsumed
<1>5. m.serial \in Serials /\ m.serial # 0
  BY <1>3, MessageFields, LimitsAssumption DEF Serials
<1>6. CASE pendingEnter[c] # m.serial
  <2>1. UNCHANGED <<sessionVars, toDaemon>>
    BY <1>3, <1>6 DEF OnEnterRefused
  <2>2. m.serial # serial[c]
    BY <1>3, <1>4, <1>5, <1>2, <1>6
       DEF ClientInv, EntryTracked, Answered, HasAnswer, IsAnswer
  <2>3. SameAnswers(c)
    BY <1>3, <1>4, <2>2, AnswersConsumed
  <2>4. ClientInv(c)'
    BY <1>1, <1>2, <1>3, <1>4, <2>1, <2>3, ConsumedKeeps DEF paneVars, sessionVars
  <2>5. QED
    BY <1>1, <1>2, <2>1, <2>4, OtherHandlers DEF TypeOK, QueuesTyped, sessionVars
<1>7. CASE pendingEnter[c] = m.serial
  <2>1. /\ pendingEnter' = [pendingEnter EXCEPT ![c] = 0]
        /\ LeaveSession(c) /\ Sends(c, <<Exit>>) /\ UNCHANGED serial
    BY <1>3, <1>7 DEF OnEnterRefused
  <2>2. /\ toDaemon' \in [Clients -> Seq(Frames)]
        /\ \A d \in Clients : d # c => toDaemon'[d] = toDaemon[d]
        /\ Grown(toDaemon[c], Exit, toDaemon'[c])
    BY <1>2, <2>1, ExitIsFrame, FrameSent
  <2>3. pendingEnter'[c] = 0 /\ session'[c] = "none" /\ serial[c] \in Nat
    BY <1>2, <2>1, LimitsAssumption DEF LeaveSession, TypeOK
  <2>4. EntryTracked(c)' /\ SerialsKnown(c)' /\ ExitComes(c)'
    BY <1>2, <1>3, <1>4, <1>5, <1>7, <2>1, <2>2, <2>3, ExitIsFrame, AnswerTaken
  <2>5. ClientInv(c)'
    BY <1>1, <1>2, <2>3, <2>4, Left DEF paneVars
  <2>6. /\ session' \in [Clients -> {"none", "entering", "pinned"}]
        /\ pendingEnter' \in [Clients -> 0 .. MaxSessions]
        /\ pinnedBase' \in [Clients -> Bases \cup {NoBase}]
        /\ \A d \in Clients : d # c => /\ session'[d] = session[d]
                                       /\ pendingEnter'[d] = pendingEnter[d]
                                       /\ pinnedBase'[d] = pinnedBase[d]
    BY <1>2, <2>1, LimitsAssumption DEF LeaveSession, TypeOK
  <2>7. \A i \in DOMAIN toDaemon'[c] : toDaemon'[c][i].type = "Enter" =>
          i \in DOMAIN toDaemon[c] /\ toDaemon'[c][i] = toDaemon[c][i]
    BY <2>2, ExitIsFrame DEF Grown
  <2>8. QED
    BY <1>1, <2>1, <2>2, <2>5, <2>6, <2>7, OtherHandlers
<1>8. QED
  BY <1>6, <1>7

LEMMA OnAckKeeps ==
  ASSUME IInv, NEW c \in Clients, OnAck(c)
  PROVE  IInv'
<1>1. /\ UNCHANGED <<paneVars, wake, connected, painted, userSteps>>
      /\ c \in connected /\ toClient[c] # <<>> /\ Consumed(c)
  BY DEF OnAck, Incoming
<1>2. TypeOK /\ QueuesTyped /\ ClientInv(c)
  BY <1>1 DEF IInv
<1>3. PICK m \in Messages :
        m = toClient[c][1] /\ m = Head(toClient[c]) /\ m.type = "Ack"
  BY <1>1, <1>2, MessageConsumed DEF OnAck, Incoming
<1>4. Popped(toClient[c], toClient'[c]) /\ 1 \in DOMAIN toClient[c]
  BY <1>1, <1>2, MessageConsumed
<1>5. m.serial \in Serials /\ m.serial # 0 /\ m.base \in Bases
  BY <1>3, MessageFields, LimitsAssumption DEF Serials
<1>6. CASE pendingEnter[c] # m.serial
  <2>1. UNCHANGED <<sessionVars, toDaemon>>
    BY <1>3, <1>6 DEF OnAck
  <2>2. m.serial # serial[c]
    BY <1>3, <1>4, <1>5, <1>2, <1>6
       DEF ClientInv, EntryTracked, Answered, HasAnswer, IsAnswer
  <2>3. SameAnswers(c)
    BY <1>3, <1>4, <2>2, AnswersConsumed
  <2>4. ClientInv(c)'
    BY <1>1, <1>2, <1>3, <1>4, <2>1, <2>3, ConsumedKeeps DEF paneVars, sessionVars
  <2>5. QED
    BY <1>1, <1>2, <2>1, <2>4, OtherHandlers DEF TypeOK, QueuesTyped, sessionVars
<1>7. CASE pendingEnter[c] = m.serial /\ session[c] = "none"
  <2>1. /\ pendingEnter' = [pendingEnter EXCEPT ![c] = 0]
        /\ Sends(c, <<Exit>>) /\ UNCHANGED <<session, pinnedBase, serial>>
    BY <1>3, <1>7 DEF OnAck
  <2>2. /\ toDaemon' \in [Clients -> Seq(Frames)]
        /\ \A d \in Clients : d # c => toDaemon'[d] = toDaemon[d]
        /\ Grown(toDaemon[c], Exit, toDaemon'[c])
    BY <1>2, <2>1, ExitIsFrame, FrameSent
  <2>3. pendingEnter'[c] = 0 /\ session'[c] = "none" /\ serial[c] \in Nat
    BY <1>2, <1>7, <2>1, LimitsAssumption DEF TypeOK
  <2>4. EntryTracked(c)' /\ SerialsKnown(c)' /\ ExitComes(c)'
    BY <1>2, <1>3, <1>4, <1>5, <1>7, <2>1, <2>2, <2>3, ExitIsFrame, AnswerTaken
  <2>5. ClientInv(c)'
    BY <1>1, <1>2, <2>3, <2>4, Left DEF paneVars
  <2>6. /\ session' \in [Clients -> {"none", "entering", "pinned"}]
        /\ pendingEnter' \in [Clients -> 0 .. MaxSessions]
        /\ pinnedBase' \in [Clients -> Bases \cup {NoBase}]
        /\ \A d \in Clients : d # c => /\ session'[d] = session[d]
                                       /\ pendingEnter'[d] = pendingEnter[d]
                                       /\ pinnedBase'[d] = pinnedBase[d]
    BY <1>2, <2>1, LimitsAssumption DEF TypeOK
  <2>7. \A i \in DOMAIN toDaemon'[c] : toDaemon'[c][i].type = "Enter" =>
          i \in DOMAIN toDaemon[c] /\ toDaemon'[c][i] = toDaemon[c][i]
    BY <2>2, ExitIsFrame DEF Grown
  <2>8. QED
    BY <1>1, <2>1, <2>2, <2>5, <2>6, <2>7, OtherHandlers
<1>8. CASE pendingEnter[c] = m.serial /\ session[c] # "none"
  <2>1. /\ pendingEnter' = [pendingEnter EXCEPT ![c] = 0]
        /\ session' = [session EXCEPT ![c] = "pinned"]
        /\ pinnedBase' = [pinnedBase EXCEPT ![c] = m.base]
        /\ UNCHANGED serial
    BY <1>3, <1>8 DEF OnAck
  <2>2. PICK f \in Frames :
          f.type = "Fill" /\ f.serial = m.serial /\ Sends(c, <<f>>)
    <3>1. [type |-> "Fill", serial |-> m.serial] \in Frames
      BY <1>5 DEF Frames
    <3>2. QED
      BY <1>3, <1>8, <3>1 DEF OnAck, FillFor
  <2>3. /\ toDaemon' \in [Clients -> Seq(Frames)]
        /\ \A d \in Clients : d # c => toDaemon'[d] = toDaemon[d]
        /\ Grown(toDaemon[c], f, toDaemon'[c])
    BY <1>2, <2>2, FrameSent
  <2>4. /\ pendingEnter'[c] = 0 /\ session'[c] = "pinned" /\ pinnedBase'[c] = m.base
        /\ serial'[c] = serial[c] /\ serial[c] \in Nat
    BY <1>2, <2>1, LimitsAssumption DEF TypeOK
  <2>5. m.serial = serial[c]
    BY <1>2, <1>5, <1>8 DEF ClientInv, EntryTracked
  <2>6. ~ Asked(c) /\ EntryTracked(c)' /\ SerialsKnown(c)'
    BY <1>2, <1>3, <1>4, <1>5, <1>8, <2>2, <2>3, <2>4, <2>5, AnswerTaken
  <2>7. session[c] = "entering"
    BY <1>2, <1>5, <1>8 DEF ClientInv, PinnedSession, TypeOK
  <2>8. \A i \in DOMAIN toDaemon'[c] : toDaemon'[c][i].type \in {"Enter", "Exit"} =>
          i \in DOMAIN toDaemon[c] /\ toDaemon'[c][i] = toDaemon[c][i]
    BY <2>2, <2>3 DEF Grown
  <2>9. OpenSession(c)'
    <3>1. \A i \in DOMAIN toDaemon[c] : ~ EnterFollows(toDaemon[c], i, serial[c])
      BY <2>6 DEF Asked, HasEnter, EnterFollows
    <3>2. \A i \in DOMAIN toDaemon[c] : toDaemon[c][i].type # "Exit"
      BY <1>2, <2>7, <3>1 DEF ClientInv, OpenSession
    <3>3. QED
      BY <2>8, <3>2 DEF OpenSession
  <2>10. PinnedSession(c)'
    <3>1. EnteringSession(c)
      BY <1>2 DEF ClientInv
    <3>2. Holds(c, m.base)
      BY <1>3, <1>4, <2>5, <2>7, <3>1 DEF EnteringSession
    <3>3. \A i \in DOMAIN toClient'[c] :
            toClient'[c][i].type = "Data" => toClient'[c][i].serial # serial[c]
      BY <1>4, <2>7, <3>1 DEF EnteringSession, Popped
    <3>4. QED
      BY <1>1, <1>5, <2>4, <2>5, <3>2, <3>3 DEF PinnedSession, Holds, paneVars
  <2>11. EnteringSession(c)' /\ NoSession(c)'
    BY <2>4 DEF EnteringSession, NoSession
  <2>12. InvalidationTracked(c)'
    <3>1. ExitComes(c) => ExitComes(c)'
      BY <2>3 DEF ExitComes, Grown
    <3>2. \A i \in DOMAIN toClient[c] : toClient[c][i].type = "Invalidated" =>
            \E j \in DOMAIN toClient'[c] : toClient'[c][j] = toClient[c][i]
      BY <1>3, <1>4 DEF Popped
    <3>3. QED
      BY <1>1, <1>2, <3>1, <3>2 DEF ClientInv, InvalidationTracked, paneVars
  <2>13. ClientInv(c)'
    BY <2>6, <2>9, <2>10, <2>11, <2>12 DEF ClientInv
  <2>14. /\ session' \in [Clients -> {"none", "entering", "pinned"}]
         /\ pendingEnter' \in [Clients -> 0 .. MaxSessions]
         /\ pinnedBase' \in [Clients -> Bases \cup {NoBase}]
         /\ \A d \in Clients : d # c => /\ session'[d] = session[d]
                                        /\ pendingEnter'[d] = pendingEnter[d]
                                        /\ pinnedBase'[d] = pinnedBase[d]
    BY <1>2, <1>5, <2>1, LimitsAssumption DEF TypeOK
  <2>15. QED
    BY <1>1, <2>1, <2>3, <2>8, <2>13, <2>14, OtherHandlers
<1>9. QED
  BY <1>6, <1>7, <1>8

-----------------------------------------------------------------------------
\* The steps that move rows, which every client sees.

LEMMA ScrollOffKeeps == IInv /\ ScrollOff => IInv'
<1> SUFFICES ASSUME IInv, ScrollOff PROVE IInv'
  OBVIOUS
<1>1. /\ historyLen' = historyLen + 1 /\ wake' = [c \in Clients |-> TRUE]
      /\ historyLen < MaxHistory
      /\ UNCHANGED <<epoch, resizeWatermark, pins, invalidations, toDaemon,
                     toClient, connected, clientVars>>
  BY DEF ScrollOff, WakeAll
<1>2. TypeOK /\ QueuesTyped
  BY DEF IInv
<1>3. TypeOK' /\ QueuesTyped'
  BY <1>1, <1>2, LimitsAssumption DEF TypeOK, QueuesTyped, clientVars, sessionVars
<1>4. PinsAreCurrent'
  BY <1>1 DEF IInv, PinsAreCurrent
<1>5. ASSUME NEW c \in Clients PROVE BasesSound(c)'
  <2>1. BasesSound(c)
    BY DEF IInv
  <2>2. ASSUME NEW base \in Bases, Sound(base)
        PROVE  /\ base.row <= historyLen + 1
               /\ resizeWatermark <= base.row => base.epoch = epoch
    BY <1>2, <2>2, LimitsAssumption DEF Sound, TypeOK, Bases
  <2>3. painted[c] # NoBase => painted[c] \in Bases
    BY <1>2 DEF TypeOK
  <2>4. \A i \in DOMAIN toDaemon[c] :
          toDaemon[c][i].type = "Enter" => toDaemon[c][i].base \in Bases
    BY <1>2, FrameFields DEF QueuesTyped
  <2>5. \A i \in DOMAIN toClient[c] :
          toClient[c][i].type = "Update" => toClient[c][i].base \in Bases
    BY <1>2, MessageFields DEF QueuesTyped
  <2>6. QED
    BY <1>1, <2>1, <2>2, <2>3, <2>4, <2>5 DEF BasesSound, Sound, clientVars
<1>6. ASSUME NEW c \in Clients, c \in connected PROVE ClientInv(c)'
  <2>1. ClientInv(c)
    BY <1>6 DEF IInv
  <2>2. SerialsKnown(c)' /\ EntryTracked(c)' /\ OpenSession(c)'
    BY <1>1, <2>1
       DEF ClientInv, SerialsKnown, EntryTracked, OpenSession, Asked, Answered,
           clientVars, sessionVars
  <2>3. EnteringSession(c)' /\ PinnedSession(c)' /\ NoSession(c)'
    BY <1>1, <2>1
       DEF ClientInv, EnteringSession, PinnedSession, NoSession, Holds, ExitComes,
           clientVars, sessionVars
  <2>4. InvalidationTracked(c)'
    BY <1>1, <2>1 DEF ClientInv, InvalidationTracked, ExitComes
  <2>5. QED
    BY <2>2, <2>3, <2>4 DEF ClientInv
<1>7. QED
  BY <1>1, <1>3, <1>4, <1>5, <1>6 DEF IInv, clientVars, sessionVars

LEMMA ResizeKeeps ==
  ASSUME IInv, Resize, toDaemon' \in [Clients -> Seq(Frames)],
         \A c \in Clients :
           \/ toDaemon'[c] = toDaemon[c]
           \/ Popped(toDaemon[c], toDaemon'[c]) /\ toDaemon[c][1].type = "Resize"
  PROVE  IInv'
<1>1. /\ wake' = [c \in Clients |-> TRUE]
      /\ UNCHANGED <<toClient, connected, clientVars>>
      /\ \/ UNCHANGED paneVars
         \/ /\ historyLen < MaxHistory
            /\ historyLen' = historyLen + 1
            /\ InvalidatePins
  BY DEF Resize, WakeAll
<1>2. TypeOK /\ QueuesTyped
  BY DEF IInv
<1>3. ASSUME NEW c \in Clients
      PROVE  \A i \in DOMAIN toDaemon'[c] :
               \E j \in DOMAIN toDaemon[c] : toDaemon'[c][i] = toDaemon[c][j]
  BY <1>3 DEF Popped
<1>4. ASSUME NEW c \in Clients, ClientInv(c)
      PROVE  /\ SerialsKnown(c)' /\ EntryTracked(c)' /\ OpenSession(c)'
             /\ ExitComes(c) => ExitComes(c)'
  <2>1. SerialsKnown(c)'
    BY <1>1, <1>3, <1>4 DEF ClientInv, SerialsKnown, clientVars, sessionVars
  <2>2. SameAnswers(c)
    BY <1>1, <1>4 DEF SameAnswers
  <2>3. CASE toDaemon'[c] = toDaemon[c]
    BY <1>1, <1>4, <2>1, <2>2, <2>3, NoFrameKeeps
       DEF ClientInv, OpenSession, ExitComes, clientVars, sessionVars
  <2>4. CASE Popped(toDaemon[c], toDaemon'[c]) /\ toDaemon[c][1].type = "Resize"
    BY <1>1, <1>4, <2>1, <2>2, <2>4, FrameHandledKeeps
       DEF ClientInv, clientVars, sessionVars
  <2>5. QED
    BY <2>3, <2>4
<1>5. CASE UNCHANGED paneVars
  <2>1. TypeOK' /\ QueuesTyped' /\ PinsAreCurrent'
    BY <1>1, <1>2, <1>5
       DEF IInv, TypeOK, QueuesTyped, PinsAreCurrent, paneVars, clientVars, sessionVars
  <2>2. ASSUME NEW c \in Clients PROVE BasesSound(c)'
    <3>1. BasesSound(c)
      BY DEF IInv
    <3>2. QED
      BY <1>1, <1>3, <1>5, <3>1 DEF BasesSound, Sound, paneVars, clientVars
  <2>3. ASSUME NEW c \in Clients, c \in connected PROVE ClientInv(c)'
    <3>1. ClientInv(c)
      BY <2>3 DEF IInv
    <3>2. /\ SerialsKnown(c)' /\ EntryTracked(c)' /\ OpenSession(c)'
          /\ ExitComes(c) => ExitComes(c)'
      BY <1>4, <3>1
    <3>3. EnteringSession(c)'
      BY <1>1, <1>3, <1>5, <3>1
         DEF ClientInv, EnteringSession, Holds, paneVars, clientVars, sessionVars
    <3>4. PinnedSession(c)'
      BY <1>1, <1>5, <3>1
         DEF ClientInv, PinnedSession, Holds, paneVars, clientVars, sessionVars
    <3>5. NoSession(c)' /\ InvalidationTracked(c)'
      BY <1>1, <1>5, <3>1, <3>2
         DEF ClientInv, NoSession, InvalidationTracked, paneVars, clientVars, sessionVars
    <3>6. QED
      BY <3>2, <3>3, <3>4, <3>5 DEF ClientInv
  <2>4. QED
    BY <1>1, <2>1, <2>2, <2>3 DEF IInv, clientVars, sessionVars
<1>6. CASE historyLen < MaxHistory /\ historyLen' = historyLen + 1 /\ InvalidatePins
  <2>1. /\ epoch' = epoch + 1 /\ resizeWatermark' = historyLen'
        /\ pins' = [c \in Clients |-> NoBase]
        /\ invalidations' = [c \in Clients |->
             IF pins[c] # NoBase THEN "queued" ELSE invalidations[c]]
    BY <1>6 DEF InvalidatePins
  <2>2. TypeOK' /\ QueuesTyped'
    BY <1>1, <1>2, <1>6, <2>1, LimitsAssumption
       DEF TypeOK, QueuesTyped, Entries, clientVars, sessionVars
  <2>3. PinsAreCurrent'
    BY <2>1 DEF PinsAreCurrent
  <2>4. ASSUME NEW base \in Bases, base.row <= historyLen
        PROVE  base.row <= historyLen' /\ ~ (resizeWatermark' <= base.row)
    BY <1>2, <1>6, <2>1, <2>4, LimitsAssumption DEF TypeOK, Bases
  <2>5. ASSUME NEW c \in Clients PROVE BasesSound(c)'
    <3>1. BasesSound(c)
      BY DEF IInv
    <3>2. painted[c] # NoBase => painted[c] \in Bases
      BY <1>2 DEF TypeOK
    <3>3. \A i \in DOMAIN toDaemon[c] :
            toDaemon[c][i].type = "Enter" => toDaemon[c][i].base \in Bases
      BY <1>2, FrameFields DEF QueuesTyped
    <3>4. \A i \in DOMAIN toClient[c] :
            toClient[c][i].type = "Update" => toClient[c][i].base \in Bases
      BY <1>2, MessageFields DEF QueuesTyped
    <3>5. painted'[c] # NoBase => Sound(painted[c])'
      BY <1>1, <2>4, <3>1, <3>2 DEF BasesSound, Sound, clientVars
    <3>6. \A i \in DOMAIN toDaemon'[c] :
            toDaemon'[c][i].type = "Enter" =>
              /\ toDaemon'[c][i].base.row <= historyLen'
              /\ ~ (resizeWatermark' <= toDaemon'[c][i].base.row)
      BY <1>3, <2>4, <3>1, <3>3 DEF BasesSound, Sound
    <3>7. \A i \in DOMAIN toClient[c] :
            toClient[c][i].type = "Update" =>
              /\ toClient[c][i].base.row <= historyLen'
              /\ ~ (resizeWatermark' <= toClient[c][i].base.row)
      BY <2>4, <3>1, <3>4 DEF BasesSound, Sound
    <3>8. QED
      BY <1>1, <3>5, <3>6, <3>7 DEF BasesSound, Sound
  <2>6. ASSUME NEW c \in Clients, c \in connected PROVE ClientInv(c)'
    <3>1. ClientInv(c)
      BY <2>6 DEF IInv
    <3>2. /\ SerialsKnown(c)' /\ EntryTracked(c)' /\ OpenSession(c)'
          /\ ExitComes(c) => ExitComes(c)'
      BY <1>4, <3>1
    <3>3. ASSUME NEW base \in Bases, Holds(c, base)
          PROVE  invalidations'[c] # "none"
      BY <1>2, <2>1, <3>3, NoBaseAssumption DEF Holds, TypeOK
    <3>4. \A i \in DOMAIN toClient[c] :
            toClient[c][i].type = "Ack" => toClient[c][i].base \in Bases
      BY <1>2, MessageFields DEF QueuesTyped
    <3>5. EnteringSession(c)'
      BY <1>1, <1>3, <3>1, <3>3, <3>4
         DEF ClientInv, EnteringSession, Holds, clientVars, sessionVars
    <3>6. PinnedSession(c)'
      BY <1>1, <3>1, <3>3 DEF ClientInv, PinnedSession, Holds, clientVars, sessionVars
    <3>7. NoSession(c)' /\ InvalidationTracked(c)'
      BY <1>1, <2>1, <3>1, <3>2 DEF ClientInv, NoSession, InvalidationTracked
    <3>8. QED
      BY <3>2, <3>5, <3>6, <3>7 DEF ClientInv
  <2>7. QED
    BY <1>1, <2>2, <2>3, <2>5, <2>6 DEF IInv, clientVars, sessionVars
<1>7. QED
  BY <1>1, <1>5, <1>6

LEMMA HandleResizeKeeps ==
  ASSUME IInv, NEW c \in Clients, HandleResize(c)
  PROVE  IInv'
<1>1. /\ toDaemon' \in [Clients -> Seq(Frames)]
      /\ \A d \in Clients : d # c => toDaemon'[d] = toDaemon[d]
      /\ Popped(toDaemon[c], toDaemon'[c]) /\ toDaemon[c][1].type = "Resize"
  BY FrameHandled DEF IInv, HandleResize, Received
<1>2. QED
  BY <1>1, ResizeKeeps DEF HandleResize

LEMMA ResizeByOtherKeeps == IInv /\ ResizeByOther => IInv'
BY ResizeKeeps DEF ResizeByOther, IInv, QueuesTyped

-----------------------------------------------------------------------------
LEMMA Stepwise == IInv /\ [Next]_vars => IInv'
<1> SUFFICES ASSUME IInv, [Next]_vars PROVE IInv'
  OBVIOUS
<1>1. ASSUME NEW c \in Clients, Serve(c) PROVE IInv'
  BY <1>1, HandleResizeKeeps, HandleEnterKeeps, HandleExitKeeps, HandleFillKeeps,
     NotifyClientKeeps, ReleaseClientPinsKeeps DEF Serve
<1>2. ASSUME NEW c \in Clients, React(c) PROVE IInv'
  BY <1>2, OnUpdateKeeps, OnAckKeeps, OnEnterRefusedKeeps, OnDataKeeps,
     OnFillRefusedKeeps, OnInvalidatedKeeps DEF React
<1>3. ASSUME NEW c \in Clients, User(c) PROVE IInv'
  BY <1>3, EnterCopyModeKeeps, ExitCopyModeKeeps, ResizePaneKeeps,
     RequestFillKeeps, DisconnectKeeps DEF User
<1>4. ASSUME UNCHANGED vars PROVE IInv'
  <2>1. TypeOK' /\ QueuesTyped' /\ PinsAreCurrent'
    BY <1>4
       DEF IInv, TypeOK, QueuesTyped, PinsAreCurrent, vars, paneVars, netVars,
           clientVars, sessionVars
  <2>2. ASSUME NEW c \in Clients
        PROVE  /\ BasesSound(c)'
               /\ IF c \in connected' THEN ClientInv(c)' ELSE session'[c] = "none"
    <3>1. Same(c)
      BY <1>4 DEF Same, vars, paneVars, netVars, clientVars, sessionVars
    <3>2. BasesSound(c)'
      BY <1>4 DEF IInv, BasesSound, Sound, vars, paneVars, netVars, clientVars
    <3>3. QED
      BY <3>1, <3>2, Untouched DEF IInv, Same
  <2>3. QED
    BY <2>1, <2>2 DEF IInv
<1>5. QED
  BY <1>1, <1>2, <1>3, <1>4, ScrollOffKeeps, ResizeByOtherKeeps, PublishBaseKeeps
     DEF Next

LEMMA Invariance == Spec => []IInv
BY Initially, Stepwise, PTL DEF Spec

\* What a copy-mode session reads resolves against the base it was
\* acknowledged at, or is refused, and a pin names rows that no resize has
\* moved since: get_scrollback after a resize by any client, at any moment.
THEOREM Reads == Spec => []ReadsMatchTheirPin
<1>1. IInv => ReadsMatchTheirPin
  BY IInvImplies
<1>2. QED
  BY <1>1, Invariance, PTL

\* When nothing of a client is under way, its session has its pin at the
\* daemon, and a client out of copy mode has left neither a pin nor a refusal
\* behind: enter, exit, resize, refusal and invalidation in any order.
THEOREM LeavesNothing == Spec => []NothingLeftBehind
<1>1. IInv => NothingLeftBehind
  BY IInvImplies
<1>2. QED
  BY <1>1, Invariance, PTL
=============================================================================
