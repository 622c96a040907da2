---------------------------- MODULE Connections ----------------------------
(***************************************************************************)
(* A daemon's connections with one of them, Watched, in full: what its     *)
(* client writes as bytes, what handle_client reads, decodes, dispatches   *)
(* and answers, and what the client makes of the answers (oakterm-daemon:  *)
(* server/mod.rs, framing.rs, requests/mod.rs; oakterm: daemon_conn.rs;    *)
(* oakterm-ctl: client.rs).                                                *)
(*                                                                         *)
(* The other connections and the main loop are DaemonLifecycle's.  What a  *)
(* request does to the daemon's state is not modelled here: a request that *)
(* can fail is answered or refused.  The client is the GUI, which sends    *)
(* without waiting, or oakterm-ctl, which runs one command and exits.      *)
(***************************************************************************)
EXTENDS DaemonLifecycle, Messages, FiniteSetsExt

CONSTANTS
    Watched,     \* the connection modelled in full
    Majors,      \* protocol major versions of the clients about
    MaxHello,    \* MAX_HANDSHAKE_BYTES
    ChunkSize,   \* a read takes so many bytes, or all there are
    MaxSaid,     \* messages the GUI sends, at most
    MaxNotices,  \* pushes of the daemon, at most
    MaxSerial    \* u32::MAX

ASSUME ConnectionsAssumption ==
    /\ Watched \in Conns
    /\ ChunkSize \in Nat \ {0} /\ MaxSerial \in Nat /\ MaxSerial > 10

VARIABLES
    client,   \* [who, major, at, serial, todo, open, verdict]
    up, down, \* bytes to the daemon, frames to the client
    buf,      \* read_buf
    stage,    \* where the connection's task is while it serves
    notices,  \* pushes so far
    said,     \* what the client sent since it was greeted
    heard,    \* what was dispatched, done or dropped by the gate
    answers   \* [to, taken]: what an answer answers and what it was taken for

wireVars == <<client, up, down, buf, stage, notices, said, heard, answers>>
allVars == <<vars, wireVars>>

Major == 1
Minor == 5
Accepted == 0
VersionMismatch == 1

-----------------------------------------------------------------------------
\* Contents to send: each field once small and once not.
RECURSIVE Example(_, _)
ExampleField(f, big) ==
    CASE f.kind = "nat" -> IF big THEN Base ^ (f.size - 1) + f.size ELSE 0
      [] f.kind = "int" -> IF big THEN - Base - 1 ELSE f.size
      [] f.kind = "flag" -> big
      [] f.kind = "code" -> IF big THEN Max(f.codes) ELSE Min(f.codes)
      [] f.kind = "text" -> IF big THEN <<1, 0>> ELSE <<>>
      [] f.kind = "list" ->
           IF big THEN <<Example(f.entry, FALSE), Example(f.entry, TRUE)>> ELSE <<>>
      [] f.kind = "maybe" -> IF big THEN << - 2>> ELSE <<>>
      [] f.kind = "orMax" -> IF big THEN <<3>> ELSE <<>>
Example(layout, big) == [i \in DOMAIN layout |-> ExampleField(layout[i], big)]
Contents(m) == {Example(m.layout, big) : big \in BOOLEAN}

GuiSays == Requests \cup Pushes
Few == <<RequestShutdown, GetScrollback>>
\* oakterm-ctl: pane list, pane input, pane output, pane output --lines.
Commands == {<<ListPanes>>, <<ListPanes, KeyInput, Ping>>, <<GetRenderUpdate>>,
             <<GetScrollback>>}

Hello == <<client.major, Minor, IF client.who = "gui" THEN 0 ELSE 1, <<1, 2>>>>
Welcome(status) == <<status, Major, Minor, <<3>>>>

FrameOf(m, serial, content) == Framed(m.code, serial, Written(m.layout, content))

\* A frame to the client, and which message of it the frame answers: 0, none.
ToClient(m, serial, content, to) ==
    [frame |-> FrameOf(m, serial, content), to |-> to]

CInit ==
    /\ Init
    /\ client \in
         {[who |-> "gui", major |-> v, at |-> "away", serial |-> 10,
           todo |-> <<>>, open |-> <<>>, verdict |-> "none"] : v \in Majors}
         \cup
         {[who |-> "ctl", major |-> Major, at |-> "away", serial |-> 2,
           todo |-> t, open |-> <<>>, verdict |-> "none"] : t \in Commands}
    /\ up = <<>> /\ down = <<>> /\ buf = <<>>
    /\ stage = "reading" /\ notices = 0
    /\ said = <<>> /\ heard = <<>> /\ answers = {}

-----------------------------------------------------------------------------
(* The daemon's side.                                                      *)

SocketOpen ==
    /\ conn[Watched] \in {"backlog", "accepted", "handshake", "serving"}
    /\ server # "exited"
Closed == client.at = "closed"

\* With both ends gone there is nothing left to compare.
Forget == said' = <<>> /\ heard' = <<>> /\ answers' = {}

\* read_frame appends what the socket has: all of it or, when it comes in
\* pieces, a piece.
Chunks == {n \in {ChunkSize, Len(up)} : n \in 1..Len(up)}

Reading(n) ==
    /\ n \in Chunks
    /\ up' = SubSeq(up, n + 1, Len(up))

Received(n) == buf \o SubSeq(up, 1, n)

\* The length the front frame advertises is looked at before anything else.
TooLong(b) == Len(b) >= HeaderSize /\ Read(Header, b).value[6] > MaxHello

\* A hello in pieces is waited for.
Greet ==
    \E n \in Chunks :
      LET b == Received(n)
          d == Decoded(b)
          hello == Read(ClientHello.layout, d.frame.payload)
          Welcomed(status) ==
              down' = Append(down, ToClient(ServerHello, d.frame.serial,
                                            Welcome(status), 0))
      IN /\ conn[Watched] = "handshake"
         /\ Reading(n)
         /\ \/ /\ ~ TooLong(b) /\ d.found = "nothing"
               /\ buf' = b
               /\ Alive
               /\ UNCHANGED <<server, connVars, count, signals, expired, down>>
            \/ /\ \/ TooLong(b) \/ d.found = "garbage"
                  \/ d.found = "frame" /\ (d.frame.code # ClientHello.code \/ ~ hello.ok)
               /\ HandshakeFails(Watched)
               /\ UNCHANGED <<buf, down>>
            \/ /\ ~ TooLong(b) /\ d.found = "frame"
               /\ d.frame.code = ClientHello.code /\ hello.ok
               /\ buf' = d.rest
               /\ IF hello.value[1] = Major
                  THEN HandshakeDone(Watched) /\ Welcomed(Accepted)
                  ELSE HandshakeFails(Watched) /\ Welcomed(VersionMismatch)
         /\ UNCHANGED <<client, stage, notices, said, heard, answers>>

\* The timeout, or the client is gone.
GiveUpGreeting ==
    /\ HandshakeFails(Watched)
    /\ UNCHANGED wireVars

\* Bound: any message, answer or notice is sent on an otherwise unused daemon,
\* which stays so; beside other connections, some requests are and no notice.
Alone == \A c \in Conns \ {Watched} : conn[c] = "absent"
Usual ==
    /\ \A i \in DOMAIN said :
         said[i].code \in {Detach.code} \cup {Few[j].code : j \in DOMAIN Few \cap {i}}
    /\ notices = 0

\* An arm of the select: bytes.
ReadBytes ==
    /\ conn[Watched] = "serving" /\ Alive
    /\ stage = "reading"
    /\ \E n \in Chunks : Reading(n) /\ buf' = Received(n)
    /\ stage' = "dispatching"
    /\ UNCHANGED <<server, connVars, count, signals, expired>>
    /\ UNCHANGED <<client, down, notices, said, heard, answers>>

\* ... the end of the stream, or a failed write before.
HangUp ==
    /\ \/ stage = "reading" /\ Closed /\ up = <<>>
       \/ stage = "broken"
    /\ Disconnect(Watched)
    /\ UNCHANGED wireVars

\* A write to a client that has hung up fails and ends the connection.
Write(frames, next) ==
    IF Closed THEN stage' = "broken" /\ UNCHANGED down
    ELSE stage' = next /\ down' = down \o frames

\* Every answer carries the serial of its request.
Answer(m, request, content) ==
    ToClient(m, request.serial, content, Len(heard) + 1)

Refusals(request) ==
    {Answer(ErrorMessage, request, <<1, <<2>>>>)}

\* What handle_request may give back: an answer or a refusal.  A type it does
\* not know is ignored.
Replies(m, request) ==
    (IF m \in Requests
     THEN {<<Answer(AnswerTo(m), request, Example(AnswerTo(m).layout, big))>> :
            big \in IF Alone THEN BOOLEAN ELSE {TRUE}}
     ELSE {<<>>})
      \cup (IF m \in NeverFails THEN {} ELSE {<<r>> : r \in Refusals(request)})

\* Variant, for mutation: one frame for each read of the socket.
DispatchEndFirst == "reading"

\* After a frame, the next one in the buffer.
DispatchEnd == "dispatching"

\* A frame of the buffer, with what is behind it.
HandleFrame(m, frame, rest) ==
    LET Took(done) ==
            heard' = Append(heard, [code |-> m.code, done |-> done, payload |->
                       Written(m.layout, Read(m.layout, frame.payload).value)])
        Quiet == UNCHANGED <<server, connVars, count, signals, expired>>
    IN /\ buf' = rest
       \* The save went well, or another shutdown is under way: whatever is
       \* still in the buffer stays there.
       /\ \/ /\ m = RequestShutdown
             /\ Took(TRUE)
             /\ AcceptShutdown(Watched)
             /\ Write(<<Answer(ShutdownAck, frame, <<0>>)>>, "reading")
          \/ /\ m = RequestShutdown /\ ~ term
             /\ Took(TRUE)
             /\ Write(<<Answer(ShutdownAck, frame, <<1>>)>>, DispatchEnd)
             /\ Quiet
          \* The gate lets nothing through once a termination is signalled.
          \/ /\ m # RequestShutdown /\ term
             /\ Took(FALSE)
             /\ Quiet /\ UNCHANGED <<down, stage>>
          \/ /\ m = Detach /\ ~ term
             /\ Took(TRUE)
             /\ stage' = "broken"
             /\ Quiet /\ UNCHANGED down
          \/ /\ m \notin {RequestShutdown, Detach} /\ ~ term
             /\ Took(TRUE)
             /\ \E r \in Replies(m, frame) :
                  IF r = <<>> THEN stage' = DispatchEnd /\ UNCHANGED down
                  ELSE Write(r, DispatchEnd)
             /\ Quiet

\* One turn of dispatch_incoming.
Dispatch ==
    LET d == Decoded(buf)
    IN /\ conn[Watched] = "serving" /\ Alive
       /\ stage = "dispatching"
       /\ \/ /\ d.found = "nothing"
             /\ stage' = "reading"
             /\ UNCHANGED <<server, connVars, count, signals, expired>>
             /\ UNCHANGED <<buf, down, heard>>
          \/ /\ d.found = "garbage"
             /\ stage' = "broken" /\ buf' = <<>>
             /\ UNCHANGED <<server, connVars, count, signals, expired>>
             /\ UNCHANGED <<down, heard>>
          \/ /\ d.found = "frame"
             /\ HandleFrame(MessageOf[d.frame.code], d.frame, d.rest)
       /\ UNCHANGED <<client, up, notices, said, answers>>

\* Another arm: a pane is dirty.  Notices carry serial 0.
Notify ==
    /\ conn[Watched] = "serving" /\ Alive
    /\ stage = "reading"
    /\ Alone /\ notices < MaxNotices
    /\ notices' = notices + 1
    /\ \E m \in Notices :
         Write(<<ToClient(m, 0, Example(m.layout, TRUE), 0)>>, "reading")
    /\ UNCHANGED <<server, connVars, count, signals, expired>>
    /\ UNCHANGED <<client, up, buf, said, heard, answers>>

\* And the termination: the connection is told and closed.
Terminate ==
    /\ stage = "reading"
    /\ TermArm(Watched)
    /\ IF Closed THEN UNCHANGED down
       ELSE down' = Append(down, ToClient(Shutdown, 0, <<0>>, 0))
    /\ UNCHANGED <<client, up, buf, stage, notices, said, heard, answers>>

\* The task's end; what was not read is lost with the socket.
EndTask ==
    /\ Leave(Watched) \/ SignalIdle(Watched)
    /\ up' = <<>> /\ buf' = <<>> /\ stage' = "reading"
    /\ IF Closed THEN Forget ELSE UNCHANGED <<said, heard, answers>>
    /\ UNCHANGED <<client, down, notices>>

WatchedTask ==
    \/ Subscribe(Watched) /\ UNCHANGED wireVars
    \/ Greet \/ GiveUpGreeting \/ ReadBytes \/ HangUp \/ Dispatch
    \/ Terminate \/ EndTask

-----------------------------------------------------------------------------
(* The client's side.                                                      *)

Become(at) == client' = [client EXCEPT !.at = at]

Keep == UNCHANGED <<said, heard, answers>>
KeepUnlessOver == IF conn[Watched] \in {"last", "gone", "refused"} THEN Forget ELSE Keep

\* connect, then the hello.
Dial ==
    /\ Connect(Watched)
    /\ up' = FrameBytes(FrameOf(ClientHello, 1, Hello))
    /\ Become("greeting")
    /\ UNCHANGED <<down, buf, stage, notices, said, heard, answers>>

Hang(verdict) ==
    /\ client' = [client EXCEPT !.at = "closed", !.open = <<>>, !.todo = <<>>,
                                !.verdict = verdict]
    /\ down' = <<>>

Idle == UNCHANGED <<persist, server, connVars, count, signals, expired>>

Greeted ==
    LET hello == Read(ServerHello.layout, Head(down).frame.payload)
    IN /\ client.at = "greeting" /\ down # <<>>
       /\ IF /\ Head(down).frame.code = ServerHello.code
             /\ hello.ok /\ hello.value[1] = Accepted
          THEN Become("ready") /\ down' = Tail(down)
          ELSE Hang("failed")
       /\ Idle /\ KeepUnlessOver /\ UNCHANGED <<up, buf, stage, notices>>

\* Serial 0 marks a push; the App leaves those up to 9 to others.
NextSerial(c) ==
    IF c.serial < MaxSerial THEN c.serial + 1
    ELSE IF c.who = "gui" THEN 10 ELSE 1

\* What is sent when: pushes under serial 0, the GUI's render requests under
\* 1, anything else under a number of its own.
SerialFor(m) ==
    IF m \in Pushes \cup {Detach} THEN 0
    ELSE IF client.who = "gui" /\ m = GetRenderUpdate THEN 1
    ELSE client.serial

Say(m, content, todo) ==
    LET serial == SerialFor(m)
    IN /\ client.at = "ready" /\ SocketOpen
       /\ up' = up \o FrameBytes(FrameOf(m, serial, content))
       /\ said' = Append(said, [code |-> m.code,
                              payload |-> Written(m.layout, content)])
       /\ client' = [client EXCEPT
            !.todo = todo,
            !.serial = IF serial = client.serial THEN NextSerial(client) ELSE @,
            !.open = IF m \in Requests
                     THEN Append(@, [serial |-> serial, code |-> m.code,
                                     index |-> Len(said) + 1])
                     ELSE @]
       /\ Idle /\ UNCHANGED <<down, buf, stage, notices, heard, answers>>

GuiSay ==
    /\ client.who = "gui"
    /\ \/ /\ said = <<>> /\ Alone
          /\ \E m \in GuiSays : Say(m, Example(m.layout, TRUE), <<>>)
       \/ /\ Usual /\ Len(said) < MaxSaid
          /\ LET m == Few[Len(said) + 1]
             IN Say(m, Example(m.layout, FALSE), <<>>)

CtlSay ==
    /\ client.who = "ctl"
    /\ client.todo # <<>> /\ client.open = <<>>
    /\ Say(Head(client.todo), Example(Head(client.todo).layout, TRUE),
           Tail(client.todo))

\* The reader thread hands every frame on; one that answers an open request
\* settles the oldest of its serial.  An undecodable screen update or
\* invalidation disconnects.
GuiReceive ==
    LET f == Head(down).frame
        m == MessageOf[f.code]
        matches == {i \in DOMAIN client.open : client.open[i].serial = f.serial}
        bad == /\ m \in {RenderUpdate, CopyModeInvalidated}
               /\ ~ Read(m.layout, f.payload).ok
    IN /\ client.who = "gui" /\ client.at = "ready" /\ down # <<>>
       /\ IF bad THEN Hang("failed") /\ UNCHANGED answers
          ELSE /\ down' = Tail(down)
               /\ IF matches = {} THEN UNCHANGED <<client, answers>>
                  ELSE LET i == Min(matches)
                       IN /\ client' = [client EXCEPT !.open = RemoveAt(@, i)]
                          /\ answers' = answers \cup
                               {[to |-> Head(down).to, taken |-> client.open[i].index]}
       /\ Idle /\ UNCHANGED <<up, buf, stage, notices, said, heard>>

\* request() drains what does not carry its serial.
IsMine(f, ask) == f.serial = ask.serial

CtlReceive ==
    LET f == Head(down).frame
        ask == Head(client.open)
        answer == AnswerTo(MessageOf[ask.code])
    IN /\ client.who = "ctl" /\ client.at = "ready"
       /\ client.open # <<>> /\ down # <<>>
       /\ IF ~ IsMine(f, ask)
          THEN down' = Tail(down) /\ UNCHANGED <<client, answers>>
          ELSE /\ answers' = answers \cup {[to |-> Head(down).to, taken |-> ask.index]}
               /\ IF f.code = answer.code /\ Read(answer.layout, f.payload).ok
                  THEN /\ client' = [client EXCEPT !.open = <<>>]
                       /\ down' = Tail(down)
                  ELSE Hang("failed")
       /\ Idle /\ UNCHANGED <<up, buf, stage, notices, said, heard>>

\* The command is through.
CtlDone ==
    /\ client.who = "ctl" /\ client.at = "ready"
    /\ client.todo = <<>> /\ client.open = <<>>
    /\ Hang("ok")
    /\ Idle /\ KeepUnlessOver /\ UNCHANGED <<up, buf, stage, notices>>

\* No answer in ten seconds.
CtlGivesUp ==
    /\ client.who = "ctl" /\ client.at \in {"greeting", "ready"}
    /\ down = <<>>
    /\ Hang("failed")
    /\ Idle /\ KeepUnlessOver /\ UNCHANGED <<up, buf, stage, notices>>

\* The daemon has closed the socket: the end of the stream, or a failed write.
SeeEnd ==
    /\ client.at \in {"greeting", "ready"} /\ ~ SocketOpen
    /\ \/ down = <<>>
       \/ client.todo # <<>> /\ client.open = <<>>
    /\ Hang("failed")
    /\ Idle /\ KeepUnlessOver /\ UNCHANGED <<up, buf, stage, notices>>

\* The window closes: Detach, then the socket.  A crash just closes it.
Quit ==
    /\ client.who = "gui" /\ client.at = "ready" /\ SocketOpen
    /\ Hang("ok")
    /\ \/ /\ up' = up \o FrameBytes(FrameOf(Detach, 0, <<>>))
          /\ said' = Append(said, [code |-> Detach.code, payload |-> <<>>])
       \/ UNCHANGED <<up, said>>
    /\ Idle /\ UNCHANGED <<buf, stage, notices, heard, answers>>

ClientReads == Greeted \/ GuiReceive \/ CtlReceive \/ SeeEnd

-----------------------------------------------------------------------------
OtherStep ==
    \/ RunStep \/ DrainExpires
    \/ \E c \in Conns \ {Watched} :
         \/ TaskStep(c)
         \/ Usual /\ Connect(c)
         \/ HandshakeDone(c) \/ AcceptShutdown(c) \/ Disconnect(c)

CNext ==
    \/ OtherStep /\ UNCHANGED <<persist, wireVars>>
    \/ (WatchedTask \/ Notify \/ Dial) /\ UNCHANGED persist
    \/ ClientReads \/ GuiSay \/ CtlSay \/ CtlDone \/ CtlGivesUp \/ Quit

\* When WatchedTask, and ClientReads, are enabled.
TaskCanRun ==
    /\ Alive
    /\ \/ conn[Watched] \in {"accepted", "handshake", "releasing", "last"}
       \/ /\ conn[Watched] = "serving"
          /\ \/ stage # "reading" \/ up # <<>> \/ Closed
             \/ term /\ ~ seen[Watched]

ClientCanRead ==
    \/ client.at = "greeting" /\ (down # <<>> \/ ~ SocketOpen)
    \/ client.at = "ready" /\ down # <<>>
         /\ (client.who = "gui" \/ client.open # <<>>)
    \/ client.at = "ready" /\ ~ SocketOpen
         /\ \/ down = <<>>
            \/ client.todo # <<>> /\ client.open = <<>>

\* As in DaemonLifecycle, with the client's reader, a thread of its own, and
\* oakterm-ctl, which goes on with its command.
CSpec ==
    /\ CInit /\ [][CNext]_allVars
    /\ WF_allVars(RunStep /\ UNCHANGED <<persist, wireVars>>)
    /\ \A c \in Conns \ {Watched} :
         WF_allVars(TaskStep(c) /\ UNCHANGED <<persist, wireVars>>)
    /\ ([]<>~ TaskCanRun) \/ []<><<WatchedTask>>_allVars
    /\ ([]<>~ ClientCanRead) \/ []<><<ClientReads>>_allVars

-----------------------------------------------------------------------------
\* Among the types: DaemonLifecycle's, and that only a connection being
\* served has something to dispatch.
LinkTypeOK ==
    /\ TypeOK
    /\ client.at \in {"away", "greeting", "ready", "closed"}
    /\ client.serial \in 1..MaxSerial
    /\ stage \in {"reading", "dispatching", "broken"}
    /\ notices \in 0..MaxNotices
    /\ stage # "reading" => conn[Watched] \notin {"accepted", "handshake"}
    /\ \A i \in DOMAIN client.open : client.open[i].index \in DOMAIN said

\* However the bytes arrive, what the daemon dispatches is what the client
\* sent, from the first message on and in order, and what the client reads is
\* what the daemon meant (the same message would be written the same way).
ArrivesIntact ==
    /\ Len(heard) <= Len(said)
    /\ \A i \in DOMAIN heard :
         heard[i].code = said[i].code /\ heard[i].payload = said[i].payload
    /\ \A i \in DOMAIN down :
         LET f == down[i].frame
             m == MessageOf[f.code]
             r == Read(m.layout, f.payload)
         IN r.ok /\ Written(m.layout, r.value) = f.payload

\* An answer is taken for the answer of the request it answers, and
\* oakterm-ctl reports success only when the daemon has handled all it sent:
\* the input of a pane above all, which nothing answers.
AnswersMatch ==
    /\ \A a \in answers : a.to = a.taken
    /\ client.who = "ctl" /\ client.verdict = "ok" =>
         /\ Len(heard) = Len(said)
         /\ \A i \in DOMAIN heard : heard[i].done

\* What is heard is what was said, in both directions, and taken for what it
\* answers.
HeardAsSaid == LinkTypeOK /\ ArrivesIntact /\ AnswersMatch

\* A request is settled, or the connection ends: none waits for ever in a
\* buffer, whatever was pipelined around it.
RequestsSettle == client.open # <<>> ~> client.open = <<>>
=============================================================================
