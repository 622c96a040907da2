----------------------------- MODULE ShellScan -----------------------------
(***************************************************************************)
(* The scanner that finds the shell's own marks (OSC 133) and directories  *)
(* (OSC 7) in what a pane's program prints, beside the parser, which drops *)
(* them (oakterm-terminal: shell_integration.rs).  It sees the output in   *)
(* the pieces the pty was read in.                                         *)
(*                                                                         *)
(* A byte, or a run of bytes the scanner treats as one, is a name: "osc"   *)
(* is `]`, "st" is `\`, "can" is CAN or SUB, "n" an exit code, "hex" a     *)
(* hexadecimal digit, "file" the text file://, "bad" a byte that is not    *)
(* UTF-8.  An escape and "c" are a full reset (RIS).                       *)
(***************************************************************************)
EXTENDS Sequences, Naturals, SequencesExt

CONSTANT MaxOsc    \* MAX_OSC, in names

ASSUME MaxOscAssumption == MaxOsc \in Nat \ {0}

NoMark == "NoMark"

Ground == [state |-> "Ground", buf |-> <<>>, overflowed |-> FALSE]

\* reset, abort_osc: back to ground with nothing in hand.
Abandon(s) == Ground

\* Opening a payload.
Open(s) == [state |-> "Osc", buf |-> <<>>, overflowed |-> FALSE]

PushByte(s, b) ==
    IF s.overflowed THEN s
    ELSE IF Len(s.buf) >= MaxOsc THEN [s EXCEPT !.overflowed = TRUE]
    ELSE [s EXCEPT !.buf = Append(@, b)]
-----------------------------------------------------------------------------
\* Decoding a payload.

\* split_once: what comes before the first separator, and after it.
SplitOnce(buf, sep) ==
    IF \E p \in 1 .. Len(buf) : buf[p] = sep
    THEN LET p == SelectInSeq(buf, LAMBDA c : c = sep)
         IN <<SubSeq(buf, 1, p - 1), SubSeq(buf, p + 1, Len(buf))>>
    ELSE <<buf, <<>>>>

\* parse_exit_code: the first field, if it is a number.
HasExitCode(params) == SplitOnce(params, ";")[1] = <<"n">>

Decode133(letter, params) ==
    CASE letter = <<"A">> -> <<"PromptStart">>
      [] letter = <<"B">> -> <<"InputStart">>
      [] letter = <<"C">> -> <<"OutputStart">>
      [] letter = <<"D">> /\ HasExitCode(params) -> <<"CommandFailed">>
      [] letter = <<"D">> /\ ~HasExitCode(params) -> <<"CommandFinished">>
      [] OTHER -> <<NoMark>>

\* percent_decode: an escape is one byte, and a `%` with no two digits after
\* it stands for itself.
PercentDecode(path) ==
    LET Escape(i) == /\ i + 2 <= Len(path)
                     /\ path[i] = "%" /\ path[i + 1] = "hex" /\ path[i + 2] = "hex"
        from[i \in 1 .. Len(path) + 1] ==
            IF i > Len(path) THEN <<>>
            ELSE IF Escape(i) THEN <<"byte">> \o from[i + 3]
            ELSE <<path[i]>> \o from[i + 1]
    IN from[1]

\* decode_osc7: the path starts at the first slash after the authority.
DecodeOsc7(rest) ==
    IF rest = <<>> \/ Head(rest) # "file" \/ (\E i \in DOMAIN rest : rest[i] = "bad")
    THEN <<NoMark>>
    ELSE LET slash == SelectInSeq(rest, LAMBDA c : c = "/")
         IN IF slash = 0 THEN <<NoMark>>
            ELSE <<"WorkingDirectory">> \o PercentDecode(SubSeq(rest, slash, Len(rest)))

Decode(s) ==
    LET code == SplitOnce(s.buf, ";")[1]
        rest == SplitOnce(s.buf, ";")[2]
    IN CASE s.overflowed -> <<NoMark>>
         [] ~s.overflowed /\ code = <<"133">> ->
              Decode133(SplitOnce(rest, ";")[1], SplitOnce(rest, ";")[2])
         [] ~s.overflowed /\ code = <<"7">> -> DecodeOsc7(rest)
         [] OTHER -> <<NoMark>>
-----------------------------------------------------------------------------
\* Scanning a chunk.

\* Variant, for mutation: the second of two escapes opens nothing.
AfterEscapeAborts(s, b) == Abandon(s)

\* An escape in a payload: if not the terminator, it broke the payload off,
\* and a second one may open the next.
AfterEscape(s, b) ==
    IF b = "esc" THEN [Abandon(s) EXCEPT !.state = "Esc"] ELSE Abandon(s)

\* One byte: the state it leaves the scanner in.
After(s, b) ==
    CASE s.state = "Ground" /\ b = "esc" -> [s EXCEPT !.state = "Esc"]
      [] s.state = "Esc" /\ b = "osc" -> Open(s)
      [] s.state = "Esc" /\ b \notin {"osc", "esc"} -> [s EXCEPT !.state = "Ground"]
      [] s.state = "Osc" /\ b \in {"bel", "can"} -> Abandon(s)
      [] s.state = "Osc" /\ b = "esc" -> [s EXCEPT !.state = "OscEsc"]
      [] s.state = "Osc" /\ b \notin {"bel", "can", "esc"} -> PushByte(s, b)
      [] s.state = "OscEsc" -> AfterEscape(s, b)
      [] OTHER -> s

Terminates(s, b) ==
    \/ s.state = "Osc" /\ b = "bel"
    \/ s.state = "OscEsc" /\ b = "st"

\* scan: the scanner afterwards, and the steps: how far to feed the parser,
\* and the marks to set in between.  A terminator that decodes to no mark is
\* left in the segment it is in.
Scan(scanner, chunk) ==
    LET Marked(acc, mark) ==
            IF mark = <<NoMark>> THEN acc
            ELSE [acc EXCEPT !.fed = acc.at,
                             !.steps = @ \o <<[feed |-> acc.at - acc.fed], [mark |-> mark]>>]
        Take(acc, b) ==
            Marked([acc EXCEPT !.scanner = After(@, b), !.at = @ + 1],
                   IF Terminates(acc.scanner, b) THEN Decode(acc.scanner) ELSE <<NoMark>>)
        Rest(done) ==
            [scanner |-> done.scanner,
             steps |-> IF done.fed < Len(chunk)
                       THEN Append(done.steps, [feed |-> Len(chunk) - done.fed]) ELSE done.steps]
    IN Rest(FoldLeft(Take, [scanner |-> scanner, at |-> 0, fed |-> 0, steps |-> <<>>], chunk))

\* The bytes of a chunk make the parser reset the terminal; the escape may be
\* the last byte of the chunk before.
Resets(last, chunk) ==
    \E i \in DOMAIN chunk :
        chunk[i] = "c" /\ (IF i = 1 THEN last ELSE chunk[i - 1]) = "esc"

\* ScreenSet::process_bytes, for every chunk in turn: each mark with the
\* number of bytes the parser had been fed when it was set.  A chunk is
\* scanned to its end before any of it is fed, so a reset in it
\* (ScreenSet::reset) also drops what the scanner has kept of its last bytes.
Replay(chunks) ==
    LET Do(acc, step) ==
            IF "feed" \in DOMAIN step THEN [acc EXCEPT !.fed = @ + step.feed]
            ELSE [acc EXCEPT !.set = Append(@, <<acc.fed, step.mark>>)]
        Fed(acc, scanned, chunk) ==
            [FoldLeft(Do, acc, scanned.steps) EXCEPT
                !.scanner = IF Resets(acc.last, chunk) THEN Ground ELSE scanned.scanner,
                !.last = IF chunk = <<>> THEN @ ELSE Last(chunk)]
        Process(acc, chunk) == Fed(acc, Scan(acc.scanner, chunk), chunk)
    IN FoldLeft(Process, [scanner |-> Ground, last |-> "x", fed |-> 0, set |-> <<>>], chunks)
-----------------------------------------------------------------------------
\* What a shell prints, with the mark it means by it.

Osc(payload) == <<"esc", "osc">> \o payload
FullReset == <<"esc", "c">>
Unfinished == Osc(<<"133", ";", "A">>)      \* a mark whose terminator is missing

Pieces ==
    {[bytes |-> b, means |-> <<NoMark>>] : b \in {
        <<"x">>, <<"esc">>, <<"esc", "x">>, <<"bel">>, FullReset, Unfinished,
        Osc(<<"0", ";", "x", "bel">>),                      \* a title
        Osc(<<"133", ";", "A", "can">>),                    \* cancelled
        Osc(<<"133", ";", "A", "esc">>),                    \* broken off
        Osc(<<"7", ";", "file", "x", "bel">>),              \* no path
        Osc(<<"7", ";", "file", "/", "bad", "bel">>),       \* not UTF-8
        Osc(<<"133", ";", "A", ";", "x", "x", "x", "x", "x", "x", "bel">>)}}   \* too long
    \cup {[bytes |-> Osc(<<"133", ";", "A", "bel">>), means |-> <<"PromptStart">>],
          [bytes |-> Osc(<<"133", ";", "C", ";", "x", "esc", "st">>),
           means |-> <<"OutputStart">>],
          [bytes |-> Osc(<<"133", ";", "D", ";", "n", "bel">>), means |-> <<"CommandFailed">>],
          [bytes |-> Osc(<<"133", ";", "D", ";", "x", "esc", "st">>),
           means |-> <<"CommandFinished">>],
          [bytes |-> Osc(<<"7", ";", "file", "x", "/", "%", "hex", "hex", "bel">>),
           means |-> <<"WorkingDirectory", "/", "byte">>],
          [bytes |-> Osc(<<"7", ";", "file", "/", "%", "hex", "esc", "st">>),
           means |-> <<"WorkingDirectory", "/", "%", "hex">>]}

\* Where the read that has the byte at "at" ends, of those that end at these.
ReadEnd(at, ends) == CHOOSE e \in ends : e >= at /\ \A f \in ends : f >= at => e <= f

\* What the shell means by q after p.  A bell ends an unfinished mark late.
MeantAfter(p, q) ==
    IF p.bytes = Unfinished /\ q.bytes = <<"bel">> THEN <<"PromptStart">> ELSE q.means

\* Two marks are lost: one whose sequence the end of a read cuts, in a read that
\* has a full reset in it, and one whose sequence opens straight after an
\* unfinished one, as its `ESC ]` is taken for a malformed end of that.
Lost(p, q, cut) == (p.bytes = FullReset /\ cut) \/ (p.bytes = Unfinished /\ q.bytes # <<"bel">>)

\* Every mark a shell sends but those, and no other, is set once the parser has
\* all the bytes before it and its own and none after, so on the row the cursor
\* was on when it was sent; and all bytes are fed.  This holds whatever else is
\* in the stream (sequences cancelled, broken off, unfinished or too long) and
\* wherever the reads cut it, a sequence or its terminator included.
SetWhereSent ==
    \A p, q \in Pieces :
        LET stream == p.bytes \o q.bytes
            at == Len(p.bytes)
        IN \A i, j \in 0 .. Len(stream) : i <= j =>
            LET cut == ReadEnd(at, {i, j, Len(stream)}) \in at + 1 .. Len(stream) - 1
                sent == SelectSeq(<<<<at, p.means>>,
                                    <<Len(stream), IF Lost(p, q, cut) THEN <<NoMark>>
                                                   ELSE MeantAfter(p, q)>>>>,
                                  LAMBDA s : s[2] # <<NoMark>>)
                seen == Replay(<<SubSeq(stream, 1, i), SubSeq(stream, i + 1, j),
                                 SubSeq(stream, j + 1, Len(stream))>>)
            IN seen.set = sent /\ seen.fed = Len(stream)
=============================================================================
