------------------------------- MODULE Wire -------------------------------
(***************************************************************************)
(* How a message becomes bytes and bytes become frames again               *)
(* (oakterm-protocol: frame.rs, and the idiom every encode and decode of   *)
(* message.rs, input.rs and render.rs is written in).                      *)
(*                                                                         *)
(* A payload is described by its layout, the sequence of its fields; one   *)
(* pair of operators writes and reads every layout.  Numbers are little    *)
(* endian, texts and lists carry their length in front.  That a text is    *)
(* UTF-8 is not modelled: its bytes are.                                   *)
(***************************************************************************)
EXTENDS Integers, Sequences, SequencesExt

CONSTANTS
    Base,        \* values of a byte: 256 in the program
    MaxPayload   \* MAX_PAYLOAD, 16 MiB in the program

ASSUME WireAssumption == Base \in Nat \ {0, 1} /\ MaxPayload \in Nat

-----------------------------------------------------------------------------
\* Numbers: n bytes, the lowest first.  Shifting right keeps the sign.
RECURSIVE Digits(_, _)
Digits(v, n) == IF n = 0 THEN <<>>
                ELSE <<v % Base>> \o Digits(v \div Base, n - 1)

Number(bytes, start) == FoldRight(LAMBDA b, a : a * Base + b, bytes, start)

Unsigned(bytes) == Number(bytes, 0)
Signed(bytes) == Number(bytes, IF 2 * Last(bytes) >= Base THEN -1 ELSE 0)

\* Fields.
Uint(n) == [kind |-> "nat", size |-> n]
Sint(n) == [kind |-> "int", size |-> n]
U8 == Uint(1)
U16 == Uint(2)
U32 == Uint(4)
U64 == Uint(8)
I32 == Sint(4)
I64 == Sint(8)
Flag == [kind |-> "flag", size |-> 1]
Code(n, S) == [kind |-> "code", size |-> n, codes |-> S]
Text(n) == [kind |-> "text", size |-> n]
ListOf(n, most, entry) ==
    [kind |-> "list", size |-> n, most |-> most, entry |-> entry]
NoLimit == -1
\* An optional number: a byte after it says whether it is there, or the
\* largest number says that it is not.  A missing one is the empty sequence.
Maybe(n) == [kind |-> "maybe", size |-> n]
OrMax(n) == [kind |-> "orMax", size |-> n]

RECURSIVE Written(_, _)
WrittenField(f, v) ==
    CASE f.kind \in {"nat", "int", "code"} -> Digits(v, f.size)
      [] f.kind = "flag" -> <<IF v THEN 1 ELSE 0>>
      [] f.kind = "text" -> Digits(Len(v), f.size) \o v
      [] f.kind = "list" ->
           Digits(Len(v), f.size)
             \o FlattenSeq([i \in DOMAIN v |-> Written(f.entry, v[i])])
      [] f.kind = "maybe" ->
           IF v = <<>> THEN Digits(0, f.size) \o <<0>>
           ELSE Digits(v[1], f.size) \o <<1>>
      [] f.kind = "orMax" ->
           IF v = <<>> THEN [i \in 1..f.size |-> Base - 1]
           ELSE Digits(v[1], f.size)
Written(layout, m) ==
    FlattenSeq([i \in DOMAIN layout |-> WrittenField(layout[i], m[i])])

-----------------------------------------------------------------------------
(* Reading: from the byte at, a value and where the next field begins, or  *)
(* a refusal.  Bytes left over at the end are not looked at.               *)
Refused == [ok |-> FALSE, value |-> <<>>, next |-> 0]
Got(v, next) == [ok |-> TRUE, value |-> v, next |-> next]

RECURSIVE ReadLayout(_, _, _), ReadEntries(_, _, _, _, _)

\* The field f that starts with these bytes, the number count, and goes on
\* after them.
ReadNumbered(f, data, bytes, count, after) ==
    CASE f.kind = "nat" -> Got(count, after)
      [] f.kind = "int" -> Got(Signed(bytes), after)
      [] f.kind = "flag" -> Got(count # 0, after)
      [] f.kind = "code" ->
           IF count \in f.codes THEN Got(count, after) ELSE Refused
      [] f.kind = "orMax" ->
           Got(IF \A b \in Range(bytes) : b = Base - 1 THEN <<>> ELSE <<count>>,
               after)
      [] f.kind = "maybe" ->
           IF after > Len(data) THEN Refused
           ELSE Got(IF data[after] = 0 THEN <<>> ELSE <<Signed(bytes)>>, after + 1)
      [] f.kind = "text" ->
           IF after + count - 1 > Len(data) THEN Refused
           ELSE Got(SubSeq(data, after, after + count - 1), after + count)
      [] f.kind = "list" ->
           IF f.most # NoLimit /\ count > f.most THEN Refused
           ELSE ReadEntries(f.entry, count, data, after, <<>>)

ReadField(f, data, at) ==
    LET bytes == SubSeq(data, at, at + f.size - 1)
    IN IF at + f.size - 1 > Len(data) THEN Refused
       ELSE ReadNumbered(f, data, bytes, Unsigned(bytes), at + f.size)

\* Behind the fields read, one more.
Extended(sofar, one) ==
    IF one.ok THEN Got(Append(sofar, one.value), one.next) ELSE Refused

ReadEntries(entry, count, data, at, sofar) ==
    IF count = 0 THEN Got(sofar, at)
    ELSE LET one == ReadLayout(entry, data, at)
         IN IF one.ok
            THEN ReadEntries(entry, count - 1, data, one.next,
                             Append(sofar, one.value))
            ELSE Refused

ReadLayout(layout, data, at) ==
    FoldLeft(LAMBDA acc, f :
               IF ~ acc.ok THEN acc
               ELSE Extended(acc.value, ReadField(f, data, acc.next)),
             Got(<<>>, at), layout)

Read(layout, data) == ReadLayout(layout, data, 1)

-----------------------------------------------------------------------------
(* Frames: magic, flags, type, serial and payload length, then the payload. *)
Magic == <<79 % Base, 84 % Base>>
Header == <<U8, U8, U8, U16, U32, U32>>
HeaderSize == 13

\* Frame::new refuses a payload over the limit.
Framed(code, serial, payload) == [code |-> code, serial |-> serial, payload |-> payload]
Fits(payload) == Len(payload) <= MaxPayload

FrameBytes(f) ==
    Written(Header, <<Magic[1], Magic[2], 0, f.code, f.serial, Len(f.payload)>>)
      \o f.payload

\* Variant, for mutation: the buffer is emptied with each frame.
BehindNothing(buf, size) == <<>>

Behind(buf, size) == SubSeq(buf, HeaderSize + size + 1, Len(buf))

\* What the codec finds at the front of a buffer: a frame and the bytes
\* behind it, nothing yet, or a stream that cannot be trusted any more.
Decoded(buf) ==
    LET Under(head, size) ==
            IF <<head[1], head[2]>> # Magic \/ size > MaxPayload
            THEN [found |-> "garbage"]
            ELSE IF Len(buf) < HeaderSize + size THEN [found |-> "nothing"]
            ELSE [found |-> "frame",
                  frame |-> Framed(head[4], head[5],
                                   SubSeq(buf, HeaderSize + 1, HeaderSize + size)),
                  rest  |-> Behind(buf, size)]
    IN IF Len(buf) < HeaderSize THEN [found |-> "nothing"]
       ELSE Under(Read(Header, buf).value, Read(Header, buf).value[6])
=============================================================================
