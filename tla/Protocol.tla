------------------------------ MODULE Protocol ------------------------------
(***************************************************************************)
(* The frames of the wire and of the AOF.                                  *)
(*                                                                         *)
(* The input under construction is a list of strings, which grows by a     *)
(* string or a byte at a time.  The properties hold the decoder of Resp2   *)
(* against its encoder; ProtocolProofs proves them.                        *)
(***************************************************************************)
EXTENDS Resp2, Draft

CONSTANTS
    FrameBytes,     \* bytes a string in a frame is made of
    MaxFrame        \* bound: strings and bytes of a frame

ASSUME ProtocolAssumption == FrameBytes \subseteq Byte /\ MaxDepth >= 2

FrameSize(strings) ==
    LET size[n \in 0..Len(strings)] == IF n = 0 THEN 0 ELSE size[n - 1] + 1 + Len(strings[n])
    IN  size[Len(strings)]

Extensible == input.kind = "frame" /\ FrameSize(input.body) < MaxFrame

AddString == Extensible /\ Extend("frame", <<>>)

AddFrameByte ==
    /\ Extensible /\ input.body # <<>>
    /\ \E byte \in FrameBytes : input' = [input EXCEPT !.body[Len(input.body)] = Append(@, byte)]

-----------------------------------------------------------------------------
(***************************************************************************)
(* Frames.  LongString has a length of two digits.                         *)
(***************************************************************************)
LongString == [i \in 1..10 |-> 97]
Entry(strings) == encode(Request(Append(strings, LongString)))

(* The values made from the strings; a simple string has no line feed.     *)
OneLine(s) == \A i \in DOMAIN s : s[i] # LF

Frames(strings) ==
    LET simple == {strings[i] : i \in {j \in DOMAIN strings : OneLine(strings[j])}}
    IN  {Request(strings), Request(Append(strings, LongString))}
        \cup {SimpleString(s) : s \in simple} \cup {SimpleError(s) : s \in simple}
        \cup {Array(<<Request(strings), Integer(-Len(strings)), BulkString(None), Array(None)>>)}

RoundTripOf(v, rest) == decode(encode(v) \o rest) = Decoded(v, rest)

(* A value that is encoded and decoded is the value, and the decoder stops *)
(* exactly where the next frame begins, whatever bytes the strings hold:   *)
(* commands in the AOF and pipelined requests depend on nothing else.  A   *)
(* simple string with a line feed in it is the exception.                  *)
RoundTrip ==
    input.kind = "frame" =>
        \A v \in Frames(input.body) : \A rest \in {<<>>, CRLF, encode(Integer(12))} : RoundTripOf(v, rest)

TornIsNoEntry(entry, n) ==
    LET torn == SubSeq(entry, 1, n)
        r == decode(torn)
        joined == decode(torn \o entry)
    IN  /\ IsError(r) /\ r.resp_error \in {"UnexpectedEof", "InvalidInteger"}
        /\ IsError(joined) \/ Len(joined.rest) < Len(entry)

(* What a crash leaves of an entry of the AOF is never taken for a whole   *)
(* one: a proper prefix of an entry decodes to the end of the file or to   *)
(* an invalid integer, and the entry that is appended after it is never    *)
(* read as itself, because the decoder has taken bytes of it by then.      *)
TornEntryIsNoEntry ==
    input.kind = "frame" =>
        \A n \in 1..(Len(Entry(input.body)) - 1) : TornIsNoEntry(Entry(input.body), n)
=============================================================================
