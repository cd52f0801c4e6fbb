------------------------------- MODULE Resp2 -------------------------------
(***************************************************************************)
(* The RESP2 codec, resp2.rs, on sequences of bytes.  The asynchronous and *)
(* the synchronous decoder are two expansions of the same macros and one   *)
(* operator here.  A decoder returns the value and the bytes it has left   *)
(* in the stream, or an error.                                             *)
(*                                                                         *)
(* decode and encode call themselves for the items of an array.  Here they *)
(* are recursive functions: the decoder of n bytes calls the one of n - 1  *)
(* bytes, for an array has a header, and the encoder of values of depth d  *)
(* the one of depth d - 1.                                                 *)
(***************************************************************************)
EXTENDS Types

CONSTANTS MaxDepth   \* bound: how deep the arrays of a value are nested

(* The values with arrays nested up to d deep, and the simple strings of a *)
(* set of texts.                                                           *)
Scalar(texts) ==
    ({"SimpleString", "SimpleError"} \X texts) \cup ({"Integer"} \X Int)
    \cup ({"BulkString"} \X (Seq(Byte) \cup {None})) \cup ({"Array"} \X {None})

Values(texts) ==
    LET value[d \in 0..MaxDepth] ==
            IF d = 0 THEN Scalar(texts) ELSE Scalar(texts) \cup ({"Array"} \X Seq(value[d - 1]))
    IN  value

RespValue == Values(Seq(Byte))

ASSUME Resp2Assumption ==
    /\ MaxDepth \in Nat
    /\ None \notin Int /\ None \notin Seq(Byte)
    /\ \A d \in 0..MaxDepth : None \notin Seq(RespValue[d])

CR == 13
LF == 10
CRLF == <<CR, LF>>
Plus == 43
Minus == 45
Colon == 58
Dollar == 36
Asterisk == 42

Decoded(v, rest) == [value |-> v, rest |-> rest]
RespError(e) == [resp_error |-> e]
IsError(r) == "resp_error" \in DOMAIN r

(***************************************************************************)
(* Decimal text, as str::parse::<i64> reads it and Display writes it.      *)
(***************************************************************************)
digits_value(ds) ==
    LET value[n \in 0..Len(ds)] == IF n = 0 THEN 0 ELSE 10 * value[n - 1] + (ds[n] - 48)
    IN  value[Len(ds)]

parse_i64(text) ==
    LET signed == text # <<>> /\ text[1] \in {Plus, Minus}
        ds == IF signed THEN Tail(text) ELSE text
    IN  IF ds = <<>> \/ \E i \in DOMAIN ds : ds[i] \notin 48..57 THEN None
        ELSE IF text[1] = Minus THEN -digits_value(ds) ELSE digits_value(ds)

decimal(n) ==
    LET text[m \in 0..n] == IF m < 10 THEN <<48 + m>> ELSE Append(text[m \div 10], 48 + (m % 10))
    IN  text[n]

to_text(n) == IF n < 0 THEN <<Minus>> \o decimal(-n) ELSE decimal(n)

(***************************************************************************)
(* The reader.  A line ends after its first LF, or with the stream.  Bytes *)
(* are those of ASCII text: the model has no invalid UTF-8.                *)
(***************************************************************************)
line_length(stream) ==
    LET ends == {i \in DOMAIN stream : stream[i] = LF}
    IN  IF ends = {} THEN Len(stream) ELSE CHOOSE i \in ends : \A j \in ends : i <= j

read_line(stream) ==
    [line |-> SubSeq(stream, 1, line_length(stream)),
     rest |-> SubSeq(stream, line_length(stream) + 1, Len(stream))]

(* The line without its prefix byte and its line break. *)
parse_header(line) ==
    LET text == Tail(line)
        n == Len(text)
    IN  IF n >= 2 /\ text[n - 1] = CR /\ text[n] = LF THEN SubSeq(text, 1, n - 2) ELSE text

parse_length(text) ==
    LET n == parse_i64(text) IN IF n # None /\ n >= -1 THEN n ELSE None

(* Mutant: a body is complete without its line break. *)
parse_bulk_string_lenient(text, stream) ==
    LET n == parse_length(text)
    IN  CASE n = None -> RespError("InvalidInteger")
          [] n = -1 -> Decoded(BulkString(None), stream)
          [] OTHER -> IF Len(stream) < n THEN RespError("UnexpectedEof")
                      ELSE Decoded(BulkString(SubSeq(stream, 1, n)),
                                   SubSeq(stream, n + 3, Len(stream)))

(* The body and two bytes more, which are not looked at.  The code         *)
(* allocates them before it reads: that a length beyond the memory is a    *)
(* panic, not an unexpected end of file, is left out (no stream here       *)
(* spells such a length).                                                  *)
parse_bulk_string(text, stream) ==
    LET n == parse_length(text)
    IN  CASE n = None -> RespError("InvalidInteger")
          [] n = -1 -> Decoded(BulkString(None), stream)
          [] OTHER -> IF Len(stream) < n + 2 THEN RespError("UnexpectedEof")
                      ELSE Decoded(BulkString(SubSeq(stream, 1, n)),
                                   SubSeq(stream, n + 3, Len(stream)))

(* n values, one after the other, by the decoder given. *)
decode_items(decoder, n, stream) ==
    LET items[k \in 0..n] ==
            LET before == items[k - 1]
                r == decoder[before.rest]
            IN  IF k = 0 THEN Decoded(<<>>, stream)
                ELSE IF IsError(before) THEN before
                ELSE IF IsError(r) THEN r
                ELSE Decoded(Append(before.value, r.value), r.rest)
    IN  items[n]

parse_array(decoder, text, stream) ==
    LET n == parse_length(text)
        items == decode_items(decoder, n, stream)
    IN  CASE n = None -> RespError("InvalidInteger")
          [] n = -1 -> Decoded(Array(None), stream)
          [] OTHER -> IF IsError(items) THEN items ELSE Decoded(Array(items.value), items.rest)

decode_by(decoder, stream) ==
    LET r == read_line(stream)
        text == parse_header(r.line)
        n == parse_i64(text)
        prefix == r.line[1]
    IN  IF stream = <<>> THEN RespError("UnexpectedEof")
        ELSE CASE prefix = Plus -> Decoded(SimpleString(text), r.rest)
               [] prefix = Minus -> Decoded(SimpleError(text), r.rest)
               [] prefix = Colon -> IF n = None THEN RespError("InvalidInteger")
                                    ELSE Decoded(Integer(n), r.rest)
               [] prefix = Dollar -> parse_bulk_string(text, r.rest)
               [] prefix = Asterisk -> parse_array(decoder, text, r.rest)
               [] OTHER -> RespError("UnknownPrefix")

(* The streams of at most n bytes. *)
Streams(n) == {s \in Seq(Byte) : Len(s) <= n}

(* No stream is too long for the decoder of its own length. *)
decode(stream) ==
    LET decoder[n \in 0..Len(stream)] ==
            [s \in Streams(n) |-> decode_by(IF n = 0 THEN <<>> ELSE decoder[n - 1], s)]
    IN  decoder[Len(stream)][stream]

(***************************************************************************)
(* Encoding.                                                               *)
(***************************************************************************)
(* Mutant: the length of the text counts its line break. *)
encode_bulk_string_long(s) ==
    IF s = None THEN <<Dollar>> \o to_text(-1) \o CRLF
    ELSE <<Dollar>> \o to_text(Len(s) + 2) \o CRLF \o s \o CRLF

encode_bulk_string(s) ==
    IF s = None THEN <<Dollar>> \o to_text(-1) \o CRLF
    ELSE <<Dollar>> \o to_text(Len(s)) \o CRLF \o s \o CRLF

(* The items, one after the other, by the encoder given. *)
encode_items(encoder, items) ==
    LET last[n \in 0..Len(items)] ==   \* the last n of them
            IF n = 0 THEN <<>> ELSE encoder[items[Len(items) - n + 1]] \o last[n - 1]
    IN  last[Len(items)]

encode_array(encoder, items) ==
    IF items = None THEN <<Asterisk>> \o to_text(-1) \o CRLF
    ELSE <<Asterisk>> \o to_text(Len(items)) \o CRLF \o encode_items(encoder, items)

encode_by(encoder, v) ==
    CASE v[1] = "SimpleString" -> <<Plus>> \o v[2] \o CRLF
      [] v[1] = "SimpleError" -> <<Minus>> \o v[2] \o CRLF
      [] v[1] = "Integer" -> <<Colon>> \o to_text(v[2]) \o CRLF
      [] v[1] = "BulkString" -> encode_bulk_string(v[2])
      [] v[1] = "Array" -> encode_array(encoder, v[2])

Encoder[d \in 0..MaxDepth] ==
    [v \in RespValue[d] |-> encode_by(IF d = 0 THEN <<>> ELSE Encoder[d - 1], v)]

encode(v) == Encoder[MaxDepth][v]
=============================================================================
