------------------------------ MODULE MCInputs ------------------------------
(***************************************************************************)
(* Values of the constants of Inputs for TLC.                              *)
(***************************************************************************)
EXTENDS Inputs, SequencesExt

MCNames ==
    {"PING", "SET", "MSET", "LSET", "LINDEX", "LRANGE", "SISMEMBER", "SMISMEMBER", "SRANDMEMBER",
     "SMOVE", "SELECT", "DBSIZE", "FLUSHDB", "get"}
    \cup DOMAIN KeyCommands \cup DOMAIN KeysCommands \cup DOMAIN ElementsCommands
    \cup DOMAIN PopCommands \cup DOMAIN ExpireCommands

MCArguments == {"k", "1", "-1", "300", "SYNC", "ASYNC"}

MCOptions ==
    {"k", "1", "ff", "NX", "XX", "IFEQ", "IFDNE", "GET", "EX", "PXAT", "KEEPTTL"}

Words == MCNames \cup MCArguments \cup MCOptions

(* The numbers the words of this instance stand for. *)
Table(t) == [w \in Words |-> IF w \in DOMAIN t THEN t[w] ELSE None]
MCU64Of == Table("1" :> 1 @@ "300" :> 300)
MCI64Of == Table("1" :> 1 @@ "-1" :> -1 @@ "300" :> 300)
MCU8Of == Table("1" :> 1)
MCHexOf == Table("1" :> 1 @@ "ff" :> 255 @@ "300" :> 768)
MCAccepts == [w \in Words |-> {w}]

MCNumberOf == ("100" :> 100 @@ "0" :> 0 @@ "ten" :> None)
MCSettingTexts ==
    << <<"max_connections", {"0", "100"}, {}>>, <<"hz", {"0", "ten"}, {"100", "ten"}>>,
       <<"appendonly", {"yes", "no", "on"}, {"yes"}>>,
       <<"appendfilename", {"log"}, {}>>, <<"appenddirname", {"dir"}, {}>>,
       <<"appendfsync", {"always", "no", "often"}, {}>>,
       <<"lazyfree-lazy-user-flush", {"yes", "no", "on"}, {}>> >>

ByteA == 97
ByteB == 98
Byte1 == 49
MCFrameBytes == {ByteA, Byte1, CR, LF, Dollar}

MCPatternBytes == {Star, AnyByte, Open, Close, Caret, Dash, Backslash, ByteA, ByteB}
MCPlainBytes == {Star, ByteA, ByteB}
MCSubjects == BoundedSeq({ByteA, ByteB}, 4) \cup {<<Dash>>, <<Backslash>>, <<Close, ByteA>>}
=============================================================================
