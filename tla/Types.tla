------------------------------- MODULE Types -------------------------------
(***************************************************************************)
(* The enums every part of the server shares: Command and its options      *)
(* (command/mod.rs, command/string.rs) and RespValue (resp2.rs).           *)
(***************************************************************************)
EXTENDS Integers, Sequences, FiniteSets

CONSTANTS
    Keys,      \* the names a key can have
    Strings,   \* string values, list elements and set members
    None,      \* Option::None
    Digests,   \* the values of xxh3_64
    U64Max     \* u64::MAX

Byte == 0..255

(***************************************************************************)
(* The enum Command, one set of records per group of variants.             *)
(***************************************************************************)
U64 == 0..U64Max

(* check_min_arity: a command with a list of arguments has at least one. *)
NonEmpty(S) == Seq(S) \ {<<>>}

SetCondition ==
    ({"NX", "XX"} \X {None}) \cup ({"IfEq", "IfNe"} \X Strings) \cup ({"IfDeq", "IfDne"} \X Digests)

SetExpiry == ({"Ex", "Px", "ExAt", "PxAt"} \X U64) \cup ({"KeepTtl"} \X {None})

SetCommand ==
    [op : {"Set"}, key : Keys, value : Strings, condition : SetCondition \cup {None},
     expiry : SetExpiry \cup {None}, get : BOOLEAN]
DeleteCommand == [op : {"Delete"}, keys : NonEmpty(Keys)]
ExistsCommand == [op : {"Exists"}, keys : NonEmpty(Keys)]
PushCommand == [op : {"LPush", "RPush", "LPushX", "RPushX"}, key : Keys, elements : NonEmpty(Strings)]
TtlCommand == [op : {"Ttl", "PTtl", "ExpireTime", "PExpireTime"}, key : Keys]
GetDelCommand == [op : {"GetDel"}, key : Keys]
MSetCommand == [op : {"MSet"}, items : NonEmpty(Keys \X Strings)]
PopCommand == [op : {"LPop", "RPop"}, key : Keys, count : U64 \cup {None}]
LSetCommand == [op : {"LSet"}, key : Keys, index : Int, element : Strings]
SAddCommand == [op : {"SAdd"}, key : Keys, members : (SUBSET Strings) \ {{}}]
SRemCommand == [op : {"SRem"}, key : Keys, members : (SUBSET Strings) \ {{}}]
SMoveCommand == [op : {"SMove"}, source : Keys, destination : Keys, member : Strings]
SPopCommand == [op : {"SPop"}, key : Keys, count : U64 \cup {None}]
PersistCommand == [op : {"Persist"}, key : Keys]
ExpireCommand == [op : {"Expire", "PExpire"}, key : Keys, ttl : U64]
ExpireAtCommand == [op : {"ExpireAt", "PExpireAt"}, key : Keys, deadline : U64]
FlushDbCommand == [op : {"FlushDb"}, mode : {"Sync", "Async", None}]
PingCommand == [op : {"Ping"}, message : Strings \cup {None}]
SelectCommand == [op : {"Select"}, index : 0..255]
ReadCommand ==
    [op : {"Get", "StrLen", "Digest", "LLen", "SMembers", "SCard"}, key : Keys]
    \cup [op : {"MGet"}, keys : NonEmpty(Keys)]
    \cup [op : {"LIndex"}, key : Keys, index : Int]
    \cup [op : {"LRange"}, key : Keys, start : Int, stop : Int]
    \cup [op : {"SIsMember"}, key : Keys, member : Strings]
    \cup [op : {"SMIsMember"}, key : Keys, members : NonEmpty(Strings)]
    \cup [op : {"SRandMember"}, key : Keys, count : Int \cup {None}]
    \cup [op : {"Keys"}, pattern : SUBSET Keys]
    \cup [op : {"DbSize"}]

Command ==
    SetCommand \cup DeleteCommand \cup ExistsCommand \cup PushCommand \cup TtlCommand
    \cup GetDelCommand \cup MSetCommand \cup PopCommand \cup LSetCommand
    \cup SAddCommand \cup SRemCommand \cup SMoveCommand \cup SPopCommand
    \cup PersistCommand \cup ExpireCommand \cup ExpireAtCommand \cup FlushDbCommand
    \cup PingCommand \cup SelectCommand \cup ReadCommand

(***************************************************************************)
(* The enum RespValue, as tagged pairs.                                    *)
(***************************************************************************)
SimpleString(s) == <<"SimpleString", s>>
SimpleError(e) == <<"SimpleError", e>>
Integer(n) == <<"Integer", n>>
BulkString(s) == <<"BulkString", s>>
Array(a) == <<"Array", a>>

(* An array whose elements come in whatever order a hash table has them.   *)
Unordered(S) == Array(<<None, S>>)

(* What a client sends: an array of bulk strings. *)
Request(words) == Array([i \in DOMAIN words |-> BulkString(words[i])])

RespKind == {"SimpleString", "SimpleError", "Integer", "BulkString", "Array"}
=============================================================================
