----------------------------- MODULE MCExecutor -----------------------------
(***************************************************************************)
(* Values of the constants of Executor for TLC: the commands each run      *)
(* sends, over two keys a, b and two strings x, y.                         *)
(***************************************************************************)
EXTENDS Executor, TLC

CONSTANTS a, b, x, y, c1, c2

ClientSymmetry == Permutations(Clients)

MCDigest == (x :> 1 @@ y :> 2)
MCByteLen == (x :> 1 @@ y :> 3)

SetOf(k, s) ==
    [op |-> "Set", key |-> k, value |-> s, condition |-> None, expiry |-> None, get |-> FALSE]
SetIf(k, s, condition) == [SetOf(k, s) EXCEPT !.condition = condition]
SetFor(k, s, expiry) == [SetOf(k, s) EXCEPT !.expiry = expiry]
Nx == <<"NX", None>>
KeepTtl == <<"KeepTtl", None>>
KeyCommand(op, k) == [op |-> op, key |-> k]
Del(ks) == [op |-> "Delete", keys |-> ks]
PushOf(op, k, es) == [op |-> op, key |-> k, elements |-> es]
PopOf(op, k, count) == [op |-> op, key |-> k, count |-> count]
Members(op, k, ms) == [op |-> op, key |-> k, members |-> ms]
Move(from, to, m) == [op |-> "SMove", source |-> from, destination |-> to, member |-> m]
For(op, k, ttl) == [op |-> op, key |-> k, ttl |-> ttl]
At(op, k, deadline) == [op |-> op, key |-> k, deadline |-> deadline]

(* Two clients: every kind of value on b, sets that move to a and back,    *)
(* and the steps of SET against every other way to change a key.           *)
InterleavedCommands ==
    {Members("SAdd", b, {x}), Members("SAdd", b, {y}), Members("SRem", b, {x}),
     Move(a, b, x), Move(b, a, x), Move(b, b, x),
     PushOf("RPush", b, <<x, x>>), PushOf("LPushX", b, <<x>>), PopOf("RPop", b, 2),
     [op |-> "LSet", key |-> b, index |-> 0, element |-> y], KeyCommand("GetDel", b),
     SetFor(b, x, <<"ExAt", 9>>), SetFor(b, x, KeepTtl),
     At("ExpireAt", b, 0), Del(<<a, b>>), For("PExpire", b, 1), KeyCommand("Persist", b)}

(* Every command on a that Interleavings does not send, from one client,   *)
(* those with an absolute deadline asked for at every offset into a        *)
(* second; and b, whose deadline competes with that of a for the daemon's  *)
(* draw.                                                                   *)
StringCommands ==
    {SetOf(a, x), [SetIf(a, x, <<"XX", None>>) EXCEPT !.get = TRUE], SetIf(a, x, Nx),
     SetIf(a, x, <<"IfEq", y>>), SetIf(a, x, <<"IfNe", y>>),
     SetIf(a, x, <<"IfDeq", 1>>), SetIf(a, x, <<"IfDne", 1>>),
     SetFor(a, x, <<"Ex", 9>>), SetFor(a, x, <<"Px", 1>>),
     SetFor(a, x, <<"ExAt", 1>>), SetFor(a, x, <<"PxAt", 1>>), KeyCommand("GetDel", a),
     [op |-> "MSet", items |-> << <<a, y>>, <<a, x>> >>], [op |-> "MSet", items |-> << <<b, x>> >>],
     KeyCommand("Get", a), KeyCommand("StrLen", a), KeyCommand("Digest", a),
     [op |-> "MGet", keys |-> <<a, a>>]}

CollectionCommands ==
    {PushOf("LPush", a, <<x, y>>), PushOf("LPushX", a, <<x>>), PushOf("RPushX", a, <<x>>),
     PopOf("LPop", a, None), PopOf("RPop", a, 2), PopOf("LPop", a, 9),
     KeyCommand("LLen", a), [op |-> "LIndex", key |-> a, index |-> -1],
     [op |-> "LRange", key |-> a, start |-> -2, stop |-> 0],
     Members("SAdd", a, {x}), PopOf("SPop", a, None), PopOf("SPop", a, 2), PopOf("SPop", a, 9),
     KeyCommand("SMembers", a), KeyCommand("SCard", a),
     [op |-> "SIsMember", key |-> a, member |-> x],
     [op |-> "SMIsMember", key |-> a, members |-> <<x, y>>]}
    \cup {[op |-> "SRandMember", key |-> a, count |-> n] : n \in {None, 1, -2, 9, -9}}

DeadlineCommands ==
    {At("ExpireAt", a, 1), At("ExpireAt", a, 9), At("PExpireAt", a, 1), At("PExpireAt", b, 1),
     For("Expire", a, 1), For("Expire", a, 9), For("PExpire", a, 1)}
    \cup {KeyCommand(op, a) : op \in {"Ttl", "PTtl", "ExpireTime", "PExpireTime"}}

KeyspaceCommands ==
    {Del(<<a>>), [op |-> "Exists", keys |-> <<a, a>>],
     [op |-> "Keys", pattern |-> {a}], [op |-> "DbSize"],
     [op |-> "Ping", message |-> None], [op |-> "Ping", message |-> x],
     [op |-> "Select", index |-> 0], [op |-> "Select", index |-> 1]}
    \cup {[op |-> "FlushDb", mode |-> m] : m \in {None, "Sync"}}

ManyCommands == StringCommands \cup CollectionCommands \cup DeadlineCommands \cup KeyspaceCommands

(* One set of commands for each disagreement with the documentation. *)
NxCommands == {SetIf(a, x, Nx), SetIf(a, y, Nx)}
EvictRaceCommands == {SetOf(a, x), For("PExpire", a, 1)}
PoisonCommands == {Members("SAdd", a, {x}), Move(a, b, x), For("PExpire", a, 1)}
=============================================================================
