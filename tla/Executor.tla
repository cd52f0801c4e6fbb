------------------------------ MODULE Executor ------------------------------
(***************************************************************************)
(* Client handlers running commands against the shared Store, beside the   *)
(* TTL eviction daemon: executor/*.rs, ttl.rs, and the loop of handler.rs  *)
(* that feeds the executor one command at a time per connection.           *)
(*                                                                         *)
(* Executor::execute is synchronous but takes the store's lock once per    *)
(* Store method it calls, so commands of different connections, and the    *)
(* daemon, interleave at every call.  A command that makes one call is one *)
(* action.  SET, DEL, EXISTS, the pushes and the TTL family make several,  *)
(* and are one action per call, their local variables kept in conn.        *)
(***************************************************************************)
EXTENDS Store

CONSTANTS
    Clients,      \* connections
    Commands,     \* the commands clients send: a subset of Command
    Digest,       \* xxh3_64, a function from Strings to Digests
    ByteLen,      \* String::len, a function from Strings to Nat
    LazyFlush,    \* config: lazyfree_lazy_user_flush
    Ms,           \* clock ticks in a millisecond
    Sec,          \* clock ticks in a second
    MaxInstant,   \* the largest Instant: checked_add fails beyond it
    MaxCapacity,  \* the largest Vec::with_capacity that does not panic
    SampleSize,   \* the daemon's N
    MaxTime,      \* bound: the clock stops there
    MaxLen        \* bound: no push starts on a list of this length

ASSUME ConstantsAssumption ==
    /\ Ms \in Nat \ {0} /\ Sec \in Nat \ {0} /\ Sec % Ms = 0
    /\ MaxInstant \in Nat /\ MaxCapacity \in Nat /\ SampleSize \in Nat
    /\ MaxTime \in Nat /\ U64Max \in Nat /\ MaxLen \in Nat
    /\ MaxTime + Ms * U64Max <= MaxInstant  \* a u64 of milliseconds never overflows an Instant
    /\ Digest \in [Strings -> Digests] /\ ByteLen \in [Strings -> Nat]
    /\ LazyFlush \in BOOLEAN

VARIABLES
    conn,      \* per connection: the command it is in and its local variables
    reply,     \* per connection: what execute returned, until it is sent
    touched,   \* history: the command of a connection has changed a key of the store
    evictor,   \* the TTL daemon
    poisoned   \* a thread panicked with the write lock held

vars == <<data, expiry_index, now, conn, reply, touched, evictor, poisoned>>

ASSUME CommandsAssumption == Commands \subseteq Command

(* A command that arrived on a connection names finitely many members. *)
ASSUME MembersAssumption ==
    \A cmd \in Commands : cmd \in SAddCommand \cup SRemCommand => IsFiniteSet(cmd.members)

OK == SimpleString("OK")
WRONGTYPE == SimpleError("WRONGTYPE")
InvalidExpire == SimpleError("ERR invalid expire time")
Truth(b) == Integer(IF b THEN 1 ELSE 0)

(***************************************************************************)
(* The state of a connection.  pc is the call the command makes next; done *)
(* means that it has its reply, dead that its task panicked.               *)
(***************************************************************************)
PC == {"idle", "done", "dead", "set_read", "set_keepttl", "set_write", "set_expire",
       "delete", "exists", "push", "ttl_get", "ttl_exists"}

Idle == [pc |-> "idle", cmd |-> None, prev |-> None, prev_ttl |-> None, i |-> 1, n |-> 0]

EvictorIdle == [pc |-> "idle", pairs |-> [k \in Keys |-> None], doomed |-> {}]

Init ==
    /\ StoreInit
    /\ now \in 0..(Sec - 1)
    /\ conn = [c \in Clients |-> Idle]
    /\ reply = [c \in Clients |-> None]
    /\ touched = [c \in Clients |-> FALSE]
    /\ evictor = EvictorIdle
    /\ poisoned = FALSE

(* The store is reachable: unwrap() of a poisoned lock panics instead. *)
Running(c, pc) == conn[c].pc = pc /\ ~poisoned

(* The keys of the store with their values and deadlines.  An entry of the *)
(* index without a key is not among them.                                  *)
contents == [k \in Keys |-> <<data[k], IF data[k] = None THEN None ELSE expiry_index[k]>>]

Record(c) == touched' = [touched EXCEPT ![c] = @ \/ contents' # contents]

(* execute returns r for the command cmd. *)
Reply(c, cmd, r) ==
    /\ conn' = [conn EXCEPT ![c] = [Idle EXCEPT !.pc = "done", !.cmd = cmd]]
    /\ reply' = [reply EXCEPT ![c] = r]
    /\ Record(c)

(* The handler's task panics: the client sees its connection close. *)
Panic(c, cmd) ==
    /\ conn' = [conn EXCEPT ![c] = [Idle EXCEPT !.pc = "dead", !.cmd = cmd]]
    /\ Record(c)
    /\ UNCHANGED reply

(* The command goes on with its local variables changed to r. *)
Continue(c, r) ==
    /\ conn' = [conn EXCEPT ![c] = r]
    /\ Record(c)
    /\ UNCHANGED reply

(* What an action of a connection leaves alone. *)
Elsewhere == UNCHANGED <<now, evictor, poisoned>>

(***************************************************************************)
(* The handler decodes a command that calls the store more than once.      *)
(***************************************************************************)
Enter(c, cmd, pc) ==
    /\ UNCHANGED store
    /\ Continue(c, [Idle EXCEPT !.pc = pc, !.cmd = cmd])
    /\ Elsewhere

Start(c) ==
    /\ Running(c, "idle")
    /\ \E cmd \in Commands :
          \/ cmd \in SetCommand /\ Enter(c, cmd, "set_read")
          \/ cmd \in DeleteCommand /\ Enter(c, cmd, "delete")
          \/ cmd \in ExistsCommand /\ Enter(c, cmd, "exists")
          \/ cmd \in TtlCommand /\ Enter(c, cmd, "ttl_get")
          \/ /\ cmd \in PushCommand
             /\ is_list(data[cmd.key]) => Len(data[cmd.key][2]) < MaxLen
             /\ Enter(c, cmd, "push")

(***************************************************************************)
(* Deadlines.  The Unix clock and Instant are one clock here.  Its ticks   *)
(* are finer than a millisecond: as_millis() and as_secs() truncate.       *)
(***************************************************************************)
unix_secs == now \div Sec
unix_ms == now \div Ms

saturating_sub(a, b) == IF a >= b THEN a - b ELSE 0

(* Mutant: the Unix clock is rounded up to a second. *)
unix_secs_rounded_up(deadline_secs) ==
    now + Sec * saturating_sub(deadline_secs, (now + Sec - 1) \div Sec)

unix_secs_to_instant(deadline_secs) == now + Sec * saturating_sub(deadline_secs, unix_secs)
unix_ms_to_instant(deadline_ms) == now + Ms * saturating_sub(deadline_ms, unix_ms)

(***************************************************************************)
(* SET: executor/string.rs, set.  Four calls of the store at most.         *)
(***************************************************************************)
condition_met(condition, prev) ==
    condition # None =>
       CASE condition[1] = "NX" -> prev = None
         [] condition[1] = "XX" -> prev # None
         [] condition[1] = "IfEq" -> prev # None /\ prev = condition[2]
         [] condition[1] = "IfNe" -> prev # None /\ prev # condition[2]
         [] condition[1] = "IfDeq" -> prev # None /\ Digest[prev] = condition[2]
         [] condition[1] = "IfDne" -> prev # None /\ Digest[prev] # condition[2]

has_expiry(cmd, kind) == cmd.expiry # None /\ cmd.expiry[1] = kind

set_reply(cmd, prev, met) ==
    CASE cmd.get -> BulkString(prev)
      [] ~cmd.get /\ met -> OK
      [] OTHER -> BulkString(None)

SetRead(c) ==
    /\ Running(c, "set_read")
    /\ UNCHANGED store
    /\ LET cmd == conn[c].cmd
           v == get(cmd.key)
           prev == IF is_str(v) THEN v[2] ELSE None
       IN  \/ /\ v # None /\ ~is_str(v)
              /\ Reply(c, cmd, WRONGTYPE)
           \/ /\ v # None => is_str(v)
              /\ ~condition_met(cmd.condition, prev)
              /\ Reply(c, cmd, set_reply(cmd, prev, FALSE))
           \/ /\ v # None => is_str(v)
              /\ condition_met(cmd.condition, prev)
              /\ Continue(c, [conn[c] EXCEPT !.prev = prev,
                    !.pc = IF has_expiry(cmd, "KeepTtl") THEN "set_keepttl" ELSE "set_write"])
    /\ Elsewhere

SetKeepTtl(c) ==
    /\ Running(c, "set_keepttl")
    /\ UNCHANGED store
    /\ Continue(c, [conn[c] EXCEPT !.prev_ttl = get_ttl(conn[c].cmd.key), !.pc = "set_write"])
    /\ Elsewhere

SetWrite(c) ==
    /\ Running(c, "set_write")
    /\ LET cmd == conn[c].cmd
           finished == \/ cmd.expiry = None
                       \/ has_expiry(cmd, "KeepTtl") /\ conn[c].prev_ttl = None
       IN  /\ set_string(cmd.key, cmd.value)
           /\ \/ finished /\ Reply(c, cmd, set_reply(cmd, conn[c].prev, TRUE))
              \/ ~finished /\ Continue(c, [conn[c] EXCEPT !.pc = "set_expire"])
    /\ Elsewhere

(* The deadline a SET asks for, from the clock at the time of the call. *)
set_deadline(cmd, prev_ttl) ==
    CASE has_expiry(cmd, "Ex") -> now + Sec * cmd.expiry[2]
      [] has_expiry(cmd, "Px") -> now + Ms * cmd.expiry[2]
      [] has_expiry(cmd, "ExAt") -> unix_secs_to_instant(cmd.expiry[2])
      [] has_expiry(cmd, "PxAt") -> unix_ms_to_instant(cmd.expiry[2])
      [] OTHER -> prev_ttl

(* Ex and Px use checked_add; ExAt and PxAt add and panic on overflow. *)
SetExpire(c) ==
    /\ Running(c, "set_expire")
    /\ LET cmd == conn[c].cmd
           deadline == set_deadline(cmd, conn[c].prev_ttl)
       IN  \/ /\ deadline <= MaxInstant
              /\ set_ttl(cmd.key, deadline)
              /\ Reply(c, cmd, set_reply(cmd, conn[c].prev, TRUE))
           \/ /\ deadline > MaxInstant
              /\ cmd.expiry[1] \in {"Ex", "Px"}
              /\ UNCHANGED store
              /\ Reply(c, cmd, InvalidExpire)
           \/ /\ deadline > MaxInstant
              /\ cmd.expiry[1] \in {"ExAt", "PxAt"}
              /\ UNCHANGED store
              /\ Panic(c, cmd)
    /\ Elsewhere

(***************************************************************************)
(* DEL, EXISTS, LPUSH, RPUSH, LPUSHX, RPUSHX: one call per argument.  i is *)
(* the position of the next argument, n the count or length so far.        *)
(***************************************************************************)
(* Mutant: one argument too many. *)
AdvancePastEnd(c, arguments, n) ==
    \/ /\ conn[c].i > Len(arguments)
       /\ Reply(c, conn[c].cmd, Integer(n))
    \/ /\ conn[c].i <= Len(arguments)
       /\ Continue(c, [conn[c] EXCEPT !.i = @ + 1, !.n = n])

Advance(c, arguments, n) ==
    \/ /\ conn[c].i = Len(arguments)
       /\ Reply(c, conn[c].cmd, Integer(n))
    \/ /\ conn[c].i < Len(arguments)
       /\ Continue(c, [conn[c] EXCEPT !.i = @ + 1, !.n = n])

Delete(c) ==
    /\ Running(c, "delete")
    /\ LET k == conn[c].cmd.keys[conn[c].i]
       IN  /\ delete(k)
           /\ Advance(c, conn[c].cmd.keys, conn[c].n + IF delete_returns(k) THEN 1 ELSE 0)
    /\ Elsewhere

Exists(c) ==
    /\ Running(c, "exists")
    /\ UNCHANGED store
    /\ LET k == conn[c].cmd.keys[conn[c].i]
       IN  Advance(c, conn[c].cmd.keys, conn[c].n + IF exists(k) THEN 1 ELSE 0)
    /\ Elsewhere

Push(c) ==
    /\ Running(c, "push")
    /\ LET cmd == conn[c].cmd
           create == cmd.op \in {"LPush", "RPush"}
           len == push_inner_returns(cmd.key, create)
       IN  /\ push_inner(cmd.key, cmd.elements[conn[c].i], create, cmd.op \in {"LPush", "LPushX"})
           /\ \/ len = None /\ Reply(c, cmd, WRONGTYPE)
              \/ len # None /\ Advance(c, cmd.elements, len)
    /\ Elsewhere

(***************************************************************************)
(* TTL, PTTL, EXPIRETIME, PEXPIRETIME: resolve_expiry.                     *)
(***************************************************************************)
(* Mutant: the remaining time is rounded up. *)
ttl_rounded_up(op, remaining) ==
    CASE op = "Ttl" -> (remaining + Sec - 1) \div Sec
      [] op = "PTtl" -> (remaining + Ms - 1) \div Ms
      [] op = "ExpireTime" -> unix_secs + (remaining + Sec - 1) \div Sec
      [] op = "PExpireTime" -> unix_ms + (remaining + Ms - 1) \div Ms

ttl_of(op, remaining) ==
    CASE op = "Ttl" -> remaining \div Sec
      [] op = "PTtl" -> remaining \div Ms
      [] op = "ExpireTime" -> unix_secs + remaining \div Sec
      [] op = "PExpireTime" -> unix_ms + remaining \div Ms

TtlGet(c) ==
    /\ Running(c, "ttl_get")
    /\ UNCHANGED store
    /\ LET cmd == conn[c].cmd
           expiry == get_ttl(cmd.key)
       IN  \/ /\ expiry # None /\ expiry >= now
              /\ Reply(c, cmd, Integer(ttl_of(cmd.op, expiry - now)))
           \/ /\ expiry # None /\ expiry < now
              /\ Reply(c, cmd, Integer(-2))
           \/ /\ expiry = None
              /\ Continue(c, [conn[c] EXCEPT !.pc = "ttl_exists"])
    /\ Elsewhere

TtlExists(c) ==
    /\ Running(c, "ttl_exists")
    /\ UNCHANGED store
    /\ Reply(c, conn[c].cmd, Integer(IF exists(conn[c].cmd.key) THEN -1 ELSE -2))
    /\ Elsewhere

(***************************************************************************)
(* Commands that call the store once: one action each.                     *)
(***************************************************************************)
(* The value is gone before its type is looked at. *)
GetDel(c) ==
    /\ Running(c, "idle")
    /\ \E cmd \in Commands :
          /\ cmd \in GetDelCommand
          /\ get_del(cmd.key)
          /\ LET v == get_del_returns(cmd.key)
             IN  Reply(c, cmd, CASE v = None -> BulkString(None)
                                 [] is_str(v) -> BulkString(v[2])
                                 [] OTHER -> WRONGTYPE)
    /\ Elsewhere

MSet(c) ==
    /\ Running(c, "idle")
    /\ \E cmd \in Commands :
          /\ cmd \in MSetCommand
          /\ mset(cmd.items)
          /\ Reply(c, cmd, OK)
    /\ Elsewhere

elements_reply(taken, count) ==
    CASE count # None -> Array(taken)
      [] taken = <<>> -> BulkString(None)
      [] OTHER -> BulkString(taken[1])

pop_reply(v, count, front) ==
    CASE v = None -> BulkString(None)
      [] is_list(v) ->
            elements_reply(pop_taken(v[2], IF count = None THEN 1 ELSE count, front), count)
      [] OTHER -> WRONGTYPE

(* The buffer for the elements is allocated before the lock is taken. *)
Pop(c) ==
    /\ Running(c, "idle")
    /\ \E cmd \in Commands :
          /\ cmd \in PopCommand
          /\ LET count == IF cmd.count = None THEN 1 ELSE cmd.count
                 front == cmd.op = "LPop"
             IN  \/ /\ count <= MaxCapacity
                    /\ pop_inner(cmd.key, count, front)
                    /\ Reply(c, cmd, pop_reply(inner_get(cmd.key, now), cmd.count, front))
                 \/ /\ count > MaxCapacity
                    /\ UNCHANGED store
                    /\ Panic(c, cmd)
    /\ Elsewhere

LSet(c) ==
    /\ Running(c, "idle")
    /\ \E cmd \in Commands :
          /\ cmd \in LSetCommand
          /\ lset(cmd.key, cmd.index, cmd.element)
          /\ LET v == inner_get(cmd.key, now)
             IN  Reply(c, cmd, CASE v = None -> SimpleError("ERR No such key")
                                 [] is_list(v) -> IF lset_in_range(v[2], cmd.index)
                                                  THEN OK ELSE SimpleError("ERR index out of range")
                                 [] OTHER -> WRONGTYPE)
    /\ Elsewhere

SAdd(c) ==
    /\ Running(c, "idle")
    /\ \E cmd \in Commands :
          /\ cmd \in SAddCommand
          /\ sadd(cmd.key, cmd.members)
          /\ LET v == inner_get(cmd.key, now)
             IN  Reply(c, cmd, CASE v = None -> Integer(Cardinality(cmd.members))
                                 [] is_set(v) -> Integer(Cardinality(cmd.members \ v[2]))
                                 [] OTHER -> WRONGTYPE)
    /\ Elsewhere

SRem(c) ==
    /\ Running(c, "idle")
    /\ \E cmd \in Commands :
          /\ cmd \in SRemCommand
          /\ srem(cmd.key, cmd.members)
          /\ LET v == inner_get(cmd.key, now)
             IN  Reply(c, cmd, CASE v = None -> Integer(0)
                                 [] is_set(v) -> Integer(Cardinality(cmd.members \cap v[2]))
                                 [] OTHER -> WRONGTYPE)
    /\ Elsewhere

(* Four readings of a clock that may advance between any two of them. *)
Readings ==
    {at \in [1..4 -> {now} \cup ({now + 1} \cap 0..MaxTime)] :
        \A i, j \in 1..4 : i <= j => at[i] <= at[j]}

SMove(c) ==
    /\ Running(c, "idle")
    /\ \E cmd \in Commands, at \in Readings :
          /\ cmd \in SMoveCommand
          /\ now' = at[4]
          /\ \/ /\ smove_moves(cmd.source, cmd.destination, cmd.member, at)
                /\ ~smove_panics(cmd.source, cmd.destination, cmd.member, at)
                /\ smove(cmd.source, cmd.destination, cmd.member, at)
                /\ Reply(c, cmd, Integer(1))
                /\ UNCHANGED poisoned
             \/ /\ smove_panics(cmd.source, cmd.destination, cmd.member, at)
                /\ UNCHANGED store
                /\ Panic(c, cmd)
                /\ poisoned' = TRUE
             \/ /\ ~smove_moves(cmd.source, cmd.destination, cmd.member, at)
                /\ UNCHANGED store
                /\ Reply(c, cmd, IF \/ inner_get(cmd.source, at[1]) = None
                                    \/ smove_types_ok(cmd.source, cmd.destination, at)
                                 THEN Integer(0) ELSE WRONGTYPE)
                /\ UNCHANGED poisoned
    /\ UNCHANGED evictor

(* The buffer for the members is allocated with the write lock held: the   *)
(* panic of a count that is too large poisons it.                          *)
SPop(c) ==
    /\ Running(c, "idle")
    /\ \E cmd \in Commands :
          /\ cmd \in SPopCommand
          /\ LET v == inner_get(cmd.key, now)
                 count == IF cmd.count = None THEN 1 ELSE cmd.count
             IN  \/ /\ is_set(v) /\ count <= MaxCapacity
                    /\ \E popped \in sample(v[2], count) :
                          /\ spop(cmd.key, v[2], popped)
                          /\ Reply(c, cmd, CASE cmd.count # None -> Unordered(popped)
                                              [] popped = {} -> BulkString(None)
                                              [] OTHER -> BulkString(CHOOSE m \in popped : TRUE))
                    /\ UNCHANGED poisoned
                 \/ /\ is_set(v) /\ count > MaxCapacity
                    /\ UNCHANGED store
                    /\ Panic(c, cmd)
                    /\ poisoned' = TRUE
                 \/ /\ ~is_set(v)
                    /\ UNCHANGED store
                    /\ Reply(c, cmd, CASE v # None -> WRONGTYPE
                                        [] cmd.count # None -> Unordered({})
                                        [] OTHER -> BulkString(None))
                    /\ UNCHANGED poisoned
    /\ UNCHANGED <<now, evictor>>

Persist(c) ==
    /\ Running(c, "idle")
    /\ \E cmd \in Commands :
          /\ cmd \in PersistCommand
          /\ persist(cmd.key)
          /\ Reply(c, cmd, Truth(persist_returns(cmd.key)))
    /\ Elsewhere

Expire(c) ==
    /\ Running(c, "idle")
    /\ \E cmd \in Commands :
          /\ cmd \in ExpireCommand
          /\ LET deadline == now + IF cmd.op = "Expire" THEN Sec * cmd.ttl ELSE Ms * cmd.ttl
             IN  \/ /\ deadline <= MaxInstant
                    /\ set_ttl(cmd.key, deadline)
                    /\ Reply(c, cmd, Truth(set_ttl_returns(cmd.key)))
                 \/ /\ deadline > MaxInstant
                    /\ UNCHANGED store
                    /\ Reply(c, cmd, InvalidExpire)
    /\ Elsewhere

expire_at_passed(cmd) == cmd.deadline <= IF cmd.op = "ExpireAt" THEN unix_secs ELSE unix_ms

expire_at_instant(cmd) ==
    IF cmd.op = "ExpireAt" THEN unix_secs_to_instant(cmd.deadline) ELSE unix_ms_to_instant(cmd.deadline)

(* A deadline in the past deletes the key, and still replies 0. *)
ExpireAt(c) ==
    /\ Running(c, "idle")
    /\ \E cmd \in Commands :
          /\ cmd \in ExpireAtCommand
          /\ \/ /\ expire_at_passed(cmd)
                /\ delete(cmd.key)
                /\ Reply(c, cmd, Integer(0))
             \/ /\ ~expire_at_passed(cmd) /\ expire_at_instant(cmd) <= MaxInstant
                /\ set_ttl(cmd.key, expire_at_instant(cmd))
                /\ Reply(c, cmd, Truth(set_ttl_returns(cmd.key)))
             \/ /\ ~expire_at_passed(cmd) /\ expire_at_instant(cmd) > MaxInstant
                /\ UNCHANGED store
                /\ Panic(c, cmd)
    /\ Elsewhere

FlushDb(c) ==
    /\ Running(c, "idle")
    /\ \E cmd \in Commands :
          /\ cmd \in FlushDbCommand
          /\ LET async == IF cmd.mode = None THEN LazyFlush ELSE cmd.mode = "Async"
             IN  IF async THEN clear_async ELSE clear
          /\ Reply(c, cmd, OK)
    /\ Elsewhere

(***************************************************************************)
(* Commands that only read.  ReadReplies is the set of the replies the     *)
(* executor can give: SRANDMEMBER draws, every other command has one.  A   *)
(* panic with only the read lock held poisons nothing.                     *)
(***************************************************************************)
string_reply(op, s) ==
    CASE op = "Get" -> BulkString(s)
      [] op = "StrLen" -> Integer(ByteLen[s])
      [] op = "Digest" -> BulkString(<<"hex", Digest[s]>>)

get_reply(cmd, v) ==
    CASE v = None -> IF cmd.op = "StrLen" THEN Integer(0) ELSE BulkString(None)
      [] is_str(v) -> string_reply(cmd.op, v[2])
      [] OTHER -> WRONGTYPE

list_reply(cmd, v) ==
    LET l == elements_of(v)
    IN  IF v # None /\ ~is_list(v) THEN WRONGTYPE
        ELSE CASE cmd.op = "LLen" -> Integer(llen(l))
               [] cmd.op = "LIndex" -> BulkString(lindex_of(l, cmd.index))
               [] cmd.op = "LRange" -> Array(lrange_of(l, cmd.start, cmd.stop))

set_command_reply(cmd, v) ==
    LET s == smembers(v)
        truths == smismember(s, cmd.members)
    IN  IF v # None /\ ~is_set(v) THEN WRONGTYPE
        ELSE CASE cmd.op = "SMembers" -> Unordered(s)
               [] cmd.op = "SCard" -> Integer(scard(s))
               [] cmd.op = "SIsMember" -> Truth(sismember(s, cmd.member))
               [] cmd.op = "SMIsMember" -> Array([i \in DOMAIN truths |-> Truth(truths[i])])

(* A negative count allows repetition. *)
srandmember_replies(v, count) ==
    LET s == smembers(v)
    IN  CASE v # None /\ ~is_set(v) -> {WRONGTYPE}
          [] (v = None \/ is_set(v)) /\ count = None ->
               IF s = {} THEN {BulkString(None)} ELSE {BulkString(m) : m \in s}
          [] (v = None \/ is_set(v)) /\ count # None ->
               IF count >= 0 THEN {Unordered(T) : T \in sample(s, count)}
               ELSE IF s = {} THEN {Array(<<>>)} ELSE {Array(f) : f \in [1..(-count) -> s]}

(* The members are drawn into a buffer of the size asked for. *)
srandmember_panics(v, count) ==
    /\ is_set(v) /\ count # None
    /\ count > MaxCapacity \/ (-count > MaxCapacity /\ v[2] # {})

ReadPanics(cmd) ==
    cmd.op = "SRandMember" /\ srandmember_panics(inner_get(cmd.key, now), cmd.count)

ReadReplies(cmd) ==
    CASE cmd.op \in {"Get", "StrLen", "Digest"} -> {get_reply(cmd, get(cmd.key))}
      [] cmd.op = "MGet" -> {Array(mget(cmd.keys))}
      [] cmd.op \in {"LLen", "LIndex", "LRange"} -> {list_reply(cmd, inner_get(cmd.key, now))}
      [] cmd.op \in {"SMembers", "SCard", "SIsMember", "SMIsMember"} ->
            {set_command_reply(cmd, inner_get(cmd.key, now))}
      [] cmd.op = "SRandMember" -> srandmember_replies(inner_get(cmd.key, now), cmd.count)
      [] cmd.op = "Keys" -> {Unordered(keys(cmd.pattern))}
      [] cmd.op = "DbSize" -> {Integer(size)}

Read(c) ==
    /\ Running(c, "idle")
    /\ UNCHANGED store
    /\ \E cmd \in Commands :
          /\ cmd \in ReadCommand
          /\ \/ ~ReadPanics(cmd) /\ \E r \in ReadReplies(cmd) : Reply(c, cmd, r)
             \/ ReadPanics(cmd) /\ Panic(c, cmd)
    /\ Elsewhere

(* PING and SELECT do not reach the store. *)
Stateless(c) ==
    /\ conn[c].pc = "idle"
    /\ UNCHANGED store
    /\ \E cmd \in Commands :
          \/ /\ cmd \in PingCommand
             /\ Reply(c, cmd, IF cmd.message = None THEN SimpleString("PONG")
                                                    ELSE BulkString(cmd.message))
          \/ /\ cmd \in SelectCommand
             /\ Reply(c, cmd, IF cmd.index = 0 THEN OK ELSE SimpleError("ERR DB index"))
    /\ Elsewhere

(***************************************************************************)
(* The rest of a connection's life.                                        *)
(***************************************************************************)
(* Command::is_write.  LSET is not in the list. *)
is_write(cmd) ==
    cmd.op \in {"Set", "Delete", "GetDel", "MSet", "LPush", "RPush", "LPushX", "RPushX",
               "LPop", "RPop", "SAdd", "SMove", "SPop", "SRem", "Persist",
               "Expire", "PExpire", "ExpireAt", "PExpireAt", "FlushDb"}

(* run_handler appends cmd to the AOF when execute has returned r. *)
appended(cmd, r) == is_write(cmd) /\ r[1] # "SimpleError" /\ r # Integer(0)

(* The reply is sent and the handler waits for the next command. *)
Respond(c) ==
    /\ conn[c].pc = "done"
    /\ conn' = [conn EXCEPT ![c] = Idle]
    /\ reply' = [reply EXCEPT ![c] = None]
    /\ touched' = [touched EXCEPT ![c] = FALSE]
    /\ UNCHANGED store
    /\ Elsewhere

(* Any call of the store panics once its lock is poisoned. *)
PoisonedCall(c) ==
    /\ poisoned
    /\ conn[c].pc \notin {"done", "dead"}
    /\ UNCHANGED store
    /\ Panic(c, conn[c].cmd)
    /\ Elsewhere

(* The client connects again: a new handler takes its place. *)
Reconnect(c) ==
    /\ conn[c].pc = "dead"
    /\ conn' = [conn EXCEPT ![c] = Idle]
    /\ reply' = [reply EXCEPT ![c] = None]
    /\ touched' = [touched EXCEPT ![c] = FALSE]
    /\ UNCHANGED store
    /\ Elsewhere

(***************************************************************************)
(* TtlEvictionDaemon::evict_expired: sample under the read lock, filter    *)
(* without a lock, delete under the write lock.                            *)
(***************************************************************************)
EvictSample ==
    /\ evictor.pc = "idle" /\ ~poisoned
    /\ \E pairs \in sample_eviction_index(SampleSize) :
          evictor' = [EvictorIdle EXCEPT !.pc = "filter", !.pairs = pairs]
    /\ UNCHANGED <<data, expiry_index, now, conn, reply, touched, poisoned>>

(* Mutant: entries whose key is gone are left to whoever removed the key. *)
expired_pairs_of_keys(pairs) ==
    {k \in Keys : pairs[k] # None /\ now >= pairs[k] /\ data[k] # None}

expired_pairs(pairs) == {k \in Keys : pairs[k] # None /\ now >= pairs[k]}

EvictFilter ==
    /\ evictor.pc = "filter"
    /\ evictor' = [EvictorIdle EXCEPT !.pc = "delete", !.doomed = expired_pairs(evictor.pairs)]
    /\ UNCHANGED <<data, expiry_index, now, conn, reply, touched, poisoned>>

EvictDelete ==
    /\ evictor.pc = "delete" /\ ~poisoned
    /\ delete_bulk(evictor.doomed)
    /\ evictor' = EvictorIdle
    /\ UNCHANGED <<now, conn, reply, touched, poisoned>>

(* The daemon's task panics on the poisoned lock and is not restarted. *)
EvictorPanic ==
    /\ poisoned
    /\ evictor.pc \in {"idle", "delete"}
    /\ evictor' = [EvictorIdle EXCEPT !.pc = "dead"]
    /\ UNCHANGED <<data, expiry_index, now, conn, reply, touched, poisoned>>

Tick ==
    /\ now < MaxTime
    /\ now' = now + 1
    /\ UNCHANGED <<data, expiry_index, conn, reply, touched, evictor, poisoned>>

(***************************************************************************)
(* The specification.                                                      *)
(***************************************************************************)
Execute(c) ==
    \/ Start(c)
    \/ SetRead(c) \/ SetKeepTtl(c) \/ SetWrite(c) \/ SetExpire(c)
    \/ Delete(c) \/ Exists(c) \/ Push(c) \/ TtlGet(c) \/ TtlExists(c)
    \/ GetDel(c) \/ MSet(c) \/ Pop(c) \/ LSet(c)
    \/ SAdd(c) \/ SRem(c) \/ SMove(c) \/ SPop(c)
    \/ Persist(c) \/ Expire(c) \/ ExpireAt(c) \/ FlushDb(c)
    \/ Read(c) \/ Stateless(c)

Connection(c) == Execute(c) \/ Respond(c) \/ PoisonedCall(c) \/ Reconnect(c)

Daemon == EvictSample \/ EvictFilter \/ EvictDelete \/ EvictorPanic

Next == (\E c \in Clients : Connection(c)) \/ Daemon \/ Tick

Spec == Init /\ [][Next]_vars

(***************************************************************************)
(* Fairness, for the liveness property only.  The daemon's interval fires  *)
(* again and again and evict_expired does not block, so the daemon is      *)
(* weakly fair.  Sampling is random: a key that is in the index at         *)
(* infinitely many samplings is drawn at infinitely many of them (with     *)
(* probability one), which is strong fairness of drawing it.               *)
(***************************************************************************)
EvictSampleOf(k) == EvictSample /\ evictor'.pairs[k] # None

Fairness == WF_vars(Daemon) /\ \A k \in Keys : SF_vars(EvictSampleOf(k))

FairSpec == Spec /\ Fairness

-----------------------------------------------------------------------------
(***************************************************************************)
(* Properties.  Live is the meaning of a deadline, stated once and apart   *)
(* from the comparisons the code makes.                                    *)
(***************************************************************************)
Live(k) == data[k] # None /\ (expiry_index[k] # None => now < expiry_index[k])

HasMember(k, m) == Live(k) /\ is_set(data[k]) /\ m \in data[k][2]

Locals ==
    [pc : PC, cmd : Command \cup {None}, prev : Strings \cup {None},
     prev_ttl : Nat \cup {None}, i : Nat, n : Nat]

(* What the next call of a command in flight needs of its local variables. *)
InFlightOK(r) ==
    /\ r.pc \in {"set_read", "set_keepttl", "set_write", "set_expire"} => r.cmd \in SetCommand
    /\ r.pc = "set_expire" => /\ r.cmd.expiry # None
                              /\ r.cmd.expiry[1] = "KeepTtl" => r.prev_ttl # None
    /\ r.pc = "delete" => r.cmd \in DeleteCommand /\ r.i \in 1..Len(r.cmd.keys)
    /\ r.pc = "exists" => r.cmd \in ExistsCommand /\ r.i \in 1..Len(r.cmd.keys)
    /\ r.pc = "push" => r.cmd \in PushCommand /\ r.i \in 1..Len(r.cmd.elements)
    /\ r.pc \in {"ttl_get", "ttl_exists"} => r.cmd \in TtlCommand

(* Every variable has its type, and a command in flight has what its next  *)
(* call of the store needs: its position in the arguments is in range, a   *)
(* KEEPTTL about to be applied has a deadline, a finished one its reply.   *)
TypeOK ==
    /\ StoreTypeOK
    /\ conn \in [Clients -> Locals]
    /\ \A c \in Clients : InFlightOK(conn[c])
    /\ DOMAIN reply = Clients
    /\ \A c \in Clients : IF conn[c].pc = "done" THEN reply[c][1] \in RespKind ELSE reply[c] = None
    /\ touched \in [Clients -> BOOLEAN]
    /\ evictor \in [pc : {"idle", "filter", "delete", "dead"},
                    pairs : [Keys -> Nat \cup {None}], doomed : SUBSET Keys]
    /\ poisoned \in BOOLEAN

(* No key ever holds an empty list, whatever pushes, pops and LSETs of     *)
(* different connections do to it: pop_inner removes the key with its last *)
(* element.  LPOP, EXISTS and KEYS rely on it.                             *)
NoEmptyList == \A k \in Keys : is_list(data[k]) => data[k][2] # <<>>

(* A write never lands in an entry that is already dead: whenever a step   *)
(* gives a key a new value, the deadline it leaves with that value is one  *)
(* that had not passed when the step began.  This is why set, mset,        *)
(* push_inner, sadd and smove drop a stale deadline before they insert.    *)
WriteIsVisible ==
    [][\A k \in Keys : data'[k] # data[k] /\ data'[k] # None =>
          (expiry_index'[k] # None => now < expiry_index'[k])]_vars

(* A deadline belongs to a key: the expiry index has no entry for a key    *)
(* that is not in the store.  Pops of a last element break it              *)
(* (list.rs:88); the runs that check it send none.                         *)
NoOrphanTtl == \A k \in Keys : expiry_index[k] # None => data[k] # None

(* Every way of asking for a key gives the same answer at every clock      *)
(* reading, the deadline itself included: GET, MGET, GETDEL, EXISTS, KEYS  *)
(* and the lookup all collection commands share each compare the clock     *)
(* themselves, with < in some places and >= in others.  The TTL family is  *)
(* not among them: checked_duration_since answers 0 at the deadline.       *)
ReadPathsAgree ==
    \A k \in Keys :
        LET v == IF Live(k) THEN data[k] ELSE None
        IN  /\ get(k) = v /\ inner_get(k, now) = v /\ get_del_returns(k) = v
            /\ exists(k) <=> v # None
            /\ k \in keys(Keys) <=> v # None
            /\ mget(<<k>>)[1] = IF is_str(v) THEN v[2] ELSE None

(* A command that is not appended to the AOF: its kind or its reply keeps  *)
(* it out, or its task panicked before the append.                         *)
Unlogged(c) ==
    \/ conn[c].pc = "done" /\ ~appended(conn[c].cmd, reply[c])
    \/ conn[c].pc = "dead"

(* The ways a command can change the store and still go unlogged.          *)
UnloggedWrite(c) ==
    LET cmd == conn[c].cmd
    IN  \/ cmd \in LSetCommand                                       \* not in is_write
        \/ cmd \in GetDelCommand /\ reply[c] = WRONGTYPE             \* deleted, then looked at
        \/ cmd \in ExpireAtCommand /\ reply[c] = Integer(0)          \* a deadline in the past
        \/ /\ cmd \in SetCommand /\ cmd.expiry # None               \* written, then an overflow
           /\ reply[c] \in {InvalidExpire, None}
        \/ cmd \in PushCommand /\ Len(cmd.elements) > 1              \* one element of several
        \/ poisoned                                                  \* any command, halfway

(* Whatever commands of different connections do between each other's      *)
(* calls, a command that leaves the AOF without a trace has not changed    *)
(* the store in any of its calls, with those exceptions and no other: DEL, *)
(* SADD, SREM, SMOVE, SPOP, PERSIST, EXPIRE, SET and the pops reply an     *)
(* error or 0 only if they did nothing.                                    *)
NoOtherUnloggedWrite == \A c \in Clients : Unlogged(c) /\ touched[c] => UnloggedWrite(c)

(* A key that does not expire in a step changes the type of its value only *)
(* by SET or MSET.  A push, SADD or SMOVE never replaces a live value of   *)
(* another type, and no collection command confuses an expired value with  *)
(* a live one of its own type.                                             *)
KindStable ==
    [][\A k \in Keys :
          /\ data[k] # None /\ (expiry_index[k] # None => now' < expiry_index[k])
          /\ Live(k)'
          /\ data'[k][1] # data[k][1]
          => is_str(data'[k])]_vars

(* The step of c gives k a value made only of what its command brings. *)
Rewrites(c, k) ==
    LET v == data'[k]
        cmd == conn'[c].cmd
    IN  \/ conn[c].pc = "set_write" /\ v = Str(conn[c].cmd.value)
        \/ conn[c].pc = "push" /\ \E e \in Strings : v = List(<<e>>)
        \/ /\ conn[c].pc = "idle" /\ conn'[c].pc = "done"
           /\ \/ cmd \in MSetCommand /\ \E i \in DOMAIN cmd.items : v = Str(cmd.items[i][2])
              \/ cmd \in SAddCommand /\ v = Set(cmd.members)
              \/ cmd \in SMoveCommand /\ v = Set({cmd.member})

(* The step of c sets or removes the deadline of k and looks at no value:  *)
(* EXPIRE and its kin, PERSIST, and the last call of a SET with a TTL.     *)
ChangesDeadline(c, k) ==
    LET cmd == conn'[c].cmd
    IN  \/ conn[c].pc = "set_expire" /\ conn[c].cmd.key = k
        \/ /\ conn[c].pc = "idle" /\ conn'[c].pc = "done"
           /\ cmd \in ExpireCommand \cup ExpireAtCommand \cup PersistCommand /\ cmd.key = k

(* An expired value stays dead.  A step that leaves a value with a key     *)
(* whose old one had expired either wrote a new one, nothing of the old in *)
(* it, or left it as it was and unreadable.  The calls that set a deadline *)
(* without a look at the old one are the only way back: no write, pop,     *)
(* move, eviction or refused command of any connection continues or        *)
(* revives an expired value.                                               *)
ExpiredStaysDead ==
    [][\A k \in Keys :
          /\ data[k] # None /\ ~Live(k) /\ data'[k] # None
          /\ data'[k] # data[k] \/ Live(k)'
          => \E c \in Clients : Rewrites(c, k) \/ ChangesDeadline(c, k)]_vars

(* The move the connection has made is in effect. *)
Delivered(c) ==
    LET cmd == conn[c].cmd
    IN  /\ HasMember(cmd.destination, cmd.member)
        /\ cmd.source # cmd.destination => ~HasMember(cmd.source, cmd.member)

(* SMOVE that reports success has delivered: the member is in a live set   *)
(* at the destination, also when destination and source are one key, when  *)
(* the destination had expired, or expired during the call.                *)
SMoveDelivers ==
    [][\A c \in Clients :
          /\ conn[c].pc = "idle" /\ conn'[c].pc = "done"
          /\ conn'[c].cmd \in SMoveCommand /\ reply'[c] = Integer(1)
          => Delivered(c)']_vars

(* The slice of a list between two inclusive bounds, each counted from the *)
(* end when negative: the positions of the list that lie between them.     *)
Slice(l, start, stop) ==
    LET resolved(p) == IF p < 0 THEN p + Len(l) ELSE p
        within == {p \in 0..(Len(l) - 1) : resolved(start) <= p /\ p <= resolved(stop)}
        first == CHOOSE p \in within : \A q \in within : p <= q
    IN  [i \in 1..Cardinality(within) |-> l[first + i]]

(* LRANGE returns that slice for every pair of bounds, in range or not,    *)
(* and LINDEX the one element of the slice whose bounds are its index: the *)
(* clamping, the early returns and calculate_index together.               *)
ListWindow ==
    \A k \in Keys : is_list(data[k]) =>
        LET l == data[k][2]
            bounds == (-(Len(l) + 1))..(Len(l) + 1)
        IN  \A p \in bounds :
               /\ \A q \in bounds : lrange_of(l, p, q) = Slice(l, p, q)
               /\ lindex_of(l, p) = IF Slice(l, p, p) = <<>> THEN None ELSE Slice(l, p, p)[1]

(* The unit in which a command gives its absolute deadline, and the        *)
(* instant this deadline stands for.                                       *)
DeadlineUnit(cmd) ==
    IF (IF cmd \in SetCommand THEN cmd.expiry[1] = "ExAt" ELSE cmd.op = "ExpireAt") THEN Sec ELSE Ms

AskedInstant(cmd) ==
    DeadlineUnit(cmd) * (IF cmd \in SetCommand THEN cmd.expiry[2] ELSE cmd.deadline)

HasAbsoluteDeadline(cmd) ==
    \/ cmd \in ExpireAtCommand
    \/ cmd \in SetCommand /\ cmd.expiry # None /\ cmd.expiry[1] \in {"ExAt", "PxAt"}

(* EXPIREAT, PEXPIREAT, SET EXAT and SET PXAT never let a key die before   *)
(* the Unix time they name, and less than a second, for the two that count *)
(* in milliseconds less than a millisecond, after it, although the         *)
(* conversion to an Instant uses a truncated clock: a deadline in the past *)
(* gives one that is due at once.                                          *)
DeadlineHonoured ==
    [][\A c \in Clients :
          /\ conn[c].pc # "done" /\ conn'[c].pc = "done"
          /\ HasAbsoluteDeadline(conn'[c].cmd)
          /\ expiry_index' # expiry_index
          => LET cmd == conn'[c].cmd
                 asked == AskedInstant(cmd)
                 e == expiry_index'[cmd.key]
             IN  e # None => asked <= e /\ (e < asked + DeadlineUnit(cmd) \/ e <= now')]_vars

(* EXPIRETIME answers with the second the deadline falls in or the one     *)
(* before it, PEXPIRETIME with its millisecond or the one before it, never *)
(* with a later one, at every moment of the key's life, although each adds *)
(* two truncated values, the clock and the remaining time: with            *)
(* DeadlineHonoured, a client that asks back gets what it set or one less. *)
ExpireTimeFaithful ==
    \A k \in Keys : expiry_index[k] # None /\ now <= expiry_index[k] =>
        LET e == expiry_index[k]
        IN  /\ ttl_of("ExpireTime", e - now) \in {e \div Sec - 1, e \div Sec}
            /\ ttl_of("PExpireTime", e - now) \in {e \div Ms - 1, e \div Ms}

(* The daemon keeps the index from filling up with dead entries: an entry  *)
(* whose deadline has passed is eventually evicted or replaced, although   *)
(* each round looks at SampleSize entries only, drawn at random, and       *)
(* entries without a key (left by LPOP) compete for the draw.  A poisoned  *)
(* lock ends the daemon, and the promise with it: its next round panics.   *)
ExpiredIsReclaimed ==
    \A k \in Keys :
        (expiry_index[k] # None /\ now >= expiry_index[k])
            ~> (poisoned \/ (expiry_index[k] # None => now < expiry_index[k]))

-----------------------------------------------------------------------------
(***************************************************************************)
(* What the documentation or a comment of the code says and the code does  *)
(* not do.  Each is refuted by a run of its own.                           *)
(***************************************************************************)
(* The string a SET would find at its key now. *)
CurrentString(k) == IF Live(k) /\ is_str(data[k]) THEN data[k][2] ELSE None

(* SET NX, XX, IFEQ ... writes only if its condition holds: "Only set if   *)
(* the key does not already exist."  (command/string.rs:9)                 *)
SetConditionHolds ==
    [][\A c \in Clients :
          conn[c].pc = "set_write" /\ conn'[c].pc \in {"set_expire", "done"}
          => condition_met(conn[c].cmd.condition, CurrentString(conn[c].cmd.key))]_vars

(* evict_expired removes expired keys only: "Samples `N` keys and evicts   *)
(* the expired ones from the store."  (ttl.rs:34)                          *)
EvictsOnlyExpired ==
    [][evictor.pc = "delete" /\ evictor'.pc = "idle" => \A k \in Keys : Live(k) => Live(k)']_vars

(* No panic poisons the lock of the store: the arm of smove marked         *)
(* unreachable!("source type was already checked above") is never reached. *)
(* (store/set.rs:148)  SPOP with a huge count (store/set.rs:181) breaks it *)
(* as well; the run sends none, so that TLC shows the arm.                 *)
NeverPoisoned == ~poisoned
=============================================================================
