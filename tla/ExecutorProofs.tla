--------------------------- MODULE ExecutorProofs ---------------------------
(***************************************************************************)
(* Machine-checked proofs about Executor, for every set of keys, strings,  *)
(* clients and commands and every value of the bounds.                     *)
(***************************************************************************)
EXTENDS Executor, SequenceTheorems, TLAPS

(* The parts of TypeOK, by the variables they speak about. *)
DataTyped ==
    /\ data \in [Keys -> StoreValue \cup {None}]
    /\ expiry_index \in [Keys -> Nat \cup {None}]

ConnTyped ==
    /\ conn \in [Clients -> Locals]
    /\ \A c \in Clients : InFlightOK(conn[c])
    /\ DOMAIN reply = Clients
    /\ \A c \in Clients : IF conn[c].pc = "done" THEN reply[c][1] \in RespKind ELSE reply[c] = None
    /\ touched \in [Clients -> BOOLEAN]

RestTyped ==
    /\ now \in Nat
    /\ evictor \in [pc : {"idle", "filter", "delete", "dead"},
                    pairs : [Keys -> Nat \cup {None}], doomed : SUBSET Keys]
    /\ poisoned \in BOOLEAN

(* TypeOK is the conjunction of its three parts. *)
LEMMA TypeParts == TypeOK <=> DataTyped /\ ConnTyped /\ RestTyped
  BY DEF TypeOK, StoreTypeOK, DataTyped, ConnTyped, RestTyped

(* The same after a step. *)
LEMMA TypePartsNext == DataTyped' /\ ConnTyped' /\ RestTyped' => TypeOK'
  BY DEF TypeOK, StoreTypeOK, DataTyped, ConnTyped, RestTyped

-----------------------------------------------------------------------------
(* How an action moves its connection on. *)

(* A fresh connection has the type of a connection. *)
LEMMA IdleTyped == Idle \in Locals /\ InFlightOK(Idle)
  BY DEF Idle, Locals, PC, InFlightOK

(* The history variable stays a Boolean per connection. *)
LEMMA RecordTyped ==
  ASSUME ConnTyped, NEW c \in Clients, Record(c)
  PROVE  touched' \in [Clients -> BOOLEAN]
  BY Zenon DEF Record, ConnTyped

(* A command that returns a RESP value leaves its connection typed. *)
LEMMA ReplyTyped ==
  ASSUME ConnTyped, NEW c \in Clients, NEW cmd \in Command \cup {None},
         NEW r, r[1] \in RespKind, Reply(c, cmd, r)
  PROVE  ConnTyped'
<1>1. touched' \in [Clients -> BOOLEAN]
  BY RecordTyped DEF Reply
<1> DEFINE next == [Idle EXCEPT !.pc = "done", !.cmd = cmd]
<1>2. next \in Locals /\ InFlightOK(next) /\ next.pc = "done"
  BY DEF Idle, Locals, PC, InFlightOK
<1>3. conn' = [conn EXCEPT ![c] = next] /\ reply' = [reply EXCEPT ![c] = r]
  BY DEF Reply
<1> HIDE DEF next
<1> QED
  BY <1>1, <1>2, <1>3 DEF ConnTyped

(* So does one whose task panics before it has a reply. *)
LEMMA PanicTyped ==
  ASSUME ConnTyped, NEW c \in Clients, NEW cmd \in Command \cup {None},
         conn[c].pc # "done", Panic(c, cmd)
  PROVE  ConnTyped'
<1>1. touched' \in [Clients -> BOOLEAN]
  BY RecordTyped DEF Panic
<1> DEFINE next == [Idle EXCEPT !.pc = "dead", !.cmd = cmd]
<1>2. next \in Locals /\ InFlightOK(next) /\ next.pc = "dead"
  BY DEF Idle, Locals, PC, InFlightOK
<1>3. conn' = [conn EXCEPT ![c] = next] /\ reply' = reply
  BY DEF Panic
<1> HIDE DEF next
<1> QED
  BY <1>1, <1>2, <1>3 DEF ConnTyped

(* So does one that goes on with well-formed local variables. *)
LEMMA ContinueTyped ==
  ASSUME ConnTyped, NEW c \in Clients, NEW r \in Locals, InFlightOK(r),
         conn[c].pc # "done", r.pc # "done", Continue(c, r)
  PROVE  ConnTyped'
<1>1. touched' \in [Clients -> BOOLEAN]
  BY RecordTyped DEF Continue
<1> QED
  BY <1>1 DEF ConnTyped, Continue
-----------------------------------------------------------------------------
(* Every method of the store keeps the types of its two maps. *)

(* The three constructors build values of the store. *)
LEMMA ValueTyped ==
  /\ \A s \in Strings : Str(s) \in StoreValue
  /\ \A l \in Seq(Strings) : List(l) \in StoreValue
  /\ \A s \in SUBSET Strings : Set(s) \in StoreValue
  BY DEF Str, List, Set, StoreValue

(* What a value of each type holds. *)
LEMMA ValueParts ==
  ASSUME NEW v \in StoreValue \cup {None}
  PROVE  /\ is_str(v) => v[2] \in Strings
         /\ is_list(v) => v[2] \in Seq(Strings)
         /\ is_set(v) => v[2] \in SUBSET Strings
  BY DEF StoreValue, is_str, is_list, is_set

(* A lookup gives a value of the store or None. *)
LEMMA LookupTyped ==
  ASSUME DataTyped, NEW k \in Keys, NEW t
  PROVE  /\ inner_get(k, t) \in StoreValue \cup {None}
         /\ get(k) \in StoreValue \cup {None}
         /\ inner_get(k, t) # None => inner_get(k, t) = data[k]
  BY DEF DataTyped, inner_get, get

(* Store::set, with a value of the store. *)
LEMMA SetTyped ==
  ASSUME DataTyped, NEW k \in Keys, NEW v \in StoreValue, set(k, v)
  PROVE  DataTyped'
  BY DEF DataTyped, set

(* Store::delete. *)
LEMMA DeleteTyped ==
  ASSUME DataTyped, NEW k \in Keys, delete(k)
  PROVE  DataTyped'
  BY DEF DataTyped, delete

(* Store::get_del. *)
LEMMA GetDelTyped ==
  ASSUME DataTyped, NEW k \in Keys, get_del(k)
  PROVE  DataTyped'
  BY DEF DataTyped, get_del, store

(* Store::set_ttl, with a deadline the clock can reach. *)
LEMMA SetTtlTyped ==
  ASSUME DataTyped, NEW k \in Keys, NEW t \in Nat, set_ttl(k, t)
  PROVE  DataTyped'
  BY DEF DataTyped, set_ttl, store

(* Store::persist. *)
LEMMA PersistTyped ==
  ASSUME DataTyped, NEW k \in Keys, persist(k)
  PROVE  DataTyped'
  BY DEF DataTyped, persist

(* Store::delete_bulk. *)
LEMMA DeleteBulkTyped ==
  ASSUME DataTyped, NEW ks \in SUBSET Keys, delete_bulk(ks)
  PROVE  DataTyped'
  BY DEF DataTyped, delete_bulk

(* Store::clear and Store::clear_async. *)
LEMMA ClearTyped ==
  ASSUME clear \/ clear_async
  PROVE  DataTyped'
  BY DEF DataTyped, clear, clear_async

(* Store::mset: the pair a key gets is one of the pairs sent. *)
LEMMA MSetTyped ==
  ASSUME DataTyped, NEW items \in Seq(Keys \X Strings), mset(items)
  PROVE  /\ DataTyped'
         /\ \A k \in Keys : data'[k] \in StoreValue \/ (data'[k] = data[k] /\ expiry_index'[k] = expiry_index[k])
<1> DEFINE named(k) == \E i \in DOMAIN items : last_pair(items, k, i)
           value(k) == items[CHOOSE i \in DOMAIN items : last_pair(items, k, i)][2]
<1>1. \A k \in Keys : named(k) => value(k) \in Strings
  BY DEF last_pair
<1>2. \A k \in Keys : named(k) => Str(value(k)) \in StoreValue
  BY <1>1, ValueTyped
<1>3. /\ expiry_index' = [k \in Keys |-> IF named(k) THEN None ELSE expiry_index[k]]
      /\ data' = [k \in Keys |-> IF named(k) THEN Str(value(k)) ELSE data[k]]
  BY DEF mset
<1> HIDE DEF named, value
<1> QED
  BY <1>2, <1>3 DEF DataTyped

(* push_inner of store/list.rs. *)
LEMMA PushTyped ==
  ASSUME DataTyped, NEW k \in Keys, NEW e \in Strings, NEW create, NEW front,
         push_inner(k, e, create, front)
  PROVE  DataTyped' /\ (UNCHANGED store \/ data'[k] \in StoreValue)
<1> DEFINE v == inner_get(k, now)
<1>1. is_list(v) => push_fn(v[2], e, front) \in Seq(Strings)
  BY LookupTyped, ValueParts DEF push_fn
<1>2. is_list(v) => List(push_fn(v[2], e, front)) \in StoreValue
  BY <1>1, ValueTyped
<1>3. <<e>> \in Seq(Strings)
  OBVIOUS
<1>4. List(<<e>>) \in StoreValue
  BY <1>3, ValueTyped
<1> QED
  BY <1>2, <1>4 DEF DataTyped, push_inner, store

(* pop_inner of store/list.rs. *)
LEMMA PopTyped ==
  ASSUME DataTyped, NEW k \in Keys, NEW count \in Nat, NEW front, pop_inner(k, count, front)
  PROVE  DataTyped'
<1> DEFINE v == inner_get(k, now)
<1>1. is_list(v) => pop_rest(v[2], count, front) \in Seq(Strings)
  BY LookupTyped, ValueParts DEF pop_rest, pop_amount
<1>2. is_list(v) => List(pop_rest(v[2], count, front)) \in StoreValue
  BY <1>1, ValueTyped
<1> QED
  BY <1>2 DEF DataTyped, pop_inner, store

(* The index arithmetic of lset never leaves the list. *)
LEMMA LSetIndexInRange ==
  ASSUME NEW l \in Seq(Strings), NEW index \in Int, lset_in_range(l, index)
  PROVE  calculate_index(index, Len(l)) + 1 \in 1..Len(l)
<1>1. Len(l) \in Nat
  BY LenProperties
<1> QED
  BY <1>1, NoneAssumption DEF lset_in_range, calculate_index

(* Store::lset. *)
LEMMA LSetTyped ==
  ASSUME DataTyped, NEW k \in Keys, NEW index \in Int, NEW e \in Strings, lset(k, index, e)
  PROVE  DataTyped' /\ (UNCHANGED store \/ data'[k] \in StoreValue)
<1> DEFINE v == inner_get(k, now)
           i == calculate_index(index, Len(v[2]))
           l == [v[2] EXCEPT ![i + 1] = e]
<1>1. is_list(v) /\ lset_in_range(v[2], index) => v[2] \in Seq(Strings) /\ i + 1 \in 1..Len(v[2])
  BY LookupTyped, ValueParts, LSetIndexInRange
<1>2. is_list(v) /\ lset_in_range(v[2], index) => l \in Seq(Strings)
  BY <1>1, ExceptSeq
<1>3. is_list(v) /\ lset_in_range(v[2], index) => List(l) \in StoreValue
  BY <1>2, ValueTyped
<1> QED
  BY <1>3 DEF DataTyped, lset, store

(* Store::sadd. *)
LEMMA SAddTyped ==
  ASSUME DataTyped, NEW k \in Keys, NEW members \in SUBSET Strings, sadd(k, members)
  PROVE  DataTyped' /\ (UNCHANGED store \/ data'[k] \in StoreValue)
<1> DEFINE v == inner_get(k, now)
<1>1. is_set(v) => Set(v[2] \cup members) \in StoreValue
  BY LookupTyped, ValueParts, ValueTyped
<1>2. Set(members) \in StoreValue
  BY ValueTyped
<1> QED
  BY <1>1, <1>2 DEF DataTyped, sadd, store

(* Store::srem. *)
LEMMA SRemTyped ==
  ASSUME DataTyped, NEW k \in Keys, NEW members \in SUBSET Strings, srem(k, members)
  PROVE  DataTyped' /\ (UNCHANGED store \/ data'[k] \in StoreValue)
<1> DEFINE v == inner_get(k, now)
<1>1. is_set(v) => Set(v[2] \ members) \in StoreValue
  BY LookupTyped, ValueParts, ValueTyped
<1> QED
  BY <1>1 DEF DataTyped, srem, store

(* Store::spop, for any members drawn. *)
LEMMA SPopTyped ==
  ASSUME DataTyped, NEW k \in Keys, NEW s \in SUBSET Strings, NEW popped, spop(k, s, popped)
  PROVE  DataTyped' /\ (expiry_index'[k] = None \/ data'[k] \in StoreValue)
<1>1. Set(s \ popped) \in StoreValue
  BY ValueTyped
<1> QED
  BY <1>1, DeleteTyped DEF DataTyped, spop, delete

(* Store::smove, when it neither refuses nor panics. *)
LEMMA SMoveTyped ==
  ASSUME DataTyped, NEW source \in Keys, NEW destination \in Keys, NEW m \in Strings,
         NEW at \in [1..4 -> Nat], at[2] <= at[4],
         smove_moves(source, destination, m, at), ~smove_panics(source, destination, m, at),
         smove(source, destination, m, at)
  PROVE  /\ DataTyped'
         /\ data'[destination] \in StoreValue
         /\ expiry_index'[source] = None \/ data'[source] \in StoreValue
<1> DEFINE left == inner_get(source, at[3])[2] \ {m}
           data1 == [data EXCEPT ![source] = IF left = {} THEN None ELSE Set(left)]
           index1 == [expiry_index EXCEPT ![source] = IF left = {} THEN None ELSE @]
           absent == \/ data1[destination] = None
                     \/ index1[destination] # None /\ at[4] >= index1[destination]
           moved == Set(IF absent THEN {m} ELSE data1[destination][2] \cup {m})
<1>1. is_set(data[source]) /\ inner_get(source, at[3]) = data[source]
  BY LookupTyped DEF smove_moves, smove_panics, smove_types_ok, inner_get, is_set
<1>2. left \in SUBSET Strings
  BY <1>1, ValueParts DEF DataTyped
<1>3. data1 \in [Keys -> StoreValue \cup {None}] /\ index1 \in [Keys -> Nat \cup {None}]
  BY <1>2, ValueTyped DEF DataTyped
<1>4. ~absent => is_set(data1[destination])
  <2>1. CASE source = destination
    BY <2>1, <1>2 DEF DataTyped, is_set, Set
  <2>2. CASE source # destination
    <3>1. data1[destination] = data[destination] /\ index1[destination] = expiry_index[destination]
      BY <2>2 DEF DataTyped
    <3>2. SUFFICES ASSUME ~absent PROVE is_set(data[destination])
      BY <3>1
    <3>3. inner_get(destination, at[2]) = data[destination]
      BY <3>1, <3>2 DEF inner_get, DataTyped
    <3> QED
      BY <3>1, <3>2, <3>3 DEF smove_moves, smove_types_ok
  <2> QED
    BY <2>1, <2>2
<1>5. moved \in StoreValue
  BY <1>3, <1>4, ValueParts, ValueTyped
<1>6. /\ data' = [data1 EXCEPT ![destination] = moved]
      /\ expiry_index' = [index1 EXCEPT ![destination] = IF absent THEN None ELSE @]
  BY DEF smove
<1>7. source # destination => \/ data'[source] = Set(left) \/ expiry_index'[source] = None
  BY <1>3, <1>6 DEF DataTyped
<1>8. Set(left) \in StoreValue
  BY <1>2, ValueTyped
<1> QED
  BY <1>3, <1>5, <1>6, <1>7, <1>8 DEF DataTyped
-----------------------------------------------------------------------------
(* Deadlines are clock readings. *)

(* Both conversions of a Unix time give an Instant. *)
LEMMA DeadlineTyped ==
  ASSUME now \in Nat, NEW d \in U64
  PROVE  /\ now + Sec * d \in Nat /\ now + Ms * d \in Nat
         /\ unix_secs_to_instant(d) \in Nat /\ unix_ms_to_instant(d) \in Nat
<1>1. \A p, q \in Nat : p * q \in Nat
  OBVIOUS
<1>2. Sec \in Nat /\ Sec > 0 /\ Ms \in Nat /\ Ms > 0 /\ U64Max \in Nat
  BY ConstantsAssumption
<1>3. d \in Nat
  BY <1>2 DEF U64
<1>4. now \div Sec \in Nat /\ now \div Ms \in Nat
  BY <1>2
<1>5. saturating_sub(d, unix_secs) \in Nat /\ saturating_sub(d, unix_ms) \in Nat
  BY <1>3, <1>4 DEF saturating_sub, unix_secs, unix_ms
<1> QED
  BY <1>1, <1>2, <1>3, <1>5 DEF unix_secs_to_instant, unix_ms_to_instant

(* So does the expiry option of a SET that has one to apply. *)
LEMMA SetDeadlineTyped ==
  ASSUME now \in Nat, NEW cmd \in SetCommand, NEW prev_ttl \in Nat \cup {None},
         cmd.expiry # None, cmd.expiry[1] = "KeepTtl" => prev_ttl # None
  PROVE  set_deadline(cmd, prev_ttl) \in Nat
<1>1. \/ cmd.expiry[1] \in {"Ex", "Px", "ExAt", "PxAt"} /\ cmd.expiry[2] \in U64
      \/ cmd.expiry[1] = "KeepTtl"
  BY DEF SetCommand, SetExpiry
<1>2. CASE cmd.expiry[1] = "KeepTtl"
  BY <1>2 DEF set_deadline, has_expiry
<1>3. CASE cmd.expiry[1] \in {"Ex", "Px", "ExAt", "PxAt"} /\ cmd.expiry[2] \in U64
  BY <1>3, DeadlineTyped DEF set_deadline, has_expiry
<1> QED
  BY <1>1, <1>2, <1>3

-----------------------------------------------------------------------------
(* One lemma per action: it keeps every variable typed. *)

(* The clock, the daemon and the lock, when a connection leaves them alone. *)
LEMMA ElsewhereTyped == RestTyped /\ Elsewhere => RestTyped'
  BY DEF RestTyped, Elsewhere

(* The two maps, when a step leaves them alone. *)
LEMMA StoreUnchangedTyped == DataTyped /\ UNCHANGED store => DataTyped'
  BY DEF DataTyped, store

(* The commands with several calls are commands. *)
LEMMA LongIsCommand ==
  /\ SetCommand \subseteq Command /\ DeleteCommand \subseteq Command
  /\ ExistsCommand \subseteq Command /\ PushCommand \subseteq Command
  /\ TtlCommand \subseteq Command
  BY DEF Command

(* Entering a command sets up what its first call needs. *)
LEMMA EnterTyped ==
  ASSUME TypeOK, NEW c \in Clients, conn[c].pc = "idle", NEW cmd \in Command, NEW pc \in PC,
         pc # "done", InFlightOK([Idle EXCEPT !.pc = pc, !.cmd = cmd]), Enter(c, cmd, pc)
  PROVE  TypeOK'
<1> DEFINE next == [Idle EXCEPT !.pc = pc, !.cmd = cmd]
<1>1. next \in Locals /\ next.pc # "done"
  BY DEF Idle, Locals
<1>2. DataTyped' /\ RestTyped'
  BY TypeParts, ElsewhereTyped, StoreUnchangedTyped DEF Enter
<1>3. InFlightOK(next) /\ Continue(c, next)
  BY DEF Enter
<1> HIDE DEF next
<1>4. ConnTyped'
  BY <1>1, <1>3, TypeParts, ContinueTyped
<1> QED
  BY <1>2, <1>4, TypePartsNext

(* Start. *)
LEMMA StartTyped ==
  ASSUME TypeOK, NEW c \in Clients, Start(c)
  PROVE  TypeOK'
<1>1. PICK cmd \in Commands :
          \/ cmd \in SetCommand /\ Enter(c, cmd, "set_read")
          \/ cmd \in DeleteCommand /\ Enter(c, cmd, "delete")
          \/ cmd \in ExistsCommand /\ Enter(c, cmd, "exists")
          \/ cmd \in TtlCommand /\ Enter(c, cmd, "ttl_get")
          \/ cmd \in PushCommand /\ Enter(c, cmd, "push")
  BY DEF Start
<1>2. conn[c].pc = "idle"
  BY DEF Start, Running
<1>3. \A S : \A s \in NonEmpty(S) : 1 \in 1..Len(s)
  BY EmptySeq, LenProperties DEF NonEmpty
<1>4. CASE cmd \in SetCommand /\ Enter(c, cmd, "set_read")
  <2>1. InFlightOK([Idle EXCEPT !.pc = "set_read", !.cmd = cmd])
    BY <1>4 DEF InFlightOK, Idle
  <2> QED
    BY <2>1, <1>2, <1>4, EnterTyped, LongIsCommand DEF PC
<1>5. CASE cmd \in DeleteCommand /\ Enter(c, cmd, "delete")
  <2>1. 1 \in 1..Len(cmd.keys)
    BY <1>3, <1>5 DEF DeleteCommand
  <2>2. InFlightOK([Idle EXCEPT !.pc = "delete", !.cmd = cmd])
    BY <1>5, <2>1 DEF InFlightOK, Idle
  <2> QED
    BY <2>2, <1>2, <1>5, EnterTyped, LongIsCommand DEF PC
<1>6. CASE cmd \in ExistsCommand /\ Enter(c, cmd, "exists")
  <2>1. 1 \in 1..Len(cmd.keys)
    BY <1>3, <1>6 DEF ExistsCommand
  <2>2. InFlightOK([Idle EXCEPT !.pc = "exists", !.cmd = cmd])
    BY <1>6, <2>1 DEF InFlightOK, Idle
  <2> QED
    BY <2>2, <1>2, <1>6, EnterTyped, LongIsCommand DEF PC
<1>7. CASE cmd \in TtlCommand /\ Enter(c, cmd, "ttl_get")
  <2>1. InFlightOK([Idle EXCEPT !.pc = "ttl_get", !.cmd = cmd])
    BY <1>7 DEF InFlightOK, Idle
  <2> QED
    BY <2>1, <1>2, <1>7, EnterTyped, LongIsCommand DEF PC
<1>8. CASE cmd \in PushCommand /\ Enter(c, cmd, "push")
  <2>1. 1 \in 1..Len(cmd.elements)
    BY <1>3, <1>8 DEF PushCommand
  <2>2. InFlightOK([Idle EXCEPT !.pc = "push", !.cmd = cmd])
    BY <1>8, <2>1 DEF InFlightOK, Idle
  <2> QED
    BY <2>2, <1>2, <1>8, EnterTyped, LongIsCommand DEF PC
<1> QED
  BY <1>1, <1>4, <1>5, <1>6, <1>7, <1>8

(* SET replies with a RESP value. *)
LEMMA SetReplyTyped ==
  ASSUME NEW cmd, NEW prev, NEW met
  PROVE  set_reply(cmd, prev, met)[1] \in RespKind
  BY DEF set_reply, BulkString, OK, SimpleString, RespKind

(* SET, its read of the previous value. *)
LEMMA SetReadTyped ==
  ASSUME TypeOK, NEW c \in Clients, SetRead(c)
  PROVE  TypeOK'
<1> DEFINE cmd == conn[c].cmd
           v == get(cmd.key)
           prev == IF is_str(v) THEN v[2] ELSE None
           next == [conn[c] EXCEPT !.prev = prev,
                      !.pc = IF has_expiry(cmd, "KeepTtl") THEN "set_keepttl" ELSE "set_write"]
<1>1. DataTyped /\ ConnTyped /\ RestTyped
  BY TypeParts
<1>2. DataTyped' /\ RestTyped'
  BY <1>1, ElsewhereTyped, StoreUnchangedTyped DEF SetRead
<1>3. conn[c] \in Locals /\ conn[c].pc = "set_read" /\ cmd \in SetCommand
  BY <1>1 DEF ConnTyped, InFlightOK, SetRead, Running
<1>4. cmd \in Command /\ cmd.key \in Keys
  BY <1>3, LongIsCommand DEF SetCommand
<1>5. prev \in Strings \cup {None}
  BY <1>1, <1>4, LookupTyped, ValueParts
<1>6. next \in Locals /\ next.pc \in {"set_keepttl", "set_write"} /\ next.cmd = cmd
  BY <1>3, <1>5 DEF Locals, PC
<1>7. InFlightOK(next)
  BY <1>3, <1>6 DEF InFlightOK
<1>8. \/ Reply(c, cmd, WRONGTYPE)
      \/ Reply(c, cmd, set_reply(cmd, prev, FALSE))
      \/ Continue(c, next)
  BY DEF SetRead
<1>9. WRONGTYPE[1] \in RespKind
  BY DEF WRONGTYPE, SimpleError, RespKind
<1> HIDE DEF cmd, v, prev, next
<1>10. ConnTyped'
  BY <1>1, <1>3, <1>4, <1>6, <1>7, <1>8, <1>9, SetReplyTyped, ReplyTyped, ContinueTyped
<1> QED
  BY <1>2, <1>10, TypePartsNext

(* SET KEEPTTL, its read of the deadline. *)
LEMMA SetKeepTtlTyped ==
  ASSUME TypeOK, NEW c \in Clients, SetKeepTtl(c)
  PROVE  TypeOK'
<1> DEFINE next == [conn[c] EXCEPT !.prev_ttl = get_ttl(conn[c].cmd.key), !.pc = "set_write"]
<1>1. DataTyped /\ ConnTyped /\ RestTyped
  BY TypeParts
<1>2. DataTyped' /\ RestTyped'
  BY <1>1, ElsewhereTyped, StoreUnchangedTyped DEF SetKeepTtl
<1>3. conn[c] \in Locals /\ conn[c].pc = "set_keepttl" /\ conn[c].cmd \in SetCommand
  BY <1>1 DEF ConnTyped, InFlightOK, SetKeepTtl, Running
<1>4. get_ttl(conn[c].cmd.key) \in Nat \cup {None}
  BY <1>1, <1>3 DEF get_ttl, DataTyped, SetCommand
<1>5. next \in Locals /\ next.pc = "set_write" /\ next.cmd = conn[c].cmd
  BY <1>3, <1>4 DEF Locals, PC
<1>6. InFlightOK(next)
  BY <1>3, <1>5 DEF InFlightOK
<1>7. Continue(c, next)
  BY DEF SetKeepTtl
<1> HIDE DEF next
<1>8. ConnTyped'
  BY <1>1, <1>3, <1>5, <1>6, <1>7, ContinueTyped
<1> QED
  BY <1>2, <1>8, TypePartsNext

(* SET, its write: a KEEPTTL goes on only with a deadline in hand. *)
LEMMA SetWriteTyped ==
  ASSUME TypeOK, NEW c \in Clients, SetWrite(c)
  PROVE  TypeOK'
<1> DEFINE cmd == conn[c].cmd
           finished == \/ cmd.expiry = None
                       \/ has_expiry(cmd, "KeepTtl") /\ conn[c].prev_ttl = None
           next == [conn[c] EXCEPT !.pc = "set_expire"]
<1>1. DataTyped /\ ConnTyped /\ RestTyped
  BY TypeParts
<1>2. RestTyped'
  BY <1>1, ElsewhereTyped DEF SetWrite
<1>3. conn[c] \in Locals /\ conn[c].pc = "set_write" /\ cmd \in SetCommand
  BY <1>1 DEF ConnTyped, InFlightOK, SetWrite, Running
<1>4. cmd \in Command /\ cmd.key \in Keys /\ cmd.value \in Strings
  BY <1>3, LongIsCommand DEF SetCommand
<1>5. DataTyped'
  BY <1>1, <1>4, SetTyped, ValueTyped DEF SetWrite, set_string
<1>6. next \in Locals /\ next.pc = "set_expire" /\ next.cmd = cmd /\ next.prev_ttl = conn[c].prev_ttl
  BY <1>3 DEF Locals, PC
<1>7. ~finished => InFlightOK(next)
  BY <1>3, <1>6 DEF InFlightOK, has_expiry
<1>8. \/ Reply(c, cmd, set_reply(cmd, conn[c].prev, TRUE))
      \/ ~finished /\ Continue(c, next)
  BY DEF SetWrite
<1> HIDE DEF cmd, finished, next
<1>9. ConnTyped'
  BY <1>1, <1>3, <1>4, <1>6, <1>7, <1>8, SetReplyTyped, ReplyTyped, ContinueTyped
<1> QED
  BY <1>2, <1>5, <1>9, TypePartsNext

(* SET, its deadline. *)
LEMMA SetExpireTyped ==
  ASSUME TypeOK, NEW c \in Clients, SetExpire(c)
  PROVE  TypeOK'
<1> DEFINE cmd == conn[c].cmd
           deadline == set_deadline(cmd, conn[c].prev_ttl)
<1>1. DataTyped /\ ConnTyped /\ RestTyped
  BY TypeParts
<1>2. RestTyped'
  BY <1>1, ElsewhereTyped DEF SetExpire
<1>3. /\ conn[c] \in Locals /\ conn[c].pc = "set_expire" /\ cmd \in SetCommand
      /\ cmd.expiry # None /\ (cmd.expiry[1] = "KeepTtl" => conn[c].prev_ttl # None)
  BY <1>1 DEF ConnTyped, InFlightOK, SetExpire, Running
<1>4. cmd \in Command /\ cmd.key \in Keys /\ conn[c].prev_ttl \in Nat \cup {None}
  BY <1>3, LongIsCommand DEF SetCommand, Locals
<1>5. deadline \in Nat
  BY <1>1, <1>3, <1>4, SetDeadlineTyped DEF RestTyped
<1>6. \/ set_ttl(cmd.key, deadline) /\ Reply(c, cmd, set_reply(cmd, conn[c].prev, TRUE))
      \/ UNCHANGED store /\ Reply(c, cmd, InvalidExpire)
      \/ UNCHANGED store /\ Panic(c, cmd)
  BY DEF SetExpire
<1>7. InvalidExpire[1] \in RespKind
  BY DEF InvalidExpire, SimpleError, RespKind
<1> HIDE DEF cmd, deadline
<1>8. DataTyped'
  BY <1>1, <1>4, <1>5, <1>6, SetTtlTyped, StoreUnchangedTyped
<1>9. ConnTyped'
  BY <1>1, <1>3, <1>4, <1>6, <1>7, SetReplyTyped, ReplyTyped, PanicTyped
<1> QED
  BY <1>2, <1>8, <1>9, TypePartsNext

(* A loop over arguments stays within them. *)
LEMMA AdvanceTyped ==
  ASSUME ConnTyped, NEW c \in Clients, NEW arguments, NEW n \in Nat, Len(arguments) \in Nat,
         \/ /\ conn[c].pc \in {"delete", "exists"} /\ conn[c].cmd \in DeleteCommand \cup ExistsCommand
            /\ arguments = conn[c].cmd.keys
         \/ /\ conn[c].pc = "push" /\ conn[c].cmd \in PushCommand
            /\ arguments = conn[c].cmd.elements,
         Advance(c, arguments, n)
  PROVE  ConnTyped'
<1> DEFINE next == [conn[c] EXCEPT !.i = @ + 1, !.n = n]
<1>1. conn[c] \in Locals /\ InFlightOK(conn[c]) /\ conn[c].pc # "done" /\ conn[c].cmd \in Command
  BY LongIsCommand DEF ConnTyped
<1>2. /\ next \in Locals /\ next.pc = conn[c].pc /\ next.cmd = conn[c].cmd
      /\ next.i = conn[c].i + 1
  <2>1. conn[c].i + 1 \in Nat
    BY <1>1 DEF Locals
  <2> QED
    BY <1>1, <2>1 DEF Locals
<1>3. conn[c].i < Len(arguments) => InFlightOK(next)
  <2>1. conn[c].i < Len(arguments) => next.i \in 1..Len(arguments)
    BY <1>1, <1>2 DEF Locals
  <2>2. \A p, q \in {"delete", "exists", "push"} : p \notin {"set_read", "set_keepttl", "set_write",
                     "set_expire", "ttl_get", "ttl_exists"}
    OBVIOUS
  <2> QED
    BY <1>1, <1>2, <2>1, <2>2 DEF InFlightOK
<1>4. Integer(n)[1] \in RespKind
  BY DEF Integer, RespKind
<1>5. \/ Reply(c, conn[c].cmd, Integer(n))
      \/ conn[c].i < Len(arguments) /\ Continue(c, next)
  BY DEF Advance
<1> HIDE DEF next
<1> QED
  BY <1>1, <1>2, <1>3, <1>4, <1>5, ReplyTyped, ContinueTyped

(* DEL, one key. *)
LEMMA DeleteStepTyped ==
  ASSUME TypeOK, NEW c \in Clients, Delete(c)
  PROVE  TypeOK'
<1> DEFINE ks == conn[c].cmd.keys
           k == ks[conn[c].i]
           n == conn[c].n + IF delete_returns(k) THEN 1 ELSE 0
<1>1. DataTyped /\ ConnTyped /\ RestTyped
  BY TypeParts
<1>2. RestTyped'
  BY <1>1, ElsewhereTyped DEF Delete
<1>3. /\ conn[c] \in Locals /\ conn[c].pc = "delete" /\ conn[c].cmd \in DeleteCommand
      /\ conn[c].i \in 1..Len(ks)
  BY <1>1 DEF ConnTyped, InFlightOK, Delete, Running
<1>4. ks \in Seq(Keys) /\ k \in Keys /\ Len(ks) \in Nat
  BY <1>3, ElementOfSeq, LenProperties DEF DeleteCommand, NonEmpty
<1>5. n \in Nat
  BY <1>3 DEF Locals
<1>6. delete(k) /\ Advance(c, ks, n)
  BY DEF Delete
<1> HIDE DEF n
<1>7. ConnTyped'
  BY <1>1, <1>3, <1>4, <1>5, <1>6, AdvanceTyped
<1>8. DataTyped'
  BY <1>1, <1>4, <1>6, DeleteTyped
<1> QED
  BY <1>2, <1>7, <1>8, TypePartsNext

(* EXISTS, one key. *)
LEMMA ExistsTyped ==
  ASSUME TypeOK, NEW c \in Clients, Exists(c)
  PROVE  TypeOK'
<1> DEFINE ks == conn[c].cmd.keys
           n == conn[c].n + IF exists(ks[conn[c].i]) THEN 1 ELSE 0
<1>1. DataTyped /\ ConnTyped /\ RestTyped
  BY TypeParts
<1>2. RestTyped' /\ DataTyped'
  BY <1>1, ElsewhereTyped, StoreUnchangedTyped DEF Exists
<1>3. conn[c] \in Locals /\ conn[c].pc = "exists" /\ conn[c].cmd \in ExistsCommand
  BY <1>1 DEF ConnTyped, InFlightOK, Exists, Running
<1>4. Len(ks) \in Nat
  BY <1>3, LenProperties DEF ExistsCommand, NonEmpty
<1>5. n \in Nat
  BY <1>3 DEF Locals, exists
<1>6. Advance(c, ks, n)
  BY DEF Exists
<1> HIDE DEF n
<1>7. ConnTyped'
  BY <1>1, <1>3, <1>4, <1>5, <1>6, AdvanceTyped
<1> QED
  BY <1>2, <1>7, TypePartsNext

(* A push, one element. *)
LEMMA PushStepTyped ==
  ASSUME TypeOK, NEW c \in Clients, Push(c)
  PROVE  TypeOK'
<1> DEFINE cmd == conn[c].cmd
           create == cmd.op \in {"LPush", "RPush"}
           len == push_inner_returns(cmd.key, create)
           e == cmd.elements[conn[c].i]
<1>1. DataTyped /\ ConnTyped /\ RestTyped
  BY TypeParts
<1>2. RestTyped'
  BY <1>1, ElsewhereTyped DEF Push
<1>3. /\ conn[c] \in Locals /\ conn[c].pc = "push" /\ cmd \in PushCommand
      /\ conn[c].i \in 1..Len(cmd.elements)
  BY <1>1 DEF ConnTyped, InFlightOK, Push, Running
<1>4. /\ cmd.elements \in Seq(Strings) /\ e \in Strings /\ Len(cmd.elements) \in Nat
      /\ cmd.key \in Keys /\ cmd \in Command
  BY <1>3, ElementOfSeq, LenProperties, LongIsCommand DEF PushCommand, NonEmpty
<1>5. len \in Nat \cup {None}
  <2> DEFINE v == inner_get(cmd.key, now)
  <2>1. is_list(v) => Len(v[2]) \in Nat
    BY <1>1, <1>4, LookupTyped, ValueParts, LenProperties
  <2> QED
    BY <2>1 DEF push_inner_returns
<1>6. /\ push_inner(cmd.key, e, create, cmd.op \in {"LPush", "LPushX"})
      /\ \/ Reply(c, cmd, WRONGTYPE)
         \/ len # None /\ Advance(c, cmd.elements, len)
  BY DEF Push
<1>7. WRONGTYPE[1] \in RespKind
  BY DEF WRONGTYPE, SimpleError, RespKind
<1> HIDE DEF len, create, e
<1>8. DataTyped'
  BY <1>1, <1>4, <1>6, PushTyped
<1>9. ConnTyped'
  BY <1>1, <1>3, <1>4, <1>5, <1>6, <1>7, AdvanceTyped, ReplyTyped
<1> QED
  BY <1>2, <1>8, <1>9, TypePartsNext

(* resolve_expiry, its read of the deadline. *)
LEMMA TtlGetTyped ==
  ASSUME TypeOK, NEW c \in Clients, TtlGet(c)
  PROVE  TypeOK'
<1> DEFINE next == [conn[c] EXCEPT !.pc = "ttl_exists"]
<1>1. DataTyped /\ ConnTyped /\ RestTyped
  BY TypeParts
<1>2. RestTyped' /\ DataTyped'
  BY <1>1, ElsewhereTyped, StoreUnchangedTyped DEF TtlGet
<1>3. /\ conn[c] \in Locals /\ conn[c].pc = "ttl_get" /\ conn[c].cmd \in TtlCommand
      /\ conn[c].cmd \in Command
  BY <1>1, LongIsCommand DEF ConnTyped, InFlightOK, TtlGet, Running
<1>4. next \in Locals /\ next.pc = "ttl_exists" /\ next.cmd = conn[c].cmd
  BY <1>3 DEF Locals, PC
<1>5. InFlightOK(next)
  BY <1>3, <1>4 DEF InFlightOK
<1>6. Continue(c, next) \/ \E n : Reply(c, conn[c].cmd, Integer(n))
  BY DEF TtlGet
<1>7. \A n : Integer(n)[1] \in RespKind
  BY DEF Integer, RespKind
<1> HIDE DEF next
<1>8. ConnTyped'
  BY <1>1, <1>3, <1>4, <1>5, <1>6, <1>7, ReplyTyped, ContinueTyped
<1> QED
  BY <1>2, <1>8, TypePartsNext

(* resolve_expiry, its check of the key. *)
LEMMA TtlExistsTyped ==
  ASSUME TypeOK, NEW c \in Clients, TtlExists(c)
  PROVE  TypeOK'
<1>1. DataTyped /\ ConnTyped /\ RestTyped
  BY TypeParts
<1>2. RestTyped' /\ DataTyped'
  BY <1>1, ElsewhereTyped, StoreUnchangedTyped DEF TtlExists
<1>3. conn[c].cmd \in Command
  BY <1>1, LongIsCommand DEF ConnTyped, InFlightOK, TtlExists, Running
<1>4. PICK n : Reply(c, conn[c].cmd, Integer(n))
  BY DEF TtlExists
<1>5. Integer(n)[1] \in RespKind
  BY DEF Integer, RespKind
<1>6. ConnTyped'
  BY <1>1, <1>3, <1>4, <1>5, ReplyTyped
<1> QED
  BY <1>2, <1>6, TypePartsNext
(* The commands that call the store once. *)

(* Every constructor of a reply gives a RESP value. *)
LEMMA ReplyKinds ==
  /\ \A n : Integer(n)[1] \in RespKind
  /\ \A x : BulkString(x)[1] \in RespKind
  /\ \A x : Array(x)[1] \in RespKind /\ Unordered(x)[1] \in RespKind
  /\ \A x : SimpleString(x)[1] \in RespKind
  /\ \A x : SimpleError(x)[1] \in RespKind
  /\ OK[1] \in RespKind /\ WRONGTYPE[1] \in RespKind /\ InvalidExpire[1] \in RespKind
  /\ \A x : Truth(x)[1] \in RespKind
  BY DEF Integer, BulkString, Array, Unordered, SimpleString, SimpleError, OK, WRONGTYPE,
         InvalidExpire, Truth, RespKind

(* A command with one call: typed if its call is and its reply is a RESP value. *)
LEMMA OneCallTyped ==
  ASSUME TypeOK, NEW c \in Clients, conn[c].pc = "idle", NEW cmd \in Commands,
         DataTyped', RestTyped',
         Panic(c, cmd) \/ \E r : r[1] \in RespKind /\ Reply(c, cmd, r)
  PROVE  TypeOK'
<1>1. ConnTyped /\ cmd \in Command
  BY TypeParts, CommandsAssumption
<1>2. ConnTyped'
  BY <1>1, ReplyTyped, PanicTyped
<1> QED
  BY <1>2, TypePartsNext

(* GETDEL. *)
LEMMA GetDelStepTyped ==
  ASSUME TypeOK, NEW c \in Clients, GetDel(c)
  PROVE  TypeOK'
<1>1. DataTyped /\ RestTyped /\ RestTyped' /\ conn[c].pc = "idle"
  BY TypeParts, ElsewhereTyped DEF GetDel, Running
<1> DEFINE answer(cmd) ==
      LET v == get_del_returns(cmd.key)
      IN  CASE v = None -> BulkString(None) [] is_str(v) -> BulkString(v[2]) [] OTHER -> WRONGTYPE
<1>2. PICK cmd \in Commands :
         cmd \in GetDelCommand /\ get_del(cmd.key) /\ Reply(c, cmd, answer(cmd))
  BY DEF GetDel
<1>3. cmd.key \in Keys
  BY <1>2 DEF GetDelCommand
<1>4. DataTyped'
  BY <1>1, <1>2, <1>3, GetDelTyped
<1>5. answer(cmd)[1] \in RespKind
  BY ReplyKinds
<1> HIDE DEF answer
<1> QED
  BY <1>1, <1>2, <1>4, <1>5, OneCallTyped

(* MSET. *)
LEMMA MSetStepTyped ==
  ASSUME TypeOK, NEW c \in Clients, MSet(c)
  PROVE  TypeOK'
<1>1. DataTyped /\ RestTyped /\ RestTyped' /\ conn[c].pc = "idle"
  BY TypeParts, ElsewhereTyped DEF MSet, Running
<1>2. PICK cmd \in Commands : cmd \in MSetCommand /\ mset(cmd.items) /\ Reply(c, cmd, OK)
  BY DEF MSet
<1>3. cmd.items \in Seq(Keys \X Strings)
  BY <1>2 DEF MSetCommand, NonEmpty
<1>4. DataTyped'
  BY <1>1, <1>2, <1>3, MSetTyped
<1> QED
  BY <1>1, <1>2, <1>4, ReplyKinds, OneCallTyped

(* LPOP and RPOP. *)
LEMMA PopStepTyped ==
  ASSUME TypeOK, NEW c \in Clients, Pop(c)
  PROVE  TypeOK'
<1>1. DataTyped /\ RestTyped /\ RestTyped' /\ conn[c].pc = "idle"
  BY TypeParts, ElsewhereTyped DEF Pop, Running
<1> DEFINE amount(cmd) == IF cmd.count = None THEN 1 ELSE cmd.count
           answer(cmd) == pop_reply(inner_get(cmd.key, now), cmd.count, cmd.op = "LPop")
<1>2. PICK cmd \in Commands :
         /\ cmd \in PopCommand
         /\ \/ pop_inner(cmd.key, amount(cmd), cmd.op = "LPop") /\ Reply(c, cmd, answer(cmd))
            \/ UNCHANGED store /\ Panic(c, cmd)
  BY DEF Pop
<1>3. cmd.key \in Keys /\ amount(cmd) \in Nat
  BY <1>2, ConstantsAssumption DEF PopCommand, U64
<1>4. DataTyped'
  BY <1>1, <1>2, <1>3, PopTyped, StoreUnchangedTyped
<1>5. answer(cmd)[1] \in RespKind
  BY ReplyKinds DEF pop_reply, elements_reply
<1> HIDE DEF answer, amount
<1> QED
  BY <1>1, <1>2, <1>4, <1>5, OneCallTyped

(* LSET. *)
LEMMA LSetStepTyped ==
  ASSUME TypeOK, NEW c \in Clients, LSet(c)
  PROVE  TypeOK'
<1>1. DataTyped /\ RestTyped /\ RestTyped' /\ conn[c].pc = "idle"
  BY TypeParts, ElsewhereTyped DEF LSet, Running
<1>2. PICK cmd \in Commands :
         /\ cmd \in LSetCommand /\ lset(cmd.key, cmd.index, cmd.element)
         /\ \/ Reply(c, cmd, SimpleError("ERR No such key")) \/ Reply(c, cmd, OK)
            \/ Reply(c, cmd, SimpleError("ERR index out of range")) \/ Reply(c, cmd, WRONGTYPE)
  BY DEF LSet
<1>3. cmd.key \in Keys /\ cmd.index \in Int /\ cmd.element \in Strings
  BY <1>2 DEF LSetCommand
<1>4. DataTyped'
  BY <1>1, <1>2, <1>3, LSetTyped
<1> QED
  BY <1>1, <1>2, <1>4, ReplyKinds, OneCallTyped

(* SADD. *)
LEMMA SAddStepTyped ==
  ASSUME TypeOK, NEW c \in Clients, SAdd(c)
  PROVE  TypeOK'
<1>1. DataTyped /\ RestTyped /\ RestTyped' /\ conn[c].pc = "idle"
  BY TypeParts, ElsewhereTyped DEF SAdd, Running
<1>2. PICK cmd \in Commands :
         /\ cmd \in SAddCommand /\ sadd(cmd.key, cmd.members)
         /\ (\E n : Reply(c, cmd, Integer(n))) \/ Reply(c, cmd, WRONGTYPE)
  BY DEF SAdd
<1>3. cmd.key \in Keys /\ cmd.members \in SUBSET Strings
  BY <1>2 DEF SAddCommand
<1>4. DataTyped'
  BY <1>1, <1>2, <1>3, SAddTyped
<1> QED
  BY <1>1, <1>2, <1>4, ReplyKinds, OneCallTyped

(* SREM. *)
LEMMA SRemStepTyped ==
  ASSUME TypeOK, NEW c \in Clients, SRem(c)
  PROVE  TypeOK'
<1>1. DataTyped /\ RestTyped /\ RestTyped' /\ conn[c].pc = "idle"
  BY TypeParts, ElsewhereTyped DEF SRem, Running
<1>2. PICK cmd \in Commands :
         /\ cmd \in SRemCommand /\ srem(cmd.key, cmd.members)
         /\ (\E n : Reply(c, cmd, Integer(n))) \/ Reply(c, cmd, WRONGTYPE)
  BY DEF SRem
<1>3. cmd.key \in Keys /\ cmd.members \in SUBSET Strings
  BY <1>2 DEF SRemCommand
<1>4. DataTyped'
  BY <1>1, <1>2, <1>3, SRemTyped
<1> QED
  BY <1>1, <1>2, <1>4, ReplyKinds, OneCallTyped

(* The readings of smove are those of a clock. *)
LEMMA ReadingsTyped ==
  ASSUME now \in Nat, NEW at \in Readings
  PROVE  /\ at \in [1..4 -> Nat] /\ at[4] \in Nat
         /\ now <= at[1] /\ at[1] <= at[3] /\ at[3] <= at[4] /\ at[2] <= at[4] /\ now <= at[4]
<1>1. /\ at \in [1..4 -> {now} \cup ({now + 1} \cap 0..MaxTime)]
      /\ \A i, j \in 1..4 : i <= j => at[i] <= at[j]
  BY DEF Readings
<1>2. \A t \in {now} \cup ({now + 1} \cap 0..MaxTime) : t \in Nat /\ now <= t
  OBVIOUS
<1> QED
  BY <1>1, <1>2

(* SMOVE. *)
LEMMA SMoveStepTyped ==
  ASSUME TypeOK, NEW c \in Clients, SMove(c)
  PROVE  TypeOK'
<1>1. DataTyped /\ RestTyped /\ conn[c].pc = "idle" /\ now \in Nat
  BY TypeParts DEF SMove, Running, RestTyped
<1>2. PICK cmd \in Commands, at \in Readings :
         /\ cmd \in SMoveCommand /\ now' = at[4]
         /\ \/ /\ smove_moves(cmd.source, cmd.destination, cmd.member, at)
               /\ ~smove_panics(cmd.source, cmd.destination, cmd.member, at)
               /\ smove(cmd.source, cmd.destination, cmd.member, at)
               /\ Reply(c, cmd, Integer(1)) /\ UNCHANGED poisoned
            \/ UNCHANGED store /\ Panic(c, cmd) /\ poisoned' = TRUE
            \/ /\ UNCHANGED store /\ UNCHANGED poisoned
               /\ Reply(c, cmd, Integer(0)) \/ Reply(c, cmd, WRONGTYPE)
  BY DEF SMove
<1>3. cmd.source \in Keys /\ cmd.destination \in Keys /\ cmd.member \in Strings
  BY <1>2 DEF SMoveCommand
<1>4. at \in [1..4 -> Nat] /\ at[2] <= at[4] /\ at[4] \in Nat
  BY <1>1, <1>2, ReadingsTyped
<1>5. RestTyped'
  BY <1>1, <1>2, <1>4 DEF SMove, RestTyped
<1>6. DataTyped'
  BY <1>1, <1>2, <1>3, <1>4, SMoveTyped, StoreUnchangedTyped
<1> QED
  BY <1>1, <1>2, <1>5, <1>6, ReplyKinds, OneCallTyped

(* SPOP. *)
LEMMA SPopStepTyped ==
  ASSUME TypeOK, NEW c \in Clients, SPop(c)
  PROVE  TypeOK'
<1>1. DataTyped /\ RestTyped /\ RestTyped' /\ conn[c].pc = "idle"
  BY TypeParts DEF SPop, Running, RestTyped
<1>2. PICK cmd \in Commands :
         /\ cmd \in SPopCommand
         /\ LET v == inner_get(cmd.key, now)
            IN  \/ is_set(v) /\ \E popped : spop(cmd.key, v[2], popped)
                \/ UNCHANGED store
         /\ \/ Panic(c, cmd) \/ Reply(c, cmd, WRONGTYPE)
            \/ \E r : Reply(c, cmd, Unordered(r)) \/ Reply(c, cmd, BulkString(r))
  BY DEF SPop
<1>3. cmd.key \in Keys
  BY <1>2 DEF SPopCommand
<1>4. DataTyped'
  BY <1>1, <1>2, <1>3, SPopTyped, LookupTyped, ValueParts, StoreUnchangedTyped
<1> QED
  BY <1>1, <1>2, <1>4, ReplyKinds, OneCallTyped

(* PERSIST. *)
LEMMA PersistStepTyped ==
  ASSUME TypeOK, NEW c \in Clients, Persist(c)
  PROVE  TypeOK'
<1>1. DataTyped /\ RestTyped /\ RestTyped' /\ conn[c].pc = "idle"
  BY TypeParts, ElsewhereTyped DEF Persist, Running
<1>2. PICK cmd \in Commands :
         cmd \in PersistCommand /\ persist(cmd.key) /\ \E r : Reply(c, cmd, Truth(r))
  BY DEF Persist
<1>3. cmd.key \in Keys
  BY <1>2 DEF PersistCommand
<1>4. DataTyped'
  BY <1>1, <1>2, <1>3, PersistTyped
<1> QED
  BY <1>1, <1>2, <1>4, ReplyKinds, OneCallTyped

(* EXPIRE and PEXPIRE. *)
LEMMA ExpireStepTyped ==
  ASSUME TypeOK, NEW c \in Clients, Expire(c)
  PROVE  TypeOK'
<1>1. DataTyped /\ RestTyped /\ RestTyped' /\ conn[c].pc = "idle" /\ now \in Nat
  BY TypeParts, ElsewhereTyped DEF Expire, Running, RestTyped
<1> DEFINE deadline(cmd) == now + IF cmd.op = "Expire" THEN Sec * cmd.ttl ELSE Ms * cmd.ttl
<1>2. PICK cmd \in Commands :
         /\ cmd \in ExpireCommand
         /\ set_ttl(cmd.key, deadline(cmd)) \/ UNCHANGED store
         /\ (\E r : Reply(c, cmd, Truth(r))) \/ Reply(c, cmd, InvalidExpire)
  BY DEF Expire
<1>3. cmd.key \in Keys /\ cmd.ttl \in Nat
  BY <1>2, ConstantsAssumption DEF ExpireCommand, U64
<1>4. Sec * cmd.ttl \in Nat /\ Ms * cmd.ttl \in Nat
  BY <1>3, ConstantsAssumption
<1>5. deadline(cmd) \in Nat
  BY <1>1, <1>3, <1>4
<1> HIDE DEF deadline
<1>6. DataTyped'
  BY <1>1, <1>2, <1>3, <1>5, SetTtlTyped, StoreUnchangedTyped
<1> QED
  BY <1>1, <1>2, <1>6, ReplyKinds, OneCallTyped

(* EXPIREAT and PEXPIREAT. *)
LEMMA ExpireAtStepTyped ==
  ASSUME TypeOK, NEW c \in Clients, ExpireAt(c)
  PROVE  TypeOK'
<1>1. DataTyped /\ RestTyped /\ RestTyped' /\ conn[c].pc = "idle" /\ now \in Nat
  BY TypeParts, ElsewhereTyped DEF ExpireAt, Running, RestTyped
<1>2. PICK cmd \in Commands :
         /\ cmd \in ExpireAtCommand
         /\ delete(cmd.key) \/ set_ttl(cmd.key, expire_at_instant(cmd)) \/ UNCHANGED store
         /\ Reply(c, cmd, Integer(0)) \/ (\E r : Reply(c, cmd, Truth(r))) \/ Panic(c, cmd)
  BY DEF ExpireAt
<1>3. cmd.key \in Keys /\ cmd.deadline \in U64
  BY <1>2 DEF ExpireAtCommand
<1>4. expire_at_instant(cmd) \in Nat
  BY <1>1, <1>3, DeadlineTyped DEF expire_at_instant
<1>5. DataTyped'
  BY <1>1, <1>2, <1>3, <1>4, DeleteTyped, SetTtlTyped, StoreUnchangedTyped
<1> QED
  BY <1>1, <1>2, <1>5, ReplyKinds, OneCallTyped

(* FLUSHDB. *)
LEMMA FlushDbStepTyped ==
  ASSUME TypeOK, NEW c \in Clients, FlushDb(c)
  PROVE  TypeOK'
<1>1. RestTyped' /\ conn[c].pc = "idle"
  BY TypeParts, ElsewhereTyped DEF FlushDb, Running
<1>2. PICK cmd \in Commands : (clear \/ clear_async) /\ Reply(c, cmd, OK)
  BY DEF FlushDb
<1>3. DataTyped'
  BY <1>2, ClearTyped
<1> QED
  BY <1>1, <1>2, <1>3, ReplyKinds, OneCallTyped

(* Every reply to a reading command is a RESP value. *)
LEMMA ReadReplyTyped ==
  ASSUME NEW cmd \in ReadCommand, NEW r \in ReadReplies(cmd)
  PROVE  r[1] \in RespKind
<1>1. \A v : get_reply(cmd, v)[1] \in RespKind \/ cmd.op \notin {"Get", "StrLen", "Digest"}
  BY ReplyKinds DEF get_reply, string_reply
<1>2. \A v : list_reply(cmd, v)[1] \in RespKind \/ cmd.op \notin {"LLen", "LIndex", "LRange"}
  BY ReplyKinds DEF list_reply
<1>3. \A v : \/ set_command_reply(cmd, v)[1] \in RespKind
             \/ cmd.op \notin {"SMembers", "SCard", "SIsMember", "SMIsMember"}
  BY ReplyKinds DEF set_command_reply
<1>4. \A v, n : \A x \in srandmember_replies(v, n) : x[1] \in RespKind
  BY ReplyKinds DEF srandmember_replies
<1>5. cmd.op \in {"Get", "StrLen", "Digest", "LLen", "SMembers", "SCard", "MGet", "LIndex", "LRange",
                  "SIsMember", "SMIsMember", "SRandMember", "Keys", "DbSize"}
  BY DEF ReadCommand
<1> QED
  BY <1>1, <1>2, <1>3, <1>4, <1>5, ReplyKinds DEF ReadReplies

(* The reading commands. *)
LEMMA ReadStepTyped ==
  ASSUME TypeOK, NEW c \in Clients, Read(c)
  PROVE  TypeOK'
<1>1. DataTyped' /\ RestTyped' /\ conn[c].pc = "idle"
  BY TypeParts, ElsewhereTyped, StoreUnchangedTyped DEF Read, Running
<1>2. PICK cmd \in Commands :
         cmd \in ReadCommand /\ (Panic(c, cmd) \/ \E r \in ReadReplies(cmd) : Reply(c, cmd, r))
  BY DEF Read
<1> QED
  BY <1>1, <1>2, ReadReplyTyped, OneCallTyped

(* PING and SELECT. *)
LEMMA StatelessTyped ==
  ASSUME TypeOK, NEW c \in Clients, Stateless(c)
  PROVE  TypeOK'
<1>1. DataTyped' /\ RestTyped' /\ conn[c].pc = "idle"
  BY TypeParts, ElsewhereTyped, StoreUnchangedTyped DEF Stateless
<1>2. PICK cmd \in Commands : \E r :
         \/ Reply(c, cmd, SimpleString(r)) \/ Reply(c, cmd, BulkString(r))
         \/ Reply(c, cmd, OK) \/ Reply(c, cmd, SimpleError(r))
  BY DEF Stateless
<1> QED
  BY <1>1, <1>2, ReplyKinds, OneCallTyped

-----------------------------------------------------------------------------
(* The rest of a connection's life, the daemon and the clock. *)

(* Respond and Reconnect. *)
LEMMA FreshConnectionTyped ==
  ASSUME TypeOK, NEW c \in Clients, Respond(c) \/ Reconnect(c)
  PROVE  TypeOK'
<1>1. DataTyped /\ ConnTyped /\ RestTyped
  BY TypeParts
<1>2. DataTyped' /\ RestTyped'
  BY <1>1, ElsewhereTyped, StoreUnchangedTyped DEF Respond, Reconnect
<1>3. /\ conn' = [conn EXCEPT ![c] = Idle] /\ reply' = [reply EXCEPT ![c] = None]
      /\ touched' = [touched EXCEPT ![c] = FALSE]
  BY DEF Respond, Reconnect
<1>4. Idle.pc # "done"
  BY DEF Idle
<1>5. ConnTyped'
  BY <1>1, <1>3, <1>4, IdleTyped DEF ConnTyped
<1> QED
  BY <1>2, <1>5, TypePartsNext

(* A call of a poisoned store. *)
LEMMA PoisonedCallTyped ==
  ASSUME TypeOK, NEW c \in Clients, PoisonedCall(c)
  PROVE  TypeOK'
<1>1. ConnTyped
  BY TypeParts
<1>2. DataTyped' /\ RestTyped'
  BY TypeParts, ElsewhereTyped, StoreUnchangedTyped DEF PoisonedCall
<1>3. conn[c].cmd \in Command \cup {None} /\ conn[c].pc # "done"
  BY <1>1 DEF ConnTyped, Locals, PoisonedCall
<1>4. ConnTyped'
  BY <1>1, <1>3, PanicTyped DEF PoisonedCall
<1> QED
  BY <1>2, <1>4, TypePartsNext

(* The connections, when a step leaves them alone. *)
LEMMA ConnUnchangedTyped ==
  ASSUME ConnTyped, UNCHANGED <<conn, reply, touched>>
  PROVE  ConnTyped'
  BY DEF ConnTyped

(* The four steps of the daemon. *)
LEMMA DaemonTyped ==
  ASSUME TypeOK, Daemon
  PROVE  TypeOK'
<1> DEFINE Pairs == [Keys -> Nat \cup {None}]
<1>1. DataTyped /\ ConnTyped /\ RestTyped
  BY TypeParts
<1>2. ConnTyped' /\ now' = now /\ poisoned' = poisoned
  BY <1>1, ConnUnchangedTyped DEF Daemon, EvictSample, EvictFilter, EvictDelete, EvictorPanic
<1>3. EvictorIdle.pairs \in Pairs /\ EvictorIdle.doomed \in SUBSET Keys
  BY DEF EvictorIdle
<1>4. evictor.pairs \in Pairs /\ evictor.doomed \in SUBSET Keys
  BY <1>1 DEF RestTyped
<1>5. CASE EvictSample
  <2>1. PICK pairs \in sample_eviction_index(SampleSize) :
           evictor' = [EvictorIdle EXCEPT !.pc = "filter", !.pairs = pairs]
    BY <1>5 DEF EvictSample
  <2>2. pairs \in Pairs
    BY <1>1 DEF sample_eviction_index, DataTyped
  <2>3. RestTyped'
    BY <1>1, <1>2, <2>1, <2>2 DEF RestTyped, EvictorIdle
  <2> QED
    BY <1>1, <1>2, <1>5, <2>3, StoreUnchangedTyped, TypePartsNext DEF EvictSample, store
<1>6. CASE EvictFilter
  <2>1. expired_pairs(evictor.pairs) \in SUBSET Keys
    BY DEF expired_pairs
  <2>2. RestTyped'
    BY <1>1, <1>2, <1>6, <2>1 DEF RestTyped, EvictorIdle, EvictFilter
  <2> QED
    BY <1>1, <1>2, <1>6, <2>2, StoreUnchangedTyped, TypePartsNext DEF EvictFilter, store
<1>7. CASE EvictDelete
  <2>1. DataTyped'
    BY <1>1, <1>4, <1>7, DeleteBulkTyped DEF EvictDelete
  <2>2. RestTyped'
    BY <1>1, <1>2, <1>7 DEF RestTyped, EvictorIdle, EvictDelete
  <2> QED
    BY <1>2, <2>1, <2>2, TypePartsNext
<1>8. CASE EvictorPanic
  <2>1. RestTyped'
    BY <1>1, <1>2, <1>8 DEF RestTyped, EvictorIdle, EvictorPanic
  <2> QED
    BY <1>1, <1>2, <1>8, <2>1, StoreUnchangedTyped, TypePartsNext DEF EvictorPanic, store
<1> QED
  BY <1>5, <1>6, <1>7, <1>8 DEF Daemon

(* The clock. *)
LEMMA TickTyped ==
  ASSUME TypeOK, Tick
  PROVE  TypeOK'
<1>1. DataTyped /\ ConnTyped /\ RestTyped
  BY TypeParts
<1>2. DataTyped' /\ ConnTyped'
  BY <1>1, StoreUnchangedTyped, ConnUnchangedTyped DEF Tick, store
<1>3. RestTyped'
  BY <1>1 DEF Tick, RestTyped
<1> QED
  BY <1>2, <1>3, TypePartsNext

(* The initial states. *)
LEMMA InitTyped == Init => TypeOK
<1> SUFFICES ASSUME Init PROVE TypeOK
  OBVIOUS
<1>1. DataTyped
  BY DEF Init, StoreInit, DataTyped
<1>2. ConnTyped
  <2>1. Idle.pc # "done"
    BY DEF Idle
  <2> QED
    BY <2>1, IdleTyped DEF Init, ConnTyped
<1>3. RestTyped
  <2>1. now \in Nat
    BY ConstantsAssumption DEF Init
  <2>2. [k \in Keys |-> None] \in [Keys -> Nat \cup {None}]
    OBVIOUS
  <2> QED
    BY <2>1, <2>2 DEF Init, RestTyped, EvictorIdle
<1> QED
  BY <1>1, <1>2, <1>3, TypeParts

(* A stuttering step. *)
LEMMA StutterTyped ==
  ASSUME TypeOK, UNCHANGED vars
  PROVE  TypeOK'
<1>1. DataTyped /\ ConnTyped /\ RestTyped
  BY TypeParts
<1>2. DataTyped' /\ ConnTyped'
  BY <1>1, StoreUnchangedTyped, ConnUnchangedTyped DEF vars, store
<1>3. RestTyped'
  BY <1>1 DEF vars, RestTyped
<1> QED
  BY <1>2, <1>3, TypePartsNext

(* Every step. *)
LEMMA NextTyped ==
  ASSUME TypeOK, [Next]_vars
  PROVE  TypeOK'
<1>1. ASSUME NEW c \in Clients, Execute(c) PROVE TypeOK'
  BY <1>1, StartTyped, SetReadTyped, SetKeepTtlTyped, SetWriteTyped, SetExpireTyped,
     DeleteStepTyped, ExistsTyped, PushStepTyped, TtlGetTyped, TtlExistsTyped, GetDelStepTyped,
     MSetStepTyped, PopStepTyped, LSetStepTyped, SAddStepTyped, SRemStepTyped, SMoveStepTyped,
     SPopStepTyped, PersistStepTyped, ExpireStepTyped, ExpireAtStepTyped, FlushDbStepTyped,
     ReadStepTyped, StatelessTyped DEF Execute
<1>2. ASSUME NEW c \in Clients, Connection(c) PROVE TypeOK'
  BY <1>1, <1>2, FreshConnectionTyped, PoisonedCallTyped DEF Connection
<1> QED
  BY <1>2, DaemonTyped, TickTyped, StutterTyped DEF Next

(* Every command of every connection, at every point of its execution and  *)
(* whatever the other connections and the daemon do between its calls,     *)
(* finds the local variables its next call of the store needs.             *)
THEOREM TypeCorrect == Spec => []TypeOK
<1>1. Init => TypeOK
  BY InitTyped
<1>2. TypeOK /\ [Next]_vars => TypeOK'
  BY NextTyped
<1> QED
  BY <1>1, <1>2, PTL DEF Spec

-----------------------------------------------------------------------------
(***************************************************************************)
(* The executor and the daemon reach the store through its methods only:   *)
(* what a step does to the two maps is one call of one method.  The        *)
(* properties of the maps are proved method by method from here.           *)
(***************************************************************************)
(* A call that writes to one key, at the clock reading of the step. *)
KeyCall(k) ==
    \/ \E s \in Strings : set_string(k, s)
    \/ delete(k) \/ get_del(k) \/ persist(k)
    \/ \E t \in Nat : set_ttl(k, t)
    \/ \E e \in Strings, create, front \in BOOLEAN : push_inner(k, e, create, front)
    \/ \E index \in Int, e \in Strings : lset(k, index, e)
    \/ \E members \in SUBSET Strings : sadd(k, members) \/ srem(k, members)
    \/ is_set(inner_get(k, now)) /\ \E popped : spop(k, inner_get(k, now)[2], popped)

PopCall ==
    now' = now /\ \E k \in Keys, count \in Nat, front \in BOOLEAN : pop_inner(k, count, front)

BulkCall ==
    \/ \E items \in Seq(Keys \X Strings) : mset(items)
    \/ \E ks \in SUBSET Keys : delete_bulk(ks)
    \/ clear \/ clear_async

MoveCall ==
    \E source, destination \in Keys, m \in Strings, at \in Readings :
        /\ now' = at[4]
        /\ smove_moves(source, destination, m, at)
        /\ ~smove_panics(source, destination, m, at)
        /\ smove(source, destination, m, at)

StoreCall ==
    \/ UNCHANGED store
    \/ now' = now /\ ((\E k \in Keys : KeyCall(k)) \/ BulkCall)
    \/ MoveCall

(* A step of a command leaves the store alone or is one call of one method. *)
LEMMA ExecuteCallsStore ==
  ASSUME TypeOK, NEW c \in Clients, Execute(c)
  PROVE  StoreCall \/ (Pop(c) /\ PopCall)
<1>1. /\ DataTyped /\ now \in Nat /\ conn[c] \in Locals /\ InFlightOK(conn[c])
  BY TypeParts DEF ConnTyped, RestTyped
<1>2. CASE Start(c) \/ SetRead(c) \/ SetKeepTtl(c) \/ Exists(c) \/ TtlGet(c) \/ TtlExists(c)
           \/ Read(c) \/ Stateless(c)
  BY <1>2 DEF Start, Enter, SetRead, SetKeepTtl, Exists, TtlGet, TtlExists, Read, Stateless, StoreCall
<1>3. CASE SetWrite(c)
  BY <1>1, <1>3 DEF SetWrite, Running, InFlightOK, SetCommand, Elsewhere, StoreCall, KeyCall
<1>4. CASE SetExpire(c)
  <2>1. /\ conn[c].cmd \in SetCommand /\ conn[c].prev_ttl \in Nat \cup {None}
        /\ conn[c].cmd.expiry # None
        /\ conn[c].cmd.expiry[1] = "KeepTtl" => conn[c].prev_ttl # None
    BY <1>1, <1>4 DEF SetExpire, Running, InFlightOK, Locals
  <2>2. set_deadline(conn[c].cmd, conn[c].prev_ttl) \in Nat /\ conn[c].cmd.key \in Keys
    BY <1>1, <2>1, SetDeadlineTyped DEF SetCommand
  <2> QED
    BY <1>4, <2>2 DEF SetExpire, Elsewhere, StoreCall, KeyCall
<1>5. CASE Delete(c)
  <2>1. conn[c].cmd.keys[conn[c].i] \in Keys
    BY <1>1, <1>5, ElementOfSeq DEF Delete, Running, InFlightOK, DeleteCommand, NonEmpty
  <2> QED
    BY <1>5, <2>1 DEF Delete, Elsewhere, StoreCall, KeyCall
<1>6. CASE Push(c)
  <2>1. conn[c].cmd.elements[conn[c].i] \in Strings /\ conn[c].cmd.key \in Keys
    BY <1>1, <1>6, ElementOfSeq DEF Push, Running, InFlightOK, PushCommand, NonEmpty
  <2>2. \E create, front \in BOOLEAN :
           push_inner(conn[c].cmd.key, conn[c].cmd.elements[conn[c].i], create, front)
    <3> DEFINE create == conn[c].cmd.op \in {"LPush", "RPush"}
               front == conn[c].cmd.op \in {"LPush", "LPushX"}
    <3>1. push_inner(conn[c].cmd.key, conn[c].cmd.elements[conn[c].i], create, front)
      BY <1>6 DEF Push
    <3>2. create \in BOOLEAN /\ front \in BOOLEAN
      OBVIOUS
    <3> HIDE DEF create, front
    <3> QED
      BY <3>1, <3>2
  <2> QED
    BY <1>6, <2>1, <2>2 DEF Push, Elsewhere, StoreCall, KeyCall
<1>7. CASE GetDel(c) \/ Persist(c)
  BY <1>7 DEF GetDel, Persist, GetDelCommand, PersistCommand, Elsewhere, StoreCall, KeyCall
<1>8. CASE MSet(c)
  BY <1>8 DEF MSet, MSetCommand, NonEmpty, Elsewhere, StoreCall, BulkCall
<1>9. CASE Pop(c)
  <2>1. PICK cmd \in PopCommand :
           \/ pop_inner(cmd.key, IF cmd.count = None THEN 1 ELSE cmd.count, cmd.op = "LPop")
           \/ UNCHANGED store
    BY <1>9 DEF Pop
  <2>2. cmd.key \in Keys /\ (IF cmd.count = None THEN 1 ELSE cmd.count) \in Nat
    BY ConstantsAssumption DEF PopCommand, U64
  <2>3. now' = now
    BY <1>9 DEF Pop, Elsewhere
  <2> QED
    BY <1>9, <2>1, <2>2, <2>3 DEF StoreCall, PopCall
<1>10. CASE LSet(c)
  BY <1>10 DEF LSet, LSetCommand, Elsewhere, StoreCall, KeyCall
<1>11. CASE SAdd(c) \/ SRem(c)
  BY <1>11 DEF SAdd, SRem, SAddCommand, SRemCommand, Elsewhere, StoreCall, KeyCall
<1>12. CASE SMove(c)
  BY <1>12 DEF SMove, SMoveCommand, StoreCall, MoveCall
<1>13. CASE SPop(c)
  BY <1>13 DEF SPop, SPopCommand, StoreCall, KeyCall
<1>14. CASE Expire(c)
  <2> DEFINE deadline(cmd) == now + IF cmd.op = "Expire" THEN Sec * cmd.ttl ELSE Ms * cmd.ttl
  <2>1. PICK cmd \in ExpireCommand : set_ttl(cmd.key, deadline(cmd)) \/ UNCHANGED store
    BY <1>14 DEF Expire
  <2>2. cmd.key \in Keys /\ cmd.ttl \in Nat
    BY ConstantsAssumption DEF ExpireCommand, U64
  <2>3. Sec * cmd.ttl \in Nat /\ Ms * cmd.ttl \in Nat
    BY <2>2, ConstantsAssumption
  <2>4. deadline(cmd) \in Nat
    BY <1>1, <2>2, <2>3
  <2> HIDE DEF deadline
  <2> QED
    BY <1>14, <2>1, <2>2, <2>4 DEF Expire, Elsewhere, StoreCall, KeyCall
<1>15. CASE ExpireAt(c)
  <2>1. PICK cmd \in ExpireAtCommand :
           delete(cmd.key) \/ set_ttl(cmd.key, expire_at_instant(cmd)) \/ UNCHANGED store
    BY <1>15 DEF ExpireAt
  <2>2. cmd.key \in Keys /\ expire_at_instant(cmd) \in Nat
    BY <1>1, DeadlineTyped DEF expire_at_instant, ExpireAtCommand
  <2> QED
    BY <1>15, <2>1, <2>2 DEF ExpireAt, Elsewhere, StoreCall, KeyCall
<1>16. CASE FlushDb(c)
  BY <1>16 DEF FlushDb, Elsewhere, StoreCall, BulkCall
<1> QED
  BY <1>2, <1>3, <1>4, <1>5, <1>6, <1>7, <1>8, <1>9, <1>10, <1>11, <1>12, <1>13, <1>14, <1>15, <1>16
     DEF Execute

(* So is every step. *)
LEMMA StepCallsStore ==
  ASSUME TypeOK, [Next]_vars
  PROVE  StoreCall \/ (PopCall /\ \E c \in Clients : Pop(c))
<1>1. CASE \E c \in Clients : Connection(c)
  BY <1>1, ExecuteCallsStore DEF Connection, Respond, PoisonedCall, Reconnect, StoreCall
<1>2. CASE Daemon
  <2>1. evictor.doomed \in SUBSET Keys
    BY TypeParts DEF RestTyped
  <2> QED
    BY <1>2, <2>1 DEF Daemon, EvictSample, EvictFilter, EvictDelete, EvictorPanic, StoreCall, BulkCall,
                      store
<1>3. CASE Tick \/ UNCHANGED vars
  BY <1>3 DEF Tick, vars, StoreCall, store
<1> QED
  BY <1>1, <1>2, <1>3 DEF Next

-----------------------------------------------------------------------------
(* Empty lists. *)

(* A list that was pushed to is not empty. *)
LEMMA PushNotEmpty ==
  ASSUME NEW l \in Seq(Strings), NEW e \in Strings, NEW front
  PROVE  push_fn(l, e, front) # <<>>
<1>1. Append(l, e) # <<>> /\ <<e>> \o l # <<>>
  BY AppendProperties, ConcatProperties, LenProperties
<1> QED
  BY <1>1 DEF push_fn

(* No method of the store leaves an empty list behind. *)
LEMMA StoreCallNoEmptyList ==
  ASSUME DataTyped, NoEmptyList, StoreCall \/ PopCall
  PROVE  NoEmptyList'
<1> SUFFICES ASSUME NEW j \in Keys, is_list(data'[j])
             PROVE  data'[j][2] # <<>>
  BY DEF NoEmptyList
<1>1. is_list(data[j]) => data[j][2] # <<>>
  BY DEF NoEmptyList
<1>2. CASE data'[j] = data[j]
  BY <1>1, <1>2
<1>3. CASE \E l \in Seq(Strings) : l # <<>> /\ data'[j] = List(l)
  BY <1>3 DEF List
<1>4. CASE \E x : data'[j] = Str(x) \/ data'[j] = Set(x) \/ data'[j] = None
  BY <1>4 DEF Str, Set, is_list
<1>5. ASSUME NEW k \in Keys, KeyCall(k)
      PROVE  data'[j][2] # <<>>
  <2> DEFINE v == inner_get(k, now)
  <2>1. is_list(v) => v[2] \in Seq(Strings)
    BY LookupTyped, ValueParts
  <2>2. CASE \E s \in Strings : set_string(k, s)
    BY <1>2, <1>4, <2>2 DEF set_string, set, DataTyped
  <2>3. CASE delete(k) \/ get_del(k) \/ persist(k) \/ \E t \in Nat : set_ttl(k, t)
    BY <1>2, <1>4, <2>3 DEF delete, get_del, persist, set_ttl, store, DataTyped
  <2>4. ASSUME NEW e \in Strings, NEW create, NEW front, push_inner(k, e, create, front)
        PROVE  data'[j][2] # <<>>
    <3>1. is_list(v) => push_fn(v[2], e, front) \in Seq(Strings) /\ push_fn(v[2], e, front) # <<>>
      BY <2>1, PushNotEmpty DEF push_fn
    <3>2. <<e>> \in Seq(Strings) /\ <<e>> # <<>>
      OBVIOUS
    <3> QED
      BY <1>2, <1>3, <2>4, <3>1, <3>2 DEF push_inner, store, DataTyped
  <2>5. ASSUME NEW index \in Int, NEW e \in Strings, lset(k, index, e)
        PROVE  data'[j][2] # <<>>
    <3> DEFINE i == calculate_index(index, Len(v[2])) + 1
               l == [v[2] EXCEPT ![i] = e]
    <3>1. is_list(v) /\ lset_in_range(v[2], index) => i \in 1..Len(v[2])
      BY <2>1, LSetIndexInRange
    <3>2. is_list(v) /\ lset_in_range(v[2], index) => l \in Seq(Strings) /\ l # <<>>
      BY <2>1, <3>1, ExceptSeq, LenProperties
    <3>3. \/ is_list(v) /\ lset_in_range(v[2], index) /\ data' = [data EXCEPT ![k] = List(l)]
          \/ data' = data
      BY <2>5 DEF lset, store
    <3> HIDE DEF l
    <3> QED
      BY <1>2, <1>3, <3>2, <3>3 DEF DataTyped
  <2>6. CASE \E members \in SUBSET Strings : sadd(k, members) \/ srem(k, members)
    BY <1>2, <1>4, <2>6 DEF sadd, srem, store, DataTyped
  <2>7. CASE \E popped : spop(k, v[2], popped)
    BY <1>2, <1>4, <2>7 DEF spop, delete, DataTyped
  <2> QED
    BY <1>5, <2>2, <2>3, <2>4, <2>5, <2>6, <2>7 DEF KeyCall
<1>6. CASE BulkCall
  BY <1>2, <1>4, <1>6 DEF BulkCall, mset, delete_bulk, clear, clear_async
<1>7. CASE MoveCall
  <2>1. PICK source, destination \in Keys, m \in Strings, at \in Readings :
           smove(source, destination, m, at)
    BY <1>7 DEF MoveCall
  <2> DEFINE left == inner_get(source, at[3])[2] \ {m}
  <2>2. j \notin {source, destination} => data'[j] = data[j]
    BY <2>1 DEF smove, DataTyped
  <2>3. \E x : data'[destination] = Set(x)
    BY <2>1 DEF smove, DataTyped
  <2>4. source # destination => data'[source] = None \/ data'[source] = Set(left)
    BY <2>1 DEF smove, DataTyped
  <2> QED
    BY <1>2, <1>4, <2>2, <2>3, <2>4
<1>8. CASE PopCall
  <2>1. PICK k \in Keys, count \in Nat, front \in BOOLEAN : pop_inner(k, count, front)
    BY <1>8 DEF PopCall
  <2> DEFINE v == inner_get(k, now)
             rest == pop_rest(v[2], count, front)
  <2>2. is_list(v) => rest \in Seq(Strings)
    BY LookupTyped, ValueParts DEF pop_rest, pop_amount
  <2>3. \/ is_list(v) /\ data' = [data EXCEPT ![k] = IF rest = <<>> THEN None ELSE List(rest)]
        \/ data' = data
    BY <2>1 DEF pop_inner, store
  <2> HIDE DEF rest
  <2> QED
    BY <1>2, <1>3, <1>4, <2>2, <2>3 DEF DataTyped
<1> QED
  BY <1>2, <1>5, <1>6, <1>7, <1>8 DEF StoreCall, store

(* No key ever holds an empty list: pop_inner is the only method that can  *)
(* shorten a list, and it removes the key with the last element.           *)
THEOREM NoListIsEmpty == Spec => []NoEmptyList
<1>1. Init => NoEmptyList
  BY DEF Init, StoreInit, NoEmptyList, is_list
<1>2. TypeOK /\ NoEmptyList /\ [Next]_vars => NoEmptyList'
  BY TypeParts, StepCallsStore, StoreCallNoEmptyList
<1> QED
  BY <1>1, <1>2, TypeCorrect, PTL DEF Spec

-----------------------------------------------------------------------------
(* Writes and deadlines. *)

(* No method writes a value under a deadline that has passed. *)
LEMMA StoreCallWriteIsVisible ==
  ASSUME DataTyped, now \in Nat, StoreCall \/ PopCall,
         NEW j \in Keys, data'[j] # data[j], data'[j] # None
  PROVE  expiry_index'[j] # None => now < expiry_index'[j]
<1>1. expiry_index[j] \in Nat \cup {None}
  BY DEF DataTyped
<1>2. CASE expiry_index'[j] = None
  BY <1>2
<1>3. CASE expiry_index'[j] = expiry_index[j] /\ inner_get(j, now) # None
  BY <1>1, <1>3 DEF inner_get
<1>4. ASSUME NEW k \in Keys, KeyCall(k)
      PROVE  expiry_index'[j] = None \/ (expiry_index'[j] = expiry_index[j] /\ inner_get(j, now) # None)
  <2>1. CASE (\E s \in Strings : set_string(k, s)) \/ delete(k) \/ get_del(k) \/ persist(k)
             \/ \E t \in Nat : set_ttl(k, t)
    BY <2>1 DEF set_string, set, delete, get_del, persist, set_ttl, store, DataTyped
  <2>2. CASE \E e \in Strings, create, front \in BOOLEAN : push_inner(k, e, create, front)
    BY <2>2 DEF push_inner, store, DataTyped, is_list
  <2>3. CASE \E index \in Int, e \in Strings : lset(k, index, e)
    BY <2>3 DEF lset, store, DataTyped, is_list
  <2>4. CASE \E members \in SUBSET Strings : sadd(k, members) \/ srem(k, members)
    BY <2>4 DEF sadd, srem, store, DataTyped, is_set
  <2>5. CASE is_set(inner_get(k, now)) /\ \E popped : spop(k, inner_get(k, now)[2], popped)
    BY <2>5 DEF spop, delete, DataTyped, is_set
  <2> QED
    BY <1>4, <2>1, <2>2, <2>3, <2>4, <2>5 DEF KeyCall
<1>5. CASE BulkCall
  BY <1>2, <1>5 DEF BulkCall, mset, delete_bulk, clear, clear_async
<1>6. CASE MoveCall
  <2>1. PICK source, destination \in Keys, m \in Strings, at \in Readings :
           /\ smove_moves(source, destination, m, at)
           /\ ~smove_panics(source, destination, m, at)
           /\ smove(source, destination, m, at)
    BY <1>6 DEF MoveCall
  <2>2. at \in [1..4 -> Nat] /\ now <= at[1] /\ at[1] <= at[3] /\ now <= at[4]
    BY ReadingsTyped
  <2>3. inner_get(source, at[3]) # None
    BY <2>1 DEF smove_panics
  <2>4. expiry_index[source] = None \/ now < expiry_index[source]
    BY <2>2, <2>3 DEF inner_get, DataTyped
  <2>5. j \in {source, destination}
    BY <2>1 DEF smove, DataTyped
  <2>6. CASE j = destination
    BY <2>1, <2>2, <2>6 DEF smove, DataTyped
  <2>7. CASE j = source /\ j # destination
    BY <2>1, <2>4, <2>7 DEF smove, DataTyped
  <2> QED
    BY <2>5, <2>6, <2>7
<1>7. CASE PopCall
  <2>1. \/ data'[j] = data[j]
        \/ expiry_index' = expiry_index /\ inner_get(j, now) # None
    BY <1>7 DEF PopCall, pop_inner, store, DataTyped, is_list
  <2> QED
    BY <1>3, <2>1
<1> QED
  BY <1>2, <1>3, <1>4, <1>5, <1>6, <1>7 DEF StoreCall, store

(* Whatever command or daemon step gives a key a new value, the deadline   *)
(* it leaves has not passed when the step begins: no write is lost in an   *)
(* entry that has already expired.                                         *)
THEOREM WritesAreVisible == Spec => WriteIsVisible
<1> DEFINE A == \A k \in Keys : data'[k] # data[k] /\ data'[k] # None =>
                    (expiry_index'[k] # None => now < expiry_index'[k])
<1>1. TypeOK /\ [Next]_vars => [A]_vars
  BY TypeParts, StepCallsStore, StoreCallWriteIsVisible DEF RestTyped
<1> QED
  BY <1>1, TypeCorrect, PTL DEF Spec, WriteIsVisible

-----------------------------------------------------------------------------
(* Orphaned deadlines. *)

(* Every method but the pops removes the deadline with the key. *)
LEMMA StoreCallNoOrphanTtl ==
  ASSUME DataTyped, now \in Nat, NoOrphanTtl, StoreCall
  PROVE  NoOrphanTtl'
<1> SUFFICES ASSUME NEW j \in Keys, expiry_index'[j] # None
             PROVE  data'[j] # None
  BY DEF NoOrphanTtl
<1>1. expiry_index[j] # None => data[j] # None
  BY DEF NoOrphanTtl
<1>2. CASE data'[j] = data[j] /\ expiry_index'[j] = expiry_index[j]
  BY <1>1, <1>2
<1>3. CASE data'[j] \in StoreValue
  BY <1>3, NoneAssumption
<1>4. ASSUME NEW k \in Keys, KeyCall(k)
      PROVE  data'[j] # None
  <2>1. CASE j # k
    <3>1. data'[j] = data[j] /\ expiry_index'[j] = expiry_index[j]
      BY <1>4, <2>1 DEF KeyCall, set_string, set, delete, get_del, persist, set_ttl, push_inner, lset,
                        sadd, srem, spop, store, DataTyped
    <3> QED
      BY <1>2, <3>1
  <2>2. CASE \E s \in Strings : set_string(k, s)
    <3>1. data'[k] \in StoreValue
      BY <2>2, ValueTyped DEF set_string, set, DataTyped
    <3> QED
      BY <1>3, <2>1, <3>1
  <2>3. CASE delete(k) \/ get_del(k) \/ persist(k) \/ \E t \in Nat : set_ttl(k, t)
    BY <1>1, <2>3 DEF delete, get_del, persist, set_ttl, store, DataTyped
  <2>4. CASE \/ \E e \in Strings, create, front \in BOOLEAN : push_inner(k, e, create, front)
             \/ \E index \in Int, e \in Strings : lset(k, index, e)
             \/ \E members \in SUBSET Strings : sadd(k, members) \/ srem(k, members)
    <3>1. UNCHANGED store \/ data'[k] \in StoreValue
      BY <2>4, PushTyped, LSetTyped, SAddTyped, SRemTyped
    <3> QED
      BY <1>2, <1>3, <2>1, <3>1 DEF store
  <2>5. CASE is_set(inner_get(k, now)) /\ \E popped : spop(k, inner_get(k, now)[2], popped)
    <3>1. inner_get(k, now)[2] \in SUBSET Strings
      BY <2>5, LookupTyped, ValueParts
    <3>2. expiry_index'[k] = None \/ data'[k] \in StoreValue
      BY <2>5, <3>1, SPopTyped
    <3> QED
      BY <1>3, <2>1, <3>2
  <2> QED
    BY <1>4, <2>2, <2>3, <2>4, <2>5 DEF KeyCall
<1>5. CASE BulkCall
  <2>1. CASE \E items \in Seq(Keys \X Strings) : mset(items)
    BY <1>2, <1>3, <2>1, MSetTyped
  <2>2. CASE (\E ks \in SUBSET Keys : delete_bulk(ks)) \/ clear \/ clear_async
    BY <1>2, <2>2 DEF delete_bulk, clear, clear_async
  <2> QED
    BY <1>5, <2>1, <2>2 DEF BulkCall
<1>6. CASE MoveCall
  <2>1. PICK source, destination \in Keys, m \in Strings, at \in Readings :
           /\ smove_moves(source, destination, m, at)
           /\ ~smove_panics(source, destination, m, at)
           /\ smove(source, destination, m, at)
    BY <1>6 DEF MoveCall
  <2>2. /\ data'[destination] \in StoreValue
        /\ expiry_index'[source] = None \/ data'[source] \in StoreValue
    BY <2>1, SMoveTyped, ReadingsTyped
  <2>3. CASE j \notin {source, destination}
    BY <1>2, <2>1, <2>3 DEF smove, DataTyped
  <2> QED
    BY <1>3, <2>2, <2>3
<1> QED
  BY <1>2, <1>4, <1>5, <1>6 DEF StoreCall, store

(* LPOP and RPOP are the only commands that leave a deadline behind for a  *)
(* key they removed: without them the expiry index names keys of the store *)
(* only, whatever else the clients send and the daemon evicts.             *)
THEOREM PopsAloneOrphanTtls ==
  ASSUME Commands \cap PopCommand = {}
  PROVE  Spec => []NoOrphanTtl
<1>1. Init => NoOrphanTtl
  BY DEF Init, StoreInit, NoOrphanTtl
<1>2. TypeOK /\ NoOrphanTtl /\ [Next]_vars => NoOrphanTtl'
  <2>1. \A c \in Clients : ~Pop(c)
    BY DEF Pop
  <2> QED
    BY <2>1, TypeParts, StepCallsStore, StoreCallNoOrphanTtl DEF RestTyped
<1> QED
  BY <1>1, <1>2, TypeCorrect, PTL DEF Spec

-----------------------------------------------------------------------------
(* The type of a value. *)

(* No method but set and mset gives a live key a value of another type. *)
LEMMA StoreCallKindStable ==
  ASSUME DataTyped, now \in Nat, StoreCall \/ PopCall,
         NEW j \in Keys, data[j] # None, expiry_index[j] # None => now' < expiry_index[j],
         Live(j)', data'[j][1] # data[j][1]
  PROVE  is_str(data'[j])
<1>1. /\ data[j] # None /\ data'[j] # None /\ data'[j] # data[j]
      /\ now' = now => inner_get(j, now) = data[j]
  BY DEF Live, inner_get, DataTyped
<1>2. CASE \E s : data'[j] = Str(s)
  BY <1>1, <1>2 DEF is_str, Str
<1>3. /\ is_list(data[j]) => ~\E l : data'[j] = List(l)
      /\ is_set(data[j]) => ~\E s : data'[j] = Set(s)
  BY DEF is_list, is_set, List, Set
<1>4. ASSUME NEW k \in Keys, KeyCall(k), now' = now
      PROVE  is_str(data'[j])
  <2>0. inner_get(j, now) = data[j]
    BY <1>1, <1>4
  <2>1. CASE (\E s \in Strings : set_string(k, s)) \/ delete(k) \/ get_del(k) \/ persist(k)
             \/ \E t \in Nat : set_ttl(k, t)
    BY <1>1, <1>2, <2>1 DEF set_string, set, delete, get_del, persist, set_ttl, store, DataTyped
  <2>2. CASE \E e \in Strings, create, front \in BOOLEAN : push_inner(k, e, create, front)
    BY <1>1, <1>3, <2>0, <2>2 DEF push_inner, store, DataTyped
  <2>3. CASE \E index \in Int, e \in Strings : lset(k, index, e)
    BY <1>1, <1>3, <2>0, <2>3 DEF lset, store, DataTyped
  <2>4. CASE \E members \in SUBSET Strings : sadd(k, members) \/ srem(k, members)
    BY <1>1, <1>3, <2>0, <2>4 DEF sadd, srem, store, DataTyped
  <2>5. CASE is_set(inner_get(k, now)) /\ \E popped : spop(k, inner_get(k, now)[2], popped)
    BY <1>1, <1>3, <2>0, <2>5 DEF spop, delete, DataTyped
  <2> QED
    BY <1>4, <2>1, <2>2, <2>3, <2>4, <2>5 DEF KeyCall
<1>5. CASE BulkCall
  BY <1>1, <1>2, <1>5 DEF BulkCall, mset, delete_bulk, clear, clear_async
<1>6. CASE MoveCall
  <2>1. PICK source, destination \in Keys, m \in Strings, at \in Readings :
           /\ now' = at[4]
           /\ smove_moves(source, destination, m, at)
           /\ smove(source, destination, m, at)
    BY <1>6 DEF MoveCall
  <2>2. j \in {source, destination}
    BY <1>1, <2>1 DEF smove, DataTyped
  <2>3. is_set(data[j])
    <3>1. at[1] \in Nat /\ at[2] \in Nat /\ at[1] <= now' /\ at[2] <= now'
      BY <2>1, ReadingsTyped
    <3>2. \A t \in Nat : t <= now' => inner_get(j, t) = data[j]
      <4>1. expiry_index[j] \in Nat \cup {None} /\ now' \in Nat
        BY <2>1, ReadingsTyped DEF DataTyped
      <4> QED
        BY <4>1 DEF inner_get
    <3> QED
      BY <1>1, <2>1, <2>2, <3>1, <3>2 DEF smove_moves, smove_types_ok
  <2>4. \E s : data'[destination] = Set(s)
    BY <2>1 DEF smove, DataTyped
  <2>5. source # destination => data'[source] = None \/ \E s : data'[source] = Set(s)
    BY <2>1 DEF smove, DataTyped
  <2> QED
    BY <1>1, <1>3, <2>2, <2>3, <2>4, <2>5
<1>7. CASE PopCall
  BY <1>1, <1>3, <1>7 DEF PopCall, pop_inner, store, DataTyped
<1> QED
  BY <1>1, <1>4, <1>5, <1>6, <1>7 DEF StoreCall, store

(* No interleaving of commands and evictions turns a live value of one     *)
(* type into one of another, except by writing a string: the type checks   *)
(* of push_inner, sadd, smove and the others are made under the lock that  *)
(* the write is made under.                                                *)
THEOREM KindsAreStable == Spec => KindStable
<1> DEFINE A == \A k \in Keys :
                    /\ data[k] # None /\ (expiry_index[k] # None => now' < expiry_index[k])
                    /\ Live(k)'
                    /\ data'[k][1] # data[k][1]
                    => is_str(data'[k])
<1>1. TypeOK /\ [Next]_vars => [A]_vars
  BY TypeParts, StepCallsStore, StoreCallKindStable DEF RestTyped
<1> QED
  BY <1>1, TypeCorrect, PTL DEF Spec, KindStable
=============================================================================
