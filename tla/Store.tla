------------------------------- MODULE Store -------------------------------
(***************************************************************************)
(* The shared in-memory keyspace: store/mod.rs, store/string.rs,           *)
(* store/list.rs and store/set.rs.                                         *)
(*                                                                         *)
(* A Store is an RwLock around two maps, data and expiry_index.  Every     *)
(* method takes the lock once, so a method is one atomic step: a state     *)
(* function for what it returns and, when it writes, an action on          *)
(* data' and expiry_index'.  A key that is absent from a map has the value *)
(* None there, the code's Option::None.                                    *)
(*                                                                         *)
(* Time is the number of clock ticks since the model's epoch; a tick is    *)
(* the resolution of the millisecond commands.  Each method of the code    *)
(* reads the clock and compares it by itself, and so does each operator    *)
(* here: the comparisons are deliberately not shared.                      *)
(***************************************************************************)
EXTENDS Types

VARIABLES
    data,          \* StoreInner.data
    expiry_index,  \* StoreInner.expiry_index: the deadline of a key
    now            \* the clock

store == <<data, expiry_index>>

(***************************************************************************)
(* The enum StoreValue, as tagged pairs.                                   *)
(***************************************************************************)
Str(s) == <<"Str", s>>
List(l) == <<"List", l>>
Set(s) == <<"Set", s>>

StoreValue ==
    ({"Str"} \X Strings) \cup ({"List"} \X Seq(Strings)) \cup ({"Set"} \X SUBSET Strings)

(* None differs from every value it stands for the absence of. *)
ASSUME NoneAssumption == None \notin Int /\ None \notin Strings /\ None \notin StoreValue

is_str(v) == v # None /\ v[1] = "Str"
is_list(v) == v # None /\ v[1] = "List"
is_set(v) == v # None /\ v[1] = "Set"

StoreInit ==
    /\ data = [k \in Keys |-> None]
    /\ expiry_index = [k \in Keys |-> None]

(***************************************************************************)
(* StoreInner::get and StoreInner::get_mut at clock reading t.             *)
(***************************************************************************)
inner_get(k, t) ==
    IF expiry_index[k] # None /\ t >= expiry_index[k] THEN None ELSE data[k]

(***************************************************************************)
(* Methods common to every type of value: store/mod.rs.                    *)
(***************************************************************************)
get(k) ==
    IF expiry_index[k] # None => now < expiry_index[k] THEN data[k] ELSE None

set(k, v) ==
    /\ expiry_index' = [expiry_index EXCEPT ![k] = None]
    /\ data' = [data EXCEPT ![k] = v]

(* Mutant: an expired key does not count as deleted. *)
delete_returns_live(k) == data[k] # None /\ (expiry_index[k] # None => now < expiry_index[k])

(* Also true of a key that expired and is not evicted yet. *)
delete_returns(k) == data[k] # None

delete(k) ==
    /\ expiry_index' = [expiry_index EXCEPT ![k] = None]
    /\ data' = [data EXCEPT ![k] = None]

get_del_returns(k) ==
    IF expiry_index[k] # None => now < expiry_index[k] THEN data[k] ELSE None

(* Mutant: the entry of the index stays. *)
get_del_keeps_ttl(k) ==
    \/ /\ expiry_index[k] # None => now < expiry_index[k]
       /\ data' = [data EXCEPT ![k] = None]
       /\ UNCHANGED expiry_index
    \/ /\ expiry_index[k] # None /\ now >= expiry_index[k]
       /\ UNCHANGED store

get_del(k) ==
    \/ /\ expiry_index[k] # None => now < expiry_index[k]
       /\ expiry_index' = [expiry_index EXCEPT ![k] = None]
       /\ data' = [data EXCEPT ![k] = None]
    \/ /\ expiry_index[k] # None /\ now >= expiry_index[k]
       /\ UNCHANGED store

(* Mutant: a key still exists at its deadline. *)
exists_at_deadline(k) ==
    /\ data[k] # None
    /\ expiry_index[k] # None => now <= expiry_index[k]

exists(k) ==
    /\ data[k] # None
    /\ expiry_index[k] # None => now < expiry_index[k]

get_ttl(k) == expiry_index[k]

(* Whether the entry has expired is not looked at. *)
set_ttl_returns(k) == data[k] # None

set_ttl(k, ttl) ==
    \/ /\ data[k] # None
       /\ expiry_index' = [expiry_index EXCEPT ![k] = ttl]
       /\ UNCHANGED data
    \/ /\ data[k] = None
       /\ UNCHANGED store

persist_returns(k) == expiry_index[k] # None

persist(k) ==
    /\ expiry_index' = [expiry_index EXCEPT ![k] = None]
    /\ UNCHANGED data

(* The outcomes of drawing up to n pairs of the index at random. *)
sample_eviction_index(n) ==
    LET indexed == {k \in Keys : expiry_index[k] # None}
        amount == IF n <= Cardinality(indexed) THEN n ELSE Cardinality(indexed)
    IN  {[k \in Keys |-> IF k \in S THEN expiry_index[k] ELSE None] :
            S \in {T \in SUBSET indexed : Cardinality(T) = amount}}

delete_bulk(ks) ==
    /\ expiry_index' = [k \in Keys |-> IF k \in ks THEN None ELSE expiry_index[k]]
    /\ data' = [k \in Keys |-> IF k \in ks THEN None ELSE data[k]]

(* A pattern stands for the set of keys that pattern::string_match accepts. *)
keys(pattern) ==
    {k \in Keys : /\ data[k] # None
                  /\ k \in pattern
                  /\ expiry_index[k] # None => now < expiry_index[k]}

size == Cardinality({k \in Keys : data[k] # None})

clear ==
    /\ expiry_index' = [k \in Keys |-> None]
    /\ data' = [k \in Keys |-> None]

(* The maps are taken under the lock; a task drops the old ones later. *)
clear_async ==
    /\ data' = [k \in Keys |-> None]
    /\ expiry_index' = [k \in Keys |-> None]

(***************************************************************************)
(* Strings: store/string.rs.                                               *)
(***************************************************************************)
set_string(k, s) == set(k, Str(s))

mget(ks) ==
    [i \in DOMAIN ks |->
        IF is_str(inner_get(ks[i], now)) THEN inner_get(ks[i], now)[2] ELSE None]

(* The pairs are applied in order: the last one for a key wins. *)
last_pair(items, k, i) ==
    items[i][1] = k /\ \A j \in DOMAIN items : j > i => items[j][1] # k

mset(items) ==
    LET named(k) == \E i \in DOMAIN items : last_pair(items, k, i)
        value(k) == items[CHOOSE i \in DOMAIN items : last_pair(items, k, i)][2]
    IN  /\ expiry_index' = [k \in Keys |-> IF named(k) THEN None ELSE expiry_index[k]]
        /\ data' = [k \in Keys |-> IF named(k) THEN Str(value(k)) ELSE data[k]]

(***************************************************************************)
(* Lists: store/list.rs.  An index of the code is zero-based.              *)
(***************************************************************************)
push_fn(l, e, front) == IF front THEN <<e>> \o l ELSE Append(l, e)

(* The length of the list, or None for StoreError::WrongType. *)
push_inner_returns(k, create_if_missing) ==
    LET v == inner_get(k, now)
    IN  CASE v = None -> IF create_if_missing THEN 1 ELSE 0
          [] is_list(v) -> Len(v[2]) + 1
          [] OTHER -> None

(* Mutant: the stale deadline of an expired key is not dropped. *)
push_inner_keeps_ttl(k, e, create_if_missing, front) ==
    LET v == inner_get(k, now)
    IN  \/ /\ v = None /\ create_if_missing
           /\ data' = [data EXCEPT ![k] = List(<<e>>)]
           /\ UNCHANGED expiry_index
        \/ /\ is_list(v)
           /\ data' = [data EXCEPT ![k] = List(push_fn(v[2], e, front))]
           /\ UNCHANGED expiry_index
        \/ /\ IF v = None THEN ~create_if_missing ELSE ~is_list(v)
           /\ UNCHANGED store

push_inner(k, e, create_if_missing, front) ==
    LET v == inner_get(k, now)
    IN  \/ /\ v = None /\ create_if_missing
           /\ expiry_index' = [expiry_index EXCEPT ![k] = None]
           /\ data' = [data EXCEPT ![k] = List(<<e>>)]
        \/ /\ is_list(v)
           /\ data' = [data EXCEPT ![k] = List(push_fn(v[2], e, front))]
           /\ UNCHANGED expiry_index
        \/ /\ IF v = None THEN ~create_if_missing ELSE ~is_list(v)
           /\ UNCHANGED store

(* How many elements a pop takes, and what it leaves. *)
pop_amount(l, count) == IF count <= Len(l) THEN count ELSE Len(l)

pop_rest(l, count, front) ==
    LET n == pop_amount(l, count)
    IN  IF front THEN SubSeq(l, n + 1, Len(l)) ELSE SubSeq(l, 1, Len(l) - n)

(* The popped elements, in the order in which they left the list. *)
pop_taken(l, count, front) ==
    LET n == pop_amount(l, count)
    IN  [i \in 1..n |-> IF front THEN l[i] ELSE l[Len(l) + 1 - i]]

(* Mutant: the list is left in the store when its last element goes. *)
pop_inner_keeps_empty(k, count, front) ==
    LET v == inner_get(k, now)
    IN  \/ /\ is_list(v)
           /\ data' = [data EXCEPT ![k] = List(pop_rest(v[2], count, front))]
           /\ UNCHANGED expiry_index
        \/ /\ ~is_list(v)
           /\ UNCHANGED store

(* A list that becomes empty is removed; its entry in the index stays. *)
pop_inner(k, count, front) ==
    LET v == inner_get(k, now)
    IN  \/ /\ is_list(v)
           /\ LET rest == pop_rest(v[2], count, front)
              IN  data' = [data EXCEPT ![k] = IF rest = <<>> THEN None ELSE List(rest)]
           /\ UNCHANGED expiry_index
        \/ /\ ~is_list(v)
           /\ UNCHANGED store

(* The zero-based position an index denotes, or None for OutOfIndex. *)
calculate_index(index, list_len) ==
    IF index < 0
    THEN IF -index > list_len THEN None ELSE list_len + index
    ELSE index

(* Whether the index denotes an element: the guards of lset. *)
lset_in_range(l, index) ==
    LET i == calculate_index(index, Len(l)) IN i # None /\ i < Len(l)

(* push_back and swap_remove_back: the new element ends up at the index. *)
lset(k, index, e) ==
    LET v == inner_get(k, now)
    IN  \/ /\ is_list(v) /\ lset_in_range(v[2], index)
           /\ data' = [data EXCEPT ![k] =
                         List([v[2] EXCEPT ![calculate_index(index, Len(v[2])) + 1] = e])]
           /\ UNCHANGED expiry_index
        \/ /\ IF is_list(v) THEN ~lset_in_range(v[2], index) ELSE TRUE
           /\ UNCHANGED store

lindex_of(l, index) == IF lset_in_range(l, index) THEN l[calculate_index(index, Len(l)) + 1] ELSE None

(* What LLEN, LINDEX and LRANGE read: a missing key is an empty list. *)
elements_of(v) == IF is_list(v) THEN v[2] ELSE <<>>
llen(l) == Len(l)

(* Mutant: the bound stop is taken to be exclusive. *)
lrange_exclusive(l, start, stop) ==
    LET len == Len(l)
        from == IF start < 0 THEN (IF start + len < 0 THEN 0 ELSE start + len) ELSE start
        to == IF stop < 0 THEN stop + len ELSE stop
        end == IF to < len THEN to ELSE len
    IN  IF len = 0 \/ from > to \/ from >= len THEN <<>> ELSE SubSeq(l, from + 1, end)

lrange_of(l, start, stop) ==
    LET len == Len(l)
        from == IF start < 0 THEN (IF start + len < 0 THEN 0 ELSE start + len) ELSE start
        to == IF stop < 0 THEN stop + len ELSE stop
        last == IF to < len - 1 THEN to ELSE len - 1
    IN  IF len = 0 \/ from > to \/ from >= len THEN <<>> ELSE SubSeq(l, from + 1, last + 1)

(***************************************************************************)
(* Sets: store/set.rs.                                                     *)
(***************************************************************************)
(* Mutant: a value of another type counts as absent. *)
sadd_replaces(k, members) ==
    LET v == inner_get(k, now)
    IN  \/ /\ ~is_set(v)
           /\ expiry_index' = [expiry_index EXCEPT ![k] = None]
           /\ data' = [data EXCEPT ![k] = Set(members)]
        \/ /\ is_set(v)
           /\ data' = [data EXCEPT ![k] = Set(v[2] \cup members)]
           /\ UNCHANGED expiry_index

(* Mutant: data is read without a look at the deadline. *)
sadd_ignores_ttl(k, members) ==
    LET v == data[k]
    IN  \/ /\ v = None
           /\ expiry_index' = [expiry_index EXCEPT ![k] = None]
           /\ data' = [data EXCEPT ![k] = Set(members)]
        \/ /\ is_set(v)
           /\ data' = [data EXCEPT ![k] = Set(v[2] \cup members)]
           /\ UNCHANGED expiry_index
        \/ /\ v # None /\ ~is_set(v)
           /\ UNCHANGED store

sadd(k, members) ==
    LET v == inner_get(k, now)
    IN  \/ /\ v = None
           /\ expiry_index' = [expiry_index EXCEPT ![k] = None]
           /\ data' = [data EXCEPT ![k] = Set(members)]
        \/ /\ is_set(v)
           /\ data' = [data EXCEPT ![k] = Set(v[2] \cup members)]
           /\ UNCHANGED expiry_index
        \/ /\ v # None /\ ~is_set(v)
           /\ UNCHANGED store

(* What the commands that read a set find: a missing key is an empty set. *)
smembers(v) == IF is_set(v) THEN v[2] ELSE {}
sismember(s, m) == m \in s
smismember(s, ms) == [i \in DOMAIN ms |-> sismember(s, ms[i])]
scard(s) == Cardinality(s)

(* The outcomes of drawing up to n distinct members at random. *)
sample(s, n) ==
    {T \in SUBSET s : Cardinality(T) = IF n <= Cardinality(s) THEN n ELSE Cardinality(s)}

(* One outcome of spop on a key that holds the set s. *)
spop(k, s, popped) ==
    IF s \ popped = {}
    THEN delete(k)
    ELSE data' = [data EXCEPT ![k] = Set(s \ popped)] /\ UNCHANGED expiry_index

(* A set that becomes empty stays in the store. *)
srem(k, members) ==
    LET v == inner_get(k, now)
    IN  \/ /\ is_set(v)
           /\ data' = [data EXCEPT ![k] = Set(v[2] \ members)]
           /\ UNCHANGED expiry_index
        \/ /\ ~is_set(v)
           /\ UNCHANGED store

(***************************************************************************)
(* smove looks its two keys up to check them, and again to write, all      *)
(* under one write lock, and reads the clock at each lookup: at[1] for the *)
(* source, at[2] for the destination, at[3] and at[4] the second time.  A  *)
(* source that expires in between hits the unreachable! arm: a panic with  *)
(* the lock held.                                                          *)
(***************************************************************************)
smove_types_ok(source, destination, at) ==
    /\ is_set(inner_get(source, at[1]))
    /\ inner_get(destination, at[2]) # None => is_set(inner_get(destination, at[2]))

smove_moves(source, destination, m, at) ==
    smove_types_ok(source, destination, at) /\ m \in inner_get(source, at[1])[2]

smove_panics(source, destination, m, at) ==
    smove_moves(source, destination, m, at) /\ inner_get(source, at[3]) = None

(* Mutant: the member is inserted at the destination before it is removed. *)
smove_inserts_first(source, destination, m, at) ==
    LET absent == inner_get(destination, at[4]) = None
        data1 == [data EXCEPT ![destination] = Set(IF absent THEN {m} ELSE @[2] \cup {m})]
        left == data1[source][2] \ {m}
        emptied == left = {}
    IN  /\ data' = [data1 EXCEPT ![source] = IF emptied THEN None ELSE Set(left)]
        /\ expiry_index' = [k \in Keys |-> IF \/ k = destination /\ absent
                                              \/ k = source /\ emptied
                                           THEN None ELSE expiry_index[k]]

smove(source, destination, m, at) ==
    LET left == inner_get(source, at[3])[2] \ {m}
        emptied == left = {}
        data1 == [data EXCEPT ![source] = IF emptied THEN None ELSE Set(left)]
        index1 == [expiry_index EXCEPT ![source] = IF emptied THEN None ELSE @]
        absent == \/ data1[destination] = None
                  \/ index1[destination] # None /\ at[4] >= index1[destination]
    IN  /\ data' = [data1 EXCEPT ![destination] =
                      Set(IF absent THEN {m} ELSE data1[destination][2] \cup {m})]
        /\ expiry_index' = [index1 EXCEPT ![destination] = IF absent THEN None ELSE @]

StoreTypeOK ==
    /\ data \in [Keys -> StoreValue \cup {None}]
    /\ expiry_index \in [Keys -> Nat \cup {None}]
    /\ now \in Nat
=============================================================================
