------------------------- MODULE ExecutorStepProofs -------------------------
(***************************************************************************)
(* Machine-checked proofs about the steps of a connection: what the        *)
(* commands that read answer (the lookups and their comparisons with the   *)
(* clock, the arithmetic of deadlines in seconds and the bounds of a       *)
(* list), what a command has done to the store when it replies, and what   *)
(* its reply then says.                                                    *)
(***************************************************************************)
EXTENDS ExecutorProofs, FiniteSetTheorems

-----------------------------------------------------------------------------
(* The lookups. *)

(* Every lookup of a key, at the clock reading of the step, gives the same. *)
LEMMA LookupsAgree ==
  ASSUME DataTyped, now \in Nat, NEW k \in Keys
  PROVE  LET v == IF Live(k) THEN data[k] ELSE None
         IN  /\ get(k) = v /\ inner_get(k, now) = v /\ get_del_returns(k) = v
             /\ exists(k) <=> v # None
             /\ k \in keys(Keys) <=> v # None
             /\ mget(<<k>>)[1] = IF is_str(v) THEN v[2] ELSE None
<1> DEFINE v == IF Live(k) THEN data[k] ELSE None
<1>1. expiry_index[k] \in Nat \cup {None}
  BY DEF DataTyped
<1>2. inner_get(k, now) = v
  BY <1>1, NoneAssumption DEF inner_get, Live
<1>3. get(k) = v /\ get_del_returns(k) = v
  BY DEF get, get_del_returns, Live
<1>4. exists(k) <=> v # None
  BY DEF exists, Live
<1>5. k \in keys(Keys) <=> v # None
  BY DEF keys, Live
<1>6. mget(<<k>>)[1] = IF is_str(v) THEN v[2] ELSE None
  BY <1>2 DEF mget
<1> QED
  BY <1>2, <1>3, <1>4, <1>5, <1>6

(* The six comparisons the code makes with the clock agree at every        *)
(* reading, the deadline included, in every reachable state.               *)
THEOREM ReadsAgree == Spec => []ReadPathsAgree
<1>1. TypeOK => ReadPathsAgree
  BY TypeParts, LookupsAgree DEF ReadPathsAgree, RestTyped
<1> QED
  BY <1>1, TypeCorrect, PTL

-----------------------------------------------------------------------------
(* Seconds and milliseconds. *)

(* Division by the number of ticks in a unit of time. *)
LEMMA UnitsOf ==
  ASSUME NEW u \in Nat \ {0}, NEW t \in Nat
  PROVE  /\ t \div u \in Nat
         /\ u * (t \div u) <= t /\ t < u * (t \div u) + u
  OBVIOUS

(* A number of units is determined by the ticks it covers. *)
LEMMA UnitsBound ==
  ASSUME NEW u \in Nat \ {0}, NEW p \in Int, NEW q \in Int, u * p < u * q
  PROVE  p < q
  OBVIOUS

(* Cut to units, a clock reading and the time that is left after it add up *)
(* to the deadline in units, or to one less.                               *)
LEMMA UnitsOfSum ==
  ASSUME NEW u \in Nat \ {0}, NEW t \in Nat, NEW e \in Nat, t <= e
  PROVE  t \div u + (e - t) \div u \in {e \div u - 1, e \div u}
<1> DEFINE p == t \div u
           q == (e - t) \div u
           r == e \div u
<1>0. e - t \in Nat
  OBVIOUS
<1>1. /\ p \in Nat /\ q \in Nat /\ r \in Nat
      /\ u * p <= t /\ t < u * p + u
      /\ u * q <= e - t /\ e - t < u * q + u
      /\ u * r <= e /\ e < u * r + u
  BY <1>0, UnitsOf
<1> HIDE DEF p, q, r
<1>2. u * (p + q) = u * p + u * q /\ u * (r + 1) = u * r + u
      /\ u * (p + q + 2) = u * p + u * q + u + u
  BY <1>1
<1>3. u * (p + q) < u * (r + 1) /\ u * r < u * (p + q + 2)
  BY <1>0, <1>1, <1>2
<1>4. p + q < r + 1 /\ r < p + q + 2
  BY <1>1, <1>3, UnitsBound
<1>5. p + q \in {r - 1, r}
  BY <1>1, <1>4
<1> QED
  BY <1>5 DEF p, q, r

(* EXPIRETIME and PEXPIRETIME answer the second or the millisecond of the  *)
(* deadline or the one before it, for every deadline, clock reading and    *)
(* resolution.                                                             *)
THEOREM ExpireTimesAreFaithful == Spec => []ExpireTimeFaithful
<1>1. TypeOK => ExpireTimeFaithful
  <2> SUFFICES ASSUME TypeOK, NEW k \in Keys, expiry_index[k] # None, now <= expiry_index[k]
               PROVE  LET e == expiry_index[k]
                      IN  /\ ttl_of("ExpireTime", e - now) \in {e \div Sec - 1, e \div Sec}
                          /\ ttl_of("PExpireTime", e - now) \in {e \div Ms - 1, e \div Ms}
    BY DEF ExpireTimeFaithful
  <2>1. now \in Nat /\ expiry_index[k] \in Nat
    BY TypeParts DEF DataTyped, RestTyped
  <2>2. ttl_of("ExpireTime", expiry_index[k] - now)
           = now \div Sec + (expiry_index[k] - now) \div Sec
    BY DEF ttl_of, unix_secs
  <2>3. ttl_of("PExpireTime", expiry_index[k] - now)
           = now \div Ms + (expiry_index[k] - now) \div Ms
    BY DEF ttl_of, unix_ms
  <2>4. Sec \in Nat \ {0} /\ Ms \in Nat \ {0}
    BY ConstantsAssumption
  <2>5. ttl_of("ExpireTime", expiry_index[k] - now)
           \in {expiry_index[k] \div Sec - 1, expiry_index[k] \div Sec}
    BY <2>1, <2>2, <2>4, UnitsOfSum
  <2>6. ttl_of("PExpireTime", expiry_index[k] - now)
           \in {expiry_index[k] \div Ms - 1, expiry_index[k] \div Ms}
    BY <2>1, <2>3, <2>4, UnitsOfSum
  <2> QED
    BY <2>5, <2>6
<1> QED
  BY <1>1, TypeCorrect, PTL

-----------------------------------------------------------------------------
(* The bounds of a list. *)

(* The number of elements between two positions and the first of them. *)
LEMMA IntervalFacts ==
  ASSUME NEW lo \in Int, NEW hi \in Int, lo <= hi
  PROVE  /\ Cardinality(lo..hi) = hi - lo + 1
         /\ (CHOOSE p \in lo..hi : \A q \in lo..hi : p <= q) = lo
<1>1. Cardinality(lo..hi) = hi - lo + 1
  BY FS_Interval
<1>2. \A p \in lo..hi : (\A q \in lo..hi : p <= q) <=> p = lo
  OBVIOUS
<1>3. lo \in lo..hi
  OBVIOUS
<1> QED
  BY <1>1, <1>2, <1>3

(* The bounds of a slice of a list of n elements, cut to the list. *)
Resolved(n, p) == IF p < 0 THEN p + n ELSE p
Low(n, start) == IF Resolved(n, start) < 0 THEN 0 ELSE Resolved(n, start)
High(n, stop) == IF Resolved(n, stop) < n - 1 THEN Resolved(n, stop) ELSE n - 1

(* The positions between two bounds are those between the bounds cut. *)
LEMMA CutBounds ==
  ASSUME NEW n \in Nat, NEW start \in Int, NEW stop \in Int
  PROVE  /\ Low(n, start) \in Nat /\ High(n, stop) \in Int /\ High(n, stop) < n
         /\ {p \in 0..(n - 1) : Resolved(n, start) <= p /\ p <= Resolved(n, stop)}
               = Low(n, start)..High(n, stop)
<1>1. Resolved(n, start) \in Int /\ Resolved(n, stop) \in Int
  BY DEF Resolved
<1> QED
  BY <1>1 DEF Low, High

(* The part of a list between two positions of it. *)
LEMMA PartOfList ==
  ASSUME NEW l \in Seq(Strings), NEW lo \in Nat, NEW hi \in Int, lo <= hi, hi < Len(l)
  PROVE  /\ SubSeq(l, lo + 1, hi + 1) = [i \in 1..(hi - lo + 1) |-> l[lo + i]]
         /\ SubSeq(l, lo + 1, hi + 1) # <<>> /\ SubSeq(l, lo + 1, hi + 1)[1] = l[lo + 1]
<1> DEFINE part == SubSeq(l, lo + 1, hi + 1)
           m == hi - lo + 1
<1>1. Len(l) \in Nat /\ l \in [1..Len(l) -> Strings]
  BY LenProperties
<1>2. \A i \in (lo + 1)..(hi + 1) : l[i] \in Strings
  <2> SUFFICES ASSUME NEW i \in (lo + 1)..(hi + 1) PROVE i \in 1..Len(l)
    BY <1>1
  <2> QED
    BY <1>1
<1>3. /\ lo + 1 \in Int /\ hi + 1 \in Int /\ lo + 1 <= hi + 1
      /\ (hi + 1) - (lo + 1) + 1 = m /\ m \in Nat /\ 1 \in 1..m
      /\ \A i \in 1..m : (lo + 1) + i - 1 = lo + i
  OBVIOUS
<1>4. part \in Seq(Strings) /\ Len(part) = m /\ \A i \in 1..m : part[i] = l[lo + i]
  <2>1. /\ part \in Seq(Strings)
        /\ Len(part) = IF lo + 1 <= hi + 1 THEN (hi + 1) - (lo + 1) + 1 ELSE 0
        /\ \A i \in 1..((hi + 1) - (lo + 1) + 1) : part[i] = l[(lo + 1) + i - 1]
    BY <1>2, <1>3, SubSeqProperties
  <2> HIDE DEF part, m
  <2> QED
    BY <1>3, <2>1
<1> HIDE DEF part, m
<1>5. part \in [1..m -> Strings]
  BY <1>4, LenProperties
<1>6. part = [i \in 1..m |-> l[lo + i]]
  BY <1>4, <1>5
<1>7. part # <<>> /\ part[1] = l[lo + 1]
  BY <1>3, <1>4
<1> QED
  BY <1>6, <1>7 DEF part, m

(* The slice is the part of the list between its bounds cut to the list. *)
LEMMA SliceIsSubSeq ==
  ASSUME NEW l \in Seq(Strings), NEW start \in Int, NEW stop \in Int
  PROVE  Slice(l, start, stop) = IF Low(Len(l), start) <= High(Len(l), stop)
                                 THEN SubSeq(l, Low(Len(l), start) + 1, High(Len(l), stop) + 1)
                                 ELSE <<>>
<1> DEFINE n == Len(l)
           lo == Low(n, start)
           hi == High(n, stop)
           within == {p \in 0..(n - 1) : Resolved(n, start) <= p /\ p <= Resolved(n, stop)}
           first == CHOOSE p \in within : \A q \in within : p <= q
<1>1. n \in Nat
  BY LenProperties
<1>2. lo \in Nat /\ hi \in Int /\ hi < n /\ within = lo..hi
  BY <1>1, CutBounds
<1>3. Slice(l, start, stop) = [i \in 1..Cardinality(within) |-> l[first + i]]
  BY DEF Slice, Resolved
<1> HIDE DEF n, lo, hi, within
<1>4. CASE lo <= hi
  <2>1. Cardinality(within) = hi - lo + 1 /\ first = lo
    BY <1>2, <1>4, IntervalFacts
  <2> HIDE DEF first
  <2>2. Slice(l, start, stop) = [i \in 1..(hi - lo + 1) |-> l[lo + i]]
    BY <1>3, <2>1
  <2>3. SubSeq(l, lo + 1, hi + 1) = [i \in 1..(hi - lo + 1) |-> l[lo + i]]
    BY <1>2, <1>4, PartOfList DEF n
  <2> QED
    BY <1>4, <2>2, <2>3 DEF n, lo, hi
<1>5. CASE ~(lo <= hi)
  <2>1. within = {}
    BY <1>2, <1>5
  <2>2. Cardinality(within) = 0
    BY <2>1, FS_EmptySet
  <2> HIDE DEF first
  <2>3. Slice(l, start, stop) = [i \in 1..0 |-> l[first + i]]
    BY <1>3, <2>2
  <2>4. Slice(l, start, stop) = <<>>
    BY <2>3
  <2> QED
    BY <1>5, <2>4 DEF n, lo, hi
<1> QED
  BY <1>4, <1>5

(* LRANGE of any list and any two bounds is the slice they denote. *)
LEMMA LRangeIsSlice ==
  ASSUME NEW l \in Seq(Strings), NEW start \in Int, NEW stop \in Int
  PROVE  lrange_of(l, start, stop) = Slice(l, start, stop)
<1> DEFINE n == Len(l)
           from == IF start < 0 THEN (IF start + n < 0 THEN 0 ELSE start + n) ELSE start
           to == IF stop < 0 THEN stop + n ELSE stop
           last == IF to < n - 1 THEN to ELSE n - 1
<1>1. n \in Nat
  BY LenProperties
<1>2. lrange_of(l, start, stop)
         = IF n = 0 \/ from > to \/ from >= n THEN <<>> ELSE SubSeq(l, from + 1, last + 1)
  BY DEF lrange_of
<1>3. Slice(l, start, stop) = IF Low(n, start) <= High(n, stop)
                              THEN SubSeq(l, Low(n, start) + 1, High(n, stop) + 1) ELSE <<>>
  BY SliceIsSubSeq
<1> HIDE DEF n
<1>4. from = Low(n, start) /\ last = High(n, stop)
  BY <1>1 DEF Low, High, Resolved
<1>5. from <= last <=> ~(n = 0 \/ from > to \/ from >= n)
  BY <1>1
<1> HIDE DEF from, to, last
<1> QED
  BY <1>2, <1>3, <1>4, <1>5

(* LINDEX of any list and any index is the element of a slice of one. *)
LEMMA LIndexIsSlice ==
  ASSUME NEW l \in Seq(Strings), NEW p \in Int
  PROVE  lindex_of(l, p) = IF Slice(l, p, p) = <<>> THEN None ELSE Slice(l, p, p)[1]
<1> DEFINE n == Len(l)
           i == Resolved(n, p)
<1>1. n \in Nat
  BY LenProperties
<1>2. Slice(l, p, p) = IF Low(n, p) <= High(n, p)
                       THEN SubSeq(l, Low(n, p) + 1, High(n, p) + 1) ELSE <<>>
  BY SliceIsSubSeq
<1>3. /\ lset_in_range(l, p) <=> calculate_index(p, n) # None /\ calculate_index(p, n) < n
      /\ lindex_of(l, p) = IF lset_in_range(l, p) THEN l[calculate_index(p, n) + 1] ELSE None
  BY DEF lset_in_range, lindex_of
<1>4. CASE 0 <= i /\ i < n
  <2>1. i \in Nat /\ Low(n, p) = i /\ High(n, p) = i
    BY <1>1, <1>4 DEF Low, High, Resolved
  <2>2. SubSeq(l, i + 1, i + 1) # <<>> /\ SubSeq(l, i + 1, i + 1)[1] = l[i + 1]
    BY <1>4, <2>1, PartOfList
  <2>3. calculate_index(p, n) = i /\ i # None
    BY <1>1, <1>4, NoneAssumption DEF calculate_index, Resolved
  <2> HIDE DEF n, i
  <2> QED
    BY <1>2, <1>3, <1>4, <2>1, <2>2, <2>3
<1>5. CASE ~(0 <= i /\ i < n)
  <2>1. ~(Low(n, p) <= High(n, p))
    BY <1>1, <1>5 DEF Low, High, Resolved
  <2>2. calculate_index(p, n) = None \/ ~(calculate_index(p, n) < n)
    BY <1>1, <1>5 DEF calculate_index, Resolved
  <2> QED
    BY <1>2, <1>3, <2>1, <2>2
<1> QED
  BY <1>4, <1>5

(* LRANGE and LINDEX answer with the slice their bounds denote, on every   *)
(* list a key can hold.                                                    *)
THEOREM ListWindows == Spec => []ListWindow
<1>1. TypeOK => ListWindow
  <2> SUFFICES ASSUME TypeOK, NEW k \in Keys, is_list(data[k])
               PROVE  LET l == data[k][2]
                          bounds == (-(Len(l) + 1))..(Len(l) + 1)
                      IN  \A p \in bounds :
                             /\ \A q \in bounds : lrange_of(l, p, q) = Slice(l, p, q)
                             /\ lindex_of(l, p) = IF Slice(l, p, p) = <<>> THEN None
                                                                         ELSE Slice(l, p, p)[1]
    BY DEF ListWindow
  <2> DEFINE l == data[k][2]
  <2>1. l \in Seq(Strings)
    BY TypeParts, ValueParts DEF DataTyped
  <2>2. (-(Len(l) + 1))..(Len(l) + 1) \subseteq Int
    BY <2>1, LenProperties
  <2> HIDE DEF l
  <2>3. \A p \in (-(Len(l) + 1))..(Len(l) + 1) :
           /\ \A q \in (-(Len(l) + 1))..(Len(l) + 1) : lrange_of(l, p, q) = Slice(l, p, q)
           /\ lindex_of(l, p) = IF Slice(l, p, p) = <<>> THEN None ELSE Slice(l, p, p)[1]
    BY <2>1, <2>2, LRangeIsSlice, LIndexIsSlice
  <2> QED
    BY <2>3 DEF l
<1> QED
  BY <1>1, TypeCorrect, PTL

-----------------------------------------------------------------------------
(* The connection of a step. *)

(* A step of c ends its command with a reply or a panic, or goes on. *)
Acts(c) ==
    \/ \E cmd \in Command : \E r : Reply(c, cmd, r)
    \/ \E cmd : Panic(c, cmd)
    \/ \E r : r.pc # "done" /\ Continue(c, r)

(* Every call of a command does, and the command it replies to is one the  *)
(* connection has sent.                                                    *)
LEMMA ExecuteActs ==
  ASSUME TypeOK, NEW c \in Clients, Execute(c)
  PROVE  Acts(c)
<1>1. conn[c] \in Locals /\ InFlightOK(conn[c])
  BY TypeParts DEF ConnTyped
<1>2. CASE Start(c)
  <2>1. PICK cmd \in Commands, pc \in {"set_read", "delete", "exists", "ttl_get", "push"} :
           Enter(c, cmd, pc)
    BY <1>2 DEF Start
  <2>2. [Idle EXCEPT !.pc = pc, !.cmd = cmd].pc # "done"
    BY <2>1 DEF Idle
  <2> QED
    BY <2>1, <2>2 DEF Enter, Acts
<1>3. CASE SetRead(c) \/ SetKeepTtl(c) \/ SetWrite(c) \/ SetExpire(c)
  <2>1. conn[c].cmd \in Command
    BY <1>1, <1>3, LongIsCommand DEF SetRead, SetKeepTtl, SetWrite, SetExpire, Running, InFlightOK
  <2>2. \A p, q, s : /\ [conn[c] EXCEPT !.prev = p, !.pc = "set_keepttl"].pc # "done"
                     /\ [conn[c] EXCEPT !.prev = p, !.pc = "set_write"].pc # "done"
                     /\ [conn[c] EXCEPT !.prev_ttl = q, !.pc = "set_write"].pc # "done"
                     /\ [conn[c] EXCEPT !.pc = "set_expire"].pc # "done"
    BY <1>1 DEF Locals
  <2>3. CASE SetRead(c)
    BY <2>1, <2>2, <2>3 DEF SetRead, Acts
  <2>4. CASE SetKeepTtl(c)
    BY <2>2, <2>4 DEF SetKeepTtl, Acts
  <2>5. CASE SetWrite(c)
    BY <2>1, <2>2, <2>5 DEF SetWrite, Acts
  <2>6. CASE SetExpire(c)
    BY <2>1, <2>6 DEF SetExpire, Acts
  <2> QED
    BY <1>3, <2>3, <2>4, <2>5, <2>6
<1>4. CASE Delete(c) \/ Exists(c) \/ Push(c)
  <2>1. conn[c].cmd \in Command /\ conn[c].pc \in {"delete", "exists", "push"}
    BY <1>1, <1>4, LongIsCommand DEF Delete, Exists, Push, Running, InFlightOK
  <2>2. \A j, n : [conn[c] EXCEPT !.i = j, !.n = n].pc # "done"
    BY <1>1, <2>1 DEF Locals
  <2>3. \A arguments, n : Advance(c, arguments, n) => Acts(c)
    BY <2>1, <2>2 DEF Advance, Acts
  <2> QED
    BY <1>4, <2>1, <2>3 DEF Delete, Exists, Push, Acts
<1>5. CASE TtlGet(c) \/ TtlExists(c)
  <2>1. conn[c].cmd \in Command
    BY <1>1, <1>5, LongIsCommand DEF TtlGet, TtlExists, Running, InFlightOK
  <2>2. [conn[c] EXCEPT !.pc = "ttl_exists"].pc # "done"
    BY <1>1 DEF Locals
  <2> QED
    BY <1>5, <2>1, <2>2 DEF TtlGet, TtlExists, Acts
<1>6. CASE GetDel(c) \/ MSet(c) \/ Pop(c) \/ LSet(c) \/ SAdd(c) \/ SRem(c) \/ SMove(c) \/ SPop(c)
  BY <1>6, CommandsAssumption DEF GetDel, MSet, Pop, LSet, SAdd, SRem, SMove, SPop, Acts
<1>7. CASE Persist(c) \/ Expire(c) \/ ExpireAt(c) \/ FlushDb(c) \/ Read(c) \/ Stateless(c)
  BY <1>7, CommandsAssumption DEF Persist, Expire, ExpireAt, FlushDb, Read, Stateless, Acts
<1> QED
  BY <1>2, <1>3, <1>4, <1>5, <1>6, <1>7 DEF Execute

(* What a connection's step does to the connections. *)
LEMMA ActsAlone ==
  ASSUME TypeOK, NEW c \in Clients, Acts(c)
  PROVE  /\ \A d \in Clients \ {c} :
               conn'[d] = conn[d] /\ reply'[d] = reply[d] /\ touched'[d] = touched[d]
         /\ conn'[c].pc = "done" => conn'[c].cmd \in Command
         /\ touched'[c] = (touched[c] \/ contents' # contents)
<1>1. conn \in [Clients -> Locals] /\ DOMAIN reply = Clients /\ touched \in [Clients -> BOOLEAN]
  BY TypeParts DEF ConnTyped
<1>2. Record(c)
  BY DEF Acts, Reply, Panic, Continue
<1>3. touched'[c] = (touched[c] \/ contents' # contents)
  BY <1>1, <1>2, Zenon DEF Record
<1>4. \A d \in Clients \ {c} : touched'[d] = touched[d]
  BY <1>1, <1>2 DEF Record
<1>5. /\ \A d \in Clients \ {c} : conn'[d] = conn[d] /\ reply'[d] = reply[d]
      /\ conn'[c].pc = "done" => conn'[c].cmd \in Command
  <2>1. CASE \E cmd \in Command : \E r : Reply(c, cmd, r)
    BY <1>1, <2>1 DEF Reply, Idle
  <2>2. CASE \E cmd : Panic(c, cmd)
    BY <1>1, <2>2 DEF Panic, Idle
  <2>3. CASE \E r : r.pc # "done" /\ Continue(c, r)
    BY <1>1, <2>3 DEF Continue
  <2> QED
    BY <2>1, <2>2, <2>3 DEF Acts
<1> QED
  BY <1>3, <1>4, <1>5

-----------------------------------------------------------------------------
(***************************************************************************)
(* The log and the store.  What keeps a write out of the AOF is decided    *)
(* from the reply, at the end of the command; what the command has done to *)
(* the store is the sum of its calls.                                      *)
(***************************************************************************)
(* The exceptions of UnloggedWrite, but for the poisoned lock. *)
Excused(cmd, r) ==
    \/ cmd \in LSetCommand
    \/ cmd \in GetDelCommand /\ r = WRONGTYPE
    \/ cmd \in ExpireAtCommand /\ r = Integer(0)
    \/ cmd \in SetCommand /\ cmd.expiry # None /\ r \in {InvalidExpire, None}
    \/ cmd \in PushCommand /\ Len(cmd.elements) > 1

(* What is known of the store while a command is under way: until the last *)
(* call of a SET or a push, or the first key that DEL found, its calls     *)
(* have changed nothing.                                                   *)
CallsSoFar(c) ==
    LET r == conn[c]
    IN  /\ r.pc \in {"idle", "set_read", "set_keepttl", "set_write", "exists", "ttl_get", "ttl_exists"}
              => ~touched[c]
        /\ r.pc = "delete" /\ touched[c] => r.n >= 1
        /\ r.pc = "push" /\ touched[c] => Len(r.cmd.elements) > 1

(* The inductive invariant: the calls so far, and at the end of a command  *)
(* the property itself.                                                    *)
Recorded(c) ==
    /\ CallsSoFar(c)
    /\ Unlogged(c) /\ touched[c] => UnloggedWrite(c)

(* A call that leaves the store alone leaves its contents alone. *)
LEMMA ContentsUnchanged == UNCHANGED store => contents' = contents
  BY DEF store, contents

(* A reply that is logged, or excused, or of a command that did nothing.   *)
LEMMA ReplyRecorded ==
  ASSUME TypeOK, NEW c \in Clients, NEW cmd, NEW r, Reply(c, cmd, r),
         \/ appended(cmd, r)
         \/ Excused(cmd, r)
         \/ ~touched[c] /\ contents' = contents
  PROVE  Recorded(c)'
<1>1. conn \in [Clients -> Locals] /\ DOMAIN reply = Clients /\ touched \in [Clients -> BOOLEAN]
  BY TypeParts DEF ConnTyped
<1>2. conn'[c].pc = "done" /\ conn'[c].cmd = cmd /\ reply'[c] = r
  BY <1>1 DEF Reply, Idle
<1>3. touched'[c] = (touched[c] \/ contents' # contents)
  BY <1>1, Zenon DEF Reply, Record
<1>4. CallsSoFar(c)'
  BY <1>2 DEF CallsSoFar
<1>5. ~touched[c] /\ contents' = contents => ~touched'[c]
  BY <1>3
<1>6. Unlogged(c)' => ~appended(cmd, r)
  BY <1>2 DEF Unlogged, appended, is_write
<1>7. Excused(cmd, r) => UnloggedWrite(c)'
  BY <1>2 DEF Excused, UnloggedWrite, WRONGTYPE, InvalidExpire
<1> QED
  BY <1>4, <1>5, <1>6, <1>7 DEF Recorded

(* A panic of a command that did nothing, or of a SET, or with the lock    *)
(* poisoned.                                                               *)
LEMMA PanicRecorded ==
  ASSUME TypeOK, NEW c \in Clients, NEW cmd, conn[c].pc # "done", Panic(c, cmd),
         \/ poisoned'
         \/ cmd \in SetCommand /\ cmd.expiry # None
         \/ ~touched[c] /\ contents' = contents
  PROVE  Recorded(c)'
<1>1. /\ conn \in [Clients -> Locals] /\ touched \in [Clients -> BOOLEAN]
      /\ reply[c] = None
  BY TypeParts DEF ConnTyped
<1>2. conn'[c].pc = "dead" /\ conn'[c].cmd = cmd /\ reply'[c] = None
  BY <1>1 DEF Panic, Idle
<1>3. touched'[c] = (touched[c] \/ contents' # contents)
  BY <1>1, Zenon DEF Panic, Record
<1>4. CallsSoFar(c)'
  BY <1>2 DEF CallsSoFar
<1>5. ~touched[c] /\ contents' = contents => ~touched'[c]
  BY <1>3
<1>6. (cmd \in SetCommand /\ cmd.expiry # None) \/ poisoned' => UnloggedWrite(c)'
  BY <1>2 DEF UnloggedWrite
<1> QED
  BY <1>4, <1>5, <1>6 DEF Recorded

(* A command that goes on. *)
LEMMA ContinueRecorded ==
  ASSUME TypeOK, NEW c \in Clients, NEW r, r.pc \notin {"done", "dead"}, Continue(c, r),
         \/ ~touched[c] /\ contents' = contents
         \/ r.pc = "set_expire"
         \/ r.pc = "delete" /\ ((touched[c] \/ contents' # contents) => r.n >= 1)
         \/ r.pc = "push" /\ Len(r.cmd.elements) > 1
  PROVE  Recorded(c)'
<1>1. conn \in [Clients -> Locals] /\ touched \in [Clients -> BOOLEAN]
  BY TypeParts DEF ConnTyped
<1>2. conn'[c] = r
  BY <1>1 DEF Continue
<1>3. touched'[c] = (touched[c] \/ contents' # contents)
  BY <1>1, Zenon DEF Continue, Record
<1>4. ~Unlogged(c)'
  BY <1>2 DEF Unlogged
<1>5. CallsSoFar(c)'
  BY <1>2, <1>3 DEF CallsSoFar
<1> QED
  BY <1>4, <1>5 DEF Recorded

(* A connection another one's step leaves alone. *)
LEMMA OthersRecorded ==
  ASSUME NEW c \in Clients, Recorded(c), poisoned => poisoned',
         conn'[c] = conn[c], reply'[c] = reply[c], touched'[c] = touched[c]
  PROVE  Recorded(c)'
<1>1. CallsSoFar(c)'
  BY DEF Recorded, CallsSoFar
<1>2. Unlogged(c)' => Unlogged(c)
  BY DEF Unlogged, appended, is_write
<1>3. UnloggedWrite(c) => UnloggedWrite(c)'
  BY DEF UnloggedWrite, WRONGTYPE, InvalidExpire
<1> QED
  BY <1>1, <1>2, <1>3 DEF Recorded

(* The replies of a write that are not errors and not 0. *)
LEMMA LoggedReplies ==
  ASSUME NEW cmd, is_write(cmd)
  PROVE  /\ appended(cmd, OK)
         /\ \A x : appended(cmd, BulkString(x)) /\ appended(cmd, Array(x))
         /\ \A n \in Int \ {0} : appended(cmd, Integer(n))
         /\ \A prev, met : cmd \in SetCommand => appended(cmd, set_reply(cmd, prev, met))
<1>1. /\ appended(cmd, OK)
      /\ \A x : appended(cmd, BulkString(x)) /\ appended(cmd, Array(x))
      /\ \A n \in Int \ {0} : appended(cmd, Integer(n))
  BY DEF appended, OK, SimpleString, BulkString, Array, Integer
<1>2. \A prev, met : set_reply(cmd, prev, met) = OK \/ \E x : set_reply(cmd, prev, met) = BulkString(x)
  BY DEF set_reply
<1> QED
  BY <1>1, <1>2

(* The commands that is_write lists. *)
LEMMA WriteCommands ==
  ASSUME NEW cmd \in SetCommand \cup DeleteCommand \cup PushCommand \cup GetDelCommand
                     \cup MSetCommand \cup PopCommand \cup SAddCommand \cup SRemCommand
                     \cup SMoveCommand \cup SPopCommand \cup PersistCommand \cup ExpireCommand
                     \cup ExpireAtCommand \cup FlushDbCommand
  PROVE  is_write(cmd)
  BY DEF is_write, SetCommand, DeleteCommand, PushCommand, GetDelCommand, MSetCommand, PopCommand,
         SAddCommand, SRemCommand, SMoveCommand, SPopCommand, PersistCommand, ExpireCommand,
         ExpireAtCommand, FlushDbCommand

(* The calls that only read, and the commands made of them. *)
LEMMA ReadsRecorded ==
  ASSUME TypeOK, NEW c \in Clients, Recorded(c),
         \/ Start(c) \/ SetRead(c) \/ SetKeepTtl(c) \/ Exists(c) \/ TtlGet(c) \/ TtlExists(c)
         \/ Read(c) \/ Stateless(c)
  PROVE  Recorded(c)'
<1>1. conn[c] \in Locals
  BY TypeParts DEF ConnTyped
<1>2. ~touched[c] /\ contents' = contents
  <2>1. conn[c].pc \in {"idle", "set_read", "set_keepttl", "exists", "ttl_get", "ttl_exists"}
    BY DEF Start, SetRead, SetKeepTtl, Exists, TtlGet, TtlExists, Read, Stateless, Running
  <2>2. UNCHANGED store
    BY DEF Start, Enter, SetRead, SetKeepTtl, Exists, TtlGet, TtlExists, Read, Stateless
  <2> QED
    BY <2>1, <2>2, ContentsUnchanged DEF Recorded, CallsSoFar
<1>3. CASE \E cmd, r : Reply(c, cmd, r)
  BY <1>2, <1>3, ReplyRecorded
<1>4. CASE \E r : r.pc \notin {"done", "dead"} /\ Continue(c, r)
  BY <1>2, <1>4, ContinueRecorded
<1>5. CASE Start(c)
  <2>1. PICK cmd \in Commands, pc \in {"set_read", "delete", "exists", "ttl_get", "push"} :
           Enter(c, cmd, pc)
    BY <1>5 DEF Start
  <2>2. [Idle EXCEPT !.pc = pc, !.cmd = cmd].pc \notin {"done", "dead"}
    BY <2>1 DEF Idle
  <2> QED
    BY <1>4, <2>1, <2>2 DEF Enter
<1>6. CASE SetRead(c) \/ SetKeepTtl(c)
  <2>1. \A p, q : /\ [conn[c] EXCEPT !.prev = p, !.pc = "set_keepttl"].pc \notin {"done", "dead"}
                  /\ [conn[c] EXCEPT !.prev = p, !.pc = "set_write"].pc \notin {"done", "dead"}
                  /\ [conn[c] EXCEPT !.prev_ttl = q, !.pc = "set_write"].pc \notin {"done", "dead"}
    BY <1>1 DEF Locals
  <2> QED
    BY <1>3, <1>4, <1>6, <2>1 DEF SetRead, SetKeepTtl
<1>7. CASE Exists(c)
  <2>1. \A j, n : [conn[c] EXCEPT !.i = j, !.n = n].pc \notin {"done", "dead"}
    BY <1>1, <1>7 DEF Locals, Exists, Running
  <2> QED
    BY <1>3, <1>4, <1>7, <2>1 DEF Exists, Advance
<1>8. CASE TtlGet(c) \/ TtlExists(c)
  <2>1. [conn[c] EXCEPT !.pc = "ttl_exists"].pc \notin {"done", "dead"}
    BY <1>1 DEF Locals
  <2> QED
    BY <1>3, <1>4, <1>8, <2>1 DEF TtlGet, TtlExists
<1>9. CASE Read(c) \/ Stateless(c)
  <2>1. conn[c].pc = "idle" /\ \E cmd : Panic(c, cmd) \/ \E r : Reply(c, cmd, r)
    BY <1>9 DEF Read, Stateless, Running
  <2> QED
    BY <1>2, <1>3, <2>1, PanicRecorded
<1> QED
  BY <1>5, <1>6, <1>7, <1>8, <1>9

(* The writing calls of SET: the value, then the deadline. *)
LEMMA SetRecorded ==
  ASSUME TypeOK, NEW c \in Clients, Recorded(c), SetWrite(c) \/ SetExpire(c)
  PROVE  Recorded(c)'
<1>1. conn[c] \in Locals /\ InFlightOK(conn[c])
  BY TypeParts DEF ConnTyped
<1>2. conn[c].cmd \in SetCommand /\ conn[c].pc # "done"
  BY <1>1 DEF SetWrite, SetExpire, Running, InFlightOK
<1>3. \A prev, met : appended(conn[c].cmd, set_reply(conn[c].cmd, prev, met))
  BY <1>2, LoggedReplies, WriteCommands
<1>4. CASE SetWrite(c)
  <2>1. /\ [conn[c] EXCEPT !.pc = "set_expire"].pc \notin {"done", "dead"}
        /\ [conn[c] EXCEPT !.pc = "set_expire"].pc = "set_expire"
    BY <1>1 DEF Locals
  <2>2. \/ \E prev : Reply(c, conn[c].cmd, set_reply(conn[c].cmd, prev, TRUE))
        \/ Continue(c, [conn[c] EXCEPT !.pc = "set_expire"])
    BY <1>4 DEF SetWrite
  <2> QED
    BY <1>3, <2>1, <2>2, ReplyRecorded, ContinueRecorded
<1>5. CASE SetExpire(c)
  <2>1. conn[c].cmd.expiry # None
    BY <1>1, <1>5 DEF SetExpire, Running, InFlightOK
  <2>2. Excused(conn[c].cmd, InvalidExpire)
    BY <1>2, <2>1 DEF Excused
  <2>3. \/ \E prev : Reply(c, conn[c].cmd, set_reply(conn[c].cmd, prev, TRUE))
        \/ Reply(c, conn[c].cmd, InvalidExpire)
        \/ Panic(c, conn[c].cmd)
    BY <1>5 DEF SetExpire
  <2> QED
    BY <1>2, <1>3, <2>1, <2>2, <2>3, ReplyRecorded, PanicRecorded
<1> QED
  BY <1>4, <1>5

(* Deleting a key that is not there changes nothing. *)
LEMMA DeleteOfAbsent ==
  ASSUME DataTyped, NEW k \in Keys, data[k] = None, delete(k)
  PROVE  contents' = contents
  BY DEF DataTyped, delete, contents

(* DEL: the count is 0 as long as no key was there. *)
LEMMA DeleteRecorded ==
  ASSUME TypeOK, NEW c \in Clients, Recorded(c), Delete(c)
  PROVE  Recorded(c)'
<1> DEFINE cmd == conn[c].cmd
           k == cmd.keys[conn[c].i]
           n == conn[c].n + IF delete_returns(k) THEN 1 ELSE 0
           next == [conn[c] EXCEPT !.i = @ + 1, !.n = n]
<1>1. DataTyped /\ conn[c] \in Locals /\ InFlightOK(conn[c])
  BY TypeParts DEF ConnTyped
<1>2. conn[c].pc = "delete" /\ cmd \in DeleteCommand /\ k \in Keys
  BY <1>1, ElementOfSeq DEF Delete, Running, InFlightOK, DeleteCommand, NonEmpty
<1>3. n \in Nat /\ ((touched[c] \/ contents' # contents) => n >= 1)
  <2>1. conn[c].n \in Nat /\ (touched[c] => conn[c].n >= 1)
    BY <1>1, <1>2 DEF Locals, Recorded, CallsSoFar
  <2>2. contents' # contents => delete_returns(k)
    BY <1>1, <1>2, DeleteOfAbsent DEF Delete, delete_returns
  <2> QED
    BY <2>1, <2>2
<1>4. next.pc = "delete" /\ next.n = n
  BY <1>1, <1>2 DEF Locals
<1>5. Reply(c, cmd, Integer(n)) \/ Continue(c, next)
  BY DEF Delete, Advance
<1> HIDE DEF n, next
<1>6. CASE Continue(c, next)
  BY <1>3, <1>4, <1>6, ContinueRecorded
<1>7. CASE Reply(c, cmd, Integer(n)) /\ n = 0
  BY <1>3, <1>7, ReplyRecorded
<1>8. CASE Reply(c, cmd, Integer(n)) /\ n # 0
  <2>1. appended(cmd, Integer(n))
    BY <1>2, <1>3, <1>8, LoggedReplies, WriteCommands
  <2> QED
    BY <1>8, <2>1, ReplyRecorded
<1> QED
  BY <1>5, <1>6, <1>7, <1>8

(* What a push returns: None or 0 when it has done nothing. *)
LEMMA PushReturns ==
  ASSUME DataTyped, NEW k \in Keys, NEW e, NEW create \in BOOLEAN, NEW front,
         push_inner(k, e, create, front)
  PROVE  /\ push_inner_returns(k, create) \in Nat \cup {None}
         /\ push_inner_returns(k, create) \in {0, None} => UNCHANGED store
<1> DEFINE v == inner_get(k, now)
<1>1. is_list(v) => Len(v[2]) \in Nat
  BY LookupTyped, ValueParts, LenProperties
<1>2. v = None \/ is_list(v) => push_inner_returns(k, create) \in Nat
  BY <1>1 DEF push_inner_returns, is_list
<1>3. CASE v # None /\ ~is_list(v)
  BY <1>3 DEF push_inner_returns, push_inner
<1>4. CASE is_list(v)
  <2>1. push_inner_returns(k, create) = Len(v[2]) + 1
    BY <1>4 DEF push_inner_returns, is_list
  <2> QED
    BY <1>1, <1>4, <2>1, NoneAssumption
<1>5. CASE v = None /\ ~create
  BY <1>2, <1>5 DEF push_inner, is_list
<1>6. CASE v = None /\ create
  BY <1>6, NoneAssumption DEF push_inner_returns
<1> QED
  BY <1>3, <1>4, <1>5, <1>6

(* The pushes: with one element, an error or 0 means that nothing changed. *)
LEMMA PushRecorded ==
  ASSUME TypeOK, NEW c \in Clients, Recorded(c), Push(c)
  PROVE  Recorded(c)'
<1> DEFINE cmd == conn[c].cmd
           create == cmd.op \in {"LPush", "RPush"}
           front == cmd.op \in {"LPush", "LPushX"}
           len == push_inner_returns(cmd.key, create)
           next == [conn[c] EXCEPT !.i = @ + 1, !.n = len]
<1>1. DataTyped /\ conn[c] \in Locals /\ InFlightOK(conn[c])
  BY TypeParts DEF ConnTyped
<1>2. /\ conn[c].pc = "push" /\ cmd \in PushCommand /\ cmd.key \in Keys
      /\ conn[c].i \in 1..Len(cmd.elements) /\ Len(cmd.elements) \in Nat
  BY <1>1, LenProperties DEF Push, Running, InFlightOK, PushCommand, NonEmpty
<1>3. len \in Nat \cup {None} /\ (len \in {0, None} => contents' = contents)
  <2>1. push_inner(cmd.key, cmd.elements[conn[c].i], create, front)
    BY DEF Push
  <2>2. create \in BOOLEAN
    OBVIOUS
  <2> HIDE DEF create, front
  <2> QED
    BY <1>1, <1>2, <2>1, <2>2, PushReturns, ContentsUnchanged
<1>4. touched[c] => Len(cmd.elements) > 1
  BY <1>2 DEF Recorded, CallsSoFar
<1>5. \A r : Len(cmd.elements) > 1 => Excused(cmd, r)
  BY <1>2 DEF Excused
<1>6. next.pc = "push" /\ next.cmd = cmd
  BY <1>1, <1>2 DEF Locals
<1>7. \/ len = None /\ Reply(c, cmd, WRONGTYPE)
      \/ len # None /\ Reply(c, cmd, Integer(len))
      \/ Continue(c, next) /\ conn[c].i < Len(cmd.elements)
  BY DEF Push, Advance
<1>8. touched[c] \in BOOLEAN
  BY TypeParts DEF ConnTyped
<1> HIDE DEF len, next
<1>9. CASE len = None /\ Reply(c, cmd, WRONGTYPE)
  BY <1>3, <1>4, <1>5, <1>8, <1>9, ReplyRecorded
<1>10. CASE len # None /\ Reply(c, cmd, Integer(len))
  <2>1. CASE len = 0
    BY <1>3, <1>4, <1>5, <1>8, <1>10, <2>1, ReplyRecorded
  <2>2. CASE len # 0
    <3>1. appended(cmd, Integer(len))
      BY <1>2, <1>3, <1>10, <2>2, LoggedReplies, WriteCommands
    <3> QED
      BY <1>10, <3>1, ReplyRecorded
  <2> QED
    BY <2>1, <2>2
<1>11. CASE Continue(c, next) /\ conn[c].i < Len(cmd.elements)
  <2>1. Len(cmd.elements) > 1
    BY <1>2, <1>11
  <2> QED
    BY <1>6, <1>11, <2>1, ContinueRecorded
<1> QED
  BY <1>7, <1>9, <1>10, <1>11

(* A connection that is about to begin a command. *)
LEMMA IdleUntouched ==
  ASSUME NEW c \in Clients, Recorded(c), Running(c, "idle")
  PROVE  ~touched[c] /\ conn[c].pc # "done"
  BY DEF Recorded, CallsSoFar, Running

(* The commands whose reply is never an error or 0, or always excused. *)
LEMMA PlainWritesRecorded ==
  ASSUME TypeOK, NEW c \in Clients, Recorded(c), GetDel(c) \/ MSet(c) \/ LSet(c) \/ FlushDb(c)
  PROVE  Recorded(c)'
<1>1. CASE GetDel(c)
  <2>1. PICK cmd, r :
           /\ cmd \in GetDelCommand /\ Reply(c, cmd, r)
           /\ r = WRONGTYPE \/ \E x : r = BulkString(x)
    BY <1>1 DEF GetDel
  <2>2. r = WRONGTYPE => Excused(cmd, r)
    BY <2>1 DEF Excused
  <2>3. (\E x : r = BulkString(x)) => appended(cmd, r)
    BY <2>1, LoggedReplies, WriteCommands
  <2> QED
    BY <2>1, <2>2, <2>3, ReplyRecorded
<1>2. CASE MSet(c) \/ FlushDb(c)
  <2>1. PICK cmd \in MSetCommand \cup FlushDbCommand : Reply(c, cmd, OK)
    BY <1>2 DEF MSet, FlushDb
  <2>2. appended(cmd, OK)
    BY <2>1, LoggedReplies, WriteCommands
  <2> QED
    BY <2>1, <2>2, ReplyRecorded
<1>3. CASE LSet(c)
  <2>1. PICK cmd, r : cmd \in LSetCommand /\ Reply(c, cmd, r)
    BY <1>3 DEF LSet
  <2>2. Excused(cmd, r)
    BY <2>1 DEF Excused
  <2> QED
    BY <2>1, <2>2, ReplyRecorded
<1> QED
  BY <1>1, <1>2, <1>3

(* LPOP and RPOP: an error means a value that is not a list. *)
LEMMA PopRecorded ==
  ASSUME TypeOK, NEW c \in Clients, Recorded(c), Pop(c)
  PROVE  Recorded(c)'
<1>1. ~touched[c] /\ conn[c].pc # "done"
  BY IdleUntouched DEF Pop
<1>2. PICK cmd, count, front :
         /\ cmd \in PopCommand
         /\ \/ /\ pop_inner(cmd.key, count, front)
               /\ Reply(c, cmd, pop_reply(inner_get(cmd.key, now), cmd.count, front))
            \/ UNCHANGED store /\ Panic(c, cmd)
  BY <1>1 DEF Pop
<1> DEFINE v == inner_get(cmd.key, now)
           r == pop_reply(v, cmd.count, front)
<1>3. CASE UNCHANGED store /\ Panic(c, cmd)
  BY <1>1, <1>3, PanicRecorded, ContentsUnchanged
<1>4. CASE pop_inner(cmd.key, count, front) /\ Reply(c, cmd, r)
  <2>1. CASE v = None \/ is_list(v)
    <3>1. \A taken : \E x : elements_reply(taken, cmd.count) \in {Array(x), BulkString(x)}
      BY DEF elements_reply
    <3>2. \E x : r \in {Array(x), BulkString(x)}
      BY <2>1, <3>1 DEF pop_reply, is_list
    <3>3. appended(cmd, r)
      BY <1>2, <3>2, LoggedReplies, WriteCommands
    <3> HIDE DEF r
    <3> QED
      BY <1>4, <3>3, ReplyRecorded
  <2>2. CASE v # None /\ ~is_list(v)
    <3>1. UNCHANGED store
      BY <1>4, <2>2 DEF pop_inner
    <3> HIDE DEF r
    <3> QED
      BY <1>1, <1>4, <3>1, ReplyRecorded, ContentsUnchanged
  <2> QED
    BY <2>1, <2>2
<1> QED
  BY <1>2, <1>3, <1>4

(* A count of members that is 0 counts none. *)
LEMMA NoMembers ==
  ASSUME NEW S, IsFiniteSet(S)
  PROVE  Cardinality(S) \in Nat /\ (Cardinality(S) = 0 => S = {})
  BY FS_CardinalityType, FS_EmptySet

(* SADD: 0 means that all members were there. *)
LEMMA SAddRecorded ==
  ASSUME TypeOK, NEW c \in Clients, Recorded(c), SAdd(c)
  PROVE  Recorded(c)'
<1>1. ~touched[c] /\ DataTyped
  BY IdleUntouched, TypeParts DEF SAdd
<1>2. PICK cmd \in Commands :
         /\ cmd \in SAddCommand
         /\ sadd(cmd.key, cmd.members)
         /\ LET v == inner_get(cmd.key, now)
            IN  Reply(c, cmd, CASE v = None -> Integer(Cardinality(cmd.members))
                                [] is_set(v) -> Integer(Cardinality(cmd.members \ v[2]))
                                [] OTHER -> WRONGTYPE)
  BY DEF SAdd
<1> DEFINE v == inner_get(cmd.key, now)
           new == IF v = None THEN cmd.members ELSE cmd.members \ v[2]
<1>3. cmd.key \in Keys /\ cmd.members # {} /\ IsFiniteSet(cmd.members)
  BY <1>2, MembersAssumption DEF SAddCommand
<1>4. IsFiniteSet(new)
  <2>1. new \in SUBSET cmd.members
    OBVIOUS
  <2> QED
    BY <1>3, <2>1, FS_Subset
<1>5. Cardinality(new) \in Nat /\ (Cardinality(new) = 0 => new = {})
  BY <1>4, NoMembers
<1>6. CASE v = None \/ is_set(v)
  <2>1. Reply(c, cmd, Integer(Cardinality(new)))
    BY <1>2, <1>6 DEF is_set
  <2>2. CASE Cardinality(new) # 0
    <3>1. appended(cmd, Integer(Cardinality(new)))
      BY <1>2, <1>5, <2>2, LoggedReplies, WriteCommands
    <3> QED
      BY <2>1, <3>1, ReplyRecorded
  <2>3. CASE Cardinality(new) = 0
    <3>1. v # None /\ is_set(v) /\ cmd.members \subseteq v[2]
      BY <1>3, <1>5, <1>6, <2>3
    <3>2. v = data[cmd.key] /\ v \in StoreValue
      BY <1>1, <1>3, <3>1, LookupTyped
    <3>3. v = Set(v[2])
      BY <3>1, <3>2 DEF StoreValue, is_set, Set
    <3>4. v[2] \cup cmd.members = v[2]
      BY <3>1
    <3>5. data' = [data EXCEPT ![cmd.key] = v] /\ expiry_index' = expiry_index
      BY <1>2, <3>1, <3>3, <3>4 DEF sadd
    <3>6. UNCHANGED store
      BY <1>1, <3>2, <3>5 DEF DataTyped, store
    <3> QED
      BY <1>1, <2>1, <3>6, ReplyRecorded, ContentsUnchanged
  <2> QED
    BY <2>2, <2>3
<1>7. CASE v # None /\ ~is_set(v)
  <2>1. UNCHANGED store
    BY <1>2, <1>7 DEF sadd
  <2> QED
    BY <1>1, <1>2, <2>1, ReplyRecorded, ContentsUnchanged
<1> QED
  BY <1>6, <1>7

(* SREM: 0 means that none of the members was there. *)
LEMMA SRemRecorded ==
  ASSUME TypeOK, NEW c \in Clients, Recorded(c), SRem(c)
  PROVE  Recorded(c)'
<1>1. ~touched[c] /\ DataTyped
  BY IdleUntouched, TypeParts DEF SRem
<1>2. PICK cmd \in Commands :
         /\ cmd \in SRemCommand
         /\ srem(cmd.key, cmd.members)
         /\ LET v == inner_get(cmd.key, now)
            IN  Reply(c, cmd, CASE v = None -> Integer(0)
                                [] is_set(v) -> Integer(Cardinality(cmd.members \cap v[2]))
                                [] OTHER -> WRONGTYPE)
  BY DEF SRem
<1> DEFINE v == inner_get(cmd.key, now)
           old == cmd.members \cap v[2]
<1>3. cmd.key \in Keys /\ IsFiniteSet(cmd.members)
  BY <1>2, MembersAssumption DEF SRemCommand
<1>4. IsFiniteSet(old)
  <2>1. old \in SUBSET cmd.members
    OBVIOUS
  <2> QED
    BY <1>3, <2>1, FS_Subset
<1>5. Cardinality(old) \in Nat /\ (Cardinality(old) = 0 => old = {})
  BY <1>4, NoMembers
<1>6. CASE is_set(v)
  <2>1. Reply(c, cmd, Integer(Cardinality(old)))
    BY <1>2, <1>6 DEF is_set
  <2>2. CASE Cardinality(old) # 0
    <3>1. appended(cmd, Integer(Cardinality(old)))
      BY <1>2, <1>5, <2>2, LoggedReplies, WriteCommands
    <3> QED
      BY <2>1, <3>1, ReplyRecorded
  <2>3. CASE Cardinality(old) = 0
    <3>1. v = data[cmd.key] /\ v \in StoreValue
      BY <1>1, <1>3, <1>6, LookupTyped DEF is_set
    <3>2. v = Set(v[2]) /\ v[2] \in SUBSET Strings
      BY <1>6, <3>1 DEF StoreValue, is_set, Set
    <3>3. v[2] \ cmd.members = v[2]
      BY <1>5, <2>3
    <3>4. data' = [data EXCEPT ![cmd.key] = v] /\ expiry_index' = expiry_index
      BY <1>2, <1>6, <3>2, <3>3 DEF srem
    <3>5. UNCHANGED store
      BY <1>1, <3>1, <3>4 DEF DataTyped, store
    <3> QED
      BY <1>1, <2>1, <3>5, ReplyRecorded, ContentsUnchanged
  <2> QED
    BY <2>2, <2>3
<1>7. CASE ~is_set(v)
  <2>1. UNCHANGED store
    BY <1>2, <1>7 DEF srem
  <2> QED
    BY <1>1, <1>2, <2>1, ReplyRecorded, ContentsUnchanged
<1> QED
  BY <1>6, <1>7

(* SMOVE: a refused move changes nothing, a panic poisons the lock. *)
LEMMA SMoveRecorded ==
  ASSUME TypeOK, NEW c \in Clients, Recorded(c), SMove(c)
  PROVE  Recorded(c)'
<1>1. ~touched[c] /\ conn[c].pc # "done"
  BY IdleUntouched DEF SMove
<1>2. PICK cmd, r :
         /\ cmd \in SMoveCommand
         /\ \/ Reply(c, cmd, Integer(1))
            \/ Panic(c, cmd) /\ poisoned'
            \/ UNCHANGED store /\ Reply(c, cmd, r)
  BY DEF SMove
<1>3. CASE Reply(c, cmd, Integer(1))
  <2>1. appended(cmd, Integer(1))
    BY <1>2, LoggedReplies, WriteCommands
  <2> QED
    BY <1>3, <2>1, ReplyRecorded
<1>4. CASE Panic(c, cmd) /\ poisoned'
  BY <1>1, <1>4, PanicRecorded
<1>5. CASE UNCHANGED store /\ Reply(c, cmd, r)
  BY <1>1, <1>5, ReplyRecorded, ContentsUnchanged
<1> QED
  BY <1>2, <1>3, <1>4, <1>5

(* SPOP: an error means a value that is not a set. *)
LEMMA SPopRecorded ==
  ASSUME TypeOK, NEW c \in Clients, Recorded(c), SPop(c)
  PROVE  Recorded(c)'
<1>1. ~touched[c] /\ conn[c].pc = "idle"
  BY IdleUntouched DEF SPop, Running
<1>2. PICK cmd, r :
         /\ cmd \in SPopCommand
         /\ \/ UNCHANGED store /\ (Panic(c, cmd) \/ Reply(c, cmd, r))
            \/ Reply(c, cmd, r) /\ \E x : r = Array(x) \/ r = BulkString(x)
  BY DEF SPop, Unordered
<1>3. CASE UNCHANGED store
  BY <1>1, <1>2, <1>3, ReplyRecorded, PanicRecorded, ContentsUnchanged
<1>4. CASE Reply(c, cmd, r) /\ \E x : r = Array(x) \/ r = BulkString(x)
  <2>1. appended(cmd, r)
    BY <1>2, <1>4, LoggedReplies, WriteCommands
  <2> QED
    BY <1>4, <2>1, ReplyRecorded
<1> QED
  BY <1>2, <1>3, <1>4

(* A write that replies whether it did anything. *)
LEMMA TruthRecorded ==
  ASSUME TypeOK, NEW c \in Clients, ~touched[c], NEW cmd, is_write(cmd), NEW b,
         Reply(c, cmd, Truth(b)), ~b => UNCHANGED store
  PROVE  Recorded(c)'
<1>1. CASE b
  <2>1. appended(cmd, Truth(b))
    BY <1>1, LoggedReplies DEF Truth
  <2> QED
    BY <2>1, ReplyRecorded
<1>2. CASE ~b
  BY <1>2, ReplyRecorded, ContentsUnchanged
<1> QED
  BY <1>1, <1>2

(* PERSIST and EXPIRE: 0 means no deadline to remove, no key to give one. *)
LEMMA PersistRecorded ==
  ASSUME TypeOK, NEW c \in Clients, Recorded(c), Persist(c) \/ Expire(c)
  PROVE  Recorded(c)'
<1>1. ~touched[c] /\ DataTyped
  BY IdleUntouched, TypeParts DEF Persist, Expire
<1>2. CASE Persist(c)
  <2>1. PICK cmd \in PersistCommand :
           persist(cmd.key) /\ Reply(c, cmd, Truth(persist_returns(cmd.key)))
    BY <1>2 DEF Persist
  <2>2. ~persist_returns(cmd.key) => UNCHANGED store
    BY <1>1, <2>1 DEF persist, persist_returns, DataTyped, PersistCommand, store
  <2> QED
    BY <1>1, <2>1, <2>2, WriteCommands, TruthRecorded
<1>3. CASE Expire(c)
  <2>1. PICK cmd, deadline :
           /\ cmd \in ExpireCommand
           /\ \/ set_ttl(cmd.key, deadline) /\ Reply(c, cmd, Truth(set_ttl_returns(cmd.key)))
              \/ UNCHANGED store /\ Reply(c, cmd, InvalidExpire)
    BY <1>3 DEF Expire
  <2>2. CASE UNCHANGED store /\ Reply(c, cmd, InvalidExpire)
    BY <1>1, <2>2, ReplyRecorded, ContentsUnchanged
  <2>3. CASE set_ttl(cmd.key, deadline) /\ Reply(c, cmd, Truth(set_ttl_returns(cmd.key)))
    <3>1. ~set_ttl_returns(cmd.key) => UNCHANGED store
      BY <2>3 DEF set_ttl, set_ttl_returns
    <3> QED
      BY <1>1, <2>1, <2>3, <3>1, WriteCommands, TruthRecorded
  <2> QED
    BY <2>1, <2>2, <2>3
<1> QED
  BY <1>2, <1>3

(* EXPIREAT: 0 is excused, for it may stand for a deletion. *)
LEMMA ExpireAtRecorded ==
  ASSUME TypeOK, NEW c \in Clients, Recorded(c), ExpireAt(c)
  PROVE  Recorded(c)'
<1>1. ~touched[c] /\ conn[c].pc # "done"
  BY IdleUntouched DEF ExpireAt
<1>2. PICK cmd \in ExpireAtCommand :
         \/ \E b : Reply(c, cmd, Truth(b))
         \/ Reply(c, cmd, Integer(0))
         \/ UNCHANGED store /\ Panic(c, cmd)
  BY DEF ExpireAt
<1>3. Excused(cmd, Integer(0)) /\ appended(cmd, Integer(1))
  BY LoggedReplies, WriteCommands DEF Excused
<1>4. \A b : Truth(b) \in {Integer(0), Integer(1)}
  BY DEF Truth
<1> QED
  BY <1>1, <1>2, <1>3, <1>4, ReplyRecorded, PanicRecorded, ContentsUnchanged

(* Every call of a command. *)
LEMMA ExecuteRecorded ==
  ASSUME TypeOK, NEW c \in Clients, Recorded(c), Execute(c)
  PROVE  Recorded(c)'
  BY ReadsRecorded, SetRecorded, DeleteRecorded, PushRecorded, PlainWritesRecorded, PopRecorded,
     SAddRecorded, SRemRecorded, SMoveRecorded, SPopRecorded, PersistRecorded, ExpireAtRecorded
     DEF Execute

(* A connection that is idle again has done nothing yet. *)
LEMMA FreshRecorded ==
  ASSUME TypeOK, NEW c \in Clients, Respond(c) \/ Reconnect(c)
  PROVE  Recorded(c)'
<1>1. conn \in [Clients -> Locals] /\ touched \in [Clients -> BOOLEAN]
  BY TypeParts DEF ConnTyped
<1>2. conn'[c].pc = "idle" /\ touched'[c] = FALSE
  BY <1>1 DEF Respond, Reconnect, Idle
<1> QED
  BY <1>2 DEF Recorded, CallsSoFar

(* A call on the poisoned lock panics. *)
LEMMA PoisonedRecorded ==
  ASSUME TypeOK, NEW c \in Clients, PoisonedCall(c)
  PROVE  Recorded(c)'
<1>1. poisoned' /\ conn[c].pc # "done" /\ Panic(c, conn[c].cmd)
  BY DEF PoisonedCall, Elsewhere
<1> QED
  BY <1>1, PanicRecorded

(* What a step of one connection leaves alone. *)
LEMMA ConnectionAlone ==
  ASSUME TypeOK, NEW c \in Clients, Connection(c)
  PROVE  /\ \A d \in Clients \ {c} :
               conn'[d] = conn[d] /\ reply'[d] = reply[d] /\ touched'[d] = touched[d]
         /\ poisoned => poisoned'
<1>1. conn \in [Clients -> Locals] /\ DOMAIN reply = Clients /\ touched \in [Clients -> BOOLEAN]
  BY TypeParts DEF ConnTyped
<1>2. CASE Execute(c)
  <2>1. poisoned => poisoned'
    BY <1>2 DEF Execute, Start, Enter, SetRead, SetKeepTtl, SetWrite, SetExpire, Delete, Exists,
            Push, TtlGet, TtlExists, GetDel, MSet, Pop, LSet, SAdd, SRem, SMove, SPop, Persist,
            Expire, ExpireAt, FlushDb, Read, Stateless, Elsewhere
  <2> QED
    BY <1>2, <2>1, ExecuteActs, ActsAlone
<1>3. CASE PoisonedCall(c)
  <2>1. Acts(c) /\ (poisoned => poisoned')
    BY <1>3 DEF PoisonedCall, Acts, Elsewhere
  <2> QED
    BY <2>1, ActsAlone
<1>4. CASE Respond(c) \/ Reconnect(c)
  BY <1>1, <1>4 DEF Respond, Reconnect, Elsewhere
<1> QED
  BY <1>2, <1>3, <1>4 DEF Connection

(* Every step keeps the record of every connection. *)
LEMMA NextRecorded ==
  ASSUME TypeOK, \A c \in Clients : Recorded(c), [Next]_vars
  PROVE  \A c \in Clients : Recorded(c)'
<1>1. ASSUME NEW c \in Clients, Connection(c)
      PROVE  \A d \in Clients : Recorded(d)'
  <2>1. Recorded(c)'
    BY <1>1, ExecuteRecorded, FreshRecorded, PoisonedRecorded DEF Connection
  <2>2. \A d \in Clients \ {c} : Recorded(d)'
    BY <1>1, ConnectionAlone, OthersRecorded
  <2> QED
    BY <2>1, <2>2
<1>2. CASE Daemon \/ Tick \/ UNCHANGED vars
  <2>1. UNCHANGED <<conn, reply, touched, poisoned>>
    BY <1>2 DEF Daemon, EvictSample, EvictFilter, EvictDelete, EvictorPanic, Tick, vars
  <2> QED
    BY <2>1, OthersRecorded
<1> QED
  BY <1>1, <1>2 DEF Next

(* The AOF misses no write but the listed ones: whatever the calls of      *)
(* other connections do in between, a command that is not appended has     *)
(* changed the store only if it is one of UnloggedWrite.  By Recorded,     *)
(* which says what the calls of a command under way have done so far.      *)
THEOREM WritesAreLogged == Spec => []NoOtherUnloggedWrite
<1>1. Init => \A c \in Clients : Recorded(c)
  <2>1. Idle.pc = "idle"
    BY DEF Idle
  <2> QED
    BY <2>1 DEF Init, Recorded, CallsSoFar
<1>2. TypeOK /\ (\A c \in Clients : Recorded(c)) /\ [Next]_vars => (\A c \in Clients : Recorded(c))'
  BY NextRecorded
<1>3. (\A c \in Clients : Recorded(c)) => NoOtherUnloggedWrite
  BY DEF Recorded, NoOtherUnloggedWrite
<1> QED
  BY <1>1, <1>2, <1>3, TypeCorrect, PTL DEF Spec

-----------------------------------------------------------------------------
(***************************************************************************)
(* The command that a step finishes, and the call it finishes with.        *)
(***************************************************************************)
(* What the end of a command leaves behind. *)
LEMMA ReplyLeaves ==
  ASSUME TypeOK, NEW c \in Clients, NEW cmd, NEW r, Reply(c, cmd, r)
  PROVE  conn'[c].pc = "done" /\ conn'[c].cmd = cmd /\ reply'[c] = r
<1>1. conn \in [Clients -> Locals] /\ DOMAIN reply = Clients
  BY TypeParts DEF ConnTyped
<1> QED
  BY <1>1 DEF Reply, Idle

(* A panic is not an end with a reply. *)
LEMMA PanicLeaves ==
  ASSUME TypeOK, NEW c \in Clients, NEW cmd, Panic(c, cmd)
  PROVE  conn'[c].pc = "dead"
<1>1. conn \in [Clients -> Locals]
  BY TypeParts DEF ConnTyped
<1> QED
  BY <1>1 DEF Panic, Idle

(* Nor is a call after which the command goes on. *)
LEMMA ContinueLeaves ==
  ASSUME TypeOK, NEW c \in Clients, NEW r, Continue(c, r)
  PROVE  conn'[c] = r
<1>1. conn \in [Clients -> Locals]
  BY TypeParts DEF ConnTyped
<1> QED
  BY <1>1 DEF Continue

(* A connection gets its reply in a call of its own command. *)
LEMMA FinishesItself ==
  ASSUME TypeOK, [Next]_vars, NEW c \in Clients, conn[c].pc # "done", conn'[c].pc = "done"
  PROVE  Execute(c)
<1>1. conn \in [Clients -> Locals]
  BY TypeParts DEF ConnTyped
<1>2. PICK d \in Clients : Connection(d)
  BY DEF Next, Daemon, EvictSample, EvictFilter, EvictDelete, EvictorPanic, Tick, vars
<1>3. d = c
  BY <1>2, ConnectionAlone
<1>4. ~(Respond(c) \/ Reconnect(c))
  <2>1. Idle.pc # "done"
    BY DEF Idle
  <2> QED
    BY <1>1, <2>1 DEF Respond, Reconnect
<1>5. ~PoisonedCall(c)
  BY PanicLeaves DEF PoisonedCall
<1> QED
  BY <1>2, <1>3, <1>4, <1>5 DEF Connection

(* The calls a SET, an SMOVE or an EXPIREAT can end with. *)
LEMMA FinishedBy ==
  ASSUME TypeOK, NEW c \in Clients, Execute(c), conn'[c].pc = "done"
  PROVE  \/ SetRead(c) \/ SetWrite(c) \/ SetExpire(c)
         \/ SMove(c) \/ ExpireAt(c)
         \/ conn'[c].cmd.op \notin {"Set", "SMove", "ExpireAt", "PExpireAt"}
<1>1. conn \in [Clients -> Locals] /\ InFlightOK(conn[c])
  BY TypeParts DEF ConnTyped
<1>2. ~Start(c) /\ ~SetKeepTtl(c)
  <2>1. \A cmd, q : /\ \A pc \in {"set_read", "delete", "exists", "ttl_get", "push"} :
                          [Idle EXCEPT !.pc = pc, !.cmd = cmd].pc # "done"
                    /\ [conn[c] EXCEPT !.prev_ttl = q, !.pc = "set_write"].pc # "done"
    BY <1>1 DEF Idle, Locals
  <2> QED
    BY <2>1, ContinueLeaves DEF Start, Enter, SetKeepTtl
<1>3. CASE Delete(c) \/ Exists(c) \/ Push(c)
  <2>1. conn[c].cmd.op \in {"Delete", "Exists", "LPush", "RPush", "LPushX", "RPushX"}
    BY <1>1, <1>3 DEF Delete, Exists, Push, Running, InFlightOK, DeleteCommand, ExistsCommand,
                      PushCommand
  <2>2. ASSUME NEW arguments, NEW n, Advance(c, arguments, n)
        PROVE  conn'[c].cmd = conn[c].cmd
    <3> DEFINE next == [conn[c] EXCEPT !.i = @ + 1, !.n = n]
    <3>1. next.cmd = conn[c].cmd
      BY <1>1 DEF Locals
    <3>2. Reply(c, conn[c].cmd, Integer(n)) \/ Continue(c, next)
      BY <2>2 DEF Advance
    <3> HIDE DEF next
    <3> QED
      BY <3>1, <3>2, ContinueLeaves, ReplyLeaves
  <2>3. (\E arguments, n : Advance(c, arguments, n)) \/ Reply(c, conn[c].cmd, WRONGTYPE)
    BY <1>3 DEF Delete, Exists, Push
  <2>4. conn'[c].cmd = conn[c].cmd
    BY <2>2, <2>3, ReplyLeaves
  <2> QED
    BY <2>1, <2>4
<1>4. CASE TtlGet(c) \/ TtlExists(c)
  <2>1. conn[c].cmd.op \in {"Ttl", "PTtl", "ExpireTime", "PExpireTime"}
    BY <1>1, <1>4 DEF TtlGet, TtlExists, Running, InFlightOK, TtlCommand
  <2>2. ~Continue(c, [conn[c] EXCEPT !.pc = "ttl_exists"])
    BY <1>1, ContinueLeaves DEF Locals
  <2> QED
    BY <1>4, <2>1, <2>2, ReplyLeaves DEF TtlGet, TtlExists
<1>5. CASE \E cmd, r : /\ cmd.op \notin {"Set", "SMove", "ExpireAt", "PExpireAt"}
                       /\ Reply(c, cmd, r) \/ Panic(c, cmd)
  BY <1>5, ReplyLeaves, PanicLeaves
<1>6. CASE GetDel(c) \/ MSet(c) \/ Pop(c) \/ LSet(c) \/ SAdd(c) \/ SRem(c)
  <2>1. \A cmd \in GetDelCommand \cup MSetCommand \cup PopCommand \cup LSetCommand \cup SAddCommand
                   \cup SRemCommand : cmd.op \notin {"Set", "SMove", "ExpireAt", "PExpireAt"}
    BY DEF GetDelCommand, MSetCommand, PopCommand, LSetCommand, SAddCommand, SRemCommand
  <2> QED
    BY <1>5, <1>6, <2>1 DEF GetDel, MSet, Pop, LSet, SAdd, SRem
<1>7. CASE SPop(c) \/ Persist(c) \/ Expire(c) \/ FlushDb(c) \/ Read(c) \/ Stateless(c)
  <2>1. \A cmd \in SPopCommand \cup PersistCommand \cup ExpireCommand \cup FlushDbCommand
                   \cup ReadCommand \cup PingCommand \cup SelectCommand :
           cmd.op \notin {"Set", "SMove", "ExpireAt", "PExpireAt"}
    BY DEF SPopCommand, PersistCommand, ExpireCommand, FlushDbCommand, ReadCommand, PingCommand,
           SelectCommand
  <2> QED
    BY <1>5, <1>7, <2>1 DEF SPop, Persist, Expire, FlushDb, Read, Stateless
<1> QED
  BY <1>2, <1>3, <1>4, <1>6, <1>7 DEF Execute

-----------------------------------------------------------------------------
(* Absolute deadlines. *)

(* The Instant computed for a Unix time is due at that time or less than a *)
(* unit after it, or at once if the time is past.                          *)
LEMMA InstantOfUnits ==
  ASSUME NEW u \in Nat \ {0}, now \in Nat, NEW d \in Nat, NEW e,
         e = now + u * saturating_sub(d, now \div u)
  PROVE  e \in Nat /\ u * d <= e /\ (e < u * d + u \/ e <= now)
<1> DEFINE q == now \div u
<1>1. q \in Nat /\ u * q <= now /\ now < u * q + u
  BY UnitsOf
<1>2. e = now + u * (IF d >= q THEN d - q ELSE 0)
  BY DEF saturating_sub
<1> HIDE DEF q
<1>3. CASE d >= q
  <2>1. u * (d - q) = u * d - u * q /\ u * d \in Nat /\ u * q \in Nat
    BY <1>1
  <2> QED
    BY <1>1, <1>2, <1>3, <2>1
<1>4. CASE d < q
  <2>1. u * d <= u * q /\ u * d \in Nat /\ u * 0 = 0
    BY <1>1, <1>4
  <2> QED
    BY <1>1, <1>2, <1>4, <2>1
<1> QED
  BY <1>1, <1>3, <1>4

(* So it is for both conversions. *)
LEMMA InstantOfUnixTime ==
  ASSUME now \in Nat, NEW d \in Nat
  PROVE  /\ LET e == unix_secs_to_instant(d)
            IN  e \in Nat /\ Sec * d <= e /\ (e < Sec * d + Sec \/ e <= now)
         /\ LET e == unix_ms_to_instant(d)
            IN  e \in Nat /\ Ms * d <= e /\ (e < Ms * d + Ms \/ e <= now)
<1>1. Sec \in Nat \ {0} /\ Ms \in Nat \ {0}
  BY ConstantsAssumption
<1>2. unix_secs_to_instant(d) = now + Sec * saturating_sub(d, now \div Sec)
  BY DEF unix_secs_to_instant, unix_secs
<1>3. unix_ms_to_instant(d) = now + Ms * saturating_sub(d, now \div Ms)
  BY DEF unix_ms_to_instant, unix_ms
<1> QED
  BY <1>1, <1>2, <1>3, InstantOfUnits

(* The deadline asked for, by the form of the command. *)
LEMMA DeadlineOfCommand ==
  ASSUME now \in Nat, NEW cmd, HasAbsoluteDeadline(cmd),
         NEW e, \/ cmd \in SetCommand /\ \E p : e = set_deadline(cmd, p)
                \/ cmd \in ExpireAtCommand /\ e = expire_at_instant(cmd)
  PROVE  AskedInstant(cmd) <= e /\ (e < AskedInstant(cmd) + DeadlineUnit(cmd) \/ e <= now)
<1>1. cmd \in SetCommand => cmd \notin ExpireAtCommand
  BY DEF SetCommand, ExpireAtCommand
<1>2. U64 \subseteq Nat
  BY ConstantsAssumption DEF U64
<1>3. CASE cmd \in ExpireAtCommand
  <2>1. cmd.deadline \in Nat
    BY <1>2, <1>3 DEF ExpireAtCommand
  <2>2. e = IF cmd.op = "ExpireAt" THEN unix_secs_to_instant(cmd.deadline)
                                   ELSE unix_ms_to_instant(cmd.deadline)
    BY <1>1, <1>3 DEF expire_at_instant
  <2>3. /\ DeadlineUnit(cmd) = IF cmd.op = "ExpireAt" THEN Sec ELSE Ms
        /\ AskedInstant(cmd) = DeadlineUnit(cmd) * cmd.deadline
    BY <1>1, <1>3 DEF AskedInstant, DeadlineUnit
  <2> QED
    BY <2>1, <2>2, <2>3, InstantOfUnixTime
<1>4. CASE cmd \in SetCommand
  <2>1. cmd.expiry # None /\ cmd.expiry[1] \in {"ExAt", "PxAt"} /\ cmd.expiry \in SetExpiry
    BY <1>1, <1>4 DEF HasAbsoluteDeadline, SetCommand
  <2>2. cmd.expiry[2] \in Nat
    BY <1>2, <2>1 DEF SetExpiry
  <2>3. e = IF cmd.expiry[1] = "ExAt" THEN unix_secs_to_instant(cmd.expiry[2])
                                      ELSE unix_ms_to_instant(cmd.expiry[2])
    BY <1>1, <1>4, <2>1 DEF set_deadline, has_expiry
  <2>4. /\ DeadlineUnit(cmd) = IF cmd.expiry[1] = "ExAt" THEN Sec ELSE Ms
        /\ AskedInstant(cmd) = DeadlineUnit(cmd) * cmd.expiry[2]
    BY <1>4 DEF AskedInstant, DeadlineUnit
  <2> QED
    BY <2>1, <2>2, <2>3, <2>4, InstantOfUnixTime
<1> QED
  BY <1>3, <1>4 DEF HasAbsoluteDeadline

(* An absolute deadline is honoured to its unit, a second or a             *)
(* millisecond, for every resolution of the clock and whatever other       *)
(* connections do between the calls of a SET: no key dies before the Unix  *)
(* time it was given.                                                      *)
THEOREM DeadlinesAreHonoured == Spec => DeadlineHonoured
<1> DEFINE Honoured ==
      \A c \in Clients :
          /\ conn[c].pc # "done" /\ conn'[c].pc = "done"
          /\ HasAbsoluteDeadline(conn'[c].cmd)
          /\ expiry_index' # expiry_index
          => LET cmd == conn'[c].cmd
                 asked == AskedInstant(cmd)
                 e == expiry_index'[cmd.key]
             IN  e # None => asked <= e /\ (e < asked + DeadlineUnit(cmd) \/ e <= now')
<1>1. ASSUME TypeOK, [Next]_vars
      PROVE  Honoured
  <2> SUFFICES ASSUME NEW c \in Clients, conn[c].pc # "done", conn'[c].pc = "done",
                      HasAbsoluteDeadline(conn'[c].cmd), expiry_index' # expiry_index,
                      expiry_index'[conn'[c].cmd.key] # None
               PROVE  LET asked == AskedInstant(conn'[c].cmd)
                          e == expiry_index'[conn'[c].cmd.key]
                      IN  asked <= e /\ (e < asked + DeadlineUnit(conn'[c].cmd) \/ e <= now')
    OBVIOUS
  <2>1. DataTyped /\ now \in Nat /\ conn[c] \in Locals /\ InFlightOK(conn[c])
    BY <1>1, TypeParts DEF RestTyped, ConnTyped
  <2>2. conn'[c].cmd.op \in {"Set", "ExpireAt", "PExpireAt"}
    BY DEF HasAbsoluteDeadline, SetCommand, ExpireAtCommand
  <2>3. SetRead(c) \/ SetWrite(c) \/ SetExpire(c) \/ SMove(c) \/ ExpireAt(c)
    BY <1>1, <2>2, FinishesItself, FinishedBy
  <2>4. ~SetRead(c)
    BY DEF SetRead, store
  <2>5. ~SMove(c)
    <3>1. \A cmd \in SMoveCommand : cmd.op = "SMove"
      BY DEF SMoveCommand
    <3> QED
      BY <1>1, <2>2, <3>1, ReplyLeaves, PanicLeaves DEF SMove
  <2>6. ~SetWrite(c)
    <3>1. SUFFICES ASSUME SetWrite(c) PROVE FALSE
      OBVIOUS
    <3>2. conn[c].cmd \in SetCommand
      BY <2>1, <3>1 DEF SetWrite, Running, InFlightOK
    <3>3. ~Continue(c, [conn[c] EXCEPT !.pc = "set_expire"])
      BY <1>1, <2>1, ContinueLeaves DEF Locals
    <3>4. conn'[c].cmd = conn[c].cmd
          /\ (conn[c].cmd.expiry = None \/ has_expiry(conn[c].cmd, "KeepTtl"))
      BY <1>1, <3>1, <3>3, ReplyLeaves DEF SetWrite
    <3> QED
      BY <3>2, <3>4 DEF HasAbsoluteDeadline, has_expiry, SetCommand, ExpireAtCommand
  <2>7. CASE SetExpire(c)
    <3>1. conn[c].cmd \in SetCommand /\ conn[c].cmd.key \in Keys
      BY <2>1, <2>7 DEF SetExpire, Running, InFlightOK, SetCommand
    <3>2. /\ conn'[c].cmd = conn[c].cmd
          /\ set_ttl(conn[c].cmd.key, set_deadline(conn[c].cmd, conn[c].prev_ttl))
          /\ now' = now
      BY <1>1, <2>7, ReplyLeaves, PanicLeaves DEF SetExpire, store, Elsewhere
    <3>3. expiry_index'[conn[c].cmd.key] = set_deadline(conn[c].cmd, conn[c].prev_ttl)
      BY <2>1, <3>1, <3>2 DEF set_ttl, store, DataTyped
    <3> QED
      BY <2>1, <3>1, <3>2, <3>3, DeadlineOfCommand
  <2>8. CASE ExpireAt(c)
    <3>1. PICK cmd \in ExpireAtCommand :
             /\ \/ delete(cmd.key) /\ Reply(c, cmd, Integer(0))
                \/ set_ttl(cmd.key, expire_at_instant(cmd)) /\ \E r : Reply(c, cmd, r)
                \/ Panic(c, cmd)
             /\ now' = now
      BY <2>8 DEF ExpireAt, Elsewhere
    <3>2. conn'[c].cmd = cmd /\ cmd.key \in Keys /\ ~Panic(c, cmd)
      BY <1>1, <3>1, ReplyLeaves, PanicLeaves DEF ExpireAtCommand
    <3>3. expiry_index'[cmd.key] = expire_at_instant(cmd)
      BY <2>1, <3>1, <3>2 DEF set_ttl, delete, store, DataTyped
    <3> QED
      BY <2>1, <3>1, <3>2, <3>3, DeadlineOfCommand
  <2> QED
    BY <2>3, <2>4, <2>5, <2>6, <2>7, <2>8
<1>2. TypeOK /\ [Next]_vars => [Honoured]_vars
  BY <1>1
<1> QED
  BY <1>2, TypeCorrect, PTL DEF Spec, DeadlineHonoured

-----------------------------------------------------------------------------
(* SMOVE. *)

(* A move puts the member into a set that is live at the last reading of   *)
(* the clock, and takes it out of the source.                              *)
LEMMA MoveDelivers ==
  ASSUME DataTyped, NEW source \in Keys, NEW destination \in Keys, NEW m, NEW at, at[4] \in Nat,
         smove(source, destination, m, at), data'[destination] # None, now' = at[4]
  PROVE  /\ HasMember(destination, m)'
         /\ source # destination => ~HasMember(source, m)'
<1> DEFINE left == inner_get(source, at[3])[2] \ {m}
           data1 == [data EXCEPT ![source] = IF left = {} THEN None ELSE Set(left)]
           index1 == [expiry_index EXCEPT ![source] = IF left = {} THEN None ELSE @]
           absent == \/ data1[destination] = None
                     \/ index1[destination] # None /\ at[4] >= index1[destination]
           moved == IF absent THEN {m} ELSE data1[destination][2] \cup {m}
<1>1. /\ data' = [data1 EXCEPT ![destination] = Set(moved)]
      /\ expiry_index' = [index1 EXCEPT ![destination] = IF absent THEN None ELSE @]
  BY DEF smove
<1>2. /\ data \in [Keys -> StoreValue \cup {None}]
      /\ expiry_index \in [Keys -> Nat \cup {None}]
  BY DEF DataTyped
<1>3. DOMAIN data1 = Keys /\ index1 \in [Keys -> Nat \cup {None}]
  BY <1>2
<1>4. data'[destination] = Set(moved) /\ m \in moved
  BY <1>1, <1>3
<1>5. expiry_index'[destination] # None => at[4] < expiry_index'[destination]
  BY <1>1, <1>3
<1>6. HasMember(destination, m)'
  BY <1>4, <1>5 DEF HasMember, Live, is_set, Set
<1>7. source # destination => data'[source] = IF left = {} THEN None ELSE Set(left)
  BY <1>1, <1>2, <1>3
<1>8. source # destination => ~HasMember(source, m)'
  BY <1>7 DEF HasMember, Live, is_set, Set
<1> QED
  BY <1>6, <1>8

(* SMOVE that replies 1 has delivered, for every pair of keys and every    *)
(* advance of the clock between the four lookups of the call.              *)
THEOREM SMovesDeliver == Spec => SMoveDelivers
<1> DEFINE Delivers ==
      \A c \in Clients :
          /\ conn[c].pc = "idle" /\ conn'[c].pc = "done"
          /\ conn'[c].cmd \in SMoveCommand /\ reply'[c] = Integer(1)
          => Delivered(c)'
<1>1. ASSUME TypeOK, [Next]_vars
      PROVE  Delivers
  <2> SUFFICES ASSUME NEW c \in Clients, conn[c].pc = "idle", conn'[c].pc = "done",
                      conn'[c].cmd \in SMoveCommand, reply'[c] = Integer(1)
               PROVE  Delivered(c)'
    OBVIOUS
  <2>1. DataTyped /\ now \in Nat
    BY <1>1, TypeParts DEF RestTyped
  <2>2. conn'[c].cmd.op = "SMove"
    BY DEF SMoveCommand
  <2>3. SMove(c)
    <3>1. ~(SetRead(c) \/ SetWrite(c) \/ SetExpire(c))
      BY DEF SetRead, SetWrite, SetExpire, Running
    <3>2. ~ExpireAt(c)
      <4>1. \A cmd \in ExpireAtCommand : cmd.op # "SMove"
        BY DEF ExpireAtCommand
      <4> QED
        BY <1>1, <2>2, <4>1, ReplyLeaves, PanicLeaves DEF ExpireAt
    <3> QED
      BY <1>1, <2>2, <3>1, <3>2, FinishesItself, FinishedBy
  <2>4. PICK cmd \in SMoveCommand, at \in Readings :
           /\ now' = at[4]
           /\ \/ /\ smove_moves(cmd.source, cmd.destination, cmd.member, at)
                 /\ ~smove_panics(cmd.source, cmd.destination, cmd.member, at)
                 /\ smove(cmd.source, cmd.destination, cmd.member, at)
                 /\ Reply(c, cmd, Integer(1))
              \/ Panic(c, cmd)
              \/ Reply(c, cmd, Integer(0)) \/ Reply(c, cmd, WRONGTYPE)
    BY <2>3 DEF SMove
  <2>5. Integer(0) # Integer(1) /\ WRONGTYPE # Integer(1)
    BY DEF Integer, WRONGTYPE, SimpleError
  <2>6. /\ smove_moves(cmd.source, cmd.destination, cmd.member, at)
        /\ ~smove_panics(cmd.source, cmd.destination, cmd.member, at)
        /\ smove(cmd.source, cmd.destination, cmd.member, at)
        /\ conn'[c].cmd = cmd
    BY <1>1, <2>4, <2>5, ReplyLeaves, PanicLeaves
  <2>7. cmd.source \in Keys /\ cmd.destination \in Keys /\ cmd.member \in Strings
    BY DEF SMoveCommand
  <2>8. at \in [1..4 -> Nat] /\ at[4] \in Nat /\ at[2] <= at[4]
    BY <2>1, ReadingsTyped
  <2>9. data'[cmd.destination] \in StoreValue
    BY <2>1, <2>6, <2>7, <2>8, SMoveTyped
  <2>10. /\ HasMember(cmd.destination, cmd.member)'
         /\ cmd.source # cmd.destination => ~HasMember(cmd.source, cmd.member)'
    BY <2>1, <2>4, <2>6, <2>7, <2>8, <2>9, NoneAssumption, MoveDelivers
  <2> QED
    BY <2>6, <2>10 DEF Delivered
<1>2. TypeOK /\ [Next]_vars => [Delivers]_vars
  BY <1>1
<1> QED
  BY <1>2, TypeCorrect, PTL DEF Spec, SMoveDelivers

-----------------------------------------------------------------------------
(* Expired values. *)

(* The step gives a value back to a key whose old one had expired. *)
Revives(k) ==
    /\ data[k] # None /\ ~Live(k) /\ data'[k] # None
    /\ data'[k] # data[k] \/ Live(k)'

(* The clock does not go back, and a step moves it by a tick at most. *)
LEMMA ClockAdvances ==
  ASSUME TypeOK, [Next]_vars
  PROVE  now' \in Nat /\ now <= now' /\ now' \in {now, now + 1}
<1>1. now \in Nat
  BY TypeParts DEF RestTyped
<1>2. CASE \E c \in Clients : SMove(c)
  <2>1. PICK at \in Readings : now' = at[4]
    BY <1>2 DEF SMove
  <2>2. at[4] \in {now, now + 1}
    BY DEF Readings
  <2> QED
    BY <1>1, <2>1, <2>2
<1>3. ASSUME NEW c \in Clients, Execute(c), ~SMove(c) PROVE now' = now
  <2>1. Start(c) \/ SetRead(c) \/ SetKeepTtl(c) \/ SetWrite(c) \/ SetExpire(c) => now' = now
    BY DEF Start, Enter, SetRead, SetKeepTtl, SetWrite, SetExpire, Elsewhere
  <2>2. Delete(c) \/ Exists(c) \/ Push(c) \/ TtlGet(c) \/ TtlExists(c) => now' = now
    BY DEF Delete, Exists, Push, TtlGet, TtlExists, Elsewhere
  <2>3. GetDel(c) \/ MSet(c) \/ Pop(c) \/ LSet(c) \/ SAdd(c) \/ SRem(c) \/ SPop(c) => now' = now
    BY DEF GetDel, MSet, Pop, LSet, SAdd, SRem, SPop, Elsewhere
  <2>4. Persist(c) \/ Expire(c) \/ ExpireAt(c) \/ FlushDb(c) \/ Read(c) \/ Stateless(c) => now' = now
    BY DEF Persist, Expire, ExpireAt, FlushDb, Read, Stateless, Elsewhere
  <2> QED
    BY <1>3, <2>1, <2>2, <2>3, <2>4 DEF Execute
<1>4. ASSUME NEW c \in Clients, Respond(c) \/ PoisonedCall(c) \/ Reconnect(c) PROVE now' = now
  BY <1>4 DEF Respond, PoisonedCall, Reconnect, Elsewhere
<1>5. Daemon \/ Tick \/ UNCHANGED vars => now' = now \/ now' = now + 1
  BY DEF Daemon, EvictSample, EvictFilter, EvictDelete, EvictorPanic, Tick, vars
<1>6. now' = now \/ now' = now + 1 \/ \E c \in Clients : SMove(c)
  BY <1>3, <1>4, <1>5 DEF Next, Connection
<1> QED
  BY <1>1, <1>2, <1>6

(* A revived key was invisible to every lookup of the step, and the step   *)
(* has written its value or its deadline.                                  *)
LEMMA RevivedFacts ==
  ASSUME TypeOK, [Next]_vars, NEW k \in Keys, Revives(k)
  PROVE  /\ expiry_index[k] \in Nat
         /\ \A t \in Nat : now <= t => t >= expiry_index[k] /\ inner_get(k, t) = None
         /\ data'[k] # data[k] \/ expiry_index'[k] # expiry_index[k]
         /\ ~UNCHANGED store
<1>1. DataTyped /\ now \in Nat
  BY TypeParts DEF RestTyped
<1>2. expiry_index[k] \in Nat /\ now >= expiry_index[k]
  BY <1>1 DEF Revives, Live, DataTyped
<1>3. \A t \in Nat : now <= t => t >= expiry_index[k] /\ inner_get(k, t) = None
  BY <1>1, <1>2, NoneAssumption DEF inner_get
<1>4. data'[k] # data[k] \/ expiry_index'[k] # expiry_index[k]
  <2>1. SUFFICES ASSUME data'[k] = data[k], expiry_index'[k] = expiry_index[k] PROVE FALSE
    OBVIOUS
  <2>2. Live(k)'
    BY <2>1 DEF Revives
  <2> QED
    BY <1>1, <1>2, <2>1, <2>2, ClockAdvances, NoneAssumption DEF Live
<1> QED
  BY <1>2, <1>3, <1>4 DEF store

(* The calls of the commands that make several. *)
LEMMA LongCallRevives ==
  ASSUME TypeOK, [Next]_vars, NEW c \in Clients, NEW k \in Keys, Revives(k),
         SetWrite(c) \/ SetExpire(c) \/ Delete(c) \/ Push(c)
  PROVE  Rewrites(c, k) \/ ChangesDeadline(c, k)
<1>1. DataTyped /\ now \in Nat /\ conn[c] \in Locals /\ InFlightOK(conn[c])
  BY TypeParts DEF RestTyped, ConnTyped
<1>2. CASE SetWrite(c)
  <2>1. conn[c].pc = "set_write" /\ conn[c].cmd.key \in Keys
    BY <1>1, <1>2 DEF SetWrite, Running, InFlightOK, SetCommand
  <2>2. set(conn[c].cmd.key, Str(conn[c].cmd.value))
    BY <1>2 DEF SetWrite, set_string
  <2>3. k = conn[c].cmd.key
    BY <1>1, <2>1, <2>2, RevivedFacts DEF set, DataTyped
  <2>4. data'[k] = Str(conn[c].cmd.value)
    BY <1>1, <2>2, <2>3 DEF set, DataTyped
  <2> QED
    BY <2>1, <2>4 DEF Rewrites
<1>3. CASE SetExpire(c)
  <2>1. conn[c].pc = "set_expire" /\ conn[c].cmd.key \in Keys
    BY <1>1, <1>3 DEF SetExpire, Running, InFlightOK, SetCommand
  <2>2. \E t : set_ttl(conn[c].cmd.key, t)
    BY <1>3, RevivedFacts DEF SetExpire
  <2>3. k = conn[c].cmd.key
    BY <1>1, <2>1, <2>2, RevivedFacts DEF set_ttl, store, DataTyped
  <2> QED
    BY <2>1, <2>3 DEF ChangesDeadline
<1>4. CASE Delete(c)
  <2>1. PICK j \in Keys : delete(j)
    BY <1>1, <1>4, ElementOfSeq DEF Delete, Running, InFlightOK, DeleteCommand, NonEmpty
  <2>2. data'[k] = None \/ (data'[k] = data[k] /\ expiry_index'[k] = expiry_index[k])
    BY <1>1, <2>1 DEF delete, DataTyped
  <2> QED
    BY <2>2, RevivedFacts DEF Revives
<1>5. CASE Push(c)
  <2> DEFINE cmd == conn[c].cmd
             e == cmd.elements[conn[c].i]
             create == cmd.op \in {"LPush", "RPush"}
             front == cmd.op \in {"LPush", "LPushX"}
  <2>1. conn[c].pc = "push" /\ cmd.key \in Keys /\ e \in Strings
    BY <1>1, <1>5, ElementOfSeq DEF Push, Running, InFlightOK, PushCommand, NonEmpty
  <2>2. push_inner(cmd.key, e, create, front)
    BY <1>5 DEF Push
  <2> HIDE DEF e, create, front
  <2>3. k = cmd.key
    BY <1>1, <2>1, <2>2, RevivedFacts DEF push_inner, store, DataTyped
  <2>4. inner_get(k, now) = None
    BY <1>1, RevivedFacts
  <2>5. data' = [data EXCEPT ![k] = List(<<e>>)]
    BY <2>2, <2>3, <2>4, RevivedFacts DEF push_inner, is_list
  <2>6. data'[k] = List(<<e>>)
    BY <1>1, <2>5 DEF DataTyped
  <2> QED
    BY <2>1, <2>6 DEF Rewrites
<1> QED
  BY <1>2, <1>3, <1>4, <1>5

(* The calls that look a key up before they write to it find no value at   *)
(* an expired key.                                                         *)
LEMMA LookupRevives ==
  ASSUME TypeOK, [Next]_vars, NEW c \in Clients, NEW k \in Keys, Revives(k)
  PROVE  ~GetDel(c) /\ ~Pop(c) /\ ~LSet(c) /\ ~SRem(c) /\ ~SPop(c)
<1>1. DataTyped /\ now \in Nat
  BY TypeParts DEF RestTyped
<1>2. expiry_index[k] \in Nat /\ now >= expiry_index[k] /\ inner_get(k, now) = None
  BY <1>1, RevivedFacts
<1>3. ~GetDel(c)
  <2>1. SUFFICES ASSUME GetDel(c) PROVE FALSE
    OBVIOUS
  <2>2. PICK j \in Keys : get_del(j)
    BY <2>1 DEF GetDel, GetDelCommand
  <2>3. data'[k] = None \/ (data'[k] = data[k] /\ expiry_index'[k] = expiry_index[k])
    BY <1>1, <2>2 DEF get_del, store, DataTyped
  <2> QED
    BY <2>3, RevivedFacts DEF Revives
<1>4. ASSUME NEW j \in Keys, is_list(inner_get(j, now)) \/ is_set(inner_get(j, now)),
             data' # data => \E v : data' = [data EXCEPT ![j] = v],
             expiry_index' # expiry_index => expiry_index' = [expiry_index EXCEPT ![j] = None]
      PROVE  FALSE
  <2>1. j # k
    BY <1>2, <1>4 DEF is_list, is_set
  <2>2. data'[k] = data[k] /\ expiry_index'[k] = expiry_index[k]
    BY <1>1, <1>4, <2>1 DEF DataTyped
  <2> QED
    BY <2>2, RevivedFacts
<1>5. ~Pop(c)
  <2>1. SUFFICES ASSUME Pop(c) PROVE FALSE
    OBVIOUS
  <2>2. PICK j, count, front : j \in Keys /\ pop_inner(j, count, front)
    BY <2>1, RevivedFacts DEF Pop, PopCommand
  <2> QED
    BY <1>4, <2>2, RevivedFacts DEF pop_inner
<1>6. ~LSet(c)
  <2>1. SUFFICES ASSUME LSet(c) PROVE FALSE
    OBVIOUS
  <2>2. PICK j, index, e : j \in Keys /\ lset(j, index, e)
    BY <2>1 DEF LSet, LSetCommand
  <2> QED
    BY <1>4, <2>2, RevivedFacts DEF lset
<1>7. ~SRem(c)
  <2>1. SUFFICES ASSUME SRem(c) PROVE FALSE
    OBVIOUS
  <2>2. PICK j, members : j \in Keys /\ srem(j, members)
    BY <2>1 DEF SRem, SRemCommand
  <2> QED
    BY <1>4, <2>2, RevivedFacts DEF srem
<1>8. ~SPop(c)
  <2>1. SUFFICES ASSUME SPop(c) PROVE FALSE
    OBVIOUS
  <2>2. PICK j, popped :
           j \in Keys /\ is_set(inner_get(j, now)) /\ spop(j, inner_get(j, now)[2], popped)
    BY <2>1, RevivedFacts DEF SPop, SPopCommand
  <2> QED
    BY <1>4, <2>2 DEF spop, delete
<1> QED
  BY <1>3, <1>5, <1>6, <1>7, <1>8

(* MSET, SADD and SMOVE write a value of their own. *)
LEMMA WriteRevives ==
  ASSUME TypeOK, [Next]_vars, NEW c \in Clients, NEW k \in Keys, Revives(k),
         MSet(c) \/ SAdd(c) \/ SMove(c)
  PROVE  Rewrites(c, k)
<1>1. DataTyped /\ now \in Nat
  BY TypeParts DEF RestTyped
<1>2. conn[c].pc = "idle"
  BY DEF MSet, SAdd, SMove, Running
<1>3. CASE MSet(c)
  <2>1. PICK cmd \in MSetCommand : mset(cmd.items) /\ Reply(c, cmd, OK)
    BY <1>3 DEF MSet
  <2> DEFINE items == cmd.items
             i == CHOOSE i \in DOMAIN items : last_pair(items, k, i)
  <2>2. data'[k] # data[k] \/ expiry_index'[k] # expiry_index[k]
    BY RevivedFacts
  <2>3. \E j \in DOMAIN items : last_pair(items, k, j)
    BY <1>1, <2>1, <2>2 DEF mset, DataTyped
  <2>4. i \in DOMAIN items
    BY <2>3
  <2>5. data'[k] = Str(items[i][2])
    BY <2>1, <2>3 DEF mset
  <2>6. conn'[c].pc = "done" /\ conn'[c].cmd = cmd
    BY <2>1, ReplyLeaves
  <2> HIDE DEF i
  <2> QED
    BY <1>2, <2>4, <2>5, <2>6 DEF Rewrites
<1>4. CASE SAdd(c)
  <2>1. PICK cmd \in SAddCommand : sadd(cmd.key, cmd.members) /\ \E r : Reply(c, cmd, r)
    BY <1>4 DEF SAdd
  <2>2. cmd.key \in Keys
    BY DEF SAddCommand
  <2>3. k = cmd.key
    BY <1>1, <2>1, <2>2, RevivedFacts DEF sadd, store, DataTyped
  <2>4. inner_get(k, now) = None
    BY <1>1, RevivedFacts
  <2>5. data'[k] = Set(cmd.members)
    BY <1>1, <2>1, <2>3, <2>4 DEF sadd, is_set, DataTyped
  <2>6. conn'[c].pc = "done" /\ conn'[c].cmd = cmd
    BY <2>1, ReplyLeaves
  <2> QED
    BY <1>2, <2>5, <2>6 DEF Rewrites
<1>5. CASE SMove(c)
  <2>1. PICK cmd \in SMoveCommand, at \in Readings :
           /\ smove_moves(cmd.source, cmd.destination, cmd.member, at)
           /\ smove(cmd.source, cmd.destination, cmd.member, at)
           /\ Reply(c, cmd, Integer(1))
    BY <1>5, RevivedFacts DEF SMove
  <2> DEFINE left == inner_get(cmd.source, at[3])[2] \ {cmd.member}
             data1 == [data EXCEPT ![cmd.source] = IF left = {} THEN None ELSE Set(left)]
             index1 == [expiry_index EXCEPT ![cmd.source] = IF left = {} THEN None ELSE @]
             absent == \/ data1[cmd.destination] = None
                       \/ index1[cmd.destination] # None /\ at[4] >= index1[cmd.destination]
             moved == IF absent THEN {cmd.member}
                                ELSE data1[cmd.destination][2] \cup {cmd.member}
  <2>2. /\ data' = [data1 EXCEPT ![cmd.destination] = Set(moved)]
        /\ expiry_index' = [index1 EXCEPT ![cmd.destination] = IF absent THEN None ELSE @]
    BY <2>1 DEF smove
  <2>3. cmd.source \in Keys /\ cmd.destination \in Keys
    BY DEF SMoveCommand
  <2>4. at[1] \in Nat /\ at[4] \in Nat /\ now <= at[1] /\ now <= at[4]
    BY <1>1, ReadingsTyped
  <2>5. k # cmd.source
    BY <2>1, <2>4, RevivedFacts DEF smove_moves, smove_types_ok, is_set
  <2>6. data1[k] = data[k] /\ index1[k] = expiry_index[k] /\ DOMAIN data1 = Keys /\ DOMAIN index1 = Keys
    BY <1>1, <2>3, <2>5 DEF DataTyped
  <2>7. k = cmd.destination
    BY <2>2, <2>3, <2>6, RevivedFacts
  <2>8. absent
    BY <2>4, <2>6, <2>7, RevivedFacts, NoneAssumption
  <2>9. data'[k] = Set({cmd.member})
    BY <2>2, <2>6, <2>7, <2>8
  <2>10. conn'[c].pc = "done" /\ conn'[c].cmd = cmd
    BY <2>1, ReplyLeaves
  <2> QED
    BY <1>2, <2>9, <2>10 DEF Rewrites
<1> QED
  BY <1>3, <1>4, <1>5

(* PERSIST, EXPIRE and EXPIREAT do not ask whether the key has expired. *)
LEMMA DeadlineRevives ==
  ASSUME TypeOK, [Next]_vars, NEW c \in Clients, NEW k \in Keys, Revives(k),
         Persist(c) \/ Expire(c) \/ ExpireAt(c)
  PROVE  ChangesDeadline(c, k)
<1>1. DataTyped
  BY TypeParts
<1>2. PICK cmd, r, t :
         /\ cmd \in PersistCommand \cup ExpireCommand \cup ExpireAtCommand
         /\ conn[c].pc = "idle" /\ Reply(c, cmd, r)
         /\ persist(cmd.key) \/ set_ttl(cmd.key, t) \/ delete(cmd.key)
  BY RevivedFacts DEF Persist, Expire, ExpireAt, Running
<1>3. cmd.key \in Keys
  BY <1>2 DEF PersistCommand, ExpireCommand, ExpireAtCommand
<1>4. k = cmd.key
  BY <1>1, <1>2, <1>3, RevivedFacts DEF persist, set_ttl, delete, store, DataTyped
<1>5. conn'[c].pc = "done" /\ conn'[c].cmd = cmd
  BY <1>2, ReplyLeaves
<1> QED
  BY <1>2, <1>4, <1>5 DEF ChangesDeadline

(* FLUSHDB and the daemon only remove. *)
LEMMA RemovalRevives ==
  ASSUME TypeOK, [Next]_vars, NEW k \in Keys, Revives(k)
  PROVE  ~Daemon /\ ~Tick /\ ~UNCHANGED vars /\ \A c \in Clients : ~FlushDb(c)
<1>1. \A c \in Clients : ~FlushDb(c)
  <2>1. clear \/ clear_async => data'[k] = None
    BY DEF clear, clear_async
  <2> QED
    BY <2>1 DEF FlushDb, Revives
<1>2. ~EvictDelete
  <2>1. \A ks : delete_bulk(ks) => \/ data'[k] = None
                                   \/ data'[k] = data[k] /\ expiry_index'[k] = expiry_index[k]
    BY DEF delete_bulk
  <2> QED
    BY <2>1, RevivedFacts DEF EvictDelete, Revives
<1>3. ~EvictSample /\ ~EvictFilter /\ ~EvictorPanic /\ ~Tick /\ ~UNCHANGED vars
  BY RevivedFacts DEF EvictSample, EvictFilter, EvictorPanic, Tick, vars, store
<1> QED
  BY <1>1, <1>2, <1>3 DEF Daemon

(* An expired value is never continued or revived but by the calls that    *)
(* set a deadline blindly: by every action of every connection, for every  *)
(* set of commands and every number of connections.                        *)
THEOREM ExpiredValuesStayDead == Spec => ExpiredStaysDead
<1> DEFINE StaysDead ==
      \A k \in Keys :
          /\ data[k] # None /\ ~Live(k) /\ data'[k] # None
          /\ data'[k] # data[k] \/ Live(k)'
          => \E c \in Clients : Rewrites(c, k) \/ ChangesDeadline(c, k)
<1>1. ASSUME TypeOK, [Next]_vars
      PROVE  StaysDead
  <2> SUFFICES ASSUME NEW k \in Keys, Revives(k)
               PROVE  \E c \in Clients : Rewrites(c, k) \/ ChangesDeadline(c, k)
    BY DEF Revives
  <2>1. PICK c \in Clients : Connection(c)
    BY <1>1, RemovalRevives DEF Next
  <2>2. ~(Respond(c) \/ Reconnect(c) \/ PoisonedCall(c))
    BY <1>1, RevivedFacts DEF Respond, Reconnect, PoisonedCall
  <2>3. ~(\/ Start(c) \/ SetRead(c) \/ SetKeepTtl(c) \/ Exists(c) \/ TtlGet(c) \/ TtlExists(c)
          \/ Read(c) \/ Stateless(c))
    BY <1>1, RevivedFacts DEF Start, Enter, SetRead, SetKeepTtl, Exists, TtlGet, TtlExists, Read,
                              Stateless
  <2> QED
    BY <1>1, <2>1, <2>2, <2>3, LongCallRevives, LookupRevives, WriteRevives, DeadlineRevives,
       RemovalRevives DEF Connection, Execute
<1>2. TypeOK /\ [Next]_vars => [StaysDead]_vars
  BY <1>1
<1> QED
  BY <1>2, TypeCorrect, PTL DEF Spec, ExpiredStaysDead
=============================================================================
