--------------------------- MODULE PatternsProofs ---------------------------
(***************************************************************************)
(* The matcher of KEYS finds what a pattern covers.                        *)
(***************************************************************************)
EXTENDS Inputs, Iteration, SequenceTheorems

-----------------------------------------------------------------------------
(***************************************************************************)
(* Slices.                                                                 *)
(***************************************************************************)
(* What is left of a sequence from a position on. *)
LEMMA FromProperties ==
  ASSUME NEW s \in Seq(Byte), NEW i \in 1..(Len(s) + 1)
  PROVE  /\ from(s, i) \in Seq(Byte) /\ Len(from(s, i)) = Len(s) - i + 1
         /\ \A k \in 1..(Len(s) - i + 1) : from(s, i)[k] = s[i + k - 1]
BY DEF from

(* Slices of slices. *)
LEMMA FromFrom ==
  ASSUME NEW s \in Seq(Byte), NEW i \in 1..(Len(s) + 1), NEW j \in 1..(Len(s) - i + 2)
  PROVE  from(from(s, i), j) = from(s, i + j - 1)
<1> DEFINE a == from(s, i)
           b == from(a, j)
           c == from(s, i + j - 1)
<1>1. Len(s) \in Nat /\ i + j - 1 \in 1..(Len(s) + 1) /\ i \in Int /\ j \in Int
  OBVIOUS
<1>2. a \in Seq(Byte) /\ Len(a) = Len(s) - i + 1 /\ \A k \in 1..(Len(s) - i + 1) : a[k] = s[i + k - 1]
  BY FromProperties
<1>3. /\ c \in Seq(Byte) /\ Len(c) = Len(s) - (i + j - 1) + 1
      /\ \A k \in 1..(Len(s) - (i + j - 1) + 1) : c[k] = s[(i + j - 1) + k - 1]
  BY <1>1, FromProperties
<1> HIDE DEF a, c
<1>4. j \in 1..(Len(a) + 1)
  BY <1>1, <1>2
<1>5. b \in Seq(Byte) /\ Len(b) = Len(a) - j + 1 /\ \A k \in 1..(Len(a) - j + 1) : b[k] = a[j + k - 1]
  BY <1>2, <1>4, FromProperties
<1> HIDE DEF b
<1>6. Len(b) = Len(c)
  BY <1>1, <1>2, <1>3, <1>5
<1>7. ASSUME NEW k \in 1..Len(b) PROVE b[k] = c[k]
  <2>1. /\ k \in 1..(Len(a) - j + 1) /\ j + k - 1 \in 1..(Len(s) - i + 1)
        /\ i + (j + k - 1) - 1 = (i + j - 1) + k - 1 /\ k \in 1..(Len(s) - (i + j - 1) + 1)
    BY <1>1, <1>2, <1>5
  <2> QED
    BY <1>2, <1>3, <1>5, <2>1
<1>8. b = c
  BY <1>3, <1>5, <1>6, <1>7, SeqEqual
<1> QED
  BY <1>8 DEF a, b, c

(* All of a sequence, all but its first element and nothing of it. *)
LEMMA FromEnds ==
  ASSUME NEW s \in Seq(Byte)
  PROVE  from(s, 1) = s /\ (s # <<>> => from(s, 2) = Tail(s)) /\ from(s, Len(s) + 1) = <<>>
<1>1. from(s, 1) = s
  BY SubSeqFull DEF from
<1>2. from(s, Len(s) + 1) = <<>>
  BY SubSeqEmpty DEF from
<1>3. ASSUME s # <<>> PROVE from(s, 2) = Tail(s)
  <2>1. Len(s) \in Nat /\ Len(s) > 0 /\ 2 \in 1..(Len(s) + 1)
    BY <1>3
  <2> DEFINE a == from(s, 2)
             b == Tail(s)
  <2>2. a \in Seq(Byte) /\ Len(a) = Len(s) - 1 /\ \A k \in 1..(Len(s) - 1) : a[k] = s[k + 1]
    <3>1. /\ a \in Seq(Byte) /\ Len(a) = Len(s) - 2 + 1
          /\ \A k \in 1..(Len(s) - 2 + 1) : a[k] = s[2 + k - 1]
      BY <2>1, FromProperties
    <3> HIDE DEF a
    <3> QED
      BY <2>1, <3>1
  <2>3. b \in Seq(Byte) /\ Len(b) = Len(s) - 1 /\ \A k \in 1..(Len(s) - 1) : b[k] = s[k + 1]
    BY <1>3, HeadTailProperties
  <2> HIDE DEF a, b
  <2>4. a = b
    BY <2>2, <2>3, SeqEqual
  <2> QED
    BY <2>4 DEF a, b
<1> QED
  BY <1>1, <1>2, <1>3

-----------------------------------------------------------------------------
(***************************************************************************)
(* The elements of a pattern.                                              *)
(***************************************************************************)
Walks == [matched : BOOLEAN, pattern : Seq(Byte)]

(* Where a turn of the walk through a class leaves the pattern. *)
TurnLeaves(p) ==
    CASE Len(p) > 1 /\ p[1] = Backslash -> from(p, 3)
      [] p = <<>> \/ p[1] = Close -> p
      [] Len(p) > 2 /\ p[1] \notin {Backslash, Close} /\ p[2] = Dash -> from(p, 4)
      [] OTHER -> from(p, 2)

(* A turn leaves a pattern that is no longer and that no byte decides. *)
LEMMA ClassTurn ==
  ASSUME NEW at \in Walks, NEW byte
  PROVE  /\ class_turn(byte, at) \in Walks
         /\ class_turn(byte, at).pattern = TurnLeaves(at.pattern)
         /\ Len(TurnLeaves(at.pattern)) <= Len(at.pattern)
<1> DEFINE p == at.pattern
           t == class_turn(byte, at)
<1>1. p \in Seq(Byte) /\ Len(p) \in Nat /\ at.matched \in BOOLEAN /\ (p # <<>> => Len(p) > 0)
  BY DEF Walks
<1>2. ASSUME NEW n \in {1, 2, 3}, Len(p) >= n
      PROVE  from(p, n + 1) \in Seq(Byte) /\ Len(from(p, n + 1)) <= Len(p)
  <2>1. n + 1 \in 1..(Len(p) + 1)
    BY <1>1, <1>2
  <2> QED
    BY <1>1, <1>2, <2>1, FromProperties
<1> DEFINE past(n, hit) == [matched |-> at.matched \/ hit, pattern |-> from(p, n + 1)]
<1>3. ASSUME NEW n \in {1, 2, 3}, Len(p) >= n, NEW hit \in BOOLEAN
      PROVE  past(n, hit) \in Walks /\ past(n, hit).pattern = from(p, n + 1)
  BY <1>1, <1>2, <1>3 DEF Walks
<1>4. CASE Len(p) > 1 /\ p[1] = Backslash
  <2>1. t = past(2, p[2] = byte) /\ TurnLeaves(p) = from(p, 2 + 1)
    BY <1>4 DEF class_turn, TurnLeaves, Close, Backslash
  <2>2. 2 \in {1, 2, 3} /\ Len(p) >= 2 /\ (p[2] = byte) \in BOOLEAN
    BY <1>1, <1>4
  <2>3. past(2, p[2] = byte) \in Walks /\ past(2, p[2] = byte).pattern = from(p, 2 + 1)
    BY <1>3, <2>2
  <2>4. Len(from(p, 2 + 1)) <= Len(p)
    BY <1>2, <2>2
  <2> HIDE DEF past, t
  <2> QED
    BY <2>1, <2>3, <2>4 DEF t
<1>5. CASE p = <<>> \/ p[1] = Close
  <2>1. t = at /\ TurnLeaves(p) = p
    BY <1>5 DEF class_turn, TurnLeaves, Close, Backslash
  <2> QED
    BY <1>1, <2>1
<1>6. CASE /\ ~(Len(p) > 1 /\ p[1] = Backslash) /\ ~(p = <<>> \/ p[1] = Close)
           /\ Len(p) > 2 /\ p[1] \notin {Backslash, Close} /\ p[2] = Dash
  <2>1. t = past(3, in_range(p[1], p[3], byte)) /\ TurnLeaves(p) = from(p, 3 + 1)
    BY <1>6 DEF class_turn, TurnLeaves, Close, Backslash
  <2> DEFINE hit == in_range(p[1], p[3], byte)
  <2>2. 3 \in {1, 2, 3} /\ Len(p) >= 3 /\ hit \in BOOLEAN
    BY <1>1, <1>6 DEF in_range
  <2> HIDE DEF hit
  <2>3. past(3, hit) \in Walks /\ past(3, hit).pattern = from(p, 3 + 1)
    BY <1>3, <2>2
  <2>4. Len(from(p, 3 + 1)) <= Len(p)
    BY <1>2, <2>2
  <2> HIDE DEF past, t
  <2> QED
    BY <2>1, <2>3, <2>4 DEF t, hit
<1>7. CASE /\ ~(Len(p) > 1 /\ p[1] = Backslash) /\ ~(p = <<>> \/ p[1] = Close)
           /\ ~(Len(p) > 2 /\ p[1] \notin {Backslash, Close} /\ p[2] = Dash)
  <2>1. t = past(1, p[1] = byte) /\ TurnLeaves(p) = from(p, 1 + 1)
    BY <1>7 DEF class_turn, TurnLeaves
  <2>2. 1 \in {1, 2, 3} /\ Len(p) >= 1 /\ (p[1] = byte) \in BOOLEAN
    BY <1>1, <1>7
  <2>3. past(1, p[1] = byte) \in Walks /\ past(1, p[1] = byte).pattern = from(p, 1 + 1)
    BY <1>3, <2>2
  <2>4. Len(from(p, 1 + 1)) <= Len(p)
    BY <1>2, <2>2
  <2> HIDE DEF past, t
  <2> QED
    BY <2>1, <2>3, <2>4 DEF t
<1> QED
  BY <1>4, <1>5, <1>6, <1>7

(* The turns of a walk. *)
WalkOf(w, p, byte, N) ==
    /\ w \in [0..N -> Walks] /\ w[0] = [matched |-> FALSE, pattern |-> p]
    /\ \A n \in 1..N : w[n] = class_turn(byte, w[n - 1])

(* A walk through a class goes turn by turn. *)
LEMMA WalkExists ==
  ASSUME NEW p \in Seq(Byte), NEW byte
  PROVE  \E w : WalkOf(w, p, byte, Len(p)) /\ walk_class(p, byte) = w[Len(p)]
<1> DEFINE N == Len(p)
           start == [matched |-> FALSE, pattern |-> p]
           F == [c \in Nat \X Walks |-> class_turn(byte, c[2])]
           Eq(f) == f = [n \in 0..N |-> IF n = 0 THEN start ELSE class_turn(byte, f[n - 1])]
<1>1. N \in Nat /\ start \in Walks
  BY DEF Walks
<1>2. F \in [Nat \X Walks -> Walks]
  BY ClassTurn
<1>3. \A n \in Nat : \A v \in Walks : F[<<n, v>>] = class_turn(byte, v)
  OBVIOUS
<1> HIDE DEF F
<1>4. PICK g : Iterates(g, start, F, Walks, N)
  BY <1>1, <1>2, IterationExists
<1>5. WalkOf(g, p, byte, N)
  <2>1. g \in [0..N -> Walks] /\ g[0] = start
    BY <1>4 DEF Iterates
  <2>2. ASSUME NEW n \in 1..N PROVE g[n] = class_turn(byte, g[n - 1])
    <3>1. n \in Nat /\ n - 1 \in 0..N
      BY <1>1
    <3> QED
      BY <1>3, <1>4, <2>1, <3>1 DEF Iterates
  <2> QED
    BY <2>1, <2>2 DEF WalkOf
<1>6. Eq(g)
  <2>1. g = [n \in 0..N |-> g[n]]
    BY <1>5 DEF WalkOf
  <2>2. ASSUME NEW n \in 0..N PROVE g[n] = IF n = 0 THEN start ELSE class_turn(byte, g[n - 1])
    <3>1. n = 0 \/ n \in 1..N
      BY <1>1
    <3> QED
      BY <1>5, <3>1 DEF WalkOf
  <2> QED
    BY <2>1, <2>2
<1> DEFINE h == CHOOSE f : Eq(f)
<1>7. walk_class(p, byte) = h[N]
  BY DEF walk_class
<1>8. Eq(h)
  BY <1>6
<1> HIDE DEF h
<1>9. h[0] = start /\ \A n \in 1..N : h[n] = class_turn(byte, h[n - 1])
  <2>1. ASSUME NEW n \in 0..N PROVE h[n] = IF n = 0 THEN start ELSE class_turn(byte, h[n - 1])
    BY <1>8
  <2>2. 0 \in 0..N /\ \A n \in 1..N : n \in 0..N /\ n # 0
    BY <1>1
  <2> HIDE DEF start
  <2> QED
    BY <2>1, <2>2
<1>10. ASSUME NEW n \in 0..N PROVE h[n] \in Walks
  <2> DEFINE S == {m \in Nat : m <= N => h[m] \in Walks}
  <2>1. 0 \in S
    BY <1>1, <1>9
  <2>2. ASSUME NEW m \in S PROVE m + 1 \in S
    <3>1. m \in Nat /\ m + 1 \in Nat /\ (m + 1) - 1 = m
      OBVIOUS
    <3>2. CASE m + 1 <= N
      <4>1. m + 1 \in 1..N /\ h[m] \in Walks
        BY <1>1, <3>1, <3>2
      <4>2. h[m + 1] = class_turn(byte, h[m])
        BY <1>9, <3>1, <4>1
      <4>3. h[m + 1] \in Walks
        BY <4>1, <4>2, ClassTurn
      <4> QED
        BY <3>1, <4>3
    <3> QED
      BY <3>1, <3>2
  <2> HIDE DEF S
  <2>3. S = Nat
    <3>1. S \in SUBSET Nat
      BY DEF S
    <3> QED
      BY <2>1, <2>2, <3>1, NumbersByInduction
  <2> QED
    BY <2>3 DEF S
<1>11. h \in [0..N -> Walks]
  <2>1. h = [n \in 0..N |-> h[n]]
    BY <1>8
  <2> QED
    BY <1>10, <2>1
<1>12. WalkOf(h, p, byte, N)
  BY <1>9, <1>11 DEF WalkOf
<1> QED
  BY <1>7, <1>12

(* A walk ends with a pattern that is no longer and that no byte decides. *)
LEMMA WalkClass ==
  ASSUME NEW p \in Seq(Byte), NEW b1, NEW b2
  PROVE  /\ walk_class(p, b1) \in Walks /\ Len(walk_class(p, b1).pattern) <= Len(p)
         /\ walk_class(p, b1).pattern = walk_class(p, b2).pattern
<1> DEFINE N == Len(p)
<1>1. N \in Nat /\ N \in 0..N
  OBVIOUS
<1>2. PICK u : WalkOf(u, p, b1, N) /\ walk_class(p, b1) = u[N]
  BY WalkExists
<1>3. PICK v : WalkOf(v, p, b2, N) /\ walk_class(p, b2) = v[N]
  BY WalkExists
<1>4. \A n \in 0..N : u[n] \in Walks /\ v[n] \in Walks
  BY <1>2, <1>3 DEF WalkOf
<1> DEFINE S == {n \in Nat : n <= N => u[n].pattern = v[n].pattern /\ Len(u[n].pattern) <= N}
<1>5. 0 \in S
  <2>1. u[0] = [matched |-> FALSE, pattern |-> p] /\ v[0] = [matched |-> FALSE, pattern |-> p]
    BY <1>2, <1>3 DEF WalkOf
  <2>2. u[0].pattern = p /\ v[0].pattern = p
    BY <2>1
  <2> QED
    BY <1>1, <2>2
<1>6. ASSUME NEW n \in S PROVE n + 1 \in S
  <2>1. n \in Nat /\ n + 1 \in Nat /\ (n + 1) - 1 = n
    OBVIOUS
  <2>2. CASE n + 1 <= N
    <3>1. n + 1 \in 1..N /\ n \in 0..N
      BY <1>1, <2>1, <2>2
    <3>2. u[n].pattern = v[n].pattern /\ Len(u[n].pattern) <= N
      BY <3>1
    <3>3. u[n + 1] = class_turn(b1, u[n]) /\ v[n + 1] = class_turn(b2, v[n])
      BY <1>2, <1>3, <2>1, <3>1 DEF WalkOf
    <3>4. u[n + 1].pattern = TurnLeaves(u[n].pattern) /\ Len(TurnLeaves(u[n].pattern)) <= Len(u[n].pattern)
      BY <1>4, <3>1, <3>3, ClassTurn
    <3>5. v[n + 1].pattern = TurnLeaves(v[n].pattern)
      BY <1>4, <3>1, <3>3, ClassTurn
    <3>6. Len(u[n].pattern) \in Nat /\ Len(u[n + 1].pattern) \in Nat
      <4>1. n + 1 \in 0..N
        BY <3>1
      <4>2. u[n] \in Walks /\ u[n + 1] \in Walks
        BY <1>4, <3>1, <4>1
      <4> QED
        BY <4>2 DEF Walks
    <3>7. Len(u[n + 1].pattern) <= N
      BY <1>1, <3>2, <3>4, <3>6
    <3> QED
      BY <2>1, <3>2, <3>4, <3>5, <3>7
  <2> QED
    BY <2>1, <2>2
<1> HIDE DEF S
<1>7. S = Nat
  <2>1. S \in SUBSET Nat
    BY DEF S
  <2> QED
    BY <1>5, <1>6, <2>1, NumbersByInduction
<1>8. u[N].pattern = v[N].pattern /\ Len(u[N].pattern) <= N
  BY <1>1, <1>7 DEF S
<1> QED
  BY <1>1, <1>2, <1>3, <1>4, <1>8

(* What one byte and another are told of the element. *)
LEMMA SameEnd ==
  ASSUME NEW hit \in BOOLEAN, NEW other, NEW q \in Seq(Byte),
         NEW r, r = [matched |-> hit, pattern |-> q], NEW r0, r0 = [matched |-> other, pattern |-> q]
  PROVE  r \in Walks /\ r.pattern = q /\ r.pattern = r0.pattern
BY DEF Walks

(* An element of a pattern accepts a byte or not, and ends where no byte   *)
(* decides.                                                                *)
LEMMA MatchOne ==
  ASSUME NEW p \in Seq(Byte), p # <<>>, NEW byte
  PROVE  /\ match_one(p, byte) \in Walks /\ Len(match_one(p, byte).pattern) <= Len(p)
         /\ match_one(p, byte).pattern = match_one(p, 0).pattern
<1>1. Len(p) \in Nat /\ Len(p) > 0
  OBVIOUS
<1>2. CASE p[1] = AnyByte
  <2>1. \A b : match_one(p, b) = [matched |-> TRUE, pattern |-> p]
    BY <1>2 DEF match_one, AnyByte, Open, Backslash
  <2>2. match_one(p, byte) \in Walks /\ match_one(p, byte).pattern = p
        /\ match_one(p, byte).pattern = match_one(p, 0).pattern
    BY <2>1, SameEnd
  <2> QED
    BY <1>1, <2>2
<1>3. CASE p[1] = Open
  <2> DEFINE negated == Len(p) > 1 /\ p[2] = Caret
             q == from(p, IF negated THEN 3 ELSE 2)
  <2>1. q \in Seq(Byte) /\ Len(q) <= Len(p)
    <3>1. CASE negated
      <4>1. 3 \in 1..(Len(p) + 1)
        BY <1>1, <3>1
      <4>2. q = from(p, 3)
        BY <3>1
      <4> QED
        BY <1>1, <4>1, <4>2, FromProperties
    <3>2. CASE ~negated
      <4>1. 2 \in 1..(Len(p) + 1)
        BY <1>1
      <4>2. q = from(p, 2)
        BY <3>2
      <4> QED
        BY <1>1, <4>1, <4>2, FromProperties
    <3> QED
      BY <3>1, <3>2
  <2>2. \A b : match_one(p, b) = [matched |-> walk_class(q, b).matched # negated,
                                  pattern |-> walk_class(q, b).pattern]
    BY <1>3 DEF match_one, AnyByte, Open, Backslash
  <2> HIDE DEF negated, q
  <2>3. \A b : walk_class(q, b) \in Walks /\ Len(walk_class(q, b).pattern) <= Len(q)
    BY <2>1, WalkClass
  <2>4. walk_class(q, byte).pattern = walk_class(q, 0).pattern
    BY <2>1, WalkClass
  <2>5. walk_class(q, byte).pattern \in Seq(Byte)
    BY <2>3 DEF Walks
  <2>6. Len(walk_class(q, byte).pattern) <= Len(p)
    <3>1. Len(walk_class(q, byte).pattern) \in Nat /\ Len(q) \in Nat
      BY <2>1, <2>5
    <3> QED
      BY <1>1, <2>1, <2>3, <3>1
  <2>7. match_one(p, byte).pattern = walk_class(q, byte).pattern /\ match_one(p, 0).pattern = walk_class(q, 0).pattern
    BY <2>2
  <2>8. match_one(p, byte) \in Walks
    <3> DEFINE hit == walk_class(q, byte).matched # negated
    <3>1. match_one(p, byte) = [matched |-> hit, pattern |-> walk_class(q, byte).pattern] /\ hit \in BOOLEAN
      BY <2>2
    <3> HIDE DEF hit
    <3> DEFINE e == walk_class(q, byte).pattern
               r == match_one(p, byte)
    <3>2. r = [matched |-> hit, pattern |-> e] /\ e \in Seq(Byte)
      BY <2>5, <3>1
    <3> HIDE DEF e, r
    <3>3. r \in Walks
      BY <3>1, <3>2, SameEnd
    <3> QED
      BY <3>3 DEF r
  <2> QED
    BY <2>4, <2>6, <2>7, <2>8
<1>4. CASE p[1] = Backslash /\ Len(p) > 1
  <2>1. \A b : match_one(p, b) = [matched |-> p[2] = b, pattern |-> from(p, 2)]
    BY <1>4 DEF match_one, AnyByte, Open, Backslash
  <2>2. 2 \in 1..(Len(p) + 1)
    BY <1>1
  <2>3. from(p, 2) \in Seq(Byte) /\ Len(from(p, 2)) <= Len(p)
    BY <1>1, <2>2, FromProperties
  <2> DEFINE hit(b) == p[2] = b
             q == from(p, 2)
  <2>4. \A b : match_one(p, b) = [matched |-> hit(b), pattern |-> q] /\ hit(b) \in BOOLEAN
    BY <2>1
  <2>5. q \in Seq(Byte) /\ Len(q) <= Len(p)
    BY <2>3
  <2> HIDE DEF hit, q
  <2>6. match_one(p, byte) \in Walks /\ match_one(p, byte).pattern = q
        /\ match_one(p, byte).pattern = match_one(p, 0).pattern
    <3> DEFINE r == match_one(p, byte)
               r0 == match_one(p, 0)
    <3>1. /\ r = [matched |-> hit(byte), pattern |-> q] /\ hit(byte) \in BOOLEAN
          /\ r0 = [matched |-> hit(0), pattern |-> q]
      BY <2>4
    <3> HIDE DEF r, r0
    <3>2. r \in Walks /\ r.pattern = q /\ r.pattern = r0.pattern
      BY <2>5, <3>1, SameEnd
    <3> QED
      BY <3>2 DEF r, r0
  <2> QED
    BY <2>5, <2>6
<1>5. CASE p[1] # AnyByte /\ p[1] # Open /\ ~(p[1] = Backslash /\ Len(p) > 1)
  <2>1. \A b : match_one(p, b) = [matched |-> p[1] = b, pattern |-> p]
    BY <1>5 DEF match_one
  <2> DEFINE hit(b) == p[1] = b
  <2>2. \A b : match_one(p, b) = [matched |-> hit(b), pattern |-> p] /\ hit(b) \in BOOLEAN
    BY <2>1
  <2> HIDE DEF hit
  <2>3. match_one(p, byte) \in Walks /\ match_one(p, byte).pattern = p
        /\ match_one(p, byte).pattern = match_one(p, 0).pattern
    BY <2>2, SameEnd
  <2> QED
    BY <1>1, <2>3
<1> QED
  BY <1>2, <1>3, <1>4, <1>5

(* What is behind an element is shorter. *)
LEMMA BehindProperties ==
  ASSUME NEW p \in Seq(Byte), p # <<>>, NEW byte
  PROVE  /\ step_over(match_one(p, byte).pattern) = behind(p)
         /\ behind(p) \in Seq(Byte) /\ Len(behind(p)) <= Len(p) - 1
         /\ match_one(p, byte).matched \in BOOLEAN
<1> DEFINE q == match_one(p, 0).pattern
<1>1. q \in Seq(Byte) /\ Len(q) <= Len(p) /\ Len(q) \in Nat /\ Len(p) \in Nat /\ Len(p) > 0
  BY MatchOne DEF Walks
<1>2. match_one(p, byte).pattern = q /\ match_one(p, byte).matched \in BOOLEAN
  BY MatchOne DEF Walks
<1>3. behind(p) = step_over(q)
  BY DEF behind
<1> HIDE DEF q
<1>4. CASE q = <<>>
  BY <1>1, <1>2, <1>3, <1>4 DEF step_over
<1>5. CASE q # <<>>
  <2>1. Tail(q) \in Seq(Byte) /\ Len(Tail(q)) = Len(q) - 1
    BY <1>1, <1>5, HeadTailProperties
  <2> QED
    BY <1>1, <1>2, <1>3, <1>5, <2>1 DEF step_over
<1> QED
  BY <1>4, <1>5

(* A run of stars is all that is dropped. *)
LEMMA DropStars ==
  ASSUME NEW p \in Seq(Byte)
  PROVE  \E k \in 0..Len(p) :
            /\ drop_stars(p) = from(p, k + 1) /\ \A i \in 1..k : p[i] = Star
            /\ k < Len(p) => p[k + 1] # Star
<1> DEFINE others == {i \in DOMAIN p : p[i] # Star}
<1>1. Len(p) \in Nat /\ DOMAIN p = 1..Len(p) /\ others \in SUBSET Nat
  OBVIOUS
<1>2. CASE others = {}
  <2>1. drop_stars(p) = <<>> /\ from(p, Len(p) + 1) = <<>>
    BY <1>2, FromEnds DEF drop_stars
  <2> QED
    BY <1>1, <1>2, <2>1
<1>3. CASE others # {}
  <2> DEFINE m == CHOOSE i \in others : \A j \in others : i <= j
  <2>1. drop_stars(p) = from(p, m)
    BY <1>3 DEF drop_stars
  <2>2. \E i \in others : \A j \in others : i <= j
    BY <1>1, <1>3, LeastExists
  <2>3. m \in others /\ \A j \in others : m <= j
    BY <2>2
  <2> HIDE DEF m
  <2>4. m \in 1..Len(p) /\ p[m] # Star /\ m \in Nat
    BY <1>1, <2>3
  <2> DEFINE k == m - 1
  <2>5. k \in 0..Len(p) /\ k + 1 = m
    BY <1>1, <2>4
  <2>6. ASSUME NEW i \in 1..k PROVE p[i] = Star
    <3>1. i \in 1..Len(p) /\ ~(m <= i)
      BY <1>1, <2>4, <2>5
    <3> QED
      BY <1>1, <2>3, <3>1
  <2> HIDE DEF k
  <2> QED
    BY <2>1, <2>4, <2>5, <2>6
<1> QED
  BY <1>2, <1>3

-----------------------------------------------------------------------------
(***************************************************************************)
(* What a pattern covers.                                                  *)
(***************************************************************************)
Cases(n) == Patterns(n) \X Seq(Byte) \X Nat

(* The equation of Covering. *)
CoveringOf(f, n) ==
    f = [k \in 0..n |-> {c \in Cases(k) : covered_by(IF k = 0 THEN {} ELSE f[k - 1], c[1], c[2], c[3])}]

(* It has a solution. *)
LEMMA CoveringExists ==
  ASSUME NEW N \in Nat
  PROVE  \E f : CoveringOf(f, N)
<1> DEFINE Step(k, before) == {c \in Cases(k) : covered_by(before, c[1], c[2], c[3])}
           Upto(n, f) == f = [k \in 0..n |-> Step(k, IF k = 0 THEN {} ELSE f[k - 1])]
           S == {n \in Nat : \E f : Upto(n, f)}
<1> HIDE DEF Step
<1>1. 0 \in S
  <2> DEFINE f == [k \in 0..0 |-> Step(0, {})]
  <2>1. Upto(0, f)
    OBVIOUS
  <2> QED
    BY <2>1
<1>2. ASSUME NEW n \in S PROVE n + 1 \in S
  <2>1. n \in Nat /\ n + 1 \in Nat
    OBVIOUS
  <2>2. PICK f : Upto(n, f)
    OBVIOUS
  <2> DEFINE g == [k \in 0..(n + 1) |-> IF k = n + 1 THEN Step(n + 1, f[n]) ELSE f[k]]
  <2>3. \A k \in 0..n : g[k] = f[k]
    BY <2>1
  <2>4. g[n + 1] = Step(n + 1, f[n])
    BY <2>1
  <2>5. g = [k \in 0..(n + 1) |-> g[k]]
    OBVIOUS
  <2> HIDE DEF g
  <2>6. ASSUME NEW k \in 0..(n + 1) PROVE g[k] = Step(k, IF k = 0 THEN {} ELSE g[k - 1])
    <3>1. CASE k = n + 1
      <4>1. k # 0 /\ k - 1 = n /\ n \in 0..n
        BY <2>1, <3>1
      <4> QED
        BY <2>3, <2>4, <3>1, <4>1
    <3>2. CASE k \in 0..n
      <4>1. k # 0 => k - 1 \in 0..n
        BY <2>1, <3>2
      <4>2. f[k] = Step(k, IF k = 0 THEN {} ELSE f[k - 1])
        BY <2>2, <3>2
      <4>3. (IF k = 0 THEN {} ELSE f[k - 1]) = (IF k = 0 THEN {} ELSE g[k - 1])
        BY <2>3, <4>1
      <4> QED
        BY <2>3, <3>2, <4>2, <4>3
    <3> QED
      BY <2>1, <3>1, <3>2
  <2>7. Upto(n + 1, g)
    BY <2>5, <2>6
  <2> HIDE DEF Upto
  <2> QED
    BY <2>1, <2>7
<1> HIDE DEF S
<1>3. S = Nat
  <2>1. S \in SUBSET Nat
    BY DEF S
  <2> QED
    BY <1>1, <1>2, <2>1, NumbersByInduction
<1> QED
  BY <1>3 DEF S, CoveringOf, Step

(* What the patterns of at most n bytes cover. *)
LEMMA CoveringSolved ==
  ASSUME NEW n \in 0..MaxPattern, NEW p \in Patterns(n), NEW s \in Seq(Byte), NEW d \in Nat
  PROVE  <<p, s, d>> \in Covering[n] <=> covered_by(IF n = 0 THEN {} ELSE Covering[n - 1], p, s, d)
<1>1. Covering = CHOOSE f : CoveringOf(f, MaxPattern)
  BY DEF Covering, CoveringOf, Cases
<1>2. CoveringOf(Covering, MaxPattern)
  BY <1>1, CoveringExists, GlobAssumption
<1> DEFINE before == IF n = 0 THEN {} ELSE Covering[n - 1]
<1>3. Covering[n] = {c \in Cases(n) : covered_by(before, c[1], c[2], c[3])}
  BY <1>2 DEF CoveringOf
<1> HIDE DEF before
<1> DEFINE c == <<p, s, d>>
<1>4. c \in Cases(n) /\ c[1] = p /\ c[2] = s /\ c[3] = d
  BY DEF Cases
<1> HIDE DEF c
<1>5. c \in Covering[n] <=> covered_by(before, c[1], c[2], c[3])
  BY <1>3, <1>4
<1> QED
  BY <1>4, <1>5 DEF c, before

(* Two sets say the same of the patterns of at most n bytes. *)
SameUpTo(A, B, n) ==
    \A q \in Patterns(n) : \A t \in Seq(Byte) : \A d \in Nat : <<q, t, d>> \in A <=> <<q, t, d>> \in B

(* What a pattern covers depends on the shorter patterns only. *)
LEMMA CoveredByShorter ==
  ASSUME NEW n \in Nat, NEW A, NEW B, SameUpTo(A, B, n),
         NEW p \in Patterns(n + 1), NEW s \in Seq(Byte), NEW d \in Nat
  PROVE  covered_by(A, p, s, d) <=> covered_by(B, p, s, d)
<1>1. p \in Seq(Byte) /\ Len(p) \in Nat /\ Len(p) <= n + 1 /\ Len(s) \in Nat
  BY DEF Patterns
<1>2. CASE p = <<>>
  BY <1>2 DEF covered_by
<1>3. CASE p # <<>> /\ p[1] = Star
  <2> DEFINE left == IF Len(p) > 1 /\ p[2] # Star THEN d - 1 ELSE d
  <2>1. \A X : covered_by(X, p, s, d) <=>
            left >= 0 /\ \E i \in 1..(Len(s) + 1) : <<Tail(p), from(s, i), left>> \in X
    BY <1>3 DEF covered_by
  <2>2. left \in Int
    OBVIOUS
  <2> HIDE DEF left
  <2>3. Tail(p) \in Seq(Byte) /\ Len(Tail(p)) = Len(p) - 1
    BY <1>1, <1>3, HeadTailProperties
  <2>4. Tail(p) \in Patterns(n)
    BY <1>1, <2>3 DEF Patterns
  <2>5. \A i \in 1..(Len(s) + 1) : from(s, i) \in Seq(Byte)
    BY FromProperties
  <2>6. ASSUME left >= 0, NEW i \in 1..(Len(s) + 1)
        PROVE  <<Tail(p), from(s, i), left>> \in A <=> <<Tail(p), from(s, i), left>> \in B
    <3>1. left \in Nat
      BY <2>2, <2>6
    <3> QED
      BY <2>4, <2>5, <3>1 DEF SameUpTo
  <2> QED
    BY <2>1, <2>6
<1>4. CASE p # <<>> /\ p[1] # Star
  <2>1. \A X : covered_by(X, p, s, d) <=>
            s # <<>> /\ match_one(p, s[1]).matched /\ <<behind(p), Tail(s), d>> \in X
    BY <1>4 DEF covered_by
  <2>2. behind(p) \in Seq(Byte) /\ Len(behind(p)) <= Len(p) - 1
    BY <1>1, <1>4, BehindProperties
  <2>3. behind(p) \in Patterns(n)
    <3>1. Len(behind(p)) \in Nat
      BY <2>2
    <3> QED
      BY <1>1, <2>2, <3>1 DEF Patterns
  <2>4. s # <<>> => Tail(s) \in Seq(Byte)
    BY HeadTailProperties
  <2>5. s # <<>> => (<<behind(p), Tail(s), d>> \in A <=> <<behind(p), Tail(s), d>> \in B)
    BY <2>3, <2>4 DEF SameUpTo
  <2> QED
    BY <2>1, <2>5
<1> QED
  BY <1>2, <1>3, <1>4

(* What a pattern covers does not depend on how many bytes it could have   *)
(* had.                                                                    *)
LEMMA CoveringAgrees ==
  ASSUME NEW n \in 0..MaxPattern, n + 1 <= MaxPattern
  PROVE  SameUpTo(Covering[n], Covering[n + 1], n)
<1> DEFINE S == {m \in Nat : m + 1 <= MaxPattern => SameUpTo(Covering[m], Covering[m + 1], m)}
<1>1. MaxPattern \in Nat
  BY GlobAssumption
<1>2. 0 \in S
  <2>1. ASSUME 0 + 1 <= MaxPattern, NEW q \in Patterns(0), NEW t \in Seq(Byte), NEW d \in Nat
        PROVE  <<q, t, d>> \in Covering[0] <=> <<q, t, d>> \in Covering[0 + 1]
    <3>1. q = <<>>
      BY DEF Patterns
    <3>2. 0 \in 0..MaxPattern /\ 0 + 1 \in 0..MaxPattern /\ q \in Patterns(0 + 1)
      BY <1>1, <2>1, <3>1 DEF Patterns
    <3>3. \A A : covered_by(A, q, t, d) <=> t = <<>>
      BY <3>1 DEF covered_by
    <3>4. <<q, t, d>> \in Covering[0] <=> t = <<>>
      BY <2>1, <3>2, <3>3, CoveringSolved
    <3>5. <<q, t, d>> \in Covering[0 + 1] <=> t = <<>>
      BY <3>2, <3>3, CoveringSolved
    <3> QED
      BY <3>4, <3>5
  <2> QED
    BY <2>1 DEF SameUpTo
<1>3. ASSUME NEW m \in S PROVE m + 1 \in S
  <2>1. m \in Nat /\ m + 1 \in Nat /\ (m + 1) - 1 = m /\ ((m + 1) + 1) - 1 = m + 1
        /\ m + 1 # 0 /\ (m + 1) + 1 # 0
    OBVIOUS
  <2>2. ASSUME (m + 1) + 1 <= MaxPattern, NEW q \in Patterns(m + 1), NEW t \in Seq(Byte), NEW d \in Nat
        PROVE  <<q, t, d>> \in Covering[m + 1] <=> <<q, t, d>> \in Covering[(m + 1) + 1]
    <3>1. m + 1 \in 0..MaxPattern /\ (m + 1) + 1 \in 0..MaxPattern /\ m + 1 <= MaxPattern
      BY <1>1, <2>1, <2>2
    <3>2. q \in Patterns((m + 1) + 1)
      BY <2>1, <2>2 DEF Patterns
    <3>3. <<q, t, d>> \in Covering[m + 1] <=> covered_by(Covering[m], q, t, d)
      BY <2>1, <2>2, <3>1, CoveringSolved
    <3>4. <<q, t, d>> \in Covering[(m + 1) + 1] <=> covered_by(Covering[m + 1], q, t, d)
      BY <2>1, <2>2, <3>1, <3>2, CoveringSolved
    <3>5. SameUpTo(Covering[m], Covering[m + 1], m)
      BY <3>1
    <3>6. covered_by(Covering[m], q, t, d) <=> covered_by(Covering[m + 1], q, t, d)
      BY <2>1, <2>2, <3>5, CoveredByShorter
    <3> QED
      BY <3>3, <3>4, <3>6
  <2> QED
    BY <2>1, <2>2 DEF SameUpTo
<1> HIDE DEF S
<1>4. S = Nat
  <2>1. S \in SUBSET Nat
    BY DEF S
  <2> QED
    BY <1>2, <1>3, <2>1, NumbersByInduction
<1> QED
  BY <1>4 DEF S

(* What a pattern covers, by its first element. *)
LEMMA CoveredIs ==
  ASSUME NEW p \in Patterns(MaxPattern), NEW s \in Seq(Byte), NEW d \in Nat
  PROVE  Covered(p, s, d) <=> covered_by(Covering[MaxPattern], p, s, d)
<1> DEFINE N == MaxPattern
<1>1. N \in Nat /\ N \in 0..N
  BY GlobAssumption
<1>2. Covered(p, s, d) <=> covered_by(IF N = 0 THEN {} ELSE Covering[N - 1], p, s, d)
  BY <1>1, CoveringSolved DEF Covered
<1>3. CASE N = 0
  <2>1. p = <<>>
    BY <1>3 DEF Patterns
  <2>2. \A A : covered_by(A, p, s, d) <=> s = <<>>
    BY <2>1 DEF covered_by
  <2> QED
    BY <1>2, <2>2
<1>4. CASE N # 0
  <2> DEFINE n == N - 1
  <2>1. n \in Nat /\ n \in 0..N /\ n + 1 <= N /\ n + 1 = N
    BY <1>1, <1>4
  <2> HIDE DEF n
  <2>2. SameUpTo(Covering[n], Covering[n + 1], n)
    BY <2>1, CoveringAgrees
  <2>3. covered_by(Covering[n], p, s, d) <=> covered_by(Covering[n + 1], p, s, d)
    BY <2>1, <2>2, CoveredByShorter
  <2> QED
    BY <1>2, <1>4, <2>1, <2>3 DEF n
<1> QED
  BY <1>3, <1>4

(* The stars are dropped one by one. *)
LEMMA DropOne ==
  ASSUME NEW p \in Seq(Byte), p # <<>>
  PROVE  /\ p[1] = Star => drop_stars(p) = drop_stars(Tail(p))
         /\ p[1] # Star => drop_stars(p) = p
<1>1. Len(p) \in Nat /\ Len(p) > 0
  OBVIOUS
<1>2. PICK k \in 0..Len(p) : /\ drop_stars(p) = from(p, k + 1) /\ \A i \in 1..k : p[i] = Star
                             /\ k < Len(p) => p[k + 1] # Star
  BY DropStars
<1>3. k \in Nat
  OBVIOUS
<1>4. ASSUME p[1] # Star PROVE drop_stars(p) = p
  <2>1. ~(1 \in 1..k)
    BY <1>2, <1>4
  <2>2. k = 0
    BY <1>3, <2>1
  <2> QED
    BY <1>2, <2>2, FromEnds
<1>5. ASSUME p[1] = Star PROVE drop_stars(p) = drop_stars(Tail(p))
  <2> DEFINE t == Tail(p)
  <2>1. t \in Seq(Byte) /\ Len(t) = Len(p) - 1 /\ \A i \in 1..(Len(p) - 1) : t[i] = p[i + 1]
    BY HeadTailProperties
  <2>2. t = from(p, 2)
    BY FromEnds
  <2> HIDE DEF t
  <2>3. PICK m \in 0..Len(t) : /\ drop_stars(t) = from(t, m + 1) /\ \A i \in 1..m : t[i] = Star
                               /\ m < Len(t) => t[m + 1] # Star
    BY <2>1, DropStars
  <2>4. m \in Nat /\ m <= Len(p) - 1
    BY <1>1, <2>1
  <2>5. k # 0
    <3>1. ASSUME k = 0 PROVE FALSE
      <4>1. k < Len(p) /\ k + 1 = 1
        BY <1>1, <3>1
      <4> QED
        BY <1>2, <1>5, <4>1
    <3> QED
      BY <3>1
  <2>6. ASSUME k - 1 < m PROVE FALSE
    <3>1. k \in 1..m /\ k \in 1..(Len(p) - 1) /\ k < Len(p)
      BY <1>1, <1>3, <2>4, <2>5, <2>6
    <3>2. t[k] = Star /\ t[k] = p[k + 1]
      BY <2>1, <2>3, <3>1
    <3> QED
      BY <1>2, <3>1, <3>2
  <2>7. ASSUME k - 1 > m PROVE FALSE
    <3>1. m + 1 \in 1..(Len(p) - 1) /\ m < Len(t) /\ (m + 1) + 1 \in 1..k
      BY <1>1, <1>3, <2>1, <2>4, <2>7
    <3>2. t[m + 1] = p[(m + 1) + 1] /\ t[m + 1] # Star
      BY <2>1, <2>3, <3>1
    <3> QED
      BY <1>2, <3>1, <3>2
  <2>8. k = m + 1
    BY <1>3, <2>4, <2>6, <2>7
  <2>9. from(t, m + 1) = from(p, 2 + (m + 1) - 1)
    <3>1. 2 \in 1..(Len(p) + 1) /\ m + 1 \in 1..(Len(p) - 2 + 2)
      BY <1>1, <2>4
    <3> QED
      BY <2>2, <3>1, FromFrom
  <2>10. 2 + (m + 1) - 1 = k + 1
    BY <2>4, <2>8
  <2> QED
    BY <1>2, <2>3, <2>9, <2>10 DEF t
<1> QED
  BY <1>4, <1>5

(* The pattern that is left is empty or begins with another element. *)
LEMMA Dropped ==
  ASSUME NEW p \in Seq(Byte)
  PROVE  /\ drop_stars(p) \in Seq(Byte) /\ Len(drop_stars(p)) <= Len(p)
         /\ drop_stars(p) # <<>> => drop_stars(p)[1] # Star
         /\ p # <<>> /\ p[1] = Star => Len(drop_stars(p)) <= Len(p) - 1
         /\ p = <<>> => drop_stars(p) = <<>>
<1>1. PICK k \in 0..Len(p) : /\ drop_stars(p) = from(p, k + 1) /\ \A i \in 1..k : p[i] = Star
                             /\ k < Len(p) => p[k + 1] # Star
  BY DropStars
<1> DEFINE q == from(p, k + 1)
<1>2. k + 1 \in 1..(Len(p) + 1) /\ k \in Nat /\ Len(p) \in Nat
  OBVIOUS
<1>3. /\ q \in Seq(Byte) /\ Len(q) = Len(p) - (k + 1) + 1
      /\ \A i \in 1..(Len(p) - (k + 1) + 1) : q[i] = p[(k + 1) + i - 1]
  BY <1>2, FromProperties
<1> HIDE DEF q
<1>4. Len(q) <= Len(p)
  BY <1>2, <1>3
<1>5. q # <<>> => q[1] # Star
  <2>1. ASSUME q # <<>> PROVE q[1] # Star
    <3>1. Len(q) > 0
      BY <1>3, <2>1
    <3>2. k < Len(p) /\ 1 \in 1..(Len(p) - (k + 1) + 1) /\ (k + 1) + 1 - 1 = k + 1
      BY <1>2, <1>3, <3>1
    <3> QED
      BY <1>1, <1>3, <3>2
  <2> QED
    BY <2>1
<1>6. ASSUME p # <<>>, p[1] = Star PROVE Len(q) <= Len(p) - 1
  <2>1. k # 0
    BY <1>1, <1>2, <1>6
  <2> QED
    BY <1>2, <1>3, <2>1
<1>7. p = <<>> => q = <<>>
  BY <1>2, <1>3
<1> QED
  BY <1>1, <1>3, <1>4, <1>5, <1>6, <1>7 DEF q

(* Parts of a pattern are patterns. *)
LEMMA PatternParts ==
  ASSUME NEW p \in Patterns(MaxPattern), p # <<>>
  PROVE  /\ p \in Seq(Byte) /\ Tail(p) \in Patterns(MaxPattern)
         /\ behind(p) \in Patterns(MaxPattern) /\ drop_stars(p) \in Patterns(MaxPattern)
<1>1. p \in Seq(Byte) /\ Len(p) \in Nat /\ Len(p) <= MaxPattern /\ MaxPattern \in Nat
  BY GlobAssumption DEF Patterns
<1>2. Tail(p) \in Seq(Byte) /\ Len(Tail(p)) = Len(p) - 1
  BY <1>1, HeadTailProperties
<1>3. behind(p) \in Seq(Byte) /\ Len(behind(p)) <= Len(p) - 1
  BY <1>1, BehindProperties
<1>4. drop_stars(p) \in Seq(Byte) /\ Len(drop_stars(p)) <= Len(p)
  BY <1>1, Dropped
<1>5. Tail(p) \in Patterns(MaxPattern)
  BY <1>1, <1>2 DEF Patterns
<1>6. behind(p) \in Patterns(MaxPattern)
  <2>1. Len(behind(p)) \in Nat
    BY <1>3
  <2> QED
    BY <1>1, <1>3, <2>1 DEF Patterns
<1>7. drop_stars(p) \in Patterns(MaxPattern)
  <2>1. Len(drop_stars(p)) \in Nat
    BY <1>4
  <2> QED
    BY <1>1, <1>4, <2>1 DEF Patterns
<1> QED
  BY <1>1, <1>5, <1>6, <1>7

(* The empty pattern, and an element other than a star. *)
LEMMA CoversElement ==
  ASSUME NEW p \in Patterns(MaxPattern), NEW s \in Seq(Byte), NEW d \in Nat
  PROVE  /\ p = <<>> => (Covered(p, s, d) <=> s = <<>>)
         /\ p # <<>> /\ p[1] # Star =>
              (Covered(p, s, d) <=> s # <<>> /\ match_one(p, s[1]).matched /\ Covered(behind(p), Tail(s), d))
<1>1. Covered(p, s, d) <=> covered_by(Covering[MaxPattern], p, s, d)
  BY CoveredIs
<1> QED
  BY <1>1 DEF covered_by, Covered

(* A star that is not an inner one, and an inner star. *)
LEMMA CoversStar ==
  ASSUME NEW p \in Patterns(MaxPattern), p # <<>>, p[1] = Star, NEW s \in Seq(Byte), NEW d \in Nat
  PROVE  /\ Tail(p) = <<>> \/ Tail(p)[1] = Star =>
              (Covered(p, s, d) <=> \E i \in 1..(Len(s) + 1) : Covered(Tail(p), from(s, i), d))
         /\ Tail(p) # <<>> /\ Tail(p)[1] # Star =>
              (Covered(p, s, d) <=> d >= 1 /\ \E i \in 1..(Len(s) + 1) : Covered(Tail(p), from(s, i), d - 1))
<1>1. Covered(p, s, d) <=> covered_by(Covering[MaxPattern], p, s, d)
  BY CoveredIs
<1> DEFINE inner == Len(p) > 1 /\ p[2] # Star
           left == IF inner THEN d - 1 ELSE d
<1>2. Covered(p, s, d) <=> left >= 0 /\ \E i \in 1..(Len(s) + 1) : Covered(Tail(p), from(s, i), left)
  BY <1>1 DEF covered_by, Covered
<1>3. p \in Seq(Byte) /\ Len(p) \in Nat /\ Len(p) > 0
  BY DEF Patterns
<1>4. Tail(p) \in Seq(Byte) /\ Len(Tail(p)) = Len(p) - 1 /\ \A i \in 1..(Len(p) - 1) : Tail(p)[i] = p[i + 1]
  BY <1>3, HeadTailProperties
<1>5. inner <=> Tail(p) # <<>> /\ Tail(p)[1] # Star
  <2>1. Len(p) > 1 <=> Tail(p) # <<>>
    <3> DEFINE t == Tail(p)
    <3>1. t \in Seq(Byte) /\ Len(t) = Len(p) - 1
      BY <1>4
    <3> HIDE DEF t
    <3>2. t # <<>> <=> Len(t) > 0
      BY <3>1
    <3>3. Len(p) > 1 <=> t # <<>>
      BY <1>3, <3>1, <3>2
    <3> QED
      BY <3>3 DEF t
  <2>2. Len(p) > 1 => Tail(p)[1] = p[2]
    <3>1. Len(p) > 1 => 1 \in 1..(Len(p) - 1) /\ 1 + 1 = 2
      BY <1>3
    <3> QED
      BY <1>4, <3>1
  <2> QED
    BY <2>1, <2>2
<1> HIDE DEF inner
<1>6. CASE inner
  <2>1. left = d - 1 /\ (left >= 0 <=> d >= 1)
    BY <1>6
  <2> HIDE DEF left
  <2> QED
    BY <1>2, <1>5, <1>6, <2>1
<1>7. CASE ~inner
  <2>1. left = d /\ left >= 0
    BY <1>7
  <2> HIDE DEF left
  <2> QED
    BY <1>2, <1>5, <1>7, <2>1
<1> QED
  BY <1>6, <1>7

(* What a run of stars at the head of the pattern p covers. *)
RunCovers(p) ==
    \A s \in Seq(Byte) : \A d \in Nat :
        /\ drop_stars(p) = <<>> => Covered(p, s, d)
        /\ drop_stars(p) # <<>> =>
              (Covered(p, s, d) <=>
                  d >= 1 /\ \E i \in 1..(Len(s) + 1) : Covered(drop_stars(p), from(s, i), d - 1))

(* A star more at the head of a run. *)
LEMMA LongerRun ==
  ASSUME NEW p \in Patterns(MaxPattern), p # <<>>, p[1] = Star,
         Tail(p) # <<>> /\ Tail(p)[1] = Star => RunCovers(Tail(p))
  PROVE  RunCovers(p)
<1> DEFINE t == Tail(p)
           q == drop_stars(p)
<1>1. p \in Seq(Byte) /\ t \in Patterns(MaxPattern) /\ t \in Seq(Byte) /\ q = drop_stars(t)
  BY PatternParts, DropOne DEF Patterns
<1> SUFFICES ASSUME NEW s \in Seq(Byte), NEW d \in Nat
             PROVE  /\ q = <<>> => Covered(p, s, d)
                    /\ q # <<>> =>
                          (Covered(p, s, d) <=>
                              d >= 1 /\ \E i \in 1..(Len(s) + 1) : Covered(q, from(s, i), d - 1))
  BY DEF RunCovers
<1>2. /\ t = <<>> \/ t[1] = Star =>
            (Covered(p, s, d) <=> \E i \in 1..(Len(s) + 1) : Covered(t, from(s, i), d))
      /\ t # <<>> /\ t[1] # Star =>
            (Covered(p, s, d) <=> d >= 1 /\ \E i \in 1..(Len(s) + 1) : Covered(t, from(s, i), d - 1))
  BY CoversStar
<1>3. t # <<>> /\ t[1] = Star => RunCovers(t)
  OBVIOUS
<1>4. /\ Len(s) \in Nat /\ 1 \in 1..(Len(s) + 1) /\ Len(s) + 1 \in 1..(Len(s) + 1)
      /\ from(s, 1) = s /\ from(s, Len(s) + 1) = <<>> /\ <<>> \in Seq(Byte)
  BY FromEnds
<1> HIDE DEF t, q
<1>5. CASE t = <<>>
  <2>1. q = <<>>
    BY <1>1, <1>5, Dropped
  <2>2. Covered(t, <<>>, d)
    BY <1>1, <1>4, <1>5, CoversElement
  <2> QED
    BY <1>2, <1>4, <1>5, <2>1, <2>2
<1>6. CASE t # <<>> /\ t[1] # Star
  <2>1. q = t
    BY <1>1, <1>6, DropOne
  <2> QED
    BY <1>2, <1>6, <2>1
<1>7. CASE t # <<>> /\ t[1] = Star
  <2>1. ASSUME NEW i \in 1..(Len(s) + 1)
        PROVE  /\ from(s, i) \in Seq(Byte) /\ Len(from(s, i)) = Len(s) - i + 1
               /\ q = <<>> => Covered(t, from(s, i), d)
               /\ q # <<>> =>
                    (Covered(t, from(s, i), d) <=>
                        d >= 1 /\ \E j \in 1..(Len(from(s, i)) + 1) : Covered(q, from(from(s, i), j), d - 1))
    <3>1. from(s, i) \in Seq(Byte) /\ Len(from(s, i)) = Len(s) - i + 1
      BY FromProperties
    <3> QED
      BY <1>1, <1>3, <1>7, <3>1 DEF RunCovers
  <2>2. CASE q = <<>>
    BY <1>2, <1>4, <1>7, <2>1, <2>2
  <2>3. CASE q # <<>>
    <3>1. ASSUME Covered(p, s, d)
          PROVE  d >= 1 /\ \E i \in 1..(Len(s) + 1) : Covered(q, from(s, i), d - 1)
      <4>1. PICK i \in 1..(Len(s) + 1) : Covered(t, from(s, i), d)
        BY <1>2, <1>7, <3>1
      <4>2. PICK j \in 1..(Len(from(s, i)) + 1) : Covered(q, from(from(s, i), j), d - 1)
        BY <2>1, <2>3, <4>1
      <4>3. d >= 1
        BY <2>1, <2>3, <4>1
      <4>4. Len(from(s, i)) = Len(s) - i + 1
        BY <2>1
      <4>5. j \in 1..(Len(s) - i + 2) /\ i + j - 1 \in 1..(Len(s) + 1)
        BY <1>4, <4>4
      <4>6. from(from(s, i), j) = from(s, i + j - 1)
        BY <4>5, FromFrom
      <4> QED
        BY <4>2, <4>3, <4>5, <4>6
    <3>2. ASSUME d >= 1, NEW i \in 1..(Len(s) + 1), Covered(q, from(s, i), d - 1)
          PROVE  Covered(p, s, d)
      <4>1. Covered(t, from(s, 1), d)
        BY <1>4, <2>1, <2>3, <3>2
      <4> QED
        BY <1>2, <1>4, <1>7, <4>1
    <3> QED
      BY <2>3, <3>1, <3>2
  <2> QED
    BY <2>2, <2>3
<1> QED
  BY <1>5, <1>6, <1>7

(* A run of stars covers any string if it ends the pattern, and otherwise  *)
(* takes one search for the rest of the pattern.                           *)
LEMMA StarRun ==
  ASSUME NEW p \in Patterns(MaxPattern), p # <<>>, p[1] = Star
  PROVE  RunCovers(p)
<1> DEFINE Runs(n) == \A r \in Patterns(MaxPattern) : Len(r) = n /\ r # <<>> /\ r[1] = Star => RunCovers(r)
           S == {n \in Nat : Runs(n)}
<1>1. 0 \in S
  <2>1. \A r \in Seq(Byte) : Len(r) = 0 => r = <<>>
    OBVIOUS
  <2> QED
    BY <2>1 DEF Patterns
<1>2. ASSUME NEW n \in S PROVE n + 1 \in S
  <2>1. n \in Nat /\ n + 1 \in Nat /\ Runs(n)
    OBVIOUS
  <2>2. ASSUME NEW r \in Patterns(MaxPattern), Len(r) = n + 1, r # <<>>, r[1] = Star
        PROVE  RunCovers(r)
    <3>1. r \in Seq(Byte) /\ Tail(r) \in Patterns(MaxPattern)
      BY <2>2, PatternParts
    <3>2. Len(Tail(r)) = Len(r) - 1
      BY <2>2, <3>1, HeadTailProperties
    <3>3. Len(Tail(r)) = n
      BY <2>1, <2>2, <3>2
    <3>4. Tail(r) # <<>> /\ Tail(r)[1] = Star => RunCovers(Tail(r))
      BY <2>1, <3>1, <3>3
    <3> QED
      BY <2>2, <3>4, LongerRun
  <2>3. Runs(n + 1)
    BY <2>2
  <2> HIDE DEF Runs
  <2> QED
    BY <2>1, <2>3
<1> HIDE DEF S
<1>3. S = Nat
  <2>1. S \in SUBSET Nat
    BY DEF S
  <2> QED
    BY <1>1, <1>2, <2>1, NumbersByInduction
<1>4. Len(p) \in S
  BY <1>3 DEF Patterns
<1> QED
  BY <1>4 DEF S

-----------------------------------------------------------------------------
(***************************************************************************)
(* What the matcher finds.                                                 *)
(***************************************************************************)
(* The equation of string_match_impl. *)
MatcherOf(f, n) ==
    f = [k \in 0..n |-> [c \in Calls(k) |->
            match_by(IF k = 0 THEN <<>> ELSE f[k - 1], c.string, c.pattern, c.skip, c.depth)]]

(* It has a solution. *)
LEMMA MatcherExists ==
  ASSUME NEW N \in Nat
  PROVE  \E f : MatcherOf(f, N)
<1> DEFINE Step(k, before) ==
               [c \in Calls(k) |-> match_by(before, c.string, c.pattern, c.skip, c.depth)]
           Upto(n, f) == f = [k \in 0..n |-> Step(k, IF k = 0 THEN <<>> ELSE f[k - 1])]
           S == {n \in Nat : \E f : Upto(n, f)}
<1> HIDE DEF Step
<1>1. 0 \in S
  <2> DEFINE f == [k \in 0..0 |-> Step(0, <<>>)]
  <2>1. Upto(0, f)
    OBVIOUS
  <2> QED
    BY <2>1
<1>2. ASSUME NEW n \in S PROVE n + 1 \in S
  <2>1. n \in Nat /\ n + 1 \in Nat
    OBVIOUS
  <2>2. PICK f : Upto(n, f)
    OBVIOUS
  <2> DEFINE g == [k \in 0..(n + 1) |-> IF k = n + 1 THEN Step(n + 1, f[n]) ELSE f[k]]
  <2>3. \A k \in 0..n : g[k] = f[k]
    BY <2>1
  <2>4. g[n + 1] = Step(n + 1, f[n])
    BY <2>1
  <2>5. g = [k \in 0..(n + 1) |-> g[k]]
    OBVIOUS
  <2> HIDE DEF g
  <2>6. ASSUME NEW k \in 0..(n + 1) PROVE g[k] = Step(k, IF k = 0 THEN <<>> ELSE g[k - 1])
    <3>1. CASE k = n + 1
      <4>1. k # 0 /\ k - 1 = n /\ n \in 0..n
        BY <2>1, <3>1
      <4> QED
        BY <2>3, <2>4, <3>1, <4>1
    <3>2. CASE k \in 0..n
      <4>1. k # 0 => k - 1 \in 0..n
        BY <2>1, <3>2
      <4>2. f[k] = Step(k, IF k = 0 THEN <<>> ELSE f[k - 1])
        BY <2>2, <3>2
      <4>3. (IF k = 0 THEN <<>> ELSE f[k - 1]) = (IF k = 0 THEN <<>> ELSE g[k - 1])
        BY <2>3, <4>1
      <4> QED
        BY <2>3, <3>2, <4>2, <4>3
    <3> QED
      BY <2>1, <3>1, <3>2
  <2>7. Upto(n + 1, g)
    BY <2>5, <2>6
  <2> HIDE DEF Upto
  <2> QED
    BY <2>1, <2>7
<1> HIDE DEF S
<1>3. S = Nat
  <2>1. S \in SUBSET Nat
    BY DEF S
  <2> QED
    BY <1>1, <1>2, <2>1, NumbersByInduction
<1> QED
  BY <1>3 DEF S, MatcherOf, Step

(* What the matcher answers for the patterns of at most n bytes. *)
LEMMA MatcherSolved ==
  ASSUME NEW n \in 0..MaxPattern, NEW s \in Seq(Byte), NEW p \in Patterns(n),
         NEW skip \in BOOLEAN, NEW depth \in Nat
  PROVE  string_match_impl[n][call(s, p, skip, depth)] =
            match_by(IF n = 0 THEN <<>> ELSE string_match_impl[n - 1], s, p, skip, depth)
<1> DEFINE M == string_match_impl
<1>1. M = CHOOSE f : MatcherOf(f, MaxPattern)
  BY DEF string_match_impl, MatcherOf
<1>2. MatcherOf(M, MaxPattern)
  BY <1>1, MatcherExists, GlobAssumption
<1> HIDE DEF M
<1> DEFINE before == IF n = 0 THEN <<>> ELSE M[n - 1]
<1>3. M[n] = [c \in Calls(n) |-> match_by(before, c.string, c.pattern, c.skip, c.depth)]
  BY <1>2 DEF MatcherOf
<1> HIDE DEF before
<1> DEFINE c == call(s, p, skip, depth)
<1>4. c \in Calls(n) /\ c.string = s /\ c.pattern = p /\ c.skip = skip /\ c.depth = depth
  BY DEF Calls, call
<1> HIDE DEF c
<1>5. M[n][c] = match_by(before, c.string, c.pattern, c.skip, c.depth)
  BY <1>3, <1>4
<1> QED
  BY <1>4, <1>5 DEF c, before, M

(* Only stars cover the empty string. *)
LEMMA CoversNothing ==
  ASSUME NEW p \in Patterns(MaxPattern), NEW d \in Nat
  PROVE  Covered(p, <<>>, d) <=> drop_stars(p) = <<>>
<1> DEFINE e == <<>>
<1>1. p \in Seq(Byte) /\ e \in Seq(Byte) /\ from(e, 1) = e /\ Len(e) + 1 = 1 /\ 1 \in 1..(Len(e) + 1)
  <2>1. p \in Seq(Byte)
    BY DEF Patterns
  <2>2. e \in Seq(Byte) /\ Len(e) = 0
    OBVIOUS
  <2> HIDE DEF e
  <2>3. from(e, 1) = e
    BY <2>2, FromEnds
  <2>4. Len(e) + 1 = 1 /\ 1 \in 1..(Len(e) + 1)
    BY <2>2
  <2> QED
    BY <2>1, <2>2, <2>3, <2>4
<1>2. CASE p = <<>>
  BY <1>1, <1>2, CoversElement, Dropped
<1>3. CASE p # <<>> /\ p[1] # Star
  <2>1. drop_stars(p) = p
    BY <1>1, <1>3, DropOne
  <2>2. Covered(p, e, d) <=> e # <<>> /\ match_one(p, e[1]).matched /\ Covered(behind(p), Tail(e), d)
    BY <1>1, <1>3, CoversElement
  <2> QED
    BY <1>3, <2>1, <2>2
<1>4. CASE p # <<>> /\ p[1] = Star
  <2> DEFINE q == drop_stars(p)
  <2>1. /\ q = <<>> => Covered(p, e, d)
        /\ q # <<>> => (Covered(p, e, d) <=> d >= 1 /\ \E i \in 1..(Len(e) + 1) : Covered(q, from(e, i), d - 1))
    BY <1>1, <1>4, StarRun DEF RunCovers
  <2>2. ASSUME q # <<>>, d >= 1, NEW i \in 1..(Len(e) + 1), Covered(q, from(e, i), d - 1)
        PROVE  FALSE
    <3>1. i = 1 /\ d - 1 \in Nat
      BY <1>1, <2>2
    <3>2. q \in Patterns(MaxPattern) /\ q[1] # Star
      BY <1>1, <1>4, <2>2, PatternParts, Dropped
    <3>3. Covered(q, e, d - 1)
      BY <1>1, <2>2, <3>1
    <3> HIDE DEF q
    <3>4. Covered(q, e, d - 1) => e # <<>>
      BY <1>1, <2>2, <3>1, <3>2, CoversElement
    <3> QED
      BY <3>3, <3>4
  <2> HIDE DEF q, e
  <2>3. Covered(p, e, d) <=> q = <<>>
    BY <2>1, <2>2
  <2> QED
    BY <2>3 DEF q, e
<1> QED
  BY <1>2, <1>3, <1>4

(* If what follows the stars is nowhere in a string, the pattern with the  *)
(* stars covers nothing that ends the string.                              *)
LEMMA NowhereBehind ==
  ASSUME NEW p \in Patterns(MaxPattern), p # <<>>, p[1] = Star, drop_stars(p) # <<>>,
         NEW s \in Seq(Byte), NEW d \in Nat,
         d >= 1 => \A i \in 1..Len(s) : ~Covered(drop_stars(p), from(s, i), d - 1),
         NEW j \in 1..(Len(s) + 1)
  PROVE  ~Covered(p, from(s, j), d)
<1> DEFINE q == drop_stars(p)
           t == from(s, j)
<1>1. t \in Seq(Byte) /\ Len(t) = Len(s) - j + 1 /\ Len(s) \in Nat /\ j \in Nat
  BY FromProperties
<1>2. q \in Patterns(MaxPattern) /\ q \in Seq(Byte) /\ q # <<>> /\ q[1] # Star
  <2>1. p \in Seq(Byte)
    BY DEF Patterns
  <2> QED
    BY <2>1, PatternParts, Dropped
<1> SUFFICES ASSUME Covered(p, t, d) PROVE FALSE
  OBVIOUS
<1>3. d >= 1 /\ \E i \in 1..(Len(t) + 1) : Covered(q, from(t, i), d - 1)
  BY <1>1, <1>2, StarRun DEF RunCovers
<1>4. PICK i \in 1..(Len(t) + 1) : Covered(q, from(t, i), d - 1)
  BY <1>3
<1>5. /\ i \in 1..(Len(s) - j + 2) /\ j + i - 1 \in 1..(Len(s) + 1) /\ i \in Nat
      /\ d - 1 \in Nat
  BY <1>1, <1>3
<1>6. from(t, i) = from(s, j + i - 1)
  BY <1>5, FromFrom
<1>7. CASE j + i - 1 \in 1..Len(s)
  <2>1. ~Covered(q, from(s, j + i - 1), d - 1)
    BY <1>3, <1>7
  <2> QED
    BY <1>4, <1>6, <2>1
<1>8. CASE j + i - 1 = Len(s) + 1
  <2>1. from(s, Len(s) + 1) = <<>> /\ <<>> \in Seq(Byte)
    BY FromEnds
  <2>2. Covered(q, <<>>, d - 1)
    BY <1>4, <1>6, <1>8, <2>1
  <2> HIDE DEF q
  <2>3. drop_stars(q) = <<>> /\ drop_stars(q) = q
    BY <1>2, <1>5, <2>2, CoversNothing, DropOne
  <2> QED
    BY <1>2, <2>3
<1> QED
  BY <1>1, <1>5, <1>7, <1>8

-----------------------------------------------------------------------------
Answers == [matched : BOOLEAN, skip : BOOLEAN]

(* What the answer r says of the pattern p, the string s and the depth the *)
(* recursion has reached.  An answer that sets the flag and is no match    *)
(* says that the pattern covers nothing that ends the string: this is why  *)
(* the searches around it may give up.                                     *)
Finds(r, p, s, depth) ==
    /\ r \in Answers
    /\ r.matched => \A d \in Nat : d >= Len(p) => Covered(p, s, d)
    /\ \A d \in Nat : depth + d <= MAX_DEPTH /\ Covered(p, s, d) => r.matched
    /\ r.skip /\ ~r.matched =>
          \A d \in Nat : depth + d <= MAX_DEPTH => \A j \in 1..(Len(s) + 1) : ~Covered(p, from(s, j), d)

FindsUpTo(m, n) ==
    \A q \in Patterns(n) : \A t \in Seq(Byte) : \A depth \in Nat :
        t # <<>> => Finds(m[call(t, q, FALSE, depth)], q, t, depth)

(* An answer of no match, the flag unset. *)
LEMMA PlainFailure ==
  ASSUME NEW p, NEW s, NEW depth \in Nat, NEW r, r = Result(FALSE, FALSE),
         \A d \in Nat : depth + d <= MAX_DEPTH => ~Covered(p, s, d)
  PROVE  Finds(r, p, s, depth)
<1>1. r \in Answers /\ r.matched = FALSE /\ r.skip = FALSE
  BY DEF Result, Answers
<1> QED
  BY <1>1 DEF Finds

(* An answer, the flag unset, that is exact. *)
LEMMA PlainAnswer ==
  ASSUME NEW p, NEW s, NEW depth \in Nat, NEW hit \in BOOLEAN, NEW r, r = Result(hit, FALSE),
         \A d \in Nat : Covered(p, s, d) <=> hit
  PROVE  Finds(r, p, s, depth)
<1>1. r \in Answers /\ r.matched = hit /\ r.skip = FALSE
  BY DEF Result, Answers
<1> QED
  BY <1>1 DEF Finds

(* The search behind a run of stars. *)
LEMMA OffsetsFind ==
  ASSUME NEW n \in Nat, n + 1 <= MaxPattern, NEW m, FindsUpTo(m, n),
         NEW p \in Patterns(n + 1), p # <<>>, p[1] = Star, drop_stars(p) # <<>>,
         NEW s \in Seq(Byte), s # <<>>, NEW depth \in Nat
  PROVE  Finds(try_offsets(m, s, drop_stars(p), FALSE, depth), p, s, depth)
<1> DEFINE q == drop_stars(p)
           tried(i) == m[call(from(s, i), q, FALSE, depth + 1)]
           stops == {i \in 1..Len(s) : tried(i).matched \/ tried(i).skip}
           r == try_offsets(m, s, q, FALSE, depth)
<1>1. /\ p \in Patterns(MaxPattern) /\ p \in Seq(Byte) /\ Len(p) \in Nat /\ Len(p) <= n + 1 /\ Len(p) > 0
      /\ MAX_DEPTH \in Nat /\ Len(s) \in Nat /\ Len(s) > 0 /\ depth + 1 \in Nat
  <2>1. p \in Seq(Byte) /\ Len(p) \in Nat /\ Len(p) <= n + 1
    BY DEF Patterns
  <2>2. MaxPattern \in Nat /\ MAX_DEPTH \in Nat
    BY GlobAssumption
  <2>3. p \in Patterns(MaxPattern)
    BY <2>1, <2>2 DEF Patterns
  <2> QED
    BY <2>1, <2>2, <2>3
<1>2. /\ q \in Patterns(n) /\ q \in Seq(Byte) /\ q # <<>> /\ q[1] # Star /\ Len(q) <= Len(p) - 1
      /\ Len(q) \in Nat
  <2>1. q \in Seq(Byte) /\ q # <<>> /\ q[1] # Star /\ Len(q) <= Len(p) - 1
    BY <1>1, Dropped
  <2> HIDE DEF q
  <2> QED
    BY <1>1, <2>1 DEF Patterns
<1>3. RunCovers(p)
  BY <1>1, StarRun
<1>4. ASSUME NEW i \in 1..Len(s)
      PROVE  /\ i \in 1..(Len(s) + 1) /\ from(s, i) \in Seq(Byte) /\ Len(from(s, i)) = Len(s) - i + 1
             /\ Finds(tried(i), q, from(s, i), depth + 1)
  <2>1. i \in 1..(Len(s) + 1)
    BY <1>1
  <2>2. from(s, i) \in Seq(Byte) /\ Len(from(s, i)) = Len(s) - i + 1
    BY <2>1, FromProperties
  <2>3. from(s, i) # <<>>
    <3>1. Len(from(s, i)) # 0
      BY <1>1, <2>2
    <3> QED
      BY <3>1
  <2> HIDE DEF q
  <2> QED
    BY <1>1, <1>2, <2>1, <2>2, <2>3 DEF FindsUpTo
<1>5. r = IF stops = {} THEN Result(FALSE, TRUE) ELSE tried(CHOOSE i \in stops : \A j \in stops : i <= j)
  BY DEF try_offsets
<1>6. ASSUME \A d \in Nat : depth + 1 + d <= MAX_DEPTH => \A i \in 1..Len(s) : ~Covered(q, from(s, i), d)
      PROVE  /\ \A d \in Nat : depth + d <= MAX_DEPTH /\ Covered(p, s, d) => FALSE
             /\ \A d \in Nat : depth + d <= MAX_DEPTH => \A j \in 1..(Len(s) + 1) : ~Covered(p, from(s, j), d)
  <2>1. ASSUME NEW d \in Nat, depth + d <= MAX_DEPTH, NEW j \in 1..(Len(s) + 1)
        PROVE  ~Covered(p, from(s, j), d)
    <3>1. d >= 1 => \A i \in 1..Len(s) : ~Covered(q, from(s, i), d - 1)
      <4>1. d >= 1 => d - 1 \in Nat /\ depth + 1 + (d - 1) <= MAX_DEPTH
        BY <1>1, <2>1
      <4> HIDE DEF q
      <4> QED
        BY <1>6, <4>1
    <3> QED
      BY <1>1, <3>1, NowhereBehind
  <2>2. 1 \in 1..(Len(s) + 1) /\ from(s, 1) = s
    BY <1>1, FromEnds
  <2>3. ASSUME NEW d \in Nat, depth + d <= MAX_DEPTH, Covered(p, s, d) PROVE FALSE
    <3>1. ~Covered(p, from(s, 1), d)
      BY <2>1, <2>2, <2>3
    <3> QED
      BY <2>2, <2>3, <3>1
  <2> QED
    BY <2>1, <2>3
<1> HIDE DEF q, tried, r
<1>7. CASE stops = {}
  <2>1. r = Result(FALSE, TRUE)
    BY <1>5, <1>7
  <2>2. r \in Answers /\ r.matched = FALSE /\ r.skip = TRUE
    BY <2>1 DEF Result, Answers
  <2>3. ASSUME NEW d \in Nat, depth + 1 + d <= MAX_DEPTH, NEW i \in 1..Len(s)
        PROVE  ~Covered(q, from(s, i), d)
    <3>1. tried(i) \in Answers /\ ~(tried(i).matched \/ tried(i).skip)
      BY <1>4, <1>7 DEF Finds
    <3> QED
      BY <1>4, <2>3, <3>1 DEF Finds
  <2> QED
    BY <1>6, <2>2, <2>3 DEF Finds, r, q
<1>8. CASE stops # {}
  <2> DEFINE k == CHOOSE i \in stops : \A j \in stops : i <= j
  <2>1. stops \in SUBSET Nat
    OBVIOUS
  <2>2. \E i \in stops : \A j \in stops : i <= j
    BY <1>8, <2>1, LeastExists
  <2>3. k \in stops /\ \A j \in stops : k <= j
    BY <2>2
  <2>4. r = tried(k)
    BY <1>5, <1>8
  <2> HIDE DEF k
  <2>5. k \in 1..Len(s) /\ k \in Nat /\ (tried(k).matched \/ tried(k).skip) /\ Finds(r, q, from(s, k), depth + 1)
    BY <1>4, <2>3, <2>4
  <2>6. r \in Answers
    BY <2>5 DEF Finds
  <2>7. ASSUME r.matched, NEW d \in Nat, d >= Len(p) PROVE Covered(p, s, d)
    <3>1. d - 1 \in Nat /\ d - 1 >= Len(q) /\ d >= 1
      BY <1>1, <1>2, <2>7
    <3>2. Covered(q, from(s, k), d - 1)
      BY <2>5, <2>7, <3>1 DEF Finds
    <3>3. k \in 1..(Len(s) + 1)
      BY <1>4, <2>5
    <3> QED
      BY <1>2, <1>3, <3>1, <3>2, <3>3 DEF RunCovers, q
  <2>8. CASE ~r.matched
    <3>1. ASSUME NEW d \in Nat, depth + 1 + d <= MAX_DEPTH, NEW i \in 1..Len(s)
          PROVE  ~Covered(q, from(s, i), d)
      <4>1. CASE i < k
        <5>1. i \notin stops
          <6>1. i \in stops => k <= i
            BY <2>3
          <6> QED
            BY <2>5, <4>1, <6>1
        <5>2. ~tried(i).matched
          BY <5>1
        <5> QED
          BY <1>4, <3>1, <5>2 DEF Finds
      <4>2. CASE i >= k
        <5>1. r.skip
          BY <2>4, <2>5, <2>8
        <5>2. \A j \in 1..(Len(from(s, k)) + 1) : ~Covered(q, from(from(s, k), j), d)
          BY <2>5, <2>8, <3>1, <5>1 DEF Finds
        <5>3. Len(from(s, k)) = Len(s) - k + 1 /\ k \in 1..(Len(s) + 1)
          BY <1>4, <2>5
        <5>4. /\ i - k + 1 \in 1..(Len(from(s, k)) + 1) /\ i - k + 1 \in 1..(Len(s) - k + 2)
              /\ k + (i - k + 1) - 1 = i
          BY <1>1, <2>5, <4>2, <5>3
        <5>5. from(from(s, k), i - k + 1) = from(s, k + (i - k + 1) - 1)
          BY <5>3, <5>4, FromFrom
        <5> QED
          BY <5>2, <5>4, <5>5
      <4> QED
        BY <2>5, <4>1, <4>2
    <3> QED
      BY <1>6, <2>6, <2>8, <3>1 DEF Finds, r, q
  <2>9. CASE r.matched
    BY <2>6, <2>7, <2>9 DEF Finds, r, q
  <2> QED
    BY <2>8, <2>9
<1> QED
  BY <1>7, <1>8

(* An element other than a star, and what is behind it. *)
LEMMA ElementFinds ==
  ASSUME NEW n \in Nat, n + 1 <= MaxPattern, NEW m, FindsUpTo(m, n),
         NEW p \in Patterns(n + 1), p # <<>>, p[1] # Star,
         NEW s \in Seq(Byte), s # <<>>, NEW depth \in Nat, depth <= MAX_DEPTH
  PROVE  Finds(match_by(m, s, p, FALSE, depth), p, s, depth)
<1> DEFINE b == behind(p)
           one == match_one(p, s[1])
           r == match_by(m, s, p, FALSE, depth)
<1>1. /\ p \in Patterns(MaxPattern) /\ p \in Seq(Byte) /\ Len(p) \in Nat /\ Len(p) <= n + 1 /\ Len(p) > 0
      /\ MAX_DEPTH \in Nat /\ Len(s) \in Nat /\ Len(s) > 0
  <2>1. p \in Seq(Byte) /\ Len(p) \in Nat /\ Len(p) <= n + 1
    BY DEF Patterns
  <2>2. MaxPattern \in Nat /\ MAX_DEPTH \in Nat
    BY GlobAssumption
  <2>3. p \in Patterns(MaxPattern)
    BY <2>1, <2>2 DEF Patterns
  <2> QED
    BY <2>1, <2>2, <2>3
<1>2. /\ step_over(one.pattern) = b /\ b \in Seq(Byte) /\ Len(b) <= Len(p) - 1
      /\ one.matched \in BOOLEAN
  BY <1>1, BehindProperties
<1>3. b \in Patterns(n) /\ b \in Patterns(MaxPattern) /\ Len(b) \in Nat
  <2>1. Len(b) \in Nat
    BY <1>2
  <2> HIDE DEF b
  <2> QED
    BY <1>1, <1>2, <2>1, GlobAssumption DEF Patterns
<1>4. ASSUME NEW t \in Seq(Byte), NEW d \in Nat
      PROVE  Covered(p, t, d) <=> t # <<>> /\ match_one(p, t[1]).matched /\ Covered(b, Tail(t), d)
  BY <1>1, CoversElement
<1>5. Tail(s) \in Seq(Byte) /\ Len(Tail(s)) = Len(s) - 1 /\ Tail(s) = from(s, 2)
  BY HeadTailProperties, FromEnds
<1>6. r = IF ~one.matched THEN Result(FALSE, FALSE)
          ELSE IF Len(s) = 1 THEN Result(drop_stars(step_over(one.pattern)) = <<>>, FALSE)
          ELSE m[call(Tail(s), step_over(one.pattern), FALSE, depth)]
  <2>1. ~(depth > MAX_DEPTH)
    BY <1>1
  <2> QED
    BY <2>1 DEF match_by
<1> HIDE DEF b, r
<1>7. CASE ~one.matched
  <2>1. r = Result(FALSE, FALSE)
    BY <1>6, <1>7
  <2>2. \A d \in Nat : ~Covered(p, s, d)
    BY <1>4, <1>7
  <2>3. Finds(r, p, s, depth)
    BY <2>1, <2>2, PlainFailure
  <2> QED
    BY <2>3 DEF r
<1>8. CASE one.matched /\ Len(s) = 1
  <2> DEFINE hit == drop_stars(b) = <<>>
  <2>1. r = Result(hit, FALSE)
    BY <1>2, <1>6, <1>8
  <2>2. Tail(s) = <<>>
    <3> DEFINE t == Tail(s)
    <3>1. t \in Seq(Byte) /\ Len(t) = 0
      BY <1>5, <1>8
    <3> HIDE DEF t
    <3>2. t = <<>>
      BY <3>1
    <3> QED
      BY <3>2 DEF t
  <2>3. \A d \in Nat : Covered(p, s, d) <=> hit
    BY <1>3, <1>4, <1>8, <2>2, CoversNothing
  <2>4. hit \in BOOLEAN
    OBVIOUS
  <2> HIDE DEF hit
  <2>5. Finds(r, p, s, depth)
    BY <2>1, <2>3, <2>4, PlainAnswer
  <2> QED
    BY <2>5 DEF r
<1>9. CASE one.matched /\ Len(s) # 1
  <2>1. r = m[call(Tail(s), b, FALSE, depth)]
    BY <1>2, <1>6, <1>9
  <2>2. Tail(s) # <<>>
    <3> DEFINE t == Tail(s)
    <3>1. t \in Seq(Byte) /\ Len(t) # 0
      BY <1>1, <1>5, <1>9
    <3> HIDE DEF t
    <3>2. t # <<>>
      BY <3>1
    <3> QED
      BY <3>2 DEF t
  <2>3. Finds(r, b, Tail(s), depth)
    BY <1>3, <1>5, <2>1, <2>2 DEF FindsUpTo
  <2>4. r \in Answers
    BY <2>3 DEF Finds
  <2>5. ASSUME r.matched, NEW d \in Nat, d >= Len(p) PROVE Covered(p, s, d)
    <3>1. d >= Len(b)
      BY <1>1, <1>2, <1>3, <2>5
    <3>2. Covered(b, Tail(s), d)
      BY <2>3, <2>5, <3>1 DEF Finds
    <3> QED
      BY <1>4, <1>9, <3>2
  <2>6. ASSUME NEW d \in Nat, depth + d <= MAX_DEPTH, Covered(p, s, d) PROVE r.matched
    <3>1. Covered(b, Tail(s), d)
      BY <1>4, <2>6
    <3> QED
      BY <2>3, <2>6, <3>1 DEF Finds
  <2>7. ASSUME r.skip, ~r.matched, NEW d \in Nat, depth + d <= MAX_DEPTH, NEW j \in 1..(Len(s) + 1)
        PROVE  ~Covered(p, from(s, j), d)
    <3> DEFINE t == from(s, j)
    <3>1. t \in Seq(Byte) /\ Len(t) = Len(s) - j + 1
      BY FromProperties
    <3> SUFFICES ASSUME Covered(p, t, d) PROVE FALSE
      OBVIOUS
    <3>2. t # <<>> /\ Covered(b, Tail(t), d)
      BY <1>4, <3>1
    <3>3. Tail(t) = from(t, 2)
      BY <3>1, <3>2, FromEnds
    <3>4. Len(t) > 0
      BY <3>1, <3>2
    <3>5. /\ 2 \in 1..(Len(s) - j + 2) /\ j \in 1..(Len(s) - 2 + 2) /\ 2 \in 1..(Len(s) + 1)
          /\ j \in 1..(Len(Tail(s)) + 1) /\ j + 2 - 1 = 2 + j - 1
      BY <1>1, <1>5, <3>1, <3>4
    <3>6. from(t, 2) = from(s, j + 2 - 1)
      BY <3>5, FromFrom
    <3>7. from(Tail(s), j) = from(s, 2 + j - 1)
      BY <1>5, <3>5, FromFrom
    <3>8. ~Covered(b, from(Tail(s), j), d)
      BY <2>3, <2>7, <3>5 DEF Finds
    <3> QED
      BY <3>2, <3>3, <3>5, <3>6, <3>7, <3>8
  <2>8. Finds(r, p, s, depth)
    BY <2>4, <2>5, <2>6, <2>7 DEF Finds
  <2> QED
    BY <2>8 DEF r
<1> QED
  BY <1>2, <1>7, <1>8, <1>9

(* A turn of the loop, given what the shorter patterns find. *)
LEMMA LongerPattern ==
  ASSUME NEW n \in Nat, n + 1 <= MaxPattern, NEW m, FindsUpTo(m, n),
         NEW p \in Patterns(n + 1), NEW s \in Seq(Byte), s # <<>>, NEW depth \in Nat
  PROVE  Finds(match_by(m, s, p, FALSE, depth), p, s, depth)
<1> DEFINE r == match_by(m, s, p, FALSE, depth)
<1>1. p \in Patterns(MaxPattern) /\ MAX_DEPTH \in Nat
  BY GlobAssumption DEF Patterns
<1>2. CASE depth > MAX_DEPTH
  <2>1. r = Result(FALSE, FALSE)
    BY <1>2 DEF match_by
  <2>2. \A d \in Nat : ~(depth + d <= MAX_DEPTH)
    BY <1>1, <1>2
  <2> HIDE DEF r
  <2>3. Finds(r, p, s, depth)
    BY <2>1, <2>2, PlainFailure
  <2> QED
    BY <2>3 DEF r
<1>3. CASE depth <= MAX_DEPTH /\ p = <<>>
  <2>1. ~(depth > MAX_DEPTH)
    BY <1>1, <1>3
  <2>2. r = Result(p = <<>> /\ s = <<>>, FALSE)
    BY <1>3, <2>1 DEF match_by
  <2>3. r = Result(FALSE, FALSE)
    BY <2>2 DEF Result
  <2>4. \A d \in Nat : ~Covered(p, s, d)
    BY <1>1, <1>3, CoversElement
  <2> HIDE DEF r
  <2>5. Finds(r, p, s, depth)
    BY <2>3, <2>4, PlainFailure
  <2> QED
    BY <2>5 DEF r
<1>4. CASE depth <= MAX_DEPTH /\ p # <<>> /\ p[1] = Star /\ drop_stars(p) = <<>>
  <2>1. ~(depth > MAX_DEPTH)
    BY <1>1, <1>4
  <2>2. r = Result(TRUE, FALSE)
    BY <1>4, <2>1 DEF match_by
  <2>3. \A d \in Nat : Covered(p, s, d) <=> TRUE
    BY <1>1, <1>4, StarRun DEF RunCovers
  <2> HIDE DEF r
  <2>4. Finds(r, p, s, depth)
    BY <2>2, <2>3, PlainAnswer
  <2> QED
    BY <2>4 DEF r
<1>5. CASE depth <= MAX_DEPTH /\ p # <<>> /\ p[1] = Star /\ drop_stars(p) # <<>>
  <2>1. ~(depth > MAX_DEPTH)
    BY <1>1, <1>5
  <2>2. r = try_offsets(m, s, drop_stars(p), FALSE, depth)
    BY <1>5, <2>1 DEF match_by
  <2> QED
    BY <1>5, <2>2, OffsetsFind
<1>6. CASE depth <= MAX_DEPTH /\ p # <<>> /\ p[1] # Star
  BY <1>6, ElementFinds
<1>7. depth > MAX_DEPTH \/ depth <= MAX_DEPTH
  BY <1>1
<1> HIDE DEF r
<1> QED
  BY <1>2, <1>3, <1>4, <1>5, <1>6, <1>7 DEF r

(* The matcher of every length finds what the patterns cover. *)
LEMMA MatcherFinds ==
  ASSUME NEW n \in 0..MaxPattern
  PROVE  FindsUpTo(string_match_impl[n], n)
<1> DEFINE M == string_match_impl
           S == {k \in Nat : k <= MaxPattern => FindsUpTo(M[k], k)}
<1>1. MaxPattern \in Nat /\ MAX_DEPTH \in Nat
  BY GlobAssumption
<1>2. 0 \in S
  <2>1. ASSUME NEW q \in Patterns(0), NEW t \in Seq(Byte), NEW depth \in Nat, t # <<>>
        PROVE  Finds(M[0][call(t, q, FALSE, depth)], q, t, depth)
    <3>1. q = <<>> /\ q \in Patterns(MaxPattern)
      BY <1>1 DEF Patterns
    <3>2. M[0][call(t, q, FALSE, depth)] = match_by(<<>>, t, q, FALSE, depth)
      <4>1. 0 \in 0..MaxPattern
        BY <1>1
      <4> QED
        BY <4>1, MatcherSolved
    <3>3. match_by(<<>>, t, q, FALSE, depth) = Result(FALSE, FALSE)
      BY <2>1, <3>1 DEF match_by, Result
    <3>4. \A d \in Nat : ~Covered(q, t, d)
      BY <2>1, <3>1, CoversElement
    <3> QED
      BY <3>2, <3>3, <3>4, PlainFailure
  <2> QED
    BY <2>1 DEF FindsUpTo
<1>3. ASSUME NEW k \in S PROVE k + 1 \in S
  <2>1. k \in Nat /\ k + 1 \in Nat /\ (k + 1) - 1 = k /\ k + 1 # 0
    OBVIOUS
  <2>2. ASSUME k + 1 <= MaxPattern, NEW q \in Patterns(k + 1), NEW t \in Seq(Byte), NEW depth \in Nat, t # <<>>
        PROVE  Finds(M[k + 1][call(t, q, FALSE, depth)], q, t, depth)
    <3>1. k + 1 \in 0..MaxPattern /\ FindsUpTo(M[k], k)
      BY <1>1, <2>1, <2>2
    <3>2. M[k + 1][call(t, q, FALSE, depth)] = match_by(M[k], t, q, FALSE, depth)
      <4>1. FALSE \in BOOLEAN
        OBVIOUS
      <4>2. M[k + 1][call(t, q, FALSE, depth)] =
                match_by(IF k + 1 = 0 THEN <<>> ELSE M[(k + 1) - 1], t, q, FALSE, depth)
        BY <2>2, <3>1, <4>1, MatcherSolved
      <4> QED
        BY <2>1, <4>2
    <3> HIDE DEF M
    <3> QED
      BY <2>1, <2>2, <3>1, <3>2, LongerPattern
  <2>3. k + 1 <= MaxPattern => FindsUpTo(M[k + 1], k + 1)
    BY <2>2 DEF FindsUpTo
  <2> QED
    BY <2>1, <2>3
<1> HIDE DEF S
<1>4. S = Nat
  <2>1. S \in SUBSET Nat
    BY DEF S
  <2> QED
    BY <1>2, <1>3, <2>1, NumbersByInduction
<1> QED
  BY <1>4 DEF S

(* Every match that is found is one, and every match that takes no more    *)
(* than MAX_DEPTH searches is found, for every pattern of KEYS up to the   *)
(* bound and every string of bytes: string_match of pattern.rs.            *)
THEOREM EveryPatternFinds ==
  ASSUME NEW p \in Patterns(MaxPattern), NEW s \in Seq(Byte)
  PROVE  FindsMatches(p, s)
<1> DEFINE r == string_match_impl[MaxPattern][call(s, p, FALSE, 0)]
<1>1. MaxPattern \in Nat /\ MAX_DEPTH \in Nat /\ MaxPattern \in 0..MaxPattern
  BY GlobAssumption
<1>2. string_match(s, p) = r.matched
  BY DEF string_match
<1>3. CASE s = <<>>
  <2>1. \E before : r = match_by(before, s, p, FALSE, 0)
    <3>1. FALSE \in BOOLEAN /\ 0 \in Nat
      OBVIOUS
    <3>2. r = match_by(IF MaxPattern = 0 THEN <<>> ELSE string_match_impl[MaxPattern - 1], s, p, FALSE, 0)
      BY <1>1, <3>1, MatcherSolved
    <3> HIDE DEF r
    <3> QED
      BY <3>2
  <2>2. PICK before : r = match_by(before, s, p, FALSE, 0)
    BY <2>1
  <2>3. ~(0 > MAX_DEPTH)
    BY <1>1
  <2>4. match_by(before, s, p, FALSE, 0) = Result(p = <<>> /\ s = <<>>, FALSE)
    BY <1>3, <2>3 DEF match_by
  <2> DEFINE hit == p = <<>> /\ s = <<>>
  <2> HIDE DEF r
  <2>5. r.matched = hit
    <3>1. r = Result(hit, FALSE)
      BY <2>2, <2>4
    <3> HIDE DEF hit
    <3> QED
      BY <3>1 DEF Result
  <2>6. string_match(s, p) <=> p = <<>>
    BY <1>2, <1>3, <2>5
  <2> QED
    BY <1>3, <2>6 DEF FindsMatches
<1>4. CASE s # <<>>
  <2>1. Finds(r, p, s, 0)
    BY <1>1, <1>4, MatcherFinds DEF FindsUpTo
  <2> HIDE DEF r
  <2>2. Len(p) \in Nat /\ Len(p) >= Len(p)
    BY DEF Patterns
  <2>3. r.matched => Covered(p, s, Len(p))
    BY <2>1, <2>2 DEF Finds
  <2>4. Covered(p, s, MAX_DEPTH) => r.matched
    <3>1. 0 + MAX_DEPTH <= MAX_DEPTH
      BY <1>1
    <3> QED
      BY <1>1, <2>1, <3>1 DEF Finds
  <2> QED
    BY <1>2, <1>4, <2>3, <2>4 DEF FindsMatches
<1> QED
  BY <1>3, <1>4

-----------------------------------------------------------------------------
(***************************************************************************)
(* The patterns of the specification.                                      *)
(***************************************************************************)
PatternTyped ==
    /\ input = [kind |-> input.kind, body |-> input.body]
    /\ input.kind = "pattern" => input.body \in Patterns(MaxPattern)

(* A pattern is made of bytes and no longer than the bound. *)
LEMMA PatternIsTyped == Spec => []PatternTyped
<1>0. ASSUME NEW given \in {Start(kind) : kind \in Kinds}
      PROVE  given = [kind |-> given.kind, body |-> given.body] /\ given.body \in Patterns(MaxPattern)
  <2>1. PICK kind \in Kinds : given = [kind |-> kind, body |-> <<>>]
    BY DEF Start
  <2>2. given.kind = kind /\ given.body = <<>>
    BY <2>1
  <2>3. <<>> \in Patterns(MaxPattern)
    BY GlobAssumption DEF Patterns
  <2> QED
    BY <2>1, <2>2, <2>3
<1>1. Init => PatternTyped
  BY <1>0 DEF Init, PatternTyped
<1>2. PatternTyped /\ [Next]_input => PatternTyped'
  <2> SUFFICES ASSUME PatternTyped, [Next]_input PROVE PatternTyped'
    OBVIOUS
  <2> DEFINE p == input.body
  <2>1. CASE Restart
    BY <1>0, <2>1 DEF Restart, PatternTyped
  <2>2. CASE AddPatternByte
    <3>1. input.kind = "pattern"
      BY <2>2 DEF AddPatternByte
    <3>2. PICK byte \in PatternBytes :
            /\ Len(p) < MaxMixed \/ Len(p) < MaxPattern
            /\ input' = [input EXCEPT !.body = Append(p, byte)]
      BY <2>2 DEF AddPatternByte, Extend
    <3>3. p \in Seq(Byte) /\ Len(p) \in Nat /\ Len(p) <= MaxPattern
      BY <3>1 DEF PatternTyped, Patterns
    <3>4. input' = [kind |-> input.kind, body |-> Append(p, byte)]
      BY <3>2 DEF PatternTyped
    <3> HIDE DEF p
    <3>5. Append(p, byte) \in Seq(Byte) /\ Len(Append(p, byte)) = Len(p) + 1
      BY <3>3, PatternsAssumption
    <3>6. Append(p, byte) \in Patterns(MaxPattern)
      BY <3>2, <3>3, <3>5, PatternsAssumption, GlobAssumption DEF Patterns
    <3> QED
      BY <3>4, <3>6 DEF PatternTyped
  <2>3. CASE AddWord \/ AddToSettings \/ AddString \/ AddFrameByte
    <3>1. input.kind # "pattern"
      BY <2>3 DEF AddWord, AddToSettings, AddString, AddFrameByte, Extensible
    <3>2. PICK longer : input' = [input EXCEPT !.body = longer]
      BY <2>3 DEF AddWord, AddName, AddArgument, AddOption, AddToSettings, AddSetting, AddString,
                  AddFrameByte, Extend
    <3> QED
      BY <3>1, <3>2 DEF PatternTyped
  <2>4. CASE UNCHANGED input
    BY <2>4 DEF PatternTyped
  <2> QED
    BY <2>1, <2>2, <2>3, <2>4 DEF Next
<1> QED
  BY <1>1, <1>2, PTL DEF Spec

(* GlobFindsMatches is an invariant, for every MAX_DEPTH, every length of  *)
(* a pattern and every set of bytes and strings.                           *)
THEOREM PatternsFind == Spec => []GlobFindsMatches
<1>1. PatternTyped => GlobFindsMatches
  BY EveryPatternFinds, PatternsAssumption DEF PatternTyped, GlobFindsMatches
<1> QED
  BY <1>1, PatternIsTyped, PTL
=============================================================================
