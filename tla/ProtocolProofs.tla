--------------------------- MODULE ProtocolProofs ---------------------------
(***************************************************************************)
(* Proofs about the RESP2 codec, for every value, every text and every     *)
(* stream.                                                                 *)
(***************************************************************************)
EXTENDS Inputs, Iteration, SequenceTheorems

-----------------------------------------------------------------------------
(***************************************************************************)
(* Decimal text.                                                           *)
(***************************************************************************)
Digit == 48..57

(* The equation of digits_value. *)
ValueOf(f, ds) ==
    f = [n \in 0..Len(ds) |-> IF n = 0 THEN 0 ELSE 10 * f[n - 1] + (ds[n] - 48)]

(* It has a solution. *)
LEMMA ValueExists ==
  ASSUME NEW ds \in Seq(Digit)
  PROVE  \E f \in [0..Len(ds) -> Int] : ValueOf(f, ds)
<1> DEFINE F == [p \in Nat \X Int |-> 10 * p[2] + ((IF p[1] \in 1..Len(ds) THEN ds[p[1]] ELSE 48) - 48)]
<1>1. Len(ds) \in Nat /\ \A n \in 1..Len(ds) : ds[n] \in Int
  BY DEF Digit
<1>2. F \in [Nat \X Int -> Int]
  BY <1>1
<1>3. PICK f : Iterates(f, 0, F, Int, Len(ds))
  <2> HIDE DEF F
  <2>1. 0 \in Int
    OBVIOUS
  <2> QED
    BY <1>1, <1>2, <2>1, IterationExists
<1>4. f \in [0..Len(ds) -> Int] /\ f[0] = 0
  BY <1>3 DEF Iterates
<1>5. ASSUME NEW n \in 1..Len(ds) PROVE f[n] = 10 * f[n - 1] + (ds[n] - 48)
  <2>1. n \in Nat /\ n - 1 \in 0..Len(ds)
    BY <1>1
  <2>2. f[n] = F[<<n, f[n - 1]>>]
    BY <1>3 DEF Iterates
  <2>3. <<n, f[n - 1]>> \in Nat \X Int
    BY <1>4, <2>1
  <2> QED
    BY <2>2, <2>3
<1> HIDE DEF F
<1>6. \A n \in 0..Len(ds) : n # 0 => n \in 1..Len(ds)
  BY <1>1
<1>7. ValueOf(f, ds)
  BY <1>1, <1>4, <1>5, <1>6 DEF ValueOf
<1> QED
  BY <1>4, <1>7

(* digits_value solves the equation. *)
LEMMA ValueSolved ==
  ASSUME NEW ds \in Seq(Digit)
  PROVE  \E f \in [0..Len(ds) -> Int] : ValueOf(f, ds) /\ digits_value(ds) = f[Len(ds)]
<1> DEFINE f == CHOOSE f : ValueOf(f, ds)
<1>1. PICK g \in [0..Len(ds) -> Int] : ValueOf(g, ds)
  BY ValueExists
<1>2. ValueOf(f, ds)
  BY <1>1
<1>3. digits_value(ds) = f[Len(ds)]
  BY DEF digits_value, ValueOf
<1> HIDE DEF f
<1>4. Len(ds) \in Nat /\ \A n \in 1..Len(ds) : ds[n] \in Int
  BY DEF Digit
<1> DEFINE S == {n \in Nat : n <= Len(ds) => f[n] \in Int}
<1>5. 0 \in S
  BY <1>2, <1>4 DEF ValueOf
<1>6. ASSUME NEW n \in S PROVE n + 1 \in S
  <2>1. n \in Nat /\ n + 1 \in Nat /\ (n + 1) - 1 = n
    OBVIOUS
  <2>2. CASE n + 1 <= Len(ds)
    <3>1. n + 1 \in 0..Len(ds) /\ n + 1 # 0 /\ n + 1 \in 1..Len(ds) /\ n <= Len(ds)
      BY <1>4, <2>1, <2>2
    <3>2. f[n + 1] = 10 * f[(n + 1) - 1] + (ds[n + 1] - 48)
      BY <1>2, <3>1 DEF ValueOf
    <3>3. f[n] \in Int
      BY <3>1
    <3> QED
      BY <1>4, <2>1, <3>1, <3>2, <3>3
  <2> QED
    BY <2>1, <2>2
<1> HIDE DEF S
<1>7. S = Nat
  <2>1. S \in SUBSET Nat
    BY DEF S
  <2> QED
    BY <1>5, <1>6, <2>1, NumbersByInduction
<1>8. \A n \in 0..Len(ds) : f[n] \in Int
  BY <1>4, <1>7 DEF S
<1>9. f \in [0..Len(ds) -> Int]
  <2>1. f = [n \in 0..Len(ds) |-> f[n]]
    BY <1>2 DEF ValueOf
  <2> QED
    BY <1>8, <2>1
<1> QED
  BY <1>2, <1>3, <1>9

(* The value of the digits, by the last of them. *)
LEMMA DigitsValue ==
  ASSUME NEW ds \in Seq(Digit)
  PROVE  /\ digits_value(ds) \in Int
         /\ \A d \in Digit : digits_value(Append(ds, d)) = 10 * digits_value(ds) + (d - 48)
<1>1. Len(ds) \in Nat /\ \A n \in 1..Len(ds) : ds[n] \in Int
  BY DEF Digit
<1>2. PICK f \in [0..Len(ds) -> Int] : ValueOf(f, ds) /\ digits_value(ds) = f[Len(ds)]
  BY ValueSolved
<1>3. digits_value(ds) \in Int
  BY <1>1, <1>2
<1>4. ASSUME NEW d \in Digit
      PROVE  digits_value(Append(ds, d)) = 10 * digits_value(ds) + (d - 48)
  <2> DEFINE es == Append(ds, d)
  <2>1. es \in Seq(Digit) /\ Len(es) = Len(ds) + 1 /\ es[Len(ds) + 1] = d
        /\ \A n \in 1..Len(ds) : es[n] = ds[n]
    OBVIOUS
  <2> HIDE DEF es
  <2>2. PICK g \in [0..Len(es) -> Int] : ValueOf(g, es) /\ digits_value(es) = g[Len(es)]
    BY <2>1, ValueSolved
  <2> DEFINE S == {n \in Nat : n <= Len(ds) => g[n] = f[n]}
  <2>3. 0 \in S
    BY <1>1, <1>2, <2>1, <2>2 DEF ValueOf
  <2>4. ASSUME NEW n \in S PROVE n + 1 \in S
    <3>1. n \in Nat /\ n + 1 \in Nat /\ (n + 1) - 1 = n
      OBVIOUS
    <3>2. CASE n + 1 <= Len(ds)
      <4>1. n + 1 \in 0..Len(ds) /\ n + 1 # 0 /\ n + 1 \in 1..Len(ds) /\ n <= Len(ds) /\ n + 1 \in 0..Len(es)
        BY <1>1, <2>1, <3>1, <3>2
      <4>2. f[n + 1] = 10 * f[(n + 1) - 1] + (ds[n + 1] - 48)
        BY <1>2, <4>1 DEF ValueOf
      <4>3. g[n + 1] = 10 * g[(n + 1) - 1] + (es[n + 1] - 48)
        BY <2>2, <4>1 DEF ValueOf
      <4>4. g[n] = f[n]
        BY <4>1
      <4> QED
        BY <2>1, <3>1, <4>1, <4>2, <4>3, <4>4
    <3> QED
      BY <3>1, <3>2
  <2> HIDE DEF S
  <2>5. S = Nat
    <3>1. S \in SUBSET Nat
      BY DEF S
    <3> QED
      BY <2>3, <2>4, <3>1, NumbersByInduction
  <2>6. g[Len(ds)] = f[Len(ds)]
    BY <1>1, <2>5 DEF S
  <2>7. Len(es) \in 0..Len(es) /\ Len(es) # 0 /\ Len(es) - 1 = Len(ds)
    BY <1>1, <2>1
  <2>8. g[Len(es)] = 10 * g[Len(es) - 1] + (es[Len(es)] - 48)
    BY <2>2, <2>7 DEF ValueOf
  <2> QED
    BY <1>2, <2>1, <2>2, <2>6, <2>7, <2>8 DEF es
<1> QED
  BY <1>3, <1>4

(* The value of no digits, and of one. *)
LEMMA FirstDigit ==
  /\ digits_value(<<>>) = 0
  /\ \A d \in Digit : digits_value(<<d>>) = d - 48
<1>1. <<>> \in Seq(Digit) /\ Len(<<>>) = 0
  OBVIOUS
<1>2. PICK f \in [0..Len(<<>>) -> Int] : ValueOf(f, <<>>) /\ digits_value(<<>>) = f[Len(<<>>)]
  BY <1>1, ValueSolved
<1>3. digits_value(<<>>) = 0
  BY <1>1, <1>2 DEF ValueOf
<1>4. ASSUME NEW d \in Digit PROVE digits_value(<<d>>) = d - 48
  <2>1. <<d>> = Append(<<>>, d)
    OBVIOUS
  <2>2. digits_value(Append(<<>>, d)) = 10 * 0 + (d - 48)
    BY <1>1, <1>3, DigitsValue
  <2>3. 10 * 0 + (d - 48) = d - 48
    BY DEF Digit
  <2> QED
    BY <2>1, <2>2, <2>3
<1> QED
  BY <1>3, <1>4

(* The equation of decimal. *)
TextOf(f, n) ==
    f = [m \in 0..n |-> IF m < 10 THEN <<48 + m>> ELSE Append(f[m \div 10], 48 + (m % 10))]

(* What division by ten leaves. *)
LEMMA Tenth ==
  ASSUME NEW m \in Nat, m >= 10
  PROVE  /\ m \div 10 \in 1..(m - 1) /\ m % 10 \in 0..9 /\ 48 + (m % 10) \in Digit
         /\ m = 10 * (m \div 10) + (m % 10)
BY DEF Digit

(* It has a solution. *)
LEMMA TextExists ==
  ASSUME NEW N \in Nat
  PROVE  \E f : TextOf(f, N)
<1> DEFINE S == {n \in Nat : \E f : TextOf(f, n)}
<1>1. 0 \in S
  <2> DEFINE f == [m \in 0..0 |-> <<48 + m>>]
  <2>1. TextOf(f, 0)
    BY DEF TextOf
  <2> QED
    BY <2>1
<1>2. ASSUME NEW n \in S PROVE n + 1 \in S
  <2>1. n \in Nat /\ n + 1 \in Nat
    OBVIOUS
  <2>2. PICK f : TextOf(f, n)
    OBVIOUS
  <2> DEFINE last == IF n + 1 < 10 THEN <<48 + (n + 1)>>
                     ELSE Append(f[(n + 1) \div 10], 48 + ((n + 1) % 10))
             g == [m \in 0..(n + 1) |-> IF m = n + 1 THEN last ELSE f[m]]
  <2>3. \A m \in 0..n : g[m] = f[m]
    BY <2>1
  <2>4. g[n + 1] = last
    BY <2>1
  <2>5. g = [m \in 0..(n + 1) |-> g[m]]
    OBVIOUS
  <2> HIDE DEF g
  <2>6. ASSUME NEW m \in 0..(n + 1)
        PROVE  g[m] = IF m < 10 THEN <<48 + m>> ELSE Append(g[m \div 10], 48 + (m % 10))
    <3>1. m \in Nat
      BY <2>1
    <3>2. m >= 10 => m \div 10 \in 0..n
      BY <2>1, <3>1, Tenth
    <3>3. CASE m = n + 1
      BY <2>3, <2>4, <3>1, <3>2, <3>3
    <3>4. CASE m \in 0..n
      <4>1. f[m] = IF m < 10 THEN <<48 + m>> ELSE Append(f[m \div 10], 48 + (m % 10))
        BY <2>2, <3>4 DEF TextOf
      <4> QED
        BY <2>3, <3>1, <3>2, <3>4, <4>1
    <3> QED
      BY <2>1, <3>3, <3>4
  <2>7. TextOf(g, n + 1)
    BY <2>5, <2>6 DEF TextOf
  <2> QED
    BY <2>1, <2>7
<1> HIDE DEF S
<1>3. S = Nat
  <2>1. S \in SUBSET Nat
    BY DEF S
  <2> QED
    BY <1>1, <1>2, <2>1, NumbersByInduction
<1> QED
  BY <1>3 DEF S

(* The text of a number: digits, at least one, without a leading zero, of  *)
(* that value.                                                             *)
Writes(text, m) ==
    /\ text \in Seq(Digit) /\ Len(text) > 0
    /\ digits_value(text) = m
    /\ m > 0 => text[1] # 48

(* decimal writes every number. *)
LEMMA DecimalWrites ==
  ASSUME NEW n \in Nat
  PROVE  Writes(decimal(n), n)
<1> DEFINE f == CHOOSE f : TextOf(f, n)
<1>1. TextOf(f, n)
  BY TextExists
<1>2. decimal(n) = f[n]
  BY DEF decimal, TextOf
<1> HIDE DEF f
<1> DEFINE S == {k \in Nat : \A m \in 0..n : m <= k => Writes(f[m], m)}
<1>3. ASSUME NEW m \in 0..n, m < 10 PROVE Writes(f[m], m)
  <2>1. f[m] = <<48 + m>>
    BY <1>1, <1>3 DEF TextOf
  <2>2. 48 + m \in Digit
    BY <1>3 DEF Digit
  <2>3. <<48 + m>> \in Seq(Digit) /\ Len(<<48 + m>>) > 0 /\ <<48 + m>>[1] = 48 + m
    BY <2>2
  <2>4. digits_value(<<48 + m>>) = m
    <3>1. (48 + m) - 48 = m
      BY <1>3
    <3> QED
      BY <2>2, <3>1, FirstDigit
  <2> QED
    BY <1>3, <2>1, <2>3, <2>4 DEF Writes
<1>4. 0 \in S
  <2>1. \A m \in 0..n : m <= 0 => m < 10
    OBVIOUS
  <2> QED
    BY <1>3, <2>1
<1>5. ASSUME NEW k \in S PROVE k + 1 \in S
  <2>1. k \in Nat /\ k + 1 \in Nat
    OBVIOUS
  <2>2. ASSUME NEW m \in 0..n, m <= k + 1, m >= 10 PROVE Writes(f[m], m)
    <3>1. m \in Nat
      OBVIOUS
    <3> DEFINE t == m \div 10
               u == m % 10
    <3>2. t \in 1..(m - 1) /\ u \in 0..9 /\ 48 + u \in Digit /\ m = 10 * t + u
      BY <2>2, <3>1, Tenth
    <3>3. f[m] = Append(f[t], 48 + u)
      <4>1. ~(m < 10)
        BY <2>2, <3>1
      <4>2. f[m] = IF m < 10 THEN <<48 + m>> ELSE Append(f[m \div 10], 48 + (m % 10))
        BY <1>1 DEF TextOf
      <4> QED
        BY <4>1, <4>2
    <3> HIDE DEF t, u
    <3>4. t \in 0..n /\ t <= k /\ t > 0
      BY <2>1, <2>2, <3>2
    <3>5. Writes(f[t], t)
      BY <3>4
    <3>6. f[m] \in Seq(Digit) /\ Len(f[m]) > 0 /\ f[m][1] = f[t][1]
      BY <3>2, <3>3, <3>5 DEF Writes
    <3>7. digits_value(f[m]) = 10 * t + ((48 + u) - 48)
      BY <3>2, <3>3, <3>5, DigitsValue DEF Writes
    <3>8. 10 * t + ((48 + u) - 48) = m
      BY <3>2
    <3> QED
      BY <3>4, <3>5, <3>6, <3>7, <3>8 DEF Writes
  <2> QED
    BY <1>3, <2>1, <2>2
<1> HIDE DEF S
<1>6. S = Nat
  <2>1. S \in SUBSET Nat
    BY DEF S
  <2> QED
    BY <1>4, <1>5, <2>1, NumbersByInduction
<1>7. n \in 0..n /\ n <= n
  OBVIOUS
<1> QED
  BY <1>2, <1>6, <1>7 DEF S

(* A text without a line feed. *)
Line == {s \in Seq(Byte) : OneLine(s)}

(* Digits are a line, and are read as their value. *)
LEMMA DigitsAreRead ==
  ASSUME NEW ds \in Seq(Digit), Len(ds) > 0
  PROVE  ds \in Line /\ parse_i64(ds) = digits_value(ds)
<1>1. \A i \in DOMAIN ds : ds[i] \in Digit /\ i \in 1..Len(ds)
  OBVIOUS
<1>2. ds # <<>> /\ ds[1] \in Digit
  OBVIOUS
<1>3. \A d \in Digit : d \in Byte /\ d # LF /\ d \notin {Plus, Minus} /\ d # Minus /\ d \in 48..57
  BY DEF Digit, Byte, LF, Plus, Minus
<1>4. ds \in Seq(Byte)
  BY <1>3, SeqMonotonic
<1>5. ds \in Line
  BY <1>1, <1>3, <1>4 DEF Line, OneLine
<1>6. parse_i64(ds) = digits_value(ds)
  BY <1>1, <1>2, <1>3 DEF parse_i64
<1> QED
  BY <1>5, <1>6

(* Every integer is written as a line, and read as itself. *)
LEMMA IntegerRoundTrip ==
  ASSUME NEW n \in Int
  PROVE  to_text(n) \in Line /\ parse_i64(to_text(n)) = n
<1>1. CASE n >= 0
  <2>1. n \in Nat
    BY <1>1
  <2>2. Writes(decimal(n), n)
    BY <2>1, DecimalWrites
  <2>3. to_text(n) = decimal(n)
    BY <1>1 DEF to_text
  <2> QED
    BY <2>2, <2>3, DigitsAreRead DEF Writes
<1>2. CASE n < 0
  <2> DEFINE ds == decimal(-n)
             text == <<Minus>> \o ds
  <2>1. -n \in Nat
    BY <1>2
  <2>2. Writes(ds, -n)
    BY <2>1, DecimalWrites
  <2>3. to_text(n) = text
    BY <1>2 DEF to_text
  <2> HIDE DEF ds
  <2>4. ds \in Line /\ ds \in Seq(Byte) /\ ds # <<>> /\ ds \in Seq(Digit)
    BY <2>2, DigitsAreRead DEF Writes, Line
  <2>5. text \in Seq(Byte) /\ text # <<>> /\ text[1] = Minus /\ Tail(text) = ds
    BY <2>4 DEF Byte, Minus
  <2>6. \A i \in DOMAIN text : text[i] # LF
    <3>1. \A i \in DOMAIN ds : ds[i] # LF
      BY <2>4 DEF Line, OneLine
    <3>2. ASSUME NEW i \in DOMAIN text PROVE text[i] # LF
      <4>1. CASE i = 1
        BY <2>5, <4>1 DEF LF, Minus
      <4>2. CASE i # 1
        <5>1. i - 1 \in DOMAIN ds /\ text[i] = ds[i - 1]
          BY <2>4, <4>2
        <5> QED
          BY <3>1, <5>1
      <4> QED
        BY <4>1, <4>2
    <3> QED
      BY <3>2
  <2>7. text \in Line
    BY <2>5, <2>6 DEF Line, OneLine
  <2> HIDE DEF text
  <2>8. \A i \in DOMAIN ds : ds[i] \in 48..57
    BY <2>4 DEF Digit
  <2>9. parse_i64(text) = -digits_value(ds)
    BY <2>4, <2>5, <2>8 DEF parse_i64
  <2>10. -(-n) = n
    OBVIOUS
  <2> QED
    BY <2>2, <2>3, <2>7, <2>9, <2>10 DEF Writes
<1> QED
  BY <1>1, <1>2

-----------------------------------------------------------------------------
(***************************************************************************)
(* Lines.  A frame starts with a header: a prefix, a text, a line break.   *)
(***************************************************************************)
Header(p, text) == <<p>> \o text \o CRLF

Prefix == {Plus, Minus, Colon, Dollar, Asterisk}

(* The bytes of a header. *)
LEMMA HeaderBytes ==
  ASSUME NEW p \in Prefix, NEW text \in Line
  PROVE  LET h == Header(p, text) IN
         /\ h \in Seq(Byte) /\ Len(h) = Len(text) + 3 /\ Len(text) \in Nat
         /\ h[1] = p /\ h[Len(h) - 1] = CR /\ h[Len(h)] = LF
         /\ \A i \in 1..Len(text) : h[i + 1] = text[i]
         /\ \A i \in 1..(Len(h) - 1) : h[i] # LF
<1> DEFINE h == Header(p, text)
           a == <<p>> \o text
<1>1. p \in Byte /\ p # LF /\ CRLF \in Seq(Byte) /\ CR # LF
  BY DEF Prefix, Plus, Minus, Colon, Dollar, Asterisk, Byte, CRLF, CR, LF
<1>2. text \in Seq(Byte) /\ \A i \in 1..Len(text) : text[i] # LF
  BY DEF Line, OneLine
<1>3. a \in Seq(Byte) /\ Len(a) = Len(text) + 1 /\ a[1] = p /\ \A i \in 1..Len(text) : a[i + 1] = text[i]
  BY <1>1, <1>2
<1>4. Len(CRLF) = 2 /\ CRLF[1] = CR /\ CRLF[2] = LF
  BY DEF CRLF
<1>5. Len(text) \in Nat
  BY <1>2
<1>6. h = a \o CRLF
  BY DEF Header
<1> HIDE DEF a, h
<1>7. /\ h \in Seq(Byte) /\ Len(h) = Len(text) + 3
      /\ h[Len(text) + 2] = CR /\ h[Len(text) + 3] = LF
      /\ \A i \in 1..(Len(text) + 1) : h[i] = a[i]
  <2>1. a \in Seq(Byte) /\ CRLF \in Seq(Byte)
    BY <1>1, <1>3
  <2>2. a \o CRLF \in Seq(Byte) /\ Len(a \o CRLF) = Len(a) + Len(CRLF)
    BY <2>1, ConcatProperties
  <2>3. \A i \in 1..(Len(a) + Len(CRLF)) : (a \o CRLF)[i] = IF i <= Len(a) THEN a[i] ELSE CRLF[i - Len(a)]
    BY <2>1, ConcatProperties
  <2>4. /\ Len(text) + 2 \in 1..(Len(a) + 2) /\ ~(Len(text) + 2 <= Len(a)) /\ (Len(text) + 2) - Len(a) = 1
        /\ Len(text) + 3 \in 1..(Len(a) + 2) /\ ~(Len(text) + 3 <= Len(a)) /\ (Len(text) + 3) - Len(a) = 2
        /\ Len(a) + 2 = Len(text) + 3
        /\ \A i \in 1..(Len(text) + 1) : i <= Len(a) /\ i \in 1..(Len(a) + 2)
    BY <1>3, <1>5
  <2>5. h \in Seq(Byte) /\ Len(h) = Len(a) + 2
    BY <1>4, <1>6, <2>2
  <2>6. \A i \in 1..(Len(a) + 2) : h[i] = IF i <= Len(a) THEN a[i] ELSE CRLF[i - Len(a)]
    BY <1>4, <1>6, <2>3
  <2>7. h[Len(text) + 2] = CR /\ h[Len(text) + 3] = LF
    BY <1>4, <2>4, <2>6
  <2> QED
    BY <2>4, <2>5, <2>6, <2>7
<1>8. h[1] = p /\ \A i \in 1..Len(text) : h[i + 1] = text[i]
  BY <1>3, <1>5, <1>7
<1>9. Len(h) - 1 = Len(text) + 2
  BY <1>5, <1>7
<1>10. ASSUME NEW i \in 1..(Len(h) - 1) PROVE h[i] # LF
  <2>1. CASE i = 1
    BY <1>1, <1>8, <2>1
  <2>2. CASE i = Len(text) + 2
    BY <1>1, <1>7, <2>2
  <2>3. CASE i # 1 /\ i # Len(text) + 2
    <3>1. i - 1 \in 1..Len(text) /\ (i - 1) + 1 = i
      BY <1>5, <1>9, <2>3
    <3> QED
      BY <1>2, <1>8, <3>1
  <2> QED
    BY <2>1, <2>2, <2>3
<1> QED
  BY <1>5, <1>7, <1>8, <1>9, <1>10 DEF h

(* A stream up to its first line feed. *)
LEMMA LineRead ==
  ASSUME NEW h \in Seq(Byte), NEW rest \in Seq(Byte), Len(h) > 0, h[Len(h)] = LF,
         \A i \in 1..(Len(h) - 1) : h[i] # LF
  PROVE  read_line(h \o rest) = [line |-> h, rest |-> rest]
<1> DEFINE s == h \o rest
           ends == {i \in DOMAIN s : s[i] = LF}
<1>1. s \in Seq(Byte) /\ Len(s) = Len(h) + Len(rest) /\ DOMAIN s = 1..Len(s)
      /\ Len(h) \in Nat /\ Len(rest) \in Nat
  OBVIOUS
<1>2. \A i \in 1..Len(h) : s[i] = h[i]
  OBVIOUS
<1>3. \A i \in 1..Len(rest) : s[Len(h) + i] = rest[i]
  OBVIOUS
<1> HIDE DEF s
<1>4. Len(h) \in ends /\ ends \subseteq Nat
  BY <1>1, <1>2
<1>5. \A j \in ends : Len(h) <= j
  <2>1. ASSUME NEW j \in ends, j < Len(h) PROVE FALSE
    <3>1. j \in 1..(Len(h) - 1) /\ j \in 1..Len(h)
      BY <1>1, <2>1
    <3> QED
      BY <1>2, <3>1
  <2> QED
    BY <1>1, <1>4, <2>1
<1>6. (CHOOSE i \in ends : \A j \in ends : i <= j) = Len(h)
  <2>1. \A i \in ends : (\A j \in ends : i <= j) => i = Len(h)
    <3>1. ASSUME NEW i \in ends, \A j \in ends : i <= j PROVE i = Len(h)
      <4>1. i <= Len(h) /\ Len(h) <= i /\ i \in Nat /\ Len(h) \in Nat
        BY <1>1, <1>4, <1>5, <3>1
      <4> QED
        BY <4>1
    <3> QED
      BY <3>1
  <2> HIDE DEF ends
  <2> QED
    BY <1>4, <1>5, <2>1
<1>7. line_length(s) = Len(h)
  <2>1. line_length(s) = IF ends = {} THEN Len(s) ELSE CHOOSE i \in ends : \A j \in ends : i <= j
    BY DEF line_length
  <2>2. ends # {}
    BY <1>4
  <2> HIDE DEF ends
  <2> QED
    BY <1>6, <2>1, <2>2
<1>8. SubSeq(s, 1, Len(h)) = h
  <2> DEFINE t == SubSeq(s, 1, Len(h))
  <2>1. \A i \in 1..Len(h) : s[i] \in Byte
    BY <1>2
  <2>2. t \in Seq(Byte) /\ Len(t) = Len(h) /\ \A i \in 1..Len(h) : t[i] = h[i]
    BY <1>1, <1>2, <2>1
  <2> HIDE DEF t
  <2> QED
    BY <2>2, SeqEqual DEF t
<1>9. SubSeq(s, Len(h) + 1, Len(s)) = rest
  <2> DEFINE t == SubSeq(s, Len(h) + 1, Len(s))
  <2>1. t \in Seq(Byte) /\ Len(t) = Len(rest) /\ \A i \in 1..Len(rest) : t[i] = s[Len(h) + i]
    BY <1>1
  <2> HIDE DEF t
  <2> QED
    BY <1>3, <2>1, SeqEqual DEF t
<1> QED
  BY <1>7, <1>8, <1>9 DEF read_line, s

(* parse_header returns the text of a header. *)
LEMMA HeaderParsed ==
  ASSUME NEW p \in Prefix, NEW text \in Line
  PROVE  parse_header(Header(p, text)) = text
<1> DEFINE h == Header(p, text)
           t == Tail(h)
           n == Len(t)
<1>1. /\ h \in Seq(Byte) /\ Len(h) = Len(text) + 3 /\ Len(text) \in Nat
      /\ h[1] = p /\ h[Len(h) - 1] = CR /\ h[Len(h)] = LF
      /\ \A i \in 1..Len(text) : h[i + 1] = text[i]
  BY HeaderBytes
<1>2. text \in Seq(Byte)
  BY DEF Line
<1> HIDE DEF h
<1>3. t \in Seq(Byte) /\ n = Len(text) + 2 /\ \A i \in 1..n : t[i] = h[i + 1]
  BY <1>1
<1> HIDE DEF t
<1>4. t[n - 1] = CR /\ t[n] = LF /\ n >= 2
  <2>1. n - 1 \in 1..n /\ n \in 1..n /\ (n - 1) + 1 = Len(h) - 1 /\ n + 1 = Len(h)
    BY <1>1, <1>3
  <2> QED
    BY <1>1, <1>3, <2>1
<1>5. parse_header(h) = SubSeq(t, 1, n - 2)
  BY <1>4 DEF parse_header, t
<1>6. SubSeq(t, 1, n - 2) = text
  <2> DEFINE u == SubSeq(t, 1, n - 2)
  <2>1. n - 2 = Len(text) /\ \A i \in 1..Len(text) : i \in 1..n
    BY <1>1, <1>3
  <2>2. u \in Seq(Byte) /\ Len(u) = Len(text) /\ \A i \in 1..Len(text) : u[i] = t[i]
    BY <1>1, <1>3, <2>1
  <2> HIDE DEF u
  <2> QED
    BY <1>1, <1>2, <1>3, <2>1, <2>2, SeqEqual DEF u
<1> QED
  BY <1>5, <1>6 DEF h

(* What the decoder does after the header of a frame. *)
LEMMA HeaderDecoded ==
  ASSUME NEW decoder, NEW text \in Line, NEW rest \in Seq(Byte)
  PROVE  /\ decode_by(decoder, Header(Plus, text) \o rest) = Decoded(SimpleString(text), rest)
         /\ decode_by(decoder, Header(Minus, text) \o rest) = Decoded(SimpleError(text), rest)
         /\ decode_by(decoder, Header(Colon, text) \o rest) =
               IF parse_i64(text) = None THEN RespError("InvalidInteger")
               ELSE Decoded(Integer(parse_i64(text)), rest)
         /\ decode_by(decoder, Header(Dollar, text) \o rest) = parse_bulk_string(text, rest)
         /\ decode_by(decoder, Header(Asterisk, text) \o rest) = parse_array(decoder, text, rest)
<1>1. ASSUME NEW p \in Prefix
      PROVE  /\ Header(p, text) \o rest # <<>>
             /\ read_line(Header(p, text) \o rest) = [line |-> Header(p, text), rest |-> rest]
             /\ parse_header(Header(p, text)) = text
             /\ Header(p, text)[1] = p
  <2> DEFINE h == Header(p, text)
  <2>1. /\ h \in Seq(Byte) /\ Len(h) = Len(text) + 3 /\ Len(text) \in Nat
        /\ h[1] = p /\ h[Len(h)] = LF
        /\ \A i \in 1..(Len(h) - 1) : h[i] # LF
    BY HeaderBytes
  <2>2. parse_header(h) = text
    BY HeaderParsed
  <2> HIDE DEF h
  <2>3. Len(h) > 0
    BY <2>1
  <2>4. read_line(h \o rest) = [line |-> h, rest |-> rest]
    BY <2>1, <2>3, LineRead
  <2>5. h \o rest # <<>>
    BY <2>1, <2>3
  <2> QED
    BY <2>1, <2>2, <2>4, <2>5 DEF h
<1>2. Plus \in Prefix /\ Minus \in Prefix /\ Colon \in Prefix /\ Dollar \in Prefix /\ Asterisk \in Prefix
  BY DEF Prefix
<1>3. /\ Plus # Minus /\ Plus # Colon /\ Plus # Dollar /\ Plus # Asterisk
      /\ Minus # Colon /\ Minus # Dollar /\ Minus # Asterisk
      /\ Colon # Dollar /\ Colon # Asterisk /\ Dollar # Asterisk
  BY DEF Plus, Minus, Colon, Dollar, Asterisk
<1>4. decode_by(decoder, Header(Plus, text) \o rest) = Decoded(SimpleString(text), rest)
  BY <1>1, <1>2, <1>3 DEF decode_by
<1>5. decode_by(decoder, Header(Minus, text) \o rest) = Decoded(SimpleError(text), rest)
  BY <1>1, <1>2, <1>3 DEF decode_by
<1>6. decode_by(decoder, Header(Colon, text) \o rest) =
         IF parse_i64(text) = None THEN RespError("InvalidInteger")
         ELSE Decoded(Integer(parse_i64(text)), rest)
  BY <1>1, <1>2, <1>3 DEF decode_by
<1>7. decode_by(decoder, Header(Dollar, text) \o rest) = parse_bulk_string(text, rest)
  BY <1>1, <1>2, <1>3 DEF decode_by
<1>8. decode_by(decoder, Header(Asterisk, text) \o rest) = parse_array(decoder, text, rest)
  BY <1>1, <1>2, <1>3 DEF decode_by
<1> QED
  BY <1>4, <1>5, <1>6, <1>7, <1>8

-----------------------------------------------------------------------------
(***************************************************************************)
(* Values other than arrays of values.                                     *)
(***************************************************************************)
(* Streams are joined in any order. *)
LEMMA Joined ==
  \A a, b, c \in Seq(Byte) : (a \o b) \o c = a \o (b \o c) /\ a \o b \in Seq(Byte)
BY ConcatAssociative, ConcatProperties

(* A length is read as it was written. *)
LEMMA LengthParsed ==
  ASSUME NEW n \in Int, n >= -1
  PROVE  parse_length(to_text(n)) = n
BY IntegerRoundTrip, Resp2Assumption DEF parse_length

(* The bytes of a stream behind the first ones. *)
LEMMA Behind ==
  ASSUME NEW s \in Seq(Byte), NEW t \in Seq(Byte)
  PROVE  /\ SubSeq(s \o t, 1, Len(s)) = s
         /\ SubSeq(s \o t, Len(s) + 1, Len(s \o t)) = t
<1> DEFINE w == s \o t
           a == SubSeq(w, 1, Len(s))
           b == SubSeq(w, Len(s) + 1, Len(w))
<1>1. w \in Seq(Byte) /\ Len(w) = Len(s) + Len(t) /\ Len(s) \in Nat /\ Len(t) \in Nat
  OBVIOUS
<1>2. (\A i \in 1..Len(s) : w[i] = s[i]) /\ (\A i \in 1..Len(t) : w[Len(s) + i] = t[i])
  OBVIOUS
<1> HIDE DEF w
<1>3. a \in Seq(Byte) /\ Len(a) = Len(s) /\ \A i \in 1..Len(s) : a[i] = w[i]
  BY <1>1
<1>4. b \in Seq(Byte) /\ Len(b) = Len(t) /\ \A i \in 1..Len(t) : b[i] = w[Len(s) + i]
  BY <1>1
<1> HIDE DEF a, b
<1>5. a = s
  BY <1>2, <1>3, SeqEqual
<1>6. b = t
  BY <1>2, <1>4, SeqEqual
<1> QED
  BY <1>5, <1>6 DEF a, b, w

(* A bulk string is read by its length, whatever bytes it holds. *)
LEMMA BulkParsed ==
  ASSUME NEW s \in Seq(Byte), NEW rest \in Seq(Byte)
  PROVE  parse_bulk_string(to_text(Len(s)), (s \o CRLF) \o rest) = Decoded(BulkString(s), rest)
<1> DEFINE c == s \o CRLF
           w == c \o rest
           n == Len(s)
<1>1. CRLF \in Seq(Byte) /\ Len(CRLF) = 2
  BY DEF CRLF, CR, LF, Byte
<1>2. n \in Int /\ n >= 0 /\ n # -1
  OBVIOUS
<1>3. parse_length(to_text(n)) = n
  BY <1>2, LengthParsed
<1>4. c \in Seq(Byte) /\ Len(c) = n + 2
  <2>1. c \in Seq(Byte) /\ Len(c) = Len(s) + Len(CRLF)
    BY <1>1, ConcatProperties
  <2> QED
    BY <1>1, <2>1
<1>5. SubSeq(w, n + 3, Len(w)) = rest
  <2>1. SubSeq(w, Len(c) + 1, Len(w)) = rest
    BY <1>4, Behind
  <2>2. Len(c) + 1 = n + 3
    BY <1>2, <1>4
  <2> QED
    BY <2>1, <2>2
<1>6. SubSeq(w, 1, n) = s
  <2>1. w = s \o (CRLF \o rest) /\ CRLF \o rest \in Seq(Byte)
    BY <1>1, ConcatAssociative, ConcatProperties
  <2> QED
    BY <2>1, Behind
<1>7. ~(Len(w) < n + 2)
  <2>1. Len(w) = Len(c) + Len(rest) /\ Len(rest) \in Nat
    <3>1. c \in Seq(Byte)
      BY <1>4
    <3> HIDE DEF c
    <3> QED
      BY <3>1, ConcatProperties
  <2> QED
    BY <1>2, <1>4, <2>1
<1>8. n # None
  BY <1>2, Resp2Assumption
<1> HIDE DEF w, n, c
<1>9. parse_bulk_string(to_text(n), w) = Decoded(BulkString(s), rest)
  BY <1>2, <1>3, <1>5, <1>6, <1>7, <1>8 DEF parse_bulk_string
<1> QED
  BY <1>9 DEF w, n, c

(* The null bulk string and the null array. *)
LEMMA NullParsed ==
  ASSUME NEW decoder, NEW rest \in Seq(Byte)
  PROVE  /\ parse_bulk_string(to_text(-1), rest) = Decoded(BulkString(None), rest)
         /\ parse_array(decoder, to_text(-1), rest) = Decoded(Array(None), rest)
<1>1. parse_length(to_text(-1)) = -1
  BY LengthParsed
<1>2. -1 # None
  BY Resp2Assumption
<1> QED
  BY <1>1, <1>2 DEF parse_bulk_string, parse_array

(* A header, and the bytes behind it. *)
LEMMA HeaderTyped ==
  ASSUME NEW p \in Prefix, NEW text \in Line
  PROVE  Header(p, text) \in Seq(Byte) /\ Header(p, text) # <<>>
<1> DEFINE h == Header(p, text)
<1>1. h \in Seq(Byte) /\ Len(h) = Len(text) + 3 /\ Len(text) \in Nat
  BY HeaderBytes
<1> HIDE DEF h
<1>2. h # <<>>
  BY <1>1
<1> QED
  BY <1>1, <1>2 DEF h

(* A value that holds no other is encoded as bytes, at least one, and      *)
(* decoded as itself, by any coders of the values inside of it.            *)
LEMMA ScalarRoundTrip ==
  ASSUME NEW encoder, NEW decoder, NEW v \in Scalar(Line), NEW rest \in Seq(Byte)
  PROVE  /\ encode_by(encoder, v) \in Seq(Byte) /\ encode_by(encoder, v) # <<>>
         /\ decode_by(decoder, encode_by(encoder, v) \o rest) = Decoded(v, rest)
<1>1. Plus \in Prefix /\ Minus \in Prefix /\ Colon \in Prefix /\ Dollar \in Prefix /\ Asterisk \in Prefix
  BY DEF Prefix
<1>2. CASE \E s \in Line : v = SimpleString(s)
  <2>1. PICK s \in Line : v = SimpleString(s)
    BY <1>2
  <2>2. encode_by(encoder, v) = Header(Plus, s)
    BY <2>1 DEF encode_by, Header, SimpleString
  <2> QED
    BY <1>1, <2>1, <2>2, HeaderDecoded, HeaderTyped
<1>3. CASE \E s \in Line : v = SimpleError(s)
  <2>1. PICK s \in Line : v = SimpleError(s)
    BY <1>3
  <2>2. encode_by(encoder, v) = Header(Minus, s)
    BY <2>1 DEF encode_by, Header, SimpleError
  <2> QED
    BY <1>1, <2>1, <2>2, HeaderDecoded, HeaderTyped
<1>4. CASE \E n \in Int : v = Integer(n)
  <2>1. PICK n \in Int : v = Integer(n)
    BY <1>4
  <2>2. encode_by(encoder, v) = Header(Colon, to_text(n))
    BY <2>1 DEF encode_by, Header, Integer
  <2>3. to_text(n) \in Line /\ parse_i64(to_text(n)) = n /\ n # None
    BY IntegerRoundTrip, Resp2Assumption
  <2>4. decode_by(decoder, Header(Colon, to_text(n)) \o rest) =
           IF parse_i64(to_text(n)) = None THEN RespError("InvalidInteger")
           ELSE Decoded(Integer(parse_i64(to_text(n))), rest)
    BY <2>3, HeaderDecoded
  <2> QED
    BY <1>1, <2>1, <2>2, <2>3, <2>4, HeaderTyped
<1>5. CASE v = BulkString(None)
  <2>1. encode_by(encoder, v) = Header(Dollar, to_text(-1))
    BY <1>5 DEF encode_by, encode_bulk_string, Header, BulkString
  <2>2. to_text(-1) \in Line
    BY IntegerRoundTrip
  <2>3. decode_by(decoder, Header(Dollar, to_text(-1)) \o rest) = Decoded(BulkString(None), rest)
    BY <2>2, HeaderDecoded, NullParsed
  <2> QED
    BY <1>1, <1>5, <2>1, <2>2, <2>3, HeaderTyped
<1>6. CASE v = Array(None)
  <2>1. encode_by(encoder, v) = Header(Asterisk, to_text(-1))
    BY <1>6 DEF encode_by, encode_array, Header, Array
  <2>2. to_text(-1) \in Line
    BY IntegerRoundTrip
  <2>3. decode_by(decoder, Header(Asterisk, to_text(-1)) \o rest) = Decoded(Array(None), rest)
    BY <2>2, HeaderDecoded, NullParsed
  <2> QED
    BY <1>1, <1>6, <2>1, <2>2, <2>3, HeaderTyped
<1>7. CASE \E s \in Seq(Byte) : v = BulkString(s)
  <2>1. PICK s \in Seq(Byte) : v = BulkString(s)
    BY <1>7
  <2> DEFINE h == Header(Dollar, to_text(Len(s)))
  <2>2. s # None
    BY Resp2Assumption
  <2>3. encode_by(encoder, v) = (h \o s) \o CRLF
    BY <2>1, <2>2 DEF encode_by, encode_bulk_string, Header, BulkString
  <2>4. Len(s) \in Int
    OBVIOUS
  <2>5. to_text(Len(s)) \in Line
    BY <2>4, IntegerRoundTrip
  <2>6. h \in Seq(Byte) /\ h # <<>>
    BY <1>1, <2>5, HeaderTyped
  <2>7. decode_by(decoder, h \o ((s \o CRLF) \o rest)) = parse_bulk_string(to_text(Len(s)), (s \o CRLF) \o rest)
    <3>1. CRLF \in Seq(Byte)
      BY DEF CRLF, CR, LF, Byte
    <3>2. (s \o CRLF) \o rest \in Seq(Byte)
      BY <3>1, ConcatProperties
    <3> QED
      BY <2>5, <3>2, HeaderDecoded
  <2> HIDE DEF h
  <2>8. /\ (h \o s) \o CRLF \in Seq(Byte) /\ (h \o s) \o CRLF # <<>>
        /\ ((h \o s) \o CRLF) \o rest = h \o ((s \o CRLF) \o rest)
    <3>1. CRLF \in Seq(Byte)
      BY DEF CRLF, CR, LF, Byte
    <3>2. h \o s \in Seq(Byte) /\ s \o CRLF \in Seq(Byte)
      BY <2>6, <3>1, ConcatProperties
    <3>3. (h \o s) \o CRLF = h \o (s \o CRLF) /\ h \o (s \o CRLF) \in Seq(Byte)
      BY <2>6, <3>1, <3>2, ConcatAssociative, ConcatProperties
    <3>4. (h \o (s \o CRLF)) \o rest = h \o ((s \o CRLF) \o rest)
      <4> DEFINE b == s \o CRLF
      <4>1. b \in Seq(Byte)
        BY <3>2
      <4> HIDE DEF b
      <4>2. (h \o b) \o rest = h \o (b \o rest)
        BY <2>6, <4>1, ConcatAssociative
      <4> QED
        BY <4>2 DEF b
    <3>5. h \o (s \o CRLF) # <<>>
      BY <2>6, <3>2, ConcatEqualIffEmpty
    <3> QED
      BY <3>3, <3>4, <3>5
  <2> QED
    BY <2>1, <2>3, <2>7, <2>8, BulkParsed
<1> QED
  BY <1>2, <1>3, <1>4, <1>5, <1>6, <1>7
     DEF Scalar, SimpleString, SimpleError, Integer, BulkString, Array

-----------------------------------------------------------------------------
(***************************************************************************)
(* Arrays: the items, one after the other.                                 *)
(***************************************************************************)
(* A value read is not an error. *)
LEMMA ReadOrError ==
  /\ \A v, rest : /\ ~IsError(Decoded(v, rest))
                  /\ Decoded(v, rest).value = v /\ Decoded(v, rest).rest = rest
  /\ \A e : IsError(RespError(e)) /\ RespError(e).resp_error = e
BY DEF IsError, Decoded, RespError

(* An encoder writes every value as bytes. *)
WritesBytes(encoder, T) == \A v \in T : encoder[v] \in Seq(Byte)

(* The equation of encode_items: the encoding of the last n items. *)
LastOf(f, encoder, items) ==
    f = [n \in 0..Len(items) |-> IF n = 0 THEN <<>> ELSE encoder[items[Len(items) - n + 1]] \o f[n - 1]]

(* It has a solution, of bytes, and encode_items is one. *)
LEMMA ItemsEncoded ==
  ASSUME NEW T, NEW items \in Seq(T), NEW encoder, WritesBytes(encoder, T)
  PROVE  \E f \in [0..Len(items) -> Seq(Byte)] :
            LastOf(f, encoder, items) /\ encode_items(encoder, items) = f[Len(items)]
<1> DEFINE L == Len(items)
           V == Seq(Byte)
           Of(n) == encoder[items[Len(items) - n + 1]]
           F == [p \in Nat \X V |-> (IF p[1] \in 1..L THEN Of(p[1]) ELSE <<>>) \o p[2]]
           g == CHOOSE h : LastOf(h, encoder, items)
<1>1. L \in Nat
  OBVIOUS
<1>2. ASSUME NEW n \in 1..L PROVE Of(n) \in V
  <2>1. L - n + 1 \in 1..L
    BY <1>1
  <2>2. items[L - n + 1] \in T
    BY <2>1, ElementOfSeq
  <2> QED
    BY <2>2 DEF WritesBytes
<1>3. <<>> \in V
  OBVIOUS
<1> HIDE DEF V, L, Of
<1>4. F \in [Nat \X V -> V]
  <2>1. ASSUME NEW p \in Nat \X V PROVE (IF p[1] \in 1..L THEN Of(p[1]) ELSE <<>>) \o p[2] \in V
    <3>1. p[2] \in V
      OBVIOUS
    <3>2. (IF p[1] \in 1..L THEN Of(p[1]) ELSE <<>>) \in V
      BY <1>2, <1>3
    <3> QED
      BY <3>1, <3>2, ConcatProperties DEF V
  <2> QED
    BY <2>1
<1>5. PICK f : Iterates(f, <<>>, F, V, L)
  <2> HIDE DEF F
  <2> QED
    BY <1>1, <1>3, <1>4, IterationExists
<1>6. f \in [0..L -> V] /\ f[0] = <<>>
  BY <1>5 DEF Iterates
<1>7. ASSUME NEW n \in 1..L PROVE f[n] = Of(n) \o f[n - 1]
  <2>1. n \in Nat /\ n - 1 \in 0..L
    BY <1>1
  <2>2. f[n] = F[<<n, f[n - 1]>>]
    BY <1>5 DEF Iterates
  <2>3. <<n, f[n - 1]>> \in Nat \X V
    BY <1>6, <2>1
  <2> QED
    BY <2>2, <2>3
<1> HIDE DEF F
<1>8. \A n \in 0..L : n # 0 => n \in 1..L
  BY <1>1
<1>9. LastOf(f, encoder, items)
  <2>1. f = [n \in 0..L |-> IF n = 0 THEN <<>> ELSE Of(n) \o f[n - 1]]
    BY <1>1, <1>6, <1>7, <1>8
  <2> QED
    BY <2>1 DEF LastOf, Of, L
<1>10. LastOf(g, encoder, items)
  BY <1>9
<1>11. encode_items(encoder, items) = g[L]
  BY DEF encode_items, LastOf, L
<1> HIDE DEF g
<1>12. g = [n \in 0..L |-> IF n = 0 THEN <<>> ELSE Of(n) \o g[n - 1]]
  BY <1>10 DEF LastOf, Of, L
<1> DEFINE S == {n \in Nat : n <= L => g[n] = f[n]}
<1>13. 0 \in S
  BY <1>1, <1>6, <1>12
<1>14. ASSUME NEW n \in S PROVE n + 1 \in S
  <2>1. n \in Nat /\ n + 1 \in Nat /\ (n + 1) - 1 = n
    OBVIOUS
  <2>2. CASE n + 1 <= L
    <3>1. n + 1 \in 0..L /\ n + 1 # 0 /\ n + 1 \in 1..L /\ n <= L
      BY <1>1, <2>1, <2>2
    <3>2. g[n + 1] = Of(n + 1) \o g[(n + 1) - 1]
      BY <1>12, <3>1
    <3>3. f[n + 1] = Of(n + 1) \o f[(n + 1) - 1]
      BY <1>7, <3>1
    <3>4. g[n] = f[n]
      BY <3>1
    <3> QED
      BY <2>1, <3>2, <3>3, <3>4
  <2> QED
    BY <2>1, <2>2
<1> HIDE DEF S
<1>15. S = Nat
  <2>1. S \in SUBSET Nat
    BY DEF S
  <2> QED
    BY <1>13, <1>14, <2>1, NumbersByInduction
<1>16. g[L] = f[L]
  BY <1>1, <1>15 DEF S
<1> QED
  BY <1>6, <1>9, <1>11, <1>16 DEF L, V

(* What one more item makes of the items read so far. *)
NextItem(decoder, before) ==
    LET r == decoder[before.rest]
    IN  IF IsError(before) THEN before
        ELSE IF IsError(r) THEN r
        ELSE Decoded(Append(before.value, r.value), r.rest)

(* The equation of decode_items. *)
ItemsOf(g, decoder, n, stream) ==
    g = [k \in 0..n |-> IF k = 0 THEN Decoded(<<>>, stream) ELSE NextItem(decoder, g[k - 1])]

(* It has a solution. *)
LEMMA ItemsExist ==
  ASSUME NEW decoder, NEW N \in Nat, NEW stream
  PROVE  \E g : ItemsOf(g, decoder, N, stream)
<1> DEFINE Step(b) == NextItem(decoder, b)
           None0 == Decoded(<<>>, stream)
           Upto(n, g) == g = [k \in 0..n |-> IF k = 0 THEN None0 ELSE Step(g[k - 1])]
           S == {n \in Nat : \E g : Upto(n, g)}
<1> HIDE DEF Step, None0
<1>1. 0 \in S
  <2> DEFINE f == [k \in 0..0 |-> None0]
  <2>1. Upto(0, f)
    OBVIOUS
  <2> QED
    BY <2>1
<1>2. ASSUME NEW n \in S PROVE n + 1 \in S
  <2>1. n \in Nat /\ n + 1 \in Nat
    OBVIOUS
  <2>2. PICK f : Upto(n, f)
    OBVIOUS
  <2> DEFINE g == [k \in 0..(n + 1) |-> IF k = n + 1 THEN Step(f[n]) ELSE f[k]]
  <2>3. \A k \in 0..n : g[k] = f[k]
    BY <2>1
  <2>4. g[n + 1] = Step(f[n])
    BY <2>1
  <2>5. g = [k \in 0..(n + 1) |-> g[k]]
    OBVIOUS
  <2> HIDE DEF g
  <2>6. ASSUME NEW k \in 0..(n + 1) PROVE g[k] = IF k = 0 THEN None0 ELSE Step(g[k - 1])
    <3>1. CASE k = n + 1
      <4>1. k # 0 /\ k - 1 = n /\ n \in 0..n
        BY <2>1, <3>1
      <4> QED
        BY <2>3, <2>4, <3>1, <4>1
    <3>2. CASE k \in 0..n
      <4>1. k # 0 => k - 1 \in 0..n
        BY <2>1, <3>2
      <4>2. f[k] = IF k = 0 THEN None0 ELSE Step(f[k - 1])
        BY <2>2, <3>2
      <4> QED
        BY <2>3, <3>2, <4>1, <4>2
    <3> QED
      BY <2>1, <3>1, <3>2
  <2>7. Upto(n + 1, g)
    BY <2>5, <2>6
  <2> HIDE DEF Upto
  <2> QED
    BY <2>1, <2>7
<1> HIDE DEF S
<1>3. S = Nat
  <2>1. S \in SUBSET Nat
    BY DEF S
  <2> QED
    BY <1>1, <1>2, <2>1, NumbersByInduction
<1> QED
  BY <1>3 DEF S, ItemsOf, Step, None0

(* n items, one by one. *)
StepByStep(g, decoder, n, stream) ==
    /\ g[0] = Decoded(<<>>, stream)
    /\ \A k \in 1..n : g[k] = NextItem(decoder, g[k - 1])

(* That is how decode_items decodes them. *)
LEMMA ItemsDecoded ==
  ASSUME NEW decoder, NEW N \in Nat, NEW stream
  PROVE  \E g : StepByStep(g, decoder, N, stream) /\ decode_items(decoder, N, stream) = g[N]
<1> DEFINE g == CHOOSE h : ItemsOf(h, decoder, N, stream)
<1>1. ItemsOf(g, decoder, N, stream)
  BY ItemsExist
<1>2. decode_items(decoder, N, stream) = g[N]
  BY DEF decode_items, ItemsOf, NextItem
<1> HIDE DEF g
<1>3. g[0] = Decoded(<<>>, stream)
  BY <1>1 DEF ItemsOf
<1>4. ASSUME NEW k \in 1..N PROVE g[k] = NextItem(decoder, g[k - 1])
  <2>1. k \in 0..N /\ k # 0
    OBVIOUS
  <2> QED
    BY <1>1, <2>1 DEF ItemsOf
<1> QED
  BY <1>2, <1>3, <1>4 DEF StepByStep

(* A decoder reads back what an encoder wrote, on streams of at most n     *)
(* bytes.                                                                  *)
ReadsBack(decoder, encoder, T, n) ==
    \A v \in T : \A rest \in Seq(Byte) :
        Len(encoder[v] \o rest) <= n => decoder[encoder[v] \o rest] = Decoded(v, rest)

(* The items are read back one by one, each from where the one before it   *)
(* ends.                                                                   *)
LEMMA ItemsReadBack ==
  ASSUME NEW T, NEW items \in Seq(T), NEW encoder, WritesBytes(encoder, T),
         NEW decoder, NEW n \in Nat, ReadsBack(decoder, encoder, T, n),
         NEW rest \in Seq(Byte), Len(encode_items(encoder, items) \o rest) <= n,
         NEW g, StepByStep(g, decoder, Len(items), encode_items(encoder, items) \o rest)
  PROVE  g[Len(items)] = Decoded(items, rest)
<1> DEFINE L == Len(items)
<1>1. L \in Nat /\ \A k \in 1..L : items[k] \in T
  OBVIOUS
<1>2. PICK f \in [0..L -> Seq(Byte)] : LastOf(f, encoder, items) /\ encode_items(encoder, items) = f[L]
  BY ItemsEncoded
<1> DEFINE left(k) == f[L - k] \o rest
           read(k) == SubSeq(items, 1, k)
           S == {k \in Nat : k <= L => g[k] = Decoded(read(k), left(k)) /\ Len(left(k)) <= n}
<1>3. \A k \in 0..L : f[L - k] \in Seq(Byte) /\ left(k) \in Seq(Byte)
  <2>1. \A k \in 0..L : L - k \in 0..L
    BY <1>1
  <2>2. \A k \in 0..L : f[L - k] \in Seq(Byte)
    BY <2>1
  <2> QED
    BY <2>2, ConcatProperties
<1>4. ASSUME NEW k \in 0..L, k + 1 <= L
      PROVE  /\ left(k) = encoder[items[k + 1]] \o left(k + 1)
             /\ encoder[items[k + 1]] \in Seq(Byte) /\ items[k + 1] \in T
  <2> DEFINE m == L - k
  <2>1. m \in 0..L /\ m # 0 /\ m - 1 = L - (k + 1) /\ L - m + 1 = k + 1 /\ k + 1 \in 1..L /\ k + 1 \in 0..L
    BY <1>1, <1>4
  <2> HIDE DEF m
  <2>2. f[m] = encoder[items[L - m + 1]] \o f[m - 1]
    BY <1>2, <2>1 DEF LastOf
  <2> DEFINE e == encoder[items[k + 1]]
             u == f[L - (k + 1)]
  <2>3. e \in Seq(Byte) /\ items[k + 1] \in T
    BY <1>1, <2>1 DEF WritesBytes
  <2>4. u \in Seq(Byte)
    BY <1>3, <2>1
  <2>5. f[L - k] = e \o u
    BY <2>1, <2>2 DEF m
  <2>6. (e \o u) \o rest = e \o (u \o rest)
    <3>1. e \in Seq(Byte) /\ u \in Seq(Byte)
      BY <2>3, <2>4
    <3> HIDE DEF e, u
    <3> QED
      BY <3>1, Joined, Zenon
  <2> HIDE DEF e, u
  <2> QED
    BY <2>3, <2>5, <2>6 DEF e, u
<1>5. 0 \in S
  <2>1. L - 0 = L
    BY <1>1
  <2>2. read(0) = <<>>
    BY SubSeqEmpty
  <2> QED
    BY <1>2, <2>1, <2>2 DEF StepByStep
<1>6. ASSUME NEW k \in S PROVE k + 1 \in S
  <2>1. k \in Nat /\ k + 1 \in Nat /\ (k + 1) - 1 = k
    OBVIOUS
  <2>2. CASE k + 1 <= L
    <3>1. k \in 0..L /\ k + 1 \in 1..L /\ k + 1 \in 0..L
      BY <1>1, <2>1, <2>2
    <3>2. g[k] = Decoded(read(k), left(k)) /\ Len(left(k)) <= n
      BY <3>1
    <3> DEFINE e == encoder[items[k + 1]]
               s == left(k + 1)
    <3>3. left(k) = e \o s /\ e \in Seq(Byte) /\ items[k + 1] \in T /\ s \in Seq(Byte)
      BY <1>3, <1>4, <2>2, <3>1
    <3>4. g[k + 1] = NextItem(decoder, Decoded(read(k), left(k)))
      BY <2>1, <3>1, <3>2 DEF StepByStep
    <3>5. Append(read(k), items[k + 1]) = read(k + 1)
      BY <1>1, <3>1
    <3> HIDE DEF s, left, read
    <3>6. Len(e \o s) <= n
      BY <3>2, <3>3
    <3>7. decoder[e \o s] = Decoded(items[k + 1], s)
      BY <3>3, <3>6 DEF ReadsBack
    <3>8. NextItem(decoder, Decoded(read(k), left(k))) = Decoded(Append(read(k), items[k + 1]), s)
      BY <3>3, <3>7, ReadOrError DEF NextItem
    <3>9. Len(s) <= n
      <4> HIDE DEF e
      <4>1. Len(e \o s) = Len(e) + Len(s) /\ Len(e) \in Nat /\ Len(s) \in Nat
        BY <3>3, ConcatProperties
      <4> QED
        BY <3>6, <4>1
    <3> QED
      BY <2>1, <3>4, <3>5, <3>8, <3>9 DEF s
  <2> QED
    BY <2>1, <2>2
<1> HIDE DEF S
<1>7. S = Nat
  <2>1. S \in SUBSET Nat
    BY DEF S
  <2> QED
    BY <1>5, <1>6, <2>1, NumbersByInduction
<1>8. g[L] = Decoded(read(L), left(L))
  <2>1. L \in S /\ L <= L
    BY <1>1, <1>7
  <2> HIDE DEF L, read, left
  <2> QED
    BY <2>1 DEF S
<1>9. read(L) = items
  BY SubSeqFull
<1>10. left(L) = rest
  <2>1. L - L = 0 /\ f[0] = <<>>
    BY <1>1, <1>2 DEF LastOf
  <2> QED
    BY <2>1
<1> QED
  BY <1>8, <1>9, <1>10

(* The bytes of an array: its header and its items. *)
LEMMA ArrayEncoded ==
  ASSUME NEW T, NEW items \in Seq(T), items # None, NEW encoder, WritesBytes(encoder, T)
  PROVE  LET h == Header(Asterisk, to_text(Len(items)))
             e == encode_items(encoder, items)
         IN  /\ encode_by(encoder, Array(items)) = h \o e
             /\ h \in Seq(Byte) /\ e \in Seq(Byte) /\ h \o e \in Seq(Byte)
             /\ h # <<>> /\ h \o e # <<>>
             /\ to_text(Len(items)) \in Line /\ Len(items) \in Nat
<1> DEFINE h == Header(Asterisk, to_text(Len(items)))
           e == encode_items(encoder, items)
<1>1. Len(items) \in Nat /\ Len(items) \in Int
  OBVIOUS
<1>2. to_text(Len(items)) \in Line
  BY <1>1, IntegerRoundTrip
<1>3. Asterisk \in Prefix
  BY DEF Prefix
<1>4. h \in Seq(Byte) /\ h # <<>>
  BY <1>2, <1>3, HeaderTyped
<1>5. e \in Seq(Byte)
  <2>1. PICK f \in [0..Len(items) -> Seq(Byte)] : e = f[Len(items)]
    BY ItemsEncoded
  <2> HIDE DEF e
  <2> QED
    BY <1>1, <2>1
<1>6. encode_by(encoder, Array(items)) = h \o e
  BY DEF encode_by, encode_array, Header, Array
<1> HIDE DEF h, e
<1>7. h \o e \in Seq(Byte) /\ h \o e # <<>>
  BY <1>4, <1>5, ConcatProperties, ConcatEqualIffEmpty
<1> QED
  BY <1>1, <1>2, <1>4, <1>5, <1>6, <1>7 DEF h, e

(* An array is read back when its items are. *)
LEMMA ArrayRoundTrip ==
  ASSUME NEW T, NEW items \in Seq(T), items # None,
         NEW encoder, WritesBytes(encoder, T),
         NEW decoder, NEW n \in Nat, ReadsBack(decoder, encoder, T, n - 1),
         NEW rest \in Seq(Byte), Len(encode_by(encoder, Array(items)) \o rest) <= n
  PROVE  decode_by(decoder, encode_by(encoder, Array(items)) \o rest) = Decoded(Array(items), rest)
<1> DEFINE L == Len(items)
           h == Header(Asterisk, to_text(L))
           e == encode_items(encoder, items)
           s == e \o rest
<1>1. /\ encode_by(encoder, Array(items)) = h \o e
      /\ h \in Seq(Byte) /\ e \in Seq(Byte) /\ h # <<>>
      /\ to_text(L) \in Line /\ L \in Nat
  BY ArrayEncoded
<1>2. decode_by(decoder, h \o s) = parse_array(decoder, to_text(L), s)
  <2>1. s \in Seq(Byte)
    <3> HIDE DEF e
    <3> QED
      BY <1>1, ConcatProperties
  <2> HIDE DEF s, L
  <2> QED
    BY <1>1, <2>1, HeaderDecoded
<1> HIDE DEF h, e
<1>3. s \in Seq(Byte) /\ Len(s) \in Nat
  BY <1>1, ConcatProperties
<1>4. encode_by(encoder, Array(items)) \o rest = h \o s
  <2>1. (h \o e) \o rest = h \o (e \o rest)
    <3>1. h \in Seq(Byte) /\ e \in Seq(Byte)
      BY <1>1
    <3> QED
      BY <3>1, Joined, Zenon
  <2> QED
    BY <1>1, <2>1
<1> HIDE DEF s
<1>5. Len(s) <= n - 1 /\ n - 1 \in Nat
  <2>1. Len(h) \in Nat /\ Len(h) # 0 /\ Len(h \o s) = Len(h) + Len(s)
    BY <1>1, <1>3, ConcatProperties, EmptySeq
  <2> QED
    BY <1>3, <1>4, <2>1
<1>6. PICK g : StepByStep(g, decoder, L, s) /\ decode_items(decoder, L, s) = g[L]
  <2> HIDE DEF L
  <2> QED
    BY <1>1, ItemsDecoded
<1>7. g[L] = Decoded(items, rest)
  <2>1. s = encode_items(encoder, items) \o rest
    BY DEF s, e
  <2>2. Len(encode_items(encoder, items) \o rest) <= n - 1
    BY <1>5, <2>1
  <2> QED
    BY <1>5, <1>6, <2>1, <2>2, ItemsReadBack
<1>8. parse_length(to_text(L)) = L /\ L # None /\ L # -1
  BY <1>1, LengthParsed, Resp2Assumption
<1>9. parse_array(decoder, to_text(L), s) = Decoded(Array(items), rest)
  <2> HIDE DEF L
  <2> QED
    BY <1>6, <1>7, <1>8, ReadOrError DEF parse_array
<1> QED
  BY <1>2, <1>4, <1>9

-----------------------------------------------------------------------------
(***************************************************************************)
(* The recursions of the codec: over the depth of a value, and over the    *)
(* length of a stream.                                                     *)
(***************************************************************************)
(* The equation of Values. *)
ValuesOf(f, texts, n) ==
    f = [d \in 0..n |-> IF d = 0 THEN Scalar(texts) ELSE Scalar(texts) \cup ({"Array"} \X Seq(f[d - 1]))]

(* It has a solution. *)
LEMMA ValuesExist ==
  ASSUME NEW texts, NEW N \in Nat
  PROVE  \E f : ValuesOf(f, texts, N)
<1> DEFINE Step(d, before) == IF d = 0 THEN Scalar(texts) ELSE Scalar(texts) \cup ({"Array"} \X Seq(before))
           Upto(n, f) == f = [k \in 0..n |-> Step(k, IF k = 0 THEN <<>> ELSE f[k - 1])]
           S == {n \in Nat : \E f : Upto(n, f)}
<1> HIDE DEF Step
<1>1. 0 \in S
  <2> DEFINE f == [k \in 0..0 |-> Step(0, <<>>)]
  <2>1. Upto(0, f)
    OBVIOUS
  <2> QED
    BY <2>1
<1>2. ASSUME NEW n \in S PROVE n + 1 \in S
  <2>1. n \in Nat /\ n + 1 \in Nat
    OBVIOUS
  <2>2. PICK f : Upto(n, f)
    OBVIOUS
  <2> DEFINE g == [k \in 0..(n + 1) |-> IF k = n + 1 THEN Step(n + 1, f[n]) ELSE f[k]]
  <2>3. \A k \in 0..n : g[k] = f[k]
    BY <2>1
  <2>4. g[n + 1] = Step(n + 1, f[n])
    BY <2>1
  <2>5. g = [k \in 0..(n + 1) |-> g[k]]
    OBVIOUS
  <2> HIDE DEF g
  <2>6. ASSUME NEW k \in 0..(n + 1) PROVE g[k] = Step(k, IF k = 0 THEN <<>> ELSE g[k - 1])
    <3>1. CASE k = n + 1
      <4>1. k # 0 /\ k - 1 = n /\ n \in 0..n
        BY <2>1, <3>1
      <4> QED
        BY <2>3, <2>4, <3>1, <4>1
    <3>2. CASE k \in 0..n
      <4>1. k # 0 => k - 1 \in 0..n
        BY <2>1, <3>2
      <4>2. f[k] = Step(k, IF k = 0 THEN <<>> ELSE f[k - 1])
        BY <2>2, <3>2
      <4>3. (IF k = 0 THEN <<>> ELSE f[k - 1]) = (IF k = 0 THEN <<>> ELSE g[k - 1])
        BY <2>3, <4>1
      <4> QED
        BY <2>3, <3>2, <4>2, <4>3
    <3> QED
      BY <2>1, <3>1, <3>2
  <2>7. Upto(n + 1, g)
    BY <2>5, <2>6
  <2> HIDE DEF Upto
  <2> QED
    BY <2>1, <2>7
<1> HIDE DEF S
<1>3. S = Nat
  <2>1. S \in SUBSET Nat
    BY DEF S
  <2> QED
    BY <1>1, <1>2, <2>1, NumbersByInduction
<1>4. PICK f : Upto(N, f)
  BY <1>3 DEF S
<1>5. \A d, w : Step(d, IF d = 0 THEN <<>> ELSE w) =
               IF d = 0 THEN Scalar(texts) ELSE Scalar(texts) \cup ({"Array"} \X Seq(w))
  BY DEF Step
<1>6. ValuesOf(f, texts, N)
  BY <1>4, <1>5 DEF ValuesOf
<1> QED
  BY <1>6

(* The values of a depth: the scalars, and arrays of those of the depth    *)
(* below.                                                                  *)
LEMMA ValuesSolved ==
  ASSUME NEW texts
  PROVE  /\ Values(texts)[0] = Scalar(texts)
         /\ \A d \in 1..MaxDepth :
               Values(texts)[d] = Scalar(texts) \cup ({"Array"} \X Seq(Values(texts)[d - 1]))
<1> DEFINE f == CHOOSE f : ValuesOf(f, texts, MaxDepth)
<1>1. MaxDepth \in Nat
  BY Resp2Assumption
<1>2. ValuesOf(f, texts, MaxDepth)
  BY <1>1, ValuesExist
<1>3. Values(texts) = f
  BY DEF Values, ValuesOf
<1> HIDE DEF f
<1>4. f[0] = Scalar(texts)
  BY <1>1, <1>2 DEF ValuesOf
<1>5. ASSUME NEW d \in 1..MaxDepth PROVE f[d] = Scalar(texts) \cup ({"Array"} \X Seq(f[d - 1]))
  <2>1. d \in 0..MaxDepth /\ d # 0
    BY <1>1
  <2> QED
    BY <1>2, <2>1 DEF ValuesOf
<1> QED
  BY <1>3, <1>4, <1>5

(* The equation of Encoder. *)
EncoderOf(f, n) ==
    f = [d \in 0..n |-> [v \in RespValue[d] |-> encode_by(IF d = 0 THEN <<>> ELSE f[d - 1], v)]]

(* It has a solution. *)
LEMMA EncoderExists ==
  ASSUME NEW N \in Nat
  PROVE  \E f : EncoderOf(f, N)
<1> DEFINE Step(d, before) == [v \in RespValue[d] |-> encode_by(before, v)]
           Upto(n, f) == f = [k \in 0..n |-> Step(k, IF k = 0 THEN <<>> ELSE f[k - 1])]
           S == {n \in Nat : \E f : Upto(n, f)}
<1> HIDE DEF Step
<1>1. 0 \in S
  <2> DEFINE f == [k \in 0..0 |-> Step(0, <<>>)]
  <2>1. Upto(0, f)
    OBVIOUS
  <2> QED
    BY <2>1
<1>2. ASSUME NEW n \in S PROVE n + 1 \in S
  <2>1. n \in Nat /\ n + 1 \in Nat
    OBVIOUS
  <2>2. PICK f : Upto(n, f)
    OBVIOUS
  <2> DEFINE g == [k \in 0..(n + 1) |-> IF k = n + 1 THEN Step(n + 1, f[n]) ELSE f[k]]
  <2>3. \A k \in 0..n : g[k] = f[k]
    BY <2>1
  <2>4. g[n + 1] = Step(n + 1, f[n])
    BY <2>1
  <2>5. g = [k \in 0..(n + 1) |-> g[k]]
    OBVIOUS
  <2> HIDE DEF g
  <2>6. ASSUME NEW k \in 0..(n + 1) PROVE g[k] = Step(k, IF k = 0 THEN <<>> ELSE g[k - 1])
    <3>1. CASE k = n + 1
      <4>1. k # 0 /\ k - 1 = n /\ n \in 0..n
        BY <2>1, <3>1
      <4> QED
        BY <2>3, <2>4, <3>1, <4>1
    <3>2. CASE k \in 0..n
      <4>1. k # 0 => k - 1 \in 0..n
        BY <2>1, <3>2
      <4>2. f[k] = Step(k, IF k = 0 THEN <<>> ELSE f[k - 1])
        BY <2>2, <3>2
      <4>3. (IF k = 0 THEN <<>> ELSE f[k - 1]) = (IF k = 0 THEN <<>> ELSE g[k - 1])
        BY <2>3, <4>1
      <4> QED
        BY <2>3, <3>2, <4>2, <4>3
    <3> QED
      BY <2>1, <3>1, <3>2
  <2>7. Upto(n + 1, g)
    BY <2>5, <2>6
  <2> HIDE DEF Upto
  <2> QED
    BY <2>1, <2>7
<1> HIDE DEF S
<1>3. S = Nat
  <2>1. S \in SUBSET Nat
    BY DEF S
  <2> QED
    BY <1>1, <1>2, <2>1, NumbersByInduction
<1> QED
  BY <1>3 DEF S, EncoderOf, Step

(* The encoder of a depth. *)
LEMMA EncoderSolved ==
  ASSUME NEW d \in 0..MaxDepth, NEW v \in RespValue[d]
  PROVE  Encoder[d][v] = encode_by(IF d = 0 THEN <<>> ELSE Encoder[d - 1], v)
<1> DEFINE f == CHOOSE f : EncoderOf(f, MaxDepth)
<1>1. MaxDepth \in Nat
  BY Resp2Assumption
<1>2. EncoderOf(f, MaxDepth)
  BY <1>1, EncoderExists
<1>3. Encoder = f
  BY DEF Encoder, EncoderOf
<1> HIDE DEF f
<1>4. f[d] = [w \in RespValue[d] |-> encode_by(IF d = 0 THEN <<>> ELSE f[d - 1], w)]
  BY <1>2 DEF EncoderOf
<1> QED
  BY <1>3, <1>4

(* The equation of the decoder of decode. *)
DecoderOf(f, n) ==
    f = [k \in 0..n |-> [s \in Streams(k) |-> decode_by(IF k = 0 THEN <<>> ELSE f[k - 1], s)]]

(* It has a solution. *)
LEMMA DecoderExists ==
  ASSUME NEW N \in Nat
  PROVE  \E f : DecoderOf(f, N)
<1> DEFINE Step(k, before) == [s \in Streams(k) |-> decode_by(before, s)]
           Upto(n, f) == f = [k \in 0..n |-> Step(k, IF k = 0 THEN <<>> ELSE f[k - 1])]
           S == {n \in Nat : \E f : Upto(n, f)}
<1> HIDE DEF Step
<1>1. 0 \in S
  <2> DEFINE f == [k \in 0..0 |-> Step(0, <<>>)]
  <2>1. Upto(0, f)
    OBVIOUS
  <2> QED
    BY <2>1
<1>2. ASSUME NEW n \in S PROVE n + 1 \in S
  <2>1. n \in Nat /\ n + 1 \in Nat
    OBVIOUS
  <2>2. PICK f : Upto(n, f)
    OBVIOUS
  <2> DEFINE g == [k \in 0..(n + 1) |-> IF k = n + 1 THEN Step(n + 1, f[n]) ELSE f[k]]
  <2>3. \A k \in 0..n : g[k] = f[k]
    BY <2>1
  <2>4. g[n + 1] = Step(n + 1, f[n])
    BY <2>1
  <2>5. g = [k \in 0..(n + 1) |-> g[k]]
    OBVIOUS
  <2> HIDE DEF g
  <2>6. ASSUME NEW k \in 0..(n + 1) PROVE g[k] = Step(k, IF k = 0 THEN <<>> ELSE g[k - 1])
    <3>1. CASE k = n + 1
      <4>1. k # 0 /\ k - 1 = n /\ n \in 0..n
        BY <2>1, <3>1
      <4> QED
        BY <2>3, <2>4, <3>1, <4>1
    <3>2. CASE k \in 0..n
      <4>1. k # 0 => k - 1 \in 0..n
        BY <2>1, <3>2
      <4>2. f[k] = Step(k, IF k = 0 THEN <<>> ELSE f[k - 1])
        BY <2>2, <3>2
      <4>3. (IF k = 0 THEN <<>> ELSE f[k - 1]) = (IF k = 0 THEN <<>> ELSE g[k - 1])
        BY <2>3, <4>1
      <4> QED
        BY <2>3, <3>2, <4>2, <4>3
    <3> QED
      BY <2>1, <3>1, <3>2
  <2>7. Upto(n + 1, g)
    BY <2>5, <2>6
  <2> HIDE DEF Upto
  <2> QED
    BY <2>1, <2>7
<1> HIDE DEF S
<1>3. S = Nat
  <2>1. S \in SUBSET Nat
    BY DEF S
  <2> QED
    BY <1>1, <1>2, <2>1, NumbersByInduction
<1> QED
  BY <1>3 DEF S, DecoderOf, Step

(* The decoders of streams of at most n bytes. *)
Decoders(f, n) ==
    \A k \in 0..n : \A s \in Streams(k) : f[k][s] = decode_by(IF k = 0 THEN <<>> ELSE f[k - 1], s)

(* decode is the decoder of the length of its stream. *)
LEMMA DecodeSolved ==
  ASSUME NEW stream \in Seq(Byte)
  PROVE  \E f : Decoders(f, Len(stream)) /\ decode(stream) = f[Len(stream)][stream]
<1> DEFINE f == CHOOSE f : DecoderOf(f, Len(stream))
<1>1. Len(stream) \in Nat
  OBVIOUS
<1>2. DecoderOf(f, Len(stream))
  BY <1>1, DecoderExists
<1>3. decode(stream) = f[Len(stream)][stream]
  BY DEF decode, DecoderOf
<1> HIDE DEF f
<1>4. ASSUME NEW k \in 0..Len(stream), NEW s \in Streams(k)
      PROVE  f[k][s] = decode_by(IF k = 0 THEN <<>> ELSE f[k - 1], s)
  <2>1. f[k] = [t \in Streams(k) |-> decode_by(IF k = 0 THEN <<>> ELSE f[k - 1], t)]
    BY <1>2 DEF DecoderOf
  <2> QED
    BY <2>1
<1> QED
  BY <1>3, <1>4 DEF Decoders

-----------------------------------------------------------------------------
(***************************************************************************)
(* Every value, by induction on the depth of its arrays.                   *)
(***************************************************************************)
Sent == Values(Line)

(* The cases of a value that can be sent. *)
LEMMA SentCases ==
  ASSUME NEW d \in 0..MaxDepth, NEW v \in Sent[d]
  PROVE  \/ v \in Scalar(Line)
         \/ d # 0 /\ \E items \in Seq(Sent[d - 1]) : v = Array(items)
<1>1. CASE d = 0
  BY <1>1, ValuesSolved DEF Sent
<1>2. CASE d # 0
  <2>1. d \in 1..MaxDepth
    BY <1>2, Resp2Assumption
  <2>2. Sent[d] = Scalar(Line) \cup ({"Array"} \X Seq(Sent[d - 1]))
    BY <2>1, ValuesSolved DEF Sent
  <2> QED
    BY <1>2, <2>2 DEF Array
<1> QED
  BY <1>1, <1>2

(* They are values. *)
LEMMA SentAreValues ==
  ASSUME NEW d \in 0..MaxDepth
  PROVE  Sent[d] \subseteq RespValue[d]
<1>1. MaxDepth \in Nat
  BY Resp2Assumption
<1>2. Scalar(Line) \subseteq Scalar(Seq(Byte))
  BY DEF Scalar, Line
<1> DEFINE S == {n \in Nat : n <= MaxDepth => Sent[n] \subseteq RespValue[n]}
<1>3. 0 \in S
  BY <1>2, ValuesSolved DEF Sent, RespValue
<1>4. ASSUME NEW n \in S PROVE n + 1 \in S
  <2>1. n \in Nat /\ n + 1 \in Nat /\ (n + 1) - 1 = n
    OBVIOUS
  <2>2. CASE n + 1 <= MaxDepth
    <3>1. n + 1 \in 1..MaxDepth /\ n <= MaxDepth
      BY <1>1, <2>1, <2>2
    <3>2. Sent[n + 1] = Scalar(Line) \cup ({"Array"} \X Seq(Sent[n]))
      BY <2>1, <3>1, ValuesSolved DEF Sent
    <3>3. RespValue[n + 1] = Scalar(Seq(Byte)) \cup ({"Array"} \X Seq(RespValue[n]))
      BY <2>1, <3>1, ValuesSolved DEF RespValue
    <3>4. Sent[n] \subseteq RespValue[n]
      BY <3>1
    <3>5. Seq(Sent[n]) \subseteq Seq(RespValue[n])
      BY <3>4, SeqMonotonic
    <3>6. Sent[n + 1] \subseteq RespValue[n + 1]
      BY <1>2, <3>2, <3>3, <3>5
    <3> QED
      BY <2>1, <3>6
  <2> QED
    BY <2>1, <2>2
<1> HIDE DEF S
<1>5. S = Nat
  <2>1. S \in SUBSET Nat
    BY DEF S
  <2> QED
    BY <1>3, <1>4, <2>1, NumbersByInduction
<1> QED
  BY <1>1, <1>5 DEF S

(* Items of a value are not None. *)
LEMMA ItemsAreSome ==
  ASSUME NEW d \in 0..MaxDepth, NEW items \in Seq(Sent[d])
  PROVE  items # None
<1>1. items \in Seq(RespValue[d])
  BY SentAreValues, SeqMonotonic
<1> QED
  BY <1>1, Resp2Assumption

(* Every value that can be sent is encoded as bytes, at least one. *)
LEMMA SentAreBytes ==
  ASSUME NEW d \in 0..MaxDepth
  PROVE  WritesBytes(Encoder[d], Sent[d]) /\ \A v \in Sent[d] : Encoder[d][v] # <<>>
<1>1. MaxDepth \in Nat
  BY Resp2Assumption
<1> DEFINE Good(n) == WritesBytes(Encoder[n], Sent[n]) /\ \A v \in Sent[n] : Encoder[n][v] # <<>>
           S == {n \in Nat : n <= MaxDepth => Good(n)}
<1>2. ASSUME NEW n \in 0..MaxDepth, NEW v \in Sent[n], v \in Scalar(Line)
      PROVE  Encoder[n][v] \in Seq(Byte) /\ Encoder[n][v] # <<>>
  <2>1. v \in RespValue[n]
    BY SentAreValues
  <2>2. Encoder[n][v] = encode_by(IF n = 0 THEN <<>> ELSE Encoder[n - 1], v)
    BY <2>1, EncoderSolved
  <2>3. <<>> \in Seq(Byte)
    OBVIOUS
  <2> QED
    BY <1>2, <2>2, <2>3, ScalarRoundTrip
<1>3. 0 \in S
  <2>1. 0 \in 0..MaxDepth
    BY <1>1
  <2>2. \A v \in Sent[0] : v \in Scalar(Line)
    BY <2>1, SentCases
  <2> QED
    BY <1>2, <2>1, <2>2 DEF WritesBytes
<1>4. ASSUME NEW n \in S PROVE n + 1 \in S
  <2>1. n \in Nat /\ n + 1 \in Nat /\ (n + 1) - 1 = n
    OBVIOUS
  <2>2. CASE n + 1 <= MaxDepth
    <3>1. n + 1 \in 0..MaxDepth /\ n \in 0..MaxDepth /\ n + 1 # 0
      BY <1>1, <2>1, <2>2
    <3>2. WritesBytes(Encoder[n], Sent[n])
      BY <3>1
    <3>3. ASSUME NEW v \in Sent[n + 1]
          PROVE  Encoder[n + 1][v] \in Seq(Byte) /\ Encoder[n + 1][v] # <<>>
      <4>1. CASE v \in Scalar(Line)
        BY <1>2, <3>1, <4>1
      <4>2. CASE \E items \in Seq(Sent[n]) : v = Array(items)
        <5>1. PICK items \in Seq(Sent[n]) : v = Array(items)
          BY <4>2
        <5>2. v \in RespValue[n + 1]
          BY <3>1, SentAreValues
        <5>3. Encoder[n + 1][v] = encode_by(Encoder[n], v)
          BY <2>1, <3>1, <5>2, EncoderSolved
        <5>4. items # None
          BY <3>1, ItemsAreSome
        <5> QED
          BY <3>2, <5>1, <5>3, <5>4, ArrayEncoded
      <4> QED
        BY <2>1, <3>1, <4>1, <4>2, SentCases
    <3> QED
      BY <2>1, <3>3 DEF WritesBytes
  <2> QED
    BY <2>1, <2>2
<1> HIDE DEF S
<1>5. S = Nat
  <2>1. S \in SUBSET Nat
    BY DEF S
  <2> QED
    BY <1>3, <1>4, <2>1, NumbersByInduction
<1> QED
  BY <1>1, <1>5 DEF S

(* The decoders of streams of up to N bytes read back the values of every  *)
(* depth.                                                                  *)
LEMMA DepthRoundTrip ==
  ASSUME NEW N \in Nat, NEW f, Decoders(f, N), NEW d \in 0..MaxDepth, NEW k \in 0..N
  PROVE  ReadsBack(f[k], Encoder[d], Sent[d], k)
<1>1. MaxDepth \in Nat
  BY Resp2Assumption
<1> DEFINE Good(n) == \A m \in 0..N : ReadsBack(f[m], Encoder[n], Sent[n], m)
           S == {n \in Nat : n <= MaxDepth => Good(n)}
           D(m) == IF m = 0 THEN <<>> ELSE f[m - 1]
           E(n) == IF n = 0 THEN <<>> ELSE Encoder[n - 1]
<1>2. ASSUME NEW n \in 0..MaxDepth, NEW v \in Sent[n], NEW m \in 0..N, NEW rest \in Seq(Byte),
             Len(Encoder[n][v] \o rest) <= m
      PROVE  /\ Encoder[n][v] = encode_by(E(n), v)
             /\ f[m][Encoder[n][v] \o rest] = decode_by(D(m), Encoder[n][v] \o rest)
             /\ m # 0 /\ m - 1 \in 0..N
  <2> DEFINE e == Encoder[n][v]
  <2>1. v \in RespValue[n]
    BY SentAreValues
  <2>2. e = encode_by(E(n), v)
    BY <2>1, EncoderSolved
  <2>3. e \in Seq(Byte) /\ e # <<>>
    BY SentAreBytes DEF WritesBytes
  <2>4. Len(e \o rest) <= m
    BY <1>2
  <2> HIDE DEF e, E
  <2>5. e \o rest \in Seq(Byte) /\ Len(e \o rest) = Len(e) + Len(rest) /\ Len(e) \in Nat \ {0} /\ Len(rest) \in Nat
    BY <2>3, ConcatProperties, EmptySeq
  <2>6. e \o rest \in Streams(m)
    BY <2>4, <2>5 DEF Streams
  <2>7. f[m][e \o rest] = decode_by(D(m), e \o rest)
    BY <2>6 DEF Decoders
  <2>8. m # 0 /\ m - 1 \in 0..N
    BY <2>4, <2>5
  <2> QED
    BY <2>2, <2>7, <2>8 DEF e
<1>3. ASSUME NEW n \in 0..MaxDepth, NEW v \in Sent[n], NEW m \in 0..N, NEW rest \in Seq(Byte),
             Len(Encoder[n][v] \o rest) <= m, v \in Scalar(Line)
      PROVE  f[m][Encoder[n][v] \o rest] = Decoded(v, rest)
  <2> HIDE DEF D, E
  <2>1. decode_by(D(m), encode_by(E(n), v) \o rest) = Decoded(v, rest)
    BY <1>3, ScalarRoundTrip
  <2> QED
    BY <1>2, <1>3, <2>1
<1>4. 0 \in S
  <2>1. 0 \in 0..MaxDepth
    BY <1>1
  <2>2. \A v \in Sent[0] : v \in Scalar(Line)
    BY <2>1, SentCases
  <2> QED
    BY <1>3, <2>1, <2>2 DEF ReadsBack
<1>5. ASSUME NEW n \in S PROVE n + 1 \in S
  <2>1. n \in Nat /\ n + 1 \in Nat /\ (n + 1) - 1 = n
    OBVIOUS
  <2>2. CASE n + 1 <= MaxDepth
    <3>1. n + 1 \in 0..MaxDepth /\ n \in 0..MaxDepth /\ n + 1 # 0
      BY <1>1, <2>1, <2>2
    <3>2. Good(n)
      BY <3>1
    <3>3. ASSUME NEW v \in Sent[n + 1], NEW m \in 0..N, NEW rest \in Seq(Byte),
                 Len(Encoder[n + 1][v] \o rest) <= m
          PROVE  f[m][Encoder[n + 1][v] \o rest] = Decoded(v, rest)
      <4>1. CASE v \in Scalar(Line)
        BY <1>3, <3>1, <3>3, <4>1
      <4>2. CASE \E items \in Seq(Sent[n]) : v = Array(items)
        <5>1. PICK items \in Seq(Sent[n]) : v = Array(items)
          BY <4>2
        <5>2. /\ Encoder[n + 1][v] = encode_by(Encoder[n], v)
              /\ f[m][Encoder[n + 1][v] \o rest] = decode_by(f[m - 1], Encoder[n + 1][v] \o rest)
              /\ m - 1 \in 0..N
          BY <1>2, <2>1, <3>1, <3>3
        <5>3. items # None
          BY <3>1, ItemsAreSome
        <5>4. ReadsBack(f[m - 1], Encoder[n], Sent[n], m - 1)
          BY <3>2, <5>2
        <5>5. WritesBytes(Encoder[n], Sent[n])
          BY <3>1, SentAreBytes
        <5>6. Len(encode_by(Encoder[n], Array(items)) \o rest) <= m /\ m \in Nat
          BY <3>3, <5>1, <5>2
        <5>7. decode_by(f[m - 1], encode_by(Encoder[n], Array(items)) \o rest) = Decoded(Array(items), rest)
          BY <5>3, <5>4, <5>5, <5>6, ArrayRoundTrip
        <5> QED
          BY <5>1, <5>2, <5>7
      <4> QED
        BY <2>1, <3>1, <4>1, <4>2, SentCases
    <3>4. Good(n + 1)
      BY <3>3 DEF ReadsBack
    <3> QED
      BY <2>1, <3>4
  <2> QED
    BY <2>1, <2>2
<1> HIDE DEF S
<1>6. S = Nat
  <2>1. S \in SUBSET Nat
    BY DEF S
  <2> QED
    BY <1>4, <1>5, <2>1, NumbersByInduction
<1> QED
  BY <1>1, <1>6 DEF S

(* Every value with arrays up to MaxDepth deep, whatever bytes its bulk    *)
(* strings hold, is decoded as itself, and the decoder stops exactly at    *)
(* the bytes that follow it: decode of resp2.rs inverts encode.            *)
THEOREM EveryValueRoundTrips ==
  \A v \in Sent[MaxDepth] : \A rest \in Seq(Byte) : RoundTripOf(v, rest)
<1> SUFFICES ASSUME NEW v \in Sent[MaxDepth], NEW rest \in Seq(Byte)
             PROVE  decode(encode(v) \o rest) = Decoded(v, rest)
  BY DEF RoundTripOf
<1>1. MaxDepth \in 0..MaxDepth
  BY Resp2Assumption
<1>2. encode(v) \in Seq(Byte)
  BY <1>1, SentAreBytes DEF encode, WritesBytes
<1> DEFINE s == encode(v) \o rest
<1>3. s \in Seq(Byte) /\ Len(s) \in Nat
  BY <1>2, ConcatProperties
<1>4. PICK f : Decoders(f, Len(s)) /\ decode(s) = f[Len(s)][s]
  BY <1>3, DecodeSolved
<1>5. ReadsBack(f[Len(s)], Encoder[MaxDepth], Sent[MaxDepth], Len(s))
  <2>1. Len(s) \in 0..Len(s)
    BY <1>3
  <2> HIDE DEF s
  <2> QED
    BY <1>1, <1>3, <1>4, <2>1, DepthRoundTrip
<1>6. Len(s) <= Len(s) /\ s = Encoder[MaxDepth][v] \o rest
  BY <1>3 DEF encode
<1> QED
  BY <1>4, <1>5, <1>6 DEF ReadsBack

-----------------------------------------------------------------------------
(***************************************************************************)
(* The frames of the specification.                                        *)
(***************************************************************************)
FrameTyped ==
    /\ input = [kind |-> input.kind, body |-> input.body]
    /\ input.kind = "frame" => input.body \in Seq(Seq(Byte))

(* The strings of a frame are bytes. *)
LEMMA FrameIsTyped == Spec => []FrameTyped
<1>0. ASSUME NEW given \in {Start(kind) : kind \in Kinds}
      PROVE  given = [kind |-> given.kind, body |-> given.body] /\ given.body \in Seq(Seq(Byte))
  <2>1. PICK kind \in Kinds : given = [kind |-> kind, body |-> <<>>]
    BY DEF Start
  <2>2. given.kind = kind /\ given.body = <<>> /\ <<>> \in Seq(Seq(Byte))
    BY <2>1
  <2> QED
    BY <2>1, <2>2
<1>1. Init => FrameTyped
  BY <1>0 DEF Init, FrameTyped
<1>2. FrameTyped /\ [Next]_input => FrameTyped'
  <2> SUFFICES ASSUME FrameTyped, [Next]_input PROVE FrameTyped'
    OBVIOUS
  <2> DEFINE strings == input.body
  <2>1. CASE Restart
    BY <1>0, <2>1 DEF Restart, FrameTyped
  <2>2. ASSUME input.kind = "frame", NEW longer \in Seq(Seq(Byte)), input' = [input EXCEPT !.body = longer]
        PROVE  FrameTyped'
    <3>1. input' = [kind |-> input.kind, body |-> longer]
      BY <2>2 DEF FrameTyped
    <3> QED
      BY <3>1 DEF FrameTyped
  <2>3. CASE AddString
    <3>1. input.kind = "frame" /\ input' = [input EXCEPT !.body = Append(strings, <<>>)]
      BY <2>3 DEF AddString, Extend
    <3>2. strings \in Seq(Seq(Byte)) /\ <<>> \in Seq(Byte)
      BY <3>1 DEF FrameTyped
    <3> HIDE DEF strings
    <3>3. Append(strings, <<>>) \in Seq(Seq(Byte))
      BY <3>2, AppendProperties
    <3> QED
      BY <2>2, <3>1, <3>3
  <2>4. CASE AddFrameByte
    <3>1. input.kind = "frame" /\ strings # <<>>
      BY <2>4 DEF AddFrameByte, Extensible
    <3>2. PICK byte \in FrameBytes :
            input' = [input EXCEPT !.body[Len(input.body)] = Append(@, byte)]
      BY <2>4 DEF AddFrameByte
    <3> DEFINE longer == [strings EXCEPT ![Len(strings)] = Append(@, byte)]
    <3>3. input' = [input EXCEPT !.body = longer]
      BY <3>2
    <3>4. strings \in Seq(Seq(Byte)) /\ Len(strings) \in 1..Len(strings) /\ byte \in Byte
      BY <3>1, ProtocolAssumption DEF FrameTyped
    <3> HIDE DEF strings
    <3>5. Append(strings[Len(strings)], byte) \in Seq(Byte)
      BY <3>4
    <3>6. longer \in Seq(Seq(Byte))
      BY <3>4, <3>5, ExceptSeq
    <3> QED
      BY <2>2, <3>1, <3>3, <3>6
  <2>5. CASE AddWord \/ AddToSettings \/ AddPatternByte
    <3>1. input.kind # "frame"
      BY <2>5 DEF AddWord, AddToSettings, AddPatternByte
    <3>2. PICK e : input' = [input EXCEPT !.body = Append(@, e)]
      BY <2>5 DEF AddWord, AddName, AddArgument, AddOption, AddToSettings, AddSetting, AddPatternByte, Extend
    <3> QED
      BY <3>1, <3>2 DEF FrameTyped
  <2>6. CASE UNCHANGED input
    BY <2>6 DEF FrameTyped
  <2> QED
    BY <2>1, <2>3, <2>4, <2>5, <2>6 DEF Next
<1> QED
  BY <1>1, <1>2, PTL DEF Spec

(* Values that hold no other can be sent at every depth, arrays of values  *)
(* of a depth at the next.                                                 *)
LEMMA SentParts ==
  /\ \A d \in 0..MaxDepth : Scalar(Line) \subseteq Sent[d]
  /\ \A d \in 1..MaxDepth : \A items \in Seq(Sent[d - 1]) : Array(items) \in Sent[d]
<1>1. MaxDepth \in Nat
  BY Resp2Assumption
<1>2. \A d \in 0..MaxDepth : d = 0 \/ d \in 1..MaxDepth
  BY <1>1
<1>3. Sent[0] = Scalar(Line)
  BY ValuesSolved DEF Sent
<1>4. \A d \in 1..MaxDepth : Sent[d] = Scalar(Line) \cup ({"Array"} \X Seq(Sent[d - 1]))
  BY ValuesSolved DEF Sent
<1> QED
  BY <1>2, <1>3, <1>4 DEF Array

(* What can be sent at a depth can be sent at the greatest.                *)
LEMMA SentDeeper ==
  ASSUME NEW d \in 0..MaxDepth
  PROVE  Sent[d] \subseteq Sent[MaxDepth]
<1>1. MaxDepth \in Nat
  BY Resp2Assumption
<1> DEFINE S == {n \in Nat : n + 1 <= MaxDepth => Sent[n] \subseteq Sent[n + 1]}
<1>2. 0 \in S
  <2>1. Sent[0] = Scalar(Line)
    BY ValuesSolved DEF Sent
  <2>2. CASE 0 + 1 <= MaxDepth
    <3>1. 0 + 1 \in 0..MaxDepth
      BY <1>1, <2>2
    <3> QED
      BY <2>1, <3>1, SentParts
  <2> QED
    BY <2>2
<1>3. ASSUME NEW n \in S PROVE n + 1 \in S
  <2>1. n \in Nat /\ n + 1 \in Nat /\ (n + 1) - 1 = n /\ ((n + 1) + 1) - 1 = n + 1
    OBVIOUS
  <2>2. CASE (n + 1) + 1 <= MaxDepth
    <3>1. n + 1 \in 1..MaxDepth /\ (n + 1) + 1 \in 1..MaxDepth /\ n + 1 <= MaxDepth
      BY <1>1, <2>1, <2>2
    <3>2. Sent[n + 1] = Scalar(Line) \cup ({"Array"} \X Seq(Sent[n]))
      BY <2>1, <3>1, ValuesSolved DEF Sent
    <3>3. Sent[(n + 1) + 1] = Scalar(Line) \cup ({"Array"} \X Seq(Sent[n + 1]))
      BY <2>1, <3>1, ValuesSolved DEF Sent
    <3>4. Sent[n] \subseteq Sent[n + 1]
      BY <3>1
    <3>5. Seq(Sent[n]) \subseteq Seq(Sent[n + 1])
      BY <3>4, SeqMonotonic
    <3>6. Sent[n + 1] \subseteq Sent[(n + 1) + 1]
      BY <3>2, <3>3, <3>5
    <3> QED
      BY <2>1, <3>6
  <2> QED
    BY <2>1, <2>2
<1> HIDE DEF S
<1>4. S = Nat
  <2>1. S \in SUBSET Nat
    BY DEF S
  <2> QED
    BY <1>2, <1>3, <2>1, NumbersByInduction
<1> DEFINE Q == {n \in Nat : d + n <= MaxDepth => Sent[d] \subseteq Sent[d + n]}
<1>5. 0 \in Q
  <2>1. d + 0 = d
    BY <1>1
  <2> QED
    BY <2>1
<1>6. ASSUME NEW n \in Q PROVE n + 1 \in Q
  <2>1. n \in Nat /\ n + 1 \in Nat /\ d + n \in Nat /\ (d + n) + 1 = d + (n + 1)
    BY <1>1
  <2>2. CASE d + (n + 1) <= MaxDepth
    <3>1. d + n <= MaxDepth /\ (d + n) + 1 <= MaxDepth
      BY <1>1, <2>1, <2>2
    <3>2. Sent[d + n] \subseteq Sent[d + (n + 1)]
      BY <1>4, <2>1, <3>1 DEF S
    <3>3. Sent[d] \subseteq Sent[d + n]
      BY <3>1
    <3>4. Sent[d] \subseteq Sent[d + (n + 1)]
      BY <3>2, <3>3
    <3> QED
      BY <2>1, <3>4
  <2> QED
    BY <2>1, <2>2
<1> HIDE DEF Q
<1>7. Q = Nat
  <2>1. Q \in SUBSET Nat
    BY DEF Q
  <2> QED
    BY <1>5, <1>6, <2>1, NumbersByInduction
<1>8. MaxDepth - d \in Nat /\ d + (MaxDepth - d) = MaxDepth
  BY <1>1
<1>9. MaxDepth - d \in Q
  BY <1>7, <1>8
<1> QED
  BY <1>8, <1>9 DEF Q

(* A request can be sent. *)
LEMMA RequestsAreSent ==
  ASSUME NEW words \in Seq(Seq(Byte))
  PROVE  Request(words) \in Sent[1] /\ Request(words) \in Sent[MaxDepth]
<1> DEFINE items == [i \in DOMAIN words |-> BulkString(words[i])]
<1>1. 1 \in 1..MaxDepth /\ 0 \in 0..MaxDepth /\ 1 \in 0..MaxDepth /\ 1 - 1 = 0
  BY Resp2Assumption, ProtocolAssumption
<1>2. \A i \in 1..Len(words) : BulkString(words[i]) \in Scalar(Line)
  BY DEF BulkString, Scalar
<1>3. \A i \in 1..Len(words) : BulkString(words[i]) \in Sent[0]
  BY <1>1, <1>2, SentParts
<1>4. items \in Seq(Sent[0])
  <2>1. DOMAIN words = 1..Len(words) /\ Len(words) \in Nat
    OBVIOUS
  <2>2. items = [i \in 1..Len(words) |-> BulkString(words[i])]
    BY <2>1
  <2>3. items \in [1..Len(words) -> Sent[0]]
    BY <1>3, <2>2
  <2> HIDE DEF items
  <2>4. \A n \in Nat : [1..n -> Sent[0]] \subseteq Seq(Sent[0])
    BY SeqDef
  <2> QED
    BY <2>1, <2>3, <2>4, Zenon
<1> HIDE DEF items
<1>5. Array(items) \in Sent[1]
  BY <1>1, <1>4, SentParts
<1>6. Request(words) = Array(items)
  BY DEF Request, items
<1> QED
  BY <1>1, <1>5, <1>6, SentDeeper

(* The frames of the specification can be sent. *)
LEMMA FramesAreSent ==
  ASSUME NEW strings \in Seq(Seq(Byte))
  PROVE  Frames(strings) \subseteq Sent[MaxDepth]
<1>1. strings \in Seq(Seq(Byte))
  OBVIOUS
<1>2. LongString \in Seq(Byte)
  BY DEF LongString, Byte
<1>3. Append(strings, LongString) \in Seq(Seq(Byte))
  BY <1>1, <1>2, AppendProperties
<1>4. Request(strings) \in Sent[MaxDepth] /\ Request(Append(strings, LongString)) \in Sent[MaxDepth]
  BY <1>1, <1>3, RequestsAreSent
<1>5. /\ MaxDepth \in 0..MaxDepth /\ 2 \in 1..MaxDepth /\ 1 \in 0..MaxDepth /\ 2 \in 0..MaxDepth
      /\ 2 - 1 = 1
  BY Resp2Assumption, ProtocolAssumption
<1>6. ASSUME NEW s \in {strings[i] : i \in DOMAIN strings}, OneLine(s)
      PROVE  SimpleString(s) \in Sent[MaxDepth] /\ SimpleError(s) \in Sent[MaxDepth]
  <2>1. s \in Line
    BY <1>1, <1>6 DEF Line
  <2>2. SimpleString(s) \in Scalar(Line) /\ SimpleError(s) \in Scalar(Line)
    BY <2>1 DEF SimpleString, SimpleError, Scalar
  <2> QED
    BY <1>5, <2>2, SentParts
<1> DEFINE items == <<Request(strings), Integer(-Len(strings)), BulkString(None), Array(None)>>
<1>7. Array(items) \in Sent[MaxDepth]
  <2>1. -Len(strings) \in Int
    BY <1>1
  <2>2. Integer(-Len(strings)) \in Scalar(Line) /\ BulkString(None) \in Scalar(Line) /\ Array(None) \in Scalar(Line)
    BY <2>1 DEF Integer, BulkString, Array, Scalar
  <2>3. Integer(-Len(strings)) \in Sent[1] /\ BulkString(None) \in Sent[1] /\ Array(None) \in Sent[1]
    BY <1>5, <2>2, SentParts
  <2>4. Request(strings) \in Sent[1]
    BY <1>1, RequestsAreSent
  <2>5. items \in Seq(Sent[1])
    <3>1. \A T : \A a, b, c, e \in T : <<a, b, c, e>> \in Seq(T)
      OBVIOUS
    <3> QED
      BY <2>3, <2>4, <3>1
  <2> HIDE DEF items
  <2>6. Array(items) \in Sent[2]
    BY <1>5, <2>5, SentParts
  <2> QED
    BY <1>5, <2>6, SentDeeper
<1> QED
  BY <1>4, <1>6, <1>7 DEF Frames

(* What follows a frame is bytes. *)
LEMMA RestIsBytes ==
  {<<>>, CRLF, encode(Integer(12))} \subseteq Seq(Byte)
<1>1. CRLF \in Seq(Byte)
  BY DEF CRLF, CR, LF, Byte
<1>2. MaxDepth \in 0..MaxDepth
  BY Resp2Assumption
<1>3. Integer(12) \in Scalar(Line)
  BY DEF Integer, Scalar
<1>4. Integer(12) \in Sent[MaxDepth]
  BY <1>2, <1>3, SentParts
<1>5. encode(Integer(12)) \in Seq(Byte)
  BY <1>2, <1>4, SentAreBytes DEF encode, WritesBytes
<1> QED
  BY <1>1, <1>5

(* The frames of the wire and of the AOF are read back: RoundTrip holds in *)
(* every state, for every set of bytes and every bound.                    *)
THEOREM FramesRoundTrip == Spec => []RoundTrip
<1>1. FrameTyped => RoundTrip
  BY FramesAreSent, RestIsBytes, EveryValueRoundTrips DEF FrameTyped, RoundTrip
<1> QED
  BY <1>1, FrameIsTyped, PTL

-----------------------------------------------------------------------------
(***************************************************************************)
(* Torn frames.  A part of a sequence is a proper prefix of it.            *)
(***************************************************************************)
Part(q, s) ==
    /\ q \in Seq(Byte) /\ Len(q) < Len(s)
    /\ \A i \in 1..Len(q) : q[i] = s[i]

(* The errors of a torn frame. *)
Fails(r) == IsError(r) /\ r.resp_error \in {"UnexpectedEof", "InvalidInteger"}

(* The value of digits is not negative, and positive behind a digit other  *)
(* than zero.                                                              *)
LEMMA ValueBound ==
  ASSUME NEW ds \in Seq(Digit)
  PROVE  digits_value(ds) >= 0 /\ (Len(ds) > 0 /\ ds[1] # 48 => digits_value(ds) >= 1)
<1>1. Len(ds) \in Nat /\ \A n \in 1..Len(ds) : ds[n] \in Int /\ ds[n] >= 48
  BY DEF Digit
<1>2. PICK f \in [0..Len(ds) -> Int] : ValueOf(f, ds) /\ digits_value(ds) = f[Len(ds)]
  BY ValueSolved
<1> DEFINE Good(n) == f[n] >= 0 /\ (n > 0 /\ ds[1] # 48 => f[n] >= 1)
           S == {n \in Nat : n <= Len(ds) => Good(n)}
<1>3. 0 \in S
  BY <1>1, <1>2 DEF ValueOf
<1>4. ASSUME NEW n \in S PROVE n + 1 \in S
  <2>1. n \in Nat /\ n + 1 \in Nat /\ (n + 1) - 1 = n
    OBVIOUS
  <2>2. CASE n + 1 <= Len(ds)
    <3>1. n + 1 \in 0..Len(ds) /\ n + 1 # 0 /\ n + 1 \in 1..Len(ds) /\ n <= Len(ds) /\ n \in 0..Len(ds)
      BY <1>1, <2>1, <2>2
    <3>2. f[n + 1] = 10 * f[(n + 1) - 1] + (ds[n + 1] - 48)
      BY <1>2, <3>1 DEF ValueOf
    <3>3. Good(n) /\ f[n] \in Int /\ ds[n + 1] \in Int /\ ds[n + 1] >= 48
      BY <1>1, <3>1
    <3>4. f[n + 1] = 10 * f[n] + (ds[n + 1] - 48)
      BY <2>1, <3>2
    <3>5. f[n + 1] >= 0
      BY <3>3, <3>4
    <3>6. ASSUME ds[1] # 48 PROVE f[n + 1] >= 1
      <4>1. CASE n = 0
        <5>1. ds[n + 1] >= 49
          BY <3>3, <3>6, <4>1
        <5> QED
          BY <3>3, <3>4, <5>1
      <4>2. CASE n # 0
        <5>1. f[n] >= 1
          BY <2>1, <3>3, <3>6, <4>2
        <5> QED
          BY <3>3, <3>4, <5>1
      <4> QED
        BY <4>1, <4>2
    <3> QED
      BY <2>1, <3>5, <3>6
  <2> QED
    BY <2>1, <2>2
<1> HIDE DEF S
<1>5. S = Nat
  <2>1. S \in SUBSET Nat
    BY DEF S
  <2> QED
    BY <1>3, <1>4, <2>1, NumbersByInduction
<1>6. Good(Len(ds))
  BY <1>1, <1>5 DEF S
<1> QED
  BY <1>2, <1>6

(* A number in a text is an integer, and a length at least -1.             *)
LEMMA NumbersTyped ==
  ASSUME NEW text \in Seq(Byte)
  PROVE  /\ parse_i64(text) = None \/ parse_i64(text) \in Int
         /\ parse_length(text) = None \/ (parse_length(text) \in Int /\ parse_length(text) >= -1)
<1> DEFINE ds == IF text # <<>> /\ text[1] \in {Plus, Minus} THEN Tail(text) ELSE text
<1>1. ds \in Seq(Byte)
  BY DEF Byte
<1>2. CASE ds = <<>> \/ \E i \in DOMAIN ds : ds[i] \notin 48..57
  BY <1>2 DEF parse_i64, parse_length
<1>3. CASE ~(ds = <<>> \/ \E i \in DOMAIN ds : ds[i] \notin 48..57)
  <2>1. ds \in Seq(Digit)
    <3> HIDE DEF ds
    <3>1. \A i \in 1..Len(ds) : ds[i] \in Digit
      BY <1>1, <1>3, LenProperties DEF Digit
    <3>2. ds \in [1..Len(ds) -> Digit] /\ Len(ds) \in Nat
      BY <1>1, <3>1, LenProperties
    <3>3. \A n \in Nat : [1..n -> Digit] \subseteq Seq(Digit)
      BY SeqDef
    <3> QED
      BY <3>2, <3>3, Zenon
  <2> DEFINE v == digits_value(ds)
  <2>2. v \in Int /\ -v \in Int
    <3> HIDE DEF ds
    <3> QED
      BY <2>1, DigitsValue
  <2>3. parse_i64(text) = IF text[1] = Minus THEN -v ELSE v
    BY <1>3 DEF parse_i64
  <2> HIDE DEF v
  <2>4. parse_i64(text) \in Int
    BY <2>2, <2>3
  <2> QED
    BY <2>4 DEF parse_length
<1> QED
  BY <1>2, <1>3

(* What is left of a number and the line break behind it: no number, or a  *)
(* number without a leading zero.                                          *)
LEMMA TornNumber ==
  ASSUME NEW n \in Nat, NEW text \in Seq(Byte), Len(text) <= Len(to_text(n)) + 1,
         \A i \in 1..Len(text) : text[i] = IF i <= Len(to_text(n)) THEN to_text(n)[i] ELSE CR
  PROVE  \/ parse_length(text) = None
         \/ parse_length(text) \in Nat /\ (n > 0 => parse_length(text) > 0)
<1> DEFINE ds == to_text(n)
<1>1. Writes(ds, n)
  BY DecimalWrites DEF to_text
<1>2. ds \in Seq(Digit) /\ Len(ds) \in Nat /\ Len(ds) > 0 /\ (n > 0 => ds[1] # 48)
  BY <1>1 DEF Writes
<1>3. Len(text) \in Nat /\ Len(text) <= Len(ds) + 1
      /\ \A i \in 1..Len(text) : text[i] = IF i <= Len(ds) THEN ds[i] ELSE CR
  OBVIOUS
<1> HIDE DEF ds
<1>4. CASE text = <<>>
  BY <1>4 DEF parse_length, parse_i64
<1>5. CASE Len(text) = Len(ds) + 1
  <2>1. Len(text) \in 1..Len(text) /\ 1 \in 1..Len(text) /\ ~(Len(text) <= Len(ds)) /\ 1 \in 1..Len(ds)
    BY <1>2, <1>3, <1>5
  <2>2. text[Len(text)] = CR /\ text[1] = ds[1]
    BY <1>2, <1>3, <2>1
  <2>3. ds[1] \in Digit
    BY <1>2, <2>1, ElementOfSeq
  <2>4. text[1] \notin {Plus, Minus} /\ CR \notin 48..57
    BY <2>2, <2>3 DEF Plus, Minus, CR, Digit
  <2>5. Len(text) \in DOMAIN text
    BY <2>1
  <2>6. \E i \in DOMAIN text : text[i] \notin 48..57
    BY <2>2, <2>4, <2>5
  <2> QED
    BY <2>4, <2>6 DEF parse_length, parse_i64
<1>6. CASE text # <<>> /\ Len(text) # Len(ds) + 1
  <2>1. Len(text) > 0 /\ Len(text) <= Len(ds)
    BY <1>2, <1>3, <1>6
  <2>2. \A i \in 1..Len(text) : i \in 1..Len(ds) /\ text[i] = ds[i]
    BY <1>2, <1>3, <2>1
  <2>3. \A i \in 1..Len(text) : text[i] \in Digit
    BY <1>2, <2>2, ElementOfSeq
  <2>4. text \in Seq(Digit)
    <3>1. text \in [1..Len(text) -> Digit] /\ Len(text) \in Nat
      BY <2>3, LenProperties
    <3>2. \A m \in Nat : [1..m -> Digit] \subseteq Seq(Digit)
      BY SeqDef
    <3> QED
      BY <3>1, <3>2, Zenon
  <2>5. parse_i64(text) = digits_value(text)
    BY <2>1, <2>4, DigitsAreRead
  <2>6. text[1] = ds[1]
    BY <1>3, <2>1, <2>2
  <2> DEFINE v == digits_value(text)
  <2>7. v \in Int /\ v >= 0 /\ (n > 0 => v >= 1)
    BY <1>2, <2>1, <2>4, <2>6, DigitsValue, ValueBound
  <2> HIDE DEF v
  <2>8. parse_length(text) = v
    <3>1. parse_i64(text) = v
      BY <2>5 DEF v
    <3>2. v # None
      BY <2>7, Resp2Assumption
    <3> QED
      BY <2>7, <3>1, <3>2 DEF parse_length
  <2> QED
    BY <2>7, <2>8
<1> QED
  BY <1>4, <1>5, <1>6

(* A part of two streams is a part of the first, or the first and a part   *)
(* of the second.                                                          *)
LEMMA PartOfJoined ==
  ASSUME NEW a \in Seq(Byte), NEW b \in Seq(Byte), NEW q, Part(q, a \o b)
  PROVE  Part(q, a) \/ \E p : Part(p, b) /\ q = a \o p
<1> DEFINE w == a \o b
<1>1. Len(a) \in Nat /\ Len(b) \in Nat /\ w \in Seq(Byte) /\ Len(w) = Len(a) + Len(b)
  OBVIOUS
<1>2. (\A i \in 1..Len(a) : w[i] = a[i]) /\ (\A i \in 1..Len(b) : w[Len(a) + i] = b[i])
  OBVIOUS
<1>3. q \in Seq(Byte) /\ Len(q) \in Nat /\ Len(q) < Len(w) /\ \A i \in 1..Len(q) : q[i] = w[i]
  BY DEF Part
<1> HIDE DEF w
<1>4. CASE Len(q) < Len(a)
  <2>1. \A i \in 1..Len(q) : i \in 1..Len(a)
    BY <1>1, <1>3, <1>4
  <2>2. \A i \in 1..Len(q) : q[i] = a[i]
    BY <1>2, <1>3, <2>1
  <2> QED
    BY <1>3, <1>4, <2>2 DEF Part
<1>5. CASE Len(q) >= Len(a)
  <2> DEFINE p == SubSeq(q, Len(a) + 1, Len(q))
             c == a \o p
  <2>1. /\ p \in Seq(Byte) /\ Len(p) = Len(q) - Len(a)
        /\ \A i \in 1..Len(p) : p[i] = q[Len(a) + i]
    <3>1. \A i \in (Len(a) + 1)..Len(q) : q[i] \in Byte
      BY <1>1, <1>3
    <3>2. Len(p) = IF Len(a) + 1 <= Len(q) THEN Len(q) - (Len(a) + 1) + 1 ELSE 0
      BY <1>1, <1>3, <3>1, SubSeqProperties
    <3>3. p \in Seq(Byte)
      BY <1>1, <1>3, <3>1, SubSeqProperties
    <3>4. Len(p) = Len(q) - Len(a)
      BY <1>1, <1>3, <1>5, <3>2
    <3>5. \A i \in 1..(Len(q) - (Len(a) + 1) + 1) : p[i] = q[(Len(a) + 1) + i - 1]
      BY <1>1, <1>3, <3>1, SubSeqProperties
    <3> HIDE DEF p
    <3>6. ASSUME NEW i \in 1..Len(p) PROVE p[i] = q[Len(a) + i]
      <4>1. i \in 1..(Len(q) - (Len(a) + 1) + 1) /\ (Len(a) + 1) + i - 1 = Len(a) + i
        BY <1>1, <1>3, <3>4
      <4>2. p[i] = q[(Len(a) + 1) + i - 1]
        BY <3>5, <4>1
      <4> QED
        BY <4>1, <4>2
    <3> QED
      BY <3>3, <3>4, <3>6
  <2> HIDE DEF p
  <2>2. \A i \in 1..Len(p) : Len(a) + i \in 1..Len(q) /\ i \in 1..Len(b) /\ Len(p) < Len(b)
    BY <1>1, <1>3, <2>1
  <2>3. Len(p) < Len(b)
    BY <1>1, <1>3, <2>1
  <2>4. \A i \in 1..Len(p) : p[i] = b[i]
    BY <1>2, <1>3, <2>1, <2>2
  <2>5. Part(p, b)
    BY <2>1, <2>3, <2>4 DEF Part
  <2>6. c \in Seq(Byte) /\ Len(c) = Len(a) + Len(p)
        /\ \A i \in 1..(Len(a) + Len(p)) : c[i] = IF i <= Len(a) THEN a[i] ELSE p[i - Len(a)]
    BY <2>1, ConcatProperties
  <2> HIDE DEF c
  <2>7. Len(c) = Len(q)
    BY <1>1, <1>3, <2>1, <2>6
  <2>8. ASSUME NEW i \in 1..Len(q) PROVE q[i] = c[i]
    <3>1. CASE i <= Len(a)
      <4>1. i \in 1..Len(a) /\ i \in 1..(Len(a) + Len(p))
        BY <1>1, <1>3, <2>1, <3>1
      <4> QED
        BY <1>2, <1>3, <2>6, <3>1, <4>1
    <3>2. CASE ~(i <= Len(a))
      <4>1. i - Len(a) \in 1..Len(p) /\ i \in 1..(Len(a) + Len(p)) /\ Len(a) + (i - Len(a)) = i
        BY <1>1, <1>3, <2>1, <3>2
      <4> QED
        BY <2>1, <2>6, <3>2, <4>1
    <3> QED
      BY <3>1, <3>2
  <2>9. q = c
    BY <1>3, <2>6, <2>7, <2>8, SeqEqual
  <2> QED
    BY <2>5, <2>9 DEF c
<1>6. Len(q) < Len(a) \/ Len(q) >= Len(a)
  BY <1>1, <1>3
<1> QED
  BY <1>4, <1>5, <1>6

(* Where a part of two streams ends. *)
EndsIn(q, a, b) == Part(q, a) \/ \E p : Part(p, b) /\ q = a \o p

(* The same, for any two streams. *)
LEMMA PartsOfJoined ==
  \A a, b \in Seq(Byte) : \A q : Part(q, a \o b) => EndsIn(q, a, b)
BY PartOfJoined DEF EndsIn

(* A line that the stream ends is all of it, and all but its prefix is     *)
(* text.                                                                   *)
LEMMA UnendedLine ==
  ASSUME NEW q \in Seq(Byte), q # <<>>, \A i \in 1..Len(q) : q[i] # LF
  PROVE  read_line(q) = [line |-> q, rest |-> <<>>] /\ parse_header(q) = Tail(q)
<1>1. Len(q) \in Nat /\ Len(q) > 0 /\ DOMAIN q = 1..Len(q)
  OBVIOUS
<1>2. {i \in DOMAIN q : q[i] = LF} = {}
  BY <1>1
<1>3. line_length(q) = Len(q)
  BY <1>2 DEF line_length
<1>4. SubSeq(q, 1, Len(q)) = q
  BY SubSeqFull
<1>5. SubSeq(q, Len(q) + 1, Len(q)) = <<>>
  BY <1>1, SubSeqEmpty
<1>6. read_line(q) = [line |-> q, rest |-> <<>>]
  BY <1>3, <1>4, <1>5 DEF read_line
<1> DEFINE t == Tail(q)
<1>7. t \in Seq(Byte) /\ Len(t) = Len(q) - 1 /\ \A i \in 1..Len(t) : t[i] = q[i + 1]
  BY HeadTailProperties
<1> HIDE DEF t
<1>8. Len(t) >= 2 => t[Len(t)] # LF
  <2>1. Len(t) >= 2 => Len(t) \in 1..Len(t) /\ Len(t) + 1 \in 1..Len(q)
    BY <1>1, <1>7
  <2> QED
    BY <1>7, <2>1
<1>9. parse_header(q) = t
  BY <1>8 DEF parse_header, t
<1> QED
  BY <1>6, <1>9 DEF t

(* What the prefix of a line selects. *)
ByPrefix(decoder, prefix, text, rest) ==
    CASE prefix = Plus -> Decoded(SimpleString(text), rest)
      [] prefix = Minus -> Decoded(SimpleError(text), rest)
      [] prefix = Colon -> IF parse_i64(text) = None THEN RespError("InvalidInteger")
                           ELSE Decoded(Integer(parse_i64(text)), rest)
      [] prefix = Dollar -> parse_bulk_string(text, rest)
      [] prefix = Asterisk -> parse_array(decoder, text, rest)
      [] OTHER -> RespError("UnknownPrefix")

(* The decoder does what the first line says. *)
LEMMA LineDecoded ==
  ASSUME NEW decoder, NEW stream, stream # <<>>, NEW line, NEW rest,
         read_line(stream) = [line |-> line, rest |-> rest]
  PROVE  decode_by(decoder, stream) = ByPrefix(decoder, line[1], parse_header(line), rest)
BY DEF decode_by, ByPrefix

(* A torn header of a length. *)
LEMMA TornHeader ==
  ASSUME NEW decoder, NEW n \in Nat, NEW q, q # <<>>
  PROVE  /\ Part(q, Header(Dollar, to_text(n))) => decode_by(decoder, q) = parse_bulk_string(Tail(q), <<>>)
         /\ Part(q, Header(Asterisk, to_text(n))) => decode_by(decoder, q) = parse_array(decoder, Tail(q), <<>>)
         /\ \A p \in {Dollar, Asterisk} :
               Part(q, Header(p, to_text(n))) =>
                   \/ parse_length(Tail(q)) = None
                   \/ parse_length(Tail(q)) \in Nat /\ (n > 0 => parse_length(Tail(q)) > 0)
<1>1. ASSUME NEW p \in {Dollar, Asterisk}, Part(q, Header(p, to_text(n)))
      PROVE  /\ read_line(q) = [line |-> q, rest |-> <<>>] /\ parse_header(q) = Tail(q) /\ q[1] = p
             /\ \/ parse_length(Tail(q)) = None
                \/ parse_length(Tail(q)) \in Nat /\ (n > 0 => parse_length(Tail(q)) > 0)
  <2> DEFINE h == Header(p, to_text(n))
             x == to_text(n)
             t == Tail(q)
  <2>1. p \in Prefix
    BY DEF Prefix
  <2>2. x \in Line
    BY IntegerRoundTrip
  <2>3. /\ h \in Seq(Byte) /\ Len(h) = Len(x) + 3 /\ Len(x) \in Nat
        /\ h[1] = p /\ h[Len(h) - 1] = CR
        /\ \A i \in 1..Len(x) : h[i + 1] = x[i]
        /\ \A i \in 1..(Len(h) - 1) : h[i] # LF
    BY <2>1, <2>2, HeaderBytes
  <2>4. q \in Seq(Byte) /\ Len(q) < Len(h) /\ (\A i \in 1..Len(q) : q[i] = h[i])
    BY <1>1 DEF Part
  <2> HIDE DEF h
  <2>5. Len(q) \in Nat /\ Len(q) > 0
    BY <2>4
  <2>6. \A i \in 1..Len(q) : q[i] # LF
    <3>1. \A i \in 1..Len(q) : i \in 1..(Len(h) - 1)
      BY <2>3, <2>4, <2>5
    <3> QED
      BY <2>3, <2>4, <3>1
  <2>7. read_line(q) = [line |-> q, rest |-> <<>>] /\ parse_header(q) = Tail(q)
    BY <2>4, <2>6, UnendedLine
  <2>8. q[1] = p
    BY <2>3, <2>4, <2>5
  <2>9. t \in Seq(Byte) /\ Len(t) = Len(q) - 1 /\ \A i \in 1..Len(t) : t[i] = q[i + 1]
    BY <2>4, HeadTailProperties
  <2> HIDE DEF t, x
  <2>10. Len(t) \in Nat /\ Len(t) <= Len(x) + 1
    BY <2>3, <2>4, <2>5, <2>9
  <2>11. ASSUME NEW i \in 1..Len(t) PROVE t[i] = IF i <= Len(x) THEN x[i] ELSE CR
    <3>1. i + 1 \in 1..Len(q)
      BY <2>5, <2>9
    <3>2. t[i] = h[i + 1]
      BY <2>4, <2>9, <3>1
    <3>3. CASE i <= Len(x)
      <4>1. i \in 1..Len(x)
        BY <2>3, <3>3
      <4> QED
        BY <2>3, <3>2, <3>3, <4>1
    <3>4. CASE ~(i <= Len(x))
      <4>1. i + 1 = Len(h) - 1
        BY <2>3, <2>10, <3>4
      <4> QED
        BY <2>3, <3>2, <3>4, <4>1
    <3> QED
      BY <3>3, <3>4
  <2>12. \/ parse_length(t) = None
         \/ parse_length(t) \in Nat /\ (n > 0 => parse_length(t) > 0)
    BY <2>9, <2>10, <2>11, TornNumber DEF x
  <2> QED
    BY <2>7, <2>8, <2>12 DEF t
<1>2. /\ Dollar # Plus /\ Dollar # Minus /\ Dollar # Colon /\ Dollar # Asterisk
      /\ Asterisk # Plus /\ Asterisk # Minus /\ Asterisk # Colon
  BY DEF Plus, Minus, Colon, Dollar, Asterisk
<1>3. ASSUME Part(q, Header(Dollar, to_text(n)))
      PROVE  decode_by(decoder, q) = parse_bulk_string(Tail(q), <<>>)
  <2>1. read_line(q) = [line |-> q, rest |-> <<>>] /\ parse_header(q) = Tail(q) /\ q[1] = Dollar
    BY <1>1, <1>3
  <2> DEFINE t == Tail(q)
             e == <<>>
  <2> HIDE DEF t, e
  <2>2. decode_by(decoder, q) = ByPrefix(decoder, Dollar, t, e)
    BY <2>1, LineDecoded DEF t, e
  <2>3. ByPrefix(decoder, Dollar, t, e) = parse_bulk_string(t, e)
    BY <1>2 DEF ByPrefix
  <2> QED
    BY <2>2, <2>3 DEF t, e
<1>4. ASSUME Part(q, Header(Asterisk, to_text(n)))
      PROVE  decode_by(decoder, q) = parse_array(decoder, Tail(q), <<>>)
  <2>1. read_line(q) = [line |-> q, rest |-> <<>>] /\ parse_header(q) = Tail(q) /\ q[1] = Asterisk
    BY <1>1, <1>4
  <2> DEFINE t == Tail(q)
             e == <<>>
  <2> HIDE DEF t, e
  <2>2. decode_by(decoder, q) = ByPrefix(decoder, Asterisk, t, e)
    BY <2>1, LineDecoded DEF t, e
  <2>3. ByPrefix(decoder, Asterisk, t, e) = parse_array(decoder, t, e)
    BY <1>2 DEF ByPrefix
  <2> QED
    BY <2>2, <2>3 DEF t, e
<1> QED
  BY <1>1, <1>3, <1>4

(* A torn bulk string is no bulk string. *)
LEMMA TornBulk ==
  ASSUME NEW encoder, NEW decoder, NEW s \in Seq(Byte), NEW q, Part(q, encode_by(encoder, BulkString(s)))
  PROVE  Fails(decode_by(decoder, q))
<1> DEFINE n == Len(s)
           h == Header(Dollar, to_text(n))
           b == s \o CRLF
<1>1. n \in Nat /\ s # None
  BY Resp2Assumption
<1>2. CRLF \in Seq(Byte) /\ Len(CRLF) = 2
  BY DEF CRLF, CR, LF, Byte
<1>3. to_text(n) \in Line
  BY <1>1, IntegerRoundTrip
<1>4. h \in Seq(Byte)
  <2>1. Dollar \in Prefix
    BY DEF Prefix
  <2> QED
    BY <1>3, <2>1, HeaderTyped
<1>5. b \in Seq(Byte) /\ Len(b) = n + 2
  <2>1. b \in Seq(Byte) /\ Len(b) = Len(s) + Len(CRLF)
    BY <1>2, ConcatProperties
  <2> QED
    BY <1>2, <2>1
<1>6. encode_by(encoder, BulkString(s)) = h \o b
  <2>1. encode_by(encoder, BulkString(s)) = (h \o s) \o CRLF
    BY <1>1 DEF encode_by, encode_bulk_string, Header, BulkString
  <2> HIDE DEF h
  <2>2. (h \o s) \o CRLF = h \o (s \o CRLF)
    BY <1>2, <1>4, Joined, Zenon
  <2> QED
    BY <2>1, <2>2
<1>7. CASE q = <<>>
  <2>1. decode_by(decoder, q) = RespError("UnexpectedEof")
    BY <1>7 DEF decode_by
  <2> QED
    BY <2>1, ReadOrError DEF Fails
<1>8. CASE q # <<>> /\ Part(q, h)
  <2>1. decode_by(decoder, q) = parse_bulk_string(Tail(q), <<>>)
    BY <1>1, <1>8, TornHeader
  <2> DEFINE t == Tail(q)
             m == parse_length(t)
  <2>2. m = None \/ m \in Nat
    BY <1>1, <1>8, TornHeader
  <2> HIDE DEF t
  <2>3. CASE m = None
    <3>1. parse_bulk_string(t, <<>>) = RespError("InvalidInteger")
      BY <2>3, Resp2Assumption DEF parse_bulk_string
    <3> QED
      BY <2>1, <3>1, ReadOrError DEF Fails, t
  <2>4. CASE m # None /\ m \in Nat
    <3>1. m # -1 /\ Len(<<>>) < m + 2
      BY <2>4
    <3>2. parse_bulk_string(t, <<>>) = RespError("UnexpectedEof")
      BY <2>4, <3>1 DEF parse_bulk_string
    <3> QED
      BY <2>1, <3>2, ReadOrError DEF Fails, t
  <2> QED
    BY <2>2, <2>3, <2>4
<1>9. CASE \E p : Part(p, b) /\ q = h \o p
  <2>1. PICK p : Part(p, b) /\ q = h \o p
    BY <1>9
  <2>2. p \in Seq(Byte) /\ Len(p) < n + 2
    BY <1>5, <2>1 DEF Part
  <2>3. decode_by(decoder, q) = parse_bulk_string(to_text(n), p)
    BY <1>3, <2>1, <2>2, HeaderDecoded
  <2>4. parse_length(to_text(n)) = n /\ n # None /\ n # -1
    BY <1>1, LengthParsed, Resp2Assumption
  <2>5. parse_bulk_string(to_text(n), p) = RespError("UnexpectedEof")
    <3> HIDE DEF n
    <3> QED
      BY <2>2, <2>4 DEF parse_bulk_string
  <2> QED
    BY <2>3, <2>5, ReadOrError DEF Fails
<1> HIDE DEF h, b
<1>10. Part(q, h) \/ \E p : Part(p, b) /\ q = h \o p
  <2>1. Part(q, h \o b)
    BY <1>6
  <2>2. b \in Seq(Byte)
    BY <1>5
  <2> QED
    BY <1>4, <2>1, <2>2, PartOfJoined
<1> QED
  BY <1>7, <1>8, <1>9, <1>10

(* An error ends the reading of the items. *)
LEMMA ErrorsStay ==
  ASSUME NEW g, NEW decoder, NEW n \in Nat, NEW stream, StepByStep(g, decoder, n, stream),
         NEW j \in 0..n, Fails(g[j])
  PROVE  Fails(g[n])
<1> DEFINE S == {k \in Nat : j + k <= n => Fails(g[j + k])}
<1>1. 0 \in S
  <2>1. j + 0 = j
    OBVIOUS
  <2> QED
    BY <2>1
<1>2. ASSUME NEW k \in S PROVE k + 1 \in S
  <2>1. k \in Nat /\ k + 1 \in Nat /\ (j + (k + 1)) - 1 = j + k
    OBVIOUS
  <2>2. CASE j + (k + 1) <= n
    <3>1. j + (k + 1) \in 1..n /\ j + k <= n
      BY <2>1, <2>2
    <3>2. g[j + (k + 1)] = NextItem(decoder, g[j + k])
      BY <2>1, <3>1 DEF StepByStep
    <3>3. Fails(g[j + k])
      BY <3>1
    <3>4. Fails(g[j + (k + 1)])
      BY <3>2, <3>3 DEF NextItem, Fails
    <3> QED
      BY <2>1, <3>4
  <2> QED
    BY <2>1, <2>2
<1> HIDE DEF S
<1>3. S = Nat
  <2>1. S \in SUBSET Nat
    BY DEF S
  <2> QED
    BY <1>1, <1>2, <2>1, NumbersByInduction
<1>4. n - j \in Nat /\ j + (n - j) = n
  OBVIOUS
<1>5. n - j \in S
  BY <1>3, <1>4
<1> QED
  BY <1>4, <1>5 DEF S

(* A decoder refuses the parts of what an encoder wrote. *)
RefusesParts(decoder, encoder, T, n) ==
    \A v \in T : \A q : Part(q, encoder[v]) /\ Len(q) <= n => Fails(decoder[q])

(* Items of which one is torn are no items: those before it are read back, *)
(* and it fails.                                                           *)
LEMMA TornItems ==
  ASSUME NEW T, NEW items \in Seq(T), NEW encoder, WritesBytes(encoder, T),
         NEW decoder, NEW n \in Nat, ReadsBack(decoder, encoder, T, n), RefusesParts(decoder, encoder, T, n),
         NEW p, Part(p, encode_items(encoder, items)), Len(p) <= n,
         NEW g, StepByStep(g, decoder, Len(items), p)
  PROVE  Fails(g[Len(items)])
<1> DEFINE L == Len(items)
<1>1. L \in Nat /\ \A k \in 1..L : items[k] \in T
  OBVIOUS
<1>2. PICK f \in [0..L -> Seq(Byte)] : LastOf(f, encoder, items) /\ encode_items(encoder, items) = f[L]
  BY ItemsEncoded
<1> DEFINE Reads(k) == \E w, x : g[k] = Decoded(w, x) /\ Part(x, f[L - k]) /\ Len(x) <= n
           S == {k \in Nat : k <= L => Fails(g[k]) \/ Reads(k)}
<1>3. \A k \in 0..L : f[L - k] \in Seq(Byte)
  <2>1. \A k \in 0..L : L - k \in 0..L
    BY <1>1
  <2> QED
    BY <2>1
<1>4. ASSUME NEW k \in 0..L, k + 1 <= L
      PROVE  /\ f[L - k] = encoder[items[k + 1]] \o f[L - (k + 1)]
             /\ encoder[items[k + 1]] \in Seq(Byte) /\ items[k + 1] \in T
             /\ f[L - (k + 1)] \in Seq(Byte)
  <2> DEFINE m == L - k
  <2>1. m \in 0..L /\ m # 0 /\ m - 1 = L - (k + 1) /\ L - m + 1 = k + 1 /\ k + 1 \in 1..L /\ k + 1 \in 0..L
    BY <1>1, <1>4
  <2> HIDE DEF m
  <2>2. f[m] = encoder[items[L - m + 1]] \o f[m - 1]
    BY <1>2, <2>1 DEF LastOf
  <2>3. encoder[items[k + 1]] \in Seq(Byte) /\ items[k + 1] \in T
    BY <1>1, <2>1 DEF WritesBytes
  <2>4. f[L - (k + 1)] \in Seq(Byte)
    BY <1>3, <2>1
  <2>5. f[L - k] = f[m]
    BY DEF m
  <2> QED
    BY <2>1, <2>2, <2>3, <2>4, <2>5
<1>5. 0 \in S
  <2>1. L - 0 = L
    BY <1>1
  <2>2. g[0] = Decoded(<<>>, p)
    BY DEF StepByStep
  <2>3. Part(p, f[L - 0])
    BY <1>2, <2>1
  <2> QED
    BY <2>2, <2>3
<1>6. ASSUME NEW k \in S PROVE k + 1 \in S
  <2>1. k \in Nat /\ k + 1 \in Nat /\ (k + 1) - 1 = k
    OBVIOUS
  <2>2. CASE k + 1 <= L
    <3>1. k \in 0..L /\ k + 1 \in 1..L /\ k <= L
      BY <1>1, <2>1, <2>2
    <3>2. g[k + 1] = NextItem(decoder, g[k])
      BY <2>1, <3>1 DEF StepByStep
    <3>3. CASE Fails(g[k])
      <4>1. Fails(g[k + 1])
        BY <3>2, <3>3 DEF NextItem, Fails
      <4> QED
        BY <2>1, <4>1
    <3>4. CASE Reads(k)
      <4>1. PICK w, x : g[k] = Decoded(w, x) /\ Part(x, f[L - k]) /\ Len(x) <= n
        BY <3>4
      <4> DEFINE e == encoder[items[k + 1]]
                 u == f[L - (k + 1)]
      <4>2. f[L - k] = e \o u /\ e \in Seq(Byte) /\ items[k + 1] \in T /\ u \in Seq(Byte)
        BY <1>4, <2>2, <3>1
      <4>3. Part(x, e \o u)
        BY <4>1, <4>2
      <4>4. Part(x, e) \/ \E y : Part(y, u) /\ x = e \o y
        <5>1. e \in Seq(Byte) /\ u \in Seq(Byte)
          BY <4>2
        <5> HIDE DEF e, u
        <5> QED
          BY <4>3, <5>1, PartOfJoined
      <4>5. CASE Part(x, e)
        <5>1. Fails(decoder[x])
          BY <4>1, <4>2, <4>5 DEF RefusesParts
        <5>2. NextItem(decoder, Decoded(w, x)) = decoder[x]
          BY <5>1, ReadOrError DEF NextItem, Fails
        <5>3. Fails(g[k + 1])
          BY <3>2, <4>1, <5>1, <5>2
        <5> QED
          BY <2>1, <5>3
      <4>6. CASE \E y : Part(y, u) /\ x = e \o y
        <5>1. PICK y : Part(y, u) /\ x = e \o y
          BY <4>6
        <5>2. y \in Seq(Byte)
          BY <5>1 DEF Part
        <5>3. decoder[e \o y] = Decoded(items[k + 1], y)
          BY <4>1, <4>2, <5>1, <5>2 DEF ReadsBack
        <5>4. NextItem(decoder, Decoded(w, x)) = Decoded(Append(w, items[k + 1]), y)
          BY <5>1, <5>3, ReadOrError DEF NextItem
        <5>5. g[k + 1] = Decoded(Append(w, items[k + 1]), y)
          BY <3>2, <4>1, <5>4
        <5>6. Len(y) <= n
          <6> HIDE DEF e
          <6>1. Len(e \o y) = Len(e) + Len(y) /\ Len(e) \in Nat /\ Len(y) \in Nat
            BY <4>2, <5>2, ConcatProperties
          <6> QED
            BY <4>1, <5>1, <6>1
        <5>7. Reads(k + 1)
          BY <5>1, <5>5, <5>6
        <5> QED
          BY <2>1, <5>7
      <4> QED
        BY <4>4, <4>5, <4>6
    <3> QED
      BY <3>1, <3>3, <3>4
  <2> QED
    BY <2>1, <2>2
<1> HIDE DEF S
<1>7. S = Nat
  <2>1. S \in SUBSET Nat
    BY DEF S
  <2> QED
    BY <1>5, <1>6, <2>1, NumbersByInduction
<1>8. Fails(g[L]) \/ Reads(L)
  BY <1>1, <1>7 DEF S
<1>9. ~Reads(L)
  <2>1. L - L = 0 /\ f[0] = <<>>
    BY <1>1, <1>2 DEF LastOf
  <2>2. ASSUME NEW x, Part(x, <<>>) PROVE FALSE
    BY <2>2 DEF Part
  <2> QED
    BY <2>1, <2>2
<1> QED
  BY <1>8, <1>9

(* Bulk strings can be sent at every depth. *)
LEMMA BulksAreSent ==
  ASSUME NEW d \in 0..MaxDepth, NEW s \in Seq(Byte)
  PROVE  BulkString(s) \in Sent[d]
<1>1. BulkString(s) \in Scalar(Line)
  BY DEF BulkString, Scalar
<1> QED
  BY <1>1, SentParts

(* A torn request is no request. *)
LEMMA TornRequest ==
  ASSUME NEW words \in Seq(Seq(Byte)), words # <<>>, NEW q, q # <<>>, Part(q, encode(Request(words)))
  PROVE  Fails(decode(q))
<1> DEFINE T == {BulkString(s) : s \in Seq(Byte)}
           items == [i \in DOMAIN words |-> BulkString(words[i])]
           L == Len(words)
           d == MaxDepth - 1
           E == Encoder[d]
           N == Len(q)
<1>1. d \in 0..MaxDepth /\ MaxDepth \in 0..MaxDepth /\ MaxDepth # 0 /\ MaxDepth \in Nat
  BY Resp2Assumption, ProtocolAssumption
<1>2. q \in Seq(Byte) /\ N \in Nat /\ N > 0
  BY DEF Part
<1>3. L \in Nat /\ L > 0 /\ DOMAIN words = 1..L
  OBVIOUS
<1>4. items \in Seq(T) /\ Len(items) = L
  <2>1. \A i \in 1..L : words[i] \in Seq(Byte)
    OBVIOUS
  <2>2. items = [i \in 1..L |-> BulkString(words[i])]
    BY <1>3
  <2>3. items \in [1..L -> T]
    BY <2>1, <2>2
  <2> HIDE DEF items, T, L
  <2>4. \A n \in Nat : [1..n -> T] \subseteq Seq(T)
    BY SeqDef
  <2>5. items \in Seq(T)
    BY <1>3, <2>3, <2>4, Zenon
  <2> QED
    BY <1>3, <2>3, <2>5
<1>5. \A v \in T : v \in Sent[d]
  BY <1>1, BulksAreSent
<1> HIDE DEF d
<1>6. items # None
  <2>1. items \in Seq(Sent[d])
    <3> HIDE DEF items, T
    <3> QED
      BY <1>4, <1>5, SeqMonotonic
  <2> HIDE DEF items
  <2> QED
    BY <1>1, <2>1, ItemsAreSome
<1>7. WritesBytes(E, T)
  <2>1. WritesBytes(Encoder[d], Sent[d])
    BY <1>1, SentAreBytes
  <2> QED
    BY <1>5, <2>1 DEF WritesBytes
<1>8. encode(Request(words)) = encode_by(E, Array(items))
  <2>1. Request(words) = Array(items)
    BY DEF Request
  <2>2. Request(words) \in RespValue[MaxDepth]
    BY <1>1, RequestsAreSent, SentAreValues
  <2>3. encode(Request(words)) = encode_by(Encoder[MaxDepth - 1], Request(words))
    BY <1>1, <2>2, EncoderSolved DEF encode
  <2> HIDE DEF items
  <2> QED
    BY <2>1, <2>3 DEF d
<1> HIDE DEF items, E, L, N
<1> DEFINE h == Header(Asterisk, to_text(L))
           e == encode_items(E, items)
<1>9. /\ encode_by(E, Array(items)) = h \o e
      /\ h \in Seq(Byte) /\ e \in Seq(Byte) /\ to_text(L) \in Line
  <2> HIDE DEF T
  <2> QED
    BY <1>4, <1>6, <1>7, ArrayEncoded
<1>10. PICK f : Decoders(f, N) /\ decode(q) = f[N][q]
  BY <1>2, DecodeSolved DEF N
<1> DEFINE D == f[N - 1]
<1>11. N - 1 \in Nat /\ N - 1 \in 0..N /\ N \in 0..N
  BY <1>2
<1>12. decode(q) = decode_by(D, q)
  <2>1. q \in Streams(N)
    BY <1>2 DEF Streams, N
  <2>2. f[N][q] = decode_by(IF N = 0 THEN <<>> ELSE f[N - 1], q)
    BY <1>10, <1>11, <2>1 DEF Decoders
  <2> QED
    BY <1>2, <1>10, <2>2
<1>13. ReadsBack(D, E, T, N - 1)
  <2>1. ReadsBack(f[N - 1], Encoder[d], Sent[d], N - 1)
    BY <1>1, <1>2, <1>10, <1>11, DepthRoundTrip
  <2> QED
    BY <1>5, <2>1 DEF ReadsBack, E
<1>14. ASSUME NEW x \in Seq(Byte), Len(x) <= N - 1
       PROVE  \E D1 : D[x] = decode_by(D1, x)
  <2>1. x \in Streams(N - 1)
    BY <1>14 DEF Streams
  <2> QED
    BY <1>10, <1>11, <2>1 DEF Decoders
<1>15. RefusesParts(D, E, T, N - 1)
  <2>1. ASSUME NEW v \in T, NEW x, Part(x, E[v]), Len(x) <= N - 1 PROVE Fails(D[x])
    <3>1. PICK s \in Seq(Byte) : v = BulkString(s)
      OBVIOUS
    <3>2. x \in Seq(Byte)
      BY <2>1 DEF Part
    <3>3. v \in RespValue[d]
      BY <1>1, <1>5, SentAreValues
    <3>4. PICK E1 : E[v] = encode_by(E1, v)
      BY <1>1, <3>3, EncoderSolved DEF E
    <3>5. PICK D1 : D[x] = decode_by(D1, x)
      BY <1>14, <2>1, <3>2
    <3>6. Part(x, encode_by(E1, BulkString(s)))
      BY <2>1, <3>1, <3>4
    <3>7. Fails(decode_by(D1, x))
      BY <3>6, TornBulk
    <3> QED
      BY <3>5, <3>7
  <2> QED
    BY <2>1 DEF RefusesParts
<1> HIDE DEF T, D
<1>16. CASE Part(q, h)
  <2> DEFINE t == Tail(q)
             m == parse_length(t)
  <2>1. decode_by(D, q) = parse_array(D, t, <<>>)
    BY <1>3, <1>16, TornHeader
  <2>2. m = None \/ (m \in Nat /\ m > 0)
    BY <1>3, <1>16, TornHeader
  <2> HIDE DEF t
  <2>3. CASE m = None
    <3>1. parse_array(D, t, <<>>) = RespError("InvalidInteger")
      BY <2>3, Resp2Assumption DEF parse_array
    <3> QED
      BY <1>12, <2>1, <3>1, ReadOrError DEF Fails
  <2>4. CASE m # None /\ m \in Nat /\ m > 0
    <3> HIDE DEF m
    <3>1. PICK g : StepByStep(g, D, m, <<>>) /\ decode_items(D, m, <<>>) = g[m]
      BY <2>4, ItemsDecoded
    <3>2. Fails(D[<<>>])
      <4>1. <<>> \in Seq(Byte) /\ Len(<<>>) <= N - 1
        BY <1>11
      <4>2. PICK D1 : D[<<>>] = decode_by(D1, <<>>)
        BY <1>14, <4>1
      <4>3. decode_by(D1, <<>>) = RespError("UnexpectedEof")
        BY DEF decode_by
      <4> QED
        BY <4>2, <4>3, ReadOrError DEF Fails
    <3>3. 1 \in 1..m /\ 1 \in 0..m /\ 1 - 1 = 0
      BY <2>4
    <3>4. g[1] = NextItem(D, Decoded(<<>>, <<>>))
      BY <3>1, <3>3 DEF StepByStep
    <3>5. NextItem(D, Decoded(<<>>, <<>>)) = D[<<>>]
      BY <3>2, ReadOrError DEF NextItem, Fails
    <3>6. Fails(g[1])
      BY <3>2, <3>4, <3>5
    <3>7. Fails(g[m])
      BY <2>4, <3>1, <3>3, <3>6, ErrorsStay
    <3>8. m # -1
      BY <2>4
    <3>9. parse_array(D, t, <<>>) = decode_items(D, m, <<>>)
      BY <2>4, <3>1, <3>7, <3>8 DEF parse_array, Fails, m
    <3> QED
      BY <1>12, <2>1, <3>1, <3>7, <3>9
  <2> QED
    BY <2>2, <2>3, <2>4
<1>17. CASE \E p : Part(p, e) /\ q = h \o p
  <2>1. PICK p : Part(p, e) /\ q = h \o p
    BY <1>17
  <2>2. p \in Seq(Byte)
    BY <2>1 DEF Part
  <2>3. decode_by(D, q) = parse_array(D, to_text(L), p)
    BY <1>9, <2>1, <2>2, HeaderDecoded
  <2>4. Len(p) <= N - 1
    <3>1. h # <<>>
      BY <1>9, HeaderTyped DEF Prefix
    <3>2. h \in Seq(Byte)
      BY <1>9
    <3> HIDE DEF h
    <3>3. Len(h \o p) = Len(h) + Len(p) /\ Len(h) \in Nat \ {0} /\ Len(p) \in Nat
      BY <2>2, <3>1, <3>2, ConcatProperties, EmptySeq
    <3> QED
      BY <2>1, <3>3 DEF N
  <2>5. PICK g : StepByStep(g, D, L, p) /\ decode_items(D, L, p) = g[L]
    BY <1>3, ItemsDecoded
  <2>6. Fails(g[L])
    <3>1. StepByStep(g, D, Len(items), p) /\ Part(p, encode_items(E, items))
      BY <1>4, <2>1, <2>5
    <3>2. Fails(g[Len(items)])
      BY <1>4, <1>7, <1>11, <1>13, <1>15, <2>4, <3>1, TornItems
    <3> QED
      BY <1>4, <3>2
  <2>7. parse_length(to_text(L)) = L /\ L # None /\ L # -1
    BY <1>3, LengthParsed, Resp2Assumption
  <2>8. parse_array(D, to_text(L), p) = decode_items(D, L, p)
    BY <2>5, <2>6, <2>7 DEF parse_array, Fails
  <2> QED
    BY <1>12, <2>3, <2>5, <2>6, <2>8
<1>18. Part(q, h) \/ \E p : Part(p, e) /\ q = h \o p
  <2>1. Part(q, h \o e)
    BY <1>8, <1>9
  <2>2. h \in Seq(Byte) /\ e \in Seq(Byte)
    BY <1>9
  <2>3. EndsIn(q, h, e)
    <3> HIDE DEF h, e
    <3> QED
      BY <2>1, <2>2, PartsOfJoined, Zenon
  <2> QED
    BY <2>3 DEF EndsIn
<1> QED
  BY <1>16, <1>17, <1>18

-----------------------------------------------------------------------------
(***************************************************************************)
(* What the decoder takes of a stream.                                     *)
(***************************************************************************)
(* The first line of a stream and what is behind it. *)
FirstLine(s, a, b) ==
    /\ a \in Seq(Byte) /\ b \in Seq(Byte) /\ s = a \o b /\ Len(a) > 0
    /\ read_line(s) = [line |-> a, rest |-> b]
    /\ b = <<>> \/ a[Len(a)] = LF

(* A line that ends with a line feed, its first one. *)
Ended(a) == Len(a) > 0 /\ a[Len(a)] = LF /\ \A i \in 1..(Len(a) - 1) : a[i] # LF

(* A stream with a line feed starts with a line that ends with one. *)
LEMMA LineSplit ==
  ASSUME NEW s \in Seq(Byte), NEW i \in 1..Len(s), s[i] = LF
  PROVE  \E a, b \in Seq(Byte) : s = a \o b /\ Ended(a)
<1> DEFINE ends == {j \in 1..Len(s) : s[j] = LF}
<1>1. ends \in SUBSET Nat /\ ends # {}
  OBVIOUS
<1>2. PICK k \in ends : \A j \in ends : k <= j
  BY <1>1, LeastExists
<1>3. Len(s) \in Nat /\ k \in 1..Len(s) /\ s[k] = LF
  BY <1>2
<1> DEFINE a == SubSeq(s, 1, k)
           b == SubSeq(s, k + 1, Len(s))
<1>4. a \in Seq(Byte) /\ Len(a) = k /\ \A j \in 1..k : a[j] = s[j]
  BY <1>3
<1>5. b \in Seq(Byte)
  BY <1>3
<1>6. a \o b = s
  <2>1. 1 \in 1..(Len(s) + 1) /\ k \in (1 - 1)..Len(s) /\ Len(s) \in k..Len(s)
    BY <1>3
  <2>2. a \o b = SubSeq(s, 1, Len(s))
    BY <2>1, ConcatAdjacentSubSeq
  <2> QED
    BY <2>2, SubSeqFull
<1> HIDE DEF a, b
<1>7. ASSUME NEW j \in 1..(k - 1) PROVE a[j] # LF
  <2>1. j \in 1..k /\ j \in 1..Len(s) /\ ~(k <= j)
    BY <1>3
  <2> QED
    BY <1>2, <1>4, <2>1
<1>8. Ended(a)
  BY <1>3, <1>4, <1>7 DEF Ended
<1> QED
  BY <1>4, <1>5, <1>6, <1>8

(* An ended line is read, whatever follows it. *)
LEMMA EndedRead ==
  ASSUME NEW a \in Seq(Byte), Ended(a), NEW b \in Seq(Byte)
  PROVE  FirstLine(a \o b, a, b)
<1>1. read_line(a \o b) = [line |-> a, rest |-> b]
  BY LineRead DEF Ended
<1> QED
  BY <1>1 DEF FirstLine, Ended

(* Every stream has a first line. *)
LEMMA FirstLineExists ==
  ASSUME NEW s \in Seq(Byte), s # <<>>
  PROVE  \E a, b \in Seq(Byte) : FirstLine(s, a, b)
<1>1. CASE \E i \in 1..Len(s) : s[i] = LF
  <2>1. PICK a \in Seq(Byte), b \in Seq(Byte) : s = a \o b /\ Ended(a)
    BY <1>1, LineSplit
  <2> QED
    BY <2>1, EndedRead
<1>2. CASE \A i \in 1..Len(s) : s[i] # LF
  <2>1. read_line(s) = [line |-> s, rest |-> <<>>]
    BY <1>2, UnendedLine
  <2>2. s = s \o <<>> /\ <<>> \in Seq(Byte) /\ Len(s) > 0
    BY ConcatEmptySeq
  <2>3. FirstLine(s, s, <<>>)
    BY <2>1, <2>2 DEF FirstLine
  <2> QED
    BY <2>2, <2>3
<1> QED
  BY <1>1, <1>2

(* The text of a line is bytes. *)
LEMMA TextTyped ==
  ASSUME NEW a \in Seq(Byte), Len(a) > 0
  PROVE  parse_header(a) \in Seq(Byte)
<1> DEFINE t == Tail(a)
<1>1. t \in Seq(Byte) /\ Len(t) \in Nat
  OBVIOUS
<1>2. parse_header(a) = IF Len(t) >= 2 /\ t[Len(t) - 1] = CR /\ t[Len(t)] = LF
                        THEN SubSeq(t, 1, Len(t) - 2) ELSE t
  BY DEF parse_header
<1> HIDE DEF t
<1>3. Len(t) >= 2 => SubSeq(t, 1, Len(t) - 2) \in Seq(Byte)
  BY <1>1
<1> QED
  BY <1>1, <1>2, <1>3

(* A decoder takes at least a byte of what it reads, and leaves the rest.  *)
Takes(r, s) == ~IsError(r) => r.rest \in Seq(Byte) /\ Len(r.rest) < Len(s)
Leaves(r, s) == ~IsError(r) => r.rest \in Seq(Byte) /\ Len(r.rest) <= Len(s)
Consumes(decoder, n) == \A s \in Streams(n) : Takes(decoder[s], s)

(* The items do not give bytes back. *)
LEMMA ItemsConsume ==
  ASSUME NEW decoder, NEW n \in Nat, Consumes(decoder, n), NEW s \in Streams(n),
         NEW m \in Nat, NEW g, StepByStep(g, decoder, m, s), NEW k \in 0..m
  PROVE  Leaves(g[k], s)
<1>1. s \in Seq(Byte) /\ Len(s) \in Nat /\ Len(s) <= n
  BY DEF Streams
<1> DEFINE S == {j \in Nat : j <= m => Leaves(g[j], s)}
<1>2. 0 \in S
  <2>1. g[0] = Decoded(<<>>, s)
    BY DEF StepByStep
  <2>2. Leaves(Decoded(<<>>, s), s)
    BY <1>1, ReadOrError DEF Leaves
  <2> QED
    BY <2>1, <2>2
<1>3. ASSUME NEW j \in S PROVE j + 1 \in S
  <2>1. j \in Nat /\ j + 1 \in Nat /\ (j + 1) - 1 = j
    OBVIOUS
  <2>2. CASE j + 1 <= m
    <3>1. j + 1 \in 1..m /\ j <= m
      BY <2>1, <2>2
    <3>2. g[j + 1] = NextItem(decoder, g[j])
      BY <2>1, <3>1 DEF StepByStep
    <3>3. Leaves(g[j], s)
      BY <3>1
    <3>4. CASE IsError(g[j])
      <4>1. g[j + 1] = g[j]
        BY <3>2, <3>4 DEF NextItem
      <4> QED
        BY <2>1, <3>3, <4>1
    <3>5. CASE ~IsError(g[j])
      <4> DEFINE x == g[j].rest
                 r == decoder[x]
      <4>1. x \in Seq(Byte) /\ Len(x) \in Nat /\ Len(x) <= Len(s)
        BY <3>3, <3>5 DEF Leaves
      <4>2. x \in Streams(n)
        BY <1>1, <4>1 DEF Streams
      <4>3. Takes(r, x)
        BY <4>2 DEF Consumes
      <4>4. g[j + 1] = IF IsError(r) THEN r ELSE Decoded(Append(g[j].value, r.value), r.rest)
        BY <3>2, <3>5 DEF NextItem
      <4> HIDE DEF x, r
      <4>5. CASE IsError(r)
        <5>1. Leaves(g[j + 1], s)
          BY <4>4, <4>5 DEF Leaves
        <5> QED
          BY <2>1, <5>1
      <4>6. CASE ~IsError(r)
        <5>1. ~IsError(g[j + 1]) /\ g[j + 1].rest = r.rest
          BY <4>4, <4>6, ReadOrError
        <5>2. r.rest \in Seq(Byte) /\ Len(r.rest) \in Nat /\ Len(r.rest) < Len(x)
          BY <4>3, <4>6 DEF Takes
        <5>3. Len(r.rest) <= Len(s)
          BY <1>1, <4>1, <5>2
        <5>4. Leaves(g[j + 1], s)
          BY <5>1, <5>2, <5>3 DEF Leaves
        <5> QED
          BY <2>1, <5>4
      <4> QED
        BY <4>5, <4>6
    <3> QED
      BY <3>4, <3>5
  <2> QED
    BY <2>1, <2>2
<1> HIDE DEF S
<1>4. S = Nat
  <2>1. S \in SUBSET Nat
    BY DEF S
  <2> QED
    BY <1>2, <1>3, <2>1, NumbersByInduction
<1> QED
  BY <1>4 DEF S

(* Nor does what follows the first line. *)
LEMMA PrefixConsumes ==
  ASSUME NEW decoder, NEW n \in Nat, Consumes(decoder, n), NEW s \in Streams(n),
         NEW text \in Seq(Byte), NEW prefix
  PROVE  Leaves(ByPrefix(decoder, prefix, text, s), s)
<1>1. s \in Seq(Byte) /\ Len(s) \in Nat
  BY DEF Streams
<1>2. \A v : Leaves(Decoded(v, s), s)
  BY <1>1, ReadOrError DEF Leaves
<1>3. \A e : Leaves(RespError(e), s)
  BY ReadOrError DEF Leaves
<1> DEFINE m == parse_length(text)
<1>4. m = None \/ (m \in Int /\ m >= -1)
  BY NumbersTyped
<1>5. None # -1
  BY Resp2Assumption
<1>6. Leaves(parse_bulk_string(text, s), s)
  <2> HIDE DEF m
  <2>1. CASE m = None
    <3>1. parse_bulk_string(text, s) = RespError("InvalidInteger")
      BY <1>5, <2>1 DEF parse_bulk_string, m
    <3> QED
      BY <1>3, <3>1
  <2>2. CASE m = -1
    <3>1. parse_bulk_string(text, s) = Decoded(BulkString(None), s)
      BY <1>5, <2>2 DEF parse_bulk_string, m
    <3> QED
      BY <1>2, <3>1
  <2>3. CASE m # None /\ m # -1
    <3> DEFINE x == SubSeq(s, m + 3, Len(s))
    <3>1. m \in Nat
      BY <1>4, <2>3
    <3>2. parse_bulk_string(text, s) = IF Len(s) < m + 2 THEN RespError("UnexpectedEof")
                                       ELSE Decoded(BulkString(SubSeq(s, 1, m)), x)
      BY <2>3 DEF parse_bulk_string, m
    <3>3. ASSUME ~(Len(s) < m + 2) PROVE x \in Seq(Byte) /\ Len(x) <= Len(s)
      BY <1>1, <3>1, <3>3
    <3> HIDE DEF x
    <3>4. CASE Len(s) < m + 2
      BY <1>3, <3>2, <3>4
    <3>5. CASE ~(Len(s) < m + 2)
      <4>1. parse_bulk_string(text, s) = Decoded(BulkString(SubSeq(s, 1, m)), x)
        BY <3>2, <3>5
      <4> QED
        BY <3>3, <3>5, <4>1, ReadOrError DEF Leaves
    <3> QED
      BY <3>4, <3>5
  <2> QED
    BY <2>1, <2>2, <2>3
<1>7. Leaves(parse_array(decoder, text, s), s)
  <2> HIDE DEF m
  <2>1. CASE m = None
    <3>1. parse_array(decoder, text, s) = RespError("InvalidInteger")
      BY <1>5, <2>1 DEF parse_array, m
    <3> QED
      BY <1>3, <3>1
  <2>2. CASE m = -1
    <3>1. parse_array(decoder, text, s) = Decoded(Array(None), s)
      BY <1>5, <2>2 DEF parse_array, m
    <3> QED
      BY <1>2, <3>1
  <2>3. CASE m # None /\ m # -1
    <3>1. m \in Nat
      BY <1>4, <2>3
    <3> DEFINE r == decode_items(decoder, m, s)
    <3>2. parse_array(decoder, text, s) = IF IsError(r) THEN r ELSE Decoded(Array(r.value), r.rest)
      BY <2>3 DEF parse_array, m
    <3>3. PICK g : StepByStep(g, decoder, m, s) /\ r = g[m]
      BY <3>1, ItemsDecoded
    <3>4. m \in 0..m
      BY <3>1
    <3>5. Leaves(r, s)
      BY <3>1, <3>3, <3>4, ItemsConsume
    <3> HIDE DEF r
    <3>6. CASE IsError(r)
      BY <3>2, <3>5, <3>6
    <3>7. CASE ~IsError(r)
      BY <3>2, <3>5, <3>7, ReadOrError DEF Leaves
    <3> QED
      BY <3>6, <3>7
  <2> QED
    BY <2>1, <2>2, <2>3
<1> QED
  <2> DEFINE r == ByPrefix(decoder, prefix, text, s)
  <2>1. \/ \E v : r = Decoded(v, s)
        \/ \E e : r = RespError(e)
        \/ r = parse_bulk_string(text, s)
        \/ r = parse_array(decoder, text, s)
    BY DEF ByPrefix
  <2> HIDE DEF r
  <2> QED
    BY <1>2, <1>3, <1>6, <1>7, <2>1 DEF r

(* The decoders of streams of every length take at least a byte. *)
LEMMA DecodersConsume ==
  ASSUME NEW N \in Nat, NEW f, Decoders(f, N), NEW k \in 0..N
  PROVE  Consumes(f[k], k)
<1>1. \A D : Takes(decode_by(D, <<>>), <<>>)
  <2>1. \A D : decode_by(D, <<>>) = RespError("UnexpectedEof")
    BY DEF decode_by
  <2> QED
    BY <2>1, ReadOrError DEF Takes
<1> DEFINE S == {j \in Nat : j <= N => Consumes(f[j], j)}
<1>2. 0 \in S
  <2>1. ASSUME NEW s \in Streams(0) PROVE Takes(f[0][s], s)
    <3>1. s = <<>>
      BY DEF Streams
    <3>2. \E D : f[0][s] = decode_by(D, s)
      BY <2>1 DEF Decoders
    <3> QED
      BY <1>1, <3>1, <3>2
  <2> QED
    BY <2>1 DEF Consumes
<1>3. ASSUME NEW j \in S PROVE j + 1 \in S
  <2>1. j \in Nat /\ j + 1 \in Nat /\ (j + 1) - 1 = j /\ j + 1 # 0
    OBVIOUS
  <2>2. CASE j + 1 <= N
    <3>1. j + 1 \in 0..N /\ j <= N
      BY <2>1, <2>2
    <3> DEFINE D == f[j]
    <3>2. Consumes(D, j)
      BY <3>1
    <3>3. ASSUME NEW s \in Streams(j + 1) PROVE Takes(f[j + 1][s], s)
      <4>1. f[j + 1][s] = decode_by(D, s)
        BY <2>1, <3>1, <3>3 DEF Decoders
      <4>2. s \in Seq(Byte) /\ Len(s) \in Nat /\ Len(s) <= j + 1
        BY DEF Streams
      <4> HIDE DEF D
      <4>3. CASE s = <<>>
        BY <1>1, <4>1, <4>3
      <4>4. CASE s # <<>>
        <5>1. PICK a \in Seq(Byte), b \in Seq(Byte) : FirstLine(s, a, b)
          BY <4>2, <4>4, FirstLineExists
        <5>2. s = a \o b /\ Len(a) > 0 /\ read_line(s) = [line |-> a, rest |-> b]
          BY <5>1 DEF FirstLine
        <5>3. Len(s) = Len(a) + Len(b) /\ Len(a) \in Nat /\ Len(b) \in Nat
          BY <5>2, ConcatProperties
        <5>4. b \in Streams(j) /\ Len(b) < Len(s)
          BY <2>1, <4>2, <5>2, <5>3 DEF Streams
        <5>5. parse_header(a) \in Seq(Byte)
          BY <5>2, TextTyped
        <5> DEFINE r == ByPrefix(D, a[1], parse_header(a), b)
        <5>6. decode_by(D, s) = r
          BY <4>4, <5>2, LineDecoded
        <5>7. Leaves(r, b)
          BY <2>1, <3>2, <5>4, <5>5, PrefixConsumes
        <5> HIDE DEF r
        <5>8. Takes(r, s)
          <6>1. ASSUME ~IsError(r) PROVE r.rest \in Seq(Byte) /\ Len(r.rest) < Len(s)
            <7>1. r.rest \in Seq(Byte) /\ Len(r.rest) <= Len(b)
              BY <5>7, <6>1 DEF Leaves
            <7>2. Len(r.rest) \in Nat
              BY <7>1
            <7> QED
              BY <4>2, <5>3, <5>4, <7>1, <7>2
          <6> QED
            BY <6>1 DEF Takes
        <5> QED
          BY <4>1, <5>6, <5>8
      <4> QED
        BY <4>3, <4>4
    <3> QED
      BY <2>1, <3>3 DEF Consumes
  <2> QED
    BY <2>1, <2>2
<1> HIDE DEF S
<1>4. S = Nat
  <2>1. S \in SUBSET Nat
    BY DEF S
  <2> QED
    BY <1>2, <1>3, <2>1, NumbersByInduction
<1> QED
  BY <1>4 DEF S

-----------------------------------------------------------------------------
(***************************************************************************)
(* What the decoder makes of a stream with a tail: if it leaves the tail,  *)
(* it has read what it reads without the tail.                             *)
(***************************************************************************)
Agree(r1, r2, t) ==
    ~IsError(r1) /\ Len(r1.rest) >= Len(t)
        => ~IsError(r2) /\ r2.rest \in Seq(Byte) /\ r1.rest = r2.rest \o t

Follows(D1, D2, t, n1, n2) ==
    \A x \in Streams(n2) : x \o t \in Streams(n1) => Agree(D1[x \o t], D2[x], t)

(* What was left of a stream with the tail and without it. *)
LEMMA Agreed ==
  ASSUME NEW r1, NEW r2, NEW t, NEW v1, NEW v2, NEW y \in Seq(Byte),
         r1 = Decoded(v1, y \o t), r2 = Decoded(v2, y)
  PROVE  Agree(r1, r2, t)
<1> DEFINE z == y \o t
<1>1. r1 = Decoded(v1, z)
  OBVIOUS
<1> HIDE DEF z
<1>2. ~IsError(r1) /\ r1.rest = z /\ ~IsError(r2) /\ r2.rest = y
  BY <1>1 DEF IsError, Decoded
<1> QED
  BY <1>2 DEF Agree, z

(* Items that leave the tail are the items without it. *)
LEMMA ItemsFollow ==
  ASSUME NEW t \in Seq(Byte), NEW n1 \in Nat, NEW n2 \in Nat, NEW D1, NEW D2,
         Consumes(D1, n1), Consumes(D2, n2), Follows(D1, D2, t, n1, n2),
         NEW s \in Streams(n2), s \o t \in Streams(n1), NEW m \in Nat,
         NEW g1, StepByStep(g1, D1, m, s \o t), NEW g2, StepByStep(g2, D2, m, s), NEW k \in 0..m
  PROVE  Agree(g1[k], g2[k], t)
<1>1. s \in Seq(Byte) /\ Len(s) \in Nat /\ Len(s) <= n2
  BY DEF Streams
<1>2. s \o t \in Seq(Byte) /\ Len(s \o t) \in Nat /\ Len(s \o t) <= n1 /\ Len(t) \in Nat
  BY DEF Streams
<1> DEFINE S == {j \in Nat : j <= m => Agree(g1[j], g2[j], t)}
<1>3. 0 \in S
  <2>1. g1[0] = Decoded(<<>>, s \o t) /\ g2[0] = Decoded(<<>>, s)
    BY DEF StepByStep
  <2>2. Agree(g1[0], g2[0], t)
    BY <1>1, <2>1, Agreed
  <2> QED
    BY <2>2
<1>4. ASSUME NEW j \in S PROVE j + 1 \in S
  <2>1. j \in Nat /\ j + 1 \in Nat /\ (j + 1) - 1 = j
    OBVIOUS
  <2>2. CASE j + 1 <= m
    <3>1. j + 1 \in 1..m /\ j <= m /\ j \in 0..m
      BY <2>1, <2>2
    <3>2. g1[j + 1] = NextItem(D1, g1[j]) /\ g2[j + 1] = NextItem(D2, g2[j])
      BY <2>1, <3>1 DEF StepByStep
    <3>3. Agree(g1[j], g2[j], t)
      BY <3>1
    <3>4. Leaves(g1[j], s \o t) /\ Leaves(g2[j], s)
      BY <3>1, ItemsConsume
    <3>5. ASSUME ~IsError(g1[j + 1]), Len(g1[j + 1].rest) >= Len(t)
          PROVE  Agree(g1[j + 1], g2[j + 1], t)
      <4> DEFINE x == g1[j].rest
                 y == g2[j].rest
                 r1 == D1[x]
                 r2 == D2[y]
      <4>1. ~IsError(g1[j]) /\ ~IsError(r1) /\ g1[j + 1] = Decoded(Append(g1[j].value, r1.value), r1.rest)
        BY <3>2, <3>5 DEF NextItem
      <4>2. g1[j + 1].rest = r1.rest
        BY <4>1, ReadOrError
      <4>3. x \in Seq(Byte) /\ Len(x) \in Nat /\ Len(x) <= Len(s \o t)
        BY <3>4, <4>1 DEF Leaves
      <4>4. x \in Streams(n1)
        BY <1>2, <4>3 DEF Streams
      <4>5. r1.rest \in Seq(Byte) /\ Len(r1.rest) \in Nat /\ Len(r1.rest) < Len(x)
        BY <4>1, <4>4 DEF Consumes, Takes
      <4>6. Len(x) >= Len(t)
        BY <1>2, <3>5, <4>2, <4>3, <4>5
      <4>7. ~IsError(g2[j]) /\ y \in Seq(Byte) /\ x = y \o t
        BY <3>3, <4>1, <4>6 DEF Agree
      <4>8. Len(y) \in Nat /\ Len(y) <= Len(s)
        BY <3>4, <4>7 DEF Leaves
      <4>9. y \in Streams(n2)
        BY <1>1, <4>7, <4>8 DEF Streams
      <4>10. Agree(r1, r2, t)
        BY <4>4, <4>7, <4>9 DEF Follows
      <4>11. ~IsError(r2) /\ r2.rest \in Seq(Byte) /\ r1.rest = r2.rest \o t
        BY <3>5, <4>1, <4>2, <4>10 DEF Agree
      <4>12. g2[j + 1] = Decoded(Append(g2[j].value, r2.value), r2.rest)
        BY <3>2, <4>7, <4>11 DEF NextItem
      <4>13. g1[j + 1] = Decoded(Append(g1[j].value, r1.value), r2.rest \o t)
        BY <4>1, <4>11
      <4> HIDE DEF x, y, r1, r2
      <4> QED
        BY <4>11, <4>12, <4>13, Agreed
    <3> QED
      BY <2>1, <3>5 DEF Agree
  <2> QED
    BY <2>1, <2>2
<1> HIDE DEF S
<1>5. S = Nat
  <2>1. S \in SUBSET Nat
    BY DEF S
  <2> QED
    BY <1>3, <1>4, <2>1, NumbersByInduction
<1> QED
  BY <1>5 DEF S

(* A bulk string that leaves the tail is the one without it. *)
LEMMA BulkFollows ==
  ASSUME NEW t \in Seq(Byte), NEW s \in Seq(Byte), NEW text \in Seq(Byte)
  PROVE  Agree(parse_bulk_string(text, s \o t), parse_bulk_string(text, s), t)
<1> DEFINE m == parse_length(text)
           w == s \o t
<1>1. m = None \/ (m \in Int /\ m >= -1)
  BY NumbersTyped
<1>2. None # -1
  BY Resp2Assumption
<1>3. w \in Seq(Byte) /\ Len(w) = Len(s) + Len(t) /\ Len(s) \in Nat /\ Len(t) \in Nat
  OBVIOUS
<1> HIDE DEF m
<1>4. CASE m = None
  <2>1. parse_bulk_string(text, w) = RespError("InvalidInteger")
    BY <1>2, <1>4 DEF parse_bulk_string, m
  <2> QED
    BY <2>1, ReadOrError DEF Agree
<1>5. CASE m = -1
  <2>1. \A x : parse_bulk_string(text, x) = Decoded(BulkString(None), x)
    BY <1>2, <1>5 DEF parse_bulk_string, m
  <2> QED
    BY <2>1, Agreed
<1>6. CASE m # None /\ m # -1
  <2>1. m \in Nat
    BY <1>1, <1>6
  <2>2. \A x : parse_bulk_string(text, x) = IF Len(x) < m + 2 THEN RespError("UnexpectedEof")
                                            ELSE Decoded(BulkString(SubSeq(x, 1, m)), SubSeq(x, m + 3, Len(x)))
    BY <1>6 DEF parse_bulk_string, m
  <2>3. ASSUME ~IsError(parse_bulk_string(text, w)), Len(parse_bulk_string(text, w).rest) >= Len(t)
        PROVE  Agree(parse_bulk_string(text, w), parse_bulk_string(text, s), t)
    <3> DEFINE y == SubSeq(s, m + 3, Len(s))
               z == SubSeq(w, m + 3, Len(w))
    <3>1. ~(Len(w) < m + 2)
      BY <2>2, <2>3, ReadOrError
    <3>2. parse_bulk_string(text, w) = Decoded(BulkString(SubSeq(w, 1, m)), z)
      BY <2>2, <3>1
    <3>3. parse_bulk_string(text, w).rest = z
      <4> HIDE DEF z
      <4> QED
        BY <3>2 DEF Decoded
    <3>4. z \in Seq(Byte) /\ Len(z) = Len(w) - (m + 2)
      BY <1>3, <2>1, <3>1
    <3>5. Len(s) >= m + 2
      BY <1>3, <2>1, <2>3, <3>3, <3>4
    <3>6. parse_bulk_string(text, s) = Decoded(BulkString(SubSeq(s, 1, m)), y)
      BY <1>3, <2>1, <2>2, <3>5
    <3>7. y \in Seq(Byte) /\ Len(y) = Len(s) - (m + 2)
      BY <1>3, <2>1, <3>5
    <3>8. z = y \o t
      <4> DEFINE h == SubSeq(s, 1, m + 2)
      <4>1. h \in Seq(Byte) /\ Len(h) = m + 2
        BY <2>1, <3>5
      <4>2. s = h \o y
        <5>1. 1 \in 1..(Len(s) + 1) /\ m + 2 \in (1 - 1)..Len(s) /\ Len(s) \in (m + 2)..Len(s) /\ (m + 2) + 1 = m + 3
          BY <1>3, <2>1, <3>5
        <5>2. h \o y = SubSeq(s, 1, Len(s))
          BY <5>1, ConcatAdjacentSubSeq
        <5> QED
          BY <5>2, SubSeqFull
      <4> HIDE DEF h, y
      <4>3. w = h \o (y \o t) /\ y \o t \in Seq(Byte)
        BY <3>7, <4>1, <4>2, Joined
      <4> HIDE DEF w
      <4>4. SubSeq(w, Len(h) + 1, Len(w)) = y \o t
        BY <4>1, <4>3, Behind
      <4>5. Len(h) + 1 = m + 3
        BY <2>1, <4>1
      <4> QED
        BY <4>4, <4>5
    <3> HIDE DEF y, z, w
    <3> QED
      BY <3>2, <3>6, <3>7, <3>8, Agreed
  <2> QED
    BY <2>3 DEF Agree
<1> QED
  BY <1>1, <1>4, <1>5, <1>6

(* What follows the first line and leaves the tail is what follows it      *)
(* without the tail.                                                       *)
LEMMA PrefixFollows ==
  ASSUME NEW t \in Seq(Byte), NEW n1 \in Nat, NEW n2 \in Nat, NEW D1, NEW D2,
         Consumes(D1, n1), Consumes(D2, n2), Follows(D1, D2, t, n1, n2),
         NEW s \in Streams(n2), s \o t \in Streams(n1), NEW text \in Seq(Byte), NEW prefix
  PROVE  Agree(ByPrefix(D1, prefix, text, s \o t), ByPrefix(D2, prefix, text, s), t)
<1> DEFINE w == s \o t
           m == parse_length(text)
<1>1. s \in Seq(Byte)
  BY DEF Streams
<1>2. \A v : Agree(Decoded(v, w), Decoded(v, s), t)
  BY <1>1, Agreed
<1>3. \A e, r : Agree(RespError(e), r, t)
  BY ReadOrError DEF Agree
<1>4. Agree(parse_bulk_string(text, w), parse_bulk_string(text, s), t)
  BY <1>1, BulkFollows
<1>5. w \in Streams(n1)
  OBVIOUS
<1> HIDE DEF m
<1>6. Agree(parse_array(D1, text, w), parse_array(D2, text, s), t)
  <2>1. m = None \/ (m \in Int /\ m >= -1)
    BY NumbersTyped DEF m
  <2>2. None # -1
    BY Resp2Assumption
  <2>3. CASE m = None
    <3> HIDE DEF w
    <3>1. parse_array(D1, text, w) = RespError("InvalidInteger")
      BY <2>2, <2>3 DEF parse_array, m
    <3> QED
      BY <1>3, <3>1
  <2>4. CASE m = -1
    <3> HIDE DEF w
    <3>1. \A D, x : parse_array(D, text, x) = Decoded(Array(None), x)
      BY <2>2, <2>4 DEF parse_array, m
    <3> QED
      BY <1>2, <3>1
  <2>5. CASE m # None /\ m # -1
    <3>1. m \in Nat /\ m \in 0..m
      BY <2>1, <2>5
    <3> DEFINE r1 == decode_items(D1, m, w)
               r2 == decode_items(D2, m, s)
    <3>2. parse_array(D1, text, w) = IF IsError(r1) THEN r1 ELSE Decoded(Array(r1.value), r1.rest)
      <4> HIDE DEF w
      <4> QED
        BY <2>5 DEF parse_array, m
    <3>3. parse_array(D2, text, s) = IF IsError(r2) THEN r2 ELSE Decoded(Array(r2.value), r2.rest)
      BY <2>5 DEF parse_array, m
    <3>4. PICK g1 : StepByStep(g1, D1, m, w) /\ r1 = g1[m]
      BY <3>1, ItemsDecoded
    <3>5. PICK g2 : StepByStep(g2, D2, m, s) /\ r2 = g2[m]
      BY <3>1, ItemsDecoded
    <3>6. Agree(r1, r2, t)
      BY <3>1, <3>4, <3>5, ItemsFollow
    <3> HIDE DEF r1, r2, w
    <3>7. CASE IsError(r1)
      BY <3>2, <3>7 DEF Agree
    <3>8. CASE ~IsError(r1) /\ ~(Len(r1.rest) >= Len(t))
      BY <3>2, <3>8, ReadOrError DEF Agree
    <3>9. CASE ~IsError(r1) /\ Len(r1.rest) >= Len(t)
      <4>1. ~IsError(r2) /\ r2.rest \in Seq(Byte) /\ r1.rest = r2.rest \o t
        BY <3>6, <3>9 DEF Agree
      <4>2. parse_array(D1, text, w) = Decoded(Array(r1.value), r2.rest \o t)
        BY <3>2, <3>9, <4>1
      <4>3. parse_array(D2, text, s) = Decoded(Array(r2.value), r2.rest)
        BY <3>3, <4>1
      <4> QED
        BY <4>1, <4>2, <4>3, Agreed
    <3> QED
      BY <3>7, <3>8, <3>9
  <2> QED
    BY <2>1, <2>3, <2>4, <2>5
<1> QED
  <2> DEFINE r1 == ByPrefix(D1, prefix, text, w)
             r2 == ByPrefix(D2, prefix, text, s)
  <2> HIDE DEF w
  <2>1. \/ \E v : r1 = Decoded(v, w) /\ r2 = Decoded(v, s)
        \/ \E e : r1 = RespError(e)
        \/ r1 = parse_bulk_string(text, w) /\ r2 = parse_bulk_string(text, s)
        \/ r1 = parse_array(D1, text, w) /\ r2 = parse_array(D2, text, s)
    BY DEF ByPrefix
  <2> HIDE DEF r1, r2
  <2>2. Agree(r1, r2, t)
    BY <1>2, <1>3, <1>4, <1>6, <2>1
  <2> QED
    BY <2>2 DEF r1, r2, w

(* The first line of a stream whose own bytes do not end it takes a byte   *)
(* of the tail.                                                            *)
LEMMA LineTakesTail ==
  ASSUME NEW x \in Seq(Byte), NEW t \in Seq(Byte), t # <<>>, \A i \in 1..Len(x) : x[i] # LF,
         NEW a \in Seq(Byte), NEW b \in Seq(Byte), FirstLine(x \o t, a, b)
  PROVE  Len(b) < Len(t)
<1>1. Len(x) \in Nat /\ Len(t) \in Nat /\ Len(t) > 0 /\ Len(a) \in Nat /\ Len(b) \in Nat
  OBVIOUS
<1>2. Len(x \o t) = Len(x) + Len(t) /\ \A i \in 1..Len(x) : (x \o t)[i] = x[i]
  BY ConcatProperties
<1>3. Len(a \o b) = Len(a) + Len(b) /\ \A i \in 1..Len(a) : (a \o b)[i] = a[i]
  BY ConcatProperties
<1>4. x \o t = a \o b /\ Len(a) > 0 /\ (b = <<>> \/ a[Len(a)] = LF)
  BY DEF FirstLine
<1>5. CASE b = <<>>
  BY <1>1, <1>5
<1>6. CASE a[Len(a)] = LF
  <2>1. Len(a) \in 1..Len(a)
    BY <1>1, <1>4
  <2>2. (x \o t)[Len(a)] = LF
    BY <1>3, <1>4, <1>6, <2>1
  <2>3. ~(Len(a) \in 1..Len(x))
    BY <1>2, <2>2
  <2>4. Len(a) > Len(x)
    BY <1>1, <1>4, <2>3
  <2> QED
    BY <1>1, <1>2, <1>3, <1>4, <2>4
<1> QED
  BY <1>4, <1>5, <1>6

(* The decoders of streams of every length that leave the tail have read   *)
(* what they read without it.                                              *)
LEMMA DecodersFollow ==
  ASSUME NEW t \in Seq(Byte), t # <<>>, NEW N1 \in Nat, NEW N2 \in Nat, NEW f1, NEW f2,
         Decoders(f1, N1), Decoders(f2, N2), NEW j \in 0..N1, NEW k \in 0..N2
  PROVE  Follows(f1[j], f2[k], t, j, k)
<1>1. Len(t) \in Nat /\ Len(t) > 0
  OBVIOUS
<1> DEFINE S == {n \in Nat : n <= N1 => \A i \in 0..N2 : Follows(f1[n], f2[i], t, n, i)}
<1>2. 0 \in S
  <2>1. ASSUME NEW i \in 0..N2, NEW x \in Streams(i), x \o t \in Streams(0) PROVE FALSE
    <3>1. x \in Seq(Byte) /\ Len(x) \in Nat
      BY DEF Streams
    <3>2. Len(x \o t) = Len(x) + Len(t)
      BY <3>1, ConcatProperties
    <3>3. Len(x \o t) <= 0
      BY <2>1 DEF Streams
    <3> QED
      BY <1>1, <3>1, <3>2, <3>3
  <2> QED
    BY <2>1 DEF Follows
<1>3. ASSUME NEW n \in S PROVE n + 1 \in S
  <2>1. n \in Nat /\ n + 1 \in Nat /\ (n + 1) - 1 = n /\ n + 1 # 0
    OBVIOUS
  <2>2. ASSUME n + 1 <= N1, NEW i \in 0..N2, NEW x \in Streams(i), x \o t \in Streams(n + 1)
        PROVE  Agree(f1[n + 1][x \o t], f2[i][x], t)
    <3> DEFINE w == x \o t
               D1 == f1[n]
               r1 == f1[n + 1][w]
    <3>1. n + 1 \in 0..N1 /\ n \in 0..N1 /\ n <= N1 /\ i \in Nat
      BY <2>1, <2>2
    <3>2. x \in Seq(Byte) /\ Len(x) \in Nat /\ Len(x) <= i
      BY DEF Streams
    <3>3. w \in Seq(Byte) /\ Len(w) = Len(x) + Len(t) /\ Len(w) <= n + 1 /\ w # <<>>
      <4>1. w \in Seq(Byte) /\ Len(w) = Len(x) + Len(t)
        BY <3>2, ConcatProperties
      <4>2. Len(w) <= n + 1
        BY <2>2 DEF Streams
      <4> QED
        BY <1>1, <3>2, <4>1, <4>2
    <3>4. r1 = decode_by(D1, w)
      BY <2>1, <2>2, <3>1 DEF Decoders
    <3>5. Consumes(D1, n) /\ Takes(r1, w)
      <4>1. Consumes(D1, n) /\ Consumes(f1[n + 1], n + 1)
        BY <3>1, DecodersConsume
      <4> QED
        BY <2>2, <4>1 DEF Consumes
    <3>6. \A c : Follows(D1, f2[c], t, n, c) \/ c \notin 0..N2
      BY <3>1
    <3> HIDE DEF D1, r1
    <3>7. CASE \A c \in 1..Len(x) : x[c] # LF
      <4>1. PICK a \in Seq(Byte), b \in Seq(Byte) : FirstLine(w, a, b)
        BY <3>3, FirstLineExists
      <4>2. Len(b) < Len(t) /\ Len(b) \in Nat
        BY <3>2, <3>7, <4>1, LineTakesTail
      <4> HIDE DEF w
      <4>3. w = a \o b /\ Len(a) > 0 /\ read_line(w) = [line |-> a, rest |-> b]
        BY <4>1 DEF FirstLine
      <4>4. Len(w) = Len(a) + Len(b) /\ Len(a) \in Nat
        BY <4>3, ConcatProperties
      <4>5. b \in Streams(n) 
        BY <2>1, <3>2, <3>3, <4>2, <4>3, <4>4 DEF Streams
      <4>6. parse_header(a) \in Seq(Byte)
        BY <4>3, TextTyped
      <4>7. r1 = ByPrefix(D1, a[1], parse_header(a), b)
        BY <3>3, <3>4, <4>3, LineDecoded
      <4>8. Leaves(r1, b)
        BY <2>1, <3>5, <4>5, <4>6, <4>7, PrefixConsumes
      <4>9. ~IsError(r1) => Len(r1.rest) \in Nat /\ Len(r1.rest) <= Len(b)
        BY <4>8 DEF Leaves
      <4>10. ~(~IsError(r1) /\ Len(r1.rest) >= Len(t))
        BY <1>1, <4>2, <4>9
      <4> QED
        BY <4>10 DEF Agree, r1, w
    <3>8. CASE \E c \in 1..Len(x) : x[c] = LF
      <4>1. PICK a \in Seq(Byte), b \in Seq(Byte) : x = a \o b /\ Ended(a)
        BY <3>2, <3>8, LineSplit
      <4>2. Len(x) = Len(a) + Len(b) /\ Len(a) \in Nat /\ Len(b) \in Nat /\ Len(a) > 0
        BY <4>1, ConcatProperties DEF Ended
      <4> DEFINE e == i - 1
                 D2 == f2[e]
                 z == b \o t
      <4>3. e \in Nat /\ e \in 0..N2 /\ i # 0
        BY <3>1, <3>2, <4>2
      <4>4. f2[i][x] = decode_by(D2, x)
        BY <4>3 DEF Decoders
      <4>5. w = a \o z /\ z \in Seq(Byte) /\ Len(z) = Len(b) + Len(t)
        <5>1. w = a \o z /\ z \in Seq(Byte)
          BY <4>1, Joined, Zenon
        <5> QED
          BY <5>1, ConcatProperties
      <4>6. Consumes(D2, e)
        BY <4>3, DecodersConsume
      <4>7. Follows(D1, D2, t, n, e)
        BY <3>6, <4>3
      <4> HIDE DEF D2
      <4>8. b \in Streams(e)
        BY <3>1, <3>2, <4>2 DEF Streams
      <4>9. z \in Streams(n)
        BY <2>1, <3>2, <3>3, <4>2, <4>5 DEF Streams
      <4>10. parse_header(a) \in Seq(Byte)
        BY <4>2, TextTyped
      <4>11. read_line(x) = [line |-> a, rest |-> b]
        BY <4>1, EndedRead DEF FirstLine
      <4>12. read_line(w) = [line |-> a, rest |-> z]
        <5> HIDE DEF w, z
        <5> QED
          BY <4>1, <4>5, EndedRead DEF FirstLine
      <4>13. Agree(ByPrefix(D1, a[1], parse_header(a), z), ByPrefix(D2, a[1], parse_header(a), b), t)
        BY <2>1, <3>5, <4>3, <4>6, <4>7, <4>8, <4>9, <4>10, PrefixFollows
      <4>14. x # <<>>
        BY <4>2
      <4>15. decode_by(D2, x) = ByPrefix(D2, a[1], parse_header(a), b)
        BY <4>11, <4>14, LineDecoded
      <4>16. decode_by(D1, w) = ByPrefix(D1, a[1], parse_header(a), z)
        <5> HIDE DEF w, z
        <5> QED
          BY <3>3, <4>12, LineDecoded
      <4> HIDE DEF w, z
      <4>17. Agree(r1, f2[i][x], t)
        BY <3>4, <4>4, <4>13, <4>15, <4>16
      <4> QED
        BY <4>17 DEF r1, w
    <3> QED
      BY <3>7, <3>8
  <2>3. ASSUME n + 1 <= N1, NEW i \in 0..N2 PROVE Follows(f1[n + 1], f2[i], t, n + 1, i)
    BY <2>2, <2>3 DEF Follows
  <2> QED
    BY <2>1, <2>3
<1> HIDE DEF S
<1>4. S = Nat
  <2>1. S \in SUBSET Nat
    BY DEF S
  <2> QED
    BY <1>2, <1>3, <2>1, NumbersByInduction
<1>5. j \in Nat /\ j <= N1 /\ j \in S
  BY <1>4
<1> QED
  BY <1>5 DEF S

(* What is not read alone is not read in front of a tail: the decoder      *)
(* fails, or takes bytes of the tail.                                      *)
LEMMA TailIsTaken ==
  ASSUME NEW q \in Seq(Byte), NEW t \in Seq(Byte), t # <<>>, IsError(decode(q))
  PROVE  IsError(decode(q \o t)) \/ Len(decode(q \o t).rest) < Len(t)
<1> DEFINE w == q \o t
           j == Len(w)
           k == Len(q)
<1>1. w \in Seq(Byte) /\ j \in Nat /\ k \in Nat /\ Len(t) \in Nat
  BY ConcatProperties
<1>2. j \in 0..j /\ k \in 0..k /\ q \in Streams(k) /\ w \in Streams(j)
  BY <1>1 DEF Streams
<1>3. PICK f1 : Decoders(f1, j) /\ decode(w) = f1[j][w]
  BY <1>1, DecodeSolved
<1>4. PICK f2 : Decoders(f2, k) /\ decode(q) = f2[k][q]
  BY DecodeSolved
<1>5. Follows(f1[j], f2[k], t, j, k) /\ Consumes(f1[j], j)
  BY <1>1, <1>2, <1>3, <1>4, DecodersFollow, DecodersConsume
<1>6. Agree(f1[j][w], f2[k][q], t)
  BY <1>2, <1>5 DEF Follows
<1>7. Takes(f1[j][w], w)
  BY <1>2, <1>5 DEF Consumes
<1> HIDE DEF w, j, k
<1>8. ~IsError(decode(w)) => Len(decode(w).rest) \in Nat
  BY <1>3, <1>7 DEF Takes
<1>9. IsError(decode(w)) \/ ~(Len(decode(w).rest) >= Len(t))
  BY <1>3, <1>4, <1>6 DEF Agree
<1>10. IsError(decode(w)) \/ Len(decode(w).rest) < Len(t)
  BY <1>1, <1>8, <1>9
<1> QED
  BY <1>10 DEF w

(* A request is written as bytes. *)
LEMMA RequestIsBytes ==
  ASSUME NEW words \in Seq(Seq(Byte))
  PROVE  encode(Request(words)) \in Seq(Byte)
<1>1. MaxDepth \in 0..MaxDepth
  BY Resp2Assumption
<1>2. Request(words) \in Sent[MaxDepth]
  BY RequestsAreSent
<1> QED
  BY <1>1, <1>2, SentAreBytes DEF encode, WritesBytes

(* Whatever the words of a request and wherever a crash tears it, the part *)
(* that is left is no request: it decodes to the end of the file or to an  *)
(* invalid integer, and whoever decodes it with the whole request appended *)
(* fails or takes bytes of that request.                                   *)
THEOREM EveryTornEntryIsNoEntry ==
  ASSUME NEW words \in Seq(Seq(Byte)), words # <<>>,
         NEW n \in 1..(Len(encode(Request(words))) - 1)
  PROVE  TornIsNoEntry(encode(Request(words)), n)
<1> DEFINE e == encode(Request(words))
           torn == SubSeq(e, 1, n)
<1>1. e \in Seq(Byte) /\ Len(e) \in Nat /\ n \in 1..(Len(e) - 1)
  BY RequestIsBytes
<1> HIDE DEF e
<1>2. torn \in Seq(Byte) /\ Len(torn) = n /\ \A i \in 1..n : torn[i] = e[i]
  BY <1>1
<1> HIDE DEF torn
<1>3. Part(torn, e) /\ torn # <<>> /\ e # <<>>
  BY <1>1, <1>2 DEF Part
<1>4. Fails(decode(torn))
  BY <1>3, TornRequest DEF e
<1>5. IsError(decode(torn \o e)) \/ Len(decode(torn \o e).rest) < Len(e)
  BY <1>1, <1>2, <1>3, <1>4, TailIsTaken DEF Fails
<1>6. TornIsNoEntry(e, n)
  BY <1>4, <1>5 DEF TornIsNoEntry, Fails, torn
<1> QED
  BY <1>6 DEF e

(* TornEntryIsNoEntry is an invariant, for every set of bytes and every    *)
(* bound: no entry of the run is read torn.                                *)
THEOREM TornEntries == Spec => []TornEntryIsNoEntry
<1>1. FrameTyped => TornEntryIsNoEntry
  <2> SUFFICES ASSUME FrameTyped, input.kind = "frame" PROVE TornEntryIsNoEntry
    BY DEF TornEntryIsNoEntry
  <2> DEFINE strings == input.body
             words == Append(strings, LongString)
  <2>0. strings \in Seq(Seq(Byte))
    BY DEF FrameTyped
  <2> HIDE DEF strings
  <2>1. LongString \in Seq(Byte)
    BY DEF LongString, Byte
  <2>2. words \in Seq(Seq(Byte)) /\ words # <<>>
    <3> HIDE DEF words
    <3>1. \A T : \A s \in Seq(T), x \in T : Append(s, x) \in Seq(T) /\ Append(s, x) # <<>>
      BY AppendProperties
    <3> QED
      BY <2>0, <2>1, <3>1, Zenon DEF words
  <2> HIDE DEF words
  <2>3. Entry(input.body) = encode(Request(words))
    BY DEF Entry, words, strings
  <2>4. \A n \in 1..(Len(encode(Request(words))) - 1) : TornIsNoEntry(encode(Request(words)), n)
    BY <2>2, EveryTornEntryIsNoEntry
  <2> QED
    BY <2>3, <2>4 DEF TornEntryIsNoEntry
<1> QED
  BY <1>1, FrameIsTyped, PTL
=============================================================================
