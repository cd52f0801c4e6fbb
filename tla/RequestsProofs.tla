--------------------------- MODULE RequestsProofs ---------------------------
(***************************************************************************)
(* Machine-checked proofs about the parsers and the configuration, for     *)
(* every sequence of words and every pair of a file and an environment.    *)
(***************************************************************************)
EXTENDS Inputs, Iteration, FiniteSetTheorems

-----------------------------------------------------------------------------
(***************************************************************************)
(* One parser at a time.  A parser answers words when it fails on those    *)
(* that are not Shaped and makes a command of the others.                  *)
(***************************************************************************)
Refused(words, r) == r \in HandlerError /\ Failed(r) /\ ~Shaped(words)
Understood(words, r) == r \in Command /\ ~Failed(r) /\ Shaped(words)
Answered(words, r) == Refused(words, r) \/ Understood(words, r)

(* An error of the enum is a failure. *)
LEMMA ErrorsFail ==
  ASSUME NEW e \in {"UnexpectedType", "UnknownCommand", "WrongArity", "NotAnInteger",
                    "DbIndexOutOfRange", "SyntaxError"}
  PROVE  Err(e) \in HandlerError /\ Failed(Err(e))
BY DEF Err, HandlerError, Failed

(* A word is a string and a key, and the tables know it. *)
LEMMA WordTyped ==
  ASSUME NEW words \in Seq(Strings), NEW i \in Nat, i >= 1, i <= Len(words)
  PROVE  /\ words[i] \in Strings /\ words[i] \in Keys
         /\ U64Of[words[i]] \in U64 \cup {None} /\ I64Of[words[i]] \in Int \cup {None}
         /\ U8Of[words[i]] \in (0..255) \cup {None} /\ HexOf[words[i]] \in Digests \cup {None}
         /\ Accepts[words[i]] \in SUBSET Keys
<1>1. words[i] \in Strings
  OBVIOUS
<1> QED
  BY <1>1, ParserAssumption

(* The words from the i-th on, of which there is one. *)
LEMMA RestTyped ==
  ASSUME NEW words \in Seq(Strings), NEW i \in 1..Len(words)
  PROVE  rest_from(words, i) \in NonEmpty(Strings) /\ rest_from(words, i) \in NonEmpty(Keys)
<1>1. rest_from(words, i) \in Seq(Strings)
  BY DEF rest_from
<1>2. Len(rest_from(words, i)) = Len(words) - i + 1 /\ Len(words) - i + 1 > 0
  BY DEF rest_from
<1>3. rest_from(words, i) # <<>>
  BY <1>1, <1>2
<1> QED
  BY <1>1, <1>3, ParserAssumption DEF NonEmpty

(* A request that is not empty has a first word. *)
LEMMA HasName ==
  ASSUME NEW words \in Seq(Strings), words # <<>>
  PROVE  /\ Len(words) \in Nat /\ Len(words) >= 1
         /\ (Len(words) = 1 /\ Len(words) < 2) \/ Len(words) = 2 \/ Len(words) >= 3
         /\ Len(words) > 2 => Len(words) # 1 /\ Len(words) # 2
<1>1. Len(words) \in Nat /\ Len(words) >= 1
  OBVIOUS
<1>2. \A n \in Nat :
         /\ n >= 1 => (n = 1 /\ n < 2) \/ n = 2 \/ n >= 3
         /\ n > 2 => n # 1 /\ n # 2
  OBVIOUS
<1> QED
  BY <1>1, <1>2

(* A parser that fails where it should. *)
LEMMA RefusedAnswers ==
  ASSUME NEW words, NEW r,
         NEW e \in {"UnexpectedType", "UnknownCommand", "WrongArity", "NotAnInteger",
                    "DbIndexOutOfRange", "SyntaxError"},
         r = Err(e), ~Shaped(words)
  PROVE  Answered(words, r)
BY ErrorsFail DEF Answered, Refused

(* PING takes what it is given. *)
LEMMA PingAnswered ==
  ASSUME NEW words \in Seq(Strings), words # <<>>, words[1] = "PING"
  PROVE  Answered(words, parse_ping_command(words))
<1>1. Shaped(words)
  BY DEF Shaped
<1>2. Len(words) # 1 => words[2] \in Strings
  <2>1. Len(words) # 1 => 2 \in Nat /\ 2 >= 1 /\ 2 <= Len(words)
    <3>1. Len(words) \in Nat /\ (Len(words) = 1 \/ Len(words) = 2 \/ Len(words) >= 3)
      BY HasName
    <3> QED
      BY <3>1
  <2> QED
    BY <2>1, WordTyped
<1>3. parse_ping_command(words) \in PingCommand /\ ~Failed(parse_ping_command(words))
  BY <1>2 DEF parse_ping_command, PingCommand, Failed
<1> QED
  BY <1>1, <1>3 DEF Answered, Understood, Command

(* The commands on one key, and KEYS. *)
LEMMA KeyAnswered ==
  ASSUME NEW words \in Seq(Strings), words # <<>>,
         NEW op \in {"Get", "GetDel", "StrLen", "LLen", "SMembers", "SCard", "Ttl", "PTtl",
                     "ExpireTime", "PExpireTime", "Persist", "Keys", "Digest"},
         Shaped(words) <=> Len(words) = 2
  PROVE  Answered(words, parse_key_command(op, words))
<1> DEFINE r == parse_key_command(op, words)
<1> SUFFICES Answered(words, r)
  OBVIOUS
<1>1. CASE Len(words) # 2
  <2>1. r = Err("WrongArity")
    BY <1>1 DEF parse_key_command, check_arity
  <2> HIDE DEF r
  <2> QED
    BY <1>1, <2>1, RefusedAnswers
<1>2. CASE Len(words) = 2
  <2>1. words[2] \in Keys /\ Accepts[words[2]] \in SUBSET Keys
    BY <1>2, WordTyped
  <2>2. r = IF op = "Keys" THEN [op |-> op, pattern |-> Accepts[words[2]]]
            ELSE [op |-> op, key |-> words[2]]
    BY <1>2 DEF parse_key_command, check_arity
  <2> HIDE DEF r
  <2>3. ~Failed(r)
    BY <2>2 DEF Failed
  <2>4. r \in Command
    BY <2>1, <2>2 DEF Command, ReadCommand, TtlCommand, GetDelCommand, PersistCommand
  <2> QED
    BY <2>3, <2>4, <1>2 DEF Answered, Understood
<1> QED
  BY <1>1, <1>2

(* The commands on one or more keys. *)
LEMMA KeysAnswered ==
  ASSUME NEW words \in Seq(Strings), words # <<>>,
         NEW op \in {"Delete", "Exists", "MGet"},
         Shaped(words) <=> Len(words) >= 2
  PROVE  Answered(words, parse_keys_command(op, words))
<1> DEFINE r == parse_keys_command(op, words)
<1> SUFFICES Answered(words, r)
  OBVIOUS
<1>0. /\ Len(words) \in Nat /\ Len(words) >= 1
      /\ (Len(words) = 1 /\ Len(words) < 2) \/ Len(words) = 2 \/ Len(words) >= 3
      /\ Len(words) > 2 => Len(words) # 1 /\ Len(words) # 2
  BY HasName
<1>1. CASE Len(words) < 2
  <2>1. r = Err("WrongArity")
    BY <1>0, <1>1 DEF parse_keys_command, check_min_arity
  <2> HIDE DEF r
  <2> QED
    BY <1>0, <1>1, <2>1, RefusedAnswers
<1>2. CASE Len(words) >= 2
  <2>1. rest_from(words, 2) \in NonEmpty(Keys)
    BY <1>0, <1>2, WordTyped, RestTyped
  <2>2. r = [op |-> op, keys |-> rest_from(words, 2)]
    BY <1>0, <1>2 DEF parse_keys_command, check_min_arity
  <2> HIDE DEF r
  <2>3. ~Failed(r)
    BY <2>2 DEF Failed
  <2>4. r \in Command
    BY <1>2, <2>1, <2>2 DEF Command, DeleteCommand, ExistsCommand, ReadCommand
  <2> QED
    BY <1>0, <1>2, <2>3, <2>4 DEF Answered, Understood
<1> HIDE DEF r
<1> QED
  BY <1>0, <1>1, <1>2

(* The commands on a key and one or more elements. *)
LEMMA ElementsAnswered ==
  ASSUME NEW words \in Seq(Strings), words # <<>>,
         NEW op \in {"LPush", "RPush", "LPushX", "RPushX", "SAdd", "SRem"},
         Shaped(words) <=> Len(words) >= 3
  PROVE  Answered(words, parse_key_with_elements_command(op, words))
<1> DEFINE r == parse_key_with_elements_command(op, words)
<1> SUFFICES Answered(words, r)
  OBVIOUS
<1>0. /\ Len(words) \in Nat /\ Len(words) >= 1
      /\ (Len(words) = 1 /\ Len(words) < 2) \/ Len(words) = 2 \/ Len(words) >= 3
      /\ Len(words) > 2 => Len(words) # 1 /\ Len(words) # 2
  BY HasName
<1>1. CASE Len(words) < 3
  <2>1. r = Err("WrongArity")
    BY <1>0, <1>1 DEF parse_key_with_elements_command, check_min_arity
  <2> HIDE DEF r
  <2> QED
    BY <1>0, <1>1, <2>1, RefusedAnswers
<1>2. CASE Len(words) >= 3 /\ op \in {"SAdd", "SRem"}
  <2>1. words[2] \in Keys /\ words[3] \in Strings
        /\ \A i \in 3..Len(words) : words[i] \in Strings
    BY <1>0, <1>2, WordTyped
  <2>2. r = [op |-> op, key |-> words[2], members |-> {words[i] : i \in 3..Len(words)}]
    BY <1>0, <1>2 DEF parse_key_with_elements_command, check_min_arity, Indexed
  <2> HIDE DEF r
  <2>3. ~Failed(r)
    BY <2>2 DEF Failed
  <2>4. r \in Command
    <3> DEFINE members == {words[i] : i \in 3..Len(words)}
    <3>1. 3 \in 3..Len(words)
      BY <1>0, <1>2
    <3>2. words[3] \in members
      BY <3>1
    <3>3. members \in (SUBSET Strings) \ {{}}
      BY <2>1, <3>2
    <3> HIDE DEF members
    <3> QED
      BY <1>2, <2>1, <2>2, <3>3 DEF Command, SAddCommand, SRemCommand, members
  <2> QED
    BY <1>0, <1>2, <2>3, <2>4 DEF Answered, Understood
<1>3. CASE Len(words) >= 3 /\ op \notin {"SAdd", "SRem"}
  <2>1. words[2] \in Keys /\ rest_from(words, 3) \in NonEmpty(Strings)
    BY <1>0, <1>3, WordTyped, RestTyped
  <2>2. r = [op |-> op, key |-> words[2], elements |-> rest_from(words, 3)]
    BY <1>0, <1>3 DEF parse_key_with_elements_command, check_min_arity, Indexed
  <2> HIDE DEF r
  <2>3. ~Failed(r)
    BY <2>2 DEF Failed
  <2>4. r \in Command
    BY <1>3, <2>1, <2>2 DEF Command, PushCommand
  <2> QED
    BY <1>0, <1>3, <2>3, <2>4 DEF Answered, Understood
<1> HIDE DEF r
<1> QED
  BY <1>0, <1>1, <1>2, <1>3

(* The pops: whatever follows the count is ignored. *)
LEMMA PopAnswered ==
  ASSUME NEW words \in Seq(Strings), words # <<>>,
         NEW op \in {"LPop", "RPop", "SPop"},
         Shaped(words) <=> Len(words) >= 2 /\ (Len(words) >= 3 => U64Of[words[3]] # None)
  PROVE  Answered(words, parse_pop_command(op, words))
<1> DEFINE r == parse_pop_command(op, words)
<1> SUFFICES Answered(words, r)
  OBVIOUS
<1>0. /\ Len(words) \in Nat /\ Len(words) >= 1
      /\ (Len(words) = 1 /\ Len(words) < 2) \/ Len(words) = 2 \/ Len(words) >= 3
      /\ Len(words) > 2 => Len(words) # 1 /\ Len(words) # 2
  BY HasName
<1>1. CASE Len(words) < 2
  <2>1. r = Err("WrongArity")
    BY <1>0, <1>1 DEF parse_pop_command, check_min_arity
  <2> HIDE DEF r
  <2> QED
    BY <1>0, <1>1, <2>1, RefusedAnswers
<1>2. CASE Len(words) >= 3 /\ U64Of[words[3]] = None
  <2>1. r = Err("NotAnInteger")
    BY <1>0, <1>2 DEF parse_pop_command, check_min_arity, Indexed, Parsed
  <2> HIDE DEF r
  <2> QED
    BY <1>0, <1>2, <2>1, RefusedAnswers
<1>3. CASE Len(words) = 2
  <2>1. words[2] \in Keys
    BY <1>0, <1>3, WordTyped
  <2>2. r = [op |-> op, key |-> words[2], count |-> None]
    BY <1>0, <1>3 DEF parse_pop_command, check_min_arity, Indexed
  <2> HIDE DEF r
  <2>3. ~Failed(r)
    BY <2>2 DEF Failed
  <2>4. r \in Command
    BY <1>3, <2>1, <2>2 DEF Command, PopCommand, SPopCommand
  <2> QED
    BY <1>0, <1>3, <2>3, <2>4 DEF Answered, Understood
<1>4. CASE Len(words) >= 3 /\ U64Of[words[3]] # None
  <2>1. words[2] \in Keys /\ U64Of[words[3]] \in U64 \cup {None}
    BY <1>0, <1>4, WordTyped
  <2>2. r = [op |-> op, key |-> words[2], count |-> U64Of[words[3]]]
    BY <1>0, <1>4 DEF parse_pop_command, check_min_arity, Indexed, Parsed
  <2> HIDE DEF r
  <2>3. ~Failed(r)
    BY <2>2 DEF Failed
  <2>4. r \in Command
    BY <1>4, <2>1, <2>2 DEF Command, PopCommand, SPopCommand
  <2> QED
    BY <1>0, <1>4, <2>3, <2>4 DEF Answered, Understood
<1> HIDE DEF r
<1> QED
  BY <1>0, <1>1, <1>2, <1>3, <1>4

(* The commands that set a deadline. *)
LEMMA ExpireAnswered ==
  ASSUME NEW words \in Seq(Strings), words # <<>>,
         NEW op \in {"Expire", "PExpire", "ExpireAt", "PExpireAt"},
         Shaped(words) <=> Len(words) = 3 /\ U64Of[words[3]] # None
  PROVE  Answered(words, parse_expire_commands(op, words))
<1> DEFINE r == parse_expire_commands(op, words)
<1> SUFFICES Answered(words, r)
  OBVIOUS
<1>0. /\ Len(words) \in Nat /\ Len(words) >= 1
      /\ (Len(words) = 1 /\ Len(words) < 2) \/ Len(words) = 2 \/ Len(words) >= 3
      /\ Len(words) > 2 => Len(words) # 1 /\ Len(words) # 2
  BY HasName
<1>1. CASE Len(words) # 3
  <2>1. r = Err("WrongArity")
    BY <1>0, <1>1 DEF parse_expire_commands, check_arity
  <2> HIDE DEF r
  <2> QED
    BY <1>0, <1>1, <2>1, RefusedAnswers
<1>2. CASE Len(words) = 3 /\ U64Of[words[3]] = None
  <2>1. r = Err("NotAnInteger")
    BY <1>0, <1>2 DEF parse_expire_commands, check_arity, Parsed
  <2> HIDE DEF r
  <2> QED
    BY <1>0, <1>2, <2>1, RefusedAnswers
<1>3. CASE Len(words) = 3 /\ U64Of[words[3]] # None
  <2>1. words[2] \in Keys /\ U64Of[words[3]] \in U64 \cup {None}
    BY <1>0, <1>3, WordTyped
  <2>2. r = IF op \in {"Expire", "PExpire"} THEN [op |-> op, key |-> words[2], ttl |-> U64Of[words[3]]]
            ELSE [op |-> op, key |-> words[2], deadline |-> U64Of[words[3]]]
    BY <1>0, <1>3 DEF parse_expire_commands, check_arity, Parsed
  <2> HIDE DEF r
  <2>3. ~Failed(r)
    BY <2>2 DEF Failed
  <2>4. r \in Command
    BY <1>3, <2>1, <2>2 DEF Command, ExpireCommand, ExpireAtCommand
  <2> QED
    BY <1>0, <1>3, <2>3, <2>4 DEF Answered, Understood
<1> HIDE DEF r
<1> QED
  BY <1>0, <1>1, <1>2, <1>3

(* SELECT tells an index out of range from what is no number. *)
LEMMA SelectAnswered ==
  ASSUME NEW words \in Seq(Strings), words # <<>>,
         Shaped(words) <=> Len(words) = 2 /\ U8Of[words[2]] # None
  PROVE  Answered(words, parse_select_command(words))
<1> DEFINE r == parse_select_command(words)
<1> SUFFICES Answered(words, r)
  OBVIOUS
<1>0. /\ Len(words) \in Nat /\ Len(words) >= 1
      /\ (Len(words) = 1 /\ Len(words) < 2) \/ Len(words) = 2 \/ Len(words) >= 3
      /\ Len(words) > 2 => Len(words) # 1 /\ Len(words) # 2
  BY HasName
<1>1. CASE Len(words) # 2
  <2>1. r = Err("WrongArity")
    BY <1>0, <1>1 DEF parse_select_command, check_arity
  <2> HIDE DEF r
  <2> QED
    BY <1>0, <1>1, <2>1, RefusedAnswers
<1>2. CASE Len(words) = 2 /\ U8Of[words[2]] = None /\ I64Of[words[2]] # None
  <2>1. r = Err("DbIndexOutOfRange")
    BY <1>0, <1>2 DEF parse_select_command, check_arity
  <2> HIDE DEF r
  <2> QED
    BY <1>0, <1>2, <2>1, RefusedAnswers
<1>3. CASE Len(words) = 2 /\ U8Of[words[2]] = None /\ I64Of[words[2]] = None
  <2>1. r = Err("NotAnInteger")
    BY <1>0, <1>3 DEF parse_select_command, check_arity
  <2> HIDE DEF r
  <2> QED
    BY <1>0, <1>3, <2>1, RefusedAnswers
<1>4. CASE Len(words) = 2 /\ U8Of[words[2]] # None
  <2>0. 2 \in Nat /\ 2 >= 1 /\ 2 <= Len(words)
    BY <1>4
  <2>1. U8Of[words[2]] \in (0..255) \cup {None}
    BY <2>0, WordTyped, Zenon
  <2>2. r = [op |-> "Select", index |-> U8Of[words[2]]]
    BY <1>0, <1>4 DEF parse_select_command, check_arity
  <2> HIDE DEF r
  <2>3. ~Failed(r)
    BY <2>2 DEF Failed
  <2>4. r \in Command
    BY <1>4, <2>1, <2>2 DEF Command, SelectCommand
  <2> QED
    BY <1>0, <1>4, <2>3, <2>4 DEF Answered, Understood
<1> HIDE DEF r
<1> QED
  BY <1>0, <1>1, <1>2, <1>3, <1>4

(* FLUSHDB takes one of two modes, or none. *)
LEMMA FlushDbAnswered ==
  ASSUME NEW words \in Seq(Strings), words # <<>>,
         Shaped(words) <=> Len(words) <= 2 /\ (Len(words) = 2 => words[2] \in {"SYNC", "ASYNC"})
  PROVE  Answered(words, parse_flushdb_command(words))
<1> DEFINE r == parse_flushdb_command(words)
<1> SUFFICES Answered(words, r)
  OBVIOUS
<1>0. /\ Len(words) \in Nat /\ Len(words) >= 1
      /\ (Len(words) = 1 /\ Len(words) < 2) \/ Len(words) = 2 \/ Len(words) >= 3
      /\ Len(words) > 2 => Len(words) # 1 /\ Len(words) # 2
  BY HasName
<1>1. CASE Len(words) > 2
  <2>1. r = Err("WrongArity")
    BY <1>0, <1>1 DEF parse_flushdb_command
  <2> HIDE DEF r
  <2> QED
    BY <1>0, <1>1, <2>1, RefusedAnswers
<1>2. CASE Len(words) = 2 /\ words[2] \notin {"SYNC", "ASYNC"}
  <2>1. r = Err("SyntaxError")
    BY <1>0, <1>2 DEF parse_flushdb_command
  <2> HIDE DEF r
  <2> QED
    BY <1>0, <1>2, <2>1, RefusedAnswers
<1>3. CASE Len(words) = 1 \/ (Len(words) = 2 /\ words[2] \in {"SYNC", "ASYNC"})
  <2>1. Len(words) \in {1, 2}
    BY <1>0, <1>3, WordTyped
  <2>2. r = [op |-> "FlushDb", mode |-> IF Len(words) = 1 THEN None
                                     ELSE IF words[2] = "SYNC" THEN "Sync" ELSE "Async"]
    BY <1>0, <1>3 DEF parse_flushdb_command
  <2> HIDE DEF r
  <2>3. ~Failed(r)
    BY <2>2 DEF Failed
  <2>4. r \in Command
    BY <1>3, <2>1, <2>2 DEF Command, FlushDbCommand
  <2> QED
    BY <1>0, <1>3, <2>3, <2>4 DEF Answered, Understood
<1> HIDE DEF r
<1> QED
  BY <1>0, <1>1, <1>2, <1>3

(* DBSIZE takes nothing. *)
LEMMA DbSizeAnswered ==
  ASSUME NEW words \in Seq(Strings), words # <<>>,
         Shaped(words) <=> Len(words) = 1
  PROVE  Answered(words, parse_dbsize_command(words))
<1> DEFINE r == parse_dbsize_command(words)
<1> SUFFICES Answered(words, r)
  OBVIOUS
<1>0. /\ Len(words) \in Nat /\ Len(words) >= 1
      /\ (Len(words) = 1 /\ Len(words) < 2) \/ Len(words) = 2 \/ Len(words) >= 3
      /\ Len(words) > 2 => Len(words) # 1 /\ Len(words) # 2
  BY HasName
<1>1. CASE Len(words) # 1
  <2>1. r = Err("WrongArity")
    BY <1>0, <1>1 DEF parse_dbsize_command, check_arity
  <2> HIDE DEF r
  <2> QED
    BY <1>0, <1>1, <2>1, RefusedAnswers
<1>2. CASE Len(words) = 1
  <2>1. words[1] \in Strings
    BY <1>0, <1>2, WordTyped
  <2>2. r = [op |-> "DbSize"]
    BY <1>0, <1>2 DEF parse_dbsize_command, check_arity
  <2> HIDE DEF r
  <2>3. ~Failed(r)
    BY <2>2 DEF Failed
  <2>4. r \in Command
    BY <1>2, <2>1, <2>2 DEF Command, ReadCommand
  <2> QED
    BY <1>0, <1>2, <2>3, <2>4 DEF Answered, Understood
<1> HIDE DEF r
<1> QED
  BY <1>0, <1>1, <1>2

(* LSET. *)
LEMMA LSetAnswered ==
  ASSUME NEW words \in Seq(Strings), words # <<>>,
         Shaped(words) <=> Len(words) = 4 /\ I64Of[words[3]] # None
  PROVE  Answered(words, parse_lset_command(words))
<1> DEFINE r == parse_lset_command(words)
<1> SUFFICES Answered(words, r)
  OBVIOUS
<1>0. /\ Len(words) \in Nat /\ Len(words) >= 1
      /\ (Len(words) = 1 /\ Len(words) < 2) \/ Len(words) = 2 \/ Len(words) >= 3
      /\ Len(words) > 2 => Len(words) # 1 /\ Len(words) # 2
  BY HasName
<1>1. CASE Len(words) # 4
  <2>1. r = Err("WrongArity")
    BY <1>0, <1>1 DEF parse_lset_command, check_arity
  <2> HIDE DEF r
  <2> QED
    BY <1>0, <1>1, <2>1, RefusedAnswers
<1>2. CASE Len(words) = 4 /\ I64Of[words[3]] = None
  <2>1. r = Err("NotAnInteger")
    BY <1>0, <1>2 DEF parse_lset_command, check_arity, Parsed
  <2> HIDE DEF r
  <2> QED
    BY <1>0, <1>2, <2>1, RefusedAnswers
<1>3. CASE Len(words) = 4 /\ I64Of[words[3]] # None
  <2>0. \A i \in 2..4 : i \in Nat /\ i >= 1 /\ i <= Len(words)
    BY <1>3
  <2>1. words[2] \in Keys /\ I64Of[words[3]] \in Int \cup {None} /\ words[4] \in Strings
    <3>1. 2 \in 2..4 /\ 3 \in 2..4 /\ 4 \in 2..4
      OBVIOUS
    <3> QED
      BY <2>0, <3>1, WordTyped, Zenon
  <2>2. r = [op |-> "LSet", key |-> words[2], index |-> I64Of[words[3]], element |-> words[4]]
    BY <1>0, <1>3 DEF parse_lset_command, check_arity, Parsed
  <2> HIDE DEF r
  <2>3. ~Failed(r)
    BY <2>2 DEF Failed
  <2>4. r \in Command
    BY <1>3, <2>1, <2>2 DEF Command, LSetCommand
  <2> QED
    BY <1>0, <1>3, <2>3, <2>4 DEF Answered, Understood
<1> HIDE DEF r
<1> QED
  BY <1>0, <1>1, <1>2, <1>3

(* LINDEX. *)
LEMMA LIndexAnswered ==
  ASSUME NEW words \in Seq(Strings), words # <<>>,
         Shaped(words) <=> Len(words) = 3 /\ I64Of[words[3]] # None
  PROVE  Answered(words, parse_lindex_command(words))
<1> DEFINE r == parse_lindex_command(words)
<1> SUFFICES Answered(words, r)
  OBVIOUS
<1>0. /\ Len(words) \in Nat /\ Len(words) >= 1
      /\ (Len(words) = 1 /\ Len(words) < 2) \/ Len(words) = 2 \/ Len(words) >= 3
      /\ Len(words) > 2 => Len(words) # 1 /\ Len(words) # 2
  BY HasName
<1>1. CASE Len(words) # 3
  <2>1. r = Err("WrongArity")
    BY <1>0, <1>1 DEF parse_lindex_command, check_arity
  <2> HIDE DEF r
  <2> QED
    BY <1>0, <1>1, <2>1, RefusedAnswers
<1>2. CASE Len(words) = 3 /\ I64Of[words[3]] = None
  <2>1. r = Err("NotAnInteger")
    BY <1>0, <1>2 DEF parse_lindex_command, check_arity, Parsed
  <2> HIDE DEF r
  <2> QED
    BY <1>0, <1>2, <2>1, RefusedAnswers
<1>3. CASE Len(words) = 3 /\ I64Of[words[3]] # None
  <2>1. words[2] \in Keys /\ I64Of[words[3]] \in Int \cup {None}
    <3>1. 2 \in Nat /\ 2 >= 1 /\ 2 <= Len(words) /\ 3 \in Nat /\ 3 >= 1 /\ 3 <= Len(words)
      BY <1>3
    <3> HIDE DEF r
    <3>2. words[2] \in Keys
      BY <3>1, WordTyped
    <3>3. I64Of[words[3]] \in Int \cup {None}
      BY <3>1, WordTyped
    <3> QED
      BY <3>2, <3>3
  <2>2. r = [op |-> "LIndex", key |-> words[2], index |-> I64Of[words[3]]]
    BY <1>0, <1>3 DEF parse_lindex_command, check_arity, Parsed
  <2> HIDE DEF r
  <2>3. ~Failed(r)
    BY <2>2 DEF Failed
  <2>4. r \in Command
    BY <1>3, <2>1, <2>2 DEF Command, ReadCommand
  <2> QED
    BY <1>0, <1>3, <2>3, <2>4 DEF Answered, Understood
<1> HIDE DEF r
<1> QED
  BY <1>0, <1>1, <1>2, <1>3

(* LRANGE. *)
LEMMA LRangeAnswered ==
  ASSUME NEW words \in Seq(Strings), words # <<>>,
         Shaped(words) <=> Len(words) = 4 /\ I64Of[words[3]] # None /\ I64Of[words[4]] # None
  PROVE  Answered(words, parse_lrange_command(words))
<1> DEFINE r == parse_lrange_command(words)
<1> SUFFICES Answered(words, r)
  OBVIOUS
<1>0. /\ Len(words) \in Nat /\ Len(words) >= 1
      /\ (Len(words) = 1 /\ Len(words) < 2) \/ Len(words) = 2 \/ Len(words) >= 3
      /\ Len(words) > 2 => Len(words) # 1 /\ Len(words) # 2
  BY HasName
<1>1. CASE Len(words) # 4
  <2>1. r = Err("WrongArity")
    BY <1>0, <1>1 DEF parse_lrange_command, check_arity
  <2> HIDE DEF r
  <2> QED
    BY <1>0, <1>1, <2>1, RefusedAnswers
<1>2. CASE Len(words) = 4 /\ (I64Of[words[3]] = None \/ I64Of[words[4]] = None)
  <2>1. r = Err("NotAnInteger")
    BY <1>0, <1>2 DEF parse_lrange_command, check_arity, Parsed
  <2> HIDE DEF r
  <2> QED
    BY <1>0, <1>2, <2>1, RefusedAnswers
<1>3. CASE Len(words) = 4 /\ I64Of[words[3]] # None /\ I64Of[words[4]] # None
  <2>1. words[2] \in Keys /\ I64Of[words[3]] \in Int \cup {None}
        /\ I64Of[words[4]] \in Int \cup {None}
    BY <1>0, <1>3, WordTyped
  <2>2. r = [op |-> "LRange", key |-> words[2], start |-> I64Of[words[3]], stop |-> I64Of[words[4]]]
    BY <1>0, <1>3 DEF parse_lrange_command, check_arity, Parsed
  <2> HIDE DEF r
  <2>3. ~Failed(r)
    BY <2>2 DEF Failed
  <2>4. r \in Command
    BY <1>3, <2>1, <2>2 DEF Command, ReadCommand
  <2> QED
    BY <1>0, <1>3, <2>3, <2>4 DEF Answered, Understood
<1> HIDE DEF r
<1> QED
  BY <1>0, <1>1, <1>2, <1>3

(* SMOVE. *)
LEMMA SMoveAnswered ==
  ASSUME NEW words \in Seq(Strings), words # <<>>,
         Shaped(words) <=> Len(words) = 4
  PROVE  Answered(words, parse_smove_command(words))
<1> DEFINE r == parse_smove_command(words)
<1> SUFFICES Answered(words, r)
  OBVIOUS
<1>0. /\ Len(words) \in Nat /\ Len(words) >= 1
      /\ (Len(words) = 1 /\ Len(words) < 2) \/ Len(words) = 2 \/ Len(words) >= 3
      /\ Len(words) > 2 => Len(words) # 1 /\ Len(words) # 2
  BY HasName
<1>1. CASE Len(words) # 4
  <2>1. r = Err("WrongArity")
    BY <1>0, <1>1 DEF parse_smove_command, check_arity
  <2> HIDE DEF r
  <2> QED
    BY <1>0, <1>1, <2>1, RefusedAnswers
<1>2. CASE Len(words) = 4
  <2>0. \A i \in 2..4 : i \in Nat /\ i >= 1 /\ i <= Len(words)
    BY <1>2
  <2>1. words[2] \in Keys /\ words[3] \in Keys /\ words[4] \in Strings
    <3>1. 2 \in 2..4 /\ 3 \in 2..4 /\ 4 \in 2..4
      OBVIOUS
    <3> QED
      BY <2>0, <3>1, WordTyped, Zenon
  <2>2. r = [op |-> "SMove", source |-> words[2], destination |-> words[3], member |-> words[4]]
    BY <1>0, <1>2 DEF parse_smove_command, check_arity
  <2> HIDE DEF r
  <2>3. ~Failed(r)
    BY <2>2 DEF Failed
  <2>4. r \in Command
    BY <1>2, <2>1, <2>2 DEF Command, SMoveCommand
  <2> QED
    BY <1>0, <1>2, <2>3, <2>4 DEF Answered, Understood
<1> HIDE DEF r
<1> QED
  BY <1>0, <1>1, <1>2

(* SISMEMBER. *)
LEMMA SIsMemberAnswered ==
  ASSUME NEW words \in Seq(Strings), words # <<>>,
         Shaped(words) <=> Len(words) = 3
  PROVE  Answered(words, parse_sismember_command(words))
<1> DEFINE r == parse_sismember_command(words)
<1> SUFFICES Answered(words, r)
  OBVIOUS
<1>0. /\ Len(words) \in Nat /\ Len(words) >= 1
      /\ (Len(words) = 1 /\ Len(words) < 2) \/ Len(words) = 2 \/ Len(words) >= 3
      /\ Len(words) > 2 => Len(words) # 1 /\ Len(words) # 2
  BY HasName
<1>1. CASE Len(words) # 3
  <2>1. r = Err("WrongArity")
    BY <1>0, <1>1 DEF parse_sismember_command, check_arity
  <2> HIDE DEF r
  <2> QED
    BY <1>0, <1>1, <2>1, RefusedAnswers
<1>2. CASE Len(words) = 3
  <2>0. 2 <= Len(words) /\ 3 <= Len(words)
    BY <1>2
  <2>1. words[2] \in Keys /\ words[3] \in Strings
    BY <2>0, WordTyped
  <2>2. r = [op |-> "SIsMember", key |-> words[2], member |-> words[3]]
    BY <1>0, <1>2 DEF parse_sismember_command, check_arity
  <2> HIDE DEF r
  <2>3. ~Failed(r)
    BY <2>2 DEF Failed
  <2>4. r \in Command
    BY <1>2, <2>1, <2>2 DEF Command, ReadCommand
  <2> QED
    BY <1>0, <1>2, <2>3, <2>4 DEF Answered, Understood
<1> HIDE DEF r
<1> QED
  BY <1>0, <1>1, <1>2

(* SMISMEMBER. *)
LEMMA SMIsMemberAnswered ==
  ASSUME NEW words \in Seq(Strings), words # <<>>,
         Shaped(words) <=> Len(words) >= 3
  PROVE  Answered(words, parse_smismember_command(words))
<1> DEFINE r == parse_smismember_command(words)
<1> SUFFICES Answered(words, r)
  OBVIOUS
<1>0. /\ Len(words) \in Nat /\ Len(words) >= 1
      /\ (Len(words) = 1 /\ Len(words) < 2) \/ Len(words) = 2 \/ Len(words) >= 3
      /\ Len(words) > 2 => Len(words) # 1 /\ Len(words) # 2
  BY HasName
<1>1. CASE Len(words) < 3
  <2>1. r = Err("WrongArity")
    BY <1>0, <1>1 DEF parse_smismember_command, check_min_arity
  <2> HIDE DEF r
  <2> QED
    BY <1>0, <1>1, <2>1, RefusedAnswers
<1>2. CASE Len(words) >= 3
  <2>1. words[2] \in Keys /\ rest_from(words, 3) \in NonEmpty(Strings)
    BY <1>0, <1>2, WordTyped, RestTyped
  <2>2. r = [op |-> "SMIsMember", key |-> words[2], members |-> rest_from(words, 3)]
    BY <1>0, <1>2 DEF parse_smismember_command, check_min_arity, Indexed
  <2> HIDE DEF r
  <2>3. ~Failed(r)
    BY <2>2 DEF Failed
  <2>4. r \in Command
    BY <1>2, <2>1, <2>2 DEF Command, ReadCommand
  <2> QED
    BY <1>0, <1>2, <2>3, <2>4 DEF Answered, Understood
<1> HIDE DEF r
<1> QED
  BY <1>0, <1>1, <1>2

(* SRANDMEMBER, whose count may be negative. *)
LEMMA SRandMemberAnswered ==
  ASSUME NEW words \in Seq(Strings), words # <<>>,
         Shaped(words) <=> Len(words) >= 2 /\ (Len(words) >= 3 => I64Of[words[3]] # None)
  PROVE  Answered(words, parse_srandmember_command(words))
<1> DEFINE r == parse_srandmember_command(words)
<1> SUFFICES Answered(words, r)
  OBVIOUS
<1>0. /\ Len(words) \in Nat /\ Len(words) >= 1
      /\ (Len(words) = 1 /\ Len(words) < 2) \/ Len(words) = 2 \/ Len(words) >= 3
      /\ Len(words) > 2 => Len(words) # 1 /\ Len(words) # 2
  BY HasName
<1>1. CASE Len(words) < 2
  <2>1. r = Err("WrongArity")
    BY <1>0, <1>1 DEF parse_srandmember_command, check_min_arity
  <2> HIDE DEF r
  <2> QED
    BY <1>0, <1>1, <2>1, RefusedAnswers
<1>2. CASE Len(words) >= 3 /\ I64Of[words[3]] = None
  <2>1. r = Err("NotAnInteger")
    BY <1>0, <1>2 DEF parse_srandmember_command, check_min_arity, Indexed, Parsed
  <2> HIDE DEF r
  <2> QED
    BY <1>0, <1>2, <2>1, RefusedAnswers
<1>3. CASE Len(words) = 2
  <2>1. words[2] \in Keys
    BY <1>0, <1>3, WordTyped
  <2>2. r = [op |-> "SRandMember", key |-> words[2], count |-> None]
    BY <1>0, <1>3 DEF parse_srandmember_command, check_min_arity, Indexed
  <2> HIDE DEF r
  <2>3. ~Failed(r)
    BY <2>2 DEF Failed
  <2>4. r \in Command
    BY <1>3, <2>1, <2>2 DEF Command, ReadCommand
  <2> QED
    BY <1>0, <1>3, <2>3, <2>4 DEF Answered, Understood
<1>4. CASE Len(words) >= 3 /\ I64Of[words[3]] # None
  <2>1. words[2] \in Keys /\ I64Of[words[3]] \in Int \cup {None}
    BY <1>0, <1>4, WordTyped
  <2>2. r = [op |-> "SRandMember", key |-> words[2], count |-> I64Of[words[3]]]
    BY <1>0, <1>4 DEF parse_srandmember_command, check_min_arity, Indexed, Parsed
  <2> HIDE DEF r
  <2>3. ~Failed(r)
    BY <2>2 DEF Failed
  <2>4. r \in Command
    BY <1>4, <2>1, <2>2 DEF Command, ReadCommand
  <2> QED
    BY <1>0, <1>4, <2>3, <2>4 DEF Answered, Understood
<1> HIDE DEF r
<1> QED
  BY <1>0, <1>1, <1>2, <1>3, <1>4

(* The pairs of MSET lie within its words. *)
LEMMA PairsFit ==
  ASSUME NEW n \in Nat, n >= 3, n % 2 = 1
  PROVE  /\ n \div 2 \in Nat /\ n \div 2 >= 1
         /\ \A i \in 1..(n \div 2) : 2 * i \in 1..n /\ 2 * i + 1 \in 1..n
OBVIOUS

(* MSET takes pairs, one at least. *)
LEMMA MSetAnswered ==
  ASSUME NEW words \in Seq(Strings), words # <<>>,
         Shaped(words) <=> Len(words) >= 3 /\ Len(words) % 2 = 1
  PROVE  Answered(words, parse_mset_command(words))
<1> DEFINE r == parse_mset_command(words)
<1> SUFFICES Answered(words, r)
  OBVIOUS
<1>0. /\ Len(words) \in Nat /\ (Len(words) >= 3 <=> ~(Len(words) < 3))
      /\ (Len(words) % 2 = 1 <=> ~(Len(words) % 2 = 0))
  <2>1. \A n \in Nat : (n >= 3 <=> ~(n < 3)) /\ (n % 2 = 1 <=> ~(n % 2 = 0))
    OBVIOUS
  <2>2. Len(words) \in Nat
    OBVIOUS
  <2> QED
    BY <2>1, <2>2
<1>1. CASE Len(words) < 3 \/ Len(words) % 2 = 0
  <2>1. r = Err("WrongArity")
    BY <1>0, <1>1 DEF parse_mset_command, check_min_arity
  <2> HIDE DEF r
  <2>2. ~Shaped(words)
    BY <1>0, <1>1
  <2> QED
    BY <2>1, <2>2, RefusedAnswers
<1>2. CASE Len(words) >= 3 /\ Len(words) % 2 = 1
  <2> DEFINE k == Len(words) \div 2
             items == [i \in 1..k |-> <<words[2 * i], words[2 * i + 1]>>]
  <2>1. k \in Nat /\ k >= 1 /\ \A i \in 1..k : 2 * i \in 1..Len(words) /\ 2 * i + 1 \in 1..Len(words)
    BY <1>0, <1>2, PairsFit
  <2>2. r = [op |-> "MSet", items |-> items]
    BY <1>0, <1>2 DEF parse_mset_command, check_min_arity
  <2>3. \A i \in 1..k : <<words[2 * i], words[2 * i + 1]>> \in Keys \X Strings
    BY <1>0, <2>1, WordTyped
  <2>4. items \in NonEmpty(Keys \X Strings)
    <3> HIDE DEF k
    <3>1. items \in [1..k -> Keys \X Strings]
      BY <2>3
    <3> HIDE DEF items
    <3>2. items \in Seq(Keys \X Strings) /\ Len(items) = k
      BY <2>1, <3>1
    <3> QED
      BY <2>1, <3>2 DEF NonEmpty
  <2> HIDE DEF r, items
  <2>5. r \in Command /\ ~Failed(r)
    BY <2>2, <2>4 DEF Command, MSetCommand, Failed
  <2> QED
    BY <1>2, <2>5 DEF Answered, Understood
<1> HIDE DEF r
<1> QED
  BY <1>0, <1>1, <1>2

(* Command::from_resp2 sends every name to its parser, and refuses a name  *)
(* it does not know.                                                       *)
LEMMA ParseAnswered ==
  ASSUME NEW words \in Seq(Strings), words # <<>>, words[1] # "SET"
  PROVE  Answered(words, parse(words))
<1>0. Len(words) \in Nat /\ Len(words) >= 1
  BY HasName
<1>1. CASE words[1] = "PING"
  <2>1. parse(words) = parse_ping_command(words)
    BY <1>1 DEF parse, KeyCommands, KeysCommands, ElementsCommands, PopCommands, ExpireCommands
  <2> QED
    BY <1>1, <2>1, PingAnswered
<1>2. CASE words[1] = "MSET"
  <2>1. parse(words) = parse_mset_command(words)
    BY <1>2 DEF parse, KeyCommands, KeysCommands, ElementsCommands, PopCommands, ExpireCommands
  <2>2. Shaped(words) <=> Len(words) >= 3 /\ Len(words) % 2 = 1
    BY <1>0, <1>2 DEF Shaped, Between
  <2> QED
    BY <2>1, <2>2, MSetAnswered
<1>3. CASE words[1] = "LSET"
  <2>1. parse(words) = parse_lset_command(words)
    BY <1>3 DEF parse, KeyCommands, KeysCommands, ElementsCommands, PopCommands, ExpireCommands
  <2>2. Shaped(words) <=> Len(words) = 4 /\ I64Of[words[3]] # None
    BY <1>0, <1>3 DEF Shaped, Between, Numeric
  <2> QED
    BY <2>1, <2>2, LSetAnswered
<1>4. CASE words[1] = "LINDEX"
  <2>1. parse(words) = parse_lindex_command(words)
    BY <1>4 DEF parse, KeyCommands, KeysCommands, ElementsCommands, PopCommands, ExpireCommands
  <2>2. Shaped(words) <=> Len(words) = 3 /\ I64Of[words[3]] # None
    BY <1>0, <1>4 DEF Shaped, Between, Numeric
  <2> QED
    BY <2>1, <2>2, LIndexAnswered
<1>5. CASE words[1] = "LRANGE"
  <2>1. parse(words) = parse_lrange_command(words)
    BY <1>5 DEF parse, KeyCommands, KeysCommands, ElementsCommands, PopCommands, ExpireCommands
  <2>2. Shaped(words) <=> Len(words) = 4 /\ I64Of[words[3]] # None /\ I64Of[words[4]] # None
    BY <1>0, <1>5 DEF Shaped, Between, Numeric
  <2> QED
    BY <2>1, <2>2, LRangeAnswered
<1>6. CASE words[1] = "SISMEMBER"
  <2>1. parse(words) = parse_sismember_command(words)
    BY <1>6 DEF parse, KeyCommands, KeysCommands, ElementsCommands, PopCommands, ExpireCommands
  <2>2. Shaped(words) <=> Len(words) = 3
    BY <1>0, <1>6 DEF Shaped, Between
  <2> QED
    BY <2>1, <2>2, SIsMemberAnswered
<1>7. CASE words[1] = "SMISMEMBER"
  <2>1. parse(words) = parse_smismember_command(words)
    BY <1>7 DEF parse, KeyCommands, KeysCommands, ElementsCommands, PopCommands, ExpireCommands
  <2>2. Shaped(words) <=> Len(words) >= 3
    BY <1>0, <1>7 DEF Shaped, Between
  <2> QED
    BY <2>1, <2>2, SMIsMemberAnswered
<1>8. CASE words[1] = "SRANDMEMBER"
  <2>1. parse(words) = parse_srandmember_command(words)
    BY <1>8 DEF parse, KeyCommands, KeysCommands, ElementsCommands, PopCommands, ExpireCommands
  <2>2. Shaped(words) <=> Len(words) >= 2 /\ (Len(words) >= 3 => I64Of[words[3]] # None)
    BY <1>0, <1>8 DEF Shaped, Between, Numeric
  <2> QED
    BY <2>1, <2>2, SRandMemberAnswered
<1>9. CASE words[1] = "SMOVE"
  <2>1. parse(words) = parse_smove_command(words)
    BY <1>9 DEF parse, KeyCommands, KeysCommands, ElementsCommands, PopCommands, ExpireCommands
  <2>2. Shaped(words) <=> Len(words) = 4
    BY <1>0, <1>9 DEF Shaped, Between
  <2> QED
    BY <2>1, <2>2, SMoveAnswered
<1>10. CASE words[1] = "SELECT"
  <2>1. parse(words) = parse_select_command(words)
    BY <1>10 DEF parse, KeyCommands, KeysCommands, ElementsCommands, PopCommands, ExpireCommands
  <2>2. Shaped(words) <=> Len(words) = 2 /\ U8Of[words[2]] # None
    BY <1>0, <1>10 DEF Shaped, Between, Numeric
  <2> QED
    BY <2>1, <2>2, SelectAnswered
<1>11. CASE words[1] = "DBSIZE"
  <2>1. parse(words) = parse_dbsize_command(words)
    BY <1>11 DEF parse, KeyCommands, KeysCommands, ElementsCommands, PopCommands, ExpireCommands
  <2>2. Shaped(words) <=> Len(words) = 1
    BY <1>0, <1>11 DEF Shaped, Between
  <2> QED
    BY <2>1, <2>2, DbSizeAnswered
<1>12. CASE words[1] = "FLUSHDB"
  <2>1. parse(words) = parse_flushdb_command(words)
    BY <1>12 DEF parse, KeyCommands, KeysCommands, ElementsCommands, PopCommands, ExpireCommands
  <2>2. Shaped(words) <=> Len(words) <= 2 /\ (Len(words) = 2 => words[2] \in {"SYNC", "ASYNC"})
    <3>1. Shaped(words) <=> Between(words, 0, 1) /\ (Len(words) = 2 => words[2] \in {"SYNC", "ASYNC"})
      BY <1>12 DEF Shaped
    <3>2. Between(words, 0, 1) <=> Len(words) <= 2
      <4>1. \A n \in Nat : n >= 1 => (n - 1 \in 0..1 <=> n <= 2)
        OBVIOUS
      <4> QED
        BY <1>0, <4>1 DEF Between
    <3> QED
      BY <3>1, <3>2
  <2> QED
    BY <2>1, <2>2, FlushDbAnswered
<1>13. CASE words[1] \in DOMAIN KeyCommands
  <2>1. parse(words) = parse_key_command(KeyCommands[words[1]], words)
    BY <1>13 DEF parse, KeyCommands, KeysCommands, ElementsCommands, PopCommands, ExpireCommands
  <2>2. Shaped(words) <=> Len(words) = 2
    BY <1>0, <1>13 DEF Shaped, Between, KeyCommands
  <2>3. KeyCommands[words[1]] \in {"Get", "GetDel", "StrLen", "LLen", "SMembers", "SCard", "Ttl", "PTtl",
                                  "ExpireTime", "PExpireTime", "Persist", "Keys", "Digest"}
    BY <1>13 DEF KeyCommands
  <2> QED
    BY <2>1, <2>2, <2>3, KeyAnswered
<1>14. CASE words[1] \in DOMAIN KeysCommands
  <2>1. parse(words) = parse_keys_command(KeysCommands[words[1]], words)
    BY <1>14 DEF parse, KeyCommands, KeysCommands, ElementsCommands, PopCommands, ExpireCommands
  <2>2. Shaped(words) <=> Len(words) >= 2
    BY <1>0, <1>14 DEF Shaped, Between, KeysCommands
  <2>3. KeysCommands[words[1]] \in {"Delete", "Exists", "MGet"}
    BY <1>14 DEF KeysCommands
  <2> QED
    BY <2>1, <2>2, <2>3, KeysAnswered
<1>15. CASE words[1] \in DOMAIN ElementsCommands
  <2>1. parse(words) = parse_key_with_elements_command(ElementsCommands[words[1]], words)
    BY <1>15 DEF parse, KeyCommands, KeysCommands, ElementsCommands, PopCommands, ExpireCommands
  <2>2. Shaped(words) <=> Len(words) >= 3
    BY <1>0, <1>15 DEF Shaped, Between, ElementsCommands
  <2>3. ElementsCommands[words[1]] \in {"LPush", "RPush", "LPushX", "RPushX", "SAdd", "SRem"}
    BY <1>15 DEF ElementsCommands
  <2> QED
    BY <2>1, <2>2, <2>3, ElementsAnswered
<1>16. CASE words[1] \in DOMAIN PopCommands
  <2>1. parse(words) = parse_pop_command(PopCommands[words[1]], words)
    BY <1>16 DEF parse, KeyCommands, KeysCommands, ElementsCommands, PopCommands, ExpireCommands
  <2>2. Shaped(words) <=> Len(words) >= 2 /\ (Len(words) >= 3 => U64Of[words[3]] # None)
    BY <1>0, <1>16 DEF Shaped, Between, Numeric, PopCommands
  <2>3. PopCommands[words[1]] \in {"LPop", "RPop", "SPop"}
    BY <1>16 DEF PopCommands
  <2> QED
    BY <2>1, <2>2, <2>3, PopAnswered
<1>17. CASE words[1] \in DOMAIN ExpireCommands
  <2>1. parse(words) = parse_expire_commands(ExpireCommands[words[1]], words)
    BY <1>17 DEF parse, KeyCommands, KeysCommands, ElementsCommands, PopCommands, ExpireCommands
  <2>2. Shaped(words) <=> Len(words) = 3 /\ U64Of[words[3]] # None
    BY <1>0, <1>17 DEF Shaped, Between, Numeric, ExpireCommands
  <2>3. ExpireCommands[words[1]] \in {"Expire", "PExpire", "ExpireAt", "PExpireAt"}
    BY <1>17 DEF ExpireCommands
  <2> QED
    BY <2>1, <2>2, <2>3, ExpireAnswered
<1>18. CASE /\ words[1] \notin {"PING", "SET", "MSET", "LSET", "LINDEX", "LRANGE", "SISMEMBER", "SMISMEMBER",
                               "SRANDMEMBER", "SMOVE", "SELECT", "DBSIZE", "FLUSHDB"}
            /\ words[1] \notin DOMAIN KeyCommands /\ words[1] \notin DOMAIN KeysCommands
            /\ words[1] \notin DOMAIN ElementsCommands /\ words[1] \notin DOMAIN PopCommands
            /\ words[1] \notin DOMAIN ExpireCommands
  <2>1. parse(words) = Err("UnknownCommand")
    BY <1>18 DEF parse
  <2>2. ~Shaped(words)
    BY <1>18 DEF Shaped, KeyCommands, KeysCommands, ElementsCommands, PopCommands, ExpireCommands
  <2> QED
    BY <2>1, <2>2, RefusedAnswers
<1> QED
  BY <1>1, <1>2, <1>3, <1>4, <1>5, <1>6, <1>7, <1>8, <1>9,
     <1>10, <1>11, <1>12, <1>13, <1>14, <1>15, <1>16, <1>17, <1>18

-----------------------------------------------------------------------------
(***************************************************************************)
(* The loop over the options of SET: what a turn leaves.                   *)
(***************************************************************************)
SetLoop == [i : Nat \ {0}, cmd : SetCommand]
Turns == SetLoop \cup HandlerError

(* A failed turn is an error, the others are not. *)
LEMMA TurnFails ==
  ASSUME NEW t \in Turns
  PROVE  Failed(t) <=> t \in HandlerError
BY DEF Turns, SetLoop, HandlerError, Err, Failed

(* A parsed word of SET with its duplicate guard. *)
LEMMA GuardTyped ==
  ASSUME NEW option, NEW t \in Turns
  PROVE  guard_duplicate(option, t) \in Turns
BY ErrorsFail DEF guard_duplicate, Turns

(* The command with another condition or expiry is one of SET. *)
LEMMA WithTyped ==
  ASSUME NEW t \in SetLoop, NEW width \in Nat
  PROVE  /\ \A c \in SetCondition : with_condition(t, c, width) \in SetLoop
         /\ \A e \in SetExpiry : with_expiry(t, e, width) \in SetLoop
BY DEF SetLoop, SetCommand, with_condition, with_expiry

(* The next word, if there is one. *)
LEMMA NextToken ==
  ASSUME NEW words \in Seq(Strings), NEW i \in Nat, i >= 1, i <= Len(words)
  PROVE  /\ get_next_token(words, i) = None <=> ~(i < Len(words))
         /\ i < Len(words) => get_next_token(words, i) = words[i + 1] /\ words[i + 1] \in Strings
<1>1. i < Len(words) => i + 1 \in Nat /\ i + 1 >= 1 /\ i + 1 <= Len(words)
  OBVIOUS
<1>2. i < Len(words) => words[i + 1] \in Strings
  BY <1>1, WordTyped
<1> QED
  BY <1>2, ParserAssumption DEF get_next_token

(* A turn of the loop is typed. *)
LEMMA SetOptionTyped ==
  ASSUME NEW words \in Seq(Strings), NEW t \in SetLoop, t.i <= Len(words)
  PROVE  set_option(words, t) \in Turns
<1> DEFINE token == words[t.i]
<1>1. t.i \in Nat /\ t.i >= 1 /\ t.cmd \in SetCommand
  BY DEF SetLoop
<1>2. token \in Strings
  BY <1>1, WordTyped
<1>3. CASE token \in {"NX", "XX"}
  <2>1. set_option(words, t) = guard_duplicate(t.cmd.condition, with_condition(t, <<token, None>>, 1))
    BY <1>3 DEF set_option, OperandConditions, OperandExpiries
  <2>2. <<token, None>> \in SetCondition
    BY <1>3 DEF SetCondition
  <2>3. with_condition(t, <<token, None>>, 1) \in Turns
    BY <2>2, WithTyped DEF Turns
  <2> QED
    BY <2>1, <2>3, GuardTyped
<1>4. CASE token \in DOMAIN OperandConditions
  <2> DEFINE next == get_next_token(words, t.i)
             operand == IF token \in {"IFEQ", "IFNE"} THEN next ELSE HexOf[next]
             option == <<OperandConditions[token], operand>>
  <2>1. set_option(words, t) = guard_duplicate(t.cmd.condition, operand_condition(words, t))
    BY <1>4 DEF set_option, OperandConditions, OperandExpiries
  <2>2. operand_condition(words, t) =
          IF next = None THEN Err("SyntaxError") ELSE Parsed(operand, with_condition(t, option, 2))
    BY DEF operand_condition
  <2>3. ASSUME next # None, operand # None PROVE option \in SetCondition
    <3>1. next \in Strings
      BY <1>1, <2>3, NextToken
    <3>2. HexOf[next] \in Digests \cup {None}
      BY <3>1, ParserAssumption
    <3> HIDE DEF next
    <3> QED
      BY <1>4, <2>3, <3>1, <3>2 DEF SetCondition, OperandConditions
  <2> HIDE DEF next, operand, option
  <2>4. operand_condition(words, t) \in Turns
    <3>1. CASE next = None \/ operand = None
      BY <2>2, <3>1, ErrorsFail DEF Parsed, Turns
    <3>2. CASE next # None /\ operand # None
      <4>1. with_condition(t, option, 2) \in SetLoop
        BY <2>3, <3>2, WithTyped
      <4> QED
        BY <2>2, <3>2, <4>1 DEF Parsed, Turns
    <3> QED
      BY <3>1, <3>2
  <2> QED
    BY <2>1, <2>4, GuardTyped
<1>5. CASE token = "GET"
  <2>1. set_option(words, t) = [i |-> t.i + 1, cmd |-> [t.cmd EXCEPT !.get = TRUE]]
    BY <1>5 DEF set_option, OperandConditions, OperandExpiries
  <2>2. [t.cmd EXCEPT !.get = TRUE] \in SetCommand
    BY <1>1 DEF SetCommand
  <2> QED
    BY <1>1, <2>1, <2>2 DEF SetLoop, Turns
<1>6. CASE token \in DOMAIN OperandExpiries
  <2> DEFINE next == get_next_token(words, t.i)
             option == <<OperandExpiries[token], U64Of[next]>>
  <2>1. set_option(words, t) = guard_duplicate(t.cmd.expiry, operand_expiry(words, t))
    BY <1>6 DEF set_option, OperandConditions, OperandExpiries
  <2>2. operand_expiry(words, t) =
          IF next = None THEN Err("SyntaxError") ELSE Parsed(U64Of[next], with_expiry(t, option, 2))
    BY DEF operand_expiry
  <2>3. ASSUME next # None, U64Of[next] # None PROVE option \in SetExpiry
    <3>1. next \in Strings
      BY <1>1, <2>3, NextToken
    <3>2. U64Of[next] \in U64 \cup {None}
      BY <3>1, ParserAssumption
    <3> HIDE DEF next
    <3> QED
      BY <1>6, <2>3, <3>2 DEF SetExpiry, OperandExpiries
  <2> HIDE DEF next, option
  <2>4. operand_expiry(words, t) \in Turns
    <3>1. CASE next = None \/ U64Of[next] = None
      BY <2>2, <3>1, ErrorsFail DEF Parsed, Turns
    <3>2. CASE next # None /\ U64Of[next] # None
      <4>1. with_expiry(t, option, 2) \in SetLoop
        BY <2>3, <3>2, WithTyped
      <4> QED
        BY <2>2, <3>2, <4>1 DEF Parsed, Turns
    <3> QED
      BY <3>1, <3>2
  <2> QED
    BY <2>1, <2>4, GuardTyped
<1>7. CASE token = "KEEPTTL"
  <2>1. set_option(words, t) = guard_duplicate(t.cmd.expiry, with_expiry(t, <<"KeepTtl", None>>, 1))
    BY <1>7 DEF set_option, OperandConditions, OperandExpiries
  <2>2. <<"KeepTtl", None>> \in SetExpiry
    BY DEF SetExpiry
  <2>3. with_expiry(t, <<"KeepTtl", None>>, 1) \in Turns
    BY <2>2, WithTyped DEF Turns
  <2> QED
    BY <2>1, <2>3, GuardTyped
<1>8. CASE /\ token \notin {"NX", "XX", "GET", "KEEPTTL"}
           /\ token \notin DOMAIN OperandConditions /\ token \notin DOMAIN OperandExpiries
  <2>1. set_option(words, t) = Err("SyntaxError")
    BY <1>8 DEF set_option
  <2> QED
    BY <2>1, ErrorsFail DEF Turns
<1> QED
  BY <1>3, <1>4, <1>5, <1>6, <1>7, <1>8

(* The loop, as a function of the number of turns. *)
SetStart(words) ==
    [i |-> 4, cmd |-> [op |-> "Set", key |-> words[2], value |-> words[3],
                       condition |-> None, expiry |-> None, get |-> FALSE]]

Turned(words, t) == IF Failed(t) \/ t.i > Len(words) THEN t ELSE set_option(words, t)

Loops(words, f) ==
    f = [n \in 0..Len(words) |->
            IF n = 0 THEN SetStart(words)
            ELSE IF Failed(f[n - 1]) \/ f[n - 1].i > Len(words) THEN f[n - 1]
            ELSE set_option(words, f[n - 1])]

Loop(words) == CHOOSE f : Loops(words, f)

(* Whatever a turn is given, its result is typed. *)
LEMMA TurnedTyped ==
  ASSUME NEW words \in Seq(Strings), NEW t \in Turns
  PROVE  Turned(words, t) \in Turns
<1>1. CASE Failed(t) \/ t.i > Len(words)
  BY <1>1 DEF Turned
<1>2. CASE ~Failed(t) /\ ~(t.i > Len(words))
  <2>1. t \in SetLoop
    BY <1>2, TurnFails DEF Turns
  <2>2. t.i <= Len(words)
    BY <1>2, <2>1 DEF SetLoop
  <2> QED
    BY <1>2, <2>1, <2>2, SetOptionTyped DEF Turned
<1> QED
  BY <1>1, <1>2

(* The loop ends after at most as many turns as there are words. *)
LEMMA LoopTurns ==
  ASSUME NEW words \in Seq(Strings), Len(words) >= 3
  PROVE  /\ Loop(words) \in [0..Len(words) -> Turns]
         /\ Loop(words)[0] = SetStart(words)
         /\ \A n \in 1..Len(words) : Loop(words)[n] = Turned(words, Loop(words)[n - 1])
         /\ parse_set_command(words) = IF Failed(Loop(words)[Len(words)]) THEN Loop(words)[Len(words)]
                                       ELSE Loop(words)[Len(words)].cmd
<1> DEFINE F == [p \in Nat \X Turns |-> Turned(words, p[2])]
           N == Len(words)
<1>1. N \in Nat
  OBVIOUS
<1>2. SetStart(words) \in Turns
  <2>1. words[2] \in Keys /\ words[3] \in Strings
    BY WordTyped
  <2> QED
    BY <2>1 DEF SetStart, Turns, SetLoop, SetCommand
<1>3. F \in [Nat \X Turns -> Turns]
  BY TurnedTyped
<1>4. PICK f : Iterates(f, SetStart(words), F, Turns, N)
  <2> HIDE DEF F, N
  <2> QED
    BY <1>1, <1>2, <1>3, IterationExists
<1>5. /\ f \in [0..N -> Turns] /\ f[0] = SetStart(words)
      /\ \A n \in 1..N : f[n] = Turned(words, f[n - 1])
  <2>1. f \in [0..N -> Turns] /\ f[0] = SetStart(words) /\ \A n \in 1..N : f[n] = F[<<n, f[n - 1]>>]
    BY <1>4 DEF Iterates
  <2>2. ASSUME NEW n \in 1..N PROVE f[n] = Turned(words, f[n - 1])
    <3>1. n \in Nat /\ n - 1 \in 0..N
      BY <1>1
    <3>2. f[n - 1] \in Turns
      BY <2>1, <3>1
    <3> QED
      BY <2>1, <3>1, <3>2
  <2> QED
    BY <2>1, <2>2
<1>6. Loops(words, f)
  <2> DEFINE g == [n \in 0..Len(words) |->
                     IF n = 0 THEN SetStart(words)
                     ELSE IF Failed(f[n - 1]) \/ f[n - 1].i > Len(words) THEN f[n - 1]
                     ELSE set_option(words, f[n - 1])]
  <2>1. ASSUME NEW n \in 0..N PROVE f[n] = g[n]
    <3>1. CASE n = 0
      BY <1>5, <3>1
    <3>2. CASE n # 0
      <4>1. n \in 1..N
        BY <1>1, <3>2
      <4> QED
        BY <1>5, <3>2, <4>1 DEF Turned
    <3> QED
      BY <3>1, <3>2
  <2>2. f = g
    <3> HIDE DEF g
    <3>1. DOMAIN g = 0..N /\ g = [n \in 0..N |-> g[n]]
      BY DEF g
    <3> QED
      BY <1>5, <2>1, <3>1
  <2> QED
    BY <2>2 DEF Loops
<1> DEFINE h == Loop(words)
<1>7. Loops(words, h)
  BY <1>6 DEF Loop
<1>8. h[0] = SetStart(words) /\ \A n \in 1..N : h[n] = Turned(words, h[n - 1])
  <2> HIDE DEF h
  <2>1. 0 \in 0..Len(words)
    BY <1>1
  <2>2. h[0] = SetStart(words)
    BY <1>7, <2>1 DEF Loops
  <2>3. ASSUME NEW n \in 1..N PROVE h[n] = Turned(words, h[n - 1])
    <3>1. n \in 0..Len(words) /\ n # 0
      BY <1>1
    <3> QED
      BY <1>7, <3>1 DEF Loops, Turned
  <2> QED
    BY <2>2, <2>3
<1>9. h \in [0..N -> Turns]
  <2> DEFINE S == {n \in Nat : n <= N => h[n] \in Turns}
  <2> HIDE DEF h
  <2>1. 0 \in S
    BY <1>2, <1>8
  <2>2. ASSUME NEW n \in S PROVE n + 1 \in S
    <3> SUFFICES ASSUME n + 1 <= N PROVE h[n + 1] \in Turns
      OBVIOUS
    <3>1. n + 1 \in 1..N /\ (n + 1) - 1 = n /\ h[n] \in Turns
      BY <1>1
    <3>2. h[n + 1] = Turned(words, h[n])
      BY <1>8, <3>1
    <3> QED
      BY <3>1, <3>2, TurnedTyped
  <2> HIDE DEF S
  <2>3. S = Nat
    <3>1. S \in SUBSET Nat
      BY DEF S
    <3> QED
      BY <2>1, <2>2, <3>1, NumbersByInduction
  <2>4. \A n \in 0..N : h[n] \in Turns
    BY <1>1, <2>3 DEF S
  <2>5. h = [n \in 0..N |-> h[n]]
    BY <1>7 DEF Loops
  <2> QED
    BY <2>4, <2>5
<1>10. parse_set_command(words) = IF Failed(h[N]) THEN h[N] ELSE h[N].cmd
  BY DEF parse_set_command, check_min_arity, Indexed, Loop, Loops, SetStart
<1> QED
  BY <1>8, <1>9, <1>10

-----------------------------------------------------------------------------
(***************************************************************************)
(* The positions of the options in the words of SET.                       *)
(***************************************************************************)
Marks(words, f) ==
    f = [i \in 4..Len(words) |-> i = 4 \/ ~(f[i - 1] /\ words[i - 1] \in TakesOperand)]

(* The words after the value can be told apart, option by option. *)
LEMMA MarksExist ==
  ASSUME NEW words \in Seq(Strings), Len(words) >= 4
  PROVE  \E f : Marks(words, f)
<1> DEFINE N == Len(words) - 4
           F == [p \in Nat \X BOOLEAN |-> ~(p[2] /\ words[p[1] + 3] \in TakesOperand)]
<1>1. Len(words) \in Nat /\ N \in Nat
  OBVIOUS
<1>2. F \in [Nat \X BOOLEAN -> BOOLEAN]
  OBVIOUS
<1>3. PICK g : Iterates(g, TRUE, F, BOOLEAN, N)
  <2> HIDE DEF F, N
  <2> QED
    BY <1>1, <1>2, IterationExists
<1>4. g \in [0..N -> BOOLEAN] /\ g[0] = TRUE /\ \A n \in 1..N : g[n] = F[<<n, g[n - 1]>>]
  BY <1>3 DEF Iterates
<1>5. ASSUME NEW n \in 1..N PROVE g[n] = ~(g[n - 1] /\ words[n + 3] \in TakesOperand)
  <2>1. n \in Nat /\ n - 1 \in 0..N
    BY <1>1
  <2>2. g[n - 1] \in BOOLEAN
    BY <1>4, <2>1
  <2>3. <<n, g[n - 1]>> \in Nat \X BOOLEAN
    BY <2>1, <2>2
  <2> QED
    BY <1>4, <2>3
<1> HIDE DEF F
<1> DEFINE f == [i \in 4..Len(words) |-> g[i - 4]]
           h == [i \in 4..Len(words) |-> i = 4 \/ ~(f[i - 1] /\ words[i - 1] \in TakesOperand)]
<1>6. ASSUME NEW i \in 4..Len(words) PROVE f[i] = h[i]
  <2>1. i - 4 \in 0..N
    BY <1>1
  <2>2. f[i] = g[i - 4]
    OBVIOUS
  <2>3. CASE i = 4
    <3>1. g[i - 4] = TRUE
      BY <1>4, <2>3
    <3> QED
      BY <2>2, <2>3, <3>1
  <2>4. CASE i # 4
    <3>1. i - 4 \in 1..N /\ (i - 4) + 3 = i - 1 /\ (i - 4) - 1 = (i - 1) - 4 /\ i - 1 \in 4..Len(words)
      BY <1>1, <2>4
    <3>2. g[i - 4] = ~(g[(i - 4) - 1] /\ words[(i - 4) + 3] \in TakesOperand)
      BY <1>5, <3>1
    <3>3. f[i - 1] = g[(i - 1) - 4]
      BY <3>1
    <3>4. f[i] = ~(f[i - 1] /\ words[i - 1] \in TakesOperand)
      BY <2>2, <3>1, <3>2, <3>3
    <3>5. h[i] = (i = 4 \/ ~(f[i - 1] /\ words[i - 1] \in TakesOperand))
      OBVIOUS
    <3> HIDE DEF f, h
    <3> QED
      BY <2>4, <3>4, <3>5
  <2> QED
    BY <2>3, <2>4
<1>7. f = h
  <2>1. h = [i \in 4..Len(words) |-> h[i]] /\ f = [i \in 4..Len(words) |-> f[i]]
    OBVIOUS
  <2> HIDE DEF f, h
  <2> QED
    BY <1>6, <2>1
<1>8. Marks(words, f)
  BY <1>7 DEF Marks
<1> QED
  BY <1>8

(* The first word after the value is an option, and every other word is    *)
(* one unless it is the operand of the option before it.                   *)
LEMMA OptionsStep ==
  ASSUME NEW words \in Seq(Strings)
  PROVE  /\ OptionPositions(words) \subseteq 4..Len(words)
         /\ Len(words) >= 4 => 4 \in OptionPositions(words)
         /\ \A i \in 5..Len(words) :
               i \in OptionPositions(words) <=>
                  ~(i - 1 \in OptionPositions(words) /\ words[i - 1] \in TakesOperand)
<1> DEFINE f == CHOOSE f : Marks(words, f)
<1>1. OptionPositions(words) = {i \in 4..Len(words) : f[i]}
  BY DEF OptionPositions, Marks
<1>2. Len(words) \in Nat
  OBVIOUS
<1>3. CASE Len(words) < 4
  <2>1. 4..Len(words) = {} /\ 5..Len(words) = {} /\ ~(Len(words) >= 4)
    BY <1>2, <1>3
  <2> HIDE DEF f
  <2> QED
    BY <1>1, <2>1
<1>4. CASE Len(words) >= 4
  <2>1. Marks(words, f)
    BY <1>4, MarksExist
  <2> HIDE DEF f
  <2>2. \A i \in 4..Len(words) : f[i] = (i = 4 \/ ~(f[i - 1] /\ words[i - 1] \in TakesOperand))
    BY <2>1 DEF Marks
  <2>3. 4 \in 4..Len(words)
    BY <1>2, <1>4
  <2>4. f[4]
    BY <2>2, <2>3
  <2>5. ASSUME NEW i \in 5..Len(words)
        PROVE  i \in OptionPositions(words) <=>
                  ~(i - 1 \in OptionPositions(words) /\ words[i - 1] \in TakesOperand)
    <3>1. i \in 4..Len(words) /\ i - 1 \in 4..Len(words) /\ i # 4
      BY <1>2
    <3>2. f[i] = (i = 4 \/ ~(f[i - 1] /\ words[i - 1] \in TakesOperand))
      BY <2>2, <3>1
    <3> QED
      BY <1>1, <3>1, <3>2
  <2> QED
    BY <1>1, <2>3, <2>4, <2>5
<1> QED
  BY <1>2, <1>3, <1>4

(* The options before a position, by group. *)
OptionsBefore(words, i) == {j \in OptionPositions(words) : j < i}
ConditionsBefore(words, i) == {j \in OptionsBefore(words, i) : words[j] \in ConditionWords}
ExpiriesBefore(words, i) == {j \in OptionsBefore(words, i) : words[j] \in ExpiryWords}
GetBefore(words, i) == \E j \in OptionsBefore(words, i) : words[j] = "GET"

LegalAt(words, j) ==
    /\ words[j] \in ConditionWords \cup ExpiryWords \cup {"GET"}
    /\ words[j] \in TakesOperand => j < Len(words) /\ Operand(words, j) # None

(* Where the option after the one at i is. *)
After(words, i) == i + (IF words[i] \in TakesOperand THEN 2 ELSE 1)

(* The option at i, with its operand, is all there is between i and the    *)
(* next option.                                                            *)
LEMMA Advance ==
  ASSUME NEW words \in Seq(Strings), NEW i \in OptionPositions(words), LegalAt(words, i)
  PROVE  /\ After(words, i) \in 4..(Len(words) + 1) /\ After(words, i) > i
         /\ After(words, i) <= Len(words) => After(words, i) \in OptionPositions(words)
         /\ OptionsBefore(words, After(words, i)) = OptionsBefore(words, i) \cup {i}
<1>1. Len(words) \in Nat /\ OptionPositions(words) \subseteq 4..Len(words) /\ i \in 4..Len(words)
  BY OptionsStep
<1>2. CASE words[i] \notin TakesOperand
  <2>1. After(words, i) = i + 1
    BY <1>2 DEF After
  <2>2. i + 1 <= Len(words) => i + 1 \in 5..Len(words) /\ (i + 1) - 1 = i
    BY <1>1
  <2>3. i + 1 <= Len(words) => i + 1 \in OptionPositions(words)
    BY <1>2, <2>2, OptionsStep
  <2>4. OptionsBefore(words, i + 1) = OptionsBefore(words, i) \cup {i}
    <3>1. \A j \in OptionPositions(words) : j < i + 1 <=> j < i \/ j = i
      BY <1>1
    <3> QED
      BY <3>1 DEF OptionsBefore
  <2>5. i + 1 \in 4..(Len(words) + 1) /\ i + 1 > i
    BY <1>1
  <2> QED
    BY <2>1, <2>3, <2>4, <2>5
<1>3. CASE words[i] \in TakesOperand
  <2>1. After(words, i) = i + 2 /\ i < Len(words)
    BY <1>3 DEF After, LegalAt
  <2>2. i + 1 \in 5..Len(words) /\ (i + 1) - 1 = i
    BY <1>1, <2>1
  <2>3. i + 1 \notin OptionPositions(words)
    BY <1>3, <2>2, OptionsStep
  <2>4. i + 2 <= Len(words) => i + 2 \in 5..Len(words) /\ (i + 2) - 1 = i + 1
    BY <1>1
  <2>5. i + 2 <= Len(words) => i + 2 \in OptionPositions(words)
    BY <2>3, <2>4, OptionsStep
  <2>6. OptionsBefore(words, i + 2) = OptionsBefore(words, i) \cup {i}
    <3>1. \A j \in OptionPositions(words) : j < i + 2 <=> j < i \/ j = i \/ j = i + 1
      BY <1>1
    <3> QED
      BY <2>3, <3>1 DEF OptionsBefore
  <2>7. i + 2 \in 4..(Len(words) + 1) /\ i + 2 > i
    BY <1>1, <2>1
  <2> QED
    BY <2>1, <2>5, <2>6, <2>7
<1> QED
  BY <1>2, <1>3

(* A group grows by the option when the option is of the group. *)
LEMMA AdvanceGroups ==
  ASSUME NEW words \in Seq(Strings), NEW i \in OptionPositions(words), LegalAt(words, i)
  PROVE  LET next == After(words, i)
         IN  /\ words[i] \in ConditionWords =>
                  ConditionsBefore(words, next) = ConditionsBefore(words, i) \cup {i}
             /\ words[i] \notin ConditionWords => ConditionsBefore(words, next) = ConditionsBefore(words, i)
             /\ words[i] \in ExpiryWords =>
                  ExpiriesBefore(words, next) = ExpiriesBefore(words, i) \cup {i}
             /\ words[i] \notin ExpiryWords => ExpiriesBefore(words, next) = ExpiriesBefore(words, i)
             /\ GetBefore(words, next) <=> GetBefore(words, i) \/ words[i] = "GET"
<1> DEFINE next == After(words, i)
<1>1. OptionsBefore(words, next) = OptionsBefore(words, i) \cup {i}
  BY Advance
<1> HIDE DEF next
<1>2. /\ words[i] \in ConditionWords =>
            ConditionsBefore(words, next) = ConditionsBefore(words, i) \cup {i}
      /\ words[i] \notin ConditionWords => ConditionsBefore(words, next) = ConditionsBefore(words, i)
  BY <1>1 DEF ConditionsBefore
<1>3. /\ words[i] \in ExpiryWords =>
            ExpiriesBefore(words, next) = ExpiriesBefore(words, i) \cup {i}
      /\ words[i] \notin ExpiryWords => ExpiriesBefore(words, next) = ExpiriesBefore(words, i)
  BY <1>1 DEF ExpiriesBefore
<1>4. GetBefore(words, next) <=> GetBefore(words, i) \/ words[i] = "GET"
  BY <1>1 DEF GetBefore
<1> QED
  BY <1>2, <1>3, <1>4 DEF next

(* The option of a group that has one is an option of that group, and so   *)
(* not None.                                                               *)
LEMMA TheOptionTyped ==
  ASSUME NEW words \in Seq(Strings), NEW P \in SUBSET OptionPositions(words), P # {},
         \A j \in P : LegalAt(words, j)
  PROVE  /\ (\A j \in P : words[j] \in ConditionWords) => TheOption(words, P) \in SetCondition
         /\ (\A j \in P : words[j] \in ExpiryWords) => TheOption(words, P) \in SetExpiry
<1> DEFINE i == CHOOSE i \in P : TRUE
<1>1. i \in P
  OBVIOUS
<1>2. i \in OptionPositions(words) /\ LegalAt(words, i) /\ i \in 4..Len(words) /\ Len(words) \in Nat
  BY <1>1, OptionsStep
<1> DEFINE spelling == [NX |-> "NX", XX |-> "XX", IFEQ |-> "IfEq", IFNE |-> "IfNe", IFDEQ |-> "IfDeq",
                        IFDNE |-> "IfDne", EX |-> "Ex", PX |-> "Px", EXAT |-> "ExAt", PXAT |-> "PxAt",
                        KEEPTTL |-> "KeepTtl"]
<1>3. TheOption(words, P) = <<spelling[words[i]], Operand(words, i)>>
  BY DEF TheOption
<1>4. words[i] \in TakesOperand =>
         /\ words[i + 1] \in Strings /\ HexOf[words[i + 1]] \in Digests \cup {None}
         /\ U64Of[words[i + 1]] \in U64 \cup {None}
         /\ Operand(words, i) # None
  <2>1. words[i] \in TakesOperand => i + 1 \in Nat /\ i + 1 >= 1 /\ i + 1 <= Len(words) /\ Operand(words, i) # None
    BY <1>2 DEF LegalAt
  <2> QED
    BY <2>1, WordTyped
<1> HIDE DEF i
<1>5. CASE words[i] \in {"NX", "XX"}
  BY <1>1, <1>3, <1>5 DEF SetCondition, Operand, TakesText, TakesDigest, TakesNumber, ExpiryWords
<1>6. CASE words[i] \in TakesText
  BY <1>1, <1>3, <1>4, <1>6 DEF SetCondition, Operand, TakesText, TakesDigest, TakesNumber, TakesOperand, ExpiryWords
<1>7. CASE words[i] \in TakesDigest
  BY <1>1, <1>3, <1>4, <1>7 DEF SetCondition, Operand, TakesText, TakesDigest, TakesNumber, TakesOperand, ExpiryWords
<1>8. CASE words[i] \in TakesNumber
  BY <1>1, <1>3, <1>4, <1>8
     DEF SetExpiry, Operand, TakesText, TakesDigest, TakesNumber, TakesOperand, ConditionWords
<1>9. CASE words[i] = "KEEPTTL"
  BY <1>1, <1>3, <1>9 DEF SetExpiry, Operand, TakesText, TakesDigest, TakesNumber, ConditionWords
<1>10. CASE words[i] \notin ConditionWords /\ words[i] \notin ExpiryWords
  BY <1>1, <1>10
<1> QED
  BY <1>5, <1>6, <1>7, <1>8, <1>9, <1>10 DEF ConditionWords, ExpiryWords

(***************************************************************************)
(* The invariant of the loop: the command so far is what the options       *)
(* before the position say, and they are legal.                            *)
(***************************************************************************)
AtMostOne(P) == \A x, y \in P : x = y

SetOf(words, i) ==
    [op |-> "Set", key |-> words[2], value |-> words[3],
     condition |-> TheOption(words, ConditionsBefore(words, i)),
     expiry |-> TheOption(words, ExpiriesBefore(words, i)), get |-> GetBefore(words, i)]

LegalBefore(words, i) ==
    /\ \A j \in OptionsBefore(words, i) : LegalAt(words, j)
    /\ AtMostOne(ConditionsBefore(words, i)) /\ AtMostOne(ExpiriesBefore(words, i))

Reads(words, t) ==
    /\ t.i \in 4..(Len(words) + 1)
    /\ t.i <= Len(words) => t.i \in OptionPositions(words)
    /\ LegalBefore(words, t.i)
    /\ t = [i |-> t.i, cmd |-> SetOf(words, t.i)]

Conditions(words) == {j \in OptionPositions(words) : words[j] \in ConditionWords}
Expiries(words) == {j \in OptionPositions(words) : words[j] \in ExpiryWords}

Legal(words) ==
    /\ \A j \in OptionPositions(words) : LegalAt(words, j)
    /\ AtMostOne(Conditions(words)) /\ AtMostOne(Expiries(words))

(* A group has an option of its own when it is not empty. *)
LEMMA GroupIsEmpty ==
  ASSUME NEW words \in Seq(Strings), NEW i \in OptionPositions(words), LegalBefore(words, i)
  PROVE  /\ TheOption(words, ConditionsBefore(words, i)) = None <=> ConditionsBefore(words, i) = {}
         /\ TheOption(words, ExpiriesBefore(words, i)) = None <=> ExpiriesBefore(words, i) = {}
<1>1. ASSUME ConditionsBefore(words, i) # {} PROVE TheOption(words, ConditionsBefore(words, i)) # None
  <2>1. TheOption(words, ConditionsBefore(words, i)) \in SetCondition
    <3>1. ConditionsBefore(words, i) \in SUBSET OptionPositions(words)
      BY DEF ConditionsBefore, OptionsBefore
    <3>2. \A j \in ConditionsBefore(words, i) : LegalAt(words, j) /\ words[j] \in ConditionWords
      BY DEF ConditionsBefore, LegalBefore
    <3> QED
      BY <1>1, <3>1, <3>2, TheOptionTyped
  <2> QED
    BY <2>1, ParserAssumption
<1>2. ASSUME ExpiriesBefore(words, i) # {} PROVE TheOption(words, ExpiriesBefore(words, i)) # None
  <2>1. TheOption(words, ExpiriesBefore(words, i)) \in SetExpiry
    <3>1. ExpiriesBefore(words, i) \in SUBSET OptionPositions(words)
      BY DEF ExpiriesBefore, OptionsBefore
    <3>2. \A j \in ExpiriesBefore(words, i) : LegalAt(words, j) /\ words[j] \in ExpiryWords
      BY DEF ExpiriesBefore, LegalBefore
    <3> QED
      BY <1>2, <3>1, <3>2, TheOptionTyped
  <2> QED
    BY <2>1, ParserAssumption
<1>3. TheOption(words, {}) = None
  BY DEF TheOption
<1> QED
  BY <1>1, <1>2, <1>3

(* A second option of a group makes the words illegal. *)
LEMMA SecondIsIllegal ==
  ASSUME NEW words \in Seq(Strings), NEW i \in OptionPositions(words)
  PROVE  /\ words[i] \in ConditionWords /\ ConditionsBefore(words, i) # {} => ~Legal(words)
         /\ words[i] \in ExpiryWords /\ ExpiriesBefore(words, i) # {} => ~Legal(words)
<1>1. i \in 4..Len(words) /\ Len(words) \in Nat
  BY OptionsStep
<1>2. ASSUME words[i] \in ConditionWords, ConditionsBefore(words, i) # {} PROVE ~Legal(words)
  <2>1. PICK j : j \in ConditionsBefore(words, i)
    BY <1>2
  <2>2. j \in Conditions(words) /\ i \in Conditions(words) /\ j < i
    BY <1>2, <2>1 DEF ConditionsBefore, OptionsBefore, Conditions
  <2>3. j # i
    BY <1>1, <2>2
  <2> QED
    BY <2>2, <2>3 DEF Legal, AtMostOne
<1>3. ASSUME words[i] \in ExpiryWords, ExpiriesBefore(words, i) # {} PROVE ~Legal(words)
  <2>1. PICK j : j \in ExpiriesBefore(words, i)
    BY <1>3
  <2>2. j \in Expiries(words) /\ i \in Expiries(words) /\ j < i
    BY <1>3, <2>1 DEF ExpiriesBefore, OptionsBefore, Expiries
  <2>3. j # i
    BY <1>1, <2>2
  <2> QED
    BY <2>2, <2>3 DEF Legal, AtMostOne
<1> QED
  BY <1>2, <1>3

(* A legal option, the first of its group, keeps the invariant. *)
LEMMA TakenReads ==
  ASSUME NEW words \in Seq(Strings), NEW i \in OptionPositions(words),
         LegalBefore(words, i), LegalAt(words, i),
         words[i] \in ConditionWords => ConditionsBefore(words, i) = {},
         words[i] \in ExpiryWords => ExpiriesBefore(words, i) = {}
  PROVE  Reads(words, [i |-> After(words, i), cmd |-> SetOf(words, After(words, i))])
<1> DEFINE next == After(words, i)
           r == [i |-> next, cmd |-> SetOf(words, next)]
<1>1. /\ next \in 4..(Len(words) + 1)
      /\ next <= Len(words) => next \in OptionPositions(words)
      /\ OptionsBefore(words, next) = OptionsBefore(words, i) \cup {i}
  BY Advance
<1>2. /\ words[i] \in ConditionWords => ConditionsBefore(words, next) = ConditionsBefore(words, i) \cup {i}
      /\ words[i] \notin ConditionWords => ConditionsBefore(words, next) = ConditionsBefore(words, i)
      /\ words[i] \in ExpiryWords => ExpiriesBefore(words, next) = ExpiriesBefore(words, i) \cup {i}
      /\ words[i] \notin ExpiryWords => ExpiriesBefore(words, next) = ExpiriesBefore(words, i)
  BY AdvanceGroups
<1> HIDE DEF next
<1>3. AtMostOne(ConditionsBefore(words, next))
  BY <1>2 DEF LegalBefore, AtMostOne
<1>4. AtMostOne(ExpiriesBefore(words, next))
  BY <1>2 DEF LegalBefore, AtMostOne
<1>5. \A j \in OptionsBefore(words, next) : LegalAt(words, j)
  BY <1>1 DEF LegalBefore
<1>6. r.i = next /\ r = [i |-> r.i, cmd |-> SetOf(words, r.i)]
  OBVIOUS
<1> HIDE DEF r
<1>7. Reads(words, r)
  BY <1>1, <1>3, <1>4, <1>5, <1>6 DEF Reads, LegalBefore
<1> QED
  BY <1>7 DEF r, next

(* The only option of a group. *)
LEMMA OnlyOption ==
  ASSUME NEW words, NEW i
  PROVE  /\ words[i] \in {"NX", "XX"} => TheOption(words, {i}) = <<words[i], None>>
         /\ words[i] = "KEEPTTL" => TheOption(words, {i}) = <<"KeepTtl", None>>
         /\ words[i] \in TakesText \cup TakesDigest =>
               TheOption(words, {i}) = <<OperandConditions[words[i]], Operand(words, i)>>
         /\ words[i] \in TakesNumber =>
               TheOption(words, {i}) = <<OperandExpiries[words[i]], Operand(words, i)>>
<1>1. (CHOOSE j \in {i} : TRUE) = i
  OBVIOUS
<1> DEFINE spelling == [NX |-> "NX", XX |-> "XX", IFEQ |-> "IfEq", IFNE |-> "IfNe", IFDEQ |-> "IfDeq",
                        IFDNE |-> "IfDne", EX |-> "Ex", PX |-> "Px", EXAT |-> "ExAt", PXAT |-> "PxAt",
                        KEEPTTL |-> "KeepTtl"]
<1>2. TheOption(words, {i}) = <<spelling[words[i]], Operand(words, i)>>
  BY <1>1 DEF TheOption
<1>3. words[i] \in {"NX", "XX", "KEEPTTL"} => Operand(words, i) = None
  BY DEF Operand, TakesText, TakesDigest, TakesNumber
<1> QED
  BY <1>2, <1>3 DEF TakesText, TakesDigest, TakesNumber, OperandConditions, OperandExpiries

(* The command after a condition, an expiry and GET. *)
LEMMA SetOfAfter ==
  ASSUME NEW words \in Seq(Strings), NEW t, Reads(words, t), t.i <= Len(words), LegalAt(words, t.i)
  PROVE  LET i == t.i
             next == [i |-> After(words, i), cmd |-> SetOf(words, After(words, i))]
         IN  /\ words[i] \in ConditionWords /\ ConditionsBefore(words, i) = {} =>
                   next = with_condition(t, TheOption(words, {i}), IF words[i] \in TakesOperand THEN 2 ELSE 1)
             /\ words[i] \in ExpiryWords /\ ExpiriesBefore(words, i) = {} =>
                   next = with_expiry(t, TheOption(words, {i}), IF words[i] \in TakesOperand THEN 2 ELSE 1)
             /\ words[i] = "GET" =>
                   next = [i |-> i + 1, cmd |-> [t.cmd EXCEPT !.get = TRUE]]
<1> DEFINE i == t.i
           after == After(words, i)
           next == [i |-> after, cmd |-> SetOf(words, after)]
<1>1. i \in OptionPositions(words) /\ t.cmd = SetOf(words, i)
  BY DEF Reads
<1>2. /\ words[i] \in ConditionWords => ConditionsBefore(words, after) = ConditionsBefore(words, i) \cup {i}
      /\ words[i] \notin ConditionWords => ConditionsBefore(words, after) = ConditionsBefore(words, i)
      /\ words[i] \in ExpiryWords => ExpiriesBefore(words, after) = ExpiriesBefore(words, i) \cup {i}
      /\ words[i] \notin ExpiryWords => ExpiriesBefore(words, after) = ExpiriesBefore(words, i)
      /\ GetBefore(words, after) <=> GetBefore(words, i) \/ words[i] = "GET"
  BY <1>1, AdvanceGroups
<1>3. after = i + IF words[i] \in TakesOperand THEN 2 ELSE 1
  BY DEF After
<1>4. GetBefore(words, after) \in BOOLEAN /\ GetBefore(words, i) \in BOOLEAN
  BY DEF GetBefore
<1> HIDE DEF after
<1>5. ASSUME words[i] \in ConditionWords, ConditionsBefore(words, i) = {}
      PROVE  next = with_condition(t, TheOption(words, {i}), IF words[i] \in TakesOperand THEN 2 ELSE 1)
  <2>1. words[i] \notin ExpiryWords /\ words[i] # "GET"
    BY <1>5 DEF ConditionWords, ExpiryWords, TakesText, TakesDigest, TakesNumber
  <2>2. /\ ConditionsBefore(words, after) = {i} /\ ExpiriesBefore(words, after) = ExpiriesBefore(words, i)
        /\ GetBefore(words, after) = GetBefore(words, i)
    BY <1>2, <1>4, <1>5, <2>1
  <2>3. SetOf(words, after) = [SetOf(words, i) EXCEPT !.condition = TheOption(words, {i})]
    BY <2>2 DEF SetOf
  <2> QED
    BY <1>1, <1>3, <2>3 DEF with_condition
<1>6. ASSUME words[i] \in ExpiryWords, ExpiriesBefore(words, i) = {}
      PROVE  next = with_expiry(t, TheOption(words, {i}), IF words[i] \in TakesOperand THEN 2 ELSE 1)
  <2>1. words[i] \notin ConditionWords /\ words[i] # "GET"
    BY <1>6 DEF ConditionWords, ExpiryWords, TakesText, TakesDigest, TakesNumber
  <2>2. /\ ExpiriesBefore(words, after) = {i} /\ ConditionsBefore(words, after) = ConditionsBefore(words, i)
        /\ GetBefore(words, after) = GetBefore(words, i)
    BY <1>2, <1>4, <1>6, <2>1
  <2>3. SetOf(words, after) = [SetOf(words, i) EXCEPT !.expiry = TheOption(words, {i})]
    BY <2>2 DEF SetOf
  <2> QED
    BY <1>1, <1>3, <2>3 DEF with_expiry
<1>7. ASSUME words[i] = "GET"
      PROVE  next = [i |-> i + 1, cmd |-> [t.cmd EXCEPT !.get = TRUE]]
  <2>1. words[i] \notin ConditionWords /\ words[i] \notin ExpiryWords /\ words[i] \notin TakesOperand
    BY <1>7 DEF ConditionWords, ExpiryWords, TakesOperand, TakesText, TakesDigest, TakesNumber
  <2>2. /\ ExpiriesBefore(words, after) = ExpiriesBefore(words, i)
        /\ ConditionsBefore(words, after) = ConditionsBefore(words, i)
        /\ GetBefore(words, after) = TRUE
    BY <1>2, <1>4, <1>7, <2>1
  <2>3. SetOf(words, after) = [SetOf(words, i) EXCEPT !.get = TRUE]
    <3> DEFINE c == TheOption(words, ConditionsBefore(words, i))
               e == TheOption(words, ExpiriesBefore(words, i))
               got(g) == [op |-> "Set", key |-> words[2], value |-> words[3],
                          condition |-> c, expiry |-> e, get |-> g]
    <3>1. SetOf(words, after) = got(TRUE)
      BY <2>2, Zenon DEF SetOf
    <3>2. \A g, v : [got(g) EXCEPT !.get = v] = got(v)
      OBVIOUS
    <3>3. [SetOf(words, i) EXCEPT !.get = TRUE] = got(TRUE)
      BY <3>2, Zenon DEF SetOf
    <3> QED
      BY <3>1, <3>3, Zenon
  <2> QED
    BY <1>1, <1>3, <2>1, <2>3
<1> QED
  BY <1>5, <1>6, <1>7 DEF after

(* A turn fails on words that are illegal, or keeps the invariant and gets *)
(* on.                                                                     *)
LEMMA TurnReads ==
  ASSUME NEW words \in Seq(Strings), NEW t, Reads(words, t), t.i <= Len(words)
  PROVE  LET r == set_option(words, t)
         IN  (Failed(r) /\ ~Legal(words)) \/ (Reads(words, r) /\ r.i > t.i)
<1> DEFINE r == set_option(words, t)
           i == t.i
           token == words[i]
           next == [i |-> After(words, i), cmd |-> SetOf(words, After(words, i))]
           Good == (Failed(r) /\ ~Legal(words)) \/ (Reads(words, r) /\ r.i > i)
<1> SUFFICES Good
  OBVIOUS
<1>1. /\ i \in OptionPositions(words) /\ LegalBefore(words, i) /\ t.cmd = SetOf(words, i)
      /\ i \in 4..Len(words) /\ Len(words) \in Nat
  BY OptionsStep DEF Reads
<1>2. /\ t.cmd.condition = TheOption(words, ConditionsBefore(words, i))
      /\ t.cmd.expiry = TheOption(words, ExpiriesBefore(words, i))
  BY <1>1 DEF SetOf
<1>3. /\ t.cmd.condition = None <=> ConditionsBefore(words, i) = {}
      /\ t.cmd.expiry = None <=> ExpiriesBefore(words, i) = {}
  BY <1>1, <1>2, GroupIsEmpty
<1>4. ASSUME NEW e \in {"UnexpectedType", "UnknownCommand", "WrongArity", "NotAnInteger",
                        "DbIndexOutOfRange", "SyntaxError"},
             r = Err(e), ~LegalAt(words, i) \/ ~Legal(words)
      PROVE  Good
  <2> HIDE DEF r
  <2> QED
    BY <1>1, <1>4, ErrorsFail DEF Legal
<1>5. ASSUME LegalAt(words, i), r = next,
             token \in ConditionWords => ConditionsBefore(words, i) = {},
             token \in ExpiryWords => ExpiriesBefore(words, i) = {}
      PROVE  Good
  <2>1. Reads(words, next)
    BY <1>1, <1>5, TakenReads
  <2>2. After(words, i) > i
    BY <1>1, <1>5, Advance
  <2> HIDE DEF r
  <2> QED
    BY <1>5, <2>1, <2>2
<1>6. CASE token \in {"NX", "XX"}
  <2>1. r = guard_duplicate(t.cmd.condition, with_condition(t, <<token, None>>, 1))
    BY <1>6 DEF set_option, OperandConditions, OperandExpiries
  <2>2. /\ token \in ConditionWords /\ token \notin ExpiryWords /\ token \notin TakesOperand
        /\ TheOption(words, {i}) = <<token, None>>
    BY <1>6, OnlyOption DEF ConditionWords, ExpiryWords, TakesOperand, TakesText, TakesDigest, TakesNumber
  <2>3. LegalAt(words, i)
    BY <2>2 DEF LegalAt
  <2> HIDE DEF r, Good
  <2>4. CASE t.cmd.condition # None
    <3>1. r = Err("SyntaxError")
      BY <2>1, <2>4 DEF guard_duplicate
    <3> QED
      BY <1>1, <1>3, <1>4, <2>2, <2>4, <3>1, SecondIsIllegal
  <2>5. CASE t.cmd.condition = None
    <3>1. r = with_condition(t, <<token, None>>, 1)
      BY <2>1, <2>5 DEF guard_duplicate
    <3>2. next = with_condition(t, TheOption(words, {i}), IF token \in TakesOperand THEN 2 ELSE 1)
      BY <1>3, <2>2, <2>3, <2>5, SetOfAfter
    <3>3. r = next
      BY <2>2, <3>1, <3>2
    <3> QED
      BY <1>3, <1>5, <2>2, <2>3, <2>5, <3>3
  <2> QED
    BY <2>4, <2>5
<1>7. CASE token \in DOMAIN OperandConditions
  <2> DEFINE word == get_next_token(words, i)
             operand == IF token \in {"IFEQ", "IFNE"} THEN word ELSE HexOf[word]
             option == <<OperandConditions[token], operand>>
  <2>1. r = guard_duplicate(t.cmd.condition, operand_condition(words, t))
    BY <1>7 DEF set_option, OperandConditions, OperandExpiries
  <2>2. operand_condition(words, t) =
          IF word = None THEN Err("SyntaxError") ELSE Parsed(operand, with_condition(t, option, 2))
    BY DEF operand_condition
  <2>3. /\ token \in ConditionWords /\ token \notin ExpiryWords /\ token \in TakesOperand
        /\ token \in TakesText \cup TakesDigest
        /\ TheOption(words, {i}) = <<OperandConditions[token], Operand(words, i)>>
    BY <1>7, OnlyOption
       DEF ConditionWords, ExpiryWords, TakesOperand, TakesText, TakesDigest, TakesNumber, OperandConditions
  <2>4. /\ word = None <=> ~(i < Len(words))
        /\ i < Len(words) => word = words[i + 1]
    BY <1>1, NextToken
  <2>5. i < Len(words) => Operand(words, i) = operand
    BY <1>7, <2>4 DEF Operand, TakesText, TakesDigest, TakesNumber, OperandConditions
  <2> HIDE DEF r, Good, word, operand
  <2>6. CASE t.cmd.condition # None
    <3>1. r = Err("SyntaxError")
      BY <2>1, <2>6 DEF guard_duplicate
    <3> QED
      BY <1>1, <1>3, <1>4, <2>3, <2>6, <3>1, SecondIsIllegal
  <2>7. CASE t.cmd.condition = None /\ word = None
    <3>1. r = Err("SyntaxError")
      BY <2>1, <2>2, <2>7 DEF guard_duplicate
    <3>2. ~LegalAt(words, i)
      BY <2>3, <2>4, <2>7 DEF LegalAt
    <3> QED
      BY <1>4, <3>1, <3>2
  <2>8. CASE t.cmd.condition = None /\ word # None /\ operand = None
    <3>1. r = Err("NotAnInteger")
      BY <2>1, <2>2, <2>8 DEF guard_duplicate, Parsed
    <3>2. ~LegalAt(words, i)
      BY <2>3, <2>4, <2>5, <2>8 DEF LegalAt
    <3> QED
      BY <1>4, <3>1, <3>2
  <2>9. CASE t.cmd.condition = None /\ word # None /\ operand # None
    <3>1. r = with_condition(t, option, 2)
      BY <2>1, <2>2, <2>9 DEF guard_duplicate, Parsed
    <3>2. LegalAt(words, i)
      BY <2>3, <2>4, <2>5, <2>9 DEF LegalAt
    <3>3. next = with_condition(t, TheOption(words, {i}), IF token \in TakesOperand THEN 2 ELSE 1)
      BY <1>3, <2>3, <2>9, <3>2, SetOfAfter
    <3>4. TheOption(words, {i}) = option
      BY <2>3, <2>4, <2>5, <2>9
    <3>5. r = next
      BY <2>3, <3>1, <3>3, <3>4
    <3> QED
      BY <1>3, <1>5, <2>3, <2>9, <3>2, <3>5
  <2> QED
    BY <2>6, <2>7, <2>8, <2>9
<1>8. CASE token = "GET"
  <2>1. r = [i |-> i + 1, cmd |-> [t.cmd EXCEPT !.get = TRUE]]
    BY <1>8 DEF set_option, OperandConditions, OperandExpiries
  <2>2. token \notin ConditionWords /\ token \notin ExpiryWords /\ token \notin TakesOperand
    BY <1>8 DEF ConditionWords, ExpiryWords, TakesOperand, TakesText, TakesDigest, TakesNumber
  <2>3. LegalAt(words, i)
    BY <1>8, <2>2 DEF LegalAt
  <2>4. next = [i |-> i + 1, cmd |-> [t.cmd EXCEPT !.get = TRUE]]
    BY <1>8, <2>3, SetOfAfter
  <2>5. r = next
    BY <2>1, <2>4, Zenon
  <2> HIDE DEF r, Good, next
  <2> QED
    BY <1>5, <2>2, <2>3, <2>5
<1>9. CASE token \in DOMAIN OperandExpiries
  <2> DEFINE word == get_next_token(words, i)
             option == <<OperandExpiries[token], U64Of[word]>>
  <2>1. r = guard_duplicate(t.cmd.expiry, operand_expiry(words, t))
    BY <1>9 DEF set_option, OperandConditions, OperandExpiries
  <2>2. operand_expiry(words, t) =
          IF word = None THEN Err("SyntaxError") ELSE Parsed(U64Of[word], with_expiry(t, option, 2))
    BY DEF operand_expiry
  <2>3. /\ token \in ExpiryWords /\ token \notin ConditionWords /\ token \in TakesOperand
        /\ token \in TakesNumber
        /\ TheOption(words, {i}) = <<OperandExpiries[token], Operand(words, i)>>
    BY <1>9, OnlyOption
       DEF ConditionWords, ExpiryWords, TakesOperand, TakesText, TakesDigest, TakesNumber, OperandExpiries
  <2>4. /\ word = None <=> ~(i < Len(words))
        /\ i < Len(words) => word = words[i + 1]
    BY <1>1, NextToken
  <2>5. i < Len(words) => Operand(words, i) = U64Of[word]
    BY <1>9, <2>4 DEF Operand, TakesText, TakesDigest, TakesNumber, OperandExpiries
  <2> HIDE DEF r, Good, word
  <2>6. CASE t.cmd.expiry # None
    <3>1. r = Err("SyntaxError")
      BY <2>1, <2>6 DEF guard_duplicate
    <3> QED
      BY <1>1, <1>3, <1>4, <2>3, <2>6, <3>1, SecondIsIllegal
  <2>7. CASE t.cmd.expiry = None /\ word = None
    <3>1. r = Err("SyntaxError")
      BY <2>1, <2>2, <2>7 DEF guard_duplicate
    <3>2. ~LegalAt(words, i)
      BY <2>3, <2>4, <2>7 DEF LegalAt
    <3> QED
      BY <1>4, <3>1, <3>2
  <2>8. CASE t.cmd.expiry = None /\ word # None /\ U64Of[word] = None
    <3>1. r = Err("NotAnInteger")
      BY <2>1, <2>2, <2>8 DEF guard_duplicate, Parsed
    <3>2. ~LegalAt(words, i)
      BY <2>3, <2>4, <2>5, <2>8 DEF LegalAt
    <3> QED
      BY <1>4, <3>1, <3>2
  <2>9. CASE t.cmd.expiry = None /\ word # None /\ U64Of[word] # None
    <3>1. r = with_expiry(t, option, 2)
      BY <2>1, <2>2, <2>9 DEF guard_duplicate, Parsed
    <3>2. LegalAt(words, i)
      BY <2>3, <2>4, <2>5, <2>9 DEF LegalAt
    <3>3. next = with_expiry(t, TheOption(words, {i}), IF token \in TakesOperand THEN 2 ELSE 1)
      BY <1>3, <2>3, <2>9, <3>2, SetOfAfter
    <3>4. TheOption(words, {i}) = option
      BY <2>3, <2>4, <2>5, <2>9
    <3>5. r = next
      BY <2>3, <3>1, <3>3, <3>4
    <3> QED
      BY <1>3, <1>5, <2>3, <2>9, <3>2, <3>5
  <2> QED
    BY <2>6, <2>7, <2>8, <2>9
<1>10. CASE token = "KEEPTTL"
  <2>1. r = guard_duplicate(t.cmd.expiry, with_expiry(t, <<"KeepTtl", None>>, 1))
    BY <1>10 DEF set_option, OperandConditions, OperandExpiries
  <2>2. /\ token \in ExpiryWords /\ token \notin ConditionWords /\ token \notin TakesOperand
        /\ TheOption(words, {i}) = <<"KeepTtl", None>>
    BY <1>10, OnlyOption DEF ConditionWords, ExpiryWords, TakesOperand, TakesText, TakesDigest, TakesNumber
  <2>3. LegalAt(words, i)
    BY <2>2 DEF LegalAt
  <2> HIDE DEF r, Good
  <2>4. CASE t.cmd.expiry # None
    <3>1. r = Err("SyntaxError")
      BY <2>1, <2>4 DEF guard_duplicate
    <3> QED
      BY <1>1, <1>3, <1>4, <2>2, <2>4, <3>1, SecondIsIllegal
  <2>5. CASE t.cmd.expiry = None
    <3>1. r = with_expiry(t, <<"KeepTtl", None>>, 1)
      BY <2>1, <2>5 DEF guard_duplicate
    <3>2. next = with_expiry(t, TheOption(words, {i}), IF token \in TakesOperand THEN 2 ELSE 1)
      BY <1>3, <2>2, <2>3, <2>5, SetOfAfter
    <3>3. r = next
      BY <2>2, <3>1, <3>2
    <3> QED
      BY <1>3, <1>5, <2>2, <2>3, <2>5, <3>3
  <2> QED
    BY <2>4, <2>5
<1>11. CASE /\ token \notin {"NX", "XX", "GET", "KEEPTTL"}
            /\ token \notin DOMAIN OperandConditions /\ token \notin DOMAIN OperandExpiries
  <2>1. r = Err("SyntaxError")
    BY <1>11 DEF set_option
  <2>2. ~LegalAt(words, i)
    BY <1>11 DEF LegalAt, ConditionWords, ExpiryWords, TakesText, TakesDigest, TakesNumber,
                 OperandConditions, OperandExpiries
  <2> HIDE DEF r, Good
  <2> QED
    BY <1>4, <2>1, <2>2
<1> HIDE DEF Good
<1> QED
  BY <1>6, <1>7, <1>8, <1>9, <1>10, <1>11

(* What the invariant says is no error. *)
LEMMA ReadsIsNoError ==
  ASSUME NEW words, NEW t, Reads(words, t)
  PROVE  ~Failed(t)
BY DEF Reads, Failed

(* After n turns the loop has failed, has come to the end or has read n    *)
(* options.                                                                *)
Progress(words, t, n) ==
    \/ Failed(t) /\ ~Legal(words)
    \/ Reads(words, t) /\ (t.i > Len(words) \/ t.i >= 4 + n)

(* The start of the loop. *)
LEMMA StartReads ==
  ASSUME NEW words \in Seq(Strings), Len(words) >= 3
  PROVE  Progress(words, SetStart(words), 0)
<1> DEFINE t == SetStart(words)
<1>1. OptionPositions(words) \subseteq 4..Len(words) /\ Len(words) \in Nat
      /\ (Len(words) >= 4 => 4 \in OptionPositions(words))
  BY OptionsStep
<1>2. OptionsBefore(words, 4) = {}
  BY <1>1 DEF OptionsBefore
<1>3. ConditionsBefore(words, 4) = {} /\ ExpiriesBefore(words, 4) = {}
  BY <1>2 DEF ConditionsBefore, ExpiriesBefore
<1>4. GetBefore(words, 4) = FALSE
  BY <1>2 DEF GetBefore
<1>5. TheOption(words, {}) = None
  BY DEF TheOption
<1>6. SetOf(words, 4) = [op |-> "Set", key |-> words[2], value |-> words[3],
                         condition |-> None, expiry |-> None, get |-> FALSE]
  BY <1>3, <1>4, <1>5, Zenon DEF SetOf
<1>7. t = [i |-> 4, cmd |-> SetOf(words, 4)]
  BY <1>6, Zenon DEF SetStart
<1>8. LegalBefore(words, 4)
  BY <1>2, <1>3 DEF LegalBefore, AtMostOne
<1> HIDE DEF t
<1>9. t.i = 4
  BY <1>7
<1>10. Reads(words, t)
  BY <1>1, <1>7, <1>8, <1>9 DEF Reads
<1> QED
  BY <1>9, <1>10 DEF Progress, t

(* The whole loop. *)
LEMMA LoopReads ==
  ASSUME NEW words \in Seq(Strings), Len(words) >= 3
  PROVE  Progress(words, Loop(words)[Len(words)], Len(words))
<1> DEFINE h == Loop(words)
           N == Len(words)
           S == {n \in Nat : n <= N => Progress(words, h[n], n)}
<1>1. N \in Nat
  OBVIOUS
<1>2. 0 \in S
  BY LoopTurns, StartReads
<1>3. ASSUME NEW n \in S PROVE n + 1 \in S
  <2> SUFFICES ASSUME n + 1 <= N PROVE Progress(words, h[n + 1], n + 1)
    OBVIOUS
  <2>1. n \in Nat /\ n + 1 \in 1..N /\ (n + 1) - 1 = n /\ Progress(words, h[n], n)
    BY <1>1
  <2> DEFINE t == h[n]
             r == h[n + 1]
  <2>2. r = Turned(words, t)
    BY <2>1, LoopTurns
  <2>3. Progress(words, t, n)
    BY <2>1
  <2> HIDE DEF h, t, r
  <2>4. Progress(words, r, n + 1)
    <3>4. CASE Failed(t) /\ ~Legal(words)
      BY <2>2, <3>4 DEF Turned, Progress
    <3>5. CASE Reads(words, t) /\ t.i > N
      BY <2>2, <3>5, ReadsIsNoError DEF Turned, Progress
    <3>6. CASE Reads(words, t) /\ ~(t.i > N) /\ t.i >= 4 + n
      <4>1. t.i \in Nat /\ t.i <= Len(words)
        BY <1>1, <3>6 DEF Reads
      <4>2. r = set_option(words, t)
        BY <2>2, <3>6, ReadsIsNoError DEF Turned
      <4>3. (Failed(r) /\ ~Legal(words)) \/ (Reads(words, r) /\ r.i > t.i)
        BY <3>6, <4>1, <4>2, TurnReads
      <4>4. Reads(words, r) => r.i \in Nat
        BY <1>1 DEF Reads
      <4> QED
        BY <2>1, <3>6, <4>1, <4>3, <4>4 DEF Progress
    <3> QED
      BY <2>3, <3>4, <3>5, <3>6 DEF Progress
  <2> QED
    BY <2>4 DEF r
<1> HIDE DEF S
<1>4. S = Nat
  <2>1. S \in SUBSET Nat
    BY DEF S
  <2> QED
    BY <1>2, <1>3, <2>1, NumbersByInduction
<1> QED
  BY <1>1, <1>4 DEF S

(* parse_set_command accepts exactly the legal words, and makes of them    *)
(* what their options say.                                                 *)
LEMMA SetParsed ==
  ASSUME NEW words \in Seq(Strings), Len(words) >= 3
  PROVE  LET r == parse_set_command(words)
         IN  IF Legal(words)
             THEN r = [op |-> "Set", key |-> words[2], value |-> words[3],
                       condition |-> TheOption(words, Conditions(words)),
                       expiry |-> TheOption(words, Expiries(words)),
                       get |-> \E i \in OptionPositions(words) : words[i] = "GET"]
             ELSE Failed(r)
<1> DEFINE t == Loop(words)[Len(words)]
           N == Len(words)
           r == parse_set_command(words)
<1>1. Progress(words, t, N) /\ N \in Nat
  BY LoopReads
<1>2. r = IF Failed(t) THEN t ELSE t.cmd
  BY LoopTurns
<1> HIDE DEF t, r
<1>3. CASE Failed(t) /\ ~Legal(words)
  BY <1>2, <1>3 DEF r
<1>4. CASE Reads(words, t)
  <2>1. t.i = N + 1
    BY <1>1, <1>4, ReadsIsNoError DEF Reads, Progress
  <2>2. LegalBefore(words, N + 1) /\ t.cmd = SetOf(words, N + 1)
    BY <1>4, <2>1 DEF Reads
  <2>3. OptionsBefore(words, N + 1) = OptionPositions(words)
    <3>1. OptionPositions(words) \subseteq 4..N
      BY OptionsStep
    <3> QED
      BY <1>1, <3>1 DEF OptionsBefore
  <2>4. ConditionsBefore(words, N + 1) = Conditions(words) /\ ExpiriesBefore(words, N + 1) = Expiries(words)
    BY <2>3 DEF ConditionsBefore, ExpiriesBefore, Conditions, Expiries
  <2>5. GetBefore(words, N + 1) = (\E i \in OptionPositions(words) : words[i] = "GET")
    BY <2>3, Zenon DEF GetBefore
  <2>6. Legal(words)
    BY <2>2, <2>3, <2>4 DEF LegalBefore, Legal
  <2>7. r = SetOf(words, N + 1)
    BY <1>2, <1>4, <2>2, ReadsIsNoError
  <2> QED
    BY <2>4, <2>5, <2>6, <2>7, Zenon DEF SetOf, r
<1> QED
  BY <1>1, <1>3, <1>4 DEF Progress

(* Two of a finite set are no more than one. *)
LEMMA OneOrNone ==
  ASSUME NEW P, IsFiniteSet(P)
  PROVE  Cardinality(P) <= 1 <=> AtMostOne(P)
<1>0. Cardinality(P) \in Nat
  BY FS_CardinalityType
<1>1. ASSUME AtMostOne(P) PROVE Cardinality(P) <= 1
  <2>1. CASE P = {}
    BY <2>1, FS_EmptySet
  <2>2. CASE P # {}
    <3>1. PICK x : x \in P
      BY <2>2
    <3>2. P = {x}
      BY <1>1, <3>1 DEF AtMostOne
    <3> QED
      BY <3>2, FS_Singleton
  <2> QED
    BY <2>1, <2>2
<1>2. ASSUME Cardinality(P) <= 1, NEW x \in P, NEW y \in P, x # y PROVE FALSE
  <2>1. IsFiniteSet({x}) /\ Cardinality({x}) = 1
    BY FS_Singleton
  <2>2. IsFiniteSet({x} \cup {y}) /\ Cardinality({x} \cup {y}) = 2
    <3>1. y \notin {x}
      BY <1>2
    <3> QED
      BY <2>1, <3>1, FS_AddElement
  <2>3. Cardinality({x} \cup {y}) <= Cardinality(P)
    <3>1. {x} \cup {y} \in SUBSET P
      BY <1>2
    <3> QED
      BY <3>1, FS_Subset
  <2> QED
    BY <1>0, <1>2, <2>2, <2>3
<1> QED
  BY <1>1, <1>2 DEF AtMostOne

(* An array of bulk strings reaches the parsers as its words. *)
LEMMA FromRequest ==
  ASSUME NEW words \in Seq(Strings)
  PROVE  from_resp2(Request(words)) = IF words = <<>> THEN Panicked ELSE parse(words)
<1> DEFINE args == [i \in DOMAIN words |-> BulkString(words[i])]
           value == Request(words)
<1>1. value[1] = "Array" /\ value[2] = args
  BY DEF Request, Array
<1>2. DOMAIN words = 1..Len(words) /\ Len(words) \in Nat /\ \A i \in DOMAIN words : words[i] \in Strings
  OBVIOUS
<1>3. \A i \in DOMAIN args : args[i][1] = "BulkString" /\ args[i][2] = words[i] /\ args[i][2] # None
  BY <1>2, ParserAssumption DEF BulkString
<1>4. args = <<>> <=> words = <<>>
  BY <1>2
<1>5. [i \in DOMAIN args |-> args[i][2]] = words
  BY <1>2, <1>3
<1>6. args # None
  <2>1. args \in [1..Len(words) -> {"BulkString"} \X Strings]
    BY <1>2 DEF BulkString
  <2> HIDE DEF args
  <2>2. args \in Seq({"BulkString"} \X Strings)
    BY <1>2, <2>1
  <2> QED
    BY <2>2, ParserAssumption
<1> QED
  BY <1>1, <1>3, <1>4, <1>5, <1>6 DEF from_resp2

(* SET is answered as well. *)
LEMMA SetAnswered ==
  ASSUME NEW words \in Seq(Strings), words # <<>>, words[1] = "SET"
  PROVE  LET r == parse(words)
         IN  (r \in HandlerError /\ Failed(r)) \/ (r \in Command /\ ~Failed(r))
<1> DEFINE r == parse(words)
<1>1. r = parse_set_command(words)
  BY DEF parse, KeyCommands, KeysCommands, ElementsCommands, PopCommands, ExpireCommands
<1>2. Len(words) \in Nat
  OBVIOUS
<1> HIDE DEF r
<1>3. CASE ~(Len(words) >= 3)
  <2>1. r = Err("WrongArity")
    BY <1>1, <1>3 DEF parse_set_command, check_min_arity
  <2> QED
    BY <2>1, ErrorsFail DEF r
<1>4. CASE Len(words) >= 3
  <2> DEFINE t == Loop(words)[Len(words)]
  <2>1. t \in Turns
    BY <1>2, <1>4, LoopTurns
  <2>2. r = IF Failed(t) THEN t ELSE t.cmd
    BY <1>1, <1>4, LoopTurns
  <2> HIDE DEF t
  <2>3. CASE Failed(t)
    BY <2>1, <2>2, <2>3, TurnFails DEF r
  <2>4. CASE ~Failed(t)
    <3>1. r \in SetCommand
      BY <2>1, <2>2, <2>4, TurnFails DEF Turns, SetLoop
    <3>2. ~Failed(r)
      BY <3>1 DEF SetCommand, Failed
    <3> QED
      BY <3>1, <3>2 DEF Command, r
  <2> QED
    BY <2>3, <2>4
<1> QED
  BY <1>3, <1>4

(* Every request, whatever its words and however many, is answered: by a   *)
(* command the executor can take, exactly when it has the shape of one, by *)
(* an error otherwise; from_resp2 and its 18 parsers panic on nothing but  *)
(* the empty array.                                                        *)
THEOREM EveryRequestIsAnswered == \A words \in Seq(Strings) : RequestIsAnswered(words)
<1> SUFFICES ASSUME NEW words \in Seq(Strings) PROVE RequestIsAnswered(words)
  OBVIOUS
<1> DEFINE r == from_resp2(Request(words))
<1>1. CASE words = <<>>
  <2>1. r = Panicked
    BY <1>1, FromRequest
  <2> QED
    BY <1>1, <2>1 DEF RequestIsAnswered
<1>2. CASE words # <<>> /\ words[1] = "SET"
  <2>1. r = parse(words)
    BY <1>2, FromRequest
  <2>2. (r \in HandlerError /\ Failed(r)) \/ (r \in Command /\ ~Failed(r))
    BY <1>2, <2>1, SetAnswered
  <2> QED
    BY <1>2, <2>2 DEF RequestIsAnswered
<1>3. CASE words # <<>> /\ words[1] # "SET"
  <2>1. r = parse(words)
    BY <1>3, FromRequest
  <2>2. Answered(words, r)
    BY <1>3, <2>1, ParseAnswered
  <2> QED
    BY <1>3, <2>2 DEF RequestIsAnswered, Answered, Refused, Understood
<1> QED
  BY <1>1, <1>2, <1>3

(* SET accepts exactly the sequences of options its grammar allows, of any *)
(* length and in any order, and the command has what they say.             *)
THEOREM EverySetIsGrammatical ==
  \A words \in Seq(Strings) :
     Len(words) >= 3 /\ words[1] = "SET" => SetIsGrammatical(words)
<1> SUFFICES ASSUME NEW words \in Seq(Strings), Len(words) >= 3, words[1] = "SET"
             PROVE  SetIsGrammatical(words)
  OBVIOUS
<1> DEFINE r == from_resp2(Request(words))
<1>1. words # <<>> /\ Len(words) \in Nat
  OBVIOUS
<1>2. r = parse_set_command(words)
  <2>1. parse(words) = parse_set_command(words)
    BY DEF parse, KeyCommands, KeysCommands, ElementsCommands, PopCommands, ExpireCommands
  <2> QED
    BY <1>1, <2>1, FromRequest
<1>3. IsFiniteSet(Conditions(words)) /\ IsFiniteSet(Expiries(words))
  <2>1. IsFiniteSet(4..Len(words))
    BY <1>1, FS_Interval
  <2>2. Conditions(words) \in SUBSET (4..Len(words)) /\ Expiries(words) \in SUBSET (4..Len(words))
    BY OptionsStep DEF Conditions, Expiries
  <2> QED
    BY <2>1, <2>2, FS_Subset
<1>4. Legal(words) <=>
        /\ \A i \in OptionPositions(words) :
              /\ words[i] \in ConditionWords \cup ExpiryWords \cup {"GET"}
              /\ words[i] \in TakesOperand => i < Len(words) /\ Operand(words, i) # None
        /\ Cardinality(Conditions(words)) <= 1 /\ Cardinality(Expiries(words)) <= 1
  BY <1>3, OneOrNone DEF Legal, LegalAt
<1>5. IF Legal(words)
      THEN r = [op |-> "Set", key |-> words[2], value |-> words[3],
                condition |-> TheOption(words, Conditions(words)),
                expiry |-> TheOption(words, Expiries(words)),
                get |-> \E i \in OptionPositions(words) : words[i] = "GET"]
      ELSE Failed(r)
  BY <1>2, SetParsed, Zenon
<1> HIDE DEF r
<1>6. CASE Legal(words)
  BY <1>4, <1>5, <1>6, Zenon DEF SetIsGrammatical, Conditions, Expiries, r
<1>7. CASE ~Legal(words)
  BY <1>4, <1>5, <1>7, Zenon DEF SetIsGrammatical, Conditions, Expiries, r
<1> QED
  BY <1>6, <1>7

-----------------------------------------------------------------------------
(***************************************************************************)
(* Settings.                                                               *)
(***************************************************************************)
Source(f, T) == \E D \in SUBSET SettingNames : f \in [D -> T]

(* The text a setting is given, and what load_config makes of it. *)
Text(file, env, n) == IF n \in DOMAIN env THEN env[n] ELSE file[n]

Effective(file, env, n) ==
    IF n \in DOMAIN env \cup DOMAIN file THEN Meaning(n, Text(file, env, n))
    ELSE IF n = "lazyfree-lazy-user-flush" THEN None
    ELSE DefaultConfig[Field(n)]

(* The strongest source that has a text for the setting gives it. *)
LEMMA StrongestText ==
  ASSUME NEW T, None \notin T, NEW file, NEW env, Source(file, T), Source(env, T), NEW n \in SettingNames
  PROVE  LET text == config_get(build(file, env), n)
         IN  /\ n \in DOMAIN env \cup DOMAIN file => text = Text(file, env, n) /\ text # None
             /\ n \notin DOMAIN env \cup DOMAIN file =>
                   text = IF n \in DOMAIN DEFAULTS THEN DEFAULTS[n] ELSE None
<1>1. /\ \A m \in DOMAIN file : file[m] \in T
      /\ \A m \in DOMAIN env : env[m] \in T
  BY DEF Source
<1> DEFINE base == Over(file, DEFAULTS)
           config == Over(env, base)
<1>2. /\ DOMAIN base = DOMAIN file \cup DOMAIN DEFAULTS
      /\ \A m \in DOMAIN base : base[m] = IF m \in DOMAIN file THEN file[m] ELSE DEFAULTS[m]
  BY DEF Over
<1>3. /\ DOMAIN config = DOMAIN env \cup DOMAIN base
      /\ \A m \in DOMAIN config : config[m] = IF m \in DOMAIN env THEN env[m] ELSE base[m]
  BY DEF Over
<1>4. build(file, env) = config
  BY DEF build
<1> HIDE DEF base, config
<1>5. config_get(config, n) = IF n \in DOMAIN config THEN config[n] ELSE None
  BY DEF config_get
<1>6. CASE n \in DOMAIN env
  BY <1>1, <1>3, <1>4, <1>5, <1>6 DEF Text
<1>7. CASE n \notin DOMAIN env /\ n \in DOMAIN file
  BY <1>1, <1>2, <1>3, <1>4, <1>5, <1>7 DEF Text
<1>8. CASE n \notin DOMAIN env /\ n \notin DOMAIN file
  BY <1>2, <1>3, <1>4, <1>5, <1>8
<1> QED
  BY <1>6, <1>7, <1>8

(* The fields of the configuration before any error is looked for. *)
Loaded(config) ==
    [max_connections |-> NumberOf[config_get(config, "max_connections")],
     hz |-> NumberOf[config_get(config, "hz")],
     appendonly |-> get_bool(config, "appendonly"),
     appendfilename |-> config_get(config, "appendfilename"),
     appenddirname |-> config_get(config, "appenddirname"),
     appendfsync |-> map_config_to_appendfsync_mode(config),
     lazyfree_lazy_user_flush |-> get_bool(config, "lazyfree-lazy-user-flush")]

(* What a text means to the two converters of config.rs. *)
LEMMA Converters ==
  ASSUME NEW text
  PROVE  /\ \A n \in {"appendonly", "lazyfree-lazy-user-flush"} : yes_no_from_str(text) = Meaning(n, text)
         /\ appendfsync_from_str(text) = Meaning("appendfsync", text)
<1>1. CASE text = "yes"
  BY <1>1 DEF yes_no_from_str, appendfsync_from_str, Meaning
<1>2. CASE text = "no"
  BY <1>2 DEF yes_no_from_str, appendfsync_from_str, Meaning
<1>3. CASE text \in {"always", "everysec"}
  <2>1. \A n \in {"appendonly", "lazyfree-lazy-user-flush"} : yes_no_from_str(text) = Meaning(n, text)
    BY <1>3 DEF yes_no_from_str, Meaning
  <2>2. CASE text = "always"
    BY <2>1, <2>2 DEF appendfsync_from_str, Meaning
  <2>3. CASE text = "everysec"
    BY <2>1, <2>3 DEF appendfsync_from_str, Meaning
  <2> QED
    BY <1>3, <2>2, <2>3
<1>4. CASE text \notin {"yes", "no", "always", "everysec"}
  BY <1>4 DEF yes_no_from_str, appendfsync_from_str, Meaning
<1> QED
  BY <1>1, <1>2, <1>3, <1>4

(* Every field is the meaning of the text that the strongest source gives, *)
(* or the default's; but for the setting without a default.                *)
LEMMA LoadedFields ==
  ASSUME NEW T, None \notin T, NEW file, NEW env, Source(file, T), Source(env, T), NEW n \in SettingNames
  PROVE  Loaded(build(file, env))[Field(n)] = Effective(file, env, n)
<1> DEFINE config == build(file, env)
           given == DOMAIN env \cup DOMAIN file
           text(m) == config_get(config, m)
<1>1. /\ n \in given => text(n) = Text(file, env, n) /\ text(n) # None
      /\ n \notin given => text(n) = IF n \in DOMAIN DEFAULTS THEN DEFAULTS[n] ELSE None
  BY StrongestText
<1> HIDE DEF config, given
<1>2. CASE n \in {"max_connections", "hz"}
  <2>1. Loaded(config)[Field(n)] = NumberOf[text(n)]
    BY <1>2 DEF Loaded, Field
  <2>2. n \notin given => DefaultConfig[Field(n)] = NumberOf[text(n)]
    BY <1>1, <1>2 DEF DefaultConfig, default_val, DEFAULTS, Field
  <2>3. \A x : Meaning(n, x) = NumberOf[x]
    BY <1>2 DEF Meaning
  <2> QED
    BY <1>1, <1>2, <2>1, <2>2, <2>3 DEF Effective, given, config
<1>3. CASE n \in {"appendfilename", "appenddirname"}
  <2>1. Loaded(config)[Field(n)] = text(n)
    BY <1>3 DEF Loaded, Field
  <2>2. n \notin given => DefaultConfig[Field(n)] = text(n)
    BY <1>1, <1>3 DEF DefaultConfig, default_val, DEFAULTS, Field
  <2>3. \A x : Meaning(n, x) = x
    BY <1>3 DEF Meaning
  <2> QED
    BY <1>1, <1>3, <2>1, <2>2, <2>3 DEF Effective, given, config
<1>4. CASE n = "appendonly"
  <2>1. Loaded(config)[Field(n)] = get_bool(config, n)
    BY <1>4 DEF Loaded, Field
  <2>2. text(n) # None => get_bool(config, n) = Meaning(n, text(n))
    BY <1>4, Converters DEF get_bool
  <2>3. n \notin given => get_bool(config, n) = DefaultConfig[Field(n)]
    <3>1. n \notin given => text(n) = "no" /\ text(n) # None
      BY <1>1, <1>4, ConfigAssumption DEF DEFAULTS
    <3>2. n \notin given => get_bool(config, n) = yes_no_from_str("no")
      BY <3>1 DEF get_bool
    <3>3. DefaultConfig[Field(n)] = yes_no_from_str("no")
      BY <1>4 DEF DefaultConfig, default_val, DEFAULTS, Field
    <3> QED
      BY <3>2, <3>3
  <2> QED
    BY <1>1, <1>4, <2>1, <2>2, <2>3 DEF Effective, given, config
<1>5. CASE n = "appendfsync"
  <2>1. Loaded(config)[Field(n)] = map_config_to_appendfsync_mode(config)
    BY <1>5 DEF Loaded, Field
  <2>2. text(n) # None => map_config_to_appendfsync_mode(config) = Meaning(n, text(n))
    BY <1>5, Converters DEF map_config_to_appendfsync_mode
  <2>3. n \notin given => map_config_to_appendfsync_mode(config) = DefaultConfig[Field(n)]
    <3>1. n \notin given => text(n) = "everysec" /\ text(n) # None
      BY <1>1, <1>5, ConfigAssumption DEF DEFAULTS
    <3>2. n \notin given => map_config_to_appendfsync_mode(config) = appendfsync_from_str("everysec")
      BY <1>5, <3>1 DEF map_config_to_appendfsync_mode
    <3>3. DefaultConfig[Field(n)] = appendfsync_from_str("everysec")
      BY <1>5 DEF DefaultConfig, default_val, DEFAULTS, Field
    <3> QED
      BY <3>2, <3>3
  <2> QED
    BY <1>1, <1>5, <2>1, <2>2, <2>3 DEF Effective, given, config
<1>6. CASE n = "lazyfree-lazy-user-flush"
  <2>1. Loaded(config)[Field(n)] = get_bool(config, n)
    BY <1>6 DEF Loaded, Field
  <2>2. text(n) # None => get_bool(config, n) = Meaning(n, text(n))
    BY <1>6, Converters DEF get_bool
  <2>3. n \notin given => get_bool(config, n) = None
    BY <1>1, <1>6 DEF get_bool, DEFAULTS
  <2> QED
    BY <1>1, <1>6, <2>1, <2>2, <2>3 DEF Effective, given, config
<1> QED
  BY <1>2, <1>3, <1>4, <1>5, <1>6 DEF SettingNames

(* The defaults are no errors. *)
LEMMA DefaultsMean ==
  ASSUME NEW n \in SettingNames
  PROVE  DefaultConfig[Field(n)] # None
<1>1. CASE n \in {"max_connections", "hz"}
  BY <1>1, ConfigAssumption DEF DefaultConfig, default_val, DEFAULTS, Field
<1>2. CASE n \in {"appendfilename", "appenddirname"}
  BY <1>2, ConfigAssumption DEF DefaultConfig, default_val, DEFAULTS, Field
<1>3. CASE n = "appendfsync"
  BY <1>3, ConfigAssumption DEF DefaultConfig, default_val, DEFAULTS, Field, appendfsync_from_str
<1>4. CASE n \in {"appendonly", "lazyfree-lazy-user-flush"}
  <2>1. DefaultConfig[Field(n)] = yes_no_from_str("no")
    BY <1>4 DEF DefaultConfig, default_val, DEFAULTS, Field
  <2>2. yes_no_from_str("no") = FALSE
    BY DEF yes_no_from_str
  <2>3. FALSE # None
    BY ConfigAssumption
  <2> QED
    BY <2>1, <2>2, <2>3, Zenon
<1> QED
  BY <1>1, <1>2, <1>3, <1>4 DEF SettingNames

(* Whatever a file and the environment give, setting by setting the        *)
(* environment has the last word, the file the word before and the         *)
(* defaults the first; a text without meaning stops the server, and where  *)
(* lazyfree-lazy-user-flush is given nothing else does.                    *)
THEOREM EverySettingTakesPrecedence ==
  ASSUME NEW T, None \notin T, NEW file, NEW env, Source(file, T), Source(env, T)
  PROVE  TakesPrecedence(file, env)
<1> DEFINE text(n) == IF n \in DOMAIN env THEN env[n] ELSE file[n]
           given == DOMAIN env \cup DOMAIN file
           config == startup_config(TRUE, TRUE, file, env)
           loaded == Loaded(build(file, env))
           lazy == "lazyfree-lazy-user-flush"
<1>1. config = IF \E f \in DOMAIN loaded : loaded[f] = None THEN None ELSE loaded
  BY DEF startup_config, load_config, Loaded
<1>2. DOMAIN loaded = {Field(n) : n \in SettingNames}
  BY DEF Loaded, Field, SettingNames
<1>3. \A n \in SettingNames : loaded[Field(n)] = Effective(file, env, n)
  BY LoadedFields
<1>4. given \subseteq SettingNames
  BY DEF Source
<1> HIDE DEF config, loaded
<1>5. \A n \in SettingNames :
         Effective(file, env, n) = IF n \in given THEN Meaning(n, text(n))
                                   ELSE IF n = lazy THEN None ELSE DefaultConfig[Field(n)]
  BY DEF Effective, Text
<1> HIDE DEF given, text
<1>6. (\E f \in DOMAIN loaded : loaded[f] = None) <=>
         (\E n \in given : Meaning(n, text(n)) = None) \/ lazy \notin given
  <2>1. lazy \in SettingNames
    BY DEF SettingNames
  <2>2. (\E f \in DOMAIN loaded : loaded[f] = None) <=> \E n \in SettingNames : Effective(file, env, n) = None
    BY <1>2, <1>3
  <2> QED
    BY <1>4, <1>5, <2>1, <2>2, DefaultsMean
<1>7. CASE \E n \in given : Meaning(n, text(n)) = None
  <2>1. config = None
    BY <1>1, <1>6, <1>7
  <2> QED
    BY <1>7, <2>1 DEF TakesPrecedence, given, text, config
<1>8. CASE ~(\E n \in given : Meaning(n, text(n)) = None) /\ lazy \notin given
  <2>1. config = None
    BY <1>1, <1>6, <1>8
  <2> QED
    BY <1>8, <2>1 DEF TakesPrecedence, given, text, config
<1>9. CASE ~(\E n \in given : Meaning(n, text(n)) = None) /\ lazy \in given
  <2>1. config = loaded
    BY <1>1, <1>6, <1>9
  <2>2. \A n \in SettingNames : config[Field(n)] = IF n \in given THEN Meaning(n, text(n))
                                                   ELSE DefaultConfig[Field(n)]
    BY <1>3, <1>5, <1>9, <2>1
  <2> QED
    BY <1>9, <2>2 DEF TakesPrecedence, given, text, config
<1> QED
  BY <1>7, <1>8, <1>9

-----------------------------------------------------------------------------
(***************************************************************************)
(* The properties of the specification.  A request is made of strings, and *)
(* there are no more settings than SettingTexts names.                     *)
(***************************************************************************)
WellFormed(given) ==
    /\ given = [kind |-> given.kind, body |-> given.body]
    /\ given.kind = "request" => given.body \in Seq(Strings)
    /\ given.kind = "settings" =>
          \E T : given.body \in Seq(T) /\ Len(given.body) <= Len(SettingTexts)

(* The first input, and the one after a restart. *)
LEMMA StartWellFormed ==
  ASSUME NEW given \in {Start(kind) : kind \in Kinds}
  PROVE  WellFormed(given)
<1>1. PICK kind \in Kinds : given = [kind |-> kind, body |-> <<>>]
  BY DEF Start
<1>2. given.kind = kind /\ given.body = <<>>
  BY <1>1
<1>3. <<>> \in Seq(Strings) /\ Len(<<>>) <= Len(SettingTexts)
  BY RequestsAssumption
<1> QED
  BY <1>1, <1>2, <1>3 DEF WellFormed

(* The input and what it grows by. *)
LEMMA ExtendWellFormed ==
  ASSUME NEW given, WellFormed(given), NEW e,
         \/ given.kind = "request" /\ e \in Strings
         \/ given.kind = "settings" /\ Len(given.body) < Len(SettingTexts)
  PROVE  WellFormed([given EXCEPT !.body = Append(@, e)])
<1> DEFINE kind == given.kind
           body == given.body
           longer == [kind |-> kind, body |-> Append(body, e)]
<1>1. [given EXCEPT !.body = Append(@, e)] = longer
  BY DEF WellFormed
<1>2. longer.kind = kind /\ longer.body = Append(body, e)
  OBVIOUS
<1> HIDE DEF longer, kind, body
<1>3. longer = [kind |-> longer.kind, body |-> longer.body]
  BY DEF longer
<1>4. CASE kind = "request" /\ e \in Strings
  <2>1. body \in Seq(Strings)
    BY <1>4 DEF WellFormed, kind, body
  <2>2. Append(body, e) \in Seq(Strings)
    BY <1>4, <2>1
  <2> QED
    BY <1>1, <1>2, <1>3, <1>4, <2>2 DEF WellFormed
<1>5. CASE kind = "settings" /\ Len(body) < Len(SettingTexts)
  <2>1. PICK T : body \in Seq(T)
    BY <1>5 DEF WellFormed, kind, body
  <2>2. body \in Seq(T \cup {e})
    BY <2>1
  <2>3. Append(body, e) \in Seq(T \cup {e}) /\ Len(Append(body, e)) <= Len(SettingTexts)
    BY <1>5, <2>2, RequestsAssumption
  <2> QED
    BY <1>1, <1>2, <1>3, <1>5, <2>3 DEF WellFormed
<1> QED
  BY <1>4, <1>5 DEF kind, body

(* Every input of the specification is well formed. *)
LEMMA InputWellFormed == Spec => []WellFormed(input)
<1>1. Init => WellFormed(input)
  BY StartWellFormed DEF Init
<1>2. WellFormed(input) /\ [Next]_input => WellFormed(input)'
  <2> SUFFICES ASSUME WellFormed(input), [Next]_input PROVE WellFormed(input')
    BY DEF WellFormed
  <2>1. CASE AddWord
    <3>1. input.kind = "request" /\ \E w \in Names \cup Arguments \cup Options :
             input' = [input EXCEPT !.body = Append(@, w)]
      BY <2>1 DEF AddWord, AddName, AddArgument, AddOption, Extend
    <3>2. PICK w \in Strings : input' = [input EXCEPT !.body = Append(@, w)]
      BY <3>1, RequestsAssumption
    <3> QED
      BY <3>1, <3>2, ExtendWellFormed
  <2>2. CASE AddToSettings
    <3>1. input.kind = "settings" /\ Len(input.body) < Len(SettingTexts)
      BY <2>2 DEF AddToSettings, AddSetting
    <3>2. PICK e : input' = [input EXCEPT !.body = Append(@, e)]
      BY <2>2 DEF AddToSettings, AddSetting, Extend
    <3> QED
      BY <3>1, <3>2, ExtendWellFormed
  <2>3. CASE Restart
    BY <2>3, StartWellFormed DEF Restart
  <2>4. CASE AddString \/ AddFrameByte \/ AddPatternByte
    <3>1. input.kind \notin {"request", "settings"}
      BY <2>4 DEF AddString, AddFrameByte, AddPatternByte, Extensible
    <3>2. PICK longer : input' = [input EXCEPT !.body = longer]
      BY <2>4 DEF AddString, AddFrameByte, AddPatternByte, Extend
    <3> QED
      BY <3>1, <3>2 DEF WellFormed
  <2>5. CASE UNCHANGED input
    BY <2>5 DEF WellFormed
  <2> QED
    BY <2>1, <2>2, <2>3, <2>4, <2>5 DEF Next
<1> QED
  BY <1>1, <1>2, PTL DEF Spec

(* RequestsAreAnswered is an invariant, for any words of any number. *)
THEOREM RequestsAnswered == Spec => []RequestsAreAnswered
<1>1. WellFormed(input) => RequestsAreAnswered
  BY EveryRequestIsAnswered DEF WellFormed, RequestsAreAnswered
<1> QED
  BY <1>1, InputWellFormed, PTL

(* SetOptionsGrammar is an invariant. *)
THEOREM SetGrammatical == Spec => []SetOptionsGrammar
<1>1. WellFormed(input) => SetOptionsGrammar
  BY EverySetIsGrammatical DEF WellFormed, SetOptionsGrammar
<1> QED
  BY <1>1, InputWellFormed, PTL

(* What the input gives of a source: a function on names of settings. *)
LEMMA GivenIsSource ==
  ASSUME WellFormed(input), input.kind = "settings", NEW source
  PROVE  \E T : None \notin T /\ Source(Given(source), T)
<1> DEFINE body == input.body
           given == {i \in DOMAIN body : body[i][source] # None}
           names == {SettingTexts[i][1] : i \in given}
           index(n) == CHOOSE i \in given : SettingTexts[i][1] = n
           T == {body[i][source] : i \in given}
           file == [n \in names |-> body[index(n)][source]]
<1>1. Given(source) = file
  BY DEF Given
<1>2. PICK U : body \in Seq(U) /\ Len(body) <= Len(SettingTexts)
  BY DEF WellFormed
<1>3. given \subseteq 1..Len(SettingTexts)
  <2>1. DOMAIN body = 1..Len(body) /\ Len(body) \in Nat
    BY <1>2
  <2> QED
    BY <1>2, <2>1, RequestsAssumption
<1> HIDE DEF body, given
<1>4. names \in SUBSET SettingNames
  BY <1>3, RequestsAssumption
<1>5. None \notin T
  BY DEF given
<1>6. ASSUME NEW n \in names PROVE body[index(n)][source] \in T
  <2>1. \E i \in given : SettingTexts[i][1] = n
    OBVIOUS
  <2>2. index(n) \in given
    BY <2>1
  <2> HIDE DEF index
  <2> QED
    BY <2>2
<1> HIDE DEF names, index, T
<1>7. file \in [names -> T]
  BY <1>6
<1> HIDE DEF file
<1>8. Source(file, T)
  BY <1>4, <1>7 DEF Source
<1> QED
  BY <1>1, <1>5, <1>8

(* SettingsTakePrecedence is an invariant. *)
THEOREM SettingsPrecede == Spec => []SettingsTakePrecedence
<1>1. ASSUME WellFormed(input), input.kind = "settings" PROVE TakesPrecedence(Given(1), Given(2))
  <2>1. PICK A : None \notin A /\ Source(Given(1), A)
    BY <1>1, GivenIsSource
  <2>2. PICK B : None \notin B /\ Source(Given(2), B)
    BY <1>1, GivenIsSource
  <2>3. \A f, S : Source(f, S) => \A U : S \subseteq U => Source(f, U)
    BY DEF Source
  <2>4. Source(Given(1), A \cup B) /\ Source(Given(2), A \cup B) /\ None \notin A \cup B
    <3>1. A \subseteq A \cup B /\ B \subseteq A \cup B
      OBVIOUS
    <3> QED
      BY <2>1, <2>2, <2>3, <3>1
  <2> QED
    BY <2>4, EverySettingTakesPrecedence
<1>2. WellFormed(input) => SettingsTakePrecedence
  BY <1>1 DEF SettingsTakePrecedence
<1> QED
  BY <1>2, InputWellFormed, PTL
=============================================================================
