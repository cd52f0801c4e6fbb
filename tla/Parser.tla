------------------------------- MODULE Parser -------------------------------
(***************************************************************************)
(* From the strings of a request to a Command: command/mod.rs,             *)
(* command/string.rs, command/list.rs and command/set.rs.                  *)
(*                                                                         *)
(* A request is a sequence of words, args[1] the name of the command; what *)
(* is not an array of bulk strings is turned away before any word is read. *)
(* A word can be a key, a string or the text of a number, so Keys and      *)
(* Strings are both the set of words here.  A parse function returns a     *)
(* command, an error or, for an index beyond the end, a panic.             *)
(***************************************************************************)
EXTENDS Types

CONSTANTS
    U64Of,    \* str::parse::<u64>, a function from words; None is its error
    I64Of,    \* str::parse::<i64>
    U8Of,     \* str::parse::<u8>
    HexOf,    \* u64::from_str_radix(_, 16)
    Accepts   \* the keys a word accepts as a glob pattern

ASSUME ParserAssumption ==
    /\ Keys = Strings /\ None \notin Strings \cup SetCondition \cup SetExpiry
    /\ None \notin Seq({"BulkString"} \X Strings)
    /\ U64Of \in [Strings -> U64 \cup {None}] /\ I64Of \in [Strings -> Int \cup {None}]
    /\ U8Of \in [Strings -> (0..255) \cup {None}] /\ HexOf \in [Strings -> Digests \cup {None}]
    /\ Accepts \in [Strings -> SUBSET Keys]

(***************************************************************************)
(* The enum HandlerError, and a panic of the task, as failed results.      *)
(***************************************************************************)
Err(e) == [error |-> e]
Panicked == Err("panic")
HandlerError ==
    {Err(e) : e \in {"UnexpectedType", "UnknownCommand", "WrongArity", "NotAnInteger",
                     "DbIndexOutOfRange", "SyntaxError"}}

Failed(r) == "error" \in DOMAIN r

(***************************************************************************)
(* Arity.  args[i] of the code counts from zero: its args[1] is word 2.    *)
(***************************************************************************)
(* Mutant: one word more than the parser reads is asked for less. *)
check_min_arity_loose(args, min_expected) == Len(args) >= min_expected - 1

check_arity(args, expected) == Len(args) = expected
check_min_arity(args, min_expected) == Len(args) >= min_expected

rest_from(args, i) == SubSeq(args, i, Len(args))

(* The command made from the words up to the n-th: a panic if there are fewer. *)
Indexed(args, n, cmd) == IF n <= Len(args) THEN cmd ELSE Panicked

Parsed(n, cmd) == IF n = None THEN Err("NotAnInteger") ELSE cmd

(***************************************************************************)
(* command/mod.rs.                                                         *)
(***************************************************************************)
parse_ping_command(args) ==
    [op |-> "Ping", message |-> IF Len(args) = 1 THEN None ELSE args[2]]

parse_key_command(op, args) ==
    IF ~check_arity(args, 2) THEN Err("WrongArity")
    ELSE IF op = "Keys" THEN [op |-> op, pattern |-> Accepts[args[2]]]
    ELSE [op |-> op, key |-> args[2]]

parse_keys_command(op, args) ==
    IF ~check_min_arity(args, 2) THEN Err("WrongArity")
    ELSE [op |-> op, keys |-> rest_from(args, 2)]

(* SADD and SREM put the members into a HashSet. *)
parse_key_with_elements_command(op, args) ==
    IF ~check_min_arity(args, 3) THEN Err("WrongArity")
    ELSE Indexed(args, 2,
           IF op \in {"SAdd", "SRem"}
           THEN [op |-> op, key |-> args[2], members |-> {args[i] : i \in 3..Len(args)}]
           ELSE [op |-> op, key |-> args[2], elements |-> rest_from(args, 3)])

(* What follows the count is ignored. *)
parse_pop_command(op, args) ==
    IF ~check_min_arity(args, 2) THEN Err("WrongArity")
    ELSE Indexed(args, 2,
           IF Len(args) = 2 THEN [op |-> op, key |-> args[2], count |-> None]
           ELSE Parsed(U64Of[args[3]], [op |-> op, key |-> args[2], count |-> U64Of[args[3]]]))

parse_expire_commands(op, args) ==
    IF ~check_arity(args, 3) THEN Err("WrongArity")
    ELSE Parsed(U64Of[args[3]],
           IF op \in {"Expire", "PExpire"}
           THEN [op |-> op, key |-> args[2], ttl |-> U64Of[args[3]]]
           ELSE [op |-> op, key |-> args[2], deadline |-> U64Of[args[3]]])

parse_select_command(args) ==
    CASE ~check_arity(args, 2) -> Err("WrongArity")
      [] check_arity(args, 2) /\ U8Of[args[2]] # None -> [op |-> "Select", index |-> U8Of[args[2]]]
      [] check_arity(args, 2) /\ U8Of[args[2]] = None ->
            Err(IF I64Of[args[2]] # None THEN "DbIndexOutOfRange" ELSE "NotAnInteger")

parse_dbsize_command(args) == IF check_arity(args, 1) THEN [op |-> "DbSize"] ELSE Err("WrongArity")

parse_flushdb_command(args) ==
    CASE Len(args) > 2 -> Err("WrongArity")
      [] Len(args) = 1 -> [op |-> "FlushDb", mode |-> None]
      [] Len(args) = 2 /\ args[2] = "SYNC" -> [op |-> "FlushDb", mode |-> "Sync"]
      [] Len(args) = 2 /\ args[2] = "ASYNC" -> [op |-> "FlushDb", mode |-> "Async"]
      [] Len(args) = 2 /\ args[2] \notin {"SYNC", "ASYNC"} -> Err("SyntaxError")

(***************************************************************************)
(* command/list.rs and command/set.rs.                                     *)
(***************************************************************************)
parse_lset_command(args) ==
    IF ~check_arity(args, 4) THEN Err("WrongArity")
    ELSE Parsed(I64Of[args[3]],
                [op |-> "LSet", key |-> args[2], index |-> I64Of[args[3]], element |-> args[4]])

parse_lindex_command(args) ==
    IF ~check_arity(args, 3) THEN Err("WrongArity")
    ELSE Parsed(I64Of[args[3]], [op |-> "LIndex", key |-> args[2], index |-> I64Of[args[3]]])

parse_lrange_command(args) ==
    IF ~check_arity(args, 4) THEN Err("WrongArity")
    ELSE Parsed(I64Of[args[3]], Parsed(I64Of[args[4]],
           [op |-> "LRange", key |-> args[2], start |-> I64Of[args[3]], stop |-> I64Of[args[4]]]))

parse_smove_command(args) ==
    IF ~check_arity(args, 4) THEN Err("WrongArity")
    ELSE [op |-> "SMove", source |-> args[2], destination |-> args[3], member |-> args[4]]

parse_sismember_command(args) ==
    IF ~check_arity(args, 3) THEN Err("WrongArity")
    ELSE [op |-> "SIsMember", key |-> args[2], member |-> args[3]]

parse_smismember_command(args) ==
    IF ~check_min_arity(args, 3) THEN Err("WrongArity")
    ELSE Indexed(args, 2, [op |-> "SMIsMember", key |-> args[2], members |-> rest_from(args, 3)])

parse_srandmember_command(args) ==
    IF ~check_min_arity(args, 2) THEN Err("WrongArity")
    ELSE Indexed(args, 2,
           IF Len(args) = 2 THEN [op |-> "SRandMember", key |-> args[2], count |-> None]
           ELSE Parsed(I64Of[args[3]],
                       [op |-> "SRandMember", key |-> args[2], count |-> I64Of[args[3]]]))

(***************************************************************************)
(* command/string.rs.  One turn of the loop over the options of SET takes  *)
(* s, the command so far and the position i of the next word, to the next: *)
(* it reads the word, and the one after it when the option has an operand. *)
(***************************************************************************)
get_next_token(args, i) == IF i < Len(args) THEN args[i + 1] ELSE None

(* Mutant: a second option of the same group replaces the first. *)
guard_nothing(option, result) == result

(* The guard comes before the operand is looked at. *)
guard_duplicate(option, result) == IF option # None THEN Err("SyntaxError") ELSE result

with_condition(s, condition, width) ==
    [i |-> s.i + width, cmd |-> [s.cmd EXCEPT !.condition = condition]]

with_expiry(s, expiry, width) ==
    [i |-> s.i + width, cmd |-> [s.cmd EXCEPT !.expiry = expiry]]

OperandConditions == [IFEQ |-> "IfEq", IFNE |-> "IfNe", IFDEQ |-> "IfDeq", IFDNE |-> "IfDne"]
OperandExpiries == [EX |-> "Ex", PX |-> "Px", EXAT |-> "ExAt", PXAT |-> "PxAt"]

operand_condition(args, s) ==
    LET next == get_next_token(args, s.i)
        operand == IF args[s.i] \in {"IFEQ", "IFNE"} THEN next ELSE HexOf[next]
    IN  IF next = None THEN Err("SyntaxError")
        ELSE Parsed(operand, with_condition(s, <<OperandConditions[args[s.i]], operand>>, 2))

operand_expiry(args, s) ==
    LET next == get_next_token(args, s.i)
    IN  IF next = None THEN Err("SyntaxError")
        ELSE Parsed(U64Of[next], with_expiry(s, <<OperandExpiries[args[s.i]], U64Of[next]>>, 2))

set_option(args, s) ==
    LET token == args[s.i]
        condition == s.cmd.condition
        expiry == s.cmd.expiry
    IN  CASE token \in {"NX", "XX"} -> guard_duplicate(condition, with_condition(s, <<token, None>>, 1))
          [] token \in DOMAIN OperandConditions -> guard_duplicate(condition, operand_condition(args, s))
          [] token = "GET" -> [i |-> s.i + 1, cmd |-> [s.cmd EXCEPT !.get = TRUE]]
          [] token \in DOMAIN OperandExpiries -> guard_duplicate(expiry, operand_expiry(args, s))
          [] token = "KEEPTTL" -> guard_duplicate(expiry, with_expiry(s, <<"KeepTtl", None>>, 1))
          [] OTHER -> Err("SyntaxError")

parse_set_command(args) ==
    LET start == [i |-> 4, cmd |-> [op |-> "Set", key |-> args[2], value |-> args[3],
                                    condition |-> None, expiry |-> None, get |-> FALSE]]
        turn[n \in 0..Len(args)] ==
            IF n = 0 THEN start
            ELSE IF Failed(turn[n - 1]) \/ turn[n - 1].i > Len(args) THEN turn[n - 1]
            ELSE set_option(args, turn[n - 1])
        end == turn[Len(args)]
    IN  IF ~check_min_arity(args, 3) THEN Err("WrongArity")
        ELSE Indexed(args, 3, IF Failed(end) THEN end ELSE end.cmd)

parse_mset_command(args) ==
    IF ~check_min_arity(args, 3) \/ Len(args) % 2 = 0 THEN Err("WrongArity")
    ELSE [op |-> "MSet",
          items |-> [i \in 1..(Len(args) \div 2) |-> <<args[2 * i], args[2 * i + 1]>>]]

(***************************************************************************)
(* Command::from_resp2: the name of the command selects its parser.        *)
(***************************************************************************)
KeyCommands ==
    [GET |-> "Get", GETDEL |-> "GetDel", STRLEN |-> "StrLen", LLEN |-> "LLen",
     SMEMBERS |-> "SMembers", SCARD |-> "SCard", TTL |-> "Ttl", PTTL |-> "PTtl",
     EXPIRETIME |-> "ExpireTime", PEXPIRETIME |-> "PExpireTime", PERSIST |-> "Persist",
     KEYS |-> "Keys", DIGEST |-> "Digest"]
KeysCommands == [DEL |-> "Delete", EXISTS |-> "Exists", MGET |-> "MGet"]
ElementsCommands ==
    [LPUSH |-> "LPush", RPUSH |-> "RPush", LPUSHX |-> "LPushX", RPUSHX |-> "RPushX",
     SADD |-> "SAdd", SREM |-> "SRem"]
PopCommands == [LPOP |-> "LPop", RPOP |-> "RPop", SPOP |-> "SPop"]
ExpireCommands ==
    [EXPIRE |-> "Expire", PEXPIRE |-> "PExpire", EXPIREAT |-> "ExpireAt", PEXPIREAT |-> "PExpireAt"]

parse(args) ==
    LET name == args[1]
    IN  CASE name = "PING" -> parse_ping_command(args)
          [] name = "SET" -> parse_set_command(args)
          [] name = "MSET" -> parse_mset_command(args)
          [] name = "LSET" -> parse_lset_command(args)
          [] name = "LINDEX" -> parse_lindex_command(args)
          [] name = "LRANGE" -> parse_lrange_command(args)
          [] name = "SISMEMBER" -> parse_sismember_command(args)
          [] name = "SMISMEMBER" -> parse_smismember_command(args)
          [] name = "SRANDMEMBER" -> parse_srandmember_command(args)
          [] name = "SMOVE" -> parse_smove_command(args)
          [] name = "SELECT" -> parse_select_command(args)
          [] name = "DBSIZE" -> parse_dbsize_command(args)
          [] name = "FLUSHDB" -> parse_flushdb_command(args)
          [] name \in DOMAIN KeyCommands -> parse_key_command(KeyCommands[name], args)
          [] name \in DOMAIN KeysCommands -> parse_keys_command(KeysCommands[name], args)
          [] name \in DOMAIN ElementsCommands ->
                parse_key_with_elements_command(ElementsCommands[name], args)
          [] name \in DOMAIN PopCommands -> parse_pop_command(PopCommands[name], args)
          [] name \in DOMAIN ExpireCommands -> parse_expire_commands(ExpireCommands[name], args)
          [] OTHER -> Err("UnknownCommand")

(* args[0] of an empty array panics. *)
from_resp2(resp_value) ==
    LET args == resp_value[2]
    IN  IF resp_value[1] # "Array" \/ args = None THEN Err("UnexpectedType")
        ELSE IF \E i \in DOMAIN args : args[i][1] # "BulkString" \/ args[i][2] = None
             THEN Err("UnexpectedType")
        ELSE IF args = <<>> THEN Panicked
        ELSE parse([i \in DOMAIN args |-> args[i][2]])
=============================================================================
