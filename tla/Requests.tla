------------------------------ MODULE Requests ------------------------------
(***************************************************************************)
(* The words and settings the server is given: every request through the   *)
(* parsers of Parser, and every configuration through the loader of        *)
(* Config.                                                                 *)
(*                                                                         *)
(* The properties hold each function against what it is to compute, said   *)
(* in another way; RequestsProofs proves them.                             *)
(***************************************************************************)
EXTENDS Parser, Config, Draft

CONSTANTS
    Names,          \* words that begin a request
    Arguments,      \* words that follow, except in a SET
    Options,        \* words that follow SET key value
    MaxArguments,   \* bound: words of a request after its name
    MaxOptions,     \* bound: words of a SET after its value
    SettingTexts    \* names of settings, the texts a file and the environment may give them

SettingNames ==
    {"max_connections", "hz", "appendonly", "appendfilename", "appenddirname", "appendfsync",
     "lazyfree-lazy-user-flush"}

ASSUME RequestsAssumption ==
    /\ Names \cup Arguments \cup Options \subseteq Strings
    /\ Len(SettingTexts) \in Nat
    /\ \A i \in 1..Len(SettingTexts) : SettingTexts[i][1] \in SettingNames
    /\ \A i, j \in 1..Len(SettingTexts) : SettingTexts[i][1] = SettingTexts[j][1] => i = j

AddName ==
    /\ input.body = <<>>
    /\ \E w \in Names : Extend("request", w)

AddArgument ==
    /\ Len(input.body) \in 1..MaxArguments
    /\ input.body[1] # "SET"
    /\ \E w \in Arguments : Extend("request", w)

AddOption ==
    /\ Len(input.body) \in 1..(2 + MaxOptions)
    /\ input.body[1] = "SET"
    /\ \E w \in Options : (Len(input.body) <= 2 => w = "k") /\ Extend("request", w)

AddSetting ==
    /\ Len(input.body) < Len(SettingTexts)
    /\ LET setting == SettingTexts[Len(input.body) + 1]
       IN  \E in_file \in setting[2] \cup {None}, in_env \in setting[3] \cup {None} :
              Extend("settings", <<in_file, in_env>>)

AddWord == input.kind = "request" /\ (AddName \/ AddArgument \/ AddOption)
AddToSettings == input.kind = "settings" /\ AddSetting

-----------------------------------------------------------------------------
(***************************************************************************)
(* Requests.                                                               *)
(***************************************************************************)
(* The shape of a request: how many words follow its name, and what the    *)
(* words that are numbers must be.  Extra words of PING, the pops and      *)
(* SRANDMEMBER are ignored.                                                *)
Numeric(words, positions, number) ==
    \A i \in positions : i <= Len(words) => number[words[i]] # None

Between(words, least, most) == Len(words) - 1 \in least..most

Shaped(words) ==
    LET name == words[1]
        any == Len(words)
    IN  CASE name = "PING" -> TRUE
          [] name = "DBSIZE" -> Between(words, 0, 0)
          [] name = "FLUSHDB" -> Between(words, 0, 1) /\ (Len(words) = 2 => words[2] \in {"SYNC", "ASYNC"})
          [] name = "SELECT" -> Between(words, 1, 1) /\ Numeric(words, {2}, U8Of)
          [] name \in {"GET", "GETDEL", "STRLEN", "LLEN", "SMEMBERS", "SCARD", "TTL", "PTTL",
                       "EXPIRETIME", "PEXPIRETIME", "PERSIST", "KEYS", "DIGEST"} -> Between(words, 1, 1)
          [] name \in {"DEL", "EXISTS", "MGET"} -> Between(words, 1, any)
          [] name \in {"LPUSH", "RPUSH", "LPUSHX", "RPUSHX", "SADD", "SREM", "SMISMEMBER"} ->
                Between(words, 2, any)
          [] name \in {"LPOP", "RPOP", "SPOP"} -> Between(words, 1, any) /\ Numeric(words, {3}, U64Of)
          [] name = "SRANDMEMBER" -> Between(words, 1, any) /\ Numeric(words, {3}, I64Of)
          [] name \in {"EXPIRE", "PEXPIRE", "EXPIREAT", "PEXPIREAT"} ->
                Between(words, 2, 2) /\ Numeric(words, {3}, U64Of)
          [] name = "MSET" -> Between(words, 2, any) /\ Len(words) % 2 = 1
          [] name = "LINDEX" -> Between(words, 2, 2) /\ Numeric(words, {3}, I64Of)
          [] name = "LSET" -> Between(words, 3, 3) /\ Numeric(words, {3}, I64Of)
          [] name = "LRANGE" -> Between(words, 3, 3) /\ Numeric(words, {3, 4}, I64Of)
          [] name = "SMOVE" -> Between(words, 3, 3)
          [] name = "SISMEMBER" -> Between(words, 2, 2)
          [] OTHER -> FALSE

(* Every request gets an answer: one of the right shape becomes a command  *)
(* with the fields, non-empty lists and ranges the executor relies on, any *)
(* other an error; only the empty array, whose first word from_resp2 takes *)
(* without a look (command/mod.rs:170), panics.  The parsers index into    *)
(* the words freely, each behind an arity check of its own.                *)
RequestIsAnswered(words) ==
    LET r == from_resp2(Request(words))
    IN  CASE words = <<>> -> r = Panicked
          [] words # <<>> /\ Failed(r) -> r \in HandlerError /\ (words[1] # "SET" => ~Shaped(words))
          [] OTHER -> r \in Command /\ (words[1] # "SET" => Shaped(words))

(* The parsers answer the request under construction, as said above. *)
RequestsAreAnswered == input.kind = "request" => RequestIsAnswered(input.body)

(***************************************************************************)
(* The grammar of SET: after the value, a sequence of options in any       *)
(* order, at most one of them a condition and at most one an expiry.  A    *)
(* word is an option unless the word before it is an option with operand.  *)
(***************************************************************************)
TakesText == {"IFEQ", "IFNE"}
TakesDigest == {"IFDEQ", "IFDNE"}
TakesNumber == {"EX", "PX", "EXAT", "PXAT"}
ConditionWords == {"NX", "XX"} \cup TakesText \cup TakesDigest
ExpiryWords == {"KEEPTTL"} \cup TakesNumber
TakesOperand == TakesText \cup TakesDigest \cup TakesNumber

OptionPositions(words) ==
    LET option[i \in 4..Len(words)] == i = 4 \/ ~(option[i - 1] /\ words[i - 1] \in TakesOperand)
    IN  {i \in 4..Len(words) : option[i]}

Operand(words, i) ==
    CASE words[i] \in TakesText -> words[i + 1]
      [] words[i] \in TakesDigest -> HexOf[words[i + 1]]
      [] words[i] \in TakesNumber -> U64Of[words[i + 1]]
      [] OTHER -> None

(* The option at the only position in P, as a tagged pair. *)
TheOption(words, P) ==
    LET spelling == [NX |-> "NX", XX |-> "XX", IFEQ |-> "IfEq", IFNE |-> "IfNe", IFDEQ |-> "IfDeq",
                     IFDNE |-> "IfDne", EX |-> "Ex", PX |-> "Px", EXAT |-> "ExAt", PXAT |-> "PxAt",
                     KEEPTTL |-> "KeepTtl"]
        i == CHOOSE i \in P : TRUE
    IN  IF P = {} THEN None ELSE <<spelling[words[i]], Operand(words, i)>>

(* SET takes its options in any order, rejects two conditions, two         *)
(* expiries, an option without its operand and a number that is none, and  *)
(* never takes an operand for an option or an option for an operand: "SET  *)
(* k v IFEQ NX" compares with the string NX.                               *)
SetIsGrammatical(words) ==
    LET options == OptionPositions(words)
        conditions == {i \in options : words[i] \in ConditionWords}
        expiries == {i \in options : words[i] \in ExpiryWords}
        legal == /\ \A i \in options :
                       /\ words[i] \in ConditionWords \cup ExpiryWords \cup {"GET"}
                       /\ words[i] \in TakesOperand => i < Len(words) /\ Operand(words, i) # None
                 /\ Cardinality(conditions) <= 1 /\ Cardinality(expiries) <= 1
        r == from_resp2(Request(words))
    IN  IF legal
        THEN r = [op |-> "Set", key |-> words[2], value |-> words[3],
                  condition |-> TheOption(words, conditions), expiry |-> TheOption(words, expiries),
                  get |-> \E i \in options : words[i] = "GET"]
        ELSE Failed(r)

(* The loop of parse_set_command accepts the grammar of SET and nothing    *)
(* else.                                                                   *)
SetOptionsGrammar ==
    input.kind = "request" /\ Len(input.body) >= 3 /\ input.body[1] = "SET" =>
        SetIsGrammatical(input.body)

(***************************************************************************)
(* Settings.                                                               *)
(***************************************************************************)
(* The settings of the input by source: 1 is the file, 2 the environment. *)
Given(source) ==
    LET given == {i \in DOMAIN input.body : input.body[i][source] # None}
        names == {SettingTexts[i][1] : i \in given}
        index(n) == CHOOSE i \in given : SettingTexts[i][1] = n
    IN  [n \in names |-> input.body[index(n)][source]]

(* What the text of a setting means; None if nothing. *)
Meaning(name, text) ==
    CASE name \in {"max_connections", "hz"} -> NumberOf[text]
      [] name \in {"appendonly", "lazyfree-lazy-user-flush"} ->
            IF text \in {"yes", "no"} THEN text = "yes" ELSE None
      [] name = "appendfsync" ->
            IF text \in {"always", "everysec", "no"}
            THEN [always |-> "Always", everysec |-> "EverySec", no |-> "No"][text] ELSE None
      [] OTHER -> text

Field(name) == IF name = "lazyfree-lazy-user-flush" THEN "lazyfree_lazy_user_flush" ELSE name

(* The environment overrides the file and the file the defaults, setting   *)
(* by setting: a text without meaning is an error, unless a stronger one   *)
(* replaces it; without an error what the strongest gives is what the      *)
(* server runs with, and what nobody gives is as in ThesaurusConfig's      *)
(* default.  A configuration that gives the one setting whose default does *)
(* not arrive (DefaultsApply) loads.                                       *)
TakesPrecedence(file, env) ==
    LET text(n) == IF n \in DOMAIN env THEN env[n] ELSE file[n]
        given == DOMAIN env \cup DOMAIN file
        config == startup_config(TRUE, TRUE, file, env)
    IN  IF \E n \in given : Meaning(n, text(n)) = None
        THEN config = None
        ELSE config # None \/ "lazyfree-lazy-user-flush" \in given =>
                \A n \in SettingNames :
                   config[Field(n)] = IF n \in given THEN Meaning(n, text(n))
                                      ELSE DefaultConfig[Field(n)]

(* load_config gives the settings under construction that precedence. *)
SettingsTakePrecedence == input.kind = "settings" => TakesPrecedence(Given(1), Given(2))

(* Settings are optional: a configuration all of whose texts have a        *)
(* meaning loads, and what it leaves out has the default README.md:48-54   *)
(* names, that of ThesaurusConfig.  config.rs:94 asks for another spelling *)
(* of lazyfree-lazy-user-flush than config.rs:13 sets a default for: the   *)
(* server does not start without it.                                       *)
DefaultsApply ==
    input.kind = "settings" =>
        LET file == Given(1)
            env == Given(2)
            given == DOMAIN env \cup DOMAIN file
            config == startup_config(TRUE, TRUE, file, env)
        IN  (\A n \in given : Meaning(n, IF n \in DOMAIN env THEN env[n] ELSE file[n]) # None) =>
               /\ config # None
               /\ \A n \in SettingNames \ given : config[Field(n)] = DefaultConfig[Field(n)]
=============================================================================
