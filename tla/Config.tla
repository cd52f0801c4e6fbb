------------------------------- MODULE Config -------------------------------
(***************************************************************************)
(* The configuration of the server: config.rs and the start of main.rs.    *)
(*                                                                         *)
(* A file, and the environment, is a function from the names it sets to    *)
(* the texts it sets them to.  The config crate (external) puts the file   *)
(* over the defaults and the environment over the file, and converts the   *)
(* text of a number.  Which variables are "the environment" (those with    *)
(* the prefix THESAURUS_) is the crate's matter, too: env below is what it *)
(* has selected.                                                           *)
(***************************************************************************)
EXTENDS Types

CONSTANTS NumberOf   \* a function from texts to numbers; None is an error

(* The number the defaults spell is one. *)
ASSUME ConfigAssumption ==
    /\ NumberOf["100"] # None
    /\ None \notin BOOLEAN
    /\ None \notin {"Always", "EverySec", "No", "no", "everysec", "appendonly.aof", "appendonlydir"}

DEFAULTS ==
    [max_connections |-> "100", hz |-> "100", appendonly |-> "no",
     appendfilename |-> "appendonly.aof", appenddirname |-> "appendonlydir",
     appendfsync |-> "everysec", lazyfree_lazy_user_flush |-> "no"]

default_val(name) == DEFAULTS[name]

yes_no_from_str(s) ==
    CASE s = "yes" -> TRUE [] s = "no" -> FALSE [] OTHER -> None

appendfsync_from_str(s) ==
    CASE s = "always" -> "Always" [] s = "everysec" -> "EverySec" [] s = "no" -> "No" [] OTHER -> None

(* ThesaurusConfig::default. *)
DefaultConfig ==
    [max_connections |-> NumberOf[default_val("max_connections")],
     hz |-> NumberOf[default_val("hz")],
     appendonly |-> yes_no_from_str(default_val("appendonly")),
     appendfilename |-> default_val("appendfilename"),
     appenddirname |-> default_val("appenddirname"),
     appendfsync |-> appendfsync_from_str(default_val("appendfsync")),
     lazyfree_lazy_user_flush |-> yes_no_from_str(default_val("lazyfree_lazy_user_flush"))]

Over(upper, lower) ==
    [n \in DOMAIN upper \cup DOMAIN lower |-> IF n \in DOMAIN upper THEN upper[n] ELSE lower[n]]

(* Mutant: the sources are added in the other order. *)
build_environment_first(file, env) == Over(file, Over(env, DEFAULTS))

(* Config::builder: the environment over the file over the defaults. *)
build(file, env) == Over(env, Over(file, DEFAULTS))

(* Config::get: None is the error of a name that nobody has set. *)
config_get(config, name) == IF name \in DOMAIN config THEN config[name] ELSE None

get_bool(config, name) ==
    IF config_get(config, name) = None THEN None ELSE yes_no_from_str(config_get(config, name))

map_config_to_appendfsync_mode(config) ==
    IF config_get(config, "appendfsync") = None THEN None
    ELSE appendfsync_from_str(config_get(config, "appendfsync"))

(* None if the path is no .ini file, or if any of the settings is an error. *)
load_config(is_ini, file, env) ==
    LET config == build(file, env)
        loaded ==
          [max_connections |-> NumberOf[config_get(config, "max_connections")],
           hz |-> NumberOf[config_get(config, "hz")],
           appendonly |-> get_bool(config, "appendonly"),
           appendfilename |-> config_get(config, "appendfilename"),
           appenddirname |-> config_get(config, "appenddirname"),
           appendfsync |-> map_config_to_appendfsync_mode(config),
           lazyfree_lazy_user_flush |-> get_bool(config, "lazyfree-lazy-user-flush")]
    IN  IF ~is_ini \/ \E n \in DOMAIN loaded : loaded[n] = None THEN None ELSE loaded

(* main: without a path the defaults are used as they are, and the         *)
(* environment is not looked at.                                           *)
startup_config(path_given, is_ini, file, env) ==
    IF path_given THEN load_config(is_ini, file, env) ELSE DefaultConfig
=============================================================================
