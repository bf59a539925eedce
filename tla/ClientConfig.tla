---------------------------- MODULE ClientConfig ----------------------------
(***************************************************************************)
(* How `mp` and `mps` arrive at their settings, and where `mp ec` says     *)
(* each of them comes from: libmoshpit/src/config/mod.rs `load` merges the *)
(* TOML file, the command line (the two cli.rs) and the environment, serde *)
(* fills in what is missing, and moshpit/src/effective.rs works out the    *)
(* origin of every value a second time, from the three inputs themselves.  *)
(*                                                                         *)
(* What a value is does not matter here, only who supplied it: a value is  *)
(* the name of its source.  A field stands for those that are treated      *)
(* alike:                                                                  *)
(*   server_port       also predict, diff_mode, nat_warmup(_count) and     *)
(*                     legacy_passthrough; of mps: verbose, quiet,         *)
(*                     enable_std_output, term_type, allow_tcp_transport   *)
(*   escape_key        also server_destination; of mps: warmup_delay_ms,   *)
(*                     pacing_delay_us, min_protocol_version               *)
(*   max_reconnect_backoff_secs   of mps: path_locked, namespace_escape,   *)
(*                     use_logind, use_utmp                                *)
(*   send_env          also send_path; of mps: accept_env, server_path     *)
(*   kex, aead         the entries of the table preferred_algorithms       *)
(***************************************************************************)
EXTENDS Naturals, Sequences

CONSTANT Fields       \* the fields that are followed

Algorithms == {"kex", "aead"}
KeyPaths == {"private_key_path", "public_key_path"}

ASSUME ConfigAssumption ==
    Fields \subseteq {"server_port", "transport", "escape_key", "max_reconnect_backoff_secs",
                      "send_env"} \cup Algorithms \cup KeyPaths

Programs == {"mp", "mps"}
Sources == {"config file", "command line", "environment"}
Origins == Sources \cup {"default"}

\* The arguments of each command line, and those that clap gives a default.
ClientFlags == Fields \ {"max_reconnect_backoff_secs", "send_env"}
ServerFlags == Fields \ {"max_reconnect_backoff_secs", "send_env", "transport"}
Flags(program) == IF program = "mp" THEN ClientFlags ELSE ServerFlags
ClapDefaults == Fields \cap {"server_port", "transport"}

\* The fields of each Config that its file can set, and the environment.  No
\* variable can carry a list or a table.
ClientSettings == Fields
ServerSettings == Fields \ {"transport"}
Settings(program) == IF program = "mp" THEN ClientSettings ELSE ServerSettings
Variables(program) == Settings(program) \ ({"send_env"} \cup Algorithms)

-----------------------------------------------------------------------------
(* `given` is [source -> the fields the user sets there].                  *)

\* parse_argv: clap fills in its defaults; the second parse tells them apart.
Parsed(given) == given["command line"] \cup ClapDefaults
ExplicitArgs(given) == given["command line"]

\* A table is emitted for the algorithms that were typed, with only those.
BuildAlgoTable(given) == Algorithms \cap ExplicitArgs(given)

Bug_Collect(given) == Parsed(given)

\* Source::collect
Collect(given) ==
    BuildAlgoTable(given) \cup ((Parsed(given) \cap ExplicitArgs(given)) \ Algorithms)

\* Later sources override earlier ones, field by field, in tables too.
Overlay(merged, layer) ==
    [f \in DOMAIN merged \cup layer.fields |-> IF f \in layer.fields THEN layer.source ELSE merged[f]]

NoSettings == [f \in {} |-> "default"]

Layers(given) ==
    << [source |-> "config file",  fields |-> given["config file"]],
       [source |-> "command line", fields |-> Collect(given)],
       [source |-> "environment",  fields |-> given["environment"]] >>

\* The server's file must be there, since some of its sections have no default;
\* the client's may be missing.
ConfigFileRequired(program) == program = "mps"

\* load: the source of every value, the defaults being serde's.
Load(program, given) ==
    LET layers == Layers(given)
        merged == Overlay(Overlay(Overlay(NoSettings, layers[1]), layers[2]), layers[3])
    IN  [f \in Settings(program) |-> IF f \in DOMAIN merged THEN merged[f] ELSE "default"]

\* into_algorithm_list: a category that nobody set offers the built-in list.
PreferredAlgorithms(config) == [a \in Algorithms \cap DOMAIN config |-> config[a]]

\* load_key_paths: a public key path that is not set follows the private one.
LoadKeyPaths(config) ==
    [private |-> config["private_key_path"],
     public  |-> IF config["public_key_path"] = "default" THEN config["private_key_path"]
                 ELSE config["public_key_path"]]

-----------------------------------------------------------------------------
(* The key that starts the quit sequence, as it is written: a prefix, in   *)
(* any case, and the ASCII codes of what follows.                          *)

NoControl == 256

\* Ctrl-[ is ESC and not allowed.
CtrlByte(c) ==
    CASE c \in 64..95 \ {91} -> c - 64
      [] c \in 97..122 -> c - 96
      [] OTHER -> NoControl

ParseEscapeKey(text) ==
    IF text.prefix \in {"ctrl-", "c-"} /\ Len(text.keys) = 1
    THEN CtrlByte(text.keys[1]) ELSE NoControl

-----------------------------------------------------------------------------
(* mp ec                                                                   *)

TomlKeys(given) == given["config file"]

Bug_Classify(fromEnv, fromCli, fromFile) ==
    IF fromCli THEN "command line" ELSE IF fromEnv THEN "environment"
    ELSE IF fromFile THEN "config file" ELSE "default"

Classify(fromEnv, fromCli, fromFile) ==
    CASE fromEnv -> "environment"
      [] ~fromEnv /\ fromCli -> "command line"
      [] ~fromEnv /\ ~fromCli /\ fromFile -> "config file"
      [] OTHER -> "default"

Row(given, config, f) ==
    [value |-> IF f \in Algorithms THEN PreferredAlgorithms(config)[f] ELSE config[f],
     source |-> Classify(f \in Variables("mp") /\ f \in given["environment"],
                         f \in ClientFlags /\ f \in ExplicitArgs(given),
                         f \in TomlKeys(given))]

\* The list has no row for `transport`.
ResolveEffective(given, config) == [f \in Fields \ {"transport"} |-> Row(given, config, f)]
=============================================================================
