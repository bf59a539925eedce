------------------------------ MODULE KeyFiles ------------------------------
(***************************************************************************)
(* From the command line to the identity that a connection proves:         *)
(* moshpit/src/runtime.rs `run` and `maybe_generate_keypair`, the client   *)
(* half of libmoshpit/src/kex/mod.rs that loads the identity, and          *)
(* `mp-keygen generate` (keygen/src/runtime.rs) writing the same files at  *)
(* the same time.  ClientConfig resolves the settings.                     *)
(*                                                                         *)
(* Every look at the disk, prompt and write is a step of its own.  A pair  *)
(* of files is named by the source whose setting points at it; its         *)
(* content is the key it holds, "torn" (truncated, or not written to the   *)
(* end) or "none".  Either program may be killed between two steps.        *)
(***************************************************************************)
EXTENDS ClientConfig

CONSTANTS
    Unencrypted,      \* pairs on the disk at the start without a passphrase
    Unstable,         \* whether mp is built with the feature of that name
    MaxStarts         \* bound: times the user starts mp

ASSUME KeyFilesAssumption ==
    /\ KeyPaths \subseteq Fields /\ Unencrypted \subseteq Origins
    /\ Unstable \in BOOLEAN /\ MaxStarts \in Nat

Private(pair) == <<pair, "private">>
Public(pair) == <<pair, "public">>
Files == Origins \X {"private", "public"}
Absent == "none"
Torn == "torn"

VARIABLES
    command,          \* "connect", "ec" or "serve"
    given,            \* ClientConfig's input, forgotten once it is used
    config, rows,     \* the resolved settings; what `mp ec` lists
    files,            \* the disk: file -> Absent, Torn or the key in it
    client,           \* [pc, paths, public, private, compared, signing,
                      \*  passCache, exchanged]: the steps of mp
    starts,           \* times mp was started
    untouched,        \* history: mp exchanged keys with what is in its files,
                      \* and nobody wrote them since
    keygen            \* [pc, pair, force, key]: mp-keygen generate

startup == <<command, given, config, rows>>
startupVars == <<startup, files, client, starts, untouched, keygen>>

Nothing == [s \in Sources |-> {}]

Error == "error"
Uncached == "uncached"

\* generate_private_key: the key is sealed with its passphrase, if it has one.
\* Only a host key may have none.
NoPassphrase == "no passphrase"
PassphraseOf(key) == IF key \in Unencrypted \cup {"host's"} THEN NoPassphrase ELSE key

\* parse_public_key_bytes and parse_private_key_bytes: whatever is not whole
\* is an error, and so is a wrong passphrase.
LoadPublicKey(content) == IF content \in {Absent, Torn} THEN Error ELSE content

LoadIdentityKey(content, passphrase) ==
    IF content \in {Absent, Torn} THEN Error
    ELSE IF PassphraseOf(content) \in {NoPassphrase, passphrase} THEN content ELSE Error

\* generate_key_pair refuses a client key without a passphrase.
GenerateKeyPair(server, passphrase) ==
    IF ~server /\ ~passphrase THEN Error
    ELSE IF passphrase THEN "keygen's" ELSE "host's"

-----------------------------------------------------------------------------

StartupInit ==
    /\ command \in {"connect", "ec", "serve"}
    /\ LET program == IF command = "serve" THEN "mps" ELSE "mp"
       IN  \E f \in SUBSET Settings(program), c \in SUBSET Flags(program),
              e \in SUBSET Variables(program) :
              given = [s \in Sources |-> CASE s = "config file" -> f
                                           [] s = "command line" -> c
                                           [] s = "environment" -> e]
    /\ config = NoSettings /\ rows = NoSettings
    /\ files = [f \in Files |-> Absent]
    /\ client = [pc |-> "start", paths |-> [private |-> "default", public |-> "default"],
                 public |-> Absent, private |-> Absent, compared |-> FALSE,
                 signing |-> Absent, passCache |-> Uncached, exchanged |-> FALSE]
    /\ starts = 1 /\ untouched = FALSE
    /\ keygen = [pc |-> "idle", pair |-> "default", force |-> FALSE, key |-> Absent]

ServerStarts ==
    /\ client.pc = "start" /\ command = "serve"
    /\ IF ConfigFileRequired("mps") /\ given["config file"] = {}
         THEN /\ client' = [client EXCEPT !.pc = "failed"]
              /\ UNCHANGED config
         ELSE /\ client' = [client EXCEPT !.pc = "serving"]
              /\ config' = Load("mps", given)
    /\ UNCHANGED <<command, given, rows, files, starts, untouched, keygen>>

ShowEffective ==
    /\ client.pc = "start" /\ command = "ec"
    /\ config' = Load("mp", given)
    /\ rows' = ResolveEffective(given, Load("mp", given))
    /\ client' = [client EXCEPT !.pc = "listed"]
    /\ UNCHANGED <<command, given, files, starts, untouched, keygen>>

ClientLoads ==
    /\ client.pc = "start" /\ command = "connect"
    /\ config' = Load("mp", given)
    /\ client' = [client EXCEPT !.pc = "loaded"]
    /\ UNCHANGED <<command, given, rows, files, starts, untouched, keygen>>

\* The pairs of files the settings name, each of them on the disk or not; one
\* of a pair may have been deleted.
ResolveKeyPaths ==
    /\ client.pc = "loaded"
    /\ LET paths == LoadKeyPaths(config)
       IN  /\ client' = [client EXCEPT !.pc = "check private", !.paths = paths]
           /\ \E present \in SUBSET {Private(paths.private), Public(paths.private),
                                     Public(paths.public)} :
                files' = [f \in Files |-> IF f \in present THEN f[1] ELSE Absent]
    /\ given' = Nothing /\ config' = NoSettings
    /\ UNCHANGED <<command, rows, starts, untouched, keygen>>

-----------------------------------------------------------------------------
(* maybe_generate_keypair                                                  *)

MpStep(from, to) == client.pc = from /\ client' = [client EXCEPT !.pc = to]
Elsewhere == UNCHANGED <<startup, starts, untouched, keygen>>

LookForPrivate ==
    /\ MpStep("check private",
                  IF files[Private(client.paths.private)] # Absent THEN "check public" ELSE "ask")
    /\ Elsewhere /\ UNCHANGED files

LookForPublic ==
    /\ MpStep("check public",
                  IF files[Public(client.paths.public)] # Absent THEN "settings" ELSE "ask")
    /\ Elsewhere /\ UNCHANGED files

\* "No keypair found ... Generate a new keypair now?"
AnswerGenerate ==
    /\ \E answer \in {"open private", "settings"} : MpStep("ask", answer)
    /\ Elsewhere /\ UNCHANGED files

ClientWrites ==
    /\ \/ /\ MpStep("open private", "write private")
          /\ files' = [files EXCEPT ![Private(client.paths.private)] = Torn]
       \/ /\ MpStep("write private", "open public")
          /\ files' = [files EXCEPT ![Private(client.paths.private)] = "client's"]
       \/ /\ MpStep("open public", "write public")
          /\ files' = [files EXCEPT ![Public(client.paths.public)] = Torn]
       \/ /\ MpStep("write public", "settings")
          /\ files' = [files EXCEPT ![Public(client.paths.public)] = "client's"]
    /\ Elsewhere

\* What the settings say is looked at only now, when a key may have been
\* written: Ctrl-^, c-], ESC, a bare ^ and two keys stand for what can be typed.
EscapeTexts ==
    {[prefix |-> "ctrl-", keys |-> <<94>>], [prefix |-> "c-", keys |-> <<93>>],
     [prefix |-> "ctrl-", keys |-> <<91>>], [prefix |-> "", keys |-> <<94>>],
     [prefix |-> "c-", keys |-> <<97, 98>>]}

CheckSettings(text) ==
    /\ MpStep("settings", IF ParseEscapeKey(text) = NoControl THEN "failed" ELSE "identity")
    /\ Elsewhere /\ UNCHANGED files

-----------------------------------------------------------------------------
(* run_client_kex: the agent's identity if there is one, else the files.   *)

UseAgent ==
    /\ MpStep("identity", "agent")
    /\ Elsewhere /\ UNCHANGED files

\* Any failure to load the public key is reported as a missing file.
ReadPublic ==
    LET key == LoadPublicKey(files[Public(client.paths.public)])
    IN  /\ client.pc = "identity"
        /\ client' = IF key = Error THEN [client EXCEPT !.pc = "failed"]
                     ELSE [client EXCEPT !.pc = "find private", !.public = key]
        /\ Elsewhere /\ UNCHANGED files

FindPrivate ==
    /\ MpStep("find private", IF files[Private(client.paths.private)] = Absent
                                  THEN "failed" ELSE "read private")
    /\ Elsewhere /\ UNCHANGED files

\* What is loaded first is compared with the public key; what is loaded after
\* that signs, and is compared with nothing.
Loaded(key) ==
    IF client.compared
    THEN [client EXCEPT !.pc = "connected", !.signing = key]
    ELSE [client EXCEPT !.pc = "compare", !.private = key]

\* A key that does not load without a passphrase is taken for encrypted.
ReadPrivate ==
    LET key == LoadIdentityKey(files[Private(client.paths.private)], NoPassphrase)
    IN  /\ client.pc = "read private"
        /\ client' = IF key = Error THEN [client EXCEPT !.pc = "passphrase"] ELSE Loaded(key)
        /\ Elsewhere /\ UNCHANGED files

\* The next attempt loads the identity again.  Until an exchange has succeeded,
\* an attempt that fails forgets the passphrase.
Bug_Forget(exchanged) == Uncached
Forget(exchanged) == IF exchanged THEN client.passCache ELSE Uncached

Retry(exchanged) ==
    [client EXCEPT !.pc = "identity", !.public = Absent, !.private = Absent,
                   !.compared = FALSE, !.signing = Absent,
                   !.exchanged = exchanged, !.passCache = Forget(exchanged)]

\* pass_fn: the user is asked once; the answer, right or wrong, is kept.
AskPassphrase(typed) ==
    /\ client.pc = "passphrase"
    /\ client' = [client EXCEPT !.pc = "read with passphrase",
                                !.passCache = IF @ = Uncached THEN typed ELSE @]
    /\ Elsewhere /\ UNCHANGED files

PromptFails ==
    /\ client.pc = "passphrase" /\ client.passCache = Uncached
    /\ client' = Retry(client.exchanged)
    /\ Elsewhere /\ UNCHANGED files

\* The file is read again, with the passphrase; whatever fails ends mp.
ReadWithPassphrase ==
    LET key == LoadIdentityKey(files[Private(client.paths.private)], client.passCache)
    IN  /\ client.pc = "read with passphrase"
        /\ client' = IF key = Error THEN [client EXCEPT !.pc = "failed"] ELSE Loaded(key)
        /\ Elsewhere /\ UNCHANGED files

\* The feature `unstable` loads the private key once more, to sign with it.
ComparePair ==
    /\ client.pc = "compare"
    /\ client' = IF client.private # client.public THEN [client EXCEPT !.pc = "failed"]
                 ELSE IF Unstable THEN [client EXCEPT !.pc = "read private", !.compared = TRUE]
                 ELSE [client EXCEPT !.pc = "connected"]
    /\ Elsewhere /\ UNCHANGED files

ClientFiles == {Private(client.paths.private), Public(client.paths.public)}
Holds(key) == \A f \in ClientFiles : files[f] = key

\* The exchange succeeds and its session ends some time, or it fails; either
\* way mp connects again.
Reconnect(succeeded) ==
    /\ client.pc \in {"connected", "agent"}
    /\ client' = Retry(client.exchanged \/ succeeded)
    /\ untouched' = IF succeeded /\ client.pc = "connected" THEN Holds(client.public) ELSE untouched
    /\ UNCHANGED <<startup, files, starts, keygen>>

\* The user stops the program wherever it is, and may start it again.
Interrupt ==
    /\ client.pc \notin {"start", "loaded", "listed", "serving", "failed", "stopped"}
    /\ client' = [client EXCEPT !.pc = "stopped"]
    /\ Elsewhere /\ UNCHANGED files

StartAgain ==
    /\ client.pc \in {"failed", "stopped"} /\ command = "connect" /\ starts < MaxStarts
    /\ client' = [client EXCEPT !.pc = "check private", !.public = Absent, !.private = Absent,
                                !.compared = FALSE, !.signing = Absent,
                                !.passCache = Uncached, !.exchanged = FALSE]
    /\ starts' = starts + 1 /\ untouched' = FALSE
    /\ UNCHANGED <<startup, files, keygen>>

-----------------------------------------------------------------------------
(* mp-keygen generate: the public file is always beside the private one.   *)

KeygenStep(from, to) == keygen.pc = from /\ keygen' = [keygen EXCEPT !.pc = to]
Others == UNCHANGED <<startup, client, starts>>
NoWrite == UNCHANGED <<files, untouched>>

KeygenStarts(pair, force) ==
    /\ keygen.pc = "idle" /\ client.pc = "check private" /\ starts = 1
    /\ keygen' = [keygen EXCEPT !.pc = "check", !.pair = pair, !.force = force]
    /\ Others /\ NoWrite

\* check_paths_inner: whether to ask.
CheckPaths(pair) == files[Private(pair)] # Absent \/ files[Public(pair)] # Absent

KeygenChecks ==
    /\ keygen.pc = "check"
    /\ keygen' = [keygen EXCEPT !.pc = IF ~CheckPaths(keygen.pair) \/ keygen.force
                                       THEN "generate" ELSE "overwrite?"]
    /\ Others /\ NoWrite

AnswerOverwrite(yes) ==
    /\ keygen.pc = "overwrite?"
    /\ keygen' = [keygen EXCEPT !.pc = IF yes THEN "generate" ELSE "done"]
    /\ Others /\ NoWrite

Generate(server, passphrase) ==
    /\ keygen.pc = "generate"
    /\ LET key == GenerateKeyPair(server, passphrase)
       IN  keygen' = [keygen EXCEPT !.key = key, !.pc = IF key = Error THEN "done" ELSE "open private"]
    /\ Others /\ NoWrite

KeygenWrites ==
    /\ \/ /\ KeygenStep("open private", "write private")
          /\ files' = [files EXCEPT ![Private(keygen.pair)] = Torn]
       \/ /\ KeygenStep("write private", "open public")
          /\ files' = [files EXCEPT ![Private(keygen.pair)] = keygen.key]
       \/ /\ KeygenStep("open public", "write public")
          /\ files' = [files EXCEPT ![Public(keygen.pair)] = Torn]
       \/ /\ KeygenStep("write public", "done")
          /\ files' = [files EXCEPT ![Public(keygen.pair)] = keygen.key]
    /\ untouched' = (untouched /\ \A f \in ClientFiles : files'[f] = files[f])
    /\ Others

KeygenKilled ==
    /\ keygen.pc \notin {"idle", "done"}
    /\ keygen' = [keygen EXCEPT !.pc = "done"]
    /\ Others /\ NoWrite

-----------------------------------------------------------------------------

StartupNext ==
    \/ ServerStarts \/ ShowEffective \/ ClientLoads \/ ResolveKeyPaths
    \/ LookForPrivate \/ LookForPublic \/ AnswerGenerate \/ ClientWrites
    \/ \E text \in EscapeTexts : CheckSettings(text)
    \/ UseAgent \/ ReadPublic \/ FindPrivate \/ ReadPrivate
    \/ \E typed \in Origins \cup {"client's", "keygen's"} : AskPassphrase(typed)
    \/ PromptFails \/ ReadWithPassphrase \/ ComparePair \/ Interrupt \/ StartAgain
    \/ \E succeeded \in BOOLEAN : Reconnect(succeeded)
    \/ \E pair \in {client.paths.private, client.paths.public}, force \in BOOLEAN :
          KeygenStarts(pair, force)
    \/ KeygenChecks
    \/ \E yes \in BOOLEAN : AnswerOverwrite(yes)
    \/ \E server, passphrase \in BOOLEAN : Generate(server, passphrase)
    \/ KeygenWrites \/ KeygenKilled

StartupSpec == StartupInit /\ [][StartupNext]_startupVars

-----------------------------------------------------------------------------

\* Every setting of mp and of mps has the value of the strongest source that
\* sets it: environment, then command line, then file ("env > CLI > file",
\* config/mod.rs 158-165), and an argument that was not typed sets nothing.
\* What `mp ec` calls its source, worked out by another way from the same three
\* inputs, is that source too (effective.rs 9-17).
Strongest(f) ==
    IF f \in given["environment"] THEN "environment"
    ELSE IF f \in given["command line"] THEN "command line"
    ELSE IF f \in given["config file"] THEN "config file" ELSE "default"

Precedence ==
    client.pc \in {"loaded", "listed", "serving"} =>
        /\ \A f \in DOMAIN config : config[f] = Strongest(f)
        /\ \A f \in DOMAIN rows : {rows[f].value, rows[f].source} = {Strongest(f)}

\* Once mp has exchanged keys with the pair in its files, and while nobody
\* writes them, it never fails to load it and never asks for its passphrase
\* again, however many attempts fail ("avoids re-prompting on reconnect",
\* runtime.rs:865; before that an early failure forgets what was typed, which
\* may have been typed for a file that was half written: runtime.rs:1020).
ReconnectsSilently ==
    untouched => /\ client.pc # "failed"
                 /\ ~(client.pc = "passphrase" /\ client.passCache = Uncached)

\* The key that signs for a connection is the half of the public key it
\* presents (kex/mod.rs:611-617; "Store algorithm and private key for later use
\* below", :623).  NOT SO with `unstable`: the file is read again (:638), and
\* mp-keygen may have replaced it after the comparison.
IdentityWhole ==
    client.pc = "connected" => {client.private, client.signing} \subseteq {client.public, Absent}
=============================================================================
