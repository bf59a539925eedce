-------------------------------- MODULE Agent --------------------------------
(***************************************************************************)
(* The key agent (agent/src/runtime.rs, agent/src/vault.rs): the processes *)
(* `mpa start` makes, the files they share (vault, socket, pid file) and   *)
(* the connections a daemon serves at the same time.  Each of the          *)
(* daemon's values has a mutex of its own and a request takes them one     *)
(* after the other, so a step is what runs between two of them.            *)
(*                                                                         *)
(* A key stands for its path, its fingerprint and its passphrase (a wrong  *)
(* one fails the request, so a stored one is right).  The master           *)
(* passphrase "" writes the vault in plain text.                           *)
(*                                                                         *)
(* With the fido2 backend (agent/src/unlock/fido2.rs) the passphrase is    *)
(* the secret a security key computes for a credential, made and saved     *)
(* next to the vault by the first start; a credential stands for its       *)
(* secret.  A device that refuses ends the start, like a Crash.            *)
(*                                                                         *)
(* A save truncates the vault file and then writes it, and either can fail *)
(* (a full disk) under an agent that goes on to run.                       *)
(*                                                                         *)
(* An operator Bug_X is X with a mistake this code could have.             *)
(***************************************************************************)
EXTENDS Naturals, FiniteSets

CONSTANTS
    Daemons,        \* processes `mpa start` can make
    Handlers,       \* connections served at a time
    Keys,           \* whose files are on the disk
    Words,          \* master passphrases a user types
    Credentials,    \* secrets of the credentials a security key can make
    Backends,       \* backends an installation may be configured with
    Dead,           \* stands for a process that ended and left its files
    MaxEvents       \* bound on starts and requests together

None == 0

ASSUME AgentAssumption ==
    /\ Daemons \subseteq Nat \ {None} /\ Handlers \subseteq Nat
    /\ IsFiniteSet(Daemons)
    /\ Dead \in Nat \ (Daemons \cup {None})
    /\ MaxEvents \in Nat
    /\ "" \in Words /\ Credentials \cap (Words \cup {"absent", "torn"}) = {}
    /\ Backends \subseteq {"passphrase", "fido2"}

VARIABLES
    phase,          \* of each process
    ident, vault,   \* keys in memory; entries of the vault in memory
    opened,         \* is the vault in memory Some
    mp, locked,     \* master passphrase; the flag `mpa status` shows
    backend,        \* never changes
    file,           \* the vault file
    state_file,     \* the credential on disk: "absent", "torn", or which
    socket, lock_file,  \* process that bound the socket; that wrote its pid
    req,            \* what each connection is doing
    events,
    late, acked, excused, overlapped    \* history, for the properties

daemonVars == <<ident, vault, opened, mp, locked>>
fileVars   == <<socket, lock_file, backend, state_file>>
histVars   == <<late, acked, excused, overlapped>>
vars == <<phase, daemonVars, file, fileVars, req, events, histVars>>

NoRequest == [op |-> "none", on |-> None, key |-> None, word |-> "",
              at |-> "done", read |-> {}]
Absent == [state |-> "absent", pass |-> "", entries |-> {}]

(* A file that was not written to its end: without a whole header it       *)
(* panics who loads it (BytesMut::split_to), with one it is an error.      *)
Torn   == [state |-> "torn", pass |-> "", entries |-> {}]
Cut    == [state |-> "cut", pass |-> "", entries |-> {}]
Ruined == file.state \in {"torn", "cut"}

Init ==
    /\ phase = [d \in Daemons |-> "off"]
    /\ ident = [d \in Daemons |-> {}] /\ vault = [d \in Daemons |-> {}]
    /\ opened = [d \in Daemons |-> FALSE]
    /\ mp = [d \in Daemons |-> ""] /\ locked = [d \in Daemons |-> FALSE]
    /\ file = Absent
    /\ socket = None /\ lock_file = None
    /\ backend \in Backends /\ state_file = "absent"
    /\ req = [h \in Handlers |-> NoRequest]
    /\ events = 0
    /\ late = [d \in Daemons |-> {}] /\ acked = {}
    /\ excused = FALSE /\ overlapped = FALSE

Serving(d)  == phase[d] \in {"listening", "up"}
Starting(d) == phase[d] \in {"enrolled", "keyed", "checked", "spawned", "listening"}
(* Processes and connections are alike: the lowest free one is the next.   *)
Fresh(d)    == phase[d] = "off" /\ \A o \in Daemons : o < d => phase[o] # "off"
Reachable   == socket \in Daemons /\ Serving(socket)

(* Vault::load_encrypted: a plain vault opens with anything.               *)
Opens(f, word) == f.state = "whole" /\ f.pass \in {"", word}

(* Vault::save_encrypted, save_plaintext.                                  *)
Saved(entries, word) == [state |-> "whole", pass |-> word, entries |-> entries]

-----------------------------------------------------------------------------
(* Starting and stopping.                                                  *)

AlreadyRunning ==
    /\ Reachable
    /\ \/ lock_file = None
       \/ lock_file \in Daemons /\ phase[lock_file] # "off"

(* Fido2Backend::retrieve_passphrase.  The credential is on the device     *)
(* before it is in the state file.                                         *)
Bug_Enrolled == FALSE
Enrolled == state_file # "absent"

Enrol(d) ==
    /\ backend = "fido2" /\ ~Enrolled
    /\ Fresh(d) /\ events < MaxEvents
    /\ events' = events + 1
    /\ LET unused == Credentials \ ({state_file, file.pass} \cup {mp[o] : o \in Daemons})
       IN  unused # {} /\ mp' = [mp EXCEPT ![d] = CHOOSE c \in unused : TRUE]
    /\ phase' = [phase EXCEPT ![d] = "enrolled"]
    /\ overlapped' = (overlapped \/ \E o \in Daemons : Starting(o))
    /\ UNCHANGED <<ident, vault, opened, locked, file, fileVars, req,
                   late, acked, excused>>

SaveCredential(d) ==
    /\ phase[d] = "enrolled"
    /\ phase' = [phase EXCEPT ![d] = "keyed"]
    /\ state_file' = mp[d]
    /\ UNCHANGED <<daemonVars, file, socket, lock_file, backend, req, events, histVars>>

(* What the key computes for the credential that was just saved, or for    *)
(* the one read back; a state file that does not decode ends the start.    *)
Secret(word) == Enrolled /\ state_file # "torn" /\ word = state_file

(* run_daemon: the passphrase the backend has just set or retrieves; or,   *)
(* with --passphrase-stdin, whatever the backend, one the user gives.      *)
Retrieves(d, word) ==
    \/ phase[d] = "keyed" /\ word = mp[d] /\ UNCHANGED <<events, excused>>
    \/ /\ Fresh(d) /\ events < MaxEvents
       /\ events' = events + 1
       /\ \/ backend = "fido2" /\ Secret(word) /\ UNCHANGED excused
          \/ word \in Words /\ excused' = (excused \/ backend = "fido2")

(* The parent opens the vault first.                                       *)
StartChecks(d, word) ==
    /\ Retrieves(d, word)
    /\ file.state # "torn" /\ ~AlreadyRunning
    /\ phase' = [phase EXCEPT ![d] = "checked"]
    /\ mp' = [mp EXCEPT ![d] = word]
    /\ lock_file' = None
    /\ overlapped' = (overlapped \/ \E o \in Daemons \ {d} : Starting(o))
    /\ UNCHANGED <<ident, vault, opened, locked, file, socket, backend, state_file,
                   req, late, acked>>

(* It binds the socket only to print its path, spawns the child and ends.  *)
ParentSpawns(d) ==
    /\ phase[d] = "checked"
    /\ phase' = [phase EXCEPT ![d] = "spawned"]
    /\ socket' = Dead
    /\ UNCHANGED <<daemonVars, file, lock_file, backend, state_file, req, events, histVars>>

(* --foreground (the systemd unit) looks for no other instance.            *)
StartForeground(d, word) ==
    /\ Retrieves(d, word)
    /\ phase' = [phase EXCEPT ![d] = "spawned"]
    /\ mp' = [mp EXCEPT ![d] = word]
    /\ overlapped' = (overlapped \/ \E o \in Daemons \ {d} : phase[o] # "off")
    /\ UNCHANGED <<ident, vault, opened, locked, file, fileVars, req,
                   late, acked>>

(* A vault that does not open is only logged: the daemon starts with none. *)
ChildListens(d) ==
    /\ phase[d] = "spawned" /\ file.state # "torn"
    /\ phase' = [phase EXCEPT ![d] = "listening"]
    /\ LET opens == Opens(file, mp[d])
           found == IF opens THEN file.entries ELSE {}
       IN /\ ident' = [ident EXCEPT ![d] = found]
          /\ vault' = [vault EXCEPT ![d] = found]
          /\ opened' = [opened EXCEPT ![d] = opens]
          /\ excused' = (excused \/ (file.state # "absent" /\ ~opens))
    /\ locked' = [locked EXCEPT ![d] = FALSE]
    /\ socket' = d
    /\ late' = [late EXCEPT ![d] = {}]
    /\ UNCHANGED <<mp, file, lock_file, backend, state_file, req, events,
                   acked, overlapped>>

WritesPid(d) ==
    /\ phase[d] = "listening"
    /\ phase' = [phase EXCEPT ![d] = "up"]
    /\ lock_file' = d
    /\ UNCHANGED <<daemonVars, file, socket, backend, state_file, req, events, histVars>>

(* The connections of a process end with it.                               *)
Gone(d) ==
    /\ phase' = [phase EXCEPT ![d] = "off"]
    /\ req' = [h \in Handlers |-> IF req[h].on = d THEN NoRequest ELSE req[h]]
    /\ ident' = [ident EXCEPT ![d] = {}] /\ vault' = [vault EXCEPT ![d] = {}]
    /\ opened' = [opened EXCEPT ![d] = FALSE] /\ mp' = [mp EXCEPT ![d] = ""]
    /\ locked' = [locked EXCEPT ![d] = FALSE]
    /\ late' = [late EXCEPT ![d] = {}]

(* Shutdown, SIGTERM or SIGINT: it removes the two files, whosever they    *)
(* are by now.                                                             *)
Terminate(d) ==
    /\ phase[d] = "up" /\ Gone(d)
    /\ socket' = None /\ lock_file' = None
    /\ excused' = (excused \/ Ruined)
    /\ UNCHANGED <<file, backend, state_file, events, acked, overlapped>>

Leave(d, owner) == IF owner = d THEN Dead ELSE owner

Crash(d) ==
    /\ phase[d] # "off" /\ Gone(d)
    /\ socket' = Leave(d, socket) /\ lock_file' = Leave(d, lock_file)
    /\ excused' = (excused \/ Ruined)
    /\ UNCHANGED <<file, backend, state_file, events, acked, overlapped>>

(* Cut short, the state file stays: every later start fails to decode it.  *)
CrashInEnrol(d) ==
    /\ phase[d] = "enrolled" /\ Gone(d)
    /\ state_file' = "torn"
    /\ UNCHANGED <<file, socket, lock_file, backend, events, acked, excused, overlapped>>

-----------------------------------------------------------------------------
(* The requests that change something.                                     *)

At(h, op, place) == req[h].op = op /\ req[h].at = place
Goes(h, place)   == req' = [req EXCEPT ![h].at = place]
Answered(h)      == req' = [req EXCEPT ![h] = NoRequest]

(* Mutexes a request holds while it waits for another one.                 *)
HoldsMap(h) == At(h, "unlock", "install")
Bug_HoldsVault(h) == At(h, "remove", "save") \/ At(h, "remove", "map")
HoldsVault(h) == At(h, "remove", "save")
MapFree(d)   == \A h \in Handlers : req[h].on = d => ~HoldsMap(h)
VaultFree(d) == \A h \in Handlers : req[h].on = d => ~HoldsVault(h)

Asked(op, place, key, word) ==
    [op |-> op, on |-> socket, key |-> key, word |-> word, at |-> place, read |-> {}]

Ask(h) ==
    /\ req[h] = NoRequest /\ \A o \in Handlers : o < h => req[o] # NoRequest
    /\ events < MaxEvents
    /\ socket \in Daemons /\ phase[socket] = "up"
    /\ events' = events + 1
    /\ \E r \in    {Asked("add", "pass", k, "") : k \in Keys}
             \cup {Asked("remove", "map", k, "") : k \in Keys}
             \cup {Asked("remove_all", "map", None, ""), Asked("lock", "flag", None, "")}
             \cup {Asked("unlock", "pass", None, word) : word \in Words}
             \cup {Asked("query", "map", None, ""), Asked("status", "flag", None, "")} :
          req' = [req EXCEPT ![h] = r]
    /\ UNCHANGED <<phase, daemonVars, file, fileVars, histVars>>

(* What only reads waits for the mutexes as well: ListIdentities,          *)
(* ListSupportedIdentities, GetPublicKey and Sign take the map's, whatever *)
(* the lock flag says; Status the flag's and then the map's.               *)
QueryAnswers(h) ==
    /\ At(h, "query", "map") /\ MapFree(req[h].on)
    /\ Answered(h)
    /\ UNCHANGED <<phase, daemonVars, file, fileVars, events, histVars>>

StatusAnswers(h) ==
    /\ \/ At(h, "status", "flag") /\ Goes(h, "map")
       \/ At(h, "status", "map") /\ MapFree(req[h].on) /\ Answered(h)
    /\ UNCHANGED <<phase, daemonVars, file, fileVars, events, histVars>>

AddTakesPassphrase(h) ==
    /\ At(h, "add", "pass")
    /\ req' = [req EXCEPT ![h].word = mp[req[h].on], ![h].at = "map"]
    /\ UNCHANGED <<phase, daemonVars, file, fileVars, events, histVars>>

(* load_key_into_map: the key is usable before it is in the vault, and     *)
(* whatever the lock flag says.                                            *)
AddInserts(h) ==
    LET d == req[h].on  k == req[h].key IN
    /\ At(h, "add", "map") /\ MapFree(d)
    /\ ident' = [ident EXCEPT ![d] = @ \cup {k}]
    /\ late' = [late EXCEPT ![d] = @ \cup IF locked[d] THEN {k} ELSE {}]
    /\ Goes(h, "vault")
    /\ UNCHANGED <<phase, vault, opened, mp, locked, file, fileVars,
                   events, acked, excused, overlapped>>

AddFails(h) ==
    /\ At(h, "add", "map") /\ Answered(h)
    /\ UNCHANGED <<phase, daemonVars, file, fileVars, events, histVars>>

(* A save that falls between an Unlock's read of the file and its install  *)
(* is undone in memory by that install, and by the next save on disk.      *)
UnlockOverlaps(d) ==
    \E h \in Handlers : /\ req[h].on = d /\ req[h].op = "unlock"
                        /\ req[h].at \in {"map", "install"}

(* What a save that fails leaves: the file as it was, if it cannot be      *)
(* opened, or what was written of it.                                      *)
SaveFails == file' \in {file, Torn, Cut}

Bug_Upsert(entries, k) == {k}
Upsert(entries, k) == entries \cup {k}

AddSaves(h) ==
    LET d == req[h].on  kept == Upsert(vault[d], req[h].key) IN
    /\ At(h, "add", "vault") /\ VaultFree(d)
    /\ vault' = [vault EXCEPT ![d] = kept] /\ opened' = [opened EXCEPT ![d] = TRUE]
    /\ \/ /\ file' = Saved(kept, req[h].word)
          /\ acked' = acked \cup {req[h].key}
          /\ excused' = (excused \/ UnlockOverlaps(d))
       \/ SaveFails /\ UNCHANGED <<acked, excused>>
    /\ Answered(h)
    /\ UNCHANGED <<phase, ident, mp, locked, fileVars, events, late,
                   overlapped>>

(* RemoveIdentity leaves the entry in the vault.                           *)
RemoveTakes(h) ==
    LET d == req[h].on  k == req[h].key IN
    /\ At(h, "remove", "map") /\ MapFree(d)
    /\ ident' = [ident EXCEPT ![d] = @ \ {k}]
    /\ IF k \in ident[d] THEN Goes(h, "vault") ELSE Answered(h)
    /\ UNCHANGED <<phase, vault, opened, mp, locked, file, fileVars,
                   events, histVars>>

RemoveLocksVault(h) ==
    /\ At(h, "remove", "vault") /\ VaultFree(req[h].on)
    /\ IF opened[req[h].on] THEN Goes(h, "save") ELSE Answered(h)
    /\ UNCHANGED <<phase, daemonVars, file, fileVars, events, histVars>>

(* It saves an encrypted vault only, and answers Ok if that fails, too.    *)
RemoveSaves(h) ==
    LET d == req[h].on IN
    /\ At(h, "remove", "save")
    /\ IF mp[d] = "" THEN UNCHANGED file
       ELSE SaveFails \/ file' = Saved(vault[d], mp[d])
    /\ Answered(h)
    /\ UNCHANGED <<phase, daemonVars, fileVars, events, histVars>>

CrashInSave(h) ==
    LET d == req[h].on IN
    /\ \/ At(h, "add", "vault") /\ VaultFree(d)
       \/ At(h, "remove", "save") /\ mp[d] # ""
    /\ Gone(d)
    /\ file' \in {Torn, Cut} /\ excused' = TRUE
    /\ socket' = Leave(d, socket) /\ lock_file' = Leave(d, lock_file)
    /\ UNCHANGED <<backend, state_file, events, acked, overlapped>>

RemoveAll(h) ==
    LET d == req[h].on IN
    /\ At(h, "remove_all", "map") /\ MapFree(d)
    /\ ident' = [ident EXCEPT ![d] = {}]
    /\ Answered(h)
    /\ UNCHANGED <<phase, vault, opened, mp, locked, file, fileVars,
                   events, histVars>>

LockSetsFlag(h) ==
    LET d == req[h].on IN
    /\ At(h, "lock", "flag")
    /\ locked' = [locked EXCEPT ![d] = TRUE] /\ late' = [late EXCEPT ![d] = {}]
    /\ Goes(h, "map")
    /\ UNCHANGED <<phase, ident, vault, opened, mp, file, fileVars,
                   events, acked, excused, overlapped>>

Bug_LockClears(h) ==
    /\ At(h, "lock", "map") /\ MapFree(req[h].on)
    /\ ident' = [ident EXCEPT ![req[h].on] = @ \ vault[req[h].on]]
    /\ Answered(h)
    /\ UNCHANGED <<phase, vault, opened, mp, locked, file, fileVars,
                   events, histVars>>
LockClears(h) ==
    /\ At(h, "lock", "map") /\ MapFree(req[h].on)
    /\ ident' = [ident EXCEPT ![req[h].on] = {}]
    /\ Answered(h)
    /\ UNCHANGED <<phase, vault, opened, mp, locked, file, fileVars,
                   events, histVars>>

(* Unlock stores the passphrase before it has tried it, and it is one the  *)
(* user typed whatever the backend: an agent with a security key goes on   *)
(* to save under a word that the key does not give.                        *)
UnlockStores(h) ==
    /\ At(h, "unlock", "pass")
    /\ mp' = [mp EXCEPT ![req[h].on] = req[h].word]
    /\ excused' = (excused \/ backend = "fido2")
    /\ Goes(h, "read")
    /\ UNCHANGED <<phase, ident, vault, opened, locked, file, fileVars,
                   events, late, acked, overlapped>>

(* reload_from_vault.  No file is no error.                                *)
UnlockReads(h) ==
    /\ At(h, "unlock", "read")
    /\ \/ file.state = "absent" /\ Goes(h, "flag") /\ UNCHANGED excused
       \/ /\ Opens(file, req[h].word)
          /\ req' = [req EXCEPT ![h].at = "map", ![h].read = file.entries]
          /\ UNCHANGED excused
       \/ /\ file.state # "absent" /\ ~Opens(file, req[h].word)
          /\ Answered(h) /\ excused' = TRUE
    /\ UNCHANGED <<phase, daemonVars, file, fileVars, events, late,
                   acked, overlapped>>

UnlockFills(h) ==
    LET d == req[h].on IN
    /\ At(h, "unlock", "map") /\ MapFree(d)
    /\ ident' = [ident EXCEPT ![d] = req[h].read]
    /\ Goes(h, "install")
    /\ UNCHANGED <<phase, vault, opened, mp, locked, file, fileVars,
                   events, histVars>>

UnlockInstalls(h) ==
    LET d == req[h].on IN
    /\ At(h, "unlock", "install") /\ VaultFree(d)
    /\ vault' = [vault EXCEPT ![d] = req[h].read]
    /\ opened' = [opened EXCEPT ![d] = TRUE]
    /\ Goes(h, "flag")
    /\ UNCHANGED <<phase, ident, mp, locked, file, fileVars, events,
                   histVars>>

UnlockClearsFlag(h) ==
    /\ At(h, "unlock", "flag")
    /\ locked' = [locked EXCEPT ![req[h].on] = FALSE]
    /\ Answered(h)
    /\ UNCHANGED <<phase, ident, vault, opened, mp, file, fileVars,
                   events, histVars>>

-----------------------------------------------------------------------------
(* dispatch_request.                                                       *)
HandlerStep(h) ==
    \/ req[h].op = "query" /\ QueryAnswers(h)
    \/ req[h].op = "status" /\ StatusAnswers(h)
    \/ req[h].op = "add" /\ (AddTakesPassphrase(h) \/ AddInserts(h) \/ AddFails(h) \/ AddSaves(h))
    \/ req[h].op = "remove" /\ (RemoveTakes(h) \/ RemoveLocksVault(h) \/ RemoveSaves(h))
    \/ req[h].op = "remove_all" /\ RemoveAll(h)
    \/ req[h].op = "lock" /\ (LockSetsFlag(h) \/ LockClears(h))
    \/ req[h].op = "unlock" /\ (UnlockStores(h) \/ UnlockReads(h) \/ UnlockFills(h)
                                \/ UnlockInstalls(h) \/ UnlockClearsFlag(h))

Next ==
    \/ \E d \in Daemons : Enrol(d) \/ SaveCredential(d) \/ CrashInEnrol(d)
    \/ \E d \in Daemons, word \in Words \cup Credentials : StartChecks(d, word) \/ StartForeground(d, word)
    \/ \E d \in Daemons : \/ ParentSpawns(d) \/ ChildListens(d) \/ WritesPid(d)
                          \/ Terminate(d) \/ Crash(d)
    \/ \E h \in Handlers : Ask(h) \/ HandlerStep(h) \/ CrashInSave(h)

Spec == Init /\ [][Next]_vars

(* A task whose mutex is free runs: tokio polls every ready task.          *)
FairSpec == Spec /\ \A h \in Handlers : WF_vars(HandlerStep(h))

-----------------------------------------------------------------------------
TypeOK ==
    /\ phase \in [Daemons -> {"off", "enrolled", "keyed", "checked", "spawned",
                            "listening", "up"}]
    /\ {socket, lock_file} \subseteq Daemons \cup {None, Dead}
    /\ file.entries \subseteq Keys
    /\ \A d \in Daemons : /\ ident[d] \subseteq Keys /\ vault[d] \subseteq Keys
                          /\ mp[d] \in Words \cup Credentials
    /\ backend \in Backends /\ state_file \in Credentials \cup {"absent", "torn"}
    /\ \A h \in Handlers : req[h].op # "none" => phase[req[h].on] = "up"

(* After a Lock only keys added to the locked agent can be used (AddIdentity *)
(* does not look at the flag), however it interleaves with other requests: *)
(* runtime.rs:329-338 sets the flag before it clears the map, and Unlock   *)
(* (340-353) fills the map before it clears the flag.                      *)
LockedKeepsNoKey ==
    \A d \in Daemons :
        \/ ~locked[d] \/ ident[d] \subseteq late[d]
        \/ \E h \in Handlers : /\ req[h].on = d
                               /\ \/ At(h, "lock", "map")
                                  \/ At(h, "unlock", "install")
                                  \/ At(h, "unlock", "flag")

(* A key whose add was acknowledged stays in the vault file, and in the    *)
(* agent's memory, for its next save, while a save that failed has left    *)
(* that file ruined (runtime.rs:89-135, 392-445, vault.rs:153-172).        *)
(* Excused: the user gave a wrong master passphrase (or any at all, with   *)
(* the fido2 backend), a save overlapped an Unlock, two agents ran, or an  *)
(* agent ended within a save or with the file ruined.                      *)
AckedKeysAreKept ==
    \/ excused \/ overlapped \/ acked \subseteq file.entries
    \/ Ruined /\ \E d \in Daemons : Serving(d) /\ acked \subseteq vault[d]

(* A vault the agent encrypted opens with the credential on disk, unless   *)
(* two starts overlapped or the user gave a passphrase: the one start that *)
(* enrols is the one whose secret is used (fido2.rs:517-531).              *)
KeyOpensVault ==
    backend = "fido2" /\ file.state = "whole"
        => excused \/ overlapped \/ file.pass \in {"", state_file}

(* Every request is answered, or its agent is gone: no order of the        *)
(* mutexes makes requests wait for each other (runtime.rs:304-353, 392-445).*)
RequestsAnswered ==
    \A h \in Handlers : (req[h].op # "none") ~> (req[h].op = "none")

=============================================================================
