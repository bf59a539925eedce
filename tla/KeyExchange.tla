----------------------------- MODULE KeyExchange -----------------------------
(***************************************************************************)
(* The key exchange (libmoshpit/src/kex): attempts of a client, one after  *)
(* another, each over a TCP connection of its own.  Three tasks make up a  *)
(* client's attempt: the one that waits for the outcome under a deadline   *)
(* ("main"), the reader that carries on the exchange, and the state        *)
(* machine the reader feeds with events.  An attempt that is given up      *)
(* leaves its reader and its connection behind.                            *)
(*                                                                         *)
(* The four algorithm lists are negotiated alike: one stands for them.     *)
(* Key material is what it was derived with.                               *)
(*                                                                         *)
(* An operator Bug_X is X with a mistake this code could have.             *)
(***************************************************************************)
EXTENDS Naturals, Sequences, FiniteSets, SequencesExt

CONSTANTS
    Setups,         \* configurations of the two ends (see SetupType)
    MaxAttempts,    \* bound on the attempts of the client
    Breakable,      \* bound: the attempts whose connection may break
    Users,          \* names the client may log in with
    Ports           \* the server's data ports

None == 0
Attempts == 1..MaxAttempts

Ranges == [min : Nat, max : Nat]
SetupType ==
    [ client : Seq(STRING), server : Seq(STRING),   \* preferred algorithms
      speaks : Ranges, accepts : Ranges,            \* protocol versions
      tcp : BOOLEAN, allow_tcp : BOOLEAN,
      diff : {"Reliable", "Datagram", "StateSync"}, env : BOOLEAN,
      agent : {"none", "down", "empty", "serves"},
      key : {"missing", "plain", "encrypted", "mismatch"},
      ml_dsa : BOOLEAN,                     \* the identity is post-quantum
      account : BOOLEAN,                    \* the user has one at the server
      authorized : BOOLEAN,                 \* and the key is in its file
      host : {"unknown", "same", "other", "unchecked"} ]

ASSUME KexAssumption ==
    /\ Setups \subseteq SetupType
    /\ MaxAttempts \in Nat \ {0} /\ Breakable \subseteq Attempts
    /\ {None} \cap (Users \cup Ports) = {}

VARIABLES
    setup,
    cl, sv,         \* the two ends of each attempt
    c2s, s2c,       \* frames under way
    known,          \* the host's line in known_hosts
    registry,       \* the server's sessions and their users
    pool,           \* data ports not in use
    uuid_file       \* session the client will ask for

vars == <<setup, cl, sv, c2s, s2c, known, registry, pool, uuid_file>>
shared == <<setup, known, registry, pool, uuid_file>>

F(frame, val) == [frame |-> frame, val |-> val]
KexFailure == F("KexFailure", None)
Closed == F("closed", None)         \* the peer closed the connection
Reset  == F("reset", None)          \* reading fails

NoKey == <<None, None, None>>
NewClient == [pc |-> "idle", main |-> "idle", user |-> None, requested |-> None,
              accepted |-> 0, verdict |-> "none", cause |-> "none",
              identity |-> "none", alg |-> "none", version |-> 0,
              transport |-> "none", key |-> NoKey, uuid |-> None,
              session |-> None, resume |-> FALSE, port |-> None,
              approved |-> FALSE]
NewServer == [pc |-> "kexinit", alg |-> "none", version |-> 0, transport |-> "none",
              user |-> None, requested |-> None, key |-> NoKey, diff |-> "Reliable",
              env |-> FALSE, uuid |-> None, session |-> None, resume |-> FALSE,
              proven |-> FALSE, port |-> None]

Init ==
    /\ setup \in Setups
    /\ cl = [a \in Attempts |-> NewClient]
    /\ sv = [a \in Attempts |-> NewServer]
    /\ c2s = [a \in Attempts |-> <<>>] /\ s2c = [a \in Attempts |-> <<>>]
    /\ known = setup.host
    /\ registry = [s \in {} |-> None]
    /\ pool = Ports /\ uuid_file = None

-----------------------------------------------------------------------------
(* Negotiation: the first of the server's algorithms the client has, too,  *)
(* and the highest version both speak.                                     *)

Common(first, second) == {i \in DOMAIN first : first[i] \in Range(second)}
Negotiable(first, second) == Common(first, second) # {}

(* The second list sets the order. *)
Bug_Negotiate(first, second) ==
    second[CHOOSE i \in Common(second, first) : \A j \in Common(second, first) : i <= j]

Negotiate(first, second) ==
    first[CHOOSE i \in Common(first, second) : \A j \in Common(first, second) : i <= j]

(* The peer's lowest version is not looked at. *)
Lower(m, n) == IF m < n THEN m ELSE n
ProtocolVersion(local, peer) ==
    LET v == Lower(local.max, peer.max)
    IN  IF v >= local.min /\ v >= peer.min THEN v ELSE 0

-----------------------------------------------------------------------------
(* The client's state machine: the events it takes, in their order.        *)

Events == <<"NegotiatedAlgorithms", "TransportMode", "KeyMaterial",
            "HMACKeyMaterial", "Uuid", "SessionInfo", "MoshpitsAddr">>

HandleEvent(c, event) ==
    CASE c.verdict # "none" -> c
      [] c.verdict = "none" /\ event = Events[c.accepted + 1] ->
            [c EXCEPT !.accepted = @ + 1,
                      !.verdict = IF c.accepted + 1 = Len(Events) THEN "ok" ELSE @]
      [] c.verdict = "none" /\ event # Events[c.accepted + 1] ->
            [c EXCEPT !.verdict = IF event = "NoCommonAlgorithm" THEN event
                                                        ELSE "InvalidKexState"]

(* One step of the reader emits two events at most. *)
Emit(c, events) ==
    LET first == IF events = <<>> THEN c ELSE HandleEvent(c, events[1])
    IN  IF Len(events) = 2 THEN HandleEvent(first, events[2]) ELSE first

(* The reader ends with an error; that it tells the state machine is up to *)
(* where it happens.                                                       *)
Fails(c, cause, events) == Emit([c EXCEPT !.pc = "failed", !.cause = cause], events)

-----------------------------------------------------------------------------
(* The client: identity, attempt and outcome.                              *)

(* The agent's strongest identity, or the key file when there is none. *)
LoadIdentity ==
    IF setup.agent = "serves" THEN {"agent"}
    ELSE CASE setup.key = "plain"     -> {"file"}
           [] setup.key = "missing"   -> {"KeyFileMissing"}
           [] setup.key = "mismatch"  -> {"KeyPairMismatch"}
           [] setup.key = "encrypted" -> {"file", "KeyCorrupt"}

Fatal == {"KeyFileMissing", "KeyPairMismatch", "KeyCorrupt", "NoCommonAlgorithm"}

(* The next attempt is a retry, or of a program run later.  A program that *)
(* has ended leaves no reader behind.                                      *)
MayStart(a, user) ==
    /\ cl[a].main = "idle"
    /\ \A b \in 1..(a - 1) : cl[b].main \notin {"idle", "waiting"}
    /\ a > 1 => \/ cl[a - 1].user = user /\ cl[a - 1].main \notin Fatal
               \/ \A b \in 1..(a - 1) : cl[b].pc \in {"idle", "done", "failed"}

StartAttempt(a) ==
    /\ \E user \in Users, id \in LoadIdentity :
        /\ MayStart(a, user)
        /\ IF id \in {"agent", "file"}
           THEN /\ cl' = [cl EXCEPT ![a] =
                            [@ EXCEPT !.pc = "kexinit", !.main = "waiting", !.user = user,
                                      !.requested = uuid_file, !.identity = id]]
                /\ c2s' = [c2s EXCEPT ![a] = <<F("KexInit", None)>>]
           ELSE /\ cl' = [cl EXCEPT ![a].main = id]
                /\ c2s' = [c2s EXCEPT ![a] = <<Closed>>]
    /\ UNCHANGED <<shared, sv, s2c>>

(* What the state machine ended with.  A TCP data channel is connected     *)
(* first: the server waits for that at the port it named.                  *)
MainEnds(a) ==
    LET ok == cl[a].verdict = "ok"
    IN  /\ cl[a].main = "waiting" /\ cl[a].verdict # "none"
        /\ cl' = [cl EXCEPT ![a].main = cl[a].verdict]
        /\ uuid_file' = IF ok THEN cl[a].session ELSE uuid_file
        /\ sv' = IF ok /\ cl[a].transport = "Tcp" THEN [sv EXCEPT ![a].pc = "done"] ELSE sv
        /\ UNCHANGED <<setup, c2s, s2c, known, registry, pool>>

(* A firewall keeps the client from the TCP data port. *)
DataPortBlocked(a) ==
    /\ cl[a].main = "waiting" /\ cl[a].verdict = "ok" /\ cl[a].transport = "Tcp"
    /\ cl' = [cl EXCEPT ![a].main = "unconnected"]
    /\ UNCHANGED <<shared, sv, c2s, s2c>>

KexTimeout(a) ==
    /\ cl[a].main = "waiting"
    /\ cl' = [cl EXCEPT ![a].main = "timeout"]
    /\ UNCHANGED <<shared, sv, c2s, s2c>>

ReaderEnded(a) == cl[a].pc \in {"done", "failed"}
ServerEnded(a) == sv[a].pc \in {"accept", "done", "failed"}

(* The connection stays open until the reader has ended, too. *)
ClientCloses(a) ==
    /\ cl[a].main \notin {"idle", "waiting"} /\ ReaderEnded(a)
    /\ Closed \notin Range(c2s[a]) /\ ~ServerEnded(a)
    /\ c2s' = [c2s EXCEPT ![a] = Append(@, Closed)]
    /\ UNCHANGED <<shared, cl, sv, s2c>>

(* The connection breaks: both ends read an error. *)
ConnectionBreaks(a) ==
    /\ a \in Breakable /\ cl[a].main # "idle"
    /\ Reset \notin Range(s2c[a])
    /\ ~ReaderEnded(a) \/ ~ServerEnded(a)
    /\ c2s' = [c2s EXCEPT ![a] = <<Reset>>] /\ s2c' = [s2c EXCEPT ![a] = <<Reset>>]
    /\ UNCHANGED <<shared, cl, sv>>

-----------------------------------------------------------------------------
(* The client's reader: client_kex.                                        *)

ClientReads(a, pc) ==
    /\ cl[a].pc = pc /\ s2c[a] # <<>>
    /\ s2c' = [s2c EXCEPT ![a] = Tail(@)]
Arrived(a) == Head(s2c[a])

Initialize(a) == F(IF cl[a].requested = None THEN "Initialize" ELSE "ResumeRequest",
                   [user |-> cl[a].user, uuid |-> cl[a].requested])

(* The reader ends without a word to the state machine. *)
SilentFailure(a, cause) ==
    /\ cl' = [cl EXCEPT ![a] = Fails(@, cause, <<>>)]
    /\ UNCHANGED <<shared, sv, c2s>>

Failure(a, cause, event) ==
    /\ cl' = [cl EXCEPT ![a] = Fails(@, cause, <<event>>)]
    /\ UNCHANGED <<shared, sv, c2s>>

ReadFails(a, pc) ==
    /\ ClientReads(a, pc) /\ Arrived(a) = Reset
    /\ SilentFailure(a, "read")

(* The state machine is not told of the transport of version 1. *)
Bug_Agreed(version) == <<"NegotiatedAlgorithms">>

Agreed(version) ==
    IF version >= 2 THEN <<"NegotiatedAlgorithms">>
                    ELSE <<"NegotiatedAlgorithms", "TransportMode">>

(* A version 1 server is not sent a preference: the data goes over UDP. *)
ReadKexInit(a) ==
    /\ ClientReads(a, "kexinit") /\ Arrived(a).frame = "KexInit"
    /\ LET version == ProtocolVersion(setup.speaks, setup.accepts)
       IN  \/ /\ ~Negotiable(setup.server, setup.client)
              /\ Failure(a, "NoCommonAlgorithm", "NoCommonAlgorithm")
           \/ /\ Negotiable(setup.server, setup.client) /\ version = 0
              /\ Failure(a, "IncompatibleProtocolVersion", "Failure")
           \/ /\ Negotiable(setup.server, setup.client) /\ version # 0
              /\ cl' = [cl EXCEPT ![a] =
                    Emit([@ EXCEPT !.alg = Negotiate(setup.server, setup.client),
                                   !.version = version,
                                   !.pc = IF version >= 2 THEN "transport" ELSE "peerinit",
                                   !.transport = IF version >= 2 THEN cl[a].transport ELSE "Udp"],
                         Agreed(version))]
              /\ c2s' = [c2s EXCEPT ![a] = Append(@,
                    IF version >= 2 THEN F("TransportPreference", setup.tcp)
                                    ELSE Initialize(a))]
              /\ UNCHANGED <<shared, sv>>

ClientTransport(echo) == IF echo /\ setup.tcp THEN "Tcp" ELSE "Udp"

ReadTransportPreference(a) ==
    /\ ClientReads(a, "transport") /\ Arrived(a).frame = "TransportPreference"
    /\ cl' = [cl EXCEPT ![a] =
            Emit([@ EXCEPT !.transport = ClientTransport(Arrived(a).val),
                           !.pc = "peerinit"], <<"TransportMode">>)]
    /\ c2s' = [c2s EXCEPT ![a] = Append(@, Initialize(a))]
    /\ UNCHANGED <<shared, sv>>

(* The proof (post-quantum identities), the options, the environment and   *)
(* the check go out together, encrypted with what was derived.             *)
Transcript(end) == <<end.alg, end.version, end.user>>
If(condition, frame) == IF condition THEN <<frame>> ELSE <<>>
Completion(a, key) ==
       If(setup.ml_dsa, F("IdentityProof", Transcript(cl[a])))
    \o If(setup.diff # "Reliable", F("ClientOptions", setup.diff))
    \o If(setup.env, F("ClientEnv", None))
    \o <<F("Check", key)>>

(* The agent may refuse to sign: locked, or without the key by now. *)
Proceed(a, key, approved) ==
    \/ /\ cl' = [cl EXCEPT ![a] =
                Emit([@ EXCEPT !.key = key, !.pc = "agreement", !.approved = approved],
                     <<"KeyMaterial", "HMACKeyMaterial">>)]
       /\ c2s' = [c2s EXCEPT ![a] = @ \o Completion(a, key)]
    \/ /\ setup.ml_dsa /\ cl[a].identity = "agent"
       /\ cl' = [cl EXCEPT ![a] = Fails([@ EXCEPT !.approved = approved], "agent", <<>>)]
       /\ UNCHANGED c2s

(* What each end derives the session's keys from. *)
SessionKeys(ephemeral, end) == <<ephemeral, end.alg, end.user>>

HostVerified == known \in {"same", "unchecked"}

(* A host that is known goes without a question. *)
ReadPeerInitialize(a) ==
    /\ ClientReads(a, "peerinit") /\ Arrived(a).frame = "PeerInitialize"
    /\ HostVerified
    /\ Proceed(a, SessionKeys(Arrived(a).val, cl[a]), FALSE)
    /\ UNCHANGED <<shared, sv>>

AskAboutHost(a) ==
    /\ ClientReads(a, "peerinit") /\ Arrived(a).frame = "PeerInitialize"
    /\ ~HostVerified
    /\ cl' = [cl EXCEPT ![a].pc = "asking", ![a].key = SessionKeys(Arrived(a).val, cl[a])]
    /\ UNCHANGED <<shared, sv, c2s>>

(* The user accepts the host for this attempt only. *)
Bug_AcceptHost(a) ==
    /\ cl[a].pc = "asking"
    /\ Proceed(a, cl[a].key, TRUE)
    /\ UNCHANGED <<shared, sv, s2c>>

(* An unknown host is appended, a changed one replaced. *)
RememberHost == known' = "same"

AcceptHost(a) ==
    /\ cl[a].pc = "asking"
    /\ RememberHost
    /\ Proceed(a, cl[a].key, TRUE)
    /\ UNCHANGED <<setup, sv, s2c, registry, pool, uuid_file>>

RejectHost(a) ==
    /\ cl[a].pc = "asking"
    /\ Failure(a, "HostKeyRejected", "Failure")
    /\ UNCHANGED s2c

ReadKeyAgreement(a) ==
    /\ ClientReads(a, "agreement") /\ Arrived(a).frame = "KeyAgreement"
    /\ cl' = [cl EXCEPT ![a] = Emit([@ EXCEPT !.uuid = Arrived(a).val, !.pc = "token"],
                                    <<"Uuid">>)]
    /\ UNCHANGED <<shared, sv, c2s>>

(* Whoever asked to resume takes the session for the one it asked for. *)
Bug_IsResume(a, uuid) == cl[a].requested # None

IsResume(a, uuid) == cl[a].requested = uuid

ReadSessionToken(a) ==
    /\ ClientReads(a, "token") /\ Arrived(a).frame = "SessionToken"
    /\ cl' = [cl EXCEPT ![a] =
            Emit([@ EXCEPT !.session = Arrived(a).val,
                           !.resume = IsResume(a, Arrived(a).val), !.pc = "addr"],
                 <<"SessionInfo">>)]
    /\ UNCHANGED <<shared, sv, c2s>>

ReadMoshpitsAddr(a) ==
    /\ ClientReads(a, "addr") /\ Arrived(a).frame = "MoshpitsAddr"
    /\ cl' = [cl EXCEPT ![a] = Emit([@ EXCEPT !.port = Arrived(a).val, !.pc = "done"],
                                    <<"MoshpitsAddr">>)]
    /\ UNCHANGED <<shared, sv, c2s>>

(* KexFailure, or the end of the connection, instead of the next frame. *)
ServerRefuses(a) ==
    /\ s2c[a] # <<>> /\ Arrived(a).frame \in {"KexFailure", "closed"}
    /\ \/ /\ \E pc \in {"kexinit", "peerinit"} : ClientReads(a, pc)
          /\ Arrived(a) = KexFailure
          /\ Failure(a, "refused", "NoCommonAlgorithm")
       \/ /\ ClientReads(a, "kexinit") /\ Arrived(a) = Closed
          /\ Failure(a, "closed", "Failure")
       \/ /\ ClientReads(a, "transport")
          /\ Failure(a, "refused", "Failure")
       \/ /\ ClientReads(a, "peerinit") /\ Arrived(a) = Closed
          /\ SilentFailure(a, "closed")
       \/ /\ \E pc \in {"agreement", "token", "addr"} : ClientReads(a, pc)
          /\ SilentFailure(a, "refused")

-----------------------------------------------------------------------------
(* The server: server_kex.                                                 *)

ServerReads(a, pc, frame) ==
    /\ sv[a].pc = pc /\ c2s[a] # <<>> /\ Head(c2s[a]).frame = frame
    /\ c2s' = [c2s EXCEPT ![a] = Tail(@)]
Send(a, frames) == s2c' = [s2c EXCEPT ![a] = @ \o frames]

(* An error of the server just ends its half. *)
Bug_ServerFails(a, frames) ==
    /\ sv' = [sv EXCEPT ![a].pc = "failed"]
    /\ Send(a, frames)

(* Every error of the server is told to the client as KexFailure. *)
ServerFails(a, frames) ==
    /\ sv' = [sv EXCEPT ![a].pc = "failed"]
    /\ Send(a, frames \o <<KexFailure, Closed>>)

(* Its own KexInit goes out before it looks for common ground. *)
ServerKexInit(a) ==
    /\ ServerReads(a, "kexinit", "KexInit")
    /\ LET version == ProtocolVersion(setup.accepts, setup.speaks)
       IN  IF Negotiable(setup.server, setup.client) /\ version # 0
           THEN /\ sv' = [sv EXCEPT ![a] =
                    [@ EXCEPT !.alg = Negotiate(setup.server, setup.client),
                              !.version = version,
                              !.pc = IF version >= 2 THEN "transport" ELSE "initialize",
                              !.transport = IF version >= 2 THEN sv[a].transport
                                             ELSE "Udp"]]
                /\ Send(a, <<F("KexInit", None)>>)
           ELSE ServerFails(a, <<F("KexInit", None)>>)
    /\ UNCHANGED <<shared, cl>>

ServerTransport(a) ==
    /\ ServerReads(a, "transport", "TransportPreference")
    /\ LET tcp == Head(c2s[a]).val /\ setup.allow_tcp
       IN  /\ sv' = [sv EXCEPT ![a].transport = IF tcp THEN "Tcp" ELSE "Udp",
                               ![a].pc = "initialize"]
           /\ Send(a, <<F("TransportPreference", tcp)>>)
    /\ UNCHANGED <<shared, cl>>

ValidUser == setup.account
AuthorizedKey == setup.authorized

(* The server's half of the key is this attempt's ephemeral one. *)
PeerInitialize(a) == F("PeerInitialize", a)

ServerInitialize(a) ==
    /\ \E frame \in {"Initialize", "ResumeRequest"} : ServerReads(a, "initialize", frame)
    /\ IF ValidUser /\ AuthorizedKey
       THEN LET v == Head(c2s[a]).val
            IN  /\ sv' = [sv EXCEPT ![a] =
                    [@ EXCEPT !.user = v.user, !.requested = v.uuid,
                              !.key = SessionKeys(a, [sv[a] EXCEPT !.user = v.user]),
                              !.pc = IF setup.ml_dsa THEN "proof" ELSE "options"]]
                /\ Send(a, <<PeerInitialize(a)>>)
       ELSE ServerFails(a, <<>>)
    /\ UNCHANGED <<shared, cl>>

(* The signature covers what the two ends negotiated. *)
ServerProof(a) ==
    /\ ServerReads(a, "proof", "IdentityProof")
    /\ IF Head(c2s[a]).val = Transcript(sv[a])
       THEN sv' = [sv EXCEPT ![a].proven = TRUE, ![a].pc = "options"] /\ UNCHANGED s2c
       ELSE ServerFails(a, <<>>)
    /\ UNCHANGED <<shared, cl>>

ServerOptions(a) ==
    /\ ServerReads(a, "options", "ClientOptions")
    /\ sv' = [sv EXCEPT ![a].diff = Head(c2s[a]).val, ![a].pc = "env"]
    /\ UNCHANGED <<shared, cl, s2c>>

ServerEnv(a) ==
    /\ \E pc \in {"options", "env"} : ServerReads(a, pc, "ClientEnv")
    /\ sv' = [sv EXCEPT ![a].env = TRUE, ![a].pc = "check"]
    /\ UNCHANGED <<shared, cl, s2c>>

ServerCheck(a) ==
    /\ \E pc \in {"options", "env", "check"} : ServerReads(a, pc, "Check")
    /\ IF Head(c2s[a]).val = sv[a].key
       THEN /\ sv' = [sv EXCEPT ![a].uuid = a, ![a].pc = "session"]
            /\ Send(a, <<F("KeyAgreement", a)>>)
       ELSE ServerFails(a, <<>>)
    /\ UNCHANGED <<shared, cl>>

(* Any session that is known is resumed. *)
MayResume(a) ==
    /\ sv[a].requested \in DOMAIN registry
    /\ registry[sv[a].requested] = sv[a].user

(* The token goes out before there is a port for the session. *)
ServerSession(a) ==
    /\ sv[a].pc = "session"
    /\ LET session == IF MayResume(a) THEN sv[a].requested ELSE a
       IN  /\ sv' = [sv EXCEPT ![a].session = session, ![a].resume = MayResume(a),
                               ![a].pc = "setup"]
           /\ registry' = IF MayResume(a) THEN registry
                          ELSE [t \in DOMAIN registry \cup {session} |->
                                    IF t = session THEN sv[a].user ELSE registry[t]]
           /\ Send(a, <<F("SessionToken", session)>>)
    /\ UNCHANGED <<setup, cl, c2s, known, pool, uuid_file>>

ServerSetup(a) ==
    /\ sv[a].pc = "setup"
    /\ \/ \E port \in pool :
            /\ \A p \in pool : port <= p
            /\ pool' = pool \ {port}
            /\ sv' = [sv EXCEPT ![a].port = port,
                                ![a].pc = IF sv[a].transport = "Tcp" THEN "accept" ELSE "done"]
            /\ Send(a, <<F("MoshpitsAddr", port)>>)
       \/ pool = {} /\ ServerFails(a, <<>>) /\ UNCHANGED pool
    /\ UNCHANGED <<setup, cl, c2s, known, registry, uuid_file>>

(* Frames the server did not expect, and the end of the connection. *)
ServerGivesUp(a) ==
    /\ sv[a].pc \in {"kexinit", "transport", "initialize", "proof", "options", "env", "check"}
    /\ c2s[a] # <<>> /\ Head(c2s[a]) \in {Closed, Reset}
    /\ c2s' = [c2s EXCEPT ![a] = Tail(@)]
    /\ ServerFails(a, <<>>)
    /\ UNCHANGED <<shared, cl>>

(* A session ends: its shell exits.  The port of the connection that came  *)
(* last is free again; a TCP connection is noted with port 0.              *)
SessionEnds ==
    \E a \in Attempts :
        /\ sv[a].pc = "done" /\ sv[a].session \in DOMAIN registry
        /\ \A b \in Attempts : (sv[b].pc = "done" /\ sv[b].session = sv[a].session) => b <= a
        /\ registry' = [t \in DOMAIN registry \ {sv[a].session} |-> registry[t]]
        /\ pool' = pool \cup {IF sv[a].transport = "Tcp" THEN 0 ELSE sv[a].port}
        /\ UNCHANGED <<setup, cl, sv, c2s, s2c, known, uuid_file>>

-----------------------------------------------------------------------------

ClientStep(a) ==
    \/ ReadKexInit(a) \/ ReadTransportPreference(a) \/ ReadPeerInitialize(a)
    \/ AskAboutHost(a) \/ ReadKeyAgreement(a) \/ ReadSessionToken(a)
    \/ ReadMoshpitsAddr(a) \/ ServerRefuses(a) \/ ClientCloses(a)
    \/ \E pc \in {"kexinit", "transport", "peerinit", "agreement", "token", "addr"} :
            ReadFails(a, pc)
Answer(a) == AcceptHost(a) \/ RejectHost(a)
ServerStep(a) ==
    \/ ServerKexInit(a) \/ ServerTransport(a) \/ ServerInitialize(a) \/ ServerProof(a)
    \/ ServerOptions(a) \/ ServerEnv(a) \/ ServerCheck(a) \/ ServerSession(a)
    \/ ServerSetup(a) \/ ServerGivesUp(a)

Next ==
    \/ \E a \in Attempts :
        \/ StartAttempt(a) \/ MainEnds(a) \/ DataPortBlocked(a) \/ KexTimeout(a)
        \/ ConnectionBreaks(a) \/ ClientStep(a) \/ Answer(a) \/ ServerStep(a)
    \/ SessionEnds

Spec == Init /\ [][Next]_vars

(* The tasks of both ends go on, the user answers, the deadline passes. *)
Fairness == \A a \in Attempts :
    /\ WF_vars(ClientStep(a)) /\ WF_vars(Answer(a)) /\ WF_vars(ServerStep(a))
    /\ WF_vars(MainEnds(a) \/ KexTimeout(a))

FairSpec == Spec /\ Fairness

-----------------------------------------------------------------------------
(* Properties.                                                             *)

Algs == Range(setup.client) \cup {"none"}
Transports == {"none", "Tcp", "Udp"}
Versions == {0} \cup ((setup.speaks.min .. setup.speaks.max)
                      \cap (setup.accepts.min .. setup.accepts.max))
IdOrNone == Attempts \cup {None}

TypeOK ==
    /\ setup \in Setups
    /\ \A a \in Attempts :
        /\ cl[a].pc \in {"idle", "kexinit", "transport", "peerinit", "asking",
                         "agreement", "token", "addr", "done", "failed"}
        /\ cl[a].main \in {"idle", "waiting", "ok", "timeout", "unconnected",
                           "InvalidKexState"} \cup Fatal
        /\ cl[a].accepted \in 0..Len(Events)
        /\ {cl[a].alg, sv[a].alg} \subseteq Algs
        /\ {cl[a].version, sv[a].version} \subseteq Versions
        /\ {cl[a].transport, sv[a].transport} \subseteq Transports
        /\ {cl[a].requested, cl[a].uuid, cl[a].session, sv[a].requested,
            sv[a].uuid, sv[a].session} \subseteq IdOrNone
        /\ {cl[a].port, sv[a].port} \subseteq Ports \cup {None}
        /\ {cl[a].user, sv[a].user} \subseteq Users \cup {None}
        /\ sv[a].pc \in {"kexinit", "transport", "initialize", "proof", "options", "env",
                         "check", "session", "setup", "accept", "done", "failed"}
    /\ known \in {"unknown", "same", "other", "unchecked"}
    /\ registry \in [DOMAIN registry -> Users] /\ DOMAIN registry \subseteq Attempts
    /\ pool \subseteq Ports \cup {0} /\ uuid_file \in IdOrNone

(* A client that has what it takes for a session finds the server with the *)
(* same idea of it: algorithm, version, transport, key, the session and    *)
(* whether it is an old one, what the client wants of the screen and the   *)
(* environment - and a proof where the identity calls for one              *)
(* (kex/reader.rs:852-1222, 426-845).                                      *)
EndsAgree ==
    \A a \in Attempts : cl[a].main = "ok" =>
        /\ sv[a].pc = "done"
        /\ \A x \in {"alg", "version", "transport", "key", "uuid", "session",
                     "resume", "user", "port"} : cl[a][x] = sv[a][x]
        /\ sv[a].diff = setup.diff /\ sv[a].env = setup.env
        /\ sv[a].proven = setup.ml_dsa

(* TCP carries the data if both ends want that and both speak version 2    *)
(* (README.md:86), and else UDP; two ends with something in common never   *)
(* end with an algorithm the server likes less (negotiate.rs:222-262).     *)
BestInCommon ==
    \A a \in Attempts : cl[a].main = "ok" =>
        /\ cl[a].transport = "Tcp" <=> /\ setup.tcp /\ setup.allow_tcp
                                      /\ setup.speaks.max >= 2 /\ setup.accepts.max >= 2
        /\ \E j \in DOMAIN setup.server :
              /\ setup.server[j] = sv[a].alg /\ sv[a].alg \in Range(setup.client)
              /\ \A i \in 1..(j - 1) : setup.server[i] \notin Range(setup.client)

(* The state machine gets the events it waits for, in their order, from a  *)
(* reader that has not failed, whatever the version and whatever was       *)
(* refused along the way (kex/mod.rs:341-400).                             *)
ReaderKeepsOrder ==
    \A a \in Attempts : cl[a].verdict = "InvalidKexState" => cl[a].cause # "none"

(* A host the user has accepted is not asked about again, by an attempt    *)
(* given up while the question was open either (kex/reader.rs:1754-1812).  *)
AcceptedOnce ==
    [][ \A a, b \in Attempts :
            (cl[a].pc # "asking" /\ cl'[a].pc = "asking") => ~cl[b].approved ]_vars

(* Each attempt leaves no one behind: its reader and its server come to an *)
(* end though the program may have given the attempt up long ago and goes  *)
(* on.  The server's wait for a TCP data connection is excepted: it has no *)
(* deadline (kex/reader.rs:1474-1475).                                     *)
ConnectionsSettle ==
    \A a \in Attempts : (cl[a].pc # "idle") ~> (ReaderEnded(a) /\ ServerEnded(a))

(* runtime.rs:978-1013 tells the user of a version that does not fit and   *)
(* ends the program when the user has rejected the host: errors it expects *)
(* from the exchange.                                                      *)
VerdictTellsCause ==
    \A a \in Attempts :
        cl[a].main = "InvalidKexState" =>
            cl[a].cause \notin {"HostKeyRejected", "IncompatibleProtocolVersion"}

=============================================================================
