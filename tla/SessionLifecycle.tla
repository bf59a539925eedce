-------------------------- MODULE SessionLifecycle --------------------------
(***************************************************************************)
(* The sessions of a server: the connections that create and resume them   *)
(* (moshpits/src/runtime.rs, libmoshpit/src/kex/reader.rs), the registries *)
(* and the port pool they share, and the thread that reads each session's  *)
(* PTY.  A step is what happens under one lock or between two awaits.      *)
(*                                                                         *)
(* Connections are numbered.  A connection's number also names the UUID    *)
(* that Uuid::new_v4 gives it, the session it creates (the Arcs of one     *)
(* SessionRecord) and that session's PTY reader.                           *)
(*                                                                         *)
(* The output of a DiffMode::StateSync session never takes the channel of  *)
(* the output handle: its reader is one that never does ReadOutput.        *)
(*                                                                         *)
(* An operator Bug_X is X with a mistake this code could have.             *)
(***************************************************************************)
EXTENDS Naturals, FiniteSets, Functions

CONSTANTS
    MaxConns,       \* bound on the connections made
    MaxPending,     \* bound on those that exchange keys at a time
    Users,
    Ports,          \* 50000..59999
    Ephemeral,      \* the port the OS picks when asked for port 0
    Transports,     \* transports the server agrees to: "udp", "tcp"
    DataCapacity    \* of the data channel (256)

Conns == 1..MaxConns
None  == 0

ASSUME SessionAssumption ==
    /\ MaxConns \in Nat /\ MaxPending \in Nat /\ DataCapacity \in Nat \ {0}
    /\ Ports \subseteq Nat \ {0} /\ IsFiniteSet(Ports)
    /\ Ephemeral \in Nat \ ({0} \cup Ports)
    /\ Transports \subseteq {"udp", "tcp"}

VARIABLES
    port_pool,
    session_registry,   \* uuid -> user, for the key exchange
    full_registry,      \* uuid -> session
    output_handle,      \* session -> channels, token and port in use
    conn,               \* connection -> what handle_connection knows
    cancelled,          \* connections whose token is cancelled
    backlog,            \* frames in a connection's data channel
    reader,             \* session -> where its PTY reader is
    sender_clone        \* session -> channel its reader is sending on

vars == <<port_pool, session_registry, full_registry, output_handle, conn,
          cancelled, backlog, reader, sender_clone>>

Detached == [chan |-> None, conn_token |-> None, udp_port |-> None]
Idle     == [stage |-> "idle", user |-> None, uuid |-> None, is_resume |-> FALSE,
             transport |-> "none", candidates |-> {}, advertised |-> None,
             bound |-> None, session |-> None]

Init ==
    /\ port_pool = Ports
    /\ session_registry = [u \in {} |-> None]
    /\ full_registry = [u \in {} |-> None]
    /\ output_handle = [s \in Conns |-> Detached]
    /\ conn = [c \in Conns |-> Idle]
    /\ cancelled = {}
    /\ backlog = [c \in Conns |-> 0]
    /\ reader = [s \in Conns |-> "none"]
    /\ sender_clone = [s \in Conns |-> None]

Insert(f, k, v) == [x \in DOMAIN f \cup {k} |-> IF x = k THEN v ELSE f[x]]
Delete(f, k)    == Restrict(f, DOMAIN f \ {k})

Enter(c, stage) == conn' = [conn EXCEPT ![c].stage = stage]
ReaderTo(s, at) == reader' = [reader EXCEPT ![s] = at]
Cancel(S)       == cancelled' = cancelled \cup (S \ {None})

kexVars     == <<port_pool, session_registry>>
handleVars  == <<full_registry, output_handle, cancelled>>
readerVars  == <<backlog, reader, sender_clone>>

-----------------------------------------------------------------------------
(* The key exchange of connection c, from the decision on.                 *)

(* The UUID is looked up, the user it belongs to is not compared. *)
Bug_Resumable(u, req) == req \in DOMAIN session_registry

Resumable(u, req) == req \in DOMAIN session_registry /\ session_registry[req] = u

(* A request that is refused still names the new session. *)
Bug_SessionUuid(c, u, req) == IF req # None THEN req ELSE c

SessionUuid(c, u, req) == IF Resumable(u, req) THEN req ELSE c

Pending(c) == conn[c].stage \in {"setup", "binding", "accepting", "resolving",
                                 "attaching", "repainting", "creating"}

(* A client may ask for any session there ever was; it is told which one   *)
(* it gets.                                                                *)
DecideSession(c) ==
    /\ conn[c].stage = "idle"
    /\ \A d \in Conns : d < c => conn[d].stage # "idle"
    /\ Cardinality({d \in Conns : Pending(d)}) < MaxPending
    /\ \E u \in Users, t \in Transports, req \in {conn[d].uuid : d \in Conns} :
        LET uuid   == SessionUuid(c, u, req)
            resume == Resumable(u, req)
        IN  /\ conn' = [conn EXCEPT ![c] =
                  [@ EXCEPT !.stage = "setup", !.user = u, !.uuid = uuid,
                            !.is_resume = resume, !.transport = t]]
            /\ session_registry' = IF resume THEN session_registry
                                   ELSE Insert(session_registry, uuid, u)
    /\ UNCHANGED <<port_pool, handleVars, readerVars>>

(* The client has gone when its token or its port is to be sent.           *)
KexFails(c) ==
    /\ conn[c].stage \in {"setup", "accepting", "resolving"}
    /\ Enter(c, "failed")
    /\ UNCHANGED <<kexVars, handleVars, readerVars>>

SnapshotPorts(c) ==
    /\ conn[c].stage = "setup"
    /\ conn' = [conn EXCEPT ![c].stage = "binding", ![c].candidates = port_pool]
    /\ UNCHANGED <<kexVars, handleVars, readerVars>>

(* What the OS lets nobody else bind: a UDP socket, a TCP listener until   *)
(* it has accepted.                                                        *)
SocketsOpen(t) ==
    {conn[d].bound : d \in {e \in Conns :
        /\ conn[e].transport = t
        /\ conn[e].stage \in IF t = "udp"
                             THEN {"resolving", "attaching", "repainting", "creating",
                                   "waiting", "live"}
                             ELSE {"accepting"}}}

(* The ports are tried in ascending order.  Another program may hold any   *)
(* of them; port 0 is never refused.                                       *)
Bindable(c) == LET free == conn[c].candidates \ SocketsOpen(conn[c].transport)
               IN  IF 0 \in free THEN {0} ELSE free

BindFails(c) ==
    /\ conn[c].stage = "binding" /\ 0 \notin Bindable(c)
    /\ Enter(c, "failed")
    /\ UNCHANGED <<kexVars, handleVars, readerVars>>

(* Any port does for a socket bound to port 0.                             *)
Bind(c) ==
    /\ conn[c].stage = "binding"
    /\ \E port \in Bindable(c) :
        /\ port_pool' = port_pool \ {port}
        /\ conn' = [conn EXCEPT ![c] =
              [@ EXCEPT !.advertised = port, !.candidates = {},
                        !.bound = IF port = 0 THEN Ephemeral ELSE port,
                        !.stage = IF conn[c].transport = "tcp" THEN "accepting"
                                                               ELSE "resolving"]]
    /\ UNCHANGED <<session_registry, handleVars, readerVars>>

(* Only a client that was told the right port can connect to it.           *)
Reachable(c) == conn[c].advertised = conn[c].bound

Accept(c) ==
    /\ conn[c].stage = "accepting" /\ Reachable(c)
    /\ Enter(c, "resolving")
    /\ UNCHANGED <<kexVars, handleVars, readerVars>>

-----------------------------------------------------------------------------
(* resolve_session.                                                        *)

data_port(c) == IF conn[c].transport = "tcp" THEN 0 ELSE conn[c].bound

(* The first packet tells a UDP connection where to send.                  *)
Running(c) == IF conn[c].transport = "tcp" THEN "live" ELSE "waiting"

(* The Arcs of the record are cloned and the registry's lock is dropped.   *)
Resolve(c) ==
    /\ conn[c].stage = "resolving"
    /\ IF conn[c].is_resume /\ conn[c].uuid \in DOMAIN full_registry
       THEN conn' = [conn EXCEPT ![c].stage = "attaching",
                                 ![c].session = full_registry[conn[c].uuid]]
       ELSE Enter(c, "creating")
    /\ UNCHANGED <<kexVars, handleVars, readerVars>>

Install(s, c) ==
    output_handle' = [output_handle EXCEPT ![s] =
        [chan |-> c, conn_token |-> c, udp_port |-> data_port(c)]]

(* The connection displaced is left to its silence watchdog. *)
Bug_Attach(c) ==
    /\ conn[c].stage = "attaching"
    /\ Install(conn[c].session, c)
    /\ Enter(c, "repainting")
    /\ UNCHANGED <<kexVars, full_registry, cancelled, readerVars>>

Attach(c) ==
    /\ conn[c].stage = "attaching"
    /\ LET s == conn[c].session IN
        /\ Cancel({output_handle[s].conn_token})
        /\ Install(s, c)
    /\ Enter(c, "repainting")
    /\ UNCHANGED <<kexVars, full_registry, readerVars>>

(* The screen goes into the data channel.  The session's reader has had    *)
(* the channel since Attach, and the task that drains it is spawned later. *)
SendScreen(c) ==
    /\ conn[c].stage = "repainting" /\ backlog[c] < DataCapacity
    /\ backlog' = [backlog EXCEPT ![c] = @ + 1]
    /\ Enter(c, Running(c))
    /\ UNCHANGED <<kexVars, handleVars, reader, sender_clone>>

NewSession(c) ==
    /\ conn[c].stage = "creating"
    /\ full_registry' = Insert(full_registry, conn[c].uuid, c)
    /\ Install(c, c)
    /\ conn' = [conn EXCEPT ![c].stage = Running(c), ![c].session = c]
    /\ ReaderTo(c, "starting")
    /\ UNCHANGED <<kexVars, cancelled, backlog, sender_clone>>

-----------------------------------------------------------------------------
(* The tasks of a connection.                                              *)

(* The UDP reader waits for it without watching the token.                 *)
FirstPacket(c) ==
    /\ conn[c].stage = "waiting" /\ Reachable(c)
    /\ Enter(c, "live")
    /\ UNCHANGED <<kexVars, handleVars, readerVars>>

ForwardFrame(c) ==
    /\ conn[c].stage = "live" /\ c \notin cancelled /\ backlog[c] > 0
    /\ backlog' = [backlog EXCEPT ![c] = @ - 1]
    /\ UNCHANGED <<kexVars, handleVars, conn, reader, sender_clone>>

SilenceTimeout(c) ==
    /\ conn[c].stage \in {"waiting", "live"} /\ c \notin cancelled
    /\ Cancel({c})
    /\ UNCHANGED <<kexVars, full_registry, output_handle, conn, readerVars>>

(* What is in the channel is sent first, by a loop that has ended. *)
Bug_StopTasks(c) ==
    /\ conn[c].stage = "live" /\ c \in cancelled /\ backlog[c] = 0
    /\ Enter(c, "closed")
    /\ UNCHANGED <<kexVars, handleVars, readerVars>>

(* The socket is closed and the channels lose their receivers.             *)
StopTasks(c) ==
    /\ conn[c].stage = "live" /\ c \in cancelled
    /\ Enter(c, "closed")
    /\ UNCHANGED <<kexVars, handleVars, readerVars>>

-----------------------------------------------------------------------------
(* spawn_pty and the thread of spawn_pty_reader.                           *)

StartPty(s) ==
    /\ reader[s] = "starting"
    /\ ReaderTo(s, "reading")
    /\ UNCHANGED <<kexVars, handleVars, conn, backlog, sender_clone>>

(* No PTY, or the shell may not run as this user.                          *)
PtyFails(s) ==
    /\ reader[s] = "starting"
    /\ ReaderTo(s, "absent")
    /\ UNCHANGED <<kexVars, handleVars, conn, backlog, sender_clone>>

ReadOutput(s) ==
    /\ reader[s] = "reading" /\ output_handle[s].chan # None
    /\ sender_clone' = [sender_clone EXCEPT ![s] = output_handle[s].chan]
    /\ ReaderTo(s, "sending")
    /\ UNCHANGED <<kexVars, handleVars, conn, backlog>>

(* blocking_send, outside the lock.                                        *)
SendOutput(s) ==
    /\ reader[s] = "sending"
    /\ LET c == sender_clone[s] IN
        IF conn[c].stage = "closed"
        THEN ReaderTo(s, "clearing") /\ UNCHANGED backlog
        ELSE /\ backlog[c] < DataCapacity
             /\ backlog' = [backlog EXCEPT ![c] = @ + 1]
             /\ ReaderTo(s, "reading")
    /\ sender_clone' = [sender_clone EXCEPT ![s] = None]
    /\ UNCHANGED <<kexVars, handleVars, conn>>

ClearChannels(s) ==
    /\ reader[s] = "clearing"
    /\ output_handle' = [output_handle EXCEPT ![s].chan = None]
    /\ ReaderTo(s, "reading")
    /\ UNCHANGED <<kexVars, full_registry, cancelled, conn, backlog, sender_clone>>

(* The shell exits.  PtyExit goes to the control channel, which has room:  *)
(* a connection that nobody serves is cancelled after 35 s at the latest,  *)
(* with at most 13 keepalives in a channel of 16.                          *)
ShellExits(s) ==
    /\ reader[s] = "reading"
    /\ ReaderTo(s, "exiting")
    /\ UNCHANGED <<kexVars, handleVars, conn, backlog, sender_clone>>

ReleaseHandle(s) ==
    /\ reader[s] = "exiting"
    /\ Cancel({output_handle[s].conn_token})
    /\ port_pool' = IF output_handle[s].conn_token = None THEN port_pool
                    ELSE port_pool \cup {output_handle[s].udp_port}
    /\ output_handle' = [output_handle EXCEPT ![s] = Detached]
    /\ ReaderTo(s, "unregistering")
    /\ UNCHANGED <<session_registry, full_registry, conn, backlog, sender_clone>>

RemoveUuid(s) ==
    /\ reader[s] = "unregistering"
    /\ session_registry' = Delete(session_registry, conn[s].uuid)
    /\ ReaderTo(s, "removing")
    /\ UNCHANGED <<port_pool, handleVars, conn, backlog, sender_clone>>

(* The record is looked for under the UUID the session was made for. *)
Bug_RemoveRecord(s) ==
    /\ reader[s] = "removing"
    /\ full_registry' = Delete(full_registry, s)
    /\ ReaderTo(s, "done")
    /\ UNCHANGED <<kexVars, output_handle, cancelled, conn, backlog, sender_clone>>

RemoveRecord(s) ==
    /\ reader[s] = "removing"
    /\ full_registry' = Delete(full_registry, conn[s].uuid)
    /\ ReaderTo(s, "done")
    /\ UNCHANGED <<kexVars, output_handle, cancelled, conn, backlog, sender_clone>>

-----------------------------------------------------------------------------
(* What the runtime schedules.  That a client appears, goes silent or asks *)
(* for anything, and that a shell writes or exits, is up to them; one that *)
(* was told its port sends to it.                                          *)

Connection(c) ==
    \/ DecideSession(c) \/ KexFails(c) \/ SnapshotPorts(c) \/ BindFails(c)
    \/ Bind(c) \/ Accept(c) \/ Resolve(c) \/ Attach(c) \/ SendScreen(c)
    \/ NewSession(c)
    \/ FirstPacket(c) \/ ForwardFrame(c) \/ SilenceTimeout(c) \/ StopTasks(c)

PtyReader(s) ==
    \/ StartPty(s) \/ PtyFails(s) \/ ReadOutput(s) \/ SendOutput(s)
    \/ ClearChannels(s) \/ ShellExits(s) \/ ReleaseHandle(s) \/ RemoveUuid(s)
    \/ RemoveRecord(s)

Next == \E i \in Conns : Connection(i) \/ PtyReader(i)

Fairness ==
    /\ \A c \in Conns : WF_vars(SendScreen(c)) /\ WF_vars(FirstPacket(c))
                        /\ WF_vars(ForwardFrame(c)) /\ WF_vars(StopTasks(c))
    /\ \A s \in Conns : WF_vars(SendOutput(s)) /\ WF_vars(ClearChannels(s))
                        /\ WF_vars(ReleaseHandle(s)) /\ WF_vars(RemoveUuid(s))
                        /\ WF_vars(RemoveRecord(s))

Spec     == Init /\ [][Next]_vars
FairSpec == Spec /\ Fairness

-----------------------------------------------------------------------------
ConnType ==
    [stage : {"idle", "setup", "binding", "accepting", "resolving", "attaching",
              "repainting", "creating", "waiting", "live", "closed", "failed"},
     user : Users \cup {None}, uuid : Conns \cup {None}, is_resume : BOOLEAN,
     transport : {"udp", "tcp", "none"}, candidates : SUBSET (Ports \cup {0, Ephemeral}),
     advertised : Ports \cup {0, Ephemeral}, bound : Ports \cup {0, Ephemeral},
     session : Conns \cup {None}]

(* Every variable has its type, the pool holds ports, and a uuid with a    *)
(* record or a user was given to some connection.                          *)
TypeOK ==
    /\ port_pool \subseteq Ports \cup {0, Ephemeral}
    /\ DOMAIN session_registry \subseteq Conns
    /\ \A u \in DOMAIN session_registry : session_registry[u] \in Users
    /\ DOMAIN full_registry \subseteq Conns
    /\ \A u \in DOMAIN full_registry : full_registry[u] \in Conns
    /\ output_handle \in [Conns -> [chan : Conns \cup {None}, conn_token : Conns \cup {None},
                                    udp_port : Ports \cup {0, Ephemeral}]]
    /\ conn \in [Conns -> ConnType]
    /\ cancelled \subseteq Conns
    /\ backlog \in [Conns -> 0..DataCapacity]
    /\ reader \in [Conns -> {"none", "starting", "absent", "reading", "sending",
                             "clearing", "exiting", "unregistering", "removing", "done"}]
    /\ sender_clone \in [Conns -> Conns \cup {None}]

(* What a shell writes goes to connections of the user who started it, and *)
(* to nobody else's: through the handle, and through a channel that the    *)
(* reader took from it before a resume replaced it                         *)
(* (kex/reader.rs:1175-1189, runtime.rs:312-323, 1303).                    *)
OutputStaysWithUser ==
    \A s \in Conns : \A c \in {output_handle[s].chan, sender_clone[s]} \ {None} :
        conn[c].user = conn[s].user

(* At most one connection serves a session: every other one that did has   *)
(* its token cancelled, so two clients never both type into a shell, and a *)
(* stale one is not kept alive by its own keepalives (runtime.rs:315-323). *)
OneConnectionServes ==
    \A c \in Conns :
        conn[c].stage \in {"repainting", "waiting", "live"} /\ c \notin cancelled
            => output_handle[conn[c].session].conn_token = c

IsRegistered(s) ==
    /\ conn[s].uuid \in DOMAIN full_registry /\ full_registry[conn[s].uuid] = s
    /\ conn[s].uuid \in DOMAIN session_registry
    /\ session_registry[conn[s].uuid] = conn[s].user

ShellRuns(s) == reader[s] \in {"reading", "sending", "clearing"}

(* A session whose shell runs stops being the one its UUID resumes only    *)
(* through its own user, who was given that UUID a second time while no    *)
(* record of it was there: whatever the others ask for, fail at or leave   *)
(* behind, they cannot take it (kex/reader.rs:1175-1195,                   *)
(* runtime.rs:1385-1392).                                                  *)
LostOnlyToItsUser ==
    [][\A s \in Conns :
        (ShellRuns(s) /\ IsRegistered(s) /\ ~IsRegistered(s)')
            => \E d \in Conns \ {s} :
                /\ conn[d].uuid = conn[s].uuid /\ conn[d].user = conn[s].user
                /\ conn[d] # conn'[d] \/ reader[d] # reader'[d]]_vars

(* A shell is never blocked for good by a connection whose tasks run, or   *)
(* whose client is yet to send its first packet: its output is taken, or   *)
(* the connection's end is noticed and the session goes on without one     *)
(* (runtime.rs:1284-1345, sender.rs:141).  One that is still sending the   *)
(* resumed screen is excepted, see ResumeGoesOn.                           *)
ReachableClientNeverBlocksShell ==
    \A s \in Conns :
        ( /\ reader[s] = "sending" /\ sender_clone[s] \in Conns
          /\ Reachable(sender_clone[s]) /\ conn[sender_clone[s]].stage # "repainting" )
            ~> reader[s] # "sending"

(* A shell that exits takes its session with it: whatever resumes and new   *)
(* sessions under the same UUID run beside the clean-up, the thread ends    *)
(* and no UUID resumes the dead session any more (runtime.rs:1372-1392).    *)
ExitEndsSession ==
    \A s \in Conns :
        reader[s] = "exiting" ~> reader[s] = "done" /\ s \notin Range(full_registry)

-----------------------------------------------------------------------------
(* What the repository says and the code does not do.                      *)

(* README.md:182: the client reconnects to the same logical session.  As   *)
(* long as a shell runs, its user can resume it.                           *)
RunningIsResumable ==
    \A s \in Conns : ShellRuns(s) => IsRegistered(s)

(* runtime.rs:274: a resume sends the screen, for an instant clean repaint. *)
(* It then runs the connection's tasks.                                    *)
ResumeGoesOn ==
    \A c \in Conns : conn[c].stage = "repainting" ~> conn[c].stage # "repainting"

(* kex/reader.rs:1407: a client is never pointed at a port that is not     *)
(* open for it.                                                            *)
AdvertisedIsBound ==
    \A c \in Conns : conn[c].stage \in {"accepting", "waiting"} => Reachable(c)
=============================================================================
