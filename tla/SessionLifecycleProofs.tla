----------------------- MODULE SessionLifecycleProofs -----------------------
(***************************************************************************)
(* For any number of connections, users and ports: what a shell writes     *)
(* stays with its user, one connection at a time serves a session, and a   *)
(* running session is lost only to its user.                               *)
(*                                                                         *)
(* All rest on who owns a UUID.  A UUID is given out under the number of  *)
(* the connection that asked for a new session, and to another connection  *)
(* only if that one's user is the same; a record is kept under the UUID of *)
(* the connection that made it; and no connection is attached to a session *)
(* that is not made yet.                                                   *)
(***************************************************************************)
EXTENDS SessionLifecycle, TLAPS

Decided(c) == conn[c].stage # "idle"

(* Whoever has a UUID has the user of the connection it is named after. *)
UuidsKeepTheirUser ==
    /\ \A c \in Conns : Decided(c) =>
        /\ conn[c].uuid \in Conns /\ Decided(conn[c].uuid)
        /\ conn[conn[c].uuid].user = conn[c].user
    /\ \A u \in DOMAIN session_registry :
        Decided(u) /\ session_registry[u] = conn[u].user

(* A record's session exists, and was made by a connection with its UUID. *)
RecordsNameTheirMaker ==
    \A u \in DOMAIN full_registry :
        LET s == full_registry[u] IN conn[s].session = s /\ conn[s].uuid = u

(* A connection's session was made by a connection of its user. *)
SessionsKeepTheirUser ==
    \A c \in Conns : conn[c].session # None =>
        /\ Decided(c)
        /\ LET s == conn[c].session IN
            /\ Decided(s) /\ conn[s].session = s /\ conn[s].user = conn[c].user

(* From when on a connection has a session. *)
StagesFit ==
    \A c \in Conns :
        /\ conn[c].stage \in {"idle", "setup", "binding", "accepting", "resolving",
                              "creating"} => conn[c].session = None
        /\ conn[c].stage \in {"attaching", "repainting", "waiting", "live"} => conn[c].session # None

(* The channel in a handle, or one its reader is sending on. *)
ChannelsKeepTheirUser ==
    \A s \in Conns : \A c \in {output_handle[s].chan, sender_clone[s]} \ {None} :
        Decided(c) /\ Decided(s) /\ conn[c].user = conn[s].user

Ownership ==
    /\ UuidsKeepTheirUser /\ RecordsNameTheirMaker /\ SessionsKeepTheirUser
    /\ StagesFit /\ ChannelsKeepTheirUser

IInv == TypeOK /\ Ownership /\ OneConnectionServes

-----------------------------------------------------------------------------
(* A connection's number is not the value that stands for no connection.    *)
LEMMA NoneIsNoConnection == None \notin Conns
  BY DEF None, Conns

(* A handle without a connection has the type of a handle.                  *)
LEMMA DetachedTyped ==
    Detached \in [chan : Conns \cup {None}, conn_token : Conns \cup {None},
                  udp_port : Ports \cup {0, Ephemeral}]
  BY DEF Detached, None

-----------------------------------------------------------------------------
(* The initial state: nobody has connected.                                 *)
LEMMA InitIInv == Init => IInv
<1> SUFFICES ASSUME Init PROVE IInv
  OBVIOUS
<1>1. TypeOK
  <2>1. Idle \in ConnType
    BY DEF Idle, ConnType, None
  <2>2. conn \in [Conns -> ConnType]
    BY <2>1 DEF Init
  <2> QED
    BY SessionAssumption, DetachedTyped, <2>2 DEF Init, TypeOK
<1>2. Ownership
  BY DEF Init, Ownership, UuidsKeepTheirUser, RecordsNameTheirMaker, StagesFit,
         SessionsKeepTheirUser, ChannelsKeepTheirUser, Decided, Idle, Detached
<1>3. OneConnectionServes
  BY DEF Init, OneConnectionServes, Idle
<1> QED
  BY <1>1, <1>2, <1>3 DEF IInv

(* A field of a connection that gets a value of its type keeps the          *)
(* connection's.                                                            *)
LEMMA FieldTyped ==
    ASSUME NEW r \in ConnType
    PROVE  /\ \A x \in {"idle", "setup", "binding", "accepting", "resolving", "attaching",
                       "repainting", "creating", "waiting", "live", "closed", "failed"} :
                    [r EXCEPT !.stage = x] \in ConnType
           /\ \A x \in Users : [r EXCEPT !.user = x] \in ConnType
           /\ \A x \in Conns : [r EXCEPT !.uuid = x] \in ConnType
           /\ \A x \in BOOLEAN : [r EXCEPT !.is_resume = x] \in ConnType
           /\ \A x \in {"udp", "tcp"} : [r EXCEPT !.transport = x] \in ConnType
           /\ \A x \in SUBSET (Ports \cup {0, Ephemeral}) :
                    [r EXCEPT !.candidates = x] \in ConnType
           /\ \A x \in Ports \cup {0, Ephemeral} :
                    [r EXCEPT !.advertised = x] \in ConnType /\ [r EXCEPT !.bound = x] \in ConnType
           /\ \A x \in Conns : [r EXCEPT !.session = x] \in ConnType
<1>1. \A x \in {"idle", "setup", "binding", "accepting", "resolving", "attaching",
                "repainting", "creating", "waiting", "live", "closed", "failed"} :
            [r EXCEPT !.stage = x] \in ConnType
  BY DEF ConnType
<1>2. \A x \in Users : [r EXCEPT !.user = x] \in ConnType
  BY DEF ConnType
<1>3. \A x \in Conns : [r EXCEPT !.uuid = x] \in ConnType
  BY DEF ConnType
<1>4. \A x \in BOOLEAN : [r EXCEPT !.is_resume = x] \in ConnType
  BY DEF ConnType
<1>5. \A x \in {"udp", "tcp"} : [r EXCEPT !.transport = x] \in ConnType
  BY DEF ConnType
<1>6. \A x \in SUBSET (Ports \cup {0, Ephemeral}) : [r EXCEPT !.candidates = x] \in ConnType
  BY DEF ConnType
<1>7. \A x \in Ports \cup {0, Ephemeral} : [r EXCEPT !.advertised = x] \in ConnType
  BY DEF ConnType
<1>8. \A x \in Ports \cup {0, Ephemeral} : [r EXCEPT !.bound = x] \in ConnType
  BY DEF ConnType
<1>9. \A x \in Conns : [r EXCEPT !.session = x] \in ConnType
  BY DEF ConnType
<1> QED
  BY <1>1, <1>2, <1>3, <1>4, <1>5, <1>6, <1>7, <1>8, <1>9

(* What a step gives to one connection has its type if its values have.     *)
LEMMA EnterTyped ==
    ASSUME TypeOK, NEW c \in Conns,
           NEW stage \in {"setup", "binding", "accepting", "resolving", "attaching",
                          "repainting", "creating", "waiting", "live", "closed", "failed"}
    PROVE  /\ [conn EXCEPT ![c].stage = stage] \in [Conns -> ConnType]
           /\ \A s \in Conns :
                [conn EXCEPT ![c].stage = stage, ![c].session = s] \in [Conns -> ConnType]
           /\ \A ports \in SUBSET (Ports \cup {0, Ephemeral}) :
                [conn EXCEPT ![c].stage = stage, ![c].candidates = ports]
                    \in [Conns -> ConnType]
<1> DEFINE next == [conn EXCEPT ![c].stage = stage]
<1>1. conn[c] \in ConnType
  BY DEF TypeOK
<1>2. [conn[c] EXCEPT !.stage = stage] \in ConnType
  BY <1>1, FieldTyped
<1>3. next \in [Conns -> ConnType]
  BY <1>2 DEF TypeOK
<1> HIDE DEF next
<1>4. next[c] \in ConnType
  BY <1>3
<1>5. ASSUME NEW s \in Conns
      PROVE  [conn EXCEPT ![c].stage = stage, ![c].session = s] \in [Conns -> ConnType]
  <2>1. [next[c] EXCEPT !.session = s] \in ConnType
    BY <1>4, FieldTyped
  <2>2. [next EXCEPT ![c].session = s] \in [Conns -> ConnType]
    BY <1>3, <2>1
  <2> QED
    BY <2>2 DEF next
<1>6. ASSUME NEW ports \in SUBSET (Ports \cup {0, Ephemeral})
      PROVE  [conn EXCEPT ![c].stage = stage, ![c].candidates = ports] \in [Conns -> ConnType]
  <2>1. [next[c] EXCEPT !.candidates = ports] \in ConnType
    BY <1>4, FieldTyped
  <2>2. [next EXCEPT ![c].candidates = ports] \in [Conns -> ConnType]
    BY <1>3, <2>1
  <2> QED
    BY <2>2 DEF next
<1>7. [conn EXCEPT ![c].stage = stage] \in [Conns -> ConnType]
  BY <1>3 DEF next
<1> QED
  BY <1>5, <1>6, <1>7

(* A handle that connection c was put in has the type of a handle.          *)
LEMMA InstallTyped ==
    ASSUME TypeOK, NEW s \in Conns, NEW c \in Conns, Install(s, c)
    PROVE  output_handle' \in [Conns -> [chan : Conns \cup {None},
                conn_token : Conns \cup {None}, udp_port : Ports \cup {0, Ephemeral}]]
<1>1. conn[c].bound \in Ports \cup {0, Ephemeral}
  BY DEF TypeOK, ConnType
<1>2. data_port(c) \in Ports \cup {0, Ephemeral}
  BY <1>1 DEF data_port
<1> QED
  BY <1>2 DEF Install, TypeOK

(* A step keeps the types.  The port of a connection is one of its          *)
(* snapshot's or 0, and what a UUID is registered for is a connection.      *)
LEMMA TypeKept ==
    ASSUME IInv, Next
    PROVE  TypeOK'
<1> USE NoneIsNoConnection DEF kexVars, handleVars, readerVars, Enter, ReaderTo, Cancel
<1>0. TypeOK
  BY DEF IInv
<1>1. ASSUME NEW c \in Conns, Connection(c) PROVE TypeOK'
  <2>1. CASE DecideSession(c)
    <3> PICK u \in Users, t \in Transports, req \in {conn[d].uuid : d \in Conns} :
            /\ conn' = [conn EXCEPT ![c] = [@ EXCEPT !.stage = "setup", !.user = u,
                  !.uuid = SessionUuid(c, u, req), !.is_resume = Resumable(u, req),
                  !.transport = t]]
            /\ session_registry' = IF Resumable(u, req) THEN session_registry
                                   ELSE Insert(session_registry, SessionUuid(c, u, req), u)
      BY <2>1 DEF DecideSession
    <3>1. conn[c] \in ConnType
      BY <1>0 DEF TypeOK
    <3>2. SessionUuid(c, u, req) \in Conns /\ Resumable(u, req) \in BOOLEAN
      BY <1>0 DEF SessionUuid, Resumable, TypeOK
    <3> DEFINE uuid   == SessionUuid(c, u, req)
               resume == Resumable(u, req)
               r      == [conn[c] EXCEPT !.stage = "setup", !.user = u]
    <3>3. r \in ConnType
      <4>1. [conn[c] EXCEPT !.stage = "setup"] \in ConnType
        BY <3>1, FieldTyped
      <4> QED
        BY <4>1, FieldTyped
    <3>4. conn' = [conn EXCEPT ![c] = [r EXCEPT !.uuid = uuid, !.is_resume = resume,
                                                !.transport = t]]
      OBVIOUS
    <3>5. t \in {"udp", "tcp"}
      BY SessionAssumption
    <3> HIDE DEF r, uuid, resume
    <3>6. [r EXCEPT !.uuid = uuid] \in ConnType
      BY <3>2, <3>3, FieldTyped DEF uuid
    <3>7. [r EXCEPT !.uuid = uuid, !.is_resume = resume] \in ConnType
      BY <3>2, <3>6, FieldTyped DEF resume
    <3>8. [r EXCEPT !.uuid = uuid, !.is_resume = resume, !.transport = t] \in ConnType
      BY <3>5, <3>7, FieldTyped
    <3>9. conn' \in [Conns -> ConnType]
      BY <1>0, <3>4, <3>8 DEF TypeOK
    <3>10. /\ DOMAIN session_registry' \subseteq Conns
           /\ \A v \in DOMAIN session_registry' : session_registry'[v] \in Users
      <4>1. CASE Resumable(u, req)
        BY <1>0, <4>1 DEF TypeOK
      <4>2. CASE ~Resumable(u, req)
        <5>1. session_registry' = Insert(session_registry, SessionUuid(c, u, req), u)
          BY <4>2
        <5> QED
          BY <1>0, <3>2, <5>1 DEF Insert, TypeOK
      <4> QED
        BY <4>1, <4>2
    <3> QED
      BY <1>0, <2>1, <3>9, <3>10 DEF DecideSession, TypeOK
  <2>2. CASE KexFails(c)
    BY <1>0, <2>2, EnterTyped DEF KexFails, TypeOK
  <2>3. CASE SnapshotPorts(c)
    BY <1>0, <2>3, EnterTyped DEF SnapshotPorts, TypeOK
  <2>4. CASE BindFails(c)
    BY <1>0, <2>4, EnterTyped DEF BindFails, TypeOK
  <2>5. CASE Bind(c)
    <3> PICK port \in Bindable(c) :
            /\ port_pool' = port_pool \ {port}
            /\ conn' = [conn EXCEPT ![c] =
                  [@ EXCEPT !.advertised = port, !.candidates = {},
                            !.bound = IF port = 0 THEN Ephemeral ELSE port,
                            !.stage = IF conn[c].transport = "tcp" THEN "accepting"
                                                                   ELSE "resolving"]]
      BY <2>5 DEF Bind
    <3>1. conn[c] \in ConnType
      BY <1>0 DEF TypeOK
    <3>2. port \in Ports \cup {0, Ephemeral}
      BY <3>1 DEF Bindable, ConnType
    <3> DEFINE stage == IF conn[c].transport = "tcp" THEN "accepting" ELSE "resolving"
               bound == IF port = 0 THEN Ephemeral ELSE port
               r     == [conn[c] EXCEPT !.advertised = port, !.candidates = {}]
    <3>3. r \in ConnType
      <4>1. [conn[c] EXCEPT !.advertised = port] \in ConnType
        BY <3>1, <3>2, FieldTyped
      <4> QED
        BY <4>1, FieldTyped
    <3>4. bound \in Ports \cup {0, Ephemeral} /\ stage \in {"accepting", "resolving"}
      BY <3>2
    <3>5. conn' = [conn EXCEPT ![c] = [r EXCEPT !.bound = bound, !.stage = stage]]
      OBVIOUS
    <3> HIDE DEF r, bound, stage
    <3>6. [r EXCEPT !.bound = bound] \in ConnType
      BY <3>3, <3>4, FieldTyped
    <3>7. [r EXCEPT !.bound = bound, !.stage = stage] \in ConnType
      BY <3>4, <3>6, FieldTyped
    <3>8. conn' \in [Conns -> ConnType]
      BY <1>0, <3>5, <3>7 DEF TypeOK
    <3> QED
      BY <1>0, <2>5, <3>8 DEF Bind, TypeOK
  <2>6. CASE Accept(c)
    BY <1>0, <2>6, EnterTyped DEF Accept, TypeOK
  <2>7. CASE Resolve(c)
    <3>1. CASE conn[c].is_resume /\ conn[c].uuid \in DOMAIN full_registry
      <4> DEFINE s == full_registry[conn[c].uuid]
      <4>1. s \in Conns
        BY <1>0, <3>1 DEF TypeOK
      <4>2. conn' = [conn EXCEPT ![c].stage = "attaching", ![c].session = s]
        BY <2>7, <3>1 DEF Resolve
      <4> HIDE DEF s
      <4>3. conn' \in [Conns -> ConnType]
        BY <1>0, <4>1, <4>2, EnterTyped
      <4> QED
        BY <1>0, <2>7, <4>3 DEF Resolve, TypeOK
    <3>2. CASE ~(conn[c].is_resume /\ conn[c].uuid \in DOMAIN full_registry)
      <4>1. conn' = [conn EXCEPT ![c].stage = "creating"]
        BY <2>7, <3>2 DEF Resolve
      <4>2. conn' \in [Conns -> ConnType]
        BY <1>0, <4>1, EnterTyped
      <4> QED
        BY <1>0, <2>7, <4>2 DEF Resolve, TypeOK
    <3> QED
      BY <3>1, <3>2
  <2>8. CASE Attach(c)
    <3>1. conn[c].session \in Conns
      BY <1>0, <2>8 DEF IInv, Ownership, StagesFit, Attach, TypeOK, ConnType
    <3>2. output_handle[conn[c].session].conn_token \in Conns \cup {None}
      BY <1>0, <3>1 DEF TypeOK
    <3>3. conn' \in [Conns -> ConnType]
      BY <1>0, <2>8, EnterTyped DEF Attach
    <3>4. cancelled' \subseteq Conns
      BY <1>0, <2>8, <3>2 DEF Attach, TypeOK
    <3> QED
      BY <1>0, <2>8, <3>1, <3>3, <3>4, InstallTyped DEF Attach, TypeOK
  <2>9. CASE NewSession(c)
    <3>1. conn[c].uuid \in Conns
      BY <2>9 DEF IInv, Ownership, UuidsKeepTheirUser, Decided, NewSession
    <3>2. TypeOK'
      <4>1. /\ DOMAIN full_registry' \subseteq Conns
            /\ \A u \in DOMAIN full_registry' : full_registry'[u] \in Conns
        BY <1>0, <2>9, <3>1 DEF NewSession, Insert, TypeOK
      <4>2. Running(c) \in {"waiting", "live"}
        BY DEF Running
      <4>3. conn' \in [Conns -> ConnType]
        BY <1>0, <2>9, <4>2, EnterTyped DEF NewSession
      <4> QED
        BY <1>0, <2>9, <4>1, <4>3, InstallTyped DEF NewSession, TypeOK
    <3> QED
      BY <3>2
  <2>10. CASE FirstPacket(c)
    BY <1>0, <2>10, EnterTyped DEF FirstPacket, TypeOK
  <2>11. CASE ForwardFrame(c)
    <3>1. backlog' \in [Conns -> 0..DataCapacity]
      BY <1>0, <2>11, SessionAssumption DEF ForwardFrame, TypeOK
    <3> QED
      BY <1>0, <2>11, <3>1 DEF ForwardFrame, TypeOK
  <2>12. CASE SilenceTimeout(c)
    BY <1>0, <2>12 DEF SilenceTimeout, TypeOK
  <2>13. CASE StopTasks(c)
    BY <1>0, <2>13, EnterTyped DEF StopTasks, TypeOK
  <2>14. CASE SendScreen(c)
    <3>1. backlog' \in [Conns -> 0..DataCapacity]
      BY <1>0, <2>14, SessionAssumption DEF SendScreen, TypeOK
    <3>2. conn' \in [Conns -> ConnType]
      <4>1. Running(c) \in {"waiting", "live"}
        BY DEF Running
      <4> QED
        BY <1>0, <2>14, <4>1, EnterTyped DEF SendScreen
    <3> QED
      BY <1>0, <2>14, <3>1, <3>2 DEF SendScreen, TypeOK
  <2> QED
    BY <1>1, <2>1, <2>2, <2>3, <2>4, <2>5, <2>6, <2>7, <2>8, <2>9, <2>10, <2>11,
       <2>12, <2>13, <2>14 DEF Connection
<1>2. ASSUME NEW s \in Conns, PtyReader(s) PROVE TypeOK'
  <2>1. CASE StartPty(s)
    BY <1>0, <2>1 DEF StartPty, TypeOK
  <2>2. CASE PtyFails(s)
    BY <1>0, <2>2 DEF PtyFails, TypeOK
  <2>3. CASE ReadOutput(s)
    BY <1>0, <2>3 DEF ReadOutput, TypeOK
  <2>4. CASE SendOutput(s)
    <3>1. backlog' \in [Conns -> 0..DataCapacity]
      <4>1. CASE conn[sender_clone[s]].stage = "closed"
        BY <1>0, <2>4, <4>1 DEF SendOutput, TypeOK
      <4>2. CASE conn[sender_clone[s]].stage # "closed"
        BY <1>0, <2>4, <4>2, SessionAssumption DEF SendOutput, TypeOK
      <4> QED
        BY <4>1, <4>2
    <3>2. reader' = [reader EXCEPT ![s] = "clearing"] \/ reader' = [reader EXCEPT ![s] = "reading"]
      BY <2>4 DEF SendOutput
    <3>3. sender_clone' \in [Conns -> Conns \cup {None}]
      BY <1>0, <2>4 DEF SendOutput, TypeOK
    <3> QED
      BY <1>0, <2>4, <3>1, <3>2, <3>3 DEF SendOutput, TypeOK
  <2>5. CASE ClearChannels(s)
    BY <1>0, <2>5 DEF ClearChannels, TypeOK
  <2>6. CASE ShellExits(s)
    BY <1>0, <2>6 DEF ShellExits, TypeOK
  <2>7. CASE ReleaseHandle(s)
    <3>1. /\ output_handle[s].conn_token \in Conns \cup {None}
          /\ output_handle[s].udp_port \in Ports \cup {0, Ephemeral}
      BY <1>0 DEF TypeOK
    <3>2. cancelled' \subseteq Conns /\ port_pool' \subseteq Ports \cup {0, Ephemeral}
      BY <1>0, <2>7, <3>1 DEF ReleaseHandle, TypeOK
    <3> QED
      BY <1>0, <2>7, <3>2, DetachedTyped DEF ReleaseHandle, TypeOK
  <2>8. CASE RemoveUuid(s)
    <3>1. /\ DOMAIN session_registry' \subseteq DOMAIN session_registry
          /\ \A u \in DOMAIN session_registry' :
                session_registry'[u] = session_registry[u]
      BY <2>8 DEF RemoveUuid, Delete, Restrict
    <3> QED
      BY <1>0, <2>8, <3>1 DEF RemoveUuid, TypeOK
  <2>9. CASE RemoveRecord(s)
    <3>1. /\ DOMAIN full_registry' \subseteq DOMAIN full_registry
          /\ \A u \in DOMAIN full_registry' : full_registry'[u] = full_registry[u]
      BY <2>9 DEF RemoveRecord, Delete, Restrict
    <3> QED
      BY <1>0, <2>9, <3>1 DEF RemoveRecord, TypeOK
  <2> QED
    BY <1>2, <2>1, <2>2, <2>3, <2>4, <2>5, <2>6, <2>7, <2>8, <2>9 DEF PtyReader
<1> QED
  BY <1>1, <1>2 DEF Next

-----------------------------------------------------------------------------
(* Who owns what.                                                          *)

(* No connection changes hands, and none is decided in this step. *)
SameOwners ==
    \A c \in Conns :
        /\ conn'[c].user = conn[c].user /\ conn'[c].uuid = conn[c].uuid
        /\ conn'[c].session = conn[c].session
        /\ Decided(c)' <=> Decided(c)

NoNewEntries ==
    /\ \A u \in DOMAIN session_registry' :
        u \in DOMAIN session_registry /\ session_registry'[u] = session_registry[u]
    /\ \A u \in DOMAIN full_registry' :
        u \in DOMAIN full_registry /\ full_registry'[u] = full_registry[u]

Owners == UuidsKeepTheirUser /\ RecordsNameTheirMaker /\ SessionsKeepTheirUser

(* All but three steps leave the owners alone: the decision of the key       *)
(* exchange, the lookup of a record to resume and a new session.             *)
LEMMA MostStepsKeepOwners ==
    ASSUME IInv, NEW c \in Conns, Connection(c) \/ PtyReader(c)
    PROVE  DecideSession(c) \/ Resolve(c) \/ NewSession(c) \/ (SameOwners /\ NoNewEntries)
<1> USE DEF kexVars, handleVars, readerVars
<1>0. conn \in [Conns -> ConnType]
  BY DEF IInv, TypeOK
<1>1. ASSUME conn[c].stage # "idle", NEW stage, stage # "idle", Enter(c, stage)
      PROVE  SameOwners
  <2>1. conn[c] \in ConnType
    BY <1>0
  <2>2. /\ conn'[c].user = conn[c].user /\ conn'[c].uuid = conn[c].uuid
        /\ conn'[c].session = conn[c].session /\ conn'[c].stage = stage
    BY <1>0, <1>1, <2>1 DEF Enter, ConnType
  <2>3. \A d \in Conns \ {c} : conn'[d] = conn[d]
    BY <1>0, <1>1 DEF Enter
  <2> QED
    BY <1>1, <2>2, <2>3 DEF SameOwners, Decided
<1>2. ASSUME UNCHANGED conn PROVE SameOwners
  BY <1>2 DEF SameOwners, Decided
<1>3. ASSUME UNCHANGED <<session_registry, full_registry>> PROVE NoNewEntries
  BY <1>3 DEF NoNewEntries
<1>4. CASE KexFails(c)
  BY <1>1, <1>3, <1>4 DEF KexFails
<1>5. CASE SnapshotPorts(c)
  <2>1. conn[c] \in ConnType
    BY <1>0
  <2>2. /\ conn'[c].user = conn[c].user /\ conn'[c].uuid = conn[c].uuid
        /\ conn'[c].session = conn[c].session /\ conn'[c].stage = "binding"
    BY <1>0, <1>5, <2>1 DEF SnapshotPorts, ConnType
  <2>3. \A d \in Conns \ {c} : conn'[d] = conn[d]
    BY <1>0, <1>5 DEF SnapshotPorts
  <2>4. SameOwners
    BY <1>5, <2>2, <2>3 DEF SameOwners, Decided, SnapshotPorts
  <2> QED
    BY <1>3, <1>5, <2>4 DEF SnapshotPorts
<1>6. CASE BindFails(c)
  BY <1>1, <1>3, <1>6 DEF BindFails
<1>7. CASE Bind(c)
  <2>1. conn[c] \in ConnType
    BY <1>0
  <2>2. /\ conn'[c].user = conn[c].user /\ conn'[c].uuid = conn[c].uuid
        /\ conn'[c].session = conn[c].session /\ conn'[c].stage # "idle"
    BY <1>0, <1>7, <2>1 DEF Bind, ConnType
  <2>3. \A d \in Conns \ {c} : conn'[d] = conn[d]
    BY <1>0, <1>7 DEF Bind
  <2>4. SameOwners
    BY <1>7, <2>2, <2>3 DEF SameOwners, Decided, Bind
  <2> QED
    BY <1>3, <1>7, <2>4 DEF Bind
<1>8. CASE Accept(c)
  BY <1>1, <1>3, <1>8 DEF Accept
<1>9. CASE Attach(c)
  BY <1>1, <1>3, <1>9 DEF Attach
<1>10. CASE FirstPacket(c)
  BY <1>1, <1>3, <1>10 DEF FirstPacket
<1>11. CASE ForwardFrame(c)
  BY <1>2, <1>3, <1>11 DEF ForwardFrame
<1>12. CASE SilenceTimeout(c)
  BY <1>2, <1>3, <1>12 DEF SilenceTimeout
<1>13. CASE StopTasks(c)
  BY <1>1, <1>3, <1>13 DEF StopTasks
<1>14. ASSUME StartPty(c) \/ PtyFails(c) \/ ReadOutput(c) \/ SendOutput(c) \/ ClearChannels(c)
              \/ ShellExits(c) \/ ReleaseHandle(c)
       PROVE  SameOwners /\ NoNewEntries
  BY <1>2, <1>3, <1>14 DEF StartPty, PtyFails, ReadOutput, SendOutput, ClearChannels,
     ShellExits, ReleaseHandle
<1>15. CASE RemoveUuid(c)
  <2>1. NoNewEntries
    BY <1>15 DEF RemoveUuid, Delete, Restrict, NoNewEntries
  <2> QED
    BY <1>2, <1>15, <2>1 DEF RemoveUuid
<1>16. CASE RemoveRecord(c)
  <2>1. NoNewEntries
    BY <1>16 DEF RemoveRecord, Delete, Restrict, NoNewEntries
  <2> QED
    BY <1>2, <1>16, <2>1 DEF RemoveRecord
<1>17. CASE SendScreen(c)
  BY <1>1, <1>3, <1>17 DEF SendScreen, Running
<1> QED
  BY <1>4, <1>5, <1>6, <1>7, <1>8, <1>9, <1>10, <1>11, <1>12, <1>13, <1>14, <1>15, <1>16, <1>17
     DEF Connection, PtyReader

(* A UUID is given to a connection under its own number, or it is one that   *)
(* is registered for its user.                                              *)
LEMMA DecideGives ==
    ASSUME IInv, NEW c \in Conns, DecideSession(c)
    PROVE  /\ ~Decided(c) /\ Decided(c)' /\ conn'[c].stage = "setup"
           /\ conn'[c].session = None
           /\ \A d \in Conns \ {c} : conn'[d] = conn[d]
           /\ \/ /\ conn'[c].uuid = c
                 /\ session_registry' = Insert(session_registry, c, conn'[c].user)
              \/ /\ conn'[c].uuid \in DOMAIN session_registry
                 /\ session_registry[conn'[c].uuid] = conn'[c].user
                 /\ UNCHANGED session_registry
<1> PICK u \in Users, t \in Transports, req \in {conn[d].uuid : d \in Conns} :
        /\ conn' = [conn EXCEPT ![c] = [@ EXCEPT !.stage = "setup", !.user = u,
              !.uuid = SessionUuid(c, u, req), !.is_resume = Resumable(u, req),
              !.transport = t]]
        /\ session_registry' = IF Resumable(u, req) THEN session_registry
                               ELSE Insert(session_registry, SessionUuid(c, u, req), u)
  BY DEF DecideSession
<1>1. conn \in [Conns -> ConnType] /\ conn[c] \in ConnType /\ conn[c].stage = "idle"
  BY DEF IInv, TypeOK, DecideSession
<1>2. conn[c].session = None
  BY <1>1 DEF IInv, Ownership, StagesFit
<1>3. /\ conn'[c].stage = "setup" /\ conn'[c].user = u
      /\ conn'[c].uuid = SessionUuid(c, u, req) /\ conn'[c].session = None
  BY <1>1, <1>2 DEF ConnType
<1>4. \A d \in Conns \ {c} : conn'[d] = conn[d]
  BY <1>1
<1>5. CASE Resumable(u, req)
  BY <1>1, <1>3, <1>4, <1>5 DEF SessionUuid, Resumable, Decided
<1>6. CASE ~Resumable(u, req)
  BY <1>1, <1>3, <1>4, <1>6 DEF SessionUuid, Decided
<1> QED
  BY <1>5, <1>6

(* What a lookup finds is the session that its record names.                *)
LEMMA ResolveFinds ==
    ASSUME IInv, NEW c \in Conns, Resolve(c)
    PROVE  /\ conn[c].stage = "resolving" /\ Decided(c)'
           /\ conn'[c].user = conn[c].user /\ conn'[c].uuid = conn[c].uuid
           /\ \A d \in Conns \ {c} : conn'[d] = conn[d]
           /\ \/ /\ conn'[c].stage = "creating" /\ conn'[c].session = conn[c].session
              \/ /\ conn'[c].stage = "attaching" /\ conn[c].uuid \in DOMAIN full_registry
                 /\ conn'[c].session = full_registry[conn[c].uuid]
<1>1. conn \in [Conns -> ConnType] /\ conn[c] \in ConnType
  BY DEF IInv, TypeOK
<1>2. CASE conn[c].is_resume /\ conn[c].uuid \in DOMAIN full_registry
  BY <1>1, <1>2 DEF Resolve, ConnType, Decided
<1>3. CASE ~(conn[c].is_resume /\ conn[c].uuid \in DOMAIN full_registry)
  BY <1>1, <1>3 DEF Resolve, Enter, ConnType, Decided
<1> QED
  BY <1>2, <1>3

(* A new session is its connection's own.                                   *)
LEMMA NewSessionMakes ==
    ASSUME IInv, NEW c \in Conns, NewSession(c)
    PROVE  /\ conn[c].stage = "creating" /\ conn[c].session = None
           /\ conn'[c].stage \in {"waiting", "live"}
           /\ conn'[c].user = conn[c].user /\ conn'[c].uuid = conn[c].uuid
           /\ conn'[c].session = c
           /\ \A d \in Conns \ {c} : conn'[d] = conn[d]
<1>1. conn \in [Conns -> ConnType] /\ conn[c] \in ConnType
  BY DEF IInv, TypeOK
<1>2. conn[c].session = None
  BY DEF IInv, Ownership, StagesFit, NewSession
<1> QED
  BY <1>1, <1>2 DEF NewSession, ConnType, Running

(* A step that leaves the owners alone keeps what is said of them.          *)
LEMMA OwnersLeftAlone ==
    ASSUME IInv, SameOwners, NoNewEntries
    PROVE  Owners'
<1> USE NoneIsNoConnection
<1>0. TypeOK /\ UuidsKeepTheirUser /\ RecordsNameTheirMaker /\ SessionsKeepTheirUser
  BY DEF IInv, Ownership
<1>1. UuidsKeepTheirUser'
  <2>1. \A u \in DOMAIN session_registry' : u \in Conns
    BY <1>0 DEF TypeOK, NoNewEntries
  <2> QED
    BY <1>0, <2>1 DEF UuidsKeepTheirUser, SameOwners, NoNewEntries
<1>2. RecordsNameTheirMaker'
  <2>1. \A u \in DOMAIN full_registry : full_registry[u] \in Conns
    BY <1>0 DEF TypeOK
  <2> QED
    BY <1>0, <2>1 DEF RecordsNameTheirMaker, SameOwners, NoNewEntries
<1>3. SessionsKeepTheirUser'
  <2>1. \A c \in Conns : conn[c].session \in Conns \cup {None}
    BY <1>0 DEF TypeOK, ConnType
  <2> QED
    BY <1>0, <2>1 DEF SessionsKeepTheirUser, SameOwners
<1> QED
  BY <1>1, <1>2, <1>3 DEF Owners

(* A UUID keeps its user, a record its maker and a session its user: the     *)
(* connection named by a UUID was there before whoever is given it.          *)
LEMMA OwnersKept ==
    ASSUME IInv, Next
    PROVE  Owners'
<1> USE NoneIsNoConnection
<1>0. TypeOK /\ UuidsKeepTheirUser /\ RecordsNameTheirMaker /\ SessionsKeepTheirUser
  BY DEF IInv, Ownership
<1>a. /\ \A d \in Conns : conn[d].session \in Conns \cup {None}
      /\ \A u \in DOMAIN session_registry : u \in Conns
      /\ \A u \in DOMAIN full_registry : u \in Conns /\ full_registry[u] \in Conns
  BY <1>0 DEF TypeOK, ConnType
<1> PICK c \in Conns : Connection(c) \/ PtyReader(c)
  BY DEF Next
<1>1. CASE DecideSession(c)
  <2>1. /\ ~Decided(c) /\ Decided(c)' /\ conn'[c].session = None
        /\ \A d \in Conns \ {c} : conn'[d] = conn[d] /\ (Decided(d)' <=> Decided(d))
        /\ \/ /\ conn'[c].uuid = c
              /\ session_registry' = Insert(session_registry, c, conn'[c].user)
           \/ /\ conn'[c].uuid \in DOMAIN session_registry
              /\ session_registry[conn'[c].uuid] = conn'[c].user
              /\ UNCHANGED session_registry
    BY <1>1, DecideGives DEF Decided
  <2>2. UNCHANGED full_registry
    BY <1>1 DEF DecideSession, handleVars
  <2>3. UuidsKeepTheirUser'
    <3>1. CASE conn'[c].uuid = c /\ session_registry' = Insert(session_registry, c, conn'[c].user)
      <4>1. /\ DOMAIN session_registry' = DOMAIN session_registry \cup {c}
            /\ session_registry'[c] = conn'[c].user
            /\ \A u \in DOMAIN session_registry \ {c} :
                session_registry'[u] = session_registry[u]
        BY <3>1 DEF Insert
      <4> QED
        BY <1>0, <1>a, <2>1, <3>1, <4>1 DEF UuidsKeepTheirUser
    <3>2. CASE /\ conn'[c].uuid \in DOMAIN session_registry
               /\ session_registry[conn'[c].uuid] = conn'[c].user
               /\ UNCHANGED session_registry
      BY <1>0, <1>a, <2>1, <3>2 DEF UuidsKeepTheirUser
    <3> QED
      BY <2>1, <3>1, <3>2
  <2>4. RecordsNameTheirMaker'
    <3>1. \A u \in DOMAIN full_registry : full_registry[u] # c
      BY <1>0, <1>a, <2>1 DEF RecordsNameTheirMaker, SessionsKeepTheirUser
    <3> QED
      BY <1>0, <1>a, <2>1, <2>2, <3>1 DEF RecordsNameTheirMaker
  <2>5. SessionsKeepTheirUser'
    BY <1>0, <1>a, <2>1 DEF SessionsKeepTheirUser
  <2> QED
    BY <2>3, <2>4, <2>5 DEF Owners
<1>2. CASE Resolve(c)
  <2>1. /\ conn[c].stage = "resolving" /\ Decided(c)'
        /\ conn'[c].user = conn[c].user /\ conn'[c].uuid = conn[c].uuid
        /\ \A d \in Conns \ {c} : conn'[d] = conn[d] /\ (Decided(d)' <=> Decided(d))
        /\ \/ conn'[c].session = conn[c].session
           \/ /\ conn[c].uuid \in DOMAIN full_registry
              /\ conn'[c].session = full_registry[conn[c].uuid]
    BY <1>2, ResolveFinds DEF Decided
  <2>2. Decided(c) /\ conn[c].session = None
    BY <2>1 DEF IInv, Ownership, StagesFit, Decided
  <2>3. UNCHANGED <<session_registry, full_registry>>
    BY <1>2 DEF Resolve, kexVars, handleVars
  <2>4. UuidsKeepTheirUser'
    BY <1>0, <1>a, <2>1, <2>2, <2>3 DEF UuidsKeepTheirUser
  <2>5. \A u \in DOMAIN full_registry : full_registry[u] # c
    BY <1>0, <1>a, <2>2 DEF RecordsNameTheirMaker
  <2>6. RecordsNameTheirMaker'
    BY <1>0, <1>a, <2>1, <2>3, <2>5 DEF RecordsNameTheirMaker
  <2>7. CASE conn'[c].session = conn[c].session
    BY <1>0, <1>a, <2>1, <2>2, <2>6, <2>7, <2>4 DEF SessionsKeepTheirUser, Owners
  <2>8. CASE conn[c].uuid \in DOMAIN full_registry
             /\ conn'[c].session = full_registry[conn[c].uuid]
    <3> DEFINE s == full_registry[conn[c].uuid]
    <3>1. s \in Conns /\ s # c /\ conn[s].session = s /\ conn[s].uuid = conn[c].uuid
      BY <1>0, <1>a, <2>5, <2>8 DEF RecordsNameTheirMaker
    <3>2. Decided(s)
      BY <1>0, <3>1 DEF SessionsKeepTheirUser
    <3>3. conn[s].user = conn[c].user
      BY <1>0, <2>2, <3>1, <3>2 DEF UuidsKeepTheirUser
    <3>4. SessionsKeepTheirUser'
      <4> HIDE DEF s
      <4>1. conn'[c].session = s
        BY <2>8 DEF s
      <4>2. ASSUME NEW d \in Conns, conn'[d].session # None
            PROVE  /\ Decided(d)'
                   /\ conn'[conn'[d].session].stage # "idle"
                   /\ conn'[conn'[d].session].session = conn'[d].session
                   /\ conn'[conn'[d].session].user = conn'[d].user
        <5>1. CASE d = c
          BY <2>1, <3>1, <3>2, <3>3, <4>1, <5>1 DEF Decided
        <5>2. CASE d # c
          BY <1>0, <1>a, <2>1, <2>2, <4>2, <5>2 DEF SessionsKeepTheirUser, Decided
        <5> QED
          BY <5>1, <5>2
      <4> QED
        BY <4>2 DEF SessionsKeepTheirUser, Decided
    <3> QED
      BY <2>4, <2>6, <3>4 DEF Owners
  <2> QED
    BY <2>1, <2>7, <2>8
<1>3. CASE NewSession(c)
  <2>1. /\ conn[c].stage = "creating" /\ conn[c].session = None
        /\ conn'[c].session = c /\ Decided(c)' /\ Decided(c)
        /\ conn'[c].user = conn[c].user /\ conn'[c].uuid = conn[c].uuid
        /\ \A d \in Conns \ {c} : conn'[d] = conn[d] /\ (Decided(d)' <=> Decided(d))
    BY <1>3, NewSessionMakes DEF Decided
  <2>2. full_registry' = Insert(full_registry, conn[c].uuid, c) /\ UNCHANGED session_registry
    BY <1>3 DEF NewSession, kexVars
  <2>3. UuidsKeepTheirUser'
    BY <1>0, <1>a, <2>1, <2>2 DEF UuidsKeepTheirUser
  <2>4. RecordsNameTheirMaker'
    <3>1. /\ DOMAIN full_registry' = DOMAIN full_registry \cup {conn[c].uuid}
          /\ full_registry'[conn[c].uuid] = c
          /\ \A u \in DOMAIN full_registry \ {conn[c].uuid} :
                full_registry'[u] = full_registry[u]
      BY <2>2 DEF Insert
    <3>2. \A u \in DOMAIN full_registry : full_registry[u] # c
      BY <1>0, <1>a, <2>1 DEF RecordsNameTheirMaker
    <3> QED
      BY <1>0, <1>a, <2>1, <3>1, <3>2 DEF RecordsNameTheirMaker
  <2>5. SessionsKeepTheirUser'
    <3>1. \A d \in Conns : conn[d].session # c
      BY <1>0, <2>1 DEF SessionsKeepTheirUser
    <3> QED
      BY <1>0, <1>a, <2>1, <3>1 DEF SessionsKeepTheirUser
  <2> QED
    BY <2>3, <2>4, <2>5 DEF Owners
<1>4. CASE SameOwners /\ NoNewEntries
  BY <1>4, OwnersLeftAlone
<1> QED
  BY <1>1, <1>2, <1>3, <1>4, MostStepsKeepOwners

-----------------------------------------------------------------------------
(* Channels and tokens.                                                    *)

(* A connection has a session from the lookup of a record or its creation   *)
(* on, and not before.                                                      *)
LEMMA StagesKept ==
    ASSUME IInv, Next
    PROVE  StagesFit'
<1> USE NoneIsNoConnection DEF kexVars, handleVars, readerVars
<1>0. TypeOK /\ StagesFit
  BY DEF IInv, Ownership
<1>a. conn \in [Conns -> ConnType]
  BY <1>0 DEF TypeOK
<1> PICK c \in Conns : Connection(c) \/ PtyReader(c)
  BY DEF Next
<1>1. CASE DecideSession(c)
  BY <1>0, <1>1, DecideGives DEF StagesFit
<1>2. CASE Resolve(c)
  <2>1. \A u \in DOMAIN full_registry : full_registry[u] # None
    BY <1>0 DEF TypeOK
  <2> QED
    BY <1>0, <1>2, <2>1, ResolveFinds DEF StagesFit
<1>3. CASE NewSession(c)
  BY <1>0, <1>3, NewSessionMakes DEF StagesFit
<1>4. ASSUME NEW stage, Enter(c, stage),
             \/ stage = "failed"
             \/ stage = "closed"
             \/ stage = "resolving" /\ conn[c].stage = "accepting"
             \/ /\ stage \in {"repainting", "waiting", "live"}
                /\ conn[c].stage \in {"attaching", "repainting", "waiting"}
      PROVE  StagesFit'
  <2>1. conn[c] \in ConnType
    BY <1>a
  <2>2. conn'[c].session = conn[c].session /\ conn'[c].stage = stage
    BY <1>a, <1>4, <2>1 DEF Enter, ConnType
  <2>3. \A d \in Conns \ {c} : conn'[d] = conn[d]
    BY <1>a, <1>4 DEF Enter
  <2> QED
    BY <1>0, <1>4, <2>2, <2>3 DEF StagesFit
<1>5. CASE SnapshotPorts(c)
  <2>1. conn[c] \in ConnType
    BY <1>a
  <2>2. conn'[c].session = conn[c].session /\ conn'[c].stage = "binding"
    BY <1>a, <1>5, <2>1 DEF SnapshotPorts, ConnType
  <2>3. conn[c].stage = "setup" /\ \A d \in Conns \ {c} : conn'[d] = conn[d]
    BY <1>a, <1>5 DEF SnapshotPorts
  <2> QED
    BY <1>0, <2>2, <2>3 DEF StagesFit
<1>6. CASE Bind(c)
  <2>1. conn[c] \in ConnType
    BY <1>a
  <2>2. conn'[c].session = conn[c].session /\ conn'[c].stage \in {"accepting", "resolving"}
    BY <1>a, <1>6, <2>1 DEF Bind, ConnType
  <2>3. conn[c].stage = "binding" /\ \A d \in Conns \ {c} : conn'[d] = conn[d]
    BY <1>a, <1>6 DEF Bind
  <2> QED
    BY <1>0, <2>2, <2>3 DEF StagesFit
<1>7. ASSUME UNCHANGED conn PROVE StagesFit'
  BY <1>0, <1>7 DEF StagesFit
<1>8. ASSUME KexFails(c) \/ BindFails(c) \/ Accept(c) \/ Attach(c) \/ SendScreen(c)
             \/ FirstPacket(c) \/ StopTasks(c)
      PROVE  StagesFit'
  BY <1>4, <1>8 DEF KexFails, BindFails, Accept, Attach, SendScreen, FirstPacket, StopTasks,
     Running
<1>9. ASSUME ForwardFrame(c) \/ SilenceTimeout(c) \/ PtyReader(c)
      PROVE  StagesFit'
  BY <1>7, <1>9 DEF ForwardFrame, SilenceTimeout, PtyReader, StartPty, PtyFails, ReadOutput,
     SendOutput, ClearChannels, ShellExits, ReleaseHandle, RemoveUuid, RemoveRecord
<1> QED
  BY <1>1, <1>2, <1>3, <1>5, <1>6, <1>8, <1>9 DEF Connection

(* Nobody who is decided changes user.                                      *)
LEMMA UsersKept ==
    ASSUME IInv, Next, NEW c \in Conns, Decided(c)
    PROVE  Decided(c)' /\ conn'[c].user = conn[c].user
<1> PICK d \in Conns : Connection(d) \/ PtyReader(d)
  BY DEF Next
<1>1. CASE DecideSession(d)
  BY <1>1, DecideGives DEF Decided
<1>2. CASE Resolve(d)
  BY <1>2, ResolveFinds DEF Decided
<1>3. CASE NewSession(d)
  BY <1>3, NewSessionMakes DEF Decided
<1>4. CASE SameOwners
  BY <1>4 DEF SameOwners
<1> QED
  BY <1>1, <1>2, <1>3, <1>4, MostStepsKeepOwners

(* A channel that a session holds was put there by a connection of its       *)
(* user, or was there before; a reader takes it from its own session.        *)
LEMMA ChannelsKept ==
    ASSUME IInv, Next
    PROVE  ChannelsKeepTheirUser'
<1> USE NoneIsNoConnection DEF kexVars, handleVars, readerVars
<1> DEFINE Held(s) == {output_handle[s].chan, sender_clone[s]} \ {None}
           New(s, d) == Decided(d) /\ Decided(s) /\ conn[d].user = conn[s].user
<1>0. TypeOK /\ ChannelsKeepTheirUser
  BY DEF IInv, Ownership
<1>a. /\ output_handle \in [Conns -> [chan : Conns \cup {None}, conn_token : Conns \cup {None},
                                     udp_port : Ports \cup {0, Ephemeral}]]
      /\ sender_clone \in [Conns -> Conns \cup {None}]
  BY <1>0 DEF TypeOK
<1>1. SUFFICES ASSUME NEW s \in Conns
               PROVE  \A d \in Held(s)' : d \in Conns /\ (d \in Held(s) \/ New(s, d))
  <2>1. ASSUME NEW s \in Conns, NEW d \in Held(s)'
        PROVE  Decided(d)' /\ Decided(s)' /\ conn'[d].user = conn'[s].user
    <3>1. d \in Conns /\ New(s, d)
      BY <1>0, <1>1, <2>1 DEF ChannelsKeepTheirUser
    <3> QED
      BY <3>1, UsersKept
  <2> QED
    BY <2>1 DEF ChannelsKeepTheirUser
<1> PICK c \in Conns : Connection(c) \/ PtyReader(c)
  BY DEF Next
<1>2. CASE UNCHANGED <<output_handle, sender_clone>>
  BY <1>a, <1>2
<1>3. CASE Attach(c)
  <2>1. conn[c].stage = "attaching" /\ UNCHANGED sender_clone
        /\ Install(conn[c].session, c)
    BY <1>3 DEF Attach
  <2>2. conn[c].session # None /\ Decided(c)
    BY <2>1 DEF IInv, Ownership, StagesFit, Decided
  <2>3. New(conn[c].session, c)
    BY <2>2 DEF IInv, Ownership, SessionsKeepTheirUser
  <2>4. CASE s = conn[c].session
    BY <1>a, <2>1, <2>3, <2>4 DEF Install
  <2>5. CASE s # conn[c].session
    BY <1>a, <2>1, <2>5 DEF Install
  <2> QED
    BY <2>4, <2>5
<1>4. CASE NewSession(c)
  <2>1. UNCHANGED sender_clone /\ Install(c, c) /\ New(c, c)
    BY <1>4 DEF NewSession, Decided
  <2> QED
    BY <1>a, <2>1 DEF Install
<1>5. CASE ReadOutput(c)
  BY <1>a, <1>5 DEF ReadOutput
<1>6. CASE SendOutput(c)
  BY <1>a, <1>6 DEF SendOutput
<1>7. CASE ClearChannels(c)
  BY <1>a, <1>7 DEF ClearChannels
<1>8. CASE ReleaseHandle(c)
  BY <1>a, <1>8 DEF ReleaseHandle, Detached
<1>9. ASSUME DecideSession(c) \/ KexFails(c) \/ SnapshotPorts(c) \/ BindFails(c) \/ Bind(c)
             \/ Accept(c) \/ Resolve(c) \/ SendScreen(c) \/ FirstPacket(c) \/ ForwardFrame(c)
             \/ SilenceTimeout(c) \/ StopTasks(c) \/ StartPty(c) \/ PtyFails(c)
             \/ ShellExits(c) \/ RemoveUuid(c) \/ RemoveRecord(c)
      PROVE  UNCHANGED <<output_handle, sender_clone>>
  BY <1>9 DEF DecideSession, KexFails, SnapshotPorts, BindFails, Bind, Accept, Resolve,
     SendScreen, FirstPacket, ForwardFrame, SilenceTimeout, StopTasks, StartPty, PtyFails, ShellExits,
     RemoveUuid, RemoveRecord
<1> QED
  BY <1>2, <1>3, <1>4, <1>5, <1>6, <1>7, <1>8, <1>9 DEF Connection, PtyReader

(* Whoever replaces or releases a session's token cancels it, and a          *)
(* connection starts to serve only by putting its own there.                *)
LEMMA ServesKept ==
    ASSUME IInv, Next
    PROVE  OneConnectionServes'
<1> USE NoneIsNoConnection DEF kexVars, handleVars, readerVars
<1> DEFINE Serves(d) == conn[d].stage \in {"repainting", "waiting", "live"} /\ d \notin cancelled
           Token(s)  == output_handle[s].conn_token
<1>0. TypeOK /\ OneConnectionServes
  BY DEF IInv
<1>a. /\ output_handle \in [Conns -> [chan : Conns \cup {None}, conn_token : Conns \cup {None},
                                     udp_port : Ports \cup {0, Ephemeral}]]
      /\ conn \in [Conns -> ConnType]
      /\ \A d \in Conns : conn[d] \in ConnType /\ conn[d].session \in Conns \cup {None}
  BY <1>0 DEF TypeOK, ConnType
<1>b. \A d \in Conns : Serves(d) => conn[d].session \in Conns /\ Token(conn[d].session) = d
  BY <1>0, <1>a DEF IInv, Ownership, StagesFit, OneConnectionServes
<1>1. SUFFICES ASSUME NEW d \in Conns, Serves(d)'
               PROVE  output_handle'[conn'[d].session].conn_token = d
  BY DEF OneConnectionServes
<1> PICK c \in Conns : Connection(c) \/ PtyReader(c)
  BY DEF Next
<1>2. ASSUME Serves(d), conn'[d].session = conn[d].session, UNCHANGED output_handle
      PROVE  output_handle'[conn'[d].session].conn_token = d
  BY <1>b, <1>2
<1>3. ASSUME NEW stage, Enter(c, stage), UNCHANGED <<output_handle, cancelled>>,
             stage \in {"repainting", "waiting", "live"}
                 => conn[c].stage \in {"repainting", "waiting"}
      PROVE  output_handle'[conn'[d].session].conn_token = d
  <2>1. conn'[c].session = conn[c].session /\ conn'[c].stage = stage
    BY <1>a, <1>3 DEF Enter, ConnType
  <2>2. \A e \in Conns \ {c} : conn'[e] = conn[e]
    BY <1>a, <1>3 DEF Enter
  <2> QED
    BY <1>1, <1>2, <1>3, <2>1, <2>2
<1>4. CASE DecideSession(c)
  BY <1>1, <1>2, <1>4, DecideGives DEF DecideSession
<1>5. CASE Resolve(c)
  BY <1>1, <1>2, <1>5, ResolveFinds DEF Resolve
<1>6. ASSUME KexFails(c) \/ BindFails(c) \/ Accept(c) \/ SendScreen(c) \/ FirstPacket(c)
             \/ StopTasks(c)
      PROVE  output_handle'[conn'[d].session].conn_token = d
  BY <1>3, <1>6 DEF KexFails, BindFails, Accept, SendScreen, FirstPacket, StopTasks
<1>7. ASSUME SnapshotPorts(c) \/ Bind(c)
      PROVE  output_handle'[conn'[d].session].conn_token = d
  <2>1. conn'[c].stage \notin {"repainting", "waiting", "live"} /\ UNCHANGED <<output_handle, cancelled>>
    <3>1. conn[c] \in ConnType
      BY <1>a
    <3>2. CASE SnapshotPorts(c)
      BY <1>a, <3>1, <3>2 DEF SnapshotPorts, ConnType
    <3>3. CASE Bind(c)
      BY <1>a, <3>1, <3>3 DEF Bind, ConnType
    <3> QED
      BY <1>7, <3>2, <3>3
  <2>2. \A e \in Conns \ {c} : conn'[e] = conn[e]
    BY <1>a, <1>7 DEF SnapshotPorts, Bind
  <2> QED
    BY <1>1, <1>2, <2>1, <2>2
<1>8. CASE Attach(c)
  <2> DEFINE s == conn[c].session
  <2>1. /\ conn[c].stage = "attaching" /\ conn' = [conn EXCEPT ![c].stage = "repainting"]
        /\ Install(s, c) /\ cancelled' = cancelled \cup ({Token(s)} \ {None})
    BY <1>8 DEF Attach, Enter, Cancel
  <2>2. s \in Conns
    BY <1>a, <2>1 DEF IInv, Ownership, StagesFit
  <2>3. output_handle'[s].conn_token = c
    BY <1>a, <2>1, <2>2 DEF Install
  <2>4. conn'[c].session = s /\ \A e \in Conns \ {c} : conn'[e] = conn[e]
    BY <1>a, <2>1 DEF ConnType
  <2>5. CASE d = c
    BY <2>3, <2>4, <2>5
  <2>6. CASE d # c
    <3>1. Serves(d) /\ conn'[d].session = conn[d].session
      BY <1>1, <2>1, <2>4, <2>6
    <3>2. conn[d].session # s
      BY <1>1, <1>b, <2>1, <3>1
    <3> QED
      BY <1>a, <1>b, <2>1, <2>2, <3>1, <3>2 DEF Install
  <2> QED
    BY <2>5, <2>6
<1>9. CASE NewSession(c)
  <2>1. /\ Install(c, c) /\ UNCHANGED cancelled
        /\ conn[c].session = None /\ conn'[c].session = c
        /\ \A e \in Conns \ {c} : conn'[e] = conn[e]
    BY <1>9, NewSessionMakes DEF NewSession
  <2>2. output_handle'[c].conn_token = c
    BY <1>a, <2>1 DEF Install
  <2>3. CASE d # c
    <3>1. Serves(d) /\ conn'[d].session = conn[d].session
      BY <1>1, <2>1, <2>3
    <3>2. conn[d].session # c
      BY <2>1, <3>1 DEF IInv, Ownership, SessionsKeepTheirUser, StagesFit
    <3> QED
      BY <1>a, <1>b, <2>1, <3>1, <3>2 DEF Install
  <2> QED
    BY <2>1, <2>2, <2>3
<1>10. CASE SilenceTimeout(c)
  BY <1>1, <1>2, <1>10 DEF SilenceTimeout, Cancel
<1>11. CASE ClearChannels(c)
  <2>1. Serves(d) /\ conn'[d].session = conn[d].session
    BY <1>1, <1>11 DEF ClearChannels
  <2>2. \A s \in Conns : output_handle'[s].conn_token = Token(s)
    BY <1>a, <1>11 DEF ClearChannels
  <2> QED
    BY <1>b, <2>1, <2>2
<1>12. CASE ReleaseHandle(c)
  <2>1. /\ UNCHANGED conn /\ cancelled' = cancelled \cup ({Token(c)} \ {None})
        /\ output_handle' = [output_handle EXCEPT ![c] = Detached]
    BY <1>12 DEF ReleaseHandle, Cancel
  <2>2. Serves(d) /\ conn[d].session # c
    BY <1>1, <1>b, <2>1
  <2> QED
    BY <1>a, <1>b, <2>1, <2>2
<1>13. ASSUME ForwardFrame(c) \/ StartPty(c) \/ PtyFails(c) \/ ReadOutput(c) \/ SendOutput(c)
              \/ ShellExits(c) \/ RemoveUuid(c) \/ RemoveRecord(c)
       PROVE  output_handle'[conn'[d].session].conn_token = d
  <2>1. UNCHANGED <<output_handle, conn, cancelled>>
    BY <1>13 DEF ForwardFrame, StartPty, PtyFails, ReadOutput, SendOutput, ShellExits,
       RemoveUuid, RemoveRecord
  <2> QED
    BY <1>1, <1>2, <2>1
<1> QED
  BY <1>4, <1>5, <1>6, <1>7, <1>8, <1>9, <1>10, <1>11, <1>12, <1>13 DEF Connection, PtyReader

-----------------------------------------------------------------------------
(* A step of the specification keeps the inductive invariant.               *)
LEMMA StepIInv == IInv /\ [Next]_vars => IInv'
<1> SUFFICES ASSUME IInv, [Next]_vars PROVE IInv'
  OBVIOUS
<1>1. CASE Next
  <2>1. Owners' /\ StagesFit' /\ ChannelsKeepTheirUser'
    BY <1>1, OwnersKept, StagesKept, ChannelsKept
  <2>2. TypeOK' /\ OneConnectionServes'
    BY <1>1, TypeKept, ServesKept
  <2> QED
    BY <2>1, <2>2 DEF IInv, Ownership, Owners
<1>2. CASE UNCHANGED vars
  BY <1>2 DEF vars, IInv, TypeOK, ConnType, Ownership, OneConnectionServes, UuidsKeepTheirUser,
     RecordsNameTheirMaker, SessionsKeepTheirUser, StagesFit, ChannelsKeepTheirUser, Decided
<1> QED
  BY <1>1, <1>2

(* The registries, the handles and the connections always have their types,  *)
(* and the pool holds ports only, whoever connects, resumes and exits.       *)
THEOREM TypeCorrect == Spec => []TypeOK
<1>1. IInv => TypeOK
  BY DEF IInv
<1> QED
  BY <1>1, InitIInv, StepIInv, PTL DEF Spec

(* For any number of connections and users: what a shell writes goes to      *)
(* connections of the user who started it (kex/reader.rs:1175-1189,          *)
(* runtime.rs:312-323, 1303).                                                *)
THEOREM OutputIsPrivate == Spec => []OutputStaysWithUser
<1>1. IInv => OutputStaysWithUser
  BY DEF IInv, Ownership, ChannelsKeepTheirUser, OutputStaysWithUser
<1> QED
  BY <1>1, InitIInv, StepIInv, PTL DEF Spec

(* For any number of resumes that race for a session: at most one            *)
(* connection serves it (runtime.rs:315-323).                                *)
THEOREM OneServes == Spec => []OneConnectionServes
<1>1. IInv => OneConnectionServes
  BY DEF IInv
<1> QED
  BY <1>1, InitIInv, StepIInv, PTL DEF Spec

-----------------------------------------------------------------------------
(* How a running session is lost.                                          *)

(* Only a session that was made has a reader. *)
ReadersAreDecided == \A s \in Conns : reader[s] # "none" => Decided(s)

LostToItsUser ==
    \A s \in Conns :
        (ShellRuns(s) /\ IsRegistered(s) /\ ~IsRegistered(s)')
            => \E d \in Conns \ {s} :
                /\ conn[d].uuid = conn[s].uuid /\ conn[d].user = conn[s].user
                /\ conn[d] # conn'[d] \/ reader[d] # reader'[d]

(* Readers start with their session and never go back to having none.       *)
LEMMA ReadersKept ==
    ASSUME IInv, ReadersAreDecided, Next
    PROVE  ReadersAreDecided'
<1> PICK c \in Conns : Connection(c) \/ PtyReader(c)
  BY DEF Next
<1>0. reader \in [Conns -> {"none", "starting", "absent", "reading", "sending", "clearing",
                           "exiting", "unregistering", "removing", "done"}]
  BY DEF IInv, TypeOK
<1>1. \A s \in Conns : Decided(s) => Decided(s)'
  BY UsersKept
<1>2. CASE NewSession(c)
  <2>1. reader' = [reader EXCEPT ![c] = "starting"] /\ Decided(c)
    BY <1>2 DEF NewSession, ReaderTo, Decided
  <2> QED
    BY <1>0, <1>1, <2>1 DEF ReadersAreDecided
<1>3. CASE PtyReader(c)
  <2>1. reader[c] # "none" /\ \A s \in Conns \ {c} : reader'[s] = reader[s]
    BY <1>0, <1>3 DEF PtyReader, StartPty, PtyFails, ReadOutput, SendOutput, ClearChannels,
       ShellExits, ReleaseHandle, RemoveUuid, RemoveRecord, ReaderTo
  <2> QED
    BY <1>1, <2>1 DEF ReadersAreDecided
<1>4. ASSUME Connection(c), ~NewSession(c) PROVE UNCHANGED reader
  BY <1>4 DEF Connection, DecideSession, KexFails, SnapshotPorts, BindFails, Bind, Accept, Resolve,
     Attach, SendScreen, FirstPacket, ForwardFrame, SilenceTimeout, StopTasks, readerVars
<1>5. CASE UNCHANGED reader
  BY <1>1, <1>5 DEF ReadersAreDecided
<1> QED
  BY <1>2, <1>3, <1>4, <1>5

(* A registration ends by a new session under its UUID, or by the clean-up   *)
(* of another reader with that UUID: both are of the user it belongs to.     *)
LEMMA LossIsByItsUser ==
    ASSUME IInv, ReadersAreDecided, Next
    PROVE  LostToItsUser
<1> USE NoneIsNoConnection DEF kexVars, handleVars, readerVars
<1> SUFFICES ASSUME NEW s \in Conns, ShellRuns(s), IsRegistered(s), ~IsRegistered(s)'
             PROVE  \E d \in Conns \ {s} :
                      /\ conn[d].uuid = conn[s].uuid /\ conn[d].user = conn[s].user
                      /\ conn[d] # conn'[d] \/ reader[d] # reader'[d]
  BY DEF LostToItsUser
<1> PICK c \in Conns : Connection(c) \/ PtyReader(c)
  BY DEF Next
<1> DEFINE u == conn[s].uuid
<1>0. /\ UuidsKeepTheirUser /\ RecordsNameTheirMaker /\ SessionsKeepTheirUser /\ StagesFit
      /\ reader \in [Conns -> {"none", "starting", "absent", "reading", "sending", "clearing",
                              "exiting", "unregistering", "removing", "done"}]
  BY DEF IInv, Ownership, TypeOK
<1>1. /\ u \in DOMAIN full_registry /\ full_registry[u] = s
      /\ u \in DOMAIN session_registry /\ session_registry[u] = conn[s].user
  BY DEF IsRegistered
<1>2. Decided(s) /\ conn[s].session = s
  BY <1>0, <1>1 DEF ReadersAreDecided, ShellRuns, RecordsNameTheirMaker
<1>3. conn'[s].user = conn[s].user
  BY <1>2, UsersKept
<1>4. ASSUME Decided(c), conn[c].uuid = u PROVE conn[c].user = conn[s].user
  BY <1>0, <1>2, <1>4 DEF UuidsKeepTheirUser
<1>5. CASE DecideSession(c)
  <2>1. ~Decided(c) /\ u # c /\ s # c
    BY <1>0, <1>1, <1>2, <1>5, DecideGives DEF UuidsKeepTheirUser
  <2>2. conn'[s] = conn[s] /\ UNCHANGED full_registry
    BY <1>5, <2>1, DecideGives DEF DecideSession
  <2>3. \/ session_registry' = Insert(session_registry, c, conn'[c].user)
        \/ UNCHANGED session_registry
    BY <1>5, DecideGives
  <2>4. u \in DOMAIN session_registry' /\ session_registry'[u] = session_registry[u]
    BY <1>1, <2>1, <2>3 DEF Insert
  <2> QED
    BY <1>1, <2>2, <2>4 DEF IsRegistered
<1>6. CASE NewSession(c)
  <2>1. /\ s # c /\ Decided(c) /\ conn'[s] = conn[s]
        /\ conn'[c].session # conn[c].session
    BY <1>2, <1>6, NewSessionMakes DEF Decided
  <2>2. full_registry' = Insert(full_registry, conn[c].uuid, c) /\ UNCHANGED session_registry
    BY <1>6 DEF NewSession
  <2>3. conn[c].uuid = u
    BY <1>1, <2>1, <2>2 DEF Insert, IsRegistered
  <2> QED
    BY <1>4, <2>1, <2>3
<1>7. CASE Resolve(c)
  <2>1. conn'[s].uuid = u /\ UNCHANGED <<session_registry, full_registry>>
    BY <1>7, ResolveFinds DEF Resolve
  <2> QED
    BY <1>1, <1>3, <2>1 DEF IsRegistered
<1>8. ASSUME RemoveUuid(c) \/ RemoveRecord(c), conn[c].uuid = u
      PROVE  c # s /\ Decided(c) /\ reader'[c] # reader[c]
  BY <1>0, <1>8 DEF RemoveUuid, RemoveRecord, ReaderTo, ShellRuns, ReadersAreDecided
<1>9. CASE RemoveUuid(c)
  <2>1. UNCHANGED <<conn, full_registry>>
        /\ session_registry' = Delete(session_registry, conn[c].uuid)
    BY <1>9 DEF RemoveUuid
  <2>2. conn[c].uuid = u
    BY <1>1, <2>1 DEF Delete, Restrict, IsRegistered
  <2> QED
    BY <1>4, <1>8, <1>9, <2>2
<1>10. CASE RemoveRecord(c)
  <2>1. UNCHANGED <<conn, session_registry>>
        /\ full_registry' = Delete(full_registry, conn[c].uuid)
    BY <1>10 DEF RemoveRecord
  <2>2. conn[c].uuid = u
    BY <1>1, <2>1 DEF Delete, Restrict, IsRegistered
  <2> QED
    BY <1>4, <1>8, <1>10, <2>2
<1>11. ASSUME KexFails(c) \/ SnapshotPorts(c) \/ BindFails(c) \/ Bind(c) \/ Accept(c)
              \/ Attach(c) \/ SendScreen(c) \/ FirstPacket(c) \/ ForwardFrame(c) \/ SilenceTimeout(c)
              \/ StopTasks(c) \/ StartPty(c) \/ PtyFails(c) \/ ReadOutput(c) \/ SendOutput(c)
              \/ ClearChannels(c) \/ ShellExits(c) \/ ReleaseHandle(c)
       PROVE  UNCHANGED <<session_registry, full_registry>>
  BY <1>11 DEF KexFails, SnapshotPorts, BindFails, Bind, Accept, Attach, SendScreen, FirstPacket,
     ForwardFrame, SilenceTimeout, StopTasks, StartPty, PtyFails, ReadOutput, SendOutput,
     ClearChannels, ShellExits, ReleaseHandle
<1>12. CASE UNCHANGED <<session_registry, full_registry>> /\ SameOwners
  BY <1>1, <1>12 DEF IsRegistered, SameOwners
<1> QED
  BY <1>5, <1>6, <1>7, <1>9, <1>10, <1>11, <1>12, MostStepsKeepOwners DEF Connection, PtyReader

(* A running session stops being the one its UUID resumes only through its    *)
(* own user, for any number of connections (kex/reader.rs:1175-1195,          *)
(* runtime.rs:1385-1392).                                                     *)
THEOREM SessionsAreNotTaken == Spec => LostOnlyToItsUser
<1>1. Init => ReadersAreDecided
  BY DEF Init, ReadersAreDecided
<1>2. IInv /\ ReadersAreDecided /\ [Next]_vars => ReadersAreDecided'
  <2>1. ASSUME ReadersAreDecided, UNCHANGED vars PROVE ReadersAreDecided'
    BY <2>1 DEF vars, ReadersAreDecided, Decided
  <2> QED
    BY <2>1, ReadersKept
<1>3. IInv /\ ReadersAreDecided /\ [Next]_vars => [LostToItsUser]_vars
  BY LossIsByItsUser
<1>4. Spec => [][LostToItsUser]_vars
  BY <1>1, <1>2, <1>3, InitIInv, StepIInv, PTL DEF Spec
<1> QED
  BY <1>4 DEF LostOnlyToItsUser, LostToItsUser

=============================================================================
