-------------------------- MODULE KeyExchangeProofs --------------------------
(***************************************************************************)
(* What the two ends of the key exchange agree on.  Everything a client    *)
(* and its server know of each other came through a frame, so the          *)
(* invariant relates four things: what each end holds at its stage and     *)
(* what the frames under way say.  It is a property of one attempt at a    *)
(* time, stated of the attempt's two ends and queues; attempts meet only   *)
(* in the session ids the program remembers.                               *)
(*                                                                         *)
(* At the end, where the client's settings and identity come from          *)
(* (KeyFiles).                                                             *)
(***************************************************************************)
EXTENDS KeyExchange, KeyFiles, SequenceTheorems, WellFoundedInduction, TLAPS

-----------------------------------------------------------------------------
(* The inductive invariant *)

ClientFields ==
    {"pc", "main", "user", "requested", "accepted", "verdict", "cause", "identity",
     "alg", "version", "transport", "key", "uuid", "session", "resume", "port", "approved"}
ServerFields ==
    {"pc", "alg", "version", "transport", "user", "requested", "key", "diff", "env",
     "uuid", "session", "resume", "proven", "port"}

(* Events the state machine has taken when the reader is at pc.            *)
Taken(pc) ==
    CASE pc \in {"idle", "kexinit"}   -> 0
      [] pc = "transport"             -> 1
      [] pc \in {"peerinit", "asking"} -> 2
      [] pc = "agreement"             -> 4
      [] pc = "token"                 -> 5
      [] pc = "addr"                  -> 6
      [] pc = "done"                  -> 7

ReaderPcs == {"idle", "kexinit", "transport", "peerinit", "asking", "agreement",
              "token", "addr", "done", "failed"}

(* The reader and the state machine it feeds.                              *)
Counts(c) ==
    /\ DOMAIN c = ClientFields /\ c.pc \in ReaderPcs
    /\ c.pc # "failed" => /\ c.cause = "none" /\ c.accepted = Taken(c.pc)
                          /\ c.verdict = IF c.pc = "done" THEN "ok" ELSE "none"
    /\ c.pc = "failed" => c.cause # "none" /\ c.verdict \notin {"ok", "idle"}
    /\ c.main = "idle" => c.pc = "idle"
    /\ c.main = "ok" => c.pc = "done"

Version(s) == ProtocolVersion(s.speaks, s.accepts)
FinalTransport(s) == IF Version(s) >= 2 /\ s.tcp /\ s.allow_tcp THEN "Tcp" ELSE "Udp"

(* What both ends hold once they have negotiated.                          *)
Negotiated(s, end) ==
    /\ Negotiable(s.server, s.client) /\ Version(s) # 0
    /\ end.alg = Negotiate(s.server, s.client) /\ end.version = Version(s)

ClientHolds(s, a, c) ==
    /\ c.pc \notin {"idle", "kexinit", "failed"} => Negotiated(s, c)
    /\ c.pc = "transport" => Version(s) >= 2
    /\ c.pc \in {"peerinit", "asking", "agreement", "token", "addr", "done"} =>
            c.transport = FinalTransport(s)
    /\ c.pc \in {"asking", "agreement", "token", "addr", "done"} =>
            c.key = <<a, c.alg, c.user>>
    /\ c.pc \in {"token", "addr", "done"} => c.uuid = a
    /\ c.resume \in BOOLEAN
    /\ c.pc \in {"addr", "done"} => (c.resume <=> c.requested = c.session)

ServerPcs == {"kexinit", "transport", "initialize", "proof", "options", "env", "check",
              "session", "setup", "accept", "done", "failed"}
Initialized == {"proof", "options", "env", "check", "session", "setup", "accept", "done"}
BeforeOptions == {"kexinit", "transport", "initialize", "proof", "options"}
BeforeEnv   == BeforeOptions \cup {"env"}
Checked     == {"session", "setup", "accept", "done"}
InSession   == {"setup", "accept", "done"}

ServerHolds(s, a, e) ==
    /\ DOMAIN e = ServerFields /\ e.pc \in ServerPcs
    /\ e.env \in BOOLEAN /\ e.proven \in BOOLEAN /\ e.resume \in BOOLEAN
    /\ e.pc \notin {"kexinit", "failed"} => Negotiated(s, e)
    /\ e.pc = "transport" => Version(s) >= 2
    /\ e.pc \in Initialized \cup {"initialize"} => e.transport = FinalTransport(s)
    /\ e.pc \in Initialized => e.key = <<a, e.alg, e.user>>
    /\ e.pc = "proof" => s.ml_dsa
    /\ e.pc \in Initialized \ {"proof"} => (e.proven <=> s.ml_dsa)
    /\ e.pc \in Initialized \ {"proof", "options"} => e.diff = s.diff
    /\ e.pc \in Checked \cup {"check"} => (e.env <=> s.env)
    /\ e.pc \in Checked => e.uuid = a
    /\ e.pc \in InSession => e.session = IF e.resume THEN e.requested ELSE a
    /\ e.pc = "accept" => e.transport = "Tcp"
    (* what the client has not been heard about *)
    /\ e.pc \in BeforeOptions => e.diff = "Reliable"
    /\ e.pc \in BeforeEnv => ~e.env
    /\ e.pc \in {"kexinit", "transport", "initialize", "proof"} => ~e.proven

(* The two ends, of what the frames already taken have told them.          *)
EndsMatch(c, e) ==
    /\ c.main = "idle" => e = NewServer
    /\ e.pc \in Initialized => e.user = c.user /\ e.requested = c.requested
    /\ c.pc \in {"addr", "done"} =>
            c.session = e.session /\ e.pc \in InSession \cup {"failed"}
    /\ c.pc = "done" => c.port = e.port /\ e.pc \in {"accept", "done"}
    /\ c.main = "ok" => e.pc = "done"

IsFrames(q) == q \in Seq(Range(q))

(* Frames to the server say what the client holds.                         *)
UpFrame(s, c, f) ==
    /\ f.frame = "TransportPreference" => f.val = s.tcp
    /\ f.frame \in {"Initialize", "ResumeRequest"} =>
            f.val = [user |-> c.user, uuid |-> c.requested]
    /\ f.frame = "ClientOptions" => f.val = s.diff
    /\ f.frame = "ClientEnv" => s.env

(* A frame x is ahead of every frame y.                                    *)
Ahead(q, x, y) ==
    \A i \in DOMAIN q : q[i].frame = y => \E j \in 1..(i-1) : q[j].frame = x

UpFrames(s, c, e, q) ==
    /\ IsFrames(q)
    /\ \A f \in Range(q) : UpFrame(s, c, f)
    /\ c.main = "idle" => q = <<>>
    /\ e.pc \in BeforeOptions /\ s.diff # "Reliable" =>
            Ahead(q, "ClientOptions", "ClientEnv") /\ Ahead(q, "ClientOptions", "Check")
    /\ e.pc \in BeforeEnv /\ s.env =>
            Ahead(q, "ClientEnv", "Check")

(* Frames to the client say what the server holds.                         *)
DownFrame(s, a, e, f) ==
    /\ f.frame = "TransportPreference" => f.val = (s.tcp /\ s.allow_tcp)
    /\ f.frame \in {"PeerInitialize", "KeyAgreement"} => f.val = a
    /\ f.frame = "SessionToken" => f.val = e.session /\ e.pc \in InSession \cup {"failed"}
    /\ f.frame = "MoshpitsAddr" => f.val = e.port /\ e.pc \in {"accept", "done"}

DownFrames(s, a, c, e, q) ==
    /\ IsFrames(q)
    /\ \A f \in Range(q) : DownFrame(s, a, e, f)
    /\ c.main = "idle" => q = <<>>

Exchange(s, a, c, e, up, dn) ==
    /\ Counts(c) /\ ClientHolds(s, a, c) /\ ServerHolds(s, a, e) /\ EndsMatch(c, e)
    /\ UpFrames(s, c, e, up) /\ DownFrames(s, a, c, e, dn)

(* The ids of sessions are those of attempts that have begun: no client    *)
(* asks for the session its own attempt will be given.                     *)
Begun == {b \in Attempts : cl[b].main # "idle"}
IdsBegun ==
    /\ uuid_file \in Begun \cup {None}
    /\ \A a \in Attempts :
          /\ {cl[a].requested, cl[a].session, sv[a].requested, sv[a].session}
                \subseteq Begun \cup {None}
          /\ cl[a].requested # a

Approval == \A a \in Attempts : cl[a].approved => known = "same"

IsArray(f) == f = [a \in Attempts |-> f[a]]
Shapes ==
    /\ setup \in SetupType
    /\ IsArray(cl) /\ IsArray(sv) /\ IsArray(c2s) /\ IsArray(s2c)

IInv ==
    /\ Shapes /\ IdsBegun /\ Approval
    /\ \A a \in Attempts : Exchange(setup, a, cl[a], sv[a], c2s[a], s2c[a])

-----------------------------------------------------------------------------
(* Queues of frames *)

(* What is left of a queue holds the same frames in the same order.        *)
LEMMA TailFrames ==
    ASSUME NEW q, IsFrames(q), q # <<>>
    PROVE  /\ IsFrames(Tail(q)) /\ Range(Tail(q)) \subseteq Range(q) /\ Head(q) \in Range(q)
           /\ \A x, y : Ahead(q, x, y) =>
                  /\ Head(q).frame # y
                  /\ Head(q).frame # x => Ahead(Tail(q), x, y)
  <1> DEFINE t == Tail(q)
  <1>1. q \in Seq(Range(q)) /\ Len(q) \in Nat \ {0} /\ DOMAIN q = 1..Len(q)
    BY DEF IsFrames
  <1>2. /\ t \in Seq(Range(q)) /\ Len(t) = Len(q) - 1 /\ DOMAIN t = 1..Len(t)
        /\ \A i \in 1..Len(t) : t[i] = q[i+1]
    BY <1>1
  <1> HIDE DEF t
  <1>3. Range(t) \subseteq Range(q)
    BY <1>1, <1>2 DEF Range
  <1>4. t \in Seq(Range(t))
    BY <1>2, SeqOfRange
  <1>5. Head(q) = q[1] /\ q[1] \in Range(q)
    BY <1>1 DEF Range
  <1>6. ASSUME NEW x, NEW y, Ahead(q, x, y), q[1].frame = y
        PROVE  FALSE
    BY <1>1, <1>6 DEF Ahead
  <1>7. ASSUME NEW x, NEW y, Ahead(q, x, y), q[1].frame # x
        PROVE  Ahead(t, x, y)
    <2> SUFFICES ASSUME NEW i \in 1..Len(t), t[i].frame = y
                 PROVE  \E j \in 1..(i-1) : t[j].frame = x
      BY <1>2 DEF Ahead
    <2>1. PICK j \in 1..i : q[j].frame = x
      BY <1>1, <1>2, <1>7 DEF Ahead
    <2>2. j # 1
      BY <2>1, <1>7
    <2>3. j - 1 \in 1..(i-1) /\ t[j-1] = q[j]
      BY <2>1, <2>2, <1>2
    <2> QED BY <2>1, <2>3
  <1> QED BY <1>3, <1>4, <1>5, <1>6, <1>7 DEF t, IsFrames

LEMMA ConcatFrames ==
    ASSUME NEW q, NEW r, IsFrames(q), IsFrames(r)
    PROVE  /\ IsFrames(q \o r) /\ Range(q \o r) = Range(q) \cup Range(r)
           /\ \A x, y : Ahead(q, x, y) /\ Ahead(r, x, y) => Ahead(q \o r, x, y)
  <1> DEFINE S == Range(q) \cup Range(r)
             u == q \o r
  <1>1. q \in Seq(S) /\ r \in Seq(S)
    BY SeqMonotonic DEF IsFrames
  <1> HIDE DEF S
  <1>2. /\ Len(q) \in Nat /\ DOMAIN q = 1..Len(q) /\ Len(r) \in Nat /\ DOMAIN r = 1..Len(r)
        /\ u \in Seq(S) /\ Len(u) = Len(q) + Len(r) /\ DOMAIN u = 1..Len(u)
        /\ \A i \in 1..Len(q) : u[i] = q[i]
        /\ \A i \in 1..Len(r) : u[Len(q) + i] = r[i]
        /\ \A i \in 1..Len(u) : i > Len(q) => i - Len(q) \in 1..Len(r) /\ u[i] = r[i - Len(q)]
    BY <1>1
  <1> HIDE DEF u
  <1>3. Range(u) = S
    <2>1. \A i \in 1..Len(u) : u[i] \in S
      BY <1>2
    <2>2. \A i \in 1..Len(q) : i \in 1..Len(u) /\ u[i] = q[i]
      BY <1>2
    <2>3. \A i \in 1..Len(r) : Len(q) + i \in 1..Len(u) /\ u[Len(q) + i] = r[i]
      BY <1>2
    <2>4. Range(u) \subseteq S
      BY <2>1, <1>2 DEF Range
    <2>5. Range(q) \subseteq Range(u)
      BY <2>2, <1>2 DEF Range
    <2>6. Range(r) \subseteq Range(u)
      BY <2>3, <1>2 DEF Range
    <2> QED BY <2>4, <2>5, <2>6 DEF S
  <1>4. ASSUME NEW x, NEW y, Ahead(q, x, y), Ahead(r, x, y)
        PROVE  Ahead(u, x, y)
    <2> SUFFICES ASSUME NEW i \in 1..Len(u), u[i].frame = y
                 PROVE  \E j \in 1..(i-1) : u[j].frame = x
      BY <1>2 DEF Ahead
    <2>1. CASE i <= Len(q)
      <3>1. PICK j \in 1..(i-1) : q[j].frame = x
        BY <1>2, <1>4, <2>1 DEF Ahead
      <3> QED BY <3>1, <1>2, <2>1
    <2>2. CASE i > Len(q)
      <3>1. i - Len(q) \in 1..Len(r) /\ r[i - Len(q)].frame = y
        BY <1>2, <2>2
      <3>2. PICK j \in 1..(i - Len(q) - 1) : r[j].frame = x
        BY <1>2, <1>4, <3>1 DEF Ahead
      <3>3. Len(q) + j \in 1..(i-1) /\ j \in 1..Len(r) /\ u[Len(q) + j] = r[j]
        BY <1>2, <3>1, <3>2
      <3> QED BY <3>2, <3>3
    <2> QED BY <2>1, <2>2, <1>2
  <1> QED BY <1>2, <1>3, <1>4 DEF IsFrames, S, u

LEMMA OneFrame ==
    ASSUME NEW f
    PROVE  /\ IsFrames(<<f>>) /\ Range(<<f>>) = {f}
           /\ \A x, y : f.frame # y => Ahead(<<f>>, x, y)
  <1>1. <<f>> \in Seq({f}) /\ Len(<<f>>) = 1 /\ <<f>>[1] = f /\ DOMAIN <<f>> = 1..1
    OBVIOUS
  <1>2. Range(<<f>>) = {f}
    BY <1>1 DEF Range
  <1> QED BY <1>1, <1>2 DEF IsFrames, Ahead

LEMMA NoFrame == IsFrames(<<>>) /\ Range(<<>>) = {} /\ \A x, y : Ahead(<<>>, x, y)
  BY DEF IsFrames, Range, Ahead

LEMMA AppendFrame ==
    ASSUME NEW q, NEW f, IsFrames(q)
    PROVE  /\ IsFrames(Append(q, f)) /\ Range(Append(q, f)) = Range(q) \cup {f}
           /\ \A x, y : Ahead(q, x, y) /\ f.frame # y => Ahead(Append(q, f), x, y)
  <1>1. q \in Seq(Range(q) \cup {f})
    BY SeqMonotonic DEF IsFrames
  <1>2. Append(q, f) = q \o <<f>>
    BY <1>1, AppendIsConcat
  <1> QED BY <1>2, OneFrame, ConcatFrames

(* How the server ends with an error.                                      *)
LEMMA FailureFrames ==
    /\ IsFrames(<<KexFailure, Closed>>)
    /\ Range(<<KexFailure, Closed>>) = {KexFailure, Closed}
  <1> DEFINE q == <<KexFailure, Closed>>
  <1>1. q \in Seq({KexFailure, Closed}) /\ Len(q) = 2 /\ q[1] = KexFailure /\ q[2] = Closed
        /\ DOMAIN q = 1..2
    OBVIOUS
  <1> HIDE DEF q
  <1>2. Range(q) = {KexFailure, Closed}
    BY <1>1 DEF Range
  <1> QED BY <1>1, <1>2 DEF IsFrames, q

-----------------------------------------------------------------------------
(* The state machine *)

(* d is c but for the state machine.                                       *)
Carried(c, d) ==
    /\ DOMAIN d = ClientFields
    /\ d.pc = c.pc /\ d.main = c.main /\ d.user = c.user /\ d.requested = c.requested
    /\ d.cause = c.cause /\ d.identity = c.identity /\ d.alg = c.alg
    /\ d.version = c.version /\ d.transport = c.transport /\ d.key = c.key
    /\ d.uuid = c.uuid /\ d.session = c.session /\ d.resume = c.resume
    /\ d.port = c.port /\ d.approved = c.approved

LEMMA EventNames ==
    /\ Len(Events) = 7
    /\ Events[1] = "NegotiatedAlgorithms" /\ Events[2] = "TransportMode"
    /\ Events[3] = "KeyMaterial" /\ Events[4] = "HMACKeyMaterial"
    /\ Events[5] = "Uuid" /\ Events[6] = "SessionInfo" /\ Events[7] = "MoshpitsAddr"
  BY DEF Events

(* The event the machine waits for takes it on, the last one to its end.   *)
LEMMA HandleExpected ==
    ASSUME NEW c, DOMAIN c = ClientFields, c.verdict = "none", c.accepted \in 0..6
    PROVE  LET d == HandleEvent(c, Events[c.accepted + 1])
           IN  /\ Carried(c, d) /\ d.accepted = c.accepted + 1
               /\ d.verdict = IF c.accepted = 6 THEN "ok" ELSE "none"
  <1> DEFINE d == HandleEvent(c, Events[c.accepted + 1])
  <1>1. d = [c EXCEPT !.accepted = @ + 1,
                      !.verdict = IF c.accepted + 1 = 7 THEN "ok" ELSE @]
    BY EventNames DEF HandleEvent
  <1> HIDE DEF d
  <1>2. Carried(c, d) /\ d.accepted = c.accepted + 1
    BY <1>1 DEF Carried, ClientFields
  <1>3. d.verdict = IF c.accepted + 1 = 7 THEN "ok" ELSE "none"
    BY <1>1 DEF ClientFields
  <1>4. c.accepted + 1 = 7 <=> c.accepted = 6
    OBVIOUS
  <1> QED BY <1>2, <1>3, <1>4 DEF d

(* What a failed reader still says ends the machine without a session.     *)
LEMMA HandleFailure ==
    ASSUME NEW c, DOMAIN c = ClientFields, c.verdict = "none", c.accepted \in 0..6,
           NEW event \in {"NoCommonAlgorithm", "Failure"}
    PROVE  LET d == HandleEvent(c, event)
           IN  Carried(c, d) /\ d.verdict \notin {"none", "ok", "idle"}
  <1> DEFINE d == HandleEvent(c, event)
  <1>1. event # Events[c.accepted + 1]
    BY EventNames
  <1>2. d = [c EXCEPT !.verdict = IF event = "NoCommonAlgorithm" THEN event
                                                                 ELSE "InvalidKexState"]
    BY <1>1 DEF HandleEvent
  <1> HIDE DEF d
  <1>3. Carried(c, d)
    BY <1>2 DEF Carried, ClientFields
  <1>4. d.verdict \notin {"none", "ok", "idle"}
    BY <1>2 DEF ClientFields
  <1> QED BY <1>3, <1>4 DEF d

LEMMA EmitNothing == ASSUME NEW c PROVE Emit(c, <<>>) = c
  BY DEF Emit

LEMMA EmitOne ==
    ASSUME NEW c, NEW event PROVE Emit(c, <<event>>) = HandleEvent(c, event)
  <1>1. <<event>> # <<>> /\ Len(<<event>>) = 1 /\ <<event>>[1] = event
    OBVIOUS
  <1> QED BY <1>1 DEF Emit

LEMMA EmitTwo ==
    ASSUME NEW c, NEW x, NEW y
    PROVE  Emit(c, <<x, y>>) = HandleEvent(HandleEvent(c, x), y)
  <1>1. <<x, y>> # <<>> /\ Len(<<x, y>>) = 2 /\ <<x, y>>[1] = x /\ <<x, y>>[2] = y
    OBVIOUS
  <1> QED BY <1>1 DEF Emit

LEMMA ExpectedOne ==
    ASSUME NEW c, DOMAIN c = ClientFields, c.verdict = "none", c.accepted \in 0..6
    PROVE  LET d == Emit(c, <<Events[c.accepted + 1]>>)
           IN  /\ Carried(c, d) /\ d.accepted = c.accepted + 1
               /\ d.verdict = IF c.accepted = 6 THEN "ok" ELSE "none"
  BY EmitOne, HandleExpected

LEMMA ExpectedTwo ==
    ASSUME NEW c, DOMAIN c = ClientFields, c.verdict = "none", c.accepted \in 0..4
    PROVE  LET d == Emit(c, <<Events[c.accepted + 1], Events[c.accepted + 2]>>)
           IN  Carried(c, d) /\ d.accepted = c.accepted + 2 /\ d.verdict = "none"
  <1> DEFINE h == HandleEvent(c, Events[c.accepted + 1])
             d == HandleEvent(h, Events[c.accepted + 2])
  <1>1. Carried(c, h) /\ h.accepted = c.accepted + 1 /\ h.verdict = "none"
    BY HandleExpected
  <1>2. DOMAIN h = ClientFields /\ h.accepted \in 1..5 /\ h.accepted + 1 = c.accepted + 2
    BY <1>1 DEF Carried
  <1>3. d = HandleEvent(h, Events[h.accepted + 1])
    BY <1>2
  <1> HIDE DEF h, d
  <1>4. Carried(h, d) /\ d.accepted = h.accepted + 1 /\ d.verdict = "none"
    BY <1>1, <1>2, <1>3, HandleExpected
  <1>5. Carried(c, d)
    BY <1>1, <1>4 DEF Carried
  <1> QED BY <1>1, <1>2, <1>4, <1>5, EmitTwo DEF d, h

(* Whatever follows a queue that has the frame x is behind it.             *)
LEMMA AheadOfRest ==
    ASSUME NEW q, NEW r, NEW x, NEW y, IsFrames(q), IsFrames(r),
           Ahead(q, x, y), \E f \in Range(q) : f.frame = x
    PROVE  Ahead(q \o r, x, y)
  <1> DEFINE S == Range(q) \cup Range(r)
             u == q \o r
  <1>1. q \in Seq(S) /\ r \in Seq(S)
    BY SeqMonotonic DEF IsFrames
  <1> HIDE DEF S
  <1>2. /\ Len(q) \in Nat /\ DOMAIN q = 1..Len(q) /\ DOMAIN u = 1..Len(u) /\ Len(u) \in Nat
        /\ \A i \in 1..Len(q) : u[i] = q[i]
    BY <1>1
  <1> HIDE DEF u
  <1> SUFFICES ASSUME NEW i \in 1..Len(u), u[i].frame = y
               PROVE  \E j \in 1..(i-1) : u[j].frame = x
    BY <1>2 DEF Ahead, u
  <1>3. CASE i <= Len(q)
    <2>1. PICK j \in 1..(i-1) : q[j].frame = x
      BY <1>2, <1>3 DEF Ahead
    <2> QED BY <2>1, <1>2, <1>3
  <1>4. CASE i > Len(q)
    <2>1. PICK j \in 1..Len(q) : q[j].frame = x
      BY <1>2 DEF Range
    <2> QED BY <2>1, <1>2, <1>4
  <1> QED BY <1>3, <1>4, <1>2

(* What the client appends once it has the server's half of the key: the   *)
(* options are ahead of the environment, and both ahead of the check.      *)
LEMMA CompletionFrames ==
    ASSUME NEW a \in Attempts, NEW key
    PROVE  LET q == Completion(a, key)
           IN  /\ IsFrames(q)
               /\ \A f \in Range(q) : UpFrame(setup, cl[a], f)
               /\ setup.diff # "Reliable" =>
                    Ahead(q, "ClientOptions", "ClientEnv") /\ Ahead(q, "ClientOptions", "Check")
               /\ setup.env => Ahead(q, "ClientEnv", "Check")
  <1> DEFINE proof == If(setup.ml_dsa, F("IdentityProof", Transcript(cl[a])))
             options == If(setup.diff # "Reliable", F("ClientOptions", setup.diff))
             env == If(setup.env, F("ClientEnv", None))
             check == <<F("Check", key)>>
  <1>1. /\ IsFrames(proof) /\ \A f \in Range(proof) : UpFrame(setup, cl[a], f)
        /\ \A x : Ahead(proof, x, "ClientEnv") /\ Ahead(proof, x, "Check")
    BY OneFrame, NoFrame DEF If, F, UpFrame
  <1>2. /\ IsFrames(options) /\ \A f \in Range(options) : UpFrame(setup, cl[a], f)
        /\ \A x : Ahead(options, x, "ClientEnv") /\ Ahead(options, x, "Check")
    BY OneFrame, NoFrame DEF If, F, UpFrame
  <1>3. /\ IsFrames(env) /\ \A f \in Range(env) : UpFrame(setup, cl[a], f)
        /\ \A x : Ahead(env, x, "Check")
    BY OneFrame, NoFrame DEF If, F, UpFrame
  <1>4. IsFrames(check) /\ \A f \in Range(check) : UpFrame(setup, cl[a], f)
    BY OneFrame DEF F, UpFrame
  <1>5. Completion(a, key) = ((proof \o options) \o env) \o check
    BY DEF Completion
  <1> DEFINE po == proof \o options
             poe == po \o env
  <1>6. IsFrames(po) /\ \A f \in Range(po) : UpFrame(setup, cl[a], f)
    BY <1>1, <1>2, ConcatFrames
  <1>7. IsFrames(poe) /\ \A f \in Range(poe) : UpFrame(setup, cl[a], f)
    BY <1>3, <1>6, ConcatFrames
  <1>8. IsFrames(poe \o check) /\ \A f \in Range(poe \o check) : UpFrame(setup, cl[a], f)
    BY <1>4, <1>7, ConcatFrames
  <1>9. ASSUME setup.diff # "Reliable"
        PROVE  /\ Ahead(poe \o check, "ClientOptions", "ClientEnv")
               /\ Ahead(poe \o check, "ClientOptions", "Check")
    <2>1. IsFrames(options) /\ Range(options) = {F("ClientOptions", setup.diff)}
      BY <1>9, OneFrame DEF If
    <2>2. F("ClientOptions", setup.diff) \in Range(po)
      BY <2>1, <1>1, ConcatFrames
    <2>3. \A y : y = "ClientEnv" \/ y = "Check" => Ahead(po, "ClientOptions", y)
      BY <1>1, <1>2, ConcatFrames
    <2>4. F("ClientOptions", setup.diff).frame = "ClientOptions"
      BY DEF F
    <2>5. F("ClientOptions", setup.diff) \in Range(poe)
      BY <2>2, <1>3, <1>6, ConcatFrames
    <2> HIDE DEF po, options
    <2>6. \A y : y = "ClientEnv" \/ y = "Check" => Ahead(poe, "ClientOptions", y)
      BY <2>2, <2>3, <2>4, <1>3, <1>6, AheadOfRest
    <2> HIDE DEF poe
    <2> QED BY <2>4, <2>5, <2>6, <1>4, <1>7, AheadOfRest
  <1>10. ASSUME setup.env PROVE Ahead(poe \o check, "ClientEnv", "Check")
    <2>1. IsFrames(env) /\ Range(env) = {F("ClientEnv", None)}
      BY <1>10, OneFrame DEF If
    <2>2. F("ClientEnv", None) \in Range(poe)
      BY <2>1, <1>6, ConcatFrames
    <2>3. Ahead(poe, "ClientEnv", "Check")
      <3>1. Ahead(po, "ClientEnv", "Check")
        BY <1>1, <1>2, ConcatFrames
      <3> QED BY <3>1, <1>3, <1>6, ConcatFrames
    <2>4. F("ClientEnv", None).frame = "ClientEnv"
      BY DEF F
    <2> HIDE DEF poe
    <2> QED BY <2>2, <2>3, <2>4, <1>4, <1>7, AheadOfRest
  <1> QED BY <1>5, <1>8, <1>9, <1>10

-----------------------------------------------------------------------------
(* Steps of one attempt *)

LEMMA ExceptSelf ==
    ASSUME NEW f, IsArray(f), NEW a \in Attempts PROVE f = [f EXCEPT ![a] = f[a]]
  BY DEF IsArray

(* The step gives attempt a the ends d and e and the queues up and dn.     *)
AttemptBecomes(a, d, e, up, dn) ==
    /\ cl' = [cl EXCEPT ![a] = d] /\ sv' = [sv EXCEPT ![a] = e]
    /\ c2s' = [c2s EXCEPT ![a] = up] /\ s2c' = [s2c EXCEPT ![a] = dn] /\ setup' = setup

StaysBegun(a, d, e) ==
    /\ d.main # "idle" /\ d.requested # a
    /\ {d.requested, d.session, e.requested, e.session, uuid_file'} \subseteq Begun \cup {None}

StaysApproved(a, d) ==
    known' = "same" \/ (known' = known /\ (d.approved => cl[a].approved))

(* A step of one attempt keeps the invariant if it keeps the attempt's.    *)
LEMMA AttemptSteps ==
    ASSUME IInv, NEW a \in Attempts, NEW d, NEW e, NEW up, NEW dn,
           AttemptBecomes(a, d, e, up, dn), StaysBegun(a, d, e), StaysApproved(a, d),
           Exchange(setup, a, d, e, up, dn)
    PROVE  IInv'
  <1> USE DEF AttemptBecomes, StaysBegun, StaysApproved
  <1>1. /\ IsArray(cl) /\ IsArray(sv) /\ IsArray(c2s) /\ IsArray(s2c) /\ setup \in SetupType
        /\ IdsBegun /\ Approval
        /\ \A b \in Attempts : Exchange(setup, b, cl[b], sv[b], c2s[b], s2c[b])
    BY DEF IInv, Shapes
  <1>2. /\ IsArray(cl') /\ cl'[a] = d /\ IsArray(sv') /\ sv'[a] = e
        /\ IsArray(c2s') /\ c2s'[a] = up /\ IsArray(s2c') /\ s2c'[a] = dn
    BY <1>1 DEF IsArray
  <1>3. \A b \in Attempts \ {a} : /\ cl'[b] = cl[b] /\ sv'[b] = sv[b]
                                  /\ c2s'[b] = c2s[b] /\ s2c'[b] = s2c[b]
    BY <1>1 DEF IsArray
  <1>4. \A b \in Attempts : Exchange(setup', b, cl'[b], sv'[b], c2s'[b], s2c'[b])
    BY <1>1, <1>2, <1>3
  <1>5. Begun \subseteq Begun'
    BY <1>2, <1>3 DEF Begun
  <1>6. IdsBegun'
    <2>1. uuid_file' \in Begun' \cup {None}
      BY <1>5
    <2> SUFFICES ASSUME NEW b \in Attempts
                 PROVE  /\ {cl'[b].requested, cl'[b].session, sv'[b].requested, sv'[b].session}
                                \subseteq Begun' \cup {None}
                        /\ cl'[b].requested # b
      BY <2>1 DEF IdsBegun
    <2>2. CASE b = a
      BY <2>2, <1>2, <1>5
    <2>3. CASE b # a
      BY <2>3, <1>1, <1>3, <1>5 DEF IdsBegun
    <2> QED BY <2>2, <2>3
  <1>7. Approval'
    BY <1>1, <1>2, <1>3 DEF Approval
  <1>8. Shapes'
    BY <1>1, <1>2 DEF Shapes
  <1> QED BY <1>4, <1>6, <1>7, <1>8 DEF IInv

(* The frames of a client say the same as long as it does not log in anew. *)
LEMMA SameUp ==
    ASSUME NEW s, NEW c, NEW d, NEW e, NEW q, UpFrames(s, c, e, q),
           d.user = c.user, d.requested = c.requested, d.main # "idle"
    PROVE  UpFrames(s, d, e, q)
  BY DEF UpFrames, UpFrame

LEMMA ClientTakes ==
    ASSUME NEW s, NEW a, NEW c, NEW d, NEW e, NEW q, DownFrames(s, a, c, e, q),
           d.main # "idle"
    PROVE  /\ DownFrames(s, a, d, e, q)
           /\ q # <<>> => DownFrames(s, a, d, e, Tail(q)) /\ DownFrame(s, a, e, Head(q))
  BY TailFrames DEF DownFrames

(* What the client's reader does: it reads frames and sends some.          *)
LEMMA ClientActs ==
    ASSUME IInv, NEW a \in Attempts, NEW d, NEW up, NEW dn,
           cl' = [cl EXCEPT ![a] = d], sv' = sv, setup' = setup, uuid_file' = uuid_file,
           c2s' = [c2s EXCEPT ![a] = up], s2c' = [s2c EXCEPT ![a] = dn],
           known' = "same" \/ (known' = known /\ (d.approved => cl[a].approved)),
           d.main # "idle", d.user = cl[a].user, d.requested = cl[a].requested,
           d.session \in Begun \cup {None},
           Counts(d), ClientHolds(setup, a, d), EndsMatch(d, sv[a]),
           UpFrames(setup, cl[a], sv[a], up),
           dn = s2c[a] \/ (s2c[a] # <<>> /\ dn = Tail(s2c[a]))
    PROVE  IInv'
  <1>1. Exchange(setup, a, cl[a], sv[a], c2s[a], s2c[a]) /\ IsArray(sv) /\ IdsBegun
    BY DEF IInv, Shapes
  <1>2. sv' = [sv EXCEPT ![a] = sv[a]]
    BY <1>1, ExceptSelf
  <1>3. UpFrames(setup, d, sv[a], up) /\ DownFrames(setup, a, d, sv[a], dn)
    BY <1>1, SameUp, ClientTakes DEF Exchange
  <1>4. Exchange(setup, a, d, sv[a], up, dn)
    BY <1>1, <1>3 DEF Exchange
  <1>5. /\ {d.requested, d.session, sv[a].requested, sv[a].session, uuid_file'}
                \subseteq Begun \cup {None}
        /\ d.requested # a
    BY <1>1 DEF IdsBegun
  <1>6. AttemptBecomes(a, d, sv[a], up, dn) /\ StaysBegun(a, d, sv[a]) /\ StaysApproved(a, d)
    BY <1>2, <1>5 DEF AttemptBecomes, StaysBegun, StaysApproved
  <1> QED BY <1>4, <1>6, AttemptSteps

(* What the server does.                                                   *)
LEMMA ServerActs ==
    ASSUME IInv, NEW a \in Attempts, NEW e, NEW up, NEW dn,
           sv' = [sv EXCEPT ![a] = e], cl' = cl, setup' = setup, uuid_file' = uuid_file,
           c2s' = [c2s EXCEPT ![a] = up], s2c' = [s2c EXCEPT ![a] = dn], known' = known,
           cl[a].main # "idle", {e.requested, e.session} \subseteq Begun \cup {None},
           ServerHolds(setup, a, e), EndsMatch(cl[a], e),
           UpFrames(setup, cl[a], e, up), DownFrames(setup, a, cl[a], e, dn)
    PROVE  IInv'
  <1>1. Exchange(setup, a, cl[a], sv[a], c2s[a], s2c[a]) /\ IsArray(cl) /\ IdsBegun
    BY DEF IInv, Shapes
  <1>2. cl' = [cl EXCEPT ![a] = cl[a]]
    BY <1>1, ExceptSelf
  <1>3. Exchange(setup, a, cl[a], e, up, dn)
    BY <1>1 DEF Exchange
  <1>4. /\ {cl[a].requested, cl[a].session, e.requested, e.session, uuid_file'}
                \subseteq Begun \cup {None}
        /\ cl[a].requested # a
    BY <1>1 DEF IdsBegun
  <1>5. /\ AttemptBecomes(a, cl[a], e, up, dn) /\ StaysBegun(a, cl[a], e)
        /\ StaysApproved(a, cl[a])
    BY <1>2, <1>4 DEF AttemptBecomes, StaysBegun, StaysApproved
  <1> QED BY <1>3, <1>5, AttemptSteps

LEMMA Entered ==
    ASSUME IInv, NEW a \in Attempts
    PROVE  /\ setup \in SetupType /\ IsArray(cl) /\ IsArray(sv) /\ IsArray(c2s) /\ IsArray(s2c)
           /\ Counts(cl[a]) /\ ClientHolds(setup, a, cl[a]) /\ ServerHolds(setup, a, sv[a])
           /\ EndsMatch(cl[a], sv[a]) /\ UpFrames(setup, cl[a], sv[a], c2s[a])
           /\ DownFrames(setup, a, cl[a], sv[a], s2c[a])
           /\ {cl[a].requested, cl[a].session, sv[a].requested, sv[a].session, uuid_file}
                \subseteq Begun \cup {None}
           /\ cl[a].main # "idle" => a \in Begun
  BY DEF IInv, Shapes, Exchange, IdsBegun, Begun

(* While the reader is at work the machine waits for an event.             *)
LEMMA AtWork ==
    ASSUME NEW c, Counts(c), c.pc \notin {"idle", "done", "failed"}
    PROVE  /\ c.verdict = "none" /\ c.cause = "none" /\ c.accepted \in 0..6
           /\ c.accepted = Taken(c.pc) /\ c.main \notin {"idle", "ok"}
           /\ DOMAIN c = ClientFields
  BY DEF Counts, Taken, ReaderPcs

(* What a reader that fails may still say.                                 *)
LastWord(events) ==
    events = <<>> \/ events = <<"Failure">> \/ events = <<"NoCommonAlgorithm">>

(* d is c once it has failed, with c1 what it held.                        *)
FailedFrom(s, a, c, c1, e, d) ==
    /\ Counts(d) /\ ClientHolds(s, a, d) /\ EndsMatch(d, e)
    /\ d.main # "idle" /\ d.user = c.user /\ d.requested = c.requested
    /\ d.session = c.session /\ d.approved = c1.approved

LEMMA ClientFailing ==
    ASSUME NEW s, NEW a, NEW c, NEW c1, NEW e, NEW cause, NEW events,
           Counts(c), ClientHolds(s, a, c), EndsMatch(c, e),
           c.pc \notin {"idle", "done", "failed"}, cause # "none",
           LastWord(events),
           DOMAIN c1 = ClientFields, c1.verdict = c.verdict, c1.accepted = c.accepted,
           c1.main = c.main, c1.user = c.user, c1.requested = c.requested,
           c1.session = c.session, c1.resume = c.resume
    PROVE  FailedFrom(s, a, c, c1, e, Fails(c1, cause, events))
  <1> DEFINE c2 == [c1 EXCEPT !.pc = "failed", !.cause = cause]
             d == Emit(c2, events)
  <1>1. /\ c.verdict = "none" /\ c.accepted \in 0..6 /\ c.main \notin {"idle", "ok"}
        /\ DOMAIN c = ClientFields
    BY AtWork
  <1>3. /\ DOMAIN c2 = ClientFields /\ c2.verdict = "none" /\ c2.accepted = c.accepted
        /\ c2.main = c.main /\ c2.user = c.user /\ c2.requested = c.requested
        /\ c2.session = c.session /\ c2.resume = c.resume /\ c2.approved = c1.approved
        /\ c2.pc = "failed" /\ c2.cause = cause
    BY <1>1 DEF ClientFields
  <1> HIDE DEF c2
  <1>4. Carried(c2, d) /\ d.verdict \notin {"ok", "idle"}
    <2>1. CASE events = <<>>
      BY <2>1, <1>3, EmitNothing DEF Carried
    <2>2. CASE events # <<>>
      BY <2>2, <1>1, <1>3, EmitOne, HandleFailure DEF LastWord
    <2> QED BY <2>1, <2>2
  <1> HIDE DEF d
  <1>5. /\ DOMAIN d = ClientFields /\ d.pc = "failed" /\ d.cause = cause /\ d.main = c.main
        /\ d.user = c.user /\ d.requested = c.requested /\ d.session = c.session
        /\ d.resume = c.resume /\ d.approved = c1.approved
    BY <1>3, <1>4 DEF Carried
  <1>6. Counts(d)
    BY <1>1, <1>4, <1>5 DEF Counts, ReaderPcs
  <1>7. ClientHolds(s, a, d)
    BY <1>5 DEF ClientHolds
  <1>8. EndsMatch(d, e)
    BY <1>1, <1>5 DEF EndsMatch
  <1> QED BY <1>1, <1>5, <1>6, <1>7, <1>8 DEF Fails, d, c2, FailedFrom

(* The reader ends with an error, with or without a word to the machine.   *)
LEMMA FailureKeeps ==
    ASSUME IInv, NEW a \in Attempts, NEW cause, NEW events, NEW dn,
           cl[a].pc \notin {"idle", "done", "failed"}, cause # "none",
           LastWord(events),
           cl' = [cl EXCEPT ![a] = Fails(@, cause, events)],
           s2c' = [s2c EXCEPT ![a] = dn], c2s' = c2s, sv' = sv,
           setup' = setup, known' = known, uuid_file' = uuid_file,
           dn = s2c[a] \/ (s2c[a] # <<>> /\ dn = Tail(s2c[a]))
    PROVE  IInv'
  <1> DEFINE d == Fails(cl[a], cause, events)
  <1>1. /\ Counts(d) /\ ClientHolds(setup, a, d) /\ EndsMatch(d, sv[a])
        /\ d.main # "idle" /\ d.user = cl[a].user /\ d.requested = cl[a].requested
        /\ d.session = cl[a].session /\ d.approved = cl[a].approved
    <2>1. /\ Counts(cl[a]) /\ ClientHolds(setup, a, cl[a]) /\ EndsMatch(cl[a], sv[a])
          /\ DOMAIN cl[a] = ClientFields
      BY Entered DEF Counts
    <2>2. FailedFrom(setup, a, cl[a], cl[a], sv[a], d)
      BY <2>1, ClientFailing
    <2> QED BY <2>2 DEF FailedFrom
  <1>2. cl' = [cl EXCEPT ![a] = d]
    OBVIOUS
  <1>3. c2s' = [c2s EXCEPT ![a] = c2s[a]]
    BY Entered, ExceptSelf
  <1> HIDE DEF d
  <1> QED BY <1>1, <1>2, <1>3, Entered, ClientActs

(* A step of the machine with the reader's: what c, the client with its    *)
(* fields set, becomes.                                                    *)
LEMMA ClientTold ==
    ASSUME NEW s, NEW a, NEW c, NEW d, NEW e, Carried(c, d),
           ClientHolds(s, a, c), EndsMatch(c, e), c.pc \in ReaderPcs \ {"idle", "failed"},
           c.cause = "none", c.main \notin {"idle", "ok"}, d.accepted = Taken(c.pc),
           d.verdict = IF c.pc = "done" THEN "ok" ELSE "none"
    PROVE  Counts(d) /\ ClientHolds(s, a, d) /\ EndsMatch(d, e)
  <1>1. Counts(d)
    BY DEF Counts, Carried
  <1>2. ClientHolds(s, a, d)
    BY DEF ClientHolds, Carried, Negotiated
  <1>3. EndsMatch(d, e)
    BY DEF EndsMatch, Carried
  <1> QED BY <1>1, <1>2, <1>3

(* The reader moves on by one frame.  c is the client with its fields set. *)
LEMMA ClientMoves ==
    ASSUME IInv, NEW a \in Attempts, NEW c, NEW d, NEW up, NEW dn,
           cl' = [cl EXCEPT ![a] = d], sv' = sv, setup' = setup, uuid_file' = uuid_file,
           c2s' = [c2s EXCEPT ![a] = up], s2c' = [s2c EXCEPT ![a] = dn],
           known' = "same" \/ (known' = known /\ (c.approved => cl[a].approved)),
           cl[a].pc \notin {"idle", "done", "failed"}, Carried(c, d),
           c.main = cl[a].main, c.cause = cl[a].cause,
           c.user = cl[a].user, c.requested = cl[a].requested,
           c.session \in Begun \cup {None}, c.pc \in ReaderPcs \ {"idle", "failed"},
           d.accepted = Taken(c.pc), d.verdict = IF c.pc = "done" THEN "ok" ELSE "none",
           ClientHolds(setup, a, c), EndsMatch(c, sv[a]),
           UpFrames(setup, cl[a], sv[a], up),
           dn = s2c[a] \/ (s2c[a] # <<>> /\ dn = Tail(s2c[a]))
    PROVE  IInv'
  <1>1. c.cause = "none" /\ c.main \notin {"idle", "ok"}
    BY Entered, AtWork
  <1>2. Counts(d) /\ ClientHolds(setup, a, d) /\ EndsMatch(d, sv[a])
    BY <1>1, ClientTold
  <1>3. /\ d.main # "idle" /\ d.user = cl[a].user /\ d.requested = cl[a].requested
        /\ d.session \in Begun \cup {None} /\ d.approved = c.approved
    BY <1>1 DEF Carried
  <1> QED BY <1>2, <1>3, ClientActs

-----------------------------------------------------------------------------
(* The client's reader, step by step *)

LEMMA ReadFailsKeeps ==
    ASSUME IInv, NEW a \in Attempts,
           NEW pc \in {"kexinit", "transport", "peerinit", "agreement", "token", "addr"},
           ReadFails(a, pc)
    PROVE  IInv'
  <1>1. /\ cl[a].pc = pc /\ s2c[a] # <<>> /\ s2c' = [s2c EXCEPT ![a] = Tail(s2c[a])]
        /\ cl' = [cl EXCEPT ![a] = Fails(@, "read", <<>>)]
        /\ setup' = setup /\ known' = known /\ uuid_file' = uuid_file
        /\ sv' = sv /\ c2s' = c2s
    BY DEF ReadFails, ClientReads, SilentFailure, shared
  <1>2. LastWord(<<>>)
    BY DEF LastWord
  <1> QED BY <1>1, <1>2, FailureKeeps

LEMMA RejectHostKeeps ==
    ASSUME IInv, NEW a \in Attempts, RejectHost(a) PROVE IInv'
  <1>1. /\ cl[a].pc = "asking" /\ s2c' = s2c
        /\ cl' = [cl EXCEPT ![a] = Fails(@, "HostKeyRejected", <<"Failure">>)]
        /\ setup' = setup /\ known' = known /\ uuid_file' = uuid_file
        /\ sv' = sv /\ c2s' = c2s
    BY DEF RejectHost, Failure, shared
  <1>2. s2c' = [s2c EXCEPT ![a] = s2c[a]]
    BY <1>1, Entered, ExceptSelf
  <1>3. LastWord(<<"Failure">>)
    BY DEF LastWord
  <1> QED BY <1>1, <1>2, <1>3, FailureKeeps

LEMMA ServerRefusesKeeps ==
    ASSUME IInv, NEW a \in Attempts, ServerRefuses(a) PROVE IInv'
  <1>1. LastWord(<<>>) /\ LastWord(<<"Failure">>) /\ LastWord(<<"NoCommonAlgorithm">>)
    BY DEF LastWord
  <1>2. PICK pc \in {"kexinit", "transport", "peerinit", "agreement", "token", "addr"},
             cause \in {"refused", "closed"},
             events \in {<<>>, <<"Failure">>, <<"NoCommonAlgorithm">>} :
          /\ ClientReads(a, pc)
          /\ cl' = [cl EXCEPT ![a] = Fails(@, cause, events)]
          /\ UNCHANGED <<shared, sv, c2s>>
    BY DEF ServerRefuses, Failure, SilentFailure
  <1>3. /\ cl[a].pc = pc /\ s2c[a] # <<>> /\ s2c' = [s2c EXCEPT ![a] = Tail(s2c[a])]
        /\ setup' = setup /\ known' = known /\ uuid_file' = uuid_file
        /\ sv' = sv /\ c2s' = c2s
    BY <1>2 DEF ClientReads, shared
  <1> QED BY <1>1, <1>2, <1>3, FailureKeeps

LEMMA VersionsMatch ==
    ASSUME NEW s \in SetupType
    PROVE  Version(s) \in Nat /\ ProtocolVersion(s.accepts, s.speaks) = Version(s)
  <1>1. /\ s.accepts.min \in Nat /\ s.accepts.max \in Nat
        /\ s.speaks.min \in Nat /\ s.speaks.max \in Nat
    BY DEF SetupType, Ranges
  <1> QED BY <1>1 DEF Version, ProtocolVersion, Lower

LEMMA SetupFields ==
    ASSUME NEW s \in SetupType
    PROVE  /\ s.tcp \in BOOLEAN /\ s.allow_tcp \in BOOLEAN /\ s.env \in BOOLEAN
           /\ s.ml_dsa \in BOOLEAN
           /\ s.client \in Seq(STRING) /\ s.server \in Seq(STRING)
  BY DEF SetupType

(* A frame sent goes behind those under way.                               *)
LEMMA ClientSends ==
    ASSUME NEW s, NEW c, NEW e, NEW q, NEW f, UpFrames(s, c, e, q), UpFrame(s, c, f),
           f.frame \notin {"ClientEnv", "Check"}, c.main # "idle"
    PROVE  UpFrames(s, c, e, Append(q, f))
  BY AppendFrame DEF UpFrames

LEMMA ReadKexInitKeeps ==
    ASSUME IInv, NEW a \in Attempts, ReadKexInit(a) PROVE IInv'
  <1> DEFINE version == ProtocolVersion(setup.speaks, setup.accepts)
             alg == Negotiate(setup.server, setup.client)
             pc == IF version >= 2 THEN "transport" ELSE "peerinit"
             transport == IF version >= 2 THEN cl[a].transport ELSE "Udp"
             frame == IF version >= 2 THEN F("TransportPreference", setup.tcp)
                                      ELSE Initialize(a)
             c == [cl[a] EXCEPT !.alg = alg, !.version = version, !.pc = pc,
                                !.transport = transport]
             d == Emit(c, Agreed(version))
  <1>1. /\ cl[a].pc = "kexinit" /\ s2c[a] # <<>> /\ s2c' = [s2c EXCEPT ![a] = Tail(s2c[a])]
        /\ setup' = setup /\ known' = known /\ uuid_file' = uuid_file /\ sv' = sv
    BY DEF ReadKexInit, ClientReads, Failure, shared
  <1>2. ASSUME NEW cause \in {"NoCommonAlgorithm", "IncompatibleProtocolVersion"},
               NEW event \in {"NoCommonAlgorithm", "Failure"}, Failure(a, cause, event)
        PROVE  IInv'
    <2>1. LastWord(<<event>>)
      BY DEF LastWord
    <2>2. cl' = [cl EXCEPT ![a] = Fails(@, cause, <<event>>)] /\ c2s' = c2s
      BY <1>2 DEF Failure
    <2> QED BY <1>1, <2>1, <2>2, FailureKeeps
  <1>3. ASSUME Negotiable(setup.server, setup.client), version # 0,
               cl' = [cl EXCEPT ![a] = d],
               c2s' = [c2s EXCEPT ![a] = Append(@, frame)]
        PROVE  IInv'
    <2>1. /\ cl[a].verdict = "none" /\ cl[a].accepted = 0 /\ DOMAIN cl[a] = ClientFields
          /\ cl[a].main \notin {"idle", "ok"}
      BY <1>1, Entered, AtWork DEF Taken
    <2>2. version \in Nat /\ version = Version(setup)
      BY Entered, VersionsMatch DEF Version
    <2> HIDE DEF version, alg
    <2>3. /\ c.verdict = "none" /\ c.accepted = 0 /\ DOMAIN c = ClientFields
          /\ c.pc = pc /\ c.alg = alg /\ c.version = version /\ c.transport = transport
          /\ c.main = cl[a].main /\ c.cause = cl[a].cause /\ c.user = cl[a].user
          /\ c.requested = cl[a].requested /\ c.session = cl[a].session
          /\ c.resume = cl[a].resume /\ c.approved = cl[a].approved
      BY <2>1 DEF ClientFields
    <2> HIDE DEF c
    <2>4. Carried(c, d) /\ d.accepted = Taken(c.pc) /\ d.verdict = "none"
      <3>1. CASE version >= 2
        <4>1. Agreed(version) = <<Events[1]>>
          BY <3>1, EventNames DEF Agreed
        <4>2. Carried(c, d) /\ d.accepted = 1 /\ d.verdict = "none"
          BY <2>3, <4>1, ExpectedOne
        <4> QED BY <2>3, <3>1, <4>2 DEF Taken
      <3>2. CASE ~(version >= 2)
        <4>1. Agreed(version) = <<Events[1], Events[2]>>
          BY <3>2, EventNames DEF Agreed
        <4>2. Carried(c, d) /\ d.accepted = 2 /\ d.verdict = "none"
          BY <2>3, <4>1, ExpectedTwo
        <4> QED BY <2>3, <3>2, <4>2 DEF Taken
      <3> QED BY <3>1, <3>2
    <2>5. ClientHolds(setup, a, c)
      <3>1. Negotiated(setup, c)
        BY <1>3, <2>2, <2>3 DEF Negotiated, alg
      <3>2. c.pc # "transport" => c.transport = FinalTransport(setup) /\ c.pc = "peerinit"
        BY <2>2, <2>3 DEF FinalTransport
      <3>3. c.pc = "transport" => Version(setup) >= 2
        BY <2>2, <2>3
      <3>4. c.resume \in BOOLEAN
        BY <2>3, Entered DEF ClientHolds
      <3>5. c.pc \in {"transport", "peerinit"}
        BY <2>3
      <3> QED BY <3>1, <3>2, <3>3, <3>4, <3>5 DEF ClientHolds
    <2>6. EndsMatch(c, sv[a])
      BY <2>1, <2>3, Entered DEF EndsMatch
    <2>7. UpFrames(setup, cl[a], sv[a], Append(c2s[a], frame))
      <3>1. /\ UpFrame(setup, cl[a], frame) /\ frame.frame \notin {"ClientEnv", "Check"}
        BY DEF UpFrame, Initialize, F
      <3> QED BY <2>1, <3>1, Entered, ClientSends
    <2> HIDE DEF d
    <2>8. c.pc \in ReaderPcs \ {"idle", "failed", "done"}
      BY <2>3 DEF ReaderPcs
    <2>9. c2s' = [c2s EXCEPT ![a] = Append(c2s[a], frame)]
      BY <1>3
    <2> HIDE DEF frame
    <2> QED BY <1>1, <1>3, <2>3, <2>4, <2>5, <2>6, <2>7, <2>8, <2>9, Entered, ClientMoves
  <1>4. \/ Failure(a, "NoCommonAlgorithm", "NoCommonAlgorithm")
        \/ Failure(a, "IncompatibleProtocolVersion", "Failure")
        \/ /\ Negotiable(setup.server, setup.client) /\ version # 0
           /\ cl' = [cl EXCEPT ![a] = d]
           /\ c2s' = [c2s EXCEPT ![a] = Append(@, frame)]
    BY DEF ReadKexInit
  <1> HIDE DEF d, frame, version
  <1> QED BY <1>2, <1>3, <1>4

(* A frame the client takes says what the server holds.                    *)
LEMMA FrameTaken ==
    ASSUME IInv, NEW a \in Attempts, s2c[a] # <<>>
    PROVE  DownFrame(setup, a, sv[a], Arrived(a))
  BY Entered, TailFrames DEF Arrived, DownFrames

LEMMA ReadTransportPreferenceKeeps ==
    ASSUME IInv, NEW a \in Attempts, ReadTransportPreference(a) PROVE IInv'
  <1> DEFINE echo == Arrived(a).val
             c == [cl[a] EXCEPT !.transport = ClientTransport(echo), !.pc = "peerinit"]
             d == Emit(c, <<"TransportMode">>)
  <1>1. /\ cl[a].pc = "transport" /\ s2c[a] # <<>> /\ s2c' = [s2c EXCEPT ![a] = Tail(s2c[a])]
        /\ Arrived(a).frame = "TransportPreference"
        /\ setup' = setup /\ known' = known /\ uuid_file' = uuid_file /\ sv' = sv
        /\ cl' = [cl EXCEPT ![a] = d]
        /\ c2s' = [c2s EXCEPT ![a] = Append(c2s[a], Initialize(a))]
    BY DEF ReadTransportPreference, ClientReads, shared
  <1>2. /\ cl[a].verdict = "none" /\ cl[a].accepted = 1 /\ DOMAIN cl[a] = ClientFields
        /\ cl[a].main \notin {"idle", "ok"}
    BY <1>1, Entered, AtWork DEF Taken
  <1>3. echo = (setup.tcp /\ setup.allow_tcp)
    BY <1>1, FrameTaken DEF DownFrame
  <1>4. ClientTransport(echo) = FinalTransport(setup)
    <2>1. Version(setup) >= 2
      BY <1>1, Entered DEF ClientHolds
    <2> QED BY <2>1, <1>3 DEF ClientTransport, FinalTransport
  <1>5. /\ c.verdict = "none" /\ c.accepted = 1 /\ DOMAIN c = ClientFields
        /\ c.pc = "peerinit" /\ c.alg = cl[a].alg /\ c.version = cl[a].version
        /\ c.transport = FinalTransport(setup)
        /\ c.main = cl[a].main /\ c.cause = cl[a].cause /\ c.user = cl[a].user
        /\ c.requested = cl[a].requested /\ c.session = cl[a].session
        /\ c.resume = cl[a].resume /\ c.approved = cl[a].approved
    BY <1>2, <1>4 DEF ClientFields
  <1> HIDE DEF c
  <1>6. Carried(c, d) /\ d.accepted = Taken(c.pc) /\ d.verdict = "none"
    <2>1. <<"TransportMode">> = <<Events[c.accepted + 1]>>
      BY <1>5, EventNames
    <2>2. Carried(c, d) /\ d.accepted = 2 /\ d.verdict = "none"
      BY <1>5, <2>1, ExpectedOne
    <2> QED BY <2>2, <1>5 DEF Taken
  <1>7. ClientHolds(setup, a, c)
    BY <1>1, <1>5, Entered DEF ClientHolds, Negotiated
  <1>8. EndsMatch(c, sv[a])
    BY <1>2, <1>5, Entered DEF EndsMatch
  <1>9. UpFrames(setup, cl[a], sv[a], Append(c2s[a], Initialize(a)))
    <2>1. /\ UpFrame(setup, cl[a], Initialize(a))
          /\ Initialize(a).frame \notin {"ClientEnv", "Check"}
      BY DEF UpFrame, Initialize, F
    <2> QED BY <2>1, <1>2, Entered, ClientSends
  <1>10. c.pc \in ReaderPcs \ {"idle", "failed", "done"}
    BY <1>5 DEF ReaderPcs
  <1> HIDE DEF d
  <1> QED BY <1>1, <1>5, <1>6, <1>7, <1>8, <1>9, <1>10, Entered, ClientMoves

LEMMA AskAboutHostKeeps ==
    ASSUME IInv, NEW a \in Attempts, AskAboutHost(a) PROVE IInv'
  <1> DEFINE key == SessionKeys(Arrived(a).val, cl[a])
             d == [cl[a] EXCEPT !.pc = "asking", !.key = key]
  <1>1. /\ cl[a].pc = "peerinit" /\ s2c[a] # <<>> /\ s2c' = [s2c EXCEPT ![a] = Tail(s2c[a])]
        /\ Arrived(a).frame = "PeerInitialize"
        /\ setup' = setup /\ known' = known /\ uuid_file' = uuid_file /\ sv' = sv
        /\ cl' = [cl EXCEPT ![a] = d] /\ c2s' = c2s
    BY Entered DEF AskAboutHost, ClientReads, shared, IsArray
  <1>2. /\ cl[a].verdict = "none" /\ cl[a].accepted = 2 /\ DOMAIN cl[a] = ClientFields
        /\ cl[a].main \notin {"idle", "ok"}
    BY <1>1, Entered, AtWork DEF Taken
  <1>3. key = <<a, cl[a].alg, cl[a].user>>
    BY <1>1, FrameTaken DEF DownFrame, SessionKeys
  <1>4. /\ d.verdict = "none" /\ d.accepted = 2 /\ DOMAIN d = ClientFields
        /\ d.pc = "asking" /\ d.alg = cl[a].alg /\ d.version = cl[a].version
        /\ d.transport = cl[a].transport /\ d.key = key
        /\ d.main = cl[a].main /\ d.cause = cl[a].cause /\ d.user = cl[a].user
        /\ d.requested = cl[a].requested /\ d.session = cl[a].session
        /\ d.resume = cl[a].resume /\ d.approved = cl[a].approved
    BY <1>2 DEF ClientFields
  <1> HIDE DEF d, key
  <1>5. Carried(d, d)
    BY <1>4 DEF Carried
  <1>6. ClientHolds(setup, a, d)
    BY <1>1, <1>3, <1>4, Entered DEF ClientHolds, Negotiated
  <1>7. EndsMatch(d, sv[a])
    BY <1>2, <1>4, Entered DEF EndsMatch
  <1>8. c2s' = [c2s EXCEPT ![a] = c2s[a]]
    BY <1>1, Entered, ExceptSelf
  <1>9. d.pc \in ReaderPcs \ {"idle", "failed", "done"} /\ d.accepted = Taken(d.pc)
    BY <1>4 DEF ReaderPcs, Taken
  <1> QED BY <1>1, <1>4, <1>5, <1>6, <1>7, <1>8, <1>9, Entered, ClientMoves

(* The reader goes on with the server's half of the key.                   *)
LEMMA ProceedKeeps ==
    ASSUME IInv, NEW a \in Attempts, NEW key, NEW approved \in BOOLEAN, NEW dn,
           Proceed(a, key, approved), key = <<a, cl[a].alg, cl[a].user>>,
           cl[a].pc \in {"peerinit", "asking"}, sv' = sv, setup' = setup,
           uuid_file' = uuid_file, known' = "same" \/ (known' = known /\ ~approved),
           s2c' = [s2c EXCEPT ![a] = dn],
           dn = s2c[a] \/ (s2c[a] # <<>> /\ dn = Tail(s2c[a]))
    PROVE  IInv'
  <1> DEFINE c == [cl[a] EXCEPT !.key = key, !.pc = "agreement", !.approved = approved]
             d == Emit(c, <<"KeyMaterial", "HMACKeyMaterial">>)
             c1 == [cl[a] EXCEPT !.approved = approved]
             f == Fails(c1, "agent", <<>>)
             up == c2s[a] \o Completion(a, key)
  <1>1. /\ cl[a].verdict = "none" /\ cl[a].accepted = 2 /\ DOMAIN cl[a] = ClientFields
        /\ cl[a].main \notin {"idle", "ok"}
    BY Entered, AtWork DEF Taken
  <1>2. \/ cl' = [cl EXCEPT ![a] = d] /\ c2s' = [c2s EXCEPT ![a] = up]
        \/ cl' = [cl EXCEPT ![a] = f] /\ c2s' = c2s
    BY DEF Proceed
  <1>3. ASSUME cl' = [cl EXCEPT ![a] = f], c2s' = c2s
        PROVE  IInv'
    <2>1. /\ DOMAIN c1 = ClientFields /\ c1.verdict = cl[a].verdict
          /\ c1.accepted = cl[a].accepted /\ c1.main = cl[a].main /\ c1.user = cl[a].user
          /\ c1.requested = cl[a].requested /\ c1.session = cl[a].session
          /\ c1.resume = cl[a].resume /\ c1.approved = approved
      BY <1>1 DEF ClientFields
    <2> HIDE DEF c1
    <2>2. Counts(cl[a]) /\ ClientHolds(setup, a, cl[a]) /\ EndsMatch(cl[a], sv[a])
      BY Entered
    <2>3. LastWord(<<>>)
      BY DEF LastWord
    <2>4. FailedFrom(setup, a, cl[a], c1, sv[a], f)
      BY <2>1, <2>2, <2>3, ClientFailing
    <2>5. c2s' = [c2s EXCEPT ![a] = c2s[a]]
      BY <1>3, Entered, ExceptSelf
    <2> HIDE DEF f
    <2>6. /\ Counts(f) /\ ClientHolds(setup, a, f) /\ EndsMatch(f, sv[a])
          /\ f.main # "idle" /\ f.user = cl[a].user /\ f.requested = cl[a].requested
          /\ f.session = cl[a].session /\ f.approved = approved
      BY <2>1, <2>4 DEF FailedFrom
    <2> QED BY <1>3, <2>5, <2>6, Entered, ClientActs
  <1>4. ASSUME cl' = [cl EXCEPT ![a] = d], c2s' = [c2s EXCEPT ![a] = up]
        PROVE  IInv'
    <2>1. /\ c.verdict = "none" /\ c.accepted = 2 /\ DOMAIN c = ClientFields
          /\ c.pc = "agreement" /\ c.alg = cl[a].alg /\ c.version = cl[a].version
          /\ c.transport = cl[a].transport /\ c.key = key
          /\ c.main = cl[a].main /\ c.cause = cl[a].cause /\ c.user = cl[a].user
          /\ c.requested = cl[a].requested /\ c.session = cl[a].session
          /\ c.resume = cl[a].resume /\ c.approved = approved
      BY <1>1 DEF ClientFields
    <2> HIDE DEF c
    <2>2. Carried(c, d) /\ d.accepted = Taken(c.pc) /\ d.verdict = "none"
      <3>1. <<"KeyMaterial", "HMACKeyMaterial">>
                = <<Events[c.accepted + 1], Events[c.accepted + 2]>>
        BY <2>1, EventNames
      <3> DEFINE two == <<Events[c.accepted + 1], Events[c.accepted + 2]>>
      <3>3. d = Emit(c, two)
        BY <3>1
      <3>4. LET x == Emit(c, two)
            IN  Carried(c, x) /\ x.accepted = c.accepted + 2 /\ x.verdict = "none"
        BY <2>1, ExpectedTwo
      <3> HIDE DEF d, two
      <3>2. Carried(c, d) /\ d.accepted = 4 /\ d.verdict = "none"
        BY <2>1, <3>3, <3>4
      <3> QED BY <3>2, <2>1 DEF Taken
    <2>3. ClientHolds(setup, a, c)
      BY <2>1, Entered DEF ClientHolds, Negotiated
    <2>4. EndsMatch(c, sv[a])
      BY <1>1, <2>1, Entered DEF EndsMatch
    <2>5. UpFrames(setup, cl[a], sv[a], up)
      <3>1. UpFrames(setup, cl[a], sv[a], c2s[a]) /\ IsFrames(c2s[a])
        BY Entered DEF UpFrames
      <3> QED BY <1>1, <3>1, CompletionFrames, ConcatFrames DEF UpFrames
    <2>6. c.pc \in ReaderPcs \ {"idle", "failed", "done"}
      BY <2>1 DEF ReaderPcs
    <2> HIDE DEF d, up
    <2> QED BY <1>4, <2>1, <2>2, <2>3, <2>4, <2>5, <2>6, Entered, ClientMoves
  <1> QED BY <1>2, <1>3, <1>4

LEMMA ReadPeerInitializeKeeps ==
    ASSUME IInv, NEW a \in Attempts, ReadPeerInitialize(a) PROVE IInv'
  <1> DEFINE key == SessionKeys(Arrived(a).val, cl[a])
  <1>1. /\ cl[a].pc = "peerinit" /\ s2c[a] # <<>> /\ s2c' = [s2c EXCEPT ![a] = Tail(s2c[a])]
        /\ Arrived(a).frame = "PeerInitialize" /\ Proceed(a, key, FALSE)
        /\ setup' = setup /\ known' = known /\ uuid_file' = uuid_file /\ sv' = sv
    BY DEF ReadPeerInitialize, ClientReads, shared
  <1>2. key = <<a, cl[a].alg, cl[a].user>>
    BY <1>1, FrameTaken DEF DownFrame, SessionKeys
  <1> HIDE DEF key
  <1> QED BY <1>1, <1>2, ProceedKeeps

(* Whose host is accepted has it recorded.                                 *)
LEMMA AcceptHostKeeps ==
    ASSUME IInv, NEW a \in Attempts, AcceptHost(a) PROVE IInv'
  <1>1. /\ cl[a].pc = "asking" /\ Proceed(a, cl[a].key, TRUE) /\ known' = "same"
        /\ setup' = setup /\ uuid_file' = uuid_file /\ sv' = sv /\ s2c' = s2c
    BY DEF AcceptHost, RememberHost
  <1>2. cl[a].key = <<a, cl[a].alg, cl[a].user>>
    BY <1>1, Entered DEF ClientHolds
  <1>3. s2c' = [s2c EXCEPT ![a] = s2c[a]]
    BY <1>1, Entered, ExceptSelf
  <1> QED BY <1>1, <1>2, <1>3, ProceedKeeps

LEMMA ReadKeyAgreementKeeps ==
    ASSUME IInv, NEW a \in Attempts, ReadKeyAgreement(a) PROVE IInv'
  <1> DEFINE c == [cl[a] EXCEPT !.uuid = Arrived(a).val, !.pc = "token"]
             d == Emit(c, <<"Uuid">>)
  <1>1. /\ cl[a].pc = "agreement" /\ s2c[a] # <<>> /\ s2c' = [s2c EXCEPT ![a] = Tail(s2c[a])]
        /\ Arrived(a).frame = "KeyAgreement"
        /\ setup' = setup /\ known' = known /\ uuid_file' = uuid_file /\ sv' = sv
        /\ cl' = [cl EXCEPT ![a] = d] /\ c2s' = c2s
    BY DEF ReadKeyAgreement, ClientReads, shared
  <1>2. /\ cl[a].verdict = "none" /\ cl[a].accepted = 4 /\ DOMAIN cl[a] = ClientFields
        /\ cl[a].main \notin {"idle", "ok"}
    BY <1>1, Entered, AtWork DEF Taken
  <1>3. Arrived(a).val = a
    BY <1>1, FrameTaken DEF DownFrame
  <1>4. /\ c.verdict = "none" /\ c.accepted = 4 /\ DOMAIN c = ClientFields
        /\ c.pc = "token" /\ c.alg = cl[a].alg /\ c.version = cl[a].version
        /\ c.transport = cl[a].transport /\ c.key = cl[a].key /\ c.uuid = a
        /\ c.main = cl[a].main /\ c.cause = cl[a].cause /\ c.user = cl[a].user
        /\ c.requested = cl[a].requested /\ c.session = cl[a].session
        /\ c.resume = cl[a].resume /\ c.approved = cl[a].approved
    BY <1>2, <1>3 DEF ClientFields
  <1> HIDE DEF c
  <1>5. Carried(c, d) /\ d.accepted = Taken(c.pc) /\ d.verdict = "none"
    <2>1. <<"Uuid">> = <<Events[c.accepted + 1]>>
      BY <1>4, EventNames
    <2>2. Carried(c, d) /\ d.accepted = 5 /\ d.verdict = "none"
      BY <1>4, <2>1, ExpectedOne
    <2> QED BY <2>2, <1>4 DEF Taken
  <1>6. ClientHolds(setup, a, c)
    BY <1>1, <1>4, Entered DEF ClientHolds, Negotiated
  <1>7. EndsMatch(c, sv[a])
    BY <1>2, <1>4, Entered DEF EndsMatch
  <1>8. c2s' = [c2s EXCEPT ![a] = c2s[a]]
    BY <1>1, Entered, ExceptSelf
  <1>9. c.pc \in ReaderPcs \ {"idle", "failed", "done"}
    BY <1>4 DEF ReaderPcs
  <1> HIDE DEF d
  <1>10. /\ c.session \in Begun \cup {None} /\ c.cause = cl[a].cause
         /\ c.main = cl[a].main /\ c.user = cl[a].user /\ c.requested = cl[a].requested
         /\ cl[a].pc \notin {"idle", "done", "failed"}
         /\ UpFrames(setup, cl[a], sv[a], c2s[a])
    BY <1>1, <1>4, Entered
  <1>11. d.verdict = IF c.pc = "done" THEN "ok" ELSE "none"
    BY <1>4, <1>5
  <1>12. known' = "same" \/ (known' = known /\ (c.approved => cl[a].approved))
    BY <1>1, <1>4
  <1> QED BY <1>1, <1>5, <1>6, <1>7, <1>8, <1>9, <1>10, <1>11, <1>12, ClientMoves

LEMMA ReadSessionTokenKeeps ==
    ASSUME IInv, NEW a \in Attempts, ReadSessionToken(a) PROVE IInv'
  <1> DEFINE session == Arrived(a).val
             c == [cl[a] EXCEPT !.session = session, !.resume = IsResume(a, session),
                                !.pc = "addr"]
             d == Emit(c, <<"SessionInfo">>)
  <1>1. /\ cl[a].pc = "token" /\ s2c[a] # <<>> /\ s2c' = [s2c EXCEPT ![a] = Tail(s2c[a])]
        /\ Arrived(a).frame = "SessionToken"
        /\ setup' = setup /\ known' = known /\ uuid_file' = uuid_file /\ sv' = sv
        /\ cl' = [cl EXCEPT ![a] = d] /\ c2s' = c2s
    BY DEF ReadSessionToken, ClientReads, shared
  <1>2. /\ cl[a].verdict = "none" /\ cl[a].accepted = 5 /\ DOMAIN cl[a] = ClientFields
        /\ cl[a].main \notin {"idle", "ok"}
    BY <1>1, Entered, AtWork DEF Taken
  <1>3. session = sv[a].session /\ sv[a].pc \in InSession \cup {"failed"}
    BY <1>1, FrameTaken DEF DownFrame
  <1>4. IsResume(a, session) \in BOOLEAN
        /\ (IsResume(a, session) <=> cl[a].requested = session)
    BY DEF IsResume
  <1> HIDE DEF session
  <1>5. /\ c.verdict = "none" /\ c.accepted = 5 /\ DOMAIN c = ClientFields
        /\ c.pc = "addr" /\ c.alg = cl[a].alg /\ c.version = cl[a].version
        /\ c.transport = cl[a].transport /\ c.key = cl[a].key /\ c.uuid = cl[a].uuid
        /\ c.main = cl[a].main /\ c.cause = cl[a].cause /\ c.user = cl[a].user
        /\ c.requested = cl[a].requested /\ c.session = session
        /\ c.resume = IsResume(a, session) /\ c.approved = cl[a].approved
    BY <1>2 DEF ClientFields
  <1> HIDE DEF c
  <1>6. Carried(c, d) /\ d.accepted = Taken(c.pc) /\ d.verdict = "none"
    <2>1. <<"SessionInfo">> = <<Events[c.accepted + 1]>>
      BY <1>5, EventNames
    <2>2. Carried(c, d) /\ d.accepted = 6 /\ d.verdict = "none"
      BY <1>5, <2>1, ExpectedOne
    <2> QED BY <2>2, <1>5 DEF Taken
  <1>7. ClientHolds(setup, a, c)
    <2>1. c.resume \in BOOLEAN /\ (c.resume <=> c.requested = c.session)
      BY <1>4, <1>5
    <2> QED BY <2>1, <1>1, <1>5, Entered DEF ClientHolds, Negotiated
  <1>8. EndsMatch(c, sv[a])
    BY <1>2, <1>3, <1>5, Entered DEF EndsMatch
  <1>9. c2s' = [c2s EXCEPT ![a] = c2s[a]]
    BY <1>1, Entered, ExceptSelf
  <1>10. c.pc \in ReaderPcs \ {"idle", "failed", "done"}
    BY <1>5 DEF ReaderPcs
  <1>11. c.session \in Begun \cup {None}
    BY <1>3, <1>5, Entered
  <1> HIDE DEF d
  <1> QED BY <1>1, <1>5, <1>6, <1>7, <1>8, <1>9, <1>10, <1>11, Entered, ClientMoves

LEMMA ReadMoshpitsAddrKeeps ==
    ASSUME IInv, NEW a \in Attempts, ReadMoshpitsAddr(a) PROVE IInv'
  <1> DEFINE c == [cl[a] EXCEPT !.port = Arrived(a).val, !.pc = "done"]
             d == Emit(c, <<"MoshpitsAddr">>)
  <1>1. /\ cl[a].pc = "addr" /\ s2c[a] # <<>> /\ s2c' = [s2c EXCEPT ![a] = Tail(s2c[a])]
        /\ Arrived(a).frame = "MoshpitsAddr"
        /\ setup' = setup /\ known' = known /\ uuid_file' = uuid_file /\ sv' = sv
        /\ cl' = [cl EXCEPT ![a] = d] /\ c2s' = c2s
    BY DEF ReadMoshpitsAddr, ClientReads, shared
  <1>2. /\ cl[a].verdict = "none" /\ cl[a].accepted = 6 /\ DOMAIN cl[a] = ClientFields
        /\ cl[a].main \notin {"idle", "ok"}
    BY <1>1, Entered, AtWork DEF Taken
  <1>3. Arrived(a).val = sv[a].port /\ sv[a].pc \in {"accept", "done"}
    BY <1>1, FrameTaken DEF DownFrame
  <1>4. /\ c.verdict = "none" /\ c.accepted = 6 /\ DOMAIN c = ClientFields
        /\ c.pc = "done" /\ c.alg = cl[a].alg /\ c.version = cl[a].version
        /\ c.transport = cl[a].transport /\ c.key = cl[a].key /\ c.uuid = cl[a].uuid
        /\ c.main = cl[a].main /\ c.cause = cl[a].cause /\ c.user = cl[a].user
        /\ c.requested = cl[a].requested /\ c.session = cl[a].session
        /\ c.resume = cl[a].resume /\ c.approved = cl[a].approved
        /\ c.port = sv[a].port
    BY <1>2, <1>3 DEF ClientFields
  <1> HIDE DEF c
  <1>5. Carried(c, d) /\ d.accepted = Taken(c.pc) /\ d.verdict = "ok"
    <2>1. <<"MoshpitsAddr">> = <<Events[c.accepted + 1]>>
      BY <1>4, EventNames
    <2>2. Carried(c, d) /\ d.accepted = 7 /\ d.verdict = "ok"
      BY <1>4, <2>1, ExpectedOne
    <2> QED BY <2>2, <1>4 DEF Taken
  <1>6. ClientHolds(setup, a, c)
    BY <1>1, <1>4, Entered DEF ClientHolds, Negotiated
  <1>7. EndsMatch(c, sv[a])
    BY <1>1, <1>2, <1>3, <1>4, Entered DEF EndsMatch, InSession
  <1>8. c2s' = [c2s EXCEPT ![a] = c2s[a]]
    BY <1>1, Entered, ExceptSelf
  <1>9. c.pc \in ReaderPcs \ {"idle", "failed"}
    BY <1>4 DEF ReaderPcs
  <1> HIDE DEF d
  <1> QED BY <1>1, <1>4, <1>5, <1>6, <1>7, <1>8, <1>9, Entered, ClientMoves

-----------------------------------------------------------------------------
(* The client's main task and the connection *)

LEMMA StartAttemptKeeps ==
    ASSUME IInv, NEW a \in Attempts, StartAttempt(a) PROVE IInv'
  <1>1. PICK user \in Users, id \in LoadIdentity :
          /\ MayStart(a, user)
          /\ IF id \in {"agent", "file"}
             THEN /\ cl' = [cl EXCEPT ![a] =
                              [@ EXCEPT !.pc = "kexinit", !.main = "waiting", !.user = user,
                                        !.requested = uuid_file, !.identity = id]]
                  /\ c2s' = [c2s EXCEPT ![a] = <<F("KexInit", None)>>]
             ELSE /\ cl' = [cl EXCEPT ![a].main = id]
                  /\ c2s' = [c2s EXCEPT ![a] = <<Closed>>]
    BY DEF StartAttempt
  <1>2. setup' = setup /\ known' = known /\ uuid_file' = uuid_file /\ sv' = sv /\ s2c' = s2c
    BY DEF StartAttempt, shared
  <1>3. /\ cl[a].main = "idle" /\ cl[a].pc = "idle" /\ cl[a].cause = "none"
        /\ cl[a].accepted = 0 /\ cl[a].verdict = "none" /\ DOMAIN cl[a] = ClientFields
        /\ cl[a].resume \in BOOLEAN
    BY <1>1, Entered DEF MayStart, Counts, Taken, ClientHolds
  <1>4. sv[a] = NewServer /\ c2s[a] = <<>> /\ s2c[a] = <<>> /\ sv[a].pc = "kexinit"
    <2>1. sv[a] = NewServer /\ c2s[a] = <<>> /\ s2c[a] = <<>>
      BY <1>3, Entered DEF EndsMatch, UpFrames, DownFrames
    <2>2. NewServer.pc = "kexinit"
      BY DEF NewServer
    <2> QED BY <2>1, <2>2
  <1>5. sv' = [sv EXCEPT ![a] = sv[a]] /\ s2c' = [s2c EXCEPT ![a] = <<>>]
    BY <1>2, <1>4, Entered, ExceptSelf
  <1>6. a \notin Begun /\ a # None
    BY <1>3 DEF Begun, None, Attempts
  <1>7. ASSUME NEW d, NEW f, cl' = [cl EXCEPT ![a] = d], c2s' = [c2s EXCEPT ![a] = <<f>>],
               f.frame \in {"KexInit", "closed"}, Counts(d), d.pc \in {"idle", "kexinit"},
               d.main \notin {"idle", "ok"}, d.resume \in BOOLEAN,
               d.requested \in Begun \cup {None}, d.session \in Begun \cup {None},
               d.approved = cl[a].approved
        PROVE  IInv'
    <2>1. ClientHolds(setup, a, d)
      BY <1>7 DEF ClientHolds
    <2>2. EndsMatch(d, sv[a])
      BY <1>4, <1>7 DEF EndsMatch, Initialized
    <2>3. UpFrames(setup, d, sv[a], <<f>>)
      BY <1>7, OneFrame DEF UpFrames, UpFrame
    <2>4. DownFrames(setup, a, d, sv[a], <<>>)
      BY NoFrame DEF DownFrames
    <2>5. Exchange(setup, a, d, sv[a], <<f>>, <<>>)
      BY <1>7, <2>1, <2>2, <2>3, <2>4, Entered DEF Exchange
    <2>6. /\ {d.requested, d.session, sv[a].requested, sv[a].session, uuid_file'}
                \subseteq Begun \cup {None}
          /\ d.requested # a
      BY <1>2, <1>6, <1>7, Entered
    <2>7. AttemptBecomes(a, d, sv[a], <<f>>, <<>>)
      BY <1>2, <1>5, <1>7 DEF AttemptBecomes
    <2>8. StaysBegun(a, d, sv[a]) /\ StaysApproved(a, d)
      BY <1>2, <1>7, <2>6 DEF StaysBegun, StaysApproved
    <2> QED BY <2>5, <2>7, <2>8, AttemptSteps
  <1>8. CASE id \in {"agent", "file"}
    <2> DEFINE d == [cl[a] EXCEPT !.pc = "kexinit", !.main = "waiting", !.user = user,
                                  !.requested = uuid_file, !.identity = id]
    <2>1. cl' = [cl EXCEPT ![a] = d] /\ c2s' = [c2s EXCEPT ![a] = <<F("KexInit", None)>>]
      BY <1>1, <1>8
    <2>2. /\ d.pc = "kexinit" /\ d.main = "waiting" /\ d.requested = uuid_file
          /\ d.session = cl[a].session /\ d.accepted = 0 /\ d.cause = "none"
          /\ d.verdict = "none" /\ DOMAIN d = ClientFields /\ d.resume \in BOOLEAN
          /\ d.approved = cl[a].approved
      BY <1>3 DEF ClientFields
    <2> HIDE DEF d
    <2>3. Counts(d)
      BY <2>2 DEF Counts, Taken, ReaderPcs
    <2>4. F("KexInit", None).frame \in {"KexInit", "closed"}
      BY DEF F
    <2> QED BY <1>7, <2>1, <2>2, <2>3, <2>4, Entered
  <1>9. CASE id \notin {"agent", "file"}
    <2> DEFINE d == [cl[a] EXCEPT !.main = id]
    <2>1. cl' = [cl EXCEPT ![a] = d] /\ c2s' = [c2s EXCEPT ![a] = <<Closed>>]
      BY <1>1, <1>9, Entered DEF IsArray
    <2>2. id \notin {"idle", "ok"}
      <3>1. setup.key \in {"missing", "plain", "encrypted", "mismatch"}
        BY Entered DEF SetupType
      <3> QED BY <1>9, <3>1 DEF LoadIdentity
    <2>3. /\ d.pc = "idle" /\ d.main = id /\ d.requested = cl[a].requested
          /\ d.session = cl[a].session /\ d.accepted = 0 /\ d.cause = "none"
          /\ d.verdict = "none" /\ DOMAIN d = ClientFields /\ d.resume \in BOOLEAN
          /\ d.approved = cl[a].approved
      BY <1>3 DEF ClientFields
    <2> HIDE DEF d
    <2>4. Counts(d)
      BY <2>2, <2>3 DEF Counts, Taken, ReaderPcs
    <2>5. Closed.frame \in {"KexInit", "closed"}
      BY DEF F, Closed
    <2> QED BY <1>7, <2>1, <2>2, <2>3, <2>4, <2>5, Entered
  <1> QED BY <1>8, <1>9

(* The main task has its outcome; the reader stays as it is.               *)
LEMMA MainTaskKeeps ==
    ASSUME IInv, NEW a \in Attempts, NEW main, NEW e,
           cl' = [cl EXCEPT ![a].main = main], sv' = [sv EXCEPT ![a] = e],
           setup' = setup, known' = known, c2s' = c2s, s2c' = s2c,
           uuid_file' \in {uuid_file, cl[a].session},
           cl[a].main # "idle", main # "idle",
           main = "ok" => cl[a].pc = "done" /\ e.pc = "done",
           e = sv[a] \/ (cl[a].pc = "done" /\ e = [sv[a] EXCEPT !.pc = "done"])
    PROVE  IInv'
  <1> DEFINE d == [cl[a] EXCEPT !.main = main]
  <1>1. DOMAIN cl[a] = ClientFields
    BY Entered DEF Counts
  <1>2. cl' = [cl EXCEPT ![a] = d]
    BY Entered DEF IsArray
  <1>3. Carried([d EXCEPT !.main = cl[a].main], cl[a]) /\ d.main = main
        /\ DOMAIN d = ClientFields /\ d.accepted = cl[a].accepted /\ d.verdict = cl[a].verdict
        /\ d.pc = cl[a].pc /\ d.user = cl[a].user /\ d.requested = cl[a].requested
        /\ d.cause = cl[a].cause /\ d.alg = cl[a].alg /\ d.version = cl[a].version
        /\ d.transport = cl[a].transport /\ d.key = cl[a].key /\ d.uuid = cl[a].uuid
        /\ d.session = cl[a].session /\ d.resume = cl[a].resume /\ d.port = cl[a].port
        /\ d.approved = cl[a].approved
    BY <1>1 DEF Carried, ClientFields
  <1> HIDE DEF d
  <1>4. /\ e.requested = sv[a].requested /\ e.session = sv[a].session /\ e.port = sv[a].port
        /\ e.user = sv[a].user /\ ServerHolds(setup, a, e)
        /\ e.pc # sv[a].pc => cl[a].pc = "done" /\ e.pc = "done" /\ sv[a].pc = "accept"
    <2>1. CASE e = sv[a]
      BY <2>1, Entered
    <2>2. CASE cl[a].pc = "done" /\ e = [sv[a] EXCEPT !.pc = "done"]
      <3>1. DOMAIN sv[a] = ServerFields /\ sv[a].pc \in {"accept", "done"}
            /\ ServerHolds(setup, a, sv[a])
        BY <2>2, Entered DEF ServerHolds, EndsMatch
      <3>2. /\ DOMAIN e = ServerFields /\ e.pc = "done" /\ e.requested = sv[a].requested
            /\ e.session = sv[a].session /\ e.port = sv[a].port /\ e.user = sv[a].user
            /\ e.alg = sv[a].alg /\ e.version = sv[a].version /\ e.transport = sv[a].transport
            /\ e.key = sv[a].key /\ e.diff = sv[a].diff /\ e.env = sv[a].env
            /\ e.uuid = sv[a].uuid /\ e.resume = sv[a].resume /\ e.proven = sv[a].proven
        BY <2>2, <3>1 DEF ServerFields
      <3>3. ServerHolds(setup, a, e)
        BY <3>1, <3>2 DEF ServerHolds, Negotiated, Initialized, Checked, InSession,
                          BeforeOptions, BeforeEnv, ServerPcs
      <3> QED BY <2>2, <3>1, <3>2, <3>3
    <2> QED BY <2>1, <2>2
  <1>5. Counts(d)
    BY <1>3, Entered DEF Counts
  <1>6. ClientHolds(setup, a, d)
    BY <1>3, Entered DEF ClientHolds, Negotiated
  <1>7. EndsMatch(d, e)
    BY <1>3, <1>4, Entered DEF EndsMatch, Initialized, InSession
  <1>8. UpFrames(setup, d, e, c2s[a])
    <2>1. UpFrames(setup, cl[a], e, c2s[a])
      BY <1>4, Entered DEF UpFrames, BeforeOptions, BeforeEnv
    <2> QED BY <2>1, <1>3, SameUp
  <1>9. DownFrames(setup, a, d, e, s2c[a])
    BY <1>3, <1>4, Entered DEF DownFrames, DownFrame, InSession
  <1>10. Exchange(setup, a, d, e, c2s[a], s2c[a])
    BY <1>4, <1>5, <1>6, <1>7, <1>8, <1>9 DEF Exchange
  <1>11. c2s' = [c2s EXCEPT ![a] = c2s[a]] /\ s2c' = [s2c EXCEPT ![a] = s2c[a]]
    BY Entered, ExceptSelf
  <1>12. /\ {d.requested, d.session, e.requested, e.session, uuid_file'} \subseteq Begun \cup {None}
         /\ d.requested # a
    BY <1>3, <1>4, Entered DEF IInv, IdsBegun
  <1>13. d.main # "idle" /\ d.approved = cl[a].approved
    BY <1>3
  <1>14. /\ AttemptBecomes(a, d, e, c2s[a], s2c[a])
         /\ StaysBegun(a, d, e) /\ StaysApproved(a, d)
    BY <1>2, <1>11, <1>12, <1>13 DEF AttemptBecomes, StaysBegun, StaysApproved
  <1> QED BY <1>10, <1>14, AttemptSteps

LEMMA KexTimeoutKeeps ==
    ASSUME IInv, NEW a \in Attempts, KexTimeout(a) \/ DataPortBlocked(a) PROVE IInv'
  <1>1. PICK main \in {"timeout", "unconnected"} : cl' = [cl EXCEPT ![a].main = main]
    BY DEF KexTimeout, DataPortBlocked
  <1>2. /\ cl[a].main # "idle" /\ setup' = setup /\ known' = known /\ c2s' = c2s
        /\ s2c' = s2c /\ uuid_file' = uuid_file /\ sv' = sv
    BY DEF KexTimeout, DataPortBlocked, shared
  <1>3. sv' = [sv EXCEPT ![a] = sv[a]]
    BY <1>2, Entered, ExceptSelf
  <1> QED BY <1>1, <1>2, <1>3, MainTaskKeeps

LEMMA MainEndsKeeps ==
    ASSUME IInv, NEW a \in Attempts, MainEnds(a) PROVE IInv'
  <1> DEFINE main == cl[a].verdict
             toTcp == main = "ok" /\ cl[a].transport = "Tcp"
             e == IF toTcp THEN [sv[a] EXCEPT !.pc = "done"] ELSE sv[a]
  <1>1. /\ cl[a].main # "idle" /\ setup' = setup /\ known' = known /\ c2s' = c2s
        /\ s2c' = s2c /\ uuid_file' \in {uuid_file, cl[a].session}
        /\ cl' = [cl EXCEPT ![a].main = main] /\ main # "none"
        /\ sv' = IF toTcp THEN [sv EXCEPT ![a].pc = "done"] ELSE sv
    BY DEF MainEnds
  <1>2. sv' = [sv EXCEPT ![a] = e]
    BY <1>1, Entered DEF IsArray
  <1>3. main # "idle" /\ (main = "ok" => cl[a].pc = "done")
    BY Entered DEF Counts
  <1>4. main = "ok" => e.pc = "done"
    <2>1. CASE toTcp
      BY <2>1, Entered DEF ServerHolds, ServerFields
    <2>2. CASE main = "ok" /\ ~toTcp
      BY <2>2, <1>3, Entered DEF EndsMatch, ServerHolds, ClientHolds, Initialized
    <2> QED BY <2>1, <2>2
  <1>5. e = sv[a] \/ (cl[a].pc = "done" /\ e = [sv[a] EXCEPT !.pc = "done"])
    BY <1>3
  <1> HIDE DEF e, main
  <1> QED BY <1>1, <1>2, <1>3, <1>4, <1>5, MainTaskKeeps

LEMMA ConnectionKeeps ==
    ASSUME IInv, NEW a \in Attempts, ClientCloses(a) \/ ConnectionBreaks(a) PROVE IInv'
  <1>1. /\ cl[a].main # "idle" /\ setup' = setup /\ known' = known /\ uuid_file' = uuid_file
        /\ sv' = sv /\ cl' = cl
    BY DEF ClientCloses, ConnectionBreaks, shared
  <1>2. PICK up, dn : /\ c2s' = [c2s EXCEPT ![a] = up] /\ s2c' = [s2c EXCEPT ![a] = dn]
                      /\ up = Append(c2s[a], Closed) \/ up = <<Reset>>
                      /\ dn = s2c[a] \/ dn = <<Reset>>
    BY Entered, ExceptSelf DEF ClientCloses, ConnectionBreaks
  <1>3. UpFrames(setup, cl[a], sv[a], up)
    <2>1. UpFrame(setup, cl[a], Closed) /\ Closed.frame \notin {"ClientEnv", "Check"}
      BY DEF UpFrame, Closed, F
    <2>2. UpFrame(setup, cl[a], Reset) /\ Reset.frame \notin {"ClientEnv", "Check"}
      BY DEF UpFrame, Reset, F
    <2>3. UpFrames(setup, cl[a], sv[a], <<Reset>>)
      BY <1>1, <2>2, OneFrame DEF UpFrames
    <2>4. UpFrames(setup, cl[a], sv[a], Append(c2s[a], Closed))
      BY <1>1, <2>1, Entered, ClientSends
    <2> QED BY <1>2, <2>3, <2>4
  <1>4. DownFrames(setup, a, cl[a], sv[a], dn)
    <2>1. DownFrame(setup, a, sv[a], Reset)
      BY DEF DownFrame, Reset, F
    <2>2. DownFrames(setup, a, cl[a], sv[a], <<Reset>>)
      BY <1>1, <2>1, OneFrame DEF DownFrames
    <2> QED BY <1>2, <2>2, Entered
  <1>5. sv' = [sv EXCEPT ![a] = sv[a]]
    BY <1>1, Entered, ExceptSelf
  <1>6. ServerHolds(setup, a, sv[a]) /\ EndsMatch(cl[a], sv[a])
        /\ {sv[a].requested, sv[a].session} \subseteq Begun \cup {None}
    BY Entered
  <1> QED BY <1>1, <1>2, <1>3, <1>4, <1>5, <1>6, ServerActs

-----------------------------------------------------------------------------
(* The server, step by step *)

(* The step makes e of attempt a's server, which has taken what is no      *)
(* longer in up and sent r.                                                *)
ServerBecomes(a, e, up, r) ==
    /\ sv' = [sv EXCEPT ![a] = e] /\ cl' = cl /\ setup' = setup
    /\ uuid_file' = uuid_file /\ known' = known
    /\ c2s' = [c2s EXCEPT ![a] = up] /\ s2c' = [s2c EXCEPT ![a] = s2c[a] \o r]

(* The options and the environment are not skipped.                        *)
TakesInOrder(a, e, up) ==
    /\ up = c2s[a] \/ (c2s[a] # <<>> /\ up = Tail(c2s[a]))
    /\ e.pc \in BeforeOptions => /\ sv[a].pc \in BeforeOptions
                                 /\ up # c2s[a] => Head(c2s[a]).frame # "ClientOptions"
    /\ e.pc \in BeforeEnv => /\ sv[a].pc \in BeforeEnv
                             /\ up # c2s[a] => Head(c2s[a]).frame # "ClientEnv"

(* What the server has said stays true.                                    *)
GoesOn(a, e) ==
    /\ sv[a].pc \notin {"accept", "done", "failed"}
    /\ sv[a].pc = "setup" => e.session = sv[a].session /\ e.pc \in InSession \cup {"failed"}
    /\ e.pc \in Initialized => e.user = cl[a].user /\ e.requested = cl[a].requested
    /\ {e.requested, e.session} \subseteq Begun \cup {None}

LEMMA ServerSteps ==
    ASSUME IInv, NEW a \in Attempts, NEW e, NEW up, NEW r,
           ServerBecomes(a, e, up, r), TakesInOrder(a, e, up), GoesOn(a, e),
           cl[a].main # "idle", ServerHolds(setup, a, e),
           IsFrames(r), \A f \in Range(r) : DownFrame(setup, a, e, f)
    PROVE  IInv'
  <1> DEFINE dn == s2c[a] \o r
  <1>1. /\ UpFrames(setup, cl[a], sv[a], c2s[a]) /\ DownFrames(setup, a, cl[a], sv[a], s2c[a])
        /\ EndsMatch(cl[a], sv[a])
    BY Entered
  <1>2. UpFrames(setup, cl[a], e, up)
    <2>1. CASE up = c2s[a]
      BY <1>1, <2>1 DEF UpFrames, TakesInOrder
    <2>2. CASE up # c2s[a]
      <3> DEFINE q == c2s[a]
      <3>1. /\ q # <<>> /\ up = Tail(q) /\ IsFrames(q)
            /\ \A f \in Range(q) : UpFrame(setup, cl[a], f)
        BY <1>1, <2>2 DEF UpFrames, TakesInOrder
      <3>2. /\ IsFrames(up) /\ Range(up) \subseteq Range(q)
            /\ \A x, y : Ahead(q, x, y) /\ Head(q).frame # x => Ahead(up, x, y)
        BY <3>1, TailFrames
      <3>3. e.pc \in BeforeOptions /\ setup.diff # "Reliable" =>
              Ahead(up, "ClientOptions", "ClientEnv") /\ Ahead(up, "ClientOptions", "Check")
        BY <1>1, <2>2, <3>2 DEF UpFrames, TakesInOrder
      <3>4. e.pc \in BeforeEnv /\ setup.env => Ahead(up, "ClientEnv", "Check")
        BY <1>1, <2>2, <3>2 DEF UpFrames, TakesInOrder
      <3> HIDE DEF q
      <3> QED BY <3>1, <3>2, <3>3, <3>4 DEF UpFrames
    <2> QED BY <2>1, <2>2
  <1>3. DownFrames(setup, a, cl[a], e, dn)
    <2>1. IsFrames(dn) /\ Range(dn) = Range(s2c[a]) \cup Range(r)
      BY <1>1, ConcatFrames DEF DownFrames
    <2>2. ASSUME NEW f \in Range(s2c[a]) PROVE DownFrame(setup, a, e, f)
      <3>1. DownFrame(setup, a, sv[a], f)
        BY <1>1 DEF DownFrames
      <3> QED BY <3>1 DEF DownFrame, GoesOn, InSession
    <2> HIDE DEF dn
    <2> QED BY <2>1, <2>2 DEF DownFrames
  <1>4. EndsMatch(cl[a], e)
    BY <1>1 DEF EndsMatch, GoesOn, InSession
  <1> HIDE DEF dn
  <1>5. s2c' = [s2c EXCEPT ![a] = dn]
    BY DEF ServerBecomes, dn
  <1> QED BY <1>2, <1>3, <1>4, <1>5, ServerActs DEF ServerBecomes, GoesOn

LEMMA ServerHasClient ==
    ASSUME IInv, NEW a \in Attempts, c2s[a] # <<>> \/ sv[a].pc # "kexinit"
    PROVE  cl[a].main # "idle"
  <1>1. NewServer.pc = "kexinit"
    BY DEF NewServer
  <1> QED BY <1>1, Entered DEF UpFrames, EndsMatch

(* The server has read a frame.                                            *)
LEMMA ServerHasRead ==
    ASSUME IInv, NEW a \in Attempts, NEW pc, NEW frame, ServerReads(a, pc, frame)
    PROVE  /\ sv[a].pc = pc /\ c2s[a] # <<>> /\ Head(c2s[a]).frame = frame
           /\ c2s' = [c2s EXCEPT ![a] = Tail(c2s[a])]
           /\ cl[a].main # "idle" /\ UpFrame(setup, cl[a], Head(c2s[a]))
           /\ \A x, y : Ahead(c2s[a], x, y) => frame # y
  <1>1. /\ sv[a].pc = pc /\ c2s[a] # <<>> /\ Head(c2s[a]).frame = frame
        /\ c2s' = [c2s EXCEPT ![a] = Tail(c2s[a])]
    BY DEF ServerReads
  <1>2. cl[a].main # "idle"
    BY <1>1, ServerHasClient
  <1>3. UpFrames(setup, cl[a], sv[a], c2s[a])
    BY Entered
  <1> QED BY <1>1, <1>2, <1>3, TailFrames DEF UpFrames

LEMMA ServerFailsKeeps ==
    ASSUME IInv, NEW a \in Attempts, NEW frames, NEW up, ServerFails(a, frames),
           frames = <<>> \/ frames = <<F("KexInit", None)>>,
           c2s' = [c2s EXCEPT ![a] = up],
           up = c2s[a] \/ (c2s[a] # <<>> /\ up = Tail(c2s[a])),
           sv[a].pc \notin {"accept", "done", "failed"}, cl[a].main # "idle",
           cl' = cl, setup' = setup, known' = known, uuid_file' = uuid_file
    PROVE  IInv'
  <1> DEFINE e == [sv[a] EXCEPT !.pc = "failed"]
             r == frames \o <<KexFailure, Closed>>
  <1>1. ServerHolds(setup, a, sv[a]) /\ DOMAIN sv[a] = ServerFields
    BY Entered DEF ServerHolds
  <1>2. /\ DOMAIN e = ServerFields /\ e.pc = "failed" /\ e.env = sv[a].env
        /\ e.proven = sv[a].proven /\ e.resume = sv[a].resume
        /\ e.requested = sv[a].requested /\ e.session = sv[a].session
    BY <1>1 DEF ServerFields
  <1>3. ServerBecomes(a, e, up, r)
    BY Entered DEF ServerFails, Send, ServerBecomes, IsArray
  <1>4. IsFrames(frames) /\ \A f \in Range(frames) : f.frame = "KexInit"
    BY OneFrame, NoFrame DEF F
  <1>5. IsFrames(r) /\ \A f \in Range(r) : f.frame \in {"KexInit", "KexFailure", "closed"}
    BY <1>4, FailureFrames, ConcatFrames DEF KexFailure, Closed, F
  <1> HIDE DEF e, r
  <1>6. \A f \in Range(r) : DownFrame(setup, a, e, f)
    BY <1>5 DEF DownFrame
  <1>7. ServerHolds(setup, a, e)
    BY <1>1, <1>2 DEF ServerHolds, Initialized, Checked, InSession, BeforeOptions, BeforeEnv,
                      ServerPcs
  <1>8. TakesInOrder(a, e, up)
    BY <1>2 DEF TakesInOrder, BeforeOptions, BeforeEnv
  <1>9. GoesOn(a, e)
    BY <1>2, Entered DEF GoesOn, Initialized
  <1> QED BY <1>3, <1>5, <1>6, <1>7, <1>8, <1>9, ServerSteps

LEMMA ServerGivesUpKeeps ==
    ASSUME IInv, NEW a \in Attempts, ServerGivesUp(a) PROVE IInv'
  <1>1. /\ sv[a].pc \notin {"accept", "done", "failed"} /\ c2s[a] # <<>>
        /\ c2s' = [c2s EXCEPT ![a] = Tail(c2s[a])] /\ ServerFails(a, <<>>)
        /\ cl' = cl /\ setup' = setup /\ known' = known /\ uuid_file' = uuid_file
    BY DEF ServerGivesUp, shared
  <1> QED BY <1>1, ServerHasClient, ServerFailsKeeps

LEMMA ServerKexInitKeeps ==
    ASSUME IInv, NEW a \in Attempts, ServerKexInit(a) PROVE IInv'
  <1> DEFINE version == ProtocolVersion(setup.accepts, setup.speaks)
             alg == Negotiate(setup.server, setup.client)
             pc == IF version >= 2 THEN "transport" ELSE "initialize"
             transport == IF version >= 2 THEN sv[a].transport ELSE "Udp"
             e == [sv[a] EXCEPT !.alg = alg, !.version = version, !.pc = pc,
                                !.transport = transport]
             up == Tail(c2s[a])
             r == <<F("KexInit", None)>>
  <1>1. /\ ServerReads(a, "kexinit", "KexInit")
        /\ cl' = cl /\ setup' = setup /\ known' = known /\ uuid_file' = uuid_file
    BY DEF ServerKexInit, shared
  <1>2. /\ sv[a].pc = "kexinit" /\ c2s[a] # <<>> /\ Head(c2s[a]).frame = "KexInit"
        /\ c2s' = [c2s EXCEPT ![a] = up] /\ cl[a].main # "idle"
    BY <1>1, ServerHasRead
  <1>3. \/ /\ Negotiable(setup.server, setup.client) /\ version # 0
           /\ sv' = [sv EXCEPT ![a] = e] /\ Send(a, r)
        \/ ServerFails(a, r)
    BY DEF ServerKexInit
  <1>4. CASE ServerFails(a, r)
    BY <1>1, <1>2, <1>4, ServerFailsKeeps
  <1>5. ASSUME Negotiable(setup.server, setup.client), version # 0,
               sv' = [sv EXCEPT ![a] = e], Send(a, r)
        PROVE  IInv'
    <2>1. version \in Nat /\ version = Version(setup)
      BY Entered, VersionsMatch DEF Version
    <2>2. ServerHolds(setup, a, sv[a]) /\ DOMAIN sv[a] = ServerFields
      BY Entered DEF ServerHolds
    <2> HIDE DEF version, alg
    <2>3. /\ DOMAIN e = ServerFields /\ e.pc = pc /\ e.alg = alg /\ e.version = version
          /\ e.transport = transport /\ e.env = sv[a].env /\ e.proven = sv[a].proven
          /\ e.resume = sv[a].resume /\ e.diff = sv[a].diff
          /\ e.requested = sv[a].requested /\ e.session = sv[a].session
      BY <2>2 DEF ServerFields
    <2> HIDE DEF e
    <2>4. ServerBecomes(a, e, up, r)
      BY <1>1, <1>2, <1>5 DEF ServerBecomes, Send
    <2>5. /\ Negotiated(setup, e) /\ e.pc \in {"transport", "initialize"}
          /\ e.pc = "transport" => Version(setup) >= 2
          /\ e.pc # "transport" => e.transport = FinalTransport(setup)
      BY <1>5, <2>1, <2>3 DEF Negotiated, alg, FinalTransport
    <2>6. ServerHolds(setup, a, e)
      BY <1>2, <2>2, <2>3, <2>5
         DEF ServerHolds, Initialized, Checked, InSession, BeforeOptions, BeforeEnv, ServerPcs
    <2>7. TakesInOrder(a, e, up)
      BY <1>2, <2>5 DEF TakesInOrder, BeforeOptions, BeforeEnv
    <2>8. GoesOn(a, e)
      BY <1>2, <2>3, <2>5, Entered DEF GoesOn, Initialized
    <2>9. IsFrames(r) /\ \A f \in Range(r) : DownFrame(setup, a, e, f)
      BY OneFrame DEF DownFrame, F
    <2> HIDE DEF r, up
    <2> QED BY <1>2, <2>4, <2>6, <2>7, <2>8, <2>9, ServerSteps
  <1> QED BY <1>3, <1>4, <1>5

LEMMA ServerTransportKeeps ==
    ASSUME IInv, NEW a \in Attempts, ServerTransport(a) PROVE IInv'
  <1> DEFINE tcp == Head(c2s[a]).val /\ setup.allow_tcp
             transport == IF tcp THEN "Tcp" ELSE "Udp"
             e == [sv[a] EXCEPT !.transport = transport, !.pc = "initialize"]
             up == Tail(c2s[a])
             r == <<F("TransportPreference", tcp)>>
  <1>1. /\ ServerReads(a, "transport", "TransportPreference")
        /\ cl' = cl /\ setup' = setup /\ known' = known /\ uuid_file' = uuid_file
        /\ sv' = [sv EXCEPT ![a] = e] /\ Send(a, r)
    BY Entered DEF ServerTransport, shared, IsArray
  <1>2. /\ sv[a].pc = "transport" /\ c2s[a] # <<>> /\ cl[a].main # "idle"
        /\ Head(c2s[a]).frame = "TransportPreference"
        /\ c2s' = [c2s EXCEPT ![a] = up] /\ UpFrame(setup, cl[a], Head(c2s[a]))
    BY <1>1, ServerHasRead
  <1>3. ServerHolds(setup, a, sv[a]) /\ DOMAIN sv[a] = ServerFields
    BY Entered DEF ServerHolds
  <1>4. tcp = (setup.tcp /\ setup.allow_tcp)
    BY <1>2 DEF UpFrame
  <1>5. transport = FinalTransport(setup)
    BY <1>2, <1>3, <1>4 DEF ServerHolds, FinalTransport
  <1>6. IsFrames(r) /\ \A f \in Range(r) : DownFrame(setup, a, e, f)
    <2>1. F("TransportPreference", tcp).frame = "TransportPreference"
          /\ F("TransportPreference", tcp).val = (setup.tcp /\ setup.allow_tcp)
      BY <1>4 DEF F
    <2> QED BY <2>1, OneFrame DEF DownFrame
  <1> HIDE DEF tcp, transport
  <1>7. /\ DOMAIN e = ServerFields /\ e.pc = "initialize" /\ e.alg = sv[a].alg
        /\ e.version = sv[a].version /\ e.transport = transport /\ e.env = sv[a].env
        /\ e.proven = sv[a].proven /\ e.resume = sv[a].resume /\ e.diff = sv[a].diff
        /\ e.requested = sv[a].requested /\ e.session = sv[a].session
    BY <1>3 DEF ServerFields
  <1> HIDE DEF e
  <1>8. ServerBecomes(a, e, up, r)
    BY <1>1, <1>2 DEF ServerBecomes, Send
  <1>9. ServerHolds(setup, a, e)
    BY <1>2, <1>3, <1>5, <1>7
       DEF ServerHolds, Negotiated, Initialized, Checked, InSession, BeforeOptions, BeforeEnv,
           ServerPcs
  <1>10. TakesInOrder(a, e, up)
    BY <1>2, <1>7 DEF TakesInOrder, BeforeOptions, BeforeEnv
  <1>11. GoesOn(a, e)
    BY <1>2, <1>7, Entered DEF GoesOn, Initialized
  <1> HIDE DEF r, up
  <1> QED BY <1>2, <1>6, <1>8, <1>9, <1>10, <1>11, ServerSteps

LEMMA ServerInitializeKeeps ==
    ASSUME IInv, NEW a \in Attempts, ServerInitialize(a) PROVE IInv'
  <1> DEFINE v == Head(c2s[a]).val
             key == SessionKeys(a, [sv[a] EXCEPT !.user = v.user])
             pc == IF setup.ml_dsa THEN "proof" ELSE "options"
             e == [sv[a] EXCEPT !.user = v.user, !.requested = v.uuid, !.key = key, !.pc = pc]
             up == Tail(c2s[a])
             r == <<PeerInitialize(a)>>
  <1>1. PICK frame \in {"Initialize", "ResumeRequest"} : ServerReads(a, "initialize", frame)
    BY DEF ServerInitialize
  <1>2. /\ sv[a].pc = "initialize" /\ c2s[a] # <<>> /\ cl[a].main # "idle"
        /\ Head(c2s[a]).frame = frame
        /\ c2s' = [c2s EXCEPT ![a] = up] /\ UpFrame(setup, cl[a], Head(c2s[a]))
    BY <1>1, ServerHasRead
  <1>3. cl' = cl /\ setup' = setup /\ known' = known /\ uuid_file' = uuid_file
    BY DEF ServerInitialize, shared
  <1>4. \/ sv' = [sv EXCEPT ![a] = e] /\ Send(a, r)
        \/ ServerFails(a, <<>>)
    BY DEF ServerInitialize
  <1>5. CASE ServerFails(a, <<>>)
    BY <1>2, <1>3, <1>5, ServerFailsKeeps
  <1>6. ASSUME sv' = [sv EXCEPT ![a] = e], Send(a, r)
        PROVE  IInv'
    <2>1. ServerHolds(setup, a, sv[a]) /\ DOMAIN sv[a] = ServerFields
      BY Entered DEF ServerHolds
    <2>2. v.user = cl[a].user /\ v.uuid = cl[a].requested
      BY <1>2 DEF UpFrame
    <2>3. key = <<a, sv[a].alg, v.user>>
      <3>1. [sv[a] EXCEPT !.user = v.user].alg = sv[a].alg
            /\ [sv[a] EXCEPT !.user = v.user].user = v.user
        BY <2>1 DEF ServerFields
      <3> QED BY <3>1 DEF SessionKeys
    <2> HIDE DEF v, key
    <2>4. /\ DOMAIN e = ServerFields /\ e.pc = pc /\ e.alg = sv[a].alg
          /\ e.version = sv[a].version /\ e.transport = sv[a].transport /\ e.env = sv[a].env
          /\ e.proven = sv[a].proven /\ e.resume = sv[a].resume /\ e.diff = sv[a].diff
          /\ e.user = v.user /\ e.requested = v.uuid /\ e.key = key
          /\ e.session = sv[a].session
      BY <2>1 DEF ServerFields
    <2> HIDE DEF e
    <2>5. ServerBecomes(a, e, up, r)
      BY <1>2, <1>3, <1>6 DEF ServerBecomes, Send
    <2>6. ServerHolds(setup, a, e)
      <3>1. /\ e.pc \in {"proof", "options"} /\ (e.pc = "proof" => setup.ml_dsa)
            /\ e.pc = "options" => (e.proven <=> setup.ml_dsa)
        BY <1>2, <2>1, <2>4 DEF ServerHolds
      <3>2. /\ Negotiated(setup, e) /\ e.transport = FinalTransport(setup)
            /\ e.key = <<a, e.alg, e.user>>
        BY <1>2, <2>1, <2>3, <2>4 DEF ServerHolds, Negotiated
      <3>3. e.diff = "Reliable" /\ ~e.env /\ (e.pc = "proof" => ~e.proven)
        BY <1>2, <2>1, <2>4 DEF ServerHolds, BeforeOptions, BeforeEnv
      <3>4. e.env \in BOOLEAN /\ e.proven \in BOOLEAN /\ e.resume \in BOOLEAN
        BY <2>1, <2>4 DEF ServerHolds
      <3> QED BY <2>4, <3>1, <3>2, <3>3, <3>4
              DEF ServerHolds, Initialized, Checked, InSession, BeforeOptions, BeforeEnv, ServerPcs
    <2>7. TakesInOrder(a, e, up)
      BY <1>2, <2>4 DEF TakesInOrder, BeforeOptions, BeforeEnv
    <2>8. GoesOn(a, e)
      BY <1>2, <2>2, <2>4, Entered DEF GoesOn
    <2>9. IsFrames(r) /\ \A f \in Range(r) : DownFrame(setup, a, e, f)
      BY OneFrame DEF DownFrame, PeerInitialize, F
    <2> HIDE DEF r, up
    <2> QED BY <1>2, <2>5, <2>6, <2>7, <2>8, <2>9, ServerSteps
  <1> QED BY <1>4, <1>5, <1>6

(* A step without a frame to the client.                                   *)
LEMMA NothingSent ==
    ASSUME IInv, NEW a \in Attempts, NEW e, NEW up,
           sv' = [sv EXCEPT ![a] = e], cl' = cl, setup' = setup, known' = known,
           uuid_file' = uuid_file, c2s' = [c2s EXCEPT ![a] = up], s2c' = s2c
    PROVE  ServerBecomes(a, e, up, <<>>)
  <1>1. s2c[a] \o <<>> = s2c[a]
    BY Entered DEF DownFrames, IsFrames
  <1>2. s2c' = [s2c EXCEPT ![a] = s2c[a]]
    BY Entered, ExceptSelf
  <1> QED BY <1>1, <1>2 DEF ServerBecomes

LEMMA ServerProofKeeps ==
    ASSUME IInv, NEW a \in Attempts, ServerProof(a) PROVE IInv'
  <1> DEFINE e == [sv[a] EXCEPT !.proven = TRUE, !.pc = "options"]
             up == Tail(c2s[a])
  <1>1. /\ ServerReads(a, "proof", "IdentityProof")
        /\ cl' = cl /\ setup' = setup /\ known' = known /\ uuid_file' = uuid_file
        /\ \/ sv' = [sv EXCEPT ![a] = e] /\ s2c' = s2c
           \/ ServerFails(a, <<>>)
    BY Entered DEF ServerProof, shared, IsArray
  <1>2. /\ sv[a].pc = "proof" /\ c2s[a] # <<>> /\ cl[a].main # "idle"
        /\ Head(c2s[a]).frame = "IdentityProof" /\ c2s' = [c2s EXCEPT ![a] = up]
    BY <1>1, ServerHasRead
  <1>3. CASE ServerFails(a, <<>>)
    BY <1>1, <1>2, <1>3, ServerFailsKeeps
  <1>4. ASSUME sv' = [sv EXCEPT ![a] = e], s2c' = s2c
        PROVE  IInv'
    <2>1. ServerHolds(setup, a, sv[a]) /\ DOMAIN sv[a] = ServerFields
      BY Entered DEF ServerHolds
    <2>2. /\ DOMAIN e = ServerFields /\ e.pc = "options" /\ e.alg = sv[a].alg
          /\ e.version = sv[a].version /\ e.transport = sv[a].transport /\ e.env = sv[a].env
          /\ e.proven = TRUE /\ e.resume = sv[a].resume /\ e.diff = sv[a].diff
          /\ e.user = sv[a].user /\ e.requested = sv[a].requested /\ e.key = sv[a].key
          /\ e.session = sv[a].session
      BY <2>1 DEF ServerFields
    <2> HIDE DEF e
    <2>3. ServerHolds(setup, a, e)
      BY <1>2, <2>1, <2>2
         DEF ServerHolds, Negotiated, Initialized, Checked, InSession, BeforeOptions, BeforeEnv,
             ServerPcs
    <2>4. TakesInOrder(a, e, up)
      BY <1>2, <2>2 DEF TakesInOrder, BeforeOptions, BeforeEnv
    <2>5. GoesOn(a, e)
      BY <1>2, <2>2, Entered DEF GoesOn, EndsMatch, Initialized
    <2>6. ServerBecomes(a, e, up, <<>>)
      BY <1>1, <1>2, <1>4, NothingSent
    <2> QED BY <1>2, <2>3, <2>4, <2>5, <2>6, NoFrame, ServerSteps
  <1> QED BY <1>1, <1>3, <1>4

LEMMA ServerOptionsKeeps ==
    ASSUME IInv, NEW a \in Attempts, ServerOptions(a) PROVE IInv'
  <1> DEFINE diff == Head(c2s[a]).val
             e == [sv[a] EXCEPT !.diff = diff, !.pc = "env"]
             up == Tail(c2s[a])
  <1>1. /\ ServerReads(a, "options", "ClientOptions") /\ s2c' = s2c
        /\ cl' = cl /\ setup' = setup /\ known' = known /\ uuid_file' = uuid_file
        /\ sv' = [sv EXCEPT ![a] = e]
    BY Entered DEF ServerOptions, shared, IsArray
  <1>2. /\ sv[a].pc = "options" /\ c2s[a] # <<>> /\ cl[a].main # "idle"
        /\ Head(c2s[a]).frame = "ClientOptions" /\ c2s' = [c2s EXCEPT ![a] = up]
        /\ UpFrame(setup, cl[a], Head(c2s[a]))
    BY <1>1, ServerHasRead
  <1>3. ServerHolds(setup, a, sv[a]) /\ DOMAIN sv[a] = ServerFields
    BY Entered DEF ServerHolds
  <1>4. diff = setup.diff
    BY <1>2 DEF UpFrame
  <1> HIDE DEF diff
  <1>5. /\ DOMAIN e = ServerFields /\ e.pc = "env" /\ e.alg = sv[a].alg
        /\ e.version = sv[a].version /\ e.transport = sv[a].transport /\ e.env = sv[a].env
        /\ e.proven = sv[a].proven /\ e.resume = sv[a].resume /\ e.diff = diff
        /\ e.user = sv[a].user /\ e.requested = sv[a].requested /\ e.key = sv[a].key
        /\ e.session = sv[a].session
    BY <1>3 DEF ServerFields
  <1>6. ServerBecomes(a, e, up, <<>>)
    BY <1>1, <1>2, NothingSent
  <1> HIDE DEF e
  <1>7. ServerHolds(setup, a, e)
    BY <1>2, <1>3, <1>4, <1>5
       DEF ServerHolds, Negotiated, Initialized, Checked, InSession, BeforeOptions, BeforeEnv,
           ServerPcs
  <1>8. TakesInOrder(a, e, up)
    BY <1>2, <1>5 DEF TakesInOrder, BeforeOptions, BeforeEnv
  <1>9. GoesOn(a, e)
    BY <1>2, <1>5, Entered DEF GoesOn, EndsMatch, Initialized
  <1> QED BY <1>2, <1>6, <1>7, <1>8, <1>9, NoFrame, ServerSteps

(* The environment comes first only if there are no options.               *)
LEMMA ServerEnvKeeps ==
    ASSUME IInv, NEW a \in Attempts, ServerEnv(a) PROVE IInv'
  <1> DEFINE e == [sv[a] EXCEPT !.env = TRUE, !.pc = "check"]
             up == Tail(c2s[a])
  <1>1. PICK pc \in {"options", "env"} : ServerReads(a, pc, "ClientEnv")
    BY DEF ServerEnv
  <1>2. /\ s2c' = s2c /\ sv' = [sv EXCEPT ![a] = e]
        /\ cl' = cl /\ setup' = setup /\ known' = known /\ uuid_file' = uuid_file
    BY Entered DEF ServerEnv, shared, IsArray
  <1>3. /\ sv[a].pc = pc /\ c2s[a] # <<>> /\ cl[a].main # "idle"
        /\ Head(c2s[a]).frame = "ClientEnv" /\ c2s' = [c2s EXCEPT ![a] = up]
        /\ UpFrame(setup, cl[a], Head(c2s[a]))
        /\ \A x, y : Ahead(c2s[a], x, y) => y # "ClientEnv"
    BY <1>1, ServerHasRead
  <1>4. ServerHolds(setup, a, sv[a]) /\ DOMAIN sv[a] = ServerFields
    BY Entered DEF ServerHolds
  <1>5. setup.env
    BY <1>3 DEF UpFrame
  <1>6. sv[a].diff = setup.diff
    <2>1. CASE pc = "env"
      BY <2>1, <1>3, <1>4 DEF ServerHolds, Initialized
    <2>2. CASE pc = "options"
      BY <2>2, <1>3, <1>4, Entered DEF ServerHolds, UpFrames, BeforeOptions
    <2> QED BY <2>1, <2>2
  <1>7. /\ DOMAIN e = ServerFields /\ e.pc = "check" /\ e.alg = sv[a].alg
        /\ e.version = sv[a].version /\ e.transport = sv[a].transport /\ e.env = TRUE
        /\ e.proven = sv[a].proven /\ e.resume = sv[a].resume /\ e.diff = sv[a].diff
        /\ e.user = sv[a].user /\ e.requested = sv[a].requested /\ e.key = sv[a].key
        /\ e.session = sv[a].session
    BY <1>4 DEF ServerFields
  <1>8. ServerBecomes(a, e, up, <<>>)
    BY <1>2, <1>3, NothingSent
  <1> HIDE DEF e
  <1>9. ServerHolds(setup, a, e)
    BY <1>3, <1>4, <1>5, <1>6, <1>7
       DEF ServerHolds, Negotiated, Initialized, Checked, InSession, BeforeOptions, BeforeEnv,
           ServerPcs
  <1>10. TakesInOrder(a, e, up)
    BY <1>3, <1>7 DEF TakesInOrder, BeforeOptions, BeforeEnv
  <1>11. GoesOn(a, e)
    BY <1>3, <1>7, Entered DEF GoesOn, EndsMatch, Initialized
  <1> QED BY <1>3, <1>8, <1>9, <1>10, <1>11, NoFrame, ServerSteps

(* At the check nothing the client wanted to say is left unsaid.           *)
LEMMA ServerCheckKeeps ==
    ASSUME IInv, NEW a \in Attempts, ServerCheck(a) PROVE IInv'
  <1> DEFINE e == [sv[a] EXCEPT !.uuid = a, !.pc = "session"]
             up == Tail(c2s[a])
             r == <<F("KeyAgreement", a)>>
  <1>1. PICK pc \in {"options", "env", "check"} : ServerReads(a, pc, "Check")
    BY DEF ServerCheck
  <1>2. /\ cl' = cl /\ setup' = setup /\ known' = known /\ uuid_file' = uuid_file
        /\ \/ sv' = [sv EXCEPT ![a] = e] /\ Send(a, r)
           \/ ServerFails(a, <<>>)
    BY Entered DEF ServerCheck, shared, IsArray
  <1>3. /\ sv[a].pc = pc /\ c2s[a] # <<>> /\ cl[a].main # "idle"
        /\ Head(c2s[a]).frame = "Check" /\ c2s' = [c2s EXCEPT ![a] = up]
        /\ \A x, y : Ahead(c2s[a], x, y) => y # "Check"
    BY <1>1, ServerHasRead
  <1>4. CASE ServerFails(a, <<>>)
    BY <1>2, <1>3, <1>4, ServerFailsKeeps
  <1>5. ASSUME sv' = [sv EXCEPT ![a] = e], Send(a, r)
        PROVE  IInv'
    <2>1. ServerHolds(setup, a, sv[a]) /\ DOMAIN sv[a] = ServerFields
      BY Entered DEF ServerHolds
    <2>2. sv[a].diff = setup.diff
      <3>1. CASE pc # "options"
        BY <3>1, <1>3, <2>1 DEF ServerHolds, Initialized
      <3>2. CASE pc = "options"
        BY <3>2, <1>3, <2>1, Entered DEF ServerHolds, UpFrames, BeforeOptions
      <3> QED BY <3>1, <3>2
    <2>3. sv[a].env <=> setup.env
      <3>1. CASE pc = "check"
        BY <3>1, <1>3, <2>1 DEF ServerHolds
      <3>2. CASE pc # "check"
        BY <3>2, <1>3, <2>1, Entered DEF ServerHolds, UpFrames, BeforeEnv, BeforeOptions
      <3> QED BY <3>1, <3>2
    <2>4. /\ DOMAIN e = ServerFields /\ e.pc = "session" /\ e.alg = sv[a].alg
          /\ e.version = sv[a].version /\ e.transport = sv[a].transport /\ e.env = sv[a].env
          /\ e.proven = sv[a].proven /\ e.resume = sv[a].resume /\ e.diff = sv[a].diff
          /\ e.user = sv[a].user /\ e.requested = sv[a].requested /\ e.key = sv[a].key
          /\ e.session = sv[a].session /\ e.uuid = a
      BY <2>1 DEF ServerFields
    <2> HIDE DEF e
    <2>5. ServerBecomes(a, e, up, r)
      BY <1>2, <1>3, <1>5 DEF ServerBecomes, Send
    <2>6. ServerHolds(setup, a, e)
      BY <1>3, <2>1, <2>2, <2>3, <2>4
         DEF ServerHolds, Negotiated, Initialized, Checked, InSession, BeforeOptions, BeforeEnv,
             ServerPcs
    <2>7. TakesInOrder(a, e, up)
      BY <1>3, <2>4 DEF TakesInOrder, BeforeOptions, BeforeEnv
    <2>8. GoesOn(a, e)
      BY <1>3, <2>4, Entered DEF GoesOn, EndsMatch, Initialized
    <2>9. IsFrames(r) /\ \A f \in Range(r) : DownFrame(setup, a, e, f)
      BY OneFrame DEF DownFrame, F
    <2> HIDE DEF r, up
    <2> QED BY <1>3, <2>5, <2>6, <2>7, <2>8, <2>9, ServerSteps
  <1> QED BY <1>2, <1>4, <1>5

LEMMA ServerSessionKeeps ==
    ASSUME IInv, NEW a \in Attempts, ServerSession(a) PROVE IInv'
  <1> DEFINE resume == MayResume(a)
             session == IF resume THEN sv[a].requested ELSE a
             e == [sv[a] EXCEPT !.session = session, !.resume = resume, !.pc = "setup"]
             r == <<F("SessionToken", session)>>
  <1>1. /\ sv[a].pc = "session" /\ c2s' = c2s
        /\ cl' = cl /\ setup' = setup /\ known' = known /\ uuid_file' = uuid_file
        /\ sv' = [sv EXCEPT ![a] = e] /\ Send(a, r)
    BY Entered DEF ServerSession, IsArray
  <1>2. ServerHolds(setup, a, sv[a]) /\ DOMAIN sv[a] = ServerFields
    BY Entered DEF ServerHolds
  <1>3. cl[a].main # "idle" /\ a \in Begun
    BY <1>1, ServerHasClient, Entered
  <1>4. resume \in BOOLEAN
    BY DEF MayResume
  <1> HIDE DEF resume
  <1>5. /\ DOMAIN e = ServerFields /\ e.pc = "setup" /\ e.alg = sv[a].alg
        /\ e.version = sv[a].version /\ e.transport = sv[a].transport /\ e.env = sv[a].env
        /\ e.proven = sv[a].proven /\ e.resume = resume /\ e.diff = sv[a].diff
        /\ e.user = sv[a].user /\ e.requested = sv[a].requested /\ e.key = sv[a].key
        /\ e.session = session /\ e.uuid = sv[a].uuid
    BY <1>2 DEF ServerFields
  <1>6. c2s' = [c2s EXCEPT ![a] = c2s[a]]
    BY <1>1, Entered, ExceptSelf
  <1> HIDE DEF e
  <1>7. ServerBecomes(a, e, c2s[a], r)
    BY <1>1, <1>6 DEF ServerBecomes, Send
  <1>8. ServerHolds(setup, a, e)
    BY <1>1, <1>2, <1>4, <1>5
       DEF ServerHolds, Negotiated, Initialized, Checked, InSession, BeforeOptions, BeforeEnv,
           ServerPcs
  <1>9. TakesInOrder(a, e, c2s[a])
    BY <1>5 DEF TakesInOrder, BeforeOptions, BeforeEnv
  <1>10. GoesOn(a, e)
    BY <1>1, <1>3, <1>5, Entered DEF GoesOn, EndsMatch, Initialized
  <1>11. IsFrames(r) /\ \A f \in Range(r) : DownFrame(setup, a, e, f)
    BY <1>5, OneFrame DEF DownFrame, F, InSession
  <1> HIDE DEF r
  <1> QED BY <1>3, <1>7, <1>8, <1>9, <1>10, <1>11, ServerSteps

LEMMA ServerSetupKeeps ==
    ASSUME IInv, NEW a \in Attempts, ServerSetup(a) PROVE IInv'
  <1>1. /\ sv[a].pc = "setup" /\ c2s' = c2s
        /\ cl' = cl /\ setup' = setup /\ known' = known /\ uuid_file' = uuid_file
    BY DEF ServerSetup
  <1>2. cl[a].main # "idle" /\ c2s' = [c2s EXCEPT ![a] = c2s[a]]
    BY <1>1, ServerHasClient, Entered, ExceptSelf
  <1>3. CASE ServerFails(a, <<>>)
    BY <1>1, <1>2, <1>3, ServerFailsKeeps
  <1>4. ASSUME NEW port,
               sv' = [sv EXCEPT ![a].port = port,
                                ![a].pc = IF sv[a].transport = "Tcp" THEN "accept" ELSE "done"],
               Send(a, <<F("MoshpitsAddr", port)>>)
        PROVE  IInv'
    <2> DEFINE pc == IF sv[a].transport = "Tcp" THEN "accept" ELSE "done"
               e == [sv[a] EXCEPT !.port = port, !.pc = pc]
               r == <<F("MoshpitsAddr", port)>>
    <2>1. ServerHolds(setup, a, sv[a]) /\ DOMAIN sv[a] = ServerFields
      BY Entered DEF ServerHolds
    <2>2. sv' = [sv EXCEPT ![a] = e]
      BY <1>4, Entered DEF IsArray
    <2>3. /\ DOMAIN e = ServerFields /\ e.pc = pc /\ e.alg = sv[a].alg
          /\ e.version = sv[a].version /\ e.transport = sv[a].transport /\ e.env = sv[a].env
          /\ e.proven = sv[a].proven /\ e.resume = sv[a].resume /\ e.diff = sv[a].diff
          /\ e.user = sv[a].user /\ e.requested = sv[a].requested /\ e.key = sv[a].key
          /\ e.session = sv[a].session /\ e.uuid = sv[a].uuid /\ e.port = port
      BY <2>1 DEF ServerFields
    <2> HIDE DEF e
    <2>4. e.pc \in {"accept", "done"} /\ (e.pc = "accept" => e.transport = "Tcp")
      BY <2>3
    <2>5. ServerBecomes(a, e, c2s[a], r)
      BY <1>1, <1>2, <1>4, <2>2 DEF ServerBecomes, Send
    <2>6. ServerHolds(setup, a, e)
      BY <1>1, <2>1, <2>3, <2>4
         DEF ServerHolds, Negotiated, Initialized, Checked, InSession, BeforeOptions, BeforeEnv,
             ServerPcs
    <2>7. TakesInOrder(a, e, c2s[a])
      BY <2>4 DEF TakesInOrder, BeforeOptions, BeforeEnv
    <2>8. GoesOn(a, e)
      BY <1>1, <2>3, <2>4, Entered DEF GoesOn, EndsMatch, Initialized, InSession
    <2>9. IsFrames(r) /\ \A f \in Range(r) : DownFrame(setup, a, e, f)
      BY <2>3, <2>4, OneFrame DEF DownFrame, F
    <2> HIDE DEF r
    <2> QED BY <1>2, <2>5, <2>6, <2>7, <2>8, <2>9, ServerSteps
  <1> QED BY <1>3, <1>4 DEF ServerSetup

-----------------------------------------------------------------------------
(* The invariant *)

THEOREM Initially == Init => IInv
  <1> SUFFICES ASSUME Init PROVE IInv
    OBVIOUS
  <1> USE DEF Init
  <1>1. Shapes
    BY KexAssumption DEF Shapes, IsArray
  <1>2. /\ NewClient.main = "idle" /\ NewClient.pc = "idle" /\ NewClient.accepted = 0
        /\ NewClient.verdict = "none" /\ NewClient.cause = "none"
        /\ NewClient.requested = None /\ NewClient.session = None
        /\ NewClient.resume = FALSE /\ NewClient.approved = FALSE
        /\ DOMAIN NewClient = ClientFields
    BY DEF NewClient, ClientFields
  <1>3. /\ NewServer.pc = "kexinit" /\ NewServer.env = FALSE /\ NewServer.proven = FALSE
        /\ NewServer.resume = FALSE /\ NewServer.diff = "Reliable"
        /\ NewServer.requested = None /\ NewServer.session = None
        /\ DOMAIN NewServer = ServerFields
    BY DEF NewServer, ServerFields
  <1>4. IdsBegun
    <2>1. \A a \in Attempts : a # None
      BY DEF Attempts, None
    <2> QED BY <1>2, <1>3, <2>1 DEF IdsBegun
  <1>5. Approval
    BY <1>2 DEF Approval
  <1>6. ASSUME NEW a \in Attempts
        PROVE  Exchange(setup, a, NewClient, NewServer, <<>>, <<>>)
    <2>1. Counts(NewClient)
      BY <1>2 DEF Counts, Taken, ReaderPcs
    <2>2. ClientHolds(setup, a, NewClient)
      BY <1>2 DEF ClientHolds
    <2>3. ServerHolds(setup, a, NewServer)
      BY <1>3 DEF ServerHolds, Initialized, Checked, InSession, ServerPcs
    <2>4. EndsMatch(NewClient, NewServer)
      BY <1>2, <1>3 DEF EndsMatch, Initialized
    <2>5. UpFrames(setup, NewClient, NewServer, <<>>)
      BY NoFrame DEF UpFrames
    <2>6. DownFrames(setup, a, NewClient, NewServer, <<>>)
      BY NoFrame DEF DownFrames
    <2> QED BY <2>1, <2>2, <2>3, <2>4, <2>5, <2>6 DEF Exchange
  <1>7. \A a \in Attempts : Exchange(setup, a, cl[a], sv[a], c2s[a], s2c[a])
    BY <1>6
  <1> QED BY <1>1, <1>4, <1>5, <1>7 DEF IInv

(* What the invariant is about is left alone.                              *)
LEMMA NothingChanges ==
    ASSUME IInv, setup' = setup, cl' = cl, sv' = sv, c2s' = c2s, s2c' = s2c,
           known' = known, uuid_file' = uuid_file
    PROVE  IInv'
  <1>1. Shapes'
    BY DEF IInv, Shapes, IsArray
  <1>2. Begun' = Begun
    BY DEF Begun
  <1>3. IdsBegun'
    BY <1>2 DEF IInv, IdsBegun
  <1>4. Approval'
    BY DEF IInv, Approval
  <1>5. \A a \in Attempts : Exchange(setup', a, cl'[a], sv'[a], c2s'[a], s2c'[a])
    BY DEF IInv
  <1> QED BY <1>1, <1>3, <1>4, <1>5 DEF IInv

THEOREM Inductive == IInv /\ [Next]_vars => IInv'
  <1> SUFFICES ASSUME IInv, [Next]_vars PROVE IInv'
    OBVIOUS
  <1>1. CASE UNCHANGED vars
    BY <1>1, NothingChanges DEF vars
  <1>2. CASE SessionEnds
    BY <1>2, NothingChanges DEF SessionEnds
  <1>3. ASSUME NEW a \in Attempts,
               \/ StartAttempt(a) \/ MainEnds(a) \/ DataPortBlocked(a) \/ KexTimeout(a)
               \/ ConnectionBreaks(a)
        PROVE  IInv'
    BY <1>3, StartAttemptKeeps, MainEndsKeeps, KexTimeoutKeeps, ConnectionKeeps
  <1>4. ASSUME NEW a \in Attempts, ClientStep(a)
        PROVE  IInv'
    <2>1. CASE ReadKexInit(a)
      BY <2>1, ReadKexInitKeeps
    <2>2. CASE ReadTransportPreference(a)
      BY <2>2, ReadTransportPreferenceKeeps
    <2>3. CASE ReadPeerInitialize(a)
      BY <2>3, ReadPeerInitializeKeeps
    <2>4. CASE AskAboutHost(a)
      BY <2>4, AskAboutHostKeeps
    <2>5. CASE ReadKeyAgreement(a)
      BY <2>5, ReadKeyAgreementKeeps
    <2>6. CASE ReadSessionToken(a)
      BY <2>6, ReadSessionTokenKeeps
    <2>7. CASE ReadMoshpitsAddr(a)
      BY <2>7, ReadMoshpitsAddrKeeps
    <2>8. CASE ServerRefuses(a)
      BY <2>8, ServerRefusesKeeps
    <2>9. CASE ClientCloses(a)
      BY <2>9, ConnectionKeeps
    <2>10. ASSUME NEW pc \in {"kexinit", "transport", "peerinit", "agreement", "token", "addr"},
                  ReadFails(a, pc)
           PROVE  IInv'
      BY <2>10, ReadFailsKeeps
    <2> QED BY <1>4, <2>1, <2>2, <2>3, <2>4, <2>5, <2>6, <2>7, <2>8, <2>9, <2>10
            DEF ClientStep
  <1>5. ASSUME NEW a \in Attempts, Answer(a)
        PROVE  IInv'
    BY <1>5, AcceptHostKeeps, RejectHostKeeps DEF Answer
  <1>6. ASSUME NEW a \in Attempts, ServerStep(a)
        PROVE  IInv'
    BY <1>6, ServerKexInitKeeps, ServerTransportKeeps, ServerInitializeKeeps, ServerProofKeeps,
       ServerOptionsKeeps, ServerEnvKeeps, ServerCheckKeeps, ServerSessionKeeps,
       ServerSetupKeeps, ServerGivesUpKeeps
       DEF ServerStep
  <1> QED BY <1>1, <1>2, <1>3, <1>4, <1>5, <1>6 DEF Next

THEOREM Invariant == Spec => []IInv
  BY Initially, Inductive, PTL DEF Spec

-----------------------------------------------------------------------------
(* The theorems *)

(* A set of numbers has a least one.                                       *)
LEMMA LeastElement ==
    ASSUME NEW S \in SUBSET Nat, S # {}
    PROVE  \E x \in S : \A y \in S : x <= y
  <1> DEFINE Less == {p \in Nat \X Nat : p[1] < p[2]}
  <1>1. IsWellFoundedOn(Less, Nat)
    <2>1. Less = OpToRel(<, Nat)
      BY DEF OpToRel
    <2> QED BY <2>1, NatLessThanWellFounded
  <1>2. PICK x \in S : \A y \in S : ~ (<<y, x>> \in Less)
    BY <1>1, WFMin
  <1>3. ASSUME NEW y \in S PROVE x <= y
    <2>1. ~(y < x)
      BY <1>2
    <2> QED BY <2>1
  <1> QED BY <1>3

(* What is negotiated is the first of the first list the second one has.   *)
LEMMA NegotiateIsFirst ==
    ASSUME NEW first \in Seq(STRING), NEW second \in Seq(STRING), Negotiable(first, second)
    PROVE  \E j \in DOMAIN first :
              /\ first[j] = Negotiate(first, second)
              /\ Negotiate(first, second) \in Range(second)
              /\ \A i \in 1..(j - 1) : first[i] \notin Range(second)
  <1> DEFINE C == Common(first, second)
             j == CHOOSE i \in C : \A k \in C : i <= k
  <1>1. C \in SUBSET Nat /\ C # {} /\ DOMAIN first = 1..Len(first) /\ Len(first) \in Nat
    BY DEF Common, Negotiable
  <1>2. j \in C /\ \A k \in C : j <= k
    BY <1>1, LeastElement
  <1>3. Negotiate(first, second) = first[j]
    BY DEF Negotiate
  <1> HIDE DEF j
  <1>4. j \in DOMAIN first /\ first[j] \in Range(second)
    BY <1>2 DEF Common
  <1>5. \A i \in 1..(j - 1) : i \in DOMAIN first /\ i \notin C
    BY <1>1, <1>2, <1>4
  <1>6. \A i \in 1..(j - 1) : first[i] \notin Range(second)
    BY <1>5 DEF Common
  <1> QED BY <1>3, <1>4, <1>6

(* A client with a session has the server with it: the same algorithm,     *)
(* version, transport, keys, session and options.                          *)
THEOREM EndsAgreeHolds == Spec => []EndsAgree
  <1>1. ASSUME IInv PROVE EndsAgree
    <2> SUFFICES ASSUME NEW a \in Attempts, cl[a].main = "ok"
                 PROVE  /\ sv[a].pc = "done"
                        /\ \A x \in {"alg", "version", "transport", "key", "uuid", "session",
                                     "resume", "user", "port"} : cl[a][x] = sv[a][x]
                        /\ sv[a].diff = setup.diff /\ sv[a].env = setup.env
                        /\ sv[a].proven = setup.ml_dsa
      BY DEF EndsAgree
    <2>1. cl[a].pc = "done" /\ sv[a].pc = "done"
      BY <1>1, Entered DEF Counts, EndsMatch
    <2>2. cl[a].port = sv[a].port /\ cl[a].session = sv[a].session
          /\ cl[a].user = sv[a].user /\ cl[a].requested = sv[a].requested
      BY <1>1, <2>1, Entered DEF EndsMatch, Initialized
    <2>3. /\ Negotiated(setup, cl[a]) /\ cl[a].transport = FinalTransport(setup)
          /\ cl[a].key = <<a, cl[a].alg, cl[a].user>> /\ cl[a].uuid = a
          /\ cl[a].resume \in BOOLEAN /\ (cl[a].resume <=> cl[a].requested = cl[a].session)
      BY <1>1, <2>1, Entered DEF ClientHolds
    <2>4. /\ Negotiated(setup, sv[a]) /\ sv[a].transport = FinalTransport(setup)
          /\ sv[a].key = <<a, sv[a].alg, sv[a].user>> /\ sv[a].uuid = a
          /\ sv[a].resume \in BOOLEAN
          /\ sv[a].session = IF sv[a].resume THEN sv[a].requested ELSE a
          /\ sv[a].diff = setup.diff
      BY <1>1, <2>1, Entered DEF ServerHolds, Initialized, Checked, InSession
    <2>5. sv[a].env = setup.env
      <3>1. (sv[a].env <=> setup.env) /\ sv[a].env \in BOOLEAN /\ setup.env \in BOOLEAN
        BY <1>1, <2>1, Entered, SetupFields DEF ServerHolds, Checked
      <3> QED BY <3>1
    <2>6. sv[a].proven = setup.ml_dsa
      <3>1. (sv[a].proven <=> setup.ml_dsa) /\ sv[a].proven \in BOOLEAN
            /\ setup.ml_dsa \in BOOLEAN
        BY <1>1, <2>1, Entered, SetupFields DEF ServerHolds, Initialized
      <3> QED BY <3>1
    <2>7. cl[a].resume = sv[a].resume
      <3>1. cl[a].requested # a
        BY <1>1 DEF IInv, IdsBegun
      <3>2. cl[a].resume <=> sv[a].resume
        BY <2>2, <2>3, <2>4, <3>1
      <3> QED BY <2>3, <2>4, <3>2
    <2>8. cl[a].alg = sv[a].alg /\ cl[a].version = sv[a].version
          /\ cl[a].transport = sv[a].transport /\ cl[a].key = sv[a].key
          /\ cl[a].uuid = sv[a].uuid
      BY <2>2, <2>3, <2>4 DEF Negotiated
    <2> QED BY <2>1, <2>2, <2>4, <2>5, <2>6, <2>7, <2>8
  <1> QED BY <1>1, Invariant, PTL

(* TCP if both want and can, and the server's first choice in common.      *)
THEOREM BestInCommonHolds == Spec => []BestInCommon
  <1>1. ASSUME IInv PROVE BestInCommon
    <2> SUFFICES ASSUME NEW a \in Attempts, cl[a].main = "ok"
                 PROVE  /\ cl[a].transport = "Tcp" <=>
                              /\ setup.tcp /\ setup.allow_tcp
                              /\ setup.speaks.max >= 2 /\ setup.accepts.max >= 2
                        /\ \E j \in DOMAIN setup.server :
                              /\ setup.server[j] = sv[a].alg
                              /\ sv[a].alg \in Range(setup.client)
                              /\ \A i \in 1..(j - 1) :
                                    setup.server[i] \notin Range(setup.client)
      BY DEF BestInCommon
    <2>1. cl[a].pc = "done" /\ sv[a].pc = "done"
      BY <1>1, Entered DEF Counts, EndsMatch
    <2>2. Version(setup) # 0 /\ cl[a].transport = FinalTransport(setup)
      BY <1>1, <2>1, Entered DEF ClientHolds, Negotiated
    <2>3. Version(setup) >= 2 <=> setup.speaks.max >= 2 /\ setup.accepts.max >= 2
      <3>1. /\ setup.accepts.min \in Nat /\ setup.accepts.max \in Nat
            /\ setup.speaks.min \in Nat /\ setup.speaks.max \in Nat
        BY <1>1, Entered DEF SetupType, Ranges
      <3> QED BY <2>2, <3>1 DEF Version, ProtocolVersion, Lower
    <2>4. cl[a].transport = "Tcp" <=> /\ setup.tcp /\ setup.allow_tcp
                                      /\ setup.speaks.max >= 2 /\ setup.accepts.max >= 2
      BY <2>2, <2>3 DEF FinalTransport
    <2>5. /\ sv[a].alg = Negotiate(setup.server, setup.client)
          /\ Negotiable(setup.server, setup.client)
      BY <1>1, <2>1, Entered DEF ServerHolds, Negotiated
    <2>6. setup.server \in Seq(STRING) /\ setup.client \in Seq(STRING)
      BY <1>1, Entered, SetupFields
    <2> QED BY <2>4, <2>5, <2>6, NegotiateIsFirst
  <1> QED BY <1>1, Invariant, PTL

(* The state machine is fed in order by a reader that has not failed.      *)
THEOREM ReaderKeepsOrderHolds == Spec => []ReaderKeepsOrder
  <1>1. ASSUME IInv PROVE ReaderKeepsOrder
    <2> SUFFICES ASSUME NEW a \in Attempts, cl[a].verdict = "InvalidKexState"
                 PROVE  cl[a].cause # "none"
      BY DEF ReaderKeepsOrder
    <2> QED BY <1>1, Entered DEF Counts
  <1> QED BY <1>1, Invariant, PTL

(* The state machine does not move the reader.                             *)
LEMMA EmitKeepsPc ==
    ASSUME NEW c, DOMAIN c = ClientFields, NEW events,
           events = <<>> \/ (\E x : events = <<x>>) \/ (\E x, y : events = <<x, y>>)
    PROVE  Emit(c, events).pc = c.pc
  <1>1. ASSUME NEW d, DOMAIN d = ClientFields, NEW event
        PROVE  HandleEvent(d, event).pc = d.pc /\ DOMAIN HandleEvent(d, event) = ClientFields
    <2>1. CASE d.verdict # "none"
      BY <1>1, <2>1 DEF HandleEvent
    <2>2. CASE d.verdict = "none" /\ event = Events[d.accepted + 1]
      BY <1>1, <2>2 DEF HandleEvent, ClientFields
    <2>3. CASE d.verdict = "none" /\ event # Events[d.accepted + 1]
      BY <1>1, <2>3 DEF HandleEvent, ClientFields
    <2> QED BY <2>1, <2>2, <2>3
  <1> QED BY <1>1, EmitNothing, EmitOne, EmitTwo

LEMMA AsksNothing ==
    ASSUME IInv, NEW a \in Attempts, NEW b \in Attempts, NEW d,
           cl[a].pc # "asking", cl' = [cl EXCEPT ![b] = d],
           d.pc # "asking" \/ d.pc = cl[b].pc
    PROVE  cl'[a].pc # "asking"
  BY DEF IInv, Shapes, IsArray

LEMMA FailingAsksNothing ==
    ASSUME NEW c, DOMAIN c = ClientFields, NEW cause, NEW events, LastWord(events)
    PROVE  Fails(c, cause, events).pc # "asking"
  <1> DEFINE d == [c EXCEPT !.pc = "failed", !.cause = cause]
  <1>1. DOMAIN d = ClientFields /\ d.pc = "failed"
    BY DEF ClientFields
  <1> HIDE DEF d
  <1>2. Emit(d, events).pc = d.pc
    BY <1>1, EmitKeepsPc DEF LastWord
  <1> QED BY <1>1, <1>2 DEF Fails, d

(* The question is put by AskAboutHost alone.                              *)
LEMMA OnlyAskAboutHostAsks ==
    ASSUME IInv, [Next]_vars, NEW a \in Attempts,
           cl[a].pc # "asking", cl'[a].pc = "asking"
    PROVE  \E b \in Attempts : AskAboutHost(b)
  <1> SUFFICES ASSUME \A b \in Attempts : ~AskAboutHost(b) PROVE FALSE
    OBVIOUS
  <1>1. \A b \in Attempts : DOMAIN cl[b] = ClientFields
    BY Entered DEF Counts
  <1>2. LastWord(<<>>) /\ LastWord(<<"Failure">>) /\ LastWord(<<"NoCommonAlgorithm">>)
    BY DEF LastWord
  <1>3. cl' # cl
    OBVIOUS
  <1>4. ASSUME NEW b \in Attempts, NEW c, NEW cause, NEW events, LastWord(events),
               DOMAIN c = ClientFields, cl' = [cl EXCEPT ![b] = Fails(c, cause, events)]
        PROVE  FALSE
    BY <1>4, FailingAsksNothing, AsksNothing
  <1>5. ASSUME NEW b \in Attempts, NEW c, NEW events, DOMAIN c = ClientFields,
               events = <<>> \/ (\E x : events = <<x>>) \/ (\E x, y : events = <<x, y>>),
               cl' = [cl EXCEPT ![b] = Emit(c, events)], c.pc # "asking"
        PROVE  FALSE
    BY <1>5, EmitKeepsPc, AsksNothing
  <1>6. PICK b \in Attempts : \/ StartAttempt(b) \/ MainEnds(b) \/ DataPortBlocked(b)
                              \/ KexTimeout(b) \/ ClientStep(b) \/ Answer(b)
    BY <1>3 DEF Next, vars, SessionEnds, ServerStep, ConnectionBreaks, ServerKexInit,
                ServerTransport, ServerInitialize, ServerProof, ServerOptions, ServerEnv,
                ServerCheck, ServerSession, ServerSetup, ServerGivesUp, shared
  <1>7. CASE StartAttempt(b)
    <2>1. PICK user, id :
            \/ cl' = [cl EXCEPT ![b] = [@ EXCEPT !.pc = "kexinit", !.main = "waiting",
                                !.user = user, !.requested = uuid_file, !.identity = id]]
            \/ cl' = [cl EXCEPT ![b].main = id]
      BY <1>7 DEF StartAttempt
    <2>2. ASSUME cl' = [cl EXCEPT ![b] = [@ EXCEPT !.pc = "kexinit", !.main = "waiting",
                                !.user = user, !.requested = uuid_file, !.identity = id]]
          PROVE  FALSE
      <3> DEFINE d == [cl[b] EXCEPT !.pc = "kexinit", !.main = "waiting",
                                !.user = user, !.requested = uuid_file, !.identity = id]
      <3>1. d.pc = "kexinit" /\ cl' = [cl EXCEPT ![b] = d]
        BY <1>1, <2>2 DEF ClientFields
      <3> HIDE DEF d
      <3> QED BY <3>1, AsksNothing
    <2>3. ASSUME cl' = [cl EXCEPT ![b].main = id] PROVE FALSE
      BY <1>1, <2>3, Entered DEF IsArray, ClientFields
    <2> QED BY <2>1, <2>2, <2>3
  <1>8. CASE MainEnds(b) \/ DataPortBlocked(b) \/ KexTimeout(b)
    <2>1. PICK main : cl' = [cl EXCEPT ![b].main = main]
      BY <1>8 DEF MainEnds, DataPortBlocked, KexTimeout
    <2> QED BY <1>1, <2>1, Entered DEF IsArray, ClientFields
  <1>9. ASSUME NEW key, NEW approved, Proceed(b, key, approved) PROVE FALSE
    <2> DEFINE c == [cl[b] EXCEPT !.key = key, !.pc = "agreement", !.approved = approved]
               two == <<"KeyMaterial", "HMACKeyMaterial">>
               c1 == [cl[b] EXCEPT !.approved = approved]
    <2>1. \/ cl' = [cl EXCEPT ![b] = Emit(c, two)]
          \/ cl' = [cl EXCEPT ![b] = Fails(c1, "agent", <<>>)]
      BY <1>9 DEF Proceed
    <2>2. /\ DOMAIN c = ClientFields /\ c.pc = "agreement" /\ DOMAIN c1 = ClientFields
          /\ \E x, y : two = <<x, y>>
      BY <1>1 DEF ClientFields
    <2> HIDE DEF c, c1, two
    <2> QED BY <2>1, <2>2, <1>2, <1>4, <1>5
  <1>10. CASE Answer(b)
    <2>1. CASE AcceptHost(b)
      BY <2>1, <1>9 DEF AcceptHost
    <2>2. CASE RejectHost(b)
      BY <2>2, <1>1, <1>2, <1>4 DEF RejectHost, Failure
    <2> QED BY <1>10, <2>1, <2>2 DEF Answer
  <1>11. CASE ClientStep(b)
    <2>1. CASE ReadKexInit(b)
      <3> DEFINE version == ProtocolVersion(setup.speaks, setup.accepts)
                 c == [cl[b] EXCEPT !.alg = Negotiate(setup.server, setup.client),
                                    !.version = version,
                                    !.pc = IF version >= 2 THEN "transport" ELSE "peerinit",
                                    !.transport = IF version >= 2 THEN cl[b].transport
                                                                  ELSE "Udp"]
      <3>1. \/ \E cause, event : Failure(b, cause, event) /\ LastWord(<<event>>)
            \/ cl' = [cl EXCEPT ![b] = Emit(c, Agreed(version))]
        BY <2>1, <1>2 DEF ReadKexInit
      <3>2. CASE \E cause, event : Failure(b, cause, event) /\ LastWord(<<event>>)
        BY <3>2, <1>1, <1>4 DEF Failure
      <3>3. DOMAIN c = ClientFields /\ c.pc # "asking"
        BY <1>1 DEF ClientFields
      <3>4. (\E x : Agreed(version) = <<x>>) \/ (\E x, y : Agreed(version) = <<x, y>>)
        BY DEF Agreed
      <3> HIDE DEF c, version
      <3> QED BY <3>1, <3>2, <3>3, <3>4, <1>5
    <2>2. CASE ReadTransportPreference(b)
      <3> DEFINE c == [cl[b] EXCEPT !.transport = ClientTransport(Arrived(b).val),
                                    !.pc = "peerinit"]
      <3>1. cl' = [cl EXCEPT ![b] = Emit(c, <<"TransportMode">>)]
        BY <2>2 DEF ReadTransportPreference
      <3>2. DOMAIN c = ClientFields /\ c.pc # "asking"
        BY <1>1 DEF ClientFields
      <3> HIDE DEF c
      <3> QED BY <3>1, <3>2, <1>5
    <2>3. CASE ReadPeerInitialize(b)
      BY <2>3, <1>9 DEF ReadPeerInitialize
    <2>4. CASE ReadKeyAgreement(b)
      <3> DEFINE c == [cl[b] EXCEPT !.uuid = Arrived(b).val, !.pc = "token"]
      <3>1. cl' = [cl EXCEPT ![b] = Emit(c, <<"Uuid">>)]
        BY <2>4 DEF ReadKeyAgreement
      <3>2. DOMAIN c = ClientFields /\ c.pc # "asking"
        BY <1>1 DEF ClientFields
      <3> HIDE DEF c
      <3> QED BY <3>1, <3>2, <1>5
    <2>5. CASE ReadSessionToken(b)
      <3> DEFINE c == [cl[b] EXCEPT !.session = Arrived(b).val,
                                    !.resume = IsResume(b, Arrived(b).val), !.pc = "addr"]
      <3>1. cl' = [cl EXCEPT ![b] = Emit(c, <<"SessionInfo">>)]
        BY <2>5 DEF ReadSessionToken
      <3>2. DOMAIN c = ClientFields /\ c.pc # "asking"
        BY <1>1 DEF ClientFields
      <3> HIDE DEF c
      <3> QED BY <3>1, <3>2, <1>5
    <2>6. CASE ReadMoshpitsAddr(b)
      <3> DEFINE c == [cl[b] EXCEPT !.port = Arrived(b).val, !.pc = "done"]
      <3>1. cl' = [cl EXCEPT ![b] = Emit(c, <<"MoshpitsAddr">>)]
        BY <2>6 DEF ReadMoshpitsAddr
      <3>2. DOMAIN c = ClientFields /\ c.pc # "asking"
        BY <1>1 DEF ClientFields
      <3> HIDE DEF c
      <3> QED BY <3>1, <3>2, <1>5
    <2>7. CASE ServerRefuses(b) \/ \E pc : ReadFails(b, pc)
      <3>1. PICK cause, events :
                LastWord(events) /\ cl' = [cl EXCEPT ![b] = Fails(@, cause, events)]
        BY <2>7, <1>2 DEF ServerRefuses, ReadFails, Failure, SilentFailure
      <3> QED BY <3>1, <1>1, <1>4
    <2>8. ~ClientCloses(b)
      BY <1>3 DEF ClientCloses, shared
    <2> QED BY <1>11, <2>1, <2>2, <2>3, <2>4, <2>5, <2>6, <2>7, <2>8 DEF ClientStep
  <1> QED BY <1>6, <1>7, <1>8, <1>10, <1>11

(* A host the user has accepted is not asked about again.                  *)
THEOREM AcceptedOnceHolds == Spec => AcceptedOnce
  <1>1. ASSUME IInv, [Next]_vars, NEW a \in Attempts, NEW b \in Attempts,
               cl[a].pc # "asking", cl'[a].pc = "asking"
        PROVE  ~cl[b].approved
    BY <1>1, OnlyAskAboutHostAsks DEF AskAboutHost, HostVerified, IInv, Approval
  <1>2. IInv /\ [Next]_vars =>
            [\A a, b \in Attempts :
                (cl[a].pc # "asking" /\ cl'[a].pc = "asking") => ~cl[b].approved]_vars
    BY <1>1
  <1> QED BY <1>2, Invariant, PTL DEF Spec, AcceptedOnce

-----------------------------------------------------------------------------
(* Types: what the invariant does not say of the fields of the two ends *)

EndFits(x) ==
    /\ x.alg \in Algs /\ x.version \in Versions /\ x.transport \in Transports
    /\ x.uuid \in IdOrNone /\ x.port \in Ports \cup {None} /\ x.user \in Users \cup {None}

Mains == {"idle", "waiting", "ok", "timeout", "unconnected", "InvalidKexState"} \cup Fatal

(* A machine without a verdict waits for one of its events.                *)
MachineFits(c) ==
    /\ c.main \in Mains /\ c.accepted \in 0..7
    /\ c.verdict \in {"none", "ok", "InvalidKexState", "NoCommonAlgorithm"}
    /\ c.verdict = "none" => c.accepted \in 0..6

(* A client that reads has a user to log in with; the server of one that   *)
(* never did is sent nothing but the end of the connection.                *)
LogsIn(c, e, up) ==
    /\ c.pc # "idle" => c.user \in Users
    /\ c.pc = "idle" => /\ e.pc \notin Initialized
                        /\ \A f \in Range(up) : f.frame \in {"closed", "reset"}

RegistryFits ==
    /\ registry = [s \in DOMAIN registry |-> registry[s]] /\ DOMAIN registry \subseteq Attempts
    /\ \A s \in DOMAIN registry : registry[s] \in Users

ProgramFits ==
    /\ setup \in Setups /\ known \in {"unknown", "same", "other", "unchecked"}
    /\ RegistryFits /\ pool \subseteq Ports \cup {None}

Fits ==
    /\ ProgramFits
    /\ \A a \in Attempts : /\ EndFits(cl[a]) /\ MachineFits(cl[a]) /\ EndFits(sv[a])
                           /\ LogsIn(cl[a], sv[a], c2s[a])

LEMMA FitsKept ==
    ASSUME IInv, Fits, NEW a \in Attempts, NEW d, NEW e, NEW up,
           cl' = [cl EXCEPT ![a] = d], sv' = [sv EXCEPT ![a] = e],
           c2s' = [c2s EXCEPT ![a] = up], setup' = setup, ProgramFits',
           EndFits(d), MachineFits(d), EndFits(e), LogsIn(d, e, up)
    PROVE  Fits'
  <1>1. IsArray(cl) /\ IsArray(sv) /\ IsArray(c2s)
    BY DEF IInv, Shapes
  <1>2. /\ cl'[a] = d /\ sv'[a] = e /\ c2s'[a] = up
        /\ \A b \in Attempts \ {a} : cl'[b] = cl[b] /\ sv'[b] = sv[b] /\ c2s'[b] = c2s[b]
    BY <1>1 DEF IsArray
  <1>3. ASSUME NEW b \in Attempts
        PROVE  EndFits(cl[b])' /\ MachineFits(cl'[b]) /\ EndFits(sv[b])'
               /\ LogsIn(cl'[b], sv'[b], c2s'[b])
    <2>1. CASE b = a
      <3>1. EndFits(cl'[b]) /\ EndFits(sv'[b])
        BY <2>1, <1>2
      <3>2. EndFits(cl[b])' /\ EndFits(sv[b])'
        BY <3>1 DEF EndFits, Algs, Versions
      <3> QED BY <2>1, <1>2, <3>2
    <2>2. CASE b # a
      <3>1. EndFits(cl'[b]) /\ EndFits(sv'[b])
        BY <2>2, <1>2 DEF Fits
      <3>2. EndFits(cl[b])' /\ EndFits(sv[b])'
        BY <3>1 DEF EndFits, Algs, Versions
      <3> QED BY <2>2, <1>2, <3>2 DEF Fits
    <2> QED BY <2>1, <2>2
  <1>4. \A b \in Attempts : /\ EndFits(cl[b])' /\ MachineFits(cl[b])' /\ EndFits(sv[b])'
                            /\ LogsIn(cl[b], sv[b], c2s[b])'
    BY <1>3
  <1> QED BY <1>4 DEF Fits

(* Whatever the machine is told it stays one.                              *)
LEMMA HandleFits ==
    ASSUME NEW c, DOMAIN c = ClientFields, MachineFits(c), NEW event
    PROVE  LET d == HandleEvent(c, event) IN Carried(c, d) /\ MachineFits(d)
  <1> DEFINE d == HandleEvent(c, event)
  <1>1. CASE c.verdict # "none"
    <2>1. d = c
      BY <1>1 DEF HandleEvent
    <2> QED BY <2>1 DEF Carried
  <1>2. CASE c.verdict = "none" /\ event = Events[c.accepted + 1]
    <2>1. d = [c EXCEPT !.accepted = @ + 1,
                        !.verdict = IF c.accepted + 1 = 7 THEN "ok" ELSE @]
      BY <1>2, EventNames DEF HandleEvent
    <2> HIDE DEF d
    <2>2. Carried(c, d) /\ d.accepted = c.accepted + 1
      BY <2>1 DEF Carried, ClientFields
    <2>3. d.verdict = IF c.accepted + 1 = 7 THEN "ok" ELSE "none"
      BY <1>2, <2>1 DEF ClientFields
    <2>4. MachineFits(d)
      BY <1>2, <2>2, <2>3 DEF MachineFits, Carried
    <2> QED BY <2>2, <2>4 DEF d
  <1>3. CASE c.verdict = "none" /\ event # Events[c.accepted + 1]
    <2>1. d = [c EXCEPT !.verdict = IF event = "NoCommonAlgorithm" THEN event
                                                                  ELSE "InvalidKexState"]
      BY <1>3 DEF HandleEvent
    <2> HIDE DEF d
    <2>2. Carried(c, d) /\ d.accepted = c.accepted
      BY <2>1 DEF Carried, ClientFields
    <2>3. d.verdict \in {"NoCommonAlgorithm", "InvalidKexState"}
      BY <2>1 DEF ClientFields
    <2>4. MachineFits(d)
      BY <2>2, <2>3 DEF MachineFits, Carried
    <2> QED BY <2>2, <2>4 DEF d
  <1> QED BY <1>1, <1>2, <1>3

LEMMA EmitFits ==
    ASSUME NEW c, DOMAIN c = ClientFields, MachineFits(c), NEW events
    PROVE  LET d == Emit(c, events) IN Carried(c, d) /\ MachineFits(d)
  <1> DEFINE first == IF events = <<>> THEN c ELSE HandleEvent(c, events[1])
             d == Emit(c, events)
  <1>1. Carried(c, first) /\ MachineFits(first)
    <2>1. CASE events = <<>>
      BY <2>1 DEF Carried
    <2>2. CASE events # <<>>
      <3>1. first = HandleEvent(c, events[1])
        BY <2>2
      <3> QED BY <3>1, HandleFits
    <2> QED BY <2>1, <2>2
  <1>2. d = IF Len(events) = 2 THEN HandleEvent(first, events[2]) ELSE first
    BY DEF Emit
  <1> HIDE DEF first, d
  <1>3. CASE Len(events) = 2
    <2>1. Carried(first, d) /\ MachineFits(d)
      BY <1>1, <1>2, <1>3, HandleFits DEF Carried
    <2> QED BY <1>1, <2>1 DEF Carried, d
  <1>4. CASE Len(events) # 2
    BY <1>1, <1>2, <1>4 DEF d
  <1> QED BY <1>3, <1>4

(* The program and the server's end are left alone but for the known host. *)
OnlyHost ==
    /\ sv' = sv /\ setup' = setup /\ pool' = pool /\ registry' = registry
    /\ known' \in {known, "same"}

LEMMA OnlyHostFits == ASSUME Fits, OnlyHost PROVE ProgramFits'
  BY DEF Fits, OnlyHost, ProgramFits, RegistryFits

(* The client's reader makes c of the client and tells the machine.        *)
LEMMA ReaderFits ==
    ASSUME IInv, Fits, OnlyHost, NEW a \in Attempts, NEW c, NEW events, NEW up,
           cl[a].pc # "idle", cl' = [cl EXCEPT ![a] = Emit(c, events)],
           c2s' = [c2s EXCEPT ![a] = up],
           DOMAIN c = ClientFields, EndFits(c), c.pc # "idle", c.user = cl[a].user,
           c.main = cl[a].main, c.accepted = cl[a].accepted, c.verdict = cl[a].verdict
    PROVE  Fits'
  <1> DEFINE d == Emit(c, events)
  <1>1. EndFits(sv[a]) /\ cl[a].user \in Users /\ MachineFits(cl[a])
    BY DEF Fits, LogsIn
  <1>2. MachineFits(c)
    BY <1>1 DEF MachineFits
  <1>3. Carried(c, d) /\ MachineFits(d)
    BY <1>2, EmitFits
  <1> HIDE DEF d
  <1>4. EndFits(d)
    BY <1>3 DEF EndFits, Carried
  <1>5. LogsIn(d, sv[a], up)
    BY <1>1, <1>3 DEF LogsIn, Carried
  <1>6. sv' = [sv EXCEPT ![a] = sv[a]]
    BY Entered, ExceptSelf DEF OnlyHost
  <1>7. cl' = [cl EXCEPT ![a] = d] /\ setup' = setup
    BY DEF d, OnlyHost
  <1> QED BY <1>1, <1>3, <1>4, <1>5, <1>6, <1>7, OnlyHostFits, FitsKept

LEMMA ReaderAlone ==
    ASSUME IInv, NEW a \in Attempts, c2s' = c2s
    PROVE  c2s' = [c2s EXCEPT ![a] = c2s[a]]
  BY Entered, ExceptSelf

LEMMA FailureFits ==
    ASSUME IInv, Fits, OnlyHost, NEW a \in Attempts, NEW cause, NEW events, NEW approved,
           cl[a].pc # "idle", c2s' = c2s,
           \/ cl' = [cl EXCEPT ![a] = Fails(@, cause, events)]
           \/ cl' = [cl EXCEPT ![a] = Fails([@ EXCEPT !.approved = approved], cause, events)]
    PROVE  Fits'
  <1> DEFINE c1 == [cl[a] EXCEPT !.approved = approved]
             c == [cl[a] EXCEPT !.pc = "failed", !.cause = cause]
             c2 == [c1 EXCEPT !.pc = "failed", !.cause = cause]
  <1>1. \/ cl' = [cl EXCEPT ![a] = Emit(c, events)]
        \/ cl' = [cl EXCEPT ![a] = Emit(c2, events)]
    BY DEF Fails
  <1>2. EndFits(cl[a]) /\ DOMAIN cl[a] = ClientFields
    BY Entered DEF Fits, Counts
  <1>3. /\ DOMAIN c = ClientFields /\ c.pc # "idle" /\ c.user = cl[a].user
        /\ c.main = cl[a].main /\ c.accepted = cl[a].accepted /\ c.verdict = cl[a].verdict
        /\ c.alg = cl[a].alg /\ c.version = cl[a].version /\ c.transport = cl[a].transport
        /\ c.uuid = cl[a].uuid /\ c.port = cl[a].port
    BY <1>2 DEF ClientFields
  <1>4. /\ DOMAIN c2 = ClientFields /\ c2.pc # "idle" /\ c2.user = cl[a].user
        /\ c2.main = cl[a].main /\ c2.accepted = cl[a].accepted /\ c2.verdict = cl[a].verdict
        /\ c2.alg = cl[a].alg /\ c2.version = cl[a].version /\ c2.transport = cl[a].transport
        /\ c2.uuid = cl[a].uuid /\ c2.port = cl[a].port
    BY <1>2 DEF ClientFields
  <1> HIDE DEF c, c2
  <1>5. EndFits(c) /\ EndFits(c2)
    BY <1>2, <1>3, <1>4 DEF EndFits
  <1> QED BY <1>1, <1>3, <1>4, <1>5, ReaderAlone, ReaderFits

(* What the two ends may agree on.                                         *)
LEMMA NegotiatedFits ==
    ASSUME IInv, Negotiable(setup.server, setup.client)
    PROVE  /\ Negotiate(setup.server, setup.client) \in Algs
           /\ ProtocolVersion(setup.speaks, setup.accepts) \in Versions
           /\ ProtocolVersion(setup.accepts, setup.speaks) \in Versions
  <1>1. setup \in SetupType
    BY DEF IInv, Shapes
  <1>2. Negotiate(setup.server, setup.client) \in Range(setup.client)
    BY <1>1, SetupFields, NegotiateIsFirst
  <1>3. /\ setup.accepts.min \in Nat /\ setup.accepts.max \in Nat
        /\ setup.speaks.min \in Nat /\ setup.speaks.max \in Nat
    BY <1>1 DEF SetupType, Ranges
  <1>4. ProtocolVersion(setup.speaks, setup.accepts) \in Versions
    BY <1>3 DEF ProtocolVersion, Lower, Versions
  <1>5. ProtocolVersion(setup.accepts, setup.speaks) \in Versions
    BY <1>3 DEF ProtocolVersion, Lower, Versions
  <1> QED BY <1>2, <1>4, <1>5 DEF Algs

LEMMA ReadKexInitFits ==
    ASSUME IInv, Fits, NEW a \in Attempts, ReadKexInit(a) PROVE Fits'
  <1> DEFINE v == ProtocolVersion(setup.speaks, setup.accepts)
             alg == Negotiate(setup.server, setup.client)
             to == IF v >= 2 THEN "transport" ELSE "peerinit"
             tr == IF v >= 2 THEN cl[a].transport ELSE "Udp"
             c == [cl[a] EXCEPT !.alg = alg, !.version = v, !.pc = to, !.transport = tr]
             up == Append(c2s[a], IF v >= 2 THEN F("TransportPreference", setup.tcp)
                                            ELSE Initialize(a))
  <1>1. cl[a].pc = "kexinit" /\ OnlyHost
    BY DEF ReadKexInit, ClientReads, Failure, shared, OnlyHost
  <1>2. \/ \E cause, event : /\ cl' = [cl EXCEPT ![a] = Fails(@, cause, <<event>>)]
                             /\ c2s' = c2s
        \/ /\ Negotiable(setup.server, setup.client)
           /\ cl' = [cl EXCEPT ![a] = Emit(c, Agreed(v))]
           /\ c2s' = [c2s EXCEPT ![a] = up]
    BY DEF ReadKexInit, Failure
  <1>3. CASE \E cause, event : /\ cl' = [cl EXCEPT ![a] = Fails(@, cause, <<event>>)]
                               /\ c2s' = c2s
    BY <1>1, <1>3, FailureFits
  <1>4. CASE /\ Negotiable(setup.server, setup.client)
             /\ cl' = [cl EXCEPT ![a] = Emit(c, Agreed(v))]
             /\ c2s' = [c2s EXCEPT ![a] = up]
    <2>1. EndFits(cl[a]) /\ DOMAIN cl[a] = ClientFields
      BY Entered DEF Fits, Counts
    <2>2. alg \in Algs /\ v \in Versions /\ tr \in Transports /\ to # "idle"
      BY <1>4, <2>1, NegotiatedFits DEF EndFits, Transports
    <2> HIDE DEF alg, v, to, tr
    <2>3. /\ DOMAIN c = ClientFields /\ c.pc = to /\ c.user = cl[a].user
          /\ c.main = cl[a].main /\ c.accepted = cl[a].accepted /\ c.verdict = cl[a].verdict
          /\ c.alg = alg /\ c.version = v /\ c.transport = tr
          /\ c.uuid = cl[a].uuid /\ c.port = cl[a].port
      BY <2>1 DEF ClientFields
    <2> HIDE DEF c, up
    <2>4. EndFits(c)
      BY <2>1, <2>2, <2>3 DEF EndFits
    <2> QED BY <1>1, <1>4, <2>2, <2>3, <2>4, ReaderFits
  <1> QED BY <1>2, <1>3, <1>4

LEMMA ReadTransportPreferenceFits ==
    ASSUME IInv, Fits, NEW a \in Attempts, ReadTransportPreference(a) PROVE Fits'
  <1> DEFINE tr == ClientTransport(Arrived(a).val)
             c == [cl[a] EXCEPT !.transport = tr, !.pc = "peerinit"]
  <1>1. /\ cl[a].pc = "transport" /\ OnlyHost
        /\ cl' = [cl EXCEPT ![a] = Emit(c, <<"TransportMode">>)]
        /\ c2s' = [c2s EXCEPT ![a] = Append(c2s[a], Initialize(a))]
    BY DEF ReadTransportPreference, ClientReads, shared, OnlyHost
  <1>2. EndFits(cl[a]) /\ DOMAIN cl[a] = ClientFields /\ tr \in Transports
    BY Entered DEF Fits, Counts, ClientTransport, Transports
  <1> HIDE DEF tr
  <1>3. /\ DOMAIN c = ClientFields /\ c.pc = "peerinit" /\ c.user = cl[a].user
        /\ c.main = cl[a].main /\ c.accepted = cl[a].accepted /\ c.verdict = cl[a].verdict
        /\ c.alg = cl[a].alg /\ c.version = cl[a].version /\ c.transport = tr
        /\ c.uuid = cl[a].uuid /\ c.port = cl[a].port
    BY <1>2 DEF ClientFields
  <1> HIDE DEF c
  <1>4. EndFits(c)
    BY <1>2, <1>3 DEF EndFits
  <1> QED BY <1>1, <1>3, <1>4, ReaderFits

LEMMA AskAboutHostFits ==
    ASSUME IInv, Fits, NEW a \in Attempts, AskAboutHost(a) PROVE Fits'
  <1> DEFINE key == SessionKeys(Arrived(a).val, cl[a])
             c == [cl[a] EXCEPT !.pc = "asking", !.key = key]
             nothing == <<>>
  <1>1. /\ cl[a].pc = "peerinit" /\ OnlyHost /\ cl' = [cl EXCEPT ![a] = c] /\ c2s' = c2s
    BY Entered DEF AskAboutHost, ClientReads, shared, OnlyHost, IsArray
  <1>2. EndFits(cl[a]) /\ DOMAIN cl[a] = ClientFields
    BY Entered DEF Fits, Counts
  <1> HIDE DEF key
  <1>3. /\ DOMAIN c = ClientFields /\ c.pc = "asking" /\ c.user = cl[a].user
        /\ c.main = cl[a].main /\ c.accepted = cl[a].accepted /\ c.verdict = cl[a].verdict
        /\ c.alg = cl[a].alg /\ c.version = cl[a].version /\ c.transport = cl[a].transport
        /\ c.uuid = cl[a].uuid /\ c.port = cl[a].port
    BY <1>2 DEF ClientFields
  <1> HIDE DEF c
  <1>4. EndFits(c) /\ cl' = [cl EXCEPT ![a] = Emit(c, nothing)]
    BY <1>1, <1>2, <1>3, EmitNothing DEF EndFits
  <1>5. OnlyHost /\ cl[a].pc # "idle" /\ c2s' = [c2s EXCEPT ![a] = c2s[a]]
    BY <1>1, ReaderAlone
  <1> HIDE DEF nothing
  <1> QED BY <1>3, <1>4, <1>5, ReaderFits

LEMMA ProceedFits ==
    ASSUME IInv, Fits, OnlyHost, NEW a \in Attempts, NEW key, NEW approved,
           Proceed(a, key, approved), cl[a].pc \in {"peerinit", "asking"}
    PROVE  Fits'
  <1> DEFINE c == [cl[a] EXCEPT !.key = key, !.pc = "agreement", !.approved = approved]
             up == c2s[a] \o Completion(a, key)
             events == <<"KeyMaterial", "HMACKeyMaterial">>
             nothing == <<>>
  <1>1. \/ /\ cl' = [cl EXCEPT ![a] = Emit(c, events)]
           /\ c2s' = [c2s EXCEPT ![a] = up]
        \/ /\ cl' = [cl EXCEPT ![a] = Fails([@ EXCEPT !.approved = approved], "agent", nothing)]
           /\ c2s' = c2s
    BY DEF Proceed
  <1>2. EndFits(cl[a]) /\ DOMAIN cl[a] = ClientFields
    BY Entered DEF Fits, Counts
  <1>3. /\ DOMAIN c = ClientFields /\ c.pc = "agreement" /\ c.user = cl[a].user
        /\ c.main = cl[a].main /\ c.accepted = cl[a].accepted /\ c.verdict = cl[a].verdict
        /\ c.alg = cl[a].alg /\ c.version = cl[a].version /\ c.transport = cl[a].transport
        /\ c.uuid = cl[a].uuid /\ c.port = cl[a].port
    BY <1>2 DEF ClientFields
  <1> HIDE DEF c, up, events, nothing
  <1>4. EndFits(c)
    BY <1>2, <1>3 DEF EndFits
  <1>5. CASE /\ cl' = [cl EXCEPT ![a] = Emit(c, events)]
             /\ c2s' = [c2s EXCEPT ![a] = up]
    BY <1>3, <1>4, <1>5, ReaderFits
  <1>6. CASE /\ cl' = [cl EXCEPT ![a] = Fails([@ EXCEPT !.approved = approved], "agent", nothing)]
             /\ c2s' = c2s
    BY <1>6, FailureFits
  <1> QED BY <1>1, <1>5, <1>6

LEMMA ReadKeyAgreementFits ==
    ASSUME IInv, Fits, NEW a \in Attempts, ReadKeyAgreement(a) PROVE Fits'
  <1> DEFINE c == [cl[a] EXCEPT !.uuid = Arrived(a).val, !.pc = "token"]
  <1>1. /\ cl[a].pc = "agreement" /\ OnlyHost /\ s2c[a] # <<>> /\ c2s' = c2s
        /\ Arrived(a).frame = "KeyAgreement" /\ cl' = [cl EXCEPT ![a] = Emit(c, <<"Uuid">>)]
    BY DEF ReadKeyAgreement, ClientReads, shared, OnlyHost
  <1>2. EndFits(cl[a]) /\ DOMAIN cl[a] = ClientFields /\ Arrived(a).val = a
    BY <1>1, Entered, FrameTaken DEF Fits, Counts, DownFrame
  <1>3. /\ DOMAIN c = ClientFields /\ c.pc = "token" /\ c.user = cl[a].user
        /\ c.main = cl[a].main /\ c.accepted = cl[a].accepted /\ c.verdict = cl[a].verdict
        /\ c.alg = cl[a].alg /\ c.version = cl[a].version /\ c.transport = cl[a].transport
        /\ c.uuid = a /\ c.port = cl[a].port
    BY <1>2 DEF ClientFields
  <1> HIDE DEF c
  <1>4. EndFits(c)
    BY <1>2, <1>3 DEF EndFits, IdOrNone
  <1> QED BY <1>1, <1>3, <1>4, ReaderAlone, ReaderFits

LEMMA ReadSessionTokenFits ==
    ASSUME IInv, Fits, NEW a \in Attempts, ReadSessionToken(a) PROVE Fits'
  <1> DEFINE session == Arrived(a).val
             resume == IsResume(a, session)
             c == [cl[a] EXCEPT !.session = session, !.resume = resume, !.pc = "addr"]
  <1>1. /\ cl[a].pc = "token" /\ OnlyHost /\ c2s' = c2s
        /\ cl' = [cl EXCEPT ![a] = Emit(c, <<"SessionInfo">>)]
    BY DEF ReadSessionToken, ClientReads, shared, OnlyHost
  <1>2. EndFits(cl[a]) /\ DOMAIN cl[a] = ClientFields
    BY Entered DEF Fits, Counts
  <1> HIDE DEF session, resume
  <1>3. /\ DOMAIN c = ClientFields /\ c.pc = "addr" /\ c.user = cl[a].user
        /\ c.main = cl[a].main /\ c.accepted = cl[a].accepted /\ c.verdict = cl[a].verdict
        /\ c.alg = cl[a].alg /\ c.version = cl[a].version /\ c.transport = cl[a].transport
        /\ c.uuid = cl[a].uuid /\ c.port = cl[a].port
    BY <1>2 DEF ClientFields
  <1> HIDE DEF c
  <1>4. EndFits(c)
    BY <1>2, <1>3 DEF EndFits
  <1> QED BY <1>1, <1>3, <1>4, ReaderAlone, ReaderFits

LEMMA ReadMoshpitsAddrFits ==
    ASSUME IInv, Fits, NEW a \in Attempts, ReadMoshpitsAddr(a) PROVE Fits'
  <1> DEFINE c == [cl[a] EXCEPT !.port = Arrived(a).val, !.pc = "done"]
  <1>1. /\ cl[a].pc = "addr" /\ OnlyHost /\ s2c[a] # <<>> /\ c2s' = c2s
        /\ Arrived(a).frame = "MoshpitsAddr"
        /\ cl' = [cl EXCEPT ![a] = Emit(c, <<"MoshpitsAddr">>)]
    BY DEF ReadMoshpitsAddr, ClientReads, shared, OnlyHost
  <1>2. EndFits(cl[a]) /\ EndFits(sv[a]) /\ DOMAIN cl[a] = ClientFields
        /\ Arrived(a).val = sv[a].port
    BY <1>1, Entered, FrameTaken DEF Fits, Counts, DownFrame
  <1>3. /\ DOMAIN c = ClientFields /\ c.pc = "done" /\ c.user = cl[a].user
        /\ c.main = cl[a].main /\ c.accepted = cl[a].accepted /\ c.verdict = cl[a].verdict
        /\ c.alg = cl[a].alg /\ c.version = cl[a].version /\ c.transport = cl[a].transport
        /\ c.uuid = cl[a].uuid /\ c.port = sv[a].port
    BY <1>2 DEF ClientFields
  <1> HIDE DEF c
  <1>4. EndFits(c)
    BY <1>2, <1>3 DEF EndFits
  <1> QED BY <1>1, <1>3, <1>4, ReaderAlone, ReaderFits

LEMMA ReaderErrorFits ==
    ASSUME IInv, Fits, NEW a \in Attempts, NEW pc, pc # "idle",
           RejectHost(a) \/ ServerRefuses(a) \/ ReadFails(a, pc)
    PROVE  Fits'
  <1> DEFINE nothing == <<>>
  <1>1. OnlyHost /\ cl[a].pc # "idle" /\ c2s' = c2s
    BY DEF RejectHost, ServerRefuses, ReadFails, ClientReads, Failure, SilentFailure, shared,
           OnlyHost
  <1>2. \E cause, events : cl' = [cl EXCEPT ![a] = Fails(@, cause, events)]
    <2>1. ASSUME NEW cause, NEW event, Failure(a, cause, event)
          PROVE  cl' = [cl EXCEPT ![a] = Fails(@, cause, <<event>>)]
      BY <2>1 DEF Failure
    <2>2. ASSUME NEW cause, SilentFailure(a, cause)
          PROVE  cl' = [cl EXCEPT ![a] = Fails(@, cause, nothing)]
      BY <2>2 DEF SilentFailure
    <2>3. \/ \E cause, event : Failure(a, cause, event)
          \/ \E cause : SilentFailure(a, cause)
      BY DEF RejectHost, ServerRefuses, ReadFails
    <2> HIDE DEF nothing
    <2> QED BY <2>1, <2>2, <2>3
  <1> QED BY <1>1, <1>2, FailureFits

LEMMA HostAnswersFit ==
    ASSUME IInv, Fits, NEW a \in Attempts, ReadPeerInitialize(a) \/ AcceptHost(a)
    PROVE  Fits'
  <1>1. OnlyHost /\ cl[a].pc \in {"peerinit", "asking"}
    BY DEF ReadPeerInitialize, AcceptHost, ClientReads, shared, OnlyHost, RememberHost
  <1>2. \E key, approved : Proceed(a, key, approved)
    BY DEF ReadPeerInitialize, AcceptHost
  <1> QED BY <1>1, <1>2, ProceedFits

(* The client's main task and the connection.                              *)
LEMMA StartAttemptFits ==
    ASSUME IInv, Fits, NEW a \in Attempts, StartAttempt(a) PROVE Fits'
  <1>1. PICK user \in Users, id \in LoadIdentity :
          /\ MayStart(a, user)
          /\ IF id \in {"agent", "file"}
             THEN /\ cl' = [cl EXCEPT ![a] =
                              [@ EXCEPT !.pc = "kexinit", !.main = "waiting", !.user = user,
                                        !.requested = uuid_file, !.identity = id]]
                  /\ c2s' = [c2s EXCEPT ![a] = <<F("KexInit", None)>>]
             ELSE /\ cl' = [cl EXCEPT ![a].main = id]
                  /\ c2s' = [c2s EXCEPT ![a] = <<Closed>>]
    BY DEF StartAttempt
  <1>2. /\ setup' = setup /\ ProgramFits' /\ sv' = [sv EXCEPT ![a] = sv[a]]
        /\ EndFits(cl[a]) /\ MachineFits(cl[a]) /\ EndFits(sv[a])
    BY Entered, ExceptSelf DEF StartAttempt, shared, Fits, ProgramFits, RegistryFits
  <1>3. /\ cl[a].pc = "idle" /\ DOMAIN cl[a] = ClientFields /\ sv[a].pc \notin Initialized
    BY <1>1, Entered DEF MayStart, Counts, Fits, LogsIn
  <1>4. CASE id \in {"agent", "file"}
    <2> DEFINE d == [cl[a] EXCEPT !.pc = "kexinit", !.main = "waiting", !.user = user,
                                  !.requested = uuid_file, !.identity = id]
               up == <<F("KexInit", None)>>
    <2>1. cl' = [cl EXCEPT ![a] = d] /\ c2s' = [c2s EXCEPT ![a] = up]
      BY <1>1, <1>4
    <2>2. /\ d.pc = "kexinit" /\ d.main = "waiting" /\ d.user = user
          /\ d.accepted = cl[a].accepted /\ d.verdict = cl[a].verdict
          /\ d.alg = cl[a].alg /\ d.version = cl[a].version /\ d.transport = cl[a].transport
          /\ d.uuid = cl[a].uuid /\ d.port = cl[a].port
      BY <1>3 DEF ClientFields
    <2> HIDE DEF d, up
    <2>3. EndFits(d) /\ MachineFits(d) /\ LogsIn(d, sv[a], up)
      BY <1>2, <2>2 DEF EndFits, MachineFits, Mains, LogsIn
    <2> QED BY <1>2, <2>1, <2>3, FitsKept
  <1>5. CASE id \notin {"agent", "file"}
    <2> DEFINE d == [cl[a] EXCEPT !.main = id]
    <2>1. cl' = [cl EXCEPT ![a] = d] /\ c2s' = [c2s EXCEPT ![a] = <<Closed>>]
      BY <1>1, <1>5, Entered DEF IsArray
    <2>2. id \in Fatal
      <3>1. setup.key \in {"missing", "plain", "encrypted", "mismatch"}
        BY Entered DEF SetupType
      <3> QED BY <1>5, <3>1 DEF LoadIdentity, Fatal
    <2>3. /\ d.pc = "idle" /\ d.main = id /\ d.user = cl[a].user
          /\ d.accepted = cl[a].accepted /\ d.verdict = cl[a].verdict
          /\ d.alg = cl[a].alg /\ d.version = cl[a].version /\ d.transport = cl[a].transport
          /\ d.uuid = cl[a].uuid /\ d.port = cl[a].port
      BY <1>3 DEF ClientFields
    <2> HIDE DEF d
    <2>4. Range(<<Closed>>) = {Closed} /\ Closed.frame = "closed"
      BY OneFrame DEF Closed, F
    <2>5. EndFits(d) /\ MachineFits(d) /\ LogsIn(d, sv[a], <<Closed>>)
      BY <1>2, <1>3, <2>2, <2>3, <2>4 DEF EndFits, MachineFits, Mains, LogsIn
    <2> QED BY <1>2, <2>1, <2>5, FitsKept
  <1> QED BY <1>4, <1>5

(* The main task takes its outcome.                                        *)
LEMMA MainTaskFits ==
    ASSUME IInv, Fits, NEW a \in Attempts,
           MainEnds(a) \/ DataPortBlocked(a) \/ KexTimeout(a)
    PROVE  Fits'
  <1>1. PICK main : /\ main \in Mains /\ cl' = [cl EXCEPT ![a].main = main]
                    /\ sv' = sv \/ (cl[a].verdict = "ok" /\ sv' = [sv EXCEPT ![a].pc = "done"])
    <2>1. CASE MainEnds(a)
      <3>1. cl[a].verdict \in Mains
        BY <2>1 DEF MainEnds, Fits, MachineFits, Mains, Fatal
      <3> QED BY <2>1, <3>1 DEF MainEnds
    <2>2. CASE DataPortBlocked(a)
      BY <2>2 DEF DataPortBlocked, shared, Mains
    <2>3. CASE KexTimeout(a)
      BY <2>3 DEF KexTimeout, shared, Mains
    <2> QED BY <2>1, <2>2, <2>3
  <1>2. /\ setup' = setup /\ known' = known /\ registry' = registry /\ pool' = pool /\ c2s' = c2s
    BY DEF MainEnds, DataPortBlocked, KexTimeout, shared
  <1>3. ProgramFits'
    BY <1>2 DEF Fits, ProgramFits, RegistryFits
  <1> DEFINE d == [cl[a] EXCEPT !.main = main]
             e == [sv[a] EXCEPT !.pc = "done"]
  <1>4. /\ EndFits(cl[a]) /\ MachineFits(cl[a]) /\ EndFits(sv[a]) /\ LogsIn(cl[a], sv[a], c2s[a])
        /\ DOMAIN cl[a] = ClientFields /\ DOMAIN sv[a] = ServerFields
    BY Entered DEF Fits, Counts, ServerHolds
  <1>5. cl' = [cl EXCEPT ![a] = d] /\ c2s' = [c2s EXCEPT ![a] = c2s[a]]
    BY <1>1, <1>2, Entered, ExceptSelf DEF IsArray
  <1>6. \/ sv' = [sv EXCEPT ![a] = sv[a]]
        \/ cl[a].pc = "done" /\ sv' = [sv EXCEPT ![a] = e]
    <2>1. cl[a].verdict = "ok" => cl[a].pc = "done"
      BY Entered DEF Counts
    <2> QED BY <1>1, <2>1, Entered, ExceptSelf DEF IsArray
  <1>7. /\ d.pc = cl[a].pc /\ d.main = main /\ d.user = cl[a].user
        /\ d.accepted = cl[a].accepted /\ d.verdict = cl[a].verdict
        /\ d.alg = cl[a].alg /\ d.version = cl[a].version /\ d.transport = cl[a].transport
        /\ d.uuid = cl[a].uuid /\ d.port = cl[a].port
    BY <1>4 DEF ClientFields
  <1>8. /\ e.alg = sv[a].alg /\ e.version = sv[a].version /\ e.transport = sv[a].transport
        /\ e.uuid = sv[a].uuid /\ e.port = sv[a].port /\ e.user = sv[a].user
    BY <1>4 DEF ServerFields
  <1> HIDE DEF d, e
  <1>9. EndFits(d) /\ MachineFits(d) /\ EndFits(e) /\ LogsIn(d, sv[a], c2s[a])
    BY <1>1, <1>4, <1>7, <1>8 DEF EndFits, MachineFits, LogsIn
  <1>10. cl[a].pc = "done" => LogsIn(d, e, c2s[a])
    BY <1>4, <1>7 DEF LogsIn
  <1> QED BY <1>2, <1>3, <1>4, <1>5, <1>6, <1>9, <1>10, FitsKept

LEMMA ConnectionFits ==
    ASSUME IInv, Fits, NEW a \in Attempts, ClientCloses(a) \/ ConnectionBreaks(a)
    PROVE  Fits'
  <1>1. /\ setup' = setup /\ ProgramFits' /\ cl' = cl /\ sv' = sv
    BY DEF ClientCloses, ConnectionBreaks, shared, Fits, ProgramFits, RegistryFits
  <1>2. PICK up : /\ c2s' = [c2s EXCEPT ![a] = up]
                  /\ \/ up = <<Reset>>
                     \/ cl[a].pc # "idle"
    BY DEF ClientCloses, ConnectionBreaks, ReaderEnded
  <1>3. Range(<<Reset>>) = {Reset} /\ Reset.frame = "reset"
    BY OneFrame DEF Reset, F
  <1>4. LogsIn(cl[a], sv[a], up)
    BY <1>2, <1>3 DEF Fits, LogsIn
  <1>5. cl' = [cl EXCEPT ![a] = cl[a]] /\ sv' = [sv EXCEPT ![a] = sv[a]]
    BY <1>1, Entered, ExceptSelf
  <1>6. EndFits(cl[a]) /\ MachineFits(cl[a]) /\ EndFits(sv[a])
    BY DEF Fits
  <1> QED BY <1>1, <1>2, <1>4, <1>5, <1>6, FitsKept

(* The server.                                                             *)
LEMMA ServerStepFits ==
    ASSUME IInv, Fits, NEW a \in Attempts, NEW e, NEW up,
           cl' = cl, sv' = [sv EXCEPT ![a] = e], c2s' = [c2s EXCEPT ![a] = up],
           up = c2s[a] \/ (c2s[a] # <<>> /\ up = Tail(c2s[a])),
           setup' = setup, known' = known, RegistryFits', pool' \subseteq Ports \cup {None},
           EndFits(e), e.pc \in Initialized => sv[a].pc \in Initialized \/ cl[a].pc # "idle"
    PROVE  Fits'
  <1>1. ProgramFits'
    BY DEF Fits, ProgramFits
  <1>2. IsFrames(c2s[a]) /\ cl' = [cl EXCEPT ![a] = cl[a]]
    BY Entered, ExceptSelf DEF UpFrames
  <1>3. Range(up) \subseteq Range(c2s[a])
    BY <1>2, TailFrames
  <1>4. EndFits(cl[a]) /\ MachineFits(cl[a]) /\ LogsIn(cl[a], sv[a], c2s[a])
    BY DEF Fits
  <1>5. LogsIn(cl[a], e, up)
    BY <1>3, <1>4 DEF LogsIn
  <1> QED BY <1>1, <1>2, <1>4, <1>5, FitsKept

(* What the server's end has while it takes the frames.                    *)
LEMMA ServerNow ==
    ASSUME IInv, Fits, NEW a \in Attempts
    PROVE  /\ EndFits(sv[a]) /\ DOMAIN sv[a] = ServerFields
           /\ RegistryFits /\ pool \subseteq Ports \cup {None}
           /\ registry' = registry => RegistryFits'
           /\ sv[a].pc \in Initialized => sv[a].user \in Users
  <1>1. EndFits(sv[a]) /\ DOMAIN sv[a] = ServerFields
    BY Entered DEF Fits, ServerHolds
  <1>2. RegistryFits /\ pool \subseteq Ports \cup {None}
    BY DEF Fits, ProgramFits
  <1>3. registry' = registry => RegistryFits'
    BY <1>2 DEF RegistryFits
  <1>4. sv[a].pc \in Initialized => sv[a].user \in Users
    BY Entered DEF Fits, LogsIn, EndsMatch
  <1> QED BY <1>1, <1>2, <1>3, <1>4

LEMMA ServerFailsFits ==
    ASSUME IInv, Fits, NEW a \in Attempts, NEW frames, NEW up, ServerFails(a, frames),
           c2s' = [c2s EXCEPT ![a] = up],
           up = c2s[a] \/ (c2s[a] # <<>> /\ up = Tail(c2s[a])),
           cl' = cl, setup' = setup, known' = known, registry' = registry, pool' = pool
    PROVE  Fits'
  <1> DEFINE e == [sv[a] EXCEPT !.pc = "failed"]
  <1>1. sv' = [sv EXCEPT ![a] = e]
    BY Entered DEF ServerFails, IsArray
  <1>2. /\ e.pc = "failed"
        /\ e.alg = sv[a].alg /\ e.version = sv[a].version /\ e.transport = sv[a].transport
        /\ e.uuid = sv[a].uuid /\ e.port = sv[a].port /\ e.user = sv[a].user
    BY ServerNow DEF ServerFields
  <1> HIDE DEF e
  <1>3. EndFits(e) /\ e.pc \notin Initialized
    BY <1>2, ServerNow DEF EndFits, Initialized
  <1> QED BY <1>1, <1>3, ServerNow, ServerStepFits

LEMMA ServerKexInitFits ==
    ASSUME IInv, Fits, NEW a \in Attempts, ServerKexInit(a) PROVE Fits'
  <1> DEFINE v == ProtocolVersion(setup.accepts, setup.speaks)
             alg == Negotiate(setup.server, setup.client)
             to == IF v >= 2 THEN "transport" ELSE "initialize"
             tr == IF v >= 2 THEN sv[a].transport ELSE "Udp"
             e == [sv[a] EXCEPT !.alg = alg, !.version = v, !.pc = to, !.transport = tr]
             up == Tail(c2s[a])
             frames == <<F("KexInit", None)>>
  <1>1. /\ c2s[a] # <<>> /\ c2s' = [c2s EXCEPT ![a] = up]
        /\ cl' = cl /\ setup' = setup /\ known' = known /\ registry' = registry /\ pool' = pool
    BY DEF ServerKexInit, ServerReads, shared
  <1>2. \/ ServerFails(a, frames)
        \/ Negotiable(setup.server, setup.client) /\ sv' = [sv EXCEPT ![a] = e]
    BY DEF ServerKexInit
  <1>3. CASE ServerFails(a, frames)
    <2> HIDE DEF frames, up
    <2>1. up = c2s[a] \/ (c2s[a] # <<>> /\ up = Tail(c2s[a]))
      BY <1>1 DEF up
    <2> QED BY <1>1, <1>3, <2>1, ServerFailsFits
  <1>4. CASE Negotiable(setup.server, setup.client) /\ sv' = [sv EXCEPT ![a] = e]
    <2>1. /\ alg \in Algs /\ v \in Versions /\ tr \in Transports /\ to \notin Initialized
      BY <1>4, ServerNow, NegotiatedFits DEF EndFits, Transports, Initialized
    <2> HIDE DEF alg, v, to, tr
    <2>2. /\ e.pc = to /\ e.alg = alg /\ e.version = v /\ e.transport = tr
          /\ e.uuid = sv[a].uuid /\ e.port = sv[a].port /\ e.user = sv[a].user
      BY ServerNow DEF ServerFields
    <2> HIDE DEF e
    <2>3. EndFits(e)
      BY <2>1, <2>2, ServerNow DEF EndFits
    <2> QED BY <1>1, <1>4, <2>1, <2>2, <2>3, ServerNow, ServerStepFits
  <1> QED BY <1>2, <1>3, <1>4

LEMMA ServerTransportFits ==
    ASSUME IInv, Fits, NEW a \in Attempts, ServerTransport(a) PROVE Fits'
  <1> DEFINE tr == IF Head(c2s[a]).val /\ setup.allow_tcp THEN "Tcp" ELSE "Udp"
             e == [sv[a] EXCEPT !.transport = tr, !.pc = "initialize"]
  <1>1. /\ c2s[a] # <<>> /\ c2s' = [c2s EXCEPT ![a] = Tail(c2s[a])]
        /\ cl' = cl /\ setup' = setup /\ known' = known /\ registry' = registry /\ pool' = pool
    BY DEF ServerTransport, ServerReads, shared
  <1>2. sv' = [sv EXCEPT ![a] = e]
    <2>1. sv' = [sv EXCEPT ![a].transport = tr, ![a].pc = "initialize"]
      BY DEF ServerTransport
    <2> HIDE DEF tr
    <2> QED BY <2>1, Entered DEF IsArray
  <1>3. tr \in Transports
    BY DEF Transports
  <1> HIDE DEF tr
  <1>4. /\ e.pc = "initialize" /\ e.alg = sv[a].alg /\ e.version = sv[a].version
        /\ e.transport = tr
        /\ e.uuid = sv[a].uuid /\ e.port = sv[a].port /\ e.user = sv[a].user
    BY ServerNow DEF ServerFields
  <1> HIDE DEF e
  <1>5. EndFits(e) /\ e.pc \notin Initialized
    BY <1>3, <1>4, ServerNow DEF EndFits, Initialized
  <1> QED BY <1>1, <1>2, <1>5, ServerNow, ServerStepFits

(* Only a client that logs in says who it is.                              *)
LEMMA ServerInitializeFits ==
    ASSUME IInv, Fits, NEW a \in Attempts, ServerInitialize(a) PROVE Fits'
  <1> DEFINE v == Head(c2s[a]).val
             key == SessionKeys(a, [sv[a] EXCEPT !.user = v.user])
             to == IF setup.ml_dsa THEN "proof" ELSE "options"
             e == [sv[a] EXCEPT !.user = v.user, !.requested = v.uuid, !.key = key, !.pc = to]
             frames == <<>>
             up == Tail(c2s[a])
  <1>1. PICK frame \in {"Initialize", "ResumeRequest"} : ServerReads(a, "initialize", frame)
    BY DEF ServerInitialize
  <1>2. /\ c2s[a] # <<>> /\ c2s' = [c2s EXCEPT ![a] = up] /\ Head(c2s[a]).frame = frame
        /\ UpFrame(setup, cl[a], Head(c2s[a]))
        /\ cl' = cl /\ setup' = setup /\ known' = known /\ registry' = registry /\ pool' = pool
    BY <1>1, ServerHasRead DEF ServerInitialize, shared
  <1>3. \/ ServerFails(a, frames)
        \/ sv' = [sv EXCEPT ![a] = e]
    BY DEF ServerInitialize
  <1>4. CASE ServerFails(a, frames)
    <2> HIDE DEF frames, up
    <2>1. up = c2s[a] \/ (c2s[a] # <<>> /\ up = Tail(c2s[a]))
      BY <1>2 DEF up
    <2> QED BY <1>2, <1>4, <2>1, ServerFailsFits
  <1>5. CASE sv' = [sv EXCEPT ![a] = e]
    <2>1. v.user = cl[a].user
      BY <1>2 DEF UpFrame
    <2>2. cl[a].pc # "idle"
      <3>1. IsFrames(c2s[a]) /\ LogsIn(cl[a], sv[a], c2s[a])
        BY Entered DEF UpFrames, Fits
      <3>2. Head(c2s[a]) \in Range(c2s[a])
        BY <1>2, <3>1, TailFrames
      <3> QED BY <1>2, <3>1, <3>2 DEF LogsIn
    <2> HIDE DEF v, key, to
    <2>3. /\ e.user = v.user /\ e.alg = sv[a].alg /\ e.version = sv[a].version
          /\ e.transport = sv[a].transport
          /\ e.uuid = sv[a].uuid /\ e.port = sv[a].port
      BY ServerNow DEF ServerFields
    <2> HIDE DEF e
    <2>4. EndFits(e)
      <3>1. cl[a].user \in Users
        BY <2>2 DEF Fits, LogsIn
      <3> QED BY <2>1, <2>3, <3>1, ServerNow DEF EndFits
    <2> QED BY <1>2, <1>5, <2>2, <2>4, ServerNow, ServerStepFits
  <1> QED BY <1>3, <1>4, <1>5

LEMMA ServerProofFits ==
    ASSUME IInv, Fits, NEW a \in Attempts, ServerProof(a) PROVE Fits'
  <1> DEFINE e == [sv[a] EXCEPT !.proven = TRUE, !.pc = "options"]
             frames == <<>>
             up == Tail(c2s[a])
  <1>1. /\ sv[a].pc = "proof" /\ c2s[a] # <<>> /\ c2s' = [c2s EXCEPT ![a] = up]
        /\ cl' = cl /\ setup' = setup /\ known' = known /\ registry' = registry /\ pool' = pool
    BY DEF ServerProof, ServerReads, shared
  <1>2. ServerFails(a, frames) \/ sv' = [sv EXCEPT ![a] = e]
    <2>1. ServerFails(a, frames) \/ sv' = [sv EXCEPT ![a].proven = TRUE, ![a].pc = "options"]
      BY DEF ServerProof
    <2> HIDE DEF frames
    <2> QED BY <2>1, Entered DEF IsArray
  <1>3. CASE ServerFails(a, frames)
    <2> HIDE DEF frames, up
    <2>1. up = c2s[a] \/ (c2s[a] # <<>> /\ up = Tail(c2s[a]))
      BY <1>1 DEF up
    <2> QED BY <1>1, <1>3, <2>1, ServerFailsFits
  <1>4. CASE sv' = [sv EXCEPT ![a] = e]
    <2>1. /\ e.alg = sv[a].alg /\ e.version = sv[a].version /\ e.transport = sv[a].transport
          /\ e.uuid = sv[a].uuid /\ e.port = sv[a].port /\ e.user = sv[a].user
      BY ServerNow DEF ServerFields
    <2> HIDE DEF e
    <2>2. EndFits(e) /\ sv[a].pc \in Initialized
      BY <1>1, <2>1, ServerNow DEF EndFits, Initialized
    <2> QED BY <1>1, <1>4, <2>2, ServerNow, ServerStepFits
  <1> QED BY <1>2, <1>3, <1>4

LEMMA ServerOptionsFits ==
    ASSUME IInv, Fits, NEW a \in Attempts, ServerOptions(a) \/ ServerEnv(a) PROVE Fits'
  <1> DEFINE diff == Head(c2s[a]).val
             e1 == [sv[a] EXCEPT !.diff = diff, !.pc = "env"]
             e2 == [sv[a] EXCEPT !.env = TRUE, !.pc = "check"]
  <1>1. /\ sv[a].pc \in {"options", "env"} /\ c2s[a] # <<>>
        /\ c2s' = [c2s EXCEPT ![a] = Tail(c2s[a])]
        /\ cl' = cl /\ setup' = setup /\ known' = known /\ registry' = registry /\ pool' = pool
    BY DEF ServerOptions, ServerEnv, ServerReads, shared
  <1>2. sv' = [sv EXCEPT ![a] = e1] \/ sv' = [sv EXCEPT ![a] = e2]
    <2>1. \/ sv' = [sv EXCEPT ![a].diff = diff, ![a].pc = "env"]
          \/ sv' = [sv EXCEPT ![a].env = TRUE, ![a].pc = "check"]
      BY DEF ServerOptions, ServerEnv
    <2> HIDE DEF diff
    <2> QED BY <2>1, Entered DEF IsArray
  <1> HIDE DEF diff
  <1>3. /\ e1.alg = sv[a].alg /\ e1.version = sv[a].version /\ e1.transport = sv[a].transport
        /\ e1.uuid = sv[a].uuid /\ e1.port = sv[a].port /\ e1.user = sv[a].user
        /\ e2.alg = sv[a].alg /\ e2.version = sv[a].version /\ e2.transport = sv[a].transport
        /\ e2.uuid = sv[a].uuid /\ e2.port = sv[a].port /\ e2.user = sv[a].user
    BY ServerNow DEF ServerFields
  <1> HIDE DEF e1, e2
  <1>4. EndFits(e1) /\ EndFits(e2) /\ sv[a].pc \in Initialized
    BY <1>1, <1>3, ServerNow DEF EndFits, Initialized
  <1> QED BY <1>1, <1>2, <1>4, ServerNow, ServerStepFits

LEMMA ServerCheckFits ==
    ASSUME IInv, Fits, NEW a \in Attempts, ServerCheck(a) PROVE Fits'
  <1> DEFINE e == [sv[a] EXCEPT !.uuid = a, !.pc = "session"]
             frames == <<>>
             up == Tail(c2s[a])
  <1>1. /\ sv[a].pc \in {"options", "env", "check"} /\ c2s[a] # <<>>
        /\ c2s' = [c2s EXCEPT ![a] = up]
        /\ cl' = cl /\ setup' = setup /\ known' = known /\ registry' = registry /\ pool' = pool
    BY DEF ServerCheck, ServerReads, shared
  <1>2. ServerFails(a, frames) \/ sv' = [sv EXCEPT ![a] = e]
    <2>1. ServerFails(a, frames) \/ sv' = [sv EXCEPT ![a].uuid = a, ![a].pc = "session"]
      BY DEF ServerCheck
    <2> HIDE DEF frames
    <2> QED BY <2>1, Entered DEF IsArray
  <1>3. CASE ServerFails(a, frames)
    <2> HIDE DEF frames, up
    <2>1. up = c2s[a] \/ (c2s[a] # <<>> /\ up = Tail(c2s[a]))
      BY <1>1 DEF up
    <2> QED BY <1>1, <1>3, <2>1, ServerFailsFits
  <1>4. CASE sv' = [sv EXCEPT ![a] = e]
    <2>1. /\ e.alg = sv[a].alg /\ e.version = sv[a].version /\ e.transport = sv[a].transport
          /\ e.uuid = a /\ e.port = sv[a].port /\ e.user = sv[a].user
      BY ServerNow DEF ServerFields
    <2> HIDE DEF e
    <2>2. EndFits(e) /\ sv[a].pc \in Initialized
      BY <1>1, <2>1, ServerNow DEF EndFits, Initialized, IdOrNone
    <2> QED BY <1>1, <1>4, <2>2, ServerNow, ServerStepFits
  <1> QED BY <1>2, <1>3, <1>4

LEMMA ServerGivesUpFits ==
    ASSUME IInv, Fits, NEW a \in Attempts, ServerGivesUp(a) PROVE Fits'
  <1> DEFINE frames == <<>>
             up == Tail(c2s[a])
  <1>1. /\ ServerFails(a, frames) /\ c2s' = [c2s EXCEPT ![a] = up] /\ c2s[a] # <<>>
        /\ cl' = cl /\ setup' = setup /\ known' = known /\ registry' = registry /\ pool' = pool
    BY DEF ServerGivesUp, shared
  <1> HIDE DEF frames, up
  <1>2. up = c2s[a] \/ (c2s[a] # <<>> /\ up = Tail(c2s[a]))
    BY <1>1 DEF up
  <1> QED BY <1>1, <1>2, ServerFailsFits

(* A session that is not resumed is registered under the user.             *)
LEMMA ServerSessionFits ==
    ASSUME IInv, Fits, NEW a \in Attempts, ServerSession(a) PROVE Fits'
  <1> DEFINE resume == MayResume(a)
             session == IF resume THEN sv[a].requested ELSE a
             e == [sv[a] EXCEPT !.session = session, !.resume = resume, !.pc = "setup"]
  <1>1. /\ sv[a].pc = "session" /\ cl' = cl /\ setup' = setup /\ known' = known
        /\ pool' = pool /\ c2s' = c2s
        /\ resume => registry' = registry
        /\ ~resume => registry' = [t \in DOMAIN registry \cup {session} |->
                                      IF t = session THEN sv[a].user ELSE registry[t]]
    BY DEF ServerSession
  <1>2. sv' = [sv EXCEPT ![a] = e]
    <2>1. sv' = [sv EXCEPT ![a].session = session, ![a].resume = resume, ![a].pc = "setup"]
      BY DEF ServerSession
    <2> HIDE DEF session, resume
    <2> QED BY <2>1, Entered DEF IsArray
  <1>3. RegistryFits'
    <2>1. CASE resume
      BY <1>1, <2>1, ServerNow
    <2>2. CASE ~resume
      <3>1. registry' = [t \in DOMAIN registry \cup {a} |->
                            IF t = a THEN sv[a].user ELSE registry[t]]
        BY <1>1, <2>2
      <3>2. sv[a].user \in Users /\ RegistryFits
        BY <1>1, ServerNow DEF Initialized
      <3> QED BY <3>1, <3>2 DEF RegistryFits
    <2> QED BY <2>1, <2>2
  <1> HIDE DEF session, resume
  <1>4. /\ e.alg = sv[a].alg /\ e.version = sv[a].version /\ e.transport = sv[a].transport
        /\ e.uuid = sv[a].uuid /\ e.port = sv[a].port /\ e.user = sv[a].user
    BY ServerNow DEF ServerFields
  <1> HIDE DEF e
  <1>5. EndFits(e) /\ sv[a].pc \in Initialized
    BY <1>1, <1>4, ServerNow DEF EndFits, Initialized
  <1>6. pool' \subseteq Ports \cup {None}
    BY <1>1, ServerNow
  <1> QED BY <1>1, <1>2, <1>3, <1>5, <1>6, ReaderAlone, ServerStepFits

LEMMA ServerSetupFits ==
    ASSUME IInv, Fits, NEW a \in Attempts, ServerSetup(a) PROVE Fits'
  <1> DEFINE frames == <<>>
  <1>1. /\ sv[a].pc = "setup" /\ cl' = cl /\ setup' = setup /\ known' = known
        /\ registry' = registry /\ c2s' = c2s
    BY DEF ServerSetup
  <1>2. c2s' = [c2s EXCEPT ![a] = c2s[a]]
    BY <1>1, ReaderAlone
  <1>3. CASE ServerFails(a, frames) /\ pool' = pool
    <2> HIDE DEF frames
    <2> QED BY <1>1, <1>2, <1>3, ServerFailsFits
  <1>4. ASSUME NEW port \in pool, NEW to, pool' = pool \ {port},
               sv' = [sv EXCEPT ![a].port = port, ![a].pc = to]
        PROVE  Fits'
    <2> DEFINE e == [sv[a] EXCEPT !.port = port, !.pc = to]
    <2>1. sv' = [sv EXCEPT ![a] = e]
      BY <1>4, Entered DEF IsArray
    <2>2. /\ e.alg = sv[a].alg /\ e.version = sv[a].version /\ e.transport = sv[a].transport
          /\ e.uuid = sv[a].uuid /\ e.port = port /\ e.user = sv[a].user
      BY ServerNow DEF ServerFields
    <2> HIDE DEF e
    <2>3. EndFits(e) /\ sv[a].pc \in Initialized /\ pool' \subseteq Ports \cup {None}
      BY <1>1, <1>4, <2>2, ServerNow DEF EndFits, Initialized
    <2> QED BY <1>1, <1>2, <2>1, <2>3, ServerNow, ServerStepFits
  <1>5. \/ ServerFails(a, frames) /\ pool' = pool
        \/ \E port \in pool : \E to : /\ pool' = pool \ {port}
                                     /\ sv' = [sv EXCEPT ![a].port = port, ![a].pc = to]
    BY DEF ServerSetup
  <1> QED BY <1>3, <1>4, <1>5

(* A session's port is free again, that of a TCP session as port 0.        *)
LEMMA SessionEndsFits == ASSUME IInv, Fits, SessionEnds PROVE Fits'
  <1>1. /\ cl' = cl /\ sv' = sv /\ c2s' = c2s /\ setup' = setup /\ known' = known
    BY DEF SessionEnds
  <1>2. PICK a \in Attempts :
            /\ registry' = [t \in DOMAIN registry \ {sv[a].session} |-> registry[t]]
            /\ pool' = pool \cup {IF sv[a].transport = "Tcp" THEN 0 ELSE sv[a].port}
    BY DEF SessionEnds
  <1>3. EndFits(sv[a]) /\ RegistryFits /\ pool \subseteq Ports \cup {None}
    BY ServerNow
  <1>4. RegistryFits'
    BY <1>2, <1>3 DEF RegistryFits
  <1>5. pool' \subseteq Ports \cup {None}
    BY <1>2, <1>3 DEF EndFits, None
  <1>6. ProgramFits'
    BY <1>1, <1>4, <1>5 DEF Fits, ProgramFits
  <1> QED BY <1>1, <1>6 DEF Fits, EndFits, Algs, Versions

LEMMA NextFits == IInv /\ Fits /\ [Next]_vars => Fits'
  <1> SUFFICES ASSUME IInv, Fits, [Next]_vars PROVE Fits'
    OBVIOUS
  <1>1. CASE UNCHANGED vars
    BY <1>1 DEF vars, Fits, ProgramFits, RegistryFits, EndFits, Algs, Versions
  <1>2. CASE SessionEnds
    BY <1>2, SessionEndsFits
  <1>3. ASSUME NEW a \in Attempts,
               \/ StartAttempt(a) \/ MainEnds(a) \/ DataPortBlocked(a) \/ KexTimeout(a)
               \/ ConnectionBreaks(a) \/ ClientCloses(a)
        PROVE  Fits'
    BY <1>3, StartAttemptFits, MainTaskFits, ConnectionFits
  <1>4. ASSUME NEW a \in Attempts, ClientStep(a) \/ Answer(a), ~ClientCloses(a) PROVE Fits'
    <2>1. CASE ReadKexInit(a) \/ ReadTransportPreference(a) \/ AskAboutHost(a)
      BY <2>1, ReadKexInitFits, ReadTransportPreferenceFits, AskAboutHostFits
    <2>2. CASE ReadPeerInitialize(a) \/ AcceptHost(a)
      BY <2>2, HostAnswersFit
    <2>3. CASE ReadKeyAgreement(a) \/ ReadSessionToken(a) \/ ReadMoshpitsAddr(a)
      BY <2>3, ReadKeyAgreementFits, ReadSessionTokenFits, ReadMoshpitsAddrFits
    <2>4. ASSUME NEW pc \in {"kexinit", "transport", "peerinit", "agreement", "token", "addr"},
                 RejectHost(a) \/ ServerRefuses(a) \/ ReadFails(a, pc)
          PROVE  Fits'
      BY <2>4, ReaderErrorFits
    <2> QED BY <1>4, <2>1, <2>2, <2>3, <2>4 DEF ClientStep, Answer
  <1>5. ASSUME NEW a \in Attempts, ServerStep(a) PROVE Fits'
    BY <1>5, ServerKexInitFits, ServerTransportFits, ServerInitializeFits, ServerProofFits,
       ServerOptionsFits, ServerCheckFits, ServerSessionFits, ServerSetupFits, ServerGivesUpFits
       DEF ServerStep
  <1> QED BY <1>1, <1>2, <1>3, <1>4, <1>5 DEF Next

LEMMA FitsAtFirst == Init => Fits
  <1> SUFFICES ASSUME Init PROVE Fits
    OBVIOUS
  <1>1. /\ setup \in Setups /\ known = setup.host /\ pool = Ports
        /\ setup.host \in {"unknown", "same", "other", "unchecked"}
    BY KexAssumption DEF Init, SetupType
  <1>2. RegistryFits
    BY DEF Init, RegistryFits
  <1>3. ASSUME NEW a \in Attempts
        PROVE  cl[a] = NewClient /\ sv[a] = NewServer /\ c2s[a] = <<>>
    BY DEF Init
  <1>4. EndFits(NewClient) /\ EndFits(NewServer)
    BY DEF EndFits, NewClient, NewServer, Algs, Versions, Transports, IdOrNone
  <1>5. MachineFits(NewClient)
    BY DEF MachineFits, NewClient, Mains
  <1>6. LogsIn(NewClient, NewServer, <<>>)
    BY NoFrame DEF LogsIn, NewClient, NewServer, Initialized
  <1> QED BY <1>1, <1>2, <1>3, <1>4, <1>5, <1>6 DEF Fits, ProgramFits

(* The variables of the two ends and of the server keep their types, over  *)
(* all attempts, failures and sessions (libmoshpit/src/kex).               *)
THEOREM TypeCorrect == Spec => []TypeOK
  <1>1. IInv /\ Fits => TypeOK
    <2> SUFFICES ASSUME IInv, Fits PROVE TypeOK
      OBVIOUS
    <2>1. /\ setup \in Setups /\ known \in {"unknown", "same", "other", "unchecked"}
          /\ pool \subseteq Ports \cup {0}
          /\ registry \in [DOMAIN registry -> Users] /\ DOMAIN registry \subseteq Attempts
      BY DEF Fits, ProgramFits, RegistryFits, None
    <2>2. Begun \cup {None} \subseteq IdOrNone /\ uuid_file \in Begun \cup {None}
      BY DEF Begun, IdOrNone, IInv, IdsBegun
    <2>3. ASSUME NEW a \in Attempts
          PROVE  /\ EndFits(cl[a]) /\ EndFits(sv[a]) /\ MachineFits(cl[a])
                 /\ cl[a].pc \in ReaderPcs /\ sv[a].pc \in ServerPcs
                 /\ {cl[a].requested, cl[a].session, sv[a].requested, sv[a].session}
                        \subseteq IdOrNone
      BY <2>2, Entered DEF Fits, Counts, ServerHolds
    <2> QED BY <2>1, <2>2, <2>3, EventNames
            DEF TypeOK, EndFits, MachineFits, Mains, ReaderPcs, ServerPcs
  <1> QED BY <1>1, FitsAtFirst, NextFits, Invariant, PTL DEF Spec

-----------------------------------------------------------------------------
(***************************************************************************)
(* Where the settings and the identity of the client come from (KeyFiles): *)
(* the strongest source wins, by both of the ways that lead to it, from    *)
(* the step that loads the settings to the one that uses them; and a       *)
(* client that exchanged keys once reconnects without the user.            *)
(***************************************************************************)
Program == IF command = "serve" THEN "mps" ELSE "mp"
Early == {"start", "loaded", "listed", "serving"}
IdentityFields == {"pc", "paths", "public", "private", "compared", "signing",
                 "passCache", "exchanged"}

(* What the user can have set where.                                       *)
Settable ==
    /\ given["config file"] \subseteq Settings(Program)
    /\ given["command line"] \subseteq Flags(Program)
    /\ given["environment"] \subseteq Variables(Program)

Loading ==
    /\ IdentityFields \subseteq DOMAIN client
    /\ client.pc = "start" => Settable /\ rows = NoSettings
    /\ Precedence

(* An argument reaches the merged settings if and only if it was typed.    *)
LEMMA CollectsTyped == Collect(given) = given["command line"]
  BY DEF Collect, BuildAlgoTable, ExplicitArgs, Parsed

LEMMA LoadsStrongest ==
    ASSUME NEW program
    PROVE  Load(program, given) = [f \in Settings(program) |-> Strongest(f)]
  <1> DEFINE L == Layers(given)
             one == Overlay(NoSettings, L[1])
             two == Overlay(one, L[2])
             three == Overlay(two, L[3])
  <1>1. /\ L[1].fields = given["config file"] /\ L[1].source = "config file"
        /\ L[2].fields = given["command line"] /\ L[2].source = "command line"
        /\ L[3].fields = given["environment"] /\ L[3].source = "environment"
    BY CollectsTyped DEF Layers
  <1> HIDE DEF L
  <1>2. one = [f \in given["config file"] |-> "config file"]
    BY <1>1 DEF Overlay, NoSettings
  <1> HIDE DEF one
  <1>3. two = [f \in given["config file"] \cup given["command line"] |->
                  IF f \in given["command line"] THEN "command line" ELSE "config file"]
    BY <1>1, <1>2 DEF Overlay
  <1> HIDE DEF two
  <1>4. /\ DOMAIN three = given["config file"] \cup given["command line"] \cup given["environment"]
        /\ \A f \in DOMAIN three : three[f] = Strongest(f)
    BY <1>1, <1>3 DEF Overlay, Strongest
  <1>5. Load(program, given) =
          [f \in Settings(program) |-> IF f \in DOMAIN three THEN three[f] ELSE "default"]
    BY Zenon DEF Load, three, two, one, L
  <1> HIDE DEF three
  <1>6. \A f : f \notin DOMAIN three => Strongest(f) = "default"
    BY <1>4 DEF Strongest
  <1> QED BY <1>4, <1>5, <1>6

(* The second way to the source of a setting comes to the same.            *)
LEMMA ListsStrongest ==
    ASSUME Settable, Program = "mp", NEW f \in Fields \ {"transport"}
    PROVE  LET row == ResolveEffective(given, Load("mp", given))[f]
           IN  row.value = Strongest(f) /\ row.source = Strongest(f)
  <1> DEFINE loaded == Load("mp", given)
             row == Row(given, loaded, f)
  <1>1. loaded = [g \in Fields |-> Strongest(g)]
    BY LoadsStrongest DEF Settings, ClientSettings
  <1>2. ResolveEffective(given, loaded)[f] = row
    BY DEF ResolveEffective
  <1> HIDE DEF loaded
  <1>3. row.value = Strongest(f)
    BY <1>1 DEF Row, PreferredAlgorithms
  <1>4. /\ f \in given["environment"] => f \in Variables("mp")
        /\ f \in given["command line"] => f \in ClientFlags
    BY DEF Settable, Flags
  <1>5. row.source = Strongest(f)
    BY <1>4 DEF Row, ExplicitArgs, TomlKeys, Classify, Strongest
  <1> HIDE DEF row
  <1> QED BY <1>2, <1>3, <1>5 DEF loaded

LEMMA LoadingAtFirst == ASSUME StartupInit PROVE Loading
  <1>1. PICK f \in SUBSET Settings(Program), c \in SUBSET Flags(Program),
             e \in SUBSET Variables(Program) :
                given = [s \in Sources |-> CASE s = "config file" -> f
                                                     [] s = "command line" -> c
                                                     [] s = "environment" -> e]
    BY DEF StartupInit, Program
  <1>2. Settable
    BY <1>1 DEF Settable, Sources
  <1>3. client.pc = "start" /\ IdentityFields \subseteq DOMAIN client
        /\ rows = NoSettings
    BY DEF StartupInit, IdentityFields
  <1> QED BY <1>2, <1>3 DEF Loading, Precedence

(* The step that loads the settings.                                       *)
LEMMA LoadingLoads ==
    ASSUME Loading, ServerStarts \/ ShowEffective \/ ClientLoads
    PROVE  Loading'
  <1>1. /\ client.pc = "start" /\ UNCHANGED <<command, given>>
        /\ \E to \in {"failed", "serving", "listed", "loaded"} : client' = [client EXCEPT !.pc = to]
    BY DEF ServerStarts, ShowEffective, ClientLoads
  <1>2. /\ IdentityFields \subseteq DOMAIN client'
        /\ client'.pc \in {"failed", "serving", "listed", "loaded"}
    BY <1>1 DEF Loading
  <1>3. Settable /\ rows = NoSettings
    BY <1>1 DEF Loading
  <1>4. \A f : Strongest(f)' = Strongest(f)
    BY <1>1 DEF Strongest
  <1>5. ASSUME client'.pc # "failed" PROVE \A f \in DOMAIN config' : config'[f] = Strongest(f)
    <2>1. \E program : config' = Load(program, given)
      BY <1>1, <1>5 DEF ServerStarts, ShowEffective, ClientLoads, Loading, IdentityFields
    <2> QED BY <2>1, LoadsStrongest
  <1>6. \A f \in DOMAIN rows' : {rows'[f].value, rows'[f].source} = {Strongest(f)}
    <2>1. CASE UNCHANGED rows
      BY <2>1, <1>3 DEF NoSettings
    <2>2. CASE ShowEffective
      <3>1. rows' = ResolveEffective(given, Load("mp", given)) /\ Program = "mp"
        BY <2>2 DEF ShowEffective, Program
      <3>2. DOMAIN rows' = Fields \ {"transport"}
        BY <3>1 DEF ResolveEffective
      <3> QED BY <3>1, <3>2, <1>3, ListsStrongest
    <2> QED BY <2>1, <2>2 DEF ServerStarts, ClientLoads
  <1>7. Precedence'
    BY <1>2, <1>4, <1>5, <1>6 DEF Precedence
  <1> QED BY <1>2, <1>7 DEF Loading

(* A step of mp after that, with the settings used up.                     *)
LEMMA ClientGoesOn ==
    ASSUME Loading,
           IdentityFields \subseteq DOMAIN client', client'.pc \notin Early
    PROVE  Loading'
  BY DEF Loading, Early, Precedence

LEMMA StepTo ==
    ASSUME Loading, NEW from, NEW to, MpStep(from, to), to \notin Early
    PROVE  Loading'
  <1>1. /\ IdentityFields \subseteq DOMAIN client'
        /\ client'.pc = to
    BY DEF Loading, MpStep
  <1> QED BY <1>1, ClientGoesOn

LEMMA LooksLoad ==
    ASSUME Loading,
           \/ LookForPrivate \/ LookForPublic \/ AnswerGenerate
           \/ ClientWrites \/ (\E text : CheckSettings(text))
           \/ UseAgent \/ FindPrivate
    PROVE  Loading'
  <1>1. \E from : \E to \in {"check public", "ask", "settings", "open private", "write private",
                             "open public", "write public", "failed", "identity", "agent",
                             "read private"} : MpStep(from, to)
    BY Zenon DEF LookForPrivate, LookForPublic, AnswerGenerate,
              ClientWrites, CheckSettings, UseAgent, FindPrivate
  <1> QED BY <1>1, StepTo DEF Early

LEMMA ReadsLoad ==
    ASSUME Loading,
           \/ ResolveKeyPaths \/ ReadPublic \/ ReadPrivate
           \/ (\E typed : AskPassphrase(typed)) \/ ReadWithPassphrase \/ ComparePair
           \/ (\E succeeded : Reconnect(succeeded)) \/ PromptFails
           \/ Interrupt \/ StartAgain
    PROVE  Loading'
  <1>1. /\ IdentityFields \subseteq DOMAIN client'
        /\ client'.pc \notin Early
    <2> USE DEF Loading, Early, IdentityFields
    <2>1. CASE ResolveKeyPaths \/ ReadPublic
      BY <2>1 DEF ResolveKeyPaths, ReadPublic
    <2>2. CASE ReadPrivate \/ ReadWithPassphrase
      <3>1. \/ \E to \in {"passphrase", "failed"} : client' = [client EXCEPT !.pc = to]
            \/ \E key : client' = Loaded(key)
        BY <2>2 DEF ReadPrivate, ReadWithPassphrase
      <3> QED BY <3>1 DEF Loaded
    <2>3. CASE (\E typed : AskPassphrase(typed)) \/ ComparePair
      BY <2>3 DEF AskPassphrase, ComparePair
    <2>4. CASE (\E succeeded : Reconnect(succeeded)) \/ PromptFails
      BY <2>4 DEF Reconnect, PromptFails, Retry
    <2>5. CASE Interrupt \/ StartAgain
      BY <2>5 DEF Interrupt, StartAgain
    <2> QED BY <2>1, <2>2, <2>3, <2>4, <2>5
  <1> QED BY <1>1, ClientGoesOn

LEMMA LoadingGoesOn == ASSUME Loading, [StartupNext]_startupVars PROVE Loading'
  <1>1. CASE UNCHANGED <<command, given, config, rows, client>>
    BY <1>1 DEF Loading, Settable, Program, Precedence, Strongest
  <1>2. CASE \/ \E pair, force : KeygenStarts(pair, force)
             \/ KeygenChecks
             \/ \E yes : AnswerOverwrite(yes)
             \/ \E server, passphrase : Generate(server, passphrase)
             \/ KeygenWrites \/ KeygenKilled
             \/ UNCHANGED startupVars
    <2>1. UNCHANGED <<command, given, config, rows, client>>
      BY <1>2 DEF KeygenStarts, KeygenChecks, AnswerOverwrite,
                  Generate, KeygenWrites, KeygenKilled, Others,
                  startup, startupVars
    <2> QED BY <2>1, <1>1
  <1> QED BY <1>2, LoadingLoads, LooksLoad, ReadsLoad, Zenon DEF StartupNext

(* Every setting has the value of the strongest source that sets it, and   *)
(* is listed with that source, for any fields.                             *)
THEOREM PrecedenceHolds == StartupSpec => []Precedence
  <1>1. StartupInit => Loading
    BY LoadingAtFirst
  <1>2. Loading /\ [StartupNext]_startupVars => Loading'
    BY LoadingGoesOn
  <1>3. Loading => Precedence
    BY DEF Loading
  <1> QED BY <1>1, <1>2, <1>3, PTL DEF StartupSpec

(* What is under way, step by step.  A key that was loaded opens with what *)
(* is cached.  While untouched, the files hold one key, it opens with what *)
(* is cached, and whatever half of it is loaded is that key.               *)
Opens(key) ==
    \/ PassphraseOf(key) = NoPassphrase
    \/ client.passCache # Uncached /\ PassphraseOf(key) = client.passCache

Prompting == {"passphrase", "read with passphrase"}
Identifying == {"find private", "read private", "compare", "connected"} \cup Prompting

Loads ==
    /\ IdentityFields \subseteq DOMAIN client
    /\ client.pc \in Identifying => client.public \notin {Absent, Torn, Error}
    /\ client.pc = "read with passphrase" => client.passCache # Uncached
    /\ client.pc = "compare" => Opens(client.private) /\ ~client.compared
    /\ client.pc = "connected" \/ client.compared =>
           client.private = client.public /\ Opens(client.private)
    /\ client.compared => client.pc \in {"read private", "connected", "stopped", "failed"} \cup Prompting

Steady(key) ==
    /\ key \notin {Absent, Torn, Error} /\ Holds(key) /\ Opens(key)
    /\ client.exchanged
    /\ client.pc \in Identifying \cup {"identity", "agent", "stopped"}
    /\ client.pc \in Identifying => client.public = key
    /\ client.pc = "compare" => client.private = key
    /\ client.pc \in Prompting => client.passCache # Uncached

Silently == Loads /\ (untouched => \E key : Steady(key))

LEMMA SilentlyAtFirst == ASSUME StartupInit PROVE Silently
  BY DEF StartupInit, Silently, Loads, Identifying, Prompting, IdentityFields

(* Steps of another program, or before the settings are used: what mp      *)
(* holds stays, and so does untouched, or the files of mp do not change.   *)
LEMMA OthersSilent ==
    ASSUME Silently, UNCHANGED client, untouched' => untouched,
           untouched' => \A f \in ClientFiles : files'[f] = files[f]
    PROVE  Silently'
  <1>1. Loads'
    BY DEF Silently, Loads, Opens
  <1>2. ASSUME untouched' PROVE \E key : Steady(key)'
    <2>1. PICK key : Steady(key)
      BY <1>2 DEF Silently
    <2>2. Holds(key)'
      BY <1>2, <2>1 DEF Steady, Holds, ClientFiles
    <2> QED BY <2>1, <2>2 DEF Steady, Opens
  <1> QED BY <1>1, <1>2 DEF Silently

(* A step of mp that changes nothing but where it stands, and leaves the   *)
(* loading of the identity aside.                                          *)
LEMMA MovesSilent ==
    ASSUME Silently, NEW from, NEW to, MpStep(from, to), UNCHANGED untouched,
           \/ /\ from \notin Identifying \cup {"identity", "agent", "stopped", "failed"}
              /\ to \notin Identifying
           \/ from = "identity" /\ to = "agent" /\ UNCHANGED files
           \/ from = "find private" /\ to = "read private" /\ UNCHANGED files
    PROVE  Silently'
  <1>1. client.pc = from /\ client' = [client EXCEPT !.pc = to]
    BY DEF MpStep
  <1>2. /\ client'.pc = to /\ IdentityFields \subseteq DOMAIN client'
        /\ \A f \in IdentityFields \ {"pc"} : client'[f] = client[f]
    BY <1>1 DEF Silently, Loads, IdentityFields
  <1>3. /\ client'.paths = client.paths /\ client'.public = client.public
        /\ client'.private = client.private /\ client'.compared = client.compared
        /\ client'.passCache = client.passCache /\ client'.exchanged = client.exchanged
    BY <1>2 DEF IdentityFields
  <1> HIDE DEF IdentityFields
  <1>4. ~client.compared
    BY <1>1 DEF Silently, Loads, Identifying, Prompting
  <1>5. Loads'
    BY <1>1, <1>2, <1>3, <1>4 DEF Silently, Loads, Identifying, Prompting
  <1>6. ASSUME untouched' PROVE \E key : Steady(key)'
    <2>1. PICK key : Steady(key)
      BY <1>6 DEF Silently
    <2>2. from \in {"identity", "find private"}
      BY <2>1, <1>1 DEF Steady
    <2>3. Holds(key)'
      BY <2>1, <2>2, <1>3 DEF Steady, Holds, ClientFiles, Identifying, Prompting
    <2>4. Opens(key)'
      BY <2>1, <1>3 DEF Steady, Opens
    <2> QED BY <2>1, <2>2, <2>3, <2>4, <1>1, <1>2, <1>3 DEF Steady, Identifying, Prompting
  <1> QED BY <1>5, <1>6 DEF Silently

(* A step of mp that loads the identity: the disk, the paths and what was  *)
(* exchanged stay, and so do the other fields that to does not give.       *)
LEMMA FilesStay ==
    ASSUME NEW key, Steady(key), UNCHANGED files, client'.paths = client.paths
    PROVE  Holds(key)' /\ files[Private(client.paths.private)] = key
           /\ files[Public(client.paths.public)] = key
  BY DEF Steady, Holds, ClientFiles

LEMMA ReadsPublicSilent == ASSUME Silently, ReadPublic PROVE Silently'
  <1> DEFINE key == LoadPublicKey(files[Public(client.paths.public)])
  <1>1. /\ client.pc = "identity" /\ UNCHANGED <<files, untouched>>
        /\ client' = IF key = Error THEN [client EXCEPT !.pc = "failed"]
                     ELSE [client EXCEPT !.pc = "find private", !.public = key]
    BY DEF ReadPublic, Elsewhere
  <1>2. key = Error \/ key \notin {Absent, Torn}
    BY DEF LoadPublicKey
  <1>3. \A k : Steady(k) => key = k /\ key # Error
    BY DEF Steady, Holds, ClientFiles, LoadPublicKey
  <1> HIDE DEF key
  <1>4. IdentityFields \subseteq DOMAIN client /\ ~client.compared
    BY <1>1 DEF Silently, Loads, Identifying, Prompting
  <1>5. /\ IdentityFields \subseteq DOMAIN client'
        /\ client'.paths = client.paths /\ client'.private = client.private
        /\ client'.compared = client.compared
        /\ client'.passCache = client.passCache /\ client'.exchanged = client.exchanged
        /\ client'.pc = IF key = Error THEN "failed" ELSE "find private"
        /\ key # Error => client'.public = key
    BY <1>1, <1>4 DEF IdentityFields
  <1>6. Loads'
    BY <1>2, <1>4, <1>5 DEF Loads, Identifying, Prompting
  <1>7. ASSUME NEW k, Steady(k) PROVE Steady(k)'
    <2>1. Holds(k)' /\ Opens(k)'
      BY <1>1, <1>5, <1>7, FilesStay DEF Steady, Opens
    <2> QED BY <1>3, <1>5, <1>7, <2>1 DEF Steady, Identifying, Prompting
  <1> QED BY <1>1, <1>6, <1>7 DEF Silently

(* The private key is loaded: for the comparison, or after it.             *)
LEMMA LoadedSilent ==
    ASSUME Silently, client.pc \in {"read private", "read with passphrase"},
           files' = files, untouched' = untouched
    PROVE  \A key : /\ client' = Loaded(key) /\ Opens(key)
                    /\ \A k : Steady(k) => key = k
                    => Silently'
  <1> SUFFICES ASSUME NEW key, client' = Loaded(key), Opens(key), \A k : Steady(k) => key = k
               PROVE  Silently'
    OBVIOUS
  <1>1. IdentityFields \subseteq DOMAIN client
    BY DEF Silently, Loads
  <1>2. /\ IdentityFields \subseteq DOMAIN client'
        /\ client'.paths = client.paths /\ client'.public = client.public
        /\ client'.compared = client.compared
        /\ client'.passCache = client.passCache /\ client'.exchanged = client.exchanged
        /\ client'.pc = IF client.compared THEN "connected" ELSE "compare"
        /\ client'.private = IF client.compared THEN client.private ELSE key
    BY <1>1 DEF Loaded, IdentityFields
  <1>3. \A k : Opens(k) => Opens(k)'
    BY <1>2 DEF Opens
  <1>4. Loads'
    BY <1>2, <1>3 DEF Silently, Loads, Identifying, Prompting
  <1>5. ASSUME NEW k, Steady(k) PROVE Steady(k)'
    <2>1. Holds(k)' /\ Opens(k)'
      BY <1>2, <1>3, <1>5, FilesStay DEF Steady
    <2>2. client.public = k /\ client.pc \in Identifying
      BY <1>5 DEF Steady, Identifying, Prompting
    <2> QED BY <1>2, <1>5, <2>1, <2>2 DEF Steady, Identifying, Prompting
  <1> QED BY <1>4, <1>5 DEF Silently

LEMMA ReadsSilent == ASSUME Silently, ReadPrivate \/ ReadWithPassphrase PROVE Silently'
  <1>1. CASE ReadPrivate
    <2> DEFINE key == LoadIdentityKey(files[Private(client.paths.private)], NoPassphrase)
    <2>1. /\ client.pc = "read private" /\ UNCHANGED <<files, untouched>>
          /\ client' = IF key = Error THEN [client EXCEPT !.pc = "passphrase"] ELSE Loaded(key)
      BY <1>1 DEF ReadPrivate, Elsewhere
    <2>2. key # Error => Opens(key)
      BY DEF LoadIdentityKey, Opens
    <2>3. \A k : Steady(k) =>
              IF key = Error THEN client.passCache # Uncached ELSE key = k
      BY DEF Steady, Holds, ClientFiles, LoadIdentityKey, Opens
    <2> HIDE DEF key
    <2>4. CASE key # Error
      <3>1. PICK loaded : loaded = key
        OBVIOUS
      <3>2. /\ client.pc \in {"read private", "read with passphrase"}
            /\ client' = Loaded(loaded) /\ Opens(loaded)
            /\ files' = files /\ untouched' = untouched
            /\ \A k : Steady(k) => loaded = k
        BY <2>1, <2>2, <2>3, <2>4, <3>1
      <3> QED BY <3>2, LoadedSilent
    <2>5. CASE key = Error
      <3>1. IdentityFields \subseteq DOMAIN client
        BY DEF Silently, Loads
      <3>2. /\ IdentityFields \subseteq DOMAIN client' /\ client'.pc = "passphrase"
            /\ client'.paths = client.paths /\ client'.public = client.public
            /\ client'.private = client.private /\ client'.compared = client.compared
            /\ client'.passCache = client.passCache /\ client'.exchanged = client.exchanged
        BY <2>1, <2>5, <3>1 DEF IdentityFields
      <3>3. Loads'
        BY <2>1, <3>2 DEF Silently, Loads, Identifying, Prompting, Opens
      <3>4. ASSUME NEW k, Steady(k) PROVE Steady(k)'
        <4>1. Holds(k)' /\ Opens(k)'
          BY <2>1, <3>2, <3>4, FilesStay DEF Steady, Opens
        <4> QED BY <2>1, <2>3, <2>5, <3>2, <3>4, <4>1 DEF Steady, Identifying, Prompting
      <3> QED BY <2>1, <3>3, <3>4 DEF Silently
    <2> QED BY <2>4, <2>5
  <1>2. CASE ReadWithPassphrase
    <2> DEFINE key == LoadIdentityKey(files[Private(client.paths.private)], client.passCache)
    <2>1. /\ client.pc = "read with passphrase" /\ UNCHANGED <<files, untouched>>
          /\ client' = IF key = Error THEN [client EXCEPT !.pc = "failed"] ELSE Loaded(key)
      BY <1>2 DEF ReadWithPassphrase, Elsewhere
    <2>2. key # Error => Opens(key)
      BY <2>1 DEF LoadIdentityKey, Opens, Silently, Loads
    <2>3. \A k : Steady(k) => key = k /\ key # Error
      BY DEF Steady, Holds, ClientFiles, LoadIdentityKey, Opens
    <2> HIDE DEF key
    <2>4. CASE key # Error
      <3>1. PICK loaded : loaded = key
        OBVIOUS
      <3>2. /\ client.pc \in {"read private", "read with passphrase"}
            /\ client' = Loaded(loaded) /\ Opens(loaded)
            /\ files' = files /\ untouched' = untouched
            /\ \A k : Steady(k) => loaded = k
        BY <2>1, <2>2, <2>3, <2>4, <3>1
      <3> QED BY <3>2, LoadedSilent
    <2>5. CASE key = Error
      <3>1. IdentityFields \subseteq DOMAIN client
        BY DEF Silently, Loads
      <3>2. /\ IdentityFields \subseteq DOMAIN client' /\ client'.pc = "failed"
            /\ client'.private = client.private /\ client'.compared = client.compared
            /\ client'.public = client.public /\ client'.passCache = client.passCache
        BY <2>1, <2>5, <3>1 DEF IdentityFields
      <3> QED BY <2>1, <2>3, <2>5, <3>2 DEF Silently, Loads, Identifying, Prompting, Opens
    <2> QED BY <2>4, <2>5
  <1> QED BY <1>1, <1>2

LEMMA AsksSilent ==
    ASSUME Silently, NEW typed \in Origins \cup {"client's", "keygen's"}, AskPassphrase(typed)
    PROVE  Silently'
  <1>1. /\ client.pc = "passphrase" /\ UNCHANGED <<files, untouched>>
        /\ IdentityFields \subseteq DOMAIN client
    BY DEF AskPassphrase, Elsewhere, Silently, Loads
  <1>2. /\ IdentityFields \subseteq DOMAIN client' /\ client'.pc = "read with passphrase"
        /\ client'.paths = client.paths /\ client'.public = client.public
        /\ client'.private = client.private /\ client'.compared = client.compared
        /\ client'.exchanged = client.exchanged
        /\ client'.passCache = IF client.passCache = Uncached THEN typed ELSE client.passCache
    BY <1>1 DEF AskPassphrase, IdentityFields
  <1>3. client'.passCache # Uncached
    BY <1>2 DEF Origins, Sources, Uncached
  <1>4. \A k : Opens(k) => Opens(k)'
    BY <1>2 DEF Opens
  <1>5. Loads'
    BY <1>1, <1>2, <1>3, <1>4 DEF Silently, Loads, Identifying, Prompting
  <1>6. ASSUME NEW k, Steady(k) PROVE Steady(k)'
    <2>1. Holds(k)' /\ Opens(k)'
      BY <1>1, <1>2, <1>4, <1>6, FilesStay DEF Steady
    <2> QED BY <1>1, <1>2, <1>3, <1>6, <2>1 DEF Steady, Identifying, Prompting
  <1> QED BY <1>1, <1>5, <1>6 DEF Silently

LEMMA ComparesSilent == ASSUME Silently, ComparePair PROVE Silently'
  <1>1. /\ client.pc = "compare" /\ UNCHANGED <<files, untouched>>
        /\ IdentityFields \subseteq DOMAIN client
    BY DEF ComparePair, Elsewhere, Silently, Loads
  <1>2. /\ IdentityFields \subseteq DOMAIN client'
        /\ client'.paths = client.paths /\ client'.public = client.public
        /\ client'.private = client.private /\ client'.passCache = client.passCache
        /\ client'.exchanged = client.exchanged
        /\ client'.pc = IF client.private # client.public THEN "failed"
                        ELSE IF Unstable THEN "read private" ELSE "connected"
        /\ client'.compared = IF client.private = client.public /\ Unstable THEN TRUE
                              ELSE client.compared
    BY <1>1 DEF ComparePair, IdentityFields
  <1>3. \A k : Opens(k) => Opens(k)'
    BY <1>2 DEF Opens
  <1>4. Loads'
    BY <1>1, <1>2, <1>3 DEF Silently, Loads, Identifying, Prompting
  <1>5. ASSUME NEW k, Steady(k) PROVE Steady(k)'
    <2>1. Holds(k)' /\ Opens(k)'
      BY <1>1, <1>2, <1>3, <1>5, FilesStay DEF Steady
    <2> QED BY <1>1, <1>2, <1>5, <2>1 DEF Steady, Identifying, Prompting
  <1> QED BY <1>1, <1>4, <1>5 DEF Silently

LEMMA ReconnectsSilent ==
    ASSUME Silently, NEW succeeded \in BOOLEAN, Reconnect(succeeded) PROVE Silently'
  <1> DEFINE exchanged == client.exchanged \/ succeeded
  <1>1. /\ client.pc \in {"connected", "agent"} /\ UNCHANGED files
        /\ IdentityFields \subseteq DOMAIN client
        /\ untouched' = IF succeeded /\ client.pc = "connected" THEN Holds(client.public)
                        ELSE untouched
    BY DEF Reconnect, Silently, Loads
  <1>2. /\ IdentityFields \subseteq DOMAIN client' /\ client'.pc = "identity"
        /\ client'.paths = client.paths /\ client'.compared = FALSE
        /\ client'.exchanged = exchanged
        /\ client'.passCache = IF exchanged THEN client.passCache ELSE Uncached
    BY <1>1 DEF Reconnect, Retry, Forget, IdentityFields
  <1>3. Loads'
    BY <1>2 DEF Loads, Identifying, Prompting
  <1>4. ASSUME NEW key, key \notin {Absent, Torn, Error}, Holds(key), Opens(key), exchanged
        PROVE  Steady(key)'
    <2>1. Holds(key)' /\ Opens(key)'
      BY <1>1, <1>2, <1>4 DEF Holds, ClientFiles, Opens
    <2> QED BY <1>2, <1>4, <2>1 DEF Steady, Identifying, Prompting
  <1>5. ASSUME untouched' PROVE \E key : Steady(key)'
    <2>1. CASE succeeded /\ client.pc = "connected"
      <3>1. /\ Holds(client.public) /\ Opens(client.public)
            /\ client.public \notin {Absent, Torn, Error}
        BY <1>1, <1>5, <2>1 DEF Silently, Loads, Identifying
      <3> QED BY <2>1, <3>1, <1>4
    <2>2. CASE ~(succeeded /\ client.pc = "connected")
      <3>1. PICK key : Steady(key)
        BY <1>1, <1>5, <2>2 DEF Silently
      <3> QED BY <3>1, <1>4 DEF Steady
    <2> QED BY <2>1, <2>2
  <1> QED BY <1>3, <1>5 DEF Silently

LEMMA PromptsSilent == ASSUME Silently, PromptFails PROVE Silently'
  <1>1. client.pc = "passphrase" /\ client.passCache = Uncached /\ untouched' = untouched
        /\ IdentityFields \subseteq DOMAIN client /\ client' = Retry(client.exchanged)
    BY DEF PromptFails, Elsewhere, Silently, Loads
  <1>2. IdentityFields \subseteq DOMAIN client' /\ client'.pc = "identity" /\ ~client'.compared
    BY <1>1 DEF Retry, IdentityFields
  <1>3. ~untouched
    BY <1>1 DEF Silently, Steady, Prompting
  <1> QED BY <1>1, <1>2, <1>3 DEF Silently, Loads, Identifying, Prompting

LEMMA InterruptedSilent ==
    ASSUME Silently, ResolveKeyPaths \/ Interrupt \/ StartAgain PROVE Silently'
  <1>1. CASE ResolveKeyPaths \/ StartAgain
    <2>1. /\ client'.pc = "check private"
          /\ IdentityFields \subseteq DOMAIN client' /\ ~client'.compared
      BY <1>1 DEF ResolveKeyPaths, StartAgain, Silently, Loads, IdentityFields, Prompting
    <2>2. ~untouched'
      BY <1>1 DEF ResolveKeyPaths, StartAgain, Silently, Steady, Identifying, Prompting
    <2> QED BY <2>1, <2>2 DEF Silently, Loads, Identifying, Prompting
  <1>2. CASE Interrupt
    <2>1. /\ IdentityFields \subseteq DOMAIN client /\ UNCHANGED <<files, untouched>>
          /\ client' = [client EXCEPT !.pc = "stopped"]
      BY <1>2 DEF Interrupt, Elsewhere, Silently, Loads
    <2>2. /\ IdentityFields \subseteq DOMAIN client' /\ client'.pc = "stopped"
          /\ client'.paths = client.paths /\ client'.public = client.public
          /\ client'.private = client.private /\ client'.compared = client.compared
          /\ client'.passCache = client.passCache /\ client'.exchanged = client.exchanged
      BY <2>1 DEF IdentityFields
    <2>3. Loads'
      BY <2>2 DEF Silently, Loads, Identifying, Prompting, Opens
    <2>4. ASSUME NEW k, Steady(k) PROVE Steady(k)'
      <3>1. Holds(k)' /\ Opens(k)'
        BY <2>1, <2>2, <2>4, FilesStay DEF Steady, Opens
      <3> QED BY <2>2, <2>4, <3>1 DEF Steady, Identifying, Prompting
    <2> QED BY <2>1, <2>3, <2>4 DEF Silently
  <1> QED BY <1>1, <1>2

LEMMA LooksSilent ==
    ASSUME Silently,
           \/ ServerStarts \/ ShowEffective \/ ClientLoads \/ LookForPrivate \/ LookForPublic
           \/ AnswerGenerate \/ ClientWrites \/ (\E text : CheckSettings(text))
           \/ UseAgent \/ FindPrivate
    PROVE  Silently'
  <1>1. CASE UseAgent
    BY <1>1, MovesSilent DEF UseAgent, Elsewhere
  <1>2. CASE FindPrivate
    <2>1. CASE files[Private(client.paths.private)] # Absent
      BY <1>2, <2>1, MovesSilent DEF FindPrivate, Elsewhere
    <2>2. CASE files[Private(client.paths.private)] = Absent
      <3>1. /\ client.pc = "find private" /\ client' = [client EXCEPT !.pc = "failed"]
            /\ UNCHANGED untouched /\ IdentityFields \subseteq DOMAIN client
        BY <1>2, <2>2 DEF FindPrivate, MpStep, Elsewhere, Silently, Loads
      <3>2. ~untouched
        BY <2>2 DEF Silently, Steady, Holds, ClientFiles
      <3>3. /\ IdentityFields \subseteq DOMAIN client' /\ client'.pc = "failed"
            /\ client'.compared = client.compared
            /\ client'.private = client.private /\ client'.passCache = client.passCache
        BY <3>1 DEF IdentityFields
      <3> QED BY <3>1, <3>2, <3>3 DEF Silently, Loads, Identifying, Prompting, Opens
    <2> QED BY <2>1, <2>2
  <1>3. CASE \/ ServerStarts \/ ShowEffective \/ ClientLoads \/ LookForPrivate \/ LookForPublic
             \/ AnswerGenerate \/ ClientWrites \/ (\E text : CheckSettings(text))
    <2>1. UNCHANGED untouched
      BY <1>3 DEF ServerStarts, ShowEffective, ClientLoads, LookForPrivate, LookForPublic,
                  AnswerGenerate, ClientWrites, CheckSettings, Elsewhere
    <2>2. \E from \in {"start", "check private", "check public", "ask", "settings",
                       "open private", "write private", "open public", "write public"} :
          \E to \in {"failed", "serving", "listed", "loaded", "check public", "ask", "settings",
                     "open private", "write private", "open public", "write public",
                     "identity"} : MpStep(from, to)
      BY <1>3 DEF ServerStarts, ShowEffective, ClientLoads, LookForPrivate, LookForPublic,
                  AnswerGenerate, ClientWrites, CheckSettings, MpStep
    <2>3. PICK from \in {"start", "check private", "check public", "ask", "settings",
                         "open private", "write private", "open public", "write public"},
               to \in {"failed", "serving", "listed", "loaded", "check public", "ask", "settings",
                       "open private", "write private", "open public", "write public",
                       "identity"} : MpStep(from, to)
      BY <2>2
    <2>4. /\ from \notin Identifying \cup {"identity", "agent", "stopped", "failed"}
          /\ to \notin Identifying
      BY DEF Identifying, Prompting
    <2> QED BY <2>1, <2>3, <2>4, MovesSilent
  <1> QED BY <1>1, <1>2, <1>3

LEMMA KeygenSilent ==
    ASSUME Silently,
           \/ \E pair, force : KeygenStarts(pair, force)
           \/ KeygenChecks
           \/ \E yes : AnswerOverwrite(yes)
           \/ \E server, passphrase : Generate(server, passphrase)
           \/ KeygenWrites \/ KeygenKilled
    PROVE  Silently'
  <1>1. UNCHANGED client
    BY DEF KeygenStarts, KeygenChecks, AnswerOverwrite, Generate, KeygenWrites, KeygenKilled,
           Others
  <1>2. \/ UNCHANGED <<files, untouched>>
        \/ untouched' = (untouched /\ \A f \in ClientFiles : files'[f] = files[f])
    BY DEF KeygenStarts, KeygenChecks, AnswerOverwrite, Generate, KeygenWrites, KeygenKilled,
           NoWrite
  <1>3. /\ untouched' => untouched
        /\ untouched' => \A f \in ClientFiles : files'[f] = files[f]
    <2>1. CASE UNCHANGED <<files, untouched>>
      BY <2>1
    <2>2. CASE untouched' = (untouched /\ \A f \in ClientFiles : files'[f] = files[f])
      BY <2>2, Zenon
    <2> QED BY <1>2, <2>1, <2>2
  <1> QED BY <1>1, <1>3, OthersSilent, Zenon

LEMMA SilentlyGoesOn == ASSUME Silently, [StartupNext]_startupVars PROVE Silently'
  <1>1. CASE UNCHANGED startupVars
    BY <1>1, OthersSilent DEF startupVars
  <1>2. CASE \E typed \in Origins \cup {"client's", "keygen's"} : AskPassphrase(typed)
    BY <1>2, AsksSilent
  <1>3. CASE \E succeeded \in BOOLEAN : Reconnect(succeeded)
    BY <1>3, ReconnectsSilent
  <1> QED BY <1>1, <1>2, <1>3, LooksSilent, ReadsPublicSilent, ReadsSilent, ComparesSilent, PromptsSilent,
             InterruptedSilent, KeygenSilent, Zenon DEF StartupNext

(* A client that exchanged keys with the pair in its files needs neither   *)
(* the user nor luck to load it again, while nobody writes those files.    *)
THEOREM ReconnectsSilentlyHolds == StartupSpec => []ReconnectsSilently
  <1>1. StartupInit => Silently
    BY SilentlyAtFirst
  <1>2. Silently /\ [StartupNext]_startupVars => Silently'
    BY SilentlyGoesOn
  <1>3. Silently => ReconnectsSilently
    BY DEF Silently, Steady, ReconnectsSilently, Identifying, Prompting
  <1> QED BY <1>1, <1>2, <1>3, PTL DEF StartupSpec
=============================================================================
