----------------------------- MODULE AgentProofs -----------------------------
(***************************************************************************)
(* What a locked agent keeps, and what becomes of the keys it has          *)
(* acknowledged.  The second needs the most: as long as no start           *)
(* overlapped another there is one process, and while no save is lost to   *)
(* an Unlock the vault in its memory, the vault an Unlock has read and the *)
(* vault on disk, unless a save that failed has ruined it under a process  *)
(* that still runs, all have the acknowledged keys.                        *)
(***************************************************************************)
EXTENDS Agent, TLAPS

-----------------------------------------------------------------------------
(* The inductive invariant *)

Phases == {"off", "enrolled", "keyed", "checked", "spawned", "listening", "up"}

Fields == {"op", "on", "key", "word", "at", "read"}

IsMap(f) == f = [d \in Daemons |-> f[d]]

Shapes ==
    /\ phase \in [Daemons -> Phases]
    /\ IsMap(ident) /\ IsMap(vault) /\ IsMap(mp)
    /\ IsMap(locked) /\ IsMap(late) /\ IsMap(opened)
    /\ req = [h \in Handlers |-> req[h]]
    /\ \A h \in Handlers : DOMAIN req[h] = Fields

(* A request is one of a daemon that is up, and ends with it.              *)
Served(r) == r.op # "none" => r.on \in Daemons /\ phase[r.on] = "up"
Requests == \A h \in Handlers : Served(req[h])

Clean == ~excused /\ ~overlapped

(* The starts look for each other, so without an overlap there is one      *)
(* process (an enrolment looks only for the credential, which a start with *)
(* --passphrase-stdin did not need: it is excused); the one that is up has *)
(* the socket and the pid file.                                            *)
OneProcess ==
    /\ \A d, o \in Daemons : phase[d] # "off" /\ phase[o] # "off" => d = o
    /\ \A d \in Daemons : /\ Serving(d) => socket = d
                          /\ phase[d] = "up" => lock_file = d

(* An acknowledged key is wherever the next save takes its entries from.   *)
KeysKept ==
    /\ ~Ruined => acked \subseteq file.entries
    /\ acked # {} => file.state # "absent"
    /\ Ruined => \E d \in Daemons : Serving(d)
    /\ \A d \in Daemons : Serving(d) => acked \subseteq vault[d]
    /\ \A h \in Handlers : req[h].op = "unlock" /\ req[h].at \in {"map", "install"}
                            => acked \subseteq req[h].read

(* A start goes on with the secret of the credential on disk, and so does  *)
(* each save.                                                              *)
OneSecret ==
    /\ \A d \in Daemons :
        /\ phase[d] \notin {"off", "enrolled"} => state_file \notin {"absent", "torn"} /\ mp[d] = state_file
        /\ phase[d] = "enrolled" => state_file = "absent"
    /\ \A h \in Handlers : req[h].op = "add" /\ req[h].at \in {"map", "vault"}
                            => req[h].word = state_file
    /\ file.state = "whole" => state_file \notin {"absent", "torn"} /\ file.pass = state_file

(* An enrolment begins only where no credential is.                        *)
Credited ==
    /\ \A d \in Daemons : phase[d] = "enrolled" => mp[d] \in Credentials
    /\ backend = "fido2" /\ ~excused => \A d \in Daemons :
            phase[d] \notin {"off", "enrolled"} => state_file # "absent"

IInv ==
    /\ Shapes /\ Requests /\ LockedKeepsNoKey
    /\ Credited
    /\ Clean => OneProcess
    /\ Clean => KeysKept
    /\ Clean /\ backend = "fido2" => OneSecret

-----------------------------------------------------------------------------
(* How requests move *)

Apart(h) ==
    /\ req' = [o \in Handlers |-> req'[o]]
    /\ \A o \in Handlers : o # h => req'[o] = req[o]

Moved(h, place) ==
    /\ Apart(h) /\ DOMAIN req'[h] = Fields
    /\ req'[h].op = req[h].op /\ req'[h].on = req[h].on /\ req'[h].at = place

Left(h) == Apart(h) /\ req'[h] = NoRequest

(* A handler's step moves its own request to another place, or answers it. *)
LEMMA GoesMoves ==
    ASSUME Shapes, NEW h \in Handlers, NEW place, Goes(h, place)
    PROVE  /\ Moved(h, place) /\ req'[h].word = req[h].word /\ req'[h].read = req[h].read
  <1>1. DOMAIN req = Handlers /\ DOMAIN req[h] = Fields
    BY DEF Shapes
  <1>2. req' = [req EXCEPT ![h] = [req[h] EXCEPT !.at = place]]
    BY <1>1 DEF Goes
  <1>3. Apart(h) /\ req'[h] = [req[h] EXCEPT !.at = place]
    BY <1>1, <1>2 DEF Apart
  <1>4. {"op", "on", "word", "read", "at"} \subseteq DOMAIN req[h]
    BY <1>1 DEF Fields
  <1> QED BY <1>1, <1>3, <1>4 DEF Moved

LEMMA AnsweredLeaves ==
    ASSUME Shapes, NEW h \in Handlers, Answered(h)
    PROVE  Left(h)
  BY DEF Shapes, Answered, Left, Apart

LEMMA PassphraseTaken ==
    ASSUME Shapes, NEW h \in Handlers, AddTakesPassphrase(h)
    PROVE  Moved(h, "map") /\ req'[h].word = mp[req[h].on]
  <1>1. DOMAIN req = Handlers /\ DOMAIN req[h] = Fields
    BY DEF Shapes
  <1>2. {"op", "on", "word", "read", "at"} \subseteq DOMAIN req[h]
    BY <1>1 DEF Fields
  <1>3. req' = [req EXCEPT ![h].word = mp[req[h].on], ![h].at = "map"]
    BY DEF AddTakesPassphrase
  <1>4. Apart(h) /\ req'[h] = [[req[h] EXCEPT !.word = mp[req[h].on]] EXCEPT !.at = "map"]
    BY <1>1, <1>3 DEF Apart
  <1> QED BY <1>1, <1>2, <1>4 DEF Moved

LEMMA VaultRead ==
    ASSUME Shapes, NEW h \in Handlers,
           req' = [req EXCEPT ![h].at = "map", ![h].read = file.entries]
    PROVE  Moved(h, "map") /\ req'[h].read = file.entries
  <1>1. DOMAIN req = Handlers /\ DOMAIN req[h] = Fields
    BY DEF Shapes
  <1>2. {"op", "on", "word", "read", "at"} \subseteq DOMAIN req[h]
    BY <1>1 DEF Fields
  <1>4. Apart(h) /\ req'[h] = [[req[h] EXCEPT !.at = "map"] EXCEPT !.read = file.entries]
    BY <1>1 DEF Apart
  <1> QED BY <1>1, <1>2, <1>4 DEF Moved

HandlerMoves(h) ==
    /\ phase' = phase
    /\ \/ Left(h)
       \/ \E place : Moved(h, place)

LEMMA HandlerStepMoves ==
    ASSUME Shapes, NEW h \in Handlers, HandlerStep(h)
    PROVE  HandlerMoves(h)
  <1>1. ASSUME NEW place, Goes(h, place), phase' = phase PROVE HandlerMoves(h)
    BY <1>1, GoesMoves DEF HandlerMoves
  <1>2. ASSUME Answered(h), phase' = phase PROVE HandlerMoves(h)
    BY <1>2, AnsweredLeaves DEF HandlerMoves
  <1>3. CASE QueryAnswers(h) \/ StatusAnswers(h)
    BY <1>1, <1>2, <1>3 DEF QueryAnswers, StatusAnswers
  <1>4. CASE AddTakesPassphrase(h)
    <2>1. Moved(h, "map") /\ phase' = phase
      BY <1>4, PassphraseTaken DEF AddTakesPassphrase
    <2> QED BY <2>1 DEF HandlerMoves
  <1>5. CASE AddInserts(h) \/ AddFails(h) \/ AddSaves(h)
    BY <1>1, <1>2, <1>5 DEF AddInserts, AddFails, AddSaves
  <1>6. CASE RemoveTakes(h) \/ RemoveLocksVault(h) \/ RemoveSaves(h) \/ RemoveAll(h)
    BY <1>1, <1>2, <1>6 DEF RemoveTakes, RemoveLocksVault, RemoveSaves, RemoveAll
  <1>7. CASE LockSetsFlag(h) \/ LockClears(h)
    BY <1>1, <1>2, <1>7 DEF LockSetsFlag, LockClears
  <1>8. CASE UnlockStores(h) \/ UnlockFills(h) \/ UnlockInstalls(h) \/ UnlockClearsFlag(h)
    BY <1>1, <1>2, <1>8 DEF UnlockStores, UnlockFills, UnlockInstalls, UnlockClearsFlag
  <1>9. CASE UnlockReads(h)
    <2>1. phase' = phase
      BY <1>9 DEF UnlockReads
    <2>2. \/ Goes(h, "flag") \/ Answered(h)
          \/ req' = [req EXCEPT ![h].at = "map", ![h].read = file.entries]
      BY <1>9 DEF UnlockReads
    <2>3. CASE req' = [req EXCEPT ![h].at = "map", ![h].read = file.entries]
      <3>1. Moved(h, "map")
        BY <2>3, VaultRead
      <3> QED BY <2>1, <3>1 DEF HandlerMoves
    <2> QED BY <1>1, <1>2, <2>1, <2>2, <2>3
  <1> QED BY <1>3, <1>4, <1>5, <1>6, <1>7, <1>8, <1>9 DEF HandlerStep

(* The request of a connection that asks.                                  *)
LEMMA AskBrings ==
    ASSUME Shapes, NEW h \in Handlers, Ask(h)
    PROVE  /\ Apart(h) /\ DOMAIN req'[h] = Fields
           /\ req'[h].on = socket /\ socket \in Daemons /\ phase[socket] = "up"
           /\ \/ req'[h].op \in {"query", "status", "lock", "remove", "remove_all"}
              \/ req'[h].op \in {"add", "unlock"} /\ req'[h].at = "pass"
  <1>1. PICK r : /\ r \in    {Asked("add", "pass", k, "") : k \in Keys}
                       \cup {Asked("remove", "map", k, "") : k \in Keys}
                       \cup {Asked("remove_all", "map", None, ""), Asked("lock", "flag", None, "")}
                       \cup {Asked("unlock", "pass", None, word) : word \in Words}
                       \cup {Asked("query", "map", None, ""), Asked("status", "flag", None, "")}
                 /\ req' = [req EXCEPT ![h] = r]
    BY DEF Ask
  <1>2. PICK op, place, key, word :
           /\ r = Asked(op, place, key, word)
           /\ \/ op \in {"query", "status", "lock", "remove", "remove_all"}
              \/ op \in {"add", "unlock"} /\ place = "pass"
    BY <1>1
  <1>3. DOMAIN r = Fields /\ r.op = op /\ r.on = socket /\ r.at = place
    BY <1>2 DEF Asked, Fields
  <1>4. Apart(h) /\ req'[h] = r
    BY <1>1 DEF Shapes, Apart
  <1> QED BY <1>2, <1>3, <1>4 DEF Ask

(* The connections of a process that goes, and nobody else's.              *)
LEMMA GoneTakesRequests ==
    ASSUME Shapes, NEW d \in Daemons, Gone(d)
    PROVE  /\ req' = [h \in Handlers |-> req'[h]]
           /\ \A h \in Handlers : req'[h] = IF req[h].on = d THEN NoRequest ELSE req[h]
           /\ \A o \in Daemons : o # d => /\ phase'[o] = phase[o] /\ ident'[o] = ident[o]
                                          /\ vault'[o] = vault[o] /\ mp'[o] = mp[o]
                                          /\ locked'[o] = locked[o] /\ late'[o] = late[o]
           /\ phase'[d] = "off" /\ locked'[d] = FALSE
  BY DEF Gone, Shapes, IsMap

LEMMA NoRequestAsksNothing ==
    /\ DOMAIN NoRequest = Fields /\ NoRequest.op = "none" /\ NoRequest.on = None
    /\ NoRequest.at = "done"
  BY DEF NoRequest, Fields

-----------------------------------------------------------------------------
(* The shapes of the state, and whose the requests are *)

LEMMA MapsKept ==
    ASSUME Shapes, Next
    PROVE  /\ IsMap(ident') /\ IsMap(vault') /\ IsMap(mp')
           /\ IsMap(locked') /\ IsMap(late') /\ IsMap(opened')
  <1> USE DEF Shapes, IsMap, daemonVars, histVars
  <1>1. ASSUME NEW d \in Daemons, Gone(d)
        PROVE  /\ IsMap(ident') /\ IsMap(vault') /\ IsMap(mp')
               /\ IsMap(locked') /\ IsMap(late') /\ IsMap(opened')
    BY <1>1 DEF Gone
  <1>2. ASSUME NEW d \in Daemons, Enrol(d) \/ SaveCredential(d) \/ CrashInEnrol(d)
        PROVE  /\ IsMap(ident') /\ IsMap(vault') /\ IsMap(mp')
               /\ IsMap(locked') /\ IsMap(late') /\ IsMap(opened')
    <2>1. CASE CrashInEnrol(d)
      BY <1>1, <2>1 DEF CrashInEnrol
    <2>2. CASE SaveCredential(d)
      BY <2>2 DEF SaveCredential
    <2>3. CASE Enrol(d)
      BY <2>3 DEF Enrol
    <2> QED BY <1>2, <2>1, <2>2, <2>3
  <1>3. ASSUME NEW d \in Daemons, NEW word, StartChecks(d, word) \/ StartForeground(d, word)
        PROVE  /\ IsMap(ident') /\ IsMap(vault') /\ IsMap(mp')
               /\ IsMap(locked') /\ IsMap(late') /\ IsMap(opened')
    BY <1>3 DEF StartChecks, StartForeground
  <1>4. ASSUME NEW d \in Daemons, ParentSpawns(d) \/ ChildListens(d) \/ WritesPid(d)
        PROVE  /\ IsMap(ident') /\ IsMap(vault') /\ IsMap(mp')
               /\ IsMap(locked') /\ IsMap(late') /\ IsMap(opened')
    <2>1. CASE ChildListens(d)
      BY <2>1 DEF ChildListens
    <2> QED BY <1>4, <2>1 DEF ParentSpawns, WritesPid
  <1>5. ASSUME NEW d \in Daemons, Terminate(d) \/ Crash(d)
        PROVE  /\ IsMap(ident') /\ IsMap(vault') /\ IsMap(mp')
               /\ IsMap(locked') /\ IsMap(late') /\ IsMap(opened')
    BY <1>1, <1>5 DEF Terminate, Crash
  <1>6. ASSUME NEW h \in Handlers, CrashInSave(h) /\ req[h].on \in Daemons
        PROVE  /\ IsMap(ident') /\ IsMap(vault') /\ IsMap(mp')
               /\ IsMap(locked') /\ IsMap(late') /\ IsMap(opened')
    BY <1>1, <1>6 DEF CrashInSave
  <1>7. ASSUME NEW h \in Handlers, CrashInSave(h)
        PROVE  /\ IsMap(ident') /\ IsMap(vault') /\ IsMap(mp')
               /\ IsMap(locked') /\ IsMap(late') /\ IsMap(opened')
    BY <1>7 DEF CrashInSave, Gone
  <1>8. ASSUME NEW h \in Handlers, Ask(h)
        PROVE  /\ IsMap(ident') /\ IsMap(vault') /\ IsMap(mp')
               /\ IsMap(locked') /\ IsMap(late') /\ IsMap(opened')
    BY <1>8 DEF Ask
  <1>9. ASSUME NEW h \in Handlers, HandlerStep(h)
        PROVE  /\ IsMap(ident') /\ IsMap(vault') /\ IsMap(mp')
               /\ IsMap(locked') /\ IsMap(late') /\ IsMap(opened')
    <2>1. CASE QueryAnswers(h) \/ StatusAnswers(h)
      BY <2>1 DEF QueryAnswers, StatusAnswers
    <2>2. CASE AddTakesPassphrase(h) \/ AddInserts(h) \/ AddFails(h)
      BY <2>2 DEF AddTakesPassphrase, AddInserts, AddFails
    <2>3. CASE AddSaves(h)
      BY <2>3 DEF AddSaves
    <2>4. CASE RemoveTakes(h) \/ RemoveLocksVault(h) \/ RemoveSaves(h) \/ RemoveAll(h)
      BY <2>4 DEF RemoveTakes, RemoveLocksVault, RemoveSaves, RemoveAll
    <2>5. CASE LockSetsFlag(h) \/ LockClears(h)
      BY <2>5 DEF LockSetsFlag, LockClears
    <2>6. CASE UnlockStores(h) \/ UnlockReads(h) \/ UnlockFills(h)
      BY <2>6 DEF UnlockStores, UnlockReads, UnlockFills
    <2>7. CASE UnlockInstalls(h) \/ UnlockClearsFlag(h)
      BY <2>7 DEF UnlockInstalls, UnlockClearsFlag
    <2> QED BY <1>9, <2>1, <2>2, <2>3, <2>4, <2>5, <2>6, <2>7 DEF HandlerStep
  <1> QED BY <1>2, <1>3, <1>4, <1>5, <1>7, <1>8, <1>9 DEF Next

(* A start moves its own process on, and leaves the requests alone.        *)
StartMoves(d) ==
    /\ req' = req
    /\ \E p \in Phases \ {"off", "up"} : phase' = [phase EXCEPT ![d] = p]
    /\ phase[d] # "up"

Starts(d, word) ==
    \/ Enrol(d) \/ SaveCredential(d) \/ StartChecks(d, word) \/ StartForeground(d, word)
    \/ ParentSpawns(d) \/ ChildListens(d)

LEMMA StartsMove ==
    ASSUME Shapes, NEW d \in Daemons, NEW word, Starts(d, word)
    PROVE  StartMoves(d)
  <1>1. CASE Enrol(d)
    BY <1>1 DEF Enrol, Fresh, StartMoves, Phases
  <1>2. CASE SaveCredential(d)
    BY <1>2 DEF SaveCredential, StartMoves, Phases
  <1>3. CASE StartChecks(d, word)
    BY <1>3 DEF StartChecks, Retrieves, Fresh, StartMoves, Phases
  <1>4. CASE StartForeground(d, word)
    BY <1>4 DEF StartForeground, Retrieves, Fresh, StartMoves, Phases
  <1>5. CASE ParentSpawns(d)
    BY <1>5 DEF ParentSpawns, StartMoves, Phases
  <1>6. CASE ChildListens(d)
    BY <1>6 DEF ChildListens, StartMoves, Phases
  <1> QED BY <1>1, <1>2, <1>3, <1>4, <1>5, <1>6 DEF Starts

(* The steps in which a process ends.                                      *)
Ends(d) ==
    \/ Terminate(d) \/ Crash(d) \/ CrashInEnrol(d)
    \/ \E h \in Handlers : d = req[h].on /\ CrashInSave(h)

LEMMA EndsGone ==
    ASSUME NEW d, Ends(d)
    PROVE  Gone(d)
  BY DEF Ends, Terminate, Crash, CrashInEnrol, CrashInSave

LEMMA RuinedFiles ==
    /\ Torn.state = "torn" /\ Cut.state = "cut"
    /\ Torn.entries = {} /\ Cut.entries = {}
  BY DEF Torn, Cut

LEMMA SavedFile ==
    ASSUME NEW entries, NEW word
    PROVE  /\ Saved(entries, word).state = "whole" /\ Saved(entries, word).pass = word
           /\ Saved(entries, word).entries = entries
  BY DEF Saved

(* The four kinds of steps.                                                *)
LEMMA Steps ==
    ASSUME Requests, Next
    PROVE  \/ \E d \in Daemons : \E word : Starts(d, word)
           \/ \E d \in Daemons : WritesPid(d) \/ Ends(d)
           \/ \E h \in Handlers : Ask(h) \/ HandlerStep(h)
  <1>1. ASSUME NEW h \in Handlers, CrashInSave(h) PROVE req[h].on \in Daemons
    BY <1>1 DEF Requests, Served, CrashInSave, At
  <1> QED BY <1>1 DEF Next, Starts, Ends

LEMMA ShapesKept ==
    ASSUME Shapes, Requests, Next
    PROVE  Shapes' /\ Requests'
  <1> DEFINE Rest == /\ phase' \in [Daemons -> Phases]
                     /\ req' = [h \in Handlers |-> req'[h]]
                     /\ \A h \in Handlers :
                           /\ DOMAIN req'[h] = Fields
                           /\ req'[h].op # "none" => /\ req'[h].on \in Daemons
                                                     /\ phase'[req'[h].on] = "up"
  <1>1. ASSUME NEW d \in Daemons, NEW word, Starts(d, word) PROVE Rest
    BY <1>1, StartsMove DEF StartMoves, Shapes, Requests, Served
  <1>2. ASSUME NEW d \in Daemons, WritesPid(d) PROVE Rest
    BY <1>2 DEF WritesPid, Shapes, Requests, Served, Phases
  <1>3. ASSUME NEW d \in Daemons, Ends(d) PROVE Rest
    <2>6. Gone(d)
      BY <1>3, EndsGone
    <2>1. Gone(d) /\ phase' = [phase EXCEPT ![d] = "off"]
      BY <2>6 DEF Gone
    <2>2. \A h \in Handlers : req'[h] = IF req[h].on = d THEN NoRequest ELSE req[h]
      BY <2>1, GoneTakesRequests
    <2>3. req' = [h \in Handlers |-> req'[h]]
      BY <2>1, GoneTakesRequests
    <2>4. phase' \in [Daemons -> Phases]
      BY <2>1 DEF Shapes, Phases
    <2>5. \A h \in Handlers : Served(req[h]) /\ DOMAIN req[h] = Fields
      BY DEF Requests, Shapes
    <2> QED BY <2>1, <2>2, <2>3, <2>4, <2>5, NoRequestAsksNothing DEF Shapes, Served
  <1>4. ASSUME NEW h \in Handlers, Ask(h) PROVE Rest
    BY <1>4, AskBrings DEF Ask, Apart, Shapes, Requests, Served
  <1>5. ASSUME NEW h \in Handlers, HandlerStep(h) PROVE Rest
    <2>1. HandlerMoves(h)
      BY <1>5, HandlerStepMoves
    <2>2. Apart(h) /\ phase' = phase /\ DOMAIN req'[h] = Fields
      BY <2>1, NoRequestAsksNothing DEF HandlerMoves, Left, Moved
    <2>3. req'[h].op # "none" => req'[h].op = req[h].op /\ req'[h].on = req[h].on
      BY <2>1, NoRequestAsksNothing DEF HandlerMoves, Left, Moved
    <2> QED BY <2>2, <2>3 DEF Apart, Shapes, Requests, Served
  <1> HIDE DEF Rest
  <1>6. Rest
    BY <1>1, <1>2, <1>3, <1>4, <1>5, Steps
  <1> QED BY <1>6, MapsKept DEF Rest, Shapes, Requests, Served

-----------------------------------------------------------------------------
(* What a locked agent keeps *)

Excuses(r, d) ==
    /\ r.on = d
    /\ \/ r.op = "lock" /\ r.at = "map"
       \/ r.op = "unlock" /\ r.at \in {"install", "flag"}

LEMMA LockedExcused ==
    LockedKeepsNoKey <=>
        \A d \in Daemons : \/ ~locked[d] \/ ident[d] \subseteq late[d]
                           \/ \E h \in Handlers : Excuses(req[h], d)
  BY DEF LockedKeepsNoKey, Excuses, At

(* What holds of a locked agent goes on to hold when a step adds no key    *)
(* that is not late, and takes no excuse.                                  *)
LEMMA LockedStays ==
    ASSUME LockedKeepsNoKey, NEW h \in Handlers, Apart(h), NEW d \in Daemons,
           locked'[d] => locked[d] /\ (ident[d] \subseteq late[d] => ident'[d] \subseteq late'[d]),
           Excuses(req[h], d) => Excuses(req'[h], d)
    PROVE  \/ ~locked'[d] \/ ident'[d] \subseteq late'[d]
           \/ \E o \in Handlers : Excuses(req'[o], d)
  <1>1. CASE \E o \in Handlers : Excuses(req[o], d)
    BY <1>1 DEF Apart
  <1> QED BY <1>1, LockedExcused

LEMMA HandlerKeepsLocked ==
    ASSUME IInv, NEW h \in Handlers, HandlerStep(h), NEW d \in Daemons
    PROVE  \/ ~locked'[d] \/ ident'[d] \subseteq late'[d]
           \/ \E o \in Handlers : Excuses(req'[o], d)
  <1> USE DEF IInv
  <1>1. /\ IsMap(ident) /\ IsMap(locked) /\ IsMap(late)
        /\ Shapes /\ LockedKeepsNoKey
    BY DEF Shapes
  <1>2. Apart(h)
    BY <1>1, HandlerStepMoves DEF HandlerMoves, Left, Moved
  <1> DEFINE Stays == locked'[d] => /\ locked[d]
                                    /\ ident[d] \subseteq late[d] => ident'[d] \subseteq late'[d]
             Excused == Excuses(req[h], d) => Excuses(req'[h], d)
             Ok == \/ ~locked'[d] \/ ident'[d] \subseteq late'[d]
                   \/ \E o \in Handlers : Excuses(req'[o], d)
  <1>3. ASSUME Stays, Excused PROVE Ok
    BY <1>1, <1>2, <1>3, LockedStays
  <1>4. CASE QueryAnswers(h) \/ StatusAnswers(h)
    BY <1>3, <1>4 DEF QueryAnswers, StatusAnswers, At, Excuses, daemonVars, histVars
  <1>5. CASE AddTakesPassphrase(h) \/ AddFails(h) \/ AddSaves(h)
    BY <1>3, <1>5 DEF AddTakesPassphrase, AddFails, AddSaves, At, Excuses, daemonVars, histVars
  <1>6. CASE AddInserts(h)
    <2>1. locked' = locked /\ At(h, "add", "map")
      BY <1>6 DEF AddInserts
    <2>2. /\ ident' = [ident EXCEPT ![req[h].on] = @ \cup {req[h].key}]
          /\ late' = [late EXCEPT ![req[h].on] =
                        @ \cup IF locked[req[h].on] THEN {req[h].key} ELSE {}]
      BY <1>6 DEF AddInserts
    <2>3. Stays
      BY <2>1, <2>2, <1>1 DEF IsMap
    <2> QED BY <1>3, <2>1, <2>3 DEF At, Excuses
  <1>7. CASE RemoveTakes(h)
    <2>1. locked' = locked /\ late' = late /\ At(h, "remove", "map")
      BY <1>7 DEF RemoveTakes, histVars
    <2>2. ident' = [ident EXCEPT ![req[h].on] = @ \ {req[h].key}]
      BY <1>7 DEF RemoveTakes
    <2>3. Stays
      BY <2>1, <2>2, <1>1 DEF IsMap
    <2> QED BY <1>3, <2>1, <2>3 DEF At, Excuses
  <1>8. CASE RemoveLocksVault(h) \/ RemoveSaves(h)
    BY <1>3, <1>8 DEF RemoveLocksVault, RemoveSaves, At, Excuses, daemonVars, histVars
  <1>9. CASE RemoveAll(h)
    <2>1. locked' = locked /\ late' = late /\ At(h, "remove_all", "map")
      BY <1>9 DEF RemoveAll, histVars
    <2>2. ident' = [ident EXCEPT ![req[h].on] = {}]
      BY <1>9 DEF RemoveAll
    <2>3. Stays
      BY <2>1, <2>2, <1>1 DEF IsMap
    <2> QED BY <1>3, <2>1, <2>3 DEF At, Excuses
  <1>10. CASE LockSetsFlag(h)
    <2>1. /\ locked' = [locked EXCEPT ![req[h].on] = TRUE]
          /\ late' = [late EXCEPT ![req[h].on] = {}]
          /\ ident' = ident /\ Goes(h, "map") /\ At(h, "lock", "flag")
      BY <1>10 DEF LockSetsFlag
    <2>2. Moved(h, "map")
      BY <2>1, <1>1, GoesMoves
    <2>3. CASE d = req[h].on
      <3>1. Excuses(req'[h], d)
        BY <2>1, <2>2, <2>3 DEF Excuses, Moved, At
      <3> QED BY <3>1
    <2>4. CASE d # req[h].on
      <3>1. Stays
        BY <2>1, <2>4, <1>1 DEF IsMap
      <3> QED BY <1>3, <2>1, <3>1 DEF At, Excuses
    <2> QED BY <2>3, <2>4
  <1>11. CASE LockClears(h)
    <2>1. /\ locked' = locked /\ late' = late
          /\ ident' = [ident EXCEPT ![req[h].on] = {}]
      BY <1>11 DEF LockClears, histVars
    <2>2. CASE d = req[h].on
      BY <2>1, <2>2, <1>1 DEF IsMap
    <2>3. CASE d # req[h].on
      <3>1. Stays
        BY <2>1, <2>3, <1>1 DEF IsMap
      <3> QED BY <1>3, <2>3, <3>1 DEF Excuses
    <2> QED BY <2>2, <2>3
  <1>12. CASE UnlockStores(h) \/ UnlockReads(h)
    BY <1>3, <1>12 DEF UnlockStores, UnlockReads, At, Excuses, daemonVars, histVars
  <1>13. CASE UnlockFills(h) \/ UnlockInstalls(h)
    <2>1. PICK place \in {"install", "flag"} : Goes(h, place)
      BY <1>13 DEF UnlockFills, UnlockInstalls
    <2>2. Moved(h, place)
      BY <2>1, <1>1, GoesMoves
    <2>3. req[h].op = "unlock"
      BY <1>13 DEF UnlockFills, UnlockInstalls, At
    <2>4. CASE d = req[h].on
      <3>1. Excuses(req'[h], d)
        BY <2>1, <2>2, <2>3, <2>4 DEF Excuses, Moved
      <3> QED BY <3>1
    <2>5. CASE d # req[h].on
      <3>1. ident'[d] = ident[d] /\ locked' = locked /\ late' = late
        BY <1>13, <2>5, <1>1 DEF IsMap, UnlockFills, UnlockInstalls, histVars
      <3> QED BY <1>3, <2>5, <3>1 DEF Excuses
    <2> QED BY <2>4, <2>5
  <1>14. CASE UnlockClearsFlag(h)
    <2>1. /\ locked' = [locked EXCEPT ![req[h].on] = FALSE]
          /\ ident' = ident /\ late' = late
      BY <1>14 DEF UnlockClearsFlag, histVars
    <2>2. CASE d = req[h].on
      BY <2>1, <2>2, <1>1 DEF IsMap
    <2>3. CASE d # req[h].on
      <3>1. Stays
        BY <2>1, <2>3, <1>1 DEF IsMap
      <3> QED BY <1>3, <2>3, <3>1 DEF Excuses
    <2> QED BY <2>2, <2>3
  <1> QED BY <1>4, <1>5, <1>6, <1>7, <1>8, <1>9, <1>10, <1>11, <1>12, <1>13, <1>14
          DEF HandlerStep

LEMMA LockedKept ==
    ASSUME IInv, Next
    PROVE  LockedKeepsNoKey'
  <1> DEFINE Holds(d) == \/ ~locked'[d] \/ ident'[d] \subseteq late'[d]
                         \/ \E h \in Handlers : Excuses(req'[h], d)
  <1>0. /\ IsMap(ident) /\ IsMap(locked) /\ IsMap(late)
        /\ Shapes /\ LockedKeepsNoKey /\ Requests
    BY DEF Shapes, IInv
  <1>1. ASSUME NEW d \in Daemons, NEW o \in Daemons, NEW word, Starts(o, word)
        PROVE  Holds(d)
    <2>1. req' = req
      BY <1>0, <1>1, StartsMove DEF StartMoves
    <2>2. /\ ident'[d] = ident[d] /\ locked'[d] = locked[d] /\ late'[d] = late[d]
          \/ ~locked'[d]
      BY <1>0, <1>1 DEF Starts, Enrol, SaveCredential, StartChecks, StartForeground,
         ParentSpawns, ChildListens, IsMap, daemonVars, histVars
    <2> QED BY <1>0, <2>1, <2>2, LockedExcused
  <1>2. ASSUME NEW d \in Daemons, NEW o \in Daemons, WritesPid(o)
        PROVE  Holds(d)
    BY <1>0, <1>2, LockedExcused DEF WritesPid, daemonVars, histVars
  <1>3. ASSUME NEW d \in Daemons, NEW o \in Daemons, Ends(o)
        PROVE  Holds(d)
    <2>1. Gone(o)
      BY <1>3, EndsGone
    <2>2. CASE d = o
      BY <2>1, <2>2, <1>0, GoneTakesRequests
    <2>3. CASE d # o
      <3>1. \A h \in Handlers : Excuses(req[h], d) => req'[h] = req[h]
        BY <2>1, <2>3, <1>0, GoneTakesRequests DEF Excuses
      <3>2. ident'[d] = ident[d] /\ locked'[d] = locked[d] /\ late'[d] = late[d]
        BY <2>1, <2>3, <1>0, GoneTakesRequests
      <3> QED BY <3>1, <3>2, <1>0, LockedExcused
    <2> QED BY <2>2, <2>3
  <1>4. ASSUME NEW d \in Daemons, NEW h \in Handlers, Ask(h)
        PROVE  Holds(d)
    <2>1. Apart(h) /\ ~Excuses(req[h], d)
      BY <1>0, <1>4, AskBrings, NoRequestAsksNothing DEF Ask, Excuses
    <2>2. ident' = ident /\ locked' = locked /\ late' = late
      BY <1>4 DEF Ask, daemonVars, histVars
    <2> QED BY <1>0, <2>1, <2>2, LockedStays
  <1>5. ASSUME NEW d \in Daemons, NEW h \in Handlers, HandlerStep(h)
        PROVE  Holds(d)
    BY <1>5, HandlerKeepsLocked
  <1>6. \A d \in Daemons : Holds(d)
    <2> HIDE DEF Holds
    <2> QED BY <1>0, <1>1, <1>2, <1>3, <1>4, <1>5, Steps
  <1>7. (\A d \in Daemons : Holds(d)) => LockedKeepsNoKey'
    BY DEF LockedKeepsNoKey, Excuses, At
  <1> QED BY <1>6, <1>7

-----------------------------------------------------------------------------
(* One process, which goes on with the credential on disk *)

(* A request leaves the processes and their files alone.                   *)
LEMMA RequestsKeepFiles ==
    ASSUME NEW h \in Handlers, Ask(h) \/ HandlerStep(h)
    PROVE  /\ phase' = phase /\ backend' = backend /\ state_file' = state_file
           /\ socket' = socket /\ lock_file' = lock_file /\ overlapped' = overlapped
  <1> USE DEF fileVars, histVars
  <1>1. CASE Ask(h)
    BY <1>1 DEF Ask
  <1>2. CASE QueryAnswers(h) \/ StatusAnswers(h) \/ RemoveTakes(h)
    BY <1>2 DEF QueryAnswers, StatusAnswers, RemoveTakes
  <1>3. CASE AddTakesPassphrase(h) \/ AddInserts(h) \/ AddFails(h) \/ AddSaves(h)
    BY <1>3 DEF AddTakesPassphrase, AddInserts, AddFails, AddSaves
  <1>4. CASE RemoveLocksVault(h) \/ RemoveSaves(h) \/ RemoveAll(h)
    BY <1>4 DEF RemoveLocksVault, RemoveSaves, RemoveAll
  <1>5. CASE LockSetsFlag(h) \/ LockClears(h) \/ UnlockClearsFlag(h)
    BY <1>5 DEF LockSetsFlag, LockClears, UnlockClearsFlag
  <1>6. CASE UnlockStores(h) \/ UnlockReads(h) \/ UnlockFills(h) \/ UnlockInstalls(h)
    BY <1>6 DEF UnlockStores, UnlockReads, UnlockFills, UnlockInstalls
  <1> QED BY <1>1, <1>2, <1>3, <1>4, <1>5, <1>6 DEF HandlerStep

(* Only an Unlock changes the passphrase of its daemon.                    *)
LEMMA RequestsKeepPassphrase ==
    ASSUME IInv, NEW h \in Handlers, Ask(h) \/ HandlerStep(h), NEW d \in Daemons
    PROVE  \/ mp'[d] = mp[d]
           \/ UnlockStores(h) /\ d = req[h].on /\ phase[d] = "up"
  <1> USE DEF daemonVars
  <1>1. CASE Ask(h)
    BY <1>1 DEF Ask
  <1>2. CASE QueryAnswers(h) \/ StatusAnswers(h) \/ RemoveTakes(h)
    BY <1>2 DEF QueryAnswers, StatusAnswers, RemoveTakes
  <1>3. CASE AddTakesPassphrase(h) \/ AddInserts(h) \/ AddFails(h) \/ AddSaves(h)
    BY <1>3 DEF AddTakesPassphrase, AddInserts, AddFails, AddSaves
  <1>4. CASE RemoveLocksVault(h) \/ RemoveSaves(h) \/ RemoveAll(h)
    BY <1>4 DEF RemoveLocksVault, RemoveSaves, RemoveAll
  <1>5. CASE LockSetsFlag(h) \/ LockClears(h) \/ UnlockClearsFlag(h)
    BY <1>5 DEF LockSetsFlag, LockClears, UnlockClearsFlag
  <1>6. CASE UnlockReads(h) \/ UnlockFills(h) \/ UnlockInstalls(h)
    BY <1>6 DEF UnlockReads, UnlockFills, UnlockInstalls
  <1>7. CASE UnlockStores(h)
    <2>1. IsMap(mp) /\ mp' = [mp EXCEPT ![req[h].on] = req[h].word]
      BY <1>7 DEF UnlockStores, IInv, Shapes
    <2>2. req[h].on \in Daemons /\ phase[req[h].on] = "up"
      BY <1>7 DEF UnlockStores, At, IInv, Requests, Served
    <2> QED BY <1>7, <2>1, <2>2 DEF IsMap
  <1> QED BY <1>1, <1>2, <1>3, <1>4, <1>5, <1>6, <1>7 DEF HandlerStep

(* An excuse is never taken back.                                          *)
LEMMA ExcusedStays ==
    ASSUME IInv, Next, ~excused'
    PROVE  ~excused
  <1> USE DEF fileVars, histVars
  <1>1. ASSUME NEW d \in Daemons, NEW word, Starts(d, word) PROVE ~excused
    BY <1>1 DEF Starts, Enrol, SaveCredential, StartChecks, StartForeground, Retrieves,
       ParentSpawns, ChildListens
  <1>2. ASSUME NEW d \in Daemons, WritesPid(d) \/ Ends(d) PROVE ~excused
    BY <1>2 DEF WritesPid, Ends, Terminate, Crash, CrashInEnrol, CrashInSave
  <1>3. ASSUME NEW h \in Handlers, Ask(h) PROVE ~excused
    BY <1>3 DEF Ask
  <1>4. ASSUME NEW h \in Handlers, HandlerStep(h) PROVE ~excused
    <2>1. CASE QueryAnswers(h) \/ StatusAnswers(h) \/ RemoveTakes(h)
      BY <2>1 DEF QueryAnswers, StatusAnswers, RemoveTakes
    <2>2. CASE AddTakesPassphrase(h) \/ AddInserts(h) \/ AddFails(h) \/ AddSaves(h)
      BY <2>2 DEF AddTakesPassphrase, AddInserts, AddFails, AddSaves
    <2>3. CASE RemoveLocksVault(h) \/ RemoveSaves(h) \/ RemoveAll(h)
      BY <2>3 DEF RemoveLocksVault, RemoveSaves, RemoveAll
    <2>4. CASE LockSetsFlag(h) \/ LockClears(h) \/ UnlockClearsFlag(h)
      BY <2>4 DEF LockSetsFlag, LockClears, UnlockClearsFlag
    <2>5. CASE UnlockStores(h) \/ UnlockReads(h) \/ UnlockFills(h) \/ UnlockInstalls(h)
      BY <2>5 DEF UnlockStores, UnlockReads, UnlockFills, UnlockInstalls
    <2> QED BY <1>4, <2>1, <2>2, <2>3, <2>4, <2>5 DEF HandlerStep
  <1>5. Requests
    BY DEF IInv
  <1> QED BY <1>1, <1>2, <1>3, <1>4, <1>5, Steps

LEMMA CreditedKept ==
    ASSUME IInv, Next
    PROVE  Credited'
  <1>0. /\ Shapes /\ Requests /\ Credited /\ IsMap(mp) /\ phase = [d \in Daemons |-> phase[d]]
        /\ ~excused' => ~excused
    BY ExcusedStays DEF IInv, Shapes
  <1> USE DEF Credited, fileVars, daemonVars, histVars
  <1>1. ASSUME NEW d \in Daemons, Enrol(d) PROVE Credited'
    BY <1>0, <1>1 DEF Enrol, IsMap, Enrolled
  <1>2. ASSUME NEW d \in Daemons, SaveCredential(d) PROVE Credited'
    <2>1. state_file' = mp[d] /\ mp[d] \in Credentials /\ mp' = mp
      BY <1>0, <1>2 DEF SaveCredential
    <2>2. phase' = [phase EXCEPT ![d] = "keyed"]
      BY <1>2 DEF SaveCredential
    <2> QED BY <1>0, <2>1, <2>2, AgentAssumption
  <1>3. ASSUME NEW d \in Daemons, NEW word, StartChecks(d, word) \/ StartForeground(d, word)
        PROVE  Credited'
    <2>1. /\ mp' = [mp EXCEPT ![d] = word]
          /\ \/ phase' = [phase EXCEPT ![d] = "checked"]
             \/ phase' = [phase EXCEPT ![d] = "spawned"]
          /\ backend' = backend /\ state_file' = state_file /\ Retrieves(d, word)
      BY <1>3 DEF StartChecks, StartForeground
    <2>2. backend = "fido2" /\ ~excused' => state_file # "absent"
      BY <1>0, <2>1 DEF Retrieves, Secret, Enrolled
    <2> QED BY <1>0, <2>1, <2>2 DEF IsMap
  <1>4. ASSUME NEW d \in Daemons, ParentSpawns(d) \/ ChildListens(d) \/ WritesPid(d)
        PROVE  Credited'
    BY <1>0, <1>4 DEF ParentSpawns, ChildListens, WritesPid
  <1>5. ASSUME NEW d \in Daemons, Ends(d) PROVE Credited'
    <2>1. Gone(d)
      BY <1>5, EndsGone
    <2>2. \A o \in Daemons : o # d => phase'[o] = phase[o] /\ mp'[o] = mp[o]
      BY <2>1, <1>0, GoneTakesRequests
    <2>3. phase'[d] = "off"
      BY <2>1, <1>0, GoneTakesRequests
    <2>4. backend' = backend /\ (state_file' = state_file \/ state_file' = "torn")
      BY <1>5 DEF Ends, Terminate, Crash, CrashInEnrol, CrashInSave
    <2> QED BY <1>0, <2>2, <2>3, <2>4
  <1>6. ASSUME NEW h \in Handlers, Ask(h) \/ HandlerStep(h) PROVE Credited'
    <2>1. phase' = phase /\ backend' = backend /\ state_file' = state_file
      BY <1>6, RequestsKeepFiles
    <2>2. \A d \in Daemons : mp'[d] = mp[d] \/ phase[d] = "up"
      BY <1>6, RequestsKeepPassphrase
    <2> QED BY <1>0, <2>1, <2>2
  <1> QED BY <1>0, <1>1, <1>2, <1>3, <1>4, <1>5, <1>6, Steps DEF Starts

(* A start that is not said to overlap found all other processes off.      *)
LEMMA StartsAlone ==
    ASSUME IInv, NEW d \in Daemons, NEW word, Starts(d, word), Clean', OneProcess
    PROVE  \A o \in Daemons \ {d} : phase[o] = "off"
  <1>0. \A o \in Daemons : phase[o] \in Phases
    BY DEF IInv, Shapes
  <1> USE DEF OneProcess, Clean, fileVars, histVars
  <1>1. CASE Enrol(d)
    <2>1. \A o \in Daemons : ~Starting(o)
      BY <1>1 DEF Enrol
    <2>2. backend = "fido2" /\ state_file = "absent" /\ ~excused
      BY <1>1 DEF Enrol, Enrolled, Clean
    <2>3. \A o \in Daemons : phase[o] \in {"off", "enrolled"}
      BY <2>2 DEF IInv, Credited
    <2> QED BY <2>1, <2>2, <2>3 DEF Starting
  <1>2. CASE SaveCredential(d) \/ ParentSpawns(d) \/ ChildListens(d)
    BY <1>0, <1>2 DEF SaveCredential, ParentSpawns, ChildListens
  <1>3. CASE StartChecks(d, word)
    <2>1. ~overlapped /\ ~AlreadyRunning /\ \A o \in Daemons \ {d} : ~Starting(o)
      BY <1>3 DEF StartChecks
    <2>2. ASSUME NEW o \in Daemons \ {d}, phase[o] = "up" PROVE FALSE
      <3>1. socket = o /\ lock_file = o /\ Serving(o)
        BY <2>2 DEF Serving
      <3> QED BY <2>1, <2>2, <3>1 DEF AlreadyRunning, Reachable
    <2> QED BY <1>0, <2>1, <2>2 DEF Starting, Phases
  <1>4. CASE StartForeground(d, word)
    BY <1>4 DEF StartForeground
  <1> QED BY <1>1, <1>2, <1>3, <1>4 DEF Starts

LEMMA OneProcessKept ==
    ASSUME IInv, Next, Clean'
    PROVE  Clean /\ OneProcess'
  <1>0. Shapes /\ Requests /\ phase = [d \in Daemons |-> phase[d]]
    BY DEF IInv, Shapes
  <1>1. ~overlapped
    <2> USE DEF Clean, fileVars, histVars
    <2>1. ASSUME NEW d \in Daemons, NEW word, Starts(d, word) PROVE ~overlapped
      BY <2>1 DEF Starts, Enrol, SaveCredential, StartChecks, StartForeground, ParentSpawns,
         ChildListens
    <2>2. ASSUME NEW d \in Daemons, WritesPid(d) \/ Ends(d) PROVE ~overlapped
      BY <2>2 DEF WritesPid, Ends, Terminate, Crash, CrashInEnrol, CrashInSave
    <2>3. ASSUME NEW h \in Handlers, Ask(h) \/ HandlerStep(h) PROVE ~overlapped
      BY <2>3, RequestsKeepFiles
    <2> QED BY <1>0, <2>1, <2>2, <2>3, Steps
  <1>2. Clean /\ OneProcess
    BY <1>1, ExcusedStays DEF IInv, Clean
  <1>3. ASSUME NEW d \in Daemons, NEW word, Starts(d, word) PROVE OneProcess'
    <2>1. \A o \in Daemons \ {d} : phase[o] = "off"
      BY <1>2, <1>3, StartsAlone
    <2>2. \E p \in Phases \ {"off", "up"} : phase' = [phase EXCEPT ![d] = p]
      BY <1>0, <1>3, StartsMove DEF StartMoves
    <2>3. phase'[d] # "up" /\ \A o \in Daemons \ {d} : phase'[o] = "off"
      BY <1>0, <2>1, <2>2
    <2>4. phase'[d] = "listening" => socket' = d
      BY <1>0, <1>3 DEF Starts, Enrol, SaveCredential, StartChecks, StartForeground,
         ParentSpawns, ChildListens
    <2> QED BY <2>3, <2>4 DEF OneProcess, Serving
  <1>4. ASSUME NEW d \in Daemons, WritesPid(d) PROVE OneProcess'
    <2>1. /\ phase[d] = "listening" /\ phase' = [phase EXCEPT ![d] = "up"]
          /\ lock_file' = d /\ socket' = socket
      BY <1>4 DEF WritesPid
    <2>2. socket = d /\ \A o \in Daemons \ {d} : phase[o] = "off"
      BY <1>2, <2>1 DEF OneProcess, Serving
    <2> QED BY <1>0, <2>1, <2>2 DEF OneProcess, Serving
  <1>5. ASSUME NEW d \in Daemons, Ends(d) PROVE OneProcess'
    <2>1. Gone(d) /\ phase[d] # "off"
      <3>1. Gone(d)
        BY <1>5, EndsGone
      <3>2. CASE \E h \in Handlers : d = req[h].on /\ CrashInSave(h)
        BY <1>0, <3>2 DEF CrashInSave, At, Requests, Served
      <3> QED BY <1>5, <3>1, <3>2 DEF Ends, Terminate, Crash, CrashInEnrol
    <2>2. \A o \in Daemons : phase'[o] = "off"
      BY <1>0, <1>2, <2>1, GoneTakesRequests DEF OneProcess
    <2> QED BY <2>2 DEF OneProcess, Serving
  <1>6. ASSUME NEW h \in Handlers, Ask(h) \/ HandlerStep(h) PROVE OneProcess'
    BY <1>2, <1>6, RequestsKeepFiles DEF OneProcess, Serving
  <1> QED BY <1>0, <1>2, <1>3, <1>4, <1>5, <1>6, Steps

-----------------------------------------------------------------------------
(* Where the acknowledged keys are *)

LEMMA CleanBefore ==
    ASSUME IInv, Next, Clean'
    PROVE  Clean /\ OneProcess /\ OneProcess' /\ KeysKept
  BY OneProcessKept DEF IInv

(* An Unlock that has read the vault, and has yet to install what it read. *)
HasRead(r) == r.op = "unlock" /\ r.at \in {"map", "install"}

LEMMA KeysStay ==
    ASSUME KeysKept, acked' = acked, file' = file,
           \A d \in Daemons : Serving(d)' => Serving(d) /\ vault'[d] = vault[d],
           Ruined => \E d \in Daemons : Serving(d)',
           \A h \in Handlers : HasRead(req'[h]) => HasRead(req[h]) /\ req'[h].read = req[h].read
    PROVE  KeysKept'
  BY DEF KeysKept, Ruined, HasRead

LEMMA HandlerKeepsKeys ==
    ASSUME IInv, NEW h \in Handlers, HandlerStep(h), OneProcess, KeysKept, Clean'
    PROVE  KeysKept'
  <1> DEFINE d == req[h].on
  <1>0. Shapes /\ Requests /\ IsMap(vault)
    BY DEF IInv, Shapes
  <1>1. Apart(h) /\ phase' = phase
    BY <1>0, HandlerStepMoves DEF HandlerMoves, Left, Moved
  <1>2. \A o \in Daemons : Serving(o)' = Serving(o)
    BY <1>1 DEF Serving
  <1>3. req[h].op # "none" => d \in Daemons /\ Serving(d) /\ acked \subseteq vault[d]
    BY <1>0 DEF Requests, Served, Serving, KeysKept
  <1> USE DEF histVars, daemonVars
  <1>4. ASSUME acked' = acked, file' = file, vault' = vault, ~HasRead(req'[h])
        PROVE  KeysKept'
    BY <1>1, <1>2, <1>4, KeysStay DEF Apart, KeysKept
  <1>5. ASSUME NEW place, Goes(h, place), req[h].op # "unlock" PROVE ~HasRead(req'[h])
    BY <1>0, <1>5, GoesMoves DEF Moved, HasRead
  <1>6. ASSUME Answered(h) PROVE ~HasRead(req'[h])
    BY <1>0, <1>6, AnsweredLeaves, NoRequestAsksNothing DEF Left, HasRead
  <1>7. ASSUME NEW place \in {"read", "flag"}, Goes(h, place) PROVE ~HasRead(req'[h])
    BY <1>0, <1>7, GoesMoves DEF Moved, HasRead
  <1>8. CASE QueryAnswers(h) \/ StatusAnswers(h)
    BY <1>4, <1>5, <1>6, <1>8 DEF QueryAnswers, StatusAnswers, At
  <1>9. CASE AddTakesPassphrase(h)
    <2>1. ~HasRead(req'[h])
      BY <1>0, <1>9, PassphraseTaken DEF AddTakesPassphrase, At, Moved, HasRead
    <2> QED BY <1>4, <1>9, <2>1 DEF AddTakesPassphrase
  <1>10. CASE AddInserts(h) \/ AddFails(h)
    BY <1>4, <1>5, <1>6, <1>10 DEF AddInserts, AddFails, At
  <1>11. CASE AddSaves(h)
    <2> DEFINE kept == vault[d] \cup {req[h].key}
    <2>1. /\ vault' = [vault EXCEPT ![d] = kept] /\ Answered(h) /\ req[h].op = "add"
          /\ \/ /\ file' = Saved(kept, req[h].word) /\ acked' = acked \cup {req[h].key}
                /\ ~UnlockOverlaps(d)
             \/ file' \in {file, Torn, Cut} /\ acked' = acked
      BY <1>11 DEF AddSaves, SaveFails, Upsert, At, Clean
    <2>2. ~HasRead(req'[h])
      BY <2>1, <1>6
    <2>3. CASE file' \in {file, Torn, Cut} /\ acked' = acked
      <3>1. \A o \in Daemons : vault[o] \subseteq vault'[o]
        BY <1>0, <2>1 DEF IsMap
      <3>2. \/ file' = file
            \/ file'.state \in {"torn", "cut"} /\ file'.state # "absent"
        BY <2>3, RuinedFiles
      <3>3. \E o \in Daemons : Serving(o)
        BY <1>3, <2>1
      <3> QED BY <1>1, <1>2, <2>2, <2>3, <3>1, <3>2, <3>3 DEF KeysKept, Ruined, Apart, HasRead
    <2>4. CASE /\ file' = Saved(kept, req[h].word) /\ acked' = acked \cup {req[h].key}
               /\ ~UnlockOverlaps(d)
      <3>1. d \in Daemons /\ Serving(d) /\ acked' \subseteq kept
        BY <2>1, <2>4, <1>3
      <3>2. vault'[d] = kept
        BY <1>0, <2>1, <3>1 DEF IsMap
      <3>3. \A o \in Daemons : Serving(o) => o = d
        BY <3>1 DEF OneProcess, Serving
      <3>4. \A o \in Handlers : ~HasRead(req[o])
        BY <1>0, <2>4, <3>1, <3>3 DEF UnlockOverlaps, HasRead, Requests, Served, Serving
      <3>5. \A o \in Handlers : ~HasRead(req'[o])
        BY <1>1, <2>2, <3>4 DEF Apart
      <3>6. file'.state = "whole" /\ file'.entries = kept
        BY <2>4 DEF Saved
      <3> QED BY <1>2, <3>1, <3>2, <3>3, <3>5, <3>6 DEF KeysKept, Ruined, HasRead
    <2> QED BY <2>1, <2>3, <2>4
  <1>12. CASE RemoveTakes(h) \/ RemoveLocksVault(h) \/ RemoveAll(h)
    BY <1>4, <1>5, <1>6, <1>12 DEF RemoveTakes, RemoveLocksVault, RemoveAll, At
  <1>13. CASE RemoveSaves(h)
    <2>1. /\ vault' = vault /\ acked' = acked /\ Answered(h) /\ req[h].op = "remove"
          /\ file' \in {file, Torn, Cut, Saved(vault[d], mp[d])}
      BY <1>13 DEF RemoveSaves, SaveFails, At
    <2>2. ~HasRead(req'[h])
      BY <2>1, <1>6
    <2>3. CASE file' = file
      BY <1>4, <2>1, <2>2, <2>3
    <2>4. CASE file' = Saved(vault[d], mp[d])
      <3>1. file'.state = "whole" /\ file'.entries = vault[d]
        BY <2>4 DEF Saved
      <3> QED BY <1>1, <1>2, <1>3, <2>1, <2>2, <3>1 DEF KeysKept, Ruined, Apart, HasRead
    <2>5. CASE file' \in {Torn, Cut}
      <3>1. file'.state \in {"torn", "cut"}
        BY <2>5, RuinedFiles
      <3> QED BY <1>1, <1>2, <1>3, <2>1, <2>2, <3>1 DEF KeysKept, Ruined, Apart, HasRead
    <2> QED BY <2>1, <2>3, <2>4, <2>5
  <1>14. CASE LockSetsFlag(h) \/ LockClears(h)
    BY <1>4, <1>5, <1>6, <1>14 DEF LockSetsFlag, LockClears, At
  <1>15. CASE UnlockStores(h)
    BY <1>4, <1>7, <1>15 DEF UnlockStores
  <1>16. CASE UnlockReads(h)
    <2>1. acked' = acked /\ file' = file /\ vault' = vault
      BY <1>16 DEF UnlockReads
    <2>2. \/ Goes(h, "flag") \/ Answered(h)
          \/ /\ req' = [req EXCEPT ![h].at = "map", ![h].read = file.entries]
             /\ ~Ruined
      BY <1>16 DEF UnlockReads, Opens, Ruined
    <2>3. CASE /\ req' = [req EXCEPT ![h].at = "map", ![h].read = file.entries]
               /\ ~Ruined
      <3>1. req'[h].read = file.entries
        BY <1>0, <2>3, VaultRead
      <3>2. acked' \subseteq req'[h].read
        BY <2>1, <2>3, <3>1 DEF KeysKept
      <3> QED BY <1>1, <1>2, <2>1, <3>2 DEF KeysKept, Ruined, Apart, HasRead
    <2> QED BY <1>4, <1>6, <1>7, <2>1, <2>2, <2>3
  <1>17. CASE UnlockFills(h)
    <2>1. /\ acked' = acked /\ file' = file /\ vault' = vault
          /\ HasRead(req[h]) /\ Goes(h, "install")
      BY <1>17 DEF UnlockFills, At, HasRead
    <2>2. req'[h].read = req[h].read
      BY <1>0, <2>1, GoesMoves
    <2> QED BY <1>1, <1>2, <2>1, <2>2, KeysStay DEF Apart, KeysKept
  <1>18. CASE UnlockInstalls(h)
    <2>1. /\ acked' = acked /\ file' = file /\ vault' = [vault EXCEPT ![d] = req[h].read]
          /\ HasRead(req[h]) /\ Goes(h, "flag")
      BY <1>18 DEF UnlockInstalls, At, HasRead
    <2>2. ~HasRead(req'[h])
      BY <2>1, <1>7
    <2>3. \A o \in Daemons : vault'[o] = IF o = d THEN req[h].read ELSE vault[o]
      BY <1>0, <2>1 DEF IsMap
    <2> QED BY <1>1, <1>2, <2>1, <2>2, <2>3 DEF KeysKept, Ruined, Apart, HasRead
  <1>19. CASE UnlockClearsFlag(h)
    BY <1>4, <1>6, <1>19 DEF UnlockClearsFlag
  <1> QED BY <1>8, <1>9, <1>10, <1>11, <1>12, <1>13, <1>14, <1>15, <1>16, <1>17, <1>18, <1>19
          DEF HandlerStep

LEMMA KeysKeptKept ==
    ASSUME IInv, Next, Clean'
    PROVE  KeysKept'
  <1>0. /\ Shapes /\ Requests /\ Clean /\ OneProcess /\ KeysKept
        /\ IsMap(vault) /\ phase = [d \in Daemons |-> phase[d]]
    BY CleanBefore DEF IInv, Shapes
  <1> USE DEF daemonVars, histVars
  <1>1. ASSUME NEW d \in Daemons, NEW word, Starts(d, word), ~ChildListens(d)
        PROVE  KeysKept'
    <2>1. req' = req
      BY <1>0, <1>1, StartsMove DEF StartMoves
    <2>2. acked' = acked /\ file' = file /\ vault' = vault
      BY <1>1 DEF Starts, Enrol, SaveCredential, StartChecks, StartForeground, ParentSpawns
    <2>3. \A o \in Daemons : Serving(o)' <=> Serving(o)
      BY <1>0, <1>1 DEF Starts, Enrol, SaveCredential, StartChecks, StartForeground,
         Retrieves, Fresh, ParentSpawns, Serving
    <2> QED BY <1>0, <2>1, <2>2, <2>3, KeysStay DEF KeysKept
  <1>2. ASSUME NEW d \in Daemons, ChildListens(d)
        PROVE  KeysKept'
    <2> DEFINE found == IF Opens(file, mp[d]) THEN file.entries ELSE {}
    <2>1. /\ acked' = acked /\ file' = file /\ req' = req
          /\ vault' = [vault EXCEPT ![d] = found]
          /\ phase' = [phase EXCEPT ![d] = "listening"]
          /\ file.state = "absent" \/ Opens(file, mp[d])
      BY <1>2 DEF ChildListens, Clean
    <2>2. acked \subseteq found /\ ~Ruined
      BY <1>0, <2>1 DEF KeysKept, Ruined, Opens
    <2>3. \A o \in Daemons : /\ vault'[o] = IF o = d THEN found ELSE vault[o]
                             /\ o # d => phase'[o] = phase[o]
      BY <1>0, <2>1 DEF IsMap
    <2> QED BY <1>0, <2>1, <2>2, <2>3 DEF KeysKept, Ruined, Serving
  <1>3. ASSUME NEW d \in Daemons, WritesPid(d)
        PROVE  KeysKept'
    <2>1. /\ acked' = acked /\ file' = file /\ vault' = vault /\ req' = req
          /\ \A o \in Daemons : Serving(o)' <=> Serving(o)
      BY <1>0, <1>3 DEF WritesPid, Serving
    <2> QED BY <1>0, <2>1, KeysStay DEF KeysKept
  <1>4. ASSUME NEW d \in Daemons, Ends(d)
        PROVE  KeysKept'
    <2>1. Gone(d)
      BY <1>4, EndsGone
    <2>2. acked' = acked /\ file' = file
      BY <1>4 DEF Ends, Terminate, Crash, CrashInEnrol, CrashInSave, Clean
    <2>3. \A o \in Daemons : Serving(o)' => Serving(o) /\ vault'[o] = vault[o]
      BY <1>0, <2>1, GoneTakesRequests DEF Serving
    <2>4. \A h \in Handlers : HasRead(req'[h]) => req'[h] = req[h]
      BY <1>0, <2>1, GoneTakesRequests, NoRequestAsksNothing DEF HasRead
    <2>5. ~Ruined
      <3>1. CASE CrashInEnrol(d)
        BY <1>0, <3>1 DEF CrashInEnrol, OneProcess, KeysKept, Serving
      <3> QED BY <1>4, <3>1 DEF Ends, Terminate, Crash, CrashInSave, Clean
    <2> QED BY <1>0, <2>2, <2>3, <2>4, <2>5, KeysStay
  <1>5. ASSUME NEW h \in Handlers, Ask(h)
        PROVE  KeysKept'
    <2>1. acked' = acked /\ file' = file /\ vault' = vault /\ phase' = phase
      BY <1>5 DEF Ask
    <2>2. Apart(h) /\ ~HasRead(req'[h])
      BY <1>0, <1>5, AskBrings DEF HasRead
    <2>3. \A o \in Daemons : Serving(o)' = Serving(o)
      BY <2>1 DEF Serving
    <2> QED BY <1>0, <2>1, <2>2, <2>3, KeysStay DEF Apart, KeysKept
  <1>6. ASSUME NEW h \in Handlers, HandlerStep(h)
        PROVE  KeysKept'
    BY <1>0, <1>6, HandlerKeepsKeys
  <1> QED BY <1>0, <1>1, <1>2, <1>3, <1>4, <1>5, <1>6, Steps

-----------------------------------------------------------------------------
(* Whose secret the vault is encrypted with *)

(* An Add that has the passphrase it will save with.                       *)
HasWord(r) == r.op = "add" /\ r.at \in {"map", "vault"}

HasSecret(d) == phase[d] \notin {"off", "enrolled"}

LEMMA HandlerKeepsSecret ==
    ASSUME IInv, NEW h \in Handlers, HandlerStep(h), OneSecret, Clean', backend = "fido2"
    PROVE  OneSecret'
  <1> DEFINE d == req[h].on
  <1>0. Shapes /\ Requests /\ IsMap(mp)
    BY DEF IInv, Shapes
  <1>1. Apart(h) /\ phase' = phase /\ state_file' = state_file
    BY <1>0, HandlerStepMoves, RequestsKeepFiles DEF HandlerMoves, Left, Moved
  <1>2. ~UnlockStores(h)
    BY DEF UnlockStores, Clean
  <1>3. \A o \in Daemons : mp'[o] = mp[o]
    BY <1>2, RequestsKeepPassphrase
  <1>4. req[h].op # "none" =>
            d \in Daemons /\ state_file \notin {"absent", "torn"} /\ mp[d] = state_file
    BY <1>0 DEF Requests, Served, OneSecret
  <1> DEFINE SameFile == file' = file
             WordKept == HasWord(req'[h]) => req'[h].word = state_file
  <1>5. ASSUME file'.state = "whole" => state_file \notin {"absent", "torn"} /\ file'.pass = state_file,
               WordKept
        PROVE  OneSecret'
    <2>1. \A o \in Handlers : HasWord(req'[o]) => req'[o].word = state_file
      BY <1>1, <1>5 DEF Apart, OneSecret, HasWord
    <2> QED BY <1>1, <1>3, <1>5, <2>1 DEF OneSecret, HasWord
  <1>6. ASSUME SameFile, WordKept PROVE OneSecret'
    BY <1>5, <1>6 DEF OneSecret
  <1>7. ASSUME NEW place, Goes(h, place), req[h].op # "add" \/ HasWord(req[h]) PROVE WordKept
    <2>1. Moved(h, place) /\ req'[h].word = req[h].word
      BY <1>0, <1>7, GoesMoves
    <2> QED BY <1>7, <2>1 DEF Moved, HasWord, OneSecret
  <1>8. ASSUME Answered(h) PROVE WordKept
    BY <1>0, <1>8, AnsweredLeaves, NoRequestAsksNothing DEF Left, HasWord
  <1>9. CASE QueryAnswers(h) \/ StatusAnswers(h)
    BY <1>6, <1>7, <1>8, <1>9 DEF QueryAnswers, StatusAnswers, At
  <1>10. CASE AddTakesPassphrase(h)
    <2>1. req[h].op = "add" /\ req'[h].word = mp[d] /\ file' = file
      BY <1>0, <1>10, PassphraseTaken DEF AddTakesPassphrase, At
    <2> QED BY <1>4, <1>6, <2>1
  <1>11. CASE AddInserts(h) \/ AddFails(h)
    BY <1>6, <1>7, <1>8, <1>11 DEF AddInserts, AddFails, At, HasWord
  <1>12. CASE AddSaves(h)
    <2>1. /\ HasWord(req[h]) /\ Answered(h)
          /\ file' \in {file, Torn, Cut, Saved(Upsert(vault[d], req[h].key), req[h].word)}
      BY <1>12 DEF AddSaves, SaveFails, At, HasWord
    <2>2. WordKept
      BY <2>1, <1>8
    <2>3. req[h].word = state_file /\ state_file \notin {"absent", "torn"}
      BY <2>1, <1>4 DEF OneSecret, HasWord
    <2>4. file' = file \/ file'.state # "whole" \/ file'.pass = state_file
      BY <2>1, <2>3, RuinedFiles, SavedFile
    <2> QED BY <1>5, <1>6, <2>2, <2>3, <2>4
  <1>13. CASE RemoveTakes(h) \/ RemoveLocksVault(h) \/ RemoveAll(h)
    BY <1>6, <1>7, <1>8, <1>13 DEF RemoveTakes, RemoveLocksVault, RemoveAll, At
  <1>14. CASE RemoveSaves(h)
    <2>1. /\ req[h].op = "remove" /\ Answered(h)
          /\ file' \in {file, Torn, Cut, Saved(vault[d], mp[d])}
      BY <1>14 DEF RemoveSaves, SaveFails, At
    <2>2. WordKept
      BY <2>1, <1>8
    <2>3. file' = file \/ file'.state # "whole" \/ file'.pass = state_file
      BY <2>1, <1>4, RuinedFiles, SavedFile
    <2> QED BY <1>4, <1>5, <1>6, <2>1, <2>2, <2>3
  <1>15. CASE LockSetsFlag(h) \/ LockClears(h)
    BY <1>6, <1>7, <1>8, <1>15 DEF LockSetsFlag, LockClears, At
  <1>16. CASE UnlockReads(h)
    <2>1. req[h].op = "unlock" /\ file' = file
      BY <1>16 DEF UnlockReads, At
    <2>2. \/ Goes(h, "flag") \/ Answered(h)
          \/ req' = [req EXCEPT ![h].at = "map", ![h].read = file.entries]
      BY <1>16 DEF UnlockReads
    <2>3. CASE req' = [req EXCEPT ![h].at = "map", ![h].read = file.entries]
      <3>1. req'[h].op = "unlock"
        BY <1>0, <2>1, <2>3, VaultRead DEF Moved
      <3> QED BY <1>6, <2>1, <3>1 DEF HasWord
    <2> QED BY <1>6, <1>7, <1>8, <2>1, <2>2, <2>3
  <1>17. CASE UnlockFills(h) \/ UnlockInstalls(h) \/ UnlockClearsFlag(h)
    BY <1>6, <1>7, <1>8, <1>17 DEF UnlockFills, UnlockInstalls, UnlockClearsFlag, At
  <1> QED BY <1>2, <1>9, <1>10, <1>11, <1>12, <1>13, <1>14, <1>15, <1>16, <1>17 DEF HandlerStep

(* No request is under way while the only process has not come up.         *)
LEMMA NobodyAsks ==
    ASSUME Requests, \A o \in Daemons : phase[o] # "up"
    PROVE  \A h \in Handlers : ~HasWord(req[h])
  BY DEF Requests, Served, HasWord

LEMMA StartsKeepSecret ==
    ASSUME IInv, NEW d \in Daemons, NEW word, Starts(d, word), Clean', backend = "fido2",
           OneProcess, OneSecret
    PROVE  OneSecret'
  <1>0. /\ Shapes /\ Requests /\ IsMap(mp) /\ phase = [o \in Daemons |-> phase[o]]
        /\ Credited
    BY DEF IInv, Shapes
  <1>1. req' = req /\ phase[d] # "up"
    BY <1>0, StartsMove DEF StartMoves
  <1>2. \A o \in Daemons \ {d} : phase[o] = "off"
    BY StartsAlone DEF Clean
  <1>3. \A h \in Handlers : ~HasWord(req'[h])
    BY <1>0, <1>1, <1>2, NobodyAsks
  <1> USE DEF fileVars, daemonVars, histVars
  <1>4. CASE Enrol(d)
    <2>1. /\ phase' = [phase EXCEPT ![d] = "enrolled"] /\ state_file = "absent"
          /\ state_file' = state_file /\ file' = file
      BY <1>4 DEF Enrol, Enrolled
    <2> QED BY <1>0, <1>2, <1>3, <2>1 DEF OneSecret, HasWord
  <1>5. CASE SaveCredential(d)
    <2>1. /\ phase' = [phase EXCEPT ![d] = "keyed"] /\ phase[d] = "enrolled"
          /\ state_file' = mp[d] /\ file' = file /\ mp' = mp
      BY <1>5 DEF SaveCredential
    <2>2. state_file' \notin {"absent", "torn"} /\ file.state # "whole"
      BY <1>0, <2>1, AgentAssumption DEF Credited, OneSecret
    <2> QED BY <1>0, <1>2, <1>3, <2>1, <2>2 DEF OneSecret, HasWord
  <1>6. CASE StartChecks(d, word) \/ StartForeground(d, word)
    <2>1. /\ mp' = [mp EXCEPT ![d] = word] /\ file' = file
          /\ \/ phase' = [phase EXCEPT ![d] = "checked"]
             \/ phase' = [phase EXCEPT ![d] = "spawned"]
          /\ state_file' = state_file /\ Retrieves(d, word)
      BY <1>6 DEF StartChecks, StartForeground
    <2>2. state_file \notin {"absent", "torn"} /\ word = state_file
      BY <2>1 DEF Retrieves, Secret, Enrolled, OneSecret, Clean
    <2>3. mp'[d] = word /\ \A o \in Daemons \ {d} : phase'[o] = "off"
      BY <1>0, <1>2, <2>1 DEF IsMap
    <2>4. phase'[d] \notin {"off", "enrolled"}
      BY <1>0, <2>1
    <2> QED BY <1>3, <2>1, <2>2, <2>3, <2>4 DEF OneSecret, HasWord
  <1>7. CASE ParentSpawns(d) \/ ChildListens(d)
    <2>1. /\ mp' = mp /\ file' = file /\ state_file' = state_file
          /\ phase[d] \notin {"off", "enrolled"}
          /\ \/ phase' = [phase EXCEPT ![d] = "spawned"]
             \/ phase' = [phase EXCEPT ![d] = "listening"]
      BY <1>7 DEF ParentSpawns, ChildListens
    <2> QED BY <1>0, <1>3, <2>1 DEF OneSecret, HasWord
  <1> QED BY <1>4, <1>5, <1>6, <1>7 DEF Starts

LEMMA OneSecretKept ==
    ASSUME IInv, Next, Clean', backend' = "fido2"
    PROVE  OneSecret'
  <1> USE DEF fileVars, daemonVars, histVars
  <1>0. /\ Shapes /\ Requests /\ Clean /\ OneProcess /\ OneProcess'
        /\ IsMap(mp) /\ phase = [o \in Daemons |-> phase[o]]
    BY CleanBefore DEF IInv, Shapes
  <1>1. backend = "fido2"
    <2>1. ASSUME NEW d \in Daemons, NEW word, Starts(d, word) PROVE backend = "fido2"
      BY <2>1 DEF Starts, Enrol, SaveCredential, StartChecks, StartForeground, ParentSpawns,
         ChildListens
    <2>2. ASSUME NEW d \in Daemons, WritesPid(d) \/ Ends(d) PROVE backend = "fido2"
      BY <2>2 DEF WritesPid, Ends, Terminate, Crash, CrashInEnrol, CrashInSave
    <2>3. ASSUME NEW h \in Handlers, Ask(h) \/ HandlerStep(h) PROVE backend = "fido2"
      BY <2>3, RequestsKeepFiles
    <2> QED BY <1>0, <2>1, <2>2, <2>3, Steps
  <1>2. OneSecret
    BY <1>0, <1>1 DEF IInv
  <1>3. ASSUME NEW d \in Daemons, NEW word, Starts(d, word) PROVE OneSecret'
    BY <1>0, <1>1, <1>2, <1>3, StartsKeepSecret
  <1>4. ASSUME NEW d \in Daemons, WritesPid(d) PROVE OneSecret'
    <2>1. /\ phase[d] = "listening" /\ phase' = [phase EXCEPT ![d] = "up"]
          /\ req' = req /\ mp' = mp /\ file' = file /\ state_file' = state_file
      BY <1>4 DEF WritesPid
    <2> QED BY <1>0, <1>2, <2>1 DEF OneSecret
  <1>5. ASSUME NEW d \in Daemons, Ends(d) PROVE OneSecret'
    <2>1. Gone(d)
      BY <1>5, EndsGone
    <2>2. \A o \in Daemons : phase'[o] # "off" => phase'[o] = phase[o] /\ mp'[o] = mp[o]
      BY <1>0, <2>1, GoneTakesRequests
    <2>3. \A h \in Handlers : HasWord(req'[h]) => req'[h] = req[h]
      BY <1>0, <2>1, GoneTakesRequests, NoRequestAsksNothing DEF HasWord
    <2>4. file' = file
      BY <1>5 DEF Ends, Terminate, Crash, CrashInEnrol, CrashInSave, Clean
    <2>5. CASE state_file' = state_file
      BY <1>2, <2>2, <2>3, <2>4, <2>5 DEF OneSecret, HasWord
    <2>6. CASE CrashInEnrol(d)
      <3>1. phase[d] = "enrolled" /\ state_file' = "torn"
        BY <2>6 DEF CrashInEnrol
      <3>2. file.state # "whole"
        BY <1>2, <3>1 DEF OneSecret
      <3>3. phase'[d] = "off" /\ \A o \in Daemons : o # d => phase'[o] = phase[o]
        BY <1>0, <2>1, GoneTakesRequests
      <3>4. \A o \in Daemons : phase'[o] = "off"
        BY <1>0, <3>1, <3>3 DEF OneProcess
      <3>5. \A o \in Daemons : phase[o] # "up"
        BY <1>0, <3>1 DEF OneProcess
      <3>6. \A h \in Handlers : ~HasWord(req'[h])
        BY <1>0, <3>5, <2>3, NobodyAsks
      <3> QED BY <2>4, <3>2, <3>4, <3>6 DEF OneSecret, HasWord
    <2> QED BY <1>5, <2>5, <2>6 DEF Ends, Terminate, Crash, CrashInSave
  <1>6. ASSUME NEW h \in Handlers, Ask(h) PROVE OneSecret'
    <2>1. mp' = mp /\ file' = file /\ state_file' = state_file /\ phase' = phase
      BY <1>6 DEF Ask
    <2>2. Apart(h) /\ ~HasWord(req'[h])
      BY <1>0, <1>6, AskBrings DEF HasWord
    <2>3. \A o \in Handlers : HasWord(req'[o]) => req'[o] = req[o]
      BY <2>2 DEF Apart
    <2> QED BY <1>2, <2>1, <2>3 DEF OneSecret, HasWord
  <1>7. ASSUME NEW h \in Handlers, HandlerStep(h) PROVE OneSecret'
    BY <1>1, <1>2, <1>7, HandlerKeepsSecret
  <1> QED BY <1>0, <1>3, <1>4, <1>5, <1>6, <1>7, Steps

-----------------------------------------------------------------------------
(* The theorems *)

LEMMA Initially == Init => IInv
  <1> SUFFICES ASSUME Init PROVE IInv
    OBVIOUS
  <1> USE NoRequestAsksNothing DEF Init
  <1>1. Shapes
    BY DEF Shapes, IsMap, Phases
  <1>2. Requests
    BY DEF Requests, Served
  <1>3. LockedKeepsNoKey /\ Credited /\ OneProcess
    BY DEF LockedKeepsNoKey, Credited, OneProcess, Serving
  <1>4. Absent.state = "absent" /\ Absent.entries = {}
    BY DEF Absent
  <1>5. KeysKept /\ OneSecret
    BY <1>4 DEF KeysKept, Ruined, OneSecret, Serving
  <1> QED BY <1>1, <1>2, <1>3, <1>5 DEF IInv

LEMMA Inductive == IInv /\ [Next]_vars => IInv'
  <1> SUFFICES ASSUME IInv, [Next]_vars PROVE IInv'
    OBVIOUS
  <1>1. CASE Next
    <2>1. Shapes' /\ Requests'
      BY <1>1, ShapesKept DEF IInv
    <2>2. LockedKeepsNoKey' /\ Credited'
      BY <1>1, LockedKept, CreditedKept
    <2>3. Clean' => OneProcess'
      BY <1>1, OneProcessKept
    <2>4. Clean' => KeysKept'
      BY <1>1, KeysKeptKept
    <2>5. Clean' /\ backend' = "fido2" => OneSecret'
      BY <1>1, OneSecretKept
    <2> QED BY <2>1, <2>2, <2>3, <2>4, <2>5 DEF IInv
  <1>2. CASE UNCHANGED vars
    BY <1>2 DEF vars, daemonVars, fileVars, histVars, IInv, Shapes, IsMap, Requests, Served,
       LockedKeepsNoKey, At, Credited, OneProcess, Serving, Clean, KeysKept, Ruined, OneSecret
  <1> QED BY <1>1, <1>2

(* The state is what IInv says, for any number of processes, connections,  *)
(* keys, passphrases and events.                                           *)
THEOREM Invariant == Spec => []IInv
  BY Initially, Inductive, PTL DEF Spec

(* After a Lock only keys added to the locked agent can be used, however   *)
(* Lock, Unlock and the other requests interleave.                         *)
THEOREM LockedHolds == Spec => []LockedKeepsNoKey
  <1>1. IInv => LockedKeepsNoKey
    BY DEF IInv
  <1> QED BY <1>1, Invariant, PTL

(* An acknowledged key stays in the vault file, but for the excuses.       *)
THEOREM AckedHolds == Spec => []AckedKeysAreKept
  <1>1. IInv => AckedKeysAreKept
    BY DEF IInv, Clean, KeysKept, Ruined, AckedKeysAreKept
  <1> QED BY <1>1, Invariant, PTL

(* The vault is encrypted with the secret of the credential on disk.       *)
THEOREM KeyOpensHolds == Spec => []KeyOpensVault
  <1>1. IInv => KeyOpensVault
    BY DEF IInv, Clean, OneSecret, KeyOpensVault
  <1> QED BY <1>1, Invariant, PTL

-----------------------------------------------------------------------------
(* Types: nothing but a key whose file is on the disk gets into a map, a   *)
(* vault or the vault file, and nothing but a word a user typed or the     *)
(* secret of a credential becomes a passphrase.                            *)

Sane(r) ==
    /\ r.read \subseteq Keys
    /\ r.op \in {"add", "remove"} => r.key \in Keys
    /\ r.op = "unlock" => r.word \in Words

Passphrases == Words \cup Credentials

Contents ==
    /\ file.entries \subseteq Keys
    /\ \A d \in Daemons : ident[d] \subseteq Keys /\ vault[d] \subseteq Keys /\ mp[d] \in Passphrases

Names ==
    /\ {socket, lock_file} \subseteq Daemons \cup {None, Dead}
    /\ backend \in Backends /\ state_file \in Credentials \cup {"absent", "torn"}

Known == Contents /\ Names /\ \A h \in Handlers : Sane(req[h])

LEMMA NoRequestSane == Sane(NoRequest)
  BY DEF Sane, NoRequest

LEMMA HandlerSane ==
    ASSUME Shapes, Known, NEW h \in Handlers, HandlerStep(h)
    PROVE  \A o \in Handlers : Sane(req'[o])
  <1>1. /\ DOMAIN req = Handlers /\ DOMAIN req[h] = Fields /\ Sane(req[h])
        /\ {"op", "key", "word", "read", "at"} \subseteq DOMAIN req[h]
    BY DEF Shapes, Known, Fields
  <1>2. ASSUME NEW r, req' = [req EXCEPT ![h] = r], Sane(r)
        PROVE  \A o \in Handlers : Sane(req'[o])
    BY <1>1, <1>2 DEF Known
  <1>3. ASSUME NEW place, Goes(h, place) PROVE \A o \in Handlers : Sane(req'[o])
    <2>1. req' = [req EXCEPT ![h] = [req[h] EXCEPT !.at = place]]
      BY <1>1, <1>3 DEF Goes
    <2>2. Sane([req[h] EXCEPT !.at = place])
      BY <1>1 DEF Sane
    <2> QED BY <1>2, <2>1, <2>2
  <1>4. ASSUME Answered(h) PROVE \A o \in Handlers : Sane(req'[o])
    BY <1>2, <1>4, NoRequestSane DEF Answered
  <1>5. CASE QueryAnswers(h) \/ StatusAnswers(h)
    BY <1>3, <1>4, <1>5 DEF QueryAnswers, StatusAnswers
  <1>6. CASE AddTakesPassphrase(h)
    <2> DEFINE r == [[req[h] EXCEPT !.word = mp[req[h].on]] EXCEPT !.at = "map"]
    <2>1. req[h].op = "add" /\ req' = [req EXCEPT ![h] = r]
      BY <1>1, <1>6 DEF AddTakesPassphrase, At
    <2>2. Sane(r)
      BY <1>1, <2>1 DEF Sane
    <2> HIDE DEF r
    <2> QED BY <1>2, <2>1, <2>2
  <1>7. CASE AddInserts(h) \/ AddFails(h) \/ AddSaves(h)
    BY <1>3, <1>4, <1>7 DEF AddInserts, AddFails, AddSaves
  <1>8. CASE RemoveTakes(h) \/ RemoveLocksVault(h) \/ RemoveSaves(h) \/ RemoveAll(h)
    BY <1>3, <1>4, <1>8 DEF RemoveTakes, RemoveLocksVault, RemoveSaves, RemoveAll
  <1>9. CASE LockSetsFlag(h) \/ LockClears(h)
    BY <1>3, <1>4, <1>9 DEF LockSetsFlag, LockClears
  <1>10. CASE UnlockStores(h) \/ UnlockFills(h) \/ UnlockInstalls(h) \/ UnlockClearsFlag(h)
    BY <1>3, <1>4, <1>10 DEF UnlockStores, UnlockFills, UnlockInstalls, UnlockClearsFlag
  <1>11. CASE UnlockReads(h)
    <2> DEFINE r == [[req[h] EXCEPT !.at = "map"] EXCEPT !.read = file.entries]
    <2>1. \/ Goes(h, "flag") \/ Answered(h)
          \/ req' = [req EXCEPT ![h] = r]
      BY <1>1, <1>11 DEF UnlockReads
    <2>2. Sane(r)
      BY <1>1 DEF Sane, Known, Contents
    <2> HIDE DEF r
    <2> QED BY <1>2, <1>3, <1>4, <2>1, <2>2
  <1> QED BY <1>5, <1>6, <1>7, <1>8, <1>9, <1>10, <1>11 DEF HandlerStep

LEMMA AskSane ==
    ASSUME Shapes, Known, NEW h \in Handlers, Ask(h)
    PROVE  \A o \in Handlers : Sane(req'[o])
  <1>1. PICK r : /\ r \in    {Asked("add", "pass", k, "") : k \in Keys}
                       \cup {Asked("remove", "map", k, "") : k \in Keys}
                       \cup {Asked("remove_all", "map", None, ""), Asked("lock", "flag", None, "")}
                       \cup {Asked("unlock", "pass", None, word) : word \in Words}
                       \cup {Asked("query", "map", None, ""), Asked("status", "flag", None, "")}
                 /\ req' = [req EXCEPT ![h] = r]
    BY DEF Ask
  <1>2. ASSUME NEW op, NEW place, NEW key, NEW word, r = Asked(op, place, key, word),
               op \in {"add", "remove"} => key \in Keys, op = "unlock" => word \in Words
        PROVE  Sane(r)
    BY <1>2 DEF Asked, Sane
  <1>3. ASSUME \E k \in Keys : r = Asked("add", "pass", k, "") \/ r = Asked("remove", "map", k, "")
        PROVE  Sane(r)
    BY <1>2, <1>3, Zenon
  <1>4. ASSUME \E word \in Words : r = Asked("unlock", "pass", None, word)
        PROVE  Sane(r)
    BY <1>2, <1>4, Zenon
  <1>5. ASSUME r = Asked("remove_all", "map", None, "") \/ r = Asked("lock", "flag", None, "")
        PROVE  Sane(r)
    BY <1>2, <1>5, Zenon
  <1>6. ASSUME r = Asked("query", "map", None, "") \/ r = Asked("status", "flag", None, "")
        PROVE  Sane(r)
    BY <1>2, <1>6, Zenon
  <1>7. Sane(r)
    BY <1>1, <1>3, <1>4, <1>5, <1>6, Zenon
  <1>8. req' = [req EXCEPT ![h] = r]
    BY <1>1, Zenon
  <1> QED BY <1>7, <1>8 DEF Shapes, Known

(* What a request writes comes from the request, or from where it was.     *)
LEMMA HandlerKeepsContents ==
    ASSUME Shapes, Requests, Known, NEW h \in Handlers, HandlerStep(h)
    PROVE  Contents'
  <1>1. req[h].op # "none" => req[h].on \in Daemons
    BY DEF Requests, Served
  <1>2. Sane(req[h]) /\ Contents /\ IsMap(ident) /\ IsMap(vault) /\ IsMap(mp)
    BY DEF Known, Shapes
  <1> USE DEF Contents, IsMap, daemonVars
  <1>3. CASE QueryAnswers(h) \/ StatusAnswers(h) \/ AddTakesPassphrase(h) \/ AddFails(h)
             \/ RemoveLocksVault(h) \/ LockSetsFlag(h) \/ UnlockReads(h) \/ UnlockClearsFlag(h)
    <2>1. UNCHANGED <<ident, vault, mp, file>>
      BY <1>3 DEF QueryAnswers, StatusAnswers, AddTakesPassphrase, AddFails, RemoveLocksVault,
                  LockSetsFlag, UnlockReads, UnlockClearsFlag
    <2> QED BY <1>2, <2>1
  <1>4. CASE AddInserts(h)
    <2>1. /\ ident' = [ident EXCEPT ![req[h].on] = ident[req[h].on] \cup {req[h].key}]
          /\ req[h].op = "add" /\ UNCHANGED <<vault, mp, file>>
      BY <1>2, <1>4 DEF AddInserts, At
    <2> QED BY <1>1, <1>2, <2>1 DEF Sane
  <1>5. CASE AddSaves(h)
    <2> DEFINE kept == vault[req[h].on] \cup {req[h].key}
    <2>1. /\ vault' = [vault EXCEPT ![req[h].on] = kept]
          /\ file' = file \/ file'.entries = kept \/ file'.entries = {}
          /\ req[h].op = "add" /\ UNCHANGED <<ident, mp>>
      BY <1>5, RuinedFiles, SavedFile DEF AddSaves, SaveFails, At, Upsert
    <2>2. kept \subseteq Keys
      BY <1>1, <1>2, <2>1 DEF Sane
    <2> HIDE DEF kept
    <2> QED BY <1>1, <1>2, <2>1, <2>2
  <1>6. CASE RemoveTakes(h) \/ RemoveAll(h) \/ LockClears(h)
    <2>1. PICK left : /\ left \subseteq ident[req[h].on] /\ ident' = [ident EXCEPT ![req[h].on] = left]
      BY <1>6 DEF RemoveTakes, RemoveAll, LockClears
    <2>2. req[h].op # "none" /\ UNCHANGED <<vault, mp, file>>
      BY <1>6 DEF RemoveTakes, RemoveAll, LockClears, At
    <2> QED BY <1>1, <1>2, <2>1, <2>2
  <1>7. CASE RemoveSaves(h)
    <2>1. /\ file' \in {file, Torn, Cut, Saved(vault[req[h].on], mp[req[h].on])}
          /\ req[h].op # "none" /\ UNCHANGED <<ident, vault, mp>>
      BY <1>7 DEF RemoveSaves, SaveFails, At
    <2>2. file' = file \/ file'.entries = vault[req[h].on] \/ file'.entries = {}
      BY <2>1, RuinedFiles, SavedFile
    <2> QED BY <1>1, <1>2, <2>1, <2>2
  <1>8. CASE UnlockStores(h)
    <2>1. mp' = [mp EXCEPT ![req[h].on] = req[h].word] /\ req[h].op = "unlock"
          /\ UNCHANGED <<ident, vault, file>>
      BY <1>8 DEF UnlockStores, At
    <2> QED BY <1>1, <1>2, <2>1 DEF Sane, Passphrases
  <1>9. CASE UnlockFills(h)
    <2>1. ident' = [ident EXCEPT ![req[h].on] = req[h].read] /\ UNCHANGED <<vault, mp, file>>
      BY <1>9 DEF UnlockFills
    <2> QED BY <1>2, <2>1 DEF Sane
  <1>10. CASE UnlockInstalls(h)
    <2>1. vault' = [vault EXCEPT ![req[h].on] = req[h].read] /\ UNCHANGED <<ident, mp, file>>
      BY <1>10 DEF UnlockInstalls
    <2> QED BY <1>2, <2>1 DEF Sane
  <1> QED BY <1>3, <1>4, <1>5, <1>6, <1>7, <1>8, <1>9, <1>10 DEF HandlerStep

(* A start takes its passphrase from the user or from the credential, and  *)
(* its keys from the vault file.                                           *)
LEMMA StartsKnow ==
    ASSUME IInv, Known, NEW d \in Daemons, NEW word \in Passphrases,
           Starts(d, word) \/ WritesPid(d)
    PROVE  Known'
  <1>1. Contents /\ Names /\ IsMap(ident) /\ IsMap(vault) /\ IsMap(mp) /\ Credited
    BY DEF Known, IInv, Shapes
  <1>2. req' = req
    BY DEF Starts, Enrol, SaveCredential, StartChecks, StartForeground, ParentSpawns, ChildListens,
           WritesPid
  <1>3. \A h \in Handlers : Sane(req'[h])
    BY <1>2 DEF Known
  <1>4. ASSUME file' = file, UNCHANGED <<ident, vault>>, NEW w \in Passphrases,
               mp' = mp \/ mp' = [mp EXCEPT ![d] = w]
        PROVE  Contents'
    BY <1>1, <1>4 DEF Contents, IsMap
  <1>5. CASE Enrol(d)
    <2>1. PICK w \in Credentials : mp' = [mp EXCEPT ![d] = w]
      BY <1>5 DEF Enrol
    <2>2. Contents'
      BY <1>4, <1>5, <2>1 DEF Enrol, Passphrases
    <2>3. Names'
      BY <1>1, <1>5 DEF Enrol, Names, fileVars
    <2> QED BY <1>3, <2>2, <2>3 DEF Known
  <1>6. CASE SaveCredential(d)
    <2>1. mp[d] \in Credentials
      BY <1>1, <1>6 DEF SaveCredential, Credited
    <2> QED BY <1>1, <1>3, <1>4, <1>6, <2>1 DEF SaveCredential, Names, daemonVars, Known
  <1>7. CASE StartChecks(d, word) \/ StartForeground(d, word)
    BY <1>1, <1>3, <1>4, <1>7 DEF StartChecks, StartForeground, Names, fileVars, Known
  <1>8. CASE ParentSpawns(d) \/ WritesPid(d)
    BY <1>1, <1>3, <1>4, <1>8 DEF ParentSpawns, WritesPid, Names, daemonVars, Known
  <1>9. CASE ChildListens(d)
    <2>1. PICK found : /\ ident' = [ident EXCEPT ![d] = found] /\ vault' = [vault EXCEPT ![d] = found]
                       /\ found \in {{}, file.entries}
      BY <1>9 DEF ChildListens
    <2>2. UNCHANGED <<mp, file>> /\ socket' = d /\ UNCHANGED <<lock_file, backend, state_file>>
      BY <1>9 DEF ChildListens
    <2>3. found \subseteq Keys
      BY <1>1, <2>1 DEF Contents
    <2>4. Contents'
      BY <1>1, <2>1, <2>2, <2>3 DEF Contents, IsMap
    <2> QED BY <1>1, <1>3, <2>2, <2>4 DEF Names, Known
  <1> QED BY <1>5, <1>6, <1>7, <1>8, <1>9 DEF Starts

LEMMA EndsKnow ==
    ASSUME IInv, Known, NEW d \in Daemons, Ends(d)
    PROVE  Known'
  <1>1. Contents /\ Names /\ Shapes /\ Gone(d)
    BY EndsGone DEF Known, IInv
  <1>2. \A h \in Handlers : Sane(req'[h])
    BY <1>1, GoneTakesRequests, NoRequestSane DEF Known
  <1>3. file' \in {file, Torn, Cut}
    BY DEF Ends, Terminate, Crash, CrashInEnrol, CrashInSave
  <1>4. Contents'
    <2>1. "" \in Passphrases /\ Torn.entries = {} /\ Cut.entries = {}
      BY AgentAssumption, RuinedFiles DEF Passphrases
    <2>2. /\ ident' = [ident EXCEPT ![d] = {}] /\ vault' = [vault EXCEPT ![d] = {}]
          /\ mp' = [mp EXCEPT ![d] = ""]
      BY <1>1 DEF Gone
    <2> QED BY <1>1, <1>3, <2>1, <2>2 DEF Contents, Shapes, IsMap
  <1>5. Names'
    BY <1>1 DEF Ends, Terminate, Crash, CrashInEnrol, CrashInSave, Leave, Names
  <1> QED BY <1>2, <1>4, <1>5 DEF Known

LEMMA KnownKept == ASSUME IInv, Known, [Next]_vars PROVE Known'
  <1>1. ASSUME NEW h \in Handlers, Ask(h) \/ HandlerStep(h) PROVE Known'
    <2>1. \A o \in Handlers : Sane(req'[o])
      BY <1>1, AskSane, HandlerSane DEF IInv
    <2>2. Names'
      BY <1>1, RequestsKeepFiles DEF Known, Names
    <2>3. Contents'
      <3>1. CASE Ask(h)
        BY <3>1 DEF Ask, daemonVars, Known, Contents
      <3> QED BY <1>1, <3>1, HandlerKeepsContents DEF IInv
    <2> QED BY <2>1, <2>2, <2>3 DEF Known
  <1>2. CASE UNCHANGED vars
    BY <1>2 DEF vars, daemonVars, fileVars, Known, Contents, Names, Sane
  <1>3. ASSUME NEW d \in Daemons, NEW word \in Passphrases,
               StartChecks(d, word) \/ StartForeground(d, word)
        PROVE  Known'
    BY <1>3, StartsKnow DEF Starts
  <1>4. ASSUME NEW d \in Daemons,
               Enrol(d) \/ SaveCredential(d) \/ ParentSpawns(d) \/ ChildListens(d) \/ WritesPid(d)
        PROVE  Known'
    <2>1. "" \in Passphrases
      BY AgentAssumption DEF Passphrases
    <2> QED BY <1>4, <2>1, StartsKnow DEF Starts
  <1>5. ASSUME NEW d \in Daemons, Terminate(d) \/ Crash(d) \/ CrashInEnrol(d) PROVE Known'
    BY <1>5, EndsKnow DEF Ends
  <1>6. ASSUME NEW h \in Handlers, CrashInSave(h) PROVE Known'
    <2>1. req[h].on \in Daemons
      BY <1>6 DEF IInv, Requests, Served, CrashInSave, At
    <2> QED BY <1>6, <2>1, EndsKnow DEF Ends
  <1> QED BY <1>1, <1>2, <1>3, <1>4, <1>5, <1>6 DEF Next, Passphrases

LEMMA KnownAtFirst == Init => Known
  <1> SUFFICES ASSUME Init PROVE Known
    OBVIOUS
  <1>1. PICK w \in Passphrases : mp = [d \in Daemons |-> w]
    BY AgentAssumption, Zenon DEF Init, Passphrases
  <1>2. /\ ident = [d \in Daemons |-> {}] /\ vault = [d \in Daemons |-> {}] /\ file.entries = {}
        /\ req = [h \in Handlers |-> NoRequest]
        /\ socket = None /\ lock_file = None /\ backend \in Backends /\ state_file = "absent"
    BY DEF Init, Absent
  <1> QED BY <1>1, <1>2, NoRequestSane DEF Known, Contents, Names

(* The agent's variables keep their types, and no connection is served but *)
(* by a process that is up.                                                *)
THEOREM TypeCorrect == Spec => []TypeOK
  <1>1. IInv /\ Known /\ [Next]_vars => Known'
    BY KnownKept
  <1>2. IInv /\ Known => TypeOK
    BY DEF IInv, Known, Contents, Names, Shapes, Phases, Requests, Served, Passphrases, TypeOK
  <1> QED BY <1>1, <1>2, KnownAtFirst, Invariant, PTL DEF Spec
=============================================================================
