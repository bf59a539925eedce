----------------------------- MODULE StateSync -----------------------------
(***************************************************************************)
(* DiffMode::StateSync, both ends of one connection: the server's PTY      *)
(* reader and state-sync task (moshpits/src/runtime.rs), the UDP path, and *)
(* the client's reader (libmoshpit/src/udp/reader.rs).                     *)
(*                                                                         *)
(* A frame that arrives behind a later one is dropped (handle_arrival      *)
(* 582-593), so a direction of the path is a queue that loses frames.      *)
(* Screens are numbered in the order the server displays them; the server  *)
(* handles screens by their version, the client by what is on them.        *)
(*                                                                         *)
(* diff_counter grows for ever in the code and ids are only compared for   *)
(* equality, so a fresh id is here any id in use nowhere.                  *)
(*                                                                         *)
(* Over TCP (tcp_transport/mod.rs) the tasks and frames are the same, and  *)
(* the client runs the same algorithm out of udp/statesync.rs; a           *)
(* connection over TCP is a behaviour without LoseFrame.                   *)
(*                                                                         *)
(* An operator Bug_X is X with a mistake this code could have.             *)
(***************************************************************************)
EXTENDS Naturals, Sequences, FiniteSets, SequencesExt

CONSTANTS
    Cells, Vals, Space,   \* a screen shows a value in each cell
    AltScreens,           \* may programs use the alternate screen?
    HistoryLen,           \* STATESYNC_HISTORY_LEN (32)
    MismatchLimit,        \* mismatches before a RepaintRequest (3)
    LargeDiff,            \* changed cells that exceed MAX_STATESYNC_DIFF_BYTES
    ChunkCounts,          \* datagrams a full state can take
    Resumed,              \* does the connection resume a session?
    MaxOutput,            \* bound on the screens displayed
    MaxInFlight,          \* bound on the frames on their way to the client
    MaxLosses,            \* bound on the frames lost
    LosesPushes,          \* may a full state be lost, or only diffs and acks?
    Ids                   \* diff ids

ASSUME StateSyncAssumption ==
    /\ Space \in Vals
    /\ IsFiniteSet(Cells)
    /\ AltScreens \in BOOLEAN /\ Resumed \in BOOLEAN /\ LosesPushes \in BOOLEAN
    /\ HistoryLen \in Nat \ {0} /\ MismatchLimit \in Nat \ {0} /\ LargeDiff \in Nat
    /\ ChunkCounts \subseteq Nat \ {0}
    /\ MaxOutput \in Nat /\ MaxInFlight \in Nat /\ MaxLosses \in Nat
    /\ Ids \subseteq Nat \ {0}

VARIABLES
    screens,                  \* every screen displayed so far
    processed,                \* is the reader between process and fetch_add?
    dirty_counter,
    last_dirty, last_current, ack_dirty,          \* the task's idle check
    ack_diff_id, ack_state,                       \* the server's baseline
    diff_counter, sent_states,
    down,                                         \* frames to the client
    client_acks, repaints,                        \* frames to the server
    initial_state_received,
    ack_state_seq, client_state,                  \* the client's baseline
    statesync_mismatch_count,
    pending,                                      \* chunks assembled so far
    seen,                                         \* history: version shown
    losses

display  == <<screens, processed, dirty_counter>>
idle     == <<last_dirty, last_current, ack_dirty>>
baseline == <<ack_diff_id, ack_state, sent_states>>
up       == <<client_acks, repaints>>
client   == <<initial_state_received, ack_state_seq, client_state,
              statesync_mismatch_count, pending, seen>>
vars     == <<display, idle, baseline, diff_counter, down, up, client, losses>>

Screen  == [alt : BOOLEAN, cells : [Cells -> Vals]]
Empty   == [c \in Cells |-> Space]
Blank   == [alt |-> FALSE, cells |-> Empty]
Latest  == Cardinality(DOMAIN screens) - 1
Nothing == [c \in {} |-> Space]
NoChunk == [seq |-> 0, total |-> 0, data |-> {}]
Smaller(a, b) == IF a < b THEN a ELSE b

-----------------------------------------------------------------------------
(* Diffs, as the vt100 crate makes and applies them.                       *)

Changed(from, to) == {c \in Cells : from.cells[c] # to.cells[c]}

IsEmptyDiff(from, to) == from.alt = to.alt /\ Changed(from, to) = {}

(* The bytes that turn screen from into screen to, processed by a terminal *)
(* that shows on.  Switching to the alternate screen clears it; switching  *)
(* back shows a main screen that a parser fed with on has never written.   *)
Apply(from, to, on) ==
    LET switch == from.alt # to.alt
        under  == IF switch /\ (to.alt \/ on.alt) THEN Empty ELSE on.cells
    IN  [alt   |-> IF switch THEN to.alt ELSE on.alt,
         cells |-> [c \in Cells |-> IF c \in Changed(from, to) THEN to.cells[c]
                                                               ELSE under[c]]]

-----------------------------------------------------------------------------
(* Frames to the client.  A full state is its formatted contents, which do *)
(* not say which of the two screens they are on.                           *)

Full(v)            == [type |-> "full", version |-> v]
Chunk(i, n, v)     == [type |-> "chunk", seq |-> i, total |-> n, version |-> v]
DiffFrame(b, i, f, t) == [type |-> "diff", base |-> b, id |-> i, from |-> f, to |-> t]

ClientInit ==
    /\ initial_state_received = FALSE
    /\ ack_state_seq = 0 /\ client_state = Blank
    /\ statesync_mismatch_count = 0 /\ pending = NoChunk

Init ==
    /\ IF Resumed
       THEN \E s \in Screen : /\ s.alt => AltScreens
                              /\ screens = [v \in 0..1 |-> IF v = 0 THEN Blank ELSE s]
                              /\ down = <<Full(1)>>
       ELSE screens = [v \in 0..0 |-> Blank] /\ down = <<>>
    /\ processed = FALSE
    /\ dirty_counter = 0 /\ last_dirty = 0 /\ last_current = Nothing /\ ack_dirty = TRUE
    /\ ack_diff_id = 0 /\ ack_state = 0 /\ diff_counter = 0 /\ sent_states = <<>>
    /\ client_acks = {} /\ repaints = 0
    /\ ClientInit
    /\ seen = 0 /\ losses = 0

-----------------------------------------------------------------------------
(* spawn_pty_reader: output first reaches the emulator, then the counter.  *)

(* The counter first. *)
Bug_ReadPty(s) ==
    /\ \/ /\ ~processed /\ Latest < MaxOutput
          /\ processed' = TRUE /\ dirty_counter' = dirty_counter + 1
          /\ UNCHANGED screens
       \/ /\ processed
          /\ s.alt => AltScreens
          /\ screens' = [v \in 0..(Latest+1) |-> IF v = Latest + 1 THEN s ELSE screens[v]]
          /\ processed' = FALSE
          /\ UNCHANGED dirty_counter
    /\ UNCHANGED <<idle, baseline, diff_counter, down, up, client, losses>>

ReadPty(s) ==
    /\ \/ /\ ~processed /\ Latest < MaxOutput
          /\ s.alt => AltScreens
          /\ screens' = [v \in 0..(Latest+1) |-> IF v = Latest + 1 THEN s ELSE screens[v]]
          /\ processed' = TRUE
          /\ UNCHANGED dirty_counter
       \/ /\ processed
          /\ processed' = FALSE /\ dirty_counter' = dirty_counter + 1
          /\ UNCHANGED screens
    /\ UNCHANGED <<idle, baseline, diff_counter, down, up, client, losses>>

-----------------------------------------------------------------------------
(* The state-sync task of handle_connection, one action per branch.        *)

Current == screens[Latest]

(* The state pushed is the one to diff against. *)
Bug_PushFull ==
    \E n \in ChunkCounts :
        /\ Len(down) + n <= MaxInFlight
        /\ down' = down \o IF n = 1 THEN <<Full(ack_state)>>
                           ELSE [i \in 1..n |-> Chunk(i - 1, n, ack_state)]

(* send_state_chunked: a full state goes out in as many frames as it needs. *)
PushFull ==
    \E n \in ChunkCounts :
        /\ Len(down) + n <= MaxInFlight
        /\ down' = down \o IF n = 1 THEN <<Full(Latest)>>
                           ELSE [i \in 1..n |-> Chunk(i - 1, n, Latest)]

(* What was pushed becomes the baseline, under the id 0.                   *)
RestartFrom(v) == ack_state' = v /\ ack_diff_id' = 0 /\ sent_states' = <<>>

AnswerRepaint ==
    /\ repaints > 0
    /\ PushFull
    /\ RestartFrom(Latest)
    /\ ack_dirty' = TRUE
    /\ repaints' = repaints - 1
    /\ UNCHANGED <<display, last_dirty, last_current, diff_counter, client_acks,
                   client, losses>>

Entries == DOMAIN sent_states

(* The id is taken over without the state recorded under it. *)
Bug_ApplyClientAck(id) ==
    IF \E i \in Entries : sent_states[i].id = id
    THEN \E i \in Entries :
            /\ sent_states[i].id = id
            /\ ack_diff_id' = id
            /\ sent_states' = SubSeq(sent_states, i + 1, Len(sent_states))
            /\ ack_dirty' = TRUE
            /\ UNCHANGED ack_state
    ELSE UNCHANGED <<baseline, ack_dirty>>

(* apply_client_ack: the state recorded under the id becomes the baseline. *)
ApplyClientAck(id) ==
    IF \E i \in Entries : sent_states[i].id = id
    THEN \E i \in Entries :
            /\ sent_states[i].id = id
            /\ ack_state' = sent_states[i].state /\ ack_diff_id' = id
            /\ sent_states' = SubSeq(sent_states, i + 1, Len(sent_states))
            /\ ack_dirty' = TRUE
    ELSE UNCHANGED <<baseline, ack_dirty>>

AckArrives(id) ==
    /\ id \in client_acks
    /\ client_acks' = client_acks \ {id}
    /\ ApplyClientAck(id)
    /\ UNCHANGED <<display, last_dirty, last_current, diff_counter, down, repaints,
                   client, losses>>

InUse == {sent_states[i].id : i \in Entries} \cup client_acks
         \cup {ack_state_seq, ack_diff_id, diff_counter}
         \cup UNION {{m.id, m.base} : m \in {d \in Range(down) : d.type = "diff"}}

(* The ring drops its oldest entry when it is full. *)
Record(entry) ==
    LET longer == Append(sent_states, entry)
    IN  sent_states' = IF Len(longer) > HistoryLen THEN Tail(longer) ELSE longer

(* The diff starts from the last state sent, not the last acknowledged. *)
Bug_SendDiff ==
    \E id \in Ids \ InUse :
        LET last == IF sent_states = <<>> THEN ack_state ELSE Last(sent_states).state
        IN  /\ \A other \in Ids \ InUse : id <= other
            /\ Len(down) < MaxInFlight
            /\ down' = Append(down, DiffFrame(ack_diff_id, id, last, Latest))
            /\ diff_counter' = id
            /\ Record([id |-> id, state |-> Latest])
            /\ UNCHANGED <<ack_diff_id, ack_state>>

SendDiff ==
    \E id \in Ids \ InUse :
        /\ \A other \in Ids \ InUse : id <= other
        /\ Len(down) < MaxInFlight
        /\ down' = Append(down, DiffFrame(ack_diff_id, id, ack_state, Latest))
        /\ diff_counter' = id
        /\ Record([id |-> id, state |-> Latest])
        /\ UNCHANGED <<ack_diff_id, ack_state>>

NothingNew ==
    /\ dirty_counter = last_dirty \/ Current.cells = last_current
    /\ ~ack_dirty
    /\ ack_diff_id = diff_counter

SyncTick ==
    /\ ~NothingNew
    /\ LET from == screens[ack_state]
           large == Cardinality(Changed(from, Current)) >= LargeDiff
       IN  \/ /\ IsEmptyDiff(from, Current)
              /\ UNCHANGED <<baseline, diff_counter, down>>
           \/ /\ ~IsEmptyDiff(from, Current) /\ large
              /\ PushFull
              /\ RestartFrom(Latest)
              /\ UNCHANGED diff_counter
           \/ /\ ~IsEmptyDiff(from, Current) /\ ~large
              /\ SendDiff
    /\ last_current' = Current.cells /\ last_dirty' = dirty_counter
    /\ ack_dirty' = FALSE
    /\ UNCHANGED <<display, up, client, losses>>

-----------------------------------------------------------------------------
(* The path loses frames.                                                  *)

Lossy(m) == m.type = "diff" \/ LosesPushes

LoseFrame ==
    /\ losses < MaxLosses
    /\ losses' = losses + 1
    /\ \/ \E i \in DOMAIN down : Lossy(down[i]) /\ down' = RemoveAt(down, i) /\ UNCHANGED up
       \/ \E id \in client_acks : client_acks' = client_acks \ {id} /\ UNCHANGED <<down, repaints>>
       \/ repaints > 0 /\ repaints' = repaints - 1 /\ UNCHANGED <<down, client_acks>>
    /\ UNCHANGED <<display, idle, baseline, diff_counter, client>>

-----------------------------------------------------------------------------
(* The client's frame loop.                                                *)

(* Two requests and more on their way count as two. *)
RequestRepaint == repaints' = Smaller(repaints + 1, 2)

(* The contents are taken to be on the screen, alternate or main, that the *)
(* client shows.                                                           *)
ApplyContents(cells, v) ==
    /\ client_state' = [alt |-> client_state.alt, cells |-> cells]
    /\ ack_state_seq' = 0 /\ statesync_mismatch_count' = 0
    /\ initial_state_received' = TRUE
    /\ seen' = v
    /\ UNCHANGED up

ApplyFullState(v) == ApplyContents(screens[v].cells, v)

(* apply_chunk.  A chunk does not say which push it is of; the bytes have  *)
(* no checksum, so chunks of two pushes decompress to an error, which is   *)
(* only logged, or to anything.                                            *)
Assembled(m) ==
    (IF m.seq = 0 THEN {} ELSE pending.data) \cup {screens[m.version].cells}

Mixed(m) == Cardinality(Assembled(m)) # 1

Decompressed(m) == IF Mixed(m) THEN [Cells -> Vals] ELSE Assembled(m)

ChunkFits(m) == m.seq = 0 \/ (m.seq = pending.seq /\ m.total = pending.total)

ChunkAdds(m) ==
    /\ ChunkFits(m) /\ m.seq + 1 < m.total
    /\ pending' = [seq |-> m.seq + 1, total |-> m.total, data |-> Assembled(m)]
    /\ UNCHANGED <<up, initial_state_received, ack_state_seq, client_state,
                   statesync_mismatch_count, seen>>

ChunkCompletes(m) ==
    /\ ChunkFits(m) /\ m.seq + 1 = m.total
    /\ pending' = NoChunk
    /\ \/ \E cells \in Decompressed(m) : ApplyContents(cells, m.version)
       \/ /\ Mixed(m)
          /\ UNCHANGED <<up, initial_state_received, ack_state_seq, client_state,
                         statesync_mismatch_count, seen>>

ChunkIsStale(m) ==
    /\ ~ChunkFits(m)
    /\ pending' = NoChunk
    /\ RequestRepaint
    /\ UNCHANGED <<client_acks, initial_state_received, ack_state_seq,
                   client_state, statesync_mismatch_count, seen>>

HandleChunk(m) == ChunkAdds(m) \/ ChunkCompletes(m) \/ ChunkIsStale(m)

(* apply_diff *)
DiffTooEarly ==
    /\ ~initial_state_received
    /\ RequestRepaint
    /\ UNCHANGED <<client_acks, ack_state_seq, client_state, statesync_mismatch_count, seen>>

DiffMismatches(m) ==
    /\ initial_state_received /\ m.base # ack_state_seq
    /\ IF statesync_mismatch_count + 1 >= MismatchLimit
       THEN statesync_mismatch_count' = 0 /\ RequestRepaint
       ELSE statesync_mismatch_count' = statesync_mismatch_count + 1 /\ UNCHANGED repaints
    /\ UNCHANGED <<client_acks, ack_state_seq, client_state, seen>>

DiffApplies(m) ==
    /\ initial_state_received /\ m.base = ack_state_seq
    /\ client_state' = Apply(screens[m.from], screens[m.to], client_state)
    /\ ack_state_seq' = m.id /\ statesync_mismatch_count' = 0
    /\ seen' = m.to
    /\ client_acks' = client_acks \cup {m.id}
    /\ UNCHANGED repaints

HandleDiff(m) == DiffTooEarly \/ DiffMismatches(m) \/ DiffApplies(m)

Receive ==
    /\ down # <<>>
    /\ down' = Tail(down)
    /\ LET m == Head(down)
       IN  \/ m.type = "full"  /\ ApplyFullState(m.version) /\ UNCHANGED pending
           \/ m.type = "chunk" /\ HandleChunk(m)
           \/ m.type = "diff"  /\ HandleDiff(m) /\ UNCHANGED <<pending, initial_state_received>>
    /\ UNCHANGED <<display, idle, baseline, diff_counter, losses>>

-----------------------------------------------------------------------------
Next ==
    \/ \E s \in Screen : ReadPty(s)
    \/ AnswerRepaint
    \/ \E id \in Ids : AckArrives(id)
    \/ SyncTick
    \/ LoseFrame
    \/ Receive

(* The tasks run on, what is not lost arrives, and the reader marks what   *)
(* it has processed; nothing makes the program write or the path lose.     *)
(* select! picks at random among the branches that are ready, and a branch *)
(* it picks waits for room in the channel: hence the strong fairness.      *)
Fairness ==
    /\ WF_vars(processed /\ \E s \in Screen : ReadPty(s))
    /\ SF_vars(AnswerRepaint)
    /\ WF_vars(\E id \in Ids : AckArrives(id))
    /\ SF_vars(SyncTick)
    /\ WF_vars(Receive)

Spec == Init /\ [][Next]_vars /\ Fairness

-----------------------------------------------------------------------------
(* Properties *)

TypeOK ==
    /\ screens \in [0..Latest -> Screen] /\ Latest \in 0..MaxOutput
    /\ processed \in BOOLEAN
    /\ dirty_counter \in 0..MaxOutput /\ last_dirty \in 0..dirty_counter
    /\ last_current \in {Nothing} \cup [Cells -> Vals]
    /\ ack_dirty \in BOOLEAN
    /\ ack_diff_id \in Ids \cup {0} /\ diff_counter \in Ids \cup {0}
    /\ ack_state \in 0..Latest
    /\ sent_states \in Seq([id : Ids, state : 0..Latest])
    /\ Len(sent_states) <= HistoryLen
    /\ Len(down) <= MaxInFlight
    /\ client_acks \subseteq Ids /\ repaints \in 0..2
    /\ initial_state_received \in BOOLEAN
    /\ ack_state_seq \in Ids \cup {0} /\ client_state \in Screen
    /\ statesync_mismatch_count \in 0..(MismatchLimit-1)
    /\ pending.seq < pending.total \/ pending = NoChunk
    /\ seen \in 0..Latest /\ losses \in 0..MaxLosses

(* A diff is applied only to the screen it was computed from: an id that   *)
(* matches means a baseline that matches.                                  *)
DiffFitsBaseline ==
    LET m == Head(down)
    IN  down # <<>> /\ initial_state_received /\ m.type = "diff" /\ m.base = ack_state_seq
            => client_state = screens[m.from]

(* What the server has recorded under the id the client stands at is what  *)
(* the client shows, whichever of the acks have arrived.                   *)
RecordsTruth ==
    \A i \in Entries : sent_states[i].id = ack_state_seq
        => screens[sent_states[i].state] = client_state

(* An assembly is of one push ("Accumulates chunks in order", reader.rs    *)
(* 1134).  NOT SO when the end of one push and the start of the next are   *)
(* lost and both have as many chunks (LosesPushes).                        *)
ChunksOfOnePush ==
    LET m == Head(down)
    IN  down # <<>> /\ m.type = "chunk" /\ ChunkFits(m) => ~Mixed(m)

(* Once the program writes no more, the client comes to show its screen.   *)
Converges == <>[](client_state = Current)

(* The client shows what the program displayed, and never goes back.       *)
Mirror == INSTANCE ScreenMirror WITH shown <- client_state
ShowsWhatWasDisplayed == Mirror!Spec
=============================================================================
