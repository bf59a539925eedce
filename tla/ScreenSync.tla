----------------------------- MODULE ScreenSync ------------------------------
(***************************************************************************)
(* How the server keeps a client's screen right in the Reliable and the    *)
(* Datagram mode (moshpits/src/runtime.rs).  The thread that reads the PTY *)
(* feeds the server's emulator and sends the same bytes to the client.     *)
(* Four tasks take a snapshot of the emulator and send that: the screen    *)
(* sync, the answer to a RepaintRequest, the periodic push of the Datagram *)
(* mode and the connection-health task; a resume sends one too.  All of    *)
(* them write to one channel, and taking a snapshot, compressing it and    *)
(* sending it are not one step.                                            *)
(*                                                                         *)
(* The server's screen is the number of chunks its emulator has processed; *)
(* a client's is the sequence of chunks it shows.                          *)
(*                                                                         *)
(* An operator Bug_X is X with a mistake this code could have.             *)
(***************************************************************************)
EXTENDS Naturals, Sequences, SequencesExt

CONSTANTS
    DiffMode,       \* "reliable" or "datagram"
    MaxChunks,      \* bound on what the shell prints
    MaxEvents,      \* bound on repaint requests and resumes
    DataCapacity,   \* of the data channel (256)
    LastTier,       \* MTU_TIERS.len() - 1
    PathTier,       \* largest tier whose frames the path carries
    Oversized,      \* screens whose snapshot is too large for the path
    QuietTicks, SuccessTicks,   \* MTU_PROBE_*
    FailThreshold   \* MTU_PROBE_FAIL_THRESHOLD, 3 (10 for a repaint)

ASSUME ScreenAssumption ==
    /\ DiffMode \in {"reliable", "datagram"}
    /\ {MaxChunks, MaxEvents, LastTier, PathTier} \subseteq Nat
    /\ {DataCapacity, QuietTicks, SuccessTicks, FailThreshold} \subseteq Nat \ {0}
    /\ Oversized \subseteq Nat

VARIABLES
    emulator,           \* chunks the server's emulator has processed
    reader, data_tx,    \* where the PTY reader is; is a client attached
    dirty,              \* has dirty_counter moved since the last sync tick
    diff_in_flight,
    repaint_rx,         \* the channel of capacity 1 for repaint requests
    snapshot,           \* what each task has taken and not sent
    asked,              \* history: screen + 1 when a repaint still unanswered
                        \* was asked for; 0 if there is none
    channel,            \* data channel and network of the connection
    client,             \* chunks the client shows, in its order
    health, mtu,        \* the probe's state; effective_mtu, as a tier
    nak_count, events

taskVars   == <<snapshot, repaint_rx, asked>>
probeVars  == <<health, mtu, nak_count>>
syncVars == <<emulator, reader, dirty, data_tx, diff_in_flight, taskVars,
              channel, client, probeVars, events>>

Nothing == MaxChunks + 1
Tasks == {"sync", "repaint", "push", "health", "resume"}

FreshHealth ==
    [tier |-> 0, last_nak |-> 0, quiet |-> 0, probe |-> 0, probing |-> FALSE]

SyncInit ==
    /\ emulator = 0 /\ reader = "reads" /\ data_tx = TRUE
    /\ dirty = TRUE /\ diff_in_flight = FALSE
    /\ repaint_rx = FALSE /\ snapshot = [t \in Tasks |-> Nothing] /\ asked = 0
    /\ channel = <<>> /\ client = <<>>
    /\ health = FreshHealth /\ mtu = 0 /\ nak_count = 0
    /\ events = 0

Event == events < MaxEvents /\ events' = events + 1

-----------------------------------------------------------------------------
(* The thread that reads the PTY.                                          *)

Bytes(n) == [kind |-> "bytes", screen |-> n, tier |-> mtu]

(* ScreenStateCompressed goes out in one datagram, however large.          *)
Full(n) == [kind |-> "full", screen |-> n,
            tier |-> IF n \in Oversized THEN PathTier + 1 ELSE 0]

ReadChunk ==
    /\ reader = "reads" /\ emulator < MaxChunks
    /\ emulator' = emulator + 1
    /\ reader' = "counts"
    /\ UNCHANGED <<dirty, data_tx, diff_in_flight, taskVars, channel, client,
                   probeVars, events>>

CountChunk ==
    /\ reader = "counts"
    /\ dirty' = TRUE
    /\ reader' = IF data_tx THEN "flags" ELSE "reads"
    /\ UNCHANGED <<emulator, data_tx, diff_in_flight, taskVars, channel,
                   client, probeVars, events>>

FlagChunk ==
    /\ reader = "flags"
    /\ diff_in_flight' = TRUE
    /\ reader' = "sends"
    /\ UNCHANGED <<emulator, dirty, data_tx, taskVars, channel, client,
                   probeVars, events>>

(* A channel that is closed takes nothing: the reader goes on without a    *)
(* client.                                                                 *)
SendChunk ==
    /\ reader = "sends" /\ (data_tx => Len(channel) < DataCapacity)
    /\ channel' = IF data_tx THEN Append(channel, Bytes(emulator)) ELSE channel
    /\ reader' = "reads"
    /\ UNCHANGED <<emulator, dirty, data_tx, diff_in_flight, taskVars,
                   client, probeVars, events>>

(* A resize reflows the server's screen: dirty, with no diff.              *)
Resize ==
    /\ dirty' = TRUE
    /\ UNCHANGED <<emulator, reader, data_tx, diff_in_flight, taskVars,
                   channel, client, probeVars, events>>

-----------------------------------------------------------------------------
(* The tasks of the connection.                                            *)

Take(t) == snapshot' = [snapshot EXCEPT ![t] = emulator]
Free(t) == data_tx /\ snapshot[t] = Nothing

(* Screen sync: the tick that finds diffs on the way takes none.           *)
SyncTick ==
    /\ Free("sync") /\ dirty
    /\ dirty' = FALSE
    /\ diff_in_flight' = FALSE
    /\ IF diff_in_flight THEN UNCHANGED snapshot ELSE Take("sync")
    /\ UNCHANGED <<emulator, reader, data_tx, repaint_rx, asked, channel,
                   client, probeVars, events>>

(* The responder empties its channel, then takes the screen.               *)
AnswerRepaint ==
    /\ Free("repaint") /\ repaint_rx
    /\ repaint_rx' = FALSE /\ Take("repaint")
    /\ UNCHANGED <<emulator, reader, dirty, data_tx, diff_in_flight, asked,
                   channel, client, probeVars, events>>

(* The Datagram mode sends the whole screen every 150 ms.                  *)
Bug_Push == FALSE /\ UNCHANGED syncVars
Push ==
    /\ DiffMode = "datagram" /\ Free("push")
    /\ Take("push")
    /\ UNCHANGED <<emulator, reader, dirty, data_tx, diff_in_flight,
                   repaint_rx, asked, channel, client, probeVars, events>>

(* A request that came since the snapshot stays in the channel.            *)
Bug_AfterAnswer(t) == repaint_rx /\ t # "repaint"
AfterAnswer(t)     == repaint_rx

SendSnapshot(t) ==
    /\ data_tx /\ snapshot[t] # Nothing /\ Len(channel) < DataCapacity
    /\ channel' = Append(channel, Full(snapshot[t]))
    /\ snapshot' = [snapshot EXCEPT ![t] = Nothing]
    /\ repaint_rx' = AfterAnswer(t)
    /\ asked' = IF snapshot[t] + 1 >= asked THEN 0 ELSE asked
    /\ UNCHANGED <<emulator, reader, dirty, data_tx, diff_in_flight, client,
                   probeVars, events>>

-----------------------------------------------------------------------------
(* Connection health: one tick of the MTU probe, and a repaint when many   *)
(* frames were asked for again.                                            *)

ProbeStep(h, delta) ==
    IF h.probing
    THEN IF delta >= FailThreshold
         THEN [h EXCEPT !.tier = IF @ = 0 THEN 0 ELSE @ - 1,
                        !.probing = FALSE, !.quiet = 0, !.probe = 0]
         ELSE IF h.probe + 1 >= SuccessTicks
         THEN [h EXCEPT !.probing = FALSE, !.quiet = 0, !.probe = 0]
         ELSE [h EXCEPT !.probe = @ + 1]
    ELSE IF delta # 0 THEN [h EXCEPT !.quiet = 0]
    ELSE IF h.quiet + 1 >= QuietTicks /\ h.tier < LastTier
    THEN [h EXCEPT !.tier = @ + 1, !.probing = TRUE, !.probe = 0, !.quiet = 0]
    ELSE [h EXCEPT !.quiet = IF @ < QuietTicks THEN @ + 1 ELSE @]

HealthTick ==
    LET delta == nak_count - health.last_nak
        next  == ProbeStep(health, delta)
    IN /\ Free("health")
       /\ health' = [next EXCEPT !.last_nak = nak_count]
       /\ mtu' = IF next.tier # health.tier THEN next.tier ELSE mtu
       /\ IF delta >= FailThreshold THEN Take("health") ELSE UNCHANGED snapshot
       /\ UNCHANGED <<emulator, reader, dirty, data_tx, diff_in_flight,
                      repaint_rx, asked, channel, client, nak_count, events>>

-----------------------------------------------------------------------------
(* Network and client.  In the Reliable mode a frame that does not arrive  *)
(* is asked for again, in vain if the path does not carry its size.  The   *)
(* Datagram mode sends no NAK.                                             *)

NaksSent(n) == IF DiffMode = "datagram" THEN 0 ELSE n

(* The Reliable mode delivers in order; the Datagram mode delivers what    *)
(* arrives, and drops what it overtook.                                    *)
(* apply_full_state replaces the client's screen; bytes are added to it.   *)
Shows(frame) ==
    IF frame.kind = "full" THEN [i \in 1..frame.screen |-> i]
                           ELSE Append(client, frame.screen)

Arriving == IF DiffMode = "datagram" THEN DOMAIN channel
                                     ELSE DOMAIN channel \cap {1}

Deliver == \E i \in Arriving :
    /\ channel[i].tier <= PathTier
    /\ client' = Shows(channel[i])
    /\ channel' = SubSeq(channel, i + 1, Len(channel))
    /\ UNCHANGED <<emulator, reader, dirty, data_tx, diff_in_flight,
                   taskVars, probeVars, events>>

TooLarge == \E i \in Arriving :
    /\ channel[i].tier > PathTier
    /\ channel' = RemoveAt(channel, i)
    /\ nak_count' = nak_count + NaksSent(FailThreshold)
    /\ UNCHANGED <<emulator, reader, dirty, data_tx, diff_in_flight,
                   taskVars, client, health, mtu, events>>

(* The Reliable mode recovers a frame that is lost (NAKs up to MaxEvents). *)
Lose ==
    /\ channel # <<>> /\ nak_count < MaxEvents
    /\ channel' = IF DiffMode = "datagram" THEN Tail(channel) ELSE channel
    /\ nak_count' = nak_count + NaksSent(1)
    /\ UNCHANGED <<emulator, reader, dirty, data_tx, diff_in_flight,
                   taskVars, client, health, mtu, events>>

AskRepaint ==
    /\ Event /\ data_tx
    /\ repaint_rx' = TRUE /\ asked' = emulator + 1
    /\ UNCHANGED <<emulator, reader, dirty, data_tx, diff_in_flight,
                   snapshot, channel, client, probeVars>>

(* The connection is cancelled, and its tasks end.                         *)
Disconnect ==
    /\ Event /\ data_tx
    /\ data_tx' = FALSE /\ channel' = <<>> /\ repaint_rx' = FALSE /\ asked' = 0
    /\ snapshot' = [t \in Tasks |-> Nothing]
    /\ UNCHANGED <<emulator, reader, dirty, diff_in_flight, client,
                   probeVars>>

(* resolve_session attaches the new channel, then takes the screen.  The   *)
(* new tasks count from zero; the chunk size is the session's.             *)
Resume ==
    /\ ~data_tx /\ data_tx' = TRUE
    /\ diff_in_flight' = FALSE /\ dirty' = TRUE
    /\ Take("resume")
    /\ health' = FreshHealth /\ nak_count' = 0
    /\ UNCHANGED <<emulator, reader, repaint_rx, asked, channel, client, mtu,
                   events>>

-----------------------------------------------------------------------------
ReaderStep == ReadChunk \/ CountChunk \/ FlagChunk \/ SendChunk
Network    == Deliver \/ TooLarge

SyncNext ==
    \/ ReaderStep \/ Network
    \/ Resize \/ Lose \/ AskRepaint \/ Disconnect \/ Resume
    \/ SyncTick \/ AnswerRepaint \/ Push \/ HealthTick
    \/ \E t \in Tasks : SendSnapshot(t)

SyncSpec == SyncInit /\ [][SyncNext]_syncVars

(* Every task is polled, and the network delivers infinitely many of       *)
(* infinitely many frames; a timer's tick comes when its time has.  A      *)
(* resume is the client's retry.  Strong fairness for the senders that     *)
(* wait in line for room again and again.                                  *)
FairSyncSpec ==
    /\ SyncSpec
    /\ WF_syncVars(ReadChunk \/ CountChunk \/ FlagChunk) /\ SF_syncVars(SendChunk)
    /\ SF_syncVars(Deliver) /\ WF_syncVars(TooLarge) /\ WF_syncVars(Resume)
    /\ WF_syncVars(SyncTick \/ AnswerRepaint) /\ WF_syncVars(Push)
    /\ SF_syncVars(SendSnapshot("push"))
    /\ WF_syncVars(\E t \in Tasks \ {"push"} : SendSnapshot(t))

-----------------------------------------------------------------------------
ShowsScreen == client = [i \in 1..emulator |-> i]

(* After the last output the client comes to show the server's screen and  *)
(* keeps showing it, if the path carries that screen's snapshot            *)
(* (runtime.rs:807-829: the fixed-interval push is the Datagram mode's     *)
(* recovery from losses, reordered and oversized snapshots and resumes).   *)
CatchesUp == <>[](emulator \notin Oversized => ShowsScreen)

(* A repaint that was asked for and not sent yet is still in the channel,  *)
(* or the snapshot that will answer it is not older than the request       *)
(* (runtime.rs:779-804: requests are coalesced, and one that comes after   *)
(* the snapshot is not lost).                                              *)
RepaintOwed ==
    asked # 0 => repaint_rx \/ snapshot["repaint"] \in asked - 1 .. MaxChunks

(* README.md:115: any accumulated drift is corrected on the next push      *)
(* regardless of what was lost.  A snapshot that exceeds a datagram is not *)
(* sent in chunks (as README.md:121 says): a path that drops it keeps the  *)
(* drift.                                                                  *)
DriftIsCorrected == <>[]ShowsScreen

=============================================================================
