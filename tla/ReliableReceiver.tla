------------------------- MODULE ReliableReceiver -------------------------
(***************************************************************************)
(* UdpReader in DiffMode::Reliable: the reorder buffer, the gap tracking,  *)
(* the NAK timer and the giving up (libmoshpit/src/udp/reader.rs).  The    *)
(* network is the most hostile one: a frame that was sent may arrive any   *)
(* number of times, in any order, or never.                                *)
(*                                                                         *)
(* A frame is its sequence number; kind[s] is its EncryptedFrame variant,  *)
(* as far as the reader tells variants apart:                              *)
(*   "screen"   ScreenState, ScreenStateCompressed                         *)
(*   "nak"      Nak                                                        *)
(*   "control"  what UdpSender takes from control_rx (Keepalive, Shutdown, *)
(*              PtyExit)                                                   *)
(*   "bytes"    everything else that is sent on the data channel           *)
(*                                                                         *)
(* Time is counted in ticks; an Instant is the number of ticks since, and  *)
(* saturates at MaxAge.                                                    *)
(*                                                                         *)
(* An operator Bug_X is X with a mistake this code could have; each is     *)
(* what one of the properties exists to exclude.                           *)
(***************************************************************************)
EXTENDS Naturals, FiniteSets

CONSTANTS
    MaxSeq,                      \* bound on the number of frames sent
    MaxSeqJump,                  \* MAX_SEQ_JUMP (1024)
    RetransmitWindow,            \* RETRANSMIT_WINDOW (512)
    MaxNakRetries,               \* MAX_NAK_RETRIES (4)
    RecvBufferRepaintThreshold,  \* RECV_BUFFER_REPAINT_THRESHOLD (5)
    NakTimeouts,                 \* values nak_timeout can have, in ticks
    CheckInterval,               \* nak_check_interval(), in ticks
    MaxAge                       \* bound on the ages of gaps

ASSUME ReceiverAssumption ==
    /\ MaxSeq \in Nat
    /\ MaxSeqJump \in Nat
    /\ RetransmitWindow \in Nat
    /\ MaxNakRetries \in Nat \ {0}
    /\ RecvBufferRepaintThreshold \in Nat
    /\ NakTimeouts \subseteq Nat
    /\ CheckInterval \in Nat \ {0}
    /\ MaxAge \in Nat

VARIABLES
    send_seq,            \* the peer's UdpSender::send_seq
    kind,                \* what the peer sent
    next_seq,            \* next expected sequence number
    recv_buffer,         \* out-of-order frames waiting for predecessors
    gap_first_seen,      \* gap -> ticks since it was seen or last NAKed
    gap_nak_count,       \* gap -> NAK retries (no entry: none)
    gap_nak_sent_at,     \* sequence numbers with a NAK timestamp
    highest_seq_seen,
    nak_timer,           \* ticks to nak_check_deadline, or Parked
    nak_out,             \* sequence numbers in Nak frames not yet sent
    repaint_out,         \* is a RepaintRequest waiting to be sent?
    fate                 \* history: how each frame below next_seq ended

sender   == <<send_seq, kind>>
tracking == <<gap_first_seen, gap_nak_count, gap_nak_sent_at>>
requests == <<nak_out, repaint_out>>
vars     == <<sender, next_seq, recv_buffer, tracking, highest_seq_seen,
              nak_timer, requests, fate>>

Kinds  == {"bytes", "screen", "nak", "control"}
Fates  == {"delivered", "routed", "obsoleted", "given_up"}
Gaps   == DOMAIN gap_first_seen
Parked == CheckInterval + 1
REPAINT_REQUEST_THRESHOLD == 1

Without(f, S) == [x \in DOMAIN f \ S |-> f[x]]
Retries(g)    == IF g \in DOMAIN gap_nak_count THEN gap_nak_count[g] ELSE 0
Larger(a, b)  == IF a < b THEN b ELSE a

Init ==
    /\ send_seq = 0 /\ kind = [s \in {} |-> "bytes"]
    /\ next_seq = 0 /\ recv_buffer = {} /\ highest_seq_seen = 0
    /\ gap_first_seen = [g \in {} |-> 0]
    /\ gap_nak_count = [g \in {} |-> 0]
    /\ gap_nak_sent_at = {}
    /\ nak_timer = CheckInterval
    /\ nak_out = {} /\ repaint_out = FALSE
    /\ fate = [s \in {} |-> "delivered"]

-----------------------------------------------------------------------------
(* The environment: the peer sends, its channel takes our requests.        *)

Send(k) ==
    /\ send_seq < MaxSeq
    /\ send_seq' = send_seq + 1
    /\ kind' = [s \in 0..send_seq |-> IF s = send_seq THEN k ELSE kind[s]]
    /\ UNCHANGED <<next_seq, recv_buffer, tracking, highest_seq_seen,
                   nak_timer, requests, fate>>

(* A Nak or RepaintRequest leaves nak_out_tx, or try_send found it full.   *)
TakeRequests ==
    /\ nak_out # {} \/ repaint_out
    /\ \E taken \in SUBSET nak_out : nak_out' = nak_out \ taken
    /\ repaint_out' \in {FALSE, repaint_out}
    /\ requests' # requests
    /\ UNCHANGED <<sender, next_seq, recv_buffer, tracking, highest_seq_seen,
                   nak_timer, fate>>

-----------------------------------------------------------------------------
(* Delivery: the loops that hand out consecutive frames.                   *)

(* The drain loop that starts at from and passes every number of passable  *)
(* stops at to.                                                            *)
StopsAt(from, passable, to) ==
    /\ from <= to
    /\ \A s \in from..(to-1) : s \in passable
    /\ to \notin passable

(* route_or_deliver: a Nak is consumed, any other frame handed out.        *)
Routed(s) == IF kind[s] = "nak" THEN "routed" ELSE "delivered"

Settle(to, Ending(_)) ==
    /\ next_seq' = to
    /\ fate' = [s \in 0..(to-1) |-> IF s < next_seq THEN fate[s] ELSE Ending(s)]

(* The retry counts are left to check_nak_timeouts.                        *)
Bug_StopTracking(S) ==
    /\ gap_first_seen'  = Without(gap_first_seen, S)
    /\ gap_nak_sent_at' = gap_nak_sent_at \ S
    /\ UNCHANGED gap_nak_count

StopTracking(S) ==
    /\ gap_first_seen'  = Without(gap_first_seen, S)
    /\ gap_nak_count'   = Without(gap_nak_count, S)
    /\ gap_nak_sent_at' = gap_nak_sent_at \ S

(* Hand out frame s and what follows it in the buffer; what lies below s   *)
(* is dropped, buffered frames too (nothing does when s is next_seq).      *)
DeliverFrom(s) ==
    \E to \in (s+1)..(Larger(highest_seq_seen, s) + 1) :
        LET below == next_seq..(to-1)
            Ending(r) == IF r < s THEN "obsoleted" ELSE Routed(r)
        IN  /\ StopsAt(s+1, recv_buffer, to)
            /\ Settle(to, Ending)
            /\ recv_buffer' = recv_buffer \ (below \ {s})
            /\ StopTracking(below)
            /\ UNCHANGED requests

-----------------------------------------------------------------------------
(* handle_arrival *)

Missing(s) == {m \in next_seq..(s-1) : m \notin recv_buffer}

(* A gap that is known already gets a fresh timestamp.                     *)
Bug_NewGaps(s) == Missing(s)

NewGaps(s) == Missing(s) \ Gaps

ToBuffer(s) ==
    LET buffer   == recv_buffer \cup {s}
        known    == Gaps \ {s}
        new_gaps == NewGaps(s)
    IN  /\ recv_buffer' = buffer
        /\ gap_first_seen' = [g \in known \cup new_gaps |->
                                IF g \in new_gaps THEN 0 ELSE gap_first_seen[g]]
        /\ gap_nak_count' = Without(gap_nak_count, {s})
        /\ gap_nak_sent_at' = gap_nak_sent_at \cup new_gaps
        /\ nak_out' = nak_out \cup new_gaps
        /\ repaint_out' = \/ repaint_out
                          \/ Cardinality(buffer) >= RecvBufferRepaintThreshold
                          \/ new_gaps # {} /\ Cardinality(buffer) > 1
        /\ UNCHANGED <<next_seq, fate>>

(* Replays are not recognised.                                             *)
Bug_Dropped(s) == s > next_seq + MaxSeqJump

(* A replay, or a frame too far ahead, changes nothing.                    *)
Dropped(s) == s < next_seq \/ s > next_seq + MaxSeqJump

(* The fast path of the snapshot is taken for a diff, too.                 *)
Bug_Handle(s) ==
    /\ highest_seq_seen' = Larger(highest_seq_seen, s)
    /\ \/ /\ s = next_seq \/ kind[s] \in {"screen", "bytes"}
          /\ DeliverFrom(s)
       \/ /\ s # next_seq /\ kind[s] \notin {"screen", "bytes"}
          /\ ToBuffer(s)

Handle(s) ==
    /\ highest_seq_seen' = Larger(highest_seq_seen, s)
    /\ \/ /\ s = next_seq \/ kind[s] = "screen"
          /\ DeliverFrom(s)
       \/ /\ s # next_seq /\ kind[s] # "screen"
          /\ ToBuffer(s)

(* The receive branch of the frame loops.  Every frame, a dropped one too, *)
(* sets the NAK deadline back to a full interval.                          *)
Bug_Rearm == nak_timer' = nak_timer     \* a parked timer stays parked

Rearm == nak_timer' = CheckInterval

Arrive(s) ==
    /\ s < send_seq
    /\ Rearm
    /\ \/ /\ Dropped(s)
          /\ UNCHANGED <<next_seq, recv_buffer, tracking, highest_seq_seen,
                         requests, fate>>
       \/ /\ ~Dropped(s)
          /\ Handle(s)
    /\ UNCHANGED sender

-----------------------------------------------------------------------------
(* check_nak_timeouts, the timer branch of the frame loops *)

(* Everything outside the window is given up, not only what is missing.    *)
Bug_GiveUpWindow == {g \in DOMAIN gap_nak_count : gap_nak_count[g] >= MaxNakRetries}
                    \cup {g \in next_seq..highest_seq_seen :
                                highest_seq_seen > g + RetransmitWindow}

GiveUp == {g \in DOMAIN gap_nak_count : gap_nak_count[g] >= MaxNakRetries}
          \cup {g \in Gaps : highest_seq_seen > g + RetransmitWindow}

Backoff(base, retries) == base * 2^retries

(* drain_given_up_seqs: skip what is given up, hand out what is buffered.  *)
DrainGivenUp(to) ==
    LET Ending(r) == IF r \in GiveUp THEN "given_up" ELSE Routed(r)
    IN  /\ \/ GiveUp = {} /\ to = next_seq
           \/ GiveUp # {} /\ StopsAt(next_seq, recv_buffer \cup GiveUp, to)
        /\ Settle(to, Ending)
        /\ recv_buffer' = recv_buffer \ ((next_seq..(to-1)) \ GiveUp)

CheckNakTimeouts ==
    /\ nak_timer = 0
    /\ \E to \in next_seq..(highest_seq_seen + 1), base \in NakTimeouts :
        LET settled   == GiveUp \cup (next_seq..(to-1))
            waiting   == Gaps \ settled
            timed_out == {g \in waiting :
                            gap_first_seen[g] >= Backoff(base, Retries(g))}
        IN  /\ DrainGivenUp(to)
            /\ gap_first_seen' = [g \in waiting |->
                    IF g \in timed_out THEN 0 ELSE gap_first_seen[g]]
            /\ gap_nak_count' =
                    [g \in (DOMAIN gap_nak_count \ settled) \cup timed_out |->
                        IF g \in timed_out THEN Retries(g) + 1 ELSE gap_nak_count[g]]
            /\ gap_nak_sent_at' = (gap_nak_sent_at \ settled) \cup timed_out
            /\ nak_out' = nak_out \cup timed_out
            /\ repaint_out' = \/ repaint_out
                              \/ \E g \in timed_out :
                                    Retries(g) + 1 = REPAINT_REQUEST_THRESHOLD
            /\ nak_timer' = IF waiting = {} THEN Parked ELSE CheckInterval
    /\ UNCHANGED <<sender, highest_seq_seen>>

(* A timer that is due fires before more time passes.                      *)
Tick ==
    /\ nak_timer # 0
    /\ nak_timer' = IF nak_timer = Parked THEN Parked ELSE nak_timer - 1
    /\ gap_first_seen' = [g \in Gaps |-> IF gap_first_seen[g] < MaxAge
                                         THEN gap_first_seen[g] + 1
                                         ELSE gap_first_seen[g]]
    /\ UNCHANGED <<sender, next_seq, recv_buffer, gap_nak_count, gap_nak_sent_at,
                   highest_seq_seen, requests, fate>>

-----------------------------------------------------------------------------
Next ==
    \/ \E k \in Kinds : Send(k)
    \/ TakeRequests
    \/ \E s \in 0..(MaxSeq-1) : Arrive(s)
    \/ CheckNakTimeouts
    \/ Tick

Spec == Init /\ [][Next]_vars

-----------------------------------------------------------------------------
(* Properties *)

TypeOK ==
    /\ send_seq \in 0..MaxSeq
    /\ kind \in [0..(send_seq-1) -> Kinds]
    /\ next_seq \in 0..send_seq
    /\ recv_buffer \subseteq 0..(send_seq-1)
    /\ highest_seq_seen \in Nat
    /\ Gaps \subseteq 0..(send_seq-1)
    /\ gap_first_seen \in [Gaps -> 0..MaxAge]
    /\ gap_nak_count \in [DOMAIN gap_nak_count -> 1..MaxNakRetries]
    /\ gap_nak_sent_at \subseteq 0..(send_seq-1)
    /\ nak_timer \in 0..Parked
    /\ nak_out \subseteq 0..(send_seq-1)
    /\ repaint_out \in BOOLEAN
    /\ fate \in [0..(next_seq-1) -> Fates]

(* Below any buffered frame each number not yet settled is buffered or is   *)
(* tracked as a gap, never both and never neither: a number that fell out  *)
(* of both would be neither asked for nor given up, and block the session. *)
(* What is buffered is still wanted, and no snapshot is kept waiting       *)
(* (handle_arrival 635-708, drain_given_up_seqs 779-815).                  *)
NothingForgotten ==
    /\ recv_buffer \cap Gaps = {}
    /\ \A b \in recv_buffer : b > next_seq /\ kind[b] # "screen"
    /\ \A b \in recv_buffer : \A s \in next_seq..b : s \in recv_buffer \cup Gaps
    /\ \A g \in Gaps : g >= next_seq /\ \E b \in recv_buffer : g < b

(* Of two gaps the older in the stream has been retried at least as often  *)
(* and, after as many retries, has waited at least as long.  This is why   *)
(* giving up on a gap never strands a lower one: the numbers given up by   *)
(* one call are always the lowest gaps (check_nak_timeouts 831-853).       *)
RetriedInOrder ==
    \A g, h \in Gaps : g < h =>
        \/ Retries(g) > Retries(h)
        \/ Retries(g) = Retries(h) /\ gap_first_seen[g] >= gap_first_seen[h]

(* The retry counts and NAK timestamps belong to frames that still block   *)
(* delivery: no entry outlives its frame, so the maps stay bounded and a   *)
(* count never condemns a frame that has arrived (679-680, 800-802).       *)
NoStaleTracking ==
    /\ DOMAIN gap_nak_count \subseteq Gaps
    /\ Gaps \subseteq gap_nak_sent_at
    /\ gap_nak_sent_at \subseteq Gaps \cup recv_buffer

(* A frame that sits in the reorder buffer ends delivered, or obsoleted by *)
(* a later snapshot; it is never given up (drain_given_up_seqs).           *)
BufferedNeverAbandoned ==
    [][\A s \in recv_buffer : s < next_seq' => fate'[s] # "given_up"]_vars

(* README, "reliable": a gap that persists beyond the NAK timeout triggers *)
(* a Nak; handle of a frame: "rearm the NAK deadline so check_nak_timeouts *)
(* fires promptly" (server_frame_loop 1060-1062).  No gap waits for its    *)
(* next retry longer than its backoff and one check interval.              *)
RetriedInTime ==
    \A g \in Gaps : \E base \in NakTimeouts :
        gap_first_seen[g] <= Backoff(base, Retries(g)) + CheckInterval

(* The reader settles frames in order, each once, and only for a reason.   *)
Abstract == INSTANCE OrderedDelivery
ImplementsOrderedDelivery == Abstract!Spec
=============================================================================
