--------------------------- MODULE ReliableLink ---------------------------
(***************************************************************************)
(* One direction of a session in DiffMode::Reliable, end to end: the       *)
(* peer's UdpSender (libmoshpit/src/udp/sender.rs), the network, and the   *)
(* UdpReader of module ReliableReceiver, whose variables and actions this  *)
(* module extends.  The retransmit requests travel back through a channel  *)
(* that may delay, reorder and lose them.                                  *)
(*                                                                         *)
(* wire holds the packets in flight.  The network may lose MaxLosses       *)
(* packets or requests and duplicate MaxDups packets.                      *)
(***************************************************************************)
EXTENDS ReliableReceiver

CONSTANTS
    MaxLosses,           \* bound on packets and requests lost
    MaxDups,             \* bound on packets duplicated
    Timely               \* is the network faster than the shortest timer?

ASSUME LinkAssumption ==
    /\ MaxLosses \in Nat
    /\ MaxDups \in Nat
    /\ Timely \in BOOLEAN

VARIABLES
    retransmit_buffer,   \* data frames kept for retransmission
    retransmit_rx,       \* requests the peer's reader has passed on
    pending_retransmit,  \* requests the sender has collected
    wire,                \* packets in flight
    losses, dups         \* how often the network has lost and duplicated

sending  == <<retransmit_buffer, retransmit_rx, pending_retransmit>>
receiver == <<next_seq, recv_buffer, tracking, highest_seq_seen, nak_timer, fate>>
network  == <<wire, losses, dups>>
linkVars == <<vars, sending, network>>

LinkInit ==
    /\ Init
    /\ retransmit_buffer = {} /\ retransmit_rx = {} /\ pending_retransmit = {}
    /\ wire = {} /\ losses = 0 /\ dups = 0

-----------------------------------------------------------------------------
(* UdpSender::frame_loop, one action per branch of its select.             *)

(* A control frame takes a sequence number and is not kept.                *)
SendControl ==
    /\ Send("control")
    /\ wire' = wire \cup {send_seq}
    /\ UNCHANGED <<sending, losses, dups>>

CollectRequests ==
    /\ retransmit_rx # {}
    /\ pending_retransmit' = pending_retransmit \cup retransmit_rx
    /\ retransmit_rx' = {}
    /\ UNCHANGED <<vars, retransmit_buffer, network>>

(* The retransmit deadline fires: resend what is still in the buffer.      *)
DrainRequests ==
    /\ pending_retransmit # {}
    /\ wire' = wire \cup (pending_retransmit \cap retransmit_buffer)
    /\ pending_retransmit' = {}
    /\ UNCHANGED <<vars, retransmit_buffer, retransmit_rx, losses, dups>>

(* The frame at the edge of the window is evicted with those beyond it. *)
Bug_SendData(k) ==
    /\ retransmit_rx = {}
    /\ Send(k)
    /\ retransmit_buffer' = {s \in retransmit_buffer \cup {send_seq} :
                                s + RetransmitWindow > send_seq}
    /\ wire' = wire \cup {send_seq}
    /\ UNCHANGED <<retransmit_rx, pending_retransmit, losses, dups>>

(* Keep the frame, evict what fell out of the window, send.                *)
SendData(k) ==
    /\ retransmit_rx = {}
    /\ Send(k)
    /\ retransmit_buffer' = {s \in retransmit_buffer \cup {send_seq} :
                                s + RetransmitWindow >= send_seq}
    /\ wire' = wire \cup {send_seq}
    /\ UNCHANGED <<retransmit_rx, pending_retransmit, losses, dups>>

-----------------------------------------------------------------------------
(* The network *)

Receive(s) ==
    /\ s \in wire
    /\ Arrive(s)
    /\ \/ wire' = wire \ {s} /\ UNCHANGED dups
       \/ dups < MaxDups /\ dups' = dups + 1 /\ UNCHANGED wire
    /\ UNCHANGED <<sending, losses>>

LosePacket(s) ==
    /\ s \in wire
    /\ losses < MaxLosses
    /\ wire' = wire \ {s} /\ losses' = losses + 1
    /\ UNCHANGED <<vars, sending, dups>>

(* The request for s reaches the peer's reader, whose route_or_deliver     *)
(* passes it to the sender.                                                *)
RequestArrives(s) ==
    /\ s \in nak_out
    /\ nak_out' = nak_out \ {s}
    /\ retransmit_rx' = retransmit_rx \cup {s}
    /\ UNCHANGED <<sender, receiver, repaint_out, retransmit_buffer,
                   pending_retransmit, network>>

LoseRequest(s) ==
    /\ s \in nak_out
    /\ losses < MaxLosses
    /\ nak_out' = nak_out \ {s} /\ losses' = losses + 1
    /\ UNCHANGED <<sender, receiver, repaint_out, sending, wire, dups>>

(* The RepaintRequest is answered by a snapshot that is data like any      *)
(* other (SendData), or is lost.                                           *)
RepaintLeaves ==
    /\ repaint_out
    /\ repaint_out' = FALSE
    /\ UNCHANGED <<sender, receiver, nak_out, sending, network>>

-----------------------------------------------------------------------------
(* The receiver's clock and timer.  In a timely network a packet, and a    *)
(* request with its answer, is faster than one tick.                       *)

InFlight == wire # {} \/ nak_out # {} \/ retransmit_rx # {} \/ pending_retransmit # {}

Clock == /\ Timely => ~InFlight
         /\ Tick
         /\ UNCHANGED <<sending, network>>

NakTimer == CheckNakTimeouts /\ UNCHANGED <<sending, network>>

LinkNext ==
    \/ SendControl
    \/ CollectRequests
    \/ DrainRequests
    \/ \E k \in Kinds \ {"control"} : SendData(k)
    \/ \E s \in wire : Receive(s) \/ LosePacket(s)
    \/ \E s \in nak_out : RequestArrives(s) \/ LoseRequest(s)
    \/ RepaintLeaves
    \/ Clock
    \/ NakTimer

(* The tasks keep running and the network delivers what it does not lose;  *)
(* nothing makes the application send or the network lose.                 *)
Fairness ==
    /\ WF_linkVars(CollectRequests)
    /\ WF_linkVars(DrainRequests)
    /\ WF_linkVars(\E s \in wire : Receive(s))
    /\ WF_linkVars(\E s \in nak_out : RequestArrives(s))
    /\ WF_linkVars(Clock)
    /\ WF_linkVars(NakTimer)

LinkSpec == LinkInit /\ [][LinkNext]_linkVars /\ Fairness

-----------------------------------------------------------------------------
(* Properties *)

LinkTypeOK ==
    /\ TypeOK
    /\ retransmit_buffer \subseteq 0..(send_seq-1)
    /\ retransmit_rx \subseteq 0..(send_seq-1)
    /\ pending_retransmit \subseteq 0..(send_seq-1)
    /\ wire \subseteq 0..(send_seq-1)
    /\ losses \in 0..MaxLosses
    /\ dups \in 0..MaxDups

(* The composed system makes only steps ReliableReceiver allows, so what   *)
(* holds of the reader under the most hostile network holds here.          *)
ImplementsReceiver == Spec

(* NAK recovery works: when the network is timely and loses no more        *)
(* packets and requests than a gap has retries, the reader gives up on a   *)
(* data frame only when the sender has sent a whole window behind it       *)
(* (handle_arrival 716-729, check_nak_timeouts 836-853, frame_loop         *)
(* 169-213).  Copies of one packet in flight count, and are lost, as one.  *)
DataRecovered ==
    \A s \in DOMAIN fate :
        fate[s] = "given_up" /\ kind[s] # "control" => s + RetransmitWindow < send_seq - 1

(* Nothing blocks the reorder buffer for ever: what is buffered is in the  *)
(* end delivered, obsoleted, or freed by giving up on the gap before it.   *)
BufferDrains ==
    \A s \in 0..(MaxSeq-1) : s \in recv_buffer ~> s \notin recv_buffer

(* README, "reliable": "ordered, lossless delivery".                       *)
Lossless == \A s \in DOMAIN fate : fate[s] # "given_up"

(* README, "reliable": "after the retry limit the gap is abandoned and the *)
(* session proceeds".  Once the network loses no more, a frame that is in  *)
(* flight is in the end settled.                                           *)
SessionProceeds ==
    \A s \in 0..(MaxSeq-1) : (s \in wire /\ losses = MaxLosses) ~> s < next_seq
=============================================================================
