-------------------------- MODULE OrderedDelivery --------------------------
(***************************************************************************)
(* What DiffMode::Reliable promises to the two ends of one direction of a  *)
(* UDP session, with no packets, gaps or NAKs in it.  The sender numbers   *)
(* its frames 0, 1, 2, ...; the receiver settles them strictly in that     *)
(* order, each one once and for good:                                      *)
(*                                                                         *)
(*   "delivered"  handed to the frame loop,                                *)
(*   "routed"     a Nak, consumed by the retransmit channel,               *)
(*   "obsoleted"  jumped over by a screen snapshot delivered behind it,    *)
(*   "given_up"   abandoned by the receiver.                               *)
(*                                                                         *)
(* Only a frame that was sent can be settled.                              *)
(***************************************************************************)
EXTENDS Naturals

CONSTANT MaxSeq        \* bound on the number of frames sent, a Nat

VARIABLES
    send_seq,          \* number of frames sent so far
    kind,              \* kind[s]: the kind of frame s, for s < send_seq
    next_seq,          \* frames below it are settled
    fate               \* fate[s]: how frame s was settled, for s < next_seq

vars == <<send_seq, kind, next_seq, fate>>

Kinds == {"bytes", "screen", "nak", "control"}
Fates == {"delivered", "routed", "obsoleted", "given_up"}

Init == /\ send_seq = 0
        /\ kind = [s \in {} |-> "bytes"]
        /\ next_seq = 0
        /\ fate = [s \in {} |-> "delivered"]

Send(k) ==
    /\ send_seq < MaxSeq
    /\ send_seq' = send_seq + 1
    /\ kind' = [s \in 0..send_seq |-> IF s = send_seq THEN k ELSE kind[s]]
    /\ UNCHANGED <<next_seq, fate>>

(* A frame may be jumped over only by a snapshot handed out in the same     *)
(* step: the screen it paints replaces what the frame would have changed.   *)
Justified(s, to) ==
    CASE fate'[s] = "obsoleted" ->
            \E t \in (s+1)..(to-1) : kind[t] = "screen" /\ fate'[t] = "delivered"
      [] fate'[s] = "routed"    -> kind[s] = "nak"
      [] fate'[s] = "delivered" -> kind[s] # "nak"
      [] OTHER                  -> TRUE

Settle(to) ==
    /\ next_seq < to
    /\ to <= send_seq
    /\ next_seq' = to
    /\ fate' \in [0..(to-1) -> Fates]
    /\ \A s \in 0..(next_seq-1) : fate'[s] = fate[s]
    /\ \A s \in next_seq..(to-1) : Justified(s, to)
    /\ UNCHANGED <<send_seq, kind>>

Next == \/ \E k \in Kinds : Send(k)
        \/ \E to \in 0..send_seq : Settle(to)

Spec == Init /\ [][Next]_vars
=============================================================================
