------------------------- MODULE ReliableLinkProofs -------------------------
(***************************************************************************)
(* What the reader and the link promise holds for every value of the       *)
(* constants.                                                              *)
(*                                                                         *)
(* The reader first.  NothingForgotten alone is not inductive:             *)
(* check_nak_timeouts could give up on a high gap and leave a lower one    *)
(* behind.  That never happens because the retry counts and ages of the    *)
(* gaps are ordered like the gaps themselves (RetriedInOrder), which in    *)
(* turn needs a new gap to lie above all tracked ones (NothingForgotten)   *)
(* and to have no stale retry count (NoStaleTracking).  The four are       *)
(* proved together.                                                        *)
(*                                                                         *)
(* Then the link: the composed link makes only steps the reader's          *)
(* specification allows, so every theorem about Spec holds of it.          *)
(*                                                                         *)
(* At the end, the snapshots that repair what it cannot (ScreenSync).      *)
(***************************************************************************)
EXTENDS ReliableLink, ScreenSync, TLAPS

IInv == TypeOK /\ NothingForgotten /\ RetriedInOrder /\ NoStaleTracking

USE ReceiverAssumption

-----------------------------------------------------------------------------
(* Lemmas about the operators *)

LEMMA WithoutDomain ==
    ASSUME NEW f, NEW S
    PROVE  /\ DOMAIN Without(f, S) = DOMAIN f \ S
           /\ \A x \in DOMAIN f \ S : Without(f, S)[x] = f[x]
  BY DEF Without

(* Retry counts are bounded, and zero only without an entry.               *)
LEMMA RetriesRange ==
    ASSUME TypeOK, NEW g
    PROVE  /\ Retries(g) \in 0..MaxNakRetries
           /\ g \in DOMAIN gap_nak_count <=> Retries(g) > 0
  BY DEF Retries, TypeOK

LEMMA GiveUpAreGaps ==
    ASSUME IInv
    PROVE  GiveUp \subseteq Gaps
  BY DEF IInv, GiveUp, NoStaleTracking

(* What one call gives up on are the lowest gaps.                          *)
LEMMA GiveUpLowest ==
    ASSUME IInv, NEW g \in GiveUp, NEW h \in Gaps, h < g
    PROVE  h \in GiveUp
<1>1. g \in Gaps
  BY GiveUpAreGaps
<1>2. g \in Nat /\ h \in Nat /\ highest_seq_seen \in Nat
  BY <1>1 DEF IInv, TypeOK
<1>3. Retries(h) >= Retries(g)
  <2>1. Retries(g) \in Nat /\ Retries(h) \in Nat
    BY RetriesRange DEF IInv
  <2> QED
    BY <1>1, <2>1 DEF IInv, RetriedInOrder
<1>4. CASE g \in DOMAIN gap_nak_count /\ gap_nak_count[g] >= MaxNakRetries
  <2>1. Retries(g) >= MaxNakRetries
    BY <1>4 DEF Retries
  <2>2. Retries(h) >= MaxNakRetries /\ Retries(h) > 0
    BY <1>3, <2>1, RetriesRange DEF IInv
  <2>3. h \in DOMAIN gap_nak_count /\ gap_nak_count[h] >= MaxNakRetries
    BY <2>2 DEF Retries
  <2> QED
    BY <2>3 DEF GiveUp
<1>5. CASE highest_seq_seen > g + RetransmitWindow
  BY <1>2, <1>5 DEF GiveUp
<1> QED
  BY <1>4, <1>5 DEF GiveUp

(* The drain loop passes every number that is given up: none is left       *)
(* behind without being tracked.                                           *)
LEMMA GiveUpPassed ==
    ASSUME IInv, NEW to \in Nat, NEW g \in GiveUp,
           StopsAt(next_seq, recv_buffer \cup GiveUp, to)
    PROVE  g < to
<1>1. /\ g \in Gaps /\ g \in Nat /\ next_seq \in Nat
      /\ next_seq <= to /\ to \notin recv_buffer /\ to \notin GiveUp
  <2>1. g \in Gaps
    BY GiveUpAreGaps
  <2>2. g \in Nat /\ next_seq \in Nat
    BY <2>1 DEF IInv, TypeOK
  <2>3. next_seq <= to /\ to \notin recv_buffer /\ to \notin GiveUp
    BY DEF StopsAt
  <2> QED
    BY <2>1, <2>2, <2>3
<1>2. SUFFICES ASSUME to < g
               PROVE  FALSE
  BY <1>1
<1>3. PICK b \in recv_buffer : g < b
  BY <1>1 DEF IInv, NothingForgotten
<1>4. to \in next_seq..b
  BY SMTT(30), <1>1, <1>2, <1>3 DEF IInv, TypeOK
<1>5. to \in Gaps
  BY <1>1, <1>3, <1>4 DEF IInv, NothingForgotten
<1> QED
  BY <1>1, <1>2, <1>5, GiveUpLowest

-----------------------------------------------------------------------------
(* One lemma per action. *)

LEMMA InitIInv == Init => IInv
<1> SUFFICES ASSUME Init PROVE IInv
  OBVIOUS
<1>1. Gaps = {} /\ DOMAIN gap_nak_count = {} /\ DOMAIN fate = {} /\ DOMAIN kind = {}
  BY DEF Init, Gaps
<1>2. TypeOK
  <2>1. /\ gap_first_seen \in [Gaps -> 0..MaxAge] /\ Gaps \subseteq 0..(send_seq-1)
        /\ gap_nak_count \in [DOMAIN gap_nak_count -> 1..MaxNakRetries]
    BY <1>1 DEF Init, Gaps
  <2>2. kind \in [0..(send_seq-1) -> Kinds] /\ fate \in [0..(next_seq-1) -> Fates]
    BY <1>1 DEF Init
  <2>3. /\ send_seq \in 0..MaxSeq /\ next_seq \in 0..send_seq
        /\ highest_seq_seen \in Nat /\ nak_timer \in 0..Parked
    BY ReceiverAssumption DEF Init, Parked
  <2>4. recv_buffer = {} /\ gap_nak_sent_at = {} /\ nak_out = {} /\ repaint_out = FALSE
    BY DEF Init
  <2> QED
    BY <2>1, <2>2, <2>3, <2>4 DEF TypeOK
<1>3. NothingForgotten /\ RetriedInOrder /\ NoStaleTracking
  BY <1>1 DEF Init, NothingForgotten, RetriedInOrder, NoStaleTracking
<1> QED
  BY <1>2, <1>3 DEF IInv

LEMMA SendIInv ==
    ASSUME IInv, NEW k \in Kinds, Send(k)
    PROVE  IInv'
<1> USE DEF Send, tracking, requests
<1>1. send_seq \in Nat /\ send_seq' = send_seq + 1
  BY DEF IInv, TypeOK
<1>2. kind' \in [0..(send_seq'-1) -> Kinds] /\ \A s \in 0..(send_seq-1) : kind'[s] = kind[s]
  BY SMTT(30), <1>1 DEF IInv, TypeOK
<1>3. Gaps' = Gaps /\ \A g : Retries(g)' = Retries(g)
  <2>1. gap_first_seen' = gap_first_seen /\ gap_nak_count' = gap_nak_count
    OBVIOUS
  <2> QED
    BY <2>1 DEF Gaps, Retries
<1>4. TypeOK'
  <2>1. /\ send_seq' \in 0..MaxSeq /\ next_seq' \in 0..send_seq'
        /\ recv_buffer' \subseteq 0..(send_seq'-1)
        /\ Gaps' \subseteq 0..(send_seq'-1)
        /\ gap_nak_sent_at' \subseteq 0..(send_seq'-1)
        /\ nak_out' \subseteq 0..(send_seq'-1)
    BY SMTT(30), <1>1, <1>3 DEF IInv, TypeOK
  <2>2. /\ gap_first_seen' \in [Gaps' -> 0..MaxAge]
        /\ gap_nak_count' \in [DOMAIN gap_nak_count' -> 1..MaxNakRetries]
    BY <1>3 DEF IInv, TypeOK
  <2>3. /\ highest_seq_seen' \in Nat /\ nak_timer' \in 0..Parked'
        /\ repaint_out' \in BOOLEAN /\ fate' \in [0..(next_seq'-1) -> Fates]
    BY DEF IInv, TypeOK, Parked
  <2> QED
    BY <1>2, <2>1, <2>2, <2>3 DEF TypeOK
<1>5. NothingForgotten'
  <2>1. \A b \in recv_buffer : kind'[b] # "screen"
    BY <1>2 DEF IInv, NothingForgotten, TypeOK
  <2> QED
    BY <1>3, <2>1 DEF IInv, NothingForgotten
<1>6. RetriedInOrder' /\ NoStaleTracking'
  BY <1>3 DEF IInv, RetriedInOrder, NoStaleTracking
<1> QED
  BY <1>4, <1>5, <1>6 DEF IInv

LEMMA TakeRequestsIInv ==
    ASSUME IInv, TakeRequests
    PROVE  IInv'
<1> USE DEF TakeRequests, tracking, sender
<1>1. Gaps' = Gaps /\ \A g : Retries(g)' = Retries(g)
  BY DEF Gaps, Retries
<1>2. TypeOK'
  BY <1>1 DEF IInv, TypeOK, Parked
<1>3. NothingForgotten' /\ RetriedInOrder' /\ NoStaleTracking'
  BY <1>1 DEF IInv, NothingForgotten, RetriedInOrder, NoStaleTracking
<1> QED
  BY <1>2, <1>3 DEF IInv

LEMMA TickIInv ==
    ASSUME IInv, Tick
    PROVE  IInv'
<1> USE DEF Tick, sender, requests
<1>1. Gaps' = Gaps /\ \A g \in Gaps : Retries(g)' = Retries(g)
  BY DEF Gaps, Retries
<1>2. TypeOK'
  <2>1. gap_first_seen' \in [Gaps' -> 0..MaxAge]
    BY SMTT(30), <1>1 DEF IInv, TypeOK
  <2>2. nak_timer' \in 0..Parked'
    BY DEF IInv, TypeOK, Parked
  <2> QED
    BY <1>1, <2>1, <2>2 DEF IInv, TypeOK
<1>3. NothingForgotten' /\ NoStaleTracking'
  BY <1>1 DEF IInv, NothingForgotten, NoStaleTracking
<1>4. RetriedInOrder'
  <2> SUFFICES ASSUME NEW g \in Gaps, NEW h \in Gaps, g < h,
                      ~(Retries(g) > Retries(h))
               PROVE  Retries(g) = Retries(h) /\ gap_first_seen'[g] >= gap_first_seen'[h]
    BY <1>1 DEF RetriedInOrder
  <2>1. /\ Retries(g) = Retries(h) /\ gap_first_seen[g] >= gap_first_seen[h]
        /\ gap_first_seen[g] \in 0..MaxAge /\ gap_first_seen[h] \in 0..MaxAge
    BY DEF IInv, RetriedInOrder, TypeOK
  <2> QED
    BY <2>1 DEF Gaps
<1> QED
  BY <1>2, <1>3, <1>4 DEF IInv

(* Whatever settles the numbers below some to that is not buffered, and    *)
(* drops them from buffer and gaps, leaves nothing forgotten above to.     *)
LEMMA SettledPrefix ==
    ASSUME IInv, NEW to \in Nat, next_seq <= to, to \notin recv_buffer,
           next_seq' = to, kind' = kind,
           recv_buffer' = recv_buffer \ (next_seq..(to-1)),
           Gaps' = Gaps \ (next_seq..(to-1))
    PROVE  /\ \A g \in Gaps' : g \in Gaps /\ g \in Nat /\ g >= to
           /\ NothingForgotten'
<1>1. next_seq \in Nat
  BY DEF IInv, TypeOK
<1>2. \A b \in recv_buffer : b \in Nat /\ b > next_seq
  BY DEF IInv, NothingForgotten, TypeOK
<1>3. \A g \in Gaps : g \in Nat /\ g >= next_seq
  BY DEF IInv, NothingForgotten, TypeOK
<1>4. /\ \A b \in recv_buffer' : b \in recv_buffer /\ b > to
      /\ \A b \in recv_buffer : b > to => b \in recv_buffer'
      /\ \A g \in Gaps' : g \in Gaps /\ g >= to
  BY <1>1, <1>2, <1>3
<1>5. recv_buffer' \cap Gaps' = {}
  BY <1>4 DEF IInv, NothingForgotten
<1>6. \A b \in recv_buffer' : b > next_seq' /\ kind'[b] # "screen"
  BY <1>4 DEF IInv, NothingForgotten
<1>7. ASSUME NEW b \in recv_buffer', NEW r \in next_seq'..b
      PROVE  r \in recv_buffer' \cup Gaps'
  <2>1. b \in recv_buffer /\ r \in next_seq..b /\ r \in Nat /\ r >= to
    BY <1>1, <1>2, <1>4
  <2>2. r \in recv_buffer \cup Gaps
    BY <2>1 DEF IInv, NothingForgotten
  <2> QED
    BY <1>1, <2>1, <2>2
<1>8. ASSUME NEW g \in Gaps'
      PROVE  g >= next_seq' /\ \E b \in recv_buffer' : g < b
  <2>1. g \in Gaps /\ g \in Nat /\ g >= to
    BY <1>3, <1>4
  <2>2. PICK b \in recv_buffer : g < b
    BY <2>1 DEF IInv, NothingForgotten
  <2>3. b > to
    BY <1>2, <2>1, <2>2
  <2> QED
    BY <1>4, <2>1, <2>2, <2>3
<1> QED
  BY <1>3, <1>4, <1>5, <1>6, <1>7, <1>8 DEF NothingForgotten

(* handle_arrival hands out frame s and what follows it.                   *)
LEMMA DeliverIInv ==
    ASSUME IInv, NEW s \in Nat, s < send_seq, ~Dropped(s),
           s = next_seq \/ kind[s] = "screen",
           highest_seq_seen' = Larger(highest_seq_seen, s),
           DeliverFrom(s), Rearm, UNCHANGED sender
    PROVE  IInv'
<1> USE DEF sender
<1>1. PICK to \in (s+1)..(Larger(highest_seq_seen, s) + 1) :
        /\ StopsAt(s+1, recv_buffer, to)
        /\ next_seq' = to
        /\ fate' = [r \in 0..(to-1) |->
                      IF r < next_seq THEN fate[r]
                      ELSE IF r < s THEN "obsoleted" ELSE Routed(r)]
        /\ recv_buffer' = recv_buffer \ ((next_seq..(to-1)) \ {s})
        /\ StopTracking(next_seq..(to-1))
        /\ UNCHANGED requests
  BY DEF DeliverFrom, Settle
<1>2. /\ next_seq \in Nat /\ next_seq <= s /\ s < to /\ to \in Nat
      /\ highest_seq_seen \in Nat /\ send_seq \in Nat
  <2>1. next_seq \in Nat /\ highest_seq_seen \in Nat /\ send_seq \in Nat
    BY DEF IInv, TypeOK
  <2>2. Larger(highest_seq_seen, s) \in Nat
    BY <2>1 DEF Larger
  <2> QED
    BY <2>1, <2>2 DEF Dropped
<1>3. to \notin recv_buffer /\ \A r \in (s+1)..(to-1) : r \in recv_buffer
  BY <1>1 DEF StopsAt
<1>4. to <= send_seq
  <2>1. CASE to = s + 1
    BY <1>2, <2>1
  <2>2. CASE to # s + 1
    <3>1. to - 1 \in (s+1)..(to-1)
      BY <1>2, <2>2
    <3> QED
      BY <1>2, <1>3, <3>1 DEF IInv, TypeOK
  <2> QED
    BY <2>1, <2>2
<1>5. /\ Gaps' = Gaps \ (next_seq..(to-1))
      /\ \A g \in Gaps' : gap_first_seen'[g] = gap_first_seen[g]
      /\ DOMAIN gap_nak_count' = DOMAIN gap_nak_count \ (next_seq..(to-1))
      /\ \A g \in DOMAIN gap_nak_count' : gap_nak_count'[g] = gap_nak_count[g]
      /\ gap_nak_sent_at' = gap_nak_sent_at \ (next_seq..(to-1))
  <2> DEFINE below == next_seq..(to-1)
  <2>1. /\ gap_first_seen' = Without(gap_first_seen, below)
        /\ gap_nak_count' = Without(gap_nak_count, below)
        /\ gap_nak_sent_at' = gap_nak_sent_at \ below
    BY <1>1 DEF StopTracking
  <2> HIDE DEF below
  <2>2. /\ DOMAIN gap_first_seen' = DOMAIN gap_first_seen \ below
        /\ \A g \in DOMAIN gap_first_seen \ below : gap_first_seen'[g] = gap_first_seen[g]
    BY <2>1, SMTT(30) DEF Without
  <2>3. /\ DOMAIN gap_nak_count' = DOMAIN gap_nak_count \ below
        /\ \A g \in DOMAIN gap_nak_count \ below : gap_nak_count'[g] = gap_nak_count[g]
    BY <2>1, SMTT(30) DEF Without
  <2> QED
    BY <2>1, <2>2, <2>3 DEF Gaps, below
<1>6. recv_buffer' = recv_buffer \ (next_seq..(to-1))
  <2>1. s \notin recv_buffer
    BY DEF IInv, NothingForgotten
  <2> QED
    BY <1>1, <2>1
<1>7. NothingForgotten' /\ \A g \in Gaps' : g \in Gaps /\ g \in Nat /\ g >= to
  BY <1>1, <1>2, <1>3, <1>5, <1>6, SettledPrefix
<1>8. \A g \in Gaps' : Retries(g)' = Retries(g)
  BY <1>5 DEF Retries
<1>9. TypeOK'
  <2>1. fate' \in [0..(to-1) -> Fates]
    BY SMTT(30), <1>1, <1>2 DEF Routed, Fates, IInv, TypeOK
  <2>2. gap_first_seen' \in [Gaps' -> 0..MaxAge]
    BY <1>1, <1>5 DEF StopTracking, Without, Gaps, IInv, TypeOK
  <2>3. gap_nak_count' \in [DOMAIN gap_nak_count' -> 1..MaxNakRetries]
    BY <1>1, <1>5 DEF StopTracking, Without, IInv, TypeOK
  <2>4. /\ send_seq' \in 0..MaxSeq /\ kind' \in [0..(send_seq'-1) -> Kinds]
        /\ nak_out' \subseteq 0..(send_seq'-1) /\ repaint_out' \in BOOLEAN
        /\ nak_timer' \in 0..Parked'
    BY SMTT(30), <1>1 DEF IInv, TypeOK, requests, Rearm, Parked
  <2>5. /\ next_seq' \in 0..send_seq' /\ highest_seq_seen' \in Nat
        /\ recv_buffer' \subseteq 0..(send_seq'-1)
        /\ Gaps' \subseteq 0..(send_seq'-1)
        /\ gap_nak_sent_at' \subseteq 0..(send_seq'-1)
    BY SMTT(30), <1>1, <1>2, <1>4, <1>5 DEF IInv, TypeOK, Larger
  <2> QED
    BY <1>1, <2>1, <2>2, <2>3, <2>4, <2>5 DEF TypeOK
<1>10. RetriedInOrder'
  BY <1>5, <1>7, <1>8 DEF IInv, RetriedInOrder
<1>11. NoStaleTracking'
  BY <1>5, <1>6 DEF IInv, NoStaleTracking
<1> QED
  BY <1>7, <1>9, <1>10, <1>11 DEF IInv

(* handle_arrival keeps frame s and asks for what it found missing.        *)
LEMMA ToBufferIInv ==
    ASSUME IInv, NEW s \in Nat, s < send_seq, ~Dropped(s),
           s # next_seq, kind[s] # "screen",
           highest_seq_seen' = Larger(highest_seq_seen, s),
           ToBuffer(s), Rearm, UNCHANGED sender
    PROVE  IInv'
<1> DEFINE missing  == Missing(s)
           known    == Gaps \ {s}
           new_gaps == NewGaps(s)
<1>1. /\ recv_buffer' = recv_buffer \cup {s}
      /\ gap_first_seen' = [g \in known \cup new_gaps |->
                                IF g \in new_gaps THEN 0 ELSE gap_first_seen[g]]
      /\ gap_nak_count' = Without(gap_nak_count, {s})
      /\ gap_nak_sent_at' = gap_nak_sent_at \cup new_gaps
      /\ nak_out' = nak_out \cup new_gaps
      /\ repaint_out' \in BOOLEAN
      /\ next_seq' = next_seq /\ fate' = fate
  BY DEF ToBuffer, IInv, TypeOK
<1>2. /\ next_seq \in Nat /\ send_seq \in Nat /\ highest_seq_seen \in Nat
      /\ next_seq < s
  BY DEF IInv, TypeOK, Dropped
<1>3. /\ \A m \in missing : m \in Nat /\ next_seq <= m /\ m < s /\ m \notin recv_buffer
      /\ \A m \in Nat : next_seq <= m /\ m < s /\ m \notin recv_buffer => m \in missing
  BY <1>2 DEF Missing
<1>4. \A b \in recv_buffer : b \in Nat
  BY DEF IInv, TypeOK
<1>5. \A g \in known : g \in Gaps /\ g \in Nat /\ g # s
  BY DEF IInv, TypeOK
<1> HIDE DEF missing
(* A gap found now lies above every gap known before. *)
<1>6. ASSUME NEW g \in new_gaps, NEW h \in known
      PROVE  h < g
  <2>1. PICK b \in recv_buffer : h < b
    BY <1>5 DEF IInv, NothingForgotten
  <2>2. g \in Nat /\ next_seq <= g /\ g # s /\ g \notin recv_buffer /\ g \notin Gaps
    BY <1>2, <1>3 DEF missing, NewGaps
  <2>3. ~(g <= b)
    BY <1>2, <1>4, <2>2 DEF IInv, NothingForgotten
  <2> QED
    BY <1>4, <1>5, <2>1, <2>2, <2>3
<1> HIDE DEF known, new_gaps
<1>7. /\ Gaps' = known \cup new_gaps /\ known \cap new_gaps = {}
      /\ known = Gaps \ {s}
      /\ \A g \in new_gaps : g \in missing /\ g \notin Gaps
      /\ missing \subseteq known \cup new_gaps
  <2>1. Gaps' = known \cup new_gaps
    BY <1>1 DEF Gaps
  <2>2. \A g \in new_gaps : g \in missing /\ g \notin Gaps
    BY DEF new_gaps, missing, NewGaps
  <2> QED
    BY <1>2, <1>3, <2>1, <2>2 DEF new_gaps, missing, known, NewGaps
<1>8. \A g \in known : gap_first_seen'[g] = gap_first_seen[g] /\ Retries(g)' = Retries(g)
  <2>1. \A g \in known : gap_first_seen'[g] = gap_first_seen[g]
    BY <1>1, <1>7
  <2>2. /\ DOMAIN gap_nak_count' = DOMAIN gap_nak_count \ {s}
        /\ \A g \in DOMAIN gap_nak_count \ {s} : gap_nak_count'[g] = gap_nak_count[g]
    <3>1. gap_nak_count' = Without(gap_nak_count, {s})
      BY <1>1
    <3> QED
      BY <3>1 DEF Without
  <2>3. \A g \in known : Retries(g)' = Retries(g)
    BY <1>5, <2>2 DEF Retries
  <2> QED
    BY <2>1, <2>3
<1>9. \A g \in new_gaps : gap_first_seen'[g] = 0 /\ Retries(g)' = 0
  <2>1. \A g \in new_gaps : gap_first_seen'[g] = 0
    BY <1>1
  <2>2. \A g \in new_gaps : g \notin DOMAIN gap_nak_count
    BY <1>7 DEF IInv, NoStaleTracking
  <2>3. DOMAIN gap_nak_count' = DOMAIN gap_nak_count \ {s}
    BY <1>1, WithoutDomain
  <2> QED
    BY <2>1, <2>2, <2>3 DEF Retries
<1>10. TypeOK'
  <2>1. new_gaps \subseteq 0..(send_seq-1) /\ known \subseteq 0..(send_seq-1)
    BY <1>2, <1>3, <1>7 DEF IInv, TypeOK
  <2>2. /\ send_seq' = send_seq /\ kind' = kind
    BY DEF sender
  <2>3. gap_first_seen' \in [Gaps' -> 0..MaxAge]
    <3>1. \A g \in known : gap_first_seen[g] \in 0..MaxAge
      BY <1>5 DEF IInv, TypeOK
    <3> QED
      BY <1>1, <1>7, <3>1, ReceiverAssumption
  <2>4. gap_nak_count' \in [DOMAIN gap_nak_count' -> 1..MaxNakRetries]
    BY <1>1 DEF Without, IInv, TypeOK
  <2>5. nak_timer' \in 0..Parked' /\ highest_seq_seen' \in Nat
    BY <1>2, ReceiverAssumption DEF Rearm, Parked, Larger
  <2>6. /\ recv_buffer' \subseteq 0..(send_seq-1) /\ Gaps' \subseteq 0..(send_seq-1)
        /\ gap_nak_sent_at' \subseteq 0..(send_seq-1) /\ nak_out' \subseteq 0..(send_seq-1)
    BY SMTT(30), <1>1, <1>2, <1>7, <2>1 DEF IInv, TypeOK
  <2>7. /\ send_seq \in 0..MaxSeq /\ kind \in [0..(send_seq-1) -> Kinds]
        /\ next_seq' \in 0..send_seq /\ fate' \in [0..(next_seq'-1) -> Fates]
    BY <1>1 DEF IInv, TypeOK
  <2> QED
    BY <1>1, <2>2, <2>3, <2>4, <2>5, <2>6, <2>7 DEF TypeOK
<1>11. NothingForgotten'
  <2>1. recv_buffer' \cap Gaps' = {}
    BY <1>1, <1>3, <1>7 DEF IInv, NothingForgotten
  <2>2. \A b \in recv_buffer' : b > next_seq' /\ kind'[b] # "screen"
    BY <1>1, <1>2 DEF IInv, NothingForgotten, sender
  <2>3. ASSUME NEW b \in recv_buffer', NEW r \in next_seq'..b
        PROVE  r \in recv_buffer' \cup Gaps'
    <3>1. CASE b = s
      BY <1>1, <1>2, <1>3, <1>7, <3>1
    <3>2. CASE b \in recv_buffer
      <4>1. r \in recv_buffer \cup Gaps
        BY <1>1, <3>2 DEF IInv, NothingForgotten
      <4> QED
        BY <1>1, <1>7, <4>1
    <3> QED
      BY <1>1, <3>1, <3>2
  <2>4. ASSUME NEW g \in Gaps'
        PROVE  g >= next_seq' /\ \E b \in recv_buffer' : g < b
    <3>1. CASE g \in known
      BY <1>1, <1>5, <3>1 DEF IInv, NothingForgotten
    <3>2. CASE g \in new_gaps
      BY <1>1, <1>3, <1>7, <3>2
    <3> QED
      BY <1>7, <3>1, <3>2
  <2> QED
    BY <2>1, <2>2, <2>3, <2>4 DEF NothingForgotten
<1>12. RetriedInOrder'
  <2> SUFFICES ASSUME NEW g \in Gaps', NEW h \in Gaps', g < h
               PROVE  \/ Retries(g)' > Retries(h)'
                      \/ Retries(g)' = Retries(h)' /\ gap_first_seen'[g] >= gap_first_seen'[h]
    BY DEF RetriedInOrder
  <2>1. g \in Nat /\ h \in Nat
    BY <1>3, <1>5, <1>7
  <2>2. CASE g \in known /\ h \in known
    BY <1>5, <1>8, <2>2 DEF IInv, RetriedInOrder
  <2>3. CASE g \in known /\ h \in new_gaps
    <3>1. Retries(g)' \in Nat
      BY <1>8, <2>3, RetriesRange DEF IInv
    <3>2. gap_first_seen'[g] \in Nat
      BY SMTT(30), <1>5, <1>8, <2>3 DEF IInv, TypeOK
    <3> QED
      BY <1>9, <2>3, <3>1, <3>2
  <2>4. CASE g \in new_gaps /\ h \in known
    BY <1>6, <2>1, <2>4
  <2>5. CASE g \in new_gaps /\ h \in new_gaps
    BY <1>9, <2>5
  <2> QED
    BY <1>7, <2>2, <2>3, <2>4, <2>5
<1>13. NoStaleTracking'
  <2>1. DOMAIN gap_nak_count' = DOMAIN gap_nak_count \ {s}
    BY <1>1 DEF Without
  <2> QED
    BY <1>1, <1>7, <2>1 DEF IInv, NoStaleTracking
<1> QED
  BY <1>10, <1>11, <1>12, <1>13 DEF IInv

(* The timer fires: give up, deliver, retry.                               *)
LEMMA CheckIInv ==
    ASSUME IInv, CheckNakTimeouts
    PROVE  IInv'
<1>1. PICK to \in next_seq..(highest_seq_seen + 1), base \in NakTimeouts :
        LET settled   == GiveUp \cup (next_seq..(to-1))
            waiting   == Gaps \ settled
            timed_out == {g \in waiting :
                            gap_first_seen[g] >= Backoff(base, Retries(g))}
        IN  /\ DrainGivenUp(to)
            /\ gap_first_seen' = [g \in waiting |->
                    IF g \in timed_out THEN 0 ELSE gap_first_seen[g]]
            /\ gap_nak_count' =
                    [g \in (DOMAIN gap_nak_count \ settled) \cup timed_out |->
                        IF g \in timed_out THEN Retries(g) + 1 ELSE gap_nak_count[g]]
            /\ gap_nak_sent_at' = (gap_nak_sent_at \ settled) \cup timed_out
            /\ nak_out' = nak_out \cup timed_out
            /\ repaint_out' \in BOOLEAN
            /\ nak_timer' \in {Parked, CheckInterval}
  BY DEF CheckNakTimeouts, IInv, TypeOK
<1>2. /\ next_seq \in Nat /\ highest_seq_seen \in Nat /\ send_seq \in Nat
      /\ to \in Nat /\ next_seq <= to
  BY DEF IInv, TypeOK
<1>3. UNCHANGED <<sender, highest_seq_seen>>
  BY DEF CheckNakTimeouts
<1> DEFINE below     == next_seq..(to-1)
           waiting   == Gaps \ below
           timed_out == {g \in waiting :
                            gap_first_seen[g] >= Backoff(base, Retries(g))}
(* What is given up lies below to, and all of below is given up or was     *)
(* buffered.                                                               *)
<1>4. /\ GiveUp \subseteq below
      /\ below \subseteq recv_buffer \cup GiveUp
      /\ to \notin recv_buffer
  <2>1. CASE GiveUp = {} /\ to = next_seq
    BY <1>2, <2>1 DEF IInv, NothingForgotten
  <2>2. CASE StopsAt(next_seq, recv_buffer \cup GiveUp, to)
    <3>1. \A g \in GiveUp : g < to
      BY <1>2, <2>2, GiveUpPassed
    <3>2. \A g \in Gaps : g \in Nat /\ g >= next_seq
      BY DEF IInv, TypeOK, NothingForgotten
    <3>3. GiveUp \subseteq below
      BY <1>2, <3>1, <3>2, GiveUpAreGaps
    <3> QED
      BY <2>2, <3>3 DEF StopsAt
  <2> QED
    BY <1>1, <2>1, <2>2 DEF DrainGivenUp
<1>5. GiveUp \cup below = below
  BY <1>4
<1>6. /\ next_seq' = to
      /\ fate' = [r \in 0..(to-1) |->
                    IF r < next_seq THEN fate[r]
                    ELSE IF r \in GiveUp THEN "given_up" ELSE Routed(r)]
      /\ recv_buffer' = recv_buffer \ (below \ GiveUp)
  BY <1>1 DEF DrainGivenUp, Settle
<1>7. recv_buffer' = recv_buffer \ below
  BY <1>6, GiveUpAreGaps DEF IInv, NothingForgotten
<1>8. /\ gap_first_seen' = [g \in waiting |->
                IF g \in timed_out THEN 0 ELSE gap_first_seen[g]]
      /\ gap_nak_count' =
                [g \in (DOMAIN gap_nak_count \ below) \cup timed_out |->
                    IF g \in timed_out THEN Retries(g) + 1 ELSE gap_nak_count[g]]
      /\ gap_nak_sent_at' = (gap_nak_sent_at \ below) \cup timed_out
      /\ nak_out' = nak_out \cup timed_out
      /\ repaint_out' \in BOOLEAN
      /\ nak_timer' \in {Parked, CheckInterval}
  BY <1>1, <1>5
<1>9. to <= send_seq
  <2>1. CASE to = next_seq
    BY <2>1 DEF IInv, TypeOK
  <2>2. CASE to # next_seq
    <3>1. to - 1 \in recv_buffer \cup GiveUp
      BY <1>2, <1>4, <2>2
    <3>2. to - 1 \in 0..(send_seq-1)
      BY <3>1, GiveUpAreGaps DEF IInv, TypeOK
    <3> QED
      BY <1>2, <3>2
  <2> QED
    BY <2>1, <2>2
<1>10. Gaps' = waiting
  BY <1>8 DEF Gaps
<1>11. NothingForgotten' /\ \A g \in Gaps' : g \in Gaps /\ g \in Nat /\ g >= to
  BY <1>2, <1>3, <1>4, <1>6, <1>7, <1>10, SettledPrefix DEF sender
<1>12. \A g \in waiting : Retries(g) \in 0..(MaxNakRetries-1)
  <2>1. \A g \in waiting : g \notin GiveUp
    BY <1>4
  <2>2. ASSUME NEW g \in waiting
        PROVE  Retries(g) # MaxNakRetries
    <3>1. g \in DOMAIN gap_nak_count => ~(gap_nak_count[g] >= MaxNakRetries)
      BY <2>1, <2>2 DEF GiveUp
    <3> QED
      BY <3>1, ReceiverAssumption DEF Retries
  <2>3. \A g \in waiting : Retries(g) \in 0..MaxNakRetries
    BY RetriesRange DEF IInv
  <2> QED
    BY <2>2, <2>3, ReceiverAssumption
<1> HIDE DEF below
<1>13. \A g \in waiting :
          /\ Retries(g)' = IF g \in timed_out THEN Retries(g) + 1 ELSE Retries(g)
          /\ gap_first_seen'[g] = IF g \in timed_out THEN 0 ELSE gap_first_seen[g]
  <2>1. \A g \in waiting :
          gap_first_seen'[g] = IF g \in timed_out THEN 0 ELSE gap_first_seen[g]
    BY <1>8
  <2> HIDE DEF timed_out
  <2>2. \A g \in waiting : g \notin below
    OBVIOUS
  <2>3. \A g \in waiting :
          Retries(g)' = IF g \in timed_out THEN Retries(g) + 1 ELSE Retries(g)
    BY <1>8, <2>2 DEF Retries
  <2> QED
    BY <2>1, <2>3
<1>14. TypeOK'
  <2>1. /\ timed_out \subseteq waiting /\ waiting \subseteq Gaps
        /\ Gaps \subseteq 0..(send_seq-1)
    BY DEF IInv, TypeOK
  <2> HIDE DEF timed_out
  <2>2. send_seq' = send_seq /\ kind' = kind /\ highest_seq_seen' = highest_seq_seen
    BY <1>3 DEF sender
  <2>3. gap_first_seen' \in [Gaps' -> 0..MaxAge]
    BY <1>8, <1>10, <2>1, ReceiverAssumption DEF IInv, TypeOK
  <2>4. gap_nak_count' \in [DOMAIN gap_nak_count' -> 1..MaxNakRetries]
    <3>1. \A g \in timed_out : Retries(g) + 1 \in 1..MaxNakRetries
      BY <1>12, <2>1, ReceiverAssumption
    <3>2. \A g \in DOMAIN gap_nak_count : gap_nak_count[g] \in 1..MaxNakRetries
      BY DEF IInv, TypeOK
    <3> QED
      BY <1>8, <3>1, <3>2
  <2>5. nak_timer' \in 0..Parked'
    BY <1>8, ReceiverAssumption DEF Parked
  <2>6. /\ recv_buffer' \subseteq 0..(send_seq-1) /\ Gaps' \subseteq 0..(send_seq-1)
        /\ gap_nak_sent_at' \subseteq 0..(send_seq-1) /\ nak_out' \subseteq 0..(send_seq-1)
    BY <1>7, <1>8, <1>10, <2>1 DEF IInv, TypeOK
  <2>7. /\ send_seq \in 0..MaxSeq /\ kind \in [0..(send_seq-1) -> Kinds]
        /\ next_seq' \in 0..send_seq /\ highest_seq_seen \in Nat
    BY <1>2, <1>6, <1>9 DEF IInv, TypeOK
  <2>8. fate' \in [0..(next_seq'-1) -> Fates]
    BY SMTT(30), <1>2, <1>6 DEF Routed, Fates, IInv, TypeOK
  <2> QED
    BY <1>8, <2>2, <2>3, <2>4, <2>5, <2>6, <2>7, <2>8 DEF TypeOK
<1>15. RetriedInOrder'
  <2> SUFFICES ASSUME NEW g \in waiting, NEW h \in waiting, g < h
               PROVE  \/ Retries(g)' > Retries(h)'
                      \/ Retries(g)' = Retries(h)' /\ gap_first_seen'[g] >= gap_first_seen'[h]
    BY <1>10 DEF RetriedInOrder
  <2>1. Retries(g) \in Nat /\ Retries(h) \in Nat
    BY <1>12
  <2>2. gap_first_seen[g] \in Nat /\ gap_first_seen[h] \in Nat
    BY DEF IInv, TypeOK
  <2>3. \/ Retries(g) > Retries(h)
        \/ Retries(g) = Retries(h) /\ gap_first_seen[g] >= gap_first_seen[h]
    BY DEF IInv, RetriedInOrder
  (* g is due whenever h is due after as many retries. *)
  <2>4. h \in timed_out /\ g \notin timed_out => Retries(g) > Retries(h)
    BY <2>1, <2>2, <2>3, ReceiverAssumption DEF Backoff
  <2> HIDE DEF timed_out, waiting
  <2> QED
    BY <1>13, <2>1, <2>2, <2>3, <2>4
<1>16. NoStaleTracking'
  <2>1. timed_out \subseteq waiting
    OBVIOUS
  <2> HIDE DEF timed_out
  <2>2. DOMAIN gap_nak_count' = (DOMAIN gap_nak_count \ below) \cup timed_out
    BY <1>8
  <2> QED
    BY <1>7, <1>8, <1>10, <2>1, <2>2 DEF IInv, NoStaleTracking
<1> QED
  BY <1>11, <1>14, <1>15, <1>16 DEF IInv

(* handle_arrival drops frame s.                                           *)
LEMMA DroppedIInv ==
    ASSUME IInv, Rearm,
           UNCHANGED <<sender, next_seq, recv_buffer, tracking, highest_seq_seen,
                       requests, fate>>
    PROVE  IInv'
<1> USE DEF sender, tracking, requests
<1>1. Gaps' = Gaps /\ \A g : Retries(g)' = Retries(g)
  BY DEF Gaps, Retries
<1>2. nak_timer' \in 0..Parked'
  BY ReceiverAssumption DEF Rearm, Parked
<1>3. TypeOK'
  BY <1>1, <1>2 DEF IInv, TypeOK
<1>4. NothingForgotten' /\ RetriedInOrder' /\ NoStaleTracking'
  BY <1>1 DEF IInv, NothingForgotten, RetriedInOrder, NoStaleTracking
<1> QED
  BY <1>3, <1>4 DEF IInv

LEMMA ArriveIInv ==
    ASSUME IInv, NEW s \in Nat, Arrive(s)
    PROVE  IInv'
<1>1. s < send_seq /\ Rearm /\ UNCHANGED sender
  BY DEF Arrive
<1>2. CASE Dropped(s)
  BY <1>1, <1>2, DroppedIInv DEF Arrive
<1>3. CASE ~Dropped(s) /\ Handle(s)
  <2>1. highest_seq_seen' = Larger(highest_seq_seen, s)
    BY <1>3 DEF Handle
  <2>2. CASE (s = next_seq \/ kind[s] = "screen") /\ DeliverFrom(s)
    BY <1>1, <1>3, <2>1, <2>2, DeliverIInv
  <2>3. CASE s # next_seq /\ kind[s] # "screen" /\ ToBuffer(s)
    BY <1>1, <1>3, <2>1, <2>3, ToBufferIInv
  <2> QED
    BY <1>3, <2>2, <2>3 DEF Handle
<1> QED
  BY <1>2, <1>3 DEF Arrive

LEMMA NextIInv ==
    ASSUME IInv, [Next]_vars
    PROVE  IInv'
<1>1. CASE UNCHANGED vars
  <2>1. Gaps' = Gaps /\ \A g : Retries(g)' = Retries(g)
    BY <1>1 DEF vars, tracking, Gaps, Retries
  <2>2. TypeOK'
    BY <1>1, <2>1 DEF vars, sender, tracking, requests, Parked, IInv, TypeOK
  <2> QED
    BY <1>1, <2>1, <2>2 DEF vars, sender, tracking, requests, IInv,
                            NothingForgotten, RetriedInOrder, NoStaleTracking
<1>2. ASSUME NEW k \in Kinds, Send(k) PROVE IInv'
  BY <1>2, SendIInv
<1>3. CASE TakeRequests
  BY <1>3, TakeRequestsIInv
<1>4. ASSUME NEW s \in 0..(MaxSeq-1), Arrive(s) PROVE IInv'
  BY <1>4, ArriveIInv
<1>5. CASE CheckNakTimeouts
  BY <1>5, CheckIInv
<1>6. CASE Tick
  BY <1>6, TickIInv
<1> QED
  BY <1>1, <1>2, <1>3, <1>4, <1>5, <1>6 DEF Next

-----------------------------------------------------------------------------
(* Theorems *)

(* The invariant of every behaviour of the reader, over any network.       *)
THEOREM ReceiverInvariant == Spec => []IInv
  BY InitIInv, NextIInv, PTL DEF Spec

(* Every variable has its type: in particular nothing is ever buffered,    *)
(* tracked or asked for that the peer did not send.                        *)
THEOREM ReceiverTypeOK == Spec => []TypeOK
  BY ReceiverInvariant, PTL DEF IInv

(* No number below a buffered frame falls out of both the buffer and the   *)
(* gap tracking (handle_arrival, drain_given_up_seqs).                     *)
THEOREM ReceiverForgetsNothing == Spec => []NothingForgotten
  BY ReceiverInvariant, PTL DEF IInv

(* Older gaps are retried at least as often, and given up no later, than   *)
(* younger ones (check_nak_timeouts).                                      *)
THEOREM ReceiverRetriesInOrder == Spec => []RetriedInOrder
  BY ReceiverInvariant, PTL DEF IInv

(* No retry count or NAK timestamp outlives the frame it is about.         *)
THEOREM ReceiverTracksNothingStale == Spec => []NoStaleTracking
  BY ReceiverInvariant, PTL DEF IInv

-----------------------------------------------------------------------------
(* What a step settles. *)

(* A frame handed out, and a number skipped over, have the fates the       *)
(* abstract specification admits.                                          *)
LEMMA DeliverSettles ==
    ASSUME IInv, IInv', NEW s \in Nat, s < send_seq, ~Dropped(s),
           s = next_seq \/ kind[s] = "screen", DeliverFrom(s), UNCHANGED sender
    PROVE  /\ Abstract!Settle(next_seq')
           /\ \A r \in next_seq..(next_seq'-1) : fate'[r] # "given_up"
<1>1. PICK to \in (s+1)..(Larger(highest_seq_seen, s) + 1) :
        /\ next_seq' = to
        /\ fate' = [r \in 0..(to-1) |->
                      IF r < next_seq THEN fate[r]
                      ELSE IF r < s THEN "obsoleted" ELSE Routed(r)]
  BY DEF DeliverFrom, Settle
<1>2. /\ next_seq \in Nat /\ next_seq <= s /\ s < to /\ to \in Nat
  <2>1. next_seq \in Nat /\ next_seq' \in Nat /\ Larger(highest_seq_seen, s) \in Nat
    BY DEF IInv, TypeOK, Larger
  <2> QED
    BY <1>1, <2>1 DEF Dropped
<1>3. /\ next_seq < to /\ to <= send_seq
      /\ fate' \in [0..(to-1) -> Fates]
      /\ send_seq' = send_seq /\ kind' = kind
  <2>1. send_seq' = send_seq /\ kind' = kind
    BY DEF sender
  <2>2. next_seq' \in 0..send_seq' /\ fate' \in [0..(next_seq'-1) -> Fates]
    BY DEF IInv, TypeOK
  <2>3. next_seq' = to /\ to \in Nat /\ next_seq < to
    BY <1>1, <1>2
  <2> QED
    BY <2>1, <2>2, <2>3
<1>4. \A r \in 0..(next_seq-1) : fate'[r] = fate[r]
  BY <1>1, <1>2
<1>5. ASSUME NEW r \in next_seq..(to-1)
      PROVE  Abstract!Justified(r, to) /\ fate'[r] # "given_up"
  <2>1. CASE r < s
    <3>1. fate'[r] = "obsoleted"
      BY <1>1, <1>2, <2>1
    <3>2. kind[s] = "screen" /\ s \in (r+1)..(to-1)
      BY <1>2, <2>1
    <3>3. fate'[s] = "delivered"
      BY <1>1, <1>2, <3>2 DEF Routed
    <3> QED
      BY <3>1, <3>2, <3>3 DEF Abstract!Justified
  <2>2. CASE ~(r < s)
    <3>1. fate'[r] = Routed(r)
      BY <1>1, <1>2, <2>2
    <3> QED
      BY <3>1 DEF Routed, Abstract!Justified
  <2> QED
    BY <2>1, <2>2
<1> QED
  BY <1>1, <1>3, <1>4, <1>5 DEF Abstract!Settle, Abstract!Fates, Fates

LEMMA CheckSettles ==
    ASSUME IInv, IInv', CheckNakTimeouts
    PROVE  /\ Abstract!Settle(next_seq') \/ UNCHANGED Abstract!vars
           /\ \A r \in recv_buffer : r < next_seq' => fate'[r] # "given_up"
<1>1. PICK to \in next_seq..(highest_seq_seen + 1) : DrainGivenUp(to)
  BY DEF CheckNakTimeouts
<1>2. /\ next_seq' = to
      /\ fate' = [r \in 0..(to-1) |->
                    IF r < next_seq THEN fate[r]
                    ELSE IF r \in GiveUp THEN "given_up" ELSE Routed(r)]
  BY <1>1 DEF DrainGivenUp, Settle
<1>3. /\ next_seq \in Nat /\ to \in Nat /\ next_seq <= to /\ to <= send_seq
      /\ fate' \in [0..(to-1) -> Fates] /\ fate \in [0..(next_seq-1) -> Fates]
      /\ send_seq' = send_seq /\ kind' = kind
  BY SMTT(30), <1>1, <1>2 DEF IInv, TypeOK, CheckNakTimeouts, sender
<1>4. \A r \in 0..(next_seq-1) : fate'[r] = fate[r]
  BY <1>2, <1>3
<1>5. ASSUME NEW r \in next_seq..(to-1)
      PROVE  /\ Abstract!Justified(r, to)
             /\ r \in recv_buffer => fate'[r] # "given_up"
  <2>1. fate'[r] = IF r \in GiveUp THEN "given_up" ELSE Routed(r)
    BY <1>2, <1>3
  <2>2. r \in recv_buffer => r \notin GiveUp
    BY GiveUpAreGaps DEF IInv, NothingForgotten
  <2> QED
    BY <2>1, <2>2 DEF Routed, Abstract!Justified
<1>6. \A r \in recv_buffer : r \in Nat /\ r > next_seq
  BY DEF IInv, NothingForgotten, TypeOK
<1>7. CASE to = next_seq
  <2>1. fate' = fate
    BY <1>3, <1>4, <1>7
  <2> QED
    BY <1>2, <1>3, <1>6, <1>7, <2>1 DEF Abstract!vars
<1>8. CASE next_seq < to
  <2>1. Abstract!Settle(to)
    BY <1>2, <1>3, <1>4, <1>5, <1>8 DEF Abstract!Settle, Abstract!Fates, Fates
  <2> QED
    BY SMTT(30), <1>2, <1>3, <1>5, <1>6, <2>1
<1> QED
  BY <1>3, <1>7, <1>8

(* Every step settles what it may, and abandons nothing that arrived.      *)
LEMMA NextSettles ==
    ASSUME IInv, IInv', [Next]_vars
    PROVE  /\ [Abstract!Next]_(Abstract!vars)
           /\ \A r \in recv_buffer : r < next_seq' => fate'[r] # "given_up"
<1>1. next_seq \in Nat /\ \A r \in recv_buffer : r \in Nat /\ r > next_seq
  BY DEF IInv, NothingForgotten, TypeOK
<1>2. \A r \in recv_buffer : ~(r < next_seq)
  BY <1>1
<1>3. CASE UNCHANGED vars \/ TakeRequests \/ Tick
  <2>1. UNCHANGED Abstract!vars
    BY <1>3 DEF vars, TakeRequests, Tick, sender, Abstract!vars
  <2> QED
    BY <1>2, <2>1 DEF Abstract!vars
<1>4. ASSUME NEW k \in Kinds, Send(k)
      PROVE  /\ Abstract!Send(k)
             /\ \A r \in recv_buffer : ~(r < next_seq')
  BY <1>2, <1>4 DEF Send, Abstract!Send
<1>5. ASSUME NEW s \in 0..(MaxSeq-1), Arrive(s)
      PROVE  /\ [Abstract!Next]_(Abstract!vars)
             /\ \A r \in recv_buffer : r < next_seq' => fate'[r] # "given_up"
  <2>1. CASE next_seq' = next_seq /\ fate' = fate
    BY <1>2, <1>5, <2>1 DEF Arrive, sender, Abstract!vars
  <2>2. CASE /\ ~Dropped(s) /\ DeliverFrom(s)
             /\ s = next_seq \/ kind[s] = "screen"
    <3>1. s < send_seq /\ UNCHANGED sender /\ s \in Nat
      BY <1>5 DEF Arrive
    <3>2. /\ Abstract!Settle(next_seq')
          /\ \A r \in next_seq..(next_seq'-1) : fate'[r] # "given_up"
      BY <2>2, <3>1, DeliverSettles
    <3>3. next_seq' \in 0..send_seq /\ next_seq' \in Nat
      BY <3>1 DEF IInv, TypeOK, sender
    <3>4. \A r \in recv_buffer : r < next_seq' => r \in next_seq..(next_seq'-1)
      BY <1>1, <3>3
    <3> QED
      BY <3>2, <3>3, <3>4 DEF Abstract!Next
  <2> QED
    BY <1>5, <2>1, <2>2 DEF Arrive, Handle, ToBuffer
<1>6. CASE CheckNakTimeouts
  <2>1. next_seq' \in 0..send_seq
    BY <1>6 DEF CheckNakTimeouts, IInv, TypeOK, sender
  <2> QED
    BY <1>6, <2>1, CheckSettles DEF Abstract!Next
<1> QED
  BY <1>3, <1>4, <1>5, <1>6 DEF Next, Abstract!Next, Abstract!Kinds, Kinds

(* A frame that reached the reorder buffer is never given up.              *)
THEOREM ReceiverAbandonsNothingBuffered == Spec => BufferedNeverAbandoned
<1>1. IInv /\ IInv' /\ [Next]_vars =>
        [\A s \in recv_buffer : s < next_seq' => fate'[s] # "given_up"]_vars
  BY NextSettles
<1> QED
  BY <1>1, ReceiverInvariant, PTL DEF Spec, BufferedNeverAbandoned

(* The reader implements OrderedDelivery: whatever the network does, it    *)
(* settles the frames in the order they were sent, each once, skips only   *)
(* what it gave up or a snapshot made obsolete.                            *)
THEOREM ReceiverImplementsOrderedDelivery == Spec => ImplementsOrderedDelivery
<1>1. Init => Abstract!Init
  BY DEF Init, Abstract!Init
<1>2. IInv /\ IInv' /\ [Next]_vars => [Abstract!Next]_(Abstract!vars)
  BY NextSettles
<1> QED
  BY <1>1, <1>2, ReceiverInvariant, PTL
     DEF Spec, ImplementsOrderedDelivery, Abstract!Spec

-----------------------------------------------------------------------------
(* The link.                                                               *)

HIDE ReceiverAssumption

(* What the sender keeps and what is in flight was sent.                   *)
LinkIInv == IInv /\ LinkTypeOK

(* Each action of the link is an action of the reader, or of its           *)
(* environment, or leaves the reader alone.                                *)
LEMMA LinkStep ==
    ASSUME LinkIInv, [LinkNext]_linkVars
    PROVE  [Next]_vars
<1>1. CASE UNCHANGED vars
  BY <1>1
<1>2. ASSUME SendControl \/ \E k \in Kinds \ {"control"} : SendData(k)
      PROVE  Next
  BY <1>2 DEF SendControl, SendData, Kinds, Next
<1>3. ASSUME NEW s \in wire, Receive(s)
      PROVE  Next
  <2>1. s \in 0..(MaxSeq-1)
    BY SMTT(30), ReceiverAssumption DEF LinkIInv, LinkTypeOK, TypeOK
  <2> QED
    BY <1>3, <2>1 DEF Receive, Next
<1>4. ASSUME NEW s \in nak_out, RequestArrives(s) \/ LoseRequest(s)
      PROVE  Next
  <2>1. /\ nak_out' = nak_out \ {s} /\ repaint_out' = repaint_out
        /\ UNCHANGED <<sender, receiver>>
    BY <1>4 DEF RequestArrives, LoseRequest
  <2>2. nak_out' # nak_out
    BY <2>1
  <2>3. \E taken \in SUBSET nak_out : nak_out' = nak_out \ taken
    BY <2>1
  <2> QED
    BY <2>1, <2>2, <2>3 DEF TakeRequests, requests, receiver, Next
<1>5. CASE RepaintLeaves
  <2>1. \E taken \in SUBSET nak_out : nak_out' = nak_out \ taken
    BY <1>5 DEF RepaintLeaves
  <2> QED
    BY <1>5, <2>1 DEF RepaintLeaves, TakeRequests, requests, receiver, Next
<1>6. CASE Clock \/ NakTimer
  BY <1>6 DEF Clock, NakTimer, Next
<1>7. ASSUME CollectRequests \/ DrainRequests \/ \E s \in wire : LosePacket(s)
      PROVE  UNCHANGED vars
  BY <1>7 DEF CollectRequests, DrainRequests, LosePacket
<1> QED
  BY <1>1, <1>2, <1>3, <1>4, <1>5, <1>6, <1>7 DEF LinkNext, linkVars

LEMMA LinkInitIInv == LinkInit => LinkIInv
<1> SUFFICES ASSUME LinkInit PROVE LinkIInv
  OBVIOUS
<1>1. IInv
  BY InitIInv DEF LinkInit
<1> QED
  BY <1>1, LinkAssumption DEF LinkInit, LinkIInv, LinkTypeOK, IInv

LEMMA LinkNextIInv ==
    ASSUME LinkIInv, [LinkNext]_linkVars
    PROVE  LinkIInv'
<1>1. IInv'
  BY LinkStep, NextIInv DEF LinkIInv
<1> SUFFICES LinkTypeOK'
  BY <1>1 DEF LinkIInv
<1>2. TypeOK /\ TypeOK' /\ LinkTypeOK
  BY <1>1 DEF LinkIInv, IInv
<1>3. send_seq \in Nat /\ nak_out \subseteq 0..(send_seq-1) /\ losses \in Nat /\ dups \in Nat
  BY <1>2, LinkAssumption DEF LinkTypeOK, TypeOK
<1>4. ASSUME NEW k \in Kinds, Send(k)
      PROVE  /\ send_seq' = send_seq + 1
             /\ 0..(send_seq-1) \subseteq 0..(send_seq'-1)
             /\ send_seq \in 0..(send_seq'-1)
  BY <1>3, <1>4 DEF Send
<1>5. CASE UNCHANGED <<sender, sending, network>>
  BY <1>2, <1>5 DEF LinkTypeOK, sender, sending, network
<1>6. CASE SendControl
  BY <1>2, <1>4, <1>6 DEF SendControl, LinkTypeOK, Kinds, sending
<1>7. CASE CollectRequests \/ DrainRequests
  <2>1. send_seq' = send_seq /\ UNCHANGED <<losses, dups>>
    BY <1>7 DEF CollectRequests, DrainRequests, vars, sender, network
  <2>2. /\ retransmit_buffer' = retransmit_buffer
        /\ retransmit_rx' \subseteq retransmit_rx
        /\ pending_retransmit' \subseteq pending_retransmit \cup retransmit_rx
        /\ wire' \subseteq wire \cup retransmit_buffer
    BY <1>7 DEF CollectRequests, DrainRequests, network
  <2> QED
    BY <1>2, <2>1, <2>2 DEF LinkTypeOK
<1>8. ASSUME NEW k \in Kinds, SendData(k) PROVE LinkTypeOK'
  BY <1>2, <1>4, <1>8 DEF SendData, LinkTypeOK
<1>9. ASSUME NEW s \in wire, Receive(s) \/ LosePacket(s) PROVE LinkTypeOK'
  <2>1. send_seq' = send_seq /\ UNCHANGED sending /\ wire' \subseteq wire
    BY <1>9 DEF Receive, Arrive, LosePacket, vars, sender
  <2>2. losses' \in 0..MaxLosses /\ dups' \in 0..MaxDups
    BY <1>2, <1>3, <1>9, LinkAssumption DEF Receive, LosePacket, LinkTypeOK
  <2> QED
    BY <1>2, <2>1, <2>2 DEF LinkTypeOK, sending
<1>10. ASSUME NEW s \in nak_out, RequestArrives(s) \/ LoseRequest(s) PROVE LinkTypeOK'
  <2>1. /\ send_seq' = send_seq /\ UNCHANGED <<retransmit_buffer, pending_retransmit, wire, dups>>
        /\ retransmit_rx' \subseteq retransmit_rx \cup {s}
    BY <1>10 DEF RequestArrives, LoseRequest, sender, sending, network
  <2>2. losses' \in 0..MaxLosses
    BY <1>2, <1>3, <1>10, LinkAssumption DEF RequestArrives, LoseRequest, LinkTypeOK, network
  <2> QED
    BY <1>2, <1>3, <2>1, <2>2 DEF LinkTypeOK
<1>11. CASE RepaintLeaves \/ Clock \/ NakTimer
  BY <1>5, <1>11 DEF RepaintLeaves, Clock, NakTimer, Tick, CheckNakTimeouts
<1> QED
  BY <1>1, <1>5, <1>6, <1>7, <1>8, <1>9, <1>10, <1>11
     DEF LinkNext, linkVars, vars

-----------------------------------------------------------------------------
(* Theorems *)

(* Sender, network and reader together keep their types: a packet, a       *)
(* request or a kept frame is always one that was sent.                    *)
THEOREM LinkTypeCorrect == LinkSpec => []LinkTypeOK
<1>1. LinkIInv => LinkTypeOK
  BY DEF LinkIInv
<1> QED
  BY <1>1, LinkInitIInv, LinkNextIInv, PTL DEF LinkSpec

(* The link implements the reader over a hostile network, and with         *)
(* ReceiverImplementsOrderedDelivery the abstract specification: frames    *)
(* are settled in the order UdpSender numbered them, each once.            *)
THEOREM LinkImplementsReceiver == LinkSpec => ImplementsReceiver
<1>1. LinkInit => Init
  BY DEF LinkInit
<1> QED
  BY <1>1, LinkInitIInv, LinkNextIInv, LinkStep, PTL DEF LinkSpec, ImplementsReceiver, Spec

-----------------------------------------------------------------------------
(* NAK recovery.  A data frame that is still wanted has been lost once     *)
(* before it is asked for and once more for each retry: in a timely        *)
(* network nothing of it is in flight when the NAK timer fires (Quiet), so *)
(* the retries never outnumber the losses (Counted).  A sender that still  *)
(* has the frame answers every request (Held).                             *)

(* Neither settled nor buffered by the reader, and in the sender's window. *)
Wanted(s) ==
    /\ s \in next_seq..(send_seq-1) /\ s \notin recv_buffer
    /\ kind[s] # "control" /\ s + RetransmitWindow >= send_seq - 1

(* The frame or a request for it is under way. *)
Flying(s) == s \in wire \cup nak_out \cup retransmit_rx \cup pending_retransmit

Counted ==
    \A s \in 0..(send_seq-1) : Wanted(s) =>
        Retries(s) <= losses /\ (~Flying(s) => Retries(s) < losses)

Quiet == nak_timer = 0 => \A g \in Gaps : ~Flying(g)

Held ==
    \A s \in 0..(send_seq-1) :
        kind[s] # "control" /\ s + RetransmitWindow >= send_seq - 1 => s \in retransmit_buffer

HighestWasSent == highest_seq_seen = 0 \/ highest_seq_seen < send_seq

Recovery == Counted /\ Quiet /\ Held /\ HighestWasSent /\ DataRecovered

(* No frame in flight is so far ahead that the reader refuses it: at most  *)
(* MAX_SEQ_JUMP frames are out at a time.                                  *)
InReach == \A s \in wire : s <= next_seq + MaxSeqJump

LEMMA Numbers ==
    ASSUME LinkIInv
    PROVE  /\ send_seq \in Nat /\ next_seq \in 0..send_seq /\ highest_seq_seen \in Nat
           /\ losses \in 0..MaxLosses /\ MaxLosses \in Nat /\ RetransmitWindow \in Nat
           /\ Gaps \subseteq 0..(send_seq-1) /\ wire \subseteq 0..(send_seq-1)
           /\ nak_out \subseteq 0..(send_seq-1) /\ retransmit_rx \subseteq 0..(send_seq-1)
           /\ pending_retransmit \subseteq 0..(send_seq-1)
           /\ recv_buffer \subseteq 0..(send_seq-1)
           /\ DOMAIN fate = 0..(next_seq-1)
           /\ \A x : Retries(x) \in 0..MaxNakRetries /\ (x \notin Gaps => Retries(x) = 0)
           /\ MaxNakRetries \in Nat \ {0}
<1>1. TypeOK /\ NoStaleTracking
  BY DEF LinkIInv, IInv
<1>2. \A x : Retries(x) \in 0..MaxNakRetries
  BY <1>1, RetriesRange
<1>3. \A x : x \notin Gaps => Retries(x) = 0
  BY <1>1 DEF Retries, NoStaleTracking
<1>4. /\ losses \in 0..MaxLosses /\ wire \subseteq 0..(send_seq-1)
      /\ retransmit_rx \subseteq 0..(send_seq-1) /\ pending_retransmit \subseteq 0..(send_seq-1)
  BY DEF LinkIInv, LinkTypeOK
<1>5. /\ send_seq \in Nat /\ next_seq \in 0..send_seq /\ highest_seq_seen \in Nat
      /\ Gaps \subseteq 0..(send_seq-1) /\ nak_out \subseteq 0..(send_seq-1)
      /\ recv_buffer \subseteq 0..(send_seq-1) /\ DOMAIN fate = 0..(next_seq-1)
  BY <1>1, ReceiverAssumption DEF TypeOK
<1>6. MaxLosses \in Nat /\ RetransmitWindow \in Nat /\ MaxNakRetries \in Nat \ {0}
  BY LinkAssumption, ReceiverAssumption
<1> QED
  BY <1>2, <1>3, <1>4, <1>5, <1>6

(* A frame is sent: it is wanted and under way, and the window moves on.   *)
LEMMA SendRecovers ==
    ASSUME LinkIInv, LinkIInv', Recovery, NEW k \in Kinds, Send(k),
           wire' = wire \cup {send_seq}, losses' = losses,
           UNCHANGED <<retransmit_rx, pending_retransmit>>,
           \/ k = "control" /\ retransmit_buffer' = retransmit_buffer
           \/ retransmit_buffer' = {s \in retransmit_buffer \cup {send_seq} :
                                        s + RetransmitWindow >= send_seq}
    PROVE  Recovery'
<1>1. /\ send_seq' = send_seq + 1 /\ send_seq \in Nat
      /\ next_seq' = next_seq /\ recv_buffer' = recv_buffer /\ nak_timer' = nak_timer
      /\ highest_seq_seen' = highest_seq_seen /\ nak_out' = nak_out /\ fate' = fate
      /\ Gaps' = Gaps /\ \A x : Retries(x)' = Retries(x)
  BY Numbers DEF Send, tracking, requests, Gaps, Retries
<1>2. kind'[send_seq] = k /\ \A s \in 0..(send_seq-1) : kind'[s] = kind[s]
  BY <1>1 DEF Send
<1>3. \A s \in 0..(send_seq'-1) : s \in 0..(send_seq-1) \/ s = send_seq
  BY <1>1
<1>4. \A s \in 0..(send_seq-1) : Flying(s)' <=> Flying(s)
  BY <1>1 DEF Flying
<1>5. Counted'
  <2> SUFFICES ASSUME NEW s \in 0..(send_seq'-1), Wanted(s)'
               PROVE  Retries(s)' <= losses' /\ (~Flying(s)' => Retries(s)' < losses')
    BY DEF Counted
  <2>1. CASE s = send_seq
    <3>1. Flying(s)' /\ Retries(s)' = 0
      <4>1. s \notin Gaps
        BY <1>1, <2>1, Numbers
      <4> QED BY <1>1, <2>1, <4>1, Numbers DEF Flying
    <3> QED BY <3>1, Numbers
  <2>2. CASE s \in 0..(send_seq-1)
    <3>1. Wanted(s)
      BY <1>1, <1>2, <2>2, Numbers DEF Wanted
    <3> QED BY <1>1, <1>4, <2>2, <3>1 DEF Recovery, Counted
  <2> QED BY <1>3, <2>1, <2>2
<1>6. Quiet'
  <2>1. \A g \in Gaps : g \in 0..(send_seq-1)
    BY Numbers
  <2> QED BY <1>1, <1>4, <2>1 DEF Recovery, Quiet
<1>7. Held'
  <2> SUFFICES ASSUME NEW s \in 0..(send_seq'-1), kind'[s] # "control",
                      s + RetransmitWindow >= send_seq' - 1
               PROVE  s \in retransmit_buffer'
    BY DEF Held
  <2>1. s + RetransmitWindow >= send_seq
    BY <1>1, Numbers
  <2>2. CASE s = send_seq
    BY <1>2, <2>1, <2>2
  <2>3. CASE s \in 0..(send_seq-1)
    <3>1. kind[s] # "control" /\ s + RetransmitWindow >= send_seq - 1
      BY <1>1, <1>2, <2>1, <2>3, Numbers
    <3>2. s \in retransmit_buffer
      BY <2>3, <3>1 DEF Recovery, Held
    <3> QED BY <2>1, <3>2
  <2> QED BY <1>3, <2>2, <2>3
<1>8. HighestWasSent'
  BY <1>1, Numbers DEF Recovery, HighestWasSent
<1>9. DataRecovered'
  <2> SUFFICES ASSUME NEW s \in DOMAIN fate', fate'[s] = "given_up", kind'[s] # "control"
               PROVE  s + RetransmitWindow < send_seq' - 1
    BY DEF DataRecovered
  <2>1. s \in DOMAIN fate /\ s \in 0..(send_seq-1) /\ fate[s] = "given_up"
    BY <1>1, Numbers
  <2>2. s + RetransmitWindow < send_seq - 1
    BY <1>2, <2>1 DEF Recovery, DataRecovered
  <2> QED BY <1>1, <2>1, <2>2, Numbers
<1> QED BY <1>5, <1>6, <1>7, <1>8, <1>9 DEF Recovery

(* What the reader leaves alone. *)
SameReader ==
    /\ send_seq' = send_seq /\ kind' = kind /\ next_seq' = next_seq
    /\ recv_buffer' = recv_buffer /\ fate' = fate /\ highest_seq_seen' = highest_seq_seen
    /\ Gaps' = Gaps /\ \A x : Retries(x)' = Retries(x)

(* A step of the network: what stops flying is lost, or was not wanted.    *)
LEMMA NetworkRecovers ==
    ASSUME LinkIInv, LinkIInv', Recovery, SameReader, retransmit_buffer' = retransmit_buffer,
           losses <= losses', nak_timer' = nak_timer,
           \A s : Flying(s)' => Flying(s),
           \A s \in 0..(send_seq-1) :
               Wanted(s) /\ Flying(s) /\ ~Flying(s)' => losses < losses'
    PROVE  Recovery'
<1>1. Counted'
  <2> SUFFICES ASSUME NEW s \in 0..(send_seq'-1), Wanted(s)'
               PROVE  Retries(s)' <= losses' /\ (~Flying(s)' => Retries(s)' < losses')
    BY DEF Counted
  <2>1. s \in 0..(send_seq-1) /\ Wanted(s)
    BY DEF SameReader, Wanted
  <2>2. Retries(s) <= losses /\ (~Flying(s) => Retries(s) < losses)
    BY <2>1 DEF Recovery, Counted
  <2>3. Retries(s)' = Retries(s) /\ Retries(s) \in Nat /\ losses \in Nat /\ losses' \in Nat
    <3>1. losses' \in Nat
      BY LinkAssumption DEF LinkIInv, LinkTypeOK
    <3> QED BY <3>1, Numbers DEF SameReader
  <2>4. CASE Flying(s)' \/ ~Flying(s)
    BY <2>2, <2>3, <2>4
  <2>5. CASE Flying(s) /\ ~Flying(s)'
    <3>1. losses < losses'
      BY <2>1, <2>5
    <3> QED BY <2>2, <2>3, <3>1
  <2> QED BY <2>4, <2>5
<1>2. Quiet'
  BY DEF Recovery, Quiet, SameReader
<1>3. Held' /\ HighestWasSent' /\ DataRecovered'
  BY DEF Recovery, Held, HighestWasSent, DataRecovered, SameReader
<1> QED BY <1>1, <1>2, <1>3 DEF Recovery

LEMMA CountsDropped ==
    ASSUME NEW S, gap_nak_count' = Without(gap_nak_count, S), NEW x
    PROVE  Retries(x)' \in {0, Retries(x)}
<1>1. /\ DOMAIN gap_nak_count' = DOMAIN gap_nak_count \ S
      /\ \A y \in DOMAIN gap_nak_count \ S : gap_nak_count'[y] = gap_nak_count[y]
  BY DEF Without
<1> QED BY <1>1 DEF Retries

(* A frame that arrives, within reach: it is settled or buffered, nothing  *)
(* becomes wanted that was not, and nothing is given up.                   *)
LEMMA ArrivalSettles ==
    ASSUME LinkIInv, IInv', NEW s \in 0..(send_seq-1), Arrive(s),
           s <= next_seq + MaxSeqJump
    PROVE  /\ \A x \in 0..(send_seq-1) : Wanted(x)' => Wanted(x) /\ x # s
           /\ \A x : Retries(x)' \in {0, Retries(x)}
           /\ \A r \in DOMAIN fate' : fate'[r] = "given_up" =>
                  r \in DOMAIN fate /\ fate[r] = "given_up"
           /\ HighestWasSent => HighestWasSent'
<1>1. /\ send_seq' = send_seq /\ kind' = kind /\ UNCHANGED sender /\ s \in Nat /\ s < send_seq
  BY Numbers DEF Arrive, sender
<1>2. CASE Dropped(s)
  <2>1. /\ s < next_seq /\ next_seq' = next_seq /\ recv_buffer' = recv_buffer /\ fate' = fate
        /\ highest_seq_seen' = highest_seq_seen /\ gap_nak_count' = gap_nak_count
    BY <1>1, <1>2, Numbers, ReceiverAssumption DEF Arrive, Dropped, tracking
  <2>2. \A x : Retries(x)' = Retries(x)
    BY <2>1 DEF Retries
  <2>3. \A x \in 0..(send_seq-1) : Wanted(x)' => Wanted(x) /\ x # s
    BY <1>1, <2>1, Numbers DEF Wanted
  <2> QED BY <1>1, <2>1, <2>2, <2>3, Numbers DEF HighestWasSent
<1>3. CASE ~Dropped(s) /\ Handle(s)
  <2>1. highest_seq_seen' = Larger(highest_seq_seen, s)
    BY <1>3 DEF Handle
  <2>2. HighestWasSent => HighestWasSent'
    BY <1>1, <2>1, Numbers DEF HighestWasSent, Larger
  <2>3. CASE (s = next_seq \/ kind[s] = "screen") /\ DeliverFrom(s)
    <3>1. PICK to \in (s+1)..(Larger(highest_seq_seen, s) + 1) :
            /\ next_seq' = to
            /\ recv_buffer' = recv_buffer \ ((next_seq..(to-1)) \ {s})
            /\ gap_nak_count' = Without(gap_nak_count, next_seq..(to-1))
      BY <2>3 DEF DeliverFrom, Settle, StopTracking
    <3>2. \A x : Retries(x)' \in {0, Retries(x)}
      BY <3>1, CountsDropped
    <3>3. next_seq <= to /\ s < to /\ to \in Nat
      <4>1. next_seq <= s
        BY <1>1, <1>3, Numbers DEF Dropped
      <4> QED BY <1>1, <3>1, <4>1, Numbers DEF Larger
    <3>4. \A x \in 0..(send_seq-1) : Wanted(x)' => Wanted(x) /\ x # s
      <4> SUFFICES ASSUME NEW x \in 0..(send_seq-1), Wanted(x)' PROVE Wanted(x) /\ x # s
        OBVIOUS
      <4>1. to <= x /\ x \notin recv_buffer' /\ kind[x] # "control"
            /\ x + RetransmitWindow >= send_seq - 1
        BY <1>1, <3>1 DEF Wanted
      <4>2. x \notin recv_buffer
        BY <3>1, <3>3, <4>1, Numbers
      <4> QED BY <1>1, <3>3, <4>1, <4>2, Numbers DEF Wanted
    <3>5. \A r \in next_seq..(next_seq'-1) : fate'[r] # "given_up"
      BY <1>1, <1>3, <2>3, DeliverSettles DEF LinkIInv
    <3>6. DOMAIN fate' = 0..(next_seq'-1) /\ \A r \in 0..(next_seq-1) : fate'[r] = fate[r]
      <4>1. PICK to2 \in (s+1)..(Larger(highest_seq_seen, s) + 1) :
              /\ next_seq' = to2
              /\ fate' = [r \in 0..(to2-1) |->
                            IF r < next_seq THEN fate[r]
                            ELSE IF r < s THEN "obsoleted" ELSE Routed(r)]
        BY <2>3 DEF DeliverFrom, Settle
      <4> QED BY <3>1, <3>3, <4>1, Numbers
    <3>7. \A r \in DOMAIN fate' : r \in 0..(next_seq-1) \/ r \in next_seq..(next_seq'-1)
      BY <3>1, <3>3, <3>6, Numbers
    <3> QED BY <2>2, <3>2, <3>4, <3>5, <3>6, <3>7, Numbers
  <2>4. CASE s # next_seq /\ ToBuffer(s)
    <3>1. /\ next_seq' = next_seq /\ fate' = fate /\ recv_buffer' = recv_buffer \cup {s}
          /\ gap_nak_count' = Without(gap_nak_count, {s})
      BY <2>4 DEF ToBuffer
    <3>2. \A x : Retries(x)' \in {0, Retries(x)}
      BY <3>1, CountsDropped
    <3>3. \A x \in 0..(send_seq-1) : Wanted(x)' => Wanted(x) /\ x # s
      BY <1>1, <3>1 DEF Wanted
    <3> QED BY <2>2, <3>1, <3>2, <3>3
  <2> QED BY <1>3, <2>3, <2>4 DEF Handle
<1> QED BY <1>2, <1>3 DEF Arrive

LEMMA ReceiveRecovers ==
    ASSUME LinkIInv, LinkIInv', Recovery, InReach, NEW s \in wire, Receive(s)
    PROVE  Recovery'
<1>1. /\ s \in 0..(send_seq-1) /\ s <= next_seq + MaxSeqJump /\ Arrive(s) /\ IInv'
  BY Numbers DEF InReach, Receive, LinkIInv
<1>2. /\ send_seq' = send_seq /\ kind' = kind /\ losses' = losses
      /\ retransmit_buffer' = retransmit_buffer /\ retransmit_rx' = retransmit_rx
      /\ pending_retransmit' = pending_retransmit /\ wire \ {s} \subseteq wire'
      /\ nak_timer' = CheckInterval
  BY <1>1 DEF Receive, Arrive, Rearm, sender, sending
<1>3. nak_out \subseteq nak_out'
  BY <1>1 DEF Arrive, Handle, DeliverFrom, ToBuffer, requests
<1>4. Counted'
  <2> SUFFICES ASSUME NEW x \in 0..(send_seq-1), Wanted(x)'
               PROVE  Retries(x)' <= losses /\ (~Flying(x)' => Retries(x)' < losses)
    BY <1>2 DEF Counted
  <2>1. Wanted(x) /\ x # s /\ Retries(x)' \in {0, Retries(x)}
    BY <1>1, ArrivalSettles
  <2>2. Flying(x) => Flying(x)'
    BY <1>2, <1>3, <2>1 DEF Flying
  <2>3. Retries(x) <= losses /\ (~Flying(x) => Retries(x) < losses)
    BY <2>1 DEF Recovery, Counted
  <2>4. Retries(x) \in Nat /\ losses \in Nat
    BY Numbers
  <2> QED BY <2>1, <2>2, <2>3, <2>4
<1>5. Quiet'
  BY <1>2, ReceiverAssumption DEF Quiet
<1>6. Held'
  BY <1>2 DEF Recovery, Held
<1>7. HighestWasSent'
  BY <1>1, ArrivalSettles DEF Recovery
<1>8. DataRecovered'
  BY <1>1, <1>2, ArrivalSettles DEF Recovery, DataRecovered
<1> QED BY <1>4, <1>5, <1>6, <1>7, <1>8 DEF Recovery

(* The timer fires with nothing under way for a gap: each retry it makes   *)
(* has been lost for, and no gap still in the window has used them all up. *)
LEMMA TimerRecovers ==
    ASSUME LinkIInv, LinkIInv', Recovery, MaxLosses <= MaxNakRetries, NakTimer
    PROVE  Recovery'
<1>1. /\ send_seq' = send_seq /\ kind' = kind /\ highest_seq_seen' = highest_seq_seen
      /\ losses' = losses /\ retransmit_buffer' = retransmit_buffer /\ wire' = wire
      /\ retransmit_rx' = retransmit_rx /\ pending_retransmit' = pending_retransmit
      /\ nak_timer = 0
  BY DEF NakTimer, CheckNakTimeouts, sender, sending, network
<1>2. PICK to \in next_seq..(highest_seq_seen + 1), late \in SUBSET Gaps :
        /\ DrainGivenUp(to)
        /\ gap_nak_count' =
                [g \in (DOMAIN gap_nak_count \ (GiveUp \cup (next_seq..(to-1)))) \cup late |->
                    IF g \in late THEN Retries(g) + 1 ELSE gap_nak_count[g]]
        /\ nak_out' = nak_out \cup late
        /\ nak_timer' \in {Parked, CheckInterval}
  <2>1. PICK to \in next_seq..(highest_seq_seen + 1), base \in NakTimeouts :
          LET settled   == GiveUp \cup (next_seq..(to-1))
              waiting   == Gaps \ settled
              timed_out == {g \in waiting :
                              gap_first_seen[g] >= Backoff(base, Retries(g))}
          IN  /\ DrainGivenUp(to)
              /\ gap_nak_count' =
                    [g \in (DOMAIN gap_nak_count \ settled) \cup timed_out |->
                        IF g \in timed_out THEN Retries(g) + 1 ELSE gap_nak_count[g]]
              /\ nak_out' = nak_out \cup timed_out
              /\ nak_timer' = IF waiting = {} THEN Parked ELSE CheckInterval
    BY DEF NakTimer, CheckNakTimeouts
  <2> DEFINE late == {g \in Gaps \ (GiveUp \cup (next_seq..(to-1))) :
                          gap_first_seen[g] >= Backoff(base, Retries(g))}
  <2>2. /\ DrainGivenUp(to)
        /\ gap_nak_count' =
                [g \in (DOMAIN gap_nak_count \ (GiveUp \cup (next_seq..(to-1)))) \cup late |->
                    IF g \in late THEN Retries(g) + 1 ELSE gap_nak_count[g]]
        /\ nak_out' = nak_out \cup late
        /\ nak_timer' \in {Parked, CheckInterval}
    BY <2>1
  <2>3. late \in SUBSET Gaps
    OBVIOUS
  <2> HIDE DEF late
  <2> QED BY <2>2, <2>3
<1>3. nak_timer' # 0
  BY <1>2, ReceiverAssumption DEF Parked
<1>4. \A g \in Gaps : ~Flying(g)
  BY <1>1 DEF Recovery, Quiet
<1>5. to \in Nat /\ next_seq <= to /\ next_seq' = to
      /\ recv_buffer' = recv_buffer \ ((next_seq..(to-1)) \ GiveUp)
      /\ fate' = [r \in 0..(to-1) |-> IF r < next_seq THEN fate[r]
                                      ELSE IF r \in GiveUp THEN "given_up" ELSE Routed(r)]
  <2>1. to \in Nat /\ next_seq <= to
    BY <1>2, Numbers
  <2> QED BY <1>2, <2>1 DEF DrainGivenUp, Settle
<1>6. \A x : Retries(x)' = IF x \in late THEN Retries(x) + 1
                           ELSE IF x \in DOMAIN gap_nak_count /\ x \notin GiveUp
                                     /\ x \notin next_seq..(to-1)
                                THEN Retries(x) ELSE 0
  BY <1>2 DEF Retries
<1>7. Counted'
  <2> SUFFICES ASSUME NEW x \in 0..(send_seq-1), Wanted(x)'
               PROVE  Retries(x)' <= losses /\ (~Flying(x)' => Retries(x)' < losses)
    BY <1>1 DEF Counted
  <2>1. Wanted(x)
    <3>1. to <= x /\ x \notin recv_buffer' /\ kind[x] # "control"
          /\ x + RetransmitWindow >= send_seq - 1
      BY <1>1, <1>5 DEF Wanted
    <3>2. x \notin recv_buffer
      BY <1>5, <3>1, Numbers
    <3> QED BY <1>5, <3>1, <3>2, Numbers DEF Wanted
  <2>2. Retries(x) <= losses /\ (~Flying(x) => Retries(x) < losses)
    BY <2>1 DEF Recovery, Counted
  <2>3. Retries(x) \in Nat /\ losses \in Nat
    BY Numbers
  <2>4. Flying(x) => Flying(x)'
    BY <1>1, <1>2 DEF Flying
  <2>5. CASE x \in late
    <3>1. Retries(x)' = Retries(x) + 1 /\ Flying(x)' /\ ~Flying(x)
      BY <1>2, <1>4, <1>6, <2>5 DEF Flying
    <3> QED BY <2>2, <2>3, <3>1
  <2>6. CASE x \notin late
    <3>1. Retries(x)' \in {0, Retries(x)}
      BY <1>6, <2>6
    <3> QED BY <2>2, <2>3, <2>4, <3>1
  <2> QED BY <2>5, <2>6
<1>8. Quiet' /\ Held' /\ HighestWasSent'
  BY <1>1, <1>3 DEF Recovery, Quiet, Held, HighestWasSent
<1>9. ASSUME NEW g \in GiveUp, kind[g] # "control", g \in next_seq..(to-1)
      PROVE  g + RetransmitWindow < send_seq - 1
  <2>1. g \in Gaps /\ g \in 0..(send_seq-1) /\ g \in Nat
    BY GiveUpAreGaps, Numbers DEF LinkIInv
  <2>2. CASE highest_seq_seen > g + RetransmitWindow
    BY <2>1, <2>2, Numbers DEF Recovery, HighestWasSent
  <2>3. CASE g \in DOMAIN gap_nak_count /\ gap_nak_count[g] >= MaxNakRetries
    <3>1. Retries(g) >= MaxNakRetries /\ ~Flying(g)
      BY <1>4, <2>1, <2>3 DEF Retries
    <3>2. ~(Retries(g) < losses)
      BY <3>1, Numbers
    <3>3. ~Wanted(g)
      BY <2>1, <3>1, <3>2 DEF Recovery, Counted
    <3>4. g \notin recv_buffer
      BY <2>1 DEF LinkIInv, IInv, NothingForgotten
    <3>5. g \in next_seq..(send_seq-1)
      BY <1>9, <2>1, Numbers
    <3> QED BY <1>9, <2>1, <3>3, <3>4, <3>5, Numbers DEF Wanted
  <2> QED BY <2>2, <2>3 DEF GiveUp
<1>10. DataRecovered'
  <2> SUFFICES ASSUME NEW r \in DOMAIN fate', fate'[r] = "given_up", kind[r] # "control"
               PROVE  r + RetransmitWindow < send_seq - 1
    BY <1>1 DEF DataRecovered
  <2>1. r \in 0..(to-1)
    BY <1>5
  <2>2. CASE r < next_seq
    <3>1. r \in DOMAIN fate /\ fate[r] = "given_up"
      BY <1>5, <2>1, <2>2, Numbers
    <3> QED BY <3>1 DEF Recovery, DataRecovered
  <2>3. CASE ~(r < next_seq)
    <3>1. r \in GiveUp
      BY <1>5, <2>1, <2>3 DEF Routed
    <3>2. r \in next_seq..(to-1)
      BY <2>1, <2>3, Numbers
    <3> QED BY <1>9, <3>1, <3>2
  <2> QED BY <2>2, <2>3
<1> QED BY <1>7, <1>8, <1>10 DEF Recovery

(* Time passes only when nothing is under way. *)
LEMMA ClockRecovers ==
    ASSUME LinkIInv, LinkIInv', Recovery, Timely, Clock
    PROVE  Recovery'
<1>1. /\ SameReader /\ \A s : Flying(s)' <=> Flying(s)
      /\ losses' = losses /\ retransmit_buffer' = retransmit_buffer
  <2>1. Gaps' = Gaps /\ \A x : Retries(x)' = Retries(x)
    BY DEF Clock, Tick, Gaps, Retries
  <2> QED BY <2>1 DEF Clock, Tick, SameReader, Flying, sender, requests, sending, network
<1>2. \A s : ~Flying(s)
  BY DEF Clock, InFlight, Flying
<1>3. Counted' /\ Held' /\ HighestWasSent' /\ DataRecovered'
  <2>1. \A s : Wanted(s)' <=> Wanted(s)
    BY <1>1 DEF SameReader, Wanted
  <2> QED BY <1>1, <2>1 DEF SameReader, Recovery, Counted, Held, HighestWasSent, DataRecovered
<1>4. Quiet'
  BY <1>1, <1>2 DEF Quiet
<1> QED BY <1>3, <1>4 DEF Recovery

LEMMA LinkRecovers ==
    ASSUME LinkIInv, LinkIInv', Recovery, InReach, Timely, MaxLosses <= MaxNakRetries,
           [LinkNext]_linkVars
    PROVE  Recovery'
<1>1. ASSUME UNCHANGED <<sender, receiver>>
      PROVE  SameReader /\ nak_timer' = nak_timer
  <2>1. gap_first_seen' = gap_first_seen /\ gap_nak_count' = gap_nak_count
    BY <1>1 DEF receiver, tracking
  <2>2. Gaps' = Gaps /\ \A x : Retries(x)' = Retries(x)
    BY <2>1 DEF Gaps, Retries
  <2> QED BY <1>1, <2>2 DEF sender, receiver, SameReader
<1>2. ASSUME UNCHANGED vars
      PROVE  UNCHANGED <<sender, receiver>> /\ nak_out' = nak_out
  BY <1>2 DEF vars, receiver, requests
<1>3. losses \in Nat
  BY Numbers
<1>4. CASE UNCHANGED linkVars
  BY <1>1, <1>2, <1>3, <1>4, NetworkRecovers DEF linkVars, sending, network, Flying
<1>5. CASE SendControl
  BY <1>5, SendRecovers DEF SendControl, Kinds, sending
<1>6. ASSUME NEW k \in Kinds, SendData(k) PROVE Recovery'
  BY <1>6, SendRecovers DEF SendData
<1>7. CASE CollectRequests
  <2>1. \A s : Flying(s)' <=> Flying(s)
    BY <1>2, <1>7 DEF CollectRequests, Flying, network
  <2>2. losses' = losses /\ retransmit_buffer' = retransmit_buffer
    BY <1>7 DEF CollectRequests, network
  <2> QED BY <1>1, <1>2, <1>3, <1>7, <2>1, <2>2, NetworkRecovers DEF CollectRequests
<1>8. CASE DrainRequests
  <2>1. /\ nak_out' = nak_out /\ losses' = losses /\ retransmit_buffer' = retransmit_buffer
        /\ retransmit_rx' = retransmit_rx /\ UNCHANGED <<sender, receiver>>
        /\ wire' = wire \cup (pending_retransmit \cap retransmit_buffer)
        /\ pending_retransmit' = {}
    BY <1>2, <1>8 DEF DrainRequests
  <2>2. \A s : Flying(s)' => Flying(s)
    BY <2>1 DEF Flying
  <2>3. ASSUME NEW s \in 0..(send_seq-1), Wanted(s), Flying(s) PROVE Flying(s)'
    <3>1. s \in retransmit_buffer
      BY <2>3 DEF Recovery, Held, Wanted
    <3> QED BY <2>1, <2>3, <3>1 DEF Flying
  <2> QED BY <1>1, <1>3, <2>1, <2>2, <2>3, NetworkRecovers
<1>9. ASSUME NEW p \in wire, Receive(p) PROVE Recovery'
  BY <1>9, ReceiveRecovers
<1>10. ASSUME NEW p \in wire, LosePacket(p) PROVE Recovery'
  <2>1. /\ UNCHANGED <<sender, receiver>> /\ losses' = losses + 1
        /\ retransmit_buffer' = retransmit_buffer
    BY <1>2, <1>10 DEF LosePacket, sending
  <2>2. \A s : Flying(s)' => Flying(s)
    BY <1>2, <1>10 DEF LosePacket, Flying, sending
  <2>3. losses <= losses' /\ losses < losses'
    BY <1>3, <2>1
  <2> QED BY <1>1, <2>1, <2>2, <2>3, NetworkRecovers
<1>11. ASSUME NEW p \in nak_out, RequestArrives(p) PROVE Recovery'
  <2>1. /\ UNCHANGED <<sender, receiver>> /\ losses' = losses
        /\ retransmit_buffer' = retransmit_buffer
    BY <1>11 DEF RequestArrives, network
  <2>2. \A s : Flying(s)' <=> Flying(s)
    BY <1>11 DEF RequestArrives, Flying, network
  <2> QED BY <1>1, <1>3, <2>1, <2>2, NetworkRecovers
<1>12. ASSUME NEW p \in nak_out, LoseRequest(p) PROVE Recovery'
  <2>1. /\ UNCHANGED <<sender, receiver>> /\ losses' = losses + 1
        /\ retransmit_buffer' = retransmit_buffer
    BY <1>12 DEF LoseRequest, sending
  <2>2. \A s : Flying(s)' => Flying(s)
    BY <1>12 DEF LoseRequest, Flying, sending
  <2>3. losses <= losses' /\ losses < losses'
    BY <1>3, <2>1
  <2> QED BY <1>1, <2>1, <2>2, <2>3, NetworkRecovers
<1>13. CASE RepaintLeaves
  <2>1. /\ UNCHANGED <<sender, receiver>> /\ losses' = losses
        /\ retransmit_buffer' = retransmit_buffer
    BY <1>13 DEF RepaintLeaves, sending, network
  <2>2. \A s : Flying(s)' <=> Flying(s)
    BY <1>13 DEF RepaintLeaves, Flying, sending, network
  <2> QED BY <1>1, <1>3, <2>1, <2>2, NetworkRecovers
<1>14. CASE Clock
  BY <1>14, ClockRecovers
<1>15. CASE NakTimer
  BY <1>15, TimerRecovers
<1> QED
  BY <1>4, <1>5, <1>6, <1>7, <1>8, <1>9, <1>10, <1>11, <1>12, <1>13, <1>14, <1>15 DEF LinkNext

LEMMA LinkInitRecovery == LinkInit => Recovery
<1> SUFFICES ASSUME LinkInit PROVE Recovery
  OBVIOUS
<1>1. /\ send_seq = 0 /\ highest_seq_seen = 0 /\ nak_timer = CheckInterval /\ DOMAIN fate = {}
  BY DEF LinkInit, Init
<1>2. 0..(send_seq-1) = {}
  BY <1>1
<1> QED
  BY <1>1, <1>2, ReceiverAssumption
     DEF Recovery, Counted, Quiet, Held, HighestWasSent, DataRecovered

(* NAK recovery works for every window, retry limit and number of frames:  *)
(* in a network that is timely, loses no more packets and requests than a  *)
(* gap has retries, and never lets so much overtake a frame that the       *)
(* reader refuses it (MAX_SEQ_JUMP, reader.rs:596), no data frame is given *)
(* up before the sender has sent a whole window behind it                  *)
(* (handle_arrival 716-729, check_nak_timeouts 836-853, sender.rs:169-213).*)
THEOREM LinkRecoversData ==
    ASSUME Timely, MaxLosses <= MaxNakRetries
    PROVE  LinkSpec /\ []InReach => []DataRecovered
<1>1. LinkInit => LinkIInv /\ Recovery
  BY LinkInitIInv, LinkInitRecovery
<1>2. LinkIInv /\ Recovery /\ InReach /\ [LinkNext]_linkVars => LinkIInv' /\ Recovery'
  BY LinkNextIInv, LinkRecovers
<1>3. Recovery => DataRecovered
  BY DEF Recovery
<1> QED
  BY <1>1, <1>2, <1>3, PTL DEF LinkSpec

-----------------------------------------------------------------------------
(***************************************************************************)
(* The snapshots that the server sends beside the output on this link      *)
(* (ScreenSync): a repaint that was asked for is owed until a snapshot     *)
(* answers it that is not older than the request.                          *)
(***************************************************************************)

(* A request is for a screen there has been, and so is every snapshot.     *)
Dated ==
    /\ emulator \in 0 .. MaxChunks /\ asked \in 0 .. emulator + 1
    /\ snapshot \in [Tasks -> 0 .. MaxChunks + 1]

Owed == Dated /\ RepaintOwed

LEMMA RequestOwed ==
    ASSUME MaxChunks \in Nat, SyncInit PROVE Owed
  BY DEF SyncInit, Owed, Dated, RepaintOwed, Nothing

LEMMA TakingOwes ==
    ASSUME MaxChunks \in Nat, Owed, NEW t \in Tasks,
           snapshot' = [snapshot EXCEPT ![t] = emulator],
           UNCHANGED <<emulator, asked>>, UNCHANGED repaint_rx \/ t = "repaint"
    PROVE  Owed'
  <1>1. Dated'
    BY DEF Owed, Dated
  <1>2. RepaintOwed'
    BY DEF Owed, Dated, RepaintOwed
  <1> QED BY <1>1, <1>2 DEF Owed

(* What is sent answers the request, or the request has come since.        *)
LEMMA SendingOwes ==
    ASSUME MaxChunks \in Nat, Owed, NEW t \in Tasks, SendSnapshot(t)
    PROVE  Owed'
  <1>1. /\ snapshot' = [snapshot EXCEPT ![t] = MaxChunks + 1] /\ snapshot[t] # MaxChunks + 1
        /\ asked' = IF snapshot[t] + 1 >= asked THEN 0 ELSE asked
        /\ UNCHANGED <<emulator, repaint_rx>>
    BY DEF SendSnapshot, Nothing, AfterAnswer
  <1>2. Dated'
    BY <1>1 DEF Owed, Dated
  <1>3. ASSUME asked' # 0 PROVE repaint_rx' \/ snapshot'["repaint"] \in asked' - 1 .. MaxChunks
    <2>1. asked' = asked /\ ~(snapshot[t] + 1 >= asked)
      BY <1>1, <1>3
    <2>2. CASE t = "repaint"
      BY <1>1, <2>1, <2>2 DEF Owed, Dated, RepaintOwed
    <2>3. CASE t # "repaint"
      <3>1. snapshot'["repaint"] = snapshot["repaint"]
        BY <1>1, <2>3 DEF Owed, Dated
      <3> QED BY <1>1, <1>3, <2>1, <3>1 DEF Owed, RepaintOwed
    <2> QED BY <2>2, <2>3
  <1> QED BY <1>2, <1>3 DEF Owed, RepaintOwed

LEMMA RequestStaysOwed ==
    ASSUME MaxChunks \in Nat, Owed, [SyncNext]_syncVars PROVE Owed'
  <1>1. CASE ReadChunk
    BY <1>1 DEF ReadChunk, taskVars, Owed, Dated, RepaintOwed
  <1>2. CASE UNCHANGED <<emulator, asked, snapshot, repaint_rx>>
    BY <1>2 DEF Owed, Dated, RepaintOwed
  <1>3. CASE CountChunk \/ FlagChunk \/ SendChunk \/ Resize
             \/ Network \/ Lose \/ UNCHANGED syncVars
    <2>1. UNCHANGED <<emulator, asked, snapshot, repaint_rx>>
      BY <1>3 DEF CountChunk, FlagChunk, SendChunk, Resize,
                  Network, Deliver, TooLarge, Lose,
                  syncVars, taskVars
    <2> QED BY <2>1, <1>2
  <1>4. CASE SyncTick
    <2>1. UNCHANGED <<emulator, asked, repaint_rx>>
      BY <1>4 DEF SyncTick
    <2>2. UNCHANGED snapshot \/ snapshot' = [snapshot EXCEPT !["sync"] = emulator]
      BY <1>4 DEF SyncTick, Take
    <2> QED BY <2>1, <2>2, <1>2, TakingOwes DEF Tasks
  <1>5. CASE AnswerRepaint
    <2>1. UNCHANGED <<emulator, asked>> /\ snapshot' = [snapshot EXCEPT !["repaint"] = emulator]
      BY <1>5 DEF AnswerRepaint, Take
    <2> QED BY <2>1, TakingOwes DEF Tasks
  <1>6. CASE Push \/ Resume
    <2>1. /\ UNCHANGED <<emulator, asked, repaint_rx>>
          /\ \E t \in {"push", "resume"} : snapshot' = [snapshot EXCEPT ![t] = emulator]
      BY <1>6 DEF Push, Resume, Take
    <2> QED BY <2>1, TakingOwes DEF Tasks
  <1>7. CASE HealthTick
    <2>1. UNCHANGED <<emulator, asked, repaint_rx>>
      BY <1>7 DEF HealthTick
    <2>2. UNCHANGED snapshot \/ snapshot' = [snapshot EXCEPT !["health"] = emulator]
      BY <1>7 DEF HealthTick, Take
    <2> QED BY <2>1, <2>2, <1>2, TakingOwes DEF Tasks
  <1>8. CASE AskRepaint
    BY <1>8 DEF AskRepaint, Owed, Dated, RepaintOwed
  <1>9. CASE Disconnect
    BY <1>9 DEF Disconnect, Nothing, Owed, Dated, RepaintOwed
  <1>10. CASE \E t \in Tasks : SendSnapshot(t)
    BY <1>10, SendingOwes
  <1> QED BY <1>1, <1>3, <1>4, <1>5, <1>6, <1>7, <1>8, <1>9, <1>10
      DEF SyncNext, ReaderStep

(* No request for a repaint is forgotten, whatever else takes and sends    *)
(* snapshots, and however many requests, resumes and chunks there are.     *)
THEOREM RepaintOwedHolds == SyncSpec => []RepaintOwed
  <1>1. MaxChunks \in Nat
    BY ScreenAssumption
  <1>2. SyncInit => Owed
    BY <1>1, RequestOwed
  <1>3. Owed /\ [SyncNext]_syncVars => Owed'
    BY <1>1, RequestStaysOwed
  <1>4. Owed => RepaintOwed
    BY DEF Owed
  <1> QED BY <1>2, <1>3, <1>4, PTL DEF SyncSpec
=============================================================================
