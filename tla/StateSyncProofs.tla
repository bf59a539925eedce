-------------------------- MODULE StateSyncProofs --------------------------
(***************************************************************************)
(* An id names one screen.  That is what lets the two ends of StateSync    *)
(* compare ids alone: whatever is lost, delayed or acknowledged late, a    *)
(* diff whose base is the client's id was computed from what the client    *)
(* shows.  The id 0 is the exception, for every full state has it: what    *)
(* saves it is the order of the queue, in which a diff with base 0 follows *)
(* the full state it is a diff to.                                         *)
(***************************************************************************)
EXTENDS StateSync, SequenceTheorems, FiniteSetTheorems, TLAPS

(* The instances the theorems are about: no program uses the alternate     *)
(* screen, the connection starts a session, and full states arrive.  The   *)
(* README shows what goes wrong with each of the three.                    *)
PlainSession == ~AltScreens /\ ~Resumed /\ ~LosesPushes

-----------------------------------------------------------------------------
(* The inductive invariant *)

Versions == 0..MaxOutput

FullFrames  == [type : {"full"}, version : Versions]
ChunkFrames == [type : {"chunk"}, seq : Nat, total : Nat, version : Versions]
DiffFrames  == [type : {"diff"}, base : Ids \cup {0}, id : Ids, from : Versions, to : Versions]
Frame       == FullFrames \cup ChunkFrames \cup DiffFrames

Pendings == [seq : Nat, total : Nat, data : SUBSET [Cells -> Vals]] \cup {NoChunk}

Typed == TypeOK /\ down \in Seq(Frame) /\ pending \in Pendings

IsPush(m) == m.type # "diff"
Target(m) == IF m.type = "diff" THEN m.to ELSE m.version

(* The counter is behind the screens by the one being marked.              *)
CounterFollows == Latest = dirty_counter + (IF processed THEN 1 ELSE 0)

MainScreens == \A v \in 0..Latest : ~screens[v].alt

(* The client shows a screen that was displayed.                           *)
ShowsSeen == client_state = screens[seen]

(* Later frames carry later screens, all of them later than the one shown. *)
InOrder ==
    \A k \in DOMAIN down :
        /\ seen <= Target(down[k]) /\ Target(down[k]) <= Latest
        /\ down[k].type = "diff" => down[k].from <= Latest
        /\ \A j \in 1..k : Target(down[j]) <= Target(down[k])

(* Somebody takes id for the id of the screen v.                           *)
Names(id, v) ==
    \/ \E i \in Entries : sent_states[i].id = id /\ sent_states[i].state = v
    \/ ack_diff_id = id /\ ack_state = v
    \/ ack_state_seq = id /\ seen = v
    \/ \E k \in DOMAIN down :
          /\ down[k].type = "diff"
          /\ \/ down[k].id = id /\ down[k].to = v
             \/ down[k].base = id /\ down[k].from = v

OneScreenPerId ==
    \A id \in Ids, v, w \in Versions : Names(id, v) /\ Names(id, w) => v = w

(* j is the last full state, or chunk, before position k of the queue.     *)
LastPush(j, k) ==
    /\ j \in 1..(k-1) /\ IsPush(down[j])
    /\ \A i \in (j+1)..(k-1) : ~IsPush(down[i])

NoPush(k) == \A i \in 1..(k-1) : ~IsPush(down[i])

(* A client that is at id 0 once it has handled what is before k shows v.  *)
ZeroIs(k, v) ==
    /\ \A j \in 1..(k-1) : LastPush(j, k) => down[j].version = v
    /\ NoPush(k) /\ initial_state_received /\ ack_state_seq = 0 => seen = v

ZeroIsLastPush ==
    /\ \A k \in DOMAIN down :
          down[k].type = "diff" /\ down[k].base = 0 => ZeroIs(k, down[k].from)
    /\ ack_diff_id = 0 => ZeroIs(Len(down) + 1, ack_state)

(* The chunks of a state are next to one another, the first ones handled.  *)
ChunksWhole ==
    \A k \in DOMAIN down :
        down[k].type = "chunk" =>
            /\ down[k].seq < down[k].total
            /\ down[k].seq + 1 < down[k].total =>
                  /\ k < Len(down)
                  /\ down[k+1] = Chunk(down[k].seq + 1, down[k].total, down[k].version)
            /\ down[k].seq > 0 =>
                  IF k = 1
                  THEN pending = [seq |-> down[1].seq, total |-> down[1].total,
                                  data |-> {screens[down[1].version].cells}]
                  ELSE down[k-1] = Chunk(down[k].seq - 1, down[k].total, down[k].version)

IInv ==
    /\ Typed /\ CounterFollows /\ MainScreens /\ ShowsSeen
    /\ InOrder /\ OneScreenPerId /\ ZeroIsLastPush /\ ChunksWhole

-----------------------------------------------------------------------------
(* The queue *)

(* What is left of the queue without its i-th frame.                       *)
Drops(i) ==
    /\ Len(down') = Len(down) - 1
    /\ \A k \in 1..Len(down') : down'[k] = IF k < i THEN down[k] ELSE down[k+1]

Grows == /\ Len(down) <= Len(down')
         /\ \A k \in 1..Len(down) : down'[k] = down[k]

(* A queue is a function on its positions.                                 *)
LEMMA Queue ==
    ASSUME Typed
    PROVE  /\ DOMAIN down = 1..Len(down) /\ Len(down) \in Nat
           /\ \A k \in 1..Len(down) : down[k] \in Frame
BY LenProperties DEF Typed

(* Taking the first frame off, and losing one, leave the others in order.  *)
LEMMA HeadDrops ==
    ASSUME Typed, down # <<>>, down' = Tail(down)
    PROVE  /\ 1 \in DOMAIN down /\ Head(down) = down[1]
           /\ Drops(1) /\ down' \in Seq(Frame)
<1>1. down \in Seq(Frame)
  BY DEF Typed
<1>2. Len(down) \in Nat \ {0} /\ DOMAIN down = 1..Len(down)
  BY <1>1, EmptySeq, LenProperties
<1>3. /\ Tail(down) \in Seq(Frame) /\ Len(Tail(down)) = Len(down) - 1
      /\ \A i \in 1..Len(Tail(down)) : Tail(down)[i] = down[i+1]
  BY <1>1, HeadTailProperties
<1>4. Head(down) = down[1]
  BY <1>1, <1>2
<1> QED
  BY <1>2, <1>3, <1>4 DEF Drops

LEMMA LossDrops ==
    ASSUME Typed, NEW i \in DOMAIN down, down' = RemoveAt(down, i)
    PROVE  Drops(i) /\ down' \in Seq(Frame)
<1>1. /\ DOMAIN down = 1..Len(down) /\ Len(down) \in Nat
      /\ \A k \in 1..Len(down) : down[k] \in Frame
  BY Queue
<1>2. i \in Nat /\ 1 <= i /\ i <= Len(down)
  BY <1>1
<1> DEFINE before == SubSeq(down, 1, i - 1)
           after  == SubSeq(down, i + 1, Len(down))
<1>3. /\ before \in Seq(Frame) /\ Len(before) = i - 1
      /\ \A k \in 1..(i-1) : before[k] = down[k]
  <2>1. \A k \in 1..(i-1) : down[k] \in Frame
    BY <1>1, <1>2
  <2>2. /\ before \in Seq(Frame) /\ Len(before) = IF 1 <= i - 1 THEN (i - 1) - 1 + 1 ELSE 0
        /\ \A k \in 1..((i-1)-1+1) : before[k] = down[1+k-1]
    BY <1>2, <2>1, SubSeqProperties
  <2> QED
    BY <1>2, <2>2
<1>4. /\ after \in Seq(Frame) /\ Len(after) = Len(down) - i
      /\ \A k \in 1..(Len(down)-i) : after[k] = down[i+k]
  <2>1. \A k \in (i+1)..Len(down) : down[k] \in Frame
    BY <1>1, <1>2
  <2>2. /\ after \in Seq(Frame)
        /\ Len(after) = IF i + 1 <= Len(down) THEN Len(down) - (i + 1) + 1 ELSE 0
        /\ \A k \in 1..(Len(down)-(i+1)+1) : after[k] = down[(i+1)+k-1]
    BY <1>1, <1>2, <2>1, SubSeqProperties
  <2> QED
    BY <1>1, <1>2, <2>2
<1>5. down' = before \o after
  BY DEF RemoveAt
<1> HIDE DEF before, after
<1>6. /\ before \o after \in Seq(Frame)
      /\ Len(before \o after) = Len(before) + Len(after)
      /\ \A k \in 1..(Len(before)+Len(after)) :
            (before \o after)[k] = IF k <= Len(before) THEN before[k] ELSE after[k - Len(before)]
  BY <1>3, <1>4, ConcatProperties
<1>7. ASSUME NEW k \in 1..Len(down')
      PROVE  down'[k] = IF k < i THEN down[k] ELSE down[k+1]
  <2>1. k \in Nat /\ 1 <= k /\ k <= Len(down) - 1
    BY <1>1, <1>2, <1>3, <1>4, <1>5, <1>6
  <2>2. down'[k] = IF k <= i - 1 THEN before[k] ELSE after[k - (i - 1)]
    BY <1>1, <1>2, <1>3, <1>4, <1>5, <1>6, <2>1
  <2>3. CASE k < i
    BY <1>2, <1>3, <2>1, <2>2, <2>3
  <2>4. CASE ~(k < i)
    <3>1. k - (i - 1) \in 1..(Len(down)-i) /\ i + (k - (i - 1)) = k + 1 /\ ~(k <= i - 1)
      BY <1>1, <1>2, <2>1, <2>4
    <3> QED
      BY <1>4, <2>2, <2>4, <3>1
  <2> QED
    BY <2>3, <2>4
<1> QED
  BY <1>1, <1>2, <1>3, <1>4, <1>5, <1>6, <1>7 DEF Drops

(* A full state goes behind all that is in the queue, its parts together.  *)
Pushes(n) ==
    /\ Len(down') = Len(down) + n
    /\ \A i \in 1..n : down'[Len(down) + i] = IF n = 1 THEN Full(Latest)
                                                      ELSE Chunk(i - 1, n, Latest)

LEMMA PushGrows ==
    ASSUME Typed, PushFull
    PROVE  /\ Grows /\ down' \in Seq(Frame) /\ Len(down') <= MaxInFlight
           /\ \E n \in Nat \ {0} : Pushes(n)
<1>1. PICK n \in ChunkCounts :
          /\ Len(down) + n <= MaxInFlight
          /\ down' = down \o IF n = 1 THEN <<Full(Latest)>>
                             ELSE [i \in 1..n |-> Chunk(i - 1, n, Latest)]
  BY DEF PushFull
<1>2. n \in Nat \ {0} /\ Latest \in Versions
  BY StateSyncAssumption DEF Typed, TypeOK, Versions
<1> DEFINE pushed == IF n = 1 THEN <<Full(Latest)>> ELSE [i \in 1..n |-> Chunk(i - 1, n, Latest)]
<1>3. /\ Full(Latest) \in Frame
      /\ \A i \in 1..n : Chunk(i - 1, n, Latest) \in Frame
  BY <1>2 DEF Full, Chunk, Frame, FullFrames, ChunkFrames
<1>4. /\ pushed \in Seq(Frame) /\ Len(pushed) = n
      /\ \A i \in 1..n : pushed[i] = IF n = 1 THEN Full(Latest) ELSE Chunk(i - 1, n, Latest)
  <2>1. CASE n = 1
    BY <1>3, <2>1
  <2>2. CASE n # 1
    <3>1. pushed = [i \in 1..n |-> Chunk(i - 1, n, Latest)]
      BY <2>2
    <3>2. pushed \in [1..n -> Frame]
      BY <1>3, <3>1
    <3> QED
      BY <1>2, <2>2, <3>1, <3>2
  <2> QED
    BY <2>1, <2>2
<1>5. down' = down \o pushed
  BY <1>1
<1> HIDE DEF pushed
<1>6. /\ down \o pushed \in Seq(Frame)
      /\ Len(down \o pushed) = Len(down) + Len(pushed)
      /\ \A k \in 1..(Len(down)+Len(pushed)) :
            (down \o pushed)[k] = IF k <= Len(down) THEN down[k] ELSE pushed[k - Len(down)]
  BY <1>4, ConcatProperties DEF Typed
<1>7. Len(down) \in Nat
  BY Queue
<1>8. Grows
  BY <1>2, <1>4, <1>5, <1>6, <1>7 DEF Grows
<1>9. Pushes(n)
  <2>1. Len(down') = Len(down) + n
    BY <1>4, <1>5, <1>6
  <2>2. ASSUME NEW i \in 1..n
        PROVE  down'[Len(down) + i] = pushed[i]
    BY <1>2, <1>4, <1>5, <1>6, <1>7
  <2> QED
    BY <1>4, <2>1, <2>2 DEF Pushes
<1> QED
  BY <1>1, <1>2, <1>4, <1>5, <1>6, <1>8, <1>9

-----------------------------------------------------------------------------
(* What the frames that leave the queue leave behind *)

(* Without one of the diffs, the rest is as well formed as before, for a   *)
(* client that stands where it stood or at the id of a diff.               *)
LEMMA DiffDropped ==
    ASSUME IInv, NEW i \in DOMAIN down, down[i].type = "diff",
           Drops(i), down' \in Seq(Frame),
           UNCHANGED <<screens, baseline, pending>>,
           \/ UNCHANGED <<initial_state_received, ack_state_seq, seen>>
           \/ ack_state_seq' # 0
    PROVE  ZeroIsLastPush' /\ ChunksWhole'
<1> DEFINE old(k) == IF k < i THEN k ELSE k + 1
<1>1. /\ DOMAIN down = 1..Len(down) /\ Len(down) \in Nat /\ Len(down') = Len(down) - 1
      /\ DOMAIN down' = 1..Len(down') /\ i \in Nat /\ 1 <= i /\ i <= Len(down)
      /\ \A k \in 1..Len(down') : old(k) \in DOMAIN down /\ down'[k] = down[old(k)]
  <2>1. DOMAIN down' = 1..Len(down')
    BY LenProperties
  <2>2. DOMAIN down = 1..Len(down) /\ Len(down) \in Nat /\ Len(down') = Len(down) - 1
    BY Queue DEF IInv, Drops
  <2> QED
    BY <2>1, <2>2 DEF Drops
<1>2. ASSUME NEW k \in 1..(Len(down')+1), NEW v, ZeroIs(old(k), v)
      PROVE  ZeroIs(k, v)'
  <2>1. ASSUME NEW j \in 1..(k-1), LastPush(j, k)'
        PROVE  down'[j].version = v
    <3>1. old(j) \in 1..(old(k)-1) /\ j \in 1..Len(down')
      BY <1>1
    <3>2. IsPush(down[old(j)])
      BY <1>1, <2>1, <3>1 DEF LastPush, IsPush
    <3>3. ASSUME NEW m \in (old(j)+1)..(old(k)-1)
          PROVE  ~IsPush(down[m])
      <4>1. CASE m = i
        BY <4>1 DEF IsPush
      <4>2. CASE m < i
        <5>1. m \in (j+1)..(k-1) /\ m \in 1..Len(down') /\ old(m) = m
          BY <1>1, <3>1, <4>2
        <5> QED
          BY <1>1, <2>1, <5>1 DEF LastPush, IsPush
      <4>3. CASE m > i
        <5>1. m - 1 \in (j+1)..(k-1) /\ m - 1 \in 1..Len(down') /\ old(m-1) = m
          BY <1>1, <3>1, <4>3
        <5> QED
          BY <1>1, <2>1, <5>1 DEF LastPush, IsPush
      <4> QED
        BY <1>1, <3>1, <4>1, <4>2, <4>3
    <3>4. LastPush(old(j), old(k))
      BY <3>1, <3>2, <3>3 DEF LastPush
    <3> QED
      BY <1>1, <1>2, <3>1, <3>4 DEF ZeroIs
  <2>2. ASSUME NoPush(k)', initial_state_received', ack_state_seq' = 0
        PROVE  seen' = v
    <3>1. ASSUME NEW m \in 1..(old(k)-1)
          PROVE  ~IsPush(down[m])
      <4>1. CASE m = i
        BY <4>1 DEF IsPush
      <4>2. CASE m < i
        <5>1. m \in 1..(k-1) /\ m \in 1..Len(down') /\ old(m) = m
          BY <1>1, <4>2
        <5> QED
          BY <1>1, <2>2, <5>1 DEF NoPush, IsPush
      <4>3. CASE m > i
        <5>1. m - 1 \in 1..(k-1) /\ m - 1 \in 1..Len(down') /\ old(m-1) = m
          BY <1>1, <4>3
        <5> QED
          BY <1>1, <2>2, <5>1 DEF NoPush, IsPush
      <4> QED
        BY <1>1, <4>1, <4>2, <4>3
    <3>2. NoPush(old(k))
      BY <3>1 DEF NoPush
    <3> QED
      BY <1>2, <2>2, <3>2 DEF ZeroIs
  <2> QED
    BY <2>1, <2>2 DEF ZeroIs
<1>3. ZeroIsLastPush'
  <2>1. ASSUME NEW k \in 1..Len(down'), down'[k].type = "diff", down'[k].base = 0
        PROVE  ZeroIs(k, down[k].from)'
    <3>1. PICK v : v = down[old(k)].from
      OBVIOUS
    <3>2. down'[k] = down[old(k)] /\ old(k) \in DOMAIN down /\ k \in 1..(Len(down')+1)
      BY <1>1
    <3>3. ZeroIs(old(k), v)
      BY <2>1, <3>1, <3>2 DEF IInv, ZeroIsLastPush
    <3>4. ZeroIs(k, v)'
      BY <1>2, <3>2, <3>3
    <3> QED
      BY <3>1, <3>2, <3>4 DEF ZeroIs
  <2>2. ASSUME ack_diff_id' = 0
        PROVE  ZeroIs(Len(down) + 1, ack_state)'
    <3>1. PICK v, k : v = ack_state /\ k = Len(down') + 1
      OBVIOUS
    <3>2. k \in 1..(Len(down')+1) /\ old(k) = Len(down) + 1
      BY <1>1, <3>1
    <3>3. ack_diff_id = 0 /\ ack_state' = v
      BY <2>2, <3>1 DEF baseline
    <3>4. ZeroIs(old(k), v)
      BY <3>1, <3>2, <3>3 DEF IInv, ZeroIsLastPush
    <3>5. ZeroIs(k, v)'
      BY <1>2, <3>2, <3>4
    <3> QED
      BY <3>1, <3>3, <3>5 DEF ZeroIs
  <2> QED
    BY <1>1, <2>1, <2>2 DEF ZeroIsLastPush
<1>4. ChunksWhole'
  <2>1. SUFFICES ASSUME NEW k \in 1..Len(down'), down'[k].type = "chunk"
                 PROVE  /\ down'[k].seq < down'[k].total
                        /\ down'[k].seq + 1 < down'[k].total =>
                              /\ k < Len(down')
                              /\ down'[k+1] = Chunk(down'[k].seq + 1, down'[k].total, down'[k].version)
                        /\ down'[k].seq > 0 =>
                              IF k = 1
                              THEN pending' = [seq |-> down'[1].seq, total |-> down'[1].total,
                                               data |-> {screens'[down'[1].version].cells}]
                              ELSE down'[k-1] = Chunk(down'[k].seq - 1, down'[k].total, down'[k].version)
    BY <1>1 DEF ChunksWhole, Chunk
  <2>2. PICK o \in 1..Len(down) : o = old(k) /\ down'[k] = down[o] /\ down[o].type = "chunk"
    BY <1>1, <2>1
  <2>3. /\ down[o].seq < down[o].total
        /\ down[o].seq + 1 < down[o].total =>
              /\ o < Len(down)
              /\ down[o+1] = Chunk(down[o].seq + 1, down[o].total, down[o].version)
        /\ down[o].seq > 0 =>
              IF o = 1
              THEN pending = [seq |-> down[1].seq, total |-> down[1].total,
                              data |-> {screens[down[1].version].cells}]
              ELSE down[o-1] = Chunk(down[o].seq - 1, down[o].total, down[o].version)
    BY <1>1, <2>2 DEF IInv, ChunksWhole
  <2>4. ASSUME NEW a, NEW b, NEW c PROVE Chunk(a, b, c).type = "chunk"
    BY DEF Chunk
  <2>5. ASSUME down[o].seq + 1 < down[o].total
        PROVE  k < Len(down') /\ down'[k+1] = down[o+1]
    <3>1. o < Len(down) /\ o + 1 # i
      BY <2>3, <2>4, <2>5
    <3>2. k + 1 \in 1..Len(down') /\ old(k+1) = o + 1
      BY <1>1, <2>2, <3>1
    <3> QED
      BY <1>1, <3>1, <3>2
  <2>6. ASSUME down[o].seq > 0
        PROVE  IF k = 1 THEN o = 1 ELSE o # 1 /\ down'[k-1] = down[o-1]
    <3>1. o # 1 => o - 1 # i
      BY <2>3, <2>4, <2>6
    <3>2. CASE k = 1
      BY <1>1, <2>2, <3>1, <3>2
    <3>3. CASE k # 1
      <4>1. k - 1 \in 1..Len(down') /\ old(k-1) = o - 1 /\ o # 1
        BY <1>1, <2>2, <3>1, <3>3
      <4> QED
        BY <1>1, <3>3, <4>1
    <3> QED
      BY <3>2, <3>3
  <2> HIDE DEF old
  <2> QED
    BY <2>2, <2>3, <2>5, <2>6
<1> QED
  BY <1>3, <1>4

(* What is left is in order, behind a client that shows what was dropped   *)
(* or what it showed.                                                      *)
LEMMA DropInOrder ==
    ASSUME IInv, NEW i \in DOMAIN down, Drops(i), down' \in Seq(Frame),
           UNCHANGED screens,
           seen' = seen \/ (i = 1 /\ seen' = Target(down[1]))
    PROVE  InOrder'
<1>1. /\ DOMAIN down = 1..Len(down) /\ Len(down) \in Nat /\ Len(down') = Len(down) - 1
      /\ DOMAIN down' = 1..Len(down') /\ i \in Nat /\ 1 <= i /\ i <= Len(down)
  BY Queue, LenProperties DEF IInv, Drops
<1>2. Latest' = Latest
  BY DEF Latest
<1>3. SUFFICES ASSUME NEW k \in 1..Len(down')
               PROVE  /\ seen' <= Target(down'[k]) /\ Target(down'[k]) <= Latest
                      /\ down'[k].type = "diff" => down'[k].from <= Latest
                      /\ \A j \in 1..k : Target(down'[j]) <= Target(down'[k])
  BY <1>1, <1>2 DEF InOrder, Target
<1>4. PICK o \in DOMAIN down : o = (IF k < i THEN k ELSE k + 1) /\ down'[k] = down[o]
  BY <1>1 DEF Drops
<1>5. /\ seen <= Target(down[o]) /\ Target(down[o]) <= Latest
      /\ down[o].type = "diff" => down[o].from <= Latest
      /\ \A j \in 1..o : Target(down[j]) <= Target(down[o])
  BY DEF IInv, InOrder
<1>6. ASSUME NEW j \in 1..k
      PROVE  Target(down'[j]) <= Target(down'[k])
  <2>1. PICK p \in 1..o : down'[j] = down[p]
    BY <1>1, <1>4 DEF Drops
  <2> QED
    BY <1>4, <1>5, <2>1
<1>7. seen' <= Target(down'[k])
  BY <1>1, <1>4, <1>5
<1> QED
  BY <1>4, <1>5, <1>6, <1>7

(* Ids name one screen as long as nobody starts to name another.           *)
LEMMA NoNewNames ==
    ASSUME OneScreenPerId,
           \A id \in Ids, v \in Versions : Names(id, v)' => Names(id, v)
    PROVE  OneScreenPerId'
BY DEF OneScreenPerId

(* Frames that leave the queue take names with them.                       *)
LEMMA DropNames ==
    ASSUME IInv, NEW i \in DOMAIN down, Drops(i), down' \in Seq(Frame)
    PROVE  \A k \in DOMAIN down' : \E o \in DOMAIN down : down'[k] = down[o]
<1>1. /\ DOMAIN down = 1..Len(down) /\ Len(down) \in Nat /\ Len(down') = Len(down) - 1
      /\ DOMAIN down' = 1..Len(down') /\ i \in Nat
  BY Queue, LenProperties DEF IInv, Drops
<1>2. SUFFICES ASSUME NEW k \in 1..Len(down')
               PROVE  \E o \in DOMAIN down : down'[k] = down[o]
  BY <1>1
<1>3. k \in DOMAIN down /\ k + 1 \in DOMAIN down
  BY <1>1
<1> QED
  BY <1>3 DEF Drops

IsPart(m) == m.type = "chunk" /\ m.seq + 1 < m.total

(* A full state that the client has shown leaves it at the id 0, with the  *)
(* screen that diffs from it start at; a chunk of one makes it wait for    *)
(* the next chunk, which comes next.                                       *)
LEMMA PushHandled ==
    ASSUME IInv, down # <<>>, IsPush(down[1]),
           Drops(1), down' \in Seq(Frame), UNCHANGED <<screens, baseline>>,
           IF IsPart(down[1])
           THEN pending' = [seq |-> down[1].seq + 1, total |-> down[1].total,
                            data |-> {screens[down[1].version].cells}]
           ELSE ack_state_seq' = 0 /\ seen' = down[1].version
    PROVE  ZeroIsLastPush' /\ ChunksWhole'
<1> DEFINE next == Chunk(down[1].seq + 1, down[1].total, down[1].version)
<1>1. /\ DOMAIN down = 1..Len(down) /\ Len(down) \in Nat \ {0} /\ Len(down') = Len(down) - 1
      /\ DOMAIN down' = 1..Len(down')
      /\ \A k \in 1..Len(down') : k + 1 \in 1..Len(down) /\ down'[k] = down[k+1]
  <2>1. DOMAIN down' = 1..Len(down')
    BY LenProperties
  <2>2. DOMAIN down = 1..Len(down) /\ Len(down) \in Nat \ {0} /\ Len(down') = Len(down) - 1
    BY Queue, EmptySeq DEF IInv, Drops, Typed
  <2> QED
    BY <2>1, <2>2 DEF Drops
<1>0. ASSUME IsPart(down[1])
      PROVE  1 \in 1..Len(down') /\ down'[1] = next /\ IsPush(down'[1])
  <2>1. 1 < Len(down) /\ down[1+1] = next
    BY <1>0, <1>1 DEF IsPart, IInv, ChunksWhole
  <2>2. 1 \in 1..Len(down') /\ down'[1] = down[1+1]
    BY <1>1, <2>1
  <2> QED
    BY <2>1, <2>2 DEF IsPush, Chunk
<1>2. ASSUME NEW k \in 1..(Len(down')+1), NEW v, ZeroIs(k + 1, v), IsPart(down[1]) => k # 1
      PROVE  ZeroIs(k, v)'
  <2>1. ASSUME NEW j \in 1..(k-1), LastPush(j, k)'
        PROVE  down'[j].version = v
    <3>1. j \in 1..Len(down') /\ j + 1 \in 1..((k+1)-1) /\ IsPush(down[j+1])
      BY <1>1, <2>1 DEF LastPush, IsPush
    <3>2. ASSUME NEW m \in ((j+1)+1)..((k+1)-1)
          PROVE  ~IsPush(down[m])
      <4>1. m - 1 \in (j+1)..(k-1) /\ m - 1 \in 1..Len(down') /\ (m - 1) + 1 = m
        BY <1>1
      <4> QED
        BY <1>1, <2>1, <4>1 DEF LastPush, IsPush
    <3>3. LastPush(j + 1, k + 1)
      BY <3>1, <3>2 DEF LastPush
    <3> QED
      BY <1>1, <1>2, <3>1, <3>3 DEF ZeroIs
  <2>2. ASSUME NoPush(k)'
        PROVE  seen' = v
    <3>1. ASSUME NEW m \in 2..((k+1)-1)
          PROVE  ~IsPush(down[m])
      <4>1. m - 1 \in 1..(k-1) /\ m - 1 \in 1..Len(down') /\ (m - 1) + 1 = m
        BY <1>1
      <4> QED
        BY <1>1, <2>2, <4>1 DEF NoPush, IsPush
    <3>2. 1 \in 1..((k+1)-1) /\ LastPush(1, k + 1)
      BY <3>1 DEF LastPush
    <3>3. ~IsPart(down[1])
      <4>1. ASSUME IsPart(down[1]) PROVE 1 \in 1..(k-1)
        BY <1>1, <1>2, <4>1
      <4> QED
        BY <1>0, <2>2, <4>1 DEF NoPush, IsPush
    <3> QED
      BY <1>2, <3>2, <3>3 DEF ZeroIs
  <2> QED
    BY <2>1, <2>2 DEF ZeroIs
<1>3. ZeroIsLastPush'
  <2>1. ASSUME NEW k \in 1..Len(down'), down'[k].type = "diff", down'[k].base = 0
        PROVE  ZeroIs(k, down[k].from)'
    <3>1. PICK v : v = down[k+1].from
      OBVIOUS
    <3>2. down'[k] = down[k+1] /\ k + 1 \in DOMAIN down /\ k \in 1..(Len(down')+1)
      BY <1>1
    <3>3. ZeroIs(k + 1, v)
      BY <2>1, <3>1, <3>2 DEF IInv, ZeroIsLastPush
    <3>4. IsPart(down[1]) => k # 1
      BY <1>0, <2>1 DEF IsPush
    <3>5. ZeroIs(k, v)'
      BY <1>2, <3>2, <3>3, <3>4
    <3> QED
      BY <3>1, <3>2, <3>5 DEF ZeroIs
  <2>2. ASSUME ack_diff_id' = 0
        PROVE  ZeroIs(Len(down) + 1, ack_state)'
    <3>1. PICK v, k : v = ack_state /\ k = Len(down') + 1
      OBVIOUS
    <3>2. k \in 1..(Len(down')+1) /\ k + 1 = Len(down) + 1
      BY <1>1, <3>1
    <3>3. ack_diff_id = 0 /\ ack_state' = v
      BY <2>2, <3>1 DEF baseline
    <3>4. ZeroIs(k + 1, v)
      BY <3>1, <3>2, <3>3 DEF IInv, ZeroIsLastPush
    <3>5. IsPart(down[1]) => k # 1
      BY <1>0, <1>1, <3>1
    <3>6. ZeroIs(k, v)'
      BY <1>2, <3>2, <3>4, <3>5
    <3> QED
      BY <3>1, <3>3, <3>6 DEF ZeroIs
  <2> QED
    BY <1>1, <2>1, <2>2 DEF ZeroIsLastPush
<1>4. ChunksWhole'
  <2>1. SUFFICES ASSUME NEW k \in 1..Len(down'), down'[k].type = "chunk"
                 PROVE  /\ down'[k].seq < down'[k].total
                        /\ down'[k].seq + 1 < down'[k].total =>
                              /\ k < Len(down')
                              /\ down'[k+1] = Chunk(down'[k].seq + 1, down'[k].total, down'[k].version)
                        /\ down'[k].seq > 0 =>
                              IF k = 1
                              THEN pending' = [seq |-> down'[1].seq, total |-> down'[1].total,
                                               data |-> {screens'[down'[1].version].cells}]
                              ELSE down'[k-1] = Chunk(down'[k].seq - 1, down'[k].total, down'[k].version)
    BY <1>1 DEF ChunksWhole, Chunk
  <2>2. PICK o \in 2..Len(down) : o = k + 1 /\ down'[k] = down[o] /\ down[o].type = "chunk"
    BY <1>1, <2>1
  <2>3. /\ down[o].seq < down[o].total
        /\ down[o].seq + 1 < down[o].total =>
              /\ o < Len(down)
              /\ down[o+1] = Chunk(down[o].seq + 1, down[o].total, down[o].version)
        /\ down[o].seq > 0 =>
              down[o-1] = Chunk(down[o].seq - 1, down[o].total, down[o].version)
    <3>1. o \in DOMAIN down /\ o # 1
      BY <1>1
    <3>2. ChunksWhole
      BY DEF IInv
    <3> QED
      BY <2>2, <3>1, <3>2 DEF ChunksWhole
  <2>4. ASSUME down[o].seq + 1 < down[o].total
        PROVE  k < Len(down') /\ down'[k+1] = down[o+1]
    BY <1>1, <2>2, <2>3, <2>4
  <2>5. CASE k # 1
    <3>1. down'[k-1] = down[o-1]
      BY <1>1, <2>2, <2>5
    <3> QED
      BY <2>2, <2>3, <2>4, <2>5, <3>1
  <2>6. CASE k = 1
    <3>1. down[o].seq \in Nat /\ down[o].total \in Nat
      <4>1. down[o] \in Frame
        BY <1>1, Queue DEF IInv
      <4> QED
        BY <2>2, <4>1 DEF Frame, FullFrames, ChunkFrames, DiffFrames
    <3>2. ASSUME down[o].seq > 0
          PROVE  IsPart(down[1])
      <4>1. down[1] = Chunk(down[o].seq - 1, down[o].total, down[o].version)
        BY <2>2, <2>3, <2>6, <3>2
      <4> QED
        BY <2>3, <3>1, <4>1 DEF Chunk, IsPart
    <3>3. ASSUME IsPart(down[1])
          PROVE  pending' = [seq |-> down'[1].seq, total |-> down'[1].total,
                             data |-> {screens'[down'[1].version].cells}]
      BY <1>0, <3>3 DEF Chunk
    <3> QED
      BY <2>2, <2>3, <2>4, <2>6, <3>2, <3>3
  <2> QED
    BY <2>5, <2>6
<1> QED
  BY <1>3, <1>4

-----------------------------------------------------------------------------
(* What the frames that join the queue add *)

(* Later frames change nothing for the frames before them.                 *)
LEMMA GrowthKeepsZero ==
    ASSUME Typed, Grows, down' \in Seq(Frame), NEW k \in 1..(Len(down)+1), NEW v,
           UNCHANGED <<initial_state_received, ack_state_seq, seen>>, ZeroIs(k, v)
    PROVE  ZeroIs(k, v)'
<1>1. /\ Len(down) \in Nat /\ \A j \in 1..(k-1) : j \in 1..Len(down) /\ down'[j] = down[j]
  BY Queue DEF Grows
<1>2. ASSUME NEW j \in 1..(k-1), LastPush(j, k)'
      PROVE  LastPush(j, k)
  <2>1. ASSUME NEW i \in (j+1)..(k-1) PROVE i \in 1..(k-1)
    BY <1>1
  <2> QED
    BY <1>1, <1>2, <2>1 DEF LastPush, IsPush
<1>3. NoPush(k)' => NoPush(k)
  BY <1>1 DEF NoPush, IsPush
<1> QED
  BY <1>1, <1>2, <1>3 DEF ZeroIs

(* One more diff, from the server's baseline.                              *)
LEMMA DiffSent ==
    ASSUME IInv, NEW m, m \in DiffFrames, down' = Append(down, m),
           m.base = ack_diff_id, m.from = ack_state, m.to = Latest,
           UNCHANGED <<screens, ack_diff_id, ack_state, client>>
    PROVE  /\ Grows /\ down' \in Seq(Frame) /\ Len(down') = Len(down) + 1
           /\ down'[Len(down')] = m
           /\ InOrder' /\ ZeroIsLastPush' /\ ChunksWhole'
<1>1. /\ DOMAIN down = 1..Len(down) /\ Len(down) \in Nat /\ down \in Seq(Frame)
      /\ m \in Frame /\ m.type = "diff"
  BY Queue DEF IInv, Typed, Frame, DiffFrames
<1>2. /\ down' \in Seq(Frame) /\ Len(down') = Len(down) + 1 /\ down'[Len(down')] = m
      /\ DOMAIN down' = 1..Len(down') /\ \A k \in 1..Len(down) : down'[k] = down[k]
  <2>1. down' \in Seq(Frame)
    BY <1>1, AppendProperties
  <2> QED
    BY <1>1, <2>1, AppendProperties, LenProperties
<1>3. Grows
  BY <1>1, <1>2 DEF Grows
<1>4. UNCHANGED <<initial_state_received, ack_state_seq, seen, pending>> /\ Latest' = Latest
  BY DEF client, Latest
<1>5. /\ Latest \in Nat /\ ack_state \in Nat /\ ack_state <= Latest /\ seen \in Nat /\ seen <= Latest
      /\ \A k \in 1..Len(down) : Target(down[k]) \in Nat
  <2>1. ASSUME NEW k \in 1..Len(down) PROVE Target(down[k]) \in Nat
    <3>1. down[k] \in Frame
      BY Queue DEF IInv
    <3> QED
      BY <3>1 DEF Frame, FullFrames, ChunkFrames, DiffFrames, Target, Versions
  <2>2. Latest \in 0..MaxOutput /\ MaxOutput \in Nat /\ ack_state \in 0..Latest /\ seen \in 0..Latest
    BY StateSyncAssumption DEF IInv, Typed, TypeOK
  <2> QED
    BY <2>1, <2>2
<1>6. InOrder'
  <2>1. ASSUME NEW k \in 1..Len(down')
        PROVE  /\ seen <= Target(down'[k]) /\ Target(down'[k]) <= Latest
               /\ down'[k].type = "diff" => down'[k].from <= Latest
               /\ \A j \in 1..k : Target(down'[j]) <= Target(down'[k])
    <3>1. CASE k \in 1..Len(down)
      <4>1. \A j \in 1..k : j \in 1..Len(down)
        BY <1>1, <3>1
      <4> QED
        BY <1>1, <1>2, <3>1, <4>1 DEF IInv, InOrder
    <3>2. CASE k = Len(down')
      <4>1. Target(down'[k]) = Latest /\ down'[k].from <= Latest
        BY <1>1, <1>2, <1>5, <3>2 DEF Target
      <4>2. ASSUME NEW j \in 1..k PROVE Target(down'[j]) <= Latest
        <5>1. CASE j = k
          BY <1>5, <4>1, <5>1
        <5>2. CASE j # k
          <6>1. j \in 1..Len(down)
            BY <1>1, <1>2, <3>2, <5>2
          <6> QED
            BY <1>1, <1>2, <6>1 DEF IInv, InOrder
        <5> QED
          BY <5>1, <5>2
      <4> QED
        BY <1>5, <4>1, <4>2
    <3> QED
      BY <1>1, <1>2, <3>1, <3>2
  <2> QED
    BY <1>2, <1>4, <2>1 DEF InOrder, Target
<1>7. ZeroIsLastPush'
  <2>1. ASSUME NEW k \in 1..Len(down'), down'[k].type = "diff", down'[k].base = 0
        PROVE  ZeroIs(k, down[k].from)'
    <3>1. PICK v : v = down'[k].from
      OBVIOUS
    <3>2. ZeroIs(k, v) /\ k \in 1..(Len(down)+1)
      <4>1. CASE k \in 1..Len(down)
        BY <1>1, <1>2, <2>1, <3>1, <4>1 DEF IInv, ZeroIsLastPush
      <4>2. CASE k = Len(down) + 1
        BY <1>1, <1>2, <2>1, <3>1, <4>2 DEF IInv, ZeroIsLastPush
      <4> QED
        BY <1>1, <1>2, <4>1, <4>2
    <3>3. ZeroIs(k, v)'
      BY <1>2, <1>3, <1>4, <3>2, GrowthKeepsZero DEF IInv
    <3> QED
      BY <3>1, <3>3 DEF ZeroIs
  <2>2. ASSUME ack_diff_id' = 0
        PROVE  ZeroIs(Len(down) + 1, ack_state)'
    <3>1. PICK v, k : v = ack_state /\ k = Len(down) + 1
      OBVIOUS
    <3>2. ZeroIs(k, v)'
      <4>1. ZeroIs(k, v)
        BY <2>2, <3>1 DEF IInv, ZeroIsLastPush
      <4> QED
        BY <1>1, <1>2, <1>3, <1>4, <3>1, <4>1, GrowthKeepsZero DEF IInv
    <3>3. ack_state' = v /\ Len(down') + 1 = k + 1 /\ ~IsPush(down'[k]) /\ k \in Nat \ {0}
      BY <1>1, <1>2, <3>1 DEF IsPush
    <3>4. ASSUME NEW j \in 1..k, LastPush(j, k + 1)'
          PROVE  j \in 1..(k-1) /\ LastPush(j, k)'
      <4>1. j # k
        BY <3>3, <3>4 DEF LastPush, IsPush
      <4>2. j \in 1..(k-1)
        BY <3>3, <4>1
      <4>3. ASSUME NEW i \in (j+1)..(k-1) PROVE i \in (j+1)..((k+1)-1)
        BY <3>3, <4>2
      <4> QED
        BY <3>4, <4>2, <4>3 DEF LastPush, IsPush
    <3>5. NoPush(k + 1)' => NoPush(k)'
      <4>1. \A i \in 1..(k-1) : i \in 1..((k+1)-1)
        BY <3>3
      <4> QED
        BY <4>1 DEF NoPush, IsPush
    <3>6. (k + 1) - 1 = k
      BY <3>3
    <3>7. ZeroIs(k + 1, v)'
      BY <3>2, <3>4, <3>5, <3>6 DEF ZeroIs
    <3> QED
      BY <3>3, <3>7 DEF ZeroIs
  <2> QED
    BY <1>2, <2>1, <2>2 DEF ZeroIsLastPush
<1>8. ChunksWhole'
  <2>1. SUFFICES ASSUME NEW k \in 1..Len(down'), down'[k].type = "chunk"
                 PROVE  /\ down'[k].seq < down'[k].total
                        /\ down'[k].seq + 1 < down'[k].total =>
                              /\ k < Len(down')
                              /\ down'[k+1] = Chunk(down'[k].seq + 1, down'[k].total, down'[k].version)
                        /\ down'[k].seq > 0 =>
                              IF k = 1
                              THEN pending' = [seq |-> down'[1].seq, total |-> down'[1].total,
                                               data |-> {screens'[down'[1].version].cells}]
                              ELSE down'[k-1] = Chunk(down'[k].seq - 1, down'[k].total, down'[k].version)
    BY <1>2 DEF ChunksWhole, Chunk
  <2>2. k \in 1..Len(down) /\ down'[k] = down[k] /\ k \in Nat
    BY <1>1, <1>2, <2>1
  <2>3. /\ k < Len(down) => k < Len(down') /\ down'[k+1] = down[k+1]
        /\ k # 1 => down'[k-1] = down[k-1]
    BY <1>1, <1>2, <2>2
  <2>4. ChunksWhole
    BY DEF IInv
  <2> QED
    BY <1>1, <1>4, <2>1, <2>2, <2>3, <2>4 DEF ChunksWhole
<1> QED
  BY <1>2, <1>3, <1>6, <1>7, <1>8

(* One more full state, the server's new baseline, under the id 0.         *)
LEMMA PushSent ==
    ASSUME IInv, PushFull, RestartFrom(Latest), UNCHANGED <<screens, client>>
    PROVE  /\ Grows /\ down' \in Seq(Frame) /\ Len(down') <= MaxInFlight
           /\ \A k \in 1..Len(down') : k > Len(down) => IsPush(down'[k])
           /\ InOrder' /\ ZeroIsLastPush' /\ ChunksWhole'
<1>1. /\ DOMAIN down = 1..Len(down) /\ Len(down) \in Nat
      /\ \A k \in 1..Len(down) : down[k] \in Frame
  BY Queue DEF IInv
<1>2. /\ Grows /\ down' \in Seq(Frame) /\ Len(down') <= MaxInFlight
      /\ \E n \in Nat \ {0} : Pushes(n)
  BY PushGrows DEF IInv
<1>3. PICK n \in Nat \ {0} : Pushes(n)
  BY <1>2
<1>4. /\ Len(down') = Len(down) + n /\ DOMAIN down' = 1..Len(down')
      /\ \A k \in 1..Len(down) : down'[k] = down[k]
  BY <1>2, <1>3, LenProperties DEF Pushes, Grows
<1>5. ASSUME NEW k \in 1..Len(down'), k > Len(down)
      PROVE  /\ k - Len(down) \in 1..n
             /\ down'[k] = IF n = 1 THEN Full(Latest) ELSE Chunk(k - Len(down) - 1, n, Latest)
             /\ IsPush(down'[k]) /\ down'[k].version = Latest /\ Target(down'[k]) = Latest
  <2>1. k - Len(down) \in 1..n /\ Len(down) + (k - Len(down)) = k
    BY <1>1, <1>4, <1>5
  <2>2. down'[k] = IF n = 1 THEN Full(Latest) ELSE Chunk(k - Len(down) - 1, n, Latest)
    BY <1>3, <2>1 DEF Pushes
  <2> QED
    BY <2>1, <2>2 DEF Full, Chunk, IsPush, Target
<1>6. UNCHANGED <<initial_state_received, ack_state_seq, seen, pending>> /\ Latest' = Latest
  BY DEF client, Latest
<1>7. /\ Latest \in Nat /\ seen \in Nat /\ seen <= Latest
  <2>1. Latest \in 0..MaxOutput /\ MaxOutput \in Nat /\ seen \in 0..Latest
    BY StateSyncAssumption DEF IInv, Typed, TypeOK
  <2> QED
    BY <2>1
<1>8. InOrder'
  <2>1. ASSUME NEW k \in 1..Len(down')
        PROVE  /\ seen <= Target(down'[k]) /\ Target(down'[k]) <= Latest
               /\ down'[k].type = "diff" => down'[k].from <= Latest
               /\ \A j \in 1..k : Target(down'[j]) <= Target(down'[k])
    <3>1. CASE k \in 1..Len(down)
      <4>1. \A j \in 1..k : j \in 1..Len(down)
        BY <1>1, <3>1
      <4> QED
        BY <1>1, <1>4, <3>1, <4>1 DEF IInv, InOrder
    <3>2. CASE k > Len(down)
      <4>1. ASSUME NEW j \in 1..k PROVE Target(down'[j]) <= Latest
        <5>1. CASE j > Len(down)
          BY <1>4, <1>5, <1>7, <5>1
        <5>2. CASE ~(j > Len(down))
          <6>1. j \in 1..Len(down)
            BY <1>1, <5>2
          <6> QED
            BY <1>1, <1>4, <6>1 DEF IInv, InOrder
        <5> QED
          BY <5>1, <5>2
      <4> QED
        BY <1>5, <1>7, <3>2, <4>1 DEF IsPush
    <3> QED
      BY <1>1, <1>4, <3>1, <3>2
  <2> QED
    BY <1>4, <1>6, <2>1 DEF InOrder, Target
<1>9. ZeroIsLastPush'
  <2>1. ASSUME NEW k \in 1..Len(down'), down'[k].type = "diff", down'[k].base = 0
        PROVE  ZeroIs(k, down[k].from)'
    <3>1. PICK v : v = down'[k].from
      OBVIOUS
    <3>2. k \in 1..Len(down)
      BY <1>1, <1>4, <1>5, <2>1 DEF IsPush
    <3>3. ZeroIs(k, v) /\ k \in 1..(Len(down)+1)
      BY <1>1, <1>4, <2>1, <3>1, <3>2 DEF IInv, ZeroIsLastPush
    <3>4. ZeroIs(k, v)'
      BY <1>2, <1>6, <3>3, GrowthKeepsZero DEF IInv
    <3> QED
      BY <3>1, <3>4 DEF ZeroIs
  <2>2. ZeroIs(Len(down) + 1, ack_state)'
    <3>1. Len(down') \in 1..((Len(down')+1)-1) /\ Len(down') > Len(down) /\ Len(down') \in 1..Len(down')
      BY <1>1, <1>4
    <3>2. IsPush(down'[Len(down')]) /\ down'[Len(down')].version = Latest
      BY <1>5, <3>1
    <3>3. ~NoPush(Len(down) + 1)'
      BY <3>1, <3>2 DEF NoPush, IsPush
    <3>4. ASSUME NEW j \in 1..((Len(down')+1)-1), LastPush(j, Len(down) + 1)'
          PROVE  down'[j].version = Latest
      <4>1. CASE j = Len(down')
        BY <3>2, <4>1
      <4>2. CASE j # Len(down')
        <5>1. Len(down') \in (j+1)..((Len(down')+1)-1)
          BY <1>1, <1>4, <4>2
        <5> QED
          BY <3>2, <3>4, <5>1 DEF LastPush, IsPush
      <4> QED
        BY <4>1, <4>2
    <3>5. ack_state' = Latest
      BY DEF RestartFrom
    <3> QED
      BY <3>3, <3>4, <3>5 DEF ZeroIs
  <2> QED
    BY <1>4, <2>1, <2>2 DEF ZeroIsLastPush
<1>10. ChunksWhole'
  <2>1. SUFFICES ASSUME NEW k \in 1..Len(down'), down'[k].type = "chunk"
                 PROVE  /\ down'[k].seq < down'[k].total
                        /\ down'[k].seq + 1 < down'[k].total =>
                              /\ k < Len(down')
                              /\ down'[k+1] = Chunk(down'[k].seq + 1, down'[k].total, down'[k].version)
                        /\ down'[k].seq > 0 =>
                              IF k = 1
                              THEN pending' = [seq |-> down'[1].seq, total |-> down'[1].total,
                                               data |-> {screens'[down'[1].version].cells}]
                              ELSE down'[k-1] = Chunk(down'[k].seq - 1, down'[k].total, down'[k].version)
    BY <1>4 DEF ChunksWhole, Chunk
  <2>2. CASE k \in 1..Len(down)
    <3>1. /\ down'[k] = down[k] /\ k \in Nat
          /\ k < Len(down) => k < Len(down') /\ down'[k+1] = down[k+1]
          /\ k # 1 => down'[k-1] = down[k-1]
      BY <1>1, <1>4, <2>2
    <3>2. ChunksWhole
      BY DEF IInv
    <3> QED
      BY <1>1, <1>6, <2>1, <2>2, <3>1, <3>2 DEF ChunksWhole
  <2>3. CASE k > Len(down)
    <3>1. PICK i \in 1..n : i = k - Len(down)
      BY <1>5, <2>3
    <3>2. /\ down'[k] = Chunk(i - 1, n, Latest) /\ n # 1
      BY <1>5, <2>1, <2>3, <3>1 DEF Full
    <3>3. /\ down'[k].seq = i - 1 /\ down'[k].total = n /\ down'[k].version = Latest
      BY <3>2 DEF Chunk
    <3>4. i < n => k < Len(down') /\ down'[k+1] = Chunk(i, n, Latest)
      <4>1. SUFFICES ASSUME i < n
                     PROVE  k < Len(down') /\ down'[k+1] = Chunk(i, n, Latest)
        OBVIOUS
      <4>2. k + 1 \in 1..Len(down') /\ k + 1 > Len(down) /\ (k + 1) - Len(down) - 1 = i
        BY <1>1, <1>4, <2>3, <3>1, <4>1
      <4>3. down'[k+1] = Chunk((k + 1) - Len(down) - 1, n, Latest)
        BY <1>5, <3>2, <4>2
      <4> QED
        BY <1>4, <4>2, <4>3
    <3>5. i > 1 => k # 1 /\ down'[k-1] = Chunk(i - 2, n, Latest)
      <4>1. SUFFICES ASSUME i > 1
                     PROVE  k # 1 /\ down'[k-1] = Chunk(i - 2, n, Latest)
        OBVIOUS
      <4>2. k - 1 \in 1..Len(down') /\ k - 1 > Len(down) /\ (k - 1) - Len(down) - 1 = i - 2
        BY <1>1, <1>4, <2>3, <3>1, <4>1
      <4>3. down'[k-1] = Chunk((k - 1) - Len(down) - 1, n, Latest)
        BY <1>5, <3>2, <4>2
      <4> QED
        BY <1>1, <4>2, <4>3
    <3>6. (i - 1) + 1 = i /\ (i - 1) - 1 = i - 2 /\ (i - 1 > 0 <=> i > 1) /\ i - 1 < n
      BY <3>1
    <3> QED
      BY <3>3, <3>4, <3>5, <3>6
  <2> QED
    BY <1>1, <2>1, <2>2, <2>3
<1> QED
  BY <1>2, <1>5, <1>8, <1>9, <1>10

-----------------------------------------------------------------------------
(* The program and the server *)

(* The versions a step deals in are those of screens displayed.            *)
LEMMA Ranges ==
    ASSUME Typed
    PROVE  /\ MaxOutput \in Nat /\ Latest \in Nat /\ Latest <= MaxOutput
           /\ seen \in 0..Latest /\ ack_state \in 0..Latest
           /\ 0 \notin Ids /\ HistoryLen \in Nat \ {0}
           /\ screens \in [0..Latest -> Screen]
BY StateSyncAssumption DEF Typed, TypeOK

LEMMA Entered ==
    ASSUME Typed
    PROVE  /\ sent_states \in Seq([id : Ids, state : 0..Latest])
           /\ Entries = 1..Len(sent_states) /\ Len(sent_states) \in Nat
           /\ \A i \in Entries : sent_states[i] \in [id : Ids, state : 0..Latest]
<1>1. sent_states \in Seq([id : Ids, state : 0..Latest])
  BY DEF Typed, TypeOK
<1>2. /\ Len(sent_states) \in Nat /\ DOMAIN sent_states = 1..Len(sent_states)
      /\ sent_states \in [1..Len(sent_states) -> [id : Ids, state : 0..Latest]]
  BY <1>1, LenProperties
<1> QED
  BY <1>1, <1>2 DEF Entries

(* A screen more to display is one version more.                           *)
LEMMA OneMore ==
    ASSUME Typed, NEW s \in Screen,
           screens' = [v \in 0..(Latest+1) |-> IF v = Latest + 1 THEN s ELSE screens[v]]
    PROVE  /\ Latest' = Latest + 1
           /\ screens' \in [0..Latest' -> Screen]
           /\ \A v \in 0..Latest : screens'[v] = screens[v]
           /\ screens'[Latest+1] = s
<1>1. Latest \in Nat /\ screens \in [0..Latest -> Screen]
  BY Ranges
<1>2. DOMAIN screens' = 0..(Latest+1)
  OBVIOUS
<1>3. Cardinality(0..(Latest+1)) = (Latest + 1) - 0 + 1
  BY <1>1, FS_Interval
<1>4. Latest' = Latest + 1
  BY <1>1, <1>2, <1>3 DEF Latest
<1> QED
  BY <1>1, <1>4

LEMMA ReadPtyIInv ==
    ASSUME PlainSession, IInv, NEW s \in Screen, ReadPty(s)
    PROVE  IInv'
<1>1. /\ MaxOutput \in Nat /\ Latest \in Nat /\ Latest <= MaxOutput
      /\ seen \in 0..Latest /\ ack_state \in 0..Latest
      /\ screens \in [0..Latest -> Screen]
  BY Ranges DEF IInv
<1>2. UNCHANGED <<idle, baseline, diff_counter, down, up, client, losses>>
  BY DEF ReadPty
<1>3. /\ Latest' \in Nat /\ Latest <= Latest' /\ Latest' <= MaxOutput
      /\ screens' \in [0..Latest' -> Screen]
      /\ \A v \in 0..Latest : screens'[v] = screens[v]
      /\ MainScreens'
      /\ CounterFollows' /\ processed' \in BOOLEAN /\ dirty_counter' \in 0..MaxOutput
      /\ last_dirty \in 0..dirty_counter'
  <2>1. MainScreens /\ CounterFollows /\ processed \in BOOLEAN
        /\ dirty_counter \in 0..MaxOutput /\ last_dirty \in 0..dirty_counter
    BY DEF IInv, Typed, TypeOK
  <2>2. CASE /\ ~processed /\ Latest < MaxOutput
             /\ s.alt => AltScreens
             /\ screens' = [v \in 0..(Latest+1) |-> IF v = Latest + 1 THEN s ELSE screens[v]]
             /\ processed' = TRUE /\ UNCHANGED dirty_counter
    <3>1. /\ Latest' = Latest + 1 /\ screens' \in [0..Latest' -> Screen]
          /\ \A v \in 0..Latest : screens'[v] = screens[v]
          /\ screens'[Latest+1] = s
      BY <2>2, OneMore DEF IInv
    <3>2. ~s.alt
      BY <2>2 DEF PlainSession
    <3>3. MainScreens'
      <4>1. ASSUME NEW v \in 0..Latest' PROVE ~screens'[v].alt
        <5>1. v \in 0..Latest \/ v = Latest + 1
          BY <1>1, <3>1
        <5> QED
          BY <2>1, <3>1, <3>2, <5>1 DEF MainScreens
      <4> QED
        BY <4>1 DEF MainScreens
    <3>4. Latest' \in Nat /\ Latest <= Latest' /\ Latest' <= MaxOutput
      BY <1>1, <2>2, <3>1
    <3>5. CounterFollows'
      BY <2>1, <2>2, <3>1 DEF CounterFollows
    <3> QED
      BY <2>1, <2>2, <3>1, <3>3, <3>4, <3>5
  <2>3. CASE /\ processed /\ processed' = FALSE /\ dirty_counter' = dirty_counter + 1
             /\ UNCHANGED screens
    <3>1. Latest' = Latest
      BY <2>3 DEF Latest
    <3>2. dirty_counter' = Latest
      BY <1>1, <2>1, <2>3 DEF CounterFollows
    <3>3. /\ CounterFollows' /\ MainScreens'
      BY <2>1, <2>3, <3>1, <3>2 DEF CounterFollows, MainScreens
    <3>4. dirty_counter' \in 0..MaxOutput /\ last_dirty \in 0..dirty_counter'
      BY <1>1, <2>1, <2>3, <3>2
    <3>5. screens' \in [0..Latest' -> Screen] /\ \A v \in 0..Latest : screens'[v] = screens[v]
      BY <1>1, <2>3, <3>1
    <3> QED
      <4>1. processed' \in BOOLEAN
        BY <2>3
      <4>2. Latest' \in Nat /\ Latest <= Latest' /\ Latest' <= MaxOutput
        BY <1>1, <3>1
      <4> QED
        BY <3>3, <3>4, <3>5, <4>1, <4>2
  <2> QED
    BY <2>2, <2>3 DEF ReadPty
<1>4. Typed'
  <2>1. sent_states' \in Seq([id : Ids, state : 0..Latest'])
    <3>1. [id : Ids, state : 0..Latest] \subseteq [id : Ids, state : 0..Latest']
      BY <1>1, <1>3
    <3>2. sent_states' = sent_states
      BY <1>2 DEF baseline
    <3> QED
      BY <3>1, <3>2, Entered, SeqMonotonic DEF IInv
  <2>2. ack_state' \in 0..Latest' /\ seen' \in 0..Latest'
    BY <1>1, <1>2, <1>3 DEF baseline, client
  <2> QED
    BY <1>1, <1>2, <1>3, <2>1, <2>2
       DEF IInv, Typed, TypeOK, idle, baseline, up, client
<1>5. ShowsSeen'
  BY <1>1, <1>2, <1>3 DEF IInv, ShowsSeen, client
<1>6. InOrder'
  <2>1. ASSUME NEW k \in DOMAIN down
        PROVE  /\ Target(down[k]) \in Nat
               /\ down[k].type = "diff" => down[k].from \in Nat
    <3>1. down[k] \in Frame
      BY Queue DEF IInv
    <3> QED
      BY <3>1 DEF Frame, FullFrames, ChunkFrames, DiffFrames, Target, Versions
  <2>2. down' = down /\ seen' = seen
    BY <1>2 DEF client
  <2>3. InOrder
    BY DEF IInv
  <2>4. ASSUME NEW k \in DOMAIN down
        PROVE  /\ Target(down[k]) <= Latest'
               /\ down[k].type = "diff" => down[k].from <= Latest'
    <3>1. /\ Target(down[k]) <= Latest
          /\ down[k].type = "diff" => down[k].from <= Latest
      BY <2>3 DEF InOrder
    <3> QED
      BY <1>1, <1>3, <2>1, <3>1
  <2> QED
    BY <2>2, <2>3, <2>4 DEF InOrder, Target
<1>7. OneScreenPerId'
  BY <1>2 DEF IInv, OneScreenPerId, Names, Entries, baseline, client
<1>8. ZeroIsLastPush'
  BY <1>2 DEF IInv, ZeroIsLastPush, ZeroIs, LastPush, NoPush, IsPush, baseline, client
<1>9. ChunksWhole'
  <2>1. ChunksWhole /\ down' = down /\ pending' = pending
    BY <1>2 DEF IInv, client
  <2>2. 1 \in DOMAIN down /\ down[1].type = "chunk" => screens'[down[1].version] = screens[down[1].version]
    <3>1. ASSUME 1 \in DOMAIN down, down[1].type = "chunk"
          PROVE  down[1].version \in 0..Latest
      <4>1. Target(down[1]) <= Latest /\ Target(down[1]) = down[1].version
        BY <3>1 DEF IInv, InOrder, Target
      <4>2. down[1] \in Frame
        BY <3>1, Queue DEF IInv
      <4> QED
        BY <1>1, <3>1, <4>1, <4>2 DEF Frame, FullFrames, ChunkFrames, DiffFrames, Versions
    <3> QED
      BY <1>3, <3>1
  <2> QED
    BY <2>1, <2>2 DEF ChunksWhole, Chunk
<1> QED
  BY <1>3, <1>4, <1>5, <1>6, <1>7, <1>8, <1>9 DEF IInv

(* A full state, sent on request or in place of a large diff.              *)
LEMMA PushIInv ==
    ASSUME IInv, PushFull, RestartFrom(Latest),
           UNCHANGED <<display, diff_counter, client_acks, client, losses>>,
           TypeOK => /\ ack_dirty' \in BOOLEAN /\ last_dirty' \in 0..dirty_counter
                     /\ last_current' \in {Nothing} \cup [Cells -> Vals]
                     /\ repaints' \in 0..2
    PROVE  IInv'
<1>1. UNCHANGED <<screens, client>>
  BY DEF display
<1>2. /\ Grows /\ down' \in Seq(Frame) /\ Len(down') <= MaxInFlight
      /\ \A k \in 1..Len(down') : k > Len(down) => IsPush(down'[k])
      /\ InOrder' /\ ZeroIsLastPush' /\ ChunksWhole'
  BY <1>1, PushSent
<1>3. Latest' = Latest
  BY <1>1 DEF Latest
<1>4. ack_state' = Latest /\ ack_diff_id' = 0 /\ sent_states' = <<>>
  BY DEF RestartFrom
<1>5. Typed'
  <2>1. sent_states' \in Seq([id : Ids, state : 0..Latest']) /\ Len(sent_states') <= HistoryLen
    BY <1>4, EmptySeq, StateSyncAssumption
  <2>2. ack_state' \in 0..Latest' /\ seen' \in 0..Latest'
    BY <1>3, <1>4, Ranges DEF IInv, client
  <2> QED
    BY <1>2, <1>3, <1>4, <2>1, <2>2 DEF IInv, Typed, TypeOK, display, client
<1>6. CounterFollows' /\ MainScreens' /\ ShowsSeen'
  BY <1>3 DEF IInv, CounterFollows, MainScreens, ShowsSeen, display, client
<1>7. OneScreenPerId'
  <2>1. ASSUME NEW id \in Ids, NEW v \in Versions, Names(id, v)'
        PROVE  Names(id, v)
    <3>1. id # 0
      BY Ranges DEF IInv
    <3>2. CASE ack_state_seq' = id /\ seen' = v
      BY <3>2 DEF Names, client
    <3>3. ASSUME NEW k \in DOMAIN down', down'[k].type = "diff",
                 \/ down'[k].id = id /\ down'[k].to = v
                 \/ down'[k].base = id /\ down'[k].from = v
          PROVE  Names(id, v)
      <4>1. k \in 1..Len(down') /\ Len(down) \in Nat /\ DOMAIN down = 1..Len(down)
        BY <1>2, Queue, LenProperties DEF IInv
      <4>2. k \in 1..Len(down)
        BY <1>2, <3>3, <4>1 DEF IsPush
      <4>3. down'[k] = down[k]
        BY <1>2, <4>2 DEF Grows
      <4> QED
        BY <3>3, <4>1, <4>2, <4>3 DEF Names
    <3> QED
      BY <1>4, <2>1, <3>1, <3>2, <3>3 DEF Names, Entries
  <2> QED
    BY <2>1, NoNewNames DEF IInv
<1> QED
  BY <1>2, <1>5, <1>6, <1>7 DEF IInv

LEMMA AnswerRepaintIInv ==
    ASSUME IInv, AnswerRepaint
    PROVE  IInv'
<1>1. /\ PushFull /\ RestartFrom(Latest)
      /\ UNCHANGED <<display, diff_counter, client_acks, client, losses>>
  BY DEF AnswerRepaint
<1>2. ASSUME TypeOK
      PROVE  /\ ack_dirty' \in BOOLEAN /\ last_dirty' \in 0..dirty_counter
             /\ last_current' \in {Nothing} \cup [Cells -> Vals]
             /\ repaints' \in 0..2
  BY <1>2 DEF TypeOK, AnswerRepaint
<1> QED
  BY <1>1, <1>2, PushIInv

LEMMA AckArrivesIInv ==
    ASSUME IInv, NEW id \in Ids, AckArrives(id)
    PROVE  IInv'
<1>1. /\ client_acks' = client_acks \ {id} /\ ApplyClientAck(id)
      /\ UNCHANGED <<display, last_dirty, last_current, diff_counter, down, repaints, client, losses>>
  BY DEF AckArrives
<1>2. Latest' = Latest /\ UNCHANGED <<screens, pending, seen>>
  BY <1>1 DEF Latest, display, client
<1>3. \/ UNCHANGED <<baseline, ack_dirty>>
      \/ \E i \in Entries :
            /\ sent_states[i].id = id
            /\ ack_state' = sent_states[i].state /\ ack_diff_id' = id
            /\ sent_states' = SubSeq(sent_states, i + 1, Len(sent_states))
            /\ ack_dirty' = TRUE
  BY <1>1 DEF ApplyClientAck
<1>4. /\ sent_states' \in Seq([id : Ids, state : 0..Latest]) /\ Len(sent_states') <= Len(sent_states)
      /\ \A m \in DOMAIN sent_states' : \E n \in Entries : sent_states'[m] = sent_states[n]
      /\ ack_state' \in 0..Latest /\ ack_diff_id' \in Ids \cup {0} /\ ack_dirty' \in BOOLEAN
  <2>1. CASE UNCHANGED <<baseline, ack_dirty>>
    <3>1. UNCHANGED <<sent_states, ack_state, ack_diff_id, ack_dirty>>
      BY <2>1 DEF baseline
    <3>2. sent_states \in Seq([id : Ids, state : 0..Latest]) /\ Len(sent_states) \in Nat
      BY Entered DEF IInv
    <3>3. ack_state \in 0..Latest /\ ack_diff_id \in Ids \cup {0} /\ ack_dirty \in BOOLEAN
      BY DEF IInv, Typed, TypeOK
    <3> QED
      BY <3>1, <3>2, <3>3 DEF Entries
  <2>2. ASSUME NEW i \in Entries, sent_states[i].id = id,
               ack_state' = sent_states[i].state, ack_diff_id' = id,
               sent_states' = SubSeq(sent_states, i + 1, Len(sent_states)), ack_dirty' = TRUE
        PROVE  /\ sent_states' \in Seq([id : Ids, state : 0..Latest])
               /\ Len(sent_states') <= Len(sent_states)
               /\ \A m \in DOMAIN sent_states' : \E n \in Entries : sent_states'[m] = sent_states[n]
               /\ ack_state' \in 0..Latest /\ ack_diff_id' \in Ids \cup {0} /\ ack_dirty' \in BOOLEAN
    <3>1. /\ Entries = 1..Len(sent_states) /\ Len(sent_states) \in Nat
          /\ \A n \in Entries : sent_states[n] \in [id : Ids, state : 0..Latest]
      BY Entered DEF IInv
    <3>2. i + 1 \in Int /\ Len(sent_states) \in Int
          /\ \A n \in (i+1)..Len(sent_states) : sent_states[n] \in [id : Ids, state : 0..Latest]
      BY <3>1
    <3>3. /\ sent_states' \in Seq([id : Ids, state : 0..Latest])
          /\ Len(sent_states') = IF i + 1 <= Len(sent_states) THEN Len(sent_states) - (i + 1) + 1 ELSE 0
          /\ \A n \in 1..(Len(sent_states)-(i+1)+1) : sent_states'[n] = sent_states[(i+1)+n-1]
      BY <2>2, <3>2, SubSeqProperties
    <3>4. DOMAIN sent_states' = 1..Len(sent_states')
      BY <3>3, LenProperties
    <3>5. ASSUME NEW m \in DOMAIN sent_states'
          PROVE  \E n \in Entries : sent_states'[m] = sent_states[n]
      <4>1. m \in 1..(Len(sent_states)-(i+1)+1) /\ (i+1)+m-1 \in Entries
        BY <3>1, <3>3, <3>4
      <4> QED
        BY <3>3, <4>1
    <3> QED
      BY <2>2, <3>1, <3>3, <3>5
  <2> QED
    BY <1>3, <2>1, <2>2
<1>5. Typed'
  <2>1. Len(sent_states') <= HistoryLen
    <3>1. Len(sent_states') \in Nat /\ Len(sent_states) \in Nat
      BY <1>4, Entered, LenProperties DEF IInv
    <3>2. Len(sent_states) <= HistoryLen /\ HistoryLen \in Nat
      BY StateSyncAssumption DEF IInv, Typed, TypeOK
    <3> QED
      BY <1>4, <3>1, <3>2
  <2> QED
    BY <1>1, <1>2, <1>4, <2>1 DEF IInv, Typed, TypeOK, display, client
<1>6. CounterFollows' /\ MainScreens' /\ ShowsSeen' /\ InOrder'
  BY <1>1, <1>2 DEF IInv, CounterFollows, MainScreens, ShowsSeen, InOrder, Target, display, client
<1>7. OneScreenPerId'
  <2>1. ASSUME NEW d \in Ids, NEW v \in Versions, Names(d, v)'
        PROVE  Names(d, v)
    <3>1. CASE \E m \in DOMAIN sent_states' : sent_states'[m].id = d /\ sent_states'[m].state = v
      BY <1>4, <3>1 DEF Names
    <3>2. CASE ack_diff_id' = d /\ ack_state' = v
      BY <1>3, <3>2 DEF Names, baseline
    <3>3. UNCHANGED <<ack_state_seq, seen, down>>
      BY <1>1 DEF client
    <3> QED
      BY <2>1, <3>1, <3>2, <3>3 DEF Names, Entries
  <2> QED
    BY <2>1, NoNewNames DEF IInv
<1>8. ZeroIsLastPush'
  <2>1. ack_diff_id' = 0 => UNCHANGED <<ack_diff_id, ack_state>>
    BY <1>3, Ranges DEF IInv, baseline
  <2>2. UNCHANGED <<down, initial_state_received, ack_state_seq, seen>>
    BY <1>1 DEF client
  <2> QED
    BY <2>1, <2>2 DEF IInv, ZeroIsLastPush, ZeroIs, LastPush, NoPush, IsPush
<1>9. ChunksWhole'
  BY <1>1, <1>2 DEF IInv, ChunksWhole, Chunk
<1> QED
  BY <1>5, <1>6, <1>7, <1>8, <1>9 DEF IInv

(* An id that is in use nowhere names nothing.                             *)
LEMMA FreshIds ==
    ASSUME Typed, NEW id \in Ids \ InUse, NEW v
    PROVE  ~Names(id, v) /\ id # ack_diff_id
<1>1. id # ack_diff_id /\ id # ack_state_seq
  BY DEF InUse
<1>2. ASSUME NEW i \in Entries
      PROVE  sent_states[i].id # id
  <2>1. sent_states[i].id \in {sent_states[j].id : j \in Entries}
    OBVIOUS
  <2> QED
    BY <2>1 DEF InUse
<1>3. ASSUME NEW k \in DOMAIN down, down[k].type = "diff"
      PROVE  down[k].id # id /\ down[k].base # id
  <2>1. down[k] \in Range(down)
    BY DEF Range
  <2>2. down[k] \in {d \in Range(down) : d.type = "diff"}
    BY <1>3, <2>1
  <2>3. {down[k].id, down[k].base} \subseteq UNION {{m.id, m.base} : m \in {d \in Range(down) : d.type = "diff"}}
    BY <2>2
  <2> QED
    BY <2>3 DEF InUse
<1> QED
  BY <1>1, <1>2, <1>3 DEF Names

(* The ring with one more entry: the new one and some of the old.          *)
LEMMA Recorded ==
    ASSUME Typed, NEW id \in Ids, Record([id |-> id, state |-> Latest])
    PROVE  /\ sent_states' \in Seq([id : Ids, state : 0..Latest])
           /\ Len(sent_states') <= HistoryLen
           /\ \A m \in DOMAIN sent_states' :
                 \/ sent_states'[m] = [id |-> id, state |-> Latest]
                 \/ \E n \in Entries : sent_states'[m] = sent_states[n]
<1> DEFINE S      == [id : Ids, state : 0..Latest]
           entry  == [id |-> id, state |-> Latest]
           longer == Append(sent_states, entry)
<1>1. /\ sent_states \in Seq(S) /\ Entries = 1..Len(sent_states) /\ Len(sent_states) \in Nat
      /\ Len(sent_states) <= HistoryLen /\ HistoryLen \in Nat \ {0}
  BY Entered, Ranges DEF Typed, TypeOK
<1>2. entry \in S
  BY Ranges
<1>3. sent_states' = IF Len(longer) > HistoryLen THEN Tail(longer) ELSE longer
  BY DEF Record
<1> HIDE DEF S, entry
<1>4. /\ longer \in Seq(S) /\ longer # <<>> /\ Len(longer) = Len(sent_states) + 1
      /\ \A i \in 1..Len(sent_states) : longer[i] = sent_states[i]
      /\ longer[Len(sent_states)+1] = entry
  BY <1>1, <1>2, AppendProperties
<1> HIDE DEF longer
<1>5. ASSUME NEW i \in 1..Len(longer)
      PROVE  longer[i] = entry \/ \E n \in Entries : longer[i] = sent_states[n]
  <2>1. i = Len(sent_states) + 1 \/ i \in 1..Len(sent_states)
    BY <1>1, <1>4
  <2> QED
    BY <1>1, <1>4, <2>1
<1>6. CASE Len(longer) > HistoryLen
  <2>1. /\ sent_states' = Tail(longer)
        /\ Tail(longer) \in Seq(S) /\ Len(Tail(longer)) = Len(longer) - 1
        /\ \A i \in 1..Len(Tail(longer)) : Tail(longer)[i] = longer[i+1]
    BY <1>3, <1>4, <1>6, HeadTailProperties
  <2>2. sent_states' \in Seq(S) /\ Len(sent_states') <= HistoryLen
    BY <1>1, <1>4, <2>1
  <2>3. DOMAIN sent_states' = 1..Len(sent_states')
    BY <2>2, LenProperties
  <2>4. ASSUME NEW m \in DOMAIN sent_states'
        PROVE  sent_states'[m] = entry \/ \E n \in Entries : sent_states'[m] = sent_states[n]
    <3>1. sent_states'[m] = longer[m+1] /\ m + 1 \in 1..Len(longer)
      BY <1>1, <1>4, <2>1, <2>3
    <3> QED
      BY <1>5, <3>1
  <2> QED
    BY <2>2, <2>4 DEF S, entry
<1>7. CASE ~(Len(longer) > HistoryLen)
  <2>1. sent_states' = longer /\ Len(longer) <= HistoryLen
    BY <1>1, <1>3, <1>4, <1>7
  <2>2. DOMAIN longer = 1..Len(longer)
    BY <1>4, LenProperties
  <2> QED
    BY <1>4, <1>5, <2>1, <2>2 DEF S, entry
<1> QED
  BY <1>6, <1>7

LEMMA SendDiffIInv ==
    ASSUME IInv, SendDiff, UNCHANGED <<display, up, client, losses>>,
           TypeOK => /\ ack_dirty' \in BOOLEAN /\ last_dirty' \in 0..dirty_counter
                     /\ last_current' \in {Nothing} \cup [Cells -> Vals]
    PROVE  IInv'
<1>1. PICK id \in Ids \ InUse :
          /\ Len(down) < MaxInFlight
          /\ down' = Append(down, DiffFrame(ack_diff_id, id, ack_state, Latest))
          /\ diff_counter' = id
          /\ Record([id |-> id, state |-> Latest])
          /\ UNCHANGED <<ack_diff_id, ack_state>>
  BY DEF SendDiff
<1> DEFINE m == DiffFrame(ack_diff_id, id, ack_state, Latest)
<1>2. /\ m \in DiffFrames /\ m.type = "diff" /\ m.id = id
      /\ m.base = ack_diff_id /\ m.from = ack_state /\ m.to = Latest
  <2>1. ack_diff_id \in Ids \cup {0} /\ ack_state \in Versions /\ Latest \in Versions
    BY Ranges DEF IInv, Typed, TypeOK, Versions
  <2> QED
    BY <2>1 DEF DiffFrame, DiffFrames
<1> HIDE DEF m
<1>3. UNCHANGED screens /\ Latest' = Latest
  BY DEF display, Latest
<1>4. /\ Grows /\ down' \in Seq(Frame) /\ Len(down') = Len(down) + 1
      /\ down'[Len(down')] = m
      /\ InOrder' /\ ZeroIsLastPush' /\ ChunksWhole'
  BY <1>1, <1>2, <1>3, DiffSent DEF m
<1>5. /\ sent_states' \in Seq([id : Ids, state : 0..Latest])
      /\ Len(sent_states') <= HistoryLen
      /\ \A k \in DOMAIN sent_states' :
            \/ sent_states'[k] = [id |-> id, state |-> Latest]
            \/ \E n \in Entries : sent_states'[k] = sent_states[n]
  BY <1>1, Recorded DEF IInv
<1>6. Typed'
  <2>1. Len(down') <= MaxInFlight
    <3>1. Len(down) \in Nat /\ MaxInFlight \in Nat
      BY Queue, StateSyncAssumption DEF IInv
    <3> QED
      BY <1>1, <1>4, <3>1
  <2>2. ack_state' \in 0..Latest' /\ ack_diff_id' \in Ids \cup {0} /\ diff_counter' \in Ids \cup {0}
    BY <1>1, <1>3 DEF IInv, Typed, TypeOK
  <2> QED
    BY <1>3, <1>4, <1>5, <2>1, <2>2 DEF IInv, Typed, TypeOK, display, up, client
<1>7. CounterFollows' /\ MainScreens' /\ ShowsSeen'
  BY <1>3 DEF IInv, CounterFollows, MainScreens, ShowsSeen, display, client
<1>8. OneScreenPerId'
  <2>1. ASSUME NEW d \in Ids, NEW v \in Versions, Names(d, v)'
        PROVE  Names(d, v) \/ (d = id /\ v = Latest)
    <3>1. ASSUME NEW k \in DOMAIN sent_states', sent_states'[k].id = d, sent_states'[k].state = v
          PROVE  Names(d, v) \/ (d = id /\ v = Latest)
      BY <1>5, <3>1 DEF Names
    <3>2. ASSUME (ack_diff_id' = d /\ ack_state' = v) \/ (ack_state_seq' = d /\ seen' = v)
          PROVE  Names(d, v)
      BY <1>1, <3>2 DEF Names, client
    <3>3. ASSUME NEW k \in DOMAIN down', down'[k].type = "diff",
                 \/ down'[k].id = d /\ down'[k].to = v
                 \/ down'[k].base = d /\ down'[k].from = v
          PROVE  Names(d, v) \/ (d = id /\ v = Latest)
      <4>1. DOMAIN down = 1..Len(down) /\ Len(down) \in Nat /\ k \in 1..Len(down')
        BY <1>4, <3>3, Queue, LenProperties DEF IInv
      <4>2. CASE k \in 1..Len(down)
        BY <1>4, <3>3, <4>1, <4>2 DEF Names, Grows
      <4>3. CASE k = Len(down')
        BY <1>2, <1>4, <3>3, <4>3 DEF Names
      <4> QED
        BY <1>4, <4>1, <4>2, <4>3
    <3>4. \/ \E k \in DOMAIN sent_states' : sent_states'[k].id = d /\ sent_states'[k].state = v
          \/ ack_diff_id' = d /\ ack_state' = v
          \/ ack_state_seq' = d /\ seen' = v
          \/ \E k \in DOMAIN down' :
                /\ down'[k].type = "diff"
                /\ \/ down'[k].id = d /\ down'[k].to = v
                   \/ down'[k].base = d /\ down'[k].from = v
      BY <2>1 DEF Names, Entries
    <3> QED
      BY <3>1, <3>2, <3>3, <3>4
  <2>2. \A v \in Versions : ~Names(id, v)
    BY FreshIds DEF IInv
  <2>3. ASSUME NEW d \in Ids, NEW v \in Versions, NEW w \in Versions, Names(d, v)', Names(d, w)'
        PROVE  v = w
    <3>1. CASE d = id
      BY <2>1, <2>2, <2>3, <3>1
    <3>2. CASE d # id
      BY <2>1, <2>3, <3>2 DEF IInv, OneScreenPerId
    <3> QED
      BY <3>1, <3>2
  <2> QED
    BY <2>3 DEF OneScreenPerId
<1> QED
  BY <1>4, <1>6, <1>7, <1>8 DEF IInv

LEMMA SyncTickIInv ==
    ASSUME IInv, SyncTick
    PROVE  IInv'
<1>1. /\ last_current' = Current.cells /\ last_dirty' = dirty_counter /\ ack_dirty' = FALSE
      /\ UNCHANGED <<display, up, client, losses>>
      /\ \/ UNCHANGED <<baseline, diff_counter, down>>
         \/ PushFull /\ RestartFrom(Latest) /\ UNCHANGED diff_counter
         \/ SendDiff
  BY DEF SyncTick
<1>2. ASSUME TypeOK
      PROVE  /\ ack_dirty' \in BOOLEAN /\ last_dirty' \in 0..dirty_counter
             /\ last_current' \in {Nothing} \cup [Cells -> Vals]
  <2>1. dirty_counter \in Nat
    BY <1>2, StateSyncAssumption DEF TypeOK
  <2>2. Current \in Screen
    <3>1. Latest \in Nat /\ screens \in [0..Latest -> Screen]
      BY Ranges DEF IInv
    <3> QED
      BY <3>1 DEF Current
  <2>3. Current.cells \in [Cells -> Vals]
    BY <2>2 DEF Screen
  <2>4. ack_dirty' \in BOOLEAN
    BY <1>1
  <2>5. last_dirty' \in 0..dirty_counter
    BY <1>1, <2>1
  <2>6. last_current' \in [Cells -> Vals]
    BY <1>1, <2>3
  <2> QED
    BY <2>4, <2>5, <2>6
<1>3. CASE UNCHANGED <<baseline, diff_counter, down>>
  <2>1. Latest' = Latest
    BY <1>1 DEF display, Latest
  <2>2. Typed'
    BY <1>1, <1>2, <1>3, <2>1 DEF IInv, Typed, TypeOK, display, up, client, baseline
  <2>3. CounterFollows' /\ MainScreens' /\ ShowsSeen' /\ InOrder'
    BY <1>1, <1>3, <2>1 DEF IInv, CounterFollows, MainScreens, ShowsSeen, InOrder, Target, display, client
  <2>4. OneScreenPerId'
    BY <1>1, <1>3 DEF IInv, OneScreenPerId, Names, Entries, baseline, client
  <2>5. ZeroIsLastPush'
    BY <1>1, <1>3 DEF IInv, ZeroIsLastPush, ZeroIs, LastPush, NoPush, IsPush, baseline, client
  <2>6. ChunksWhole'
    BY <1>1, <1>3 DEF IInv, ChunksWhole, Chunk, display, client
  <2> QED
    BY <2>2, <2>3, <2>4, <2>5, <2>6 DEF IInv
<1>4. CASE PushFull /\ RestartFrom(Latest) /\ UNCHANGED diff_counter
  <2>1. TypeOK => repaints' \in 0..2
    BY <1>1 DEF TypeOK, up
  <2>2. client_acks' = client_acks
    BY <1>1 DEF up
  <2> QED
    BY <1>1, <1>2, <1>4, <2>1, <2>2, PushIInv
<1>5. CASE SendDiff
  BY <1>1, <1>2, <1>5, SendDiffIInv
<1> QED
  BY <1>1, <1>3, <1>4, <1>5

-----------------------------------------------------------------------------
(* The path and the client *)

LEMMA LoseFrameIInv ==
    ASSUME PlainSession, IInv, LoseFrame
    PROVE  IInv'
<1>1. /\ losses < MaxLosses /\ losses' = losses + 1
      /\ UNCHANGED <<display, idle, baseline, diff_counter, client>>
  BY DEF LoseFrame
<1>2. Latest' = Latest /\ losses' \in 0..MaxLosses /\ UNCHANGED screens
  BY <1>1, StateSyncAssumption DEF Latest, display, IInv, Typed, TypeOK
<1>3. CounterFollows' /\ MainScreens' /\ ShowsSeen'
  BY <1>1, <1>2 DEF IInv, CounterFollows, MainScreens, ShowsSeen, display, client
<1>4. ASSUME NEW i \in DOMAIN down, Lossy(down[i]), down' = RemoveAt(down, i), UNCHANGED up
      PROVE  IInv'
  <2>1. Drops(i) /\ down' \in Seq(Frame)
    BY <1>4, LossDrops DEF IInv
  <2>2. down[i].type = "diff"
    BY <1>4 DEF Lossy, PlainSession
  <2>3. Typed'
    <3>1. Len(down) \in Nat /\ MaxInFlight \in Nat
      BY Queue, StateSyncAssumption DEF IInv
    <3>2. Len(down') <= MaxInFlight
      BY <2>1, <3>1 DEF IInv, Typed, TypeOK, Drops
    <3> QED
      BY <1>1, <1>2, <1>4, <2>1, <3>2
         DEF IInv, Typed, TypeOK, display, idle, baseline, up, client
  <2>4. ZeroIsLastPush' /\ ChunksWhole'
    BY <1>1, <2>1, <2>2, DiffDropped DEF display, client
  <2>5. InOrder'
    BY <1>1, <2>1, DropInOrder DEF display, client
  <2>6. OneScreenPerId'
    <3>1. \A k \in DOMAIN down' : \E o \in DOMAIN down : down'[k] = down[o]
      BY <2>1, DropNames
    <3>2. ASSUME NEW id \in Ids, NEW v \in Versions, Names(id, v)'
          PROVE  Names(id, v)
      BY <1>1, <3>1, <3>2 DEF Names, Entries, baseline, client
    <3> QED
      BY <3>2, NoNewNames DEF IInv
  <2> QED
    BY <1>3, <2>3, <2>4, <2>5, <2>6 DEF IInv
<1>5. ASSUME UNCHANGED down, client_acks' \subseteq Ids, repaints' \in 0..2
      PROVE  IInv'
  <2>1. Typed'
    BY <1>1, <1>2, <1>5 DEF IInv, Typed, TypeOK, display, idle, baseline, client
  <2>2. InOrder' /\ OneScreenPerId'
    BY <1>1, <1>2, <1>5 DEF IInv, InOrder, Target, OneScreenPerId, Names, Entries, baseline, client
  <2>3. ZeroIsLastPush'
    BY <1>1, <1>5 DEF IInv, ZeroIsLastPush, ZeroIs, LastPush, NoPush, IsPush, baseline, client
  <2>4. ChunksWhole'
    BY <1>1, <1>5 DEF IInv, ChunksWhole, Chunk, display, client
  <2> QED
    BY <1>3, <2>1, <2>2, <2>3, <2>4 DEF IInv
<1>6. client_acks \subseteq Ids /\ repaints \in 0..2
  BY DEF IInv, Typed, TypeOK
<1>7. CASE \E id \in client_acks : client_acks' = client_acks \ {id} /\ UNCHANGED <<down, repaints>>
  BY <1>5, <1>6, <1>7
<1>8. CASE repaints > 0 /\ repaints' = repaints - 1 /\ UNCHANGED <<down, client_acks>>
  BY <1>5, <1>6, <1>8
<1> QED
  BY <1>4, <1>7, <1>8 DEF LoseFrame

(* A diff applied to the screen it was computed from.                      *)
LEMMA Applied ==
    ASSUME NEW from \in Screen, NEW to \in Screen, ~from.alt, ~to.alt
    PROVE  Apply(from, to, from) = to
<1>1. /\ from.alt \in BOOLEAN /\ to.alt \in BOOLEAN
      /\ from.cells \in [Cells -> Vals] /\ to.cells \in [Cells -> Vals]
      /\ to = [alt |-> to.alt, cells |-> to.cells]
  BY DEF Screen
<1>2. from.alt = to.alt
  BY <1>1
<1> DEFINE c == [x \in Cells |-> IF x \in Changed(from, to) THEN to.cells[x] ELSE from.cells[x]]
<1>3. Apply(from, to, from) = [alt |-> from.alt, cells |-> c]
  BY <1>2 DEF Apply
<1>4. \A x \in Cells : c[x] = to.cells[x]
  BY DEF Changed
<1>5. c = to.cells
  BY <1>1, <1>4
<1> QED
  BY <1>1, <1>2, <1>3, <1>5

(* The main screen is the one a full state is for.                         *)
LEMMA FullStateShown ==
    ASSUME IInv, NEW v \in 0..Latest
    PROVE  [alt |-> client_state.alt, cells |-> screens[v].cells] = screens[v]
<1>1. screens[v] \in Screen /\ screens[seen] \in Screen
  BY Ranges DEF IInv
<1>2. ~screens[v].alt /\ ~client_state.alt
  BY Ranges DEF IInv, MainScreens, ShowsSeen
<1>3. screens[v].alt = FALSE /\ client_state.alt = FALSE
  BY <1>1, <1>2 DEF Screen, IInv, ShowsSeen
<1>4. screens[v] = [alt |-> screens[v].alt, cells |-> screens[v].cells]
  BY <1>1 DEF Screen
<1> QED
  BY <1>3, <1>4

(* The id a diff was made for and the id the client stands at being one,   *)
(* so are the screens.                                                     *)
LEMMA BaseIsShown ==
    ASSUME IInv, down # <<>>, initial_state_received,
           down[1].type = "diff", down[1].base = ack_state_seq
    PROVE  /\ down[1].from = seen
           /\ client_state = screens[down[1].from]
<1>1. 1 \in DOMAIN down /\ down[1] \in Frame
  BY Queue, EmptySeq DEF IInv, Typed
<1>2. down[1].base \in Ids \cup {0} /\ down[1].from \in Versions
  BY <1>1 DEF Frame, FullFrames, ChunkFrames, DiffFrames
<1>3. CASE down[1].base = 0
  <2>1. ZeroIs(1, down[1].from)
    BY <1>1, <1>3 DEF IInv, ZeroIsLastPush
  <2>2. NoPush(1)
    BY DEF NoPush
  <2> QED
    BY <1>3, <2>1, <2>2 DEF ZeroIs, IInv, ShowsSeen
<1>4. CASE down[1].base \in Ids
  <2>1. Names(ack_state_seq, seen) /\ Names(ack_state_seq, down[1].from)
    BY <1>1 DEF Names
  <2>2. seen \in Versions
    BY Ranges DEF IInv, Versions
  <2> QED
    BY <1>2, <1>4, <2>1, <2>2 DEF IInv, OneScreenPerId, ShowsSeen
<1> QED
  BY <1>2, <1>3, <1>4

(* What the frame at the head of the queue can be.                         *)
LEMMA HeadFrame ==
    ASSUME IInv, down # <<>>
    PROVE  /\ 1 \in DOMAIN down
           /\ Target(down[1]) \in 0..Latest /\ seen <= Target(down[1])
           /\ down[1].type = "full" => IsPush(down[1]) /\ ~IsPart(down[1])
                                       /\ Target(down[1]) = down[1].version
           /\ down[1].type = "chunk" =>
                 /\ IsPush(down[1]) /\ Target(down[1]) = down[1].version
                 /\ down[1].seq \in Nat /\ down[1].total \in Nat /\ down[1].seq < down[1].total
                 /\ down[1].seq > 0 =>
                       pending = [seq |-> down[1].seq, total |-> down[1].total,
                                  data |-> {screens[down[1].version].cells}]
           /\ down[1].type = "diff" =>
                 /\ Target(down[1]) = down[1].to /\ down[1].id \in Ids
                 /\ down[1].from \in 0..Latest
<1>1. 1 \in DOMAIN down /\ down[1] \in Frame
  BY Queue, EmptySeq DEF IInv, Typed
<1>2. Latest \in Nat /\ seen \in Nat
  BY Ranges DEF IInv
<1>3. /\ seen <= Target(down[1]) /\ Target(down[1]) <= Latest
      /\ down[1].type = "diff" => down[1].from <= Latest
  BY <1>1 DEF IInv, InOrder
<1>4. Target(down[1]) \in Nat /\ (down[1].type = "diff" => down[1].from \in Nat /\ down[1].id \in Ids)
  BY <1>1 DEF Frame, FullFrames, ChunkFrames, DiffFrames, Target, Versions
<1>5. down[1].type = "chunk" => down[1].seq \in Nat /\ down[1].total \in Nat
  BY <1>1 DEF Frame, FullFrames, ChunkFrames, DiffFrames
<1>6. down[1].type = "chunk" =>
          /\ down[1].seq < down[1].total
          /\ down[1].seq > 0 => pending = [seq |-> down[1].seq, total |-> down[1].total,
                                           data |-> {screens[down[1].version].cells}]
  BY <1>1 DEF IInv, ChunksWhole
<1>7. Target(down[1]) \in 0..Latest /\ (down[1].type = "diff" => down[1].from \in 0..Latest)
  BY <1>2, <1>3, <1>4
<1> QED
  BY <1>1, <1>3, <1>4, <1>5, <1>6, <1>7 DEF IsPush, IsPart, Target

(* The part of the invariant that is the same for every frame.             *)
LEMMA ReceivedIInv ==
    ASSUME IInv, down # <<>>, down' = Tail(down),
           UNCHANGED <<display, idle, baseline, diff_counter, losses>>,
           client_acks' \subseteq Ids, repaints' \in 0..2,
           initial_state_received' \in BOOLEAN, statesync_mismatch_count' \in 0..(MismatchLimit-1),
           pending' \in Pendings, pending'.seq < pending'.total \/ pending' = NoChunk,
           \/ UNCHANGED <<ack_state_seq, seen, client_state>>
           \/ /\ \/ ack_state_seq' = 0
                 \/ down[1].type = "diff" /\ ack_state_seq' = down[1].id
              /\ seen' = Target(down[1]) /\ client_state' = screens[seen'],
           ZeroIsLastPush', ChunksWhole'
    PROVE  IInv'
<1>1. Drops(1) /\ down' \in Seq(Frame) /\ 1 \in DOMAIN down
  BY HeadDrops DEF IInv
<1>2. Latest' = Latest /\ UNCHANGED screens
  BY DEF display, Latest
<1>3. seen' = seen \/ seen' = Target(down[1])
  OBVIOUS
<1>4. seen' \in 0..Latest' /\ ack_state' \in 0..Latest'
  BY <1>2, <1>3, HeadFrame, Ranges DEF IInv, baseline
<1>5. ack_state_seq' \in Ids \cup {0} /\ client_state' \in Screen
  <2>1. ack_state_seq \in Ids \cup {0} /\ client_state \in Screen
    BY DEF IInv, Typed, TypeOK
  <2>2. down[1].type = "diff" => down[1].id \in Ids
    BY HeadFrame
  <2>3. screens[seen'] \in Screen
    BY <1>2, <1>4, Ranges DEF IInv
  <2> QED
    BY <2>1, <2>2, <2>3
<1>6. Typed'
  <2>1. Len(down) \in Nat /\ MaxInFlight \in Nat
    BY Queue, StateSyncAssumption DEF IInv
  <2>2. Len(down') <= MaxInFlight
    BY <1>1, <2>1 DEF IInv, Typed, TypeOK, Drops
  <2> QED
    BY <1>1, <1>2, <1>4, <1>5, <2>2 DEF IInv, Typed, TypeOK, display, idle, baseline
<1>7. CounterFollows' /\ MainScreens'
  BY <1>2 DEF IInv, CounterFollows, MainScreens, display
<1>8. ShowsSeen'
  BY <1>2 DEF IInv, ShowsSeen
<1>9. InOrder'
  BY <1>1, <1>2, <1>3, DropInOrder
<1>10. OneScreenPerId'
  <2>1. \A k \in DOMAIN down' : \E o \in DOMAIN down : down'[k] = down[o]
    BY <1>1, DropNames
  <2>2. ASSUME NEW id \in Ids, NEW v \in Versions, Names(id, v)'
        PROVE  Names(id, v)
    <3>1. ASSUME ack_state_seq' = id, seen' = v
          PROVE  Names(id, v)
      <4>1. CASE UNCHANGED <<ack_state_seq, seen>>
        BY <3>1, <4>1 DEF Names
      <4>2. CASE /\ \/ ack_state_seq' = 0
                    \/ down[1].type = "diff" /\ ack_state_seq' = down[1].id
                 /\ seen' = Target(down[1])
        <5>1. id # 0
          BY Ranges DEF IInv
        <5>2. down[1].type = "diff" /\ down[1].id = id
          BY <3>1, <4>2, <5>1
        <5> QED
          BY <1>1, <3>1, <4>2, <5>2 DEF Names, Target
      <4> QED
        BY <4>1, <4>2
    <3> QED
      BY <2>1, <2>2, <3>1 DEF Names, Entries, baseline
  <2> QED
    BY <2>2, NoNewNames DEF IInv
<1> QED
  BY <1>6, <1>7, <1>8, <1>9, <1>10 DEF IInv

LEMMA ReceiveIInv ==
    ASSUME IInv, Receive
    PROVE  IInv'
<1>1. /\ down # <<>> /\ down' = Tail(down)
      /\ UNCHANGED <<display, idle, baseline, diff_counter, losses>>
  BY DEF Receive
<1>2. Head(down) = down[1] /\ Drops(1) /\ down' \in Seq(Frame) /\ UNCHANGED screens
  BY <1>1, HeadDrops DEF IInv, display
<1>3. /\ client_acks \subseteq Ids /\ repaints \in 0..2 /\ initial_state_received \in BOOLEAN
      /\ statesync_mismatch_count \in 0..(MismatchLimit-1) /\ MismatchLimit \in Nat \ {0}
      /\ pending \in Pendings /\ (pending.seq < pending.total \/ pending = NoChunk)
  BY StateSyncAssumption DEF IInv, Typed, TypeOK
<1>4. RequestRepaint => repaints' \in 0..2
  BY <1>3 DEF RequestRepaint, Smaller
<1> DEFINE m == down[1]
<1>5. ASSUME IsPush(m), ~IsPart(m), ApplyFullState(m.version),
             pending' \in Pendings, pending'.seq < pending'.total \/ pending' = NoChunk
      PROVE  IInv'
  <2>1. m.version \in 0..Latest /\ Target(m) = m.version
    BY <1>1, <1>5, HeadFrame DEF IsPush, Target
  <2>2. /\ ack_state_seq' = 0 /\ seen' = m.version /\ client_state' = screens[m.version]
        /\ statesync_mismatch_count' = 0 /\ initial_state_received' = TRUE /\ UNCHANGED up
    BY <1>5, <2>1, FullStateShown DEF ApplyFullState, ApplyContents
  <2>3. ZeroIsLastPush' /\ ChunksWhole'
    BY <1>1, <1>2, <1>5, <2>2, PushHandled
  <2>4. statesync_mismatch_count' \in 0..(MismatchLimit-1)
    BY <1>3, <2>2
  <2> QED
    BY <1>1, <1>3, <1>5, <2>1, <2>2, <2>3, <2>4, ReceivedIInv DEF up
<1>6. CASE m.type = "full" /\ ApplyFullState(m.version) /\ UNCHANGED pending
  BY <1>1, <1>3, <1>5, <1>6, HeadFrame
<1>7. CASE m.type = "chunk" /\ HandleChunk(m)
  <2>1. /\ IsPush(m) /\ Target(m) = m.version /\ Target(m) \in 0..Latest
        /\ m.seq \in Nat /\ m.total \in Nat /\ m.seq < m.total
        /\ m.seq > 0 => pending = [seq |-> m.seq, total |-> m.total,
                                   data |-> {screens[m.version].cells}]
    BY <1>1, <1>7, HeadFrame
  <2>2. ChunkFits(m) /\ Assembled(m) = {screens[m.version].cells}
    <3>1. CASE m.seq = 0
      BY <3>1 DEF ChunkFits, Assembled
    <3>2. CASE m.seq > 0
      BY <2>1, <3>2 DEF ChunkFits, Assembled
    <3> QED
      BY <2>1, <3>1, <3>2
  <2>3. screens[m.version].cells \in [Cells -> Vals]
    <3>1. screens[m.version] \in Screen
      BY <2>1, Ranges DEF IInv
    <3> QED
      BY <3>1 DEF Screen
  <2>4. CASE ChunkAdds(m)
    <3>1. /\ pending' = [seq |-> m.seq + 1, total |-> m.total, data |-> {screens[m.version].cells}]
          /\ m.seq + 1 < m.total
          /\ UNCHANGED <<up, initial_state_received, ack_state_seq, client_state,
                         statesync_mismatch_count, seen>>
      BY <2>2, <2>4 DEF ChunkAdds
    <3>2. IsPart(m)
      BY <1>7, <3>1 DEF IsPart
    <3>3. ZeroIsLastPush' /\ ChunksWhole'
      BY <1>1, <1>2, <2>1, <3>1, <3>2, PushHandled
    <3>4. pending' \in Pendings /\ pending'.seq < pending'.total
      BY <2>1, <2>3, <3>1 DEF Pendings
    <3> QED
      BY <1>1, <1>3, <3>1, <3>3, <3>4, ReceivedIInv DEF up
  <2>5. CASE ChunkCompletes(m)
    <3>1. ~Mixed(m) /\ Decompressed(m) = {screens[m.version].cells}
      BY <2>2, FS_Singleton DEF Mixed, Decompressed
    <3>2. pending' = NoChunk /\ ApplyFullState(m.version) /\ m.seq + 1 = m.total
      BY <2>5, <3>1 DEF ChunkCompletes, ApplyFullState
    <3>3. ~IsPart(m)
      BY <2>1, <3>2 DEF IsPart
    <3> QED
      BY <1>5, <2>1, <3>2, <3>3 DEF Pendings
  <2>6. ~ChunkIsStale(m)
    BY <2>2 DEF ChunkIsStale
  <2> QED
    BY <1>7, <2>4, <2>5, <2>6 DEF HandleChunk
<1>8. CASE m.type = "diff" /\ HandleDiff(m) /\ UNCHANGED <<pending, initial_state_received>>
  <2>1. 1 \in DOMAIN down /\ Target(m) = m.to /\ m.id \in Ids /\ m.from \in 0..Latest
        /\ Target(m) \in 0..Latest
    BY <1>1, <1>8, HeadFrame
  <2>2. CASE DiffTooEarly \/ DiffMismatches(m)
    <3>1. /\ UNCHANGED <<client_acks, ack_state_seq, client_state, seen>>
          /\ repaints' \in 0..2 /\ statesync_mismatch_count' \in 0..(MismatchLimit-1)
      <4>1. CASE DiffTooEarly
        BY <1>3, <1>4, <4>1 DEF DiffTooEarly
      <4>2. CASE DiffMismatches(m)
        BY <1>3, <1>4, <4>2 DEF DiffMismatches
      <4> QED
        BY <2>2, <4>1, <4>2
    <3>2. ZeroIsLastPush' /\ ChunksWhole'
      BY <1>1, <1>2, <1>8, <2>1, <3>1, DiffDropped
    <3> QED
      BY <1>1, <1>3, <1>8, <3>1, <3>2, ReceivedIInv
  <2>3. CASE DiffApplies(m)
    <3>1. /\ initial_state_received /\ m.base = ack_state_seq
          /\ client_state' = Apply(screens[m.from], screens[m.to], client_state)
          /\ ack_state_seq' = m.id /\ statesync_mismatch_count' = 0 /\ seen' = m.to
          /\ client_acks' = client_acks \cup {m.id} /\ UNCHANGED repaints
      BY <2>3 DEF DiffApplies
    <3>2. client_state = screens[m.from]
      BY <1>1, <1>8, <3>1, BaseIsShown
    <3>3. client_state' = screens[m.to]
      <4>1. /\ screens[m.from] \in Screen /\ screens[m.to] \in Screen
            /\ ~screens[m.from].alt /\ ~screens[m.to].alt
        BY <2>1, Ranges DEF IInv, MainScreens
      <4> QED
        BY <3>1, <3>2, <4>1, Applied
    <3>4. ack_state_seq' # 0
      BY <2>1, <3>1, Ranges DEF IInv
    <3>5. ZeroIsLastPush' /\ ChunksWhole'
      BY <1>1, <1>2, <1>8, <2>1, <3>4, DiffDropped
    <3>6. statesync_mismatch_count' \in 0..(MismatchLimit-1) /\ client_acks' \subseteq Ids
      BY <1>3, <2>1, <3>1
    <3> QED
      BY <1>1, <1>2, <1>3, <1>8, <2>1, <3>1, <3>3, <3>5, <3>6, ReceivedIInv
  <2> QED
    BY <1>8, <2>2, <2>3 DEF HandleDiff
<1> QED
  BY <1>2, <1>6, <1>7, <1>8 DEF Receive

-----------------------------------------------------------------------------
(* The theorems *)

LEMMA BlankIsScreen == Blank \in Screen /\ ~Blank.alt
BY StateSyncAssumption DEF Blank, Empty, Screen

LEMMA InitIInv ==
    ASSUME PlainSession, Init
    PROVE  IInv
<1>1. /\ screens = [v \in 0..0 |-> Blank] /\ down = <<>>
      /\ processed = FALSE
      /\ dirty_counter = 0 /\ last_dirty = 0 /\ last_current = Nothing /\ ack_dirty = TRUE
      /\ ack_diff_id = 0 /\ ack_state = 0 /\ diff_counter = 0 /\ sent_states = <<>>
      /\ client_acks = {} /\ repaints = 0
      /\ initial_state_received = FALSE
      /\ ack_state_seq = 0 /\ client_state = Blank
      /\ statesync_mismatch_count = 0 /\ pending = NoChunk
      /\ seen = 0 /\ losses = 0
  BY DEF Init, ClientInit, PlainSession
<1>2. Latest = 0
  <2>1. DOMAIN screens = {0}
    BY <1>1
  <2> QED
    BY <2>1, FS_Singleton DEF Latest
<1>3. Len(down) = 0 /\ DOMAIN down = {} /\ Entries = {}
  BY <1>1 DEF Entries
<1>4. Typed
  <2>1. sent_states \in Seq([id : Ids, state : 0..Latest]) /\ down \in Seq(Frame)
        /\ Len(sent_states) = 0
    BY <1>1, EmptySeq
  <2>2. screens \in [0..Latest -> Screen]
    BY <1>1, <1>2, BlankIsScreen
  <2> QED
    BY <1>1, <1>2, <1>3, <2>1, <2>2, BlankIsScreen, StateSyncAssumption
       DEF Typed, TypeOK, Pendings
<1>5. CounterFollows /\ MainScreens /\ ShowsSeen
  BY <1>1, <1>2, BlankIsScreen DEF CounterFollows, MainScreens, ShowsSeen
<1>6. InOrder /\ ChunksWhole
  BY <1>3 DEF InOrder, ChunksWhole
<1>7. OneScreenPerId
  BY <1>1, <1>3, <1>4, Ranges DEF OneScreenPerId, Names
<1>8. ZeroIsLastPush
  BY <1>1, <1>3 DEF ZeroIsLastPush, ZeroIs, LastPush
<1> QED
  BY <1>4, <1>5, <1>6, <1>7, <1>8 DEF IInv

LEMMA NextIInv ==
    ASSUME PlainSession, IInv, [Next]_vars
    PROVE  IInv'
<1>1. CASE UNCHANGED vars
  <2>1. UNCHANGED <<display, idle, baseline, diff_counter, down, up, client, losses>>
    BY <1>1 DEF vars
  <2>2. Latest' = Latest
    BY <2>1 DEF Latest, display
  <2>3. Typed'
    BY <2>1, <2>2 DEF IInv, Typed, TypeOK, display, idle, baseline, up, client
  <2>4. CounterFollows' /\ MainScreens' /\ ShowsSeen' /\ InOrder'
    BY <2>1, <2>2 DEF IInv, CounterFollows, MainScreens, ShowsSeen, InOrder, Target, display, client
  <2>5. OneScreenPerId'
    BY <2>1 DEF IInv, OneScreenPerId, Names, Entries, baseline, client
  <2>6. ZeroIsLastPush'
    BY <2>1 DEF IInv, ZeroIsLastPush, ZeroIs, LastPush, NoPush, IsPush, baseline, client
  <2>7. ChunksWhole'
    BY <2>1 DEF IInv, ChunksWhole, Chunk, display, client
  <2> QED
    BY <2>3, <2>4, <2>5, <2>6, <2>7 DEF IInv
<1>2. CASE Next
  BY <1>2, ReadPtyIInv, AnswerRepaintIInv, AckArrivesIInv, SyncTickIInv, LoseFrameIInv,
     ReceiveIInv DEF Next
<1> QED
  BY <1>1, <1>2

LEMMA AlwaysIInv ==
    ASSUME PlainSession
    PROVE  Spec => []IInv
<1>1. Init => IInv
  BY InitIInv
<1>2. IInv /\ [Next]_vars => IInv'
  BY NextIInv
<1> QED
  BY <1>1, <1>2, PTL DEF Spec

(* Every variable keeps its type; the queue, the ring and the counters     *)
(* keep their bounds.                                                      *)
THEOREM TypeCorrect == PlainSession => (Spec => []TypeOK)
<1> SUFFICES ASSUME PlainSession PROVE Spec => []TypeOK
  OBVIOUS
<1>1. IInv => TypeOK
  BY DEF IInv, Typed
<1> QED
  BY <1>1, AlwaysIInv, PTL

(* A diff the client applies was computed from the screen the client       *)
(* shows: an id that matches means a baseline that matches, whatever was   *)
(* lost, delayed or acknowledged late.                                     *)
THEOREM DiffsFit == PlainSession => (Spec => []DiffFitsBaseline)
<1> SUFFICES ASSUME PlainSession PROVE Spec => []DiffFitsBaseline
  OBVIOUS
<1>1. IInv => DiffFitsBaseline
  <2> SUFFICES ASSUME IInv, down # <<>>, initial_state_received,
                      Head(down).type = "diff", Head(down).base = ack_state_seq
               PROVE  client_state = screens[Head(down).from]
    BY DEF DiffFitsBaseline
  <2>1. Head(down) = down[1]
    BY EmptySeq DEF IInv, Typed
  <2> QED
    BY <2>1, BaseIsShown
<1> QED
  BY <1>1, AlwaysIInv, PTL

(* What the server has recorded under the id the client stands at is what  *)
(* the client shows, so any ack that arrives makes a true baseline.        *)
THEOREM RecordsHold == PlainSession => (Spec => []RecordsTruth)
<1> SUFFICES ASSUME PlainSession PROVE Spec => []RecordsTruth
  OBVIOUS
<1>1. IInv => RecordsTruth
  <2> SUFFICES ASSUME IInv, NEW i \in Entries, sent_states[i].id = ack_state_seq
               PROVE  screens[sent_states[i].state] = client_state
    BY DEF RecordsTruth
  <2>1. sent_states[i].id \in Ids /\ sent_states[i].state \in Versions /\ seen \in Versions
    BY Entered, Ranges DEF IInv, Versions
  <2>2. Names(ack_state_seq, sent_states[i].state) /\ Names(ack_state_seq, seen)
    BY DEF Names
  <2>3. sent_states[i].state = seen
    BY <2>1, <2>2 DEF IInv, OneScreenPerId
  <2> QED
    BY <2>3 DEF IInv, ShowsSeen
<1> QED
  BY <1>1, AlwaysIInv, PTL

(* What a frame makes the client show is no older than what it showed.     *)
LEMMA NeverBack ==
    ASSUME IInv, Receive
    PROVE  seen' \in 0..Latest /\ seen <= seen'
<1>1. down # <<>> /\ Head(down) = down[1]
  BY HeadDrops DEF Receive, IInv
<1>2. seen' = seen \/ seen' = Target(down[1])
  <2>1. CASE down[1].type = "full" /\ ApplyFullState(down[1].version)
    BY <2>1 DEF ApplyFullState, ApplyContents, Target
  <2>2. CASE down[1].type = "chunk" /\ HandleChunk(down[1])
    BY <2>2 DEF HandleChunk, ChunkAdds, ChunkCompletes, ChunkIsStale, ApplyContents, Target
  <2>3. CASE down[1].type = "diff" /\ HandleDiff(down[1])
    BY <2>3 DEF HandleDiff, DiffTooEarly, DiffMismatches, DiffApplies, Target
  <2> QED
    BY <1>1, <2>1, <2>2, <2>3 DEF Receive
<1>3. Target(down[1]) \in 0..Latest /\ seen <= Target(down[1]) /\ seen \in 0..Latest
  BY <1>1, HeadFrame, Ranges DEF IInv
<1> QED
  BY <1>2, <1>3

LEMMA MirrorInit ==
    ASSUME PlainSession, Init
    PROVE  Mirror!Init
<1>1. screens = [v \in 0..0 |-> Blank] /\ client_state = Blank /\ seen = 0
  BY DEF Init, ClientInit, PlainSession
<1>2. screens \in [0..0 -> Screen] /\ 0 \in 0..1
  BY <1>1, BlankIsScreen
<1>3. screens \in UNION {[0..n -> Screen] : n \in 0..1}
  BY <1>2
<1> QED
  BY <1>1, <1>3 DEF Mirror!Init

LEMMA MirrorStep ==
    ASSUME PlainSession, IInv, [Next]_vars
    PROVE  [Mirror!Next]_(Mirror!vars)
<1>1. CASE UNCHANGED <<screens, client>>
  BY <1>1 DEF Mirror!vars, client
<1>2. ASSUME NEW s \in Screen, ReadPty(s), screens' # screens
      PROVE  Mirror!Next
  <2>1. /\ screens' = [v \in 0..(Latest+1) |-> IF v = Latest + 1 THEN s ELSE screens[v]]
        /\ UNCHANGED <<client_state, seen>>
    BY <1>2 DEF ReadPty, client
  <2>2. Latest \in Nat /\ DOMAIN screens = 0..Latest
    BY Ranges DEF IInv
  <2>3. Mirror!Version = 0..Latest
    BY <2>2 DEF Mirror!Version
  <2>4. Latest + 1 \in {v + 1 : v \in 0..Latest} \ (0..Latest)
    BY <2>2
  <2>5. 0..(Latest+1) = (0..Latest) \cup {Latest + 1}
    BY <2>2
  <2>6. screens' = [v \in (0..Latest) \cup {Latest + 1} |-> IF v = Latest + 1 THEN s ELSE screens[v]]
    BY <2>1, <2>5
  <2>7. Mirror!Display(s)
    BY <2>1, <2>3, <2>4, <2>6 DEF Mirror!Display
  <2> QED
    BY <2>7 DEF Mirror!Next
<1>3. CASE Receive
  <2>1. seen' \in 0..Latest /\ seen <= seen' /\ UNCHANGED screens
    BY <1>3, NeverBack DEF Receive, display
  <2>2. client_state' = screens[seen']
    BY <1>3, <2>1, ReceiveIInv DEF IInv, ShowsSeen
  <2>3. Mirror!Version = 0..Latest /\ Latest \in Nat
    BY Ranges DEF IInv, Mirror!Version
  <2>4. Mirror!Show(seen')
    BY <2>1, <2>2, <2>3 DEF Mirror!Show
  <2> QED
    BY <2>1, <2>3, <2>4 DEF Mirror!Next
<1>4. CASE UNCHANGED vars
  BY <1>1, <1>4 DEF vars, display
<1>5. ASSUME NEW s \in Screen, ReadPty(s), screens' = screens
      PROVE  UNCHANGED <<screens, client>>
  BY <1>5 DEF ReadPty
<1>6. ASSUME AnswerRepaint \/ (\E id \in Ids : AckArrives(id)) \/ SyncTick \/ LoseFrame
      PROVE  UNCHANGED <<screens, client>>
  BY <1>6 DEF AnswerRepaint, AckArrives, SyncTick, LoseFrame, display
<1> QED
  BY <1>1, <1>2, <1>3, <1>4, <1>5, <1>6 DEF Next

(* The client shows nothing but screens the program has displayed, and     *)
(* never an older one after a newer one: StateSync implements the mirror.  *)
THEOREM ShowsDisplayed == PlainSession => (Spec => ShowsWhatWasDisplayed)
<1> SUFFICES ASSUME PlainSession PROVE Spec => ShowsWhatWasDisplayed
  OBVIOUS
<1>1. Init => Mirror!Init
  BY MirrorInit
<1>2. IInv /\ [Next]_vars => [Mirror!Next]_(Mirror!vars)
  BY MirrorStep
<1> QED
  BY <1>1, <1>2, AlwaysIInv, PTL DEF Spec, ShowsWhatWasDisplayed, Mirror!Spec
=============================================================================
