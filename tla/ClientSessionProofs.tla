------------------------- MODULE ClientSessionProofs -------------------------
(***************************************************************************)
(* The way of a typed byte through the client.  All there is between the   *)
(* keyboard and the transport stands in one line: what was sent, the       *)
(* session's data channel, what the forwarder is about to send, the prefix *)
(* kept back, and the keyboard channel.  A chunk goes through the escape   *)
(* state machine byte by byte, so what a scan makes of it is shown by      *)
(* going to the first byte where it would be wrong.                        *)
(*                                                                         *)
(* At the end, the terminal that the session's tasks draw on               *)
(* (ClientScreen).                                                         *)
(***************************************************************************)
EXTENDS ClientSession, ClientScreen, SequenceTheorems, WellFoundedInduction, TLAPS

-----------------------------------------------------------------------------
(* The inductive invariant *)

Typeable == [at : Nat \ {0}, key : {"esc", "dot", "char"}]

Typed ==
    /\ kb \in Seq(Seq(Typeable)) /\ tx \in Seq(Seq(Typeable))
    /\ held \in Typeable \cup {NoByte} /\ hand \in [bytes : Seq(Typeable), quits : BOOLEAN]
    /\ sent \in Seq(Nat \ {0}) /\ typed \in Nat

Increasing(s)  == \A i, j \in DOMAIN s : i < j => s[i].at < s[j].at
Before(S, T)   == \A x \in S, y \in T : x.at < y.at
Rising(s)      == \A i, j \in DOMAIN s : i < j => s[i] < s[j]
Over(s, T)     == \A i \in DOMAIN s, y \in T : s[i] < y.at

(* The chunks of a channel, each after the one before it.                  *)
Chain(q) ==
    /\ \A i \in DOMAIN q : Increasing(q[i])
    /\ \A i, j \in DOMAIN q : i < j => Before(Range(q[i]), Range(q[j]))

(* What was sent, the chunks of the channel, what is about to be sent, the *)
(* prefix kept back and the chunks read stand in the order they were       *)
(* typed, all by the time of n bytes.                                      *)
Ordered(s, t, h, b, k, n) ==
    /\ Rising(s) /\ Chain(t) /\ Increasing(h) /\ Chain(k)
    /\ Over(s, InSeqs(t) \cup Range(h) \cup b \cup InSeqs(k))
    /\ Before(InSeqs(t), Range(h) \cup b \cup InSeqs(k))
    /\ Before(Range(h), b \cup InSeqs(k))
    /\ Before(b, InSeqs(k))
    /\ \A x \in InSeqs(t) \cup Range(h) \cup b \cup InSeqs(k) : x.at <= n
    /\ \A i \in DOMAIN s : s[i] <= n

Back == {held} \ {NoByte}

InLine == Ordered(sent, tx, hand.bytes, Back, kb, typed)

(* Only the forwarder that holds the receiver is about to send, only who   *)
(* holds it keeps a prefix back, the listener holds it only in a           *)
(* countdown, and a token outlives its session only at the end.            *)
Turns ==
    /\ hand # NoHand => holder = "forwarder"
    /\ held # NoByte => holder \in {"forwarder", "listener"}
    /\ holder = "listener" \/ waiting = "listener" => stage \in {"counting", "counted"}
    /\ token /\ stage # "closing" => exit_token

(* The file has the last session unless something is said to have come in  *)
(* between, and an attempt asks for what the file has.                     *)
Asks ==
    /\ last_session # None /\ ~disturbed => uuid_file = last_session
    /\ stage \in {"exchanging", "prompting"} => requested = uuid_file

IInv == Typed /\ InLine /\ Turns /\ Asks

-----------------------------------------------------------------------------
(* Sequences of bytes *)

LEMMA NoByteIsNotTyped == NoByte \notin Typeable /\ NoByte.key = "none"
  BY DEF NoByte, Typeable

LEMMA AppendByte ==
    ASSUME NEW s \in Seq(Typeable), NEW b \in Typeable,
           Increasing(s), Before(Range(s), {b})
    PROVE  /\ Append(s, b) \in Seq(Typeable) /\ Range(Append(s, b)) = Range(s) \cup {b}
           /\ Increasing(Append(s, b))
  <1> DEFINE t == Append(s, b)
  <1>1. /\ t \in Seq(Typeable) /\ Len(s) \in Nat /\ DOMAIN s = 1..Len(s)
        /\ DOMAIN t = 1..(Len(s) + 1) /\ t[Len(s) + 1] = b
        /\ \A i \in 1..Len(s) : t[i] = s[i]
    OBVIOUS
  <1> HIDE DEF t
  <1>2. Range(t) = Range(s) \cup {b}
    <2>1. Len(s) + 1 \in DOMAIN t /\ \A i \in DOMAIN s : i \in DOMAIN t
      BY <1>1
    <2>2. \A i \in DOMAIN t : i \in DOMAIN s \/ i = Len(s) + 1
      BY <1>1
    <2> QED BY <1>1, <2>1, <2>2 DEF Range
  <1>3. Increasing(t)
    <2> SUFFICES ASSUME NEW i \in DOMAIN t, NEW j \in DOMAIN t, i < j
                 PROVE  t[i].at < t[j].at
      BY DEF Increasing
    <2>1. i \in DOMAIN s /\ t[i] = s[i]
      BY <1>1
    <2>2. CASE j \in DOMAIN s
      BY <1>1, <2>1, <2>2 DEF Increasing
    <2>3. CASE j = Len(s) + 1
      <3>1. s[i] \in Range(s)
        BY <2>1 DEF Range
      <3> QED BY <1>1, <2>1, <2>3, <3>1 DEF Before
    <2> QED BY <1>1, <2>2, <2>3
  <1> QED BY <1>1, <1>2, <1>3 DEF t

LEMMA AppendTwo ==
    ASSUME NEW S, NEW s \in Seq(S), NEW x \in S, NEW y \in S
    PROVE  s \o <<x, y>> = Append(Append(s, x), y)
  OBVIOUS

LEMMA NothingInOrder ==
    /\ <<>> \in Seq(Typeable) /\ Range(<<>>) = {} /\ Increasing(<<>>)
    /\ DOMAIN <<>> = {} /\ Len(<<>>) = 0
  BY DEF Range, Increasing

-----------------------------------------------------------------------------
(* One byte through the escape state machine *)

Escapes == [held : Typeable \cup {NoByte}, bytes : Seq(Typeable), quits : BOOLEAN]

(* What the state machine has made of the bytes in S, of which h was kept  *)
(* back before: they are in their order in what goes on and what is kept   *)
(* back, but for repeated prefixes and a sequence that quits.              *)
Digested(s, h, S) ==
    /\ s \in Escapes
    /\ Range(s.bytes) \subseteq S /\ s.held \in S \cup {NoByte}
    /\ Increasing(s.bytes) /\ Before(Range(s.bytes), {s.held} \ {NoByte})
    /\ \A b \in S : \/ b \in Range(s.bytes) \/ b = s.held \/ s.quits
                    \/ b.key = "esc" /\ b # h

LEMMA EscapeDigests ==
    ASSUME NEW S \in SUBSET Typeable, NEW h \in S \cup {NoByte},
           NEW c \in Typeable, Before(S, {c}),
           NEW s, Digested(s, h, S)
    PROVE  Digested(Escape(s, c), h, S \cup {c})
  <1> DEFINE e == Escape(s, c)
  <1>1. /\ s \in Escapes /\ s.bytes \in Seq(Typeable) /\ s.quits \in BOOLEAN
        /\ s.held \in S \cup {NoByte} /\ c # NoByte /\ c \notin S /\ c.key # "none"
        /\ c.key \in {"esc", "dot", "char"}
    <2>1. c.at \in Nat
      BY DEF Typeable
    <2> QED BY <2>1, NoByteIsNotTyped DEF Digested, Escapes, Before, Typeable
  <1>2. c # h
    BY <1>1
  <1>3. Before(Range(s.bytes), {c})
    BY DEF Digested, Before
  <1>4. CASE s.quits
    <2>1. e = s
      BY <1>4 DEF Escape
    <2> QED BY <1>4, <2>1 DEF Digested
  <1>5. CASE ~s.quits /\ s.held = NoByte /\ c.key = "esc"
    <2>1. e = [s EXCEPT !.held = c]
      BY <1>5 DEF Escape
    <2>2. /\ e \in Escapes /\ e.held = c /\ e.bytes = s.bytes /\ e.quits = s.quits
      BY <1>1, <2>1 DEF Escapes
    <2> HIDE DEF e
    <2>3. NoByte \notin S
      BY NoByteIsNotTyped
    <2>4. Range(e.bytes) \subseteq S \cup {c} /\ e.held \in S \cup {c} /\ Increasing(e.bytes)
      BY <2>2 DEF Digested
    <2>5. Before(Range(e.bytes), {e.held} \ {NoByte})
      BY <1>3, <2>2 DEF Before
    <2>6. ASSUME NEW b \in S \cup {c}
          PROVE  b \in Range(e.bytes) \/ b = e.held \/ e.quits \/ (b.key = "esc" /\ b # h)
      <3>1. CASE b = c
        BY <3>1, <2>2
      <3>2. CASE b \in S
        BY <3>2, <1>5, <2>2, <2>3 DEF Digested
      <3> QED BY <3>1, <3>2
    <2>7. Digested(e, h, S \cup {c})
      BY <2>2, <2>4, <2>5, <2>6 DEF Digested
    <2> QED BY <2>7 DEF e
  <1>6. CASE ~s.quits /\ s.held = NoByte /\ c.key # "esc"
    <2>1. e = [s EXCEPT !.bytes = Append(s.bytes, c)]
      BY <1>6 DEF Escape
    <2>2. /\ Append(s.bytes, c) \in Seq(Typeable) /\ Increasing(Append(s.bytes, c))
          /\ Range(Append(s.bytes, c)) = Range(s.bytes) \cup {c}
      BY <1>1, <1>3, AppendByte DEF Digested
    <2>3. /\ e \in Escapes /\ e.held = NoByte /\ e.bytes = Append(s.bytes, c)
          /\ e.quits = s.quits
      BY <1>1, <1>6, <2>1, <2>2 DEF Escapes
    <2> HIDE DEF e
    <2>4. Digested(e, h, S \cup {c})
      BY <1>6, <2>2, <2>3, NoByteIsNotTyped DEF Digested, Before
    <2> QED BY <2>4 DEF e
  <1>7. CASE ~s.quits /\ s.held # NoByte /\ c.key = "dot"
    <2>1. e = [s EXCEPT !.held = NoByte, !.quits = TRUE]
      BY <1>7 DEF Escape
    <2>2. /\ e \in Escapes /\ e.held = NoByte /\ e.bytes = s.bytes /\ e.quits
      BY <1>1, <2>1 DEF Escapes
    <2> HIDE DEF e
    <2>3. Digested(e, h, S \cup {c})
      BY <1>7, <2>2 DEF Digested, Before
    <2> QED BY <2>3 DEF e
  <1>8. CASE ~s.quits /\ s.held # NoByte /\ c.key = "esc"
    <2>1. e = s
      BY <1>8 DEF Escape
    <2> QED BY <1>2, <1>8, <2>1 DEF Digested
  <1>9. CASE ~s.quits /\ s.held # NoByte /\ c.key = "char"
    <2> DEFINE one == Append(s.bytes, s.held)  two == Append(one, c)
    <2>1. e = [s EXCEPT !.held = NoByte, !.bytes = s.bytes \o <<s.held, c>>]
      BY <1>9 DEF Escape
    <2>2. s.held \in Typeable /\ s.held \in S /\ Before(Range(s.bytes), {s.held})
      BY <1>1, <1>9 DEF Digested
    <2>3. /\ one \in Seq(Typeable) /\ Increasing(one) /\ Range(one) = Range(s.bytes) \cup {s.held}
      BY <1>1, <2>2, AppendByte DEF Digested
    <2>4. Before(Range(one), {c})
      BY <1>3, <2>2, <2>3 DEF Before
    <2>5. /\ two \in Seq(Typeable) /\ Increasing(two) /\ Range(two) = Range(one) \cup {c}
      <3> HIDE DEF one
      <3> QED BY <2>3, <2>4, AppendByte
    <2>6. s.bytes \o <<s.held, c>> = two
      BY <1>1, <2>2, AppendTwo
    <2> HIDE DEF one, two
    <2>7. /\ e \in Escapes /\ e.held = NoByte /\ e.bytes = two /\ e.quits = s.quits
      BY <1>1, <2>1, <2>5, <2>6 DEF Escapes
    <2> HIDE DEF e
    <2>8. Digested(e, h, S \cup {c})
      BY <1>9, <2>2, <2>3, <2>5, <2>7 DEF Digested, Before
    <2> QED BY <2>8 DEF e
  <1> QED BY <1>1, <1>4, <1>5, <1>6, <1>7, <1>8, <1>9

-----------------------------------------------------------------------------
(* A chunk through the escape state machine *)

LEMMA LeastElement ==
    ASSUME NEW S \in SUBSET Nat, S # {}
    PROVE  \E x \in S : \A y \in S : x <= y
  <1> DEFINE Less == {p \in Nat \X Nat : p[1] < p[2]}
  <1>1. IsWellFoundedOn(Less, Nat)
    <2>1. Less = OpToRel(<, Nat)
      BY DEF OpToRel
    <2> QED BY <2>1, NatLessThanWellFounded
  <1>2. PICK x \in S : \A y \in S : ~ (<<y, x>> \in Less)
    BY <1>1, WFMin
  <1>3. ASSUME NEW y \in S PROVE x <= y
    <2>1. ~(y < x)
      BY <1>2
    <2> QED BY <2>1
  <1> QED BY <1>3

Fresh(h) == [held |-> h, bytes |-> <<>>, quits |-> FALSE]

(* f[n] is what the first n bytes of a chunk make of h kept back.          *)
Unfolds(f, h, chunk, m) ==
    f = [n \in 0..m |-> IF n = 0 THEN Fresh(h) ELSE Escape(f[n - 1], chunk[n])]

(* The recursion of Scan has a solution.                                   *)
LEMMA ScanUnfolds ==
    ASSUME NEW h, NEW chunk, NEW m \in Nat
    PROVE  \E f : Unfolds(f, h, chunk, m)
  <1> SUFFICES ASSUME ~ \E f : Unfolds(f, h, chunk, m)
               PROVE  FALSE
    OBVIOUS
  <1> DEFINE Stuck == {k \in Nat : ~ \E f : Unfolds(f, h, chunk, k)}
  <1>1. PICK k \in Stuck : \A y \in Stuck : k <= y
    <2>1. Stuck \in SUBSET Nat /\ Stuck # {}
      OBVIOUS
    <2> HIDE DEF Stuck
    <2> QED BY <2>1, LeastElement
  <1>2. k \in Nat /\ ~ \E f : Unfolds(f, h, chunk, k)
    OBVIOUS
  <1>3. CASE k = 0
    <2> DEFINE g == [n \in 0..0 |-> Fresh(h)]
    <2>1. g = [n \in 0..0 |-> IF n = 0 THEN Fresh(h) ELSE Escape(g[n - 1], chunk[n])]
      OBVIOUS
    <2>2. Unfolds(g, h, chunk, 0)
      BY <2>1 DEF Unfolds
    <2> QED BY <1>2, <1>3, <2>2
  <1>4. CASE k # 0
    <2>1. k - 1 \in Nat /\ ~(k <= k - 1)
      BY <1>2, <1>4
    <2>2. k - 1 \notin Stuck
      BY <1>1, <2>1
    <2>3. PICK f : Unfolds(f, h, chunk, k - 1)
      BY <2>1, <2>2
    <2> DEFINE g == [n \in 0..k |-> IF n = k THEN Escape(f[k - 1], chunk[k]) ELSE f[n]]
               G == [n \in 0..k |-> IF n = 0 THEN Fresh(h) ELSE Escape(g[n - 1], chunk[n])]
    <2>4. ASSUME NEW n \in 0..k PROVE g[n] = G[n]
      <3>1. CASE n = k
        <4>1. k - 1 \in 0..k /\ k - 1 # k /\ k # 0
          BY <1>2, <1>4
        <4> QED BY <3>1, <4>1
      <3>2. CASE n = 0
        BY <1>4, <3>2, <2>1, <2>3 DEF Unfolds
      <3>3. CASE n # 0 /\ n # k
        <4>1. n \in 0..(k - 1) /\ n - 1 \in 0..(k - 1) /\ n - 1 \in 0..k /\ n - 1 # k
          BY <1>2, <3>3
        <4>2. f[n] = Escape(f[n - 1], chunk[n])
          BY <2>3, <3>3, <4>1 DEF Unfolds
        <4> QED BY <3>3, <4>1, <4>2
      <3> QED BY <3>1, <3>2, <3>3
    <2>5. DOMAIN g = DOMAIN G /\ g = G
      BY <2>4
    <2>6. Unfolds(g, h, chunk, k)
      BY <2>5 DEF Unfolds
    <2> QED BY <1>2, <2>6
  <1> QED BY <1>3, <1>4

LEMMA ScanIsUnfolded ==
    ASSUME NEW chunk \in Seq(Typeable)
    PROVE  \E f : Unfolds(f, held, chunk, Len(chunk)) /\ Scan(chunk) = f[Len(chunk)]
  <1> DEFINE f == CHOOSE s : Unfolds(s, held, chunk, Len(chunk))
  <1>1. Len(chunk) \in Nat
    OBVIOUS
  <1>2. Unfolds(f, held, chunk, Len(chunk))
    BY <1>1, ScanUnfolds
  <1>3. Scan(chunk) = f[Len(chunk)]
    BY DEF Scan, Unfolds, Fresh
  <1> QED BY <1>2, <1>3

(* The first n bytes of a chunk, with the one kept back before them.       *)
Seen(h, chunk, n) == ({h} \ {NoByte}) \cup {chunk[i] : i \in 1..n}

LEMMA ScanDigests ==
    ASSUME NEW chunk \in Seq(Typeable), Increasing(chunk),
           held \in Typeable \cup {NoByte}, Before(Back, Range(chunk))
    PROVE  Digested(Scan(chunk), held, Back \cup Range(chunk))
  <1>1. PICK f : Unfolds(f, held, chunk, Len(chunk)) /\ Scan(chunk) = f[Len(chunk)]
    BY ScanIsUnfolded
  <1> DEFINE Right(n) == Digested(f[n], held, Seen(held, chunk, n))
             Wrong == {n \in 0..Len(chunk) : ~Right(n)}
  <1>2. Len(chunk) \in Nat /\ DOMAIN chunk = 1..Len(chunk)
    OBVIOUS
  <1>3. Right(0)
    <2>1. f[0] = Fresh(held)
      BY <1>1, <1>2 DEF Unfolds
    <2>2. Seen(held, chunk, 0) = {held} \ {NoByte}
      BY DEF Seen
    <2>3. /\ Fresh(held) \in Escapes /\ Fresh(held).held = held /\ Fresh(held).bytes = <<>>
      BY NothingInOrder DEF Fresh, Escapes
    <2>4. Digested(Fresh(held), held, {held} \ {NoByte})
      BY <2>3, NothingInOrder DEF Digested, Before
    <2> QED BY <2>1, <2>2, <2>4
  <1>4. ASSUME NEW n \in 1..Len(chunk), Right(n - 1) PROVE Right(n)
    <2> DEFINE S == Seen(held, chunk, n - 1)  c == chunk[n]
    <2>1. n \in 0..Len(chunk) /\ n # 0 /\ n - 1 \in 0..Len(chunk) /\ n \in DOMAIN chunk
          /\ n \in Nat
      BY <1>2
    <2>2. f[n] = Escape(f[n - 1], c)
      BY <1>1, <2>1 DEF Unfolds
    <2>3. \A i \in 1..(n - 1) : i \in DOMAIN chunk /\ i < n
      BY <1>2
    <2>4. c \in Typeable /\ c \in Range(chunk)
      BY <2>1 DEF Range
    <2>5. S \in SUBSET Typeable
      BY <2>3 DEF Seen
    <2>6. held \in S \cup {NoByte}
      BY DEF Seen
    <2>7. Before(S, {c})
      BY <2>1, <2>3, <2>4 DEF Seen, Before, Back, Increasing
    <2>8. Seen(held, chunk, n) = S \cup {c}
      <3>1. \A i \in 1..n : i \in 1..(n - 1) \/ i = n
        OBVIOUS
      <3>2. n \in 1..n /\ \A i \in 1..(n - 1) : i \in 1..n
        BY <2>1
      <3> QED BY <3>1, <3>2 DEF Seen
    <2>9. Digested(f[n - 1], held, S)
      BY <1>4
    <2> HIDE DEF S, c
    <2>10. Digested(Escape(f[n - 1], c), held, S \cup {c})
      BY <2>4, <2>5, <2>6, <2>7, <2>9, EscapeDigests
    <2> QED BY <2>2, <2>8, <2>10
  <1>5. Right(Len(chunk))
    <2> HIDE DEF Right
    <2> SUFFICES ASSUME ~Right(Len(chunk)) PROVE FALSE
      OBVIOUS
    <2>1. Wrong \in SUBSET Nat /\ Wrong # {}
      BY <1>2
    <2>2. PICK n \in Wrong : \A y \in Wrong : n <= y
      <3> HIDE DEF Wrong
      <3> QED BY <2>1, LeastElement
    <2>3. n \in 0..Len(chunk) /\ n # 0 /\ ~Right(n)
      BY <1>3
    <2>4. n \in 1..Len(chunk) /\ n - 1 \in 0..Len(chunk) /\ ~(n <= n - 1)
      BY <1>2, <2>3
    <2>5. Right(n - 1)
      BY <2>2, <2>4
    <2> QED BY <1>4, <2>3, <2>4, <2>5
  <1>6. Seen(held, chunk, Len(chunk)) = Back \cup Range(chunk)
    BY <1>2 DEF Seen, Back, Range
  <1> QED BY <1>1, <1>5, <1>6

-----------------------------------------------------------------------------
(* Channels of chunks *)

LEMMA InSeqsHas ==
    ASSUME NEW q, NEW x
    PROVE  x \in InSeqs(q) <=> \E i \in DOMAIN q : x \in Range(q[i])
  BY DEF InSeqs, Range

LEMMA NoChunks ==
    /\ <<>> \in Seq(Seq(Typeable)) /\ InSeqs(<<>>) = {} /\ Chain(<<>>)
    /\ \A b \in BOOLEAN : [bytes |-> <<>>, quits |-> b] \in [bytes : Seq(Typeable), quits : BOOLEAN]
  BY NothingInOrder DEF InSeqs, Chain

LEMMA FirstChunk ==
    ASSUME NEW q \in Seq(Seq(Typeable)), q # <<>>
    PROVE  /\ Head(q) \in Seq(Typeable) /\ Tail(q) \in Seq(Seq(Typeable))
           /\ InSeqs(q) = Range(Head(q)) \cup InSeqs(Tail(q))
           /\ Chain(q) => /\ Increasing(Head(q)) /\ Chain(Tail(q))
                          /\ Before(Range(Head(q)), InSeqs(Tail(q)))
  <1> DEFINE h == Head(q)  t == Tail(q)
  <1>1. /\ h \in Seq(Typeable) /\ t \in Seq(Seq(Typeable)) /\ Len(q) \in Nat \ {0}
        /\ DOMAIN q = 1..Len(q) /\ DOMAIN t = 1..(Len(q) - 1) /\ h = q[1]
        /\ \A i \in 1..(Len(q) - 1) : t[i] = q[i + 1]
    OBVIOUS
  <1> HIDE DEF h, t
  <1>2. /\ 1 \in DOMAIN q
        /\ \A i \in DOMAIN t : i + 1 \in DOMAIN q /\ 1 < i + 1 /\ t[i] = q[i + 1]
    BY <1>1
  <1>3. \A i \in DOMAIN q : i = 1 \/ (i - 1 \in DOMAIN t /\ t[i - 1] = q[i])
    BY <1>1
  <1>4. InSeqs(q) = Range(h) \cup InSeqs(t)
    <2>1. ASSUME NEW x \in InSeqs(q) PROVE x \in Range(h) \cup InSeqs(t)
      <3>1. PICK i \in DOMAIN q : x \in Range(q[i])
        BY <2>1, InSeqsHas
      <3>2. CASE i = 1
        BY <1>1, <3>1, <3>2
      <3>3. CASE i - 1 \in DOMAIN t /\ t[i - 1] = q[i]
        BY <3>1, <3>3, InSeqsHas
      <3> QED BY <1>3, <3>2, <3>3
    <2>2. ASSUME NEW x \in Range(h) PROVE x \in InSeqs(q)
      BY <1>1, <1>2, <2>2, InSeqsHas
    <2>3. ASSUME NEW x \in InSeqs(t) PROVE x \in InSeqs(q)
      BY <1>2, <2>3, InSeqsHas
    <2> QED BY <2>1, <2>2, <2>3
  <1>5. ASSUME Chain(q)
        PROVE  Increasing(h) /\ Chain(t) /\ Before(Range(h), InSeqs(t))
    <2>1. Increasing(h)
      BY <1>1, <1>2, <1>5 DEF Chain
    <2>2. Chain(t)
      <3>1. \A i \in DOMAIN t : Increasing(t[i])
        BY <1>2, <1>5 DEF Chain
      <3>2. ASSUME NEW i \in DOMAIN t, NEW j \in DOMAIN t, i < j
            PROVE  Before(Range(t[i]), Range(t[j]))
        <4>1. i + 1 < j + 1
          BY <1>1, <3>2
        <4> QED BY <1>2, <1>5, <3>2, <4>1 DEF Chain
      <3> QED BY <3>1, <3>2 DEF Chain
    <2>3. Before(Range(h), InSeqs(t))
      <3> SUFFICES ASSUME NEW x \in Range(h), NEW y \in InSeqs(t) PROVE x.at < y.at
        BY DEF Before
      <3>1. PICK i \in DOMAIN t : y \in Range(t[i])
        BY InSeqsHas
      <3>2. Before(Range(q[1]), Range(q[i + 1])) /\ x \in Range(q[1]) /\ y \in Range(q[i + 1])
        BY <1>1, <1>2, <1>5, <3>1 DEF Chain
      <3> QED BY <3>2 DEF Before
    <2> QED BY <2>1, <2>2, <2>3
  <1> QED BY <1>1, <1>4, <1>5 DEF h, t

LEMMA AnotherChunk ==
    ASSUME NEW q \in Seq(Seq(Typeable)), NEW c \in Seq(Typeable)
    PROVE  /\ Append(q, c) \in Seq(Seq(Typeable))
           /\ InSeqs(Append(q, c)) = InSeqs(q) \cup Range(c)
           /\ Chain(q) /\ Increasing(c) /\ Before(InSeqs(q), Range(c)) => Chain(Append(q, c))
  <1> DEFINE t == Append(q, c)
  <1>1. /\ t \in Seq(Seq(Typeable)) /\ Len(q) \in Nat /\ DOMAIN q = 1..Len(q)
        /\ DOMAIN t = 1..(Len(q) + 1) /\ t[Len(q) + 1] = c
        /\ \A i \in 1..Len(q) : t[i] = q[i]
    OBVIOUS
  <1> HIDE DEF t
  <1>2. /\ Len(q) + 1 \in DOMAIN t
        /\ \A i \in DOMAIN q : i \in DOMAIN t /\ t[i] = q[i] /\ i < Len(q) + 1
    BY <1>1
  <1>3. \A i \in DOMAIN t : i \in DOMAIN q \/ i = Len(q) + 1
    BY <1>1
  <1>4. InSeqs(t) = InSeqs(q) \cup Range(c)
    <2>1. ASSUME NEW x \in InSeqs(t) PROVE x \in InSeqs(q) \cup Range(c)
      <3>1. PICK i \in DOMAIN t : x \in Range(t[i])
        BY <2>1, InSeqsHas
      <3>2. CASE i \in DOMAIN q
        BY <1>2, <3>1, <3>2, InSeqsHas
      <3>3. CASE i = Len(q) + 1
        BY <1>1, <3>1, <3>3
      <3> QED BY <1>3, <3>2, <3>3
    <2>2. ASSUME NEW x \in Range(c) PROVE x \in InSeqs(t)
      BY <1>1, <1>2, <2>2, InSeqsHas
    <2>3. ASSUME NEW x \in InSeqs(q) PROVE x \in InSeqs(t)
      BY <1>2, <2>3, InSeqsHas
    <2> QED BY <2>1, <2>2, <2>3
  <1>5. ASSUME Chain(q), Increasing(c), Before(InSeqs(q), Range(c))
        PROVE  Chain(t)
    <2>1. \A i \in DOMAIN t : Increasing(t[i])
      BY <1>1, <1>2, <1>3, <1>5 DEF Chain
    <2>2. ASSUME NEW i \in DOMAIN t, NEW j \in DOMAIN t, i < j
          PROVE  Before(Range(t[i]), Range(t[j]))
      <3>1. i \in DOMAIN q
        BY <1>1, <2>2
      <3>2. CASE j \in DOMAIN q
        BY <1>2, <1>5, <2>2, <3>1, <3>2 DEF Chain
      <3>3. CASE j = Len(q) + 1
        <4>1. \A x \in Range(q[i]) : x \in InSeqs(q)
          BY <3>1, InSeqsHas
        <4>2. t[i] = q[i] /\ t[j] = c
          BY <1>1, <1>2, <3>1, <3>3
        <4> QED BY <1>5, <4>1, <4>2 DEF Before
      <3> QED BY <1>3, <3>2, <3>3
    <2> QED BY <2>1, <2>2 DEF Chain
  <1> QED BY <1>1, <1>4, <1>5 DEF t

-----------------------------------------------------------------------------
(* What a step does to the line *)

LEMMA OrderedWithLess ==
    ASSUME NEW s, NEW t, NEW h, NEW b, NEW k, NEW n, Ordered(s, t, h, b, k, n),
           NEW t2 \in {t, <<>>}, NEW h2 \in {h, <<>>}, NEW b2 \in SUBSET b
    PROVE  Ordered(s, t2, h2, b2, k, n)
  <1>1. Chain(t2) /\ InSeqs(t2) \subseteq InSeqs(t)
    BY NoChunks DEF Ordered
  <1>2. Increasing(h2) /\ Range(h2) \subseteq Range(h)
    BY NothingInOrder DEF Ordered
  <1>3. /\ Before(InSeqs(t2), Range(h2) \cup b2 \cup InSeqs(k))
        /\ Before(Range(h2), b2 \cup InSeqs(k)) /\ Before(b2, InSeqs(k))
    BY <1>1, <1>2 DEF Ordered, Before
  <1>4. Over(s, InSeqs(t2) \cup Range(h2) \cup b2 \cup InSeqs(k))
    BY <1>1, <1>2 DEF Ordered, Over
  <1>5. \A x \in InSeqs(t2) \cup Range(h2) \cup b2 \cup InSeqs(k) : x.at <= n
    BY <1>1, <1>2 DEF Ordered
  <1> QED BY <1>1, <1>2, <1>3, <1>4, <1>5 DEF Ordered

LEMMA OrderedTypes ==
    ASSUME NEW s \in Seq(Nat \ {0}), NEW t \in Seq(Seq(Typeable)), NEW h \in Seq(Typeable),
           NEW b \in SUBSET Typeable, NEW k \in Seq(Seq(Typeable))
    PROVE  /\ InSeqs(t) \cup Range(h) \cup b \cup InSeqs(k) \subseteq Typeable
           /\ \A i \in DOMAIN s : s[i] \in Nat
           /\ \A x \in Typeable : x.at \in Nat
  <1>1. ASSUME NEW q \in Seq(Typeable) PROVE Range(q) \subseteq Typeable
    BY <1>1 DEF Range
  <1>2. ASSUME NEW q \in Seq(Seq(Typeable)) PROVE InSeqs(q) \subseteq Typeable
    <2>1. \A i \in DOMAIN q : q[i] \in Seq(Typeable)
      OBVIOUS
    <2> QED BY <1>1, <2>1, InSeqsHas
  <1>3. \A x \in Typeable : x.at \in Nat
    BY DEF Typeable
  <1> QED BY <1>1, <1>2, <1>3

LEMMA OrderedWithTyped ==
    ASSUME NEW s \in Seq(Nat \ {0}), NEW t \in Seq(Seq(Typeable)), NEW h \in Seq(Typeable),
           NEW b \in SUBSET Typeable, NEW k \in Seq(Seq(Typeable)), NEW n \in Nat,
           Ordered(s, t, h, b, k, n),
           NEW c \in Seq(Typeable), Increasing(c), NEW m \in Nat, n <= m,
           \A x \in Range(c) : n < x.at /\ x.at <= m
    PROVE  Ordered(s, t, h, b, Append(k, c), m)
  <1> DEFINE A == InSeqs(t) \cup Range(h) \cup b \cup InSeqs(k)
             K == InSeqs(k)  C == Range(c)
  <1>1. A \subseteq Typeable /\ C \subseteq Typeable /\ \A i \in DOMAIN s : s[i] \in Nat
    BY OrderedTypes DEF Range
  <1>2. \A x \in Typeable : x.at \in Nat
    BY OrderedTypes
  <1>3. \A x \in A : x.at <= n
    BY DEF Ordered
  <1>4. \A i \in DOMAIN s : s[i] <= n
    BY DEF Ordered
  <1>5. \A x \in C : n < x.at /\ x.at <= m
    OBVIOUS
  <1>6. InSeqs(Append(k, c)) = K \cup C
    BY AnotherChunk
  <1>7. Over(s, A) /\ Before(InSeqs(t), Range(h) \cup b \cup K) /\ Before(Range(h), b \cup K)
        /\ Before(b, K) /\ Rising(s) /\ Chain(t) /\ Increasing(h) /\ Chain(k)
    BY DEF Ordered
  <1> DEFINE T == InSeqs(t)  H == Range(h)
  <1>8. A = T \cup H \cup b \cup K
    OBVIOUS
  <1>9. Before(A, C)
    <2> HIDE DEF A, C
    <2> SUFFICES ASSUME NEW x \in A, NEW y \in C PROVE x.at < y.at
      BY DEF Before
    <2>1. x.at \in Nat /\ y.at \in Nat /\ x.at <= n /\ n < y.at
      BY <1>1, <1>2, <1>3, <1>5
    <2> QED BY <2>1
  <1>10. Chain(Append(k, c))
    <2>1. Before(K, C)
      BY <1>9 DEF Before
    <2> QED BY <1>7, <2>1, AnotherChunk
  <1>11. Over(s, A \cup C)
    <2> HIDE DEF A, C
    <2> SUFFICES ASSUME NEW i \in DOMAIN s, NEW y \in A \cup C PROVE s[i] < y.at
      BY DEF Over
    <2>1. CASE y \in A
      BY <1>7, <2>1 DEF Over
    <2>2. CASE y \in C
      <3>1. s[i] \in Nat /\ y.at \in Nat /\ s[i] <= n /\ n < y.at
        BY <1>1, <1>2, <1>4, <1>5, <2>2
      <3> QED BY <3>1
    <2> QED BY <2>1, <2>2
  <1>12. \A x \in A \cup C : x.at <= m
    <2> HIDE DEF A, C
    <2> TAKE x \in A \cup C
    <2>1. x.at \in Nat /\ (x.at <= n \/ x.at <= m)
      BY <1>1, <1>2, <1>3, <1>5
    <2> QED BY <2>1
  <1>13. \A i \in DOMAIN s : s[i] <= m
    <2> TAKE i \in DOMAIN s
    <2>1. s[i] \in Nat /\ s[i] <= n
      BY <1>1, <1>4
    <2> QED BY <2>1
  <1>14. /\ Before(T, H \cup b \cup (K \cup C)) /\ Before(H, b \cup (K \cup C))
         /\ Before(b, K \cup C)
    <2> HIDE DEF A, C, T, H, K
    <2> QED BY <1>7, <1>8, <1>9 DEF Before, T, H, K
  <1>15. T \cup H \cup b \cup (K \cup C) = A \cup C
    OBVIOUS
  <1> HIDE DEF A, C, T, H, K
  <1> QED BY <1>6, <1>7, <1>10, <1>11, <1>12, <1>13, <1>14, <1>15 DEF Ordered, T, H, K

LEMMA OrderedWhenRead ==
    ASSUME NEW s \in Seq(Nat \ {0}), NEW t \in Seq(Seq(Typeable)), NEW b \in SUBSET Typeable,
           NEW k \in Seq(Seq(Typeable)), NEW n \in Nat, k # <<>>,
           Ordered(s, t, <<>>, b, k, n)
    PROVE  /\ Head(k) \in Seq(Typeable) /\ Increasing(Head(k)) /\ Before(b, Range(Head(k)))
           /\ \A d, e : Increasing(d) /\ Before(Range(d), e)
                        /\ Range(d) \cup e \subseteq b \cup Range(Head(k))
                            => Ordered(s, t, d, e, Tail(k), n)
  <1> DEFINE T == InSeqs(t)  K == InSeqs(k)  C == Range(Head(k))  R == InSeqs(Tail(k))
  <1>1. /\ Head(k) \in Seq(Typeable) /\ K = C \cup R
        /\ Increasing(Head(k)) /\ Chain(Tail(k)) /\ Before(C, R)
    BY FirstChunk DEF Ordered
  <1>2. /\ Rising(s) /\ Chain(t) /\ Over(s, T \cup b \cup K) /\ Before(T, b \cup K)
        /\ Before(b, K) /\ (\A x \in T \cup b \cup K : x.at <= n)
        /\ (\A i \in DOMAIN s : s[i] <= n)
    BY NothingInOrder DEF Ordered
  <1>3. Before(b, C)
    BY <1>1, <1>2 DEF Before
  <1>4. ASSUME NEW d, NEW e, Increasing(d), Before(Range(d), e),
               Range(d) \cup e \subseteq b \cup C
        PROVE  Ordered(s, t, d, e, Tail(k), n)
    <2> DEFINE D == Range(d)
    <2> HIDE DEF T, K, C, R, D
    <2>1. D \cup e \subseteq b \cup C
      BY <1>4 DEF D
    <2>2. T \cup D \cup e \cup R \subseteq T \cup b \cup K
      BY <1>1, <2>1
    <2>3. Over(s, T \cup D \cup e \cup R) /\ \A x \in T \cup D \cup e \cup R : x.at <= n
      BY <1>2, <2>2 DEF Over
    <2>4. Before(b \cup C, R)
      BY <1>1, <1>2 DEF Before
    <2>5. Before(D, e \cup R) /\ Before(e, R)
      BY <1>4, <2>1, <2>4 DEF Before, D
    <2>6. Before(T, D \cup e \cup R)
      BY <1>1, <1>2, <2>1 DEF Before
    <2> QED BY <1>1, <1>2, <1>4, <2>3, <2>5, <2>6 DEF Ordered, T, R, D
  <1> QED BY <1>1, <1>3, <1>4

LEMMA OrderedWhenSent ==
    ASSUME NEW s, NEW t \in Seq(Seq(Typeable)), NEW h \in Seq(Typeable), NEW b, NEW k, NEW n,
           Ordered(s, t, h, b, k, n)
    PROVE  Ordered(s, Append(t, h), <<>>, b, k, n)
  <1> DEFINE T == InSeqs(t)  H == Range(h)  K == InSeqs(k)
  <1>1. /\ Rising(s) /\ Chain(t) /\ Increasing(h) /\ Chain(k)
        /\ Over(s, T \cup H \cup b \cup K) /\ Before(T, H \cup b \cup K)
        /\ Before(H, b \cup K) /\ Before(b, K)
        /\ (\A x \in T \cup H \cup b \cup K : x.at <= n) /\ (\A i \in DOMAIN s : s[i] <= n)
    BY DEF Ordered
  <1>2. Before(T, H)
    BY <1>1 DEF Before
  <1>3. InSeqs(Append(t, h)) = T \cup H /\ Chain(Append(t, h))
    BY <1>1, <1>2, AnotherChunk
  <1>4. Before(T \cup H, b \cup K)
    BY <1>1 DEF Before
  <1>5. (T \cup H) \cup {} \cup b \cup K = T \cup H \cup b \cup K /\ {} \cup b \cup K = b \cup K
    OBVIOUS
  <1>6. Before({}, b \cup K)
    BY DEF Before
  <1> HIDE DEF T, H
  <1> QED BY <1>1, <1>3, <1>4, <1>5, <1>6, NothingInOrder DEF Ordered

LEMMA OneThenTheOther ==
    ASSUME NEW s \in Seq(Nat \ {0}), NEW p \in Seq(Nat \ {0})
    PROVE  /\ s \o p \in Seq(Nat \ {0}) /\ DOMAIN (s \o p) = 1..(Len(s) + Len(p))
           /\ Len(s) \in Nat /\ DOMAIN s = 1..Len(s)
           /\ \A i \in 1..Len(s) : (s \o p)[i] = s[i]
           /\ \A i \in 1..Len(p) : (s \o p)[Len(s) + i] = p[i]
  OBVIOUS

Places(c) == [i \in DOMAIN c |-> c[i].at]

LEMMA OrderedWhenGone ==
    ASSUME NEW s \in Seq(Nat \ {0}), NEW t \in Seq(Seq(Typeable)), NEW h \in Seq(Typeable),
           NEW b \in SUBSET Typeable, NEW k \in Seq(Seq(Typeable)), NEW n \in Nat, t # <<>>,
           Ordered(s, t, h, b, k, n)
    PROVE  /\ s \o Places(Head(t)) \in Seq(Nat \ {0})
           /\ Ordered(s \o Places(Head(t)), Tail(t), h, b, k, n)
  <1> DEFINE T == InSeqs(t)  A == Range(h) \cup b \cup InSeqs(k)
             c == Head(t)  C == Range(c)  R == InSeqs(Tail(t))  z == s \o Places(c)
  <1>1. /\ c \in Seq(Typeable) /\ T = C \cup R
        /\ Increasing(c) /\ Chain(Tail(t)) /\ Before(C, R)
    BY FirstChunk DEF Ordered
  <1>2. /\ Rising(s) /\ Increasing(h) /\ Chain(k) /\ Over(s, T \cup A) /\ Before(T, A)
        /\ Before(Range(h), b \cup InSeqs(k)) /\ Before(b, InSeqs(k))
        /\ (\A x \in T \cup A : x.at <= n) /\ (\A i \in DOMAIN s : s[i] <= n)
    <2>1. InSeqs(t) \cup Range(h) \cup b \cup InSeqs(k) = T \cup A
      OBVIOUS
    <2> HIDE DEF A
    <2> QED BY <2>1 DEF Ordered, A
  <1> HIDE DEF T, A, c, R
  <1>3. Places(c) \in Seq(Nat \ {0}) /\ DOMAIN Places(c) = DOMAIN c /\ Len(Places(c)) = Len(c)
        /\ Len(c) \in Nat /\ DOMAIN c = 1..Len(c) /\ \A i \in DOMAIN c : c[i] \in Typeable
    <2>1. /\ Len(c) \in Nat /\ DOMAIN c = 1..Len(c) /\ \A i \in DOMAIN c : c[i] \in Typeable
      BY <1>1
    <2>2. \A i \in 1..Len(c) : c[i].at \in Nat \ {0}
      BY <2>1 DEF Typeable
    <2>3. [i \in 1..Len(c) |-> c[i].at] \in Seq(Nat \ {0}) /\ Len([i \in 1..Len(c) |-> c[i].at]) = Len(c)
      BY <2>1, <2>2
    <2> QED BY <2>1, <2>3 DEF Places
  <1>4. /\ z \in Seq(Nat \ {0}) /\ DOMAIN z = 1..(Len(s) + Len(c)) /\ Len(s) \in Nat
        /\ DOMAIN s = 1..Len(s)
        /\ \A i \in 1..Len(s) : z[i] = s[i]
        /\ \A i \in 1..Len(c) : z[Len(s) + i] = Places(c)[i]
    <2> DEFINE p == Places(c)
    <2>1. p \in Seq(Nat \ {0}) /\ Len(p) = Len(c)
      BY <1>3
    <2> HIDE DEF p
    <2>2. /\ s \o p \in Seq(Nat \ {0}) /\ DOMAIN (s \o p) = 1..(Len(s) + Len(p))
          /\ Len(s) \in Nat /\ DOMAIN s = 1..Len(s)
          /\ \A i \in 1..Len(s) : (s \o p)[i] = s[i]
          /\ \A i \in 1..Len(p) : (s \o p)[Len(s) + i] = p[i]
      BY <2>1, OneThenTheOther
    <2> QED BY <2>1, <2>2 DEF p
  <1> HIDE DEF z
  <1>5. \A i \in 1..Len(c) : z[Len(s) + i] = c[i].at /\ c[i] \in C
    BY <1>3, <1>4 DEF Places, Range
  <1> HIDE DEF C
  <1>6. ASSUME NEW i \in DOMAIN z
        PROVE  \/ i \in DOMAIN s /\ z[i] = s[i]
               \/ i - Len(s) \in DOMAIN c /\ z[i] = c[i - Len(s)].at /\ c[i - Len(s)] \in C
    <2>1. CASE i <= Len(s)
      BY <1>4, <2>1
    <2>2. CASE i > Len(s)
      <3>1. i - Len(s) \in 1..Len(c) /\ i = Len(s) + (i - Len(s))
        BY <1>3, <1>4, <2>2
      <3> QED BY <1>3, <1>5, <3>1
    <2> QED BY <1>4, <2>1, <2>2
  <1>7. Rising(z)
    <2> SUFFICES ASSUME NEW i \in DOMAIN z, NEW j \in DOMAIN z, i < j PROVE z[i] < z[j]
      BY DEF Rising
    <2>1. CASE j <= Len(s)
      <3>1. i \in DOMAIN s /\ j \in DOMAIN s
        BY <1>4, <2>1
      <3> QED BY <1>2, <1>4, <3>1 DEF Rising
    <2>2. CASE i <= Len(s) /\ ~(j <= Len(s))
      <3>1. i \in DOMAIN s /\ j \notin DOMAIN s
        BY <1>4, <2>2
      <3> QED BY <1>1, <1>2, <1>4, <1>6, <3>1 DEF Over
    <2>3. CASE ~(i <= Len(s)) /\ ~(j <= Len(s))
      <3>1. i \notin DOMAIN s /\ j \notin DOMAIN s /\ i - Len(s) < j - Len(s)
        BY <1>4, <2>3
      <3>2. i - Len(s) \in DOMAIN c /\ z[i] = c[i - Len(s)].at
        BY <1>6, <3>1
      <3>3. j - Len(s) \in DOMAIN c /\ z[j] = c[j - Len(s)].at
        BY <1>6, <3>1
      <3> QED BY <1>1, <3>1, <3>2, <3>3 DEF Increasing
    <2>4. i <= Len(s) \/ ~(j <= Len(s))
      BY <1>4
    <2> QED BY <2>1, <2>2, <2>3, <2>4
  <1>8. Over(z, R \cup A)
    <2> SUFFICES ASSUME NEW i \in DOMAIN z, NEW y \in R \cup A PROVE z[i] < y.at
      BY DEF Over
    <2>1. CASE i \in DOMAIN s /\ z[i] = s[i]
      BY <1>1, <1>2, <2>1 DEF Over
    <2>2. CASE i - Len(s) \in DOMAIN c /\ z[i] = c[i - Len(s)].at /\ c[i - Len(s)] \in C
      BY <1>1, <1>2, <2>2 DEF Before
    <2> QED BY <1>6, <2>1, <2>2
  <1>9. \A i \in DOMAIN z : z[i] <= n
    BY <1>1, <1>2, <1>6
  <1>10. Before(R, A) /\ \A x \in R \cup A : x.at <= n
    BY <1>1, <1>2 DEF Before
  <1>11. R \cup Range(h) \cup b \cup InSeqs(k) = R \cup A
         /\ Range(h) \cup b \cup InSeqs(k) = A
    BY DEF A
  <1>12. Ordered(z, Tail(t), h, b, k, n)
    BY <1>1, <1>2, <1>7, <1>8, <1>9, <1>10, <1>11 DEF Ordered, R, c
  <1> QED BY <1>4, <1>12 DEF z, c

-----------------------------------------------------------------------------
(* The line is kept *)

(* Steps that at most drop what they find. *)
Fewer ==
    /\ kb' = kb /\ typed' = typed /\ sent' = sent /\ tx' \in {tx, <<>>}
    /\ hand' \in {hand, NoHand} /\ held' \in {held, NoByte}

LEMMA FewerKeepsLine ==
    ASSUME Typed, InLine, Fewer
    PROVE  Typed' /\ InLine'
  <1>1. Typed'
    BY NoChunks, NothingInOrder DEF Typed, Fewer, NoHand
  <1>2. hand'.bytes \in {hand.bytes, <<>>} /\ Back' \in SUBSET Back
    BY DEF Fewer, NoHand, Back
  <1>3. Ordered(sent, tx', hand'.bytes, Back', kb, typed)
    BY <1>2, OrderedWithLess DEF InLine, Fewer
  <1> QED BY <1>1, <1>3 DEF InLine, Fewer

(* What stands in the line is of its type.                                 *)
LEMMA Parts ==
    ASSUME Typed
    PROVE  /\ Back \in SUBSET Typeable /\ hand.bytes \in Seq(Typeable)
           /\ kb \in Seq(Seq(Typeable)) /\ tx \in Seq(Seq(Typeable))
           /\ sent \in Seq(Nat \ {0}) /\ typed \in Nat /\ held \in Typeable \cup {NoByte}
           /\ hand \in [bytes : Seq(Typeable), quits : BOOLEAN]
  BY DEF Typed, Back

LEMMA TypingKeepsLine ==
    ASSUME Typed, InLine, NEW chunk \in Chunks, Type(chunk)
    PROVE  Typed' /\ InLine'
  <1> DEFINE c == [i \in 1..Len(chunk) |-> Byte(typed + i, chunk[i])]
             m == typed + Len(chunk)
  <1>1. chunk \in Seq({"esc", "dot", "char"}) /\ Len(chunk) \in Nat
        /\ \A i \in 1..Len(chunk) : chunk[i] \in {"esc", "dot", "char"}
    BY ClientAssumption
  <1>2. typed \in Nat /\ m \in Nat /\ typed <= m
    BY <1>1 DEF Typed
  <1>3. \A i \in 1..Len(chunk) : Byte(typed + i, chunk[i]) \in Typeable
                                /\ Byte(typed + i, chunk[i]).at = typed + i
    BY <1>1, <1>2 DEF Byte, Typeable
  <1>4. c \in Seq(Typeable) /\ DOMAIN c = 1..Len(chunk)
        /\ \A i \in 1..Len(chunk) : c[i].at = typed + i
    BY <1>1, <1>3
  <1>5. kb' = Append(kb, c) /\ typed' = m
    BY DEF Type
  <1>6. sent' = sent /\ tx' = tx /\ hand' = hand /\ held' = held
    BY DEF Type, lockVars, txVars
  <1> HIDE DEF c
  <1>7. Increasing(c)
    BY <1>1, <1>2, <1>4 DEF Increasing
  <1>8. \A x \in Range(c) : typed < x.at /\ x.at <= m
    BY <1>1, <1>2, <1>4 DEF Range
  <1> HIDE DEF m
  <1>9. Ordered(sent, tx, hand.bytes, Back, Append(kb, c), m)
    BY <1>2, <1>4, <1>7, <1>8, Parts, OrderedWithTyped DEF InLine
  <1>10. InLine'
    BY <1>5, <1>6, <1>9 DEF InLine, Back
  <1>11. Append(kb, c) \in Seq(Seq(Typeable))
    BY <1>4, Parts, AnotherChunk
  <1>12. Typed'
    BY <1>2, <1>5, <1>6, <1>11 DEF Typed
  <1> QED BY <1>10, <1>12

(* A chunk that is read, whoever reads it.                                 *)
LEMMA ReadInOrder ==
    ASSUME Typed, InLine, kb # <<>>, hand = NoHand \/ hand.bytes = <<>>,
           NEW d, d = Scan(Head(kb))
    PROVE  /\ Digested(d, held, Back \cup Range(Head(kb)))
           /\ d \in Escapes
           /\ Tail(kb) \in Seq(Seq(Typeable))
           /\ Ordered(sent, tx, d.bytes, {d.held} \ {NoByte}, Tail(kb), typed)
  <1>1. hand.bytes = <<>>
    BY DEF NoHand
  <1>2. Ordered(sent, tx, <<>>, Back, kb, typed)
    BY <1>1 DEF InLine
  <1>3. Head(kb) \in Seq(Typeable) /\ Increasing(Head(kb)) /\ Before(Back, Range(Head(kb)))
    BY <1>2, Parts, OrderedWhenRead
  <1>4. Digested(d, held, Back \cup Range(Head(kb)))
    BY <1>3, Parts, ScanDigests
  <1>5. /\ Increasing(d.bytes) /\ Before(Range(d.bytes), {d.held} \ {NoByte})
        /\ Range(d.bytes) \cup ({d.held} \ {NoByte}) \subseteq Back \cup Range(Head(kb))
    BY <1>4 DEF Digested
  <1>6. Ordered(sent, tx, d.bytes, {d.held} \ {NoByte}, Tail(kb), typed)
    BY <1>2, <1>5, Parts, OrderedWhenRead
  <1>7. d \in Escapes
    BY <1>4 DEF Digested
  <1>8. Tail(kb) \in Seq(Seq(Typeable))
    BY Parts, FirstChunk
  <1> QED BY <1>4, <1>6, <1>7, <1>8

LEMMA ForwarderReadingKeepsLine ==
    ASSUME Typed, InLine, ForwarderReads
    PROVE  Typed' /\ InLine'
  <1> DEFINE d == Scan(Head(kb))
  <1>1. /\ kb # <<>> /\ hand = NoHand /\ kb' = Tail(kb) /\ sent' = sent /\ tx' = tx
        /\ typed' = typed
    BY DEF ForwarderReads, txVars
  <1>2. \/ held' = NoByte /\ hand' = hand
        \/ held' = d.held /\ hand' = [bytes |-> d.bytes, quits |-> d.quits]
    BY DEF ForwarderReads, Quit
  <1> HIDE DEF d
  <1>3. /\ d \in Escapes /\ Tail(kb) \in Seq(Seq(Typeable))
        /\ Ordered(sent, tx, d.bytes, {d.held} \ {NoByte}, Tail(kb), typed)
    BY <1>1, ReadInOrder DEF d
  <1>4. CASE held' = NoByte /\ hand' = hand
    <2>1. Ordered(sent, tx, <<>>, {}, Tail(kb), typed)
      BY <1>3, OrderedWithLess
    <2>2. Back' = {} /\ hand'.bytes = <<>>
      BY <1>1, <1>4 DEF Back, NoHand
    <2> QED BY <1>1, <1>3, <1>4, <2>1, <2>2 DEF InLine, Typed
  <1>5. CASE held' = d.held /\ hand' = [bytes |-> d.bytes, quits |-> d.quits]
    <2>1. hand'.bytes = d.bytes /\ Back' = {d.held} \ {NoByte}
      BY <1>5 DEF Back
    <2>2. held' \in Typeable \cup {NoByte}
          /\ hand' \in [bytes : Seq(Typeable), quits : BOOLEAN]
      BY <1>3, <1>5 DEF Escapes
    <2> QED BY <1>1, <1>3, <2>1, <2>2 DEF InLine, Typed
  <1> QED BY <1>2, <1>4, <1>5

LEMMA ListenerReadingKeepsLine ==
    ASSUME Typed, InLine, Turns, ListenerReads
    PROVE  Typed' /\ InLine'
  <1> DEFINE d == Scan(Head(kb))
  <1>1. /\ kb # <<>> /\ kb' = Tail(kb) /\ sent' = sent /\ tx' = tx
        /\ typed' = typed /\ hand' = hand /\ held' \in {d.held, NoByte}
        /\ hand = NoHand
    BY DEF ListenerReads, txVars, Turns
  <1> HIDE DEF d
  <1>2. /\ d \in Escapes /\ Tail(kb) \in Seq(Seq(Typeable))
        /\ Ordered(sent, tx, d.bytes, {d.held} \ {NoByte}, Tail(kb), typed)
    BY <1>1, ReadInOrder DEF d
  <1>3. Back' \in SUBSET ({d.held} \ {NoByte}) /\ hand'.bytes = <<>>
    BY <1>1 DEF Back, NoHand
  <1>4. Ordered(sent, tx, <<>>, Back', Tail(kb), typed)
    BY <1>2, <1>3, OrderedWithLess
  <1>5. held' \in Typeable \cup {NoByte}
    BY <1>1, <1>2 DEF Escapes
  <1> QED BY <1>1, <1>2, <1>3, <1>4, <1>5 DEF InLine, Typed

LEMMA ForwarderSendingKeepsLine ==
    ASSUME Typed, InLine, ForwarderSends
    PROVE  Typed' /\ InLine'
  <1>1. /\ kb' = kb /\ typed' = typed /\ sent' = sent /\ hand' = NoHand
        /\ held' \in {held, NoByte} /\ tx' \in {tx, Append(tx, hand.bytes)}
    BY DEF ForwarderSends, Quit, keyVars
  <1>2. CASE tx' = tx
    BY <1>1, <1>2, FewerKeepsLine DEF Fewer
  <1>3. CASE tx' = Append(tx, hand.bytes)
    <2>1. Ordered(sent, Append(tx, hand.bytes), <<>>, Back, kb, typed)
      BY Parts, OrderedWhenSent DEF InLine
    <2>2. Back' \in SUBSET Back /\ hand'.bytes = <<>>
      BY <1>1 DEF Back, NoHand
    <2>3. Ordered(sent, Append(tx, hand.bytes), <<>>, Back', kb, typed)
      BY <2>1, <2>2, OrderedWithLess
    <2>4. tx' \in Seq(Seq(Typeable)) /\ hand' \in [bytes : Seq(Typeable), quits : BOOLEAN]
          /\ held' \in Typeable \cup {NoByte}
      BY <1>1, <1>3, Parts, AnotherChunk, NoChunks DEF NoHand
    <2> QED BY <1>1, <1>3, <2>2, <2>3, <2>4, Parts DEF InLine, Typed
  <1> QED BY <1>1, <1>2, <1>3

LEMMA SenderSendingKeepsLine ==
    ASSUME Typed, InLine, SenderSends
    PROVE  /\ Typed' /\ InLine'
           /\ tx # <<>> /\ tx' = Tail(tx) /\ sent' = sent \o Places(Head(tx))
  <1>1. /\ kb' = kb /\ typed' = typed /\ hand' = hand /\ held' = held
        /\ tx # <<>> /\ tx' = Tail(tx) /\ sent' = sent \o Places(Head(tx))
    BY DEF SenderSends, keyVars, lockVars, Places
  <1>2. /\ sent' \in Seq(Nat \ {0})
        /\ Ordered(sent', Tail(tx), hand.bytes, Back, kb, typed)
    BY <1>1, Parts, OrderedWhenGone DEF InLine
  <1>3. Tail(tx) \in Seq(Seq(Typeable))
    BY <1>1, Parts, FirstChunk
  <1> QED BY <1>1, <1>2, <1>3, Parts DEF InLine, Typed, Back

(* The other steps drop what is in a channel, or leave it alone.           *)
LEMMA OtherStepsDrop ==
    ASSUME Next
    PROVE  \/ Fewer \/ ForwarderReads \/ ForwarderSends \/ ListenerReads \/ SenderSends
           \/ \E chunk \in Chunks : Type(chunk)
  <1> USE DEF Fewer, lockVars, txVars, keyVars
  <1>1. Take("forwarder") \/ Take("listener") => Fewer
    BY DEF Take
  <1>2. ForwarderStops \/ AbortedIsDropped \/ ListenerStops => Fewer
    BY DEF ForwarderStops, AbortedIsDropped, ListenerStops
  <1>3. Connect \/ PromptPassphrase \/ AnswerPassphrase \/ AttemptFails => Fewer
    BY DEF Connect, PromptPassphrase, AnswerPassphrase, AttemptFails
  <1>4. AttemptSucceeds => Fewer
    BY DEF AttemptSucceeds, StartSession
  <1>5. SessionWakes \/ SessionCloses => Fewer
    BY DEF SessionWakes, SessionCloses
  <1>6. AbortForwarder => Fewer
    BY DEF AbortForwarder
  <1>7. StartCountdown \/ CountdownEnds \/ LeaveCountdown => Fewer
    BY DEF StartCountdown, CountdownEnds, LeaveCountdown
  <1>8. PromptHost \/ AnswerHost \/ SenderEnds \/ ReaderEnds \/ OtherClientWrites => Fewer
    BY DEF PromptHost, AnswerHost, SenderEnds, ReaderEnds, OtherClientWrites
  <1> HIDE DEF Fewer
  <1> QED BY <1>1, <1>2, <1>3, <1>4, <1>5, <1>6, <1>7, <1>8 DEF Next, Keyboard, Loop

LEMMA NextKeepsLine ==
    ASSUME Typed, InLine, Turns, Next
    PROVE  Typed' /\ InLine'
  BY OtherStepsDrop, FewerKeepsLine, TypingKeepsLine, ForwarderReadingKeepsLine,
     ForwarderSendingKeepsLine, ListenerReadingKeepsLine, SenderSendingKeepsLine

-----------------------------------------------------------------------------
(* Turns at the receiver, and what an attempt asks for *)

LEMMA KeyboardKeepsTurns ==
    ASSUME Turns, Keyboard
    PROVE  Turns'
  <1> USE DEF Turns
  <1>1. ASSUME NEW chunk \in Chunks, Type(chunk) PROVE Turns'
    BY <1>1 DEF Type, lockVars, exitVars
  <1>2. ASSUME Take("forwarder") \/ Take("listener") PROVE Turns'
    BY <1>2 DEF Take, exitVars
  <1>3. CASE ForwarderReads
    BY <1>3 DEF ForwarderReads, Quit, exitVars
  <1>4. CASE ForwarderSends
    BY <1>4 DEF ForwarderSends, Quit, exitVars
  <1>5. CASE ForwarderStops
    BY <1>5 DEF ForwarderStops, exitVars
  <1>6. CASE AbortedIsDropped
    BY <1>6 DEF AbortedIsDropped, exitVars
  <1>7. CASE ListenerReads
    BY <1>7 DEF ListenerReads
  <1>8. CASE ListenerStops
    BY <1>8 DEF ListenerStops, exitVars
  <1> QED BY <1>1, <1>2, <1>3, <1>4, <1>5, <1>6, <1>7, <1>8 DEF Keyboard

LEMMA LoopKeepsTurns ==
    ASSUME Turns, Loop
    PROVE  Turns'
  <1> USE DEF Turns, lockVars, exitVars
  <1>1. CASE Connect \/ PromptPassphrase \/ AnswerPassphrase \/ AttemptFails
    BY <1>1 DEF Connect, PromptPassphrase, AnswerPassphrase, AttemptFails
  <1>2. CASE AttemptSucceeds
    BY <1>2 DEF AttemptSucceeds, StartSession
  <1>3. CASE SessionWakes
    BY <1>3 DEF SessionWakes
  <1>4. CASE SessionCloses
    BY <1>4 DEF SessionCloses, AfterSession
  <1>5. CASE AbortForwarder
    BY <1>5 DEF AbortForwarder, AfterSession
  <1>6. CASE StartCountdown \/ CountdownEnds
    BY <1>6 DEF StartCountdown, CountdownEnds
  <1>7. CASE LeaveCountdown
    BY <1>7 DEF LeaveCountdown
  <1> QED BY <1>1, <1>2, <1>3, <1>4, <1>5, <1>6, <1>7 DEF Loop

LEMMA NextKeepsTurns ==
    ASSUME Turns, Next
    PROVE  Turns'
  <1>1. CASE PromptHost \/ AnswerHost \/ OtherClientWrites
    BY <1>1 DEF PromptHost, AnswerHost, OtherClientWrites, Turns, lockVars, exitVars
  <1>2. CASE SenderSends \/ SenderEnds \/ ReaderEnds
    BY <1>2 DEF SenderSends, SenderEnds, ReaderEnds, Turns, lockVars, exitVars
  <1> QED BY <1>1, <1>2, KeyboardKeepsTurns, LoopKeepsTurns DEF Next

LEMMA NextKeepsAsks ==
    ASSUME Asks, Next
    PROVE  Asks'
  <1> USE DEF Asks, idVars
  <1>1. CASE Keyboard
    <2>1. UNCHANGED idVars /\ UNCHANGED stage
      BY <1>1 DEF Keyboard, Type, Take, ForwarderReads, ForwarderSends, ForwarderStops,
                  AbortedIsDropped, ListenerReads, ListenerStops
    <2> QED BY <2>1
  <1>2. CASE Connect
    BY <1>2 DEF Connect, ResumeUuid
  <1>3. CASE PromptPassphrase \/ AnswerPassphrase \/ PromptHost \/ AnswerHost
    BY <1>3 DEF PromptPassphrase, AnswerPassphrase, PromptHost, AnswerHost
  <1>4. CASE AttemptFails
    BY <1>4 DEF AttemptFails
  <1>5. CASE AttemptSucceeds
    BY <1>5 DEF AttemptSucceeds
  <1>6. CASE SessionWakes \/ SessionCloses \/ AbortForwarder
    BY <1>6 DEF SessionWakes, SessionCloses, AbortForwarder, AfterSession
  <1>7. CASE StartCountdown \/ CountdownEnds \/ LeaveCountdown
    BY <1>7 DEF StartCountdown, CountdownEnds, LeaveCountdown
  <1>8. CASE SenderSends \/ SenderEnds \/ ReaderEnds
    BY <1>8 DEF SenderSends, SenderEnds, ReaderEnds
  <1>9. CASE OtherClientWrites
    BY <1>9 DEF OtherClientWrites
  <1> QED BY <1>1, <1>2, <1>3, <1>4, <1>5, <1>6, <1>7, <1>8, <1>9 DEF Next, Loop

-----------------------------------------------------------------------------
(* The invariant and what follows from it *)

LEMMA Initially ==
    Init => IInv
  <1> SUFFICES ASSUME Init PROVE IInv
    OBVIOUS
  <1>1. /\ kb = <<>> /\ tx = <<>> /\ sent = <<>> /\ typed = 0 /\ held = NoByte
        /\ hand = NoHand /\ holder = "none" /\ waiting = "none" /\ token = FALSE
        /\ stage = "connecting" /\ last_session = None
    BY DEF Init
  <1>2. /\ \A b : Before({}, b) /\ Before(b, {})
        /\ \A t : Rising(<<>>) /\ Over(<<>>, t)
        /\ Back = {} /\ hand.bytes = <<>>
    BY <1>1, NothingInOrder DEF Before, Rising, Over, Back, NoHand
  <1>3. Ordered(<<>>, <<>>, <<>>, {}, <<>>, 0)
    BY <1>2, NoChunks, NothingInOrder DEF Ordered
  <1>4. Typed
    <2>1. <<>> \in Seq(Nat \ {0})
      OBVIOUS
    <2> QED BY <1>1, <2>1, NoChunks DEF Typed, NoHand
  <1>5. Turns /\ Asks
    BY <1>1 DEF Turns, Asks, NoHand
  <1> QED BY <1>1, <1>2, <1>3, <1>4, <1>5 DEF IInv, InLine

LEMMA Inductive ==
    IInv /\ [Next]_vars => IInv'
  <1> SUFFICES ASSUME IInv, [Next]_vars PROVE IInv'
    OBVIOUS
  <1>1. CASE Next
    BY <1>1, NextKeepsLine, NextKeepsTurns, NextKeepsAsks DEF IInv
  <1>2. CASE UNCHANGED vars
    <2>1. Typed' /\ InLine'
      BY <1>2, FewerKeepsLine DEF IInv, Fewer, vars, keyVars, lockVars, txVars
    <2>2. Turns' /\ Asks'
      BY <1>2 DEF IInv, Turns, Asks, vars, lockVars, exitVars, idVars
    <2> QED BY <2>1, <2>2 DEF IInv
  <1> QED BY <1>1, <1>2

(* Everything between the keyboard and the transport stands in the order   *)
(* it was typed, the tasks take turns at the receiver, and the file has    *)
(* the session to resume (runtime.rs:1352-1446).                           *)
THEOREM Invariant == Spec => []IInv
  BY Initially, Inductive, PTL DEF Spec

(* What the server is sent is in the order it was typed, and nothing is    *)
(* sent twice, for every way to cut the typing into chunks, every channel  *)
(* capacity and any number of sessions (runtime.rs:1352-1446).             *)
THEOREM TypedOrderHolds == Spec => []TypedOrder
  <1>1. IInv => TypedOrder
    <2> SUFFICES ASSUME IInv PROVE TypedOrder
      OBVIOUS
    <2>1. Rising(sent) /\ sent \in Seq(Nat \ {0})
      BY DEF IInv, InLine, Ordered, Typed
    <2>2. DOMAIN sent = 1..Len(sent)
      BY <2>1
    <2> QED BY <2>1, <2>2 DEF TypedOrder, Rising
  <1> QED BY <1>1, Invariant, PTL

(* An attempt asks for the session before it, unless its UUID is said not  *)
(* to be in the file (runtime.rs:1059-1060, 1191-1200).                    *)
THEOREM AsksHolds == Spec => []AsksForLastSession
  <1>1. IInv => AsksForLastSession
    BY DEF IInv, Asks, AsksForLastSession
  <1> QED BY <1>1, Invariant, PTL

-----------------------------------------------------------------------------
(* Types *)

(* The variables that hold no bytes.                                       *)
Ranges ==
    /\ stage \in {"connecting", "exchanging", "prompting", "serving", "closing",
                  "failed", "counting", "counted"} \cup Ended
    /\ holder \in {"none", "forwarder", "listener", "aborted"}
    /\ waiting \in {"none", "forwarder", "listener"} /\ link \in {"up", "down"}
    /\ {token, signal, exit_token, listener_done, exiting, had_kex,
        paused, disturbed} \subseteq BOOLEAN /\ asking \in {"no", "yes", "answered"}
    /\ exit_msg \in {"none", "disconnected", "ended"}
    /\ pass_cache \in {"uncached", "cached"} /\ abandoned \in 0..MaxAbandoned
    /\ {uuid_file, requested, last_session} \subseteq SessionIds \cup {None}

(* The channels hold no more than their capacity.                          *)
Bounds == Len(kb) <= KbCapacity /\ Len(tx) <= TxCapacity /\ typed <= MaxTyped

LEMMA KeyboardKeepsRanges ==
    ASSUME Ranges, Keyboard
    PROVE  Ranges'
  <1> USE DEF Ranges, txVars, exitVars, roundVars, passVars, promptVars, idVars
  <1>1. ASSUME NEW chunk \in Chunks, Type(chunk) PROVE Ranges'
    BY <1>1 DEF Type, lockVars
  <1>2. ASSUME Take("forwarder") \/ Take("listener") PROVE Ranges'
    BY <1>2 DEF Take
  <1>3. CASE ForwarderReads
    BY <1>3 DEF ForwarderReads, Quit
  <1>4. CASE ForwarderSends
    BY <1>4 DEF ForwarderSends, Quit
  <1>5. CASE ForwarderStops \/ AbortedIsDropped \/ ListenerStops
    BY <1>5 DEF ForwarderStops, AbortedIsDropped, ListenerStops
  <1>6. CASE ListenerReads
    BY <1>6 DEF ListenerReads
  <1> QED BY <1>1, <1>2, <1>3, <1>4, <1>5, <1>6 DEF Keyboard

LEMMA LoopKeepsRanges ==
    ASSUME Ranges, Loop
    PROVE  Ranges'
  <1> USE DEF Ranges, lockVars, txVars, exitVars, roundVars, passVars, promptVars, idVars
  <1>1. CASE Connect
    BY <1>1 DEF Connect, ResumeUuid
  <1>2. CASE PromptPassphrase \/ AnswerPassphrase
    BY <1>2 DEF PromptPassphrase, AnswerPassphrase, Ended
  <1>3. CASE AttemptFails
    BY <1>3, ClientAssumption DEF AttemptFails, Ended
  <1>4. CASE AttemptSucceeds
    BY <1>4 DEF AttemptSucceeds, StartSession
  <1>5. CASE SessionWakes
    BY <1>5 DEF SessionWakes
  <1>6. CASE SessionCloses
    BY <1>6 DEF SessionCloses, AfterSession, Ended
  <1>7. CASE AbortForwarder
    BY <1>7 DEF AbortForwarder, AfterSession, Ended
  <1>8. CASE StartCountdown \/ CountdownEnds
    BY <1>8 DEF StartCountdown, CountdownEnds
  <1>9. CASE LeaveCountdown
    BY <1>9 DEF LeaveCountdown, Ended
  <1> QED BY <1>1, <1>2, <1>3, <1>4, <1>5, <1>6, <1>7, <1>8, <1>9 DEF Loop

LEMMA NextKeepsRanges ==
    ASSUME Ranges, Next
    PROVE  Ranges'
  <1> USE DEF Ranges, lockVars, txVars, exitVars, roundVars, passVars, promptVars, idVars
  <1>1. CASE PromptHost \/ OtherClientWrites
    BY <1>1 DEF PromptHost, OtherClientWrites
  <1>2. CASE AnswerHost
    <2>1. abandoned' \in 0..MaxAbandoned
      BY <1>2, ClientAssumption DEF AnswerHost
    <2>2. asking' \in {"no", "yes", "answered"} /\ paused' = FALSE
      BY <1>2 DEF AnswerHost
    <2> QED BY <1>2, <2>1, <2>2 DEF AnswerHost
  <1>3. CASE SenderSends \/ SenderEnds \/ ReaderEnds
    BY <1>3 DEF SenderSends, SenderEnds, ReaderEnds
  <1> QED BY <1>1, <1>2, <1>3, KeyboardKeepsRanges, LoopKeepsRanges DEF Next

LEMMA ChannelLengths ==
    ASSUME NEW q \in Seq(Seq(Typeable))
    PROVE  /\ Len(q) \in Nat /\ q # <<>> => Len(Tail(q)) = Len(q) - 1
           /\ \A e : Len(Append(q, e)) = Len(q) + 1
  OBVIOUS

LEMMA NextKeepsBounds ==
    ASSUME Typed, Bounds, Next
    PROVE  Bounds'
  <1>1. /\ kb \in Seq(Seq(Typeable)) /\ tx \in Seq(Seq(Typeable)) /\ Len(<<>>) = 0
        /\ KbCapacity \in Nat /\ TxCapacity \in Nat
    BY Parts, ClientAssumption
  <1> USE <1>1, ChannelLengths DEF Bounds
  <1>2. ASSUME NEW chunk \in Chunks, Type(chunk) PROVE Bounds'
    BY <1>2 DEF Type, txVars
  <1>3. CASE Fewer
    BY <1>3 DEF Fewer
  <1>4. CASE ForwarderReads
    BY <1>4 DEF ForwarderReads, txVars
  <1>5. CASE ForwarderSends
    BY <1>5 DEF ForwarderSends, keyVars
  <1>6. CASE ListenerReads
    BY <1>6 DEF ListenerReads, txVars
  <1>7. CASE SenderSends
    BY <1>7 DEF SenderSends, keyVars
  <1> QED BY <1>2, <1>3, <1>4, <1>5, <1>6, <1>7, OtherStepsDrop

LEMMA SeqElements ==
    ASSUME NEW S, NEW q \in Seq(S)
    PROVE  /\ Len(q) \in Nat /\ DOMAIN q = 1..Len(q) /\ q \in [1..Len(q) -> S]
           /\ \A i \in 1..Len(q) : q[i] \in S
  OBVIOUS

(* A sequence is one over every set that has its elements.                 *)
LEMMA NarrowerSeq ==
    ASSUME NEW S, NEW T, NEW q \in Seq(S), \A i \in 1..Len(q) : q[i] \in T
    PROVE  q \in Seq(T)
  <1>1. Len(q) \in Nat /\ q \in [1..Len(q) -> S]
    BY SeqElements
  <1>2. q \in [1..Len(q) -> T]
    BY <1>1
  <1> QED BY <1>1, <1>2, SeqDef

(* A chunk none of whose bytes was typed too late is one of known bytes.   *)
LEMMA KnownBytes ==
    ASSUME NEW c \in Seq(Typeable), \A x \in Range(c) : x.at <= MaxTyped
    PROVE  c \in Seq(Bytes)
  <1>1. DOMAIN c = 1..Len(c) /\ \A i \in 1..Len(c) : c[i] \in Typeable
    BY SeqElements
  <1>2. \A i \in 1..Len(c) : c[i].at <= MaxTyped
    BY <1>1 DEF Range
  <1>3. \A i \in 1..Len(c) : c[i] \in Bytes
    BY <1>1, <1>2, ClientAssumption DEF Typeable, Bytes
  <1> QED BY <1>3, NarrowerSeq

LEMMA KnownChunks ==
    ASSUME NEW q \in Seq(Seq(Typeable)), \A x \in InSeqs(q) : x.at <= MaxTyped
    PROVE  q \in Seq(Seq(Bytes))
  <1>1. DOMAIN q = 1..Len(q) /\ \A i \in 1..Len(q) : q[i] \in Seq(Typeable)
    BY SeqElements
  <1>2. ASSUME NEW i \in 1..Len(q) PROVE q[i] \in Seq(Bytes)
    <2>1. Range(q[i]) \subseteq InSeqs(q)
      BY <1>1, InSeqsHas
    <2>2. \A x \in Range(q[i]) : x.at <= MaxTyped
      BY <2>1
    <2> QED BY <1>1, <2>2, KnownBytes
  <1> QED BY <1>2, NarrowerSeq

(* The client's variables keep their types, and its channels never hold    *)
(* more than their capacity (runtime.rs:1020-1446).                        *)
THEOREM TypeCorrect == Spec => []TypeOK
  <1>1. Init => Ranges /\ Bounds
    <2>1. Len(<<>>) = 0 /\ {0, MaxTyped, MaxAbandoned, KbCapacity, TxCapacity} \subseteq Nat
      BY ClientAssumption
    <2>2. Init => Bounds
      BY <2>1 DEF Init, Bounds
    <2>3. Init => 0 \in 0..MaxAbandoned /\ abandoned = 0
      BY <2>1 DEF Init
    <2>4. Init => Ranges
      BY <2>3 DEF Init, Ranges
    <2> QED BY <2>2, <2>4
  <1>2. IInv /\ Ranges /\ Bounds /\ [Next]_vars => Ranges' /\ Bounds'
    <2> SUFFICES ASSUME IInv, Ranges, Bounds, [Next]_vars PROVE Ranges' /\ Bounds'
      OBVIOUS
    <2>1. CASE Next
      BY <2>1, NextKeepsRanges, NextKeepsBounds DEF IInv
    <2>2. CASE UNCHANGED vars
      BY <2>2 DEF Ranges, Bounds, vars, keyVars, lockVars, txVars, exitVars, roundVars,
                  passVars, promptVars, idVars
    <2> QED BY <2>1, <2>2
  <1>3. IInv /\ Ranges /\ Bounds => TypeOK
    <2> SUFFICES ASSUME IInv, Ranges, Bounds PROVE TypeOK
      OBVIOUS
    <2> DEFINE all == InSeqs(tx) \cup Range(hand.bytes) \cup Back \cup InSeqs(kb)
    <2>1. /\ Typed /\ typed <= MaxTyped /\ typed \in Nat /\ MaxTyped \in Nat
          /\ (\A x \in all : x.at <= typed) /\ (\A i \in DOMAIN sent : sent[i] <= typed)
      BY Parts, ClientAssumption DEF IInv, Bounds, InLine, Ordered
    <2>2. /\ InSeqs(kb) \subseteq all /\ InSeqs(tx) \subseteq all
          /\ Range(hand.bytes) \subseteq all /\ Back \subseteq all
      OBVIOUS
    <2>3. \A x \in all : x.at \in Nat
      <3>1. all \subseteq Typeable
        BY <2>1, Parts, OrderedTypes
      <3> QED BY <3>1 DEF Typeable
    <2>4. \A x \in all : x.at <= MaxTyped
      BY <2>1, <2>3
    <2> HIDE DEF all
    <2>5. kb \in Seq(Seq(Bytes)) /\ tx \in Seq(Seq(Bytes)) /\ hand.bytes \in Seq(Bytes)
      BY <2>2, <2>4, <2>1, Parts, KnownChunks, KnownBytes
    <2>6. held \in Bytes
      BY <2>1, <2>2, <2>4, Parts DEF Back, Bytes, Typeable, NoByte, None
    <2>7. hand \in [bytes : Seq(Bytes), quits : BOOLEAN]
      <3>1. hand \in [bytes : Seq(Typeable), quits : BOOLEAN]
        BY Parts, <2>1
      <3> HIDE DEF Bytes
      <3> QED BY <3>1, <2>5
    <2>8. sent \in Seq(1..MaxTyped)
      <3>1. sent \in Seq(Nat \ {0})
        BY <2>1, Parts
      <3>2. DOMAIN sent = 1..Len(sent) /\ \A i \in 1..Len(sent) : sent[i] \in Nat \ {0}
        BY <3>1, SeqElements
      <3>3. \A i \in 1..Len(sent) : sent[i] \in 1..MaxTyped
        BY <2>1, <3>2
      <3> QED BY <3>1, <3>3, NarrowerSeq
    <2>9. typed \in 0..MaxTyped
      BY <2>1
    <2> QED BY <2>5, <2>6, <2>7, <2>8, <2>9 DEF TypeOK, Ranges, Bounds
  <1> QED BY <1>1, <1>2, <1>3, Invariant, PTL DEF Spec

-----------------------------------------------------------------------------
(* No byte gets lost *)

(* What leaves the line is sent, or quits, or repeats the prefix.          *)
Kept ==
    \A b \in Carried \ Carried' :
        b.at \in Range(sent') \/ hand'.quits \/ (b.key = "esc" /\ b # held)

(* A session serves on, and nobody has asked it to end. *)
Serves ==
    stage = "serving" /\ stage' = "serving" /\ link' = "up" /\ ~exit_token'
        /\ holder # "aborted"

CarriedOf(t, h, k, x) == InSeqs(k) \cup InSeqs(t) \cup Range(h) \cup ({x} \ {NoByte})

LEMMA CarriedIs ==
    /\ Carried = CarriedOf(tx, hand.bytes, kb, held)
    /\ Carried' = CarriedOf(tx', hand'.bytes, kb', held')
  BY DEF Carried, CarriedOf

LEMMA TypingLosesNothing ==
    ASSUME Typed, NEW chunk \in Chunks, Type(chunk)
    PROVE  Kept
  <1> DEFINE c == [i \in 1..Len(chunk) |-> Byte(typed + i, chunk[i])]
  <1>1. /\ kb' = Append(kb, c) /\ tx' = tx /\ hand' = hand /\ held' = held
    BY DEF Type, lockVars, txVars
  <1>2. c \in Seq(Typeable)
    <2>1. chunk \in Seq({"esc", "dot", "char"}) /\ Len(chunk) \in Nat
          /\ \A i \in 1..Len(chunk) : chunk[i] \in {"esc", "dot", "char"}
      BY ClientAssumption
    <2>2. \A i \in 1..Len(chunk) : Byte(typed + i, chunk[i]) \in Typeable
      BY <2>1 DEF Byte, Typeable, Typed
    <2> QED BY <2>1, <2>2
  <1> HIDE DEF c
  <1>3. InSeqs(kb') = InSeqs(kb) \cup Range(c)
    BY <1>1, <1>2, Parts, AnotherChunk
  <1>4. Carried \subseteq Carried'
    BY <1>1, <1>3, CarriedIs DEF CarriedOf
  <1> QED BY <1>4 DEF Kept

LEMMA ReadingLosesNothing ==
    ASSUME Typed, InLine, Serves, ForwarderReads
    PROVE  Kept
  <1> DEFINE d == Scan(Head(kb))
  <1>1. /\ kb # <<>> /\ hand = NoHand /\ kb' = Tail(kb) /\ sent' = sent /\ tx' = tx
        /\ held' = d.held /\ hand' = [bytes |-> d.bytes, quits |-> d.quits]
    BY DEF ForwarderReads, Quit, Serves, txVars
  <1> HIDE DEF d
  <1>2. Digested(d, held, Back \cup Range(Head(kb)))
    BY <1>1, ReadInOrder DEF d
  <1>3. InSeqs(kb) = Range(Head(kb)) \cup InSeqs(kb') /\ hand.bytes = <<>>
    BY <1>1, Parts, FirstChunk DEF NoHand
  <1>4. hand'.bytes = d.bytes /\ hand'.quits = d.quits
    BY <1>1
  <1>5. ASSUME NEW b \in Carried, b \notin Carried'
        PROVE  hand'.quits \/ (b.key = "esc" /\ b # held)
    <2>1. b \in Back \cup Range(Head(kb))
      BY <1>1, <1>3, <1>5, CarriedIs, NothingInOrder DEF CarriedOf, Back
    <2>2. b # NoByte
      <3>1. Back \cup Range(Head(kb)) \subseteq Typeable
        BY <1>1, Parts, FirstChunk DEF Range
      <3> QED BY <2>1, <3>1, NoByteIsNotTyped
    <2>3. b \notin Range(d.bytes) /\ b # d.held
      BY <1>1, <1>4, <1>5, <2>2, CarriedIs DEF CarriedOf
    <2> QED BY <1>2, <1>4, <2>1, <2>3 DEF Digested
  <1> QED BY <1>5 DEF Kept

LEMMA SendingLosesNothing ==
    ASSUME Typed, Serves, ForwarderSends
    PROVE  Kept
  <1>1. /\ kb' = kb /\ hand' = NoHand /\ held' = held /\ tx' = Append(tx, hand.bytes)
    BY DEF ForwarderSends, Quit, Serves, keyVars
  <1>2. InSeqs(tx') = InSeqs(tx) \cup Range(hand.bytes)
    BY <1>1, Parts, AnotherChunk
  <1>3. Carried \subseteq Carried'
    BY <1>1, <1>2, CarriedIs DEF CarriedOf
  <1> QED BY <1>3 DEF Kept

LEMMA TransportLosesNothing ==
    ASSUME Typed, InLine, SenderSends
    PROVE  Kept
  <1>1. /\ kb' = kb /\ hand' = hand /\ held' = held
        /\ tx # <<>> /\ tx' = Tail(tx) /\ sent' = sent \o Places(Head(tx))
    BY DEF SenderSends, keyVars, lockVars, Places
  <1>2. Head(tx) \in Seq(Typeable) /\ InSeqs(tx) = Range(Head(tx)) \cup InSeqs(tx')
    BY <1>1, Parts, FirstChunk
  <1>3. ASSUME NEW b \in Carried, b \notin Carried'
        PROVE  b.at \in Range(sent')
    <2>1. b \in Range(Head(tx))
      BY <1>1, <1>2, <1>3, CarriedIs DEF CarriedOf
    <2> DEFINE c == Head(tx)  p == Places(c)
    <2>2. PICK i \in DOMAIN c : b = c[i]
      BY <2>1 DEF Range
    <2>3. p \in Seq(Nat \ {0}) /\ DOMAIN p = DOMAIN c /\ p[i] = b.at
      <3>1. c \in Seq(Typeable)
        BY <1>2
      <3> HIDE DEF c
      <3>2. Len(c) \in Nat /\ DOMAIN c = 1..Len(c) /\ \A j \in 1..Len(c) : c[j] \in Typeable
        BY <3>1
      <3>3. \A j \in 1..Len(c) : c[j].at \in Nat \ {0}
        BY <3>2 DEF Typeable
      <3>4. p = [j \in 1..Len(c) |-> c[j].at]
        BY <3>2 DEF Places
      <3> QED BY <2>2, <3>2, <3>3, <3>4
    <2>4. DOMAIN p = 1..Len(p) /\ Len(p) \in Nat
      <3> HIDE DEF p
      <3> QED BY <2>3
    <2> HIDE DEF p, c
    <2>5. /\ DOMAIN (sent \o p) = 1..(Len(sent) + Len(p)) /\ Len(sent) \in Nat
          /\ (sent \o p)[Len(sent) + i] = p[i]
      BY <2>2, <2>3, <2>4, Parts, OneThenTheOther
    <2>6. Len(sent) + i \in DOMAIN (sent \o p)
      BY <2>2, <2>3, <2>4, <2>5
    <2>7. b.at \in Range(sent \o p)
      BY <2>3, <2>5, <2>6 DEF Range
    <2> QED BY <1>1, <2>7 DEF p, c
  <1> QED BY <1>3 DEF Kept

LEMMA NextLosesNothing ==
    ASSUME IInv, [Next]_vars, Serves
    PROVE  Kept
  <1> USE DEF IInv
  <1>1. ASSUME UNCHANGED <<kb, tx, hand, held>> PROVE Kept
    <2>1. Carried' = Carried
      BY <1>1, CarriedIs
    <2> QED BY <2>1 DEF Kept
  <1>2. CASE \E chunk \in Chunks : Type(chunk)
    BY <1>2, TypingLosesNothing
  <1>3. CASE Take("forwarder") \/ Take("listener")
    BY <1>1, <1>3 DEF Take, Turns, keyVars, txVars
  <1>4. CASE ForwarderReads \/ ForwarderSends
    BY <1>4, ReadingLosesNothing, SendingLosesNothing
  <1>5. CASE ForwarderStops \/ AbortedIsDropped
    BY <1>5 DEF ForwarderStops, AbortedIsDropped, Serves, Turns, exitVars
  <1>6. CASE ListenerReads
    BY <1>6 DEF ListenerReads, Serves, Turns
  <1>7. CASE ListenerStops
    BY <1>7 DEF ListenerStops, Serves, Turns
  <1>8. CASE SenderSends
    BY <1>8, TransportLosesNothing
  <1>9. CASE SenderEnds
    BY <1>9 DEF SenderEnds, Serves
  <1>10. CASE PromptHost \/ AnswerHost \/ ReaderEnds \/ OtherClientWrites
    BY <1>1, <1>10 DEF PromptHost, AnswerHost, ReaderEnds, OtherClientWrites,
                       keyVars, lockVars, txVars
  <1>11. CASE Loop
    <2>1. stage' # "serving" \/ stage # "serving"
      BY <1>11 DEF Loop, Connect, PromptPassphrase, AnswerPassphrase, AttemptFails,
                   AttemptSucceeds, SessionWakes, SessionCloses, AbortForwarder,
                   AfterSession, StartCountdown, CountdownEnds, LeaveCountdown
    <2> QED BY <2>1 DEF Serves
  <1>12. CASE UNCHANGED vars
    BY <1>1, <1>12 DEF vars, keyVars, lockVars, txVars
  <1> QED BY <1>2, <1>3, <1>4, <1>5, <1>6, <1>7, <1>8, <1>9, <1>10, <1>11, <1>12
          DEF Next, Keyboard

(* While a session serves, no typed byte gets lost on its way to the       *)
(* transport but a repeated prefix and what comes with the quit sequence   *)
(* (runtime.rs:1358-1389).                                                 *)
THEOREM KeysKeptHolds == Spec => KeysKept
  <1>1. IInv /\ [Next]_vars => (Serves => Kept)
    BY NextLosesNothing
  <1>2. IInv /\ [Next]_vars =>
            [ Serves => \A b \in Carried \ Carried' :
                b.at \in Range(sent') \/ hand'.quits \/ (b.key = "esc" /\ b # held) ]_vars
    BY <1>1 DEF Kept
  <1> QED BY <1>2, Invariant, PTL DEF Spec, KeysKept, Serves

-----------------------------------------------------------------------------
(***************************************************************************)
(* The terminal that the session's tasks draw on (ClientScreen): once all  *)
(* is sent, it shows the server's screen.                                  *)
(*                                                                         *)
(* The renderer never looks at the terminal, and it is not true that the   *)
(* terminal is always what the renderer believes to be displayed: updates  *)
(* are under way, some overtook others, the warning was written past it,   *)
(* the window has another size.  What holds is a claim about the updates   *)
(* that are not sent yet (IsChain): some last part of them, applied in the *)
(* order they were rendered in, leads to the rows believed to be           *)
(* displayed, and this part begins with one that clears the screen, or     *)
(* begins right after the updates that were overtaken.  If nothing was     *)
(* overtaken since the last repaint, it leads there from the terminal as   *)
(* it is now.  Sending the next update of that part shortens it, sending a *)
(* later one makes all the earlier ones late, and a full repaint, the only *)
(* thing a renderer may do after a resize or a warning, starts it anew.    *)
(***************************************************************************)

(* Sequences, of rows and of updates, and screens.                         *)
IsSeq(r) == r \in Seq(Range(r))
IsScreen(s) ==
    /\ s = [alt |-> s.alt, rows |-> s.rows, under |-> s.under]
    /\ IsSeq(s.rows) /\ IsSeq(s.under)

(* What an update makes of the rows of a screen that does not switch, or   *)
(* that it clears.                                                         *)
Applied(r, out) ==
    [i \in DOMAIN r |-> IF i \in DOMAIN out.rows THEN out.rows[i]
                        ELSE IF out.clear THEN Blank ELSE Up(r, out.scroll)[i]]
IsUpdate(out) == (out.clear \/ out.switch = "none")

LEMMA MakesSeq ==
    ASSUME NEW n \in Nat, NEW r, DOMAIN r = 1 .. n, r = [i \in DOMAIN r |-> r[i]]
    PROVE  IsSeq(r) /\ Len(r) = n
  <1>1. r \in [1 .. n -> Range(r)]
    BY DEF Range
  <1>2. r \in Seq(Range(r))
    BY <1>1, SeqDef
  <1>3. Len(r) = n
    BY <1>2
  <1> QED BY <1>2, <1>3 DEF IsSeq

LEMMA SeqHas ==
    ASSUME NEW r, IsSeq(r)
    PROVE  Len(r) \in Nat /\ DOMAIN r = 1 .. Len(r) /\ r = [i \in DOMAIN r |-> r[i]]
  BY DEF IsSeq

LEMMA ScreenOf ==
    ASSUME NEW side, NEW rows, NEW under, IsSeq(rows), IsSeq(under)
    PROVE  LET s == [alt |-> side, rows |-> rows, under |-> under]
           IN  IsScreen(s) /\ s.alt = side /\ s.rows = rows /\ s.under = under
  BY DEF IsScreen

LEMMA ScreenWith ==
    ASSUME NEW s, IsScreen(s), NEW rows, IsSeq(rows)
    PROVE  LET t == [s EXCEPT !.rows = rows]
           IN  IsScreen(t) /\ t.alt = s.alt /\ t.rows = rows /\ t.under = s.under
  <1>1. [s EXCEPT !.rows = rows] = [alt |-> s.alt, rows |-> rows, under |-> s.under]
    BY DEF IsScreen
  <1> QED BY <1>1, ScreenOf DEF IsScreen

LEMMA OneField ==
    ASSUME NEW s, NEW v, s = [alt |-> s.alt, rows |-> s.rows, under |-> s.under]
    PROVE  /\ [s EXCEPT !.alt = v] = [alt |-> v, rows |-> s.rows, under |-> s.under]
           /\ [s EXCEPT !.rows = v] = [alt |-> s.alt, rows |-> v, under |-> s.under]
           /\ [s EXCEPT !.under = v] = [alt |-> s.alt, rows |-> s.rows, under |-> v]
  OBVIOUS

LEMMA SizeIsSet ==
    ASSUME NEW s, IsScreen(s), NEW n \in Nat
    PROVE  LET t == SetSize(s, n)
           IN  IsScreen(t) /\ Len(t.rows) = n /\ Len(t.under) = n
  <1> DEFINE r == [s EXCEPT !.rows = Fit(s.rows, n)]
  <1>0. r = [alt |-> s.alt, rows |-> Fit(s.rows, n), under |-> s.under]
    BY OneField DEF IsScreen
  <1>3. SetSize(s, n) = [r EXCEPT !.under = Fit(s.under, n)]
    BY DEF SetSize
  <1> HIDE DEF r
  <1>1. SetSize(s, n) = [alt |-> s.alt, rows |-> Fit(s.rows, n), under |-> Fit(s.under, n)]
    BY <1>0, <1>3
  <1>2. ASSUME NEW q PROVE IsSeq(Fit(q, n)) /\ Len(Fit(q, n)) = n
    BY MakesSeq DEF Fit
  <1> QED BY <1>1, <1>2, ScreenOf

LEMMA BlankRows ==
    ASSUME NEW n \in Nat, NEW v
    PROVE  IsSeq(Rows(n, v)) /\ Len(Rows(n, v)) = n
  BY MakesSeq DEF Rows

LEMMA NewScreen ==
    ASSUME NEW n \in Nat
    PROVE  LET s == Screen(n)
           IN  IsScreen(s) /\ Len(s.rows) = n /\ Len(s.under) = n
  BY BlankRows, ScreenOf DEF Screen

LEMMA Entered ==
    ASSUME NEW s, IsScreen(s)
    PROVE  LET t == EnterAlt(s)
           IN  /\ IsScreen(t) /\ Len(t.rows) = Len(s.rows)
               /\ Len(s.under) = Len(s.rows) => Len(t.under) = Len(s.rows)
  <1> DEFINE u == IF s.alt THEN s.under ELSE s.rows
             r == Rows(Len(s.rows), Blank)
  <1>1. IsSeq(u) /\ IsSeq(r) /\ Len(r) = Len(s.rows)
    BY BlankRows, SeqHas DEF IsScreen
  <1>2. ASSUME NEW y, NEW a, NEW b
        PROVE  [s EXCEPT !.alt = y, !.under = a, !.rows = b] = [alt |-> y, rows |-> b, under |-> a]
    <2> DEFINE s1 == [s EXCEPT !.alt = y]
               s2 == [s1 EXCEPT !.under = a]
    <2>1. [s EXCEPT !.alt = y, !.under = a, !.rows = b] = [s2 EXCEPT !.rows = b]
      OBVIOUS
    <2>2. s1 = [alt |-> y, rows |-> s.rows, under |-> s.under]
      BY OneField DEF IsScreen
    <2> HIDE DEF s1
    <2>3. s2 = [alt |-> y, rows |-> s.rows, under |-> a]
      BY <2>2
    <2> HIDE DEF s2
    <2> QED BY <2>1, <2>3
  <1>3. EnterAlt(s) = [s EXCEPT !.alt = TRUE, !.under = u, !.rows = r]
    BY DEF EnterAlt
  <1> HIDE DEF u, r
  <1>4. EnterAlt(s) = [alt |-> TRUE, rows |-> r, under |-> u]
    BY <1>2, <1>3, Zenon
  <1>5. ASSUME Len(s.under) = Len(s.rows) PROVE Len(u) = Len(s.rows)
    BY <1>5 DEF u
  <1> QED BY <1>1, <1>4, <1>5, ScreenOf

LEMMA Left ==
    ASSUME NEW s, IsScreen(s)
    PROVE  LET t == LeaveAlt(s)
           IN  /\ IsScreen(t)
               /\ Len(s.under) = Len(s.rows) => Len(t.rows) = Len(s.rows) /\ Len(t.under) = Len(s.rows)
  <1>1. ASSUME NEW y, NEW b
        PROVE  [s EXCEPT !.alt = y, !.rows = b] = [alt |-> y, rows |-> b, under |-> s.under]
    <2> DEFINE r == [s EXCEPT !.alt = y]
    <2>1. [s EXCEPT !.alt = y, !.rows = b] = [r EXCEPT !.rows = b]
      OBVIOUS
    <2>2. r = [alt |-> y, rows |-> s.rows, under |-> s.under]
      BY OneField DEF IsScreen
    <2> HIDE DEF r
    <2> QED BY <2>1, <2>2
  <1>2. CASE s.alt
    <2>1. LeaveAlt(s) = [alt |-> FALSE, rows |-> s.under, under |-> s.under]
      BY <1>1, <1>2, Zenon DEF LeaveAlt
    <2> QED BY <2>1, ScreenOf DEF IsScreen
  <1>3. CASE ~s.alt
    BY <1>3 DEF LeaveAlt
  <1> QED BY <1>2, <1>3

LEMMA WrittenRows ==
    ASSUME NEW s, IsScreen(s), NEW out, IsUpdate(out)
    PROVE  LET t == Written(s, out)
           IN  IsScreen(t) /\ t.rows = Applied(s.rows, out) /\ Len(t.rows) = Len(s.rows)
  <1> DEFINE switched == CASE out.switch = "in" -> EnterAlt(s)
                           [] out.switch = "out" -> LeaveAlt(s)
                           [] OTHER -> s
             base == IF out.clear THEN Rows(Len(s.rows), Blank)
                     ELSE Up(switched.rows, out.scroll)
             result == [i \in DOMAIN base |-> IF i \in DOMAIN out.rows THEN out.rows[i] ELSE base[i]]
  <1>1. IsScreen(switched)
    BY Entered, Left
  <1>2. ~out.clear => switched = s
    BY DEF IsUpdate
  <1>3. Len(s.rows) \in Nat /\ DOMAIN s.rows = 1 .. Len(s.rows)
    BY SeqHas DEF IsScreen
  <1>4. DOMAIN base = DOMAIN s.rows
    BY <1>2, <1>3 DEF Rows, Up
  <1>5. result = Applied(s.rows, out)
    BY <1>2, <1>3, <1>4 DEF Applied, Rows, Up
  <1>6. IsSeq(result) /\ Len(result) = Len(s.rows)
    BY <1>3, <1>4, MakesSeq
  <1>7. Written(s, out) = [switched EXCEPT !.rows = result]
    BY DEF Written
  <1> HIDE DEF switched, result
  <1> QED BY <1>1, <1>5, <1>6, <1>7, ScreenWith

-----------------------------------------------------------------------------
LEMMA OutputScreen ==
    ASSUME NEW s, IsScreen(s), Len(s.under) = Len(s.rows), NEW t \in Outputs(s)
    PROVE  IsScreen(t) /\ Len(t.under) = Len(t.rows) /\ Len(t.rows) = Len(s.rows)
  <1>1. Len(s.rows) \in Nat /\ DOMAIN s.rows = 1 .. Len(s.rows) /\ s.rows = [i \in DOMAIN s.rows |-> s.rows[i]]
    BY SeqHas DEF IsScreen
  <1>2. ASSUME NEW v, t = [s EXCEPT !.rows = [Up(@, 1) EXCEPT ![Len(s.rows)] = v]]
        PROVE  IsScreen(t) /\ Len(t.under) = Len(t.rows) /\ Len(t.rows) = Len(s.rows)
    <2> DEFINE r == [Up(s.rows, 1) EXCEPT ![Len(s.rows)] = v]
    <2>1. IsSeq(r) /\ Len(r) = Len(s.rows)
      BY <1>1, MakesSeq DEF Up
    <2>2. t = [s EXCEPT !.rows = r]
      BY <1>2
    <2> HIDE DEF r
    <2> QED BY <2>1, <2>2, ScreenWith
  <1>3. ASSUME NEW i \in DOMAIN s.rows, NEW v, t = [s EXCEPT !.rows[i] = v]
        PROVE  IsScreen(t) /\ Len(t.under) = Len(t.rows) /\ Len(t.rows) = Len(s.rows)
    <2> DEFINE r == [s.rows EXCEPT ![i] = v]
    <2>1. IsSeq(r) /\ Len(r) = Len(s.rows)
      BY <1>1, MakesSeq
    <2>2. t = [s EXCEPT !.rows = r]
      BY <1>3
    <2> HIDE DEF r
    <2> QED BY <2>1, <2>2, ScreenWith
  <1>4. CASE t = LeaveAlt(s)
    BY <1>4, Left
  <1>5. CASE t = EnterAlt(s)
    BY <1>5, Entered
  <1>6. \/ \E v \in Text : t = [s EXCEPT !.rows = [Up(@, 1) EXCEPT ![Len(s.rows)] = v]]
        \/ \E i \in DOMAIN s.rows, v \in Text : t = [s EXCEPT !.rows[i] = v]
        \/ t = LeaveAlt(s)
        \/ t = EnterAlt(s)
    <2> DEFINE A == {[s EXCEPT !.rows = [Up(@, 1) EXCEPT ![Len(s.rows)] = v]] : v \in Text}
               B == {[s EXCEPT !.rows[i] = v] : i \in DOMAIN s.rows, v \in Text}
    <2>1. t \in A \/ t \in B \/ t = LeaveAlt(s) \/ t = EnterAlt(s)
      <3>1. t \in A \cup B \cup {IF s.alt THEN LeaveAlt(s) ELSE EnterAlt(s)}
        BY DEF Outputs
      <3> HIDE DEF A, B
      <3> QED BY <3>1
    <2>2. t \in A => \E v \in Text : t = [s EXCEPT !.rows = [Up(@, 1) EXCEPT ![Len(s.rows)] = v]]
      BY Zenon
    <2>3. t \in B => \E i \in DOMAIN s.rows, v \in Text : t = [s EXCEPT !.rows[i] = v]
      OBVIOUS
    <2> HIDE DEF A, B
    <2> QED BY <2>1, <2>2, <2>3, Zenon
  <1> QED BY <1>2, <1>3, <1>4, <1>5, <1>6, Zenon

(* The screen that replace_parser puts in the place of the old one.        *)
Replacing(n, old, side, v) ==
    [Screen(n) EXCEPT !.alt = side, !.rows = [Up(Fit(old, n), 1) EXCEPT ![1] = v]]

LEMMA ReplacedScreen ==
    ASSUME NEW n \in Nat, NEW old, NEW side, NEW v
    PROVE  LET t == Replacing(n, old, side, v)
           IN  IsScreen(t) /\ Len(t.under) = Len(t.rows) /\ Len(t.rows) = n
  <1> DEFINE s == Screen(n)
             r == [s EXCEPT !.alt = side]
             b == [Up(Fit(old, n), 1) EXCEPT ![1] = v]
             t == Replacing(n, old, side, v)
  <1>1. IsScreen(s) /\ Len(s.under) = n
    BY NewScreen
  <1>2. IsSeq(b) /\ Len(b) = n
    BY MakesSeq DEF Up, Fit
  <1>3. t = [s EXCEPT !.alt = side, !.rows = b]
    BY DEF Replacing
  <1> HIDE DEF s, b, t
  <1>4. t = [r EXCEPT !.rows = b]
    BY <1>3
  <1>5. r = [alt |-> side, rows |-> s.rows, under |-> s.under]
    BY <1>1, OneField DEF IsScreen
  <1> HIDE DEF r
  <1>6. t = [alt |-> side, rows |-> b, under |-> s.under]
    BY <1>4, <1>5
  <1>7. IsScreen(t) /\ Len(t.under) = Len(t.rows) /\ Len(t.rows) = n
    BY <1>1, <1>2, <1>6, ScreenOf DEF IsScreen
  <1> QED BY <1>7 DEF t

Sized == reader = [pc |-> reader.pc, size |-> reader.size] /\ reader.size \in Nat

LEMMA ParserReplaced ==
    ASSUME Sized, ReplaceParser
    PROVE  /\ IsScreen(emulator') /\ Len(emulator'.under) = Len(emulator'.rows)
           /\ Len(emulator'.rows) = reader.size
  <1>1. PICK n \in Nat : n = reader.size
    BY DEF Sized
  <1>2. PICK old : old = emulator.rows
    OBVIOUS
  <1>3. \E side, v : emulator' = Replacing(n, old, side, v)
    BY <1>1, <1>2 DEF ReplaceParser, Replacing
  <1> QED BY <1>1, <1>3, ReplacedScreen

-----------------------------------------------------------------------------
LEMMA RenderedRows ==
    ASSUME IsScreen(displayed), NEW target, IsScreen(target), NEW p, NEW init
    PROVE  LET out == Render(target, p, init)
               t == Written(displayed, out)
           IN  /\ IsUpdate(out) /\ (~init => out.clear)
               /\ IsScreen(t) /\ Len(t.rows) = Len(displayed.rows)
               /\ t.rows = Applied(displayed.rows, out)
               /\ \A i \in DOMAIN displayed.rows \cap DOMAIN target.rows :
                     t.rows[i] = IF i = p THEN Predicted ELSE target.rows[i]
  <1> DEFINE out == Render(target, p, init)
             frame == Frame(target, p)
             t == Written(displayed, out)
  <1>1. out = Differential(target, frame) \/ out = Full(target, frame)
    BY DEF Render
  <1>2. ~init => out = Full(target, frame)
    BY DEF Render
  <1>3. Full(target, frame).clear /\ Full(target, frame).rows = frame
    BY DEF Full
  <1>4. LET d == Differential(target, frame)
        IN  /\ d.switch = "none" /\ ~d.clear
            /\ d.rows = Diff(Up(displayed.rows, d.scroll), frame)
    BY DEF Differential
  <1>5. IsUpdate(out)
    BY <1>1, <1>3, <1>4 DEF IsUpdate
  <1>6. IsScreen(t) /\ t.rows = Applied(displayed.rows, out) /\ Len(t.rows) = Len(displayed.rows)
    BY <1>5, WrittenRows
  <1> HIDE DEF out, t
  <1>7. ASSUME NEW i \in DOMAIN displayed.rows, i \in DOMAIN target.rows
        PROVE  t.rows[i] = IF i = p THEN Predicted ELSE target.rows[i]
    <2>1. DOMAIN frame = DOMAIN target.rows /\ frame[i] = IF i = p THEN Predicted ELSE target.rows[i]
      BY <1>7 DEF Frame
    <2> HIDE DEF frame
    <2>2. CASE out = Full(target, frame)
      <3>1. out.rows = frame
        BY <2>2, <1>3
      <3> QED BY <3>1, <2>1, <1>6, <1>7 DEF Applied
    <2>3. CASE out = Differential(target, frame)
      <3> DEFINE up == Up(displayed.rows, out.scroll)
      <3>1. out.rows = Diff(up, frame) /\ ~out.clear
        BY <2>3, <1>4
      <3>2. i \in DOMAIN up
        BY DEF Up
      <3>3. t.rows[i] = IF i \in DOMAIN out.rows THEN out.rows[i] ELSE up[i]
        BY <1>6, <3>1 DEF Applied
      <3> HIDE DEF up
      <3> QED BY <3>1, <3>2, <3>3, <2>1, <1>7 DEF Diff
    <2> QED BY <1>1, <2>2, <2>3
  <1>8. ~init => out.clear
    BY <1>2, <1>3 DEF out
  <1> QED BY <1>5, <1>6, <1>7, <1>8 DEF out, t

-----------------------------------------------------------------------------
LEMMA OneMore ==
    ASSUME NEW q, IsSeq(q), NEW e
    PROVE  /\ IsSeq(Append(q, e)) /\ Len(Append(q, e)) = Len(q) + 1
           /\ \A j \in 1 .. Len(q) : Append(q, e)[j] = q[j]
           /\ Append(q, e)[Len(q) + 1] = e
  <1> DEFINE S == Range(q) \cup {e}
  <1>1. q \in Seq(S)
    BY SeqMonotonic DEF IsSeq
  <1>2. /\ Append(q, e) \in Seq(S) /\ Len(Append(q, e)) = Len(q) + 1
        /\ \A j \in 1 .. Len(q) : Append(q, e)[j] = q[j]
        /\ Append(q, e)[Len(q) + 1] = e
    BY <1>1, AppendProperties
  <1>3. IsSeq(Append(q, e))
    BY <1>2, SeqOfRange DEF IsSeq
  <1> QED BY <1>2, <1>3

LEMMA OneLess ==
    ASSUME NEW q, IsSeq(q), NEW i \in 1 .. Len(q)
    PROVE  LET r == RemoveAt(q, i)
           IN  /\ IsSeq(r) /\ Len(r) = Len(q) - 1
               /\ \A j \in 1 .. Len(q) - 1 : r[j] = IF j < i THEN q[j] ELSE q[j + 1]
  <1> DEFINE S == Range(q)
             before == SubSeq(q, 1, i - 1)
             after  == SubSeq(q, i + 1, Len(q))
  <1>1. q \in Seq(S) /\ Len(q) \in Nat /\ \A j \in 1 .. Len(q) : q[j] \in S
    BY DEF IsSeq
  <1> HIDE DEF S
  <1>2. /\ before \in Seq(S) /\ Len(before) = i - 1
        /\ \A j \in 1 .. i - 1 : before[j] = q[j]
    <2>1. \A j \in 1 .. i - 1 : q[j] \in S
      BY <1>1
    <2>2. /\ before \in Seq(S) /\ Len(before) = IF 1 <= i - 1 THEN (i - 1) - 1 + 1 ELSE 0
          /\ \A j \in 1 .. (i - 1) - 1 + 1 : before[j] = q[1 + j - 1]
      BY <2>1, SubSeqProperties
    <2> QED BY <2>2
  <1>3. /\ after \in Seq(S) /\ Len(after) = Len(q) - i
        /\ \A j \in 1 .. Len(q) - i : after[j] = q[i + j]
    <2>1. \A j \in i + 1 .. Len(q) : q[j] \in S
      BY <1>1
    <2>2. /\ after \in Seq(S) /\ Len(after) = IF i + 1 <= Len(q) THEN Len(q) - (i + 1) + 1 ELSE 0
          /\ \A j \in 1 .. Len(q) - (i + 1) + 1 : after[j] = q[(i + 1) + j - 1]
      BY <1>1, <2>1, SubSeqProperties
    <2> QED BY <1>1, <2>2
  <1>4. RemoveAt(q, i) = before \o after
    BY DEF RemoveAt
  <1> HIDE DEF before, after
  <1>5. /\ before \o after \in Seq(S)
        /\ Len(before \o after) = Len(before) + Len(after)
        /\ \A j \in 1 .. Len(before) + Len(after) :
              (before \o after)[j] = IF j <= Len(before) THEN before[j] ELSE after[j - Len(before)]
    BY <1>2, <1>3, ConcatProperties
  <1>6. ASSUME NEW j \in 1 .. Len(q) - 1
        PROVE  (before \o after)[j] = IF j < i THEN q[j] ELSE q[j + 1]
    <2>1. CASE j < i
      BY <2>1, <1>1, <1>2, <1>3, <1>5
    <2>2. CASE ~(j < i)
      <3>1. j - (i - 1) \in 1 .. Len(q) - i /\ i + (j - (i - 1)) = j + 1
        BY <2>2, <1>1
      <3>2. (before \o after)[j] = after[j - (i - 1)]
        BY <2>2, <1>1, <1>2, <1>3, <1>5
      <3> QED BY <2>2, <3>1, <3>2, <1>3
    <2> QED BY <2>1, <2>2
  <1>7. IsSeq(before \o after)
    BY <1>5, SeqOfRange DEF IsSeq
  <1> QED BY <1>1, <1>2, <1>3, <1>4, <1>5, <1>6, <1>7

-----------------------------------------------------------------------------
IsHeld(e) == e = [task |-> e.task, out |-> e.out, late |-> e.late] /\ IsUpdate(e.out)

Shape ==
    /\ IsScreen(emulator) /\ Len(emulator.under) = Len(emulator.rows)
    /\ IsScreen(displayed) /\ IsScreen(terminal)
    /\ IsSeq(unsent) /\ \A j \in 1 .. Len(unsent) : IsHeld(unsent[j])

SameSize == resizer = "idle" => Len(displayed.rows) = Len(terminal.rows)

(* What was rendered last is the server's screen, with the prediction.     *)
Merged ==
    (initialized /\ resizer = "idle" /\ reader.pc # "render") =>
        \A i \in DOMAIN displayed.rows \cap DOMAIN emulator.rows :
            displayed.rows[i] \in {emulator.rows[i]} \cup IF i = overlay THEN {Predicted} ELSE {}

(* The updates from k + 1 on, on top of the rows t[k], make the rows that  *)
(* the renderer believes to be displayed; the first of them clears the     *)
(* screen, or nothing but updates that come too late are still before it.  *)
IsChain(k, t) ==
    /\ k \in 0 .. Len(unsent)
    /\ \A j \in k .. Len(unsent) : DOMAIN t[j] = DOMAIN terminal.rows
    /\ t[Len(unsent)] = displayed.rows
    /\ \A j \in k + 1 .. Len(unsent) : ~unsent[j].late /\ t[j] = Applied(t[j - 1], unsent[j].out)
    /\ \/ k < Len(unsent) /\ unsent[k + 1].out.clear
       \/ (k = 0 \/ unsent[k].late) /\ ((inOrder /\ k = 0) => t[0] = terminal.rows)

Repaired == initialized /\ resizer = "idle" /\ warner = "done"
Chained == Repaired => \E k, t : IsChain(k, t)

RendererInv == Shape /\ Sized /\ SameSize /\ Merged /\ Chained

LEMMA MarkedLate ==
    ASSUME NEW e, IsHeld(e), NEW y
    PROVE  LET r == [e EXCEPT !.late = y] IN IsHeld(r) /\ r.out = e.out /\ r.late = y
  <1>1. [e EXCEPT !.late = y] = [task |-> e.task, out |-> e.out, late |-> y]
    BY DEF IsHeld
  <1> QED BY <1>1 DEF IsHeld

(* What is unsent once the update i is sent.                                 *)
LEMMA HeldAfter ==
    ASSUME Shape, NEW i \in DOMAIN unsent, SendStdout(i)
    PROVE  /\ i \in 1 .. Len(unsent) /\ Len(unsent) \in Nat
           /\ IsSeq(unsent') /\ Len(unsent') = Len(unsent) - 1
           /\ \A j \in 1 .. Len(unsent') :
                 /\ IsHeld(unsent'[j])
                 /\ j < i => unsent'[j].out = unsent[j].out /\ unsent'[j].late
                 /\ ~(j < i) => unsent'[j].out = unsent[j + 1].out /\ (unsent'[j].late <=> unsent[j + 1].late)
  <1> DEFINE marked == [j \in DOMAIN unsent |-> [unsent[j] EXCEPT !.late = @ \/ j < i]]
  <1>1. Len(unsent) \in Nat /\ DOMAIN unsent = 1 .. Len(unsent) /\ \A j \in 1 .. Len(unsent) : IsHeld(unsent[j])
    BY SeqHas DEF Shape
  <1>2. ASSUME NEW j \in 1 .. Len(unsent)
        PROVE  /\ IsHeld(marked[j]) /\ marked[j].out = unsent[j].out
               /\ marked[j].late <=> (unsent[j].late \/ j < i)
    <2> DEFINE y == unsent[j].late \/ j < i
    <2>1. marked[j] = [unsent[j] EXCEPT !.late = y]
      BY <1>1
    <2>2. IsHeld(unsent[j])
      BY <1>1
    <2> HIDE DEF marked, y
    <2>3. IsHeld(marked[j]) /\ marked[j].out = unsent[j].out /\ marked[j].late = y
      BY <2>1, <2>2, MarkedLate
    <2> QED BY <2>3, Zenon DEF y
  <1>3. IsSeq(marked) /\ Len(marked) = Len(unsent)
    BY <1>1, MakesSeq
  <1>4. unsent' = RemoveAt(marked, i)
    BY DEF SendStdout, RemoveAt, RemoveAt
  <1> HIDE DEF marked
  <1>5. /\ IsSeq(unsent') /\ Len(unsent') = Len(unsent) - 1
        /\ \A j \in 1 .. Len(unsent) - 1 : unsent'[j] = IF j < i THEN marked[j] ELSE marked[j + 1]
    BY <1>1, <1>3, <1>4, OneLess
  <1>6. ASSUME NEW j \in 1 .. Len(unsent')
        PROVE  /\ IsHeld(unsent'[j])
               /\ j < i => unsent'[j].out = unsent[j].out /\ unsent'[j].late
               /\ ~(j < i) => unsent'[j].out = unsent[j + 1].out /\ (unsent'[j].late <=> unsent[j + 1].late)
    <2>1. CASE j < i
      <3>1. unsent'[j] = marked[j] /\ j \in 1 .. Len(unsent)
        BY <2>1, <1>1, <1>5
      <3> QED BY <2>1, <3>1, <1>2
    <2>2. CASE ~(j < i)
      <3>1. unsent'[j] = marked[j + 1] /\ j + 1 \in 1 .. Len(unsent) /\ ~(j + 1 < i)
        BY <2>2, <1>1, <1>5
      <3> QED BY <2>2, <3>1, <1>2
    <2> QED BY <2>1, <2>2
  <1> QED BY <1>1, <1>5, <1>6

LEMMA SendKeeps ==
    ASSUME RendererInv, NEW i \in DOMAIN unsent, SendStdout(i)
    PROVE  RendererInv'
  <1> DEFINE out == unsent[i].out
  <1>1. /\ i \in 1 .. Len(unsent) /\ Len(unsent) \in Nat
        /\ IsSeq(unsent') /\ Len(unsent') = Len(unsent) - 1
        /\ \A j \in 1 .. Len(unsent') :
              /\ IsHeld(unsent'[j])
              /\ j < i => unsent'[j].out = unsent[j].out /\ unsent'[j].late
              /\ ~(j < i) => unsent'[j].out = unsent[j + 1].out /\ (unsent'[j].late <=> unsent[j + 1].late)
    BY HeldAfter DEF RendererInv
  <1>2. /\ terminal' = Written(terminal, out)
        /\ inOrder' <=> ~unsent[i].late /\ (inOrder \/ out.clear)
        /\ UNCHANGED <<emulator, overlay, displayed, initialized, reader, resizer, warner>>
    BY DEF SendStdout, renderer
  <1>3. IsUpdate(out)
    BY <1>1 DEF RendererInv, Shape, IsHeld
  <1> HIDE DEF out
  <1>4. IsScreen(terminal') /\ terminal'.rows = Applied(terminal.rows, out) /\ Len(terminal'.rows) = Len(terminal.rows)
    BY <1>2, <1>3, WrittenRows DEF RendererInv, Shape
  <1>5. Shape' /\ Sized' /\ SameSize' /\ Merged'
    BY <1>1, <1>2, <1>4 DEF RendererInv, Shape, Sized, SameSize, Merged
  <1>6. DOMAIN terminal'.rows = DOMAIN terminal.rows
    BY <1>4 DEF Applied
  <1>7. ASSUME Repaired' PROVE \E k, t : IsChain(k, t)'
    <2>1. PICK k, t : IsChain(k, t)
      BY <1>2, <1>7 DEF RendererInv, Chained, Repaired
    <2> DEFINE n == Len(unsent)
               u == [j \in Nat |-> t[j + 1]]
    <2>2. /\ k \in 0 .. n
          /\ \A j \in k .. n : DOMAIN t[j] = DOMAIN terminal.rows
          /\ t[n] = displayed.rows
          /\ \A j \in k + 1 .. n : ~unsent[j].late /\ t[j] = Applied(t[j - 1], unsent[j].out)
      BY <2>1 DEF IsChain
    <2>3. \/ k < n /\ unsent[k + 1].out.clear
          \/ (k = 0 \/ unsent[k].late) /\ ((inOrder /\ k = 0) => t[0] = terminal.rows)
      BY <2>1 DEF IsChain
    <2>4. \A j \in 0 .. n - 1 : u[j] = t[j + 1]
      BY <1>1
    <2> HIDE DEF n, u
    <2>5. n \in Nat /\ Len(unsent') = n - 1 /\ i \in 1 .. n
      BY <1>1 DEF n
    <2>6. ASSUME NEW m \in 0 .. n - 1, m = IF i <= k THEN k - 1 ELSE i - 1
          PROVE  /\ \A j \in m .. n - 1 : DOMAIN u[j] = DOMAIN terminal'.rows
                 /\ u[n - 1] = displayed'.rows
                 /\ \A j \in m + 1 .. n - 1 : ~unsent'[j].late /\ u[j] = Applied(u[j - 1], unsent'[j].out)
      <3>1. ASSUME NEW j \in m .. n - 1 PROVE DOMAIN u[j] = DOMAIN terminal'.rows
        <4>1. j \in 0 .. n - 1 /\ j + 1 \in k .. n
          BY <2>2, <2>5, <2>6
        <4> QED BY <4>1, <2>2, <2>4, <1>6
      <3>2. u[n - 1] = displayed'.rows
        <4>1. n - 1 \in 0 .. n - 1 /\ (n - 1) + 1 = n
          BY <2>5
        <4> QED BY <4>1, <2>2, <2>4, <1>2
      <3>3. ASSUME NEW j \in m + 1 .. n - 1
            PROVE  ~unsent'[j].late /\ u[j] = Applied(u[j - 1], unsent'[j].out)
        <4>1. /\ j \in 0 .. n - 1 /\ j - 1 \in 0 .. n - 1 /\ (j - 1) + 1 = j
              /\ j + 1 \in k + 1 .. n /\ (j + 1) - 1 = j
              /\ j \in 1 .. n - 1 /\ ~(j < i)
          BY <2>2, <2>5, <2>6
        <4>2. unsent'[j].out = unsent[j + 1].out /\ (unsent'[j].late <=> unsent[j + 1].late)
          BY <4>1, <2>5, <1>1
        <4>3. ~unsent[j + 1].late /\ t[j + 1] = Applied(t[j], unsent[j + 1].out)
          BY <4>1, <2>2
        <4>4. u[j] = t[j + 1] /\ u[j - 1] = t[j]
          BY <4>1, <2>4
        <4> QED BY <4>2, <4>3, <4>4
      <3> QED BY <3>1, <3>2, <3>3
    <2>7. CASE i <= k
      <3> DEFINE m == k - 1
      <3>1. m \in 0 .. n - 1 /\ m + 1 = k
        BY <2>2, <2>5, <2>7
      <3>2. \/ m < n - 1 /\ unsent'[m + 1].out.clear
            \/ (m = 0 \/ unsent'[m].late) /\ ((inOrder' /\ m = 0) => u[0] = terminal'.rows)
        <4>1. CASE k < n /\ unsent[k + 1].out.clear
          <5>1. k \in 1 .. n - 1 /\ ~(k < i)
            BY <4>1, <2>2, <2>5, <2>7
          <5> QED BY <5>1, <4>1, <3>1, <2>5, <1>1
        <4>2. CASE unsent[k].late
          <5>1. CASE i = k
            <6>1. ~inOrder'
              BY <4>2, <5>1, <1>2
            <6>2. m # 0 => unsent'[m].late
              BY <5>1, <3>1, <2>5, <1>1
            <6> QED BY <6>1, <6>2
          <5>2. CASE i # k
            <6>1. m \in 1 .. n - 1 /\ ~(m < i)
              BY <5>2, <2>2, <2>5, <2>7
            <6> QED BY <6>1, <4>2, <3>1, <2>5, <1>1
          <5> QED BY <5>1, <5>2
        <4> QED BY <4>1, <4>2, <2>3, <2>2, <2>5, <2>7
      <3>3. m = IF i <= k THEN k - 1 ELSE i - 1
        BY <2>7
      <3> HIDE DEF m
      <3>4. IsChain(m, u)'
        BY <3>1, <3>2, <3>3, <2>5, <2>6 DEF IsChain
      <3> QED BY <3>4
    <2>8. CASE ~(i <= k)
      <3> DEFINE m == i - 1
      <3>1. m \in 0 .. n - 1 /\ m + 1 = i
        BY <2>5
      <3>2. m # 0 => unsent'[m].late
        BY <3>1, <2>5, <1>1
      <3>3. ASSUME inOrder', m = 0 PROVE u[0] = terminal'.rows
        <4>1. i = 1 /\ k = 0 /\ 1 \in k + 1 .. n /\ 0 \in k .. n /\ 0 \in 0 .. n - 1
          BY <3>3, <3>1, <2>2, <2>5, <2>8
        <4>2. u[0] = Applied(t[0], out) /\ DOMAIN t[0] = DOMAIN terminal.rows
          BY <4>1, <2>2, <2>4 DEF out
        <4>3. CASE out.clear
          BY <4>2, <4>3, <1>4 DEF Applied
        <4>4. CASE ~out.clear
          <5>1. t[0] = terminal.rows
            BY <4>1, <4>4, <3>3, <2>3, <1>2 DEF out
          <5> QED BY <5>1, <4>2, <1>4
        <4> QED BY <4>3, <4>4
      <3>4. m = IF i <= k THEN k - 1 ELSE i - 1
        BY <2>8
      <3> HIDE DEF m
      <3>5. IsChain(m, u)'
        BY <3>1, <3>2, <3>3, <3>4, <2>5, <2>6 DEF IsChain
      <3> QED BY <3>5
    <2> QED BY <2>7, <2>8
  <1>8. Chained'
    BY <1>7 DEF Chained
  <1> QED BY <1>5, <1>8 DEF RendererInv

LEMMA RenderKeeps ==
    ASSUME Shape, SameSize, Chained, NEW task, NEW p, NEW init,
           RenderBy(task, emulator, p, init),
           UNCHANGED <<emulator, terminal, inOrder, resizer>>,
           Repaired' /\ init => Repaired
    PROVE  /\ Shape' /\ SameSize' /\ Chained'
           /\ \A i \in DOMAIN displayed'.rows \cap DOMAIN emulator.rows :
                 displayed'.rows[i] = IF i = p THEN Predicted ELSE emulator.rows[i]
  <1> DEFINE out == Render(emulator, p, init)
             e == [task |-> task, out |-> out, late |-> FALSE]
  <1>1. /\ displayed' = Written(displayed, out)
        /\ unsent' = IF Empty(out) THEN unsent ELSE Append(unsent, e)
    BY DEF RenderBy
  <1>2. /\ IsUpdate(out) /\ (~init => out.clear)
        /\ IsScreen(displayed') /\ Len(displayed'.rows) = Len(displayed.rows)
        /\ displayed'.rows = Applied(displayed.rows, out)
        /\ \A i \in DOMAIN displayed.rows \cap DOMAIN emulator.rows :
              displayed'.rows[i] = IF i = p THEN Predicted ELSE emulator.rows[i]
    BY <1>1, RenderedRows DEF Shape
  <1> HIDE DEF out
  <1>3. IsHeld(e) /\ e.out = out /\ ~e.late
    BY <1>2 DEF IsHeld
  <1>4. Len(unsent) \in Nat
    BY SeqHas DEF Shape
  <1> HIDE DEF e
  <1>5. \/ unsent' = unsent /\ Empty(out)
        \/ /\ IsSeq(unsent') /\ Len(unsent') = Len(unsent) + 1
           /\ \A j \in 1 .. Len(unsent) : unsent'[j] = unsent[j]
           /\ unsent'[Len(unsent) + 1] = e
    BY <1>1, OneMore DEF Shape
  <1>6. Shape'
    <2>1. IsSeq(unsent') /\ \A j \in 1 .. Len(unsent') : IsHeld(unsent'[j])
      <3>1. CASE unsent' = unsent
        BY <3>1 DEF Shape
      <3>2. CASE unsent' # unsent
        <4>1. ASSUME NEW j \in 1 .. Len(unsent') PROVE IsHeld(unsent'[j])
          <5>1. j \in 1 .. Len(unsent) \/ j = Len(unsent) + 1
            BY <3>2, <1>4, <1>5
          <5> QED BY <5>1, <3>2, <1>3, <1>5 DEF Shape
        <4> QED BY <4>1, <3>2, <1>5
      <3> QED BY <3>1, <3>2
    <2> QED BY <2>1, <1>2 DEF Shape
  <1>7. SameSize'
    BY <1>2 DEF SameSize
  <1>8. DOMAIN displayed'.rows = DOMAIN displayed.rows
    BY <1>2 DEF Applied
  <1>9. ASSUME Repaired' PROVE \E k, t : IsChain(k, t)'
    <2>0. PICK n : n = Len(unsent)
      OBVIOUS
    <2>1. CASE Repaired
      <3>1. PICK k, t : IsChain(k, t)
        BY <2>1 DEF Chained
      <3>2. /\ k \in 0 .. n
            /\ \A j \in k .. n : DOMAIN t[j] = DOMAIN terminal.rows
            /\ t[n] = displayed.rows
            /\ \A j \in k + 1 .. n : ~unsent[j].late /\ t[j] = Applied(t[j - 1], unsent[j].out)
            /\ \/ k < n /\ unsent[k + 1].out.clear
               \/ (k = 0 \/ unsent[k].late) /\ ((inOrder /\ k = 0) => t[0] = terminal.rows)
        BY <2>0, <3>1 DEF IsChain
      <3>3. CASE unsent' = unsent /\ Empty(out)
        <4>1. Applied(displayed.rows, out) = displayed.rows
          <5>1. /\ Len(displayed.rows) \in Nat /\ DOMAIN displayed.rows = 1 .. Len(displayed.rows)
                /\ displayed.rows = [i \in DOMAIN displayed.rows |-> displayed.rows[i]]
            BY SeqHas DEF Shape, IsScreen
          <5>2. ASSUME NEW i \in DOMAIN displayed.rows PROVE Applied(displayed.rows, out)[i] = displayed.rows[i]
            <6>1. Applied(displayed.rows, out)[i] = Up(displayed.rows, 0)[i]
              BY <3>3 DEF Empty, Applied
            <6>2. i + 0 = i
              BY <5>1
            <6> QED BY <6>1, <6>2 DEF Up
          <5> QED BY <5>1, <5>2 DEF Applied
        <4>2. IsChain(k, t)'
          BY <4>1, <3>2, <3>3, <2>0, <1>2 DEF IsChain
        <4> QED BY <4>2
      <3>4. CASE ~(unsent' = unsent /\ Empty(out))
        <4>0. PICK u : u = [j \in Nat |-> IF j = n + 1 THEN displayed'.rows ELSE t[j]]
          OBVIOUS
        <4>1. u[n + 1] = displayed'.rows /\ \A j \in 0 .. n : u[j] = t[j]
          BY <4>0, <2>0, <1>4
        <4>2. Len(unsent') = n + 1 /\ k \in 0 .. n + 1
          BY <3>2, <3>4, <2>0, <1>4, <1>5
        <4>3. ASSUME NEW j \in k .. n + 1 PROVE DOMAIN u[j] = DOMAIN terminal'.rows
          <5>1. CASE j = n + 1
            <6>1. DOMAIN t[n] = DOMAIN terminal.rows /\ t[n] = displayed.rows
              BY <3>2, <2>0, <1>4
            <6> QED BY <5>1, <6>1, <4>1, <1>8
          <5>2. CASE j # n + 1
            <6>1. j \in k .. n /\ j \in 0 .. n
              BY <5>2, <3>2, <2>0, <1>4
            <6> QED BY <6>1, <3>2, <4>1
          <5> QED BY <5>1, <5>2
        <4>4. ASSUME NEW j \in k + 1 .. n + 1
              PROVE  ~unsent'[j].late /\ u[j] = Applied(u[j - 1], unsent'[j].out)
          <5>1. CASE j = n + 1
            <6>1. unsent'[j] = e /\ u[j] = displayed'.rows /\ u[j - 1] = displayed.rows
              <7>1. j - 1 = n /\ n \in 0 .. n
                BY <5>1, <2>0, <1>4
              <7> QED BY <7>1, <5>1, <4>1, <3>2, <3>4, <2>0, <1>5
            <6> QED BY <6>1, <1>2, <1>3
          <5>2. CASE j # n + 1
            <6>1. j \in k + 1 .. n /\ j \in 0 .. n /\ j - 1 \in 0 .. n /\ j \in 1 .. n
              BY <5>2, <3>2, <2>0, <1>4
            <6>2. unsent'[j] = unsent[j]
              BY <6>1, <3>4, <2>0, <1>5
            <6> QED BY <6>1, <6>2, <4>1, <3>2
          <5> QED BY <5>1, <5>2
        <4>5. \/ k < n + 1 /\ unsent'[k + 1].out.clear
              \/ (k = 0 \/ unsent'[k].late) /\ ((inOrder' /\ k = 0) => u[0] = terminal'.rows)
          <5>1. CASE k < n /\ unsent[k + 1].out.clear
            <6>1. k + 1 \in 1 .. n
              BY <5>1, <3>2, <2>0, <1>4
            <6>2. unsent'[k + 1] = unsent[k + 1] /\ k < n + 1
              BY <5>1, <6>1, <3>2, <3>4, <2>0, <1>4, <1>5
            <6> QED BY <5>1, <6>2
          <5>2. CASE (k = 0 \/ unsent[k].late) /\ ((inOrder /\ k = 0) => t[0] = terminal.rows)
            <6>1. k # 0 => unsent'[k] = unsent[k]
              BY <3>2, <3>4, <2>0, <1>4, <1>5
            <6>2. u[0] = t[0]
              BY <4>1, <2>0, <1>4
            <6> QED BY <5>2, <6>1, <6>2
          <5> QED BY <5>1, <5>2, <3>2
        <4>6. u[n + 1] = displayed'.rows
          BY <4>1
        <4>7. IsChain(k, u)'
          BY <4>2, <4>3, <4>4, <4>5, <4>6 DEF IsChain
        <4> QED BY <4>7
      <3> QED BY <3>3, <3>4
    <2>2. CASE ~Repaired
      <3>1. out.clear
        BY <2>2, <1>9, <1>2
      <3>2. Len(unsent') = n + 1 /\ unsent'[n + 1] = e
        BY <2>0, <3>1, <1>5 DEF Empty
      <3>9. PICK t : t = [j \in Nat |-> IF j = n + 1 THEN displayed'.rows ELSE displayed.rows]
        OBVIOUS
      <3>3. t[n] = displayed.rows /\ t[n + 1] = displayed'.rows /\ n \in Nat
        BY <3>9, <2>0, <1>4
      <3>4. DOMAIN displayed.rows = DOMAIN terminal.rows
        <4>1. Len(displayed.rows) = Len(terminal.rows)
          BY <1>9 DEF Repaired, SameSize
        <4> QED BY <4>1, SeqHas DEF Shape, IsScreen
      <3>5. \A j \in n .. n + 1 : DOMAIN t[j] = DOMAIN terminal'.rows
        <4>1. \A j \in n .. n + 1 : j = n \/ j = n + 1
          BY <3>3
        <4> QED BY <4>1, <3>3, <3>4, <1>8
      <3>6. \A j \in n + 1 .. n + 1 : ~unsent'[j].late /\ t[j] = Applied(t[j - 1], unsent'[j].out)
        <4>1. \A j \in n + 1 .. n + 1 : j = n + 1 /\ j - 1 = n
          BY <3>3
        <4>2. ~unsent'[n + 1].late /\ t[n + 1] = Applied(t[n], unsent'[n + 1].out)
          BY <3>2, <3>3, <1>2, <1>3
        <4> QED BY <4>1, <4>2
      <3>7. n \in 0 .. n + 1 /\ n < n + 1 /\ unsent'[n + 1].out.clear
        BY <3>1, <3>2, <3>3, <1>3
      <3>8. IsChain(n, t)'
        BY <3>2, <3>3, <3>5, <3>6, <3>7 DEF IsChain
      <3> QED BY <3>8
    <2> QED BY <2>1, <2>2
  <1>10. Chained'
    BY <1>9 DEF Chained
  <1> QED BY <1>2, <1>6, <1>7, <1>8, <1>10

-----------------------------------------------------------------------------
LEMMA RendererInit == ASSUME Sizes \subseteq Nat, ScreenInit PROVE RendererInv
  <1>1. PICK n \in Nat :
          /\ emulator = Screen(n) /\ displayed = Screen(n) /\ initialized = FALSE
          /\ reader = [pc |-> "idle", size |-> n] /\ resizer = "idle"
          /\ unsent = <<>>
          /\ terminal = [Screen(n) EXCEPT !.rows = Rows(n, Leftover)]
    BY DEF ScreenInit
  <1>2. IsScreen(Screen(n)) /\ Len(Screen(n).rows) = n /\ Len(Screen(n).under) = n
    BY NewScreen
  <1>3. IsScreen(terminal) /\ Len(terminal.rows) = n
    BY <1>1, <1>2, BlankRows, ScreenWith
  <1>4. IsSeq(unsent) /\ Len(unsent) = 0
    BY <1>1, EmptySeq DEF IsSeq, Range
  <1>5. Shape
    BY <1>1, <1>2, <1>3, <1>4 DEF Shape
  <1>6. Sized /\ SameSize /\ Merged /\ Chained
    BY <1>1, <1>2, <1>3 DEF Sized, SameSize, Merged, Chained, Repaired
  <1> QED BY <1>5, <1>6 DEF RendererInv

LEMMA ReaderKeeps ==
    ASSUME RendererInv, ProcessBytes \/ ReadSize \/ ReplaceParser
    PROVE  RendererInv'
  <1>1. UNCHANGED <<overlay, displayed, initialized, resizer, warner, unsent, terminal, inOrder>>
    BY DEF ProcessBytes, ReadSize, ReplaceParser, renderer, path
  <1>2. /\ IsScreen(emulator') /\ Len(emulator'.under) = Len(emulator'.rows)
        /\ Sized'
        /\ reader'.pc = "render" \/ (UNCHANGED emulator /\ reader.pc # "render")
    <2>1. CASE ProcessBytes
      <3>1. emulator' \in Outputs(emulator) /\ reader' = [reader EXCEPT !.pc = "render"]
        BY <2>1 DEF ProcessBytes
      <3>2. Sized' /\ reader'.pc = "render"
        BY <3>1 DEF RendererInv, Sized
      <3> QED BY <3>1, <3>2, OutputScreen DEF RendererInv, Shape
    <2>2. CASE ReadSize
      <3>1. reader' = [pc |-> "replace", size |-> Len(emulator.rows)] /\ UNCHANGED emulator /\ reader.pc = "idle"
        BY <2>2 DEF ReadSize, Ready
      <3>2. Len(emulator.rows) \in Nat
        BY SeqHas DEF RendererInv, Shape, IsScreen
      <3> QED BY <3>1, <3>2 DEF RendererInv, Shape, Sized
    <2>3. CASE ReplaceParser
      <3>2. IsScreen(emulator') /\ Len(emulator'.under) = Len(emulator'.rows)
        BY <2>3, ParserReplaced DEF RendererInv
      <3>3. Sized' /\ reader'.pc = "render"
        BY <2>3 DEF ReplaceParser, RendererInv, Sized
      <3> QED BY <3>2, <3>3
    <2> QED BY <2>1, <2>2, <2>3
  <1>3. Shape' /\ SameSize' /\ Merged'
    BY <1>1, <1>2 DEF RendererInv, Shape, SameSize, Merged
  <1>4. Chained'
    BY <1>1 DEF RendererInv, Chained, Repaired, IsChain
  <1> QED BY <1>2, <1>3, <1>4 DEF RendererInv

(* A task that renders has the prediction it renders on the screen.        *)
LEMMA TaskKeeps ==
    ASSUME RendererInv, RenderServerUpdate \/ RenderPredictionUpdate \/ Restore
    PROVE  RendererInv'
  <1>1. /\ UNCHANGED <<emulator, terminal, inOrder, resizer>>
        /\ Sized' /\ (reader'.pc = "render" \/ reader'.pc = "idle" \/ UNCHANGED reader)
    BY DEF RendererInv, Sized, RenderServerUpdate, RenderPredictionUpdate, Restore
  <1>2. \E task, p, init :
          /\ RenderBy(task, emulator, p, init)
          /\ Repaired' /\ init => Repaired
          /\ p \in {0, overlay'}
    <2>1. CASE RenderServerUpdate
      <3>1. \E p \in {0, overlay'} : RenderBy("reader", emulator, p, initialized)
        BY <2>1 DEF RenderServerUpdate
      <3>2. Repaired' /\ initialized => Repaired
        BY <2>1 DEF RenderServerUpdate, Repaired
      <3> QED BY <3>1, <3>2
    <2>2. CASE RenderPredictionUpdate
      <3>1. RenderBy("forwarder", emulator, overlay', initialized)
        BY <2>2 DEF RenderPredictionUpdate
      <3>2. Repaired' /\ initialized => Repaired
        BY <2>2 DEF RenderPredictionUpdate, Repaired
      <3> QED BY <3>1, <3>2
    <2>3. CASE Restore
      <3>1. RenderBy("warner", emulator, 0, FALSE)
        BY <2>3 DEF Restore
      <3> QED BY <3>1
    <2> QED BY <2>1, <2>2, <2>3
  <1>3. PICK task, p, init :
          /\ RenderBy(task, emulator, p, init)
          /\ Repaired' /\ init => Repaired
          /\ p \in {0, overlay'}
    BY <1>2
  <1>4. /\ Shape' /\ SameSize' /\ Chained'
        /\ \A i \in DOMAIN displayed'.rows \cap DOMAIN emulator.rows :
              displayed'.rows[i] = IF i = p THEN Predicted ELSE emulator.rows[i]
    BY <1>1, <1>3, RenderKeeps DEF RendererInv
  <1>5. \A i \in DOMAIN emulator.rows : i # 0
    BY SeqHas DEF RendererInv, Shape, IsScreen
  <1>6. Merged'
    BY <1>1, <1>3, <1>4, <1>5 DEF Merged
  <1> QED BY <1>1, <1>4, <1>6 DEF RendererInv

LEMMA SizeKeeps ==
    ASSUME RendererInv, (\E n \in Nat : Resize(n)) \/ SetRendererSize
    PROVE  RendererInv'
  <1>1. CASE \E n \in Nat : Resize(n)
    <2>1. PICK n \in Nat : Resize(n)
      BY <1>1
    <2>2. /\ terminal' = SetSize(terminal, n) /\ emulator' = SetSize(emulator, n)
          /\ resizer' = "renderer"
          /\ UNCHANGED <<displayed, unsent, reader>>
      BY <2>1 DEF Resize, renderer
    <2>3. Shape' /\ Sized'
      BY <2>2, SizeIsSet DEF RendererInv, Shape, Sized
    <2>4. SameSize' /\ Merged' /\ Chained'
      BY <2>2 DEF SameSize, Merged, Chained, Repaired
    <2> QED BY <2>3, <2>4 DEF RendererInv
  <1>2. CASE SetRendererSize
    <2>1. /\ displayed' = SetSize(displayed, Len(terminal.rows)) /\ initialized' = FALSE
          /\ UNCHANGED <<emulator, unsent, terminal, reader>>
      BY <1>2 DEF SetRendererSize, path
    <2>2. Len(terminal.rows) \in Nat
      BY SeqHas DEF RendererInv, Shape, IsScreen
    <2>3. IsScreen(displayed') /\ Len(displayed'.rows) = Len(terminal.rows)
      BY <2>1, <2>2, SizeIsSet DEF RendererInv, Shape
    <2>4. Shape' /\ Sized' /\ SameSize'
      BY <2>1, <2>3 DEF RendererInv, Shape, Sized, SameSize
    <2>5. Merged' /\ Chained'
      BY <2>1 DEF Merged, Chained, Repaired
    <2> QED BY <2>4, <2>5 DEF RendererInv
  <1> QED BY <1>1, <1>2

LEMMA OthersKeep ==
    ASSUME RendererInv, TypeKey \/ Warn \/ UNCHANGED screenVars
    PROVE  RendererInv'
  <1>1. CASE TypeKey \/ UNCHANGED screenVars
    <2>1. UNCHANGED <<emulator, overlay, displayed, initialized, reader, resizer, warner, unsent, terminal, inOrder>>
      BY <1>1 DEF TypeKey, screenVars, renderer, path
    <2> QED BY <2>1 DEF RendererInv, Shape, Sized, SameSize, Merged, Chained, Repaired, IsChain
  <1>2. CASE Warn
    <2>1. /\ terminal' = Written(terminal, WarningBytes) /\ warner' # "done"
          /\ UNCHANGED <<emulator, overlay, displayed, initialized, reader, resizer, unsent, inOrder>>
      BY <1>2 DEF Warn, renderer
    <2>2. IsUpdate(WarningBytes)
      BY DEF IsUpdate, WarningBytes
    <2>3. IsScreen(terminal') /\ Len(terminal'.rows) = Len(terminal.rows)
      BY <2>1, <2>2, WrittenRows DEF RendererInv, Shape
    <2>4. Shape' /\ Sized' /\ SameSize' /\ Merged' /\ Chained'
      BY <2>1, <2>3 DEF RendererInv, Shape, Sized, SameSize, Merged, Chained, Repaired
    <2> QED BY <2>4 DEF RendererInv
  <1> QED BY <1>1, <1>2

LEMMA RendererStep ==
    ASSUME Sizes \subseteq Nat, RendererInv, [ScreenNext]_screenVars
    PROVE  RendererInv'
  <1>1. CASE ProcessBytes \/ ReadSize \/ ReplaceParser
    BY <1>1, ReaderKeeps
  <1>2. CASE RenderServerUpdate \/ RenderPredictionUpdate \/ Restore
    BY <1>2, TaskKeeps
  <1>3. CASE (\E n \in Sizes : Resize(n)) \/ SetRendererSize
    BY <1>3, SizeKeeps
  <1>4. CASE TypeKey \/ Warn \/ UNCHANGED screenVars
    BY <1>4, OthersKeep
  <1>5. CASE \E i \in DOMAIN unsent : SendStdout(i)
    BY <1>5, SendKeeps
  <1> QED BY <1>1, <1>2, <1>3, <1>4, <1>5 DEF ScreenNext

(* Unless a resize fell between the halves of a full state, the screen and *)
(* the one that is to replace it have the terminal's size.                 *)
Agreeing ==
    ~outrun => /\ Len(emulator.rows) = Len(terminal.rows)
               /\ reader.pc = "replace" => reader.size = Len(terminal.rows)

LEMMA AgreesAtFirst == ASSUME ScreenInit, Sizes \subseteq Nat PROVE Agreeing
  <1>1. PICK n \in Nat :
          /\ emulator = Screen(n) /\ reader = [pc |-> "idle", size |-> n]
          /\ terminal = [Screen(n) EXCEPT !.rows = Rows(n, Leftover)]
    BY DEF ScreenInit
  <1>2. IsScreen(Screen(n)) /\ Len(Screen(n).rows) = n
    BY NewScreen
  <1>3. Len(terminal.rows) = n
    BY <1>1, <1>2, BlankRows, ScreenWith
  <1>4. reader.pc # "replace"
    BY <1>1
  <1> QED BY <1>1, <1>2, <1>3, <1>4 DEF Agreeing

LEMMA AgreesStep ==
    ASSUME Sizes \subseteq Nat, RendererInv, Agreeing, [ScreenNext]_screenVars
    PROVE  Agreeing'
  <1>1. CASE ProcessBytes
    <2>1. /\ emulator' \in Outputs(emulator) /\ reader' = [reader EXCEPT !.pc = "render"]
          /\ UNCHANGED <<terminal, outrun>>
      BY <1>1 DEF ProcessBytes, path
    <2>2. Len(emulator'.rows) = Len(emulator.rows)
      BY <2>1, OutputScreen DEF RendererInv, Shape
    <2>3. reader'.pc # "replace"
      BY <2>1 DEF RendererInv, Sized
    <2> QED BY <2>1, <2>2, <2>3 DEF Agreeing
  <1>2. CASE ReadSize
    <2>1. /\ reader' = [pc |-> "replace", size |-> Len(emulator.rows)]
          /\ UNCHANGED <<emulator, terminal, outrun>>
      BY <1>2 DEF ReadSize, path
    <2> QED BY <2>1 DEF Agreeing
  <1>3. CASE ReplaceParser
    <2>2. Len(emulator'.rows) = reader.size
      BY <1>3, ParserReplaced DEF RendererInv
    <2>3. /\ reader.pc = "replace" /\ reader' = [reader EXCEPT !.pc = "render"]
          /\ UNCHANGED <<terminal, outrun>>
      BY <1>3 DEF ReplaceParser, path
    <2>4. reader'.pc # "replace"
      BY <2>3 DEF RendererInv, Sized
    <2> QED BY <2>2, <2>3, <2>4 DEF Agreeing
  <1>4. CASE \E n \in Sizes : Resize(n)
    <2>1. PICK n \in Nat : Resize(n)
      BY <1>4
    <2>2. /\ terminal' = SetSize(terminal, n) /\ emulator' = SetSize(emulator, n)
          /\ UNCHANGED reader
      BY <2>1 DEF Resize
    <2>3. reader.pc = "replace" => outrun'
      BY <2>1, Zenon DEF Resize
    <2>4. Len(terminal'.rows) = n /\ Len(emulator'.rows) = n
      BY <2>2, SizeIsSet DEF RendererInv, Shape
    <2> QED BY <2>2, <2>3, <2>4 DEF Agreeing
  <1>5. CASE Warn \/ \E i \in DOMAIN unsent : SendStdout(i)
    <2>1. UNCHANGED <<emulator, reader, outrun>>
      BY <1>5 DEF Warn, SendStdout
    <2>2. PICK out : terminal' = Written(terminal, out) /\ IsUpdate(out)
      <3>1. CASE Warn
        BY <3>1 DEF Warn, WarningBytes, IsUpdate
      <3>2. ASSUME NEW i \in DOMAIN unsent, SendStdout(i)
            PROVE  terminal' = Written(terminal, unsent[i].out) /\ IsUpdate(unsent[i].out)
        <4>1. i \in 1 .. Len(unsent)
          BY <3>2, HeldAfter DEF RendererInv
        <4> QED BY <3>2, <4>1 DEF SendStdout, RendererInv, Shape, IsHeld
      <3> QED BY <1>5, <3>1, <3>2
    <2>3. Len(terminal'.rows) = Len(terminal.rows)
      BY <2>2, WrittenRows DEF RendererInv, Shape
    <2> QED BY <2>1, <2>3 DEF Agreeing
  <1>6. CASE RenderServerUpdate \/ RenderPredictionUpdate \/ Restore \/ TypeKey \/ SetRendererSize
    <2>1. UNCHANGED <<emulator, terminal, outrun>>
      BY <1>6 DEF RenderServerUpdate, RenderPredictionUpdate, Restore, TypeKey, SetRendererSize, path
    <2>2. UNCHANGED reader \/ reader' = [reader EXCEPT !.pc = "idle"]
      BY <1>6 DEF RenderServerUpdate, RenderPredictionUpdate, Restore, TypeKey, SetRendererSize
    <2>3. UNCHANGED reader \/ reader'.pc # "replace"
      BY <2>2 DEF RendererInv, Sized
    <2> QED BY <2>1, <2>3 DEF Agreeing
  <1>7. CASE UNCHANGED screenVars
    BY <1>7 DEF Agreeing, screenVars, path
  <1> QED BY <1>1, <1>2, <1>3, <1>4, <1>5, <1>6, <1>7 DEF ScreenNext

(* With nothing left to send, the chain is the terminal itself.            *)
LEMMA Settles == ASSUME RendererInv, Agreeing PROVE TerminalTrue
  <1> SUFFICES ASSUME Settled, inOrder, initialized, Len(emulator.rows) = Len(terminal.rows),
                      NEW i \in DOMAIN terminal.rows
               PROVE  terminal.rows[i] \in {emulator.rows[i]} \cup IF i = overlay THEN {Predicted} ELSE {}
    BY DEF TerminalTrue, Agreeing
  <1>1. unsent = <<>> /\ reader.pc = "idle" /\ Repaired
    BY DEF Settled, Repaired
  <1>2. PICK k, t : IsChain(k, t)
    BY <1>1 DEF RendererInv, Chained
  <1>3. Len(unsent) = 0
    BY <1>1
  <1>4. k = 0 /\ t[0] = displayed.rows /\ t[0] = terminal.rows
    BY <1>2, <1>3 DEF IsChain
  <1>5. DOMAIN terminal.rows = DOMAIN emulator.rows
    BY SeqHas DEF RendererInv, Shape, IsScreen
  <1> QED BY <1>1, <1>4, <1>5 DEF RendererInv, Merged, Repaired

(* When nothing is on its way and no update was overtaken, the terminal     *)
(* shows the server's screen and a guess at most, for any number of sizes, *)
(* rows, outputs, keys and resizes.                                        *)
THEOREM TerminalTrueHolds == ScreenSpec => []TerminalTrue
  <1>1. Sizes \subseteq Nat
    BY ClientScreenAssumption
  <1>2. ScreenInit => RendererInv
    BY <1>1, RendererInit
  <1>3. RendererInv /\ [ScreenNext]_screenVars => RendererInv'
    BY <1>1, RendererStep
  <1>4. ScreenInit => Agreeing
    BY <1>1, AgreesAtFirst
  <1>5. RendererInv /\ Agreeing /\ [ScreenNext]_screenVars => Agreeing'
    BY <1>1, AgreesStep
  <1>6. RendererInv /\ Agreeing => TerminalTrue
    BY Settles
  <1> QED BY <1>2, <1>3, <1>4, <1>5, <1>6, PTL DEF ScreenSpec
=============================================================================
