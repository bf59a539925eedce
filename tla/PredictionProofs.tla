-------------------------- MODULE PredictionProofs --------------------------
(***************************************************************************)
(* No guess outlives the line it was made on, and the cursor heals, for    *)
(* any screen, keys, preference and number of resizes.                     *)
(*                                                                         *)
(* The epochs are the argument.  Every prediction is of an epoch from 1 to *)
(* the present one, and a cell is never of one before the confirmed epoch: *)
(* a cull drops those when it raises the confirmed epoch, and killing an   *)
(* epoch only lowers it.  So the cells that are not tentative are all of   *)
(* the confirmed epoch, and the only epoch a cull can kill is that one.    *)
(* After a cull no cursor prediction is tentative (Tidy); the next cull    *)
(* then finds a last prediction that is confirmed, whatever it kills, and  *)
(* discards everything if that one is wrong (Agrees).                      *)
(***************************************************************************)
EXTENDS Prediction, SequenceTheorems, WellFoundedInduction, TLAPS

IsEngine(e) ==
    e = [overlay |-> e.overlay, cursors |-> e.cursors, prediction |-> e.prediction,
         confirmed |-> e.confirmed, glitch |-> e.glitch, cols |-> e.cols]

(* Predictions of these epochs only.                                       *)
IsCursors(q, epochs) == q \in Seq(Range(q)) /\ \A c \in Range(q) : c.epoch \in epochs
IsCells(o, epochs) == \A p \in DOMAIN o : o[p].epoch \in epochs

Loose(e) ==
    /\ IsEngine(e)
    /\ e.prediction \in Nat \ {0} /\ e.confirmed \in 0 .. e.prediction
    /\ IsCursors(e.cursors, 1 .. e.prediction) /\ IsCells(e.overlay, 1 .. e.prediction)

Sound(e) == Loose(e) /\ IsCells(e.overlay, e.confirmed .. e.prediction)

(* What a cull leaves behind: no cursor prediction is tentative.           *)
Tidy(e) == IsCursors(e.cursors, 0 .. e.confirmed)

(* The last cursor prediction, if there is one, is where the cursor is.    *)
Agrees(e, s) ==
    e.cursors # <<>> => Last(e.cursors).row = s.row /\ Last(e.cursors).col = s.col

IInv ==
    /\ Sound(Engine)
    /\ quiet \in 0 .. 2
    /\ quiet >= 1 => Tidy(Engine)
    /\ quiet = 2 => Agrees(Engine, screen)

-----------------------------------------------------------------------------
(* Least and greatest.                                                     *)

LEMMA LeastElement ==
    ASSUME NEW S \in SUBSET Nat, S # {}
    PROVE  \E x \in S : \A y \in S : x <= y
  <1> DEFINE Less == {p \in Nat \X Nat : p[1] < p[2]}
  <1>1. Less = OpToRel(<, Nat)
    BY DEF OpToRel
  <1>2. IsWellFoundedOn(Less, Nat)
    BY <1>1, NatLessThanWellFounded
  <1>3. PICK x \in S : \A y \in S : ~ (<<y, x>> \in Less)
    BY <1>2, WFMin
  <1>4. ASSUME NEW y \in S PROVE x <= y
    <2>1. ~(y < x)
      BY <1>3
    <2> QED BY <2>1
  <1> QED BY <1>4

LEMMA MinIsLeast ==
    ASSUME NEW S \in SUBSET Nat, S # {}
    PROVE  Min(S) \in S /\ \A y \in S : Min(S) <= y
  <1>1. PICK x \in S : \A y \in S : x <= y
    BY LeastElement
  <1> QED BY <1>1 DEF Min

LEMMA MaxIsMember ==
    ASSUME NEW n \in Nat, NEW S \in SUBSET (1 .. n), S # {}
    PROVE  Max(S) \in S
  <1> DEFINE T == {n - x : x \in S}
  <1>1. PICK t \in T : \A y \in T : t <= y
    <2>1. \A x \in S : n - x \in Nat
      OBVIOUS
    <2>2. T \in SUBSET Nat /\ T # {}
      BY <2>1
    <2> HIDE DEF T
    <2> QED BY <2>2, LeastElement
  <1>2. PICK x \in S : t = n - x
    BY <1>1
  <1>3. ASSUME NEW y \in S PROVE x >= y
    <2>1. n - x <= n - y
      BY <1>1, <1>2
    <2>2. x \in Int /\ y \in Int
      OBVIOUS
    <2> QED BY <2>1, <2>2
  <1> QED BY <1>3 DEF Max

-----------------------------------------------------------------------------
(* Sequences of cursor predictions.                                        *)

LEMMA SeqIsCursors ==
    ASSUME NEW S, NEW epochs, \A c \in S : c.epoch \in epochs, NEW q \in Seq(S)
    PROVE  IsCursors(q, epochs)
  <1>1. DOMAIN q = 1 .. Len(q) /\ \A i \in 1 .. Len(q) : q[i] \in S
    OBVIOUS
  <1>2. Range(q) \subseteq S
    BY <1>1 DEF Range
  <1>3. q \in Seq(Range(q))
    BY SeqOfRange
  <1> QED BY <1>2, <1>3 DEF IsCursors

LEMMA NoCursors == \A epochs : IsCursors(<<>>, epochs)
  <1> TAKE epochs
  <1>1. <<>> \in Seq({}) /\ \A c \in {} : c.epoch \in epochs
    OBVIOUS
  <1> QED BY <1>1, SeqIsCursors

LEMMA MoreEpochs ==
    ASSUME NEW q, NEW A, NEW B, IsCursors(q, A), A \subseteq B
    PROVE  IsCursors(q, B)
  BY DEF IsCursors

LEMMA LastCursor ==
    ASSUME NEW q, NEW A, IsCursors(q, A), q # <<>>
    PROVE  Last(q).epoch \in A
  <1>1. Len(q) \in Nat /\ Len(q) # 0 /\ Len(q) \in DOMAIN q
    BY DEF IsCursors
  <1>2. q[Len(q)] \in Range(q)
    BY <1>1 DEF Range
  <1> QED BY <1>2 DEF IsCursors, Last

LEMMA OneMoreCursor ==
    ASSUME NEW q, NEW A, IsCursors(q, A), NEW c, c.epoch \in A
    PROVE  IsCursors(Append(q, c), A)
  <1> DEFINE S == Range(q) \cup {c}
  <1>1. q \in Seq(S)
    BY SeqMonotonic DEF IsCursors
  <1>2. Append(q, c) \in Seq(S)
    BY <1>1, AppendProperties
  <1>3. \A x \in S : x.epoch \in A
    BY DEF IsCursors
  <1> HIDE DEF S
  <1> QED BY <1>2, <1>3, SeqIsCursors
(* kept[n] is what is retained of the first n.                             *)
Keeping(f, q, epochs, m) ==
    f = [n \in 0 .. m |->
           IF n = 0 THEN <<>>
           ELSE IF q[n].epoch \in epochs THEN Append(f[n - 1], q[n]) ELSE f[n - 1]]

(* The recursion of Retain has a solution.                                 *)
LEMMA KeepingUnfolds ==
    ASSUME NEW q, NEW epochs, NEW m \in Nat
    PROVE  \E f : Keeping(f, q, epochs, m)
  <1> SUFFICES ASSUME ~ \E f : Keeping(f, q, epochs, m)
               PROVE  FALSE
    OBVIOUS
  <1> DEFINE Stuck == {k \in Nat : ~ \E f : Keeping(f, q, epochs, k)}
             Keep(x, n) == IF q[n].epoch \in epochs THEN Append(x, q[n]) ELSE x
  <1>1. PICK k \in Stuck : \A y \in Stuck : k <= y
    <2>1. Stuck \in SUBSET Nat /\ Stuck # {}
      OBVIOUS
    <2> HIDE DEF Stuck
    <2> QED BY <2>1, LeastElement
  <1>2. k \in Nat /\ ~ \E f : Keeping(f, q, epochs, k)
    OBVIOUS
  <1>3. CASE k = 0
    <2> DEFINE g == [n \in 0 .. 0 |-> <<>>]
    <2>1. g = [n \in 0 .. 0 |-> IF n = 0 THEN <<>> ELSE Keep(g[n - 1], n)]
      OBVIOUS
    <2>2. Keeping(g, q, epochs, 0)
      BY <2>1 DEF Keeping
    <2> QED BY <1>2, <1>3, <2>2
  <1>4. CASE k # 0
    <2>1. k - 1 \in Nat /\ ~(k <= k - 1)
      BY <1>2, <1>4
    <2>2. k - 1 \notin Stuck
      BY <1>1, <2>1
    <2>3. PICK f : Keeping(f, q, epochs, k - 1)
      BY <2>1, <2>2
    <2> DEFINE g == [n \in 0 .. k |-> IF n = k THEN Keep(f[k - 1], k) ELSE f[n]]
               G == [n \in 0 .. k |-> IF n = 0 THEN <<>> ELSE Keep(g[n - 1], n)]
    <2>4. ASSUME NEW n \in 0 .. k PROVE g[n] = G[n]
      <3>1. CASE n = k
        <4>1. k - 1 \in 0 .. k /\ k - 1 # k /\ k # 0
          BY <1>2, <1>4
        <4> QED BY <3>1, <4>1
      <3>2. CASE n = 0
        BY <1>4, <3>2, <2>1, <2>3 DEF Keeping
      <3>3. CASE n # 0 /\ n # k
        <4>1. n \in 0 .. (k - 1) /\ n - 1 \in 0 .. (k - 1) /\ n - 1 \in 0 .. k /\ n - 1 # k
          BY <1>2, <3>3
        <4>2. f[n] = Keep(f[n - 1], n)
          BY <2>3, <3>3, <4>1 DEF Keeping
        <4> QED BY <3>3, <4>1, <4>2
      <3> QED BY <3>1, <3>2, <3>3
    <2>5. g = G
      BY <2>4
    <2>6. Keeping(g, q, epochs, k)
      BY <2>5 DEF Keeping
    <2> QED BY <1>2, <2>6
  <1> QED BY <1>3, <1>4

LEMMA RetainIsKept ==
    ASSUME NEW q, NEW epochs, Len(q) \in Nat
    PROVE  \E f : Keeping(f, q, epochs, Len(q)) /\ Retain(q, epochs) = f[Len(q)]
  <1> DEFINE f == CHOOSE s : Keeping(s, q, epochs, Len(q))
  <1>1. Keeping(f, q, epochs, Len(q))
    BY KeepingUnfolds
  <1>2. Retain(q, epochs) = f[Len(q)]
    BY DEF Retain, Keeping
  <1> QED BY <1>1, <1>2

LEMMA RetainCursors ==
    ASSUME NEW q, NEW A, NEW B, IsCursors(q, A)
    PROVE  /\ IsCursors(Retain(q, B), A \cap B)
           /\ q # <<>> /\ Last(q).epoch \in B =>
                 Retain(q, B) # <<>> /\ Last(Retain(q, B)) = Last(q)
  <1> DEFINE S == {c \in Range(q) : c.epoch \in B}
  <1>1. Len(q) \in Nat /\ DOMAIN q = 1 .. Len(q) /\ (q # <<>> => Len(q) # 0)
    BY DEF IsCursors
  <1>2. PICK f : Keeping(f, q, B, Len(q)) /\ Retain(q, B) = f[Len(q)]
    BY <1>1, RetainIsKept
  <1>3. f[0] = <<>>
    BY <1>1, <1>2 DEF Keeping
  <1>4. ASSUME NEW n \in 1 .. Len(q)
        PROVE  f[n] = IF q[n].epoch \in B THEN Append(f[n - 1], q[n]) ELSE f[n - 1]
    <2>1. n \in 0 .. Len(q) /\ n # 0
      BY <1>1
    <2> QED BY <1>2, <2>1 DEF Keeping
  <1>5. ASSUME NEW n \in 1 .. Len(q), f[n - 1] \in Seq(S)
        PROVE  f[n] \in Seq(S)
    <2>1. CASE q[n].epoch \in B
      <3>1. q[n] \in S
        BY <1>1, <2>1 DEF Range
      <3>2. f[n] = Append(f[n - 1], q[n])
        BY <1>4, <2>1
      <3> HIDE DEF S
      <3>3. Append(f[n - 1], q[n]) \in Seq(S)
        BY <1>5, <3>1, AppendProperties
      <3> QED BY <3>2, <3>3
    <2>2. CASE q[n].epoch \notin B
      <3>1. f[n] = f[n - 1]
        BY <1>4, <2>2
      <3> HIDE DEF S
      <3> QED BY <1>5, <3>1
    <2> QED BY <2>1, <2>2
  <1>6. \A n \in 0 .. Len(q) : f[n] \in Seq(S)
    <2> DEFINE Wrong == {n \in 0 .. Len(q) : f[n] \notin Seq(S)}
    <2> SUFFICES ASSUME Wrong # {} PROVE FALSE
      OBVIOUS
    <2>1. PICK n \in Wrong : \A y \in Wrong : n <= y
      <3>1. Wrong \in SUBSET Nat
        BY <1>1
      <3> HIDE DEF Wrong
      <3> QED BY <3>1, LeastElement
    <2>2. n # 0
      <3> HIDE DEF S
      <3> QED BY <1>3, <2>1, EmptySeq
    <2>3. n \in 1 .. Len(q) /\ n - 1 \in 0 .. Len(q) /\ ~(n <= n - 1)
      BY <1>1, <2>1, <2>2
    <2>4. f[n - 1] \in Seq(S)
      BY <2>1, <2>3
    <2> QED BY <1>5, <2>1, <2>3, <2>4
  <1>7. IsCursors(Retain(q, B), A \cap B)
    <2>1. \A c \in S : c.epoch \in A \cap B
      BY DEF IsCursors
    <2>2. Retain(q, B) \in Seq(S)
      BY <1>1, <1>2, <1>6
    <2> HIDE DEF S
    <2> QED BY <2>1, <2>2, SeqIsCursors
  <1>8. ASSUME q # <<>>, Last(q).epoch \in B
        PROVE  Retain(q, B) # <<>> /\ Last(Retain(q, B)) = Last(q)
    <2> DEFINE n == Len(q)
    <2>1. n \in 1 .. Len(q) /\ n - 1 \in 0 .. Len(q)
      BY <1>1, <1>8
    <2>2. Retain(q, B) = Append(f[n - 1], Last(q)) /\ f[n - 1] \in Seq(S)
      BY <1>2, <1>4, <1>6, <1>8, <2>1 DEF Last
    <2>3. Last(q) \in S
      BY <1>1, <1>8, <2>1 DEF Last, Range
    <2> HIDE DEF n, S
    <2>4. Len(Append(f[n - 1], Last(q))) = Len(f[n - 1]) + 1
          /\ Append(f[n - 1], Last(q))[Len(f[n - 1]) + 1] = Last(q)
          /\ Len(f[n - 1]) \in Nat /\ Append(f[n - 1], Last(q)) \in Seq(S)
      BY <2>2, <2>3, AppendProperties
    <2>5. Append(f[n - 1], Last(q)) # <<>>
      BY <2>4
    <2> QED BY <2>2, <2>4, <2>5 DEF Last
  <1> QED BY <1>7, <1>8

-----------------------------------------------------------------------------
(* A key is recorded.                                                      *)

LEMMA TentativeKeeps ==
    ASSUME NEW e, Sound(e)
    PROVE  Sound(BecomeTentative(e)) /\ BecomeTentative(e).cursors = e.cursors
  <1> DEFINE b == BecomeTentative(e)
  <1>1. /\ IsEngine(b) /\ b.prediction = e.prediction + 1 /\ b.confirmed = e.confirmed
        /\ b.cursors = e.cursors /\ b.overlay = e.overlay
    BY DEF Sound, Loose, IsEngine, BecomeTentative
  <1>2. /\ 1 .. e.prediction \subseteq 1 .. b.prediction
        /\ e.confirmed .. e.prediction \subseteq e.confirmed .. b.prediction
    BY <1>1 DEF Sound, Loose
  <1> HIDE DEF b
  <1> QED BY <1>1, <1>2, MoreEpochs DEF Sound, Loose, IsCells, b

LEMMA PushKeeps ==
    ASSUME NEW e, Sound(e), NEW row, NEW col
    PROVE  Sound(PushCursor(e, row, col))
  <1> DEFINE c == [row |-> row, col |-> col, epoch |-> e.prediction]
             b == PushCursor(e, row, col)
  <1> DEFINE q == Append(e.cursors, c)
  <1>1. /\ IsEngine(b) /\ b.prediction = e.prediction /\ b.confirmed = e.confirmed
        /\ b.cursors = q /\ b.overlay = e.overlay
    <2>1. b = [e EXCEPT !.cursors = q]
      BY DEF PushCursor, Sound, Loose, IsEngine
    <2> HIDE DEF b, q
    <2> QED BY <2>1 DEF Sound, Loose, IsEngine
  <1>2. c.epoch \in 1 .. e.prediction
    BY DEF Sound, Loose
  <1>3. IsCursors(b.cursors, 1 .. b.prediction)
    <2> HIDE DEF b, c
    <2> QED BY <1>1, <1>2, OneMoreCursor DEF Sound, Loose
  <1> HIDE DEF b
  <1> QED BY <1>1, <1>3 DEF Sound, Loose, b

(* New cells are of the present epoch.                                     *)
LEMMA CellsKeep ==
    ASSUME NEW e, Sound(e), NEW o,
           \A p \in DOMAIN o : \/ o[p].epoch = e.prediction
                               \/ p \in DOMAIN e.overlay /\ o[p] = e.overlay[p]
    PROVE  Sound([e EXCEPT !.overlay = o])
  <1> DEFINE b == [e EXCEPT !.overlay = o]
  <1>1. /\ IsEngine(b) /\ b.prediction = e.prediction /\ b.confirmed = e.confirmed
        /\ b.cursors = e.cursors /\ b.overlay = o
    BY DEF Sound, Loose, IsEngine
  <1>2. e.prediction \in 1 .. e.prediction /\ e.prediction \in e.confirmed .. e.prediction
    BY DEF Sound, Loose
  <1>3. IsCells(o, 1 .. e.prediction) /\ IsCells(o, e.confirmed .. e.prediction)
    BY <1>2 DEF Sound, Loose, IsCells
  <1> HIDE DEF b
  <1> QED BY <1>1, <1>3 DEF Sound, Loose, b

LEMMA PredictKeeps ==
    ASSUME NEW e, Sound(e), NEW s, NEW p, NEW ch
    PROVE  Sound(Predict(e, s, p, ch))
  <1> DEFINE cell == [replacement |-> ch, original |-> Cell(s, p), epoch |-> e.prediction]
             o == WithCell(e.overlay, p, cell)
  <1>1. Predict(e, s, p, ch) = [e EXCEPT !.overlay = o]
    BY DEF Sound, Loose, IsEngine, Predict
  <1>2. \A x \in DOMAIN o : \/ o[x].epoch = e.prediction
                            \/ x \in DOMAIN e.overlay /\ o[x] = e.overlay[x]
    <2> HIDE DEF cell
    <2>1. cell.epoch = e.prediction
      BY DEF cell
    <2>2. DOMAIN o = DOMAIN e.overlay \cup {p}
          /\ \A x \in DOMAIN o : o[x] = IF x = p THEN cell ELSE e.overlay[x]
      BY DEF WithCell
    <2> HIDE DEF o
    <2> QED BY <2>1, <2>2
  <1> HIDE DEF o
  <1> QED BY <1>1, <1>2, CellsKeep

LEMMA NewlineKeeps ==
    ASSUME NEW e, Sound(e), NEW s
    PROVE  Sound(NewlineCarriageReturn(e, s))
  <1> DEFINE row == PredictedCursor(e, s).row
             line == {<<row, c>> : c \in 0 .. s.cols - 1}
             before(p) == IF p \in DOMAIN e.overlay THEN e.overlay[p].original ELSE Blank
             cell(p) == [replacement |-> " ", original |-> before(p), epoch |-> e.prediction]
             o == [p \in DOMAIN e.overlay \cup line |->
                     IF p \in line THEN cell(p) ELSE e.overlay[p]]
  <1>1. NewlineCarriageReturn(e, s) = IF row + 1 >= Rows
                                      THEN PushCursor([e EXCEPT !.overlay = o], row, 0)
                                      ELSE PushCursor(e, row + 1, 0)
    BY DEF NewlineCarriageReturn, Sound, Loose, IsEngine
  <1>2. Sound([e EXCEPT !.overlay = o])
    <2>1. \A p : cell(p).epoch = e.prediction
      OBVIOUS
    <2> HIDE DEF cell, line
    <2>2. DOMAIN o = DOMAIN e.overlay \cup line
          /\ \A p \in DOMAIN o : o[p] = IF p \in line THEN cell(p) ELSE e.overlay[p]
      OBVIOUS
    <2> HIDE DEF o
    <2> QED BY <2>1, <2>2, CellsKeep
  <1> HIDE DEF row, o
  <1> QED BY <1>1, <1>2, PushKeeps

LEMMA KeyKeeps ==
    ASSUME NEW e, Sound(e), NEW s, NEW key
    PROVE  Sound(NewUserByte(e, s, key))
  <1>1. Sound(PredictBackspace(e, s))
    BY TentativeKeeps, PredictKeeps, PushKeeps DEF PredictBackspace
  <1>2. Sound(PredictLetter(e, s, key))
    BY TentativeKeeps, PredictKeeps, PushKeeps, NewlineKeeps DEF PredictLetter
  <1>3. Sound(NewlineCarriageReturn(BecomeTentative(e), s)) /\ Sound(BecomeTentative(e))
    BY TentativeKeeps, NewlineKeeps
  <1> QED BY <1>1, <1>2, <1>3 DEF NewUserByte

-----------------------------------------------------------------------------
(* A cull.                                                                 *)

LEMMA ResetSettles ==
    ASSUME NEW e, IsEngine(e), NEW s
    PROVE  Sound(Reset(e)) /\ Tidy(Reset(e)) /\ Agrees(Reset(e), s)
  <1> DEFINE r == Reset(e)
             a == [e EXCEPT !.overlay = NoCells]
             b == [a EXCEPT !.cursors = <<>>]
             c == [b EXCEPT !.prediction = 1]
             d == [c EXCEPT !.confirmed = 0]
  <1>1. /\ IsEngine(r) /\ r.prediction = 1 /\ r.confirmed = 0
        /\ r.cursors = <<>> /\ r.overlay = NoCells
    <2>1. r = [d EXCEPT !.glitch = 0]
      BY DEF IsEngine, Reset
    <2>2. IsEngine(a) /\ a.overlay = NoCells
      BY DEF IsEngine
    <2> HIDE DEF a
    <2>3. IsEngine(b) /\ b.overlay = NoCells /\ b.cursors = <<>>
      BY <2>2 DEF IsEngine
    <2> HIDE DEF b
    <2>4. IsEngine(c) /\ c.overlay = NoCells /\ c.cursors = <<>> /\ c.prediction = 1
      BY <2>3 DEF IsEngine
    <2> HIDE DEF c
    <2>5. /\ IsEngine(d) /\ d.overlay = NoCells /\ d.cursors = <<>> /\ d.prediction = 1
          /\ d.confirmed = 0
      BY <2>4 DEF IsEngine
    <2> HIDE DEF d, r
    <2> QED BY <2>1, <2>5 DEF IsEngine
  <1>2. DOMAIN NoCells = {}
    BY DEF NoCells
  <1> HIDE DEF r
  <1> QED BY <1>1, <1>2, NoCursors DEF Sound, Loose, Tidy, Agrees, IsCells, r

(* The confirmed epoch goes up, to that of a cursor prediction, or stays.  *)
LEMMA Confirms ==
    ASSUME NEW e, Sound(e), NEW s, NEW c \in ConfirmCursor(e, s)
    PROVE  /\ Loose(c) /\ c.cursors = e.cursors /\ c.overlay = e.overlay
           /\ c.prediction = e.prediction /\ c.confirmed \in e.confirmed .. e.prediction
           /\ Tidy(e) => c.confirmed = e.confirmed
  <1> DEFINE n == Len(e.cursors)
             matching == {i \in DOMAIN e.cursors :
                            e.cursors[i].row = s.row /\ e.cursors[i].col = s.col}
  <1>1. n \in Nat /\ DOMAIN e.cursors = 1 .. n
    BY DEF Sound, Loose, IsCursors
  <1>2. Confirming(e, s) = IF matching = {} THEN e.confirmed ELSE e.cursors[Max(matching)].epoch
    BY DEF Confirming
  <1>3. matching # {} => e.cursors[Max(matching)] \in Range(e.cursors)
    <2>1. matching \in SUBSET (1 .. n)
      BY <1>1
    <2>2. matching # {} => Max(matching) \in 1 .. n
      <3> HIDE DEF matching, n
      <3> QED BY <1>1, <2>1, MaxIsMember
    <2> HIDE DEF matching
    <2> QED BY <1>1, <2>2 DEF Range
  <1> HIDE DEF matching
  <1>4. /\ Confirming(e, s) \in 0 .. e.prediction
        /\ Tidy(e) => Confirming(e, s) <= e.confirmed
    BY <1>2, <1>3 DEF Sound, Loose, IsCursors, Tidy
  <1>5. CASE c = e
    BY <1>5 DEF Sound, Loose
  <1>6. CASE c # e
    <2>1. Confirming(e, s) > e.confirmed
      BY <1>6 DEF ConfirmCursor
    <2>2. PICK g : c = [e EXCEPT !.confirmed = Confirming(e, s), !.glitch = g]
      BY <1>6 DEF ConfirmCursor
    <2>3. /\ IsEngine(c) /\ c.confirmed = Confirming(e, s) /\ c.prediction = e.prediction
          /\ c.cursors = e.cursors /\ c.overlay = e.overlay
      <3> HIDE DEF n
      <3> QED BY <2>2 DEF Sound, Loose, IsEngine
    <2>4. ~Tidy(e) /\ c.confirmed \in e.confirmed .. e.prediction
      BY <1>4, <2>1, <2>3 DEF Sound, Loose
    <2> QED BY <1>4, <2>3, <2>4 DEF Sound, Loose
  <1> QED BY <1>5, <1>6

(* What may be killed lies below the confirmed epoch; what is kept does    *)
(* not.                                                                    *)
LEMMA CellsAreCulled ==
    ASSUME NEW e, Loose(e), NEW s
    PROVE  /\ Sound(CullCells(e, s))
           /\ IsCells(e.overlay, e.confirmed .. e.prediction) /\ Tidy(e) => Tidy(CullCells(e, s))
  <1> DEFINE epochs == {e.overlay[p].epoch : p \in {q \in DOMAIN e.overlay : Contradicted(e, s, q)}}
             kept == {p \in DOMAIN e.overlay : Keeps(e, s, p)}
             left == Restrict(e.overlay, kept)
             cells == Restrict(left, {p \in DOMAIN left : left[p].epoch \notin epochs})
             cursor == Retain(e.cursors, Nat \ epochs)
             lowest == {e.confirmed} \cup {y - 1 : y \in epochs}
             k == [e EXCEPT !.overlay = left]
             a == [k EXCEPT !.cursors = cursor]
             b == [a EXCEPT !.overlay = cells]
             x == [b EXCEPT !.confirmed = Min(lowest)]
  <1>1. /\ e.prediction \in Nat \ {0} /\ e.confirmed \in 0 .. e.prediction
        /\ \A p \in DOMAIN e.overlay : e.overlay[p].epoch \in 1 .. e.prediction
        /\ IsCursors(e.cursors, 1 .. e.prediction)
    BY DEF Loose, IsCells
  <1>2. epochs \subseteq 1 .. e.confirmed
    BY <1>1 DEF Contradicted, Tentative
  <1>3. /\ DOMAIN left = kept
        /\ \A p \in DOMAIN left : left[p] = e.overlay[p]
        /\ DOMAIN cells \subseteq kept
        /\ \A p \in DOMAIN cells : cells[p] = e.overlay[p]
    <2> HIDE DEF kept, epochs
    <2> QED BY DEF Restrict
  <1>4. \A p \in kept : e.overlay[p].epoch \in e.confirmed .. e.prediction
    BY <1>1 DEF Keeps, Tentative
  <1>5. CullCells(e, s) = x
    <2>1. k.cursors = e.cursors /\ k.confirmed = e.confirmed /\ k.overlay = left /\ IsEngine(k)
      <3> HIDE DEF left
      <3> QED BY DEF Loose, IsEngine
    <2>2. CullCells(e, s) = KillEpochs(k, epochs)
      <3>1. k = [e EXCEPT !.overlay = Restrict(@, kept)]
        BY DEF Loose, IsEngine
      <3> HIDE DEF k, epochs
      <3> QED BY <3>1 DEF CullCells, epochs
    <2> HIDE DEF k, epochs, left
    <2> QED BY <2>1, <2>2 DEF KillEpochs, IsEngine
  <1> HIDE DEF epochs, kept, left, cells, cursor, lowest
  <1>6. /\ IsEngine(x) /\ x.prediction = e.prediction /\ x.confirmed = Min(lowest)
        /\ x.cursors = cursor /\ x.overlay = cells
    <2>1. IsEngine(k) /\ k.prediction = e.prediction
      BY DEF Loose, IsEngine
    <2> HIDE DEF k
    <2>2. IsEngine(a) /\ a.prediction = e.prediction /\ a.cursors = cursor
      BY <2>1 DEF IsEngine
    <2> HIDE DEF a
    <2>3. IsEngine(b) /\ b.prediction = e.prediction /\ b.cursors = cursor /\ b.overlay = cells
      BY <2>2 DEF IsEngine
    <2> HIDE DEF b
    <2> QED BY <2>3 DEF IsEngine
  <1> HIDE DEF x
  <1>7. Min(lowest) \in 0 .. e.confirmed /\ Min(lowest) \in lowest
        /\ \A y \in lowest : Min(lowest) <= y
    <2>1. lowest \in SUBSET Nat /\ e.confirmed \in lowest
      BY <1>1, <1>2 DEF lowest
    <2>2. lowest # {}
      BY <2>1
    <2>3. Min(lowest) \in lowest /\ \A y \in lowest : Min(lowest) <= y
      BY <2>1, <2>2, MinIsLeast
    <2>4. Min(lowest) \in Nat /\ Min(lowest) <= e.confirmed
      BY <2>1, <2>3
    <2> QED BY <1>1, <2>3, <2>4
  <1>8. IsCursors(cursor, (1 .. e.prediction) \cap (Nat \ epochs))
    BY <1>1, RetainCursors DEF cursor
  <1>9. Sound(x)
    <2>1. IsCursors(x.cursors, 1 .. x.prediction)
      BY <1>6, <1>8, MoreEpochs
    <2>2. IsCells(cells, 1 .. e.prediction) /\ IsCells(cells, Min(lowest) .. e.prediction)
      BY <1>1, <1>3, <1>4, <1>7 DEF IsCells, kept
    <2> QED BY <1>1, <1>6, <1>7, <2>1, <2>2 DEF Sound, Loose
  <1>10. ASSUME IsCells(e.overlay, e.confirmed .. e.prediction), Tidy(e)
         PROVE  Tidy(x)
    <2>1. epochs \subseteq {e.confirmed}
      BY <1>1, <1>2, <1>10 DEF IsCells, epochs
    <2>2. IsCursors(cursor, (0 .. e.confirmed) \cap (Nat \ epochs))
      BY <1>10, RetainCursors DEF Tidy, cursor
    <2>3. (0 .. e.confirmed) \cap (Nat \ epochs) \subseteq 0 .. Min(lowest)
      <3>1. CASE epochs = {}
        <4>1. lowest = {e.confirmed}
          BY <3>1 DEF lowest
        <4> QED BY <1>7, <4>1
      <3>2. CASE epochs = {e.confirmed}
        <4>1. lowest = {e.confirmed, e.confirmed - 1}
          BY <3>2 DEF lowest
        <4>2. Min(lowest) = e.confirmed - 1
          BY <1>1, <1>7, <4>1
        <4> QED BY <1>1, <3>2, <4>2
      <3> QED BY <2>1, <3>1, <3>2
    <2> QED BY <1>6, <2>2, <2>3, MoreEpochs DEF Tidy
  <1> QED BY <1>5, <1>9, <1>10

LEMMA CursorIsChecked ==
    ASSUME NEW e, Sound(e), NEW s
    PROVE  /\ Sound(CheckCursor(e, s)) /\ Tidy(CheckCursor(e, s))
           /\ Tidy(e) => Agrees(CheckCursor(e, s), s)
  <1> DEFINE q == Retain(e.cursors, 0 .. e.confirmed)
             x == [e EXCEPT !.cursors = q]
             Wrong == /\ e.cursors # <<>> /\ ~Tentative(Last(e.cursors), e)
                      /\ (Last(e.cursors).row # s.row \/ Last(e.cursors).col # s.col)
  <1>1. CASE Wrong
    <2>1. CheckCursor(e, s) = Reset(e)
      BY <1>1 DEF CheckCursor
    <2> QED BY <2>1, ResetSettles DEF Sound, Loose
  <1>2. CASE ~Wrong
    <2>1. CheckCursor(e, s) = x
      BY <1>2 DEF CheckCursor, Sound, Loose, IsEngine
    <2>2. /\ IsEngine(x) /\ x.prediction = e.prediction /\ x.confirmed = e.confirmed
          /\ x.cursors = q /\ x.overlay = e.overlay
      <3> HIDE DEF q
      <3> QED BY DEF Sound, Loose, IsEngine
    <2> HIDE DEF x
    <2>3. IsCursors(q, (1 .. e.prediction) \cap (0 .. e.confirmed))
      BY RetainCursors DEF Sound, Loose
    <2>4. IsCursors(q, 1 .. e.prediction) /\ IsCursors(q, 0 .. e.confirmed)
      <3> HIDE DEF q
      <3> QED BY <2>3, MoreEpochs
    <2>5. Sound(x) /\ Tidy(x)
      BY <2>2, <2>4 DEF Sound, Loose, Tidy
    <2>6. ASSUME Tidy(e) PROVE Agrees(x, s)
      <3>1. CASE e.cursors = <<>>
        <4>1. IsCursors(q, {} \cap (0 .. e.confirmed))
          BY <3>1, NoCursors, RetainCursors
        <4>2. q = <<>>
          <5> HIDE DEF q
          <5> QED BY <4>1, LastCursor
        <4> QED BY <2>2, <4>2 DEF Agrees
      <3>2. CASE e.cursors # <<>>
        <4>1. Last(e.cursors).epoch \in 0 .. e.confirmed
          BY <2>6, <3>2, LastCursor DEF Tidy
        <4>2. Last(q) = Last(e.cursors)
          BY <3>2, <4>1, RetainCursors DEF Sound, Loose
        <4>3. ~Tentative(Last(e.cursors), e)
          BY <4>1 DEF Tentative, Sound, Loose
        <4> QED BY <1>2, <2>2, <3>2, <4>2, <4>3 DEF Agrees
      <3> QED BY <3>1, <3>2
    <2> QED BY <2>1, <2>5, <2>6
  <1> QED BY <1>1, <1>2

(* A cull leaves nothing tentative; a second one, with no key between, no  *)
(* wrong cursor.                                                           *)
LEMMA CullSettles ==
    ASSUME NEW e, Sound(e), NEW s, NEW x \in Cull(e, s)
    PROVE  Sound(x) /\ Tidy(x) /\ (Tidy(e) => Agrees(x, s))
  <1>1. CASE s.cols # e.cols
    <2> DEFINE w == [e EXCEPT !.cols = s.cols]
    <2>1. x = Reset(w)
      BY <1>1 DEF Cull, Sound, Loose, IsEngine
    <2>2. IsEngine(w)
      BY DEF Sound, Loose, IsEngine
    <2> HIDE DEF w
    <2> QED BY <2>1, <2>2, ResetSettles
  <1>2. CASE ~(s.cols # e.cols)
    <2>1. PICK c \in ConfirmCursor(e, s) : x = CheckCursor(CullCells(c, s), s)
      BY <1>2 DEF Cull
    <2>2. /\ Loose(c) /\ c.cursors = e.cursors /\ c.overlay = e.overlay
          /\ c.prediction = e.prediction
          /\ Tidy(e) => c.confirmed = e.confirmed
      BY Confirms
    <2>3. Tidy(e) => IsCells(c.overlay, c.confirmed .. c.prediction) /\ Tidy(c)
      BY <2>2 DEF Sound, Tidy
    <2>4. Sound(CullCells(c, s)) /\ (Tidy(e) => Tidy(CullCells(c, s)))
      BY <2>2, <2>3, CellsAreCulled
    <2> QED BY <2>1, <2>4, CursorIsChecked
  <1> QED BY <1>1, <1>2

-----------------------------------------------------------------------------
(* An output.                                                              *)

(* f[n] is the world after the first n keys.                               *)
Answering(f, w, keys, mode, m) ==
    f = [n \in 0 .. m |-> IF n = 0 THEN w ELSE Answer(f[n - 1], keys[n], mode)]

(* The recursion of AnswerAll has a solution.                              *)
LEMMA AnsweringUnfolds ==
    ASSUME NEW w, NEW keys, NEW mode, NEW m \in Nat
    PROVE  \E f : Answering(f, w, keys, mode, m)
  <1> SUFFICES ASSUME ~ \E f : Answering(f, w, keys, mode, m)
               PROVE  FALSE
    OBVIOUS
  <1> DEFINE Stuck == {k \in Nat : ~ \E f : Answering(f, w, keys, mode, k)}
  <1>1. PICK k \in Stuck : \A y \in Stuck : k <= y
    <2>1. Stuck \in SUBSET Nat /\ Stuck # {}
      OBVIOUS
    <2> HIDE DEF Stuck
    <2> QED BY <2>1, LeastElement
  <1>2. k \in Nat /\ ~ \E f : Answering(f, w, keys, mode, k)
    OBVIOUS
  <1>3. CASE k = 0
    <2> DEFINE g == [n \in 0 .. 0 |-> w]
    <2>1. g = [n \in 0 .. 0 |-> IF n = 0 THEN w ELSE Answer(g[n - 1], keys[n], mode)]
      OBVIOUS
    <2>2. Answering(g, w, keys, mode, 0)
      BY <2>1 DEF Answering
    <2> QED BY <1>2, <1>3, <2>2
  <1>4. CASE k # 0
    <2>1. k - 1 \in Nat /\ ~(k <= k - 1)
      BY <1>2, <1>4
    <2>2. k - 1 \notin Stuck
      BY <1>1, <2>1
    <2>3. PICK f : Answering(f, w, keys, mode, k - 1)
      BY <2>1, <2>2
    <2> DEFINE g == [n \in 0 .. k |-> IF n = k THEN Answer(f[k - 1], keys[k], mode) ELSE f[n]]
               G == [n \in 0 .. k |-> IF n = 0 THEN w ELSE Answer(g[n - 1], keys[n], mode)]
    <2>4. ASSUME NEW n \in 0 .. k PROVE g[n] = G[n]
      <3>1. CASE n = k
        <4>1. k - 1 \in 0 .. k /\ k - 1 # k /\ k # 0
          BY <1>2, <1>4
        <4> QED BY <3>1, <4>1
      <3>2. CASE n = 0
        BY <1>4, <3>2, <2>1, <2>3 DEF Answering
      <3>3. CASE n # 0 /\ n # k
        <4>1. n \in 0 .. (k - 1) /\ n - 1 \in 0 .. (k - 1) /\ n - 1 \in 0 .. k /\ n - 1 # k
          BY <1>2, <3>3
        <4>2. f[n] = Answer(f[n - 1], keys[n], mode)
          BY <2>3, <3>3, <4>1 DEF Answering
        <4> QED BY <3>3, <4>1, <4>2
      <3> QED BY <3>1, <3>2, <3>3
    <2>5. g = G
      BY <2>4
    <2>6. Answering(g, w, keys, mode, k)
      BY <2>5 DEF Answering
    <2> QED BY <1>2, <2>6
  <1> QED BY <1>3, <1>4

(* A key without output leaves the screen alone.                           *)
Silent(w, s) ==
    /\ w = [screen |-> w.screen, mode |-> w.mode, typed |-> w.typed, out |-> w.out]
    /\ w.out \in BOOLEAN /\ (~w.out => w.screen = s)

LEMMA AnswerIsSilent ==
    ASSUME NEW w, NEW s, Silent(w, s), NEW key, NEW mode
    PROVE  Silent(Answer(w, key, mode), s)
  <1>2. ASSUME NEW t PROVE Silent([w EXCEPT !.typed = t], s)
    BY DEF Silent
  <1>3. ASSUME NEW z, NEW t PROVE Silent([w EXCEPT !.screen = z, !.typed = t, !.out = TRUE], s)
    <2> DEFINE a == [w EXCEPT !.screen = z]
               b == [a EXCEPT !.typed = t]
               c == [b EXCEPT !.out = TRUE]
               Whole(x) == x = [screen |-> x.screen, mode |-> x.mode, typed |-> x.typed,
                                out |-> x.out]
    <2>1. c = [w EXCEPT !.screen = z, !.typed = t, !.out = TRUE]
      BY DEF Silent
    <2>2. Whole(a)
      BY DEF Silent
    <2> HIDE DEF a
    <2>3. Whole(b)
      BY <2>2
    <2> HIDE DEF b
    <2>4. Whole(c)
      <3>1. ASSUME NEW y PROVE Whole([b EXCEPT !.out = y])
        BY <2>3
      <3> HIDE DEF Whole
      <3> QED BY <3>1, Zenon
    <2>5. c.out
      BY <2>3
    <2> HIDE DEF c
    <2>6. Silent(c, s)
      BY <2>4, <2>5, Zenon DEF Silent
    <2> QED BY <2>1, <2>6
  <1> DEFINE t == IF key = "BS" THEN w.typed - 1 ELSE w.typed + 1
             z == IF key = "BS" THEN Erase(w.screen) ELSE Put(w.screen, key)
             m == IF w.mode = "shell" THEN mode ELSE "shell"
  <1>4. Answer(w, key, mode) \in {EndsLine(w, m), w, [w EXCEPT !.typed = t],
                                  [w EXCEPT !.screen = z, !.typed = t, !.out = TRUE]}
    <2>1. [w EXCEPT !.screen = IF key = "BS" THEN Erase(@) ELSE Put(@, key), !.typed = t,
                    !.out = TRUE]
          = [w EXCEPT !.screen = z, !.typed = t, !.out = TRUE]
      BY DEF Silent
    <2> HIDE DEF t, z, m
    <2> QED BY <2>1 DEF Answer, t, m
  <1> DEFINE u == [w EXCEPT !.screen = z, !.typed = t, !.out = TRUE]
             v == [w EXCEPT !.typed = t]
  <1> HIDE DEF t, z, m
  <1>5. Silent(EndsLine(w, m), s)
    BY DEF Silent, EndsLine
  <1>6. Silent(u, s) /\ Silent(v, s)
    BY <1>2, <1>3
  <1> HIDE DEF u, v
  <1>7. Answer(w, key, mode) \in {EndsLine(w, m), w, v, u}
    BY <1>4 DEF u, v
  <1> QED BY <1>5, <1>6, <1>7

LEMMA SilenceKeepsScreen ==
    ASSUME NEW keys, Len(keys) \in Nat, NEW mode
    PROVE  LET w == AnswerAll(World, keys, mode)
           IN  w.out \in BOOLEAN /\ (~w.out => w.screen = screen)
  <1> DEFINE f == CHOOSE g : Answering(g, World, keys, mode, Len(keys))
             Wrong == {n \in 0 .. Len(keys) : ~Silent(f[n], screen)}
  <1>1. Answering(f, World, keys, mode, Len(keys))
    BY AnsweringUnfolds
  <1>2. AnswerAll(World, keys, mode) = f[Len(keys)]
    BY DEF AnswerAll, Answering
  <1> HIDE DEF f
  <1>3. Silent(f[0], screen)
    <2>1. f[0] = World
      BY <1>1 DEF Answering
    <2> QED BY <2>1 DEF Silent, World
  <1>4. ASSUME NEW n \in 1 .. Len(keys), Silent(f[n - 1], screen)
        PROVE  Silent(f[n], screen)
    <2>1. n \in 0 .. Len(keys) /\ n # 0
      OBVIOUS
    <2>2. f[n] = Answer(f[n - 1], keys[n], mode)
      BY <1>1, <2>1 DEF Answering
    <2> QED BY <1>4, <2>2, AnswerIsSilent
  <1>5. Wrong = {}
    <2> SUFFICES ASSUME Wrong # {} PROVE FALSE
      OBVIOUS
    <2>1. PICK n \in Wrong : \A y \in Wrong : n <= y
      <3>1. Wrong \in SUBSET Nat
        OBVIOUS
      <3> HIDE DEF Wrong
      <3> QED BY <3>1, LeastElement
    <2>2. n \in 1 .. Len(keys) /\ n - 1 \in 0 .. Len(keys) /\ ~(n <= n - 1)
      BY <1>3, <2>1
    <2>3. Silent(f[n - 1], screen)
      BY <2>1, <2>2
    <2> QED BY <1>4, <2>1, <2>2, <2>3
  <1>6. Silent(f[Len(keys)], screen)
    BY <1>5
  <1> QED BY <1>2, <1>6 DEF Silent

-----------------------------------------------------------------------------
(* The theorems.                                                           *)

LEMMA EngineFields ==
    ASSUME NEW e, IsEngine(e), SetEngine(e)
    PROVE  Engine' = e
  BY DEF IsEngine, SetEngine, Engine

LEMMA CountsOutput ==
    ASSUME quiet \in 0 .. 2
    PROVE  /\ Min({quiet + 1, 2}) \in 1 .. 2
           /\ Min({quiet + 1, 2}) = 2 => quiet >= 1
  <1>1. {quiet + 1, 2} \in SUBSET Nat /\ {quiet + 1, 2} # {}
    OBVIOUS
  <1>2. Min({quiet + 1, 2}) \in {quiet + 1, 2} /\ \A y \in {quiet + 1, 2} : Min({quiet + 1, 2}) <= y
    BY <1>1, MinIsLeast
  <1> QED BY <1>2

LEMMA InitHolds == Init => IInv
  <1> SUFFICES ASSUME Init PROVE IInv
    OBVIOUS
  <1>1. /\ IsEngine(Engine) /\ Engine.prediction = 1 /\ Engine.confirmed = 0
        /\ Engine.cursors = <<>> /\ Engine.overlay = NoCells
    BY DEF Init, Engine, IsEngine
  <1>2. DOMAIN NoCells = {}
    BY DEF NoCells
  <1>3. Sound(Engine)
    BY <1>1, <1>2, NoCursors DEF Sound, Loose, IsCells
  <1> QED BY <1>3 DEF Init, IInv

LEMMA TypeHolds ==
    ASSUME IInv, NEW key, Type(key) PROVE IInv'
  <1>1. Sound(Engine') /\ quiet' = 0
    <2>1. CASE alt
      BY <2>1 DEF Type, IInv, engine, Engine
    <2>2. CASE ~alt
      <3>1. Sound(NewUserByte(Engine, screen, key)) /\ SetEngine(NewUserByte(Engine, screen, key))
        BY <2>2, KeyKeeps DEF Type, IInv
      <3>2. Engine' = NewUserByte(Engine, screen, key)
        BY <3>1, EngineFields DEF Sound, Loose
      <3> QED BY <3>1, <3>2 DEF Type
    <2> QED BY <2>1, <2>2
  <1> QED BY <1>1 DEF IInv

(* A cull of the present engine against the screen to come.                *)
LEMMA CullHolds ==
    ASSUME IInv, \E e \in Cull(Engine, screen') : SetEngine(e), quiet' = Min({quiet + 1, 2})
    PROVE  IInv'
  <1>1. PICK e \in Cull(Engine, screen') : SetEngine(e)
    OBVIOUS
  <1>2. Sound(e) /\ Tidy(e) /\ (Tidy(Engine) => Agrees(e, screen'))
    BY CullSettles DEF IInv
  <1>3. Engine' = e
    BY <1>1, <1>2, EngineFields DEF Sound, Loose
  <1>4. quiet' \in 1 .. 2 /\ (quiet' = 2 => quiet >= 1)
    BY CountsOutput DEF IInv
  <1> QED BY <1>2, <1>3, <1>4 DEF IInv

LEMMA OutputHolds ==
    ASSUME IInv, NEW n \in 1 .. Len(unanswered), NEW mode, ServerOutput(n, mode),
           Len(SubSeq(unanswered, 1, n)) \in Nat
    PROVE  IInv'
  <1> DEFINE w == AnswerAll(World, SubSeq(unanswered, 1, n), mode)
  <1>1. w.out \in BOOLEAN /\ (~w.out => w.screen = screen)
    BY SilenceKeepsScreen
  <1>2. /\ screen' = w.screen
        /\ IF w.out THEN \E e \in Cull(Engine, w.screen) : SetEngine(e) ELSE UNCHANGED engine
        /\ quiet' = IF w.out THEN Min({quiet + 1, 2}) ELSE quiet
    BY DEF ServerOutput
  <1> HIDE DEF w
  <1>3. CASE w.out
    <2>1. (\E e \in Cull(Engine, screen') : SetEngine(e)) /\ quiet' = Min({quiet + 1, 2})
      BY <1>2, <1>3
    <2> QED BY <2>1, CullHolds
  <1>4. CASE ~w.out
    BY <1>1, <1>2, <1>4 DEF IInv, engine, Engine
  <1> QED BY <1>1, <1>3, <1>4

LEMMA StepHolds ==
    ASSUME IInv, [Next]_vars, unanswered \in Seq(Keys)
    PROVE  IInv'
  <1>1. CASE UNCHANGED vars
    BY <1>1 DEF vars, engine, bounds, IInv, Engine
  <1>2. ASSUME NEW key \in Keys, Type(key) PROVE IInv'
    BY <1>2, TypeHolds
  <1>3. ASSUME NEW n \in 1 .. Len(unanswered), NEW mode, ServerOutput(n, mode) PROVE IInv'
    <2>1. SubSeq(unanswered, 1, n) \in Seq(Keys)
      OBVIOUS
    <2> QED BY <1>3, <2>1, OutputHolds
  <1>4. CASE Repaint
    <2>1. (\E e \in Cull(Engine, screen') : SetEngine(e)) /\ quiet' = Min({quiet + 1, 2})
      BY <1>4 DEF Repaint
    <2> QED BY <2>1, CullHolds
  <1>5. CASE EnterAlt
    BY <1>5 DEF EnterAlt, engine, bounds, IInv, Engine
  <1>6. CASE LeaveAlt
    <2>1. (\E e \in Cull(Engine, screen') : SetEngine(e)) /\ quiet' = Min({quiet + 1, 2})
      BY <1>6 DEF LeaveAlt
    <2> QED BY <2>1, CullHolds
  <1>7. ASSUME NEW c, Resize(c) PROVE IInv'
    BY <1>7 DEF Resize, engine, IInv, Engine
  <1> QED BY <1>1, <1>2, <1>3, <1>4, <1>5, <1>6, <1>7 DEF Next

(* What waits for an answer are keys.                                      *)
LEMMA KeysHold ==
    Spec => [](unanswered \in Seq(Keys))
  <1>1. Init => unanswered \in Seq(Keys)
    BY EmptySeq DEF Init
  <1>2. ASSUME unanswered \in Seq(Keys), [Next]_vars PROVE unanswered' \in Seq(Keys)
    <2>1. CASE UNCHANGED vars
      BY <1>2, <2>1 DEF vars
    <2>2. ASSUME NEW key \in Keys, Type(key) PROVE unanswered' \in Seq(Keys)
      BY <1>2, <2>2, AppendProperties DEF Type
    <2>3. ASSUME NEW n \in 1 .. Len(unanswered), NEW mode, ServerOutput(n, mode)
          PROVE  unanswered' \in Seq(Keys)
      <3>1. unanswered' = SubSeq(unanswered, n + 1, Len(unanswered))
        BY <2>3 DEF ServerOutput
      <3> QED BY <1>2, <3>1
    <2>4. CASE Repaint \/ EnterAlt \/ \E c \in {Cols - 1, Cols} : Resize(c)
      BY <1>2, <2>4 DEF Repaint, EnterAlt, Resize
    <2>5. CASE LeaveAlt
      BY <2>5, EmptySeq DEF LeaveAlt
    <2> QED BY <1>2, <2>1, <2>2, <2>3, <2>4, <2>5 DEF Next
  <1>3. unanswered \in Seq(Keys) /\ [Next]_vars => (unanswered \in Seq(Keys))'
    BY <1>2
  <1> QED BY <1>1, <1>3, PTL DEF Spec

(* The epochs are in order, and a cull leaves nothing tentative behind.    *)
THEOREM Invariant == Spec => []IInv
  <1>1. IInv /\ [Next]_vars /\ unanswered \in Seq(Keys) => IInv'
    BY StepHolds
  <1> QED BY <1>1, InitHolds, KeysHold, PTL DEF Spec

(* Nothing that was guessed before the confirmed line is still there.      *)
THEOREM NoCellOutlivesHolds == Spec => []NoCellOutlivesItsEpoch
  <1>1. IInv => NoCellOutlivesItsEpoch
    BY DEF IInv, Sound, Loose, IsCells, Engine, NoCellOutlivesItsEpoch
  <1> QED BY <1>1, Invariant, PTL

(* The cursor is right from the second output after the last key on.       *)
THEOREM CursorHealsHolds == Spec => []CursorHeals
  <1>1. IInv => CursorHeals
    <2> SUFFICES ASSUME IInv, quiet = 2
                 PROVE  ShownCursor(Engine, screen) = <<screen.row, screen.col>>
      BY DEF CursorHeals
    <2>1. Agrees(Engine, screen)
      BY DEF IInv
    <2> QED BY <2>1 DEF ShownCursor, Agrees
  <1> QED BY <1>1, Invariant, PTL
=============================================================================
