----------------------------- MODULE Prediction -----------------------------
(***************************************************************************)
(* The local-echo prediction engine of the client                          *)
(* (libmoshpit/src/term/prediction.rs) with what drives it: the keyboard   *)
(* forwarder that records a prediction for every key it sends              *)
(* (renderer.rs render_prediction_update), the reader that feeds server    *)
(* output to the emulator and reconciles the predictions with the screen   *)
(* it gives (udp/reader.rs process_bytes_with_prediction), and the program *)
(* at the far end, which echoes what is typed at a shell prompt and keeps  *)
(* silent at a password prompt.                                            *)
(*                                                                         *)
(* A key is on its way from when it is typed to when the output it causes  *)
(* is on the emulator's screen: `unanswered` holds both directions, since  *)
(* delivery is in order.  One output may answer several keys.              *)
(*                                                                         *)
(* What the user sees is the emulator's screen with Painted merged over    *)
(* it, rendered after every key and every output (renderer.rs `render`).   *)
(***************************************************************************)
EXTENDS Integers, SequencesExt

CONSTANTS
    Rows, Cols,       \* size of the largest screen
    Letters,          \* printable keys
    Editing,          \* the other keys the user presses
    Preference,       \* DisplayPreference: "adaptive", "always" or "never"
    TypesAhead,       \* whether the user types before Enter is answered
    Repaints,         \* whether the server may resend the screen unasked
    MaxKeys,          \* bound: keys typed
    MaxWaiting,       \* bound: keys without an answer
    MaxResizes        \* bound: changes of the window's width

ASSUME PredictionAssumption ==
    /\ Rows \in Nat \ {0} /\ Cols \in Nat \ {0, 1}
    /\ Editing \subseteq {"BS", "CR", "CTL"} /\ Letters \cap Editing = {}
    /\ Preference \in {"adaptive", "always", "never"} /\ {Repaints, TypesAhead} \subseteq BOOLEAN
    /\ {MaxKeys, MaxWaiting, MaxResizes} \subseteq Nat

Keys == Letters \cup Editing
Grid == (0 .. Rows - 1) \X (0 .. Cols - 1)

VARIABLES
    screen,           \* emulator.rs: [cells, row, col, cols]
    alt,              \* in_alt_screen
    overlay,          \* overlay_rows: position -> [replacement, original, epoch]
    cursors,          \* cursors: Seq([row, col, epoch])
    predictionEpoch, confirmedEpoch,
    glitchTrigger,
    lastCols,         \* last_rows, last_cols (the rows do not change)
    unanswered,       \* keys whose effect is not on the screen yet
    program,          \* [mode, typed]: what reads the keys at the far end
    quiet,            \* outputs since the last key or resize, up to 2
    typed, resizes    \* counters for the bounds

engine == <<overlay, cursors, predictionEpoch, confirmedEpoch, glitchTrigger, lastCols>>
bounds == <<quiet, typed, resizes>>
vars == <<screen, alt, engine, unanswered, program, bounds>>

-----------------------------------------------------------------------------
(* The screen: vt100::Screen as the engine reads it.                       *)

Blank == ""
Cell(s, p) == IF p \in Grid /\ p[2] < s.cols THEN s.cells[p] ELSE Blank

LineFeed(s) ==
    IF s.row + 1 < Rows
      THEN [s EXCEPT !.row = @ + 1, !.col = 0]
      ELSE [s EXCEPT !.col = 0,
                     !.cells = [p \in Grid |-> IF p[1] + 1 < Rows
                                               THEN s.cells[<<p[1] + 1, p[2]>>]
                                               ELSE Blank]]

\* A character on the last column leaves the cursor past it until the next.
Put(s, ch) ==
    LET w == IF s.col >= s.cols THEN LineFeed(s) ELSE s
    IN  [w EXCEPT !.cells[<<w.row, w.col>>] = ch, !.col = @ + 1]

\* "\b \b"
Erase(s) ==
    LET c == IF s.col = 0 THEN 0 ELSE s.col - 1
    IN  [s EXCEPT !.cells[<<s.row, c>>] = " ", !.col = c]

\* emulator.rs set_size.
SetSize(s, c) ==
    [s EXCEPT !.cols = c,
              !.col = IF @ > c - 1 THEN c - 1 ELSE @,
              !.cells = [p \in Grid |-> IF p[2] < c THEN s.cells[p] ELSE Blank]]

-----------------------------------------------------------------------------
(* The engine's state as one record, so that the operations compose.       *)

Engine == [overlay |-> overlay, cursors |-> cursors, prediction |-> predictionEpoch,
           confirmed |-> confirmedEpoch, glitch |-> glitchTrigger, cols |-> lastCols]

SetEngine(e) ==
    /\ overlay' = e.overlay /\ cursors' = e.cursors
    /\ predictionEpoch' = e.prediction /\ confirmedEpoch' = e.confirmed
    /\ glitchTrigger' = e.glitch /\ lastCols' = e.cols

Tentative(x, e) == x.epoch > e.confirmed
NoCells == [p \in {} |-> [replacement |-> " ", original |-> Blank, epoch |-> 0]]

WithCell(o, p, cell) == [q \in DOMAIN o \cup {p} |-> IF q = p THEN cell ELSE o[q]]

Reset(e) ==
    [e EXCEPT !.overlay = NoCells, !.cursors = <<>>, !.prediction = 1,
              !.confirmed = 0, !.glitch = 0]

BecomeTentative(e) == [e EXCEPT !.prediction = @ + 1]

PushCursor(e, row, col) ==
    [e EXCEPT !.cursors = Append(@, [row |-> row, col |-> col, epoch |-> e.prediction])]

\* cell_mut finds the cell or adds a blank one; the assignments that follow it.
Predict(e, s, p, ch) ==
    [e EXCEPT !.overlay = WithCell(@, p, [replacement |-> ch, original |-> Cell(s, p),
                                          epoch |-> e.prediction])]

\* Where the prediction stands: the last predicted cursor, or the real one.
PredictedCursor(e, s) ==
    IF e.cursors = <<>> THEN [row |-> s.row, col |-> s.col] ELSE Last(e.cursors)

\* newline_carriage_return, with the row and columns it blanks on the last row.
\* A cell already there keeps its original.
NewlineCarriageReturn(e, s) ==
    LET row == PredictedCursor(e, s).row
        line == {<<row, c>> : c \in 0 .. s.cols - 1}
        before(p) == IF p \in DOMAIN e.overlay THEN e.overlay[p].original ELSE Blank
    IN  IF row + 1 >= Rows
          THEN PushCursor([e EXCEPT !.overlay =
                             [p \in DOMAIN @ \cup line |->
                                IF p \in line
                                THEN [replacement |-> " ", original |-> before(p),
                                      epoch |-> e.prediction]
                                ELSE @[p]]], row, 0)
          ELSE PushCursor(e, row + 1, 0)

PredictLetter(e, s, ch) ==
    LET at == PredictedCursor(e, s)
        painted == Predict(e, s, <<at.row, at.col>>, ch)
    IN  IF at.col + 1 < s.cols
          THEN PushCursor(painted, at.row, at.col + 1)
          ELSE NewlineCarriageReturn(BecomeTentative(painted), s)

PredictBackspace(e, s) ==
    LET at == PredictedCursor(e, s)
    IN  IF at.col = 0
          THEN BecomeTentative(e)
          ELSE PushCursor(Predict(e, s, <<at.row, at.col - 1>>, " "), at.row, at.col - 1)

NewUserByte(e, s, key) ==
    CASE key = "BS" -> PredictBackspace(e, s)
      [] key = "CR" -> NewlineCarriageReturn(BecomeTentative(e), s)
      [] key = "CTL" -> BecomeTentative(e)
      [] OTHER -> PredictLetter(e, s, key)

-----------------------------------------------------------------------------
(* cull                                                                    *)

\* The loop keeps the epoch of the last prediction that matches.
Confirming(e, s) ==
    LET matching == {i \in DOMAIN e.cursors : e.cursors[i].row = s.row /\ e.cursors[i].col = s.col}
    IN  IF matching = {} THEN e.confirmed ELSE e.cursors[Max(matching)].epoch

\* update_glitch_tracking: the time a prediction has been outstanding is not
\* modelled, so the counter may go up, stay or go down.
GlitchAfter(g) == {x \in {g - 1, g, g + 1} : x \in 0 .. 1}

ConfirmCursor(e, s) ==
    IF Confirming(e, s) > e.confirmed
      THEN {[e EXCEPT !.confirmed = Confirming(e, s), !.glitch = g] : g \in GlitchAfter(e.glitch)}
      ELSE {e}

Bug_Keeps(e, s, p) ==
    \/ Tentative(e.overlay[p], e)
    \/ /\ Cell(s, p) # e.overlay[p].replacement
       /\ Cell(s, p) = e.overlay[p].original

\* A cell the server still shows as it was is kept while its own epoch is the
\* last one confirmed.
Keeps(e, s, p) ==
    \/ Tentative(e.overlay[p], e)
    \/ /\ Cell(s, p) # e.overlay[p].replacement
       /\ Cell(s, p) = e.overlay[p].original
       /\ e.confirmed <= e.overlay[p].epoch

Contradicted(e, s, p) ==
    /\ ~Tentative(e.overlay[p], e)
    /\ Cell(s, p) \notin {e.overlay[p].replacement, e.overlay[p].original}

\* cursors.retain: what is of one of these epochs.  A recursive function, and
\* not SelectSeq, because the prover knows no definition of that one.
Retain(q, epochs) ==
    LET kept[n \in 0 .. Len(q)] ==
          IF n = 0 THEN <<>>
          ELSE IF q[n].epoch \in epochs THEN Append(kept[n - 1], q[n]) ELSE kept[n - 1]
    IN  kept[Len(q)]

\* kill_epoch for every contradicted cell, in any order: the predictions of
\* their epochs go, and the confirmed epoch falls below the first of them.
KillEpochs(e, epochs) ==
    [e EXCEPT !.cursors = Retain(@, Nat \ epochs),
              !.overlay = Restrict(@, {p \in DOMAIN @ : @[p].epoch \notin epochs}),
              !.confirmed = Min({@} \cup {x - 1 : x \in epochs})]

CullCells(e, s) ==
    LET epochs == {e.overlay[p].epoch : p \in {q \in DOMAIN e.overlay : Contradicted(e, s, q)}}
        kept == {p \in DOMAIN e.overlay : Keeps(e, s, p)}
    IN  KillEpochs([e EXCEPT !.overlay = Restrict(@, kept)], epochs)

Bug_CheckCursor(e, s) == [e EXCEPT !.cursors = Retain(@, 0 .. e.confirmed)]

\* A last prediction whose epoch is confirmed and which is not where the
\* cursor is discards everything; otherwise what is tentative is pruned.
CheckCursor(e, s) ==
    IF e.cursors # <<>> /\ ~Tentative(Last(e.cursors), e)
          /\ (Last(e.cursors).row # s.row \/ Last(e.cursors).col # s.col)
      THEN Reset(e)
      ELSE [e EXCEPT !.cursors = Retain(@, 0 .. e.confirmed)]

Cull(e, s) ==
    IF s.cols # e.cols
      THEN {Reset([e EXCEPT !.cols = s.cols])}
      ELSE {CheckCursor(CullCells(c, s), s) : c \in ConfirmCursor(e, s)}

-----------------------------------------------------------------------------
(* apply: what is painted over the screen, and where the cursor is put.    *)

IsActive(e) ==
    \/ Preference = "always"
    \/ Preference = "adaptive" /\ e.glitch > 0

Painted(e, s) ==
    IF ~IsActive(e) THEN {}
    ELSE {p \in DOMAIN e.overlay : /\ ~Tentative(e.overlay[p], e)
                                   /\ Cell(s, p) # e.overlay[p].replacement}

ShownCursor(e, s) ==
    IF IsActive(e) /\ e.cursors # <<>> /\ ~Tentative(Last(e.cursors), e)
      THEN <<Last(e.cursors).row, Last(e.cursors).col>>
      ELSE <<s.row, s.col>>

-----------------------------------------------------------------------------
(* The program at the far end (a shell, and what asks for a password).     *)

World == [screen |-> screen, mode |-> program.mode, typed |-> program.typed, out |-> FALSE]

EndsLine(w, mode) ==
    [screen |-> Put(LineFeed(w.screen), "$"), mode |-> mode, typed |-> 0, out |-> TRUE]

Answer(w, key, mode) ==
    LET count == IF key = "BS" THEN w.typed - 1 ELSE w.typed + 1
    IN  IF key = "CR" THEN EndsLine(w, IF w.mode = "shell" THEN mode ELSE "shell")
        ELSE IF key = "CTL" \/ (key = "BS" /\ w.typed = 0) THEN w
        ELSE IF w.mode = "secret" THEN [w EXCEPT !.typed = count]
        ELSE [w EXCEPT !.screen = IF key = "BS" THEN Erase(@) ELSE Put(@, key),
                       !.typed = count, !.out = TRUE]

AnswerAll(w, keys, mode) ==
    LET after[n \in 0 .. Len(keys)] ==
          IF n = 0 THEN w ELSE Answer(after[n - 1], keys[n], mode)
    IN  after[Len(keys)]

-----------------------------------------------------------------------------

\* After the first prompt, whose cull set the engine's size.
Init ==
    /\ screen = [cells |-> [[p \in Grid |-> Blank] EXCEPT ![<<0, 0>>] = "$"],
                 row |-> 0, col |-> 1, cols |-> Cols]
    /\ alt = FALSE
    /\ overlay = NoCells /\ cursors = <<>>
    /\ predictionEpoch = 1 /\ confirmedEpoch = 0 /\ glitchTrigger = 0
    /\ lastCols = Cols
    /\ unanswered = <<>>
    /\ program = [mode |-> "shell", typed |-> 0]
    /\ quiet = 0 /\ typed = 0 /\ resizes = 0

\* The forwarder sends the key, then records the prediction and renders; in
\* the alternate screen it only sends.
Type(key) ==
    /\ typed < MaxKeys /\ Len(unanswered) < MaxWaiting
    /\ TypesAhead \/ ~Contains(unanswered, "CR")
    /\ unanswered' = Append(unanswered, key)
    /\ IF alt THEN UNCHANGED engine ELSE SetEngine(NewUserByte(Engine, screen, key))
    /\ typed' = typed + 1 /\ quiet' = 0
    /\ UNCHANGED <<screen, alt, program, resizes>>

\* Output arrives that answers the first n keys: the emulator processes it and
\* render_server_update culls.  Nothing arrives when the program was silent.
ServerOutput(n, mode) ==
    LET w == AnswerAll(World, SubSeq(unanswered, 1, n), mode)
    IN  /\ ~alt
        /\ screen' = w.screen
        /\ program' = [mode |-> w.mode, typed |-> w.typed]
        /\ unanswered' = SubSeq(unanswered, n + 1, Len(unanswered))
        /\ IF w.out THEN \E e \in Cull(Engine, w.screen) : SetEngine(e)
                    ELSE UNCHANGED engine
        /\ quiet' = IF w.out THEN Min({quiet + 1, 2}) ELSE quiet
        /\ UNCHANGED <<alt, typed, resizes>>

\* A full screen state equal to what the emulator holds (apply_full_state_rendering).
Repaint ==
    /\ Repaints /\ ~alt
    /\ \E e \in Cull(Engine, screen) : SetEngine(e)
    /\ quiet' = Min({quiet + 1, 2})
    /\ UNCHANGED <<screen, alt, unanswered, program, typed, resizes>>

\* A full-screen program takes the keys, without a cull ...
EnterAlt ==
    /\ ~alt /\ unanswered = <<>> /\ program.mode = "shell"
    /\ alt' = TRUE
    /\ UNCHANGED <<screen, engine, unanswered, program, bounds>>

\* ... and gives the main screen back, with one.
LeaveAlt ==
    /\ alt
    /\ alt' = FALSE
    /\ unanswered' = <<>>
    /\ \E e \in Cull(Engine, screen) : SetEngine(e)
    /\ quiet' = Min({quiet + 1, 2})
    /\ UNCHANGED <<screen, program, typed, resizes>>

\* SIGWINCH: the emulator changes size at once, the engine at its next cull.
Resize(c) ==
    /\ resizes < MaxResizes /\ c # screen.cols
    /\ screen' = SetSize(screen, c)
    /\ resizes' = resizes + 1 /\ quiet' = 0
    /\ UNCHANGED <<alt, engine, unanswered, program, typed>>

Next ==
    \/ \E key \in Keys : Type(key)
    \/ \E n \in 1 .. Len(unanswered), mode \in {"shell", "secret"} : ServerOutput(n, mode)
    \/ Repaint
    \/ EnterAlt
    \/ LeaveAlt
    \/ \E c \in {Cols - 1, Cols} : Resize(c)

Spec == Init /\ [][Next]_vars

-----------------------------------------------------------------------------

\* What is left over from an epoch before the confirmed one is never kept: a
\* confirmed Enter takes the predictions of the line before it with it
\* (prediction.rs 516-530; a password typed without echo must not appear when
\* the line is committed).
NoCellOutlivesItsEpoch ==
    /\ confirmedEpoch <= predictionEpoch
    /\ \A p \in DOMAIN overlay : overlay[p].epoch >= confirmedEpoch

\* Whatever was predicted and whatever is still on its way, the second output
\* after the last key or resize leaves the cursor where the server has it (the
\* validity check, prediction.rs 549-562).
CursorHeals == quiet = 2 => ShownCursor(Engine, screen) = <<screen.row, screen.col>>

\* The same after the first output.  The code says that a confirmed cursor
\* prediction that is not at the real cursor resets everything (549-553) and
\* that confirmed predictions are pruned (564); it keeps those and prunes the
\* unconfirmed ones, so that after Enter the cursor goes back to the line
\* before (README, section 5).
CursorSettles ==
    (~alt /\ lastCols = screen.cols /\ unanswered = <<>> /\ program.mode = "shell") =>
        ShownCursor(Engine, screen) = <<screen.row, screen.col>>
=============================================================================
