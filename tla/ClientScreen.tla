---------------------------- MODULE ClientScreen ----------------------------
(***************************************************************************)
(* What the user's terminal shows: the differential renderer               *)
(* (libmoshpit/src/term/renderer.rs) and the tasks of a client session     *)
(* that write through it: the reader of the server's frames, the keyboard  *)
(* forwarder, the SIGWINCH handler and the TCP warning overlay.            *)
(*                                                                         *)
(* Each task renders under the locks and sends the bytes after letting go  *)
(* of them.  `unsent` are the updates rendered and not yet sent, in render *)
(* order.  What is sent goes through one channel to one thread that writes *)
(* it out; an update is taken to be on the terminal once it is sent.       *)
(*                                                                         *)
(* A screen is a sequence of rows; the cursor and the attributes are left  *)
(* out, and a predicted key is an "x" on a row (Prediction models which).  *)
(* As the vt100 crate does, a terminal that gets shorter loses the rows at *)
(* the bottom; one that is written to below its last row ignores it.       *)
(***************************************************************************)
EXTENDS Naturals, Sequences, SequencesExt

CONSTANTS
    Text,             \* what a row of the server's screen can hold, besides Blank
    Sizes,            \* numbers of rows the terminal can have
    Tcp,              \* is this the TCP transport, with its warning?
    MaxOutput,        \* bound: changes of the screen that the server sends
    MaxKeys,          \* bound: keys typed
    MaxResizes        \* bound: resizes

Blank == ""
Predicted == "x"
Warning == "!"
Leftover == "$"       \* what the terminal showed before the session

ASSUME ClientScreenAssumption ==
    /\ Sizes \subseteq Nat \ {0} /\ Sizes # {}
    /\ Tcp \in BOOLEAN
    /\ Text \cap {Blank, Predicted, Warning, Leftover} = {}
    /\ MaxOutput \in Nat /\ MaxKeys \in Nat /\ MaxResizes \in Nat

VARIABLES
    emulator,         \* [alt, rows, under]: the screen, and the one beneath it
    overlay,          \* the row with a prediction, 0: none
    displayed, initialized,               \* the renderer
    reader, forwarder, resizer, warner,   \* what each task does next
    unsent,           \* updates not yet sent
    terminal,
    inOrder,          \* history: written in render order since the last full repaint
    outrun,           \* history: the last resize came between two halves of a
                      \* full state (ReadSize, ReplaceParser)
    outputs, keys, resizes

renderer   == <<displayed, initialized>>
path       == <<unsent, terminal, inOrder, outrun>>
counts     == <<outputs, keys, resizes>>
screenVars == <<emulator, overlay, renderer, reader, forwarder, resizer, warner, path, counts>>

-----------------------------------------------------------------------------
(* Screens, as the vt100 crate keeps them.                                 *)

Rows(n, v) == [i \in 1..n |-> v]
Screen(n) == [alt |-> FALSE, rows |-> Rows(n, Blank), under |-> Rows(n, Blank)]

Up(rows, n) == [i \in DOMAIN rows |-> IF i + n \in DOMAIN rows THEN rows[i + n] ELSE Blank]
Fit(rows, n) == [i \in 1..n |-> IF i \in DOMAIN rows THEN rows[i] ELSE Blank]

SetSize(s, n) == [s EXCEPT !.rows = Fit(@, n), !.under = Fit(@, n)]
EnterAlt(s) == [s EXCEPT !.alt = TRUE, !.under = IF s.alt THEN @ ELSE s.rows,
                         !.rows = Rows(Len(@), Blank)]
LeaveAlt(s) == IF s.alt THEN [s EXCEPT !.alt = FALSE, !.rows = s.under] ELSE s

\* A screen that has processed an update: [switch, clear, scroll, rows].
Written(s, out) ==
    LET switched == CASE out.switch = "in" -> EnterAlt(s)
                      [] out.switch = "out" -> LeaveAlt(s)
                      [] OTHER -> s
        base == IF out.clear THEN Rows(Len(s.rows), Blank) ELSE Up(switched.rows, out.scroll)
    IN  [switched EXCEPT !.rows = [i \in DOMAIN base |-> IF i \in DOMAIN out.rows
                                                         THEN out.rows[i] ELSE base[i]]]

-----------------------------------------------------------------------------
(* Renderer::render                                                        *)

\* The target: the server's rows with the prediction merged in.
Frame(screen, predicted) ==
    [i \in DOMAIN screen.rows |-> IF i = predicted THEN Predicted ELSE screen.rows[i]]

\* `shifted`: the first len rows of the frame are rows displayed n lower down.
Shifted(prev, frame, n, len) ==
    /\ \A i \in 1..len : frame[i] = IF i + n \in DOMAIN prev THEN prev[i + n] ELSE Blank
    /\ \E i \in 1..len : frame[i] # Blank

\* detect_scroll_up; 0 when the frame is no scrolled screen.
DetectScrollUp(prev, frame) ==
    LET size == Len(frame)
        shapeA == {n \in 1 .. size - 1 : Shifted(prev, frame, n, size - n)}
        shapeB == {n \in 1 .. size - 2 : Shifted(prev, frame, n, size - 1 - n)}
        shifts == IF shapeA # {} THEN shapeA ELSE IF frame[size] = Blank THEN shapeB ELSE {}
    IN  IF size < 2 \/ prev = frame \/ shifts = {} THEN 0
        ELSE CHOOSE n \in shifts : \A m \in shifts : n <= m

Scrolls(screen, frame) == IF screen.alt THEN 0 ELSE DetectScrollUp(displayed.rows, frame)

\* contents_diff: the rows in which the two screens differ.
Diff(from, frame) ==
    [i \in {j \in DOMAIN frame : j \in DOMAIN from => from[j] # frame[j]} |-> frame[i]]

Bug_Differential(screen, frame) ==
    LET n == Scrolls(screen, frame)
    IN  [switch |-> "none", clear |-> FALSE, scroll |-> n, rows |-> Diff(displayed.rows, frame)]

\* A scroll counts as displayed before the difference is taken.
Differential(screen, frame) ==
    LET n == Scrolls(screen, frame)
    IN  [switch |-> "none", clear |-> FALSE, scroll |-> n,
         rows |-> Diff(Up(displayed.rows, n), frame)]

Full(screen, frame) ==
    [switch |-> IF screen.alt = displayed.alt THEN "none" ELSE IF screen.alt THEN "in" ELSE "out",
     clear |-> TRUE, scroll |-> 0, rows |-> frame]

Render(screen, predicted, init) ==
    LET frame == Frame(screen, predicted)
    IN  IF init /\ screen.alt = displayed.alt THEN Differential(screen, frame)
        ELSE Full(screen, frame)

Empty(out) == ~out.clear /\ out.scroll = 0 /\ DOMAIN out.rows = {}

\* A task renders; what comes out it has still to send.
RenderBy(task, screen, predicted, init) ==
    LET out == Render(screen, predicted, init)
    IN  /\ displayed' = Written(displayed, out)
        /\ initialized' = TRUE
        /\ unsent' = IF Empty(out) THEN unsent ELSE Append(unsent, [task |-> task, out |-> out, late |-> FALSE])

Sending(task) == \E i \in DOMAIN unsent : unsent[i].task = task

-----------------------------------------------------------------------------

ScreenInit ==
    \E n \in Sizes :
        /\ emulator = Screen(n) /\ overlay = 0
        /\ displayed = Screen(n) /\ initialized = FALSE
        /\ reader = [pc |-> "idle", size |-> n] /\ forwarder = "idle" /\ resizer = "idle"
        /\ warner = IF Tcp THEN "warn" ELSE "done"
        /\ unsent = <<>>
        /\ terminal = [Screen(n) EXCEPT !.rows = Rows(n, Leftover)]
        /\ inOrder = TRUE /\ outrun = FALSE
        /\ outputs = 0 /\ keys = 0 /\ resizes = 0

-----------------------------------------------------------------------------
(* The reader.                                                             *)

Ready == reader.pc = "idle" /\ ~Sending("reader") /\ outputs < MaxOutput

Outputs(s) ==
    {[s EXCEPT !.rows = [Up(@, 1) EXCEPT ![Len(s.rows)] = v]] : v \in Text}
    \cup {[s EXCEPT !.rows[i] = v] : i \in DOMAIN s.rows, v \in Text}
    \cup {IF s.alt THEN LeaveAlt(s) ELSE EnterAlt(s)}

\* process_bytes_with_prediction: the emulator first, then the update.
ProcessBytes ==
    /\ Ready
    /\ \E s \in Outputs(emulator) : emulator' = s
    /\ reader' = [reader EXCEPT !.pc = "render"] /\ outputs' = outputs + 1
    /\ UNCHANGED <<overlay, renderer, forwarder, resizer, warner, path, keys, resizes>>

\* A full state or a StateSync diff: the size is read under one lock ...
ReadSize ==
    /\ Ready
    /\ reader' = [pc |-> "replace", size |-> Len(emulator.rows)] /\ outputs' = outputs + 1
    /\ UNCHANGED <<emulator, overlay, renderer, forwarder, resizer, warner, path, keys, resizes>>

\* ... and a parser of that size takes over under another (replace_parser).
ReplaceParser ==
    /\ reader.pc = "replace"
    /\ \E v \in Text, alt \in BOOLEAN :
         emulator' = [Screen(reader.size) EXCEPT !.alt = alt, !.rows = [Up(Fit(emulator.rows, reader.size), 1)
                                                                          EXCEPT ![1] = v]]
    /\ reader' = [reader EXCEPT !.pc = "render"]
    /\ UNCHANGED <<overlay, renderer, forwarder, resizer, warner, path, counts>>

\* render_server_update: on the main screen the predictions are culled.
RenderServerUpdate ==
    /\ reader.pc = "render"
    /\ reader' = [reader EXCEPT !.pc = "idle"]
    /\ IF emulator.alt
         THEN RenderBy("reader", emulator, 0, initialized) /\ UNCHANGED overlay
         ELSE \E kept \in {0, overlay} :
                 overlay' = kept /\ RenderBy("reader", emulator, kept, initialized)
    /\ UNCHANGED <<emulator, forwarder, resizer, warner, terminal, inOrder, outrun, counts>>

-----------------------------------------------------------------------------
(* The keyboard forwarder: in_alt_screen is read before the locks.         *)

TypeKey ==
    /\ forwarder = "idle" /\ ~Sending("forwarder") /\ keys < MaxKeys
    /\ keys' = keys + 1
    /\ forwarder' = IF emulator.alt THEN "idle" ELSE "render"
    /\ UNCHANGED <<emulator, overlay, renderer, reader, resizer, warner, path, outputs, resizes>>

RenderPredictionUpdate ==
    /\ forwarder = "render"
    /\ forwarder' = "idle"
    /\ \E row \in DOMAIN emulator.rows :
         overlay' = row /\ RenderBy("forwarder", emulator, row, initialized)
    /\ UNCHANGED <<emulator, reader, resizer, warner, terminal, inOrder, outrun, counts>>

-----------------------------------------------------------------------------
(* The SIGWINCH handler: the emulator and the renderer, one after the other. *)

Resize(n) ==
    /\ resizer = "idle" /\ resizes < MaxResizes /\ n # Len(terminal.rows)
    /\ terminal' = SetSize(terminal, n)
    /\ emulator' = SetSize(emulator, n)
    /\ resizer' = "renderer" /\ resizes' = resizes + 1
    /\ outrun' = (reader.pc = "replace")
    /\ UNCHANGED <<overlay, renderer, reader, forwarder, warner, unsent, inOrder, outputs, keys>>

Bug_SetRendererSize ==
    /\ resizer = "renderer"
    /\ displayed' = SetSize(displayed, Len(terminal.rows))
    /\ resizer' = "idle"
    /\ UNCHANGED <<emulator, overlay, initialized, reader, forwarder, warner, path, counts>>

SetRendererSize ==
    /\ resizer = "renderer"
    /\ displayed' = SetSize(displayed, Len(terminal.rows)) /\ initialized' = FALSE
    /\ resizer' = "idle"
    /\ UNCHANGED <<emulator, overlay, reader, forwarder, warner, path, counts>>

-----------------------------------------------------------------------------
(* run_tcp_warning_overlay: row 1 is written over, past the renderer, and  *)
(* over again every 300 ms for two seconds; then the screen is repainted.  *)

WarningBytes == [switch |-> "none", clear |-> FALSE, scroll |-> 0, rows |-> [i \in {1} |-> Warning]]

Warn ==
    /\ warner = "warn"
    /\ terminal' = Written(terminal, WarningBytes)
    /\ \E next \in {"warn", "restore"} : warner' = next
    /\ UNCHANGED <<emulator, overlay, renderer, reader, forwarder, resizer, unsent, inOrder, outrun, counts>>

Bug_Restore ==
    /\ warner = "restore"
    /\ warner' = "done"
    /\ RenderBy("warner", emulator, 0, initialized)
    /\ UNCHANGED <<emulator, overlay, reader, forwarder, resizer, terminal, inOrder, outrun, counts>>

\* invalidate, and a render without predictions.
Restore ==
    /\ warner = "restore"
    /\ warner' = "done"
    /\ RenderBy("warner", emulator, 0, FALSE)
    /\ UNCHANGED <<emulator, overlay, reader, forwarder, resizer, terminal, inOrder, outrun, counts>>

-----------------------------------------------------------------------------
(* A task sends what it has rendered.                                      *)

SendStdout(i) ==
    LET e == unsent[i]
    IN  /\ terminal' = Written(terminal, e.out)
        /\ unsent' = RemoveAt([j \in DOMAIN unsent |-> [unsent[j] EXCEPT !.late = @ \/ j < i]], i)
        /\ inOrder' = (~e.late /\ (inOrder \/ e.out.clear))
        /\ UNCHANGED <<emulator, overlay, renderer, reader, forwarder, resizer, warner, outrun, counts>>

-----------------------------------------------------------------------------

ScreenNext ==
    \/ ProcessBytes \/ ReadSize \/ ReplaceParser \/ RenderServerUpdate
    \/ TypeKey \/ RenderPredictionUpdate
    \/ \E n \in Sizes : Resize(n)
    \/ SetRendererSize
    \/ Warn \/ Restore
    \/ \E i \in DOMAIN unsent : SendStdout(i)

ScreenSpec == ScreenInit /\ [][ScreenNext]_screenVars

-----------------------------------------------------------------------------

Settled ==
    /\ unsent = <<>> /\ reader.pc = "idle" /\ forwarder = "idle"
    /\ resizer = "idle" /\ warner = "done"

\* When nothing is on its way and the updates were written in the order they
\* were rendered in, the terminal has the server's screen from the first row to
\* the last, with a predicted key on it at most, whatever was scrolled, switched
\* or written over meanwhile (renderer.rs 38-40: "diffs are always computed
\* against what is actually shown").  Resizes count too, but for one that fell
\* between the two halves of a full state: see SizeSettles.
TerminalTrue ==
    (Settled /\ inOrder /\ initialized /\ ~outrun) =>
        /\ Len(emulator.rows) = Len(terminal.rows)
        /\ \A i \in DOMAIN terminal.rows :
             terminal.rows[i] \in {emulator.rows[i]} \cup IF i = overlay THEN {Predicted} ELSE {}

\* Once the resize handler is through, the screen that is rendered has the size
\* of the terminal ("resize on SIGWINCH", emulator.rs:15).  NOT SO: a full state
\* reads the size under one lock (udp/reader.rs:1096) and replaces the screen
\* under another (:1126), so it puts the size back that a resize in between has
\* changed, until the next resize.
SizeSettles == Settled => Len(emulator.rows) = Len(terminal.rows)

\* The renderer's picture of the terminal is exact, however the tasks that
\* render interleave (renderer.rs 241-243).  NOT SO: two updates can be sent in
\* the other order than they were rendered in.
BaselineExact ==
    (Settled /\ initialized) => terminal.rows = displayed.rows
=============================================================================
