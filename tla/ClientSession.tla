---------------------------- MODULE ClientSession ----------------------------
(***************************************************************************)
(* The client program (moshpit/src/runtime.rs): the loop that connects,    *)
(* serves a session and connects again, the thread that reads the          *)
(* keyboard, and the two tasks that take turns at the receiver of the      *)
(* keyboard channel: the forwarder of a session and the listener of a      *)
(* reconnect countdown.  A step is what runs between two awaits.           *)
(*                                                                         *)
(* A typed byte is its place in the typing order and its key: the force-   *)
(* quit prefix ("esc"), "." ("dot") or any other ("char").  A chunk is     *)
(* what one read of the terminal returned.                                 *)
(*                                                                         *)
(* An operator Bug_X is X with a mistake this code could have.             *)
(***************************************************************************)
EXTENDS Naturals, Sequences, FiniteSets, SequencesExt

CONSTANTS
    Chunks,         \* key sequences one read can return
    MaxTyped,       \* bound on the bytes typed
    KbCapacity,     \* of the keyboard channel (64)
    TxCapacity,     \* of a session's data channel (256)
    SessionIds,     \* UUIDs the server hands out
    MaxAbandoned    \* bound on host prompts whose attempt has timed out

None == 0

ASSUME ClientAssumption ==
    /\ Chunks \subseteq Seq({"esc", "dot", "char"}) \ {<<>>}
    /\ {MaxTyped, MaxAbandoned} \subseteq Nat
    /\ {KbCapacity, TxCapacity} \subseteq Nat \ {0}
    /\ SessionIds \subseteq Nat \ {None}

VARIABLES
    stage,          \* where run_session_loop is
    kb, typed,      \* keyboard channel; bytes typed so far
    holder,         \* task that holds the lock on the channel's receiver
    waiting,        \* task that waits for it
    held,           \* prefix byte the holder keeps back (EscapeState)
    hand,           \* what the forwarder is about to send
    tx, link,       \* the session's data channel; is its receiver alive
    sent,           \* places of the bytes handed to a transport so far
    token, signal,  \* of this session: cancelled; reconnect requested
    exit_token, exit_msg,
    listener_done, exiting,     \* of this countdown
    had_kex, pass_cache,
    asking, abandoned, paused,      \* host prompt of this attempt; of others
    uuid_file, requested, last_session, disturbed

keyVars    == <<kb, typed>>
lockVars   == <<holder, waiting, held, hand>>
txVars     == <<tx, link, sent>>
exitVars   == <<exit_token, exit_msg>>
roundVars  == <<listener_done, exiting>>
passVars   == <<had_kex, pass_cache>>
promptVars == <<asking, abandoned, paused>>
idVars     == <<uuid_file, requested, last_session, disturbed>>
vars == <<stage, keyVars, lockVars, txVars, token, signal, exitVars, roundVars,
          passVars, promptVars, idVars>>

Byte(i, key) == [at |-> i, key |-> key]
NoByte == [at |-> None, key |-> "none"]
NoHand == [bytes |-> <<>>, quits |-> FALSE]
Ended  == {"exited", "returned"}

Init ==
    /\ stage = "connecting"
    /\ kb = <<>> /\ typed = 0
    /\ holder = "none" /\ waiting = "none" /\ held = NoByte /\ hand = NoHand
    /\ tx = <<>> /\ link = "down" /\ sent = <<>>
    /\ token = FALSE /\ signal = FALSE
    /\ exit_token = FALSE /\ exit_msg = "none"
    /\ listener_done = FALSE /\ exiting = FALSE
    /\ had_kex = FALSE /\ pass_cache = "uncached"
    /\ asking = "no" /\ abandoned = 0 /\ paused = FALSE
    /\ uuid_file \in SessionIds \cup {None}
    /\ requested = None /\ last_session = None /\ disturbed = FALSE

-----------------------------------------------------------------------------
(* The keyboard thread.                                                    *)

Type(keys) ==
    /\ stage \notin Ended /\ ~paused
    /\ Len(kb) < KbCapacity /\ typed + Len(keys) <= MaxTyped
    /\ kb' = Append(kb, [i \in 1..Len(keys) |-> Byte(typed + i, keys[i])])
    /\ typed' = typed + Len(keys)
    /\ UNCHANGED <<stage, lockVars, txVars, token, signal, exitVars, roundVars,
                   passVars, promptVars, idVars>>

(* The prefix kept back follows the byte that showed it to be input. *)
Bug_Escape(s, b) ==
    CASE s.held = NoByte /\ b.key = "esc" -> [s EXCEPT !.held = b]
      [] s.held # NoByte /\ b.key = "dot" -> [s EXCEPT !.held = NoByte, !.quits = TRUE]
      [] s.held # NoByte /\ b.key = "char" ->
            [s EXCEPT !.held = NoByte, !.bytes = @ \o <<b, s.held>>]
      [] OTHER -> [s EXCEPT !.bytes = IF s.held = NoByte THEN Append(@, b) ELSE @]

(* The prefix is forgotten when the next byte does not complete it. *)
Bug_EscapeForgets(s, b) ==
    CASE s.quits -> s
      [] ~s.quits /\ b.key = "esc" -> [s EXCEPT !.held = b]
      [] ~s.quits /\ b.key = "dot" /\ s.held # NoByte -> [s EXCEPT !.held = NoByte, !.quits = TRUE]
      [] OTHER -> [s EXCEPT !.held = NoByte, !.bytes = Append(@, b)]

(* One byte through the escape state machine: the forwarder passes on what *)
(* is not part of the sequence, a prefix it kept back included.            *)
Escape(s, b) ==
    CASE s.quits -> s
      [] ~s.quits /\ s.held = NoByte ->
            IF b.key = "esc" THEN [s EXCEPT !.held = b]
                             ELSE [s EXCEPT !.bytes = Append(@, b)]
      [] ~s.quits /\ s.held # NoByte ->
            CASE b.key = "dot" -> [s EXCEPT !.held = NoByte, !.quits = TRUE]
              [] b.key = "esc" -> s
              [] b.key = "char" -> [s EXCEPT !.held = NoByte, !.bytes = @ \o <<s.held, b>>]

(* The bytes of a chunk, one after the other.                              *)
Scan(chunk) ==
    LET s[n \in 0..Len(chunk)] ==
            IF n = 0 THEN [held |-> held, bytes |-> <<>>, quits |-> FALSE]
                     ELSE Escape(s[n - 1], chunk[n])
    IN  s[Len(chunk)]

Take(task) ==
    /\ waiting = task /\ holder = "none"
    /\ holder' = task /\ waiting' = "none" /\ held' = NoByte
    /\ UNCHANGED <<stage, keyVars, hand, txVars, token, signal, exitVars,
                   roundVars, passVars, promptVars, idVars>>

Quit ==
    /\ exit_token' = TRUE /\ token' = TRUE
    /\ exit_msg' = "disconnected"
    /\ holder' = "none" /\ held' = NoByte

ForwarderReads ==
    /\ holder = "forwarder" /\ hand = NoHand /\ kb # <<>>
    /\ kb' = Tail(kb)
    /\ LET s == Scan(Head(kb))
       IN  IF s.bytes = <<>> /\ s.quits
           THEN Quit /\ UNCHANGED hand
           ELSE /\ held' = s.held
                /\ hand' = [bytes |-> s.bytes, quits |-> s.quits]
                /\ UNCHANGED <<holder, token, exitVars>>
    /\ UNCHANGED <<stage, typed, waiting, txVars, signal, roundVars, passVars,
                   promptVars, idVars>>

(* Sending waits for room in the channel and fails once the sender is gone;*)
(* cancelling the session does not interrupt the wait.                     *)
ForwarderSends ==
    /\ holder = "forwarder" /\ hand # NoHand
    /\ hand' = NoHand
    /\ \/ /\ link = "down"
          /\ holder' = "none" /\ held' = NoByte
          /\ UNCHANGED <<tx, token, exitVars>>
       \/ /\ link = "up" /\ Len(tx) < TxCapacity
          /\ tx' = Append(tx, hand.bytes)
          /\ IF hand.quits THEN Quit ELSE UNCHANGED <<holder, held, token, exitVars>>
    /\ UNCHANGED <<stage, keyVars, waiting, link, sent, signal, roundVars,
                   passVars, promptVars, idVars>>

ForwarderStops ==
    /\ holder = "forwarder" /\ hand = NoHand /\ token
    /\ holder' = "none" /\ held' = NoByte
    /\ UNCHANGED <<stage, keyVars, waiting, hand, txVars, token, signal, exitVars,
                   roundVars, passVars, promptVars, idVars>>

(* An aborted forwarder lets go of the lock when the executor drops it. *)
AbortedIsDropped ==
    /\ holder = "aborted"
    /\ holder' = "none"
    /\ UNCHANGED <<stage, keyVars, waiting, held, hand, txVars, token, signal,
                   exitVars, roundVars, passVars, promptVars, idVars>>

(* The listener discards all it reads but the quit sequence. *)
ListenerReads ==
    /\ holder = "listener" /\ kb # <<>>
    /\ kb' = Tail(kb)
    /\ LET s == Scan(Head(kb))
       IN  /\ held' = IF s.quits THEN NoByte ELSE s.held
           /\ holder' = IF s.quits THEN "none" ELSE holder
           /\ exit_token' = (exit_token \/ s.quits)
    /\ UNCHANGED <<stage, typed, waiting, hand, txVars, token, signal, exit_msg,
                   roundVars, passVars, promptVars, idVars>>

ListenerStops ==
    /\ listener_done
    /\ \/ holder = "listener" /\ holder' = "none" /\ held' = NoByte
          /\ UNCHANGED waiting
       \/ waiting = "listener" /\ waiting' = "none" /\ UNCHANGED <<holder, held>>
    /\ UNCHANGED <<stage, keyVars, hand, txVars, token, signal, exitVars, roundVars,
                   passVars, promptVars, idVars>>

-----------------------------------------------------------------------------
(* The sender and the reader of the session's transport.                   *)

SenderSends ==
    /\ link = "up" /\ tx # <<>> /\ ~token
    /\ tx' = Tail(tx)
    /\ sent' = sent \o [i \in DOMAIN Head(tx) |-> Head(tx)[i].at]
    /\ UNCHANGED <<stage, keyVars, lockVars, link, token, signal, exitVars,
                   roundVars, passVars, promptVars, idVars>>

(* The first error of the socket ends the sender, as the token does. *)
SenderEnds ==
    /\ link = "up"
    /\ link' = "down" /\ tx' = <<>>
    /\ UNCHANGED <<stage, keyVars, lockVars, sent, token, signal, exitVars,
                   roundVars, passVars, promptVars, idVars>>

(* Silence, an error or Shutdown asks for a reconnect; the end of the      *)
(* remote shell ends the client.                                           *)
ReaderEnds ==
    /\ stage = "serving" /\ ~signal /\ ~token
    /\ \/ signal' = TRUE /\ UNCHANGED exitVars
       \/ exit_token' = TRUE /\ exit_msg' = "ended" /\ UNCHANGED signal
    /\ UNCHANGED <<stage, keyVars, lockVars, txVars, token, roundVars, passVars,
                   promptVars, idVars>>

-----------------------------------------------------------------------------
(* The session loop: an attempt to connect.                                *)

(* The resume UUID is read once, when there is none to find yet. *)
Bug_ResumeUuid == IF last_session = None THEN uuid_file ELSE None

ResumeUuid == uuid_file

Connect ==
    /\ stage = "connecting"
    /\ requested' = ResumeUuid
    /\ stage' = "exchanging"
    /\ UNCHANGED <<keyVars, lockVars, txVars, token, signal, exitVars, roundVars,
                   passVars, promptVars, uuid_file, last_session, disturbed>>

PromptPassphrase ==
    /\ stage = "exchanging" /\ pass_cache = "uncached" /\ asking = "no"
    /\ stage' = "prompting" /\ paused' = TRUE
    /\ UNCHANGED <<keyVars, lockVars, txVars, token, signal, exitVars, roundVars,
                   passVars, asking, abandoned, idVars>>

(* The prompt blocks the attempt, its deadline included.  A wrong answer   *)
(* is fatal (KeyCorrupt); a prompt that fails is an error to retry.        *)
AnswerPassphrase ==
    /\ stage = "prompting"
    /\ paused' = FALSE
    /\ \/ stage' = "exchanging" /\ pass_cache' = "cached"
       \/ stage' = "returned" /\ pass_cache' = "cached"
       \/ stage' = "failed" /\ UNCHANGED pass_cache
    /\ UNCHANGED <<keyVars, lockVars, txVars, token, signal, exitVars, roundVars,
                   had_kex, asking, abandoned, idVars>>

(* The host prompts run in the task that reads the frames, which goes on   *)
(* when the attempt is given up.                                           *)
PromptHost ==
    /\ stage = "exchanging" /\ asking = "no"
    /\ asking' = "yes" /\ paused' = TRUE
    /\ UNCHANGED <<stage, keyVars, lockVars, txVars, token, signal, exitVars,
                   roundVars, passVars, abandoned, idVars>>

AnswerHost ==
    /\ \/ asking = "yes" /\ asking' = "answered" /\ UNCHANGED abandoned
       \/ abandoned > 0 /\ abandoned' = abandoned - 1 /\ UNCHANGED asking
    /\ paused' = FALSE
    /\ UNCHANGED <<stage, keyVars, lockVars, txVars, token, signal, exitVars,
                   roundVars, passVars, idVars>>

(* The server is out of reach, refuses, or KEX_TIMEOUT passes.  Errors the *)
(* loop knows to be final end the program.                                 *)
AttemptFails ==
    /\ stage = "exchanging"
    /\ asking = "yes" => abandoned < MaxAbandoned
    /\ stage' \in {"failed", "returned"}
    /\ asking' = "no"
    /\ abandoned' = IF asking = "yes" THEN abandoned + 1 ELSE abandoned
    /\ requested' = None
    /\ UNCHANGED <<keyVars, lockVars, txVars, token, signal, exitVars, roundVars,
                   passVars, paused, uuid_file, last_session, disturbed>>

(* A session's tasks: the forwarder will take the keyboard. *)
StartSession ==
    /\ waiting' = "forwarder" /\ hand' = NoHand
    /\ tx' = <<>> /\ link' = "up"

(* The session's UUID is written to disk; when that fails the client only  *)
(* notes it.  The server resumes what was asked for or opens another.      *)
AttemptSucceeds ==
    /\ stage = "exchanging" /\ asking # "yes"
    /\ stage' = "serving" /\ asking' = "no"
    /\ had_kex' = TRUE
    /\ \E id \in SessionIds :
        /\ last_session' = id
        /\ \/ uuid_file' = id /\ disturbed' = FALSE
           \/ disturbed' = TRUE /\ UNCHANGED uuid_file
    /\ StartSession /\ requested' = None
    /\ UNCHANGED <<keyVars, holder, held, sent, token, signal, exitVars,
                   listener_done, exiting, pass_cache, abandoned, paused>>

(* Another client of the same slot (no terminal) writes the file. *)
OtherClientWrites ==
    /\ \E id \in SessionIds : uuid_file # id /\ uuid_file' = id
    /\ disturbed' = TRUE
    /\ stage = "serving"
    /\ UNCHANGED <<stage, keyVars, lockVars, txVars, token, signal, exitVars,
                   roundVars, passVars, promptVars, requested, last_session>>

-----------------------------------------------------------------------------
(* The session loop: a session and its end, a countdown and its end.       *)

SessionWakes ==
    /\ stage = "serving"
    /\ signal \/ exit_token
    /\ token' = TRUE
    /\ stage' = "closing"
    /\ UNCHANGED <<keyVars, lockVars, txVars, signal, exitVars, roundVars, passVars,
                   promptVars, idVars>>

AfterSession ==
    /\ stage' = IF exit_token THEN "exited" ELSE "connecting"
    /\ token' = FALSE /\ signal' = FALSE

SessionCloses ==
    /\ stage = "closing"
    /\ holder # "forwarder" /\ waiting # "forwarder"
    /\ AfterSession
    /\ link' = "down" /\ tx' = <<>>
    /\ UNCHANGED <<keyVars, lockVars, sent, exitVars, roundVars,
                   passVars, promptVars, idVars>>

(* The forwarder that does not stop is left running. *)
Bug_AbortForwarder ==
    /\ stage = "closing" /\ holder = "forwarder"
    /\ AfterSession
    /\ holder' = "lingering"
    /\ UNCHANGED <<keyVars, waiting, held, hand, txVars, exitVars, roundVars,
                   passVars, promptVars, idVars>>

(* 500 ms have passed and the forwarder has not ended. *)
AbortForwarder ==
    /\ stage = "closing"
    /\ \/ holder = "forwarder" /\ holder' = "aborted" /\ UNCHANGED waiting
       \/ waiting = "forwarder" /\ waiting' = "none" /\ UNCHANGED holder
    /\ held' = NoByte /\ hand' = NoHand
    /\ AfterSession
    /\ link' = "down" /\ tx' = <<>>
    /\ UNCHANGED <<keyVars, sent, exitVars, roundVars, passVars, promptVars, idVars>>

(* The answer is forgotten whatever came before. *)
KeepsAnswer == had_kex

StartCountdown ==
    /\ stage = "failed"
    /\ stage' = "counting"
    /\ pass_cache' = IF KeepsAnswer THEN pass_cache ELSE "uncached"
    /\ waiting' = "listener"
    /\ UNCHANGED <<keyVars, holder, held, hand, txVars, token, signal, exitVars,
                   roundVars, had_kex, promptVars, idVars>>

(* The countdown is over, or the quit sequence has been seen. *)
CountdownEnds ==
    /\ stage = "counting"
    /\ stage' = "counted"
    /\ exiting' = exit_token
    /\ listener_done' = TRUE
    /\ UNCHANGED <<keyVars, lockVars, txVars, token, signal, exitVars, passVars,
                   promptVars, idVars>>

LeaveCountdown ==
    /\ stage = "counted"
    /\ holder # "listener" /\ waiting # "listener"
    /\ IF exiting
       THEN stage' = "exited" /\ exit_msg' = "disconnected"
       ELSE stage' = "connecting" /\ UNCHANGED exit_msg
    /\ listener_done' = FALSE /\ exiting' = FALSE
    /\ UNCHANGED <<keyVars, lockVars, txVars, token, signal, exit_token, passVars,
                   promptVars, idVars>>

Keyboard ==
    \/ \E keys \in Chunks : Type(keys)
    \/ Take("forwarder") \/ ForwarderReads \/ ForwarderSends \/ ForwarderStops
    \/ AbortedIsDropped \/ Take("listener") \/ ListenerReads \/ ListenerStops
Loop ==
    \/ Connect \/ PromptPassphrase \/ AnswerPassphrase \/ AttemptFails
    \/ AttemptSucceeds \/ SessionWakes \/ SessionCloses \/ AbortForwarder
    \/ StartCountdown \/ CountdownEnds \/ LeaveCountdown

Running == stage \notin Ended

Next ==
    /\ Running
    /\ \/ Keyboard \/ Loop \/ PromptHost \/ AnswerHost
       \/ SenderSends \/ SenderEnds \/ ReaderEnds \/ OtherClientWrites

Spec == Init /\ [][Next]_vars

(* The loop's task goes on: attempts and countdowns end (KEX_TIMEOUT, the  *)
(* backoff) and the user answers.  A transport takes what it is given or   *)
(* its session ends, and so does a session whose sender is gone (silence). *)
(* Of the tasks that can take the receiver, or read it, in round after     *)
(* round, one does so at some point: a round lasts seconds.                *)
Fairness ==
    /\ WF_vars(Running /\ (Loop \/ (asking = "yes" /\ AnswerHost)))
    /\ WF_vars(Running /\ (ForwarderSends \/ ForwarderStops \/ AbortedIsDropped))
    /\ WF_vars(Running /\ ListenerStops)
    /\ WF_vars(Running /\ (SenderSends \/ (ReaderEnds /\ (tx # <<>> \/ link = "down"))))
    /\ SF_vars(Running /\ (Take("forwarder") \/ Take("listener")))
    /\ SF_vars(Running /\ (ForwarderReads \/ ListenerReads))

FairSpec == Spec /\ Fairness

-----------------------------------------------------------------------------
(* Properties.                                                             *)

Bytes == [at : 0..MaxTyped, key : {"none", "esc", "dot", "char"}]

TypeOK ==
    /\ stage \in {"connecting", "exchanging", "prompting", "serving", "closing",
                  "failed", "counting", "counted"} \cup Ended
    /\ kb \in Seq(Seq(Bytes)) /\ Len(kb) <= KbCapacity /\ typed \in 0..MaxTyped
    /\ holder \in {"none", "forwarder", "listener", "aborted"}
    /\ waiting \in {"none", "forwarder", "listener"}
    /\ held \in Bytes /\ hand \in [bytes : Seq(Bytes), quits : BOOLEAN]
    /\ tx \in Seq(Seq(Bytes)) /\ Len(tx) <= TxCapacity
    /\ link \in {"up", "down"} /\ sent \in Seq(1..MaxTyped)
    /\ {token, signal, exit_token, listener_done, exiting, had_kex,
        paused, disturbed} \subseteq BOOLEAN /\ asking \in {"no", "yes", "answered"}
    /\ exit_msg \in {"none", "disconnected", "ended"}
    /\ pass_cache \in {"uncached", "cached"} /\ abandoned \in 0..MaxAbandoned
    /\ {uuid_file, requested, last_session} \subseteq SessionIds \cup {None}

(* What the server is sent is what was typed, in the order it was typed    *)
(* and nothing twice, over all the sessions of a run and the changes of    *)
(* the task that reads the keyboard (runtime.rs:1352-1446, 347-390).       *)
TypedOrder ==
    \A i, j \in 1..Len(sent) : i < j => sent[i] < sent[j]

InSeqs(ss) == UNION {Range(s) : s \in Range(ss)}
Carried ==
    InSeqs(kb) \cup InSeqs(tx) \cup Range(hand.bytes) \cup ({held} \ {NoByte})

(* While a session serves and its sender lives, no typed byte gets lost on *)
(* its way from the keyboard to the transport but a prefix that repeats    *)
(* one kept back and what comes with the quit sequence                     *)
(* (runtime.rs:1358-1389): not in the wait for room in the channel, and    *)
(* not the prefix when what follows is no "."                              *)
KeysKept ==
    [][ (stage = "serving" /\ stage' = "serving" /\ link' = "up" /\ ~exit_token'
            /\ holder # "aborted") =>
        \A b \in Carried \ Carried' :
            b.at \in Range(sent') \/ hand'.quits \/ (b.key = "esc" /\ b # held) ]_vars

QuitQueued == \E c \in Range(kb) : [i \in 1..Len(c) |-> c[i].key] = <<"esc", "dot">>

(* The force-quit sequence, once read from the terminal in one piece, ends *)
(* the client: whichever task holds the receiver, across reconnects, with  *)
(* a forwarder stuck on a full channel and with sessions and countdowns    *)
(* that end as it is read (runtime.rs:887-888, 1448-1471).                 *)
QuitHeeded == QuitQueued ~> (stage \in Ended)

(* After a session is lost the client asks for that session, unless its    *)
(* UUID could not be stored or another client of the same slot stored one  *)
(* (runtime.rs:1059-1060, 1191-1200).                                      *)
AsksForLastSession ==
    (stage = "exchanging" /\ last_session # None /\ ~disturbed)
        => requested = last_session

(* README.md:1059-1060: the force-quit sequence works "during any          *)
(* countdown".  The keyboard is not read while a host prompt is open, and  *)
(* the prompt of an attempt that timed out stays open.                     *)
KeyboardReadInCountdown == stage = "counting" => ~paused

=============================================================================
