------------------------------ MODULE PtyThread ------------------------------
(***************************************************************************)
(* The thread that owns a session's terminal (moshpits/src/runtime.rs,     *)
(* spawn_pty), the login records it keeps (utmp.rs), and the flow of bytes *)
(* around the terminal: the connection's reader sends what the client      *)
(* types through the channel term_tx to this thread, which writes it to    *)
(* the terminal; the thread that reads the terminal answers the terminal   *)
(* queries of the program through the same channel.                        *)
(*                                                                         *)
(* A thread is named by the pid of its shell.  What /var/run/utmp holds    *)
(* outlives the server; the lock on it (flock) does not.                   *)
(*                                                                         *)
(* An operator Bug_X is X with a mistake this code could have.             *)
(***************************************************************************)
EXTENDS Naturals, Sequences, FiniteSets, FiniteSetsExt, SequencesExt

CONSTANTS
    Threads,        \* the sessions of all runs of the server
    Interactive,    \* bound: the sessions with input and output; the client
                    \* of another leaves while its thread starts
    TermCapacity,   \* of term_tx (256)
    MaxKills        \* bound on ends of the server process

ASSUME PtyAssumption ==
    /\ Threads \subseteq Nat \ {0} /\ IsFiniteSet(Threads)
    /\ Interactive \subseteq Threads
    /\ TermCapacity \in Nat \ {0} /\ MaxKills \in Nat

VARIABLES
    stage, line,        \* of each thread: where it is, its pts (0: none)
    shell,              \* "none", "runs", "writes" (waits for room), "gone"
    utmp, flock, slot,  \* the file, its lock's holder, the slot a thread found
    guard,              \* threads that hold a utmp guard
    failed,             \* history: threads whose accounting failed
    term,               \* messages in term_tx
    tty_in, tty_out,    \* what the terminal holds for the shell, and from it
    reader,             \* the thread that reads the terminal
    conn, cancelled,    \* the connection's reader task; its token
    kills

records  == <<utmp, flock, slot, guard, failed>>
terminal == <<shell, tty_in, tty_out>>
channels == <<term, reader, conn, cancelled>>
vars == <<stage, line, records, terminal, channels, kills>>

Starting == {"new", "open"}
Over     == {"over", "killed"}

Init ==
    /\ stage = [t \in Threads |-> "new"] /\ line = [t \in Threads |-> 0]
    /\ shell = [t \in Threads |-> "none"]
    /\ utmp = <<>> /\ flock = 0 /\ slot = [t \in Threads |-> 0]
    /\ guard = {} /\ failed = {}
    /\ term = [t \in Threads |-> 0]
    /\ tty_in = [t \in Threads |-> 0] /\ tty_out = [t \in Threads |-> ""]
    /\ reader = [t \in Threads |-> "none"]
    /\ conn = [t \in Threads |-> IF t \in Interactive THEN "first" ELSE "over"]
    /\ cancelled = [t \in Threads |-> t \notin Interactive]
    /\ kills = 0

Goes(t, from, to) == stage[t] = from /\ stage' = [stage EXCEPT ![t] = to]

-----------------------------------------------------------------------------
(* Starting the shell.                                                     *)

OpenPty(t) ==
    /\ Goes(t, "new", "open")
    /\ line' = [line EXCEPT ![t] = Min(Threads \ {line[u] : u \in Threads})]
    /\ UNCHANGED <<records, terminal, channels, kills>>

(* Until the shell runs, each step may fail and end the thread; nobody     *)
(* tells the session or its client.                                        *)
StartFails(t) ==
    /\ stage[t] \in Starting
    /\ stage' = [stage EXCEPT ![t] = "over"]
    /\ line' = [line EXCEPT ![t] = 0]
    /\ UNCHANGED <<records, terminal, channels, kills>>

(* The user, the slave's descriptors, the account, the program with its    *)
(* environment, and the fork.                                              *)
SpawnShell(t) ==
    /\ Goes(t, "open", "login")
    /\ shell' = [shell EXCEPT ![t] = "runs"]
    /\ UNCHANGED <<line, records, tty_in, tty_out, channels, kills>>

-----------------------------------------------------------------------------
(* Login and logout records.                                               *)

Record(t, type) == [line |-> line[t], type |-> type, pid |-> t]

(* The slot of this line, else the first that is free, else a new one.     *)
PutUtmp(l) ==
    LET free == {i \in DOMAIN utmp : utmp[i].type = "dead"}
        same == {i \in DOMAIN utmp : utmp[i].line = l}
    IN Min(IF same # {} THEN same ELSE free \cup {Len(utmp) + 1})

Bug_LockExclusive(t) == flock' = 0
LockExclusive(t)     == flock = 0 /\ flock' = t

FindSlot(t) ==
    /\ \/ Goes(t, "login", "login_write")
       \/ Goes(t, "logout", "logout_write")
    /\ LockExclusive(t)
    /\ slot' = [slot EXCEPT ![t] = PutUtmp(line[t])]
    /\ UNCHANGED <<line, utmp, guard, failed, terminal, channels, kills>>

WriteAt(i, r) == IF i \in DOMAIN utmp THEN [utmp EXCEPT ![i] = r] ELSE Append(utmp, r)

(* The thread's end: its locals go, the terminal and the channel's         *)
(* receiver among them.                                                    *)
Ends(t) ==
    /\ line' = [line EXCEPT ![t] = 0]
    /\ guard' = guard \ {t}
    /\ shell' = [shell EXCEPT ![t] = IF @ = "none" THEN @ ELSE "gone"]
    /\ tty_in' = [tty_in EXCEPT ![t] = 0] /\ tty_out' = [tty_out EXCEPT ![t] = ""]
    /\ term' = [term EXCEPT ![t] = 0]

Stays == UNCHANGED <<line, guard, terminal, term>>

(* The slot is written, the lock goes, and the record is appended to wtmp: *)
(* that is what gives a login its guard.  An error of either file is       *)
(* logged; a login then has no guard, a logout is over.                    *)
WriteLogin(t) ==
    /\ Goes(t, "login_write", "handles")
    /\ utmp' = WriteAt(slot[t], Record(t, "user"))
    /\ flock' = 0 /\ slot' = [slot EXCEPT ![t] = 0]
    /\ \/ guard' = guard \cup {t} /\ UNCHANGED failed
       \/ failed' = failed \cup {t} /\ UNCHANGED guard
    /\ UNCHANGED <<line, terminal, channels, kills>>

WriteLogout(t) ==
    /\ Goes(t, "logout_write", "over") /\ Ends(t)
    /\ utmp' = WriteAt(slot[t], Record(t, "dead"))
    /\ flock' = 0 /\ slot' = [slot EXCEPT ![t] = 0]
    /\ UNCHANGED <<failed, reader, conn, cancelled, kills>>

UtmpFails(t) ==
    /\ failed' = failed \cup {t}
    /\ \/ Goes(t, "login", "handles") /\ Stays
       \/ Goes(t, "logout", "over") /\ Ends(t)
    /\ UNCHANGED <<utmp, flock, slot, reader, conn, cancelled, kills>>

TakeHandles(t) ==
    /\ Goes(t, "handles", "loop")
    /\ reader' = [reader EXCEPT ![t] = "reads"]
    /\ UNCHANGED <<line, records, terminal, term, conn, cancelled, kills>>

(* The early return drops the guard, which does nothing by itself.         *)
HandlesFail(t) ==
    /\ Goes(t, "handles", "over") /\ Ends(t)
    /\ failed' = failed \cup {t}
    /\ UNCHANGED <<utmp, flock, slot, reader, conn, cancelled, kills>>

-----------------------------------------------------------------------------
(* The loop that writes to the terminal.                                   *)

Alive(t)  == shell[t] \notin {"none", "gone"}
Closed(t) == reader[t] = "over" /\ conn[t] = "over"

(* Input is written, which waits for room in the terminal.                 *)
Receive(t) ==
    /\ stage[t] = "loop" /\ term[t] > 0 /\ Alive(t) /\ tty_in[t] = 0
    /\ term' = [term EXCEPT ![t] = @ - 1]
    /\ tty_in' = [tty_in EXCEPT ![t] = 1]
    /\ UNCHANGED <<stage, line, records, shell, tty_out, reader, conn,
                   cancelled, kills>>

(* Every sender is gone, or the terminal takes no input any more.          *)
Bug_LeaveLoop(t) ==
    /\ \/ Closed(t) /\ term[t] = 0
       \/ ~Alive(t) /\ term[t] > 0
    /\ Goes(t, "loop", "over") /\ Ends(t)
    /\ UNCHANGED <<utmp, flock, slot, failed, reader, conn, cancelled, kills>>
LeaveLoop(t) ==
    /\ \/ Closed(t) /\ term[t] = 0
       \/ ~Alive(t) /\ term[t] > 0
    /\ IF t \in guard
       THEN Goes(t, "loop", "logout") /\ Stays
       ELSE Goes(t, "loop", "over") /\ Ends(t)
    /\ UNCHANGED <<utmp, flock, slot, failed, reader, conn, cancelled, kills>>

-----------------------------------------------------------------------------
(* The thread that reads the terminal.                                     *)

(* The answer to a query is dropped when the channel is full.              *)
Bug_Answer(t) == term[t] < TermCapacity /\ term' = [term EXCEPT ![t] = @ + 1]
Answer(t)     == term' = [term EXCEPT ![t] = IF @ < TermCapacity THEN @ + 1 ELSE @]

ReadOutput(t) ==
    /\ reader[t] = "reads" /\ tty_out[t] # ""
    /\ tty_out' = [tty_out EXCEPT ![t] = ""]
    /\ IF tty_out[t] = "query" THEN Answer(t) ELSE UNCHANGED term
    /\ UNCHANGED <<stage, line, records, shell, tty_in, reader, conn,
                   cancelled, kills>>

(* End of file, or a title that says the shell exits.                      *)
StopReading(t) ==
    /\ reader[t] = "reads"
    /\ \/ ~Alive(t) /\ tty_out[t] = ""
       \/ tty_out[t] = "plain"
    /\ reader' = [reader EXCEPT ![t] = "stops"]
    /\ tty_out' = [tty_out EXCEPT ![t] = ""]
    /\ UNCHANGED <<stage, line, records, shell, tty_in, term, conn, cancelled,
                   kills>>

(* The connection is cancelled, the session forgotten, and with them the   *)
(* senders of the session's record and of this thread.                     *)
Bug_EndSession(t) ==
    /\ reader[t] = "stops"
    /\ reader' = [reader EXCEPT ![t] = "over"]
    /\ UNCHANGED <<stage, line, records, terminal, term, conn, cancelled, kills>>
EndSession(t) ==
    /\ reader[t] = "stops"
    /\ cancelled' = [cancelled EXCEPT ![t] = TRUE]
    /\ reader' = [reader EXCEPT ![t] = "over"]
    /\ UNCHANGED <<stage, line, records, terminal, term, conn, kills>>

-----------------------------------------------------------------------------
(* The connection's reader task, over UDP (udp/reader.rs) or TCP           *)
(* (tcp_transport/mod.rs).  It does not watch its token while it waits for *)
(* room in term_tx, or, over UDP, for the first packet.                    *)

(* The client need not ever send one; over TCP nothing waits for it.       *)
FirstPacket(t) ==
    /\ conn[t] = "first" /\ stage[t] # "new"
    /\ \E c \in {"serves", "sends"} : conn' = [conn EXCEPT ![t] = c]
    /\ UNCHANGED <<stage, line, records, terminal, term, reader, cancelled,
                   kills>>

TypeKey(t) ==
    /\ t \in Interactive /\ conn[t] = "serves"
    /\ conn' = [conn EXCEPT ![t] = "sends"]
    /\ UNCHANGED <<stage, line, records, terminal, term, reader, cancelled,
                   kills>>

SendInput(t) ==
    /\ conn[t] = "sends"
    /\ IF stage[t] \in Starting \cup {"login", "login_write", "handles", "loop"}
       THEN /\ term[t] < TermCapacity
            /\ term' = [term EXCEPT ![t] = @ + 1]
            /\ conn' = [conn EXCEPT ![t] = "serves"]
       ELSE conn' = [conn EXCEPT ![t] = "over"] /\ UNCHANGED term
    /\ UNCHANGED <<stage, line, records, terminal, reader, cancelled, kills>>

(* The client left, or the server heard nothing of it for 30 s, perhaps    *)
(* because this task waits for room.                                       *)
Cancel(t) ==
    /\ ~cancelled[t] /\ conn[t] # "over"
    /\ cancelled' = [cancelled EXCEPT ![t] = TRUE]
    /\ UNCHANGED <<stage, line, records, terminal, term, reader, conn, kills>>

(* The client closed the connection, or reading fails: the task ends, the  *)
(* connection is cancelled only by the watchdog.                           *)
ReadEnds(t) ==
    /\ t \in Interactive /\ conn[t] = "serves"
    /\ conn' = [conn EXCEPT ![t] = "over"]
    /\ UNCHANGED <<stage, line, records, terminal, term, reader, cancelled,
                   kills>>

StopServing(t) ==
    /\ conn[t] = "serves" /\ cancelled[t]
    /\ conn' = [conn EXCEPT ![t] = "over"]
    /\ UNCHANGED <<stage, line, records, terminal, term, reader, cancelled,
                   kills>>

-----------------------------------------------------------------------------
(* The shell, which does not read while it waits for room to write.        *)

Wants(t) ==
    /\ t \in Interactive /\ shell[t] = "runs"
    /\ shell' = [shell EXCEPT ![t] = "writes"]
    /\ UNCHANGED <<stage, line, records, tty_in, tty_out, channels, kills>>

Writes(t) ==
    /\ shell[t] = "writes" /\ tty_out[t] = ""
    /\ \E out \in {"plain", "query"} : tty_out' = [tty_out EXCEPT ![t] = out]
    /\ shell' = [shell EXCEPT ![t] = "runs"]
    /\ UNCHANGED <<stage, line, records, tty_in, channels, kills>>

Reads(t) ==
    /\ shell[t] = "runs" /\ tty_in[t] = 1
    /\ tty_in' = [tty_in EXCEPT ![t] = 0]
    /\ UNCHANGED <<stage, line, records, shell, tty_out, channels, kills>>

Exits(t) ==
    /\ Alive(t)
    /\ shell' = [shell EXCEPT ![t] = "gone"]
    /\ UNCHANGED <<stage, line, records, tty_in, tty_out, channels, kills>>

(* The server process ends.  Nothing waits for the threads.                *)
KillServer ==
    /\ kills < MaxKills /\ kills' = kills + 1
    /\ LET ran == {t \in Threads : stage[t] \notin {"new", "over"}} IN
       /\ ran # {}
       /\ stage' = [t \in Threads |-> IF t \in ran THEN "killed" ELSE stage[t]]
       /\ line' = [t \in Threads |-> 0]
       /\ shell' = [t \in Threads |-> IF Alive(t) THEN "gone" ELSE shell[t]]
       /\ reader' = [t \in Threads |-> IF t \in ran THEN "over" ELSE reader[t]]
       /\ conn' = [t \in Threads |-> IF stage[t] = "new" THEN conn[t] ELSE "over"]
       /\ term' = [t \in Threads |-> 0]
       /\ tty_in' = [t \in Threads |-> 0] /\ tty_out' = [t \in Threads |-> ""]
       /\ cancelled' = [t \in Threads |-> cancelled[t] \/ t \in ran]
       /\ slot' = [t \in Threads |-> 0]
       /\ flock' = 0 /\ guard' = {}
    /\ UNCHANGED <<utmp, failed>>

-----------------------------------------------------------------------------
ThreadStep(t) ==
    \/ OpenPty(t) \/ SpawnShell(t)
    \/ FindSlot(t) \/ WriteLogin(t) \/ WriteLogout(t) \/ TakeHandles(t)
    \/ LeaveLoop(t)
Failure(t)    == StartFails(t) \/ UtmpFails(t) \/ HandlesFail(t)
ReaderStep(t) == ReadOutput(t) \/ StopReading(t) \/ EndSession(t)
ShellStep(t)  == Wants(t) \/ Writes(t) \/ Reads(t) \/ Exits(t)

Next ==
    \/ \E t \in Threads :
         \/ ThreadStep(t) \/ Failure(t) \/ Receive(t) \/ ReaderStep(t)
         \/ SendInput(t) \/ StopServing(t) \/ ReadEnds(t) \/ FirstPacket(t)
         \/ TypeKey(t) \/ Cancel(t) \/ ShellStep(t)
    \/ KillServer

Spec == Init /\ [][Next]_vars

(* Threads and tasks are scheduled, and the select of the connection's     *)
(* task is fair to its token.  Nothing is assumed of the client, and of    *)
(* the shell but that its write ends when there is room.                   *)
FairSpec ==
    /\ Spec
    /\ \A t \in Threads : WF_vars(ThreadStep(t) \/ Receive(t))
    /\ \A t \in Interactive :
        /\ WF_vars(ReaderStep(t)) /\ SF_vars(Writes(t))
        /\ WF_vars(SendInput(t)) /\ SF_vars(StopServing(t))

-----------------------------------------------------------------------------
(* While a shell's thread holds its login record, the file has one slot    *)
(* for the shell's line, and that slot names the shell (utmp.rs:264-301:   *)
(* two threads that log in or out at once must not take the same slot).    *)
LiveShellsListed ==
    \A t \in guard : stage[t] \in {"handles", "loop"} =>
        \E i \in DOMAIN utmp :
            /\ utmp[i] = Record(t, "user")
            /\ \A j \in DOMAIN utmp : utmp[j].line = line[t] => j = i

(* A thread that ended, and whose accounting never failed, has left no     *)
(* login record of its shell in utmp (runtime.rs:1840-1847).               *)
CleanEndLeavesNoLogin ==
    \A t \in Threads \ failed : stage[t] = "over" =>
        \A i \in DOMAIN utmp : utmp[i].pid = t => utmp[i].type = "dead"

(* A program that writes is not blocked for ever by the input it does not  *)
(* read meanwhile (runtime.rs:1301: the answer to a query is dropped when  *)
(* the channel is full).                                                   *)
OutputFlows ==
    \A t \in Interactive : (shell[t] = "writes" /\ reader[t] = "reads")
                            ~> (shell[t] # "writes" \/ reader[t] # "reads")

(* The thread of a shell that is gone comes to its end whoever still holds *)
(* a sender of its channel (runtime.rs:1812, 1372-1395), except the        *)
(* connection that waits for its client's first packet: that wait does not *)
(* watch the token (udp/reader.rs:890), and a client that sends none keeps *)
(* the thread for ever.                                                    *)
ThreadEnds ==
    \A t \in Interactive :
        (stage[t] = "loop" /\ shell[t] = "gone" /\ conn[t] # "first")
            ~> stage[t] \in Over

=============================================================================
