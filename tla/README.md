# moshpit, verified: TLA+ models and proofs

moshpit is a remote shell in Rust (`libmoshpit`, the shared protocol; `moshpits`, the
server; `moshpit`, the client; an agent; a key generator). A TCP key exchange sets up an
encrypted UDP (or TCP) channel over which keystrokes go up and a terminal screen comes down,
through loss, roaming and reconnects. This directory holds TLA+ modules translated from that
code, TLC configurations that check them on small instances, and proofs that TLAPS checks for
every value of the constants.

`PROJECT.json` lists the runs, the source lines behind each definition, the hazards in the
code, the disagreements found between code and documentation, and the theorems.

## 1. The system

### Components

| Component | State it keeps | Operations | Correct when |
|---|---|---|---|
| **Reliable receiver**, `udp/reader.rs` | `next_seq`, reorder buffer, gap tracking, the NAK deadline | arrival, NAK check, giving up, routing | frames come out in order and once; every missing one is asked for or given up; the buffer drains |
| **Sender**, `udp/sender.rs` | `send_seq`, `retransmit_buffer` (512), pending requests | one `select!`: control, requests, retransmit deadline, data | what a Nak asks for is resent while the window has it |
| **StateSync**, `moshpits/src/runtime.rs`, `udp/reader.rs`, `udp/statesync.rs` | server: baseline, ring of sent states, dirty counters; client: `ack_state_seq`, parser, mismatch count, chunk buffer | 50 ms tick, ack, repaint request, chunked push | a diff is applied to the screen it was made from; the client converges |
| **Screen sync, Datagram mode, health, MTU probe**, `moshpits/src/runtime.rs` | `diff_in_flight`, dirty counters, probe tier, `effective_mtu` | four tasks that take a snapshot and send it | the client ends with the server's screen; no repaint request is forgotten |
| **Session lifecycle**, `moshpits/src/runtime.rs`, `session.rs`, `kex/reader.rs` | `session_registry` (uuid→user), `full_registry` (uuid→session), `port_pool`, the output handle | decide, bind, resolve, resume, new session, reader thread, clean-up | output stays with its user; one connection serves; exit cleans up; a dead client does not block the shell |
| **Terminal thread**, `moshpits/src/runtime.rs`, `utmp.rs` | the pty, `term_rx`, the login record | open, spawn, account, write input, answer queries, log out | `who` is right; neither shell nor thread is blocked for good |
| **Key exchange**, `kex/*` | two state machines, `known_hosts`, the host prompt | negotiation of algorithm, version and transport; proof; session; data port | both ends agree; the best in common is chosen; no one is left behind |
| **Client session loop**, `moshpit/src/runtime.rs` | backoff, exit token, the keyboard's channel, escape state, resume UUID | connect, serve, count down, quit | bytes in order, none lost while a session serves; quitting always works; the session is found again |
| **Prediction**, `term/prediction.rs` | overlay cells, cursor predictions, two epochs | key, cull, apply, reset | a wrong guess is removed |
| **Renderer and its writers**, `term/renderer.rs`, `emulator.rs` | `displayed`, the emulator | render, invalidate, resize, overlay | the terminal shows the server's screen |
| **Agent**, `agent/src` | vault (file and memory), identities, lock flag, passphrase, socket and pid files | start, add, remove, lock, unlock, sign, stop | locked means no keys; an acknowledged key is kept; the vault can be opened |
| **Configuration**, `config.rs`, `effective.rs` | – | merge of file, arguments, environment; origins | strongest source wins, and `mp ec` says so |
| **Key files**, `keygen`, `kex/mod.rs` | two files, a passphrase cache | first-run pair, `mp-keygen generate`, loading | both halves belong together |
| RTT estimator, frame codec, ciphers, logind, scrollback, packaging | – | – | not modelled, section 6 |

### How they interact

The client's loop makes an attempt: a TCP connection and a key exchange, whose server half
decides between a new session and a resume in `session_registry` and takes a port from
`port_pool`. `handle_connection` then calls `resolve_session`, which finds the session in
`full_registry` or creates it, and puts the connection's channels into the session's output
handle. A thread per session reads the PTY and writes to whatever channel is in the handle; a
second one writes input to it, and keeps the login record; when the shell exits, the first
clears the handle, the port and both registries, one lock after the other. Per connection a
sender task drains the channels (control before data) to the socket, a reader task routes what
arrives; Naks go from one's reader to the other's sender. A watchdog cancels the connection's
token on silence. In StateSync mode the PTY reader only feeds the terminal emulator and bumps
a counter, and a task per connection compares the screen with the last acknowledged one; in the
other modes the output itself is sent and snapshots are sent beside it. On the client, the
reader feeds an emulator, the forwarder sends keys and predicts their echo, and both, the
SIGWINCH handler and a warning draw on one terminal through one renderer. When the session is
lost, a countdown's listener takes the keyboard over, and the loop starts again.

### What is hard here

Loss, duplication and reordering on the path; two timers (NAK check, retransmit deadline) that
race with arrivals; identifiers reused across resets (diff id 0); registries and agent state
locked one at a time while connections come and go; channels cloned under a lock and used after
it; bounded channels that block a thread; deadlines that leave a task and its prompt behind;
two tasks that take turns at one receiver; files that several programs write. The list with
lines is `hazards` in `PROJECT.json`.

## 2. The modules

| Module | Models | Code |
|---|---|---|
| `OrderedDelivery` | what reliable mode promises, with no packets in it (abstract) | – |
| `ReliableReceiver` | `UdpReader` in reliable mode under the most hostile network | `reader.rs` 580–872 and the frame loops' timers |
| `ReliableLink` | `UdpSender`, the network, the requests' way back; extends `ReliableReceiver` | `sender.rs` 62–242 |
| `XProofs`, for `X` = `ReliableLink` (with the receiver it extends), `SessionLifecycle`, `StateSync`, `KeyExchange`, `Agent`, `PtyThread`, `ClientSession`, `Prediction` | theorems about `X`, section 4; a second component it works with is extended beside it: `ScreenSync` in `ReliableLinkProofs`, `ClientScreen` in `ClientSessionProofs`, `KeyFiles` in `KeyExchangeProofs` | – |
| `ScreenMirror` | what StateSync promises: only screens displayed, never backwards (abstract) | – |
| `StateSync` | both ends of StateSync | `runtime.rs` 569–726, 926–974, 1260–1303; `reader.rs` 1075–1187, 1507–1577; `statesync.rs` |
| `ScreenSync` | snapshots beside the output, in the other two modes | `runtime.rs` 726–830, 1030–1125, 1284–1340 |
| `SessionLifecycle` | connections, registries, ports, PTY reader thread | `runtime.rs` 218–452, 975–995, 1127–1395; `kex/reader.rs` 1172–1199, 1362–1481 |
| `PtyThread` | the thread that owns the terminal, login records, the flow around a terminal | `runtime.rs` 1415–1850; `utmp.rs` |
| `KeyExchange`, `MCKeyExchange` | attempts of one client, both ends frame by frame; the setups of the run | `kex/*`; `moshpit/src/runtime.rs` 1051–1213 |
| `ClientSession`, `MCClientSession` | the client's loop and keyboard; the chunks typed | `moshpit/src/runtime.rs` |
| `Prediction` | the local-echo engine and what drives it | `prediction.rs` |
| `ClientScreen` | renderer, emulator and the tasks that draw | `renderer.rs`; `reader.rs`; `moshpit/src/runtime.rs` |
| `Agent` | `mpa`'s processes, files and requests | `agent/src` |
| `ClientConfig` | resolution of settings, as operators | `config/mod.rs`, `cli.rs`, `effective.rs` |
| `KeyFiles` | from the command line to the identity; extends `ClientConfig` | `runtime.rs` 60–320; `kex/mod.rs` 590–660; `keygen` |

Operators named `Bug_X` are `X` with a mistake this code could have; each is there to show
which property notices it, and no specification uses them. Each module has a type invariant or
states its types in its comments; every `TypeOK` is a theorem (section 4) and can be added to the
module's configuration.

### ReliableReceiver and ReliableLink

A frame is its sequence number; `kind[s]` says which of the variants the reader distinguishes
it is. `Arrive(s)` is the receive branch of the frame loops with the whole of `handle_arrival`:
the replay and jump checks (`Dropped`), in-order delivery with the drain loop and the fast path
for screen snapshots (`DeliverFrom`), buffering with gap recording, Naks and repaint requests
(`ToBuffer`), and the rearmed timer. `CheckNakTimeouts` is the timer branch with
`drain_given_up_seqs`. Delivery loops are stated by where they stop (`StopsAt`), not step by
step: nothing else can run inside them. Instants are ages counted in ticks and saturate at
`MaxAge`; a NAK timeout is any of `NakTimeouts`, because the RTT estimate moves it. `fate` is a
history variable. In `ReliableReceiver` anything sent may arrive at any time, any number of
times, or never; Naks are taken or dropped at will.

`ReliableLink` adds the sender (one action per `select!` branch; the branches are `biased`, so
data waits for requests), a set of packets in flight with bounded losses and duplications, and
the way back. `Timely` says that a packet, or a request with its answer, is faster than one tick.
Because a `Nak` is itself a sequenced data frame, what a request meets in the other direction
(its own gaps) is not in this module; a request may be delayed, reordered and lost instead.

### StateSync

Screens are numbered in the order displayed; the server's stored bytes are version numbers, the
client's parser is a function from cells to values plus the screen (main or alternate) it is on.
A diff is the cells that differ, applied as an escape sequence is: to whatever the client shows
(`Apply`). The reader thread's two steps, emulator then counter, are separate. `handle_arrival`
drops what arrives behind a later frame in this mode, so a direction is a lossy queue. A push in
chunks names neither itself nor its end, only index and total (`ChunkFits`); what is pieced together
from two pushes (`Mixed`) may fail to decompress or decompress to anything. The diff
counter is any id not in use, since ids are only compared for equality. Over TCP the client runs
the same operations (`statesync.rs`) on a queue that loses nothing.

### ScreenSync

The server's screen is the number of chunks its emulator has processed, a client's the sequence
of chunks it shows; a full snapshot replaces that sequence, a chunk is appended to it. The PTY
reader's four steps (emulator, counter, flag, channel) are separate, and so are, in each of the
tasks, taking a snapshot and sending it. Chunks of output carry the MTU tier they were cut for; a full
snapshot is one frame whatever its size, and the screens in `Oversized` are those whose snapshot no
path carries. What is too large never arrives. `asked` is a history variable.

### SessionLifecycle

One step per critical section or stretch between awaits. A connection's number stands for the
UUID `Uuid::new_v4` would give it, for the session it creates and for that session's reader.
The stages of a connection are the places where `handle_connection` may be interrupted:
after the decision, after the copy of the pool, after the bind, after the accept, after the
lookup, and, for a resume, while it waits to put its repaint into the channel that nobody drains yet
(`"repainting"`, `SendScreen`). The PTY reader's thread is `reading → sending → reading`, with `clearing` after a
failed send, and `exiting → unregistering → removing → done` for the clean-up, which takes
three locks in turn. A StateSync session is one whose reader never does `ReadOutput`.

### PtyThread

A thread is named by the pid of its shell and goes through `new → open → login → handles → loop
→ logout → over`; every step before the loop may fail, as the code's early returns do. A slot of
utmp is found and written under `flock`, in two steps. For the threads in `Interactive`, the
input channel, the terminal's two directions, the reader's query answers and the connection's
reader task are modelled as well; that reader does not look at its token before the client's first
packet, and nothing makes the client send one. `KillServer` ends all threads and keeps the file.

### KeyExchange

`cl[a]` and `sv[a]` are the two ends of attempt `a`; frames go through `c2s[a]` and `s2c[a]`. A
client's end is three tasks: `main` waits with a deadline, the reader (`pc`) carries on the
exchange, and the state machine (`accepted`, the events taken, and `verdict`). A prompt for the
host blocks the reader only, so a deadline leaves it open and the next attempt runs beside it.
Keys are records of what they were derived from, a signature names what it signed. The four
algorithm lists are negotiated by the same code: one stands for them. `server` ends that fail send
`KexFailure`; the sessions, the port pool and the UUID file carry over to the next attempt.

### ClientSession

A typed byte is its place in the typing order and its key. `holder` is the task that has the lock
on the keyboard's receiver, `held` the prefix byte it keeps back. The forwarder's wait for room in
the session's channel is a step of its own that the session's token does not interrupt; 500 ms
later the loop aborts it (`AbortForwarder`). Prompts pause the keyboard thread. `Scan` runs the escape
state machine over a chunk, as a function defined by recursion on the bytes read so far.

### Prediction and ClientScreen

`Prediction` is the engine on a small grid, with the program at the far end (a prompt that echoes,
one that does not, a full-screen program) and outputs that answer one key or several. What is
painted is a function of the engine and the screen (`Painted`, `ShownCursor`).
`ClientScreen` takes a prediction as one marked row, and models the renderer row by row: the scroll
heuristic, the full repaint, `invalidate`, resizes of emulator and renderer under two locks, a full
state that replaces the emulator some time after its size was read, and the time between rendering an
update and sending it. Two history variables say what went wrong by order alone: `inOrder` (an update
was written before one rendered earlier) and `outrun` (the last resize came between the two halves of
a full state).

### Agent

One step per mutex. A request's handler is a record: what it asks, which mutexes it holds and
what it has read. The vault file is absent, whole (with passphrase and entries), torn (its
header is not whole: loading it panics) or cut (the rest is not: loading it is an error), because a
save truncates it first, and may then fail under a process that lives on, or be cut short with it. Starting is the sequence of checks of `run_daemon`, with the parent and
the child of a daemonised start; with the fido2 backend the passphrase comes from a credential
that the first start makes, unless the user gives one on stdin.

### ClientConfig and KeyFiles

A value is the name of the source that supplied it. `load`'s merge and `effective.rs`'s second
derivation of origins are separate operators; `KeyFiles` runs them and goes on to the key files,
each of which is opened, written and read in steps of its own, by `mp` and by `mp-keygen`. An attempt
that fails, and a session that ends, lead back to loading them, with what the passphrase cache holds by
then; with the feature `unstable` the private file is read once more after the comparison. `untouched`
is a history variable: nobody has written the files since an exchange succeeded with the pair in them.

## 3. The runs

| Run | States | Shows |
|---|---|---|
| `receiver` | 864,543 | `NothingForgotten`, `RetriedInOrder`, `NoStaleTracking`, `BufferedNeverAbandoned`, refinement of `OrderedDelivery` |
| `link` | 97,234 | `DataRecovered`: with no more losses than retries, data is given up only once a whole window was sent behind it; `BufferDrains` (liveness) |
| `statesync` | 142,807 | `DiffFitsBaseline`, `RecordsTruth`, `Converges` (liveness), refinement of `ScreenMirror`, while no full state is lost and the alternate screen is not used |
| `screen_sync` | 499,424 | Datagram mode: `CatchesUp` (liveness): the client ends with the last screen unless no path carries its snapshot, through losses, overtaking, a resume, a chunk size and an earlier snapshot the path does not carry; `RepaintOwed` |
| `session` | 434,841 | `OutputStaysWithUser`, `OneConnectionServes`, `LostOnlyToItsUser`; `ReachableClientNeverBlocksShell`, `ExitEndsSession` (liveness) |
| `pty` | 287,124 | `LiveShellsListed`, `CleanEndLeavesNoLogin`; `OutputFlows`, `ThreadEnds` (liveness) |
| `kex` | 240,004 | `EndsAgree`, `BestInCommon`, `ReaderKeepsOrder`, `AcceptedOnce`; `ConnectionsSettle` (liveness) |
| `client` | 540,274 | `TypedOrder`, `AsksForLastSession`, `KeysKept`; `QuitHeeded` (liveness) |
| `prediction` | 254,548 | `NoCellOutlivesItsEpoch`, `CursorHeals` |
| `client_screen` | 4,758,431 | `TerminalTrue` |
| `agent` | 511,177 | `LockedKeepsNoKey`, `AckedKeysAreKept`, `KeyOpensVault`; `RequestsAnswered` (liveness) |
| `files` | 1,002,378 | `Precedence`, `ReconnectsSilently` |

### Bounds, and why they are enough

- `receiver`: 4 frames, so that a buffered frame can have two gaps below it, with different
  ages, and one above; window 1, so that the window gives up before the retries do; 2 retries
  and two timeouts, so that backoff and its order matter; ages up to the longest backoff;
  `MaxSeqJump` 3 is never exceeded by 4 frames.
- `link`: 3 frames, 2 losses, 1 duplicate, 2 retries: the losses can hit the same frame twice,
  its Nak and its answer, or two frames; window 1 lets eviction race the request.
- `statesync`: 2 cells, 2 values, so a diff can change one cell (small) or two (large, pushed in
  full); a ring of 2, so that the third unacknowledged state evicts the first; pushes in one or
  two chunks; 2 screens after the first; 2 frames in flight; 2 losses; mismatch limit 2 (3 in the
  code). Eight ids always leave one free.
- `screen_sync`: two chunks of output, the snapshot between which is too large for any path, and two
  events (a repaint request, a resume, or two of one); a channel of 1, so that a sender waits; two MTU tiers, of which the path carries the lower; the
  probe's counts are 1 and its failure threshold 2.
- `session`: 2 connections of 2 users with 2 ports and both transports, all interleavings of
  their set-up with two reader threads; a data channel of 1; a bind may find any port held by
  another program, so it may fail. A third connection exceeds what TLC can finish; the
  invariants alone have been run with 3 connections of one user over UDP, one key exchange at a
  time (649,305 states), without an error.
- `pty`: two threads compete for the file, one of them has the flow around its terminal; a channel
  of 1 and a terminal that holds one write, so that each wait happens; one end of the server,
  after which records of the dead server meet new threads.
- `kex`: two attempts, the connection of the first may break; eleven setups, each a way in which an
  exchange differs (versions, transport, hosts known or not, agent, missing or foreign keys, no
  account), two users, one port, so that the second attempt may find none.
- `client`: four bytes, in chunks that have the sequence whole, split or behind a key: one in the
  session's channel of 1, one in the hand of the forwarder that waits for room, and the two of the quit
  sequence behind them, so that they must get past a forwarder that is stuck; a keyboard channel of 1; two UUIDs; one prompt left behind. The number of
  sessions and countdowns is not bounded.
- `prediction`: 2 rows of 3 or 4 columns, so that a line wraps and scrolls within four keys; one
  letter and three editing keys; three keys without an answer; two resizes, so that the width may come
  back.
- `client_screen`: screens of 2 and 3 rows of 2 texts, 2 outputs, a key, a resize and the warning:
  every pair of tasks can overlap.
- `agent`: two processes, two connections at a time, two keys, two passphrases and two credentials, four
  starts and requests together; that is enough for an Unlock, a Lock and an Add to overlap, and
  for two starts to overlap.
- `files`: five fields, one per way in which fields are merged; two starts of `mp` and one
  `mp-keygen`; every subset of sources for each field. The build has the feature `unstable`, which makes
  every step of the stable build and one load more.

Deadlock is not checked in any run: every model may stop because its bounds are used up (all
frames sent, all connections made), because a program has ended, or because the user types nothing.

### Fairness

- `ReliableLink`: the tasks' loops keep running and what the network does not lose arrives (weak
  fairness on collecting, draining, receiving, requests, the clock, the NAK timer). Nothing
  makes the application send or the network lose.
- `StateSync`: weak fairness on receiving, on acks and on the second half of the reader's step;
  strong fairness on the tick and the repaint branch, because tokio's `select!` picks at random
  among ready branches and the branch then waits for room in the channel.
- `ScreenSync`: weak fairness on the reader, the ticks and the tasks' sends; strong fairness where a
  sender waits in line for room (tokio's channels are fair), and on delivery: of infinitely many
  frames infinitely many arrive. A resume is the client's retry. No probe step and no resize is
  forced.
- `SessionLifecycle`: weak fairness on the runtime's own steps (forwarding, stopping, the reader's
  sends and clean-up, the repaint of a resume) and on the first packet of a client that was told its right
  port. Clients
  that ask, go silent or fail, and shells that write or exit, are never forced. Neither is
  `SilenceTimeout`, so no liveness result rests on the watchdog.
- `PtyThread`: threads and tasks are scheduled; a blocked write
  of the shell ends when there is room; `select!` sees a cancelled token (strong, it competes with
  input). Nothing makes the shell read, write or exit, the client send, nor the watchdog cancel.
- `KeyExchange`: the tasks of both ends go on, the user answers a question, and `KEX_TIMEOUT` passes if
  nothing else ends the wait. No connection has to break.
- `ClientSession`: attempts and countdowns end (deadline, backoff), the user answers, a transport
  takes what it is given or its session ends; strong fairness on taking the receiver's lock and on
  reading from it: in one round after another, one task does so, since a round lasts seconds.
- `Agent`: a handler that can take its next mutex does (tokio's mutexes are fair queues). Starts,
  requests and ends are not forced.

## 4. The proofs

Checked by TLAPS with Z3, Zenon and LS4, for every value of the constants the modules' assumptions
allow: any window, retry limit, repaint threshold, timeouts and number of frames
(`ReceiverAssumption`, `LinkAssumption`; the code's values are 1024, 512, 4, 5); any number of
connections, users and ports and any channel capacity (`SessionAssumption`); any screen, ring size,
mismatch limit and chunking (`StateSyncAssumption`); any setups, attempts and lists of algorithms
(`KexAssumption`); any finite number of processes, and any handlers, keys and passphrases
(`AgentAssumption`: a credential is no passphrase a user types); any finite number of terminals
(`PtyAssumption`); any chunks of keys and channel capacities (`ClientAssumption`); any size of screen, keys and display
preference (`PredictionAssumption`); any mode, channel and number of MTU tiers (`ScreenAssumption`); any sizes of
screens and texts of rows (`ClientScreenAssumption`); any fields (`KeyFilesAssumption`). The bounds the models put on counters (`MaxSeq`,
`MaxOutput`, `MaxAttempts`, `MaxTyped`, `MaxKeys`, `MaxChunks`, `MaxEvents`, `MaxStarts`) are such constants too.

Three of the proof modules are about two components. So that one module can extend both, `ScreenSync`, `ClientScreen` and
`KeyFiles` call their specifications `SyncSpec`, `ScreenSpec` and `StartupSpec`, as `ReliableLink` does with
`LinkSpec`; no theorem relates the two.

| Module | Theorem | States |
|---|---|---|
| `ReliableLinkProofs` | `ReceiverTypeOK` | `Spec => []TypeOK` |
| | `ReceiverInvariant` | `Spec => []IInv` |
| | `ReceiverForgetsNothing` | `Spec => []NothingForgotten` |
| | `ReceiverRetriesInOrder` | `Spec => []RetriedInOrder` |
| | `ReceiverTracksNothingStale` | `Spec => []NoStaleTracking` |
| | `ReceiverAbandonsNothingBuffered` | `Spec => BufferedNeverAbandoned` |
| | `ReceiverImplementsOrderedDelivery` | `Spec => ImplementsOrderedDelivery` |
| | `LinkTypeCorrect` | `LinkSpec => []LinkTypeOK` |
| | `LinkImplementsReceiver` | `LinkSpec => ImplementsReceiver` |
| | `LinkRecoversData` | `Timely`, `MaxLosses <= MaxNakRetries`: `LinkSpec /\ []InReach => []DataRecovered` |
| | `RepaintOwedHolds` | `SyncSpec => []RepaintOwed` |
| `SessionLifecycleProofs` | `TypeCorrect` | `Spec => []TypeOK` |
| | `OutputIsPrivate` | `Spec => []OutputStaysWithUser` |
| | `OneServes` | `Spec => []OneConnectionServes` |
| | `SessionsAreNotTaken` | `Spec => LostOnlyToItsUser` |
| `StateSyncProofs` | `TypeCorrect` | `PlainSession => (Spec => []TypeOK)` |
| | `DiffsFit` | `PlainSession => (Spec => []DiffFitsBaseline)` |
| | `RecordsHold` | `PlainSession => (Spec => []RecordsTruth)` |
| | `ShowsDisplayed` | `PlainSession => (Spec => ShowsWhatWasDisplayed)` |
| `KeyExchangeProofs` | `Initially`, `Inductive`, `Invariant` | `Spec => []IInv` |
| | `TypeCorrect` | `Spec => []TypeOK` |
| | `EndsAgreeHolds` | `Spec => []EndsAgree` |
| | `BestInCommonHolds` | `Spec => []BestInCommon` |
| | `ReaderKeepsOrderHolds` | `Spec => []ReaderKeepsOrder` |
| | `AcceptedOnceHolds` | `Spec => AcceptedOnce` |
| | `PrecedenceHolds` | `StartupSpec => []Precedence` |
| | `ReconnectsSilentlyHolds` | `StartupSpec => []ReconnectsSilently` |
| `AgentProofs` | `Invariant` | `Spec => []IInv` |
| | `TypeCorrect` | `Spec => []TypeOK` |
| | `LockedHolds` | `Spec => []LockedKeepsNoKey` |
| | `AckedHolds` | `Spec => []AckedKeysAreKept` |
| | `KeyOpensHolds` | `Spec => []KeyOpensVault` |
| `PtyThreadProofs` | `Invariant` | `Spec => []IInv` |
| | `TypeCorrect` | `Spec => []TypeOK` |
| | `LiveShellsHold` | `Spec => []LiveShellsListed` |
| | `CleanEndHolds` | `Spec => []CleanEndLeavesNoLogin` |
| `ClientSessionProofs` | `Invariant` | `Spec => []IInv` |
| | `TypeCorrect` | `Spec => []TypeOK` |
| | `TypedOrderHolds` | `Spec => []TypedOrder` |
| | `AsksHolds` | `Spec => []AsksForLastSession` |
| | `KeysKeptHolds` | `Spec => KeysKept` |
| | `TerminalTrueHolds` | `ScreenSpec => []TerminalTrue` |
| `PredictionProofs` | `Invariant` | `Spec => []IInv` |
| | `NoCellOutlivesHolds` | `Spec => []NoCellOutlivesItsEpoch` |
| | `CursorHealsHolds` | `Spec => []CursorHeals` |

Each module's `IInv` was an invariant of a TLC run on the bounds of section 3 before it was proved (the one of
the client's screen with a single text for rows: 1,585,339 states). Each proof has a lemma per action, or per group of actions that leave the same things alone.

**The receiver.** `NothingForgotten` says that below each buffered frame every unsettled number is
buffered or tracked. It is not inductive: a check that gave up on a high gap and not on a lower
one would leave the drain loop standing before the lower one, with the higher erased from the
tracking and still ahead. It never happens, because of two gaps the lower always has at least as
many retries, and at equal retries is at least as old (`RetriedInOrder`); so the numbers given up
by one call are the lowest gaps (`GiveUpLowest`), and the drain passes them all. `RetriedInOrder`
is kept because new gaps lie above all tracked ones (by `NothingForgotten`) and start with no
retry (by `NoStaleTracking`). `IInv` is the conjunction with `TypeOK`. The action property and the
refinement follow from `IInv`.

**The link.** Each of its steps is one of the receiver or a stutter, so every receiver theorem
carries over. `DataRecovered` is a count. A frame that is still wanted and of which neither a copy
nor a request is under way has been lost more often than it was retried; one that is under way, at
least as often (`Counted`). The NAK timer only fires after a tick, and in a timely network nothing is
under way then (`Quiet`), so each retry it makes has been paid for by a loss of its own; and while the
frame is in the window the sender still has it and answers (`Held`). With no more losses than
retries no such gap uses its retries up. Two hypotheses are about the network: it is `Timely`, and
`InReach` says that nothing in flight is so far ahead that the reader refuses it, which it does without
recording the gap (section 5, 3). Control frames are not kept, and the property is not about them.

**The sessions.** Neither `OutputStaysWithUser` nor `OneConnectionServes` is inductive: a resume installs a
connection in whatever session the registry holds, so who may be there depends on who was given the UUID.
`Ownership` says so in five parts: a UUID belongs to the user of the connection it is named after
(`UuidsKeepTheirUser`, where the comparison of users in `Resumable` enters); a record was made by a connection
with its UUID (`RecordsNameTheirMaker`); a connection's session was made by one of its user
(`SessionsKeepTheirUser`), which also shows that nobody is attached to a session before `NewSession` makes
it; from which stage on a connection has a session (`StagesFit`); and whose channels a handle and a blocked
reader hold (`ChannelsKeepTheirUser`). `IInv` is the conjunction with `TypeOK` and `OneConnectionServes`.
All steps but three leave the owners alone (`MostStepsKeepOwners`), and nobody ever changes user
(`UsersKept`); what remains is one case per step that touches a channel or a token. `Attach` and
`ReleaseHandle` keep `OneConnectionServes` because they cancel the token they replace, `NewSession`
because nobody else can name its session. `LostOnlyToItsUser` follows step by step from `IInv` and one more
invariant, that only a session that was made has a reader (`ReadersAreDecided`): a registration ends in
`NewSession`, `RemoveUuid` or `RemoveRecord` of a connection with the same UUID, which is then of the same user.

**The state sync.** An id names one screen: the server's ring, the frames under way, the client and its acks
that say the same id mean the same version, so a diff whose base is the client's id was computed from
what the client shows. Id 0 is the exception, every full state has it; there the order of the queue
takes over, in which a diff with base 0 follows the full state it is a diff to. This fails in each
of the three cases `PlainSession` excludes (an alternate screen, a resume, a lost full state), and section 5, 4
and 5 show how; so the theorems are about sessions without them. The refinement of `ScreenMirror`
maps the client's screen to the version its id names; versions only grow.

**The key exchange.** The invariant is stated of one attempt: how many events the state machine has taken
when the reader is at a place (`Counts`), what each end holds at its stage, and that each frame under way
says what its sender holds. Frames are removed in order and each place accepts one kind, so what an end
has is what the other sent. `AcceptedOnce` follows from the counts. `BestInCommon` needs that
`Negotiate` picks the least index in common, whose existence is shown with the well-foundedness of `<`.

**The agent.** As long as no start overlapped another, and none that needed no credential let an enrolment in beside it,
there is one process (`OneProcess`), and its handlers
hold the mutexes they say they do. Then acknowledged keys are in the vault of the
daemon that serves, in what an Unlock has read, and in the vault file unless a failed save has ruined it, which
only happens while a daemon serves (`KeysKept`), and every start and save goes on with
the secret on disk (`OneSecret`). `LockedKeepsNoKey` needs no such proviso: it is the order of flag and
map in Lock and Unlock.

**The login records.** Each open terminal has a line of its own: with as many lines as threads one is
always free (a pigeonhole, `ALineIsFree`). Each line has one slot (`OneSlotPerLine`), because a slot is
found and written under one lock and what was found is still right when it is written (`SlotsHold`).

**The keyboard.** What was sent, the session's channel, what the forwarder is about to send, the prefix
kept back and the keyboard channel stand in one line in typing order (`Ordered`); a step moves bytes
along the line or drops some, and nothing else can be in two places. `Turns` says who may hold
what: it is why no prefix is lost when the receiver changes hands, and why a token cancelled while the
session serves means the program ends. What `Scan` makes of a chunk is shown by going to the
first byte where it would be wrong (`ScanDigests`): induction over the bytes as a least counterexample,
which the prover accepts where it accepts no induction theorem. `ScanUnfolds` shows in the same way
that the recursion has a solution.

**Prediction.** The epochs are the argument. A guess is of an epoch from 1 to the present one, and no
cell is of one before the confirmed epoch: a cull that raises it drops those cells, and a kill only lowers
it. So the cells that are not tentative are all of the confirmed epoch, and that is the only epoch a cull
can kill. A cull leaves no tentative cursor prediction behind (`Tidy`); at the next one, with no key
between, whatever is killed, the last prediction left is a confirmed one, and the validity check either
finds it where the cursor is or discards everything (`Agrees`). That a silent answer leaves the screen
alone (`SilenceKeepsScreen`) and that pruning keeps the last prediction (`RetainCursors`) are inductions over
the keys and the predictions, as least counterexamples. The proof showed two things about the model: a width
that changes and changes back between two culls leaves a confirmed prediction beside a cursor that was
moved, so a resize counts like a key in `CursorHeals` (a run with one resize could not tell); and with that
the property needs neither an empty line of unanswered keys nor the main screen.

**The client's screen.** The renderer never looks at the terminal: it computes an update against what it believes is
displayed, and updates rendered under the lock are written after it, by four tasks. So the invariant speaks of the
updates that are not written yet (`Chained`): a last part of them, applied in the order they were rendered in,
leads to the rows believed displayed. This part starts with an update that clears the screen or right after the
ones that were overtaken; while nothing was overtaken it starts from the terminal itself. Writing the first of
the part shortens it, writing a later one makes all before it late, and a full repaint, the only thing a renderer
does after a resize, a warning or a switch of size, starts a new one. Beside it: what the renderer believes displayed is
what it merged from emulator and prediction (`Merged`), and between two resizes has the terminal's number of rows (`SameSize`);
the emulator has that size, too, unless a full state outran the resize (`Agreeing`). With nothing under
way and nothing overtaken the part is empty, and the terminal is what is believed. That one update leads from any rows to
the ones merged is shown row by row, with or without a scroll.

**The repaint owed.** `RepaintOwed` with the range of its counters (`Dated`) is inductive. The step that matters sends
a snapshot: it answers the request if it is not older; if the request came since, the repaint task has
not taken it yet, or holds a younger snapshot of its own. It needs no assumption on the mode.

**Settings and identity.** The three layers are merged weakest first, so a field has the strongest source
that sets it (`LoadsStrongest`), given that an argument counts if and only if it was typed (`CollectsTyped`). The
listing works the origin out of the three inputs by itself and comes to the same (`ListsStrongest`). `Loading` carries both
from the step that loads the settings to the one that uses them. `ReconnectsSilently` needs to know what the cache is worth
while `untouched` (`Silently`): both files hold the key of the last exchange, whatever of it a new attempt has loaded is that
key, and the cache has its passphrase unless it needs none. What may be typed wrong was typed before the exchange that
succeeded, and by then either opened the file or was forgotten; a write by anyone ends `untouched`.

Only model-checked is all liveness (`BufferDrains`, `Converges`, `CatchesUp`,
`ReachableClientNeverBlocksShell`, `ExitEndsSession`, `OutputFlows`, `ThreadEnds`, `ConnectionsSettle`,
`QuitHeeded`, `RequestsAnswered`): it rests on fairness, that is on `ENABLED`, which the prover does not handle.

Every invariant and every action property of the runs is the subject of a theorem.

## 5. Where code and documentation disagree

Each of these is a property the module defines and the code violates. To see it, put the
property alone into a configuration of the module with the constants given (what is not given is
as in the module's own `.cfg`); TLC then shows a trace.

1. **`Lossless`** (`ReliableLink`; `MaxSeq = 2, RetransmitWindow = 2, MaxNakRetries = 1,
   RecvBufferRepaintThreshold = 3, MaxLosses = 1, MaxDups = 0`) – `README.md:105` promises lossless
   delivery; a control frame takes a sequence number but is not kept for retransmission
   (`sender.rs:147`). Losing one stalls the stream until it is given up.
2. **`RetriedInTime`** (`ReliableReceiver`; `MaxSeq = 2, MaxSeqJump = 2, RetransmitWindow = 2,
   MaxNakRetries = 1, NakTimeouts = {2}, CheckInterval = 2, MaxAge = 8`) – every arrival moves the NAK
   deadline a full interval ahead (`reader.rs:1062`), so dense traffic postpones retries without limit.
3. **`SessionProceeds`** (`ReliableLink`, as a PROPERTY; `MaxSeqJump = 1, RetransmitWindow = 2,
   MaxNakRetries = 1, RecvBufferRepaintThreshold = 3, MaxDups = 0`) – frames more than
   `MAX_SEQ_JUMP` ahead are dropped before their gap is recorded (`reader.rs:597`); after such a burst
   of losses nothing is asked for, given up or delivered.
4. **`DiffFitsBaseline`** (`StateSync`; `HistoryLen = 1, MaxOutput = 3, MaxLosses = 1, LosesPushes =
   TRUE, Ids = 1..10`) – id 0 names every full state (`runtime.rs:620`); when one of two is lost, diffs
   made from it are applied to the other and acknowledged. `Resumed = TRUE` shows the same without
   any loss: a resumed connection's task starts from an empty screen under id 0, the client from the
   repaint.
5. **`RecordsTruth`** (`StateSync`; `AltScreens = TRUE, HistoryLen = 1, MaxLosses = 0`) – leaving the
   alternate screen by diff shows a main screen the client never drew, and the server records another
   one (`runtime.rs:708`).
6. **`RunningIsResumable`** (`SessionLifecycle`; `Users = {u1}, Transports = {"udp"}`) – lookup and
   insert in `resolve_session` are two critical sections (`runtime.rs:301`, `1164`): two reconnects
   under one UUID start two shells, one of which cannot be resumed.
7. **`AdvertisedIsBound`** (`SessionLifecycle`; `Users = {u1}`) – the clean-up of a TCP session puts
   port 0 into the pool (`runtime.rs:450`, `1377`); the next set-up binds it and tells its client port 0.
8. **`VerdictTellsCause`** (`MCKeyExchange`) – the client's own error does not reach
   `run_session_loop`: a rejected host key or an incompatible version arrives as `InvalidKexState`
   (`kex/mod.rs:390`) and is retried for ever, though `moshpit/src/runtime.rs:978–1013` means to stop.
9. **`CatchesUp` in the Reliable mode** (`ScreenSync`; `DiffMode = "reliable", MaxChunks = 2,
   MaxEvents = 1, LastTier = 0, Oversized = {}`) – a snapshot that overtakes a chunk in the channel makes the client show
   the chunk twice, and the flag set for that chunk makes the repairing tick skip (`runtime.rs:760`).
10. **`CursorSettles`** (`Prediction`; `Editing = {"CR"}, Preference = "always", TypesAhead = FALSE, Repaints =
    FALSE, MaxKeys = 4, MaxWaiting = 1, MaxResizes = 0`) – "Prune confirmed cursor predictions."
    (`prediction.rs:564`) keeps the confirmed and drops the others; after Enter the cursor is put back on
    the line before until the next output.
11. **`BaselineExact`** (`ClientScreen`) – updates are sent to the terminal after the locks are released,
    so they may be written out of order and `displayed` is not what the terminal shows
    (`renderer.rs:241–243`). **`KeyboardReadInCountdown`** (`ClientSession`) – a prompt left open by an
    attempt that timed out keeps the keyboard from being read in the countdown (`README.md:1059`).

12. **`ResumeGoesOn`** (`SessionLifecycle`; `Users = {u1}, Transports = {"udp"}`) – `resolve_session` puts the
    connection's channels into the output handle and then waits for room for its repaint
    (`runtime.rs:332`); the tasks that drain the channel, and the watchdog, start after it returns. A
    shell that fills the channel in between stands still for good, and the resume with it.
13. **`DriftIsCorrected`** (`ScreenSync`; `Oversized = {2}, MaxEvents = 1`) – a snapshot is one datagram
    whatever its size (`runtime.rs:770, 798, 822, 1099`); one that is too large for the path (which
    `runtime.rs:119–131` says NATs drop) never arrives, and with it what "is corrected on the next push"
    (`README.md:115`). `README.md:121` says such states are sent in chunks, which only StateSync does.
14. **`ChunksOfOnePush`** (`StateSync`; `LosesPushes = TRUE`) – `handle_state_chunk` compares index and total
    (`reader.rs:1138`); when the end of one push and the start of the next are lost, it pieces the two
    together.
15. **`SizeSettles`** (`ClientScreen`) – `apply_full_state` reads the emulator's size, and later replaces the
    emulator by one of that size (`reader.rs:1096`, `1126`); a resize in between is undone until the next.
16. **`IdentityWhole`** (`KeyFiles`) – with the feature `unstable` the private key is loaded again after it was
    compared (`kex/mod.rs:638`); `mp-keygen` may have replaced it, and the client signs with a key that
    is not the one it presents.

Of documentation alone, see `findings` in `PROJECT.json`: the TCP data connection is a new one, not the
one of the key exchange; keepalives come every 3 s; `Auto` is resolved before the transport is negotiated;
`lock` does not zero the vault or the master passphrase, and a locked agent adds and signs; a wrong
passphrase ends `mp`, where a comment means to ask again; the
MTU probe's times assume a tick that backs off; the 30 ms threshold of prediction is never reached.

Seen while modelling, and not stated as properties:

- Server: the port of a displaced connection never returns to the pool (`runtime.rs:321`);
  `ClearChannels` may clear the channels of a connection that resumed after the failed send began
  (`runtime.rs:1340`); a UDP connection whose client never gets a packet through does not watch its
  token (`reader.rs:890`), so its data channel stays full, the shell's output with it, and the terminal's
  thread, whose channel the reader holds, does not end –
  `ReachableClientNeverBlocksShell` and `ThreadEnds` are stated for the other clients; a resume that finds
  the record between the release of the handle and its removal attaches to a shell that has ended
  (`runtime.rs:1386`); a full `term_tx` blocks the
  connection's reader until the watchdog ends a live connection; a PTY reader keeps the diff mode of
  the connection that created the session (`runtime.rs:1286`); `handle_tcp_setup` waits for its
  connection without a deadline (`kex/reader.rs:1474`, excepted in `ConnectionsSettle`).
- Login records: an early return after the login record, a failure of wtmp at login and a shutdown of the
  server leave the slot as it is (`runtime.rs:1779–1792`); `CleanEndLeavesNoLogin` excepts them.
- Agent: an unlock's answer overlapping a save undoes the save; a start that could not open the vault
  overwrites it at the next add; a save that fails after it has truncated the file leaves it ruined, and
  `RemoveIdentity` answers Ok all the same (`runtime.rs:332`), so that an agent that ends before its next
  save has lost the keys; a start given a passphrase on stdin seals the vault of a fido2 installation with
  it; a torn state file ends every later start. `AckedKeysAreKept` and `KeyOpensVault` name these as exceptions.
- Key files: a private key is overwritten when only its public file is missing; a torn pair is not offered
  for generation again; the pair is written before destination and escape key are validated.
- Keys typed in a countdown are discarded but for the quit sequence.

## 6. Not modelled, and why

- RTT estimator (`reader.rs` 494–539): a few lines of integer arithmetic whose result only moves a
  timeout that `ReliableReceiver` leaves open.
- Ciphers, byte layouts, compression: a datagram that does not authenticate is one that never
  arrived. Pacing changes when packets leave, not which.
- Scrollback, query interception as a parser, tracing, completions: sequential code with no state shared
  with the protocols. logind is a D-Bus service whose failure is only logged.
- Promptness: how soon a snapshot, a retry or a reconnect comes. The models have clocks only where
  an order depends on them (`ReliableReceiver`, `ReliableLink`).
- The vt100 crate's parser: a screen is cells or rows, and output is what it does to them.
- Code for Windows: the files' permissions and console modes.

## 7. Plan

Done, in this order: ordered delivery and its proofs; the link and its refinement; state sync; the session
lifecycle and its proofs; the client's loop; the key exchange; the agent; screen sync; the terminal thread; prediction;
configuration and key files; the client's screen.

Then the proofs: state sync on plain sessions, the key exchange, the agent, the terminal threads, the keyboard's
way, the recovery of lost data, the epochs of prediction.

Then the client's screen, the repaint owed, and settings and identity: with them every safety property of the runs is proved.

Left, by weight:

1. Both directions of the reliable link in one module: Naks behind gaps of the other direction.
