# PUC in TLA+

A verification project for PUC, a C++ agentic harness: an application made of
subsystems that share a worker pool, talk over an in-process IPC bus, commit
conversation Turns to a SQLite database and draw a terminal interface. The
modules are written from the code. TLC checks them on small instances, and TLAPS
proves the theorems of section 6 for every instance.

Paths are relative to the source root. `PROJECT.json` gives the source lines of
every definition, the runs, one faulty variant of the code for every property
(TLC finds the property violated under it), the hazards and the findings.

## 1. The system

* **Concurrency** (`utils/multithreading`, `utils/execution_graph`,
  `utils/metronome`, `utils/timer`). A pool of workers with an urgent queue and a
  timed one; reusable execution graphs and per-run execution plans over a dependency
  graph; a heartbeat that is a periodic job publishing on a channel.
* **IPC bus** (`utils/ipc`, `msgs`). Channels with bounded, asynchronous delivery on
  the pool, listed in a directory; socket and FIFO channels over framed byte streams;
  message codecs.
* **Canvas** (`canvas`). A pipeline runs handlers for each submitted Turn, overlapping
  with other Turns: persist, update the Trie, linearize, commit. SQLite keeps the
  Turns, the presentation tree and the ledger of commits; a restart reconciles them.
* **Application** (`state`, `properties`, `commands`). Subsystems with declared
  dependencies are initialized, started, stopped and terminated layer by layer.
* **Terminal interface** (`puc-cli/tui`). A session owns the terminal and decodes its
  input; a screen sends it commands over a bounded channel; frames are laid out, drawn
  in parallel and edited; an embedded shell runs in one of them.

What is hard to get right here: work is submitted, and sleepers are notified, after
the mutex was released; callbacks run without locks and may detach, publish or submit;
Turn runs overlap and only short critical sections order them; a COMMIT may be durable
although SQLite reports an error, and the process may end between two handlers; every
lifecycle hook may fail, also one that undoes another failure; the bounded channel
drops commands the screen already sent; input may be cut anywhere and completed by a
timeout; caches of layouts, topologies and help are keyed by revisions.

## 2. Modules

| Module | Models | Run by |
|---|---|---|
| `JobQueue` | worker pool | `MCJobQueue` |
| `Channel` | one bounded channel, its directory entry and its pool | `MCChannel` |
| `ExecutionGraph` | reusable execution graph and its waiters | `MCExecutionGraph` |
| `DependencyGraph` | nodes, edges, cached layers | `MCCore` |
| `AppState` | application lifecycle | `MCCore` |
| `TurnPipeline` | Turn pipeline with the execution plan and its pool | `MCCore`, `MCTerminal` |
| `TurnCommit` | handlers of the commit path, recovery, crashes | `MCCore` |
| `TurnLedger` | what the commit path promises (abstract) | refined by `TurnCommit` |
| `TurnTree` | address allocation | `MCCore` |
| `Presentation` | Turn addresses, the treap and its durable commits | `MCCore` |
| `Metronome` | heartbeat, its job and its channel | `MCCore` |
| `Screen` | screen, command channel, terminal session, restarts | `MCTerminal`, `Screen_restart.cfg` |
| `TerminalInput`, `Decoder`, `TerminalReports` | input loop with its deadline, byte-level decoder, reports | `MCTerminal` |
| `TextEditor`, `TextBuffer` | text frame and the editor it owns | `MCInput` |
| `InputStack` | input frame, command mode, embedded shell, runtime loop | `MCInput` |
| `Frames` | what the input frame draws and what a pointer hits | `MCInput` |
| `InputMap`, `Trie` | binding files merged into the decoder's map | `MCInput` |
| `Layout`, `LayoutSolver` | constraints, solver, caches, z-order | `MCServices` |
| `Renderer` | parallel drawing into a double-buffered canvas | `MCServices` |
| `Selection` | pointer selection and click counting | `MCServices` |
| `Properties`, `Configuration` | property service, files, `config` command, theme | `MCServices` |
| `Streams` | framed I/O over sockets and FIFOs | `MCServices`, `MCStreams` |
| `Wire`, `Messages` | envelope and message codecs | `MCServices` |

Proofs: `JobQueueProofs`, `ChannelProofs`, `ExecutionGraphProofs`, `TurnStoreProofs`
(`TurnTree`, `TurnCommit`), `LifecycleProofs` (`AppState`, `Metronome`, `Screen`),
`InputProofs` (`InputStack`, `Selection`), and `TurnPipelineInvariant` with
`TurnPipelineProofs`.

`MCCore`, `MCTerminal`, `MCInput` and `MCServices` check several parts side by side:
the variable `which` chooses a part at the start, the others rest. The parts share no
step, so each is explored exactly as if it were alone. Modules that are extended together
name their specifications apart (`AppSpec`, `CommitSpec`, `ScreenSpec` and so on), so the
definitions TLC checks are the ones the theorems are about.

## 3. How the modules correspond to the code

A critical section is one step. A notification, an atomic load, a submission, a
callback or a system call outside it is a step of its own. A condition variable is the
set of threads asleep on it; `notify_one` picks any of them, and spurious wakeups occur
where the code has to survive them. A call that fails without changing state is a guard
that is false. Definitions keep the names of the code. An operator that stands just
before a definition and is used nowhere is a faulty variant of it.

**JobQueue.** `urgent` and `timed` are the two queues, `nextRun` and `sequence` the
order of the timed one. `pc`, `entry` and `deadline` are a worker's place in
`worker_loop`, the entry it holds and the end of its timed wait. `caller` follows a
submission through its push and its notification, `owner` a thread in `shutdown` or
`wait`. Time is a clock bounded by `MaxTime`.

**Channel.** `pending` and `scheduled` are the bounded queue and
`delivery_scheduled`; `call` is a thread's place in `open_channel`, `close_channel`,
`enqueue` or a detach; `worker`, `message` and `remaining` follow a `DeliveryJob`
through its snapshot of the subscribers. `EarlyStop` lets the pool stop while the
channel is in use, against the directory's contract.

**ExecutionGraph.** `remainingNodes`, `runningJobs` and `generation` are the fields of
the run. A thread that schedules goes through reserve, submit and, when the pool
refuses, reject. A queued wrapper carries its generation. **DependencyGraph** has the
peeling of `validate_locked` as a recursive operator and compares it with the transitive
closure.

**TurnPipeline.** One submitter per run; the plan's counters are per run. `owner` is
the thread that attaches, detaches and destroys. The completion callback, the release of
`active_runs` and the notification are three steps.

**AppState.** An operation is a loop over layers, each hook a step that may fail.
`unvisited` is what the operation has still to visit, `trail` what a failed one has to undo.
The forward layers are those of the validated topology, and the reverse ones are the same
list from its end (`Front` and `Rear` take the next layer from either end).
**Metronome** has one `TickState` per lifecycle, and ticks of earlier ones linger on
the pool; `start` and `stop` are followed through the calls they make.

**TurnCommit.** A presentation root is the set of Turns below it. A transaction ends
`ok`, `error` (nothing happened) or `unknown` (durable, but reported as failed).
`Crash` comes between any two steps. The module implements `TurnLedger`, with the
durable root as what is presented. **Presentation** has the treap itself: nodes are
stored under their canonical bytes, which stand for the hash, and priorities are any
numbers. **TurnTree** has the compare-and-swap loop of `allocate_child`; `MaxOrdinal`
stands for 2^32 - 1 and zero for exhaustion, as in the code.

**Screen.** `commands` is the bounded channel that evicts its oldest entry, `resize`
the channel that keeps the newest; `tty` is the device, raw or not, with the modes that
were switched. Taking the terminal, asking its size and every write may fail; a write
that fails may have switched the modes or not. A copy may be longer than the clipboard
takes. The resize channel refuses a size once `stop` has closed it. A restart makes a new
screen and new channels over the same session.

**Decoder, TerminalReports, TerminalInput.** The decoder's state is a record and
`process` an operator on it; every event carries the bytes it stands for, which the
properties use and the code does not keep. The input loop reads blocks of any size,
pauses, and resolves the deadline of the current timeout token. The input ends with a
read of zero bytes, which finishes the decoder, or with a hangup seen by `poll`, which
does not.

**TextBuffer, TextEditor.** An editor is a record of lines of scalars with zero-based
carets; every public call is a step, and a paste arrives in chunks that divide scalars
and line ends. Differences of unsigned rows wrap as in the code. The viewport has one size:
section 5 says what happens with two. **InputStack** has the modes, the queue of bytes to the shell and its
sessions; **Frames** has the geometry: box, gutter, help rows and terminal. A click is
placed on the rectangle of the last draw, also when the text has changed since.
**InputMap** merges three documents and terminfo into a candidate map over **Trie**.

**Layout, LayoutSolver.** Constraints are records; the two caches and their revision
counters are state. Percentages are multiples of `1/PercentOne`, which stand for
fractions a float holds exactly, and sizes saturate at `SizeMax`. **Renderer** draws
cell by cell, so that parallel jobs interleave; the base cell that clears a frame is
optional. **Selection** counts clicks over
layouts that change between events.

**Properties, Configuration.** A registration looks, reads the disk and installs in
three steps; files change in between. `config set` sets and then gets, in two steps, and a
theme applies its palette colour by colour; files may be reloaded in between. **Streams**
moves any part of the bytes offered at each system call, and lets writers and readers share
the mutexes the code shares; a read or an `accept` may fail, a client may die between any
two calls, and the server may be stopped. **Messages** encodes byte by byte; a 32-bit word
is an integer in two's complement, and a 64-bit position a pair of words, which decoding
may refuse as too wide.

## 4. Runs

Bounds are in the `.cfg` files and, for parts that are only model-checked, in the
`INSTANCE`s of the MC module. Each was chosen so that the interesting case happens: two threads to interleave,
a third message or Turn to overtake, one more lifecycle than one, limits that are hit.

* **job_queue** (190,262 distinct states). Two workers, an urgent, a delayed and a
  periodic job whose deadlines tie, a canceller, a thread that shuts down and one that
  waits. `PoolSound`: a periodic job never overlaps itself, a handle says active only
  while its job will come back, no wakeup is lost, and `wait` leaves nothing behind.
  `DueServed` and `WaitReturns` are its liveness.
* **channel** (223,656). Two clients, two workers, two subscribers, depth two, four
  messages: eviction, reentrant detach and reopening occur. `DeliverySound`: one
  delivery at a time, silence after detach, a listed channel accepts. `InOrder`,
  `DetachReturns` and `PendingDrains`; the last two demand nothing once the pool
  stopped early.
* **execution_graph** (715,800). A join, two callers, two workers, two runs, so that
  wrappers of a failed run meet the next one. `RunSound`: a job runs inside its run,
  once and after its prerequisites, and OK means that every node ran.
  `ResultCollected`: some waiter gets the result.
* **core** (639,405; symmetric in the pipeline's runs and workers, safety only).
  *Dependency graph*: every graph over three nodes, cycles included, validated at any
  time (`TopologyExact`). *Lifecycle*: five subsystems, a chain of three layers and one
  that names itself, any hook failing (`StateTruthful`). *Pipeline*: two overlapping
  runs of a chain on two workers, a pool that may stop (`DetachDrains`). *Commit*: Turns
  1, 1.1 and 2 in three overlapping runs with crashes (`CommitSound`, and
  `LedgerSpec`: the steps implement `TurnLedger`). *Addresses*: two threads, two
  parents, ordinals up to two, so that allocators run out (`AddressesSound`).
  *History*: four addresses whose order differs from that of their text, two
  priorities, so that ties and rotations occur (`HistoryReadable`). *Heartbeat*: three
  lifecycles (`HeartbeatQuiet`).
* **terminal** (117,763). *Input*: bindings of every protocol, and texts put together
  from short pieces, whole and truncated, cut into reads at every place with pauses
  between them; limits of a few bytes that are exceeded (`StreamFaithful`,
  `ReportsDecoded`, `QuietBeforeTimeout`, `PendingResolves`). *Ownership*: two starts,
  two resizes, one fault, copies, a command channel of three entries (`TerminalRestored`,
  `DeathJustified`, `GeometryConverges`). *Pipeline*: one run that joins two branches
  on a pool that lasts (`HandlersInOrder`, `EveryRunCompletes`). Completion of
  overlapping runs is checked for safety only: that instance with liveness is too large.
* **input** (356,673). *Editing*: a two-byte scalar, pastes that divide it and a
  CR LF, a viewport of two cells, scrolling (`EditorSound`). *Modes*: two commands, one a prefix of
  the other, and two shells in turn (`InputReachesItsSession`, `HelpIsFresh`).
  *Drawing*: the smallest screen the frame accepts and one with room for the shell
  (`WholeTextShown`, `PointerHitsShown`, `ShellSeesItsSize`). *Bindings*: overlapping
  sequences, overrides, disabled entries and unreadable files (`MapSound`).
* **services** (936,036). *Layout*: two frames, thirteen constraints, three screens,
  edits between solutions (`LayoutSound`). *Painting*: overlapping and empty frames
  drawn by parallel jobs that may fail (`PictureExact`). *Selection*: three frames,
  layouts that change (`ClicksCounted`). *Settings*: two loaders over files that change
  type, vanish and collide (`SettingsSound`). *Transport*: two writers at one end and one
  at the other, partial transfers, a failing call, a client that dies and a second one, a
  stop (`FramesWhole`). *Codecs*: streams of two messages, every type at its extremes, one
  damaged byte (`Delivered`, `Canonical`).

The five other runs show the findings of section 5. Deadlock checking is off only where
a part really comes to rest or where the pool stops against its contract; each such
`.cfg` says which.

**Fairness.** Weak fairness of each thread's own steps in `JobQueue`, `Channel`,
`ExecutionGraph` and `TurnPipeline`: the operating system schedules threads, and job
bodies, callbacks and handlers return. Time passes in `JobQueue` and `TerminalInput`. In
`Screen` the workers deliver, and the event loop polls, draws and completes a stop it
began. `Streams` assumes strong fairness of writers and readers, since they compete for a
mutex; it is the generous choice, under which the violation still occurs. Nobody has to
submit, cancel, detach, start a run, type or stop anything. Urgent jobs may starve a due
timed job in the code; the runs submit finitely many.

## 5. Findings

1. **execution_graph_two_waiters.** `ExecutionGraph::wait` lets one of two waiters
   consume the run; the other waits for a later run, which may never come
   (`utils/execution_graph/execution_graph.hpp:203`). The class comment calls the
   lifecycle methods thread-safe.
2. **turn_pipeline_destructor.** `~TurnPipeline` may return before the last worker has
   left `complete_run` (`canvas/session/turn_pipeline.cpp:121`). The application joins
   its workers first, so only a direct user of the class is exposed.
3. **screen_restart.** A stop that overtakes the queued RELEASE leaves the last
   published size behind, and a restarted application never learns the geometry
   (`puc-cli/tui/terminal/session.cpp:351`).
4. **fifo_torn_frame.** A writer that checked the status before another one tore its
   frame appends its own to it (`utils/ipc/filebuffer_channel.cpp:213`).
5. **socket_duplex.** Both ends of a socket that transmit at once hold the mutex their
   own readers need, and wait for each other (`utils/ipc/socket_channel.cpp:131`).

Observed while reading and modelling, without a run of their own:

* Two commits can materialize in the reverse order, because `commit` materializes after
  it unlocked (`canvas/session/orchestration_subsystem.cpp:123`).
* A terminate hook that failed is called again by the next `terminate`
  (`state/state.cpp:357`, against `state/state.hpp:101`).
* A paste whose BEGIN went to an embedded shell that then exits has its next DATA
  refused by the input frame; events dropped while the screen is too small can leave a
  paste open; a stop resets the decoder with a paste open
  (`puc-cli/tui/terminal/terminal_subsystem.cpp:100`); and the CANCEL of a paste over the
  limit is never published.
* The cancellation of a paste restores the scroll row of an older viewport
  (`puc-cli/tui/text_input/text_editor_utils.cpp:976`). When the viewport has grown since,
  the row lies behind the last one that scrolling allows, and until the next draw clamps it
  the unsigned difference at line 1045 of the file wraps. With two viewports TLC finds that
  `ScrollInText` fails after a resize during a paste; the run has one viewport.
* A copy above the clipboard limit is refused
  (`puc-cli/tui/terminal/clipboard.cpp:93`), and the refusal of this one-way command ends
  the process. `DeathJustified` names it as a cause.
* When the size query fails while the terminal is taken, no geometry is published. The
  next query comes with a presentation, and the screen presents nothing before it has a
  geometry; `GeometryConverges` starts from a known one.
* A STRING setting is shown quoted and escaped (`properties/properties.cpp:527`) and set raw
  (`properties/properties.cpp:835`): what `config get` shows does not read back as the same
  string. `SettingsSound` claims it for integers and booleans.
* `waiting_for_acknowledgement` survives a new ENTER_COMMAND_MODE.
* The precedence of binding sources in `puc-cli/tui/terminal/decoder.hpp:53` differs
  from that of `input.cpp:642`.
* A fatal presentation leaves the terminal raw.
* `parse_integer` refuses "+5" and accepts "+0x5"; `TurnAddress::parse` accepts "1.";
  `is_prefix_of` is strict although its comment includes the address itself.
* `ZBuffer::remove` leaves the constraints of the frame behind. A value set at run time
  does not survive a reload in which its key vanished or changed its type.
* Calling `Metronome::stop` from a heartbeat callback while another thread is in `stop`
  would wait for itself.

## 6. Proofs

Every theorem holds for all values of the constants that satisfy the named assumption of
its module. `JobQueue`, `Channel`, `ExecutionGraph` and `TurnTree` state theirs as
`ASSUME`; those of `AppState`, `TurnCommit`, `TurnPipeline`, `Screen` and `Selection` are
hypotheses of the theorems, and `MCCore`, `MCTerminal` and `MCServices` assume them, so
that TLC evaluates all of them. `InputStack` needs none. They say little: threads of different roles are different, dependencies refer to
what exists, counted sets are finite, an execution graph has no cycle (`start` refuses
one), a period is positive, the command channel of the screen has room for a command,
and no selectable frame is the value that stands for none. The bounds on time, messages, runs and starts are arbitrary
naturals. The inductive invariants below were checked with TLC before they were proved.

**JobQueueProofs: `PoolCorrect`** (`PoolSound`), from four theorems.

* `TypeCorrect`: types are inductive only together with `PeriodicRescheduled`, that only
  a periodic entry is on its way to the requeue.
* `NoOverlap` and `HandlesTruthful` rest on `EntryInv`. That an entry is in one place (a
  worker's hands or one position of one queue) says nothing of a job not yet accepted,
  hence `NotSubmitted`; a push keeps that a live periodic job is queued or carried only
  because of both.
* `WakeupsNeverLost`: every step that makes work visible leaves its author with a
  notification to give, and a worker that takes an entry wakes another.
* `WaitReturnsInert`: an owner past `shutdown` implies a stopped queue, which stays empty
  (`StoppedQueueEmpty`: the requeue tests `active_` under the mutex of `shutdown`), and
  an owner that is done implies that every worker has exited.

**ChannelProofs: `DeliveryCorrect`** (`DeliverySound`), **`OrderKept`** (`InOrder`),
`TypeCorrect`. `DeliveryInv` says who holds the delivery token: the submitter, the pool
or one worker, and exactly when `delivery_scheduled` is set. A detach returns once the
token is free, and a detached channel holds no message, so silence follows. A
`close_channel` between its two steps must still find the attachment it ends. `Ordered`
puts what each subscriber received before the message in hand, and that before what is
pending. The pool may stop at any time.

**ExecutionGraphProofs: `RunCorrect`** (`RunSound`). A node that was reserved and has
not completed has a *ticket*: a wrapper in the pool's queue or in a thread's hands.
Tickets are distinct, current and open; `running_jobs` is never below their number (it
stays above when the pool discards some), so a run that is over has none, and no wrapper
of an older generation runs in a later one. While no submission has failed,
`remaining_nodes` and `remaining_dependencies` count exactly what has not completed;
hence prerequisites come first, and OK means all.

**TurnPipelineInvariant, TurnPipelineProofs: `DetachCorrect`** (`DetachDrains`) and
**`HandlersOrdered`** (`HandlersInOrder`), for overlapping runs. `PipelineInv` has
tickets per run. `active_runs` counts exactly the runs that have not released the
pipeline; a ticket implies a run that was created and has not finished, hence an active
one; a finished run has no running job, hence no ticket; and one thread takes the
completion. So after a drain nothing is in flight, and nothing completes twice. For the
order, `remaining_dependencies_` is bounded from both sides: by the prerequisites still
to complete, so that a node is released once, and, while the context is sound, by those
that have not succeeded, so that it is released after them. The proof is in two modules
because of its size: the first has the owner's and the submission's steps, the second
the completion of nodes and runs.

**TurnStoreProofs: `AddressesCorrect`** (`AddressesSound`), from `AllocatorsSound` and
`AddressesFresh`, for any ordinal width. `Watermark` is not inductive alone: `apply`
gives a new node fresh allocators, which is safe only because nothing below it was
reserved before, hence `Rooted`. The arithmetic is in lemmas on `Successor`,
`AdvancePast`, `PreserveWatermark` and `Rebuilt`; the last needs that a nonempty set of
ordinals has a least element.

In the same module: **`CommitCorrect`** (`CommitSound`) and **`LedgerImplemented`**
(`LedgerSpec`). A commit writes the root it prepared, so what a run has prepared must add
exactly its own, durable Turn to the root it was prepared from (`RunsSound`); recovery
works on the durable root, and the database is closed under parents because `rebuild`
takes all of it (`DatabaseSound`). With that invariant each step is a step of
`TurnLedger` or changes nothing of it: crashes, failed transactions and COMMITs of
unknown outcome included.

**LifecycleProofs: `StateCorrect`** (`StateTruthful`), **`HeartbeatCorrect`**
(`HeartbeatQuiet`), **`TerminalCorrect`** (`TerminalRestored`) and **`DeathExplained`**
(`DeathJustified`).

* `AppInv` says how far the running operation has come. A subsystem is in a later layer
  than its dependencies (`TopologySound`). The trail of `start` lists what
  it started, dependencies first, so its reversal never leaves a subsystem without them.
  A subsystem of the layer `stop` is in has no dependent among those not yet visited, nor
  among those of the layer whose hook failed, and past a layer no failure is behind it.
* `HeartInv` says which lifecycle a call of `start` or `stop` is about and how far it is,
  that every other lifecycle has no channel, no handle and no running flag, and that a
  tick that meets a detached channel finds its own lifecycle not running on the second
  load, which is what keeps it from ending the process.
* `ScreenInv` ties the command channel to the session. RELEASE is the last command
  queued, and a command that draws is pending only while the session is active: so no
  command reaches a terminal already given back. The session has let go of its channel
  before the resize channel is closed (`Unbound`), so no size meets a closed one. What ends
  the process is then a failed call to the terminal or a copy above the limit. A session that is no longer active has restored the modes it had set,
  unless the restoration itself failed.

**InputProofs: `InputCorrect`** (`InputReachesItsSession`) and **`ClicksCorrect`**
(`ClicksCounted`).

* `SessionInv`: the frame is in terminal mode only with a session, no operation of the
  frame replaces a session that is open (`Follows`, one lemma per operation), a running
  shell belongs to the session of the frame, and input not yet written was typed into
  that session. The last is what fails first if a session closes without its queue.
* `ClickInv`: the history of clicks that the screen keeps is what the user has clicked
  since the last pause or drag, and a gesture holds a frame that accepts selections. A
  frame may refuse any update; then nothing it shows has changed.

**Only model-checked.**

* All liveness: `DueServed`, `WaitReturns`, `DetachReturns`, `PendingDrains`,
  `ResultCollected`, `PendingResolves`, `GeometryConverges`, `EveryRunCompletes`.
  Fairness and ENABLED are outside the prover's reach.
* What recursive definitions compute: `TopologyExact`, `HistoryReadable`,
  `StreamFaithful`, `ReportsDecoded`, `QuietBeforeTimeout`, `EditorSound`,
  `WholeTextShown`, `PointerHitsShown`, `ShellSeesItsSize`, `MapSound`, `LayoutSound`,
  `PictureExact`, `SettingsSound`, `Delivered`, `Canonical`. They need induction over texts, trees and
  byte strings, or are about modules that reach a recursive operator.
* `HelpIsFresh` and `FramesWhole`. The first depends on what `SelectSeq` leaves of the
  commands, the second on how frames concatenate into bytes: both are recursive.

A leaf names its backend where that matters: Zenon wherever Zenon suffices, which keeps
the larger modules quick to check.

## 7. Not modelled

`PROJECT.json` lists every part with its status and reason. Left out: pure output and
constant tables (logger, colour tables, key names); third-party code (`tmt`, SQLite,
protobuf, the TOML parser, SHA-256), modelled by how it is used where that matters;
lifecycle wrappers that only forward, whose hooks are the opaque hooks of `AppState`;
meta channels and the directory's table of several names; the announcement channels and
the ingestion pump of the canvas; signal handlers; migrations and statement handling;
test applications and scripts. Within the modelled parts: contents of Turns, Merkle
hashes of the Trie, `TurnPipeline::process` (a submit and a blocking wait), memory
exhaustion and the conversion of delays to nanoseconds.

The map covers about a third of the implementation's lines. Most of the rest is drawing,
bootstrap, property registration and the adapters of external libraries.
