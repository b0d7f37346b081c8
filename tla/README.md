# Verification of zuihitsu

zuihitsu is the software a single conversational agent runs on: an append-only
event log, a memory graph folded from it, the server that turns incoming messages
into sessions, model turns and Lua blocks, and around it a console, platform
connectors and an evaluation harness.  This directory holds TLA+ models of it, the
TLC configurations that check them on small instances, and TLAPS proofs of the
results that hold for every instance.

Paths of the form `instance/…` are under `src/src/`, `core/…` under
`src/crates/core/src/`, `eval/…` under `src/crates/eval/src/`, `discord/…` under
`src/platform-connectors/discord/`, `docs/…` under `src/docs/`.  `PROJECT.json`
lists the components, the runs with their properties, the source lines behind
every definition, the hazards and the theorems.

## 1. The system

One process owns everything.  Its tasks are tokio tasks over one `Arc<Instance>`:
one per HTTP request (spawned, so that a client's disconnect cancels nothing), and
one per background driver.  `parking_lot` mutexes guard the store and the graph and
are never held across an await; async mutexes (lifecycle locks, per-memory locks,
the describer guard) are, and they are fair.  Connectors, console and harness are
other processes that speak HTTP to it, or assemble an instance of their own.

| part | state it keeps | operations | meets |
|---|---|---|---|
| Turn ledger (`instance/turn_ledger.rs`, `agent/turn/supersede.rs`) | per conversation: served epoch, supersede level, finished epochs, arrivals, counts | `register`, `admit`, `exit`, drop of a ticket, the boundary check of a running turn | every batch of messages |
| Sessions (`instance/session/`, `instance/drivers.rs`, `instance/session_store.rs`) | session map and lifecycle locks in memory; `SessionStarted`, `SessionEnded` and turns in the log | `ensure_session`, closing flush, idle and checkpoint sweeps, compaction, `note_join` | ledger, log, model |
| Log and derived graph (`store/sqlite.rs`, `core/graph/`, `snapshot.rs`, `instance/mod.rs`, `cli/debug/`) | the events table; the graph file with its head; snapshot files | append, `materialize_from`, boot, snapshot and retention, offline corrections, revert | everything |
| Memory (`memory/memory_block/`, `core/graph/apply/`, `memory/identity.rs`, `agent/maintenance/`) | names, entries with their accounts, links, `same_as` classes | every block operation with its guards, the maintenance passes, merges, mints | blocks, connectors, operator |
| Visibility, brief, search, recall (`core/visibility/`, `core/brief/`, `memory/search.rs`, `agent/turn/ambient/`) | none; read from the graph | the predicate, `compose`, its trace, `memory.search`, ambient recall | sessions, turns, console |
| Model client (`model/priority.rs`, `model/retry/`, `model/openai/`) | `turns_pending` and its `Notify`; breaker state; a stream's assembler | turn and background calls, retry, back-off, folding of a stream, embedding | turns, drivers |
| Lua blocks (`agent/lua/`, `agent/mcp_api/`, `engine.rs`) | per attempt a buffer, an infra slot, a lock set, the search taint; per session the MCP instances | memory operations, tool calls, commit, timeout, retry | turns, log, each other |
| Turn loop (`agent/turn/`) | the buffer, the step count, the tool-call ids | prompt, step, tool calls, recording, seam; transcript windows | blocks, model, ledger |
| Scheduler and background passes (`memory/scheduler.rs`, `instance/workers.rs`, `agent/turn/describe/`, `model/index/`) | wake-ups and described-state in the graph; cursors; vectors | fire, drain, describe, sweep, index | log, model, session opens |
| Genesis, prompts, settings (`agent/genesis/`, `agent/templates.rs`, `instance/control/`) | events | rollout, reconcile, edits, offline upgrade | boot, operator |
| Blobs, MCP host, web fetcher (`store/blobs.rs`, `cli/debug/gc_blobs.rs`, `mcp/`, `web/`) | files by hash; server processes; none | put, render, range read, collection; probe, call, teardown; fetch | turns, blocks |
| HTTP server (`http_server/`) | a broadcast channel, the key, running tasks | boot, routes, event stream, graceful stop | everything |
| Console replica (`crates/console-wasm`) | the events received, a graph folded to a horizon | batch, poll, fold, digest, proposals | event stream |
| Discord connector (`discord/src`) | debounce queues, reply map, a small database | forward, send, type, answer; projections | Discord, server |
| Evaluation harness (`eval/`) | a suite's package and sidecar; a run's journal | drive, resume, heal, stream, replay | instances of its own |

What is hard here, and what makes each part correct:

* **Ledger.** Tickets may be dropped at any point of the line, entries of the map
  come and go, and whether a turn yields depends on a clock and on who arrived
  since.  Correct means: one turn at a time in arrival order, no stall, and a burst
  that was superseded is answered by someone.
* **Sessions.** Four paths close a session under two different disciplines
  (lifecycle lock, turn slot), every close contains a model call that may fail, a
  restart forgets the map and not the log.  Correct means: one open session per
  room, closed once, nothing recorded in it lost to consolidation, no cycle of
  lifecycle locks.
* **Derived graph.** Two databases, no common transaction, and an apply of several
  autocommit statements.  Correct means: what is served is the fold of the log,
  whatever crashed, was restored or was cut.
* **Memory.** Guards are evaluated while a script runs, over a buffer on top of a
  graph that others change until the block commits; classes are recomputed
  incrementally.  Correct means: a class is what the links say; nobody is denied
  what they confided by a turn of somebody else; nothing widens an entry's
  audience; the self is the operator's.
* **Recall.** Every ranking is a possible leak.  Correct means: what the people
  present may not see influences nothing they are shown.
* **Model client.** Atomics and a notify across threads; a breaker whose calls
  outlive the state they were admitted in; streams cut in the middle.  Correct
  means: no lost wake-up, bounded overtaking, no state the breaker cannot leave, no
  half answer taken for a whole one.
* **Blocks.** Locks collected in script order with a timeout instead of an order,
  external effects that cannot be undone, and a check-then-commit distance as long
  as the script.  Correct means: reads hold until the commit, effects are not
  repeated, nothing stays locked, every block ends.
* **Turn loop.** A turn may end at any of a dozen points and the next prompt is
  rebuilt from what it left.  Correct means: one ending in the log, and a prompt
  that extends the last one.
* **Passes.** Each reads, asks a model without locks, then writes and moves a mark.
  Correct means: nothing below the mark was passed by, nothing is done twice.
* **Genesis.** An agent's birth may be interrupted and repeated, by another build,
  after an operator's edits.  Correct means: born once and whole, and what the
  operator set stands.
* **Outside processes.** Answers are lost, batches overlap, processes are killed.
  Correct means: nothing said is lost, mirrors are exact, genuine results survive.

## 2. Modules

| module | what it is |
|---|---|
| `TurnSlot` | abstract: a conversation has one slot and an arrival-ordered line |
| `TurnLedger` | the deli counter, its tickets, the supersession handle; implements `TurnSlot` |
| `TurnLedgerProofs` | proofs about `TurnLedger` |
| `SessionLifecycle` | message path, sweeps, checkpoints, compaction over log and map |
| `SessionLifecycleProofs` | proofs about `SessionLifecycle` |
| `DerivedGraph` | commit, apply, boot, snapshots, offline commands |
| `DerivedGraphProofs` | proofs about `DerivedGraph` |
| `Visibility` | the predicate over postures, tellers, subjects and classes |
| `MemoryWrites` | the graph as a value and what each event does to it; a block's operations and guards over its buffer; turns, passes, operator, connectors and mints that write it |
| `Recall` | brief, trace, search and ambient hint |
| `SearchGuard` | handles, the search taint and the content-write guards |
| `ModelClient` | priority, circuit breaker with retries, and the two composed |
| `ModelClientProofs` | proofs about the arbiter, the breaker and their composition |
| `ModelBackend` | a streamed answer folded piece by piece; truncated embeddings |
| `BlockExecution` | attempts, memory locks, commit, MCP session |
| `BlockExecutionProofs` | proofs about `BlockExecution` |
| `TurnLoop` | one room's turns from the inside, and the prompt rebuilt from the log |
| `Transcripts` | transcript windows by audience |
| `Occurrences` | shapes of temporal references, recurrence, stored bounds |
| `WakeUps` | firing and raising of reminders |
| `Describer`, `CatchUps`, `Indexer` | the describe pass, the cursor passes, the vector index |
| `Genesis` | rollout, reconciliation, prompts and settings |
| `Blobs`, `McpHost`, `WebFetch` | attachments and their collection; a configured tool server; a guarded fetch |
| `HttpServer` | boot, routes, event stream, stop |
| `Replica` | the console's copy of the log and what it derives |
| `Connector`, `Projections` | Discord's messages; its identities, channels and guilds |
| `EvalSuite`, `EvalRun` | a suite through kills; one run, its journal and replay |
| `MCRooms` | instance: `TurnLedger` and `SessionLifecycle` under fairness |
| `MCRestart` | instance: `DerivedGraph` and `SessionLifecycle` through restarts |
| `MCTurns`, `MCProgress`, `MCServices` | instances: what a turn is made of; what must end; what runs beside the turns |
| `TurnsProofs` | proofs about parts of `MCTurns`: `SearchGuard`, `WebFetch`, the embeddings of `ModelBackend`, `Transcripts` |
| `ServicesProofs`, `ConnectorProofs` | proofs about parts of `MCServices`: `McpHost`, `CatchUps`, `Describer`, `Indexer`, `Genesis`; `Blobs`, `Projections`, `Connector` |

How they compose.  `ModelClient` joins the arbiter and the breaker in shared steps.
`MemoryWrites` and `Recall` use the same `Visibility`, `WakeUps` uses `Occurrences` and
`Visibility`.  `TurnLedger` implements `TurnSlot` by the mapping of live epochs to
the batches ahead.  The `MC` modules put components side by side that meet through
arguments and results alone, one state variable deciding which of them moves.  The other
modules meet through the log: each keeps the part of it it reads and writes.

Every definition that models code is in `PROJECT.json`'s map with its lines.
Definitions that state what *would* be wrong (a dropped guard, a missing reset) stand
beside the definition they vary, carry a comment saying so, and are used by no
specification; replacing the original by the variant makes TLC report the property
listed with it.

### TurnLedger

Every ledger operation runs under one mutex, so each is one action: `Arrive`
(`register`), `AdmitTicket`, the boundary check of a running turn, the exits and the drop of
a waiting ticket.  `ledger` is the code's `HashMap`; an entry has the code's fields.
The clock is read afresh by each operation and need not be monotonic, and the
supersede window is a setting that may change between admissions, so both are chosen
from small sets.  `stamp` is a history variable (the order of arrivals), which the
burst properties need and the code does not keep.

### SessionLifecycle

Actors are the rooms' message tasks, the sweeper and the checkpointer; `act[a].pc` is
the await an actor stands at.  What lies between two awaits is one action.  Judging a
candidate (stale? turn in flight?) and joining the queue of its lifecycle lock are one
action because the code does not await between them; an append and the fold that
follows are one action *here*, since nothing in this module reads the graph between
the two (`DerivedGraph` and `BlockExecution` take them apart).  The model may fail
every flush and every describe.  Turns are abstract: `message`, `reply`, `flush` with
the position its buffer ended at, and `system` (joins, surfaced wake-ups).
`slow`, fixed by the initial predicate, says whether a turn may outlive the idle gap
after its last clock read (`SlowTurns` admits such behaviours); the default gap is 30
minutes, so `FALSE` is the ordinary case and `TRUE` the one nobody tests.  Not modelled:
`force_compaction`, which only the evaluation harness calls, and the flush that is a no-op when no flush template is registered.

### DerivedGraph

An event is reduced to what its arm does: nothing (`quiet`), one idempotent statement
(`write`), or a plain INSERT and a statement depending on it (`insert`).  Every
statement of an apply is a step, the head update is one more, and a kill may strike
between any two (`TornApply`), while a file is being copied or vacuumed into
(`TornFiles`), or between the steps of a revert (`TornRevert`); `Errs` lets a statement
fail in a process that goes on.  `spent` counts kills, failures and cuts apart, so that a
property can say which faults it survives (`OnlyKills`).  `graph` and each `snaps[h]` are
files that are absent, readable, bare (no meta table) or torn.  Boot is the code's sequence restore, open,
reset on a schema change, reconcile templates (which may append an event), catch up.
Not modelled: loss of power under WAL with `synchronous=NORMAL`, the vector file a
revert also removes, a boot that starts while a revert is running.

### Visibility, MemoryWrites

The graph of `MemoryWrites` is a record of the tables, with one operator per event arm;
`Applies` is the whole fold, union-find recomputation of classes included.  For each
operation of a block there are the events it buffers, or none where a guard refuses: the
code's guards in the code's order over the committed graph under the block's own
pending events.  The actions let a turn's block, a maintenance pass's block, the
operator's console and offline commands, connectors and identity mints interleave: the
maintenance passes take no memory lock across their model calls, and neither do the
others, so any order of their commits is possible.  `kin` is a history variable: the
members of the speaker's classes while the block was open, and whoever shared the self's
class meanwhile.  Which names are near one another is left open, so the refusal of a near
match is a step not taken.  Columns nothing here reads (descriptions, occurrences,
beliefs) are other modules'.

### Recall, SearchGuard, Transcripts

Text is the entry it says, so "reveals" is equality: `NoTraceOfSecrets` compares every
answer with the answer from a graph in which the hidden entries and links do not
exist.  A block of the brief costs a character for its heading and one for each line,
which keeps the packer's decisions (mandatory, capped, budgeted, refunded) without its
wording.  `SearchGuard` follows the handle a script holds from where it was taken to
the write made through it, while other blocks rename.  `Transcripts` folds sessions and
joins into the audience of each turn, as `resolve_turn` does.

### ModelClient, ModelBackend

In the arbiter each load, `fetch_add`, `fetch_sub`, registration and notify is a step.
Taking them in one order is sound for the orderings the code uses: a waiter registers,
and `notify_waiters` collects, under the mutex inside `Notify`, so a notifier that
misses a waiter published its decrement before the waiter's second load.  In the
breaker, admission and each record are one step, under its mutex; the passing of the
open window is an action of its own.  The backend's answers are nondeterministic.
`ModelClient` composes the two: the arbiter's dispatch and the
breaker's admission are one joint step, a turn keeps its place in the counter through
back-offs, and only turns drop a stream (a background pass drains its own).  An
escalated describer sweep is a turn call, as in the code.  `ModelBackend` is what
happens inside one attempt.

### BlockExecution

A conversation runs one block at a time; the operator console is one more conversation
whose blocks end in `EndDry`.  What a script does is chosen freely, so a retry chooses
afresh, which includes re-running the same script.  A memory operation is three kinds
of steps: the call, one `Acquire` or `Granted` per lock (the registry's mutexes are
fair queues), and the operation itself once all locks are held.  `Fold` is separate
from `End` because `finish` appends under the store lock and folds under the graph
lock.  The graph is the fold of the log's first `head` events, and stops before an
event that violates the uniqueness of names, as `materialize_from` does.  Class
membership is a constant: the code reads it before locking and documents the race with
an operator's merge.  Left out: operations the block's guards refuse (`MemoryWrites`),
setup failures before the script starts (nothing is held yet), the graceful end of an
MCP session (`McpHost`).

### TurnLoop

A room's turns one after the other: ambient hint, steps with their tool calls, the
resample of an empty reply, the supersession check at each boundary, the flush turn
that uses the same loop, and every way out: reply, skip, last step, newer batch,
outage, a store that fails.  Each leaves the records the code leaves; `Prompt` is the
buffer the code would read back from them under its token budget.  `last.sent` is what
the last model call of the previous turn was sent.

### The passes: WakeUps, Describer, CatchUps, Indexer

Each has the lock spans the code has.  Firing reads and appends in one span and folds
in another; the drain reads, appends and folds in three, and two rooms may open at
once.  The describer lists stale memories, takes its guard for each, looks again, and
asks the model without a lock.  The cursor passes read the head *before* the window; a memory
the model gave no answer for counts as gone through, as the code has it, so
`NothingUnswept` is about what a pass looked at and not about what it achieved.
Each vector operation is a transaction and the cursor another.  `Occurrences` computes
instances with the code's scan, over a calendar in which a day is a constant number of
ticks and the months start on the days the constant `MonthStart` lists.

### Genesis, Blobs, McpHost, WebFetch, HttpServer

`Genesis` reads everything back from the log as the code does, with the log cut at any
append, builds that come and go, editors that read without a lock, and edits before
birth.  `Blobs` interleaves uploads, messages, replays and the offline collection.
`McpHost` is one server, from the file that names it to the exit of its process.
`WebFetch` resolves names afresh at each request.  `HttpServer` reduces events to a
count; what a route does is its class (reads, writes, asks a model) and its surface.

### Replica, Connector, Projections, EvalSuite, EvalRun

The processes around the server.  Their environment is the lossy one the code
prepares for: batches that overlap or arrive late, answers lost after the commit,
kills between two writes, a buffered writer whose last line may lack its newline.  A sync
of `Projections` reads its rows, sends, and writes each row in a transaction of its own; a
row that cannot be read counts as never written, one that cannot be written is let go,
and either may happen at any row.  `lost` is a history variable: the entries the server
made that no row names.  A kill of `EvalSuite` may fall anywhere, within a record's line
and while a heal seeds its sidecar included; `spoiled` records that one did.

## 3. Runs

All on two TLC workers; bounds are constants, given in the `.cfg` or, where a run
instantiates several modules, in its `MC` module.  `MCServices` and `MCTurns` have as
constants of their own what the proofs about their parts quantify over, with the values
of the runs beside them (`MCAbout`, `MCStood`, …); only `Replica`, `EvalSuite`, `EvalRun`,
`TurnLoop` and `Recall`, which no theorem is about, are instantiated on fixed values.

| run | parts | shows |
|---|---|---|
| `rooms` | the ledger; two rooms' sessions, with liveness | `NewestNeverYields`, `BurstOriginIsOldestUnanswered`, `ImplementsTurnSlot`, `EveryTicketIsServed`, `SupersededIsAnswered`; `WatermarkIsHonest`, `EveryTurnEnds`, `AbandonedIsClosed` |
| `restart` | the derived graph; one room's sessions, prompt and slow | `ServesEveryCommit`, `SnapshotsStand`; `OneSessionAtATime`, `PromptTurnKeepsItsSession`, `PromptTurnsAreFlushed` |
| `turns` | eight parts of a turn | `BlocksAreSerial`, `TurnsEndWhole`, `AudienceKept`, `RecallKeepsSecrets`, `ClassesAreClosure`, `AccountsFitTheirEntry`, `ConfidenceStands`, `SelfIsTheOperators`, `NoFuzzyWrite`, `OutboundIsBounded` |
| `progress` | four parts with liveness | `NoLostWakeup`, `OvertakenOnce`, `ClientServes`, `EveryBlockEnds`, `ConsoleIsServed`, `LogIsServed` |
| `services` | twelve parts beside the turns | `RaisedExactlyOnce`, `DescribedOncePerChange`, `NothingUnswept`, `IndexFollowsTheLog`, `GenesisHolds`, `AttachmentsStand`, `McpContained`, `NothingSaidIsLost`, `MirrorIsExact`, `ReplicaIsExact`, `EvalsAreExact` |
| `session_stuck` | two rooms, one whose flush always fails | `OthersAreClosed` fails: finding 1 |
| `graph_half_applied` | all kinds of events, a kill inside an apply | `BootNeverFails` fails: finding 2 |
| `block_names` | two conversations, one free name | `NamesAreUnique` fails: finding 3 |
| `recurring_skip` | a monthly reminder asked after 28 February | `DueIsRaised` fails: finding 4 |
| `self_merged` | the memory of `turns` | `SelfIsOutOfReach` fails: finding 5 |
| `wake_ups` | the reminders of `services` | `EachIsRaisedOnce` fails: finding 6 |
| `mirror_doubled` | the projections of `services` | `OneEntryPerAttribute` fails: finding 7 |

What some properties excuse, each by a history variable, and where the excused case is
shown to be real or described:

| property | excused | see |
|---|---|---|
| `ServesEveryCommit` | what follows a revert cut short (`spent.cuts`) | `CommittedIsServed` fails there: section 5, first observation |
| `SelfIsTheOperators` | a block open while a merge had the self in another's class (`kin[a].self`) | `self_merged` |
| | accounts of the self's entries, which are not compared | section 5, *Memory* |
| `RaisedExactlyOnce` | a room that reads while another's drain is under way (`crossed`), an instance whose firing a drain overtook or that was fired twice at once (`excused`) | `wake_ups` |
| `MirrorIsExact` | an entry whose answer, row or read was lost (`lost`) | `mirror_doubled` |
| `EvalsAreExact` | a kill within a line or while a heal seeds (`spoiled`) | `ResultsSurvive` fails there: section 5, *Around the server* |

A revert cut short is in the bounds of `restart`, and so are a kill within a sidecar's
line and one while it is seeded in those of `services`: the properties hold in those
behaviours up to the fault, and what they claim after it is what their comments say.  A
statement that fails half way leaves a graph no fold of the log explains, yet every
commit that returned is still served: the graph shows each of its events (`Shows`).
After a revert cut short snapshots of events that are gone remain, too; the newest
snapshot is kept.

In `rooms` the batches differ by their arrivals alone and the rooms by their messages, so
the four leads-to properties are checked for one batch and one room (`Followed`,
`Watched`); what holds of one holds of each by renaming.  `restart` declares the writers
symmetric and checks no liveness.

Each passing run holds several components that share no state.
Exploring them in one state space at once would only multiply it, so a variable `part`
is chosen by the initial predicate and a behaviour moves that part alone: the run
checks each part completely, over the union of their state spaces and not their
product.  Components that do share state are composed in a module of their own.

The bounds of the parts, each the least that reaches the hazards it is for:

| run, part | bound |
|---|---|
| `rooms`, ledger | one room, three batches, clock {0, 2}, window {0, 1} |
| sessions | two rooms that checkpoint each other, both sweeps, a gap of 0; two batches among the timer's checkpoints, two and a restart before the timer ticks, or one with a restart, a system turn and the timer (`LiveBounds`) |
| `restart`, graph | two writers, three events, retention 1; rows inserted in batches, one kill anywhere and two offline commands (a write among them), or single events of both kinds with a kill, a failed statement or a revert cut short and one command (`FaultBounds`) |
| sessions | one room, a gap of 1, a restart, failing flushes; three batches of prompt turns over the clock 0..3, or two of turns of any length and a join over 0..2 (`PaceBounds`) |
| `turns`, block | two conversations over a stub and its profile; two attempts, two operations, two blocks each, one connector write |
| turn | three steps, a budget of three, three turns or other events; scripts of one block, three blocks, and an unknown tool before a block |
| room | two people, one room, five records, a window of one turn either side |
| recall | six memories (the self, three people, a topic, the room), seven kinds of entries and four of links, four audiences, three acts |
| memory | seven memories (the self, the operator, two platform people, a room, a profile, one free), a merged person and a confidence to begin with; a turn and a pass, two operations, merges of the self among them |
| script | three memories, four names, two queries, four acts |
| fetch, backend | two redirects, three bytes; two answers whose pieces interleave, inputs that shrink once, several times or to the floor |
| `progress`, client | two turn calls, one background call, threshold two, two attempts |
| block | as above without tool or connector |
| server | one console, a channel that holds one event, three events, two connections, every configuration |
| graph | one writer, two idempotent events, two faults, one offline command |
| `services`, reminders | two items, two rooms, times 2 and 4, a cap of one, three edits |
| describer | three changes, three walks by two passes |
| sweeps | two writes and two sweeps of each pass |
| index | two entries of one memory, two embedding models, four events, a crash |
| genesis | two builds, two editors, two settings, five acts |
| blobs | two contents of sizes 2 and 3 under a limit of 3, five acts |
| mcp | five configurations (three that load), three processes, two calls |
| connector | a human's message with two files, a bot's answer to it, one in a channel not listened to; a bot limit of one, a file limit of one |
| projections | two attributes, two values, three changes, one fault |
| replica | three events, three steps of a turn, two outstanding polls |
| suite | two runs, both at once, three starts, three drives, kills anywhere |
| eval | two scripts of three steps, six events, two replays |

Why this is enough for what is asked.  *Ledger*: three batches are the fewest with a
drop in the middle of the line and a burst that is superseded twice; clock readings 0
and 2 lie on either side of window 1; rooms do not interfere, and the invariants are
proved for any number of them.  *Sessions*: three batches and three ticks give a
session that lapses while a message waits for its close and a second session after it;
two rooms are the fewest for a cycle of locks; with `FlushMin = 2` both a flushed and
an unflushed close occur.  *Graph*: three events give a snapshot, a tail after it and
an event cut by a revert; one kill reaches every state a single file can be left in,
and a kill during the recovery from another is in `progress`.  *Memory*: what a guard
misses needs one operation to prepare (a link, an attestation, a merge) and one to
exploit it, in one block or across two.  *Blocks*: two merged reads through different
stubs are a deadlock, a read and an append a conflict, two tool calls a repeated effect,
two creates a collision.  *Model*: two turns and a worker are the fewest with a
straggler, a probe and a waiter; the invariants are proved for all.  *Passes*: two
walkers or rooms are the fewest that can overlap, and a second round after them shows
what the first left behind.  *Harness*: three starts are a first drive, one resume that
is killed and one that must still read what it left.

`CHECK_DEADLOCK FALSE` stands where the system may stop: a server with no message, no
event and no fault left to happen is idle.

### Fairness

* `TurnLedger`: an admissible ticket is admitted (the watch channel wakes it) and a
  running turn ends (a model call times out or answers).  A drop is never assumed.
* `SessionLifecycle`: every await returns, since tokio's mutexes are fair and the
  client's streams are bounded by its timeouts; the sweep's timer keeps ticking.
  `AbandonedIsClosed` also assumes strong fairness of a successful flush per room: the
  backend may fail any number of times and not for ever.  `session_stuck` drops that
  assumption for one room.  In `rooms` the fairness of both is stated of the composition
  and binds in its own part, since in the other no batch ever arrives.
* `DerivedGraph`: boot and commits run on, the service manager restarts the server, a
  begun revert goes on; a writer waiting for the graph lock eventually gets it.
* `ModelClient`: a started call is polled to its end, and streams end.  Nothing is
  assumed about how often the backend fails.  `WaitingIsServed` is conditional on the
  turns ceasing: the code has no bound on starvation of a background call.
* `BlockExecution`: only that a fold finishes and that the timeout of a block that
  stays in its script fires.  No lock is assumed to be granted.
* `HttpServer`: boot goes on or fails, a task that was told to stop stops, a turn in
  flight ends, a response is written, a connected stream is polled.  A client need not
  read, connect or hang up.

The remaining modules make safety claims only and assume no fairness.

## 4. Proofs

`TurnLedgerProofs` (any sets of rooms and batches, any `Time` and `Window` within the
naturals): `LedgerInv` is inductive, and from it follow type correctness, mutual
exclusion (`OneTurnAtATime`), absence of stalls (`CounterServesAHolder`), the lifetime of
map entries, `NewestNeverYields` and the refinement of `TurnSlot`.  The safety
properties are not inductive alone.  That the counter serves a live holder needs that
*every* epoch between the counter and `next_epoch` has a holder or a finished mark
(`NoHoleInLine`), since the exit of one ticket may move the counter over several; that
the counts never underflow needs that they count (`CountsExact`); and that a turn which
yielded has a successor needs that somebody stands for each burst (`SomebodyStands`),
which survives the drop of the newest ticket only because the supersede level stays
with it.  The loop that skips finished epochs is written as a minimum; the lemma
`SkipFacts` states what it returns.

The burst property of the ledger, `BurstOriginIsOldestUnanswered`, is about one step, and
needs what the arrivals of an entry are.  `OriginInv` says they are the records of exactly
the batches nobody has answered.  Epochs restart with each entry, so this holds across
removals only because the last holder never leaves a batch unanswered behind, which is
`NewestNeverYields` once more; and the first arrival by epoch is the oldest because the
epochs in use follow the order of arrival.

`ModelClientProofs` (any finite set of turn calls, any set of background calls, any
threshold and attempts of at least one): `ArbiterInv` and `BreakerInv` are inductive for
the components, each step of `ModelClient` is a step of each component or leaves it
alone (`ClientImplementsArbiter`, `ClientImplementsBreaker`), and the client's properties
follow from the components'.  `OvertakenOnce` is an action property and needs
`NoSecondPass`: whoever has overtaken a turn does not stand at the dispatch again while
the turn keeps its place.

`SessionLifecycleProofs` (any set of rooms, any gap, thresholds and bounds, checkpoints on
or off): `SessionInv` is inductive.  It is `CoreInv` for every behaviour, and `PromptInv` as
well for those whose turns end within the gap, the premise the code itself relies on.
`CoreInv` gives `OneSessionAtATime`, `PromptInv` the other three properties.  That a room
has one open session is not inductive alone: it needs that the queue of a lifecycle lock
holds exactly those who wait for it or keep it (`LockInv`), and that whoever is about to
open a session stands first in it, in a room with no session in the map and none open in
the log (`MapInv`).  A compaction closes without the lock; it cannot meet a checkpoint,
since no turn gets into a room whose session a checkpoint flushes (`CheckInv`).  That no sweep closes under a prompt turn needs
the clock (`ClockInv`, `TurnInv`) and `SweepInv`: what the sweep judged idle stays idle
until it has the lock, since whoever is ahead of it in the queue finds the session lapsed
too.  That nothing said is lost needs that nothing is said after the buffer of a flush was
read (`SnapInv`), from which both the watermark and the close follow (`EndInv`).

`DerivedGraphProofs` (any set of writers, kinds of events and batch sizes, any retention, any
number of faults and offline commands): `GraphInv` is `BaseInv`, which survives every fault;
`HoldInv` and `HoldSnapInv` unless a revert was cut short; and, while the only faults were
kills, `FoldInv` and `SnapInv`.  What is served is the fold
of the log only between two events, so `FoldInv` says what a graph file may be: the fold of
the log up to its head with the first statements of the next event (`Half`), as many as the
holder of the lock has counted, or, in a catch-up after a kill, none counted yet.  That a
repeated statement finds its own row and nobody else's needs that an id is given to one
event (`IdInv`), across reverts too; that a boot restores a projection needs that no
snapshot is ahead of the log unless a revert is under way (`SnapInv`).  A statement that failed may leave anything beside that, but takes nothing away: `HoldInv`
says that a graph shows every event up to its head, whoever applied it, and as much of the
next as the holder of the lock has counted, since an id is larger than those before it and
a write is only ever overwritten by a later one.  `ServesEveryCommit` and `SnapshotsStand`
follow; a revert cut short leaves `BaseInv`, and with it `NewestIsKept`.

`BlockExecutionProofs` (any set of conversations, memories and names, any assignment of
memories to their primaries, any bounds on attempts, operations, blocks and foreign
writes): `BlockInv` has five parts that hold always (`TypeOK`, `LockInv`, `OpInv`, `HoldInv`, `EffectInv`) and two that hold
while no name is taken twice (`SeenInv`, `LateInv`); finding 3 is why the premise is there,
and `BlocksAreSerial` carries it too.  A block reads the graph,
which lags behind the log.  Its reads are whole only because what lies between the head and
the end of the log was written by blocks that still hold the locks they wrote under
(`LateInv`), and because a merged read locks every member of the class, among them the one
an append through another stub locks (`OpInv`, `HoldInv`).  `LockInv` says that a block's lock set is where it leads
a queue, and that every place in a queue is such a guard or one its block still wants, so
a block that ended has none; `EffectInv` that the tool calls of a block are those of its
current attempt, so no retry repeats one.  Uniqueness of names is inherited by the prefixes
of the log, so a fold reaches its end.

The parts of the `services` and `turns` runs are proved in the specifications the runs
check, `ServicesSpec` and `TurnsSpec`.  The argument has the same shape for each: the
part's inductive invariant holds at the start, each action of the part keeps it, and every
other part leaves the variables it speaks of alone; the theorem names the run's property.

`ServicesProofs`:

* *MCP host* (any tools, configurations and escaping, any bounds).  `McpInv` adds to
  `McpContained` that the catalogue passed the filters (`FiltersHold`), that a spawn is
  under way only without an instance and for a tool of the catalogue (`SpawnsAlone`), and
  that the marker of a call is set exactly during one (`CallsAreMarked`): without the last,
  a block's timeout could leave a process running that no session owns.
* *Cursor passes* (any set of passes with the link inference among them).  That nothing
  below the cursor was passed by is not inductive: the cursor jumps to a head read earlier.
  `SweepCovers` says of a sweep under way that nothing was missed up to where it began,
  and that it holds all there is between there and its head, even after a boot reseeds the
  cursors under it.
* *Describer* (any memories, passes and scopes, any finite set of entries).  One inequality
  carries it: what was seen of a memory never lies past the seq at which it was described
  (`DescriberInv`), so a pass that looks again under the guard reads no change twice.
* *Indexer* (any entries, memories and embedding models).  `IndexInv` follows a key through
  a batch under way: what lives up to the cursor has its vector, and what lives up to the
  batch's end has it or gets it (`Kept`), and the same for what was removed (`Freed`).  The
  operations of a batch may be applied in any order and any part of them may be repeated
  after a crash; an entry is appended once, before anything retires it (`RetiredAfter`).
* *Genesis* (any builds, with any finite sets of prompts and words, any editors and
  wordings).  `BornOnce` and `BootReconciles` need that the log of an unborn agent holds
  only what an operator may set (`Unborn`), and that a forced edit exists only while no
  server runs.  What an operator set stands is an action property, proved from the same
  invariant: an append registers a prompt over a curated one only by an operator.

`ConnectorProofs`:

* *Blobs* (any contents with sizes, any limits).  `BlobInv` says that what a message names,
  recorded or about to be, is stored (`Held`), and that a collection runs alone and
  intends to delete nothing any message names (`SweepsApart`); replays then render what
  was shown.  A range that resolved is not empty (`RangeStands`).
* *Projections* (any number of attributes, any values, any number of faults, rows misread or
  not written among them).  `MirrorIsExact` is claimed between syncs.  `MirrorInv` extends
  it over a sync, in which an entry that is not lost is one a row names (`Written`) or one
  whose row is still to be written (`ToBeWritten`).  It needs that no two rows name one
  entry (`RowsDiffer`) and that an answer still to be written gives out entries nothing
  else names (`AnswersAreFresh`), which holds because the server's ids are new.
* *Connector* (any messages).  `NothingSaidIsLost` says that the slots of all batches of a
  channel and of the queue behind them hold each submitted message once, in order, with its
  files or a note of each.  It needs that a message is submitted by its own handler and only once,
  and that whatever waits has its callback (`Waiting`).  Each step is a map from the slots
  after it to the slots before it.

`TurnsProofs`:

* *Script handles* (any names, memories and queries).  `ScriptInv`: what a search surfaced
  is tainted by the name it bears, unless another block renamed it meanwhile; the excuse is the
  one the code leaves (section 5).
* *Fetches and embeddings* (any hosts and limits; any window, text and density).
  `FetchInv` adds that a literal host that is asked has been checked; `EmbedInv` that the
  next budget is below the last one and not below the floor.
* *Transcripts* (any people, rooms and reach).  `RoomInv` says that the audience the log
  tells of each record is who was there; `AudienceKept` alone says nothing of a log.

The only assumptions are those the modules name about their constants; TLC evaluates
them in the runs.  Each is what the code gives: sizes, versions and limits are naturals,
"absent" and "none" are no model and no mime type, what a database lists is finite, a
build's number is not the 0 that stands for no server.  An empty text is
taken never to be too long, so the loop at a window of zero (section 5) is not in the
model.  What is proved and not also run:
`OneTurnAtATime`, `CounterServesAHolder`, `EntryLivesWithHolders`, and the inductive
invariants, which TLC checked on the runs' instances before they were proved.

Only model-checked: of the invariants and action properties, `ClassesAreClosure`,
`AccountsFitTheirEntry`, `ConfidenceStands` and `SelfIsTheOperators` (what the fold of a
block's events computes), `RecallKeepsSecrets` (rankings and packing, which are folds
over data), `RaisedExactlyOnce` (the calendar scan), `TurnsEndWhole` (a prompt rebuilt and
a stream assembled piece by piece), `ReplicaIsExact` and `EvalsAreExact`.  Out of the
prover's reach are all liveness (it has no ENABLED), and what a fold computes for every
input, which needs induction over data.  No module declares a RECURSIVE operator, so that none is closed to proof.

## 5. Findings

1. **One failing flush stops the idle sweep** (`session_stuck`).  The error leaves
   `sweep_idle_sessions` through `?` and the order of the candidates never changes, so
   later rooms are never closed, against `instance/drivers.rs:157`.
2. **A kill inside an apply may make every later boot fail** (`graph_half_applied`).
   The plain INSERT arms conflict on replay, against `docs/events-and-storage.md:87`
   ("heals a graph left half-applied by a crash").  `progress` shows that the idempotent
   arms do heal, and `restart` that nothing wrong is *served*.
3. **Two blocks can create the same name** (`block_names`), after which no fold gets past
   the second create, against `memory/memory_block/writes.rs:19`.  `write_context` holds
   the graph guard to exclude just this for its own mints.
4. **A monthly recurrence can skip an instance** (`recurring_skip`).  The scan starts at
   an index computed with the *shortest* month, which
   `core/time/recurrence.rs:38` says never overshoots; it does, from 1 January asked
   after 28 February.
5. **A confirmed merge opens the self to conversations** (`self_merged`).  `confirm_merge`
   (`instance/control/actions.rs:517`) does not refuse the self, against
   `docs/maintenance-passes.md:78` ("refused under every authority").  A turn that then
   writes on the merged person reaches the self's entries through the class, since
   `guard_self` compares the addressed id, against `docs/trust-and-authority.md:22`.
6. **A reminder can be raised twice, or not at all** (`wake_ups`).  The drain reads under
   one lock and appends under another (`instance/session/lifecycle.rs:464`).  Two rooms
   that open at once raise the same item, as the run shows; and an instance that fires in
   between is covered by the surfaced mark of the earlier one, which the property's second
   conjunct alone shows.  `memory/scheduler.rs:11` and `instance/session/lifecycle.rs:461`
   say that each is raised once and never again.
7. **A projection can leave two live entries of one attribute** (`mirror_doubled`).  The rows
   are written after the answer, each by itself, a failed write is dropped
   (`discord/src/projection_sync.rs:244`) and a failed read counts as never written, against
   `discord/src/projection_sync.rs:7` ("keeps superseding in place rather than
   re-appending a duplicate").

Observations, met while modelling and not the subject of a run of their own.  Where a
property would fail on one, the property's comment says what it excuses.

*Sessions and the graph.*

* A revert cut short leaves commits that are never served.  The log is cut and its lock
  released before the graph is removed (`cli/debug/revert.rs:63`).  Stopped in between, the
  graph's head is past that of the log, `materialize_from` starts at head + 1, and what is
  committed under the seqs given again is counted and never folded, against
  `cli/debug/revert.rs:1` ("reset the derived stores so the next boot rebuilds at that
  point").  The command, run again, answers that there is nothing to revert.
  `CommittedIsServed` is the property that fails; `ServesEveryCommit` is the one checked.
* `PromptTurnKeepsItsSession` holds for turns that end within the gap.  A turn that
  outlives it can have its session closed by the sweep (under the lifecycle lock) and by
  its own compaction (under none): two `SessionEnded`.  `instance/session/lifecycle.rs:75` assumes every
  closer holds the lock.
* After a restart within the gap, a session that was seeded from a tail is closed and not
  resumed (`instance/session/lifecycle.rs:290`), where `docs/conversations-and-briefs.md:19` speaks of
  resuming.
* An exit prunes arrivals up to its own epoch, so a ticket dropped behind a waiting one
  removes that one's arrival too (`instance/turn_ledger.rs:299` says only those it covers).
* A kill while a snapshot is being copied into place leaves a graph boot gives up on
  (`snapshot.rs:75`), and one during `VACUUM INTO` leaves a partial file under the
  snapshot's final name (`instance/mod.rs:367`).
* Several probes may be out at once, and the re-drive of a back-off calls the backend also
  while the circuit is open.
* The Luau VM has no interrupt: a script that never awaits is not cut by the block timeout
  (`agent/lua/execute.rs:111`).  A script that catches `block.abort` commits.
* A turn whose client hung up is cut by the graceful stop; one still connected is awaited.

*Memory.*

* A capture attests the self.  An `append_dedup` that finds its text on the self
  corroborates it (`memory/memory_block/attest.rs:67`) without `guard_self`, which
  `docs/maintenance-passes.md:78` says blocks an attest.
* A rename of a person or of the operator's memory removes the anchor its guard compares
  with.
* A speaker may attest somebody's confidence and then supersede it, which retires it for
  its teller too; the guard asks only whether they stand behind it
  (`docs/trust-and-authority.md:18`).  `ConfidenceStands` says what does hold.
* A withdrawn public founding account still supplies the verdict of an entry's history
  (`core/visibility/mod.rs:119`).  An Exclude that names a deleted stub no longer matches
  its class.  `supersede(e, e)` is accepted.  `resolve_name` does not see renames pending
  in the block.
* Consolidation of equal entries drops the accounts of those who corroborated the
  absorbed one; the pass takes no memory lock over its model call, so a turn may write to
  what it absorbs (`docs/maintenance-passes.md:76`).
* Deleting a room keeps its name taken (`core/graph/schema.sql:14`).
* A connector's write takes no memory lock, so it may fall between a block's merged read
  and its commit; `BlocksAreSerial` is about what agents wrote.  An append locks the
  handle's stub and lands on the class's primary.

*Recall and search.*

* The taint is kept by name, so a rename that another block commits between search and
  write launders it (`agent/lua/runtime/mod.rs:67`); tags, volatility, merge proposals and
  `links.remove` are not guarded.
* Relationships are deduplicated by (relation, neighbour) without direction, where
  `core/graph/links.rs:218` says every consumer also takes the direction.  A former name folded into
  the search text, "never displayed" (`core/graph/apply/memory_events.rs:66`), can be the snippet.  A
  superseded entry may be one too (`core/graph/apply/memory_events.rs:227`).
* The order in which those present are introduced, and the recency bonus, use entries
  hidden from them.
* The trace marks the current room's entries as having reached the brief
  (`core/brief/traced.rs:92`); the room's block shows none.

*Turns and passes.*

* A re-sent exchange does not reproduce the live one byte for byte
  (`agent/turn/run.rs:369`) when a step made several calls, called an unknown tool or a
  tool with arguments that do not parse, or the clock moved between the two stamps;
  `PlainTurnReplays` is about the others.
* `agent/turn/recording.rs:609` and `agent/turn/buffer.rs:166` place the seam of a superseded turn after the
  interrupting message; the winner records its messages inside its own slot, after the
  seam.  A superseded or deferred turn's blocks are not replayed, though the seam says
  the work recorded above stands.
* `carryover_start` may keep a reply without its question.
* A withdrawal not yet folded when the driver
  fires leaves a firing on an entry with no date.
* An entry committed while the model writes the description is covered by the completion
  (`core/graph/describe.rs:18`) and is described only when the memory changes again; a
  retraction makes nothing stale.  Records of maintenance count as the activity their
  own gates measure.  A boot drops the windows pending before it, as documented.

*Around the server.*

* The control surface serves before birth.  A prompt edited then is version 1 by the
  operator and is overridden by a default of a higher version; settings set then keep the
  rollout from deriving the compaction budget.  Two racing edits of a prompt share a
  version (`instance/control/actions.rs:253`).  A PUT of settings replaces the whole snapshot.  New
  seed relations and tags of a later build never reach an existing agent.
* After a call's timeout or the server's exit the dead MCP instance stays in the session's
  map, so later calls of that session fail, where `mcp/client.rs:14` and
  `docs/agent-loop.md:262` say the next call spawns afresh.
* The prompt digest never verifies for a turn's last step, whose withdrawn tools no delta
  records (`agent/turn/recording.rs:443`), where `core/event/mod.rs:518` says a mismatch is a
  divergence.  `src/console/src/lib/api/live.ts:118` appends polls without deduplicating by seq.
* A context length of zero makes `embed_truncated` loop.
* The connector's handlers run concurrently, so two messages may be submitted in either
  order (`discord/src/bot/handler.rs:311`); a request that fails skips the stop of the typing
  indicator (`discord/src/bot/process.rs:107`); the README says only the latest message of a channel is
  forwarded, while the queue is.  `GuildSync` marks a guild before the call
  (`discord/src/guild_sync.rs:8`).
* A kill can lose completed evaluation runs.  A record and its newline are two writes, and
  a torn line makes the whole sidecar unreadable (`eval/live/resume.rs:71`); a kill while a
  heal seeds the sidecar leaves a part of the package in its place.  `eval/live/mod.rs:215`
  says that a kill never loses a completed run.  `ResultsSurvive` is the property that
  fails; `EvalsAreExact` holds `RunsAreKept`, which excuses these two places.
* A suite killed after the history line and before the sidecar is removed writes that
  line twice; an empty sidecar cannot be resumed.

## 6. Not modelled, and hazards without a property

* *Power loss.*  Both databases run WAL with `synchronous=NORMAL` (`core/db.rs:34`), so a
  power loss may roll back committed transactions of one and not of the other.  What a
  rolled-back log means for the derived stores is a fault model of the file system, not of
  this code; kills of the process are modelled everywhere.
* *Races the code concedes*: a connector's projection between a block's merged read and
  its commit (`instance/platform/projection.rs:146`); a revert that releases the log's lock
  before it removes the graph (`cli/debug/revert.rs:64`); scripts that never await.
* *Data*: prompts, templates, wording and rendering, Lua argument parsing and teaching
  errors, similarity and decay scores (real arithmetic), wire encodings, evaluation
  scenarios and oracles, the console's views, generated types, metrics.  The models keep
  what the control depends on and leave the rest open.
* *Environment*: SQLite, tokio, the model, Discord, MCP servers and DNS are modelled by
  what the code may observe of them.

## 7. Plan

1. Proofs: `AccountsFitTheirEntry` of `MemoryWrites`, whose folds over a block's events have
   to become recursive functions first; `OneEnding` of `TurnLoop`; `StreamIsContiguous` of
   `HttpServer`.
2. An abstract served log (append, serve a prefix, crash) implemented by `DerivedGraph`,
   and `BlockExecution`'s commits as its appends.
3. A turn of `TurnLoop` in the slot of `TurnLedger`, so that the verdicts of supersession
   come from the ledger and not from a choice.
