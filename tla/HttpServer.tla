----------------------------- MODULE HttpServer -----------------------------
(***************************************************************************)
(* The server process: the boot that may fail at each thing it opens, the  *)
(* tasks it starts, the routes with their keys, the event stream of the    *)
(* control surface, the turn behind a platform message, and the graceful   *)
(* stop that waits for them.  The log is a count of committed events.      *)
(***************************************************************************)
EXTENDS Integers, Sequences, FiniteSets

CONSTANTS
    Client,         \* consoles that follow the event stream
    Capacity,       \* of the broadcast channel behind the stream
    MaxLog,         \* bound: events committed
    MaxConnects     \* bound: connections opened

VARIABLES
    config,         \* what the configuration file asks for
    phase,          \* how far the process is
    step,           \* the next thing the boot opens
    running,        \* tasks not yet awaited, in the order they will be
    signal,         \* the shutdown flag
    log,            \* events committed
    feed,           \* committed events the fan-out thread has not taken
    sent,           \* events broadcast to the streams, all of them
    stream,         \* each console's connection
    got,            \* events each console has received, over all connections
    exchange,       \* the platform request under way and its turn
    connects

vars == <<config, phase, step, running, signal, log, feed, sent, stream, got,
          exchange, connects>>

Config == [model : BOOLEAN, embedding : BOOLEAN, snapshots : BOOLEAN, readOnly : BOOLEAN]

-----------------------------------------------------------------------------
(* Boot.                                                                   *)

Where(condition, steps) == IF condition THEN steps ELSE << >>

\* What a boot opens, in order; each may fail, and then the process exits.
ReadOnlySteps == <<"log", "graph">> \o Where(config.embedding, <<"vectors">>) \o <<"blobs">>
ServeSteps ==
    <<"log">> \o Where(config.snapshots, <<"restore">>) \o <<"graph">>
      \o Where(config.embedding, <<"vectors">>)
      \o Where(config.model, <<"context length">>)
      \o <<"blobs", "boot", "reembed", "mcp", "settings", "web">>
BootSteps == IF config.readOnly THEN ReadOnlySteps ELSE ServeSteps

Tasks ==
    IF config.readOnly THEN << >>
    ELSE <<"scheduler", "indexer">>
           \o Where(config.model, <<"describer", "link inference", "maintenance",
                                    "sweeper", "checkpoint sweeper">>)
           \o Where(config.snapshots, <<"snapshotter">>)

Off == [pc |-> "off", next |-> 1, last |-> 0, pending |-> << >>]
NoExchange == [open |-> FALSE, turn |-> "none"]

Init ==
    /\ config \in Config
    /\ phase = "boot"
    /\ step = 1
    /\ running = << >>
    /\ signal = FALSE
    /\ log = 1
    /\ feed = << >>
    /\ sent = << >>
    /\ stream = [c \in Client |-> Off]
    /\ got = [c \in Client |-> << >>]
    /\ exchange = NoExchange
    /\ connects = 0

Opens ==
    /\ phase = "boot"
    /\ step <= Len(BootSteps)
    /\ \/ step' = step + 1 /\ UNCHANGED phase
       \/ phase' = "failed" /\ UNCHANGED step
    /\ UNCHANGED <<config, running, signal, log, feed, sent, stream, got, exchange,
                   connects>>

\* The tasks are started before the listener, and before the stream's fan-out
\* subscribes to the log.
Spawns ==
    /\ phase = "boot"
    /\ step > Len(BootSteps)
    /\ phase' = "spawned"
    /\ running' = Tasks
    /\ UNCHANGED <<config, step, signal, log, feed, sent, stream, got, exchange,
                   connects>>

Listens ==
    /\ phase = "spawned"
    /\ phase' \in {"serving", "failed"}
    /\ UNCHANGED <<config, step, running, signal, log, feed, sent, stream, got, exchange,
                   connects>>

-----------------------------------------------------------------------------
(* Commits and the feed.  A read-only store has no subscriber.             *)

Live == phase \in {"serving", "closing", "awaiting"}

Commits ==
    /\ log < MaxLog
    /\ log' = log + 1
    /\ feed' = IF Live THEN Append(feed, log + 1) ELSE feed

TaskCommits ==
    /\ running # << >>
    /\ phase # "failed"
    /\ Commits
    /\ UNCHANGED <<config, phase, step, running, signal, sent, stream, got, exchange,
                   connects>>

FanOut ==
    /\ Live
    /\ feed # << >>
    /\ sent' = Append(sent, Head(feed))
    /\ feed' = Tail(feed)
    /\ UNCHANGED <<config, phase, step, running, signal, log, stream, got, exchange,
                   connects>>

-----------------------------------------------------------------------------
(* The event stream.                                                       *)

StreamIs(c, s) == stream' = [stream EXCEPT ![c] = s]

Gets(c, e) == got' = [got EXCEPT ![c] = Append(@, e)]

Quiet == UNCHANGED <<config, phase, step, running, signal, log, feed, sent, exchange>>

\* The console asks from the event after the last one it has.
From(c) == IF got[c] = << >> THEN 0 ELSE got[c][Len(got[c])] + 1

\* The live subscription is taken first ...
Connect(c) ==
    /\ phase = "serving"
    /\ stream[c].pc = "off"
    /\ connects < MaxConnects
    /\ connects' = connects + 1
    /\ StreamIs(c, [Off EXCEPT !.pc = "subscribed", !.next = Len(sent) + 1])
    /\ UNCHANGED got
    /\ Quiet

\* ... and then what is in the log already is read.
ReadSnapshot(c) ==
    /\ stream[c].pc = "subscribed"
    /\ LET first == IF From(c) = 0 THEN 1 ELSE From(c)
           some == first <= log
       IN StreamIs(c, [stream[c] EXCEPT
             !.pc = "live",
             !.last = IF some THEN log ELSE first - 1,
             !.pending = IF some THEN [i \in 1..(log + 1 - first) |-> first + i - 1]
                                 ELSE << >>])
    /\ UNCHANGED <<got, connects>>
    /\ Quiet

YieldSnapshot(c) ==
    /\ stream[c].pending # << >>
    /\ Gets(c, Head(stream[c].pending))
    /\ StreamIs(c, [stream[c] EXCEPT !.pending = Tail(@)])
    /\ UNCHANGED connects
    /\ Quiet

Waiting(c) == stream[c].pc = "live" /\ stream[c].pending = << >>
IsBehind(c) == Len(sent) + 1 - stream[c].next > Capacity

Receive(c) ==
    /\ Waiting(c)
    /\ ~IsBehind(c)
    /\ stream[c].next <= Len(sent)
    /\ LET e == sent[stream[c].next]
           fresh == e > stream[c].last
       IN /\ StreamIs(c, [stream[c] EXCEPT !.next = @ + 1, !.last = IF fresh THEN e ELSE @])
          /\ IF fresh THEN Gets(c, e) ELSE UNCHANGED got
    /\ UNCHANGED connects
    /\ Quiet

\* A console that fell behind is told to connect again.
Lagged(c) ==
    /\ Waiting(c)
    /\ IsBehind(c)
    /\ StreamIs(c, Off)
    /\ UNCHANGED <<got, connects>>
    /\ Quiet

\* Mutant: the stream does not watch the flag.
StreamGoesOn(c) == FALSE /\ UNCHANGED vars

EndsAtShutdown(c) ==
    /\ Waiting(c)
    /\ signal
    /\ StreamIs(c, Off)
    /\ UNCHANGED <<got, connects>>
    /\ Quiet

Disconnect(c) ==
    /\ stream[c].pc # "off"
    /\ connects < MaxConnects
    /\ connects' = connects + 1
    /\ StreamIs(c, Off)
    /\ UNCHANGED got
    /\ Quiet

-----------------------------------------------------------------------------
(* Requests.                                                               *)

Request ==
    LET asks(surface, kinds) == [surface : {surface}, kind : kinds, loopback : BOOLEAN,
                                 key : {"none", "control", "connector"}]
    IN asks("control", {"read", "write", "model", "snapshot"})
         \cup asks("platform", {"read", "write", "message"})

Admitted(r) ==
    IF r.surface = "control" THEN r.loopback \/ r.key = "control"
    ELSE r.key = "connector" \/ (r.key = "none" /\ r.loopback)

ReadOnlyRefuses(r) == config.readOnly /\ r.kind # "read"

\* The keys are checked before the mode, and both before the handler.
Status(r) ==
    IF ~Admitted(r) THEN 401
    ELSE IF ReadOnlyRefuses(r) THEN 409
    ELSE IF r.kind \in {"model", "message"} /\ ~config.model THEN 503
    ELSE IF r.kind = "snapshot" /\ ~config.snapshots THEN 409
    ELSE 200

\* A handler that writes does so in one commit; one that only reads, or is
\* refused, leaves everything as it is.
Ask(r) ==
    /\ phase = "serving"
    /\ r.kind \in {"write", "model"}
    /\ Status(r) = 200
    /\ Commits
    /\ UNCHANGED <<config, phase, step, running, signal, sent, stream, got, exchange, connects>>

\* A message's turn is a task of its own.
Message(r) ==
    /\ phase = "serving"
    /\ r.kind = "message"
    /\ Status(r) = 200
    /\ exchange = NoExchange
    /\ connects < MaxConnects
    /\ connects' = connects + 1
    /\ exchange' = [open |-> TRUE, turn |-> "running"]
    /\ UNCHANGED <<config, phase, step, running, signal, log, feed, sent, stream, got>>

TurnCommits ==
    /\ exchange.turn = "running"
    /\ phase # "stopped"
    /\ Commits
    /\ UNCHANGED <<config, phase, step, running, signal, sent, stream, got, exchange,
                   connects>>

ExchangeIs(e) ==
    /\ exchange' = e
    /\ UNCHANGED <<config, phase, step, running, signal, log, feed, sent, stream, got,
                   connects>>

TurnEnds ==
    /\ exchange.turn = "running"
    /\ phase # "stopped"
    /\ ExchangeIs([exchange EXCEPT !.turn = IF exchange.open THEN "done" ELSE "none"])

Respond ==
    /\ exchange.open
    /\ exchange.turn = "done"
    /\ ExchangeIs(NoExchange)

\* The connector is gone: its turn goes on without it.
HangUp ==
    /\ exchange.open
    /\ ExchangeIs(IF exchange.turn = "done" THEN NoExchange ELSE [exchange EXCEPT !.open = FALSE])

-----------------------------------------------------------------------------
(* The stop.                                                               *)

PhaseIs(p) ==
    /\ phase' = p
    /\ UNCHANGED <<config, step, running, log, feed, sent, stream, got, exchange,
                   connects>>

Signal ==
    /\ ~signal
    /\ phase \in {"spawned", "serving"}
    /\ signal' = TRUE
    /\ PhaseIs(phase)

StopsListening == phase = "serving" /\ signal /\ PhaseIs("closing") /\ UNCHANGED signal

\* Connections are waited for, however long they last.
Drained ==
    /\ phase = "closing"
    /\ ~exchange.open
    /\ \A c \in Client : stream[c].pc = "off"
    /\ PhaseIs("awaiting")
    /\ UNCHANGED signal

AwaitTask ==
    /\ phase = "awaiting"
    /\ running # << >>
    /\ running' = Tail(running)
    /\ UNCHANGED <<config, phase, step, signal, log, feed, sent, stream, got, exchange,
                   connects>>

\* The MCP servers are stopped and the process ends; a turn nobody waits for
\* ends with it.
Stops ==
    /\ phase = "awaiting"
    /\ running = << >>
    /\ PhaseIs("stopped")
    /\ UNCHANGED signal

Streams(c) ==
    ReadSnapshot(c) \/ YieldSnapshot(c) \/ Receive(c) \/ Lagged(c) \/ EndsAtShutdown(c)

Stopping == StopsListening \/ Drained \/ AwaitTask \/ Stops

Next ==
    \/ Opens \/ Spawns \/ Listens \/ TaskCommits \/ FanOut
    \/ \E c \in Client : Connect(c) \/ Streams(c) \/ Disconnect(c)
    \/ \E r \in Request : Ask(r) \/ Message(r)
    \/ TurnCommits \/ TurnEnds \/ Respond \/ HangUp
    \/ Signal \/ Stopping

\* Tasks that can run do; nobody has to connect, ask or stop the server.
Fairness ==
    /\ WF_vars(Opens) /\ WF_vars(Spawns) /\ WF_vars(Listens)
    /\ WF_vars(FanOut) /\ WF_vars(Stopping)
    /\ WF_vars(TurnEnds) /\ WF_vars(Respond)
    /\ \A c \in Client : WF_vars(Streams(c))

Spec == Init /\ [][Next]_vars /\ Fairness

-----------------------------------------------------------------------------
(* Properties.                                                             *)

\* A console has every event once and in order, across the cut between
\* snapshot and live feed, lag and reconnection (events_stream).
StreamIsContiguous == \A c \in Client : \A i \in DOMAIN got[c] : got[c][i] = i

\* Once the operator stops it the process ends, whatever is connected
\* (serve_until_shutdown, events_stream).
ShutdownEnds == signal ~> phase \in {"stopped", "failed"}
=============================================================================
