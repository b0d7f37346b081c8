---------------------------- MODULE DerivedGraph ----------------------------
(***************************************************************************)
(* The event log, the graph materialized from it, and the snapshots of     *)
(* that graph: the commit of a writer (append, then materialize), the boot *)
(* that restores, opens and catches the graph up, the snapshotter, and the *)
(* operator's offline commands, with crashes between any two statements.   *)
(*                                                                         *)
(* The log is one database and the graph another.  An append is one        *)
(* transaction of the log.  An apply is NOT one transaction of the graph:  *)
(* every statement of an event's arm commits by itself, and the head is    *)
(* advanced by a statement of its own.  So a statement is a step here.     *)
(*                                                                         *)
(* An event is abstracted to what its arm does when it is folded:          *)
(*   "quiet"  no statement (ConversationTurn, LuaExecuted, ModelCalled);   *)
(*   "write"  one idempotent statement, last writer wins (the UPDATE,      *)
(*            upsert, INSERT OR IGNORE and DELETE arms);                   *)
(*   "insert" a plain INSERT of a new row and a second statement that      *)
(*            depends on it (MemoryCreated, MemoryContentAppended,         *)
(*            SessionStarted, TagCreated).                                 *)
(* What is idempotent is an arm's effect on the base tables: the rows that *)
(* MemoryRenamed and MemoryContentAppended add to the full-text table are  *)
(* left out, and a second run of those arms would add them again.          *)
(***************************************************************************)
EXTENDS Integers, Sequences, FiniteSets, FiniteSetsExt, TLC

CONSTANTS
    Writers,     \* the tasks that commit: blocks, passes, drivers, routes
    Nobody,      \* nobody, and no event
    Boot,        \* the boot, when it materializes
    Driver,      \* the background snapshotter
    Operator,    \* POST /control/snapshot
    EventKinds,  \* the kinds of event the writers append
    MinNew,      \* min_new_events of the snapshot schedule
    Keep,        \* keep of the snapshot schedule
    TornApply,   \* may a crash strike inside the apply of an event?
    Errs,        \* may a statement of an apply fail?
    TornFiles,   \* may a crash strike while a database file is being written?
    TornRevert,  \* may a revert stop between its steps?
    MaxEvents,   \* bound: events ever appended
    MaxBatch,    \* bound: events of one append
    MaxFaults,   \* bound: kills, failed statements and reverts cut short
    MaxOps       \* bound: offline commands and new builds

ASSUME DerivedGraphAssumption ==
    /\ EventKinds \subseteq {"quiet", "write", "insert"}
    /\ {MinNew, Keep, MaxEvents, MaxBatch, MaxFaults, MaxOps} \subseteq Nat
    /\ {TornApply, Errs, TornFiles, TornRevert} \subseteq BOOLEAN
    /\ {Nobody, Boot, Driver, Operator} \cap Writers = {}
    /\ Boot # Nobody /\ Driver \notin {Nobody, Boot}
    /\ Operator \notin {Nobody, Boot, Driver}

VARIABLES
    events,    \* the events table, in seq order
    graph,     \* the file at the graph path
    snaps,     \* snaps[h]: the file snapshot-h, Absent when there is none
    phase,     \* where the process stands: down, booting, up
    bootErr,   \* why the last boot gave up
    graphLock, \* the graph lock: who holds it, statements done of the event
    wpc,       \* wpc[w]: "idle", "appended" until it has materialized, or
               \* "failed" when its last commit returned an error
    mark,      \* mark[w]: the seq of the last event of the commit of w
    snapper,   \* the snapshotter: idle, due, prune
    revert,    \* the revert command: idle, or the step it is at and its seq
    build,     \* the schema fingerprint of the installed binary
    acked,     \* the highest seq whose commit returned
    spent      \* how much of each bound is spent

graphVars ==
    <<events, graph, snaps, phase, bootErr, graphLock, wpc, mark, snapper,
      revert, build, acked, spent>>

server == <<phase, bootErr, graphLock, wpc, mark, snapper>>
disk == <<events, graph, snaps>>

Seqs == 0..MaxEvents
Ids == 1..MaxEvents
Event == [id : Ids, kind : {"quiet", "write", "insert"}]
\* ok: a readable graph; bare: a file without a meta table, as an empty file
\* or a reset under way leaves it; torn: a file SQLite cannot read.
Graph == [st : {"absent", "ok", "bare", "torn"}, schema : Nat, head : Seqs,
          rows : SUBSET (Ids \X {1, 2}), cell : Ids \cup {Nobody}]
Phases == {"down", "restore", "copy", "open", "reset", "reconcile",
           "catchup", "up"}
Errors == {"none", "nohead", "unreadable", "conflict", "statement"}
Holders == Writers \cup {Boot, Driver, Operator}
Lock == [by : Holders \cup {Nobody}, done : 0..2]
Revert == [at : {"idle", "graph", "snaps"}, to : Seqs]

File(st) == [st |-> st, schema |-> 0, head |-> 0, rows |-> {},
             cell |-> Nobody]
Absent == File("absent")
NewGraph(b) == [File("ok") EXCEPT !.schema = b]
Free == [by |-> Nobody, done |-> 0]
NoRevert == [at |-> "idle", to |-> 0]

GraphInit ==
    /\ events = <<>>
    /\ graph = Absent
    /\ snaps = [h \in Seqs |-> Absent]
    /\ phase = "down"
    /\ bootErr = "none"
    /\ graphLock = Free
    /\ wpc = [w \in Writers |-> "idle"]
    /\ mark = [w \in Writers |-> 0]
    /\ snapper = "idle"
    /\ revert = NoRevert
    /\ build = 1
    /\ acked = 0
    /\ spent = [events |-> 0, kills |-> 0, failures |-> 0, cuts |-> 0, ops |-> 0]

-----------------------------------------------------------------------------
(* The log.                                                                *)

\* A batch takes the seqs after MAX(seq); fresh ids tell an event from the
\* one that held its seq before a revert.
LogWith(kinds) ==
    events \o [i \in 1..Len(kinds) |->
              [id |-> spent.events + i, kind |-> kinds[i]]]

Room(n) == spent.events + n <= MaxEvents
MayFail == spent.kills + spent.failures + spent.cuts < MaxFaults
Spent(n) == spent' = [spent EXCEPT !.events = @ + n]

-----------------------------------------------------------------------------
(* The materializer.                                                       *)

Statements(e) == CASE e.kind = "quiet" -> 0
                   [] e.kind = "write" -> 1
                   [] e.kind = "insert" -> 2

\* The effect of statement k of the arm of e.
Effect(g, e, k) ==
    IF e.kind = "write" THEN [g EXCEPT !.cell = e.id]
                        ELSE [g EXCEPT !.rows = @ \cup {<<e.id, k>>}]

\* The plain INSERT of a row that is there already: a primary-key violation.
Conflict(g, e, k) == e.kind = "insert" /\ <<e.id, k>> \in g.rows

NextEvent == events[graph.head + 1]

(* Mutated: the catch-up stops one event short.                            *)
BehindByTwo == graph.head + 1 < Len(events)

Behind == graph.head < Len(events)
Materializing == graphLock.by \in Writers \cup {Boot}

\* materialize_from holds the graph lock and the store lock to its end, so
\* only a crash comes between two statements.
ApplyStatement ==
    /\ Materializing /\ Behind
    /\ graphLock.done < Statements(NextEvent)
    /\ ~Conflict(graph, NextEvent, graphLock.done + 1)
    /\ graph' = Effect(graph, NextEvent, graphLock.done + 1)
    /\ graphLock' = [graphLock EXCEPT !.done = @ + 1]
    /\ UNCHANGED <<events, snaps, phase, bootErr, wpc, mark, snapper, revert,
                   build, acked, spent>>

AdvanceHead ==
    /\ Materializing /\ Behind
    /\ graphLock.done = Statements(NextEvent)
    /\ graph' = [graph EXCEPT !.head = @ + 1]
    /\ graphLock' = [graphLock EXCEPT !.done = 0]
    /\ UNCHANGED <<events, snaps, phase, bootErr, wpc, mark, snapper, revert,
                   build, acked, spent>>

\* The boot that cannot continue exits the process; a writer's commit
\* returns an error, and what it appended stays in the log.
GivesUp(err) ==
    /\ graphLock' = Free
    /\ IF graphLock.by = Boot
       THEN /\ phase' = "down"
            /\ bootErr' = err
            /\ UNCHANGED <<wpc, mark>>
       ELSE /\ wpc' = [wpc EXCEPT ![graphLock.by] = "failed"]
            /\ mark' = [mark EXCEPT ![graphLock.by] = 0]
            /\ UNCHANGED <<phase, bootErr>>
    /\ UNCHANGED <<events, graph, snaps, snapper, revert, build, acked>>

ApplyConflicts ==
    /\ Materializing /\ Behind
    /\ graphLock.done < Statements(NextEvent)
    /\ Conflict(graph, NextEvent, graphLock.done + 1)
    /\ GivesUp("conflict")
    /\ UNCHANGED spent

\* A statement fails (disk full, an I/O error): the ones before it stay.
ApplyFails ==
    /\ Materializing /\ Behind
    /\ Errs /\ MayFail
    /\ spent' = [spent EXCEPT !.failures = @ + 1]
    /\ GivesUp("statement")

MaterializeDone ==
    /\ Materializing /\ ~Behind
    /\ graphLock' = Free
    /\ IF graphLock.by = Boot
       THEN /\ phase' = "up"
            /\ bootErr' = "none"
            /\ UNCHANGED <<wpc, mark, acked>>
       ELSE /\ wpc' = [wpc EXCEPT ![graphLock.by] = "idle"]
            /\ mark' = [mark EXCEPT ![graphLock.by] = 0]
            /\ acked' = Max({acked, mark[graphLock.by]})
            /\ UNCHANGED <<phase, bootErr>>
    /\ UNCHANGED <<events, graph, snaps, snapper, revert, build, spent>>

-----------------------------------------------------------------------------
(* A writer's commit: append under the store lock, release it, then take   *)
(* the graph lock and the store lock to materialize.  While a materializer *)
(* holds the store lock no append starts.                                  *)

Commit(w) ==
    /\ phase = "up" /\ wpc[w] # "appended"
    /\ ~Materializing
    /\ \E n \in 1..MaxBatch : \E kinds \in [1..n -> EventKinds] :
         /\ Room(n)
         /\ events' = LogWith(kinds)
         /\ mark' = [mark EXCEPT ![w] = Len(events) + n]
         /\ Spent(n)
    /\ wpc' = [wpc EXCEPT ![w] = "appended"]
    /\ UNCHANGED <<graph, snaps, phase, bootErr, graphLock, snapper, revert,
                   build, acked>>

Materialize(w) ==
    /\ phase = "up" /\ wpc[w] = "appended"
    /\ graphLock = Free
    /\ graphLock' = [by |-> w, done |-> 0]
    /\ UNCHANGED <<events, graph, snaps, phase, bootErr, wpc, mark, snapper,
                   revert, build, acked, spent>>

-----------------------------------------------------------------------------
(* Snapshots.                                                              *)

Heads == {h \in Seqs : snaps[h] # Absent}
LatestHead == IF Heads = {} THEN 0 ELSE Max(Heads)

\* The keep newest, and never fewer than one.
Pruned(keep) ==
    [h \in Seqs |->
       IF Cardinality({k \in Heads : k > h}) < Max({keep, 1})
       THEN snaps[h] ELSE Absent]

\* The driver's tick: enough events since the newest snapshot?  The graph
\* lock is released between this look at the head and the snapshot itself.
SnapshotDue ==
    /\ phase = "up" /\ snapper = "idle" /\ graphLock = Free
    /\ graph.head - LatestHead >= MinNew
    /\ snapper' = "due"
    /\ UNCHANGED <<disk, phase, bootErr, graphLock, wpc, mark, revert, build,
                   acked, spent>>

\* Whether p is about to call snapshot().
Snapshotting(p) == p = Operator \/ (p = Driver /\ snapper = "due")

\* The graph lock is held across the whole VACUUM INTO.
SnapshotBegin(p) ==
    /\ phase = "up" /\ Snapshotting(p)
    /\ graphLock = Free
    /\ snaps[graph.head] = Absent
    /\ snaps' = [snaps EXCEPT ![graph.head] = File("torn")]
    /\ graphLock' = [by |-> p, done |-> 0]
    /\ UNCHANGED <<events, graph, phase, bootErr, wpc, mark, snapper, revert,
                   build, acked, spent>>

SnapshotEnd(p) ==
    /\ graphLock.by = p
    /\ snaps' = [snaps EXCEPT ![graph.head] = graph]
    /\ graphLock' = Free
    /\ snapper' = IF p = Driver THEN "prune" ELSE snapper
    /\ UNCHANGED <<events, graph, phase, bootErr, wpc, mark, revert, build,
                   acked, spent>>

\* The file exists: None is returned, and nothing is pruned.
SnapshotExists ==
    /\ phase = "up" /\ snapper = "due" /\ graphLock = Free
    /\ snaps[graph.head] # Absent
    /\ snapper' = "idle"
    /\ UNCHANGED <<disk, phase, bootErr, graphLock, wpc, mark, revert, build,
                   acked, spent>>

SnapshotPrune ==
    /\ phase = "up" /\ snapper = "prune"
    /\ snaps' = Pruned(Keep)
    /\ snapper' = "idle"
    /\ UNCHANGED <<events, graph, phase, bootErr, graphLock, wpc, mark, revert,
                   build, acked, spent>>

-----------------------------------------------------------------------------
(* The boot.                                                               *)

\* The log is opened and its writer lock taken.  The operator does not start
\* the server while a revert runs.
BootLock ==
    /\ phase = "down" /\ revert = NoRevert
    /\ phase' = "restore"
    /\ UNCHANGED <<disk, bootErr, graphLock, wpc, mark, snapper, revert, build,
                   acked, spent>>

BootFails(err) ==
    /\ phase' = "down"
    /\ bootErr' = err
    /\ UNCHANGED <<disk, graphLock, wpc, mark, snapper, revert, build, acked,
                   spent>>

\* read_graph_head: an absent file reads as 0, a file without a meta table
\* or one that SQLite cannot read is an error.
HeadReadable == graph.st \in {"absent", "ok"}

\* The newest snapshot leads the graph on disk.
Stale == LatestHead > graph.head

RestoreFails ==
    /\ phase = "restore" /\ Heads # {} /\ ~HeadReadable
    /\ BootFails("nohead")

RestoreSkips ==
    /\ phase = "restore"
    /\ Heads = {} \/ (HeadReadable /\ ~Stale)
    /\ phase' = "open"
    /\ UNCHANGED <<disk, bootErr, graphLock, wpc, mark, snapper, revert, build,
                   acked, spent>>

\* The WAL siblings go, and fs::copy truncates the graph before it writes.
RestoreBegin ==
    /\ phase = "restore" /\ Heads # {} /\ HeadReadable /\ Stale
    /\ phase' = "copy"
    /\ graph' \in {File("bare"), File("torn")}
    /\ UNCHANGED <<events, snaps, bootErr, graphLock, wpc, mark, snapper, revert,
                   build, acked, spent>>

RestoreEnd ==
    /\ phase = "copy"
    /\ phase' = "open"
    /\ graph' = snaps[LatestHead]
    /\ UNCHANGED <<events, snaps, bootErr, graphLock, wpc, mark, snapper, revert,
                   build, acked, spent>>

(* Mutated: a graph of another build's schema is kept.                     *)
KeepsSchema == graph.st = "ok"

\* guard_schema: the stamp of the file is this build's.
SchemaMatches == graph.st = "ok" /\ graph.schema = build

OpenGraph ==
    /\ phase = "open" /\ SchemaMatches
    /\ phase' = "reconcile"
    /\ UNCHANGED <<disk, bootErr, graphLock, wpc, mark, snapper, revert, build,
                   acked, spent>>

CannotOpen ==
    /\ phase = "open" /\ graph.st = "torn"
    /\ BootFails("unreadable")

\* An absent, unstamped or foreign graph: every table is dropped ...
OpenResets ==
    /\ phase = "open" /\ graph.st # "torn" /\ ~SchemaMatches
    /\ phase' = "reset"
    /\ graph' = File("bare")
    /\ UNCHANGED <<events, snaps, bootErr, graphLock, wpc, mark, snapper, revert,
                   build, acked, spent>>

\* ... and the schema is created again and stamped.
ResetEnd ==
    /\ phase = "reset"
    /\ phase' = "reconcile"
    /\ graph' = NewGraph(build)
    /\ UNCHANGED <<events, snaps, bootErr, graphLock, wpc, mark, snapper, revert,
                   build, acked, spent>>

\* reconcile_templates appends the templates this build has changed, if any,
\* before the graph is caught up.
Reconcile ==
    /\ phase = "reconcile"
    /\ \E n \in {0, 1} :
         /\ Room(n)
         /\ events' = LogWith([i \in 1..n |-> "quiet"])
         /\ Spent(n)
    /\ phase' = "catchup"
    /\ graphLock' = [by |-> Boot, done |-> 0]
    /\ UNCHANGED <<graph, snaps, bootErr, wpc, mark, snapper, revert, build,
                   acked>>

-----------------------------------------------------------------------------
(* The operator, with the server down.                                     *)

Operates ==
    /\ phase = "down" /\ revert = NoRevert
    /\ spent.ops < MaxOps

\* retract, clear-occurrence, delete-memory: one event is appended to the
\* log, and the next boot folds it.
OfflineAppend ==
    /\ Operates /\ Room(1)
    /\ events' = LogWith(<<"write">>)
    /\ spent' = [spent EXCEPT !.events = @ + 1, !.ops = @ + 1]
    /\ UNCHANGED <<graph, snaps, server, revert, build, acked>>

\* The graph can be deleted and rebuilt at any time.
DeleteGraph ==
    /\ Operates /\ graph # Absent
    /\ graph' = Absent
    /\ spent' = [spent EXCEPT !.ops = @ + 1]
    /\ UNCHANGED <<events, snaps, server, revert, build, acked>>

\* A binary with another projection schema is installed.
Upgrade ==
    /\ Operates
    /\ build' = build + 1
    /\ spent' = [spent EXCEPT !.ops = @ + 1]
    /\ UNCHANGED <<disk, server, revert, acked>>

\* debug revert: the log is cut and its lock released; the graph file goes;
\* the snapshots past the cut go.
RevertTruncate ==
    /\ Operates
    /\ \E to \in 0..(Len(events) - 1) :
         /\ events' = SubSeq(events, 1, to)
         /\ revert' = [at |-> "graph", to |-> to]
         /\ acked' = Min({acked, to})
    /\ spent' = [spent EXCEPT !.ops = @ + 1]
    /\ UNCHANGED <<graph, snaps, server, build>>

RevertGraph ==
    /\ revert.at = "graph"
    /\ graph' = Absent
    /\ revert' = [revert EXCEPT !.at = "snaps"]
    /\ UNCHANGED <<events, snaps, server, build, acked, spent>>

(* Mutated: a snapshot just past the revert point is kept.                 *)
DiscardAfterNext(to) ==
    [h \in Seqs |-> IF h > to + 1 THEN Absent ELSE snaps[h]]

DiscardAfter(to) == [h \in Seqs |-> IF h > to THEN Absent ELSE snaps[h]]

RevertSnaps ==
    /\ revert.at = "snaps"
    /\ snaps' = DiscardAfter(revert.to)
    /\ revert' = NoRevert
    /\ UNCHANGED <<events, graph, server, build, acked, spent>>

\* The command is killed, or a file cannot be removed.
RevertStops ==
    /\ TornRevert /\ revert # NoRevert
    /\ MayFail
    /\ revert' = NoRevert
    /\ spent' = [spent EXCEPT !.cuts = @ + 1]
    /\ UNCHANGED <<disk, server, build, acked>>

-----------------------------------------------------------------------------
(* The process ends.  A graceful shutdown waits for what is under way; a   *)
(* kill leaves the files as they are.                                      *)

Shutdown ==
    /\ phase = "up" /\ graphLock = Free /\ snapper = "idle"
    /\ \A w \in Writers : wpc[w] # "appended"
    /\ phase' = "down"
    /\ wpc' = [w \in Writers |-> "idle"]
    /\ UNCHANGED <<disk, bootErr, graphLock, mark, snapper, revert, build, acked,
                   spent>>

WritingFile == phase \in {"copy", "reset"} \/ graphLock.by \in {Driver, Operator}

Kill ==
    /\ phase # "down"
    /\ MayFail
    /\ TornApply \/ graphLock.done = 0
    /\ TornFiles \/ ~WritingFile
    /\ phase' = "down"
    /\ graphLock' = Free
    /\ wpc' = [w \in Writers |-> "idle"]
    /\ mark' = [w \in Writers |-> 0]
    /\ snapper' = "idle"
    /\ spent' = [spent EXCEPT !.kills = @ + 1]
    /\ UNCHANGED <<disk, bootErr, revert, build, acked>>

-----------------------------------------------------------------------------
Apply == ApplyStatement \/ AdvanceHead \/ ApplyConflicts \/ MaterializeDone

Booting ==
    \/ RestoreFails \/ RestoreSkips \/ RestoreBegin \/ RestoreEnd
    \/ OpenGraph \/ CannotOpen \/ OpenResets \/ ResetEnd \/ Reconcile

Snapshotter ==
    \/ SnapshotDue \/ SnapshotExists \/ SnapshotPrune
    \/ \E p \in {Driver, Operator} : SnapshotBegin(p) \/ SnapshotEnd(p)

Offline ==
    \/ OfflineAppend \/ DeleteGraph \/ Upgrade
    \/ RevertTruncate \/ RevertGraph \/ RevertSnaps \/ RevertStops

GraphNext ==
    \/ \E w \in Writers : Commit(w) \/ Materialize(w)
    \/ Apply \/ ApplyFails
    \/ Snapshotter
    \/ BootLock \/ Booting
    \/ Offline
    \/ Shutdown \/ Kill

GraphSpec == GraphInit /\ [][GraphNext]_graphVars

\* The boot and a commit run to their end; the service manager starts the
\* server again; a revert that has begun goes on.
FairSpec ==
    /\ GraphSpec
    /\ WF_graphVars(Apply)
    /\ WF_graphVars(BootLock)
    /\ WF_graphVars(Booting)
    /\ WF_graphVars(RevertGraph \/ RevertSnaps)
    /\ WF_graphVars(\E p \in {Driver, Operator} : SnapshotEnd(p))
    /\ \A w \in Writers : SF_graphVars(Materialize(w))

-----------------------------------------------------------------------------
(* What the graph should hold.                                             *)

Cells(l, n) == {i \in 1..n : l[i].kind = "write"}

\* The fold of the first n events of l into an empty graph of schema b.
Projection(l, n, b) ==
    [st |-> "ok", schema |-> b, head |-> n,
     rows |-> {<<l[i].id, k>> : i \in {j \in 1..n : l[j].kind = "insert"},
                                k \in {1, 2}},
     cell |-> IF Cells(l, n) = {} THEN Nobody ELSE l[Max(Cells(l, n))].id]

IsProjection(g) ==
    /\ g.head <= Len(events)
    /\ g = Projection(events, g.head, g.schema)

(* Every variable has its type: a snapshot or a graph head past the log's  *)
(* bound, a lock held by a task that does not exist, would show here.      *)
GraphTypeOK ==
    /\ events \in Seq(Event) /\ Len(events) <= MaxEvents
    /\ graph \in Graph
    /\ snaps \in [Seqs -> Graph]
    /\ phase \in Phases
    /\ bootErr \in Errors
    /\ graphLock \in Lock
    /\ wpc \in [Writers -> {"idle", "appended", "failed"}]
    /\ mark \in [Writers -> Seqs]
    /\ snapper \in {"idle", "due", "prune"}
    /\ revert \in Revert
    /\ build \in Nat
    /\ acked \in Seqs
    /\ spent \in [events : Seqs, kills : 0..MaxFaults, failures : 0..MaxFaults,
                 cuts : 0..MaxFaults, ops : 0..MaxOps]
    /\ spent.kills + spent.failures + spent.cuts <= MaxFaults

(* While the server serves and no apply is under way, what readers see is  *)
(* the fold of the log up to the graph's head under this build's schema:   *)
(* snapshot plus tail, a restart, a reset or a revert make no difference.  *)
ServesTheLog ==
    phase = "up" /\ ~Materializing =>
        /\ IsProjection(graph)
        /\ graph.schema = build

(* A snapshot that boot may restore holds the fold of the log up to the    *)
(* seq in its name: it was written at a clean boundary, and none describes *)
(* a state the log no longer reaches.                                      *)
SnapshotsAreProjections ==
    revert = NoRevert =>
        \A h \in Heads : (snaps[h].st = "ok") =>
            snaps[h].head = h /\ IsProjection(snaps[h])

\* What readers find of e: its rows, or its write or that of a later event.
Shows(g, e) ==
    /\ e.kind = "insert" => {<<e.id, 1>>, <<e.id, 2>>} \subseteq g.rows
    /\ e.kind = "write" => g.cell \in Ids /\ g.cell >= e.id

(* A commit that has returned is served for as long as the server is up,   *)
(* whoever materialized it, and again after every restart: the head covers *)
(* it and the graph has what its events call for ("Materialization catches *)
(* up from head + 1").  A revert cut short before it has deleted the graph *)
(* leaves a head past the end of the log; the events that take those seqs  *)
(* again are counted and never folded.                                     *)
CommittedIsServed ==
    phase = "up" /\ ~Materializing =>
        /\ graph.head >= acked
        /\ \A i \in 1..acked : Shows(graph, events[i])

\* No statement of an apply has failed, and no revert was cut short.
OnlyKills == spent.failures = 0 /\ spent.cuts = 0

(* What readers see holds every commit that has returned, whoever          *)
(* materialized it and whatever was killed or failed, unless a revert was  *)
(* cut short; and it is the fold of the log under this build's schema      *)
(* unless a statement of an apply has failed, too: what a failed apply has *)
(* left of an event that did not commit is served as well.                 *)
ServesEveryCommit ==
    /\ spent.cuts = 0 => CommittedIsServed
    /\ OnlyKills => ServesTheLog

(* The boot always reaches serving: catch-up heals the graph, whatever the *)
(* crash left behind.                                                      *)
BootNeverFails == bootErr \in {"none", "statement"}

(* Retention never deletes the newest snapshot, the one boot would restore *)
(* from; only a revert does.                                               *)
NewestIsKept ==
    [][(revert = NoRevert /\ Heads # {}) =>
         snaps'[LatestHead] # Absent]_graphVars

(* Retention never deletes the newest snapshot, and a readable snapshot is *)
(* a fold of the log unless a statement of an apply has failed or a revert *)
(* was cut short (write_snapshot, prune, discard_after).                   *)
SnapshotsStand == [](OnlyKills => SnapshotsAreProjections) /\ NewestIsKept

(* Every commit ends, and the head of the graph always reaches that of the *)
(* log again, for as long as the server can restart, unless a writer has   *)
(* just been told that its commit failed.                                  *)
LogIsServed ==
    []<>(/\ phase = "up"
         /\ graph.head >= Len(events) \/ \E w \in Writers : wpc[w] = "failed")

-----------------------------------------------------------------------------
(* The kinds of event there are, for an instance.                          *)
AllKinds == {"quiet", "write", "insert"}
=============================================================================
