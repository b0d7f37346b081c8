----------------------------- MODULE MCServices -----------------------------
(***************************************************************************)
(* What runs beside the turns, on small instances: reminders, the          *)
(* describer, the cursor passes, the indexer, genesis, blobs, the MCP      *)
(* host, the connector with its projections, the console's replica and the *)
(* evaluation harness.  They share nothing but the log, of which each      *)
(* looks at its own kinds of events, so a behaviour follows one of them,   *)
(* chosen at the start.                                                    *)
(***************************************************************************)
EXTENDS WakeUps

CONSTANTS
    Parts,
    \* the describer
    Mem, Entry, On, PostureOf, States, Authored, Passes, Scope, Today, Readings,
    MaxChanges, MaxWalks,
    \* the cursor passes
    Sweep, MinActivity, MaxWrites, MaxSweeps,
    \* the indexer
    IndexEntry, IndexMem, IndexOn, Models, MaxIndexLog, MaxCrashes,
    \* genesis
    Defaults, Vocabulary, Editor, Bodies, Snapshots, Context, DefaultBudget, DefaultCarryover,
    MaxGenesisActs,
    \* blobs
    Hash, Size, Mimes, MaxUpload, MaxCount, MaxBytes, TextBudget, Offset, MaxBlobActs,
    \* the MCP host
    Tool, Escaped, Configs, MaxProcs, MaxCalls,
    \* the connector and its projections
    Message, About, Allowed, ReplyToAll, SeeBots, MaxBots, MaxFiles, MaxLeaves,
    Attr, Value, MaxEdits, MaxFaults

VARIABLES part,
    head, content, described, ents, passes, guard, changes, walks, seen, wasted,
    sweepLog, sweepCursor, sweeps, writes, begun, swept, skipped,
    indexLog, vectors, indexCursor, batch, configured, phase, crashes,
    born, server, edits, forced, genesisActs,
    stored, shared, waiting, holder, sweep, range, served, blobActs,
    toolServer, mcpPhase, advertised, catalogue, procs, listed, instance, mcpPc, tool, inFlight,
    requests, abandoned,
    handler, streak, members, queue, fire, timers, sends, turnMap, submitted, leaves,
    current, events, db, cached, memory, live, ids, sync, verified, linked, calls, links, lost,
    edited, faults,
    serverLog, buffer, sentLen, steps, polls, replica, following,
    sidecar, out, proc, viewer, count, kept, spoiled,
    script, runLog, journal, at, call, cursor, streamed, runPc, record, base, replays

\* Reminders: one on a topic, dated on a day; one about person 1, every day.
MCNote ==
    1 :> [on |-> 3, about |-> {}, by |-> 1, vis |-> Public]
        @@ 2 :> [on |-> 1, about |-> {1}, by |-> 2, vis |-> Attributed]
MCDates == 1 :> {Instant(3), BeforeAfter("after", 1)} @@ 2 :> {Recurring("daily", 1)}
MCDated == 1 :> CivilDay(1) @@ 2 :> Recurring("daily", 1)
MCMonthly == 1 :> Recurring("monthly", 1)
MCPresent == 1 :> {1} @@ 2 :> {1, 2}

\* Three years of months, of which the second is a leap year.
MCMonthStart ==
    <<0, 31, 59, 90, 120, 151, 181, 212, 243, 273, 304, 334,
      365, 396, 425, 456, 486, 517, 547, 578, 609, 639, 670, 700,
      731, 762, 790, 821, 851, 882, 912, 943, 974, 1004, 1035, 1065, 1096>>

\* Three entries of two memories, in each posture; a pass over all and one over a scope.
MCOn == <<1, 1, 2>>
MCPostureOf == <<"public", "attributed", "private">>
MCStates == <<TRUE, FALSE, FALSE>>
MCAuthored == <<Untimed, Untimed, CivilDay(1)>>
MCScope == "driver" :> {1, 2} @@ "open" :> {1}
MCReadings == {CivilDay(1), CivilDay(2)}
ASSUME DescriberAssumption ==
    /\ "driver" \in Passes /\ Scope \in [Passes -> SUBSET Mem]
    /\ IsFiniteSet(Entry) /\ On \in [Entry -> Mem]
D == INSTANCE Describer WITH Posture <- PostureOf

MCMinActivity == [s \in Sweep |-> IF s = "consolidate" THEN 2 ELSE 1]
ASSUME SweepAssumption == "infer" \in Sweep
C == INSTANCE CatchUps WITH log <- sweepLog, cursor <- sweepCursor, excused <- skipped

MCIndexOn == <<1, 1>>
ASSUME IndexAssumption == "absent" \notin Models
X == INSTANCE Indexer WITH
        Entry <- IndexEntry, Mem <- IndexMem, On <- IndexOn, MaxLog <- MaxIndexLog,
        log <- indexLog, cursor <- indexCursor

\* Two builds, the later with a newer prompt, a second one and another word.
Default(version, body) == [version |-> version, body |-> body]
MCDefaults ==
    <<"s" :> Default(1, "s1"), "s" :> Default(3, "s3") @@ "t" :> Default(1, "t1")>>
MCVocabulary == <<{"w"}, {"w", "x"}>>
MCSnapshots ==
    {[budget |-> 9, tokens |-> 0, chars |-> 6], [budget |-> 7, tokens |-> 2, chars |-> 40]}
ASSUME GenesisAssumption ==
    /\ 0 \notin DOMAIN Defaults
    /\ \A b \in DOMAIN Defaults :
          /\ IsFiniteSet(DOMAIN Defaults[b]) /\ IsFiniteSet(Vocabulary[b])
          /\ \A n \in DOMAIN Defaults[b] : Defaults[b][n].version \in Nat
G == INSTANCE Genesis WITH MaxActs <- MaxGenesisActs, log <- born, acts <- genesisActs

MCSize == <<2, 3>>
ASSUME BlobAssumption ==
    Size \in [Hash -> Nat] /\ "none" \notin Mimes /\ Offset \subseteq Nat
B == INSTANCE Blobs WITH MaxActs <- MaxBlobActs, log <- shared, acts <- blobActs

\* Good servers with and without filters, and two that do not load.
Configured(identifier, command, url, filtered, allow, deny) ==
    [identifier |-> identifier, command |-> command, url |-> url,
     filtered |-> filtered, allow |-> allow, deny |-> deny]
MCEscaped == "a" :> "a" @@ "b" :> "b" @@ "c" :> "b"
MCConfigs ==
    {Configured(TRUE, TRUE, FALSE, FALSE, {}, {"b"}),
     Configured(TRUE, FALSE, TRUE, TRUE, {"a"}, {}),
     Configured(TRUE, TRUE, FALSE, FALSE, {}, {}),
     Configured(TRUE, TRUE, TRUE, FALSE, {}, {}),
     Configured(FALSE, TRUE, FALSE, FALSE, {}, {})}
M == INSTANCE McpHost WITH
        config <- toolServer, phase <- mcpPhase, pc <- mcpPc, sent <- requests

\* A human's message with two files, a bot's answer to it, and a message in a
\* channel the connector does not listen to.
Posted(channel, author, bot, direct, files, replyTo) ==
    [channel |-> channel, author |-> author, bot |-> bot, dm |-> FALSE,
     direct |-> direct, files |-> files, replyTo |-> replyTo]
MCAbout ==
    <<Posted("c", "ann", FALSE, TRUE, 2, 0), Posted("c", "bot", TRUE, TRUE, 0, 1),
      Posted("d", "ann", FALSE, TRUE, 0, 0)>>
ASSUME MessageAssumption ==
    MaxFiles \in Nat /\ \A m \in Message : About[m].files \in Nat
N == INSTANCE Connector

ASSUME AttrAssumption == Attr \in Nat
P == INSTANCE Projections WITH MaxChanges <- MaxEdits, changes <- edited

L == INSTANCE Replica WITH
        Turn <- {1}, Memory <- {1, 2}, MaxSteps <- 3, MaxAppended <- 1, MaxLog <- 3,
        MaxPolls <- 2, log <- serverLog, sent <- sentLen

S == INSTANCE EvalSuite WITH
        Runs <- 2, Concurrency <- 2, Capacity <- 2, MaxStarts <- 3, MaxDrives <- 3, MaxEvents <- 1

E == INSTANCE EvalRun WITH
        Scripts <- {<<"turn", "clock", "turn">>, <<"turn", "clock", "confirm">>},
        Budget <- 3, MaxDelay <- 2, MaxLog <- 6, MaxReplays <- 2,
        log <- runLog, pc <- runPc, sent <- streamed

describerVars ==
    <<head, content, described, ents, passes, guard, changes, walks, seen, wasted>>
sweepVars == <<sweepLog, sweepCursor, sweeps, writes, begun, swept, skipped>>
indexVars == <<indexLog, vectors, indexCursor, batch, configured, phase, crashes>>
genesisVars == <<born, server, edits, forced, genesisActs>>
blobVars == <<stored, shared, waiting, holder, sweep, range, served, blobActs>>
mcpVars ==
    <<toolServer, mcpPhase, advertised, catalogue, procs, listed, instance, mcpPc, tool, inFlight,
      requests, abandoned>>
connectorVars ==
    <<handler, streak, members, queue, fire, timers, sends, turnMap, submitted, leaves>>
projectionVars ==
    <<current, events, db, cached, memory, live, ids, sync, verified, linked, calls, links, lost,
      edited, faults>>
replicaVars == <<serverLog, buffer, sentLen, steps, polls, replica, following>>
suiteVars == <<sidecar, out, proc, viewer, count, kept, spoiled>>
evalVars == <<script, runLog, journal, at, call, cursor, streamed, runPc, record, base, replays>>

ServicesInit ==
    /\ part \in Parts
    /\ Init /\ D!Init /\ C!Init /\ X!Init /\ G!Init /\ B!Init /\ M!Init /\ N!Init /\ P!Init
    /\ L!Init /\ S!Init /\ E!Init
    /\ part # "index" => configured = "a"
    /\ part # "mcp" => ~toolServer.identifier /\ advertised = {}
    /\ part # "eval" => script[3] = "turn"

ServicesNext ==
    /\ UNCHANGED part
    /\ \/ part = "reminders" /\ Next
       \/ part # "reminders" /\ UNCHANGED vars
    /\ \/ part = "describer" /\ D!Next
       \/ part # "describer" /\ UNCHANGED describerVars
    /\ \/ part = "sweeps" /\ C!Next
       \/ part # "sweeps" /\ UNCHANGED sweepVars
    /\ \/ part = "index" /\ X!Next
       \/ part # "index" /\ UNCHANGED indexVars
    /\ \/ part = "genesis" /\ G!Next
       \/ part # "genesis" /\ UNCHANGED genesisVars
    /\ \/ part = "blobs" /\ B!Next
       \/ part # "blobs" /\ UNCHANGED blobVars
    /\ \/ part = "mcp" /\ M!Next
       \/ part # "mcp" /\ UNCHANGED mcpVars
    /\ \/ part = "connector" /\ N!Next
       \/ part # "connector" /\ UNCHANGED connectorVars
    /\ \/ part = "projections" /\ P!Next
       \/ part # "projections" /\ UNCHANGED projectionVars
    /\ \/ part = "replica" /\ L!Next
       \/ part # "replica" /\ UNCHANGED replicaVars
    /\ \/ part = "suite" /\ S!Next
       \/ part # "suite" /\ UNCHANGED suiteVars
    /\ \/ part = "eval" /\ E!Next
       \/ part # "eval" /\ UNCHANGED evalVars

services ==
    <<part, vars, describerVars, sweepVars, indexVars, genesisVars, blobVars, mcpVars,
      connectorVars, projectionVars, replicaVars, suiteVars, evalVars>>

ServicesSpec == ServicesInit /\ [][ServicesNext]_services

-----------------------------------------------------------------------------
(* A due reminder is raised to somebody who may see it, and not by session *)
(* after session (fire_due, drain), but for what two spans of locks let    *)
(* through and a run shows: EachIsRaisedOnce fails.                        *)
RaisedExactlyOnce == part = "reminders" => DueIsRaised /\ RaisedOnce

(* No memory is described twice for one change (describe_memories).        *)
DescribedOncePerChange == part = "describer" => D!DescribedOncePerChange

(* No write below a pass's cursor was passed by (catch_up).                *)
NothingUnswept == part = "sweeps" => C!NothingUnswept

(* The vectors are those of the log up to the cursor (index_catch_up).     *)
IndexFollowsTheLog == part = "index" => X!IndexFollowsTheLog

(* An agent is born once and whole, a build that boots has its prompts,    *)
(* and what an operator set stands (genesis, rollout, reconcile).          *)
GenesisHolds == [](part = "genesis" => G!BornOnce /\ G!BootReconciles) /\ G!OperatorStands

(* A recorded message is shown again as it was, and a range read returns   *)
(* the bytes asked for (put, render, gc_blobs, get_range).                 *)
AttachmentsStand == part = "blobs" => B!SeenStaysSeen /\ B!RangeIsExact

(* No tool outside the filters is called, no process lingers (McpHost).    *)
McpContained == part = "mcp" => M!McpContained

(* Every message submitted goes out once and in order (collect, submit).   *)
NothingSaidIsLost == part = "connector" => N!NothingSaidIsLost

(* Every live entry but those a fault left without a row is the one its    *)
(* attribute's row names, and a row names no entry but its own (sync).     *)
MirrorIsExact == part = "projections" => P!MirrorIsExact

(* An attribute has one live entry, whatever fails (sync).                 *)
OneEntryPerAttribute == part = "projections" => P!OneEntryPerAttribute

(* The console's replica is the server's log and its graph (Replica).      *)
ReplicaIsExact == part = "replica" => L!ReplicaIsExact

(* A suite keeps each genuine result through kills between lines and after *)
(* its heals, its viewers see what it holds, and a run's record delimits   *)
(* each step (resume, live, drive_streaming).                              *)
EvalsAreExact ==
    /\ part = "suite" => S!RunsAreKept /\ S!ViewIsExact
    /\ part = "eval" => E!RecordIsExact
=============================================================================
