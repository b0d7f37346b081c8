----------------------------- MODULE MCProgress -----------------------------
(***************************************************************************)
(* What has to end, on small instances: the model client's calls, the      *)
(* blocks that wait for each other's memories, the streams and tasks a     *)
(* stopping server drains, and the catch-up of a graph that a crash left   *)
(* behind the log.  None holds what another waits for, so a behaviour      *)
(* follows one of them, chosen at the start.                               *)
(***************************************************************************)
EXTENDS ModelClient, TLC

CONSTANTS
    Stub, Profile, NoOp, Nobody, Boot, Driver, Operator, Writer   \* model values

VARIABLES part,
    blockPc, blockAttempt, op, want, api, queue, mcp, blockLog, head, used, effects, desynced,
    config, phase, step, running, signal, log, feed, sent, stream, got, exchange, connects,
    events, graph, snaps, files, bootErr, graphLock, wpc, mark, snapper, revert, build, acked, spent

\* A platform stub, the profile it is merged with, and two conversations.
B == INSTANCE BlockExecution WITH
        Conversation <- {1, 2}, Stubs <- {Stub, Profile},
        Primary <- [m \in {Stub, Profile} |-> Profile],
        NewName <- {}, MaxAttempts <- 2, MaxOps <- 2, MaxBlocks <- 2, MaxForeign <- 0,
        pc <- blockPc, attempt <- blockAttempt, log <- blockLog

H == INSTANCE HttpServer WITH
        Client <- {1}, Capacity <- 1, MaxLog <- 3, MaxConnects <- 2

\* Arms that may be folded twice, with kills and failing statements.
G == INSTANCE DerivedGraph WITH
        Writers <- {Writer}, EventKinds <- {"quiet", "write"}, MinNew <- 1, Keep <- 1,
        TornApply <- TRUE, Errs <- TRUE, TornFiles <- FALSE, TornRevert <- TRUE,
        MaxEvents <- 2, MaxBatch <- 2, MaxFaults <- 2, MaxOps <- 1,
        phase <- files

blockVars ==
    <<blockPc, blockAttempt, op, want, api, queue, mcp, blockLog, head, used, effects, desynced>>
serverVars ==
    <<config, phase, step, running, signal, log, feed, sent, stream, got, exchange, connects>>
graphVars ==
    <<events, graph, snaps, files, bootErr, graphLock, wpc, mark, snapper, revert, build, acked,
      spent>>

ProgressInit ==
    /\ part \in {"client", "block", "server", "graph"}
    /\ Init /\ B!BlockInit /\ H!Init /\ G!GraphInit
    /\ part # "server" => \A feature \in DOMAIN config : config[feature]

ProgressNext ==
    /\ UNCHANGED part
    /\ \/ part = "client" /\ Next /\ UNCHANGED <<blockVars, serverVars, graphVars>>
       \/ part = "block" /\ B!BlockNext /\ UNCHANGED <<vars, serverVars, graphVars>>
       \/ part = "server" /\ H!Next /\ UNCHANGED <<vars, blockVars, graphVars>>
       \/ part = "graph" /\ G!GraphNext /\ UNCHANGED <<vars, blockVars, serverVars>>

\* The fairness each component states, in its own part.
ClientFairness ==
    /\ \A c \in Calls : /\ WF_vars(part = "client" /\ Dispatch(c))
                        /\ WF_vars(part = "client" /\ Stream(c))
                        /\ WF_vars(part = "client" /\ Finish(c))
    /\ \A t \in TurnCalls :
          WF_vars(part = "client" /\ NotifyWaiters(t) /\ UNCHANGED breakerVars)
    /\ \A b \in BackgroundCalls : WF_vars(part = "client" /\ Yield(b) /\ UNCHANGED breakerVars)
BlockFairness ==
    \A c \in {1, 2} : /\ WF_blockVars(part = "block" /\ B!Fold(c))
                      /\ WF_blockVars(part = "block" /\ (B!TimesOut(c) \/ B!Retry(c)))
ServerFairness ==
    /\ WF_serverVars(part = "server" /\ (H!Opens \/ H!Spawns \/ H!Listens))
    /\ WF_serverVars(part = "server" /\ H!FanOut)
    /\ WF_serverVars(part = "server" /\ H!Stopping)
    /\ WF_serverVars(part = "server" /\ H!TurnEnds)
    /\ WF_serverVars(part = "server" /\ H!Respond)
    /\ WF_serverVars(part = "server" /\ H!Streams(1))
GraphFairness ==
    /\ WF_graphVars(part = "graph" /\ (G!Apply \/ G!BootLock \/ G!Booting))
    /\ WF_graphVars(part = "graph" /\ (G!RevertGraph \/ G!RevertSnaps))
    /\ WF_graphVars(part = "graph" /\ \E p \in {Driver, Operator} : G!SnapshotEnd(p))
    /\ SF_graphVars(part = "graph" /\ G!Materialize(Writer))

ProgressSpec ==
    /\ ProgressInit /\ [][ProgressNext]_<<part, vars, blockVars, serverVars, graphVars>>
    /\ ClientFairness /\ BlockFairness /\ ServerFairness /\ GraphFairness

-----------------------------------------------------------------------------
(* The circuit follows the count of failures; a half-open breaker has its  *)
(* probe under way and leaves that state; and a background call is         *)
(* dispatched once turns stay away (priority.rs, retry.rs).                *)
ClientServes ==
    /\ [](CircuitMatchesCount /\ HalfOpenHasProbe)
    /\ WaitingIsServed /\ HalfOpenResolves

(* Every block ends, whatever blocks wait for each other's memories.       *)
EveryBlockEnds == B!EveryBlockEnds

(* A console gets every event once and in order across lag and reconnects, *)
(* and a stopped process ends whatever is connected (events_stream).       *)
ConsoleIsServed == []H!StreamIsContiguous /\ H!ShutdownEnds

(* No boot fails on what a crash left behind, every commit ends, and the   *)
(* log is always served in full again (boot, materialize_from).            *)
LogIsServed == part = "graph" => []G!BootNeverFails /\ G!LogIsServed
=============================================================================
