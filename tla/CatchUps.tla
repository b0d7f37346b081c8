------------------------------- MODULE CatchUps -------------------------------
(***************************************************************************)
(* The passes that follow the log by a cursor held in memory: link         *)
(* inference and the three maintenance sweeps.  A sweep reads the head,    *)
(* then what was written since its cursor, asks the model, commits what it *)
(* found, and moves the cursor to the head it began with.                  *)
(***************************************************************************)
EXTENDS Integers, Sequences, FiniteSets

CONSTANTS
    Sweep,          \* infer, and the maintenance passes
    MinActivity,    \* MinActivity[s]: the gate of a maintenance pass
    MaxWrites,      \* bound: events written by others, and reseeds
    MaxSweeps       \* bound: sweeps begun

VARIABLES
    log,            \* the kind of each event
    cursor,         \* where each pass stands
    sweeps,         \* the state of each pass
    writes, begun,  \* the bounds used up
    swept,          \* the writes each pass has collected and gone through
    excused         \* the head up to which a pass was told to skip

vars == <<log, cursor, sweeps, writes, begun, swept, excused>>

Idle == [at |-> "idle", from |-> 0, head |-> 0, got |-> {}]

Init ==
    /\ log = <<"other">>
    /\ cursor = [s \in Sweep |-> 1]
    /\ sweeps = [s \in Sweep |-> Idle]
    /\ writes = 0
    /\ begun = 0
    /\ swept = [s \in Sweep |-> {}]
    /\ excused = [s \in Sweep |-> 1]

\* The kinds of events: what a turn writes of a memory or of a platform stub,
\* and everything else, the records of the passes among it.
Commit(kind) ==
    /\ writes < MaxWrites
    /\ writes' = writes + 1
    /\ log' = Append(log, kind)
    /\ UNCHANGED <<cursor, sweeps, begun, swept, excused>>

Collected(s) == IF s = "canonicalize" THEN "stub" ELSE "written"

ActivityGate(s) ==
    \/ MinActivity[s] <= 0
    \/ Len(log) - cursor[s] >= MinActivity[s]

Begin(s, from) ==
    /\ begun < MaxSweeps
    /\ sweeps[s].at = "idle"
    /\ sweeps' = [sweeps EXCEPT ![s] = [Idle EXCEPT !.at = "begun", !.from = from]]
    /\ begun' = begun + 1
    /\ UNCHANGED <<log, cursor, writes, swept, excused>>

\* The guard is held from here on: the cursor is read under it.
RunMaintenance(s) == s # "infer" /\ ActivityGate(s) /\ Begin(s, cursor[s])

RunLinkInference == Begin("infer", cursor["infer"])

\* The operator's request goes through the whole log.
OnDemand(s) == s # "infer" /\ Begin(s, 0)

\* Mutant: the head is read once the sweep is over.
HeadAtTheEnd(s) == Len(log)

SweptTo(s) == sweeps[s].head

Record(s) == IF s = "infer" THEN << >> ELSE <<"other">>

ReadHead(s) ==
    /\ sweeps[s].at = "begun"
    /\ Len(log) > sweeps[s].from
    /\ sweeps' = [sweeps EXCEPT ![s].at = "headed", ![s].head = Len(log)]
    /\ UNCHANGED <<log, cursor, writes, begun, swept, excused>>

\* Nothing new: the cursor stays, a maintenance pass still records itself.
UpToDate(s) ==
    /\ sweeps[s].at = "begun"
    /\ Len(log) <= sweeps[s].from
    /\ cursor' = [cursor EXCEPT ![s] = sweeps[s].from]
    /\ log' = log \o Record(s)
    /\ sweeps' = [sweeps EXCEPT ![s] = Idle]
    /\ UNCHANGED <<writes, begun, swept, excused>>

\* Without its template a pass goes by.
NoTemplate(s) ==
    /\ sweeps[s].at = "headed"
    /\ cursor' = [cursor EXCEPT ![s] = sweeps[s].head]
    /\ excused' = [excused EXCEPT ![s] = IF @ < sweeps[s].head THEN sweeps[s].head ELSE @]
    /\ log' = log \o Record(s)
    /\ sweeps' = [sweeps EXCEPT ![s] = Idle]
    /\ UNCHANGED <<writes, begun, swept>>

CollectWrittenMemories(s) ==
    /\ sweeps[s].at = "headed"
    /\ sweeps' = [sweeps EXCEPT ![s].at = "asking",
           ![s].got = {i \in (sweeps[s].from + 1)..Len(log) : log[i] = Collected(s)}]
    /\ UNCHANGED <<log, cursor, writes, begun, swept, excused>>

\* The events of the sweep, if any, then the cursor, then its record.  A memory the
\* model gave no answer for is skipped with a warning and counts as gone through:
\* the cursor passes it (canonicalize catch_up).
Finish(s, effects) ==
    /\ sweeps[s].at = "asking"
    /\ cursor' = [cursor EXCEPT ![s] = SweptTo(s)]
    /\ swept' = [swept EXCEPT ![s] = @ \cup sweeps[s].got]
    /\ log' = (log \o effects) \o Record(s)
    /\ sweeps' = [sweeps EXCEPT ![s] = Idle]
    /\ UNCHANGED <<writes, begun, excused>>

\* Link inference: one record for each memory the model answered for, with the
\* relations it coined and the links it found; no memory is written.
LinkInferenceCatchUp(effects) == Finish("infer", effects)

MaintenanceCatchUp(s, effects) == s # "infer" /\ Finish(s, effects)

\* What the sweeps commit: consolidated entries and new profiles are written
\* memories, links and retractions are not.
Effects(s) ==
    {<< >>} \cup (IF s \in {"consolidate", "canonicalize"} THEN {<<"written">>} ELSE {<<"other">>})

\* An error leaves the cursor.
Abandon(s) ==
    /\ sweeps[s].at # "idle"
    /\ sweeps' = [sweeps EXCEPT ![s] = Idle]
    /\ UNCHANGED <<log, cursor, writes, begun, swept, excused>>

\* A boot starts every pass at the head; so does creating the agent, beside
\* sweeps that may be under way.
Reseed(boot) ==
    /\ writes < MaxWrites
    /\ writes' = writes + 1
    /\ cursor' = [s \in Sweep |-> Len(log)]
    /\ excused' = [s \in Sweep |-> Len(log)]
    /\ sweeps' = IF boot THEN [s \in Sweep |-> Idle] ELSE sweeps
    /\ UNCHANGED <<log, begun, swept>>

Next ==
    \/ \E kind \in {"written", "stub", "other"} : Commit(kind)
    \/ RunLinkInference
    \/ \E effects \in Effects("infer") : LinkInferenceCatchUp(effects)
    \/ \E s \in Sweep :
        \/ RunMaintenance(s)
        \/ OnDemand(s)
        \/ ReadHead(s)
        \/ UpToDate(s)
        \/ NoTemplate(s)
        \/ CollectWrittenMemories(s)
        \/ \E effects \in Effects(s) : MaintenanceCatchUp(s, effects)
        \/ Abandon(s)
    \/ \E boot \in BOOLEAN : Reseed(boot)

Spec == Init /\ [][Next]_vars

-----------------------------------------------------------------------------
\* No write up to n that the pass was not told to skip was passed by.
Behind(s, n) ==
    \A i \in (excused[s] + 1)..n : log[i] = Collected(s) => i \in swept[s]

(* The cursor is "the log seq through which" a pass has done its work: no  *)
(* write below it was passed by, however the sweeps, the commits of turns  *)
(* during them and the passes' own events interleave.                      *)
NothingUnswept == \A s \in Sweep : Behind(s, cursor[s])

SweepTypes ==
    /\ log \in Seq({"written", "stub", "other"})
    /\ cursor \in [Sweep -> Nat] /\ excused \in [Sweep -> Nat]
    /\ swept \in [Sweep -> SUBSET Nat]
    /\ sweeps \in [Sweep -> [at : {"idle", "begun", "headed", "asking"}, from : Nat, head : Nat,
                             got : SUBSET Nat]]

\* A sweep began where nothing was unswept, and has collected what lies between there and its head.
SweepCovers(s) ==
    /\ cursor[s] <= Len(log) /\ excused[s] <= Len(log)
    /\ sweeps[s].at # "idle" => sweeps[s].from <= Len(log) /\ Behind(s, sweeps[s].from)
    /\ sweeps[s].at \in {"headed", "asking"} => sweeps[s].head <= Len(log)
    /\ sweeps[s].at = "asking" =>
          \A i \in (sweeps[s].from + 1)..sweeps[s].head :
              log[i] = Collected(s) => i \in sweeps[s].got

\* NothingUnswept made inductive.
CatchUpInv == SweepTypes /\ (\A s \in Sweep : SweepCovers(s)) /\ NothingUnswept
=============================================================================
