--------------------------- MODULE ServicesProofs ---------------------------
(***************************************************************************)
(* What MCServices' runs check of the services beside the turns, proved    *)
(* for every value of their constants: a part's inductive invariant holds  *)
(* at the start, is kept by the part's own steps, and no other part's step *)
(* touches it.  Here the MCP host, the cursor passes, the describer, the   *)
(* indexer and genesis; ConnectorProofs has the rest.                      *)
(***************************************************************************)
EXTENDS MCServices, SequenceTheorems, FiniteSetTheorems, WellFoundedInduction, NaturalsInduction,
        TLAPS

-----------------------------------------------------------------------------
(* The MCP host.                                                           *)

(* Before a server is configured no tool of it is listed, called or        *)
(* running.                                                                *)
LEMMA McpInitial == M!Init => M!McpInv
<1> SUFFICES ASSUME M!Init PROVE M!McpInv
  OBVIOUS
<1> USE DEF M!Init, M!NoInstance
<1>1. M!McpTypes
  BY DEF M!McpTypes
<1>2. M!SpawnsAlone
  BY DEF M!SpawnsAlone
<1>3. M!CallsAreMarked
  BY DEF M!CallsAreMarked
<1>4. M!FiltersHold
  BY DEF M!FiltersHold
<1>5. M!McpContained
  BY DEF M!McpContained
<1> QED
  BY <1>1, <1>2, <1>3, <1>4, <1>5 DEF M!McpInv

(* Every operation of a server's session keeps the invariant.              *)
LEMMA McpStep == M!McpInv /\ (M!Next \/ UNCHANGED mcpVars) => M!McpInv'
<1> SUFFICES ASSUME M!McpInv, M!Next \/ UNCHANGED mcpVars PROVE M!McpInv'
  OBVIOUS
<1> USE DEF M!McpInv, M!McpTypes, M!Newest
<1>1. CASE M!Load
  BY <1>1 DEF M!Load, M!session, M!McpTypes, M!SpawnsAlone, M!CallsAreMarked, M!FiltersHold,
              M!McpContained, M!Newest
<1>2. CASE M!Probes
  <2>1. M!McpTypes'
    BY <1>2 DEF M!Probes, M!session, M!NoInstance, M!McpTypes, M!SpawnsAlone,
                M!CallsAreMarked, M!FiltersHold, M!McpContained, M!Newest
  <2>2. M!SpawnsAlone'
    BY <1>2 DEF M!Probes, M!session, M!NoInstance, M!SpawnsAlone, M!CallsAreMarked,
                M!SpawnsAlone
  <2>3. M!CallsAreMarked'
    BY <1>2 DEF M!Probes, M!session, M!NoInstance, M!SpawnsAlone, M!CallsAreMarked,
                M!CallsAreMarked
  <2>4. M!FiltersHold'
    BY <1>2 DEF M!Probes, M!session, M!NoInstance, M!SpawnsAlone, M!CallsAreMarked,
                M!FiltersHold
  <2>5. M!McpContained'
    BY <1>2 DEF M!Probes, M!session, M!NoInstance, M!McpTypes, M!SpawnsAlone,
                M!CallsAreMarked, M!FiltersHold, M!McpContained, M!Newest
  <2> QED
    BY <2>1, <2>2, <2>3, <2>4, <2>5
<1>3. CASE M!Serve
  BY <1>3 DEF M!Serve, M!session, M!McpTypes, M!SpawnsAlone, M!CallsAreMarked, M!FiltersHold,
              M!McpContained, M!Newest
<1>4. CASE M!Probed
  BY <1>4 DEF M!Probed, M!session, M!Ends, M!FilterTools, M!McpTypes, M!SpawnsAlone,
              M!CallsAreMarked, M!FiltersHold, M!McpContained, M!Newest
<1>5. CASE M!SpawnFails
  BY <1>5 DEF M!SpawnFails, M!session, M!Ends, M!McpTypes, M!SpawnsAlone, M!CallsAreMarked,
              M!FiltersHold, M!McpContained, M!Newest
<1>6. ASSUME NEW t \in Tool, M!CallTool(t) PROVE M!McpInv'
  <2> USE DEF M!SpawnsAlone, M!CallsAreMarked, M!McpContained
  <2>1. /\ mcpPhase = "serve" /\ mcpPc = "idle" /\ t \in catalogue /\ tool' = t
        /\ UNCHANGED <<toolServer, mcpPhase, advertised, catalogue, listed, instance, abandoned>>
    BY <1>6 DEF M!CallTool
  <2>2. CASE /\ instance = M!NoInstance
             /\ procs' = Append(procs, "running")
             /\ mcpPc' = "handshake"
             /\ UNCHANGED <<inFlight, requests>>
    <3>1. procs' \in Seq({"running", "closed"}) /\ Len(procs') = Len(procs) + 1
      BY <2>2
    <3>2. \A p \in DOMAIN procs : p \in DOMAIN procs' /\ procs'[p] = procs[p]
      BY <2>2
    <3>3. M!McpTypes'
      BY <2>1, <2>2, <3>1, <3>2
    <3>4. M!SpawnsAlone' /\ M!CallsAreMarked' /\ M!FiltersHold'
      BY <2>1, <2>2, <3>1 DEF M!FiltersHold
    <3>5. \A p \in DOMAIN procs : procs[p] # "running"
      BY <2>1, <2>2 DEF M!NoInstance
    <3>6. M!McpContained'
      BY <2>1, <2>2, <3>1, <3>2, <3>5
    <3> QED
      BY <3>3, <3>4, <3>6
  <2>3. CASE /\ instance.service
             /\ M!Request(instance.proc, t)
             /\ UNCHANGED procs
    <3>1. requests' \in Seq([proc : Nat, tool : Tool])
      BY <2>3 DEF M!Request
    <3>2. M!McpTypes'
      BY <2>1, <2>3, <3>1 DEF M!Request
    <3>3. M!SpawnsAlone' /\ M!CallsAreMarked' /\ M!FiltersHold'
      BY <2>1, <2>3 DEF M!FiltersHold, M!Request, M!NoInstance
    <3>4. \A i \in DOMAIN requests' : requests'[i].tool = t \/ (i \in DOMAIN requests /\ requests'[i] = requests[i])
      BY <2>3 DEF M!Request
    <3>5. M!McpContained'
      BY <2>1, <2>3, <3>4 DEF M!FiltersHold
    <3> QED
      BY <3>2, <3>3, <3>5
  <2> QED
    BY <1>6, <2>2, <2>3 DEF M!CallTool
<1>7. CASE M!EnsureSpawned
  <2>1. M!McpTypes'
    BY <1>7 DEF M!EnsureSpawned, M!Request, M!NoInstance, M!McpTypes, M!SpawnsAlone,
                M!CallsAreMarked, M!FiltersHold, M!McpContained, M!Newest
  <2>2. M!SpawnsAlone'
    BY <1>7 DEF M!EnsureSpawned, M!Request, M!NoInstance, M!SpawnsAlone, M!CallsAreMarked,
                M!SpawnsAlone
  <2>3. M!CallsAreMarked'
    BY <1>7 DEF M!EnsureSpawned, M!Request, M!NoInstance, M!SpawnsAlone, M!CallsAreMarked,
                M!CallsAreMarked
  <2>4. M!FiltersHold'
    BY <1>7 DEF M!EnsureSpawned, M!Request, M!NoInstance, M!SpawnsAlone, M!CallsAreMarked,
                M!FiltersHold
  <2>5. M!McpContained'
    <3>1. \A i \in DOMAIN requests' :
             (toolServer.filtered => requests'[i].tool \in toolServer.allow) /\ requests'[i].tool \notin toolServer.deny
      BY <1>7 DEF M!EnsureSpawned, M!Request, M!McpContained, M!FiltersHold, M!SpawnsAlone
    <3>a. instance = M!NoInstance
      BY <1>7 DEF M!EnsureSpawned, M!SpawnsAlone
    <3>2. \A p \in DOMAIN procs : procs[p] = "running" => instance' = [proc |-> p, service |-> TRUE]
      BY <1>7, <3>a DEF M!EnsureSpawned, M!McpContained, M!NoInstance
    <3> QED
      BY <1>7, <3>1, <3>2 DEF M!EnsureSpawned, M!McpContained
  <2> QED
    BY <2>1, <2>2, <2>3, <2>4, <2>5
<1>8. CASE M!Answers
  BY <1>8 DEF M!Answers, M!McpTypes, M!SpawnsAlone, M!CallsAreMarked, M!FiltersHold,
              M!McpContained, M!Newest
<1>9. CASE M!CallTimesOut
  <2>a. procs' \in Seq({"running", "closed"}) /\ DOMAIN procs' = DOMAIN procs
    BY <1>9 DEF M!CallTimesOut, M!Ends, M!NoInstance, M!SpawnsAlone, M!CallsAreMarked
  <2>1. M!McpTypes'
    BY <1>9, <2>a DEF M!CallTimesOut, M!Ends, M!NoInstance, M!SpawnsAlone, M!CallsAreMarked
  <2>2. M!SpawnsAlone'
    BY <1>9 DEF M!CallTimesOut, M!Ends, M!NoInstance, M!SpawnsAlone, M!CallsAreMarked,
                M!SpawnsAlone
  <2>3. M!CallsAreMarked'
    BY <1>9 DEF M!CallTimesOut, M!Ends, M!NoInstance, M!SpawnsAlone, M!CallsAreMarked,
                M!CallsAreMarked
  <2>4. M!FiltersHold'
    BY <1>9 DEF M!CallTimesOut, M!Ends, M!NoInstance, M!SpawnsAlone, M!CallsAreMarked,
                M!FiltersHold
  <2>5. M!McpContained'
    BY <1>9 DEF M!CallTimesOut, M!Ends, M!NoInstance, M!McpTypes, M!SpawnsAlone,
                M!CallsAreMarked, M!FiltersHold, M!McpContained, M!Newest
  <2> QED
    BY <2>1, <2>2, <2>3, <2>4, <2>5
<1>10. CASE M!BlockTimesOut
  <2> USE DEF M!SpawnsAlone, M!CallsAreMarked, M!McpContained
  <2>1. /\ mcpPhase = "serve" /\ mcpPc' = "idle"
        /\ UNCHANGED <<toolServer, mcpPhase, advertised, catalogue, listed, tool, requests>>
    BY <1>10 DEF M!BlockTimesOut
  <2>2. CASE mcpPc = "call" /\ abandoned' = abandoned \cup {instance.proc} /\ M!DropInFlight
    <3>1. instance # M!NoInstance /\ instance.proc \in DOMAIN procs /\ inFlight
      BY <2>2
    <3>2. procs' = [procs EXCEPT ![instance.proc] = "closed"] /\ instance' = M!NoInstance /\ ~inFlight'
      BY <2>2, <3>1 DEF M!DropInFlight, M!Ends
    <3>3. procs' \in Seq({"running", "closed"}) /\ DOMAIN procs' = DOMAIN procs
      BY <3>1, <3>2
    <3>4. M!McpTypes'
      BY <2>1, <2>2, <3>1, <3>2, <3>3 DEF M!NoInstance
    <3>5. M!SpawnsAlone' /\ M!CallsAreMarked' /\ M!FiltersHold'
      BY <2>1, <2>2, <3>2 DEF M!FiltersHold
    <3>6. \A p \in DOMAIN procs' : procs'[p] = "closed"
      BY <2>2, <3>1, <3>2, <3>3
    <3>7. M!McpContained'
      BY <2>1, <2>2, <3>3, <3>4, <3>6
    <3> QED
      BY <3>4, <3>5, <3>7
  <2>3. CASE /\ mcpPc \in {"handshake", "list"}
             /\ procs' = M!Ends(M!Newest)
             /\ UNCHANGED <<instance, inFlight, abandoned>>
    <3>1. procs' \in Seq({"running", "closed"}) /\ DOMAIN procs' = DOMAIN procs
      BY <2>3 DEF M!Ends
    <3>2. M!McpTypes'
      BY <2>1, <2>3, <3>1
    <3>3. M!SpawnsAlone' /\ M!CallsAreMarked' /\ M!FiltersHold'
      BY <2>1, <2>3, <3>1 DEF M!FiltersHold
    <3>4. M!McpContained'
      BY <2>1, <2>3, <3>1 DEF M!Ends
    <3> QED
      BY <3>2, <3>3, <3>4
  <2> QED
    BY <1>10, <2>2, <2>3 DEF M!BlockTimesOut
<1>11. CASE M!Shutdown
  BY <1>11 DEF M!Shutdown, M!Ends, M!NoInstance, M!McpTypes, M!SpawnsAlone, M!CallsAreMarked,
               M!FiltersHold, M!McpContained, M!Newest
<1>12. ASSUME NEW p \in DOMAIN procs, M!ServerExits(p) PROVE M!McpInv'
  BY <1>12 DEF M!ServerExits, M!Ends, M!session, M!McpTypes, M!SpawnsAlone, M!CallsAreMarked,
               M!FiltersHold, M!McpContained, M!Newest
<1>13. ASSUME NEW tools \in SUBSET Tool, M!ToolsChange(tools) PROVE M!McpInv'
  BY <1>13 DEF M!ToolsChange, M!session, M!McpTypes, M!SpawnsAlone, M!CallsAreMarked,
               M!FiltersHold, M!McpContained, M!Newest
<1>14. CASE UNCHANGED mcpVars
  BY <1>14 DEF mcpVars, M!NoInstance, M!McpTypes, M!SpawnsAlone, M!CallsAreMarked,
               M!FiltersHold, M!McpContained, M!Newest
<1> QED
  BY <1>1, <1>2, <1>3, <1>4, <1>5, <1>6, <1>7, <1>8, <1>9, <1>10, <1>11, <1>12, <1>13, <1>14
     DEF M!Next

(* Requests keep to the filters, processes to the session or a spawn       *)
(* under way, and one abandoned in the middle of a call runs no more       *)
(* (McpHost), for any tools, filters and bounds.                           *)
THEOREM McpStaysContained == ServicesSpec => []McpContained
<1>1. ServicesInit => M!McpInv
  BY McpInitial DEF ServicesInit
<1>2. M!McpInv /\ [ServicesNext]_services => M!McpInv'
  BY McpStep DEF ServicesNext, services
<1>3. M!McpInv => McpContained
  BY DEF M!McpInv, McpContained
<1> QED
  BY <1>1, <1>2, <1>3, PTL DEF ServicesSpec

-----------------------------------------------------------------------------
(* The cursor passes.                                                      *)

SweepKinds == {"written", "stub", "other"}

(* A pass starts with nothing written and nothing behind its cursor.       *)
LEMMA SweepInitial == C!Init => C!CatchUpInv
<1> SUFFICES ASSUME C!Init PROVE C!CatchUpInv
  OBVIOUS
<1>1. C!SweepTypes
  <2>1. sweepLog \in Seq({"written", "stub", "other"})
    BY DEF C!Init
  <2> QED
    BY <2>1 DEF C!Init, C!Idle, C!SweepTypes
<1>2. \A s \in Sweep : C!Behind(s, 1) /\ sweepCursor[s] = 1 /\ skipped[s] = 1 /\ sweeps[s].at = "idle"
  BY DEF C!Init, C!Idle, C!Behind
<1>3. Len(sweepLog) = 1
  BY DEF C!Init
<1> QED
  BY <1>1, <1>2, <1>3 DEF C!CatchUpInv, C!SweepCovers, C!NothingUnswept

(* The log keeps what it holds.                                            *)
LogGrows ==
    /\ Len(sweepLog) <= Len(sweepLog')
    /\ \A i \in 1..Len(sweepLog) : sweepLog'[i] = sweepLog[i]

(* A write lengthens the log and leaves what it held.                      *)
LEMMA AppendGrows ==
    ASSUME C!SweepTypes, NEW recs \in Seq(SweepKinds), sweepLog' = sweepLog \o recs
    PROVE  LogGrows /\ sweepLog' \in Seq(SweepKinds)
BY DEF LogGrows, C!SweepTypes, SweepKinds

(* What was swept stays swept while the log grows.                         *)
LEMMA BehindStays ==
    ASSUME C!SweepTypes, NEW s \in Sweep, NEW n \in Nat, n <= Len(sweepLog), C!Behind(s, n),
           LogGrows, skipped[s] <= skipped'[s], swept[s] \subseteq swept'[s], skipped'[s] \in Nat
    PROVE  C!Behind(s, n)'
<1>1. skipped[s] \in Nat /\ Len(sweepLog) \in Nat
  BY DEF C!SweepTypes
<1>2. \A i \in (skipped'[s] + 1)..n : i \in (skipped[s] + 1)..n /\ i \in 1..Len(sweepLog)
  BY <1>1
<1>3. \A i \in (skipped'[s] + 1)..n : sweepLog'[i] = sweepLog[i]
  BY <1>2 DEF LogGrows
<1> QED
  BY <1>2, <1>3 DEF C!Behind, C!Collected

(* A pass that a step leaves alone.                                        *)
LEMMA OthersStay ==
    ASSUME C!CatchUpInv, NEW s \in Sweep, LogGrows, sweepLog' \in Seq(SweepKinds),
           sweeps'[s] = sweeps[s], sweepCursor'[s] = sweepCursor[s],
           skipped'[s] = skipped[s], swept'[s] = swept[s]
    PROVE  C!SweepCovers(s)' /\ C!Behind(s, sweepCursor[s])'
<1> USE DEF C!CatchUpInv, C!SweepTypes, SweepKinds
<1>1. C!SweepCovers(s) /\ C!Behind(s, sweepCursor[s])
  BY DEF C!NothingUnswept
<1>2. \A n \in Nat : n <= Len(sweepLog) /\ C!Behind(s, n) => C!Behind(s, n)'
  BY BehindStays
<1>3. C!Behind(s, sweepCursor[s])' /\ (sweeps[s].at # "idle" => C!Behind(s, sweeps[s].from)')
  BY <1>1, <1>2 DEF C!SweepCovers, C!Behind
<1>4. C!SweepCovers(s)'
  BY <1>1, <1>3 DEF C!SweepCovers, LogGrows, C!Collected, C!Behind
<1> QED
  BY <1>3, <1>4

(* Writes and the passes' own steps keep the invariant.                    *)
LEMMA SweepStep == C!CatchUpInv /\ (C!Next \/ UNCHANGED sweepVars) => C!CatchUpInv'
<1> SUFFICES ASSUME C!CatchUpInv, C!Next \/ UNCHANGED sweepVars PROVE C!CatchUpInv'
  OBVIOUS
<1> USE DEF C!CatchUpInv, C!SweepTypes, SweepKinds
\* A step of one pass: what it must show of its own.
<1>1. ASSUME NEW s \in Sweep, LogGrows, C!SweepTypes',
             \A r \in Sweep \ {s} :
                 /\ sweeps'[r] = sweeps[r] /\ sweepCursor'[r] = sweepCursor[r]
                 /\ skipped'[r] = skipped[r] /\ swept'[r] = swept[r],
             C!SweepCovers(s)', C!Behind(s, sweepCursor[s])'
      PROVE  C!CatchUpInv'
  BY <1>1, OthersStay DEF C!NothingUnswept
<1>2. ASSUME LogGrows, sweepLog' \in Seq(SweepKinds), UNCHANGED <<sweeps, sweepCursor, skipped, swept>>
      PROVE  C!CatchUpInv'
  BY <1>2, OthersStay DEF C!NothingUnswept
<1>3. \A s \in Sweep : C!SweepCovers(s) /\ C!Behind(s, sweepCursor[s])
  BY DEF C!NothingUnswept
<1>4. sweepLog' = sweepLog => LogGrows
  BY DEF LogGrows
<1>5. ASSUME NEW kind \in {"written", "stub", "other"}, C!Commit(kind) PROVE C!CatchUpInv'
  <2>1. LogGrows
    BY <1>5 DEF C!Commit, LogGrows
  <2>2. sweepLog' \in Seq(SweepKinds)
    BY <1>5 DEF C!Commit
  <2> QED
    BY <1>2, <1>5, <2>1, <2>2 DEF C!Commit
<1>6. ASSUME NEW s \in Sweep, NEW from \in Nat, C!Begin(s, from), from <= Len(sweepLog), C!Behind(s, from)
      PROVE  C!CatchUpInv'
  <2>1. C!SweepTypes' /\ LogGrows
    BY ONLY C!SweepTypes, <1>4, <1>6 DEF C!SweepTypes, C!Begin, C!Idle
  <2>2. C!SweepCovers(s)' /\ C!Behind(s, sweepCursor[s])'
    BY <1>3, <1>6 DEF C!Begin, C!Idle, C!SweepCovers, C!Behind, C!Collected
  <2> QED
    BY <1>1, <1>6, <2>1, <2>2 DEF C!Begin
<1>7. ASSUME NEW s \in Sweep, C!RunMaintenance(s) \/ (s = "infer" /\ C!RunLinkInference) \/ C!OnDemand(s)
      PROVE  C!CatchUpInv'
  <2>1. C!Behind(s, 0)
    BY DEF C!Behind
  <2>2. sweepCursor[s] \in Nat /\ sweepCursor[s] <= Len(sweepLog) /\ C!Behind(s, sweepCursor[s])
    BY <1>3 DEF C!SweepCovers
  <2>3. C!Begin(s, 0) \/ C!Begin(s, sweepCursor[s])
    BY <1>7 DEF C!RunMaintenance, C!RunLinkInference, C!OnDemand
  <2>4. 0 <= Len(sweepLog)
    OBVIOUS
  <2> QED
    BY <1>6, <2>1, <2>2, <2>3, <2>4
<1>8. ASSUME NEW s \in Sweep, C!ReadHead(s) PROVE C!CatchUpInv'
  <2> DEFINE w == [sweeps[s] EXCEPT !.at = "headed", !.head = Len(sweepLog)]
  <2>a. /\ sweeps' = [sweeps EXCEPT ![s] = w] /\ LogGrows
        /\ UNCHANGED <<sweepLog, sweepCursor, skipped, swept>>
    BY <1>4, <1>8 DEF C!ReadHead
  <2>b. w \in [at : {"idle", "begun", "headed", "asking"}, from : Nat, head : Nat, got : SUBSET Nat]
    <3>1. sweeps[s] \in [at : {"idle", "begun", "headed", "asking"}, from : Nat, head : Nat,
                         got : SUBSET Nat]
      BY ONLY C!SweepTypes, <1>8 DEF C!SweepTypes
    <3>2. Len(sweepLog) \in Nat
      BY ONLY C!SweepTypes, LenProperties DEF C!SweepTypes
    <3> QED
      BY ONLY <3>1, <3>2
  <2>1. C!SweepTypes' /\ LogGrows
    <3> HIDE DEF w
    <3> QED
      BY ONLY C!SweepTypes, <2>a, <2>b DEF C!SweepTypes
  <2>2. C!SweepCovers(s)' /\ C!Behind(s, sweepCursor[s])'
    BY <1>3, <1>8 DEF C!ReadHead, C!SweepCovers, C!Behind, C!Collected
  <2> QED
    BY <1>1, <1>8, <2>1, <2>2 DEF C!ReadHead
\* The three ways a sweep ends with its cursor moved to n.
<1>9. ASSUME NEW s \in Sweep, NEW n \in Nat, NEW m \in Nat, NEW got \in SUBSET Nat,
             NEW recs \in Seq(SweepKinds),
             sweepLog' = sweepLog \o recs,
             sweepCursor' = [sweepCursor EXCEPT ![s] = n],
             skipped' = [skipped EXCEPT ![s] = m],
             swept' = [swept EXCEPT ![s] = @ \cup got],
             sweeps' = [sweeps EXCEPT ![s] = C!Idle],
             n <= Len(sweepLog), m <= Len(sweepLog),
             \A i \in (m + 1)..n : sweepLog[i] = C!Collected(s) => i \in swept[s] \cup got
      PROVE  C!CatchUpInv'
  <2>1. LogGrows /\ sweepLog' \in Seq(SweepKinds)
    BY <1>9, AppendGrows
  <2>2. C!SweepTypes'
    BY <1>9, <2>1 DEF C!Idle
  <2>3. C!Behind(s, n)'
    BY <1>9, <2>1 DEF C!Behind, LogGrows, C!Collected
  <2>4. C!SweepCovers(s)' /\ C!Behind(s, sweepCursor[s])'
    BY <1>9, <2>1, <2>3 DEF C!Idle, C!SweepCovers, LogGrows, C!Behind
  <2> QED
    BY <1>1, <1>9, <2>1, <2>2, <2>4
<1>10. ASSUME NEW s \in Sweep, C!CollectWrittenMemories(s) PROVE C!CatchUpInv'
  <2> DEFINE got == {i \in (sweeps[s].from + 1)..Len(sweepLog) : sweepLog[i] = C!Collected(s)}
             w == [sweeps[s] EXCEPT !.at = "asking", !.got = got]
  <2>a. /\ sweeps' = [sweeps EXCEPT ![s] = w] /\ LogGrows
        /\ UNCHANGED <<sweepLog, sweepCursor, skipped, swept>>
    BY <1>4, <1>10 DEF C!CollectWrittenMemories
  <2>b. got \subseteq Nat
    OBVIOUS
  <2>c. w \in [at : {"idle", "begun", "headed", "asking"}, from : Nat, head : Nat, got : SUBSET Nat]
    <3> HIDE DEF got
    <3> QED
      BY <2>b
  <2>1. C!SweepTypes' /\ LogGrows
    <3> HIDE DEF w
    <3> QED
      BY ONLY C!SweepTypes, <2>a, <2>c DEF C!SweepTypes
  <2>2. C!SweepCovers(s)' /\ C!Behind(s, sweepCursor[s])'
    BY <1>3, <1>10 DEF C!CollectWrittenMemories, C!SweepCovers, C!Behind, C!Collected
  <2> QED
    BY <1>1, <1>10, <2>1, <2>2 DEF C!CollectWrittenMemories
<1>11. ASSUME NEW s \in Sweep, C!Abandon(s) PROVE C!CatchUpInv'
  <2>1. C!SweepTypes' /\ LogGrows
    BY ONLY C!SweepTypes, <1>4, <1>11 DEF C!SweepTypes, C!Abandon, C!Idle
  <2>2. C!SweepCovers(s)' /\ C!Behind(s, sweepCursor[s])'
    BY <1>3, <1>11 DEF C!Abandon, C!Idle, C!SweepCovers, C!Behind, C!Collected
  <2> QED
    BY <1>1, <1>11, <2>1, <2>2 DEF C!Abandon
<1>12. ASSUME NEW boot \in BOOLEAN, C!Reseed(boot) PROVE C!CatchUpInv'
  <2>1. C!SweepTypes' /\ LogGrows
    BY ONLY C!SweepTypes, <1>4, <1>12 DEF C!SweepTypes, C!Reseed, C!Idle
  <2>2. ASSUME NEW s \in Sweep PROVE C!SweepCovers(s)' /\ C!Behind(s, sweepCursor[s])'
    <3>1. /\ skipped[s] <= skipped'[s] /\ swept' = swept
          /\ sweepCursor'[s] = Len(sweepLog) /\ skipped'[s] = Len(sweepLog)
          /\ sweeps'[s] = sweeps[s] \/ sweeps'[s].at = "idle"
          /\ sweepLog' = sweepLog
      BY <1>3, <1>12 DEF C!Reseed, C!SweepCovers, C!Idle
    <3>2. \A n \in Nat : n <= Len(sweepLog) /\ C!Behind(s, n) => C!Behind(s, n)'
      BY <2>1, <3>1, BehindStays
    <3>3. C!Behind(s, sweepCursor[s])'
      BY <3>1 DEF C!Behind
    <3>4. sweeps'[s].at # "idle" => C!Behind(s, sweeps[s].from)'
      BY <1>3, <2>1, <3>1, <3>2 DEF C!SweepCovers, C!Behind
    <3> QED
      BY <1>3, <3>1, <3>3, <3>4 DEF C!SweepCovers, C!Collected
  <2> QED
    BY <2>1, <2>2 DEF C!NothingUnswept
<1>13. CASE UNCHANGED sweepVars
  BY <1>2, <1>4, <1>13 DEF sweepVars
<1>a. << >> \in Seq(SweepKinds) /\ <<"other">> \in Seq(SweepKinds) /\ <<"written">> \in Seq(SweepKinds)
  BY ONLY DEF SweepKinds
<1>14. ASSUME NEW s \in Sweep PROVE C!Record(s) \in Seq(SweepKinds)
  BY ONLY <1>a DEF C!Record
<1>15. ASSUME NEW s \in Sweep, C!UpToDate(s) PROVE C!CatchUpInv'
  <2>1. swept' = [swept EXCEPT ![s] = @ \cup {}] /\ skipped' = [skipped EXCEPT ![s] = skipped[s]]
    BY <1>15 DEF C!UpToDate
  <2>2. /\ sweeps[s].from \in Nat /\ sweeps[s].from <= Len(sweepLog) /\ skipped[s] \in Nat
        /\ skipped[s] <= Len(sweepLog) /\ C!Behind(s, sweeps[s].from)
    BY <1>3, <1>15 DEF C!UpToDate, C!SweepCovers
  <2> QED
    BY <1>9, <1>14, <1>15, <2>1, <2>2 DEF C!UpToDate, C!Behind
<1>16. ASSUME NEW s \in Sweep, C!NoTemplate(s) PROVE C!CatchUpInv'
  <2> DEFINE m == IF skipped[s] < sweeps[s].head THEN sweeps[s].head ELSE skipped[s]
  <2>1. swept' = [swept EXCEPT ![s] = @ \cup {}] /\ skipped' = [skipped EXCEPT ![s] = m]
    BY <1>16 DEF C!NoTemplate
  <2>2. /\ sweeps[s].head \in Nat /\ sweeps[s].head <= Len(sweepLog)
        /\ m \in Nat /\ m <= Len(sweepLog) /\ sweeps[s].head <= m
    BY <1>3, <1>16 DEF C!NoTemplate, C!SweepCovers
  <2> HIDE DEF m
  <2>3. \A i \in (m + 1)..sweeps[s].head : FALSE
    BY <2>2
  <2> QED
    BY <1>9, <1>14, <1>16, <2>1, <2>2, <2>3 DEF C!NoTemplate
<1>17. ASSUME NEW s \in Sweep, NEW effects \in Seq(SweepKinds), C!Finish(s, effects)
       PROVE  C!CatchUpInv'
  <2> DEFINE recs == effects \o C!Record(s)
             got == sweeps[s].got
             n == sweeps[s].head
             m == skipped[s]
  <2>1. recs \in Seq(SweepKinds) /\ sweepLog' = sweepLog \o recs
    <3>1. sweepLog' = (sweepLog \o effects) \o C!Record(s)
      BY <1>17 DEF C!Finish
    <3>2. C!Record(s) \in Seq(SweepKinds) /\ sweepLog \in Seq(SweepKinds)
      BY <1>14
    <3> QED
      BY ONLY <1>17, <3>1, <3>2, ConcatAssociative, ConcatProperties
  <2>2. /\ sweepCursor' = [sweepCursor EXCEPT ![s] = n] /\ skipped' = [skipped EXCEPT ![s] = m]
        /\ swept' = [swept EXCEPT ![s] = @ \cup got] /\ sweeps' = [sweeps EXCEPT ![s] = C!Idle]
    BY <1>17 DEF C!Finish, C!SweptTo
  <2>3. /\ n \in Nat /\ m \in Nat /\ n <= Len(sweepLog) /\ m <= Len(sweepLog) /\ got \in SUBSET Nat
        /\ sweeps[s].from \in Nat /\ C!Behind(s, sweeps[s].from)
        /\ \A i \in (sweeps[s].from + 1)..n : sweepLog[i] = C!Collected(s) => i \in got
    BY <1>3, <1>17 DEF C!Finish, C!SweepCovers
  <2>4. \A i \in (m + 1)..n : sweepLog[i] = C!Collected(s) => i \in swept[s] \cup got
    BY <2>3 DEF C!Behind
  <2> HIDE DEF recs, got, n, m
  <2> QED
    BY <1>9, <2>1, <2>2, <2>3, <2>4
<1>18. ASSUME NEW s \in Sweep, NEW effects \in C!Effects(s) PROVE effects \in Seq(SweepKinds)
  BY ONLY <1>18, <1>a DEF C!Effects
<1> QED
  BY <1>5, <1>7, <1>8, <1>10, <1>11, <1>12, <1>13, <1>15, <1>16, <1>17, <1>18, SweepAssumption
     DEF C!Next, C!LinkInferenceCatchUp, C!MaintenanceCatchUp

(* No write below the cursor of a pass was passed by (catch_up), up to     *)
(* what the pass was told to skip, for any passes and bounds.              *)
THEOREM SweepsMissNothing == ServicesSpec => []NothingUnswept
<1>1. ServicesInit => C!CatchUpInv
  BY SweepInitial DEF ServicesInit
<1>2. C!CatchUpInv /\ [ServicesNext]_services => C!CatchUpInv'
  BY SweepStep DEF ServicesNext, services
<1>3. C!CatchUpInv => NothingUnswept
  BY DEF C!CatchUpInv, NothingUnswept
<1> QED
  BY <1>1, <1>2, <1>3, PTL DEF ServicesSpec

-----------------------------------------------------------------------------
(* The describer.                                                          *)

(* The instance counts as the library does.                                *)
LEMMA DescriberCounts == ASSUME NEW T PROVE D!Cardinality(T) = Cardinality(T)
BY DEF D!Cardinality, Cardinality

(* No memory has changed before the describer starts.                      *)
LEMMA DescriberInitial == D!Init => D!DescriberInv
BY DEF D!Init, D!Idle, D!DescriberInv, D!DescriberTypes, D!DescribedOncePerChange

\* A pass left with fewer memories, or with none, is still typed.
LEMMA RestTyped ==
    ASSUME D!DescriberTypes, NEW p \in Passes, NEW m
    PROVE  /\ DOMAIN D!Rest(passes[p], m).todo \subseteq Mem
           /\ D!Rest(passes[p], m).eligible = {} /\ D!Rest(passes[p], m).challengeable = {}
           /\ D!Rest(passes[p], m).from = 0
BY DEF D!DescriberTypes, D!Rest, D!Idle, D!Restrict

\* Every step but a read and a completion keeps the marks.
LEMMA MarksKept ==
    ASSUME D!DescriberInv, D!DescriberTypes', UNCHANGED <<described, seen, wasted>>
    PROVE  D!DescriberInv'
BY DEF D!DescriberInv, D!DescribedOncePerChange

(* Changes, walks and passes keep the invariant.                           *)
LEMMA DescriberStep == D!DescriberInv /\ (D!Next \/ UNCHANGED describerVars) => D!DescriberInv'
<1> SUFFICES ASSUME D!DescriberInv, D!Next \/ UNCHANGED describerVars PROVE D!DescriberInv'
  OBVIOUS
<1>a. D!DescriberTypes /\ (\A m \in Mem : seen[m] <= described[m]) /\ ~wasted
  BY DEF D!DescriberInv, D!DescribedOncePerChange
<1>1. ASSUME NEW e \in Entry, D!Write(e) PROVE D!DescriberInv'
  <2>1. head' \in Nat /\ head <= head' /\ content' \in [Mem -> Nat]
    <3>1. head' = head + 1 /\ content' = [content EXCEPT ![On[e]] = head'] /\ head \in Nat /\ content \in [Mem -> Nat]
      BY <1>a, <1>1 DEF D!Write, D!DescriberTypes
    <3>2. head' \in Nat /\ head <= head'
      BY ONLY <3>1
    <3> QED
      BY ONLY <3>1, <3>2
  <2>2. D!DescriberTypes'
    BY <1>a, <1>1, <2>1 DEF D!Write, D!DescriberTypes
  <2> QED
    BY <1>1, <2>2, MarksKept DEF D!Write
<1>2. ASSUME NEW e \in Entry, D!Retire(e) PROVE D!DescriberInv'
  <2>1. D!DescriberTypes'
    BY <1>a, <1>2 DEF D!Retire, D!DescriberTypes
  <2> QED
    BY <1>2, <2>1, MarksKept DEF D!Retire
<1>3. ASSUME NEW m \in Mem, D!Rename(m) PROVE D!DescriberInv'
  <2>1. D!DescriberTypes'
    BY <1>a, <1>3 DEF D!Rename, D!DescriberTypes
  <2> QED
    BY <1>3, <2>1, MarksKept DEF D!Rename
\* A step that sets the state of one pass.
<1>4. ASSUME NEW p \in Passes, NEW w, passes' = [passes EXCEPT ![p] = w],
             DOMAIN w.todo \subseteq Mem, w.eligible \subseteq Entry, w.challengeable \subseteq Entry,
             w.from \in Nat, w.from <= head, head' \in Nat, head <= head',
             content' = content, described' \in [Mem -> Nat], seen' \in [Mem -> Nat]
      PROVE  D!DescriberTypes'
  BY <1>a, <1>4 DEF D!DescriberTypes
<1>5. ASSUME NEW p \in Passes, D!RunCatchUp(p) PROVE D!DescriberInv'
  <2> DEFINE w == [D!Idle EXCEPT !.at = "walking", !.todo = D!Listed(Scope[p])]
  <2>1. DOMAIN w.todo \subseteq Mem /\ w.eligible = {} /\ w.challengeable = {} /\ w.from = 0
    BY DescriberAssumption DEF D!Idle, D!Listed, D!StaleMemories
  <2>2. passes' = [passes EXCEPT ![p] = w] /\ UNCHANGED <<head, content, described, seen, wasted>>
    BY <1>5 DEF D!RunCatchUp
  <2> HIDE DEF w
  <2>3. D!DescriberTypes'
    BY <1>4, <1>a, <2>1, <2>2 DEF D!DescriberTypes
  <2> QED
    BY <2>2, <2>3, MarksKept
<1>6. ASSUME NEW p \in Passes, NEW m, D!Skip(p, m) PROVE D!DescriberInv'
  <2> DEFINE w == D!Rest(passes[p], m)
  <2>1. DOMAIN w.todo \subseteq Mem /\ w.eligible = {} /\ w.challengeable = {} /\ w.from = 0
    BY <1>a, RestTyped
  <2>2. passes' = [passes EXCEPT ![p] = w] /\ UNCHANGED <<head, content, described, seen, wasted>>
    BY <1>6 DEF D!Skip
  <2> HIDE DEF w
  <2>3. D!DescriberTypes'
    BY <1>4, <1>a, <2>1, <2>2 DEF D!DescriberTypes
  <2> QED
    BY <2>2, <2>3, MarksKept
<1>7. ASSUME NEW p \in Passes, NEW m \in D!Current(passes[p].todo), D!Read(p, m)
      PROVE  D!DescriberInv'
  <2>1. m \in Mem
    BY <1>a, <1>7 DEF D!Current, D!DescriberTypes
  <2>2. content[m] > described[m]
    BY <1>7 DEF D!Read, D!StillStale, D!Stale
  <2>3. ~wasted'
    <3>1. wasted' = (wasted \/ content[m] <= seen[m])
      BY <1>7 DEF D!Read
    <3>2. ~(content[m] <= seen[m])
      BY <1>a, <2>1, <2>2 DEF D!DescriberTypes
    <3> QED
      BY <1>a, <3>1, <3>2
  <2>4. PICK w : /\ passes' = [passes EXCEPT ![p] = w]
                 /\ w.todo = passes[p].todo /\ w.from = head
                 /\ w.eligible \subseteq Entry /\ w.challengeable \subseteq Entry
    <3> DEFINE shown(postures) == {e \in D!Since(m, 0) : PostureOf[e] \in postures}
               eligible == D!UntimedEntriesSince(m, described[m])
               challengeable == D!TimedEntriesSince(m, described[m])
               w == [passes[p] EXCEPT
                        !.at = "asking", !.since = described[m], !.from = head,
                        !.public = shown({"public"}), !.attributed = shown({"public", "attributed"}),
                        !.private = shown({"attributed", "private"}) \cap (eligible \cup challengeable),
                        !.eligible = eligible, !.challengeable = challengeable]
    <3>1. passes' = [passes EXCEPT ![p] = w]
      BY <1>7 DEF D!Read
    <3>2. eligible \subseteq Entry /\ challengeable \subseteq Entry
      BY DEF D!UntimedEntriesSince, D!TimedEntriesSince, D!Since
    <3>3. w.todo = passes[p].todo /\ w.from = head /\ w.eligible = eligible /\ w.challengeable = challengeable
      OBVIOUS
    <3> QED
      BY <3>1, <3>2, <3>3
  <2>5. UNCHANGED <<head, content, described, seen>>
    BY <1>7 DEF D!Read
  <2>6. D!DescriberTypes'
    BY <1>4, <1>a, <2>4, <2>5 DEF D!DescriberTypes
  <2> QED
    BY <1>a, <2>3, <2>5, <2>6 DEF D!DescriberInv, D!DescribedOncePerChange
<1>8. ASSUME NEW p \in Passes, NEW m \in D!Current(passes[p].todo),
             NEW dates \in D!DatesOn(passes[p].eligible),
             NEW withdrawals \in SUBSET passes[p].challengeable,
             NEW texts \in SUBSET {"regenerated", "arbitrated"},
             D!Complete(p, m, dates, withdrawals, texts)
      PROVE  D!DescriberInv'
  <2>1. m \in Mem /\ passes[p].from \in Nat /\ passes[p].from <= head /\ head \in Nat
    BY <1>a, <1>8 DEF D!Current, D!DescriberTypes
  <2>2. /\ Cardinality(DOMAIN dates) \in Nat /\ Cardinality(withdrawals) \in Nat
        /\ Cardinality(D!Events(passes[p], texts)) \in Nat
    <3>1. DOMAIN dates \subseteq Entry /\ withdrawals \subseteq Entry
      BY <1>a DEF D!DescriberTypes, D!DatesOn
    <3>2. IsFiniteSet({"regenerated", "arbitrated"})
      <4>1. IsFiniteSet({"regenerated"}) /\ IsFiniteSet({"arbitrated"})
        BY FS_Singleton
      <4>2. {"regenerated", "arbitrated"} = {"regenerated"} \cup {"arbitrated"}
        OBVIOUS
      <4>3. IsFiniteSet({"regenerated"} \cup {"arbitrated"})
        BY ONLY <4>1, FS_Union, Zenon
      <4> QED
        BY ONLY <4>2, <4>3, Zenon
    <3>3. D!Events(passes[p], texts) \subseteq {"regenerated", "arbitrated"}
      BY DEF D!Events
    <3> QED
      BY <3>1, <3>2, <3>3, DescriberAssumption, FS_Subset, FS_CardinalityType
  <2>3. head' \in Nat /\ head < head'
    <3> DEFINE a == Cardinality(DOMAIN dates)
               b == Cardinality(withdrawals)
               c == Cardinality(D!Events(passes[p], texts))
    <3>1. head' = head + a + b + c + 1
      BY ONLY <1>8, DescriberCounts, Zenon DEF D!Complete
    <3> HIDE DEF a, b, c
    <3> QED
      BY ONLY <2>1, <2>2, <3>1 DEF a, b, c
  <2> DEFINE w == D!Rest(passes[p], m)
  <2>4. DOMAIN w.todo \subseteq Mem /\ w.eligible = {} /\ w.challengeable = {} /\ w.from = 0
    BY <1>a, RestTyped
  <2>5. /\ passes' = [passes EXCEPT ![p] = w] /\ UNCHANGED <<content, wasted>>
        /\ described' = [described EXCEPT ![m] = head'] /\ seen' = [seen EXCEPT ![m] = passes[p].from]
    BY <1>8 DEF D!Complete
  <2> HIDE DEF w
  <2>6. described' \in [Mem -> Nat] /\ seen' \in [Mem -> Nat]
    BY <1>a, <2>1, <2>3, <2>5 DEF D!DescriberTypes
  <2>7. D!DescriberTypes'
    BY <1>4, <1>a, <2>3, <2>4, <2>5, <2>6 DEF D!DescriberTypes
  <2>8. \A n \in Mem : seen'[n] <= described'[n]
    BY <1>a, <2>1, <2>3, <2>5 DEF D!DescriberTypes
  <2> QED
    BY <1>a, <2>5, <2>7, <2>8 DEF D!DescriberInv, D!DescribedOncePerChange
<1>9. ASSUME NEW p \in Passes, D!Fail(p) PROVE D!DescriberInv'
  <2>1. D!DescriberTypes'
    BY <1>a, <1>9 DEF D!Fail, D!Idle, D!DescriberTypes
  <2> QED
    BY <1>9, <2>1, MarksKept DEF D!Fail
<1>10. CASE D!Crash
  <2>1. D!DescriberTypes'
    BY <1>a, <1>10 DEF D!Crash, D!Idle, D!DescriberTypes
  <2> QED
    BY <1>10, <2>1, MarksKept DEF D!Crash
<1>11. CASE UNCHANGED describerVars
  <2>1. D!DescriberTypes'
    BY <1>a, <1>11 DEF describerVars, D!DescriberTypes
  <2> QED
    BY <1>11, <2>1, MarksKept DEF describerVars
<1> QED
  BY <1>1, <1>2, <1>3, <1>5, <1>6, <1>7, <1>8, <1>9, <1>10, <1>11, DescriberAssumption
     DEF D!Next, D!RunDescriber, D!DescribeCatchUpFor

(* No memory is described twice for one change of it (describe_memories),  *)
(* for any memories, entries and passes.                                   *)
THEOREM DescribedOnce == ServicesSpec => []DescribedOncePerChange
<1>1. ServicesInit => D!DescriberInv
  BY DescriberInitial DEF ServicesInit
<1>2. D!DescriberInv /\ [ServicesNext]_services => D!DescriberInv'
  BY DescriberStep DEF ServicesNext, services
<1>3. D!DescriberInv => DescribedOncePerChange
  BY DEF D!DescriberInv, DescribedOncePerChange
<1> QED
  BY <1>1, <1>2, <1>3, PTL DEF ServicesSpec

-----------------------------------------------------------------------------
(* A set of naturals has a least member, and a bounded one a greatest.     *)
LEMMA LeastNatural ==
    ASSUME NEW T, T \subseteq Nat, T # {}
    PROVE  \E n \in T : \A k \in T : n <= k
<1>1. PICK n \in T : \A k \in T : <<k, n>> \notin OpToRel(<, Nat)
  BY NatLessThanWellFounded, WFMin
<1>2. \A k \in T : ~(k < n)
  BY <1>1 DEF OpToRel
<1> QED
  BY <1>2

(* A bounded set of naturals that is not empty has a greatest one.         *)
LEMMA GreatestNatural ==
    ASSUME NEW n \in Nat, NEW T, T \subseteq 0..n, T # {}
    PROVE  \E i \in T : \A j \in T : j <= i
<1> DEFINE U == {n - i : i \in T}
<1>1. U \subseteq Nat /\ U # {}
  <2>1. \A i \in T : i \in 0..n /\ n - i \in Nat
    OBVIOUS
  <2> QED
    BY <2>1
<1> HIDE DEF U
<1>2. PICK u \in U : \A v \in U : u <= v
  BY <1>1, LeastNatural
<1>3. PICK i \in T : u = n - i
  BY DEF U
<1>4. ASSUME NEW j \in T PROVE j <= i
  <2>1. n - j \in U
    BY DEF U
  <2> QED
    BY <1>2, <1>3, <2>1
<1> QED
  BY <1>4
-----------------------------------------------------------------------------
(* The indexer.                                                            *)

(* What an event leaves on the keys of an entry and of a description.      *)
LEMMA EventTouches ==
    ASSUME X!IndexTypes, NEW i \in DOMAIN indexLog
    PROVE  /\ \A e \in IndexEntry :
                /\ X!Touches(i, X!EntryKey(e)) <=> X!Is(i, "appended", e) \/ X!Is(i, "retired", e)
                /\ X!Is(i, "appended", e) => X!OpsOf(indexLog[i])[X!EntryKey(e)] = "embed"
                /\ X!Is(i, "retired", e) => /\ X!Touches(i, X!EntryContextual(e))
                                            /\ X!OpsOf(indexLog[i])[X!EntryKey(e)] = "remove"
                                            /\ X!OpsOf(indexLog[i])[X!EntryContextual(e)] = "remove"
                /\ X!Touches(i, X!EntryContextual(e)) => X!Is(i, "appended", e) \/ X!Is(i, "retired", e)
           /\ \A m \in IndexMem :
                /\ X!Touches(i, X!Description(m)) <=> X!Is(i, "regenerated", m) \/ X!Is(i, "deleted", m)
                /\ X!Is(i, "regenerated", m) => X!OpsOf(indexLog[i])[X!Description(m)] = "embed"
<1> DEFINE ev == indexLog[i]
<1>1. ev.type \in {"appended", "retired", "regenerated", "deleted", "model_changed"}
  <2> DEFINE R == [type : {"appended", "retired", "regenerated", "deleted", "model_changed"},
                   id : IndexEntry \cup IndexMem \cup {0}]
  <2>1. indexLog \in Seq(R)
    BY DEF X!IndexTypes
  <2> HIDE DEF R
  <2>2. ev \in R
    BY <2>1
  <2> QED
    BY <2>2 DEF R
<1> USE DEF X!Touches, X!Is, X!EntryKey, X!EntryContextual, X!Description
<1>2. CASE ev.type = "appended"
  <2>1. X!OpsOf(ev) = [k \in {X!EntryKey(ev.id)} \cup
                        (IF X!Deleted(IndexOn[ev.id]) THEN {} ELSE {X!EntryContextual(ev.id)}) |-> "embed"]
    BY <1>2 DEF X!OpsOf
  <2> QED
    BY <1>2, <2>1
<1>3. CASE ev.type = "retired"
  <2>1. X!OpsOf(ev) = [k \in {X!EntryKey(ev.id), X!EntryContextual(ev.id)} |-> "remove"]
    BY <1>3 DEF X!OpsOf
  <2> QED
    BY <1>3, <2>1
<1>4. CASE ev.type = "regenerated"
  <2>1. X!OpsOf(ev) = [k \in {X!Description(ev.id)} |-> "embed"]
    BY <1>4 DEF X!OpsOf
  <2> QED
    BY <1>4, <2>1
<1>5. CASE ev.type = "deleted"
  <2>1. X!OpsOf(ev) = [k \in {X!Description(ev.id)} |-> "remove"]
    BY <1>5 DEF X!OpsOf
  <2> QED
    BY <1>5, <2>1
<1>6. CASE ev.type = "model_changed"
  <2>1. X!OpsOf(ev) = << >>
    BY <1>6 DEF X!OpsOf
  <2>2. DOMAIN X!OpsOf(ev) = {}
    BY <2>1
  <2> QED
    BY <1>6, <2>2
<1> QED
  BY <1>1, <1>2, <1>3, <1>4, <1>5, <1>6

(* A batch holds, for each key its events touch, what the last of them left. *)
LEMMA LastWins ==
    ASSUME X!IndexTypes, NEW k \in X!Key
    PROVE  LET ops == X!Pending(indexCursor + 1, Len(indexLog)) IN
           /\ k \in DOMAIN ops <=> \E i \in (indexCursor + 1)..Len(indexLog) : X!Touches(i, k)
           /\ k \in DOMAIN ops => \E i \in (indexCursor + 1)..Len(indexLog) :
                  /\ X!Touches(i, k) /\ ops[k] = X!OpsOf(indexLog[i])[k]
                  /\ \A j \in (indexCursor + 1)..Len(indexLog) : X!Touches(j, k) => j <= i
<1> DEFINE from == indexCursor + 1
           upto == Len(indexLog)
           T == {i \in from..upto : X!Touches(i, k)}
           ops == X!Pending(from, upto)
<1>1. from \in Nat /\ upto \in Nat
  BY DEF X!IndexTypes
<1> HIDE DEF from, upto
<1>2. k \in DOMAIN ops <=> \E i \in from..upto : X!Touches(i, k)
  BY DEF X!Pending
<1>3. ASSUME k \in DOMAIN ops
      PROVE  \E i \in from..upto : /\ X!Touches(i, k) /\ ops[k] = X!OpsOf(indexLog[i])[k]
                                   /\ \A j \in from..upto : X!Touches(j, k) => j <= i
  <2>1. T \subseteq 0..upto /\ T # {}
    BY <1>1, <1>2, <1>3
  <2>2. \E i \in T : \A j \in T : j <= i
    BY <1>1, <2>1, GreatestNatural
  <2>3. \E i \in from..upto : X!Touches(i, k) /\ \A j \in from..upto : X!Touches(j, k) => j <= i
    BY <2>2
  <2> DEFINE t == X!LastTouch(k, from, upto)
  <2>4. t \in from..upto /\ X!Touches(t, k) /\ \A j \in from..upto : X!Touches(j, k) => j <= t
    BY <2>3 DEF X!LastTouch
  <2>5. ops[k] = X!OpsOf(indexLog[t])[k]
    BY <1>3 DEF X!Pending
  <2> QED
    BY <2>4, <2>5
<1> QED
  BY <1>2, <1>3 DEF from, upto

(* An index starts empty, at the log's start.                              *)
LEMMA IndexInitial == X!Init => X!IndexInv
<1> SUFFICES ASSUME X!Init PROVE X!IndexInv
  OBVIOUS
<1> USE DEF X!Init, X!NoBatch
<1>1. X!IndexTypes
  BY DEF X!IndexTypes
<1>2. X!RetiredAfter /\ X!RecordedModels \subseteq {configured}
  BY DEF X!RetiredAfter, X!RecordedModels
<1>3. \A key, added, removed, id : X!Kept(key, added, removed, id)
  BY DEF X!Kept, X!Alive
<1>4. \A key, e : X!Freed(key, e)
  BY DEF X!Freed, X!Gone
<1> QED
  BY <1>1, <1>2, <1>3, <1>4 DEF X!IndexInv

(* A longer log kills, and the past stays past.                            *)
LEMMA LogLengthens ==
    ASSUME X!IndexTypes, NEW ev, indexLog' = Append(indexLog, ev),
           ev \in [type : {"appended", "retired", "regenerated", "deleted", "model_changed"},
                   id : IndexEntry \cup IndexMem \cup {0}]
    PROVE  /\ Len(indexLog') = Len(indexLog) + 1 /\ indexLog'[Len(indexLog) + 1] = ev
           /\ \A i \in 1..Len(indexLog) : indexLog'[i] = indexLog[i]
           /\ indexLog' \in Seq([type : {"appended", "retired", "regenerated", "deleted", "model_changed"},
                                id : IndexEntry \cup IndexMem \cup {0}])
           /\ \A n \in 0..Len(indexLog) :
                /\ \A e : X!Gone(e, n)' <=> X!Gone(e, n)
                /\ \A added, removed, id :
                     X!Alive(added, removed, id, n)' => X!Alive(added, removed, id, n)
<1>1. /\ Len(indexLog') = Len(indexLog) + 1 /\ indexLog'[Len(indexLog) + 1] = ev
      /\ \A i \in 1..Len(indexLog) : indexLog'[i] = indexLog[i]
      /\ indexLog' \in Seq([type : {"appended", "retired", "regenerated", "deleted", "model_changed"},
                           id : IndexEntry \cup IndexMem \cup {0}])
      /\ Len(indexLog) \in Nat
  BY DEF X!IndexTypes
<1>2. ASSUME NEW n \in 0..Len(indexLog), NEW e PROVE X!Gone(e, n)' <=> X!Gone(e, n)
  BY <1>1 DEF X!Gone, X!Is
<1>3. ASSUME NEW n \in 0..Len(indexLog), NEW added, NEW removed, NEW id, X!Alive(added, removed, id, n)'
      PROVE  X!Alive(added, removed, id, n)
  BY <1>1, <1>3 DEF X!Alive, X!Is
<1> QED
  BY <1>1, <1>2, <1>3

(* What is kept and freed stays so while nothing touches the index.        *)
LEMMA KeysStand ==
    ASSUME X!IndexInv, X!IndexTypes', UNCHANGED vectors,
           \/ indexLog' = indexLog
           \/ \E ev \in [type : {"appended", "retired", "regenerated", "deleted", "model_changed"},
                          id : IndexEntry \cup IndexMem \cup {0}] : indexLog' = Append(indexLog, ev),
           indexCursor' = indexCursor,
           batch'.at = "idle" \/ (batch'.ops = batch.ops /\ batch'.last = batch.last /\ batch.at # "idle")
    PROVE  /\ \A e \in IndexEntry :
                X!Kept(X!EntryKey(e), "appended", "retired", e)' /\ X!Freed(X!EntryKey(e), e)'
                    /\ X!Freed(X!EntryContextual(e), e)'
           /\ \A m \in IndexMem : X!Kept(X!Description(m), "regenerated", "deleted", m)'
<1>1. /\ X!IndexTypes /\ indexCursor \in 0..Len(indexLog)
      /\ batch.at # "idle" => batch.last \in 0..Len(indexLog)
  BY DEF X!IndexInv, X!IndexTypes
<1>2. \A n \in 0..Len(indexLog) :
          /\ \A e : X!Gone(e, n)' <=> X!Gone(e, n)
          /\ \A added, removed, id :
               X!Alive(added, removed, id, n)' => X!Alive(added, removed, id, n)
  <2>1. CASE indexLog' = indexLog
    BY <2>1 DEF X!Gone, X!Alive, X!Is
  <2> QED
    BY <1>1, <2>1, LogLengthens
<1>3. ASSUME NEW key, NEW added, NEW removed, NEW id, X!Kept(key, added, removed, id)
      PROVE  X!Kept(key, added, removed, id)'
  BY <1>1, <1>2, <1>3 DEF X!Kept, X!Absent
<1>4. ASSUME NEW key, NEW e, X!Freed(key, e) PROVE X!Freed(key, e)'
  BY <1>1, <1>2, <1>4 DEF X!Freed, X!Absent
<1> QED
  BY <1>3, <1>4 DEF X!IndexInv, X!EntryKey, X!EntryContextual, X!Description

(* The end of a batch read up to the head, for what it adds.               *)
LEMMA ReadKeeps ==
    ASSUME X!IndexTypes, NEW key \in X!Key, NEW added, NEW removed, NEW id,
           \A i \in 1..Len(indexLog) :
               /\ X!Touches(i, key) <=> X!Is(i, added, id) \/ X!Is(i, removed, id)
               /\ X!Is(i, added, id) => X!OpsOf(indexLog[i])[key] = "embed",
           X!Alive(added, removed, id, indexCursor) => vectors[key] # "absent",
           X!Alive(added, removed, id, Len(indexLog))
    PROVE  LET ops == X!Pending(indexCursor + 1, Len(indexLog)) IN
           IF key \in DOMAIN ops THEN ops[key] = "embed" ELSE vectors[key] # "absent"
<1> DEFINE ops == X!Pending(indexCursor + 1, Len(indexLog))
<1>0. indexCursor \in Nat /\ Len(indexLog) \in Nat /\ indexCursor <= Len(indexLog)
  BY DEF X!IndexTypes
<1>1. PICK i \in 1..Len(indexLog) :
          X!Is(i, added, id) /\ \A j \in (i + 1)..Len(indexLog) : ~X!Is(j, removed, id)
  BY DEF X!Alive
<1>2. CASE key \in DOMAIN ops
  <2>1. PICK j \in (indexCursor + 1)..Len(indexLog) :
            /\ X!Touches(j, key) /\ ops[key] = X!OpsOf(indexLog[j])[key]
            /\ \A l \in (indexCursor + 1)..Len(indexLog) : X!Touches(l, key) => l <= j
    BY <1>2, LastWins
  <2>2. j \in 1..Len(indexLog)
    BY <1>0
  <2>3. i <= j \/ i <= indexCursor
    BY <1>0, <1>1, <2>1
  <2>4. X!Is(j, added, id) \/ X!Is(j, removed, id)
    BY <2>1, <2>2
  <2>5. i < j => X!Is(j, added, id)
    BY <1>1, <2>2, <2>4
  <2>6. i = j \/ i < j
    BY <1>0, <2>1, <2>3
  <2>7. X!Is(j, added, id)
    BY <1>1, <2>5, <2>6
  <2> QED
    BY <1>2, <2>1, <2>2, <2>7
<1>3. CASE key \notin DOMAIN ops
  <2>1. ~(i \in (indexCursor + 1)..Len(indexLog))
    BY <1>1, <1>3, LastWins
  <2>2. i \in 1..indexCursor
    BY <1>0, <2>1
  <2> QED
    BY <1>1, <1>3, <2>2 DEF X!Alive
<1> QED
  BY <1>2, <1>3

(* The same, for what it removes.                                          *)
LEMMA ReadFrees ==
    ASSUME X!IndexTypes, X!RetiredAfter, NEW e \in IndexEntry, NEW key \in X!Key,
           \A i \in 1..Len(indexLog) :
               /\ X!Touches(i, key) => X!Is(i, "appended", e) \/ X!Is(i, "retired", e)
               /\ X!Is(i, "retired", e) =>
                     X!Touches(i, key) /\ X!OpsOf(indexLog[i])[key] = "remove",
           X!Gone(e, indexCursor) => vectors[key] = "absent",
           X!Gone(e, Len(indexLog))
    PROVE  LET ops == X!Pending(indexCursor + 1, Len(indexLog)) IN
           IF key \in DOMAIN ops THEN ops[key] = "remove" ELSE vectors[key] = "absent"
<1> DEFINE ops == X!Pending(indexCursor + 1, Len(indexLog))
<1>0. indexCursor \in Nat /\ Len(indexLog) \in Nat /\ indexCursor <= Len(indexLog)
  BY DEF X!IndexTypes
<1>1. PICK i \in 1..Len(indexLog) : X!Is(i, "retired", e)
  BY DEF X!Gone
<1>a. \A j \in 1..Len(indexLog) : i < j => ~X!Is(j, "appended", e)
  BY <1>1 DEF X!RetiredAfter, X!IndexTypes
<1>2. CASE key \in DOMAIN ops
  <2>1. PICK j \in (indexCursor + 1)..Len(indexLog) :
            /\ X!Touches(j, key) /\ ops[key] = X!OpsOf(indexLog[j])[key]
            /\ \A l \in (indexCursor + 1)..Len(indexLog) : X!Touches(l, key) => l <= j
    BY <1>2, LastWins
  <2>2. j \in 1..Len(indexLog)
    BY <1>0
  <2>3. i <= j
    BY <1>0, <1>1, <2>1
  <2>4. X!Is(j, "appended", e) \/ X!Is(j, "retired", e)
    BY <2>1, <2>2
  <2>5. X!Is(j, "retired", e)
    BY <1>1, <1>a, <2>2, <2>3, <2>4 DEF X!Is
  <2> QED
    BY <1>2, <2>1, <2>2, <2>5
<1>3. CASE key \notin DOMAIN ops
  <2>1. ~(i \in (indexCursor + 1)..Len(indexLog))
    BY <1>1, <1>3, LastWins
  <2>2. i \in 1..indexCursor
    BY <1>0, <2>1
  <2> QED
    BY <1>1, <1>3, <2>2 DEF X!Gone
<1> QED
  BY <1>2, <1>3

(* The log's writes, the batches and the crashes keep the invariant.       *)
LEMMA IndexStep == X!IndexInv /\ (X!Next \/ UNCHANGED indexVars) => X!IndexInv'
<1> SUFFICES ASSUME X!IndexInv, X!Next \/ UNCHANGED indexVars PROVE X!IndexInv'
  OBVIOUS
<1> DEFINE Ev == [type : {"appended", "retired", "regenerated", "deleted", "model_changed"},
                  id : IndexEntry \cup IndexMem \cup {0}]
<1>a. /\ X!IndexTypes /\ X!RetiredAfter
      /\ phase # "down" => X!RecordedModels \subseteq {configured}
      /\ \A e \in IndexEntry :
           X!Kept(X!EntryKey(e), "appended", "retired", e) /\ X!Freed(X!EntryKey(e), e)
               /\ X!Freed(X!EntryContextual(e), e)
      /\ \A m \in IndexMem : X!Kept(X!Description(m), "regenerated", "deleted", m)
  BY DEF X!IndexInv
<1>b. /\ indexLog \in Seq(Ev)
      /\ vectors \in [X!Key -> Models \cup {"absent"}] /\ configured \in Models
      /\ phase \in {"serving", "reembedding", "down"}
      /\ indexCursor \in 0..Len(indexLog)
      /\ batch = [at |-> batch.at, ops |-> batch.ops, last |-> batch.last]
      /\ batch.at \in {"idle", "embedding", "applying"}
      /\ DOMAIN batch.ops \subseteq X!Key
      /\ batch.at # "idle" => batch.last \in indexCursor..Len(indexLog) /\ phase # "down"
  BY <1>a DEF X!IndexTypes, X!Absent
<1> HIDE DEF Ev
\* Steps that touch neither the log's order, the models nor the index.
<1>c. ASSUME UNCHANGED indexLog PROVE X!RetiredAfter'
  BY <1>a, <1>c DEF X!RetiredAfter, X!Is, X!Appended
<1>d. ASSUME NEW ev \in Ev, indexLog' = Append(indexLog, ev),
             \A e \in IndexEntry :
                /\ ev.type = "appended" /\ ev.id = e => ~X!Appended(e)
                /\ ev.type = "retired" /\ ev.id = e => X!Appended(e)
      PROVE  X!RetiredAfter'
  <2>1. /\ Len(indexLog') = Len(indexLog) + 1 /\ indexLog'[Len(indexLog) + 1] = ev
        /\ \A i \in 1..Len(indexLog) : indexLog'[i] = indexLog[i]
        /\ DOMAIN indexLog' = 1..(Len(indexLog) + 1) /\ DOMAIN indexLog = 1..Len(indexLog)
        /\ Len(indexLog) \in Nat
    BY <1>b, <1>d
  <2>2. \A e \in IndexEntry : X!Appended(e) => X!Appended(e)'
    BY <2>1 DEF X!Appended
  <2>3. \A e \in IndexEntry, i \in DOMAIN indexLog' : X!Is(i, "retired", e)' => X!Appended(e)
    BY <1>a, <1>d, <2>1 DEF X!RetiredAfter, X!Is
  <2>4. ASSUME NEW e \in IndexEntry, NEW i \in DOMAIN indexLog', NEW j \in DOMAIN indexLog',
               X!Is(i, "retired", e)', X!Is(j, "appended", e)', i < j
        PROVE  FALSE
    <3>1. X!Appended(e) /\ i \in DOMAIN indexLog /\ X!Is(i, "retired", e)
      BY <2>1, <2>3, <2>4 DEF X!Is
    <3>2. j \in DOMAIN indexLog
      BY <1>d, <2>1, <2>4, <3>1 DEF X!Is
    <3>3. X!Is(j, "appended", e)
      BY <2>1, <2>4, <3>2 DEF X!Is
    <3> QED
      BY <1>a, <2>4, <3>1, <3>2, <3>3 DEF X!RetiredAfter
  <2> QED
    BY <2>2, <2>3, <2>4 DEF X!RetiredAfter
<1>e. ASSUME UNCHANGED <<vectors, configured>>, phase' # "down" => phase # "down"
      PROVE  phase' # "down" => X!RecordedModels' \subseteq {configured'}
  BY <1>a, <1>e DEF X!RecordedModels, X!Absent, X!Key, X!EntryKey, X!EntryContextual,
                    X!Description
\* An empty index with its cursor at the start.
<1>f. ASSUME vectors' = [k \in X!Key |-> X!Absent], indexCursor' = 0, batch' = X!NoBatch
      PROVE  /\ X!RecordedModels' \subseteq {configured'}
             /\ \A e \in IndexEntry :
                  X!Kept(X!EntryKey(e), "appended", "retired", e)' /\ X!Freed(X!EntryKey(e), e)'
                      /\ X!Freed(X!EntryContextual(e), e)'
             /\ \A m \in IndexMem : X!Kept(X!Description(m), "regenerated", "deleted", m)'
  <2>1. X!RecordedModels' \subseteq {configured'}
    BY <1>f DEF X!RecordedModels, X!Absent, X!Key, X!EntryKey, X!EntryContextual, X!Description
  <2>2. /\ \A added, removed, id : ~X!Alive(added, removed, id, indexCursor)'
        /\ \A e : ~X!Gone(e, indexCursor)' /\ batch'.at = "idle"
    BY <1>f DEF X!Alive, X!Gone, X!NoBatch
  <2>3. /\ \A key, added, removed, id : X!Kept(key, added, removed, id)'
        /\ \A key, e : X!Freed(key, e)'
    BY <2>2 DEF X!Kept, X!Freed
  <2> QED
    BY <2>1, <2>3
<1>1. ASSUME NEW type, NEW id, [type |-> type, id |-> id] \in Ev, X!Commit(type, id),
             \A e \in IndexEntry :
                /\ type = "appended" /\ id = e => ~X!Appended(e)
                /\ type = "retired" /\ id = e => X!Appended(e)
      PROVE  X!IndexInv'
  <2> DEFINE ev == [type |-> type, id |-> id]
  <2>1. /\ ev \in Ev /\ indexLog' = Append(indexLog, ev) /\ ev.type = type /\ ev.id = id
        /\ UNCHANGED <<vectors, indexCursor, batch, configured, phase>>
    BY <1>1 DEF X!Commit
  <2> HIDE DEF ev
  <2>2. X!RetiredAfter'
    BY <1>d, <1>1, <2>1
  <2>3. indexLog' \in Seq(Ev) /\ Len(indexLog') = Len(indexLog) + 1 /\ Len(indexLog) \in Nat
    BY <1>b, <2>1
  <2>4. X!IndexTypes'
    <3>1. indexCursor' \in 0..Len(indexLog') /\ (batch.at # "idle" => batch'.last \in indexCursor'..Len(indexLog'))
      BY <1>b, <2>1, <2>3
    <3> QED
      BY <1>a, <1>b, <2>1, <2>3, <3>1 DEF X!IndexTypes, Ev, X!Key, X!EntryKey,
                                          X!EntryContextual, X!Description, X!Absent
  <2>5. \E x \in Ev : indexLog' = Append(indexLog, x)
    BY <2>1
  <2> QED
    BY <1>a, <1>e, <2>1, <2>2, <2>4, <2>5, KeysStand DEF X!IndexInv, Ev
<1>2. ASSUME NEW e \in IndexEntry, X!CommitEntry(e) PROVE X!IndexInv'
  <2>1. [type |-> "appended", id |-> e] \in Ev /\ [type |-> "retired", id |-> e] \in Ev
    BY DEF Ev
  <2>2. CASE ~X!Appended(e) /\ X!Commit("appended", e)
    BY <1>1, <2>1, <2>2
  <2>3. CASE X!Appended(e) /\ X!Commit("retired", e)
    BY <1>1, <2>1, <2>3
  <2> QED
    BY <1>2, <2>2, <2>3 DEF X!CommitEntry
<1>3. ASSUME NEW m \in IndexMem, X!CommitMemory(m) PROVE X!IndexInv'
  <2>1. [type |-> "regenerated", id |-> m] \in Ev /\ [type |-> "deleted", id |-> m] \in Ev
    BY DEF Ev
  <2>2. X!Commit("regenerated", m) \/ X!Commit("deleted", m)
    BY <1>3 DEF X!CommitMemory
  <2> QED
    BY <1>1, <2>1, <2>2
<1>4. CASE X!CatchUpReads
  <2> DEFINE ops == X!Pending(indexCursor + 1, Len(indexLog))
  <2>1. /\ batch' = [at |-> "embedding", last |-> Len(indexLog), ops |-> ops]
        /\ phase # "down" /\ UNCHANGED <<indexLog, vectors, indexCursor, configured, phase>>
    BY <1>4 DEF X!CatchUpReads
  <2>2. DOMAIN ops \subseteq X!Key
    BY DEF X!Pending
  <2>3. X!IndexTypes'
    <3>1. Len(indexLog) \in indexCursor..Len(indexLog)
      BY <1>b
    <3>2. X!Key' = X!Key
      BY DEF X!Key, X!EntryKey, X!EntryContextual, X!Description
    <3>3. batch'.at = "embedding" /\ batch'.ops = ops /\ batch'.last = Len(indexLog)
      BY <2>1
    <3> HIDE DEF ops
    <3> QED
      BY <1>b, <2>1, <2>2, <3>1, <3>2, <3>3 DEF X!IndexTypes, Ev, X!Absent
  <2>k. /\ \A e \in IndexEntry : X!EntryKey(e) \in X!Key /\ X!EntryContextual(e) \in X!Key
        /\ \A m \in IndexMem : X!Description(m) \in X!Key
        /\ DOMAIN indexLog = 1..Len(indexLog)
    BY <1>b DEF X!Key
  <2>4. ASSUME NEW key, NEW added, NEW removed, NEW id, X!Kept(key, added, removed, id),
               X!Alive(added, removed, id, Len(indexLog)) =>
                  IF key \in DOMAIN ops THEN ops[key] = "embed" ELSE vectors[key] # "absent"
        PROVE  X!Kept(key, added, removed, id)'
    <3> HIDE DEF ops
    <3> QED
      BY <2>1, <2>4 DEF X!Kept, X!Alive, X!Is, X!Absent
  <2>5. ASSUME NEW key, NEW e, X!Freed(key, e),
               X!Gone(e, Len(indexLog)) =>
                  IF key \in DOMAIN ops THEN ops[key] = "remove" ELSE vectors[key] = "absent"
        PROVE  X!Freed(key, e)'
    <3> HIDE DEF ops
    <3> QED
      BY <2>1, <2>5 DEF X!Freed, X!Gone, X!Is, X!Absent
  <2>6. ASSUME NEW e \in IndexEntry
        PROVE  /\ X!Kept(X!EntryKey(e), "appended", "retired", e)' /\ X!Freed(X!EntryKey(e), e)'
               /\ X!Freed(X!EntryContextual(e), e)'
    <3>1. X!Alive("appended", "retired", e, Len(indexLog)) =>
             IF X!EntryKey(e) \in DOMAIN ops THEN ops[X!EntryKey(e)] = "embed"
             ELSE vectors[X!EntryKey(e)] # "absent"
      BY <1>a, <2>k, EventTouches, ReadKeeps DEF X!Kept, X!Absent
    <3>2. X!Gone(e, Len(indexLog)) =>
             IF X!EntryKey(e) \in DOMAIN ops THEN ops[X!EntryKey(e)] = "remove"
             ELSE vectors[X!EntryKey(e)] = "absent"
      BY <1>a, <2>k, EventTouches, ReadFrees DEF X!Freed, X!Absent
    <3>3. X!Gone(e, Len(indexLog)) =>
             IF X!EntryContextual(e) \in DOMAIN ops THEN ops[X!EntryContextual(e)] = "remove"
             ELSE vectors[X!EntryContextual(e)] = "absent"
      BY <1>a, <2>k, EventTouches, ReadFrees DEF X!Freed, X!Absent
    <3> QED
      BY <1>a, <2>4, <2>5, <3>1, <3>2, <3>3 DEF X!EntryKey, X!EntryContextual
  <2>7. ASSUME NEW m \in IndexMem PROVE X!Kept(X!Description(m), "regenerated", "deleted", m)'
    <3>1. X!Alive("regenerated", "deleted", m, Len(indexLog)) =>
             IF X!Description(m) \in DOMAIN ops THEN ops[X!Description(m)] = "embed"
             ELSE vectors[X!Description(m)] # "absent"
      BY <1>a, <2>k, EventTouches, ReadKeeps DEF X!Kept, X!Absent
    <3> QED
      BY <1>a, <2>4, <3>1 DEF X!Description
  <2> QED
    BY <1>c, <1>e, <2>1, <2>3, <2>6, <2>7 DEF X!IndexInv
<1>5. CASE X!EmbedFails
  <2>1. /\ batch' = X!NoBatch /\ phase' \in {"serving", "down"} /\ (phase' # "down" => phase # "down")
        /\ UNCHANGED <<indexLog, vectors, indexCursor, configured>>
    BY <1>5 DEF X!EmbedFails
  <2>2. X!IndexTypes'
    BY <1>b, <2>1 DEF X!IndexTypes, Ev, X!NoBatch, X!Key, X!EntryKey, X!EntryContextual,
                      X!Description, X!Absent
  <2> QED
    BY <1>c, <1>e, <2>1, <2>2, KeysStand DEF X!IndexInv, X!NoBatch
<1>6. CASE X!Embedded
  <2>1. /\ batch' = [at |-> "applying", ops |-> batch.ops, last |-> batch.last] /\ batch.at # "idle"
        /\ UNCHANGED <<indexLog, vectors, indexCursor, configured, phase>>
    BY <1>b, <1>6 DEF X!Embedded
  <2>2. X!IndexTypes'
    BY <1>b, <2>1 DEF X!IndexTypes, Ev, X!Key, X!EntryKey, X!EntryContextual, X!Description,
                      X!Absent
  <2> QED
    BY <1>c, <1>e, <2>1, <2>2, KeysStand DEF X!IndexInv
<1>7. ASSUME NEW k \in DOMAIN batch.ops, X!ApplyOp(k) PROVE X!IndexInv'
  <2> DEFINE v == IF batch.ops[k] = "embed" THEN configured ELSE "absent"
             ops == [j \in DOMAIN batch.ops \ {k} |-> batch.ops[j]]
  <2>1. /\ batch.at = "applying" /\ batch' = [at |-> "applying", ops |-> ops, last |-> batch.last]
        /\ vectors' = [vectors EXCEPT ![k] = v] /\ k \in X!Key
        /\ UNCHANGED <<indexLog, indexCursor, configured, phase>>
    BY <1>b, <1>7 DEF X!ApplyOp, X!Absent
  <2>2. /\ DOMAIN ops = DOMAIN batch.ops \ {k} /\ \A j \in DOMAIN ops : ops[j] = batch.ops[j]
        /\ v \in Models \cup {"absent"} /\ (batch.ops[k] = "embed" => v = configured /\ v # "absent")
        /\ (batch.ops[k] # "embed" => v = "absent")
    BY <1>b, IndexAssumption
  <2> HIDE DEF v, ops
  <2>3. batch'.at = "applying" /\ batch'.ops = ops /\ batch'.last = batch.last
    BY <2>1
  <2>4. X!IndexTypes'
    <3>1. vectors' \in [X!Key -> Models \cup {"absent"}] /\ X!Key' = X!Key
      BY <1>b, <2>1, <2>2 DEF X!Key, X!EntryKey, X!EntryContextual, X!Description
    <3> QED
      BY <1>b, <2>1, <2>2, <2>3, <3>1 DEF X!IndexTypes, Ev, X!Absent
  <2>5. phase' # "down" => X!RecordedModels' \subseteq {configured'}
    <3>1. \A j \in X!Key : vectors'[j] = vectors[j] \/ vectors'[j] = configured \/ vectors'[j] = "absent"
      BY <1>b, <2>1, <2>2
    <3>2. X!Key' = X!Key
      BY DEF X!Key, X!EntryKey, X!EntryContextual, X!Description
    <3> QED
      BY <1>a, <1>b, <2>1, <3>1, <3>2 DEF X!RecordedModels, X!Absent
  <2>6. ASSUME NEW key \in X!Key, NEW added, NEW removed, NEW id, X!Kept(key, added, removed, id)
        PROVE  X!Kept(key, added, removed, id)'
    <3>1. /\ X!Alive(added, removed, id, indexCursor)' <=> X!Alive(added, removed, id, indexCursor)
          /\ X!Alive(added, removed, id, batch.last)' <=> X!Alive(added, removed, id, batch.last)
      BY <2>1, <2>3 DEF X!Alive, X!Is
    <3>2. X!Alive(added, removed, id, indexCursor) => X!Alive(added, removed, id, batch.last)
      BY <1>b, <2>1 DEF X!Alive
    <3>3. X!Alive(added, removed, id, batch.last) =>
             IF key \in DOMAIN batch.ops THEN batch.ops[key] = "embed" ELSE vectors[key] # "absent"
      BY <2>1, <2>6 DEF X!Kept, X!Absent
    <3>4. X!Alive(added, removed, id, indexCursor) => vectors[key] # "absent"
      BY <2>6 DEF X!Kept, X!Absent
    <3>5. key # k => vectors'[key] = vectors[key]
      BY <1>b, <2>1
    <3>6. vectors'[k] = v
      BY <1>b, <2>1
    <3> QED
      BY <2>2, <2>3, <3>1, <3>2, <3>3, <3>4, <3>5, <3>6 DEF X!Kept, X!Absent
  <2>7. ASSUME NEW key \in X!Key, NEW e, X!Freed(key, e)
        PROVE  X!Freed(key, e)'
    <3>1. /\ X!Gone(e, indexCursor)' <=> X!Gone(e, indexCursor)
          /\ X!Gone(e, batch.last)' <=> X!Gone(e, batch.last)
      BY <2>1, <2>3 DEF X!Gone, X!Is
    <3>2. X!Gone(e, indexCursor) => X!Gone(e, batch.last)
      BY <1>b, <2>1 DEF X!Gone
    <3>3. X!Gone(e, batch.last) =>
             IF key \in DOMAIN batch.ops THEN batch.ops[key] = "remove" ELSE vectors[key] = "absent"
      BY <2>1, <2>7 DEF X!Freed, X!Absent
    <3>4. X!Gone(e, indexCursor) => vectors[key] = "absent"
      BY <2>7 DEF X!Freed, X!Absent
    <3>5. key # k => vectors'[key] = vectors[key]
      BY <1>b, <2>1
    <3>6. vectors'[k] = v
      BY <1>b, <2>1
    <3> QED
      BY <2>2, <2>3, <3>1, <3>2, <3>3, <3>4, <3>5, <3>6 DEF X!Freed, X!Absent
  <2>8. /\ \A e \in IndexEntry : X!EntryKey(e) \in X!Key /\ X!EntryContextual(e) \in X!Key
        /\ \A m \in IndexMem : X!Description(m) \in X!Key
    BY DEF X!Key
  <2> QED
    BY <1>a, <1>c, <2>1, <2>4, <2>5, <2>6, <2>7, <2>8 DEF X!IndexInv, X!EntryKey,
                                                          X!EntryContextual, X!Description
<1>8. CASE X!SetCursor
  <2>1. /\ batch.at = "applying" /\ DOMAIN batch.ops = {} /\ indexCursor' = batch.last
        /\ batch' = X!NoBatch /\ phase' = "serving"
        /\ UNCHANGED <<indexLog, vectors, configured>>
    BY <1>8 DEF X!SetCursor, X!CursorMoves
  <2>2. X!IndexTypes'
    BY <1>b, <2>1 DEF X!IndexTypes, Ev, X!NoBatch, X!Key, X!EntryKey, X!EntryContextual,
                      X!Description, X!Absent
  <2>3. ASSUME NEW key, NEW added, NEW removed, NEW id, X!Kept(key, added, removed, id)
        PROVE  X!Kept(key, added, removed, id)'
    <3>1. X!Alive(added, removed, id, indexCursor)' => X!Alive(added, removed, id, batch.last)
      BY <2>1 DEF X!Alive, X!Is
    <3> QED
      BY <2>1, <2>3, <3>1 DEF X!Kept, X!Absent, X!NoBatch
  <2>4. ASSUME NEW key, NEW e, X!Freed(key, e) PROVE X!Freed(key, e)'
    <3>1. X!Gone(e, indexCursor)' => X!Gone(e, batch.last)
      BY <2>1 DEF X!Gone, X!Is
    <3> QED
      BY <2>1, <2>4, <3>1 DEF X!Freed, X!Absent, X!NoBatch
  <2>5. phase' # "down" => X!RecordedModels' \subseteq {configured'}
    BY <1>b, <1>e, <2>1
  <2> QED
    BY <1>a, <1>c, <2>1, <2>2, <2>3, <2>4, <2>5 DEF X!IndexInv, X!EntryKey,
                                                    X!EntryContextual, X!Description
<1>g. [type |-> "model_changed", id |-> 0] \in Ev
  BY DEF Ev
<1>h. ASSUME indexLog' = Append(indexLog, [type |-> "model_changed", id |-> 0])
      PROVE  X!RetiredAfter' /\ indexLog' \in Seq(Ev) /\ Len(indexLog') = Len(indexLog) + 1
  <2>1. X!RetiredAfter'
    BY <1>d, <1>g, <1>h
  <2> QED
    BY <1>b, <1>g, <1>h, <2>1
<1>9. ASSUME NEW model \in Models, X!Boot(model) PROVE X!IndexInv'
  <2>1. CASE X!RecordedModels \ {model} # {}
    <3>1. /\ indexLog' = Append(indexLog, [type |-> "model_changed", id |-> 0])
          /\ vectors' = [k \in X!Key |-> X!Absent] /\ indexCursor' = 0 /\ phase' = "reembedding"
          /\ batch' = X!NoBatch /\ configured' = model
      BY <1>9, <2>1 DEF X!Boot, X!Cleared
    <3>2. X!IndexTypes'
      BY <1>b, <1>h, <3>1 DEF X!IndexTypes, Ev, X!NoBatch, X!Key, X!EntryKey,
                              X!EntryContextual, X!Description, X!Absent
    <3> QED
      BY <1>f, <1>h, <3>1, <3>2 DEF X!IndexInv
  <2>2. CASE ~(X!RecordedModels \ {model} # {})
    <3>1. /\ UNCHANGED <<indexLog, vectors, indexCursor>> /\ phase' = "serving"
          /\ batch' = X!NoBatch /\ configured' = model
      BY <1>9, <2>2 DEF X!Boot
    <3>2. X!IndexTypes'
      BY <1>b, <3>1 DEF X!IndexTypes, Ev, X!NoBatch, X!Key, X!EntryKey, X!EntryContextual,
                        X!Description, X!Absent
    <3>3. X!RecordedModels' \subseteq {configured'}
      BY <2>2, <3>1 DEF X!RecordedModels, X!Key, X!EntryKey, X!EntryContextual,
                        X!Description, X!Absent
    <3> QED
      BY <1>c, <3>1, <3>2, <3>3, KeysStand DEF X!IndexInv, X!NoBatch
  <2> QED
    BY <2>1, <2>2
<1>10. ASSUME NEW model \in Models, X!BootCutShort(model) PROVE X!IndexInv'
  <2>1. /\ indexLog' = Append(indexLog, [type |-> "model_changed", id |-> 0])
        /\ UNCHANGED <<vectors, indexCursor>> /\ phase' = "down"
        /\ batch' = X!NoBatch /\ configured' = model
    BY <1>10 DEF X!BootCutShort
  <2>2. X!IndexTypes'
    BY <1>b, <1>h, <2>1 DEF X!IndexTypes, Ev, X!NoBatch, X!Key, X!EntryKey,
                            X!EntryContextual, X!Description, X!Absent
  <2>3. \E x \in Ev : indexLog' = Append(indexLog, x)
    BY <1>g, <2>1
  <2> QED
    BY <1>h, <2>1, <2>2, <2>3, KeysStand DEF X!IndexInv, X!NoBatch, Ev
<1>11. CASE X!Reindex
  <2>1. /\ vectors' = [k \in X!Key |-> X!Absent] /\ indexCursor' = 0 /\ phase' = "down"
        /\ batch' = X!NoBatch /\ UNCHANGED <<indexLog, configured>>
    BY <1>11 DEF X!Reindex
  <2>2. X!IndexTypes'
    BY <1>b, <2>1 DEF X!IndexTypes, Ev, X!NoBatch, X!Key, X!EntryKey, X!EntryContextual,
                      X!Description, X!Absent
  <2> QED
    BY <1>c, <1>f, <2>1, <2>2 DEF X!IndexInv
<1>12. CASE UNCHANGED indexVars
  <2>1. X!IndexTypes'
    BY <1>b, <1>12 DEF indexVars, X!IndexTypes, Ev, X!Key, X!EntryKey, X!EntryContextual,
                       X!Description, X!Absent
  <2> QED
    BY <1>c, <1>e, <1>12, <2>1, KeysStand DEF X!IndexInv, indexVars
<1> QED
  BY <1>2, <1>3, <1>4, <1>5, <1>6, <1>7, <1>8, <1>9, <1>10, <1>11, <1>12 DEF X!Next

(* The last of some events is one of them, with no other after it.         *)
LEMMA LastIsOne ==
    ASSUME NEW types, NEW id, NEW from \in Nat, NEW upto \in Nat, "none" \notin types,
           X!LastOf(types, id, from, upto) # "none"
    PROVE  \E i \in from..upto :
              /\ indexLog[i].type \in types /\ indexLog[i].id = id
              /\ X!LastOf(types, id, from, upto) = indexLog[i].type
              /\ \A j \in from..upto : indexLog[j].type \in types /\ indexLog[j].id = id => j <= i
<1> DEFINE T == {i \in from..upto : indexLog[i].type \in types /\ indexLog[i].id = id}
           t == CHOOSE i \in T : \A j \in T : j <= i
<1>1. T # {} /\ X!LastOf(types, id, from, upto) = indexLog[t].type
  BY DEF X!LastOf
<1>2. T \subseteq 0..upto
  OBVIOUS
<1>3. \E i \in T : \A j \in T : j <= i
  BY <1>1, <1>2, GreatestNatural
<1>4. t \in T /\ \A j \in T : j <= t
  BY <1>3
<1> QED
  BY <1>1, <1>4

(* The other way: where the last is none, there is none.                   *)
LEMMA LastIsNone ==
    ASSUME NEW types, NEW id, NEW from \in Nat, NEW upto \in Nat, "none" \notin types,
           X!LastOf(types, id, from, upto) = "none"
    PROVE  \A i \in from..upto : ~(indexLog[i].type \in types /\ indexLog[i].id = id)
<1> DEFINE T == {i \in from..upto : indexLog[i].type \in types /\ indexLog[i].id = id}
           t == CHOOSE i \in T : \A j \in T : j <= i
<1>1. SUFFICES ASSUME T # {} PROVE FALSE
  OBVIOUS
<1>2. "none" = indexLog[t].type
  BY <1>1 DEF X!LastOf
<1>3. T \subseteq 0..upto
  OBVIOUS
<1>4. \E i \in T : \A j \in T : j <= i
  BY <1>1, <1>3, GreatestNatural
<1>5. t \in T
  BY <1>4
<1> QED
  BY <1>2, <1>5

(* The invariant says what the run checks.                                 *)
LEMMA IndexFollows == X!IndexInv => X!IndexFollowsTheLog
<1> SUFFICES ASSUME X!IndexInv, phase = "serving" PROVE X!IndexFollowsTheLog
  BY DEF X!IndexFollowsTheLog
<1>1. /\ X!RecordedModels \subseteq {configured}
      /\ \A e \in IndexEntry :
           X!Kept(X!EntryKey(e), "appended", "retired", e) /\ X!Freed(X!EntryKey(e), e)
               /\ X!Freed(X!EntryContextual(e), e)
      /\ \A m \in IndexMem : X!Kept(X!Description(m), "regenerated", "deleted", m)
      /\ indexCursor \in Nat /\ Len(indexLog) \in Nat /\ indexCursor <= Len(indexLog)
  BY DEF X!IndexInv, X!IndexTypes
<1>2. ASSUME NEW added, NEW removed, NEW id, added # "none", removed # "none", added # removed,
             X!Stands(added, removed, id)
      PROVE  X!Alive(added, removed, id, indexCursor)
  <2>1. /\ X!LastOf({added, removed}, id, 1, indexCursor) = added
        /\ X!LastOf({removed}, id, indexCursor + 1, Len(indexLog)) = "none"
    BY <1>2 DEF X!Stands
  <2>2. PICK i \in 1..indexCursor :
            /\ indexLog[i].id = id /\ added = indexLog[i].type
            /\ \A j \in 1..indexCursor : indexLog[j].type \in {added, removed} /\ indexLog[j].id = id => j <= i
    <3> DEFINE types == {added, removed}
    <3>1. "none" \notin types /\ 1 \in Nat
      BY <1>2
    <3>2. X!LastOf(types, id, 1, indexCursor) = added /\ added # "none"
      BY <1>2, <2>1
    <3>a. X!LastOf(types, id, 1, indexCursor) # "none"
      BY <3>2
    <3> HIDE DEF types
    <3>3. PICK i \in 1..indexCursor :
              /\ indexLog[i].type \in types /\ indexLog[i].id = id
              /\ X!LastOf(types, id, 1, indexCursor) = indexLog[i].type
              /\ \A j \in 1..indexCursor : indexLog[j].type \in types /\ indexLog[j].id = id => j <= i
      <4>1. indexCursor \in Nat /\ 1 \in Nat
        BY <1>1
      <4>2. "none" \notin types
        BY <3>1
      <4> QED
        BY ONLY <3>a, <4>1, <4>2, LastIsOne
    <3> QED
      BY <3>2, <3>3 DEF types
  <2>3. \A j \in (indexCursor + 1)..Len(indexLog) : ~(indexLog[j].type = removed /\ indexLog[j].id = id)
    <3> DEFINE types == {removed}
    <3>1. "none" \notin types /\ indexCursor + 1 \in Nat
      BY <1>1, <1>2
    <3>2. X!LastOf(types, id, indexCursor + 1, Len(indexLog)) = "none"
      BY <2>1
    <3> HIDE DEF types
    <3>3. \A j \in (indexCursor + 1)..Len(indexLog) : ~(indexLog[j].type \in types /\ indexLog[j].id = id)
      BY <1>1, <3>1, <3>2, LastIsNone
    <3> QED
      BY <3>3 DEF types
  <2>4. \A j \in (i + 1)..Len(indexLog) : ~X!Is(j, removed, id)
    BY <1>1, <2>2, <2>3 DEF X!Is
  <2> QED
    BY <2>2, <2>4 DEF X!Alive, X!Is
<1>3. ASSUME NEW e \in IndexEntry, X!LastOf({"appended", "retired"}, e, 1, indexCursor) = "retired"
      PROVE  X!Gone(e, indexCursor)
  <2> DEFINE types == {"appended", "retired"}
  <2>1. "none" \notin types /\ 1 \in Nat /\ X!LastOf(types, e, 1, indexCursor) = "retired" /\ "retired" # "none"
    BY <1>3
  <2>a. X!LastOf(types, e, 1, indexCursor) # "none"
    BY <2>1
  <2> HIDE DEF types
  <2>2. PICK i \in 1..indexCursor :
            indexLog[i].id = e /\ X!LastOf(types, e, 1, indexCursor) = indexLog[i].type
    <3>1. indexCursor \in Nat /\ 1 \in Nat
      BY <1>1
    <3>2. "none" \notin types
      BY <2>1
    <3> QED
      BY ONLY <2>a, <3>1, <3>2, LastIsOne
  <2> QED
    BY <2>1, <2>2 DEF X!Gone, X!Is
<1>4. \A e \in IndexEntry :
         /\ X!Stands("appended", "retired", e) => vectors[X!EntryKey(e)] # X!Absent
         /\ X!LastOf({"appended", "retired"}, e, 1, indexCursor) = "retired" =>
               vectors[X!EntryKey(e)] = X!Absent /\ vectors[X!EntryContextual(e)] = X!Absent
  BY <1>1, <1>2, <1>3 DEF X!Kept, X!Freed
<1>5. \A m \in IndexMem : X!Stands("regenerated", "deleted", m) => vectors[X!Description(m)] # X!Absent
  BY <1>1, <1>2 DEF X!Kept
<1> QED
  BY <1>1, <1>4, <1>5 DEF X!IndexFollowsTheLog

(* The vectors are those the log up to the cursor calls for                *)
(* (index_catch_up), for any log, models and crashes.                      *)
THEOREM IndexAlwaysFollows == ServicesSpec => []IndexFollowsTheLog
<1>1. ServicesInit => X!IndexInv
  BY IndexInitial DEF ServicesInit
<1>2. X!IndexInv /\ [ServicesNext]_services => X!IndexInv'
  BY IndexStep DEF ServicesNext, services
<1>3. X!IndexInv => IndexFollowsTheLog
  BY IndexFollows DEF IndexFollowsTheLog
<1> QED
  BY <1>1, <1>2, <1>3, PTL DEF ServicesSpec

-----------------------------------------------------------------------------
(* Genesis.                                                               *)

(* Of some positions of a sequence of naturals one is the greatest's last. *)
LEMMA LastGreatest ==
    ASSUME NEW n \in Nat, NEW T, T \subseteq 1..n, T # {}, NEW f, \A i \in T : f[i] \in Nat
    PROVE  \E i \in T : \A j \in T : f[j] < f[i] \/ (f[j] = f[i] /\ j <= i)
<1> DEFINE Beats(i, k) == \A j \in T : j <= k => f[j] < f[i] \/ (f[j] = f[i] /\ j <= i)
           Some(k) == \E j \in T : j <= k
           Best(k) == \E i \in T : i <= k /\ Beats(i, k)
           U == {k \in 0..n : Some(k) /\ ~Best(k)}
<1>1. U = {}
  <2> SUFFICES ASSUME U # {} PROVE FALSE
    OBVIOUS
  <2>1. U \subseteq Nat
    OBVIOUS
  <2> HIDE DEF U
  <2>2. PICK k \in U : \A v \in U : k <= v
    BY <2>1, LeastNatural
  <2>3. k \in 0..n /\ Some(k) /\ ~Best(k)
    BY DEF U
  <2>4. k # 0 /\ k - 1 \in 0..n
    BY <2>3
  <2>5. Some(k - 1) => Best(k - 1)
    <3>1. k - 1 \notin U
      BY <2>2, <2>3, <2>4
    <3> QED
      BY <2>4, <3>1 DEF U
  <2>6. CASE Some(k - 1)
    <3>1. PICK i \in T : i <= k - 1 /\ Beats(i, k - 1)
      BY <2>5, <2>6
    <3>2. i \in 1..n /\ f[i] \in Nat
      BY <3>1
    <3>3. CASE k \in T /\ f[k] >= f[i]
      <4>1. Beats(k, k)
        <5> SUFFICES ASSUME NEW j \in T, j <= k PROVE f[j] < f[k] \/ (f[j] = f[k] /\ j <= k)
          OBVIOUS
        <5>1. CASE j <= k - 1
          BY <3>1, <3>2, <3>3, <5>1
        <5>2. CASE j = k
          BY <5>2
        <5> QED
          BY <2>3, <5>1, <5>2
      <4> QED
        BY <2>3, <3>3, <4>1
    <3>4. CASE ~(k \in T /\ f[k] >= f[i])
      <4>1. Beats(i, k)
        <5> SUFFICES ASSUME NEW j \in T, j <= k PROVE f[j] < f[i] \/ (f[j] = f[i] /\ j <= i)
          OBVIOUS
        <5>1. CASE j <= k - 1
          BY <3>1, <5>1
        <5>2. CASE j = k
          BY <3>2, <3>4, <5>2
        <5> QED
          BY <2>3, <5>1, <5>2
      <4>2. i <= k
        BY <2>3, <3>1, <3>2
      <4> QED
        BY <2>3, <4>1, <4>2
    <3> QED
      BY <3>3, <3>4
  <2>7. CASE ~Some(k - 1)
    <3>1. k \in T /\ \A j \in T : j <= k => j = k
      BY <2>3, <2>7
    <3>2. Beats(k, k)
      BY <3>1
    <3> QED
      BY <2>3, <3>1, <3>2
  <2> QED
    BY <2>6, <2>7
<1>2. \A j \in T : j \in 1..n /\ j <= n
  OBVIOUS
<1>3. Some(n) /\ n \in 0..n
  <2>1. PICK j \in T : TRUE
    OBVIOUS
  <2> QED
    BY <1>2, <2>1
<1>4. Best(n)
  BY <1>1, <1>3
<1> QED
  BY <1>2, <1>4

(* The library's count, under the instance's name.                         *)
LEMMA GenesisCounts == ASSUME NEW T PROVE G!Cardinality(T) = Cardinality(T)
BY DEF G!Cardinality, Cardinality

(* A finite set, in some order.                                            *)
LEMMA SetInOrder ==
    ASSUME NEW T, IsFiniteSet(T)
    PROVE  /\ G!SetToSeq(T) \in Seq(T)
           /\ \A x \in T : \E i \in DOMAIN G!SetToSeq(T) : G!SetToSeq(T)[i] = x
           /\ \A i, j \in DOMAIN G!SetToSeq(T) : G!SetToSeq(T)[i] = G!SetToSeq(T)[j] => i = j
<1> DEFINE n == Cardinality(T)
<1>1. n \in Nat /\ ExistsBijection(1..n, T)
  BY FS_CardinalityType
<1>2. PICK f \in [1..n -> T] : G!IsInjective(f)
  BY <1>1 DEF ExistsBijection, Bijection, Injection, IsInjective, G!IsInjective
<1>3. G!SetToSeq(T) \in [1..n -> T] /\ G!IsInjective(G!SetToSeq(T))
  BY <1>2, GenesisCounts DEF G!SetToSeq
<1> HIDE DEF n
<1>4. G!SetToSeq(T) \in Injection(1..n, T)
  BY <1>3 DEF Injection, IsInjective, G!IsInjective
<1>5. IsFiniteSet(1..n) /\ Cardinality(1..n) = n
  BY <1>1, FS_Interval
<1>6. G!SetToSeq(T) \in Surjection(1..n, T)
  BY <1>4, <1>5, FS_Injection DEF n
<1>7. /\ G!SetToSeq(T) \in Seq(T) /\ DOMAIN G!SetToSeq(T) = 1..n
      /\ \A x \in T : \E i \in 1..n : G!SetToSeq(T)[i] = x
  BY <1>1, <1>3, <1>6 DEF Surjection
<1> QED
  BY <1>3, <1>7 DEF G!IsInjective

(* What an event of each kind is.                                          *)
LEMMA EventIs ==
    ASSUME NEW e \in G!Events
    PROVE  \/ e.kind = "template" /\ e.version \in Nat /\ e.by \in {"bootstrap", "operator"}
              /\ e # G!None
           \/ e.kind = "word" /\ e = [kind |-> "word", name |-> e.name]
           \/ e.kind = "config"
           \/ e = [kind |-> "self"] /\ e.kind = "self"
           \/ e = [kind |-> "completed"] /\ e.kind = "completed"
<1>1. CASE e \in G!Template({"bootstrap", "operator"})
  <2>1. PICK name \in G!Names, version \in Nat, body \in G!Wordings,
             writer \in {"bootstrap", "operator"} :
             e = G!Registered(name, version, body, writer)
    BY <1>1 DEF G!Template
  <2>2. e.kind = "template" /\ e.version \in Nat /\ e.by \in {"bootstrap", "operator"}
    BY <2>1 DEF G!Registered
  <2>3. "kind" \in DOMAIN e /\ "kind" \notin DOMAIN G!None
    BY <2>1 DEF G!Registered, G!None
  <2> QED
    BY <2>2, <2>3
<1>2. CASE e \notin G!Template({"bootstrap", "operator"})
  <2>1. \/ e \in {[kind |-> "word", name |-> w] : w \in UNION {Vocabulary[b] : b \in G!Builds}}
        \/ e \in {[kind |-> "config", snapshot |-> snapshot] :
                     snapshot \in Snapshots \cup {G!SeedConfig}}
        \/ e \in {[kind |-> "self"], [kind |-> "completed"]}
    BY ONLY e \in G!Events, <1>2 DEF G!Events
  <2> QED
    BY ONLY <2>1
<1> QED
  BY <1>1, <1>2

(* A registration in the log.                                              *)
LEMMA RegistrationIs ==
    ASSUME NEW l \in Seq(G!Events), NEW n, NEW i \in G!Registrations(l, n)
    PROVE  /\ i \in 1..Len(l) /\ l[i].version \in Nat /\ l[i] # G!None
           /\ l[i].by \in {"bootstrap", "operator"}
<1>1. i \in 1..Len(l) /\ l[i] \in G!Events /\ l[i].kind = "template"
  BY DEF G!Registrations, G!Of
<1> QED
  BY <1>1, EventIs

(* The registration that is in force is one of the log's, and none beats it. *)
LEMMA LatestStands ==
    ASSUME NEW l \in Seq(G!Events), NEW n, G!Registrations(l, n) # {}
    PROVE  \E i \in G!Registrations(l, n) :
              /\ G!LatestRegistration(l, n) = l[i]
              /\ \A j \in G!Registrations(l, n) :
                    \/ l[j].version < l[i].version
                    \/ l[j].version = l[i].version /\ j <= i
<1> DEFINE those == G!Registrations(l, n)
           f == [i \in those |-> l[i].version]
<1>1. /\ those \subseteq 1..Len(l) /\ those # {} /\ Len(l) \in Nat
      /\ \A i \in those : f[i] \in Nat
  BY RegistrationIs
<1>2. \E i \in those : \A j \in those : f[j] < f[i] \/ (f[j] = f[i] /\ j <= i)
  <2> HIDE DEF those, f
  <2> QED
    BY <1>1, LastGreatest
<1>3. \E i \in those : \A j \in those :
          l[j].version < l[i].version \/ (l[j].version = l[i].version /\ j <= i)
  BY <1>2
<1> QED
  BY <1>3 DEF G!LatestRegistration

(* One that no other beats is the one in force.                            *)
LEMMA LatestIs ==
    ASSUME NEW l \in Seq(G!Events), NEW n, NEW i \in G!Registrations(l, n),
           \A j \in G!Registrations(l, n) :
              l[j].version < l[i].version \/ (l[j].version = l[i].version /\ j <= i)
    PROVE  G!LatestRegistration(l, n) = l[i]
<1>1. PICK k \in G!Registrations(l, n) :
          /\ G!LatestRegistration(l, n) = l[k]
          /\ \A j \in G!Registrations(l, n) :
                l[j].version < l[k].version \/ (l[j].version = l[k].version /\ j <= k)
  BY LatestStands
<1>2. i \in Nat /\ k \in Nat /\ l[i].version \in Nat /\ l[k].version \in Nat
  BY RegistrationIs
<1>3. l[k].version < l[i].version \/ (l[k].version = l[i].version /\ k <= i)
  OBVIOUS
<1>4. l[i].version < l[k].version \/ (l[i].version = l[k].version /\ i <= k)
  BY <1>1
<1>5. i = k
  BY <1>2, <1>3, <1>4
<1> QED
  BY <1>1, <1>5

(* A prompt that was registered has one in force, at that version or later. *)
LEMMA LatestAtLeast ==
    ASSUME NEW l \in Seq(G!Events), NEW n, NEW i \in G!Registrations(l, n)
    PROVE  /\ G!LatestRegistration(l, n) # G!None
           /\ G!LatestRegistration(l, n).version \in Nat
           /\ G!LatestRegistration(l, n).version >= l[i].version
<1>1. PICK k \in G!Registrations(l, n) :
          /\ G!LatestRegistration(l, n) = l[k]
          /\ \A j \in G!Registrations(l, n) :
                l[j].version < l[k].version \/ (l[j].version = l[k].version /\ j <= k)
  BY LatestStands
<1>2. l[i].version \in Nat /\ l[k].version \in Nat /\ l[k] # G!None
  BY RegistrationIs
<1> QED
  BY <1>1, <1>2

(* A log that an append lengthens keeps what it held; the rest was added.  *)
Grows(l, added, m) ==
    /\ l \in Seq(G!Events) /\ added \in Seq(G!Events) /\ m \in Seq(G!Events)
    /\ DOMAIN l \subseteq DOMAIN m
    /\ \A i \in DOMAIN l : m[i] = l[i]
    /\ \A i \in DOMAIN m : i \notin DOMAIN l => \E k \in DOMAIN added : m[i] = added[k]
    /\ \A k \in DOMAIN added : \E i \in DOMAIN m : m[i] = added[k]

(* An append lengthens a log.                                              *)
LEMMA ConcatGrows ==
    ASSUME NEW l \in Seq(G!Events), NEW added \in Seq(G!Events)
    PROVE  Grows(l, added, l \o added)
<1> DEFINE m == l \o added
<1>1. /\ m \in Seq(G!Events)
      /\ Len(m) = Len(l) + Len(added) /\ Len(l) \in Nat /\ Len(added) \in Nat
      /\ DOMAIN m = 1..Len(m) /\ DOMAIN l = 1..Len(l) /\ DOMAIN added = 1..Len(added)
      /\ \A i \in 1..Len(m) : m[i] = IF i <= Len(l) THEN l[i] ELSE added[i - Len(l)]
  BY ConcatProperties
<1> HIDE DEF m
<1>2. \A i \in DOMAIN l : i \in DOMAIN m /\ m[i] = l[i]
  BY <1>1
<1>3. ASSUME NEW i \in DOMAIN m, i \notin DOMAIN l
      PROVE  \E k \in DOMAIN added : m[i] = added[k]
  <2>1. i - Len(l) \in DOMAIN added /\ m[i] = added[i - Len(l)]
    BY <1>1, <1>3
  <2> QED
    BY <2>1
<1>4. ASSUME NEW k \in DOMAIN added
      PROVE  \E i \in DOMAIN m : m[i] = added[k]
  <2>1. Len(l) + k \in DOMAIN m /\ m[Len(l) + k] = added[k]
    BY <1>1
  <2> QED
    BY <2>1
<1>5. Grows(l, added, m)
  BY <1>1, <1>2, <1>3, <1>4 DEF Grows
<1> QED
  BY <1>5 DEF m

(* A prompt that an append does not mention keeps its registration.        *)
LEMMA UntouchedPrompt ==
    ASSUME NEW l, NEW added, NEW m, Grows(l, added, m), NEW n,
           \A k \in DOMAIN added : ~(added[k].kind = "template" /\ added[k].name = n)
    PROVE  G!LatestRegistration(m, n) = G!LatestRegistration(l, n)
<1>1. G!Registrations(m, n) = G!Registrations(l, n)
  BY DEF Grows, G!Registrations, G!Of
<1>2. \A i \in G!Registrations(l, n) : m[i] = l[i]
  BY DEF Grows, G!Registrations, G!Of
<1>3. l \in Seq(G!Events) /\ m \in Seq(G!Events)
  BY DEF Grows
<1>4. CASE G!Registrations(l, n) = {}
  BY <1>1, <1>4 DEF G!LatestRegistration
<1>5. CASE G!Registrations(l, n) # {}
  <2>1. PICK i \in G!Registrations(l, n) :
            /\ G!LatestRegistration(l, n) = l[i]
            /\ \A j \in G!Registrations(l, n) :
                  l[j].version < l[i].version \/ (l[j].version = l[i].version /\ j <= i)
    BY <1>3, <1>5, LatestStands
  <2>2. \A j \in G!Registrations(m, n) :
            m[j].version < m[i].version \/ (m[j].version = m[i].version /\ j <= i)
    BY <1>1, <1>2, <2>1
  <2>3. G!LatestRegistration(m, n) = m[i]
    BY <1>1, <1>3, <2>2, LatestIs
  <2> QED
    BY <1>2, <2>1, <2>3
<1> QED
  BY <1>4, <1>5

(* An append of templates leaves the settings in force.                    *)
LEMMA UntouchedSettings ==
    ASSUME NEW l, NEW added, NEW m, Grows(l, added, m),
           \A k \in DOMAIN added : added[k].kind # "config"
    PROVE  G!Settings(m) = G!Settings(l)
<1>1. G!Of(m, "config") = G!Of(l, "config")
  BY DEF Grows, G!Of
<1>2. \A i \in G!Of(l, "config") : m[i] = l[i]
  BY DEF Grows, G!Of
<1> DEFINE those == G!Of(l, "config")
           last == CHOOSE i \in those : \A j \in those : j <= i
<1>3. CASE those = {}
  BY <1>1, <1>3 DEF G!Settings
<1>4. CASE those # {}
  <2>1. those \subseteq 0..Len(l) /\ Len(l) \in Nat
    BY DEF Grows, G!Of
  <2>2. \E i \in those : \A j \in those : j <= i
    <3> HIDE DEF those
    <3> QED
      BY <1>4, <2>1, GreatestNatural
  <2>3. last \in those
    BY <2>2
  <2>4. m[last] = l[last]
    BY <1>2, <2>3
  <2>5. G!Settings(m) = G!FromSnapshot(m[last].snapshot)
    BY <1>1, <1>4 DEF G!Settings
  <2>6. G!Settings(l) = G!FromSnapshot(l[last].snapshot)
    BY <1>4 DEF G!Settings
  <2> QED
    BY <2>4, <2>5, <2>6
<1> QED
  BY <1>3, <1>4

(* A build's default is an event of the log, named and dated as in the build. *)
LEMMA DefaultIs ==
    ASSUME NEW b \in G!Builds, NEW n \in DOMAIN Defaults[b]
    PROVE  /\ G!BuildDefault(b, n) \in G!Events
           /\ G!BuildDefault(b, n).kind = "template"
           /\ G!BuildDefault(b, n).name = n
           /\ G!BuildDefault(b, n).version = Defaults[b][n].version
           /\ Defaults[b][n].version \in Nat
           /\ n \in G!Names
<1>1. Defaults[b][n].version \in Nat /\ n \in G!Names /\ Defaults[b][n].body \in G!Wordings
  BY GenesisAssumption DEF G!Builds, G!Names, G!Wordings
<1>2. G!BuildDefault(b, n) \in G!Template({"bootstrap", "operator"})
  BY <1>1 DEF G!BuildDefault, G!Template
<1> QED
  BY <1>1, <1>2 DEF G!BuildDefault, G!Registered, G!Events

(* A listed set, each of its members made an event.                        *)
Listing(T, e) == [i \in DOMAIN G!SetToSeq(T) |-> e[G!SetToSeq(T)[i]]]

(* A listed set whose members are made events is a sequence of them, each  *)
(* once.                                                                   *)
LEMMA ListedOf ==
    ASSUME NEW T, IsFiniteSet(T), NEW e, \A x \in T : e[x] \in G!Events
    PROVE  /\ Listing(T, e) \in Seq(G!Events)
           /\ \A i \in DOMAIN Listing(T, e) : \E x \in T : Listing(T, e)[i] = e[x]
           /\ \A x \in T : \E i \in DOMAIN Listing(T, e) : Listing(T, e)[i] = e[x]
           /\ (\A x, y \in T : e[x] = e[y] => x = y) =>
                 \A i, j \in DOMAIN Listing(T, e) : Listing(T, e)[i] = Listing(T, e)[j] => i = j
<1> DEFINE made == Listing(T, e)
<1> DEFINE inOrder == G!SetToSeq(T)
<1>1. /\ inOrder \in Seq(T)
      /\ \A x \in T : \E i \in DOMAIN inOrder : inOrder[i] = x
      /\ \A i, j \in DOMAIN inOrder : inOrder[i] = inOrder[j] => i = j
  BY SetInOrder
<1>2. made = [i \in DOMAIN inOrder |-> e[inOrder[i]]]
  BY DEF Listing
<1> HIDE DEF inOrder, made
<1>3. \A i \in DOMAIN inOrder : inOrder[i] \in T
  BY <1>1
<1>4. made \in Seq(G!Events)
  <2>1. DOMAIN inOrder = 1..Len(inOrder) /\ Len(inOrder) \in Nat
    BY <1>1
  <2>2. made \in [1..Len(inOrder) -> G!Events]
    BY <1>2, <1>3, <2>1
  <2> QED
    BY <2>1, <2>2
<1>5. /\ made \in Seq(G!Events)
      /\ \A i \in DOMAIN made : \E x \in T : made[i] = e[x]
      /\ \A x \in T : \E i \in DOMAIN made : made[i] = e[x]
      /\ (\A x, y \in T : e[x] = e[y] => x = y) =>
            \A i, j \in DOMAIN made : made[i] = made[j] => i = j
  BY ONLY <1>1, <1>2, <1>3, <1>4
<1> QED
  BY ONLY <1>5 DEF made

(* Some of a build's templates, each made its default.                     *)
LEMMA DefaultsListed ==
    ASSUME NEW b \in G!Builds, NEW T, T \subseteq DOMAIN Defaults[b],
           NEW made,
           made = [i \in DOMAIN G!SetToSeq(T) |-> G!BuildDefault(b, G!SetToSeq(T)[i])]
    PROVE  /\ made \in Seq(G!Events)
           /\ \A i \in DOMAIN made : \E n \in T : made[i] = G!BuildDefault(b, n)
           /\ \A n \in T : \E i \in DOMAIN made : made[i] = G!BuildDefault(b, n)
<1> DEFINE e == [n \in T |-> G!BuildDefault(b, n)]
<1>1. IsFiniteSet(T)
  BY GenesisAssumption, FS_Subset DEF G!Builds
<1>2. \A n \in T : e[n] \in G!Events
  BY DefaultIs
<1>3. \A i \in DOMAIN G!SetToSeq(T) : G!SetToSeq(T)[i] \in T
  BY <1>1, SetInOrder
<1>4. made = Listing(T, e)
  BY <1>3 DEF Listing
<1> HIDE DEF e
<1>5. /\ made \in Seq(G!Events)
      /\ \A i \in DOMAIN made : \E n \in T : made[i] = e[n]
      /\ \A n \in T : \E i \in DOMAIN made : made[i] = e[n]
  BY ONLY <1>1, <1>2, <1>4, ListedOf
<1> QED
  BY <1>5 DEF e

(* Some of a build's words, each made an event of its own.                 *)
LEMMA WordsListed ==
    ASSUME NEW b \in G!Builds, NEW T, T \subseteq Vocabulary[b],
           NEW made,
           made = [i \in DOMAIN G!SetToSeq(T) |-> [kind |-> "word", name |-> G!SetToSeq(T)[i]]]
    PROVE  /\ made \in Seq(G!Events)
           /\ \A i \in DOMAIN made : made[i].kind = "word"
           /\ \A w \in T : \E i \in DOMAIN made : made[i] = [kind |-> "word", name |-> w]
           /\ \A i, j \in DOMAIN made : made[i] = made[j] => i = j
<1> DEFINE e == [w \in T |-> [kind |-> "word", name |-> w]]
<1>1. IsFiniteSet(T)
  BY GenesisAssumption, FS_Subset DEF G!Builds
<1>2. \A w \in T : e[w] \in G!Events
  BY DEF G!Events
<1>3. \A i \in DOMAIN G!SetToSeq(T) : G!SetToSeq(T)[i] \in T
  BY <1>1, SetInOrder
<1>4. made = Listing(T, e)
  BY <1>3 DEF Listing
<1>5. \A w \in T : e[w] = [kind |-> "word", name |-> w] /\ e[w].kind = "word" /\ e[w].name = w
  OBVIOUS
<1> HIDE DEF e
<1>6. \A v, w \in T : e[v] = e[w] => v = w
  BY <1>5
<1>7. /\ made \in Seq(G!Events)
      /\ \A i \in DOMAIN made : \E w \in T : made[i] = e[w]
      /\ \A w \in T : \E i \in DOMAIN made : made[i] = e[w]
      /\ \A i, j \in DOMAIN made : made[i] = made[j] => i = j
  BY ONLY <1>1, <1>2, <1>4, <1>6, ListedOf
<1>8. \A i \in DOMAIN made : made[i].kind = "word"
  BY <1>5, <1>7
<1>9. ASSUME NEW w \in T PROVE \E i \in DOMAIN made : made[i] = [kind |-> "word", name |-> w]
  <2>1. PICK i \in DOMAIN made : made[i] = e[w]
    BY <1>7
  <2>2. e[w] = [kind |-> "word", name |-> w]
    BY <1>5
  <2> QED
    BY <2>1, <2>2
<1> QED
  BY <1>7, <1>8, <1>9

(* What the reconciliation registers: the defaults that advance, each of them. *)
LEMMA ReconciledIs ==
    ASSUME NEW l, NEW b \in G!Builds, NEW made, made = G!Reconciled(l, b)
    PROVE  /\ made \in Seq(G!Events)
           /\ \A i \in DOMAIN made : \E n \in DOMAIN Defaults[b] :
                 G!Advances(l, b, n) /\ made[i] = G!BuildDefault(b, n)
           /\ \A n \in DOMAIN Defaults[b] : G!Advances(l, b, n) =>
                 \E i \in DOMAIN made : made[i] = G!BuildDefault(b, n)
<1> DEFINE U == {n \in DOMAIN Defaults[b] : G!Advances(l, b, n)}
<1>1. made = [i \in DOMAIN G!SetToSeq(U) |-> G!BuildDefault(b, G!SetToSeq(U)[i])]
  BY DEF G!Reconciled
<1>2. U \subseteq DOMAIN Defaults[b]
  OBVIOUS
<1> HIDE DEF U
<1>3. /\ made \in Seq(G!Events)
      /\ \A i \in DOMAIN made : \E n \in U : made[i] = G!BuildDefault(b, n)
      /\ \A n \in U : \E i \in DOMAIN made : made[i] = G!BuildDefault(b, n)
  BY ONLY <1>1, <1>2, b \in G!Builds, DefaultsListed
<1> QED
  BY <1>3 DEF U

(* No event that happens once is told twice.                               *)
Once(s) == \A i, j \in DOMAIN s : s[i].kind \notin {"template", "config"} /\ s[i] = s[j] => i = j

(* Two sequences that tell nothing twice, nor what the other tells, make   *)
(* one that does not.                                                      *)
LEMMA OnceTogether ==
    ASSUME NEW s \in Seq(G!Events), NEW t \in Seq(G!Events), Once(s), Once(t),
           \A i \in DOMAIN s, j \in DOMAIN t :
              s[i].kind \in {"template", "config"} \/ s[i] # t[j]
    PROVE  s \o t \in Seq(G!Events) /\ Once(s \o t)
<1> DEFINE m == s \o t
<1>1. /\ m \in Seq(G!Events)
      /\ Len(m) = Len(s) + Len(t) /\ Len(s) \in Nat /\ Len(t) \in Nat
      /\ DOMAIN m = 1..Len(m) /\ DOMAIN s = 1..Len(s) /\ DOMAIN t = 1..Len(t)
      /\ \A i \in 1..Len(m) : m[i] = IF i <= Len(s) THEN s[i] ELSE t[i - Len(s)]
  BY ConcatProperties
<1> HIDE DEF m
<1>2. \A i \in DOMAIN m : \/ i \in DOMAIN s /\ m[i] = s[i]
                          \/ i - Len(s) \in DOMAIN t /\ m[i] = t[i - Len(s)] /\ i > Len(s)
  BY <1>1
<1>3. ASSUME NEW i \in DOMAIN m, NEW j \in DOMAIN m,
             m[i].kind \notin {"template", "config"}, m[i] = m[j]
      PROVE  i = j
  <2>1. CASE i \in DOMAIN s /\ m[i] = s[i] /\ j \in DOMAIN s /\ m[j] = s[j]
    BY <1>3, <2>1 DEF Once
  <2>2. CASE /\ i - Len(s) \in DOMAIN t /\ m[i] = t[i - Len(s)]
             /\ j - Len(s) \in DOMAIN t /\ m[j] = t[j - Len(s)]
    <3>1. i - Len(s) = j - Len(s)
      BY <1>3, <2>2 DEF Once
    <3> QED
      BY <1>1, <3>1
  <2>3. CASE i \in DOMAIN s /\ m[i] = s[i] /\ j - Len(s) \in DOMAIN t /\ m[j] = t[j - Len(s)]
    BY <1>3, <2>3
  <2>4. CASE j \in DOMAIN s /\ m[j] = s[j] /\ i - Len(s) \in DOMAIN t /\ m[i] = t[i - Len(s)]
    BY <1>3, <2>4
  <2> QED
    BY <1>2, <2>1, <2>2, <2>3, <2>4
<1> QED
  BY <1>1, <1>3 DEF Once, m

(* What the rollout appends: what is missing, and each of it once.         *)
Completes(r, l, b) ==
    /\ r \in Seq(G!Events) /\ Once(r)
    /\ \A n \in DOMAIN Defaults[b] :
          \/ \E i \in G!Registrations(l, n) : l[i].version = Defaults[b][n].version
          \/ \E i \in DOMAIN r : r[i] = G!BuildDefault(b, n)
    /\ \A w \in Vocabulary[b] :
          \/ \E i \in G!Of(l, "word") : l[i].name = w
          \/ \E i \in DOMAIN r : r[i] = [kind |-> "word", name |-> w]
    /\ G!Of(l, "config") # {} \/ \E i \in DOMAIN r : r[i].kind = "config"
    /\ G!Of(l, "self") # {} \/ \E i \in DOMAIN r : r[i] = [kind |-> "self"]
    /\ \E i \in DOMAIN r : r[i] = [kind |-> "completed"]

(* The rollout appends what is missing, and each of it once.               *)
LEMMA RolloutIs ==
    ASSUME NEW l \in Seq(G!Events), NEW b \in G!Builds
    PROVE  Completes(G!Rollout(l, b), l, b)
<1> DEFINE r == G!Rollout(l, b)
           names == {n \in DOMAIN Defaults[b] :
                       ~\E i \in G!Registrations(l, n) : l[i].version = Defaults[b][n].version}
           words == {w \in Vocabulary[b] : ~\E i \in G!Of(l, "word") : l[i].name = w}
           s1 == [i \in DOMAIN G!SetToSeq(names) |-> G!BuildDefault(b, G!SetToSeq(names)[i])]
           s2 == [i \in DOMAIN G!SetToSeq(words) |->
                    [kind |-> "word", name |-> G!SetToSeq(words)[i]]]
           s3 == IF G!Of(l, "config") = {}
                 THEN <<[kind |-> "config", snapshot |-> G!SeedConfig]>> ELSE << >>
           s4 == IF G!Of(l, "self") = {} THEN <<[kind |-> "self"]>> ELSE << >>
           s5 == <<[kind |-> "completed"]>>
<1>1. r = s1 \o s2 \o s3 \o s4 \o s5
  BY DEF G!Rollout, G!Missing
<1> HIDE DEF r
<1>a. s1 = [i \in DOMAIN G!SetToSeq(names) |-> G!BuildDefault(b, G!SetToSeq(names)[i])]
  OBVIOUS
<1>b. s2 = [i \in DOMAIN G!SetToSeq(words) |-> [kind |-> "word", name |-> G!SetToSeq(words)[i]]]
  OBVIOUS
<1>c. names \subseteq DOMAIN Defaults[b] /\ words \subseteq Vocabulary[b]
  OBVIOUS
<1> HIDE DEF names, words, s1, s2
<1>2. /\ s1 \in Seq(G!Events)
      /\ \A i \in DOMAIN s1 : s1[i].kind = "template"
      /\ \A n \in names : \E i \in DOMAIN s1 : s1[i] = G!BuildDefault(b, n)
  <2>1. /\ s1 \in Seq(G!Events)
        /\ \A i \in DOMAIN s1 : \E n \in names : s1[i] = G!BuildDefault(b, n)
        /\ \A n \in names : \E i \in DOMAIN s1 : s1[i] = G!BuildDefault(b, n)
    BY ONLY b \in G!Builds, <1>a, <1>c, DefaultsListed
  <2> QED
    BY ONLY b \in G!Builds, <1>c, <2>1, DefaultIs
<1>3. /\ s2 \in Seq(G!Events)
      /\ \A i \in DOMAIN s2 : s2[i].kind = "word"
      /\ \A w \in words : \E i \in DOMAIN s2 : s2[i] = [kind |-> "word", name |-> w]
      /\ \A i, j \in DOMAIN s2 : s2[i] = s2[j] => i = j
  BY ONLY b \in G!Builds, <1>b, <1>c, WordsListed
<1>4. /\ s3 \in Seq(G!Events)
      /\ \A i \in DOMAIN s3 : s3[i].kind = "config"
      /\ G!Of(l, "config") # {} \/ DOMAIN s3 # {}
  <2>1. [kind |-> "config", snapshot |-> G!SeedConfig] \in G!Events
    BY DEF G!Events
  <2> QED
    BY <2>1
<1>5. /\ s4 \in Seq(G!Events)
      /\ \A i, j \in DOMAIN s4 : s4[i] = [kind |-> "self"] /\ s4[i].kind = "self" /\ i = j
      /\ G!Of(l, "self") # {} \/ DOMAIN s4 # {}
  <2>1. [kind |-> "self"] \in G!Events
    BY DEF G!Events
  <2> QED
    BY <2>1
<1>6. /\ s5 \in Seq(G!Events)
      /\ \A i, j \in DOMAIN s5 : s5[i] = [kind |-> "completed"] /\ s5[i].kind = "completed" /\ i = j
      /\ DOMAIN s5 # {}
  <2>1. [kind |-> "completed"] \in G!Events
    BY DEF G!Events
  <2> QED
    BY <2>1
<1> HIDE DEF s3, s4, s5
<1> DEFINE r2 == s1 \o s2
           r3 == r2 \o s3
           r4 == r3 \o s4
<1>7. Once(s1) /\ Once(s2) /\ Once(s3) /\ Once(s4) /\ Once(s5)
  BY <1>2, <1>3, <1>4, <1>5, <1>6 DEF Once
<1>8. /\ r2 \in Seq(G!Events) /\ Once(r2) /\ Grows(s1, s2, r2)
      /\ \A i \in DOMAIN r2 : r2[i].kind \in {"template", "word"}
  <2>1. r2 \in Seq(G!Events) /\ Once(r2)
    BY <1>2, <1>3, <1>7, OnceTogether
  <2>2. Grows(s1, s2, r2)
    BY <1>2, <1>3, ConcatGrows
  <2> QED
    BY <1>2, <1>3, <2>1, <2>2 DEF Grows
<1> HIDE DEF r2
<1>9. /\ r3 \in Seq(G!Events) /\ Once(r3) /\ Grows(r2, s3, r3)
      /\ \A i \in DOMAIN r3 : r3[i].kind \in {"template", "word", "config"}
  <2>0. \A i \in DOMAIN r2, j \in DOMAIN s3 :
           r2[i].kind \in {"template", "config"} \/ r2[i] # s3[j]
    BY <1>4, <1>8
  <2>1. r3 \in Seq(G!Events) /\ Once(r3)
    BY <1>4, <1>7, <1>8, <2>0, OnceTogether
  <2>2. Grows(r2, s3, r3)
    BY <1>4, <1>8, ConcatGrows
  <2> QED
    BY <1>4, <1>8, <2>1, <2>2 DEF Grows
<1> HIDE DEF r3
<1>10. /\ r4 \in Seq(G!Events) /\ Once(r4) /\ Grows(r3, s4, r4)
       /\ \A i \in DOMAIN r4 : r4[i].kind \in {"template", "word", "config", "self"}
  <2>0. \A i \in DOMAIN r3, j \in DOMAIN s4 :
           r3[i].kind \in {"template", "config"} \/ r3[i] # s4[j]
    BY <1>5, <1>9
  <2>1. r4 \in Seq(G!Events) /\ Once(r4)
    BY <1>5, <1>7, <1>9, <2>0, OnceTogether
  <2>2. Grows(r3, s4, r4)
    BY <1>5, <1>9, ConcatGrows
  <2> QED
    BY <1>5, <1>9, <2>1, <2>2 DEF Grows
<1> HIDE DEF r4
<1>11. r = r4 \o s5
  BY <1>1 DEF r2, r3, r4
<1>12. r \in Seq(G!Events) /\ Once(r) /\ Grows(r4, s5, r)
  <2>0. \A i \in DOMAIN r4, j \in DOMAIN s5 :
           r4[i].kind \in {"template", "config"} \/ r4[i] # s5[j]
    BY <1>6, <1>10
  <2>1. r \in Seq(G!Events) /\ Once(r)
    BY <1>6, <1>7, <1>10, <1>11, <2>0, OnceTogether
  <2>2. Grows(r4, s5, r)
    BY <1>6, <1>10, <1>11, ConcatGrows
  <2> QED
    BY <2>1, <2>2
<1>13. \A e : (\/ \E i \in DOMAIN s1 : s1[i] = e
               \/ \E i \in DOMAIN s2 : s2[i] = e
               \/ \E i \in DOMAIN s3 : s3[i] = e
               \/ \E i \in DOMAIN s4 : s4[i] = e
               \/ \E i \in DOMAIN s5 : s5[i] = e) => \E i \in DOMAIN r : r[i] = e
  <2>1. \A e : (\E i \in DOMAIN s1 : s1[i] = e) \/ (\E i \in DOMAIN s2 : s2[i] = e)
                  => \E i \in DOMAIN r2 : r2[i] = e
    BY <1>8 DEF Grows
  <2>2. \A e : (\E i \in DOMAIN r2 : r2[i] = e) \/ (\E i \in DOMAIN s3 : s3[i] = e)
                  => \E i \in DOMAIN r3 : r3[i] = e
    BY <1>9 DEF Grows
  <2>3. \A e : (\E i \in DOMAIN r3 : r3[i] = e) \/ (\E i \in DOMAIN s4 : s4[i] = e)
                  => \E i \in DOMAIN r4 : r4[i] = e
    BY <1>10 DEF Grows
  <2>4. \A e : (\E i \in DOMAIN r4 : r4[i] = e) \/ (\E i \in DOMAIN s5 : s5[i] = e)
                  => \E i \in DOMAIN r : r[i] = e
    BY <1>12 DEF Grows
  <2> QED
    BY ONLY <2>1, <2>2, <2>3, <2>4
<1>14. \A n \in DOMAIN Defaults[b] :
          \/ \E i \in G!Registrations(l, n) : l[i].version = Defaults[b][n].version
          \/ \E i \in DOMAIN r : r[i] = G!BuildDefault(b, n)
  BY <1>2, <1>13 DEF names
<1>15. \A w \in Vocabulary[b] :
          \/ \E i \in G!Of(l, "word") : l[i].name = w
          \/ \E i \in DOMAIN r : r[i] = [kind |-> "word", name |-> w]
  BY <1>3, <1>13 DEF words
<1>16. G!Of(l, "config") # {} \/ \E i \in DOMAIN r : r[i].kind = "config"
  <2> SUFFICES ASSUME G!Of(l, "config") = {} PROVE \E i \in DOMAIN r : r[i].kind = "config"
    OBVIOUS
  <2>1. PICK k \in DOMAIN s3 : s3[k].kind = "config"
    BY <1>4
  <2> QED
    BY <1>13, <2>1
<1>17. /\ G!Of(l, "self") # {} \/ \E i \in DOMAIN r : r[i] = [kind |-> "self"]
       /\ \E i \in DOMAIN r : r[i] = [kind |-> "completed"]
  BY <1>5, <1>6, <1>13
<1> QED
  BY <1>12, <1>14, <1>15, <1>16, <1>17 DEF Completes, r

(* Creation is done where its last event is.                               *)
LEMMA StatusIs == \A l \in Seq(G!Events) : G!Status(l) = "complete" <=> G!Of(l, "completed") # {}
BY DEF G!Status, G!Of

(* A prompt that was registered stays registered.                          *)
LEMMA StillRegistered ==
    ASSUME NEW l, NEW added, NEW m, Grows(l, added, m), NEW n,
           G!LatestRegistration(l, n) # G!None
    PROVE  G!LatestRegistration(m, n) # G!None
<1>1. PICK i \in G!Registrations(l, n) : TRUE
  BY DEF G!LatestRegistration
<1>2. i \in G!Registrations(m, n) /\ m \in Seq(G!Events)
  BY <1>1 DEF Grows, G!Registrations, G!Of
<1> QED
  BY <1>2, LatestAtLeast

(* One self, one completion, a configuration, a build's words and prompts. *)
Whole(l) ==
    /\ \A kind \in {"completed", "self"} : \E i \in DOMAIN l : G!Of(l, kind) = {i}
    /\ G!Of(l, "config") # {}
    /\ \A i, j \in G!Of(l, "word") : l[j] = l[i] => i = j
    /\ \E b \in G!Builds :
          /\ \A w \in Vocabulary[b] : \E i \in G!Of(l, "word") : l[i].name = w
          /\ \A n \in DOMAIN Defaults[b] : G!LatestRegistration(l, n) # G!None

(* What is whole stays so under templates and settings.                    *)
LEMMA WholeStays ==
    ASSUME NEW l, NEW added, NEW m, Grows(l, added, m), Whole(l),
           \A k \in DOMAIN added : added[k].kind \in {"template", "config"}
    PROVE  Whole(m)
<1>1. ASSUME NEW kind \in {"completed", "self", "word"} PROVE G!Of(m, kind) = G!Of(l, kind)
  <2>1. \A i \in DOMAIN l : i \in DOMAIN m /\ m[i] = l[i]
    BY DEF Grows
  <2>2. \A i \in DOMAIN m : m[i].kind = kind => i \in DOMAIN l
    BY DEF Grows
  <2> QED
    BY <2>1, <2>2 DEF G!Of
<1>2. \A kind : \A i \in G!Of(l, kind) : i \in G!Of(m, kind) /\ m[i] = l[i] /\ i \in DOMAIN m
  BY DEF Grows, G!Of
<1>3. \A kind \in {"completed", "self"} : \E i \in DOMAIN m : G!Of(m, kind) = {i}
  BY <1>1, <1>2 DEF Whole
<1>4. G!Of(m, "config") # {}
  BY <1>2 DEF Whole
<1>5. \A i, j \in G!Of(m, "word") : m[j] = m[i] => i = j
  BY <1>1, <1>2 DEF Whole
<1>6. PICK b \in G!Builds :
          /\ \A w \in Vocabulary[b] : \E i \in G!Of(l, "word") : l[i].name = w
          /\ \A n \in DOMAIN Defaults[b] : G!LatestRegistration(l, n) # G!None
  BY DEF Whole
<1>7. \A w \in Vocabulary[b] : \E i \in G!Of(m, "word") : m[i].name = w
  BY <1>2, <1>6
<1>8. \A n \in DOMAIN Defaults[b] : G!LatestRegistration(m, n) # G!None
  BY <1>6, StillRegistered
<1> QED
  BY <1>3, <1>4, <1>5, <1>7, <1>8 DEF Whole

(* What a build's rollout completes is whole, and as new as the build.     *)
Reconciles(l, b) ==
    \A n \in DOMAIN Defaults[b] :
        LET latest == G!LatestRegistration(l, n)
        IN latest # G!None /\ (G!IsCurated(latest) \/ latest.version >= Defaults[b][n].version)

(* A rollout leaves the build's prompts as new as the build.               *)
LEMMA RolloutReconciles ==
    ASSUME NEW l, NEW b \in G!Builds, NEW m, Grows(l, G!Rollout(l, b), m)
    PROVE  Reconciles(m, b)
<1>1. l \in Seq(G!Events) /\ m \in Seq(G!Events)
  BY DEF Grows
<1>2. ASSUME NEW n \in DOMAIN Defaults[b]
      PROVE  \E i \in G!Registrations(m, n) : m[i].version = Defaults[b][n].version
  <2>1. PICK r : r = G!Rollout(l, b)
    OBVIOUS
  <2>2. \/ \E i \in G!Registrations(l, n) : l[i].version = Defaults[b][n].version
        \/ \E i \in DOMAIN r : r[i] = G!BuildDefault(b, n)
    BY <1>1, <2>1, RolloutIs DEF Completes
  <2>3. CASE \E i \in G!Registrations(l, n) : l[i].version = Defaults[b][n].version
    BY <2>3 DEF Grows, G!Registrations, G!Of
  <2>4. CASE \E i \in DOMAIN r : r[i] = G!BuildDefault(b, n)
    <3>1. \E i \in DOMAIN m : m[i] = G!BuildDefault(b, n)
      BY <2>1, <2>4 DEF Grows
    <3> QED
      BY <3>1, DefaultIs DEF G!Registrations, G!Of
  <2> QED
    BY <2>2, <2>3, <2>4
<1>3. ASSUME NEW n \in DOMAIN Defaults[b]
      PROVE  /\ G!LatestRegistration(m, n) # G!None
             /\ G!LatestRegistration(m, n).version >= Defaults[b][n].version
  <2>1. PICK i \in G!Registrations(m, n) : m[i].version = Defaults[b][n].version
    BY <1>2
  <2> QED
    BY <1>1, <2>1, LatestAtLeast
<1> QED
  BY <1>3 DEF Reconciles

(* A log of templates and settings is whole once the rollout is appended.  *)
LEMMA RolloutCompletes ==
    ASSUME NEW l, NEW b \in G!Builds, NEW m, m = l \o G!Rollout(l, b), l \in Seq(G!Events),
           \A i \in DOMAIN l : l[i].kind \in {"template", "config"}
    PROVE  m \in Seq(G!Events) /\ Grows(l, G!Rollout(l, b), m) /\ Whole(m)
<1>1. PICK r : r = G!Rollout(l, b)
  OBVIOUS
<1>2. /\ r \in Seq(G!Events) /\ Once(r)
      /\ \A w \in Vocabulary[b] :
            \/ \E i \in G!Of(l, "word") : l[i].name = w
            \/ \E i \in DOMAIN r : r[i] = [kind |-> "word", name |-> w]
      /\ G!Of(l, "config") # {} \/ \E i \in DOMAIN r : r[i].kind = "config"
      /\ G!Of(l, "self") # {} \/ \E i \in DOMAIN r : r[i] = [kind |-> "self"]
      /\ \E i \in DOMAIN r : r[i] = [kind |-> "completed"]
  BY <1>1, RolloutIs DEF Completes
<1>3. Grows(l, r, m)
  BY <1>1, <1>2, ConcatGrows
<1>4. m \in Seq(G!Events) /\ Once(m)
  <2>1. Once(l)
    BY DEF Once
  <2>2. \A i \in DOMAIN l, j \in DOMAIN r : l[i].kind \in {"template", "config"} \/ l[i] # r[j]
    OBVIOUS
  <2> QED
    BY <1>1, <1>2, <2>1, <2>2, OnceTogether
<1>5. G!Of(l, "word") = {} /\ G!Of(l, "self") = {}
  BY DEF G!Of
<1>6. \A i \in DOMAIN r : \E j \in DOMAIN m : m[j] = r[i]
  BY <1>3 DEF Grows
<1>7. ASSUME NEW kind \in {"completed", "self"}
      PROVE  \E i \in DOMAIN m : G!Of(m, kind) = {i}
  <2>1. \A i \in G!Of(m, kind) : i \in DOMAIN m /\ m[i] \in G!Events /\ m[i].kind = kind
    BY <1>4 DEF G!Of
  <2>2. \A i \in G!Of(m, kind) : m[i] = [kind |-> kind]
    BY <2>1, EventIs
  <2>3. ASSUME NEW i \in G!Of(m, kind), NEW j \in G!Of(m, kind) PROVE i = j
    <3>1. i \in DOMAIN m /\ j \in DOMAIN m /\ m[i] = m[j] /\ m[i].kind = kind
      BY <2>1, <2>2
    <3> QED
      BY <1>4, <3>1 DEF Once
  <2>4. \E i \in DOMAIN r : r[i] = [kind |-> kind]
    BY <1>2, <1>5
  <2>5. \E i \in DOMAIN m : m[i] = [kind |-> kind]
    BY <1>6, <2>4
  <2>6. \E i \in DOMAIN m : i \in G!Of(m, kind)
    BY <2>5 DEF G!Of
  <2> QED
    BY <2>3, <2>6
<1>8. G!Of(m, "config") # {}
  <2>1. CASE G!Of(l, "config") # {}
    BY <1>3, <2>1 DEF Grows, G!Of
  <2>2. CASE \E i \in DOMAIN r : r[i].kind = "config"
    BY <1>6, <2>2 DEF G!Of
  <2> QED
    BY <1>2, <2>1, <2>2
<1>9. \A i, j \in G!Of(m, "word") : m[j] = m[i] => i = j
  BY <1>4 DEF Once, G!Of
<1>10. \A w \in Vocabulary[b] : \E i \in G!Of(m, "word") : m[i].name = w
  <2> SUFFICES ASSUME NEW w \in Vocabulary[b] PROVE \E i \in G!Of(m, "word") : m[i].name = w
    OBVIOUS
  <2>1. \E i \in DOMAIN r : r[i] = [kind |-> "word", name |-> w]
    BY <1>2, <1>5
  <2>2. \E i \in DOMAIN m : m[i] = [kind |-> "word", name |-> w]
    BY <1>6, <2>1
  <2> QED
    BY <2>2 DEF G!Of
<1>11. Reconciles(m, b)
  BY <1>1, <1>3, RolloutReconciles
<1>12. \A n \in DOMAIN Defaults[b] : G!LatestRegistration(m, n) # G!None
  BY <1>11 DEF Reconciles
<1>13. Whole(m)
  BY <1>7, <1>8, <1>9, <1>10, <1>12 DEF Whole
<1> QED
  BY <1>1, <1>3, <1>4, <1>13

(* A boot leaves none of the build's prompts behind it.                    *)
LEMMA BootReconciled ==
    ASSUME NEW l, NEW b \in G!Builds, NEW m, Grows(l, G!Reconciled(l, b), m)
    PROVE  Reconciles(m, b)
<1>1. l \in Seq(G!Events) /\ m \in Seq(G!Events)
  BY DEF Grows
<1>2. PICK r : r = G!Reconciled(l, b)
  OBVIOUS
<1>3. /\ \A i \in DOMAIN r : \E n \in DOMAIN Defaults[b] :
            G!Advances(l, b, n) /\ r[i] = G!BuildDefault(b, n)
      /\ \A n \in DOMAIN Defaults[b] : G!Advances(l, b, n) =>
            \E i \in DOMAIN r : r[i] = G!BuildDefault(b, n)
  BY <1>2, ReconciledIs
<1>4. Grows(l, r, m)
  BY <1>2
<1>5. ASSUME NEW n \in DOMAIN Defaults[b]
      PROVE  LET latest == G!LatestRegistration(m, n)
             IN /\ latest # G!None
                /\ G!IsCurated(latest) \/ latest.version >= Defaults[b][n].version
  <2>1. CASE G!Advances(l, b, n)
    <3>1. PICK i \in DOMAIN m : m[i] = G!BuildDefault(b, n)
      BY <1>3, <1>4, <2>1 DEF Grows
    <3>2. i \in G!Registrations(m, n) /\ m[i].version = Defaults[b][n].version
      BY <3>1, DefaultIs DEF G!Registrations, G!Of
    <3> QED
      BY <1>1, <3>2, LatestAtLeast
  <2>2. CASE ~G!Advances(l, b, n)
    <3>1. \A k \in DOMAIN r : ~(r[k].kind = "template" /\ r[k].name = n)
      BY <1>3, <2>2, DefaultIs
    <3>2. G!LatestRegistration(m, n) = G!LatestRegistration(l, n)
      BY <1>4, <3>1, UntouchedPrompt
    <3>3. G!LatestRegistration(l, n) # G!None
      BY <2>2 DEF G!Advances
    <3>4. G!LatestRegistration(l, n).version \in Nat
      <4>1. PICK i \in G!Registrations(l, n) : TRUE
        BY <3>3 DEF G!LatestRegistration
      <4> QED
        BY <1>1, <4>1, LatestAtLeast
    <3>5. \/ G!IsCurated(G!LatestRegistration(l, n))
          \/ ~(Defaults[b][n].version > G!LatestRegistration(l, n).version)
      BY <2>2 DEF G!Advances
    <3> QED
      BY <3>2, <3>3, <3>4, <3>5, DefaultIs
  <2> QED
    BY <2>1, <2>2
<1> QED
  BY <1>5 DEF Reconciles

(* What an operator adds leaves the build's prompts reconciled.            *)
LEMMA OperatorReconciles ==
    ASSUME NEW l, NEW added, NEW m, Grows(l, added, m), NEW b \in G!Builds, Reconciles(l, b),
           \A k \in DOMAIN added : G!ByOperator(added[k])
    PROVE  Reconciles(m, b)
<1>1. l \in Seq(G!Events) /\ m \in Seq(G!Events)
  BY DEF Grows
<1>2. ASSUME NEW n \in DOMAIN Defaults[b]
      PROVE  LET latest == G!LatestRegistration(m, n)
             IN /\ latest # G!None
                /\ G!IsCurated(latest) \/ latest.version >= Defaults[b][n].version
  <2>1. G!LatestRegistration(l, n) # G!None
    BY DEF Reconciles
  <2>2. G!LatestRegistration(m, n) # G!None
    BY <2>1, StillRegistered
  <2>3. PICK i \in G!Registrations(m, n) :
            /\ G!LatestRegistration(m, n) = m[i]
            /\ \A j \in G!Registrations(m, n) :
                  m[j].version < m[i].version \/ (m[j].version = m[i].version /\ j <= i)
    BY <1>1, <2>2, LatestStands DEF G!LatestRegistration
  <2>4. CASE i \in DOMAIN l
    <3>1. \A j \in G!Registrations(l, n) : j \in G!Registrations(m, n) /\ m[j] = l[j]
      BY DEF Grows, G!Registrations, G!Of
    <3>2. i \in G!Registrations(l, n) /\ m[i] = l[i]
      BY <2>4 DEF Grows, G!Registrations, G!Of
    <3>3. G!LatestRegistration(l, n) = l[i]
      BY <1>1, <2>3, <3>1, <3>2, LatestIs
    <3>4. G!LatestRegistration(m, n) = G!LatestRegistration(l, n)
      BY <2>3, <3>2, <3>3
    <3> QED
      BY <3>4 DEF Reconciles
  <2>5. CASE i \notin DOMAIN l
    <3>1. i \in DOMAIN m /\ m[i].kind = "template"
      BY <2>3 DEF G!Registrations, G!Of
    <3>2. G!ByOperator(m[i])
      BY <2>5, <3>1 DEF Grows
    <3>3. m[i].by = "operator"
      BY <3>1, <3>2 DEF G!ByOperator
    <3> QED
      BY <2>2, <2>3, <3>3 DEF G!IsCurated
  <2> QED
    BY <2>4, <2>5
<1> QED
  BY <1>2 DEF Reconciles

(* The invariant, over the log.                                            *)
LEMMA GenesisInvIs ==
    G!GenesisInv <=>
       /\ G!GenesisTypes
       /\ G!Status(born) # "complete" =>
             \A i \in DOMAIN born : born[i].kind \in {"template", "config"}
       /\ forced # << >> => server = 0
       /\ G!Status(born) = "complete" => Whole(born)
       /\ server # 0 /\ G!Status(born) = "complete" => Reconciles(born, server)
BY DEF G!GenesisInv, G!Unborn, G!BornOnce, G!BootReconciles, Whole, Reconciles

(* What a template or a setting changes: nothing of what the log is.       *)
Settled(l, added, m) ==
    /\ m \in Seq(G!Events) /\ Grows(l, added, m)
    /\ G!Status(m) = "complete" <=> G!Status(l) = "complete"
    /\ G!Status(m) = "complete" => Whole(m)
    /\ G!Status(m) # "complete" => \A i \in DOMAIN m : m[i].kind \in {"template", "config"}

(* An append of templates and settings keeps the log's status and what it  *)
(* needs.                                                                  *)
LEMMA Settles ==
    ASSUME G!GenesisInv, NEW added \in Seq(G!Events),
           \A k \in DOMAIN added : added[k].kind \in {"template", "config"}
    PROVE  Settled(born, added, born \o added)
<1> DEFINE m == born \o added
<1>1. born \in Seq(G!Events)
  BY DEF G!GenesisInv, G!GenesisTypes
<1>2. Grows(born, added, m) /\ m \in Seq(G!Events)
  BY <1>1, ConcatGrows DEF Grows
<1> HIDE DEF m
<1>3. G!Of(m, "completed") = G!Of(born, "completed")
  BY <1>2 DEF Grows, G!Of
<1>4. G!Status(m) = "complete" <=> G!Status(born) = "complete"
  BY <1>1, <1>2, <1>3, StatusIs
<1>5. G!Status(m) = "complete" => Whole(m)
  BY <1>2, <1>4, WholeStays, GenesisInvIs
<1>6. G!Status(m) # "complete" => \A i \in DOMAIN m : m[i].kind \in {"template", "config"}
  BY <1>2, <1>4, GenesisInvIs DEF Grows
<1> QED
  BY <1>2, <1>4, <1>5, <1>6 DEF Settled, m

(* What only an operator writes is an event of its kind.                   *)
LEMMA OperatorIs ==
    ASSUME NEW e \in G!Template({"operator"})
    PROVE  e \in G!Events /\ e.kind = "template" /\ G!ByOperator(e)
<1>1. PICK name \in G!Names, version \in Nat, body \in G!Wordings :
           e = G!Registered(name, version, body, "operator")
  BY DEF G!Template
<1>2. e.kind = "template" /\ e.by = "operator"
  BY <1>1 DEF G!Registered
<1>3. e \in G!Template({"bootstrap", "operator"})
  BY <1>1 DEF G!Template
<1> QED
  BY <1>2, <1>3 DEF G!ByOperator, G!Events

(* The latest registration's version, for the next one's.                  *)
LEMMA NextVersion ==
    ASSUME NEW l \in Seq(G!Events), NEW n, G!LatestRegistration(l, n) # G!None
    PROVE  G!LatestRegistration(l, n).version + 1 \in Nat
<1>1. PICK i \in G!Registrations(l, n) : TRUE
  BY DEF G!LatestRegistration
<1> QED
  BY <1>1, LatestAtLeast

(* Nothing has been said before the first boot.                            *)
LEMMA GenesisInitial == G!Init => G!GenesisInv
<1> SUFFICES ASSUME G!Init PROVE G!GenesisInv
  OBVIOUS
<1> USE DEF G!Init
<1>1. G!GenesisTypes
  BY DEF G!GenesisTypes
<1>2. G!Status(born) # "complete" /\ DOMAIN born = {}
  BY DEF G!Status
<1> QED
  BY <1>1, <1>2, GenesisInvIs

(* Boots, creations, upgrades and the operator's edits keep the invariant. *)
LEMMA GenesisStep == G!GenesisInv /\ (G!Next \/ UNCHANGED genesisVars) => G!GenesisInv'
<1> SUFFICES ASSUME G!GenesisInv, G!Next \/ UNCHANGED genesisVars PROVE G!GenesisInv'
  OBVIOUS
<1>a. /\ born \in Seq(G!Events) /\ server \in G!Builds \cup {0}
      /\ edits \in [Editor -> G!Template({"operator"}) \cup {G!None}]
      /\ forced \in Seq(G!Template({"operator"}))
  BY DEF G!GenesisInv, G!GenesisTypes
<1>b. /\ G!Status(born) # "complete" =>
            \A i \in DOMAIN born : born[i].kind \in {"template", "config"}
      /\ forced # << >> => server = 0
      /\ G!Status(born) = "complete" => Whole(born)
      /\ server # 0 /\ G!Status(born) = "complete" => Reconciles(born, server)
  BY GenesisInvIs
<1>c. ASSUME /\ born' \in Seq(G!Events) /\ server' \in G!Builds \cup {0}
             /\ edits' \in [Editor -> G!Template({"operator"}) \cup {G!None}]
             /\ forced' \in Seq(G!Template({"operator"})),
             G!Status(born') # "complete" =>
                \A i \in DOMAIN born' : born'[i].kind \in {"template", "config"},
             forced' # << >> => server' = 0,
             G!Status(born') = "complete" => Whole(born'),
             server' # 0 /\ G!Status(born') = "complete" => Reconciles(born', server')
      PROVE  G!GenesisInv'
  <2>1. G!GenesisTypes'
    BY <1>c DEF G!GenesisTypes
  <2>2. G!Unborn' /\ G!BornOnce'
    BY <1>c DEF G!Unborn, G!BornOnce, Whole
  <2>3. G!BootReconciles'
    BY <1>c DEF G!BootReconciles, Reconciles
  <2> QED
    BY <1>c, <2>1, <2>2, <2>3 DEF G!GenesisInv
<1>1. CASE G!CreateAgent
  <2>1. /\ server # 0 /\ server \in G!Builds /\ G!Status(born) # "complete"
        /\ born' = born \o G!Rollout(born, server) /\ UNCHANGED <<server, edits, forced>>
    BY <1>1, <1>a DEF G!CreateAgent
  <2>2. /\ born' \in Seq(G!Events) /\ Grows(born, G!Rollout(born, server), born')
        /\ Whole(born')
    BY <1>a, <1>b, <2>1, RolloutCompletes
  <2>3. Reconciles(born', server)
    BY <2>1, <2>2, RolloutReconciles
  <2>4. G!Status(born') = "complete"
    BY <2>2, StatusIs DEF Whole
  <2> QED
    BY <1>a, <1>b, <1>c, <2>1, <2>2, <2>3, <2>4
<1>2. ASSUME NEW b \in G!Builds, G!Boot(b) PROVE G!GenesisInv'
  <2>1. /\ forced = << >> /\ server' = b /\ UNCHANGED <<edits, forced>>
        /\ born' = IF G!Status(born) = "complete" THEN born \o G!Reconciled(born, b) ELSE born
    BY <1>2 DEF G!Boot
  <2>2. CASE G!Status(born) = "complete"
    <3>1. /\ G!Reconciled(born, b) \in Seq(G!Events)
          /\ \A k \in DOMAIN G!Reconciled(born, b) : G!Reconciled(born, b)[k].kind = "template"
      BY ReconciledIs, DefaultIs
    <3>2. born' = born \o G!Reconciled(born, b)
      BY <2>1, <2>2
    <3>3. Settled(born, G!Reconciled(born, b), born')
      BY <3>1, <3>2, Settles
    <3>4. Reconciles(born', b)
      BY <3>3, BootReconciled DEF Settled
    <3> QED
      BY <1>a, <1>c, <2>1, <2>2, <3>3, <3>4 DEF Settled
  <2>3. CASE G!Status(born) # "complete"
    BY <1>a, <1>b, <1>c, <2>1, <2>3
  <2> QED
    BY <2>2, <2>3
<1>3. CASE G!Stop
  <2>1. server' = 0 /\ edits' = [e \in Editor |-> G!None] /\ UNCHANGED <<born, forced>>
    BY <1>3 DEF G!Stop
  <2> QED
    BY <1>a, <1>b, <1>c, <2>1
<1>4. ASSUME NEW b \in G!Builds, NEW force \in BOOLEAN, G!UpgradePrompts(b, force)
      PROVE  G!GenesisInv'
  <2> DEFINE U == {n \in DOMAIN Defaults[b] : G!UpgradeAvailable(born, b, n)}
             held == G!SetToSeq(U)
  <2>1. /\ server = 0 /\ UNCHANGED <<server, edits>>
        /\ born' = born \o G!Reconciled(born, b)
        /\ forced' = IF ~force THEN << >>
                     ELSE [i \in DOMAIN held |->
                             G!Registered(held[i],
                                          G!LatestRegistration(born, held[i]).version + 1,
                                          Defaults[b][held[i]].body, "operator")]
    BY <1>4 DEF G!UpgradePrompts
  <2>2. /\ G!Reconciled(born, b) \in Seq(G!Events)
        /\ \A k \in DOMAIN G!Reconciled(born, b) : G!Reconciled(born, b)[k].kind = "template"
    BY ReconciledIs, DefaultIs
  <2>3. Settled(born, G!Reconciled(born, b), born')
    BY <2>1, <2>2, Settles
  <2>4. held \in Seq(U) /\ \A n \in U : n \in DOMAIN Defaults[b]
                           /\ G!LatestRegistration(born, n) # G!None
    <3>1. IsFiniteSet(U)
      BY GenesisAssumption, FS_Subset DEF G!Builds
    <3>2. \A n \in U : n \in DOMAIN Defaults[b] /\ G!LatestRegistration(born, n) # G!None
      BY DEF G!UpgradeAvailable, G!IsCurated
    <3> HIDE DEF U
    <3> QED
      BY <3>1, <3>2, SetInOrder
  <2> HIDE DEF U, held
  <2>5. forced' \in Seq(G!Template({"operator"}))
    <3>1. CASE ~force
      BY <2>1, <3>1
    <3>2. CASE force
      <4>1. ASSUME NEW i \in 1..Len(held)
            PROVE  G!Registered(held[i], G!LatestRegistration(born, held[i]).version + 1,
                                Defaults[b][held[i]].body, "operator")
                      \in G!Template({"operator"})
        <5>1. held[i] \in DOMAIN Defaults[b] /\ G!LatestRegistration(born, held[i]) # G!None
          BY <2>4
        <5>2. held[i] \in G!Names /\ Defaults[b][held[i]].body \in G!Wordings
          BY <5>1 DEF G!Names, G!Wordings
        <5>3. G!LatestRegistration(born, held[i]).version + 1 \in Nat
          BY <1>a, <5>1, NextVersion
        <5> QED
          BY <5>2, <5>3 DEF G!Template
      <4>2. DOMAIN held = 1..Len(held) /\ Len(held) \in Nat
        BY <2>4
      <4>3. forced' \in [1..Len(held) -> G!Template({"operator"})]
        BY <2>1, <3>2, <4>1, <4>2
      <4> QED
        BY <4>2, <4>3
    <3> QED
      BY <3>1, <3>2
  <2> QED
    BY <1>a, <1>c, <2>1, <2>3, <2>5 DEF Settled
<1>5. CASE G!OverwriteForced
  <2>1. /\ forced # << >> /\ born' = born \o forced /\ forced' = << >>
        /\ UNCHANGED <<server, edits>>
    BY <1>5 DEF G!OverwriteForced
  <2>2. forced \in Seq(G!Events) /\ \A k \in DOMAIN forced : forced[k].kind = "template"
    <3>1. \A k \in 1..Len(forced) : forced[k] \in G!Events /\ forced[k].kind = "template"
      BY <1>a, OperatorIs
    <3> QED
      BY <1>a, <3>1
  <2>3. Settled(born, forced, born')
    BY <2>1, <2>2, Settles
  <2> QED
    BY <1>a, <1>b, <1>c, <2>1, <2>3 DEF Settled
<1>6. CASE G!UpgradeCutShort
  <2>1. forced' = << >> /\ UNCHANGED <<born, server, edits>>
    BY <1>6 DEF G!UpgradeCutShort
  <2> QED
    BY <1>a, <1>b, <1>c, <2>1
<1>7. ASSUME NEW e \in Editor, NEW name \in G!Names, NEW body \in Bodies,
             G!RegisterPrompt(e, name, body)
      PROVE  G!GenesisInv'
  <2>1. PICK version : /\ version \in Nat
                       /\ edits' = [edits EXCEPT ![e] =
                                      G!Registered(name, version, body, "operator")]
    <3>1. LET latest == G!LatestRegistration(born, name)
          IN edits' = [edits EXCEPT ![e] =
                G!Registered(name, IF latest = G!None THEN 1 ELSE latest.version + 1, body,
                             "operator")]
      BY <1>7 DEF G!RegisterPrompt
    <3> QED
      BY <1>a, <3>1, NextVersion
  <2>2. UNCHANGED <<born, server, forced>>
    BY <1>7 DEF G!RegisterPrompt
  <2>3. G!Registered(name, version, body, "operator") \in G!Template({"operator"})
    BY <2>1 DEF G!Template, G!Wordings
  <2>4. edits' \in [Editor -> G!Template({"operator"}) \cup {G!None}]
    BY <1>a, <2>1, <2>3
  <2> QED
    BY <1>a, <1>b, <1>c, <2>2, <2>4
<1>8. ASSUME NEW e \in Editor, G!AppendPrompt(e) PROVE G!GenesisInv'
  <2>1. /\ edits[e] \in G!Template({"operator"}) /\ born' = Append(born, edits[e])
        /\ edits' = [edits EXCEPT ![e] = G!None] /\ UNCHANGED <<server, forced>>
    BY <1>8, <1>a DEF G!AppendPrompt
  <2>2. edits[e] \in G!Events /\ edits[e].kind = "template" /\ G!ByOperator(edits[e])
    BY <2>1, OperatorIs
  <2>3. born' = born \o <<edits[e]>> /\ <<edits[e]>> \in Seq(G!Events)
    BY <1>a, <2>1, <2>2
  <2>4. \A k \in DOMAIN <<edits[e]>> : <<edits[e]>>[k] = edits[e]
    OBVIOUS
  <2>5. Settled(born, <<edits[e]>>, born')
    BY <2>2, <2>3, <2>4, Settles
  <2>6. server # 0 /\ G!Status(born) = "complete" => Reconciles(born', server)
    BY <1>a, <1>b, <2>2, <2>4, <2>5, OperatorReconciles DEF Settled
  <2>7. edits' \in [Editor -> G!Template({"operator"}) \cup {G!None}]
    BY <1>a, <2>1
  <2> QED
    BY <1>a, <1>b, <1>c, <2>1, <2>5, <2>6, <2>7 DEF Settled
<1>9. ASSUME NEW snapshot \in Snapshots, G!SetSettings(snapshot) PROVE G!GenesisInv'
  <2> DEFINE e == [kind |-> "config", snapshot |-> snapshot]
  <2>1. born' = Append(born, e) /\ UNCHANGED <<server, edits, forced>>
    BY <1>9 DEF G!SetSettings
  <2>2. e \in G!Events /\ e.kind = "config" /\ G!ByOperator(e)
    BY DEF G!Events, G!ByOperator
  <2> HIDE DEF e
  <2>3. born' = born \o <<e>> /\ <<e>> \in Seq(G!Events)
    BY <1>a, <2>1, <2>2
  <2>4. \A k \in DOMAIN <<e>> : <<e>>[k] = e
    OBVIOUS
  <2>5. Settled(born, <<e>>, born')
    BY <2>2, <2>3, <2>4, Settles
  <2>6. server # 0 /\ G!Status(born) = "complete" => Reconciles(born', server)
    BY <1>a, <1>b, <2>2, <2>4, <2>5, OperatorReconciles DEF Settled
  <2> QED
    BY <1>a, <1>b, <1>c, <2>1, <2>5, <2>6 DEF Settled
<1>10. CASE UNCHANGED genesisVars
  <2>1. UNCHANGED <<born, server, edits, forced>>
    BY <1>10 DEF genesisVars
  <2> QED
    BY <1>a, <1>b, <1>c, <2>1
<1> QED
  BY <1>1, <1>2, <1>3, <1>4, <1>5, <1>6, <1>7, <1>8, <1>9, <1>10 DEF G!Next

(* Where an agent is born, what is not an operator's own leaves theirs.    *)
LEMMA GenesisStands == G!GenesisInv /\ (G!Next \/ UNCHANGED genesisVars) => G!Stands \/ born' = born
<1> SUFFICES ASSUME G!GenesisInv, G!Next, G!Status(born) = "complete", born' # born
             PROVE  \/ \A i \in DOMAIN born' \ DOMAIN born : G!ByOperator(born'[i])
                    \/ /\ G!Settings(born') = G!Settings(born)
                       /\ \A n \in G!Names : G!IsCurated(G!LatestRegistration(born, n)) =>
                             G!LatestRegistration(born', n) = G!LatestRegistration(born, n)
  BY DEF G!Stands, genesisVars
<1>a. /\ born \in Seq(G!Events)
      /\ edits \in [Editor -> G!Template({"operator"}) \cup {G!None}]
      /\ forced \in Seq(G!Template({"operator"}))
  BY DEF G!GenesisInv, G!GenesisTypes
<1>b. ASSUME NEW b \in G!Builds, born' = born \o G!Reconciled(born, b)
      PROVE  /\ G!Settings(born') = G!Settings(born)
             /\ \A n \in G!Names : G!IsCurated(G!LatestRegistration(born, n)) =>
                   G!LatestRegistration(born', n) = G!LatestRegistration(born, n)
  <2>1. PICK r : r = G!Reconciled(born, b)
    OBVIOUS
  <2>2. /\ r \in Seq(G!Events)
        /\ \A i \in DOMAIN r : \E n \in DOMAIN Defaults[b] :
              G!Advances(born, b, n) /\ r[i] = G!BuildDefault(b, n)
    BY <2>1, ReconciledIs
  <2>3. Grows(born, r, born')
    BY <1>a, <1>b, <2>1, <2>2, ConcatGrows
  <2>4. \A k \in DOMAIN r : r[k].kind = "template"
    BY <2>2, DefaultIs
  <2>5. G!Settings(born') = G!Settings(born)
    BY <2>3, <2>4, UntouchedSettings
  <2>6. ASSUME NEW n, G!IsCurated(G!LatestRegistration(born, n))
        PROVE  G!LatestRegistration(born', n) = G!LatestRegistration(born, n)
    <3>1. ~G!Advances(born, b, n)
      BY <2>6 DEF G!Advances, G!IsCurated
    <3>2. \A k \in DOMAIN r : ~(r[k].kind = "template" /\ r[k].name = n)
      BY <2>2, <3>1, DefaultIs
    <3> QED
      BY <2>3, <3>2, UntouchedPrompt
  <2> QED
    BY <2>5, <2>6
<1>c. ASSUME NEW added \in Seq(G!Events), born' = born \o added,
             \A k \in DOMAIN added : G!ByOperator(added[k])
      PROVE  \A i \in DOMAIN born' \ DOMAIN born : G!ByOperator(born'[i])
  <2>1. Grows(born, added, born')
    BY <1>a, <1>c, ConcatGrows
  <2> QED
    BY <1>c, <2>1 DEF Grows
<1>1. CASE G!CreateAgent
  BY <1>1 DEF G!CreateAgent
<1>2. ASSUME NEW b \in G!Builds, G!Boot(b)
      PROVE  born' = born \o G!Reconciled(born, b)
  BY <1>2 DEF G!Boot
<1>3. ASSUME NEW b \in G!Builds, NEW force \in BOOLEAN, G!UpgradePrompts(b, force)
      PROVE  born' = born \o G!Reconciled(born, b)
  BY <1>3 DEF G!UpgradePrompts
<1>4. CASE G!OverwriteForced
  <2>1. born' = born \o forced
    BY <1>4 DEF G!OverwriteForced
  <2>2. \A k \in 1..Len(forced) : forced[k] \in G!Events /\ G!ByOperator(forced[k])
    BY <1>a, OperatorIs
  <2>3. forced \in Seq(G!Events) /\ \A k \in DOMAIN forced : G!ByOperator(forced[k])
    BY <1>a, <2>2
  <2> QED
    BY <1>c, <2>1, <2>3
<1>5. ASSUME NEW e \in Editor, G!AppendPrompt(e)
      PROVE  \A i \in DOMAIN born' \ DOMAIN born : G!ByOperator(born'[i])
  <2>1. edits[e] \in G!Template({"operator"}) /\ born' = Append(born, edits[e])
    BY <1>5, <1>a DEF G!AppendPrompt
  <2>2. edits[e] \in G!Events /\ G!ByOperator(edits[e])
    BY <2>1, OperatorIs
  <2>3. born' = born \o <<edits[e]>> /\ <<edits[e]>> \in Seq(G!Events)
    BY <1>a, <2>1, <2>2
  <2>4. \A k \in DOMAIN <<edits[e]>> : <<edits[e]>>[k] = edits[e]
    OBVIOUS
  <2> QED
    BY <1>c, <2>2, <2>3, <2>4
<1>6. ASSUME NEW snapshot \in Snapshots, G!SetSettings(snapshot)
      PROVE  \A i \in DOMAIN born' \ DOMAIN born : G!ByOperator(born'[i])
  <2> DEFINE e == [kind |-> "config", snapshot |-> snapshot]
  <2>1. born' = Append(born, e)
    BY <1>6 DEF G!SetSettings
  <2>2. e \in G!Events /\ G!ByOperator(e)
    BY DEF G!Events, G!ByOperator
  <2> HIDE DEF e
  <2>3. born' = born \o <<e>> /\ <<e>> \in Seq(G!Events)
    BY <1>a, <2>1, <2>2
  <2>4. \A k \in DOMAIN <<e>> : <<e>>[k] = e
    OBVIOUS
  <2> QED
    BY <1>c, <2>2, <2>3, <2>4
<1>7. G!Stop \/ G!UpgradeCutShort
        \/ (\E e \in Editor, name \in G!Names, body \in Bodies : G!RegisterPrompt(e, name, body))
      => UNCHANGED born
  BY DEF G!Stop, G!UpgradeCutShort, G!RegisterPrompt
<1> QED
  BY <1>1, <1>2, <1>3, <1>b, <1>4, <1>5, <1>6, <1>7 DEF G!Next

(* An agent is born once and whole, a boot leaves no prompt of its build   *)
(* behind, and what an operator set stands (rollout, reconcile_templates,  *)
(* register_prompt, upgrade_prompts), for any builds, prompts and edits.   *)
THEOREM GenesisAlwaysHolds == ServicesSpec => GenesisHolds
<1>1. ServicesInit => G!GenesisInv
  BY GenesisInitial DEF ServicesInit
<1>2. G!GenesisInv /\ [ServicesNext]_services => G!GenesisInv'
  BY GenesisStep DEF ServicesNext, services
<1>3. G!GenesisInv /\ [ServicesNext]_services => [G!Stands]_born
  BY GenesisStands DEF ServicesNext, services, genesisVars
<1>4. G!GenesisInv => (part = "genesis" => G!BornOnce /\ G!BootReconciles)
  BY DEF G!GenesisInv
<1> QED
  BY <1>1, <1>2, <1>3, <1>4, PTL DEF ServicesSpec, GenesisHolds, G!OperatorStands
=============================================================================
