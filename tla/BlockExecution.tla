--------------------------- MODULE BlockExecution ---------------------------
(***************************************************************************)
(* The execution of Lua blocks: Session::execute with its attempts, the    *)
(* per-memory locks a block collects as it touches memories and keeps to   *)
(* its end, the buffered effects it commits in one append, and the MCP     *)
(* session whose calls no abort can undo.                                  *)
(*                                                                         *)
(* Blocks of different conversations run concurrently; a conversation runs *)
(* one at a time.  What a script does is chosen freely: it reads, appends, *)
(* creates, renames, calls a tool and ends in any of the four ways.  An    *)
(* operation a guard of the block refuses changes nothing and is left out. *)
(*                                                                         *)
(* The graph is the fold of the log's first `head' events.  An entry is    *)
(* named by its position in the log.                                       *)
(***************************************************************************)
EXTENDS Naturals, Sequences, FiniteSets, FiniteSetsExt, Functions

CONSTANTS
    Conversation,   \* the sessions that run blocks, the console's included
    Stubs,          \* the memories that exist before the run
    Primary,        \* the primary stub of each memory's same_as class
    NewName,        \* handles no memory bears before the run
    NoOp,           \* no memory operation under way
    MaxAttempts,    \* max_block_attempts
    MaxBlocks,      \* bound: blocks started
    MaxOps,         \* bound: operations of all their attempts
    MaxForeign      \* bound: commits of the connector

\* The primary of a class is one of its members, and execute makes at least
\* one attempt (max_block_attempts.max(1)).
ASSUME BlockAssumption ==
    /\ Primary \in [Stubs -> Stubs]
    /\ \A m \in Stubs : Primary[Primary[m]] = Primary[m]
    /\ {MaxBlocks, MaxOps, MaxForeign} \subseteq Nat
    /\ MaxAttempts \in Nat \ {0}

VARIABLES
    pc,         \* where each conversation's block is
    attempt,    \* the loop counter of execute
    op,         \* the operation whose locks are being collected
    want,       \* the memories it has still to lock
    api,        \* BlockApi: the buffer, the reads, the infra slot, the lock set
    queue,      \* MemoryLocks: per memory the holder, then the waiters in order
    mcp,        \* McpSession: the latch, the in-flight marker, the instance
    log,        \* the event log
    head,       \* how much of it the graph has folded
    used,       \* how much of each bound is spent
    effects,    \* history: the attempts of this block that called a tool
    desynced    \* history: the live instance was abandoned in mid-call

hist == <<effects, desynced>>
blockVars == <<pc, attempt, op, want, api, queue, mcp, log, head, used, hist>>

-----------------------------------------------------------------------------
(* The same_as class of m, and the member a write through m lands on.      *)
Class(m) == {x \in Stubs : Primary[x] = Primary[m]}
WriteTarget(m) == Primary[m]

(* The content of m in the first k events: the positions of its entries.   *)
Entries(l, k, m) == {i \in 1..k : l[i].kind = "entry" /\ l[i].mem = m}

(* Some memory bears n after the first k events.                           *)
Bearers(l, k, n) ==
    {l[i].mem : i \in {j \in 1..k :
        /\ l[j].kind = "name" /\ l[j].name = n
        /\ \A h \in (j + 1)..k : ~(l[h].kind = "name" /\ l[h].mem = l[j].mem)}}

(* The fold of event i violates the uniqueness of names.                   *)
Collides(l, i) ==
    l[i].kind = "name" /\ Bearers(l, i - 1, l[i].name) \ {l[i].mem} # {}

(* Graph::materialize_from: apply events until the log ends or one fails.  *)
Materialized(l, from) ==
    LET failing == {i \in (from + 1)..Len(l) : Collides(l, i)}
    IN  IF failing = {} THEN Len(l) ELSE Min(failing) - 1

FreshApi == [buf |-> <<>>, seen |-> <<>>, infra |-> FALSE, held |-> {}]
NoMcp == [made |-> FALSE, inFlight |-> FALSE, live |-> FALSE]

Spend(bound, max) == used[bound] < max /\ used' = [used EXCEPT ![bound] = @ + 1]

Evaluating == {"run", "lock", "spawn", "call"}

(* MemoryBlock::resolve: the pending creates and renames, then the graph.  *)
Resolves(c, n) ==
    \/ \E i \in DOMAIN api[c].buf :
          api[c].buf[i].kind = "name" /\ api[c].buf[i].name = n
    \/ Bearers(log, head, n) # {}

BlockInit ==
    /\ pc = [c \in Conversation |-> "idle"]
    /\ attempt = [c \in Conversation |-> 0]
    /\ op = [c \in Conversation |-> NoOp]
    /\ want = [c \in Conversation |-> {}]
    /\ api = [c \in Conversation |-> FreshApi]
    /\ queue = [m \in Stubs |-> <<>>]
    /\ mcp = [c \in Conversation |-> NoMcp]
    /\ log = <<>>
    /\ head = 0
    /\ used = [blocks |-> 0, ops |-> 0, foreign |-> 0]
    /\ effects = [c \in Conversation |-> {}]
    /\ desynced = [c \in Conversation |-> FALSE]

-----------------------------------------------------------------------------
(* A turn's tool call, or the console's script, enters execute: the first  *)
(* attempt over a fresh BlockApi, the MCP latch reset.  The console folds  *)
(* the log first.                                                          *)
Begin(c) ==
    /\ pc[c] = "idle" /\ Spend("blocks", MaxBlocks)
    /\ head' \in {head, Materialized(log, head)}
    /\ pc' = [pc EXCEPT ![c] = "run"]
    /\ attempt' = [attempt EXCEPT ![c] = 1]
    /\ mcp' = [mcp EXCEPT ![c].made = FALSE]
    /\ UNCHANGED <<op, want, api, queue, log, hist>>

(* The script calls a function of the memory API.  ensure_locked skips the *)
(* memories the block already holds.                                       *)
Call(c, o, ids) ==
    /\ pc[c] = "run" /\ Spend("ops", MaxOps)
    /\ pc' = [pc EXCEPT ![c] = "lock"]
    /\ op' = [op EXCEPT ![c] = o]
    /\ want' = [want EXCEPT ![c] = ids \ api[c].held]
    /\ UNCHANGED <<attempt, api, queue, mcp, log, head, hist>>

(* mem:append locks the handle it was called on.                           *)
CallAppend(c, m) == Call(c, [kind |-> "append", mem |-> m], {m})

(* Only the queried stub is locked.                                        *)
CallReadStub(c, m) == Call(c, [kind |-> "read", mem |-> m], {m})

(* mem:entries, memory.get and the other traversing reads lock the class.  *)
CallRead(c, m) == Call(c, [kind |-> "read", mem |-> m], Class(m))

(* mem:rename locks the memory it renames.                                 *)
CallRename(c, m, n) ==
    Call(c, [kind |-> "rename", mem |-> m, name |-> n], {m})

(* memory.create, get_or_create and a minting link endpoint: the name is   *)
(* looked up and the new memory buffered in one step, under no memory      *)
(* lock.  The lock on the new id is free, since nobody else knows the id.  *)
CallCreate(c, n) ==
    /\ pc[c] = "run" /\ Spend("ops", MaxOps)
    /\ ~Resolves(c, n)
    /\ api' = [api EXCEPT ![c].buf = Append(@,
          [kind |-> "name", name |-> n, mem |-> used'.ops])]
    /\ UNCHANGED <<pc, attempt, op, want, queue, mcp, log, head, hist>>

-----------------------------------------------------------------------------
(* ensure_locked acquires the memories one after the other, the handle's   *)
(* own before the rest of its class.  A free mutex is taken at once, and a *)
(* taken one is waited for in arrival order.                               *)
Acquire(c, m) ==
    /\ pc[c] = "lock" /\ m \in want[c]
    /\ op[c].mem \in want[c] => m = op[c].mem
    /\ \A x \in want[c] : c \notin Range(queue[x])
    /\ queue' = [queue EXCEPT ![m] = Append(@, c)]
    /\ IF queue[m] = <<>>
         THEN /\ want' = [want EXCEPT ![c] = @ \ {m}]
              /\ api' = [api EXCEPT ![c].held = @ \cup {m}]
         ELSE UNCHANGED <<want, api>>
    /\ UNCHANGED <<pc, attempt, op, mcp, log, head, used, hist>>

(* The waiter at the front gets the guard, and it joins the lock set.      *)
Granted(c, m) ==
    /\ pc[c] = "lock" /\ m \in want[c]
    /\ queue[m] # <<>> /\ Head(queue[m]) = c
    /\ want' = [want EXCEPT ![c] = @ \ {m}]
    /\ api' = [api EXCEPT ![c].held = @ \cup {m}]
    /\ UNCHANGED <<pc, attempt, op, queue, mcp, log, head, used, hist>>

(* All locks held, the operation runs: an append buffers an entry on the   *)
(* class's primary, a traversing read sees the class in the graph, a       *)
(* rename onto a free name is buffered.                                    *)
Buffered(c) ==
    CASE op[c].kind = "append" ->
            <<[kind |-> "entry", mem |-> WriteTarget(op[c].mem), by |-> "agent"]>>
      [] op[c].kind = "rename" /\ ~Resolves(c, op[c].name) ->
            <<[kind |-> "name", name |-> op[c].name, mem |-> op[c].mem]>>
      [] OTHER -> <<>>

Seen(c) ==
    LET members == IF op[c].kind = "read" THEN Class(op[c].mem) ELSE {}
    IN  [m \in DOMAIN api[c].seen \cup members |->
            IF m \in members THEN Entries(log, head, m) ELSE api[c].seen[m]]

Operate(c) ==
    /\ pc[c] = "lock" /\ want[c] = {}
    /\ pc' = [pc EXCEPT ![c] = "run"]
    /\ op' = [op EXCEPT ![c] = NoOp]
    /\ api' = [api EXCEPT
                 ![c].buf = @ \o Buffered(c),
                 ![c].seen = Seen(c)]
    /\ UNCHANGED <<attempt, want, queue, mcp, log, head, used, hist>>

(* The graph read fails: route_error keeps the failure in the infra slot,  *)
(* and the script may go on past the Lua error it raises.                  *)
ReadFails(c) ==
    /\ pc[c] = "lock" /\ want[c] = {}
    /\ pc' = [pc EXCEPT ![c] = "run"]
    /\ op' = [op EXCEPT ![c] = NoOp]
    /\ api' = [api EXCEPT ![c].infra = TRUE]
    /\ UNCHANGED <<attempt, want, queue, mcp, log, head, used, hist>>

-----------------------------------------------------------------------------
(* McpSession::call: the latch and the marker are set when the instance is *)
(* there and the request goes out.                                         *)
Request(c) ==
    /\ pc' = [pc EXCEPT ![c] = "call"]
    /\ mcp' = [mcp EXCEPT
                 ![c] = [made |-> TRUE, inFlight |-> TRUE, live |-> TRUE]]
    /\ effects' = [effects EXCEPT ![c] = @ \cup {attempt[c]}]

CallTool(c) ==
    /\ pc[c] = "run" /\ Spend("ops", MaxOps)
    /\ \/ mcp[c].live /\ Request(c)
       \/ /\ ~mcp[c].live
          /\ pc' = [pc EXCEPT ![c] = "spawn"]
          /\ UNCHANGED <<mcp, effects>>
    /\ UNCHANGED <<attempt, op, want, api, queue, log, head, desynced>>

(* ensure_spawned: a fresh instance, or a failure the script sees.         *)
Spawned(c) ==
    /\ pc[c] = "spawn"
    /\ Request(c)
    /\ UNCHANGED <<attempt, op, want, api, queue, log, head, used, desynced>>

SpawnFails(c) ==
    /\ pc[c] = "spawn"
    /\ pc' = [pc EXCEPT ![c] = "run"]
    /\ UNCHANGED <<attempt, op, want, api, queue, mcp, log, head, used, hist>>

Answered(c) ==
    /\ pc[c] = "call"
    /\ pc' = [pc EXCEPT ![c] = "run"]
    /\ mcp' = [mcp EXCEPT ![c].inFlight = FALSE]
    /\ UNCHANGED <<attempt, op, want, api, queue, log, head, used, hist>>

-----------------------------------------------------------------------------
(* release_locks: every guard is dropped, and with the evaluation the      *)
(* place in a queue it still waited in; a block has at most one in each.   *)
Dropping(q, c) ==
    IF c \notin Range(q) THEN q
    ELSE LET i == CHOOSE j \in DOMAIN q : q[j] = c
         IN  SubSeq(q, 1, i - 1) \o SubSeq(q, i + 1, Len(q))

ReleaseLocks(c) == queue' = [m \in Stubs |-> Dropping(queue[m], c)]

LuaExecuted == [kind |-> "executed"]

(* execute returns, and its locals with it.                                *)
Leave(c) ==
    /\ pc' = [pc EXCEPT ![c] = "idle"]
    /\ attempt' = [attempt EXCEPT ![c] = 0]
    /\ api' = [api EXCEPT ![c] = FreshApi]
    /\ effects' = [effects EXCEPT ![c] = {}]

(* The script ended in time with a recorded infrastructure failure: the    *)
(* buffer is dropped and the failure leaves execute.                       *)
InfraError(c) ==
    /\ pc[c] = "run" /\ api[c].infra
    /\ ReleaseLocks(c)
    /\ Leave(c)
    /\ UNCHANGED <<op, want, mcp, log, head, used, desynced>>

(* The script returned or called turn.skip (the buffer commits), or it     *)
(* aborted or failed (only the record commits).                            *)
Outcomes == {"return", "skip", "abort", "error"}

Commits(outcome) == outcome \in {"return", "skip"}

End(c, outcome) ==
    /\ pc[c] = "run" /\ ~api[c].infra
    /\ log' = (IF Commits(outcome) THEN log \o api[c].buf ELSE log)
                 \o <<LuaExecuted>>
    /\ pc' = [pc EXCEPT ![c] = "fold"]
    /\ UNCHANGED <<attempt, op, want, api, queue, mcp, head, used, hist>>

(* BlockContext::dry_run: the operator console's script logs nothing.  The *)
(* context is consulted when a block ends and nowhere before, so whether a *)
(* block is dry is chosen there.                                           *)
EndDry(c) ==
    /\ pc[c] = "run" /\ ~api[c].infra
    /\ ReleaseLocks(c)
    /\ Leave(c)
    /\ UNCHANGED <<op, want, mcp, log, head, used, desynced>>

(* The second half of finish, then the release: the graph folds whatever   *)
(* the log holds, and the block leaves execute also when the fold fails.   *)
Fold(c) ==
    /\ pc[c] = "fold"
    /\ head' = Materialized(log, head)
    /\ ReleaseLocks(c)
    /\ Leave(c)
    /\ UNCHANGED <<op, want, mcp, log, used, desynced>>

(* block_timeout passes at an await of the script.  The locks are released *)
(* and an instance in mid-call is dropped.                                 *)
DropInFlight(c) ==
    /\ mcp' = [mcp EXCEPT ![c].inFlight = FALSE,
                          ![c].live = @ /\ ~mcp[c].inFlight]
    /\ desynced' = [desynced EXCEPT
                      ![c] = mcp'[c].live /\ (@ \/ mcp[c].inFlight)]

GivesUp(c) == mcp[c].made \/ attempt[c] >= MaxAttempts

Overrun(c) ==
    /\ pc[c] \in Evaluating
    /\ ReleaseLocks(c)
    /\ op' = [op EXCEPT ![c] = NoOp]
    /\ want' = [want EXCEPT ![c] = {}]

(* After a tool call, or on the last attempt, the timeout is the outcome.  *)
(* The record holds no write, so that the locks are gone does not matter.  *)
TimesOut(c) ==
    /\ Overrun(c) /\ GivesUp(c)
    /\ DropInFlight(c)
    /\ \/ Leave(c) /\ UNCHANGED log
       \/ /\ pc' = [pc EXCEPT ![c] = "fold"]
          /\ api' = [api EXCEPT ![c] = FreshApi]
          /\ log' = Append(log, LuaExecuted)
          /\ UNCHANGED <<attempt, effects>>
    /\ UNCHANGED <<head, used>>

(* The counter is declared inside the loop.                                *)
RetryUncounted(c) ==
    /\ Overrun(c) /\ ~GivesUp(c)
    /\ DropInFlight(c)
    /\ pc' = [pc EXCEPT ![c] = "run"]
    /\ api' = [api EXCEPT ![c] = FreshApi]
    /\ UNCHANGED <<attempt, log, head, used, effects>>

(* Otherwise the loop goes round: a fresh attempt of the same script.      *)
Retry(c) ==
    /\ Overrun(c) /\ ~GivesUp(c)
    /\ DropInFlight(c)
    /\ pc' = [pc EXCEPT ![c] = "run"]
    /\ attempt' = [attempt EXCEPT ![c] = @ + 1]
    /\ api' = [api EXCEPT ![c] = FreshApi]
    /\ UNCHANGED <<log, head, used, effects>>

(* Platform::project and write_context: the connector's own block takes no *)
(* memory lock, writes an entry on the exact stub and folds the log.       *)
ProjectOnto(m) ==
    /\ Spend("foreign", MaxForeign)
    /\ log' = Append(log, [kind |-> "entry", mem |-> m, by |-> "connector"])
    /\ head' = Materialized(log', head)
    /\ UNCHANGED <<pc, attempt, op, want, api, queue, mcp, hist>>

-----------------------------------------------------------------------------
Script(c) ==
    \/ \E m \in Stubs : CallAppend(c, m) \/ CallRead(c, m)
    \/ \E m \in Stubs, n \in NewName : CallRename(c, m, n)
    \/ \E n \in NewName : CallCreate(c, n)
    \/ CallTool(c)
    \/ \E outcome \in Outcomes : End(c, outcome)
    \/ EndDry(c) \/ InfraError(c)

Backend(c) ==
    \/ \E m \in Stubs : Acquire(c, m) \/ Granted(c, m)
    \/ Operate(c) \/ ReadFails(c)
    \/ Spawned(c) \/ SpawnFails(c) \/ Answered(c)
    \/ Fold(c)

BlockNext ==
    \/ \E c \in Conversation :
          \/ Begin(c) \/ Script(c) \/ Backend(c) \/ TimesOut(c) \/ Retry(c)
    \/ \E m \in Stubs : ProjectOnto(m)

BlockSpec == BlockInit /\ [][BlockNext]_blockVars

(* Time passes, so the timeout of a block that stays in its script fires;  *)
(* a fold runs to its end once the block has appended.                     *)
Fairness ==
    \A c \in Conversation :
        WF_blockVars(Fold(c)) /\ WF_blockVars(TimesOut(c) \/ Retry(c))

FairSpec == BlockSpec /\ Fairness

-----------------------------------------------------------------------------
Event ==
    [kind : {"entry"}, mem : Stubs, by : {"agent", "connector"}]
      \cup [kind : {"name"}, name : NewName,
            mem : Stubs \cup 1..MaxOps]
      \cup [kind : {"executed"}]

Operation ==
    [kind : {"append", "read"}, mem : Stubs]
      \cup [kind : {"rename"}, mem : Stubs, name : NewName]

Op == {NoOp} \cup Operation

\* What a block has read lies in the part of the log that is folded.
Reads(k) == UNION {[d -> SUBSET (1..k)] : d \in SUBSET Stubs}

Api(k) ==
    [buf : Seq(Event), seen : Reads(k), infra : BOOLEAN, held : SUBSET Stubs]

(* The variables have their types, and the log's folded part is a part of  *)
(* it.                                                                     *)
TypeOK ==
    /\ pc \in [Conversation -> Evaluating \cup {"idle", "fold"}]
    /\ attempt \in [Conversation -> 0..MaxAttempts]
    /\ op \in [Conversation -> Op]
    /\ want \in [Conversation -> SUBSET Stubs]
    /\ api \in [Conversation -> Api(head)]
    /\ queue \in [Stubs -> Seq(Conversation)]
    /\ mcp \in [Conversation -> [made : BOOLEAN, inFlight : BOOLEAN,
                                 live : BOOLEAN]]
    /\ log \in Seq(Event)
    /\ head \in 0..Len(log)
    /\ used \in [blocks : 0..MaxBlocks, ops : 0..MaxOps,
                 foreign : 0..MaxForeign]
    /\ effects \in [Conversation -> SUBSET (1..MaxAttempts)]
    /\ desynced \in [Conversation -> BOOLEAN]

(* No event of the log collides with an earlier one, so the graph can fold *)
(* the log.                                                                *)
NamesAreUnique == \A i \in DOMAIN log : ~Collides(log, i)

(* Of some entries, the ones a block wrote.                                *)
ByAgents(entries) == {i \in entries : log[i].by = "agent"}

(* What a block has read of a merged identity is all that agents have      *)
(* written of it until the block commits: between the read and the commit  *)
(* no other block's entry on any member reaches the log, and none that     *)
(* reached it before was missing from the graph.  Committed blocks are     *)
(* thereby serialisable in log order, whichever stubs they were told       *)
(* through.  The connector's entries are exempt: it takes no lock.         *)
ReadsHoldToTheEnd ==
    NamesAreUnique =>
        \A c \in Conversation : pc[c] \in Evaluating =>
            \A m \in DOMAIN api[c].seen :
                ByAgents(api[c].seen[m]) = ByAgents(Entries(log, Len(log), m))

(* A guard lives in the lock set of a block that still runs, a place in a  *)
(* queue belongs to an operation that waits, and no block queues behind    *)
(* itself: nothing is left locked by a block that ended or timed out.      *)
NoLeakedGuard ==
    \A m \in Stubs :
        /\ IsInjective(queue[m])
        /\ \A i \in DOMAIN queue[m] :
              LET c == queue[m][i]
              IN  /\ pc[c] # "idle"
                  /\ m \in api[c].held \/ (pc[c] = "lock" /\ m \in want[c])
                  /\ m \in api[c].held => i = 1

(* A block's external effects all belong to one attempt: a retry never     *)
(* repeats a tool call, and no call goes to an instance that an abandoned  *)
(* call left undefined.                                                    *)
EffectsAreNotRepeated ==
    \A c \in Conversation :
        /\ Cardinality(effects[c]) <= 1
        /\ pc[c] = "call" => ~desynced[c]

(* Committed blocks are serialisable in log order, no ended block holds a  *)
(* guard, and no retry repeats a tool call (execute, MemoryLocks).         *)
BlocksAreSerial ==
    TypeOK /\ ReadsHoldToTheEnd /\ NoLeakedGuard /\ EffectsAreNotRepeated

(* Every block ends: blocks that wait for each other's memories are parted *)
(* by their timeouts, and the retries run out.                             *)
EveryBlockEnds ==
    \A c \in Conversation : pc[c] # "idle" ~> pc[c] = "idle"
=============================================================================
