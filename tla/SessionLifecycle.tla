-------------------------- MODULE SessionLifecycle --------------------------
(***************************************************************************)
(* The session lifecycle of an instance: the message path that resolves,   *)
(* reuses, resumes, closes and opens a conversation's session, the idle    *)
(* sweep that closes a quiet one, the checkpoint sweep that flushes a live *)
(* one, and the compaction that cuts one, over the event log that survives *)
(* a crash and the session map that does not.                              *)
(*                                                                         *)
(* Every await of the code (the lifecycle lock, a flush, the description   *)
(* catch-up, the model's turn) is a boundary between two actions; what     *)
(* lies between two awaits is one action.  An append and the               *)
(* materialization that follows it are one step: the readers of the graph  *)
(* see the state before both or after both.                                *)
(***************************************************************************)
EXTENDS Naturals, Sequences, FiniteSets

CONSTANTS
    Conversations,  \* the rooms
    None,           \* no conversation
    Sweeper,        \* the task of run_sweeper
    Checkpointer,   \* the task of run_checkpoint_sweeper
    Gap,            \* idle_gap_seconds
    FlushMin,       \* flush_min_turns
    MinDelta,       \* min_delta_chars, in turns
    Cooldown,       \* cooldown_seconds
    CheckpointOn,   \* checkpoint.enabled
    FlushOnOpen,    \* checkpoint.flush_on_open
    SlowTurns,      \* are there behaviours with turns of any length?
    MaxNow,         \* bound: the clock
    MaxArrivals,    \* bound: batches admitted
    MaxAsides,      \* bound: system turns (joins and wake-ups)
    MaxCrashes      \* bound: restarts

Actors == Conversations \cup {Sweeper, Checkpointer}

ASSUME ActorsAssumption ==
    /\ None \notin Actors
    /\ Sweeper # Checkpointer
    /\ {Sweeper, Checkpointer} \cap Conversations = {}

ASSUME BoundsAssumption ==
    /\ {Gap, FlushMin, MinDelta, Cooldown} \subseteq Nat
    /\ {MaxNow, MaxArrivals, MaxAsides, MaxCrashes} \subseteq Nat
    /\ {CheckpointOn, FlushOnOpen, SlowTurns} \subseteq BOOLEAN

VARIABLES
    now,       \* the clock
    turns,     \* turns[c]: the ConversationTurn events of c, in log order
    sess,      \* the SessionStarted events, in log order, with their ends
    live,      \* live[c]: the id in the session map, 0 when there is none
    activity,  \* activity[c]: last_activity of the session in the map
    lock,      \* lock[c]: the queue of c's lifecycle lock, its holder first
    act,       \* act[a]: where the task of actor a stands
    used,      \* how much of each bound is spent
    slow       \* may a turn of this behaviour outlast the idle gap?

state == <<now, turns, sess, live, activity, lock, act, used>>
vars == <<state, slow>>

log == <<turns, sess>>
map == <<live, activity>>

Kinds == {"message", "reply", "flush", "system"}
Turn == [kind : Kinds, at : Nat, covers : Nat]
Session == [conv : Conversations, from : Nat, at : Nat, seeded : BOOLEAN,
            ends : Nat, to : Nat]
Causes == {"none", "idle", "recovery", "compaction"}
Pcs == {"idle", "pre", "check", "checkLock", "checkFlush", "lock", "flush",
        "ending", "open", "run", "generate", "replied", "sweep",
        "sweepLock"}
Task == [pc : Pcs, conv : Conversations \cup {None}, id : Nat, at : Nat,
         snap : Nat, todo : SUBSET (Conversations \X Nat), cause : Causes]

Idle == [pc |-> "idle", conv |-> None, id |-> 0, at |-> 0, snap |-> 0,
         todo |-> {}, cause |-> "none"]

TypeOK ==
    /\ now \in 0 .. MaxNow
    /\ turns \in [Conversations -> Seq(Turn)]
    /\ sess \in Seq(Session)
    /\ live \in [Conversations -> 0 .. Len(sess)]
    /\ activity \in [Conversations -> Nat]
    /\ lock \in [Conversations -> Seq(Actors)]
    /\ act \in [Actors -> Task]
    /\ used \in [arrivals : 0 .. MaxArrivals, asides : 0 .. MaxAsides,
                 crashes : 0 .. MaxCrashes]
    /\ slow \in BOOLEAN

Init ==
    /\ now = 0
    /\ turns = [c \in Conversations |-> <<>>]
    /\ sess = <<>>
    /\ live = [c \in Conversations |-> 0]
    /\ activity = [c \in Conversations |-> 0]
    /\ lock = [c \in Conversations |-> <<>>]
    /\ act = [a \in Actors |-> Idle]
    /\ used = [arrivals |-> 0, asides |-> 0, crashes |-> 0]
    /\ slow \in {FALSE, SlowTurns}

-----------------------------------------------------------------------------
(* What the graph and the log answer.                                      *)

SessionIsOpen(s) == sess[s].ends = 0

SessionsOf(c) == {s \in DOMAIN sess : sess[s].conv = c}

OpenSessions(c) == {s \in SessionsOf(c) : SessionIsOpen(s)}

(* The latest member of a set of sessions: ids follow the log's order. *)
Latest(S) == CHOOSE s \in S : \A t \in S : t <= s

(* The time of the last turn recorded since s started, or of its start. *)
LogActivity(s) ==
    LET ts == turns[sess[s].conv] IN
    IF Len(ts) > sess[s].from THEN ts[Len(ts)].at ELSE sess[s].at

(* Mutated: a turn counts as admitted only until its session is open. *)
InFlightOpening(c) == act[c].pc \in {"pre", "check", "lock", "flush", "open"}

(* has_admitted_turn: a turn holds the room's slot. *)
InFlight(c) == act[c].pc # "idle"

Lapsed(at, last) == at > last + Gap

(* Mutated: the flush gate wants one turn more than the setting. *)
SubstantiveMore(s) == Len(turns[sess[s].conv]) - sess[s].from > FlushMin

Substantive(s) == Len(turns[sess[s].conv]) - sess[s].from >= FlushMin

Appended(c, kind, covers) ==
    [turns EXCEPT ![c] =
        Append(@, [kind |-> kind, at |-> now, covers |-> covers])]

-----------------------------------------------------------------------------
(* The lifecycle lock is fair: tokio's Mutex serves its waiters in order.  *)

Holds(a, c) == lock[c] # <<>> /\ Head(lock[c]) = a

(* Mutated: an error return keeps the guard of the lifecycle lock. *)
StillHeld(a) == lock

Released(a) ==
    [c \in Conversations |-> IF Holds(a, c) THEN Tail(lock[c]) ELSE lock[c]]

Queued(q, a, c) == [q EXCEPT ![c] = Append(@, a)]

-----------------------------------------------------------------------------
(* flush_and_end: a task in state t closes session s, or goes on as skip   *)
(* when s is ended already.                                                *)

Closing(t, s, cause, skip) ==
    IF ~SessionIsOpen(s) THEN skip
    ELSE [t EXCEPT !.pc = IF Substantive(s) THEN "flush" ELSE "ending",
                   !.conv = sess[s].conv, !.id = s, !.cause = cause,
                   !.snap = Len(turns[sess[s].conv])]

(* The flush turn is recorded when its model run ends, under the session   *)
(* it flushes, and the watermark moves to it.                              *)
FlushDone(a) ==
    /\ act[a].pc \in {"flush", "checkFlush"}
    /\ turns' = Appended(act[a].conv, "flush", act[a].snap)
    /\ IF act[a].pc = "flush"
       THEN /\ act' = [act EXCEPT ![a].pc = "ending"]
            /\ UNCHANGED lock
       ELSE /\ act' = [act EXCEPT ![a] =
                        [@ EXCEPT !.pc = "check", !.conv = None, !.id = 0,
                                  !.snap = 0]]
            /\ lock' = Released(a)
    /\ UNCHANGED <<now, sess, map, used>>

(* A failed flush aborts what its caller was doing: a message or a sweep   *)
(* returns the error, a session open carries on without the checkpoint.    *)
FlushFails(a) ==
    /\ act[a].pc \in {"flush", "checkFlush"}
    /\ act' = [act EXCEPT ![a] =
                IF @.pc = "checkFlush" /\ a \in Conversations
                THEN [Idle EXCEPT !.pc = "lock", !.at = act[a].at]
                ELSE Idle]
    /\ lock' = IF act[a].pc = "checkFlush" /\ a \in Conversations
               THEN Queued(Released(a), a, a)
               ELSE Released(a)
    /\ UNCHANGED <<now, log, map, used>>

(* shutdown_mcp has returned: SessionEnded is appended. *)
End(a) ==
    /\ act[a].pc = "ending"
    /\ sess' = [sess EXCEPT ![act[a].id].ends = @ + 1,
                            ![act[a].id].to = Len(turns[act[a].conv])]
    /\ IF a = Sweeper
       THEN /\ act' = [act EXCEPT ![a] =
                        [@ EXCEPT !.pc = "sweep", !.conv = None, !.id = 0,
                                  !.snap = 0, !.cause = "none"]]
            /\ lock' = Released(a)
       ELSE /\ act' = [act EXCEPT ![a] =
                        IF @.cause = "compaction" THEN Idle
                        ELSE [Idle EXCEPT !.pc = "open", !.at = act[a].at]]
            /\ UNCHANGED lock
    /\ UNCHANGED <<now, turns, map, used>>

-----------------------------------------------------------------------------
(* The checkpoint sweep.                                                   *)

(* flushed_up_to: the position of the last flush turn of the session. *)
Watermark(s) ==
    LET ts == turns[sess[s].conv]
        flushes == {i \in sess[s].from + 1 .. Len(ts) : ts[i].kind = "flush"}
    IN  IF flushes = {} THEN sess[s].from ELSE Latest(flushes)

(* The turns past the watermark that count as substance. *)
Delta(s) ==
    LET ts == turns[sess[s].conv] IN
    {i \in Watermark(s) + 1 .. Len(ts) : ts[i].kind \in {"message", "reply"}}

Anchor(s) ==
    IF Watermark(s) = sess[s].from THEN sess[s].at
    ELSE turns[sess[s].conv][Watermark(s)].at

CheckpointDue(a, c, s) ==
    /\ Cardinality(Delta(s)) >= MinDelta
    /\ a = Checkpointer =>
        /\ act[a].at >= Anchor(s) + Cooldown
        /\ \E d \in Conversations \ {c} :
              live[d] # 0 /\ activity[d] >= Anchor(s)

LiveSessions == {<<c, live[c]>> : c \in {d \in Conversations : live[d] # 0}}

(* The timer's tick. *)
CheckpointTick ==
    /\ act[Checkpointer].pc = "idle"
    /\ CheckpointOn
    /\ LiveSessions # {}
    /\ act' = [act EXCEPT ![Checkpointer] =
                [Idle EXCEPT !.pc = "check", !.at = now,
                             !.todo = LiveSessions]]
    /\ UNCHANGED <<now, log, map, lock, used>>

(* One candidate: skipped, or queued for its lifecycle lock. *)
CheckpointNext(a) ==
    /\ act[a].pc = "check"
    /\ \E e \in act[a].todo :
          LET c == e[1]
              s == e[2]
              rest == [act[a] EXCEPT !.todo = @ \ {e}]
          IN  IF ~InFlight(c) /\ CheckpointDue(a, c, s)
              THEN /\ act' = [act EXCEPT ![a] =
                      [rest EXCEPT !.pc = "checkLock", !.conv = c, !.id = s]]
                   /\ lock' = Queued(lock, a, c)
              ELSE /\ act' = [act EXCEPT ![a] = rest]
                   /\ UNCHANGED lock
    /\ UNCHANGED <<now, log, map, used>>

(* What is validated again under the lock. *)
CheckpointReady(a, c, s) ==
    /\ live[c] = s
    /\ ~InFlight(c)
    /\ CheckpointDue(a, c, s)

CheckpointLock(a) ==
    LET c == act[a].conv
        s == act[a].id
    IN  /\ act[a].pc = "checkLock"
        /\ Holds(a, c)
        /\ IF CheckpointReady(a, c, s)
           THEN /\ UNCHANGED lock
                /\ act' = [act EXCEPT ![a].pc = "checkFlush",
                                      ![a].snap = Len(turns[c])]
           ELSE /\ act' = [act EXCEPT ![a].pc = "check", ![a].conv = None,
                                      ![a].id = 0]
                /\ lock' = Released(a)
        /\ UNCHANGED <<now, log, map, used>>

CheckpointEnd(a) ==
    /\ act[a].pc = "check"
    /\ act[a].todo = {}
    /\ IF a = Checkpointer
       THEN /\ act' = [act EXCEPT ![a] = Idle]
            /\ UNCHANGED lock
       ELSE /\ act' = [act EXCEPT ![a].pc = "lock"]
            /\ lock' = Queued(lock, a, a)
    /\ UNCHANGED <<now, log, map, used>>

-----------------------------------------------------------------------------
(* The message path: route_messages, run_session_turn, ensure_session.     *)

Admit(c) ==
    /\ act[c].pc = "idle"
    /\ used.arrivals < MaxArrivals
    /\ used' = [used EXCEPT !.arrivals = @ + 1]
    /\ act' = [act EXCEPT ![c] = [Idle EXCEPT !.pc = "pre", !.at = now]]
    /\ UNCHANGED <<now, log, map, lock>>

(* The unlocked pre-check: a session that will open checkpoints the others. *)
PreCheck(c) ==
    /\ act[c].pc = "pre"
    /\ LET reuse == live[c] # 0 /\ ~Lapsed(now, activity[c])
       IN  IF CheckpointOn /\ FlushOnOpen /\ ~reuse
           THEN /\ act' = [act EXCEPT ![c].pc = "check",
                           ![c].todo = {e \in LiveSessions : e[1] # c}]
                /\ UNCHANGED lock
           ELSE /\ act' = [act EXCEPT ![c].pc = "lock"]
                /\ lock' = Queued(lock, c, c)
    /\ UNCHANGED <<now, log, map, used>>

(* Mutated: the reuse path does not bump the last activity. *)
TouchNot(c) == activity

Touch(c) == [activity EXCEPT ![c] = now]

(* Under the lock, a session whose last activity is within the gap. *)
Reuse(c) ==
    /\ act[c].pc = "lock"
    /\ Holds(c, c)
    /\ live[c] # 0
    /\ ~Lapsed(now, activity[c])
    /\ activity' = Touch(c)
    /\ act' = [act EXCEPT ![c] =
                [Idle EXCEPT !.pc = "run", !.at = now, !.id = live[c]]]
    /\ lock' = Released(c)
    /\ UNCHANGED <<now, log, live, used>>

Opening == [Idle EXCEPT !.pc = "open", !.at = now]

Resumable(s) == ~sess[s].seeded /\ ~Lapsed(now, LogActivity(s))

(* A cold start with a session left open: resumed untouched, or closed. *)
Resume(c) ==
    /\ act[c].pc = "lock"
    /\ Holds(c, c)
    /\ live[c] = 0
    /\ OpenSessions(c) # {}
    /\ LET s == Latest(OpenSessions(c)) IN
        /\ Resumable(s)
        /\ live' = [live EXCEPT ![c] = s]
        /\ activity' = Touch(c)
        /\ act' = [act EXCEPT ![c] =
                    [Idle EXCEPT !.pc = "run", !.at = now, !.id = s]]
    /\ lock' = Released(c)
    /\ UNCHANGED <<now, log, used>>

(* Mutated: a cold start opens a session without closing the one it finds. *)
RecoverNothing(c) ==
    /\ act[c].pc = "lock"
    /\ Holds(c, c)
    /\ live[c] = 0
    /\ OpenSessions(c) # {}
    /\ ~Resumable(Latest(OpenSessions(c)))
    /\ act' = [act EXCEPT ![c] = Opening]
    /\ UNCHANGED <<now, log, map, lock, used>>

Recover(c) ==
    /\ act[c].pc = "lock"
    /\ Holds(c, c)
    /\ live[c] = 0
    /\ OpenSessions(c) # {}
    /\ LET s == Latest(OpenSessions(c)) IN
        /\ ~Resumable(s)
            /\ act' = [act EXCEPT ![c] =
                    Closing([Idle EXCEPT !.at = now], s, "recovery", Opening)]
    /\ UNCHANGED <<now, log, map, lock, used>>

(* A lapsed live session is taken out of the map and closed. *)
Lapse(c) ==
    /\ act[c].pc = "lock"
    /\ Holds(c, c)
    /\ live[c] # 0
    /\ Lapsed(now, activity[c])
    /\ live' = [live EXCEPT ![c] = 0]
    /\ activity' = [activity EXCEPT ![c] = 0]
    /\ act' = [act EXCEPT ![c] =
                Closing([Idle EXCEPT !.at = now], live[c], "idle", Opening)]
    /\ UNCHANGED <<now, log, lock, used>>

Fresh(c) ==
    /\ act[c].pc = "lock"
    /\ Holds(c, c)
    /\ live[c] = 0
    /\ OpenSessions(c) = {}
    /\ act' = [act EXCEPT ![c] = Opening]
    /\ UNCHANGED <<now, log, map, lock, used>>

(* The id of the next session: ids follow the log. *)
NextSession == Len(sess) + 1

(* The description catch-up has returned: the brief is composed and        *)
(* SessionStarted appended, seeded when the previous session left a turn;  *)
(* a due wake-up becomes a system turn of the new session.                 *)
OpenSession(c) ==
    /\ act[c].pc = "open"
    /\ \E wake \in BOOLEAN :
        /\ wake => used.asides < MaxAsides
        /\ LET prev == SessionsOf(c)
               seeded == /\ prev # {}
                         /\ Len(turns[c]) > sess[Latest(prev)].from
           IN  sess' = Append(sess,
                 [conv |-> c, from |-> Len(turns[c]), at |-> act[c].at,
                  seeded |-> seeded, ends |-> 0, to |-> 0])
        /\ turns' = IF wake THEN Appended(c, "system", 0) ELSE turns
        /\ used' = IF wake THEN [used EXCEPT !.asides = @ + 1] ELSE used
    /\ live' = [live EXCEPT ![c] = NextSession]
    /\ activity' = [activity EXCEPT ![c] = act[c].at]
    /\ lock' = Released(c)
    /\ act' = [act EXCEPT ![c].pc = "run", ![c].id = NextSession]
    /\ UNCHANGED now

(* The catch-up, or a read before it, failed. *)
OpenFails(c) ==
    /\ act[c].pc = "open"
    /\ act' = [act EXCEPT ![c] = Idle]
    /\ lock' = Released(c)
    /\ UNCHANGED <<now, log, map, used>>

(* The inbound turns are recorded, after the session is open. *)
RecordInbound(c) ==
    /\ act[c].pc = "run"
    /\ turns' = Appended(c, "message", 0)
    /\ act' = [act EXCEPT ![c].pc = "generate"]
    /\ UNCHANGED <<now, sess, map, lock, used>>

Reply(c) ==
    /\ act[c].pc = "generate"
    /\ turns' = Appended(c, "reply", 0)
    /\ act' = [act EXCEPT ![c].pc = "replied"]
    /\ UNCHANGED <<now, sess, map, lock, used>>

(* The peak prompt stayed within the token budget. *)
Settle(c) ==
    /\ act[c].pc = "replied"
    /\ act' = [act EXCEPT ![c] = Idle]
    /\ UNCHANGED <<now, log, map, lock, used>>

(* Past the token budget the session in the map is cut: taken out, flushed *)
(* and ended, without the lifecycle lock.                                  *)
Compact(c) ==
    /\ act[c].pc = "replied"
    /\ live[c] # 0
    /\ live' = [live EXCEPT ![c] = 0]
    /\ activity' = [activity EXCEPT ![c] = 0]
    /\ act' = [act EXCEPT ![c] =
                Closing([Idle EXCEPT !.at = act[c].at], live[c], "compaction", Idle)]
    /\ UNCHANGED <<now, log, lock, used>>

(* A turn that ends without a reply: an error, a deferral, a supersession. *)
NoReply(c) ==
    /\ act[c].pc \in {"run", "generate"}
    /\ act' = [act EXCEPT ![c] = Idle]
    /\ UNCHANGED <<now, log, map, lock, used>>
-----------------------------------------------------------------------------
(* The idle sweep.                                                         *)

(* The candidates are read from the graph, in log order, and judged by the *)
(* clock of the sweep's start.                                             *)
SweepTick ==
    /\ act[Sweeper].pc = "idle"
    /\ \E c \in Conversations : OpenSessions(c) # {}
    /\ act' = [act EXCEPT ![Sweeper] =
        [Idle EXCEPT !.pc = "sweep", !.at = now,
                     !.todo = {<<c, Latest(OpenSessions(c))>> :
                        c \in {d \in Conversations : OpenSessions(d) # {}}}]]
    /\ UNCHANGED <<now, log, map, lock, used>>

(* Mutated: a session only in the log is never judged stale. *)
SweepActivityLive(c, s) == IF live[c] # 0 THEN activity[c] ELSE act[Sweeper].at

SweepActivity(c, s) == IF live[c] # 0 THEN activity[c] ELSE LogActivity(s)

SweepNext ==
    /\ act[Sweeper].pc = "sweep"
    /\ \E e \in act[Sweeper].todo :
        LET rest == [act[Sweeper] EXCEPT !.todo = @ \ {e}] IN
        /\ \A f \in act[Sweeper].todo : e[2] <= f[2]
        /\ IF Lapsed(act[Sweeper].at, SweepActivity(e[1], e[2]))
           THEN /\ act' = [act EXCEPT ![Sweeper] =
                    [rest EXCEPT !.pc = "sweepLock", !.conv = e[1],
                                 !.id = e[2]]]
                /\ lock' = Queued(lock, Sweeper, e[1])
           ELSE /\ act' = [act EXCEPT ![Sweeper] = rest]
                /\ UNCHANGED lock
    /\ UNCHANGED <<now, log, map, used>>

(* remove_if_matches. *)
Removed(c, s) == IF live[c] = s THEN [live EXCEPT ![c] = 0] ELSE live

SweepLock ==
    LET c == act[Sweeper].conv
        s == act[Sweeper].id
        rest == [act[Sweeper] EXCEPT !.pc = "sweep", !.conv = None, !.id = 0]
    IN  /\ act[Sweeper].pc = "sweepLock"
        /\ Holds(Sweeper, c)
        /\ act' = [act EXCEPT ![Sweeper] = Closing(@, s, "idle", rest)]
        /\ IF SessionIsOpen(s)
           THEN /\ live' = Removed(c, s)
                /\ activity' = [activity EXCEPT ![c] =
                                   IF live'[c] = 0 THEN 0 ELSE @]
                /\ UNCHANGED lock
           ELSE /\ lock' = Released(Sweeper)
                /\ UNCHANGED map
        /\ UNCHANGED <<now, log, used>>

SweepEnd ==
    /\ act[Sweeper].pc = "sweep"
    /\ act[Sweeper].todo = {}
    /\ act' = [act EXCEPT ![Sweeper] = Idle]
    /\ UNCHANGED <<now, log, map, lock, used>>

-----------------------------------------------------------------------------
(* note_join and note_presence without a model: a system turn, under no    *)
(* lock and no slot.                                                       *)
NoteJoin(c) ==
    /\ live[c] # 0
    /\ used.asides < MaxAsides
    /\ turns' = Appended(c, "system", 0)
    /\ used' = [used EXCEPT !.asides = @ + 1]
    /\ UNCHANGED <<now, sess, map, lock, act>>

(* A crash, or a graceful exit: every task, the map and the locks are gone, *)
(* and nothing is recorded.                                                *)
Crash ==
    /\ used.crashes < MaxCrashes
    /\ used' = [used EXCEPT !.crashes = @ + 1]
    /\ live' = [c \in Conversations |-> 0]
    /\ activity' = [c \in Conversations |-> 0]
    /\ lock' = [c \in Conversations |-> <<>>]
    /\ act' = [a \in Actors |-> Idle]
    /\ UNCHANGED <<now, log>>

(* A turn is prompt when it is over within the gap of its last clock read. *)
Tick ==
    /\ now < MaxNow
    /\ slow \/ \A c \in Conversations :
                  InFlight(c) => now + 1 <= act[c].at + Gap
    /\ now' = now + 1
    /\ UNCHANGED <<log, map, lock, act, used>>

Close(a) == FlushDone(a) \/ FlushFails(a) \/ End(a)

Checkpoint(a) ==
    CheckpointNext(a) \/ CheckpointLock(a) \/ CheckpointEnd(a)

EnsureSession(c) ==
    \/ PreCheck(c) \/ Reuse(c) \/ Resume(c) \/ Recover(c) \/ Lapse(c)
    \/ Fresh(c) \/ OpenSession(c) \/ OpenFails(c)

RunTurn(c) ==
    RecordInbound(c) \/ Reply(c) \/ NoReply(c) \/ Settle(c) \/ Compact(c)

Sweep == SweepTick \/ SweepNext \/ SweepLock \/ SweepEnd

Step ==
    \/ \E a \in Actors : Close(a) \/ Checkpoint(a)
    \/ CheckpointTick
    \/ Sweep
    \/ \E c \in Conversations :
          Admit(c) \/ EnsureSession(c) \/ RunTurn(c) \/ NoteJoin(c)
    \/ Crash
    \/ Tick

Next == Step /\ UNCHANGED slow

Spec == Init /\ [][Next]_vars

(* Every await of a task returns: the lock is fair, a model call answers   *)
(* or fails, the sweep's timer keeps ticking.                              *)
Progress ==
    /\ \A c \in Conversations :
          WF_state(EnsureSession(c) \/ RunTurn(c) \/ Checkpoint(c) \/ Close(c))
    /\ WF_state(Sweep \/ Close(Sweeper))
    /\ WF_state(Checkpoint(Checkpointer) \/ Close(Checkpointer))

(* The model keeps answering the flushes of conversation c. *)
FlushWorks(c) == SF_state(FlushDone(Sweeper) /\ act[Sweeper].conv = c)

-----------------------------------------------------------------------------
(* Safety.                                                                 *)

(* At most one session of a conversation is open in the log at any time:   *)
(* whatever closes fail, and wherever a crash falls, ensure_session opens  *)
(* no session over one it has not ended.                                   *)
OneOpenSession ==
    \A c \in Conversations : Cardinality(OpenSessions(c)) <= 1

(* The session map holds only sessions that are open in the log: no path   *)
(* ends a session and leaves its handle for the next message to reuse.     *)
LiveSessionIsOpen ==
    \A c \in Conversations :
        live[c] # 0 => live[c] \in OpenSessions(c)

(* No session opens while another task is closing one of the same          *)
(* conversation, so a new brief reads what the closing flush wrote         *)
(* (lifecycle_lock).                                                       *)
OpenWaitsForClose ==
    \A c \in Conversations, a \in Actors :
        act[c].pc = "open" /\ a # c =>
            ~(act[a].pc \in {"flush", "ending"} /\ act[a].conv = c)

(* The log and the session map agree on the one open session of a room,    *)
(* which was opened after the last was closed, however long turns take     *)
(* (ensure_session, close_and_remove).                                     *)
OneSessionAtATime == OneOpenSession /\ LiveSessionIsOpen /\ OpenWaitsForClose

(* A turn keeps its session: from ensure_session to the reply, the session *)
(* the turn runs on stays open and stays in the map.                       *)
TurnKeepsItsSession ==
    \A c \in Conversations :
        act[c].pc \in {"run", "generate", "replied"} =>
            live[c] = act[c].id /\ SessionIsOpen(act[c].id)

(* A session is closed exactly once (sweep_idle_sessions): SessionEnded is *)
(* recorded at most once for an id.                                        *)
ClosedOnce == \A s \in DOMAIN sess : sess[s].ends <= 1

(* While turns end within the gap, the sweep and the compaction take no    *)
(* session from a turn, and no session is closed twice.                    *)
PromptTurnKeepsItsSession == ~slow => TurnKeepsItsSession /\ ClosedOnce

(* The flush watermark is honest while turns end within the gap: every     *)
(* message and reply that lies before a flush turn, and is thereby never   *)
(* flushed again, was in the buffer the flush was given.                   *)
WatermarkIsHonest ==
    ~slow => \A c \in Conversations : \A j \in DOMAIN turns[c] :
        turns[c][j].kind = "flush" =>
            \A i \in turns[c][j].covers + 1 .. j - 1 :
                turns[c][i].kind \notin {"message", "reply"}

(* The no-loss guarantee: every message and reply belongs to a session, and *)
(* one that belongs to a closed session of at least FlushMin turns reached *)
(* a flush before SessionEnded.                                            *)
Covered(c, s, i) ==
    \E j \in i + 1 .. sess[s].to :
        turns[c][j].kind = "flush" /\ turns[c][j].covers >= i

NothingLost ==
    \A c \in Conversations : \A i \in DOMAIN turns[c] :
        turns[c][i].kind \in {"message", "reply"} =>
            \E s \in SessionsOf(c) :
                /\ sess[s].from < i
                /\ ~SessionIsOpen(s) =>
                    /\ i <= sess[s].to
                    /\ sess[s].to - sess[s].from >= FlushMin =>
                        Covered(c, s, i)

(* Nothing is lost while turns end within the gap (close_session).         *)
PromptTurnsAreFlushed == ~slow => NothingLost

-----------------------------------------------------------------------------
(* Liveness.                                                               *)

(* A conversation nobody is talking in, whose open session has lapsed. *)
Abandoned(c) ==
    /\ ~InFlight(c)
    /\ OpenSessions(c) # {}
    /\ Lapsed(now, IF live[c] # 0 THEN activity[c]
                   ELSE LogActivity(Latest(OpenSessions(c))))

(* A room whose flush fails every time, and the others. *)
Stuck == CHOOSE c \in Conversations : TRUE

StuckSpec ==
    Spec /\ Progress /\ \A c \in Conversations \ {Stuck} : FlushWorks(c)

(* The sweep closes every session idle past the gap, so a room whose       *)
(* flushes work is consolidated whatever happens to another's.             *)
OthersAreClosed ==
    \A c \in Conversations \ {Stuck} : Abandoned(c) ~> ~Abandoned(c)
=============================================================================
