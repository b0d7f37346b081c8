----------------------- MODULE SessionLifecycleProofs -----------------------
(***************************************************************************)
(* Proofs that a room has one session at a time however long its turns     *)
(* take; and that, while turns end within the idle gap, no turn loses its  *)
(* session, no session is closed twice, and no message or reply escapes    *)
(* the flushes, for any rooms, clock, settings and bounds.                 *)
(***************************************************************************)
EXTENDS SessionLifecycle, FiniteSetTheorems, SequenceTheorems, TLAPS

RunPcs == {"run", "generate", "replied"}
ClosePcs == {"flush", "ending"}

Spoken == {"message", "reply"}

-----------------------------------------------------------------------------
(* Queues.                                                                 *)

Has(q, a) == \E i \in DOMAIN q : q[i] = a
Distinct(q) == \A i, j \in DOMAIN q : q[i] = q[j] => i = j
Ahead(q, a, b) == \E i, j \in DOMAIN q : i < j /\ q[i] = a /\ q[j] = b

(* The task t of actor a stands in the queue of c's lifecycle lock: it     *)
(* awaits the lock, or holds it.                                           *)
Waits(a, t, c) ==
    \/ t.pc \in {"checkLock", "sweepLock"} /\ t.conv = c
    \/ a = c /\ t.pc = "lock"

Keeps(a, t, c) ==
    \/ t.pc = "checkFlush" /\ t.conv = c
    \/ a = Sweeper /\ t.pc \in ClosePcs /\ t.conv = c
    \/ a = c /\ t.pc = "open"
    \/ a = c /\ t.pc \in ClosePcs /\ t.cause # "compaction"

Queues(a, t, c) == Waits(a, t, c) \/ Keeps(a, t, c)

-----------------------------------------------------------------------------
(* The inductive invariant that holds however long turns take.  What it    *)
(* says of one task is a predicate of the actor a and its task t.          *)

(* The task is somewhere in its own code. *)
PcInv(a, t) ==
    /\ a = Sweeper => t.pc \in {"idle", "sweep", "sweepLock", "flush", "ending"}
    /\ a = Checkpointer => t.pc \in {"idle", "check", "checkLock", "checkFlush"}
    /\ a \in Conversations =>
        /\ t.pc \notin {"sweep", "sweepLock"}
        /\ t.pc \in ClosePcs => t.conv = a
        /\ t.pc \in {"checkLock", "checkFlush"} => t.conv # a
        /\ \A e \in t.todo : e[1] # a

(* The sessions it means are those of the rooms it means. *)
OnInv(a, t) ==
    /\ t.pc \in ClosePcs \cup {"checkLock", "checkFlush", "sweepLock"} =>
          /\ t.conv \in Conversations
          /\ t.id \in DOMAIN sess
          /\ sess[t.id].conv = t.conv
    /\ a \in Conversations /\ t.pc \in RunPcs =>
          t.id \in DOMAIN sess /\ sess[t.id].conv = a
    /\ \A e \in t.todo : e[2] \in DOMAIN sess /\ sess[e[2]].conv = e[1]

(* A room about to open a session has none; one being closed is not in the *)
(* map; a checkpoint flushes the one in the map.                           *)
NoneOpen(c) == \A s \in DOMAIN sess : sess[s].conv = c => ~SessionIsOpen(s)

MapInv(a, t) ==
    /\ t.pc = "open" => live[a] = 0 /\ NoneOpen(a)
    /\ t.pc \in ClosePcs => live[t.conv] # t.id
    /\ a \in Conversations /\ t.pc \in ClosePcs /\ t.cause # "compaction" =>
          SessionIsOpen(t.id)
    /\ t.pc = "checkFlush" => live[t.conv] = t.id

TaskInv(a, t) == PcInv(a, t) /\ OnInv(a, t) /\ MapInv(a, t)

(* The queue of a lock holds exactly those who wait for it or hold it. *)
Leads(q, a) == q # << >> /\ Head(q) = a

LockOK(queue, task) ==
    \A c \in Conversations :
        /\ Distinct(queue[c])
        /\ \A a \in Actors :
              /\ Has(queue[c], a) <=> Queues(a, task[a], c)
              /\ Keeps(a, task[a], c) => Leads(queue[c], a)

LockInv == LockOK(lock, act)

OneOpen ==
    \A s, t \in DOMAIN sess :
        SessionIsOpen(s) /\ SessionIsOpen(t) /\ sess[s].conv = sess[t].conv => s = t

(* No turn gets into a room whose session a checkpoint flushes. *)
Busy == RunPcs \cup ClosePcs \cup {"open"}

CheckInv ==
    \A a \in Actors : act[a].pc = "checkFlush" => act[act[a].conv].pc \notin Busy

LogInv ==
    \A s \in DOMAIN sess :
        /\ sess[s].from <= Len(turns[sess[s].conv])
        /\ sess[s].to <= Len(turns[sess[s].conv])

TasksInv == \A a \in Actors : TaskInv(a, act[a])

CoreInv ==
    TypeOK /\ TasksInv /\ LockInv /\ OneOpen /\ LiveSessionIsOpen /\ CheckInv /\ LogInv

-----------------------------------------------------------------------------
(* What holds as well while turns end within the gap.                      *)

(* No task is ahead of the clock, and no turn behind it by the gap. *)
ClockInv(a, t) ==
    /\ t.at <= now
    /\ a \in Conversations /\ t.pc # "idle" => now <= t.at + Gap

(* A turn's session is open, in the map, and as active as the turn. *)
TurnInv(a, t) ==
    a \in Conversations =>
        /\ t.pc \in RunPcs =>
              live[a] = t.id /\ SessionIsOpen(t.id) /\ activity[a] = t.at
        /\ t.pc \in {"generate", "replied"} \/ (t.pc \in ClosePcs /\ t.cause = "compaction") =>
              /\ Len(turns[a]) > sess[t.id].from
              /\ turns[a][Len(turns[a])].at >= t.at

(* Nothing is said after the buffer of a flush was read. *)
SnapInv(a, t) ==
    t.pc \in {"flush", "checkFlush"} =>
        /\ t.snap <= Len(turns[t.conv])
        /\ \A i \in t.snap + 1 .. Len(turns[t.conv]) : turns[t.conv][i].kind \notin Spoken

(* A session about to end is open, and short or flushed. *)
Flushed(c, from, to) ==
    \A i \in from + 1 .. to :
        turns[c][i].kind \in Spoken =>
            \E j \in i + 1 .. to : turns[c][j].kind = "flush" /\ turns[c][j].covers >= i

EndInv(a, t) ==
    /\ t.pc \in ClosePcs => SessionIsOpen(t.id)
    /\ t.pc = "ending" =>
          \/ Len(turns[t.conv]) - sess[t.id].from < FlushMin
          \/ Flushed(t.conv, sess[t.id].from, Len(turns[t.conv]))

PromptTask(a, t) == ClockInv(a, t) /\ TurnInv(a, t) /\ SnapInv(a, t) /\ EndInv(a, t)

(* What the sweep judged idle stays idle until it has the lock: no turn    *)
(* runs on it, and whoever is ahead in the queue finds it lapsed.          *)
SweepInv ==
    LET c == act[Sweeper].conv
        s == act[Sweeper].id
    IN  act[Sweeper].pc = "sweepLock" /\ SessionIsOpen(s) =>
            /\ act[c].pc \notin RunPcs
            /\ ~(act[c].pc \in ClosePcs /\ act[c].cause = "compaction")
            /\ live[c] # 0 => Lapsed(act[Sweeper].at, activity[c])
            /\ live[c] = 0 /\ act[c].pc = "lock" /\ Ahead(lock[c], c, Sweeper) =>
                  Lapsed(act[Sweeper].at, LogActivity(s))

(* One task closes a session. *)
AloneInv == act[Sweeper].pc \in ClosePcs => act[act[Sweeper].conv].pc \notin Busy

PromptTasks == \A a \in Actors : PromptTask(a, act[a])

PromptInv ==
    PromptTasks /\ SweepInv /\ AloneInv /\ ClosedOnce /\ WatermarkIsHonest /\ NothingLost

SessionInv == CoreInv /\ (~slow => PromptInv)

-----------------------------------------------------------------------------
(* Queues.                                                                 *)

(* A queue that a new waiter joins. *)
LEMMA JoinQueue ==
  ASSUME NEW S, NEW q \in Seq(S), NEW a \in S, ~Has(q, a), Distinct(q)
  PROVE  /\ Append(q, a) \in Seq(S)
         /\ Distinct(Append(q, a))
         /\ \A b : Has(Append(q, a), b) <=> Has(q, b) \/ b = a
         /\ q # << >> => Append(q, a) # << >> /\ Head(Append(q, a)) = Head(q)
         /\ \A b : ~Ahead(Append(q, a), a, b)
         /\ \A b, d : d # a => (Ahead(Append(q, a), b, d) <=> Ahead(q, b, d))
<1> DEFINE r == Append(q, a)
<1>1. /\ r \in Seq(S) /\ Len(r) = Len(q) + 1 /\ Len(q) \in Nat
      /\ DOMAIN r = 1 .. Len(q) + 1 /\ DOMAIN q = 1 .. Len(q)
      /\ r[Len(q) + 1] = a
      /\ \A i \in 1 .. Len(q) : r[i] = q[i]
      /\ r # << >>
  OBVIOUS
<1>2. q # << >> => Len(q) > 0 /\ Head(q) = q[1] /\ Head(r) = r[1]
  OBVIOUS
<1> HIDE DEF r
<1>3. Distinct(r)
  BY <1>1 DEF Distinct, Has
<1>4. \A b : Has(r, b) <=> Has(q, b) \/ b = a
  BY <1>1 DEF Has
<1>5. \A b : ~Ahead(r, a, b)
  BY <1>1, <1>3 DEF Ahead, Has, Distinct
<1>6. ASSUME NEW b, NEW d, d # a PROVE Ahead(r, b, d) <=> Ahead(q, b, d)
  BY <1>1, <1>6 DEF Ahead
<1>7. q # << >> => r # << >> /\ Head(r) = Head(q)
  BY <1>1, <1>2
<1> QED
  BY <1>1, <1>3, <1>4, <1>5, <1>6, <1>7 DEF r

(* A queue whose holder leaves. *)
LEMMA LeaveQueue ==
  ASSUME NEW S, NEW q \in Seq(S), q # << >>, Distinct(q)
  PROVE  /\ Tail(q) \in Seq(S)
         /\ Distinct(Tail(q))
         /\ \A b : Has(Tail(q), b) <=> Has(q, b) /\ b # Head(q)
         /\ \A b, d : Ahead(Tail(q), b, d) => Ahead(q, b, d)
<1> DEFINE r == Tail(q)
<1>1. /\ r \in Seq(S) /\ Len(r) = Len(q) - 1 /\ Len(q) \in Nat /\ Len(q) > 0
      /\ DOMAIN r = 1 .. Len(q) - 1 /\ DOMAIN q = 1 .. Len(q)
      /\ \A i \in 1 .. Len(q) - 1 : r[i] = q[i + 1]
      /\ Head(q) = q[1]
  OBVIOUS
<1> HIDE DEF r
<1>2. Distinct(r)
  BY <1>1 DEF Distinct
<1>3. ASSUME NEW b PROVE Has(r, b) <=> Has(q, b) /\ b # Head(q)
  <2>1. ASSUME Has(r, b) PROVE Has(q, b) /\ b # Head(q)
    BY <1>1, <2>1 DEF Has, Distinct
  <2>2. ASSUME Has(q, b), b # Head(q) PROVE Has(r, b)
    <3>1. PICK i \in 1 .. Len(q) : q[i] = b
      BY <1>1, <2>2 DEF Has
    <3>2. i - 1 \in 1 .. Len(q) - 1 /\ r[i - 1] = q[(i - 1) + 1]
      BY <1>1, <3>1, <2>2
    <3>3. (i - 1) + 1 = i
      BY <3>1, <1>1
    <3> QED
      BY <1>1, <3>1, <3>2, <3>3 DEF Has
  <2> QED
    BY <2>1, <2>2
<1>4. ASSUME NEW b, NEW d, Ahead(r, b, d) PROVE Ahead(q, b, d)
  <2>1. PICK i, j \in 1 .. Len(q) - 1 : i < j /\ r[i] = b /\ r[j] = d
    BY <1>1, <1>4 DEF Ahead
  <2>2. i + 1 \in 1 .. Len(q) /\ j + 1 \in 1 .. Len(q) /\ i + 1 < j + 1
    BY <1>1, <2>1
  <2>3. q[i + 1] = b /\ q[j + 1] = d
    BY <1>1, <2>1
  <2> QED
    BY <1>1, <2>2, <2>3 DEF Ahead
<1> QED
  BY <1>1, <1>2, <1>3, <1>4 DEF r

-----------------------------------------------------------------------------
(* The lifecycle locks.  A move of one task keeps, joins or leaves the     *)
(* queues; the room's own place in its queue never moves before the        *)
(* sweep's, unless it is the sweep that joins.                             *)

Shrinks(p, q) ==
    \A c \in Conversations : Ahead(q[c], c, Sweeper) => Ahead(p[c], c, Sweeper)

LEMMA LockKept ==
  ASSUME NEW q, NEW A, NEW a \in Actors, NEW t,
         A \in [Actors -> Task], LockOK(q, A),
         \A c \in Conversations :
            /\ Queues(a, t, c) <=> Queues(a, A[a], c)
            /\ Keeps(a, t, c) => Leads(q[c], a)
  PROVE  LockOK(q, [A EXCEPT ![a] = t]) /\ Shrinks(q, q)
BY DEF LockOK, Shrinks

LEMMA LockJoined ==
  ASSUME NEW q \in [Conversations -> Seq(Actors)], NEW A \in [Actors -> Task],
         NEW a \in Actors, NEW t, NEW d \in Conversations, LockOK(q, A),
         \A c \in Conversations :
            /\ ~Queues(a, A[a], c)
            /\ ~Keeps(a, t, c)
            /\ Waits(a, t, c) <=> c = d
  PROVE  /\ Queued(q, a, d) \in [Conversations -> Seq(Actors)]
         /\ LockOK(Queued(q, a, d), [A EXCEPT ![a] = t])
         /\ a # Sweeper => Shrinks(q, Queued(q, a, d))
         /\ \A b : ~Ahead(Queued(q, a, d)[d], a, b)
<1> DEFINE r == Append(q[d], a)
<1>1. /\ q[d] \in Seq(Actors) /\ Distinct(q[d]) /\ ~Has(q[d], a)
  BY DEF LockOK
<1>2. /\ r \in Seq(Actors)
      /\ Distinct(r)
      /\ \A b : Has(r, b) <=> Has(q[d], b) \/ b = a
      /\ q[d] # << >> => r # << >> /\ Head(r) = Head(q[d])
      /\ \A b : ~Ahead(r, a, b)
      /\ \A b, e : e # a => (Ahead(r, b, e) <=> Ahead(q[d], b, e))
  BY <1>1, JoinQueue
<1>3. Queued(q, a, d) = [q EXCEPT ![d] = r]
  BY DEF Queued
<1> HIDE DEF r
<1>4. LockOK([q EXCEPT ![d] = r], [A EXCEPT ![a] = t])
  <2> SUFFICES ASSUME NEW c \in Conversations, NEW b \in Actors
      PROVE  LET p == [q EXCEPT ![d] = r][c]
                 u == [A EXCEPT ![a] = t][b]
             IN  /\ Distinct(p)
                 /\ Has(p, b) <=> Queues(b, u, c)
                 /\ Keeps(b, u, c) => Leads(p, b)
    BY <1>2 DEF LockOK
  <2>1. /\ Distinct(q[c])
        /\ Has(q[c], b) <=> Queues(b, A[b], c)
        /\ Keeps(b, A[b], c) => Leads(q[c], b)
    BY DEF LockOK
  <2>2. CASE b = a
    BY <1>2, <2>1, <2>2 DEF Queues
  <2>3. CASE b # a
    BY <1>2, <2>1, <2>3 DEF Leads
  <2> QED
    BY <2>2, <2>3
<1>5. a # Sweeper => Shrinks(q, [q EXCEPT ![d] = r])
  BY <1>2 DEF Shrinks
<1> QED
  BY <1>2, <1>3, <1>4, <1>5

LEMMA LockLeft ==
  ASSUME NEW q \in [Conversations -> Seq(Actors)], NEW A \in [Actors -> Task],
         NEW a \in Actors, NEW t, LockOK(q, A), NEW p,
         p = [c \in Conversations |->
                IF Leads(q[c], a) THEN Tail(q[c]) ELSE q[c]],
         \A c \in Conversations :
            /\ Queues(a, A[a], c) => Leads(q[c], a)
            /\ ~Queues(a, t, c)
  PROVE  /\ p \in [Conversations -> Seq(Actors)]
         /\ LockOK(p, [A EXCEPT ![a] = t])
         /\ Shrinks(q, p)
<1>1. ASSUME NEW c \in Conversations
      PROVE  /\ p[c] \in Seq(Actors)
             /\ Distinct(p[c])
             /\ \A b : Has(p[c], b) <=> Has(q[c], b) /\ b # a
             /\ \A b, e : Ahead(p[c], b, e) => Ahead(q[c], b, e)
             /\ \A b : b # a /\ Leads(q[c], b) => Leads(p[c], b)
  <2>1. q[c] \in Seq(Actors) /\ Distinct(q[c])
    BY DEF LockOK
  <2>2. CASE Leads(q[c], a)
    <3>1. p[c] = Tail(q[c]) /\ q[c] # << >> /\ Head(q[c]) = a
      BY <2>2 DEF Leads
    <3> QED
      BY <2>1, <3>1, LeaveQueue DEF Leads
  <2>3. CASE ~Leads(q[c], a)
    <3>1. p[c] = q[c] /\ ~Has(q[c], a)
      BY <2>3 DEF LockOK
    <3> QED
      BY <2>1, <3>1
  <2> QED
    BY <2>2, <2>3
<1>2. p \in [Conversations -> Seq(Actors)]
  BY <1>1
<1>3. LockOK(p, [A EXCEPT ![a] = t])
  <2> SUFFICES ASSUME NEW c \in Conversations, NEW b \in Actors
      PROVE  LET u == [A EXCEPT ![a] = t][b]
             IN  /\ Distinct(p[c])
                 /\ Has(p[c], b) <=> Queues(b, u, c)
                 /\ Keeps(b, u, c) => Leads(p[c], b)
    BY <1>1 DEF LockOK
  <2>1. /\ Has(q[c], b) <=> Queues(b, A[b], c)
        /\ Keeps(b, A[b], c) => Leads(q[c], b)
    BY DEF LockOK
  <2>2. CASE b = a
    BY <1>1, <2>1, <2>2 DEF Queues
  <2>3. CASE b # a
    BY <1>1, <2>1, <2>3
  <2> QED
    BY <2>2, <2>3
<1> QED
  BY <1>1, <1>2, <1>3 DEF Shrinks

LEMMA ReleasedLeads ==
  ASSUME NEW a
  PROVE  Released(a) = [c \in Conversations |->
                          IF Leads(lock[c], a) THEN Tail(lock[c]) ELSE lock[c]]
BY DEF Released, Holds, Leads

(* One task at a time holds a lock. *)
LEMMA OneHolder ==
  ASSUME LockInv, NEW c \in Conversations, NEW a \in Actors, NEW b \in Actors,
         Holds(a, c), Keeps(b, act[b], c)
  PROVE  a = b
BY DEF LockInv, LockOK, Holds, Leads

-----------------------------------------------------------------------------
(* The invariant that holds however long turns take, action by action.     *)

Closes(b, c) == act[b].pc \in ClosePcs /\ act[b].conv = c
Checks(b, c) == act[b].pc = "checkFlush" /\ act[b].conv = c

LEMMA Actor ==
    /\ Conversations \subseteq Actors /\ Sweeper \in Actors /\ Checkpointer \in Actors
    /\ None \notin Actors /\ Sweeper # Checkpointer
    /\ Sweeper \notin Conversations /\ Checkpointer \notin Conversations
BY ActorsAssumption DEF Actors

LEMMA RoomSeq ==
  ASSUME NEW T, NEW f \in [Conversations -> Seq(T)], NEW c \in Conversations
  PROVE  /\ f[c] \in Seq(T) /\ Len(f[c]) \in Nat /\ DOMAIN f[c] = 1 .. Len(f[c])
         /\ \A i \in 1 .. Len(f[c]) : f[c][i] \in T
<1>1. f[c] \in Seq(T)
  OBVIOUS
<1> QED
  BY <1>1

LEMMA SessionTyped ==
  ASSUME TypeOK, NEW s \in DOMAIN sess
  PROVE  /\ s \in Nat /\ s > 0 /\ s <= Len(sess) /\ sess[s] \in Session
         /\ sess[s].conv \in Conversations
         /\ sess[s].from \in Nat /\ sess[s].to \in Nat /\ sess[s].at \in Nat
         /\ sess[s].ends \in Nat
<1>1. sess \in Seq(Session)
  BY DEF TypeOK
<1>2. s \in 1 .. Len(sess) /\ Len(sess) \in Nat /\ sess[s] \in Session
  BY <1>1
<1> QED
  BY <1>2 DEF Session

(* Only the room itself and the sweep close a session of a room. *)
LEMMA Closers ==
  ASSUME CoreInv, NEW b \in Actors, NEW c \in Conversations, Closes(b, c)
  PROVE  b = c \/ b = Sweeper
BY DEF CoreInv, TasksInv, TaskInv, PcInv, Closes, ClosePcs, Actors

(* Under its own lock a room is alone: nobody closes its session, nobody   *)
(* flushes it.                                                             *)
LEMMA RoomAlone ==
  ASSUME CoreInv, NEW c \in Conversations,
         Holds(c, c) \/ Keeps(c, act[c], c),
         NEW b \in Actors, b # c
  PROVE  ~Closes(b, c) /\ ~Checks(b, c) /\ ~Keeps(b, act[b], c)
<1>1. Holds(c, c)
  BY Actor DEF CoreInv, LockInv, LockOK, Holds, Leads
<1>2. ~Keeps(b, act[b], c)
  BY <1>1, Actor, OneHolder DEF CoreInv
<1> QED
  BY <1>2, Closers DEF Keeps, Closes, Checks

(* An open session of a room is the one its map holds, if it holds one. *)
LEMMA OpenIsLive ==
  ASSUME CoreInv, NEW c \in Conversations, live[c] # 0, NEW s \in DOMAIN sess,
         sess[s].conv = c, SessionIsOpen(s)
  PROVE  live[c] = s
BY DEF CoreInv, LiveSessionIsOpen, OpenSessions, SessionsOf, OneOpen

LEMMA LatestOpen ==
  ASSUME CoreInv, NEW c \in Conversations, OpenSessions(c) # {}
  PROVE  /\ Latest(OpenSessions(c)) \in DOMAIN sess
         /\ sess[Latest(OpenSessions(c))].conv = c
         /\ SessionIsOpen(Latest(OpenSessions(c)))
         /\ \A s \in DOMAIN sess :
               sess[s].conv = c /\ SessionIsOpen(s) => s = Latest(OpenSessions(c))
<1>1. PICK s : s \in OpenSessions(c)
  OBVIOUS
<1>2. s \in DOMAIN sess /\ sess[s].conv = c /\ SessionIsOpen(s)
  BY <1>1 DEF OpenSessions, SessionsOf
<1>3. OpenSessions(c) = {s}
  BY <1>1, <1>2 DEF CoreInv, OneOpen, OpenSessions, SessionsOf
<1>4. s \in Nat
  BY <1>2 DEF CoreInv, TypeOK
<1>5. Latest(OpenSessions(c)) = s
  BY <1>3, <1>4 DEF Latest
<1> QED
  BY <1>2, <1>3, <1>5 DEF OpenSessions, SessionsOf

(* A step of one task that starts and ends no session. *)
LEMMA CoreStep ==
  ASSUME CoreInv, TypeOK', LockInv', UNCHANGED sess,
         NEW a \in Actors, TaskInv(a, act[a])',
         \A b \in Actors : b # a => act'[b] = act[b],
         \A c \in Conversations : Len(turns'[c]) >= Len(turns[c]),
         \A c \in Conversations :
            \/ live'[c] = live[c]
            \/ /\ live'[c] \in {0} \cup OpenSessions(c)
               /\ \A b \in Actors : b # a =>
                     ~Checks(b, c) /\ (Closes(b, c) => live'[c] = 0)
               /\ c # a => act[c].pc # "open",
         act'[a].pc = "checkFlush" =>
            act'[a].conv # a /\ act[act'[a].conv].pc \notin Busy,
         act'[a].pc \in Busy => \A b \in Actors : b # a => ~Checks(b, a)
  PROVE  CoreInv'
<1>1. TasksInv'
  <2> SUFFICES ASSUME NEW b \in Actors, b # a PROVE TaskInv(b, act[b])'
    BY DEF TasksInv
  <2>1. act'[b] = act[b] /\ act[b] \in Task /\ TaskInv(b, act[b])
    BY DEF CoreInv, TasksInv, TypeOK
  <2>2. PcInv(b, act[b])' /\ OnInv(b, act[b])'
    BY <2>1 DEF TaskInv, PcInv, OnInv
  <2>3. MapInv(b, act[b])'
    <3>1. act[b].pc = "open" => b \in Conversations
      BY <2>1, Actor DEF TaskInv, PcInv, Actors
    <3>2. act[b].pc \in ClosePcs \cup {"checkFlush"} =>
             act[b].conv \in Conversations /\ act[b].id \in DOMAIN sess
      BY <2>1 DEF TaskInv, OnInv
    <3>3. 0 \notin DOMAIN sess
      BY DEF CoreInv, TypeOK
    <3>4. MapInv(b, act[b])
      BY <2>1 DEF TaskInv
    <3>5. act[b].pc = "open" => live'[b] = 0 /\ NoneOpen(b)'
      <4>1. NoneOpen(b)' <=> NoneOpen(b)
        BY DEF NoneOpen, SessionIsOpen
      <4> QED
        BY <4>1, <3>1, <3>4 DEF MapInv, OpenSessions, NoneOpen
    <3>6. act[b].pc \in ClosePcs => live'[act[b].conv] # act[b].id
      BY <3>2, <3>3, <3>4 DEF MapInv, Closes
    <3>7. act[b].pc = "checkFlush" => live'[act[b].conv] = act[b].id
      BY <3>2, <3>4 DEF MapInv, Checks
    <3> QED
      BY <2>1, <3>4, <3>5, <3>6, <3>7 DEF MapInv, SessionIsOpen
  <2> QED
    BY <2>2, <2>3 DEF TaskInv
<1>2. OneOpen'
  BY DEF CoreInv, OneOpen, SessionIsOpen
<1>3. LiveSessionIsOpen'
  BY DEF CoreInv, LiveSessionIsOpen, OpenSessions, SessionsOf, SessionIsOpen
<1>4. CheckInv'
  <2> SUFFICES ASSUME NEW b \in Actors, act'[b].pc = "checkFlush"
      PROVE  act'[act'[b].conv].pc \notin Busy
    BY DEF CheckInv
  <2>1. act'[b].conv \in Actors
    BY <1>1, Actor DEF TasksInv, TaskInv, OnInv
  <2>2. CASE b = a
    BY <2>1, <2>2
  <2>3. CASE b # a
    BY <2>1, <2>3 DEF CoreInv, CheckInv, Checks
  <2> QED
    BY <2>2, <2>3
<1>5. LogInv'
  <2>1. ASSUME NEW s \in DOMAIN sess
        PROVE  /\ sess[s].conv \in Conversations /\ sess[s].from \in Nat /\ sess[s].to \in Nat
               /\ sess[s].from <= Len(turns[sess[s].conv])
               /\ sess[s].to <= Len(turns[sess[s].conv])
    BY SessionTyped DEF CoreInv, LogInv
  <2>2. ASSUME NEW c \in Conversations
        PROVE  Len(turns[c]) \in Nat /\ Len(turns'[c]) \in Nat
    BY RoomSeq DEF CoreInv, TypeOK
  <2> QED
    BY <2>1, <2>2 DEF LogInv
<1> QED
  BY <1>1, <1>2, <1>3, <1>4, <1>5 DEF CoreInv

-----------------------------------------------------------------------------
(* The moves of a task a to t through the queues.                          *)

Stays(a, t) ==
    \A c \in Conversations :
        /\ Queues(a, t, c) <=> Queues(a, act[a], c)
        /\ Keeps(a, t, c) => Holds(a, c)

MayLeave(a) == \A c \in Conversations : Queues(a, act[a], c) => Holds(a, c)

WaitsOnly(a, t, d) ==
    \A c \in Conversations : ~Keeps(a, t, c) /\ (Waits(a, t, c) <=> c = d)

Nowhere(a, t) == \A c \in Conversations : ~Queues(a, t, c)

LockMove(a, t) ==
    \/ lock' = lock /\ Stays(a, t)
    \/ \E d \in Conversations :
          lock' = Queued(lock, a, d) /\ Nowhere(a, act[a]) /\ WaitsOnly(a, t, d)
    \/ lock' = Released(a) /\ MayLeave(a) /\ Nowhere(a, t)
    \/ \E d \in Conversations :
          lock' = Queued(Released(a), a, d) /\ MayLeave(a) /\ WaitsOnly(a, t, d)

LEMMA IdleTask ==
  /\ Idle \in Task /\ Idle.pc = "idle" /\ Idle.conv = None /\ Idle.id = 0
  /\ Idle.at = 0 /\ Idle.snap = 0 /\ Idle.todo = {} /\ Idle.cause = "none"
BY DEF Idle, Task, Pcs, Causes

LEMMA LockMoved ==
  ASSUME CoreInv, NEW a \in Actors, NEW t \in Task, act' = [act EXCEPT ![a] = t],
         LockMove(a, t)
  PROVE  /\ lock' \in [Conversations -> Seq(Actors)]
         /\ LockInv'
         /\ a # Sweeper => Shrinks(lock, lock')
         /\ a \in Conversations /\ t.pc = "lock" /\ ~Queues(a, act[a], a) =>
               ~Ahead(lock'[a], a, Sweeper)
<1>1. /\ lock \in [Conversations -> Seq(Actors)] /\ act \in [Actors -> Task]
      /\ LockOK(lock, act)
  BY DEF CoreInv, TypeOK, LockInv
<1>2. a \in Conversations /\ t.pc = "lock" => Queues(a, t, a)
  BY DEF Queues, Waits
<1>3. CASE lock' = lock /\ Stays(a, t)
  BY <1>1, <1>2, <1>3, LockKept DEF Stays, Holds, Leads, LockInv
<1>4. ASSUME NEW d \in Conversations, lock' = Queued(lock, a, d),
             Nowhere(a, act[a]), WaitsOnly(a, t, d)
      PROVE  /\ lock' \in [Conversations -> Seq(Actors)]
             /\ LockInv'
             /\ a # Sweeper => Shrinks(lock, lock')
             /\ \A b : ~Ahead(lock'[d], a, b)
  BY <1>1, <1>4, LockJoined DEF Nowhere, WaitsOnly, LockInv
<1>5. ASSUME MayLeave(a), NEW u \in Task, Nowhere(a, u)
      PROVE  /\ Released(a) \in [Conversations -> Seq(Actors)]
             /\ LockOK(Released(a), [act EXCEPT ![a] = u])
             /\ Shrinks(lock, Released(a))
  BY <1>1, <1>5, LockLeft, ReleasedLeads DEF Nowhere, MayLeave, Holds, Leads
<1>6. ASSUME NEW d \in Conversations, lock' = Queued(Released(a), a, d),
             MayLeave(a), WaitsOnly(a, t, d)
      PROVE  /\ lock' \in [Conversations -> Seq(Actors)]
             /\ LockInv'
             /\ a # Sweeper => Shrinks(lock, lock')
             /\ \A b : ~Ahead(lock'[d], a, b)
  <2>1. Idle \in Task /\ Nowhere(a, Idle)
    BY IdleTask DEF Nowhere, Queues, Waits, Keeps, ClosePcs
  <2>2. PICK r : r = Released(a)
    OBVIOUS
  <2>3. PICK B : B = [act EXCEPT ![a] = Idle]
    OBVIOUS
  <2>4. /\ r \in [Conversations -> Seq(Actors)]
        /\ LockOK(r, B) /\ Shrinks(lock, r)
    BY <1>5, <1>6, <2>1, <2>2, <2>3
  <2>5. B \in [Actors -> Task] /\ B[a] = Idle
    BY <1>1, <2>1, <2>3
  <2>6. act' = [B EXCEPT ![a] = t]
    BY <1>1, <2>3
  <2>7. /\ Queued(r, a, d) \in [Conversations -> Seq(Actors)]
        /\ LockOK(Queued(r, a, d), [B EXCEPT ![a] = t])
        /\ a # Sweeper => Shrinks(r, Queued(r, a, d))
        /\ \A b : ~Ahead(Queued(r, a, d)[d], a, b)
    <3>1. \A c \in Conversations :
             ~Queues(a, B[a], c) /\ ~Keeps(a, t, c) /\ (Waits(a, t, c) <=> c = d)
      BY <1>6, <2>1, <2>5 DEF Nowhere, WaitsOnly
    <3> QED
      BY <2>4, <2>5, <3>1, LockJoined
  <2> QED
    BY <1>6, <2>2, <2>4, <2>6, <2>7 DEF LockInv, Shrinks
<1>7. CASE lock' = Released(a) /\ MayLeave(a) /\ Nowhere(a, t)
  BY <1>2, <1>5, <1>7 DEF LockInv, Nowhere
<1>8. ASSUME NEW d \in Conversations, WaitsOnly(a, t, d), a \in Conversations, t.pc = "lock"
      PROVE  d = a
  BY <1>8 DEF WaitsOnly, Waits
<1> QED
  BY <1>3, <1>4, <1>6, <1>7, <1>8 DEF LockMove

UsedTyped(u) ==
    u \in [arrivals : 0 .. MaxArrivals, asides : 0 .. MaxAsides, crashes : 0 .. MaxCrashes]

(* What the sweep waits for stays idle when another task moves. *)
Swept(c) ==
    /\ act[Sweeper].pc = "sweepLock" /\ act[Sweeper].conv = c
    /\ SessionIsOpen(act[Sweeper].id)

Compacts(t) == t.pc \in ClosePcs /\ t.cause = "compaction"

LEMMA SweepStep ==
  ASSUME CoreInv, SweepInv, NEW a \in Actors \ {Sweeper}, act' \in [Actors -> Task],
         \A b \in Actors : b # a => act'[b] = act[b],
         UNCHANGED sess, Shrinks(lock, lock'),
         \A c \in Conversations :
            c # a => live'[c] = live[c] /\ activity'[c] = activity[c],
         \A c \in Conversations :
            turns'[c] = turns[c] \/ live'[c] # 0 \/ c = a,
         a \in Conversations /\ Swept(a) =>
            /\ act'[a].pc \notin RunPcs
            /\ ~Compacts(act'[a])
            /\ live'[a] # 0 => live'[a] = live[a] /\ activity'[a] = activity[a]
            /\ act'[a].pc = "lock" => ~Ahead(lock'[a], a, Sweeper)
  PROVE  SweepInv'
<1> SUFFICES ASSUME NEW c, c = act[Sweeper].conv, NEW s, s = act[Sweeper].id,
                    act[Sweeper].pc = "sweepLock", SessionIsOpen(s)'
    PROVE  /\ act'[c].pc \notin RunPcs
           /\ ~Compacts(act'[c])
           /\ live'[c] # 0 => Lapsed(act[Sweeper].at, activity'[c])
           /\ live'[c] = 0 /\ act'[c].pc = "lock" /\ Ahead(lock'[c], c, Sweeper) =>
                 Lapsed(act[Sweeper].at, LogActivity(s)')
  BY Actor DEF SweepInv, Compacts, Lapsed
<1>1. c \in Conversations /\ s \in DOMAIN sess /\ sess[s].conv = c /\ SessionIsOpen(s)
  BY Actor DEF CoreInv, TasksInv, TaskInv, OnInv, SessionIsOpen
<1>2. /\ act[c].pc \notin RunPcs
      /\ ~Compacts(act[c])
      /\ live[c] # 0 => Lapsed(act[Sweeper].at, activity[c])
      /\ live[c] = 0 /\ act[c].pc = "lock" /\ Ahead(lock[c], c, Sweeper) =>
            Lapsed(act[Sweeper].at, LogActivity(s))
  BY <1>1 DEF SweepInv, Compacts
<1>3. turns'[c] = turns[c] => LogActivity(s)' = LogActivity(s)
  BY <1>1 DEF LogActivity
<1>4. CASE c = a
  BY <1>1, <1>2, <1>4 DEF Swept
<1>5. CASE c # a
  BY <1>1, <1>2, <1>3, <1>5, Actor DEF Shrinks
<1> QED
  BY <1>4, <1>5

(* A task moves, and the log stays as it is. *)
LEMMA PromptStep ==
  ASSUME CoreInv, PromptInv, UNCHANGED <<now, turns, sess, slow>>,
         NEW a \in Actors, NEW t \in Task, act' = [act EXCEPT ![a] = t],
         PromptTask(a, t)',
         \A c \in Conversations : c # a /\ act[c].pc \in RunPcs =>
            live'[c] = live[c] /\ activity'[c] = activity[c],
         SweepInv', AloneInv'
  PROVE  PromptInv'
<1>1. ASSUME NEW b \in Actors PROVE PromptTask(b, act[b])'
  <2>1. CASE b = a
    <3>1. act'[b] = t
      BY <2>1 DEF CoreInv, TypeOK
    <3> QED
      BY <2>1, <3>1 DEF PromptTask, ClockInv, TurnInv, SnapInv, EndInv
  <2>2. CASE b # a
    <3>1. PICK u : u = act[b]
      OBVIOUS
    <3>2. PromptTask(b, u) /\ act'[b] = u
      BY <2>2, <3>1 DEF PromptInv, PromptTasks, CoreInv, TypeOK
    <3>3. SnapInv(b, u)' /\ EndInv(b, u)'
      <4>1. Flushed(u.conv, sess[u.id].from, Len(turns[u.conv])) =>
               Flushed(u.conv, sess[u.id].from, Len(turns[u.conv]))'
        BY DEF Flushed
      <4> QED
        BY <3>2, <4>1 DEF PromptTask, SnapInv, EndInv, SessionIsOpen
    <3>4. ClockInv(b, u)' /\ TurnInv(b, u)'
      BY <2>2, <3>1, <3>2 DEF PromptTask, ClockInv, TurnInv, SessionIsOpen
    <3> QED
      BY <3>2, <3>3, <3>4 DEF PromptTask, ClockInv, TurnInv, SnapInv, EndInv
  <2> QED
    BY <2>1, <2>2
<1>2. ClosedOnce' /\ WatermarkIsHonest'
  BY DEF PromptInv, ClosedOnce, WatermarkIsHonest
<1>3. NothingLost'
  BY DEF PromptInv, NothingLost, SessionsOf, SessionIsOpen, Covered
<1> QED
  BY <1>1, <1>2, <1>3 DEF PromptInv, PromptTasks

(* A room that enters its turn, or opens or closes its session, does so    *)
(* when the sweep is not closing it.                                       *)
LEMMA AloneStep ==
  ASSUME CoreInv, AloneInv, NEW a \in Actors \ {Sweeper},
         \A b \in Actors : b # a => act'[b] = act[b],
         act'[a].pc \in Busy => act[a].pc \in Busy \/ ~Closes(Sweeper, a)
  PROVE  AloneInv'
<1>1. act'[Sweeper] = act[Sweeper]
  BY Actor
<1>2. SUFFICES ASSUME NEW c, c = act[Sweeper].conv, act[Sweeper].pc \in ClosePcs
      PROVE  act'[c].pc \notin Busy
  BY <1>1 DEF AloneInv
<1>3. c \in Conversations /\ Closes(Sweeper, c) /\ act[c].pc \notin Busy
  BY <1>2, Actor DEF CoreInv, TasksInv, TaskInv, OnInv, AloneInv, Closes
<1> QED
  BY <1>3, Actor

LEMMA Move ==
  ASSUME SessionInv, UNCHANGED <<now, turns, sess, live, activity, slow>>,
         UsedTyped(used'),
         NEW a \in Actors, NEW t \in Task, act' = [act EXCEPT ![a] = t],
         LockMove(a, t), TaskInv(a, t),
         t.pc = "checkFlush" => t.conv # a /\ act[t.conv].pc \notin Busy,
         t.pc \in Busy => \A b \in Actors : b # a => ~Checks(b, a) /\ ~Closes(b, a),
         ~slow => PromptTask(a, t),
         ~slow /\ a = Sweeper => SweepInv' /\ AloneInv',
         a # Sweeper => t.pc \notin RunPcs /\ ~Compacts(t),
         a \in Conversations /\ t.pc = "lock" => ~Queues(a, act[a], a)
  PROVE  SessionInv'
<1>1. CoreInv /\ TypeOK /\ act \in [Actors -> Task]
  BY DEF SessionInv, CoreInv, TypeOK
<1>2. /\ lock' \in [Conversations -> Seq(Actors)]
      /\ LockInv'
      /\ a # Sweeper => Shrinks(lock, lock')
      /\ a \in Conversations /\ t.pc = "lock" => ~Ahead(lock'[a], a, Sweeper)
  BY <1>1, LockMoved
<1>3. act' \in [Actors -> Task] /\ act'[a] = t /\ \A b \in Actors : b # a => act'[b] = act[b]
  BY <1>1
<1>4. TypeOK'
  BY <1>1, <1>2, <1>3 DEF TypeOK, UsedTyped
<1>5. CoreInv'
  <2>1. TaskInv(a, act[a])'
    <3>1. TaskInv(a, t)'
      BY DEF TaskInv, PcInv, OnInv, MapInv, NoneOpen, SessionIsOpen
    <3> QED
      BY <1>3, <3>1 DEF TaskInv, PcInv, OnInv, MapInv, NoneOpen
  <2>2. \A c \in Conversations : Len(turns'[c]) >= Len(turns[c])
    BY RoomSeq DEF SessionInv, CoreInv, TypeOK
  <2> QED
    BY <1>1, <1>2, <1>3, <1>4, <2>1, <2>2, CoreStep
<1>6. ASSUME ~slow PROVE PromptInv'
  <2>1. PromptInv
    BY <1>6 DEF SessionInv
  <2>2. SweepInv'
    <3>1. CASE a = Sweeper
      BY <1>6, <3>1
    <3>2. CASE a # Sweeper
      BY <1>1, <1>2, <1>3, <2>1, <3>2, SweepStep DEF PromptInv
    <3> QED
      BY <3>1, <3>2
  <2>3. AloneInv'
    <3>1. CASE a = Sweeper
      BY <1>6, <3>1
    <3>2. CASE a # Sweeper
      BY <1>1, <1>3, <2>1, <3>2, AloneStep, Actor DEF PromptInv
    <3> QED
      BY <3>1, <3>2
  <2>4. PromptTask(a, t)'
    <3>1. Flushed(t.conv, sess[t.id].from, Len(turns[t.conv])) =>
             Flushed(t.conv, sess[t.id].from, Len(turns[t.conv]))'
      BY DEF Flushed
    <3> QED
      BY <1>6, <3>1 DEF PromptTask, ClockInv, TurnInv, SnapInv, EndInv, SessionIsOpen
  <2> QED
    BY <1>1, <1>6, <2>1, <2>2, <2>3, <2>4, PromptStep
<1> QED
  BY <1>5, <1>6 DEF SessionInv

-----------------------------------------------------------------------------
(* The moves, one by one.                                                  *)

LEMMA OffQueue ==
  ASSUME NEW a \in Actors, NEW t \in Task,
         \/ t.pc \in {"idle", "pre", "check", "sweep"} \cup RunPcs
         \/ a \in Conversations /\ Compacts(t)
  PROVE  Nowhere(a, t)
BY Actor DEF Nowhere, Queues, Waits, Keeps, RunPcs, ClosePcs, Compacts

(* A task that neither flushes, closes, opens nor runs a turn. *)
LEMMA Quiet ==
  ASSUME NEW a \in Actors, NEW t \in Task,
         t.pc \in {"idle", "pre", "lock", "check", "sweep", "checkLock", "sweepLock"}
  PROVE  /\ t.pc \notin Busy /\ t.pc \notin RunPcs /\ ~Compacts(t) /\ t.pc # "checkFlush"
         /\ MapInv(a, t)
         /\ ClockInv(a, t) => PromptTask(a, t)
BY DEF Busy, RunPcs, ClosePcs, Compacts, MapInv, PromptTask, TurnInv, SnapInv, EndInv

LEMMA Types ==
  ASSUME CoreInv
  PROVE  /\ now \in Nat /\ turns \in [Conversations -> Seq(Turn)] /\ sess \in Seq(Session)
         /\ live \in [Conversations -> Nat] /\ activity \in [Conversations -> Nat]
         /\ lock \in [Conversations -> Seq(Actors)] /\ act \in [Actors -> Task]
         /\ UsedTyped(used) /\ slow \in BOOLEAN
BY BoundsAssumption DEF CoreInv, TypeOK, UsedTyped

LEMMA TaskTyped ==
  ASSUME CoreInv, NEW a \in Actors
  PROVE  /\ act[a] \in Task /\ act[a].pc \in Pcs /\ act[a].at \in Nat /\ act[a].id \in Nat
         /\ act[a].conv \in Conversations \cup {None} /\ act[a].snap \in Nat
         /\ act[a].todo \subseteq Conversations \X Nat /\ act[a].cause \in Causes
         /\ TaskInv(a, act[a])
         /\ ~slow /\ SessionInv => PromptTask(a, act[a]) /\ PromptInv
<1>1. act[a] \in Task /\ TaskInv(a, act[a])
  BY DEF CoreInv, TypeOK, TasksInv
<1>2. ~slow /\ SessionInv => PromptTask(a, act[a]) /\ PromptInv
  BY DEF SessionInv, PromptInv, PromptTasks
<1> QED
  BY <1>1, <1>2 DEF Task

(* A bound is never overrun. *)
LEMMA Counted ==
  ASSUME NEW u, UsedTyped(u)
  PROVE  /\ u.arrivals < MaxArrivals => UsedTyped([u EXCEPT !.arrivals = @ + 1])
         /\ u.asides < MaxAsides => UsedTyped([u EXCEPT !.asides = @ + 1])
         /\ u.crashes < MaxCrashes => UsedTyped([u EXCEPT !.crashes = @ + 1])
<1>1. /\ MaxArrivals \in Nat /\ MaxAsides \in Nat /\ MaxCrashes \in Nat
  BY BoundsAssumption
<1>2. /\ u.arrivals \in 0 .. MaxArrivals /\ u.asides \in 0 .. MaxAsides
      /\ u.crashes \in 0 .. MaxCrashes
      /\ u = [arrivals |-> u.arrivals, asides |-> u.asides, crashes |-> u.crashes]
  BY DEF UsedTyped
<1>3. /\ u.arrivals < MaxArrivals => u.arrivals + 1 \in 0 .. MaxArrivals
      /\ u.asides < MaxAsides => u.asides + 1 \in 0 .. MaxAsides
      /\ u.crashes < MaxCrashes => u.crashes + 1 \in 0 .. MaxCrashes
  BY <1>1, <1>2
<1> QED
  BY <1>2, <1>3 DEF UsedTyped

LEMMA ToIdle ==
  ASSUME SessionInv, UNCHANGED <<now, turns, sess, live, activity, used, slow>>,
         NEW a \in Actors, act' = [act EXCEPT ![a] = Idle],
         \/ lock' = lock /\ Nowhere(a, act[a])
         \/ lock' = Released(a) /\ MayLeave(a)
  PROVE  SessionInv'
<1>1. CoreInv /\ Nowhere(a, Idle)
  BY OffQueue, IdleTask DEF SessionInv
<1>2. TaskInv(a, Idle)
  BY IdleTask, Quiet DEF TaskInv, PcInv, OnInv, ClosePcs, RunPcs
<1>3. LockMove(a, Idle)
  BY <1>1 DEF LockMove, Stays, Nowhere, Queues
<1>4. PromptTask(a, Idle)
  BY <1>1, Types, IdleTask, Quiet DEF ClockInv
<1>5. a = Sweeper => SweepInv' /\ AloneInv'
  BY <1>1, Types, IdleTask DEF SweepInv, AloneInv, ClosePcs
<1> QED
  BY <1>1, <1>2, <1>3, <1>4, <1>5, Types, IdleTask, Quiet, Move

(* A room goes on, before it waits for its own lock. *)
LEMMA ToQuiet ==
  ASSUME SessionInv, UNCHANGED <<now, turns, sess, live, activity, slow>>, UsedTyped(used'),
         NEW a \in Actors \ {Sweeper}, NEW t \in Task, act' = [act EXCEPT ![a] = t],
         t.pc \in {"pre", "lock", "check", "checkLock"},
         PcInv(a, t), OnInv(a, t), t.at \in {now, act[a].at},
         a \in Conversations => act[a].pc # "idle" \/ t.at = now,
         LockMove(a, t),
         a \in Conversations /\ t.pc = "lock" => ~Queues(a, act[a], a)
  PROVE  SessionInv'
<1>1. CoreInv /\ now \in Nat /\ Gap \in Nat
  BY Types, BoundsAssumption DEF SessionInv
<1>2. TaskInv(a, t)
  BY Quiet DEF TaskInv
<1>3. ~slow => PromptTask(a, t)
  <2>1. ~slow => ClockInv(a, act[a])
    BY <1>1, TaskTyped DEF PromptTask
  <2>2. ~slow => ClockInv(a, t)
    BY <1>1, <2>1, TaskTyped DEF ClockInv
  <2> QED
    BY <2>2, Quiet
<1> QED
  BY <1>1, <1>2, <1>3, Quiet, Move

LEMMA AdmitInv ==
  ASSUME SessionInv, NEW c \in Conversations, Admit(c), slow' = slow
  PROVE  SessionInv'
<1>1. PICK t : t = [Idle EXCEPT !.pc = "pre", !.at = now]
  OBVIOUS
<1>2. CoreInv /\ c \in Actors /\ c # Sweeper
  BY Actor DEF SessionInv
<1>3. /\ t \in Task /\ t.pc = "pre" /\ t.todo = {} /\ t.at = now
  BY <1>1, <1>2, Types DEF Idle, Task, Pcs, Causes
<1>4. PcInv(c, t) /\ OnInv(c, t)
  BY <1>3, Actor DEF PcInv, OnInv, ClosePcs, RunPcs
<1>5. Nowhere(c, t) /\ Nowhere(c, act[c])
  BY <1>2, <1>3, OffQueue, TaskTyped DEF Admit
<1>6. lock' = lock /\ act' = [act EXCEPT ![c] = t]
  BY <1>1 DEF Admit
<1>7. LockMove(c, t)
  BY <1>5, <1>6 DEF LockMove, Stays, Nowhere, Queues
<1>8. UsedTyped(used')
  BY <1>2, Types, Counted DEF Admit
<1> QED
  BY <1>2, <1>3, <1>4, <1>6, <1>7, <1>8, ToQuiet DEF Admit, log, map

LEMMA LiveTyped ==
  ASSUME CoreInv
  PROVE  /\ LiveSessions \in SUBSET (Conversations \X Nat)
         /\ \A e \in LiveSessions : e[2] \in DOMAIN sess /\ sess[e[2]].conv = e[1]
<1>1. ASSUME NEW d \in Conversations, live[d] # 0
      PROVE  live[d] \in DOMAIN sess /\ sess[live[d]].conv = d /\ live[d] \in Nat
  BY <1>1, Types DEF CoreInv, LiveSessionIsOpen, OpenSessions, SessionsOf
<1> QED
  BY <1>1 DEF LiveSessions

LEMMA PreCheckInv ==
  ASSUME SessionInv, NEW c \in Conversations, PreCheck(c), slow' = slow
  PROVE  SessionInv'
<1> DEFINE todo == {e \in LiveSessions : e[1] # c}
<1>1. /\ CoreInv /\ c \in Actors /\ c # Sweeper /\ act[c].pc = "pre" /\ Nowhere(c, act[c])
  BY Actor, OffQueue, TaskTyped DEF SessionInv, PreCheck
<1>2. /\ todo \in SUBSET (Conversations \X Nat)
      /\ \A e \in todo : e[1] # c /\ e[2] \in DOMAIN sess /\ sess[e[2]].conv = e[1]
  BY <1>1, LiveTyped
<1>3. UsedTyped(used')
  BY <1>1, Types DEF PreCheck
<1>4. CASE act' = [act EXCEPT ![c].pc = "check", ![c].todo = todo] /\ lock' = lock
  <2>1. PICK t : t = [act[c] EXCEPT !.pc = "check", !.todo = todo]
    OBVIOUS
  <2>2. /\ t \in Task /\ t.pc = "check" /\ t.todo = todo /\ t.at = act[c].at
        /\ act' = [act EXCEPT ![c] = t]
    <3>1. act[c] \in Task /\ act \in [Actors -> Task]
      BY <1>1, Types
    <3> HIDE DEF todo
    <3>2. t \in Task /\ t.pc = "check" /\ t.todo = todo /\ t.at = act[c].at
      BY <1>2, <2>1, <3>1 DEF Task, Pcs
    <3>3. act' = [act EXCEPT ![c] = t]
      BY <1>1, <1>4, <2>1, <3>1
    <3> QED
      BY <3>2, <3>3
  <2>3. PcInv(c, t) /\ OnInv(c, t)
    BY <1>1, <1>2, <2>2, Actor DEF PcInv, OnInv, ClosePcs, RunPcs
  <2>4. LockMove(c, t)
    BY <1>1, <1>4, <2>2, OffQueue DEF LockMove, Stays, Nowhere, Queues
  <2> QED
    BY <1>1, <1>3, <2>2, <2>3, <2>4, ToQuiet DEF PreCheck, log, map
<1>5. CASE act' = [act EXCEPT ![c].pc = "lock"] /\ lock' = Queued(lock, c, c)
  <2>1. PICK t : t = [act[c] EXCEPT !.pc = "lock"]
    OBVIOUS
  <2>2. /\ t \in Task /\ t.pc = "lock" /\ t.todo = act[c].todo /\ t.at = act[c].at
        /\ act' = [act EXCEPT ![c] = t]
    BY <1>1, <1>5, <2>1, Types DEF Task, Pcs
  <2>3. PcInv(c, t) /\ OnInv(c, t)
    BY <1>1, <2>2, Actor, TaskTyped DEF TaskInv, PcInv, OnInv, ClosePcs, RunPcs
  <2>4. LockMove(c, t)
    BY <1>1, <1>5, <2>2, Actor DEF LockMove, WaitsOnly, Waits, Keeps, ClosePcs
  <2> QED
    BY <1>1, <1>3, <2>2, <2>3, <2>4, ToQuiet DEF PreCheck, log, map, Nowhere
<1> QED
  BY <1>4, <1>5 DEF PreCheck

LEMMA CheckpointTickInv ==
  ASSUME SessionInv, CheckpointTick, slow' = slow
  PROVE  SessionInv'
<1>1. PICK t : t = [Idle EXCEPT !.pc = "check", !.at = now, !.todo = LiveSessions]
  OBVIOUS
<1>2. CoreInv /\ UsedTyped(used') /\ act \in [Actors -> Task] /\ now \in Nat
  BY Types DEF SessionInv, CheckpointTick
<1>3. /\ LiveSessions \in SUBSET (Conversations \X Nat)
      /\ \A e \in LiveSessions : e[2] \in DOMAIN sess /\ sess[e[2]].conv = e[1]
  BY <1>2, LiveTyped
<1>4. /\ t \in Task /\ t.pc = "check" /\ t.todo = LiveSessions /\ t.at = now
  BY <1>1, <1>2, <1>3 DEF Idle, Task, Pcs, Causes
<1>5. PcInv(Checkpointer, t) /\ OnInv(Checkpointer, t)
  BY <1>3, <1>4, Actor DEF PcInv, OnInv, ClosePcs, RunPcs
<1>6. LockMove(Checkpointer, t) /\ act' = [act EXCEPT ![Checkpointer] = t]
  BY <1>1, <1>2, <1>4, OffQueue, Actor DEF CheckpointTick, LockMove, Stays, Nowhere, Queues
<1> QED
  BY <1>2, <1>4, <1>5, <1>6, ToQuiet, Actor DEF CheckpointTick, log, map

LEMMA CheckpointNextInv ==
  ASSUME SessionInv, NEW a \in Actors, CheckpointNext(a), slow' = slow
  PROVE  SessionInv'
<1>1. /\ CoreInv /\ act[a] \in Task /\ act[a].pc = "check" /\ TaskInv(a, act[a])
      /\ a # Sweeper /\ Nowhere(a, act[a]) /\ UsedTyped(used')
  BY Types, TaskTyped, OffQueue DEF SessionInv, CheckpointNext, TaskInv, PcInv
<1>2. PICK e \in act[a].todo :
         LET rest == [act[a] EXCEPT !.todo = @ \ {e}] IN
         \/ /\ act' = [act EXCEPT ![a] =
                 [rest EXCEPT !.pc = "checkLock", !.conv = e[1], !.id = e[2]]]
            /\ lock' = Queued(lock, a, e[1])
         \/ /\ act' = [act EXCEPT ![a] = rest]
            /\ lock' = lock
  BY DEF CheckpointNext
<1>3. /\ e[1] \in Conversations /\ e[2] \in Nat /\ e[2] \in DOMAIN sess /\ sess[e[2]].conv = e[1]
      /\ a \in Conversations => e[1] # a
  BY <1>1, TaskTyped DEF TaskInv, PcInv, OnInv
<1>4. PICK rest : rest = [act[a] EXCEPT !.todo = @ \ {e}]
  OBVIOUS
<1>5. /\ rest \in Task /\ rest.pc = "check" /\ rest.todo = act[a].todo \ {e}
      /\ rest.at = act[a].at
  BY <1>1, <1>4 DEF Task
<1>6. CASE act' = [act EXCEPT ![a] = rest] /\ lock' = lock
  <2>1. PcInv(a, rest) /\ OnInv(a, rest)
    BY <1>1, <1>5 DEF TaskInv, PcInv, OnInv, ClosePcs, RunPcs
  <2>2. LockMove(a, rest)
    BY <1>1, <1>5, <1>6, OffQueue DEF LockMove, Stays, Nowhere, Queues
  <2> QED
    BY <1>1, <1>5, <1>6, <2>1, <2>2, ToQuiet DEF CheckpointNext, log, map
<1>7. ASSUME act' = [act EXCEPT ![a] =
                 [rest EXCEPT !.pc = "checkLock", !.conv = e[1], !.id = e[2]]],
             lock' = Queued(lock, a, e[1])
      PROVE  SessionInv'
  <2>1. PICK t : t = [rest EXCEPT !.pc = "checkLock", !.conv = e[1], !.id = e[2]]
    OBVIOUS
  <2>2. /\ t \in Task /\ t.pc = "checkLock" /\ t.conv = e[1] /\ t.id = e[2]
        /\ t.todo = act[a].todo \ {e} /\ t.at = act[a].at
    BY <1>3, <1>5, <2>1 DEF Task, Pcs
  <2>3. PcInv(a, t) /\ OnInv(a, t)
    BY <1>1, <1>3, <2>2 DEF TaskInv, PcInv, OnInv, ClosePcs, RunPcs
  <2>4. LockMove(a, t)
    BY <1>1, <1>3, <1>7, <2>2 DEF LockMove, WaitsOnly, Waits, Keeps, ClosePcs
  <2> QED
    BY <1>1, <1>7, <2>1, <2>2, <2>3, <2>4, ToQuiet DEF CheckpointNext, log, map
<1> QED
  BY <1>2, <1>4, <1>6, <1>7

LEMMA CheckpointLockInv ==
  ASSUME SessionInv, NEW a \in Actors, CheckpointLock(a), slow' = slow
  PROVE  SessionInv'
<1>1. PICK c : c = act[a].conv
  OBVIOUS
<1>2. PICK s : s = act[a].id
  OBVIOUS
<1>3. /\ CoreInv /\ act[a] \in Task /\ act[a].pc = "checkLock" /\ TaskInv(a, act[a])
      /\ UsedTyped(used') /\ act \in [Actors -> Task] /\ Holds(a, c)
  BY <1>1, Types, TaskTyped DEF SessionInv, CheckpointLock
<1>4. /\ a # Sweeper /\ a # c /\ c \in Conversations /\ s \in DOMAIN sess /\ sess[s].conv = c
  BY <1>1, <1>2, <1>3, Actor DEF TaskInv, PcInv, OnInv
<1>5. ASSUME CheckpointReady(a, c, s), lock' = lock,
             act' = [act EXCEPT ![a].pc = "checkFlush", ![a].snap = Len(turns[c])]
      PROVE  SessionInv'
  <2>1. PICK t : t = [act[a] EXCEPT !.pc = "checkFlush", !.snap = Len(turns[c])]
    OBVIOUS
  <2>2. turns[c] \in Seq(Turn) /\ Len(turns[c]) \in Nat
    BY <1>3, <1>4, Types
  <2>3. /\ t \in Task /\ t.pc = "checkFlush" /\ t.conv = c /\ t.id = s
        /\ t.todo = act[a].todo /\ t.at = act[a].at /\ t.snap = Len(turns[c])
    BY <1>1, <1>2, <1>3, <2>1, <2>2 DEF Task, Pcs
  <2>4. act' = [act EXCEPT ![a] = t]
    BY <1>3, <1>5, <2>1
  <2>5. TaskInv(a, t)
    BY <1>1, <1>2, <1>3, <1>4, <1>5, <2>3
       DEF TaskInv, PcInv, OnInv, MapInv, ClosePcs, RunPcs, CheckpointReady
  <2>6. LockMove(a, t)
    BY <1>1, <1>3, <1>4, <1>5, <2>3 DEF LockMove, Stays, Queues, Waits, Keeps, ClosePcs
  <2>7. ~slow => PromptTask(a, t)
    <3>1. ~slow => ClockInv(a, act[a])
      BY <1>3, TaskTyped DEF PromptTask
    <3>2. TurnInv(a, t) /\ SnapInv(a, t) /\ EndInv(a, t)
      BY <2>2, <2>3 DEF TurnInv, SnapInv, EndInv, ClosePcs, RunPcs
    <3> QED
      BY <1>3, <2>3, <3>1, <3>2 DEF PromptTask, ClockInv
  <2>8. act[c].pc = "idle"
    BY <1>5 DEF CheckpointReady, InFlight
  <2>9. t.pc \notin Busy /\ t.pc \notin RunPcs /\ ~Compacts(t) /\ act[c].pc \notin Busy
    BY <2>3, <2>8 DEF Busy, RunPcs, ClosePcs, Compacts
  <2> QED
    BY <1>3, <1>4, <2>3, <2>4, <2>5, <2>6, <2>7, <2>9, Move DEF CheckpointLock, log, map
<1>6. ASSUME lock' = Released(a),
             act' = [act EXCEPT ![a].pc = "check", ![a].conv = None, ![a].id = 0]
      PROVE  SessionInv'
  <2>1. PICK t : t = [act[a] EXCEPT !.pc = "check", !.conv = None, !.id = 0]
    OBVIOUS
  <2>2. /\ t \in Task /\ t.pc = "check" /\ t.todo = act[a].todo /\ t.at = act[a].at
    BY <1>3, <2>1 DEF Task, Pcs
  <2>3. act' = [act EXCEPT ![a] = t]
    BY <1>3, <1>6, <2>1
  <2>4. PcInv(a, t) /\ OnInv(a, t)
    BY <1>3, <2>2 DEF TaskInv, PcInv, OnInv, ClosePcs, RunPcs
  <2>5. Nowhere(a, t) /\ MayLeave(a)
    BY <1>1, <1>3, <2>2, OffQueue DEF MayLeave, Queues, Waits, Keeps, ClosePcs
  <2>6. LockMove(a, t)
    BY <1>6, <2>5 DEF LockMove
  <2> QED
    BY <1>3, <1>4, <2>2, <2>3, <2>4, <2>6, ToQuiet DEF CheckpointLock, log, map
<1> QED
  BY <1>1, <1>2, <1>5, <1>6 DEF CheckpointLock

LEMMA CheckpointEndInv ==
  ASSUME SessionInv, NEW a \in Actors, CheckpointEnd(a), slow' = slow
  PROVE  SessionInv'
<1>1. /\ CoreInv /\ act[a] \in Task /\ act[a].pc = "check" /\ TaskInv(a, act[a])
      /\ a # Sweeper /\ Nowhere(a, act[a]) /\ UsedTyped(used') /\ act \in [Actors -> Task]
  BY Types, TaskTyped, OffQueue DEF SessionInv, CheckpointEnd, TaskInv, PcInv
<1>2. CASE a = Checkpointer
  BY <1>1, <1>2, ToIdle DEF CheckpointEnd, log, map
<1>3. CASE a # Checkpointer
  <2>1. PICK t : t = [act[a] EXCEPT !.pc = "lock"]
    OBVIOUS
  <2>2. /\ t \in Task /\ t.pc = "lock" /\ t.todo = act[a].todo /\ t.at = act[a].at
    BY <1>1, <2>1 DEF Task, Pcs
  <2>3. act' = [act EXCEPT ![a] = t] /\ lock' = Queued(lock, a, a) /\ a \in Conversations
    BY <1>1, <1>3, <2>1 DEF CheckpointEnd, Actors
  <2>4. PcInv(a, t) /\ OnInv(a, t)
    BY <1>1, <2>2, <2>3, Actor DEF TaskInv, PcInv, OnInv, ClosePcs, RunPcs
  <2>5. LockMove(a, t)
    BY <1>1, <2>2, <2>3, Actor DEF LockMove, WaitsOnly, Waits, Keeps, ClosePcs
  <2> QED
    BY <1>1, <2>2, <2>3, <2>4, <2>5, ToQuiet DEF CheckpointEnd, log, map, Nowhere
<1> QED
  BY <1>2, <1>3

LEMMA TurnOverInv ==
  ASSUME SessionInv, NEW c \in Conversations, Settle(c) \/ NoReply(c), slow' = slow
  PROVE  SessionInv'
<1>1. CoreInv /\ c \in Actors
  BY Actor DEF SessionInv
<1>2. Nowhere(c, act[c])
  BY <1>1, OffQueue, TaskTyped DEF Settle, NoReply, RunPcs
<1> QED
  BY <1>1, <1>2, ToIdle DEF Settle, NoReply, log, map

LEMMA OpenFailsInv ==
  ASSUME SessionInv, NEW c \in Conversations, OpenFails(c), slow' = slow
  PROVE  SessionInv'
<1>1. CoreInv /\ LockInv /\ c \in Actors
  BY Actor DEF SessionInv, CoreInv
<1>2. \A d \in Conversations : Queues(c, act[c], d) => Keeps(c, act[c], d)
  BY DEF OpenFails, Queues, Waits
<1>3. MayLeave(c)
  BY <1>1, <1>2 DEF MayLeave, LockInv, LockOK, Leads, Holds
<1> QED
  BY <1>1, <1>3, ToIdle DEF OpenFails, log, map

LEMMA FlushFailsInv ==
  ASSUME SessionInv, NEW a \in Actors, FlushFails(a), slow' = slow
  PROVE  SessionInv'
<1>1. /\ CoreInv /\ LockInv /\ act[a] \in Task /\ act[a].pc \in {"flush", "checkFlush"}
      /\ TaskInv(a, act[a]) /\ UsedTyped(used') /\ act \in [Actors -> Task]
  BY Types, TaskTyped DEF SessionInv, CoreInv, FlushFails
<1>2. \A d \in Conversations : Queues(a, act[a], d) => Keeps(a, act[a], d)
  BY <1>1, Actor DEF Queues, Waits
<1>3. MayLeave(a)
  BY <1>1, <1>2 DEF MayLeave, LockInv, LockOK, Leads, Holds
<1>4. CASE act[a].pc = "checkFlush" /\ a \in Conversations
  <2>1. PICK t : t = [Idle EXCEPT !.pc = "lock", !.at = act[a].at]
    OBVIOUS
  <2>2. /\ t \in Task /\ t.pc = "lock" /\ t.todo = {} /\ t.at = act[a].at
    BY <1>1, <2>1, TaskTyped DEF Idle, Task, Pcs, Causes
  <2>3. act' = [act EXCEPT ![a] = t] /\ lock' = Queued(Released(a), a, a)
    BY <1>1, <1>4, <2>1 DEF FlushFails
  <2>4. PcInv(a, t) /\ OnInv(a, t) /\ a # Sweeper
    BY <1>4, <2>2, Actor DEF PcInv, OnInv, ClosePcs, RunPcs
  <2>5. WaitsOnly(a, t, a)
    BY <1>4, <2>2, Actor DEF WaitsOnly, Waits, Keeps, ClosePcs
  <2>6. LockMove(a, t)
    BY <1>3, <1>4, <2>3, <2>5 DEF LockMove
  <2>7. ~Queues(a, act[a], a)
    BY <1>1, <1>4, Actor DEF Queues, Waits, Keeps, ClosePcs, TaskInv, PcInv
  <2> QED
    BY <1>1, <1>4, <2>2, <2>3, <2>4, <2>6, <2>7, ToQuiet DEF FlushFails, log, map
<1>5. CASE ~(act[a].pc = "checkFlush" /\ a \in Conversations)
  <2>1. act' = [act EXCEPT ![a] = Idle] /\ lock' = Released(a)
    BY <1>1, <1>5 DEF FlushFails
  <2> QED
    BY <1>1, <1>3, <2>1, ToIdle DEF FlushFails, log, map
<1> QED
  BY <1>4, <1>5

LEMMA ToSweep ==
  ASSUME SessionInv, UNCHANGED <<now, turns, sess, live, activity, used, slow>>,
         NEW t \in Task, act' = [act EXCEPT ![Sweeper] = t],
         t.pc = "sweep", t.at \in {now, act[Sweeper].at}, OnInv(Sweeper, t),
         LockMove(Sweeper, t)
  PROVE  SessionInv'
<1>1. CoreInv /\ now \in Nat /\ UsedTyped(used') /\ act'[Sweeper] = t
  BY Types, Actor DEF SessionInv
<1>2. TaskInv(Sweeper, t)
  BY Actor, Quiet DEF TaskInv, PcInv
<1>3. ~slow => PromptTask(Sweeper, t)
  <2>1. ~slow => ClockInv(Sweeper, act[Sweeper])
    BY <1>1, TaskTyped, Actor DEF PromptTask
  <2> QED
    BY <1>1, <2>1, TaskTyped, Quiet, Actor DEF ClockInv
<1>4. SweepInv' /\ AloneInv'
  BY <1>1 DEF SweepInv, AloneInv, ClosePcs
<1> QED
  BY <1>1, <1>2, <1>3, <1>4, Actor, Quiet, Move

LEMMA SweepTickInv ==
  ASSUME SessionInv, SweepTick, slow' = slow
  PROVE  SessionInv'
<1> DEFINE todo == {<<c, Latest(OpenSessions(c))>> :
                      c \in {d \in Conversations : OpenSessions(d) # {}}}
<1>1. PICK t : t = [Idle EXCEPT !.pc = "sweep", !.at = now, !.todo = todo]
  OBVIOUS
<1>2. CoreInv /\ act \in [Actors -> Task] /\ now \in Nat
  BY Types DEF SessionInv
<1>3. /\ todo \in SUBSET (Conversations \X Nat)
      /\ \A e \in todo : e[2] \in DOMAIN sess /\ sess[e[2]].conv = e[1]
  <2>1. ASSUME NEW c \in Conversations, OpenSessions(c) # {}
        PROVE  /\ Latest(OpenSessions(c)) \in DOMAIN sess
               /\ Latest(OpenSessions(c)) \in Nat
               /\ sess[Latest(OpenSessions(c))].conv = c
    BY <1>2, <2>1, LatestOpen, SessionTyped DEF CoreInv
  <2> QED
    BY <2>1
<1>4. act' = [act EXCEPT ![Sweeper] = t] /\ act[Sweeper].pc = "idle" /\ lock' = lock
  BY <1>1 DEF SweepTick
<1> HIDE DEF todo
<1>5. /\ t \in Task /\ t.pc = "sweep" /\ t.todo = todo /\ t.at = now
  BY <1>1, <1>2, <1>3 DEF Idle, Task, Pcs, Causes
<1>6. OnInv(Sweeper, t)
  BY <1>3, <1>5, Actor DEF OnInv, ClosePcs, RunPcs
<1>7. LockMove(Sweeper, t)
  BY <1>2, <1>4, <1>5, OffQueue, Actor DEF LockMove, Stays, Nowhere, Queues
<1> QED
  BY <1>4, <1>5, <1>6, <1>7, ToSweep DEF SweepTick, log, map

LEMMA SweepEndInv ==
  ASSUME SessionInv, SweepEnd, slow' = slow
  PROVE  SessionInv'
<1>1. Nowhere(Sweeper, act[Sweeper])
  BY TaskTyped, OffQueue, Actor DEF SessionInv, SweepEnd
<1> QED
  BY <1>1, ToIdle, Actor DEF SweepEnd, log, map

(* What the sweep queues for is idle: a turn that runs keeps its session   *)
(* active, and a compaction its log.                                       *)
LEMMA SweepNextInv ==
  ASSUME SessionInv, SweepNext, slow' = slow
  PROVE  SessionInv'
<1>1. /\ CoreInv /\ act[Sweeper] \in Task /\ act[Sweeper].pc = "sweep"
      /\ OnInv(Sweeper, act[Sweeper]) /\ Nowhere(Sweeper, act[Sweeper])
      /\ UsedTyped(used') /\ act \in [Actors -> Task]
  BY Types, TaskTyped, OffQueue, Actor DEF SessionInv, SweepNext, TaskInv
<1>2. PICK e \in act[Sweeper].todo :
         LET rest == [act[Sweeper] EXCEPT !.todo = @ \ {e}] IN
         \/ /\ Lapsed(act[Sweeper].at, SweepActivity(e[1], e[2]))
            /\ act' = [act EXCEPT ![Sweeper] =
                 [rest EXCEPT !.pc = "sweepLock", !.conv = e[1], !.id = e[2]]]
            /\ lock' = Queued(lock, Sweeper, e[1])
         \/ /\ act' = [act EXCEPT ![Sweeper] = rest]
            /\ lock' = lock
  BY DEF SweepNext
<1>3. PICK c, s : c = e[1] /\ s = e[2]
  OBVIOUS
<1>4. /\ c \in Conversations /\ s \in Nat /\ s \in DOMAIN sess /\ sess[s].conv = c
  BY <1>1, <1>3, TaskTyped, Actor DEF OnInv
<1>5. PICK rest : rest = [act[Sweeper] EXCEPT !.todo = @ \ {e}]
  OBVIOUS
<1>6. /\ rest \in Task /\ rest.pc = "sweep" /\ rest.todo = act[Sweeper].todo \ {e}
      /\ rest.at = act[Sweeper].at
  BY <1>1, <1>5 DEF Task
<1>7. CASE act' = [act EXCEPT ![Sweeper] = rest] /\ lock' = lock
  <2>1. OnInv(Sweeper, rest)
    BY <1>1, <1>6, Actor DEF OnInv, ClosePcs, RunPcs
  <2>2. LockMove(Sweeper, rest)
    BY <1>1, <1>6, <1>7, OffQueue, Actor DEF LockMove, Stays, Nowhere, Queues
  <2> QED
    BY <1>6, <1>7, <2>1, <2>2, ToSweep DEF SweepNext, log, map
<1>8. ASSUME Lapsed(act[Sweeper].at, SweepActivity(c, s)),
             act' = [act EXCEPT ![Sweeper] =
                 [rest EXCEPT !.pc = "sweepLock", !.conv = c, !.id = s]],
             lock' = Queued(lock, Sweeper, c)
      PROVE  SessionInv'
  <2>1. PICK t : t = [rest EXCEPT !.pc = "sweepLock", !.conv = c, !.id = s]
    OBVIOUS
  <2>2. /\ t \in Task /\ t.pc = "sweepLock" /\ t.conv = c /\ t.id = s
        /\ t.todo = act[Sweeper].todo \ {e} /\ t.at = act[Sweeper].at
        /\ act' = [act EXCEPT ![Sweeper] = t] /\ act'[Sweeper] = t
        /\ \A d \in Conversations : act'[d] = act[d]
    <3>1. /\ t \in Task /\ t.pc = "sweepLock" /\ t.conv = c /\ t.id = s
          /\ t.todo = act[Sweeper].todo \ {e} /\ t.at = act[Sweeper].at
      BY <1>4, <1>6, <2>1 DEF Task, Pcs
    <3> QED
      BY <1>1, <1>8, <2>1, <3>1, Actor
  <2>3. TaskInv(Sweeper, t)
    BY <1>1, <1>4, <2>2, Quiet, Actor DEF TaskInv, PcInv, OnInv, ClosePcs, RunPcs
  <2>4. LockMove(Sweeper, t)
    BY <1>1, <1>4, <1>8, <2>2, Actor DEF LockMove, WaitsOnly, Waits, Keeps, ClosePcs
  <2>5. ASSUME ~slow PROVE PromptTask(Sweeper, t) /\ SweepInv' /\ AloneInv'
    <3>1. /\ PromptInv /\ ClockInv(Sweeper, act[Sweeper]) /\ act[Sweeper].at \in Nat
          /\ PromptTask(c, act[c]) /\ act[c].at \in Nat /\ TaskInv(c, act[c])
      BY <1>1, <1>4, <2>5, TaskTyped, Actor DEF PromptTask
    <3>2. PromptTask(Sweeper, t)
      BY <2>2, <3>1, Quiet, Actor DEF ClockInv
    <3>3. AloneInv'
      BY <2>2 DEF AloneInv, ClosePcs
    <3>4. /\ now \in Nat /\ Gap \in Nat /\ activity[c] \in Nat /\ act[Sweeper].at <= now
          /\ act[c].pc # "idle" => now <= act[c].at + Gap
      BY <1>1, <1>4, <3>1, Types, BoundsAssumption DEF PromptTask, ClockInv
    <3>5. act[c].pc \notin RunPcs
      <4> SUFFICES ASSUME act[c].pc \in RunPcs PROVE FALSE
        OBVIOUS
      <4>1. live[c] = act[c].id /\ activity[c] = act[c].at /\ act[c].id \in DOMAIN sess
        BY <1>4, <3>1 DEF PromptTask, TurnInv, TaskInv, OnInv
      <4>2. act[c].id # 0 /\ act[c].pc # "idle"
        BY <1>1, <4>1, SessionTyped DEF CoreInv, RunPcs
      <4>3. Lapsed(act[Sweeper].at, activity[c])
        BY <1>8, <4>1, <4>2 DEF SweepActivity
      <4> QED
        BY <3>1, <3>4, <4>1, <4>2, <4>3 DEF Lapsed
    <3>6. SessionIsOpen(s) => ~Compacts(act[c])
      <4> SUFFICES ASSUME SessionIsOpen(s), Compacts(act[c]) PROVE FALSE
        OBVIOUS
      <4>1. /\ act[c].conv = c /\ act[c].id \in DOMAIN sess /\ sess[act[c].id].conv = c
            /\ SessionIsOpen(act[c].id) /\ live[c] # act[c].id
            /\ Len(turns[c]) > sess[act[c].id].from
            /\ turns[c][Len(turns[c])].at >= act[c].at
        BY <1>4, <3>1 DEF Compacts, TaskInv, PcInv, OnInv, MapInv, PromptTask, EndInv, TurnInv
      <4>2. act[c].id = s
        BY <1>1, <1>4, <4>1 DEF CoreInv, OneOpen
      <4>3. live[c] = 0
        BY <1>1, <1>4, <4>1, OpenIsLive
      <4>4. turns[c][Len(turns[c])].at \in Nat
        <5>1. Len(turns[c]) \in Nat /\ sess[s].from \in Nat /\ \A i \in 1 .. Len(turns[c]) : turns[c][i] \in Turn
          BY <1>1, <1>4, RoomSeq, Types, SessionTyped DEF CoreInv
        <5>2. Len(turns[c]) \in 1 .. Len(turns[c])
          BY <4>1, <4>2, <5>1
        <5> QED
          BY <5>1, <5>2 DEF Turn
      <4>5. Lapsed(act[Sweeper].at, turns[c][Len(turns[c])].at)
        BY <1>4, <1>8, <4>1, <4>2, <4>3 DEF SweepActivity, LogActivity
      <4>6. act[c].pc # "idle"
        BY DEF Compacts, ClosePcs
      <4> QED
        BY <3>1, <3>4, <4>1, <4>4, <4>5, <4>6 DEF Lapsed
    <3>7. SweepInv'
      <4>1. SessionIsOpen(s)' <=> SessionIsOpen(s)
        BY DEF SweepNext, log, SessionIsOpen
      <4>2. /\ live[c] # 0 => Lapsed(act[Sweeper].at, activity[c])
            /\ live[c] = 0 => Lapsed(act[Sweeper].at, LogActivity(s))
        BY <1>8 DEF SweepActivity
      <4>3. LogActivity(s)' = LogActivity(s) /\ live' = live /\ activity' = activity
        BY DEF LogActivity, SweepNext, log, map
      <4> QED
        BY <1>4, <2>2, <3>5, <3>6, <4>1, <4>2, <4>3 DEF SweepInv, Compacts, Lapsed
    <3> QED
      BY <3>2, <3>3, <3>7
  <2> QED
    BY <1>1, <2>2, <2>3, <2>4, <2>5, Move, Quiet, Actor DEF SweepNext, log, map
<1> QED
  BY <1>2, <1>3, <1>5, <1>7, <1>8

(* flush_and_end on an open session: a short one goes straight to its end, *)
(* and the buffer of a flush is all there is.                              *)
LEMMA ClosingOpen ==
  ASSUME CoreInv, NEW u \in Task, NEW s \in DOMAIN sess, SessionIsOpen(s),
         NEW cause \in Causes, NEW skip, NEW t, Closing(u, s, cause, skip) = t
  PROVE  /\ t \in Task /\ t.pc \in ClosePcs /\ t.conv = sess[s].conv /\ t.id = s
         /\ t.cause = cause /\ t.at = u.at /\ t.todo = u.todo
         /\ \A a \in Actors : SnapInv(a, t) /\ EndInv(a, t)
<1>1. PICK c : c = sess[s].conv
  OBVIOUS
<1>2. /\ c \in Conversations /\ Len(turns[c]) \in Nat /\ sess[s].from \in Nat /\ s \in Nat
      /\ FlushMin \in Nat
  BY <1>1, SessionTyped, Types, RoomSeq, BoundsAssumption DEF CoreInv
<1>3. PICK pc : pc = IF Substantive(s) THEN "flush" ELSE "ending"
  OBVIOUS
<1>4. t = [u EXCEPT !.pc = pc, !.conv = c, !.id = s, !.cause = cause, !.snap = Len(turns[c])]
  BY <1>1, <1>3 DEF Closing
<1>5. pc \in ClosePcs /\ pc \in Pcs
  BY <1>3 DEF ClosePcs, Pcs
<1>6. /\ t \in Task /\ t.pc = pc /\ t.conv = c /\ t.id = s
      /\ t.cause = cause /\ t.at = u.at /\ t.todo = u.todo /\ t.snap = Len(turns[c])
  BY <1>2, <1>4, <1>5 DEF Task
<1>7. pc = "ending" => Len(turns[c]) - sess[s].from < FlushMin
  BY <1>1, <1>2, <1>3 DEF Substantive
<1>8. \A a \in Actors : SnapInv(a, t) /\ EndInv(a, t)
  BY <1>1, <1>2, <1>6, <1>7 DEF SnapInv, EndInv
<1> QED
  BY <1>1, <1>5, <1>6, <1>8

(* A room closes its session under its lock. *)
LEMMA ClosingRoom ==
  ASSUME SessionInv, NEW c \in Conversations, act[c].pc = "lock", Holds(c, c),
         NEW s \in DOMAIN sess, sess[s].conv = c, SessionIsOpen(s),
         NEW cause \in Causes \ {"compaction"}, NEW skip, NEW t,
         NEW u \in Task, u.at = now, u.todo = {}, Closing(u, s, cause, skip) = t
  PROVE  /\ t \in Task /\ t.pc \in ClosePcs /\ t.conv = c /\ t.id = s
         /\ t.cause # "compaction" /\ t.todo = {}
         /\ PcInv(c, t) /\ OnInv(c, t) /\ Stays(c, t)
         /\ PromptTask(c, t)
<1>1. CoreInv /\ now \in Nat /\ Gap \in Nat
  BY Types, BoundsAssumption DEF SessionInv
<1>2. /\ t \in Task /\ t.pc \in ClosePcs /\ t.conv = sess[s].conv /\ t.id = s
      /\ t.cause = cause /\ t.at = u.at /\ t.todo = u.todo
      /\ \A a \in Actors : SnapInv(a, t) /\ EndInv(a, t)
  BY <1>1, ClosingOpen
<1>3. /\ t.conv = c /\ t.cause # "compaction" /\ t.at = now /\ t.todo = {}
  BY <1>2
<1>4. SnapInv(c, t) /\ EndInv(c, t)
  BY <1>2, Actor
<1>5. PcInv(c, t) /\ OnInv(c, t)
  BY <1>2, <1>3, Actor DEF PcInv, OnInv, ClosePcs, RunPcs
<1>6. Stays(c, t)
  BY <1>2, <1>3, Actor DEF Stays, Queues, Waits, Keeps, ClosePcs
<1>7. PromptTask(c, t)
  BY <1>1, <1>2, <1>3, <1>4, Actor DEF PromptTask, ClockInv, TurnInv, ClosePcs, RunPcs
<1> QED
  BY <1>2, <1>3, <1>5, <1>6, <1>7

LEMMA RecoverInv ==
  ASSUME SessionInv, NEW c \in Conversations, Recover(c), slow' = slow
  PROVE  SessionInv'
<1>1. /\ CoreInv /\ c \in Actors /\ c # Sweeper /\ UsedTyped(used') /\ act \in [Actors -> Task]
      /\ act[c].pc = "lock" /\ Holds(c, c) /\ live[c] = 0 /\ OpenSessions(c) # {}
  BY Types, Actor DEF SessionInv, Recover
<1>2. PICK s : s = Latest(OpenSessions(c))
  OBVIOUS
<1>3. s \in DOMAIN sess /\ sess[s].conv = c /\ SessionIsOpen(s) /\ s # 0
  BY <1>1, <1>2, LatestOpen, SessionTyped DEF CoreInv
<1>4. PICK u, skip, t : /\ u = [Idle EXCEPT !.at = now] /\ skip = Opening
                        /\ Closing(u, s, "recovery", skip) = t
  OBVIOUS
<1>5. /\ t \in Task /\ t.pc \in ClosePcs /\ t.conv = c /\ t.id = s
      /\ t.cause # "compaction" /\ t.todo = {}
      /\ PcInv(c, t) /\ OnInv(c, t) /\ Stays(c, t)
      /\ PromptTask(c, t)
  <2>1. u \in Task /\ u.at = now /\ u.todo = {} /\ "recovery" \in Causes \ {"compaction"}
    BY <1>1, <1>4, Types DEF Idle, Task, Pcs, Causes
  <2>2. Closing(u, s, "recovery", skip) = t
    BY <1>4
  <2> QED
    BY <1>1, <1>3, <2>1, <2>2, ClosingRoom
<1>6. act' = [act EXCEPT ![c] = t] /\ lock' = lock
  BY <1>2, <1>4 DEF Recover
<1>7. TaskInv(c, t)
  BY <1>1, <1>3, <1>5 DEF TaskInv, MapInv, ClosePcs
<1>8. LockMove(c, t)
  BY <1>5, <1>6 DEF LockMove
<1>9. t.pc # "checkFlush" /\ t.pc \notin RunPcs /\ ~Compacts(t) /\ t.pc # "lock"
  BY <1>5 DEF ClosePcs, RunPcs, Compacts
<1> QED
  BY <1>1, <1>5, <1>6, <1>7, <1>8, <1>9, RoomAlone, Move DEF Recover, log, map

LEMMA FreshInv ==
  ASSUME SessionInv, NEW c \in Conversations, Fresh(c), slow' = slow
  PROVE  SessionInv'
<1>1. /\ CoreInv /\ c \in Actors /\ c # Sweeper /\ UsedTyped(used') /\ act \in [Actors -> Task]
      /\ act[c].pc = "lock" /\ Holds(c, c) /\ live[c] = 0 /\ OpenSessions(c) = {}
      /\ now \in Nat /\ Gap \in Nat
  BY Types, Actor, BoundsAssumption DEF SessionInv, Fresh
<1>2. PICK t : t = Opening
  OBVIOUS
<1>3. t \in Task /\ t.pc = "open" /\ t.at = now /\ t.todo = {}
  BY <1>1, <1>2 DEF Opening, Idle, Task, Pcs, Causes
<1>4. act' = [act EXCEPT ![c] = t] /\ lock' = lock
  BY <1>2 DEF Fresh
<1>5. TaskInv(c, t)
  BY <1>1, <1>3, Actor
     DEF TaskInv, PcInv, OnInv, MapInv, NoneOpen, OpenSessions, SessionsOf, ClosePcs, RunPcs
<1>6. LockMove(c, t)
  BY <1>1, <1>3, <1>4, Actor DEF LockMove, Stays, Queues, Waits, Keeps, ClosePcs
<1>7. PromptTask(c, t)
  BY <1>1, <1>3 DEF PromptTask, ClockInv, TurnInv, SnapInv, EndInv, ClosePcs, RunPcs
<1>8. t.pc # "checkFlush" /\ t.pc \notin RunPcs /\ ~Compacts(t) /\ t.pc # "lock"
  BY <1>3 DEF ClosePcs, RunPcs, Compacts
<1> QED
  BY <1>1, <1>3, <1>4, <1>5, <1>6, <1>7, <1>8, RoomAlone, Move DEF Fresh, log, map

-----------------------------------------------------------------------------
(* Steps that change the session map.                                      *)

LEMMA RoomStep ==
  ASSUME SessionInv, UNCHANGED <<now, turns, sess, used, slow>>,
         NEW c \in Conversations, NEW t \in Task, act' = [act EXCEPT ![c] = t],
         LockMove(c, t), TaskInv(c, t)',
         NEW v \in {0} \cup OpenSessions(c), NEW w \in Nat,
         live' = [live EXCEPT ![c] = v], activity' = [activity EXCEPT ![c] = w],
         \A b \in Actors : b # c => ~Checks(b, c) /\ (Closes(b, c) => v = 0),
         t.pc \notin {"checkFlush", "lock"},
         ~slow => /\ PromptTask(c, t)'
                  /\ t.pc \in Busy => act[c].pc \in Busy \/ ~Closes(Sweeper, c)
                  /\ Swept(c) => t.pc \notin RunPcs /\ ~Compacts(t) /\ v = 0
  PROVE  SessionInv'
<1>1. CoreInv /\ TypeOK /\ c \in Actors /\ c # Sweeper
  BY Actor DEF SessionInv, CoreInv
<1>2. lock' \in [Conversations -> Seq(Actors)] /\ LockInv' /\ Shrinks(lock, lock')
  BY <1>1, LockMoved
<1>3. /\ act' \in [Actors -> Task] /\ act'[c] = t
      /\ \A b \in Actors : b # c => act'[b] = act[b]
  BY <1>1, Types
<1>4. /\ live'[c] = v /\ activity'[c] = w
      /\ \A d \in Conversations : d # c => live'[d] = live[d] /\ activity'[d] = activity[d]
  BY <1>1, Types
<1>5. TypeOK'
  <2>1. v \in 0 .. Len(sess)
    <3>1. sess \in Seq(Session) /\ Len(sess) \in Nat /\ DOMAIN sess = 1 .. Len(sess)
      BY <1>1 DEF TypeOK
    <3> QED
      BY <3>1 DEF OpenSessions, SessionsOf
  <2>2. live' \in [Conversations -> 0 .. Len(sess)] /\ activity' \in [Conversations -> Nat]
    BY <1>1, <2>1 DEF TypeOK
  <2> QED
    BY <1>1, <1>2, <1>3, <2>2 DEF TypeOK
<1>6. CoreInv'
  <2>1. TaskInv(c, act[c])'
    BY <1>3 DEF TaskInv, PcInv, OnInv, MapInv, NoneOpen
  <2>2. \A d \in Conversations : Len(turns'[d]) >= Len(turns[d])
    BY <1>1, RoomSeq, Types
  <2>3. \A d \in Conversations :
            \/ live'[d] = live[d]
            \/ /\ live'[d] \in {0} \cup OpenSessions(d)
               /\ \A b \in Actors : b # c =>
                     ~Checks(b, d) /\ (Closes(b, d) => live'[d] = 0)
               /\ d # c => act[d].pc # "open"
    BY <1>4
  <2>4. /\ act'[c].pc # "checkFlush"
        /\ \A b \in Actors : b # c => ~Checks(b, c)
    BY <1>3
  <2> QED
    BY <1>1, <1>2, <1>3, <1>5, <2>1, <2>2, <2>3, <2>4, CoreStep
<1>7. ASSUME ~slow PROVE PromptInv'
  <2>1. PromptInv
    BY <1>7 DEF SessionInv
  <2>2. SweepInv'
    BY <1>1, <1>2, <1>3, <1>4, <1>7, <2>1, SweepStep DEF PromptInv
  <2>3. AloneInv'
    BY <1>1, <1>3, <1>7, <2>1, AloneStep DEF PromptInv
  <2> QED
    BY <1>1, <1>4, <1>7, <2>1, <2>2, <2>3, PromptStep
<1> QED
  BY <1>6, <1>7 DEF SessionInv

(* The sweep that waits for a room's lock judged its session lapsed, so    *)
(* the room neither reuses nor resumes it.                                 *)
LEMMA ReuseInv ==
  ASSUME SessionInv, NEW c \in Conversations, Reuse(c), slow' = slow
  PROVE  SessionInv'
<1>1. /\ CoreInv /\ c \in Actors /\ c # Sweeper /\ act \in [Actors -> Task]
      /\ act[c].pc = "lock" /\ Holds(c, c) /\ live[c] # 0 /\ ~Lapsed(now, activity[c])
      /\ now \in Nat /\ Gap \in Nat /\ live \in [Conversations -> Nat]
      /\ activity \in [Conversations -> Nat] /\ TaskInv(c, act[c])
  BY Types, TaskTyped, Actor, BoundsAssumption DEF SessionInv, Reuse
<1>2. PICK s : s = live[c]
  OBVIOUS
<1>3. s \in OpenSessions(c) /\ s \in DOMAIN sess /\ sess[s].conv = c /\ SessionIsOpen(s) /\ s \in Nat
  BY <1>1, <1>2 DEF CoreInv, LiveSessionIsOpen, OpenSessions, SessionsOf
<1>4. PICK t : t = [Idle EXCEPT !.pc = "run", !.at = now, !.id = s]
  OBVIOUS
<1>5. t \in Task /\ t.pc = "run" /\ t.at = now /\ t.id = s /\ t.todo = {}
  BY <1>1, <1>3, <1>4 DEF Idle, Task, Pcs, Causes
<1>6. /\ act' = [act EXCEPT ![c] = t] /\ lock' = Released(c) /\ sess' = sess
      /\ live' = [live EXCEPT ![c] = s] /\ activity' = [activity EXCEPT ![c] = now]
      /\ UNCHANGED <<now, turns, used>>
  BY <1>1, <1>2, <1>4 DEF Reuse, log, Touch
<1>7. LockMove(c, t)
  <2>1. Nowhere(c, t)
    BY <1>1, <1>5, OffQueue DEF RunPcs
  <2>2. MayLeave(c)
    BY <1>1, Actor DEF MayLeave, Queues, Waits, Keeps, ClosePcs
  <2> QED
    BY <1>6, <2>1, <2>2 DEF LockMove
<1>8. TaskInv(c, t)'
  BY <1>3, <1>5, <1>6, Actor DEF TaskInv, PcInv, OnInv, MapInv, ClosePcs, RunPcs
<1>9. \A b \in Actors : b # c => ~Checks(b, c) /\ ~Closes(b, c)
  BY <1>1, RoomAlone
<1>10. PromptTask(c, t)'
  BY <1>1, <1>3, <1>5, <1>6
     DEF PromptTask, ClockInv, TurnInv, SnapInv, EndInv, ClosePcs, RunPcs, SessionIsOpen
<1>11. ASSUME ~slow PROVE ~Swept(c)
  <2>1. PromptInv /\ act[Sweeper].at <= now /\ act[Sweeper].at \in Nat
    BY <1>1, <1>11, TaskTyped, Actor DEF PromptTask, ClockInv
  <2>2. Swept(c) => Lapsed(act[Sweeper].at, activity[c])
    BY <1>1, <2>1 DEF Swept, PromptInv, SweepInv
  <2> QED
    BY <1>1, <2>1, <2>2 DEF Lapsed
<1> QED
  BY <1>1, <1>3, <1>5, <1>6, <1>7, <1>8, <1>9, <1>10, <1>11, RoomStep, Actor

LEMMA ResumeInv ==
  ASSUME SessionInv, NEW c \in Conversations, Resume(c), slow' = slow
  PROVE  SessionInv'
<1>1. /\ CoreInv /\ c \in Actors /\ c # Sweeper /\ act \in [Actors -> Task]
      /\ act[c].pc = "lock" /\ Holds(c, c) /\ live[c] = 0 /\ OpenSessions(c) # {}
      /\ now \in Nat /\ Gap \in Nat /\ live \in [Conversations -> Nat]
      /\ activity \in [Conversations -> Nat] /\ TaskInv(c, act[c])
  BY Types, TaskTyped, Actor, BoundsAssumption DEF SessionInv, Resume
<1>2. PICK s : s = Latest(OpenSessions(c))
  OBVIOUS
<1>3. /\ s \in DOMAIN sess /\ sess[s].conv = c /\ SessionIsOpen(s) /\ s \in Nat
      /\ s \in OpenSessions(c)
      /\ \A r \in DOMAIN sess : sess[r].conv = c /\ SessionIsOpen(r) => r = s
  BY <1>1, <1>2, LatestOpen, SessionTyped DEF CoreInv, OpenSessions, SessionsOf
<1>4. PICK t : t = [Idle EXCEPT !.pc = "run", !.at = now, !.id = s]
  OBVIOUS
<1>5. t \in Task /\ t.pc = "run" /\ t.at = now /\ t.id = s /\ t.todo = {}
  BY <1>1, <1>3, <1>4 DEF Idle, Task, Pcs, Causes
<1>6. /\ act' = [act EXCEPT ![c] = t] /\ lock' = Released(c) /\ sess' = sess
      /\ live' = [live EXCEPT ![c] = s] /\ activity' = [activity EXCEPT ![c] = now]
      /\ UNCHANGED <<now, turns, used>> /\ Resumable(s)
  BY <1>1, <1>2, <1>4 DEF Resume, log, Touch
<1>7. LockMove(c, t)
  <2>1. Nowhere(c, t)
    BY <1>1, <1>5, OffQueue DEF RunPcs
  <2>2. MayLeave(c)
    BY <1>1, Actor DEF MayLeave, Queues, Waits, Keeps, ClosePcs
  <2> QED
    BY <1>6, <2>1, <2>2 DEF LockMove
<1>8. TaskInv(c, t)'
  BY <1>3, <1>5, <1>6, Actor DEF TaskInv, PcInv, OnInv, MapInv, ClosePcs, RunPcs
<1>9. \A b \in Actors : b # c => ~Checks(b, c) /\ ~Closes(b, c)
  BY <1>1, RoomAlone
<1>10. PromptTask(c, t)'
  BY <1>1, <1>3, <1>5, <1>6
     DEF PromptTask, ClockInv, TurnInv, SnapInv, EndInv, ClosePcs, RunPcs, SessionIsOpen
<1>11. ASSUME ~slow, Swept(c) PROVE FALSE
  <2>1. /\ PromptInv /\ act[Sweeper].at <= now /\ act[Sweeper].at \in Nat
        /\ TaskInv(Sweeper, act[Sweeper])
    BY <1>1, <1>11, TaskTyped, Actor DEF PromptTask, ClockInv
  <2>2. act[Sweeper].id = s
    BY <1>3, <1>11, <2>1 DEF Swept, TaskInv, OnInv
  <2>3. Ahead(lock[c], c, Sweeper)
    <3>1. Has(lock[c], Sweeper) /\ lock[c] # << >> /\ lock[c][1] = c
      <4>1. lock[c] \in Seq(Actors) /\ lock[c] # << >> /\ Head(lock[c]) = c
        BY <1>1, Types DEF Holds
      <4>2. Queues(Sweeper, act[Sweeper], c)
        BY <1>11 DEF Swept, Queues, Waits
      <4> QED
        BY <1>1, <4>1, <4>2, Actor DEF CoreInv, LockInv, LockOK
    <3>2. lock[c] \in Seq(Actors)
      BY <1>1, Types
    <3>3. PICK j \in DOMAIN lock[c] : lock[c][j] = Sweeper
      BY <3>1 DEF Has
    <3>4. j \in 1 .. Len(lock[c]) /\ Len(lock[c]) \in Nat /\ DOMAIN lock[c] = 1 .. Len(lock[c])
      BY <3>2, <3>3
    <3>5. 1 \in DOMAIN lock[c] /\ 1 < j
      BY <1>1, <3>1, <3>3, <3>4
    <3> QED
      BY <3>1, <3>3, <3>5 DEF Ahead
  <2>4. Lapsed(act[Sweeper].at, LogActivity(s))
    BY <1>1, <1>11, <2>1, <2>2, <2>3 DEF Swept, PromptInv, SweepInv
  <2>5. ~Lapsed(now, LogActivity(s))
    BY <1>6 DEF Resumable
  <2>6. LogActivity(s) \in Nat
    <3>1. Len(turns[c]) \in Nat /\ \A i \in 1 .. Len(turns[c]) : turns[c][i] \in Turn
      BY <1>1, RoomSeq, Types
    <3>2. sess[s].from \in Nat /\ sess[s].at \in Nat
      BY <1>1, <1>3, SessionTyped DEF CoreInv
    <3>3. CASE Len(turns[c]) > sess[s].from
      <4>1. Len(turns[c]) \in 1 .. Len(turns[c])
        BY <3>1, <3>2, <3>3
      <4> QED
        BY <1>3, <3>1, <3>3, <4>1 DEF LogActivity, Turn
    <3>4. CASE ~(Len(turns[c]) > sess[s].from)
      BY <1>3, <3>2, <3>4 DEF LogActivity
    <3> QED
      BY <3>3, <3>4
  <2> QED
    BY <1>1, <2>1, <2>4, <2>5, <2>6 DEF Lapsed
<1> QED
  BY <1>1, <1>3, <1>5, <1>6, <1>7, <1>8, <1>9, <1>10, <1>11, RoomStep, Actor

(* What is known of a task off the map depends on the log alone. *)
LEMMA PromptSame ==
  ASSUME UNCHANGED <<now, turns, sess>>, NEW a, NEW t, PromptTask(a, t), t.pc \notin RunPcs
  PROVE  PromptTask(a, t)'
<1>1. Flushed(t.conv, sess[t.id].from, Len(turns[t.conv])) =>
         Flushed(t.conv, sess[t.id].from, Len(turns[t.conv]))'
  BY DEF Flushed
<1> QED
  BY <1>1 DEF PromptTask, ClockInv, TurnInv, SnapInv, EndInv, SessionIsOpen

LEMMA LapseInv ==
  ASSUME SessionInv, NEW c \in Conversations, Lapse(c), slow' = slow
  PROVE  SessionInv'
<1>1. /\ CoreInv /\ c \in Actors /\ c # Sweeper /\ act \in [Actors -> Task]
      /\ act[c].pc = "lock" /\ Holds(c, c) /\ live[c] # 0 /\ 0 \in Nat
  BY Types, Actor DEF SessionInv, Lapse
<1>2. PICK s : s = live[c]
  OBVIOUS
<1>3. s \in DOMAIN sess /\ sess[s].conv = c /\ SessionIsOpen(s) /\ s # 0
  BY <1>1, <1>2 DEF CoreInv, LiveSessionIsOpen, OpenSessions, SessionsOf
<1>4. PICK u, skip, t : /\ u = [Idle EXCEPT !.at = now] /\ skip = Opening
                        /\ Closing(u, s, "idle", skip) = t
  OBVIOUS
<1>5. /\ t \in Task /\ t.pc \in ClosePcs /\ t.conv = c /\ t.id = s
      /\ t.cause # "compaction" /\ t.todo = {}
      /\ PcInv(c, t) /\ OnInv(c, t) /\ Stays(c, t)
      /\ PromptTask(c, t)
  <2>1. u \in Task /\ u.at = now /\ u.todo = {} /\ "idle" \in Causes \ {"compaction"}
    BY <1>1, <1>4, Types DEF Idle, Task, Pcs, Causes
  <2>2. Closing(u, s, "idle", skip) = t
    BY <1>4
  <2> QED
    BY <1>1, <1>3, <2>1, <2>2, ClosingRoom
<1>6. /\ act' = [act EXCEPT ![c] = t] /\ lock' = lock
      /\ live' = [live EXCEPT ![c] = 0] /\ activity' = [activity EXCEPT ![c] = 0]
      /\ UNCHANGED <<now, turns, sess, used>>
  BY <1>2, <1>4 DEF Lapse, log
<1>7. TaskInv(c, t)'
  <2>1. live'[c] = 0
    BY <1>1, <1>6, Types
  <2> QED
    BY <1>3, <1>5, <1>6, <2>1, Actor DEF TaskInv, PcInv, OnInv, MapInv, ClosePcs, SessionIsOpen
<1>8. LockMove(c, t)
  BY <1>5, <1>6 DEF LockMove
<1>9. t.pc \notin {"checkFlush", "lock"} /\ t.pc \notin RunPcs /\ ~Compacts(t)
  BY <1>5 DEF ClosePcs, RunPcs, Compacts
<1>10. PromptTask(c, t)'
  BY <1>5, <1>6, <1>9, PromptSame
<1>11. \A b \in Actors : b # c => ~Checks(b, c) /\ ~Closes(b, c)
  BY <1>1, RoomAlone
<1> QED
  BY <1>1, <1>5, <1>6, <1>7, <1>8, <1>9, <1>10, <1>11, RoomStep, Actor

LEMMA CompactInv ==
  ASSUME SessionInv, NEW c \in Conversations, Compact(c), slow' = slow
  PROVE  SessionInv'
<1>1. /\ CoreInv /\ c \in Actors /\ c # Sweeper /\ act \in [Actors -> Task]
      /\ act[c].pc = "replied" /\ live[c] # 0 /\ 0 \in Nat
      /\ act[c] \in Task /\ act[c].at \in Nat /\ act[c].pc \in RunPcs
  BY Types, TaskTyped, Actor DEF SessionInv, Compact, RunPcs
<1>2. PICK s : s = live[c]
  OBVIOUS
<1>3. s \in DOMAIN sess /\ sess[s].conv = c /\ SessionIsOpen(s) /\ s # 0
  BY <1>1, <1>2 DEF CoreInv, LiveSessionIsOpen, OpenSessions, SessionsOf
<1>4. PICK u, t : /\ u = [Idle EXCEPT !.at = act[c].at]
                  /\ Closing(u, s, "compaction", Idle) = t
  OBVIOUS
<1>5. /\ t \in Task /\ t.pc \in ClosePcs /\ t.conv = c /\ t.id = s
      /\ t.cause = "compaction" /\ t.at = act[c].at /\ t.todo = {}
      /\ SnapInv(c, t) /\ EndInv(c, t)
  <2>1. u \in Task /\ u.at = act[c].at /\ u.todo = {} /\ "compaction" \in Causes
    BY <1>1, <1>4 DEF Idle, Task, Pcs, Causes
  <2>2. Closing(u, s, "compaction", Idle) = t
    BY <1>4
  <2>3. /\ t \in Task /\ t.pc \in ClosePcs /\ t.conv = sess[s].conv /\ t.id = s
        /\ t.cause = "compaction" /\ t.at = u.at /\ t.todo = u.todo
        /\ \A a \in Actors : SnapInv(a, t) /\ EndInv(a, t)
    BY <1>1, <1>3, <2>1, <2>2, ClosingOpen
  <2> QED
    BY <1>1, <1>3, <2>1, <2>3
<1>6. /\ act' = [act EXCEPT ![c] = t] /\ lock' = lock
      /\ live' = [live EXCEPT ![c] = 0] /\ activity' = [activity EXCEPT ![c] = 0]
      /\ UNCHANGED <<now, turns, sess, used>>
  BY <1>2, <1>4 DEF Compact, log
<1>7. TaskInv(c, t)'
  <2>1. live'[c] = 0
    BY <1>1, <1>6, Types
  <2> QED
    BY <1>3, <1>5, <1>6, <2>1, Actor DEF TaskInv, PcInv, OnInv, MapInv, ClosePcs, RunPcs
<1>8. Compacts(t) /\ t.pc \notin {"checkFlush", "lock"} /\ t.pc \notin RunPcs
  BY <1>5 DEF ClosePcs, RunPcs, Compacts
<1>9. LockMove(c, t)
  <2>1. Nowhere(c, t) /\ Nowhere(c, act[c])
    BY <1>1, <1>5, <1>8, OffQueue
  <2> QED
    BY <1>6, <2>1 DEF LockMove, Stays, Nowhere, Queues
<1>10. ASSUME ~slow PROVE PromptTask(c, t)' /\ ~Swept(c)
  <2>1. PromptInv /\ PromptTask(c, act[c])
    BY <1>1, <1>10, TaskTyped
  <2>2. PromptTask(c, t)
    <3>1. ClockInv(c, t)
      BY <1>1, <1>5, <2>1 DEF PromptTask, ClockInv
    <3>2. TurnInv(c, t)
      BY <1>1, <1>2, <1>5, <1>8, <2>1 DEF PromptTask, TurnInv
    <3> QED
      BY <1>5, <3>1, <3>2 DEF PromptTask
  <2>3. ~Swept(c)
    BY <1>1, <2>1 DEF Swept, PromptInv, SweepInv
  <2> QED
    BY <1>6, <1>8, <2>2, <2>3, PromptSame
<1>11. \A b \in Actors : b # c => ~Checks(b, c)
  BY <1>1 DEF CoreInv, CheckInv, Checks, Busy
<1>12. act[c].pc \in Busy
  BY <1>1 DEF Busy
<1> QED
  BY <1>1, <1>5, <1>6, <1>7, <1>8, <1>9, <1>10, <1>11, <1>12, RoomStep, Actor

(* The sweep has the lock of a lapsed session: it takes it out of the map  *)
(* and closes it, alone.                                                   *)
LEMMA SweepLockInv ==
  ASSUME SessionInv, SweepLock, slow' = slow
  PROVE  SessionInv'
<1>1. /\ CoreInv /\ TypeOK /\ act \in [Actors -> Task] /\ act[Sweeper] \in Task
      /\ act[Sweeper].pc = "sweepLock" /\ TaskInv(Sweeper, act[Sweeper])
      /\ act[Sweeper].todo \subseteq Conversations \X Nat /\ act[Sweeper].at \in Nat
      /\ Sweeper \in Actors /\ Sweeper \notin Conversations
  BY Types, TaskTyped, Actor DEF SessionInv, CoreInv, SweepLock
<1>2. PICK c, s : c = act[Sweeper].conv /\ s = act[Sweeper].id
  OBVIOUS
<1>3. /\ c \in Conversations /\ s \in DOMAIN sess /\ sess[s].conv = c /\ Holds(Sweeper, c)
      /\ s # 0 /\ UNCHANGED <<now, turns, sess, used>>
  BY <1>1, <1>2, SessionTyped DEF TaskInv, OnInv, SweepLock, log
<1>4. PICK rest : rest = [act[Sweeper] EXCEPT !.pc = "sweep", !.conv = None, !.id = 0]
  OBVIOUS
<1>5. CASE ~SessionIsOpen(s)
  <2>1. rest \in Task /\ rest.pc = "sweep" /\ rest.at = act[Sweeper].at /\ rest.todo = act[Sweeper].todo
    BY <1>1, <1>4 DEF Task, Pcs
  <2>2. act' = [act EXCEPT ![Sweeper] = rest] /\ lock' = Released(Sweeper) /\ UNCHANGED <<live, activity>>
    BY <1>1, <1>2, <1>4, <1>5 DEF SweepLock, Closing, map
  <2>3. OnInv(Sweeper, rest)
    BY <1>1, <2>1 DEF TaskInv, OnInv, ClosePcs, RunPcs
  <2>4. Nowhere(Sweeper, rest) /\ MayLeave(Sweeper)
    BY <1>1, <1>2, <1>3, <2>1, OffQueue DEF MayLeave, Queues, Waits, Keeps, ClosePcs
  <2>5. LockMove(Sweeper, rest)
    BY <2>2, <2>4 DEF LockMove
  <2> QED
    BY <1>3, <2>1, <2>2, <2>3, <2>5, ToSweep
<1>6. CASE SessionIsOpen(s)
  <2>1. PICK u, t : u = act[Sweeper] /\ Closing(u, s, "idle", rest) = t
    OBVIOUS
  <2>2. /\ t \in Task /\ t.pc \in ClosePcs /\ t.conv = c /\ t.id = s
        /\ t.cause = "idle" /\ t.at = act[Sweeper].at /\ t.todo = act[Sweeper].todo
        /\ SnapInv(Sweeper, t) /\ EndInv(Sweeper, t)
    <3>1. u \in Task /\ "idle" \in Causes
      BY <1>1, <2>1 DEF Causes
    <3>2. Closing(u, s, "idle", rest) = t
      BY <2>1
    <3>3. /\ t \in Task /\ t.pc \in ClosePcs /\ t.conv = sess[s].conv /\ t.id = s
          /\ t.cause = "idle" /\ t.at = u.at /\ t.todo = u.todo
          /\ \A a \in Actors : SnapInv(a, t) /\ EndInv(a, t)
      BY <1>1, <1>3, <1>6, <3>1, <3>2, ClosingOpen
    <3> QED
      BY <1>1, <1>3, <2>1, <3>3
  <2>3. /\ act' = [act EXCEPT ![Sweeper] = t] /\ lock' = lock
        /\ live' = Removed(c, s)
        /\ activity' = [activity EXCEPT ![c] = IF live'[c] = 0 THEN 0 ELSE @]
    BY <1>1, <1>2, <1>4, <1>6, <2>1 DEF SweepLock
  <2>4. /\ live'[c] = 0 \/ live'[c] = live[c]
        /\ live'[c] # s
        /\ \A d \in Conversations : d # c => live'[d] = live[d] /\ activity'[d] = activity[d]
        /\ live' \in [Conversations -> 0 .. Len(sess)] /\ activity' \in [Conversations -> Nat]
    BY <1>1, <1>3, <2>3, Types DEF Removed, TypeOK
  <2>5. act' \in [Actors -> Task] /\ act'[Sweeper] = t /\ \A b \in Actors : b # Sweeper => act'[b] = act[b]
    BY <1>1, <2>2, <2>3
  <2>6. TypeOK'
    BY <1>1, <1>3, <2>3, <2>4, <2>5 DEF TypeOK
  <2>7. LockInv'
    <3>1. LockMove(Sweeper, t)
      BY <1>1, <1>2, <1>3, <2>2, <2>3 DEF LockMove, Stays, Queues, Waits, Keeps, ClosePcs
    <3> QED
      BY <1>1, <2>2, <2>3, <3>1, LockMoved
  <2>8. \A b \in Actors : b # Sweeper => ~Keeps(b, act[b], c)
    BY <1>1, <1>3, OneHolder DEF CoreInv
  <2>9. CoreInv'
    <3>1. TaskInv(Sweeper, act[Sweeper])'
      <4>1. PcInv(Sweeper, t) /\ OnInv(Sweeper, t)
        BY <1>1, <1>3, <2>2, Actor DEF TaskInv, PcInv, OnInv, ClosePcs, RunPcs
      <4>2. PcInv(Sweeper, t)' /\ OnInv(Sweeper, t)' /\ MapInv(Sweeper, t)'
        BY <1>1, <1>3, <2>2, <2>4, <4>1, Actor DEF PcInv, OnInv, MapInv, ClosePcs
      <4> QED
        BY <2>5, <4>2 DEF TaskInv, PcInv, OnInv, MapInv, NoneOpen
    <3>2. \A d \in Conversations : Len(turns'[d]) >= Len(turns[d])
      BY <1>1, <1>3, RoomSeq, Types
    <3>3. \A b \in Actors : b # Sweeper => ~Checks(b, c)
      BY <2>8 DEF Checks, Keeps
    <3>4. act[c].pc # "open"
      BY <1>1, <1>3, <2>8, Actor DEF Keeps
    <3>5. \A d \in Conversations :
            \/ live'[d] = live[d]
            \/ /\ live'[d] \in {0} \cup OpenSessions(d)
               /\ \A b \in Actors : b # Sweeper =>
                     ~Checks(b, d) /\ (Closes(b, d) => live'[d] = 0)
               /\ d # Sweeper => act[d].pc # "open"
      BY <2>4, <3>3, <3>4
    <3>6. act'[Sweeper].pc # "checkFlush" /\ \A b \in Actors : ~Checks(b, Sweeper)
      BY <1>1, <2>2, <2>5 DEF ClosePcs, Checks, CoreInv, TasksInv, TaskInv, OnInv
    <3> QED
      BY <1>1, <1>3, <2>5, <2>6, <2>7, <3>1, <3>2, <3>5, <3>6, CoreStep
  <2>10. ASSUME ~slow PROVE PromptInv'
    <3>1. PromptInv /\ PromptTask(Sweeper, act[Sweeper])
      BY <1>1, <2>10, TaskTyped
    <3>2. act[c].pc \notin RunPcs /\ ~Compacts(act[c])
      BY <1>1, <1>2, <1>6, <3>1 DEF PromptInv, SweepInv, Compacts
    <3>3. PromptTask(Sweeper, t)
      BY <1>1, <2>2, <3>1 DEF PromptTask, ClockInv, TurnInv
    <3>4. PromptTask(Sweeper, t)'
      BY <1>3, <2>2, <3>3, PromptSame DEF ClosePcs, RunPcs
    <3>5. SweepInv'
      BY <2>2, <2>5 DEF SweepInv, ClosePcs
    <3>6. AloneInv'
      <4>1. act[c].pc \notin Busy
        BY <1>1, <1>3, <2>8, <3>2, TaskTyped, Actor DEF Busy, Keeps, Compacts
      <4> QED
        BY <1>1, <1>3, <2>2, <2>5, <4>1, Actor DEF AloneInv
    <3> QED
      BY <1>1, <1>3, <2>2, <2>3, <2>4, <3>1, <3>2, <3>4, <3>5, <3>6, PromptStep
  <2> QED
    BY <2>9, <2>10, <1>3 DEF SessionInv
<1> QED
  BY <1>5, <1>6

-----------------------------------------------------------------------------
(* Steps that record a turn.                                               *)

Grows(c, kind, covers) ==
    /\ turns' \in [Conversations -> Seq(Turn)]
    /\ \A d \in Conversations : d # c => turns'[d] = turns[d]
    /\ Len(turns[c]) \in Nat /\ Len(turns'[c]) = Len(turns[c]) + 1
    /\ \A i \in 1 .. Len(turns[c]) : turns'[c][i] = turns[c][i]
    /\ turns'[c][Len(turns[c]) + 1] = [kind |-> kind, at |-> now, covers |-> covers]

LEMMA Grown ==
  ASSUME CoreInv, NEW c \in Conversations, NEW kind \in Kinds, NEW covers \in Nat,
         turns' = Appended(c, kind, covers)
  PROVE  Grows(c, kind, covers)
<1>1. PICK e : e = [kind |-> kind, at |-> now, covers |-> covers]
  OBVIOUS
<1>2. e \in Turn /\ turns \in [Conversations -> Seq(Turn)] /\ turns[c] \in Seq(Turn)
  BY <1>1, Types DEF Turn
<1>3. turns' = [turns EXCEPT ![c] = Append(turns[c], e)]
  BY <1>1 DEF Appended
<1>4. /\ Append(turns[c], e) \in Seq(Turn) /\ Len(turns[c]) \in Nat
      /\ Len(Append(turns[c], e)) = Len(turns[c]) + 1
      /\ \A i \in 1 .. Len(turns[c]) : Append(turns[c], e)[i] = turns[c][i]
      /\ Append(turns[c], e)[Len(turns[c]) + 1] = e
  BY <1>2
<1> QED
  BY <1>1, <1>2, <1>3, <1>4 DEF Grows

(* The sessions of the log stay as they are, though one may be added. *)
SessionsStay == \A s \in DOMAIN sess : s \in DOMAIN sess' /\ sess'[s] = sess[s]

(* What the flushes promise when a turn is recorded: a message or a reply  *)
(* falls into an open session, a flush was given all that was said.        *)
LEMMA GrownLog ==
  ASSUME CoreInv, PromptInv, ~slow, slow' = slow, SessionsStay,
         NEW c \in Conversations, NEW kind \in Kinds, NEW covers \in Nat,
         Grows(c, kind, covers),
         kind \in Spoken => \E s \in DOMAIN sess : sess[s].conv = c /\ SessionIsOpen(s),
         kind = "flush" =>
            \A i \in covers + 1 .. Len(turns[c]) : turns[c][i].kind \notin Spoken
  PROVE  WatermarkIsHonest' /\ NothingLost'
<1>1. ASSUME NEW d \in Conversations
      PROVE  /\ Len(turns[d]) \in Nat /\ Len(turns'[d]) \in Nat
             /\ DOMAIN turns[d] = 1 .. Len(turns[d]) /\ DOMAIN turns'[d] = 1 .. Len(turns'[d])
             /\ \A i \in 1 .. Len(turns[d]) :
                   i \in 1 .. Len(turns'[d]) /\ turns'[d][i] = turns[d][i] /\ turns[d][i].covers \in Nat
             /\ \A i \in 1 .. Len(turns'[d]) : i \notin 1 .. Len(turns[d]) =>
                   d = c /\ i = Len(turns[d]) + 1 /\ turns'[d][i].kind = kind
                   /\ turns'[d][i].covers = covers
  <2>1. turns \in [Conversations -> Seq(Turn)] /\ turns' \in [Conversations -> Seq(Turn)]
    BY Types DEF Grows
  <2>2. /\ Len(turns[d]) \in Nat /\ Len(turns'[d]) \in Nat
        /\ DOMAIN turns[d] = 1 .. Len(turns[d]) /\ DOMAIN turns'[d] = 1 .. Len(turns'[d])
        /\ \A i \in 1 .. Len(turns[d]) : turns[d][i] \in Turn
    BY <2>1, RoomSeq
  <2>3. CASE d = c
    <3>1. /\ Len(turns'[d]) = Len(turns[d]) + 1
          /\ \A i \in 1 .. Len(turns[d]) : turns'[d][i] = turns[d][i]
      BY <2>3 DEF Grows
    <3>2. turns'[d][Len(turns[d]) + 1].kind = kind /\ turns'[d][Len(turns[d]) + 1].covers = covers
      BY <2>3 DEF Grows
    <3>3. \A i \in 1 .. Len(turns[d]) : turns[d][i].covers \in Nat
      BY <2>2 DEF Turn
    <3>4. \A i \in 1 .. Len(turns'[d]) : i \notin 1 .. Len(turns[d]) => i = Len(turns[d]) + 1
      BY <2>2, <3>1
    <3> QED
      BY <2>2, <2>3, <3>1, <3>2, <3>3, <3>4
  <2>4. CASE d # c
    BY <2>2, <2>4 DEF Grows, Turn
  <2> QED
    BY <2>3, <2>4
<1>2. WatermarkIsHonest'
  <2> SUFFICES ASSUME NEW d \in Conversations, NEW j \in 1 .. Len(turns'[d]),
                      turns'[d][j].kind = "flush",
                      NEW i \in turns'[d][j].covers + 1 .. j - 1
      PROVE  turns'[d][i].kind \notin Spoken
    BY <1>1 DEF WatermarkIsHonest, Spoken
  <2>1. CASE j \in 1 .. Len(turns[d])
    <3>1. /\ turns[d][j].kind = "flush" /\ i \in turns[d][j].covers + 1 .. j - 1
          /\ turns[d][j].covers \in Nat /\ i \in 1 .. Len(turns[d])
      BY <1>1, <2>1
    <3>2. turns[d][i].kind \notin Spoken
      BY <1>1, <2>1, <3>1 DEF PromptInv, WatermarkIsHonest, Spoken
    <3> QED
      BY <1>1, <3>1, <3>2
  <2>2. CASE j \notin 1 .. Len(turns[d])
    <3>1. d = c /\ j = Len(turns[c]) + 1 /\ turns'[d][j].covers = covers /\ kind = "flush"
      BY <1>1, <2>2
    <3>2. i \in covers + 1 .. Len(turns[c]) /\ i \in 1 .. Len(turns[c])
      BY <1>1, <3>1
    <3> QED
      BY <1>1, <3>1, <3>2
  <2> QED
    BY <2>1, <2>2
<1>3. NothingLost'
  <2> SUFFICES ASSUME NEW d \in Conversations, NEW i \in 1 .. Len(turns'[d]),
                      turns'[d][i].kind \in Spoken
      PROVE  \E s \in SessionsOf(d)' :
                /\ sess'[s].from < i
                /\ ~(SessionIsOpen(s)') =>
                    /\ i <= sess'[s].to
                    /\ sess'[s].to - sess'[s].from >= FlushMin => Covered(d, s, i)'
    BY <1>1 DEF NothingLost, Spoken
  <2>1. CASE i \in 1 .. Len(turns[d])
    <3>1. turns[d][i].kind \in Spoken
      BY <1>1, <2>1
    <3>2. PICK s \in SessionsOf(d) :
                /\ sess[s].from < i
                /\ ~SessionIsOpen(s) =>
                    /\ i <= sess[s].to
                    /\ sess[s].to - sess[s].from >= FlushMin => Covered(d, s, i)
      BY <1>1, <2>1, <3>1 DEF PromptInv, NothingLost, Spoken
    <3>3. /\ s \in DOMAIN sess /\ sess[s].conv = d /\ sess'[s] = sess[s] /\ s \in SessionsOf(d)'
          /\ SessionIsOpen(s)' <=> SessionIsOpen(s)
          /\ sess[s].to \in Nat /\ sess[s].to <= Len(turns[d])
      BY SessionTyped DEF SessionsOf, SessionsStay, SessionIsOpen, CoreInv, LogInv
    <3>4. Covered(d, s, i) => Covered(d, s, i)'
      <4> SUFFICES ASSUME NEW j \in i + 1 .. sess[s].to,
                          turns[d][j].kind = "flush", turns[d][j].covers >= i
          PROVE  turns'[d][j].kind = "flush" /\ turns'[d][j].covers >= i
        BY <3>3 DEF Covered
      <4>1. j \in 1 .. Len(turns[d])
        BY <1>1, <2>1, <3>3
      <4> QED
        BY <1>1, <4>1
    <3> QED
      BY <3>2, <3>3, <3>4
  <2>2. CASE i \notin 1 .. Len(turns[d])
    <3>1. d = c /\ i = Len(turns[c]) + 1 /\ kind \in Spoken
      BY <1>1, <2>2
    <3>2. PICK s \in DOMAIN sess : sess[s].conv = c /\ SessionIsOpen(s)
      BY <3>1
    <3>3. /\ s \in SessionsOf(d)' /\ sess'[s] = sess[s] /\ SessionIsOpen(s)'
          /\ sess[s].from \in Nat /\ sess[s].from <= Len(turns[c])
      BY <3>1, <3>2, SessionTyped DEF SessionsOf, SessionsStay, SessionIsOpen, CoreInv, LogInv
    <3>4. sess'[s].from < i
      BY <1>1, <3>1, <3>3
    <3> QED
      BY <3>3, <3>4
  <2> QED
    BY <2>1, <2>2
<1> QED
  BY <1>2, <1>3

(* What is known of a task survives a turn recorded by another, unless a   *)
(* message or a reply falls behind the buffer of its flush, or anything    *)
(* into a session about to end.                                            *)
LEMMA GrownTask ==
  ASSUME CoreInv, now' = now, SessionsStay,
         NEW c \in Conversations, NEW kind \in Kinds, NEW covers \in Nat,
         Grows(c, kind, covers),
         NEW b \in Actors, NEW u \in Task, TaskInv(b, u), PromptTask(b, u),
         u.pc \in RunPcs /\ b \in Conversations =>
            live'[b] = live[b] /\ activity'[b] = activity[b],
         kind \in Spoken => ~(u.pc \in {"flush", "checkFlush"} /\ u.conv = c),
         u.pc = "ending" => u.conv # c
  PROVE  PromptTask(b, u)'
<1>1. /\ u.at \in Nat /\ u.snap \in Nat /\ now \in Nat
      /\ \A d \in Conversations : Len(turns[d]) \in Nat
  BY Types, RoomSeq DEF Task
<1>2. ClockInv(b, u)'
  BY DEF PromptTask, ClockInv
<1>3. /\ u.pc \in ClosePcs \cup {"checkFlush"} => u.conv \in Conversations /\ u.id \in DOMAIN sess
      /\ u.pc \in RunPcs /\ b \in Conversations => u.id \in DOMAIN sess /\ sess[u.id].conv = b
      /\ u.pc \in ClosePcs /\ b \in Conversations => u.conv = b /\ sess[u.id].conv = b
  BY DEF TaskInv, PcInv, OnInv
<1>4. u.id \in DOMAIN sess => sess'[u.id] = sess[u.id] /\ sess[u.id].from \in Nat
  BY SessionTyped DEF SessionsStay, CoreInv
<1>5. TurnInv(b, u)'
  <2> SUFFICES ASSUME b \in Conversations PROVE TurnInv(b, u)'
    BY DEF TurnInv
  <2>1. TurnInv(b, u)
    BY DEF PromptTask
  <2>2. u.pc \in RunPcs => live'[b] = u.id /\ SessionIsOpen(u.id)' /\ activity'[b] = u.at
    BY <1>3, <1>4, <2>1 DEF TurnInv, SessionIsOpen
  <2>3. ASSUME u.pc \in {"generate", "replied"} \/ (u.pc \in ClosePcs /\ u.cause = "compaction")
        PROVE  Len(turns'[b]) > sess'[u.id].from /\ turns'[b][Len(turns'[b])].at >= u.at
    <3>1. u.id \in DOMAIN sess
      BY <1>3, <2>3 DEF RunPcs
    <3>2. Len(turns[b]) > sess[u.id].from /\ turns[b][Len(turns[b])].at >= u.at
      BY <2>1, <2>3 DEF TurnInv
    <3>3. CASE b = c
      <4>1. Len(turns'[b]) = Len(turns[b]) + 1 /\ turns'[b][Len(turns'[b])].at = now
        BY <3>3 DEF Grows
      <4>2. now >= u.at
        BY <1>1 DEF PromptTask, ClockInv
      <4> QED
        BY <1>1, <1>4, <3>1, <3>2, <4>1, <4>2
    <3>4. CASE b # c
      BY <1>4, <3>1, <3>2, <3>4 DEF Grows
    <3> QED
      BY <3>3, <3>4
  <2> QED
    BY <2>2, <2>3 DEF TurnInv
<1>6. SnapInv(b, u)'
  <2> SUFFICES ASSUME u.pc \in {"flush", "checkFlush"} PROVE SnapInv(b, u)'
    BY DEF SnapInv
  <2>1. /\ u.conv \in Conversations /\ u.snap <= Len(turns[u.conv])
        /\ \A i \in u.snap + 1 .. Len(turns[u.conv]) : turns[u.conv][i].kind \notin Spoken
    BY <1>3 DEF PromptTask, SnapInv, ClosePcs
  <2>2. CASE u.conv = c
    <3>1. /\ Len(turns'[c]) = Len(turns[c]) + 1
          /\ \A i \in 1 .. Len(turns[c]) : turns'[c][i] = turns[c][i]
          /\ turns'[c][Len(turns[c]) + 1].kind = kind
      BY DEF Grows
    <3>2. kind \notin Spoken
      BY <2>2
    <3>3. \A i \in u.snap + 1 .. Len(turns'[c]) :
             \/ i \in u.snap + 1 .. Len(turns[c]) /\ i \in 1 .. Len(turns[c])
             \/ i = Len(turns[c]) + 1
      BY <1>1, <3>1
    <3>4. u.snap <= Len(turns'[c])
      BY <1>1, <2>1, <2>2, <3>1
    <3> QED
      BY <2>1, <2>2, <3>1, <3>2, <3>3, <3>4 DEF SnapInv
  <2>3. CASE u.conv # c
    BY <2>1, <2>3 DEF SnapInv, Grows
  <2> QED
    BY <2>2, <2>3
<1>7. EndInv(b, u)'
  <2>1. u.pc \in ClosePcs => SessionIsOpen(u.id)'
    BY <1>3, <1>4 DEF PromptTask, EndInv, SessionIsOpen
  <2>2. ASSUME u.pc = "ending"
        PROVE  \/ Len(turns'[u.conv]) - sess'[u.id].from < FlushMin
               \/ Flushed(u.conv, sess[u.id].from, Len(turns[u.conv]))'
    <3>1. /\ turns'[u.conv] = turns[u.conv] /\ sess'[u.id] = sess[u.id]
      BY <1>3, <1>4, <2>2 DEF Grows, ClosePcs
    <3>2. \/ Len(turns[u.conv]) - sess[u.id].from < FlushMin
          \/ Flushed(u.conv, sess[u.id].from, Len(turns[u.conv]))
      BY <2>2 DEF PromptTask, EndInv
    <3> QED
      BY <3>1, <3>2 DEF Flushed
  <2> QED
    BY <2>1, <2>2 DEF EndInv, Flushed
<1> QED
  BY <1>2, <1>5, <1>6, <1>7 DEF PromptTask

(* Where task a may record a turn in room c: nobody is about to end its    *)
(* session; and what is said falls into an open one that nobody flushes.   *)
MayRecord(a, c, kind, covers) ==
    /\ \A b \in Actors : b # a => ~(act[b].pc = "ending" /\ act[b].conv = c)
    /\ kind \in Spoken =>
          /\ \E s \in DOMAIN sess : sess[s].conv = c /\ SessionIsOpen(s)
          /\ \A b \in Actors : b # a => ~Checks(b, c) /\ ~Closes(b, c)
    /\ kind = "flush" =>
          \A i \in covers + 1 .. Len(turns[c]) : turns[c][i].kind \notin Spoken

LEMMA TurnStep ==
  ASSUME SessionInv, UNCHANGED <<now, sess, live, activity, slow>>, UsedTyped(used'),
         NEW c \in Conversations, NEW kind \in Kinds, NEW covers \in Nat,
         Grows(c, kind, covers),
         NEW a \in Actors, NEW t \in Task, act' = [act EXCEPT ![a] = t],
         LockMove(a, t), TaskInv(a, t),
         t.pc = "checkFlush" => t.conv # a /\ act[t.conv].pc \notin Busy,
         t.pc \in Busy => \A b \in Actors : b # a => ~Checks(b, a),
         ~slow => /\ MayRecord(a, c, kind, covers)
                  /\ PromptTask(a, t)' /\ SweepInv' /\ AloneInv'
  PROVE  SessionInv'
<1>1. CoreInv /\ TypeOK /\ act \in [Actors -> Task]
  BY Types DEF SessionInv, CoreInv
<1>2. lock' \in [Conversations -> Seq(Actors)] /\ LockInv'
  BY <1>1, LockMoved
<1>3. act' \in [Actors -> Task] /\ act'[a] = t /\ \A b \in Actors : b # a => act'[b] = act[b]
  BY <1>1
<1>4. TypeOK'
  BY <1>1, <1>2, <1>3 DEF TypeOK, UsedTyped, Grows
<1>5. CoreInv'
  <2>1. TaskInv(a, act[a])'
    <3>1. TaskInv(a, t)'
      BY DEF TaskInv, PcInv, OnInv, MapInv, NoneOpen, SessionIsOpen
    <3> QED
      BY <1>3, <3>1 DEF TaskInv, PcInv, OnInv, MapInv, NoneOpen
  <2>2. \A d \in Conversations : Len(turns'[d]) >= Len(turns[d])
    <3>1. \A d \in Conversations : Len(turns[d]) \in Nat
      BY <1>1, RoomSeq, Types
    <3> QED
      BY <3>1 DEF Grows
  <2> QED
    BY <1>1, <1>2, <1>3, <1>4, <2>1, <2>2, CoreStep
<1>6. ASSUME ~slow PROVE PromptInv'
  <2>1. PromptInv /\ SessionsStay
    BY <1>6 DEF SessionInv, SessionsStay
  <2>2. WatermarkIsHonest' /\ NothingLost'
    BY <1>1, <1>6, <2>1, GrownLog DEF MayRecord
  <2>3. ClosedOnce'
    BY <2>1 DEF PromptInv, ClosedOnce
  <2>4. ASSUME NEW b \in Actors PROVE PromptTask(b, act[b])'
    <3>1. CASE b = a
      BY <1>3, <1>6, <3>1 DEF PromptTask, ClockInv, TurnInv, SnapInv, EndInv
    <3>2. CASE b # a
      <4>1. PICK u : u = act[b]
        OBVIOUS
      <4>2. u \in Task /\ TaskInv(b, u) /\ PromptTask(b, u) /\ act'[b] = u
        BY <1>1, <1>3, <2>1, <3>2, <4>1 DEF PromptInv, PromptTasks, CoreInv, TasksInv
      <4>3. /\ kind \in Spoken => ~(u.pc \in {"flush", "checkFlush"} /\ u.conv = c)
            /\ u.pc = "ending" => u.conv # c
        BY <1>6, <3>2, <4>1 DEF MayRecord, Checks, Closes, ClosePcs
      <4>4. PromptTask(b, u)'
        BY <1>1, <2>1, <4>2, <4>3, GrownTask
      <4> QED
        BY <4>2, <4>4 DEF PromptTask, ClockInv, TurnInv, SnapInv, EndInv
    <3> QED
      BY <3>1, <3>2
  <2> QED
    BY <1>6, <2>2, <2>3, <2>4 DEF PromptInv, PromptTasks
<1> QED
  BY <1>5, <1>6 DEF SessionInv

(* The turn of a room says something: its session is open, and nobody      *)
(* flushes or closes it.                                                   *)
Says(c, kind, n, pc) ==
    /\ UNCHANGED <<now, sess, live, activity, lock, used>>
    /\ turns' = Appended(c, kind, n)
    /\ act[c].pc \in {"run", "generate"}
    /\ act' = [act EXCEPT ![c].pc = pc]

LEMMA SayInv ==
  ASSUME SessionInv, slow' = slow, NEW c \in Conversations,
         NEW kind \in {"message", "reply"}, NEW n \in Nat,
         NEW pc \in {"generate", "replied"}, Says(c, kind, n, pc)
  PROVE  SessionInv'
<1>1. /\ CoreInv /\ c \in Actors /\ c # Sweeper /\ act \in [Actors -> Task]
      /\ act[c] \in Task /\ act[c].at \in Nat /\ TaskInv(c, act[c]) /\ now \in Nat
      /\ UsedTyped(used')
      /\ UNCHANGED <<now, sess, live, activity, lock, used>>
  BY Types, TaskTyped, Actor DEF SessionInv, Says
<1>2. PICK t : t = [act[c] EXCEPT !.pc = pc]
  OBVIOUS
<1>3. /\ t \in Task /\ t.pc = pc /\ t.id = act[c].id /\ t.at = act[c].at
      /\ t.todo = act[c].todo /\ act' = [act EXCEPT ![c] = t]
  BY <1>1, <1>2 DEF Task, Pcs, Says
<1>4. kind \in Kinds /\ kind \in Spoken /\ kind # "flush" /\ Grows(c, kind, n)
  BY <1>1, Grown DEF Kinds, Spoken, Says
<1>5. act[c].pc \in RunPcs /\ t.pc \in RunPcs /\ act[c].pc \in Busy /\ t.pc # "checkFlush"
      /\ ~Compacts(t) /\ t.pc # "lock"
  BY <1>3 DEF RunPcs, Busy, Compacts, ClosePcs, Says
<1>6. act[c].id \in DOMAIN sess /\ sess[act[c].id].conv = c
  BY <1>1, <1>5 DEF TaskInv, OnInv
<1>7. TaskInv(c, t)
  BY <1>1, <1>3, <1>5, <1>6, Actor DEF TaskInv, PcInv, OnInv, MapInv, ClosePcs, RunPcs
<1>8. LockMove(c, t)
  BY <1>1, <1>3, <1>5, OffQueue DEF LockMove, Stays, Nowhere, Queues
<1>9. \A b \in Actors : b # c => ~Checks(b, c)
  BY <1>1, <1>5 DEF CoreInv, CheckInv, Checks
<1>10. ASSUME ~slow
       PROVE  /\ PromptTask(c, t)' /\ SweepInv' /\ AloneInv'
              /\ \A b \in Actors : b # c => ~Closes(b, c)
              /\ SessionIsOpen(act[c].id)
  <2>1. PromptInv /\ PromptTask(c, act[c])
    BY <1>1, <1>10, TaskTyped
  <2>2. \A b \in Actors : b # c => ~Closes(b, c)
    BY <1>1, <1>5, <2>1, Closers DEF PromptInv, AloneInv, Closes
  <2>3. live[c] = act[c].id /\ SessionIsOpen(act[c].id) /\ activity[c] = act[c].at
    BY <1>5, <2>1 DEF PromptTask, TurnInv
  <2>4. PromptTask(c, t)'
    <3>1. ClockInv(c, t)'
      BY <1>1, <1>3, <1>5, <2>1 DEF PromptTask, ClockInv, RunPcs
    <3>2. TurnInv(c, t)'
      <4>1. Len(turns'[c]) > sess[t.id].from
        <5>1. sess[t.id].from \in Nat /\ sess[t.id].from <= Len(turns[c])
          BY <1>1, <1>3, <1>6, SessionTyped DEF CoreInv, LogInv
        <5> QED
          BY <1>4, <5>1 DEF Grows
      <4>2. turns'[c][Len(turns'[c])].at = now /\ now >= t.at
        BY <1>1, <1>3, <1>4, <2>1 DEF Grows, PromptTask, ClockInv
      <4> QED
        BY <1>1, <1>3, <2>3, <4>1, <4>2 DEF TurnInv, SessionIsOpen
    <3>3. SnapInv(c, t)' /\ EndInv(c, t)'
      BY <1>5 DEF SnapInv, EndInv, ClosePcs, RunPcs
    <3> QED
      BY <3>1, <3>2, <3>3 DEF PromptTask
  <2>5. ~Swept(c)
    BY <1>5, <2>1 DEF Swept, PromptInv, SweepInv
  <2>6. act' \in [Actors -> Task] /\ act'[c] = t /\ \A b \in Actors : b # c => act'[b] = act[b]
    BY <1>1, <1>3
  <2>7. SweepInv'
    <3>1. Shrinks(lock, lock')
      BY <1>1 DEF Shrinks
    <3>2. \A d \in Conversations : turns'[d] = turns[d] \/ live'[d] # 0 \/ d = c
      BY <1>4 DEF Grows
    <3> QED
      BY <1>1, <2>1, <2>5, <2>6, <3>1, <3>2, SweepStep DEF PromptInv
  <2>8. AloneInv'
    BY <1>1, <1>5, <2>1, <2>6, AloneStep DEF PromptInv
  <2> QED
    BY <2>2, <2>3, <2>4, <2>7, <2>8
<1>11. ~slow => MayRecord(c, c, kind, n)
  BY <1>4, <1>6, <1>9, <1>10 DEF MayRecord, Closes, ClosePcs
<1> QED
  BY <1>1, <1>3, <1>4, <1>5, <1>7, <1>8, <1>9, <1>10, <1>11, TurnStep

LEMMA RunInv ==
  ASSUME SessionInv, NEW c \in Conversations, RecordInbound(c) \/ Reply(c), slow' = slow
  PROVE  SessionInv'
BY SayInv DEF RecordInbound, Reply, map, Says

(* Nobody closes a session of a room whose map holds one. *)
LEMMA LiveNotClosing ==
  ASSUME CoreInv, PromptInv, NEW c \in Conversations, live[c] # 0, NEW b \in Actors
  PROVE  ~Closes(b, c)
<1> SUFFICES ASSUME Closes(b, c) PROVE FALSE
  OBVIOUS
<1>1. TaskInv(b, act[b]) /\ PromptTask(b, act[b]) /\ act[b].pc \in ClosePcs /\ act[b].conv = c
  BY DEF CoreInv, TasksInv, PromptInv, PromptTasks, Closes
<1>2. /\ act[b].id \in DOMAIN sess /\ sess[act[b].id].conv = c /\ live[c] # act[b].id
      /\ SessionIsOpen(act[b].id)
  BY <1>1 DEF TaskInv, OnInv, MapInv, PromptTask, EndInv
<1> QED
  BY <1>2, OpenIsLive

(* One task closes a session of a room. *)
LEMMA OneCloser ==
  ASSUME CoreInv, PromptInv, NEW c \in Conversations, NEW a \in Actors, NEW b \in Actors,
         Closes(a, c), Closes(b, c)
  PROVE  a = b
<1> SUFFICES ASSUME a # b PROVE FALSE
  OBVIOUS
<1>1. Closes(Sweeper, c) /\ Closes(c, c)
  BY Closers
<1> QED
  BY <1>1 DEF PromptInv, AloneInv, Closes, Busy

LEMMA NoteJoinInv ==
  ASSUME SessionInv, NEW c \in Conversations, NoteJoin(c), slow' = slow
  PROVE  SessionInv'
<1>1. PICK a, t, n : a = Checkpointer /\ t = act[a] /\ n = 0
  OBVIOUS
<1>2. /\ CoreInv /\ a \in Actors /\ a # Sweeper /\ a \notin Conversations /\ n \in Nat
      /\ t \in Task /\ TaskInv(a, t) /\ "system" \in Kinds /\ "system" \notin Spoken
      /\ act \in [Actors -> Task]
  BY <1>1, Actor, TaskTyped, Types DEF SessionInv, Kinds, Spoken
<1>3. /\ UNCHANGED <<now, sess, live, activity, lock, act>> /\ act' = [act EXCEPT ![a] = t]
      /\ live[c] # 0
  BY <1>1, <1>2 DEF NoteJoin, map
<1>4. Grows(c, "system", n)
  BY <1>1, <1>2, Grown DEF NoteJoin
<1>5. UsedTyped(used')
  BY <1>2, Types, Counted DEF NoteJoin
<1>6. LockMove(a, t)
  BY <1>1, <1>2, <1>3 DEF LockMove, Stays, CoreInv, LockInv, LockOK, Leads, Holds
<1>7. t.pc = "checkFlush" => t.conv # a /\ act[t.conv].pc \notin Busy
  BY <1>1, <1>2 DEF TaskInv, OnInv, CoreInv, CheckInv
<1>8. t.pc \notin Busy /\ t.pc # "ending"
  BY <1>1, <1>2 DEF TaskInv, PcInv, Busy, RunPcs, ClosePcs
<1>9. ASSUME ~slow
      PROVE  /\ MayRecord(a, c, "system", n)
             /\ PromptTask(a, t)' /\ SweepInv' /\ AloneInv'
  <2>1. PromptInv /\ PromptTask(a, t)
    BY <1>1, <1>2, <1>9, TaskTyped
  <2>2. MayRecord(a, c, "system", n)
    BY <1>2, <1>3, <2>1, LiveNotClosing DEF MayRecord, Closes, ClosePcs
  <2>3. PromptTask(a, t)'
    BY <1>2, <1>3, <1>4, <1>8, <2>1, GrownTask DEF SessionsStay
  <2>4. SweepInv'
    <3>1. Shrinks(lock, lock')
      BY <1>3 DEF Shrinks
    <3>2. \A d \in Conversations : turns'[d] = turns[d] \/ live'[d] # 0 \/ d = a
      BY <1>3, <1>4 DEF Grows
    <3> QED
      BY <1>2, <1>3, <2>1, <3>1, <3>2, SweepStep DEF PromptInv
  <2>5. AloneInv'
    BY <1>3, <2>1 DEF PromptInv, AloneInv
  <2> QED
    BY <2>2, <2>3, <2>4, <2>5
<1> QED
  BY <1>2, <1>3, <1>4, <1>5, <1>6, <1>7, <1>8, <1>9, TurnStep

(* The flush of a session being closed was given all that was said. *)
LEMMA CloseFlushDone ==
  ASSUME SessionInv, NEW a \in Actors, FlushDone(a), slow' = slow, act[a].pc = "flush"
  PROVE  SessionInv'
<1>1. PICK c, n, t : c = act[a].conv /\ n = act[a].snap /\ t = [act[a] EXCEPT !.pc = "ending"]
  OBVIOUS
<1>2. /\ CoreInv /\ act \in [Actors -> Task] /\ act[a] \in Task /\ TaskInv(a, act[a])
      /\ c \in Conversations /\ n \in Nat /\ "flush" \in Kinds /\ "flush" \notin Spoken
      /\ act[a].id \in DOMAIN sess /\ sess[act[a].id].conv = c /\ Closes(a, c)
      /\ act[a].at \in Nat /\ now \in Nat /\ UsedTyped(used')
  BY <1>1, TaskTyped, Types
     DEF SessionInv, Kinds, Spoken, TaskInv, OnInv, ClosePcs, Closes, FlushDone
<1>3. /\ t \in Task /\ t.pc = "ending" /\ t.conv = c /\ t.id = act[a].id /\ t.at = act[a].at
      /\ t.todo = act[a].todo /\ t.cause = act[a].cause
  BY <1>1, <1>2 DEF Task, Pcs
<1>4. /\ UNCHANGED <<now, sess, live, activity, lock>> /\ act' = [act EXCEPT ![a] = t]
  BY <1>1, <1>2 DEF FlushDone, map
<1>5. Grows(c, "flush", n)
  BY <1>1, <1>2, Grown DEF FlushDone
<1>6. TaskInv(a, t)
  BY <1>1, <1>2, <1>3 DEF TaskInv, PcInv, OnInv, MapInv, ClosePcs, RunPcs
<1>7. LockMove(a, t)
  <2>1. \A d \in Conversations :
           /\ Queues(a, t, d) <=> Queues(a, act[a], d)
           /\ Keeps(a, t, d) <=> Keeps(a, act[a], d)
    BY <1>1, <1>3 DEF Queues, Waits, Keeps, ClosePcs
  <2> QED
    BY <1>2, <1>4, <2>1 DEF LockMove, Stays, CoreInv, LockInv, LockOK, Leads, Holds
<1>8. t.pc # "checkFlush" /\ t.pc \in ClosePcs /\ t.pc \notin RunPcs /\ act[a].pc \in ClosePcs
  BY <1>3 DEF ClosePcs, RunPcs
<1>9. \A b \in Actors : b # a => ~Checks(b, a)
  BY <1>8, <1>2 DEF CoreInv, CheckInv, Checks, Busy
<1>10. act' \in [Actors -> Task] /\ act'[a] = t /\ \A b \in Actors : b # a => act'[b] = act[b]
  BY <1>2, <1>3, <1>4
<1>11. ASSUME ~slow
       PROVE  /\ MayRecord(a, c, "flush", n)
              /\ PromptTask(a, t)' /\ SweepInv' /\ AloneInv'
  <2>1. PromptInv /\ PromptTask(a, act[a])
    BY <1>2, <1>11, TaskTyped
  <2>2. MayRecord(a, c, "flush", n)
    <3>1. ASSUME NEW b \in Actors, b # a, Closes(b, c) PROVE FALSE
      BY <1>2, <2>1, <3>1, OneCloser
    <3>2. \A i \in n + 1 .. Len(turns[c]) : turns[c][i].kind \notin Spoken
      BY <1>1, <2>1 DEF PromptTask, SnapInv
    <3> QED
      BY <1>2, <3>1, <3>2 DEF MayRecord, Closes, ClosePcs
  <2>3. PromptTask(a, t)'
    <3>1. ClockInv(a, t)'
      BY <1>2, <1>3, <1>4, <2>1 DEF PromptTask, ClockInv
    <3>2. SnapInv(a, t)'
      BY <1>3 DEF SnapInv
    <3>3. TurnInv(a, t)'
      <4> SUFFICES ASSUME a \in Conversations, t.cause = "compaction"
          PROVE  Len(turns'[a]) > sess'[t.id].from /\ turns'[a][Len(turns'[a])].at >= t.at
        BY <1>3, <1>8 DEF TurnInv, RunPcs
      <4>1. a = c /\ Len(turns[a]) > sess[t.id].from
        BY <1>1, <1>2, <1>3, <1>8, <2>1 DEF TaskInv, PcInv, PromptTask, TurnInv
      <4>2. sess[t.id].from \in Nat /\ sess' = sess
        BY <1>2, <1>3, <1>4, SessionTyped DEF CoreInv
      <4>3. now >= t.at
        BY <1>2, <1>3, <2>1 DEF PromptTask, ClockInv
      <4>4. /\ Len(turns[a]) \in Nat /\ Len(turns'[a]) = Len(turns[a]) + 1
            /\ turns'[a][Len(turns'[a])].at = now
        BY <1>5, <4>1 DEF Grows
      <4> QED
        BY <4>1, <4>2, <4>3, <4>4
    <3>4. EndInv(a, t)'
      <4>1. SessionIsOpen(t.id)'
        BY <1>3, <1>4, <1>8, <2>1 DEF PromptTask, EndInv, SessionIsOpen
      <4>2. Flushed(t.conv, sess[t.id].from, Len(turns[t.conv]))'
        <5> SUFFICES ASSUME NEW i \in sess[t.id].from + 1 .. Len(turns'[c]),
                            turns'[c][i].kind \in Spoken
            PROVE  \E j \in i + 1 .. Len(turns'[c]) :
                      turns'[c][j].kind = "flush" /\ turns'[c][j].covers >= i
          BY <1>3, <1>4 DEF Flushed
        <5>1. /\ sess[t.id].from \in Nat
          BY <1>2, <1>3, SessionTyped DEF CoreInv
        <5>2. /\ n <= Len(turns[c])
              /\ \A k \in n + 1 .. Len(turns[c]) : turns[c][k].kind \notin Spoken
          BY <1>1, <2>1 DEF PromptTask, SnapInv
        <5>3. /\ Len(turns[c]) \in Nat /\ Len(turns'[c]) = Len(turns[c]) + 1
              /\ \A k \in 1 .. Len(turns[c]) : turns'[c][k] = turns[c][k]
              /\ turns'[c][Len(turns[c]) + 1].kind = "flush"
              /\ turns'[c][Len(turns[c]) + 1].covers = n
          BY <1>5 DEF Grows
        <5>4. i \in 1 .. Len(turns[c])
          BY <1>2, <5>1, <5>3
        <5>5. i <= n
          BY <1>2, <5>2, <5>3, <5>4
        <5>6. Len(turns[c]) + 1 \in i + 1 .. Len(turns'[c])
          BY <5>3, <5>4
        <5> QED
          BY <5>3, <5>5, <5>6
      <4> QED
        BY <4>1, <4>2 DEF EndInv
    <3> QED
      BY <3>1, <3>2, <3>3, <3>4 DEF PromptTask
  <2>4. SweepInv'
    <3>1. CASE a = Sweeper
      BY <1>3, <1>10, <3>1 DEF SweepInv
    <3>2. CASE a # Sweeper
      <4>1. a = c
        BY <1>2, <3>2, Closers
      <4>2. Shrinks(lock, lock')
        BY <1>4 DEF Shrinks
      <4>3. \A d \in Conversations : turns'[d] = turns[d] \/ live'[d] # 0 \/ d = a
        BY <1>5, <4>1 DEF Grows
      <4>4. Swept(a) => ~Compacts(t)
        BY <1>3, <1>8, <2>1 DEF Swept, PromptInv, SweepInv, Compacts
      <4>5. t.pc # "lock"
        BY <1>3
      <4> QED
        BY <1>2, <1>4, <1>8, <1>10, <2>1, <3>2, <4>2, <4>3, <4>4, <4>5, SweepStep DEF PromptInv
    <3> QED
      BY <3>1, <3>2
  <2>5. AloneInv'
    <3>1. CASE a = Sweeper
      <4>1. act[c].pc \notin Busy /\ act'[c] = act[c]
        BY <1>1, <1>2, <1>8, <1>10, <2>1, <3>1, Actor DEF PromptInv, AloneInv
      <4> QED
        BY <1>3, <1>10, <3>1, <4>1 DEF AloneInv
    <3>2. CASE a # Sweeper
      BY <1>2, <1>8, <1>10, <2>1, <3>2, AloneStep DEF PromptInv, Busy
    <3> QED
      BY <3>1, <3>2
  <2> QED
    BY <2>2, <2>3, <2>4, <2>5
<1> QED
  BY <1>2, <1>3, <1>4, <1>5, <1>6, <1>7, <1>8, <1>9, <1>11, TurnStep

LEMMA CheckFlushDone ==
  ASSUME SessionInv, NEW a \in Actors, FlushDone(a), slow' = slow, act[a].pc = "checkFlush"
  PROVE  SessionInv'
<1>1. PICK c, n, t :
         /\ c = act[a].conv /\ n = act[a].snap
         /\ t = [act[a] EXCEPT !.pc = "check", !.conv = None, !.id = 0, !.snap = 0]
  OBVIOUS
<1>2. /\ CoreInv /\ act \in [Actors -> Task] /\ act[a] \in Task /\ TaskInv(a, act[a])
      /\ c \in Conversations /\ n \in Nat /\ "flush" \in Kinds /\ "flush" \notin Spoken
      /\ act[a].id \in DOMAIN sess /\ live[c] = act[a].id /\ live[c] # 0
      /\ act[a].at \in Nat /\ now \in Nat /\ UsedTyped(used') /\ a # Sweeper
  <2>1. /\ CoreInv /\ act \in [Actors -> Task] /\ act[a] \in Task /\ TaskInv(a, act[a])
        /\ n \in Nat /\ act[a].at \in Nat /\ now \in Nat /\ UsedTyped(used')
    BY <1>1, TaskTyped, Types DEF SessionInv, FlushDone
  <2>2. /\ c \in Conversations /\ act[a].id \in DOMAIN sess /\ live[c] = act[a].id /\ a # Sweeper
    BY <1>1, <2>1 DEF TaskInv, PcInv, OnInv, MapInv
  <2>3. act[a].id # 0
    BY <2>1, <2>2, SessionTyped DEF CoreInv
  <2> QED
    BY <2>1, <2>2, <2>3 DEF Kinds, Spoken
<1>3. /\ t \in Task /\ t.pc = "check" /\ t.at = act[a].at /\ t.todo = act[a].todo
  BY <1>1, <1>2 DEF Task, Pcs
<1>4. /\ UNCHANGED <<now, sess, live, activity>> /\ act' = [act EXCEPT ![a] = t]
      /\ lock' = Released(a)
  BY <1>1, <1>2 DEF FlushDone, map
<1>5. Grows(c, "flush", n)
  BY <1>1, <1>2, Grown DEF FlushDone
<1>6. TaskInv(a, t)
  BY <1>2, <1>3, Quiet DEF TaskInv, PcInv, OnInv, ClosePcs, RunPcs
<1>7. LockMove(a, t)
  <2>1. \A d \in Conversations : Queues(a, act[a], d) => Keeps(a, act[a], d)
    BY DEF Queues, Waits
  <2>2. MayLeave(a)
    BY <1>2, <2>1 DEF MayLeave, CoreInv, LockInv, LockOK, Leads, Holds
  <2>3. Nowhere(a, t)
    BY <1>3, OffQueue
  <2> QED
    BY <1>4, <2>2, <2>3 DEF LockMove
<1>8. t.pc # "checkFlush" /\ t.pc \notin Busy /\ t.pc \notin RunPcs /\ ~Compacts(t) /\ t.pc # "lock"
  BY <1>3, Quiet
<1>9. act' \in [Actors -> Task] /\ act'[a] = t /\ \A b \in Actors : b # a => act'[b] = act[b]
  BY <1>2, <1>3, <1>4
<1>10. ASSUME ~slow
       PROVE  /\ MayRecord(a, c, "flush", n)
              /\ PromptTask(a, t)' /\ SweepInv' /\ AloneInv'
  <2>1. PromptInv /\ PromptTask(a, act[a])
    BY <1>2, <1>10, TaskTyped
  <2>2. MayRecord(a, c, "flush", n)
    BY <1>1, <1>2, <2>1, LiveNotClosing DEF MayRecord, Closes, ClosePcs, PromptTask, SnapInv
  <2>3. PromptTask(a, t)'
    <3>1. ClockInv(a, t)'
      BY <1>3, <1>4, <2>1 DEF PromptTask, ClockInv
    <3> QED
      BY <1>3, <3>1 DEF PromptTask, TurnInv, SnapInv, EndInv, ClosePcs, RunPcs
  <2>4. SweepInv'
    <3>1. Shrinks(lock, lock')
      BY <1>2, <1>3, <1>4, <1>7, LockMoved
    <3>2. \A d \in Conversations : turns'[d] = turns[d] \/ live'[d] # 0 \/ d = a
      BY <1>2, <1>4, <1>5 DEF Grows
    <3> QED
      BY <1>2, <1>4, <1>8, <1>9, <2>1, <3>1, <3>2, SweepStep DEF PromptInv
  <2>5. AloneInv'
    BY <1>2, <1>8, <1>9, <2>1, AloneStep DEF PromptInv
  <2> QED
    BY <2>2, <2>3, <2>4, <2>5
<1> QED
  BY <1>2, <1>3, <1>4, <1>5, <1>6, <1>7, <1>8, <1>10, TurnStep

LEMMA FlushDoneInv ==
  ASSUME SessionInv, NEW a \in Actors, FlushDone(a), slow' = slow
  PROVE  SessionInv'
BY CloseFlushDone, CheckFlushDone DEF FlushDone

-----------------------------------------------------------------------------
(* Steps that end or start a session.                                      *)

(* SessionEnded: the sessions keep all but their end. *)
Ends(s) ==
    /\ DOMAIN sess' = DOMAIN sess
    /\ sess' \in Seq(Session) /\ Len(sess') = Len(sess)
    /\ \A r \in DOMAIN sess :
          /\ sess'[r].conv = sess[r].conv /\ sess'[r].from = sess[r].from
          /\ sess'[r].at = sess[r].at
          /\ r # s => sess'[r] = sess[r]
    /\ sess'[s].ends = sess[s].ends + 1
    /\ sess'[s].to = Len(turns[sess[s].conv])

LEMMA Ended ==
  ASSUME CoreInv, NEW a \in Actors, End(a)
  PROVE  /\ Ends(act[a].id) /\ act[a].id \in DOMAIN sess /\ act[a].conv \in Conversations
         /\ sess[act[a].id].conv = act[a].conv /\ live[act[a].conv] # act[a].id
<1>1. PICK s, c : s = act[a].id /\ c = act[a].conv
  OBVIOUS
<1>2. s \in DOMAIN sess /\ c \in Conversations /\ sess[s].conv = c /\ live[c] # s
  BY <1>1 DEF CoreInv, TasksInv, TaskInv, OnInv, MapInv, End, ClosePcs
<1>3. sess \in Seq(Session) /\ sess[s] \in Session /\ Len(turns[c]) \in Nat /\ sess[s].ends \in Nat
  BY <1>2, Types, RoomSeq, SessionTyped DEF CoreInv
<1>4. PICK e : e = [sess[s] EXCEPT !.ends = sess[s].ends + 1, !.to = Len(turns[c])]
  OBVIOUS
<1>5. /\ e \in Session /\ e.conv = sess[s].conv /\ e.from = sess[s].from /\ e.at = sess[s].at
      /\ e.ends = sess[s].ends + 1 /\ e.to = Len(turns[c])
  <2>1. sess[s].ends + 1 \in Nat
    BY <1>3
  <2> QED
    BY <1>3, <1>4, <2>1 DEF Session
<1>6. sess' = [sess EXCEPT ![s] = e]
  BY <1>1, <1>2, <1>3, <1>4 DEF End
<1>7. /\ sess' \in Seq(Session) /\ Len(sess') = Len(sess) /\ DOMAIN sess' = DOMAIN sess
      /\ sess'[s] = e /\ \A r \in DOMAIN sess : r # s => sess'[r] = sess[r]
  <2>1. s \in 1 .. Len(sess) /\ DOMAIN sess = 1 .. Len(sess)
    BY <1>2, <1>3
  <2> QED
    BY <1>3, <1>5, <1>6, <2>1, ExceptSeq
<1>8. /\ Ends(s) /\ s \in DOMAIN sess /\ c \in Conversations
      /\ sess[s].conv = c /\ live[c] # s
  BY <1>2, <1>5, <1>7 DEF Ends
<1> QED
  BY <1>1, <1>8

(* The task of a goes on once its session has ended. *)
LEMMA EndedTask ==
  ASSUME SessionInv, NEW a \in Actors, End(a)
  PROVE  \E t \in Task :
            /\ act' = [act EXCEPT ![a] = t] /\ LockMove(a, t)
            /\ PcInv(a, t) /\ OnInv(a, t)
            /\ t.pc \in {"sweep", "idle", "open"} /\ t.at \in {0, act[a].at}
            /\ a = Sweeper => t.pc = "sweep"
            /\ a # Sweeper => t.pc # "sweep" /\ a = act[a].conv
            /\ t.pc = "open" => t.at = act[a].at /\ act[a].cause # "compaction"
<1>1. /\ CoreInv /\ act \in [Actors -> Task] /\ act[a] \in Task /\ act[a].at \in Nat
      /\ act[a].pc = "ending" /\ TaskInv(a, act[a])
  BY TaskTyped, Types DEF SessionInv, End
<1>2. \A d \in Conversations :
         /\ Queues(a, act[a], d) <=> Keeps(a, act[a], d)
         /\ Queues(a, act[a], d) => Holds(a, d)
  BY <1>1 DEF Queues, Waits, CoreInv, LockInv, LockOK, Leads, Holds
<1>3. CASE a = Sweeper
  <2>1. PICK t : t = [act[a] EXCEPT !.pc = "sweep", !.conv = None, !.id = 0,
                                    !.snap = 0, !.cause = "none"]
    OBVIOUS
  <2>2. t \in Task /\ t.pc = "sweep" /\ t.at = act[a].at /\ t.todo = act[a].todo
    BY <1>1, <2>1 DEF Task, Pcs, Causes
  <2>3. act' = [act EXCEPT ![a] = t] /\ lock' = Released(a)
    BY <1>1, <1>3, <2>1 DEF End
  <2>4. PcInv(a, t) /\ OnInv(a, t)
    BY <1>1, <1>3, <2>2, Actor DEF TaskInv, PcInv, OnInv, ClosePcs, RunPcs
  <2>5. LockMove(a, t)
    BY <1>2, <2>2, <2>3, OffQueue DEF LockMove, MayLeave
  <2> QED
    BY <1>3, <2>2, <2>3, <2>4, <2>5
<1>4. CASE a # Sweeper
  <2>1. a \in Conversations /\ act[a].conv = a
    BY <1>1, <1>4 DEF TaskInv, PcInv, ClosePcs, Actors
  <2>2. CASE act[a].cause = "compaction"
    <3>1. act' = [act EXCEPT ![a] = Idle] /\ lock' = lock
      BY <1>1, <1>4, <2>2 DEF End
    <3>2. Nowhere(a, Idle) /\ Nowhere(a, act[a])
      BY <1>1, <2>1, <2>2, OffQueue, IdleTask DEF Compacts, ClosePcs
    <3>3. LockMove(a, Idle)
      BY <3>1, <3>2 DEF LockMove, Stays, Nowhere, Queues
    <3>4. PcInv(a, Idle) /\ OnInv(a, Idle)
      BY IdleTask DEF PcInv, OnInv, ClosePcs, RunPcs
    <3> QED
      BY <1>4, <2>1, <3>1, <3>3, <3>4, IdleTask
  <2>3. CASE act[a].cause # "compaction"
    <3>1. PICK t : t = [Idle EXCEPT !.pc = "open", !.at = act[a].at]
      OBVIOUS
    <3>2. t \in Task /\ t.pc = "open" /\ t.at = act[a].at /\ t.todo = {}
      BY <1>1, <3>1 DEF Idle, Task, Pcs, Causes
    <3>3. act' = [act EXCEPT ![a] = t] /\ lock' = lock
      BY <1>1, <1>4, <2>3, <3>1 DEF End
    <3>4. PcInv(a, t) /\ OnInv(a, t)
      BY <2>1, <3>2, Actor DEF PcInv, OnInv, ClosePcs, RunPcs
    <3>5. LockMove(a, t)
      <4>1. \A d \in Conversations :
               /\ Queues(a, t, d) <=> Queues(a, act[a], d)
               /\ Keeps(a, t, d) => Queues(a, act[a], d)
        BY <1>1, <1>4, <2>1, <2>3, <3>2, Actor DEF Queues, Waits, Keeps, ClosePcs
      <4> QED
        BY <1>2, <3>3, <4>1 DEF LockMove, Stays
    <3> QED
      BY <1>4, <2>1, <2>3, <3>2, <3>3, <3>4, <3>5
  <2> QED
    BY <2>2, <2>3
<1> QED
  BY <1>3, <1>4

LEMMA EndedCore ==
  ASSUME SessionInv, NEW a \in Actors, End(a), slow' = slow
  PROVE  CoreInv'
<1>1. PICK t \in Task :
            /\ act' = [act EXCEPT ![a] = t] /\ LockMove(a, t)
            /\ PcInv(a, t) /\ OnInv(a, t)
            /\ t.pc \in {"sweep", "idle", "open"} /\ t.at \in {0, act[a].at}
            /\ a = Sweeper => t.pc = "sweep"
            /\ a # Sweeper => t.pc # "sweep" /\ a = act[a].conv
            /\ t.pc = "open" => t.at = act[a].at /\ act[a].cause # "compaction"
  BY EndedTask
<1>2. PICK s, c : s = act[a].id /\ c = act[a].conv
  OBVIOUS
<1>3. /\ CoreInv /\ Ends(s) /\ s \in DOMAIN sess /\ c \in Conversations
      /\ sess[s].conv = c /\ live[c] # s /\ Closes(a, c) /\ act[a].pc = "ending"
  BY <1>2, Ended DEF SessionInv, Closes, ClosePcs, End
<1>4. act' \in [Actors -> Task] /\ act'[a] = t /\ \A b \in Actors : b # a => act'[b] = act[b]
  BY <1>1, <1>3, Types
<1>5. \A r \in DOMAIN sess : SessionIsOpen(r)' <=> SessionIsOpen(r) /\ r # s
  BY <1>3, SessionTyped DEF Ends, SessionIsOpen, CoreInv
<1>6. LockInv' /\ lock' \in [Conversations -> Seq(Actors)]
  BY <1>1, <1>3, LockMoved
<1>7. UNCHANGED <<now, turns, live, activity, used>>
  BY DEF End, map
<1>8. TypeOK'
  BY <1>3, <1>4, <1>6, <1>7 DEF CoreInv, TypeOK, Ends
<1>9. TasksInv'
  <2> SUFFICES ASSUME NEW b \in Actors PROVE TaskInv(b, act[b])'
    BY DEF TasksInv
  <2>1. CASE b = a
    <3>1. OnInv(a, t)'
      BY <1>1, <1>3 DEF OnInv, Ends
    <3>2. MapInv(a, t)'
      <4> SUFFICES ASSUME t.pc = "open" PROVE live[a] = 0 /\ NoneOpen(a)'
        BY <1>1, <1>7 DEF MapInv, ClosePcs
      <4>1. a = c /\ SessionIsOpen(s)
        BY <1>1, <1>2, <1>3 DEF CoreInv, TasksInv, TaskInv, MapInv, ClosePcs
      <4>2. live[a] = 0
        BY <1>3, <4>1, OpenIsLive
      <4>3. NoneOpen(a)'
        BY <1>3, <1>5, <4>1 DEF NoneOpen, Ends, CoreInv, OneOpen
      <4> QED
        BY <4>2, <4>3
    <3> QED
      BY <1>1, <1>4, <2>1, <3>1, <3>2 DEF TaskInv, PcInv, OnInv, MapInv, NoneOpen
  <2>2. CASE b # a
    <3>1. PICK u : u = act[b]
      OBVIOUS
    <3>2. act'[b] = u /\ TaskInv(b, u)
      BY <1>3, <1>4, <2>2, <3>1 DEF CoreInv, TasksInv
    <3>3. OnInv(b, u)' /\ PcInv(b, u)
      BY <1>3, <3>2 DEF TaskInv, OnInv, Ends
    <3>4. ASSUME b \in Conversations, u.pc \in ClosePcs, u.cause # "compaction"
          PROVE  SessionIsOpen(u.id)'
      <4>1. u.id \in DOMAIN sess /\ sess[u.id].conv = b /\ SessionIsOpen(u.id)
        BY <3>2, <3>4 DEF TaskInv, PcInv, OnInv, MapInv
      <4>2. ~Closes(a, b)
        BY <1>3, <2>2, <3>1, <3>4, RoomAlone DEF Keeps
      <4> QED
        BY <1>3, <1>5, <4>1, <4>2
    <3>5. NoneOpen(b) => NoneOpen(b)'
      BY <1>3, <1>5 DEF NoneOpen, Ends
    <3>6. MapInv(b, u)'
      BY <1>7, <3>2, <3>4, <3>5 DEF TaskInv, MapInv
    <3> QED
      BY <3>2, <3>3, <3>6 DEF TaskInv, PcInv, OnInv, MapInv, NoneOpen
  <2> QED
    BY <2>1, <2>2
<1>10. OneOpen'
  BY <1>3, <1>5 DEF CoreInv, OneOpen, Ends
<1>11. LiveSessionIsOpen'
  <2> SUFFICES ASSUME NEW d \in Conversations, live[d] # 0
      PROVE  live[d] \in DOMAIN sess /\ sess'[live[d]].conv = d /\ SessionIsOpen(live[d])'
    BY <1>3, <1>7 DEF LiveSessionIsOpen, OpenSessions, SessionsOf, Ends
  <2>1. live[d] \in DOMAIN sess /\ sess[live[d]].conv = d /\ SessionIsOpen(live[d])
    BY <1>3 DEF CoreInv, LiveSessionIsOpen, OpenSessions, SessionsOf
  <2>2. live[d] # s
    BY <1>3, <2>1
  <2>3. PICK r : r = live[d]
    OBVIOUS
  <2>4. SessionIsOpen(r)' /\ sess'[r].conv = d
    BY <1>3, <1>5, <2>1, <2>2, <2>3 DEF Ends
  <2> QED
    BY <1>7, <2>1, <2>3, <2>4 DEF SessionIsOpen
<1>12. CheckInv'
  <2> SUFFICES ASSUME NEW b \in Actors, act'[b].pc = "checkFlush"
      PROVE  act'[act'[b].conv].pc \notin Busy
    BY DEF CheckInv
  <2>1. b # a /\ act'[b] = act[b] /\ act[b].conv \in Actors /\ act[act[b].conv].pc \notin Busy
    BY <1>1, <1>3, <1>4, Actor DEF CoreInv, CheckInv, TasksInv, TaskInv, OnInv
  <2>2. act[b].conv # a
    BY <1>3, <2>1 DEF Busy, ClosePcs
  <2> QED
    BY <1>4, <2>1, <2>2
<1>13. LogInv'
  <2> SUFFICES ASSUME NEW r \in DOMAIN sess
      PROVE  sess'[r].from <= Len(turns[sess[r].conv]) /\ sess'[r].to <= Len(turns[sess[r].conv])
    BY <1>3, <1>7 DEF LogInv, Ends
  <2>1. sess[r].from <= Len(turns[sess[r].conv]) /\ sess[r].to <= Len(turns[sess[r].conv])
    BY <1>3 DEF CoreInv, LogInv
  <2>2. Len(turns[c]) \in Nat
    BY <1>3, RoomSeq, Types
  <2>3. CASE r = s
    BY <1>3, <2>1, <2>2, <2>3 DEF Ends
  <2>4. CASE r # s
    BY <1>3, <2>1, <2>4 DEF Ends
  <2> QED
    BY <2>3, <2>4
<1> QED
  BY <1>6, <1>8, <1>9, <1>10, <1>11, <1>12, <1>13 DEF CoreInv

LEMMA EndedPrompt ==
  ASSUME SessionInv, NEW a \in Actors, End(a), slow' = slow, ~slow
  PROVE  PromptInv'
<1>1. PICK t \in Task :
            /\ act' = [act EXCEPT ![a] = t] /\ LockMove(a, t)
            /\ PcInv(a, t) /\ OnInv(a, t)
            /\ t.pc \in {"sweep", "idle", "open"} /\ t.at \in {0, act[a].at}
            /\ a = Sweeper => t.pc = "sweep"
            /\ a # Sweeper => t.pc # "sweep" /\ a = act[a].conv
            /\ t.pc = "open" => t.at = act[a].at /\ act[a].cause # "compaction"
  BY EndedTask
<1>2. PICK s, c : s = act[a].id /\ c = act[a].conv
  OBVIOUS
<1>3. /\ CoreInv /\ Ends(s) /\ s \in DOMAIN sess /\ c \in Conversations
      /\ sess[s].conv = c /\ live[c] # s /\ Closes(a, c) /\ act[a].pc = "ending"
  BY <1>2, Ended DEF SessionInv, Closes, ClosePcs, End
<1>4. act' \in [Actors -> Task] /\ act'[a] = t /\ \A b \in Actors : b # a => act'[b] = act[b]
  BY <1>1, <1>3, Types
<1>5. \A r \in DOMAIN sess : SessionIsOpen(r)' <=> SessionIsOpen(r) /\ r # s
  BY <1>3, SessionTyped DEF Ends, SessionIsOpen, CoreInv
<1>6. a # Sweeper => Shrinks(lock, lock')
  BY <1>1, <1>3, LockMoved
<1>7. UNCHANGED <<now, turns, live, activity>>
  BY DEF End, map
<1>8. /\ PromptInv /\ PromptTask(a, act[a]) /\ SessionIsOpen(s)
      /\ act[a].at \in Nat /\ now \in Nat /\ Gap \in Nat
  <2>1. PromptInv /\ PromptTask(a, act[a]) /\ act[a].at \in Nat /\ now \in Nat
    BY <1>3, TaskTyped, Types
  <2> QED
    BY <1>2, <1>3, <2>1, BoundsAssumption DEF PromptTask, EndInv, ClosePcs
<1>9. ASSUME NEW b \in Actors PROVE PromptTask(b, act[b])'
  <2>1. CASE b = a
    <3>1. ClockInv(a, t)'
      BY <1>1, <1>3, <1>7, <1>8, Actor DEF PromptTask, ClockInv
    <3>2. TurnInv(a, t)' /\ SnapInv(a, t)' /\ EndInv(a, t)'
      BY <1>1 DEF TurnInv, SnapInv, EndInv, RunPcs, ClosePcs
    <3> QED
      BY <1>4, <2>1, <3>1, <3>2 DEF PromptTask, ClockInv, TurnInv, SnapInv, EndInv
  <2>2. CASE b # a
    <3>1. PICK u : u = act[b]
      OBVIOUS
    <3>2. act'[b] = u /\ u \in Task /\ TaskInv(b, u) /\ PromptTask(b, u)
      BY <1>3, <1>4, <1>8, <2>2, <3>1, Types DEF CoreInv, TasksInv, PromptInv, PromptTasks
    <3>3. ClockInv(b, u)' /\ SnapInv(b, u)'
      BY <1>7, <3>2 DEF PromptTask, ClockInv, SnapInv
    <3>4. /\ u.pc \in ClosePcs => u.id \in DOMAIN sess /\ sess[u.id].conv = u.conv /\ u.id # s
          /\ u.pc \in RunPcs /\ b \in Conversations =>
                u.id \in DOMAIN sess /\ sess[u.id].conv = b /\ u.id # s
      <4>1. u.pc \in ClosePcs => u.id \in DOMAIN sess /\ sess[u.id].conv = u.conv
        BY <3>2 DEF TaskInv, OnInv
      <4>2. u.pc \in ClosePcs => u.conv # c
        BY <1>3, <1>8, <2>2, <3>1, OneCloser DEF Closes
      <4>3. u.pc \in RunPcs /\ b \in Conversations =>
               u.id \in DOMAIN sess /\ sess[u.id].conv = b /\ live[b] = u.id
        BY <3>2 DEF TaskInv, OnInv, PromptTask, TurnInv
      <4> QED
        BY <1>3, <4>1, <4>2, <4>3
    <3>5. TurnInv(b, u)'
      <4> SUFFICES ASSUME b \in Conversations PROVE TurnInv(b, u)'
        BY DEF TurnInv
      <4>1. TurnInv(b, u)
        BY <3>2 DEF PromptTask
      <4>2. u.pc \in RunPcs => live'[b] = u.id /\ SessionIsOpen(u.id)' /\ activity'[b] = u.at
        BY <1>5, <1>7, <3>4, <4>1 DEF TurnInv
      <4>3. u.pc \in RunPcs \cup ClosePcs => sess'[u.id].from = sess[u.id].from
        BY <1>3, <3>4 DEF Ends
      <4>4. u.pc \in {"generate", "replied"} => u.pc \in RunPcs
        BY DEF RunPcs
      <4> QED
        BY <1>7, <4>1, <4>2, <4>3, <4>4 DEF TurnInv
    <3>6. EndInv(b, u)'
      <4>1. u.pc \in ClosePcs => SessionIsOpen(u.id)' /\ sess'[u.id].from = sess[u.id].from
        BY <1>3, <1>5, <3>2, <3>4 DEF PromptTask, EndInv, Ends
      <4>2. ASSUME u.pc = "ending"
            PROVE  \/ Len(turns'[u.conv]) - sess'[u.id].from < FlushMin
                   \/ Flushed(u.conv, sess[u.id].from, Len(turns[u.conv]))'
        <5>1. \/ Len(turns[u.conv]) - sess[u.id].from < FlushMin
              \/ Flushed(u.conv, sess[u.id].from, Len(turns[u.conv]))
          BY <3>2, <4>2 DEF PromptTask, EndInv
        <5>2. sess'[u.id].from = sess[u.id].from
          BY <4>1, <4>2 DEF ClosePcs
        <5> QED
          BY <1>7, <5>1, <5>2 DEF Flushed
      <4> QED
        BY <4>1, <4>2 DEF EndInv, Flushed
    <3> QED
      BY <3>2, <3>3, <3>5, <3>6 DEF PromptTask, ClockInv, TurnInv, SnapInv, EndInv
  <2> QED
    BY <2>1, <2>2
<1>10. SweepInv'
  <2>1. CASE a = Sweeper
    BY <1>1, <1>4, <2>1 DEF SweepInv
  <2>2. CASE a # Sweeper
    <3>1. a = c /\ act'[Sweeper] = act[Sweeper]
      BY <1>1, <1>2, <1>4, <2>2, Actor
    <3>2. PICK d, r, at : d = act[Sweeper].conv /\ r = act[Sweeper].id /\ at = act[Sweeper].at
      OBVIOUS
    <3> SUFFICES ASSUME act[Sweeper].pc = "sweepLock", SessionIsOpen(r)'
        PROVE  /\ act'[d].pc \notin RunPcs
               /\ ~(act'[d].pc \in ClosePcs /\ act'[d].cause = "compaction")
               /\ live'[d] # 0 => Lapsed(at, activity'[d])
               /\ live'[d] = 0 /\ act'[d].pc = "lock" /\ Ahead(lock'[d], d, Sweeper) =>
                     Lapsed(at, LogActivity(r)')
      BY <3>1, <3>2 DEF SweepInv, Lapsed
    <3>3. d \in Conversations /\ r \in DOMAIN sess /\ sess[r].conv = d
      BY <1>3, <3>2, Actor DEF CoreInv, TasksInv, TaskInv, OnInv
    <3>4. SessionIsOpen(r) /\ r # s
      BY <1>5, <3>3
    <3>5. d # c /\ act'[d] = act[d]
      BY <1>3, <1>4, <1>8, <3>1, <3>3, <3>4, Actor DEF CoreInv, OneOpen
    <3>6. /\ act[d].pc \notin RunPcs
          /\ ~(act[d].pc \in ClosePcs /\ act[d].cause = "compaction")
          /\ live[d] # 0 => Lapsed(at, activity[d])
          /\ live[d] = 0 /\ act[d].pc = "lock" /\ Ahead(lock[d], d, Sweeper) =>
                Lapsed(at, LogActivity(r))
      BY <1>8, <3>2, <3>4 DEF PromptInv, SweepInv
    <3>7. LogActivity(r)' = LogActivity(r)
      BY <1>3, <1>7, <3>3, <3>4 DEF LogActivity, Ends
    <3> QED
      BY <1>6, <1>7, <2>2, <3>3, <3>5, <3>6, <3>7 DEF Shrinks
  <2> QED
    BY <2>1, <2>2
<1>11. AloneInv'
  <2>1. CASE a = Sweeper
    BY <1>1, <1>4, <2>1 DEF AloneInv, ClosePcs
  <2>2. CASE a # Sweeper
    BY <1>3, <1>4, <1>8, <2>2, AloneStep DEF PromptInv, Busy, ClosePcs
  <2> QED
    BY <2>1, <2>2
<1>12. ClosedOnce'
  <2> SUFFICES ASSUME NEW r \in DOMAIN sess PROVE sess'[r].ends <= 1
    BY <1>3 DEF ClosedOnce, Ends
  <2>1. sess[r].ends <= 1
    BY <1>8 DEF PromptInv, ClosedOnce
  <2>2. sess[s].ends = 0
    BY <1>8 DEF SessionIsOpen
  <2> QED
    BY <1>3, <2>1, <2>2 DEF Ends
<1>13. WatermarkIsHonest'
  BY <1>7, <1>8 DEF PromptInv, WatermarkIsHonest
<1>14. NothingLost'
  <2> SUFFICES ASSUME NEW d \in Conversations, NEW i \in DOMAIN turns[d],
                      turns[d][i].kind \in Spoken
      PROVE  \E r \in SessionsOf(d)' :
                /\ sess'[r].from < i
                /\ ~(SessionIsOpen(r)') =>
                    /\ i <= sess'[r].to
                    /\ sess'[r].to - sess'[r].from >= FlushMin => Covered(d, r, i)'
    BY <1>7 DEF NothingLost, Spoken
  <2>1. PICK r \in SessionsOf(d) :
                /\ sess[r].from < i
                /\ ~SessionIsOpen(r) =>
                    /\ i <= sess[r].to
                    /\ sess[r].to - sess[r].from >= FlushMin => Covered(d, r, i)
    BY <1>8 DEF PromptInv, NothingLost, Spoken
  <2>2. r \in DOMAIN sess /\ sess[r].conv = d /\ r \in SessionsOf(d)' /\ sess'[r].from = sess[r].from
    BY <1>3 DEF SessionsOf, Ends
  <2>3. CASE r # s
    <3>1. sess'[r] = sess[r] /\ (SessionIsOpen(r)' <=> SessionIsOpen(r))
      BY <1>3, <1>5, <2>2, <2>3 DEF Ends
    <3>2. Covered(d, r, i)' <=> Covered(d, r, i)
      BY <1>7, <3>1 DEF Covered
    <3> QED
      BY <2>1, <2>2, <3>1, <3>2
  <2>4. CASE r = s
    <3>1. /\ d = c /\ sess'[r].to = Len(turns[d])
          /\ sess[r].from \in Nat /\ DOMAIN turns[d] = 1 .. Len(turns[d]) /\ Len(turns[d]) \in Nat
      BY <1>3, <2>2, <2>4, SessionTyped, RoomSeq, Types DEF Ends, CoreInv
    <3>2. i <= sess'[r].to /\ i \in sess[r].from + 1 .. Len(turns[d])
      BY <2>1, <3>1
    <3>3. \/ Len(turns[d]) - sess[r].from < FlushMin
          \/ Flushed(d, sess[r].from, Len(turns[d]))
      BY <1>2, <1>3, <1>8, <2>4, <3>1 DEF PromptTask, EndInv
    <3>4. Flushed(d, sess[r].from, Len(turns[d])) => Covered(d, r, i)'
      <4>1. Flushed(d, sess[r].from, Len(turns[d])) =>
              \E j \in i + 1 .. Len(turns[d]) :
                 turns[d][j].kind = "flush" /\ turns[d][j].covers >= i
        BY <3>2 DEF Flushed
      <4> QED
        BY <1>7, <3>1, <4>1 DEF Covered
    <3>5. FlushMin \in Nat
      BY BoundsAssumption
    <3>6. sess'[r].to - sess'[r].from >= FlushMin => ~(Len(turns[d]) - sess[r].from < FlushMin)
      BY <2>2, <3>1, <3>5
    <3> QED
      BY <2>1, <2>2, <3>2, <3>3, <3>4, <3>6
  <2> QED
    BY <2>3, <2>4
<1> QED
  BY <1>9, <1>10, <1>11, <1>12, <1>13, <1>14 DEF PromptInv, PromptTasks

LEMMA EndInvariant ==
  ASSUME SessionInv, NEW a \in Actors, End(a), slow' = slow
  PROVE  SessionInv'
BY EndedCore, EndedPrompt DEF SessionInv

(* SessionStarted: a session of room c is added, from the end of its turns *)
(* on; a wake-up may be recorded with it.                                  *)
Starts(c, n) ==
    /\ sess' \in Seq(Session) /\ Len(sess') = n
    /\ DOMAIN sess = 1 .. Len(sess) /\ DOMAIN sess' = 1 .. n
    /\ Len(sess) \in Nat /\ n = Len(sess) + 1
    /\ SessionsStay
    /\ sess'[n].conv = c /\ sess'[n].from = Len(turns[c]) /\ sess'[n].at = act[c].at
    /\ sess'[n].ends = 0 /\ sess'[n].to = 0

LEMMA Started ==
  ASSUME CoreInv, NEW c \in Conversations, OpenSession(c)
  PROVE  /\ Starts(c, NextSession)
         /\ turns' = turns \/ Grows(c, "system", 0)
         /\ UsedTyped(used')
<1>1. PICK wake \in BOOLEAN, seeded \in BOOLEAN :
        /\ wake => used.asides < MaxAsides
        /\ sess' = Append(sess,
                 [conv |-> c, from |-> Len(turns[c]), at |-> act[c].at,
                  seeded |-> seeded, ends |-> 0, to |-> 0])
        /\ turns' = IF wake THEN Appended(c, "system", 0) ELSE turns
        /\ used' = IF wake THEN [used EXCEPT !.asides = @ + 1] ELSE used
  BY DEF OpenSession
<1>2. UsedTyped(used')
  BY <1>1, Types, Counted
<1>3. turns' = turns \/ Grows(c, "system", 0)
  <2>1. "system" \in Kinds /\ 0 \in Nat
    BY DEF Kinds
  <2> QED
    BY <1>1, <2>1, Grown
<1>4. PICK n, e : n = Len(sess) + 1 /\ e = [conv |-> c, from |-> Len(turns[c]), at |-> act[c].at,
                                             seeded |-> seeded, ends |-> 0, to |-> 0]
  OBVIOUS
<1>5. sess \in Seq(Session) /\ Len(turns[c]) \in Nat /\ act[c].at \in Nat
  BY Types, RoomSeq, TaskTyped, Actor
<1>6. /\ e \in Session /\ e.conv = c /\ e.from = Len(turns[c]) /\ e.at = act[c].at
      /\ e.ends = 0 /\ e.to = 0
  BY <1>4, <1>5 DEF Session
<1>7. sess' = Append(sess, e)
  BY <1>1, <1>4
<1>8. /\ sess' \in Seq(Session) /\ Len(sess') = n /\ Len(sess) \in Nat
      /\ DOMAIN sess = 1 .. Len(sess) /\ DOMAIN sess' = 1 .. n
      /\ sess'[n] = e /\ \A r \in 1 .. Len(sess) : sess'[r] = sess[r]
  BY <1>4, <1>5, <1>6, <1>7
<1>9. \A r \in 1 .. Len(sess) : r \in 1 .. n
  BY <1>4, <1>8
<1>10. Starts(c, n)
  BY <1>4, <1>6, <1>8, <1>9 DEF Starts, SessionsStay
<1> QED
  BY <1>2, <1>3, <1>4, <1>10 DEF NextSession

LEMMA StayTask ==
  ASSUME CoreInv, UNCHANGED <<now, turns>>, SessionsStay,
         NEW b \in Actors, NEW u \in Task, TaskInv(b, u), PromptTask(b, u),
         u.pc \in RunPcs /\ b \in Conversations =>
            live'[b] = live[b] /\ activity'[b] = activity[b]
  PROVE  PromptTask(b, u)'
<1>1. /\ u.pc \in ClosePcs => u.id \in DOMAIN sess
      /\ u.pc \in RunPcs /\ b \in Conversations => u.id \in DOMAIN sess
      /\ u.pc \in {"generate", "replied"} => u.pc \in RunPcs
  BY DEF TaskInv, OnInv, RunPcs
<1>2. u.id \in DOMAIN sess => sess'[u.id] = sess[u.id]
  BY DEF SessionsStay
<1>3. ClockInv(b, u)' /\ SnapInv(b, u)'
  BY DEF PromptTask, ClockInv, SnapInv
<1>4. TurnInv(b, u)'
  BY <1>1, <1>2 DEF PromptTask, TurnInv, SessionIsOpen
<1>5. EndInv(b, u)'
  <2>1. u.pc \in ClosePcs => SessionIsOpen(u.id)'
    BY <1>1, <1>2 DEF PromptTask, EndInv, SessionIsOpen
  <2>2. ASSUME u.pc = "ending"
        PROVE  \/ Len(turns'[u.conv]) - sess'[u.id].from < FlushMin
               \/ Flushed(u.conv, sess[u.id].from, Len(turns[u.conv]))'
    <3>1. sess'[u.id] = sess[u.id]
      BY <1>1, <1>2, <2>2 DEF ClosePcs
    <3>2. \/ Len(turns[u.conv]) - sess[u.id].from < FlushMin
          \/ Flushed(u.conv, sess[u.id].from, Len(turns[u.conv]))
      BY <2>2 DEF PromptTask, EndInv
    <3> QED
      BY <3>1, <3>2 DEF Flushed
  <2> QED
    BY <2>1, <2>2 DEF EndInv, Flushed
<1> QED
  BY <1>3, <1>4, <1>5 DEF PromptTask

LEMMA StayLog ==
  ASSUME CoreInv, PromptInv, UNCHANGED <<turns, slow>>, SessionsStay
  PROVE  WatermarkIsHonest' /\ NothingLost'
<1>1. WatermarkIsHonest'
  BY DEF PromptInv, WatermarkIsHonest
<1>2. \A d \in Conversations : \A r \in SessionsOf(d) :
         r \in SessionsOf(d)' /\ sess'[r] = sess[r] /\ (SessionIsOpen(r)' <=> SessionIsOpen(r))
  BY DEF SessionsOf, SessionsStay, SessionIsOpen
<1>3. \A d \in Conversations : \A r \in SessionsOf(d) : \A i :
         Covered(d, r, i)' <=> Covered(d, r, i)
  BY <1>2 DEF Covered
<1>4. NothingLost'
  BY <1>2, <1>3 DEF PromptInv, NothingLost
<1> QED
  BY <1>1, <1>4

(* The task of a room whose session is open. *)
LEMMA OpenedTask ==
  ASSUME SessionInv, NEW c \in Conversations, OpenSession(c)
  PROVE  \E t \in Task :
            /\ act' = [act EXCEPT ![c] = t] /\ LockMove(c, t)
            /\ t.pc = "run" /\ t.id = NextSession /\ t.at = act[c].at /\ t.todo = act[c].todo
<1>1. /\ CoreInv /\ c \in Actors /\ act \in [Actors -> Task] /\ act[c] \in Task
      /\ act[c].pc = "open" /\ Len(sess) \in Nat
  BY Types, TaskTyped, Actor DEF SessionInv, OpenSession
<1>2. PICK n, t : n = NextSession /\ t = [act[c] EXCEPT !.pc = "run", !.id = n]
  OBVIOUS
<1>3. n \in Nat
  BY <1>1, <1>2 DEF NextSession
<1>4. t \in Task /\ t.pc = "run" /\ t.id = n /\ t.at = act[c].at /\ t.todo = act[c].todo
  BY <1>1, <1>2, <1>3 DEF Task, Pcs
<1>5. act' = [act EXCEPT ![c] = t] /\ lock' = Released(c)
  BY <1>1, <1>2 DEF OpenSession
<1>6. LockMove(c, t)
  <2>1. \A d \in Conversations : Queues(c, act[c], d) => Keeps(c, act[c], d)
    BY <1>1 DEF Queues, Waits
  <2>2. MayLeave(c)
    BY <1>1, <2>1 DEF MayLeave, CoreInv, LockInv, LockOK, Leads, Holds
  <2>3. Nowhere(c, t)
    BY <1>1, <1>4, OffQueue DEF RunPcs
  <2> QED
    BY <1>5, <2>2, <2>3 DEF LockMove
<1> QED
  BY <1>2, <1>4, <1>5, <1>6

LEMMA OpenedCore ==
  ASSUME SessionInv, NEW c \in Conversations, OpenSession(c), slow' = slow
  PROVE  CoreInv'
<1>1. PICK t \in Task :
            /\ act' = [act EXCEPT ![c] = t] /\ LockMove(c, t)
            /\ t.pc = "run" /\ t.id = NextSession /\ t.at = act[c].at /\ t.todo = act[c].todo
  BY OpenedTask
<1>2. PICK n : n = NextSession
  OBVIOUS
<1>3. /\ CoreInv /\ c \in Actors /\ c # Sweeper /\ Starts(c, n) /\ UsedTyped(used')
      /\ turns' = turns \/ Grows(c, "system", 0)
      /\ act[c].pc = "open" /\ act[c].at \in Nat
  BY <1>2, Started, TaskTyped, Actor DEF SessionInv, OpenSession
<1>4. act' \in [Actors -> Task] /\ act'[c] = t /\ \A b \in Actors : b # c => act'[b] = act[b]
  BY <1>1, <1>3, Types
<1>5. /\ live[c] = 0 /\ NoneOpen(c)
      /\ \A b \in Actors : b # c => ~Closes(b, c) /\ ~Checks(b, c)
  <2>1. live[c] = 0 /\ NoneOpen(c)
    BY <1>3 DEF CoreInv, TasksInv, TaskInv, MapInv
  <2> QED
    BY <1>3, <2>1, RoomAlone DEF Keeps
<1>6. LockInv' /\ lock' \in [Conversations -> Seq(Actors)]
  BY <1>1, <1>3, LockMoved
<1>7. /\ now' = now /\ live'[c] = n /\ activity'[c] = act[c].at
      /\ \A d \in Conversations : d # c => live'[d] = live[d] /\ activity'[d] = activity[d]
      /\ live' = [live EXCEPT ![c] = n] /\ activity' = [activity EXCEPT ![c] = act[c].at]
  BY <1>2, <1>3, Types DEF OpenSession
<1>8. \A r \in DOMAIN sess : r \in DOMAIN sess' /\ sess'[r] = sess[r] /\ r # n
                             /\ (SessionIsOpen(r)' <=> SessionIsOpen(r))
  BY <1>3 DEF Starts, SessionsStay, SessionIsOpen
<1>9. /\ n \in DOMAIN sess' /\ sess'[n].conv = c /\ SessionIsOpen(n)' /\ n \in Nat /\ n # 0
      /\ \A r \in DOMAIN sess' : r # n => r \in DOMAIN sess
  BY <1>3 DEF Starts, SessionIsOpen
<1>10. turns' \in [Conversations -> Seq(Turn)]
  BY <1>3, Types DEF Grows
<1>11. TypeOK'
  <2>1. live' \in [Conversations -> 0 .. Len(sess')]
    <3>1. live \in [Conversations -> 0 .. Len(sess)]
      BY <1>3 DEF CoreInv, TypeOK
    <3>2. n \in 0 .. Len(sess') /\ \A k \in 0 .. Len(sess) : k \in 0 .. Len(sess')
      BY <1>3 DEF Starts
    <3> QED
      BY <1>7, <3>1, <3>2
  <2>2. activity' \in [Conversations -> Nat]
    BY <1>3, <1>7, Types
  <2> QED
    BY <1>3, <1>4, <1>6, <1>7, <1>10, <2>1, <2>2 DEF CoreInv, TypeOK, Starts, UsedTyped
<1>12. TasksInv'
  <2> SUFFICES ASSUME NEW b \in Actors PROVE TaskInv(b, act[b])'
    BY DEF TasksInv
  <2>1. CASE b = c
    <3>1. TaskInv(c, act[c])
      BY <1>3 DEF CoreInv, TasksInv
    <3>2. PcInv(c, t) /\ OnInv(c, t)'
      BY <1>1, <1>2, <1>3, <1>8, <1>9, <3>1, Actor
         DEF TaskInv, PcInv, OnInv, ClosePcs, RunPcs
    <3>3. MapInv(c, t)'
      BY <1>1 DEF MapInv, ClosePcs
    <3> QED
      BY <1>4, <2>1, <3>2, <3>3 DEF TaskInv, PcInv, OnInv, MapInv, NoneOpen
  <2>2. CASE b # c
    <3>1. PICK u : u = act[b]
      OBVIOUS
    <3>2. act'[b] = u /\ TaskInv(b, u) /\ u \in Task
      BY <1>3, <1>4, <2>2, <3>1, Types DEF CoreInv, TasksInv
    <3>3. OnInv(b, u)' /\ PcInv(b, u)
      BY <1>8, <3>2 DEF TaskInv, OnInv
    <3>4. u.pc = "open" => live'[b] = 0 /\ NoneOpen(b)'
      <4>1. u.pc = "open" => b \in Conversations /\ live[b] = 0 /\ NoneOpen(b)
        BY <3>2, Actor DEF TaskInv, PcInv, MapInv, Actors
      <4> QED
        BY <1>7, <1>8, <1>9, <2>2, <4>1 DEF NoneOpen
    <3>5. u.pc \in ClosePcs => live'[u.conv] # u.id
      <4>1. u.pc \in ClosePcs => u.conv \in Conversations /\ live[u.conv] # u.id /\ u.conv # c
        BY <1>5, <2>2, <3>1, <3>2 DEF TaskInv, OnInv, MapInv, Closes
      <4> QED
        BY <1>7, <4>1
    <3>6. u.pc = "checkFlush" => live'[u.conv] = u.id
      <4>1. u.pc = "checkFlush" => u.conv \in Conversations /\ live[u.conv] = u.id /\ u.conv # c
        BY <1>5, <2>2, <3>1, <3>2 DEF TaskInv, OnInv, MapInv, Checks
      <4> QED
        BY <1>7, <4>1
    <3>7. b \in Conversations /\ u.pc \in ClosePcs /\ u.cause # "compaction" => SessionIsOpen(u.id)'
      BY <1>8, <3>2 DEF TaskInv, OnInv, MapInv
    <3>8. MapInv(b, u)'
      BY <3>4, <3>5, <3>6, <3>7 DEF MapInv
    <3> QED
      BY <3>2, <3>3, <3>8 DEF TaskInv, PcInv, OnInv, MapInv, NoneOpen
  <2> QED
    BY <2>1, <2>2
<1>13. OneOpen'
  <2>1. ASSUME NEW r \in DOMAIN sess', r # n, SessionIsOpen(r)' PROVE sess'[r].conv # c
    BY <1>5, <1>8, <1>9, <2>1 DEF NoneOpen
  <2>2. ASSUME NEW r \in DOMAIN sess', NEW q \in DOMAIN sess', SessionIsOpen(r)', SessionIsOpen(q)',
               sess'[r].conv = sess'[q].conv
        PROVE  r = q
    BY <1>3, <1>8, <1>9, <2>1, <2>2 DEF CoreInv, OneOpen
  <2> QED
    BY <2>2 DEF OneOpen
<1>14. LiveSessionIsOpen'
  <2> SUFFICES ASSUME NEW d \in Conversations, live'[d] # 0
      PROVE  live'[d] \in DOMAIN sess' /\ sess'[live'[d]].conv = d /\ sess'[live'[d]].ends = 0
    BY DEF LiveSessionIsOpen, OpenSessions, SessionsOf, SessionIsOpen
  <2>1. CASE d = c
    BY <1>7, <1>9, <2>1 DEF SessionIsOpen
  <2>2. CASE d # c
    <3>1. live[d] \in DOMAIN sess /\ sess[live[d]].conv = d /\ sess[live[d]].ends = 0
      BY <1>3, <1>7, <2>2 DEF CoreInv, LiveSessionIsOpen, OpenSessions, SessionsOf, SessionIsOpen
    <3> QED
      BY <1>7, <1>8, <2>2, <3>1
  <2> QED
    BY <2>1, <2>2
<1>15. CheckInv'
  <2> SUFFICES ASSUME NEW b \in Actors, act'[b].pc = "checkFlush"
      PROVE  act'[act'[b].conv].pc \notin Busy
    BY DEF CheckInv
  <2>1. b # c /\ act'[b] = act[b] /\ act[b].conv \in Actors /\ act[act[b].conv].pc \notin Busy
    BY <1>1, <1>3, <1>4, Actor DEF CoreInv, CheckInv, TasksInv, TaskInv, OnInv
  <2>2. act[b].conv # c
    BY <1>3, <2>1 DEF Busy
  <2> QED
    BY <1>4, <2>1, <2>2
<1>16. LogInv'
  <2>1. ASSUME NEW d \in Conversations
        PROVE  Len(turns[d]) \in Nat /\ Len(turns'[d]) \in Nat /\ Len(turns'[d]) >= Len(turns[d])
    <3>1. Len(turns[d]) \in Nat /\ Len(turns'[d]) \in Nat
      BY <1>3, <1>10, RoomSeq, Types
    <3> QED
      BY <1>3, <3>1 DEF Grows
  <2>2. ASSUME NEW r \in DOMAIN sess
        PROVE  sess'[r].from <= Len(turns'[sess'[r].conv]) /\ sess'[r].to <= Len(turns'[sess'[r].conv])
    <3>1. /\ sess[r].from <= Len(turns[sess[r].conv]) /\ sess[r].to <= Len(turns[sess[r].conv])
          /\ sess[r].conv \in Conversations /\ sess[r].from \in Nat /\ sess[r].to \in Nat
      BY <1>3, SessionTyped DEF CoreInv, LogInv
    <3> QED
      BY <1>8, <2>1, <3>1
  <2>3. sess'[n].from <= Len(turns'[sess'[n].conv]) /\ sess'[n].to <= Len(turns'[sess'[n].conv])
    BY <1>3, <2>1 DEF Starts
  <2> QED
    BY <1>9, <2>2, <2>3 DEF LogInv
<1> QED
  BY <1>6, <1>11, <1>12, <1>13, <1>14, <1>15, <1>16 DEF CoreInv

LEMMA OpenedPrompt ==
  ASSUME SessionInv, NEW c \in Conversations, OpenSession(c), slow' = slow, ~slow
  PROVE  PromptInv'
<1>1. PICK t \in Task :
            /\ act' = [act EXCEPT ![c] = t] /\ LockMove(c, t)
            /\ t.pc = "run" /\ t.id = NextSession /\ t.at = act[c].at /\ t.todo = act[c].todo
  BY OpenedTask
<1>2. PICK n, z : n = NextSession /\ z = 0
  OBVIOUS
<1>3. /\ CoreInv /\ c \in Actors /\ c # Sweeper /\ Starts(c, n) /\ SessionsStay
      /\ turns' = turns \/ Grows(c, "system", z)
      /\ act[c].pc = "open"
      /\ "system" \in Kinds /\ "system" \notin Spoken /\ "system" # "flush" /\ z \in Nat
  BY <1>2, Started, Actor DEF SessionInv, OpenSession, Starts, Kinds, Spoken
<1>4. act' \in [Actors -> Task] /\ act'[c] = t /\ \A b \in Actors : b # c => act'[b] = act[b]
  BY <1>1, <1>3, Types
<1>5. /\ NoneOpen(c) /\ \A b \in Actors : b # c => ~Closes(b, c) /\ ~Checks(b, c)
  <2>1. NoneOpen(c)
    BY <1>3 DEF CoreInv, TasksInv, TaskInv, MapInv
  <2> QED
    BY <1>3, <2>1, RoomAlone DEF Keeps
<1>6. Shrinks(lock, lock')
  BY <1>1, <1>3, LockMoved
<1>7. /\ now' = now /\ live'[c] = n /\ activity'[c] = act[c].at
      /\ \A d \in Conversations : d # c => live'[d] = live[d] /\ activity'[d] = activity[d]
  BY <1>2, <1>3, Types DEF OpenSession
<1>8. PromptInv /\ PromptTask(c, act[c])
  BY <1>3, TaskTyped
<1>9. ASSUME NEW b \in Actors PROVE PromptTask(b, act[b])'
  <2>1. CASE b = c
    <3>1. ClockInv(c, t)'
      BY <1>1, <1>3, <1>7, <1>8 DEF PromptTask, ClockInv
    <3>2. TurnInv(c, t)'
      BY <1>1, <1>2, <1>3, <1>7 DEF TurnInv, SessionIsOpen, Starts, ClosePcs
    <3>3. SnapInv(c, t)' /\ EndInv(c, t)'
      BY <1>1 DEF SnapInv, EndInv, ClosePcs
    <3> QED
      BY <1>4, <2>1, <3>1, <3>2, <3>3 DEF PromptTask, ClockInv, TurnInv, SnapInv, EndInv
  <2>2. CASE b # c
    <3>1. PICK u : u = act[b]
      OBVIOUS
    <3>2. act'[b] = u /\ u \in Task /\ TaskInv(b, u) /\ PromptTask(b, u)
      BY <1>3, <1>4, <1>8, <2>2, <3>1, Types DEF CoreInv, TasksInv, PromptInv, PromptTasks
    <3>3. u.pc = "ending" => u.conv # c
      BY <1>5, <2>2, <3>1 DEF Closes, ClosePcs
    <3>4. PromptTask(b, u)'
      BY <1>3, <1>7, <2>2, <3>2, <3>3, GrownTask, StayTask
    <3> QED
      BY <3>2, <3>4 DEF PromptTask, ClockInv, TurnInv, SnapInv, EndInv
  <2> QED
    BY <2>1, <2>2
<1>10. SweepInv'
  <2>1. act'[Sweeper] = act[Sweeper]
    BY <1>3, <1>4, Actor
  <2>2. PICK d, r, at : d = act[Sweeper].conv /\ r = act[Sweeper].id /\ at = act[Sweeper].at
    OBVIOUS
  <2> SUFFICES ASSUME act[Sweeper].pc = "sweepLock", SessionIsOpen(r)'
      PROVE  /\ act'[d].pc \notin RunPcs
             /\ ~(act'[d].pc \in ClosePcs /\ act'[d].cause = "compaction")
             /\ live'[d] # 0 => Lapsed(at, activity'[d])
             /\ live'[d] = 0 /\ act'[d].pc = "lock" /\ Ahead(lock'[d], d, Sweeper) =>
                   Lapsed(at, LogActivity(r)')
    BY <2>1, <2>2 DEF SweepInv, Lapsed
  <2>3. d \in Conversations /\ r \in DOMAIN sess /\ sess[r].conv = d /\ sess'[r] = sess[r]
    BY <1>3, <2>2, Actor DEF CoreInv, TasksInv, TaskInv, OnInv, SessionsStay
  <2>4. SessionIsOpen(r)
    BY <2>3 DEF SessionIsOpen
  <2>5. d # c /\ act'[d] = act[d] /\ turns'[d] = turns[d]
    BY <1>3, <1>4, <1>5, <2>3, <2>4, Actor DEF NoneOpen, Grows
  <2>6. /\ act[d].pc \notin RunPcs
        /\ ~(act[d].pc \in ClosePcs /\ act[d].cause = "compaction")
        /\ live[d] # 0 => Lapsed(at, activity[d])
        /\ live[d] = 0 /\ act[d].pc = "lock" /\ Ahead(lock[d], d, Sweeper) =>
              Lapsed(at, LogActivity(r))
    BY <1>8, <2>2, <2>4 DEF PromptInv, SweepInv
  <2>7. LogActivity(r)' = LogActivity(r)
    BY <2>3, <2>5 DEF LogActivity
  <2> QED
    BY <1>6, <1>7, <2>3, <2>5, <2>6, <2>7 DEF Shrinks
<1>11. AloneInv'
  BY <1>3, <1>4, <1>8, AloneStep DEF PromptInv, Busy
<1>12. ClosedOnce'
  BY <1>3, <1>8 DEF PromptInv, ClosedOnce, Starts, SessionsStay
<1>13. WatermarkIsHonest' /\ NothingLost'
  BY <1>3, <1>8, GrownLog, StayLog
<1> QED
  BY <1>9, <1>10, <1>11, <1>12, <1>13 DEF PromptInv, PromptTasks

LEMMA OpenSessionInv ==
  ASSUME SessionInv, NEW c \in Conversations, OpenSession(c), slow' = slow
  PROVE  SessionInv'
BY OpenedCore, OpenedPrompt DEF SessionInv

-----------------------------------------------------------------------------
(* The crash, the clock, and the whole step.                               *)

LEMMA CrashInv ==
  ASSUME SessionInv, Crash, slow' = slow
  PROVE  SessionInv'
<1>1. /\ CoreInv /\ UNCHANGED <<now, turns, sess>>
      /\ \A a \in Actors : act'[a] = Idle
      /\ \A c \in Conversations : live'[c] = 0 /\ activity'[c] = 0 /\ lock'[c] = << >>
      /\ act' = [a \in Actors |-> Idle] /\ live' = [c \in Conversations |-> 0]
      /\ activity' = [c \in Conversations |-> 0] /\ lock' = [c \in Conversations |-> << >>]
  BY DEF Crash, log, SessionInv
<1>2. act'[Sweeper] = Idle
  BY <1>1, Actor
<1>3. UsedTyped(used')
  BY <1>1, Types, Counted DEF Crash
<1>4. TypeOK'
  <2>1. Len(sess) \in Nat
    BY <1>1, Types
  <2>2. /\ act' \in [Actors -> Task] /\ live' \in [Conversations -> 0 .. Len(sess)]
        /\ activity' \in [Conversations -> Nat] /\ lock' \in [Conversations -> Seq(Actors)]
    BY <1>1, <2>1, IdleTask
  <2> QED
    BY <1>1, <1>3, <2>2 DEF CoreInv, TypeOK, UsedTyped
<1>5. TasksInv'
  BY <1>1, IdleTask
     DEF TasksInv, TaskInv, PcInv, OnInv, MapInv, ClosePcs, RunPcs
<1>6. LockInv'
  <2> SUFFICES ASSUME NEW c \in Conversations, NEW a \in Actors
      PROVE  /\ Has(lock'[c], a) <=> Queues(a, act'[a], c)
             /\ Keeps(a, act'[a], c) => Leads(lock'[c], a)
    BY <1>1 DEF LockInv, LockOK, Distinct
  <2>1. ~Queues(a, Idle, c)
    BY IdleTask DEF Queues, Waits, Keeps, ClosePcs
  <2>2. ~Has(<< >>, a)
    BY DEF Has
  <2> QED
    BY <1>1, <2>1, <2>2 DEF Queues
<1>7. LiveSessionIsOpen' /\ CheckInv'
  BY <1>1, IdleTask DEF LiveSessionIsOpen, CheckInv
<1>8. OneOpen' /\ LogInv'
  BY <1>1 DEF CoreInv, OneOpen, LogInv, SessionIsOpen
<1>9. ASSUME ~slow PROVE PromptInv'
  <2>1. PromptInv
    BY <1>9 DEF SessionInv
  <2>2. PromptTasks'
    <3> SUFFICES ASSUME NEW a \in Actors PROVE PromptTask(a, act[a])'
      BY DEF PromptTasks
    <3>1. ClockInv(a, Idle)'
      BY <1>1, Types, IdleTask DEF ClockInv
    <3> QED
      BY <1>1, <3>1, IdleTask
         DEF PromptTask, ClockInv, TurnInv, SnapInv, EndInv, ClosePcs, RunPcs
  <2>3. SweepInv' /\ AloneInv'
    BY <1>2, IdleTask DEF SweepInv, AloneInv, ClosePcs
  <2>4. ClosedOnce'
    BY <1>1, <2>1 DEF PromptInv, ClosedOnce
  <2>5. WatermarkIsHonest' /\ NothingLost'
    BY <1>1, <2>1, StayLog DEF SessionsStay
  <2> QED
    BY <2>2, <2>3, <2>4, <2>5 DEF PromptInv
<1> QED
  BY <1>4, <1>5, <1>6, <1>7, <1>8, <1>9 DEF SessionInv, CoreInv

LEMMA StillCore ==
  ASSUME CoreInv, now' \in 0 .. MaxNow,
         UNCHANGED <<turns, sess, live, activity, lock, act, used, slow>>
  PROVE  CoreInv'
BY DEF CoreInv, TypeOK, TasksInv, TaskInv, PcInv, OnInv, MapInv, NoneOpen, LockInv, OneOpen,
       LiveSessionIsOpen, OpenSessions, SessionsOf, SessionIsOpen, CheckInv, LogInv

LEMMA StillPrompt ==
  ASSUME CoreInv, PromptInv, UNCHANGED <<turns, sess, live, activity, lock, act, used, slow>>,
         \A a \in Actors : ClockInv(a, act[a])'
  PROVE  PromptInv'
<1>1. PromptTasks'
  <2> SUFFICES ASSUME NEW a \in Actors PROVE PromptTask(a, act[a])'
    BY DEF PromptTasks
  <2>1. PromptTask(a, act[a])
    BY DEF PromptInv, PromptTasks
  <2>2. EndInv(a, act[a])'
    BY <2>1 DEF PromptTask, EndInv, SessionIsOpen, Flushed
  <2> QED
    BY <2>1, <2>2 DEF PromptTask, TurnInv, SnapInv, SessionIsOpen
<1>2. SweepInv' /\ AloneInv' /\ ClosedOnce'
  BY DEF PromptInv, SweepInv, AloneInv, ClosedOnce, SessionIsOpen, LogActivity
<1>3. WatermarkIsHonest' /\ NothingLost'
  BY StayLog DEF SessionsStay
<1> QED
  BY <1>1, <1>2, <1>3 DEF PromptInv

LEMMA TickInv ==
  ASSUME SessionInv, Tick, slow' = slow
  PROVE  SessionInv'
<1>1. CoreInv /\ UNCHANGED <<turns, sess, live, activity, lock, act, used, slow>>
  BY DEF SessionInv, Tick, log, map
<1>2. now \in 0 .. MaxNow /\ now < MaxNow /\ now' = now + 1 /\ MaxNow \in Nat /\ Gap \in Nat
  BY <1>1, BoundsAssumption DEF CoreInv, TypeOK, Tick
<1>3. now' \in 0 .. MaxNow
  BY <1>2
<1>4. CoreInv'
  BY <1>1, <1>3, StillCore
<1>5. ASSUME ~slow PROVE PromptInv'
  <2>1. PromptInv
    BY <1>5 DEF SessionInv
  <2>2. ASSUME NEW a \in Actors PROVE ClockInv(a, act[a])'
    <3>1. ClockInv(a, act[a]) /\ act[a].at \in Nat
      BY <1>1, <2>1, TaskTyped DEF PromptInv, PromptTasks, PromptTask
    <3>2. a \in Conversations /\ act[a].pc # "idle" => now + 1 <= act[a].at + Gap
      BY <1>5 DEF Tick, InFlight
    <3> QED
      BY <1>1, <1>2, <3>1, <3>2 DEF ClockInv
  <2> QED
    BY <1>1, <2>1, <2>2, StillPrompt
<1> QED
  BY <1>4, <1>5 DEF SessionInv

LEMMA StutterInv ==
  ASSUME SessionInv, UNCHANGED vars
  PROVE  SessionInv'
<1>1. CoreInv /\ UNCHANGED <<now, turns, sess, live, activity, lock, act, used, slow>>
  BY DEF SessionInv, vars, state
<1>2. now' \in 0 .. MaxNow
  BY <1>1 DEF CoreInv, TypeOK
<1>3. CoreInv'
  BY <1>1, <1>2, StillCore
<1>4. ASSUME ~slow PROVE PromptInv'
  <2>1. PromptInv
    BY <1>4 DEF SessionInv
  <2>2. \A a \in Actors : ClockInv(a, act[a])'
    BY <1>1, <2>1 DEF PromptInv, PromptTasks, PromptTask, ClockInv
  <2> QED
    BY <1>1, <2>1, <2>2, StillPrompt
<1> QED
  BY <1>1, <1>3, <1>4 DEF SessionInv

LEMMA InitInv == Init => SessionInv
<1> SUFFICES ASSUME Init PROVE SessionInv
  OBVIOUS
<1>1. /\ now = 0 /\ sess = << >> /\ slow \in {FALSE, SlowTurns}
      /\ turns = [c \in Conversations |-> << >>]
      /\ live = [c \in Conversations |-> 0] /\ activity = [c \in Conversations |-> 0]
      /\ lock = [c \in Conversations |-> << >>] /\ act = [a \in Actors |-> Idle]
      /\ used = [arrivals |-> 0, asides |-> 0, crashes |-> 0]
  BY DEF Init
<1>2. /\ MaxNow \in Nat /\ MaxArrivals \in Nat /\ MaxAsides \in Nat /\ MaxCrashes \in Nat
      /\ SlowTurns \in BOOLEAN /\ Gap \in Nat
  BY BoundsAssumption
<1>3. DOMAIN sess = {} /\ Len(sess) = 0 /\ sess \in Seq(Session)
  BY <1>1
<1>4. TypeOK
  <2>1. /\ turns \in [Conversations -> Seq(Turn)] /\ lock \in [Conversations -> Seq(Actors)]
        /\ live \in [Conversations -> 0 .. Len(sess)] /\ activity \in [Conversations -> Nat]
    BY <1>1, <1>3
  <2>2. act \in [Actors -> Task]
    BY <1>1, IdleTask
  <2>3. used \in [arrivals : 0 .. MaxArrivals, asides : 0 .. MaxAsides, crashes : 0 .. MaxCrashes]
    BY <1>1, <1>2
  <2>4. now \in 0 .. MaxNow
    BY <1>1, <1>2
  <2>5. slow \in BOOLEAN
    BY <1>1, <1>2, Zenon
  <2> QED
    BY <1>3, <2>1, <2>2, <2>3, <2>4, <2>5 DEF TypeOK
<1>5. \A a \in Actors : act[a] = Idle
  BY <1>1
<1>6. TasksInv
  BY <1>5, IdleTask DEF TasksInv, TaskInv, PcInv, OnInv, MapInv, ClosePcs, RunPcs
<1>7. LockInv
  <2> SUFFICES ASSUME NEW c \in Conversations, NEW a \in Actors
      PROVE  /\ Has(lock[c], a) <=> Queues(a, act[a], c)
             /\ Keeps(a, act[a], c) => Leads(lock[c], a)
    BY <1>1 DEF LockInv, LockOK, Distinct
  <2>1. ~Queues(a, act[a], c)
    BY <1>5, IdleTask DEF Queues, Waits, Keeps, ClosePcs
  <2>2. lock[c] = << >> /\ ~Has(<< >>, a)
    BY <1>1 DEF Has
  <2> QED
    BY <2>1, <2>2 DEF Queues
<1>8. LiveSessionIsOpen /\ CheckInv /\ OneOpen /\ LogInv
  BY <1>1, <1>3, <1>5, IdleTask DEF LiveSessionIsOpen, CheckInv, OneOpen, LogInv
<1>9. PromptInv
  <2>1. PromptTasks
    BY <1>1, <1>5, IdleTask
       DEF PromptTasks, PromptTask, ClockInv, TurnInv, SnapInv, EndInv, ClosePcs, RunPcs
  <2>2. SweepInv /\ AloneInv
    BY <1>5, IdleTask, Actor DEF SweepInv, AloneInv, ClosePcs
  <2>3. ClosedOnce
    BY <1>3 DEF ClosedOnce
  <2>4. WatermarkIsHonest /\ NothingLost
    <3>1. \A c \in Conversations : DOMAIN turns[c] = {}
      BY <1>1
    <3> QED
      BY <3>1 DEF WatermarkIsHonest, NothingLost
  <2> QED
    BY <2>1, <2>2, <2>3, <2>4 DEF PromptInv
<1> QED
  BY <1>4, <1>6, <1>7, <1>8, <1>9 DEF SessionInv, CoreInv

LEMMA StepInv ==
  ASSUME SessionInv, [Next]_vars
  PROVE  SessionInv'
<1>1. CASE UNCHANGED vars
  BY <1>1, StutterInv
<1>2. CASE Step /\ slow' = slow
  <2>1. ASSUME NEW a \in Actors, Close(a) PROVE SessionInv'
    BY <1>2, <2>1, FlushDoneInv, FlushFailsInv, EndInvariant DEF Close
  <2>2. ASSUME NEW a \in Actors, Checkpoint(a) PROVE SessionInv'
    BY <1>2, <2>2, CheckpointNextInv, CheckpointLockInv, CheckpointEndInv DEF Checkpoint
  <2>3. ASSUME Sweep PROVE SessionInv'
    BY <1>2, <2>3, SweepTickInv, SweepNextInv, SweepLockInv, SweepEndInv DEF Sweep
  <2>4. ASSUME NEW c \in Conversations, EnsureSession(c) PROVE SessionInv'
    BY <1>2, <2>4, PreCheckInv, ReuseInv, ResumeInv, RecoverInv, LapseInv, FreshInv,
       OpenSessionInv, OpenFailsInv DEF EnsureSession
  <2>5. ASSUME NEW c \in Conversations, RunTurn(c) PROVE SessionInv'
    BY <1>2, <2>5, RunInv, TurnOverInv, CompactInv DEF RunTurn
  <2> QED
    BY <1>2, <2>1, <2>2, <2>3, <2>4, <2>5, CheckpointTickInv, AdmitInv, NoteJoinInv,
       CrashInv, TickInv DEF Step
<1> QED
  BY <1>1, <1>2 DEF Next

-----------------------------------------------------------------------------
(* The inductive invariant holds of every behaviour: whatever tasks run,   *)
(* fail, wait for a lifecycle lock or are lost in a crash.                 *)
THEOREM SessionsHold == Spec => []SessionInv
<1>1. Init => SessionInv
  BY InitInv
<1>2. SessionInv /\ [Next]_vars => SessionInv'
  BY StepInv
<1> QED
  BY <1>1, <1>2, PTL DEF Spec

(* Every variable keeps its type: the bounds are kept, the map names       *)
(* sessions of the log, and the queues of the locks hold actors.           *)
THEOREM SessionTypes == Spec => []TypeOK
<1>1. SessionInv => TypeOK
  BY DEF SessionInv, CoreInv
<1> QED
  BY <1>1, SessionsHold, PTL

(* Log and map agree on the one open session of a room, and none opens     *)
(* while another is being closed (ensure_session, close_and_remove, under  *)
(* lifecycle_lock), however long turns take and wherever a crash falls.    *)
THEOREM OneSession == Spec => []OneSessionAtATime
<1>1. ASSUME CoreInv PROVE OneOpenSession
  <2> SUFFICES ASSUME NEW c \in Conversations PROVE Cardinality(OpenSessions(c)) <= 1
    BY DEF OneOpenSession
  <2>1. CASE OpenSessions(c) = {}
    BY <2>1, FS_EmptySet
  <2>2. CASE OpenSessions(c) # {}
    <3>1. PICK s : s \in OpenSessions(c)
      BY <2>2
    <3>2. OpenSessions(c) = {s}
      BY <1>1, <3>1 DEF CoreInv, OneOpen, OpenSessions, SessionsOf
    <3> QED
      BY <3>2, FS_Singleton
  <2> QED
    BY <2>1, <2>2
<1>2. ASSUME CoreInv PROVE OpenWaitsForClose
  BY <1>2, RoomAlone DEF OpenWaitsForClose, Keeps, Closes, ClosePcs
<1>3. SessionInv => OneSessionAtATime
  BY <1>1, <1>2 DEF SessionInv, CoreInv, OneSessionAtATime
<1> QED
  BY <1>3, SessionsHold, PTL

(* While turns end within the idle gap, neither the sweep nor a            *)
(* compaction takes a session from a turn that runs on it, and no session  *)
(* is ended twice (sweep_idle_sessions, compact).                          *)
THEOREM TurnsKeepTheirSession == Spec => []PromptTurnKeepsItsSession
<1>1. ASSUME PromptInv PROVE TurnKeepsItsSession
  BY <1>1, Actor DEF PromptInv, PromptTasks, PromptTask, TurnInv, RunPcs, TurnKeepsItsSession
<1>2. SessionInv => PromptTurnKeepsItsSession
  BY <1>1 DEF SessionInv, PromptInv, PromptTurnKeepsItsSession
<1> QED
  BY <1>2, SessionsHold, PTL

(* The flush watermark never passes a message or a reply the flush was not *)
(* given, while turns end within the gap (flush, checkpoint_sessions).     *)
THEOREM HonestWatermark == Spec => []WatermarkIsHonest
<1>1. SessionInv => WatermarkIsHonest
  BY DEF SessionInv, PromptInv, WatermarkIsHonest
<1> QED
  BY <1>1, SessionsHold, PTL

(* The no-loss guarantee: while turns end within the gap, every message    *)
(* and reply of a closed session of at least FlushMin turns reached a      *)
(* flush before SessionEnded, through sweeps, compactions, checkpoints,    *)
(* failed closes and crashes (flush_and_end).                              *)
THEOREM NothingSaidIsLost == Spec => []PromptTurnsAreFlushed
<1>1. SessionInv => PromptTurnsAreFlushed
  BY DEF SessionInv, PromptInv, PromptTurnsAreFlushed
<1> QED
  BY <1>1, SessionsHold, PTL
=============================================================================
