----------------------------- MODULE TurnLedger -----------------------------
(***************************************************************************)
(* The per-conversation turn ledger (src/instance/turn_ledger.rs) and the  *)
(* cancellation handle an admitted turn polls                              *)
(* (src/agent/turn/supersede.rs), driven the way route_messages drives     *)
(* them (src/instance/platform/routing.rs): a batch arrives, waits for the *)
(* deli counter to serve its epoch, runs a turn that may yield to a newer  *)
(* batch at a cooperative boundary, and exits.  A ticket may be dropped    *)
(* while it waits.                                                         *)
(*                                                                         *)
(* Every ledger operation runs under one mutex, so each is one action.     *)
(* The clock is read afresh by each of them and need not be monotonic.     *)
(***************************************************************************)
EXTENDS Integers, FiniteSets

CONSTANTS
  Conversation,   \* the rooms
  Batch,          \* inbound message batches
  Room,           \* the room each batch was sent to
  Time,           \* the clock readings
  Window          \* the values the supersede window setting may take

ASSUME RoomAssumption == Room \in [Batch -> Conversation]
ASSUME TimeAssumption == Time \subseteq Nat /\ 0 \in Time
ASSUME WindowAssumption == Window \subseteq Nat /\ 0 \in Window

VARIABLES
  ledger,         \* HashMap<ConversationId, ConversationTurns>
  stage,          \* how far each batch has come
  epoch,          \* TurnTicket.epoch
  arrivedAt,      \* TurnTicket.arrived_at
  burstStartedAt, \* Supersession.burst_started_at
  window,         \* Supersession.window
  armed,          \* Supersession.armed
  arrived,        \* history: how many batches have arrived
  stamp           \* history: the position of each batch among them, from 1

ticketVars == <<epoch, arrivedAt, arrived, stamp>>
handleVars == <<burstStartedAt, window, armed>>
ledgerVars == <<ledger, stage, ticketVars, handleVars>>

-----------------------------------------------------------------------------
Arrival == [epoch : Nat, arrived_at : Time]

ConversationTurns ==
  [serving : Nat, supersede : Nat, next_epoch : Nat, outstanding : Nat,
   admitted : Nat, finished : SUBSET Nat, arrivals : SUBSET Arrival]

NewTurns ==
  [serving |-> 0, supersede |-> 0, next_epoch |-> 0, outstanding |-> 0,
   admitted |-> 0, finished |-> {}, arrivals |-> {}]

(* A ticket waits; an admission runs, and has yielded once a boundary check *)
(* found it superseded; a batch ends completed, superseded, or dropped.     *)
State == {"new", "waiting", "running", "yielded", "completed", "superseded", "dropped"}

Admitted(b) == stage[b] \in {"running", "yielded"}
Live(b)     == stage[b] = "waiting" \/ Admitted(b)
Holders(c)  == {b \in Batch : Live(b) /\ Room[b] = c}
AdmittedIn(c) == {b \in Batch : Admitted(b) /\ Room[b] = c}

(* map.insert, map.remove and map.entry(c).or_insert_with(new). *)
Put(c, entry) == [d \in DOMAIN ledger \cup {c} |-> IF d = c THEN entry ELSE ledger[d]]
Without(c)    == [d \in DOMAIN ledger \ {c} |-> ledger[d]]
Entry(c)      == IF c \in DOMAIN ledger THEN ledger[c] ELSE NewTurns

LedgerInit ==
  /\ ledger = [c \in {} |-> NewTurns]
  /\ stage = [b \in Batch |-> "new"]
  /\ epoch = [b \in Batch |-> 0]
  /\ arrivedAt = [b \in Batch |-> 0]
  /\ arrived = 0
  /\ stamp = [b \in Batch |-> 0]
  /\ burstStartedAt = [b \in Batch |-> 0]
  /\ window = [b \in Batch |-> 0]
  /\ armed = [b \in Batch |-> FALSE]

-----------------------------------------------------------------------------
(* A conversation's turn state once a batch has joined the line. *)
Join(e, now) ==
  [e EXCEPT !.next_epoch  = e.next_epoch + 1,
            !.outstanding = e.outstanding + 1,
            !.arrivals    = e.arrivals \cup
                              {[epoch |-> e.next_epoch, arrived_at |-> now]},
            !.supersede   = e.next_epoch]

(* TurnLedger::arrive: the batch takes the next epoch, is recorded as an   *)
(* unanswered arrival, and raises the supersede level before anyone waits. *)
Arrive(b, now) ==
  LET c == Room[b]
      e == Entry(c)
  IN
    /\ stage[b] = "new"
    /\ ledger' = Put(c, Join(e, now))
    /\ stage' = [stage EXCEPT ![b] = "waiting"]
    /\ epoch' = [epoch EXCEPT ![b] = e.next_epoch]
    /\ arrivedAt' = [arrivedAt EXCEPT ![b] = now]
    /\ arrived' = arrived + 1
    /\ stamp' = [stamp EXCEPT ![b] = arrived + 1]
    /\ UNCHANGED handleVars

(* arrivals.first(): the Vec is filled and pruned in epoch order. *)
First(arrivals) == CHOOSE a \in arrivals : \A x \in arrivals : a.epoch <= x.epoch

BurstStart(b) ==
  LET arrivals == ledger[Room[b]].arrivals
  IN  IF arrivals = {} THEN arrivedAt[b] ELSE First(arrivals).arrived_at

(* The wait of TurnTicket::admit: the counter serves this ticket's epoch.   *)
(* Mutated: a plain mutex, which any waiter may win once the slot is free.  *)
ServedWhenFree(b) == ledger[Room[b]].admitted = 0
Served(b) == ledger[Room[b]].serving = epoch[b]

(* TurnTicket::admit, then TurnAdmission::supersession; the window w was    *)
(* read from the settings before the arrival.                              *)
AdmitTicket(b, w) ==
  LET c == Room[b] IN
    /\ stage[b] = "waiting"
    /\ c \in DOMAIN ledger
    /\ Served(b)
    /\ ledger' = [ledger EXCEPT ![c].admitted = @ + 1]
    /\ stage' = [stage EXCEPT ![b] = "running"]
    /\ burstStartedAt' = [burstStartedAt EXCEPT ![b] = BurstStart(b)]
    /\ window' = [window EXCEPT ![b] = w]
    /\ armed' = [armed EXCEPT ![b] = w # 0]
    /\ UNCHANGED ticketVars

(* Supersession::superseded, the two ways a poll at a boundary can change  *)
(* anything: past the window the handle latches disarmed for good, and     *)
(* within it a newer epoch makes the turn yield.                           *)
PastWindow(b, now) == now - burstStartedAt[b] > window[b]

Disarm(b, now) ==
  /\ stage[b] = "running"
  /\ armed[b]
  /\ PastWindow(b, now)
  /\ armed' = [armed EXCEPT ![b] = FALSE]
  /\ UNCHANGED <<ledger, stage, ticketVars, burstStartedAt, window>>

(* Mutated: the turn's own arrival counts. *)
SupersededByItself(b, now) ==
  /\ armed[b]
  /\ ~PastWindow(b, now)
  /\ ledger[Room[b]].supersede >= epoch[b]

Superseded(b, now) ==
  /\ armed[b]
  /\ ~PastWindow(b, now)
  /\ ledger[Room[b]].supersede > epoch[b]

Yield(b, now) ==
  /\ stage[b] = "running"
  /\ Room[b] \in DOMAIN ledger
  /\ Superseded(b, now)
  /\ stage' = [stage EXCEPT ![b] = "yielded"]
  /\ UNCHANGED <<ledger, ticketVars, handleVars>>

(* The loop of TurnLedger::exit that moves the counter past epoch n and    *)
(* over the run of epochs that already finished ahead of their turn.       *)
(* Mutated: the finished epochs are not skipped.                           *)
SkipNothing(t, n) == n + 1

Skip(t, n) ==
  CHOOSE m \in (n + 1)..t.next_epoch :
    /\ m \notin t.finished
    /\ \A k \in (n + 1)..(m - 1) : k \in t.finished

Advance(t, n) ==
  IF t.serving = n
    THEN [t EXCEPT !.serving  = Skip(t, n),
                   !.finished = t.finished \ ((n + 1)..(Skip(t, n) - 1))]
    ELSE [t EXCEPT !.finished = t.finished \cup {n}]

(* A holder that was not superseded answered, or abandoned, its own batch  *)
(* and every older one.                                                    *)
(* Mutated: its own arrival is kept.                                       *)
PruneOlder(t, n) == [t EXCEPT !.arrivals = {a \in t.arrivals : a.epoch >= n}]

Prune(t, n) == [t EXCEPT !.arrivals = {a \in t.arrivals : a.epoch > n}]

(* An admission leaves both counts, a bare ticket only the holders'.       *)
Discharge(t, wasAdmitted) ==
  [t EXCEPT !.outstanding = t.outstanding - 1,
            !.admitted    = IF wasAdmitted THEN t.admitted - 1 ELSE t.admitted]

(* A conversation's turn state once the holder of epoch n has left. *)
Left(t, n, wasAdmitted, superseded) ==
  LET advanced == Advance(Discharge(t, wasAdmitted), n)
  IN  IF superseded THEN advanced ELSE Prune(advanced, n)

(* TurnLedger::exit. *)
Exit(b, wasAdmitted, superseded, fate) ==
  LET c == Room[b]
      t == Left(ledger[c], epoch[b], wasAdmitted, superseded)
  IN
    /\ c \in DOMAIN ledger
    /\ ledger' = IF t.outstanding = 0 THEN Without(c) ELSE Put(c, t)
    /\ stage' = [stage EXCEPT ![b] = fate]
    /\ UNCHANGED <<ticketVars, handleVars>>

(* The turn ran to its end, was deferred, failed, or panicked. *)
Complete(b) == stage[b] = "running" /\ Exit(b, TRUE, FALSE, "completed")

(* route_messages marked the admission superseded before letting it go. *)
ExitSuperseded(b) == stage[b] = "yielded" /\ Exit(b, TRUE, TRUE, "superseded")

(* The caller went away while the ticket waited. *)
DropTicket(b) == stage[b] = "waiting" /\ Exit(b, FALSE, FALSE, "dropped")

LedgerNext ==
  \E b \in Batch :
    \/ \E now \in Time : Arrive(b, now)
    \/ \E w \in Window : AdmitTicket(b, w)
    \/ \E now \in Time : Disarm(b, now)
    \/ \E now \in Time : Yield(b, now)
    \/ Complete(b)
    \/ ExitSuperseded(b)
    \/ DropTicket(b)

(* A waiting task is woken when the counter reaches it, and a turn ends:   *)
(* its steps, its blocks and its model calls are all bounded.              *)
Fairness ==
  \A b \in Batch :
    /\ WF_ledgerVars(\E w \in Window : AdmitTicket(b, w))
    /\ WF_ledgerVars(Complete(b) \/ ExitSuperseded(b))

LedgerSpec == LedgerInit /\ [][LedgerNext]_ledgerVars

FairSpec == LedgerSpec /\ Fairness

-----------------------------------------------------------------------------
(* Properties.                                                             *)

(* Every variable has its type. *)
LedgerTypeOK ==
  /\ DOMAIN ledger \subseteq Conversation
  /\ ledger \in [DOMAIN ledger -> ConversationTurns]
  /\ stage \in [Batch -> State]
  /\ epoch \in [Batch -> Nat]
  /\ arrivedAt \in [Batch -> Time]
  /\ arrived \in Nat
  /\ stamp \in [Batch -> Nat]
  /\ burstStartedAt \in [Batch -> Time]
  /\ window \in [Batch -> Window]
  /\ armed \in [Batch -> BOOLEAN]

(* Two batches for one room never drive the shared session at once: the    *)
(* serialization guarantee of the ledger's slot.                           *)
OneTurnAtATime ==
  \A a, b \in Batch : Admitted(a) /\ Admitted(b) /\ Room[a] = Room[b] => a = b

(* The deli counter never stalls: while anybody holds a ticket or the      *)
(* slot, the epoch being served belongs to a live holder, however tickets  *)
(* were dropped ahead of it or behind it.                                  *)
CounterServesAHolder ==
  \A c \in DOMAIN ledger : \E b \in Holders(c) : epoch[b] = ledger[c].serving

(* A conversation's entry lives exactly as long as its holders, so the     *)
(* `serving` sender outlives every waiter (admit's expect cannot fire), no *)
(* epoch restarts under a live holder, and has_admitted_turn never reports *)
(* a room idle while a turn runs in it.                                    *)
EntryLivesWithHolders ==
  /\ \A b \in Batch : Live(b) => Room[b] \in DOMAIN ledger
  /\ \A c \in DOMAIN ledger : Holders(c) # {}
  /\ \A c \in DOMAIN ledger : (ledger[c].admitted > 0) <=> (AdmittedIn(c) # {})

(* Every burst keeps somebody to answer it: the batch that arrived last in *)
(* a room is never the one that gave way, whatever was superseded, dropped *)
(* or completed before it, and across removals of the room's entry.        *)
NewestNeverYields ==
  \A b \in Batch :
    stage[b] \in {"yielded", "superseded"} =>
      \E x \in Batch : Room[x] = Room[b] /\ stamp[x] > stamp[b]
                       /\ stage[x] \notin {"new", "yielded", "superseded"}

(* The arrivals no turn has answered when b takes the slot: b's own, and   *)
(* those of the run of superseded turns just before it.                    *)
Unanswered(b) ==
  {x \in Batch :
     /\ Room[x] = Room[b] /\ stamp[x] > 0 /\ stamp[x] <= stamp[b]
     /\ ~ \E y \in Batch : /\ Room[y] = Room[b]
                           /\ stamp[x] <= stamp[y] /\ stamp[y] < stamp[b]
                           /\ stage[y] \in {"completed", "dropped"}}

DroppedAfter(b) ==
  \E y \in Batch : Room[y] = Room[b] /\ stamp[y] > stamp[b] /\ stage[y] = "dropped"

(* The window is measured from the burst's first unanswered arrival: the   *)
(* origin admit snapshots is the arrival time of the oldest one, provided  *)
(* no ticket behind b in line has been dropped.                            *)
BurstOriginIsOldestUnanswered ==
  [][\A b \in Batch :
       stage[b] = "waiting" /\ stage'[b] = "running" /\ ~DroppedAfter(b) =>
         \E x \in Unanswered(b) :
           /\ \A y \in Unanswered(b) : stamp[x] <= stamp[y]
           /\ burstStartedAt'[b] = arrivedAt[x]]_ledgerVars

(* A ticket does not wait for ever. *)
TicketIsServed(b) == stage[b] = "waiting" ~> stage[b] # "waiting"

(* A superseded burst is answered: some later batch of the room completes, *)
(* unless its caller gave up on it.                                        *)
BurstIsAnswered(b) ==
  stage[b] = "superseded" ~>
    \E x \in Batch : Room[x] = Room[b] /\ stamp[x] > stamp[b]
                     /\ stage[x] \in {"completed", "dropped"}

(* The ledger implements the one-slot, arrival-ordered line of TurnSlot.   *)
phaseBar ==
  [b \in Batch |-> CASE stage[b] = "new" -> "new"
                     [] stage[b] = "waiting" -> "waiting"
                     [] Admitted(b) -> "admitted"
                     [] OTHER -> "left"]

aheadBar ==
  [b \in Batch |->
     {x \in Batch : Live(b) /\ Live(x) /\ Room[x] = Room[b] /\ epoch[x] < epoch[b]}]

Slot == INSTANCE TurnSlot WITH phase <- phaseBar, ahead <- aheadBar

(* Each step of the ledger is a step of TurnSlot, or leaves the slot alone. *)
ImplementsTurnSlot == Slot!Spec

-----------------------------------------------------------------------------
(* The inductive invariant behind these, one part per idea. *)

(* A live holder's epoch is still to be served, and has not been skipped. *)
EpochsInLine ==
  \A b \in Batch : Live(b) =>
    /\ Room[b] \in DOMAIN ledger
    /\ ledger[Room[b]].serving <= epoch[b]
    /\ epoch[b] < ledger[Room[b]].next_epoch
    /\ epoch[b] \notin ledger[Room[b]].finished

(* Live holders of one room have different epochs. *)
DistinctEpochs ==
  \A a, b \in Batch :
    Live(a) /\ Live(b) /\ Room[a] = Room[b] /\ epoch[a] = epoch[b] => a = b

(* Whoever runs is the one being served. *)
AdmittedIsServed ==
  \A b \in Batch : Admitted(b) => epoch[b] = ledger[Room[b]].serving

(* The finished epochs are ahead of the counter, and every epoch that is   *)
(* neither served nor finished has its holder.                             *)
NoHoleInLine ==
  \A c \in DOMAIN ledger :
    /\ ledger[c].finished \subseteq (ledger[c].serving + 1)..(ledger[c].next_epoch - 1)
    /\ \A e \in ledger[c].serving..(ledger[c].next_epoch - 1) :
         e \in ledger[c].finished \/ \E b \in Holders(c) : epoch[b] = e

(* The counts count. *)
CountsExact ==
  \A c \in DOMAIN ledger :
    /\ IsFiniteSet(Holders(c))
    /\ ledger[c].outstanding = Cardinality(Holders(c))
    /\ Holders(c) # {}
    /\ ledger[c].admitted = IF AdmittedIn(c) = {} THEN 0 ELSE 1

StampsInOrder == \A b \in Batch : stamp[b] <= arrived

(* n stands for the whole burst of room c: it has not given way, it came   *)
(* after every holder the supersede level is above, and if it is itself a  *)
(* holder the level is its own epoch.                                      *)
Stands(n, c) ==
  /\ Room[n] = c
  /\ stage[n] \notin {"new", "yielded", "superseded"}
  /\ Live(n) => epoch[n] = ledger[c].supersede
  /\ \A b \in Holders(c) : epoch[b] < ledger[c].supersede => stamp[b] < stamp[n]

SomebodyStands == \A c \in DOMAIN ledger : \E n \in Batch : Stands(n, c)

LineInv ==
  /\ LedgerTypeOK
  /\ EpochsInLine
  /\ DistinctEpochs
  /\ AdmittedIsServed
  /\ NoHoleInLine
  /\ CountsExact

(* The inductive invariant. *)
LedgerInv ==
  /\ LineInv
  /\ StampsInOrder
  /\ SomebodyStands
  /\ NewestNeverYields

-----------------------------------------------------------------------------
(* What the arrivals of an entry are.                                      *)

(* A turn answered x, or x or a later ticket was let go. *)
Answered(x) ==
  \E y \in Batch : /\ Room[y] = Room[x] /\ stamp[x] <= stamp[y]
                   /\ stage[y] \in {"completed", "dropped"}

Pending(c) == {x \in Batch : Room[x] = c /\ stage[x] # "new" /\ ~Answered(x)}

Record(x) == [epoch |-> epoch[x], arrived_at |-> arrivedAt[x]]

(* A room's entry records exactly the batches nobody has answered, those   *)
(* before it was created included: without an entry there are none.        *)
ArrivalsArePending ==
  \A c \in Conversation :
    IF c \in DOMAIN ledger THEN ledger[c].arrivals = {Record(x) : x \in Pending(c)}
                          ELSE Pending(c) = {}

(* The stamps tell the batches that have arrived apart. *)
StampsTell ==
  /\ \A x \in Batch : (stamp[x] = 0) <=> (stage[x] = "new")
  /\ \A x, y \in Batch : stage[x] # "new" /\ stamp[x] = stamp[y] => x = y

(* Epochs restart with the entry, and still those in use follow arrivals.  *)
InUse(x) == Live(x) \/ x \in Pending(Room[x])

EpochsFollowStamps ==
  /\ \A x, y \in Batch :
       InUse(x) /\ InUse(y) /\ Room[x] = Room[y] =>
         ((stamp[x] < stamp[y]) <=> (epoch[x] < epoch[y]))
  /\ \A x \in Batch :
       InUse(x) /\ Room[x] \in DOMAIN ledger => epoch[x] < ledger[Room[x]].next_epoch

(* Turns complete in the order of arrival. *)
CompletedInOrder ==
  \A x, y \in Batch :
    Live(x) /\ stage[y] = "completed" /\ Room[x] = Room[y] => stamp[y] < stamp[x]

(* The inductive invariant behind the origin of a burst. *)
OriginInv ==
  /\ LedgerInv
  /\ ArrivalsArePending
  /\ StampsTell
  /\ EpochsFollowStamps
  /\ CompletedInOrder

=============================================================================
