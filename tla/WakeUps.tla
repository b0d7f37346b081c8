------------------------------ MODULE WakeUps ------------------------------
(***************************************************************************)
(* Reminders.  An entry dated after it was asserted falls due; the driver  *)
(* or any session open fires it; a session open raises to the people it is *)
(* for what has fired and was not raised yet.  Firing reads the graph and  *)
(* appends in one span of locks and folds in another; the drain reads,     *)
(* appends and folds in three.                                             *)
(***************************************************************************)
EXTENDS Occurrences, Visibility, SequencesExt

CONSTANTS
    Item,           \* entries, ordered like their seqs
    Note,           \* Note[e]: the memory it is on, its subjects, teller and posture
    Dates,          \* Dates[e]: the references that may be put on it
    Dated,          \* Dated[e]: the reference it was appended with
    Room,
    Present,        \* Present[r]: the people of the room
    Times,          \* the instants the clock goes through
    Cap,            \* max_wakeups_per_session
    MaxActs         \* bound: sessions opened, dates put or withdrawn, entries retired

VARIABLES
    now,
    rows,           \* the columns the graph has of each entry
    tail,           \* events appended and not yet folded
    driver,         \* idle | fired
    rooms,          \* the state of each room's session open
    acts,           \* how much of the bound is used
    raised,         \* the latest instance of each entry that was raised
    twice,          \* history: instances raised again, and whether by a room that
                    \* read while another's drain of the entry was under way
    excused         \* entries whose last firing was overtaken, see Excuses

vars == <<now, rows, tail, driver, rooms, acts, raised, twice, excused>>

-----------------------------------------------------------------------------
(* The fold.                                                               *)

AnchorBounds(rs, memory) ==
    LET timed == {e \in Item : Note[e].on = memory /\ rs[e].bounds.sort # None}
    IN IF timed = {} THEN NoBounds
       ELSE rs[CHOOSE e \in timed :
                 \A f \in timed : rs[e].bounds.sort <= rs[f].bounds.sort].bounds

OccurrenceColumns(rs, ref) ==
    BoundsOf(ref, IF ref.shape = "before_after" THEN AnchorBounds(rs, ref.anchor) ELSE NoBounds)

EntryTemporalResolved(rs, e, ref) ==
    LET dated == [rs[e] EXCEPT !.ref = ref, !.bounds = OccurrenceColumns(rs, ref)]
    IN [rs EXCEPT ![e] = IF ref = Untimed
                         THEN [dated EXCEPT !.fired = None, !.surfaced = None] ELSE dated]

ScheduledJobFired(rs, e, at) == [rs EXCEPT ![e].fired = at, ![e].surfaced = None]

ScheduledItemSurfaced(rs, e, at) == [rs EXCEPT ![e].surfaced = at]

Apply(rs, ev) ==
    CASE ev.type = "fired" -> ScheduledJobFired(rs, ev.e, ev.at)
      [] ev.type = "surfaced" -> ScheduledItemSurfaced(rs, ev.e, ev.at)
      [] ev.type = "resolved" -> EntryTemporalResolved(rs, ev.e, ev.ref)
      [] ev.type = "retired" -> [rs EXCEPT ![ev.e].live = FALSE]

Folded == FoldLeft(Apply, rows, tail)

\* The locked fold of whatever the log holds.
Materialize == rows' = Folded /\ tail' = << >>

-----------------------------------------------------------------------------
(* The reads.                                                              *)

DueOccurrences(rs, at) ==
    {e \in Item : /\ rs[e].live
                  /\ rs[e].fired = None
                  /\ rs[e].bounds.sort # None
                  /\ rs[e].asserted < rs[e].bounds.sort
                  /\ rs[e].bounds.sort <= at}

\* Mutant: every instance since the assertion, fired or not.
BaselineIsAsserted(row) == row.asserted

Baseline(row) == IF row.fired # None THEN row.fired ELSE row.asserted

DueRecurring(rs, at) ==
    {e \in Item : /\ rs[e].live
                  /\ rs[e].ref.shape = "recurring"
                  /\ LET next == NextOccurrence(rs[e].ref, rs[e].asserted, Baseline(rs[e]))
                     IN next # None /\ next <= at}

Due(rs, at) == DueOccurrences(rs, at) \cup DueRecurring(rs, at)

PendingWakeups(rs) ==
    {e \in Item : rs[e].live /\ rs[e].fired # None /\ rs[e].surfaced = None}

\* ORDER BY occurred_sort, seq: an entry without a sort comes first.
InOrder(rs, S) ==
    SetToSortSeq(S, LAMBDA e, f :
        \/ rs[e].bounds.sort < rs[f].bounds.sort
        \/ rs[e].bounds.sort = rs[f].bounds.sort /\ e < f)

ClassOf == [m \in Memory |-> m]

IsFor(e, present) ==
    /\ Visible([sup |-> 0, by |-> Note[e].by, vis |-> Note[e].vis], << >>,
               Note[e].about, present, ClassOf)
    /\ TargetsPresent(Note[e].about, Note[e].by, present, ClassOf)

Drain(rs, present) ==
    LET meant == SelectSeq(InOrder(rs, PendingWakeups(rs)), LAMBDA e : IsFor(e, present))
    IN {meant[i] : i \in 1..(IF Len(meant) < Cap THEN Len(meant) ELSE Cap)}

-----------------------------------------------------------------------------
(* What the record says has fallen due, by the definition of a recurrence. *)

Instances(row, at) ==
    IF row.ref.shape = "recurring"
    THEN {t \in {OccurrenceAt(row.ref, row.asserted, k) : k \in 1..MaxScan} : t <= at}
    ELSE {row.bounds.sort} \cap (row.asserted + 1)..at

LastInstance(row, at) ==
    LET is == Instances(row, at)
    IN IF is = {} THEN None ELSE CHOOSE t \in is : \A u \in is : u <= t

\* An edit the graph has not taken in yet is nobody's debt.
Owed(present, at) ==
    {e \in Item : /\ rows[e].live
                  /\ IsFor(e, present)
                  /\ LastInstance(rows[e], at) > raised[e]
                  /\ \A i \in DOMAIN tail : tail[i].e = e => tail[i].type = "fired"}

InDrain(e) == \E r \in Room : rooms[r].pc = "drained" /\ e \in rooms[r].drained

\* A firing is overtaken when a drain that read the entry without it will
\* mark it surfaced, or when the entry was withdrawn before it.
Excuses(fired) ==
    (excused \ fired) \cup {e \in fired : InDrain(e) \/ Folded[e].ref = Untimed}

-----------------------------------------------------------------------------
Closed == [pc |-> "closed", at |-> 0, drained |-> {}, owed |-> {}]

Init ==
    /\ now = 0
    /\ rows = [e \in Item |-> [ref |-> Dated[e], bounds |-> BoundsOf(Dated[e], NoBounds),
                               asserted |-> 0, live |-> TRUE,
                               fired |-> None, surfaced |-> None]]
    /\ tail = << >>
    /\ driver = "idle"
    /\ rooms = [r \in Room |-> Closed]
    /\ acts = 0
    /\ raised = [e \in Item |-> 0]
    /\ twice = {}
    /\ excused = {}

Fire(at) ==
    /\ tail' = tail \o [i \in 1..Cardinality(Due(rows, at)) |->
                           [type |-> "fired", e |-> SetToSeq(Due(rows, at))[i], at |-> at]]
    /\ excused' = Excuses(Due(rows, at))

Tick ==
    /\ \E t \in Times : /\ t > now
                        /\ \A u \in Times : u > now => t <= u
                        /\ now' = t
    /\ UNCHANGED <<rows, tail, driver, rooms, acts, raised, twice, excused>>

DriverFires ==
    /\ driver = "idle"
    /\ Due(rows, now) # {}
    /\ Fire(now)
    /\ driver' = "fired"
    /\ UNCHANGED <<now, rows, rooms, acts, raised, twice>>

DriverFolds ==
    /\ driver = "fired"
    /\ Materialize
    /\ driver' = "idle"
    /\ UNCHANGED <<now, rooms, acts, raised, twice, excused>>

\* Opening a session: fire what is due by the turn's instant.
OpenFires(r) ==
    /\ rooms[r].pc = "closed"
    /\ acts < MaxActs
    /\ acts' = acts + 1
    /\ Fire(now)
    /\ rooms' = [rooms EXCEPT ![r] =
                   [pc |-> IF Due(rows, now) = {} THEN "composing" ELSE "firing", at |-> now,
                    drained |-> {}, owed |-> Owed(Present[r], now)]]
    /\ UNCHANGED <<now, rows, driver, raised, twice>>

OpenFolds(r) ==
    /\ rooms[r].pc = "firing"
    /\ Materialize
    /\ rooms' = [rooms EXCEPT ![r].pc = "composing"]
    /\ UNCHANGED <<now, driver, acts, raised, twice, excused>>

\* The description catch-up, the brief and SessionStarted, with their folds.
Started(r) ==
    /\ rooms[r].pc = "composing"
    /\ Materialize
    /\ rooms' = [rooms EXCEPT ![r].pc = "started"]
    /\ UNCHANGED <<now, driver, acts, raised, twice, excused>>

DrainReads(r) ==
    /\ rooms[r].pc = "started"
    /\ LET drained == Drain(rows, Present[r])
           again == {e \in drained : LastInstance(rows[e], rows[e].fired) = raised[e]}
           crossed(e) == \E s \in Room \ {r} : /\ rooms[s].pc \in {"drained", "surfacing"}
                                               /\ e \in rooms[s].drained
       IN /\ rooms' = [rooms EXCEPT ![r].pc = IF drained = {} THEN "open" ELSE "drained",
                                    ![r].drained = drained]
          /\ raised' = [e \in Item |-> IF e \in drained
                                       THEN LastInstance(rows[e], rows[e].fired) ELSE raised[e]]
          /\ twice' = twice \cup {[e |-> e, crossed |-> crossed(e)] : e \in again}
          /\ excused' = excused \cup
               {e \in drained : \E i \in DOMAIN tail : tail[i].type = "fired" /\ tail[i].e = e}
    /\ UNCHANGED <<now, rows, tail, driver, acts>>

\* One append: the turn that raises them, and each marked as surfaced.
DrainAppends(r) ==
    /\ rooms[r].pc = "drained"
    /\ tail' = tail \o [i \in 1..Cardinality(rooms[r].drained) |->
                           [type |-> "surfaced", e |-> SetToSeq(rooms[r].drained)[i],
                            at |-> rooms[r].at]]
    /\ rooms' = [rooms EXCEPT ![r].pc = "surfacing"]
    /\ UNCHANGED <<now, rows, driver, acts, raised, twice, excused>>

DrainFolds(r) ==
    /\ rooms[r].pc = "surfacing"
    /\ Materialize
    /\ rooms' = [rooms EXCEPT ![r].pc = "open"]
    /\ UNCHANGED <<now, driver, acts, raised, twice, excused>>

Close(r) ==
    /\ rooms[r].pc = "open"
    /\ rooms' = [rooms EXCEPT ![r] = Closed]
    /\ UNCHANGED <<now, rows, tail, driver, acts, raised, twice, excused>>

\* The describer dates an untimed entry or withdraws a date; a block retires
\* an entry.  What an open session was owed goes with it.
Edit(ev) ==
    /\ acts < MaxActs
    /\ acts' = acts + 1
    /\ tail' = Append(tail, ev)
    /\ rooms' = [r \in Room |-> [rooms[r] EXCEPT !.owed = @ \ {ev.e}]]
    /\ UNCHANGED <<now, rows, driver, twice>>

Resolve(e, ref) ==
    /\ Folded[e].live
    /\ Folded[e].ref = Untimed
    /\ Edit([type |-> "resolved", e |-> e, ref |-> ref])
    /\ UNCHANGED <<raised, excused>>

Withdraw(e) ==
    /\ Folded[e].live
    /\ Folded[e].ref # Untimed
    /\ Edit([type |-> "resolved", e |-> e, ref |-> Untimed])
    /\ raised' = [raised EXCEPT ![e] = 0]
    /\ excused' = excused \ {e}

Retire(e) ==
    /\ Folded[e].live
    /\ Edit([type |-> "retired", e |-> e])
    /\ UNCHANGED <<raised, excused>>

Next ==
    \/ Tick
    \/ DriverFires
    \/ DriverFolds
    \/ \E r \in Room :
        \/ OpenFires(r)
        \/ OpenFolds(r)
        \/ Started(r)
        \/ DrainReads(r)
        \/ DrainAppends(r)
        \/ DrainFolds(r)
        \/ Close(r)
    \/ \E e \in Item :
        \/ \E ref \in Dates[e] : Resolve(e, ref)
        \/ Withdraw(e)
        \/ Retire(e)

Spec == Init /\ [][Next]_vars

-----------------------------------------------------------------------------
(* What was due for the people of a room when its session open began.      *)
IsRaised(e, r) ==
    \/ raised[e] >= LastInstance(rows[e], rooms[r].at)
    \/ Cardinality(rooms[r].drained) >= Cap

(* ensure_session fires and drains so that no one whose reminder has come  *)
(* due opens a conversation without it: once the open is done, whatever    *)
(* was due for the people there when it began has been raised, by this     *)
(* room or another, unless the cap was reached.  Excused is an instance    *)
(* whose firing a drain overtook (see Excuses), which the drain's mark may *)
(* cover though nobody raised it: EachIsRaisedOnce has it.                 *)
DueIsRaised ==
    \A r \in Room : rooms[r].pc = "open" =>
        \A e \in rooms[r].owed : IsRaised(e, r) \/ e \in excused

(* fired_at, surfaced_at and the recurrence's own count keep an instance   *)
(* from being raised by session after session, whatever fires and opens    *)
(* come in between.  Excused are a room that reads while another's drain   *)
(* of the entry is under way, and an instance fired twice at once: those   *)
(* may be raised twice, which EachIsRaisedOnce has.                        *)
RaisedOnce == \A x \in twice : x.crossed \/ x.e \in excused

(* Both without their excuses, as the scheduler and open_session have it:  *)
(* what has fired is marked as surfaced "so each is raised once", and      *)
(* "never raised again".  The drain reads under the graph's lock and       *)
(* appends the mark after releasing it, and the mark names the entry and   *)
(* not the instance, so a second room raises it too, or an instance fired  *)
(* in between is marked and raised by nobody.                              *)
EachIsRaisedOnce ==
    /\ twice = {}
    /\ \A r \in Room : rooms[r].pc = "open" => \A e \in rooms[r].owed : IsRaised(e, r)
=============================================================================
