----------------------------- MODULE Transcripts -----------------------------
(***************************************************************************)
(* A turn looked up by its reference: the log tells the audience each turn *)
(* was spoken to, and a window around the turn is shown only as far as     *)
(* everyone now present was there, by identity class.  A turn is known by  *)
(* its position in the log.                                                *)
(***************************************************************************)
EXTENDS Integers, Sequences, FiniteSets

CONSTANTS
    Person,
    Room,
    MaxLog,         \* bound: events in the log
    Reach           \* turns asked for before and after the one named

VARIABLES
    log,
    sessions,       \* sessions opened so far
    class,          \* identity class of each person
    inRoom,         \* history: who is in each room
    heard,          \* history: who was in its room after each event
    shown           \* the last window, whom it was shown to and their classes

vars == <<log, sessions, class, inRoom, heard, shown>>

Init ==
    /\ log = << >>
    /\ sessions = 0
    /\ class = [p \in Person |-> p]
    /\ inRoom = [r \in Room |-> {}]
    /\ heard = << >>
    /\ shown = [turns |-> {}, present |-> {}, class |-> class]

-----------------------------------------------------------------------------
(* The pass over the log, read off any of its positions.                   *)

Starts(i, r) == log[i].type = "started" /\ log[i].room = r

Ended(i, r, k) ==
    \E j \in (i + 1)..k :
        log[j].type = "ended" /\ log[j].room = r /\ log[j].session = log[i].session

\* The start of the session open after k events: the last, until it ends.
Open(r, k) ==
    {i \in 1..k : /\ Starts(i, r)
                  /\ \A j \in (i + 1)..k : ~Starts(j, r)
                  /\ ~Ended(i, r, k)}

\* A join counts for the session it names, from there on.
Joined(i, r, k) ==
    {log[j].person : j \in {x \in (i + 1)..k : /\ log[x].type = "joined" /\ log[x].room = r
                                              /\ log[x].session = log[i].session}}

Audience(r, k) == UNION {log[i].people \cup Joined(i, r, k) : i \in Open(r, k)}

Session(r, k) == {log[i].session : i \in Open(r, k)}

AudienceTurns == {k \in DOMAIN log : log[k].type = "turn"}

AudienceAdmits(present, k) ==
    {class[p] : p \in present} \subseteq {class[p] : p \in Audience(log[k].room, k)}

-----------------------------------------------------------------------------
(* Resolution.  The answer is the turns of the window.                     *)

SessionTurns(focus) ==
    {k \in AudienceTurns : /\ log[k].room = log[focus].room
                           /\ Session(log[k].room, k) = Session(log[k].room, focus)}

Between(k, focus) == (k + 1)..focus \cup focus..(k - 1)

Around(focus) ==
    {k \in SessionTurns(focus) : Cardinality(SessionTurns(focus) \cap Between(k, focus)) <= Reach}

\* Mutant: only the turn asked for is held against the audience.
WholeWindow(focus, present) == Around(focus)

Window(focus, present) == {k \in Around(focus) : AudienceAdmits(present, k)}

Show(turns, present) == shown' = [turns |-> turns, present |-> present, class |-> class]

\* Found and admitted, or refused alike.
ResolveTurn(present, focus) ==
    /\ IF focus \in AudienceTurns /\ AudienceAdmits(present, focus)
       THEN Show(Window(focus, present), present)
       ELSE Show({}, present)
    /\ UNCHANGED <<log, sessions, class, inRoom, heard>>

-----------------------------------------------------------------------------
(* What is recorded meanwhile.                                             *)

Records(e) ==
    /\ Len(log) < MaxLog
    /\ log' = Append(log, e)
    /\ heard' = Append(heard, inRoom'[e.room])

\* A session opens for the people named; one left open by a crash is replaced.
Start(r, people) ==
    /\ inRoom' = [inRoom EXCEPT ![r] = people]
    /\ Records([type |-> "started", room |-> r, session |-> sessions + 1, people |-> people])
    /\ sessions' = sessions + 1
    /\ UNCHANGED <<class, shown>>

Current(r) == Session(r, Len(log))

Join(r, p) ==
    /\ p \notin inRoom[r]
    /\ inRoom' = [inRoom EXCEPT ![r] = @ \cup {p}]
    /\ \E s \in Current(r) : Records([type |-> "joined", room |-> r, session |-> s, person |-> p])
    /\ UNCHANGED <<sessions, class, shown>>

End(r) ==
    /\ inRoom' = [inRoom EXCEPT ![r] = {}]
    /\ \E s \in Current(r) : Records([type |-> "ended", room |-> r, session |-> s])
    /\ UNCHANGED <<sessions, class, shown>>

\* A turn outlives its session when the idle sweep closed it underneath.
Speak(r) ==
    /\ sessions > 0
    /\ UNCHANGED <<sessions, class, inRoom, shown>>
    /\ Records([type |-> "turn", room |-> r])

Merge(p, q) ==
    /\ class[p] < class[q]
    /\ class' = [x \in Person |-> IF class[x] = class[q] THEN class[p] ELSE class[x]]
    /\ UNCHANGED <<log, sessions, inRoom, heard, shown>>

\* The merge is taken back: everyone in it stands alone again.
Unmerge(p) ==
    /\ class[p] # p
    /\ class' = [x \in Person |-> IF class[x] = class[p] THEN x ELSE class[x]]
    /\ UNCHANGED <<log, sessions, inRoom, heard, shown>>

People == SUBSET Person \ {{}}

Next ==
    \/ \E r \in Room : \/ \E people \in People : Start(r, people)
                       \/ \E p \in Person : Join(r, p)
                       \/ End(r)
                       \/ Speak(r)
    \/ \E p, q \in Person : Merge(p, q)
    \/ \E p \in Person : Unmerge(p)
    \/ \E present \in People : \E focus \in 1..(Len(log) + 1) : ResolveTurn(present, focus)

Spec == Init /\ [][Next]_vars

-----------------------------------------------------------------------------
(* Properties.                                                             *)

\* Whoever is shown a turn was there when it was spoken, as themselves or as
\* someone merged with them (resolve_turn).
AudienceKept ==
    \A k \in shown.turns : \A p \in shown.present :
        \E q \in heard[k] : shown.class[q] = shown.class[p]

IsSeq(s) == s \in Seq({s[i] : i \in DOMAIN s})

RoomTypes ==
    /\ IsSeq(log) /\ IsSeq(heard)
    /\ Len(heard) = Len(log)
    /\ DOMAIN inRoom = Room
    /\ \A k \in DOMAIN log : log[k].room \in Room
    /\ shown = [turns |-> shown.turns, present |-> shown.present, class |-> shown.class]
    /\ shown.turns \subseteq DOMAIN log

\* AudienceKept made inductive: what the log tells is who was there.
RoomInv ==
    /\ RoomTypes
    /\ \A k \in DOMAIN log : heard[k] = Audience(log[k].room, k)
    /\ \A r \in Room : inRoom[r] = Audience(r, Len(log))
    /\ AudienceKept
=============================================================================
