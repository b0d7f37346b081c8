------------------------------ MODULE Describer ------------------------------
(***************************************************************************)
(* The describe catch-up.  A memory whose content moved past the mark of   *)
(* its last pass is stale; a pass walks the stale memories, takes the      *)
(* guard for each in turn, looks again, reads its entries, asks the model  *)
(* without a lock, and commits what came of it with a completion whose own *)
(* seq is the new mark.  The driver's pass and those of session opens run  *)
(* side by side.                                                           *)
(***************************************************************************)
EXTENDS Occurrences, SequencesExt

CONSTANTS
    Mem,            \* memories, ordered like their ids
    Entry,          \* entries that may be written
    On,             \* On[e]: its memory
    Posture,        \* Posture[e]: public | attributed | private
    States,         \* States[e]: whether its text names a time
    Authored,       \* Authored[e]: the date it is written with, or Untimed
    Passes,         \* the driver and the session opens
    Scope,          \* Scope[p]: the memories the pass is asked for
    Today,          \* the instant of every pass
    Readings,       \* the dates a model may read off a statement
    MaxChanges,     \* bound: entries written or retired, and renames
    MaxWalks        \* bound: walks begun, and crashes

VARIABLES
    head,           \* the seq of the last event
    content,        \* last_content_seq
    described,      \* last_described_seq
    ents,           \* the entries' columns, seq 0 while unwritten
    passes,         \* the state of each pass
    guard,          \* the holder of describe_guard, or Free
    changes, walks, \* the bounds used up
    seen,           \* the head when the last completed pass read the memory
    wasted          \* whether a pass read a memory it had nothing new of

vars == <<head, content, described, ents, passes, guard, changes, walks, seen, wasted>>

-----------------------------------------------------------------------------
Free == "free"

Idle == [at |-> "idle", todo |-> << >>, since |-> 0, from |-> 0,
         public |-> {}, attributed |-> {}, private |-> {}, eligible |-> {}, challengeable |-> {}]

Init ==
    /\ head = 1                 \* genesis marks what it wrote as described
    /\ content = [m \in Mem |-> 1]
    /\ described = [m \in Mem |-> 1]
    /\ ents = [e \in Entry |-> [seq |-> 0, ref |-> Untimed, live |-> FALSE]]
    /\ passes = [p \in Passes |-> Idle]
    /\ guard = Free
    /\ changes = 0
    /\ walks = 0
    /\ seen = [m \in Mem |-> 1]
    /\ wasted = FALSE

Stale(m) == content[m] > described[m]

StaleMemories(among) == {m \in among : Stale(m)}

\* What a walk has left, with the order it was listed in: last_content_seq, id.
Listed(among) == [m \in StaleMemories(among) |-> content[m]]

Current(todo) ==
    {m \in DOMAIN todo : \A n \in DOMAIN todo \ {m} :
        todo[m] < todo[n] \/ (todo[m] = todo[n] /\ m < n)}

Since(m, after) == {e \in Entry : On[e] = m /\ ents[e].live /\ ents[e].seq > after}

UntimedEntriesSince(m, after) == {e \in Since(m, after) : ents[e].ref = Untimed}
TimedEntriesSince(m, after) == {e \in Since(m, after) : ents[e].ref # Untimed}

-----------------------------------------------------------------------------
(* What blocks commit meanwhile.                                           *)

Write(e) ==
    /\ changes < MaxChanges
    /\ ents[e].seq = 0
    /\ head' = head + 1
    /\ ents' = [ents EXCEPT ![e] = [seq |-> head', ref |-> Authored[e], live |-> TRUE]]
    /\ content' = [content EXCEPT ![On[e]] = head']
    /\ changes' = changes + 1
    /\ UNCHANGED <<described, passes, guard, walks, seen, wasted>>

Rename(m) ==
    /\ changes < MaxChanges
    /\ head' = head + 1
    /\ content' = [content EXCEPT ![m] = head']
    /\ changes' = changes + 1
    /\ UNCHANGED <<described, ents, passes, guard, walks, seen, wasted>>

Retire(e) ==
    /\ changes < MaxChanges
    /\ ents[e].live
    /\ head' = head + 1
    /\ ents' = [ents EXCEPT ![e].live = FALSE]
    /\ changes' = changes + 1
    /\ UNCHANGED <<content, described, passes, guard, walks, seen, wasted>>

-----------------------------------------------------------------------------
(* A pass.                                                                 *)

\* load_synthesis_templates: without a template no walk begins.
RunCatchUp(p) ==
    /\ walks < MaxWalks
    /\ passes[p].at = "idle"
    /\ StaleMemories(Scope[p]) # {}
    /\ passes' = [passes EXCEPT ![p] = [Idle EXCEPT !.at = "walking", !.todo = Listed(Scope[p])]]
    /\ walks' = walks + 1
    /\ UNCHANGED <<head, content, described, ents, guard, changes, seen, wasted>>

\* The driver's tick, over all; a session open, over what its brief reads.
RunDescriber == RunCatchUp("driver")
DescribeCatchUpFor(p) == p # "driver" /\ RunCatchUp(p)

\* Mutant: what was stale when the walk began still is.
StillStaleAsListed(m) == TRUE

\* The look under the guard.
StillStale(m) == Stale(m)

Rest(pass, m) ==
    LET left == DOMAIN pass.todo \ {m}
    IN [Idle EXCEPT !.at = IF left = {} THEN "idle" ELSE "walking",
                    !.todo = Restrict(pass.todo, left)]

Skip(p, m) ==
    /\ passes[p].at = "walking"
    /\ guard = Free
    /\ ~StillStale(m)
    /\ passes' = [passes EXCEPT ![p] = Rest(@, m)]
    /\ UNCHANGED <<head, content, described, ents, guard, changes, walks, seen, wasted>>

\* One span of the graph's lock: the entries by posture, and the windows.
Read(p, m) ==
    LET live(postures) == {e \in Since(m, 0) : Posture[e] \in postures}
        eligible == UntimedEntriesSince(m, described[m])
        challengeable == TimedEntriesSince(m, described[m])
    IN /\ passes[p].at = "walking"
       /\ guard = Free
       /\ StillStale(m)
       /\ guard' = p
       /\ passes' = [passes EXCEPT ![p] =
            [@ EXCEPT !.at = "asking", !.since = described[m], !.from = head,
                      !.public = live({"public"}), !.attributed = live({"public", "attributed"}),
                      !.private = live({"attributed", "private"}) \cap (eligible \cup challengeable),
                      !.eligible = eligible, !.challengeable = challengeable]]
       /\ wasted' = (wasted \/ content[m] <= seen[m])
       /\ UNCHANGED <<head, content, described, ents, changes, walks, seen>>

\* What the calls put on the entries shown to them: dates that stand on the
\* eligible, withdrawals of the challengeable.  A call that fails says nothing.
Resolved(pass, m, e, ref, cue) ==
    /\ e \in pass.eligible \cap (pass.public \cup pass.private)
    /\ ~Suppressed(ref, cue, States[e],
                   {ents[f].ref : f \in Since(m, 0)} \ {Untimed}, Today)

Withdrawn(pass, e) == e \in pass.challengeable \cap (pass.public \cup pass.private)

\* Beside them: a description, when there are public entries and the text is
\* not blank, and an arbitration, of two accounts or more.
Events(pass, texts) == texts \cap
    ((IF pass.public # {} THEN {"regenerated"} ELSE {})
        \cup (IF Cardinality(pass.attributed) >= 2 THEN {"arbitrated"} ELSE {}))

Complete(p, m, dates, withdrawals, texts) ==
    LET pass == passes[p]
    IN /\ pass.at = "asking"
       /\ \A e \in DOMAIN dates : \E cue \in {"quoted", "foreign", "missing"} :
             Resolved(pass, m, e, dates[e], cue)
       /\ \A e \in withdrawals : Withdrawn(pass, e)
       /\ head' = head + Cardinality(DOMAIN dates) + Cardinality(withdrawals)
                       + Cardinality(Events(pass, texts)) + 1
       /\ ents' = [e \in Entry |->
             IF e \in DOMAIN dates THEN [ents[e] EXCEPT !.ref = dates[e]]
             ELSE IF e \in withdrawals THEN [ents[e] EXCEPT !.ref = Untimed] ELSE ents[e]]
       /\ described' = [described EXCEPT ![m] = head']
       /\ seen' = [seen EXCEPT ![m] = pass.from]
       /\ guard' = Free
       /\ passes' = [passes EXCEPT ![p] = Rest(@, m)]
       /\ UNCHANGED <<content, changes, walks, wasted>>

\* A store that refuses ends the walk; a crash ends them all.
Fail(p) ==
    /\ passes[p].at = "asking"
    /\ guard' = Free
    /\ passes' = [passes EXCEPT ![p] = Idle]
    /\ UNCHANGED <<head, content, described, ents, changes, walks, seen, wasted>>

Crash ==
    /\ walks < MaxWalks
    /\ \E p \in Passes : passes[p] # Idle
    /\ walks' = walks + 1
    /\ guard' = Free
    /\ passes' = [p \in Passes |-> Idle]
    /\ UNCHANGED <<head, content, described, ents, changes, seen, wasted>>

DatesOn(S) == UNION {[T -> Readings] : T \in SUBSET S}

Next ==
    \/ \E e \in Entry : Write(e) \/ Retire(e)
    \/ \E m \in Mem : Rename(m)
    \/ RunDescriber
    \/ \E p \in Passes :
        \/ DescribeCatchUpFor(p)
        \/ \E m \in Current(passes[p].todo) :
            \/ Skip(p, m)
            \/ Read(p, m)
            \/ \E dates \in DatesOn(passes[p].eligible),
                  withdrawals \in SUBSET passes[p].challengeable,
                  texts \in SUBSET {"regenerated", "arbitrated"} :
                    Complete(p, m, dates, withdrawals, texts)
        \/ Fail(p)
    \/ Crash

Spec == Init /\ [][Next]_vars

-----------------------------------------------------------------------------
(* "Two passes never redescribe the same memory for the same change": the  *)
(* session open's pass and the driver's, listing the same memory before    *)
(* either took the guard, read it for one change only once.                *)
DescribedOncePerChange == ~wasted

DescriberTypes ==
    /\ head \in Nat
    /\ content \in [Mem -> Nat] /\ described \in [Mem -> Nat] /\ seen \in [Mem -> Nat]
    /\ DOMAIN passes = Passes
    /\ \A p \in Passes :
        /\ DOMAIN passes[p].todo \subseteq Mem
        /\ passes[p].eligible \subseteq Entry /\ passes[p].challengeable \subseteq Entry
        /\ passes[p].from \in Nat /\ passes[p].from <= head

\* DescribedOncePerChange made inductive: a completion's own seq lies past what its pass read.
DescriberInv ==
    DescriberTypes /\ (\A m \in Mem : seen[m] <= described[m]) /\ DescribedOncePerChange
=============================================================================
