----------------------------- MODULE Projections -----------------------------
(***************************************************************************)
(* The connector's mirror of platform state: a subject's attributes, each  *)
(* one live entry on the server that the connector supersedes by the id it *)
(* keeps in its own database, the cached memory id, and the part_of links. *)
(* Requests may fail before or after the server has committed them, and    *)
(* the connector may crash at any point.                                   *)
(***************************************************************************)
EXTENDS Integers, Sequences, FiniteSets, SequencesExt

CONSTANTS
    Attr,           \* attributes of the subject, in the order they are observed
    Value,          \* values an attribute may have besides none
    MaxChanges,     \* bound: changes on the platform and entries dropped
    MaxFaults       \* bound: lost requests, lost answers and crashes

VARIABLES
    current,        \* value of each attribute on the platform
    events,         \* observations whose handler waits for the lock
    db,             \* the connector's database: value and entry id by attribute
    cached,         \* memory id in the database
    memory,         \* the subject's memory on the server
    live,           \* live entries on the server
    ids,            \* entry ids given out
    sync,           \* the sync that holds the lock
    verified,       \* the subject was verified since boot
    linked,         \* members and channels marked as linked since boot
    calls,          \* link requests under way
    links,          \* part_of links on the server
    lost,           \* history: entries made that no row names, or names any more
    changes, faults

vars == <<current, events, db, cached, memory, live, ids, sync, verified, linked, calls,
          links, lost, changes, faults>>

none == "none"
Attributes == 1..Attr
Idle == [pc |-> "idle", want |-> << >>, seen |-> << >>, answer |-> << >>, left |-> {}]

Init ==
    /\ current = [a \in Attributes |-> none]
    /\ events = << >>
    /\ db = [a \in Attributes |-> [value |-> none, entry |-> 0]]
    /\ cached = 0
    /\ memory = 0
    /\ live = {}
    /\ ids = 0
    /\ sync = Idle
    /\ verified = FALSE
    /\ linked = FALSE
    /\ calls = {}
    /\ links = FALSE
    /\ lost = {}
    /\ changes = 0
    /\ faults = 0

LinksQuiet == UNCHANGED <<linked, calls, links>>

Faulty == faults < MaxFaults /\ faults' = faults + 1

-----------------------------------------------------------------------------
(* The platform.                                                           *)

\* A change, and a message or update whose handler has seen it.
Observe(a, v) ==
    /\ changes < MaxChanges
    /\ changes' = changes + 1
    /\ current' = [current EXCEPT ![a] = v]
    /\ events' = Append(events, current')
    /\ UNCHANGED <<db, cached, memory, live, ids, sync, verified, lost, faults>>
    /\ LinksQuiet

-----------------------------------------------------------------------------
(* A sync, under the lock of the database.  A row that cannot be read      *)
(* counts as never written, and one that cannot be written is let go.      *)

NeverRead == [value |-> none, entry |-> 0]

\* The attributes that are sent, in order: where each stands in the request.
Changed(s) == {a \in Attributes : s.seen[a].value # s.want[a]}

Place(s, a) == Cardinality({b \in Changed(s) : b <= a})

Requested(s, k) == CHOOSE a \in Changed(s) : Place(s, a) = k

\* Handlers reach the lock in any order; the rows misread, 0 being the memory id's.
Begin(i, misread) ==
    /\ sync.pc = "idle"
    /\ i \in DOMAIN events
    /\ IF misread = {} THEN UNCHANGED faults ELSE Faulty
    /\ LET seen == [a \in Attributes |-> IF a \in misread THEN NeverRead ELSE db[a]]
           read == [Idle EXCEPT !.want = events[i], !.seen = seen]
           learn == Changed(read) = {}
           uncached == cached = 0 \/ 0 \in misread
       IN /\ verified' = (verified \/ learn)
          /\ sync' = IF ~learn THEN [read EXCEPT !.pc = "project"]
                     ELSE IF uncached \/ ~verified THEN [Idle EXCEPT !.pc = "refresh"]
                     ELSE Idle
    /\ events' = RemoveAt(events, i)
    /\ UNCHANGED <<current, db, cached, memory, live, ids, lost, changes>>
    /\ LinksQuiet

\* resolve_or_mint_node
Minted == IF memory = 0 THEN 1 ELSE memory

\* Whatever the subject, the server takes one entry out for each it puts in:
\* supersede_if_live and retract_if_live let a target go that is not live.
Told(s) == {a \in Changed(s) : s.want[a] # none}

EntryFor(s, a) == IF s.want[a] = none THEN 0 ELSE ids + Cardinality({b \in Told(s) : b <= a})

Entries(s) == [k \in 1..Cardinality(Changed(s)) |-> EntryFor(s, Requested(s, k))]

Projected(s) ==
    {e \in live : e.id \notin {s.seen[a].entry : a \in Changed(s)}}
        \cup {[id |-> EntryFor(s, a), attr |-> a, value |-> s.want[a]] : a \in Told(s)}

\* One commit, then the answer.
ServerProjects ==
    /\ sync.pc = "project"
    /\ memory' = Minted
    /\ live' = Projected(sync)
    /\ ids' = ids + Cardinality(Told(sync))
    /\ sync' = [sync EXCEPT !.pc = "answered", !.answer = Entries(sync), !.left = Changed(sync)]
    /\ UNCHANGED <<current, events, db, cached, verified, lost, changes, faults>>
    /\ LinksQuiet

ServerResolves ==
    /\ sync.pc = "refresh"
    /\ memory' = Minted
    /\ sync' = [sync EXCEPT !.pc = "resolved"]
    /\ UNCHANGED <<current, events, db, cached, live, ids, verified, lost, changes, faults>>
    /\ LinksQuiet

\* Mutant: the answers are laid against every attribute observed.
AnswerByAttribute(s, a) == IF a \in DOMAIN s.answer THEN s.answer[a] ELSE 0

\* The answers are laid against the attributes that were sent.
AnswerFor(s, a) == s.answer[Place(s, a)]

\* The id of the memory is written, or its write fails.
CacheId == \/ cached' = memory /\ UNCHANGED faults
           \/ Faulty /\ UNCHANGED cached

Answer ==
    /\ sync.pc = "answered"
    /\ verified' = TRUE
    /\ CacheId
    /\ sync' = [sync EXCEPT !.pc = "writing"]
    /\ UNCHANGED <<current, events, db, memory, live, ids, lost, changes>>
    /\ LinksQuiet

\* What a row named and nobody replaced has no row any more.
Forgotten(a) == {db[a].entry} \ {0, sync.seen[a].entry}

\* Each row in a transaction of its own; one that fails is skipped.
WriteState(a) ==
    /\ sync.pc = "writing"
    /\ a \in sync.left /\ \A b \in sync.left : a <= b
    /\ \/ /\ db' = [db EXCEPT ![a] = [value |-> sync.want[a], entry |-> AnswerFor(sync, a)]]
          /\ lost' = lost \cup Forgotten(a)
          /\ UNCHANGED faults
       \/ /\ Faulty
          /\ lost' = lost \cup ({AnswerFor(sync, a)} \ {0})
          /\ UNCHANGED db
    /\ sync' = IF sync.left = {a} THEN Idle ELSE [sync EXCEPT !.left = @ \ {a}]
    /\ UNCHANGED <<current, events, cached, memory, live, ids, verified, changes>>
    /\ LinksQuiet

FinishRefresh ==
    /\ sync.pc = "resolved"
    /\ CacheId
    /\ sync' = Idle
    /\ UNCHANGED <<current, events, db, memory, live, ids, verified, lost, changes>>
    /\ LinksQuiet

\* What the server has committed and no row will name.
Unknown == {AnswerFor(sync, a) : a \in sync.left} \ {0}

\* The request or its answer is lost; the state stays as it was.
SyncFails ==
    /\ sync.pc \in {"project", "answered", "refresh", "resolved"}
    /\ Faulty
    /\ lost' = lost \cup Unknown
    /\ sync' = Idle
    /\ UNCHANGED <<current, events, db, cached, memory, live, ids, verified, changes>>
    /\ LinksQuiet

\* The agent or the operator drops a projected entry.
Dropped(e) ==
    /\ changes < MaxChanges
    /\ changes' = changes + 1
    /\ live' = live \ {e}
    /\ UNCHANGED <<current, events, db, cached, memory, ids, sync, verified, lost, faults>>
    /\ LinksQuiet

-----------------------------------------------------------------------------
(* Links: the mark is set before the request, and cleared before an unlink.*)

Calls(remove) == calls' = calls \cup {[remove |-> remove, n |-> changes]}

MessagesQuiet ==
    UNCHANGED <<current, events, db, cached, memory, live, ids, sync, verified, lost>>

Link ==
    /\ ~linked
    /\ linked' = TRUE
    /\ Calls(FALSE)
    /\ UNCHANGED <<links, changes, faults>>
    /\ MessagesQuiet

Unlink ==
    /\ changes < MaxChanges
    /\ changes' = changes + 1
    /\ linked' = FALSE
    /\ Calls(TRUE)
    /\ UNCHANGED <<links, faults>>
    /\ MessagesQuiet

\* Requests reach the server in any order, or not at all.
LinkHandled(call) ==
    /\ call \in calls
    /\ calls' = calls \ {call}
    /\ \/ links' = ~call.remove /\ UNCHANGED faults
       \/ Faulty /\ UNCHANGED links
    /\ UNCHANGED <<linked, changes>>
    /\ MessagesQuiet

-----------------------------------------------------------------------------
Crash ==
    /\ Faulty
    /\ events' = << >>
    /\ lost' = lost \cup Unknown
    /\ sync' = Idle
    /\ verified' = FALSE
    /\ linked' = FALSE
    /\ calls' = {}
    /\ UNCHANGED <<current, db, cached, memory, live, ids, links, changes>>

Next ==
    \/ \E a \in Attributes, v \in Value \cup {none} : Observe(a, v)
    \/ \E i \in DOMAIN events, misread \in SUBSET (0..Attr) : Begin(i, misread)
    \/ ServerProjects \/ ServerResolves \/ Answer \/ FinishRefresh \/ SyncFails
    \/ \E a \in sync.left : WriteState(a)
    \/ \E e \in live : Dropped(e)
    \/ Link \/ Unlink \/ \E call \in calls : LinkHandled(call)
    \/ Crash

Spec == Init /\ [][Next]_vars

-----------------------------------------------------------------------------
(* Properties.                                                             *)

Between == sync.pc \in {"idle", "refresh", "resolved"}

\* What the connector will supersede next is right, whatever was lost: between
\* syncs a live entry is the one its attribute's row names, with the value the row
\* has, unless a lost answer, a row not read or a row not written left it without
\* one; and a row names no live entry but one of its own attribute and value
\* (sync, supersede_if_live).
MirrorIsExact ==
    Between =>
        \A e \in live :
            /\ e.id \notin lost => db[e.attr] = [value |-> e.value, entry |-> e.id]
            /\ \A a \in Attributes :
                  db[a].entry = e.id => e.attr = a /\ e.value = db[a].value

\* An attribute has one live entry, however the connector and the server fail:
\* "a connector restart keeps superseding in place rather than re-appending a
\* duplicate".  The state is written after the answer, each row by itself, so a
\* crash in between makes the next sync append again (sync, write_state).
OneEntryPerAttribute == Between => \A e, f \in live : e.attr = f.attr => e = f

\* MirrorIsExact made inductive.  Entries are told apart by their ids, which are
\* fresh when the server gives them out.
Numbered ==
    /\ ids \in Nat
    /\ lost \subseteq 1..ids
    /\ \A e \in live : e.id \in 1..ids /\ e.attr \in Attributes
    /\ \A a \in Attributes : db[a].entry \in 0..ids
    /\ sync.pc = "project" => \A a \in Attributes : sync.seen[a].entry \in 0..ids

\* A row names an entry of its own, which was not lost.
RowsDiffer ==
    \A a \in Attributes : db[a].entry # 0 =>
        /\ db[a].entry \notin lost
        /\ \A b \in Attributes \ {a} : db[b].entry # db[a].entry

\* An answer still to be written gives out entries that nothing else names, and
\* what it replaces is gone.
AnswersAreFresh ==
    \A a \in sync.left :
        /\ a \in Attributes
        /\ AnswerFor(sync, a) \in 0..ids
        /\ \A e \in live : e.id # sync.seen[a].entry
        /\ AnswerFor(sync, a) # 0 =>
              /\ AnswerFor(sync, a) \notin lost
              /\ \A b \in Attributes : db[b].entry # AnswerFor(sync, a)
              /\ \A b \in sync.left \ {a} : AnswerFor(sync, b) # AnswerFor(sync, a)

Written(e) == db[e.attr] = [value |-> e.value, entry |-> e.id]

ToBeWritten(e) ==
    e.attr \in sync.left /\ AnswerFor(sync, e.attr) = e.id /\ sync.want[e.attr] = e.value

MirrorInv ==
    /\ sync = [pc |-> sync.pc, want |-> sync.want, seen |-> sync.seen, answer |-> sync.answer,
               left |-> sync.left]
    /\ DOMAIN db = Attributes
    /\ sync.pc \notin {"answered", "writing"} => sync.left = {}
    /\ Numbered
    /\ RowsDiffer
    /\ AnswersAreFresh
    /\ \A e \in live : e.id \notin lost => Written(e) \/ ToBeWritten(e)
=============================================================================
