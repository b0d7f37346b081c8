------------------------------- MODULE Indexer -------------------------------
(***************************************************************************)
(* The vector index follows the log by a cursor of its own database.  A    *)
(* catch-up reads the events past it, embeds what they leave standing,     *)
(* applies each operation in a transaction of its own, and moves the       *)
(* cursor last.  A boot under another embedding model clears the index     *)
(* and starts again from the log.                                          *)
(***************************************************************************)
EXTENDS Integers, Sequences

CONSTANTS
    Entry, Mem,
    On,             \* On[e]: its memory
    Models,         \* embedding models
    MaxLog,         \* bound: events in the log
    MaxCrashes      \* bound: crashes, reboots and deletions of the index

VARIABLES
    log,
    vectors,        \* the model of each stored vector, by key
    cursor,
    batch,          \* [at, ops, last]: the operations left, by key, of the catch-up under way
    configured,     \* the embedder's model
    phase,          \* serving | reembedding, in a boot | down
    crashes

vars == <<log, vectors, cursor, batch, configured, phase, crashes>>

\* The three key spaces.
Description(m) == <<"mem", m>>
EntryKey(e) == <<"entry", e>>
EntryContextual(e) == <<"entryctx", e>>

Key == {Description(m) : m \in Mem} \cup {EntryKey(e) : e \in Entry}
          \cup {EntryContextual(e) : e \in Entry}

Absent == "absent"

NoBatch == [at |-> "idle", ops |-> << >>, last |-> 0]

Init ==
    /\ log = << >>
    /\ vectors = [k \in Key |-> Absent]
    /\ cursor = 0
    /\ batch = NoBatch
    /\ configured \in Models
    /\ phase = "serving"
    /\ crashes = 0

-----------------------------------------------------------------------------
Appended(e) == \E i \in DOMAIN log : log[i].type = "appended" /\ log[i].id = e
Deleted(m) == \E i \in DOMAIN log : log[i].type = "deleted" /\ log[i].id = m

Commit(type, id) ==
    /\ Len(log) < MaxLog
    /\ log' = Append(log, [type |-> type, id |-> id])
    /\ UNCHANGED <<vectors, cursor, batch, configured, phase, crashes>>

\* MemorySuperseded, EntryRetracted and EntriesConsolidated remove alike.
CommitEntry(e) ==
    \/ ~Appended(e) /\ Commit("appended", e)
    \/ Appended(e) /\ Commit("retired", e)

CommitMemory(m) ==
    \/ Commit("regenerated", m)
    \/ ~Deleted(m) /\ Commit("deleted", m)

\* The pending operation each event leaves on its keys; a memory that is gone
\* has no name to put before its entries' text.
OpsOf(ev) ==
    CASE ev.type = "appended" ->
            [k \in {EntryKey(ev.id)} \cup
                    (IF Deleted(On[ev.id]) THEN {} ELSE {EntryContextual(ev.id)}) |-> "embed"]
      [] ev.type = "retired" -> [k \in {EntryKey(ev.id), EntryContextual(ev.id)} |-> "remove"]
      [] ev.type = "regenerated" -> [k \in {Description(ev.id)} |-> "embed"]
      [] ev.type = "deleted" -> [k \in {Description(ev.id)} |-> "remove"]
      [] OTHER -> << >>

Touches(i, k) == k \in DOMAIN OpsOf(log[i])

\* A later event's operation replaces an earlier one on the same key.
LastTouch(k, from, upto) ==
    CHOOSE i \in from..upto : Touches(i, k) /\ \A j \in from..upto : Touches(j, k) => j <= i

Pending(from, upto) ==
    [k \in {j \in Key : \E i \in from..upto : Touches(i, j)} |->
        OpsOf(log[LastTouch(k, from, upto)])[k]]

CatchUpReads ==
    /\ phase # "down"
    /\ batch.at = "idle"
    /\ cursor < Len(log)
    /\ batch' = [at |-> "embedding", last |-> Len(log),
                 ops |-> Pending(cursor + 1, Len(log))]
    /\ UNCHANGED <<log, vectors, cursor, configured, phase, crashes>>

\* The driver tries again at its next tick; in a boot the start fails.
EmbedFails ==
    /\ batch.at = "embedding"
    /\ batch' = NoBatch
    /\ phase' = IF phase = "serving" THEN "serving" ELSE "down"
    /\ UNCHANGED <<log, vectors, cursor, configured, crashes>>

Embedded ==
    /\ batch.at = "embedding"
    /\ batch' = [batch EXCEPT !.at = "applying"]
    /\ UNCHANGED <<log, vectors, cursor, configured, phase, crashes>>

\* One transaction per operation, the embeddings first, then the removals.
ApplyOp(k) ==
    /\ batch.at = "applying"
    /\ k \in DOMAIN batch.ops
    /\ batch.ops[k] = "remove" => \A j \in DOMAIN batch.ops : batch.ops[j] = "remove"
    /\ vectors' = [vectors EXCEPT ![k] = IF batch.ops[k] = "embed" THEN configured ELSE Absent]
    /\ batch' = [batch EXCEPT !.ops = [j \in DOMAIN batch.ops \ {k} |-> batch.ops[j]]]
    /\ UNCHANGED <<log, cursor, configured, phase, crashes>>

\* Mutant: the cursor moves before the operations are in.
CursorMovesFirst == batch.at = "applying"

CursorMoves == batch.at = "applying" /\ DOMAIN batch.ops = {}

SetCursor ==
    /\ CursorMoves
    /\ cursor' = batch.last
    /\ batch' = IF DOMAIN batch.ops = {} THEN NoBatch ELSE batch
    /\ phase' = "serving"
    /\ UNCHANGED <<log, vectors, configured, crashes>>

-----------------------------------------------------------------------------
RecordedModels == {vectors[k] : k \in Key} \ {Absent}

\* reembed_if_embedding_model_changed, before anything is served: a record of
\* the change, then the index and its cursor cleared in one transaction.
Cleared ==
    /\ log' = Append(log, [type |-> "model_changed", id |-> 0])
    /\ vectors' = [k \in Key |-> Absent]
    /\ cursor' = 0
    /\ phase' = "reembedding"

Boot(model) ==
    /\ crashes < MaxCrashes
    /\ crashes' = crashes + 1
    /\ configured' = model
    /\ batch' = NoBatch
    /\ IF RecordedModels \ {model} # {}
       THEN Cleared
       ELSE UNCHANGED <<log, vectors, cursor>> /\ phase' = "serving"

\* Stopped between the record of the change and the clearing.
BootCutShort(model) ==
    /\ crashes < MaxCrashes
    /\ RecordedModels \ {model} # {}
    /\ crashes' = crashes + 1
    /\ configured' = model
    /\ batch' = NoBatch
    /\ log' = Append(log, [type |-> "model_changed", id |-> 0])
    /\ phase' = "down"
    /\ UNCHANGED <<vectors, cursor>>

\* reindex, offline.
Reindex ==
    /\ crashes < MaxCrashes
    /\ crashes' = crashes + 1
    /\ vectors' = [k \in Key |-> Absent]
    /\ cursor' = 0
    /\ batch' = NoBatch
    /\ phase' = "down"
    /\ UNCHANGED <<log, configured>>

Next ==
    \/ phase = "serving" /\ \E e \in Entry : CommitEntry(e)
    \/ phase = "serving" /\ \E m \in Mem : CommitMemory(m)
    \/ CatchUpReads
    \/ EmbedFails
    \/ Embedded
    \/ \E k \in DOMAIN batch.ops : ApplyOp(k)
    \/ SetCursor
    \/ \E model \in Models : Boot(model) \/ BootCutShort(model)
    \/ Reindex

Spec == Init /\ [][Next]_vars

-----------------------------------------------------------------------------
\* The last event of some types about id, from seq to seq.
LastOf(types, id, from, upto) ==
    LET at == {i \in from..upto : log[i].type \in types /\ log[i].id = id}
    IN IF at = {} THEN "none" ELSE log[CHOOSE i \in at : \A j \in at : j <= i].type

Stands(added, removed, id) ==
    /\ LastOf({added, removed}, id, 1, cursor) = added
    /\ LastOf({removed}, id, cursor + 1, Len(log)) = "none"

(* What search finds once the instance serves: all of one model, every     *)
(* entry the cursor has passed unless the log retires it, none it has seen *)
(* retired, and the descriptions likewise, whatever crash cut an earlier   *)
(* batch short.                                                            *)
IndexFollowsTheLog ==
    phase = "serving" =>
        /\ RecordedModels \subseteq {configured}
        /\ \A e \in Entry :
             /\ Stands("appended", "retired", e) => vectors[EntryKey(e)] # Absent
             /\ LastOf({"appended", "retired"}, e, 1, cursor) = "retired" =>
                  vectors[EntryKey(e)] = Absent /\ vectors[EntryContextual(e)] = Absent
        /\ \A m \in Mem :
             Stands("regenerated", "deleted", m) => vectors[Description(m)] # Absent

Is(i, type, id) == log[i].type = type /\ log[i].id = id

IndexTypes ==
    /\ log \in Seq([type : {"appended", "retired", "regenerated", "deleted", "model_changed"},
                    id : Entry \cup Mem \cup {0}])
    /\ vectors \in [Key -> Models \cup {Absent}] /\ configured \in Models
    /\ phase \in {"serving", "reembedding", "down"}
    /\ cursor \in 0..Len(log)
    /\ batch = [at |-> batch.at, ops |-> batch.ops, last |-> batch.last]
    /\ batch.at \in {"idle", "embedding", "applying"}
    /\ DOMAIN batch.ops \subseteq Key
    /\ batch.at # "idle" => batch.last \in cursor..Len(log) /\ phase # "down"

\* An entry is appended once, before anything retires it.
RetiredAfter ==
    \A e \in Entry, i \in DOMAIN log : Is(i, "retired", e) =>
        /\ Appended(e)
        /\ \A j \in DOMAIN log : i < j => ~Is(j, "appended", e)

\* Something was added up to n and nothing removes it since; it was removed up to n.
Alive(added, removed, id, n) ==
    \E i \in 1..n : Is(i, added, id) /\ \A j \in (i + 1)..Len(log) : ~Is(j, removed, id)
Gone(e, n) == \E i \in 1..n : Is(i, "retired", e)

\* What the key of such a thing holds once the cursor has passed it, and what the batch is
\* about to make of it.
Kept(key, added, removed, id) ==
    /\ Alive(added, removed, id, cursor) => vectors[key] # Absent
    /\ batch.at # "idle" /\ Alive(added, removed, id, batch.last) =>
          IF key \in DOMAIN batch.ops THEN batch.ops[key] = "embed" ELSE vectors[key] # Absent
Freed(key, e) ==
    /\ Gone(e, cursor) => vectors[key] = Absent
    /\ batch.at # "idle" /\ Gone(e, batch.last) =>
          IF key \in DOMAIN batch.ops THEN batch.ops[key] = "remove" ELSE vectors[key] = Absent

\* IndexFollowsTheLog made inductive.
IndexInv ==
    /\ IndexTypes /\ RetiredAfter
    /\ phase # "down" => RecordedModels \subseteq {configured}
    /\ \A e \in Entry :
        Kept(EntryKey(e), "appended", "retired", e) /\ Freed(EntryKey(e), e)
            /\ Freed(EntryContextual(e), e)
    /\ \A m \in Mem : Kept(Description(m), "regenerated", "deleted", m)
=============================================================================
