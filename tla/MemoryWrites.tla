---------------------------- MODULE MemoryWrites ----------------------------
(***************************************************************************)
(* The memory and its write path, in four parts.                           *)
(*                                                                         *)
(* The graph: the materialized memory graph as a value, and what each      *)
(* event does to it: memories and their former names, entries with their   *)
(* accounts, links, tags, and the classes that same_as links make of       *)
(* memories.  DerivedGraph is about when an event is applied; this is      *)
(* about what.                                                             *)
(*                                                                         *)
(* The block: it buffers the events of its operations over the committed   *)
(* graph and commits them in one append; a turn's block and a maintenance  *)
(* pass's block run side by side, and the operator, the connectors and the *)
(* identity mints commit between their operations, for none of these takes *)
(* the memories' locks.                                                    *)
(*                                                                         *)
(* The writers: who writes, and in which order: turns and maintenance      *)
(* passes through their blocks, the operator through the console and the   *)
(* offline commands, connectors and identity mints in one commit each.     *)
(*                                                                         *)
(* Then the properties.                                                    *)
(***************************************************************************)
EXTENDS Visibility, TLC, SequencesExt

-----------------------------------------------------------------------------
(* The graph.                                                              *)

CONSTANTS
    Entry,          \* entry identifiers
    Name,           \* memory names
    PersonName,     \* those of the person namespace
    Qualified,      \* those bound to a platform handle
    NoName,
    Relation,       \* relation names other than same_as
    Symmetric       \* the symmetric ones

ASSUME EntryAssumption == Entry \subseteq Nat \ {0}
ASSUME NameAssumption ==
    PersonName \subseteq Name /\ Qualified \subseteq Name /\ NoName \notin Name
ASSUME RelationAssumption == Symmetric \subseteq Relation /\ "same_as" \notin Relation

Attestation == [teller : Teller, posture : Posture, live : BOOLEAN]

EntryRow ==
    [mem : Memory, by : Teller, vis : Posture, sup : Entry \cup {0},
     retracted : BOOLEAN, connector : BOOLEAN, att : Seq(Attestation)]

Link ==
    [from : Memory, to : Memory, rel : Relation \cup {"same_as"},
     source : {"agent", "operator", "connector"}, by : Teller, vis : Posture]

EmptyGraph ==
    [name |-> [m \in Memory |-> NoName], deleted |-> {}, designated |-> {},
     class |-> [m \in Memory |-> m], alias |-> << >>, confidential |-> {},
     links |-> {}, entries |-> << >>, person |-> << >>, room |-> << >>]

-----------------------------------------------------------------------------
(* Reads.  Lookups leave out soft-deleted rows; the name column does not.  *)

IsStored(g, m) == g.name[m] # NoName
IsAlive(g, m) == IsStored(g, m) /\ m \notin g.deleted
Stored(g) == {m \in Memory : IsStored(g, m)}
Alive(g) == {m \in Memory : IsAlive(g, m)}

\* fetch_memory by name: 0 when no live memory carries it.
MemoryByName(g, n) ==
    LET held == {m \in Memory : g.name[m] = n /\ m \notin g.deleted}
    IN IF held = {} THEN 0 ELSE CHOOSE m \in held : TRUE

MemoryIdForFormerName(g, n) ==
    IF n \in DOMAIN g.alias /\ IsAlive(g, g.alias[n]) THEN g.alias[n] ELSE 0

\* class_id(id).unwrap_or(id): what no live row answers for is its own class.
ClassId(g, m) == IF IsAlive(g, m) THEN g.class[m] ELSE m
ClassOf(g) == [m \in Memory |-> ClassId(g, m)]

ClassMembers(g, m) ==
    IF IsAlive(g, m) THEN {k \in Memory : IsAlive(g, k) /\ g.class[k] = g.class[m]} ELSE {}

SameAsClasses(g) ==
    {g.class[m] : m \in {k \in Alive(g) : Cardinality(ClassMembers(g, k)) > 1}}

SubjectParticipant(g, m) == IF g.name[m] \in PersonName THEN {m} ELSE {}

LiveEntry(g, e) == g.entries[e].sup = 0

ClassHistory(g, m) ==
    {e \in DOMAIN g.entries : LET k == g.entries[e].mem
                              IN IsAlive(g, m) /\ IsAlive(g, k) /\ g.class[k] = g.class[m]}
ClassEntries(g, m) == {e \in ClassHistory(g, m) : LiveEntry(g, e)}

\* AttestationScope: live rows for every read but the history.
AttestationsFor(g, e, scope) ==
    IF scope = "live" THEN SelectSeq(g.entries[e].att, LAMBDA r : r.live)
    ELSE g.entries[e].att

ClassLinks(g, m) ==
    {l \in g.links : /\ {l.from, l.to} \subseteq Alive(g)
                     /\ {l.from, l.to} \cap ClassMembers(g, m) # {}}

-----------------------------------------------------------------------------
(* Links are stored in one direction; a symmetric one with the least id    *)
(* first.                                                                  *)

IsSymmetric(rel) == rel = "same_as" \/ rel \in Symmetric

CanonicalEdge(from, to, rel) ==
    IF IsSymmetric(rel) /\ to < from THEN <<to, from>> ELSE <<from, to>>

EdgeOf(l) == <<l.from, l.to, l.rel>>

LinkedBy(g, a, b, rel) == {l \in g.links : EdgeOf(l) = <<a, b, rel>>}

(* The posture of the edge, or of one its classes already stand in.        *)
LinkBetween(g, from, to, rel) ==
    LET e == CanonicalEdge(from, to, rel)
        exact == LinkedBy(g, e[1], e[2], rel)
        same(a, b) == g.name[a] # NoName /\ g.name[b] # NoName /\ g.class[a] = g.class[b]
        equivalent ==
            {l \in g.links :
                /\ l.rel = rel
                /\ \/ same(l.from, e[1]) /\ same(l.to, e[2])
                   \/ IsSymmetric(rel) /\ same(l.from, e[2]) /\ same(l.to, e[1])}
        first == CHOOSE l \in equivalent :
                    \A k \in equivalent :
                        l.from < k.from \/ (l.from = k.from /\ l.to <= k.to)
    IN IF exact # {} THEN exact ELSE IF equivalent = {} THEN {} ELSE {first}

(* Union-find over the same_as edges, deleted memories included: the edges *)
(* are taken one at a time, the root of one end hung under the other's.    *)
Root(parent, x) ==
    LET up[i \in 0..Cardinality(Memory)] == IF i = 0 THEN x ELSE parent[up[i - 1]]
    IN up[Cardinality(Memory)]

SameAsEdges(g) == {<<l.from, l.to>> : l \in {k \in g.links : k.rel = "same_as"}}

UnionAll(edges) ==
    FoldSet(LAMBDA e, parent : [parent EXCEPT ![Root(parent, e[1])] = Root(parent, e[2])],
            [m \in Memory |-> m], edges)

(* The primary of a class: a designated member before an undesignated one, *)
(* and the least id among equals.                                          *)
PrimaryOf(members, designated) ==
    LET pool == IF members \cap designated # {} THEN members \cap designated ELSE members
    IN CHOOSE m \in pool : \A k \in pool : m <= k

RecomputeClasses(g) ==
    LET parent == UnionAll(SameAsEdges(g))
        root == [m \in Memory |-> Root(parent, m)]
        members(m) == {k \in Stored(g) : root[k] = root[m]}
    IN [g EXCEPT !.class =
            [m \in Memory |-> IF m \in Stored(g)
                              THEN PrimaryOf(members(m), g.designated) ELSE m]]

-----------------------------------------------------------------------------
(* What each event writes.  A platform handle and the locator of a room    *)
(* are identified with the memory name the code derives from them.         *)

Without(f, S) == [x \in DOMAIN f \ S |-> f[x]]

MemoryCreated(g, id, name) == [g EXCEPT !.name[id] = name, !.class[id] = id]

MemoryRenamed(g, id, old, new) ==
    [g EXCEPT !.name[id] = new, !.alias = (old :> id) @@ @]

\* A deleted context memory takes its conversation with it.
MemoryDeleted(g, id) ==
    [g EXCEPT !.deleted = @ \cup {id},
              !.room = Without(@, {n \in DOMAIN @ : @[n] = id})]

\* The entry's origin is the source of its event.
MemoryContentAppended(g, id, e, by, vis, connector) ==
    [g EXCEPT !.entries =
        (e :> [mem |-> id, by |-> by, vis |-> vis, sup |-> 0, retracted |-> FALSE,
               connector |-> connector,
               att |-> <<[teller |-> by, posture |-> vis, live |-> TRUE]>>]) @@ @]

Superseded(g, S, by) ==
    [g EXCEPT !.entries =
        [e \in DOMAIN @ |-> IF e \in S THEN [@[e] EXCEPT !.sup = by] ELSE @[e]]]

Tombstone(row, e) == [row EXCEPT !.sup = e, !.retracted = TRUE]

Withdrawn(rows, who) ==
    [i \in DOMAIN rows |-> IF rows[i].teller \in who
                           THEN [rows[i] EXCEPT !.live = FALSE] ELSE rows[i]]

EntryRetracted(g, e) ==
    [g EXCEPT !.entries[e] = [Tombstone(@, e) EXCEPT !.att = Withdrawn(@, Teller)]]

\* One row per entry and teller: a second account replaces the first in place.
Upsert(rows, row) ==
    IF \E i \in DOMAIN rows : rows[i].teller = row.teller
    THEN [i \in DOMAIN rows |-> IF rows[i].teller = row.teller THEN row ELSE rows[i]]
    ELSE Append(rows, row)

EntryAttested(g, e, teller, posture) ==
    [g EXCEPT !.entries[e].att =
        Upsert(@, [teller |-> teller, posture |-> posture, live |-> TRUE])]

\* The last account withdrawn takes the entry with it.
AttestationRetracted(g, e, teller) ==
    LET rows == Withdrawn(g.entries[e].att, {teller})
        row == [g.entries[e] EXCEPT !.att = rows]
    IN [g EXCEPT !.entries[e] =
            IF \E i \in DOMAIN rows : rows[i].live THEN row ELSE Tombstone(row, e)]

ClassPrimaryDesignated(g, id, on) ==
    RecomputeClasses([g EXCEPT !.designated = IF on THEN @ \cup {id} ELSE @ \ {id}])

\* An upsert on the canonical edge; same_as also recomputes the classes.
LinkCreated(g, l) ==
    LET e == CanonicalEdge(l.from, l.to, l.rel)
        row == [l EXCEPT !.from = e[1], !.to = e[2]]
        h == [g EXCEPT !.links = (@ \ LinkedBy(g, e[1], e[2], l.rel)) \cup {row}]
    IN IF l.rel = "same_as" THEN RecomputeClasses(h) ELSE h

\* Mutant: the classes are left as they were.
LinkRemovedOnly(g, from, to, rel) ==
    LET e == CanonicalEdge(from, to, rel)
    IN [g EXCEPT !.links = @ \ LinkedBy(g, e[1], e[2], rel)]

LinkRemoved(g, from, to, rel) ==
    LET e == CanonicalEdge(from, to, rel)
        h == [g EXCEPT !.links = @ \ LinkedBy(g, e[1], e[2], rel)]
    IN IF rel = "same_as" THEN RecomputeClasses(h) ELSE h

TagApplied(g, id, on) ==
    [g EXCEPT !.confidential = IF on THEN @ \cup {id} ELSE @ \ {id}]

\* INSERT OR IGNORE: the first binding of a handle or a locator stays.
ParticipantIdentified(g, id, handle) == [g EXCEPT !.person = @ @@ (handle :> id)]
ConversationStarted(g, id, locator) == [g EXCEPT !.room = @ @@ (locator :> id)]

(* Can the fold apply the event?  The name column is unique over every     *)
(* row, the deleted ones included, and rows refer to stored rows.          *)
Applies(g, ev) ==
    CASE ev.type = "MemoryCreated" -> \A m \in Memory : g.name[m] # ev.name
      [] ev.type = "MemoryRenamed" -> \A m \in Memory \ {ev.id} : g.name[m] # ev.new
      [] ev.type = "MemoryContentAppended" -> ev.id \in Stored(g)
      [] ev.type = "LinkCreated" -> {ev.link.from, ev.link.to} \subseteq Stored(g)
      [] OTHER -> TRUE

Apply(g, ev) ==
    CASE ev.type = "MemoryCreated" -> MemoryCreated(g, ev.id, ev.name)
      [] ev.type = "MemoryRenamed" -> MemoryRenamed(g, ev.id, ev.old, ev.new)
      [] ev.type = "MemoryDeleted" -> MemoryDeleted(g, ev.id)
      [] ev.type = "MemoryContentAppended" ->
            MemoryContentAppended(g, ev.id, ev.entry, ev.by, ev.vis, ev.connector)
      [] ev.type = "MemorySuperseded" -> Superseded(g, {ev.entry}, ev.new)
      [] ev.type = "EntriesConsolidated" -> Superseded(g, ev.sources, ev.new)
      [] ev.type = "EntryRetracted" -> EntryRetracted(g, ev.entry)
      [] ev.type = "EntryAttested" -> EntryAttested(g, ev.entry, ev.by, ev.vis)
      [] ev.type = "AttestationRetracted" -> AttestationRetracted(g, ev.entry, ev.by)
      [] ev.type = "ClassPrimaryDesignated" -> ClassPrimaryDesignated(g, ev.id, ev.on)
      [] ev.type = "LinkCreated" -> LinkCreated(g, ev.link)
      [] ev.type = "LinkRemoved" -> LinkRemoved(g, ev.from, ev.to, ev.rel)
      [] ev.type = "TagChanged" -> TagApplied(g, ev.id, ev.on)
      [] ev.type = "ParticipantIdentified" -> ParticipantIdentified(g, ev.id, ev.name)
      [] ev.type = "ConversationStarted" -> ConversationStarted(g, ev.id, ev.name)
      [] ev.type = "MergeProposed" -> g

ApplyAll(g, events) == FoldLeft(Apply, g, events)

-----------------------------------------------------------------------------
(* The block.                                                              *)

CONSTANTS
    Actor,          \* who may hold a block open
    MayActAs,       \* the authorities each of them acts under
    Speaker,        \* the participants whose words a turn answers
    SelfName, OperatorName,
    Unset,          \* no posture asked for
    Asked,          \* the postures a caller asks for, Unset among them
    Seed,           \* the events of the log the run starts from
    MaxSteps        \* bound: operations and single commits after Seed

ASSUME ActorAssumption ==
    MayActAs \in [Actor -> SUBSET {"platform", "operator", "agent"}]
ASSUME AskedAssumption == Unset \notin Posture /\ Asked \subseteq Posture \cup {Unset}
ASSUME AnchorAssumption == SelfName \in Name /\ OperatorName \in PersonName
ASSUME BoundAssumption == MaxSteps \in Nat

VARIABLES
    graph,          \* the materialized graph
    block,          \* the block each actor holds
    steps,          \* operations and single commits so far
    wedged,         \* an appended event that no fold can apply
    kin             \* history: whom each block's speaker, and the self meanwhile,
                    \* have been one with

vars == <<graph, block, steps, wedged, kin>>

NoKin == [speaker |-> {}, self |-> {}]

Closed ==
    [open |-> FALSE, authority |-> "agent", speaker |-> Agent, private |-> FALSE,
     self |-> 0, operator |-> 0, connector |-> FALSE, task |-> "turn",
     buffer |-> << >>, seeds |-> {}]

(* MemoryBlock::new: the anchors and the room's confidentiality are read   *)
(* once, when the block opens.                                             *)
NewBlock(authority, speaker, private) ==
    [Closed EXCEPT !.open = TRUE, !.authority = authority, !.speaker = speaker,
                   !.private = private,
                   !.self = MemoryByName(graph, SelfName),
                   !.operator = MemoryByName(graph, OperatorName)]

OperatorBlock == NewBlock("operator", Agent, FALSE)
ConnectorBlock == [NewBlock("platform", Agent, FALSE) EXCEPT !.connector = TRUE]

Wrote(b, events) == [b EXCEPT !.buffer = @ \o events]

Pending(b, type) == {ev \in Range(b.buffer) : ev.type = type}

Deny == << >>       \* an operation that is refused buffers nothing

AllPending(type) == UNION {Pending(block[a], type) : a \in Actor}

\* Identifiers are drawn in order and never drawn twice.
FreshEntries(b) ==
    LET used == DOMAIN graph.entries
                  \cup {ev.entry : ev \in AllPending("MemoryContentAppended")
                                            \cup Pending(b, "MemoryContentAppended")}
    IN {e \in Entry \ used : \A f \in Entry \ used : e <= f}

FreshMemories(b) ==
    LET used == Stored(graph)
                  \cup {ev.id : ev \in AllPending("MemoryCreated") \cup Pending(b, "MemoryCreated")}
    IN {m \in Memory \ used : \A k \in Memory \ used : m <= k}

-----------------------------------------------------------------------------
(* What a block reads: the committed graph under its own pending events.   *)

Resolve(b, n) ==
    LET names == SelectSeq(b.buffer, LAMBDA ev :
                    \/ ev.type = "MemoryCreated" /\ ev.name = n
                    \/ ev.type = "MemoryRenamed" /\ ev.new = n)
    IN IF names # << >> THEN names[1].id ELSE MemoryByName(graph, n)

\* A pending rename does not show here.
ResolveName(b, m) ==
    LET created == {ev \in Pending(b, "MemoryCreated") : ev.id = m}
    IN IF created # {} THEN (CHOOSE ev \in created : TRUE).name
       ELSE IF IsAlive(graph, m) THEN graph.name[m] ELSE NoName

\* The block's `get`: a live or pending name first, then a former one.
Get(b, n) ==
    IF Resolve(b, n) # 0 THEN Resolve(b, n) ELSE MemoryIdForFormerName(graph, n)

PendingSuperseded(b) ==
    {ev.entry : ev \in Pending(b, "MemorySuperseded") \cup Pending(b, "EntryRetracted")}
        \cup UNION {ev.sources : ev \in Pending(b, "EntriesConsolidated")}

PendingAttestations(b, e) ==
    SelectSeq(b.buffer, LAMBDA ev : ev.type = "EntryAttested" /\ ev.entry = e)

Account(teller, posture) == [teller |-> teller, posture |-> posture, live |-> TRUE]

FoldPendingAttestations(b, e, base) ==
    FoldLeft(LAMBDA rows, ev :
                IF ev.type = "EntryAttested" /\ ev.entry = e
                THEN Upsert(rows, Account(ev.by, ev.vis))
                ELSE IF ev.type = "AttestationRetracted" /\ ev.entry = e
                THEN SelectSeq(rows, LAMBDA r : r.teller # ev.by)
                ELSE rows,
             base, b.buffer)

PendingEntries(b, members) ==
    {ev.entry : ev \in {p \in Pending(b, "MemoryContentAppended") : p.id \in members}}

(* The entries of a class that an operation may name, and what it sees of  *)
(* each: where it lives, its founding teller and posture, its accounts.    *)
LiveClassEntries(b, m) ==
    (ClassEntries(graph, m) \cup PendingEntries(b, ClassMembers(graph, m) \cup {m}))
        \ PendingSuperseded(b)

PendingRow(b, e) ==
    LET ev == CHOOSE p \in Pending(b, "MemoryContentAppended") : p.entry = e
    IN [mem |-> ev.id, by |-> ev.by, vis |-> ev.vis, connector |-> ev.connector,
        att |-> <<Account(ev.by, ev.vis)>>]

RowOf(b, e) == IF e \in DOMAIN graph.entries THEN graph.entries[e] ELSE PendingRow(b, e)

AccountsOf(b, e) ==
    FoldPendingAttestations(b, e, SelectSeq(RowOf(b, e).att, LAMBDA r : r.live))

\* What an operation addressed to m writes to: the primary of m's class.
ClassWriteTarget(b, m) ==
    LET primary == ClassId(graph, m)
    IN IF b.connector \/ primary \in {b.operator, b.self} \/ ~IsAlive(graph, primary)
       THEN m ELSE primary

SameTellerClass(a, b) ==
    \/ a = b
    \/ {a, b} \subseteq Memory /\ ClassId(graph, a) = ClassId(graph, b)

-----------------------------------------------------------------------------
(* The guards of the write path.                                           *)

\* Mutant: only a platform turn is kept from the self.
GuardSelfFromTurns(b, m) == b.authority # "platform" \/ m # b.self

GuardSelf(b, m) == b.authority = "operator" \/ m # b.self

GuardSelfMerge(b, from, to) == b.self \notin {from, to}

GuardOperator(b, m) == m # b.operator

GuardConfidentialUntag(b) == b.authority # "platform"

\* Mutant: whoever asks may retire a confidence.
AnyoneRetires(b, e) == e \in DOMAIN graph.entries \/ b.open

(* A platform turn does not retire what another confided: the speaker must *)
(* be among those who attest it.                                           *)
GuardForeignConfidence(b, e) ==
    \/ b.authority # "platform"
    \/ OpenToAll(RowOf(b, e).vis)
    \/ RowOf(b, e).by \notin Memory
    \/ \E i \in DOMAIN AccountsOf(b, e) :
           SameTellerClass(AccountsOf(b, e)[i].teller, b.speaker)

IsPerson(n) == n \in PersonName

(* The posture of a new entry: as asked, or the room's, or the default; a  *)
(* note of the agent's own about a person must ask.                        *)
ResolveVisibility(b, n, m, teller, asked) ==
    IF asked # Unset THEN {asked}
    ELSE IF b.private THEN {PrivateToTeller}
    ELSE IF teller = Agent /\ IsPerson(n) THEN {}
    ELSE {DefaultVisibility(IF IsPerson(n) THEN {m} ELSE {}, teller)}

ResolveLinkVisibility(b, from, to, asked) ==
    IF asked # Unset THEN {asked}
    ELSE IF b.private THEN {PrivateToTeller}
    ELSE IF b.authority = "platform" /\ b.speaker = Agent /\ IsPerson(ResolveName(b, to)) THEN {}
    ELSE {DefaultLinkVisibility(from, to, IsPerson(ResolveName(b, from))
                                            /\ IsPerson(ResolveName(b, to)), b.speaker)}

-----------------------------------------------------------------------------
(* The operations: the events each one buffers, none when it is refused.   *)

ContentEvent(b, m, e, teller, vis) ==
    [type |-> "MemoryContentAppended", id |-> m, entry |-> e, by |-> teller, vis |-> vis,
     connector |-> b.connector]

PushContent(b, m, teller, postures) ==
    IF postures = {} \/ FreshEntries(b) = {} THEN Deny
    ELSE <<ContentEvent(b, m, CHOOSE e \in FreshEntries(b) : TRUE, teller,
                        CHOOSE v \in postures : TRUE)>>

\* A seed of a platform turn about a person must say whom it is for.
CreateEvents(b, n, seeded, teller, asked) ==
    LET m == CHOOSE k \in FreshMemories(b) : TRUE
        created == <<[type |-> "MemoryCreated", id |-> m, name |-> n]>>
        mustAsk == b.authority = "platform" /\ IsPerson(n) /\ asked = Unset /\ ~b.private
        content == PushContent(b, m, teller, ResolveVisibility(b, n, m, teller, asked))
    IN IF Resolve(b, n) # 0 \/ FreshMemories(b) = {} THEN Deny
       ELSE IF ~seeded THEN created
       ELSE IF mustAsk \/ content = Deny THEN Deny ELSE created \o content

RenameEvents(b, m, n) ==
    LET old == ResolveName(b, m)
    IN IF /\ GuardSelf(b, m)
          /\ Resolve(b, n) = 0
          /\ old # NoName
          /\ b.authority = "platform" => {n, old} \cap Qualified = {}
       THEN <<[type |-> "MemoryRenamed", id |-> m, old |-> old, new |-> n]>> ELSE Deny

AppendEvents(b, m, teller, asked) ==
    LET id == ClassWriteTarget(b, m)
        postures == ResolveVisibility(b, ResolveName(b, id), id, teller, asked)
    IN IF /\ GuardSelf(b, id) /\ GuardOperator(b, id)
          /\ ~(id \in b.seeds /\ \E v \in postures : v.level = "exclude")
       THEN PushContent(b, id, teller, postures) ELSE Deny

SupersedeEvents(b, m, old, new) ==
    LET id == ClassWriteTarget(b, m)
        live == LiveClassEntries(b, id)
    IN IF /\ GuardSelf(b, id) /\ GuardOperator(b, id)
          /\ old \in live /\ new \in live
          /\ GuardForeignConfidence(b, old)
       THEN <<[type |-> "MemorySuperseded", id |-> id, entry |-> old, new |-> new]>> ELSE Deny

\* Append and supersede, or neither.
ReviseEvents(b, m, old, teller, asked) ==
    LET appended == AppendEvents(b, m, teller, asked)
        then == SupersedeEvents(Wrote(b, appended), m, old, appended[1].entry)
    IN IF appended = Deny \/ then = Deny THEN Deny ELSE appended \o then

Withdrawals(b, id, e, teller) ==
    LET own == SelectSeq(AccountsOf(b, e), LAMBDA r : SameTellerClass(r.teller, teller))
    IN [i \in DOMAIN own |->
            [type |-> "AttestationRetracted", id |-> id, entry |-> e, by |-> own[i].teller]]

(* A platform turn that attests with others withdraws its own account      *)
(* only; otherwise the entry goes.                                         *)
RetractEvents(b, m, e) ==
    LET id == ClassWriteTarget(b, m)
        own == Withdrawals(b, id, e, b.speaker)
    IN IF ~GuardSelf(b, id) \/ ~GuardOperator(b, id) \/ e \notin LiveClassEntries(b, id) THEN Deny
       ELSE IF b.authority = "platform" /\ own # << >> /\ Len(own) < Len(AccountsOf(b, e)) THEN own
       ELSE IF ~GuardForeignConfidence(b, e) THEN Deny
       ELSE <<[type |-> "EntryRetracted", id |-> id, entry |-> e]>>

RetractAttestationEvents(b, m, e, teller) ==
    LET id == ClassWriteTarget(b, m)
    IN IF GuardSelf(b, id) /\ GuardOperator(b, id) /\ e \in LiveClassEntries(b, id)
       THEN Withdrawals(b, id, e, teller) ELSE Deny

\* Mutant: the width of the account is not looked at.
RecordAnyAttestation(b, m, e, teller, postures) ==
    IF postures = {} THEN Deny
    ELSE <<[type |-> "EntryAttested", id |-> m, entry |-> e, by |-> teller,
            vis |-> CHOOSE v \in postures : TRUE]>>

(* An account is no wider than its entry, and the same account again is    *)
(* nothing new.                                                            *)
RecordAttestation(b, m, e, teller, postures) ==
    LET committed == IF e \in DOMAIN graph.entries
                     THEN AttestationsFor(graph, e, "live") ELSE << >>
        pending == PendingAttestations(b, e)
        held == SelectSeq(committed \o [i \in DOMAIN pending |->
                                            Account(pending[i].by, pending[i].vis)],
                          LAMBDA r : SameTellerClass(r.teller, teller))
        vis == CHOOSE v \in postures : TRUE
    IN IF /\ postures # {}
          /\ PostureWidth(vis) <= PostureWidth(RowOf(b, e).vis)
          /\ held = << >> \/ held[1].posture # vis
       THEN <<[type |-> "EntryAttested", id |-> m, entry |-> e, by |-> teller, vis |-> vis]>>
       ELSE Deny

AttestEvents(b, m, e, teller, asked) ==
    LET id == ClassWriteTarget(b, m)
        home == RowOf(b, e).mem
    IN IF GuardSelf(b, id) /\ GuardOperator(b, id) /\ e \in LiveClassEntries(b, id)
       THEN RecordAttestation(b, home, e, teller,
                              ResolveVisibility(b, ResolveName(b, home), home, teller, asked))
       ELSE Deny

(* What the vector index may capture an append with: a committed live      *)
(* entry of the class that its writer may see.                             *)
DedupTargets(b, m, teller) ==
    {e \in DOMAIN graph.entries :
        /\ LiveEntry(graph, e)
        /\ IsAlive(graph, graph.entries[e].mem)
        /\ ClassId(graph, graph.entries[e].mem) = ClassId(graph, ClassWriteTarget(b, m))
        /\ \/ OpenToAll(graph.entries[e].vis)
           \/ SameTellerClass(graph.entries[e].by, teller)}

CorroborateEvents(b, e, teller, asked) ==
    LET row == graph.entries[e]
    IN IF SameTellerClass(row.by, teller) THEN Deny
       ELSE RecordAttestation(b, row.mem, e, teller,
                ResolveVisibility(b, graph.name[row.mem], row.mem, teller, asked))

ProposeMergeEvents(b, from, to) ==
    IF from # to /\ GuardSelfMerge(b, from, to)
    THEN <<[type |-> "MergeProposed", from |-> from, to |-> to]>> ELSE Deny

IsEmptyProfile(m) == ClassEntries(graph, m) = {}

NewLink(b, from, to, rel, vis) ==
    [from |-> from, to |-> to, rel |-> rel, by |-> b.speaker, vis |-> vis,
     source |-> IF b.authority = "operator" THEN "operator" ELSE "agent"]

(* A link stands between classes, a same_as between members.  A platform   *)
(* turn may only propose a merge, and the agent merges only a profile that *)
(* is still empty.  A link already there is not told again; the room it    *)
(* was told in is left out, so telling it again elsewhere, which upserts   *)
(* the same row, buffers nothing here.                                     *)
LinkEvents(b, a, c, rel, asked) ==
    LET from == IF rel = "same_as" THEN a ELSE ClassWriteTarget(b, a)
        to == IF rel = "same_as" THEN c ELSE ClassWriteTarget(b, c)
        mayMerge == \/ b.authority = "operator"
                    \/ b.authority = "agent" /\ (IsEmptyProfile(a) \/ IsEmptyProfile(c))
        postures == ResolveLinkVisibility(b, from, to, asked)
        link == NewLink(b, from, to, rel, CHOOSE v \in postures : TRUE)
        stands == \E l \in LinkBetween(graph, from, to, rel) :
                    <<l.source, l.by, l.vis>> = <<link.source, link.by, link.vis>>
    IN IF rel = "same_as" /\ ~GuardSelfMerge(b, a, c) THEN Deny
       ELSE IF rel = "same_as" /\ ~mayMerge THEN ProposeMergeEvents(b, a, c)
       ELSE IF postures = {} \/ stands THEN Deny
       ELSE <<[type |-> "LinkCreated", link |-> link]>>

UnlinkEvents(b, a, c, rel) ==
    IF rel = "same_as" /\ (~GuardSelfMerge(b, a, c) \/ b.authority = "platform") THEN Deny
    ELSE IF rel = "same_as" THEN <<[type |-> "LinkRemoved", from |-> a, to |-> c, rel |-> rel]>>
    ELSE <<[type |-> "LinkRemoved", from |-> ClassWriteTarget(b, a),
            to |-> ClassWriteTarget(b, c), rel |-> rel]>>

DesignateEvents(b, m, on) ==
    IF GuardSelf(b, m)
    THEN <<[type |-> "ClassPrimaryDesignated", id |-> m, on |-> on]>> ELSE Deny

\* The tag vocabulary is taken to hold the one tag that matters here.
TagEvents(b, m, on) ==
    IF GuardSelf(b, m) /\ (on \/ GuardConfidentialUntag(b))
    THEN <<[type |-> "TagChanged", id |-> m, on |-> on]>> ELSE Deny

-----------------------------------------------------------------------------
(* The writers.                                                            *)

CONSTANTS
    Handle,         \* names that a platform identity is minted under
    ContextName,    \* names that a room is minted under
    Deletable,      \* memories the operator's delete-memory is aimed at
    MergePair,      \* pairs the operator merges
    ToldBy,         \* the tellers a script names in place of its speaker
    Nameable,       \* names a script makes or renames to
    Addressed,      \* memories a script writes to, beside those it makes
    Linkable        \* memories a script links

ASSUME HandleAssumption == Handle \subseteq Qualified /\ ContextName \subseteq Name
ASSUME ScriptAssumption ==
    /\ ToldBy \subseteq Teller /\ Nameable \subseteq Name
    /\ Addressed \cup Linkable \subseteq Memory
ASSUME DeletableAssumption == Deletable \subseteq Memory /\ MergePair \subseteq Memory \X Memory

NothingOpen ==
    /\ block = [a \in Actor |-> Closed]
    /\ steps = 0
    /\ wedged = FALSE
    /\ kin = [a \in Actor |-> NoKin]

Init == graph = ApplyAll(EmptyGraph, Seed) /\ NothingOpen

-----------------------------------------------------------------------------
(* One append, folded event by event until one does not apply.             *)

Folded(events) ==
    FoldLeft(LAMBDA s, ev : IF s.ok /\ Applies(s.g, ev)
                            THEN [g |-> Apply(s.g, ev), ok |-> TRUE]
                            ELSE [s EXCEPT !.ok = FALSE],
             [g |-> graph, ok |-> TRUE], events)

Budget == ~wedged /\ steps < MaxSteps

(* Whom the speaker of a block is one with, the speaker included, and whom *)
(* the agent's self is one with.                                           *)
KinOf(g, b) ==
    [speaker |-> IF b.open /\ b.speaker \in Memory
                 THEN ClassMembers(g, b.speaker) \cup {b.speaker} ELSE {},
     self |-> IF b.open /\ b.self # 0 THEN ClassMembers(g, b.self) \ {b.self} ELSE {}]

Commit(events) ==
    /\ graph' = Folded(events).g
    /\ wedged' = ~Folded(events).ok
    /\ kin' = [a \in Actor |->
                IF block'[a].open
                THEN LET now == KinOf(graph', block'[a])
                     IN [speaker |-> kin[a].speaker \cup now.speaker,
                         self |-> kin[a].self \cup now.self]
                ELSE NoKin]

\* A commit outside any block, by the server or with the server stopped.
Written(events) ==
    /\ ~wedged /\ events # Deny
    /\ steps' = steps + 1
    /\ UNCHANGED block
    /\ Commit(events)

Offline == \A a \in Actor : ~block[a].open

-----------------------------------------------------------------------------
(* The moves that end a canonical pass: every link of a merged person goes *)
(* to the primaries, and a parallel one is dropped.                        *)

RehomeEvents ==
    LET of(l) == <<ClassId(graph, l.from), ClassId(graph, l.to)>>
        slot(l) == CanonicalEdge(of(l)[1], of(l)[2], l.rel) \o <<l.rel>>
        edges == UNION {ClassLinks(graph, p) : p \in SameAsClasses(graph)}
        settled == {l \in edges : of(l) = <<l.from, l.to>>}
        moving == {l \in edges \ settled : /\ l.rel # "same_as" /\ l.source # "connector"
                                           /\ of(l)[1] # of(l)[2]}
        removed(l) == [type |-> "LinkRemoved", from |-> l.from, to |-> l.to, rel |-> l.rel]
        moved(l) == [type |-> "LinkCreated",
                     link |-> [l EXCEPT !.from = of(l)[1], !.to = of(l)[2]]]
        plan(s, l) ==
            [taken |-> s.taken \cup {slot(l)},
             events |-> s.events \o IF slot(l) \in s.taken THEN <<removed(l)>>
                                    ELSE <<removed(l), moved(l)>>]
    IN FoldLeft(plan, [taken |-> {slot(l) : l \in settled}, events |-> << >>],
                SetToSeq(moving)).events

-----------------------------------------------------------------------------
(* The life of a block.                                                    *)

SpeakersAs(authority) ==
    CASE authority = "platform" -> Speaker
      [] authority = "operator" -> {MemoryByName(graph, OperatorName)} \ {0}
      [] authority = "agent" -> {Agent}

\* Each tier of a consolidation, each cleanup and each canonical pass is a block.
TasksAs(authority) ==
    IF authority = "agent" THEN {"tier1", "tier2", "cleanup", "canonical"} ELSE {"turn"}

\* A turn's block is opened in a room, and is private in a confidential one.
OpenBlock(a) ==
    /\ Budget /\ ~block[a].open
    /\ \E authority \in MayActAs[a] :
       \E speaker \in SpeakersAs(authority) :
       \E private \in IF authority = "platform"
                      THEN {(graph.room[l] \in graph.confidential) : l \in DOMAIN graph.room}
                      ELSE {FALSE} :
       \E task \in TasksAs(authority) :
            block' = [block EXCEPT ![a] =
                        [NewBlock(authority, speaker, private) EXCEPT !.task = task]]
    /\ kin' = [kin EXCEPT ![a] = KinOf(graph, block'[a])]
    /\ UNCHANGED <<graph, steps, wedged>>

Perform(a, events) ==
    /\ ~wedged /\ events # Deny
    /\ block' = [block EXCEPT ![a] = Wrote(@, events)]
    /\ steps' = steps + 1
    /\ UNCHANGED <<graph, wedged, kin>>

EndBlock(a) ==
    /\ ~wedged /\ block[a].open
    /\ block' = [block EXCEPT ![a] = Closed]
    /\ UNCHANGED steps
    /\ Commit(block[a].buffer \o IF block[a].task = "canonical" THEN RehomeEvents ELSE << >>)

\* An abort, a script that failed for good, a pass that errs: nothing is kept.
AbortBlock(a) ==
    /\ ~wedged /\ block[a].open /\ block[a].buffer # << >>
    /\ block' = [block EXCEPT ![a] = Closed]
    /\ kin' = [kin EXCEPT ![a] = NoKin]
    /\ UNCHANGED <<graph, steps, wedged>>

-----------------------------------------------------------------------------
(* A turn's script: the operations of the Lua API.                         *)

Tellers(b) == {b.speaker} \cup ToldBy

TurnOf(a) == Budget /\ block[a].open /\ block[a].task = "turn"

\* What a script holds a handle of, and the entries it can name by one.
Held(b) == (Addressed \cap Stored(graph)) \cup {ev.id : ev \in Pending(b, "MemoryCreated")}
Named(b, m) == LiveClassEntries(b, ClassWriteTarget(b, m))

\* An unasked open seed is remembered, so that no exclusion is told beside it.
Create(a) ==
    /\ TurnOf(a) /\ ~wedged
    /\ \E n \in Nameable, seeded \in BOOLEAN, t \in Tellers(block[a]), v \in Asked :
        LET events == CreateEvents(block[a], n, seeded, t, v)
            open == seeded /\ v = Unset /\ OpenToAll(events[2].vis)
        IN /\ ~seeded => t = Agent /\ v = Unset
           /\ events # Deny
           /\ block' = [block EXCEPT ![a] =
                            [Wrote(@, events) EXCEPT
                                !.seeds = IF open THEN @ \cup {events[1].id} ELSE @]]
    /\ steps' = steps + 1
    /\ UNCHANGED <<graph, wedged, kin>>

\* A link may name a memory that does not exist yet: it is made, bare, but for the
\* operator and the rooms.  Which names are near a handle is left open: the refusal
\* of a near match is this step not taken.
LinkEndpoint(a) ==
    /\ TurnOf(a)
    /\ \E n \in Nameable \ ({OperatorName} \cup ContextName) :
        /\ Get(block[a], n) = 0
        /\ Perform(a, CreateEvents(block[a], n, FALSE, Agent, Unset))

Rename(a) ==
    /\ TurnOf(a)
    /\ \E m \in Held(block[a]), n \in Nameable : Perform(a, RenameEvents(block[a], m, n))

AppendNew(a) ==
    /\ TurnOf(a)
    /\ \E m \in Held(block[a]), t \in Tellers(block[a]), v \in Asked :
        Perform(a, AppendEvents(block[a], m, t, v))

\* An append the index takes for a fact already told becomes an account of it.
Corroborate(a) ==
    /\ TurnOf(a)
    /\ \E m \in Held(block[a]), t \in Tellers(block[a]), v \in Asked :
       \E e \in DedupTargets(block[a], m, t) :
        Perform(a, CorroborateEvents(block[a], e, t, v))

Supersede(a) ==
    /\ TurnOf(a)
    /\ \E m \in Held(block[a]) : \E old, new \in Named(block[a], m) :
        Perform(a, SupersedeEvents(block[a], m, old, new))

Revise(a) ==
    /\ TurnOf(a)
    /\ \E m \in Held(block[a]) :
       \E old \in Named(block[a], m), t \in Tellers(block[a]), v \in Asked :
        Perform(a, ReviseEvents(block[a], m, old, t, v))

Retract(a) ==
    /\ TurnOf(a)
    /\ \E m \in Held(block[a]) : \E e \in Named(block[a], m) :
        Perform(a, RetractEvents(block[a], m, e))

Attest(a) ==
    /\ TurnOf(a)
    /\ \E m \in Held(block[a]) :
       \E e \in Named(block[a], m), t \in Tellers(block[a]), v \in Asked :
        Perform(a, AttestEvents(block[a], m, e, t, v))

LinkAct(a) ==
    /\ TurnOf(a)
    /\ \E from, to \in Linkable \cap Stored(graph), rel \in Relation \cup {"same_as"},
          v \in Asked \cap {Unset, Public} :
        Perform(a, LinkEvents(block[a], from, to, rel, v))

Unlink(a) ==
    /\ TurnOf(a)
    /\ \E l \in graph.links : Perform(a, UnlinkEvents(block[a], l.from, l.to, l.rel))

TagAct(a) ==
    /\ TurnOf(a)
    /\ \E m \in Range(graph.room) \cup {block[a].self}, on \in BOOLEAN :
        Perform(a, TagEvents(block[a], m, on))

-----------------------------------------------------------------------------
(* The maintenance passes, on what the committed graph held when they read *)
(* it; a write the block refuses is skipped.                               *)

Task(a, task) == Budget /\ block[a].open /\ block[a].task = task

Curated(m) == {e \in ClassEntries(graph, m) : ~graph.entries[e].connector}

SourcesInOrder(S) == SetToSortSeq(S, <)

AttestedOn(id, e, teller, vis) ==
    [type |-> "EntryAttested", id |-> id, entry |-> e, by |-> teller, vis |-> vis]

(* Sources of one posture become one entry, told by their common teller or *)
(* else by the agent with an account for each.                             *)
ConsolidateEvents(b, m, S) ==
    LET id == ClassWriteTarget(b, m)
        row(e) == RowOf(b, e)
        postures == {row(e).vis : e \in S}
        tellers == {row(e).by : e \in S}
        founder == IF Cardinality(tellers) = 1 THEN CHOOSE t \in tellers : TRUE ELSE Agent
        content == PushContent(b, id, founder, postures)
        first(e) == \A f \in S : SameTellerClass(row(f).by, row(e).by) => e <= f
        others == SourcesInOrder({e \in S : ~SameTellerClass(row(e).by, founder) /\ first(e)})
        new == content[1].entry
    IN IF /\ GuardSelf(b, id) /\ GuardOperator(b, id)
          /\ S \subseteq LiveClassEntries(b, id)
          /\ \A e \in S : GuardForeignConfidence(b, e)
          /\ Cardinality(postures) = 1
          /\ Cardinality(tellers) = 1 \/ \A v \in postures : OpenToAll(v)
          /\ content # Deny
       THEN content
             \o [i \in DOMAIN others |->
                    AttestedOn(id, new, row(others[i]).by, content[1].vis)]
             \o <<[type |-> "EntriesConsolidated", id |-> id, sources |-> S, new |-> new]>>
       ELSE Deny

Consolidate(a) ==
    /\ Task(a, "tier1")
    /\ \E m \in Alive(graph) : \E S \in SUBSET Curated(m) :
        /\ Cardinality(S) >= 2
        /\ Perform(a, ConsolidateEvents(block[a], m, S))

IsAbsorbable(source, target) ==
    \/ target = Public /\ source # Public
    \/ target = Attributed /\ ~OpenToAll(source)

(* The sources' tellers become accounts of the wider entry, each at its    *)
(* own posture, unless it already holds that account.                      *)
ConsolidateIntoEvents(b, m, S, r) ==
    LET id == ClassWriteTarget(b, m)
        absorb(s, e) ==
            LET row == RowOf(b, e)
                held == \E i \in DOMAIN s.running :
                          /\ s.running[i].posture = row.vis
                          /\ SameTellerClass(s.running[i].teller, row.by)
            IN IF held THEN s
               ELSE [running |-> Append(s.running, Account(row.by, row.vis)),
                     events |-> Append(s.events, AttestedOn(id, r, row.by, row.vis))]
    IN IF /\ GuardSelf(b, id) /\ GuardOperator(b, id)
          /\ S # {} /\ S \cup {r} \subseteq LiveClassEntries(b, id)
          /\ \A e \in S : GuardForeignConfidence(b, e)
       THEN Append(FoldLeft(absorb, [running |-> AccountsOf(b, r), events |-> << >>],
                            SourcesInOrder(S)).events,
                   [type |-> "EntriesConsolidated", id |-> id, sources |-> S, new |-> r])
       ELSE Deny

\* An entry absorbed in a sweep absorbs none in it.
Absorb(a) ==
    /\ Task(a, "tier2")
    /\ \E m \in Alive(graph) : \E r \in Curated(m) : \E S \in SUBSET (Curated(m) \ {r}) :
        /\ \A e \in S : IsAbsorbable(graph.entries[e].vis, graph.entries[r].vis)
        /\ S \cap {ev.new : ev \in Pending(block[a], "EntriesConsolidated")} = {}
        /\ Perform(a, ConsolidateIntoEvents(block[a], m, S, r))

\* What a link already says is withdrawn.
CleanUpLinks(a) ==
    /\ Task(a, "cleanup")
    /\ \E m \in Alive(graph) : \E e \in Curated(m) :
        Perform(a, RetractEvents(block[a], m, e))

BareMembers(stub) == {k \in ClassMembers(graph, stub) : graph.name[k] \notin Qualified}

BindEvents(b, stub, k) ==
    LinkEvents(b, stub, k, "same_as", Public) \o DesignateEvents(b, k, TRUE)

\* A named profile that a stub of no class member gets: made, bound, designated.
MintEvents(b, stub, n) ==
    LET created == CreateEvents(b, n, FALSE, Agent, Unset)
        id == created[1].id
    IN IF created = Deny THEN Deny
       ELSE created \o BindEvents(Wrote(b, created), stub, id)

\* The model names a person by a bare handle, or abstains.
IdentifiedNames == PersonName \ Qualified

\* Without evidence the earliest member is taken; else the model decides.
ChooseBareMember(stub, bare) ==
    IF ClassEntries(graph, stub) = {} THEN {k \in bare : \A j \in bare : k <= j} ELSE bare

\* A name that neither the graph nor this pass has given out: suffixed until it is free.
UniqueNames(b) ==
    {n \in IdentifiedNames : /\ MemoryByName(graph, n) = 0
                             /\ \A ev \in Pending(b, "MemoryCreated") : ev.name # n}

\* A bare profile of no other class that holds what the stub itself told.
BorrowedEvidence(stub) ==
    {k \in Alive(graph) :
        /\ graph.name[k] \in IdentifiedNames
        /\ ClassMembers(graph, k) = {k}
        /\ \E e \in ClassEntries(graph, k) : graph.entries[e].by = stub}

Canonicalize(a) ==
    /\ Task(a, "canonical")
    /\ \E h \in DOMAIN graph.person :
        LET stub == graph.person[h]
            bare == BareMembers(stub)
        IN \/ /\ bare # {} /\ bare \cap graph.designated = {}
              /\ \E k \in ChooseBareMember(stub, bare) :
                    Perform(a, DesignateEvents(block[a], k, TRUE))
           \/ /\ bare = {} /\ ClassEntries(graph, stub) # {}
              /\ \E n \in UniqueNames(block[a]) : Perform(a, MintEvents(block[a], stub, n))
           \/ /\ bare = {} /\ ClassEntries(graph, stub) = {}
              /\ \E k \in BorrowedEvidence(stub) : Perform(a, BindEvents(block[a], stub, k))

-----------------------------------------------------------------------------
(* The operator: the console's acts, each a block of its own, and the      *)
(* offline commands, for which the server is stopped.                      *)

EditSelf ==
    LET b == OperatorBlock
    IN /\ b.self # 0
       /\ \/ Written(AppendEvents(b, b.self, Agent, Public))
          \/ \E old \in Entry : Written(ReviseEvents(b, b.self, old, Agent, Public))

RetractEntry ==
    \E m \in Alive(graph), e \in Entry : Written(RetractEvents(OperatorBlock, m, e))

RetractAttestation ==
    \E m \in Alive(graph), e \in Entry, t \in Teller :
        Written(RetractAttestationEvents(OperatorBlock, m, e, t))

OperatorLink(from, to) ==
    [from |-> from, to |-> to, rel |-> "same_as", source |-> "operator", by |-> Agent,
     vis |-> Public]

ConfirmMerge ==
    \E p \in MergePair : Written(<<[type |-> "LinkCreated", link |-> OperatorLink(p[1], p[2])]>>)

Mergeable == UNION {ClassMembers(graph, p[1]) \cup ClassMembers(graph, p[2]) : p \in MergePair}

Unmerge ==
    \E l \in graph.links :
        /\ l.rel = "same_as" /\ {l.from, l.to} \subseteq Alive(graph)
        /\ Written(<<[type |-> "LinkRemoved", from |-> l.from, to |-> l.to, rel |-> "same_as"]>>)

DesignatePrimary ==
    \E m \in Mergeable, on \in BOOLEAN :
        Written(<<[type |-> "ClassPrimaryDesignated", id |-> m, on |-> on]>>)

\* debug merge: refused across namespaces, and for one class already.
DebugMerge ==
    /\ Offline
    /\ \E p \in MergePair :
        /\ p[1] # p[2] /\ {p[1], p[2]} \subseteq Alive(graph)
        /\ IsPerson(graph.name[p[1]]) = IsPerson(graph.name[p[2]])
        /\ graph.class[p[1]] # graph.class[p[2]]
        /\ Written(<<[type |-> "LinkCreated", link |-> OperatorLink(p[1], p[2])]>>)

\* debug designate-primary: the class's other designations are released.
DebugDesignatePrimary ==
    /\ Offline
    /\ \E m \in Mergeable :
        LET others == SetToSeq((ClassMembers(graph, m) \cap graph.designated) \ {m})
            act(k, on) == [type |-> "ClassPrimaryDesignated", id |-> k, on |-> on]
            release == [i \in DOMAIN others |-> act(others[i], FALSE)]
        IN \/ m \in graph.designated /\ Written(<<act(m, FALSE)>>)
           \/ /\ m \notin graph.designated \/ others # << >>
              /\ Written(Append(release, act(m, TRUE)))

DebugRetract ==
    /\ Offline
    /\ \E e \in DOMAIN graph.entries :
        /\ LiveEntry(graph, e) /\ graph.entries[e].mem \in Alive(graph)
        /\ Written(<<[type |-> "EntryRetracted", id |-> graph.entries[e].mem, entry |-> e]>>)

DeleteMemory ==
    /\ Offline
    /\ \E m \in Deletable \cap Alive(graph) :
        Written(<<[type |-> "MemoryDeleted", id |-> m]>>)

-----------------------------------------------------------------------------
(* Identity mints and the connectors' writes.                              *)

FreshMemory == CHOOSE m \in FreshMemories(Closed) : TRUE

\* A handle is bound to the memory of its name, made when there is none.
ResolveOrMintParticipant ==
    \E h \in Handle \ DOMAIN graph.person :
        LET held == MemoryByName(graph, h)
            id == IF held # 0 THEN held ELSE FreshMemory
            bind == [type |-> "ParticipantIdentified", id |-> id, name |-> h]
        IN /\ held # 0 \/ FreshMemories(Closed) # {}
           /\ Written(IF held # 0 THEN <<bind>>
                      ELSE <<[type |-> "MemoryCreated", id |-> id, name |-> h], bind>>)

(* A message to a room without a conversation: its context memory is found *)
(* or made, then the conversation starts.                                  *)
ResolveOrMintConversation ==
    \E l \in ContextName \ DOMAIN graph.room :
        LET held == MemoryByName(graph, l)
            id == IF held # 0 THEN held ELSE FreshMemory
            start == [type |-> "ConversationStarted", id |-> id, name |-> l]
        IN /\ held # 0 \/ FreshMemories(Closed) # {}
           /\ Written(IF held # 0 THEN <<start>>
                      ELSE <<[type |-> "MemoryCreated", id |-> id, name |-> l], start>>)

\* A connector links what it knows of; it may not merge.
ConnectorLink ==
    \E from, to \in Linkable \cap (Range(graph.person) \cup Range(graph.room)), rel \in Relation :
        \/ Written(<<[type |-> "LinkCreated",
                      link |-> [from |-> from, to |-> to, rel |-> rel, source |-> "connector",
                                by |-> Agent, vis |-> Public]]>>)
        \/ Written(<<[type |-> "LinkRemoved", from |-> from, to |-> to, rel |-> rel]>>)

Projected == {e \in DOMAIN graph.entries : graph.entries[e].connector}

(* A connector's attributes of a person or a room: a new value is appended *)
(* and takes the old one's place if that is still live; a cleared one is   *)
(* retracted if it is.                                                     *)
Project ==
    \E m \in Range(graph.person) \cup Range(graph.room) :
        LET b == ConnectorBlock
            new == AppendEvents(b, m, Agent, Public)
            over(old) == SupersedeEvents(Wrote(b, new), m, old, new[1].entry)
        IN \/ Written(new)
           \/ /\ new # Deny
              /\ \E old \in Projected : Written(new \o over(old))
           \/ \E old \in Projected : Written(RetractEvents(b, m, old))

-----------------------------------------------------------------------------
Turn(a) ==
    \/ Create(a) \/ LinkEndpoint(a) \/ Rename(a) \/ AppendNew(a) \/ Corroborate(a)
    \/ Supersede(a) \/ Revise(a) \/ Retract(a) \/ Attest(a) \/ LinkAct(a) \/ Unlink(a)
    \/ TagAct(a)

Pass(a) == Consolidate(a) \/ Absorb(a) \/ CleanUpLinks(a) \/ Canonicalize(a)

Operator ==
    \/ EditSelf \/ RetractEntry \/ RetractAttestation \/ ConfirmMerge \/ Unmerge
    \/ DesignatePrimary \/ DebugMerge \/ DebugDesignatePrimary \/ DebugRetract \/ DeleteMemory

Connector == ResolveOrMintParticipant \/ ResolveOrMintConversation \/ ConnectorLink \/ Project

Next ==
    \/ \E a \in Actor : OpenBlock(a) \/ Turn(a) \/ Pass(a) \/ EndBlock(a) \/ AbortBlock(a)
    \/ Budget /\ (Operator \/ Connector)

Spec == Init /\ [][Next]_vars

-----------------------------------------------------------------------------

(* The class column is what the same_as links say, whatever order links,   *)
(* unlinks, designations, deletions and renames came in: a link never      *)
(* leaves a class, no part of a class stands apart from the rest, and the  *)
(* primary is its least designated member, or its least.  The incremental  *)
(* recomputation of recompute_classes is compared with that description.   *)
ClassesAreClosure ==
    LET edges == SameAsEdges(graph)
        crosses(e, U) == (e[1] \in U) # (e[2] \in U)
    IN \A m \in Stored(graph) :
        LET members == {k \in Stored(graph) : graph.class[k] = graph.class[m]}
            marked == members \cap graph.designated
        IN /\ \A e \in edges : ~crosses(e, members)
           /\ \A U \in SUBSET members \ {{}, members} : \E e \in edges : crosses(e, U)
           /\ graph.class[m] \in IF marked = {} THEN members ELSE marked
           /\ \A k \in IF marked = {} THEN members ELSE marked : graph.class[m] <= k

(* The audience-widening invariant: however an account came to an entry    *)
(* (an explicit attest, a captured append, a merge of entries, an absorbed *)
(* copy), it reaches no further than the posture the entry was founded     *)
(* with; and an entry stands only while somebody still stands behind it.   *)
AccountsFitTheirEntry ==
    \A e \in DOMAIN graph.entries :
        LET row == graph.entries[e]
        IN /\ row \in EntryRow
           /\ \A i \in DOMAIN row.att : PostureWidth(row.att[i].posture) <= PostureWidth(row.vis)
           /\ LiveEntry(graph, e) => \E i \in DOMAIN row.att : row.att[i].live

SeenBy(g, e, present) ==
    Visible(g.entries[e], AttestationsFor(g, e, "live"),
            SubjectParticipant(g, g.entries[e].mem), present, ClassOf(g))

CommittedBy(a) == block[a].open /\ ~block'[a].open

(* No one's platform turn takes a confidence from the person who confided  *)
(* it.  If a commit hides from its teller an entry they told in confidence *)
(* then the turn answered someone who stood behind it: a member of a class *)
(* the speaker has been in while the block was open.                       *)
ConfidenceStands ==
    [][\A a \in Actor :
        (CommittedBy(a) /\ block[a].authority = "platform" /\ graph' # graph) =>
            \A e \in DOMAIN graph.entries :
                LET row == graph.entries[e]
                    stoodBehind == {row.att[i].teller : i \in DOMAIN row.att}
                                     \cup {ev.by : ev \in Range(PendingAttestations(block[a], e))}
                IN (/\ row.by \in Memory /\ ~OpenToAll(row.vis)
                    /\ SeenBy(graph, e, {row.by})
                    /\ ~SeenBy(graph', e, {row.by}))
                   => stoodBehind \cap kin[a].speaker # {}]_vars

(* What the self says.                                                     *)
OwnEntries(g) ==
    {e \in DOMAIN g.entries : LiveEntry(g, e) /\ g.name[g.entries[e].mem] = SelfName}

TellerCommits(a) == CommittedBy(a) /\ block[a].authority # "operator"

KeepsItsOwn(a) == TellerCommits(a) => OwnEntries(graph') = OwnEntries(graph)

(* What the agent's self says is the operator's to write: while the self   *)
(* is in a class of its own, no turn of a participant and no maintenance   *)
(* pass adds an entry to it or ends one, by whatever handle or rename it   *)
(* comes and whatever another block or the operator commits meanwhile.     *)
(* Excused is a block that was open while an operator's merge had the self *)
(* in another's class (SelfIsOutOfReach).  Who stands behind an entry of   *)
(* the self is not compared: an append captured as a corroboration records *)
(* its account before any guard is asked (append_dedup).                   *)
SelfIsTheOperators == [][\A a \in Actor : kin[a].self = {} => KeepsItsOwn(a)]_vars

(* The same without the excuse, as the documentation has it: no path from  *)
(* a conversation or a pass to the self.  confirm_merge does not refuse    *)
(* the self, and guard_self compares the id a write is aimed at, so a      *)
(* write on the merged memory reaches the self's entries through the class.*)
SelfIsOutOfReach == [][\A a \in Actor : KeepsItsOwn(a)]_vars
=============================================================================
