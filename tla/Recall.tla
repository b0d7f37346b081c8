------------------------------- MODULE Recall -------------------------------
(***************************************************************************)
(* What the agent is reminded of: the brief a session opens with, the      *)
(* console's trace of it, memory.search, and the ambient hint before a     *)
(* turn.  All are read from one graph, for the people present, while       *)
(* entries and links are written, retired, described and embedded, and     *)
(* people merged.                                                          *)
(*                                                                         *)
(* Text is the entry it says.  A block costs a character for its heading   *)
(* and one for each line.  An entry has its founding account only, and a   *)
(* query names the entry whose words it repeats; scores are data.          *)
(***************************************************************************)
EXTENDS Visibility, SequencesExt

CONSTANTS
    Self, People, Room,         \* the agent's memory, the people, the current room
    EntryKinds,                 \* entries that may be written: [on, by, vis, day, authored]
    LinkKinds,                  \* links that may be written: [from, to, rel, by, vis]
    Weight,                     \* relation_weight
    Audiences,                  \* who is present and who of them speaks
    WorkingSet,                 \* the threads a session opens with, in order
    RecentFacts, KeyRelationships, PresentCap, CharBudget, MaxUpcoming,     \* the settings
    SalienceCap,
    MaxActs                     \* bound

VARIABLES
    graph,      \* [entries, links, class, alive, desc, fts]
    indexed,    \* entries whose vectors are in the index
    acts

vars == <<graph, indexed, acts>>

-----------------------------------------------------------------------------
(* Writes, as the graph folds them.                                        *)

Init ==
    /\ graph = [entries |-> << >>, links |-> << >>, class |-> [m \in Memory |-> m],
                alive |-> Memory, desc |-> [m \in Memory |-> {}], fts |-> [m \in Memory |-> {}]]
    /\ indexed = {}
    /\ acts = 0

Acts == acts < MaxActs /\ acts' = acts + 1

\* Only public text enters the lexical index.
AppendEntry(kind) ==
    LET i == Len(graph.entries) + 1
    IN /\ Acts
       /\ kind.on \in graph.alive
       /\ graph' = [graph EXCEPT
              !.entries = Append(@, [on |-> kind.on, by |-> kind.by, vis |-> kind.vis, sup |-> 0,
                                     day |-> kind.day, authored |-> kind.authored]),
              !.fts[kind.on] = IF kind.vis = Public THEN @ \cup {i} ELSE @]
       /\ UNCHANGED indexed

\* Superseded or retracted: the lexical index is left as it is, the vectors follow later.
Retire(i) ==
    /\ Acts
    /\ graph.entries[i].sup = 0
    /\ graph' = [graph EXCEPT !.entries[i].sup = i]
    /\ UNCHANGED indexed

LinkCreated(kind) ==
    /\ Acts
    /\ kind \notin Range(graph.links)
    /\ graph' = [graph EXCEPT !.links = Append(@, kind)]
    /\ UNCHANGED indexed

\* The describer writes from what is public and live.
Described(m) ==
    LET public == {i \in DOMAIN graph.entries :
                      /\ graph.entries[i].on = m
                      /\ graph.entries[i].sup = 0
                      /\ graph.entries[i].vis = Public}
    IN /\ Acts
       /\ graph.desc[m] # public
       /\ graph' = [graph EXCEPT !.desc[m] = public]
       /\ UNCHANGED indexed

Indexed ==
    /\ Acts
    /\ indexed # {i \in DOMAIN graph.entries : graph.entries[i].sup = 0}
    /\ indexed' = {i \in DOMAIN graph.entries : graph.entries[i].sup = 0}
    /\ UNCHANGED graph

\* Two people turn out to be one, or not to be after all.
Merge(a, b) ==
    /\ Acts
    /\ graph.class[b] # a
    /\ graph' = [graph EXCEPT !.class = [m \in Memory |-> IF @[m] = b THEN a ELSE @[m]]]
    /\ UNCHANGED indexed

Unmerge(b) ==
    /\ Acts
    /\ graph.class[b] # b
    /\ graph' = [graph EXCEPT !.class[b] = b]
    /\ UNCHANGED indexed

Delete(m) ==
    /\ Acts
    /\ m \in graph.alive
    /\ graph' = [graph EXCEPT !.alive = @ \ {m}]
    /\ UNCHANGED indexed

-----------------------------------------------------------------------------
(* Reads of a class.                                                       *)

Subjects(m) == {m} \cap People

SeesEntry(g, m, i, present) ==
    Visible(g.entries[i], << >>, Subjects(m), present, g.class)

ClassHistory(g, m) ==
    SelectSeq([i \in DOMAIN g.entries |-> i],
              LAMBDA i : /\ g.entries[i].on \in g.alive
                         /\ g.class[g.entries[i].on] = g.class[m])

ClassEntries(g, m) == SelectSeq(ClassHistory(g, m), LAMBDA i : g.entries[i].sup = 0)

VisibleEntries(g, m, present) ==
    SelectSeq(ClassEntries(g, m), LAMBDA i : SeesEntry(g, m, i, present))

LastOf(s, n) == SubSeq(s, IF Len(s) > n THEN Len(s) - n + 1 ELSE 1, Len(s))
FirstOf(s, n) == SubSeq(s, 1, IF Len(s) < n THEN Len(s) ELSE n)

\* The links out of m's class, newest first, the far end under its primary.
ClassNeighborLinks(g, m) ==
    LET own(x) == g.class[x] = g.class[m]
        out(n) == LET l == g.links[n]
                  IN /\ own(l.from) # own(l.to)
                     /\ {l.from, l.to} \subseteq g.alive
        at == Reverse(SelectSeq([n \in DOMAIN g.links |-> n], out))
    IN [k \in DOMAIN at |->
          LET l == g.links[at[k]]
          IN [link |-> l, n |-> at[k], incoming |-> own(l.to),
              other |-> g.class[IF own(l.to) THEN l.from ELSE l.to]]]

SeesLink(g, v, present) == LinkVisible(v.link, FALSE, present, g.class)

\* The first of each key in the order they are read.
Deduped(links, keys) ==
    LET first(k) == \A j \in 1 .. (k - 1) : keys[j] # keys[k]
        kept == SelectSeq([k \in DOMAIN links |-> k], first)
    IN [k \in DOMAIN kept |-> links[kept[k]]]

-----------------------------------------------------------------------------
(* One memory's block.                                                     *)

\* Bug: what nobody here may see moves the neighbour up.
LatestEntry(g, other, present) == Len(ClassEntries(g, other))

NewestOf(seen) == IF seen = << >> THEN 0 ELSE Last(seen)

LatestVisibleEntry(g, other, present) == NewestOf(VisibleEntries(g, other, present))

\* By weight, then by what the audience saw of the neighbour last, then by its identity.
Ranked(g, links, present) ==
    LET scored == {[link |-> v, weight |-> Weight[v.link.rel],
                    recency |-> LatestVisibleEntry(g, v.other, present)] :
                      v \in {v \in Range(links) : v.other \in g.alive}}
        before(v, w) ==
            \/ v.weight > w.weight
            \/ v.weight = w.weight /\ v.recency > w.recency
            \/ v.weight = w.weight /\ v.recency = w.recency /\ v.link.other < w.link.other
        ranked == FirstOf(SetToSortSeq(scored, before), KeyRelationships)
    IN [k \in DOMAIN ranked |-> ranked[k].link]

ByRelation(links) ==
    Deduped(links, [k \in DOMAIN links |-> <<links[k].link.rel, links[k].other>>])

Relationships(g, m, present) ==
    Ranked(g, ByRelation(SelectSeq(ClassNeighborLinks(g, m), LAMBDA v : SeesLink(g, v, present))),
           present)

MemoryBrief(g, m, present) ==
    [summary |-> g.desc[m],
     facts |-> LastOf(VisibleEntries(g, m, present), RecentFacts),
     relationships |-> Relationships(g, m, present)]

\* What a participant who joins in mid-session is introduced by.
ComposeParticipant(g, m, present) ==
    IF m \in g.alive THEN <<MemoryBrief(g, m, present)>> ELSE << >>

Lines(brief) ==
    (IF brief.summary = {} THEN 0 ELSE 1) + Len(brief.facts) + Len(brief.relationships)

-----------------------------------------------------------------------------
(* The brief, packed: left is the budget, what take admits is optional.    *)

Charge(p, cost) == [p EXCEPT !.left = IF cost > @ THEN 0 ELSE @ - cost]
Block(p, kind, m, brief) ==
    [p EXCEPT !.blocks = Append(@, [kind |-> kind, of |-> m, brief |-> brief])]

NoLines == [summary |-> {}, facts |-> << >>, relationships |-> << >>]

SelfBlock(g, p, brief) ==
    [Charge(Block(p, "self", Self, brief), 1 + Lines(brief))
       EXCEPT !.classes = @ \cup {g.class[Self]}]

\* The room is its name and its description.
RoomBlock(g, p) ==
    LET brief == [NoLines EXCEPT !.summary = g.desc[Room]]
    IN IF Room \notin g.alive THEN p ELSE Charge(Block(p, "room", Room, brief), 1 + Lines(brief))

\* Most recently active first, whoever may see what they said.
RankedPresent(g, present) ==
    LET latest == [m \in present |-> NewestOf(ClassEntries(g, m))]
    IN SetToSortSeq(present, LAMBDA a, b :
          IF latest[a] # latest[b] THEN latest[a] > latest[b] ELSE a < b)

Ordered(ranked, a) ==
    SelectSeq(ranked, LAMBDA m : m \in a.speakers)
        \o SelectSeq(ranked, LAMBDA m : m \notin a.speakers)

\* A speaker under the cap has a block whatever it costs, another while the
\* budget lasts; everyone else is a name.
PlaceParticipant(g, a, p, m, brief, cost) ==
    LET under == p.full < PresentCap
        shown == [p EXCEPT !.classes = @ \cup {g.class[m]}]
        placed == [shown EXCEPT !.full = @ + 1, !.placed = @ \cup {m}]
    IN IF m \notin g.alive \/ g.class[m] \in p.classes THEN p
       ELSE IF under /\ m \in a.speakers THEN Charge(Block(placed, "present", m, brief), cost)
       ELSE IF under /\ cost <= p.left
       THEN [Block(placed, "present", m, brief) EXCEPT !.left = @ - cost, !.taken = @ + cost]
       ELSE Charge(Block(shown, "name", m, NoLines), 1)

Participant(g, a, p, m, brief) == PlaceParticipant(g, a, p, m, brief, 1 + Lines(brief))

PresentBlocks(g, p, a) ==
    IF a.present = {} THEN p
    ELSE FoldLeft(LAMBDA q, m : Participant(g, a, q, m, MemoryBrief(g, m, a.present)),
                  Charge(p, 1), Ordered(RankedPresent(g, a.present), a))

SkipsThread(g, a, p, m) ==
    \/ m = Self \/ m = Room \/ m \in a.present
    \/ g.class[m] \in p.classes
    \/ m \notin g.alive

Thread(g, a, p, m, brief) ==
    LET cost == 1 + Lines(brief)
    IN IF SkipsThread(g, a, p, m) \/ Lines(brief) = 0 \/ cost > p.left THEN p
       ELSE [Block(p, "thread", m, brief) EXCEPT
               !.left = @ - cost, !.taken = @ + cost, !.placed = @ \cup {m},
               !.classes = @ \cup {g.class[m]}]

\* A heading is paid for first, and given back when nothing follows it.
Heading(p) == [p EXCEPT !.left = @ - 1, !.taken = @ + 1]
UnderHeading(p, packed) == IF p.left < 1 \/ packed.blocks = p.blocks THEN p ELSE packed

ThreadBlocks(g, p, a) ==
    UnderHeading(p, FoldLeft(LAMBDA q, m : Thread(g, a, q, m, MemoryBrief(g, m, a.present)),
                             Heading(p), WorkingSet))

Upcoming(g, present) ==
    LET due == {i \in DOMAIN g.entries :
                   /\ g.entries[i].day > 0
                   /\ g.entries[i].on \in g.alive
                   /\ g.entries[i].sup = 0
                   /\ SeesEntry(g, g.entries[i].on, i, present)}
        soonest == SetToSortSeq(due, LAMBDA i, j :
                      IF g.entries[i].day # g.entries[j].day
                      THEN g.entries[i].day < g.entries[j].day ELSE i < j)
    IN FirstOf(soonest, MaxUpcoming)

UpcomingBlock(p, lines) ==
    LET q == Heading(p)
        fit == IF Len(lines) < q.left THEN Len(lines) ELSE q.left
    IN UnderHeading(p,
        IF fit = 0 THEN q
        ELSE [Block(q, "upcoming", Self, [NoLines EXCEPT !.facts = SubSeq(lines, 1, fit)])
                EXCEPT !.left = @ - fit, !.taken = @ + fit])

Compose(g, a) ==
    LET start == [blocks |-> << >>, left |-> CharBudget, taken |-> 0, classes |-> {}, full |-> 0,
                  placed |-> {}]
        self == SelfBlock(g, start, [MemoryBrief(g, Self, a.present) EXCEPT !.summary = {}])
        present == PresentBlocks(g, RoomBlock(g, self), a)
    IN UpcomingBlock(ThreadBlocks(g, present, a), Upcoming(g, a.present))

\* The console's account of it: which entries of each memory reached the brief.
SectionTrace(g, m, present, surfaced) ==
    IF surfaced THEN Range(LastOf(VisibleEntries(g, m, present), RecentFacts)) ELSE {}

ComposeTraced(g, a, p) ==
    LET section(m, surfaced) == <<m, SectionTrace(g, m, a.present, surfaced)>>
    IN {section(Self, TRUE)}
         \cup {section(m, TRUE) : m \in {Room} \cap g.alive}
         \cup {section(m, m \in p.placed) :
                 m \in (a.present \cup Range(WorkingSet)) \cap g.alive}

-----------------------------------------------------------------------------
(* Search and the ambient hint, for a query that repeats entry i.          *)

\* The snippet is cut from the content the index holds, or the description.
SearchLexical(g, i) ==
    {m \in g.alive : i \in g.fts[m] \/ i \in g.desc[m]}

Semantic(g, i, present) ==
    IF i \in indexed /\ g.entries[i].on \in g.alive /\ SeesEntry(g, g.entries[i].on, i, present)
    THEN {g.class[g.entries[i].on]} ELSE {}

\* The freshest date stated, or else the freshest inferred.
FreshestDated(g, dated) ==
    LET authored == SelectSeq(dated, LAMBDA i : g.entries[i].authored)
    IN IF authored # << >> THEN Last(authored) ELSE NewestOf(dated)

VisibleOccurrence(g, m, present) ==
    FreshestDated(g, SelectSeq(VisibleEntries(g, m, present), LAMBDA i : g.entries[i].day > 0))

\* People first, in the order they are read; what the cap keeps out is counted.
Salient(ranked) ==
    [shown |-> FirstOf(ranked, SalienceCap),
     more |-> IF Len(ranked) > SalienceCap THEN Len(ranked) - SalienceCap ELSE 0]

PeopleFirst(links) ==
    SelectSeq(links, LAMBDA v : v.other \in People)
        \o SelectSeq(links, LAMBDA v : v.other \notin People)

ByDirection(links) ==
    Deduped(links, [k \in DOMAIN links |->
                      <<links[k].link.rel, links[k].incoming, links[k].other>>])

SalientRelations(g, m, present) ==
    Salient(PeopleFirst(ByDirection(
        SelectSeq(ClassNeighborLinks(g, m), LAMBDA v : present = {} \/ SeesLink(g, v, present)))))

Search(g, i, present) ==
    LET lexical == {g.class[m] : m \in SearchLexical(g, i)}
        hits == (lexical \cup Semantic(g, i, present)) \cap g.alive
    IN {[memory |-> m, snippet |-> i, occurred |-> VisibleOccurrence(g, m, present),
         relations |-> SalientRelations(g, m, present)] : m \in hits}

\* Nothing the brief already shows, class by class.
Excluded(g, a) == {g.class[m] : m \in a.present \cup Range(WorkingSet) \cup {Self, Room}}

AmbientRecall(g, i, a) ==
    ({g.class[m] : m \in SearchLexical(g, i)} \ Excluded(g, a)) \cap g.alive

Next ==
    \/ \E kind \in EntryKinds : AppendEntry(kind)
    \/ \E i \in DOMAIN graph.entries : Retire(i)
    \/ \E kind \in LinkKinds : LinkCreated(kind)
    \/ \E m \in Memory : Described(m)
    \/ Indexed
    \/ \E a, b \in People : a < b /\ Merge(a, b)
    \/ \E b \in People : Unmerge(b)
    \/ \E m \in Memory \ {Self} : Delete(m)

Spec == Init /\ [][Next]_vars

-----------------------------------------------------------------------------
\* The graph as an audience could know it: without what it may not see.
Hide(g, present) ==
    [g EXCEPT
       !.entries = [i \in DOMAIN g.entries |->
                      IF SeesEntry(g, g.entries[i].on, i, present) THEN g.entries[i]
                      ELSE [g.entries[i] EXCEPT !.sup = i]],
       !.links = [n \in DOMAIN g.links |->
                    IF SeesLink(g, [link |-> g.links[n]], present) THEN g.links[n]
                    ELSE [g.links[n] EXCEPT !.to = g.links[n].from]]]

\* What a confidence says leaves no mark on what others are shown: every block of a brief, with the
\* ranking of its relationships, every date and relation of a search hit and the hint before a turn
\* are the same as if the entries and links hidden from the audience had never been written.
NoTraceOfSecrets ==
    \A a \in Audiences :
        LET hidden == Hide(graph, a.present)
        IN /\ \A m \in Memory :
                ComposeParticipant(graph, m, a.present) = ComposeParticipant(hidden, m, a.present)
           /\ a.present # {} => \A i \in DOMAIN graph.entries :
                /\ Search(graph, i, a.present) = Search(hidden, i, a.present)
                /\ AmbientRecall(graph, i, a) = AmbientRecall(hidden, i, a)

\* Whatever merges, cap and budget do, a brief shows an identity once; everyone present is in it, a
\* speaker in full while the cap lasts; and what is optional never costs more than the budget.
BriefIsPacked(a, p) ==
    LET of(kinds) == {k \in DOMAIN p.blocks : p.blocks[k].kind \in kinds}
        shown == of({"self", "present", "name", "thread"})
    IN /\ \A j, k \in shown :
            graph.class[p.blocks[j].of] = graph.class[p.blocks[k].of] => j = k
       /\ \A m \in a.present \cap graph.alive :
            \E k \in shown : graph.class[p.blocks[k].of] = graph.class[m]
       /\ (\E k \in of({"name"}) : p.blocks[k].of \in a.speakers) => p.full = PresentCap
       /\ p.taken <= CharBudget

\* The operator's account of a brief marks an entry exactly where a block of its memory shows it,
\* what the cap, the budget or a merge keep out included. The room is another matter: its block
\* shows no entry, and the account marks them as if it did.
TraceIsTrue(a, p) ==
    \A section \in {s \in ComposeTraced(graph, a, p) : s[1] # Room} :
        section[2] = UNION {Range(b.brief.facts) : b \in
            {b \in Range(p.blocks) : b.of = section[1] /\ b.kind # "upcoming"}}

BriefIsSound ==
    \A a \in Audiences :
        \A p \in {Compose(graph, a)} : BriefIsPacked(a, p) /\ TraceIsTrue(a, p)

=============================================================================
