------------------------- MODULE DerivedGraphProofs -------------------------
(***************************************************************************)
(* Proofs that a server that serves has the events of every commit that    *)
(* returned in its graph, whatever was killed or failed, unless a revert   *)
(* was cut short; that the graph is the fold of the log, and so is every   *)
(* readable snapshot, unless a statement of an apply has failed, too; and  *)
(* that retention keeps the newest snapshot: for any writers, schedule and *)
(* bounds.                                                                 *)
(***************************************************************************)
EXTENDS DerivedGraph, FiniteSetTheorems, WellFoundedInduction, TLAPS

-----------------------------------------------------------------------------
(* The inductive invariant.                                                *)

(* The process: a boot past the schema guard has a graph of its own        *)
(* schema, the lock is held by whoever is in its code, and a commit that   *)
(* is not under way leaves no mark.                                        *)
ServerInv ==
    /\ phase \in {"reconcile", "catchup", "up"} => graph.st = "ok" /\ graph.schema = build
    /\ graphLock.by = Boot <=> phase = "catchup"
    /\ graphLock.by \in Writers => phase = "up" /\ wpc[graphLock.by] = "appended"
    /\ graphLock.by \in {Driver, Operator} => phase = "up"
    /\ graphLock.by \notin Writers \cup {Boot} => graphLock.done = 0
    /\ phase # "up" => \A w \in Writers : wpc[w] = "idle"
    /\ \A w \in Writers : wpc[w] # "appended" => mark[w] = 0

(* A revert runs with the server down, and its seq is the end of the log. *)
RevertInv ==
    /\ revert # NoRevert => phase = "down" /\ revert.to = Len(events)
    /\ revert.at = "idle" => revert = NoRevert

(* What a commit that returned has appended is in the log, and in the      *)
(* graph of a server that serves.                                          *)
AckInv ==
    /\ acked <= Len(events)
    /\ \A w \in Writers : mark[w] <= Len(events)
    /\ phase = "up" => graph.head >= acked

(* Ids are given once, in the order of the log. *)
IdInv ==
    /\ Len(events) <= spent.events
    /\ \A i \in DOMAIN events : events[i].id <= spent.events
    /\ \A i, j \in DOMAIN events : i < j => events[i].id < events[j].id

NamesInv == \A h \in Seqs : snaps[h].st = "ok" => snaps[h].head = h

BaseInv == GraphTypeOK /\ ServerInv /\ RevertInv /\ AckInv /\ IdInv /\ NamesInv

(* The graph is the fold of the log up to its head, with the first m       *)
(* statements of the next event applied.                                   *)
Rows(l, n) ==
    {<<l[i].id, k>> : i \in {j \in 1 .. n : l[j].kind = "insert"}, k \in {1, 2}}

Cell(l, n) == IF Cells(l, n) = {} THEN Nobody ELSE l[Max(Cells(l, n))].id

Half(g, l, m) ==
    /\ g.head <= Len(l)
    /\ m > 0 => g.head < Len(l) /\ m <= Statements(l[g.head + 1])
    /\ g.rows = Rows(l, g.head) \cup
         {<<l[g.head + 1].id, k>> :
             k \in {j \in 1 .. m : l[g.head + 1].kind = "insert"}}
    /\ g.cell = IF m > 0 /\ l[g.head + 1].kind = "write" THEN l[g.head + 1].id
                ELSE Cell(l, g.head)

(* A kill leaves an event half applied; a server that serves has applied   *)
(* what the holder of the lock has counted; and one that catches up counts *)
(* from nothing, or finds the statements it has counted.                   *)
FoldInv ==
    graph.st = "ok" /\ revert.at # "graph" =>
        \E m \in 0 .. 2 :
            /\ Half(graph, events, m)
            /\ phase = "up" => m = graphLock.done
            /\ phase = "catchup" => m = graphLock.done \/ graphLock.done = 0

SnapInv ==
    \A h \in Seqs : snaps[h].st = "ok" =>
        /\ h <= Len(events) => Half(snaps[h], events, 0)
        /\ revert = NoRevert => h <= Len(events)

(* Every event up to the head of g shows in it. *)
HoldsTo(g, l) ==
    /\ g.head <= Len(l)
    /\ \A i \in 1 .. g.head : Shows(g, l[i])

(* The first d statements of e show in g. *)
Part(g, e, d) ==
    /\ e.kind = "insert" => \A k \in 1 .. d : <<e.id, k>> \in g.rows
    /\ e.kind = "write" /\ d >= 1 => g.cell \in Ids /\ g.cell >= e.id

(* Readers find every event up to the head, and the statements that the    *)
(* holder of the lock has counted, whatever else a failed apply has left.  *)
HoldInv ==
    graph.st = "ok" /\ revert.at # "graph" =>
        /\ HoldsTo(graph, events)
        /\ Materializing /\ Behind => Part(graph, NextEvent, graphLock.done)

HoldSnapInv ==
    \A h \in Seqs : snaps[h].st = "ok" =>
        /\ h <= Len(events) => HoldsTo(snaps[h], events)
        /\ revert = NoRevert => h <= Len(events)

GraphInv ==
    /\ BaseInv
    /\ OnlyKills => FoldInv /\ SnapInv
    /\ spent.cuts = 0 => HoldInv /\ HoldSnapInv

-----------------------------------------------------------------------------
(* Lemmas about the operators of the model.                                *)

(* The constants, as the proofs use them. *)
LEMMA Constants ==
  /\ EventKinds \subseteq {"quiet", "write", "insert"}
  /\ MinNew \in Nat /\ Keep \in Nat /\ MaxEvents \in Nat /\ MaxBatch \in Nat
  /\ MaxFaults \in Nat /\ MaxOps \in Nat
  /\ Nobody \notin Writers /\ Boot \notin Writers
  /\ Driver \notin Writers /\ Operator \notin Writers
  /\ Boot # Nobody /\ Driver # Nobody /\ Operator # Nobody
  /\ Driver # Boot /\ Operator # Boot /\ Operator # Driver
  BY DerivedGraphAssumption

(* A set of numbers that a number bounds has its Max: the newest snapshot  *)
(* (latest_head) and the last writer of the cell are defined by one.       *)
LEMMA MaxOf ==
  ASSUME NEW n \in Nat, NEW S \in SUBSET (0 .. n), S # {}
  PROVE  Max(S) \in S /\ \A y \in S : y <= Max(S)
<1>1. PICK R : R = OpToRel(<, Nat)
  OBVIOUS
<1>2. IsWellFoundedOn(R, Nat) /\ \A x, y \in Nat : <<x, y>> \in R <=> x < y
  <2>1. IsWellFoundedOn(R, Nat)
    BY <1>1, NatLessThanWellFounded
  <2>2. R = {ss \in Nat \X Nat : ss[1] < ss[2]}
    BY <1>1 DEF OpToRel
  <2>3. \A x, y \in Nat : <<x, y>> \in R <=> x < y
    BY <2>2
  <2> QED
    BY <2>1, <2>3
<1>3. PICK T : T = {n - x : x \in S}
  OBVIOUS
<1>4. T \subseteq Nat /\ T # {}
  <2>1. \A x \in S : n - x \in Nat
    OBVIOUS
  <2>2. PICK x : x \in S
    OBVIOUS
  <2>3. n - x \in T
    BY <1>3, <2>2
  <2> QED
    BY <1>3, <2>1, <2>3
<1>5. PICK m \in T : \A y \in T : ~(<<y, m>> \in R)
  <2>1. IsWellFoundedOn(R, Nat)
    BY <1>2
  <2>2. \E x \in T : \A y \in T : ~ (<<y, x>> \in R)
    BY <1>4, <2>1, WFMin, Zenon
  <2> QED
    BY <2>2
<1>6. PICK x \in S : m = n - x
  BY <1>3, <1>5
<1>7. \A y \in S : y <= x
  <2> SUFFICES ASSUME NEW y \in S PROVE y <= x
    OBVIOUS
  <2>1. n - y \in T /\ n - y \in Nat /\ m \in Nat
    BY <1>3, <1>4, <1>5
  <2>2. ~(n - y < m)
    BY <1>2, <1>5, <2>1
  <2> QED
    BY <1>6, <2>2
<1>8. \A y \in S : x >= y
  BY <1>7
<1>9. Max(S) \in S /\ \A y \in S : Max(S) >= y
  BY <1>8 DEF Max
<1> QED
  BY <1>9

(* The greater of two seqs (acked after a commit). *)
LEMMA MaxOfTwo ==
  ASSUME NEW a \in Int, NEW b \in Int
  PROVE  Max({a, b}) \in {a, b} /\ a <= Max({a, b}) /\ b <= Max({a, b})
<1>1. \E x \in {a, b} : \A y \in {a, b} : x >= y
  <2>1. CASE a >= b
    BY <2>1
  <2>2. CASE b >= a
    BY <2>2
  <2> QED
    BY <2>1, <2>2
<1> QED
  BY <1>1 DEF Max

(* The lesser of two seqs (acked after a revert). *)
LEMMA MinOfTwo ==
  ASSUME NEW a \in Int, NEW b \in Int
  PROVE  Min({a, b}) \in {a, b} /\ Min({a, b}) <= a /\ Min({a, b}) <= b
<1>1. \E x \in {a, b} : \A y \in {a, b} : x =< y
  <2>1. CASE a >= b
    BY <2>1
  <2>2. CASE b >= a
    BY <2>2
  <2> QED
    BY <2>1, <2>2
<1> QED
  BY <1>1 DEF Min

(* The arms: no statement, one, or two. *)
LEMMA StatementsOf ==
  ASSUME NEW e \in Event
  PROVE  /\ e.kind = "quiet" => Statements(e) = 0
         /\ e.kind = "write" => Statements(e) = 1
         /\ e.kind = "insert" => Statements(e) = 2
         /\ Statements(e) \in 0 .. 2
  BY DEF Event, Statements

(* The newest snapshot is one of the snapshots. *)
LEMMA NewestIsOne ==
  ASSUME GraphTypeOK
  PROVE  /\ LatestHead \in Seqs
         /\ Heads # {} => LatestHead \in Heads /\ \A h \in Heads : h <= LatestHead
<1>1. Heads \in SUBSET (0 .. MaxEvents) /\ MaxEvents \in Nat
  BY Constants DEF Heads, Seqs
<1>2. CASE Heads = {}
  BY <1>1, <1>2 DEF LatestHead, Seqs
<1>3. CASE Heads # {}
  <2>1. Max(Heads) \in Heads /\ \A y \in Heads : y <= Max(Heads)
    BY <1>1, <1>3, MaxOf
  <2>2. LatestHead = Max(Heads)
    BY <1>3 DEF LatestHead
  <2> QED
    BY <1>1, <1>3, <2>1, <2>2 DEF Seqs
<1> QED
  BY <1>2, <1>3

(* The fold of the first n events depends on nothing after them: appends   *)
(* and cuts of the log leave it as it is.                                  *)
LEMMA FoldPrefix ==
  ASSUME NEW l, NEW k, NEW n \in Nat, \A i \in 1 .. n : l[i] = k[i]
  PROVE  Rows(l, n) = Rows(k, n) /\ Cell(l, n) = Cell(k, n)
<1>1. Rows(l, n) = Rows(k, n)
  <2>1. {j \in 1 .. n : l[j].kind = "insert"} = {j \in 1 .. n : k[j].kind = "insert"}
    OBVIOUS
  <2>2. PICK J : J = {j \in 1 .. n : l[j].kind = "insert"}
    OBVIOUS
  <2>3. Rows(l, n) = {<<l[i].id, z>> : i \in J, z \in {1, 2}}
    BY <2>2 DEF Rows
  <2>4. Rows(k, n) = {<<k[i].id, z>> : i \in J, z \in {1, 2}}
    BY <2>1, <2>2 DEF Rows
  <2>5. \A i \in J : l[i].id = k[i].id
    BY <2>2
  <2> QED
    BY <2>3, <2>4, <2>5
<1>2. Cells(l, n) = Cells(k, n)
  BY DEF Cells
<1>3. CASE Cells(l, n) = {}
  BY <1>1, <1>2, <1>3 DEF Cell
<1>4. CASE Cells(l, n) # {}
  <2>1. Cells(l, n) \in SUBSET (0 .. n)
    BY DEF Cells
  <2>2. Max(Cells(l, n)) \in Cells(l, n)
    BY <1>4, <2>1, MaxOf
  <2>3. Max(Cells(l, n)) \in 1 .. n
    BY <2>2 DEF Cells
  <2>4. PICK x \in 1 .. n : x = Max(Cells(l, n))
    BY <2>3
  <2>5. Cell(l, n) = l[x].id /\ Cell(k, n) = k[x].id
    BY <1>2, <1>4, <2>4 DEF Cell
  <2> QED
    BY <1>1, <2>5
<1> QED
  BY <1>3, <1>4

(* What one more event adds to the fold: the rows of an insert, the cell   *)
(* of a write, nothing for a quiet one.                                    *)
LEMMA FoldStep ==
  ASSUME NEW l, NEW n \in Nat
  PROVE  /\ Rows(l, n + 1) = Rows(l, n) \cup
               {<<l[n + 1].id, z>> : z \in {j \in 1 .. 2 : l[n + 1].kind = "insert"}}
         /\ Cell(l, n + 1) = IF l[n + 1].kind = "write" THEN l[n + 1].id ELSE Cell(l, n)
<1>0. 1 .. 2 = {1, 2} /\ 1 .. n + 1 = (1 .. n) \cup {n + 1}
  OBVIOUS
<1>1. Rows(l, n + 1) = Rows(l, n) \cup
        {<<l[n + 1].id, z>> : z \in {j \in 1 .. 2 : l[n + 1].kind = "insert"}}
  <2>1. CASE l[n + 1].kind = "insert"
    <3>1. {j \in 1 .. n + 1 : l[j].kind = "insert"} =
            {j \in 1 .. n : l[j].kind = "insert"} \cup {n + 1}
      BY <1>0, <2>1
    <3>2. {j \in 1 .. 2 : l[n + 1].kind = "insert"} = {1, 2}
      BY <1>0, <2>1
    <3> QED
      BY <3>1, <3>2 DEF Rows
  <2>2. CASE l[n + 1].kind # "insert"
    <3>1. {j \in 1 .. n + 1 : l[j].kind = "insert"} = {j \in 1 .. n : l[j].kind = "insert"}
      BY <1>0, <2>2
    <3>2. {j \in 1 .. 2 : l[n + 1].kind = "insert"} = {}
      BY <2>2
    <3> QED
      BY <3>1, <3>2 DEF Rows
  <2> QED
    BY <2>1, <2>2
<1>2. CASE l[n + 1].kind = "write"
  <2>1. Cells(l, n + 1) = Cells(l, n) \cup {n + 1} /\ Cells(l, n) \subseteq 1 .. n
    BY <1>0, <1>2 DEF Cells
  <2>2. Cells(l, n + 1) \in SUBSET (0 .. n + 1) /\ Cells(l, n + 1) # {}
    <3>1. 1 .. n \subseteq 0 .. n + 1 /\ n + 1 \in 0 .. n + 1
      OBVIOUS
    <3> QED
      BY <2>1, <3>1
  <2>3. /\ Max(Cells(l, n + 1)) \in Cells(l, n + 1)
        /\ \A y \in Cells(l, n + 1) : y <= Max(Cells(l, n + 1))
    BY <2>2, MaxOf, n + 1 \in Nat
  <2>4. Max(Cells(l, n + 1)) = n + 1
    BY <2>1, <2>2, <2>3
  <2> QED
    BY <1>1, <1>2, <2>2, <2>4 DEF Cell
<1>3. CASE l[n + 1].kind # "write"
  <2>1. Cells(l, n + 1) = Cells(l, n)
    BY <1>0, <1>3 DEF Cells
  <2> QED
    BY <1>1, <1>3, <2>1 DEF Cell
<1> QED
  BY <1>2, <1>3

(* Nothing of the next event is applied: the graph is the fold. *)
LEMMA HalfZero ==
  ASSUME NEW g, NEW l
  PROVE  Half(g, l, 0) <=> /\ g.head <= Len(l)
                           /\ g.rows = Rows(l, g.head)
                           /\ g.cell = Cell(l, g.head)
<1>1. {j \in 1 .. 0 : l[g.head + 1].kind = "insert"} = {}
  OBVIOUS
<1>2. {<<l[g.head + 1].id, k>> : k \in {j \in 1 .. 0 : l[g.head + 1].kind = "insert"}} = {}
  BY <1>1
<1>3. ~(0 > 0)
  OBVIOUS
<1> QED
  BY <1>2, <1>3 DEF Half

(* A fold, half of an event or not, is one of a longer log. *)
LEMMA HalfExtends ==
  ASSUME NEW g, NEW l, NEW k, NEW m \in 0 .. 2, Half(g, l, m), g.head \in Nat,
         Len(l) \in Nat, Len(k) \in Nat, Len(l) <= Len(k),
         \A i \in 1 .. Len(l) : l[i] = k[i]
  PROVE  Half(g, k, m)
<1>1. g.head <= Len(l) /\ \A i \in 1 .. g.head : l[i] = k[i]
  BY DEF Half
<1>2. Rows(l, g.head) = Rows(k, g.head) /\ Cell(l, g.head) = Cell(k, g.head)
  BY <1>1, FoldPrefix
<1>3. CASE m = 0
  <2>1. /\ g.rows = Rows(l, g.head)
        /\ g.cell = Cell(l, g.head)
    BY <1>3, HalfZero
  <2> QED
    BY <1>1, <1>2, <1>3, <2>1, HalfZero
<1>4. CASE m > 0
  <2>1. g.head + 1 \in 1 .. Len(l)
    BY <1>4 DEF Half
  <2>2. PICK e : e = l[g.head + 1]
    OBVIOUS
  <2>3. l[g.head + 1] = e /\ k[g.head + 1] = e
    BY <2>1, <2>2
  <2> QED
    BY <1>1, <1>2, <1>4, <2>1, <2>3 DEF Half
<1> QED
  BY <1>3, <1>4

(* A whole fold is one of any log that agrees up to its head. *)
LEMMA HalfCut ==
  ASSUME NEW g, NEW l, NEW k, Half(g, l, 0), g.head \in Nat, g.head <= Len(k),
         \A i \in 1 .. g.head : l[i] = k[i]
  PROVE  Half(g, k, 0)
<1>1. Rows(l, g.head) = Rows(k, g.head) /\ Cell(l, g.head) = Cell(k, g.head)
  BY FoldPrefix
<1> QED
  BY <1>1, HalfZero

(* The fold is the projection of the log that the properties speak of. *)
LEMMA HalfIsProjection ==
  ASSUME NEW g \in Graph, g.st = "ok", Half(g, events, 0)
  PROVE  IsProjection(g)
<1>1. g.head <= Len(events) /\ g.rows = Rows(events, g.head) /\ g.cell = Cell(events, g.head)
  BY HalfZero
<1>2. Projection(events, g.head, g.schema) =
        [st |-> "ok", schema |-> g.schema, head |-> g.head,
         rows |-> Rows(events, g.head), cell |-> Cell(events, g.head)]
  BY DEF Projection, Rows, Cell
<1>3. g = [st |-> g.st, schema |-> g.schema, head |-> g.head, rows |-> g.rows,
           cell |-> g.cell]
  BY DEF Graph
<1> QED
  BY <1>1, <1>2, <1>3 DEF IsProjection

(* An empty graph is the fold of no event. *)
LEMMA FreshIsFold ==
  ASSUME NEW b, NEW l, Len(l) \in Nat
  PROVE  Half(NewGraph(b), l, 0)
<1> PICK g : g = NewGraph(b)
  OBVIOUS
<1>1. g.head = 0 /\ g.rows = {} /\ g.cell = Nobody
  BY DEF NewGraph, File
<1>2. Rows(l, 0) = {} /\ Cells(l, 0) = {}
  BY DEF Rows, Cells
<1>3. Cell(l, 0) = Nobody
  BY <1>2 DEF Cell
<1>4. g.head <= Len(l) /\ g.rows = Rows(l, g.head) /\ g.cell = Cell(l, g.head)
  BY <1>1, <1>2, <1>3
<1>5. Half(g, l, 0)
  BY <1>4, HalfZero
<1> QED
  BY <1>5

-----------------------------------------------------------------------------
(* What a step does to the log: nothing, an append, or a cut.              *)

Grows(n) ==
    /\ Len(events') = Len(events) + n
    /\ \A i \in 1 .. Len(events) : events'[i] = events[i]
    /\ \A i \in 1 .. n : events'[Len(events) + i].id = spent.events + i
    /\ spent'.events = spent.events + n

Keeps == events' = events /\ spent'.events = spent.events

Cuts(to) ==
    /\ to <= Len(events)
    /\ events' = SubSeq(events, 1, to)
    /\ spent'.events = spent.events

(* An append gives the seqs after the last, with ids not given before. *)
LEMMA AppendGrows ==
  ASSUME GraphTypeOK, NEW n \in Nat, NEW kinds \in [1 .. n -> {"quiet", "write", "insert"}],
         Room(n), events' = LogWith(kinds), spent'.events = spent.events + n,
         Len(events) <= spent.events
  PROVE  /\ events' \in Seq(Event) /\ Len(events') <= MaxEvents
         /\ Grows(n)
<1>1. /\ spent.events \in Nat /\ spent.events + n <= MaxEvents /\ MaxEvents \in Nat
      /\ events \in Seq(Event) /\ Len(events) \in Nat
  BY Constants DEF GraphTypeOK, Seqs, Room
<1>2. PICK u : u = spent.events
  OBVIOUS
<1>3. PICK a : a = [i \in 1 .. n |-> [id |-> u + i, kind |-> kinds[i]]]
  OBVIOUS
<1>4. Len(kinds) = n
  OBVIOUS
<1>5. a \in Seq(Event) /\ Len(a) = n
  <2>1. \A i \in 1 .. n : [id |-> u + i, kind |-> kinds[i]] \in Event
    BY <1>1, <1>2 DEF Event, Ids
  <2>2. a \in [1 .. n -> Event]
    BY <1>3, <2>1
  <2> QED
    BY <1>3, <2>2
<1>6. events' = events \o a
  BY <1>2, <1>3, <1>4 DEF LogWith
<1>7. \A i \in 1 .. n : a[i].id = u + i
  BY <1>3
<1>8. /\ Len(events') = Len(events) + n
      /\ \A i \in 1 .. Len(events) : events'[i] = events[i]
      /\ \A i \in 1 .. n : events'[Len(events) + i] = a[i]
  BY <1>1, <1>5, <1>6
<1>9. \A i \in 1 .. n : events'[Len(events) + i].id = spent.events + i
  BY <1>2, <1>7, <1>8
<1>10. events' \in Seq(Event)
  BY <1>1, <1>5, <1>6
<1> QED
  BY <1>1, <1>8, <1>9, <1>10 DEF Grows

LogMoves ==
    \/ Keeps
    \/ \E n \in Nat : Grows(n) /\ events' \in Seq(Event) /\ Len(events') <= MaxEvents
    \/ \E to \in Nat : Cuts(to)

(* The three that append: a commit, the boot and an offline command. *)
LEMMA CommitGrows ==
  ASSUME GraphTypeOK, BaseInv, NEW w \in Writers, Commit(w)
  PROVE  \E n \in Nat : /\ Grows(n) /\ events' \in Seq(Event) /\ Len(events') <= MaxEvents
                       /\ mark' = [mark EXCEPT ![w] = Len(events) + n]
  <1>0. PICK n \in 1 .. MaxBatch : \E kinds \in [1 .. n -> EventKinds] :
        /\ Room(n)
        /\ events' = LogWith(kinds)
        /\ mark' = [mark EXCEPT ![w] = Len(events) + n]
        /\ Spent(n)
  BY DEF Commit
  <1>1. PICK kinds \in [1 .. n -> EventKinds] :
        /\ Room(n)
        /\ events' = LogWith(kinds)
        /\ mark' = [mark EXCEPT ![w] = Len(events) + n]
        /\ Spent(n)
  BY <1>0
  <1>2. n \in Nat /\ kinds \in [1 .. n -> {"quiet", "write", "insert"}] 
  <2>1. n \in Nat /\ EventKinds \subseteq {"quiet", "write", "insert"}
    BY Constants
  <2>2. \A i \in 1 .. n : kinds[i] \in {"quiet", "write", "insert"}
    BY <2>1
  <2> QED
    BY <2>1, <2>2
  <1>3. spent'.events = spent.events + n
  BY <1>1 DEF Spent, GraphTypeOK
  <1>4. Grows(n) /\ events' \in Seq(Event) /\ Len(events') <= MaxEvents
  BY <1>1, <1>2, <1>3, AppendGrows DEF BaseInv, IdInv
  <1> QED
  BY <1>1, <1>2, <1>4

LEMMA ReconcileGrows ==
  ASSUME GraphTypeOK, BaseInv, Reconcile
  PROVE  \E n \in Nat : Grows(n) /\ events' \in Seq(Event) /\ Len(events') <= MaxEvents
  <1>1. PICK n \in {0, 1} : Room(n) /\ events' = LogWith([i \in 1 .. n |-> "quiet"]) /\ Spent(n)
  BY DEF Reconcile
  <1>2. n \in Nat /\ [i \in 1 .. n |-> "quiet"] \in [1 .. n -> {"quiet", "write", "insert"}]
  BY <1>1
  <1>3. spent'.events = spent.events + n
  BY <1>1 DEF Spent, GraphTypeOK
  <1>4. Grows(n) /\ events' \in Seq(Event) /\ Len(events') <= MaxEvents
  BY <1>1, <1>2, <1>3, AppendGrows DEF BaseInv, IdInv
  <1> QED
  BY <1>2, <1>4

LEMMA OfflineGrows ==
  ASSUME GraphTypeOK, BaseInv, OfflineAppend
  PROVE  \E n \in Nat : Grows(n) /\ events' \in Seq(Event) /\ Len(events') <= MaxEvents
  <1>1. Room(1) /\ events' = LogWith(<<"write">>) /\ spent'.events = spent.events + 1
  BY DEF OfflineAppend, GraphTypeOK
  <1>2. <<"write">> \in [1 .. 1 -> {"quiet", "write", "insert"}]
  OBVIOUS
  <1>3. Grows(1) /\ events' \in Seq(Event) /\ Len(events') <= MaxEvents
  BY <1>1, <1>2, AppendGrows DEF BaseInv, IdInv
  <1> QED
  BY <1>3

(* Every step keeps the log, appends to it, or cuts it.                    *)
LEMMA LogSteps ==
  ASSUME GraphTypeOK, BaseInv, GraphNext
  PROVE  LogMoves
<1>1. CASE ApplyStatement
  BY <1>1 DEF Keeps, LogMoves, GraphTypeOK, ApplyStatement, Effect
<1>2. CASE AdvanceHead
  BY <1>2 DEF Keeps, LogMoves, GraphTypeOK, AdvanceHead
<1>3. CASE ApplyConflicts
  BY <1>3 DEF Keeps, LogMoves, GraphTypeOK, ApplyConflicts, GivesUp
<1>4. CASE ApplyFails
  BY <1>4 DEF Keeps, LogMoves, GraphTypeOK, ApplyFails, GivesUp, MayFail
<1>5. CASE MaterializeDone
  BY <1>5 DEF Keeps, LogMoves, GraphTypeOK, MaterializeDone
<1>6. ASSUME NEW w \in Writers, Commit(w) PROVE LogMoves
  BY <1>6, CommitGrows DEF LogMoves
<1>7. ASSUME NEW w \in Writers, Materialize(w) PROVE LogMoves
  BY <1>7 DEF Keeps, LogMoves, GraphTypeOK, Materialize
<1>8. CASE SnapshotDue
  BY <1>8 DEF Keeps, LogMoves, GraphTypeOK, SnapshotDue, disk
<1>9. CASE SnapshotExists
  BY <1>9 DEF Keeps, LogMoves, GraphTypeOK, SnapshotExists, disk
<1>10. CASE SnapshotPrune
  BY <1>10 DEF Keeps, LogMoves, GraphTypeOK, SnapshotPrune, Pruned
<1>11. ASSUME NEW p \in {Driver, Operator}, SnapshotBegin(p) PROVE LogMoves
  BY <1>11 DEF Keeps, LogMoves, GraphTypeOK, SnapshotBegin
<1>12. ASSUME NEW p \in {Driver, Operator}, SnapshotEnd(p) PROVE LogMoves
  BY <1>12 DEF Keeps, LogMoves, GraphTypeOK, SnapshotEnd
<1>13. CASE BootLock
  BY <1>13 DEF Keeps, LogMoves, GraphTypeOK, BootLock, disk
<1>14. CASE RestoreFails
  BY <1>14 DEF Keeps, LogMoves, GraphTypeOK, RestoreFails, BootFails, disk
<1>15. CASE RestoreSkips
  BY <1>15 DEF Keeps, LogMoves, GraphTypeOK, RestoreSkips, disk
<1>16. CASE RestoreBegin
  BY <1>16 DEF Keeps, LogMoves, GraphTypeOK, RestoreBegin
<1>17. CASE RestoreEnd
  BY <1>17 DEF Keeps, LogMoves, GraphTypeOK, RestoreEnd
<1>18. CASE OpenGraph
  BY <1>18 DEF Keeps, LogMoves, GraphTypeOK, OpenGraph, disk
<1>19. CASE CannotOpen
  BY <1>19 DEF Keeps, LogMoves, GraphTypeOK, CannotOpen, BootFails, disk
<1>20. CASE OpenResets
  BY <1>20 DEF Keeps, LogMoves, GraphTypeOK, OpenResets
<1>21. CASE ResetEnd
  BY <1>21 DEF Keeps, LogMoves, GraphTypeOK, ResetEnd
<1>22. CASE Reconcile
  BY <1>22, ReconcileGrows DEF LogMoves
<1>23. CASE OfflineAppend
  BY <1>23, OfflineGrows DEF LogMoves
<1>24. CASE DeleteGraph
  BY <1>24 DEF Keeps, LogMoves, GraphTypeOK, DeleteGraph, Operates, server
<1>25. CASE Upgrade
  BY <1>25 DEF Keeps, LogMoves, GraphTypeOK, Upgrade, Operates, server, disk
<1>26. CASE RevertTruncate
  <2>1. PICK to \in 0 .. Len(events) - 1 : events' = SubSeq(events, 1, to)
    BY <1>26 DEF RevertTruncate
  <2>2. spent'.events = spent.events
    BY <1>26 DEF RevertTruncate, GraphTypeOK
  <2>3. Cuts(to) /\ to \in Nat
    BY <2>1, <2>2 DEF GraphTypeOK, Cuts
  <2> QED
    BY <2>3 DEF LogMoves
<1>27. CASE RevertGraph
  BY <1>27 DEF Keeps, LogMoves, GraphTypeOK, RevertGraph, server
<1>28. CASE RevertSnaps
  BY <1>28 DEF Keeps, LogMoves, GraphTypeOK, RevertSnaps, server, DiscardAfter
<1>29. CASE RevertStops
  BY <1>29 DEF Keeps, LogMoves, GraphTypeOK, RevertStops, server, disk, MayFail
<1>30. CASE Shutdown
  BY <1>30 DEF Keeps, LogMoves, GraphTypeOK, Shutdown, disk
<1>31. CASE Kill
  BY <1>31 DEF Keeps, LogMoves, GraphTypeOK, Kill, disk, MayFail
<1> QED
  BY <1>1, <1>2, <1>3, <1>4, <1>5, <1>6, <1>7, <1>8, <1>9, <1>10, <1>11, <1>12, <1>13, <1>14,
     <1>15, <1>16, <1>17, <1>18, <1>19, <1>20, <1>21, <1>22, <1>23, <1>24, <1>25, <1>26, <1>27,
     <1>28, <1>29, <1>30, <1>31 DEF GraphNext, Apply, Booting, Snapshotter, Offline

-----------------------------------------------------------------------------
(* The types.                                                              *)

ServerTypeOK ==
    /\ phase \in Phases
    /\ bootErr \in Errors
    /\ graphLock \in Lock
    /\ wpc \in [Writers -> {"idle", "appended", "failed"}]
    /\ mark \in [Writers -> Seqs]
    /\ snapper \in {"idle", "due", "prune"}
    /\ revert \in Revert
    /\ build \in Nat
    /\ acked \in Seqs

UsedTypeOK ==
    /\ spent \in [events : Seqs, kills : 0..MaxFaults, failures : 0..MaxFaults,
                 cuts : 0..MaxFaults, ops : 0..MaxOps]
    /\ spent.kills + spent.failures + spent.cuts <= MaxFaults

(* What a failed, deleted or new file holds. *)
LEMMA Files ==
  /\ \A st \in {"absent", "ok", "bare", "torn"} : File(st) \in Graph /\ File(st).st = st
  /\ Absent \in Graph /\ Absent.st = "absent" /\ Absent.head = 0
  /\ \A b \in Nat : NewGraph(b) \in Graph /\ NewGraph(b).st = "ok" /\ NewGraph(b).schema = b
                     /\ NewGraph(b).head = 0
<1>1. MaxEvents \in Nat
  BY Constants
<1>2. \A st \in {"absent", "ok", "bare", "torn"} : File(st) \in Graph /\ File(st).st = st
  BY <1>1 DEF File, Graph, Seqs
<1>3. Absent \in Graph /\ Absent.st = "absent" /\ Absent.head = 0
  BY <1>1 DEF Absent, File, Graph, Seqs
<1>4. \A b \in Nat : NewGraph(b) \in Graph /\ NewGraph(b).st = "ok" /\ NewGraph(b).schema = b
                     /\ NewGraph(b).head = 0
  BY <1>1 DEF NewGraph, File, Graph, Seqs
<1> QED
  BY <1>2, <1>3, <1>4

(* The next event of a graph that is behind is one of the log's. *)
LEMMA NextIsEvent ==
  ASSUME GraphTypeOK, Behind
  PROVE  /\ NextEvent \in Event
         /\ graph.head \in Nat /\ graph.head + 1 \in 1 .. Len(events)
         /\ graph.head + 1 \in Seqs
<1>1. events \in Seq(Event) /\ Len(events) \in Nat /\ Len(events) <= MaxEvents /\ MaxEvents \in Nat
  BY Constants DEF GraphTypeOK
<1>2. graph.head \in Nat /\ graph.head < Len(events)
  BY DEF GraphTypeOK, Graph, Seqs, Behind
<1> QED
  BY <1>1, <1>2 DEF NextEvent, Seqs

(* What the type of the log says, whatever the step does to it. *)
LEMMA LogTypes ==
  ASSUME GraphTypeOK, BaseInv, GraphNext
  PROVE  events' \in Seq(Event) /\ Len(events') \in Nat /\ Len(events') <= MaxEvents
<1>1. LogMoves
  BY LogSteps
<1>2. events \in Seq(Event) /\ Len(events) \in Nat /\ Len(events) <= MaxEvents /\ MaxEvents \in Nat
  BY Constants DEF GraphTypeOK
<1>3. CASE Keeps
  BY <1>2, <1>3 DEF Keeps
<1>4. CASE \E n \in Nat : Grows(n) /\ events' \in Seq(Event) /\ Len(events') <= MaxEvents
  BY <1>4
<1>5. ASSUME NEW to \in Nat, Cuts(to)
      PROVE  events' \in Seq(Event) /\ Len(events') \in Nat /\ Len(events') <= MaxEvents
  BY <1>2, <1>5 DEF Cuts
<1> QED
  BY <1>1, <1>3, <1>4, <1>5 DEF LogMoves

(* The graph is one whatever wrote it. *)
LEMMA GraphTypes ==
  ASSUME GraphTypeOK, BaseInv, GraphNext
  PROVE  graph' \in Graph
<1>1. CASE ApplyStatement
  <2>1. /\ NextEvent \in Event /\ graphLock.done + 1 \in {1, 2}
        /\ graph' = Effect(graph, NextEvent, graphLock.done + 1)
    <3>1. NextEvent \in Event
      BY <1>1, NextIsEvent DEF ApplyStatement
    <3>2. Statements(NextEvent) \in 0 .. 2
      BY <3>1, StatementsOf
    <3>3. graphLock.done \in 0 .. 2 /\ graphLock.done < Statements(NextEvent)
      BY <1>1 DEF ApplyStatement, GraphTypeOK, Lock
    <3>4. graphLock.done + 1 \in {1, 2}
      BY <3>2, <3>3
    <3> QED
      BY <1>1, <3>1, <3>4 DEF ApplyStatement
  <2>2. PICK e, k : e = NextEvent /\ k = graphLock.done + 1
    OBVIOUS
  <2>3. e.id \in Ids /\ k \in {1, 2} /\ graph' = Effect(graph, e, k)
    BY <2>1, <2>2 DEF Event
  <2>4. <<e.id, k>> \in Ids \X {1, 2}
    BY <2>3
  <2> QED
    BY <2>3, <2>4 DEF Effect, GraphTypeOK, Graph
<1>2. CASE AdvanceHead
  <2>1. graph.head + 1 \in Seqs /\ graph' = [graph EXCEPT !.head = graph.head + 1]
    BY <1>2, NextIsEvent DEF AdvanceHead
  <2> QED
    BY <2>1 DEF GraphTypeOK, Graph
<1>3. CASE ApplyConflicts
  BY <1>3 DEF GraphTypeOK, ApplyConflicts, GivesUp
<1>4. CASE ApplyFails
  BY <1>4 DEF GraphTypeOK, ApplyFails, GivesUp, MayFail
<1>5. CASE MaterializeDone
  BY <1>5 DEF GraphTypeOK, MaterializeDone
<1>6. ASSUME NEW w \in Writers, Commit(w) PROVE graph' \in Graph
  BY <1>6 DEF GraphTypeOK, Commit, Spent
<1>7. ASSUME NEW w \in Writers, Materialize(w) PROVE graph' \in Graph
  BY <1>7 DEF GraphTypeOK, Materialize
<1>8. CASE SnapshotDue
  BY <1>8 DEF GraphTypeOK, SnapshotDue, disk
<1>9. CASE SnapshotExists
  BY <1>9 DEF GraphTypeOK, SnapshotExists, disk
<1>10. CASE SnapshotPrune
  BY <1>10 DEF GraphTypeOK, SnapshotPrune, Pruned
<1>11. ASSUME NEW p \in {Driver, Operator}, SnapshotBegin(p) PROVE graph' \in Graph
  BY <1>11 DEF GraphTypeOK, SnapshotBegin
<1>12. ASSUME NEW p \in {Driver, Operator}, SnapshotEnd(p) PROVE graph' \in Graph
  BY <1>12 DEF GraphTypeOK, SnapshotEnd
<1>13. CASE BootLock
  BY <1>13 DEF GraphTypeOK, BootLock, disk
<1>14. CASE RestoreFails
  BY <1>14 DEF GraphTypeOK, RestoreFails, BootFails, disk
<1>15. CASE RestoreSkips
  BY <1>15 DEF GraphTypeOK, RestoreSkips, disk
<1>16. CASE RestoreBegin
  BY <1>16, Files DEF GraphTypeOK, RestoreBegin
<1>17. CASE RestoreEnd
  <2>1. LatestHead \in Seqs
    BY NewestIsOne
  <2> QED
    BY <1>17, <2>1 DEF RestoreEnd, GraphTypeOK
<1>18. CASE OpenGraph
  BY <1>18 DEF GraphTypeOK, OpenGraph, disk
<1>19. CASE CannotOpen
  BY <1>19 DEF GraphTypeOK, CannotOpen, BootFails, disk
<1>20. CASE OpenResets
  BY <1>20, Files DEF GraphTypeOK, OpenResets
<1>21. CASE ResetEnd
  BY <1>21, Files DEF GraphTypeOK, ResetEnd
<1>22. CASE Reconcile
  BY <1>22 DEF GraphTypeOK, Reconcile, Spent
<1>23. CASE OfflineAppend
  BY <1>23 DEF GraphTypeOK, OfflineAppend, Operates, server
<1>24. CASE DeleteGraph
  BY <1>24, Files DEF GraphTypeOK, DeleteGraph, Operates, server
<1>25. CASE Upgrade
  BY <1>25 DEF GraphTypeOK, Upgrade, Operates, server, disk
<1>26. CASE RevertTruncate
  BY <1>26 DEF GraphTypeOK, RevertTruncate, Operates, server
<1>27. CASE RevertGraph
  BY <1>27, Files DEF GraphTypeOK, RevertGraph, server
<1>28. CASE RevertSnaps
  BY <1>28 DEF GraphTypeOK, RevertSnaps, server, DiscardAfter
<1>29. CASE RevertStops
  BY <1>29 DEF GraphTypeOK, RevertStops, server, disk, MayFail
<1>30. CASE Shutdown
  BY <1>30 DEF GraphTypeOK, Shutdown, disk
<1>31. CASE Kill
  BY <1>31 DEF GraphTypeOK, Kill, disk, MayFail
<1> QED
  BY <1>1, <1>2, <1>3, <1>4, <1>5, <1>6, <1>7, <1>8, <1>9, <1>10, <1>11, <1>12, <1>13, <1>14,
     <1>15, <1>16, <1>17, <1>18, <1>19, <1>20, <1>21, <1>22, <1>23, <1>24, <1>25, <1>26, <1>27,
     <1>28, <1>29, <1>30, <1>31 DEF GraphNext, Apply, Booting, Snapshotter, Offline

(* So is every snapshot. *)
LEMMA SnapTypes ==
  ASSUME GraphTypeOK, BaseInv, GraphNext
  PROVE  snaps' \in [Seqs -> Graph]
<1>1. CASE ApplyStatement
  BY <1>1 DEF GraphTypeOK, ApplyStatement, Effect
<1>2. CASE AdvanceHead
  BY <1>2 DEF GraphTypeOK, AdvanceHead
<1>3. CASE ApplyConflicts
  BY <1>3 DEF GraphTypeOK, ApplyConflicts, GivesUp
<1>4. CASE ApplyFails
  BY <1>4 DEF GraphTypeOK, ApplyFails, GivesUp, MayFail
<1>5. CASE MaterializeDone
  BY <1>5 DEF GraphTypeOK, MaterializeDone
<1>6. ASSUME NEW w \in Writers, Commit(w) PROVE snaps' \in [Seqs -> Graph]
  BY <1>6 DEF GraphTypeOK, Commit, Spent
<1>7. ASSUME NEW w \in Writers, Materialize(w) PROVE snaps' \in [Seqs -> Graph]
  BY <1>7 DEF GraphTypeOK, Materialize
<1>8. CASE SnapshotDue
  BY <1>8 DEF GraphTypeOK, SnapshotDue, disk
<1>9. CASE SnapshotExists
  BY <1>9 DEF GraphTypeOK, SnapshotExists, disk
<1>10. CASE SnapshotPrune
  BY <1>10, Files DEF GraphTypeOK, SnapshotPrune, Pruned
<1>11. ASSUME NEW p \in {Driver, Operator}, SnapshotBegin(p) PROVE snaps' \in [Seqs -> Graph]
  BY <1>11, Files DEF GraphTypeOK, SnapshotBegin
<1>12. ASSUME NEW p \in {Driver, Operator}, SnapshotEnd(p) PROVE snaps' \in [Seqs -> Graph]
  BY <1>12 DEF GraphTypeOK, SnapshotEnd
<1>13. CASE BootLock
  BY <1>13 DEF GraphTypeOK, BootLock, disk
<1>14. CASE RestoreFails
  BY <1>14 DEF GraphTypeOK, RestoreFails, BootFails, disk
<1>15. CASE RestoreSkips
  BY <1>15 DEF GraphTypeOK, RestoreSkips, disk
<1>16. CASE RestoreBegin
  BY <1>16 DEF GraphTypeOK, RestoreBegin
<1>17. CASE RestoreEnd
  BY <1>17 DEF GraphTypeOK, RestoreEnd
<1>18. CASE OpenGraph
  BY <1>18 DEF GraphTypeOK, OpenGraph, disk
<1>19. CASE CannotOpen
  BY <1>19 DEF GraphTypeOK, CannotOpen, BootFails, disk
<1>20. CASE OpenResets
  BY <1>20 DEF GraphTypeOK, OpenResets
<1>21. CASE ResetEnd
  BY <1>21 DEF GraphTypeOK, ResetEnd
<1>22. CASE Reconcile
  BY <1>22 DEF GraphTypeOK, Reconcile, Spent
<1>23. CASE OfflineAppend
  BY <1>23 DEF GraphTypeOK, OfflineAppend, Operates, server
<1>24. CASE DeleteGraph
  BY <1>24 DEF GraphTypeOK, DeleteGraph, Operates, server
<1>25. CASE Upgrade
  BY <1>25 DEF GraphTypeOK, Upgrade, Operates, server, disk
<1>26. CASE RevertTruncate
  BY <1>26 DEF GraphTypeOK, RevertTruncate, Operates, server
<1>27. CASE RevertGraph
  BY <1>27 DEF GraphTypeOK, RevertGraph, server
<1>28. CASE RevertSnaps
  BY <1>28, Files DEF GraphTypeOK, RevertSnaps, server, DiscardAfter
<1>29. CASE RevertStops
  BY <1>29 DEF GraphTypeOK, RevertStops, server, disk, MayFail
<1>30. CASE Shutdown
  BY <1>30 DEF GraphTypeOK, Shutdown, disk
<1>31. CASE Kill
  BY <1>31 DEF GraphTypeOK, Kill, disk, MayFail
<1> QED
  BY <1>1, <1>2, <1>3, <1>4, <1>5, <1>6, <1>7, <1>8, <1>9, <1>10, <1>11, <1>12, <1>13, <1>14,
     <1>15, <1>16, <1>17, <1>18, <1>19, <1>20, <1>21, <1>22, <1>23, <1>24, <1>25, <1>26, <1>27,
     <1>28, <1>29, <1>30, <1>31 DEF GraphNext, Apply, Booting, Snapshotter, Offline

(* The tasks and the lock. *)
LEMMA ServerTypes ==
  ASSUME GraphTypeOK, BaseInv, GraphNext
  PROVE  ServerTypeOK'
<1>1. CASE ApplyStatement
  <2>1. graphLock.done \in 0 .. 2 /\ graphLock.done < Statements(NextEvent) /\ Statements(NextEvent) \in 0 .. 2
    BY <1>1, NextIsEvent, StatementsOf DEF ApplyStatement, GraphTypeOK, Lock
  <2> QED
    BY <1>1, <2>1 DEF ApplyStatement, GraphTypeOK, ServerTypeOK, Lock
<1>2. CASE AdvanceHead
  BY <1>2 DEF GraphTypeOK, ServerTypeOK, AdvanceHead, Lock
<1>3. CASE ApplyConflicts
  <2>1. 0 \in Seqs /\ Free \in Lock
    BY Constants DEF Seqs, Free, Lock
  <2> QED
    BY <1>3, <2>1 DEF ApplyConflicts, GivesUp, GraphTypeOK, ServerTypeOK, Phases, Errors
<1>4. CASE ApplyFails
  <2>1. 0 \in Seqs /\ Free \in Lock
    BY Constants DEF Seqs, Free, Lock
  <2> QED
    BY <1>4, <2>1 DEF ApplyFails, GivesUp, GraphTypeOK, ServerTypeOK, Phases, Errors
<1>5. CASE MaterializeDone
  <2>1. CASE graphLock.by = Boot
    BY <1>5, <2>1 DEF MaterializeDone, GraphTypeOK, ServerTypeOK, Phases, Errors, Free, Lock
  <2>2. CASE graphLock.by # Boot
    <3>1. graphLock.by \in Writers
      BY <1>5, <2>2 DEF MaterializeDone, Materializing
    <3>2. acked \in Seqs /\ mark[graphLock.by] \in Seqs /\ MaxEvents \in Nat
      BY <3>1, Constants DEF GraphTypeOK
    <3>3. Max({acked, mark[graphLock.by]}) \in {acked, mark[graphLock.by]}
      <4>1. acked \in Int /\ mark[graphLock.by] \in Int
        BY <3>2 DEF Seqs
      <4> QED
        BY <4>1, MaxOfTwo
    <3>4. acked' \in Seqs
      BY <1>5, <2>2, <3>2, <3>3 DEF MaterializeDone
    <3>5. 0 \in Seqs
      BY <3>2 DEF Seqs
    <3> QED
      BY <1>5, <2>2, <3>4, <3>5 DEF MaterializeDone, GraphTypeOK, ServerTypeOK, Phases, Errors, Free, Lock
  <2> QED
    BY <2>1, <2>2
<1>6. ASSUME NEW w \in Writers, Commit(w) PROVE ServerTypeOK'
  <2>1. PICK n \in 1 .. MaxBatch : Room(n) /\ mark' = [mark EXCEPT ![w] = Len(events) + n]
    BY <1>6 DEF Commit
  <2>2. Len(events) + n \in Seqs
    BY <2>1, Constants DEF BaseInv, IdInv, GraphTypeOK, Seqs, Room
  <2> QED
    BY <1>6, <2>1, <2>2 DEF Commit, GraphTypeOK, ServerTypeOK
<1>7. ASSUME NEW w \in Writers, Materialize(w) PROVE ServerTypeOK'
  BY <1>7 DEF GraphTypeOK, ServerTypeOK, Materialize, Lock, Holders, Phases
<1>8. CASE SnapshotDue
  BY <1>8 DEF GraphTypeOK, ServerTypeOK, SnapshotDue, disk
<1>9. CASE SnapshotExists
  BY <1>9 DEF GraphTypeOK, ServerTypeOK, SnapshotExists, disk
<1>10. CASE SnapshotPrune
  BY <1>10 DEF GraphTypeOK, ServerTypeOK, SnapshotPrune, Pruned
<1>11. ASSUME NEW p \in {Driver, Operator}, SnapshotBegin(p) PROVE ServerTypeOK'
  BY <1>11 DEF GraphTypeOK, ServerTypeOK, SnapshotBegin, Lock, Holders, Phases
<1>12. ASSUME NEW p \in {Driver, Operator}, SnapshotEnd(p) PROVE ServerTypeOK'
  BY <1>12 DEF GraphTypeOK, ServerTypeOK, SnapshotEnd, Lock, Free
<1>13. CASE BootLock
  BY <1>13 DEF GraphTypeOK, ServerTypeOK, BootLock, disk, Phases, Errors
<1>14. CASE RestoreFails
  BY <1>14 DEF GraphTypeOK, ServerTypeOK, RestoreFails, BootFails, disk, Phases, Errors
<1>15. CASE RestoreSkips
  BY <1>15 DEF GraphTypeOK, ServerTypeOK, RestoreSkips, disk, Phases, Errors
<1>16. CASE RestoreBegin
  BY <1>16 DEF GraphTypeOK, ServerTypeOK, RestoreBegin, Phases, Errors
<1>17. CASE RestoreEnd
  BY <1>17 DEF GraphTypeOK, ServerTypeOK, RestoreEnd, Phases, Errors
<1>18. CASE OpenGraph
  BY <1>18 DEF GraphTypeOK, ServerTypeOK, OpenGraph, disk, Phases, Errors
<1>19. CASE CannotOpen
  BY <1>19 DEF GraphTypeOK, ServerTypeOK, CannotOpen, BootFails, disk, Phases, Errors
<1>20. CASE OpenResets
  BY <1>20 DEF GraphTypeOK, ServerTypeOK, OpenResets, Phases, Errors
<1>21. CASE ResetEnd
  BY <1>21 DEF GraphTypeOK, ServerTypeOK, ResetEnd, Phases, Errors
<1>22. CASE Reconcile
  BY <1>22 DEF GraphTypeOK, ServerTypeOK, Reconcile, Spent, Lock, Holders, Phases
<1>23. CASE OfflineAppend
  BY <1>23 DEF GraphTypeOK, ServerTypeOK, OfflineAppend, Operates, server
<1>24. CASE DeleteGraph
  BY <1>24 DEF GraphTypeOK, ServerTypeOK, DeleteGraph, Operates, server
<1>25. CASE Upgrade
  BY <1>25 DEF GraphTypeOK, ServerTypeOK, Upgrade, Operates, server, disk
<1>26. CASE RevertTruncate
  <2>1. PICK to \in 0 .. Len(events) - 1 :
          /\ revert' = [at |-> "graph", to |-> to]
          /\ acked' = Min({acked, to})
    BY <1>26 DEF RevertTruncate
  <2>2. to \in Seqs /\ acked \in Seqs /\ MaxEvents \in Nat
    BY <2>1, Constants DEF GraphTypeOK, Seqs
  <2>3. Min({acked, to}) \in {acked, to}
    <3>1. acked \in Int /\ to \in Int
      BY <2>2 DEF Seqs
    <3> QED
      BY <3>1, MinOfTwo
  <2> QED
    BY <1>26, <2>1, <2>2, <2>3 DEF RevertTruncate, Operates, server, GraphTypeOK, ServerTypeOK, Revert
<1>27. CASE RevertGraph
  BY <1>27 DEF GraphTypeOK, ServerTypeOK, RevertGraph, server, Revert, NoRevert
<1>28. CASE RevertSnaps
  BY <1>28, Constants DEF GraphTypeOK, ServerTypeOK, RevertSnaps, server, DiscardAfter, Revert,
     NoRevert, Seqs
<1>29. CASE RevertStops
  BY <1>29, Constants DEF GraphTypeOK, ServerTypeOK, RevertStops, server, disk, MayFail, Revert,
     NoRevert, Seqs
<1>30. CASE Shutdown
  BY <1>30 DEF GraphTypeOK, ServerTypeOK, Shutdown, disk, Phases, Errors
<1>31. CASE Kill
  <2>1. 0 \in Seqs /\ Free \in Lock
    BY Constants DEF Seqs, Free, Lock
  <2> QED
    BY <1>31, <2>1 DEF Kill, disk, GraphTypeOK, ServerTypeOK, Phases
<1> QED
  BY <1>1, <1>2, <1>3, <1>4, <1>5, <1>6, <1>7, <1>8, <1>9, <1>10, <1>11, <1>12, <1>13, <1>14,
     <1>15, <1>16, <1>17, <1>18, <1>19, <1>20, <1>21, <1>22, <1>23, <1>24, <1>25, <1>26, <1>27,
     <1>28, <1>29, <1>30, <1>31 DEF GraphNext, Apply, Booting, Snapshotter, Offline

(* The counters are numbers. *)
LEMMA Counts ==
  ASSUME GraphTypeOK
  PROVE  /\ spent.events \in Nat /\ spent.kills \in Nat /\ spent.failures \in Nat
         /\ spent.cuts \in Nat /\ spent.ops \in Nat
         /\ spent.kills + spent.failures + spent.cuts <= MaxFaults
         /\ MaxEvents \in Nat /\ MaxFaults \in Nat /\ MaxOps \in Nat /\ MaxBatch \in Nat
  BY Constants DEF GraphTypeOK, Seqs

(* The counters stay within their bounds. *)
LEMMA UsedTypes ==
  ASSUME GraphTypeOK, BaseInv, GraphNext
  PROVE  UsedTypeOK'
<1>1. CASE ApplyStatement
  BY <1>1 DEF GraphTypeOK, UsedTypeOK, ApplyStatement, Effect
<1>2. CASE AdvanceHead
  BY <1>2 DEF GraphTypeOK, UsedTypeOK, AdvanceHead
<1>3. CASE ApplyConflicts
  BY <1>3 DEF GraphTypeOK, UsedTypeOK, ApplyConflicts, GivesUp
<1>4. CASE ApplyFails
  <2>1. spent' = [spent EXCEPT !.failures = spent.failures + 1]
    BY <1>4 DEF ApplyFails, MayFail
  <2>2. spent.failures + 1 \in 0 .. MaxFaults
    BY <1>4, Counts DEF ApplyFails, MayFail, Seqs
  <2>3. spent' \in [events : Seqs, kills : 0..MaxFaults, failures : 0..MaxFaults,
                   cuts : 0..MaxFaults, ops : 0..MaxOps]
    BY <2>1, <2>2 DEF GraphTypeOK
  <2>4. spent.kills + spent.failures + spent.cuts + 1 <= MaxFaults
    BY <1>4, Counts DEF ApplyFails, MayFail
  <2>5. spent'.kills + spent'.failures + spent'.cuts = spent.kills + spent.failures + spent.cuts + 1
    BY <2>1, Counts DEF GraphTypeOK
  <2> QED
    BY <2>3, <2>4, <2>5 DEF UsedTypeOK
<1>5. CASE MaterializeDone
  BY <1>5 DEF GraphTypeOK, UsedTypeOK, MaterializeDone
<1>6. ASSUME NEW w \in Writers, Commit(w) PROVE UsedTypeOK'
  <2>0. PICK n \in 1 .. MaxBatch : Room(n) /\ Spent(n)
    BY <1>6 DEF Commit
  <2>1. spent' = [spent EXCEPT !.events = spent.events + n]
    BY <2>0 DEF Spent, Room
  <2>2. spent.events + n \in Seqs
    BY <2>0, Counts DEF Spent, Room, Seqs
  <2>3. spent' \in [events : Seqs, kills : 0..MaxFaults, failures : 0..MaxFaults,
                   cuts : 0..MaxFaults, ops : 0..MaxOps]
    BY <2>1, <2>2 DEF GraphTypeOK
  <2>4. spent'.kills = spent.kills /\ spent'.failures = spent.failures /\ spent'.cuts = spent.cuts
    BY <2>1 DEF GraphTypeOK
  <2> QED
    BY <2>3, <2>4 DEF GraphTypeOK, UsedTypeOK
<1>7. ASSUME NEW w \in Writers, Materialize(w) PROVE UsedTypeOK'
  BY <1>7 DEF GraphTypeOK, UsedTypeOK, Materialize
<1>8. CASE SnapshotDue
  BY <1>8 DEF GraphTypeOK, UsedTypeOK, SnapshotDue, disk
<1>9. CASE SnapshotExists
  BY <1>9 DEF GraphTypeOK, UsedTypeOK, SnapshotExists, disk
<1>10. CASE SnapshotPrune
  BY <1>10 DEF GraphTypeOK, UsedTypeOK, SnapshotPrune, Pruned
<1>11. ASSUME NEW p \in {Driver, Operator}, SnapshotBegin(p) PROVE UsedTypeOK'
  BY <1>11 DEF GraphTypeOK, UsedTypeOK, SnapshotBegin
<1>12. ASSUME NEW p \in {Driver, Operator}, SnapshotEnd(p) PROVE UsedTypeOK'
  BY <1>12 DEF GraphTypeOK, UsedTypeOK, SnapshotEnd
<1>13. CASE BootLock
  BY <1>13 DEF GraphTypeOK, UsedTypeOK, BootLock, disk
<1>14. CASE RestoreFails
  BY <1>14 DEF GraphTypeOK, UsedTypeOK, RestoreFails, BootFails, disk
<1>15. CASE RestoreSkips
  BY <1>15 DEF GraphTypeOK, UsedTypeOK, RestoreSkips, disk
<1>16. CASE RestoreBegin
  BY <1>16 DEF GraphTypeOK, UsedTypeOK, RestoreBegin
<1>17. CASE RestoreEnd
  BY <1>17 DEF GraphTypeOK, UsedTypeOK, RestoreEnd
<1>18. CASE OpenGraph
  BY <1>18 DEF GraphTypeOK, UsedTypeOK, OpenGraph, disk
<1>19. CASE CannotOpen
  BY <1>19 DEF GraphTypeOK, UsedTypeOK, CannotOpen, BootFails, disk
<1>20. CASE OpenResets
  BY <1>20 DEF GraphTypeOK, UsedTypeOK, OpenResets
<1>21. CASE ResetEnd
  BY <1>21 DEF GraphTypeOK, UsedTypeOK, ResetEnd
<1>22. CASE Reconcile
  <2>0. PICK n \in {0, 1} : Room(n) /\ Spent(n)
    BY <1>22 DEF Reconcile
  <2>1. spent' = [spent EXCEPT !.events = spent.events + n]
    BY <2>0 DEF Spent, Room
  <2>2. spent.events + n \in Seqs
    BY <2>0, Counts DEF Spent, Room, Seqs
  <2>3. spent' \in [events : Seqs, kills : 0..MaxFaults, failures : 0..MaxFaults,
                   cuts : 0..MaxFaults, ops : 0..MaxOps]
    BY <2>1, <2>2 DEF GraphTypeOK
  <2>4. spent'.kills = spent.kills /\ spent'.failures = spent.failures /\ spent'.cuts = spent.cuts
    BY <2>1 DEF GraphTypeOK
  <2> QED
    BY <2>3, <2>4 DEF GraphTypeOK, UsedTypeOK
<1>23. CASE OfflineAppend
  <2>1. spent' = [spent EXCEPT !.events = spent.events + 1, !.ops = spent.ops + 1]
    BY <1>23 DEF OfflineAppend, Operates, Room
  <2>2. spent.events + 1 \in Seqs /\ spent.ops + 1 \in 0 .. MaxOps
    BY <1>23, Counts DEF OfflineAppend, Operates, Room, Seqs
  <2>3. spent' \in [events : Seqs, kills : 0..MaxFaults, failures : 0..MaxFaults,
                   cuts : 0..MaxFaults, ops : 0..MaxOps]
    BY <2>1, <2>2 DEF GraphTypeOK
  <2>4. spent'.kills = spent.kills /\ spent'.failures = spent.failures /\ spent'.cuts = spent.cuts
    BY <2>1 DEF GraphTypeOK
  <2> QED
    BY <2>3, <2>4 DEF GraphTypeOK, UsedTypeOK
<1>24. CASE DeleteGraph
  <2>1. spent' = [spent EXCEPT !.ops = spent.ops + 1]
    BY <1>24 DEF DeleteGraph
  <2>2. spent.ops + 1 \in 0 .. MaxOps
    <3>1. spent.ops < MaxOps
      BY <1>24 DEF DeleteGraph, Operates
    <3> QED
      BY <3>1, Counts
  <2>3. spent' \in [events : Seqs, kills : 0..MaxFaults, failures : 0..MaxFaults,
                   cuts : 0..MaxFaults, ops : 0..MaxOps]
    BY <2>1, <2>2 DEF GraphTypeOK
  <2>4. spent'.kills = spent.kills /\ spent'.failures = spent.failures /\ spent'.cuts = spent.cuts
    BY <2>1 DEF GraphTypeOK
  <2> QED
    BY <2>3, <2>4 DEF GraphTypeOK, UsedTypeOK
<1>25. CASE Upgrade
  <2>1. spent' = [spent EXCEPT !.ops = spent.ops + 1]
    BY <1>25 DEF Upgrade
  <2>2. spent.ops + 1 \in 0 .. MaxOps
    <3>1. spent.ops < MaxOps
      BY <1>25 DEF Upgrade, Operates
    <3> QED
      BY <3>1, Counts
  <2>3. spent' \in [events : Seqs, kills : 0..MaxFaults, failures : 0..MaxFaults,
                   cuts : 0..MaxFaults, ops : 0..MaxOps]
    BY <2>1, <2>2 DEF GraphTypeOK
  <2>4. spent'.kills = spent.kills /\ spent'.failures = spent.failures /\ spent'.cuts = spent.cuts
    BY <2>1 DEF GraphTypeOK
  <2> QED
    BY <2>3, <2>4 DEF GraphTypeOK, UsedTypeOK
<1>26. CASE RevertTruncate
  <2>1. spent' = [spent EXCEPT !.ops = spent.ops + 1]
    BY <1>26 DEF RevertTruncate
  <2>2. spent.ops + 1 \in 0 .. MaxOps
    <3>1. spent.ops < MaxOps
      BY <1>26 DEF RevertTruncate, Operates
    <3> QED
      BY <3>1, Counts
  <2>3. spent' \in [events : Seqs, kills : 0..MaxFaults, failures : 0..MaxFaults,
                   cuts : 0..MaxFaults, ops : 0..MaxOps]
    BY <2>1, <2>2 DEF GraphTypeOK
  <2>4. spent'.kills = spent.kills /\ spent'.failures = spent.failures /\ spent'.cuts = spent.cuts
    BY <2>1 DEF GraphTypeOK
  <2> QED
    BY <2>3, <2>4 DEF GraphTypeOK, UsedTypeOK
<1>27. CASE RevertGraph
  BY <1>27 DEF GraphTypeOK, UsedTypeOK, RevertGraph, server
<1>28. CASE RevertSnaps
  BY <1>28 DEF GraphTypeOK, UsedTypeOK, RevertSnaps, server, DiscardAfter
<1>29. CASE RevertStops
  <2>1. spent' = [spent EXCEPT !.cuts = spent.cuts + 1]
    BY <1>29 DEF RevertStops, MayFail
  <2>2. spent.cuts + 1 \in 0 .. MaxFaults
    BY <1>29, Counts DEF RevertStops, MayFail, Seqs
  <2>3. spent' \in [events : Seqs, kills : 0..MaxFaults, failures : 0..MaxFaults,
                   cuts : 0..MaxFaults, ops : 0..MaxOps]
    BY <2>1, <2>2 DEF GraphTypeOK
  <2>4. spent.kills + spent.failures + spent.cuts + 1 <= MaxFaults
    BY <1>29, Counts DEF RevertStops, MayFail
  <2>5. spent'.kills + spent'.failures + spent'.cuts = spent.kills + spent.failures + spent.cuts + 1
    BY <2>1, Counts DEF GraphTypeOK
  <2> QED
    BY <2>3, <2>4, <2>5 DEF UsedTypeOK
<1>30. CASE Shutdown
  BY <1>30 DEF GraphTypeOK, UsedTypeOK, Shutdown, disk
<1>31. CASE Kill
  <2>1. spent' = [spent EXCEPT !.kills = spent.kills + 1]
    BY <1>31 DEF Kill, MayFail
  <2>2. spent.kills + 1 \in 0 .. MaxFaults
    BY <1>31, Counts DEF Kill, MayFail, Seqs
  <2>3. spent' \in [events : Seqs, kills : 0..MaxFaults, failures : 0..MaxFaults,
                   cuts : 0..MaxFaults, ops : 0..MaxOps]
    BY <2>1, <2>2 DEF GraphTypeOK
  <2>4. spent.kills + spent.failures + spent.cuts + 1 <= MaxFaults
    BY <1>31, Counts DEF Kill, MayFail
  <2>5. spent'.kills + spent'.failures + spent'.cuts = spent.kills + spent.failures + spent.cuts + 1
    BY <2>1, Counts DEF GraphTypeOK
  <2> QED
    BY <2>3, <2>4, <2>5 DEF UsedTypeOK
<1> QED
  BY <1>1, <1>2, <1>3, <1>4, <1>5, <1>6, <1>7, <1>8, <1>9, <1>10, <1>11, <1>12, <1>13, <1>14,
     <1>15, <1>16, <1>17, <1>18, <1>19, <1>20, <1>21, <1>22, <1>23, <1>24, <1>25, <1>26, <1>27,
     <1>28, <1>29, <1>30, <1>31 DEF GraphNext, Apply, Booting, Snapshotter, Offline

(* Every variable keeps its type. *)
LEMMA TypeStep ==
  ASSUME GraphTypeOK, BaseInv, GraphNext
  PROVE  GraphTypeOK'
  BY LogTypes, GraphTypes, SnapTypes, ServerTypes, UsedTypes DEF GraphTypeOK, ServerTypeOK, UsedTypeOK

-----------------------------------------------------------------------------
(* The server, the revert, the ids and the names of snapshots.             *)

(* An id stays given to one event: appends take new ones, cuts free none. *)
LEMMA IdStep ==
  ASSUME BaseInv, GraphNext
  PROVE  IdInv'
<1>1. LogMoves /\ GraphTypeOK /\ IdInv
  BY LogSteps DEF BaseInv
<1>2. /\ events \in Seq(Event) /\ Len(events) \in Nat /\ spent.events \in Nat
      /\ DOMAIN events = 1 .. Len(events)
  BY <1>1, Counts DEF GraphTypeOK
<1>3. \A i \in 1 .. Len(events) : events[i].id \in Nat
  <2>1. \A i \in 1 .. Len(events) : events[i] \in Event
    BY <1>2
  <2>2. \A e \in Event : e.id \in Nat
    BY Constants DEF Event, Ids
  <2> QED
    BY <2>1, <2>2
<1>4. events' \in Seq(Event) /\ Len(events') \in Nat /\ DOMAIN events' = 1 .. Len(events')
  <2>1. events' \in Seq(Event) /\ Len(events') \in Nat
    BY <1>1, LogTypes
  <2> QED
    BY <2>1
<1>5. CASE Keeps
  BY <1>1, <1>5 DEF Keeps, IdInv
<1>6. ASSUME NEW n \in Nat, Grows(n) PROVE IdInv'
  <2>1. PICK L \in Nat, u \in Nat : L = Len(events) /\ u = spent.events
    BY <1>2
  <2>2. /\ L <= u /\ Len(events') = L + n /\ spent'.events = u + n
        /\ \A i \in 1 .. L : events'[i].id = events[i].id /\ events[i].id \in Nat /\ events[i].id <= u
        /\ \A i \in 1 .. n : events'[L + i].id = u + i
        /\ \A i, j \in 1 .. L : i < j => events[i].id < events[j].id
    BY <1>1, <1>2, <1>3, <1>6, <2>1 DEF Grows, IdInv
  <2>3. \A i \in 1 .. L + n : \/ i \in 1 .. L
                              \/ i - L \in 1 .. n /\ events'[i].id = u + (i - L)
    <3> SUFFICES ASSUME NEW i \in 1 .. L + n, i \notin 1 .. L
                 PROVE  i - L \in 1 .. n /\ events'[i].id = u + (i - L)
      OBVIOUS
    <3>1. i - L \in 1 .. n /\ L + (i - L) = i
      OBVIOUS
    <3> QED
      BY <2>2, <3>1
  <2>4. \A i \in 1 .. L + n : events'[i].id <= u + n
    BY <2>2, <2>3
  <2>5. ASSUME NEW i \in 1 .. L + n, NEW j \in 1 .. L + n, i < j
        PROVE  events'[i].id < events'[j].id
    <3>1. CASE i \in 1 .. L /\ j \in 1 .. L
      BY <2>2, <2>5, <3>1
    <3>2. CASE i \in 1 .. L /\ j \notin 1 .. L
      <4>1. events'[i].id \in Nat /\ events'[i].id <= u
        BY <2>2, <3>2
      <4>2. events'[j].id = u + (j - L) /\ j - L > 0
        BY <2>3, <3>2
      <4> QED
        BY <4>1, <4>2
    <3>3. CASE i \notin 1 .. L
      <4>1. j \notin 1 .. L
        BY <2>5, <3>3
      <4>2. events'[i].id = u + (i - L) /\ events'[j].id = u + (j - L)
        BY <2>3, <3>3, <4>1
      <4> QED
        BY <2>5, <4>2
    <3> QED
      BY <3>1, <3>2, <3>3
  <2> QED
    BY <1>4, <2>2, <2>4, <2>5 DEF IdInv
<1>7. ASSUME NEW to \in Nat, Cuts(to) PROVE IdInv'
  <2>1. to <= Len(events) /\ Len(events') = to /\ \A i \in 1 .. to : events'[i] = events[i]
    BY <1>2, <1>7 DEF Cuts
  <2>2. spent'.events = spent.events
    BY <1>7 DEF Cuts
  <2>3. \A i \in 1 .. to : i \in 1 .. Len(events)
    BY <1>2, <2>1
  <2> QED
    BY <1>1, <1>2, <1>4, <2>1, <2>2, <2>3 DEF IdInv
<1> QED
  BY <1>1, <1>5, <1>6, <1>7 DEF LogMoves

(* An id is a number, and given to one event. *)
LEMMA OneId ==
  ASSUME BaseInv
  PROVE  /\ Len(events) \in Nat
         /\ \A i \in 1 .. Len(events) : events[i] \in Event /\ events[i].id \in Nat
         /\ \A i, j \in 1 .. Len(events) : i < j => events[i].id < events[j].id
         /\ \A i, j \in 1 .. Len(events) : events[i].id = events[j].id => i = j
<1>1. events \in Seq(Event) /\ Len(events) \in Nat /\ DOMAIN events = 1 .. Len(events)
  BY DEF BaseInv, GraphTypeOK
<1>2. \A i \in 1 .. Len(events) : events[i] \in Event
  BY <1>1
<1>3. \A e \in Event : e.id \in Nat
  BY Constants DEF Event, Ids
<1>4. \A i, j \in 1 .. Len(events) : i < j => events[i].id < events[j].id
  BY <1>1 DEF BaseInv, IdInv
<1>5. \A i, j \in 1 .. Len(events) : events[i].id = events[j].id => i = j
  <2>1. SUFFICES ASSUME NEW i \in 1 .. Len(events), NEW j \in 1 .. Len(events),
                        events[i].id = events[j].id, i # j
                 PROVE  FALSE
    OBVIOUS
  <2>2. events[i].id \in Nat /\ events[j].id \in Nat
    BY <1>2, <1>3
  <2>3. i < j \/ j < i
    BY <1>1, <2>1
  <2> QED
    BY <1>4, <2>1, <2>2, <2>3
<1> QED
  BY <1>1, <1>2, <1>3, <1>4, <1>5

(* The lock, the tasks and the stamp of the graph stay in step. *)
LEMMA ServerStep ==
  ASSUME BaseInv, GraphNext
  PROVE  ServerInv'
<1>1. CASE ApplyStatement
  BY <1>1, Constants DEF BaseInv, ServerInv, GraphTypeOK, ApplyStatement, Effect, Materializing,
     Graph, Lock
<1>2. CASE AdvanceHead
  BY <1>2, Constants DEF BaseInv, ServerInv, GraphTypeOK, AdvanceHead, Materializing, Graph, Lock
<1>3. CASE ApplyConflicts
  BY <1>3, Constants DEF BaseInv, ServerInv, GraphTypeOK, ApplyConflicts, GivesUp, Free,
     Materializing
<1>4. CASE ApplyFails
  BY <1>4, Constants DEF BaseInv, ServerInv, GraphTypeOK, ApplyFails, GivesUp, MayFail, Free,
     Materializing
<1>5. CASE MaterializeDone
  BY <1>5, Constants DEF BaseInv, ServerInv, GraphTypeOK, MaterializeDone, Free, Materializing
<1>6. ASSUME NEW w \in Writers, Commit(w) PROVE ServerInv'
  BY <1>6, Constants DEF BaseInv, ServerInv, GraphTypeOK, Commit, Spent, Free, Materializing
<1>7. ASSUME NEW w \in Writers, Materialize(w) PROVE ServerInv'
  BY <1>7, Constants DEF BaseInv, ServerInv, GraphTypeOK, Materialize, Free, Materializing
<1>8. CASE SnapshotDue
  BY <1>8 DEF BaseInv, ServerInv, GraphTypeOK, SnapshotDue, disk, Free
<1>9. CASE SnapshotExists
  BY <1>9 DEF BaseInv, ServerInv, GraphTypeOK, SnapshotExists, disk, Free
<1>10. CASE SnapshotPrune
  BY <1>10 DEF BaseInv, ServerInv, GraphTypeOK, SnapshotPrune, Pruned, Free
<1>11. ASSUME NEW p \in {Driver, Operator}, SnapshotBegin(p) PROVE ServerInv'
  BY <1>11, Constants DEF BaseInv, ServerInv, GraphTypeOK, SnapshotBegin, Free, Materializing
<1>12. ASSUME NEW p \in {Driver, Operator}, SnapshotEnd(p) PROVE ServerInv'
  BY <1>12, Constants DEF BaseInv, ServerInv, GraphTypeOK, SnapshotEnd, Free, Materializing
<1>13. CASE BootLock
  BY <1>13 DEF BaseInv, ServerInv, GraphTypeOK, BootLock, disk, Free
<1>14. CASE RestoreFails
  BY <1>14 DEF BaseInv, ServerInv, GraphTypeOK, RestoreFails, BootFails, disk, Free
<1>15. CASE RestoreSkips
  BY <1>15 DEF BaseInv, ServerInv, GraphTypeOK, RestoreSkips, disk, Free
<1>16. CASE RestoreBegin
  BY <1>16 DEF BaseInv, ServerInv, GraphTypeOK, RestoreBegin, Free
<1>17. CASE RestoreEnd
  BY <1>17 DEF BaseInv, ServerInv, GraphTypeOK, RestoreEnd, Free
<1>18. CASE OpenGraph
  BY <1>18 DEF BaseInv, ServerInv, GraphTypeOK, OpenGraph, disk, SchemaMatches
<1>19. CASE CannotOpen
  BY <1>19 DEF BaseInv, ServerInv, GraphTypeOK, CannotOpen, BootFails, disk, Free
<1>20. CASE OpenResets
  BY <1>20 DEF BaseInv, ServerInv, GraphTypeOK, OpenResets, Free
<1>21. CASE ResetEnd
  BY <1>21, Files DEF BaseInv, ServerInv, GraphTypeOK, ResetEnd
<1>22. CASE Reconcile
  BY <1>22, Constants DEF BaseInv, ServerInv, GraphTypeOK, Reconcile, Spent, Free, Materializing
<1>23. CASE OfflineAppend
  BY <1>23 DEF BaseInv, ServerInv, GraphTypeOK, OfflineAppend, Operates, server, Free
<1>24. CASE DeleteGraph
  BY <1>24 DEF BaseInv, ServerInv, GraphTypeOK, DeleteGraph, Operates, server, Free
<1>25. CASE Upgrade
  BY <1>25 DEF BaseInv, ServerInv, GraphTypeOK, Upgrade, Operates, server, disk, Free
<1>26. CASE RevertTruncate
  BY <1>26 DEF BaseInv, ServerInv, GraphTypeOK, RevertTruncate, Operates, server, Free
<1>27. CASE RevertGraph
  BY <1>27 DEF BaseInv, ServerInv, GraphTypeOK, RevertGraph, server, RevertInv, NoRevert
<1>28. CASE RevertSnaps
  BY <1>28 DEF BaseInv, ServerInv, GraphTypeOK, RevertSnaps, server, DiscardAfter, Free
<1>29. CASE RevertStops
  BY <1>29 DEF BaseInv, ServerInv, GraphTypeOK, RevertStops, server, disk, MayFail, Free
<1>30. CASE Shutdown
  BY <1>30, Constants DEF BaseInv, ServerInv, GraphTypeOK, Shutdown, disk, Free, Materializing
<1>31. CASE Kill
  BY <1>31, Constants DEF BaseInv, ServerInv, GraphTypeOK, Kill, disk, MayFail, Free, Materializing
<1> QED
  BY <1>1, <1>2, <1>3, <1>4, <1>5, <1>6, <1>7, <1>8, <1>9, <1>10, <1>11, <1>12, <1>13, <1>14,
     <1>15, <1>16, <1>17, <1>18, <1>19, <1>20, <1>21, <1>22, <1>23, <1>24, <1>25, <1>26, <1>27,
     <1>28, <1>29, <1>30, <1>31 DEF GraphNext, Apply, Booting, Snapshotter, Offline

(* The end of the log stays where a revert cut it, until it is done. *)
LEMMA RevertStep ==
  ASSUME BaseInv, GraphNext
  PROVE  RevertInv'
<1>1. CASE ApplyStatement
  BY <1>1 DEF BaseInv, RevertInv, GraphTypeOK, NoRevert, ApplyStatement, Effect
<1>2. CASE AdvanceHead
  BY <1>2 DEF BaseInv, RevertInv, GraphTypeOK, NoRevert, AdvanceHead
<1>3. CASE ApplyConflicts
  BY <1>3 DEF BaseInv, RevertInv, GraphTypeOK, NoRevert, ApplyConflicts, GivesUp
<1>4. CASE ApplyFails
  BY <1>4 DEF BaseInv, RevertInv, GraphTypeOK, NoRevert, ApplyFails, GivesUp, MayFail
<1>5. CASE MaterializeDone
  <2>1. UNCHANGED <<events, revert>> /\ (revert # NoRevert => phase' = phase)
    BY <1>5, Constants DEF MaterializeDone, Materializing, BaseInv, ServerInv, RevertInv
  <2> QED
    BY <2>1 DEF BaseInv, RevertInv
<1>6. ASSUME NEW w \in Writers, Commit(w) PROVE RevertInv'
  BY <1>6 DEF BaseInv, RevertInv, GraphTypeOK, NoRevert, Commit, Spent
<1>7. ASSUME NEW w \in Writers, Materialize(w) PROVE RevertInv'
  BY <1>7 DEF BaseInv, RevertInv, GraphTypeOK, NoRevert, Materialize
<1>8. CASE SnapshotDue
  BY <1>8 DEF BaseInv, RevertInv, GraphTypeOK, NoRevert, SnapshotDue, disk
<1>9. CASE SnapshotExists
  BY <1>9 DEF BaseInv, RevertInv, GraphTypeOK, NoRevert, SnapshotExists, disk
<1>10. CASE SnapshotPrune
  BY <1>10 DEF BaseInv, RevertInv, GraphTypeOK, NoRevert, SnapshotPrune, Pruned
<1>11. ASSUME NEW p \in {Driver, Operator}, SnapshotBegin(p) PROVE RevertInv'
  BY <1>11 DEF BaseInv, RevertInv, GraphTypeOK, NoRevert, SnapshotBegin
<1>12. ASSUME NEW p \in {Driver, Operator}, SnapshotEnd(p) PROVE RevertInv'
  BY <1>12 DEF BaseInv, RevertInv, GraphTypeOK, NoRevert, SnapshotEnd
<1>13. CASE BootLock
  BY <1>13 DEF BaseInv, RevertInv, GraphTypeOK, NoRevert, BootLock, disk
<1>14. CASE RestoreFails
  BY <1>14 DEF BaseInv, RevertInv, GraphTypeOK, NoRevert, RestoreFails, BootFails, disk
<1>15. CASE RestoreSkips
  BY <1>15 DEF BaseInv, RevertInv, GraphTypeOK, NoRevert, RestoreSkips, disk
<1>16. CASE RestoreBegin
  BY <1>16 DEF BaseInv, RevertInv, GraphTypeOK, NoRevert, RestoreBegin
<1>17. CASE RestoreEnd
  BY <1>17 DEF BaseInv, RevertInv, GraphTypeOK, NoRevert, RestoreEnd
<1>18. CASE OpenGraph
  BY <1>18 DEF BaseInv, RevertInv, GraphTypeOK, NoRevert, OpenGraph, disk
<1>19. CASE CannotOpen
  BY <1>19 DEF BaseInv, RevertInv, GraphTypeOK, NoRevert, CannotOpen, BootFails, disk
<1>20. CASE OpenResets
  BY <1>20 DEF BaseInv, RevertInv, GraphTypeOK, NoRevert, OpenResets
<1>21. CASE ResetEnd
  BY <1>21 DEF BaseInv, RevertInv, GraphTypeOK, NoRevert, ResetEnd
<1>22. CASE Reconcile
  BY <1>22 DEF BaseInv, RevertInv, GraphTypeOK, NoRevert, Reconcile, Spent
<1>23. CASE OfflineAppend
  BY <1>23 DEF BaseInv, RevertInv, GraphTypeOK, NoRevert, OfflineAppend, Operates, server
<1>24. CASE DeleteGraph
  BY <1>24 DEF BaseInv, RevertInv, GraphTypeOK, NoRevert, DeleteGraph, Operates, server
<1>25. CASE Upgrade
  BY <1>25 DEF BaseInv, RevertInv, GraphTypeOK, NoRevert, Upgrade, Operates, server, disk
<1>26. CASE RevertTruncate
  BY <1>26 DEF BaseInv, RevertInv, GraphTypeOK, NoRevert, RevertTruncate, Operates, server
<1>27. CASE RevertGraph
  BY <1>27 DEF BaseInv, RevertInv, GraphTypeOK, NoRevert, RevertGraph, server
<1>28. CASE RevertSnaps
  BY <1>28 DEF BaseInv, RevertInv, GraphTypeOK, NoRevert, RevertSnaps, server, DiscardAfter
<1>29. CASE RevertStops
  BY <1>29 DEF BaseInv, RevertInv, GraphTypeOK, NoRevert, RevertStops, server, disk, MayFail
<1>30. CASE Shutdown
  BY <1>30 DEF BaseInv, RevertInv, GraphTypeOK, NoRevert, Shutdown, disk
<1>31. CASE Kill
  BY <1>31 DEF BaseInv, RevertInv, GraphTypeOK, NoRevert, Kill, disk, MayFail
<1> QED
  BY <1>1, <1>2, <1>3, <1>4, <1>5, <1>6, <1>7, <1>8, <1>9, <1>10, <1>11, <1>12, <1>13, <1>14,
     <1>15, <1>16, <1>17, <1>18, <1>19, <1>20, <1>21, <1>22, <1>23, <1>24, <1>25, <1>26, <1>27,
     <1>28, <1>29, <1>30, <1>31 DEF GraphNext, Apply, Booting, Snapshotter, Offline

(* What was acknowledged stays in the log, and in what is served. *)
LEMMA AckStep ==
  ASSUME BaseInv, GraphNext
  PROVE  AckInv'
<1>1. CASE ApplyStatement
  BY <1>1 DEF BaseInv, AckInv, GraphTypeOK, ApplyStatement, Effect
<1>2. CASE AdvanceHead
  <2>1. graph'.head = graph.head + 1 /\ graph.head \in Nat
    BY <1>2, NextIsEvent DEF AdvanceHead, BaseInv, GraphTypeOK, Graph
  <2>2. UNCHANGED <<events, acked, mark, phase>>
    BY <1>2 DEF AdvanceHead
  <2>3. acked \in Nat
    BY DEF BaseInv, GraphTypeOK, Seqs
  <2>4. AckInv
    BY DEF BaseInv
  <2> QED
    BY <2>1, <2>2, <2>3, <2>4 DEF AckInv
<1>3. CASE ApplyConflicts
  BY <1>3 DEF BaseInv, AckInv, GraphTypeOK, ApplyConflicts, GivesUp
<1>4. CASE ApplyFails
  <2>1. UNCHANGED <<events, graph, acked>> /\ (phase' = "up" => phase = "up")
    BY <1>4 DEF ApplyFails, GivesUp
  <2>2. \A w \in Writers : mark'[w] \in {mark[w], 0}
    BY <1>4 DEF ApplyFails, GivesUp, BaseInv, GraphTypeOK
  <2>3. Len(events) \in Nat /\ AckInv
    BY DEF BaseInv, GraphTypeOK
  <2> QED
    BY <2>1, <2>2, <2>3 DEF AckInv
<1>5. CASE MaterializeDone
  <2>1. UNCHANGED <<events, graph>> /\ graph.head >= Len(events) /\ graph.head \in Nat /\ Len(events) \in Nat
    BY <1>5 DEF MaterializeDone, Behind, BaseInv, GraphTypeOK, Graph, Seqs
  <2>2. \A w \in Writers : mark'[w] \in {mark[w], 0}
    BY <1>5 DEF MaterializeDone, BaseInv, GraphTypeOK
  <2>3. acked' <= Len(events)
    <3>1. CASE graphLock.by = Boot
      BY <1>5, <3>1 DEF MaterializeDone, BaseInv, AckInv
    <3>2. CASE graphLock.by # Boot
      <4>1. graphLock.by \in Writers /\ acked' = Max({acked, mark[graphLock.by]})
        BY <1>5, <3>2 DEF MaterializeDone, Materializing
      <4>2. acked \in Int /\ mark[graphLock.by] \in Int
        BY <4>1 DEF BaseInv, GraphTypeOK, Seqs
      <4>3. Max({acked, mark[graphLock.by]}) \in {acked, mark[graphLock.by]}
        BY <4>2, MaxOfTwo
      <4> QED
        BY <4>1, <4>3 DEF BaseInv, AckInv
    <3> QED
      BY <3>1, <3>2
  <2>4. acked' \in Nat
    BY TypeStep DEF BaseInv, GraphTypeOK, Seqs
  <2>5. AckInv
    BY DEF BaseInv
  <2> QED
    BY <2>1, <2>2, <2>3, <2>4, <2>5 DEF AckInv
<1>6. ASSUME NEW w \in Writers, Commit(w) PROVE AckInv'
  <2>1. PICK n \in Nat : Grows(n) /\ mark' = [mark EXCEPT ![w] = Len(events) + n]
    BY <1>6, CommitGrows DEF BaseInv
  <2>2. Len(events') = Len(events) + n /\ Len(events) \in Nat /\ AckInv
    BY <2>1 DEF Grows, BaseInv, GraphTypeOK
  <2>3. \A v \in Writers : mark'[v] \in {mark[v], Len(events) + n} /\ mark[v] \in Nat
    BY <2>1 DEF BaseInv, GraphTypeOK, Seqs
  <2>4. UNCHANGED <<graph, acked, phase>> /\ acked \in Nat
    BY <1>6 DEF Commit, BaseInv, GraphTypeOK, Seqs
  <2> QED
    BY <2>2, <2>3, <2>4 DEF AckInv
<1>7. ASSUME NEW w \in Writers, Materialize(w) PROVE AckInv'
  BY <1>7 DEF BaseInv, AckInv, GraphTypeOK, Materialize
<1>8. CASE SnapshotDue
  BY <1>8 DEF BaseInv, AckInv, GraphTypeOK, SnapshotDue, disk
<1>9. CASE SnapshotExists
  BY <1>9 DEF BaseInv, AckInv, GraphTypeOK, SnapshotExists, disk
<1>10. CASE SnapshotPrune
  BY <1>10 DEF BaseInv, AckInv, GraphTypeOK, SnapshotPrune, Pruned
<1>11. ASSUME NEW p \in {Driver, Operator}, SnapshotBegin(p) PROVE AckInv'
  BY <1>11 DEF BaseInv, AckInv, GraphTypeOK, SnapshotBegin
<1>12. ASSUME NEW p \in {Driver, Operator}, SnapshotEnd(p) PROVE AckInv'
  BY <1>12 DEF BaseInv, AckInv, GraphTypeOK, SnapshotEnd
<1>13. CASE BootLock
  BY <1>13 DEF BaseInv, AckInv, GraphTypeOK, BootLock, disk
<1>14. CASE RestoreFails
  BY <1>14 DEF BaseInv, AckInv, GraphTypeOK, RestoreFails, BootFails, disk
<1>15. CASE RestoreSkips
  BY <1>15 DEF BaseInv, AckInv, GraphTypeOK, RestoreSkips, disk
<1>16. CASE RestoreBegin
  BY <1>16 DEF BaseInv, AckInv, GraphTypeOK, RestoreBegin
<1>17. CASE RestoreEnd
  BY <1>17 DEF BaseInv, AckInv, GraphTypeOK, RestoreEnd
<1>18. CASE OpenGraph
  BY <1>18 DEF BaseInv, AckInv, GraphTypeOK, OpenGraph, disk
<1>19. CASE CannotOpen
  BY <1>19 DEF BaseInv, AckInv, GraphTypeOK, CannotOpen, BootFails, disk
<1>20. CASE OpenResets
  BY <1>20 DEF BaseInv, AckInv, GraphTypeOK, OpenResets
<1>21. CASE ResetEnd
  BY <1>21 DEF BaseInv, AckInv, GraphTypeOK, ResetEnd
<1>22. CASE Reconcile
  <2>1. UNCHANGED <<mark, acked>> /\ phase' # "up"
    BY <1>22 DEF Reconcile, Operates, server
  <2>2. acked \in Nat /\ mark \in [Writers -> Nat] /\ Len(events) \in Nat /\ AckInv
    BY DEF BaseInv, GraphTypeOK, Seqs
  <2>3. Len(events) <= Len(events') /\ Len(events') \in Nat
    BY <1>22, ReconcileGrows DEF Grows, BaseInv, GraphTypeOK
  <2> QED
    BY <2>1, <2>2, <2>3 DEF AckInv
<1>23. CASE OfflineAppend
  <2>1. UNCHANGED <<mark, acked>> /\ phase' # "up"
    BY <1>23 DEF OfflineAppend, Operates, server
  <2>2. acked \in Nat /\ mark \in [Writers -> Nat] /\ Len(events) \in Nat /\ AckInv
    BY DEF BaseInv, GraphTypeOK, Seqs
  <2>3. Len(events) <= Len(events') /\ Len(events') \in Nat
    BY <1>23, OfflineGrows DEF Grows, BaseInv, GraphTypeOK
  <2> QED
    BY <2>1, <2>2, <2>3 DEF AckInv
<1>24. CASE DeleteGraph
  BY <1>24 DEF BaseInv, AckInv, GraphTypeOK, DeleteGraph, Operates, server
<1>25. CASE Upgrade
  BY <1>25 DEF BaseInv, AckInv, GraphTypeOK, Upgrade, Operates, server, disk
<1>26. CASE RevertTruncate
  <2>1. PICK to \in 0 .. Len(events) - 1 : events' = SubSeq(events, 1, to) /\ acked' = Min({acked, to})
    BY <1>26 DEF RevertTruncate
  <2>2. acked \in Nat /\ Len(events) \in Nat /\ events \in Seq(Event)
    BY DEF BaseInv, GraphTypeOK, Seqs
  <2>3. Len(events') = to /\ to \in Int
    BY <2>1, <2>2
  <2>4. Min({acked, to}) <= to
    <3>1. acked \in Int /\ to \in Int
      BY <2>2, <2>3
    <3> QED
      BY <3>1, MinOfTwo
  <2>5. phase' # "up" /\ phase = "down" /\ mark' = mark
    BY <1>26 DEF RevertTruncate, Operates, server
  <2>6. \A w \in Writers : mark[w] = 0
    BY <2>5 DEF BaseInv, ServerInv
  <2> QED
    BY <2>1, <2>3, <2>4, <2>5, <2>6 DEF AckInv
<1>27. CASE RevertGraph
  BY <1>27 DEF BaseInv, AckInv, GraphTypeOK, RevertGraph, server, RevertInv, NoRevert
<1>28. CASE RevertSnaps
  BY <1>28 DEF BaseInv, AckInv, GraphTypeOK, RevertSnaps, server, DiscardAfter
<1>29. CASE RevertStops
  BY <1>29 DEF BaseInv, AckInv, GraphTypeOK, RevertStops, server, disk, MayFail
<1>30. CASE Shutdown
  BY <1>30 DEF BaseInv, AckInv, GraphTypeOK, Shutdown, disk
<1>31. CASE Kill
  BY <1>31 DEF BaseInv, AckInv, GraphTypeOK, Kill, disk, MayFail
<1> QED
  BY <1>1, <1>2, <1>3, <1>4, <1>5, <1>6, <1>7, <1>8, <1>9, <1>10, <1>11, <1>12, <1>13, <1>14,
     <1>15, <1>16, <1>17, <1>18, <1>19, <1>20, <1>21, <1>22, <1>23, <1>24, <1>25, <1>26, <1>27,
     <1>28, <1>29, <1>30, <1>31 DEF GraphNext, Apply, Booting, Snapshotter, Offline

(* A readable snapshot is named for its head. *)
LEMMA NamesStep ==
  ASSUME BaseInv, GraphNext
  PROVE  NamesInv'
<1>1. CASE ApplyStatement
  BY <1>1 DEF BaseInv, NamesInv, GraphTypeOK, ApplyStatement, Effect
<1>2. CASE AdvanceHead
  BY <1>2 DEF BaseInv, NamesInv, GraphTypeOK, AdvanceHead
<1>3. CASE ApplyConflicts
  BY <1>3 DEF BaseInv, NamesInv, GraphTypeOK, ApplyConflicts, GivesUp
<1>4. CASE ApplyFails
  BY <1>4 DEF BaseInv, NamesInv, GraphTypeOK, ApplyFails, GivesUp, MayFail
<1>5. CASE MaterializeDone
  BY <1>5 DEF BaseInv, NamesInv, GraphTypeOK, MaterializeDone
<1>6. ASSUME NEW w \in Writers, Commit(w) PROVE NamesInv'
  BY <1>6 DEF BaseInv, NamesInv, GraphTypeOK, Commit, Spent
<1>7. ASSUME NEW w \in Writers, Materialize(w) PROVE NamesInv'
  BY <1>7 DEF BaseInv, NamesInv, GraphTypeOK, Materialize
<1>8. CASE SnapshotDue
  BY <1>8 DEF BaseInv, NamesInv, GraphTypeOK, SnapshotDue, disk
<1>9. CASE SnapshotExists
  BY <1>9 DEF BaseInv, NamesInv, GraphTypeOK, SnapshotExists, disk
<1>10. CASE SnapshotPrune
  <2>1. \A h \in Seqs : snaps'[h] \in {snaps[h], Absent}
    BY <1>10 DEF SnapshotPrune, Pruned
  <2>2. Absent.st # "ok" /\ NamesInv
    BY Files DEF BaseInv
  <2> QED
    BY <2>1, <2>2 DEF NamesInv
<1>11. ASSUME NEW p \in {Driver, Operator}, SnapshotBegin(p) PROVE NamesInv'
  <2>1. \A h \in Seqs : snaps'[h] \in {snaps[h], File("torn")}
    BY <1>11 DEF SnapshotBegin, BaseInv, GraphTypeOK
  <2>2. File("torn").st # "ok" /\ NamesInv
    BY Files DEF BaseInv
  <2> QED
    BY <2>1, <2>2 DEF NamesInv
<1>12. ASSUME NEW p \in {Driver, Operator}, SnapshotEnd(p) PROVE NamesInv'
  BY <1>12 DEF BaseInv, NamesInv, GraphTypeOK, SnapshotEnd
<1>13. CASE BootLock
  BY <1>13 DEF BaseInv, NamesInv, GraphTypeOK, BootLock, disk
<1>14. CASE RestoreFails
  BY <1>14 DEF BaseInv, NamesInv, GraphTypeOK, RestoreFails, BootFails, disk
<1>15. CASE RestoreSkips
  BY <1>15 DEF BaseInv, NamesInv, GraphTypeOK, RestoreSkips, disk
<1>16. CASE RestoreBegin
  BY <1>16 DEF BaseInv, NamesInv, GraphTypeOK, RestoreBegin
<1>17. CASE RestoreEnd
  BY <1>17 DEF BaseInv, NamesInv, GraphTypeOK, RestoreEnd
<1>18. CASE OpenGraph
  BY <1>18 DEF BaseInv, NamesInv, GraphTypeOK, OpenGraph, disk
<1>19. CASE CannotOpen
  BY <1>19 DEF BaseInv, NamesInv, GraphTypeOK, CannotOpen, BootFails, disk
<1>20. CASE OpenResets
  BY <1>20 DEF BaseInv, NamesInv, GraphTypeOK, OpenResets
<1>21. CASE ResetEnd
  BY <1>21 DEF BaseInv, NamesInv, GraphTypeOK, ResetEnd
<1>22. CASE Reconcile
  BY <1>22 DEF BaseInv, NamesInv, GraphTypeOK, Reconcile, Spent
<1>23. CASE OfflineAppend
  BY <1>23 DEF BaseInv, NamesInv, GraphTypeOK, OfflineAppend, Operates, server
<1>24. CASE DeleteGraph
  BY <1>24 DEF BaseInv, NamesInv, GraphTypeOK, DeleteGraph, Operates, server
<1>25. CASE Upgrade
  BY <1>25 DEF BaseInv, NamesInv, GraphTypeOK, Upgrade, Operates, server, disk
<1>26. CASE RevertTruncate
  BY <1>26 DEF BaseInv, NamesInv, GraphTypeOK, RevertTruncate, Operates, server
<1>27. CASE RevertGraph
  BY <1>27 DEF BaseInv, NamesInv, GraphTypeOK, RevertGraph, server
<1>28. CASE RevertSnaps
  <2>1. \A h \in Seqs : snaps'[h] \in {snaps[h], Absent}
    BY <1>28 DEF RevertSnaps, DiscardAfter
  <2>2. Absent.st # "ok" /\ NamesInv
    BY Files DEF BaseInv
  <2> QED
    BY <2>1, <2>2 DEF NamesInv
<1>29. CASE RevertStops
  BY <1>29 DEF BaseInv, NamesInv, GraphTypeOK, RevertStops, server, disk, MayFail
<1>30. CASE Shutdown
  BY <1>30 DEF BaseInv, NamesInv, GraphTypeOK, Shutdown, disk
<1>31. CASE Kill
  BY <1>31 DEF BaseInv, NamesInv, GraphTypeOK, Kill, disk, MayFail
<1> QED
  BY <1>1, <1>2, <1>3, <1>4, <1>5, <1>6, <1>7, <1>8, <1>9, <1>10, <1>11, <1>12, <1>13, <1>14,
     <1>15, <1>16, <1>17, <1>18, <1>19, <1>20, <1>21, <1>22, <1>23, <1>24, <1>25, <1>26, <1>27,
     <1>28, <1>29, <1>30, <1>31 DEF GraphNext, Apply, Booting, Snapshotter, Offline

(* The part of the invariant that holds whatever fails. *)
LEMMA BaseStep ==
  ASSUME BaseInv, GraphNext
  PROVE  BaseInv'
<1>1. GraphTypeOK
  BY DEF BaseInv
<1> QED
  BY <1>1, TypeStep, ServerStep, RevertStep, AckStep, IdStep, NamesStep DEF BaseInv

-----------------------------------------------------------------------------
(* The fold, one statement at a time.                                      *)

(* An insert, a write and a quiet event, half applied. *)
LEMMA HalfInsert ==
  ASSUME NEW g, NEW l, NEW m \in 0 .. 2, g.head < Len(l), l[g.head + 1] \in Event,
         l[g.head + 1].kind = "insert"
  PROVE  Half(g, l, m) <=>
           /\ g.head <= Len(l)
           /\ g.rows = Rows(l, g.head) \cup {<<l[g.head + 1].id, k>> : k \in 1 .. m}
           /\ g.cell = Cell(l, g.head)
<1>1. {j \in 1 .. m : l[g.head + 1].kind = "insert"} = 1 .. m
  OBVIOUS
<1>2. m <= Statements(l[g.head + 1])
  BY StatementsOf
<1> QED
  BY <1>1, <1>2 DEF Half

LEMMA HalfOther ==
  ASSUME NEW g, NEW l, NEW m \in 0 .. 2, g.head < Len(l), l[g.head + 1] \in Event,
         l[g.head + 1].kind # "insert"
  PROVE  Half(g, l, m) <=>
           /\ g.head <= Len(l)
           /\ m > 0 => m <= Statements(l[g.head + 1])
           /\ g.rows = Rows(l, g.head)
           /\ g.cell = IF m > 0 /\ l[g.head + 1].kind = "write" THEN l[g.head + 1].id
                       ELSE Cell(l, g.head)
<1>1. {j \in 1 .. m : l[g.head + 1].kind = "insert"} = {}
  OBVIOUS
<1>2. {<<l[g.head + 1].id, k>> : k \in {j \in 1 .. m : l[g.head + 1].kind = "insert"}} = {}
  BY <1>1
<1> QED
  BY <1>2 DEF Half

(* The next statement of an event whose first d are done, or of one that a *)
(* kill left half applied and that is applied again from its start: a      *)
(* write comes out the same, and an insert conflicts.                      *)
LEMMA StatementFolds ==
  ASSUME NEW g \in Graph, NEW l, NEW m \in 0 .. 2, NEW d \in 0 .. 2,
         Half(g, l, m), g.head < Len(l), l[g.head + 1] \in Event,
         d < Statements(l[g.head + 1]), m = d \/ d = 0,
         ~Conflict(g, l[g.head + 1], d + 1)
  PROVE  Half(Effect(g, l[g.head + 1], d + 1), l, d + 1) /\ d + 1 \in 0 .. 2
<1>1. PICK e \in Event : e = l[g.head + 1]
  OBVIOUS
<1>2. PICK f : f = Effect(g, e, d + 1)
  OBVIOUS
<1>3. /\ Statements(e) \in 0 .. 2
      /\ e.kind = "quiet" => Statements(e) = 0
      /\ e.kind = "write" => Statements(e) = 1
      /\ e.kind = "insert" => Statements(e) = 2
  BY StatementsOf
<1>4. d + 1 \in 0 .. 2 /\ d + 1 > 0 /\ d + 1 <= Statements(e)
  BY <1>1, <1>3
<1>5. f.head = g.head
  BY <1>2 DEF Effect, Graph
<1>6. CASE e.kind = "insert"
  <2>1. f.rows = g.rows \cup {<<e.id, d + 1>>} /\ f.cell = g.cell
    BY <1>2, <1>6 DEF Effect, Graph
  <2>2. /\ g.head <= Len(l) /\ g.cell = Cell(l, g.head)
        /\ g.rows = Rows(l, g.head) \cup {<<e.id, k>> : k \in 1 .. m}
    BY <1>1, <1>6, HalfInsert
  <2>3. m = d
    <3>1. SUFFICES ASSUME m # d PROVE FALSE
      OBVIOUS
    <3>2. d = 0 /\ 1 \in 1 .. m
      BY <3>1
    <3>3. <<e.id, 1>> \in g.rows
      BY <2>2, <3>2
    <3> QED
      BY <1>1, <1>6, <3>2, <3>3 DEF Conflict
  <2>4. 1 .. d + 1 = (1 .. d) \cup {d + 1}
    OBVIOUS
  <2>5. {<<e.id, k>> : k \in 1 .. d + 1} = {<<e.id, k>> : k \in 1 .. d} \cup {<<e.id, d + 1>>}
    BY <2>4
  <2>6. f.rows = Rows(l, g.head) \cup {<<e.id, k>> : k \in 1 .. d + 1}
    BY <2>1, <2>2, <2>3, <2>5
  <2>7. Half(f, l, d + 1)
    BY <1>1, <1>4, <1>5, <1>6, <2>1, <2>2, <2>6, HalfInsert
  <2> QED
    BY <1>1, <1>2, <1>4, <2>7
<1>7. CASE e.kind = "write"
  <2>1. f.rows = g.rows /\ f.cell = e.id
    BY <1>2, <1>7 DEF Effect, Graph
  <2>2. g.head <= Len(l) /\ g.rows = Rows(l, g.head)
    BY <1>1, <1>7, HalfOther
  <2>3. Half(f, l, d + 1)
    BY <1>1, <1>4, <1>5, <1>7, <2>1, <2>2, HalfOther
  <2> QED
    BY <1>1, <1>2, <1>4, <2>3
<1>8. e.kind # "quiet"
  BY <1>3, <1>4
<1> QED
  BY <1>6, <1>7, <1>8 DEF Event

(* An event whose statements are all done is folded when the head passes   *)
(* it.                                                                     *)
LEMMA HeadFolds ==
  ASSUME NEW g \in Graph, NEW l, NEW m \in 0 .. 2, Half(g, l, m), g.head < Len(l),
         Len(l) \in Nat, l[g.head + 1] \in Event, m = Statements(l[g.head + 1])
  PROVE  Half([g EXCEPT !.head = @ + 1], l, 0)
<1>1. PICK e \in Event : e = l[g.head + 1]
  OBVIOUS
<1>2. PICK f : f = [g EXCEPT !.head = @ + 1]
  OBVIOUS
<1>3. g.head \in Nat
  BY DEF Graph, Seqs
<1>4. f.head = g.head + 1 /\ f.rows = g.rows /\ f.cell = g.cell
  BY <1>2 DEF Graph
<1>5. /\ e.kind = "quiet" => Statements(e) = 0
      /\ e.kind = "write" => Statements(e) = 1
      /\ e.kind = "insert" => Statements(e) = 2
  BY StatementsOf
<1>6. /\ Rows(l, g.head + 1) = Rows(l, g.head) \cup
           {<<e.id, z>> : z \in {j \in 1 .. 2 : e.kind = "insert"}}
      /\ Cell(l, g.head + 1) = IF e.kind = "write" THEN e.id ELSE Cell(l, g.head)
  <2>1. /\ Rows(l, g.head + 1) = Rows(l, g.head) \cup
             {<<l[g.head + 1].id, z>> : z \in {j \in 1 .. 2 : l[g.head + 1].kind = "insert"}}
        /\ Cell(l, g.head + 1) = IF l[g.head + 1].kind = "write" THEN l[g.head + 1].id
                                 ELSE Cell(l, g.head)
    BY <1>3, FoldStep
  <2> QED
    BY <1>1, <2>1
<1>7. g.rows = Rows(l, g.head + 1) /\ g.cell = Cell(l, g.head + 1)
  <2>1. CASE e.kind = "insert"
    <3>1. {j \in 1 .. 2 : e.kind = "insert"} = 1 .. 2 /\ m = 2
      BY <1>1, <1>5, <2>1
    <3>2. g.cell = Cell(l, g.head) /\ g.rows = Rows(l, g.head) \cup {<<e.id, k>> : k \in 1 .. m}
      BY <1>1, <2>1, HalfInsert
    <3>3. g.rows = Rows(l, g.head) \cup {<<e.id, k>> : k \in 1 .. 2}
      BY <3>1, <3>2
    <3>4. Rows(l, g.head + 1) = Rows(l, g.head) \cup {<<e.id, k>> : k \in 1 .. 2}
      BY <1>6, <3>1
    <3> QED
      BY <1>6, <2>1, <3>2, <3>3, <3>4
  <2>2. CASE e.kind # "insert"
    <3>1. {<<e.id, z>> : z \in {j \in 1 .. 2 : e.kind = "insert"}} = {}
      BY <2>2
    <3>2. m > 0 <=> e.kind = "write"
      BY <1>1, <1>5, <2>2 DEF Event
    <3>3. /\ g.rows = Rows(l, g.head)
          /\ g.cell = IF m > 0 /\ e.kind = "write" THEN e.id ELSE Cell(l, g.head)
      BY <1>1, <2>2, HalfOther
    <3> QED
      BY <1>6, <3>1, <3>2, <3>3
  <2> QED
    BY <2>1, <2>2
<1>8. f.head <= Len(l) /\ f.rows = Rows(l, f.head) /\ f.cell = Cell(l, f.head)
  BY <1>3, <1>4, <1>7
<1>9. Half(f, l, 0)
  BY <1>8, HalfZero
<1> QED
  BY <1>2, <1>9

(* An event that is half applied up to where its holder counts does not    *)
(* conflict: its rows are its own.                                         *)
LEMMA NoConflict ==
  ASSUME NEW g, NEW l, NEW m \in 0 .. 2, Half(g, l, m), g.head \in Nat, g.head < Len(l),
         Len(l) \in Nat, l[g.head + 1] \in Event,
         \A i, j \in 1 .. Len(l) : l[i].id = l[j].id => i = j
  PROVE  ~Conflict(g, l[g.head + 1], m + 1)
<1>1. SUFFICES ASSUME Conflict(g, l[g.head + 1], m + 1) PROVE FALSE
  OBVIOUS
<1>2. PICK e : e = l[g.head + 1]
  OBVIOUS
<1>3. e.kind = "insert" /\ <<e.id, m + 1>> \in g.rows
  BY <1>1, <1>2 DEF Conflict
<1>4. g.rows = Rows(l, g.head) \cup {<<e.id, k>> : k \in 1 .. m}
  BY <1>2, <1>3, HalfInsert
<1>5. <<e.id, m + 1>> \in Rows(l, g.head)
  <2>1. m + 1 \notin 1 .. m
    OBVIOUS
  <2> QED
    BY <1>3, <1>4, <2>1
<1>6. PICK i \in 1 .. g.head : l[i].id = e.id
  BY <1>5 DEF Rows
<1>7. i \in 1 .. Len(l) /\ g.head + 1 \in 1 .. Len(l) /\ i # g.head + 1
  OBVIOUS
<1> QED
  BY <1>2, <1>6, <1>7

-----------------------------------------------------------------------------
(* The graph and the snapshots stay folds while only kills strike.         *)

(* A log that has grown keeps what is in it. *)
LEMMA GrownKeeps ==
  ASSUME BaseInv, NEW n \in Nat, Grows(n)
  PROVE  /\ Len(events) \in Nat /\ Len(events') \in Nat /\ Len(events) <= Len(events')
         /\ \A i \in 1 .. Len(events) : events[i] = events'[i]
  BY DEF BaseInv, GraphTypeOK, Grows

(* Who materializes serves or catches up, and is at the next event. *)
LEMMA Holder ==
  ASSUME BaseInv, Materializing
  PROVE  /\ phase \in {"up", "catchup"} /\ graph.st = "ok" /\ revert = NoRevert
         /\ graphLock.by = Boot => phase = "catchup"
         /\ graphLock.by \in Writers => phase = "up"
         /\ revert.at # "graph"
<1>1. phase \in {"up", "catchup"} /\ (graphLock.by = Boot => phase = "catchup") /\ (graphLock.by \in Writers => phase = "up")
  BY DEF BaseInv, ServerInv, Materializing
<1>2. graph.st = "ok"
  BY <1>1 DEF BaseInv, ServerInv
<1>3. revert = NoRevert
  BY <1>1 DEF BaseInv, RevertInv
<1> QED
  BY <1>1, <1>2, <1>3 DEF NoRevert

(* A snapshot is a graph, and its head a number. *)
LEMMA SnapHeads ==
  ASSUME BaseInv
  PROVE  \A h \in Seqs : snaps[h].head \in Nat
<1>1. \A g \in Graph : g.head \in Nat
  BY Constants DEF Graph, Seqs
<1>2. \A h \in Seqs : snaps[h] \in Graph
  BY DEF BaseInv, GraphTypeOK
<1> QED
  BY <1>1, <1>2

FaultsGrow ==
    spent.failures <= spent'.failures /\ spent.cuts <= spent'.cuts

(* Nothing undoes a failed statement or a revert cut short. *)
LEMMA FaultsStay ==
  ASSUME BaseInv, GraphNext
  PROVE  FaultsGrow
<1>0. spent.failures \in Nat /\ spent.cuts \in Nat
  BY Counts DEF BaseInv
<1>1. CASE ApplyStatement
  BY <1>0, <1>1 DEF FaultsGrow, BaseInv, GraphTypeOK, ApplyStatement, Effect
<1>2. CASE AdvanceHead
  BY <1>0, <1>2 DEF FaultsGrow, BaseInv, GraphTypeOK, AdvanceHead
<1>3. CASE ApplyConflicts
  BY <1>0, <1>3 DEF FaultsGrow, BaseInv, GraphTypeOK, ApplyConflicts, GivesUp
<1>4. CASE ApplyFails
  <2>1. spent'.failures = spent.failures + 1 /\ spent'.cuts = spent.cuts
    BY <1>4 DEF ApplyFails, BaseInv, GraphTypeOK
  <2> QED
    BY <1>0, <2>1 DEF FaultsGrow
<1>5. CASE MaterializeDone
  BY <1>0, <1>5 DEF FaultsGrow, BaseInv, GraphTypeOK, MaterializeDone
<1>6. ASSUME NEW w \in Writers, Commit(w) PROVE FaultsGrow
  BY <1>0, <1>6 DEF FaultsGrow, BaseInv, GraphTypeOK, Commit, Spent
<1>7. ASSUME NEW w \in Writers, Materialize(w) PROVE FaultsGrow
  BY <1>0, <1>7 DEF FaultsGrow, BaseInv, GraphTypeOK, Materialize
<1>8. CASE SnapshotDue
  BY <1>0, <1>8 DEF FaultsGrow, BaseInv, GraphTypeOK, SnapshotDue, disk
<1>9. CASE SnapshotExists
  BY <1>0, <1>9 DEF FaultsGrow, BaseInv, GraphTypeOK, SnapshotExists, disk
<1>10. CASE SnapshotPrune
  BY <1>0, <1>10 DEF FaultsGrow, BaseInv, GraphTypeOK, SnapshotPrune, Pruned
<1>11. ASSUME NEW p \in {Driver, Operator}, SnapshotBegin(p) PROVE FaultsGrow
  BY <1>0, <1>11 DEF FaultsGrow, BaseInv, GraphTypeOK, SnapshotBegin
<1>12. ASSUME NEW p \in {Driver, Operator}, SnapshotEnd(p) PROVE FaultsGrow
  BY <1>0, <1>12 DEF FaultsGrow, BaseInv, GraphTypeOK, SnapshotEnd
<1>13. CASE BootLock
  BY <1>0, <1>13 DEF FaultsGrow, BaseInv, GraphTypeOK, BootLock, disk
<1>14. CASE RestoreFails
  BY <1>0, <1>14 DEF FaultsGrow, BaseInv, GraphTypeOK, RestoreFails, BootFails, disk
<1>15. CASE RestoreSkips
  BY <1>0, <1>15 DEF FaultsGrow, BaseInv, GraphTypeOK, RestoreSkips, disk
<1>16. CASE RestoreBegin
  BY <1>0, <1>16 DEF FaultsGrow, BaseInv, GraphTypeOK, RestoreBegin
<1>17. CASE RestoreEnd
  BY <1>0, <1>17 DEF FaultsGrow, BaseInv, GraphTypeOK, RestoreEnd
<1>18. CASE OpenGraph
  BY <1>0, <1>18 DEF FaultsGrow, BaseInv, GraphTypeOK, OpenGraph, disk
<1>19. CASE CannotOpen
  BY <1>0, <1>19 DEF FaultsGrow, BaseInv, GraphTypeOK, CannotOpen, BootFails, disk
<1>20. CASE OpenResets
  BY <1>0, <1>20 DEF FaultsGrow, BaseInv, GraphTypeOK, OpenResets
<1>21. CASE ResetEnd
  BY <1>0, <1>21 DEF FaultsGrow, BaseInv, GraphTypeOK, ResetEnd
<1>22. CASE Reconcile
  BY <1>0, <1>22 DEF FaultsGrow, BaseInv, GraphTypeOK, Reconcile, Spent
<1>23. CASE OfflineAppend
  BY <1>0, <1>23 DEF FaultsGrow, BaseInv, GraphTypeOK, OfflineAppend, Operates, server
<1>24. CASE DeleteGraph
  BY <1>0, <1>24 DEF FaultsGrow, BaseInv, GraphTypeOK, DeleteGraph, Operates, server
<1>25. CASE Upgrade
  BY <1>0, <1>25 DEF FaultsGrow, BaseInv, GraphTypeOK, Upgrade, Operates, server, disk
<1>26. CASE RevertTruncate
  BY <1>0, <1>26 DEF FaultsGrow, BaseInv, GraphTypeOK, RevertTruncate, Operates, server
<1>27. CASE RevertGraph
  BY <1>0, <1>27 DEF FaultsGrow, BaseInv, GraphTypeOK, RevertGraph, server
<1>28. CASE RevertSnaps
  BY <1>0, <1>28 DEF FaultsGrow, BaseInv, GraphTypeOK, RevertSnaps, server, DiscardAfter
<1>29. CASE RevertStops
  <2>1. spent'.cuts = spent.cuts + 1 /\ spent'.failures = spent.failures
    BY <1>29 DEF RevertStops, BaseInv, GraphTypeOK
  <2> QED
    BY <1>0, <2>1 DEF FaultsGrow
<1>30. CASE Shutdown
  BY <1>0, <1>30 DEF FaultsGrow, BaseInv, GraphTypeOK, Shutdown, disk
<1>31. CASE Kill
  BY <1>0, <1>31 DEF FaultsGrow, BaseInv, GraphTypeOK, Kill, disk, MayFail
<1> QED
  BY <1>1, <1>2, <1>3, <1>4, <1>5, <1>6, <1>7, <1>8, <1>9, <1>10, <1>11, <1>12, <1>13, <1>14,
     <1>15, <1>16, <1>17, <1>18, <1>19, <1>20, <1>21, <1>22, <1>23, <1>24, <1>25, <1>26, <1>27,
     <1>28, <1>29, <1>30, <1>31 DEF GraphNext, Apply, Booting, Snapshotter, Offline

(* No fault before a step after which there is none. *)
LEMMA OnlyKillsBefore ==
  ASSUME BaseInv, GraphNext
  PROVE  /\ spent'.cuts = 0 => spent.cuts = 0
         /\ OnlyKills' => OnlyKills
<1>1. spent.failures \in Nat /\ spent.cuts \in Nat
  BY Counts DEF BaseInv
<1> QED
  BY <1>1, FaultsStay DEF FaultsGrow, OnlyKills

(* The graph stays the fold of the log, up to the event under way: what a  *)
(* kill left half applied is applied again, or the boot stops.             *)
LEMMA FoldIsKept ==
  ASSUME BaseInv, FoldInv, SnapInv, OnlyKills', GraphNext
  PROVE  FoldInv'
<1>1. CASE ApplyStatement
  <2>1. /\ Materializing /\ Behind /\ graphLock.done < Statements(events[graph.head + 1])
        /\ ~Conflict(graph, events[graph.head + 1], graphLock.done + 1)
        /\ graph' = Effect(graph, events[graph.head + 1], graphLock.done + 1)
    BY <1>1 DEF ApplyStatement, NextEvent
  <2>2. /\ graph \in Graph /\ graphLock.done \in 0 .. 2 /\ graph.head < Len(events)
        /\ events[graph.head + 1] \in Event
    BY <2>1, NextIsEvent DEF BaseInv, GraphTypeOK, Lock, Behind, NextEvent
  <2>3. PICK m \in 0 .. 2 : Half(graph, events, m) /\ (m = graphLock.done \/ graphLock.done = 0)
    BY <2>1, Holder DEF FoldInv
  <2>4. Half(graph', events, graphLock.done + 1) /\ graphLock.done + 1 \in 0 .. 2
    BY <2>1, <2>2, <2>3, StatementFolds
  <2>5. events' = events /\ graphLock'.done = graphLock.done + 1
    BY <1>1 DEF ApplyStatement, BaseInv, GraphTypeOK, Lock
  <2> QED
    BY <2>4, <2>5 DEF FoldInv
<1>2. CASE AdvanceHead
  <2>1. /\ Materializing /\ Behind /\ graphLock.done = Statements(events[graph.head + 1])
        /\ graph' = [graph EXCEPT !.head = @ + 1]
    BY <1>2 DEF AdvanceHead, NextEvent
  <2>2. /\ graph \in Graph /\ graphLock.done \in 0 .. 2 /\ graph.head < Len(events)
        /\ events[graph.head + 1] \in Event /\ Len(events) \in Nat
    BY <2>1, NextIsEvent DEF BaseInv, GraphTypeOK, Lock, Behind, NextEvent
  <2>3. PICK m \in 0 .. 2 : Half(graph, events, m) /\ (m = graphLock.done \/ graphLock.done = 0)
    BY <2>1, Holder DEF FoldInv
  <2>4. m = graphLock.done
    BY <2>1, <2>2, <2>3 DEF Half
  <2>5. Half(graph', events, 0)
    BY <2>1, <2>2, <2>3, <2>4, HeadFolds
  <2>6. events' = events /\ graphLock'.done = 0
    BY <1>2 DEF AdvanceHead, BaseInv, GraphTypeOK, Lock
  <2> QED
    BY <2>5, <2>6 DEF FoldInv
<1>3. CASE ApplyConflicts
  <2>1. /\ Materializing /\ Behind /\ Conflict(graph, events[graph.head + 1], graphLock.done + 1)
        /\ GivesUp("conflict")
    BY <1>3 DEF ApplyConflicts, NextEvent
  <2>2. /\ graph \in Graph /\ graphLock.done \in 0 .. 2 /\ graph.head < Len(events) /\ graph.head \in Nat
        /\ events[graph.head + 1] \in Event /\ Len(events) \in Nat /\ DOMAIN events = 1 .. Len(events)
    BY <2>1, NextIsEvent DEF BaseInv, GraphTypeOK, Lock, Behind, NextEvent
  <2>3. PICK m \in 0 .. 2 : Half(graph, events, m) /\ (phase = "up" => m = graphLock.done)
    BY <2>1, Holder DEF FoldInv
  <2>4. \A i, j \in 1 .. Len(events) : events[i].id = events[j].id => i = j
    BY OneId
  <2>5. phase # "up"
    BY <2>1, <2>2, <2>3, <2>4, NoConflict
  <2>6. phase' = "down" /\ UNCHANGED <<events, graph>>
    BY <2>1, <2>5, Holder DEF GivesUp, Materializing
  <2> QED
    BY <2>3, <2>6 DEF FoldInv
<1>4. CASE ApplyFails
  <2>1. spent'.failures = spent.failures + 1 /\ spent.failures \in Nat
    BY <1>4, Counts DEF ApplyFails, BaseInv, GraphTypeOK
  <2> QED
    BY <2>1 DEF OnlyKills
<1>5. CASE MaterializeDone
  <2>1. Materializing /\ ~Behind
    BY <1>5 DEF MaterializeDone
  <2>2. PICK m \in 0 .. 2 : Half(graph, events, m)
    BY <2>1, Holder DEF FoldInv
  <2>3. m = 0
    BY <2>1, <2>2 DEF Half, Behind, BaseInv, GraphTypeOK, Graph, Seqs
  <2>4. UNCHANGED <<events, graph>> /\ graphLock'.done = 0
    BY <1>5 DEF MaterializeDone, Free
  <2> QED
    BY <2>2, <2>3, <2>4 DEF FoldInv
<1>6. ASSUME NEW w \in Writers, Commit(w) PROVE FoldInv'
  <2>1. PICK n \in Nat : Grows(n)
    BY <1>6, CommitGrows DEF BaseInv
  <2>2. graph' = graph /\ graph.head \in Nat
    BY <1>6 DEF Commit, BaseInv, GraphTypeOK, Graph, Seqs
  <2>3. \A m \in 0 .. 2 : Half(graph, events, m) => Half(graph, events', m)
    BY <2>1, <2>2, GrownKeeps, HalfExtends
  <2>4. UNCHANGED <<phase, graphLock, revert>> /\ phase = "up"
    BY <1>6 DEF Commit
  <2> QED
    BY <2>2, <2>3, <2>4 DEF FoldInv
<1>7. ASSUME NEW w \in Writers, Materialize(w) PROVE FoldInv'
  <2>1. UNCHANGED <<events, graph, phase, revert>> /\ graphLock'.done = graphLock.done
    BY <1>7 DEF Materialize, Free, BaseInv, ServerInv
  <2> QED
    BY <2>1 DEF FoldInv
<1>8. CASE SnapshotDue
  <2>1. UNCHANGED <<events, graph, phase, revert>> /\ graphLock'.done = graphLock.done
    BY <1>8 DEF SnapshotDue, disk, Free, BaseInv, ServerInv
  <2> QED
    BY <2>1 DEF FoldInv
<1>9. CASE SnapshotExists
  <2>1. UNCHANGED <<events, graph, phase, revert>> /\ graphLock'.done = graphLock.done
    BY <1>9 DEF SnapshotExists, disk, Free, BaseInv, ServerInv
  <2> QED
    BY <2>1 DEF FoldInv
<1>10. CASE SnapshotPrune
  <2>1. UNCHANGED <<events, graph, phase, revert>> /\ graphLock'.done = graphLock.done
    BY <1>10 DEF SnapshotPrune, Pruned, Free, BaseInv, ServerInv
  <2> QED
    BY <2>1 DEF FoldInv
<1>11. ASSUME NEW p \in {Driver, Operator}, SnapshotBegin(p) PROVE FoldInv'
  <2>1. UNCHANGED <<events, graph, phase, revert>> /\ graphLock'.done = graphLock.done
    BY <1>11 DEF SnapshotBegin, Free, BaseInv, ServerInv
  <2> QED
    BY <2>1 DEF FoldInv
<1>12. ASSUME NEW p \in {Driver, Operator}, SnapshotEnd(p) PROVE FoldInv'
  <2>1. UNCHANGED <<events, graph, phase, revert>> /\ graphLock'.done = graphLock.done
    BY <1>12, Constants DEF SnapshotEnd, Free, BaseInv, ServerInv
  <2> QED
    BY <2>1 DEF FoldInv
<1>13. CASE BootLock
  <2>1. UNCHANGED <<events, graph>> /\ phase' \notin {"up", "catchup"}
        /\ (revert.at = "graph" => revert'.at = "graph")
    BY <1>13 DEF BootLock, disk
  <2> QED
    BY <2>1 DEF FoldInv
<1>14. CASE RestoreFails
  <2>1. UNCHANGED <<events, graph>> /\ phase' \notin {"up", "catchup"}
        /\ (revert.at = "graph" => revert'.at = "graph")
    BY <1>14 DEF RestoreFails, BootFails, disk
  <2> QED
    BY <2>1 DEF FoldInv
<1>15. CASE RestoreSkips
  <2>1. UNCHANGED <<events, graph>> /\ phase' \notin {"up", "catchup"}
        /\ (revert.at = "graph" => revert'.at = "graph")
    BY <1>15 DEF RestoreSkips, disk
  <2> QED
    BY <2>1 DEF FoldInv
<1>16. CASE RestoreBegin
  <2>1. graph'.st # "ok"
    BY <1>16, Files DEF RestoreBegin
  <2> QED
    BY <2>1 DEF FoldInv
<1>17. CASE RestoreEnd
  <2>1. graph' = snaps[LatestHead] /\ LatestHead \in Seqs /\ events' = events /\ phase' = "open"
    BY <1>17, NewestIsOne DEF RestoreEnd, BaseInv
  <2>2. revert = NoRevert
    BY <1>17 DEF RestoreEnd, BaseInv, RevertInv
  <2>3. graph'.st = "ok" => Half(graph', events, 0)
    BY <2>1, <2>2 DEF SnapInv
  <2> QED
    BY <2>1, <2>3 DEF FoldInv
<1>18. CASE OpenGraph
  <2>1. UNCHANGED <<events, graph>> /\ phase' \notin {"up", "catchup"}
        /\ (revert.at = "graph" => revert'.at = "graph")
    BY <1>18 DEF OpenGraph, disk
  <2> QED
    BY <2>1 DEF FoldInv
<1>19. CASE CannotOpen
  <2>1. UNCHANGED <<events, graph>> /\ phase' \notin {"up", "catchup"}
        /\ (revert.at = "graph" => revert'.at = "graph")
    BY <1>19 DEF CannotOpen, BootFails, disk
  <2> QED
    BY <2>1 DEF FoldInv
<1>20. CASE OpenResets
  <2>1. graph'.st # "ok"
    BY <1>20, Files DEF OpenResets
  <2> QED
    BY <2>1 DEF FoldInv
<1>21. CASE ResetEnd
  <2>1. graph' = NewGraph(build) /\ events' = events /\ phase' = "reconcile" /\ Len(events) \in Nat
    BY <1>21 DEF ResetEnd, BaseInv, GraphTypeOK
  <2>2. Half(graph', events', 0)
    BY <2>1, FreshIsFold
  <2> QED
    BY <2>1, <2>2 DEF FoldInv
<1>22. CASE Reconcile
  <2>1. PICK n \in Nat : Grows(n)
    BY <1>22, ReconcileGrows DEF BaseInv
  <2>2. graph' = graph /\ graph.head \in Nat
    BY <1>22 DEF Reconcile, BaseInv, GraphTypeOK, Graph, Seqs
  <2>3. \A m \in 0 .. 2 : Half(graph, events, m) => Half(graph, events', m)
    BY <2>1, <2>2, GrownKeeps, HalfExtends
  <2>4. phase' = "catchup" /\ graphLock'.done = 0 /\ UNCHANGED revert
    BY <1>22 DEF Reconcile
  <2> QED
    BY <2>2, <2>3, <2>4 DEF FoldInv
<1>23. CASE OfflineAppend
  <2>1. PICK n \in Nat : Grows(n)
    BY <1>23, OfflineGrows DEF BaseInv
  <2>2. graph' = graph /\ graph.head \in Nat
    BY <1>23 DEF OfflineAppend, BaseInv, GraphTypeOK, Graph, Seqs
  <2>3. \A m \in 0 .. 2 : Half(graph, events, m) => Half(graph, events', m)
    BY <2>1, <2>2, GrownKeeps, HalfExtends
  <2>4. UNCHANGED <<phase, graphLock, revert>> /\ phase = "down"
    BY <1>23 DEF OfflineAppend, Operates, server
  <2> QED
    BY <2>2, <2>3, <2>4 DEF FoldInv
<1>24. CASE DeleteGraph
  <2>1. graph'.st # "ok"
    BY <1>24, Files DEF DeleteGraph
  <2> QED
    BY <2>1 DEF FoldInv
<1>25. CASE Upgrade
  <2>1. UNCHANGED <<events, graph, phase, revert, graphLock>>
    BY <1>25 DEF Upgrade, server, disk
  <2> QED
    BY <2>1 DEF FoldInv
<1>26. CASE RevertTruncate
  <2>1. revert'.at = "graph"
    BY <1>26 DEF RevertTruncate
  <2> QED
    BY <2>1 DEF FoldInv
<1>27. CASE RevertGraph
  <2>1. graph'.st # "ok"
    BY <1>27, Files DEF RevertGraph
  <2> QED
    BY <2>1 DEF FoldInv
<1>28. CASE RevertSnaps
  <2>1. revert.at = "snaps" /\ UNCHANGED <<events, graph, phase>>
    BY <1>28 DEF RevertSnaps, server
  <2>2. phase = "down"
    BY <2>1 DEF BaseInv, RevertInv, NoRevert
  <2> QED
    BY <2>1, <2>2 DEF FoldInv
<1>29. CASE RevertStops
  <2>1. spent'.cuts = spent.cuts + 1 /\ spent.cuts \in Nat
    BY <1>29, Counts DEF RevertStops, BaseInv, GraphTypeOK
  <2> QED
    BY <2>1 DEF OnlyKills
<1>30. CASE Shutdown
  <2>1. UNCHANGED <<events, graph>> /\ phase' \notin {"up", "catchup"}
        /\ (revert.at = "graph" => revert'.at = "graph")
    BY <1>30 DEF Shutdown, disk
  <2> QED
    BY <2>1 DEF FoldInv
<1>31. CASE Kill
  <2>1. UNCHANGED <<events, graph>> /\ phase' \notin {"up", "catchup"}
        /\ (revert.at = "graph" => revert'.at = "graph")
    BY <1>31 DEF Kill, disk, MayFail
  <2> QED
    BY <2>1 DEF FoldInv
<1> QED
  BY <1>1, <1>2, <1>3, <1>4, <1>5, <1>6, <1>7, <1>8, <1>9, <1>10, <1>11, <1>12, <1>13, <1>14,
     <1>15, <1>16, <1>17, <1>18, <1>19, <1>20, <1>21, <1>22, <1>23, <1>24, <1>25, <1>26, <1>27,
     <1>28, <1>29, <1>30, <1>31 DEF GraphNext, Apply, Booting, Snapshotter, Offline

(* So do the snapshots: they are written at a clean boundary, and a revert *)
(* leaves none past the log.                                               *)
LEMMA SnapsAreKept ==
  ASSUME BaseInv, FoldInv, SnapInv, OnlyKills', GraphNext
  PROVE  SnapInv'
<1>1. CASE ApplyStatement
  <2>1. UNCHANGED <<events, snaps, revert>>
    BY <1>1 DEF ApplyStatement, Effect
  <2> QED
    BY <2>1 DEF SnapInv
<1>2. CASE AdvanceHead
  <2>1. UNCHANGED <<events, snaps, revert>>
    BY <1>2 DEF AdvanceHead
  <2> QED
    BY <2>1 DEF SnapInv
<1>3. CASE ApplyConflicts
  <2>1. UNCHANGED <<events, snaps, revert>>
    BY <1>3 DEF ApplyConflicts, GivesUp
  <2> QED
    BY <2>1 DEF SnapInv
<1>4. CASE ApplyFails
  <2>1. spent'.failures = spent.failures + 1 /\ spent.failures \in Nat
    BY <1>4, Counts DEF ApplyFails, BaseInv, GraphTypeOK
  <2> QED
    BY <2>1 DEF OnlyKills
<1>5. CASE MaterializeDone
  <2>1. UNCHANGED <<events, snaps, revert>>
    BY <1>5 DEF MaterializeDone
  <2> QED
    BY <2>1 DEF SnapInv
<1>6. ASSUME NEW w \in Writers, Commit(w) PROVE SnapInv'
  <2>1. PICK n \in Nat : Grows(n)
    BY <1>6, CommitGrows DEF BaseInv
  <2>2. UNCHANGED <<snaps, revert>> /\ revert = NoRevert
    BY <1>6 DEF Commit, BaseInv, RevertInv
  <2>3. \A h \in Seqs : snaps[h].head \in Nat
    BY SnapHeads
  <2>4. \A h \in Seqs : Half(snaps[h], events, 0) => Half(snaps[h], events', 0)
    <3>1. SUFFICES ASSUME NEW h \in Seqs, Half(snaps[h], events, 0) PROVE Half(snaps[h], events', 0)
      OBVIOUS
    <3>2. PICK g : g = snaps[h]
      OBVIOUS
    <3>3. g.head \in Nat /\ Half(g, events, 0) /\ 0 \in 0 .. 2
      BY <2>3, <3>1, <3>2
    <3>4. Half(g, events', 0)
      BY <2>1, <3>3, GrownKeeps, HalfExtends
    <3> QED
      BY <3>2, <3>4
  <2>5. \A h \in Seqs : h <= Len(events) => h <= Len(events')
    BY <2>1, GrownKeeps, Constants DEF Seqs
  <2> QED
    BY <2>2, <2>4, <2>5 DEF SnapInv
<1>7. ASSUME NEW w \in Writers, Materialize(w) PROVE SnapInv'
  <2>1. UNCHANGED <<events, snaps, revert>>
    BY <1>7 DEF Materialize
  <2> QED
    BY <2>1 DEF SnapInv
<1>8. CASE SnapshotDue
  <2>1. UNCHANGED <<events, snaps, revert>>
    BY <1>8 DEF SnapshotDue, disk
  <2> QED
    BY <2>1 DEF SnapInv
<1>9. CASE SnapshotExists
  <2>1. UNCHANGED <<events, snaps, revert>>
    BY <1>9 DEF SnapshotExists, disk
  <2> QED
    BY <2>1 DEF SnapInv
<1>10. CASE SnapshotPrune
  <2>1. events' = events /\ UNCHANGED revert
    BY <1>10 DEF SnapshotPrune
  <2>2. \A h \in Seqs : snaps'[h] \in {snaps[h], Absent}
    BY <1>10 DEF SnapshotPrune, Pruned
  <2>3. Absent.st # "ok"
    BY Files
  <2> QED
    BY <2>1, <2>2, <2>3 DEF SnapInv
<1>11. ASSUME NEW p \in {Driver, Operator}, SnapshotBegin(p) PROVE SnapInv'
  <2>1. events' = events /\ UNCHANGED revert
    BY <1>11 DEF SnapshotBegin
  <2>2. \A h \in Seqs : snaps'[h] \in {snaps[h], File("torn")}
    BY <1>11 DEF SnapshotBegin, BaseInv, GraphTypeOK
  <2>3. File("torn").st # "ok"
    BY Files
  <2> QED
    BY <2>1, <2>2, <2>3 DEF SnapInv
<1>12. ASSUME NEW p \in {Driver, Operator}, SnapshotEnd(p) PROVE SnapInv'
  <2>1. UNCHANGED <<events, revert>> /\ graphLock.by \in {Driver, Operator} /\ graph.head \in Seqs
    BY <1>12 DEF SnapshotEnd, BaseInv, GraphTypeOK, Graph
  <2>2. phase = "up" /\ graphLock.done = 0 /\ graph.st = "ok"
    BY <2>1, Constants DEF BaseInv, ServerInv
  <2>3. revert = NoRevert
    BY <2>2 DEF BaseInv, RevertInv
  <2>4. Half(graph, events, 0)
    BY <2>2, <2>3 DEF FoldInv, NoRevert
  <2>5. graph.head <= Len(events)
    BY <2>4 DEF Half
  <2>6. \A h \in Seqs : snaps'[h] = snaps[h] \/ (h = graph.head /\ snaps'[h] = graph)
    <3>1. snaps' = [snaps EXCEPT ![graph.head] = graph] /\ DOMAIN snaps = Seqs
      BY <1>12 DEF SnapshotEnd, BaseInv, GraphTypeOK
    <3>2. PICK k, g, s : k = graph.head /\ g = graph /\ s = snaps
      OBVIOUS
    <3>3. snaps' = [s EXCEPT ![k] = g] /\ DOMAIN s = Seqs
      BY <3>1, <3>2
    <3>4. \A h \in Seqs : snaps'[h] = s[h] \/ (h = k /\ snaps'[h] = g)
      BY <3>3
    <3> QED
      BY <3>2, <3>4
  <2> QED
    BY <2>1, <2>4, <2>5, <2>6 DEF SnapInv
<1>13. CASE BootLock
  <2>1. UNCHANGED <<events, snaps, revert>>
    BY <1>13 DEF BootLock, disk
  <2> QED
    BY <2>1 DEF SnapInv
<1>14. CASE RestoreFails
  <2>1. UNCHANGED <<events, snaps, revert>>
    BY <1>14 DEF RestoreFails, BootFails, disk
  <2> QED
    BY <2>1 DEF SnapInv
<1>15. CASE RestoreSkips
  <2>1. UNCHANGED <<events, snaps, revert>>
    BY <1>15 DEF RestoreSkips, disk
  <2> QED
    BY <2>1 DEF SnapInv
<1>16. CASE RestoreBegin
  <2>1. UNCHANGED <<events, snaps, revert>>
    BY <1>16 DEF RestoreBegin
  <2> QED
    BY <2>1 DEF SnapInv
<1>17. CASE RestoreEnd
  <2>1. UNCHANGED <<events, snaps, revert>>
    BY <1>17 DEF RestoreEnd
  <2> QED
    BY <2>1 DEF SnapInv
<1>18. CASE OpenGraph
  <2>1. UNCHANGED <<events, snaps, revert>>
    BY <1>18 DEF OpenGraph, disk
  <2> QED
    BY <2>1 DEF SnapInv
<1>19. CASE CannotOpen
  <2>1. UNCHANGED <<events, snaps, revert>>
    BY <1>19 DEF CannotOpen, BootFails, disk
  <2> QED
    BY <2>1 DEF SnapInv
<1>20. CASE OpenResets
  <2>1. UNCHANGED <<events, snaps, revert>>
    BY <1>20 DEF OpenResets
  <2> QED
    BY <2>1 DEF SnapInv
<1>21. CASE ResetEnd
  <2>1. UNCHANGED <<events, snaps, revert>>
    BY <1>21 DEF ResetEnd
  <2> QED
    BY <2>1 DEF SnapInv
<1>22. CASE Reconcile
  <2>1. PICK n \in Nat : Grows(n)
    BY <1>22, ReconcileGrows DEF BaseInv
  <2>2. UNCHANGED <<snaps, revert>> /\ revert = NoRevert
    BY <1>22 DEF Reconcile, BaseInv, RevertInv
  <2>3. \A h \in Seqs : snaps[h].head \in Nat
    BY SnapHeads
  <2>4. \A h \in Seqs : Half(snaps[h], events, 0) => Half(snaps[h], events', 0)
    <3>1. SUFFICES ASSUME NEW h \in Seqs, Half(snaps[h], events, 0) PROVE Half(snaps[h], events', 0)
      OBVIOUS
    <3>2. PICK g : g = snaps[h]
      OBVIOUS
    <3>3. g.head \in Nat /\ Half(g, events, 0) /\ 0 \in 0 .. 2
      BY <2>3, <3>1, <3>2
    <3>4. Half(g, events', 0)
      BY <2>1, <3>3, GrownKeeps, HalfExtends
    <3> QED
      BY <3>2, <3>4
  <2>5. \A h \in Seqs : h <= Len(events) => h <= Len(events')
    BY <2>1, GrownKeeps, Constants DEF Seqs
  <2> QED
    BY <2>2, <2>4, <2>5 DEF SnapInv
<1>23. CASE OfflineAppend
  <2>1. PICK n \in Nat : Grows(n)
    BY <1>23, OfflineGrows DEF BaseInv
  <2>2. UNCHANGED <<snaps, revert>> /\ revert = NoRevert
    BY <1>23 DEF OfflineAppend, Operates
  <2>3. \A h \in Seqs : snaps[h].head \in Nat
    BY SnapHeads
  <2>4. \A h \in Seqs : Half(snaps[h], events, 0) => Half(snaps[h], events', 0)
    <3>1. SUFFICES ASSUME NEW h \in Seqs, Half(snaps[h], events, 0) PROVE Half(snaps[h], events', 0)
      OBVIOUS
    <3>2. PICK g : g = snaps[h]
      OBVIOUS
    <3>3. g.head \in Nat /\ Half(g, events, 0) /\ 0 \in 0 .. 2
      BY <2>3, <3>1, <3>2
    <3>4. Half(g, events', 0)
      BY <2>1, <3>3, GrownKeeps, HalfExtends
    <3> QED
      BY <3>2, <3>4
  <2>5. \A h \in Seqs : h <= Len(events) => h <= Len(events')
    BY <2>1, GrownKeeps, Constants DEF Seqs
  <2> QED
    BY <2>2, <2>4, <2>5 DEF SnapInv
<1>24. CASE DeleteGraph
  <2>1. UNCHANGED <<events, snaps, revert>>
    BY <1>24 DEF DeleteGraph, Operates, server
  <2> QED
    BY <2>1 DEF SnapInv
<1>25. CASE Upgrade
  <2>1. UNCHANGED <<events, snaps, revert>>
    BY <1>25 DEF Upgrade, Operates, server, disk
  <2> QED
    BY <2>1 DEF SnapInv
<1>26. CASE RevertTruncate
  <2>1. PICK to \in 0 .. Len(events) - 1 : /\ events' = SubSeq(events, 1, to)
                                       /\ revert' = [at |-> "graph", to |-> to]
    BY <1>26 DEF RevertTruncate
  <2>2. events \in Seq(Event) /\ Len(events) \in Nat /\ MaxEvents \in Nat
    BY Constants DEF BaseInv, GraphTypeOK
  <2>3. Len(events') = to /\ \A i \in 1 .. to : events[i] = events'[i]
    BY <2>1, <2>2
  <2>4. revert' # NoRevert /\ snaps' = snaps
    BY <1>26, <2>1 DEF RevertTruncate, NoRevert
  <2>5. ASSUME NEW h \in Seqs, snaps[h].st = "ok", h <= to
        PROVE  Half(snaps[h], events', 0)
    <3>1. snaps[h].head = h /\ h \in Nat /\ h <= Len(events)
      BY <2>1, <2>2, <2>5 DEF BaseInv, NamesInv, Seqs
    <3>2. Half(snaps[h], events, 0)
      BY <2>5, <3>1 DEF SnapInv
    <3>3. \A i \in 1 .. h : events[i] = events'[i]
      BY <2>1, <2>3, <2>5, <3>1
    <3> QED
      BY <2>1, <2>3, <2>5, <3>1, <3>2, <3>3, HalfCut
  <2> QED
    BY <2>3, <2>4, <2>5 DEF SnapInv
<1>27. CASE RevertGraph
  <2>1. UNCHANGED <<events, snaps>> /\ revert # NoRevert /\ revert' # NoRevert
    BY <1>27 DEF RevertGraph, NoRevert, BaseInv, GraphTypeOK, Revert
  <2> QED
    BY <2>1 DEF SnapInv
<1>28. CASE RevertSnaps
  <2>1. events' = events /\ snaps' = DiscardAfter(revert.to)
    BY <1>28 DEF RevertSnaps
  <2>2. revert.to = Len(events)
    BY <1>28 DEF RevertSnaps, BaseInv, RevertInv, NoRevert
  <2>3. Absent.st # "ok" /\ Len(events) \in Nat /\ MaxEvents \in Nat
    BY Files, Constants DEF BaseInv, GraphTypeOK
  <2>4. \A h \in Seqs : \/ snaps'[h] = Absent
                        \/ snaps'[h] = snaps[h] /\ h <= Len(events)
    BY <2>1, <2>2, <2>3 DEF DiscardAfter, Seqs
  <2> QED
    BY <2>1, <2>3, <2>4 DEF SnapInv
<1>29. CASE RevertStops
  <2>1. spent'.cuts = spent.cuts + 1 /\ spent.cuts \in Nat
    BY <1>29, Counts DEF RevertStops, BaseInv, GraphTypeOK
  <2> QED
    BY <2>1 DEF OnlyKills
<1>30. CASE Shutdown
  <2>1. UNCHANGED <<events, snaps, revert>>
    BY <1>30 DEF Shutdown, disk
  <2> QED
    BY <2>1 DEF SnapInv
<1>31. CASE Kill
  <2>1. UNCHANGED <<events, snaps, revert>>
    BY <1>31 DEF Kill, disk, MayFail
  <2> QED
    BY <2>1 DEF SnapInv
<1> QED
  BY <1>1, <1>2, <1>3, <1>4, <1>5, <1>6, <1>7, <1>8, <1>9, <1>10, <1>11, <1>12, <1>13, <1>14,
     <1>15, <1>16, <1>17, <1>18, <1>19, <1>20, <1>21, <1>22, <1>23, <1>24, <1>25, <1>26, <1>27,
     <1>28, <1>29, <1>30, <1>31 DEF GraphNext, Apply, Booting, Snapshotter, Offline

-----------------------------------------------------------------------------
(* What readers find of the log, whatever fails.                           *)

(* Nothing of the next event has to show before its first statement. *)
LEMMA PartZero ==
  ASSUME NEW g, NEW e
  PROVE  Part(g, e, 0)
<1>1. 1 .. 0 = {} /\ ~(0 >= 1)
  OBVIOUS
<1> QED
  BY <1>1 DEF Part

(* What shows of a log shows of one that has the same events up to the     *)
(* head: appends and cuts past it make no difference.                      *)
LEMMA HoldsAgrees ==
  ASSUME NEW g, NEW l, NEW k, HoldsTo(g, l), g.head <= Len(k),
         \A i \in 1 .. g.head : l[i] = k[i]
  PROVE  HoldsTo(g, k)
  BY DEF HoldsTo

(* A statement shows its event, and hides none: a later write shows for    *)
(* the ones before it.                                                     *)
LEMMA StatementShows ==
  ASSUME NEW g \in Graph, NEW l, NEW d \in 0 .. 2, g.head \in Nat,
         HoldsTo(g, l), l[g.head + 1] \in Event,
         \A i \in 1 .. g.head : l[i].id \in Nat /\ l[i].id < l[g.head + 1].id,
         Part(g, l[g.head + 1], d), d < Statements(l[g.head + 1])
  PROVE  /\ HoldsTo(Effect(g, l[g.head + 1], d + 1), l)
         /\ Part(Effect(g, l[g.head + 1], d + 1), l[g.head + 1], d + 1)
         /\ Effect(g, l[g.head + 1], d + 1).head = g.head
<1>1. PICK e \in Event : e = l[g.head + 1]
  OBVIOUS
<1>2. PICK f : f = Effect(g, e, d + 1)
  OBVIOUS
<1>3. f.head = g.head
  BY <1>2 DEF Effect, Graph
<1>4. e.kind # "quiet"
  BY <1>1, StatementsOf
<1>5. e.id \in Ids /\ e.id \in Nat
  BY Constants DEF Event, Ids
<1>6. \A i \in 1 .. g.head : Shows(g, l[i]) /\ l[i].id \in Nat /\ l[i].id < e.id
  BY <1>1 DEF HoldsTo
<1>7. CASE e.kind = "insert"
  <2>1. f.rows = g.rows \cup {<<e.id, d + 1>>} /\ f.cell = g.cell
    BY <1>2, <1>7 DEF Effect, Graph
  <2>2. \A i \in 1 .. g.head : Shows(f, l[i])
    BY <1>6, <2>1 DEF Shows
  <2>3. \A k \in 1 .. d + 1 : k \in 1 .. d \/ k = d + 1
    OBVIOUS
  <2>4. Part(f, e, d + 1)
    BY <1>1, <1>7, <2>1, <2>3 DEF Part
  <2> QED
    BY <1>1, <1>2, <1>3, <2>2, <2>4 DEF HoldsTo
<1>8. CASE e.kind = "write"
  <2>1. f.rows = g.rows /\ f.cell = e.id
    BY <1>2, <1>8 DEF Effect, Graph
  <2>2. \A i \in 1 .. g.head : f.cell \in Ids /\ f.cell >= l[i].id
    BY <1>5, <1>6, <2>1
  <2>3. \A i \in 1 .. g.head : Shows(f, l[i])
    BY <1>6, <2>1, <2>2 DEF Shows
  <2>4. Part(f, e, d + 1)
    BY <1>5, <1>8, <2>1 DEF Part
  <2> QED
    BY <1>1, <1>2, <1>3, <2>3, <2>4 DEF HoldsTo
<1> QED
  BY <1>4, <1>7, <1>8 DEF Event

(* An event whose statements are all done shows when the head passes it. *)
LEMMA HeadShows ==
  ASSUME NEW g \in Graph, NEW l, g.head \in Nat, HoldsTo(g, l), g.head < Len(l),
         Len(l) \in Nat, l[g.head + 1] \in Event,
         Part(g, l[g.head + 1], Statements(l[g.head + 1]))
  PROVE  HoldsTo([g EXCEPT !.head = @ + 1], l)
<1>1. PICK e \in Event : e = l[g.head + 1]
  OBVIOUS
<1>2. PICK f : f = [g EXCEPT !.head = @ + 1]
  OBVIOUS
<1>3. f.head = g.head + 1 /\ f.rows = g.rows /\ f.cell = g.cell
  BY <1>2 DEF Graph
<1>4. \A x : Shows(f, x) <=> Shows(g, x)
  BY <1>3 DEF Shows
<1>5. Shows(g, e)
  <2>1. Part(g, e, Statements(e))
    BY <1>1
  <2>2. CASE e.kind = "insert"
    <3>1. Statements(e) = 2 /\ 1 .. 2 = {1, 2}
      BY <2>2, StatementsOf
    <3> QED
      BY <2>1, <2>2, <3>1 DEF Part, Shows
  <2>3. CASE e.kind = "write"
    <3>1. Statements(e) = 1 /\ 1 >= 1
      BY <2>3, StatementsOf
    <3> QED
      BY <2>1, <2>3, <3>1 DEF Part, Shows
  <2>4. CASE e.kind = "quiet"
    BY <2>4 DEF Shows
  <2> QED
    BY <2>2, <2>3, <2>4 DEF Event
<1>6. \A i \in 1 .. g.head + 1 : i \in 1 .. g.head \/ i = g.head + 1
  OBVIOUS
<1>7. \A i \in 1 .. f.head : Shows(f, l[i])
  BY <1>1, <1>3, <1>4, <1>5, <1>6 DEF HoldsTo
<1> QED
  BY <1>2, <1>3, <1>7 DEF HoldsTo

(* A graph rebuilt from nothing has no event to show. *)
LEMMA FreshHolds ==
  ASSUME NEW g, NEW l, g.head = 0, Len(l) \in Nat
  PROVE  HoldsTo(g, l)
<1>1. 1 .. 0 = {}
  OBVIOUS
<1> QED
  BY <1>1 DEF HoldsTo

(* The graph keeps what readers find in it, up to the statement under way. *)
LEMMA HoldIsKept ==
  ASSUME BaseInv, HoldInv, HoldSnapInv, spent'.cuts = 0, GraphNext
  PROVE  HoldInv'
<1>1. ASSUME UNCHANGED <<events, graph>>, revert.at = "graph" => revert'.at = "graph",
             graphLock'.done = 0 \/ graphLock' = graphLock
      PROVE  HoldInv'
  <2>1. CASE graphLock'.done = 0
    <3>1. Part(graph', NextEvent', graphLock'.done)
      BY <2>1, PartZero
    <3> QED
      BY <1>1, <3>1 DEF HoldInv
  <2>2. CASE graphLock' = graphLock
    BY <1>1, <2>2 DEF HoldInv, Materializing, Behind, NextEvent
  <2> QED
    BY <1>1, <2>1, <2>2
<1>2. ASSUME NEW n \in Nat, Grows(n), UNCHANGED <<graph, revert>>,
             graphLock'.done = 0 \/ ~Materializing'
      PROVE  HoldInv'
  <2>1. graph.head \in Nat
    BY DEF BaseInv, GraphTypeOK, Graph, Seqs
  <2>2. ASSUME HoldsTo(graph, events) PROVE HoldsTo(graph, events')
    <3>1. graph.head <= Len(events)
      BY <2>2 DEF HoldsTo
    <3>2. /\ Len(events) \in Nat /\ Len(events') \in Nat /\ Len(events) <= Len(events')
          /\ \A i \in 1 .. Len(events) : events[i] = events'[i]
      BY <1>2, GrownKeeps
    <3>3. graph.head <= Len(events') /\ \A i \in 1 .. graph.head : events[i] = events'[i]
      BY <2>1, <3>1, <3>2
    <3> QED
      BY <2>2, <3>3, HoldsAgrees
  <2>3. Materializing' => Part(graph', NextEvent', graphLock'.done)
    BY <1>2, PartZero
  <2> QED
    BY <1>2, <2>2, <2>3 DEF HoldInv
<1>3. ASSUME graph'.st # "ok" PROVE HoldInv'
  BY <1>3 DEF HoldInv
<1>4. ASSUME phase \notin {"up", "catchup"} PROVE ~Materializing
  BY <1>4, Holder
<1>5. graphLock.by \notin Writers \cup {Boot} => graphLock.done = 0
  BY DEF BaseInv, ServerInv
<1>6. CASE ApplyStatement
  <2>1. /\ Materializing /\ Behind /\ graphLock.done < Statements(events[graph.head + 1])
        /\ graph' = Effect(graph, events[graph.head + 1], graphLock.done + 1)
        /\ events' = events
    BY <1>6 DEF ApplyStatement, NextEvent
  <2>2. /\ graph \in Graph /\ graphLock.done \in 0 .. 2
        /\ events[graph.head + 1] \in Event
        /\ graph.head \in Nat /\ graph.head + 1 \in 1 .. Len(events)
    BY <2>1, NextIsEvent DEF BaseInv, GraphTypeOK, Lock, NextEvent
  <2>3. HoldsTo(graph, events) /\ Part(graph, events[graph.head + 1], graphLock.done)
    BY <2>1, Holder DEF HoldInv, NextEvent
  <2>4. \A i \in 1 .. graph.head : events[i].id \in Nat /\ events[i].id < events[graph.head + 1].id
    <3>1. SUFFICES ASSUME NEW i \in 1 .. graph.head
                   PROVE  events[i].id \in Nat /\ events[i].id < events[graph.head + 1].id
      OBVIOUS
    <3>2. i \in 1 .. Len(events) /\ i < graph.head + 1
      BY <2>2, OneId
    <3> QED
      BY <2>2, <3>2, OneId
  <2>5. /\ HoldsTo(graph', events)
        /\ Part(graph', events[graph.head + 1], graphLock.done + 1)
        /\ graph'.head = graph.head
    BY <2>1, <2>2, <2>3, <2>4, StatementShows
  <2>6. graphLock'.done = graphLock.done + 1
    BY <1>6 DEF ApplyStatement, BaseInv, GraphTypeOK, Lock
  <2>7. NextEvent' = events[graph.head + 1]
    BY <2>1, <2>5 DEF NextEvent
  <2> QED
    BY <2>1, <2>5, <2>6, <2>7 DEF HoldInv
<1>7. CASE AdvanceHead
  <2>1. /\ Materializing /\ Behind /\ graphLock.done = Statements(events[graph.head + 1])
        /\ graph' = [graph EXCEPT !.head = @ + 1] /\ events' = events
    BY <1>7 DEF AdvanceHead, NextEvent
  <2>2. /\ graph \in Graph /\ graph.head < Len(events) /\ graph.head \in Nat
        /\ events[graph.head + 1] \in Event /\ Len(events) \in Nat
    BY <2>1, NextIsEvent DEF BaseInv, GraphTypeOK, Behind, NextEvent
  <2>3. HoldsTo(graph, events) /\ Part(graph, events[graph.head + 1], graphLock.done)
    BY <2>1, Holder DEF HoldInv, NextEvent
  <2>4. HoldsTo(graph', events)
    BY <2>1, <2>2, <2>3, HeadShows
  <2>5. graphLock'.done = 0
    BY <1>7 DEF AdvanceHead, BaseInv, GraphTypeOK, Lock
  <2>6. Part(graph', NextEvent', graphLock'.done)
    BY <2>5, PartZero
  <2> QED
    BY <2>1, <2>4, <2>6 DEF HoldInv
<1>8. CASE ApplyConflicts \/ ApplyFails \/ MaterializeDone
  <2>1. UNCHANGED <<events, graph, revert>> /\ graphLock'.done = 0
    BY <1>8 DEF ApplyConflicts, ApplyFails, MaterializeDone, GivesUp, Free
  <2> QED
    BY <1>1, <2>1
<1>9. ASSUME NEW w \in Writers, Commit(w) PROVE HoldInv'
  <2>1. PICK n \in Nat : Grows(n)
    BY <1>9, CommitGrows DEF BaseInv
  <2>2. UNCHANGED <<graph, revert, graphLock>> /\ ~Materializing
    BY <1>9 DEF Commit
  <2> QED
    BY <1>2, <2>1, <2>2 DEF Materializing
<1>10. ASSUME NEW w \in Writers, Materialize(w) PROVE HoldInv'
  <2>1. UNCHANGED <<events, graph, revert>> /\ graphLock'.done = 0
    BY <1>10 DEF Materialize
  <2> QED
    BY <1>1, <2>1
<1>11. CASE SnapshotDue \/ SnapshotExists \/ SnapshotPrune
  <2>1. UNCHANGED <<events, graph, revert, graphLock>>
    BY <1>11 DEF SnapshotDue, SnapshotExists, SnapshotPrune, disk
  <2> QED
    BY <1>1, <2>1
<1>12. ASSUME NEW p \in {Driver, Operator}, SnapshotBegin(p) \/ SnapshotEnd(p)
       PROVE  HoldInv'
  <2>1. UNCHANGED <<events, graph, revert>> /\ graphLock'.done = 0
    BY <1>12 DEF SnapshotBegin, SnapshotEnd, Free
  <2> QED
    BY <1>1, <2>1
<1>13. CASE BootLock \/ RestoreFails \/ RestoreSkips \/ OpenGraph \/ CannotOpen
  <2>1. UNCHANGED <<events, graph, revert, graphLock>>
    BY <1>13 DEF BootLock, RestoreFails, RestoreSkips, OpenGraph, CannotOpen, BootFails, disk
  <2> QED
    BY <1>1, <2>1
<1>14. CASE RestoreBegin \/ OpenResets \/ DeleteGraph \/ RevertGraph
  <2>1. graph'.st # "ok"
    BY <1>14, Files DEF RestoreBegin, OpenResets, DeleteGraph, RevertGraph
  <2> QED
    BY <1>3, <2>1
<1>15. CASE RestoreEnd
  <2>1. /\ graph' = snaps[LatestHead] /\ LatestHead \in Seqs
        /\ UNCHANGED <<events, revert, graphLock>> /\ phase = "copy"
    BY <1>15, NewestIsOne DEF RestoreEnd, BaseInv
  <2>2. revert = NoRevert /\ ~Materializing'
    BY <1>4, <2>1 DEF BaseInv, RevertInv, Materializing
  <2>3. graph'.st = "ok" => HoldsTo(graph', events')
    BY <2>1, <2>2 DEF HoldSnapInv
  <2> QED
    BY <2>2, <2>3 DEF HoldInv
<1>16. CASE ResetEnd
  <2>1. /\ graph' = NewGraph(build) /\ UNCHANGED <<events, graphLock>> /\ phase = "reset"
        /\ Len(events) \in Nat /\ build \in Nat
    BY <1>16 DEF ResetEnd, BaseInv, GraphTypeOK
  <2>2. ~Materializing'
    BY <1>4, <2>1 DEF Materializing
  <2>3. HoldsTo(graph', events')
    BY <2>1, Files, FreshHolds
  <2> QED
    BY <2>2, <2>3 DEF HoldInv
<1>17. CASE Reconcile
  <2>1. PICK n \in Nat : Grows(n)
    BY <1>17, ReconcileGrows DEF BaseInv
  <2>2. UNCHANGED <<graph, revert>> /\ graphLock'.done = 0
    BY <1>17 DEF Reconcile
  <2> QED
    BY <1>2, <2>1, <2>2
<1>18. CASE OfflineAppend
  <2>1. PICK n \in Nat : Grows(n)
    BY <1>18, OfflineGrows DEF BaseInv
  <2>2. UNCHANGED <<graph, revert, graphLock>> /\ phase = "down"
    BY <1>18 DEF OfflineAppend, Operates, server
  <2>3. ~Materializing'
    BY <1>4, <2>2 DEF Materializing
  <2> QED
    BY <1>2, <2>1, <2>2, <2>3
<1>19. CASE Upgrade
  <2>1. UNCHANGED <<events, graph, revert, graphLock>>
    BY <1>19 DEF Upgrade, server, disk
  <2> QED
    BY <1>1, <2>1
<1>20. CASE RevertTruncate
  <2>1. revert'.at = "graph"
    BY <1>20 DEF RevertTruncate
  <2> QED
    BY <2>1 DEF HoldInv
<1>21. CASE RevertSnaps
  <2>1. revert.at = "snaps" /\ UNCHANGED <<events, graph, graphLock>>
    BY <1>21 DEF RevertSnaps, server
  <2> QED
    BY <1>1, <2>1
<1>22. CASE RevertStops
  <2>1. spent'.cuts = spent.cuts + 1 /\ spent.cuts \in Nat
    BY <1>22, Counts DEF RevertStops, BaseInv, GraphTypeOK
  <2> QED
    BY <2>1
<1>23. CASE Shutdown \/ Kill
  <2>1. UNCHANGED <<events, graph, revert>> /\ (graphLock'.done = 0 \/ graphLock' = graphLock)
    BY <1>23 DEF Shutdown, Kill, disk, Free
  <2> QED
    BY <1>1, <2>1
<1> QED
  BY <1>6, <1>7, <1>8, <1>9, <1>10, <1>11, <1>12, <1>13, <1>14, <1>15, <1>16, <1>17,
     <1>18, <1>19, <1>20, <1>21, <1>22, <1>23 DEF GraphNext, Apply, Booting, Snapshotter, Offline

(* So do the snapshots that boot may restore. *)
LEMMA HoldSnapsAreKept ==
  ASSUME BaseInv, HoldInv, HoldSnapInv, spent'.cuts = 0, GraphNext
  PROVE  HoldSnapInv'
<1>1. ASSUME UNCHANGED <<events, snaps, revert>> PROVE HoldSnapInv'
  BY <1>1 DEF HoldSnapInv
<1>2. ASSUME NEW n \in Nat, Grows(n), UNCHANGED <<snaps, revert>>, revert = NoRevert
      PROVE  HoldSnapInv'
  <2>1. \A h \in Seqs : snaps[h].head \in Nat
    BY SnapHeads
  <2>2. /\ Len(events) \in Nat /\ Len(events') \in Nat /\ Len(events) <= Len(events')
        /\ \A i \in 1 .. Len(events) : events[i] = events'[i]
    BY <1>2, GrownKeeps
  <2>3. ASSUME NEW h \in Seqs, HoldsTo(snaps[h], events) PROVE HoldsTo(snaps[h], events')
    <3>1. PICK g : g = snaps[h]
      OBVIOUS
    <3>2. g.head \in Nat /\ g.head <= Len(events) /\ HoldsTo(g, events)
      BY <2>1, <2>3, <3>1 DEF HoldsTo
    <3>3. g.head <= Len(events') /\ \A i \in 1 .. g.head : events[i] = events'[i]
      BY <2>2, <3>2
    <3> QED
      BY <3>1, <3>2, <3>3, HoldsAgrees
  <2>4. \A h \in Seqs : h <= Len(events) => h <= Len(events')
    BY <2>2, Constants DEF Seqs
  <2> QED
    BY <1>2, <2>3, <2>4 DEF HoldSnapInv
<1>3. ASSUME UNCHANGED <<events, revert>>, \A h \in Seqs : snaps'[h] = snaps[h] \/ snaps'[h].st # "ok"
      PROVE  HoldSnapInv'
  BY <1>3 DEF HoldSnapInv
<1>4. CASE ApplyStatement \/ AdvanceHead \/ ApplyConflicts \/ ApplyFails \/ MaterializeDone
  <2>1. UNCHANGED <<events, snaps, revert>>
    BY <1>4 DEF ApplyStatement, AdvanceHead, ApplyConflicts, ApplyFails, MaterializeDone,
                GivesUp
  <2> QED
    BY <1>1, <2>1
<1>5. ASSUME NEW w \in Writers, Commit(w) PROVE HoldSnapInv'
  <2>1. PICK n \in Nat : Grows(n)
    BY <1>5, CommitGrows DEF BaseInv
  <2>2. UNCHANGED <<snaps, revert>> /\ revert = NoRevert
    BY <1>5 DEF Commit, BaseInv, RevertInv
  <2> QED
    BY <1>2, <2>1, <2>2
<1>6. ASSUME NEW w \in Writers, Materialize(w) PROVE HoldSnapInv'
  <2>1. UNCHANGED <<events, snaps, revert>>
    BY <1>6 DEF Materialize
  <2> QED
    BY <1>1, <2>1
<1>7. CASE SnapshotDue \/ SnapshotExists
  <2>1. UNCHANGED <<events, snaps, revert>>
    BY <1>7 DEF SnapshotDue, SnapshotExists, disk
  <2> QED
    BY <1>1, <2>1
<1>8. CASE SnapshotPrune
  <2>1. UNCHANGED <<events, revert>>
    BY <1>8 DEF SnapshotPrune
  <2>2. \A h \in Seqs : snaps'[h] \in {snaps[h], Absent}
    BY <1>8 DEF SnapshotPrune, Pruned
  <2> QED
    BY <1>3, <2>1, <2>2, Files
<1>9. ASSUME NEW p \in {Driver, Operator}, SnapshotBegin(p) PROVE HoldSnapInv'
  <2>1. UNCHANGED <<events, revert>>
    BY <1>9 DEF SnapshotBegin
  <2>2. \A h \in Seqs : snaps'[h] \in {snaps[h], File("torn")}
    BY <1>9 DEF SnapshotBegin, BaseInv, GraphTypeOK
  <2> QED
    BY <1>3, <2>1, <2>2, Files
<1>10. ASSUME NEW p \in {Driver, Operator}, SnapshotEnd(p) PROVE HoldSnapInv'
  <2>1. UNCHANGED <<events, revert>> /\ graphLock.by \in {Driver, Operator} /\ graph.head \in Seqs
    BY <1>10 DEF SnapshotEnd, BaseInv, GraphTypeOK, Graph
  <2>2. phase = "up" /\ graph.st = "ok"
    BY <2>1, Constants DEF BaseInv, ServerInv
  <2>3. revert = NoRevert
    BY <2>2 DEF BaseInv, RevertInv
  <2>4. HoldsTo(graph, events) /\ graph.head <= Len(events)
    BY <2>2, <2>3 DEF HoldInv, NoRevert, HoldsTo
  <2>5. \A h \in Seqs : snaps'[h] = snaps[h] \/ (h = graph.head /\ snaps'[h] = graph)
    <3>1. snaps' = [snaps EXCEPT ![graph.head] = graph] /\ DOMAIN snaps = Seqs
      BY <1>10 DEF SnapshotEnd, BaseInv, GraphTypeOK
    <3>2. PICK k, g, s : k = graph.head /\ g = graph /\ s = snaps
      OBVIOUS
    <3>3. snaps' = [s EXCEPT ![k] = g] /\ DOMAIN s = Seqs
      BY <3>1, <3>2
    <3>4. \A h \in Seqs : snaps'[h] = s[h] \/ (h = k /\ snaps'[h] = g)
      BY <3>3
    <3> QED
      BY <3>2, <3>4
  <2> QED
    BY <2>1, <2>4, <2>5 DEF HoldSnapInv
<1>11. CASE BootLock \/ Booting
  <2>1. CASE Reconcile
    <3>1. PICK n \in Nat : Grows(n)
      BY <2>1, ReconcileGrows DEF BaseInv
    <3>2. UNCHANGED <<snaps, revert>> /\ revert = NoRevert
      BY <2>1 DEF Reconcile, BaseInv, RevertInv
    <3> QED
      BY <1>2, <3>1, <3>2
  <2>2. CASE BootLock \/ RestoreFails \/ RestoreSkips \/ RestoreBegin \/ RestoreEnd
    <3>1. UNCHANGED <<events, snaps, revert>>
      BY <2>2 DEF BootLock, RestoreFails, RestoreSkips, RestoreBegin, RestoreEnd, BootFails, disk
    <3> QED
      BY <1>1, <3>1
  <2>3. CASE OpenGraph \/ CannotOpen \/ OpenResets \/ ResetEnd
    <3>1. UNCHANGED <<events, snaps, revert>>
      BY <2>3 DEF OpenGraph, CannotOpen, OpenResets, ResetEnd, BootFails, disk
    <3> QED
      BY <1>1, <3>1
  <2> QED
    BY <1>11, <2>1, <2>2, <2>3 DEF Booting
<1>12. CASE OfflineAppend
  <2>1. PICK n \in Nat : Grows(n)
    BY <1>12, OfflineGrows DEF BaseInv
  <2>2. UNCHANGED <<snaps, revert>> /\ revert = NoRevert
    BY <1>12 DEF OfflineAppend, Operates
  <2> QED
    BY <1>2, <2>1, <2>2
<1>13. CASE DeleteGraph \/ Upgrade \/ Shutdown \/ Kill
  <2>1. UNCHANGED <<events, snaps, revert>>
    BY <1>13 DEF DeleteGraph, Upgrade, Shutdown, Kill, disk
  <2> QED
    BY <1>1, <2>1
<1>14. CASE RevertTruncate
  <2>1. PICK to \in 0 .. Len(events) - 1 : /\ events' = SubSeq(events, 1, to)
                                       /\ revert' = [at |-> "graph", to |-> to]
    BY <1>14 DEF RevertTruncate
  <2>2. events \in Seq(Event) /\ Len(events) \in Nat /\ MaxEvents \in Nat
    BY Constants DEF BaseInv, GraphTypeOK
  <2>3. Len(events') = to /\ \A i \in 1 .. to : events[i] = events'[i]
    BY <2>1, <2>2
  <2>4. revert' # NoRevert /\ snaps' = snaps
    BY <1>14, <2>1 DEF RevertTruncate, NoRevert
  <2>5. ASSUME NEW h \in Seqs, snaps[h].st = "ok", h <= to
        PROVE  HoldsTo(snaps[h], events')
    <3>1. snaps[h].head = h /\ h \in Nat /\ h <= Len(events)
      BY <2>1, <2>2, <2>5 DEF BaseInv, NamesInv, Seqs
    <3>2. HoldsTo(snaps[h], events)
      BY <2>5, <3>1 DEF HoldSnapInv
    <3>3. \A i \in 1 .. h : events[i] = events'[i]
      BY <2>1, <2>3, <2>5, <3>1
    <3>4. snaps[h].head <= Len(events') /\ \A i \in 1 .. snaps[h].head : events[i] = events'[i]
      BY <2>3, <2>5, <3>1, <3>3
    <3> QED
      BY <3>2, <3>4, HoldsAgrees
  <2> QED
    BY <2>3, <2>4, <2>5 DEF HoldSnapInv
<1>15. CASE RevertGraph
  <2>1. UNCHANGED <<events, snaps>> /\ revert # NoRevert /\ revert' # NoRevert
    BY <1>15 DEF RevertGraph, NoRevert, BaseInv, GraphTypeOK, Revert
  <2> QED
    BY <2>1 DEF HoldSnapInv
<1>16. CASE RevertSnaps
  <2>1. events' = events /\ snaps' = DiscardAfter(revert.to)
    BY <1>16 DEF RevertSnaps
  <2>2. revert.to = Len(events)
    BY <1>16 DEF RevertSnaps, BaseInv, RevertInv, NoRevert
  <2>3. Absent.st # "ok" /\ Len(events) \in Nat /\ MaxEvents \in Nat
    BY Files, Constants DEF BaseInv, GraphTypeOK
  <2>4. \A h \in Seqs : \/ snaps'[h] = Absent
                        \/ snaps'[h] = snaps[h] /\ h <= Len(events)
    BY <2>1, <2>2, <2>3 DEF DiscardAfter, Seqs
  <2> QED
    BY <2>1, <2>3, <2>4 DEF HoldSnapInv
<1>17. CASE RevertStops
  <2>1. spent'.cuts = spent.cuts + 1 /\ spent.cuts \in Nat
    BY <1>17, Counts DEF RevertStops, BaseInv, GraphTypeOK
  <2> QED
    BY <2>1
<1> QED
  BY <1>4, <1>5, <1>6, <1>7, <1>8, <1>9, <1>10, <1>11, <1>12, <1>13, <1>14, <1>15, <1>16,
     <1>17 DEF GraphNext, Apply, Snapshotter, Offline

-----------------------------------------------------------------------------
(* The theorems.                                                           *)

LEMMA GraphStarts ==
  ASSUME GraphInit
  PROVE  GraphInv
<1>1. events \in Seq(Event) /\ Len(events) = 0 /\ DOMAIN events = {}
  BY DEF GraphInit
<1>2. graph.st = "absent" /\ \A h \in Seqs : snaps[h].st = "absent"
  BY Files DEF GraphInit
<1>3. GraphTypeOK
  <2>1. 0 \in Seqs /\ 0 \in 0 .. MaxFaults /\ 0 \in 0 .. MaxOps /\ 0 + 0 + 0 <= MaxFaults
    BY Constants DEF Seqs
  <2>2. spent \in [events : Seqs, kills : 0..MaxFaults, failures : 0..MaxFaults,
                  cuts : 0..MaxFaults, ops : 0..MaxOps]
        /\ spent.kills + spent.failures + spent.cuts <= MaxFaults
    BY <2>1 DEF GraphInit
  <2>3. graph \in Graph /\ snaps \in [Seqs -> Graph]
    BY Files DEF GraphInit
  <2>4. graphLock \in Lock /\ revert \in Revert
    BY <2>1 DEF GraphInit, Free, NoRevert, Lock, Revert
  <2> QED
    BY <1>1, <2>1, <2>2, <2>3, <2>4, Constants DEF GraphInit, GraphTypeOK, Phases, Errors
<1>4. ServerInv /\ RevertInv
  BY Constants DEF GraphInit, ServerInv, RevertInv, Free
<1>5. AckInv /\ IdInv /\ NamesInv
  BY <1>1, <1>2 DEF GraphInit, AckInv, IdInv, NamesInv
<1>6. FoldInv /\ SnapInv /\ HoldInv /\ HoldSnapInv
  BY <1>2 DEF FoldInv, SnapInv, HoldInv, HoldSnapInv
<1> QED
  BY <1>3, <1>4, <1>5, <1>6 DEF GraphInv, BaseInv

LEMMA GraphStep ==
  ASSUME GraphInv, [GraphNext]_graphVars
  PROVE  GraphInv'
<1>1. CASE GraphNext
  <2>1. BaseInv /\ BaseInv'
    BY <1>1, BaseStep DEF GraphInv
  <2>2. ASSUME OnlyKills' PROVE FoldInv' /\ SnapInv'
    <3>1. OnlyKills
      BY <1>1, <2>1, <2>2, OnlyKillsBefore
    <3>2. FoldInv /\ SnapInv
      BY <3>1 DEF GraphInv
    <3> QED
      BY <1>1, <2>1, <2>2, <3>2, FoldIsKept, SnapsAreKept
  <2>3. ASSUME spent'.cuts = 0 PROVE HoldInv' /\ HoldSnapInv'
    <3>1. spent.cuts = 0
      BY <1>1, <2>1, <2>3, OnlyKillsBefore
    <3>2. HoldInv /\ HoldSnapInv
      BY <3>1 DEF GraphInv
    <3> QED
      BY <1>1, <2>1, <2>3, <3>2, HoldIsKept, HoldSnapsAreKept
  <2> QED
    BY <2>1, <2>2, <2>3 DEF GraphInv
<1>2. CASE UNCHANGED graphVars
  <2>1. GraphTypeOK' <=> GraphTypeOK
    BY <1>2 DEF graphVars, GraphTypeOK
  <2>2. ServerInv' <=> ServerInv
    BY <1>2 DEF graphVars, ServerInv
  <2>3. /\ RevertInv' <=> RevertInv
        /\ AckInv' <=> AckInv
        /\ IdInv' <=> IdInv
        /\ NamesInv' <=> NamesInv
    BY <1>2 DEF graphVars, RevertInv, AckInv, IdInv, NamesInv
  <2>4. /\ FoldInv' <=> FoldInv
        /\ SnapInv' <=> SnapInv
        /\ OnlyKills' <=> OnlyKills
    BY <1>2 DEF graphVars, FoldInv, SnapInv, OnlyKills
  <2>5. /\ HoldInv' <=> HoldInv
        /\ HoldSnapInv' <=> HoldSnapInv
        /\ spent' = spent
    BY <1>2 DEF graphVars, HoldInv, HoldSnapInv, Materializing, Behind, NextEvent
  <2> QED
    BY <2>1, <2>2, <2>3, <2>4, <2>5 DEF GraphInv, BaseInv
<1> QED
  BY <1>1, <1>2

(* The inductive invariant holds: the server, the lock, the ids and the    *)
(* names of the snapshots are as the code keeps them, the graph is the     *)
(* fold of the log up to the event under way while only kills strike, and  *)
(* it has every event up to its head while no revert is cut short.         *)
THEOREM GraphHolds == GraphSpec => []GraphInv
<1>1. GraphInit => GraphInv
  BY GraphStarts
<1>2. GraphInv /\ [GraphNext]_graphVars => GraphInv'
  BY GraphStep
<1> QED
  BY <1>1, <1>2, PTL DEF GraphSpec

(* Every variable keeps its type: no head passes the bound of the log and  *)
(* no task that does not exist holds the graph lock.                       *)
THEOREM GraphIsTyped == GraphSpec => []GraphTypeOK
<1>1. GraphInv => GraphTypeOK
  BY DEF GraphInv, BaseInv
<1> QED
  BY <1>1, GraphHolds, PTL

(* What readers see holds the events of every commit that has returned,    *)
(* whatever was killed or failed, while no revert is cut short; and it is  *)
(* the fold of the log under this build's schema while only kills strike   *)
(* (materialize_from, Graph::open).                                        *)
THEOREM EveryCommitIsServed == GraphSpec => []ServesEveryCommit
<1>1. GraphInv => ServesEveryCommit
  <2>1. SUFFICES ASSUME GraphInv PROVE ServesEveryCommit
    OBVIOUS
  <2>2. BaseInv
    BY <2>1 DEF GraphInv
  <2>3. ASSUME spent.cuts = 0, phase = "up"
        PROVE  graph.head >= acked /\ \A i \in 1 .. acked : Shows(graph, events[i])
    <3>1. graph.st = "ok" /\ revert.at # "graph"
      BY <2>2, <2>3 DEF BaseInv, ServerInv, RevertInv, NoRevert
    <3>2. HoldsTo(graph, events)
      BY <2>1, <2>3, <3>1 DEF GraphInv, HoldInv
    <3>3. graph.head >= acked /\ graph.head \in Nat /\ acked \in Nat
      BY <2>2, <2>3 DEF BaseInv, AckInv, GraphTypeOK, Graph, Seqs
    <3> QED
      BY <3>2, <3>3 DEF HoldsTo
  <2>4. ASSUME OnlyKills, phase = "up", ~Materializing
        PROVE  IsProjection(graph) /\ graph.schema = build
    <3>1. graph.st = "ok" /\ graph.schema = build /\ graph \in Graph /\ graphLock.done = 0
      BY <2>2, <2>4 DEF BaseInv, ServerInv, GraphTypeOK, Materializing
    <3>2. revert.at # "graph"
      BY <2>2, <2>4 DEF BaseInv, RevertInv, NoRevert
    <3>3. Half(graph, events, 0)
      BY <2>1, <2>4, <3>1, <3>2 DEF GraphInv, FoldInv
    <3> QED
      BY <3>1, <3>3, HalfIsProjection
  <2> QED
    BY <2>3, <2>4 DEF ServesEveryCommit, CommittedIsServed, ServesTheLog
<1> QED
  BY <1>1, GraphHolds, PTL

(* No step but one of a revert removes the newest snapshot. *)
LEMMA NewestStays ==
  ASSUME BaseInv, revert = NoRevert, Heads # {}, GraphNext
  PROVE  snaps'[LatestHead] # Absent
<1>0. /\ LatestHead \in Seqs /\ snaps[LatestHead] # Absent
      /\ \A h \in Heads : h <= LatestHead
  BY NewestIsOne DEF BaseInv, Heads
<1>1. CASE ApplyStatement
  <2>1. snaps' = snaps
    BY <1>1 DEF ApplyStatement
  <2> QED
    BY <1>0, <2>1
<1>2. CASE AdvanceHead
  <2>1. snaps' = snaps
    BY <1>2 DEF AdvanceHead
  <2> QED
    BY <1>0, <2>1
<1>3. CASE ApplyConflicts
  <2>1. snaps' = snaps
    BY <1>3 DEF ApplyConflicts, GivesUp
  <2> QED
    BY <1>0, <2>1
<1>4. CASE ApplyFails
  <2>1. snaps' = snaps
    BY <1>4 DEF ApplyFails, GivesUp
  <2> QED
    BY <1>0, <2>1
<1>5. CASE MaterializeDone
  <2>1. snaps' = snaps
    BY <1>5 DEF MaterializeDone
  <2> QED
    BY <1>0, <2>1
<1>6. ASSUME NEW w \in Writers, Commit(w) PROVE snaps'[LatestHead] # Absent
  <2>1. snaps' = snaps
    BY <1>6 DEF Commit
  <2> QED
    BY <1>0, <2>1
<1>7. ASSUME NEW w \in Writers, Materialize(w) PROVE snaps'[LatestHead] # Absent
  <2>1. snaps' = snaps
    BY <1>7 DEF Materialize
  <2> QED
    BY <1>0, <2>1
<1>8. CASE SnapshotDue
  <2>1. snaps' = snaps
    BY <1>8 DEF SnapshotDue, disk
  <2> QED
    BY <1>0, <2>1
<1>9. CASE SnapshotExists
  <2>1. snaps' = snaps
    BY <1>9 DEF SnapshotExists, disk
  <2> QED
    BY <1>0, <2>1
<1>10. CASE SnapshotPrune
  <2>1. {k \in Heads : k > LatestHead} = {}
    BY <1>0, Constants DEF Heads, Seqs
  <2>2. Cardinality({k \in Heads : k > LatestHead}) = 0
    BY <2>1, FS_EmptySet
  <2>3. Keep \in Int /\ 1 \in Int
    BY Constants
  <2>4. Max({Keep, 1}) \in {Keep, 1} /\ 1 <= Max({Keep, 1})
    BY <2>3, MaxOfTwo
  <2>5. Cardinality({k \in Heads : k > LatestHead}) < Max({Keep, 1})
    BY <2>2, <2>3, <2>4
  <2> QED
    BY <1>0, <1>10, <2>5 DEF SnapshotPrune, Pruned
<1>11. ASSUME NEW p \in {Driver, Operator}, SnapshotBegin(p) PROVE snaps'[LatestHead] # Absent
  <2>1. File("torn") # Absent
    BY Files
  <2> QED
    BY <1>0, <1>11, <2>1 DEF SnapshotBegin, BaseInv, GraphTypeOK
<1>12. ASSUME NEW p \in {Driver, Operator}, SnapshotEnd(p) PROVE snaps'[LatestHead] # Absent
  <2>1. graphLock.by \in {Driver, Operator}
    BY <1>12 DEF SnapshotEnd
  <2>2. graph # Absent
    BY <2>1, Files DEF BaseInv, ServerInv
  <2> QED
    BY <1>0, <1>12, <2>2 DEF SnapshotEnd, BaseInv, GraphTypeOK
<1>13. CASE BootLock
  <2>1. snaps' = snaps
    BY <1>13 DEF BootLock, disk
  <2> QED
    BY <1>0, <2>1
<1>14. CASE RestoreFails
  <2>1. snaps' = snaps
    BY <1>14 DEF RestoreFails, BootFails, disk
  <2> QED
    BY <1>0, <2>1
<1>15. CASE RestoreSkips
  <2>1. snaps' = snaps
    BY <1>15 DEF RestoreSkips, disk
  <2> QED
    BY <1>0, <2>1
<1>16. CASE RestoreBegin
  <2>1. snaps' = snaps
    BY <1>16 DEF RestoreBegin
  <2> QED
    BY <1>0, <2>1
<1>17. CASE RestoreEnd
  <2>1. snaps' = snaps
    BY <1>17 DEF RestoreEnd
  <2> QED
    BY <1>0, <2>1
<1>18. CASE OpenGraph
  <2>1. snaps' = snaps
    BY <1>18 DEF OpenGraph, disk
  <2> QED
    BY <1>0, <2>1
<1>19. CASE CannotOpen
  <2>1. snaps' = snaps
    BY <1>19 DEF CannotOpen, BootFails, disk
  <2> QED
    BY <1>0, <2>1
<1>20. CASE OpenResets
  <2>1. snaps' = snaps
    BY <1>20 DEF OpenResets
  <2> QED
    BY <1>0, <2>1
<1>21. CASE ResetEnd
  <2>1. snaps' = snaps
    BY <1>21 DEF ResetEnd
  <2> QED
    BY <1>0, <2>1
<1>22. CASE Reconcile
  <2>1. snaps' = snaps
    BY <1>22 DEF Reconcile
  <2> QED
    BY <1>0, <2>1
<1>23. CASE OfflineAppend
  <2>1. snaps' = snaps
    BY <1>23 DEF OfflineAppend
  <2> QED
    BY <1>0, <2>1
<1>24. CASE DeleteGraph
  <2>1. snaps' = snaps
    BY <1>24 DEF DeleteGraph
  <2> QED
    BY <1>0, <2>1
<1>25. CASE Upgrade
  <2>1. snaps' = snaps
    BY <1>25 DEF Upgrade, disk
  <2> QED
    BY <1>0, <2>1
<1>26. CASE RevertTruncate
  <2>1. snaps' = snaps
    BY <1>26 DEF RevertTruncate
  <2> QED
    BY <1>0, <2>1
<1>27. CASE RevertGraph
  <2>1. snaps' = snaps
    BY <1>27 DEF RevertGraph
  <2> QED
    BY <1>0, <2>1
<1>28. CASE RevertSnaps
  BY <1>28 DEF RevertSnaps, NoRevert
<1>29. CASE RevertStops
  <2>1. snaps' = snaps
    BY <1>29 DEF RevertStops, disk
  <2> QED
    BY <1>0, <2>1
<1>30. CASE Shutdown
  <2>1. snaps' = snaps
    BY <1>30 DEF Shutdown, disk
  <2> QED
    BY <1>0, <2>1
<1>31. CASE Kill
  <2>1. snaps' = snaps
    BY <1>31 DEF Kill, disk
  <2> QED
    BY <1>0, <2>1
<1> QED
  BY <1>1, <1>2, <1>3, <1>4, <1>5, <1>6, <1>7, <1>8, <1>9, <1>10, <1>11, <1>12, <1>13, <1>14,
     <1>15, <1>16, <1>17, <1>18, <1>19, <1>20, <1>21, <1>22, <1>23, <1>24, <1>25, <1>26, <1>27,
     <1>28, <1>29, <1>30, <1>31 DEF GraphNext, Apply, Booting, Snapshotter, Offline

(* A readable snapshot is a fold of the log while only kills strike; and   *)
(* retention never deletes the newest one, whatever fails (write_snapshot, *)
(* prune, discard_after).                                                  *)
THEOREM SnapshotsAreKept == GraphSpec => SnapshotsStand
<1>1. GraphInv => (OnlyKills => SnapshotsAreProjections)
  <2>1. SUFFICES ASSUME GraphInv, OnlyKills, revert = NoRevert,
                        NEW h \in Heads, snaps[h].st = "ok"
                 PROVE  snaps[h].head = h /\ IsProjection(snaps[h])
    BY DEF SnapshotsAreProjections
  <2>2. h \in Seqs /\ snaps[h] \in Graph /\ snaps[h].head = h
    BY <2>1 DEF Heads, GraphInv, BaseInv, GraphTypeOK, NamesInv
  <2>3. Half(snaps[h], events, 0)
    BY <2>1, <2>2 DEF GraphInv, SnapInv
  <2> QED
    BY <2>1, <2>2, <2>3, HalfIsProjection
<1>2. GraphInv /\ [GraphNext]_graphVars =>
        [(revert = NoRevert /\ Heads # {}) => snaps'[LatestHead] # Absent]_graphVars
  BY NewestStays DEF GraphInv
<1> QED
  BY <1>1, <1>2, GraphHolds, PTL DEF GraphSpec, SnapshotsStand, NewestIsKept

=============================================================================
