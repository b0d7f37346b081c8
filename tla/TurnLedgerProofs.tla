-------------------------- MODULE TurnLedgerProofs --------------------------
(***************************************************************************)
(* Proofs that the turn ledger serializes each conversation in arrival     *)
(* order, never stalls, and always leaves a burst somebody to answer it,   *)
(* for any number of conversations, batches, clock readings and windows.   *)
(***************************************************************************)
EXTENDS TurnLedger, FiniteSetTheorems, WellFoundedInduction, TLAPS

-----------------------------------------------------------------------------
(* Any non-empty set of naturals has a least element. *)
LEMMA LeastNatural ==
  ASSUME NEW T, T \subseteq Nat, T # {}
  PROVE  \E x \in T : \A y \in T : x <= y
<1>0. OpToRel(<, Nat) = {ss \in Nat \X Nat : ss[1] < ss[2]}
  BY Zenon DEF OpToRel
<1>1. PICK x \in T : \A y \in T : ~ (<<y, x>> \in {ss \in Nat \X Nat : ss[1] < ss[2]})
  BY <1>0, WFMin, NatLessThanWellFounded
<1>2. ASSUME NEW y \in T PROVE x <= y
  <2>1. <<y, x>> \in Nat \X Nat /\ <<y, x>>[1] = y /\ <<y, x>>[2] = x
    OBVIOUS
  <2>2. ~ (y < x)
    BY <1>1, <2>1
  <2> QED
    BY <2>2
<1> QED
  BY <1>2

(* The loop in exit stops at the first unfinished epoch after n, which is  *)
(* at most next_epoch.                                                     *)
LEMMA SkipFacts ==
  ASSUME NEW t \in ConversationTurns, NEW n \in Nat,
         n < t.next_epoch,
         t.next_epoch \notin t.finished
  PROVE  /\ Skip(t, n) \in (n + 1)..t.next_epoch
         /\ Skip(t, n) \notin t.finished
         /\ \A k \in (n + 1)..(Skip(t, n) - 1) : k \in t.finished
<1> DEFINE T == {m \in (n + 1)..t.next_epoch : m \notin t.finished}
<1>0. t.next_epoch \in Nat /\ t.finished \subseteq Nat
  BY DEF ConversationTurns
<1>1. t.next_epoch \in T
  BY <1>0
<1>2. T \subseteq Nat
  BY <1>0
<1>3. PICK m \in T : \A y \in T : m <= y
  <2> HIDE DEF T
  <2> QED BY <1>1, <1>2, LeastNatural
<1>4. \A k \in (n + 1)..(m - 1) : k \in t.finished
  BY <1>0, <1>3
<1> QED
  BY <1>3, <1>4 DEF Skip

(* Where LedgerInv says something of a live holder. *)
LEMMA InitInv == LedgerInit => LedgerInv
BY RoomAssumption, TimeAssumption, WindowAssumption
   DEF LedgerInit, LedgerInv, LineInv, LedgerTypeOK, EpochsInLine, DistinctEpochs, AdmittedIsServed,
       NoHoleInLine, CountsExact, StampsInOrder, SomebodyStands, NewestNeverYields,
       State, Live, Admitted, ConversationTurns, NewTurns

-----------------------------------------------------------------------------
(* A step that changes neither the map nor the set of live holders.        *)
LEMMA EntryType ==
  ASSUME LedgerTypeOK, NEW c
  PROVE  Entry(c) \in ConversationTurns
BY DEF LedgerTypeOK, Entry, ConversationTurns, NewTurns

(* The fields of the entry a batch has joined. *)
LEMMA JoinFacts ==
  ASSUME NEW e \in ConversationTurns, NEW now \in Time
  PROVE  /\ Join(e, now) \in ConversationTurns
         /\ Join(e, now).next_epoch = e.next_epoch + 1
         /\ Join(e, now).outstanding = e.outstanding + 1
         /\ Join(e, now).supersede = e.next_epoch
         /\ Join(e, now).serving = e.serving
         /\ Join(e, now).finished = e.finished
         /\ Join(e, now).admitted = e.admitted
         /\ Join(e, now).arrivals = e.arrivals \cup
                                      {[epoch |-> e.next_epoch, arrived_at |-> now]}
<1>1. [epoch |-> e.next_epoch, arrived_at |-> now] \in Arrival
  BY DEF ConversationTurns, Arrival
<1> DEFINE n == e.next_epoch + 1
           o == e.outstanding + 1
           l == e.next_epoch
           v == e.arrivals \cup {[epoch |-> e.next_epoch, arrived_at |-> now]}
           t1 == [e EXCEPT !.next_epoch = n]
           t2 == [t1 EXCEPT !.outstanding = o]
           t3 == [t2 EXCEPT !.arrivals = v]
           t4 == [t3 EXCEPT !.supersede = l]
<1>2. n \in Nat /\ o \in Nat /\ l \in Nat /\ v \in SUBSET Arrival
  BY <1>1 DEF ConversationTurns
<1>3. /\ n = e.next_epoch + 1 /\ o = e.outstanding + 1 /\ l = e.next_epoch
      /\ v = e.arrivals \cup {[epoch |-> e.next_epoch, arrived_at |-> now]}
  OBVIOUS
<1>4. Join(e, now) = t4
  BY DEF Join
<1> HIDE DEF n, o, l, v
<1>5. /\ t1 \in ConversationTurns
      /\ t1.next_epoch = n /\ t1.serving = e.serving /\ t1.finished = e.finished
      /\ t1.admitted = e.admitted
  BY <1>2 DEF ConversationTurns
<1> HIDE DEF t1
<1>6. /\ t2 \in ConversationTurns
      /\ t2.outstanding = o /\ t2.next_epoch = t1.next_epoch /\ t2.serving = t1.serving
      /\ t2.finished = t1.finished /\ t2.admitted = t1.admitted
  BY <1>2, <1>5 DEF ConversationTurns
<1> HIDE DEF t2
<1>7. /\ t3 \in ConversationTurns
      /\ t3.next_epoch = t2.next_epoch /\ t3.serving = t2.serving
      /\ t3.finished = t2.finished /\ t3.admitted = t2.admitted
      /\ t3.outstanding = t2.outstanding /\ t3.arrivals = v
  BY <1>2, <1>6 DEF ConversationTurns
<1> HIDE DEF t3
<1>8. /\ t4 \in ConversationTurns
      /\ t4.next_epoch = t3.next_epoch /\ t4.serving = t3.serving
      /\ t4.finished = t3.finished /\ t4.admitted = t3.admitted
      /\ t4.outstanding = t3.outstanding /\ t4.supersede = l
      /\ t4.arrivals = t3.arrivals
  BY <1>2, <1>7 DEF ConversationTurns
<1> HIDE DEF t4
<1> QED
  BY <1>3, <1>4, <1>5, <1>6, <1>7, <1>8

(* arrive keeps the line in order: the new epoch is the next one. *)
LEMMA ArriveLine ==
  ASSUME LineInv, NEW b \in Batch, NEW now \in Time, Arrive(b, now)
  PROVE  LineInv'
<1> DEFINE c == Room[b]
           e == Entry(c)
           t == Join(e, now)
<1>1. c \in Conversation /\ e \in ConversationTurns
  BY RoomAssumption, EntryType DEF LineInv
<1>2. /\ t \in ConversationTurns
      /\ t.next_epoch = e.next_epoch + 1
      /\ t.outstanding = e.outstanding + 1
      /\ t.serving = e.serving
      /\ t.finished = e.finished
      /\ t.admitted = e.admitted
  BY <1>1, JoinFacts
<1> HIDE DEF t
<1>3. ledger' = Put(c, t)
  BY DEF Arrive, t
<1>4. /\ DOMAIN ledger' = DOMAIN ledger \cup {c}
      /\ ledger'[c] = t
      /\ \A d \in DOMAIN ledger : d # c => ledger'[d] = ledger[d]
  BY <1>3 DEF Put
<1>5. /\ stage[b] = "new"
      /\ stage' = [stage EXCEPT ![b] = "waiting"]
      /\ epoch' = [epoch EXCEPT ![b] = e.next_epoch]
  BY DEF Arrive
<1>6. /\ \A x \in Batch : x # b => stage'[x] = stage[x] /\ epoch'[x] = epoch[x]
      /\ stage'[b] = "waiting" /\ epoch'[b] = e.next_epoch
  BY <1>5 DEF LineInv, LedgerTypeOK
<1>7. /\ \A x \in Batch : Live(x)' <=> Live(x) \/ x = b
      /\ \A x \in Batch : Admitted(x)' <=> Admitted(x)
      /\ ~Live(b) /\ ~Admitted(b)
  BY <1>5, <1>6 DEF Live, Admitted
<1>8. /\ Holders(c)' = Holders(c) \cup {b}
      /\ \A d : d # c => Holders(d)' = Holders(d)
      /\ \A d : AdmittedIn(d)' = AdmittedIn(d)
      /\ b \notin Holders(c)
  BY <1>7 DEF Holders, AdmittedIn
<1>9. c \notin DOMAIN ledger => Holders(c) = {} /\ e = NewTurns
  BY DEF LineInv, EpochsInLine, Holders, Entry
<1>10. c \in DOMAIN ledger => e = ledger[c]
  BY DEF Entry
<1>11. LedgerTypeOK'
  <2>1. ledger' \in [DOMAIN ledger' -> ConversationTurns] /\ DOMAIN ledger' \subseteq Conversation
    BY <1>1, <1>2, <1>3, <1>4 DEF LineInv, LedgerTypeOK, Put
  <2>2. epoch' \in [Batch -> Nat]
    BY <1>1, <1>5 DEF LineInv, LedgerTypeOK, ConversationTurns
  <2> QED
    BY <2>1, <2>2 DEF LineInv, LedgerTypeOK, Arrive, handleVars, State
<1>12. EpochsInLine'
  <2> SUFFICES ASSUME NEW x \in Batch, Live(x)'
               PROVE  /\ Room[x] \in DOMAIN ledger'
                      /\ ledger'[Room[x]].serving <= epoch'[x]
                      /\ epoch'[x] < ledger'[Room[x]].next_epoch
                      /\ epoch'[x] \notin ledger'[Room[x]].finished
    BY DEF EpochsInLine
  <2>1. CASE x = b
    <3>1. CASE c \notin DOMAIN ledger
      BY <3>1, <2>1, <1>2, <1>4, <1>6, <1>9 DEF NewTurns
    <3>2. CASE c \in DOMAIN ledger
      <4>1. PICK y \in Holders(c) : TRUE
        BY <3>2 DEF LineInv, CountsExact
      <4>2. e.serving <= epoch[y] /\ epoch[y] < e.next_epoch /\ epoch[y] \in Nat
        BY <3>2, <1>10, <4>1 DEF LineInv, EpochsInLine, Holders, LedgerTypeOK
      <4>3. e.next_epoch \notin e.finished
        BY <3>2, <1>1, <1>10 DEF LineInv, NoHoleInLine, ConversationTurns
      <4> QED
        BY <2>1, <4>2, <4>3, <1>1, <1>2, <1>4, <1>6 DEF ConversationTurns
    <3> QED
      BY <3>1, <3>2
  <2>2. CASE x # b
    BY <2>2, <1>1, <1>2, <1>4, <1>6, <1>7, <1>10
       DEF LineInv, EpochsInLine, ConversationTurns, LedgerTypeOK
  <2> QED
    BY <2>1, <2>2
<1>13. DistinctEpochs'
  <2>1. \A x \in Batch : x # b /\ Live(x) /\ Room[x] = c => epoch[x] # e.next_epoch
    BY <1>10, <1>1 DEF LineInv, EpochsInLine, LedgerTypeOK, ConversationTurns
  <2> QED
    BY <2>1, <1>6, <1>7 DEF LineInv, DistinctEpochs
<1>14. AdmittedIsServed'
  BY <1>2, <1>4, <1>6, <1>7, <1>10 DEF LineInv, AdmittedIsServed, EpochsInLine, Live
<1>15. NoHoleInLine'
  <2> SUFFICES ASSUME NEW d \in DOMAIN ledger'
               PROVE  /\ ledger'[d].finished \subseteq
                           (ledger'[d].serving + 1)..(ledger'[d].next_epoch - 1)
                      /\ \A k \in ledger'[d].serving..(ledger'[d].next_epoch - 1) :
                           k \in ledger'[d].finished \/ \E x \in Holders(d)' : epoch'[x] = k
    BY DEF NoHoleInLine
  <2>1. CASE d # c
    BY <2>1, <1>4, <1>6, <1>8 DEF LineInv, NoHoleInLine, Holders
  <2>2. CASE d = c
    <3>1. /\ e.finished \subseteq (e.serving + 1)..(e.next_epoch - 1)
          /\ \A k \in e.serving..(e.next_epoch - 1) :
               k \in e.finished \/ \E x \in Holders(c) : epoch[x] = k
      BY <1>9, <1>10 DEF LineInv, NoHoleInLine, NewTurns
    <3>2. \A k \in t.serving..(t.next_epoch - 1) :
               k \in t.finished \/ \E x \in Holders(c)' : epoch'[x] = k
      <4> SUFFICES ASSUME NEW k \in t.serving..(t.next_epoch - 1)
                   PROVE  k \in t.finished \/ \E x \in Holders(c)' : epoch'[x] = k
        OBVIOUS
      <4>1. CASE k = e.next_epoch
        BY <4>1, <1>6, <1>8
      <4>2. CASE k # e.next_epoch
        <5>1. k \in e.serving..(e.next_epoch - 1)
          BY <4>2, <1>1, <1>2 DEF ConversationTurns
        <5>2. \A x \in Holders(c) : x \in Batch /\ x # b
          BY <1>8 DEF Holders
        <5> QED
          BY <5>1, <5>2, <3>1, <1>2, <1>6, <1>8
      <4> QED
        BY <4>1, <4>2
    <3> QED
      BY <2>2, <3>1, <3>2, <1>1, <1>2, <1>4 DEF ConversationTurns
  <2> QED
    BY <2>1, <2>2
<1>16. CountsExact'
  <2> SUFFICES ASSUME NEW d \in DOMAIN ledger'
               PROVE  /\ IsFiniteSet(Holders(d)')
                      /\ ledger'[d].outstanding = Cardinality(Holders(d)')
                      /\ Holders(d)' # {}
                      /\ ledger'[d].admitted = IF AdmittedIn(d)' = {} THEN 0 ELSE 1
    BY DEF CountsExact
  <2>1. CASE d # c
    BY <2>1, <1>4, <1>8 DEF LineInv, CountsExact
  <2>2. CASE d = c
    <3>1. IsFiniteSet(Holders(c)) /\ e.outstanding = Cardinality(Holders(c))
      <4>1. CASE c \notin DOMAIN ledger
        BY <4>1, <1>9, FS_EmptySet DEF NewTurns
      <4>2. CASE c \in DOMAIN ledger
        BY <4>2, <1>10 DEF LineInv, CountsExact
      <4> QED
        BY <4>1, <4>2
    <3>2. IsFiniteSet(Holders(c)') /\ Cardinality(Holders(c)') = Cardinality(Holders(c)) + 1
      BY <3>1, <1>8, FS_AddElement
    <3>3. e.admitted = IF AdmittedIn(c) = {} THEN 0 ELSE 1
      <4>1. CASE c \notin DOMAIN ledger
        <5>1. AdmittedIn(c) = {}
          BY <4>1, <1>9 DEF AdmittedIn, Holders, Live
        <5> QED
          BY <4>1, <5>1, <1>9 DEF NewTurns
      <4>2. CASE c \in DOMAIN ledger
        BY <4>2, <1>10 DEF LineInv, CountsExact
      <4> QED
        BY <4>1, <4>2
    <3> QED
      BY <2>2, <3>1, <3>2, <3>3, <1>2, <1>4, <1>8
  <2> QED
    BY <2>1, <2>2
<1> QED
  BY <1>11, <1>12, <1>13, <1>14, <1>15, <1>16 DEF LineInv

-----------------------------------------------------------------------------
(* The two counts after an exit; nothing else moves. *)
LEMMA DischargeFacts ==
  ASSUME NEW t \in ConversationTurns, NEW wasAdmitted \in BOOLEAN,
         t.outstanding > 0, wasAdmitted => t.admitted > 0
  PROVE  /\ Discharge(t, wasAdmitted) \in ConversationTurns
         /\ Discharge(t, wasAdmitted).outstanding = t.outstanding - 1
         /\ Discharge(t, wasAdmitted).admitted =
              IF wasAdmitted THEN t.admitted - 1 ELSE t.admitted
         /\ Discharge(t, wasAdmitted).serving = t.serving
         /\ Discharge(t, wasAdmitted).supersede = t.supersede
         /\ Discharge(t, wasAdmitted).next_epoch = t.next_epoch
         /\ Discharge(t, wasAdmitted).finished = t.finished
         /\ Discharge(t, wasAdmitted).arrivals = t.arrivals
<1> DEFINE o == t.outstanding - 1
           a == IF wasAdmitted THEN t.admitted - 1 ELSE t.admitted
           t1 == [t EXCEPT !.outstanding = o]
           t2 == [t1 EXCEPT !.admitted = a]
<1>1. o \in Nat /\ a \in Nat
  BY DEF ConversationTurns
<1>2. Discharge(t, wasAdmitted) = t2
  BY DEF Discharge
<1>3. o = t.outstanding - 1 /\ a = IF wasAdmitted THEN t.admitted - 1 ELSE t.admitted
  OBVIOUS
<1> HIDE DEF o, a
<1>4. /\ t1 \in ConversationTurns
      /\ t1.outstanding = o /\ t1.serving = t.serving /\ t1.supersede = t.supersede
      /\ t1.next_epoch = t.next_epoch /\ t1.finished = t.finished
      /\ t1.arrivals = t.arrivals
  BY <1>1 DEF ConversationTurns
<1> HIDE DEF t1
<1>5. /\ t2 \in ConversationTurns
      /\ t2.outstanding = o /\ t2.serving = t1.serving /\ t2.supersede = t1.supersede
      /\ t2.next_epoch = t1.next_epoch /\ t2.finished = t1.finished /\ t2.admitted = a
      /\ t2.arrivals = t1.arrivals
  BY <1>1, <1>4 DEF ConversationTurns
<1> HIDE DEF t2
<1> QED
  BY <1>2, <1>3, <1>4, <1>5

(* What exit leaves of the counter: it stays, and remembers n; or it was   *)
(* at n, and moves to the first epoch after n that has not finished.       *)
AdvancesFrom(t, u, n) ==
  IF t.serving = n
    THEN /\ u.serving \in (n + 1)..t.next_epoch
         /\ u.serving \notin t.finished
         /\ \A k \in (n + 1)..(u.serving - 1) : k \in t.finished
         /\ u.finished = t.finished \ ((n + 1)..(u.serving - 1))
    ELSE u.serving = t.serving /\ u.finished = t.finished \cup {n}

LEMMA AdvanceFacts ==
  ASSUME NEW t \in ConversationTurns, NEW n \in Nat,
         n < t.next_epoch, t.next_epoch \notin t.finished
  PROVE  /\ Advance(t, n) \in ConversationTurns
         /\ Advance(t, n).outstanding = t.outstanding
         /\ Advance(t, n).admitted = t.admitted
         /\ Advance(t, n).supersede = t.supersede
         /\ Advance(t, n).next_epoch = t.next_epoch
         /\ Advance(t, n).arrivals = t.arrivals
         /\ AdvancesFrom(t, Advance(t, n), n)
<1>1. CASE t.serving = n
  <2> DEFINE m == Skip(t, n)
             f == t.finished \ ((n + 1)..(m - 1))
             t1 == [t EXCEPT !.serving = m]
             t2 == [t1 EXCEPT !.finished = f]
  <2>1. /\ m \in (n + 1)..t.next_epoch /\ m \notin t.finished
        /\ \A k \in (n + 1)..(m - 1) : k \in t.finished
    BY SkipFacts
  <2>2. Advance(t, n) = t2
    BY <1>1 DEF Advance
  <2> HIDE DEF m
  <2>3. m \in Nat /\ f \in SUBSET Nat
    BY <2>1 DEF ConversationTurns
  <2>4. f = t.finished \ ((n + 1)..(m - 1))
    OBVIOUS
  <2> HIDE DEF f
  <2>5. /\ t1 \in ConversationTurns
        /\ t1.serving = m /\ t1.outstanding = t.outstanding /\ t1.admitted = t.admitted
        /\ t1.supersede = t.supersede /\ t1.next_epoch = t.next_epoch
        /\ t1.arrivals = t.arrivals
    BY <2>3 DEF ConversationTurns
  <2> HIDE DEF t1
  <2>6. /\ t2 \in ConversationTurns
        /\ t2.serving = m /\ t2.outstanding = t1.outstanding /\ t2.admitted = t1.admitted
        /\ t2.supersede = t1.supersede /\ t2.next_epoch = t1.next_epoch /\ t2.finished = f
        /\ t2.arrivals = t1.arrivals
    BY <2>3, <2>5 DEF ConversationTurns
  <2> HIDE DEF t2
  <2> QED
    BY <1>1, <2>1, <2>2, <2>4, <2>5, <2>6 DEF AdvancesFrom
<1>2. CASE t.serving # n
  <2>1. Advance(t, n) = [t EXCEPT !.finished = t.finished \cup {n}]
    BY <1>2 DEF Advance
  <2> QED
    BY <1>2, <2>1 DEF AdvancesFrom, ConversationTurns
<1> QED
  BY <1>1, <1>2

LEMMA LeftFacts ==
  ASSUME NEW t \in ConversationTurns, NEW n \in Nat,
         NEW wasAdmitted \in BOOLEAN, NEW superseded \in BOOLEAN,
         t.outstanding > 0, wasAdmitted => t.admitted > 0,
         n < t.next_epoch, t.next_epoch \notin t.finished
  PROVE  LET u == Left(t, n, wasAdmitted, superseded)
         IN  /\ u \in ConversationTurns
             /\ u.outstanding = t.outstanding - 1
             /\ u.admitted = IF wasAdmitted THEN t.admitted - 1 ELSE t.admitted
             /\ u.supersede = t.supersede
             /\ u.next_epoch = t.next_epoch
             /\ AdvancesFrom(t, u, n)
<1> DEFINE d == Discharge(t, wasAdmitted)
           v == Advance(d, n)
           u == Left(t, n, wasAdmitted, superseded)
<1>1. /\ d \in ConversationTurns
      /\ d.outstanding = t.outstanding - 1
      /\ d.admitted = IF wasAdmitted THEN t.admitted - 1 ELSE t.admitted
      /\ d.serving = t.serving /\ d.supersede = t.supersede
      /\ d.next_epoch = t.next_epoch /\ d.finished = t.finished
      /\ d.arrivals = t.arrivals
  BY DischargeFacts
<1> HIDE DEF d
<1>2. /\ v \in ConversationTurns
      /\ v.outstanding = d.outstanding /\ v.admitted = d.admitted
      /\ v.supersede = d.supersede /\ v.next_epoch = d.next_epoch
      /\ v.arrivals = d.arrivals
      /\ AdvancesFrom(d, v, n)
  BY <1>1, AdvanceFacts
<1> HIDE DEF v
<1>3. u = IF superseded THEN v ELSE Prune(v, n)
  BY DEF Left, v, d
<1>4. /\ Prune(v, n) \in ConversationTurns
      /\ Prune(v, n).outstanding = v.outstanding /\ Prune(v, n).admitted = v.admitted
      /\ Prune(v, n).supersede = v.supersede /\ Prune(v, n).next_epoch = v.next_epoch
      /\ Prune(v, n).serving = v.serving /\ Prune(v, n).finished = v.finished
  <2>1. {a \in v.arrivals : a.epoch > n} \in SUBSET Arrival
    BY <1>2 DEF ConversationTurns
  <2> QED
    BY <1>2, <2>1 DEF Prune, ConversationTurns
<1> HIDE DEF u
<1> QED
  BY <1>1, <1>2, <1>3, <1>4 DEF AdvancesFrom, u

(* An exit that was not superseded prunes the arrivals up to its own. *)
LEMMA LeftArrivals ==
  ASSUME NEW t \in ConversationTurns, NEW n \in Nat,
         NEW wasAdmitted \in BOOLEAN, NEW superseded \in BOOLEAN,
         t.outstanding > 0, wasAdmitted => t.admitted > 0,
         n < t.next_epoch, t.next_epoch \notin t.finished
  PROVE  Left(t, n, wasAdmitted, superseded).arrivals =
           IF superseded THEN t.arrivals ELSE {a \in t.arrivals : a.epoch > n}
<1> DEFINE d == Discharge(t, wasAdmitted)
           v == Advance(d, n)
<1>1. /\ d \in ConversationTurns /\ d.arrivals = t.arrivals
      /\ d.next_epoch = t.next_epoch /\ d.finished = t.finished
  BY DischargeFacts
<1>2. Left(t, n, wasAdmitted, superseded) = IF superseded THEN v ELSE Prune(v, n)
  BY DEF Left
<1> HIDE DEF d
<1>3. v \in ConversationTurns /\ v.arrivals = d.arrivals
  BY <1>1, AdvanceFacts
<1> HIDE DEF v
<1>4. Prune(v, n).arrivals = {a \in v.arrivals : a.epoch > n}
  BY <1>3 DEF Prune, ConversationTurns
<1> QED
  BY <1>1, <1>2, <1>3, <1>4

-----------------------------------------------------------------------------
(* Whoever runs in a room runs there alone. *)
LEMMA RunsAlone ==
  ASSUME LineInv, NEW a \in Batch, NEW b \in Batch,
         Admitted(a), Admitted(b), Room[a] = Room[b]
  PROVE  a = b
BY DEF LineInv, AdmittedIsServed, DistinctEpochs, Live

(* An exit takes b out of the line and keeps the rest in order. *)
LEMMA ExitLine ==
  ASSUME LineInv, NEW b \in Batch, NEW wasAdmitted \in BOOLEAN, NEW superseded \in BOOLEAN,
         NEW fate \in {"completed", "superseded", "dropped"},
         Live(b), wasAdmitted <=> Admitted(b),
         Exit(b, wasAdmitted, superseded, fate)
  PROVE  LineInv'
<1> DEFINE c == Room[b]
           t == ledger[c]
           n == epoch[b]
           u == Left(t, n, wasAdmitted, superseded)
<1>1. /\ c \in DOMAIN ledger /\ t \in ConversationTurns /\ n \in Nat
      /\ t.serving <= n /\ n < t.next_epoch /\ n \notin t.finished
  BY DEF LineInv, LedgerTypeOK, EpochsInLine
<1>2. /\ t.finished \subseteq (t.serving + 1)..(t.next_epoch - 1)
      /\ \A k \in t.serving..(t.next_epoch - 1) :
           k \in t.finished \/ \E x \in Holders(c) : epoch[x] = k
  BY <1>1 DEF LineInv, NoHoleInLine
<1>3. /\ IsFiniteSet(Holders(c)) /\ t.outstanding = Cardinality(Holders(c))
      /\ t.admitted = IF AdmittedIn(c) = {} THEN 0 ELSE 1
      /\ b \in Holders(c) /\ (wasAdmitted => b \in AdmittedIn(c))
  BY <1>1 DEF LineInv, CountsExact, Holders, AdmittedIn
<1>4. t.outstanding > 0 /\ (wasAdmitted => t.admitted > 0) /\ t.next_epoch \notin t.finished
  <2>1. t.outstanding # 0
    BY <1>3, FS_EmptySet
  <2> QED
    BY <1>1, <1>2, <1>3, <2>1 DEF ConversationTurns
<1>5. /\ u \in ConversationTurns
      /\ u.outstanding = t.outstanding - 1
      /\ u.admitted = IF wasAdmitted THEN t.admitted - 1 ELSE t.admitted
      /\ u.next_epoch = t.next_epoch
      /\ AdvancesFrom(t, u, n)
  BY <1>1, <1>4, LeftFacts
<1>6. ledger' = IF u.outstanding = 0 THEN Without(c) ELSE Put(c, u)
  BY DEF Exit
<1>7. stage' = [stage EXCEPT ![b] = fate] /\ epoch' = epoch
  BY DEF Exit, ticketVars
<1> HIDE DEF u
<1>8. /\ \A d \in DOMAIN ledger : d # c => d \in DOMAIN ledger' /\ ledger'[d] = ledger[d]
      /\ u.outstanding # 0 => DOMAIN ledger' = DOMAIN ledger /\ ledger'[c] = u
      /\ u.outstanding = 0 => DOMAIN ledger' = DOMAIN ledger \ {c}
      /\ DOMAIN ledger' \subseteq DOMAIN ledger
  BY <1>1, <1>6 DEF Put, Without
<1>9. /\ \A x \in Batch : Live(x)' <=> Live(x) /\ x # b
      /\ \A x \in Batch : Admitted(x)' <=> Admitted(x) /\ x # b
  BY <1>7 DEF LineInv, LedgerTypeOK, Live, Admitted
<1>10. /\ Holders(c)' = Holders(c) \ {b}
       /\ AdmittedIn(c)' = AdmittedIn(c) \ {b}
       /\ \A d : d # c => Holders(d)' = Holders(d) /\ AdmittedIn(d)' = AdmittedIn(d)
  BY <1>9 DEF Holders, AdmittedIn
<1>11. IsFiniteSet(Holders(c)') /\ Cardinality(Holders(c)') = u.outstanding
  BY <1>3, <1>5, <1>10, FS_RemoveElement
<1>12. u.outstanding = 0 => Holders(c)' = {}
  BY <1>11, FS_EmptySet
<1>13. \A x \in Batch : Live(x)' /\ Room[x] = c => u.outstanding # 0
  BY <1>12 DEF Holders
<1>14. LedgerTypeOK'
  <2>1. ledger' \in [DOMAIN ledger' -> ConversationTurns] /\ DOMAIN ledger' \subseteq Conversation
    <3>1. CASE u.outstanding = 0
      BY <3>1, <1>6, <1>8 DEF LineInv, LedgerTypeOK, Without
    <3>2. CASE u.outstanding # 0
      BY <3>2, <1>1, <1>5, <1>6, <1>8 DEF LineInv, LedgerTypeOK, Put
    <3> QED
      BY <3>1, <3>2
  <2> QED
    BY <2>1, <1>7 DEF LineInv, LedgerTypeOK, Exit, ticketVars, handleVars, State
<1>15. EpochsInLine'
  <2> SUFFICES ASSUME NEW x \in Batch, Live(x)'
               PROVE  /\ Room[x] \in DOMAIN ledger'
                      /\ ledger'[Room[x]].serving <= epoch'[x]
                      /\ epoch'[x] < ledger'[Room[x]].next_epoch
                      /\ epoch'[x] \notin ledger'[Room[x]].finished
    BY DEF EpochsInLine
  <2>1. Live(x) /\ x # b
    BY <1>9
  <2>2. CASE Room[x] # c
    BY <2>1, <2>2, <1>7, <1>8 DEF LineInv, EpochsInLine
  <2>3. CASE Room[x] = c
    <3>1. u.outstanding # 0 /\ ledger'[c] = u /\ c \in DOMAIN ledger'
      BY <2>3, <1>1, <1>8, <1>13
    <3>2. /\ epoch[x] \in Nat /\ epoch[x] # n
          /\ t.serving <= epoch[x] /\ epoch[x] < t.next_epoch /\ epoch[x] \notin t.finished
      BY <2>1, <2>3 DEF LineInv, DistinctEpochs, EpochsInLine, LedgerTypeOK
    <3>3. u.serving <= epoch[x] /\ epoch[x] \notin u.finished
      <4>1. CASE t.serving = n
        BY <4>1, <3>2, <1>1, <1>5 DEF AdvancesFrom, ConversationTurns
      <4>2. CASE t.serving # n
        BY <4>2, <3>2, <1>5 DEF AdvancesFrom
      <4> QED
        BY <4>1, <4>2
    <3> QED
      BY <2>3, <3>1, <3>2, <3>3, <1>5, <1>7
  <2> QED
    BY <2>2, <2>3
<1>16. DistinctEpochs'
  BY <1>7, <1>9 DEF LineInv, DistinctEpochs
<1>17. AdmittedIsServed'
  <2> SUFFICES ASSUME NEW x \in Batch, Admitted(x)'
               PROVE  epoch'[x] = ledger'[Room[x]].serving
    BY DEF AdmittedIsServed
  <2>1. Admitted(x) /\ x # b /\ Live(x) /\ Live(x)'
    BY <1>9 DEF Live
  <2>2. epoch[x] = ledger[Room[x]].serving /\ Room[x] \in DOMAIN ledger
    BY <2>1 DEF LineInv, AdmittedIsServed, EpochsInLine
  <2>3. CASE Room[x] # c
    BY <2>2, <2>3, <1>7, <1>8
  <2>4. CASE Room[x] = c
    <3>1. t.serving # n
      BY <2>1, <2>2, <2>4 DEF LineInv, DistinctEpochs
    <3> QED
      BY <2>1, <2>2, <2>4, <3>1, <1>5, <1>7, <1>8, <1>13 DEF AdvancesFrom
  <2> QED
    BY <2>3, <2>4
<1>18. NoHoleInLine'
  <2> SUFFICES ASSUME NEW d \in DOMAIN ledger'
               PROVE  /\ ledger'[d].finished \subseteq
                           (ledger'[d].serving + 1)..(ledger'[d].next_epoch - 1)
                      /\ \A k \in ledger'[d].serving..(ledger'[d].next_epoch - 1) :
                           k \in ledger'[d].finished \/ \E x \in Holders(d)' : epoch'[x] = k
    BY DEF NoHoleInLine
  <2>1. CASE d # c
    BY <2>1, <1>7, <1>8, <1>10 DEF LineInv, NoHoleInLine
  <2>2. CASE d = c
    <3>1. u.outstanding # 0 /\ ledger'[d] = u
      BY <2>2, <1>8
    <3>2. u.finished \subseteq (u.serving + 1)..(u.next_epoch - 1)
      <4>1. CASE t.serving = n
        BY <4>1, <1>1, <1>2, <1>5 DEF AdvancesFrom, ConversationTurns
      <4>2. CASE t.serving # n
        BY <4>2, <1>1, <1>2, <1>5 DEF AdvancesFrom, ConversationTurns
      <4> QED
        BY <4>1, <4>2
    <3>3. ASSUME NEW k \in u.serving..(u.next_epoch - 1)
          PROVE  k \in u.finished \/ \E x \in Holders(c)' : epoch[x] = k
      <4>1. CASE t.serving = n
        <5>1. k \in t.serving..(t.next_epoch - 1) /\ k # n /\ k \notin (n + 1)..(u.serving - 1)
          BY <4>1, <1>1, <1>5 DEF AdvancesFrom, ConversationTurns
        <5> QED
          BY <4>1, <5>1, <1>2, <1>5, <1>10 DEF AdvancesFrom
      <4>2. CASE t.serving # n
        BY <4>2, <1>2, <1>5, <1>10 DEF AdvancesFrom
      <4> QED
        BY <4>1, <4>2
    <3> QED
      BY <2>2, <3>1, <3>2, <3>3, <1>7
  <2> QED
    BY <2>1, <2>2
<1>19. CountsExact'
  <2> SUFFICES ASSUME NEW d \in DOMAIN ledger'
               PROVE  /\ IsFiniteSet(Holders(d)')
                      /\ ledger'[d].outstanding = Cardinality(Holders(d)')
                      /\ Holders(d)' # {}
                      /\ ledger'[d].admitted = IF AdmittedIn(d)' = {} THEN 0 ELSE 1
    BY DEF CountsExact
  <2>1. CASE d # c
    BY <2>1, <1>8, <1>10 DEF LineInv, CountsExact
  <2>2. CASE d = c
    <3>1. u.outstanding # 0 /\ ledger'[d] = u
      BY <2>2, <1>8
    <3>2. Holders(c)' # {}
      BY <3>1, <1>11, FS_EmptySet
    <3>3. u.admitted = IF AdmittedIn(c)' = {} THEN 0 ELSE 1
      <4>1. CASE wasAdmitted
        <5>1. AdmittedIn(c) = {b}
          BY <4>1, <1>3, RunsAlone DEF AdmittedIn
        <5> QED
          BY <4>1, <5>1, <1>3, <1>5, <1>10
      <4>2. CASE ~wasAdmitted
        BY <4>2, <1>3, <1>5, <1>10 DEF AdmittedIn
      <4> QED
        BY <4>1, <4>2
    <3> QED
      BY <2>2, <3>1, <3>2, <3>3, <1>11
  <2> QED
    BY <2>1, <2>2
<1> QED
  BY <1>14, <1>15, <1>16, <1>17, <1>18, <1>19 DEF LineInv

-----------------------------------------------------------------------------
(* The map after an admission: one more turn in flight in b's room. *)
LEMMA AdmitTurns ==
  ASSUME LedgerTypeOK, NEW b \in Batch, NEW w \in Window, AdmitTicket(b, w)
  PROVE  /\ DOMAIN ledger' = DOMAIN ledger
         /\ ledger' \in [DOMAIN ledger' -> ConversationTurns]
         /\ \A d \in DOMAIN ledger :
              /\ ledger'[d].serving = ledger[d].serving
              /\ ledger'[d].supersede = ledger[d].supersede
              /\ ledger'[d].next_epoch = ledger[d].next_epoch
              /\ ledger'[d].outstanding = ledger[d].outstanding
              /\ ledger'[d].finished = ledger[d].finished
              /\ ledger'[d].arrivals = ledger[d].arrivals
              /\ ledger'[d].admitted = IF d = Room[b] THEN ledger[d].admitted + 1
                                                     ELSE ledger[d].admitted
<1> DEFINE c == Room[b]
           u == [ledger[c] EXCEPT !.admitted = ledger[c].admitted + 1]
<1>1. c \in DOMAIN ledger /\ ledger' = [ledger EXCEPT ![c] = u]
  BY DEF AdmitTicket
<1>2. ledger[c] \in ConversationTurns
  BY <1>1 DEF LedgerTypeOK
<1>3. /\ u \in ConversationTurns /\ u.admitted = ledger[c].admitted + 1
      /\ u.serving = ledger[c].serving /\ u.supersede = ledger[c].supersede
      /\ u.next_epoch = ledger[c].next_epoch /\ u.outstanding = ledger[c].outstanding
      /\ u.finished = ledger[c].finished /\ u.arrivals = ledger[c].arrivals
  BY <1>2 DEF ConversationTurns
<1> HIDE DEF u
<1>4. DOMAIN ledger' = DOMAIN ledger /\ ledger'[c] = u
      /\ \A d \in DOMAIN ledger : d # c => ledger'[d] = ledger[d]
  BY <1>1
<1>5. ledger' \in [DOMAIN ledger' -> ConversationTurns]
  BY <1>1, <1>3 DEF LedgerTypeOK
<1> QED
  BY <1>3, <1>4, <1>5

LEMMA AdmitLine ==
  ASSUME LineInv, NEW b \in Batch, NEW w \in Window, AdmitTicket(b, w)
  PROVE  LineInv'
<1> DEFINE c == Room[b]
<1> USE DEF LineInv
<1>1. /\ DOMAIN ledger' = DOMAIN ledger
      /\ ledger' \in [DOMAIN ledger' -> ConversationTurns]
      /\ \A d \in DOMAIN ledger :
           /\ ledger'[d].serving = ledger[d].serving
           /\ ledger'[d].next_epoch = ledger[d].next_epoch
           /\ ledger'[d].outstanding = ledger[d].outstanding
           /\ ledger'[d].finished = ledger[d].finished
           /\ ledger'[d].admitted = IF d = c THEN ledger[d].admitted + 1 ELSE ledger[d].admitted
  BY AdmitTurns
<1>2. /\ stage[b] = "waiting" /\ c \in DOMAIN ledger /\ ledger[c].serving = epoch[b]
      /\ stage' = [stage EXCEPT ![b] = "running"] /\ epoch' = epoch
  BY DEF AdmitTicket, Served, ticketVars
<1>3. /\ \A x \in Batch : Live(x)' <=> Live(x)
      /\ \A x \in Batch : Admitted(x)' <=> Admitted(x) \/ x = b
      /\ Live(b) /\ ~Admitted(b)
  BY <1>2 DEF LedgerTypeOK, Live, Admitted
<1>4. /\ \A d : Holders(d)' = Holders(d)
      /\ AdmittedIn(c)' = AdmittedIn(c) \cup {b}
      /\ \A d : d # c => AdmittedIn(d)' = AdmittedIn(d)
  BY <1>3 DEF Holders, AdmittedIn
<1>5. AdmittedIn(c) = {}
  BY <1>2, <1>3 DEF AdmittedIn, AdmittedIsServed, DistinctEpochs, Live
<1>6. LedgerTypeOK'
  <2>1. First(ledger[c].arrivals).arrived_at \in Time \/ ledger[c].arrivals = {}
    <3>1. ledger[c].arrivals \subseteq Arrival
      BY <1>2 DEF LedgerTypeOK, ConversationTurns
    <3>2. ASSUME ledger[c].arrivals # {}
          PROVE  First(ledger[c].arrivals) \in ledger[c].arrivals
      <4> DEFINE E == {a.epoch : a \in ledger[c].arrivals}
      <4>1. E \subseteq Nat /\ E # {}
        BY <3>1, <3>2 DEF Arrival
      <4>2. PICK k \in E : \A y \in E : k <= y
        <5> HIDE DEF E
        <5> QED BY <4>1, LeastNatural
      <4>3. \E a \in ledger[c].arrivals : \A x \in ledger[c].arrivals : a.epoch <= x.epoch
        BY <4>2
      <4> QED
        BY <4>3 DEF First
    <3> QED
      BY <3>1, <3>2 DEF Arrival
  <2>2. BurstStart(b) \in Time
    BY <2>1 DEF BurstStart, LedgerTypeOK
  <2>3. burstStartedAt' \in [Batch -> Time]
    BY <2>2 DEF LedgerTypeOK, AdmitTicket
  <2>4. window' \in [Batch -> Window] /\ armed' \in [Batch -> BOOLEAN]
    BY DEF LedgerTypeOK, AdmitTicket
  <2> QED
    BY <1>1, <1>2, <2>3, <2>4 DEF LedgerTypeOK, AdmitTicket, ticketVars, State
<1>7. EpochsInLine'
  BY <1>1, <1>2, <1>3 DEF EpochsInLine
<1>8. DistinctEpochs'
  BY <1>2, <1>3 DEF DistinctEpochs
<1>9. AdmittedIsServed'
  BY <1>1, <1>2, <1>3 DEF AdmittedIsServed, EpochsInLine, Live
<1>10. NoHoleInLine'
  BY <1>1, <1>2, <1>4 DEF NoHoleInLine
<1>11. CountsExact'
  BY <1>1, <1>4, <1>5 DEF CountsExact
<1> QED
  BY <1>6, <1>7, <1>8, <1>9, <1>10, <1>11

(* A poll of the supersession handle leaves the line alone. *)
LEMMA PollLine ==
  ASSUME LineInv, NEW b \in Batch, NEW now \in Time, Disarm(b, now) \/ Yield(b, now)
  PROVE  LineInv'
<1> USE DEF LineInv
<1>1. ledger' = ledger /\ epoch' = epoch
  BY DEF Disarm, Yield, ticketVars
<1>2. /\ \A x \in Batch : Live(x)' <=> Live(x)
      /\ \A x \in Batch : Admitted(x)' <=> Admitted(x)
  BY DEF Disarm, Yield, LedgerTypeOK, Live, Admitted
<1>3. \A d : Holders(d)' = Holders(d) /\ AdmittedIn(d)' = AdmittedIn(d)
  BY <1>2 DEF Holders, AdmittedIn
<1>4. LedgerTypeOK'
  BY <1>1 DEF LedgerTypeOK, Disarm, Yield, ticketVars, handleVars, State
<1>5. EpochsInLine' /\ DistinctEpochs' /\ AdmittedIsServed'
  BY <1>1, <1>2 DEF EpochsInLine, DistinctEpochs, AdmittedIsServed
<1>6. NoHoleInLine' /\ CountsExact'
  BY <1>1, <1>3 DEF NoHoleInLine, CountsExact
<1> QED
  BY <1>4, <1>5, <1>6

-----------------------------------------------------------------------------
(* Somebody stands for every burst. *)
BurstInv == StampsInOrder /\ SomebodyStands /\ NewestNeverYields

(* A new batch stands for its room from the moment it arrives. *)
LEMMA ArriveBurst ==
  ASSUME LedgerInv, NEW b \in Batch, NEW now \in Time, Arrive(b, now)
  PROVE  BurstInv'
<1> DEFINE c == Room[b]
           e == Entry(c)
           t == Join(e, now)
<1> USE DEF LedgerInv
<1>1. e \in ConversationTurns
  BY EntryType DEF LineInv
<1>2. t.supersede = e.next_epoch
  BY <1>1, JoinFacts
<1>3. /\ DOMAIN ledger' = DOMAIN ledger \cup {c}
      /\ ledger'[c] = t
      /\ \A d \in DOMAIN ledger : d # c => ledger'[d] = ledger[d]
  BY DEF Arrive, Put
<1>4. /\ stage[b] = "new" /\ stage'[b] = "waiting"
      /\ epoch'[b] = e.next_epoch /\ stamp'[b] = arrived + 1 /\ arrived' = arrived + 1
      /\ \A x \in Batch : x # b => /\ stage'[x] = stage[x] /\ epoch'[x] = epoch[x]
                                   /\ stamp'[x] = stamp[x]
  BY DEF Arrive, LineInv, LedgerTypeOK
<1>5. arrived \in Nat /\ \A x \in Batch : stamp[x] \in Nat /\ stamp[x] <= arrived
  BY DEF LineInv, LedgerTypeOK, StampsInOrder
<1>6. StampsInOrder'
  BY <1>4, <1>5 DEF StampsInOrder
<1>7. SomebodyStands'
  <2> SUFFICES ASSUME NEW d \in DOMAIN ledger' PROVE \E n \in Batch : Stands(n, d)'
    BY DEF SomebodyStands
  <2>1. CASE d = c
    <3>1. \A x \in Batch : x # b => stamp'[x] < stamp'[b]
      BY <1>4, <1>5
    <3>2. \A x \in Holders(c)' : epoch'[x] < ledger'[c].supersede => stamp'[x] < stamp'[b]
      <4> SUFFICES ASSUME NEW x \in Batch, epoch'[x] < ledger'[c].supersede
                   PROVE  stamp'[x] < stamp'[b]
        BY DEF Holders
      <4>1. x # b
        BY <1>1, <1>2, <1>3, <1>4 DEF ConversationTurns
      <4> QED
        BY <3>1, <4>1
    <3>3. Stands(b, c)'
      BY <3>2, <1>2, <1>3, <1>4 DEF Stands
    <3> QED
      BY <2>1, <3>3
  <2>2. CASE d # c
    <3>1. d \in DOMAIN ledger /\ ledger'[d] = ledger[d]
      BY <2>2, <1>3
    <3>2. PICK n \in Batch : Stands(n, d)
      BY <3>1 DEF SomebodyStands
    <3>3. \A x \in Batch : Room[x] = d => x # b
      BY <2>2
    <3>4. \A x \in Batch : Room[x] = d => (Live(x)' <=> Live(x))
      BY <3>3, <1>4 DEF Live, Admitted
    <3>5. Holders(d)' = Holders(d)
      BY <3>4 DEF Holders
    <3>6. Room[n] = d
      BY <3>2 DEF Stands
    <3>7. Stands(n, d)'
      BY <3>1, <3>2, <3>3, <3>4, <3>5, <3>6, <1>4 DEF Stands, Holders
    <3> QED
      BY <3>7
  <2> QED
    BY <2>1, <2>2
<1>8. NewestNeverYields'
  BY <1>4 DEF NewestNeverYields
<1> QED
  BY <1>6, <1>7, <1>8 DEF BurstInv

(* A step that changes the state of b alone, and keeps every supersede     *)
(* level, keeps everybody standing who does not give way.                  *)
LEMMA KeepStanding ==
  ASSUME LedgerInv, NEW b \in Batch,
         NEW s \in State, stage' = [stage EXCEPT ![b] = s],
         UNCHANGED <<epoch, stamp>>,
         Live(b)' => Live(b),
         NEW d \in DOMAIN ledger, ledger'[d].supersede = ledger[d].supersede,
         NEW n \in Batch, Stands(n, d),
         n = b => s \notin {"new", "yielded", "superseded"}
  PROVE  Stands(n, d)'
<1>1. \A x \in Batch : x # b => stage'[x] = stage[x]
  BY DEF LedgerInv, LineInv, LedgerTypeOK
<1>2. stage'[b] = s
  BY DEF LedgerInv, LineInv, LedgerTypeOK
<1>3. \A x \in Batch : Live(x)' => Live(x)
  BY <1>1 DEF Live, Admitted
<1>4. Holders(d)' \subseteq Holders(d)
  BY <1>3 DEF Holders
<1>5. stage'[n] \notin {"new", "yielded", "superseded"}
  BY <1>1, <1>2 DEF Stands
<1> QED
  BY <1>3, <1>4, <1>5 DEF Stands, Holders

LEMMA AdmitBurst ==
  ASSUME LedgerInv, NEW b \in Batch, NEW w \in Window, AdmitTicket(b, w)
  PROVE  BurstInv'
<1>1. /\ stage[b] = "waiting" /\ stage' = [stage EXCEPT ![b] = "running"]
      /\ UNCHANGED <<epoch, stamp, arrived>>
  BY DEF AdmitTicket, ticketVars
<1>2. Live(b)
  BY <1>1 DEF Live
<1>3. DOMAIN ledger' = DOMAIN ledger /\ \A d \in DOMAIN ledger : ledger'[d].supersede = ledger[d].supersede
  BY AdmitTurns DEF LedgerInv, LineInv
<1>4. SomebodyStands'
  <2> SUFFICES ASSUME NEW d \in DOMAIN ledger PROVE \E n \in Batch : Stands(n, d)'
    BY <1>3 DEF SomebodyStands
  <2>1. PICK n \in Batch : Stands(n, d)
    BY DEF LedgerInv, SomebodyStands
  <2>2. Stands(n, d)'
    BY <1>1, <1>2, <1>3, <2>1, KeepStanding DEF State
  <2> QED
    BY <2>2
<1>5. StampsInOrder'
  BY <1>1 DEF LedgerInv, StampsInOrder
<1>6. NewestNeverYields'
  BY <1>1 DEF LedgerInv, LineInv, LedgerTypeOK, NewestNeverYields
<1> QED
  BY <1>4, <1>5, <1>6 DEF BurstInv

LEMMA DisarmBurst ==
  ASSUME LedgerInv, NEW b \in Batch, NEW now \in Time, Disarm(b, now)
  PROVE  BurstInv'
BY DEF LedgerInv, BurstInv, Disarm, ticketVars, StampsInOrder, SomebodyStands, Stands,
       NewestNeverYields, Holders, Live, Admitted

(* A turn yields only to a burst that somebody else stands for. *)
LEMMA YieldBurst ==
  ASSUME LedgerInv, NEW b \in Batch, NEW now \in Time, Yield(b, now)
  PROVE  BurstInv'
<1> DEFINE c == Room[b]
<1>1. /\ stage[b] = "running" /\ stage' = [stage EXCEPT ![b] = "yielded"]
      /\ c \in DOMAIN ledger /\ ledger[c].supersede > epoch[b]
      /\ UNCHANGED <<ledger, epoch, stamp, arrived>>
  BY DEF Yield, Superseded, ticketVars
<1>2. Live(b) /\ b \in Holders(c)
  BY <1>1 DEF Live, Admitted, Holders
<1>3. epoch[b] \in Nat /\ ledger[c].supersede \in Nat
  BY <1>1 DEF LedgerInv, LineInv, LedgerTypeOK, ConversationTurns
<1>4. PICK n \in Batch : Stands(n, c)
  BY <1>1 DEF LedgerInv, SomebodyStands
<1>5. n # b /\ stamp[b] < stamp[n] /\ Room[n] = c
      /\ stage[n] \notin {"new", "yielded", "superseded"}
  BY <1>1, <1>2, <1>3, <1>4 DEF Stands
<1>6. SomebodyStands'
  <2> SUFFICES ASSUME NEW d \in DOMAIN ledger PROVE \E x \in Batch : Stands(x, d)'
    BY <1>1 DEF SomebodyStands
  <2>1. PICK x \in Batch : Stands(x, d) /\ x # b
    <3>1. CASE d = c
      BY <3>1, <1>4, <1>5
    <3>2. CASE d # c
      BY <3>2 DEF LedgerInv, SomebodyStands, Stands
    <3> QED
      BY <3>1, <3>2
  <2>2. Stands(x, d)'
    BY <1>1, <1>2, <2>1, KeepStanding DEF State
  <2> QED
    BY <2>2
<1>7. StampsInOrder'
  BY <1>1 DEF LedgerInv, StampsInOrder
<1>8. NewestNeverYields'
  <2>1. \A x \in Batch : x # b => stage'[x] = stage[x]
    BY <1>1 DEF LedgerInv, LineInv, LedgerTypeOK
  <2> SUFFICES ASSUME NEW x \in Batch, stage'[x] \in {"yielded", "superseded"}
               PROVE  \E y \in Batch : Room[y] = Room[x] /\ stamp[y] > stamp[x]
                                       /\ stage'[y] \notin {"new", "yielded", "superseded"}
    BY <1>1 DEF NewestNeverYields
  <2>2. stamp[x] \in Nat /\ stamp[b] \in Nat /\ stamp[n] \in Nat
    BY DEF LedgerInv, LineInv, LedgerTypeOK
  <2>3. CASE x = b
    BY <2>1, <2>2, <2>3, <1>5
  <2>4. CASE x # b
    <3>1. PICK y \in Batch : Room[y] = Room[x] /\ stamp[y] > stamp[x]
                             /\ stage[y] \notin {"new", "yielded", "superseded"}
      BY <2>1, <2>4 DEF LedgerInv, NewestNeverYields
    <3>2. CASE y # b
      BY <3>1, <3>2, <2>1
    <3>3. CASE y = b
      BY <3>1, <3>3, <2>1, <2>2, <1>5
    <3> QED
      BY <3>2, <3>3
  <2> QED
    BY <2>3, <2>4
<1> QED
  BY <1>6, <1>7, <1>8 DEF BurstInv

LEMMA ExitBurst ==
  ASSUME LedgerInv, NEW b \in Batch, NEW wasAdmitted \in BOOLEAN, NEW superseded \in BOOLEAN,
         NEW fate \in {"completed", "superseded", "dropped"},
         Live(b), wasAdmitted <=> Admitted(b),
         fate = "superseded" <=> stage[b] = "yielded",
         Exit(b, wasAdmitted, superseded, fate)
  PROVE  BurstInv'
<1> DEFINE c == Room[b]
           u == Left(ledger[c], epoch[b], wasAdmitted, superseded)
<1>1. /\ stage' = [stage EXCEPT ![b] = fate]
      /\ UNCHANGED <<epoch, stamp, arrived>>
      /\ ledger' = IF u.outstanding = 0 THEN Without(c) ELSE Put(c, u)
      /\ c \in DOMAIN ledger
  BY DEF Exit, ticketVars
<1>2. u.supersede = ledger[c].supersede
  <2>1. /\ ledger[c] \in ConversationTurns /\ epoch[b] \in Nat
        /\ epoch[b] < ledger[c].next_epoch /\ ledger[c].next_epoch \notin ledger[c].finished
    BY <1>1 DEF LedgerInv, LineInv, LedgerTypeOK, EpochsInLine, NoHoleInLine, ConversationTurns
  <2>2. b \in Holders(c) /\ (wasAdmitted => b \in AdmittedIn(c))
    BY DEF Holders, AdmittedIn
  <2>3. ledger[c].outstanding > 0 /\ (wasAdmitted => ledger[c].admitted > 0)
    <3>1. ledger[c].outstanding # 0
      BY <1>1, <2>2, FS_EmptySet DEF LedgerInv, LineInv, CountsExact
    <3>2. wasAdmitted => ledger[c].admitted = 1
      BY <1>1, <2>2 DEF LedgerInv, LineInv, CountsExact
    <3> QED
      BY <2>1, <3>1, <3>2 DEF ConversationTurns
  <2> QED
    BY <2>1, <2>3, LeftFacts
<1> HIDE DEF u
<1>3. /\ DOMAIN ledger' \subseteq DOMAIN ledger
      /\ \A d \in DOMAIN ledger' : ledger'[d].supersede = ledger[d].supersede
  BY <1>1, <1>2 DEF Put, Without
<1>4. SomebodyStands'
  <2> SUFFICES ASSUME NEW d \in DOMAIN ledger' PROVE \E n \in Batch : Stands(n, d)'
    BY DEF SomebodyStands
  <2>1. PICK n \in Batch : Stands(n, d)
    BY <1>3 DEF LedgerInv, SomebodyStands
  <2>2. n = b => fate \notin {"new", "yielded", "superseded"}
    BY <2>1 DEF Stands
  <2>3. Stands(n, d)'
    BY <1>1, <1>3, <2>1, <2>2, KeepStanding DEF State
  <2> QED
    BY <2>3
<1>5. StampsInOrder'
  BY <1>1 DEF LedgerInv, StampsInOrder
<1>6. NewestNeverYields'
  <2>1. stage'[b] = fate /\ \A x \in Batch : x # b => stage'[x] = stage[x]
    BY <1>1 DEF LedgerInv, LineInv, LedgerTypeOK
  <2>2. \A x \in Batch : stage'[x] \in {"yielded", "superseded"}
                           => stage[x] \in {"yielded", "superseded"}
    BY <2>1
  <2>3. \A x \in Batch : stage[x] \notin {"new", "yielded", "superseded"}
                           => stage'[x] \notin {"new", "yielded", "superseded"}
    BY <2>1
  <2> QED
    BY <1>1, <2>2, <2>3 DEF LedgerInv, NewestNeverYields
<1> QED
  BY <1>4, <1>5, <1>6 DEF BurstInv

-----------------------------------------------------------------------------
(* The three ways out are exits of a live holder. *)
LEMMA ExitCases ==
  ASSUME NEW b \in Batch, Complete(b) \/ ExitSuperseded(b) \/ DropTicket(b)
  PROVE  \E wasAdmitted \in BOOLEAN, superseded \in BOOLEAN,
            fate \in {"completed", "superseded", "dropped"} :
           /\ Live(b)
           /\ wasAdmitted <=> Admitted(b)
           /\ fate = "superseded" <=> stage[b] = "yielded"
           /\ Exit(b, wasAdmitted, superseded, fate)
<1>1. CASE Complete(b)
  <2> WITNESS TRUE \in BOOLEAN, FALSE \in BOOLEAN,
              "completed" \in {"completed", "superseded", "dropped"}
  <2> QED
    BY <1>1 DEF Complete, Live, Admitted
<1>2. CASE ExitSuperseded(b)
  <2> WITNESS TRUE \in BOOLEAN, TRUE \in BOOLEAN,
              "superseded" \in {"completed", "superseded", "dropped"}
  <2> QED
    BY <1>2 DEF ExitSuperseded, Live, Admitted
<1>3. CASE DropTicket(b)
  <2> WITNESS FALSE \in BOOLEAN, FALSE \in BOOLEAN,
              "dropped" \in {"completed", "superseded", "dropped"}
  <2> QED
    BY <1>3 DEF DropTicket, Live, Admitted
<1> QED
  BY <1>1, <1>2, <1>3

LEMMA NextInv == LedgerInv /\ [LedgerNext]_ledgerVars => LedgerInv'
<1> SUFFICES ASSUME LedgerInv, [LedgerNext]_ledgerVars PROVE LedgerInv'
  OBVIOUS
<1>0. LineInv
  BY DEF LedgerInv
<1>1. ASSUME NEW b \in Batch, NEW now \in Time, Arrive(b, now) PROVE LedgerInv'
  BY <1>0, <1>1, ArriveLine, ArriveBurst DEF LedgerInv, BurstInv
<1>2. ASSUME NEW b \in Batch, NEW w \in Window, AdmitTicket(b, w) PROVE LedgerInv'
  BY <1>0, <1>2, AdmitLine, AdmitBurst DEF LedgerInv, BurstInv
<1>3. ASSUME NEW b \in Batch, NEW now \in Time, Disarm(b, now) PROVE LedgerInv'
  BY <1>0, <1>3, PollLine, DisarmBurst DEF LedgerInv, BurstInv
<1>4. ASSUME NEW b \in Batch, NEW now \in Time, Yield(b, now) PROVE LedgerInv'
  BY <1>0, <1>4, PollLine, YieldBurst DEF LedgerInv, BurstInv
<1>5. ASSUME NEW b \in Batch, Complete(b) \/ ExitSuperseded(b) \/ DropTicket(b)
      PROVE  LedgerInv'
  <2>1. PICK wasAdmitted \in BOOLEAN, superseded \in BOOLEAN,
            fate \in {"completed", "superseded", "dropped"} :
           /\ Live(b)
           /\ wasAdmitted <=> Admitted(b)
           /\ fate = "superseded" <=> stage[b] = "yielded"
           /\ Exit(b, wasAdmitted, superseded, fate)
    BY <1>5, ExitCases
  <2>2. LineInv'
    BY <1>0, <2>1, ExitLine
  <2>3. BurstInv'
    BY <2>1, ExitBurst
  <2> QED
    BY <2>2, <2>3 DEF LedgerInv, BurstInv
<1>6. CASE UNCHANGED ledgerVars
  <2> USE <1>6 DEF ledgerVars, ticketVars, handleVars, LedgerInv, LineInv
  <2>1. \A x \in Batch : (Live(x)' <=> Live(x)) /\ (Admitted(x)' <=> Admitted(x))
    BY DEF Live, Admitted
  <2>2. \A d : Holders(d)' = Holders(d) /\ AdmittedIn(d)' = AdmittedIn(d)
    BY <2>1 DEF Holders, AdmittedIn
  <2>3. LedgerTypeOK' /\ EpochsInLine' /\ DistinctEpochs' /\ AdmittedIsServed'
    BY <2>1 DEF LedgerTypeOK, EpochsInLine, DistinctEpochs, AdmittedIsServed
  <2>4. NoHoleInLine' /\ CountsExact'
    BY <2>2 DEF NoHoleInLine, CountsExact
  <2>5. \A n \in Batch, d \in DOMAIN ledger : Stands(n, d)' <=> Stands(n, d)
    BY <2>1, <2>2 DEF Stands
  <2>6. StampsInOrder' /\ SomebodyStands' /\ NewestNeverYields'
    BY <2>5 DEF StampsInOrder, SomebodyStands, NewestNeverYields
  <2> QED
    BY <2>3, <2>4, <2>6
<1> QED
  BY <1>1, <1>2, <1>3, <1>4, <1>5, <1>6 DEF LedgerNext

(* The inductive invariant holds in every reachable state of the ledger,   *)
(* however many rooms, batches, drops and supersessions there are.         *)
THEOREM LedgerInvariant == LedgerSpec => []LedgerInv
BY InitInv, NextInv, PTL DEF LedgerSpec

(* Type correctness of the ledger's map, tickets and handles; in           *)
(* particular neither usize count of an entry ever underflows.             *)
THEOREM LedgerTyped == LedgerSpec => []LedgerTypeOK
<1>1. LedgerInv => LedgerTypeOK
  BY DEF LedgerInv, LineInv
<1> QED
  BY <1>1, LedgerInvariant, PTL

(* At most one admitted turn per conversation: the slot of admit serializes. *)
THEOREM LedgerSerializes == LedgerSpec => []OneTurnAtATime
<1>1. LedgerInv => OneTurnAtATime
  BY RunsAlone DEF LedgerInv, OneTurnAtATime
<1> QED
  BY <1>1, LedgerInvariant, PTL

(* The counter exit advances always points at a live holder. *)
THEOREM LedgerNeverStalls == LedgerSpec => []CounterServesAHolder
<1>1. LedgerInv => CounterServesAHolder
  <2> SUFFICES ASSUME LedgerInv, NEW c \in DOMAIN ledger
               PROVE  \E b \in Holders(c) : epoch[b] = ledger[c].serving
    BY DEF CounterServesAHolder
  <2>1. PICK b \in Holders(c) : TRUE
    BY DEF LedgerInv, LineInv, CountsExact
  <2>2. ledger[c].serving <= epoch[b] /\ epoch[b] < ledger[c].next_epoch
    BY <2>1 DEF LedgerInv, LineInv, EpochsInLine, Holders
  <2>3. /\ epoch[b] \in Nat /\ ledger[c].serving \in Nat /\ ledger[c].next_epoch \in Nat
    BY <2>1 DEF LedgerInv, LineInv, LedgerTypeOK, Holders, ConversationTurns
  <2>4. ledger[c].serving \in ledger[c].serving..(ledger[c].next_epoch - 1)
        /\ ledger[c].serving \notin (ledger[c].serving + 1)..(ledger[c].next_epoch - 1)
    BY <2>2, <2>3
  <2> QED
    BY <2>4 DEF LedgerInv, LineInv, NoHoleInLine
<1> QED
  BY <1>1, LedgerInvariant, PTL

(* An entry of the map lives exactly as long as its holders, and its       *)
(* admitted count says whether a turn is in flight.                        *)
THEOREM LedgerEntryLifetime == LedgerSpec => []EntryLivesWithHolders
<1>1. LedgerInv => EntryLivesWithHolders
  BY DEF LedgerInv, LineInv, EntryLivesWithHolders, EpochsInLine, CountsExact
<1> QED
  BY <1>1, LedgerInvariant, PTL

(* The batch that arrived last in a room never gives way, so a superseded  *)
(* burst always has a successor.                                           *)
THEOREM LedgerNewestNeverYields == LedgerSpec => []NewestNeverYields
<1>1. LedgerInv => NewestNeverYields
  BY DEF LedgerInv
<1> QED
  BY <1>1, LedgerInvariant, PTL

-----------------------------------------------------------------------------
(* The origin of a burst.                                                  *)

LEMMA InitOrigin == LedgerInit => OriginInv
<1> SUFFICES ASSUME LedgerInit PROVE OriginInv
  OBVIOUS
<1>1. LedgerInv
  BY InitInv
<1>2. \A c : Pending(c) = {}
  BY DEF LedgerInit, Pending
<1>3. \A x \in Batch : ~InUse(x)
  BY <1>2 DEF LedgerInit, InUse, Live, Admitted
<1>4. ArrivalsArePending
  BY <1>2 DEF ArrivalsArePending, LedgerInit
<1>5. StampsTell /\ CompletedInOrder /\ EpochsFollowStamps
  BY <1>3 DEF StampsTell, CompletedInOrder, EpochsFollowStamps, LedgerInit
<1> QED
  BY <1>1, <1>4, <1>5 DEF OriginInv

(* The parts that OriginInv adds to LedgerInv. *)
OriginParts == ArrivalsArePending /\ StampsTell /\ EpochsFollowStamps /\ CompletedInOrder

(* A step that moves nobody into the line or out of it. *)
LEMMA KeepOrigin ==
  ASSUME OriginInv, UNCHANGED ticketVars,
         \A x \in Batch : /\ Live(x)' <=> Live(x)
                          /\ stage'[x] = "new" <=> stage[x] = "new"
                          /\ stage'[x] = "completed" <=> stage[x] = "completed"
                          /\ stage'[x] = "dropped" <=> stage[x] = "dropped",
         DOMAIN ledger' = DOMAIN ledger,
         \A d \in DOMAIN ledger : /\ ledger'[d].arrivals = ledger[d].arrivals
                                 /\ ledger'[d].next_epoch = ledger[d].next_epoch
  PROVE  OriginParts'
<1>0. UNCHANGED <<epoch, arrivedAt, stamp>>
  BY DEF ticketVars
<1>1. \A x \in Batch : Answered(x)' <=> Answered(x)
  BY <1>0 DEF Answered
<1>2. \A c : Pending(c)' = Pending(c)
  BY <1>1 DEF Pending
<1>3. \A x \in Batch : Record(x)' = Record(x)
  BY <1>0 DEF Record
<1>4. \A x \in Batch : InUse(x)' <=> InUse(x)
  BY <1>2 DEF InUse
<1>5. ArrivalsArePending'
  <2>1. \A c : {Record(x) : x \in Pending(c)}' = {Record(x) : x \in Pending(c)}
    BY <1>2, <1>3 DEF Pending
  <2> QED
    BY <1>2, <2>1 DEF OriginInv, ArrivalsArePending
<1>6. StampsTell'
  BY <1>0 DEF OriginInv, StampsTell
<1>7. EpochsFollowStamps'
  <2>1. \A x \in Batch : InUse(x)' /\ Room[x] \in DOMAIN ledger' =>
          epoch'[x] < ledger'[Room[x]].next_epoch
    BY <1>0, <1>4 DEF OriginInv, EpochsFollowStamps
  <2>2. \A x, y \in Batch :
          InUse(x)' /\ InUse(y)' /\ Room[x] = Room[y] =>
            ((stamp'[x] < stamp'[y]) <=> (epoch'[x] < epoch'[y]))
    BY <1>0, <1>4 DEF OriginInv, EpochsFollowStamps
  <2> QED
    BY <2>1, <2>2 DEF EpochsFollowStamps
<1>8. CompletedInOrder'
  BY <1>0 DEF OriginInv, CompletedInOrder
<1> QED
  BY <1>5, <1>6, <1>7, <1>8 DEF OriginParts

(* A new batch is pending, and later than all that are. *)
LEMMA ArriveOrigin ==
  ASSUME OriginInv, NEW b \in Batch, NEW now \in Time, Arrive(b, now)
  PROVE  OriginParts'
<1> DEFINE c == Room[b]
           e == Entry(c)
           t == Join(e, now)
<1>1. c \in Conversation /\ e \in ConversationTurns
  BY RoomAssumption, EntryType DEF OriginInv, LedgerInv, LineInv
<1>2. /\ t.next_epoch = e.next_epoch + 1 /\ e.next_epoch \in Nat
      /\ t.arrivals = e.arrivals \cup {[epoch |-> e.next_epoch, arrived_at |-> now]}
  BY <1>1, JoinFacts DEF ConversationTurns
<1>3. /\ DOMAIN ledger' = DOMAIN ledger \cup {c}
      /\ ledger'[c] = t
      /\ \A d \in DOMAIN ledger : d # c => ledger'[d] = ledger[d]
  BY DEF Arrive, Put
<1> HIDE DEF t
<1>4. /\ stage[b] = "new" /\ stage'[b] = "waiting"
      /\ epoch'[b] = e.next_epoch /\ stamp'[b] = arrived + 1 /\ arrivedAt'[b] = now
      /\ \A x \in Batch : x # b => /\ stage'[x] = stage[x] /\ epoch'[x] = epoch[x]
                                   /\ stamp'[x] = stamp[x] /\ arrivedAt'[x] = arrivedAt[x]
  BY DEF Arrive, OriginInv, LedgerInv, LineInv, LedgerTypeOK
<1>5. arrived \in Nat /\ \A x \in Batch : stamp[x] \in Nat /\ stamp[x] <= arrived /\ epoch[x] \in Nat
  BY DEF OriginInv, LedgerInv, LineInv, LedgerTypeOK, StampsInOrder
<1>6. /\ c \in DOMAIN ledger => e = ledger[c]
      /\ c \notin DOMAIN ledger => e.arrivals = {}
  BY DEF Entry, NewTurns
<1>7. \A x \in Batch : Answered(x)' <=> x # b /\ Answered(x)
  <2>1. ASSUME NEW x \in Batch, x # b PROVE Answered(x)' <=> Answered(x)
    BY <1>4, <2>1 DEF Answered
  <2>2. ~Answered(b)'
    BY <1>4, <1>5 DEF Answered
  <2> QED
    BY <2>1, <2>2
<1>8. Pending(c)' = Pending(c) \cup {b} /\ b \notin Pending(c)
      /\ \A d : d # c => Pending(d)' = Pending(d)
  BY <1>4, <1>7 DEF Pending
<1>9. \A x \in Batch : InUse(x)' <=> x = b \/ InUse(x)
  BY <1>4, <1>8 DEF InUse, Live, Admitted, Pending
<1>10. \A x \in Batch : x # b => Record(x)' = Record(x)
  BY <1>4 DEF Record
<1>11. Record(b)' = [epoch |-> e.next_epoch, arrived_at |-> now]
  BY <1>4 DEF Record
<1>12. \A x \in Batch : InUse(x) /\ Room[x] = c => c \in DOMAIN ledger /\ epoch[x] < e.next_epoch
  <2> SUFFICES ASSUME NEW x \in Batch, InUse(x), Room[x] = c
               PROVE  c \in DOMAIN ledger /\ epoch[x] < e.next_epoch
    OBVIOUS
  <2>1. c \in DOMAIN ledger
    <3>1. CASE Live(x)
      BY <3>1 DEF OriginInv, LedgerInv, LineInv, EpochsInLine
    <3>2. CASE x \in Pending(c)
      BY <3>2, <1>1 DEF OriginInv, ArrivalsArePending
    <3> QED
      BY <3>1, <3>2 DEF InUse
  <2> QED
    BY <2>1, <1>6 DEF OriginInv, EpochsFollowStamps
<1>13. ArrivalsArePending'
  <2> SUFFICES ASSUME NEW d \in Conversation
               PROVE  IF d \in DOMAIN ledger' THEN ledger'[d].arrivals = {Record(x)' : x \in Pending(d)'}
                                             ELSE Pending(d)' = {}
    BY DEF ArrivalsArePending
  <2>1. CASE d = c
    <3>1. e.arrivals = {Record(x) : x \in Pending(c)}
      BY <1>1, <1>6 DEF OriginInv, ArrivalsArePending
    <3>2. {Record(x)' : x \in Pending(c)'} = {Record(x) : x \in Pending(c)} \cup {Record(b)'}
      BY <1>8, <1>10 DEF Pending
    <3>3. ledger'[c].arrivals = {Record(x)' : x \in Pending(c)'}
      BY <1>2, <1>3, <1>11, <3>1, <3>2
    <3> QED
      BY <2>1, <1>3, <3>3
  <2>2. CASE d # c
    <3>1. Pending(d)' = Pending(d)
      BY <2>2, <1>8
    <3>2. \A x \in Pending(d) : x # b /\ x \in Batch
      BY <2>2 DEF Pending
    <3>3. {Record(x)' : x \in Pending(d)'} = {Record(x) : x \in Pending(d)}
      BY <1>10, <3>1, <3>2
    <3> QED
      BY <2>2, <1>3, <3>1, <3>3 DEF OriginInv, ArrivalsArePending
  <2> QED
    BY <2>1, <2>2
<1>14. StampsTell'
  BY <1>4, <1>5 DEF OriginInv, StampsTell
<1>15. EpochsFollowStamps'
  <2>1. ASSUME NEW x \in Batch, InUse(x)', Room[x] \in DOMAIN ledger'
        PROVE  epoch'[x] < ledger'[Room[x]].next_epoch
    <3>1. CASE x = b
      BY <3>1, <1>2, <1>3, <1>4
    <3>2. CASE x # b /\ Room[x] = c
      BY <3>2, <2>1, <1>2, <1>3, <1>4, <1>5, <1>9, <1>12
    <3>3. CASE x # b /\ Room[x] # c
      BY <3>3, <2>1, <1>3, <1>4, <1>9 DEF OriginInv, EpochsFollowStamps
    <3> QED
      BY <3>1, <3>2, <3>3
  <2>2. ASSUME NEW x \in Batch, NEW y \in Batch, InUse(x)', InUse(y)', Room[x] = Room[y]
        PROVE  (stamp'[x] < stamp'[y]) <=> (epoch'[x] < epoch'[y])
    <3>1. CASE x # b /\ y # b
      BY <3>1, <2>2, <1>4, <1>9 DEF OriginInv, EpochsFollowStamps
    <3>2. CASE x = b /\ y # b
      BY <3>2, <2>2, <1>2, <1>4, <1>5, <1>9, <1>12
    <3>3. CASE x # b /\ y = b
      BY <3>3, <2>2, <1>2, <1>4, <1>5, <1>9, <1>12
    <3>4. CASE x = b /\ y = b
      BY <3>4, <1>2, <1>4, <1>5
    <3> QED
      BY <3>1, <3>2, <3>3, <3>4
  <2> QED
    BY <2>1, <2>2 DEF EpochsFollowStamps
<1>16. CompletedInOrder'
  <2> SUFFICES ASSUME NEW x \in Batch, NEW y \in Batch, Live(x)', stage'[y] = "completed",
                      Room[x] = Room[y]
               PROVE  stamp'[y] < stamp'[x]
    BY DEF CompletedInOrder
  <2>1. y # b
    BY <1>4
  <2>2. CASE x = b
    BY <2>1, <2>2, <1>4, <1>5
  <2>3. CASE x # b
    BY <2>1, <2>3, <1>4 DEF OriginInv, CompletedInOrder, Live, Admitted
  <2> QED
    BY <2>2, <2>3
<1> QED
  BY <1>13, <1>14, <1>15, <1>16 DEF OriginParts

(* An exit answers the batches up to its own, unless it was superseded;    *)
(* the entry goes with its last holder, when none is left unanswered.      *)
LEMMA ExitOrigin ==
  ASSUME OriginInv, LedgerInv', NEW b \in Batch,
         NEW wasAdmitted \in BOOLEAN, NEW superseded \in BOOLEAN,
         NEW fate \in {"completed", "superseded", "dropped"},
         Live(b), wasAdmitted <=> Admitted(b),
         fate = "superseded" <=> superseded,
         fate = "completed" => stage[b] = "running",
         Exit(b, wasAdmitted, superseded, fate)
  PROVE  OriginParts'
<1> DEFINE c == Room[b]
           u == Left(ledger[c], epoch[b], wasAdmitted, superseded)
<1>1. /\ stage' = [stage EXCEPT ![b] = fate]
      /\ UNCHANGED <<epoch, arrivedAt, stamp>>
      /\ ledger' = IF u.outstanding = 0 THEN Without(c) ELSE Put(c, u)
      /\ c \in DOMAIN ledger
  BY DEF Exit, ticketVars
<1>2. /\ u.next_epoch = ledger[c].next_epoch
      /\ u.arrivals = IF superseded THEN ledger[c].arrivals
                                    ELSE {a \in ledger[c].arrivals : a.epoch > epoch[b]}
  <2>1. /\ ledger[c] \in ConversationTurns /\ epoch[b] \in Nat
        /\ epoch[b] < ledger[c].next_epoch /\ ledger[c].next_epoch \notin ledger[c].finished
    BY <1>1 DEF OriginInv, LedgerInv, LineInv, LedgerTypeOK, EpochsInLine, NoHoleInLine,
                ConversationTurns
  <2>2. b \in Holders(c) /\ (wasAdmitted => b \in AdmittedIn(c))
    BY DEF Holders, AdmittedIn
  <2>3. ledger[c].outstanding > 0 /\ (wasAdmitted => ledger[c].admitted > 0)
    <3>1. ledger[c].outstanding # 0
      BY <1>1, <2>2, FS_EmptySet DEF OriginInv, LedgerInv, LineInv, CountsExact
    <3>2. wasAdmitted => ledger[c].admitted = 1
      BY <1>1, <2>2 DEF OriginInv, LedgerInv, LineInv, CountsExact
    <3> QED
      BY <2>1, <3>1, <3>2 DEF ConversationTurns
  <2>4. u.arrivals = IF superseded THEN ledger[c].arrivals
                                   ELSE {a \in ledger[c].arrivals : a.epoch > epoch[b]}
    <3>1. PICK t \in ConversationTurns : t = ledger[c]
      BY <2>1
    <3>2. PICK n \in Nat : n = epoch[b]
      BY <2>1
    <3>3. /\ t.outstanding > 0 /\ (wasAdmitted => t.admitted > 0)
          /\ n < t.next_epoch /\ t.next_epoch \notin t.finished
      BY <2>1, <2>3, <3>1, <3>2
    <3>4. Left(t, n, wasAdmitted, superseded).arrivals =
            IF superseded THEN t.arrivals ELSE {a \in t.arrivals : a.epoch > n}
      BY <3>3, LeftArrivals
    <3> QED
      BY <3>1, <3>2, <3>4
  <2> QED
    BY <2>1, <2>3, <2>4, LeftFacts
<1> HIDE DEF u
<1>3. /\ \A d \in DOMAIN ledger : d # c => d \in DOMAIN ledger' /\ ledger'[d] = ledger[d]
      /\ c \in DOMAIN ledger' => ledger'[c] = u
      /\ DOMAIN ledger' \subseteq DOMAIN ledger
  BY <1>1 DEF Put, Without
<1>4. stage'[b] = fate /\ \A x \in Batch : x # b => stage'[x] = stage[x]
  BY <1>1 DEF OriginInv, LedgerInv, LineInv, LedgerTypeOK
<1>5. /\ \A x \in Batch : stamp[x] \in Nat /\ epoch[x] \in Nat
      /\ \A x \in Batch : stage[x] \in State
  BY DEF OriginInv, LedgerInv, LineInv, LedgerTypeOK
<1>6. stage[b] \in {"waiting", "running", "yielded"}
  BY DEF Live, Admitted
<1>7. /\ \A x \in Batch : Live(x)' <=> Live(x) /\ x # b
      /\ \A x \in Batch : stage'[x] = "new" <=> stage[x] = "new"
  BY <1>4, <1>6 DEF Live, Admitted
<1>8. \A x \in Batch : Answered(x)' <=>
        Answered(x) \/ (~superseded /\ Room[x] = c /\ stamp[x] <= stamp[b])
  <2>1. ASSUME NEW x \in Batch, Answered(x) PROVE Answered(x)'
    <3>1. PICK y \in Batch : /\ Room[y] = Room[x] /\ stamp[x] <= stamp[y]
                             /\ stage[y] \in {"completed", "dropped"}
      BY <2>1 DEF Answered
    <3>2. y # b
      BY <3>1, <1>6
    <3> QED
      BY <3>1, <3>2, <1>1, <1>4 DEF Answered
  <2>2. ASSUME NEW x \in Batch, ~superseded, Room[x] = c, stamp[x] <= stamp[b]
        PROVE  Answered(x)'
    BY <2>2, <1>1, <1>4 DEF Answered
  <2>3. ASSUME NEW x \in Batch, Answered(x)'
        PROVE  Answered(x) \/ (~superseded /\ Room[x] = c /\ stamp[x] <= stamp[b])
    <3>1. PICK y \in Batch : /\ Room[y] = Room[x] /\ stamp[x] <= stamp[y]
                             /\ stage'[y] \in {"completed", "dropped"}
      BY <2>3, <1>1 DEF Answered
    <3>2. CASE y = b
      BY <3>1, <3>2, <1>4
    <3>3. CASE y # b
      BY <3>1, <3>3, <1>4 DEF Answered
    <3> QED
      BY <3>2, <3>3
  <2> QED
    BY <2>1, <2>2, <2>3
<1>9. /\ \A d : d # c => Pending(d)' = Pending(d)
      /\ superseded => Pending(c)' = Pending(c)
      /\ ~superseded => Pending(c)' = {x \in Pending(c) : ~(stamp[x] <= stamp[b])}
  BY <1>7, <1>8 DEF Pending
<1>10. \A x \in Batch : Record(x)' = Record(x)
  BY <1>1 DEF Record
<1>11. \A x \in Batch : InUse(x)' => InUse(x)
  <2> SUFFICES ASSUME NEW x \in Batch, x \in Pending(Room[x])' PROVE x \in Pending(Room[x])
    BY <1>7 DEF InUse
  <2> QED
    BY <1>9
<1>12. InUse(b)
  BY DEF InUse
<1>13. \A x \in Pending(c) : (stamp[x] <= stamp[b]) <=> (epoch[x] <= epoch[b])
  <2> SUFFICES ASSUME NEW x \in Pending(c)
               PROVE  (stamp[x] <= stamp[b]) <=> (epoch[x] <= epoch[b])
    OBVIOUS
  <2>1. x \in Batch /\ Room[x] = Room[b] /\ InUse(x)
    BY DEF Pending, InUse
  <2>2. (stamp[b] < stamp[x]) <=> (epoch[b] < epoch[x])
    BY <1>12, <2>1 DEF OriginInv, EpochsFollowStamps
  <2> QED
    BY <1>5, <2>1, <2>2
<1>14. ArrivalsArePending'
  <2> SUFFICES ASSUME NEW d \in Conversation
               PROVE  IF d \in DOMAIN ledger' THEN ledger'[d].arrivals = {Record(x)' : x \in Pending(d)'}
                                             ELSE Pending(d)' = {}
    BY DEF ArrivalsArePending
  <2>1. CASE d # c
    <3>1. {Record(x)' : x \in Pending(d)'} = {Record(x) : x \in Pending(d)}
      BY <2>1, <1>9, <1>10 DEF Pending
    <3>2. d \in DOMAIN ledger' <=> d \in DOMAIN ledger
      BY <2>1, <1>3
    <3> QED
      BY <2>1, <3>1, <3>2, <1>3, <1>9 DEF OriginInv, ArrivalsArePending
  <2>2. CASE d = c /\ d \in DOMAIN ledger'
    <3>1. ledger[c].arrivals = {Record(x) : x \in Pending(c)}
      BY <2>2, <1>1 DEF OriginInv, ArrivalsArePending
    <3>2. u.arrivals = {Record(x)' : x \in Pending(c)'}
      <4>1. CASE superseded
        <5>1. {Record(x)' : x \in Pending(c)'} = {Record(x) : x \in Pending(c)}
          BY <4>1, <1>9, <1>10 DEF Pending
        <5> QED
          BY <4>1, <5>1, <3>1, <1>2
      <4>2. CASE ~superseded
        <5>1. u.arrivals = {a \in {Record(x) : x \in Pending(c)} : a.epoch > epoch[b]}
          BY <4>2, <3>1, <1>2
        <5>2. \A x \in Pending(c) : x \in Batch /\ Record(x).epoch = epoch[x]
          BY DEF Pending, Record
        <5>3. \A x \in Pending(c) : Record(x).epoch > epoch[b] <=> ~(stamp[x] <= stamp[b])
          BY <1>5, <1>13, <5>2
        <5>4. {a \in {Record(x) : x \in Pending(c)} : a.epoch > epoch[b]}
                = {Record(x) : x \in {y \in Pending(c) : ~(stamp[y] <= stamp[b])}}
          BY <5>3
        <5>5. {Record(x)' : x \in Pending(c)'}
                = {Record(x) : x \in {y \in Pending(c) : ~(stamp[y] <= stamp[b])}}
          BY <4>2, <1>9, <1>10, <5>2
        <5> QED
          BY <5>1, <5>4, <5>5
      <4> QED
        BY <4>1, <4>2
    <3> QED
      BY <2>2, <3>2, <1>3
  <2>3. CASE d = c /\ d \notin DOMAIN ledger'
    <3> SUFFICES ASSUME NEW x \in Pending(c)' PROVE FALSE
      BY <2>3
    <3>1. x \in Batch /\ Room[x] = c /\ stage'[x] # "new" /\ ~Answered(x)'
      BY DEF Pending
    <3>2. ~ \E y \in Batch : Live(y)' /\ Room[y] = c
      BY <2>3 DEF LedgerInv, LineInv, EpochsInLine
    <3>3. \A y \in Batch : stage'[y] \in State
      BY DEF LedgerInv, LineInv, LedgerTypeOK
    <3>4. stage'[x] \in {"completed", "dropped", "superseded"}
      BY <3>1, <3>2, <3>3 DEF State, Live, Admitted
    <3>5. stamp'[x] \in Nat
      BY <3>1, <1>1, <1>5
    <3>6. stage'[x] = "superseded"
      BY <3>1, <3>4, <3>5 DEF Answered
    <3>7. PICK y \in Batch : /\ Room[y] = c /\ stamp'[y] > stamp'[x]
                             /\ stage'[y] \notin {"new", "yielded", "superseded"}
      BY <3>1, <3>6 DEF LedgerInv, NewestNeverYields
    <3>8. stage'[y] \in {"completed", "dropped"}
      BY <3>2, <3>3, <3>7 DEF State, Live, Admitted
    <3>9. stamp'[x] <= stamp'[y]
      BY <3>1, <3>7, <1>1, <1>5
    <3> QED
      BY <3>1, <3>7, <3>8, <3>9 DEF Answered
  <2> QED
    BY <2>1, <2>2, <2>3
<1>15. StampsTell'
  BY <1>1, <1>7 DEF OriginInv, StampsTell
<1>16. EpochsFollowStamps'
  <2>1. ASSUME NEW x \in Batch, InUse(x)', Room[x] \in DOMAIN ledger'
        PROVE  epoch'[x] < ledger'[Room[x]].next_epoch
    <3>1. InUse(x) /\ Room[x] \in DOMAIN ledger /\ epoch[x] < ledger[Room[x]].next_epoch
      BY <2>1, <1>3, <1>11 DEF OriginInv, EpochsFollowStamps
    <3> QED
      BY <2>1, <3>1, <1>1, <1>2, <1>3
  <2>2. \A x, y \in Batch :
          InUse(x)' /\ InUse(y)' /\ Room[x] = Room[y] =>
            ((stamp'[x] < stamp'[y]) <=> (epoch'[x] < epoch'[y]))
    BY <1>1, <1>11 DEF OriginInv, EpochsFollowStamps
  <2> QED
    BY <2>1, <2>2 DEF EpochsFollowStamps
<1>17. CompletedInOrder'
  <2> SUFFICES ASSUME NEW x \in Batch, NEW y \in Batch, Live(x)', stage'[y] = "completed",
                      Room[x] = Room[y]
               PROVE  stamp[y] < stamp[x]
    BY <1>1 DEF CompletedInOrder
  <2>1. Live(x) /\ x # b
    BY <1>7
  <2>2. CASE y # b
    BY <2>1, <2>2, <1>4 DEF OriginInv, CompletedInOrder
  <2>3. CASE y = b
    <3>1. Admitted(b) /\ Room[b] \in DOMAIN ledger
      BY <2>3, <1>1, <1>4 DEF Admitted
    <3>2. epoch[b] = ledger[c].serving /\ ledger[c].serving <= epoch[x]
      BY <2>1, <2>3, <3>1 DEF OriginInv, LedgerInv, LineInv, AdmittedIsServed, EpochsInLine
    <3>3. epoch[b] # epoch[x]
      BY <2>1, <2>3 DEF OriginInv, LedgerInv, LineInv, DistinctEpochs
    <3>4. epoch[b] < epoch[x]
      BY <3>2, <3>3, <1>5
    <3>5. InUse(x)
      BY <2>1 DEF InUse
    <3> QED
      BY <2>3, <3>4, <3>5, <1>12 DEF OriginInv, EpochsFollowStamps
  <2> QED
    BY <2>2, <2>3
<1> QED
  BY <1>14, <1>15, <1>16, <1>17 DEF OriginParts

LEMMA NextOrigin == OriginInv /\ [LedgerNext]_ledgerVars => OriginInv'
<1> SUFFICES ASSUME OriginInv, [LedgerNext]_ledgerVars PROVE OriginInv'
  OBVIOUS
<1>0. LedgerInv /\ LedgerInv' /\ stage \in [Batch -> State] /\ LedgerTypeOK
  BY NextInv DEF OriginInv, LedgerInv, LineInv, LedgerTypeOK
<1> SUFFICES OriginParts'
  BY <1>0 DEF OriginInv, OriginParts
<1>1. ASSUME NEW b \in Batch, NEW now \in Time, Arrive(b, now) PROVE OriginParts'
  BY <1>1, ArriveOrigin
<1>2. ASSUME NEW b \in Batch, NEW w \in Window, AdmitTicket(b, w) PROVE OriginParts'
  <2>1. /\ DOMAIN ledger' = DOMAIN ledger
        /\ \A d \in DOMAIN ledger : /\ ledger'[d].arrivals = ledger[d].arrivals
                                   /\ ledger'[d].next_epoch = ledger[d].next_epoch
    BY <1>0, <1>2, AdmitTurns
  <2>2. UNCHANGED ticketVars /\ stage[b] = "waiting" /\ stage' = [stage EXCEPT ![b] = "running"]
    BY <1>2 DEF AdmitTicket
  <2>3. \A x \in Batch : /\ Live(x)' <=> Live(x)
                         /\ stage'[x] = "new" <=> stage[x] = "new"
                         /\ stage'[x] = "completed" <=> stage[x] = "completed"
                         /\ stage'[x] = "dropped" <=> stage[x] = "dropped"
    BY <1>0, <2>2 DEF Live, Admitted
  <2> QED
    BY <2>1, <2>2, <2>3, KeepOrigin
<1>3. ASSUME NEW b \in Batch, NEW now \in Time, Disarm(b, now) \/ Yield(b, now)
      PROVE  OriginParts'
  <2>1. UNCHANGED <<ledger, ticketVars>>
    BY <1>3 DEF Disarm, Yield
  <2>2. stage' = stage \/ (stage[b] = "running" /\ stage' = [stage EXCEPT ![b] = "yielded"])
    BY <1>3 DEF Disarm, Yield
  <2>3. \A x \in Batch : /\ Live(x)' <=> Live(x)
                         /\ stage'[x] = "new" <=> stage[x] = "new"
                         /\ stage'[x] = "completed" <=> stage[x] = "completed"
                         /\ stage'[x] = "dropped" <=> stage[x] = "dropped"
    BY <1>0, <2>2 DEF Live, Admitted
  <2> QED
    BY <2>1, <2>3, KeepOrigin
<1>4. ASSUME NEW b \in Batch, Complete(b) PROVE OriginParts'
  <2>1. Exit(b, TRUE, FALSE, "completed") /\ stage[b] = "running" /\ Live(b) /\ Admitted(b)
    BY <1>4 DEF Complete, Live, Admitted
  <2> QED
    BY <1>0, <2>1, ExitOrigin
<1>5. ASSUME NEW b \in Batch, ExitSuperseded(b) PROVE OriginParts'
  <2>1. Exit(b, TRUE, TRUE, "superseded") /\ Live(b) /\ Admitted(b)
    BY <1>5 DEF ExitSuperseded, Live, Admitted
  <2> QED
    BY <1>0, <2>1, ExitOrigin
<1>6. ASSUME NEW b \in Batch, DropTicket(b) PROVE OriginParts'
  <2>1. Exit(b, FALSE, FALSE, "dropped") /\ Live(b) /\ ~Admitted(b)
    BY <1>6 DEF DropTicket, Live, Admitted
  <2> QED
    BY <1>0, <2>1, ExitOrigin
<1>7. CASE UNCHANGED ledgerVars
  <2>1. UNCHANGED <<ledger, stage, ticketVars>>
    BY <1>7 DEF ledgerVars
  <2>2. \A x \in Batch : Live(x)' <=> Live(x)
    BY <2>1 DEF Live, Admitted
  <2> QED
    BY <2>1, <2>2, KeepOrigin
<1> QED
  BY <1>1, <1>2, <1>3, <1>4, <1>5, <1>6, <1>7 DEF LedgerNext

(* The arrivals of an entry are the batches nobody has answered, in the    *)
(* order they came, across removals of the entry and restarts of epochs.   *)
THEOREM LedgerOrigins == LedgerSpec => []OriginInv
BY InitOrigin, NextOrigin, PTL DEF LedgerSpec

(* arrivals.first(): the record of the least epoch. *)
LEMMA FirstFacts ==
  ASSUME NEW arrivals \in SUBSET Arrival, arrivals # {}
  PROVE  /\ First(arrivals) \in arrivals
         /\ \A x \in arrivals : First(arrivals).epoch <= x.epoch
<1> DEFINE E == {a.epoch : a \in arrivals}
<1>1. E \subseteq Nat /\ E # {}
  BY DEF Arrival
<1>2. PICK m \in E : \A n \in E : m <= n
  <2> HIDE DEF E
  <2> QED
    BY <1>1, LeastNatural
<1>3. \E a \in arrivals : \A x \in arrivals : a.epoch <= x.epoch
  BY <1>2
<1> QED
  BY <1>3 DEF First

(* The origin admit snapshots is the arrival of the oldest batch of the    *)
(* burst, provided no ticket behind the admitted one was dropped.          *)
LEMMA AdmitOrigin ==
  ASSUME OriginInv, NEW b \in Batch, NEW w \in Window, AdmitTicket(b, w), ~DroppedAfter(b)
  PROVE  \E x \in Unanswered(b) :
           /\ \A y \in Unanswered(b) : stamp[x] <= stamp[y]
           /\ burstStartedAt'[b] = arrivedAt[x]
<1> DEFINE c == Room[b]
           A == ledger[c].arrivals
<1>1. /\ stage[b] = "waiting" /\ c \in DOMAIN ledger /\ c \in Conversation
      /\ burstStartedAt' = [burstStartedAt EXCEPT ![b] = BurstStart(b)]
  BY RoomAssumption DEF AdmitTicket
<1>2. /\ burstStartedAt \in [Batch -> Time] /\ A \in SUBSET Arrival
      /\ \A x \in Batch : stamp[x] \in Nat /\ epoch[x] \in Nat
  BY <1>1 DEF OriginInv, LedgerInv, LineInv, LedgerTypeOK, ConversationTurns
<1>3. burstStartedAt'[b] = BurstStart(b)
  BY <1>1, <1>2
<1>4. A = {Record(x) : x \in Pending(c)}
  BY <1>1 DEF OriginInv, ArrivalsArePending
<1>5. Live(b) /\ InUse(b)
  BY <1>1 DEF Live, InUse
<1>6. ~Answered(b)
  <2> SUFFICES ASSUME NEW y \in Batch, Room[y] = c, stamp[b] <= stamp[y],
                      stage[y] \in {"completed", "dropped"}
               PROVE  FALSE
    BY DEF Answered
  <2>1. CASE stage[y] = "completed"
    BY <2>1, <1>2, <1>5 DEF OriginInv, CompletedInOrder
  <2>2. CASE stage[y] = "dropped"
    <3>1. stamp[y] # stamp[b]
      BY <2>2, <1>1 DEF OriginInv, StampsTell
    <3> QED
      BY <2>2, <3>1, <1>2 DEF DroppedAfter
  <2> QED
    BY <2>1, <2>2
<1>7. b \in Pending(c)
  BY <1>1, <1>6 DEF Pending
<1>8. A # {}
  BY <1>4, <1>7
<1>9. First(A) \in A /\ \A a \in A : First(A).epoch <= a.epoch
  <2> HIDE DEF A
  <2> QED
    BY <1>2, <1>8, FirstFacts
<1>10. PICK x \in Pending(c) : First(A) = Record(x)
  BY <1>4, <1>9
<1>11. BurstStart(b) = arrivedAt[x]
  BY <1>8, <1>10 DEF BurstStart, Record
<1>12. \A y \in Pending(c) : /\ y \in Batch /\ Room[y] = c /\ InUse(y) /\ stamp[y] > 0
                             /\ Record(y).epoch = epoch[y] /\ Record(y) \in A
  BY <1>2, <1>4 DEF Pending, InUse, Record, OriginInv, StampsTell
<1>13. \A y \in Pending(c) : epoch[x] <= epoch[y]
  BY <1>9, <1>10, <1>12
<1>14. \A y \in Pending(c) : stamp[x] <= stamp[y]
  <2> SUFFICES ASSUME NEW y \in Pending(c) PROVE stamp[x] <= stamp[y]
    OBVIOUS
  <2>1. (stamp[y] < stamp[x]) <=> (epoch[y] < epoch[x])
    BY <1>12 DEF OriginInv, EpochsFollowStamps
  <2> QED
    BY <2>1, <1>2, <1>12, <1>13
<1>15. x \in Unanswered(b)
  <2>1. stamp[x] <= stamp[b] /\ stamp[x] > 0
    BY <1>7, <1>12, <1>14
  <2> QED
    BY <2>1, <1>12 DEF Unanswered, Pending, Answered
<1>16. Unanswered(b) \subseteq Pending(c)
  <2> SUFFICES ASSUME NEW y \in Unanswered(b) PROVE y \in Pending(c)
    OBVIOUS
  <2>1. /\ y \in Batch /\ Room[y] = c /\ stamp[y] > 0 /\ stamp[y] <= stamp[b]
        /\ \A z \in Batch : /\ Room[z] = c /\ stamp[y] <= stamp[z] /\ stamp[z] < stamp[b]
                            => stage[z] \notin {"completed", "dropped"}
    BY DEF Unanswered
  <2>2. ~Answered(y)
    <3> SUFFICES ASSUME NEW z \in Batch, Room[z] = c, stamp[y] <= stamp[z],
                        stage[z] \in {"completed", "dropped"}
                 PROVE  FALSE
      BY <2>1 DEF Answered
    <3>1. stamp[b] <= stamp[z]
      BY <2>1, <1>2
    <3> QED
      BY <3>1, <1>6 DEF Answered
  <2>3. stage[y] # "new"
    BY <2>1, <1>2 DEF OriginInv, StampsTell
  <2> QED
    BY <2>1, <2>2, <2>3 DEF Pending
<1> QED
  BY <1>3, <1>11, <1>14, <1>15, <1>16

(* The supersede window is measured from the burst's oldest unanswered     *)
(* arrival, whoever took the slot in between, across superseded turns and  *)
(* new entries of the room, provided no ticket behind was dropped.         *)
THEOREM LedgerBurstOrigin == LedgerSpec => BurstOriginIsOldestUnanswered
<1> DEFINE A == \A b \in Batch :
                  stage[b] = "waiting" /\ stage'[b] = "running" /\ ~DroppedAfter(b) =>
                    \E x \in Unanswered(b) :
                      /\ \A y \in Unanswered(b) : stamp[x] <= stamp[y]
                      /\ burstStartedAt'[b] = arrivedAt[x]
<1>1. OriginInv /\ [LedgerNext]_ledgerVars => [A]_ledgerVars
  <2> SUFFICES ASSUME OriginInv, LedgerNext, NEW b \in Batch,
                      stage[b] = "waiting", stage'[b] = "running", ~DroppedAfter(b)
               PROVE  \E x \in Unanswered(b) :
                        /\ \A y \in Unanswered(b) : stamp[x] <= stamp[y]
                        /\ burstStartedAt'[b] = arrivedAt[x]
    OBVIOUS
  <2>0. stage \in [Batch -> State]
    BY DEF OriginInv, LedgerInv, LineInv, LedgerTypeOK
  <2>1. \E w \in Window : AdmitTicket(b, w)
    <3>1. ASSUME NEW x \in Batch, \/ \E now \in Time : Arrive(x, now) \/ Disarm(x, now) \/ Yield(x, now)
                                  \/ Complete(x) \/ ExitSuperseded(x) \/ DropTicket(x)
          PROVE  FALSE
      BY <2>0, <3>1 DEF Arrive, Disarm, Yield, Complete, ExitSuperseded, DropTicket, Exit
    <3>2. PICK x \in Batch, w \in Window : AdmitTicket(x, w)
      BY <3>1 DEF LedgerNext
    <3>3. x = b
      BY <2>0, <3>2 DEF AdmitTicket
    <3> QED
      BY <3>2, <3>3
  <2> QED
    BY <2>1, AdmitOrigin
<1>2. LedgerSpec => [][A]_ledgerVars
  BY <1>1, LedgerOrigins, PTL DEF LedgerSpec
<1> QED
  BY <1>2 DEF BurstOriginIsOldestUnanswered

-----------------------------------------------------------------------------
(* The refinement: each step of the ledger is a step of the abstract slot. *)

LEMMA InitSlot == LedgerInit => Slot!Init
BY DEF LedgerInit, Slot!Init, phaseBar, aheadBar, Live, Admitted

(* The mapped variables, batch by batch. *)
LEMMA BarFacts ==
  ASSUME NEW b \in Batch
  PROVE  /\ phaseBar[b] = IF stage[b] \in {"new", "waiting"} THEN stage[b]
                          ELSE IF Admitted(b) THEN "admitted" ELSE "left"
         /\ aheadBar[b] = {x \in Batch : Live(b) /\ Live(x) /\ Room[x] = Room[b]
                                         /\ epoch[x] < epoch[b]}
         /\ Slot!Present(b) <=> Live(b)
BY DEF phaseBar, aheadBar, Slot!Present, Live, Admitted

LEMMA ArriveSlot ==
  ASSUME LineInv, NEW b \in Batch, NEW now \in Time, Arrive(b, now)
  PROVE  Slot!Arrive(b)
<1> DEFINE c == Room[b]
           e == Entry(c)
<1>1. /\ stage[b] = "new" /\ stage' = [stage EXCEPT ![b] = "waiting"]
      /\ epoch' = [epoch EXCEPT ![b] = e.next_epoch]
  BY DEF Arrive
<1>2. /\ \A x \in Batch : x # b => stage'[x] = stage[x] /\ epoch'[x] = epoch[x]
      /\ stage'[b] = "waiting" /\ epoch'[b] = e.next_epoch
  BY <1>1 DEF LineInv, LedgerTypeOK
<1>3. /\ \A x \in Batch : Live(x)' <=> Live(x) \/ x = b
      /\ \A x \in Batch : x # b => (Admitted(x)' <=> Admitted(x))
      /\ ~Live(b) /\ ~Admitted(b)'
  BY <1>1, <1>2 DEF Live, Admitted
<1>4. \A x \in Batch : Live(x) /\ Room[x] = c => epoch[x] < e.next_epoch /\ epoch[x] \in Nat
  BY DEF LineInv, EpochsInLine, Entry, LedgerTypeOK
<1>5. e.next_epoch \in Nat
  BY EntryType DEF LineInv, ConversationTurns
<1>6. phaseBar' = [phaseBar EXCEPT ![b] = "waiting"]
  <2>1. ASSUME NEW x \in Batch
        PROVE  phaseBar'[x] = IF x = b THEN "waiting" ELSE phaseBar[x]
    BY <1>2, <1>3 DEF phaseBar
  <2>2. phaseBar = [x \in Batch |-> phaseBar[x]] /\ phaseBar' = [x \in Batch |-> phaseBar'[x]]
    BY DEF phaseBar
  <2> QED
    BY <2>1, <2>2
<1>7. aheadBar' = [aheadBar EXCEPT ![b] = {x \in Batch : Slot!Present(x) /\ Room[x] = Room[b]}]
  <2>1. ASSUME NEW y \in Batch, y # b
        PROVE  aheadBar'[y] = aheadBar[y]
    <3>1. ASSUME NEW x \in Batch
          PROVE  (Live(y) /\ Live(x) /\ Room[x] = Room[y] /\ epoch[x] < epoch[y])'
                 <=> Live(y) /\ Live(x) /\ Room[x] = Room[y] /\ epoch[x] < epoch[y]
      <4>1. CASE x # b
        BY <2>1, <4>1, <1>2, <1>3
      <4>2. CASE x = b
        BY <2>1, <4>2, <1>2, <1>3, <1>4, <1>5
      <4> QED
        BY <4>1, <4>2
    <3> QED
      BY <3>1 DEF aheadBar
  <2>2. aheadBar'[b] = {x \in Batch : Slot!Present(x) /\ Room[x] = Room[b]}
    <3>1. ASSUME NEW x \in Batch
          PROVE  (Live(b) /\ Live(x) /\ Room[x] = Room[b] /\ epoch[x] < epoch[b])'
                 <=> Slot!Present(x) /\ Room[x] = Room[b]
      <4>1. Slot!Present(x) <=> Live(x)
        BY BarFacts
      <4>2. CASE x # b
        BY <4>1, <4>2, <1>2, <1>3, <1>4
      <4>3. CASE x = b
        BY <4>1, <4>3, <1>2, <1>3, <1>5
      <4> QED
        BY <4>2, <4>3
    <3> QED
      BY <3>1 DEF aheadBar
  <2>3. aheadBar = [y \in Batch |-> aheadBar[y]] /\ aheadBar' = [y \in Batch |-> aheadBar'[y]]
    BY DEF aheadBar
  <2> QED
    BY <2>1, <2>2, <2>3
<1>8. phaseBar[b] = "new"
  BY <1>1, BarFacts
<1> QED
  BY <1>6, <1>7, <1>8 DEF Slot!Arrive

LEMMA AdmitSlot ==
  ASSUME LineInv, NEW b \in Batch, NEW w \in Window, AdmitTicket(b, w)
  PROVE  Slot!Admit(b)
<1>1. /\ stage[b] = "waiting" /\ stage' = [stage EXCEPT ![b] = "running"]
      /\ Room[b] \in DOMAIN ledger /\ ledger[Room[b]].serving = epoch[b] /\ epoch' = epoch
  BY DEF AdmitTicket, Served, ticketVars
<1>2. /\ \A x \in Batch : x # b => stage'[x] = stage[x]
      /\ stage'[b] = "running"
  BY <1>1 DEF LineInv, LedgerTypeOK
<1>3. \A x \in Batch : Live(x)' <=> Live(x)
  BY <1>1, <1>2 DEF Live, Admitted
<1>4. phaseBar' = [phaseBar EXCEPT ![b] = "admitted"]
  BY <1>2 DEF phaseBar, Admitted
<1>5. aheadBar' = aheadBar
  BY <1>1, <1>3 DEF aheadBar
<1>6. aheadBar[b] = {}
  <2>1. \A x \in Batch : Live(x) /\ Room[x] = Room[b] => ~(epoch[x] < epoch[b])
    BY <1>1 DEF LineInv, EpochsInLine, LedgerTypeOK, ConversationTurns
  <2> QED
    BY <2>1, BarFacts
<1>7. phaseBar[b] = "waiting"
  BY <1>1, BarFacts
<1> QED
  BY <1>4, <1>5, <1>6, <1>7 DEF Slot!Admit

LEMMA PollSlot ==
  ASSUME LineInv, NEW b \in Batch, NEW now \in Time, Disarm(b, now) \/ Yield(b, now)
  PROVE  UNCHANGED Slot!vars
<1>1. epoch' = epoch /\ \A x \in Batch : stage'[x] = stage[x] \/ x = b
  BY DEF Disarm, Yield, ticketVars, LineInv, LedgerTypeOK
<1>2. Admitted(b) /\ Admitted(b)' /\ stage[b] = "running" /\ stage'[b] \in {"running", "yielded"}
  BY DEF Disarm, Yield, Admitted, LineInv, LedgerTypeOK
<1>3. \A x \in Batch : Live(x)' <=> Live(x)
  BY <1>1, <1>2 DEF Live, Admitted
<1>4. aheadBar' = aheadBar
  BY <1>1, <1>3 DEF aheadBar
<1>5. phaseBar' = phaseBar
  BY <1>1, <1>2 DEF phaseBar, Admitted
<1> QED
  BY <1>4, <1>5 DEF Slot!vars

LEMMA ExitSlot ==
  ASSUME LineInv, NEW b \in Batch, NEW wasAdmitted \in BOOLEAN, NEW superseded \in BOOLEAN,
         NEW fate \in {"completed", "superseded", "dropped"},
         Live(b), Exit(b, wasAdmitted, superseded, fate)
  PROVE  Slot!Leave(b)
<1>1. stage' = [stage EXCEPT ![b] = fate] /\ epoch' = epoch
  BY DEF Exit, ticketVars
<1>2. stage'[b] = fate /\ \A x \in Batch : x # b => stage'[x] = stage[x]
  BY <1>1 DEF LineInv, LedgerTypeOK
<1>3. \A x \in Batch : Live(x)' <=> Live(x) /\ x # b
  BY <1>2 DEF Live, Admitted
<1>4. phaseBar' = [phaseBar EXCEPT ![b] = "left"]
  BY <1>2 DEF phaseBar, Admitted
<1>5. aheadBar' = [x \in Batch |-> IF x = b THEN {} ELSE aheadBar[x] \ {b}]
  <2>1. ASSUME NEW x \in Batch
        PROVE  aheadBar'[x] = IF x = b THEN {} ELSE aheadBar[x] \ {b}
    BY <1>1, <1>3 DEF aheadBar
  <2> QED
    BY <2>1 DEF aheadBar
<1>6. Slot!Present(b)
  BY BarFacts
<1> QED
  BY <1>4, <1>5, <1>6 DEF Slot!Leave

LEMMA NextSlot == LedgerInv /\ [LedgerNext]_ledgerVars => [Slot!Next]_(Slot!vars)
<1> SUFFICES ASSUME LedgerInv, [LedgerNext]_ledgerVars PROVE [Slot!Next]_(Slot!vars)
  OBVIOUS
<1>0. LineInv
  BY DEF LedgerInv
<1>1. ASSUME NEW b \in Batch, NEW now \in Time, Arrive(b, now) PROVE Slot!Next
  BY <1>0, <1>1, ArriveSlot DEF Slot!Next
<1>2. ASSUME NEW b \in Batch, NEW w \in Window, AdmitTicket(b, w) PROVE Slot!Next
  BY <1>0, <1>2, AdmitSlot DEF Slot!Next
<1>3. ASSUME NEW b \in Batch, NEW now \in Time, Disarm(b, now) \/ Yield(b, now)
      PROVE  UNCHANGED Slot!vars
  BY <1>0, <1>3, PollSlot
<1>4. ASSUME NEW b \in Batch, Complete(b) \/ ExitSuperseded(b) \/ DropTicket(b)
      PROVE  Slot!Next
  BY <1>0, <1>4, ExitCases, ExitSlot DEF Slot!Next
<1>5. CASE UNCHANGED ledgerVars
  BY <1>5 DEF ledgerVars, ticketVars, Slot!vars, phaseBar, aheadBar, Live, Admitted
<1> QED
  BY <1>1, <1>2, <1>3, <1>4, <1>5 DEF LedgerNext

(* The ledger implements the abstract slot: admission is in arrival order, *)
(* one at a time, and whoever leaves stops blocking everybody else.        *)
THEOREM LedgerImplementsSlot == LedgerSpec => ImplementsTurnSlot
BY InitSlot, NextSlot, LedgerInvariant, PTL DEF LedgerSpec, ImplementsTurnSlot, Slot!Spec
=============================================================================
