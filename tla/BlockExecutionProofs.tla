------------------------ MODULE BlockExecutionProofs ------------------------
(***************************************************************************)
(* Proofs that blocks are serialisable in log order, leave no guard behind *)
(* and never repeat a tool call, for any conversations, memories and       *)
(* classes, script operations, attempts and bounds.                        *)
(***************************************************************************)
EXTENDS BlockExecution, FiniteSetTheorems, SequenceTheorems, WellFoundedInduction, TLAPS

-----------------------------------------------------------------------------
(* The inductive invariant.                                                *)

(* The lock set of a block is where it leads the queue; a place in a queue *)
(* is a guard of its block or one it waits for; and only an operation that *)
(* collects its locks waits.                                               *)
LockInv ==
    /\ \A c \in Conversation :
          /\ pc[c] # "lock" => want[c] = {}
          /\ pc[c] = "idle" => api[c] = FreshApi
          /\ want[c] \cap api[c].held = {}
          /\ \A m \in api[c].held : Len(queue[m]) > 0 /\ queue[m][1] = c
    /\ \A m \in Stubs :
          /\ IsInjective(queue[m])
          /\ \A i \in DOMAIN queue[m] :
                m \in api[queue[m][i]].held \cup want[queue[m][i]]

(* An operation under way holds or wants its memory; one that reads, the   *)
(* whole class of it.                                                      *)
OpInv ==
    \A c \in Conversation : pc[c] = "lock" =>
        /\ op[c] \in Operation
        /\ op[c].mem \in api[c].held \cup want[c]
        /\ op[c].kind = "read" => Class(op[c].mem) \subseteq api[c].held \cup want[c]

(* A block holds the memories it wrote through, and the classes it read.   *)
HoldInv ==
    \A c \in Conversation : pc[c] \in Evaluating =>
        /\ \A i \in DOMAIN api[c].buf : api[c].buf[i].kind = "entry" =>
              \E x \in api[c].held : api[c].buf[i].mem = Primary[x]
        /\ \A m \in DOMAIN api[c].seen : Class(m) \subseteq api[c].held

(* The tool calls of a block are those of its attempt, the latch is set    *)
(* when there are any, and an instance in mid-call is never kept.          *)
EffectInv ==
    \A c \in Conversation :
        /\ ~desynced[c]
        /\ effects[c] \subseteq {attempt[c]}
        /\ effects[c] # {} => mcp[c].made
        /\ pc[c] = "idle" => effects[c] = {}
        /\ pc[c] # "idle" => attempt[c] >= 1

(* What a block has read is what agents have written, and what they wrote  *)
(* past the graph's head is of blocks that fold it with their locks held.  *)
SeenInv ==
    \A c \in Conversation : pc[c] \in Evaluating =>
        \A m \in DOMAIN api[c].seen :
            ByAgents(api[c].seen[m]) = ByAgents(Entries(log, Len(log), m))

LateInv ==
    \A i \in head + 1 .. Len(log) : log[i].kind = "entry" /\ log[i].by = "agent" =>
        \E c \in Conversation :
            pc[c] = "fold" /\ \E x \in api[c].held : log[i].mem = Primary[x]

BlockInv ==
    /\ TypeOK /\ LockInv /\ OpInv /\ HoldInv /\ EffectInv
    /\ NamesAreUnique => SeenInv /\ LateInv

-----------------------------------------------------------------------------
(* Lemmas about the operators of the model.                                *)

(* The constants, as the proofs use them. *)
LEMMA Constants ==
  /\ \A m \in Stubs : Primary[m] \in Stubs /\ Primary[Primary[m]] = Primary[m]
  /\ MaxBlocks \in Nat /\ MaxOps \in Nat /\ MaxForeign \in Nat
  /\ MaxAttempts \in Nat /\ MaxAttempts >= 1
  BY BlockAssumption

(* A class is that of each of its members, and a write through one lands   *)
(* in it.                                                                  *)
LEMMA ClassFacts ==
  /\ \A m \in Stubs : m \in Class(m) /\ Class(m) \subseteq Stubs
  /\ \A m \in Stubs : \A x \in Class(m) : Class(x) = Class(m)
  /\ \A m \in Stubs, x \in Stubs : Primary[x] = m => x \in Class(m)
  /\ \A m \in Stubs, x \in Stubs : Primary[x] \in Class(m) => x \in Class(m)
  BY Constants DEF Class

(* A set of numbers that is not empty has its Min: the first event that    *)
(* cannot be folded.                                                       *)
LEMMA MinOf ==
  ASSUME NEW S \in SUBSET Nat, S # {}
  PROVE  Min(S) \in S /\ \A y \in S : Min(S) <= y
<1>1. PICK R : R = OpToRel(<, Nat)
  OBVIOUS
<1>2. IsWellFoundedOn(R, Nat) /\ \A x, y \in Nat : <<x, y>> \in R <=> x < y
  <2>1. IsWellFoundedOn(R, Nat)
    BY <1>1, NatLessThanWellFounded
  <2>2. R = {ss \in Nat \X Nat : ss[1] < ss[2]}
    BY <1>1 DEF OpToRel
  <2> QED
    BY <2>1, <2>2
<1>3. PICK x \in S : \A y \in S : ~(<<y, x>> \in R)
  <2>1. S \subseteq Nat /\ IsWellFoundedOn(R, Nat)
    BY <1>2
  <2>2. \E x \in S : \A y \in S : ~(<<y, x>> \in R)
    BY <2>1, WFMin, Zenon
  <2> QED
    BY <2>2
<1>4. \A y \in S : x =< y
  <2>1. SUFFICES ASSUME NEW y \in S PROVE x =< y
    OBVIOUS
  <2>2. x \in Nat /\ y \in Nat /\ ~(<<y, x>> \in R)
    BY <1>3
  <2>3. ~(y < x)
    BY <1>2, <2>2
  <2> QED
    BY <2>2, <2>3
<1> QED
  BY <1>4 DEF Min

(* The head never goes back and never passes the log; and it reaches the   *)
(* end of a log whose names are unique.                                    *)
LEMMA MaterializedFacts ==
  ASSUME NEW l, NEW from \in Nat, Len(l) \in Nat, from <= Len(l)
  PROVE  /\ Materialized(l, from) \in from .. Len(l)
         /\ (\A i \in 1 .. Len(l) : ~Collides(l, i)) => Materialized(l, from) = Len(l)
<1>1. PICK F : F = {i \in (from + 1) .. Len(l) : Collides(l, i)}
  OBVIOUS
<1>2. Materialized(l, from) = IF F = {} THEN Len(l) ELSE Min(F) - 1
  BY <1>1 DEF Materialized
<1>3. F \in SUBSET Nat /\ \A i \in F : i \in (from + 1) .. Len(l) /\ Collides(l, i)
  BY <1>1
<1>4. CASE F = {}
  BY <1>2, <1>4
<1>5. CASE F # {}
  <2>1. Min(F) \in F
    BY <1>3, <1>5, MinOf
  <2>2. Min(F) \in (from + 1) .. Len(l) /\ Collides(l, Min(F)) /\ Min(F) \in 1 .. Len(l)
    <3>1. PICK x : x = Min(F)
      OBVIOUS
    <3>2. x \in (from + 1) .. Len(l) /\ Collides(l, x)
      BY <1>3, <2>1, <3>1
    <3>3. x \in 1 .. Len(l)
      BY <3>2
    <3> QED
      BY <3>1, <3>2, <3>3
  <2> QED
    BY <1>2, <1>5, <2>2
<1> QED
  BY <1>4, <1>5

(* Whether an event collides depends on nothing after it, so a log with    *)
(* unique names had them before it grew.                                   *)
LEMMA CollidesPrefix ==
  ASSUME NEW l, NEW k, NEW i \in Nat, i >= 1, \A j \in 1 .. i : l[j] = k[j]
  PROVE  Collides(l, i) <=> Collides(k, i)
<1>1. l[i] = k[i]
  OBVIOUS
<1>2. ASSUME NEW n PROVE Bearers(l, i - 1, n) = Bearers(k, i - 1, n)
  <2>1. \A j \in 1 .. i - 1 : l[j] = k[j]
    OBVIOUS
  <2>2. \A j \in 1 .. i - 1 : \A h \in (j + 1) .. (i - 1) : l[h] = k[h]
    OBVIOUS
  <2>3. PICK J : J = {j \in 1 .. i - 1 :
                        /\ l[j].kind = "name" /\ l[j].name = n
                        /\ \A h \in (j + 1) .. (i - 1) : ~(l[h].kind = "name" /\ l[h].mem = l[j].mem)}
    OBVIOUS
  <2>4. J = {j \in 1 .. i - 1 :
               /\ k[j].kind = "name" /\ k[j].name = n
               /\ \A h \in (j + 1) .. (i - 1) : ~(k[h].kind = "name" /\ k[h].mem = k[j].mem)}
    BY <2>1, <2>2, <2>3
  <2>5. Bearers(l, i - 1, n) = {l[j].mem : j \in J} /\ Bearers(k, i - 1, n) = {k[j].mem : j \in J}
    BY <2>3, <2>4 DEF Bearers
  <2>6. \A j \in J : l[j].mem = k[j].mem
    BY <2>1, <2>3
  <2>7. {l[j].mem : j \in J} = {k[j].mem : j \in J}
    BY <2>6
  <2> QED
    BY <2>5, <2>7
<1> QED
  BY <1>1, <1>2 DEF Collides

(* What a release does to a queue: the block is gone, the others stay in   *)
(* order, and who led leads.                                               *)
LEMMA WithoutFacts ==
  ASSUME NEW S, NEW q \in Seq(S), IsInjective(q), NEW c
  PROVE  LET w == Dropping(q, c)
         IN  /\ w \in Seq(S) /\ IsInjective(w)
             /\ \A i \in DOMAIN w : w[i] # c /\ \E j \in DOMAIN q : q[j] = w[i]
             /\ (Len(q) > 0 /\ q[1] # c) => Len(w) > 0 /\ w[1] = q[1]
<1>1. CASE c \notin Range(q)
  BY <1>1 DEF Dropping, Range
<1>2. CASE c \in Range(q)
  <2>1. PICK i : i = CHOOSE j \in DOMAIN q : q[j] = c
    OBVIOUS
  <2>2. i \in DOMAIN q /\ q[i] = c
    <3>1. \E j \in DOMAIN q : q[j] = c
      BY <1>2 DEF Range
    <3> QED
      BY <2>1, <3>1
  <2>3. i \in 1 .. Len(q) /\ Len(q) \in Nat /\ DOMAIN q = 1 .. Len(q)
    BY <2>2
  <2>4. PICK w : w = SubSeq(q, 1, i - 1) \o SubSeq(q, i + 1, Len(q))
    OBVIOUS
  <2>5. Dropping(q, c) = w
    BY <1>2, <2>1, <2>4 DEF Dropping
  <2>6. /\ w \in Seq(S) /\ Len(w) = Len(q) - 1
        /\ \A j \in 1 .. Len(q) - 1 : w[j] = IF j < i THEN q[j] ELSE q[j + 1]
    <3>1. PICK a, b : a = SubSeq(q, 1, i - 1) /\ b = SubSeq(q, i + 1, Len(q))
      OBVIOUS
    <3>2. a \in Seq(S) /\ Len(a) = i - 1 /\ \A j \in 1 .. i - 1 : a[j] = q[j]
      BY <2>3, <3>1
    <3>3. b \in Seq(S) /\ Len(b) = Len(q) - i /\ \A j \in 1 .. Len(q) - i : b[j] = q[i + j]
      <4>0. PICK m, n : m = i + 1 /\ n = Len(q)
        OBVIOUS
      <4>1. m = i + 1 /\ n = Len(q) /\ m \in Int /\ n \in Int
        BY <2>3, <4>0
      <4>2. \A j \in m .. n : q[j] \in S
        BY <2>3, <4>1
      <4>3. /\ SubSeq(q, m, n) \in Seq(S)
            /\ Len(SubSeq(q, m, n)) = IF m <= n THEN n - m + 1 ELSE 0
            /\ \A j \in 1 .. n - m + 1 : SubSeq(q, m, n)[j] = q[m + j - 1]
        BY <4>1, <4>2, SubSeqProperties
      <4>4. b = SubSeq(q, m, n)
        BY <3>1, <4>1
      <4>5. \A j \in 1 .. Len(q) - i : j \in 1 .. n - m + 1 /\ m + j - 1 = i + j
        BY <2>3, <4>1
      <4>6. Len(b) = Len(q) - i
        <5>1. \A x, y \in Int : x \in 1 .. y => (IF x + 1 <= y THEN y - (x + 1) + 1 ELSE 0) = y - x
          OBVIOUS
        <5>2. i \in Int /\ Len(q) \in Int /\ i \in 1 .. Len(q)
          BY <2>3
        <5>3. (IF i + 1 <= Len(q) THEN Len(q) - (i + 1) + 1 ELSE 0) = Len(q) - i
          BY <5>1, <5>2
        <5>4. Len(b) = IF m <= n THEN n - m + 1 ELSE 0
          BY <4>3, <4>4
        <5> QED
          BY <4>1, <5>3, <5>4
      <4>7. \A j \in 1 .. Len(q) - i : b[j] = q[m + j - 1]
        BY <4>3, <4>4, <4>5
      <4> QED
        BY <4>3, <4>4, <4>5, <4>6, <4>7
    <3>4. w = a \o b
      BY <2>4, <3>1
    <3>5. w \in Seq(S) /\ Len(w) = Len(q) - 1
      <4>1. w \in Seq(S) /\ Len(w) = Len(a) + Len(b)
        BY <3>2, <3>3, <3>4, ConcatProperties
      <4> QED
        BY <2>3, <3>2, <3>3, <4>1
    <3>6. \A j \in 1 .. i - 1 : w[j] = q[j]
      BY <2>3, <3>2, <3>3, <3>4
    <3>7. \A j \in i .. Len(q) - 1 : w[j] = q[j + 1]
      <4>1. SUFFICES ASSUME NEW j \in i .. Len(q) - 1 PROVE w[j] = q[j + 1]
        OBVIOUS
      <4>2. j - (i - 1) \in 1 .. Len(q) - i /\ i + (j - (i - 1)) = j + 1
        BY <2>3
      <4>3. w[j] = b[j - (i - 1)]
        BY <2>3, <3>2, <3>3, <3>4, <4>2
      <4> QED
        BY <3>3, <4>2, <4>3
    <3> QED
      BY <2>3, <3>5, <3>6, <3>7
  <2>7. DOMAIN w = 1 .. Len(q) - 1
    BY <2>6
  <2>8. \A j \in 1 .. Len(q) - 1 : \E k \in 1 .. Len(q) : k # i /\ w[j] = q[k] /\ (k = IF j < i THEN j ELSE j + 1)
    BY <2>3, <2>6
  <2>9. \A a, b \in 1 .. Len(q) : q[a] = q[b] => a = b
    BY <2>3 DEF IsInjective
  <2>10. IsInjective(w)
    <3>1. SUFFICES ASSUME NEW a \in 1 .. Len(q) - 1, NEW b \in 1 .. Len(q) - 1, w[a] = w[b]
                   PROVE  a = b
      BY <2>7 DEF IsInjective
    <3>2. PICK x \in 1 .. Len(q) : w[a] = q[x] /\ (x = IF a < i THEN a ELSE a + 1)
      BY <2>8
    <3>3. PICK y \in 1 .. Len(q) : w[b] = q[y] /\ (y = IF b < i THEN b ELSE b + 1)
      BY <2>8
    <3>4. x = y
      BY <2>9, <3>1, <3>2, <3>3
    <3> QED
      BY <2>3, <3>2, <3>3, <3>4
  <2>11. \A j \in DOMAIN w : w[j] # c /\ \E k \in DOMAIN q : q[k] = w[j]
    BY <2>2, <2>3, <2>7, <2>8, <2>9
  <2>12. (Len(q) > 0 /\ q[1] # c) => Len(w) > 0 /\ w[1] = q[1]
    BY <2>2, <2>3, <2>6
  <2> QED
    BY <2>5, <2>6, <2>10, <2>11, <2>12
<1> QED
  BY <1>1, <1>2

-----------------------------------------------------------------------------
(* The steps.                                                              *)

(* The script calls an operation that asks for the locks it needs. *)
Asks(c) ==
    \E o \in Operation, ids \in SUBSET Stubs :
        /\ Call(c, o, ids)
        /\ o.mem \in ids
        /\ o.kind = "read" => Class(o.mem) \subseteq ids

LEMMA CallsAsk ==
  ASSUME NEW c \in Conversation, NEW m \in Stubs
  PROVE  /\ CallAppend(c, m) => Asks(c)
         /\ CallRead(c, m) => Asks(c)
         /\ \A n \in NewName : CallRename(c, m, n) => Asks(c)
<1>1. ASSUME CallAppend(c, m) PROVE Asks(c)
  <2>1. PICK o : o = [kind |-> "append", mem |-> m]
    OBVIOUS
  <2>2. o \in Operation /\ o.mem = m /\ o.kind # "read" /\ {m} \in SUBSET Stubs
    BY <2>1 DEF Operation
  <2>3. Call(c, o, {m})
    BY <1>1, <2>1 DEF CallAppend
  <2> QED
    BY <2>2, <2>3 DEF Asks
<1>2. ASSUME CallRead(c, m) PROVE Asks(c)
  <2>1. PICK o : o = [kind |-> "read", mem |-> m]
    OBVIOUS
  <2>2. o \in Operation /\ o.mem = m /\ m \in Class(m) /\ Class(m) \in SUBSET Stubs
    BY <2>1, ClassFacts DEF Operation
  <2>3. Call(c, o, Class(m))
    BY <1>2, <2>1 DEF CallRead
  <2> QED
    BY <2>2, <2>3 DEF Asks
<1>3. ASSUME NEW n \in NewName, CallRename(c, m, n) PROVE Asks(c)
  <2>1. PICK o : o = [kind |-> "rename", mem |-> m, name |-> n]
    OBVIOUS
  <2>2. o \in Operation /\ o.mem = m /\ o.kind # "read" /\ {m} \in SUBSET Stubs
    BY <2>1 DEF Operation
  <2>3. Call(c, o, {m})
    BY <1>3, <2>1 DEF CallRename
  <2> QED
    BY <2>2, <2>3 DEF Asks
<1> QED
  BY <1>1, <1>2, <1>3

LEMMA Steps ==
  ASSUME BlockNext
  PROVE  \/ \E c \in Conversation :
              \/ Begin(c) \/ Asks(c) \/ Operate(c) \/ ReadFails(c)
              \/ \E n \in NewName : CallCreate(c, n)
              \/ \E m \in Stubs : Acquire(c, m) \/ Granted(c, m)
              \/ CallTool(c) \/ Spawned(c) \/ SpawnFails(c) \/ Answered(c)
              \/ \E outcome \in Outcomes : End(c, outcome)
              \/ EndDry(c) \/ InfraError(c) \/ Fold(c) \/ TimesOut(c) \/ Retry(c)
         \/ \E m \in Stubs : ProjectOnto(m)
<1>1. ASSUME NEW c \in Conversation, Script(c)
      PROVE  \/ Asks(c) \/ (\E n \in NewName : CallCreate(c, n)) \/ CallTool(c)
             \/ (\E outcome \in Outcomes : End(c, outcome)) \/ EndDry(c) \/ InfraError(c)
  BY <1>1, CallsAsk DEF Script
<1>2. ASSUME NEW c \in Conversation, Backend(c)
      PROVE  \/ (\E m \in Stubs : Acquire(c, m) \/ Granted(c, m))
             \/ Operate(c) \/ ReadFails(c) \/ Spawned(c) \/ SpawnFails(c) \/ Answered(c)
             \/ Fold(c)
  BY <1>2 DEF Backend
<1> QED
  BY <1>1, <1>2 DEF BlockNext

-----------------------------------------------------------------------------
(* The types.                                                              *)

TaskOK ==
    /\ pc \in [Conversation -> Evaluating \cup {"idle", "fold"}]
    /\ attempt \in [Conversation -> 0..MaxAttempts]
    /\ op \in [Conversation -> Op]
    /\ want \in [Conversation -> SUBSET Stubs]
    /\ mcp \in [Conversation -> [made : BOOLEAN, inFlight : BOOLEAN, live : BOOLEAN]]
    /\ effects \in [Conversation -> SUBSET (1..MaxAttempts)]
    /\ desynced \in [Conversation -> BOOLEAN]

UsedOK == used \in [blocks : 0..MaxBlocks, ops : 0..MaxOps, foreign : 0..MaxForeign]

QueueOK == queue \in [Stubs -> Seq(Conversation)]

LogOK == log \in Seq(Event) /\ head \in 0..Len(log)

ApiOK == api \in [Conversation -> Api(head)]

LEMMA TypeParts ==
  /\ TypeOK <=> TaskOK /\ UsedOK /\ QueueOK /\ LogOK /\ ApiOK
  /\ TypeOK' <=> TaskOK' /\ UsedOK' /\ QueueOK' /\ LogOK' /\ ApiOK'
  BY DEF TypeOK, TaskOK, UsedOK, QueueOK, LogOK, ApiOK

(* A bound that is spent is not exceeded. *)
LEMMA SpendTypes ==
  ASSUME TypeOK
  PROVE  /\ Spend("blocks", MaxBlocks) => UsedOK'
         /\ Spend("ops", MaxOps) => UsedOK' /\ used'.ops \in 1 .. MaxOps
         /\ Spend("foreign", MaxForeign) => UsedOK'
<1>1. /\ used.blocks \in 0 .. MaxBlocks /\ used.ops \in 0 .. MaxOps
      /\ used.foreign \in 0 .. MaxForeign
      /\ MaxBlocks \in Nat /\ MaxOps \in Nat /\ MaxForeign \in Nat
  BY Constants DEF TypeOK
<1>2. ASSUME Spend("blocks", MaxBlocks) PROVE UsedOK'
  <2>1. used.blocks < MaxBlocks
    BY <1>2 DEF Spend
  <2>2. used.blocks + 1 \in 0 .. MaxBlocks
    BY <1>1, <2>1
  <2>3. PICK v : v = used.blocks + 1
    OBVIOUS
  <2>4. used' = [used EXCEPT !.blocks = v]
    BY <1>2, <2>3 DEF Spend
  <2> QED
    BY <2>2, <2>3, <2>4 DEF TypeOK, UsedOK
<1>3. ASSUME Spend("ops", MaxOps) PROVE UsedOK' /\ used'.ops \in 1 .. MaxOps
  <2>1. used.ops < MaxOps
    BY <1>3 DEF Spend
  <2>2. used.ops + 1 \in 0 .. MaxOps /\ used.ops + 1 \in 1 .. MaxOps
    BY <1>1, <2>1
  <2>3. PICK v : v = used.ops + 1
    OBVIOUS
  <2>4. used' = [used EXCEPT !.ops = v]
    BY <1>3, <2>3 DEF Spend
  <2>5. UsedOK'
    BY <2>2, <2>3, <2>4 DEF TypeOK, UsedOK
  <2>6. used'.ops = v
    BY <2>4 DEF TypeOK
  <2> QED
    BY <2>2, <2>3, <2>5, <2>6
<1>4. ASSUME Spend("foreign", MaxForeign) PROVE UsedOK'
  <2>1. used.foreign < MaxForeign
    BY <1>4 DEF Spend
  <2>2. used.foreign + 1 \in 0 .. MaxForeign
    BY <1>1, <2>1
  <2>3. PICK v : v = used.foreign + 1
    OBVIOUS
  <2>4. used' = [used EXCEPT !.foreign = v]
    BY <1>4, <2>3 DEF Spend
  <2> QED
    BY <2>2, <2>3, <2>4 DEF TypeOK, UsedOK
<1> QED
  BY <1>2, <1>3, <1>4

(* A release takes the block out of every queue, and nobody else. *)
LEMMA Released ==
  ASSUME TypeOK, LockInv, NEW c, ReleaseLocks(c)
  PROVE  /\ QueueOK'
         /\ \A m \in Stubs :
              /\ IsInjective(queue'[m])
              /\ \A i \in DOMAIN queue'[m] :
                    queue'[m][i] # c /\ \E j \in DOMAIN queue[m] : queue[m][j] = queue'[m][i]
              /\ (Len(queue[m]) > 0 /\ queue[m][1] # c) =>
                    Len(queue'[m]) > 0 /\ queue'[m][1] = queue[m][1]
<1>1. ASSUME NEW m \in Stubs
      PROVE  /\ queue'[m] \in Seq(Conversation)
             /\ IsInjective(queue'[m])
             /\ \A i \in DOMAIN queue'[m] :
                   queue'[m][i] # c /\ \E j \in DOMAIN queue[m] : queue[m][j] = queue'[m][i]
             /\ (Len(queue[m]) > 0 /\ queue[m][1] # c) =>
                   Len(queue'[m]) > 0 /\ queue'[m][1] = queue[m][1]
  <2>1. PICK q : q = queue[m]
    OBVIOUS
  <2>2. q \in Seq(Conversation) /\ IsInjective(q)
    BY <2>1 DEF TypeOK, LockInv
  <2>3. PICK w : w = Dropping(q, c)
    OBVIOUS
  <2>4. /\ w \in Seq(Conversation) /\ IsInjective(w)
        /\ \A i \in DOMAIN w : w[i] # c /\ \E j \in DOMAIN q : q[j] = w[i]
        /\ (Len(q) > 0 /\ q[1] # c) => Len(w) > 0 /\ w[1] = q[1]
    BY <2>2, <2>3, WithoutFacts
  <2>5. queue'[m] = w
    BY <2>1, <2>3 DEF ReleaseLocks
  <2> QED
    BY <2>1, <2>4, <2>5
<1>2. QueueOK'
  <2>1. queue' = [m \in Stubs |-> Dropping(queue[m], c)]
    BY DEF ReleaseLocks
  <2>2. DOMAIN queue' = Stubs /\ \A m \in Stubs : queue'[m] \in Seq(Conversation)
    BY <1>1, <2>1
  <2>3. queue' = [m \in Stubs |-> queue'[m]]
    BY <2>1, <2>2
  <2> QED
    BY <2>2, <2>3 DEF QueueOK
<1> QED
  BY <1>1, <1>2

(* The instance abandoned in mid-call is dropped, so none is kept in an    *)
(* undefined state.                                                        *)
LEMMA Dropped ==
  ASSUME TypeOK, NEW c \in Conversation, DropInFlight(c), ~desynced[c]
  PROVE  /\ mcp' \in [Conversation -> [made : BOOLEAN, inFlight : BOOLEAN, live : BOOLEAN]]
         /\ desynced' \in [Conversation -> BOOLEAN]
         /\ mcp'[c].made = mcp[c].made /\ ~desynced'[c]
         /\ \A d \in Conversation \ {c} : mcp'[d] = mcp[d] /\ desynced'[d] = desynced[d]
<1>1. PICK r : r = mcp[c]
  OBVIOUS
<1>2. r \in [made : BOOLEAN, inFlight : BOOLEAN, live : BOOLEAN]
  BY <1>1 DEF TypeOK
<1>3. PICK live : live = (r.live /\ ~r.inFlight)
  OBVIOUS
<1>4. live \in BOOLEAN
  BY <1>2, <1>3
<1>5. PICK s : s = [r EXCEPT !.inFlight = FALSE, !.live = live]
  OBVIOUS
<1>6. /\ s \in [made : BOOLEAN, inFlight : BOOLEAN, live : BOOLEAN]
      /\ s.made = r.made /\ s.live = live
  BY <1>2, <1>4, <1>5
<1>7. mcp' = [mcp EXCEPT ![c] = s]
  BY <1>1, <1>3, <1>5 DEF DropInFlight
<1>8. /\ mcp' \in [Conversation -> [made : BOOLEAN, inFlight : BOOLEAN, live : BOOLEAN]]
      /\ mcp'[c] = s /\ \A d \in Conversation \ {c} : mcp'[d] = mcp[d]
  BY <1>6, <1>7 DEF TypeOK
<1>9. desynced' = [desynced EXCEPT ![c] = mcp'[c].live /\ (desynced[c] \/ mcp[c].inFlight)]
  BY DEF DropInFlight
<1>10. (mcp'[c].live /\ (desynced[c] \/ mcp[c].inFlight)) = FALSE
  <2>1. ~(live /\ r.inFlight)
    BY <1>3
  <2>2. ~(mcp'[c].live /\ (desynced[c] \/ mcp[c].inFlight))
    BY <1>1, <1>6, <1>8, <2>1
  <2> QED
    BY <2>2
<1>11. desynced' = [desynced EXCEPT ![c] = FALSE]
  BY <1>9, <1>10
<1>12. /\ desynced' \in [Conversation -> BOOLEAN] /\ desynced'[c] = FALSE
       /\ \A d \in Conversation \ {c} : desynced'[d] = desynced[d]
  BY <1>11 DEF TypeOK
<1> QED
  BY <1>1, <1>6, <1>8, <1>12

(* What is spent stays within its bound. *)
LEMMA UsedTypes ==
  ASSUME TypeOK, BlockNext
  PROVE  UsedOK'
<1>1. ASSUME NEW c \in Conversation, Begin(c) PROVE UsedOK'
  BY <1>1, SpendTypes DEF Begin
<1>2. ASSUME NEW c \in Conversation, Asks(c) PROVE UsedOK'
  BY <1>2, SpendTypes DEF Asks, Call
<1>3. ASSUME NEW c \in Conversation, NEW n \in NewName, CallCreate(c, n) PROVE UsedOK'
  BY <1>3, SpendTypes DEF CallCreate
<1>4. ASSUME NEW c \in Conversation, NEW m \in Stubs, Acquire(c, m) PROVE UsedOK'
  BY <1>4 DEF TypeOK, UsedOK, Acquire, hist
<1>5. ASSUME NEW c \in Conversation, NEW m \in Stubs, Granted(c, m) PROVE UsedOK'
  BY <1>5 DEF TypeOK, UsedOK, Granted, hist
<1>6. ASSUME NEW c \in Conversation, Operate(c) PROVE UsedOK'
  BY <1>6 DEF TypeOK, UsedOK, Operate, hist
<1>7. ASSUME NEW c \in Conversation, ReadFails(c) PROVE UsedOK'
  BY <1>7 DEF TypeOK, UsedOK, ReadFails, hist
<1>8. ASSUME NEW c \in Conversation, CallTool(c) PROVE UsedOK'
  BY <1>8, SpendTypes DEF CallTool
<1>9. ASSUME NEW c \in Conversation, Spawned(c) PROVE UsedOK'
  BY <1>9 DEF TypeOK, UsedOK, Spawned, Request
<1>10. ASSUME NEW c \in Conversation, SpawnFails(c) PROVE UsedOK'
  BY <1>10 DEF TypeOK, UsedOK, SpawnFails, hist
<1>11. ASSUME NEW c \in Conversation, Answered(c) PROVE UsedOK'
  BY <1>11 DEF TypeOK, UsedOK, Answered, hist
<1>12. ASSUME NEW c \in Conversation, NEW outcome \in Outcomes, End(c, outcome) PROVE UsedOK'
  BY <1>12 DEF TypeOK, UsedOK, End, hist
<1>13. ASSUME NEW c \in Conversation, EndDry(c) PROVE UsedOK'
  BY <1>13 DEF TypeOK, UsedOK, EndDry, ReleaseLocks, Leave
<1>14. ASSUME NEW c \in Conversation, InfraError(c) PROVE UsedOK'
  BY <1>14 DEF TypeOK, UsedOK, InfraError, ReleaseLocks, Leave
<1>15. ASSUME NEW c \in Conversation, Fold(c) PROVE UsedOK'
  BY <1>15 DEF TypeOK, UsedOK, Fold, ReleaseLocks, Leave
<1>16. ASSUME NEW c \in Conversation, TimesOut(c) PROVE UsedOK'
  BY <1>16 DEF TypeOK, UsedOK, TimesOut, Overrun, ReleaseLocks, Leave, DropInFlight
<1>17. ASSUME NEW c \in Conversation, Retry(c) PROVE UsedOK'
  BY <1>17 DEF TypeOK, UsedOK, Retry, Overrun, ReleaseLocks, DropInFlight
<1>18. ASSUME NEW m \in Stubs, ProjectOnto(m) PROVE UsedOK'
  BY <1>18, SpendTypes DEF ProjectOnto
<1> QED
  BY <1>1, <1>2, <1>3, <1>4, <1>5, <1>6, <1>7, <1>8, <1>9, <1>10, <1>11, <1>12, <1>13, <1>14,
     <1>15, <1>16, <1>17, <1>18, Steps

(* The tasks. *)
LEMMA TaskTypes ==
  ASSUME TypeOK, EffectInv, BlockNext
  PROVE  TaskOK'
<1>1. ASSUME NEW c \in Conversation, Begin(c) PROVE TaskOK'
  <2>1. pc' \in [Conversation -> Evaluating \cup {"idle", "fold"}]
    BY <1>1 DEF Begin, hist, TypeOK, Evaluating
  <2>2. attempt' \in [Conversation -> 0..MaxAttempts]
    BY <1>1, Constants DEF Begin, TypeOK
  <2>3. op' \in [Conversation -> Op]
    BY <1>1 DEF Begin, hist, TypeOK
  <2>4. want' \in [Conversation -> SUBSET Stubs]
    BY <1>1 DEF Begin, hist, TypeOK
  <2>5. mcp' \in [Conversation -> [made : BOOLEAN, inFlight : BOOLEAN, live : BOOLEAN]]
    BY <1>1 DEF Begin, hist, TypeOK
  <2>6. effects' \in [Conversation -> SUBSET (1..MaxAttempts)]
    BY <1>1 DEF Begin, hist, TypeOK
  <2>7. desynced' \in [Conversation -> BOOLEAN]
    BY <1>1 DEF Begin, hist, TypeOK
  <2> QED
    BY <2>1, <2>2, <2>3, <2>4, <2>5, <2>6, <2>7 DEF TaskOK
<1>2. ASSUME NEW c \in Conversation, Asks(c) PROVE TaskOK'
  <2>1. pc' \in [Conversation -> Evaluating \cup {"idle", "fold"}]
    BY <1>2 DEF Asks, Call, hist, TypeOK, Evaluating
  <2>2. attempt' \in [Conversation -> 0..MaxAttempts]
    BY <1>2 DEF Asks, Call, hist, TypeOK
  <2>3. op' \in [Conversation -> Op]
    BY <1>2 DEF Asks, Call, TypeOK, Op
  <2>4. want' \in [Conversation -> SUBSET Stubs]
    BY <1>2 DEF Asks, Call, hist, TypeOK
  <2>5. mcp' \in [Conversation -> [made : BOOLEAN, inFlight : BOOLEAN, live : BOOLEAN]]
    BY <1>2 DEF Asks, Call, hist, TypeOK
  <2>6. effects' \in [Conversation -> SUBSET (1..MaxAttempts)]
    BY <1>2 DEF Asks, Call, hist, TypeOK
  <2>7. desynced' \in [Conversation -> BOOLEAN]
    BY <1>2 DEF Asks, Call, hist, TypeOK
  <2> QED
    BY <2>1, <2>2, <2>3, <2>4, <2>5, <2>6, <2>7 DEF TaskOK
<1>3. ASSUME NEW c \in Conversation, NEW n \in NewName, CallCreate(c, n) PROVE TaskOK'
  BY <1>3, Constants DEF TypeOK, TaskOK, Evaluating, CallCreate, Spend, hist
<1>4. ASSUME NEW c \in Conversation, NEW m \in Stubs, Acquire(c, m) PROVE TaskOK'
  <2>1. want' = want \/ want' = [want EXCEPT ![c] = want[c] \ {m}]
    BY <1>4 DEF Acquire
  <2>11. want \in [Conversation -> SUBSET Stubs]
    BY DEF TypeOK
  <2>12. [want EXCEPT ![c] = want[c] \ {m}] \in [Conversation -> SUBSET Stubs]
    BY <2>11
  <2>2. pc' \in [Conversation -> Evaluating \cup {"idle", "fold"}]
    BY <1>4 DEF Acquire, hist, TypeOK, Evaluating
  <2>3. attempt' \in [Conversation -> 0..MaxAttempts]
    BY <1>4 DEF Acquire, hist, TypeOK
  <2>4. op' \in [Conversation -> Op]
    BY <1>4 DEF Acquire, hist, TypeOK
  <2>5. want' \in [Conversation -> SUBSET Stubs]
    BY <2>11, <2>12, <2>1
  <2>6. mcp' \in [Conversation -> [made : BOOLEAN, inFlight : BOOLEAN, live : BOOLEAN]]
    BY <1>4 DEF Acquire, hist, TypeOK
  <2>7. effects' \in [Conversation -> SUBSET (1..MaxAttempts)]
    BY <1>4 DEF Acquire, hist, TypeOK
  <2>8. desynced' \in [Conversation -> BOOLEAN]
    BY <1>4 DEF Acquire, hist, TypeOK
  <2> QED
    BY <2>2, <2>3, <2>4, <2>5, <2>6, <2>7, <2>8 DEF TaskOK
<1>5. ASSUME NEW c \in Conversation, NEW m \in Stubs, Granted(c, m) PROVE TaskOK'
  BY <1>5, Constants DEF TypeOK, TaskOK, Evaluating, Granted, hist
<1>6. ASSUME NEW c \in Conversation, Operate(c) PROVE TaskOK'
  <2>1. pc' \in [Conversation -> Evaluating \cup {"idle", "fold"}]
    BY <1>6 DEF Operate, hist, TypeOK, Evaluating
  <2>2. attempt' \in [Conversation -> 0..MaxAttempts]
    BY <1>6 DEF Operate, hist, TypeOK
  <2>3. op' \in [Conversation -> Op]
    BY <1>6 DEF Operate, TypeOK, Op
  <2>4. want' \in [Conversation -> SUBSET Stubs]
    BY <1>6 DEF Operate, hist, TypeOK
  <2>5. mcp' \in [Conversation -> [made : BOOLEAN, inFlight : BOOLEAN, live : BOOLEAN]]
    BY <1>6 DEF Operate, hist, TypeOK
  <2>6. effects' \in [Conversation -> SUBSET (1..MaxAttempts)]
    BY <1>6 DEF Operate, hist, TypeOK
  <2>7. desynced' \in [Conversation -> BOOLEAN]
    BY <1>6 DEF Operate, hist, TypeOK
  <2> QED
    BY <2>1, <2>2, <2>3, <2>4, <2>5, <2>6, <2>7 DEF TaskOK
<1>7. ASSUME NEW c \in Conversation, ReadFails(c) PROVE TaskOK'
  <2>1. pc' \in [Conversation -> Evaluating \cup {"idle", "fold"}]
    BY <1>7 DEF ReadFails, hist, TypeOK, Evaluating
  <2>2. attempt' \in [Conversation -> 0..MaxAttempts]
    BY <1>7 DEF ReadFails, hist, TypeOK
  <2>3. op' \in [Conversation -> Op]
    BY <1>7 DEF ReadFails, TypeOK, Op
  <2>4. want' \in [Conversation -> SUBSET Stubs]
    BY <1>7 DEF ReadFails, hist, TypeOK
  <2>5. mcp' \in [Conversation -> [made : BOOLEAN, inFlight : BOOLEAN, live : BOOLEAN]]
    BY <1>7 DEF ReadFails, hist, TypeOK
  <2>6. effects' \in [Conversation -> SUBSET (1..MaxAttempts)]
    BY <1>7 DEF ReadFails, hist, TypeOK
  <2>7. desynced' \in [Conversation -> BOOLEAN]
    BY <1>7 DEF ReadFails, hist, TypeOK
  <2> QED
    BY <2>1, <2>2, <2>3, <2>4, <2>5, <2>6, <2>7 DEF TaskOK
<1>8. ASSUME NEW c \in Conversation, CallTool(c) PROVE TaskOK'
  <2>1. attempt[c] \in 1 .. MaxAttempts
    BY <1>8, Constants DEF CallTool, EffectInv, TypeOK
  <2>2. \/ (mcp' = mcp /\ effects' = effects)
        \/ (/\ mcp' = [mcp EXCEPT ![c] = [made |-> TRUE, inFlight |-> TRUE, live |-> TRUE]]
            /\ effects' = [effects EXCEPT ![c] = effects[c] \cup {attempt[c]}])
    BY <1>8 DEF CallTool, Request
  <2>21. /\ mcp \in [Conversation -> [made : BOOLEAN, inFlight : BOOLEAN, live : BOOLEAN]]
         /\ [mcp EXCEPT ![c] = [made |-> TRUE, inFlight |-> TRUE, live |-> TRUE]]
                \in [Conversation -> [made : BOOLEAN, inFlight : BOOLEAN, live : BOOLEAN]]
    BY DEF TypeOK
  <2>22. /\ effects \in [Conversation -> SUBSET (1 .. MaxAttempts)]
         /\ [effects EXCEPT ![c] = effects[c] \cup {attempt[c]}] \in [Conversation -> SUBSET (1 .. MaxAttempts)]
    BY <2>1 DEF TypeOK
  <2>3. pc' \in [Conversation -> Evaluating \cup {"idle", "fold"}]
    BY <1>8 DEF CallTool, Request, TypeOK, Evaluating
  <2>4. attempt' \in [Conversation -> 0..MaxAttempts]
    BY <1>8 DEF CallTool, Request, TypeOK
  <2>5. op' \in [Conversation -> Op]
    BY <1>8 DEF CallTool, Request, TypeOK
  <2>6. want' \in [Conversation -> SUBSET Stubs]
    BY <1>8 DEF CallTool, Request, TypeOK
  <2>7. mcp' \in [Conversation -> [made : BOOLEAN, inFlight : BOOLEAN, live : BOOLEAN]]
    BY <2>2, <2>21
  <2>8. effects' \in [Conversation -> SUBSET (1..MaxAttempts)]
    BY <2>2, <2>22
  <2>9. desynced' \in [Conversation -> BOOLEAN]
    BY <1>8 DEF CallTool, Request, TypeOK
  <2> QED
    BY <2>3, <2>4, <2>5, <2>6, <2>7, <2>8, <2>9 DEF TaskOK
<1>9. ASSUME NEW c \in Conversation, Spawned(c) PROVE TaskOK'
  <2>1. attempt[c] \in 1 .. MaxAttempts
    BY <1>9, Constants DEF Spawned, EffectInv, TypeOK
  <2>2. pc' \in [Conversation -> Evaluating \cup {"idle", "fold"}]
    BY <1>9 DEF Spawned, Request, TypeOK, Evaluating
  <2>3. attempt' \in [Conversation -> 0..MaxAttempts]
    BY <1>9 DEF Spawned, Request, TypeOK
  <2>4. op' \in [Conversation -> Op]
    BY <1>9 DEF Spawned, Request, TypeOK
  <2>5. want' \in [Conversation -> SUBSET Stubs]
    BY <1>9 DEF Spawned, Request, TypeOK
  <2>6. mcp' \in [Conversation -> [made : BOOLEAN, inFlight : BOOLEAN, live : BOOLEAN]]
    BY <1>9 DEF Spawned, Request, TypeOK
  <2>7. effects' \in [Conversation -> SUBSET (1..MaxAttempts)]
    BY <1>9, <2>1 DEF Spawned, Request, TypeOK
  <2>8. desynced' \in [Conversation -> BOOLEAN]
    BY <1>9 DEF Spawned, Request, TypeOK
  <2> QED
    BY <2>2, <2>3, <2>4, <2>5, <2>6, <2>7, <2>8 DEF TaskOK
<1>10. ASSUME NEW c \in Conversation, SpawnFails(c) PROVE TaskOK'
  BY <1>10, Constants DEF TypeOK, TaskOK, Evaluating, SpawnFails, hist
<1>11. ASSUME NEW c \in Conversation, Answered(c) PROVE TaskOK'
  BY <1>11, Constants DEF TypeOK, TaskOK, Evaluating, Answered, hist
<1>12. ASSUME NEW c \in Conversation, NEW outcome \in Outcomes, End(c, outcome) PROVE TaskOK'
  BY <1>12, Constants DEF TypeOK, TaskOK, Evaluating, End, hist
<1>13. ASSUME NEW c \in Conversation, EndDry(c) PROVE TaskOK'
  BY <1>13, Constants DEF TypeOK, TaskOK, Evaluating, EndDry, ReleaseLocks, Leave
<1>14. ASSUME NEW c \in Conversation, InfraError(c) PROVE TaskOK'
  BY <1>14, Constants DEF TypeOK, TaskOK, Evaluating, InfraError, ReleaseLocks, Leave
<1>15. ASSUME NEW c \in Conversation, Fold(c) PROVE TaskOK'
  BY <1>15, Constants DEF TypeOK, TaskOK, Evaluating, Fold, ReleaseLocks, Leave
<1>16. ASSUME NEW c \in Conversation, TimesOut(c) PROVE TaskOK'
  <2>1. DropInFlight(c) /\ ~desynced[c]
    BY <1>16 DEF TimesOut, EffectInv
  <2>2. pc' \in [Conversation -> Evaluating \cup {"idle", "fold"}]
    BY <1>16 DEF TimesOut, Overrun, Leave, DropInFlight, TypeOK, Evaluating
  <2>3. attempt' \in [Conversation -> 0..MaxAttempts]
    BY <1>16, Constants DEF TimesOut, GivesUp, Leave, TypeOK
  <2>4. op' \in [Conversation -> Op]
    BY <1>16 DEF TimesOut, Overrun, TypeOK, Op
  <2>5. want' \in [Conversation -> SUBSET Stubs]
    BY <1>16 DEF TimesOut, Overrun, Leave, DropInFlight, TypeOK
  <2>6. mcp' \in [Conversation -> [made : BOOLEAN, inFlight : BOOLEAN, live : BOOLEAN]]
    BY <2>1, Dropped
  <2>7. effects' \in [Conversation -> SUBSET (1..MaxAttempts)]
    BY <1>16 DEF TimesOut, Overrun, Leave, DropInFlight, TypeOK
  <2>8. desynced' \in [Conversation -> BOOLEAN]
    BY <2>1, Dropped
  <2> QED
    BY <2>2, <2>3, <2>4, <2>5, <2>6, <2>7, <2>8 DEF TaskOK
<1>17. ASSUME NEW c \in Conversation, Retry(c) PROVE TaskOK'
  <2>1. DropInFlight(c) /\ ~desynced[c]
    BY <1>17 DEF Retry, EffectInv
  <2>2. pc' \in [Conversation -> Evaluating \cup {"idle", "fold"}]
    BY <1>17 DEF Retry, Overrun, DropInFlight, TypeOK, Evaluating
  <2>3. attempt' \in [Conversation -> 0..MaxAttempts]
    BY <1>17, Constants DEF Retry, GivesUp, Leave, TypeOK
  <2>4. op' \in [Conversation -> Op]
    BY <1>17 DEF Retry, Overrun, TypeOK, Op
  <2>5. want' \in [Conversation -> SUBSET Stubs]
    BY <1>17 DEF Retry, Overrun, DropInFlight, TypeOK
  <2>6. mcp' \in [Conversation -> [made : BOOLEAN, inFlight : BOOLEAN, live : BOOLEAN]]
    BY <2>1, Dropped
  <2>7. effects' \in [Conversation -> SUBSET (1..MaxAttempts)]
    BY <1>17 DEF Retry, Overrun, DropInFlight, TypeOK
  <2>8. desynced' \in [Conversation -> BOOLEAN]
    BY <2>1, Dropped
  <2> QED
    BY <2>2, <2>3, <2>4, <2>5, <2>6, <2>7, <2>8 DEF TaskOK
<1>18. ASSUME NEW m \in Stubs, ProjectOnto(m) PROVE TaskOK'
  BY <1>18, Constants DEF TypeOK, TaskOK, Evaluating, ProjectOnto, Spend, hist
<1> QED
  BY <1>1, <1>2, <1>3, <1>4, <1>5, <1>6, <1>7, <1>8, <1>9, <1>10, <1>11, <1>12, <1>13, <1>14,
     <1>15, <1>16, <1>17, <1>18, Steps

(* The queues. *)
LEMMA QueueTypes ==
  ASSUME TypeOK, LockInv, BlockNext
  PROVE  QueueOK'
<1>1. ASSUME NEW c \in Conversation, Begin(c) PROVE QueueOK'
  BY <1>1 DEF TypeOK, QueueOK, Begin, Spend, hist
<1>2. ASSUME NEW c \in Conversation, Asks(c) PROVE QueueOK'
  BY <1>2 DEF TypeOK, QueueOK, Asks, Call, Spend, hist
<1>3. ASSUME NEW c \in Conversation, NEW n \in NewName, CallCreate(c, n) PROVE QueueOK'
  BY <1>3 DEF TypeOK, QueueOK, CallCreate, Spend, hist
<1>4. ASSUME NEW c \in Conversation, NEW m \in Stubs, Acquire(c, m) PROVE QueueOK'
  BY <1>4 DEF TypeOK, QueueOK, Acquire, hist
<1>5. ASSUME NEW c \in Conversation, NEW m \in Stubs, Granted(c, m) PROVE QueueOK'
  BY <1>5 DEF TypeOK, QueueOK, Granted, hist
<1>6. ASSUME NEW c \in Conversation, Operate(c) PROVE QueueOK'
  BY <1>6 DEF TypeOK, QueueOK, Operate, hist
<1>7. ASSUME NEW c \in Conversation, ReadFails(c) PROVE QueueOK'
  BY <1>7 DEF TypeOK, QueueOK, ReadFails, hist
<1>8. ASSUME NEW c \in Conversation, CallTool(c) PROVE QueueOK'
  BY <1>8 DEF TypeOK, QueueOK, CallTool, Spend, Request
<1>9. ASSUME NEW c \in Conversation, Spawned(c) PROVE QueueOK'
  BY <1>9 DEF TypeOK, QueueOK, Spawned, Request
<1>10. ASSUME NEW c \in Conversation, SpawnFails(c) PROVE QueueOK'
  BY <1>10 DEF TypeOK, QueueOK, SpawnFails, hist
<1>11. ASSUME NEW c \in Conversation, Answered(c) PROVE QueueOK'
  BY <1>11 DEF TypeOK, QueueOK, Answered, hist
<1>12. ASSUME NEW c \in Conversation, NEW outcome \in Outcomes, End(c, outcome) PROVE QueueOK'
  BY <1>12 DEF TypeOK, QueueOK, End, hist
<1>13. ASSUME NEW c \in Conversation, EndDry(c) PROVE QueueOK'
  BY <1>13, Released DEF EndDry
<1>14. ASSUME NEW c \in Conversation, InfraError(c) PROVE QueueOK'
  BY <1>14, Released DEF InfraError
<1>15. ASSUME NEW c \in Conversation, Fold(c) PROVE QueueOK'
  BY <1>15, Released DEF Fold
<1>16. ASSUME NEW c \in Conversation, TimesOut(c) PROVE QueueOK'
  BY <1>16, Released DEF TimesOut, Overrun
<1>17. ASSUME NEW c \in Conversation, Retry(c) PROVE QueueOK'
  BY <1>17, Released DEF Retry, Overrun
<1>18. ASSUME NEW m \in Stubs, ProjectOnto(m) PROVE QueueOK'
  BY <1>18 DEF TypeOK, QueueOK, ProjectOnto, Spend, hist
<1> QED
  BY <1>1, <1>2, <1>3, <1>4, <1>5, <1>6, <1>7, <1>8, <1>9, <1>10, <1>11, <1>12, <1>13, <1>14,
     <1>15, <1>16, <1>17, <1>18, Steps

(* A fold moves the head forward in the log. *)
LEMMA HeadMoves ==
  ASSUME TypeOK
  PROVE  /\ log \in Seq(Event) /\ Len(log) \in Nat /\ head \in Nat /\ head <= Len(log)
         /\ Materialized(log, head) \in head .. Len(log)
         /\ NamesAreUnique => Materialized(log, head) = Len(log)
<1>1. log \in Seq(Event) /\ Len(log) \in Nat /\ head \in Nat /\ head <= Len(log)
  BY DEF TypeOK
<1>2. /\ Materialized(log, head) \in head .. Len(log)
      /\ (\A i \in 1 .. Len(log) : ~Collides(log, i)) => Materialized(log, head) = Len(log)
  BY <1>1, MaterializedFacts
<1>3. DOMAIN log = 1 .. Len(log)
  BY <1>1
<1> QED
  BY <1>1, <1>2, <1>3 DEF NamesAreUnique

LEMMA Recorded ==
  <<LuaExecuted>> \in Seq(Event) /\ LuaExecuted \in Event /\ LuaExecuted.kind = "executed"
  BY DEF LuaExecuted, Event

(* The log is appended to, and the head stays in it. *)
LEMMA LogGrows ==
  ASSUME TypeOK, NEW a \in Seq(Event), NEW b \in Seq(Event),
         log' = log \/ log' = log \o a \/ log' = (log \o b) \o a, head' = head
  PROVE  LogOK' /\ head' >= head
<1>1. log \in Seq(Event) /\ Len(log) \in Nat /\ head \in Nat /\ head <= Len(log)
  BY HeadMoves
<1>2. log \o a \in Seq(Event) /\ Len(log \o a) >= Len(log)
  BY <1>1
<1>3. log \o b \in Seq(Event) /\ Len(log \o b) >= Len(log) /\ Len(log \o b) \in Nat
  BY <1>1
<1>4. (log \o b) \o a \in Seq(Event) /\ Len((log \o b) \o a) >= Len(log)
  BY <1>1, <1>3
<1>5. log' \in Seq(Event) /\ Len(log') \in Nat /\ Len(log') >= Len(log)
  <2>1. CASE log' = log
    BY <1>1, <2>1
  <2>2. CASE log' = log \o a
    BY <1>1, <1>2, <2>2
  <2>3. CASE log' = (log \o b) \o a
    BY <1>1, <1>4, <2>3
  <2> QED
    BY <2>1, <2>2, <2>3
<1> QED
  BY <1>1, <1>5 DEF LogOK

(* The log grows, and the head with it. *)
LEMMA LogTypes ==
  ASSUME TypeOK, BlockNext
  PROVE  LogOK' /\ head' >= head
<1>1. ASSUME NEW c \in Conversation, Begin(c) PROVE LogOK' /\ head' >= head
  <2>1. log' = log /\ head' \in {head, Materialized(log, head)}
    BY <1>1 DEF Begin
  <2> QED
    BY <2>1, HeadMoves DEF LogOK
<1>2. ASSUME NEW c \in Conversation, Asks(c) PROVE LogOK' /\ head' >= head
  BY <1>2 DEF TypeOK, LogOK, Asks, Call, Spend, hist
<1>3. ASSUME NEW c \in Conversation, NEW n \in NewName, CallCreate(c, n) PROVE LogOK' /\ head' >= head
  BY <1>3 DEF TypeOK, LogOK, CallCreate, Spend, hist
<1>4. ASSUME NEW c \in Conversation, NEW m \in Stubs, Acquire(c, m) PROVE LogOK' /\ head' >= head
  BY <1>4 DEF TypeOK, LogOK, Acquire, hist
<1>5. ASSUME NEW c \in Conversation, NEW m \in Stubs, Granted(c, m) PROVE LogOK' /\ head' >= head
  BY <1>5 DEF TypeOK, LogOK, Granted, hist
<1>6. ASSUME NEW c \in Conversation, Operate(c) PROVE LogOK' /\ head' >= head
  BY <1>6 DEF TypeOK, LogOK, Operate, hist
<1>7. ASSUME NEW c \in Conversation, ReadFails(c) PROVE LogOK' /\ head' >= head
  BY <1>7 DEF TypeOK, LogOK, ReadFails, hist
<1>8. ASSUME NEW c \in Conversation, CallTool(c) PROVE LogOK' /\ head' >= head
  BY <1>8 DEF TypeOK, LogOK, CallTool, Spend, Request
<1>9. ASSUME NEW c \in Conversation, Spawned(c) PROVE LogOK' /\ head' >= head
  BY <1>9 DEF TypeOK, LogOK, Spawned, Request
<1>10. ASSUME NEW c \in Conversation, SpawnFails(c) PROVE LogOK' /\ head' >= head
  BY <1>10 DEF TypeOK, LogOK, SpawnFails, hist
<1>11. ASSUME NEW c \in Conversation, Answered(c) PROVE LogOK' /\ head' >= head
  BY <1>11 DEF TypeOK, LogOK, Answered, hist
<1>12. ASSUME NEW c \in Conversation, NEW outcome \in Outcomes, End(c, outcome) PROVE LogOK' /\ head' >= head
  <2>1. log' = log \o <<LuaExecuted>> \/ log' = (log \o api[c].buf) \o <<LuaExecuted>>
    BY <1>12 DEF End
  <2>2. api[c].buf \in Seq(Event) /\ <<LuaExecuted>> \in Seq(Event)
    BY Recorded DEF TypeOK, Api
  <2>3. head' = head
    BY <1>12 DEF End
  <2> QED
    BY <2>1, <2>2, <2>3, LogGrows
<1>13. ASSUME NEW c \in Conversation, EndDry(c) PROVE LogOK' /\ head' >= head
  BY <1>13 DEF TypeOK, LogOK, EndDry, ReleaseLocks, Leave
<1>14. ASSUME NEW c \in Conversation, InfraError(c) PROVE LogOK' /\ head' >= head
  BY <1>14 DEF TypeOK, LogOK, InfraError, ReleaseLocks, Leave
<1>15. ASSUME NEW c \in Conversation, Fold(c) PROVE LogOK' /\ head' >= head
  <2>1. log' = log /\ head' = Materialized(log, head)
    BY <1>15 DEF Fold
  <2> QED
    BY <2>1, HeadMoves DEF LogOK
<1>16. ASSUME NEW c \in Conversation, TimesOut(c) PROVE LogOK' /\ head' >= head
  <2>1. log' = log \/ log' = log \o <<LuaExecuted>>
    BY <1>16, AppendIsConcat, Recorded DEF TimesOut, TypeOK
  <2>2. head' = head
    BY <1>16 DEF TimesOut
  <2>3. <<LuaExecuted>> \in Seq(Event)
    BY Recorded
  <2> QED
    BY <2>1, <2>2, <2>3, LogGrows
<1>17. ASSUME NEW c \in Conversation, Retry(c) PROVE LogOK' /\ head' >= head
  BY <1>17 DEF TypeOK, LogOK, Retry, Overrun, ReleaseLocks, DropInFlight
<1>18. ASSUME NEW m \in Stubs, ProjectOnto(m) PROVE LogOK' /\ head' >= head
  <2>1. PICK e : e = [kind |-> "entry", mem |-> m, by |-> "connector"]
    OBVIOUS
  <2>2. e \in Event
    BY <2>1 DEF Event
  <2>3. log' = Append(log, e) /\ head' = Materialized(log', head)
    BY <1>18, <2>1 DEF ProjectOnto
  <2>4. /\ log' \in Seq(Event) /\ Len(log') = Len(log) + 1 /\ Len(log') \in Nat
        /\ head \in Nat /\ head <= Len(log')
    BY <2>2, <2>3 DEF TypeOK
  <2>5. head' \in head .. Len(log')
    BY <2>3, <2>4, MaterializedFacts
  <2> QED
    BY <2>4, <2>5 DEF LogOK
<1> QED
  BY <1>1, <1>2, <1>3, <1>4, <1>5, <1>6, <1>7, <1>8, <1>9, <1>10, <1>11, <1>12, <1>13, <1>14,
     <1>15, <1>16, <1>17, <1>18, Steps

-----------------------------------------------------------------------------
(* What a step does to the block of its actor.                             *)

LEMMA ReadsFacts ==
  ASSUME NEW k \in Nat
  PROVE  /\ \A s : s \in Reads(k) <=> \E d \in SUBSET Stubs : s \in [d -> SUBSET (1 .. k)]
         /\ \A s \in Reads(k) : DOMAIN s \subseteq Stubs /\ \A m \in DOMAIN s : s[m] \subseteq 1 .. k
<1>1. \A s : s \in Reads(k) <=> \E d \in SUBSET Stubs : s \in [d -> SUBSET (1 .. k)]
  BY DEF Reads
<1> QED
  BY <1>1

LEMMA FreshFacts ==
  ASSUME NEW k \in Nat
  PROVE  /\ FreshApi \in Api(k) /\ FreshApi.held = {} /\ FreshApi.buf = <<>>
         /\ DOMAIN FreshApi.buf = {} /\ DOMAIN FreshApi.seen = {}
<1>1. <<>> \in [{} -> SUBSET (1 .. k)]
  OBVIOUS
<1>2. {} \in SUBSET Stubs
  OBVIOUS
<1>3. <<>> \in Reads(k)
  BY <1>1, <1>2, ReadsFacts
<1>4. <<>> \in Seq(Event)
  OBVIOUS
<1> QED
  BY <1>3, <1>4 DEF FreshApi, Api

LEMMA ApiGrows ==
  ASSUME NEW j \in Nat, NEW k \in Nat, j <= k
  PROVE  Reads(j) \subseteq Reads(k) /\ Api(j) \subseteq Api(k)
<1>1. ASSUME NEW s \in Reads(j) PROVE s \in Reads(k)
  <2>1. PICK d \in SUBSET Stubs : s \in [d -> SUBSET (1 .. j)]
    BY ReadsFacts
  <2>2. SUBSET (1 .. j) \subseteq SUBSET (1 .. k)
    OBVIOUS
  <2>3. s \in [d -> SUBSET (1 .. k)]
    BY <2>1, <2>2
  <2> QED
    BY <2>3, ReadsFacts
<1> QED
  BY <1>1 DEF Api

(* The fields of a block. *)
LEMMA ApiFields ==
  ASSUME NEW k \in Nat, NEW a \in Api(k)
  PROVE  a.buf \in Seq(Event) /\ a.seen \in Reads(k) /\ a.held \in SUBSET Stubs
  BY DEF Api

(* A block's record is replaced, the others stay. *)
LEMMA ApiSet ==
  ASSUME TypeOK, LogOK', head' >= head,
         NEW c \in Conversation, NEW r \in Api(head'), api' = [api EXCEPT ![c] = r]
  PROVE  ApiOK' /\ api'[c] = r /\ \A d \in Conversation : d # c => api'[d] = api[d]
<1>1. head \in Nat /\ head' \in Nat /\ head <= head'
  BY DEF TypeOK, LogOK
<1>2. Api(head) \subseteq Api(head')
  BY <1>1, ApiGrows
<1>3. api \in [Conversation -> Api(head')]
  BY <1>2 DEF TypeOK
<1>4. api' \in [Conversation -> Api(head')]
  BY <1>3
<1>5. ApiOK'
  BY <1>4 DEF ApiOK
<1>6. DOMAIN api = Conversation
  BY <1>3
<1> QED
  BY <1>5, <1>6

LEMMA ApiKept ==
  ASSUME TypeOK, LogOK', head' >= head, api' = api
  PROVE  ApiOK'
<1>1. head \in Nat /\ head' \in Nat /\ head <= head'
  BY DEF TypeOK, LogOK
<1>2. Api(head) \subseteq Api(head')
  BY <1>1, ApiGrows
<1> QED
  BY <1>2 DEF TypeOK, ApiOK

(* The changes of a block's record: an event is buffered, an operation is  *)
(* run, a guard joins the lock set, a failure is kept, or all is dropped.  *)
Buffers(c, e) ==
    /\ api'[c].buf = Append(api[c].buf, e)
    /\ api'[c].seen = api[c].seen /\ api'[c].held = api[c].held

Locks(c, m) ==
    /\ api'[c].held = api[c].held \cup {m}
    /\ api'[c].seen = api[c].seen /\ api'[c].buf = api[c].buf

LEMMA CreateStep ==
  ASSUME TypeOK, LogOK', head' >= head, NEW c \in Conversation, NEW n \in NewName, CallCreate(c, n)
  PROVE  ApiOK' /\ \E e \in Event : e.kind = "name" /\ Buffers(c, e)
<1>1. used'.ops \in 1 .. MaxOps
  BY SpendTypes DEF CallCreate
<1>2. PICK e : e = [kind |-> "name", name |-> n, mem |-> used'.ops]
  OBVIOUS
<1>3. e \in Event /\ e.kind = "name"
  BY <1>1, <1>2 DEF Event
<1>4. head \in Nat /\ head' \in Nat /\ head <= head'
  BY DEF TypeOK, LogOK
<1>5. PICK a : a = api[c]
  OBVIOUS
<1>6. a \in Api(head')
  BY <1>4, <1>5, ApiGrows DEF TypeOK
<1>7. PICK b : b = Append(a.buf, e)
  OBVIOUS
<1>8. a.buf \in Seq(Event) /\ b \in Seq(Event)
  <2>1. a.buf \in Seq(Event)
    BY <1>4, <1>6, ApiFields
  <2> QED
    BY <1>3, <1>7, <2>1
<1>9. PICK r : r = [a EXCEPT !.buf = b]
  OBVIOUS
<1>10. r \in Api(head') /\ r.buf = b /\ r.seen = a.seen /\ r.held = a.held
  BY <1>6, <1>8, <1>9 DEF Api
<1>11. api' = [api EXCEPT ![c] = r]
  BY <1>2, <1>5, <1>7, <1>9 DEF CallCreate
<1>12. ApiOK' /\ api'[c] = r
  BY <1>10, <1>11, ApiSet
<1>13. Buffers(c, e)
  BY <1>5, <1>7, <1>10, <1>12 DEF Buffers
<1> QED
  BY <1>3, <1>12, <1>13

(* A guard joins the lock set. *)
LEMMA LockJoins ==
  ASSUME TypeOK, LogOK', head' >= head, NEW c \in Conversation, NEW m \in Stubs,
         api' = [api EXCEPT ![c].held = @ \cup {m}]
  PROVE  ApiOK' /\ Locks(c, m)
<1>4. head \in Nat /\ head' \in Nat /\ head <= head'
  BY DEF TypeOK, LogOK
<1>5. PICK a : a = api[c]
  OBVIOUS
<1>6. a \in Api(head')
  BY <1>4, <1>5, ApiGrows DEF TypeOK
<1>7. PICK h : h = a.held \cup {m}
  OBVIOUS
<1>8. h \in SUBSET Stubs
  BY <1>4, <1>6, <1>7, ApiFields
<1>9. PICK r : r = [a EXCEPT !.held = h]
  OBVIOUS
<1>10. r \in Api(head') /\ r.buf = a.buf /\ r.seen = a.seen /\ r.held = h
  BY <1>6, <1>8, <1>9 DEF Api
<1>11. api' = [api EXCEPT ![c] = r]
  BY <1>5, <1>7, <1>9
<1>12. ApiOK' /\ api'[c] = r
  BY <1>10, <1>11, ApiSet
<1> QED
  BY <1>5, <1>7, <1>10, <1>12 DEF Locks

LEMMA ReadFailsStep ==
  ASSUME TypeOK, LogOK', head' >= head, NEW c \in Conversation, ReadFails(c)
  PROVE  /\ ApiOK' /\ api'[c].held = api[c].held
         /\ api'[c].seen = api[c].seen /\ api'[c].buf = api[c].buf
<1>4. head \in Nat /\ head' \in Nat /\ head <= head'
  BY DEF TypeOK, LogOK
<1>5. PICK a : a = api[c]
  OBVIOUS
<1>6. a \in Api(head')
  BY <1>4, <1>5, ApiGrows DEF TypeOK
<1>9. PICK r : r = [a EXCEPT !.infra = TRUE]
  OBVIOUS
<1>10. r \in Api(head') /\ r.buf = a.buf /\ r.seen = a.seen /\ r.held = a.held
  BY <1>6, <1>9 DEF Api
<1>11. api' = [api EXCEPT ![c] = r]
  BY <1>5, <1>9 DEF ReadFails
<1>12. ApiOK' /\ api'[c] = r
  BY <1>10, <1>11, ApiSet
<1> QED
  BY <1>5, <1>10, <1>12

LEMMA FreshStep ==
  ASSUME TypeOK, LogOK', head' >= head, NEW c \in Conversation,
         api' = [api EXCEPT ![c] = FreshApi]
  PROVE  ApiOK' /\ api'[c] = FreshApi
<1>1. FreshApi \in Api(head')
  BY FreshFacts DEF LogOK
<1> QED
  BY <1>1, ApiSet

(* What an operation under way buffers and reads. *)
LEMMA OperateStep ==
  ASSUME TypeOK, OpInv, LogOK', head' >= head, NEW c \in Conversation, Operate(c)
  PROVE  /\ ApiOK'
         /\ Buffered(c) \in Seq(Event)
         /\ \/ Buffered(c) = <<>>
            \/ \E e \in Event : /\ Buffered(c) = <<e>>
                                /\ e.kind = "entry" => e.mem = Primary[op[c].mem]
         /\ api'[c].buf = api[c].buf \o Buffered(c)
         /\ api'[c].seen = Seen(c) /\ api'[c].held = api[c].held
<1>1. op[c] \in Operation
  BY DEF Operate, OpInv
<1>2. /\ op[c].mem \in Stubs /\ op[c].kind \in {"append", "read", "rename"}
      /\ op[c].kind = "rename" => op[c].name \in NewName
  BY <1>1 DEF Operation
<1>3. /\ Buffered(c) \in Seq(Event)
      /\ \/ Buffered(c) = <<>>
         \/ \E e \in Event : /\ Buffered(c) = <<e>>
                             /\ e.kind = "entry" => e.mem = Primary[op[c].mem]
  <2>1. CASE op[c].kind = "append"
    <3>1. PICK e : e = [kind |-> "entry", mem |-> Primary[op[c].mem], by |-> "agent"]
      OBVIOUS
    <3>2. e \in Event /\ e.mem = Primary[op[c].mem]
      BY <1>2, <3>1, Constants DEF Event
    <3>3. Buffered(c) = <<e>>
      BY <2>1, <3>1 DEF Buffered, WriteTarget
    <3> QED
      BY <3>2, <3>3
  <2>2. CASE op[c].kind = "rename" /\ ~Resolves(c, op[c].name)
    <3>1. PICK e : e = [kind |-> "name", name |-> op[c].name, mem |-> op[c].mem]
      OBVIOUS
    <3>2. e \in Event /\ e.kind # "entry"
      BY <1>2, <2>2, <3>1 DEF Event
    <3>3. Buffered(c) = <<e>>
      BY <2>2, <3>1 DEF Buffered
    <3> QED
      BY <3>2, <3>3
  <2>3. CASE op[c].kind # "append" /\ ~(op[c].kind = "rename" /\ ~Resolves(c, op[c].name))
    <3>1. Buffered(c) = <<>>
      BY <2>3 DEF Buffered
    <3> QED
      BY <3>1
  <2> QED
    BY <2>1, <2>2, <2>3
<1>4. head \in Nat /\ head' \in Nat /\ head <= head'
  BY DEF TypeOK, LogOK
<1>5. PICK a : a = api[c]
  OBVIOUS
<1>6. a \in Api(head) /\ a \in Api(head')
  BY <1>4, <1>5, ApiGrows DEF TypeOK
<1>7. Seen(c) \in Reads(head)
  <2>1. PICK M : M = IF op[c].kind = "read" THEN Class(op[c].mem) ELSE {}
    OBVIOUS
  <2>2. M \subseteq Stubs
    BY <1>2, <2>1, ClassFacts
  <2>3. a.seen \in Reads(head)
    BY <1>4, <1>6, ApiFields
  <2>4. DOMAIN a.seen \subseteq Stubs /\ \A m \in DOMAIN a.seen : a.seen[m] \subseteq 1 .. head
    BY <1>4, <2>3, ReadsFacts
  <2>5. Seen(c) = [m \in DOMAIN a.seen \cup M |-> IF m \in M THEN Entries(log, head, m) ELSE a.seen[m]]
    BY <1>5, <2>1 DEF Seen
  <2>6. \A m : Entries(log, head, m) \subseteq 1 .. head
    BY DEF Entries
  <2>7. DOMAIN a.seen \cup M \in SUBSET Stubs
    BY <2>2, <2>4
  <2>8. Seen(c) \in [DOMAIN a.seen \cup M -> SUBSET (1 .. head)]
    BY <2>4, <2>5, <2>6
  <2> QED
    BY <1>4, <2>7, <2>8, ReadsFacts
<1>8. Seen(c) \in Reads(head')
  BY <1>4, <1>7, ApiGrows
<1>9. PICK b, s : b = a.buf \o Buffered(c) /\ s = Seen(c)
  OBVIOUS
<1>10. b \in Seq(Event) /\ s \in Reads(head')
  <2>1. a.buf \in Seq(Event)
    BY <1>4, <1>6, ApiFields
  <2> QED
    BY <1>3, <1>8, <1>9, <2>1, ConcatProperties
<1>11. PICK r : r = [a EXCEPT !.buf = b, !.seen = s]
  OBVIOUS
<1>12. r \in Api(head') /\ r.buf = b /\ r.seen = s /\ r.held = a.held
  BY <1>6, <1>10, <1>11 DEF Api
<1>13. api' = [api EXCEPT ![c] = r]
  BY <1>5, <1>9, <1>11 DEF Operate
<1>14. ApiOK' /\ api'[c] = r
  BY <1>12, <1>13, ApiSet
<1> QED
  BY <1>3, <1>5, <1>9, <1>12, <1>14

(* The blocks. *)
LEMMA ApiTypes ==
  ASSUME TypeOK, OpInv, LogOK', head' >= head, BlockNext
  PROVE  ApiOK'
<1>1. ASSUME NEW c \in Conversation, Begin(c) PROVE ApiOK'
  <2>1. api' = api
    BY <1>1 DEF Begin
  <2> QED
    BY <2>1, ApiKept
<1>2. ASSUME NEW c \in Conversation, Asks(c) PROVE ApiOK'
  <2>1. api' = api
    BY <1>2 DEF Asks, Call
  <2> QED
    BY <2>1, ApiKept
<1>3. ASSUME NEW c \in Conversation, NEW n \in NewName, CallCreate(c, n) PROVE ApiOK'
  BY <1>3, CreateStep
<1>4. ASSUME NEW c \in Conversation, NEW m \in Stubs, Acquire(c, m) PROVE ApiOK'
  <2>1. CASE queue[m] = <<>>
    BY <1>4, <2>1, LockJoins DEF Acquire
  <2>2. CASE queue[m] # <<>>
    BY <1>4, <2>2, ApiKept DEF Acquire
  <2> QED
    BY <2>1, <2>2
<1>5. ASSUME NEW c \in Conversation, NEW m \in Stubs, Granted(c, m) PROVE ApiOK'
  BY <1>5, LockJoins DEF Granted
<1>6. ASSUME NEW c \in Conversation, Operate(c) PROVE ApiOK'
  BY <1>6, OperateStep
<1>7. ASSUME NEW c \in Conversation, ReadFails(c) PROVE ApiOK'
  BY <1>7, ReadFailsStep
<1>8. ASSUME NEW c \in Conversation, CallTool(c) PROVE ApiOK'
  <2>1. api' = api
    BY <1>8 DEF CallTool
  <2> QED
    BY <2>1, ApiKept
<1>9. ASSUME NEW c \in Conversation, Spawned(c) PROVE ApiOK'
  <2>1. api' = api
    BY <1>9 DEF Spawned
  <2> QED
    BY <2>1, ApiKept
<1>10. ASSUME NEW c \in Conversation, SpawnFails(c) PROVE ApiOK'
  <2>1. api' = api
    BY <1>10 DEF SpawnFails
  <2> QED
    BY <2>1, ApiKept
<1>11. ASSUME NEW c \in Conversation, Answered(c) PROVE ApiOK'
  <2>1. api' = api
    BY <1>11 DEF Answered
  <2> QED
    BY <2>1, ApiKept
<1>12. ASSUME NEW c \in Conversation, NEW outcome \in Outcomes, End(c, outcome) PROVE ApiOK'
  <2>1. api' = api
    BY <1>12 DEF End
  <2> QED
    BY <2>1, ApiKept
<1>13. ASSUME NEW c \in Conversation, EndDry(c) PROVE ApiOK'
  <2>1. api' = [api EXCEPT ![c] = FreshApi]
    BY <1>13 DEF EndDry, Leave
  <2> QED
    BY <2>1, FreshStep
<1>14. ASSUME NEW c \in Conversation, InfraError(c) PROVE ApiOK'
  <2>1. api' = [api EXCEPT ![c] = FreshApi]
    BY <1>14 DEF InfraError, Leave
  <2> QED
    BY <2>1, FreshStep
<1>15. ASSUME NEW c \in Conversation, Fold(c) PROVE ApiOK'
  <2>1. api' = [api EXCEPT ![c] = FreshApi]
    BY <1>15 DEF Fold, Leave
  <2> QED
    BY <2>1, FreshStep
<1>16. ASSUME NEW c \in Conversation, TimesOut(c) PROVE ApiOK'
  <2>1. api' = [api EXCEPT ![c] = FreshApi]
    BY <1>16 DEF TimesOut, Leave
  <2> QED
    BY <2>1, FreshStep
<1>17. ASSUME NEW c \in Conversation, Retry(c) PROVE ApiOK'
  <2>1. api' = [api EXCEPT ![c] = FreshApi]
    BY <1>17 DEF Retry, Leave
  <2> QED
    BY <2>1, FreshStep
<1>18. ASSUME NEW m \in Stubs, ProjectOnto(m) PROVE ApiOK'
  <2>1. api' = api
    BY <1>18 DEF ProjectOnto
  <2> QED
    BY <2>1, ApiKept
<1> QED
  BY <1>1, <1>2, <1>3, <1>4, <1>5, <1>6, <1>7, <1>8, <1>9, <1>10, <1>11, <1>12, <1>13, <1>14,
     <1>15, <1>16, <1>17, <1>18, Steps

(* Every step keeps the types. *)
LEMMA TypeStep ==
  ASSUME TypeOK, LockInv, OpInv, EffectInv, BlockNext
  PROVE  TypeOK' /\ head' >= head
<1>1. TaskOK' /\ UsedOK' /\ QueueOK'
  BY TaskTypes, UsedTypes, QueueTypes
<1>2. LogOK' /\ head' >= head
  BY LogTypes
<1>3. ApiOK'
  BY <1>2, ApiTypes
<1> QED
  BY <1>1, <1>2, <1>3, TypeParts

-----------------------------------------------------------------------------
(* Only the block of its actor moves in a step.                            *)

OthersStay(c) ==
    \A d \in Conversation : d # c =>
        /\ pc'[d] = pc[d] /\ attempt'[d] = attempt[d] /\ op'[d] = op[d]
        /\ want'[d] = want[d] /\ api'[d] = api[d]
        /\ mcp'[d] = mcp[d] /\ effects'[d] = effects[d] /\ desynced'[d] = desynced[d]

LEMMA OnlyTheActor ==
  ASSUME TypeOK, EffectInv, NEW c \in Conversation
  PROVE
    /\ Begin(c) => OthersStay(c)
    /\ Asks(c) => OthersStay(c)
    /\ \A n \in NewName : CallCreate(c, n) => OthersStay(c)
    /\ \A m \in Stubs : Acquire(c, m) => OthersStay(c)
    /\ \A m \in Stubs : Granted(c, m) => OthersStay(c)
    /\ Operate(c) => OthersStay(c)
    /\ ReadFails(c) => OthersStay(c)
    /\ CallTool(c) => OthersStay(c)
    /\ Spawned(c) => OthersStay(c)
    /\ SpawnFails(c) => OthersStay(c)
    /\ Answered(c) => OthersStay(c)
    /\ \A outcome \in Outcomes : End(c, outcome) => OthersStay(c)
    /\ EndDry(c) => OthersStay(c)
    /\ InfraError(c) => OthersStay(c)
    /\ Fold(c) => OthersStay(c)
    /\ TimesOut(c) => OthersStay(c)
    /\ Retry(c) => OthersStay(c)
<1>1. ASSUME Begin(c) PROVE OthersStay(c)
  BY <1>1 DEF Begin, hist, TypeOK, OthersStay
<1>2. ASSUME Asks(c) PROVE OthersStay(c)
  BY <1>2 DEF Asks, Call, hist, TypeOK, OthersStay
<1>3. ASSUME NEW n \in NewName, CallCreate(c, n) PROVE OthersStay(c)
  BY <1>3 DEF CallCreate, hist, TypeOK, OthersStay
<1>4. ASSUME NEW m \in Stubs, Acquire(c, m) PROVE OthersStay(c)
  BY <1>4 DEF Acquire, hist, TypeOK, OthersStay
<1>5. ASSUME NEW m \in Stubs, Granted(c, m) PROVE OthersStay(c)
  BY <1>5 DEF Granted, hist, TypeOK, OthersStay
<1>6. ASSUME Operate(c) PROVE OthersStay(c)
  BY <1>6 DEF Operate, hist, TypeOK, OthersStay
<1>7. ASSUME ReadFails(c) PROVE OthersStay(c)
  BY <1>7 DEF ReadFails, hist, TypeOK, OthersStay
<1>8. ASSUME CallTool(c) PROVE OthersStay(c)
  BY <1>8 DEF CallTool, Request, TypeOK, OthersStay
<1>9. ASSUME Spawned(c) PROVE OthersStay(c)
  BY <1>9 DEF Spawned, Request, TypeOK, OthersStay
<1>10. ASSUME SpawnFails(c) PROVE OthersStay(c)
  BY <1>10 DEF SpawnFails, hist, TypeOK, OthersStay
<1>11. ASSUME Answered(c) PROVE OthersStay(c)
  BY <1>11 DEF Answered, hist, TypeOK, OthersStay
<1>12. ASSUME NEW outcome \in Outcomes, End(c, outcome) PROVE OthersStay(c)
  BY <1>12 DEF End, hist, TypeOK, OthersStay
<1>13. ASSUME EndDry(c) PROVE OthersStay(c)
  BY <1>13 DEF EndDry, Leave, TypeOK, OthersStay
<1>14. ASSUME InfraError(c) PROVE OthersStay(c)
  BY <1>14 DEF InfraError, Leave, TypeOK, OthersStay
<1>15. ASSUME Fold(c) PROVE OthersStay(c)
  BY <1>15 DEF Fold, Leave, TypeOK, OthersStay
<1>16. ASSUME TimesOut(c) PROVE OthersStay(c)
  <2>1. \A d \in Conversation \ {c} : mcp'[d] = mcp[d] /\ desynced'[d] = desynced[d]
    BY <1>16, Dropped DEF TimesOut, EffectInv
  <2> QED
    BY <1>16, <2>1 DEF TimesOut, Overrun, Leave, TypeOK, OthersStay
<1>17. ASSUME Retry(c) PROVE OthersStay(c)
  <2>1. \A d \in Conversation \ {c} : mcp'[d] = mcp[d] /\ desynced'[d] = desynced[d]
    BY <1>17, Dropped DEF Retry, EffectInv
  <2> QED
    BY <1>17, <2>1 DEF Retry, Overrun, TypeOK, OthersStay
<1> QED
  BY <1>1, <1>2, <1>3, <1>4, <1>5, <1>6, <1>7, <1>8, <1>9, <1>10, <1>11, <1>12, <1>13, <1>14,
     <1>15, <1>16, <1>17

-----------------------------------------------------------------------------
(* The locks.                                                              *)

LockBlock(c) ==
    /\ pc[c] # "lock" => want[c] = {}
    /\ pc[c] = "idle" => api[c] = FreshApi
    /\ want[c] \cap api[c].held = {}
    /\ \A m \in api[c].held : Len(queue[m]) > 0 /\ queue[m][1] = c

LockQueue(m) ==
    /\ IsInjective(queue[m])
    /\ \A i \in DOMAIN queue[m] : m \in api[queue[m][i]].held \cup want[queue[m][i]]

LEMMA LockParts ==
  /\ LockInv <=> (\A c \in Conversation : LockBlock(c)) /\ (\A m \in Stubs : LockQueue(m))
  /\ LockInv' <=> (\A c \in Conversation : LockBlock(c)') /\ (\A m \in Stubs : LockQueue(m)')
  BY DEF LockInv, LockBlock, LockQueue

(* The queues stand, and the actor's lock set with them. *)
LEMMA LocksKept ==
  ASSUME TypeOK, LockInv, NEW c \in Conversation, OthersStay(c), queue' = queue,
         api'[c].held = api[c].held, want[c] \subseteq want'[c],
         want'[c] \cap api[c].held = {},
         pc'[c] # "lock" => want'[c] = {}, pc'[c] = "idle" => api'[c] = FreshApi
  PROVE  LockInv'
<1>1. ASSUME NEW d \in Conversation PROVE LockBlock(d)'
  <2>1. LockBlock(d)
    BY LockParts
  <2>2. CASE d = c
    BY <2>1, <2>2 DEF LockBlock
  <2>3. CASE d # c
    BY <2>1, <2>3 DEF LockBlock, OthersStay
  <2> QED
    BY <2>2, <2>3
<1>2. ASSUME NEW m \in Stubs PROVE LockQueue(m)'
  <2>1. LockQueue(m) /\ queue[m] \in Seq(Conversation)
    BY LockParts DEF TypeOK
  <2>2. ASSUME NEW d \in Conversation, m \in api[d].held \cup want[d]
        PROVE  m \in api'[d].held \cup want'[d]
    BY <2>2 DEF OthersStay
  <2>3. \A i \in DOMAIN queue[m] : queue[m][i] \in Conversation
    BY <2>1
  <2> QED
    BY <2>1, <2>2, <2>3 DEF LockQueue
<1> QED
  BY <1>1, <1>2, LockParts

(* A block that drops its guards and its places leaves nothing behind. *)
LEMMA LocksDropped ==
  ASSUME TypeOK, LockInv, NEW c \in Conversation, OthersStay(c), ReleaseLocks(c),
         api'[c] = FreshApi, want'[c] = {}
  PROVE  LockInv'
<1>0. /\ QueueOK'
      /\ \A m \in Stubs :
           /\ IsInjective(queue'[m])
           /\ \A i \in DOMAIN queue'[m] :
                 queue'[m][i] # c /\ \E j \in DOMAIN queue[m] : queue[m][j] = queue'[m][i]
           /\ (Len(queue[m]) > 0 /\ queue[m][1] # c) =>
                 Len(queue'[m]) > 0 /\ queue'[m][1] = queue[m][1]
  BY Released
<1>1. ASSUME NEW d \in Conversation PROVE LockBlock(d)'
  <2>1. LockBlock(d)
    BY LockParts
  <2>2. CASE d = c
    <3>1. api'[d].held = {}
      BY <2>2, FreshFacts
    <3> QED
      BY <2>2, <3>1 DEF LockBlock
  <2>3. CASE d # c
    <3>1. pc'[d] = pc[d] /\ want'[d] = want[d] /\ api'[d] = api[d]
      BY <2>3 DEF OthersStay
    <3>2. api[d].held \subseteq Stubs
      BY HeadMoves, ApiFields DEF TypeOK
    <3>3. \A m \in api[d].held : Len(queue'[m]) > 0 /\ queue'[m][1] = d
      BY <1>0, <2>1, <2>3, <3>2 DEF LockBlock
    <3> QED
      BY <2>1, <3>1, <3>3 DEF LockBlock
  <2> QED
    BY <2>2, <2>3
<1>2. ASSUME NEW m \in Stubs PROVE LockQueue(m)'
  <2>1. LockQueue(m) /\ queue[m] \in Seq(Conversation)
    BY LockParts DEF TypeOK
  <2>2. \A i \in DOMAIN queue[m] : queue[m][i] \in Conversation
    BY <2>1
  <2>3. ASSUME NEW i \in DOMAIN queue'[m]
        PROVE  m \in api'[queue'[m][i]].held \cup want'[queue'[m][i]]
    <3>1. PICK j \in DOMAIN queue[m] : queue[m][j] = queue'[m][i]
      BY <1>0, <2>3
    <3>2. PICK d : d = queue[m][j]
      OBVIOUS
    <3>3. d \in Conversation /\ d # c /\ m \in api[d].held \cup want[d]
      BY <1>0, <2>1, <2>2, <3>1, <3>2 DEF LockQueue
    <3>4. want'[d] = want[d] /\ api'[d] = api[d]
      BY <3>3 DEF OthersStay
    <3> QED
      BY <3>1, <3>2, <3>3, <3>4
  <2>4. IsInjective(queue'[m])
    BY <1>0
  <2> QED
    BY <2>3, <2>4 DEF LockQueue
<1> QED
  BY <1>1, <1>2, LockParts

(* The waiter in front gets the guard. *)
LEMMA LockGranted ==
  ASSUME TypeOK, LockInv, NEW c \in Conversation, NEW m \in Stubs, Granted(c, m), OthersStay(c),
         Locks(c, m)
  PROVE  LockInv'
<1>1. /\ pc[c] = "lock" /\ m \in want[c] /\ queue[m] # <<>> /\ Head(queue[m]) = c
      /\ queue' = queue /\ pc'[c] = "lock" /\ want'[c] = want[c] \ {m}
      /\ api'[c].held = api[c].held \cup {m}
  BY DEF Granted, Locks, TypeOK
<1>2. Len(queue[m]) > 0 /\ queue[m][1] = c
  BY <1>1 DEF TypeOK
<1>3. ASSUME NEW d \in Conversation PROVE LockBlock(d)'
  <2>1. LockBlock(d)
    BY LockParts
  <2>2. CASE d = c
    BY <1>1, <1>2, <2>1, <2>2 DEF LockBlock
  <2>3. CASE d # c
    BY <1>1, <2>1, <2>3 DEF LockBlock, OthersStay
  <2> QED
    BY <2>2, <2>3
<1>4. ASSUME NEW x \in Stubs PROVE LockQueue(x)'
  <2>1. LockQueue(x) /\ queue[x] \in Seq(Conversation)
    BY LockParts DEF TypeOK
  <2>2. ASSUME NEW d \in Conversation, x \in api[d].held \cup want[d]
        PROVE  x \in api'[d].held \cup want'[d]
    BY <1>1, <2>2 DEF OthersStay
  <2>3. \A i \in DOMAIN queue[x] : queue[x][i] \in Conversation
    BY <2>1
  <2> QED
    BY <1>1, <2>1, <2>2, <2>3 DEF LockQueue
<1> QED
  BY <1>3, <1>4, LockParts

(* A block joins the queue of a memory, and takes the guard of a free one. *)
LEMMA LockAcquired ==
  ASSUME TypeOK, LockInv, NEW c \in Conversation, NEW m \in Stubs, Acquire(c, m), OthersStay(c),
         queue[m] = <<>> => Locks(c, m)
  PROVE  LockInv'
<1>1. /\ pc[c] = "lock" /\ pc'[c] = "lock" /\ m \in want[c]
      /\ \A x \in Stubs : x # m => queue'[x] = queue[x]
      /\ queue'[m] = Append(queue[m], c)
      /\ queue[m] = <<>> => want'[c] = want[c] \ {m} /\ api'[c].held = api[c].held \cup {m}
      /\ queue[m] # <<>> => want'[c] = want[c] /\ api'[c] = api[c]
  BY DEF Acquire, Locks, TypeOK
<1>2. queue[m] \in Seq(Conversation) /\ c \notin Range(queue[m])
  BY DEF Acquire, TypeOK
<1>3. PICK q : q = queue[m]
  OBVIOUS
<1>4. /\ q \in Seq(Conversation) /\ Len(q) \in Nat /\ DOMAIN q = 1 .. Len(q)
      /\ \A i \in 1 .. Len(q) : q[i] # c
  BY <1>2, <1>3 DEF Range
<1>5. PICK w : w = Append(q, c)
  OBVIOUS
<1>6. /\ DOMAIN w = 1 .. Len(q) + 1 /\ w[Len(q) + 1] = c /\ Len(w) = Len(q) + 1
      /\ \A i \in 1 .. Len(q) : w[i] = q[i]
  BY <1>4, <1>5
<1>7. q = <<>> => Len(q) = 0
  BY <1>4
<1>8. q # <<>> => Len(q) > 0
  BY <1>4
<1>9. Len(w) > 0 /\ (q = <<>> => w[1] = c) /\ (q # <<>> => w[1] = q[1])
  BY <1>4, <1>6, <1>7, <1>8
<1>10. queue'[m] = w /\ queue[m] = q
  BY <1>1, <1>3, <1>5
<1>11. ASSUME NEW d \in Conversation PROVE LockBlock(d)'
  <2>1. LockBlock(d)
    BY LockParts
  <2>2. api[d].held \subseteq Stubs
    BY HeadMoves, ApiFields DEF TypeOK
  <2>3. \A x \in api[d].held : Len(queue'[x]) > 0 /\ queue'[x][1] = d
    <3>1. ASSUME NEW x \in api[d].held PROVE Len(queue'[x]) > 0 /\ queue'[x][1] = d
      <4>1. Len(queue[x]) > 0 /\ queue[x][1] = d
        BY <2>1 DEF LockBlock
      <4>2. CASE x # m
        BY <1>1, <2>2, <4>1, <4>2
      <4>3. CASE x = m
        <5>1. Len(q) > 0 /\ q[1] = d
          BY <1>10, <4>1, <4>3
        <5>2. q # <<>>
          BY <1>7, <5>1
        <5> QED
          BY <1>9, <1>10, <4>3, <5>1, <5>2
      <4> QED
        BY <4>2, <4>3
    <3> QED
      BY <3>1
  <2>4. CASE d = c
    <3>1. CASE q = <<>>
      <4>1. Len(queue'[m]) > 0 /\ queue'[m][1] = c
        BY <1>9, <1>10, <3>1
      <4> QED
        BY <1>1, <1>10, <2>1, <2>3, <2>4, <3>1, <4>1 DEF LockBlock
    <3>2. CASE q # <<>>
      BY <1>1, <1>10, <2>1, <2>3, <2>4, <3>2 DEF LockBlock
    <3> QED
      BY <3>1, <3>2
  <2>5. CASE d # c
    BY <2>1, <2>3, <2>5 DEF LockBlock, OthersStay
  <2> QED
    BY <2>4, <2>5
<1>12. ASSUME NEW x \in Stubs PROVE LockQueue(x)'
  <2>1. LockQueue(x) /\ queue[x] \in Seq(Conversation)
    BY LockParts DEF TypeOK
  <2>2. ASSUME NEW d \in Conversation, x \in api[d].held \cup want[d]
        PROVE  x \in api'[d].held \cup want'[d]
    BY <1>1, <2>2 DEF OthersStay
  <2>3. \A i \in DOMAIN queue[x] : queue[x][i] \in Conversation
    BY <2>1
  <2>4. CASE x # m
    BY <1>1, <2>1, <2>2, <2>3, <2>4 DEF LockQueue
  <2>5. CASE x = m
    <3>1. IsInjective(w)
      <4>1. \A i, j \in 1 .. Len(q) : q[i] = q[j] => i = j
        BY <1>4, <1>10, <2>1, <2>5 DEF LockQueue, IsInjective
      <4>2. \A i \in 1 .. Len(q) + 1 : i \in 1 .. Len(q) \/ i = Len(q) + 1
        BY <1>4
      <4>3. \A i, j \in 1 .. Len(q) + 1 : w[i] = w[j] => i = j
        BY <1>4, <1>6, <4>1, <4>2
      <4> QED
        BY <1>6, <4>3 DEF IsInjective
    <3>2. m \in api'[c].held \cup want'[c]
      BY <1>1
    <3>3. ASSUME NEW i \in 1 .. Len(q) PROVE m \in api'[w[i]].held \cup want'[w[i]]
      BY <1>4, <1>6, <1>10, <2>1, <2>2, <2>3, <2>5 DEF LockQueue
    <3>4. \A i \in DOMAIN w : i \in 1 .. Len(q) \/ i = Len(q) + 1
      BY <1>4, <1>6
    <3>5. \A i \in DOMAIN w : m \in api'[w[i]].held \cup want'[w[i]]
      BY <1>6, <3>2, <3>3, <3>4
    <3> QED
      BY <1>10, <2>5, <3>1, <3>5 DEF LockQueue
  <2> QED
    BY <2>4, <2>5
<1> QED
  BY <1>11, <1>12, LockParts

(* Every step keeps the locks. *)
LEMMA LockStep ==
  ASSUME TypeOK, LockInv, OpInv, EffectInv, LogOK', head' >= head, BlockNext
  PROVE  LockInv'
<1>1. ASSUME NEW c \in Conversation, Begin(c) PROVE LockInv'
  <2>1. OthersStay(c)
    BY <1>1, OnlyTheActor
  <2>2. LockBlock(c)
    BY LockParts
  <2>3. /\ queue' = queue /\ want'[c] = want[c]
        /\ pc'[c] # "lock" /\ pc'[c] # "idle" /\ (pc[c] # "lock" \/ want[c] = {})
    BY <1>1 DEF Begin, hist, TypeOK
  <2>4. api'[c].held = api[c].held
    BY <1>1 DEF Begin, hist
  <2>5. want[c] = {}
    BY <2>2, <2>3 DEF LockBlock
  <2> QED
    BY <2>1, <2>3, <2>4, <2>5, LocksKept
<1>2. ASSUME NEW c \in Conversation, Asks(c) PROVE LockInv'
  <2>1. OthersStay(c)
    BY <1>2, OnlyTheActor
  <2>2. LockBlock(c)
    BY LockParts
  <2>3. PICK ids : want' = [want EXCEPT ![c] = ids \ api[c].held]
    BY <1>2 DEF Asks, Call
  <2>4. queue' = queue /\ pc'[c] = "lock" /\ pc[c] = "run" /\ api' = api
    BY <1>2 DEF Asks, Call, TypeOK
  <2>5. want[c] = {} /\ want'[c] = ids \ api[c].held
    BY <2>2, <2>3, <2>4 DEF LockBlock, TypeOK
  <2> QED
    BY <2>1, <2>4, <2>5, LocksKept
<1>3. ASSUME NEW c \in Conversation, NEW n \in NewName, CallCreate(c, n) PROVE LockInv'
  <2>1. OthersStay(c)
    BY <1>3, OnlyTheActor
  <2>2. LockBlock(c)
    BY LockParts
  <2>3. /\ queue' = queue /\ want'[c] = want[c]
        /\ pc'[c] # "lock" /\ pc'[c] # "idle" /\ (pc[c] # "lock" \/ want[c] = {})
    BY <1>3 DEF CallCreate, hist, TypeOK
  <2>4. api'[c].held = api[c].held
    BY <1>3, CreateStep DEF Buffers
  <2>5. want[c] = {}
    BY <2>2, <2>3 DEF LockBlock
  <2> QED
    BY <2>1, <2>3, <2>4, <2>5, LocksKept
<1>4. ASSUME NEW c \in Conversation, NEW m \in Stubs, Acquire(c, m) PROVE LockInv'
  <2>1. OthersStay(c)
    BY <1>4, OnlyTheActor
  <2>2. queue[m] = <<>> => Locks(c, m)
    BY <1>4, LockJoins DEF Acquire
  <2> QED
    BY <1>4, <2>1, <2>2, LockAcquired
<1>5. ASSUME NEW c \in Conversation, NEW m \in Stubs, Granted(c, m) PROVE LockInv'
  <2>1. OthersStay(c)
    BY <1>5, OnlyTheActor
  <2>2. Locks(c, m)
    BY <1>5, LockJoins DEF Granted
  <2> QED
    BY <1>5, <2>1, <2>2, LockGranted
<1>6. ASSUME NEW c \in Conversation, Operate(c) PROVE LockInv'
  <2>1. OthersStay(c)
    BY <1>6, OnlyTheActor
  <2>2. LockBlock(c)
    BY LockParts
  <2>3. /\ queue' = queue /\ want'[c] = want[c]
        /\ pc'[c] # "lock" /\ pc'[c] # "idle" /\ (pc[c] # "lock" \/ want[c] = {})
    BY <1>6 DEF Operate, hist, TypeOK
  <2>4. api'[c].held = api[c].held
    BY <1>6, OperateStep
  <2>5. want[c] = {}
    BY <2>2, <2>3 DEF LockBlock
  <2> QED
    BY <2>1, <2>3, <2>4, <2>5, LocksKept
<1>7. ASSUME NEW c \in Conversation, ReadFails(c) PROVE LockInv'
  <2>1. OthersStay(c)
    BY <1>7, OnlyTheActor
  <2>2. LockBlock(c)
    BY LockParts
  <2>3. /\ queue' = queue /\ want'[c] = want[c]
        /\ pc'[c] # "lock" /\ pc'[c] # "idle" /\ (pc[c] # "lock" \/ want[c] = {})
    BY <1>7 DEF ReadFails, hist, TypeOK
  <2>4. api'[c].held = api[c].held
    BY <1>7, ReadFailsStep
  <2>5. want[c] = {}
    BY <2>2, <2>3 DEF LockBlock
  <2> QED
    BY <2>1, <2>3, <2>4, <2>5, LocksKept
<1>8. ASSUME NEW c \in Conversation, CallTool(c) PROVE LockInv'
  <2>1. OthersStay(c)
    BY <1>8, OnlyTheActor
  <2>2. LockBlock(c)
    BY LockParts
  <2>3. /\ queue' = queue /\ want'[c] = want[c]
        /\ pc'[c] # "lock" /\ pc'[c] # "idle" /\ (pc[c] # "lock" \/ want[c] = {})
    BY <1>8 DEF CallTool, Request, TypeOK
  <2>4. api'[c].held = api[c].held
    BY <1>8 DEF CallTool, Request
  <2>5. want[c] = {}
    BY <2>2, <2>3 DEF LockBlock
  <2> QED
    BY <2>1, <2>3, <2>4, <2>5, LocksKept
<1>9. ASSUME NEW c \in Conversation, Spawned(c) PROVE LockInv'
  <2>1. OthersStay(c)
    BY <1>9, OnlyTheActor
  <2>2. LockBlock(c)
    BY LockParts
  <2>3. /\ queue' = queue /\ want'[c] = want[c]
        /\ pc'[c] # "lock" /\ pc'[c] # "idle" /\ (pc[c] # "lock" \/ want[c] = {})
    BY <1>9 DEF Spawned, Request, TypeOK
  <2>4. api'[c].held = api[c].held
    BY <1>9 DEF Spawned, Request
  <2>5. want[c] = {}
    BY <2>2, <2>3 DEF LockBlock
  <2> QED
    BY <2>1, <2>3, <2>4, <2>5, LocksKept
<1>10. ASSUME NEW c \in Conversation, SpawnFails(c) PROVE LockInv'
  <2>1. OthersStay(c)
    BY <1>10, OnlyTheActor
  <2>2. LockBlock(c)
    BY LockParts
  <2>3. /\ queue' = queue /\ want'[c] = want[c]
        /\ pc'[c] # "lock" /\ pc'[c] # "idle" /\ (pc[c] # "lock" \/ want[c] = {})
    BY <1>10 DEF SpawnFails, hist, TypeOK
  <2>4. api'[c].held = api[c].held
    BY <1>10 DEF SpawnFails, hist
  <2>5. want[c] = {}
    BY <2>2, <2>3 DEF LockBlock
  <2> QED
    BY <2>1, <2>3, <2>4, <2>5, LocksKept
<1>11. ASSUME NEW c \in Conversation, Answered(c) PROVE LockInv'
  <2>1. OthersStay(c)
    BY <1>11, OnlyTheActor
  <2>2. LockBlock(c)
    BY LockParts
  <2>3. /\ queue' = queue /\ want'[c] = want[c]
        /\ pc'[c] # "lock" /\ pc'[c] # "idle" /\ (pc[c] # "lock" \/ want[c] = {})
    BY <1>11 DEF Answered, hist, TypeOK
  <2>4. api'[c].held = api[c].held
    BY <1>11 DEF Answered, hist
  <2>5. want[c] = {}
    BY <2>2, <2>3 DEF LockBlock
  <2> QED
    BY <2>1, <2>3, <2>4, <2>5, LocksKept
<1>12. ASSUME NEW c \in Conversation, NEW outcome \in Outcomes, End(c, outcome) PROVE LockInv'
  <2>1. OthersStay(c)
    BY <1>12, OnlyTheActor
  <2>2. LockBlock(c)
    BY LockParts
  <2>3. /\ queue' = queue /\ want'[c] = want[c]
        /\ pc'[c] # "lock" /\ pc'[c] # "idle" /\ (pc[c] # "lock" \/ want[c] = {})
    BY <1>12 DEF End, hist, TypeOK
  <2>4. api'[c].held = api[c].held
    BY <1>12 DEF End, hist
  <2>5. want[c] = {}
    BY <2>2, <2>3 DEF LockBlock
  <2> QED
    BY <2>1, <2>3, <2>4, <2>5, LocksKept
<1>13. ASSUME NEW c \in Conversation, EndDry(c) PROVE LockInv'
  <2>1. OthersStay(c)
    BY <1>13, OnlyTheActor
  <2>2. ReleaseLocks(c)
    BY <1>13 DEF EndDry
  <2>3. api'[c] = FreshApi
    BY <1>13, FreshStep DEF EndDry, Leave
  <2>4. want'[c] = {}
    BY <1>13, LockParts DEF EndDry, LockBlock
  <2> QED
    BY <2>1, <2>2, <2>3, <2>4, LocksDropped
<1>14. ASSUME NEW c \in Conversation, InfraError(c) PROVE LockInv'
  <2>1. OthersStay(c)
    BY <1>14, OnlyTheActor
  <2>2. ReleaseLocks(c)
    BY <1>14 DEF InfraError
  <2>3. api'[c] = FreshApi
    BY <1>14, FreshStep DEF InfraError, Leave
  <2>4. want'[c] = {}
    BY <1>14, LockParts DEF InfraError, LockBlock
  <2> QED
    BY <2>1, <2>2, <2>3, <2>4, LocksDropped
<1>15. ASSUME NEW c \in Conversation, Fold(c) PROVE LockInv'
  <2>1. OthersStay(c)
    BY <1>15, OnlyTheActor
  <2>2. ReleaseLocks(c)
    BY <1>15 DEF Fold
  <2>3. api'[c] = FreshApi
    BY <1>15, FreshStep DEF Fold, Leave
  <2>4. want'[c] = {}
    BY <1>15, LockParts DEF Fold, LockBlock
  <2> QED
    BY <2>1, <2>2, <2>3, <2>4, LocksDropped
<1>16. ASSUME NEW c \in Conversation, TimesOut(c) PROVE LockInv'
  <2>1. OthersStay(c)
    BY <1>16, OnlyTheActor
  <2>2. ReleaseLocks(c)
    BY <1>16 DEF TimesOut, Overrun
  <2>3. api'[c] = FreshApi
    BY <1>16, FreshStep DEF TimesOut, Leave
  <2>4. want'[c] = {}
    BY <1>16 DEF TimesOut, Overrun, TypeOK
  <2> QED
    BY <2>1, <2>2, <2>3, <2>4, LocksDropped
<1>17. ASSUME NEW c \in Conversation, Retry(c) PROVE LockInv'
  <2>1. OthersStay(c)
    BY <1>17, OnlyTheActor
  <2>2. ReleaseLocks(c)
    BY <1>17 DEF Retry, Overrun
  <2>3. api'[c] = FreshApi
    BY <1>17, FreshStep DEF Retry, Leave
  <2>4. want'[c] = {}
    BY <1>17 DEF Retry, Overrun, TypeOK
  <2> QED
    BY <2>1, <2>2, <2>3, <2>4, LocksDropped
<1>18. ASSUME NEW m \in Stubs, ProjectOnto(m) PROVE LockInv'
  <2>1. pc' = pc /\ want' = want /\ api' = api /\ queue' = queue
    BY <1>18 DEF ProjectOnto
  <2> QED
    BY <2>1 DEF LockInv
<1> QED
  BY <1>1, <1>2, <1>3, <1>4, <1>5, <1>6, <1>7, <1>8, <1>9, <1>10, <1>11, <1>12, <1>13, <1>14,
     <1>15, <1>16, <1>17, <1>18, Steps

-----------------------------------------------------------------------------
(* What the actor of a step has under way, holds and has called.           *)

OpBlock(c) ==
    pc[c] = "lock" =>
        /\ op[c] \in Operation
        /\ op[c].mem \in api[c].held \cup want[c]
        /\ op[c].kind = "read" => Class(op[c].mem) \subseteq api[c].held \cup want[c]

HoldBlock(c) ==
    pc[c] \in Evaluating =>
        /\ \A i \in DOMAIN api[c].buf : api[c].buf[i].kind = "entry" =>
              \E x \in api[c].held : api[c].buf[i].mem = Primary[x]
        /\ \A m \in DOMAIN api[c].seen : Class(m) \subseteq api[c].held

EffectBlock(c) ==
    /\ ~desynced[c]
    /\ effects[c] \subseteq {attempt[c]}
    /\ effects[c] # {} => mcp[c].made
    /\ pc[c] = "idle" => effects[c] = {}
    /\ pc[c] # "idle" => attempt[c] >= 1

LEMMA BlockParts ==
  /\ OpInv <=> \A c \in Conversation : OpBlock(c)
  /\ OpInv' <=> \A c \in Conversation : OpBlock(c)'
  /\ HoldInv <=> \A c \in Conversation : HoldBlock(c)
  /\ HoldInv' <=> \A c \in Conversation : HoldBlock(c)'
  /\ EffectInv <=> \A c \in Conversation : EffectBlock(c)
  /\ EffectInv' <=> \A c \in Conversation : EffectBlock(c)'
  BY DEF OpInv, OpBlock, HoldInv, HoldBlock, EffectInv, EffectBlock

(* The block of another stays as it is. *)
LEMMA OthersKeep ==
  ASSUME NEW c \in Conversation, OthersStay(c), NEW d \in Conversation, d # c,
         OpBlock(d), HoldBlock(d), EffectBlock(d)
  PROVE  OpBlock(d)' /\ HoldBlock(d)' /\ EffectBlock(d)'
<1>1. /\ pc'[d] = pc[d] /\ attempt'[d] = attempt[d] /\ op'[d] = op[d]
      /\ want'[d] = want[d] /\ api'[d] = api[d]
      /\ mcp'[d] = mcp[d] /\ effects'[d] = effects[d] /\ desynced'[d] = desynced[d]
  BY DEF OthersStay
<1> QED
  BY <1>1 DEF OpBlock, HoldBlock, EffectBlock

(* The operation under way. *)
LEMMA OpMoves ==
  ASSUME TypeOK, LockInv, OpInv, HoldInv, EffectInv, LogOK', head' >= head,
         NEW c \in Conversation
  PROVE
    /\ Begin(c) => OpBlock(c)'
    /\ Asks(c) => OpBlock(c)'
    /\ \A n \in NewName : CallCreate(c, n) => OpBlock(c)'
    /\ \A m \in Stubs : Acquire(c, m) => OpBlock(c)'
    /\ \A m \in Stubs : Granted(c, m) => OpBlock(c)'
    /\ Operate(c) => OpBlock(c)'
    /\ ReadFails(c) => OpBlock(c)'
    /\ CallTool(c) => OpBlock(c)'
    /\ Spawned(c) => OpBlock(c)'
    /\ SpawnFails(c) => OpBlock(c)'
    /\ Answered(c) => OpBlock(c)'
    /\ \A outcome \in Outcomes : End(c, outcome) => OpBlock(c)'
    /\ EndDry(c) => OpBlock(c)'
    /\ InfraError(c) => OpBlock(c)'
    /\ Fold(c) => OpBlock(c)'
    /\ TimesOut(c) => OpBlock(c)'
    /\ Retry(c) => OpBlock(c)'
<1>1. ASSUME Begin(c) PROVE OpBlock(c)'
  <2>1. pc'[c] # "lock"
    BY <1>1 DEF Begin, hist, TypeOK
  <2> QED
    BY <2>1 DEF OpBlock
<1>2. ASSUME Asks(c) PROVE OpBlock(c)'
  <2>1. PICK o \in Operation, ids \in SUBSET Stubs :
           /\ Call(c, o, ids) /\ o.mem \in ids
           /\ o.kind = "read" => Class(o.mem) \subseteq ids
    BY <1>2 DEF Asks
  <2>2. op'[c] = o /\ want'[c] = ids \ api[c].held /\ api'[c] = api[c]
    BY <2>1 DEF Call, TypeOK
  <2> QED
    BY <2>1, <2>2 DEF OpBlock
<1>3. ASSUME NEW n \in NewName, CallCreate(c, n) PROVE OpBlock(c)'
  <2>1. pc'[c] # "lock"
    BY <1>3 DEF CallCreate, hist, TypeOK
  <2> QED
    BY <2>1 DEF OpBlock
<1>4. ASSUME NEW m \in Stubs, Acquire(c, m) PROVE OpBlock(c)'
  <2>1. /\ pc[c] = "lock" /\ op'[c] = op[c]
        /\ api[c].held \cup want[c] \subseteq api'[c].held \cup want'[c]
    <3>1. CASE queue[m] = <<>>
      <4>1. Locks(c, m)
        BY <1>4, <3>1, LockJoins DEF Acquire
      <4>2. want'[c] = want[c] \ {m} /\ op'[c] = op[c] /\ pc[c] = "lock"
        BY <1>4, <3>1 DEF Acquire, TypeOK
      <4> QED
        BY <4>1, <4>2 DEF Locks
    <3>2. CASE queue[m] # <<>>
      BY <1>4, <3>2 DEF Acquire
    <3> QED
      BY <3>1, <3>2
  <2> QED
    BY <2>1, BlockParts DEF OpBlock
<1>5. ASSUME NEW m \in Stubs, Granted(c, m) PROVE OpBlock(c)'
  <2>1. /\ pc[c] = "lock" /\ op'[c] = op[c]
        /\ api[c].held \cup want[c] \subseteq api'[c].held \cup want'[c]
    BY <1>5, LockJoins DEF Granted, Locks, TypeOK
  <2> QED
    BY <2>1, BlockParts DEF OpBlock
<1>6. ASSUME Operate(c) PROVE OpBlock(c)'
  <2>1. pc'[c] # "lock"
    BY <1>6 DEF Operate, hist, TypeOK
  <2> QED
    BY <2>1 DEF OpBlock
<1>7. ASSUME ReadFails(c) PROVE OpBlock(c)'
  <2>1. pc'[c] # "lock"
    BY <1>7 DEF ReadFails, hist, TypeOK
  <2> QED
    BY <2>1 DEF OpBlock
<1>8. ASSUME CallTool(c) PROVE OpBlock(c)'
  <2>1. pc'[c] # "lock"
    BY <1>8 DEF CallTool, Request, TypeOK
  <2> QED
    BY <2>1 DEF OpBlock
<1>9. ASSUME Spawned(c) PROVE OpBlock(c)'
  <2>1. pc'[c] # "lock"
    BY <1>9 DEF Spawned, Request, TypeOK
  <2> QED
    BY <2>1 DEF OpBlock
<1>10. ASSUME SpawnFails(c) PROVE OpBlock(c)'
  <2>1. pc'[c] # "lock"
    BY <1>10 DEF SpawnFails, hist, TypeOK
  <2> QED
    BY <2>1 DEF OpBlock
<1>11. ASSUME Answered(c) PROVE OpBlock(c)'
  <2>1. pc'[c] # "lock"
    BY <1>11 DEF Answered, hist, TypeOK
  <2> QED
    BY <2>1 DEF OpBlock
<1>12. ASSUME NEW outcome \in Outcomes, End(c, outcome) PROVE OpBlock(c)'
  <2>1. pc'[c] # "lock"
    BY <1>12 DEF End, hist, TypeOK
  <2> QED
    BY <2>1 DEF OpBlock
<1>13. ASSUME EndDry(c) PROVE OpBlock(c)'
  <2>1. pc'[c] # "lock"
    BY <1>13 DEF EndDry, Leave, TypeOK
  <2> QED
    BY <2>1 DEF OpBlock
<1>14. ASSUME InfraError(c) PROVE OpBlock(c)'
  <2>1. pc'[c] # "lock"
    BY <1>14 DEF InfraError, Leave, TypeOK
  <2> QED
    BY <2>1 DEF OpBlock
<1>15. ASSUME Fold(c) PROVE OpBlock(c)'
  <2>1. pc'[c] # "lock"
    BY <1>15 DEF Fold, Leave, TypeOK
  <2> QED
    BY <2>1 DEF OpBlock
<1>16. ASSUME TimesOut(c) PROVE OpBlock(c)'
  <2>1. pc'[c] # "lock"
    BY <1>16 DEF TimesOut, Overrun, Leave, TypeOK
  <2> QED
    BY <2>1 DEF OpBlock
<1>17. ASSUME Retry(c) PROVE OpBlock(c)'
  <2>1. pc'[c] # "lock"
    BY <1>17 DEF Retry, Overrun, TypeOK
  <2> QED
    BY <2>1 DEF OpBlock
<1> QED
  BY <1>1, <1>2, <1>3, <1>4, <1>5, <1>6, <1>7, <1>8, <1>9, <1>10, <1>11, <1>12, <1>13, <1>14,
     <1>15, <1>16, <1>17

(* What a block holds. *)
LEMMA HoldMoves ==
  ASSUME TypeOK, LockInv, OpInv, HoldInv, EffectInv, LogOK', head' >= head,
         NEW c \in Conversation
  PROVE
    /\ Begin(c) => HoldBlock(c)'
    /\ Asks(c) => HoldBlock(c)'
    /\ \A n \in NewName : CallCreate(c, n) => HoldBlock(c)'
    /\ \A m \in Stubs : Acquire(c, m) => HoldBlock(c)'
    /\ \A m \in Stubs : Granted(c, m) => HoldBlock(c)'
    /\ Operate(c) => HoldBlock(c)'
    /\ ReadFails(c) => HoldBlock(c)'
    /\ CallTool(c) => HoldBlock(c)'
    /\ Spawned(c) => HoldBlock(c)'
    /\ SpawnFails(c) => HoldBlock(c)'
    /\ Answered(c) => HoldBlock(c)'
    /\ \A outcome \in Outcomes : End(c, outcome) => HoldBlock(c)'
    /\ EndDry(c) => HoldBlock(c)'
    /\ InfraError(c) => HoldBlock(c)'
    /\ Fold(c) => HoldBlock(c)'
    /\ TimesOut(c) => HoldBlock(c)'
    /\ Retry(c) => HoldBlock(c)'
<1>1. ASSUME Begin(c) PROVE HoldBlock(c)'
  <2>1. api'[c] = FreshApi
    BY <1>1, LockParts DEF Begin, LockBlock
  <2>2. DOMAIN api'[c].buf = {} /\ DOMAIN api'[c].seen = {}
    BY <2>1, HeadMoves, FreshFacts
  <2> QED
    BY <2>2 DEF HoldBlock
<1>2. ASSUME Asks(c) PROVE HoldBlock(c)'
  <2>1. HoldBlock(c) /\ pc[c] \in Evaluating /\ api'[c] = api[c]
    BY <1>2, BlockParts DEF Asks, Call, Evaluating
  <2> QED
    BY <2>1 DEF HoldBlock
<1>3. ASSUME NEW n \in NewName, CallCreate(c, n) PROVE HoldBlock(c)'
  <2>1. PICK e \in Event : e.kind = "name" /\ Buffers(c, e)
    BY <1>3, CreateStep
  <2>2. HoldBlock(c) /\ pc[c] = "run"
    BY <1>3, BlockParts DEF CallCreate
  <2>3. PICK b : b = api[c].buf
    OBVIOUS
  <2>4. b \in Seq(Event)
    BY <2>3, HeadMoves, ApiFields DEF TypeOK
  <2>5. /\ api'[c].buf = Append(b, e) /\ api'[c].seen = api[c].seen /\ api'[c].held = api[c].held
    BY <2>1, <2>3 DEF Buffers
  <2>6. \A i \in DOMAIN Append(b, e) : Append(b, e)[i] = e \/ (i \in DOMAIN b /\ Append(b, e)[i] = b[i])
    BY <2>4
  <2> QED
    BY <2>1, <2>2, <2>3, <2>5, <2>6 DEF HoldBlock, Evaluating
<1>4. ASSUME NEW m \in Stubs, Acquire(c, m) PROVE HoldBlock(c)'
  <2>1. HoldBlock(c) /\ pc[c] \in Evaluating
    BY <1>4, BlockParts DEF Acquire, Evaluating
  <2>2. /\ api'[c].buf = api[c].buf /\ api'[c].seen = api[c].seen
        /\ api[c].held \subseteq api'[c].held
    BY <1>4, LockJoins DEF Acquire, Locks
  <2> QED
    BY <2>1, <2>2 DEF HoldBlock
<1>5. ASSUME NEW m \in Stubs, Granted(c, m) PROVE HoldBlock(c)'
  <2>1. HoldBlock(c) /\ pc[c] \in Evaluating
    BY <1>5, BlockParts DEF Granted, Evaluating
  <2>2. /\ api'[c].buf = api[c].buf /\ api'[c].seen = api[c].seen
        /\ api[c].held \subseteq api'[c].held
    BY <1>5, LockJoins DEF Granted, Locks
  <2> QED
    BY <2>1, <2>2 DEF HoldBlock
<1>6. ASSUME Operate(c) PROVE HoldBlock(c)'
  <2>1. HoldBlock(c) /\ OpBlock(c) /\ pc[c] = "lock" /\ want[c] = {}
    BY <1>6, BlockParts DEF Operate
  <2>2. /\ op[c].mem \in api[c].held /\ op[c].mem \in Stubs
        /\ op[c].kind = "read" => Class(op[c].mem) \subseteq api[c].held
    BY <2>1 DEF OpBlock, Operation
  <2>3. /\ Buffered(c) \in Seq(Event)
        /\ \/ Buffered(c) = <<>>
           \/ \E e \in Event : Buffered(c) = <<e>> /\ (e.kind = "entry" => e.mem = Primary[op[c].mem])
        /\ api'[c].buf = api[c].buf \o Buffered(c)
        /\ api'[c].seen = Seen(c) /\ api'[c].held = api[c].held
    BY <1>6, OperateStep
  <2>4. PICK b, g : b = api[c].buf /\ g = Buffered(c)
    OBVIOUS
  <2>5. b \in Seq(Event) /\ g \in Seq(Event)
    BY <2>3, <2>4, HeadMoves, ApiFields DEF TypeOK
  <2>6. \A i \in DOMAIN (b \o g) :
           \/ (i \in DOMAIN b /\ (b \o g)[i] = b[i])
           \/ \E j \in DOMAIN g : (b \o g)[i] = g[j]
    <3>1. SUFFICES ASSUME NEW i \in DOMAIN (b \o g), i \notin DOMAIN b
                   PROVE  \E j \in DOMAIN g : (b \o g)[i] = g[j]
      BY <2>5
    <3>2. i - Len(b) \in DOMAIN g /\ (b \o g)[i] = g[i - Len(b)]
      BY <2>5, <3>1
    <3> QED
      BY <3>2
  <2>7. \A j \in DOMAIN g : g[j].kind = "entry" => g[j].mem = Primary[op[c].mem]
    <3>1. CASE g = <<>>
      BY <3>1
    <3>2. CASE \E e \in Event : g = <<e>> /\ (e.kind = "entry" => e.mem = Primary[op[c].mem])
      <4>1. PICK e : g = <<e>> /\ (e.kind = "entry" => e.mem = Primary[op[c].mem])
        BY <3>2
      <4>2. \A j \in DOMAIN g : g[j] = e
        BY <4>1
      <4> QED
        BY <4>1, <4>2
    <3> QED
      BY <2>3, <2>4, <3>1, <3>2
  <2>8. \A i \in DOMAIN (b \o g) : (b \o g)[i].kind = "entry" =>
           \E x \in api[c].held : (b \o g)[i].mem = Primary[x]
    <3>1. \A i \in DOMAIN b : b[i].kind = "entry" => \E x \in api[c].held : b[i].mem = Primary[x]
      BY <2>1, <2>4 DEF HoldBlock, Evaluating
    <3>2. \A j \in DOMAIN g : g[j].kind = "entry" => \E x \in api[c].held : g[j].mem = Primary[x]
      BY <2>2, <2>7
    <3> QED
      BY <2>6, <3>1, <3>2
  <2>9. \A x \in DOMAIN Seen(c) : Class(x) \subseteq api[c].held
    <3>1. \A x \in DOMAIN api[c].seen : Class(x) \subseteq api[c].held
      BY <2>1 DEF HoldBlock, Evaluating
    <3>2. ASSUME NEW x \in DOMAIN Seen(c)
          PROVE  x \in DOMAIN api[c].seen \/ (op[c].kind = "read" /\ x \in Class(op[c].mem))
      BY <3>2 DEF Seen
    <3>3. ASSUME NEW x \in Class(op[c].mem) PROVE Class(x) = Class(op[c].mem)
      BY <2>2, ClassFacts
    <3> QED
      BY <2>2, <3>1, <3>2, <3>3
  <2> QED
    BY <2>3, <2>4, <2>8, <2>9 DEF HoldBlock
<1>7. ASSUME ReadFails(c) PROVE HoldBlock(c)'
  <2>1. HoldBlock(c) /\ pc[c] \in Evaluating
    BY <1>7, BlockParts DEF ReadFails, Evaluating
  <2>2. /\ api'[c].buf = api[c].buf /\ api'[c].seen = api[c].seen
        /\ api[c].held \subseteq api'[c].held
    BY <1>7, ReadFailsStep DEF ReadFails, Locks
  <2> QED
    BY <2>1, <2>2 DEF HoldBlock
<1>8. ASSUME CallTool(c) PROVE HoldBlock(c)'
  <2>1. HoldBlock(c) /\ pc[c] \in Evaluating /\ api'[c] = api[c]
    BY <1>8, BlockParts DEF CallTool, Evaluating
  <2> QED
    BY <2>1 DEF HoldBlock
<1>9. ASSUME Spawned(c) PROVE HoldBlock(c)'
  <2>1. HoldBlock(c) /\ pc[c] \in Evaluating /\ api'[c] = api[c]
    BY <1>9, BlockParts DEF Spawned, Evaluating
  <2> QED
    BY <2>1 DEF HoldBlock
<1>10. ASSUME SpawnFails(c) PROVE HoldBlock(c)'
  <2>1. HoldBlock(c) /\ pc[c] \in Evaluating /\ api'[c] = api[c]
    BY <1>10, BlockParts DEF SpawnFails, Evaluating
  <2> QED
    BY <2>1 DEF HoldBlock
<1>11. ASSUME Answered(c) PROVE HoldBlock(c)'
  <2>1. HoldBlock(c) /\ pc[c] \in Evaluating /\ api'[c] = api[c]
    BY <1>11, BlockParts DEF Answered, Evaluating
  <2> QED
    BY <2>1 DEF HoldBlock
<1>12. ASSUME NEW outcome \in Outcomes, End(c, outcome) PROVE HoldBlock(c)'
  <2>1. pc'[c] \notin Evaluating
    BY <1>12 DEF End, hist, TypeOK, Evaluating
  <2> QED
    BY <2>1 DEF HoldBlock
<1>13. ASSUME EndDry(c) PROVE HoldBlock(c)'
  <2>1. pc'[c] \notin Evaluating
    BY <1>13 DEF EndDry, Leave, TypeOK, Evaluating
  <2> QED
    BY <2>1 DEF HoldBlock
<1>14. ASSUME InfraError(c) PROVE HoldBlock(c)'
  <2>1. pc'[c] \notin Evaluating
    BY <1>14 DEF InfraError, Leave, TypeOK, Evaluating
  <2> QED
    BY <2>1 DEF HoldBlock
<1>15. ASSUME Fold(c) PROVE HoldBlock(c)'
  <2>1. pc'[c] \notin Evaluating
    BY <1>15 DEF Fold, Leave, TypeOK, Evaluating
  <2> QED
    BY <2>1 DEF HoldBlock
<1>16. ASSUME TimesOut(c) PROVE HoldBlock(c)'
  <2>1. api'[c] = FreshApi
    BY <1>16, FreshStep DEF TimesOut, Leave
  <2>2. DOMAIN api'[c].buf = {} /\ DOMAIN api'[c].seen = {}
    BY <2>1, HeadMoves, FreshFacts
  <2> QED
    BY <2>2 DEF HoldBlock
<1>17. ASSUME Retry(c) PROVE HoldBlock(c)'
  <2>1. api'[c] = FreshApi
    BY <1>17, FreshStep DEF Retry, Leave
  <2>2. DOMAIN api'[c].buf = {} /\ DOMAIN api'[c].seen = {}
    BY <2>1, HeadMoves, FreshFacts
  <2> QED
    BY <2>2 DEF HoldBlock
<1> QED
  BY <1>1, <1>2, <1>3, <1>4, <1>5, <1>6, <1>7, <1>8, <1>9, <1>10, <1>11, <1>12, <1>13, <1>14,
     <1>15, <1>16, <1>17

(* What a block has called. *)
LEMMA EffectMoves ==
  ASSUME TypeOK, LockInv, OpInv, HoldInv, EffectInv, LogOK', head' >= head,
         NEW c \in Conversation
  PROVE
    /\ Begin(c) => EffectBlock(c)'
    /\ Asks(c) => EffectBlock(c)'
    /\ \A n \in NewName : CallCreate(c, n) => EffectBlock(c)'
    /\ \A m \in Stubs : Acquire(c, m) => EffectBlock(c)'
    /\ \A m \in Stubs : Granted(c, m) => EffectBlock(c)'
    /\ Operate(c) => EffectBlock(c)'
    /\ ReadFails(c) => EffectBlock(c)'
    /\ CallTool(c) => EffectBlock(c)'
    /\ Spawned(c) => EffectBlock(c)'
    /\ SpawnFails(c) => EffectBlock(c)'
    /\ Answered(c) => EffectBlock(c)'
    /\ \A outcome \in Outcomes : End(c, outcome) => EffectBlock(c)'
    /\ EndDry(c) => EffectBlock(c)'
    /\ InfraError(c) => EffectBlock(c)'
    /\ Fold(c) => EffectBlock(c)'
    /\ TimesOut(c) => EffectBlock(c)'
    /\ Retry(c) => EffectBlock(c)'
<1>1. ASSUME Begin(c) PROVE EffectBlock(c)'
  <2>1. /\ effects'[c] = effects[c] /\ attempt'[c] = 1 /\ desynced'[c] = desynced[c] /\ pc[c] = "idle"
        /\ pc'[c] # "idle"
    BY <1>1 DEF Begin, hist, TypeOK
  <2>2. EffectBlock(c)
    BY BlockParts
  <2> QED
    BY <2>1, <2>2 DEF EffectBlock
<1>2. ASSUME Asks(c) PROVE EffectBlock(c)'
  <2>1. /\ effects'[c] = effects[c] /\ attempt'[c] = attempt[c] /\ desynced'[c] = desynced[c]
        /\ pc[c] # "idle" /\ pc'[c] # "idle" /\ mcp'[c] = mcp[c]
    BY <1>2 DEF Asks, Call, hist, TypeOK
  <2>2. EffectBlock(c)
    BY BlockParts
  <2> QED
    BY <2>1, <2>2 DEF EffectBlock
<1>3. ASSUME NEW n \in NewName, CallCreate(c, n) PROVE EffectBlock(c)'
  <2>1. /\ effects'[c] = effects[c] /\ attempt'[c] = attempt[c] /\ desynced'[c] = desynced[c]
        /\ pc[c] # "idle" /\ pc'[c] # "idle" /\ mcp'[c] = mcp[c]
    BY <1>3 DEF CallCreate, hist, TypeOK
  <2>2. EffectBlock(c)
    BY BlockParts
  <2> QED
    BY <2>1, <2>2 DEF EffectBlock
<1>4. ASSUME NEW m \in Stubs, Acquire(c, m) PROVE EffectBlock(c)'
  <2>1. /\ effects'[c] = effects[c] /\ attempt'[c] = attempt[c] /\ desynced'[c] = desynced[c]
        /\ pc[c] # "idle" /\ pc'[c] # "idle" /\ mcp'[c] = mcp[c]
    BY <1>4 DEF Acquire, hist, TypeOK
  <2>2. EffectBlock(c)
    BY BlockParts
  <2> QED
    BY <2>1, <2>2 DEF EffectBlock
<1>5. ASSUME NEW m \in Stubs, Granted(c, m) PROVE EffectBlock(c)'
  <2>1. /\ effects'[c] = effects[c] /\ attempt'[c] = attempt[c] /\ desynced'[c] = desynced[c]
        /\ pc[c] # "idle" /\ pc'[c] # "idle" /\ mcp'[c] = mcp[c]
    BY <1>5 DEF Granted, hist, TypeOK
  <2>2. EffectBlock(c)
    BY BlockParts
  <2> QED
    BY <2>1, <2>2 DEF EffectBlock
<1>6. ASSUME Operate(c) PROVE EffectBlock(c)'
  <2>1. /\ effects'[c] = effects[c] /\ attempt'[c] = attempt[c] /\ desynced'[c] = desynced[c]
        /\ pc[c] # "idle" /\ pc'[c] # "idle" /\ mcp'[c] = mcp[c]
    BY <1>6 DEF Operate, hist, TypeOK
  <2>2. EffectBlock(c)
    BY BlockParts
  <2> QED
    BY <2>1, <2>2 DEF EffectBlock
<1>7. ASSUME ReadFails(c) PROVE EffectBlock(c)'
  <2>1. /\ effects'[c] = effects[c] /\ attempt'[c] = attempt[c] /\ desynced'[c] = desynced[c]
        /\ pc[c] # "idle" /\ pc'[c] # "idle" /\ mcp'[c] = mcp[c]
    BY <1>7 DEF ReadFails, hist, TypeOK
  <2>2. EffectBlock(c)
    BY BlockParts
  <2> QED
    BY <2>1, <2>2 DEF EffectBlock
<1>8. ASSUME CallTool(c) PROVE EffectBlock(c)'
  <2>1. /\ \/ (mcp'[c].made = TRUE /\ effects'[c] = effects[c] \cup {attempt[c]})
           \/ (mcp'[c] = mcp[c] /\ effects'[c] = effects[c])
        /\ attempt'[c] = attempt[c]
        /\ desynced'[c] = desynced[c] /\ pc'[c] # "idle" /\ pc[c] # "idle"
    <3>1. CASE mcp[c].live
      BY <1>8, <3>1 DEF CallTool, Request, TypeOK
    <3>2. CASE ~mcp[c].live
      BY <1>8, <3>2 DEF CallTool, TypeOK
    <3> QED
      BY <3>1, <3>2
  <2>2. EffectBlock(c)
    BY BlockParts
  <2> QED
    BY <2>1, <2>2 DEF EffectBlock
<1>9. ASSUME Spawned(c) PROVE EffectBlock(c)'
  <2>1. /\ mcp'[c].made = TRUE /\ effects'[c] = effects[c] \cup {attempt[c]} /\ attempt'[c] = attempt[c]
        /\ desynced'[c] = desynced[c] /\ pc'[c] # "idle" /\ pc[c] # "idle"
    BY <1>9 DEF Spawned, Request, TypeOK
  <2>2. EffectBlock(c)
    BY BlockParts
  <2> QED
    BY <2>1, <2>2 DEF EffectBlock
<1>10. ASSUME SpawnFails(c) PROVE EffectBlock(c)'
  <2>1. /\ effects'[c] = effects[c] /\ attempt'[c] = attempt[c] /\ desynced'[c] = desynced[c]
        /\ pc[c] # "idle" /\ pc'[c] # "idle" /\ mcp'[c] = mcp[c]
    BY <1>10 DEF SpawnFails, hist, TypeOK
  <2>2. EffectBlock(c)
    BY BlockParts
  <2> QED
    BY <2>1, <2>2 DEF EffectBlock
<1>11. ASSUME Answered(c) PROVE EffectBlock(c)'
  <2>1. /\ effects'[c] = effects[c] /\ attempt'[c] = attempt[c] /\ desynced'[c] = desynced[c]
        /\ pc[c] # "idle" /\ pc'[c] # "idle" /\ mcp'[c].made = mcp[c].made
    BY <1>11 DEF Answered, hist, TypeOK
  <2>2. EffectBlock(c)
    BY BlockParts
  <2> QED
    BY <2>1, <2>2 DEF EffectBlock
<1>12. ASSUME NEW outcome \in Outcomes, End(c, outcome) PROVE EffectBlock(c)'
  <2>1. /\ effects'[c] = effects[c] /\ attempt'[c] = attempt[c] /\ desynced'[c] = desynced[c]
        /\ pc[c] # "idle" /\ pc'[c] # "idle" /\ mcp'[c] = mcp[c]
    BY <1>12 DEF End, hist, TypeOK
  <2>2. EffectBlock(c)
    BY BlockParts
  <2> QED
    BY <2>1, <2>2 DEF EffectBlock
<1>13. ASSUME EndDry(c) PROVE EffectBlock(c)'
  <2>1. effects'[c] = {} /\ desynced'[c] = desynced[c] /\ pc'[c] = "idle"
    BY <1>13 DEF EndDry, Leave, TypeOK
  <2>2. EffectBlock(c)
    BY BlockParts
  <2> QED
    BY <2>1, <2>2 DEF EffectBlock
<1>14. ASSUME InfraError(c) PROVE EffectBlock(c)'
  <2>1. effects'[c] = {} /\ desynced'[c] = desynced[c] /\ pc'[c] = "idle"
    BY <1>14 DEF InfraError, Leave, TypeOK
  <2>2. EffectBlock(c)
    BY BlockParts
  <2> QED
    BY <2>1, <2>2 DEF EffectBlock
<1>15. ASSUME Fold(c) PROVE EffectBlock(c)'
  <2>1. effects'[c] = {} /\ desynced'[c] = desynced[c] /\ pc'[c] = "idle"
    BY <1>15 DEF Fold, Leave, TypeOK
  <2>2. EffectBlock(c)
    BY BlockParts
  <2> QED
    BY <2>1, <2>2 DEF EffectBlock
<1>16. ASSUME TimesOut(c) PROVE EffectBlock(c)'
  <2>1. EffectBlock(c) /\ pc[c] # "idle"
    BY <1>16, BlockParts DEF TimesOut, Overrun, Evaluating
  <2>2. mcp'[c].made = mcp[c].made /\ ~desynced'[c]
    BY <1>16, <2>1, Dropped DEF TimesOut, EffectBlock
  <2>3. \/ (pc'[c] = "idle" /\ effects'[c] = {})
        \/ (pc'[c] = "fold" /\ effects'[c] = effects[c] /\ attempt'[c] = attempt[c])
    BY <1>16 DEF TimesOut, Leave, TypeOK
  <2> QED
    BY <2>1, <2>2, <2>3 DEF EffectBlock
<1>17. ASSUME Retry(c) PROVE EffectBlock(c)'
  <2>1. EffectBlock(c) /\ pc[c] # "idle"
    BY <1>17, BlockParts DEF Retry, Overrun, Evaluating
  <2>2. mcp'[c].made = mcp[c].made /\ ~desynced'[c]
    BY <1>17, <2>1, Dropped DEF Retry, EffectBlock
  <2>3. effects[c] = {}
    BY <1>17, <2>1 DEF Retry, GivesUp, EffectBlock
  <2>4. pc'[c] = "run" /\ effects'[c] = effects[c] /\ attempt'[c] = attempt[c] + 1
    BY <1>17 DEF Retry, TypeOK
  <2>5. attempt[c] \in Nat
    BY DEF TypeOK
  <2>6. attempt'[c] >= 1
    BY <2>4, <2>5
  <2> QED
    BY <2>1, <2>2, <2>3, <2>4, <2>6 DEF EffectBlock
<1> QED
  BY <1>1, <1>2, <1>3, <1>4, <1>5, <1>6, <1>7, <1>8, <1>9, <1>10, <1>11, <1>12, <1>13, <1>14,
     <1>15, <1>16, <1>17

(* Every step keeps what blocks have under way, hold and have called. *)
LEMMA BlocksStep ==
  ASSUME TypeOK, LockInv, OpInv, HoldInv, EffectInv, LogOK', head' >= head, BlockNext
  PROVE  OpInv' /\ HoldInv' /\ EffectInv'
<1>1. ASSUME NEW c \in Conversation, OthersStay(c), OpBlock(c)', HoldBlock(c)', EffectBlock(c)'
      PROVE  OpInv' /\ HoldInv' /\ EffectInv'
  <2>1. ASSUME NEW d \in Conversation PROVE OpBlock(d)' /\ HoldBlock(d)' /\ EffectBlock(d)'
    <3>1. OpBlock(d) /\ HoldBlock(d) /\ EffectBlock(d)
      BY BlockParts
    <3> QED
      BY <1>1, <3>1, OthersKeep
  <2> QED
    BY <2>1, BlockParts
<1>2. ASSUME NEW m \in Stubs, ProjectOnto(m) PROVE OpInv' /\ HoldInv' /\ EffectInv'
  <2>1. /\ pc' = pc /\ attempt' = attempt /\ op' = op /\ want' = want /\ api' = api
        /\ mcp' = mcp /\ effects' = effects /\ desynced' = desynced
    BY <1>2 DEF ProjectOnto, hist
  <2> QED
    BY <2>1 DEF OpInv, HoldInv, EffectInv

<1>3. ASSUME NEW c \in Conversation, Begin(c) PROVE OpInv' /\ HoldInv' /\ EffectInv'
  <2>1. OthersStay(c)
    BY <1>3, OnlyTheActor
  <2>2. OpBlock(c)'
    BY <1>3, OpMoves
  <2>3. HoldBlock(c)'
    BY <1>3, HoldMoves
  <2>4. EffectBlock(c)'
    BY <1>3, EffectMoves
  <2> QED
    BY <1>1, <2>1, <2>2, <2>3, <2>4
<1>4. ASSUME NEW c \in Conversation, Asks(c) PROVE OpInv' /\ HoldInv' /\ EffectInv'
  <2>1. OthersStay(c)
    BY <1>4, OnlyTheActor
  <2>2. OpBlock(c)'
    BY <1>4, OpMoves
  <2>3. HoldBlock(c)'
    BY <1>4, HoldMoves
  <2>4. EffectBlock(c)'
    BY <1>4, EffectMoves
  <2> QED
    BY <1>1, <2>1, <2>2, <2>3, <2>4
<1>5. ASSUME NEW c \in Conversation, NEW n \in NewName, CallCreate(c, n) PROVE OpInv' /\ HoldInv' /\ EffectInv'
  <2>1. OthersStay(c)
    BY <1>5, OnlyTheActor
  <2>2. OpBlock(c)'
    BY <1>5, OpMoves
  <2>3. HoldBlock(c)'
    BY <1>5, HoldMoves
  <2>4. EffectBlock(c)'
    BY <1>5, EffectMoves
  <2> QED
    BY <1>1, <2>1, <2>2, <2>3, <2>4
<1>6. ASSUME NEW c \in Conversation, NEW m \in Stubs, Acquire(c, m) PROVE OpInv' /\ HoldInv' /\ EffectInv'
  <2>1. OthersStay(c)
    BY <1>6, OnlyTheActor
  <2>2. OpBlock(c)'
    BY <1>6, OpMoves
  <2>3. HoldBlock(c)'
    BY <1>6, HoldMoves
  <2>4. EffectBlock(c)'
    BY <1>6, EffectMoves
  <2> QED
    BY <1>1, <2>1, <2>2, <2>3, <2>4
<1>7. ASSUME NEW c \in Conversation, NEW m \in Stubs, Granted(c, m) PROVE OpInv' /\ HoldInv' /\ EffectInv'
  <2>1. OthersStay(c)
    BY <1>7, OnlyTheActor
  <2>2. OpBlock(c)'
    BY <1>7, OpMoves
  <2>3. HoldBlock(c)'
    BY <1>7, HoldMoves
  <2>4. EffectBlock(c)'
    BY <1>7, EffectMoves
  <2> QED
    BY <1>1, <2>1, <2>2, <2>3, <2>4
<1>8. ASSUME NEW c \in Conversation, Operate(c) PROVE OpInv' /\ HoldInv' /\ EffectInv'
  <2>1. OthersStay(c)
    BY <1>8, OnlyTheActor
  <2>2. OpBlock(c)'
    BY <1>8, OpMoves
  <2>3. HoldBlock(c)'
    BY <1>8, HoldMoves
  <2>4. EffectBlock(c)'
    BY <1>8, EffectMoves
  <2> QED
    BY <1>1, <2>1, <2>2, <2>3, <2>4
<1>9. ASSUME NEW c \in Conversation, ReadFails(c) PROVE OpInv' /\ HoldInv' /\ EffectInv'
  <2>1. OthersStay(c)
    BY <1>9, OnlyTheActor
  <2>2. OpBlock(c)'
    BY <1>9, OpMoves
  <2>3. HoldBlock(c)'
    BY <1>9, HoldMoves
  <2>4. EffectBlock(c)'
    BY <1>9, EffectMoves
  <2> QED
    BY <1>1, <2>1, <2>2, <2>3, <2>4
<1>10. ASSUME NEW c \in Conversation, CallTool(c) PROVE OpInv' /\ HoldInv' /\ EffectInv'
  <2>1. OthersStay(c)
    BY <1>10, OnlyTheActor
  <2>2. OpBlock(c)'
    BY <1>10, OpMoves
  <2>3. HoldBlock(c)'
    BY <1>10, HoldMoves
  <2>4. EffectBlock(c)'
    BY <1>10, EffectMoves
  <2> QED
    BY <1>1, <2>1, <2>2, <2>3, <2>4
<1>11. ASSUME NEW c \in Conversation, Spawned(c) PROVE OpInv' /\ HoldInv' /\ EffectInv'
  <2>1. OthersStay(c)
    BY <1>11, OnlyTheActor
  <2>2. OpBlock(c)'
    BY <1>11, OpMoves
  <2>3. HoldBlock(c)'
    BY <1>11, HoldMoves
  <2>4. EffectBlock(c)'
    BY <1>11, EffectMoves
  <2> QED
    BY <1>1, <2>1, <2>2, <2>3, <2>4
<1>12. ASSUME NEW c \in Conversation, SpawnFails(c) PROVE OpInv' /\ HoldInv' /\ EffectInv'
  <2>1. OthersStay(c)
    BY <1>12, OnlyTheActor
  <2>2. OpBlock(c)'
    BY <1>12, OpMoves
  <2>3. HoldBlock(c)'
    BY <1>12, HoldMoves
  <2>4. EffectBlock(c)'
    BY <1>12, EffectMoves
  <2> QED
    BY <1>1, <2>1, <2>2, <2>3, <2>4
<1>13. ASSUME NEW c \in Conversation, Answered(c) PROVE OpInv' /\ HoldInv' /\ EffectInv'
  <2>1. OthersStay(c)
    BY <1>13, OnlyTheActor
  <2>2. OpBlock(c)'
    BY <1>13, OpMoves
  <2>3. HoldBlock(c)'
    BY <1>13, HoldMoves
  <2>4. EffectBlock(c)'
    BY <1>13, EffectMoves
  <2> QED
    BY <1>1, <2>1, <2>2, <2>3, <2>4
<1>14. ASSUME NEW c \in Conversation, NEW outcome \in Outcomes, End(c, outcome) PROVE OpInv' /\ HoldInv' /\ EffectInv'
  <2>1. OthersStay(c)
    BY <1>14, OnlyTheActor
  <2>2. OpBlock(c)'
    BY <1>14, OpMoves
  <2>3. HoldBlock(c)'
    BY <1>14, HoldMoves
  <2>4. EffectBlock(c)'
    BY <1>14, EffectMoves
  <2> QED
    BY <1>1, <2>1, <2>2, <2>3, <2>4
<1>15. ASSUME NEW c \in Conversation, EndDry(c) PROVE OpInv' /\ HoldInv' /\ EffectInv'
  <2>1. OthersStay(c)
    BY <1>15, OnlyTheActor
  <2>2. OpBlock(c)'
    BY <1>15, OpMoves
  <2>3. HoldBlock(c)'
    BY <1>15, HoldMoves
  <2>4. EffectBlock(c)'
    BY <1>15, EffectMoves
  <2> QED
    BY <1>1, <2>1, <2>2, <2>3, <2>4
<1>16. ASSUME NEW c \in Conversation, InfraError(c) PROVE OpInv' /\ HoldInv' /\ EffectInv'
  <2>1. OthersStay(c)
    BY <1>16, OnlyTheActor
  <2>2. OpBlock(c)'
    BY <1>16, OpMoves
  <2>3. HoldBlock(c)'
    BY <1>16, HoldMoves
  <2>4. EffectBlock(c)'
    BY <1>16, EffectMoves
  <2> QED
    BY <1>1, <2>1, <2>2, <2>3, <2>4
<1>17. ASSUME NEW c \in Conversation, Fold(c) PROVE OpInv' /\ HoldInv' /\ EffectInv'
  <2>1. OthersStay(c)
    BY <1>17, OnlyTheActor
  <2>2. OpBlock(c)'
    BY <1>17, OpMoves
  <2>3. HoldBlock(c)'
    BY <1>17, HoldMoves
  <2>4. EffectBlock(c)'
    BY <1>17, EffectMoves
  <2> QED
    BY <1>1, <2>1, <2>2, <2>3, <2>4
<1>18. ASSUME NEW c \in Conversation, TimesOut(c) PROVE OpInv' /\ HoldInv' /\ EffectInv'
  <2>1. OthersStay(c)
    BY <1>18, OnlyTheActor
  <2>2. OpBlock(c)'
    BY <1>18, OpMoves
  <2>3. HoldBlock(c)'
    BY <1>18, HoldMoves
  <2>4. EffectBlock(c)'
    BY <1>18, EffectMoves
  <2> QED
    BY <1>1, <2>1, <2>2, <2>3, <2>4
<1>19. ASSUME NEW c \in Conversation, Retry(c) PROVE OpInv' /\ HoldInv' /\ EffectInv'
  <2>1. OthersStay(c)
    BY <1>19, OnlyTheActor
  <2>2. OpBlock(c)'
    BY <1>19, OpMoves
  <2>3. HoldBlock(c)'
    BY <1>19, HoldMoves
  <2>4. EffectBlock(c)'
    BY <1>19, EffectMoves
  <2> QED
    BY <1>1, <2>1, <2>2, <2>3, <2>4
<1> QED
  BY <1>2, <1>3, <1>4, <1>5, <1>6, <1>7, <1>8, <1>9, <1>10, <1>11, <1>12, <1>13, <1>14, <1>15,
     <1>16, <1>17, <1>18, <1>19, Steps

-----------------------------------------------------------------------------
(* The log.                                                                *)

LEMMA ConcatOne ==
  ASSUME NEW s \in Seq(Event), NEW e \in Event
  PROVE  /\ Len(s \o <<e>>) = Len(s) + 1
         /\ \A i \in 1 .. Len(s) : (s \o <<e>>)[i] = s[i]
         /\ (s \o <<e>>)[Len(s) + 1] = e
<1>1. s \o <<e>> = Append(s, e)
  BY AppendIsConcat
<1> QED
  BY <1>1, AppendProperties

(* What the end of a block appends: its record, after the buffer if it     *)
(* commits.                                                                *)
LEMMA EndLog ==
  ASSUME TypeOK, NEW c \in Conversation, NEW outcome \in Outcomes, End(c, outcome)
  PROVE  /\ Len(log') \in Nat /\ Len(log) <= Len(log')
         /\ \A i \in 1 .. Len(log) : log'[i] = log[i]
         /\ \A i \in Len(log) + 1 .. Len(log') :
              log'[i] = LuaExecuted \/ \E j \in DOMAIN api[c].buf : log'[i] = api[c].buf[j]
<1>1. PICK l, b, w : l = log /\ b = api[c].buf /\ w = <<LuaExecuted>>
  OBVIOUS
<1>2. l \in Seq(Event) /\ b \in Seq(Event) /\ w \in Seq(Event)
  BY <1>1, Recorded, HeadMoves, ApiFields DEF TypeOK
<1>3. LuaExecuted \in Event /\ w = <<LuaExecuted>>
  BY <1>1, Recorded
<1>4. CASE log' = l \o w
  <2>1. /\ Len(l \o w) = Len(l) + 1 /\ Len(l) \in Nat
        /\ \A i \in 1 .. Len(l) : (l \o w)[i] = l[i]
        /\ (l \o w)[Len(l) + 1] = LuaExecuted
    BY <1>2, <1>3, ConcatOne
  <2>2. \A i \in Len(l) + 1 .. Len(l) + 1 : i = Len(l) + 1
    BY <2>1
  <2> QED
    BY <1>1, <1>4, <2>1, <2>2
<1>5. CASE log' = (l \o b) \o w
  <2>1. PICK k : k = l \o b
    OBVIOUS
  <2>2. /\ k \in Seq(Event) /\ Len(k) = Len(l) + Len(b) /\ Len(l) \in Nat /\ Len(b) \in Nat
        /\ \A i \in 1 .. Len(l) : k[i] = l[i]
        /\ \A i \in Len(l) + 1 .. Len(k) : i - Len(l) \in DOMAIN b /\ k[i] = b[i - Len(l)]
    BY <1>2, <2>1
  <2>3. /\ Len(k \o w) = Len(k) + 1
        /\ \A i \in 1 .. Len(k) : (k \o w)[i] = k[i]
        /\ (k \o w)[Len(k) + 1] = LuaExecuted
    BY <1>3, <2>2, ConcatOne
  <2>4. \A i \in Len(l) + 1 .. Len(k) + 1 : i = Len(k) + 1 \/ (i \in Len(l) + 1 .. Len(k) /\ i \in 1 .. Len(k))
    BY <2>2
  <2>5. \A i \in 1 .. Len(l) : i \in 1 .. Len(k)
    BY <2>2
  <2>6. \A i \in Len(l) + 1 .. Len(k) + 1 :
           (k \o w)[i] = LuaExecuted \/ \E j \in DOMAIN b : (k \o w)[i] = b[j]
    BY <2>2, <2>3, <2>4
  <2>7. \A i \in 1 .. Len(l) : (k \o w)[i] = l[i]
    BY <2>2, <2>3, <2>5
  <2>8. Len(k \o w) \in Nat /\ Len(l) <= Len(k \o w)
    BY <2>2, <2>3
  <2>9. log' = k \o w
    BY <1>5, <2>1
  <2> QED
    BY <1>1, <2>3, <2>6, <2>7, <2>8, <2>9
<1>6. log' = l \o w \/ log' = (l \o b) \o w
  BY <1>1 DEF End
<1> QED
  BY <1>4, <1>5, <1>6

(* One event is appended. *)
LEMMA AppendLog ==
  ASSUME TypeOK, NEW e \in Event, log' = Append(log, e)
  PROVE  /\ Len(log') \in Nat /\ Len(log) <= Len(log')
         /\ \A i \in 1 .. Len(log) : log'[i] = log[i]
         /\ \A i \in Len(log) + 1 .. Len(log') : log'[i] = e
<1>1. PICK l : l = log
  OBVIOUS
<1>2. l \in Seq(Event) /\ Len(l) \in Nat
  BY <1>1 DEF TypeOK
<1>3. /\ Len(Append(l, e)) = Len(l) + 1 /\ \A i \in 1 .. Len(l) : Append(l, e)[i] = l[i]
      /\ Append(l, e)[Len(l) + 1] = e
  BY <1>2
<1>4. \A i \in Len(l) + 1 .. Len(l) + 1 : i = Len(l) + 1
  BY <1>2
<1> QED
  BY <1>1, <1>2, <1>3, <1>4

LEMMA ProjectLog ==
  ASSUME TypeOK, NEW m \in Stubs, ProjectOnto(m)
  PROVE  \E e \in Event : log' = Append(log, e) /\ e.by = "connector"
<1>1. PICK e : e = [kind |-> "entry", mem |-> m, by |-> "connector"]
  OBVIOUS
<1>2. e \in Event /\ e.by = "connector"
  BY <1>1 DEF Event
<1> QED
  BY <1>1, <1>2 DEF ProjectOnto

(* The log is only appended to. *)
LEMMA LogPrefix ==
  ASSUME TypeOK, BlockNext
  PROVE  Len(log') \in Nat /\ Len(log) <= Len(log') /\ \A i \in 1 .. Len(log) : log'[i] = log[i]
<1>1. ASSUME NEW c \in Conversation, Begin(c) PROVE  Len(log') \in Nat /\ Len(log) <= Len(log') /\ \A i \in 1 .. Len(log) : log'[i] = log[i]
  <2>1. log' = log
    BY <1>1 DEF Begin
  <2> QED
    BY <2>1, HeadMoves
<1>2. ASSUME NEW c \in Conversation, Asks(c) PROVE  Len(log') \in Nat /\ Len(log) <= Len(log') /\ \A i \in 1 .. Len(log) : log'[i] = log[i]
  <2>1. log' = log
    BY <1>2 DEF Asks, Call
  <2> QED
    BY <2>1, HeadMoves
<1>3. ASSUME NEW c \in Conversation, NEW n \in NewName, CallCreate(c, n) PROVE  Len(log') \in Nat /\ Len(log) <= Len(log') /\ \A i \in 1 .. Len(log) : log'[i] = log[i]
  <2>1. log' = log
    BY <1>3 DEF CallCreate
  <2> QED
    BY <2>1, HeadMoves
<1>4. ASSUME NEW c \in Conversation, NEW m \in Stubs, Acquire(c, m) PROVE  Len(log') \in Nat /\ Len(log) <= Len(log') /\ \A i \in 1 .. Len(log) : log'[i] = log[i]
  <2>1. log' = log
    BY <1>4 DEF Acquire
  <2> QED
    BY <2>1, HeadMoves
<1>5. ASSUME NEW c \in Conversation, NEW m \in Stubs, Granted(c, m) PROVE  Len(log') \in Nat /\ Len(log) <= Len(log') /\ \A i \in 1 .. Len(log) : log'[i] = log[i]
  <2>1. log' = log
    BY <1>5 DEF Granted
  <2> QED
    BY <2>1, HeadMoves
<1>6. ASSUME NEW c \in Conversation, Operate(c) PROVE  Len(log') \in Nat /\ Len(log) <= Len(log') /\ \A i \in 1 .. Len(log) : log'[i] = log[i]
  <2>1. log' = log
    BY <1>6 DEF Operate
  <2> QED
    BY <2>1, HeadMoves
<1>7. ASSUME NEW c \in Conversation, ReadFails(c) PROVE  Len(log') \in Nat /\ Len(log) <= Len(log') /\ \A i \in 1 .. Len(log) : log'[i] = log[i]
  <2>1. log' = log
    BY <1>7 DEF ReadFails
  <2> QED
    BY <2>1, HeadMoves
<1>8. ASSUME NEW c \in Conversation, CallTool(c) PROVE  Len(log') \in Nat /\ Len(log) <= Len(log') /\ \A i \in 1 .. Len(log) : log'[i] = log[i]
  <2>1. log' = log
    BY <1>8 DEF CallTool
  <2> QED
    BY <2>1, HeadMoves
<1>9. ASSUME NEW c \in Conversation, Spawned(c) PROVE  Len(log') \in Nat /\ Len(log) <= Len(log') /\ \A i \in 1 .. Len(log) : log'[i] = log[i]
  <2>1. log' = log
    BY <1>9 DEF Spawned
  <2> QED
    BY <2>1, HeadMoves
<1>10. ASSUME NEW c \in Conversation, SpawnFails(c) PROVE  Len(log') \in Nat /\ Len(log) <= Len(log') /\ \A i \in 1 .. Len(log) : log'[i] = log[i]
  <2>1. log' = log
    BY <1>10 DEF SpawnFails
  <2> QED
    BY <2>1, HeadMoves
<1>11. ASSUME NEW c \in Conversation, Answered(c) PROVE  Len(log') \in Nat /\ Len(log) <= Len(log') /\ \A i \in 1 .. Len(log) : log'[i] = log[i]
  <2>1. log' = log
    BY <1>11 DEF Answered
  <2> QED
    BY <2>1, HeadMoves
<1>12. ASSUME NEW c \in Conversation, NEW outcome \in Outcomes, End(c, outcome) PROVE  Len(log') \in Nat /\ Len(log) <= Len(log') /\ \A i \in 1 .. Len(log) : log'[i] = log[i]
  BY <1>12, EndLog
<1>13. ASSUME NEW c \in Conversation, EndDry(c) PROVE  Len(log') \in Nat /\ Len(log) <= Len(log') /\ \A i \in 1 .. Len(log) : log'[i] = log[i]
  <2>1. log' = log
    BY <1>13 DEF EndDry
  <2> QED
    BY <2>1, HeadMoves
<1>14. ASSUME NEW c \in Conversation, InfraError(c) PROVE  Len(log') \in Nat /\ Len(log) <= Len(log') /\ \A i \in 1 .. Len(log) : log'[i] = log[i]
  <2>1. log' = log
    BY <1>14 DEF InfraError
  <2> QED
    BY <2>1, HeadMoves
<1>15. ASSUME NEW c \in Conversation, Fold(c) PROVE  Len(log') \in Nat /\ Len(log) <= Len(log') /\ \A i \in 1 .. Len(log) : log'[i] = log[i]
  <2>1. log' = log
    BY <1>15 DEF Fold
  <2> QED
    BY <2>1, HeadMoves
<1>16. ASSUME NEW c \in Conversation, TimesOut(c) PROVE  Len(log') \in Nat /\ Len(log) <= Len(log') /\ \A i \in 1 .. Len(log) : log'[i] = log[i]
  <2>1. CASE log' = log
    BY <2>1, HeadMoves
  <2>2. CASE log' = Append(log, LuaExecuted)
    BY <2>2, AppendLog, Recorded
  <2> QED
    BY <1>16, <2>1, <2>2 DEF TimesOut
<1>17. ASSUME NEW c \in Conversation, Retry(c) PROVE  Len(log') \in Nat /\ Len(log) <= Len(log') /\ \A i \in 1 .. Len(log) : log'[i] = log[i]
  <2>1. log' = log
    BY <1>17 DEF Retry
  <2> QED
    BY <2>1, HeadMoves
<1>18. ASSUME NEW m \in Stubs, ProjectOnto(m) PROVE  Len(log') \in Nat /\ Len(log) <= Len(log') /\ \A i \in 1 .. Len(log) : log'[i] = log[i]
  BY <1>18, ProjectLog, AppendLog
<1> QED
  BY <1>1, <1>2, <1>3, <1>4, <1>5, <1>6, <1>7, <1>8, <1>9, <1>10, <1>11, <1>12, <1>13, <1>14,
     <1>15, <1>16, <1>17, <1>18, Steps

(* A log whose names are unique had unique names before it grew. *)
LEMMA UniqueBefore ==
  ASSUME TypeOK, LogOK', BlockNext, NamesAreUnique'
  PROVE  NamesAreUnique
<1>1. /\ Len(log') \in Nat /\ Len(log) <= Len(log') /\ Len(log) \in Nat
      /\ \A i \in 1 .. Len(log) : log'[i] = log[i]
  BY LogPrefix, HeadMoves
<1>2. DOMAIN log = 1 .. Len(log) /\ DOMAIN log' = 1 .. Len(log')
  BY DEF TypeOK, LogOK
<1>3. ASSUME NEW i \in 1 .. Len(log) PROVE ~Collides(log, i)
  <2>1. PICK k : k = log'
    OBVIOUS
  <2>2. i \in Nat /\ i >= 1 /\ \A j \in 1 .. i : log[j] = k[j]
    BY <1>1, <2>1
  <2>3. Collides(log, i) <=> Collides(k, i)
    BY <2>2, CollidesPrefix
  <2>4. \A j \in DOMAIN k : ~Collides(k, j)
    BY <2>1 DEF NamesAreUnique
  <2>5. i \in DOMAIN k
    BY <1>1, <1>2, <2>1
  <2> QED
    BY <2>3, <2>4, <2>5
<1> QED
  BY <1>2, <1>3 DEF NamesAreUnique

-----------------------------------------------------------------------------
(* What a block has read.                                                  *)

(* Event i is an agent's entry on m. *)
Wrote(i, m) == log[i].kind = "entry" /\ log[i].mem = m /\ log[i].by = "agent"

(* Of the log, the block has seen what agents wrote of the memories it     *)
(* read.                                                                   *)
SeenBlock(c) ==
    pc[c] \in Evaluating =>
        \A m \in DOMAIN api[c].seen : \A i \in 1 .. Len(log) :
            (i \in api[c].seen[m] /\ log[i].by = "agent") <=> Wrote(i, m)

LEMMA SeenParts ==
  ASSUME TypeOK
  PROVE  SeenInv => \A c \in Conversation : SeenBlock(c)
<1>1. ASSUME NEW c \in Conversation, NEW m \in DOMAIN api[c].seen
      PROVE  (ByAgents(api[c].seen[m]) = ByAgents(Entries(log, Len(log), m)))
               <=> \A i \in 1 .. Len(log) :
                     (i \in api[c].seen[m] /\ log[i].by = "agent") <=> Wrote(i, m)
  <2>1. PICK s : s = api[c].seen[m]
    OBVIOUS
  <2>2. s \subseteq 1 .. head
    BY <1>1, <2>1, HeadMoves, ApiFields, ReadsFacts DEF TypeOK
  <2>3. \A i \in s : i \in 1 .. Len(log)
    BY <2>2, HeadMoves
  <2>4. ByAgents(s) = {i \in s : log[i].by = "agent"}
    BY DEF ByAgents
  <2>5. ByAgents(Entries(log, Len(log), m)) = {i \in 1 .. Len(log) : Wrote(i, m)}
    BY DEF ByAgents, Entries, Wrote
  <2> QED
    BY <2>1, <2>3, <2>4, <2>5
<1> QED
  BY <1>1 DEF SeenInv, SeenBlock

LEMMA SeenAfter ==
  ASSUME TypeOK', \A c \in Conversation : SeenBlock(c)'
  PROVE  SeenInv'
<1>1. ASSUME NEW c \in Conversation, NEW m \in DOMAIN api'[c].seen, pc'[c] \in Evaluating
      PROVE  ByAgents(api[c].seen[m])' = ByAgents(Entries(log, Len(log), m))'
  <2>1. PICK s, l, k : s = api'[c].seen[m] /\ l = log' /\ k = head'
    OBVIOUS
  <2>2. api'[c] \in Api(k) /\ k \in Nat /\ Len(l) \in Nat /\ k <= Len(l)
    BY <2>1 DEF TypeOK
  <2>3. s \subseteq 1 .. k
    BY <1>1, <2>1, <2>2, ApiFields, ReadsFacts
  <2>4. \A i \in s : i \in 1 .. Len(l)
    BY <2>2, <2>3
  <2>5. ByAgents(api[c].seen[m])' = {i \in s : l[i].by = "agent"}
    BY <2>1 DEF ByAgents
  <2>6. ByAgents(Entries(log, Len(log), m))' =
           {i \in 1 .. Len(l) : l[i].kind = "entry" /\ l[i].mem = m /\ l[i].by = "agent"}
    BY <2>1 DEF ByAgents, Entries
  <2>7. \A i \in 1 .. Len(l) : (i \in s /\ l[i].by = "agent")
           <=> (l[i].kind = "entry" /\ l[i].mem = m /\ l[i].by = "agent")
    BY <1>1, <2>1 DEF SeenBlock, Wrote
  <2> QED
    BY <2>4, <2>5, <2>6, <2>7
<1> QED
  BY <1>1 DEF SeenInv

(* What a block has read stays all there is while nobody writes to it. *)
LEMMA SeenKept ==
  ASSUME TypeOK, NEW d \in Conversation, SeenBlock(d),
         Len(log') \in Nat, Len(log) <= Len(log'), \A i \in 1 .. Len(log) : log'[i] = log[i],
         pc'[d] \in Evaluating => pc[d] \in Evaluating /\ api'[d].seen = api[d].seen,
         pc'[d] \in Evaluating => \A i \in Len(log) + 1 .. Len(log') :
            \A m \in DOMAIN api[d].seen : ~(Wrote(i, m)')
  PROVE  SeenBlock(d)'
<1>1. SUFFICES ASSUME pc'[d] \in Evaluating, NEW m \in DOMAIN api[d].seen, NEW i \in 1 .. Len(log')
               PROVE  (i \in api[d].seen[m] /\ log'[i].by = "agent") <=> Wrote(i, m)'
  BY DEF SeenBlock
<1>2. Len(log) \in Nat /\ head \in Nat /\ head <= Len(log)
  BY HeadMoves
<1>3. api[d].seen[m] \subseteq 1 .. head
  BY <1>1, HeadMoves, ApiFields, ReadsFacts DEF TypeOK
<1>4. CASE i \in 1 .. Len(log)
  <2>1. log'[i] = log[i]
    BY <1>4
  <2>2. (i \in api[d].seen[m] /\ log[i].by = "agent") <=> Wrote(i, m)
    BY <1>1, <1>4 DEF SeenBlock
  <2> QED
    BY <2>1, <2>2 DEF Wrote
<1>5. CASE i \in Len(log) + 1 .. Len(log')
  <2>1. i \notin api[d].seen[m]
    BY <1>2, <1>3, <1>5
  <2>2. ~(Wrote(i, m)')
    BY <1>1, <1>5
  <2> QED
    BY <2>1, <2>2
<1> QED
  BY <1>1, <1>2, <1>4, <1>5

(* Two blocks do not hold one guard. *)
LEMMA GuardsAreOne ==
  ASSUME LockInv, NEW c \in Conversation, NEW d \in Conversation,
         NEW x \in api[c].held, x \in api[d].held
  PROVE  c = d
  BY DEF LockInv

(* The read of a block that holds the class sees all of it: what is past   *)
(* the head is of blocks that still hold what they wrote through.          *)
LEMMA ReadIsWhole ==
  ASSUME TypeOK, LockInv, OpInv, LateInv, NEW c \in Conversation, pc[c] = "lock", want[c] = {},
         op[c].kind = "read", NEW m \in Class(op[c].mem), NEW i \in 1 .. Len(log), Wrote(i, m)
  PROVE  i \in 1 .. head
<1>1. op[c].mem \in Stubs /\ Class(op[c].mem) \subseteq api[c].held
  BY DEF OpInv, Operation
<1>2. SUFFICES ASSUME i \in head + 1 .. Len(log) PROVE FALSE
  BY HeadMoves
<1>3. PICK d \in Conversation : pc[d] = "fold" /\ \E x \in api[d].held : log[i].mem = Primary[x]
  BY <1>2 DEF LateInv, Wrote
<1>4. PICK x \in api[d].held : m = Primary[x]
  BY <1>3 DEF Wrote
<1>5. m \in Stubs /\ x \in Stubs
  BY <1>1, ClassFacts, HeadMoves, ApiFields DEF TypeOK
<1>6. x \in Class(op[c].mem)
  BY <1>1, <1>4, <1>5, ClassFacts
<1>7. x \in api[c].held
  BY <1>1, <1>6
<1>8. c = d
  BY <1>4, <1>7, GuardsAreOne
<1> QED
  BY <1>3, <1>8

(* What blocks have read holds to their end. *)
LEMMA SeenStep ==
  ASSUME TypeOK, TypeOK', LogOK', head' >= head, LockInv, OpInv, HoldInv, EffectInv, SeenInv, LateInv, BlockNext
  PROVE  SeenInv'
<1>1. ASSUME NEW c \in Conversation, Begin(c) PROVE SeenInv'
  <2>1. OthersStay(c)
    BY <1>1, OnlyTheActor
  <2>2. log' = log
    BY <1>1 DEF Begin
  <2>3. ASSUME NEW d \in Conversation, d # c PROVE SeenBlock(d)'
    <3>1. SeenBlock(d) /\ pc'[d] = pc[d] /\ api'[d] = api[d]
      BY <2>3, <2>1, SeenParts DEF OthersStay
    <3> QED
      BY <2>2, <3>1, SeenKept, HeadMoves
  <2>4. DOMAIN api'[c].seen = {}
    BY <1>1, LockParts, FreshFacts, HeadMoves DEF Begin, LockBlock
  <2>5. SeenBlock(c)'
    BY <2>4 DEF SeenBlock
  <2> QED
    BY <2>3, <2>5, SeenAfter
<1>2. ASSUME NEW c \in Conversation, Asks(c) PROVE SeenInv'
  <2>1. OthersStay(c)
    BY <1>2, OnlyTheActor
  <2>2. log' = log
    BY <1>2 DEF Asks, Call
  <2>3. ASSUME NEW d \in Conversation, d # c PROVE SeenBlock(d)'
    <3>1. SeenBlock(d) /\ pc'[d] = pc[d] /\ api'[d] = api[d]
      BY <2>3, <2>1, SeenParts DEF OthersStay
    <3> QED
      BY <2>2, <3>1, SeenKept, HeadMoves
  <2>4. pc'[c] \in Evaluating => pc[c] \in Evaluating /\ api'[c].seen = api[c].seen
    BY <1>2 DEF Asks, Call, Evaluating, TypeOK
  <2>5. SeenBlock(c)'
    BY <2>2, <2>4, SeenParts, SeenKept, HeadMoves
  <2> QED
    BY <2>3, <2>5, SeenAfter
<1>3. ASSUME NEW c \in Conversation, NEW n \in NewName, CallCreate(c, n) PROVE SeenInv'
  <2>1. OthersStay(c)
    BY <1>3, OnlyTheActor
  <2>2. log' = log
    BY <1>3 DEF CallCreate
  <2>3. ASSUME NEW d \in Conversation, d # c PROVE SeenBlock(d)'
    <3>1. SeenBlock(d) /\ pc'[d] = pc[d] /\ api'[d] = api[d]
      BY <2>3, <2>1, SeenParts DEF OthersStay
    <3> QED
      BY <2>2, <3>1, SeenKept, HeadMoves
  <2>4. pc'[c] \in Evaluating => pc[c] \in Evaluating /\ api'[c].seen = api[c].seen
    BY <1>3, CreateStep DEF CallCreate, Buffers, Evaluating
  <2>5. SeenBlock(c)'
    BY <2>2, <2>4, SeenParts, SeenKept, HeadMoves
  <2> QED
    BY <2>3, <2>5, SeenAfter
<1>4. ASSUME NEW c \in Conversation, NEW m \in Stubs, Acquire(c, m) PROVE SeenInv'
  <2>1. OthersStay(c)
    BY <1>4, OnlyTheActor
  <2>2. log' = log
    BY <1>4 DEF Acquire
  <2>3. ASSUME NEW d \in Conversation, d # c PROVE SeenBlock(d)'
    <3>1. SeenBlock(d) /\ pc'[d] = pc[d] /\ api'[d] = api[d]
      BY <2>3, <2>1, SeenParts DEF OthersStay
    <3> QED
      BY <2>2, <3>1, SeenKept, HeadMoves
  <2>4. pc'[c] \in Evaluating => pc[c] \in Evaluating /\ api'[c].seen = api[c].seen
    BY <1>4, LockJoins DEF Acquire, Locks, Evaluating
  <2>5. SeenBlock(c)'
    BY <2>2, <2>4, SeenParts, SeenKept, HeadMoves
  <2> QED
    BY <2>3, <2>5, SeenAfter
<1>5. ASSUME NEW c \in Conversation, NEW m \in Stubs, Granted(c, m) PROVE SeenInv'
  <2>1. OthersStay(c)
    BY <1>5, OnlyTheActor
  <2>2. log' = log
    BY <1>5 DEF Granted
  <2>3. ASSUME NEW d \in Conversation, d # c PROVE SeenBlock(d)'
    <3>1. SeenBlock(d) /\ pc'[d] = pc[d] /\ api'[d] = api[d]
      BY <2>3, <2>1, SeenParts DEF OthersStay
    <3> QED
      BY <2>2, <3>1, SeenKept, HeadMoves
  <2>4. pc'[c] \in Evaluating => pc[c] \in Evaluating /\ api'[c].seen = api[c].seen
    BY <1>5, LockJoins DEF Granted, Locks, Evaluating
  <2>5. SeenBlock(c)'
    BY <2>2, <2>4, SeenParts, SeenKept, HeadMoves
  <2> QED
    BY <2>3, <2>5, SeenAfter
<1>6. ASSUME NEW c \in Conversation, Operate(c) PROVE SeenInv'
  <2>1. OthersStay(c)
    BY <1>6, OnlyTheActor
  <2>2. log' = log
    BY <1>6 DEF Operate
  <2>3. ASSUME NEW d \in Conversation, d # c PROVE SeenBlock(d)'
    <3>1. SeenBlock(d) /\ pc'[d] = pc[d] /\ api'[d] = api[d]
      BY <2>3, <2>1, SeenParts DEF OthersStay
    <3> QED
      BY <2>2, <3>1, SeenKept, HeadMoves
  <2>4. pc[c] = "lock" /\ want[c] = {} /\ SeenBlock(c) /\ api'[c].seen = Seen(c)
    BY <1>6, SeenParts, OperateStep DEF Operate
  <2>5. ASSUME NEW m \in DOMAIN Seen(c), NEW i \in 1 .. Len(log)
        PROVE  (i \in Seen(c)[m] /\ log[i].by = "agent") <=> Wrote(i, m)
    <3>1. CASE op[c].kind = "read" /\ m \in Class(op[c].mem)
      <4>1. Seen(c)[m] = Entries(log, head, m)
        BY <2>5, <3>1 DEF Seen
      <4>2. i \in Seen(c)[m] /\ log[i].by = "agent" <=> i \in 1 .. head /\ Wrote(i, m)
        BY <4>1 DEF Entries, Wrote
      <4>3. Wrote(i, m) => i \in 1 .. head
        BY <2>4, <3>1, ReadIsWhole
      <4> QED
        BY <4>2, <4>3
    <3>2. CASE ~(op[c].kind = "read" /\ m \in Class(op[c].mem))
      <4>1. m \in DOMAIN api[c].seen /\ Seen(c)[m] = api[c].seen[m]
        BY <2>5, <3>2 DEF Seen
      <4> QED
        BY <2>4, <2>5, <4>1 DEF SeenBlock, Evaluating
    <3> QED
      BY <3>1, <3>2
  <2>6. SeenBlock(c)'
    BY <2>2, <2>4, <2>5 DEF SeenBlock, Wrote
  <2> QED
    BY <2>3, <2>6, SeenAfter
<1>7. ASSUME NEW c \in Conversation, ReadFails(c) PROVE SeenInv'
  <2>1. OthersStay(c)
    BY <1>7, OnlyTheActor
  <2>2. log' = log
    BY <1>7 DEF ReadFails
  <2>3. ASSUME NEW d \in Conversation, d # c PROVE SeenBlock(d)'
    <3>1. SeenBlock(d) /\ pc'[d] = pc[d] /\ api'[d] = api[d]
      BY <2>3, <2>1, SeenParts DEF OthersStay
    <3> QED
      BY <2>2, <3>1, SeenKept, HeadMoves
  <2>4. pc'[c] \in Evaluating => pc[c] \in Evaluating /\ api'[c].seen = api[c].seen
    BY <1>7, ReadFailsStep DEF ReadFails, Evaluating
  <2>5. SeenBlock(c)'
    BY <2>2, <2>4, SeenParts, SeenKept, HeadMoves
  <2> QED
    BY <2>3, <2>5, SeenAfter
<1>8. ASSUME NEW c \in Conversation, CallTool(c) PROVE SeenInv'
  <2>1. OthersStay(c)
    BY <1>8, OnlyTheActor
  <2>2. log' = log
    BY <1>8 DEF CallTool, Request
  <2>3. ASSUME NEW d \in Conversation, d # c PROVE SeenBlock(d)'
    <3>1. SeenBlock(d) /\ pc'[d] = pc[d] /\ api'[d] = api[d]
      BY <2>3, <2>1, SeenParts DEF OthersStay
    <3> QED
      BY <2>2, <3>1, SeenKept, HeadMoves
  <2>4. pc'[c] \in Evaluating => pc[c] \in Evaluating /\ api'[c].seen = api[c].seen
    BY <1>8 DEF CallTool, Request, Evaluating, TypeOK
  <2>5. SeenBlock(c)'
    BY <2>2, <2>4, SeenParts, SeenKept, HeadMoves
  <2> QED
    BY <2>3, <2>5, SeenAfter
<1>9. ASSUME NEW c \in Conversation, Spawned(c) PROVE SeenInv'
  <2>1. OthersStay(c)
    BY <1>9, OnlyTheActor
  <2>2. log' = log
    BY <1>9 DEF Spawned, Request
  <2>3. ASSUME NEW d \in Conversation, d # c PROVE SeenBlock(d)'
    <3>1. SeenBlock(d) /\ pc'[d] = pc[d] /\ api'[d] = api[d]
      BY <2>3, <2>1, SeenParts DEF OthersStay
    <3> QED
      BY <2>2, <3>1, SeenKept, HeadMoves
  <2>4. pc'[c] \in Evaluating => pc[c] \in Evaluating /\ api'[c].seen = api[c].seen
    BY <1>9 DEF Spawned, Request, Evaluating, TypeOK
  <2>5. SeenBlock(c)'
    BY <2>2, <2>4, SeenParts, SeenKept, HeadMoves
  <2> QED
    BY <2>3, <2>5, SeenAfter
<1>10. ASSUME NEW c \in Conversation, SpawnFails(c) PROVE SeenInv'
  <2>1. OthersStay(c)
    BY <1>10, OnlyTheActor
  <2>2. log' = log
    BY <1>10 DEF SpawnFails
  <2>3. ASSUME NEW d \in Conversation, d # c PROVE SeenBlock(d)'
    <3>1. SeenBlock(d) /\ pc'[d] = pc[d] /\ api'[d] = api[d]
      BY <2>3, <2>1, SeenParts DEF OthersStay
    <3> QED
      BY <2>2, <3>1, SeenKept, HeadMoves
  <2>4. pc'[c] \in Evaluating => pc[c] \in Evaluating /\ api'[c].seen = api[c].seen
    BY <1>10 DEF SpawnFails, Evaluating, TypeOK
  <2>5. SeenBlock(c)'
    BY <2>2, <2>4, SeenParts, SeenKept, HeadMoves
  <2> QED
    BY <2>3, <2>5, SeenAfter
<1>11. ASSUME NEW c \in Conversation, Answered(c) PROVE SeenInv'
  <2>1. OthersStay(c)
    BY <1>11, OnlyTheActor
  <2>2. log' = log
    BY <1>11 DEF Answered
  <2>3. ASSUME NEW d \in Conversation, d # c PROVE SeenBlock(d)'
    <3>1. SeenBlock(d) /\ pc'[d] = pc[d] /\ api'[d] = api[d]
      BY <2>3, <2>1, SeenParts DEF OthersStay
    <3> QED
      BY <2>2, <3>1, SeenKept, HeadMoves
  <2>4. pc'[c] \in Evaluating => pc[c] \in Evaluating /\ api'[c].seen = api[c].seen
    BY <1>11 DEF Answered, Evaluating, TypeOK
  <2>5. SeenBlock(c)'
    BY <2>2, <2>4, SeenParts, SeenKept, HeadMoves
  <2> QED
    BY <2>3, <2>5, SeenAfter
<1>12. ASSUME NEW c \in Conversation, NEW outcome \in Outcomes, End(c, outcome) PROVE SeenInv'
  <2>1. OthersStay(c) /\ pc'[c] = "fold" /\ pc[c] = "run"
    BY <1>12, OnlyTheActor DEF End, TypeOK
  <2>2. /\ Len(log') \in Nat /\ Len(log) <= Len(log')
        /\ \A i \in 1 .. Len(log) : log'[i] = log[i]
        /\ \A i \in Len(log) + 1 .. Len(log') :
             log'[i] = LuaExecuted \/ \E j \in DOMAIN api[c].buf : log'[i] = api[c].buf[j]
    BY <1>12, EndLog
  <2>3. HoldBlock(c)
    BY BlockParts
  <2>4. ASSUME NEW d \in Conversation, d # c PROVE SeenBlock(d)'
    <3>1. SeenBlock(d) /\ HoldBlock(d) /\ pc'[d] = pc[d] /\ api'[d] = api[d]
      BY <2>1, <2>4, SeenParts, BlockParts DEF OthersStay
    <3>2. ASSUME pc[d] \in Evaluating, NEW i \in Len(log) + 1 .. Len(log'),
                 NEW m \in DOMAIN api[d].seen, Wrote(i, m)'
          PROVE  FALSE
      <4>1. log'[i].kind = "entry" /\ log'[i].mem = m
        BY <3>2 DEF Wrote
      <4>2. PICK j \in DOMAIN api[c].buf : log'[i] = api[c].buf[j]
        BY <2>2, <3>2, <4>1, Recorded
      <4>3. PICK x \in api[c].held : m = Primary[x]
        BY <2>1, <2>3, <4>1, <4>2 DEF HoldBlock, Evaluating
      <4>4. Class(m) \subseteq api[d].held
        BY <3>1, <3>2 DEF HoldBlock
      <4>5. m \in Stubs /\ x \in Stubs
        <5>1. api[c].held \subseteq Stubs /\ api[d].seen \in Reads(head)
          BY HeadMoves, ApiFields DEF TypeOK
        <5>2. DOMAIN api[d].seen \subseteq Stubs
          BY <5>1, HeadMoves, ReadsFacts
        <5> QED
          BY <3>2, <4>3, <5>1, <5>2
      <4>6. x \in api[d].held
        BY <4>3, <4>4, <4>5, ClassFacts
      <4> QED
        BY <2>4, <4>3, <4>6, GuardsAreOne
    <3> QED
      BY <2>2, <3>1, <3>2, SeenKept
  <2>5. SeenBlock(c)'
    BY <2>1 DEF SeenBlock, Evaluating
  <2> QED
    BY <2>4, <2>5, SeenAfter
<1>13. ASSUME NEW c \in Conversation, EndDry(c) PROVE SeenInv'
  <2>1. OthersStay(c)
    BY <1>13, OnlyTheActor
  <2>2. log' = log
    BY <1>13 DEF EndDry, Leave
  <2>3. ASSUME NEW d \in Conversation, d # c PROVE SeenBlock(d)'
    <3>1. SeenBlock(d) /\ pc'[d] = pc[d] /\ api'[d] = api[d]
      BY <2>3, <2>1, SeenParts DEF OthersStay
    <3> QED
      BY <2>2, <3>1, SeenKept, HeadMoves
  <2>4. pc'[c] \in Evaluating => pc[c] \in Evaluating /\ api'[c].seen = api[c].seen
    BY <1>13 DEF EndDry, Leave, Evaluating, TypeOK
  <2>5. SeenBlock(c)'
    BY <2>2, <2>4, SeenParts, SeenKept, HeadMoves
  <2> QED
    BY <2>3, <2>5, SeenAfter
<1>14. ASSUME NEW c \in Conversation, InfraError(c) PROVE SeenInv'
  <2>1. OthersStay(c)
    BY <1>14, OnlyTheActor
  <2>2. log' = log
    BY <1>14 DEF InfraError, Leave
  <2>3. ASSUME NEW d \in Conversation, d # c PROVE SeenBlock(d)'
    <3>1. SeenBlock(d) /\ pc'[d] = pc[d] /\ api'[d] = api[d]
      BY <2>3, <2>1, SeenParts DEF OthersStay
    <3> QED
      BY <2>2, <3>1, SeenKept, HeadMoves
  <2>4. pc'[c] \in Evaluating => pc[c] \in Evaluating /\ api'[c].seen = api[c].seen
    BY <1>14 DEF InfraError, Leave, Evaluating, TypeOK
  <2>5. SeenBlock(c)'
    BY <2>2, <2>4, SeenParts, SeenKept, HeadMoves
  <2> QED
    BY <2>3, <2>5, SeenAfter
<1>15. ASSUME NEW c \in Conversation, Fold(c) PROVE SeenInv'
  <2>1. OthersStay(c)
    BY <1>15, OnlyTheActor
  <2>2. log' = log
    BY <1>15 DEF Fold, Leave
  <2>3. ASSUME NEW d \in Conversation, d # c PROVE SeenBlock(d)'
    <3>1. SeenBlock(d) /\ pc'[d] = pc[d] /\ api'[d] = api[d]
      BY <2>3, <2>1, SeenParts DEF OthersStay
    <3> QED
      BY <2>2, <3>1, SeenKept, HeadMoves
  <2>4. pc'[c] \in Evaluating => pc[c] \in Evaluating /\ api'[c].seen = api[c].seen
    BY <1>15 DEF Fold, Leave, Evaluating, TypeOK
  <2>5. SeenBlock(c)'
    BY <2>2, <2>4, SeenParts, SeenKept, HeadMoves
  <2> QED
    BY <2>3, <2>5, SeenAfter
<1>16. ASSUME NEW c \in Conversation, TimesOut(c) PROVE SeenInv'
  <2>1. OthersStay(c)
    BY <1>16, OnlyTheActor
  <2>2. /\ Len(log') \in Nat /\ Len(log) <= Len(log')
        /\ \A i \in 1 .. Len(log) : log'[i] = log[i]
        /\ \A i \in Len(log) + 1 .. Len(log') : log'[i] = LuaExecuted
    <3>1. CASE log' = log
      BY <3>1, HeadMoves
    <3>2. CASE log' = Append(log, LuaExecuted)
      BY <3>2, AppendLog, Recorded
    <3> QED
      BY <1>16, <3>1, <3>2 DEF TimesOut
  <2>3. \A i \in Len(log) + 1 .. Len(log') : \A m : ~(Wrote(i, m)')
    BY <2>2, Recorded DEF Wrote
  <2>4. ASSUME NEW d \in Conversation, d # c PROVE SeenBlock(d)'
    <3>1. SeenBlock(d) /\ pc'[d] = pc[d] /\ api'[d] = api[d]
      BY <2>1, <2>4, SeenParts DEF OthersStay
    <3> QED
      BY <2>2, <2>3, <3>1, SeenKept
  <2>5. pc'[c] \notin Evaluating
    BY <1>16 DEF TimesOut, Leave, TypeOK, Evaluating
  <2>6. SeenBlock(c)'
    BY <2>5 DEF SeenBlock
  <2> QED
    BY <2>4, <2>6, SeenAfter
<1>17. ASSUME NEW c \in Conversation, Retry(c) PROVE SeenInv'
  <2>1. OthersStay(c)
    BY <1>17, OnlyTheActor
  <2>2. log' = log
    BY <1>17 DEF Retry
  <2>3. ASSUME NEW d \in Conversation, d # c PROVE SeenBlock(d)'
    <3>1. SeenBlock(d) /\ pc'[d] = pc[d] /\ api'[d] = api[d]
      BY <2>3, <2>1, SeenParts DEF OthersStay
    <3> QED
      BY <2>2, <3>1, SeenKept, HeadMoves
  <2>4. DOMAIN api'[c].seen = {}
    BY <1>17, FreshStep, FreshFacts, HeadMoves DEF Retry
  <2>5. SeenBlock(c)'
    BY <2>4 DEF SeenBlock
  <2> QED
    BY <2>3, <2>5, SeenAfter
<1>18. ASSUME NEW m \in Stubs, ProjectOnto(m) PROVE SeenInv'
  <2>1. pc' = pc /\ api' = api
    BY <1>18 DEF ProjectOnto
  <2>2. PICK e \in Event : log' = Append(log, e) /\ e.by = "connector"
    BY <1>18, ProjectLog
  <2>3. /\ Len(log') \in Nat /\ Len(log) <= Len(log')
        /\ \A i \in 1 .. Len(log) : log'[i] = log[i]
        /\ \A i \in Len(log) + 1 .. Len(log') : log'[i] = e
    BY <2>2, AppendLog
  <2>4. \A i \in Len(log) + 1 .. Len(log') : \A x : ~(Wrote(i, x)')
    BY <2>2, <2>3 DEF Wrote
  <2>5. ASSUME NEW d \in Conversation PROVE SeenBlock(d)'
    <3>1. SeenBlock(d) /\ pc'[d] = pc[d] /\ api'[d] = api[d]
      BY <2>1, SeenParts
    <3> QED
      BY <2>3, <2>4, <3>1, SeenKept
  <2> QED
    BY <2>5, SeenAfter
<1> QED
  BY <1>1, <1>2, <1>3, <1>4, <1>5, <1>6, <1>7, <1>8, <1>9, <1>10, <1>11, <1>12, <1>13, <1>14,
     <1>15, <1>16, <1>17, <1>18, Steps

-----------------------------------------------------------------------------
(* What the graph has not folded.                                          *)

(* What was late is late still, of blocks that have not moved; what is new *)
(* is no entry of an agent, or of a block that is to fold it.              *)
LEMMA LateKept ==
  ASSUME TypeOK, LateInv, NEW c \in Conversation, OthersStay(c), pc[c] # "fold", head' = head,
         Len(log') \in Nat, Len(log) <= Len(log'), \A i \in 1 .. Len(log) : log'[i] = log[i],
         \A i \in Len(log) + 1 .. Len(log') : log'[i].kind = "entry" =>
            pc'[c] = "fold" /\ \E x \in api'[c].held : log'[i].mem = Primary[x]
  PROVE  LateInv'
<1>1. SUFFICES ASSUME NEW i \in head + 1 .. Len(log'), log'[i].kind = "entry", log'[i].by = "agent"
               PROVE  \E d \in Conversation :
                         pc'[d] = "fold" /\ \E x \in api'[d].held : log'[i].mem = Primary[x]
  BY DEF LateInv
<1>2. Len(log) \in Nat /\ head \in Nat /\ head <= Len(log)
  BY HeadMoves
<1>3. CASE i \in Len(log) + 1 .. Len(log')
  BY <1>1, <1>3
<1>4. CASE i \in head + 1 .. Len(log)
  <2>1. log'[i] = log[i]
    BY <1>2, <1>4
  <2>2. PICK d \in Conversation : pc[d] = "fold" /\ \E x \in api[d].held : log[i].mem = Primary[x]
    BY <1>1, <1>4, <2>1 DEF LateInv
  <2>3. pc'[d] = "fold" /\ api'[d] = api[d]
    BY <2>2 DEF OthersStay
  <2> QED
    BY <2>1, <2>2, <2>3
<1> QED
  BY <1>1, <1>2, <1>3, <1>4

(* Nothing is late when the graph has folded the log. *)
LEMMA NothingLate ==
  ASSUME Len(log') \in Nat, head' = Len(log')
  PROVE  LateInv'
<1>1. \A i \in head' + 1 .. Len(log') : FALSE
  OBVIOUS
<1> QED
  BY <1>1 DEF LateInv

(* What is past the head is of blocks that fold it with their locks held. *)
LEMMA LateStep ==
  ASSUME TypeOK, TypeOK', HoldInv, EffectInv, LateInv, NamesAreUnique, NamesAreUnique', BlockNext
  PROVE  LateInv'
<1>1. ASSUME NEW c \in Conversation, Begin(c) PROVE LateInv'
  <2>1. OthersStay(c) /\ pc[c] # "fold" /\ log' = log /\ head' \in {head, Materialized(log, head)}
    BY <1>1, OnlyTheActor DEF Begin
  <2>2. CASE head' = head
    BY <2>1, <2>2, LateKept, HeadMoves
  <2>3. CASE head' = Materialized(log, head)
    BY <2>1, <2>3, NothingLate, HeadMoves
  <2> QED
    BY <2>1, <2>2, <2>3
<1>2. ASSUME NEW c \in Conversation, Asks(c) PROVE LateInv'
  <2>1. OthersStay(c) /\ pc[c] # "fold" /\ head' = head /\ log' = log
    BY <1>2, OnlyTheActor DEF Asks, Call
  <2> QED
    BY <2>1, LateKept, HeadMoves
<1>3. ASSUME NEW c \in Conversation, NEW n \in NewName, CallCreate(c, n) PROVE LateInv'
  <2>1. OthersStay(c) /\ pc[c] # "fold" /\ head' = head /\ log' = log
    BY <1>3, OnlyTheActor DEF CallCreate
  <2> QED
    BY <2>1, LateKept, HeadMoves
<1>4. ASSUME NEW c \in Conversation, NEW m \in Stubs, Acquire(c, m) PROVE LateInv'
  <2>1. OthersStay(c) /\ pc[c] # "fold" /\ head' = head /\ log' = log
    BY <1>4, OnlyTheActor DEF Acquire
  <2> QED
    BY <2>1, LateKept, HeadMoves
<1>5. ASSUME NEW c \in Conversation, NEW m \in Stubs, Granted(c, m) PROVE LateInv'
  <2>1. OthersStay(c) /\ pc[c] # "fold" /\ head' = head /\ log' = log
    BY <1>5, OnlyTheActor DEF Granted
  <2> QED
    BY <2>1, LateKept, HeadMoves
<1>6. ASSUME NEW c \in Conversation, Operate(c) PROVE LateInv'
  <2>1. OthersStay(c) /\ pc[c] # "fold" /\ head' = head /\ log' = log
    BY <1>6, OnlyTheActor DEF Operate
  <2> QED
    BY <2>1, LateKept, HeadMoves
<1>7. ASSUME NEW c \in Conversation, ReadFails(c) PROVE LateInv'
  <2>1. OthersStay(c) /\ pc[c] # "fold" /\ head' = head /\ log' = log
    BY <1>7, OnlyTheActor DEF ReadFails
  <2> QED
    BY <2>1, LateKept, HeadMoves
<1>8. ASSUME NEW c \in Conversation, CallTool(c) PROVE LateInv'
  <2>1. OthersStay(c) /\ pc[c] # "fold" /\ head' = head /\ log' = log
    BY <1>8, OnlyTheActor DEF CallTool
  <2> QED
    BY <2>1, LateKept, HeadMoves
<1>9. ASSUME NEW c \in Conversation, Spawned(c) PROVE LateInv'
  <2>1. OthersStay(c) /\ pc[c] # "fold" /\ head' = head /\ log' = log
    BY <1>9, OnlyTheActor DEF Spawned
  <2> QED
    BY <2>1, LateKept, HeadMoves
<1>10. ASSUME NEW c \in Conversation, SpawnFails(c) PROVE LateInv'
  <2>1. OthersStay(c) /\ pc[c] # "fold" /\ head' = head /\ log' = log
    BY <1>10, OnlyTheActor DEF SpawnFails
  <2> QED
    BY <2>1, LateKept, HeadMoves
<1>11. ASSUME NEW c \in Conversation, Answered(c) PROVE LateInv'
  <2>1. OthersStay(c) /\ pc[c] # "fold" /\ head' = head /\ log' = log
    BY <1>11, OnlyTheActor DEF Answered
  <2> QED
    BY <2>1, LateKept, HeadMoves
<1>12. ASSUME NEW c \in Conversation, NEW outcome \in Outcomes, End(c, outcome) PROVE LateInv'
  <2>1. OthersStay(c) /\ pc[c] = "run" /\ pc'[c] = "fold" /\ head' = head /\ api'[c] = api[c]
    BY <1>12, OnlyTheActor DEF End, TypeOK
  <2>2. /\ Len(log') \in Nat /\ Len(log) <= Len(log')
        /\ \A i \in 1 .. Len(log) : log'[i] = log[i]
        /\ \A i \in Len(log) + 1 .. Len(log') :
             log'[i] = LuaExecuted \/ \E j \in DOMAIN api[c].buf : log'[i] = api[c].buf[j]
    BY <1>12, EndLog
  <2>3. HoldBlock(c)
    BY BlockParts
  <2>4. ASSUME NEW i \in Len(log) + 1 .. Len(log'), log'[i].kind = "entry"
        PROVE  \E x \in api'[c].held : log'[i].mem = Primary[x]
    <3>1. PICK j \in DOMAIN api[c].buf : log'[i] = api[c].buf[j]
      BY <2>2, <2>4, Recorded
    <3> QED
      BY <2>1, <2>3, <2>4, <3>1 DEF HoldBlock, Evaluating
  <2> QED
    BY <2>1, <2>2, <2>4, LateKept
<1>13. ASSUME NEW c \in Conversation, EndDry(c) PROVE LateInv'
  <2>1. OthersStay(c) /\ pc[c] # "fold" /\ head' = head /\ log' = log
    BY <1>13, OnlyTheActor DEF EndDry
  <2> QED
    BY <2>1, LateKept, HeadMoves
<1>14. ASSUME NEW c \in Conversation, InfraError(c) PROVE LateInv'
  <2>1. OthersStay(c) /\ pc[c] # "fold" /\ head' = head /\ log' = log
    BY <1>14, OnlyTheActor DEF InfraError
  <2> QED
    BY <2>1, LateKept, HeadMoves
<1>15. ASSUME NEW c \in Conversation, Fold(c) PROVE LateInv'
  <2>1. log' = log /\ head' = Materialized(log, head)
    BY <1>15 DEF Fold
  <2> QED
    BY <2>1, NothingLate, HeadMoves
<1>16. ASSUME NEW c \in Conversation, TimesOut(c) PROVE LateInv'
  <2>1. OthersStay(c) /\ pc[c] # "fold" /\ head' = head
    BY <1>16, OnlyTheActor DEF TimesOut, Overrun, Evaluating
  <2>2. /\ Len(log') \in Nat /\ Len(log) <= Len(log')
        /\ \A i \in 1 .. Len(log) : log'[i] = log[i]
        /\ \A i \in Len(log) + 1 .. Len(log') : log'[i] = LuaExecuted
    <3>1. CASE log' = log
      BY <3>1, HeadMoves
    <3>2. CASE log' = Append(log, LuaExecuted)
      BY <3>2, AppendLog, Recorded
    <3> QED
      BY <1>16, <3>1, <3>2 DEF TimesOut
  <2>3. \A i \in Len(log) + 1 .. Len(log') : log'[i].kind # "entry"
    BY <2>2, Recorded
  <2> QED
    BY <2>1, <2>2, <2>3, LateKept
<1>17. ASSUME NEW c \in Conversation, Retry(c) PROVE LateInv'
  <2>1. OthersStay(c) /\ pc[c] # "fold" /\ head' = head /\ log' = log
    BY <1>17, OnlyTheActor DEF Retry, Overrun, Evaluating
  <2> QED
    BY <2>1, LateKept, HeadMoves
<1>18. ASSUME NEW m \in Stubs, ProjectOnto(m) PROVE LateInv'
  <2>1. PICK l : l = log'
    OBVIOUS
  <2>2. /\ l \in Seq(Event) /\ Len(l) \in Nat /\ Len(log) <= Len(l)
        /\ DOMAIN l = 1 .. Len(l)
    BY <1>18, <2>1, ProjectLog, AppendLog DEF TypeOK
  <2>3. \A i \in 1 .. Len(l) : ~Collides(l, i)
    BY <2>1, <2>2 DEF NamesAreUnique
  <2>4. head \in Nat /\ head <= Len(l)
    BY <2>2, HeadMoves
  <2>5. Materialized(l, head) = Len(l)
    BY <2>2, <2>3, <2>4, MaterializedFacts
  <2>6. head' = Materialized(l, head)
    BY <1>18, <2>1 DEF ProjectOnto
  <2> QED
    BY <2>1, <2>2, <2>5, <2>6, NothingLate
<1> QED
  BY <1>1, <1>2, <1>3, <1>4, <1>5, <1>6, <1>7, <1>8, <1>9, <1>10, <1>11, <1>12, <1>13, <1>14,
     <1>15, <1>16, <1>17, <1>18, Steps

-----------------------------------------------------------------------------
(* The theorems.                                                           *)

LEMMA BlockStarts == BlockInit => BlockInv
<1>1. SUFFICES ASSUME BlockInit PROVE BlockInv
  OBVIOUS
<1>2. TypeOK
  <2>1. 0 \in 0 .. MaxAttempts /\ 0 \in 0 .. MaxBlocks /\ 0 \in 0 .. MaxOps /\ 0 \in 0 .. MaxForeign
    BY Constants
  <2>2. TaskOK
    <3>1. NoMcp \in [made : BOOLEAN, inFlight : BOOLEAN, live : BOOLEAN]
      BY DEF NoMcp
    <3> QED
      BY <1>1, <2>1, <3>1 DEF BlockInit, TaskOK, Evaluating, Op
  <2>3. UsedOK
    BY <1>1, <2>1 DEF BlockInit, UsedOK
  <2>4. <<>> \in Seq(Conversation) /\ <<>> \in Seq(Event) /\ Len(<<>>) = 0
    OBVIOUS
  <2>5. QueueOK
    BY <1>1, <2>4 DEF BlockInit, QueueOK
  <2>6. LogOK
    BY <1>1, <2>4 DEF BlockInit, LogOK
  <2>7. ApiOK
    <3>1. head \in Nat
      BY <1>1 DEF BlockInit
    <3>2. FreshApi \in Api(head)
      BY <3>1, FreshFacts
    <3> QED
      BY <1>1, <3>2 DEF BlockInit, ApiOK
  <2> QED
    BY <2>2, <2>3, <2>5, <2>6, <2>7, TypeParts
<1>3. /\ \A c \in Conversation : api[c] = FreshApi /\ pc[c] = "idle" /\ want[c] = {}
                                  /\ effects[c] = {} /\ desynced[c] = FALSE
      /\ \A m \in Stubs : queue[m] = <<>>
      /\ log = <<>> /\ head = 0
  BY <1>1 DEF BlockInit
<1>4. FreshApi.held = {}
  BY <1>2, HeadMoves, FreshFacts
<1>5. IsInjective(<<>>) /\ DOMAIN <<>> = {} /\ Len(<<>>) = 0
  BY DEF IsInjective
<1>6. LockInv
  BY <1>3, <1>4, <1>5 DEF LockInv
<1>7. OpInv /\ HoldInv /\ SeenInv
  BY <1>3 DEF OpInv, HoldInv, SeenInv, Evaluating
<1>8. EffectInv
  BY <1>3 DEF EffectInv
<1>9. LateInv
  BY <1>3, <1>5 DEF LateInv
<1> QED
  BY <1>2, <1>6, <1>7, <1>8, <1>9 DEF BlockInv

LEMMA BlockStep == BlockInv /\ [BlockNext]_blockVars => BlockInv'
<1>1. SUFFICES ASSUME BlockInv, [BlockNext]_blockVars PROVE BlockInv'
  OBVIOUS
<1>2. /\ TypeOK /\ LockInv /\ OpInv /\ HoldInv /\ EffectInv
      /\ NamesAreUnique => SeenInv /\ LateInv
  BY <1>1 DEF BlockInv
<1>3. CASE BlockNext
  <2>1. TypeOK' /\ head' >= head
    BY <1>2, <1>3, TypeStep
  <2>2. LogOK'
    BY <2>1, TypeParts
  <2>3. LockInv'
    BY <1>2, <1>3, <2>1, <2>2, LockStep
  <2>4. OpInv' /\ HoldInv' /\ EffectInv'
    BY <1>2, <1>3, <2>1, <2>2, BlocksStep
  <2>5. ASSUME NamesAreUnique' PROVE SeenInv' /\ LateInv'
    <3>1. NamesAreUnique
      BY <1>2, <1>3, <2>2, <2>5, UniqueBefore
    <3>2. SeenInv /\ LateInv
      BY <1>2, <3>1
    <3>3. SeenInv'
      BY <1>2, <1>3, <2>1, <2>2, <3>2, SeenStep
    <3>4. LateInv'
      BY <1>2, <1>3, <2>1, <2>5, <3>1, <3>2, LateStep
    <3> QED
      BY <3>3, <3>4
  <2> QED
    BY <2>1, <2>3, <2>4, <2>5 DEF BlockInv
<1>4. CASE UNCHANGED blockVars
  <2>1. /\ pc' = pc /\ attempt' = attempt /\ op' = op /\ want' = want /\ api' = api
        /\ queue' = queue /\ mcp' = mcp /\ log' = log /\ head' = head /\ used' = used
        /\ effects' = effects /\ desynced' = desynced
    BY <1>4 DEF blockVars, hist
  <2>2. TypeOK'
    BY <1>2, <2>1 DEF TypeOK
  <2>3. LockInv' /\ OpInv' /\ HoldInv' /\ EffectInv'
    BY <1>2, <2>1 DEF LockInv, OpInv, HoldInv, EffectInv
  <2>4. NamesAreUnique' <=> NamesAreUnique
    BY <2>1 DEF NamesAreUnique
  <2>5. SeenInv => SeenInv'
    BY <2>1 DEF SeenInv, ByAgents
  <2>6. LateInv => LateInv'
    BY <2>1 DEF LateInv
  <2> QED
    BY <1>2, <2>2, <2>3, <2>4, <2>5, <2>6 DEF BlockInv
<1> QED
  BY <1>1, <1>3, <1>4

(* In every execution of blocks the invariant holds: whatever the scripts  *)
(* do, whoever waits for whom and whichever attempt times out.             *)
THEOREM BlocksHold == BlockSpec => []BlockInv
  BY BlockStarts, BlockStep, PTL DEF BlockSpec

(* The guards: who leads a queue holds it or waits for it, and nobody who  *)
(* left is in one.                                                         *)
LEMMA GuardsLive == BlockInv => NoLeakedGuard
<1>1. SUFFICES ASSUME BlockInv, NEW m \in Stubs
               PROVE  /\ IsInjective(queue[m])
                      /\ \A i \in DOMAIN queue[m] :
                            /\ pc[queue[m][i]] # "idle"
                            /\ m \in api[queue[m][i]].held
                                 \/ (pc[queue[m][i]] = "lock" /\ m \in want[queue[m][i]])
                            /\ m \in api[queue[m][i]].held => i = 1
  BY DEF NoLeakedGuard
<1>2. TypeOK /\ LockInv
  BY <1>1 DEF BlockInv
<1>3. LockQueue(m) /\ queue[m] \in Seq(Conversation)
  BY <1>2, LockParts DEF TypeOK
<1>4. ASSUME NEW i \in DOMAIN queue[m]
      PROVE  /\ pc[queue[m][i]] # "idle"
             /\ m \in api[queue[m][i]].held
                  \/ (pc[queue[m][i]] = "lock" /\ m \in want[queue[m][i]])
             /\ m \in api[queue[m][i]].held => i = 1
  <2>1. PICK c : c = queue[m][i]
    OBVIOUS
  <2>2. c \in Conversation /\ m \in api[c].held \cup want[c]
    BY <1>3, <1>4, <2>1 DEF LockQueue
  <2>3. LockBlock(c)
    BY <1>2, <2>2, LockParts
  <2>4. FreshApi.held = {}
    BY <1>2, HeadMoves, FreshFacts
  <2>5. pc[c] # "idle"
    BY <2>2, <2>3, <2>4 DEF LockBlock
  <2>6. m \in api[c].held \/ (pc[c] = "lock" /\ m \in want[c])
    BY <2>2, <2>3 DEF LockBlock
  <2>7. ASSUME m \in api[c].held PROVE i = 1
    <3>1. Len(queue[m]) > 0 /\ queue[m][1] = c
      BY <2>3, <2>7 DEF LockBlock
    <3>2. 1 \in DOMAIN queue[m]
      BY <1>3, <3>1
    <3> QED
      BY <1>3, <1>4, <2>1, <3>1, <3>2 DEF LockQueue, IsInjective
  <2> QED
    BY <2>1, <2>5, <2>6, <2>7
<1>5. IsInjective(queue[m])
  BY <1>3 DEF LockQueue
<1> QED
  BY <1>4, <1>5

LEMMA EffectsOnce == BlockInv => EffectsAreNotRepeated
<1>1. SUFFICES ASSUME BlockInv, NEW c \in Conversation
               PROVE  Cardinality(effects[c]) <= 1 /\ (pc[c] = "call" => ~desynced[c])
  BY DEF EffectsAreNotRepeated
<1>2. ~desynced[c] /\ effects[c] \subseteq {attempt[c]}
  BY <1>1 DEF BlockInv, EffectInv
<1>3. effects[c] = {} \/ effects[c] = {attempt[c]}
  BY <1>2
<1>4. Cardinality({}) = 0 /\ Cardinality({attempt[c]}) = 1
  BY FS_EmptySet, FS_Singleton
<1>5. Cardinality(effects[c]) <= 1
  BY <1>3, <1>4
<1> QED
  BY <1>2, <1>5

(* Committed blocks are serialisable in log order, no guard is left behind *)
(* by a block that ended, timed out or retried, and no retry repeats a     *)
(* tool call, for any number of conversations, memories and classes.       *)
THEOREM BlocksSerialise == BlockSpec => []BlocksAreSerial
<1>1. BlockInv => BlocksAreSerial
  <2>1. SUFFICES ASSUME BlockInv PROVE BlocksAreSerial
    OBVIOUS
  <2>2. TypeOK
    BY <2>1 DEF BlockInv
  <2>3. ReadsHoldToTheEnd
    BY <2>1 DEF BlockInv, SeenInv, ReadsHoldToTheEnd
  <2>4. NoLeakedGuard /\ EffectsAreNotRepeated
    BY <2>1, GuardsLive, EffectsOnce
  <2> QED
    BY <2>2, <2>3, <2>4 DEF BlocksAreSerial
<1> QED
  BY <1>1, BlocksHold, PTL

=============================================================================
