------------------------- MODULE ModelClientProofs -------------------------
(***************************************************************************)
(* Proofs about the model client, for any number of callers, thresholds    *)
(* and attempts: the arbiter's and the breaker's invariants are inductive, *)
(* and the composition is a behaviour of each component.                   *)
(***************************************************************************)
EXTENDS ModelClient, FiniteSetTheorems, TLAPS

-----------------------------------------------------------------------------
(* The arbiter.                                                            *)

(* The guards are finitely many.                                           *)
LEMMA GuardsFinite ==
    IsFiniteSet(Guards) /\ Cardinality(Guards) \in Nat
<1>1. Guards \subseteq TurnCalls
  BY DEF Guards
<1>2. IsFiniteSet(Guards)
  BY <1>1, FS_Subset, ArbiterAssumption
<1> QED
  BY <1>2, FS_CardinalityType

(* A turn holds its place exactly when the counter is positive.            *)
LEMMA PendingMeansGuards ==
    ASSUME PendingIsExact
    PROVE  turns_pending = 0 <=> Guards = {}
<1>1. Cardinality(Guards) = 0 <=> Guards = {}
  BY GuardsFinite, FS_EmptySet
<1> QED
  BY <1>1 DEF PendingIsExact

LEMMA ArbiterInitial == ArbiterInit => ArbiterInv
<1> SUFFICES ASSUME ArbiterInit PROVE ArbiterInv
  OBVIOUS
<1> USE DEF ArbiterInit
<1>1. ArbiterTypeOK
  BY DEF ArbiterTypeOK, TurnPcs, BackgroundPcs
<1>2. Guards = {}
  BY DEF Guards
<1>3. PendingIsExact
  BY <1>2, FS_EmptySet DEF PendingIsExact
<1>4. NoLostWakeup
  BY DEF NoLostWakeup
<1>5. NoSecondPass
  BY <1>2 DEF NoSecondPass
<1> QED
  BY <1>1, <1>3, <1>4, <1>5 DEF ArbiterInv

LEMMA ArbiterTyping ==
    ArbiterTypeOK /\ [ArbiterNext]_arbiterVars /\ PendingIsExact
        => ArbiterTypeOK'
<1> SUFFICES ASSUME ArbiterTypeOK, [ArbiterNext]_arbiterVars, PendingIsExact
             PROVE  ArbiterTypeOK'
  OBVIOUS
<1> USE DEF ArbiterTypeOK, TurnPcs, BackgroundPcs
<1>1. ASSUME NEW t \in TurnCalls, EnterTurn(t) PROVE ArbiterTypeOK'
  BY <1>1 DEF EnterTurn
<1>2. ASSUME NEW t \in TurnCalls, NotifyWaiters(t) PROVE ArbiterTypeOK'
  BY <1>2 DEF NotifyWaiters
<1>3. ASSUME NEW t \in TurnCalls, DispatchTurn(t) PROVE ArbiterTypeOK'
  BY <1>3 DEF DispatchTurn
<1>4. ASSUME NEW t \in TurnCalls, LeaveTurn(t) PROVE ArbiterTypeOK'
  <2>1. t \in Guards
    BY <1>4 DEF LeaveTurn, Guards
  <2>2. turns_pending # 0
    BY <2>1, PendingMeansGuards
  <2>3. turns_pending' \in Nat
    BY <1>4, <2>2 DEF LeaveTurn
  <2> QED
    BY <1>4, <2>3 DEF LeaveTurn, LastOut
<1>5. ASSUME NEW b \in BackgroundCalls,
             CallBackground(b) \/ Yield(b) \/ ReturnBackground(b)
      PROVE  ArbiterTypeOK'
  BY <1>5 DEF CallBackground, Yield, Check, Register, Recheck, Resume,
              ReturnBackground, BackgroundMoves
<1>6. ASSUME NEW b \in BackgroundCalls, DispatchBackground(b)
      PROVE  ArbiterTypeOK'
  BY <1>6 DEF DispatchBackground, BackgroundMoves
<1>7. CASE UNCHANGED arbiterVars
  BY <1>7 DEF arbiterVars
<1> QED
  BY <1>1, <1>2, <1>3, <1>4, <1>5, <1>6, <1>7 DEF ArbiterNext, TurnStep

(* The counter moves with the set of guards.                               *)
LEMMA ArbiterCounting ==
    ArbiterInv /\ [ArbiterNext]_arbiterVars => PendingIsExact'
<1> SUFFICES ASSUME ArbiterInv, [ArbiterNext]_arbiterVars
             PROVE  PendingIsExact'
  OBVIOUS
<1> USE DEF ArbiterInv
<1>1. ASSUME NEW t \in TurnCalls, EnterTurn(t) PROVE PendingIsExact'
  <2>1. t \notin Guards
    BY <1>1 DEF EnterTurn, Guards
  <2>2. Guards' = Guards \cup {t}
    BY <1>1 DEF EnterTurn, Guards, ArbiterTypeOK
  <2>3. Cardinality(Guards') = Cardinality(Guards) + 1
    BY <2>1, <2>2, GuardsFinite, FS_AddElement
  <2> QED
    BY <1>1, <2>3 DEF PendingIsExact, EnterTurn
<1>2. ASSUME NEW t \in TurnCalls, LeaveTurn(t) PROVE PendingIsExact'
  <2>1. t \in Guards
    BY <1>2 DEF LeaveTurn, Guards
  <2>2. Guards' = Guards \ {t}
    BY <1>2 DEF LeaveTurn, Guards, ArbiterTypeOK
  <2>3. Cardinality(Guards') = Cardinality(Guards) - 1
    BY <2>1, <2>2, GuardsFinite, FS_RemoveElement
  <2> QED
    BY <1>2, <2>3 DEF PendingIsExact, LeaveTurn
<1>3. ASSUME Guards' = Guards, UNCHANGED turns_pending PROVE PendingIsExact'
  BY <1>3 DEF PendingIsExact
<1>4. ASSUME NEW t \in TurnCalls, NotifyWaiters(t) \/ DispatchTurn(t)
      PROVE  PendingIsExact'
  <2>1. Guards' = Guards
    BY <1>4 DEF NotifyWaiters, DispatchTurn, Guards, ArbiterTypeOK
  <2> QED
    BY <1>3, <1>4, <2>1 DEF NotifyWaiters, DispatchTurn
<1>5. ASSUME UNCHANGED <<tpc, turns_pending>> PROVE PendingIsExact'
  BY <1>3, <1>5 DEF Guards
<1>6. ASSUME NEW b \in BackgroundCalls,
             \/ CallBackground(b) \/ Yield(b)
             \/ DispatchBackground(b) \/ ReturnBackground(b)
      PROVE  PendingIsExact'
  BY <1>5, <1>6 DEF CallBackground, Yield, Check, Register, Recheck, Resume,
                    DispatchBackground, ReturnBackground
<1>7. CASE UNCHANGED arbiterVars
  BY <1>5, <1>7 DEF arbiterVars
<1> QED
  BY <1>1, <1>2, <1>4, <1>6, <1>7 DEF ArbiterNext, TurnStep

(* Every step keeps the promise of a wake-up to whoever is parked.         *)
LEMMA ArbiterWaking ==
    ArbiterInv /\ [ArbiterNext]_arbiterVars => NoLostWakeup'
<1> SUFFICES ASSUME ArbiterInv, [ArbiterNext]_arbiterVars,
                    NEW b \in BackgroundCalls,
                    bpc'[b] = "parked", ~notified'[b]
             PROVE  \/ turns_pending' > 0
                    \/ \E t \in TurnCalls : tpc'[t] = "notify"
  BY DEF NoLostWakeup
<1> USE DEF ArbiterInv, ArbiterTypeOK
<1>1. ASSUME bpc[b] = "parked", ~notified[b]
      PROVE  turns_pending > 0 \/ \E t \in TurnCalls : tpc[t] = "notify"
  BY <1>1 DEF NoLostWakeup
<1>2. ASSUME NEW t \in TurnCalls, EnterTurn(t) PROVE turns_pending' > 0
  BY <1>2 DEF EnterTurn
<1>3. ASSUME NEW t \in TurnCalls, NotifyWaiters(t) PROVE FALSE
  BY <1>3 DEF NotifyWaiters
<1>4. CASE \E t \in TurnCalls : DispatchTurn(t)
  <2> PICK t \in TurnCalls : DispatchTurn(t)
    BY <1>4
  <2>1. ASSUME NEW u \in TurnCalls, tpc[u] = "notify"
        PROVE  tpc'[u] = "notify"
    BY <2>1 DEF DispatchTurn
  <2>2. bpc[b] = "parked" /\ ~notified[b]
    BY DEF DispatchTurn
  <2> QED
    BY <1>1, <2>1, <2>2 DEF DispatchTurn
<1>5. CASE \E t \in TurnCalls : LeaveTurn(t)
  <2> PICK t \in TurnCalls : LeaveTurn(t)
    BY <1>5
  <2>1. CASE LastOut
    <3>1. tpc'[t] = "notify"
      BY <2>1 DEF LeaveTurn
    <3> QED
      BY <3>1
  <2>2. CASE ~LastOut
    <3>1. t \in Guards
      BY DEF LeaveTurn, Guards
    <3>2. turns_pending # 0
      BY <3>1, PendingMeansGuards
    <3> QED
      BY <2>2, <3>2 DEF LeaveTurn, LastOut
  <2> QED
    BY <2>1, <2>2
<1>6. ASSUME NEW c \in BackgroundCalls,
             \/ CallBackground(c) \/ Check(c) \/ Register(c) \/ Resume(c)
             \/ DispatchBackground(c) \/ ReturnBackground(c)
      PROVE  \/ turns_pending' > 0
             \/ \E t \in TurnCalls : tpc'[t] = "notify"
  <2>1. bpc[b] = "parked"
    BY <1>6 DEF CallBackground, Check, Register, Resume, DispatchBackground,
                ReturnBackground, BackgroundMoves
  <2>2. ~notified[b]
    BY <1>6, <2>1 DEF CallBackground, Check, Register, Resume,
                      DispatchBackground, ReturnBackground, BackgroundMoves
  <2>3. UNCHANGED <<turns_pending, tpc>>
    BY <1>6 DEF CallBackground, Check, Register, Resume, DispatchBackground,
                ReturnBackground
  <2> QED
    BY <1>1, <2>1, <2>2, <2>3
<1>7. ASSUME NEW c \in BackgroundCalls, Recheck(c)
      PROVE  \/ turns_pending' > 0
             \/ \E t \in TurnCalls : tpc'[t] = "notify"
  <2>1. CASE c = b
    BY <1>7, <2>1 DEF Recheck, BackgroundMoves
  <2>2. CASE c # b
    <3>1. bpc[b] = "parked" /\ ~notified[b]
      BY <1>7, <2>2 DEF Recheck, BackgroundMoves
    <3> QED
      BY <1>1, <1>7, <3>1 DEF Recheck
  <2> QED
    BY <2>1, <2>2
<1>8. CASE UNCHANGED arbiterVars
  BY <1>1, <1>8 DEF arbiterVars
<1> QED
  BY <1>2, <1>3, <1>4, <1>5, <1>6, <1>7, <1>8
     DEF ArbiterNext, TurnStep, Yield

(* Nobody passes the check while a turn holds its place.                   *)
LEMMA ArbiterYielding ==
    ArbiterInv /\ [ArbiterNext]_arbiterVars => NoSecondPass'
<1> SUFFICES ASSUME ArbiterInv, [ArbiterNext]_arbiterVars,
                    NEW t \in Guards', NEW b \in overtook'[t]
             PROVE  bpc'[b] # "clear"
  BY DEF NoSecondPass
<1> USE DEF ArbiterInv, ArbiterTypeOK
<1>0. t \in TurnCalls
  BY DEF Guards
<1>1. ASSUME t \in Guards, b \in overtook[t] PROVE bpc[b] # "clear"
  BY <1>1 DEF NoSecondPass
<1>2. ASSUME NEW u \in TurnCalls, EnterTurn(u) PROVE bpc'[b] # "clear"
  <2>1. t # u
    BY <1>0, <1>2 DEF EnterTurn
  <2>2. t \in Guards /\ b \in overtook[t]
    BY <1>0, <1>2, <2>1 DEF EnterTurn, Guards
  <2> QED
    BY <1>1, <1>2, <2>2 DEF EnterTurn
<1>3. ASSUME NEW u \in TurnCalls,
             NotifyWaiters(u) \/ DispatchTurn(u) \/ LeaveTurn(u)
      PROVE  bpc'[b] # "clear"
  <2>1. t \in Guards /\ b \in overtook[t]
    BY <1>0, <1>3 DEF NotifyWaiters, DispatchTurn, LeaveTurn, Guards
  <2> QED
    BY <1>1, <1>3, <2>1 DEF NotifyWaiters, DispatchTurn, LeaveTurn
<1>4. ASSUME NEW c \in BackgroundCalls, DispatchBackground(c)
      PROVE  bpc'[b] # "clear"
  <2>1. t \in Guards
    BY <1>4 DEF DispatchBackground, Guards
  <2>2. CASE b = c
    BY <1>4, <2>2 DEF DispatchBackground, BackgroundMoves
  <2>3. CASE b # c
    <3>1. b \in overtook[t]
      BY <1>0, <1>4, <2>3 DEF DispatchBackground
    <3>2. b \in BackgroundCalls
      BY <1>0, <3>1
    <3> QED
      BY <1>1, <1>4, <2>1, <2>3, <3>1, <3>2
         DEF DispatchBackground, BackgroundMoves
  <2> QED
    BY <2>2, <2>3
<1>5. ASSUME NEW c \in BackgroundCalls,
             CallBackground(c) \/ Yield(c) \/ ReturnBackground(c)
      PROVE  bpc'[b] # "clear"
  <2>1. t \in Guards /\ b \in overtook[t]
    BY <1>5 DEF CallBackground, Yield, Check, Register, Recheck, Resume,
                ReturnBackground, Guards
  <2>2. turns_pending # 0
    BY <2>1, PendingMeansGuards
  <2>3. b \in BackgroundCalls
    BY <1>0, <2>1
  <2>4. bpc[b] # "clear"
    BY <1>1, <2>1
  <2> QED
    BY <1>5, <2>2, <2>3, <2>4
       DEF CallBackground, Yield, Check, Register, Recheck, Resume,
           ReturnBackground, BackgroundMoves
<1>6. CASE UNCHANGED arbiterVars
  BY <1>1, <1>6 DEF arbiterVars, Guards
<1> QED
  BY <1>2, <1>3, <1>4, <1>5, <1>6 DEF ArbiterNext, TurnStep

LEMMA ArbiterInductive ==
    ArbiterInv /\ [ArbiterNext]_arbiterVars => ArbiterInv'
  BY ArbiterTyping, ArbiterCounting, ArbiterWaking, ArbiterYielding
     DEF ArbiterInv

(* A step that dispatches a background call was not one that had already   *)
(* overtaken a turn at the model.                                          *)
LEMMA ArbiterOvertaking ==
    ASSUME ArbiterInv
    PROVE  \A b \in BackgroundCalls, t \in Guards :
              b \in overtook[t] =>
                  ~(bpc[b] = "clear" /\ bpc'[b] = "streaming")
  BY DEF ArbiterInv, NoSecondPass

-----------------------------------------------------------------------------
(* The breaker.                                                            *)

LEMMA BreakerInitial == BreakerInit => BreakerInv
<1> SUFFICES ASSUME BreakerInit PROVE BreakerInv
  OBVIOUS
<1> USE BreakerAssumption DEF BreakerInit
<1>1. BreakerTypeOK
  <2>1. lapsed \in BOOLEAN /\ probe \in [Calls -> BOOLEAN]
    BY Zenon
  <2> QED
    BY <2>1 DEF BreakerTypeOK
<1>2. AttemptsLeft
  BY DEF AttemptsLeft
<1>3. CircuitMatchesCount
  BY DEF CircuitMatchesCount
<1>4. HalfOpenHasProbe
  BY DEF HalfOpenHasProbe
<1> QED
  BY <1>1, <1>2, <1>3, <1>4 DEF BreakerInv

(* The bumped count saturates at or above the threshold.                   *)
LEMMA BumpedCount ==
    ASSUME BreakerTypeOK
    PROVE  /\ Bumped \in 0 .. MaxCount
           /\ failures <= Bumped
  BY BreakerAssumption DEF BreakerTypeOK, Bumped

(* The flags stay Boolean.                                                 *)
LEMMA BreakerFlags ==
    ASSUME lapsed \in BOOLEAN, probe \in [Calls -> BOOLEAN],
           [BreakerNext]_breakerVars
    PROVE  lapsed' \in BOOLEAN /\ probe' \in [Calls -> BOOLEAN]
<1> DEFINE Flags == lapsed \in BOOLEAN /\ probe \in [Calls -> BOOLEAN]
<1>1. ASSUME NEW c \in Calls, AdmitClosed(c) \/ AdmitProbe(c) \/ Redrive(c)
      PROVE  Flags'
  BY <1>1, Zenon DEF AdmitClosed, AdmitProbe, Redrive
<1>2. ASSUME NEW c \in Calls, Answered(c) \/ Transient(c) PROVE Flags'
  BY <1>2, Zenon DEF Answered, Transient, Disarm
<1>3. ASSUME NEW c \in Calls, Unresolved(c) PROVE Flags'
  <2>1. probe' \in [Calls -> BOOLEAN]
    BY <1>3, Zenon DEF Unresolved, Disarm
  <2>2. lapsed' = FALSE \/ lapsed' = lapsed
    BY <1>3, Zenon DEF Unresolved, GuardDrops
  <2> QED
    BY <2>1, <2>2, Zenon
<1>4. CASE WindowLapses
  BY <1>4, Zenon DEF WindowLapses
<1>5. CASE UNCHANGED breakerVars
  BY <1>5 DEF breakerVars
<1> QED
  BY <1>1, <1>2, <1>3, <1>4, <1>5
     DEF BreakerNext, Admit, FailFast, Resolve, EndsShort, DropStream

(* The rest of the type invariant, and the attempts of a call.             *)
Counting ==
    /\ circuit \in {"closed", "open", "half"}
    /\ failures \in 0 .. MaxCount
    /\ cpc \in [Calls -> {"none", "streaming", "backoff"}]
    /\ attempt \in [Calls -> 0 .. MaxAttempts]

LEMMA BreakerTyping ==
    BreakerInv /\ [BreakerNext]_breakerVars => BreakerTypeOK' /\ AttemptsLeft'
<1> SUFFICES ASSUME BreakerInv, [BreakerNext]_breakerVars
             PROVE  BreakerTypeOK' /\ AttemptsLeft'
  OBVIOUS
<1>a. Counting /\ AttemptsLeft
  BY DEF BreakerInv, BreakerTypeOK, Counting
<1>b. Bumped \in 0 .. MaxCount
  BY BumpedCount DEF BreakerInv
<1> DEFINE Goal == Counting' /\ AttemptsLeft'
<1> USE BreakerAssumption DEF Counting, AttemptsLeft
<1>1. ASSUME NEW c \in Calls, AdmitClosed(c) PROVE Goal
  BY <1>a, <1>1 DEF AdmitClosed, Starts
<1>2. ASSUME NEW c \in Calls, AdmitProbe(c) PROVE Goal
  BY <1>a, <1>2 DEF AdmitProbe, Starts
<1>3. ASSUME NEW c \in Calls, Answered(c) PROVE Goal
  BY <1>a, <1>3 DEF Answered, CountAfterAnswer, Ends
<1>4. ASSUME NEW c \in Calls, Transient(c) PROVE Goal
  <2>1. failures' \in 0 .. MaxCount /\ circuit' \in {"closed", "open", "half"}
    BY <1>a, <1>b, <1>4 DEF Transient
  <2>2. CASE Opens \/ attempt[c] >= MaxAttempts
    BY <1>a, <1>4, <2>1, <2>2 DEF Transient, Ends
  <2>3. CASE ~(Opens \/ attempt[c] >= MaxAttempts)
    BY <1>a, <1>4, <2>1, <2>3 DEF Transient
  <2> QED
    BY <2>2, <2>3
<1>5. ASSUME NEW c \in Calls, Redrive(c) PROVE Goal
  <2>1. attempt[c] + 1 \in 0 .. MaxAttempts
    BY <1>a, <1>5 DEF Redrive
  <2> QED
    BY <1>a, <1>5, <2>1 DEF Redrive
<1>6. ASSUME NEW c \in Calls, Unresolved(c) PROVE Goal
  BY <1>a, <1>6 DEF Unresolved, GuardDrops, Ends
<1>7. ASSUME WindowLapses PROVE Goal
  BY <1>a, <1>7 DEF WindowLapses
<1>8. ASSUME UNCHANGED breakerVars PROVE Goal
  BY <1>a, <1>8 DEF breakerVars
<1>9. Goal
  BY <1>1, <1>2, <1>3, <1>4, <1>5, <1>6, <1>7, <1>8
     DEF BreakerNext, Admit, FailFast, Resolve, EndsShort, DropStream
<1>10. lapsed' \in BOOLEAN /\ probe' \in [Calls -> BOOLEAN]
  BY BreakerFlags DEF BreakerInv, BreakerTypeOK
<1> QED
  BY <1>9, <1>10 DEF BreakerTypeOK

LEMMA BreakerCounting ==
    BreakerInv /\ [BreakerNext]_breakerVars => CircuitMatchesCount'
<1> SUFFICES ASSUME BreakerInv, [BreakerNext]_breakerVars
             PROVE  CircuitMatchesCount'
  OBVIOUS
<1> USE BreakerAssumption DEF BreakerInv, CircuitMatchesCount
<1>1. ASSUME NEW c \in Calls, AdmitClosed(c) \/ AdmitProbe(c) \/ Redrive(c)
      PROVE  CircuitMatchesCount'
  BY <1>1 DEF AdmitClosed, AdmitProbe, Redrive
<1>2. ASSUME NEW c \in Calls, Answered(c) PROVE CircuitMatchesCount'
  BY <1>2 DEF Answered, CountAfterAnswer
<1>3. ASSUME NEW c \in Calls, Transient(c) PROVE CircuitMatchesCount'
  <2>1. failures' = Bumped /\ circuit' = IF Opens THEN "open" ELSE circuit
    BY <1>3 DEF Transient
  <2> QED
    BY <2>1, BumpedCount DEF Opens, BreakerTypeOK
<1>4. ASSUME NEW c \in Calls, Unresolved(c) PROVE CircuitMatchesCount'
  BY <1>4 DEF Unresolved, GuardDrops
<1>5. CASE WindowLapses
  BY <1>5 DEF WindowLapses
<1>6. CASE UNCHANGED breakerVars
  BY <1>6 DEF breakerVars
<1> QED
  BY <1>1, <1>2, <1>3, <1>4, <1>5, <1>6
     DEF BreakerNext, Admit, FailFast, Resolve, EndsShort, DropStream

(* Whatever takes an armed guard away also leaves half-open.               *)
LEMMA BreakerProbing ==
    BreakerInv /\ [BreakerNext]_breakerVars => HalfOpenHasProbe'
<1> SUFFICES ASSUME BreakerInv, [BreakerNext]_breakerVars,
                    circuit' = "half"
             PROVE  \E d \in Calls : probe'[d] /\ cpc'[d] = "streaming"
  BY DEF HalfOpenHasProbe
<1> USE DEF BreakerInv, BreakerTypeOK
<1>1. ASSUME NEW c \in Calls, AdmitProbe(c)
      PROVE  probe'[c] /\ cpc'[c] = "streaming"
  BY <1>1 DEF AdmitProbe, Starts
<1>2. ASSUME NEW c \in Calls, AdmitClosed(c) \/ Answered(c) \/ Transient(c)
      PROVE  FALSE
  BY <1>2 DEF AdmitClosed, Answered, Transient, Opens
<1>3. ASSUME circuit = "half"
      PROVE  \E d \in Calls : probe[d] /\ cpc[d] = "streaming"
  BY <1>3 DEF HalfOpenHasProbe
<1>4. ASSUME NEW c \in Calls, Redrive(c)
      PROVE  \E d \in Calls : probe'[d] /\ cpc'[d] = "streaming"
  <2>1. PICK d \in Calls : probe[d] /\ cpc[d] = "streaming"
    BY <1>3, <1>4 DEF Redrive
  <2>2. d # c
    BY <1>4, <2>1 DEF Redrive
  <2> QED
    BY <1>4, <2>1, <2>2 DEF Redrive
<1>5. ASSUME NEW c \in Calls, Unresolved(c)
      PROVE  \E d \in Calls : probe'[d] /\ cpc'[d] = "streaming"
  <2>1. circuit = "half" /\ ~probe[c]
    BY <1>5 DEF Unresolved, GuardDrops
  <2>2. PICK d \in Calls : probe[d] /\ cpc[d] = "streaming"
    BY <1>3, <2>1
  <2>3. d # c
    BY <2>1, <2>2
  <2> QED
    BY <1>5, <2>2, <2>3 DEF Unresolved, Disarm, Ends
<1>6. CASE WindowLapses
  BY <1>6 DEF WindowLapses
<1>7. CASE UNCHANGED breakerVars
  BY <1>3, <1>7 DEF breakerVars
<1> QED
  BY <1>1, <1>2, <1>4, <1>5, <1>6, <1>7
     DEF BreakerNext, Admit, FailFast, Resolve, EndsShort, DropStream

LEMMA BreakerInductive ==
    BreakerInv /\ [BreakerNext]_breakerVars => BreakerInv'
  BY BreakerTyping, BreakerCounting, BreakerProbing DEF BreakerInv

-----------------------------------------------------------------------------
(* The composition.                                                        *)

(* A step of the client is a step of each component, or leaves it alone.   *)
LEMMA ClientSteps ==
    [Next]_vars =>
        [ArbiterNext]_arbiterVars /\ [BreakerNext]_breakerVars
<1> SUFFICES ASSUME [Next]_vars
             PROVE  [ArbiterNext]_arbiterVars /\ [BreakerNext]_breakerVars
  OBVIOUS
<1>1. CASE Arbitrate
  BY <1>1 DEF Arbitrate, ArbiterNext
<1>2. ASSUME NEW c \in Calls, Dispatch(c)
      PROVE  ArbiterNext /\ BreakerNext
  BY <1>2 DEF Dispatch, ArbiterNext, BreakerNext
<1>3. ASSUME NEW c \in Calls, Stream(c)
      PROVE  UNCHANGED arbiterVars /\ BreakerNext
  BY <1>3 DEF Stream, BreakerNext
<1>4. ASSUME NEW c \in Calls, Finish(c)
      PROVE  ArbiterNext /\ UNCHANGED breakerVars
  BY <1>4 DEF Finish, ArbiterNext
<1>5. CASE Elapse
  BY <1>5 DEF Elapse, BreakerNext
<1>6. CASE UNCHANGED vars
  BY <1>6 DEF vars
<1> QED
  BY <1>1, <1>2, <1>3, <1>4, <1>5, <1>6 DEF Next

(* Under the composition the arbiter is still the arbiter: the breaker's   *)
(* fast failures, retries and backoffs add no behaviour to it.             *)
THEOREM ClientImplementsArbiter == Spec => ArbiterSpec
<1>1. Init => ArbiterInit
  BY DEF Init
<1> QED
  BY <1>1, ClientSteps, PTL DEF Spec, ArbiterSpec

(* And the breaker is still the breaker, whatever the arbiter holds back.  *)
THEOREM ClientImplementsBreaker == Spec => BreakerSpec
<1>1. Init => BreakerInit
  BY DEF Init
<1> QED
  BY <1>1, ClientSteps, PTL DEF Spec, BreakerSpec

(* Both inductive invariants hold throughout.                              *)
THEOREM ClientInvariant == Spec => [](ArbiterInv /\ BreakerInv)
<1>1. ArbiterSpec => []ArbiterInv
  BY ArbiterInitial, ArbiterInductive, PTL DEF ArbiterSpec
<1>2. BreakerSpec => []BreakerInv
  BY BreakerInitial, BreakerInductive, PTL DEF BreakerSpec
<1> QED
  BY <1>1, <1>2, ClientImplementsArbiter, ClientImplementsBreaker, PTL

(* Type correctness: the counter never underflows, the attempts stay in    *)
(* bounds, the failure count saturates.                                    *)
THEOREM ClientTyped == Spec => []TypeOK
<1>1. ArbiterInv /\ BreakerInv => TypeOK
  BY DEF ArbiterInv, BreakerInv, TypeOK
<1> QED
  BY <1>1, ClientInvariant, PTL

(* No wake-up of yield_to_turns is ever lost, for any number of turns and  *)
(* workers.                                                                *)
THEOREM ClientLosesNoWakeup == Spec => []NoLostWakeup
<1>1. ArbiterInv => NoLostWakeup
  BY DEF ArbiterInv
<1> QED
  BY <1>1, ClientInvariant, PTL

(* A background caller gets ahead of a turn's call at most once.           *)
THEOREM ClientOvertakenOnce == Spec => OvertakenOnce
<1>1. ArbiterInv =>
        [\A b \in BackgroundCalls, t \in Guards :
            b \in overtook[t] => ~(bpc[b] = "clear" /\ bpc'[b] = "streaming")
        ]_arbiterVars
  BY ArbiterOvertaking
<1> QED
  BY <1>1, ClientInvariant, PTL DEF OvertakenOnce

(* The circuit is closed exactly below the threshold.                      *)
THEOREM ClientCircuitMatchesCount == Spec => []CircuitMatchesCount
<1>1. BreakerInv => CircuitMatchesCount
  BY DEF BreakerInv
<1> QED
  BY <1>1, ClientInvariant, PTL

(* The breaker is half-open only with a probe in flight.                   *)
THEOREM ClientHalfOpenHasProbe == Spec => []HalfOpenHasProbe
<1>1. BreakerInv => HalfOpenHasProbe
  BY DEF BreakerInv
<1> QED
  BY <1>1, ClientInvariant, PTL
=============================================================================
