---------------------------- MODULE ModelClient ----------------------------
(***************************************************************************)
(* The model client of a serving host: the arbiter's handles over one      *)
(* RetryingModel that every caller shares.  A call goes through the        *)
(* arbiter, is gated by the breaker at the moment it is dispatched, and    *)
(* gives its place back when its stream is gone: a turn holds its place    *)
(* through the backoffs of its retries.                                    *)
(*                                                                         *)
(* The arbiter: a turn's call holds a place in turns_pending for the life  *)
(* of its stream, a background call waits until nobody holds one.  The     *)
(* atomics and the Notify are shared between threads, so every load,       *)
(* fetch_add, fetch_sub and notify is a step of its own.  They may be      *)
(* taken in one order: a waiter registers, and notify_waiters looks for    *)
(* waiters, under the mutex inside Notify, so a notifier that misses a     *)
(* waiter published its decrement before the waiter's second load.         *)
(*                                                                         *)
(* The breaker: the retry loop of a call and the circuit breaker all calls *)
(* share.  Its mutex makes each record and each admission one step; what a *)
(* call does between two awaits is one step.                               *)
(***************************************************************************)
EXTENDS Naturals, FiniteSets

-----------------------------------------------------------------------------
(* The arbiter.                                                            *)

CONSTANTS
    TurnCalls,       \* the calls made through a turn handle
    BackgroundCalls  \* the calls made through a background handle

ASSUME ArbiterAssumption ==
    /\ IsFiniteSet(TurnCalls)
    /\ TurnCalls \cap BackgroundCalls = {}

VARIABLES
    turns_pending,  \* the counter
    tpc,            \* tpc[t]: where turn call t stands
    bpc,            \* bpc[b]: where background call b stands
    notified,       \* notified[b]: the Notified future of b has been woken
    overtook        \* history: the background calls that dispatched while
                    \* turn call t had its place

arbiterVars == <<turns_pending, tpc, bpc, notified, overtook>>

TurnPcs == {"idle", "entered", "streaming", "notify"}
BackgroundPcs ==
    {"idle", "check", "register", "recheck", "parked", "clear", "streaming"}

ArbiterTypeOK ==
    /\ turns_pending \in Nat
    /\ tpc \in [TurnCalls -> TurnPcs]
    /\ bpc \in [BackgroundCalls -> BackgroundPcs]
    /\ notified \in [BackgroundCalls -> BOOLEAN]
    /\ overtook \in [TurnCalls -> SUBSET BackgroundCalls]

ArbiterInit ==
    /\ turns_pending = 0
    /\ tpc = [t \in TurnCalls |-> "idle"]
    /\ bpc = [b \in BackgroundCalls |-> "idle"]
    /\ notified = [b \in BackgroundCalls |-> FALSE]
    /\ overtook = [t \in TurnCalls |-> {}]

\* The turn calls that hold a TurnGuard.
Guards == {t \in TurnCalls : tpc[t] \in {"entered", "streaming"}}

-----------------------------------------------------------------------------
(* TurnModel: the guard is taken before the inner call and lives inside    *)
(* the stream; it is released when the stream is dropped, whatever ended   *)
(* it.                                                                     *)

EnterTurn(t) ==
    /\ tpc[t] = "idle"
    /\ turns_pending' = turns_pending + 1
    /\ tpc' = [tpc EXCEPT ![t] = "entered"]
    /\ overtook' = [overtook EXCEPT ![t] = {}]
    /\ UNCHANGED <<bpc, notified>>

DispatchTurn(t) ==
    /\ tpc[t] = "entered"
    /\ tpc' = [tpc EXCEPT ![t] = "streaming"]
    /\ UNCHANGED <<turns_pending, bpc, notified, overtook>>

\* fetch_sub returned 1.
LastOut == turns_pending = 1

LeaveTurn(t) ==
    /\ tpc[t] = "streaming"
    /\ turns_pending' = turns_pending - 1
    /\ tpc' = [tpc EXCEPT ![t] = IF LastOut THEN "notify" ELSE "idle"]
    /\ UNCHANGED <<bpc, notified, overtook>>

\* notify_waiters wakes whoever has registered, and leaves no permit behind.
NotifyWaiters(t) ==
    /\ tpc[t] = "notify"
    /\ tpc' = [tpc EXCEPT ![t] = "idle"]
    /\ notified' = [b \in BackgroundCalls |->
                      notified[b] \/ bpc[b] \in {"recheck", "parked"}]
    /\ UNCHANGED <<turns_pending, bpc, overtook>>

-----------------------------------------------------------------------------
(* BackgroundModel: yield_to_turns, then the inner call.                   *)

BackgroundMoves(b, to) == bpc' = [bpc EXCEPT ![b] = to]

CallBackground(b) ==
    /\ bpc[b] = "idle"
    /\ BackgroundMoves(b, "check")
    /\ UNCHANGED <<turns_pending, tpc, notified, overtook>>

\* The head of the loop, also after a wake-up: a turn may have come since.
Check(b) ==
    /\ bpc[b] = "check"
    /\ BackgroundMoves(b, IF turns_pending > 0 THEN "register" ELSE "clear")
    /\ UNCHANGED <<turns_pending, tpc, notified, overtook>>

Register(b) ==
    /\ bpc[b] = "register"
    /\ BackgroundMoves(b, "recheck")
    /\ notified' = [notified EXCEPT ![b] = FALSE]
    /\ UNCHANGED <<turns_pending, tpc, overtook>>

(* Mutated: the count is not read again once registered.                   *)
RecheckNot(b) ==
    /\ bpc[b] = "recheck"
    /\ BackgroundMoves(b, "parked")
    /\ UNCHANGED <<turns_pending, tpc, notified, overtook>>

Recheck(b) ==
    /\ bpc[b] = "recheck"
    /\ BackgroundMoves(b, IF turns_pending = 0 THEN "clear" ELSE "parked")
    /\ UNCHANGED <<turns_pending, tpc, notified, overtook>>

(* Mutated: a woken call goes ahead without another look at the count.     *)
ResumeClear(b) ==
    /\ bpc[b] = "parked"
    /\ notified[b]
    /\ BackgroundMoves(b, "clear")
    /\ UNCHANGED <<turns_pending, tpc, notified, overtook>>

Resume(b) ==
    /\ bpc[b] = "parked"
    /\ notified[b]
    /\ BackgroundMoves(b, "check")
    /\ UNCHANGED <<turns_pending, tpc, notified, overtook>>

\* Nothing is locked between the last load and the inner call.
DispatchBackground(b) ==
    /\ bpc[b] = "clear"
    /\ BackgroundMoves(b, "streaming")
    /\ overtook' = [t \in TurnCalls |->
                      IF t \in Guards THEN overtook[t] \cup {b}
                                      ELSE overtook[t]]
    /\ UNCHANGED <<turns_pending, tpc, notified>>

ReturnBackground(b) ==
    /\ bpc[b] = "streaming"
    /\ BackgroundMoves(b, "idle")
    /\ UNCHANGED <<turns_pending, tpc, notified, overtook>>

\* The steps the two calls take by themselves, without the inner client.
TurnStep(t) == EnterTurn(t) \/ NotifyWaiters(t)

Yield(b) == Check(b) \/ Register(b) \/ Recheck(b) \/ Resume(b)

ArbiterNext ==
    \/ \E t \in TurnCalls : TurnStep(t) \/ DispatchTurn(t) \/ LeaveTurn(t)
    \/ \E b \in BackgroundCalls :
          \/ CallBackground(b) \/ Yield(b)
          \/ DispatchBackground(b) \/ ReturnBackground(b)

ArbiterSpec == ArbiterInit /\ [][ArbiterNext]_arbiterVars

-----------------------------------------------------------------------------
(* A background call never wedges behind a turn that went away: while one  *)
(* is parked and not woken, a turn still holds its place, or the last one  *)
(* out is about to notify (yield_to_turns registers before it reads again). *)
NoLostWakeup ==
    \A b \in BackgroundCalls :
        bpc[b] = "parked" /\ ~notified[b] =>
            turns_pending > 0 \/ \E t \in TurnCalls : tpc[t] = "notify"

(* Background yields: a background caller gets ahead of a turn's call at   *)
(* most once, when it had passed the check before the turn arrived; its    *)
(* next call waits until the turn's stream is gone.                        *)
OvertakenOnce ==
    [][\A b \in BackgroundCalls, t \in Guards :
          b \in overtook[t] => ~(bpc[b] = "clear" /\ bpc'[b] = "streaming")
      ]_arbiterVars

\* The counter counts the guards: every exit of a turn gives its place back.
PendingIsExact == turns_pending = Cardinality(Guards)

\* Whoever got ahead of a turn has not passed the check again.
NoSecondPass ==
    \A t \in Guards : \A b \in overtook[t] : bpc[b] # "clear"

(* The inductive invariant of the arbiter.                                 *)
ArbiterInv ==
    /\ ArbiterTypeOK
    /\ PendingIsExact
    /\ NoLostWakeup
    /\ NoSecondPass

(* A background call that waits is dispatched once the turns stop coming.  *)
Waiting(b) == bpc[b] \in {"check", "register", "recheck", "parked", "clear"}

WaitingIsServed ==
    <>[](turns_pending = 0) =>
        \A b \in BackgroundCalls : Waiting(b) ~> ~Waiting(b)

-----------------------------------------------------------------------------
(* The breaker.                                                            *)

CONSTANTS
    Calls,        \* the callers: one call of each at a time
    Threshold,    \* breaker_failure_threshold, at least 1
    MaxAttempts,  \* max_attempts, at least 1
    MaxCount      \* where the failure count saturates (u32::MAX)

ASSUME BreakerAssumption ==
    /\ Threshold \in Nat \ {0}
    /\ MaxAttempts \in Nat \ {0}
    /\ MaxCount \in Nat
    /\ MaxCount >= Threshold

VARIABLES
    circuit,   \* the state of the breaker
    lapsed,    \* the open window has passed since `since`
    failures,  \* consecutive_failures
    cpc,       \* cpc[c]: none, streaming an attempt, or backing off
    attempt,   \* attempt[c]
    probe      \* probe[c]: c holds an armed ProbeGuard

breakerVars == <<circuit, lapsed, failures, cpc, attempt, probe>>

BreakerTypeOK ==
    /\ circuit \in {"closed", "open", "half"}
    /\ lapsed \in BOOLEAN
    /\ failures \in 0 .. MaxCount
    /\ cpc \in [Calls -> {"none", "streaming", "backoff"}]
    /\ attempt \in [Calls -> 0 .. MaxAttempts]
    /\ probe \in [Calls -> BOOLEAN]

BreakerInit ==
    /\ circuit = "closed"
    /\ lapsed = FALSE
    /\ failures = 0
    /\ cpc = [c \in Calls |-> "none"]
    /\ attempt = [c \in Calls |-> 0]
    /\ probe = [c \in Calls |-> FALSE]

-----------------------------------------------------------------------------
(* admit.                                                                  *)

Starts(c) ==
    /\ cpc' = [cpc EXCEPT ![c] = "streaming"]
    /\ attempt' = [attempt EXCEPT ![c] = 1]

AdmitClosed(c) ==
    /\ cpc[c] = "none"
    /\ circuit = "closed"
    /\ Starts(c)
    /\ UNCHANGED <<circuit, lapsed, failures, probe>>

\* The open window has lapsed: this call is the half-open probe.
AdmitProbe(c) ==
    /\ cpc[c] = "none"
    /\ circuit = "open" /\ lapsed
    /\ circuit' = "half"
    /\ lapsed' = FALSE
    /\ probe' = [probe EXCEPT ![c] = TRUE]
    /\ Starts(c)
    /\ UNCHANGED failures

\* The call returns CircuitOpen.
FailFast(c) ==
    /\ cpc[c] = "none"
    /\ \/ circuit = "open" /\ ~lapsed
       \/ circuit = "half"
    /\ UNCHANGED breakerVars

Admit(c) == AdmitClosed(c) \/ AdmitProbe(c) \/ FailFast(c)

-----------------------------------------------------------------------------
(* The outcomes of an attempt.                                             *)

Ends(c) ==
    /\ cpc' = [cpc EXCEPT ![c] = "none"]
    /\ attempt' = [attempt EXCEPT ![c] = 0]

Disarm(c) == probe' = [probe EXCEPT ![c] = FALSE]

CountAfterAnswer == 0

\* Finished, or an error that is not transient: record_reachable, from
\* whatever state the breaker is in.
Answered(c) ==
    /\ cpc[c] = "streaming"
    /\ failures' = CountAfterAnswer
    /\ circuit' = "closed"
    /\ lapsed' = FALSE
    /\ Disarm(c)
    /\ Ends(c)

\* saturating_add.
Bumped == IF failures < MaxCount THEN failures + 1 ELSE MaxCount

\* Whether a failure leaves the circuit open: the probe's, the one that
\* crosses the threshold, and any that comes while it is open.
Opens == circuit # "closed" \/ Bumped >= Threshold

\* record_transient_failure; the loop stops when the circuit is open or the
\* attempts are spent, and otherwise discards the attempt and backs off.
Transient(c) ==
    /\ cpc[c] = "streaming"
    /\ failures' = Bumped
    /\ circuit' = IF Opens THEN "open" ELSE circuit
    /\ lapsed' = FALSE
    /\ Disarm(c)
    /\ IF Opens \/ attempt[c] >= MaxAttempts
       THEN Ends(c)
       ELSE /\ cpc' = [cpc EXCEPT ![c] = "backoff"]
            /\ UNCHANGED attempt

\* The backoff is over; the next attempt does not ask the breaker again.
Redrive(c) ==
    /\ cpc[c] = "backoff"
    /\ cpc' = [cpc EXCEPT ![c] = "streaming"]
    /\ attempt' = [attempt EXCEPT ![c] = @ + 1]
    /\ UNCHANGED <<circuit, lapsed, failures, probe>>

(* Mutated: a probe that is dropped leaves the circuit as it is.           *)
GuardLeaves(c) == UNCHANGED <<circuit, lapsed>>

\* ProbeGuard::drop.
GuardDrops(c) ==
    IF probe[c] /\ circuit = "half"
    THEN circuit' = "open" /\ lapsed' = FALSE
    ELSE UNCHANGED <<circuit, lapsed>>

\* The consumer drops the stream, or the inner stream ends with no terminal.
Unresolved(c) ==
    /\ GuardDrops(c)
    /\ Disarm(c)
    /\ Ends(c)
    /\ UNCHANGED failures

EndsShort(c) == cpc[c] = "streaming" /\ Unresolved(c)

DropStream(c) == cpc[c] # "none" /\ Unresolved(c)

\* since.elapsed() reaches breaker_open_seconds.
WindowLapses ==
    /\ circuit = "open" /\ ~lapsed
    /\ lapsed' = TRUE
    /\ UNCHANGED <<circuit, failures, cpc, attempt, probe>>

Resolve(c) == Answered(c) \/ Transient(c) \/ EndsShort(c) \/ Redrive(c)

BreakerNext ==
    \/ \E c \in Calls : Admit(c) \/ Resolve(c) \/ DropStream(c)
    \/ WindowLapses

BreakerSpec == BreakerInit /\ [][BreakerNext]_breakerVars

-----------------------------------------------------------------------------
(* The circuit is closed exactly while fewer than Threshold transient      *)
(* failures stand since the backend last answered, whichever calls failed, *)
(* were dropped or answered late while it was open or half-open.           *)
CircuitMatchesCount == circuit = "closed" <=> failures < Threshold

(* The breaker never sticks in half-open: some call still holds an armed   *)
(* guard, so the state ends with that call, also when stragglers of the    *)
(* closed circuit re-opened or closed it under an earlier probe.           *)
HalfOpenHasProbe ==
    circuit = "half" => \E c \in Calls : probe[c] /\ cpc[c] = "streaming"

\* Only a call with an attempt left backs off.
AttemptsLeft == \A c \in Calls : cpc[c] = "backoff" => attempt[c] < MaxAttempts

(* The inductive invariant of the breaker.                                 *)
BreakerInv ==
    /\ BreakerTypeOK
    /\ AttemptsLeft
    /\ CircuitMatchesCount
    /\ HalfOpenHasProbe

(* Every half-open period ends: other calls do not fail fast for ever.     *)
HalfOpenResolves == circuit = "half" ~> circuit # "half"

-----------------------------------------------------------------------------
(* The two composed.                                                       *)

ASSUME ClientAssumption == Calls = TurnCalls \cup BackgroundCalls

vars == <<arbiterVars, breakerVars>>

TypeOK == ArbiterTypeOK /\ BreakerTypeOK

Init == ArbiterInit /\ BreakerInit

Arbitrate ==
    /\ \/ \E t \in TurnCalls : TurnStep(t)
       \/ \E b \in BackgroundCalls : CallBackground(b) \/ Yield(b)
    /\ UNCHANGED breakerVars

\* inner.generate_stream: admit runs before it returns the stream.
Dispatch(c) ==
    /\ Admit(c)
    /\ \/ c \in TurnCalls /\ DispatchTurn(c)
       \/ c \in BackgroundCalls /\ DispatchBackground(c)

\* A background call drains its stream; a turn may drop it at any await.
Stream(c) ==
    /\ Resolve(c) \/ (c \in TurnCalls /\ DropStream(c))
    /\ UNCHANGED arbiterVars

\* The stream is gone: the guard inside it is dropped after it.
Finish(c) ==
    /\ cpc[c] = "none"
    /\ \/ c \in TurnCalls /\ LeaveTurn(c)
       \/ c \in BackgroundCalls /\ ReturnBackground(c)
    /\ UNCHANGED breakerVars

Elapse == WindowLapses /\ UNCHANGED arbiterVars

Next ==
    \/ Arbitrate
    \/ \E c \in Calls : Dispatch(c) \/ Stream(c) \/ Finish(c)
    \/ Elapse

Spec == Init /\ [][Next]_vars

\* Every started call is polled on: loads, dispatch, the stream, its end,
\* and the wake-up the last turn out owes.
FairSpec ==
    /\ Spec
    /\ \A c \in Calls :
          WF_vars(Dispatch(c)) /\ WF_vars(Stream(c)) /\ WF_vars(Finish(c))
    /\ \A t \in TurnCalls : WF_vars(NotifyWaiters(t) /\ UNCHANGED breakerVars)
    /\ \A b \in BackgroundCalls : WF_vars(Yield(b) /\ UNCHANGED breakerVars)
=============================================================================
