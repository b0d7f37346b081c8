----------------------------- MODULE Occurrences -----------------------------
(***************************************************************************)
(* When a fact is about: the shapes of a temporal reference, the bounds    *)
(* that are stored of it, the instances of a recurrence, and which date    *)
(* the describer's extraction may put on an entry.                         *)
(***************************************************************************)
EXTENDS Integers, Sequences, FiniteSets

CONSTANTS
    Day,            \* the length of a day
    Hour,           \* the shift of a before/after reference
    MonthStart,     \* the days on which the months from the epoch on begin
    MaxScan         \* bound: steps of the forward scan of a recurrence

None == -1

Instant(t) == [shape |-> "instant", at |-> t]
CivilDay(d) == [shape |-> "day", at |-> d]              \* d days after the epoch
Recurring(freq, interval) == [shape |-> "recurring", freq |-> freq, interval |-> interval]
BeforeAfter(dir, anchor) == [shape |-> "before_after", dir |-> dir, anchor |-> anchor]
Untimed == [shape |-> "none"]

Bounds(sort, lo, hi) == [sort |-> sort, lo |-> lo, hi |-> hi]
NoBounds == Bounds(None, None, None)

\* An anchored reference moves with its anchor, and is as vague as it is.
Anchored(ref, anchor) ==
    LET shift == IF ref.dir = "before" THEN -Hour ELSE Hour
        sort == anchor.sort + shift
    IN IF anchor.sort = None THEN NoBounds
       ELSE IF anchor.lo = anchor.hi THEN Bounds(sort, sort, sort)
       ELSE Bounds(sort, anchor.lo + shift, anchor.hi + shift)

BoundsOf(ref, anchor) ==
    CASE ref.shape = "instant" -> Bounds(ref.at, ref.at, ref.at)
      [] ref.shape = "day" ->
            Bounds(ref.at * Day + Day \div 2, ref.at * Day, ref.at * Day + Day - 1)
      [] ref.shape = "range" ->
            LET lo == IF ref.from <= ref.to THEN ref.from ELSE ref.to
                hi == IF ref.from <= ref.to THEN ref.to ELSE ref.from
            IN Bounds((lo + hi) \div 2, lo, hi)
      [] ref.shape = "approx" ->
            Bounds(ref.at, ref.at - ref.fuzz * Day, ref.at + ref.fuzz * Day)
      [] ref.shape = "before_after" -> Anchored(ref, anchor)
      [] OTHER -> NoBounds

-----------------------------------------------------------------------------
(* Recurrences, counted from the day the entry was asserted.               *)

MonthOf(day) == CHOOSE m \in DOMAIN MonthStart :
                    MonthStart[m] <= day /\ day < MonthStart[m + 1]

\* The same day of a later month, or its last day.
AddCalendar(from, months) ==
    LET day == from \div Day
        m == MonthOf(day)
        last == MonthStart[m + months + 1] - MonthStart[m + months] - 1
        dom == day - MonthStart[m]
    IN (MonthStart[m + months] + (IF dom <= last THEN dom ELSE last)) * Day + (from % Day)

OccurrenceAt(rule, dtstart, k) ==
    LET steps == k * rule.interval
    IN CASE rule.freq = "daily" -> dtstart + steps * Day
         [] rule.freq = "weekly" -> dtstart + steps * 7 * Day
         [] rule.freq = "monthly" -> AddCalendar(dtstart, steps)
         [] rule.freq = "yearly" -> AddCalendar(dtstart, 12 * steps)

\* The divisor of the first guess at the index.
StepEstimate(freq) ==
    CASE freq = "daily" -> Day
      [] freq = "weekly" -> 7 * Day
      [] freq = "monthly" -> 28 * Day
      [] freq = "yearly" -> 365 * Day

Supported(rule) == rule.freq \in {"daily", "weekly", "monthly", "yearly"}

\* The scan starts at the guess and goes forward only.
NextOccurrence(rule, dtstart, after) ==
    LET first == (after - dtstart) \div (rule.interval * StepEstimate(rule.freq)) + 1
        past == {k \in first..(first + MaxScan - 1) : OccurrenceAt(rule, dtstart, k) > after}
    IN IF ~Supported(rule) THEN None
       ELSE IF dtstart > after THEN OccurrenceAt(rule, dtstart, 0)
       ELSE IF past = {} THEN None
       ELSE OccurrenceAt(rule, dtstart, CHOOSE k \in past : \A j \in past : k <= j)

-----------------------------------------------------------------------------
(* What the extraction may write.  The date a model read is dropped when   *)
(* nothing in the statement stands behind it: no cue, a cue it does not    *)
(* contain, or today's date beside a sibling of another day, or on a       *)
(* statement that names no time.                                           *)

DayOf(ref) ==
    CASE ref.shape = "instant" -> ref.at \div Day
      [] ref.shape = "day" -> ref.at
      [] OTHER -> None

LandsOnNow(ref, now) == DayOf(ref) = now \div Day

DifferentlyDated(siblings, now) ==
    \E s \in siblings : DayOf(s) # None /\ DayOf(s) # now \div Day

Suppressed(ref, cue, statesATime, siblings, now) ==
    \/ cue # "quoted"
    \/ LandsOnNow(ref, now) /\ (DifferentlyDated(siblings, now) \/ ~statesATime)
=============================================================================
