------------------------------ MODULE EvalRun ------------------------------
(***************************************************************************)
(* One run of an evaluation scenario: an instance is assembled in memory,  *)
(* the scenario's steps are performed against it one after the other, the  *)
(* events it logs are streamed to the sink by a poll, each step is         *)
(* journalled with the watermark it left, and the record is assessed.  A   *)
(* recorded run can be rejudged, or rewound to a step and redone.          *)
(*                                                                         *)
(* An event is the step that logged it (0 is genesis); its seq is its      *)
(* place in the log.                                                       *)
(***************************************************************************)
EXTENDS Naturals, FiniteSets, SequencesExt

CONSTANTS
  Scripts,     \* the scripts a scenario may have: sequences of "turn" | "clock" | "confirm"
  Budget,      \* the backoff budget, in units of the base delay
  MaxDelay,    \* the longest delay between two attempts
  MaxLog, MaxReplays   \* bounds

VARIABLES
  script,    \* the scenario's steps as the current suite has them
  log,       \* the instance's events
  journal,   \* one entry per performed step
  at,        \* the step being performed, 0 between steps
  call,      \* the model call in progress: [on, elapsed, delay]
  cursor,    \* drive_streaming: the next seq to stream
  sent,      \* what the sink was handed
  pc,        \* "off" | "run" | "ended"
  record,    \* the record the run ended in
  base,      \* the journal entries kept from the run this one resumes
  replays

vars == <<script, log, journal, at, call, cursor, sent, pc, record, base, replays>>

NoCall == [on |-> FALSE, elapsed |-> 0, delay |-> 1]
NoRecord == [events |-> <<>>, journal |-> <<>>, calls |-> 0, gating |-> TRUE, ok |-> FALSE]

Init ==
  /\ script \in Scripts
  /\ log = <<>> /\ journal = <<>> /\ at = 0 /\ call = NoCall
  /\ cursor = 1 /\ sent = <<>> /\ pc = "off" /\ record = NoRecord
  /\ base = <<>> /\ replays = 0

Event(step, kind) == [step |-> step, kind |-> kind]
Calls(events) == Len(SelectSeq(events, LAMBDA e : e.kind = "model"))
DrivesModel(step) == step = "turn"
Index == Len(base) + Len(journal) + 1     \* the step to perform next

-----------------------------------------------------------------------------
(* Assembling the instance. *)

New ==
  /\ pc = "off" /\ record = NoRecord
  /\ pc' = "run"
  /\ log' = <<Event(0, "genesis")>>
  /\ UNCHANGED <<script, journal, at, call, cursor, sent, record, base, replays>>

\* RunContext::new failed: the error arm of the assessment.
Errored == NoRecord

Assemble ==
  /\ pc = "off" /\ record = NoRecord
  /\ pc' = "ended"
  /\ record' = Errored
  /\ UNCHANGED <<script, log, journal, at, call, cursor, sent, base, replays>>

-----------------------------------------------------------------------------
(* stream_new_events: the events from the cursor on, the cursor left after the last one. *)

NextCursor == Len(log) + 1

StreamNewEvents ==
  /\ base = <<>>          \* a resumed replay has no sink
  /\ sent' = sent \o SubSeq(log, cursor, Len(log))
  /\ cursor' = NextCursor

-----------------------------------------------------------------------------
(* perform: a turn appends as it goes, and asks the model through the retrying client. *)

Begin ==
  /\ pc = "run" /\ at = 0 /\ Index <= Len(script)
  /\ at' = Index
  /\ call' = [NoCall EXCEPT !.on = DrivesModel(script[Index])]
  /\ UNCHANGED <<script, log, journal, cursor, sent, pc, record, base, replays>>

Appends ==
  /\ at # 0 /\ Len(log) < MaxLog
  /\ script[at] = "turn" \/ (script[at] = "confirm" /\ ~\E i \in DOMAIN log : log[i] = Event(at, "plain"))
  /\ log' = Append(log, Event(at, "plain"))
  /\ UNCHANGED <<script, journal, at, call, cursor, sent, pc, record, base, replays>>

\* An attempt succeeds: its ModelCalled is logged.
Answered ==
  /\ call.on /\ Len(log) < MaxLog
  /\ log' = Append(log, Event(at, "model"))
  /\ call' = NoCall
  /\ UNCHANGED <<script, journal, at, cursor, sent, pc, record, base, replays>>

\* generate_stream: an attempt fails; it is retried after a delay that doubles up to MaxDelay...
BacksOff ==
  /\ call.on /\ call.elapsed + call.delay <= Budget
  /\ call' = [call EXCEPT !.elapsed = @ + call.delay,
                          !.delay = IF 2 * @ < MaxDelay THEN 2 * @ ELSE MaxDelay]
  /\ UNCHANGED <<script, log, journal, at, cursor, sent, pc, record, base, replays>>

\* ... and given up once the next delay would pass the budget: the turn is deferred.
GivesUp ==
  /\ call.on /\ call.elapsed + call.delay > Budget
  /\ call' = NoCall
  /\ UNCHANGED <<script, log, journal, at, cursor, sent, pc, record, base, replays>>

\* execute_from: the watermark moves to the last event the step appended, if it appended any.
Watermark(before) == IF Len(log) > before THEN Len(log) ELSE before

Before == IF journal # <<>> THEN Last(journal).after
          ELSE IF base # <<>> THEN Last(base).after ELSE 1

StepEnds ==
  /\ at # 0 /\ ~call.on
  /\ journal' = Append(journal, [index |-> at - 1, step |-> script[at], after |-> Watermark(Before)])
  /\ at' = 0
  /\ UNCHANGED <<script, log, call, cursor, sent, pc, record, base, replays>>

\* A step fails (no proposal to confirm, a server error): the run did not complete.
StepFails ==
  /\ at # 0 /\ ~call.on
  /\ StreamNewEvents \/ (base # <<>> /\ UNCHANGED <<sent, cursor>>)
  /\ record' = Errored
  /\ pc' = "ended"
  /\ UNCHANGED <<script, log, journal, at, call, base, replays>>

-----------------------------------------------------------------------------
(* drive_streaming. *)

Poll ==
  /\ pc = "run" /\ cursor <= Len(log)
  /\ StreamNewEvents
  /\ UNCHANGED <<script, log, journal, at, call, pc, record, base, replays>>

Ends(gating) ==
  /\ pc = "run" /\ at = 0 /\ Index > Len(script)
  /\ StreamNewEvents \/ (base # <<>> /\ UNCHANGED <<sent, cursor>>)
  /\ record' = [events |-> log, journal |-> base \o journal, calls |-> Calls(log),
                gating |-> gating, ok |-> TRUE]
  /\ pc' = "ended"
  /\ UNCHANGED <<script, log, journal, at, call, base, replays>>

-----------------------------------------------------------------------------
(* Replays of the record, against the script as it stands now. *)

\* rejudge: fresh verdicts over the recorded events.
Rejudge(gating) ==
  /\ pc = "ended" /\ record.ok /\ replays < MaxReplays
  /\ record' = [record EXCEPT !.gating = gating]
  /\ replays' = replays + 1
  /\ UNCHANGED <<script, log, journal, at, call, cursor, sent, pc, base>>

\* validate: the steps kept are the ones the current script has, and it has one more.
Validate(rec, current, step) ==
  /\ rec.journal # <<>>
  /\ step <= Len(rec.journal) /\ step < Len(current)
  /\ \A i \in 1 .. step : rec.journal[i].step = current[i]

\* restore_events: the log up to the watermark of the last step kept.
RestoreEvents(rec, step) == SubSeq(rec.events, 1, rec.journal[step].after)

Resume(current, step) ==
  /\ pc = "ended" /\ record.ok /\ replays < MaxReplays
  /\ Validate(record, current, step)
  /\ script' = current
  /\ log' = RestoreEvents(record, step)
  /\ base' = SubSeq(record.journal, 1, step)
  /\ journal' = <<>> /\ at' = 0 /\ call' = NoCall
  /\ cursor' = 1 /\ sent' = <<>> /\ pc' = "run"
  /\ record' = NoRecord
  /\ replays' = replays + 1

Next ==
  \/ New \/ Assemble \/ Begin \/ Appends \/ Answered \/ BacksOff \/ GivesUp
  \/ StepEnds \/ StepFails \/ Poll
  \/ \E gating \in BOOLEAN : Ends(gating) \/ Rejudge(gating)
  \/ \E current \in Scripts : \E step \in DOMAIN current : Resume(current, step)

Spec == Init /\ [][Next]_vars

-----------------------------------------------------------------------------

\* A completed run's record says what happened: the sink was streamed every event once and in
\* order, and each journal entry delimits exactly the events its step logged, in a resumed run as
\* in a driven one -- which is what makes a rewind to any step keep that step's past and no more.
RecordIsExact ==
  record.ok =>
    /\ base = <<>> => sent = record.events
    /\ \A i \in DOMAIN record.journal :
         /\ record.journal[i].index = i - 1
         /\ {s \in DOMAIN record.events : record.events[s].step <= i} = 1 .. record.journal[i].after
=============================================================================
