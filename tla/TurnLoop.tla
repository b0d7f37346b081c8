------------------------------ MODULE TurnLoop ------------------------------
(***************************************************************************)
(* One conversation's turns from the inside: the buffer replayed as the    *)
(* prompt, the ambient hint, the step loop with its tool calls, resamples  *)
(* and supersession checks, the flush that runs through the same loop, and *)
(* what each leaves in the log for the next prompt to be built from.       *)
(***************************************************************************)
EXTENDS Integers, Sequences, FiniteSets, SequencesExt

CONSTANTS
    MaxSteps,       \* turn.max_steps
    Budget,         \* compaction.carryover_token_budget
    Plans,          \* what a model may call for in a turn, step by step
    MaxActs         \* bound: batches, flushes, reopened sessions, joins, broken
                    \* streams, failures and ticks of the stamp

VARIABLES
    log,
    turn,           \* the turn under way
    ids,            \* turn ids given out
    waiting,        \* batches that have arrived and have no turn yet
    newer,          \* a batch arrived within the window of the running turn
    start,          \* start_seq and session_start_seq
    now,
    acts,           \* how much of the bound is used
    outcome,        \* outcome of each ended turn
    last            \* what the last ended turn sent, and whether it was plain

vars == <<log, turn, ids, waiting, newer, start, now, acts, outcome, last>>

-----------------------------------------------------------------------------
(* The buffer: what the log holds of the conversation, as turns.           *)

Of(type, t) == SelectSeq(log, LAMBDA r : r.type = type /\ r.turn = t)

\* The first reported size of the prompt, before the turn generated.
PromptTokens(t) == IF Of("called", t) = << >> THEN 0 ELSE Of("called", t)[1].tokens

\* One view for each record that is replayed; the blocks of a turn ride on its
\* agent record, and a flush's words are followed by a note.
Views(i) ==
    LET r == log[i]
        view(role) == [seq |-> i, role |-> role, rec |-> r, steps |-> 0, tokens |-> 0]
    IN CASE r.type \in {"inbound", "ambient", "superseded", "note"} -> << view(r.type) >>
         [] r.type = "agent" ->
              << [view("agent") EXCEPT !.steps = Len(Of("lua", r.turn)),
                                       !.tokens = PromptTokens(r.turn)] >>
                \o (IF r.flush /\ r.text # "" THEN << view("undelivered") >> ELSE << >>)
         [] OTHER -> << >>

BufferTurns(from) == FlattenSeq([i \in 1..(Len(log) + 1 - from) |-> Views(from + i - 1)])

\* From the newest backward, by the growth of the prompt between two calls.
CarryoverStart(turns) ==
    LET newest == IF turns = << >> THEN 1 ELSE Len(turns)
        measured == {i \in DOMAIN turns : turns[i].tokens > 0}
        latest == CHOOSE i \in measured : \A j \in measured : j <= i
        fits == {i \in measured : \A j \in measured :
                    j >= i => turns[latest].tokens - turns[j].tokens <= Budget}
        oldest == CHOOSE i \in fits : \A j \in fits : i <= j
    IN IF measured = {} THEN newest
       ELSE IF fits = measured THEN 1
       ELSE IF oldest + 1 < newest THEN oldest + 1 ELSE newest

BoundedBufferTurns(from, own) ==
    LET turns == BufferTurns(from)
        tail == SelectSeq(turns, LAMBDA v : v.seq < own)
    IN SubSeq(turns, CarryoverStart(tail), Len(turns))

-----------------------------------------------------------------------------
(* The prompt.  What the agent reads is stamped with a time.               *)

User(t, at) == [kind |-> "user", turn |-> t, at |-> at]
System(what, t, at) == [kind |-> "system", what |-> what, turn |-> t, at |-> at]
Call(t, index, what) == [id |-> <<t, index>>, what |-> what]
Called(calls) == [kind |-> "calls", calls |-> calls]
Result(t, index) == [kind |-> "result", id |-> <<t, index>>]
Assistant(t, text) == [kind |-> "assistant", turn |-> t, text |-> text]

Message(v) ==
    CASE v.role = "inbound" -> << User(v.rec.turn, v.rec.at) >>
      [] v.role = "agent" ->
           FlattenSeq([i \in 1..v.steps |-> << Called(<< Call(v.rec.turn, i - 1, "lua") >>),
                                               Result(v.rec.turn, i - 1) >>])
             \o (IF v.rec.text = "" THEN << >> ELSE << Assistant(v.rec.turn, v.rec.text) >>)
      [] v.role = "undelivered" -> << System("undelivered", v.rec.turn, 0) >>
      [] OTHER -> << System(v.role, v.rec.turn, v.rec.at) >>

BufferMessages(turns) == FlattenSeq([i \in DOMAIN turns |-> Message(turns[i])])

Prompt == BufferMessages(BoundedBufferTurns(start.from, start.own))

-----------------------------------------------------------------------------
NoTurn == [pc |-> "idle", id |-> 0, flush |-> FALSE, msgs |-> << >>, sent |-> << >>,
           step |-> 0, blocks |-> 0, calls |-> << >>, plan |-> << >>, plain |-> TRUE]

Init ==
    /\ log = << >>
    /\ turn = NoTurn
    /\ ids = 0
    /\ waiting = 0
    /\ newer = FALSE
    /\ start = [from |-> 1, own |-> 1]
    /\ now = 1
    /\ acts = 0
    /\ outcome = << >>
    /\ last = [turn |-> 0, sent |-> << >>, plain |-> TRUE]

Record(type, t) == [type |-> type, turn |-> t, at |-> now]

Answered == {"reply", "silent", "max"}

Ends(how, records) ==
    /\ log' = log \o records
    /\ outcome' = Append(outcome, how)
    /\ last' = [turn |-> IF turn.flush THEN 0 ELSE turn.id, sent |-> turn.sent,
                plain |-> turn.plain /\ how \in Answered]
    /\ turn' = NoTurn
    /\ newer' = FALSE

\* record_agent_turn, then out of the cycle.
RecordAgentTurn(how, text) ==
    Ends(how, << [type |-> "agent", turn |-> turn.id, at |-> now, text |-> text,
                  flush |-> turn.flush] >>)

Superseded(records) == Ends("superseded", Append(records, Record("superseded", turn.id)))

Quiet == UNCHANGED <<ids, waiting, start, now, acts>>

-----------------------------------------------------------------------------
Arrive ==
    /\ acts < MaxActs
    /\ acts' = acts + 1
    /\ waiting' = waiting + 1
    /\ newer' = (turn.pc # "idle" /\ ~turn.flush)
    /\ UNCHANGED <<log, turn, ids, start, now, outcome, last>>

\* Another task's join, or a wake-up raised: a system turn at any moment.
Join ==
    /\ acts < MaxActs
    /\ acts' = acts + 1
    /\ log' = Append(log, Record("note", 0))
    /\ turn' = [turn EXCEPT !.plain = FALSE]
    /\ UNCHANGED <<ids, waiting, newer, start, now, outcome, last>>

\* The buffer is read, then the batch recorded, then stamped for the prompt
\* with the time it is by then.
RunTurn(late, plan) ==
    /\ turn.pc = "idle"
    /\ waiting > 0
    /\ late => acts < MaxActs
    /\ acts' = IF late THEN acts + 1 ELSE acts
    /\ now' = IF late THEN now + 1 ELSE now
    /\ ids' = ids + 1
    /\ waiting' = waiting - 1
    /\ newer' = (waiting > 1)
    /\ log' = Append(log, Record("inbound", ids'))
    /\ turn' = [NoTurn EXCEPT !.pc = "admitted", !.id = ids', !.plain = ~late,
                              !.plan = plan,
                              !.msgs = Append(Prompt, User(ids', now'))]
    /\ UNCHANGED <<start, outcome, last>>

\* Superseded before anything ran: nothing is recorded.
AdmissionCheck ==
    /\ turn.pc = "admitted"
    /\ newer
    /\ Ends("overtaken", << >>)
    /\ Quiet

AmbientRecall(hit) ==
    /\ turn.pc = "admitted"
    /\ ~newer
    /\ log' = IF hit THEN Append(log, Record("ambient", turn.id)) ELSE log
    /\ turn' = [turn EXCEPT !.pc = "top",
                  !.msgs = IF hit THEN Append(@, System("ambient", turn.id, now)) ELSE @]
    /\ Quiet /\ UNCHANGED <<newer, outcome, last>>

\* The flush: the same buffer and an instruction, through the same loop.
RunFlush(plan) ==
    /\ turn.pc = "idle"
    /\ acts < MaxActs
    /\ acts' = acts + 1
    /\ ids' = ids + 1
    /\ turn' = [NoTurn EXCEPT !.pc = "top", !.id = ids', !.flush = TRUE, !.plain = FALSE,
                  !.plan = plan,
                  !.msgs = Append(Prompt, System("instruction", ids', now))]
    /\ UNCHANGED <<log, waiting, newer, start, now, outcome, last>>

Cancels == newer /\ ~turn.flush

BoundaryCheck ==
    /\ turn.pc = "top"
    /\ Cancels
    /\ Superseded(<< >>)
    /\ Quiet

StepTop ==
    /\ turn.pc = "top"
    /\ ~Cancels
    /\ turn.step < MaxSteps
    /\ LET nudged == MaxSteps >= 2 /\ turn.step = MaxSteps - 2
           msgs == IF nudged THEN Append(turn.msgs, System("nudge", turn.id, 0)) ELSE turn.msgs
       IN turn' = [turn EXCEPT !.pc = "asking", !.msgs = msgs, !.sent = msgs,
                               !.plain = @ /\ ~nudged]
    /\ Quiet /\ UNCHANGED <<log, newer, outcome, last>>

MaxStepsExceeded ==
    /\ turn.pc = "top"
    /\ ~Cancels
    /\ turn.step = MaxSteps
    /\ RecordAgentTurn("max", "max")
    /\ Quiet

\* A stream that broke and started again is recorded as it breaks.
Restarted ==
    /\ turn.pc \in {"asking", "resampling"}
    /\ acts < MaxActs
    /\ acts' = acts + 1
    /\ log' = Append(log, Record("aborted", turn.id))
    /\ UNCHANGED <<turn, ids, waiting, newer, start, now, outcome, last>>

SupersededInStream ==
    /\ turn.pc \in {"asking", "resampling"}
    /\ Cancels
    /\ Superseded(<< Record("aborted", turn.id) >>)
    /\ Quiet

\* No backend: a turn is deferred, a flush has failed.
Unavailable ==
    /\ turn.pc \in {"asking", "resampling"}
    /\ acts < MaxActs
    /\ acts' = acts + 1
    /\ Ends(IF turn.flush THEN "failed" ELSE "deferred", << >>)
    /\ UNCHANGED <<ids, waiting, start, now>>

ModelCalled == [type |-> "called", turn |-> turn.id, at |-> now, tokens |-> Len(turn.sent)]

Completed(change) ==
    /\ log' = Append(log, ModelCalled)
    /\ turn' = change
    /\ Quiet /\ UNCHANGED <<newer, outcome, last>>

\* The calls are renumbered over the whole turn.
ToolCalls ==
    LET calls == turn.plan[turn.step + 1]
    IN
    /\ turn.pc = "asking"
    /\ turn.step < Len(turn.plan)
    /\ Completed([turn EXCEPT !.pc = "calling", !.calls = calls,
          !.plain = @ /\ calls = << "lua" >>,
          !.msgs = Append(@, Called([i \in DOMAIN calls |->
                                Call(turn.id, turn.blocks + i - 1, calls[i])]))])

LeakedReply ==
    /\ turn.pc = "asking"
    /\ turn.step >= Len(turn.plan)
    /\ Completed([turn EXCEPT !.pc = "resampling"])

\* The last word: what an ordinary answer and a clean resample may be.
Answers ==
    /\ turn.pc \in {"asking", "resampling"}
    /\ turn.step >= Len(turn.plan)
    /\ \E how \in {"reply", "silent"} :
         Ends(how, << ModelCalled, [type |-> "agent", turn |-> turn.id, at |-> now,
                                    text |-> IF how = "reply" THEN "reply" ELSE "",
                                    flush |-> turn.flush] >>)
    /\ Quiet

\* Mutant: a skip among several calls does not end the turn.
SkipGoesOn ==
    /\ log' = log \o << Record("lua", turn.id),
                        [type |-> "agent", turn |-> turn.id, at |-> now, text |-> "",
                         flush |-> turn.flush] >>
    /\ turn' = [turn EXCEPT !.calls = Tail(@), !.blocks = @ + 1, !.plain = FALSE,
                            !.pc = IF Len(turn.calls) = 1 THEN "top" ELSE "calling",
                            !.step = IF Len(turn.calls) = 1 THEN @ + 1 ELSE @]
    /\ UNCHANGED <<newer, outcome, last>>

\* turn.skip() in a block: what it wrote stands, the turn ends without a word.
SkipTurn ==
    Ends("silent", << Record("lua", turn.id),
                      [type |-> "agent", turn |-> turn.id, at |-> now, text |-> "",
                       flush |-> turn.flush] >>)

\* A call of another name, or with arguments that do not parse, runs no block.
RunToolCall ==
    LET what == Head(turn.calls)
        ran == IF what = "lua" THEN << Record("lua", turn.id) >> ELSE << >>
        over == Len(turn.calls) = 1
    IN /\ turn.pc = "calling"
       /\ \/ what = "lua" /\ SkipTurn
          \/ Cancels /\ Superseded(ran)
          \/ /\ ~Cancels
             /\ log' = log \o ran
             /\ turn' = [turn EXCEPT !.calls = Tail(@), !.blocks = @ + 1,
                           !.msgs = Append(@, Result(turn.id, turn.blocks)),
                           !.pc = IF over THEN "top" ELSE "calling",
                           !.step = IF over THEN @ + 1 ELSE @]
             /\ UNCHANGED <<newer, outcome, last>>
       /\ Quiet

\* A store that refuses an append, or a block that fails below the script.
StoreFails ==
    /\ turn.pc \in {"admitted", "asking", "resampling", "calling"}
    /\ acts < MaxActs
    /\ acts' = acts + 1
    /\ Ends("failed", << >>)
    /\ UNCHANGED <<ids, waiting, start, now>>

\* The session ends and the next opens over the tail of its own turns.
Reopen ==
    LET own == BufferTurns(start.own)
        first == CarryoverStart(own)
    IN /\ turn.pc = "idle"
       /\ acts < MaxActs
       /\ acts' = acts + 1
       /\ start' = [from |-> IF first <= Len(own) THEN own[first].seq ELSE Len(log) + 1,
                    own |-> Len(log) + 1]
       /\ last' = [turn |-> 0, sent |-> << >>, plain |-> TRUE]
       /\ UNCHANGED <<log, turn, ids, waiting, newer, now, outcome>>

Next ==
    \/ Arrive
    \/ Join
    \/ \E plan \in Plans : RunTurn(TRUE, plan) \/ RunTurn(FALSE, plan) \/ RunFlush(plan)
    \/ AdmissionCheck
    \/ \E hit \in BOOLEAN : AmbientRecall(hit)
    \/ BoundaryCheck
    \/ StepTop
    \/ MaxStepsExceeded
    \/ Restarted
    \/ SupersededInStream
    \/ Unavailable
    \/ ToolCalls
    \/ LeakedReply
    \/ Answers
    \/ RunToolCall
    \/ StoreFails
    \/ Reopen

Spec == Init /\ [][Next]_vars

-----------------------------------------------------------------------------
(* However a turn ends - by a reply, a skip, its last step, a newer batch, *)
(* an outage or a failing store, in mid-stream or between two calls - the  *)
(* log says it once: one agent record if it answered, one seam if it was   *)
(* superseded after it began, neither otherwise, and nothing of it later.  *)
OneEnding ==
    \A t \in DOMAIN outcome :
        /\ Len(Of("agent", t)) = IF outcome[t] \in Answered THEN 1 ELSE 0
        /\ Len(Of("superseded", t)) = IF outcome[t] = "superseded" THEN 1 ELSE 0
        /\ \A i \in DOMAIN log : log[i].turn = t /\ log[i].type \in {"agent", "superseded"} =>
             \A j \in (i + 1)..Len(log) : log[j].turn # t

(* tool_call_id, the recorded hint and the fixed cut of the carried tail   *)
(* keep the serving layer's prefix cache: what an answered turn sent is a  *)
(* prefix of what the next will send, when its steps were single blocks,   *)
(* no nudge rode along, the clock stood and nobody joined in between.      *)
PlainTurnReplays == last.plain => IsPrefix(last.sent, Prompt)

=============================================================================
