------------------------------ MODULE Replica ------------------------------
(***************************************************************************)
(* The console's read replica of the log, and the two things only it       *)
(* derives: the merge proposals with their state at the folded horizon,    *)
(* and the check that the prompt it shows for a model call is the one that *)
(* was sent.  The log is recorded as deltas: the first call of a turn logs *)
(* its whole request, each later one only the messages appended since.     *)
(*                                                                         *)
(* The tail arrives over the event stream or, when that fails, from polls  *)
(* that may overlap; the operator may pin the fold at an earlier horizon.  *)
(***************************************************************************)
EXTENDS Naturals, FiniteSets, SequencesExt

CONSTANTS
  Turn,        \* turns that call the model
  Memory,      \* memories a merge may be proposed between
  MaxSteps,    \* step bound of a turn
  MaxAppended, \* messages a step appends, at most
  MaxLog, MaxPolls   \* bounds

VARIABLES
  log,       \* the server's log
  buffer,    \* turn |-> messages in its buffer
  sent,      \* turn |-> prev_sent_len: messages of its previous call, 0 before the first
  steps,     \* turn |-> calls made
  polls,     \* answers on their way: sequences of seqs
  replica,   \* [on, events, graph, head]: events are seqs; graph the seqs folded
  following  \* does a batch advance the fold?

vars == <<log, buffer, sent, steps, polls, replica, following>>

NoReplica == [on |-> FALSE, events |-> <<>>, graph |-> <<>>, head |-> 0]

Init ==
  /\ log = <<>>
  /\ buffer = [t \in Turn |-> 1] /\ sent = [t \in Turn |-> 0] /\ steps = [t \in Turn |-> 0]
  /\ polls = {}
  /\ replica = NoReplica
  /\ following = TRUE

Lt(a, b) == a < b

-----------------------------------------------------------------------------
(* The server's log. *)

\* request_record: the delta of a call.
RequestRecord(t, choice) ==
  IF sent[t] = 0 THEN [base |-> TRUE, messages |-> buffer[t], choice |-> choice]
  ELSE [base |-> FALSE, messages |-> buffer[t] - sent[t], choice |-> "none"]

\* A step's request: its tools are withdrawn on the last step.
ToolChoice(t) == IF steps[t] + 1 = MaxSteps THEN "none" ELSE "auto"

Called(t) == [kind |-> "called", turn |-> t, record |-> RequestRecord(t, ToolChoice(t)),
              digest |-> [messages |-> buffer[t], choice |-> ToolChoice(t)]]

\* A step of the turn's loop calls the model; what it appends goes into the next request.
\* appended = 0 is a reply resampled: the same request again.
Call(t, appended) ==
  /\ Len(log) < MaxLog /\ steps[t] < MaxSteps
  /\ log' = Append(log, Called(t))
  /\ sent' = [sent EXCEPT ![t] = buffer[t]]
  /\ buffer' = [buffer EXCEPT ![t] = @ + appended]
  /\ steps' = [steps EXCEPT ![t] = @ + 1]
  /\ UNCHANGED <<polls, replica, following>>

Writes(event) ==
  /\ Len(log) < MaxLog
  /\ log' = Append(log, event)
  /\ UNCHANGED <<buffer, sent, steps, polls, replica, following>>

Propose(from, to, grounds) ==
  Writes([kind |-> "proposed", from |-> from, to |-> to, grounds |-> grounds])

Merge(from, to) == Writes([kind |-> "same_as", from |-> from, to |-> to, grounds |-> FALSE])

-----------------------------------------------------------------------------
(* The replica. *)

LogHead == IF replica.events = <<>> THEN 0 ELSE Last(replica.events)

FoldThrough(r, upTo) ==
  [r EXCEPT !.graph = SelectSeq(r.events, LAMBDA s : s <= upTo), !.head = upTo]

\* new: the initial catch-up, folded whole.
New ==
  /\ ~replica.on
  /\ replica' = FoldThrough([NoReplica EXCEPT !.on = TRUE,
                                              !.events = SetToSortSeq(DOMAIN log, Lt)], Len(log))
  /\ UNCHANGED <<log, buffer, sent, steps, polls, following>>

\* Bug: the batch is trusted to begin where the log ends.
RetainedAll(batch) == batch

\* append: the events past the replica's own head, whatever the batch overlaps.
Retained(batch) == SelectSeq(batch, LAMBDA s : s > LogHead)

AppendBatch(batch) ==
  LET grown == [replica EXCEPT !.events = @ \o Retained(batch)]
  IN  replica' = IF following /\ batch # <<>> THEN FoldThrough(grown, Last(grown.events)) ELSE grown

\* A stream's frame: events in wire order from the head the stream was opened at.
StreamBatch(n) ==
  /\ replica.on /\ n \in LogHead + 1 .. Len(log)
  /\ AppendBatch(SetToSortSeq(LogHead + 1 .. n, Lt))
  /\ UNCHANGED <<log, buffer, sent, steps, polls, following>>

\* A poll is answered with the log from the head it was sent at; a second may be out already.
Poll ==
  /\ replica.on /\ Cardinality(polls) < MaxPolls /\ LogHead < Len(log)
  /\ polls' = polls \cup {SetToSortSeq(LogHead + 1 .. Len(log), Lt)}
  /\ UNCHANGED <<log, buffer, sent, steps, replica, following>>

PollArrives(batch) ==
  /\ AppendBatch(batch)
  /\ polls' = polls \ {batch}
  /\ UNCHANGED <<log, buffer, sent, steps, following>>

\* Time travel: the fold is pinned, or let go and brought back to the head.
FoldTo(n) ==
  /\ replica.on /\ following
  /\ n \in 1 .. LogHead
  /\ replica' = FoldThrough(replica, n)
  /\ following' = FALSE
  /\ UNCHANGED <<log, buffer, sent, steps, polls>>

Follow ==
  /\ replica.on /\ ~following
  /\ replica' = FoldThrough(replica, LogHead)
  /\ following' = TRUE
  /\ UNCHANGED <<log, buffer, sent, steps, polls>>

Next ==
  \/ \E t \in Turn : \E n \in 0 .. MaxAppended : Call(t, n)
  \/ \E f, t \in Memory : f # t /\ (Merge(f, t) \/ \E g \in BOOLEAN : Propose(f, t, g))
  \/ New \/ Poll \/ Follow
  \/ \E n \in DOMAIN log : StreamBatch(n) \/ FoldTo(n)
  \/ \E batch \in polls : PollArrives(batch)

Spec == Init /\ [][Next]_vars

-----------------------------------------------------------------------------
(* What the replica derives. *)

Seen == [i \in DOMAIN replica.events |-> log[replica.events[i]]]

\* request_digests: the turn's group at the i-th event, its base extended by the continuations.
Group(i) ==
  LET mine == {j \in 1 .. i : Seen[j].kind = "called" /\ Seen[j].turn = Seen[i].turn}
      bases == {j \in mine : Seen[j].record.base}
  IN  IF bases = {} THEN [messages |-> 0, choice |-> "unrecorded"]
      ELSE LET b == Max(bases)
           IN  [messages |-> FoldSet(LAMBDA j, n : n + Seen[j].record.messages, 0,
                                     {j \in mine : j >= b}),
                choice |-> Seen[b].record.choice]

RequestDigest(i) ==
  IF Group(i).choice = "unrecorded" THEN "unrecorded"
  ELSE IF Group(i) = Seen[i].digest THEN "verified" ELSE "mismatch"

\* merge_proposals: one per unordered pair, with the first grounds given, at the folded horizon.
MergeProposals ==
  LET at == {i \in DOMAIN replica.events :
               replica.events[i] <= replica.head /\ Seen[i].kind = "proposed"}
      pair(i) == {Seen[i].from, Seen[i].to}
      merged(i) == \E j \in DOMAIN replica.graph :
                     /\ log[replica.graph[j]].kind = "same_as"
                     /\ {log[replica.graph[j]].from, log[replica.graph[j]].to} = pair(i)
  IN  {[pair |-> pair(i), merged |-> merged(i), grounds |-> \E j \in at : pair(j) = pair(i) /\ Seen[j].grounds]
         : i \in at}

\* The same, read off the server's log up to the horizon.
Proposed(n) ==
  {[pair |-> {log[i].from, log[i].to},
    merged |-> \E j \in 1 .. n : log[j].kind = "same_as" /\ {log[j].from, log[j].to} = {log[i].from, log[i].to},
    grounds |-> \E j \in 1 .. n : log[j].kind = "proposed" /\ {log[j].from, log[j].to} = {log[i].from, log[i].to} /\ log[j].grounds]
     : i \in {i \in 1 .. n : log[i].kind = "proposed"}}

\* However its batches overlap, the replica holds a prefix of the server's log, each event once;
\* its graph is the projection at the horizon the operator chose, not the one a batch moved it to;
\* its proposals are the log's at that horizon; and the prompt it rebuilds for a call from the
\* deltas has exactly the messages that were sent, and verifies except where the call withdrew the
\* tools, which no delta says.
ReplicaIsExact ==
  replica.on =>
    /\ replica.events = SetToSortSeq(1 .. LogHead, Lt)
    /\ replica.graph = SetToSortSeq(1 .. replica.head, Lt)
    /\ following => replica.head = LogHead
    /\ MergeProposals = Proposed(replica.head)
    /\ \A i \in DOMAIN Seen : Seen[i].kind = "called" =>
         /\ Group(i).messages = Seen[i].digest.messages
         /\ RequestDigest(i) # "verified" => Seen[i].digest.choice = "none"

=============================================================================
