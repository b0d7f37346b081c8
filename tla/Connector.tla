------------------------------ MODULE Connector ------------------------------
(***************************************************************************)
(* The Discord connector's path from a message to a reply: the handler of  *)
(* each message, which runs beside the others, the files it relays, the    *)
(* debounced queue of its channel, the streamed request that carries the   *)
(* batch, the typing indicator, and the map from replies to turns.         *)
(***************************************************************************)
EXTENDS Integers, Sequences, FiniteSets

CONSTANTS
    Message,        \* messages that arrive
    About,          \* of each: channel, author, bot, dm, direct, files, replyTo
    Allowed,        \* allowed_channels; empty allows all
    ReplyToAll,     \* reply_to = "all"
    SeeBots,        \* see_other_bots
    MaxBots,        \* max_consecutive_bot_turns
    MaxFiles,       \* files relayed of one message
    MaxLeaves       \* bound: members who leave the guild

VARIABLES
    handler,        \* how far each message is, and the present set it read
    streak,         \* forwarded bot messages since a human spoke, by channel
    members,        \* present_members
    queue,          \* messages that wait in each channel
    fire,           \* the callback of each channel: the present set it captured
    timers,         \* of each channel: is one asleep, and how many have woken
    sends,          \* requests, in order
    turnMap,        \* the turn behind each reply that was posted
    submitted,      \* history: messages submitted to each channel's queue
    leaves

vars == <<handler, streak, members, queue, fire, timers, sends, turnMap, submitted, leaves>>

Channel == {About[m].channel : m \in Message}
Nobody == {}
NoCallback == [set |-> FALSE, present |-> Nobody]

Init ==
    /\ handler = [m \in Message |-> [pc |-> "new", present |-> Nobody, ref |-> 0]]
    /\ streak = [c \in Channel |-> 0]
    /\ members = [c \in Channel |-> {}]
    /\ queue = [c \in Channel |-> << >>]
    /\ fire = [c \in Channel |-> NoCallback]
    /\ timers = [c \in Channel |-> [asleep |-> FALSE, woken |-> 0]]
    /\ sends = << >>
    /\ turnMap = << >>
    /\ submitted = [c \in Channel |-> << >>]
    /\ leaves = 0

-----------------------------------------------------------------------------
(* A message.                                                              *)

ShouldRespond(m) ==
    /\ About[m].bot => SeeBots
    /\ \/ About[m].dm
       \/ /\ Allowed = {} \/ About[m].channel \in Allowed
          /\ ReplyToAll \/ About[m].direct

\* note_human, then admit_bot for what would be forwarded.
AdmitBot(m) == streak[About[m].channel] < MaxBots

Forwards(m) == ShouldRespond(m) /\ (About[m].bot => AdmitBot(m))

\* The turn behind the reply this message answers, as it reads when it arrives.
InjectTurnRef(m) ==
    LET to == {i \in DOMAIN turnMap : turnMap[i].reply = About[m].replyTo}
    IN IF to = {} THEN 0 ELSE turnMap[CHOOSE i \in to : TRUE].turn

Arrive(m) ==
    LET c == About[m].channel
    IN /\ handler[m].pc = "new"
       /\ members' = [members EXCEPT ![c] = @ \cup {About[m].author}]
       /\ streak' = [streak EXCEPT ![c] = IF ~About[m].bot THEN 0
                                          ELSE IF Forwards(m) THEN @ + 1 ELSE @]
       /\ handler' = [handler EXCEPT ![m].pc = IF Forwards(m) THEN "syncing" ELSE "dropped",
                                     ![m].ref = InjectTurnRef(m)]
       /\ UNCHANGED <<queue, fire, timers, sends, turnMap, submitted, leaves>>

\* The context, the sender, the mentioned and the guild are projected first
\* (module Projections); then the present set is read, and files are relayed.
GatherPresent(m) ==
    /\ handler[m].pc = "syncing"
    /\ handler' = [handler EXCEPT
          ![m].pc = "relaying",
          ![m].present = IF About[m].dm THEN {About[m].author} ELSE members[About[m].channel]]
    /\ UNCHANGED <<streak, members, queue, fire, timers, sends, turnMap, submitted, leaves>>

\* Files beyond the cap are skipped; of the others any may fail to be fetched
\* or stored.  What did not come through is announced in the text.
Plan(files) == IF files > MaxFiles THEN MaxFiles ELSE files

Collected(m) ==
    {[message |-> m, ref |-> handler[m].ref, files |-> n, notes |-> About[m].files - n] :
        n \in 0..Plan(About[m].files)}

\* Mutant: only the latest message of the channel waits.
SubmitLatest(c, item, present) ==
    /\ queue' = [queue EXCEPT ![c] = << item >>]
    /\ fire' = [fire EXCEPT ![c] = [set |-> TRUE, present |-> present]]
    /\ timers' = [timers EXCEPT ![c].asleep = TRUE]

\* The timer asleep is aborted; one that has woken is past its only await.
Submit(c, item, present) ==
    /\ queue' = [queue EXCEPT ![c] = Append(@, item)]
    /\ fire' = [fire EXCEPT ![c] = [set |-> TRUE, present |-> present]]
    /\ timers' = [timers EXCEPT ![c].asleep = TRUE]

Relay(m) ==
    /\ handler[m].pc = "relaying"
    /\ \E item \in Collected(m) :
          /\ Submit(About[m].channel, item, handler[m].present)
          /\ submitted' = [submitted EXCEPT ![About[m].channel] = Append(@, m)]
    /\ handler' = [handler EXCEPT ![m].pc = "submitted"]
    /\ UNCHANGED <<streak, members, sends, turnMap, leaves>>

Leave(p) ==
    /\ leaves < MaxLeaves
    /\ leaves' = leaves + 1
    /\ members' = [c \in Channel |-> members[c] \ {p}]
    /\ UNCHANGED <<handler, streak, queue, fire, timers, sends, turnMap, submitted>>

-----------------------------------------------------------------------------
(* The timers.                                                             *)

Wake(c) ==
    /\ timers[c].asleep
    /\ timers' = [timers EXCEPT ![c] = [asleep |-> FALSE, woken |-> @.woken + 1]]
    /\ UNCHANGED <<handler, streak, members, queue, fire, sends, turnMap, submitted, leaves>>

Request(c, batch, present) ==
    [channel |-> c, batch |-> batch, present |-> present, pc |-> "sending",
     typing |-> FALSE, active |-> 0]

\* The queue is taken whole, with the callback of the last message submitted;
\* a second timer finds no callback.
Fire(c) ==
    /\ timers[c].woken > 0
    /\ timers' = [timers EXCEPT ![c].woken = @ - 1]
    /\ queue' = [queue EXCEPT ![c] = << >>]
    /\ fire' = [fire EXCEPT ![c] = NoCallback]
    /\ sends' = IF fire[c].set THEN Append(sends, Request(c, queue[c], fire[c].present))
                ELSE sends
    /\ UNCHANGED <<handler, streak, members, turnMap, submitted, leaves>>

-----------------------------------------------------------------------------
(* The request.  Its number stands for the turn it becomes.                *)

SendIs(k, s) ==
    /\ sends' = [sends EXCEPT ![k] = s]
    /\ UNCHANGED <<handler, streak, members, queue, fire, timers, turnMap, submitted, leaves>>

Accepted(k) ==
    /\ sends[k].pc = "sending"
    /\ SendIs(k, [sends[k] EXCEPT !.pc = "open"])

CarriesAttachments(batch) == \E i \in DOMAIN batch : batch[i].files > 0

WithoutAttachments(batch) ==
    [i \in DOMAIN batch |-> [batch[i] EXCEPT !.files = 0, !.notes = @ + batch[i].files]]

\* The server refuses the files: the text goes alone.
Refused(k) ==
    /\ sends[k].pc = "sending"
    /\ CarriesAttachments(sends[k].batch)
    /\ SendIs(k, [sends[k] EXCEPT !.batch = WithoutAttachments(@)])

\* A frame of any turn of the room; the first one's turn is taken for our own.
Progress(k, turn) ==
    /\ sends[k].pc = "open"
    /\ turn \in DOMAIN sends
    /\ sends[turn].channel = sends[k].channel
    /\ sends[turn].pc = "open"
    /\ sends[k].active \in {0, turn}
    /\ SendIs(k, [sends[k] EXCEPT !.active = turn, !.typing = TRUE])

\* The connection breaks: the indicator's task is left running.
StreamFails(k) ==
    /\ sends[k].pc \in {"sending", "open"}
    /\ SendIs(k, [sends[k] EXCEPT !.pc = "failed"])

\* Silent, over its steps, deferred, superseded, or an error of the turn.
NoReply(k) ==
    /\ sends[k].pc = "open"
    /\ SendIs(k, [sends[k] EXCEPT !.pc = "ended", !.typing = FALSE])

Record(k) == [reply |-> k, turn |-> sends[k].batch[Len(sends[k].batch)].message]

\* Posted, or not; what was posted stands for the batch's last message.
Reply(k) ==
    /\ sends[k].pc = "open"
    /\ sends' = [sends EXCEPT ![k].pc = "ended", ![k].typing = FALSE]
    /\ turnMap' \in {turnMap, Append(turnMap, Record(k))}
    /\ UNCHANGED <<handler, streak, members, queue, fire, timers, submitted, leaves>>

Next ==
    \/ \E m \in Message : Arrive(m) \/ GatherPresent(m) \/ Relay(m)
    \/ \E p \in {About[m].author : m \in Message} : Leave(p)
    \/ \E c \in Channel : Wake(c) \/ Fire(c)
    \/ \E k \in DOMAIN sends : \/ Accepted(k) \/ Refused(k) \/ StreamFails(k)
                               \/ NoReply(k) \/ Reply(k)
                               \/ \E turn \in DOMAIN sends : Progress(k, turn)

Spec == Init /\ [][Next]_vars

-----------------------------------------------------------------------------
(* Properties.                                                             *)

\* A channel's batches in the order they left, and what still waits behind them.
Carried(c, k) ==
    IF k = Len(sends) + 1 THEN queue[c]
    ELSE IF sends[k].channel = c THEN sends[k].batch ELSE << >>

Slots(c) == UNION {{<<k, i>> : i \in DOMAIN Carried(c, k)} : k \in 1..(Len(sends) + 1)}

CarriedAt(c, s) == Carried(c, s[1])[s[2]]

Before(s, t) == s[1] < t[1] \/ (s[1] = t[1] /\ s[2] < t[2])

InOrder(c) ==
    \A s, t \in Slots(c) : Before(s, t) =>
        \E i, j \in DOMAIN submitted[c] :
            i < j /\ submitted[c][i] = CarriedAt(c, s).message /\ submitted[c][j] = CarriedAt(c, t).message

Said(c) ==
    /\ {CarriedAt(c, s).message : s \in Slots(c)} = {submitted[c][i] : i \in DOMAIN submitted[c]}
    /\ \A i, j \in DOMAIN submitted[c] : i # j => submitted[c][i] # submitted[c][j]
    /\ InOrder(c)
    /\ \A s \in Slots(c) :
          CarriedAt(c, s).files + CarriedAt(c, s).notes = About[CarriedAt(c, s).message].files

\* Every message submitted to a channel goes out once, in order, and every file
\* it shared goes with it or is announced (submit, collect, without_attachments).
NothingSaidIsLost == \A c \in Channel : Said(c)

IsSeq(s) == s \in Seq({s[i] : i \in DOMAIN s})

IsBatch(s) ==
    /\ IsSeq(s)
    /\ \A i \in DOMAIN s :
        /\ s[i] = [message |-> s[i].message, ref |-> s[i].ref, files |-> s[i].files,
                   notes |-> s[i].notes]
        /\ s[i].message \in Message /\ s[i].files \in Int /\ s[i].notes \in Int

ConnectorTypes ==
    /\ DOMAIN handler = Message
    /\ \A m \in Message :
        handler[m] = [pc |-> handler[m].pc, present |-> handler[m].present, ref |-> handler[m].ref]
    /\ DOMAIN queue = Channel /\ DOMAIN fire = Channel /\ submitted \in [Channel -> Seq(Message)]
    /\ \A c \in Channel : IsBatch(queue[c])
    /\ IsSeq(sends)
    /\ \A k \in DOMAIN sends :
        /\ sends[k] = [channel |-> sends[k].channel, batch |-> sends[k].batch,
                       present |-> sends[k].present, pc |-> sends[k].pc,
                       typing |-> sends[k].typing, active |-> sends[k].active]
        /\ IsBatch(sends[k].batch)

\* What is submitted is past its handler, and a queue has its callback.
Waiting ==
    \A c \in Channel :
        /\ \A i \in DOMAIN submitted[c] : handler[submitted[c][i]].pc = "submitted"
        /\ queue[c] # << >> => fire[c].set

\* NothingSaidIsLost made inductive.
ConnectorInv == ConnectorTypes /\ Waiting /\ NothingSaidIsLost
=============================================================================
