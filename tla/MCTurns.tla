------------------------------ MODULE MCTurns ------------------------------
(***************************************************************************)
(* What a turn is made of, on small instances: its own loop, the blocks it *)
(* runs, the transcripts and recall it reads, the handles it writes        *)
(* through, the memory it writes, the pages it fetches and the backend's   *)
(* answers.  Each meets the others through arguments and results alone, so *)
(* a behaviour follows one of them, chosen at the start.                   *)
(***************************************************************************)
EXTENDS BlockExecution, MemoryWrites

CONSTANTS
    Stub, Profile,                              \* model values
    Components,                                 \* what the behaviours follow
    \* the transcripts of a room
    Person, Room, MaxRoomLog, Reach,
    \* a script's handles
    Scripted, ScriptName, Stood, Query, Naming, Unmintable, ListCap, MaxScriptActs,
    \* pages that are fetched, and the texts that are embedded
    HostName, AllowPrivate, MaxRedirects, MaxBytes, MaxChars, ChunkSize,
    ContextLength, InputLength, Density

VARIABLES part,
    turnLog, turn, ids, waiting, newer, start, now, acts, outcome, last,
    roomLog, sessions, class, inRoom, heard, shown,
    recalled, indexed, recalls,
    name, former, pending, made, handles, taint, locked, scriptActs, surfaced, moved, strays,
    fetchPc, host, hops, reached, bytes, result,
    chat, embed

\* A platform stub, merged with the profile that is the primary.
StubAndProfile == [m \in {Stub, Profile} |-> Profile]

\* Turns of one block, of a block at every step, and of a tool there is none of.
Block == <<"lua">>
T == INSTANCE TurnLoop WITH
        MaxSteps <- 3, Budget <- 3, MaxActs <- 3, log <- turnLog,
        Plans <- {<<Block>>, <<Block, Block, Block>>, <<<<"unknown", "lua">>>>}

A == INSTANCE Transcripts WITH
        MaxLog <- MaxRoomLog, log <- roomLog

\* One who confides, one who attributes, and a topic both are linked to.
Told(on, by, vis, day, authored) ==
    [on |-> on, by |-> by, vis |-> vis, day |-> day, authored |-> authored]
Related(from, to, rel, by, vis) ==
    [from |-> from, to |-> to, rel |-> rel, by |-> by, vis |-> vis]
R == INSTANCE Recall WITH
        Memory <- 1..6, Self <- 1, People <- {2, 3, 4}, Room <- 6,
        EntryKinds <-
            {Told(2, 2, Public, 0, FALSE), Told(2, 3, PrivateToTeller, 1, FALSE),
             Told(3, 4, Attributed, 2, TRUE), Told(5, 2, Exclude({4}), 0, FALSE),
             Told(5, Agent, Public, 1, TRUE), Told(6, 3, Public, 0, FALSE),
             Told(1, Bootstrap, Public, 0, FALSE)},
        LinkKinds <-
            {Related(2, 5, "knows", 2, Public), Related(3, 5, "part_of", 3, PrivateToTeller),
             Related(4, 2, "knows", 4, Attributed), Related(2, 6, "knows", 4, Public)},
        Audiences <-
            {[present |-> {2}, speakers |-> {2}], [present |-> {2, 3, 4}, speakers |-> {4}],
             [present |-> {3, 4}, speakers |-> {}], [present |-> {}, speakers |-> {}]},
        Weight <- "knows" :> 40 @@ "part_of" :> 80,
        WorkingSet <- <<3, 2, 5>>, RecentFacts <- 1, KeyRelationships <- 1, PresentCap <- 1,
        CharBudget <- 7, MaxUpcoming <- 1, SalienceCap <- 1, MaxActs <- 3,
        graph <- recalled, acts <- recalls

\* A small memory: the agent's self, the operator's anchor, two people met on a
\* platform and the room they share; one has confided something about the other,
\* who has said something openly of themselves.
Made(id, named) == [type |-> "MemoryCreated", id |-> id, name |-> named]
Met(id, named) == <<Made(id, named), [type |-> "ParticipantIdentified", id |-> id, name |-> named]>>
Said(id, e, by, vis) ==
    [type |-> "MemoryContentAppended", id |-> id, entry |-> e, by |-> by, vis |-> vis,
     connector |-> FALSE]
Remembered ==
    <<Made(1, "self"), Said(1, 1, Bootstrap, Public), Made(2, "person/operator")>>
    \o Met(3, "person/ann@x") \o Met(4, "person/bob@x")
    \o <<Made(5, "context/x/room"),
         [type |-> "ConversationStarted", id |-> 5, name |-> "context/x/room"],
         Made(6, "person/ann"), [type |-> "ClassPrimaryDesignated", id |-> 6, on |-> TRUE],
         [type |-> "LinkCreated",
          link |-> [from |-> 3, to |-> 6, rel |-> "same_as", source |-> "agent", by |-> Agent,
                    vis |-> Public]],
         Said(4, 2, 3, PrivateToTeller), Said(4, 3, 4, Public), Said(6, 4, 3, Public)>>
MetNames == {"person/ann@x", "person/bob@x"}
People == {"person/operator", "person/ann", "person/bob"} \cup MetNames
MemoryNames == {"self", "context/x/room"} \cup People
MayAct == [turn |-> {"platform", "operator"}, pass |-> {"agent"}]
AskedFor == {Unset, Public, Exclude({4})}
\* The last pair makes the agent's self one with a participant.
Merges == {<<3, 4>>, <<2, 3>>, <<1, 3>>}

\* Two memories with a word in common; a query that names one, and one that names none.
MCStood == <<"dave", "davina">>
MCNaming == "davina" :> {"davina"} @@ "who" :> {}
S == INSTANCE SearchGuard WITH
        Memory <- Scripted, Name <- ScriptName, MaxActs <- MaxScriptActs, acts <- scriptActs

ASSUME OutboundAssumption ==
    /\ AllowPrivate \in BOOLEAN /\ {MaxBytes, MaxChars, ContextLength, InputLength} \subseteq Nat
    /\ Density \subseteq Nat /\ HostName \cap {"public", "private"} = {}
W == INSTANCE WebFetch WITH Names <- HostName, pc <- fetchPc

\* A text with its reasoning, and two tool calls whose pieces interleave.
Piece(kind, index, text) == [kind |-> kind, index |-> index, part |-> text]
Usage == Piece("usage", 0, 0)
K == INSTANCE ModelBackend WITH
        Answers <-
            {<<Piece("reasoning", 0, 1), Piece("content", 0, 2), Piece("content", 0, 3), Usage>>,
             <<Piece("content", 0, 9), Piece("head", 2, 5), Piece("head", 1, 6),
               Piece("arguments", 2, 3), Piece("arguments", 1, 4), Piece("arguments", 2, 5), Usage>>}

turnVars == <<turnLog, turn, ids, waiting, newer, start, now, acts, outcome, last>>
roomVars == <<roomLog, sessions, class, inRoom, heard, shown>>
recallVars == <<recalled, indexed, recalls>>
scriptVars ==
    <<name, former, pending, made, handles, taint, locked, scriptActs, surfaced, moved, strays>>
fetchVars == <<fetchPc, host, hops, reached, bytes, result>>
backendVars == <<chat, embed>>

TurnsInit ==
    /\ part \in Components
    /\ IF part = "memory" THEN Init ELSE graph = EmptyGraph /\ NothingOpen
    /\ BlockInit /\ T!Init /\ A!Init /\ R!Init /\ S!Init /\ W!Init /\ K!Init
    /\ part # "backend" => embed.density = 1

TurnsNext ==
    /\ UNCHANGED part
    /\ \/ part = "block" /\ BlockNext
       \/ part # "block" /\ UNCHANGED blockVars
    /\ \/ part = "turn" /\ T!Next
       \/ part # "turn" /\ UNCHANGED turnVars
    /\ \/ part = "room" /\ A!Next
       \/ part # "room" /\ UNCHANGED roomVars
    /\ \/ part = "recall" /\ R!Next
       \/ part # "recall" /\ UNCHANGED recallVars
    /\ \/ part = "memory" /\ Next
       \/ part # "memory" /\ UNCHANGED vars
    /\ \/ part = "script" /\ S!Next
       \/ part # "script" /\ UNCHANGED scriptVars
    /\ \/ part = "fetch" /\ W!Next
       \/ part # "fetch" /\ UNCHANGED fetchVars
    /\ \/ part = "backend" /\ K!Next
       \/ part # "backend" /\ UNCHANGED backendVars

turns ==
    <<part, blockVars, turnVars, roomVars, recallVars, vars, scriptVars, fetchVars, backendVars>>

TurnsSpec == TurnsInit /\ [][TurnsNext]_turns

-----------------------------------------------------------------------------
(* What ends a turn is a whole completion or an error, recorded once      *)
(* however it ends, and what an answered plain turn sent is a prefix of    *)
(* what the next one sends (finish, run_turn).                             *)
TurnsEndWhole ==
    /\ part = "turn" => T!OneEnding /\ T!PlainTurnReplays
    /\ part = "backend" => K!OnlyWholeAnswers

(* A transcript shows nobody what was said out of their hearing.           *)
AudienceKept == part = "room" => A!AudienceKept

(* Neither the ranking, the snippets, the trace nor the brief depends on   *)
(* what the audience may not see, the brief is packed as promised, and the *)
(* operator's account of it is true.                                       *)
RecallKeepsSecrets ==
    part = "recall" => R!NoTraceOfSecrets /\ R!BriefIsSound

(* No content write lands on what the block's search surfaced unnamed.     *)
NoFuzzyWrite == part = "script" => S!NoFuzzyWrite

(* A fetch reaches public addresses only, within its limits, and an        *)
(* embedding that is too long shrinks until it fits.                       *)
OutboundIsBounded ==
    /\ part = "fetch" => W!FetchStaysPublic
    /\ part = "backend" => K!EmbedShrinks
=============================================================================
