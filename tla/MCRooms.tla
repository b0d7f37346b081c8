------------------------------ MODULE MCRooms ------------------------------
(***************************************************************************)
(* Rooms, on small instances: the line of batches at one room's turn slot, *)
(* and the sessions behind it, in two rooms whose opens checkpoint each    *)
(* other.  The ledger hands its turns to the sessions one at a time and    *)
(* knows nothing else of them, so a behaviour follows one of the two,      *)
(* chosen at the start.                                                    *)
(***************************************************************************)
EXTENDS SessionLifecycle, TurnLedger

VARIABLE part

\* One busy room is enough: the rooms of the ledger do not touch each other.
OneRoom == [b \in Batch |-> CHOOSE c \in Conversation : TRUE]

\* Two batches, or one with a system turn; a restart happens between the
\* timer's checkpoints.
LiveBounds ==
    /\ used.asides > 0 => used.arrivals <= 1
    /\ used.crashes > 0 => used.arrivals <= 1 \/ act[Checkpointer] = Idle

RoomsInit == part \in {"ledger", "sessions"} /\ LedgerInit /\ Init

RoomsNext ==
    /\ UNCHANGED part
    /\ \/ part = "ledger" /\ LedgerNext /\ UNCHANGED vars
       \/ part = "sessions" /\ Next /\ LiveBounds' /\ UNCHANGED ledgerVars

\* The fairness of each; it binds in its own part alone, since in the other
\* no batch ever arrives.
RoomsSpec ==
    /\ RoomsInit /\ [][RoomsNext]_<<part, vars, ledgerVars>>
    /\ Fairness
    /\ Progress /\ \A c \in Conversations : FlushWorks(c)

-----------------------------------------------------------------------------
(* Batches differ by their arrivals alone, and rooms by their messages: a  *)
(* promise made to each is followed for one.                               *)
Followed == CHOOSE b \in Batch : TRUE
Watched == CHOOSE c \in Conversations : TRUE

(* No ticket waits for ever (TurnTicket::admit).                           *)
EveryTicketIsServed == TicketIsServed(Followed)

(* A superseded burst is answered: some later batch of the room completes, *)
(* unless its caller gave up on it (TurnLedger::exit).                     *)
SupersededIsAnswered == BurstIsAnswered(Followed)

(* Every admitted turn ends, and gives its slot back: no cycle of waits    *)
(* runs through the lifecycle locks, whatever sweeps and checkpoints hold  *)
(* them (ensure_session).                                                  *)
EveryTurnEnds == InFlight(Watched) ~> ~InFlight(Watched)

(* The sweep's promise: an open session that lapsed, in the map or only in *)
(* the log after a restart, is eventually closed, or messaged again.       *)
AbandonedIsClosed == Abandoned(Watched) ~> ~Abandoned(Watched)
=============================================================================
