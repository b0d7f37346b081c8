------------------------------ MODULE TurnSlot ------------------------------
(***************************************************************************)
(* What the per-conversation turn ledger promises to its callers, with no  *)
(* epochs, counters or watch channels: a conversation has one turn slot,   *)
(* batches are given it in the order they arrived, and a batch that leaves *)
(* -- its turn over, or its ticket dropped before it was ever admitted --   *)
(* stops standing in anybody's way.  TurnLedger implements this.           *)
(***************************************************************************)
CONSTANTS
  Conversation,   \* the rooms
  Batch,          \* inbound message batches
  Room            \* the room each batch was sent to

VARIABLES
  phase,          \* "new", "waiting", "admitted" or "left"
  ahead           \* the batches of the same room still to leave before b may run

vars == <<phase, ahead>>

Present(b) == phase[b] \in {"waiting", "admitted"}

Init ==
  /\ phase = [b \in Batch |-> "new"]
  /\ ahead = [b \in Batch |-> {}]

(* b queues behind everybody who is in the room. *)
Arrive(b) ==
  /\ phase[b] = "new"
  /\ phase' = [phase EXCEPT ![b] = "waiting"]
  /\ ahead' = [ahead EXCEPT ![b] = {x \in Batch : Present(x) /\ Room[x] = Room[b]}]

(* b takes the slot once nobody is ahead of it. *)
Admit(b) ==
  /\ phase[b] = "waiting"
  /\ ahead[b] = {}
  /\ phase' = [phase EXCEPT ![b] = "admitted"]
  /\ UNCHANGED ahead

(* b leaves the slot, or the line. *)
Leave(b) ==
  /\ Present(b)
  /\ phase' = [phase EXCEPT ![b] = "left"]
  /\ ahead' = [x \in Batch |-> IF x = b THEN {} ELSE ahead[x] \ {b}]

Next == \E b \in Batch : Arrive(b) \/ Admit(b) \/ Leave(b)

Spec == Init /\ [][Next]_vars
=============================================================================
