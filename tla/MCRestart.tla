----------------------------- MODULE MCRestart -----------------------------
(***************************************************************************)
(* What a restart finds, on small instances: the graph folded from the log *)
(* with its snapshots, and a room's session, open in the log and gone from *)
(* the session map.  The sessions see an append and its fold as one step   *)
(* and the graph sees any event as its arm, so a behaviour follows one of  *)
(* the two, chosen at the start.                                           *)
(***************************************************************************)
EXTENDS SessionLifecycle, DerivedGraph

VARIABLE part

Projected == {"write", "insert"}

Tasks == Permutations(Writers)

\* A behaviour with a failed statement or a revert cut short has one operator
\* command.
FaultBounds == ~OnlyKills => spent.ops <= 1

\* Behaviours whose turns end within the gap have no system turns; those with
\* turns of any length have two batches and a shorter clock.
PaceBounds ==
    IF slow THEN now <= 2 /\ used.arrivals <= 2 ELSE used.asides = 0

RestartInit ==
    /\ part \in {"graph", "sessions"}
    /\ Init /\ GraphInit
    /\ part = "graph" => ~slow

RestartNext ==
    /\ UNCHANGED part
    /\ \/ part = "graph" /\ GraphNext /\ FaultBounds' /\ UNCHANGED vars
       \/ part = "sessions" /\ Next /\ PaceBounds' /\ UNCHANGED graphVars

RestartSpec == RestartInit /\ [][RestartNext]_<<part, vars, graphVars>>
=============================================================================
