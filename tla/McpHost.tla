------------------------------- MODULE McpHost -------------------------------
(***************************************************************************)
(* A configured MCP server, from the configuration that names it to the    *)
(* calls a session makes: loading, the probe of its catalogue at boot, the *)
(* instance a session spawns on first use and keeps, calls with their      *)
(* timeouts, a block cut in mid-call, a server that exits or changes its   *)
(* tools, and the end of a session.                                        *)
(*                                                                         *)
(* A tool is its raw name; arguments and results are data.  rmcp matches   *)
(* answers to requests and kills the process of a service it drops.        *)
(***************************************************************************)
EXTENDS Naturals, Sequences, FiniteSets

CONSTANTS
    Tool,           \* raw names a server may advertise
    Escaped,        \* a raw name's Lua name
    Configs,        \* [identifier, command, url, filtered, allow, deny]
    MaxProcs, MaxCalls      \* bounds

VARIABLES
    config,
    phase,          \* load, probe, serve or failed
    advertised,     \* the server's tools now
    catalogue,      \* the tools projected into sessions
    procs,          \* the state of each process or connection
    listed,         \* tools/list of the spawn under way
    instance,       \* the session's, or none
    pc,             \* idle, handshake, list or call
    tool,           \* of the call under way
    inFlight,       \* the session's marker
    sent,           \* requests, with the process each reached
    abandoned       \* processes left in the middle of a call

vars == <<config, phase, advertised, catalogue, procs, listed, instance, pc, tool, inFlight, sent,
          abandoned>>

NoInstance == [proc |-> 0, service |-> FALSE]

Init ==
    /\ config \in Configs
    /\ phase = "load"
    /\ advertised \in SUBSET Tool
    /\ catalogue = {}
    /\ procs = << >>
    /\ listed = {}
    /\ instance = NoInstance
    /\ pc = "idle"
    /\ tool = "none"
    /\ inFlight = FALSE
    /\ sent = << >>
    /\ abandoned = {}

session == <<instance, tool, inFlight, sent, abandoned>>

-----------------------------------------------------------------------------
(* Configuration and the probe.                                            *)

\* Exactly one of command and url.
Transport(c) == c.command # c.url

Load ==
    /\ phase = "load"
    /\ phase' = IF config.identifier /\ Transport(config) THEN "probe" ELSE "failed"
    /\ UNCHANGED <<config, advertised, catalogue, procs, listed, pc, session>>

FilterTools(tools, c) == (IF c.filtered THEN tools \cap c.allow ELSE tools) \ c.deny

\* An entry of a filter that matches nothing is a policy gone stale.
Stale(tools, c) == ~((IF c.filtered THEN c.allow ELSE {}) \cup c.deny \subseteq tools)

Collides(tools) == \E t, u \in tools : t # u /\ Escaped[t] = Escaped[u]

Ends(p) == [procs EXCEPT ![p] = "closed"]
Newest == Len(procs)

Probes ==
    /\ phase = "probe" /\ pc = "idle"
    /\ Len(procs) < MaxProcs
    /\ procs' = Append(procs, "running")
    /\ pc' = "handshake"
    /\ UNCHANGED <<config, phase, advertised, catalogue, listed, session>>

\* initialize, under its timeout.
Serve ==
    /\ pc = "handshake" /\ procs[Newest] = "running"
    /\ pc' = "list"
    /\ listed' = advertised
    /\ UNCHANGED <<config, phase, advertised, catalogue, procs, session>>

Probed ==
    /\ phase = "probe" /\ pc = "list"
    /\ LET tools == FilterTools(listed, config)
           refused == Stale(listed, config) \/ Collides(tools)
       IN /\ phase' = IF refused THEN "failed" ELSE "serve"
          /\ catalogue' = IF refused THEN {} ELSE tools
    /\ procs' = Ends(Newest)
    /\ pc' = "idle"
    /\ UNCHANGED <<config, advertised, listed, session>>

\* The process could not be launched, or did not answer in time: at the
\* probe its tools never appear, in a session the call fails.
SpawnFails ==
    /\ pc \in {"handshake", "list"}
    /\ procs' = Ends(Newest)
    /\ phase' = IF phase = "probe" THEN "serve" ELSE phase
    /\ pc' = "idle"
    /\ UNCHANGED <<config, advertised, catalogue, listed, session>>

-----------------------------------------------------------------------------
(* Calls.                                                                  *)

Request(p, t) ==
    /\ pc' = "call"
    /\ inFlight' = TRUE
    /\ sent' = Append(sent, [proc |-> p, tool |-> t])

\* The session's instance, spawned on first use.
CallTool(t) ==
    /\ phase = "serve" /\ pc = "idle" /\ t \in catalogue
    /\ Len(sent) < MaxCalls
    /\ tool' = t
    /\ \/ /\ instance = NoInstance
          /\ Len(procs) < MaxProcs
          /\ procs' = Append(procs, "running")
          /\ pc' = "handshake"
          /\ UNCHANGED <<inFlight, sent>>
       \/ /\ instance.service /\ procs[instance.proc] = "running"
          /\ Request(instance.proc, t)
          /\ UNCHANGED procs
    /\ UNCHANGED <<config, phase, advertised, catalogue, listed, instance, abandoned>>

EnsureSpawned ==
    /\ phase = "serve" /\ pc = "list"
    /\ instance' = [proc |-> Newest, service |-> TRUE]
    /\ Request(Newest, tool)
    /\ UNCHANGED <<config, phase, advertised, catalogue, procs, listed, tool, abandoned>>

\* A result, an error of the tool or of the protocol, or a connection found gone.
Answers ==
    /\ pc = "call"
    /\ pc' = "idle"
    /\ inFlight' = FALSE
    /\ UNCHANGED <<config, phase, advertised, catalogue, procs, listed, instance, tool, sent,
                   abandoned>>

\* CALL_TIMEOUT: the service is closed and the instance stays, dead.
CallTimesOut ==
    /\ pc = "call"
    /\ procs' = Ends(instance.proc)
    /\ instance' = [instance EXCEPT !.service = FALSE]
    /\ abandoned' = abandoned \cup {instance.proc}
    /\ inFlight' = FALSE
    /\ pc' = "idle"
    /\ UNCHANGED <<config, phase, advertised, catalogue, listed, tool, sent>>

\* Bug: the session keeps the instance whose call was cut.
KeepInFlight ==
    /\ inFlight' = FALSE
    /\ UNCHANGED <<instance, procs>>

DropInFlight ==
    /\ inFlight' = FALSE
    /\ instance' = IF inFlight THEN NoInstance ELSE instance
    /\ procs' = IF inFlight /\ instance # NoInstance THEN Ends(instance.proc) ELSE procs

\* The block's timeout drops whatever the script awaited.
BlockTimesOut ==
    /\ phase = "serve"
    /\ \/ /\ pc = "call"
          /\ abandoned' = abandoned \cup {instance.proc}
          /\ DropInFlight
       \/ /\ pc \in {"handshake", "list"}
          /\ procs' = Ends(Newest)
          /\ UNCHANGED <<instance, inFlight, abandoned>>
    /\ pc' = "idle"
    /\ UNCHANGED <<config, phase, advertised, catalogue, listed, tool, sent>>

Shutdown ==
    /\ phase = "serve" /\ pc = "idle" /\ instance # NoInstance
    /\ procs' = Ends(instance.proc)
    /\ instance' = NoInstance
    /\ UNCHANGED <<config, phase, advertised, catalogue, listed, pc, tool, inFlight, sent, abandoned>>

\* The server's own doing.
ServerExits(p) ==
    /\ procs[p] = "running"
    /\ procs' = Ends(p)
    /\ UNCHANGED <<config, phase, advertised, catalogue, listed, pc, session>>

ToolsChange(tools) ==
    /\ phase = "serve" /\ pc = "idle"
    /\ advertised # tools
    /\ advertised' = tools
    /\ UNCHANGED <<config, phase, catalogue, procs, listed, pc, session>>

Next ==
    \/ Load \/ Probes \/ Serve \/ Probed \/ SpawnFails
    \/ \E t \in Tool : CallTool(t)
    \/ EnsureSpawned \/ Answers \/ CallTimesOut \/ BlockTimesOut \/ Shutdown
    \/ \E p \in DOMAIN procs : ServerExits(p)
    \/ \E tools \in SUBSET Tool : ToolsChange(tools)

Spec == Init /\ [][Next]_vars

-----------------------------------------------------------------------------
\* The agent's reach outward stays what the operator configured and nothing lingers: every request
\* names a tool the filters admit, whatever the server advertises later; a process runs only for the
\* session's instance or a spawn under way; and one left in the middle of a call, by the call's or the
\* block's timeout, runs no more.
McpContained ==
    /\ \A i \in DOMAIN sent :
          /\ config.filtered => sent[i].tool \in config.allow
          /\ sent[i].tool \notin config.deny
    /\ \A p \in DOMAIN procs : procs[p] = "running" =>
          \/ instance = [proc |-> p, service |-> TRUE]
          \/ pc \in {"handshake", "list"} /\ p = Newest
    /\ \A p \in abandoned : procs[p] = "closed"

McpTypes ==
    /\ procs \in Seq({"running", "closed"})
    /\ phase \in {"load", "probe", "serve", "failed"}
    /\ pc \in {"idle", "handshake", "list", "call"}
    /\ instance \in [proc : Nat, service : BOOLEAN]
    /\ advertised \cup listed \cup catalogue \subseteq Tool
    /\ sent \in Seq([proc : Nat, tool : Tool])
    /\ abandoned \subseteq DOMAIN procs

\* A spawn is under way only without an instance, and asks for a tool of the catalogue.
SpawnsAlone ==
    /\ instance # NoInstance =>
          instance.proc \in DOMAIN procs /\ pc \in {"idle", "call"} /\ phase = "serve"
    /\ pc \in {"handshake", "list"} => Len(procs) > 0 /\ phase \in {"probe", "serve"}
    /\ pc \in {"handshake", "list"} /\ phase = "serve" => tool \in catalogue

\* The marker is set exactly during a call, which the instance's process serves.
CallsAreMarked ==
    /\ pc = "call" => phase = "serve" /\ instance.service /\ instance # NoInstance
    /\ inFlight <=> pc = "call"

FiltersHold ==
    \A t \in catalogue : (config.filtered => t \in config.allow) /\ t \notin config.deny

\* What McpContained rests on, inductive with it.
McpInv ==
    McpTypes /\ SpawnsAlone /\ CallsAreMarked /\ FiltersHold /\ McpContained
=============================================================================
