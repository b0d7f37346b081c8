------------------------------- MODULE Genesis -------------------------------
(***************************************************************************)
(* How an agent is born and its prompts and settings are kept: the rollout *)
(* of genesis, the reconciliation of the build's templates at every boot,  *)
(* the operator's edits while the server runs, before birth too, and the   *)
(* offline upgrade, over builds that come and go.  All of it is read back  *)
(* from the log.                                                           *)
(*                                                                         *)
(* Relations and tags are one vocabulary; wording is a body's name.        *)
(***************************************************************************)
EXTENDS Naturals, Sequences, FiniteSets, SequencesExt

CONSTANTS
    Defaults,       \* build -> template name -> [version, body]
    Vocabulary,     \* build -> the words it seeds
    Editor,         \* operators at the control surface
    Bodies,         \* what they write
    Snapshots,      \* settings they set: [budget, tokens, chars], 0 where absent
    Context,        \* the model's context window, 0 without one
    DefaultBudget, DefaultCarryover,
    MaxActs         \* bound

VARIABLES
    log,        \* the event log
    server,     \* the build that serves, 0 when none does
    edits,      \* register_prompt between its read and its append
    forced,     \* upgrade-prompts between its two appends
    acts

vars == <<log, server, edits, forced, acts>>

Builds == DOMAIN Defaults
None == [name |-> "none"]

Registered(name, version, body, by) ==
    [kind |-> "template", name |-> name, version |-> version, body |-> body, by |-> by]

Init ==
    /\ log = << >>
    /\ server = 0
    /\ edits = [e \in Editor |-> None]
    /\ forced = << >>
    /\ acts = 0

Act == acts < MaxActs /\ acts' = acts + 1

\* Where the log holds an event of a kind.
Of(l, kind) == {i \in DOMAIN l : l[i].kind = kind}

-----------------------------------------------------------------------------
(* What the log says.                                                      *)

Registrations(l, name) == {i \in Of(l, "template") : l[i].name = name}

\* The highest version, the later of two that share it.
LatestRegistration(l, name) ==
    LET those == Registrations(l, name)
    IN IF those = {} THEN None
       ELSE l[CHOOSE i \in those : \A j \in those :
                 \/ l[j].version < l[i].version
                 \/ l[j].version = l[i].version /\ j <= i]

IsCurated(latest) == latest # None /\ latest.by # "bootstrap"

Status(l) ==
    IF l = << >> THEN "empty"
    ELSE IF Of(l, "completed") # {} THEN "complete" ELSE "incomplete"

\* A budget recorded in characters is worth a quarter of it in tokens.
Carryover(snapshot) ==
    IF snapshot.tokens > 0 THEN snapshot.tokens
    ELSE IF snapshot.chars > 0 THEN (snapshot.chars + 3) \div 4
    ELSE DefaultCarryover

FromSnapshot(snapshot) == [budget |-> snapshot.budget, carryover |-> Carryover(snapshot)]

\* The last snapshot, whole.
Settings(l) ==
    LET those == Of(l, "config")
    IN IF those = {} THEN [budget |-> DefaultBudget, carryover |-> DefaultCarryover]
       ELSE FromSnapshot(l[CHOOSE i \in those : \A j \in those : j <= i].snapshot)

\* Four fifths of the window.
CompactionBudgetFor(context) == (context * 4) \div 5

-----------------------------------------------------------------------------
(* Birth.                                                                  *)

\* Keyed on what is stable: a template on its version, a word on its name.
Missing(l, b) ==
    LET has(n) == \E i \in Registrations(l, n) : l[i].version = Defaults[b][n].version
        word(w) == \E i \in Of(l, "word") : l[i].name = w
    IN [names |-> SetToSeq({n \in DOMAIN Defaults[b] : ~has(n)}),
        words |-> SetToSeq({w \in Vocabulary[b] : ~word(w)}),
        config |-> Of(l, "config") = {},
        self |-> Of(l, "self") = {}]

BuildDefault(b, n) == Registered(n, Defaults[b][n].version, Defaults[b][n].body, "bootstrap")

SeedConfig ==
    [budget |-> IF Context > 0 THEN CompactionBudgetFor(Context) ELSE DefaultBudget,
     tokens |-> DefaultCarryover, chars |-> 0]

\* One append, whatever an earlier life left in the log.
Rollout(l, b) ==
    LET missing == Missing(l, b)
    IN [i \in DOMAIN missing.names |-> BuildDefault(b, missing.names[i])]
       \o [i \in DOMAIN missing.words |-> [kind |-> "word", name |-> missing.words[i]]]
       \o (IF missing.config THEN <<[kind |-> "config", snapshot |-> SeedConfig]>> ELSE << >>)
       \o (IF missing.self THEN <<[kind |-> "self"]>> ELSE << >>)
       \o <<[kind |-> "completed"]>>

CreateAgent ==
    /\ Act
    /\ server # 0
    /\ Status(log) # "complete"
    /\ log' = log \o Rollout(log, server)
    /\ UNCHANGED <<server, edits, forced>>

-----------------------------------------------------------------------------
(* The build's defaults, reconciled.                                       *)

\* Bug: a default is registered over the operator's.
AdvancesEverything(l, b, n) ==
    LET latest == LatestRegistration(l, n)
    IN latest = None \/ Defaults[b][n].version > latest.version

\* Absent, or an unchanged default the build has moved past.
Advances(l, b, n) ==
    LET latest == LatestRegistration(l, n)
    IN \/ latest = None
       \/ ~IsCurated(latest) /\ Defaults[b][n].version > latest.version

DefaultSupersedes(l, b, n) ==
    LET latest == LatestRegistration(l, n)
    IN \/ Defaults[b][n].version > latest.version
       \/ Defaults[b][n].version = latest.version /\ Defaults[b][n].body # latest.body

UpgradeAvailable(l, b, n) ==
    IsCurated(LatestRegistration(l, n)) /\ DefaultSupersedes(l, b, n)

Reconciled(l, b) ==
    LET names == SetToSeq({n \in DOMAIN Defaults[b] : Advances(l, b, n)})
    IN [i \in DOMAIN names |-> BuildDefault(b, names[i])]

Boot(b) ==
    /\ Act
    /\ server = 0
    /\ forced = << >>
    /\ log' = IF Status(log) = "complete" THEN log \o Reconciled(log, b) ELSE log
    /\ server' = b
    /\ UNCHANGED <<edits, forced>>

Stop ==
    /\ Act
    /\ server # 0
    /\ server' = 0
    /\ edits' = [e \in Editor |-> None]
    /\ UNCHANGED <<log, forced>>

\* Offline: the defaults advance in one append, what is forced on the operator's in another.
UpgradePrompts(b, force) ==
    LET held == SetToSeq({n \in DOMAIN Defaults[b] : UpgradeAvailable(log, b, n)})
    IN /\ Act
       /\ server = 0
       /\ forced = << >>
       /\ log' = log \o Reconciled(log, b)
       /\ forced' = IF ~force THEN << >>
                    ELSE [i \in DOMAIN held |->
                            Registered(held[i], LatestRegistration(log, held[i]).version + 1,
                                       Defaults[b][held[i]].body, "operator")]
       /\ UNCHANGED <<server, edits>>

OverwriteForced ==
    /\ forced # << >>
    /\ log' = log \o forced
    /\ forced' = << >>
    /\ UNCHANGED <<server, edits, acts>>

UpgradeCutShort ==
    /\ forced # << >>
    /\ forced' = << >>
    /\ UNCHANGED <<log, server, edits, acts>>

-----------------------------------------------------------------------------
(* The operator's edits.  The store is unlocked between read and append.   *)

RegisterPrompt(e, name, body) ==
    LET latest == LatestRegistration(log, name)
    IN /\ Act
       /\ server # 0
       /\ edits[e] = None
       /\ edits' = [edits EXCEPT ![e] =
             Registered(name, IF latest = None THEN 1 ELSE latest.version + 1, body, "operator")]
       /\ UNCHANGED <<log, server, forced>>

AppendPrompt(e) ==
    /\ edits[e] # None
    /\ log' = Append(log, edits[e])
    /\ edits' = [edits EXCEPT ![e] = None]
    /\ UNCHANGED <<server, forced, acts>>

SetSettings(snapshot) ==
    /\ Act
    /\ server # 0
    /\ log' = Append(log, [kind |-> "config", snapshot |-> snapshot])
    /\ UNCHANGED <<server, edits, forced>>

Names == UNION {DOMAIN Defaults[b] : b \in Builds}

Next ==
    \/ CreateAgent
    \/ \E b \in Builds : Boot(b)
    \/ Stop
    \/ \E b \in Builds, force \in BOOLEAN : UpgradePrompts(b, force)
    \/ OverwriteForced
    \/ UpgradeCutShort
    \/ \E e \in Editor, name \in Names, body \in Bodies : RegisterPrompt(e, name, body)
    \/ \E e \in Editor : AppendPrompt(e)
    \/ \E snapshot \in Snapshots : SetSettings(snapshot)

Spec == Init /\ [][Next]_vars

-----------------------------------------------------------------------------
\* However often creation is retried, after whatever an operator did first, an agent is born once
\* and whole: one self, every word and every template of some build, one seed configuration only
\* where the operator set none before.
BornOnce ==
    Status(log) = "complete" =>
        /\ \A kind \in {"completed", "self"} : \E i \in DOMAIN log : Of(log, kind) = {i}
        /\ Of(log, "config") # {}
        /\ \A i, j \in Of(log, "word") : log[j] = log[i] => i = j
        /\ \E b \in Builds :
              /\ \A w \in Vocabulary[b] : \E i \in Of(log, "word") : log[i].name = w
              /\ \A n \in DOMAIN Defaults[b] : LatestRegistration(log, n) # None

ByOperator(e) == e.kind = "config" \/ (e.kind = "template" /\ e.by = "operator")

\* What an operator set stands: once an agent is born, no boot, upgrade or retried creation replaces a
\* prompt an operator wrote or the settings in force, and a build that boots has every one of its
\* prompts registered, the ones nobody edited at its version or later.
Stands ==
    Status(log) = "complete" =>
        \/ \A i \in DOMAIN log' \ DOMAIN log : ByOperator(log'[i])
        \/ /\ Settings(log') = Settings(log)
           /\ \A n \in Names : IsCurated(LatestRegistration(log, n)) =>
                 LatestRegistration(log', n) = LatestRegistration(log, n)

OperatorStands == [][Stands]_log

BootReconciles ==
    server # 0 /\ Status(log) = "complete" =>
        \A n \in DOMAIN Defaults[server] :
            LET latest == LatestRegistration(log, n)
            IN latest # None /\ (IsCurated(latest) \/ latest.version >= Defaults[server][n].version)

-----------------------------------------------------------------------------
\* What the log holds, and what an operator may still add to it.
Wordings == Bodies \cup UNION {{Defaults[b][n].body : n \in DOMAIN Defaults[b]} : b \in Builds}
Template(by) ==
    {Registered(name, version, body, writer) :
        name \in Names, version \in Nat, body \in Wordings, writer \in by}
Events ==
    Template({"bootstrap", "operator"})
        \cup {[kind |-> "word", name |-> w] : w \in UNION {Vocabulary[b] : b \in Builds}}
        \cup {[kind |-> "config", snapshot |-> snapshot] : snapshot \in Snapshots \cup {SeedConfig}}
        \cup {[kind |-> "self"], [kind |-> "completed"]}

GenesisTypes ==
    /\ log \in Seq(Events)
    /\ server \in Builds \cup {0}
    /\ edits \in [Editor -> Template({"operator"}) \cup {None}]
    /\ forced \in Seq(Template({"operator"}))

\* Before its birth the log holds only what an operator may set.
Unborn ==
    Status(log) # "complete" => \A i \in DOMAIN log : log[i].kind \in {"template", "config"}

GenesisInv ==
    /\ GenesisTypes
    /\ Unborn
    /\ forced # << >> => server = 0
    /\ BornOnce
    /\ BootReconciles

=============================================================================
