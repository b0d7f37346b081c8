----------------------------- MODULE Visibility -----------------------------
(***************************************************************************)
(* Who may see what an entry or a link says: the verdict of each account   *)
(* of a fact against the people present, the widest one that passes, and   *)
(* the posture a new entry or link takes by default.  Every question about *)
(* a person is asked of their class.                                       *)
(***************************************************************************)
EXTENDS Integers, Sequences, FiniteSets

CONSTANTS
    Memory,         \* memory identifiers, ordered like the ULIDs of the code
    Agent,          \* the teller of what the agent observed itself
    Bootstrap       \* the teller of what genesis wrote

ASSUME MemoryAssumption == Memory \subseteq Nat \ {0}
ASSUME TellerAssumption == {Agent, Bootstrap} \cap Memory = {}

Teller == Memory \cup {Agent, Bootstrap}

(* Postures: open to all, open but attributed, for the teller's company,   *)
(* or for the teller's company without some people.                        *)
Public == [level |-> "public", except |-> {}]
Attributed == [level |-> "attributed", except |-> {}]
PrivateToTeller == [level |-> "private", except |-> {}]
Exclude(ids) == [level |-> "exclude", except |-> ids]

Posture ==
    {Public, Attributed, PrivateToTeller}
        \cup [level : {"exclude"}, except : SUBSET Memory \ {{}}]

OpenToAll(posture) == posture.level \in {"public", "attributed"}

Passing == {"public", "attributed", "teller_present", "not_excluded"}

-----------------------------------------------------------------------------
(* Presence, over classes: classOf maps a memory to the primary it is one  *)
(* with, and a deleted memory to itself.                                   *)

IsPresent(entity, present, classOf) ==
    \E p \in present : classOf[p] = classOf[entity]

TellerPresent(teller, present, classOf) ==
    \/ teller = Agent
    \/ teller \in Memory /\ IsPresent(teller, present, classOf)

TellerIs(subject, teller, classOf) ==
    teller \in Memory /\ classOf[teller] = classOf[subject]

\* A person is not shown what others said of them in confidence.
SubjectBlocks(subjects, teller, present, classOf) ==
    \E s \in subjects :
        ~TellerIs(s, teller, classOf) /\ IsPresent(s, present, classOf)

NoExcludeePresent(ids, present, classOf) ==
    \A x \in ids : ~IsPresent(x, present, classOf)

-----------------------------------------------------------------------------
(* The verdict of one account: a teller and a posture, about some people.  *)

ExplainAttestation(teller, posture, subjects, present, classOf) ==
    IF OpenToAll(posture) THEN posture.level
    ELSE IF ~TellerPresent(teller, present, classOf) THEN "teller_absent"
    ELSE IF ~NoExcludeePresent(posture.except, present, classOf) THEN "excludee_present"
    ELSE IF SubjectBlocks(subjects, teller, present, classOf) THEN "subject_present"
    ELSE IF posture.level = "private" THEN "teller_present" ELSE "not_excluded"

WidthRank(verdict) ==
    CASE verdict = "public" -> 4
      [] verdict = "attributed" -> 3
      [] verdict = "teller_present" -> 2
      [] verdict = "not_excluded" -> 1
      [] OTHER -> 0

Wider(verdicts) ==
    CHOOSE v \in verdicts : \A w \in verdicts : WidthRank(v) >= WidthRank(w)

\* An entry read without its accounts stands on its own founding fields.
FoundingAttestation(entry) ==
    [teller |-> entry.by, posture |-> entry.vis, live |-> TRUE]

(* The verdict of an entry whose accounts are rows, founding first: the    *)
(* widest live one that passes, or else what the first row says.           *)
ExplainRows(rows, subjects, present, classOf) ==
    LET verdict(i) == ExplainAttestation(rows[i].teller, rows[i].posture,
                                         subjects, present, classOf)
        passing == {verdict(i) : i \in {j \in DOMAIN rows : rows[j].live}} \cap Passing
    IN IF passing = {} THEN verdict(1) ELSE Wider(passing)

Explain(entry, rows, subjects, present, classOf) ==
    IF entry.sup # 0 THEN "superseded"
    ELSE ExplainRows(IF rows = << >> THEN <<FoundingAttestation(entry)>> ELSE rows,
                     subjects, present, classOf)

Visible(entry, rows, subjects, present, classOf) ==
    Explain(entry, rows, subjects, present, classOf) \in Passing

\* Whom a wake-up is for: the person its memory is about, or who told it.
TargetsPresent(subjects, teller, present, classOf) ==
    \E p \in subjects \cup ({teller} \cap Memory) : IsPresent(p, present, classOf)

-----------------------------------------------------------------------------
(* A link has one account, and its subjects are the far end, or both ends  *)
(* of a symmetric one.  A link without a teller is the agent's.            *)

LinkSubjects(link, symmetric) == IF symmetric THEN {link.from, link.to} ELSE {link.to}

LinkExplain(link, symmetric, present, classOf) ==
    ExplainAttestation(link.by, link.vis, LinkSubjects(link, symmetric), present, classOf)

LinkVisible(link, symmetric, present, classOf) ==
    LinkExplain(link, symmetric, present, classOf) \in Passing

-----------------------------------------------------------------------------
(* Defaults, on the memories themselves and not on their classes.          *)

DefaultVisibility(subjects, teller) ==
    IF subjects # {} /\ teller \in Memory \ subjects THEN PrivateToTeller ELSE Public

DefaultLinkVisibility(from, to, bothPeople, teller) ==
    IF from = to \/ ~bothPeople \/ teller \notin Memory THEN Public
    ELSE IF teller \in {from, to} THEN PrivateToTeller
    ELSE Attributed

\* How many an account may reach: it is never wider than its entry.
PostureWidth(posture) ==
    CASE OpenToAll(posture) -> 2
      [] posture.level = "private" -> 1
      [] posture.level = "exclude" -> 0

=============================================================================
