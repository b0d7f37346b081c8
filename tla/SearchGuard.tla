---------------------------- MODULE SearchGuard ----------------------------
(***************************************************************************)
(* The handles a script takes from the memory and what it may write        *)
(* through them.  A search is fuzzy: its hits carry the query, and what it *)
(* surfaced without naming is barred from content writes until the block   *)
(* ends, by whatever handle the script comes.  One script runs, beside     *)
(* other blocks that rename what it holds no lock of.                      *)
(***************************************************************************)
EXTENDS Naturals, FiniteSets, SequencesExt

CONSTANTS
    Memory,         \* memories, numbered; the fresh ones last
    Name,           \* handles
    Stood,          \* the names of the memories that exist at the start
    Query,          \* what a script searches for
    Naming,         \* the handles that a query names, token by token
    Unmintable,     \* names that a link endpoint does not make: rooms, the operator
    ListCap,        \* the most handles that a listing returns
    MaxActs         \* bound on what the script and the others do

VARIABLES
    name,           \* the committed name of each memory
    former,         \* old names, each with its memory
    pending,        \* the block's own <<name, memory>> in order, not yet committed
    made,           \* the memories that the block made
    handles,        \* the handles the script holds
    taint,          \* the names its searches surfaced without naming them
    locked,         \* the memories whose locks the block holds
    acts,
    surfaced,       \* history: the memories behind the taint
    moved,          \* history: those that another block renamed since
    strays          \* history: what was surfaced, not moved, then written in one block

vars == <<name, former, pending, made, handles, taint, locked, acts, surfaced, moved, strays>>

None == "none"

Init ==
    /\ name = Stood
    /\ former = {} /\ pending = << >> /\ made = {} /\ handles = {} /\ taint = {} /\ locked = {}
    /\ acts = 0
    /\ surfaced = {} /\ moved = {} /\ strays = {}

-----------------------------------------------------------------------------
(* Names.                                                                  *)

Bearers(n) == {m \in DOMAIN name : name[m] = n}

\* A name of the block's own, else a current one, else a former one.
Resolve(n) ==
    LET own == SelectSeq(pending, LAMBDA p : p[1] = n)
        old == {p[2] : p \in {q \in former : q[1] = n}}
    IN IF own # << >> THEN {own[1][2]} ELSE IF Bearers(n) # {} THEN Bearers(n) ELSE old

Taken(n) == Bearers(n) # {} \/ \E p \in Range(pending) : p[1] = n

\* The name that a handle reads: of a memory made here its first, else the committed one.
HandleName(m) ==
    IF m \in made THEN SelectSeq(pending, LAMBDA p : p[2] = m)[1][1] ELSE name[m]

\* Some token of the query is a token of the handle.
QueryNamesHandle(query, n) == n \in Naming[query]

Literal(m) == [mem |-> m, query |-> None, name |-> None]

-----------------------------------------------------------------------------
(* The guards of a content write.                                          *)

GuardSearchWrite(h) == h.query # None => QueryNamesHandle(h.query, h.name)

\* The bug of looking at the handle alone.
TrustsLiterals(m) == TRUE

GuardSearchTaint(m) == HandleName(m) \notin taint

-----------------------------------------------------------------------------
(* What the script reads.                                                  *)

Act == acts < MaxActs /\ acts' = acts + 1

\* The rows are read off the committed graph and lock nothing.
Search ==
    /\ Act
    /\ \E query \in Query, found \in SUBSET DOMAIN name \ {{}} :
        LET fuzzy == {m \in found : ~QueryNamesHandle(query, name[m])}
        IN /\ handles' = handles \cup {[mem |-> m, query |-> query, name |-> name[m]] : m \in found}
           /\ taint' = taint \cup {name[m] : m \in fuzzy}
           /\ surfaced' = surfaced \cup fuzzy
           /\ moved' = moved \ fuzzy
    /\ UNCHANGED <<name, former, pending, made, locked, strays>>

Obtain(S) ==
    /\ handles' = handles \cup {Literal(m) : m \in S}
    /\ locked' = locked \cup S

\* A handle given in place of a name stands for the name it reads.
ArgumentNames == Name \cup {HandleName(h.mem) : h \in handles}

ResolveExistingHandle ==
    /\ Act
    /\ \E n \in ArgumentNames : Resolve(n) # {} /\ \E m \in Resolve(n) : Obtain({m})
    /\ UNCHANGED <<name, former, pending, made, taint, surfaced, moved, strays>>

\* The handles of a stem, as many as the cap lets through.
List ==
    /\ Act
    /\ \E S \in SUBSET DOMAIN name : S # {} /\ Cardinality(S) <= ListCap /\ Obtain(S)
    /\ UNCHANGED <<name, former, pending, made, taint, surfaced, moved, strays>>

Fresh == Memory \ (DOMAIN name \cup made)

Make(m, n) ==
    /\ made' = made \cup {m}
    /\ pending' = Append(pending, <<n, m>>)

Create ==
    /\ Act
    /\ \E n \in Name :
        /\ ~Taken(n) /\ Fresh # {}
        /\ LET m == CHOOSE k \in Fresh : TRUE IN Make(m, n) /\ Obtain({m})
    /\ UNCHANGED <<name, former, taint, surfaced, moved, strays>>

-----------------------------------------------------------------------------
(* What the script writes.  A refused write fails the script.              *)

Lands(S) ==
    /\ strays' = strays \cup ((S \cap surfaced) \ moved)
    /\ locked' = locked \cup S

\* append, attest, supersede, retract and revise.
Write ==
    /\ Act
    /\ \E h \in handles :
        /\ GuardSearchWrite(h) /\ GuardSearchTaint(h.mem)
        /\ Lands({h.mem})
    /\ UNCHANGED <<name, former, pending, made, handles, taint, surfaced, moved>>

Rename ==
    /\ Act
    /\ \E h \in handles, n \in Name :
        /\ GuardSearchWrite(h) /\ GuardSearchTaint(h.mem)
        /\ ~Taken(n)
        /\ pending' = Append(pending, <<n, h.mem>>)
        /\ Lands({h.mem})
    /\ UNCHANGED <<name, former, made, handles, taint, surfaced, moved>>

\* An endpoint given by name: what bears it, or a memory made for it.
Mintable(n) == n \notin Unmintable

LinkTargets(n) ==
    IF Resolve(n) # {} THEN Resolve(n)
    ELSE IF Mintable(n) /\ Fresh # {} THEN {CHOOSE k \in Fresh : TRUE} ELSE {}

\* Between what a handle holds and what a name names.
LinkCreate ==
    /\ Act
    /\ \E h \in handles, n \in Name : \E m \in LinkTargets(n) :
        /\ GuardSearchWrite(h)
        /\ IF m \in Fresh THEN Make(m, n) ELSE UNCHANGED <<pending, made>>
        /\ GuardSearchTaint(h.mem)
        /\ m \notin Fresh => GuardSearchTaint(m)
        /\ m \in Fresh => n \notin taint
        /\ Lands({h.mem, m})
    /\ UNCHANGED <<name, former, handles, taint, surfaced, moved>>

-----------------------------------------------------------------------------
(* The block's end: its names are committed, or it fails and the script is *)
(* written anew.  The taint dies with it.                                  *)

NewBlock ==
    /\ pending' = << >> /\ made' = {} /\ handles' = {} /\ taint' = {} /\ locked' = {}
    /\ surfaced' = {} /\ moved' = {}

LastName(m) == Last(SelectSeq(pending, LAMBDA p : p[2] = m))[1]

\* Names that another block took meanwhile do not apply (BlockExecution).
Commit ==
    /\ Act /\ pending # << >>
    /\ LET own == {p[2] : p \in Range(pending)}
       IN /\ \A m \in own : Bearers(LastName(m)) \subseteq own
          /\ name' = [m \in own |-> LastName(m)] @@ name
          /\ former' = (former \cup {<<name[m], m>> : m \in own \ made})
                         \ {<<LastName(m), m>> : m \in own}
    /\ NewBlock
    /\ UNCHANGED strays

Fail ==
    /\ Act /\ handles # {}
    /\ NewBlock
    /\ UNCHANGED <<name, former, strays>>

\* Another block's rename of what this one holds no lock of.
RenamedElsewhere ==
    /\ Act
    /\ \E m \in DOMAIN name \ locked, n \in Name :
        /\ Bearers(n) = {}
        /\ name' = [name EXCEPT ![m] = n]
        /\ former' = (former \cup {<<name[m], m>>}) \ {<<n, m>>}
        /\ moved' = moved \cup {m}
    /\ UNCHANGED <<pending, made, handles, taint, locked, surfaced, strays>>

Next ==
    \/ Search \/ ResolveExistingHandle \/ List \/ Create
    \/ Write \/ Rename \/ LinkCreate
    \/ Commit \/ Fail \/ RenamedElsewhere

Spec == Init /\ [][Next]_vars

-----------------------------------------------------------------------------
(* A content write or a link never lands on a memory that the same block's *)
(* searches surfaced without naming it, whether it comes through the hit,  *)
(* a handle fetched by the hit's name, a former name, a listing or a link  *)
(* endpoint (guard_search_write, guard_search_taint).  The taint is kept   *)
(* by name, so what another block renamed meanwhile is excused.            *)
NoFuzzyWrite == strays = {}

\* NoFuzzyWrite made inductive: what was surfaced is tainted by its name, while it keeps it.
ScriptInv ==
    /\ made \cap DOMAIN name = {}
    /\ surfaced \subseteq DOMAIN name
    /\ \A m \in surfaced \ moved : name[m] \in taint
    /\ NoFuzzyWrite
=============================================================================
