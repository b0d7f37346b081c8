---------------------------- MODULE TurnsProofs ----------------------------
(***************************************************************************)
(* What MCTurns' runs check of the parts of a turn, proved for every value *)
(* of their constants: a part's inductive invariant holds at the start, is *)
(* kept by the part's own steps, and no other part's step touches it.      *)
(***************************************************************************)
EXTENDS MCTurns, SequenceTheorems, FiniteSetTheorems, TLAPS

-----------------------------------------------------------------------------
(* A script's handles.                                                     *)

(* A script begins with nothing surfaced and nothing made.                 *)
LEMMA ScriptInitial == S!Init => S!ScriptInv
BY DEF S!Init, S!ScriptInv, S!NoFuzzyWrite

(* What passes the guard by taint is not among what was surfaced and kept  *)
(* its name (guard_search_taint).                                          *)
LEMMA GuardedIsNamed ==
    ASSUME S!ScriptInv, NEW m, S!GuardSearchTaint(m) PROVE m \notin surfaced \ moved
BY DEF S!ScriptInv, S!GuardSearchTaint, S!HandleName

(* Every operation of the script, its block's end and other blocks' renames *)
(* keep the invariant.                                                     *)
LEMMA ScriptStep == S!ScriptInv /\ S!Next => S!ScriptInv'
<1> SUFFICES ASSUME S!ScriptInv, S!Next PROVE S!ScriptInv'
  OBVIOUS
<1> USE DEF S!ScriptInv, S!NoFuzzyWrite
<1>1. CASE S!Search
  <2>1. PICK query \in Query, found \in SUBSET DOMAIN name \ {{}} :
           LET fuzzy == {m \in found : ~S!QueryNamesHandle(query, name[m])}
           IN /\ taint' = taint \cup {name[m] : m \in fuzzy}
              /\ surfaced' = surfaced \cup fuzzy
              /\ moved' = moved \ fuzzy
    BY <1>1 DEF S!Search
  <2>2. UNCHANGED <<name, made, strays>>
    BY <1>1 DEF S!Search
  <2> QED
    BY <2>1, <2>2
<1>2. CASE S!ResolveExistingHandle \/ S!List
  BY <1>2 DEF S!ResolveExistingHandle, S!List
<1>3. CASE S!Create
  <2>1. UNCHANGED <<name, taint, surfaced, moved, strays>>
        /\ S!Fresh # {} /\ made' = made \cup {CHOOSE k \in S!Fresh : TRUE}
    BY <1>3 DEF S!Create, S!Make
  <2> QED
    BY <2>1 DEF S!Fresh
<1>4. CASE S!Write \/ S!Rename
  <2>1. PICK h \in handles : S!GuardSearchTaint(h.mem) /\ S!Lands({h.mem})
    BY <1>4 DEF S!Write, S!Rename
  <2>2. h.mem \notin surfaced \ moved
    BY <2>1, GuardedIsNamed
  <2>3. UNCHANGED <<name, made, taint, surfaced, moved>>
    BY <1>4 DEF S!Write, S!Rename
  <2> QED
    BY <2>1, <2>2, <2>3 DEF S!Lands
<1>5. CASE S!LinkCreate
  <2>1. PICK h \in handles, n \in ScriptName : \E m \in S!LinkTargets(n) :
           /\ IF m \in S!Fresh THEN S!Make(m, n) ELSE UNCHANGED <<pending, made>>
           /\ S!GuardSearchTaint(h.mem)
           /\ m \notin S!Fresh => S!GuardSearchTaint(m)
           /\ S!Lands({h.mem, m})
    BY <1>5 DEF S!LinkCreate
  <2>2. PICK m \in S!LinkTargets(n) :
           /\ IF m \in S!Fresh THEN S!Make(m, n) ELSE UNCHANGED <<pending, made>>
           /\ S!GuardSearchTaint(h.mem)
           /\ m \notin S!Fresh => S!GuardSearchTaint(m)
           /\ S!Lands({h.mem, m})
    BY <2>1
  <2>3. UNCHANGED <<name, taint, surfaced, moved>>
    BY <1>5 DEF S!LinkCreate
  <2>4. h.mem \notin surfaced \ moved
    BY <2>2, GuardedIsNamed
  <2>5. m \notin surfaced \ moved
    <3>1. CASE m \in S!Fresh
      BY <3>1 DEF S!Fresh
    <3>2. CASE m \notin S!Fresh
      BY <2>2, <3>2, GuardedIsNamed
    <3> QED
      BY <3>1, <3>2
  <2>6. made' \cap DOMAIN name = {}
    BY <2>2 DEF S!Make, S!Fresh
  <2> QED
    BY <2>2, <2>3, <2>4, <2>5, <2>6 DEF S!Lands
<1>6. CASE S!Commit \/ S!Fail
  <2>1. S!NewBlock /\ strays' = strays
    BY <1>6 DEF S!Commit, S!Fail
  <2> QED
    BY <2>1 DEF S!NewBlock
<1>7. CASE S!RenamedElsewhere
  <2>1. PICK m \in DOMAIN name \ locked, n \in ScriptName :
           name' = [name EXCEPT ![m] = n] /\ moved' = moved \cup {m}
    BY <1>7 DEF S!RenamedElsewhere
  <2>2. UNCHANGED <<made, taint, surfaced, strays>>
    BY <1>7 DEF S!RenamedElsewhere
  <2> QED
    BY <2>1, <2>2
<1> QED
  BY <1>1, <1>2, <1>3, <1>4, <1>5, <1>6, <1>7 DEF S!Next

(* No content write or link of a block lands on what its searches surfaced *)
(* without naming it, by whatever handle (guard_search_write and           *)
(* guard_search_taint), whatever the memories, names and queries.          *)
THEOREM WritesAreNamed == TurnsSpec => []NoFuzzyWrite
<1>1. TurnsInit => S!ScriptInv
  BY ScriptInitial DEF TurnsInit
<1>2. S!ScriptInv /\ [TurnsNext]_turns => S!ScriptInv'
  <2>1. S!ScriptInv /\ UNCHANGED scriptVars => S!ScriptInv'
    BY DEF S!ScriptInv, S!NoFuzzyWrite, scriptVars
  <2>2. [TurnsNext]_turns => S!Next \/ UNCHANGED scriptVars
    BY DEF TurnsNext, turns
  <2> QED
    BY <2>1, <2>2, ScriptStep
<1>3. S!ScriptInv => NoFuzzyWrite
  BY DEF S!ScriptInv, NoFuzzyWrite
<1> QED
  BY <1>1, <1>2, <1>3, PTL DEF TurnsSpec, turns

-----------------------------------------------------------------------------
(* Fetches and embeddings.                                                 *)

(* Nothing is asked for, read or cut at the start.                         *)
LEMMA FetchInitial == W!Init => W!FetchInv
BY OutboundAssumption DEF W!Init, W!FetchInv, W!FetchStaysPublic, W!Literal, W!Address, W!NoResult

(* An end of a fetch reaches nothing more.                                 *)
LEMMA FetchEnds ==
    ASSUME W!FetchInv, NEW r, W!Done(r), MaxChars > 0 => r.chars <= MaxChars
    PROVE  W!FetchInv'
BY DEF W!FetchInv, W!FetchStaysPublic, W!Done, W!Literal, W!IsDisallowed, W!Address

(* An error has no characters.                                             *)
LEMMA ErrorsAreShort == \A e : W!Done(W!Error(e)) /\ W!FetchInv => W!FetchInv'
<1>1. \A e : W!Error(e).chars = 0
  BY DEF W!Error, W!NoResult
<1>2. MaxChars \in Nat
  BY OutboundAssumption
<1>3. \A e : MaxChars > 0 => W!Error(e).chars <= MaxChars
  BY <1>1, <1>2
<1> QED
  BY <1>3, FetchEnds

(* A page is as long as was read of it, or as long as the limit.           *)
LEMMA TruncatedIsShort ==
    ASSUME NEW n \in Nat PROVE MaxChars > 0 => W!Truncate(n).chars <= MaxChars
BY OutboundAssumption DEF W!Truncate

(* A redirect or a first url that goes on asks a host that was checked.    *)
LEMMA FetchAsks ==
    ASSUME W!FetchInv, NEW h, ~(W!Literal(h) /\ W!IsDisallowed(h)),
           fetchPc' = "connect", host' = h, UNCHANGED <<reached, bytes, result>>
    PROVE  W!FetchInv'
BY DEF W!FetchInv, W!FetchStaysPublic, W!Literal, W!IsDisallowed, W!Address

(* Every step of a fetch keeps the invariant.                              *)
LEMMA FetchStep == W!FetchInv /\ W!Next => W!FetchInv'
<1> SUFFICES ASSUME W!FetchInv, W!Next PROVE W!FetchInv'
  OBVIOUS
<1>1. ASSUME NEW h \in W!Host, NEW url, W!Fetch(h, url) PROVE W!FetchInv'
  <2>1. \/ \E e : W!Done(W!Error(e))
        \/ /\ ~(W!Literal(h) /\ W!IsDisallowed(h)) /\ fetchPc' = "connect" /\ host' = h
           /\ UNCHANGED <<hops, reached, bytes, result>>
    BY <1>1 DEF W!Fetch
  <2> QED
    BY <2>1, FetchAsks, ErrorsAreShort
<1>2. ASSUME NEW h \in W!Host, W!Redirect(h) PROVE W!FetchInv'
  <2>1. \/ \E e : W!Done(W!Error(e))
        \/ /\ ~(W!Literal(h) /\ W!IsDisallowed(h)) /\ fetchPc' = "connect" /\ host' = h
           /\ UNCHANGED <<reached, bytes, result>>
    BY <1>2 DEF W!Redirect, W!CheckRedirectTarget
  <2> QED
    BY <2>1, FetchAsks, ErrorsAreShort
<1>3. ASSUME NEW addresses \in SUBSET W!Address, W!Connect(addresses) PROVE W!FetchInv'
  <2> DEFINE offered == IF W!Literal(host) THEN {host} ELSE W!Allowed(addresses)
  <2>1. offered \subseteq {x \in W!Address : ~W!IsDisallowed(x)}
    BY <1>3 DEF W!Connect, W!FetchInv, W!Allowed, W!Literal
  <2>2. \/ \E e : W!Done(W!Error(e))
        \/ \E x \in offered : /\ reached' = reached \cup {x} /\ fetchPc' = "headers"
                             /\ UNCHANGED <<host, hops, bytes, result>>
    BY <1>3 DEF W!Connect
  <2> HIDE DEF offered
  <2>3. ASSUME NEW x \in offered, reached' = reached \cup {x}, fetchPc' = "headers",
               UNCHANGED <<host, hops, bytes, result>>
        PROVE  W!FetchInv'
    BY <2>1, <2>3 DEF W!FetchInv, W!FetchStaysPublic, W!IsDisallowed
  <2> QED
    BY <2>2, <2>3, ErrorsAreShort
<1>4. ASSUME NEW status, NEW html, W!Headers(status, html) PROVE W!FetchInv'
  <2>1. \/ \E e : W!Done(W!Error(e))
        \/ fetchPc' = "body" /\ UNCHANGED <<host, hops, reached, bytes, result>>
    BY <1>4 DEF W!Headers
  <2>2. ASSUME fetchPc' = "body", UNCHANGED <<host, hops, reached, bytes, result>>
        PROVE  W!FetchInv'
    BY <2>2 DEF W!FetchInv, W!FetchStaysPublic
  <2> QED
    BY <2>1, <2>2, ErrorsAreShort
<1>5. ASSUME NEW n \in 1..ChunkSize, W!Chunk(n) PROVE W!FetchInv'
  <2>1. \/ \E e : W!Done(W!Error(e))
        \/ /\ ~(bytes + n > MaxBytes) /\ bytes' = bytes + n
           /\ UNCHANGED <<fetchPc, host, hops, reached, result>>
    BY <1>5 DEF W!Chunk
  <2>2. ASSUME ~(bytes + n > MaxBytes), bytes' = bytes + n,
               UNCHANGED <<fetchPc, host, hops, reached, result>>
        PROVE  W!FetchInv'
    <3>1. bytes + n \in Nat /\ bytes + n <= MaxBytes
      BY <2>2, OutboundAssumption DEF W!FetchInv
    <3> QED
      BY <2>2, <3>1 DEF W!FetchInv, W!FetchStaysPublic, W!Literal, W!IsDisallowed
  <2> QED
    BY <2>1, <2>2, ErrorsAreShort
<1>6. ASSUME NEW extracted, W!ToMarkdown(extracted) PROVE W!FetchInv'
  <2>1. (\E e : W!Done(W!Error(e))) \/ W!Done(W!Truncate(bytes))
    BY <1>6 DEF W!ToMarkdown
  <2>2. bytes \in Nat
    BY DEF W!FetchInv
  <2> QED
    BY <2>1, <2>2, FetchEnds, TruncatedIsShort, ErrorsAreShort
<1>7. ASSUME NEW e, W!Breaks(e) PROVE W!FetchInv'
  BY <1>7, ErrorsAreShort DEF W!Breaks
<1> QED
  BY <1>1, <1>2, <1>3, <1>4, <1>5, <1>6, <1>7 DEF W!Next

(* Nothing has been tried at the start.                                    *)
LEMMA EmbedInitial == K!Init => K!EmbedInv
<1> SUFFICES ASSUME K!Init PROVE K!EmbedInv
  OBVIOUS
<1>1. embed.pc = "try" /\ embed.tried = << >> /\ embed.density \in Density
      /\ embed.result = K!NoVector
      /\ embed = [pc |-> embed.pc, density |-> embed.density, tried |-> embed.tried,
                  result |-> embed.result]
  BY DEF K!Init
<1>2. embed \in [pc : {"try", "done"}, density : Nat, tried : Seq(Nat), result : Nat \cup {K!NoVector}]
  <2>1. << >> \in Seq(Nat) /\ embed.density \in Nat
    BY <1>1, OutboundAssumption
  <2> QED
    BY <1>1, <2>1
<1>3. K!EmbedShrinks
  BY <1>1 DEF K!EmbedShrinks
<1> QED
  BY <1>1, <1>2, <1>3 DEF K!EmbedInv

(* What comes next is shorter than the last and not below the floor.       *)
LEMMA NextBudget ==
    ASSUME K!EmbedInv, embed.pc = "try"
    PROVE  /\ K!Budget \in Nat /\ K!Floor \in Nat /\ ContextLength \in Nat
           /\ embed.tried \in Seq(Nat)
           /\ embed.tried # << >> =>
                K!Budget < embed.tried[Len(embed.tried)] /\ K!Budget >= K!Floor
           /\ embed.tried = << >> => K!Budget = (ContextLength * 5) \div 2
<1>1. ContextLength \in Nat /\ K!Floor \in Nat /\ embed.tried \in Seq(Nat)
  BY OutboundAssumption DEF K!EmbedInv, K!Floor
<1>2. CASE embed.tried = << >>
  BY <1>1, <1>2 DEF K!Budget, K!FirstBudget
<1>3. CASE embed.tried # << >>
  <2> DEFINE b == embed.tried[Len(embed.tried)]
  <2>1. b \in Nat /\ b > 0 /\ K!Shrunk(b) >= K!Floor
    BY <1>1, <1>3 DEF K!EmbedInv
  <2>2. K!Budget = K!Shrunk(b)
    BY <1>3 DEF K!Budget, K!Last
  <2> HIDE DEF b
  <2>3. K!Shrunk(b) \in Nat /\ K!Shrunk(b) < b
    BY <2>1 DEF K!Shrunk
  <2> QED
    BY <1>1, <1>3, <2>1, <2>2, <2>3 DEF b
<1> QED
  BY <1>2, <1>3

(* What was tried is lengthened by what comes next.                        *)
LEMMA TriesShrink ==
    ASSUME K!EmbedInv, embed.pc = "try", embed'.tried = Append(embed.tried, K!Budget)
    PROVE  /\ embed'.tried \in Seq(Nat) /\ embed'.tried # << >>
           /\ embed'.tried[Len(embed'.tried)] = K!Budget
           /\ \A i \in DOMAIN embed'.tried : i > 1 =>
                embed'.tried[i] < embed'.tried[i - 1] /\ embed'.tried[i] >= K!Floor
<1> DEFINE s == embed.tried
           t == embed'.tried
           n == Len(s)
<1>1. /\ K!Budget \in Nat /\ s \in Seq(Nat) /\ K!Floor \in Nat
      /\ s # << >> => K!Budget < s[n] /\ K!Budget >= K!Floor
  BY NextBudget
<1>2. t = Append(s, K!Budget)
  OBVIOUS
<1>3. \A i \in DOMAIN s : i > 1 => s[i] < s[i - 1] /\ s[i] >= K!Floor
  BY DEF K!EmbedInv, K!EmbedShrinks
<1> HIDE DEF s, t
<1>4. /\ n \in Nat /\ DOMAIN s = 1..n /\ DOMAIN t = 1..(n + 1) /\ Len(t) = n + 1
      /\ t[n + 1] = K!Budget /\ \A i \in 1..n : t[i] = s[i]
      /\ t \in Seq(Nat)
  BY <1>1, <1>2
<1>5. \A i \in 1..(n + 1) : i > 1 => t[i] < t[i - 1] /\ t[i] >= K!Floor
  <2> SUFFICES ASSUME NEW i \in 1..(n + 1), i > 1
               PROVE  t[i] < t[i - 1] /\ t[i] >= K!Floor
    OBVIOUS
  <2>1. CASE i = n + 1
    <3>1. n > 0 /\ i - 1 = n /\ n \in 1..n
      BY <1>4, <2>1
    <3>2. s # << >> /\ t[n] = s[n]
      BY <1>4, <3>1
    <3> QED
      BY <1>1, <1>4, <2>1, <3>1, <3>2
  <2>2. CASE i \in 1..n
    <3>1. i - 1 \in 1..n
      BY <1>4, <2>2
    <3> QED
      BY <1>3, <1>4, <2>2, <3>1
  <2> QED
    BY <1>4, <2>1, <2>2
<1>6. t \in Seq(Nat) /\ t # << >> /\ t[Len(t)] = K!Budget
  BY <1>4
<1>7. \A i \in DOMAIN t : i > 1 => t[i] < t[i - 1] /\ t[i] >= K!Floor
  BY <1>4, <1>5
<1> QED
  BY ONLY <1>6, <1>7 DEF t

(* Answers and refusals of an embedding keep the invariant.                *)
LEMMA EmbedStep == K!EmbedInv /\ (K!EmbedAnswered \/ K!EmbedRejected) => K!EmbedInv'
<1> SUFFICES ASSUME K!EmbedInv, K!EmbedAnswered \/ K!EmbedRejected PROVE K!EmbedInv'
  OBVIOUS
<1> DEFINE B == K!Budget
           tried == Append(embed.tried, B)
<1>0. embed.pc = "try"
  BY DEF K!EmbedAnswered, K!EmbedRejected
<1>1. B \in Nat /\ K!Floor \in Nat /\ ContextLength \in Nat
  BY <1>0, NextBudget
<1>2. /\ embed = [pc |-> embed.pc, density |-> embed.density, tried |-> embed.tried,
                  result |-> embed.result]
      /\ embed.density \in Nat /\ embed.result \in Nat \cup {K!NoVector}
  BY DEF K!EmbedInv
<1>3. K!Clipped(B) \in Nat
  BY <1>1, OutboundAssumption DEF K!Clipped
<1>4. CASE K!EmbedAnswered
  <2>1. embed' = [embed EXCEPT !.pc = "done", !.tried = tried, !.result = K!Clipped(B)]
    BY <1>4 DEF K!EmbedAnswered
  <2> HIDE DEF B, tried
  <2>2. embed' = [pc |-> "done", density |-> embed.density, tried |-> tried, result |-> K!Clipped(B)]
    BY <1>2, <2>1
  <2>3. embed'.tried = Append(embed.tried, K!Budget)
    BY <2>2 DEF B, tried
  <2>4. /\ embed'.tried \in Seq(Nat) /\ embed'.tried # << >>
        /\ \A i \in DOMAIN embed'.tried : i > 1 =>
             embed'.tried[i] < embed'.tried[i - 1] /\ embed'.tried[i] >= K!Floor
    BY <1>0, <2>3, TriesShrink
  <2>5. embed'.pc = "done" /\ embed'.result # K!NoVector
    BY <1>3, <2>2 DEF K!NoVector
  <2>6. embed' \in [pc : {"try", "done"}, density : Nat, tried : Seq(Nat), result : Nat \cup {K!NoVector}]
    BY <1>2, <1>3, <2>2, <2>4
  <2>7. K!Floor' = K!Floor
    BY DEF K!Floor
  <2> QED
    BY <2>4, <2>5, <2>6, <2>7 DEF K!EmbedInv, K!EmbedShrinks
<1>5. CASE K!EmbedRejected
  <2> DEFINE next == IF K!Shrunk(B) >= K!Floor THEN "try" ELSE "done"
  <2>1. embed' = [embed EXCEPT !.tried = tried, !.pc = next] /\ ~K!Fits(B)
    BY <1>5 DEF K!EmbedRejected
  <2>2. B > 0
    <3>1. K!Clipped(0) = 0
      BY OutboundAssumption DEF K!Clipped
    <3>2. K!Fits(0)
      BY <1>1, <1>2, <3>1 DEF K!Fits
    <3> QED
      BY <1>1, <2>1, <3>2
  <2>3. next = "done" => B * 9 < K!Floor * 10
    BY <1>1 DEF K!Shrunk
  <2>4. next \in {"try", "done"} /\ (next = "try" => K!Shrunk(B) >= K!Floor)
    OBVIOUS
  <2> HIDE DEF B, tried, next
  <2>5. embed' = [pc |-> next, density |-> embed.density, tried |-> tried, result |-> embed.result]
    BY <1>2, <2>1
  <2>6. embed'.tried = Append(embed.tried, K!Budget)
    BY <2>5 DEF B, tried
  <2>7. /\ embed'.tried \in Seq(Nat) /\ embed'.tried # << >>
        /\ embed'.tried[Len(embed'.tried)] = B
        /\ \A i \in DOMAIN embed'.tried : i > 1 =>
             embed'.tried[i] < embed'.tried[i - 1] /\ embed'.tried[i] >= K!Floor
    BY <1>0, <2>6, TriesShrink DEF B
  <2>8. embed' \in [pc : {"try", "done"}, density : Nat, tried : Seq(Nat), result : Nat \cup {K!NoVector}]
    BY <1>2, <2>4, <2>5, <2>7
  <2>9. K!Floor' = K!Floor /\ K!Shrunk(B)' = K!Shrunk(B') /\ embed'.pc = next
    BY <2>5 DEF K!Floor, K!Shrunk
  <2>10. K!EmbedShrinks'
    BY <2>3, <2>7, <2>9 DEF K!EmbedShrinks, K!Last
  <2> QED
    BY <2>2, <2>4, <2>7, <2>8, <2>9, <2>10 DEF K!EmbedInv, K!Shrunk
<1> QED
  BY <1>4, <1>5

(* A fetch connects to public addresses only and holds no more than its    *)
(* limits, whatever redirects and names it follows (HttpFetcher), and an   *)
(* embedding's retries shrink and end (embed_truncated), for every limit.  *)
THEOREM OutboundStaysBounded == TurnsSpec => []OutboundIsBounded
<1> DEFINE Inv == W!FetchInv /\ K!EmbedInv
<1>1. TurnsInit => Inv
  BY FetchInitial, EmbedInitial DEF TurnsInit
<1>2. Inv /\ [TurnsNext]_turns => Inv'
  <2>1. W!FetchInv /\ UNCHANGED fetchVars => W!FetchInv'
    BY DEF fetchVars, W!FetchInv, W!FetchStaysPublic, W!Literal, W!IsDisallowed, W!Address
  <2>2. K!EmbedInv /\ UNCHANGED embed => K!EmbedInv'
    BY DEF K!EmbedInv, K!EmbedShrinks, K!Floor, K!Shrunk, K!Last
  <2>3. [TurnsNext]_turns => W!Next \/ UNCHANGED fetchVars
    BY DEF TurnsNext, turns
  <2>4. [TurnsNext]_turns => K!EmbedAnswered \/ K!EmbedRejected \/ UNCHANGED embed
    BY DEF TurnsNext, turns, backendVars, K!Next, K!Opens, K!Refused, K!StreamErrors, K!Chunk, K!Closes
  <2> QED
    BY <2>1, <2>2, <2>3, <2>4, FetchStep, EmbedStep
<1>3. Inv => OutboundIsBounded
  BY DEF W!FetchInv, K!EmbedInv, OutboundIsBounded
<1> QED
  BY <1>1, <1>2, <1>3, PTL DEF TurnsSpec, turns

-----------------------------------------------------------------------------
(* Transcripts.                                                            *)

(* A sequence over any set is one over what it holds.                      *)
LEMMA SeqOfItsOwn == ASSUME NEW Item, NEW s \in Seq(Item) PROVE A!IsSeq(s)
BY DEF A!IsSeq

(* A sequence lengthened by one.                                           *)
LEMMA LongerByOne ==
    ASSUME NEW s, A!IsSeq(s), NEW x
    PROVE  /\ A!IsSeq(Append(s, x)) /\ Len(s) \in Nat /\ Len(Append(s, x)) = Len(s) + 1
           /\ DOMAIN s = 1..Len(s) /\ DOMAIN Append(s, x) = 1..(Len(s) + 1)
           /\ Append(s, x)[Len(s) + 1] = x
           /\ \A i \in 1..Len(s) : Append(s, x)[i] = s[i]
<1> DEFINE U == {s[i] : i \in DOMAIN s} \cup {x}
           t == Append(s, x)
<1>1. s \in Seq(U) /\ x \in U
  BY DEF A!IsSeq
<1> HIDE DEF U
<1>2. t \in Seq(U)
  BY <1>1
<1>3. A!IsSeq(t)
  BY <1>2, SeqOfItsOwn
<1> QED
  BY <1>1, <1>3

(* One session at most is open in a room.                                  *)
LEMMA OneOpen ==
    ASSUME NEW r, NEW k \in Nat, NEW i \in A!Open(r, k), NEW j \in A!Open(r, k) PROVE i = j
<1>1. i \in 1..k /\ j \in 1..k /\ A!Starts(i, r) /\ A!Starts(j, r)
  BY DEF A!Open
<1>2. ~(i < j) /\ ~(j < i)
  <2>1. \A x \in (i + 1)..k : ~A!Starts(x, r)
    BY DEF A!Open
  <2>2. \A x \in (j + 1)..k : ~A!Starts(x, r)
    BY DEF A!Open
  <2> QED
    BY <1>1, <2>1, <2>2
<1> QED
  BY <1>1, <1>2

(* What the log told of its earlier positions it tells when it has grown.  *)
LEMMA EarlierStays ==
    ASSUME NEW n \in Nat, \A j \in 1..n : roomLog'[j] = roomLog[j], NEW r, NEW k \in 0..n
    PROVE  A!Open(r, k)' = A!Open(r, k) /\ A!Audience(r, k)' = A!Audience(r, k)
<1>1. \A j \in 1..k : roomLog'[j] = roomLog[j]
  OBVIOUS
<1>2. \A i \in 1..k : \A j \in (i + 1)..k : j \in 1..k
  OBVIOUS
<1>3. ASSUME NEW i \in 1..k
      PROVE  /\ A!Starts(i, r)' = A!Starts(i, r) /\ A!Ended(i, r, k)' = A!Ended(i, r, k)
             /\ A!Joined(i, r, k)' = A!Joined(i, r, k) /\ roomLog'[i].people = roomLog[i].people
  <2>1. A!Starts(i, r)' = A!Starts(i, r) /\ roomLog'[i].people = roomLog[i].people
    BY <1>1 DEF A!Starts
  <2>2. A!Ended(i, r, k)' = A!Ended(i, r, k)
    BY <1>1, <1>2 DEF A!Ended
  <2>3. A!Joined(i, r, k)' = A!Joined(i, r, k)
    BY <1>1, <1>2 DEF A!Joined
  <2> QED
    BY <2>1, <2>2, <2>3
<1>4. \A i \in 1..k : \A j \in (i + 1)..k : A!Starts(j, r)' = A!Starts(j, r)
  BY <1>2, <1>3
<1>5. A!Open(r, k)' = A!Open(r, k)
  BY <1>3, <1>4 DEF A!Open
<1>6. A!Open(r, k) \subseteq 1..k
  BY DEF A!Open
<1> QED
  BY <1>3, <1>5, <1>6 DEF A!Audience

(* The session open after one event more.                                  *)
LEMMA OpenNext ==
    ASSUME NEW n \in Nat, \A j \in 1..n : roomLog'[j] = roomLog[j], NEW e, roomLog'[n + 1] = e, NEW r
    PROVE  /\ e.type = "started" /\ e.room = r => A!Open(r, n + 1)' = {n + 1}
           /\ ~(e.type = "started" /\ e.room = r) =>
                \A i : (i \in A!Open(r, n + 1)') <=>
                         /\ i \in A!Open(r, n)
                         /\ ~(e.type = "ended" /\ e.room = r /\ e.session = roomLog[i].session)
<1> DEFINE starts == e.type = "started" /\ e.room = r
           ends(i) == e.type = "ended" /\ e.room = r /\ e.session = roomLog[i].session
<1>1. A!Starts(n + 1, r)' = starts
  BY DEF A!Starts
<1>2. ~A!Ended(n + 1, r, n + 1)' /\ \A j \in (n + 2)..(n + 1) : FALSE
  BY DEF A!Ended
<1>3. \A i \in 1..(n + 1) : i \in 1..n \/ i = n + 1
  OBVIOUS
<1>4. \A i \in 1..n : \A j \in (i + 1)..(n + 1) : (j \in (i + 1)..n /\ j \in 1..n) \/ j = n + 1
  OBVIOUS
<1>5. \A i \in 1..n : n + 1 \in (i + 1)..(n + 1) /\ \A j \in (i + 1)..n : j \in (i + 1)..(n + 1) /\ j \in 1..n
  OBVIOUS
<1>6. \A i \in 1..n : A!Starts(i, r)' = A!Starts(i, r)
  BY DEF A!Starts
<1>7. ASSUME NEW i \in 1..n
      PROVE  A!Ended(i, r, n + 1)' <=> (A!Ended(i, r, n) \/ ends(i))
  BY <1>4, <1>5 DEF A!Ended
<1> HIDE DEF starts, ends
<1>8. ASSUME NEW i \in 1..n
      PROVE  (i \in A!Open(r, n + 1)') <=> (i \in A!Open(r, n) /\ ~starts /\ ~ends(i))
  <2>1. (i \in A!Open(r, n + 1)') <=> /\ A!Starts(i, r)'
                                      /\ \A j \in (i + 1)..(n + 1) : ~A!Starts(j, r)'
                                      /\ ~A!Ended(i, r, n + 1)'
    BY DEF A!Open
  <2>2. (i \in A!Open(r, n)) <=> /\ A!Starts(i, r)
                                 /\ \A j \in (i + 1)..n : ~A!Starts(j, r)
                                 /\ ~A!Ended(i, r, n)
    BY DEF A!Open
  <2>3. (\A j \in (i + 1)..(n + 1) : ~A!Starts(j, r)')
           <=> ((\A j \in (i + 1)..n : ~A!Starts(j, r)) /\ ~starts)
    BY <1>1, <1>4, <1>5, <1>6
  <2> QED
    BY <1>6, <1>7, <2>1, <2>2, <2>3
<1>9. (n + 1 \in A!Open(r, n + 1)') <=> starts
  BY <1>1, <1>2 DEF A!Open
<1>10. A!Open(r, n + 1)' \subseteq 1..(n + 1) /\ A!Open(r, n) \subseteq 1..n
  BY DEF A!Open
<1>11. CASE starts
  BY <1>3, <1>8, <1>9, <1>10, <1>11 DEF starts
<1>12. CASE ~starts
  <2>1. A!Open(r, n + 1)' = {i \in A!Open(r, n) : ~ends(i)}
    BY <1>3, <1>8, <1>9, <1>10, <1>12
  <2> QED
    BY <2>1, <1>12 DEF starts, ends
<1> QED
  BY <1>11, <1>12

(* Who joined a session, after one event more.                             *)
LEMMA JoinedNext ==
    ASSUME NEW n \in Nat, \A j \in 1..n : roomLog'[j] = roomLog[j], NEW e, roomLog'[n + 1] = e,
           NEW r, NEW i \in 1..n
    PROVE  /\ A!Joined(i, r, n + 1)' = A!Joined(i, r, n) \cup
                 {e.person : x \in IF e.type = "joined" /\ e.room = r /\ e.session = roomLog[i].session
                                   THEN {n + 1} ELSE {}}
           /\ A!Joined(n + 1, r, n + 1)' = {}
<1> DEFINE joined(x) == roomLog'[x].type = "joined" /\ roomLog'[x].room = r
                      /\ roomLog'[x].session = roomLog'[i].session
           was(x) == roomLog[x].type = "joined" /\ roomLog[x].room = r
                      /\ roomLog[x].session = roomLog[i].session
           joins == e.type = "joined" /\ e.room = r /\ e.session = roomLog[i].session
<1>1. A!Joined(i, r, n + 1)' = {roomLog'[x].person : x \in {x \in (i + 1)..(n + 1) : joined(x)}}
  BY DEF A!Joined
<1>2. A!Joined(i, r, n) = {roomLog[x].person : x \in {x \in (i + 1)..n : was(x)}}
  BY DEF A!Joined
<1>3. \A x \in (i + 1)..n : (joined(x) <=> was(x)) /\ roomLog'[x].person = roomLog[x].person
  OBVIOUS
<1>4. (joined(n + 1) <=> joins) /\ roomLog'[n + 1].person = e.person
  OBVIOUS
<1>5. \A x : (x \in (i + 1)..(n + 1)) <=> (x \in (i + 1)..n \/ x = n + 1)
  OBVIOUS
<1> HIDE DEF joined, was, joins
<1>6. ASSUME NEW p
      PROVE  (p \in A!Joined(i, r, n + 1)') <=> (p \in A!Joined(i, r, n) \/ (joins /\ p = e.person))
  BY <1>1, <1>2, <1>3, <1>4, <1>5
<1>7. A!Joined(n + 1, r, n + 1)' = {}
  BY DEF A!Joined
<1>8. A!Joined(i, r, n + 1)' = A!Joined(i, r, n) \cup {e.person : x \in IF joins THEN {n + 1} ELSE {}}
  BY <1>6
<1> QED
  BY <1>7, <1>8 DEF joins

(* The audience after one event more.                                      *)
LEMMA AudienceNext ==
    ASSUME NEW n \in Nat, \A j \in 1..n : roomLog'[j] = roomLog[j], NEW e, roomLog'[n + 1] = e, NEW r
    PROVE  /\ e.room # r \/ e.type = "turn" => A!Audience(r, n + 1)' = A!Audience(r, n)
           /\ e.room = r /\ e.type = "started" => A!Audience(r, n + 1)' = e.people
           /\ e.room = r /\ e.type = "joined" /\ e.session \in A!Session(r, n) =>
                A!Audience(r, n + 1)' = A!Audience(r, n) \cup {e.person}
           /\ e.room = r /\ e.type = "ended" /\ e.session \in A!Session(r, n) =>
                A!Audience(r, n + 1)' = {}
<1> DEFINE open == A!Open(r, n)
           next == A!Open(r, n + 1)'
<1>1. open \subseteq 1..n
  BY DEF A!Open
<1>2. /\ e.type = "started" /\ e.room = r => next = {n + 1}
      /\ ~(e.type = "started" /\ e.room = r) =>
           \A i : (i \in next) <=>
                    /\ i \in open
                    /\ ~(e.type = "ended" /\ e.room = r /\ e.session = roomLog[i].session)
  BY OpenNext
<1>3. A!Audience(r, n + 1)' = UNION {roomLog'[i].people \cup A!Joined(i, r, n + 1)' : i \in next}
  BY DEF A!Audience
<1>4. A!Audience(r, n) = UNION {roomLog[i].people \cup A!Joined(i, r, n) : i \in open}
  BY DEF A!Audience
<1>5. A!Session(r, n) = {roomLog[i].session : i \in open}
  BY DEF A!Session
<1>6. \A i \in open : roomLog'[i].people = roomLog[i].people
  BY <1>1
<1>7. \A i, j \in open : i = j
  BY OneOpen
<1>8. ASSUME NEW i \in open
      PROVE  A!Joined(i, r, n + 1)' = A!Joined(i, r, n) \cup
                {e.person : x \in IF e.type = "joined" /\ e.room = r /\ e.session = roomLog[i].session
                                  THEN {n + 1} ELSE {}}
  <2>1. i \in 1..n
    BY <1>1, <1>8
  <2> HIDE DEF open, next
  <2> QED
    BY <2>1, JoinedNext
<1> HIDE DEF open, next
<1>9. CASE e.room # r \/ e.type = "turn"
  <2>1. next = open
    BY <1>2, <1>9
  <2>2. \A i \in open : A!Joined(i, r, n + 1)' = A!Joined(i, r, n)
    BY <1>8, <1>9
  <2> QED
    BY <1>3, <1>4, <1>6, <1>9, <2>1, <2>2
<1>10. CASE e.room = r /\ e.type = "started"
  <2>1. next = {n + 1}
    BY <1>2, <1>10
  <2>2. A!Joined(n + 1, r, n + 1)' = {}
    BY DEF A!Joined
  <2>3. A!Audience(r, n + 1)' = e.people
    BY <1>3, <2>1, <2>2
  <2> QED
    BY <1>10, <2>3
<1>11. CASE e.room = r /\ e.type = "joined"
  <2> SUFFICES ASSUME e.session \in A!Session(r, n)
               PROVE  A!Audience(r, n + 1)' = A!Audience(r, n) \cup {e.person}
    BY <1>11
  <2>1. next = open
    BY <1>2, <1>11
  <2>2. PICK i \in open : e.session = roomLog[i].session
    BY <1>5
  <2>3. open = {i}
    BY <1>7
  <2>4. A!Joined(i, r, n + 1)' = A!Joined(i, r, n) \cup {e.person}
    BY <1>8, <1>11, <2>2
  <2> QED
    BY <1>3, <1>4, <1>6, <2>1, <2>3, <2>4
<1>12. CASE e.room = r /\ e.type = "ended"
  <2> SUFFICES ASSUME e.session \in A!Session(r, n) PROVE A!Audience(r, n + 1)' = {}
    BY <1>12
  <2>1. PICK i \in open : e.session = roomLog[i].session
    BY <1>5
  <2>2. open = {i}
    BY <1>7
  <2>3. next = {}
    BY <1>2, <1>12, <2>1, <2>2
  <2> QED
    BY <1>3, <2>3
<1> QED
  BY <1>9, <1>10, <1>11, <1>12

(* No room has an audience at the start.                                   *)
LEMMA RoomInitial == A!Init => A!RoomInv
<1> SUFFICES ASSUME A!Init PROVE A!RoomInv
  OBVIOUS
<1>1. /\ roomLog = << >> /\ heard = << >> /\ inRoom = [r \in Room |-> {}]
      /\ shown = [turns |-> {}, present |-> {}, class |-> class]
  BY DEF A!Init
<1>2. A!IsSeq(roomLog) /\ A!IsSeq(heard) /\ Len(roomLog) = 0 /\ Len(heard) = 0
      /\ DOMAIN roomLog = {}
  BY <1>1 DEF A!IsSeq
<1>3. \A r \in Room : A!Audience(r, 0) = {}
  BY DEF A!Audience, A!Open
<1> QED
  BY <1>1, <1>2, <1>3 DEF A!RoomInv, A!RoomTypes, A!AudienceKept

(* A recorded event leaves the log telling who was there.                  *)
LEMMA RoomRecords ==
    ASSUME A!RoomInv, NEW e, e.room \in Room, A!Records(e), DOMAIN inRoom' = Room,
           \A r \in Room : r # e.room => inRoom'[r] = inRoom[r],
           shown' = shown,
           \/ e.type = "started" /\ inRoom'[e.room] = e.people
           \/ /\ e.type = "joined" /\ e.session \in A!Session(e.room, Len(roomLog))
              /\ inRoom'[e.room] = inRoom[e.room] \cup {e.person}
           \/ /\ e.type = "ended" /\ e.session \in A!Session(e.room, Len(roomLog))
              /\ inRoom'[e.room] = {}
           \/ e.type = "turn" /\ inRoom'[e.room] = inRoom[e.room]
    PROVE  A!RoomInv'
<1>1. A!IsSeq(roomLog) /\ A!IsSeq(heard) /\ Len(heard) = Len(roomLog)
  BY DEF A!RoomInv, A!RoomTypes
<1>2. roomLog' = Append(roomLog, e) /\ heard' = Append(heard, inRoom'[e.room])
  BY DEF A!Records
<1>3. Len(roomLog) \in Nat
  BY <1>1, LongerByOne
<1> PICK n \in Nat : n = Len(roomLog)
  BY <1>3
<1>4. /\ A!IsSeq(roomLog') /\ Len(roomLog') = n + 1 /\ DOMAIN roomLog = 1..n
      /\ DOMAIN roomLog' = 1..(n + 1) /\ roomLog'[n + 1] = e
      /\ \A j \in 1..n : roomLog'[j] = roomLog[j]
  BY <1>1, <1>2, LongerByOne
<1>5. /\ A!IsSeq(heard') /\ Len(heard') = n + 1 /\ heard'[n + 1] = inRoom'[e.room]
      /\ \A j \in 1..n : heard'[j] = heard[j]
  <2>1. Len(heard) = n
    BY <1>1
  <2> DEFINE x == inRoom'[e.room]
  <2>2. heard' = Append(heard, x)
    BY <1>2
  <2> HIDE DEF x
  <2>3. /\ A!IsSeq(heard') /\ Len(heard') = Len(heard) + 1 /\ heard'[Len(heard) + 1] = x
        /\ \A j \in 1..Len(heard) : heard'[j] = heard[j]
    BY <1>1, <2>2, LongerByOne
  <2> QED
    BY <2>1, <2>3 DEF x
<1>6. \A r \in Room : inRoom[r] = A!Audience(r, n)
  BY DEF A!RoomInv
<1>7. ASSUME NEW r \in Room PROVE inRoom'[r] = A!Audience(r, n + 1)'
  <2>1. /\ e.room # r \/ e.type = "turn" => A!Audience(r, n + 1)' = A!Audience(r, n)
        /\ e.room = r /\ e.type = "started" => A!Audience(r, n + 1)' = e.people
        /\ e.room = r /\ e.type = "joined" /\ e.session \in A!Session(r, n) =>
             A!Audience(r, n + 1)' = A!Audience(r, n) \cup {e.person}
        /\ e.room = r /\ e.type = "ended" /\ e.session \in A!Session(r, n) =>
             A!Audience(r, n + 1)' = {}
    <3>1. n \in Nat /\ (\A j \in 1..n : roomLog'[j] = roomLog[j]) /\ roomLog'[n + 1] = e
      BY <1>4
    <3> QED
      BY ONLY <3>1, AudienceNext
  <2>2. CASE e.room # r
    BY <1>6, <2>1, <2>2
  <2>3. CASE e.room = r
    BY <1>6, <2>1, <2>3
  <2> QED
    BY <2>2, <2>3
<1>8. \A k \in DOMAIN roomLog' : heard'[k] = A!Audience(roomLog[k].room, k)'
  <2> SUFFICES ASSUME NEW k \in 1..(n + 1) PROVE heard'[k] = A!Audience(roomLog[k].room, k)'
    BY <1>4
  <2>1. CASE k \in 1..n
    <3>1. heard[k] = A!Audience(roomLog[k].room, k)
      BY <1>4, <2>1 DEF A!RoomInv
    <3>2. A!Audience(roomLog[k].room, k) = A!Audience(roomLog[k].room, k)'
      <4> PICK r : r = roomLog[k].room
        OBVIOUS
      <4>1. A!Audience(r, k)' = A!Audience(r, k)
        BY <1>4, <2>1, EarlierStays
      <4>2. roomLog'[k].room = r
        BY <1>4, <2>1
      <4> QED
        BY <4>1, <4>2
    <3> QED
      BY <1>5, <2>1, <3>1, <3>2
  <2>2. CASE k = n + 1
    BY <1>4, <1>5, <1>7, <2>2
  <2> QED
    BY <2>1, <2>2
<1>9. A!RoomTypes'
  <2>1. /\ \A k \in 1..n : roomLog[k].room \in Room
        /\ shown = [turns |-> shown.turns, present |-> shown.present, class |-> shown.class]
        /\ shown.turns \subseteq 1..n
    BY <1>4 DEF A!RoomInv, A!RoomTypes
  <2>2. \A k \in 1..(n + 1) : roomLog'[k].room \in Room
    BY <1>4, <2>1
  <2> QED
    BY <1>4, <1>5, <2>1, <2>2 DEF A!RoomTypes, A!IsSeq
<1>10. A!AudienceKept'
  <2>1. shown.turns \subseteq 1..n
    BY <1>4 DEF A!RoomInv, A!RoomTypes
  <2>2. A!AudienceKept
    BY DEF A!RoomInv
  <2> QED
    BY <1>5, <2>1, <2>2 DEF A!AudienceKept
<1>11. \A r \in Room : inRoom'[r] = A!Audience(r, Len(roomLog))'
  BY <1>4, <1>7
<1> QED
  BY <1>8, <1>9, <1>10, <1>11 DEF A!RoomInv

(* A window is of turns at which everyone present was, by class.           *)
LEMMA WindowIsHeard ==
    ASSUME A!RoomInv, NEW present, NEW focus, A!ResolveTurn(present, focus) PROVE A!RoomInv'
<1>1. PICK those : /\ A!Show(those, present)
                   /\ those \subseteq {k \in DOMAIN roomLog : A!AudienceAdmits(present, k)}
  <2>1. CASE focus \in A!AudienceTurns /\ A!AudienceAdmits(present, focus)
    <3>1. A!Show(A!Window(focus, present), present)
      BY <2>1 DEF A!ResolveTurn
    <3>2. A!Window(focus, present) \subseteq {k \in DOMAIN roomLog : A!AudienceAdmits(present, k)}
      BY DEF A!Window, A!Around, A!SessionTurns, A!AudienceTurns
    <3> QED
      BY <3>1, <3>2
  <2>2. CASE ~(focus \in A!AudienceTurns /\ A!AudienceAdmits(present, focus))
    <3>1. A!Show({}, present)
      BY <2>2 DEF A!ResolveTurn
    <3> QED
      BY <3>1
  <2> QED
    BY <2>1, <2>2
<1>2. UNCHANGED <<roomLog, sessions, class, inRoom, heard>>
  BY DEF A!ResolveTurn
<1>3. shown' = [turns |-> those, present |-> present, class |-> class]
  BY <1>1 DEF A!Show
<1>4. ASSUME NEW k \in those, NEW p \in present PROVE \E q \in heard[k] : class[q] = class[p]
  <2>1. k \in DOMAIN roomLog /\ A!AudienceAdmits(present, k)
    BY <1>1
  <2>2. heard[k] = A!Audience(roomLog[k].room, k)
    BY <2>1 DEF A!RoomInv
  <2> QED
    BY <2>1, <2>2 DEF A!AudienceAdmits
<1>5. shown'.turns = those /\ shown'.present = present /\ shown'.class = class
  BY <1>3
<1>6. A!AudienceKept'
  BY <1>2, <1>4, <1>5 DEF A!AudienceKept
<1>7. A!RoomTypes'
  BY <1>1, <1>2, <1>3, <1>5 DEF A!RoomInv, A!RoomTypes, A!IsSeq
<1>8. (\A k \in DOMAIN roomLog : heard[k] = A!Audience(roomLog[k].room, k))'
  BY <1>2 DEF A!RoomInv, A!Audience, A!Open, A!Starts, A!Ended, A!Joined
<1>9. (\A r \in Room : inRoom[r] = A!Audience(r, Len(roomLog)))'
  BY <1>2 DEF A!RoomInv, A!Audience, A!Open, A!Starts, A!Ended, A!Joined
<1> QED
  BY <1>6, <1>7, <1>8, <1>9 DEF A!RoomInv

(* What changes neither the log nor what was shown changes nothing of it.  *)
LEMMA RoomStill ==
    ASSUME A!RoomInv, UNCHANGED <<roomLog, inRoom, heard, shown>> PROVE A!RoomInv'
<1>1. A!RoomTypes'
  BY DEF A!RoomInv, A!RoomTypes, A!IsSeq
<1>2. A!AudienceKept'
  BY DEF A!RoomInv, A!AudienceKept
<1>3. (\A k \in DOMAIN roomLog : heard[k] = A!Audience(roomLog[k].room, k))'
  BY DEF A!RoomInv, A!Audience, A!Open, A!Starts, A!Ended, A!Joined
<1>4. (\A r \in Room : inRoom[r] = A!Audience(r, Len(roomLog)))'
  BY DEF A!RoomInv, A!Audience, A!Open, A!Starts, A!Ended, A!Joined
<1> QED
  BY <1>1, <1>2, <1>3, <1>4 DEF A!RoomInv

(* Every step of a room keeps the invariant.                               *)
LEMMA RoomStep == A!RoomInv /\ A!Next => A!RoomInv'
<1> SUFFICES ASSUME A!RoomInv, A!Next PROVE A!RoomInv'
  OBVIOUS
<1>0. DOMAIN inRoom = Room
  BY DEF A!RoomInv, A!RoomTypes
<1>1. ASSUME NEW r \in Room, NEW people \in A!People, A!Start(r, people) PROVE A!RoomInv'
  <2> DEFINE e == [type |-> "started", room |-> r, session |-> sessions + 1, people |-> people]
  <2>1. /\ e.room = r /\ e.type = "started" /\ e.people = people
        /\ A!Records(e) /\ shown' = shown /\ inRoom' = [inRoom EXCEPT ![r] = people]
    BY <1>1 DEF A!Start
  <2> HIDE DEF e
  <2>2. DOMAIN inRoom' = Room /\ inRoom'[r] = people /\ \A x \in Room : x # r => inRoom'[x] = inRoom[x]
    BY <1>0, <2>1
  <2> QED
    BY <2>1, <2>2, RoomRecords
<1>2. ASSUME NEW r \in Room, NEW p \in Person, A!Join(r, p) PROVE A!RoomInv'
  <2>1. PICK s \in A!Current(r) :
           A!Records([type |-> "joined", room |-> r, session |-> s, person |-> p])
    BY <1>2 DEF A!Join
  <2> DEFINE e == [type |-> "joined", room |-> r, session |-> s, person |-> p]
  <2>2. /\ e.room = r /\ e.type = "joined" /\ e.session = s /\ e.person = p /\ A!Records(e)
        /\ shown' = shown /\ inRoom' = [inRoom EXCEPT ![r] = @ \cup {p}]
    BY <1>2, <2>1 DEF A!Join
  <2> HIDE DEF e
  <2>3. /\ DOMAIN inRoom' = Room /\ inRoom'[r] = inRoom[r] \cup {p}
        /\ \A x \in Room : x # r => inRoom'[x] = inRoom[x]
    BY <1>0, <2>2
  <2>4. s \in A!Session(r, Len(roomLog))
    BY DEF A!Current
  <2> QED
    BY <2>2, <2>3, <2>4, RoomRecords
<1>3. ASSUME NEW r \in Room, A!End(r) PROVE A!RoomInv'
  <2>1. PICK s \in A!Current(r) : A!Records([type |-> "ended", room |-> r, session |-> s])
    BY <1>3 DEF A!End
  <2> DEFINE e == [type |-> "ended", room |-> r, session |-> s]
  <2>2. /\ e.room = r /\ e.type = "ended" /\ e.session = s /\ A!Records(e)
        /\ shown' = shown /\ inRoom' = [inRoom EXCEPT ![r] = {}]
    BY <1>3, <2>1 DEF A!End
  <2> HIDE DEF e
  <2>3. /\ DOMAIN inRoom' = Room /\ inRoom'[r] = {}
        /\ \A x \in Room : x # r => inRoom'[x] = inRoom[x]
    BY <1>0, <2>2
  <2>4. s \in A!Session(r, Len(roomLog))
    BY DEF A!Current
  <2> QED
    BY <2>2, <2>3, <2>4, RoomRecords
<1>4. ASSUME NEW r \in Room, A!Speak(r) PROVE A!RoomInv'
  <2> DEFINE e == [type |-> "turn", room |-> r]
  <2>1. e.room = r /\ e.type = "turn" /\ A!Records(e) /\ shown' = shown /\ inRoom' = inRoom
    BY <1>4 DEF A!Speak
  <2> HIDE DEF e
  <2> QED
    BY <1>0, <2>1, RoomRecords
<1>5. ASSUME NEW p, NEW q, A!Merge(p, q) \/ A!Unmerge(p) PROVE A!RoomInv'
  <2>1. UNCHANGED <<roomLog, inRoom, heard, shown>>
    BY <1>5 DEF A!Merge, A!Unmerge
  <2> QED
    BY <2>1, RoomStill
<1>6. ASSUME NEW present, NEW focus, A!ResolveTurn(present, focus) PROVE A!RoomInv'
  BY <1>6, WindowIsHeard
<1> QED
  BY <1>1, <1>2, <1>3, <1>4, <1>5, <1>6 DEF A!Next

(* A transcript window shows nobody what was said where they were not, by  *)
(* the classes of the moment it is shown (resolve_turn, audience_admits,   *)
(* audience_turns), for any rooms, people, merges and reach of the window. *)
THEOREM TranscriptsStayInTheRoom == TurnsSpec => []AudienceKept
<1>1. TurnsInit => A!RoomInv
  BY RoomInitial DEF TurnsInit
<1>2. A!RoomInv /\ [TurnsNext]_turns => A!RoomInv'
  <2>1. A!RoomInv /\ UNCHANGED roomVars => A!RoomInv'
    BY RoomStill DEF roomVars
  <2>2. [TurnsNext]_turns => A!Next \/ UNCHANGED roomVars
    BY DEF TurnsNext, turns
  <2> QED
    BY <2>1, <2>2, RoomStep
<1>3. A!RoomInv => AudienceKept
  BY DEF A!RoomInv, AudienceKept
<1> QED
  BY <1>1, <1>2, <1>3, PTL DEF TurnsSpec, turns
=============================================================================
