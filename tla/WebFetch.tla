----------------------------- MODULE WebFetch -----------------------------
(***************************************************************************)
(* web.markdown: a page fetched over http, through redirects, from public  *)
(* addresses only, its body read up to a limit and turned into markdown.   *)
(* A host is a literal address or a name; a name resolves to a set of      *)
(* addresses, and to another one the next time it is asked.                *)
(***************************************************************************)
EXTENDS Naturals, FiniteSets, Sequences

CONSTANTS
  Names,         \* host names
  AllowPrivate,  \* allow_private_addresses
  MaxRedirects, MaxBytes, MaxChars, ChunkSize   \* limits of the fetcher

VARIABLES
  pc,        \* "idle" | "connect" | "headers" | "body" | "done"
  host,      \* the host being asked
  hops,      \* redirects followed
  reached,   \* addresses connected to
  bytes,     \* read of the body
  result     \* a WebError, or the markdown's length and whether it was cut

vars == <<pc, host, hops, reached, bytes, result>>

Address == {"public", "private"}
Host == Address \cup Names
Literal(h) == h \in Address
NoResult == [ok |-> FALSE, error |-> "none", chars |-> 0, cut |-> FALSE]
Error(e) == [NoResult EXCEPT !.error = e]

Init ==
  /\ pc = "idle" /\ host = "public" /\ hops = 0 /\ reached = {} /\ bytes = 0
  /\ result = NoResult

Done(r) ==
  /\ pc' = "done" /\ result' = r
  /\ UNCHANGED <<host, hops, reached, bytes>>

IsDisallowed(address) == ~AllowPrivate /\ address = "private"

\* The url parses, its scheme is http or https, and a literal host is public.
Fetch(h, url) ==
  /\ pc = "idle"
  /\ IF url # "http" THEN Done(Error(url))
     ELSE IF Literal(h) /\ IsDisallowed(h) THEN Done(Error("blocked"))
     ELSE /\ pc' = "connect" /\ host' = h
          /\ UNCHANGED <<hops, reached, bytes, result>>

\* The bug of checking urls alone.
TrustsResolver(addresses) == addresses

\* SsrfResolver: only the allowed addresses are offered to the connection.
Allowed(addresses) == {a \in addresses : ~IsDisallowed(a)}

Connect(addresses) ==
  /\ pc = "connect"
  /\ LET offered == IF Literal(host) THEN {host} ELSE Allowed(addresses)
     IN  IF offered = {} THEN Done(Error("blocked"))
         ELSE \E a \in offered :
                /\ reached' = reached \cup {a}
                /\ pc' = "headers"
                /\ UNCHANGED <<host, hops, bytes, result>>

\* The redirect policy: the limit first, then a literal target.
CheckRedirectTarget(h) == ~(Literal(h) /\ IsDisallowed(h))

Redirect(h) ==
  /\ pc = "headers"
  /\ IF hops >= MaxRedirects \/ ~CheckRedirectTarget(h) THEN Done(Error("blocked"))
     ELSE /\ pc' = "connect" /\ host' = h /\ hops' = hops + 1
          /\ UNCHANGED <<reached, bytes, result>>

\* The answer: its status, then its content type; the body only of an HTML page.
Headers(status, html) ==
  /\ pc = "headers"
  /\ IF status # "success" THEN Done(Error("status"))
     ELSE IF ~html THEN Done(Error("not html"))
     ELSE pc' = "body" /\ UNCHANGED <<host, hops, reached, bytes, result>>

\* A chunk: the limit is checked before it is kept, whatever length was announced.
Chunk(n) ==
  /\ pc = "body" /\ n > 0
  /\ IF bytes + n > MaxBytes THEN Done(Error("too large"))
     ELSE bytes' = bytes + n /\ UNCHANGED <<pc, host, hops, reached, result>>

\* to_markdown: a page longer than the limit is cut, with a marker; 0 is no limit.
Truncate(chars) ==
  IF MaxChars = 0 \/ chars <= MaxChars THEN [ok |-> TRUE, error |-> "none", chars |-> chars, cut |-> FALSE]
  ELSE [ok |-> TRUE, error |-> "none", chars |-> MaxChars, cut |-> TRUE]

ToMarkdown(extracted) ==
  /\ pc = "body"
  /\ Done(IF extracted THEN Truncate(bytes) ELSE Error("extraction"))

\* A timeout or a broken connection, wherever the request stands.
Breaks(e) ==
  /\ pc \in {"connect", "headers", "body"}
  /\ Done(Error(e))

Next ==
  \/ \E h \in Host : Redirect(h) \/ \E url \in {"http", "invalid", "scheme"} : Fetch(h, url)
  \/ \E addresses \in SUBSET Address : Connect(addresses)
  \/ \E status \in {"success", "failure"}, html \in BOOLEAN : Headers(status, html)
  \/ \E n \in 1 .. ChunkSize : Chunk(n)
  \/ \E extracted \in BOOLEAN : ToMarkdown(extracted)
  \/ \E e \in {"timeout", "transport"} : Breaks(e)

Spec == Init /\ [][Next]_vars

-----------------------------------------------------------------------------

\* Whatever chain of redirects and resolutions a page is reached by, only public addresses are
\* connected to unless the configuration allows others, and never more is held than the limits.
FetchStaysPublic ==
  /\ AllowPrivate \/ "private" \notin reached
  /\ bytes <= MaxBytes
  /\ MaxChars > 0 => result.chars <= MaxChars

\* FetchStaysPublic made inductive: a literal host that is asked has been checked.
FetchInv ==
  /\ pc \in {"idle", "connect", "headers", "body", "done"}
  /\ pc = "connect" /\ Literal(host) => ~IsDisallowed(host)
  /\ bytes \in Nat /\ reached \subseteq Address
  /\ FetchStaysPublic
=============================================================================
