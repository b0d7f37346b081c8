-------------------------------- MODULE Blobs --------------------------------
(***************************************************************************)
(* Attachments: bytes stored under their content address, the messages     *)
(* that name them, how the model is shown them when the message is         *)
(* recorded and each time it is replayed, range reads, and the offline     *)
(* collection of what the log no longer names.                             *)
(***************************************************************************)
EXTENDS Integers, Sequences, FiniteSets, SequencesExt

CONSTANTS
    Hash,           \* contents, by address
    Size,           \* bytes of each content
    Mimes,          \* media types it may be uploaded as
    MaxUpload,      \* serving.max_attachment_bytes
    MaxCount,       \* serving.max_message_attachment_count
    MaxBytes,       \* serving.max_message_attachment_bytes
    TextBudget,     \* characters of text files inlined in one message
    Offset,         \* byte positions a range may name
    MaxActs         \* bound: uploads, messages, restarts, collections, reverts

VARIABLES
    stored,         \* media type of each stored content, or none
    log,            \* recorded messages: what they name and what was shown
    waiting,        \* a message checked and not yet recorded
    holder,         \* who holds the log's single-writer lock
    sweep,          \* the collection's list of what to delete
    range,          \* a range read between its two looks at the store
    served,         \* what the last range read answered
    acts

vars == <<stored, log, waiting, holder, sweep, range, served, acts>>

none == "none"
NoRange == [hash |-> 0, request |-> << >>]
NoAnswer == [hash |-> 0, request |-> << >>, bytes |-> {}]

Init ==
    /\ stored = [h \in Hash |-> none]
    /\ log = << >>
    /\ waiting = << >>
    /\ holder = "server"
    /\ sweep = {}
    /\ range = NoRange
    /\ served = NoAnswer
    /\ acts = 0

Act == acts < MaxActs /\ acts' = acts + 1

-----------------------------------------------------------------------------
(* Uploads.                                                                *)

\* Stored once: the same bytes under another media type are refused.
Put(h, mime) ==
    /\ stored[h] \in {none, mime}
    /\ stored' = [stored EXCEPT ![h] = mime]

UploadBlob(h, mime) ==
    /\ holder = "server"
    /\ Size[h] <= MaxUpload
    /\ Act
    /\ Put(h, mime)
    /\ UNCHANGED <<log, waiting, holder, sweep, range, served>>

-----------------------------------------------------------------------------
(* Messages.                                                               *)

Kind(mime) ==
    CASE mime = "image/png" -> "image" [] mime = "text/plain" -> "text" [] OTHER -> "opaque"

Attachment(h) == [hash |-> h, mime |-> stored[h], len |-> Size[h], kind |-> Kind(stored[h])]

Total(hashes) == FoldLeft(LAMBDA sum, h : sum + Size[h], 0, hashes)

\* Every blob named is stored, and the batch keeps to its budgets.
MessageInputs(hashes) ==
    /\ \A i \in DOMAIN hashes : stored[hashes[i]] # none
    /\ Len(hashes) <= MaxCount
    /\ Total(hashes) <= MaxBytes

\* Each attachment with whether its bytes are there to be read.
Looked(attachments) ==
    [i \in DOMAIN attachments |->
        [of |-> attachments[i], there |-> stored[attachments[i].hash] # none]]

\* What is left of the budget when the i-th is reached.
Left(looked, i) ==
    FoldLeft(LAMBDA left, a : IF a.of.kind = "text" /\ a.there
                              THEN IF a.of.len < left THEN left - a.of.len ELSE 0 ELSE left,
             TextBudget, SubSeq(looked, 1, i - 1))

InlineText(a, left) == IF left = 0 THEN <<"over budget", 0>>
                       ELSE IF a.len > left THEN <<"first", left>> ELSE <<"in full", a.len>>

Shown(a, left) ==
    IF a.of.kind = "opaque" THEN <<"unreadable", 0>>
    ELSE IF ~a.there THEN <<"unavailable", 0>>
    ELSE IF a.of.kind = "image" THEN <<"shown", a.of.len>>
    ELSE InlineText(a.of, left)

Announced(looked) == [i \in DOMAIN looked |-> Shown(looked[i], Left(looked, i))]

Render(attachments) == Announced(Looked(attachments))

PostMessage(hashes) ==
    /\ holder = "server"
    /\ waiting = << >>
    /\ hashes # << >>
    /\ MessageInputs(hashes)
    /\ Act
    /\ waiting' = [i \in DOMAIN hashes |-> Attachment(hashes[i])]
    /\ UNCHANGED <<stored, log, holder, sweep, range, served>>

\* The turn's slot comes round.
Record ==
    /\ holder = "server"
    /\ waiting # << >>
    /\ log' = Append(log, [attachments |-> waiting, shown |-> Render(waiting)])
    /\ waiting' = << >>
    /\ UNCHANGED <<stored, holder, sweep, range, served, acts>>

-----------------------------------------------------------------------------
(* Range reads: the length is looked up first, then the window is read.    *)

From(start, end) == <<"from", start, end>>
Suffix(n) == <<"suffix", n>>
Open == -1

\* The first and last byte, or nothing.
Resolve(request, len) ==
    LET final == len - 1
        start == IF request[1] = "from" THEN request[2]
                 ELSE IF request[2] < len THEN len - request[2] ELSE 0
        end == IF request[1] = "suffix" \/ request[3] = Open \/ request[3] > final THEN final
               ELSE request[3]
    IN IF len = 0 \/ start > final \/ (request[1] = "suffix" /\ request[2] = 0) THEN << >>
       ELSE <<start, end>>

\* A window never leaves the stored bytes.
GetRange(h, start, len) ==
    LET available == IF Size[h] > start THEN Size[h] - start ELSE 0
        window == IF len < available THEN len ELSE available
    IN start..(start + window - 1)

RangeHead(h, request) ==
    /\ holder = "server"
    /\ stored[h] # none
    /\ range = NoRange
    /\ Act
    /\ Resolve(request, Size[h]) # << >>
    /\ range' = [hash |-> h, request |-> request]
    /\ UNCHANGED <<stored, log, waiting, holder, sweep, served>>

Length(r) == r[2] - r[1] + 1

RangeRead ==
    /\ range # NoRange
    /\ stored[range.hash] # none
    /\ LET r == Resolve(range.request, Size[range.hash])
       IN served' = [hash |-> range.hash, request |-> range.request,
                     bytes |-> GetRange(range.hash, r[1], Length(r))]
    /\ range' = NoRange
    /\ UNCHANGED <<stored, log, waiting, holder, sweep, acts>>

-----------------------------------------------------------------------------
(* Restarts, reverts and the collection.                                   *)

ServerStops ==
    /\ holder = "server"
    /\ Act
    /\ holder' = none
    /\ waiting' = << >>
    /\ range' = NoRange
    /\ served' = NoAnswer
    /\ UNCHANGED <<stored, log, sweep>>

ServerStarts ==
    /\ holder = none
    /\ holder' = "server"
    /\ UNCHANGED <<stored, log, waiting, sweep, range, served, acts>>

Revert(n) ==
    /\ holder = none
    /\ Act
    /\ log' = SubSeq(log, 1, n)
    /\ UNCHANGED <<stored, waiting, holder, sweep, range, served>>

\* Any string of a payload that reads as an address counts.
ReferencedHashes == UNION {{a.hash : a \in ToSet(log[i].attachments)} : i \in DOMAIN log}

\* Mutant: the log is opened for reading, beside a running server.
GcUnlocked == holder # "gc"

\* The log is opened for writing, which a running server rules out.
GcMayRun == holder = none

GcBegins ==
    /\ GcMayRun
    /\ sweep = {}
    /\ Act
    /\ sweep' = {h \in Hash : stored[h] # none} \ ReferencedHashes
    /\ sweep' # {}
    /\ holder' = IF holder = none THEN "gc" ELSE holder
    /\ UNCHANGED <<stored, log, waiting, range, served>>

RemoveBlob(h) ==
    /\ h \in sweep
    /\ stored' = [stored EXCEPT ![h] = none]
    /\ sweep' = sweep \ {h}
    /\ UNCHANGED <<log, waiting, holder, range, served, acts>>

\* Done, or cut short.
GcEnds ==
    /\ holder = "gc"
    /\ sweep' = {}
    /\ holder' = none
    /\ UNCHANGED <<stored, log, waiting, range, served, acts>>

Batches == UNION {[1..n -> Hash] : n \in 1..(MaxCount + 1)}
\* A range that ends before it starts is not a range.
Requests ==
    {r \in {From(s, e) : s \in Offset, e \in Offset \cup {Open}} : r[3] = Open \/ r[2] <= r[3]}
      \cup {Suffix(n) : n \in Offset}

Next ==
    \/ \E h \in Hash : \/ \E mime \in Mimes : UploadBlob(h, mime)
                       \/ \E request \in Requests : RangeHead(h, request)
                       \/ RemoveBlob(h)
    \/ \E hashes \in Batches : PostMessage(hashes)
    \/ Record \/ RangeRead \/ ServerStops \/ ServerStarts \/ GcBegins \/ GcEnds
    \/ \E n \in 0..Len(log) : Revert(n)

Spec == Init /\ [][Next]_vars

-----------------------------------------------------------------------------
(* Properties.                                                             *)

\* A recorded message is shown at every replay as it was shown when it arrived,
\* whatever was uploaded, collected, reverted or restarted since (put, render,
\* gc_blobs).
SeenStaysSeen == \A i \in DOMAIN log : Render(log[i].attachments) = log[i].shown

Asked(request, len) ==
    {b \in 0..(len - 1) :
        IF request[1] = "suffix" THEN b >= len - request[2]
        ELSE b >= request[2] /\ (request[3] = Open \/ b <= request[3])}

\* A range read returns the bytes asked for that exist, and some
\* (RequestedRange::resolve, get_range).
RangeIsExact ==
    served # NoAnswer =>
        /\ served.bytes = Asked(served.request, Size[served.hash])
        /\ served.bytes # {}

BlobTypes ==
    /\ stored \in [Hash -> Mimes \cup {none}]
    /\ log \in Seq(ToSet(log))
    /\ sweep \subseteq Hash

\* What the attachments name is stored.
Held(attachments) ==
    \A j \in DOMAIN attachments : attachments[j].hash \in Hash /\ stored[attachments[j].hash] # none

\* A collection runs alone, and what it is about to delete no message names.
SweepsApart ==
    /\ sweep # {} => holder = "gc"
    /\ waiting # << >> => holder = "server"
    /\ \A i \in DOMAIN log : \A j \in DOMAIN log[i].attachments : log[i].attachments[j].hash \notin sweep

RangeStands ==
    range # NoRange =>
        /\ range.hash \in Hash /\ range.request \in Requests
        /\ Resolve(range.request, Size[range.hash]) # << >>

\* SeenStaysSeen and RangeIsExact made inductive.
BlobInv ==
    /\ BlobTypes
    /\ Held(waiting) /\ \A i \in DOMAIN log : Held(log[i].attachments)
    /\ SweepsApart /\ SeenStaysSeen
    /\ RangeStands /\ RangeIsExact
=============================================================================
