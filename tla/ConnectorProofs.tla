-------------------------- MODULE ConnectorProofs --------------------------
(***************************************************************************)
(* What MCServices' runs check of what a connector brings and mirrors,     *)
(* proved for every value of the constants: blobs, projections and the     *)
(* queues of messages.                                                     *)
(***************************************************************************)
EXTENDS MCServices, SequenceTheorems, FiniteSetTheorems, TLAPS

-----------------------------------------------------------------------------
(* Blobs.                                                                  *)

(* What a message is shown depends on what it names and on what is there.  *)
LEMMA ShownAsLooked ==
    ASSUME NEW a, B!Looked(a)' = B!Looked(a) PROVE B!Render(a)' = B!Render(a)
BY DEF B!Render

(* While what it names is stored, a message looks the same.                *)
LEMMA HeldLooksAlike ==
    ASSUME NEW a, B!Held(a), B!Held(a)' PROVE B!Render(a)' = B!Render(a)
<1>1. B!Looked(a)' = B!Looked(a)
  BY DEF B!Held, B!Looked
<1> QED
  BY <1>1, ShownAsLooked

(* A sequence over any set is one over what it holds.                      *)
LEMMA SeqOfItsOwn == ASSUME NEW T, NEW s \in Seq(T) PROVE s \in Seq(B!ToSet(s))
BY DEF B!ToSet

(* A sequence lengthened by one.                                           *)
LEMMA AppendOwn ==
    ASSUME NEW s, s \in Seq(B!ToSet(s)), NEW x
    PROVE  /\ Append(s, x) \in Seq(B!ToSet(Append(s, x)))
           /\ DOMAIN Append(s, x) = 1..(Len(s) + 1) /\ DOMAIN s = 1..Len(s) /\ Len(s) \in Nat
           /\ Append(s, x)[Len(s) + 1] = x
           /\ \A i \in DOMAIN s : Append(s, x)[i] = s[i]
<1> DEFINE T == B!ToSet(s) \cup {x}
<1>1. s \in Seq(T) /\ x \in T
  BY DEF B!ToSet
<1> HIDE DEF T
<1>2. Append(s, x) \in Seq(T)
  BY <1>1
<1>3. Append(s, x) \in Seq(B!ToSet(Append(s, x)))
  BY <1>2, SeqOfItsOwn
<1> QED
  BY <1>1, <1>3

(* A prefix of a sequence.                                                 *)
LEMMA PrefixOwn ==
    ASSUME NEW s, s \in Seq(B!ToSet(s)), NEW n \in 0..Len(s)
    PROVE  /\ SubSeq(s, 1, n) \in Seq(B!ToSet(SubSeq(s, 1, n)))
           /\ DOMAIN SubSeq(s, 1, n) = 1..n /\ 1..n \subseteq DOMAIN s
           /\ \A i \in 1..n : SubSeq(s, 1, n)[i] = s[i]
<1> DEFINE T == B!ToSet(s)
<1>1. s \in Seq(T)
  OBVIOUS
<1> HIDE DEF T
<1>2. SubSeq(s, 1, n) \in Seq(T)
  BY <1>1
<1>3. SubSeq(s, 1, n) \in Seq(B!ToSet(SubSeq(s, 1, n)))
  BY <1>2, SeqOfItsOwn
<1> QED
  BY <1>1, <1>3

(* A range read: what lies between the resolved ends is what was asked for. *)
LEMMA RangeResolved ==
    ASSUME NEW request \in B!Requests, NEW h \in Hash, B!Resolve(request, Size[h]) # << >>
    PROVE  LET r == B!Resolve(request, Size[h])
           IN /\ B!GetRange(h, r[1], B!Length(r)) = B!Asked(request, Size[h])
              /\ B!GetRange(h, r[1], B!Length(r)) # {}
<1> DEFINE len == Size[h]
           r == B!Resolve(request, len)
<1>1. len \in Nat
  BY BlobAssumption
<1>2. CASE \E n \in Offset : request = <<"suffix", n>>
  <2>1. PICK n \in Nat : request = <<"suffix", n>>
    BY <1>2, BlobAssumption
  <2>2. request[1] = "suffix" /\ request[2] = n
    BY <2>1
  <2>3. n # 0 /\ len # 0 /\ r = <<IF n < len THEN len - n ELSE 0, len - 1>>
    BY <1>1, <2>2 DEF B!Resolve
  <2>4. B!Length(r) = (len - 1) - (IF n < len THEN len - n ELSE 0) + 1 /\ r[1] = IF n < len THEN len - n ELSE 0
    BY <2>3 DEF B!Length
  <2>5. B!GetRange(h, r[1], B!Length(r)) = (IF n < len THEN len - n ELSE 0)..(len - 1)
    BY <1>1, <2>3, <2>4 DEF B!GetRange
  <2>6. B!Asked(request, len) = {b \in 0..(len - 1) : b >= len - n}
    BY <2>2 DEF B!Asked
  <2>7. (IF n < len THEN len - n ELSE 0)..(len - 1) = {b \in 0..(len - 1) : b >= len - n}
    BY <1>1
  <2>8. len - 1 \in (IF n < len THEN len - n ELSE 0)..(len - 1)
    BY <1>1, <2>3
  <2> QED
    BY <2>5, <2>6, <2>7, <2>8
<1>3. CASE \E s \in Offset, e \in Offset \cup {-1} : request = <<"from", s, e>> /\ (e = -1 \/ s <= e)
  <2>1. PICK s \in Nat, e \in Nat \cup {-1} : request = <<"from", s, e>> /\ (e = -1 \/ s <= e)
    BY <1>3, BlobAssumption
  <2>2. request[1] = "from" /\ request[2] = s /\ request[3] = e
    BY <2>1
  <2> DEFINE last == IF e = -1 \/ e > len - 1 THEN len - 1 ELSE e
  <2>3. len # 0 /\ s <= len - 1 /\ r = <<s, last>>
    BY <1>1, <2>2 DEF B!Resolve, B!Open
  <2>4. r[1] = s /\ B!Length(r) = last - s + 1
    BY <2>3 DEF B!Length
  <2>5. B!GetRange(h, s, last - s + 1) = s..last
    BY <1>1, <2>1, <2>3 DEF B!GetRange
  <2>6. B!Asked(request, len) = {b \in 0..(len - 1) : b >= s /\ (e = -1 \/ b <= e)}
    BY <2>2 DEF B!Asked, B!Open
  <2>7. s..last = {b \in 0..(len - 1) : b >= s /\ (e = -1 \/ b <= e)}
    BY <1>1, <2>1, <2>3
  <2>8. s \in s..last
    BY <1>1, <2>1, <2>3
  <2> QED
    BY <2>4, <2>5, <2>6, <2>7, <2>8
<1> QED
  BY <1>2, <1>3 DEF B!Requests, B!From, B!Suffix, B!Open

(* Nothing is stored and nothing was shown at the start.                   *)
LEMMA BlobInitial == B!Init => B!BlobInv
BY DEF B!Init, B!BlobInv, B!BlobTypes, B!Held, B!SweepsApart, B!SeenStaysSeen, B!RangeStands,
       B!RangeIsExact, B!ToSet

(* Uploads, records, the sweep, reads and the turns keep the invariant.    *)
LEMMA BlobStep == B!BlobInv /\ (B!Next \/ UNCHANGED blobVars) => B!BlobInv'
<1> SUFFICES ASSUME B!BlobInv, B!Next \/ UNCHANGED blobVars PROVE B!BlobInv'
  OBVIOUS
<1>a. /\ B!BlobTypes /\ B!SweepsApart /\ B!SeenStaysSeen /\ B!RangeStands /\ B!RangeIsExact
      /\ B!Held(waiting) /\ \A i \in DOMAIN shared : B!Held(shared[i].attachments)
  BY DEF B!BlobInv
\* The messages stand while what they name stays stored.
<1>b. ASSUME shared' = shared, \A i \in DOMAIN shared : B!Held(shared[i].attachments)'
      PROVE  B!SeenStaysSeen'
  <2> SUFFICES ASSUME NEW i \in DOMAIN shared
               PROVE  (B!Render(shared[i].attachments) = shared[i].shown)'
    BY <1>b DEF B!SeenStaysSeen
  <2> DEFINE a == shared[i].attachments
  <2>1. B!Held(a) /\ B!Held(a)' /\ a' = a
    BY <1>a, <1>b
  <2>2. B!Render(a) = shared[i].shown
    BY <1>a DEF B!SeenStaysSeen
  <2>3. PICK c : c = a
    OBVIOUS
  <2>4. B!Held(c) /\ B!Held(c)'
    BY <2>1, <2>3 DEF B!Held
  <2>5. B!Render(c)' = B!Render(c)
    BY <2>4, HeldLooksAlike
  <2> QED
    BY <1>b, <2>1, <2>2, <2>3, <2>5
<1>c. ASSUME UNCHANGED <<range, served>> PROVE B!RangeStands' /\ B!RangeIsExact'
  BY <1>a, <1>c DEF B!RangeStands, B!RangeIsExact, B!Resolve, B!Asked
<1>d. ASSUME UNCHANGED <<stored, shared>>
      PROVE  /\ \A i \in DOMAIN shared : B!Held(shared[i].attachments)'
             /\ B!SeenStaysSeen'
  BY <1>a, <1>b, <1>d DEF B!Held
<1>1. ASSUME NEW h \in Hash, NEW mime \in Mimes, B!UploadBlob(h, mime) PROVE B!BlobInv'
  <2>1. /\ stored' = [stored EXCEPT ![h] = mime] /\ mime # "none"
        /\ UNCHANGED <<shared, waiting, holder, sweep, range, served>>
    BY <1>1, BlobAssumption DEF B!UploadBlob, B!Put
  <2>2. B!BlobTypes' /\ B!SweepsApart'
    BY <1>a, <2>1 DEF B!BlobTypes, B!SweepsApart
  <2>3. B!Held(waiting)' /\ \A i \in DOMAIN shared : B!Held(shared[i].attachments)'
    BY <1>a, <2>1 DEF B!Held, B!BlobTypes, B!none
  <2> QED
    BY <1>b, <1>c, <2>1, <2>2, <2>3 DEF B!BlobInv
<1>2. ASSUME NEW h \in Hash, NEW request \in B!Requests, B!RangeHead(h, request) PROVE B!BlobInv'
  <2>1. /\ UNCHANGED <<stored, shared, waiting, holder, sweep, served>>
        /\ range' = [hash |-> h, request |-> request]
        /\ B!Resolve(request, Size[h]) # << >>
    BY <1>2 DEF B!RangeHead
  <2>2. B!RangeStands' /\ B!RangeIsExact'
    BY <1>a, <2>1 DEF B!RangeStands, B!RangeIsExact, B!Asked, B!Resolve
  <2> QED
    BY <1>a, <1>d, <2>1, <2>2 DEF B!BlobInv, B!BlobTypes, B!SweepsApart, B!Held
<1>3. ASSUME NEW h \in Hash, B!RemoveBlob(h) PROVE B!BlobInv'
  <2>1. /\ h \in sweep /\ stored' = [stored EXCEPT ![h] = "none"] /\ sweep' = sweep \ {h}
        /\ UNCHANGED <<shared, waiting, holder, range, served>>
    BY <1>3 DEF B!RemoveBlob, B!none
  <2>2. waiting = << >>
    BY <1>a, <2>1 DEF B!SweepsApart
  <2>3. B!BlobTypes' /\ B!SweepsApart'
    BY <1>a, <2>1 DEF B!BlobTypes, B!SweepsApart, B!none
  <2>4. B!Held(waiting)' /\ \A i \in DOMAIN shared : B!Held(shared[i].attachments)'
    BY <1>a, <2>1, <2>2 DEF B!Held, B!BlobTypes, B!SweepsApart
  <2> QED
    BY <1>b, <1>c, <2>1, <2>3, <2>4 DEF B!BlobInv
<1>4. ASSUME NEW hashes \in B!Batches, B!PostMessage(hashes) PROVE B!BlobInv'
  <2>1. /\ UNCHANGED <<stored, shared, holder, sweep, range, served>> /\ holder = "server"
        /\ waiting' = [i \in DOMAIN hashes |-> B!Attachment(hashes[i])]
        /\ \A i \in DOMAIN hashes : stored[hashes[i]] # B!none /\ hashes[i] \in Hash
    BY <1>4 DEF B!PostMessage, B!MessageInputs, B!Batches
  <2>2. B!Held(waiting)'
    BY <2>1 DEF B!Held, B!Attachment, B!none
  <2> QED
    BY <1>a, <1>c, <1>d, <2>1, <2>2 DEF B!BlobInv, B!BlobTypes, B!SweepsApart
<1>5. CASE B!Record
  <2> DEFINE x == [attachments |-> waiting, shown |-> B!Render(waiting)]
  <2>1. /\ UNCHANGED <<stored, holder, sweep, range, served>> /\ holder = "server"
        /\ waiting' = << >> /\ shared' = Append(shared, x)
    BY <1>5 DEF B!Record
  <2>2. x.attachments = waiting /\ x.shown = B!Render(waiting)
    OBVIOUS
  <2> HIDE DEF x
  <2>3. /\ shared' \in Seq(B!ToSet(shared'))
        /\ DOMAIN shared' = 1..(Len(shared) + 1) /\ DOMAIN shared = 1..Len(shared) /\ Len(shared) \in Nat
        /\ shared'[Len(shared) + 1] = x
        /\ \A i \in DOMAIN shared : shared'[i] = shared[i]
    BY <1>a, <2>1, AppendOwn DEF B!BlobTypes
  <2>4. \A i \in DOMAIN shared' : shared'[i] = x \/ (i \in DOMAIN shared /\ shared'[i] = shared[i])
    BY <2>3
  <2>5. sweep = {}
    BY <1>a, <2>1 DEF B!SweepsApart
  <2>6. B!BlobTypes' /\ B!SweepsApart'
    BY <1>a, <2>1, <2>3, <2>5 DEF B!BlobTypes, B!SweepsApart, B!ToSet
  <2>7. B!Held(waiting)' /\ \A i \in DOMAIN shared' : B!Held(shared'[i].attachments)
    BY <1>a, <2>1, <2>2, <2>4 DEF B!Held
  <2>8. \A i \in DOMAIN shared' : B!Render(shared'[i].attachments) = shared'[i].shown
    BY <1>a, <2>2, <2>4 DEF B!SeenStaysSeen
  <2>9. \A c : B!Render(c)' = B!Render(c) /\ (B!Held(c)' <=> B!Held(c))
    BY <2>1 DEF B!Render, B!Looked, B!Held
  <2> QED
    BY <1>c, <2>1, <2>6, <2>7, <2>8, <2>9 DEF B!BlobInv, B!SeenStaysSeen
<1>6. CASE B!RangeRead
  <2> DEFINE r == B!Resolve(range.request, Size[range.hash])
             bytes == B!GetRange(range.hash, r[1], B!Length(r))
  <2>1. /\ UNCHANGED <<stored, shared, waiting, holder, sweep>> /\ range # B!NoRange
        /\ range' = B!NoRange
        /\ served' = [hash |-> range.hash, request |-> range.request, bytes |-> bytes]
    BY <1>6 DEF B!RangeRead
  <2>2. bytes = B!Asked(range.request, Size[range.hash]) /\ bytes # {}
    BY <1>a, <2>1, RangeResolved DEF B!RangeStands
  <2> HIDE DEF bytes
  <2>3. B!RangeStands' /\ B!RangeIsExact'
    BY <2>1, <2>2 DEF B!RangeStands, B!RangeIsExact, B!Asked
  <2> QED
    BY <1>a, <1>d, <2>1, <2>3 DEF B!BlobInv, B!BlobTypes, B!SweepsApart, B!Held
<1>7. CASE B!ServerStops
  <2>1. /\ UNCHANGED <<stored, shared, sweep>> /\ range' = B!NoRange /\ served' = B!NoAnswer
        /\ waiting' = << >> /\ holder = "server" /\ holder' = "none"
    BY <1>7 DEF B!ServerStops, B!none
  <2>2. B!RangeStands' /\ B!RangeIsExact'
    BY <2>1 DEF B!RangeStands, B!RangeIsExact
  <2> QED
    BY <1>a, <1>d, <2>1, <2>2 DEF B!BlobInv, B!BlobTypes, B!SweepsApart, B!Held
<1>8. CASE B!ServerStarts
  <2>1. /\ UNCHANGED <<stored, shared, waiting, sweep, range, served>>
        /\ holder = "none" /\ holder' = "server"
    BY <1>8 DEF B!ServerStarts, B!none
  <2> QED
    BY <1>a, <1>c, <1>d, <2>1 DEF B!BlobInv, B!BlobTypes, B!SweepsApart, B!Held
<1>9. CASE B!GcBegins
  <2>1. /\ UNCHANGED <<stored, shared, waiting, range, served>>
        /\ holder = "none" /\ holder' = "gc"
        /\ sweep' = {h \in Hash : stored[h] # "none"} \ B!ReferencedHashes
    BY <1>9 DEF B!GcBegins, B!GcMayRun, B!none
  <2>2. B!SweepsApart'
    BY <1>a, <2>1 DEF B!SweepsApart, B!ReferencedHashes, B!ToSet
  <2> QED
    BY <1>a, <1>c, <1>d, <2>1, <2>2 DEF B!BlobInv, B!BlobTypes, B!Held
<1>10. CASE B!GcEnds
  <2>1. /\ UNCHANGED <<stored, shared, waiting, range, served>>
        /\ holder = "gc" /\ holder' = "none" /\ sweep' = {}
    BY <1>10 DEF B!GcEnds, B!none
  <2> QED
    BY <1>a, <1>c, <1>d, <2>1 DEF B!BlobInv, B!BlobTypes, B!SweepsApart, B!Held
<1>11. ASSUME NEW n \in 0..Len(shared), B!Revert(n) PROVE B!BlobInv'
  <2>1. /\ UNCHANGED <<stored, waiting, holder, sweep, range, served>>
        /\ shared' = SubSeq(shared, 1, n)
    BY <1>11 DEF B!Revert
  <2>2. /\ shared' \in Seq(B!ToSet(shared'))
        /\ \A i \in DOMAIN shared' : i \in DOMAIN shared /\ shared'[i] = shared[i]
    BY <1>a, <2>1, PrefixOwn DEF B!BlobTypes
  <2>3. B!BlobTypes' /\ B!SweepsApart'
    BY <1>a, <2>1, <2>2 DEF B!BlobTypes, B!SweepsApart, B!ToSet
  <2>4. B!Held(waiting)' /\ \A i \in DOMAIN shared' : B!Held(shared'[i].attachments)
    BY <1>a, <2>1, <2>2 DEF B!Held
  <2>5. \A i \in DOMAIN shared' : B!Render(shared'[i].attachments) = shared'[i].shown
    BY <1>a, <2>2 DEF B!SeenStaysSeen
  <2>6. \A c : B!Render(c)' = B!Render(c) /\ (B!Held(c)' <=> B!Held(c))
    BY <2>1 DEF B!Render, B!Looked, B!Held
  <2> QED
    BY <1>c, <2>1, <2>3, <2>4, <2>5, <2>6 DEF B!BlobInv, B!SeenStaysSeen
<1>12. CASE UNCHANGED blobVars
  BY <1>a, <1>c, <1>d, <1>12 DEF blobVars, B!BlobInv, B!BlobTypes, B!SweepsApart, B!Held
<1> QED
  BY <1>1, <1>2, <1>3, <1>4, <1>5, <1>6, <1>7, <1>8, <1>9, <1>10, <1>11, <1>12 DEF B!Next

(* What a message was shown of a recorded attachment it is shown again,    *)
(* and a range read returns the bytes asked for (render, gc_blobs,         *)
(* get_range), for any blobs and limits.                                   *)
THEOREM AttachmentsAlwaysStand == ServicesSpec => []AttachmentsStand
<1>1. ServicesInit => B!BlobInv
  BY BlobInitial DEF ServicesInit
<1>2. B!BlobInv /\ [ServicesNext]_services => B!BlobInv'
  BY BlobStep DEF ServicesNext, services
<1>3. B!BlobInv => AttachmentsStand
  BY DEF B!BlobInv, AttachmentsStand
<1> QED
  BY <1>1, <1>2, <1>3, PTL DEF ServicesSpec

-----------------------------------------------------------------------------
(* Projections.                                                            *)

(* The instance counts as the library does.                                *)
LEMMA ProjectionsCount == ASSUME NEW T PROVE P!Cardinality(T) = Cardinality(T)
BY DEF P!Cardinality, Cardinality

(* No two attributes of a set have the same rank in it, and every rank is   *)
(* that of a place among its members.                                       *)
LEMMA RanksDiffer ==
    ASSUME NEW T, T \subseteq P!Attributes, NEW a \in T
    PROVE  /\ P!Cardinality(T) \in Nat
           /\ P!Cardinality({c \in T : c <= a}) \in 1..P!Cardinality(T)
           /\ \A b \in T :
                 P!Cardinality({c \in T : c <= b}) = P!Cardinality({c \in T : c <= a}) => b = a
<1> DEFINE upto(b) == {c \in T : c <= b}
<1>1. T \subseteq 1..Attr /\ IsFiniteSet(T)
  <2>1. T \subseteq 1..Attr
    BY DEF P!Attributes
  <2>2. IsFiniteSet(1..Attr)
    BY AttrAssumption, FS_Interval
  <2> QED
    BY <2>1, <2>2, FS_Subset
<1>2. T \subseteq Nat
  BY <1>1, AttrAssumption
<1>3. \A b : P!Cardinality(upto(b)) = Cardinality(upto(b))
  BY ProjectionsCount
<1>4. ASSUME NEW b \in T
      PROVE  IsFiniteSet(upto(b)) /\ Cardinality(upto(b)) \in Nat /\ Cardinality(upto(b)) <= Cardinality(T)
  <2>1. upto(b) \subseteq T
    OBVIOUS
  <2> QED
    BY <1>1, <2>1, FS_Subset, FS_CardinalityType
<1>5. ASSUME NEW b \in T, NEW c \in T, b < c PROVE Cardinality(upto(b)) < Cardinality(upto(c))
  <2>1. upto(b) \subseteq upto(c) /\ c \in upto(c) /\ c \notin upto(b)
    <3>1. b \in Nat /\ c \in Nat /\ \A d \in T : d \in Nat
      BY <1>2
    <3>2. b <= c /\ ~(c <= b) /\ c <= c /\ \A d \in Nat : d <= b => d <= c
      BY <1>5, <3>1
    <3> QED
      BY <1>5, <3>1, <3>2
  <2>2. upto(b) # upto(c)
    BY <2>1
  <2> HIDE DEF upto
  <2> QED
    BY <1>4, <2>1, <2>2, FS_Subset
<1>6. 1 <= Cardinality(upto(a))
  <2>1. a \in upto(a) /\ a \in T
    BY <1>2
  <2> HIDE DEF upto
  <2>2. Cardinality(upto(a)) # 0
    BY <1>4, <2>1, FS_EmptySet
  <2> QED
    BY <1>4, <2>1, <2>2
<1>7. Cardinality(T) \in Nat /\ P!Cardinality(T) = Cardinality(T)
  BY <1>1, ProjectionsCount, FS_CardinalityType
<1>8. P!Cardinality(upto(a)) \in 1..P!Cardinality(T)
  <2> HIDE DEF upto
  <2> QED
    BY <1>3, <1>4, <1>6, <1>7
<1>9. ASSUME NEW b \in T, P!Cardinality(upto(b)) = P!Cardinality(upto(a)) PROVE b = a
  <2>1. Cardinality(upto(b)) = Cardinality(upto(a))
    BY <1>3, <1>9
  <2>2. a \in Nat /\ b \in Nat
    BY <1>2
  <2> HIDE DEF upto
  <2> QED
    BY <1>4, <1>5, <1>7, <2>1, <2>2
<1> QED
  BY <1>7, <1>8, <1>9

(* The answer has, where an attribute stands, the entry made for it.       *)
LEMMA AnswersLineUp ==
    ASSUME NEW s, NEW a \in P!Changed(s)
    PROVE  P!Entries(s)[P!Place(s, a)] = P!EntryFor(s, a)
<1>1. P!Changed(s) \subseteq P!Attributes
  BY DEF P!Changed
<1>2. /\ P!Place(s, a) \in 1..P!Cardinality(P!Changed(s))
      /\ \A b \in P!Changed(s) : P!Place(s, b) = P!Place(s, a) => b = a
  BY <1>1, RanksDiffer DEF P!Place
<1>3. P!Requested(s, P!Place(s, a)) = a
  BY <1>2 DEF P!Requested
<1> QED
  BY <1>2, <1>3 DEF P!Entries

(* A request's entries are new, and one for each attribute told.           *)
LEMMA EntriesAreNew ==
    ASSUME NEW s, ids \in Nat
    PROVE  /\ ids + P!Cardinality(P!Told(s)) \in Nat
           /\ ids + P!Cardinality(P!Told(s)) >= ids
           /\ \A a \in P!Told(s) :
                 /\ P!EntryFor(s, a) \in 1..(ids + P!Cardinality(P!Told(s)))
                 /\ P!EntryFor(s, a) > ids
                 /\ \A b \in P!Told(s) : P!EntryFor(s, b) = P!EntryFor(s, a) => b = a
<1> DEFINE n == P!Cardinality(P!Told(s))
           rank(a) == P!Cardinality({b \in P!Told(s) : b <= a})
<1>1. P!Told(s) \subseteq P!Attributes
  BY DEF P!Told, P!Changed
<1>2. n \in Nat
  <2>1. CASE P!Told(s) = {}
    <3>1. Cardinality({}) = 0
      BY FS_EmptySet
    <3> QED
      BY <2>1, <3>1, ProjectionsCount
  <2>2. ASSUME NEW a \in P!Told(s) PROVE n \in Nat
    <3> HIDE DEF P!Told
    <3> QED
      BY ONLY <1>1, <2>2, RanksDiffer
  <2> QED
    BY <2>1, <2>2
<1>3. ASSUME NEW a \in P!Told(s)
      PROVE  /\ rank(a) \in 1..n /\ \A b \in P!Told(s) : rank(b) = rank(a) => b = a
             /\ P!EntryFor(s, a) = ids + rank(a)
  <2>1. P!EntryFor(s, a) = ids + rank(a)
    BY DEF P!EntryFor, P!Told
  <2> DEFINE T == P!Told(s)
  <2>2. T \subseteq P!Attributes /\ a \in T
    BY <1>1, <1>3
  <2> HIDE DEF T
  <2>3. /\ P!Cardinality({c \in T : c <= a}) \in 1..P!Cardinality(T)
        /\ \A b \in T :
              P!Cardinality({c \in T : c <= b}) = P!Cardinality({c \in T : c <= a}) => b = a
    BY ONLY <2>2, RanksDiffer
  <2>4. rank(a) \in 1..n /\ \A b \in P!Told(s) : rank(b) = rank(a) => b = a
    BY <2>3 DEF T
  <2> QED
    BY <2>1, <2>4
<1> HIDE DEF n, rank
<1>4. ASSUME NEW a \in P!Told(s)
      PROVE  /\ P!EntryFor(s, a) \in 1..(ids + n) /\ P!EntryFor(s, a) > ids
             /\ \A b \in P!Told(s) : P!EntryFor(s, b) = P!EntryFor(s, a) => b = a
  <2>1. rank(a) \in Nat /\ rank(a) >= 1 /\ rank(a) <= n
    BY <1>2, <1>3
  <2>2. \A b \in P!Told(s) : rank(b) \in Nat
    BY <1>2, <1>3
  <2> QED
    BY <1>2, <1>3, <2>1, <2>2
<1>5. ids + n \in Nat /\ ids + n >= ids
  BY <1>2
<1> QED
  BY <1>4, <1>5 DEF n

(* The connector knows of no entry before its first sync.                  *)
LEMMA MirrorInitial == P!Init => P!MirrorInv
<1> SUFFICES ASSUME P!Init PROVE P!MirrorInv
  OBVIOUS
<1>1. sync = [pc |-> "idle", want |-> << >>, seen |-> << >>, answer |-> << >>, left |-> {}]
  BY DEF P!Init, P!Idle
<1>2. DOMAIN db = P!Attributes /\ \A a \in P!Attributes : db[a].entry = 0
  BY DEF P!Init
<1>3. live = {} /\ ids = 0 /\ lost = {}
  BY DEF P!Init
<1> QED
  BY <1>1, <1>2, <1>3 DEF P!MirrorInv, P!Numbered, P!RowsDiffer, P!AnswersAreFresh

(* A sync's steps, its failures and the edits keep the invariant.          *)
LEMMA MirrorStep == P!MirrorInv /\ (P!Next \/ UNCHANGED projectionVars) => P!MirrorInv'
<1> SUFFICES ASSUME P!MirrorInv, P!Next \/ UNCHANGED projectionVars PROVE P!MirrorInv'
  OBVIOUS
<1> DEFINE Shape(s) == s = [pc |-> s.pc, want |-> s.want, seen |-> s.seen, answer |-> s.answer, left |-> s.left]
<1>a. /\ Shape(sync) /\ DOMAIN db = P!Attributes
      /\ sync.pc \notin {"answered", "writing"} => sync.left = {}
      /\ P!Numbered /\ P!RowsDiffer /\ P!AnswersAreFresh
      /\ \A e \in live : e.id \notin lost => P!Written(e) \/ P!ToBeWritten(e)
  BY DEF P!MirrorInv
<1>att. P!Attributes' = P!Attributes
  BY DEF P!Attributes
\* Steps that touch neither the sync nor what it is about.
<1>b. ASSUME UNCHANGED <<sync, db, ids, lost>>, live' \subseteq live PROVE P!MirrorInv'
  <2>1. \A a : P!AnswerFor(sync, a)' = P!AnswerFor(sync, a)
    BY <1>b DEF P!AnswerFor, P!Place, P!Changed
  <2>2. P!Numbered'
    BY <1>a, <1>b, <1>att DEF P!Numbered
  <2>3. P!RowsDiffer'
    BY <1>a, <1>b, <1>att DEF P!RowsDiffer
  <2>4. P!AnswersAreFresh'
    BY <1>a, <1>b, <1>att, <2>1 DEF P!AnswersAreFresh
  <2>5. \A e : P!Written(e)' = P!Written(e) /\ P!ToBeWritten(e)' = P!ToBeWritten(e)
    BY <1>b, <2>1 DEF P!Written, P!ToBeWritten
  <2>6. \A e \in live' : e.id \notin lost' => P!Written(e)' \/ P!ToBeWritten(e)'
    BY <1>a, <1>b, <2>5
  <2>7. Shape(sync)' /\ (DOMAIN db = P!Attributes)' /\ (sync'.pc \notin {"answered", "writing"} => sync'.left = {})
    BY <1>a, <1>b, <1>att
  <2> QED
    BY <2>2, <2>3, <2>4, <2>6, <2>7 DEF P!MirrorInv
\* Steps of a sync that has, or leaves, nothing to write.
<1>c. ASSUME Shape(sync'), sync'.left = {},
             sync'.pc = "project" => \A a \in P!Attributes : sync'.seen[a].entry \in 0..ids,
             UNCHANGED <<db, live, ids>>, lost' = lost \cup P!Unknown
      PROVE  P!MirrorInv'
  <2>1. P!Unknown \subseteq 1..ids
    BY <1>a DEF P!Unknown, P!AnswersAreFresh, P!Numbered
  <2>2. P!Numbered'
    BY <1>a, <1>c, <1>att, <2>1 DEF P!Numbered
  <2>3. \A a \in P!Attributes : db[a].entry \notin P!Unknown
    BY <1>a DEF P!Unknown, P!AnswersAreFresh
  <2>4. P!RowsDiffer'
    BY <1>a, <1>c, <1>att, <2>3 DEF P!RowsDiffer
  <2>5. P!AnswersAreFresh'
    BY <1>c DEF P!AnswersAreFresh
  <2>6. ASSUME NEW e \in live, e.id \notin lost' PROVE P!Written(e)'
    <3>1. e.id \notin lost /\ e.id \notin P!Unknown
      BY <1>c, <2>6
    <3>2. e.id # 0
      BY <1>a DEF P!Numbered
    <3>3. ~P!ToBeWritten(e)
      BY <3>1, <3>2 DEF P!ToBeWritten, P!Unknown
    <3>4. P!Written(e)
      BY <1>a, <3>1, <3>3
    <3> QED
      BY <1>c, <3>4 DEF P!Written
  <2>7. \A e \in live' : e.id \notin lost' => P!Written(e)' \/ P!ToBeWritten(e)'
    BY <1>c, <2>6
  <2> QED
    BY <1>a, <1>c, <1>att, <2>2, <2>4, <2>5, <2>7 DEF P!MirrorInv
<1>none. sync.left = {} => P!Unknown = {}
  BY DEF P!Unknown
<1>idle. Shape(P!Idle) /\ P!Idle.left = {} /\ P!Idle.pc = "idle"
  BY DEF P!Idle
<1>1. ASSUME NEW a \in P!Attributes, NEW v \in Value \cup {P!none}, P!Observe(a, v) PROVE P!MirrorInv'
  BY <1>1, <1>b DEF P!Observe
<1>2. ASSUME NEW i \in DOMAIN events, NEW misread, P!Begin(i, misread) PROVE P!MirrorInv'
  <2> DEFINE readRows == [a \in P!Attributes |-> IF a \in misread THEN P!NeverRead ELSE db[a]]
             read == [P!Idle EXCEPT !.want = events[i], !.seen = readRows]
  <2>1. /\ sync.pc = "idle" /\ UNCHANGED <<db, live, ids, lost>>
        /\ \/ sync' = [read EXCEPT !.pc = "project"]
           \/ sync' = [P!Idle EXCEPT !.pc = "refresh"]
           \/ sync' = P!Idle
    BY <1>2 DEF P!Begin
  <2>2. \A a \in P!Attributes : readRows[a].entry \in 0..ids
    <3>1. P!NeverRead.entry = 0 /\ 0 \in 0..ids
      BY <1>a DEF P!NeverRead, P!Numbered
    <3> QED
      BY <1>a, <3>1 DEF P!Numbered
  <2>3. /\ Shape(sync') /\ sync'.left = {}
        /\ sync'.pc = "project" => \A a \in P!Attributes : sync'.seen[a].entry \in 0..ids
    <3>1. CASE sync' = [read EXCEPT !.pc = "project"]
      <4> HIDE DEF readRows
      <4>1. sync' = [pc |-> "project", want |-> events[i], seen |-> readRows, answer |-> << >>, left |-> {}]
        BY <3>1 DEF P!Idle
      <4> QED
        BY <2>2, <4>1
    <3>2. CASE sync' = [P!Idle EXCEPT !.pc = "refresh"]
      <4>1. sync' = [pc |-> "refresh", want |-> << >>, seen |-> << >>, answer |-> << >>, left |-> {}]
        BY <3>2 DEF P!Idle
      <4> QED
        BY <4>1
    <3>3. CASE sync' = P!Idle
      BY <1>idle, <3>3
    <3> QED
      BY <2>1, <3>1, <3>2, <3>3
  <2>4. lost' = lost \cup P!Unknown
    BY <1>a, <1>none, <2>1
  <2> QED
    BY <1>c, <2>1, <2>3, <2>4
<1>3. CASE P!ServerProjects
  <2> DEFINE n == P!Cardinality(P!Told(sync))
  <2>1. /\ sync.pc = "project" /\ UNCHANGED <<db, lost>> /\ live' = P!Projected(sync) /\ ids' = ids + n
        /\ sync' = [sync EXCEPT !.pc = "answered", !.answer = P!Entries(sync), !.left = P!Changed(sync)]
    BY <1>3 DEF P!ServerProjects
  <2>2. sync' = [pc |-> "answered", want |-> sync.want, seen |-> sync.seen, answer |-> P!Entries(sync),
                 left |-> P!Changed(sync)]
    BY <1>a, <2>1
  <2>3. /\ sync'.pc = "answered" /\ sync'.want = sync.want /\ sync'.seen = sync.seen
        /\ sync'.answer = P!Entries(sync) /\ sync'.left = P!Changed(sync) /\ Shape(sync')
    BY <2>2
  <2>4. \A a \in P!Changed(sync) : a \in P!Attributes /\ P!AnswerFor(sync, a)' = P!EntryFor(sync, a)
    <3>1. \A a : P!Place(sync, a)' = P!Place(sync, a)
      BY <2>3, <1>att DEF P!Place, P!Changed
    <3> QED
      BY <2>3, <3>1, AnswersLineUp DEF P!AnswerFor, P!Changed
  <2>5. /\ ids' \in Nat /\ ids' >= ids /\ ids \in Nat
        /\ \A a \in P!Told(sync) :
              /\ P!EntryFor(sync, a) \in 1..ids' /\ P!EntryFor(sync, a) > ids
              /\ \A b \in P!Told(sync) : P!EntryFor(sync, b) = P!EntryFor(sync, a) => b = a
    <3>1. ids \in Nat
      BY <1>a DEF P!Numbered
    <3> QED
      BY <2>1, <3>1, EntriesAreNew
  <2>6. \A a \in P!Changed(sync) \ P!Told(sync) : P!EntryFor(sync, a) = 0
    BY DEF P!Told, P!EntryFor
  <2>7. \A a \in P!Told(sync) : a \in P!Changed(sync)
    BY DEF P!Told
  <2> DEFINE taken == {sync.seen[a].entry : a \in P!Changed(sync)}
             New(a) == [id |-> P!EntryFor(sync, a), attr |-> a, value |-> sync.want[a]]
  <2>8. live' = {e \in live : e.id \notin taken} \cup {New(a) : a \in P!Told(sync)}
    BY <2>1 DEF P!Projected
  <2> HIDE DEF taken, n
  <2>9. ASSUME NEW e \in live'
        PROVE  \/ e \in live /\ e.id \notin taken
               \/ \E a \in P!Told(sync) : e.id = P!EntryFor(sync, a) /\ e.attr = a /\ e.value = sync.want[a]
    BY <2>8
  <2> HIDE DEF New
  <2>10. P!Numbered'
    <3>1. 1..ids \subseteq 1..ids' /\ 0..ids \subseteq 0..ids'
      BY <2>5
    <3>2. \A e \in live' : e.id \in 1..ids' /\ e.attr \in P!Attributes
      <4>1. ASSUME NEW e \in live' PROVE e.id \in 1..ids' /\ e.attr \in P!Attributes
        <5>1. CASE e \in live /\ e.id \notin taken
          BY <1>a, <3>1, <5>1 DEF P!Numbered
        <5>2. CASE \E a \in P!Told(sync) : e.id = P!EntryFor(sync, a) /\ e.attr = a /\ e.value = sync.want[a]
          BY <2>4, <2>5, <2>7, <5>2
        <5> QED
          BY <2>9, <5>1, <5>2
      <4> QED
        BY <4>1
    <3>3. lost' \subseteq 1..ids' /\ \A a \in P!Attributes : db'[a].entry \in 0..ids'
      BY <1>a, <2>1, <3>1 DEF P!Numbered
    <3> QED
      BY <1>att, <2>3, <2>5, <3>2, <3>3 DEF P!Numbered
  <2>11. P!RowsDiffer'
    BY <1>a, <1>att, <2>1 DEF P!RowsDiffer
  <2>12. P!AnswersAreFresh'
    <3>1. ASSUME NEW a \in P!Changed(sync)
          PROVE  P!EntryFor(sync, a) \in 0..ids'
      BY <2>5, <2>6
    <3>2. ASSUME NEW a \in P!Changed(sync), NEW e \in live' PROVE e.id # sync.seen[a].entry
      <4>1. sync.seen[a].entry \in 0..ids /\ sync.seen[a].entry \in taken
        BY <1>a, <2>1, <2>4 DEF P!Numbered, taken
      <4>2. CASE e \in live /\ e.id \notin taken
        BY <4>1, <4>2
      <4>3. CASE \E b \in P!Told(sync) : e.id = P!EntryFor(sync, b) /\ e.attr = b /\ e.value = sync.want[b]
        BY <2>5, <4>1, <4>3
      <4> QED
        BY <2>9, <4>2, <4>3
    <3>3. ASSUME NEW a \in P!Changed(sync), P!EntryFor(sync, a) # 0
          PROVE  /\ P!EntryFor(sync, a) \notin lost
                 /\ \A b \in P!Attributes : db[b].entry # P!EntryFor(sync, a)
                 /\ \A b \in P!Changed(sync) \ {a} : P!EntryFor(sync, b) # P!EntryFor(sync, a)
      <4>1. a \in P!Told(sync) /\ P!EntryFor(sync, a) > ids /\ P!EntryFor(sync, a) \in Nat
        BY <2>5, <2>6, <3>3
      <4>2. P!EntryFor(sync, a) \notin 0..ids
        BY <2>5, <4>1
      <4>3. P!EntryFor(sync, a) \notin lost /\ \A b \in P!Attributes : db[b].entry # P!EntryFor(sync, a)
        BY <1>a, <4>2 DEF P!Numbered
      <4>4. \A b \in P!Changed(sync) \ {a} : P!EntryFor(sync, b) # P!EntryFor(sync, a)
        BY <2>5, <2>6, <3>3, <4>1
      <4> QED
        BY <4>3, <4>4
    <3> QED
      BY <1>att, <2>1, <2>3, <2>4, <3>1, <3>2, <3>3 DEF P!AnswersAreFresh
  <2>13. ASSUME NEW e \in live', e.id \notin lost' PROVE P!Written(e)' \/ P!ToBeWritten(e)'
    <3>1. CASE e \in live /\ e.id \notin taken
      <4>1. ~P!ToBeWritten(e)
        BY <1>a, <2>1 DEF P!ToBeWritten
      <4>2. P!Written(e)
        BY <1>a, <2>1, <2>13, <3>1, <4>1
      <4> QED
        BY <2>1, <4>2 DEF P!Written
    <3>2. ASSUME NEW a \in P!Told(sync), e.id = P!EntryFor(sync, a), e.attr = a, e.value = sync.want[a]
          PROVE  P!ToBeWritten(e)'
      BY <2>3, <2>4, <2>7, <3>2 DEF P!ToBeWritten
    <3> QED
      BY <2>9, <3>1, <3>2
  <2> QED
    BY <1>a, <1>att, <2>1, <2>3, <2>10, <2>11, <2>12, <2>13 DEF P!MirrorInv
<1>4. CASE P!ServerResolves
  <2>1. /\ sync.pc = "refresh" /\ UNCHANGED <<db, live, ids, lost>>
        /\ sync' = [pc |-> "resolved", want |-> sync.want, seen |-> sync.seen, answer |-> sync.answer,
                    left |-> sync.left]
    BY <1>a, <1>4 DEF P!ServerResolves
  <2>2. sync.left = {} /\ lost' = lost \cup P!Unknown
    BY <1>a, <1>none, <2>1
  <2> QED
    BY <1>c, <2>1, <2>2
<1>5. CASE P!Answer
  <2>1. /\ sync.pc = "answered" /\ UNCHANGED <<db, live, ids, lost>>
        /\ sync' = [pc |-> "writing", want |-> sync.want, seen |-> sync.seen, answer |-> sync.answer,
                    left |-> sync.left]
    BY <1>a, <1>5 DEF P!Answer
  <2>2. \A a : P!AnswerFor(sync, a)' = P!AnswerFor(sync, a)
    BY <2>1 DEF P!AnswerFor, P!Place, P!Changed
  <2>3. P!Numbered'
    BY <1>a, <1>att, <2>1 DEF P!Numbered
  <2>4. P!RowsDiffer'
    BY <1>a, <1>att, <2>1 DEF P!RowsDiffer
  <2>5. P!AnswersAreFresh'
    BY <1>a, <1>att, <2>1, <2>2 DEF P!AnswersAreFresh
  <2>6. \A e : P!Written(e)' = P!Written(e) /\ P!ToBeWritten(e)' = P!ToBeWritten(e)
    BY <2>1, <2>2 DEF P!Written, P!ToBeWritten
  <2>7. \A e \in live' : e.id \notin lost' => P!Written(e)' \/ P!ToBeWritten(e)'
    BY <1>a, <2>1, <2>6
  <2> QED
    BY <1>a, <1>att, <2>1, <2>3, <2>4, <2>5, <2>7 DEF P!MirrorInv
<1>6. ASSUME NEW a \in sync.left, P!WriteState(a) PROVE P!MirrorInv'
  <2> DEFINE new == P!AnswerFor(sync, a)
             wrote == /\ db' = [db EXCEPT ![a] = [value |-> sync.want[a], entry |-> new]]
                      /\ lost' = lost \cup P!Forgotten(a)
             failed == lost' = lost \cup ({new} \ {0}) /\ db' = db
  <2>1. /\ sync.pc = "writing" /\ UNCHANGED <<live, ids>>
        /\ wrote \/ failed
        /\ sync' = IF sync.left = {a} THEN P!Idle ELSE [sync EXCEPT !.left = @ \ {a}]
    BY <1>6 DEF P!WriteState
  <2>2. /\ Shape(sync') /\ sync'.left = sync.left \ {a} /\ sync'.pc # "project"
        /\ sync'.pc \notin {"answered", "writing"} => sync'.left = {}
        /\ sync'.left # {} => sync' = [sync EXCEPT !.left = @ \ {a}]
    <3>1. CASE sync.left = {a}
      BY <1>idle, <2>1, <3>1
    <3>2. CASE sync.left # {a}
      <4>1. sync' = [pc |-> "writing", want |-> sync.want, seen |-> sync.seen, answer |-> sync.answer,
                     left |-> sync.left \ {a}]
        BY <1>a, <2>1, <3>2
      <4> QED
        BY <2>1, <3>2, <4>1
    <3> QED
      BY <3>1, <3>2
  <2>3. ASSUME NEW b \in sync'.left
        PROVE  P!AnswerFor(sync, b)' = P!AnswerFor(sync, b) /\ sync'.seen = sync.seen /\ sync'.want = sync.want
    <3>1. sync' = [pc |-> sync.pc, want |-> sync.want, seen |-> sync.seen, answer |-> sync.answer,
                   left |-> sync.left \ {a}]
      BY <1>a, <2>2, <2>3
    <3>2. sync'.want = sync.want /\ sync'.seen = sync.seen /\ sync'.answer = sync.answer
      BY <3>1
    <3>3. P!Place(sync, b)' = P!Place(sync, b)
      BY <1>att, <3>2 DEF P!Place, P!Changed
    <3> QED
      BY <3>2, <3>3 DEF P!AnswerFor
  <2>4. /\ a \in P!Attributes /\ new \in 0..ids /\ ids \in Nat
        /\ \A e \in live : e.id # sync.seen[a].entry
        /\ new # 0 => /\ new \notin lost
                      /\ \A b \in P!Attributes : db[b].entry # new
                      /\ \A b \in sync.left \ {a} : P!AnswerFor(sync, b) # new
    BY <1>a DEF P!AnswersAreFresh, P!Numbered
  <2>5. ASSUME NEW b \in sync.left
        PROVE  /\ b \in P!Attributes /\ P!AnswerFor(sync, b) \in 0..ids
               /\ \A e \in live : e.id # sync.seen[b].entry
               /\ P!AnswerFor(sync, b) # 0 =>
                     /\ P!AnswerFor(sync, b) \notin lost
                     /\ \A c \in P!Attributes : db[c].entry # P!AnswerFor(sync, b)
                     /\ \A c \in sync.left \ {b} : P!AnswerFor(sync, c) # P!AnswerFor(sync, b)
    BY <1>a DEF P!AnswersAreFresh
  <2>6. /\ \A b \in P!Attributes : db[b].entry \in 0..ids
        /\ lost \subseteq 1..ids
        /\ \A e \in live : e.id \in 1..ids /\ e.attr \in P!Attributes
    BY <1>a DEF P!Numbered
  <2>7. \A b \in P!Attributes : db[b].entry # 0 =>
           db[b].entry \notin lost /\ \A c \in P!Attributes \ {b} : db[c].entry # db[b].entry
    BY <1>a DEF P!RowsDiffer
  <2> HIDE DEF new
  <2>8. /\ DOMAIN db' = P!Attributes
        /\ \A b \in P!Attributes \ {a} : db'[b] = db[b]
        /\ db'[a] = db[a] \/ db'[a] = [value |-> sync.want[a], entry |-> new]
    BY <1>a, <2>1, <2>4
  <2>9. \A b \in P!Attributes : db'[b].entry \in 0..ids
    BY <2>4, <2>6, <2>8
  \* The ids no row will name, any more or ever.
  <2>10. /\ lost' \subseteq 1..ids /\ lost \subseteq lost'
         /\ \A x \in lost' \ lost : x # 0
         /\ wrote => \A x \in lost' \ lost : x = db[a].entry
         /\ failed => \A x \in lost' \ lost : x = new
    <3>1. \A x \in P!Forgotten(a) : x = db[a].entry /\ x # 0
      BY DEF P!Forgotten
    <3>2. db[a].entry \in 0..ids /\ \A x \in 0..ids : x # 0 => x \in 1..ids
      BY <2>4, <2>6
    <3>3. ASSUME wrote
          PROVE  /\ lost' \subseteq 1..ids /\ lost \subseteq lost'
                 /\ \A x \in lost' \ lost : x # 0 /\ x = db[a].entry
      BY <2>6, <3>1, <3>2, <3>3
    <3>4. ASSUME failed
          PROVE  /\ lost' \subseteq 1..ids /\ lost \subseteq lost'
                 /\ \A x \in lost' \ lost : x # 0 /\ x = new
      BY <2>4, <2>6, <3>2, <3>4
    <3> HIDE DEF wrote, failed
    <3> QED
      BY <2>1, <3>3, <3>4
  <2>11. P!Numbered'
    BY <1>a, <1>att, <2>1, <2>2, <2>9, <2>10 DEF P!Numbered
  <2>12. ASSUME NEW b \in P!Attributes, db'[b].entry # 0
         PROVE  /\ db'[b].entry \notin lost'
                /\ \A c \in P!Attributes \ {b} : db'[c].entry # db'[b].entry
    <3>1. CASE wrote
      <4>1. db'[a] = [value |-> sync.want[a], entry |-> new]
        BY <1>a, <2>4, <3>1
      <4>2. \A x \in lost' : x \in lost \/ (x = db[a].entry /\ x # 0)
        BY <2>10, <3>1
      <4>3. CASE b = a
        <5>1. db'[b].entry = new
          BY <4>1, <4>3
        <5>2. new \notin lost'
          BY <2>4, <2>12, <4>2, <5>1
        <5>3. \A c \in P!Attributes \ {b} : db'[c].entry # new
          BY <2>4, <2>8, <2>12, <4>3, <5>1
        <5> QED
          BY <5>1, <5>2, <5>3
      <4>4. CASE b # a
        <5>1. db'[b] = db[b] /\ db[b].entry # 0
          BY <2>8, <2>12, <4>4
        <5>2. db[b].entry \notin lost'
          BY <2>4, <2>7, <4>2, <4>4, <5>1
        <5>3. db[b].entry # new
          BY <2>4, <5>1
        <5>4. ASSUME NEW c \in P!Attributes \ {b} PROVE db'[c].entry # db[b].entry
          <6>1. CASE c = a
            <7>1. db'[c].entry = new
              BY <4>1, <6>1
            <7> QED
              BY <5>3, <7>1
          <6>2. CASE c # a
            BY <2>7, <2>8, <5>1, <6>2
          <6> QED
            BY <6>1, <6>2
        <5> QED
          BY <5>1, <5>2, <5>4
      <4> QED
        BY <4>3, <4>4
    <3>2. CASE failed
      <4>1. db' = db /\ \A x \in lost' : x \in lost \/ (x = new /\ x # 0)
        BY <2>10, <3>2
      <4>2. db[b].entry \notin lost'
        BY <2>4, <2>7, <2>12, <4>1
      <4> QED
        BY <2>7, <2>12, <4>1, <4>2
    <3> QED
      BY <2>1, <3>1, <3>2
  <2>13. ASSUME NEW b \in sync'.left
         PROVE  /\ b \in P!Attributes /\ P!AnswerFor(sync, b)' \in 0..ids'
                /\ \A e \in live' : e.id # sync'.seen[b].entry
                /\ P!AnswerFor(sync, b)' # 0 =>
                      /\ P!AnswerFor(sync, b)' \notin lost'
                      /\ \A c \in P!Attributes : db'[c].entry # P!AnswerFor(sync, b)'
                      /\ \A c \in sync'.left \ {b} : P!AnswerFor(sync, c)' # P!AnswerFor(sync, b)'
    <3> DEFINE next == P!AnswerFor(sync, b)
    <3>1. b \in sync.left \ {a} /\ P!AnswerFor(sync, b)' = next /\ sync'.seen = sync.seen
      BY <2>2, <2>3
    <3>2. next \in 0..ids' /\ \A e \in live' : e.id # sync'.seen[b].entry
      BY <2>1, <2>5, <3>1
    <3>3. ASSUME next # 0
          PROVE  /\ next \notin lost' /\ \A c \in P!Attributes : db'[c].entry # next
                 /\ \A c \in sync'.left \ {b} : P!AnswerFor(sync, c)' # next
      <4>1. /\ next \notin lost /\ next # new
            /\ \A c \in P!Attributes : db[c].entry # next
            /\ \A c \in sync.left \ {b} : P!AnswerFor(sync, c) # next
        BY <2>5, <3>1, <3>3 DEF new
      <4> HIDE DEF next
      <4>2. next \notin lost'
        <5> HIDE DEF wrote, failed
        <5> QED
          BY <2>1, <2>4, <2>10, <4>1
      <4>3. \A c \in P!Attributes : db'[c].entry # next
        <5>1. CASE db'[a] = [value |-> sync.want[a], entry |-> new]
          <6>1. db'[a].entry = new
            BY <5>1
          <6> QED
            BY <2>8, <4>1, <6>1
        <5>2. CASE db'[a] = db[a]
          BY <2>8, <4>1, <5>2
        <5> QED
          BY <2>8, <5>1, <5>2
      <4>4. \A c \in sync'.left \ {b} : c \in sync.left \ {b} /\ P!AnswerFor(sync, c)' = P!AnswerFor(sync, c)
        BY <2>2, <2>3
      <4> QED
        BY <4>1, <4>2, <4>3, <4>4
    <3> QED
      BY <2>5, <3>1, <3>2, <3>3
  <2>14. ASSUME NEW e \in live, e.id \notin lost' PROVE P!Written(e)' \/ P!ToBeWritten(e)'
    <3>1. e.id \notin lost /\ e.id # 0 /\ e.attr \in P!Attributes /\ (P!Written(e) \/ P!ToBeWritten(e))
      BY <1>a, <2>6, <2>10, <2>14
    <3>2. CASE wrote
      <4>1. db'[a] = [value |-> sync.want[a], entry |-> new]
        BY <1>a, <2>4, <3>2
      <4>2. CASE P!Written(e) /\ e.attr = a
        <5>1. e.id = db[a].entry
          BY <4>2 DEF P!Written
        <5>2. e.id \in P!Forgotten(a)
          BY <2>4, <3>1, <5>1 DEF P!Forgotten
        <5> QED
          BY <2>14, <3>2, <5>2
      <4>3. CASE P!Written(e) /\ e.attr # a
        BY <2>8, <3>1, <4>3 DEF P!Written
      <4>4. CASE P!ToBeWritten(e) /\ e.attr = a
        BY <4>1, <4>4 DEF P!ToBeWritten, P!Written, new
      <4>5. CASE P!ToBeWritten(e) /\ e.attr # a
        BY <2>2, <2>3, <4>5 DEF P!ToBeWritten
      <4> QED
        BY <3>1, <4>2, <4>3, <4>4, <4>5
    <3>3. CASE failed
      <4>1. CASE P!Written(e)
        BY <3>3, <4>1 DEF P!Written
      <4>2. CASE P!ToBeWritten(e) /\ e.attr = a
        <5>1. e.id = new
          BY <4>2 DEF P!ToBeWritten, new
        <5> QED
          BY <2>14, <3>1, <3>3, <5>1
      <4>3. CASE P!ToBeWritten(e) /\ e.attr # a
        BY <2>2, <2>3, <4>3 DEF P!ToBeWritten
      <4> QED
        BY <3>1, <4>1, <4>2, <4>3
    <3> QED
      BY <2>1, <3>2, <3>3
  <2>15. P!RowsDiffer'
    BY <1>att, <2>12 DEF P!RowsDiffer
  <2>16. P!AnswersAreFresh'
    BY <1>att, <2>13 DEF P!AnswersAreFresh
  <2>17. \A e \in live' : e.id \notin lost' => P!Written(e)' \/ P!ToBeWritten(e)'
    BY <2>1, <2>14
  <2> QED
    BY <1>att, <2>2, <2>8, <2>11, <2>15, <2>16, <2>17 DEF P!MirrorInv
<1>7. CASE P!FinishRefresh
  <2>1. sync.left = {} /\ UNCHANGED <<db, live, ids, lost>> /\ sync' = P!Idle
    BY <1>a, <1>7 DEF P!FinishRefresh
  <2> QED
    BY <1>c, <1>none, <1>idle, <2>1
<1>8. CASE P!SyncFails \/ P!Crash
  <2>1. UNCHANGED <<db, live, ids>> /\ sync' = P!Idle /\ lost' = lost \cup P!Unknown
    BY <1>8 DEF P!SyncFails, P!Crash
  <2> QED
    BY <1>c, <1>idle, <2>1
<1>9. ASSUME NEW e \in live, P!Dropped(e) PROVE P!MirrorInv'
  BY <1>b, <1>9 DEF P!Dropped
<1>10. CASE P!Link \/ P!Unlink \/ \E c \in calls : P!LinkHandled(c)
  BY <1>b, <1>10 DEF P!Link, P!Unlink, P!LinkHandled, P!MessagesQuiet
<1>11. CASE UNCHANGED projectionVars
  BY <1>b, <1>11 DEF projectionVars
<1> QED
  BY <1>1, <1>2, <1>3, <1>4, <1>5, <1>6, <1>7, <1>8, <1>9, <1>10, <1>11 DEF P!Next

(* Between syncs a row names no live entry but one of its own attribute    *)
(* and value, and a live entry that no row names is one whose answer, row  *)
(* or read was lost (sync), for any values and faults.                     *)
THEOREM MirrorStaysExact == ServicesSpec => []MirrorIsExact
<1>1. ServicesInit => P!MirrorInv
  BY MirrorInitial DEF ServicesInit
<1>2. P!MirrorInv /\ [ServicesNext]_services => P!MirrorInv'
  BY MirrorStep DEF ServicesNext, services
<1>3. P!MirrorInv => MirrorIsExact
  <2> SUFFICES ASSUME P!MirrorInv, P!Between, NEW e \in live
               PROVE  /\ e.id \notin lost => db[e.attr] = [value |-> e.value, entry |-> e.id]
                      /\ \A a \in P!Attributes :
                            db[a].entry = e.id => e.attr = a /\ e.value = db[a].value
    BY DEF MirrorIsExact, P!MirrorIsExact
  <2>1. sync.left = {} /\ e.id # 0 /\ e.attr \in P!Attributes
    BY DEF P!Between, P!MirrorInv, P!Numbered
  <2>2. ASSUME e.id \notin lost PROVE db[e.attr] = [value |-> e.value, entry |-> e.id]
    BY <2>1, <2>2 DEF P!MirrorInv, P!Written, P!ToBeWritten
  <2>3. ASSUME NEW a \in P!Attributes, db[a].entry = e.id PROVE e.attr = a /\ e.value = db[a].value
    <3>1. e.id \notin lost /\ \A b \in P!Attributes \ {a} : db[b].entry # e.id
      BY <2>1, <2>3 DEF P!MirrorInv, P!RowsDiffer
    <3>2. db[e.attr].entry = e.id /\ db[e.attr].value = e.value
      BY <2>2, <3>1
    <3> QED
      BY <2>1, <3>1, <3>2
  <2> QED
    BY <2>2, <2>3
<1> QED
  BY <1>1, <1>2, <1>3, PTL DEF ServicesSpec

-----------------------------------------------------------------------------
(* The connector.                                                          *)

(* A sequence over any set is one over what it holds.                      *)
LEMMA IsSeqOfItsOwn == ASSUME NEW T, NEW s \in Seq(T) PROVE N!IsSeq(s)
BY DEF N!IsSeq

(* A sequence over what it holds, lengthened by one.                       *)
LEMMA LongerByOne ==
    ASSUME NEW s, N!IsSeq(s), NEW x
    PROVE  /\ N!IsSeq(Append(s, x)) /\ Append(s, x) # << >>
           /\ DOMAIN Append(s, x) = 1..(Len(s) + 1) /\ DOMAIN s = 1..Len(s) /\ Len(s) \in Nat
           /\ Len(Append(s, x)) = Len(s) + 1
           /\ Append(s, x)[Len(s) + 1] = x
           /\ \A i \in DOMAIN s : Append(s, x)[i] = s[i]
<1> DEFINE U == {s[i] : i \in DOMAIN s} \cup {x}
           t == Append(s, x)
<1>1. s \in Seq(U) /\ x \in U
  BY DEF N!IsSeq
<1> HIDE DEF U
<1>2. t \in Seq(U)
  BY <1>1
<1>3. /\ DOMAIN t = 1..(Len(s) + 1) /\ DOMAIN s = 1..Len(s) /\ Len(s) \in Nat
      /\ Len(t) = Len(s) + 1 /\ t[Len(s) + 1] = x /\ \A i \in DOMAIN s : t[i] = s[i]
  BY <1>1
<1>4. t # << >>
  BY <1>3
<1>5. N!IsSeq(t)
  BY <1>2, IsSeqOfItsOwn
<1> QED
  BY <1>3, <1>4, <1>5

(* The same, with one element replaced.                                    *)
LEMMA ReplacedOne ==
    ASSUME NEW s, N!IsSeq(s), NEW k \in DOMAIN s, NEW x
    PROVE  /\ N!IsSeq([s EXCEPT ![k] = x]) /\ Len([s EXCEPT ![k] = x]) = Len(s)
           /\ DOMAIN [s EXCEPT ![k] = x] = DOMAIN s
<1> DEFINE U == {s[i] : i \in DOMAIN s} \cup {x}
           t == [s EXCEPT ![k] = x]
<1>1. s \in Seq(U) /\ x \in U
  BY DEF N!IsSeq
<1> HIDE DEF U
<1>2. t \in Seq(U) /\ Len(t) = Len(s) /\ DOMAIN t = DOMAIN s
  BY <1>1
<1>3. N!IsSeq(t)
  BY <1>2, IsSeqOfItsOwn
<1> QED
  BY <1>2, <1>3

(* What is relayed of a message's files is no more than there are.         *)
LEMMA AboutFiles == \A m \in Message : N!Plan(About[m].files) \in Nat /\ N!Plan(About[m].files) <= About[m].files
BY MessageAssumption DEF N!Plan

(* A channel whose slots are renumbered in order says what it said.        *)
LEMMA SaidAfterRenumbering ==
    ASSUME NEW c, N!Said(c), submitted'[c] = submitted[c], NEW f,
           \A s \in N!Slots(c)' :
              /\ f[s] \in N!Slots(c)
              /\ N!CarriedAt(c, s)'.message = N!CarriedAt(c, f[s]).message
              /\ N!CarriedAt(c, s)'.files + N!CarriedAt(c, s)'.notes = N!CarriedAt(c, f[s]).files + N!CarriedAt(c, f[s]).notes,
           \A s, t \in N!Slots(c)' : N!Before(s, t) => N!Before(f[s], f[t]),
           \A r \in N!Slots(c) : \E s \in N!Slots(c)' : f[s] = r
    PROVE  N!Said(c)'
<1> DEFINE old == N!Slots(c)
           new == N!Slots(c)'
           O(s) == N!CarriedAt(c, s)
           W(s) == N!CarriedAt(c, s)'
<1>1. {W(s).message : s \in new} = {O(s).message : s \in old}
  <2> HIDE DEF old, new, O, W
  <2>1. \A s \in new : f[s] \in old /\ W(s).message = O(f[s]).message
    BY DEF old, new, O, W
  <2>2. \A r \in old : \E s \in new : f[s] = r
    BY DEF old, new
  <2> QED
    BY <2>1, <2>2
<1>2. \A i, j \in DOMAIN submitted'[c] : i # j => submitted'[c][i] # submitted'[c][j]
  BY DEF N!Said
<1>3. \A s, t \in new : N!Before(s, t) =>
         \E i, j \in DOMAIN submitted[c] :
             /\ i < j /\ submitted[c][i] = W(s).message
             /\ submitted[c][j] = W(t).message
  <2> SUFFICES ASSUME NEW s \in new, NEW t \in new, N!Before(s, t)
               PROVE  \E i, j \in DOMAIN submitted[c] :
                        /\ i < j /\ submitted[c][i] = W(s).message
                        /\ submitted[c][j] = W(t).message
    OBVIOUS
  <2>1. f[s] \in old /\ f[t] \in old /\ N!Before(f[s], f[t])
    OBVIOUS
  <2>2. PICK i, j \in DOMAIN submitted[c] :
           i < j /\ submitted[c][i] = O(f[s]).message /\ submitted[c][j] = O(f[t]).message
    BY <2>1 DEF N!Said, N!InOrder
  <2>3. W(s).message = O(f[s]).message /\ W(t).message = O(f[t]).message
    OBVIOUS
  <2> HIDE DEF old, new, O, W
  <2> QED
    BY <2>2, <2>3
<1>4. \A s \in new : W(s).files + W(s).notes = About[W(s).message].files
  BY DEF N!Said
<1>5. N!InOrder(c)'
  BY <1>3 DEF N!InOrder, N!Before
<1>6. {W(s).message : s \in new} = {submitted'[c][i] : i \in DOMAIN submitted'[c]}
  <2>1. {O(s).message : s \in old} = {submitted[c][i] : i \in DOMAIN submitted[c]}
    BY DEF N!Said
  <2> HIDE DEF old, new, O, W
  <2> QED
    BY <1>1, <2>1
<1> QED
  BY <1>6, <1>2, <1>4, <1>5 DEF N!Said

(* Nothing has been said at the start.                                     *)
LEMMA ConnectorInitial == N!Init => N!ConnectorInv
<1> SUFFICES ASSUME N!Init PROVE N!ConnectorInv
  OBVIOUS
<1> USE DEF N!Init
<1>1. N!ConnectorTypes
  BY DEF N!ConnectorTypes, N!IsSeq, N!IsBatch
<1>2. N!Waiting
  BY DEF N!Waiting
<1>3. ASSUME NEW c \in N!Channel PROVE N!Said(c)
  <2>1. Len(sends) = 0 /\ queue[c] = << >> /\ submitted[c] = << >>
    BY DEF N!Channel
  <2>2. N!Slots(c) = {}
    BY <2>1 DEF N!Slots, N!Carried
  <2> QED
    BY <2>1, <2>2 DEF N!Said, N!InOrder
<1> QED
  BY <1>1, <1>2, <1>3 DEF N!ConnectorInv, N!NothingSaidIsLost

(* What a slot is.                                                         *)
LEMMA SlotIs ==
    ASSUME NEW c
    PROVE  /\ \A k \in 1..(Len(sends) + 1) : \A i \in DOMAIN N!Carried(c, k) :
                /\ <<k, i>> \in N!Slots(c) /\ N!CarriedAt(c, <<k, i>>) = N!Carried(c, k)[i]
           /\ \A s \in N!Slots(c) :
                /\ s = <<s[1], s[2]>> /\ s[1] \in 1..(Len(sends) + 1)
                /\ s[2] \in DOMAIN N!Carried(c, s[1])
<1>1. ASSUME NEW k \in 1..(Len(sends) + 1), NEW i \in DOMAIN N!Carried(c, k)
      PROVE  <<k, i>> \in N!Slots(c)
  BY DEF N!Slots
<1>2. ASSUME NEW s \in N!Slots(c)
      PROVE  /\ s = <<s[1], s[2]>> /\ s[1] \in 1..(Len(sends) + 1)
             /\ s[2] \in DOMAIN N!Carried(c, s[1])
  <2>1. PICK k \in 1..(Len(sends) + 1) : s \in {<<k, i>> : i \in DOMAIN N!Carried(c, k)}
    BY DEF N!Slots
  <2>2. PICK i \in DOMAIN N!Carried(c, k) : s = <<k, i>>
    BY <2>1
  <2> QED
    BY <2>2
<1> QED
  BY <1>1, <1>2 DEF N!CarriedAt

(* Requests that keep their channel, their messages and, file by file, what *)
(* is shared or announced leave what is said alone.                        *)
LEMMA SaidAlike ==
    ASSUME NEW c, N!Said(c), submitted'[c] = submitted[c], Len(sends) \in Nat,
           Len(sends') = Len(sends), queue'[c] = queue[c],
           \A k \in 1..Len(sends) :
              /\ sends'[k].channel = sends[k].channel
              /\ DOMAIN sends'[k].batch = DOMAIN sends[k].batch
              /\ \A i \in DOMAIN sends[k].batch :
                    /\ sends'[k].batch[i].message = sends[k].batch[i].message
                    /\ sends'[k].batch[i].files + sends'[k].batch[i].notes
                          = sends[k].batch[i].files + sends[k].batch[i].notes
    PROVE  N!Said(c)'
<1> DEFINE C0(k) == N!Carried(c, k)
           C1(k) == N!Carried(c, k)'
           f == [s \in N!Slots(c) |-> s]
<1>1. ASSUME NEW k \in 1..(Len(sends) + 1)
      PROVE  /\ DOMAIN C1(k) = DOMAIN C0(k)
             /\ \A i \in DOMAIN C0(k) :
                    /\ C1(k)[i].message = C0(k)[i].message
                    /\ C1(k)[i].files + C1(k)[i].notes = C0(k)[i].files + C0(k)[i].notes
  BY DEF N!Carried
<1>2. N!Slots(c)' = N!Slots(c)
  BY <1>1 DEF N!Slots
<1>3. ASSUME NEW s \in N!Slots(c)'
      PROVE  /\ f[s] \in N!Slots(c)
             /\ N!CarriedAt(c, s)'.message = N!CarriedAt(c, f[s]).message
             /\ N!CarriedAt(c, s)'.files + N!CarriedAt(c, s)'.notes = N!CarriedAt(c, f[s]).files + N!CarriedAt(c, f[s]).notes
  <2>1. f[s] = s /\ s[1] \in 1..(Len(sends) + 1) /\ s[2] \in DOMAIN C0(s[1]) /\ s \in N!Slots(c)
    BY <1>2, SlotIs
  <2>2. N!CarriedAt(c, s) = C0(s[1])[s[2]] /\ N!CarriedAt(c, s)' = C1(s[1])[s[2]]
    BY DEF N!CarriedAt
  <2> HIDE DEF C0, C1, f
  <2> QED
    BY <2>1, <2>2, <1>1
<1>4. \A s, t \in N!Slots(c)' : N!Before(s, t) => N!Before(f[s], f[t])
  BY <1>2
<1>5. \A r \in N!Slots(c) : \E s \in N!Slots(c)' : f[s] = r
  BY <1>2
<1> HIDE DEF f
<1> QED
  BY <1>3, <1>4, <1>5, SaidAfterRenumbering

(* A channel whose queue leaves as one request, and the others.            *)
LEMMA SaidAfterFire ==
    ASSUME NEW c, NEW d, N!Said(c), submitted'[c] = submitted[c], N!IsSeq(sends), NEW x,
           sends' = Append(sends, x), x.channel = d, x.batch = queue[d],
           queue'[c] = IF c = d THEN << >> ELSE queue[c]
    PROVE  N!Said(c)'
<1>0. Len(sends) \in Nat
  BY LongerByOne
<1> PICK n \in Nat : n = Len(sends)
  BY <1>0
<1> DEFINE C0(k) == N!Carried(c, k)
           C1(k) == N!Carried(c, k)'
           f == [s \in N!Slots(c)' |-> IF s[1] = n + 2 THEN <<n + 1, s[2]>> ELSE s]
<1>1. /\ Len(sends') = n + 1 /\ sends'[n + 1] = x
      /\ \A k \in 1..n : sends'[k] = sends[k]
  BY LongerByOne
<1>2. \A k \in 1..n : C1(k) = C0(k)
  BY <1>1 DEF N!Carried
<1>3. C0(n + 1) = queue[c] /\ C1(n + 1) = (IF c = d THEN queue[c] ELSE << >>)
      /\ C1(n + 2) = (IF c = d THEN << >> ELSE queue[c])
  BY <1>1 DEF N!Carried
<1>4. ASSUME NEW s \in N!Slots(c)'
      PROVE  /\ s = <<s[1], s[2]>> /\ s[1] \in 1..(n + 2) /\ s[2] \in DOMAIN C1(s[1])
             /\ N!CarriedAt(c, s)' = C1(s[1])[s[2]]
             /\ (s[1] \in 1..n /\ f[s] = s) \/ (c = d /\ s[1] = n + 1 /\ f[s] = s)
                  \/ (c # d /\ s[1] = n + 2 /\ f[s] = <<n + 1, s[2]>>)
  <2>1. s = <<s[1], s[2]>> /\ s[1] \in 1..(Len(sends') + 1) /\ s[2] \in DOMAIN C1(s[1])
    <3>1. s = <<s[1], s[2]>> /\ s[1] \in 1..(Len(sends) + 1)' /\ s[2] \in DOMAIN N!Carried(c, s[1])'
      <4>1. PICK k \in 1..(Len(sends) + 1)' : s \in {<<k, i>> : i \in DOMAIN C1(k)}
        BY DEF N!Slots
      <4>2. PICK i \in DOMAIN C1(k) : s = <<k, i>>
        BY <4>1
      <4> QED
        BY <4>2
    <3> QED
      BY <3>1
  <2>2. s[1] \in 1..(n + 2)
    BY <1>1, <2>1
  <2>3. N!CarriedAt(c, s)' = C1(s[1])[s[2]]
    BY DEF N!CarriedAt
  <2>4. ~(c = d /\ s[1] = n + 2) /\ ~(c # d /\ s[1] = n + 1)
    BY <1>3, <2>1
  <2>5. f[s] = IF s[1] = n + 2 THEN <<n + 1, s[2]>> ELSE s
    OBVIOUS
  <2>6. s[1] \in 1..n \/ s[1] = n + 1 \/ s[1] = n + 2
    BY ONLY n \in Nat, <2>2
  <2> HIDE DEF C1, f
  <2> QED
    BY <1>1, <2>1, <2>2, <2>3, <2>4, <2>5, <2>6
<1>5. ASSUME NEW s \in N!Slots(c)'
      PROVE  f[s] \in N!Slots(c) /\ N!CarriedAt(c, s)' = N!CarriedAt(c, f[s])
  <2>1. CASE s[1] \in 1..n /\ f[s] = s
    <3>0. C1(s[1]) = C0(s[1]) /\ s[1] \in 1..(Len(sends) + 1)
      BY <1>2, <2>1
    <3>1. s[2] \in DOMAIN C1(s[1]) /\ s = <<s[1], s[2]>>
      BY <1>4
    <3>2. s \in N!Slots(c) /\ N!CarriedAt(c, s) = C0(s[1])[s[2]]
      BY <3>0, <3>1, SlotIs
    <3> HIDE DEF C0, C1, f
    <3> QED
      BY <3>0, <3>2, <2>1, <1>4
  <2>2. CASE s[1] \in {n + 1, n + 2} /\ f[s] = <<n + 1, s[2]>>
    <3>1. C1(s[1]) = C0(n + 1)
      BY <1>1, <1>3, <1>4, <2>2
    <3>2. s[2] \in DOMAIN C0(n + 1)
      <4>1. s[2] \in DOMAIN C1(s[1])
        BY <1>4
      <4> HIDE DEF C0, C1, f
      <4> QED
        BY <4>1, <3>1
    <3>3. f[s] \in N!Slots(c) /\ N!CarriedAt(c, f[s]) = C0(n + 1)[s[2]]
      <4>1. n + 1 \in 1..(Len(sends) + 1)
        BY n = Len(sends)
      <4>2. <<n + 1, s[2]>> \in N!Slots(c) /\ N!CarriedAt(c, <<n + 1, s[2]>>) = C0(n + 1)[s[2]]
        BY <4>1, <3>2, SlotIs
      <4> HIDE DEF C0, C1, f
      <4> QED
        BY <4>2, <2>2
    <3> HIDE DEF C0, C1, f
    <3> QED
      BY <3>1, <3>3, <1>4
  <2> HIDE DEF f
  <2> QED
    BY <1>4, <2>1, <2>2
<1>6. \A s, t \in N!Slots(c)' : N!Before(s, t) => N!Before(f[s], f[t])
  <2> SUFFICES ASSUME NEW s \in N!Slots(c)', NEW t \in N!Slots(c)', N!Before(s, t)
               PROVE  N!Before(f[s], f[t])
    OBVIOUS
  <2>1. s[1] \in 1..(n + 2) /\ t[1] \in 1..(n + 2)
    BY <1>4
  <2>2. /\ (s[1] \in 1..n /\ f[s] = s) \/ (c = d /\ s[1] = n + 1 /\ f[s] = s)
             \/ (c # d /\ s[1] = n + 2 /\ f[s] = <<n + 1, s[2]>>)
        /\ (t[1] \in 1..n /\ f[t] = t) \/ (c = d /\ t[1] = n + 1 /\ f[t] = t)
             \/ (c # d /\ t[1] = n + 2 /\ f[t] = <<n + 1, t[2]>>)
    BY <1>4
  <2> HIDE DEF f
  <2> QED
    BY <1>1, <2>1, <2>2 DEF N!Before
<1>7. \A r \in N!Slots(c) : \E s \in N!Slots(c)' : f[s] = r
  <2> SUFFICES ASSUME NEW r \in N!Slots(c) PROVE \E s \in N!Slots(c)' : f[s] = r
    OBVIOUS
  <2>1. r = <<r[1], r[2]>> /\ r[1] \in 1..(n + 1) /\ r[2] \in DOMAIN C0(r[1])
    BY SlotIs
  <2>2. \A k \in 1..(n + 2) : \A i \in DOMAIN C1(k) : <<k, i>> \in N!Slots(c)'
    <3>1. (1..(Len(sends) + 1))' = 1..(n + 2)
      BY <1>1
    <3> QED
      BY <3>1 DEF N!Slots
  <2>3. CASE r[1] \in 1..n \/ c = d
    <3>1. C1(r[1]) = C0(r[1])
      BY <1>1, <1>2, <1>3, <2>1, <2>3
    <3>2. r \in N!Slots(c)'
      BY <1>1, <2>1, <2>2, <3>1
    <3>3. f[r] = r
      BY <3>2, <2>1, <1>1
    <3> QED
      BY <3>2, <3>3
  <2>4. CASE r[1] = n + 1 /\ c # d
    <3>1. <<n + 2, r[2]>> \in N!Slots(c)'
      BY <1>1, <1>3, <2>1, <2>2, <2>4
    <3>2. f[<<n + 2, r[2]>>] = <<n + 1, r[2]>>
      BY <3>1
    <3> QED
      BY <3>1, <3>2, <2>1, <2>4
  <2> QED
    BY <1>1, <2>1, <2>3, <2>4
<1>8. ASSUME NEW s \in N!Slots(c)'
      PROVE  /\ f[s] \in N!Slots(c)
             /\ N!CarriedAt(c, s)'.message = N!CarriedAt(c, f[s]).message
             /\ N!CarriedAt(c, s)'.files + N!CarriedAt(c, s)'.notes = N!CarriedAt(c, f[s]).files + N!CarriedAt(c, f[s]).notes
  <2> HIDE DEF f
  <2> QED
    BY <1>5
<1> HIDE DEF f
<1> QED
  BY <1>6, <1>7, <1>8, SaidAfterRenumbering

(* A message submitted to a channel is its last word.                      *)
LEMMA SaidAfterSubmit ==
    ASSUME NEW c, N!Said(c), N!IsSeq(queue[c]), sends' = sends, Len(sends) \in Nat,
           submitted[c] \in Seq(Message), NEW m \in Message, NEW x,
           \A i \in DOMAIN submitted[c] : submitted[c][i] # m,
           queue'[c] = Append(queue[c], x), submitted'[c] = Append(submitted[c], m),
           x.message = m, x.files + x.notes = About[m].files
    PROVE  N!Said(c)'
<1>0. Len(queue[c]) \in Nat /\ Len(submitted[c]) \in Nat
  BY LongerByOne
<1> PICK n \in Nat, q \in Nat, u \in Nat :
       n = Len(sends) /\ q = Len(queue[c]) /\ u = Len(submitted[c])
  BY <1>0
<1> DEFINE C0(k) == N!Carried(c, k)
           C1(k) == N!Carried(c, k)'
           last == <<n + 1, q + 1>>
<1>1. /\ \A k \in 1..n : C1(k) = C0(k)
      /\ C0(n + 1) = queue[c] /\ C1(n + 1) = Append(queue[c], x)
  BY DEF N!Carried
<1>2. /\ DOMAIN queue[c] = 1..q /\ DOMAIN Append(queue[c], x) = 1..(q + 1)
      /\ Append(queue[c], x)[q + 1] = x
      /\ \A i \in 1..q : Append(queue[c], x)[i] = queue[c][i]
  BY LongerByOne
<1>3. /\ DOMAIN submitted[c] = 1..u /\ DOMAIN submitted'[c] = 1..(u + 1)
      /\ submitted'[c][u + 1] = m
      /\ \A i \in 1..u : submitted'[c][i] = submitted[c][i]
  OBVIOUS
<1>4. N!Slots(c)' = N!Slots(c) \cup {last}
  <2>1. N!Slots(c)' = UNION {{<<k, i>> : i \in DOMAIN C1(k)} : k \in 1..(n + 1)}
    BY DEF N!Slots
  <2>2. N!Slots(c) = UNION {{<<k, i>> : i \in DOMAIN C0(k)} : k \in 1..(n + 1)}
    BY DEF N!Slots
  <2>3. DOMAIN C1(n + 1) = DOMAIN C0(n + 1) \cup {q + 1}
    <3>1. 1..(q + 1) = 1..q \cup {q + 1}
      OBVIOUS
    <3> QED
      BY <1>1, <1>2, <3>1
  <2>4. \A k \in 1..(n + 1) : k \in 1..n \/ k = n + 1
    OBVIOUS
  <2>5. n + 1 \in 1..(n + 1) /\ \A k \in 1..n : k \in 1..(n + 1) /\ k # n + 1
    OBVIOUS
  <2>6. \A k \in 1..n : C1(k) = C0(k)
    BY <1>1
  <2> HIDE DEF C0, C1
  <2>7. ASSUME NEW s PROVE (s \in N!Slots(c)') <=> (s \in N!Slots(c) \cup {last})
    <3>1. ASSUME s \in N!Slots(c)' PROVE s \in N!Slots(c) \cup {last}
      <4>1. PICK k \in 1..(n + 1) : s \in {<<k, i>> : i \in DOMAIN C1(k)}
        BY <3>1, <2>1
      <4>2. PICK i \in DOMAIN C1(k) : s = <<k, i>>
        BY <4>1
      <4> QED
        BY <4>2, <2>2, <2>3, <2>4, <2>6
    <3>2. ASSUME s \in N!Slots(c) PROVE s \in N!Slots(c)'
      <4>1. PICK k \in 1..(n + 1) : s \in {<<k, i>> : i \in DOMAIN C0(k)}
        BY <3>2, <2>2
      <4>2. PICK i \in DOMAIN C0(k) : s = <<k, i>>
        BY <4>1
      <4> QED
        BY <4>2, <2>1, <2>3, <2>4, <2>6
    <3>3. last \in N!Slots(c)'
      BY <2>1, <2>3, <2>5
    <3> QED
      BY <3>1, <3>2, <3>3
  <2> QED
    BY <2>7
<1>5. ASSUME NEW s \in N!Slots(c)
      PROVE  /\ N!CarriedAt(c, s)' = N!CarriedAt(c, s)
             /\ N!Before(s, last) /\ ~N!Before(last, s)
  <2>1. s = <<s[1], s[2]>> /\ s[1] \in 1..(n + 1) /\ s[2] \in DOMAIN C0(s[1])
    BY SlotIs
  <2>2. CASE s[1] \in 1..n
    <3>1. C1(s[1]) = C0(s[1])
      BY <1>1, <2>2
    <3>2. N!CarriedAt(c, s)' = N!CarriedAt(c, s)
      BY <3>1 DEF N!CarriedAt
    <3> QED
      BY <3>2, <2>2 DEF N!Before
  <2>3. CASE s[1] = n + 1
    <3>1. s[2] \in 1..q
      BY <1>1, <1>2, <2>1, <2>3
    <3>2. C1(s[1])[s[2]] = C0(s[1])[s[2]]
      BY <1>1, <1>2, <2>3, <3>1
    <3>3. N!CarriedAt(c, s)' = N!CarriedAt(c, s)
      BY <3>2 DEF N!CarriedAt
    <3> QED
      BY <3>1, <3>3, <2>3 DEF N!Before
  <2> QED
    BY <2>1, <2>2, <2>3
<1>6. N!CarriedAt(c, last)' = x /\ ~N!Before(last, last)
  BY <1>1, <1>2 DEF N!CarriedAt, N!Before
<1> HIDE DEF last, C0, C1
<1>7. {N!CarriedAt(c, s)'.message : s \in N!Slots(c)'} = {submitted'[c][i] : i \in DOMAIN submitted'[c]}
  <2>1. {N!CarriedAt(c, s)'.message : s \in N!Slots(c)'}
          = {N!CarriedAt(c, s).message : s \in N!Slots(c)} \cup {m}
    BY <1>4, <1>5, <1>6
  <2>2. {submitted'[c][i] : i \in DOMAIN submitted'[c]}
          = {submitted[c][i] : i \in DOMAIN submitted[c]} \cup {m}
    <3> DEFINE longer == submitted'[c]
               was == submitted[c]
    <3>1. \A i : (i \in 1..(u + 1)) <=> (i \in 1..u \/ i = u + 1)
      OBVIOUS
    <3>2. /\ DOMAIN was = 1..u /\ DOMAIN longer = 1..(u + 1) /\ longer[u + 1] = m
          /\ \A i \in 1..u : longer[i] = was[i]
      BY <1>3
    <3>3. ASSUME NEW y
          PROVE  (\E i \in 1..(u + 1) : y = longer[i]) <=> ((\E i \in 1..u : y = was[i]) \/ y = m)
      <4> HIDE DEF longer, was
      <4> QED
        BY ONLY <3>1, <3>2
    <3>4. {longer[i] : i \in 1..(u + 1)} = {was[i] : i \in 1..u} \cup {m}
      <4> HIDE DEF longer, was
      <4> QED
        BY ONLY <3>3
    <3> QED
      BY ONLY <3>2, <3>4
  <2>3. {N!CarriedAt(c, s).message : s \in N!Slots(c)} = {submitted[c][i] : i \in DOMAIN submitted[c]}
    BY DEF N!Said
  <2> QED
    BY <2>1, <2>2, <2>3
<1>8. \A i, j \in DOMAIN submitted'[c] : i # j => submitted'[c][i] # submitted'[c][j]
  <2>1. \A i, j \in 1..u : i # j => submitted[c][i] # submitted[c][j]
    BY <1>3 DEF N!Said
  <2>2. \A i \in 1..u : submitted[c][i] # m
    BY <1>3
  <2>3. \A i \in 1..(u + 1) : i \in 1..u \/ i = u + 1
    OBVIOUS
  <2> QED
    BY ONLY <1>3, <2>1, <2>2, <2>3
<1>9. N!InOrder(c)'
  <2> SUFFICES ASSUME NEW s \in N!Slots(c)', NEW t \in N!Slots(c)', N!Before(s, t)
               PROVE  \E i, j \in DOMAIN submitted'[c] :
                        /\ i < j /\ submitted'[c][i] = N!CarriedAt(c, s)'.message
                        /\ submitted'[c][j] = N!CarriedAt(c, t)'.message
    BY DEF N!InOrder, N!Before
  <2>1. s \in N!Slots(c)
    BY <1>4, <1>5, <1>6
  <2>2. CASE t \in N!Slots(c)
    <3>1. PICK i, j \in DOMAIN submitted[c] :
             /\ i < j /\ submitted[c][i] = N!CarriedAt(c, s).message
             /\ submitted[c][j] = N!CarriedAt(c, t).message
      BY <2>1, <2>2 DEF N!Said, N!InOrder
    <3>2. i \in 1..u /\ j \in 1..u /\ i \in 1..(u + 1) /\ j \in 1..(u + 1)
      BY <1>3
    <3> QED
      BY <1>3, <1>5, <2>1, <2>2, <3>1, <3>2
  <2>3. CASE t = last
    <3>1. N!CarriedAt(c, s).message \in {submitted[c][i] : i \in DOMAIN submitted[c]}
      BY <2>1 DEF N!Said
    <3>2. PICK i \in 1..u : submitted[c][i] = N!CarriedAt(c, s).message
      BY <3>1, <1>3
    <3>3. i \in 1..(u + 1) /\ u + 1 \in 1..(u + 1) /\ i < u + 1
      OBVIOUS
    <3> QED
      BY <1>3, <1>5, <1>6, <2>1, <2>3, <3>2, <3>3
  <2> QED
    BY <1>4, <2>2, <2>3
<1>10. \A s \in N!Slots(c)' :
          N!CarriedAt(c, s)'.files + N!CarriedAt(c, s)'.notes = About[N!CarriedAt(c, s)'.message].files
  <2>1. \A s \in N!Slots(c) :
          N!CarriedAt(c, s).files + N!CarriedAt(c, s).notes = About[N!CarriedAt(c, s).message].files
    BY DEF N!Said
  <2> QED
    BY <1>4, <1>5, <1>6, <2>1
<1> QED
  BY <1>7, <1>8, <1>9, <1>10 DEF N!Said

(* A batch keeps its shape when its files become announcements.            *)
LEMMA WithoutKeeps ==
    ASSUME NEW b, N!IsBatch(b)
    PROVE  /\ N!IsBatch(N!WithoutAttachments(b))
           /\ DOMAIN N!WithoutAttachments(b) = DOMAIN b
           /\ \A i \in DOMAIN b :
                /\ N!WithoutAttachments(b)[i].message = b[i].message
                /\ N!WithoutAttachments(b)[i].files + N!WithoutAttachments(b)[i].notes
                      = b[i].files + b[i].notes
<1> DEFINE t == N!WithoutAttachments(b)
           U == {t[i] : i \in DOMAIN b}
<1>1. DOMAIN b = 1..Len(b) /\ Len(b) \in Nat
  BY DEF N!IsBatch, N!IsSeq
<1>2. DOMAIN t = DOMAIN b
  BY DEF N!WithoutAttachments
<1>3. ASSUME NEW i \in DOMAIN b
      PROVE  t[i] = [message |-> b[i].message, ref |-> b[i].ref, files |-> 0,
                     notes |-> b[i].notes + b[i].files]
  <2>1. b[i] = [message |-> b[i].message, ref |-> b[i].ref, files |-> b[i].files, notes |-> b[i].notes]
    BY DEF N!IsBatch
  <2>2. t[i] = [b[i] EXCEPT !.files = 0, !.notes = @ + b[i].files]
    BY DEF N!WithoutAttachments
  <2> HIDE DEF t
  <2> QED
    BY <2>1, <2>2
<1>4. t \in Seq(U)
  <2>1. t = [i \in 1..Len(b) |-> t[i]]
    BY <1>1, <1>2 DEF N!WithoutAttachments
  <2> HIDE DEF t
  <2> QED
    BY <1>1, <2>1
<1>5. N!IsSeq(t)
  BY <1>4, IsSeqOfItsOwn
<1>6. \A i \in DOMAIN b : b[i].files \in Int /\ b[i].notes \in Int /\ b[i].message \in Message
  BY DEF N!IsBatch
<1> HIDE DEF t
<1>7. N!IsBatch(t)
  BY <1>2, <1>3, <1>5, <1>6 DEF N!IsBatch
<1>8. \A i \in DOMAIN b : t[i].message = b[i].message /\ t[i].files + t[i].notes = b[i].files + b[i].notes
  <2> SUFFICES ASSUME NEW i \in DOMAIN b
               PROVE  t[i].message = b[i].message /\ t[i].files + t[i].notes = b[i].files + b[i].notes
    OBVIOUS
  <2>1. t[i].message = b[i].message /\ t[i].files = 0 /\ t[i].notes = b[i].notes + b[i].files
    <3>1. t[i] = [message |-> b[i].message, ref |-> b[i].ref, files |-> 0,
                  notes |-> b[i].notes + b[i].files]
      BY <1>3
    <3> QED
      BY ONLY <3>1
  <2>2. b[i].files \in Int /\ b[i].notes \in Int
    BY <1>6
  <2>3. 0 + (b[i].notes + b[i].files) = b[i].files + b[i].notes
    BY <2>2
  <2> QED
    BY <2>1, <2>3
<1> QED
  BY <1>2, <1>7, <1>8 DEF t

(* What is appended to a batch makes a batch.                              *)
LEMMA BatchGrows ==
    ASSUME NEW b, N!IsBatch(b), NEW x,
           x = [message |-> x.message, ref |-> x.ref, files |-> x.files, notes |-> x.notes],
           x.message \in Message, x.files \in Int, x.notes \in Int
    PROVE  N!IsBatch(Append(b, x))
<1>1. N!IsSeq(b)
  BY DEF N!IsBatch
<1>2. /\ N!IsSeq(Append(b, x)) /\ DOMAIN Append(b, x) = 1..(Len(b) + 1) /\ Len(b) \in Nat
      /\ DOMAIN b = 1..Len(b)
      /\ Append(b, x)[Len(b) + 1] = x /\ \A i \in DOMAIN b : Append(b, x)[i] = b[i]
  BY <1>1, LongerByOne
<1>3. \A i \in 1..(Len(b) + 1) : i \in 1..Len(b) \/ i = Len(b) + 1
  BY <1>2
<1> DEFINE t == Append(b, x)
<1>4. ASSUME NEW i \in DOMAIN t
      PROVE  /\ t[i] = [message |-> t[i].message, ref |-> t[i].ref, files |-> t[i].files, notes |-> t[i].notes]
             /\ t[i].message \in Message /\ t[i].files \in Int /\ t[i].notes \in Int
  <2>1. CASE i \in DOMAIN b /\ t[i] = b[i]
    <3> HIDE DEF t
    <3> QED
      BY <2>1 DEF N!IsBatch
  <2>2. CASE t[i] = x
    <3> HIDE DEF t
    <3> QED
      BY <2>2
  <2> QED
    BY <1>2, <1>3, <2>1, <2>2
<1> QED
  BY <1>2, <1>4 DEF N!IsBatch

(* What is queued, asked and submitted is as it was.                       *)
LEMMA ConnectorStill ==
    ASSUME N!ConnectorInv, UNCHANGED <<queue, fire, sends, submitted>>,
           DOMAIN handler' = Message,
           \A m \in Message :
              /\ handler'[m] = [pc |-> handler'[m].pc, present |-> handler'[m].present,
                                ref |-> handler'[m].ref]
              /\ handler[m].pc = "submitted" => handler'[m].pc = "submitted"
    PROVE  N!ConnectorInv'
<1>1. N!ConnectorTypes'
  <2>1. N!ConnectorTypes
    BY DEF N!ConnectorInv
  <2>2. queue' = queue /\ fire' = fire /\ sends' = sends /\ submitted' = submitted
    OBVIOUS
  <2>3. DOMAIN queue' = N!Channel /\ DOMAIN fire' = N!Channel /\ submitted' \in [N!Channel -> Seq(Message)]
    BY <2>1, <2>2 DEF N!ConnectorTypes
  <2>4. \A c \in N!Channel : N!IsBatch(queue'[c])
    BY <2>1, <2>2 DEF N!ConnectorTypes
  <2>5. N!IsSeq(sends)'
    BY <2>1, <2>2 DEF N!ConnectorTypes, N!IsSeq
  <2>6. \A k \in DOMAIN sends' :
           sends'[k] = [channel |-> sends'[k].channel, batch |-> sends'[k].batch,
                       present |-> sends'[k].present, pc |-> sends'[k].pc,
                       typing |-> sends'[k].typing, active |-> sends'[k].active]
    BY <2>1, <2>2 DEF N!ConnectorTypes
  <2>7. \A k \in DOMAIN sends' : N!IsBatch(sends'[k].batch)
    BY <2>1, <2>2 DEF N!ConnectorTypes
  <2> QED
    BY <2>3, <2>4, <2>5, <2>6, <2>7 DEF N!ConnectorTypes
<1>2. N!Waiting'
  <2>1. \A c \in N!Channel : \A i \in DOMAIN submitted[c] : submitted[c][i] \in Message
    BY DEF N!ConnectorInv, N!ConnectorTypes
  <2> QED
    BY <2>1 DEF N!ConnectorInv, N!Waiting
<1>3. N!NothingSaidIsLost'
  <2>1. ASSUME NEW c \in N!Channel PROVE N!Said(c)'
    <3>1. N!Said(c) /\ N!IsSeq(sends)
      BY DEF N!ConnectorInv, N!NothingSaidIsLost, N!ConnectorTypes
    <3>2. Len(sends) \in Nat /\ sends' = sends /\ queue' = queue /\ submitted' = submitted
      BY <3>1, LongerByOne
    <3> QED
      BY ONLY <3>1, <3>2, SaidAlike
  <2> QED
    BY <2>1 DEF N!NothingSaidIsLost
<1> QED
  BY <1>1, <1>2, <1>3 DEF N!ConnectorInv

(* One request changes, and keeps its channel and what it carries.         *)
LEMMA RequestChanges ==
    ASSUME N!ConnectorInv, NEW k \in DOMAIN sends, NEW s, sends' = [sends EXCEPT ![k] = s],
           UNCHANGED <<handler, queue, fire, submitted>>,
           s = [channel |-> s.channel, batch |-> s.batch, present |-> s.present, pc |-> s.pc,
                typing |-> s.typing, active |-> s.active],
           s.channel = sends[k].channel, N!IsBatch(s.batch),
           DOMAIN s.batch = DOMAIN sends[k].batch,
           \A i \in DOMAIN s.batch :
              /\ s.batch[i].message = sends[k].batch[i].message
              /\ s.batch[i].files + s.batch[i].notes = sends[k].batch[i].files + sends[k].batch[i].notes
    PROVE  N!ConnectorInv'
<1>1. N!ConnectorTypes /\ N!Waiting /\ N!NothingSaidIsLost
  BY DEF N!ConnectorInv
<1>2. N!IsSeq(sends) /\ Len(sends) \in Nat /\ DOMAIN sends = 1..Len(sends)
  BY <1>1, LongerByOne DEF N!ConnectorTypes
<1>3. N!IsSeq(sends') /\ Len(sends') = Len(sends) /\ DOMAIN sends' = DOMAIN sends
  BY <1>2, ReplacedOne
<1>4. \A j \in DOMAIN sends : sends'[j] = IF j = k THEN s ELSE sends[j]
  BY <1>2
<1>5. ASSUME NEW j \in DOMAIN sends
      PROVE  /\ sends'[j] = [channel |-> sends'[j].channel, batch |-> sends'[j].batch,
                             present |-> sends'[j].present, pc |-> sends'[j].pc,
                             typing |-> sends'[j].typing, active |-> sends'[j].active]
             /\ N!IsBatch(sends'[j].batch)
             /\ sends'[j].channel = sends[j].channel
             /\ DOMAIN sends'[j].batch = DOMAIN sends[j].batch
             /\ \A i \in DOMAIN sends[j].batch :
                   /\ sends'[j].batch[i].message = sends[j].batch[i].message
                   /\ sends'[j].batch[i].files + sends'[j].batch[i].notes
                         = sends[j].batch[i].files + sends[j].batch[i].notes
  <2>1. CASE j = k
    <3>1. sends'[j] = s
      BY <1>4, <2>1
    <3> QED
      BY <3>1, <2>1
  <2>2. CASE j # k
    <3>1. sends'[j] = sends[j]
      BY <1>4, <2>2
    <3>2. /\ sends[j] = [channel |-> sends[j].channel, batch |-> sends[j].batch,
                         present |-> sends[j].present, pc |-> sends[j].pc,
                         typing |-> sends[j].typing, active |-> sends[j].active]
          /\ N!IsBatch(sends[j].batch)
      BY <1>1 DEF N!ConnectorTypes
    <3> QED
      BY <3>1, <3>2
  <2> QED
    BY <2>1, <2>2
<1>6. N!ConnectorTypes'
  <2>1. \A j \in DOMAIN sends' : N!IsBatch(sends'[j].batch)
    BY <1>3, <1>5
  <2>2. \A c \in N!Channel : N!IsBatch(queue'[c])
    BY <1>1 DEF N!ConnectorTypes
  <2>3. N!IsSeq(sends)'
    BY <1>3 DEF N!IsSeq
  <2> QED
    BY <1>1, <1>3, <1>5, <2>1, <2>2, <2>3 DEF N!ConnectorTypes
<1>7. N!Waiting'
  BY <1>1 DEF N!Waiting
<1>8. N!NothingSaidIsLost'
  <2>1. ASSUME NEW c \in N!Channel PROVE N!Said(c)'
    <3>1. N!Said(c)
      BY <1>1 DEF N!NothingSaidIsLost
    <3>2. submitted'[c] = submitted[c] /\ queue'[c] = queue[c]
      OBVIOUS
    <3>3. \A j \in 1..Len(sends) :
             /\ sends'[j].channel = sends[j].channel
             /\ DOMAIN sends'[j].batch = DOMAIN sends[j].batch
             /\ \A i \in DOMAIN sends[j].batch :
                   /\ sends'[j].batch[i].message = sends[j].batch[i].message
                   /\ sends'[j].batch[i].files + sends'[j].batch[i].notes
                         = sends[j].batch[i].files + sends[j].batch[i].notes
      BY <1>2, <1>5
    <3> QED
      BY ONLY <1>2, <1>3, <3>1, <3>2, <3>3, SaidAlike
  <2> QED
    BY <2>1 DEF N!NothingSaidIsLost
<1> QED
  BY <1>6, <1>7, <1>8 DEF N!ConnectorInv

(* A message that arrives, and its present set, leave what was said        *)
(* alone.                                                                  *)
LEMMA ConnectorHandles ==
    ASSUME N!ConnectorInv, NEW m \in Message, N!Arrive(m) \/ N!GatherPresent(m)
    PROVE  N!ConnectorInv'
<1>1. /\ DOMAIN handler = Message
      /\ \A q \in Message : handler[q] = [pc |-> handler[q].pc, present |-> handler[q].present,
                                        ref |-> handler[q].ref]
  BY DEF N!ConnectorInv, N!ConnectorTypes
<1>2. UNCHANGED <<queue, fire, sends, submitted>> /\ handler[m].pc # "submitted"
  BY DEF N!Arrive, N!GatherPresent
<1>3. \E x, y, z : handler' = [handler EXCEPT ![m] = [pc |-> x, present |-> y, ref |-> z]]
  <2>1. CASE N!Arrive(m)
    <3> DEFINE x == IF N!Forwards(m) THEN "syncing" ELSE "dropped"
               z == N!InjectTurnRef(m)
    <3>1. handler' = [handler EXCEPT ![m].pc = x, ![m].ref = z]
      BY <2>1 DEF N!Arrive
    <3> HIDE DEF x, z
    <3>2. [[handler[m] EXCEPT !.pc = x] EXCEPT !.ref = z]
             = [pc |-> x, present |-> handler[m].present, ref |-> z]
      <4> DEFINE h == handler[m]
      <4>1. h = [pc |-> h.pc, present |-> h.present, ref |-> h.ref]
        BY <1>1
      <4> HIDE DEF h
      <4>2. [h EXCEPT !.pc = x] = [pc |-> x, present |-> h.present, ref |-> h.ref]
        BY ONLY <4>1
      <4>3. [[pc |-> x, present |-> h.present, ref |-> h.ref] EXCEPT !.ref = z]
               = [pc |-> x, present |-> h.present, ref |-> z]
        OBVIOUS
      <4> QED
        BY <4>2, <4>3 DEF h
    <3>3. handler' = [handler EXCEPT ![m] = [pc |-> x, present |-> handler[m].present, ref |-> z]]
      BY <1>1, <3>1, <3>2
    <3> QED
      BY <3>3
  <2>2. CASE N!GatherPresent(m)
    <3> DEFINE y == IF About[m].dm THEN {About[m].author} ELSE members[About[m].channel]
    <3>1. handler' = [handler EXCEPT ![m].pc = "relaying", ![m].present = y]
      BY <2>2 DEF N!GatherPresent
    <3> HIDE DEF y
    <3>2. [[handler[m] EXCEPT !.pc = "relaying"] EXCEPT !.present = y]
             = [pc |-> "relaying", present |-> y, ref |-> handler[m].ref]
      <4> DEFINE h == handler[m]
      <4>1. h = [pc |-> h.pc, present |-> h.present, ref |-> h.ref]
        BY <1>1
      <4> HIDE DEF h
      <4>2. [h EXCEPT !.pc = "relaying"] = [pc |-> "relaying", present |-> h.present, ref |-> h.ref]
        BY ONLY <4>1
      <4>3. [[pc |-> "relaying", present |-> h.present, ref |-> h.ref] EXCEPT !.present = y]
               = [pc |-> "relaying", present |-> y, ref |-> h.ref]
        OBVIOUS
      <4> QED
        BY <4>2, <4>3 DEF h
    <3>3. handler' = [handler EXCEPT ![m] = [pc |-> "relaying", present |-> y, ref |-> handler[m].ref]]
      BY <1>1, <3>1, <3>2
    <3> QED
      BY <3>3
  <2> QED
    BY <2>1, <2>2
<1>4. PICK x, y, z : handler' = [handler EXCEPT ![m] = [pc |-> x, present |-> y, ref |-> z]]
  BY <1>3
<1>5. DOMAIN handler' = Message
  BY <1>1, <1>4
<1>6. \A q \in Message :
        /\ handler'[q] = [pc |-> handler'[q].pc, present |-> handler'[q].present,
                          ref |-> handler'[q].ref]
        /\ handler[q].pc = "submitted" => handler'[q].pc = "submitted"
  <2> SUFFICES ASSUME NEW q \in Message
               PROVE  /\ handler'[q] = [pc |-> handler'[q].pc, present |-> handler'[q].present,
                                        ref |-> handler'[q].ref]
                      /\ handler[q].pc = "submitted" => handler'[q].pc = "submitted"
    OBVIOUS
  <2>1. CASE q = m
    <3>1. handler'[q] = [pc |-> x, present |-> y, ref |-> z]
      BY <1>1, <1>4, <2>1
    <3> QED
      BY <1>2, <2>1, <3>1
  <2>2. CASE q # m
    <3>1. handler'[q] = handler[q]
      BY <1>1, <1>4, <2>2
    <3> QED
      BY <1>1, <3>1
  <2> QED
    BY <2>1, <2>2
<1> QED
  BY ONLY N!ConnectorInv, <1>2, <1>5, <1>6, ConnectorStill

(* A message that is submitted joins the queue of its channel.             *)
LEMMA ConnectorRelays ==
    ASSUME N!ConnectorInv, NEW m \in Message, N!Relay(m) PROVE N!ConnectorInv'
<1> DEFINE d == About[m].channel
<1>1. N!ConnectorTypes /\ N!Waiting /\ N!NothingSaidIsLost
  BY DEF N!ConnectorInv
<1>2. PICK x \in N!Collected(m) :
         /\ N!Submit(d, x, handler[m].present)
         /\ submitted' = [submitted EXCEPT ![d] = Append(@, m)]
  BY DEF N!Relay
<1>3. handler[m].pc = "relaying" /\ sends' = sends /\ handler' = [handler EXCEPT ![m].pc = "submitted"]
  BY DEF N!Relay
<1>4. d \in N!Channel
  BY DEF N!Channel
<1>5. PICK n \in 0..N!Plan(About[m].files) :
         x = [message |-> m, ref |-> handler[m].ref, files |-> n, notes |-> About[m].files - n]
  BY DEF N!Collected
<1>6. /\ x.message = m /\ x.files \in Int /\ x.notes \in Int
      /\ x.files + x.notes = About[m].files
      /\ x = [message |-> x.message, ref |-> x.ref, files |-> x.files, notes |-> x.notes]
  <2>1. About[m].files \in Nat /\ n \in Int
    BY AboutFiles, MessageAssumption
  <2>2. About[m].files - n \in Int /\ n + (About[m].files - n) = About[m].files
    BY <2>1
  <2>3. x.message = m /\ x.files = n /\ x.notes = About[m].files - n /\ x.ref = handler[m].ref
    BY <1>5
  <2> QED
    BY <1>5, <2>1, <2>2, <2>3
<1>7. /\ DOMAIN handler = Message /\ DOMAIN queue = N!Channel /\ DOMAIN fire = N!Channel
      /\ submitted \in [N!Channel -> Seq(Message)] /\ N!IsSeq(sends)
      /\ \A c \in N!Channel : N!IsBatch(queue[c])
  BY <1>1 DEF N!ConnectorTypes
<1> HIDE DEF d
<1>8. /\ queue' = [queue EXCEPT ![d] = Append(@, x)]
      /\ fire' = [fire EXCEPT ![d] = [set |-> TRUE, present |-> handler[m].present]]
  BY <1>2 DEF N!Submit
<1>9. \A c \in N!Channel :
        /\ queue'[c] = IF c = d THEN Append(queue[d], x) ELSE queue[c]
        /\ submitted'[c] = IF c = d THEN Append(submitted[d], m) ELSE submitted[c]
        /\ fire'[c] = IF c = d THEN [set |-> TRUE, present |-> handler[m].present] ELSE fire[c]
  BY <1>2, <1>7, <1>8
<1>10. handler' = [handler EXCEPT ![m] = [pc |-> "submitted", present |-> handler[m].present,
                                        ref |-> handler[m].ref]]
  <2>1. [handler[m] EXCEPT !.pc = "submitted"]
          = [pc |-> "submitted", present |-> handler[m].present, ref |-> handler[m].ref]
    BY <1>1 DEF N!ConnectorTypes
  <2> QED
    BY <1>3, <1>7, <2>1
<1>11. N!ConnectorTypes'
  <2>1. \A q \in Message : handler'[q] = [pc |-> handler'[q].pc, present |-> handler'[q].present,
                                          ref |-> handler'[q].ref]
    <3> SUFFICES ASSUME NEW q \in Message
                 PROVE  handler'[q] = [pc |-> handler'[q].pc, present |-> handler'[q].present,
                                       ref |-> handler'[q].ref]
      OBVIOUS
    <3>1. CASE q = m
      <4>1. handler'[q] = [pc |-> "submitted", present |-> handler[m].present, ref |-> handler[m].ref]
        BY <1>7, <1>10, <3>1
      <4> QED
        BY <4>1
    <3>2. CASE q # m
      <4>1. handler'[q] = handler[q]
        BY <1>7, <1>10, <3>2
      <4> QED
        BY <4>1, <1>1 DEF N!ConnectorTypes
    <3> QED
      BY <3>1, <3>2
  <2>2. DOMAIN handler' = Message /\ DOMAIN queue' = N!Channel /\ DOMAIN fire' = N!Channel
    BY <1>7, <1>8, <1>10
  <2>3. submitted' \in [N!Channel -> Seq(Message)]
    <3>1. \A c \in N!Channel : submitted'[c] \in Seq(Message)
      <4>1. submitted[d] \in Seq(Message) /\ m \in Message
        BY <1>4, <1>7
      <4>2. Append(submitted[d], m) \in Seq(Message)
        BY ONLY <4>1
      <4>3. \A c \in N!Channel : submitted[c] \in Seq(Message)
        BY <1>7
      <4> QED
        BY <1>9, <4>2, <4>3
    <3>2. submitted' = [c \in N!Channel |-> submitted'[c]]
      BY <1>2, <1>7
    <3> QED
      BY <3>1, <3>2
  <2>4. \A c \in N!Channel : N!IsBatch(queue'[c])
    <3>1. N!IsBatch(Append(queue[d], x))
      BY <1>4, <1>6, <1>7, BatchGrows
    <3> QED
      BY <1>7, <1>9, <3>1
  <2>5. /\ N!IsSeq(sends)'
        /\ \A k \in DOMAIN sends' :
             sends'[k] = [channel |-> sends'[k].channel, batch |-> sends'[k].batch,
                         present |-> sends'[k].present, pc |-> sends'[k].pc,
                         typing |-> sends'[k].typing, active |-> sends'[k].active]
    BY <1>1, <1>3 DEF N!ConnectorTypes, N!IsSeq
  <2>6. \A k \in DOMAIN sends' : N!IsBatch(sends'[k].batch)
    BY <1>1, <1>3 DEF N!ConnectorTypes
  <2> QED
    BY <2>1, <2>2, <2>3, <2>4, <2>5, <2>6 DEF N!ConnectorTypes
<1>12. ASSUME NEW c \in N!Channel, NEW i \in DOMAIN submitted'[c]
       PROVE  handler'[submitted'[c][i]].pc = "submitted"
  <2>1. \A q \in Message : q = m \/ handler[q].pc = "submitted" => handler'[q].pc = "submitted"
    <3> SUFFICES ASSUME NEW q \in Message, q = m \/ handler[q].pc = "submitted"
                 PROVE  handler'[q].pc = "submitted"
      OBVIOUS
    <3>1. handler'[q] = IF q = m THEN [pc |-> "submitted", present |-> handler[m].present,
                                       ref |-> handler[m].ref]
                        ELSE handler[q]
      BY <1>7, <1>10
    <3> QED
      BY <3>1
  <2>2. submitted[c] \in Seq(Message)
    BY <1>7
  <2>3. submitted'[c][i] = m \/ (i \in DOMAIN submitted[c] /\ submitted'[c][i] = submitted[c][i])
    <3>1. CASE c # d
      <4>1. submitted'[c] = submitted[c]
        BY <1>9, <3>1
      <4> QED
        BY <4>1
    <3>2. CASE c = d
      <4>1. submitted'[c] = Append(submitted[c], m)
        BY <1>9, <3>2
      <4>2. ASSUME NEW s \in Seq(Message), NEW j \in DOMAIN Append(s, m)
            PROVE  Append(s, m)[j] = m \/ (j \in DOMAIN s /\ Append(s, m)[j] = s[j])
        <5>1. N!IsSeq(s)
          BY IsSeqOfItsOwn
        <5>2. j \in DOMAIN s \/ j = Len(s) + 1
          <6>1. /\ DOMAIN Append(s, m) = 1..(Len(s) + 1) /\ DOMAIN s = 1..Len(s)
                /\ Len(s) \in Nat
            BY <5>1, LongerByOne
          <6> QED
            BY <6>1
        <5>3. /\ Append(s, m)[Len(s) + 1] = m
              /\ \A h \in DOMAIN s : Append(s, m)[h] = s[h]
          BY <5>1, LongerByOne
        <5>4. CASE j = Len(s) + 1
          <6> DEFINE t == Append(s, m)
                     l == Len(s) + 1
          <6>1. t[l] = m /\ j = l
            BY <5>3, <5>4
          <6> HIDE DEF t, l
          <6>2. t[j] = m
            BY ONLY <6>1
          <6> QED
            BY <6>2 DEF t
        <5>5. CASE j \in DOMAIN s
          BY ONLY <5>3, <5>5
        <5> QED
          BY ONLY <5>2, <5>4, <5>5
      <4> QED
        BY <2>2, <4>1, <4>2
    <3> QED
      BY <3>1, <3>2
  <2>4. \A j \in DOMAIN submitted[c] : submitted[c][j] \in Message /\ handler[submitted[c][j]].pc = "submitted"
    BY <1>1, <2>2 DEF N!Waiting
  <2> QED
    BY <2>1, <2>3, <2>4
<1>13. N!Waiting'
  <2>1. ASSUME NEW c \in N!Channel PROVE queue'[c] # << >> => fire'[c].set
    BY <1>1, <1>9 DEF N!Waiting
  <2> QED
    BY <1>12, <2>1 DEF N!Waiting
<1>14. ASSUME NEW c \in N!Channel PROVE N!Said(c)'
  <2>1. N!Said(c) /\ N!IsBatch(queue[c]) /\ submitted[c] \in Seq(Message) /\ Len(sends) \in Nat
    BY <1>1, <1>7, LongerByOne DEF N!NothingSaidIsLost
  <2>2. CASE c # d
    <3>1. queue'[c] = queue[c] /\ submitted'[c] = submitted[c]
      BY <1>9, <2>2
    <3> QED
      BY ONLY <1>3, <2>1, <3>1, SaidAlike
  <2>3. CASE c = d
    <3>1. queue'[c] = Append(queue[c], x) /\ submitted'[c] = Append(submitted[c], m)
      BY <1>9, <2>3
    <3>2. \A i \in DOMAIN submitted[c] : submitted[c][i] # m
      BY <1>1, <1>3 DEF N!Waiting
    <3>3. N!IsSeq(queue[c])
      BY <2>1 DEF N!IsBatch
    <3> QED
      BY ONLY m \in Message, <1>3, <1>6, <2>1, <3>1, <3>2, <3>3, SaidAfterSubmit
  <2> QED
    BY <2>2, <2>3
<1> QED
  BY <1>11, <1>13, <1>14 DEF N!ConnectorInv, N!NothingSaidIsLost

(* A queue leaves whole, as one request.                                   *)
LEMMA ConnectorFires ==
    ASSUME N!ConnectorInv, NEW d \in N!Channel, N!Fire(d) PROVE N!ConnectorInv'
<1>1. N!ConnectorTypes /\ N!Waiting /\ N!NothingSaidIsLost
  BY DEF N!ConnectorInv
<1>2. /\ DOMAIN queue = N!Channel /\ DOMAIN fire = N!Channel /\ N!IsSeq(sends)
      /\ \A c \in N!Channel : N!IsBatch(queue[c])
  BY <1>1 DEF N!ConnectorTypes
<1>3. /\ queue' = [queue EXCEPT ![d] = << >>] /\ fire' = [fire EXCEPT ![d] = N!NoCallback]
      /\ sends' = (IF fire[d].set THEN Append(sends, N!Request(d, queue[d], fire[d].present))
                   ELSE sends)
      /\ handler' = handler /\ submitted' = submitted
  BY DEF N!Fire
<1>4. \A c \in N!Channel :
        /\ queue'[c] = IF c = d THEN << >> ELSE queue[c]
        /\ fire'[c] = IF c = d THEN N!NoCallback ELSE fire[c]
  BY <1>2, <1>3
<1>5. DOMAIN queue' = N!Channel /\ DOMAIN fire' = N!Channel
  BY <1>2, <1>3
<1>6. \A c \in N!Channel : N!IsBatch(queue'[c])
  <2>1. N!IsBatch(<< >>)
    BY DEF N!IsBatch, N!IsSeq
  <2> QED
    BY <1>2, <1>4, <2>1
<1>7. N!Waiting'
  <2>1. \A c \in N!Channel : queue'[c] # << >> => fire'[c].set
    BY <1>1, <1>4 DEF N!Waiting
  <2> QED
    BY <1>1, <1>3, <2>1 DEF N!Waiting
<1>8. Len(sends) \in Nat /\ DOMAIN sends = 1..Len(sends)
  BY <1>2, LongerByOne
<1> DEFINE x == N!Request(d, queue[d], fire[d].present)
<1>9. CASE fire[d].set
  <2>1. sends' = Append(sends, x)
    BY <1>3, <1>9
  <2>2. /\ x = [channel |-> x.channel, batch |-> x.batch, present |-> x.present, pc |-> x.pc,
               typing |-> x.typing, active |-> x.active]
        /\ x.channel = d /\ x.batch = queue[d]
    BY DEF N!Request
  <2> HIDE DEF x
  <2>3. /\ N!IsSeq(sends') /\ DOMAIN sends' = 1..(Len(sends) + 1)
        /\ sends'[Len(sends) + 1] = x /\ \A k \in DOMAIN sends : sends'[k] = sends[k]
    BY <1>2, <2>1, LongerByOne
  <2>4. ASSUME NEW k \in DOMAIN sends'
        PROVE  /\ sends'[k] = [channel |-> sends'[k].channel, batch |-> sends'[k].batch,
                               present |-> sends'[k].present, pc |-> sends'[k].pc,
                               typing |-> sends'[k].typing, active |-> sends'[k].active]
               /\ N!IsBatch(sends'[k].batch)
    <3>1. CASE k \in DOMAIN sends
      <4>1. /\ sends[k] = [channel |-> sends[k].channel, batch |-> sends[k].batch,
                           present |-> sends[k].present, pc |-> sends[k].pc,
                           typing |-> sends[k].typing, active |-> sends[k].active]
            /\ N!IsBatch(sends[k].batch) /\ sends'[k] = sends[k]
        BY <1>1, <2>3, <3>1 DEF N!ConnectorTypes
      <4> QED
        BY <4>1
    <3>2. CASE k = Len(sends) + 1
      <4>1. sends'[k] = x
        BY <2>3, <3>2
      <4> QED
        BY <1>2, <2>2, <4>1
    <3>3. k \in DOMAIN sends \/ k = Len(sends) + 1
      BY <1>8, <2>3
    <3> QED
      BY <3>1, <3>2, <3>3
  <2>5. N!ConnectorTypes'
    <3>1. \A k \in DOMAIN sends' : N!IsBatch(sends'[k].batch)
      BY <2>4
    <3>2. N!IsSeq(sends)'
      BY <2>3 DEF N!IsSeq
    <3>3. /\ DOMAIN handler' = Message
          /\ \A m \in Message : handler'[m] = [pc |-> handler'[m].pc, present |-> handler'[m].present,
                                              ref |-> handler'[m].ref]
          /\ submitted' \in [N!Channel -> Seq(Message)]
      BY <1>1, <1>3 DEF N!ConnectorTypes
    <3> QED
      BY <1>5, <1>6, <2>4, <3>1, <3>2, <3>3 DEF N!ConnectorTypes
  <2>6. ASSUME NEW c \in N!Channel PROVE N!Said(c)'
    <3>1. N!Said(c) /\ submitted'[c] = submitted[c]
      BY <1>1, <1>3 DEF N!NothingSaidIsLost
    <3>2. queue'[c] = IF c = d THEN << >> ELSE queue[c]
      BY <1>4
    <3>3. x.channel = d /\ x.batch = queue[d]
      BY <2>2
    <3> QED
      BY ONLY <1>2, <2>1, <3>1, <3>2, <3>3, SaidAfterFire
  <2> QED
    BY <1>7, <2>5, <2>6 DEF N!ConnectorInv, N!NothingSaidIsLost
<1>10. CASE ~fire[d].set
  <2>1. sends' = sends /\ queue[d] = << >>
    BY <1>1, <1>3, <1>10 DEF N!Waiting
  <2>2. \A c \in N!Channel : queue'[c] = queue[c]
    BY <1>4, <2>1
  <2>3. N!ConnectorTypes'
    <3>1. \A k \in DOMAIN sends' : N!IsBatch(sends'[k].batch)
      BY <1>1, <2>1 DEF N!ConnectorTypes
    <3>2. N!IsSeq(sends)'
      BY <1>1, <2>1 DEF N!ConnectorTypes, N!IsSeq
    <3>3. /\ DOMAIN handler' = Message
          /\ \A m \in Message : handler'[m] = [pc |-> handler'[m].pc, present |-> handler'[m].present,
                                              ref |-> handler'[m].ref]
          /\ submitted' \in [N!Channel -> Seq(Message)]
      BY <1>1, <1>3 DEF N!ConnectorTypes
    <3>4. \A k \in DOMAIN sends' :
             sends'[k] = [channel |-> sends'[k].channel, batch |-> sends'[k].batch,
                         present |-> sends'[k].present, pc |-> sends'[k].pc,
                         typing |-> sends'[k].typing, active |-> sends'[k].active]
      BY <1>1, <2>1 DEF N!ConnectorTypes
    <3> QED
      BY <1>5, <1>6, <3>1, <3>2, <3>3, <3>4 DEF N!ConnectorTypes
  <2>4. ASSUME NEW c \in N!Channel PROVE N!Said(c)'
    <3>1. N!Said(c) /\ submitted'[c] = submitted[c] /\ queue'[c] = queue[c]
      BY <1>1, <1>3, <2>2 DEF N!NothingSaidIsLost
    <3> QED
      BY ONLY <1>8, <2>1, <3>1, SaidAlike
  <2> QED
    BY <1>7, <2>3, <2>4 DEF N!ConnectorInv, N!NothingSaidIsLost
<1> QED
  BY <1>9, <1>10

(* Nothing that becomes of a request changes what it says.                 *)
LEMMA ConnectorAsks ==
    ASSUME N!ConnectorInv, NEW k \in DOMAIN sends,
           \/ N!Accepted(k) \/ N!Refused(k) \/ N!StreamFails(k) \/ N!NoReply(k) \/ N!Reply(k)
           \/ \E turn \in DOMAIN sends : N!Progress(k, turn)
    PROVE  N!ConnectorInv'
<1> DEFINE r == sends[k]
<1>1. /\ r = [channel |-> r.channel, batch |-> r.batch, present |-> r.present, pc |-> r.pc,
             typing |-> r.typing, active |-> r.active]
      /\ N!IsBatch(r.batch) /\ N!IsSeq(sends)
  BY DEF N!ConnectorInv, N!ConnectorTypes
<1>2. UNCHANGED <<handler, queue, fire, submitted>>
  BY DEF N!Accepted, N!Refused, N!StreamFails, N!NoReply, N!Reply, N!Progress, N!SendIs
<1>3. \E p, t, a : sends' = [sends EXCEPT ![k] = [channel |-> r.channel, batch |-> r.batch,
                               present |-> r.present, pc |-> p, typing |-> t, active |-> a]]
      \/ sends' = [sends EXCEPT ![k] = [channel |-> r.channel, batch |-> N!WithoutAttachments(r.batch),
                                        present |-> r.present, pc |-> r.pc, typing |-> r.typing,
                                        active |-> r.active]]
  <2> DEFINE R(b, p, t, a) == [channel |-> r.channel, batch |-> b, present |-> r.present,
                               pc |-> p, typing |-> t, active |-> a]
  <2>0. /\ r = R(r.batch, r.pc, r.typing, r.active)
        /\ \A b, p, t, a : /\ \A y : [R(b, p, t, a) EXCEPT !.pc = y] = R(b, y, t, a)
                          /\ \A v : [R(b, p, t, a) EXCEPT !.typing = v] = R(b, p, v, a)
                          /\ \A w : [R(b, p, t, a) EXCEPT !.active = w] = R(b, p, t, w)
                          /\ \A z : [R(b, p, t, a) EXCEPT !.batch = z] = R(z, p, t, a)
    BY <1>1
  <2>1. /\ \A p : [r EXCEPT !.pc = p] = R(r.batch, p, r.typing, r.active)
        /\ \A p, t : [r EXCEPT !.pc = p, !.typing = t] = R(r.batch, p, t, r.active)
        /\ \A a, t : [r EXCEPT !.active = a, !.typing = t] = R(r.batch, r.pc, t, a)
        /\ \A b : [r EXCEPT !.batch = b] = R(b, r.pc, r.typing, r.active)
    <3>1. \A p, t : [r EXCEPT !.pc = p, !.typing = t] = [[r EXCEPT !.pc = p] EXCEPT !.typing = t]
      OBVIOUS
    <3>2. \A a, t : [r EXCEPT !.active = a, !.typing = t] = [[r EXCEPT !.active = a] EXCEPT !.typing = t]
      OBVIOUS
    <3> HIDE DEF R
    <3>3. /\ \A p : [r EXCEPT !.pc = p] = R(r.batch, p, r.typing, r.active)
          /\ \A a : [r EXCEPT !.active = a] = R(r.batch, r.pc, r.typing, a)
          /\ \A b : [r EXCEPT !.batch = b] = R(b, r.pc, r.typing, r.active)
      BY <2>0
    <3>4. ASSUME NEW p, NEW t
          PROVE  [r EXCEPT !.pc = p, !.typing = t] = R(r.batch, p, t, r.active)
      <4>1. [[r EXCEPT !.pc = p] EXCEPT !.typing = t] = R(r.batch, p, t, r.active)
        <5>1. [r EXCEPT !.pc = p] = R(r.batch, p, r.typing, r.active)
          BY ONLY <3>3
        <5>2. [R(r.batch, p, r.typing, r.active) EXCEPT !.typing = t] = R(r.batch, p, t, r.active)
          BY DEF R
        <5> QED
          BY ONLY <5>1, <5>2
      <4> QED
        BY ONLY <3>1, <4>1
    <3>5. ASSUME NEW a, NEW t
          PROVE  [r EXCEPT !.active = a, !.typing = t] = R(r.batch, r.pc, t, a)
      <4>1. [[r EXCEPT !.active = a] EXCEPT !.typing = t] = R(r.batch, r.pc, t, a)
        <5>1. [r EXCEPT !.active = a] = R(r.batch, r.pc, r.typing, a)
          BY ONLY <3>3
        <5>2. [R(r.batch, r.pc, r.typing, a) EXCEPT !.typing = t] = R(r.batch, r.pc, t, a)
          BY DEF R
        <5> QED
          BY ONLY <5>1, <5>2
      <4> QED
        BY ONLY <3>2, <4>1
    <3> QED
      BY ONLY <3>3, <3>4, <3>5
  <2> DEFINE Moved == (\E p, t, a : sends' = [sends EXCEPT ![k] = R(r.batch, p, t, a)])
                \/ sends' = [sends EXCEPT ![k] = R(N!WithoutAttachments(r.batch), r.pc, r.typing, r.active)]
  <2>2. ASSUME N!Accepted(k) \/ N!StreamFails(k) PROVE Moved
    <3>1. PICK p : sends' = [sends EXCEPT ![k] = [r EXCEPT !.pc = p]]
      BY <2>2 DEF N!Accepted, N!StreamFails, N!SendIs
    <3>2. [r EXCEPT !.pc = p] = R(r.batch, p, r.typing, r.active)
      BY <2>1
    <3> HIDE DEF r, R
    <3> QED
      BY <3>1, <3>2
  <2>3. ASSUME N!Refused(k) PROVE Moved
    <3>1. sends' = [sends EXCEPT ![k] = [r EXCEPT !.batch = N!WithoutAttachments(r.batch)]]
      BY <2>3 DEF N!Refused, N!SendIs
    <3> HIDE DEF R
    <3>2. [r EXCEPT !.batch = N!WithoutAttachments(r.batch)]
            = R(N!WithoutAttachments(r.batch), r.pc, r.typing, r.active)
      BY ONLY <2>1
    <3> HIDE DEF r
    <3> QED
      BY <3>1, <3>2
  <2>4. ASSUME N!NoReply(k) PROVE Moved
    <3>1. sends' = [sends EXCEPT ![k] = [r EXCEPT !.pc = "ended", !.typing = FALSE]]
      BY <2>4 DEF N!NoReply, N!SendIs
    <3>2. [r EXCEPT !.pc = "ended", !.typing = FALSE] = R(r.batch, "ended", FALSE, r.active)
      BY <2>1
    <3> HIDE DEF r, R
    <3> QED
      BY <3>1, <3>2
  <2>5. ASSUME N!Reply(k) PROVE Moved
    <3>1. sends' = [sends EXCEPT ![k].pc = "ended", ![k].typing = FALSE]
      BY <2>5 DEF N!Reply
    <3>2. sends' = [sends EXCEPT ![k] = [r EXCEPT !.pc = "ended", !.typing = FALSE]]
      BY <3>1
    <3>3. [r EXCEPT !.pc = "ended", !.typing = FALSE] = R(r.batch, "ended", FALSE, r.active)
      BY <2>1
    <3> HIDE DEF r, R
    <3> QED
      BY <3>2, <3>3
  <2>6. ASSUME \E turn \in DOMAIN sends : N!Progress(k, turn) PROVE Moved
    <3>1. PICK a : sends' = [sends EXCEPT ![k] = [r EXCEPT !.active = a, !.typing = TRUE]]
      BY <2>6 DEF N!Progress, N!SendIs
    <3>2. [r EXCEPT !.active = a, !.typing = TRUE] = R(r.batch, r.pc, TRUE, a)
      BY <2>1
    <3> HIDE DEF r, R
    <3> QED
      BY <3>1, <3>2
  <2>7. Moved
    <3> HIDE DEF Moved
    <3> QED
      BY <2>2, <2>3, <2>4, <2>5, <2>6
  <2> QED
    BY <2>7
<1>4. \E s : /\ sends' = [sends EXCEPT ![k] = s]
             /\ s = [channel |-> s.channel, batch |-> s.batch, present |-> s.present, pc |-> s.pc,
                     typing |-> s.typing, active |-> s.active]
             /\ s.channel = r.channel /\ N!IsBatch(s.batch) /\ DOMAIN s.batch = DOMAIN r.batch
             /\ \A i \in DOMAIN s.batch :
                   /\ s.batch[i].message = r.batch[i].message
                   /\ s.batch[i].files + s.batch[i].notes = r.batch[i].files + r.batch[i].notes
  <2>1. CASE \E p, t, a : sends' = [sends EXCEPT ![k] = [channel |-> r.channel, batch |-> r.batch,
                               present |-> r.present, pc |-> p, typing |-> t, active |-> a]]
    <3>1. PICK p, t, a : sends' = [sends EXCEPT ![k] = [channel |-> r.channel, batch |-> r.batch,
                               present |-> r.present, pc |-> p, typing |-> t, active |-> a]]
      BY <2>1
    <3> DEFINE s == [channel |-> r.channel, batch |-> r.batch, present |-> r.present, pc |-> p,
                     typing |-> t, active |-> a]
    <3>2. /\ s = [channel |-> s.channel, batch |-> s.batch, present |-> s.present, pc |-> s.pc,
                  typing |-> s.typing, active |-> s.active]
          /\ s.channel = r.channel /\ s.batch = r.batch /\ sends' = [sends EXCEPT ![k] = s]
      BY <3>1
    <3> HIDE DEF s, r
    <3> QED
      BY <1>1, <3>2
  <2>2. CASE sends' = [sends EXCEPT ![k] = [channel |-> r.channel, batch |-> N!WithoutAttachments(r.batch),
                                        present |-> r.present, pc |-> r.pc, typing |-> r.typing,
                                        active |-> r.active]]
    <3> DEFINE w == N!WithoutAttachments(r.batch)
    <3>1. /\ N!IsBatch(w) /\ DOMAIN w = DOMAIN r.batch
          /\ \A i \in DOMAIN r.batch :
                /\ w[i].message = r.batch[i].message
                /\ w[i].files + w[i].notes = r.batch[i].files + r.batch[i].notes
      BY <1>1, WithoutKeeps
    <3> HIDE DEF w
    <3> DEFINE s == [channel |-> r.channel, batch |-> w, present |-> r.present, pc |-> r.pc,
                     typing |-> r.typing, active |-> r.active]
    <3>2. /\ s = [channel |-> s.channel, batch |-> s.batch, present |-> s.present, pc |-> s.pc,
                  typing |-> s.typing, active |-> s.active]
          /\ s.channel = r.channel /\ s.batch = w /\ sends' = [sends EXCEPT ![k] = s]
      BY <2>2 DEF w
    <3> HIDE DEF s, r
    <3> QED
      BY <3>1, <3>2
  <2> QED
    BY <1>3, <2>1, <2>2
<1>5. PICK s : /\ sends' = [sends EXCEPT ![k] = s]
             /\ s = [channel |-> s.channel, batch |-> s.batch, present |-> s.present, pc |-> s.pc,
                     typing |-> s.typing, active |-> s.active]
             /\ s.channel = r.channel /\ N!IsBatch(s.batch) /\ DOMAIN s.batch = DOMAIN r.batch
             /\ \A i \in DOMAIN s.batch :
                   /\ s.batch[i].message = r.batch[i].message
                   /\ s.batch[i].files + s.batch[i].notes = r.batch[i].files + r.batch[i].notes
  BY <1>4
<1> QED
  BY ONLY N!ConnectorInv, k \in DOMAIN sends, <1>2, <1>5, RequestChanges DEF r

(* Every step of the connector keeps the invariant.                        *)
LEMMA ConnectorStep == N!ConnectorInv /\ N!Next => N!ConnectorInv'
<1> SUFFICES ASSUME N!ConnectorInv, N!Next PROVE N!ConnectorInv'
  OBVIOUS
<1>1. ASSUME NEW m \in Message, N!Arrive(m) \/ N!GatherPresent(m) PROVE N!ConnectorInv'
  BY <1>1, ConnectorHandles
<1>2. ASSUME NEW m \in Message, N!Relay(m) PROVE N!ConnectorInv'
  BY <1>2, ConnectorRelays
<1>3. ASSUME \/ \E p \in {About[m].author : m \in Message} : N!Leave(p)
             \/ \E c \in N!Channel : N!Wake(c)
      PROVE  N!ConnectorInv'
  <2>1. UNCHANGED <<handler, queue, fire, sends, submitted>>
    BY <1>3 DEF N!Leave, N!Wake
  <2>2. /\ DOMAIN handler' = Message
        /\ \A m \in Message :
              /\ handler'[m] = [pc |-> handler'[m].pc, present |-> handler'[m].present,
                                ref |-> handler'[m].ref]
              /\ handler[m].pc = "submitted" => handler'[m].pc = "submitted"
    BY <2>1 DEF N!ConnectorInv, N!ConnectorTypes
  <2> QED
    BY ONLY N!ConnectorInv, <2>1, <2>2, ConnectorStill
<1>4. ASSUME NEW c \in N!Channel, N!Fire(c) PROVE N!ConnectorInv'
  BY <1>4, ConnectorFires
<1>5. ASSUME NEW k \in DOMAIN sends,
             \/ N!Accepted(k) \/ N!Refused(k) \/ N!StreamFails(k) \/ N!NoReply(k) \/ N!Reply(k)
             \/ \E turn \in DOMAIN sends : N!Progress(k, turn)
      PROVE  N!ConnectorInv'
  BY <1>5, ConnectorAsks
<1> QED
  BY <1>1, <1>2, <1>3, <1>4, <1>5 DEF N!Next

(* Every message submitted goes out once and in order, and every file is   *)
(* sent or announced (submit, collect, without_attachments), for any       *)
(* messages and limits.                                                    *)
THEOREM NothingIsLost == ServicesSpec => []NothingSaidIsLost
<1>1. ServicesInit => N!ConnectorInv
  BY ConnectorInitial DEF ServicesInit
<1>2. N!ConnectorInv /\ [ServicesNext]_services => N!ConnectorInv'
  <2>1. CASE UNCHANGED connectorVars
    <3>1. N!ConnectorInv => N!ConnectorInv'
      BY <2>1, ConnectorStill DEF connectorVars, N!ConnectorInv, N!ConnectorTypes
    <3> QED
      BY <3>1
  <2>2. CASE N!Next
    BY <2>2, ConnectorStep
  <2>3. [ServicesNext]_services => N!Next \/ UNCHANGED connectorVars
    BY DEF ServicesNext, services
  <2> QED
    BY <2>1, <2>2, <2>3
<1>3. N!ConnectorInv => NothingSaidIsLost
  BY DEF N!ConnectorInv, NothingSaidIsLost
<1> QED
  BY <1>1, <1>2, <1>3, PTL DEF ServicesSpec
=============================================================================
