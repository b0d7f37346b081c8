--------------------------- MODULE ModelBackend ---------------------------
(***************************************************************************)
(* The OpenAI-compatible backend: one streamed chat completion, folded     *)
(* fragment by fragment into the response, and one embedding batch, cut    *)
(* shorter each time the backend says it is too long.                      *)
(*                                                                         *)
(* An answer is the pieces a backend sends, in order, usage last: it is    *)
(* asked for with stream_options.include_usage.  The connection may fail   *)
(* or close between any two of them.                                       *)
(***************************************************************************)
EXTENDS Integers, FiniteSets, SequencesExt

CONSTANTS
  Answers,       \* the answers a backend may give: sequences of pieces
  ContextLength, \* of the embedding model, in tokens
  InputLength,   \* characters of the embedding input
  Density        \* subset of Nat: tenths of a token per character the input may have

VARIABLES
  chat,     \* [pc, answer, next, asm, shown, result]
  embed     \* [pc, density, tried, result]

vars == <<chat, embed>>

NoCall == [id |-> 0, name |-> 0, arguments |-> <<>>]
EmptyAssembler == [content |-> <<>>, reasoning |-> <<>>, calls |-> <<NoCall, NoCall>>,
                   at |-> {}, usage |-> FALSE, saw |-> FALSE]
Nothing == [kind |-> "nothing"]
NoVector == -1

Init ==
  /\ chat = [pc |-> "idle", answer |-> <<>>, next |-> 1, asm |-> EmptyAssembler,
             shown |-> <<>>, result |-> Nothing]
  /\ embed \in [pc : {"try"}, density : Density, tried : {<<>>}, result : {NoVector}]

-----------------------------------------------------------------------------
(* The chat stream. *)

Fails(transient) == [kind |-> "error", transient |-> transient]

\* The request does not build, or the connection is refused: one error and no stream.
Refused(transient) ==
  /\ chat.pc = "idle"
  /\ chat' = [chat EXCEPT !.pc = "done", !.result = Fails(transient)]
  /\ UNCHANGED embed

Opens(answer) ==
  /\ chat.pc = "idle"
  /\ chat' = [chat EXCEPT !.pc = "stream", !.answer = answer]
  /\ UNCHANGED embed

\* StreamAssembler::fold: a piece is text, reasoning, part of the call of its index, or usage.
Fold(asm, piece) ==
  LET a == [asm EXCEPT !.saw = TRUE]
      i == piece.index
  IN  CASE piece.kind = "content"   -> [a EXCEPT !.content = Append(@, piece.part)]
        [] piece.kind = "reasoning" -> [a EXCEPT !.reasoning = Append(@, piece.part)]
        [] piece.kind = "usage"     -> [a EXCEPT !.usage = TRUE]
        [] piece.kind = "head"      -> [a EXCEPT !.at = @ \cup {i},
                                                 !.calls[i].id = piece.part,
                                                 !.calls[i].name = piece.part]
        [] piece.kind = "arguments" -> [a EXCEPT !.at = @ \cup {i},
                                                 !.calls[i].arguments = Append(@, piece.part)]

Fragments(piece) ==
  IF piece.kind \in {"content", "reasoning"} THEN <<<<piece.kind, piece.part>>>> ELSE <<>>

Chunk ==
  /\ chat.pc = "stream" /\ chat.next <= Len(chat.answer)
  /\ LET piece == chat.answer[chat.next]
     IN  chat' = [chat EXCEPT !.asm = Fold(@, piece), !.next = @ + 1,
                              !.shown = @ \o Fragments(piece)]
  /\ UNCHANGED embed

\* The connection fails in mid-stream: what was folded is discarded with the error.
StreamErrors(transient) ==
  /\ chat.pc = "stream"
  /\ chat' = [chat EXCEPT !.pc = "done", !.result = Fails(transient)]
  /\ UNCHANGED embed

\* into_completion: the calls in the order of their indices, if there are any.
IntoCompletion(asm) ==
  IF asm.at # {}
  THEN [kind |-> "calls",
        calls |-> [k \in 1 .. Cardinality(asm.at) |->
                     asm.calls[SetToSortSeq(asm.at, LAMBDA x, y : x < y)[k]]]]
  ELSE [kind |-> "reply", content |-> asm.content]

\* Bug: usage is optional, so a stream cut short passes for the whole answer.
FinishWithoutUsage(asm) == IF ~asm.saw THEN Fails(TRUE) ELSE IntoCompletion(asm)

\* finish: a stream that reported no usage was cut short.
Finish(asm) ==
  IF ~asm.saw \/ ~asm.usage THEN Fails(TRUE) ELSE IntoCompletion(asm)

\* The stream closes, at the end of the answer or before it.
Closes ==
  /\ chat.pc = "stream"
  /\ chat' = [chat EXCEPT !.pc = "done", !.result = Finish(chat.asm)]
  /\ UNCHANGED embed

-----------------------------------------------------------------------------
(* embed_truncated: budgets are characters. *)

Floor == (ContextLength + 3) \div 4
FirstBudget == (ContextLength * 5) \div 2
Shrunk(budget) == (budget * 9) \div 10

Clipped(budget) == IF budget < InputLength THEN budget ELSE InputLength
Fits(budget) == Clipped(budget) * embed.density <= ContextLength * 10
Budget == IF embed.tried = <<>> THEN FirstBudget ELSE Shrunk(Last(embed.tried))

EmbedAnswered ==
  /\ embed.pc = "try" /\ Fits(Budget)
  /\ embed' = [embed EXCEPT !.pc = "done", !.tried = Append(@, Budget), !.result = Clipped(Budget)]
  /\ UNCHANGED chat

\* Rejected as over-length: smaller, unless that would leave the floor.
EmbedRejected ==
  /\ embed.pc = "try" /\ ~Fits(Budget)
  /\ embed' = [embed EXCEPT !.tried = Append(@, Budget),
                            !.pc = IF Shrunk(Budget) >= Floor THEN "try" ELSE "done"]
  /\ UNCHANGED chat

Next ==
  \/ \E a \in Answers : Opens(a)
  \/ \E t \in BOOLEAN : Refused(t) \/ StreamErrors(t)
  \/ Chunk \/ Closes
  \/ EmbedAnswered \/ EmbedRejected

Spec == Init /\ [][Next]_vars

-----------------------------------------------------------------------------

Sent(kind) == SelectSeq(chat.answer, LAMBDA p : p.kind = kind)
Parts(pieces) == [k \in DOMAIN pieces |-> pieces[k].part]
SentCall(i) ==
  LET mine(kind) == SelectSeq(chat.answer, LAMBDA p : p.kind = kind /\ p.index = i)
  IN  [id |-> Last(mine("head")).part, name |-> Last(mine("head")).part,
       arguments |-> Parts(mine("arguments"))]

\* A response is the whole answer or an error: wherever the stream is cut, no reply reaches the
\* turn that misses a piece the backend sent, nor a tool call with half its arguments; the calls
\* come in the backend's order though their fragments interleave; and what the live view showed is
\* the text the turn records.
OnlyWholeAnswers ==
  chat.pc = "done" /\ chat.result.kind # "error" =>
    /\ chat.result.kind = "reply" =>
         /\ Sent("head") = <<>>
         /\ chat.result.content = Parts(Sent("content"))
         /\ chat.result.content =
              [k \in DOMAIN Sent("content") |->
                 SelectSeq(chat.shown, LAMBDA f : f[1] = "content")[k][2]]
    /\ chat.result.kind = "calls" =>
         \A k \in DOMAIN chat.result.calls :
           chat.result.calls[k] =
             SentCall(SetToSortSeq({p.index : p \in Range(Sent("head"))}, LAMBDA x, y : x < y)[k])

\* The embedder always comes to an end: every retry is strictly shorter than the one before, none
\* is shorter than the floor, and it gives up only where a cut by a tenth would leave it.
EmbedShrinks ==
  /\ \A i \in DOMAIN embed.tried : i > 1 =>
       embed.tried[i] < embed.tried[i - 1] /\ embed.tried[i] >= Floor
  /\ embed.pc = "done" /\ embed.result = NoVector => Last(embed.tried) * 9 < (Floor * 10)

\* EmbedShrinks made inductive: what is tried next is shorter, and not below the floor.
EmbedInv ==
  /\ embed \in [pc : {"try", "done"}, density : Nat, tried : Seq(Nat), result : Nat \cup {NoVector}]
  /\ embed.tried # <<>> /\ embed.pc = "try" =>
       /\ Shrunk(embed.tried[Len(embed.tried)]) >= Floor
       /\ embed.tried[Len(embed.tried)] > 0
  /\ embed.pc = "done" => embed.tried # <<>>
  /\ EmbedShrinks
=============================================================================
