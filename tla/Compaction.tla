----------------------------- MODULE Compaction -----------------------------
(***************************************************************************)
(* compactMessages (packages/core/src/compaction.ts) and the loop that     *)
(* calls it: a window of messages that grows by a turn and is compacted    *)
(* before the next call of the model when it is over its budget.  Of a     *)
(* message its length in characters is kept and the turn of tool calls it  *)
(* belongs to; of a result also how long a pointer to it would be.         *)
(***************************************************************************)
EXTENDS Integers, Sequences, Folds

CONSTANTS
  MaxTokens,     \* maxContextTokens
  KeepRecent,    \* keepRecentTurns
  MaxResult,     \* toolResultMaxChars
  ToolResults,   \* results of tools: size, pointer, binary and failed
  Short,         \* length of every other message
  Marker,        \* length of the note that a result was condensed
  Line,          \* length of a prefix that is the first line of a result
  MaxWidth,      \* tool calls in one turn of the assistant
  MaxMessages    \* bound on the messages of a session

VARIABLES
  window,        \* messages the loop sends to the model
  made,          \* messages so far
  before         \* the window before the last compaction, empty after a turn

vars == <<window, made, before>>

Roles == {"system", "user", "assistant", "tool"}
Message(id, role, size) ==
  [id |-> id, role |-> role, size |-> size, unit |-> 0, width |-> 0,
   pointer |-> 0, binary |-> FALSE, failed |-> FALSE, condensed |-> FALSE]

\* A fold that takes this position last goes through the messages in their order.
Latest(positions) == CHOOSE i \in positions : \A j \in positions : j <= i

Chars(w) == MapThenFoldSet(+, 0, LAMBDA i : w[i].size, Latest, DOMAIN w)

\* Four characters are a token, rounded up once for a list.
TokensOf(chars) == (chars + 3) \div 4
Tokens(w) == TokensOf(Chars(w))

Init ==
  /\ window = <<Message(1, "system", Short), Message(2, "user", Short)>>
  /\ made = 2
  /\ before = <<>>

-----------------------------------------------------------------------------
\* Stage 1: of an oversized result a pointer, its head and its tail stay, of a
\* binary one the pointer alone.  The pointer is not cut: the result may still be
\* over the limit, which the next compaction condenses again, by its first line.
Condensed(m) ==
  [m EXCEPT !.size = m.pointer + Marker +
                       IF m.binary THEN 0 ELSE (3 * MaxResult) \div 5 + MaxResult \div 5,
            !.pointer = Line, !.binary = FALSE, !.condensed = TRUE]

Condense(w) ==
  [i \in 1..Len(w) |->
    IF w[i].role = "tool" /\ w[i].size > MaxResult THEN Condensed(w[i]) ELSE w[i]]

\* A failure is recognised by how the result begins, and a condensed result
\* begins with its pointer.
ShowsFailure(m) == m.role = "tool" /\ m.failed /\ ~ m.condensed

\* The faulty variant counts from the start.
FirstTurns(w) ==
  {i \in 1..Len(w) : w[i].role # "system" /\
     Len(SelectSeq(SubSeq(w, 1, i), LAMBDA m : m.role # "system")) <= KeepRecent}

RecentTurns(w) ==
  {i \in 1..Len(w) : w[i].role # "system" /\
     Len(SelectSeq(SubSeq(w, i, Len(w)), LAMBDA m : m.role # "system")) <= KeepRecent}

DirectlyProtected(w) ==
  RecentTurns(w)
    \cup {i \in 1..Len(w) : w[i].role \in {"system", "user"} \/ ShowsFailure(w[i])}

\* Protection spreads through the turn of the assistant that made the calls.
Protected(w) ==
  DirectlyProtected(w) \cup
    {i \in 1..Len(w) : w[i].unit # 0 /\
       \E a, j \in 1..Len(w) : /\ w[a].unit = w[i].unit /\ w[a].role = "assistant"
                               /\ w[j].unit = w[i].unit /\ j \in DirectlyProtected(w)}

\* The faulty variant forgets what survived.
EnoughOfTail(kept, w, i) == Tokens(SubSeq(w, i, Len(w))) <= MaxTokens

\* Enough is dropped when what survived and the rest of the window fit, each
\* rounded by itself.
Enough(kept, w, i) == Tokens(kept) + Tokens(SubSeq(w, i, Len(w))) <= MaxTokens

\* Stage 3: the oldest messages go first.
Truncate(w) ==
  LET stays == Protected(w)
      take(i, kept) == IF Enough(kept, w, i) \/ i \in stays
                       THEN Append(kept, w[i]) ELSE kept
  IN MapThenFoldSet(take, <<>>, LAMBDA i : i, Latest, DOMAIN w)

\* Stage 4 joins results without a call id, which the loop never produces.
Compacted(w) ==
  IF Tokens(Condense(w)) > MaxTokens THEN Truncate(Condense(w)) ELSE Condense(w)

-----------------------------------------------------------------------------
\* The loop: a compaction comes before a call of the model.
Over == Tokens(window) > MaxTokens

Compact ==
  /\ Over /\ before = <<>>
  /\ before' = window
  /\ window' = Compacted(window)
  /\ UNCHANGED made

Grow(messages) ==
  /\ before # <<>> \/ ~ Over
  /\ made + Len(messages) <= MaxMessages
  /\ made' = made + Len(messages)
  /\ window' = window \o messages
  /\ before' = <<>>

Answer == Grow(<<Message(made + 1, "assistant", Short), Message(made + 2, "user", Short)>>)

\* A turn of the assistant with its calls, and the results in their order.
CallTools ==
  \E width \in 1..MaxWidth : \E result \in [1..width -> ToolResults] :
    Grow(<<[Message(made + 1, "assistant", Short) EXCEPT !.unit = made + 1,
                                                         !.width = width]>>
         \o [c \in 1..width |->
              [Message(made + 1 + c, "tool", result[c].size)
                 EXCEPT !.unit = made + 1, !.pointer = result[c].pointer,
                        !.binary = result[c].binary, !.failed = result[c].failed]])

Next == Compact \/ Answer \/ CallTools

Spec == Init /\ [][Next]_vars

-----------------------------------------------------------------------------
\* Every variable has its type.
TypeOK ==
  /\ made \in 2..MaxMessages
  /\ \A i \in 1..Len(window) :
       /\ window[i].id \in 1..made /\ window[i].role \in Roles
       /\ window[i].size \in Nat

IdsOf(w) == {w[i].id : i \in 1..Len(w)}
Dropped == {i \in 1..Len(before) : before[i].id \notin IdsOf(window)}

\* A compaction keeps the order of what stays.  It drops answers and results only,
\* none of the last KeepRecent messages, no failure that still shows once results
\* are condensed, and none that shares a turn, still there, with one of these.  It
\* stops at the budget unless everything left must stay, and the last message it
\* drops was one too many, up to the token by which it rounds.
DropsWhatItMust ==
  LET w == Condense(before)
      mustStay(i) == \/ w[i].role \notin {"assistant", "tool"} \/ ShowsFailure(w[i])
                     \/ i > Len(w) - KeepRecent
      sameTurn(i, j) == /\ w[i].unit = w[j].unit /\ w[i].unit # 0
                        /\ \E a \in 1..Len(w) : w[a].role = "assistant" /\ w[a].unit = w[i].unit
      bound(i) == \E j \in 1..Len(w) : (j = i \/ sameTurn(i, j)) /\ mustStay(j)
  IN before # <<>> =>
       /\ \A i, j \in 1..Len(window) : i < j => window[i].id < window[j].id
       /\ \A i \in Dropped : ~ bound(i)
       /\ Over => \A i \in 1..Len(w) : i \in Dropped \/ bound(i)
       /\ \A i \in Dropped : \/ \E j \in Dropped : j > i
                             \/ TokensOf(Chars(window) + w[i].size) >= MaxTokens

\* compaction.ts: "A tool_use assistant turn and its matching role:"tool"
\* result are an atomic unit: kept together or dropped together."
PairsTogether ==
  \A u \in {window[i].unit : i \in 1..Len(window)} \ {0} :
    LET members == {i \in 1..Len(window) : window[i].unit = u}
    IN \E a \in members : /\ window[a].role = "assistant"
                          /\ Len(SelectSeq(window, LAMBDA m : m.unit = u))
                               = window[a].width + 1

\* compaction.ts: "Failure evidence (§4.6) is never FIFO-dropped; Stage 1 keeps
\* the FACT of a failure."
FailuresStay ==
  \A i \in 1..Len(before) :
    before[i].failed => before[i].id \in IdsOf(window)

\* compaction.ts, of toolResultMaxChars: "Condense any single tool result whose
\* serialized length exceeds this."
NeverGrows == Tokens(window) <= Tokens(before) \/ before = <<>>

\* compaction.ts, at the point where what survived and the rest fit: "Enough already
\* dropped; keep the rest verbatim."
RestStays ==
  LET w == Condense(before)
      survivors(j) == SelectSeq(SubSeq(w, 1, j - 1), LAMBDA m : m.id \in IdsOf(window))
  IN \A i \in Dropped : \A j \in 1..(i - 1) : ~ Enough(survivors(j), w, j)
=============================================================================
