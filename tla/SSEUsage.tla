------------------------------ MODULE SSEUsage ------------------------------
(***************************************************************************)
(* SSEUsageAccumulator (cost.py:287-403): the token usage of a streamed    *)
(* answer, read from the raw chunks as they pass.  A byte is a model value *)
(* and Event[line] what a complete line decodes to; a line outside its     *)
(* domain (no "data:" line, "[DONE]", not JSON, no object, another type of *)
(* event) carries nothing.  An accumulator is a record, so that the        *)
(* modules that stream can keep one per stream.                            *)
(***************************************************************************)
EXTENDS Integers, SequencesExt

CONSTANTS
  NL, CR,    \* the bytes "\n" and "\r"
  Event,     \* complete lines -> [type, model, usage]
  Infinite   \* a JSON number that int() cannot convert: OverflowError

\* The order in which _merge_usage() visits them.
AxisOrder == <<"input_tokens", "output_tokens",
               "cache_write_tokens", "cache_read_tokens">>

Axes == ToSet(AxisOrder)

\* usage holds the axes the event has, as numbers; one that is absent, null or
\* raises TypeError or ValueError is left out.
ASSUME SSEUsageAssumption ==
  /\ NL # CR
  /\ \A line \in DOMAIN Event :
       /\ Event[line].type \in {"message_start", "message_delta"}
       /\ Event[line].model \in Seq(STRING)
       /\ DOMAIN Event[line].usage \subseteq Axes
       /\ \A a \in DOMAIN Event[line].usage :
            Event[line].usage[a] \in Nat \cup {Infinite}

\* The empty model id.
NoModel == <<>>

NoUsage == [a \in Axes |-> 0]

\* failed: feed() has raised.
NewAccumulator == [buf |-> <<>>, usage |-> NoUsage, model |-> NoModel,
                   started |-> FALSE, failed |-> FALSE]

\* The axes merged before the first one that raises.
Reached(u) ==
  {AxisOrder[i] : i \in {i \in DOMAIN AxisOrder :
     \A j \in 1..i : AxisOrder[j] \in DOMAIN u => u[AxisOrder[j]] # Infinite}}

\* _merge_usage()
Merge(usage, u) ==
  [a \in Axes |-> IF a \in Reached(u) \cap DOMAIN u /\ u[a] > usage[a]
                    THEN u[a] ELSE usage[a]]

\* _consume(); started is only set when the merge did not raise.
Consume(acc, event) ==
  LET raised == Reached(event.usage) # Axes
      start  == event.type = "message_start"
  IN [acc EXCEPT !.usage = Merge(@, event.usage),
                 !.model = IF start /\ event.model # NoModel THEN event.model ELSE @,
                 !.started = @ \/ (start /\ ~raised),
                 !.failed = raised]

WithoutCR(line) == IF line # <<>> /\ Last(line) = CR THEN Front(line) ELSE line

\* One pass of the loop of feed(), unless an earlier one raised.
TakeLine(acc, raw) ==
  LET line == WithoutCR(raw)
  IN IF acc.failed \/ line \notin DOMAIN Event THEN acc
     ELSE Consume(acc, Event[line])

\* Where the newlines of bytes are, and the k-th of them; the 0th is before
\* the first byte.
Breaks(bytes) == {i \in DOMAIN bytes : bytes[i] = NL}

Break(bytes, k) ==
  IF k = 0 THEN 0
  ELSE CHOOSE i \in Breaks(bytes) :
         Cardinality({j \in Breaks(bytes) : j <= i}) = k

\* The raw lines of bytes that end in NL, and what follows the last of them.
RawLines(bytes) ==
  [k \in 1..Cardinality(Breaks(bytes)) |->
     SubSeq(bytes, Break(bytes, k - 1) + 1, Break(bytes, k) - 1)]

Rest(bytes) ==
  SubSeq(bytes, Break(bytes, Cardinality(Breaks(bytes))) + 1, Len(bytes))

TakeLines(acc, lines) == FoldLeft(TakeLine, acc, lines)

\* Mutant: each chunk is parsed on its own.
FeedUnbuffered(acc, chunk) == TakeLines(acc, RawLines(chunk))

\* feed(): the buffered start of a line, then the chunk, cut at newlines.
\* After an exception nothing is fed any more.
Feed(acc, chunk) ==
  LET whole == acc.buf \o chunk
  IN TakeLines([acc EXCEPT !.buf = Rest(whole)], RawLines(whole))
=============================================================================
