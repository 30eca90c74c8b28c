------------------------------- MODULE Books -------------------------------
(***************************************************************************)
(* What a finished request leaves behind: streams feed an accumulator with *)
(* the chunks that pass (server.py:1227-1286), plain answers are parsed    *)
(* whole (server.py:1096-1147), and both end in one charge and one audit   *)
(* record, between which operators reset the books.                        *)
(***************************************************************************)
EXTENDS CostBooks, AuditStats

CONSTANTS
  StreamIds,
  Wires,       \* bodies of tracked streams, as bytes
  Replies,     \* usages of plain answers, [model, usage]; absent axes are 0
  RequestModel, BytesIn,  \* what requests name and their size
  MaxRecords   \* bound on the requests that finish

ASSUME BooksAssumption ==
  /\ \A w \in Wires : w \in Seq(UNION {ToSet(v) : v \in Wires})
  /\ RequestModel \in Seq(STRING)
  /\ \A p \in Replies : /\ p.model \in Seq(STRING)
                        /\ \A a \in DOMAIN p.usage : p.usage[a] \in Nat \cup {Infinite}
  /\ BytesIn \in Nat /\ MaxRecords \in Nat

VARIABLES
  stream,  \* of each stream: what is to come, what has passed, its accumulator
  apart    \* history: the budget was reset without the cost tracker

vars == <<bookVars, auditVars, stream, apart>>

NoStream == [pc |-> "idle", wire |-> <<>>, passed |-> <<>>, acc |-> NewAccumulator]

Init ==
  /\ BooksInit /\ StatsInit
  /\ stream = [s \in StreamIds |-> NoStream]
  /\ apart = FALSE

Room == Len(records) < MaxRecords

\* A 2xx event stream of the Messages API is opened and iterated.
Open(s, wire) ==
  /\ stream[s].pc = "idle"
  /\ stream' = [stream EXCEPT ![s] = [NoStream EXCEPT !.pc = "open", !.wire = wire]]
  /\ UNCHANGED <<bookVars, auditVars, apart>>

ModelOf(acc) == IF acc.model # NoModel THEN acc.model ELSE RequestModel

\* The finally block of body_iter(): charge what was parsed, if it began.
Settle(acc) ==
  IF acc.started THEN Charge(ModelOf(acc), acc.usage, BytesIn) ELSE UNCHANGED bookVars

Finish(acc) ==
  /\ Room
  /\ Settle(acc)
  /\ \E ts \in Times, ms \in Latencies : Observe(ts, ms, FALSE)
  /\ UNCHANGED apart

\* Mutant: the chunk is passed on before it is fed.
PassBefore(s, chunk) == stream[s].acc

\* feed(), before the chunk is passed on.
Parsed(s, chunk) == Feed(stream[s].acc, chunk)

\* One chunk.  When feed() raises, the chunk is not passed on and the stream
\* ends for the client; its finally block runs in the same step.
Chunk(s, n) ==
  LET rest  == stream[s].wire
      chunk == SubSeq(rest, 1, n)
      acc   == Parsed(s, chunk)
      after == [stream[s] EXCEPT !.wire = SubSeq(rest, n + 1, Len(rest)),
                                 !.passed = @ \o chunk, !.acc = acc]
  IN /\ stream[s].pc = "open"
     /\ IF acc.failed
          THEN /\ stream' = [stream EXCEPT ![s] = [after EXCEPT !.pc = "done"]]
               /\ Finish(acc)
          ELSE /\ stream' = [stream EXCEPT ![s] = after]
               /\ UNCHANGED <<bookVars, auditVars, apart>>

\* The body ends, the upstream breaks off or the client leaves.
Close(s) ==
  /\ stream[s].pc = "open"
  /\ stream' = [stream EXCEPT ![s].pc = "done"]
  /\ Finish(stream[s].acc)

\* extract_usage_from_anthropic()
Extracted(u) == [a \in Axes |-> IF a \in DOMAIN u THEN u[a] ELSE 0]

\* A plain answer: a JSON object that is charged, or one whose usage raises
\* OverflowError, which is caught and charges nothing.
Reply(p, ts, ms) ==
  /\ Room
  /\ IF Infinite \in {p.usage[a] : a \in DOMAIN p.usage}
       THEN UNCHANGED bookVars
       ELSE Charge(p.model, Extracted(p.usage), BytesIn)
  /\ Observe(ts, ms, FALSE)
  /\ UNCHANGED <<stream, apart>>

\* An answer of another kind, or a request that failed.
Unpriced(ts, ms, isError) ==
  /\ Room
  /\ Observe(ts, ms, isError)
  /\ UNCHANGED <<bookVars, stream, apart>>

Reset ==
  \/ CostReset /\ apart' = FALSE /\ UNCHANGED <<auditVars, stream>>
  \/ BudgetReset /\ apart' = TRUE /\ UNCHANGED <<auditVars, stream>>

Look(ts) == Timeseries(ts) /\ UNCHANGED <<bookVars, stream, apart>>

Next ==
  \/ \E s \in StreamIds :
       \/ \E w \in Wires : Open(s, w)
       \/ \E n \in 1..Len(stream[s].wire) : Chunk(s, n)
       \/ Close(s)
  \/ \E ts \in Times :
       \/ \E ms \in Latencies :
            \/ \E p \in Replies : Reply(p, ts, ms)
            \/ \E e \in BOOLEAN : Unpriced(ts, ms, e)
       \/ Look(ts)
  \/ Reset

Spec == Init /\ [][Next]_vars

-----------------------------------------------------------------------------
UsageType == [Axes -> Nat]

TypeOK ==
  /\ \A m \in DOMAIN byModel :
       byModel[m] \in [requests : Nat, tokens : UsageType, usd : Nat]
  /\ {totalUsd, totalRequests, unmatched, chars, tokens} \subseteq Nat
  /\ \A s \in StreamIds :
       /\ stream[s].pc \in {"idle", "open", "done"}
       /\ stream[s].acc.usage \in UsageType
       /\ NL \notin ToSet(stream[s].acc.buf)
  /\ {requestsTotal, upstreamErrors, dropped, latest} \subseteq Nat
  /\ latencyCounts \in [BinIndexes -> Nat]
  /\ \A m \in DOMAIN buckets :
       /\ m % MinuteSeconds = 0
       /\ buckets[m] \in [requests : Nat, errors : Nat, counts : [BinIndexes -> Nat]]
  /\ Len(recent) <= RecentMax
  /\ apart \in BOOLEAN

\* The events whose whole line is among the bytes, by the place of its end.
EventsIn(bytes) ==
  LET Starts(i) == i = 1 \/ bytes[i - 1] = NL
      Line(i, j) == WithoutCR(SubSeq(bytes, i, j - 1))
      Whole(i, j) == /\ Starts(i) /\ bytes[j] = NL
                     /\ \A k \in i..(j - 1) : bytes[k] # NL
  IN [j \in {j \in DOMAIN bytes : \E i \in 1..j : Whole(i, j) /\ Line(i, j) \in DOMAIN Event}
        |-> Event[Line(CHOOSE i \in 1..j : Whole(i, j), j)]]

ReferenceUsage(events) ==
  [a \in Axes |->
     LET values == {events[j].usage[a] : j \in {j \in DOMAIN events :
                                                  a \in DOMAIN events[j].usage}}
     IN CHOOSE v \in values \cup {0} : \A w \in values : w <= v]

\* However the bytes were cut into chunks, an open stream has parsed exactly
\* the events whose line is complete, CR or not, with the largest value of each
\* axis and the last model named (cost.py:296-304): never half a line, never
\* one twice, and a smaller number later never hides a larger one.
ChunksDoNotMatter ==
  \A s \in StreamIds : stream[s].pc = "open" =>
    LET events == EventsIn(stream[s].passed)
        starts == {j \in DOMAIN events : events[j].type = "message_start"}
        named  == {j \in starts : events[j].model # NoModel}
    IN /\ stream[s].acc.usage = ReferenceUsage(events)
       /\ stream[s].acc.started = (starts # {})
       /\ stream[s].acc.model =
            IF named = {} THEN NoModel
            ELSE events[CHOOSE j \in named : \A i \in named : i <= j].model

TokensOf(m) == IF m \in DOMAIN byModel THEN byModel[m].tokens ELSE NoUsage

\* The events before the first whose usage raises.
BeforeFailure(events) ==
  LET Raises(j) == Infinite \in {events[j].usage[a] : a \in DOMAIN events[j].usage}
  IN [j \in {j \in DOMAIN events : \A i \in DOMAIN events : i <= j => ~Raises(i)}
        |-> events[j]]

Finishes(s) == stream[s].pc = "open" /\ stream[s]'.pc = "done"

\* A stream that ends early is charged for what had arrived by then, and one
\* whose message_start never arrived is not (server.py:1255-1267): the tokens
\* added to the rows are the largest the client has been sent, a usage that
\* broke the parser included as far as it went.
BilledForWhatArrived ==
  [][\A s \in StreamIds : Finishes(s) =>
       \E events \in {EventsIn(stream[s]'.passed)} :
         \E good \in {BeforeFailure(events)} :
           \E due \in {ReferenceUsage(good)} :
             IF \A j \in DOMAIN good : good[j].type # "message_start"
               THEN UNCHANGED bookVars
               ELSE /\ totalRequests' = totalRequests + 1
                    /\ \E m \in DOMAIN byModel' : \A a \in Axes :
                         LET added == byModel'[m].tokens[a] - TokensOf(m)[a]
                         IN IF good = events THEN added = due[a] ELSE added >= due[a]
    ]_vars

\* The tokens of the budget are those of the rows until someone resets the
\* budget alone, and never more: each reset that clears the rows clears the
\* budget too (server.py:579-580).
BooksAgree ==
  /\ tokens <= TrackedTokens
  /\ ~apart => tokens = TrackedTokens
=============================================================================
