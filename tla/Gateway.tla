------------------------------- MODULE Gateway -------------------------------
(***************************************************************************)
(* The request path of the proxy (server.py:695-1286): any number of       *)
(* requests on one event loop, each a coroutine that gives way only while  *)
(* it reads its body, waits for the upstream or streams.  Between those    *)
(* points operators flip runtime toggles, purge the caches and reset the   *)
(* counters.  Bodies are abstract forms; what lingua and the compression   *)
(* engines make of a form, its cache key and its embedding neighbours are  *)
(* functions of it.  The L1 store is L1Cache seen from its callers: a put  *)
(* may be lost, and may push other rows out.                               *)
(***************************************************************************)
EXTENDS Integers, FiniteSets, Functions

CONSTANTS
  Requests,
  Forms,        \* request bodies, as sent by clients or as rewritten
  None,
  Squeezed,     \* Forms -> Forms: after the wall and lingua
  Engined,      \* Forms -> Forms: after compress_request_payload()
  Key,          \* Forms -> cache keys: cache_key() of normalize.py
  Model,        \* Forms -> models: the "model" field
  Near,         \* pairs of keys whose embeddings reach the L2 threshold
  Small,        \* forms under the adaptive policy's floor
  Streams,      \* forms with "stream": true
  PolicySkips,  \* forms whose policy turns input compression off
  Malformed,    \* JSON bodies that are no objects
  Toggles,      \* the runtime toggles operators flip in this instance
  Fixed         \* those that stay on

ASSUME GatewayAssumption ==
  /\ None \notin Forms
  /\ Squeezed \in [Forms -> Forms]
  /\ Engined \in [Forms -> Forms]
  /\ \A f \in Forms : <<Key[f], Key[f]>> \in Near
  /\ UNION {Small, Streams, PolicySkips, Malformed} \subseteq Forms
  /\ \A f \in Streams : {Squeezed[f], Engined[f]} \subseteq Streams
  /\ Toggles \cup Fixed \subseteq {"input", "lingua", "adaptive", "l1", "l2"}

VARIABLES
  on,        \* _runtime: the toggles that are on
  l2live,    \* l2_cache.enabled, of an L2 that could be built
  refused,   \* history: a POST /settings was refused after the last accepted
  l1,        \* the L1 cache: key -> what was stored
  l2,        \* the L2 cache: key -> what was stored
  job,       \* the local variables of each request's coroutine
  given,     \* the reply of each request
  audits,    \* audit records written, per request
  charges,   \* cost records made, per request
  cost,      \* cost records since cost_tracker was reset
  budget,    \* usage records since usage_budget was reset
  answered   \* history: the forms the upstream has answered with a 2xx

vars == <<on, l2live, refused, l1, l2, job, given, audits, charges, cost, budget,
          answered>>

Keys == {Key[f] : f \in Forms}

\* A stored response: the form the upstream answered, and whether its headers
\* can be sent on (a header that is not latin-1 cannot).
Stored == [of : Forms, plain : BOOLEAN]

NoJob == [pc |-> "idle", body |-> None, look |-> None, sent |-> None,
          l1 |-> FALSE, l2 |-> FALSE, saw |-> FALSE, gone |-> FALSE]

Waiting == [kind |-> "none"]

\* The ways a request comes to nothing.
Failures == {
  "crashed",      \* the lookup raised: 500
  "hit_lost",     \* the headers of a hit cannot be sent: 500
  "failed",       \* the upstream could not be asked: 502
  "answer_lost",  \* the headers of its answer cannot be sent: 502
  "left",         \* the client was gone before its stream began
  "broken"}       \* the stream broke off, at either end

Init ==
  /\ on \in {Fixed, Fixed \cup Toggles}
  /\ l2live = ("l2" \in on) /\ refused = FALSE
  /\ l1 = [k \in {} |-> 0] /\ l2 = [k \in {} |-> 0]
  /\ job = [r \in Requests |-> NoJob]
  /\ given = [r \in Requests |-> Waiting]
  /\ audits = [r \in Requests |-> 0] /\ charges = [r \in Requests |-> 0]
  /\ cost = 0 /\ budget = 0
  /\ answered = {}

Switches == <<on, l2live, refused>>
Caches == <<l1, l2>>
Books == <<audits, charges, cost, budget>>

At(r, pc) == job[r].pc = pc

Goto(r, pc) == job' = [job EXCEPT ![r].pc = pc]

\* The coroutine returns; what it held is gone, its form is kept as history.
Finish(r, j, reply) ==
  /\ job' = [job EXCEPT ![r] = [j EXCEPT !.pc = "done"]]
  /\ given' = [given EXCEPT ![r] = reply]

Audited(r, n) == audits' = [audits EXCEPT ![r] = @ + n]

\* _record_anthropic_cost(): the cost tracker and the budget, together.
Charged(r, n) ==
  /\ charges' = [charges EXCEPT ![r] = @ + n]
  /\ cost' = cost + n
  /\ budget' = budget + n

NotCharged == UNCHANGED <<charges, cost, budget>>

-----------------------------------------------------------------------------
\* The request is admitted and its body awaited.
Arrive(r, b) ==
  /\ At(r, "idle")
  /\ job' = [job EXCEPT ![r] = [NoJob EXCEPT !.pc = "body", !.body = b]]
  /\ UNCHANGED <<Switches, Caches, given, Books, answered>>

\* 401 and 501 before the body is read, a client that leaves while it is
\* read, 429 from the rate limiter after it.
Refuse(r) ==
  /\ \/ At(r, "idle")
     \/ At(r, "body")
  /\ Finish(r, job[r], [kind |-> "refused"])
  /\ UNCHANGED <<Switches, Caches, Books, answered>>

\* The adaptive policy finds the payload too small: the body goes out as it
\* came, while the cache is asked about what lingua made of it.
Skip(b, p) == [look |-> p, sent |-> b]

\* What the handler may make of a body: cache_lookup_payload and the outgoing
\* content.
Prepared(b, toggles) ==
  LET p    == IF "lingua" \in toggles THEN Squeezed[b] ELSE b
      asIs == [look |-> None, sent |-> b]
  IN IF "input" \notin toggles THEN {asIs}
     ELSE IF b \in PolicySkips
            THEN IF b \in Malformed THEN {}  \* see CrashOnLookup
                 ELSE {[look |-> b, sent |-> b]}
     ELSE IF b \in Malformed THEN {asIs}  \* compression raised
     ELSE {asIs,  \* compression raised
           IF "adaptive" \in toggles /\ p \in Small
             THEN Skip(b, p)
             ELSE [look |-> Engined[p], sent |-> Engined[p]]}

\* The coroutine once its body is there: a snapshot of the toggles decides.
Resumed(r, prep) ==
  LET cacheable == prep.look # None /\ prep.look \notin Streams
  IN [job[r] EXCEPT !.look = prep.look, !.sent = prep.sent,
                    !.l1 = cacheable /\ "l1" \in on,
                    !.l2 = cacheable /\ "l2" \in on /\ l2live]

\* A policy skip leaves a body that is no object to payload.get().
CrashOnLookup(r) ==
  /\ At(r, "body")
  /\ "input" \in on
  /\ job[r].body \in Malformed \cap PolicySkips
  /\ Finish(r, job[r], [kind |-> "crashed"])
  /\ UNCHANGED <<Switches, Caches, Books, answered>>

\* The reply of a cache hit, audited first; building it fails if the headers
\* cannot be sent.
Hit(r, j, entry, kind) ==
  /\ Finish(r, j, IF entry.plain THEN [kind |-> kind, of |-> entry.of]
                                 ELSE [kind |-> "hit_lost"])
  /\ Audited(r, 1)
  /\ NotCharged
  /\ UNCHANGED <<Switches, Caches, answered>>

HitL1(r, prep) ==
  /\ At(r, "body")
  /\ LET j == Resumed(r, prep)
     IN /\ j.l1
        /\ Key[j.look] \in DOMAIN l1
        /\ Hit(r, j, l1[Key[j.look]], "l1")

\* Mutant: the similarity threshold is not applied.
AnyNear(k) == DOMAIN l2

\* The stored points that reach the similarity threshold.
NearHits(k) == {n \in DOMAIN l2 : <<n, k>> \in Near}

\* The L1 lookup missed, or could not be made.
HitL2(r, prep) ==
  /\ At(r, "body")
  /\ LET j == Resumed(r, prep)
     IN /\ j.l2
        /\ \E n \in NearHits(Key[j.look]) : Hit(r, j, l2[n], "l2")

\* Both lookups missed, failed or were not made.
Forward(r, prep) ==
  /\ At(r, "body")
  /\ job[r].body \notin Malformed
  /\ job' = [job EXCEPT ![r] = [Resumed(r, prep) EXCEPT !.pc =
                IF prep.sent \in Streams THEN "opening" ELSE "upstream"]]
  /\ UNCHANGED <<Switches, Caches, given, Books, answered>>

\* _is_streaming_messages() raises on a body that is no object: 502.
Unforwardable(r, prep) ==
  /\ At(r, "body")
  /\ job[r].body \in Malformed
  /\ Finish(r, Resumed(r, prep), [kind |-> "failed"])
  /\ Audited(r, 1)
  /\ NotCharged
  /\ UNCHANGED <<Switches, Caches, answered>>

-----------------------------------------------------------------------------
\* Mutant: whatever came back is cached.
AnyStatus(ok) == TRUE

\* 200 <= status < 300.
Cacheable(ok) == ok

\* Storing under the key of the payload that was looked up, which the L1
\* store may lose or pay for with other rows.
L1Put(j, entry) ==
  \/ UNCHANGED l1
  \/ \E kept \in SUBSET (DOMAIN l1 \ {Key[j.look]}) :
       l1' = [k \in kept \cup {Key[j.look]} |->
                IF k \in kept THEN l1[k] ELSE entry]

\* Mutant: put_similar() goes by the snapshot, not by l2_cache.enabled.
L2PutAnyway(j) == j.l2

\* put_similar() looks at l2_cache.enabled as it is now.
L2Writes(j) == j.l2 /\ l2live

L2Put(j, entry) ==
  IF ~L2Writes(j) THEN UNCHANGED l2
  ELSE \E kept \in SUBSET (DOMAIN l2 \ {Key[j.look]}) :
         l2' = [k \in kept \cup {Key[j.look]} |->
                  IF k \in kept THEN l2[k] ELSE entry]

Remembered(f, ok) == answered' = IF ok THEN answered \cup {f} ELSE answered

\* The upstream answers a request that is not streamed: cost, audit, both
\* caches and the reply in one go.  A reply whose headers cannot be sent is
\* turned into a 502, with an audit record of its own.
Answer(r, ok, plain) ==
  /\ At(r, "upstream")
  /\ LET j     == job[r]
         entry == [of |-> j.sent, plain |-> plain]
     IN /\ Finish(r, j, IF plain THEN [kind |-> "fresh", of |-> j.sent]
                                 ELSE [kind |-> "answer_lost"])
        /\ \E n \in {0, 1} : (n = 1 => ok) /\ Charged(r, n)
        /\ Audited(r, IF plain THEN 1 ELSE 2)
        /\ Remembered(j.sent, ok)
        /\ IF Cacheable(ok) /\ j.l1 THEN L1Put(j, entry) ELSE UNCHANGED l1
        /\ IF Cacheable(ok) /\ j.l2 THEN L2Put(j, entry) ELSE UNCHANGED l2
  /\ UNCHANGED Switches

\* Mutant: a failed call is tried again, and again.
Retries(r) == Goto(r, "upstream") /\ UNCHANGED given

\* The exception is answered with a 502.
GivesUp(r) == Finish(r, job[r], [kind |-> "failed"])

\* The call raises: no connection, a timeout, a broken answer.
UpstreamFails(r) ==
  /\ At(r, "upstream") \/ At(r, "opening")
  /\ GivesUp(r)
  /\ Audited(r, 1)
  /\ NotCharged
  /\ UNCHANGED <<Switches, Caches, answered>>

\* The upstream's headers are there and the StreamingResponse is returned.
Open(r, ok) ==
  /\ At(r, "opening")
  /\ job' = [job EXCEPT ![r].pc = IF ok THEN "opened" ELSE "erring"]
  /\ Remembered(job[r].sent, ok)
  /\ UNCHANGED <<Switches, Caches, given, Books>>

\* The upstream's headers are there and cannot be sent on: no
\* StreamingResponse is built, and the exception is answered like one of the
\* upstream's.
Unstreamable(r, ok) ==
  /\ At(r, "opening")
  /\ GivesUp(r)
  /\ Audited(r, 1)
  /\ NotCharged
  /\ Remembered(job[r].sent, ok)
  /\ UNCHANGED <<Switches, Caches>>

\* Where a streamed request waits for its upstream or its client.
Streaming == {"opening", "opened", "erring", "metered", "plain"}

\* The client of a streamed request goes away.  (That of another one is not
\* missed: its reply is made all the same.)
Leave(r) ==
  /\ job[r].pc \in Streaming /\ ~job[r].gone
  /\ job' = [job EXCEPT ![r].gone = TRUE]
  /\ UNCHANGED <<Switches, Caches, given, Books, answered>>

\* Mutant: only the body of a 2xx answer is ever read.
OpenedWell(r) == At(r, "opened")

\* The StreamingResponse is there, whatever its status.
Opened(r) == At(r, "opened") \/ At(r, "erring")

\* The client is gone before the first chunk is asked for: body_iter() never
\* starts, so its finally block never runs.
Abandon(r) ==
  /\ Opened(r) /\ job[r].gone
  /\ Finish(r, job[r], [kind |-> "left"])
  /\ UNCHANGED <<Switches, Caches, Books, answered>>

\* The first chunk is asked for.  Only a 2xx event stream is metered.
Begin(r) ==
  /\ Opened(r)
  /\ Goto(r, IF At(r, "opened") THEN "metered" ELSE "plain")
  /\ UNCHANGED <<Switches, Caches, given, Books, answered>>

\* message_start passes by.
MessageStart(r) ==
  /\ At(r, "metered")
  /\ job' = [job EXCEPT ![r].saw = TRUE]
  /\ UNCHANGED <<Switches, Caches, given, Books, answered>>

\* Mutant: usage is recorded only by a stream that ran to its end.
BilledAtEnd(r, ended) == IF job[r].saw /\ ended THEN 1 ELSE 0

\* What the finally block credits, however the stream came to its end.
Billed(r, ended) == IF job[r].saw THEN 1 ELSE 0

\* Mutant: the record is written after the loop, not in the finally block.
LoggedAtEnd(r, ended) == Audited(r, IF ended THEN 1 ELSE 0)

\* The finally block's record, however the stream came to its end.
Logged(r, ended) == Audited(r, 1)

\* The stream ends, breaks, or its client leaves: the finally block.
StreamEnds(r, ended) ==
  /\ At(r, "metered") \/ At(r, "plain")
  /\ Finish(r, job[r], IF ended THEN [kind |-> "stream", of |-> job[r].sent]
                                ELSE [kind |-> "broken"])
  /\ Charged(r, Billed(r, ended))
  /\ Logged(r, ended)
  /\ UNCHANGED <<Switches, Caches, answered>>

-----------------------------------------------------------------------------
Flipped(T) == on' = (on \ T) \cup (T \ on)

\* POST /settings: toggles flip, and l2_cache.enabled follows "l2".
Post(T) ==
  /\ Flipped(T)
  /\ l2live' = ("l2" \in on')
  /\ refused' = FALSE
  /\ UNCHANGED <<Caches, job, given, Books, answered>>

\* The same with a bad engine section, or a bad lingua one: 400.  The toggles
\* before it have flipped, l2_cache.enabled has not followed.
PostRefused(T) ==
  /\ "lingua" \notin T
  /\ Flipped(T)
  /\ refused' = TRUE
  /\ UNCHANGED <<l2live, Caches, job, given, Books, answered>>

\* POST /cache/purge.
Purge ==
  /\ l1' = [k \in {} |-> 0] /\ l2' = [k \in {} |-> 0]
  /\ UNCHANGED <<Switches, job, given, Books, answered>>

\* Both axes are cleared by POST /cost/reset.
BothAxes == cost' = 0 /\ budget' = 0

CostReset ==
  /\ BothAxes
  /\ UNCHANGED <<Switches, Caches, job, given, audits, charges, answered>>

\* POST /budget/reset.
BudgetReset ==
  /\ budget' = 0
  /\ UNCHANGED <<Switches, Caches, job, given, audits, charges, cost, answered>>

\* The upstream's part in request r: it answers, or its timeouts run out.
UpstreamReturns(r) ==
  \/ \E ok, plain \in BOOLEAN : Answer(r, ok, plain)
  \/ \E ok \in BOOLEAN : Open(r, ok) \/ Unstreamable(r, ok)
  \/ UpstreamFails(r)

\* A stream whose client has gone is taken down.
TakenDown(r) ==
  job[r].gone /\ (Abandon(r) \/ \E ended \in BOOLEAN : StreamEnds(r, ended))

\* The steps of request r once its body is there.
Serve(r) ==
  \/ CrashOnLookup(r)
  \/ /\ At(r, "body")
     /\ \E prep \in Prepared(job[r].body, on) :
          \/ HitL1(r, prep)
          \/ HitL2(r, prep)
          \/ Forward(r, prep)
          \/ Unforwardable(r, prep)
  \/ UpstreamReturns(r)
  \/ Abandon(r)
  \/ Begin(r)
  \/ \E ended \in BOOLEAN : StreamEnds(r, ended)

Next ==
  \/ \E r \in Requests :
       \/ \E b \in Forms : Arrive(r, b)
       \/ Refuse(r)
       \/ Serve(r)
       \/ MessageStart(r)
       \/ Leave(r)
  \/ \E T \in SUBSET Toggles : Post(T) \/ PostRefused(T)
  \/ Purge \/ CostReset \/ BudgetReset

Spec == Init /\ [][Next]_vars

\* httpx's timeouts bound each wait for the upstream, whose headers and plain
\* answers are finite; and a streamed response whose client has gone is
\* cancelled.  Nothing hurries a client: one that sends its body or reads its
\* stream slowly may do so for ever.
Fairness ==
  \A r \in Requests : WF_vars(UpstreamReturns(r)) /\ WF_vars(TakenDown(r))

FairSpec == Spec /\ Fairness

-----------------------------------------------------------------------------
PCs == {"idle", "body", "upstream", "opening", "opened", "erring", "metered",
        "plain", "done"}

\* Type invariant; cached entries answer some form, and keys are cache keys.
TypeOK ==
  /\ on \subseteq Toggles \cup Fixed /\ {l2live, refused} \subseteq BOOLEAN
  /\ \A store \in {l1, l2} :
       DOMAIN store \subseteq Keys /\ \A k \in DOMAIN store : store[k] \in Stored
  /\ \A r \in Requests :
       /\ job[r].pc \in PCs
       /\ {job[r].body, job[r].look, job[r].sent} \subseteq Forms \cup {None}
       /\ job[r].pc = "upstream" /\ (job[r].l1 \/ job[r].l2) => job[r].look \in Forms
  /\ audits \in [Requests -> 0..2] /\ charges \in [Requests -> 0..1]
  /\ {cost, budget} \subseteq Nat
  /\ answered \subseteq Forms

From(r, kind) == given[r].kind = kind

\* "A cache hit replays a response upstream produced for an equivalent input"
\* (normalize.py:36): the response of an L1 hit answered a body with the key of
\* the one this request would have sent, that of an L2 hit one near it.
CacheSound ==
  \A r \in Requests :
    /\ From(r, "l1") => Key[given[r].of] = Key[job[r].sent]
    /\ From(r, "l2") => <<Key[given[r].of], Key[job[r].sent]>> \in Near

\* The records a request leaves, by its reply.
Recorded(kind) ==
  IF kind \in {"none", "refused", "crashed", "left"} THEN 0
  ELSE IF kind = "answer_lost" THEN 2
  ELSE 1

\* Every request that got past the rate limiter leaves exactly one audit
\* record when it is done: served from a cache or by the upstream, failed
\* with a 502, broken off in its stream, or a hit whose headers could not be
\* sent.  The exceptions are as exact: none from a lookup that raised or a
\* client that left before its stream began, two from a plain answer whose
\* headers could not be sent.
Audits == \A r \in Requests : audits[r] = Recorded(given[r].kind)

\* However a request ends and whatever is reset meanwhile: it is charged once
\* at most and only for an upstream 2xx; a hit costs nothing; a stream that
\* got as far as message_start is charged though its client left; and the
\* budget never runs ahead of the costs it is shown beside.
Accounting ==
  /\ \A r \in Requests :
       /\ charges[r] = 1 => job[r].sent \in answered
       /\ given[r].kind \in {"none", "refused", "l1", "l2"} => charges[r] = 0
       /\ job[r].pc = "done" /\ job[r].saw => charges[r] = 1
  /\ budget <= cost

\* Once an accepted POST has switched the L2 cache off nothing enters it, not
\* even the answer of a request that was under way when it was on, until the
\* next POST.  (A refused one that switches it off leaves the toggle off and the
\* cache storing: the bug that the run settings_toggle shows.)
L2OffMeansClosed ==
  [][\A k \in DOMAIN l2' : "l2" \notin on /\ ~refused =>
       k \in DOMAIN l2 /\ l2'[k] = l2[k]]_vars

\* No request waits for the upstream for ever, nor does one whose client has
\* gone hold its stream, whatever the operator posts, purges or resets.
Completes ==
  \A r \in Requests :
    /\ job[r].pc \in {"upstream", "opening"} ~> job[r].pc \notin {"upstream", "opening"}
    /\ job[r].gone ~> At(r, "done")

Promise == INSTANCE Service

\* The proxy keeps the promise of Service: one reply per request, and cached
\* ones were once given by the upstream.
ImplementsService == Promise!Spec
=============================================================================
