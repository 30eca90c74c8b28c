---------------------------- MODULE GatewayProofs ----------------------------
(***************************************************************************)
(* The request path, for any number of requests, any bodies, whatever      *)
(* lingua and the engines make of them and whatever upstream, clients and  *)
(* operators do: its books, its cache hits and the promise of Service.     *)
(***************************************************************************)
EXTENDS Gateway, TLAPS

Jobs == [pc : PCs, body : Forms \cup {None}, look : Forms \cup {None},
         sent : Forms \cup {None}, l1 : BOOLEAN, l2 : BOOLEAN, saw : BOOLEAN,
         gone : BOOLEAN]

Answers == {"fresh", "stream", "l1", "l2"}

Replies == {Waiting} \cup [kind : Failures \cup {"refused"}] \cup [kind : Answers, of : Forms]

\* The coroutine has decided what to send and is with the upstream.
Sending == {"upstream", "opening", "opened", "erring", "metered", "plain"}

\* What one coroutine, its reply and its records have to do with each other
\* and with the forms the upstream has answered.
Told(j, g, a, c, ans) ==
  /\ j \in Jobs /\ g \in Replies /\ a \in 0..2 /\ c \in 0..1
  /\ j.pc # "done" => g = Waiting /\ a = 0 /\ c = 0
  /\ j.pc \in Sending \cup {"body"} => j.body \in Forms
  /\ j.pc \in Sending => j.sent \in Forms
  /\ j.pc = "upstream" /\ (j.l1 \/ j.l2) => j.look \in Forms
  /\ j.pc \in {"opened", "metered"} => j.sent \in ans
  /\ j.saw => j.pc \in {"metered", "done"}
  /\ j.pc = "done" /\ j.saw => c = 1
  /\ c = 1 => j.sent \in ans
  /\ a = Recorded(g.kind)
  /\ g.kind \in {"none", "refused", "l1", "l2"} => c = 0

\* What a cache holds was answered with a 2xx.
Held(store, ans) ==
  /\ DOMAIN store \subseteq Keys
  /\ \A k \in DOMAIN store : store[k] \in Stored /\ store[k].of \in ans

Tables ==
  /\ job \in [Requests -> Jobs] /\ given \in [Requests -> Replies]
  /\ audits \in [Requests -> 0..2] /\ charges \in [Requests -> 0..1]

Shared ==
  /\ on \subseteq Toggles \cup Fixed
  /\ l2live \in BOOLEAN /\ refused \in BOOLEAN
  /\ ~refused /\ l2live => "l2" \in on
  /\ Held(l1, answered) /\ Held(l2, answered)
  /\ cost \in Nat /\ budget \in Nat /\ budget <= cost
  /\ answered \subseteq Forms

IInv ==
  /\ Shared
  /\ Tables
  /\ \A r \in Requests : Told(job[r], given[r], audits[r], charges[r], answered)

-----------------------------------------------------------------------------
LEMMA Moved ==
  ASSUME NEW j \in Jobs, NEW p \in PCs
  PROVE  LET m == [j EXCEPT !.pc = p]
         IN /\ m \in Jobs /\ m.pc = p
            /\ m.body = j.body /\ m.look = j.look /\ m.sent = j.sent
            /\ m.l1 = j.l1 /\ m.l2 = j.l2 /\ m.saw = j.saw /\ m.gone = j.gone
BY DEF Jobs

\* A step of one coroutine disturbs what is known of that one only.
LEMMA OneRequest ==
  ASSUME IInv, NEW r \in Requests, NEW j, NEW g, NEW a, NEW c,
         job' = [job EXCEPT ![r] = j], given' = [given EXCEPT ![r] = g],
         audits' = [audits EXCEPT ![r] = a], charges' = [charges EXCEPT ![r] = c],
         answered \subseteq answered', Told(j, g, a, c, answered'), Shared'
  PROVE  IInv'
<1>1. j \in Jobs /\ g \in Replies /\ a \in 0..2 /\ c \in 0..1
  BY DEF Told
<1>2. Tables'
  BY <1>1 DEF IInv, Tables
<1>3. ASSUME NEW q \in Requests
      PROVE  Told(job'[q], given'[q], audits'[q], charges'[q], answered')
  <2>1. CASE q = r
    BY <2>1 DEF IInv, Tables
  <2>2. CASE q # r
    <3>1. /\ job'[q] = job[q] /\ given'[q] = given[q]
          /\ audits'[q] = audits[q] /\ charges'[q] = charges[q]
      BY <2>2 DEF IInv, Tables
    <3>2. Told(job[q], given[q], audits[q], charges[q], answered)
      BY DEF IInv
    <3>3. Told(job[q], given[q], audits[q], charges[q], answered')
      BY <3>2 DEF Told
    <3> QED
      BY <3>1, <3>3
  <2> QED
    BY <2>1, <2>2
<1> QED
  BY <1>2, <1>3 DEF IInv

\* The same when the records and the reply of the request stay.
LEMMA OneJob ==
  ASSUME IInv, NEW r \in Requests, NEW j,
         job' = [job EXCEPT ![r] = j], UNCHANGED <<given, audits, charges>>,
         answered \subseteq answered',
         Told(j, given[r], audits[r], charges[r], answered'), Shared'
  PROVE  IInv'
<1>1. /\ given' = [given EXCEPT ![r] = given[r]]
      /\ audits' = [audits EXCEPT ![r] = audits[r]]
      /\ charges' = [charges EXCEPT ![r] = charges[r]]
  BY DEF IInv, Tables
<1> QED
  BY <1>1, OneRequest

\* A coroutine that has not returned has left nothing behind.
LEMMA Unfinished ==
  ASSUME IInv, NEW r \in Requests, job[r].pc # "done"
  PROVE  /\ job[r] \in Jobs
         /\ given[r] = Waiting /\ audits[r] = 0 /\ charges[r] = 0
         /\ Told(job[r], Waiting, 0, 0, answered)
BY DEF IInv, Tables, Told

-----------------------------------------------------------------------------
\* What the compression block leaves behind are bodies.
LEMMA PreparedParts ==
  ASSUME NEW b \in Forms, NEW toggles, NEW prep \in Prepared(b, toggles)
  PROVE  prep.look \in Forms \cup {None} /\ prep.sent \in Forms
<1>1. Squeezed[b] \in Forms /\ Engined[b] \in Forms /\ Engined[Squeezed[b]] \in Forms
  BY GatewayAssumption
<1> DEFINE p == IF "lingua" \in toggles THEN Squeezed[b] ELSE b
<1>2. p \in Forms /\ Engined[p] \in Forms
  BY <1>1
<1>3. \/ prep = [look |-> None, sent |-> b]
      \/ prep = [look |-> b, sent |-> b]
      \/ prep = [look |-> p, sent |-> b]
      \/ prep = [look |-> Engined[p], sent |-> Engined[p]]
  BY DEF Prepared, Skip
<1> QED
  BY <1>2, <1>3

\* The coroutine that has decided what to send, wherever it goes on.
LEMMA ResumedParts ==
  ASSUME IInv, NEW r \in Requests, At(r, "body"),
         NEW prep \in Prepared(job[r].body, on)
  PROVE  LET j == Resumed(r, prep)
         IN /\ j \in Jobs /\ j.pc = "body" /\ j.body \in Forms
            /\ j.look = prep.look /\ j.sent = prep.sent /\ j.sent \in Forms
            /\ j.saw = FALSE
            /\ j.l1 \/ j.l2 => j.look \in Forms
<1>1. job[r] \in Jobs /\ job[r].pc = "body" /\ job[r].body \in Forms /\ ~job[r].saw
  BY Unfinished DEF At, Told
<1>2. prep.look \in Forms \cup {None} /\ prep.sent \in Forms
  BY <1>1, PreparedParts
<1> DEFINE x == prep.look # None /\ prep.look \notin Streams /\ "l1" \in on
           y == prep.look # None /\ prep.look \notin Streams /\ "l2" \in on /\ l2live
           j == Resumed(r, prep)
<1>3. x \in BOOLEAN /\ y \in BOOLEAN /\ (x \/ y => prep.look \in Forms)
  BY <1>2
<1>4. j = [job[r] EXCEPT !.look = prep.look, !.sent = prep.sent, !.l1 = x, !.l2 = y]
  BY DEF Resumed
<1> HIDE DEF x, y, j
<1>5. /\ j \in Jobs /\ j.pc = "body" /\ j.body = job[r].body /\ j.look = prep.look
      /\ j.sent = prep.sent /\ j.saw = job[r].saw /\ j.l1 = x /\ j.l2 = y
  BY <1>1, <1>2, <1>3, <1>4 DEF Jobs
<1>6. job[r].saw \in BOOLEAN
  BY <1>1 DEF Jobs
<1> QED
  BY <1>1, <1>2, <1>3, <1>5, <1>6 DEF j

-----------------------------------------------------------------------------
\* What a variable set to the outcome of a test says.
LEMMA TruthValue ==
  ASSUME NEW x, NEW e, NEW S, x = (e \in S)
  PROVE  x \in BOOLEAN /\ (x => e \in S)
<1>1. x \in BOOLEAN
  OBVIOUS
<1>2. x => e \in S
  OBVIOUS
<1> QED
  BY <1>1, <1>2

LEMMA InitIInv == Init => IInv
<1> SUFFICES ASSUME Init PROVE IInv
  OBVIOUS
<1>1. NoJob \in Jobs /\ NoJob.pc = "idle" /\ NoJob.saw = FALSE
  BY DEF NoJob, Jobs, PCs
<1>2. Waiting \in Replies /\ Waiting.kind = "none"
  BY DEF Waiting, Replies
<1>3. Told(NoJob, Waiting, 0, 0, answered)
  BY <1>1, <1>2 DEF Told, Sending, Recorded
<1>4. Tables
  BY <1>1, <1>2 DEF Init, Tables
<1>5. Shared
  <2>1. on \subseteq Toggles \cup Fixed
    BY DEF Init
  <2>2. DOMAIN l1 = {} /\ DOMAIN l2 = {}
    BY DEF Init
  <2>3. l2live = ("l2" \in on) /\ refused = FALSE
    BY DEF Init
  <2>4. l2live \in BOOLEAN /\ (l2live => "l2" \in on)
    BY <2>3, TruthValue
  <2>5. refused \in BOOLEAN
    BY <2>3
  <2> QED
    BY <2>1, <2>2, <2>4, <2>5 DEF Init, Shared, Held
<1>6. \A r \in Requests : Told(job[r], given[r], audits[r], charges[r], answered)
  BY <1>3 DEF Init
<1> QED
  BY <1>4, <1>5, <1>6 DEF IInv

\* A step that leaves caches, toggles and books alone.
LEMMA SharedStays ==
  ASSUME IInv, UNCHANGED <<Switches, Caches, cost, budget, answered>>
  PROVE  Shared'
BY DEF IInv, Shared, Held, Switches, Caches

\* A coroutine that goes on to a place where it still owes its reply.
LEMMA GoesOn ==
  ASSUME IInv, NEW r \in Requests, job[r].pc # "done", NEW p \in PCs \ {"done"},
         p \in Sending \cup {"body"} => job[r].pc \in Sending \cup {"body"},
         p \in Sending => job[r].pc \in Sending,
         p = "upstream" => job[r].pc = "upstream",
         p \in {"opened", "metered"} => job[r].sent \in answered',
         job[r].saw => p = "metered",
         job' = [job EXCEPT ![r].pc = p],
         UNCHANGED <<given, audits, charges>>, answered \subseteq answered', Shared'
  PROVE  IInv'
<1> DEFINE j == [job[r] EXCEPT !.pc = p]
<1>1. job' = [job EXCEPT ![r] = j]
  OBVIOUS
<1>2. /\ j \in Jobs /\ j.pc = p /\ j.body = job[r].body /\ j.look = job[r].look
      /\ j.sent = job[r].sent /\ j.l1 = job[r].l1 /\ j.l2 = job[r].l2
      /\ j.saw = job[r].saw
  BY Unfinished, Moved
<1>3. Told(job[r], Waiting, 0, 0, answered) /\ given[r] = Waiting
        /\ audits[r] = 0 /\ charges[r] = 0
  BY Unfinished
<1> HIDE DEF j
<1>4. Told(j, Waiting, 0, 0, answered')
  BY <1>2, <1>3 DEF Told
<1> QED
  BY <1>1, <1>3, <1>4, OneJob

\* A coroutine that returns, having audited a and charged c.
LEMMA Returns ==
  ASSUME IInv, NEW r \in Requests, NEW j \in Jobs, NEW g \in Replies,
         NEW a \in 0..2, NEW c \in 0..1, job[r].pc # "done",
         Finish(r, j, g),
         audits' = [audits EXCEPT ![r] = a], charges' = [charges EXCEPT ![r] = c],
         j.saw => c = 1,
         c = 1 => j.sent \in answered',
         a = Recorded(g.kind),
         g.kind \in {"none", "refused", "l1", "l2"} => c = 0,
         answered \subseteq answered', Shared'
  PROVE  IInv'
<1> DEFINE m == [j EXCEPT !.pc = "done"]
<1>1. job' = [job EXCEPT ![r] = m] /\ given' = [given EXCEPT ![r] = g]
  BY DEF Finish
<1>2. m \in Jobs /\ m.pc = "done" /\ m.sent = j.sent /\ m.saw = j.saw
  BY Moved DEF PCs
<1> HIDE DEF m
<1>3. Told(m, g, a, c, answered')
  BY <1>2 DEF Told, Sending
<1> QED
  BY <1>1, <1>3, OneRequest

\* The replies a coroutine returns with.
LEMMA ReplyParts ==
  /\ \A k \in Failures \cup {"refused"} :
       [kind |-> k] \in Replies /\ [kind |-> k].kind = k /\ k \notin Answers
  /\ \A k \in Answers, f \in Forms :
       [kind |-> k, of |-> f] \in Replies /\ [kind |-> k, of |-> f].kind = k
BY DEF Replies, Answers, Failures

\* The first records of a request.
LEMMA FirstRecords ==
  ASSUME IInv, NEW r \in Requests, job[r].pc # "done", NEW n \in Nat
  PROVE  /\ Audited(r, n) => audits' = [audits EXCEPT ![r] = n]
         /\ Charged(r, n) => charges' = [charges EXCEPT ![r] = n]
         /\ NotCharged => charges' = [charges EXCEPT ![r] = 0]
<1>1. audits[r] = 0 /\ charges[r] = 0
  BY Unfinished
<1>2. audits \in [Requests -> 0..2] /\ charges \in [Requests -> 0..1]
  BY DEF IInv, Tables
<1>3. audits[r] + n = n /\ charges[r] + n = n
  BY <1>1
<1> QED
  BY <1>1, <1>2, <1>3 DEF Audited, Charged, NotCharged

-----------------------------------------------------------------------------
\* A hit is audited once and charged to nobody.
LEMMA HitKeeps ==
  ASSUME IInv, NEW r \in Requests, At(r, "body"),
         NEW prep \in Prepared(job[r].body, on),
         NEW entry \in Stored, NEW kind \in {"l1", "l2"},
         Hit(r, Resumed(r, prep), entry, kind)
  PROVE  IInv'
<1> DEFINE j == Resumed(r, prep)
           g == IF entry.plain THEN [kind |-> kind, of |-> entry.of] ELSE [kind |-> "hit_lost"]
           a == 1
           c == 0
<1>1. j \in Jobs /\ j.saw = FALSE
  BY ResumedParts
<1>2. Finish(r, j, g) /\ Audited(r, a) /\ NotCharged /\ UNCHANGED <<Switches, Caches, answered>>
  BY DEF Hit
<1>3. g \in Replies /\ g.kind \in {"l1", "l2", "hit_lost"}
  <2>1. entry.of \in Forms /\ entry.plain \in BOOLEAN
    BY DEF Stored
  <2> QED
    BY <2>1, ReplyParts DEF Answers, Failures
<1>4. job[r].pc # "done"
  BY DEF At
<1>5. /\ audits' = [audits EXCEPT ![r] = a]
      /\ charges' = [charges EXCEPT ![r] = c]
  BY <1>2, <1>4, FirstRecords
<1>6. Shared'
  BY <1>2, SharedStays DEF NotCharged
<1>7. answered \subseteq answered'
  BY <1>2
<1> HIDE DEF j, g
<1>8. /\ a \in 0..2 /\ c \in 0..1
      /\ j.saw => c = 1
      /\ c = 1 => j.sent \in answered'
      /\ a = Recorded(g.kind)
      /\ g.kind \in {"none", "refused", "l1", "l2"} => c = 0
  BY <1>1, <1>3 DEF Recorded
<1> HIDE DEF a, c
<1> QED
  BY <1>1, <1>2, <1>3, <1>4, <1>5, <1>6, <1>7, <1>8, Returns

\* The answer of the upstream: what it leaves in the caches it answered.
LEMMA AnswerKeepsShared ==
  ASSUME IInv, NEW r \in Requests, NEW ok \in BOOLEAN, NEW plain \in BOOLEAN,
         Answer(r, ok, plain)
  PROVE  Shared' /\ answered \subseteq answered' /\ (ok => job[r].sent \in answered')
<1> DEFINE j == job[r]
           entry == [of |-> j.sent, plain |-> plain]
<1>1. At(r, "upstream") /\ Remembered(j.sent, ok) /\ UNCHANGED Switches
  BY DEF Answer
<1>2. /\ j.sent \in Forms /\ (j.l1 \/ j.l2 => j.look \in Forms)
  BY <1>1, Unfinished DEF At, Told, Sending
<1>3. /\ entry \in Stored /\ entry.of = j.sent
      /\ (j.l1 \/ j.l2 => Key[j.look] \in Keys)
  BY <1>2 DEF Stored, Keys
<1>4. answered \subseteq answered' /\ answered' \subseteq Forms
        /\ (ok => j.sent \in answered')
  BY <1>1, <1>2 DEF Remembered, IInv, Shared
<1>5. /\ Held(l1, answered) /\ Held(l2, answered)
      /\ cost \in Nat /\ budget \in Nat /\ budget <= cost
      /\ on \subseteq Toggles \cup Fixed
      /\ l2live \in BOOLEAN /\ refused \in BOOLEAN
      /\ ~refused /\ l2live => "l2" \in on
  BY DEF IInv, Shared
<1> HIDE DEF j, entry
<1>6. Held(l1', answered')
  <2>1. CASE UNCHANGED l1
    BY <1>4, <1>5, <2>1 DEF Held
  <2>2. CASE ok /\ j.l1 /\ L1Put(j, entry)
    <3>1. CASE UNCHANGED l1
      BY <2>1, <3>1
    <3>2. ASSUME NEW kept \in SUBSET (DOMAIN l1 \ {Key[j.look]}),
                 l1' = [k \in kept \cup {Key[j.look]} |->
                          IF k \in kept THEN l1[k] ELSE entry]
          PROVE  Held(l1', answered')
      BY <1>3, <1>4, <1>5, <2>2, <3>2 DEF Held
    <3> QED
      BY <2>2, <3>1, <3>2 DEF L1Put
  <2> QED
    BY <2>1, <2>2 DEF Answer, Cacheable, j, entry
<1>7. Held(l2', answered')
  <2>1. CASE UNCHANGED l2
    BY <1>4, <1>5, <2>1 DEF Held
  <2>2. CASE ok /\ j.l2 /\ L2Put(j, entry)
    <3>1. CASE UNCHANGED l2
      BY <2>1, <3>1
    <3>2. ASSUME NEW kept \in SUBSET (DOMAIN l2 \ {Key[j.look]}),
                 l2' = [k \in kept \cup {Key[j.look]} |->
                          IF k \in kept THEN l2[k] ELSE entry]
          PROVE  Held(l2', answered')
      BY <1>3, <1>4, <1>5, <2>2, <3>2 DEF Held
    <3> QED
      BY <2>2, <3>1, <3>2 DEF L2Put
  <2> QED
    BY <2>1, <2>2 DEF Answer, Cacheable, j, entry
<1>8. cost' \in Nat /\ budget' \in Nat /\ budget' <= cost'
  <2>1. PICK n \in {0, 1} : Charged(r, n)
    BY DEF Answer
  <2> QED
    BY <1>5, <2>1 DEF Charged
<1> QED
  BY <1>1, <1>4, <1>5, <1>6, <1>7, <1>8 DEF Shared, Switches, j

LEMMA AnswerKeeps ==
  ASSUME IInv, NEW r \in Requests, NEW ok \in BOOLEAN, NEW plain \in BOOLEAN,
         Answer(r, ok, plain)
  PROVE  IInv'
<1> DEFINE j == job[r]
           g == IF plain THEN [kind |-> "fresh", of |-> j.sent]
                         ELSE [kind |-> "answer_lost"]
           a == IF plain THEN 1 ELSE 2
<1>1. At(r, "upstream") /\ Finish(r, j, g) /\ Audited(r, a)
  BY DEF Answer
<1>2. PICK n \in {0, 1} : (n = 1 => ok) /\ Charged(r, n)
  BY DEF Answer
<1>3. j \in Jobs /\ j.pc # "done" /\ ~j.saw /\ j.sent \in Forms
  BY <1>1, Unfinished DEF At, Told, Sending
<1>4. /\ audits' = [audits EXCEPT ![r] = a]
      /\ charges' = [charges EXCEPT ![r] = n]
  <2>1. a \in Nat /\ n \in Nat
    OBVIOUS
  <2> HIDE DEF a
  <2> QED
    BY <1>1, <1>2, <1>3, <2>1, FirstRecords
<1>5. /\ g \in Replies
      /\ g.kind = IF plain THEN "fresh" ELSE "answer_lost"
  BY <1>3, ReplyParts DEF Answers, Failures
<1>6. Shared' /\ answered \subseteq answered' /\ (n = 1 => j.sent \in answered')
  BY <1>2, AnswerKeepsShared
<1> HIDE DEF g
<1>7. a \in 0..2 /\ n \in 0..1
  OBVIOUS
<1>8. /\ a = Recorded(g.kind)
      /\ g.kind \in {"none", "refused", "l1", "l2"} => n = 0
  BY <1>5 DEF Recorded
<1> QED
  BY <1>1, <1>3, <1>4, <1>5, <1>6, <1>7, <1>8, Returns

\* The other ways a coroutine returns: with a failure or a refusal.
LEMMA FailsKeeps ==
  ASSUME IInv, NEW r \in Requests, NEW j \in Jobs, job[r].pc # "done", ~j.saw,
         NEW k \in (Failures \ {"answer_lost"}) \cup {"refused"},
         NEW a \in {0, 1}, a = Recorded(k),
         Finish(r, j, [kind |-> k]),
         audits' = [audits EXCEPT ![r] = a], NotCharged,
         answered \subseteq answered', Shared'
  PROVE  IInv'
<1> DEFINE g == [kind |-> k]
           c == 0
<1>1. g \in Replies /\ g.kind = k /\ k \notin {"l1", "l2", "none"}
  BY ReplyParts DEF Failures
<1>2. charges' = [charges EXCEPT ![r] = c]
  BY FirstRecords
<1>4. a \in 0..2 /\ c \in 0..1 /\ a # 2 /\ c # 1
  OBVIOUS
<1>5. Finish(r, j, g)
  OBVIOUS
<1> HIDE DEF g, c
<1>6. /\ a = Recorded(g.kind)
      /\ g.kind \in {"none", "refused", "l1", "l2"} => c = 0
  BY <1>1 DEF c
<1> QED
  BY <1>1, <1>2, <1>4, <1>5, <1>6, Returns

\* The same when nothing else changes.
LEMMA FailsQuietly ==
  ASSUME IInv, NEW r \in Requests, NEW j \in Jobs, job[r].pc # "done", ~j.saw,
         NEW k \in (Failures \ {"answer_lost"}) \cup {"refused"},
         NEW a \in {0, 1}, a = Recorded(k),
         Finish(r, j, [kind |-> k]),
         audits' = [audits EXCEPT ![r] = a], NotCharged,
         UNCHANGED <<Switches, Caches, answered>>
  PROVE  IInv'
<1>1. Shared' /\ answered \subseteq answered'
  BY SharedStays DEF NotCharged
<1> QED
  BY <1>1, FailsKeeps

\* The end of a stream.
LEMMA StreamEndKeeps ==
  ASSUME IInv, NEW r \in Requests, NEW ended \in BOOLEAN, StreamEnds(r, ended)
  PROVE  IInv'
<1> DEFINE j == job[r]
           g == IF ended THEN [kind |-> "stream", of |-> j.sent] ELSE [kind |-> "broken"]
           c == IF j.saw THEN 1 ELSE 0
           a == 1
<1>1. /\ Finish(r, j, g) /\ Charged(r, c) /\ Audited(r, a)
      /\ UNCHANGED <<Switches, Caches, answered>>
  BY DEF StreamEnds, Billed, Logged
<1>2. j.pc \in {"metered", "plain"}
  BY DEF StreamEnds, At
<1>3. /\ j \in Jobs /\ j.sent \in Forms /\ j.saw \in BOOLEAN
      /\ j.saw => j.sent \in answered
  BY <1>2, Unfinished DEF Told, Sending, Jobs
<1>4. g \in Replies /\ g.kind = IF ended THEN "stream" ELSE "broken"
  BY <1>3, ReplyParts DEF Answers, Failures
<1>5. a \in Nat /\ c \in Nat /\ a \in 0..2 /\ c \in 0..1
  BY <1>3
<1>6. /\ j.saw => c = 1
      /\ c = 1 => j.sent \in answered'
      /\ a = Recorded(g.kind)
      /\ g.kind \in {"none", "refused", "l1", "l2"} => c = 0
  BY <1>1, <1>3, <1>4 DEF Recorded
<1>7. job[r].pc # "done"
  BY <1>2
<1> HIDE DEF g, c, a
<1>8. audits' = [audits EXCEPT ![r] = a] /\ charges' = [charges EXCEPT ![r] = c]
  BY <1>1, <1>5, <1>7, FirstRecords
<1>9. Shared' /\ answered \subseteq answered'
  <2>1. cost' = cost + c /\ budget' = budget + c
    BY <1>1 DEF Charged
  <2> QED
    BY <1>1, <1>5, <2>1 DEF IInv, Shared, Held, Switches, Caches
<1> QED
  BY <1>1, <1>3, <1>4, <1>5, <1>6, <1>7, <1>8, <1>9, Returns

\* The steps of a request once its body is there.
LEMMA ServeKeeps ==
  ASSUME IInv, NEW r \in Requests, Serve(r)
  PROVE  IInv'
<1>1. CASE CrashOnLookup(r)
  <2>1. /\ At(r, "body") /\ Finish(r, job[r], [kind |-> "crashed"])
        /\ UNCHANGED <<Switches, Caches, Books, answered>>
    BY <1>1 DEF CrashOnLookup
  <2>2. job[r] \in Jobs /\ job[r].pc # "done" /\ ~job[r].saw
    BY <2>1, Unfinished DEF At, Told
  <2>3. audits' = [audits EXCEPT ![r] = 0] /\ NotCharged
    BY <2>1, <2>2, Unfinished DEF Books, NotCharged, IInv, Tables
  <2> QED
    BY <2>1, <2>2, <2>3, FailsQuietly DEF Failures, Recorded
<1>2. ASSUME At(r, "body"), NEW prep \in Prepared(job[r].body, on),
             \/ HitL1(r, prep) \/ HitL2(r, prep)
             \/ Forward(r, prep) \/ Unforwardable(r, prep)
      PROVE  IInv'
  <2> DEFINE j == Resumed(r, prep)
  <2>1. /\ j \in Jobs /\ j.pc = "body" /\ j.body \in Forms
        /\ j.sent = prep.sent /\ j.sent \in Forms /\ j.saw = FALSE
        /\ j.l1 \/ j.l2 => j.look \in Forms
    BY <1>2, ResumedParts
  <2>2. CASE HitL1(r, prep)
    <3>1. Key[j.look] \in DOMAIN l1 /\ Hit(r, j, l1[Key[j.look]], "l1")
      BY <2>2 DEF HitL1
    <3>2. l1[Key[j.look]] \in Stored
      BY <3>1 DEF IInv, Shared, Held
    <3> QED
      BY <1>2, <3>1, <3>2, HitKeeps
  <2>3. CASE HitL2(r, prep)
    <3>1. PICK n \in NearHits(Key[j.look]) : Hit(r, j, l2[n], "l2")
      BY <2>3 DEF HitL2
    <3>2. l2[n] \in Stored
      BY <3>1 DEF NearHits, IInv, Shared, Held
    <3> QED
      BY <1>2, <3>1, <3>2, HitKeeps
  <2>4. CASE Forward(r, prep)
    <3> DEFINE p == IF prep.sent \in Streams THEN "opening" ELSE "upstream"
               m == [j EXCEPT !.pc = p]
    <3>1. job' = [job EXCEPT ![r] = m] /\ UNCHANGED <<Switches, Caches, given, Books, answered>>
      BY <2>4 DEF Forward
    <3>2. p \in {"opening", "upstream"} /\ p \in PCs
      BY DEF PCs
    <3> HIDE DEF p
    <3>3. /\ m \in Jobs /\ m.pc = p /\ m.body = j.body /\ m.look = j.look
          /\ m.sent = j.sent /\ m.l1 = j.l1 /\ m.l2 = j.l2 /\ m.saw = j.saw
      BY <2>1, <3>2, Moved
    <3>4. /\ given[r] = Waiting /\ audits[r] = 0 /\ charges[r] = 0
          /\ Told(job[r], Waiting, 0, 0, answered)
      BY <1>2, Unfinished DEF At
    <3> HIDE DEF m, j
    <3>5. Told(m, Waiting, 0, 0, answered')
      BY <2>1, <3>1, <3>2, <3>3, <3>4 DEF Told, Sending
    <3>6. Shared'
      BY <3>1, SharedStays DEF Books
    <3> QED
      BY <3>1, <3>4, <3>5, <3>6, OneJob DEF Books
  <2>5. CASE Unforwardable(r, prep)
    <3>1. /\ Finish(r, j, [kind |-> "failed"]) /\ Audited(r, 1) /\ NotCharged
          /\ UNCHANGED <<Switches, Caches, answered>>
      BY <2>5 DEF Unforwardable
    <3>2. job[r].pc # "done"
      BY <1>2 DEF At
    <3>3. audits' = [audits EXCEPT ![r] = 1]
      BY <3>1, <3>2, FirstRecords
    <3> HIDE DEF j
    <3> QED
      BY <2>1, <3>1, <3>2, <3>3, FailsQuietly DEF Failures, Recorded
  <2> QED
    BY <1>2, <2>2, <2>3, <2>4, <2>5
<1>3. ASSUME NEW ok \in BOOLEAN, NEW plain \in BOOLEAN, Answer(r, ok, plain)
      PROVE  IInv'
  BY <1>3, AnswerKeeps
<1>4. CASE UpstreamFails(r)
  <2>1. /\ job[r].pc \in {"upstream", "opening"}
        /\ Finish(r, job[r], [kind |-> "failed"]) /\ Audited(r, 1) /\ NotCharged
        /\ UNCHANGED <<Switches, Caches, answered>>
    BY <1>4 DEF UpstreamFails, GivesUp, At
  <2>2. job[r] \in Jobs /\ job[r].pc # "done" /\ ~job[r].saw
    BY <2>1, Unfinished DEF Told
  <2>3. audits' = [audits EXCEPT ![r] = 1]
    BY <2>1, <2>2, FirstRecords
  <2> QED
    BY <2>1, <2>2, <2>3, FailsQuietly DEF Failures, Recorded
<1>5. ASSUME NEW ok \in BOOLEAN, Open(r, ok) PROVE IInv'
  <2> DEFINE p == IF ok THEN "opened" ELSE "erring"
  <2>1. /\ job[r].pc = "opening" /\ job' = [job EXCEPT ![r].pc = p]
        /\ Remembered(job[r].sent, ok) /\ UNCHANGED <<Switches, Caches, given, Books>>
    BY <1>5 DEF Open, At
  <2>2. job[r].sent \in Forms /\ ~job[r].saw
    BY <2>1, Unfinished DEF Told, Sending
  <2>3. /\ answered \subseteq answered' /\ answered' \subseteq Forms
        /\ ok => job[r].sent \in answered'
    BY <2>1, <2>2 DEF Remembered, IInv, Shared
  <2>4. Shared'
    BY <2>1, <2>3 DEF IInv, Shared, Held, Switches, Caches, Books
  <2>5. /\ p \in PCs \ {"done"} /\ p \in {"opened", "erring"}
        /\ p \in {"opened", "metered"} => job[r].sent \in answered'
    BY <2>3 DEF PCs
  <2> HIDE DEF p
  <2> QED
    BY <2>1, <2>2, <2>3, <2>4, <2>5, GoesOn DEF Sending, Books
<1>6. CASE Abandon(r)
  <2>1. /\ job[r].pc \in {"opened", "erring"} /\ Finish(r, job[r], [kind |-> "left"])
        /\ UNCHANGED <<Switches, Caches, Books, answered>>
    BY <1>6 DEF Abandon, Opened, At
  <2>2. job[r] \in Jobs /\ job[r].pc # "done" /\ ~job[r].saw
    BY <2>1, Unfinished DEF Told
  <2>3. audits' = [audits EXCEPT ![r] = 0] /\ NotCharged
    BY <2>1, <2>2, Unfinished DEF Books, NotCharged, IInv, Tables
  <2> QED
    BY <2>1, <2>2, <2>3, FailsQuietly DEF Failures, Recorded
<1>7. CASE Begin(r)
  <2> DEFINE p == IF At(r, "opened") THEN "metered" ELSE "plain"
  <2>1. /\ job[r].pc \in {"opened", "erring"} /\ job' = [job EXCEPT ![r].pc = p]
        /\ UNCHANGED <<Switches, Caches, given, Books, answered>>
    BY <1>7 DEF Begin, Opened, At, Goto
  <2>2. ~job[r].saw /\ (job[r].pc = "opened" => job[r].sent \in answered)
    BY <2>1, Unfinished DEF Told
  <2>3. p \in PCs \ {"done"} /\ p \in {"metered", "plain"}
        /\ (p = "metered" => job[r].pc = "opened")
    BY DEF PCs, At
  <2>4. Shared'
    BY <2>1, SharedStays DEF Books
  <2> HIDE DEF p
  <2> QED
    BY <2>1, <2>2, <2>3, <2>4, GoesOn DEF Sending, Books
<1>8. ASSUME NEW ended \in BOOLEAN, StreamEnds(r, ended) PROVE IInv'
  BY <1>8, StreamEndKeeps
<1>9. ASSUME NEW ok \in BOOLEAN, Unstreamable(r, ok) PROVE IInv'
  <2>1. /\ job[r].pc = "opening" /\ Finish(r, job[r], [kind |-> "failed"])
        /\ Audited(r, 1) /\ NotCharged /\ Remembered(job[r].sent, ok)
        /\ UNCHANGED <<Switches, Caches>>
    BY <1>9 DEF Unstreamable, GivesUp, At
  <2>2. job[r] \in Jobs /\ job[r].sent \in Forms /\ ~job[r].saw
    BY <2>1, Unfinished DEF Told, Sending
  <2>3. answered \subseteq answered' /\ answered' \subseteq Forms
    BY <2>1, <2>2 DEF Remembered, IInv, Shared
  <2>4. Shared'
    BY <2>1, <2>3 DEF IInv, Shared, Held, Switches, Caches, NotCharged
  <2>5. audits' = [audits EXCEPT ![r] = 1]
    BY <2>1, FirstRecords
  <2> QED
    BY <2>1, <2>2, <2>3, <2>4, <2>5, FailsKeeps DEF Failures, Recorded
<1> QED
  BY <1>1, <1>2, <1>3, <1>4, <1>5, <1>6, <1>7, <1>8, <1>9 DEF Serve, UpstreamReturns

\* What operators do touches no coroutine.
LEMMA OperatorKeeps ==
  ASSUME IInv, UNCHANGED <<job, given, audits, charges, answered>>, Shared'
  PROVE  IInv'
BY DEF IInv, Tables

LEMMA StepIInv == IInv /\ [Next]_vars => IInv'
<1> SUFFICES ASSUME IInv, [Next]_vars PROVE IInv'
  OBVIOUS
<1>1. ASSUME NEW r \in Requests, NEW b \in Forms, Arrive(r, b) PROVE IInv'
  <2> DEFINE j == [NoJob EXCEPT !.pc = "body", !.body = b]
  <2>1. /\ job[r].pc = "idle" /\ job' = [job EXCEPT ![r] = j]
        /\ UNCHANGED <<Switches, Caches, given, Books, answered>>
    BY <1>1 DEF Arrive, At
  <2>2. j \in Jobs /\ j.pc = "body" /\ j.body = b /\ j.saw = FALSE
    BY DEF NoJob, Jobs, PCs
  <2>3. /\ given[r] = Waiting /\ audits[r] = 0 /\ charges[r] = 0
        /\ Told(job[r], Waiting, 0, 0, answered)
    BY <2>1, Unfinished
  <2>4. Shared'
    BY <2>1, SharedStays DEF Books
  <2> HIDE DEF j
  <2>5. Told(j, Waiting, 0, 0, answered')
    BY <2>1, <2>2, <2>3 DEF Told, Sending
  <2> QED
    BY <2>1, <2>3, <2>4, <2>5, OneJob DEF Books
<1>2. ASSUME NEW r \in Requests, Refuse(r) PROVE IInv'
  <2>1. /\ job[r].pc \in {"idle", "body"} /\ Finish(r, job[r], [kind |-> "refused"])
        /\ UNCHANGED <<Switches, Caches, Books, answered>>
    BY <1>2 DEF Refuse, At
  <2>2. job[r] \in Jobs /\ job[r].pc # "done" /\ ~job[r].saw
    BY <2>1, Unfinished DEF Told
  <2>3. audits' = [audits EXCEPT ![r] = 0] /\ NotCharged
    BY <2>1, <2>2, Unfinished DEF Books, NotCharged, IInv, Tables
  <2> QED
    BY <2>1, <2>2, <2>3, FailsQuietly DEF Recorded
<1>3. ASSUME NEW r \in Requests, MessageStart(r) PROVE IInv'
  <2> DEFINE j == [job[r] EXCEPT !.saw = TRUE]
  <2>1. /\ job[r].pc = "metered" /\ job' = [job EXCEPT ![r] = j]
        /\ UNCHANGED <<Switches, Caches, given, Books, answered>>
    BY <1>3 DEF MessageStart, At
  <2>2. /\ job[r] \in Jobs /\ given[r] = Waiting /\ audits[r] = 0 /\ charges[r] = 0
        /\ Told(job[r], Waiting, 0, 0, answered)
    BY <2>1, Unfinished
  <2>3. /\ j \in Jobs /\ j.pc = "metered" /\ j.body = job[r].body
        /\ j.sent = job[r].sent
    BY <2>1, <2>2 DEF Jobs
  <2>4. Shared'
    BY <2>1, SharedStays DEF Books
  <2> HIDE DEF j
  <2>5. Told(j, Waiting, 0, 0, answered')
    BY <2>1, <2>2, <2>3 DEF Told, Sending
  <2> QED
    BY <2>1, <2>2, <2>4, <2>5, OneJob DEF Books
<1>4. ASSUME NEW T \in SUBSET Toggles, Post(T) \/ PostRefused(T) PROVE IInv'
  <2>1. on' \subseteq Toggles \cup Fixed
    BY <1>4 DEF Post, PostRefused, Flipped, IInv, Shared
  <2>2. /\ l2live' \in BOOLEAN /\ refused' \in BOOLEAN
        /\ ~refused' /\ l2live' => "l2" \in on'
    <3>1. CASE Post(T)
      <4>1. l2live' = ("l2" \in on') /\ refused' = FALSE
        BY <3>1 DEF Post
      <4>2. l2live' \in BOOLEAN /\ (l2live' => "l2" \in on')
        BY <4>1, TruthValue
      <4>3. refused' \in BOOLEAN
        BY <4>1
      <4> QED
        BY <4>2, <4>3
    <3>2. CASE PostRefused(T)
      BY <3>2 DEF PostRefused, IInv, Shared
    <3> QED
      BY <1>4, <3>1, <3>2
  <2>3. Shared'
    BY <1>4, <2>1, <2>2 DEF Post, PostRefused, IInv, Shared, Held, Caches, Books
  <2> QED
    BY <1>4, <2>3, OperatorKeeps DEF Post, PostRefused, Books
<1>5. CASE Purge
  <2>1. DOMAIN l1' = {} /\ DOMAIN l2' = {}
    BY <1>5 DEF Purge
  <2>2. Shared'
    BY <1>5, <2>1 DEF Purge, IInv, Shared, Held, Switches, Books
  <2> QED
    BY <1>5, <2>2, OperatorKeeps DEF Purge, Books
<1>6. CASE CostReset
  <2>1. Shared'
    BY <1>6 DEF CostReset, BothAxes, IInv, Shared, Held, Switches, Caches
  <2> QED
    BY <1>6, <2>1, OperatorKeeps DEF CostReset
<1>7. CASE BudgetReset
  <2>1. Shared'
    BY <1>7 DEF BudgetReset, IInv, Shared, Held, Switches, Caches
  <2> QED
    BY <1>7, <2>1, OperatorKeeps DEF BudgetReset
<1>8. CASE UNCHANGED vars
  <2>1. Shared'
    BY <1>8, SharedStays DEF vars, Switches, Caches
  <2> QED
    BY <1>8, <2>1, OperatorKeeps DEF vars
<1>9. ASSUME NEW r \in Requests, Leave(r) PROVE IInv'
  <2> DEFINE j == [job[r] EXCEPT !.gone = TRUE]
  <2>1. /\ job[r].pc \in Streaming /\ job' = [job EXCEPT ![r] = j]
        /\ UNCHANGED <<Switches, Caches, given, Books, answered>>
    BY <1>9 DEF Leave
  <2>2. /\ job[r] \in Jobs /\ given[r] = Waiting /\ audits[r] = 0 /\ charges[r] = 0
        /\ Told(job[r], Waiting, 0, 0, answered)
    BY <2>1, Unfinished DEF Streaming
  <2>3. /\ j \in Jobs /\ j.pc = job[r].pc /\ j.body = job[r].body
        /\ j.sent = job[r].sent /\ j.look = job[r].look /\ j.saw = job[r].saw
        /\ j.l1 = job[r].l1 /\ j.l2 = job[r].l2
    BY <2>2 DEF Jobs
  <2>4. Shared'
    BY <2>1, SharedStays DEF Books
  <2> HIDE DEF j
  <2>5. Told(j, Waiting, 0, 0, answered')
    BY <2>1, <2>2, <2>3 DEF Told
  <2> QED
    BY <2>1, <2>2, <2>4, <2>5, OneJob DEF Books
<1> QED
  BY <1>1, <1>2, <1>3, <1>4, <1>5, <1>6, <1>7, <1>8, <1>9, ServeKeeps DEF Next

LEMMA Inductive == Spec => []IInv
<1>1. Init => IInv
  BY InitIInv
<1>2. IInv /\ [Next]_vars => IInv'
  BY StepIInv
<1> QED
  BY <1>1, <1>2, PTL DEF Spec

-----------------------------------------------------------------------------
\* Every variable keeps its type, whatever the interleaving; a cached entry
\* answers a form and its key is a cache key.
THEOREM GatewayTyped == Spec => []TypeOK
<1>1. IInv => TypeOK
  <2> SUFFICES ASSUME IInv PROVE TypeOK
    OBVIOUS
  <2>1. /\ on \subseteq Toggles \cup Fixed /\ {l2live, refused} \subseteq BOOLEAN
        /\ {cost, budget} \subseteq Nat /\ answered \subseteq Forms
    BY DEF IInv, Shared
  <2>2. \A store \in {l1, l2} :
          DOMAIN store \subseteq Keys /\ \A k \in DOMAIN store : store[k] \in Stored
    BY DEF IInv, Shared, Held
  <2>3. ASSUME NEW r \in Requests
        PROVE  /\ job[r].pc \in PCs
               /\ {job[r].body, job[r].look, job[r].sent} \subseteq Forms \cup {None}
               /\ job[r].pc = "upstream" /\ (job[r].l1 \/ job[r].l2) => job[r].look \in Forms
    BY DEF IInv, Told, Jobs
  <2> QED
    BY <2>1, <2>2, <2>3 DEF TypeOK, IInv, Tables
<1> QED
  BY <1>1, Inductive, PTL

\* A request leaves the audit records its end calls for, and no others: one if
\* it was answered, failed with a 502, broke off in its stream or was a hit
\* that could not be sent; none if it was refused, its lookup raised or its
\* client left before the stream; two if its answer could not be sent.
THEOREM AuditedOnce == Spec => []Audits
<1>1. IInv => Audits
  BY DEF IInv, Told, Audits
<1> QED
  BY <1>1, Inductive, PTL

\* A request is charged once at most, for an upstream 2xx only, and a stream
\* that began is charged however it ended; the budget never runs ahead of the
\* costs, whatever is reset in between.
THEOREM BooksAreRight == Spec => []Accounting
<1>1. IInv => Accounting
  <2> SUFFICES ASSUME IInv PROVE Accounting
    OBVIOUS
  <2>1. budget <= cost
    BY DEF IInv, Shared
  <2>2. ASSUME NEW r \in Requests
        PROVE  /\ charges[r] = 1 => job[r].sent \in answered
               /\ given[r].kind \in {"none", "refused", "l1", "l2"} => charges[r] = 0
               /\ job[r].pc = "done" /\ job[r].saw => charges[r] = 1
    BY DEF IInv, Told
  <2> QED
    BY <2>1, <2>2 DEF Accounting
<1> QED
  BY <1>1, Inductive, PTL

-----------------------------------------------------------------------------
\* Which steps write to L2.
LEMMA L2Writers ==
  ASSUME Next
  PROVE  \/ UNCHANGED l2
         \/ Purge
         \/ \E r \in Requests, ok, plain \in BOOLEAN :
              Answer(r, ok, plain) /\ L2Put(job[r], [of |-> job[r].sent, plain |-> plain])
<1>1. ASSUME NEW r \in Requests, Serve(r),
             \A ok, plain \in BOOLEAN : ~Answer(r, ok, plain)
      PROVE  UNCHANGED l2
  BY <1>1 DEF Serve, CrashOnLookup, HitL1, HitL2, Hit, Forward, Unforwardable,
              UpstreamReturns, UpstreamFails, Open, Unstreamable, Abandon, Begin,
              StreamEnds, Caches
<1>2. ASSUME NEW r \in Requests, NEW ok \in BOOLEAN, NEW plain \in BOOLEAN,
             Answer(r, ok, plain)
      PROVE  UNCHANGED l2 \/ L2Put(job[r], [of |-> job[r].sent, plain |-> plain])
  BY <1>2 DEF Answer
<1>3. ASSUME NEW r \in Requests, (\E b \in Forms : Arrive(r, b)) \/ Refuse(r)
                                \/ MessageStart(r) \/ Leave(r)
      PROVE  UNCHANGED l2
  BY <1>3 DEF Arrive, Refuse, MessageStart, Leave, Caches
<1>4. ASSUME \/ \E T \in SUBSET Toggles : Post(T) \/ PostRefused(T)
             \/ CostReset \/ BudgetReset
      PROVE  UNCHANGED l2
  BY <1>4 DEF Post, PostRefused, CostReset, BudgetReset, Caches
<1> QED
  BY <1>1, <1>2, <1>3, <1>4 DEF Next

\* An accepted POST that switches L2 off closes it for requests that are
\* under way as well: l2_cache.enabled is off with the toggle until the next
\* POST, and it is what a store asks.
THEOREM L2StaysClosed == Spec => L2OffMeansClosed
<1>1. ASSUME IInv, Next, "l2" \notin on, ~refused, NEW k \in DOMAIN l2'
      PROVE  k \in DOMAIN l2 /\ l2'[k] = l2[k]
  <2> ~l2live
    BY <1>1 DEF IInv, Shared
  <2>1. CASE UNCHANGED l2
    BY <2>1
  <2>2. CASE Purge
    <3>1. DOMAIN l2' = {}
      BY <2>2 DEF Purge
    <3> QED
      BY <3>1
  <2>3. ASSUME NEW r \in Requests, NEW plain \in BOOLEAN,
               L2Put(job[r], [of |-> job[r].sent, plain |-> plain])
        PROVE  UNCHANGED l2
    BY <1>1, <2>3 DEF L2Put, L2Writes
  <2> QED
    BY <1>1, <2>1, <2>2, <2>3, L2Writers
<1>2. ASSUME IInv, [Next]_vars
      PROVE  [\A k \in DOMAIN l2' : "l2" \notin on /\ ~refused =>
                k \in DOMAIN l2 /\ l2'[k] = l2[k]]_vars
  BY <1>1, <1>2
<1> QED
  BY <1>2, Inductive, PTL DEF Spec, L2OffMeansClosed

-----------------------------------------------------------------------------
\* The proxy implements Service: a coroutine that returns is a reply, an
\* upstream 2xx an answer, and everything else no step at all.
LEMMA RepliesOnce ==
  ASSUME IInv, NEW r \in Requests, job[r].pc # "done", NEW j, NEW g, Finish(r, j, g)
  PROVE  Promise!Reply(r, g)
BY Unfinished DEF Finish, Promise!Reply, Waiting, Promise!Waiting

LEMMA HitPromised ==
  ASSUME IInv, NEW r \in Requests, At(r, "body"), NEW j, NEW entry \in Stored,
         NEW kind \in {"l1", "l2"}, entry.of \in answered, Hit(r, j, entry, kind)
  PROVE  Promise!Next
<1>1. job[r].pc # "done" /\ UNCHANGED answered
  BY DEF At, Hit
<1>2. entry.of \in Forms
  BY DEF Stored
<1>3. CASE entry.plain
  <2>1. Promise!Reply(r, [kind |-> kind, of |-> entry.of])
    BY <1>1, <1>3, RepliesOnce DEF Hit
  <2> QED
    BY <1>1, <1>2, <2>1 DEF Promise!Next
<1>4. CASE ~entry.plain
  <2>1. Promise!Reply(r, [kind |-> "hit_lost"])
    BY <1>1, <1>4, RepliesOnce DEF Hit
  <2> QED
    BY <1>1, <2>1 DEF Promise!Next, Failures
<1> QED
  BY <1>3, <1>4

LEMMA FailurePromised ==
  ASSUME IInv, NEW r \in Requests, job[r].pc # "done", NEW j,
         NEW k \in Failures \cup {"refused"}, Finish(r, j, [kind |-> k]),
         UNCHANGED answered
  PROVE  Promise!Next
<1>1. Promise!Reply(r, [kind |-> k])
  BY RepliesOnce
<1> QED
  BY <1>1 DEF Promise!Next

LEMMA AnswerPromised ==
  ASSUME IInv, NEW r \in Requests, NEW ok \in BOOLEAN, NEW plain \in BOOLEAN,
         Answer(r, ok, plain)
  PROVE  Promise!Next
<1> DEFINE f == job[r].sent
<1>1. /\ At(r, "upstream") /\ Remembered(f, ok)
      /\ Finish(r, job[r], IF plain THEN [kind |-> "fresh", of |-> f]
                                    ELSE [kind |-> "answer_lost"])
  BY DEF Answer
<1>2. f \in Forms /\ job[r].pc # "done"
  BY <1>1, Unfinished DEF At, Told, Sending
<1>3. answered' \in {answered, answered \cup {f}}
  BY <1>1 DEF Remembered
<1> HIDE DEF f
<1>4. CASE plain
  <2>1. Promise!Reply(r, [kind |-> "fresh", of |-> f])
    BY <1>1, <1>2, <1>4, RepliesOnce
  <2> QED
    BY <1>2, <1>3, <2>1 DEF Promise!Next
<1>5. CASE ~plain
  <2>1. Promise!Reply(r, [kind |-> "answer_lost"])
    BY <1>1, <1>2, <1>5, RepliesOnce
  <2> QED
    BY <1>2, <1>3, <2>1 DEF Promise!Next, Promise!Answer, Failures
<1> QED
  BY <1>4, <1>5

LEMMA ServePromised ==
  ASSUME IInv, NEW r \in Requests, Serve(r)
  PROVE  [Promise!Next]_<<answered, given>>
<1>1. CASE CrashOnLookup(r)
  BY <1>1, FailurePromised DEF CrashOnLookup, At, Failures
<1>2. ASSUME At(r, "body"), NEW prep \in Prepared(job[r].body, on)
      PROVE  /\ HitL1(r, prep) => Promise!Next
             /\ HitL2(r, prep) => Promise!Next
             /\ Forward(r, prep) => UNCHANGED <<answered, given>>
             /\ Unforwardable(r, prep) => Promise!Next
  <2> DEFINE j == Resumed(r, prep)
  <2>1. ASSUME HitL1(r, prep) PROVE Promise!Next
    <3>1. Key[j.look] \in DOMAIN l1 /\ Hit(r, j, l1[Key[j.look]], "l1")
      BY <2>1 DEF HitL1
    <3>2. l1[Key[j.look]] \in Stored /\ l1[Key[j.look]].of \in answered
      BY <3>1 DEF IInv, Shared, Held
    <3> QED
      BY <1>2, <3>1, <3>2, HitPromised
  <2>2. ASSUME HitL2(r, prep) PROVE Promise!Next
    <3>1. PICK n \in NearHits(Key[j.look]) : Hit(r, j, l2[n], "l2")
      BY <2>2 DEF HitL2
    <3>2. l2[n] \in Stored /\ l2[n].of \in answered
      BY <3>1 DEF NearHits, IInv, Shared, Held
    <3> QED
      BY <1>2, <3>1, <3>2, HitPromised
  <2>3. ASSUME Unforwardable(r, prep) PROVE Promise!Next
    BY <1>2, <2>3, FailurePromised DEF Unforwardable, At, Failures
  <2>4. Forward(r, prep) => UNCHANGED <<answered, given>>
    BY DEF Forward
  <2> QED
    BY <2>1, <2>2, <2>3, <2>4
<1>3. ASSUME NEW ok \in BOOLEAN, NEW plain \in BOOLEAN, Answer(r, ok, plain)
      PROVE  Promise!Next
  BY <1>3, AnswerPromised
<1>4. CASE UpstreamFails(r)
  BY <1>4, FailurePromised DEF UpstreamFails, GivesUp, At, Failures
<1>5. ASSUME NEW ok \in BOOLEAN, Open(r, ok)
      PROVE  [Promise!Next]_<<answered, given>>
  <2>1. job[r].sent \in Forms
    BY <1>5, Unfinished DEF Open, At, Told, Sending
  <2>2. CASE ok
    <3>1. answered' = answered \cup {job[r].sent} /\ UNCHANGED given
      BY <1>5, <2>2 DEF Open, Remembered
    <3> QED
      BY <2>1, <3>1 DEF Promise!Next, Promise!Answer
  <2>3. CASE ~ok
    BY <1>5, <2>3 DEF Open, Remembered
  <2> QED
    BY <2>2, <2>3
<1>6. CASE Abandon(r)
  BY <1>6, FailurePromised DEF Abandon, Opened, At, Failures
<1>7. CASE Begin(r)
  BY <1>7 DEF Begin
<1>8. ASSUME NEW ended \in BOOLEAN, StreamEnds(r, ended)
      PROVE  Promise!Next
  <2>1. /\ job[r].pc \in {"metered", "plain"} /\ UNCHANGED answered
        /\ Finish(r, job[r], IF ended THEN [kind |-> "stream", of |-> job[r].sent]
                                      ELSE [kind |-> "broken"])
    BY <1>8 DEF StreamEnds, At
  <2>2. job[r].sent \in Forms /\ job[r].pc # "done"
    BY <2>1, Unfinished DEF Told, Sending
  <2>3. CASE ended
    <3>1. Promise!Reply(r, [kind |-> "stream", of |-> job[r].sent])
      BY <2>1, <2>2, <2>3, RepliesOnce
    <3> QED
      BY <2>1, <2>2, <3>1 DEF Promise!Next
  <2>4. CASE ~ended
    BY <2>1, <2>2, <2>4, FailurePromised DEF Failures
  <2> QED
    BY <2>3, <2>4
<1>9. ASSUME NEW ok \in BOOLEAN, Unstreamable(r, ok)
      PROVE  Promise!Next
  <2>1. /\ job[r].pc = "opening" /\ Finish(r, job[r], [kind |-> "failed"])
        /\ Remembered(job[r].sent, ok)
    BY <1>9 DEF Unstreamable, GivesUp, At
  <2>2. job[r].sent \in Forms
    BY <2>1, Unfinished DEF Told, Sending
  <2>3. Promise!Reply(r, [kind |-> "failed"])
    BY <2>1, RepliesOnce
  <2> QED
    BY <2>1, <2>2, <2>3 DEF Promise!Next, Promise!Answer, Remembered, Failures
<1> QED
  BY <1>1, <1>2, <1>3, <1>4, <1>5, <1>6, <1>7, <1>8, <1>9 DEF Serve, UpstreamReturns

LEMMA StepPromised == IInv /\ [Next]_vars => [Promise!Next]_<<answered, given>>
<1> SUFFICES ASSUME IInv, [Next]_vars PROVE [Promise!Next]_<<answered, given>>
  OBVIOUS
<1>1. ASSUME NEW r \in Requests, Refuse(r) PROVE Promise!Next
  BY <1>1, FailurePromised DEF Refuse, At
<1>2. ASSUME NEW r \in Requests, (\E b \in Forms : Arrive(r, b)) \/ MessageStart(r) \/ Leave(r)
      PROVE  UNCHANGED <<answered, given>>
  BY <1>2 DEF Arrive, MessageStart, Leave
<1>3. ASSUME \/ \E T \in SUBSET Toggles : Post(T) \/ PostRefused(T)
             \/ Purge \/ CostReset \/ BudgetReset
      PROVE  UNCHANGED <<answered, given>>
  BY <1>3 DEF Post, PostRefused, Purge, CostReset, BudgetReset
<1>4. CASE UNCHANGED vars
  BY <1>4 DEF vars
<1> QED
  BY <1>1, <1>2, <1>3, <1>4, ServePromised DEF Next

\* The promise of Service is kept: one reply per request, and what comes out
\* of a cache was once the upstream's 2xx answer to a body the proxy sent.
THEOREM ServiceImplemented == Spec => ImplementsService
<1>1. Init => Promise!Init
  BY DEF Init, Promise!Init, Waiting, Promise!Waiting
<1>2. IInv /\ [Next]_vars => [Promise!Next]_<<answered, given>>
  BY StepPromised
<1> QED
  BY <1>1, <1>2, Inductive, PTL DEF Spec, ImplementsService, Promise!Spec

-----------------------------------------------------------------------------
\* As long as lingua and the adaptive skip are not on together, or lingua
\* leaves the key of what is skipped alone, a body is looked up under its own
\* key.
SkipsAgree ==
  {"lingua", "adaptive"} \subseteq Toggles \cup Fixed =>
    \A b \in Forms : Squeezed[b] \in Small => Key[Squeezed[b]] = Key[b]

SameKey(j) == j.look \in Forms => Key[j.look] = Key[j.sent]

\* A coroutine will store under the key of what it sent, and a hit answered a
\* body that has, or is near, the key of what it would have sent.
Matched(j, g) ==
  /\ j.pc = "upstream" => SameKey(j)
  /\ g.kind = "l1" => Key[g.of] = Key[j.sent]
  /\ g.kind = "l2" => <<Key[g.of], Key[j.sent]>> \in Near

\* A response is stored under the key of the body it answered.
Keyed(store) == \A k \in DOMAIN store : Key[store[k].of] = k

SoundInv ==
  /\ Keyed(l1) /\ Keyed(l2)
  /\ \A r \in Requests : Matched(job[r], given[r])

LEMMA PreparedSameKey ==
  ASSUME SkipsAgree, IInv, NEW b \in Forms, NEW prep \in Prepared(b, on),
         prep.look \in Forms
  PROVE  Key[prep.look] = Key[prep.sent]
<1> DEFINE p == IF "lingua" \in on THEN Squeezed[b] ELSE b
<1>1. \/ prep = [look |-> None, sent |-> b]
      \/ prep = [look |-> b, sent |-> b]
      \/ prep = [look |-> p, sent |-> b] /\ "adaptive" \in on /\ p \in Small
      \/ prep = [look |-> Engined[p], sent |-> Engined[p]]
  BY DEF Prepared, Skip
<1>2. None \notin Forms /\ on \subseteq Toggles \cup Fixed
  BY GatewayAssumption DEF IInv, Shared
<1>3. "adaptive" \in on /\ p \in Small => Key[p] = Key[b]
  BY <1>2 DEF SkipsAgree
<1> HIDE DEF p
<1> QED
  BY <1>1, <1>2, <1>3

LEMMA OneSound ==
  ASSUME IInv, SoundInv, NEW r \in Requests, NEW j, NEW g,
         job' = [job EXCEPT ![r] = j], given' = [given EXCEPT ![r] = g],
         Matched(j, g), Keyed(l1'), Keyed(l2')
  PROVE  SoundInv'
<1>1. ASSUME NEW q \in Requests PROVE Matched(job'[q], given'[q])
  <2>1. CASE q = r
    BY <2>1 DEF IInv, Tables
  <2>2. CASE q # r
    <3>1. job'[q] = job[q] /\ given'[q] = given[q]
      BY <2>2 DEF IInv, Tables
    <3> QED
      BY <3>1 DEF SoundInv
  <2> QED
    BY <2>1, <2>2
<1> QED
  BY <1>1 DEF SoundInv

\* A coroutine that returns with anything but a hit.
LEMMA ReturnSound ==
  ASSUME IInv, SoundInv, NEW r \in Requests, NEW j \in Jobs, NEW g,
         g.kind \notin {"l1", "l2"}, Finish(r, j, g), Keyed(l1'), Keyed(l2')
  PROVE  SoundInv'
<1> DEFINE m == [j EXCEPT !.pc = "done"]
<1>1. job' = [job EXCEPT ![r] = m] /\ given' = [given EXCEPT ![r] = g]
  BY DEF Finish
<1>2. m.pc = "done"
  BY Moved DEF PCs
<1> HIDE DEF m
<1>3. Matched(m, g)
  BY <1>2 DEF Matched
<1> QED
  BY <1>1, <1>3, OneSound

\* A coroutine that goes on, not to wait for a plain answer.
LEMMA GoesOnSound ==
  ASSUME IInv, SoundInv, NEW r \in Requests, job[r].pc # "done", NEW j,
         j.pc # "upstream", job' = [job EXCEPT ![r] = j],
         UNCHANGED <<given, Caches>>
  PROVE  SoundInv'
<1>1. given[r] = Waiting /\ given' = [given EXCEPT ![r] = Waiting]
  BY Unfinished DEF IInv, Tables
<1>2. Matched(j, Waiting)
  BY DEF Matched, Waiting
<1>3. Keyed(l1') /\ Keyed(l2')
  BY DEF SoundInv, Caches
<1> QED
  BY <1>1, <1>2, <1>3, OneSound

LEMMA OperatorSound ==
  ASSUME SoundInv, UNCHANGED <<job, given>>, Keyed(l1'), Keyed(l2')
  PROVE  SoundInv'
BY DEF SoundInv

LEMMA HitSound ==
  ASSUME IInv, SoundInv, NEW r \in Requests, NEW j \in Jobs, NEW entry \in Stored,
         NEW kind \in {"l1", "l2"},
         kind = "l1" => Key[entry.of] = Key[j.sent],
         kind = "l2" => <<Key[entry.of], Key[j.sent]>> \in Near,
         Hit(r, j, entry, kind)
  PROVE  SoundInv'
<1> DEFINE m == [j EXCEPT !.pc = "done"]
           g == IF entry.plain THEN [kind |-> kind, of |-> entry.of]
                               ELSE [kind |-> "hit_lost"]
<1>1. job' = [job EXCEPT ![r] = m] /\ given' = [given EXCEPT ![r] = g] /\ UNCHANGED Caches
  BY DEF Hit, Finish
<1>2. m.pc = "done" /\ m.sent = j.sent
  BY Moved DEF PCs
<1>3. Keyed(l1') /\ Keyed(l2')
  BY <1>1 DEF SoundInv, Caches
<1>4. \/ g.kind = kind /\ g.of = entry.of
      \/ g.kind = "hit_lost"
  BY ReplyParts
<1> HIDE DEF m, g
<1>5. Matched(m, g)
  BY <1>2, <1>4 DEF Matched
<1> QED
  BY <1>1, <1>3, <1>5, OneSound

LEMMA AnswerSound ==
  ASSUME IInv, SoundInv, NEW r \in Requests, NEW ok \in BOOLEAN, NEW plain \in BOOLEAN,
         Answer(r, ok, plain)
  PROVE  SoundInv'
<1> DEFINE j == job[r]
           entry == [of |-> j.sent, plain |-> plain]
           g == IF plain THEN [kind |-> "fresh", of |-> j.sent]
                         ELSE [kind |-> "answer_lost"]
<1>1. At(r, "upstream") /\ Finish(r, j, g)
  BY DEF Answer
<1>2. j \in Jobs /\ (j.l1 \/ j.l2 => Key[j.look] = Key[j.sent])
  <2>1. j \in Jobs /\ (j.l1 \/ j.l2 => j.look \in Forms)
    BY <1>1, Unfinished DEF At, Told
  <2>2. SameKey(j)
    BY <1>1 DEF At, SoundInv, Matched
  <2> QED
    BY <2>1, <2>2 DEF SameKey
<1>3. g.kind \notin {"l1", "l2"} /\ entry.of = j.sent
  BY ReplyParts
<1>4. Keyed(l1) /\ Keyed(l2)
  BY DEF SoundInv
<1> HIDE DEF j, entry, g
<1>5. Keyed(l1')
  <2>1. CASE UNCHANGED l1
    BY <1>4, <2>1
  <2>2. ASSUME j.l1, NEW kept \in SUBSET (DOMAIN l1 \ {Key[j.look]}),
               l1' = [k \in kept \cup {Key[j.look]} |-> IF k \in kept THEN l1[k] ELSE entry]
        PROVE  Keyed(l1')
    BY <1>2, <1>3, <1>4, <2>2 DEF Keyed
  <2> QED
    BY <2>1, <2>2 DEF Answer, L1Put, j, entry
<1>6. Keyed(l2')
  <2>1. CASE UNCHANGED l2
    BY <1>4, <2>1
  <2>2. ASSUME j.l2, NEW kept \in SUBSET (DOMAIN l2 \ {Key[j.look]}),
               l2' = [k \in kept \cup {Key[j.look]} |-> IF k \in kept THEN l2[k] ELSE entry]
        PROVE  Keyed(l2')
    BY <1>2, <1>3, <1>4, <2>2 DEF Keyed
  <2> QED
    BY <2>1, <2>2 DEF Answer, L2Put, j, entry
<1> QED
  BY <1>1, <1>2, <1>3, <1>5, <1>6, ReturnSound

LEMMA ServeSound ==
  ASSUME SkipsAgree, IInv, SoundInv, NEW r \in Requests, Serve(r)
  PROVE  SoundInv'
<1> DEFINE Failed(k) == [kind |-> k]
<1>1. \A k \in Failures : Failed(k).kind \notin {"l1", "l2"}
  BY DEF Failures
<1>2. ASSUME UNCHANGED Caches PROVE Keyed(l1') /\ Keyed(l2')
  BY <1>2 DEF Caches, SoundInv
<1>3. job[r] \in Jobs
  BY DEF IInv, Tables
<1> HIDE DEF Failed
<1>4. CASE CrashOnLookup(r)
  BY <1>1, <1>2, <1>3, <1>4, ReturnSound DEF CrashOnLookup, Failed, Failures
<1>5. ASSUME At(r, "body"), NEW prep \in Prepared(job[r].body, on),
             \/ HitL1(r, prep) \/ HitL2(r, prep)
             \/ Forward(r, prep) \/ Unforwardable(r, prep)
      PROVE  SoundInv'
  <2> DEFINE j == Resumed(r, prep)
  <2>1. /\ j \in Jobs /\ j.look = prep.look /\ j.sent = prep.sent
        /\ j.l1 \/ j.l2 => j.look \in Forms
    BY <1>5, ResumedParts
  <2>2. job[r].body \in Forms /\ job[r].pc # "done"
    BY <1>5, Unfinished DEF At, Told
  <2>3. SameKey(j)
    BY <2>1, <2>2, PreparedSameKey DEF SameKey
  <2>4. CASE HitL1(r, prep)
    <3> DEFINE k == Key[j.look]
    <3>1. j.l1 /\ k \in DOMAIN l1 /\ Hit(r, j, l1[k], "l1")
      BY <2>4 DEF HitL1
    <3>2. l1[k] \in Stored /\ Key[l1[k].of] = k
      BY <3>1 DEF IInv, Shared, Held, SoundInv, Keyed
    <3>3. k = Key[j.sent]
      BY <2>1, <2>3, <3>1 DEF SameKey
    <3> HIDE DEF k, j
    <3> QED
      BY <2>1, <3>1, <3>2, <3>3, HitSound
  <2>5. CASE HitL2(r, prep)
    <3>1. j.l2 /\ \E n \in NearHits(Key[j.look]) : Hit(r, j, l2[n], "l2")
      BY <2>5 DEF HitL2
    <3>2. PICK n \in NearHits(Key[j.look]) : Hit(r, j, l2[n], "l2")
      BY <3>1
    <3>3. l2[n] \in Stored /\ Key[l2[n].of] = n /\ <<n, Key[j.look]>> \in Near
      BY <3>2 DEF NearHits, IInv, Shared, Held, SoundInv, Keyed
    <3>4. Key[j.look] = Key[j.sent]
      BY <2>1, <2>3, <3>1 DEF SameKey
    <3> HIDE DEF j
    <3> QED
      BY <2>1, <3>2, <3>3, <3>4, HitSound
  <2>6. CASE Forward(r, prep)
    <3> DEFINE p == IF prep.sent \in Streams THEN "opening" ELSE "upstream"
               m == [j EXCEPT !.pc = p]
    <3>1. job' = [job EXCEPT ![r] = m] /\ UNCHANGED <<given, Caches>>
      BY <2>6 DEF Forward
    <3>2. m.look = j.look /\ m.sent = j.sent
      BY <2>1, Moved DEF PCs
    <3>3. given' = [given EXCEPT ![r] = Waiting]
      BY <2>2, <3>1, Unfinished DEF IInv, Tables
    <3> HIDE DEF m, j
    <3>4. Matched(m, Waiting)
      BY <2>3, <3>2 DEF Matched, SameKey, Waiting
    <3> QED
      BY <1>2, <3>1, <3>3, <3>4, OneSound
  <2>7. CASE Unforwardable(r, prep)
    BY <1>1, <1>2, <2>1, <2>7, ReturnSound DEF Unforwardable, Failed, Failures
  <2> QED
    BY <1>5, <2>4, <2>5, <2>6, <2>7
<1>6. ASSUME NEW ok \in BOOLEAN, NEW plain \in BOOLEAN, Answer(r, ok, plain)
      PROVE  SoundInv'
  BY <1>6, AnswerSound
<1>7. CASE UpstreamFails(r)
  BY <1>1, <1>2, <1>3, <1>7, ReturnSound DEF UpstreamFails, GivesUp, Failed, Failures
<1>8. ASSUME NEW p \in {"opened", "erring", "metered", "plain"}, job[r].pc # "done",
             job' = [job EXCEPT ![r].pc = p], UNCHANGED <<given, Caches>>
      PROVE  SoundInv'
  <2> DEFINE m == [job[r] EXCEPT !.pc = p]
  <2>1. job' = [job EXCEPT ![r] = m] /\ m.pc = p
    BY <1>3, <1>8, Moved DEF PCs
  <2> HIDE DEF m
  <2> QED
    BY <1>8, <2>1, GoesOnSound
<1>9. ASSUME NEW ok \in BOOLEAN, Open(r, ok) PROVE SoundInv'
  BY <1>8, <1>9 DEF Open, At
<1>10. CASE Abandon(r)
  BY <1>1, <1>2, <1>3, <1>10, ReturnSound DEF Abandon, Failed, Failures
<1>11. CASE Begin(r)
  BY <1>8, <1>11 DEF Begin, Opened, At, Goto
<1>12. ASSUME NEW ended \in BOOLEAN, StreamEnds(r, ended) PROVE SoundInv'
  <2> DEFINE g == IF ended THEN [kind |-> "stream", of |-> job[r].sent] ELSE [kind |-> "broken"]
  <2>1. Finish(r, job[r], g) /\ UNCHANGED Caches
    BY <1>12 DEF StreamEnds
  <2>2. g.kind \notin {"l1", "l2"}
    OBVIOUS
  <2> HIDE DEF g
  <2> QED
    BY <1>2, <1>3, <2>1, <2>2, ReturnSound
<1>13. ASSUME NEW ok \in BOOLEAN, Unstreamable(r, ok) PROVE SoundInv'
  BY <1>1, <1>2, <1>3, <1>13, ReturnSound DEF Unstreamable, GivesUp, Failed, Failures
<1> QED
  BY <1>4, <1>5, <1>6, <1>7, <1>9, <1>10, <1>11, <1>12, <1>13 DEF Serve, UpstreamReturns

LEMMA StepSound == SkipsAgree /\ IInv /\ SoundInv /\ [Next]_vars => SoundInv'
<1> SUFFICES ASSUME SkipsAgree, IInv, SoundInv, [Next]_vars PROVE SoundInv'
  OBVIOUS
<1>1. ASSUME UNCHANGED Caches PROVE Keyed(l1') /\ Keyed(l2')
  BY <1>1 DEF Caches, SoundInv
<1>2. ASSUME NEW r \in Requests, NEW b \in Forms, Arrive(r, b) PROVE SoundInv'
  <2> DEFINE j == [NoJob EXCEPT !.pc = "body", !.body = b]
  <2>1. j.pc = "body"
    BY DEF NoJob
  <2>2. /\ job[r].pc # "done" /\ job' = [job EXCEPT ![r] = j]
        /\ UNCHANGED <<given, Caches>>
    BY <1>2 DEF Arrive, At
  <2> HIDE DEF j
  <2> QED
    BY <2>1, <2>2, GoesOnSound
<1>3. ASSUME NEW r \in Requests, Refuse(r) PROVE SoundInv'
  <2> DEFINE g == [kind |-> "refused"]
  <2>1. Finish(r, job[r], g) /\ UNCHANGED Caches /\ g.kind \notin {"l1", "l2"}
    BY <1>3 DEF Refuse
  <2>2. job[r] \in Jobs
    BY DEF IInv, Tables
  <2> HIDE DEF g
  <2> QED
    BY <1>1, <2>1, <2>2, ReturnSound
<1>4. ASSUME NEW r \in Requests, MessageStart(r) PROVE SoundInv'
  <2> DEFINE j == [job[r] EXCEPT !.saw = TRUE]
  <2>1. /\ job[r].pc = "metered" /\ job' = [job EXCEPT ![r] = j]
        /\ UNCHANGED <<given, Caches>>
    BY <1>4 DEF MessageStart, At
  <2>2. j.pc = "metered"
    BY <2>1 DEF IInv, Tables, Jobs
  <2> HIDE DEF j
  <2> QED
    BY <2>1, <2>2, GoesOnSound
<1>5. CASE Purge
  <2>1. DOMAIN l1' = {} /\ DOMAIN l2' = {}
    BY <1>5 DEF Purge
  <2> QED
    BY <1>5, <2>1, OperatorSound DEF Purge, Keyed
<1>6. ASSUME \/ \E T \in SUBSET Toggles : Post(T) \/ PostRefused(T)
             \/ CostReset \/ BudgetReset \/ UNCHANGED vars
      PROVE  SoundInv'
  <2>1. UNCHANGED <<job, given>> /\ UNCHANGED Caches
    BY <1>6 DEF Post, PostRefused, CostReset, BudgetReset, vars, Caches
  <2> QED
    BY <1>1, <2>1, OperatorSound
<1>7. ASSUME NEW r \in Requests, Leave(r) PROVE SoundInv'
  <2> DEFINE j == [job[r] EXCEPT !.gone = TRUE]
  <2>1. /\ job[r].pc \in Streaming /\ job' = [job EXCEPT ![r] = j]
        /\ UNCHANGED <<given, Caches>>
    BY <1>7 DEF Leave
  <2>2. j.pc # "upstream" /\ job[r].pc # "done"
    BY <2>1 DEF IInv, Tables, Jobs, Streaming
  <2> HIDE DEF j
  <2> QED
    BY <2>1, <2>2, GoesOnSound
<1> QED
  BY <1>2, <1>3, <1>4, <1>5, <1>6, <1>7, ServeSound DEF Next

\* A hit replays the answer to a body with the key of the one this request
\* would have sent, or to one near it, for as long as no body is looked up
\* under another key than its own.  The run gateway_skip shows that this is
\* what the adaptive skip breaks.
THEOREM HitsAreSound == SkipsAgree => (Spec => []CacheSound)
<1>1. Init => SoundInv
  <2> SUFFICES ASSUME Init PROVE SoundInv
    OBVIOUS
  <2>1. DOMAIN l1 = {} /\ DOMAIN l2 = {}
    BY DEF Init
  <2>2. ASSUME NEW r \in Requests PROVE Matched(job[r], given[r])
    BY DEF Init, Matched, NoJob, Waiting
  <2> QED
    BY <2>1, <2>2 DEF SoundInv, Keyed
<1>2. SkipsAgree /\ IInv /\ SoundInv /\ [Next]_vars => SoundInv'
  BY StepSound
<1>3. SoundInv => CacheSound
  BY DEF SoundInv, Matched, CacheSound, From
<1> SUFFICES ASSUME SkipsAgree PROVE Spec => []CacheSound
  OBVIOUS
<1> QED
  BY <1>1, <1>2, <1>3, Inductive, PTL DEF Spec
=============================================================================
