---------------------------- MODULE RateLimiter ----------------------------
(***************************************************************************)
(* The per-client rate limiter (rate_limit.py): a table of lazily refilled *)
(* token buckets, bounded by an LRU cap.  RequestLimiter.check() awaits    *)
(* only asyncio locks that no holder keeps across a suspension, so on the  *)
(* proxy's event loop it is one step.  Token counts, floats in the code,   *)
(* are integers here: a request costs Cost units and a tick of             *)
(* time.monotonic() earns Refill of them, so Cost > Refill stands for a    *)
(* client that earns a fraction of a request per tick.                     *)
(***************************************************************************)
EXTENDS Integers, Sequences, SequencesExt

CONSTANTS
  Clients,      \* hashed authorization values
  Capacity,     \* burst, in units
  Cost,         \* units one request takes
  Refill,       \* units a bucket earns per tick
  MaxClients,   \* max_clients, the LRU cap
  MaxTime,      \* bound: last tick
  MaxEvictions  \* bound: evictions of one client in one window

ASSUME LimiterAssumption ==
  /\ {Capacity, Cost, Refill, MaxClients} \subseteq Nat \ {0}
  /\ Cost <= Capacity
  /\ {MaxTime, MaxEvictions} \subseteq Nat

VARIABLES
  now,      \* time.monotonic()
  buckets,  \* _buckets: client -> [tokens, last]
  order,    \* the order of _buckets, least recently used first
  created,  \* the clients that have an entry in _created_at
  since,    \* history: when the window being measured was opened
  granted,  \* history: requests let through in the window, per client
  evicted   \* history: times the client's bucket was dropped in the window

limiterVars == <<now, buckets, order, created, since, granted, evicted>>

LimiterInit ==
  /\ now = 0
  /\ buckets = [c \in {} |-> 0]
  /\ order = <<>>
  /\ created = {}
  /\ since = 0
  /\ granted = [c \in Clients |-> 0]
  /\ evicted = [c \in Clients |-> 0]

AtMost(x, m) == IF x < m THEN x ELSE m

\* Mutant: the clock is wound on but what it earned is lost.
RefillDropped(b) == [tokens |-> b.tokens, last |-> now]

\* TokenBucket._refill_locked().
Refilled(b) ==
  [tokens |-> AtMost(b.tokens + Refill * (now - b.last), Capacity),
   last   |-> now]

\* Mutant: lets a client through on any positive balance.
AffordsAny(b) == b.tokens > 0

\* The test of TokenBucket.acquire(1).
Affords(b) == b.tokens >= Cost

\* The bucket acquire(1) leaves behind.
Spent(b) ==
  IF Affords(Refilled(b))
    THEN [Refilled(b) EXCEPT !.tokens = @ - Cost]
    ELSE Refilled(b)

Granting(c, b) ==
  granted' = [granted EXCEPT ![c] = @ + (IF Affords(Refilled(b)) THEN 1 ELSE 0)]

\* Mutant: a client already known is not moved to the end of the OrderedDict.
NotMoved(c) == order

\* move_to_end().
MovedToEnd(c) == Append(RemoveFirst(order, c), c)

\* check() of a client that has a bucket.
CheckKnown(c) ==
  /\ c \in DOMAIN buckets
  /\ buckets' = [buckets EXCEPT ![c] = Spent(buckets[c])]
  /\ order' = MovedToEnd(c)
  /\ Granting(c, buckets[c])
  /\ UNCHANGED <<now, created, since, evicted>>

FullBucket == [tokens |-> Capacity, last |-> now]

\* len(_buckets) > max_clients, once the new client is in.
OverCap == Len(order) >= MaxClients

\* check() of a client without a bucket: a full one is made, and the least
\* recently used client is dropped if that is one too many.
CheckNew(c) ==
  /\ c \notin DOMAIN buckets
  /\ LET gone == IF OverCap THEN {Head(order)} ELSE {}
     IN /\ \A g \in gone : evicted[g] < MaxEvictions
        /\ buckets' = [x \in (DOMAIN buckets \cup {c}) \ gone |->
                         IF x = c THEN Spent(FullBucket) ELSE buckets[x]]
        /\ created' = (created \cup {c}) \ gone
        /\ order' = Append(IF OverCap THEN Tail(order) ELSE order, c)
        /\ evicted' = [x \in Clients |->
                         evicted[x] + (IF x \in gone THEN 1 ELSE 0)]
  /\ Granting(c, FullBucket)
  /\ UNCHANGED <<now, since>>

Check(c) == CheckKnown(c) \/ CheckNew(c)

Tick ==
  /\ now < MaxTime
  /\ now' = now + 1
  /\ UNCHANGED <<buckets, order, created, since, granted, evicted>>

\* Start measuring afresh: the bounds below hold of every window.
OpenWindow ==
  /\ since' = now
  /\ granted' = [c \in Clients |-> 0]
  /\ evicted' = [c \in Clients |-> 0]
  /\ UNCHANGED <<now, buckets, order, created>>

LimiterNext == Tick \/ OpenWindow \/ \E c \in Clients : Check(c)

LimiterSpec == LimiterInit /\ [][LimiterNext]_limiterVars

-----------------------------------------------------------------------------
\* Type invariant; the table, its order and _created_at name the same clients
\* and never more than max_clients of them.
LimiterTypeOK ==
  /\ now \in 0..MaxTime
  /\ since \in 0..now
  /\ order \in Seq(Clients)
  /\ ToSet(order) = DOMAIN buckets
  /\ created = DOMAIN buckets
  /\ Len(order) <= MaxClients
  /\ \A i, j \in DOMAIN order : order[i] = order[j] => i = j
  /\ \A c \in DOMAIN buckets :
       buckets[c].tokens \in 0..Capacity /\ buckets[c].last \in 0..now
  /\ granted \in [Clients -> Nat]
  /\ evicted \in [Clients -> 0..MaxEvictions]

\* What a client could spend now.
Available(c) ==
  IF c \in DOMAIN buckets THEN Refilled(buckets[c]).tokens ELSE Capacity

\* In any window a client gets at most its burst, plus what it earned in the
\* window, plus one burst for each time the LRU cap dropped its bucket, which
\* rate_limit.py:75-78 takes for none ("no DoS amplification from eviction churn").
RateBound ==
  \A c \in Clients :
    Cost * granted[c] <= Capacity * (1 + evicted[c]) + Refill * (now - since)

\* Refilling lazily, at the next check, decides every request exactly as a
\* bucket refilled at every tick would, however many denied requests, ticks
\* and full buckets lie between: no earned fraction is lost or kept twice.
LazyRefillExact ==
  [][/\ now' = now + 1 =>
          \A c \in Clients : Available(c)' = AtMost(Available(c) + Refill, Capacity)
     /\ \A c \in Clients :
          Check(c) =>
            LET ok == Available(c) >= Cost
            IN /\ granted'[c] = granted[c] + (IF ok THEN 1 ELSE 0)
               /\ Available(c)' = Available(c) - (IF ok THEN Cost ELSE 0)
    ]_limiterVars

BucketLru == INSTANCE LruStore WITH Keys <- Clients, Capacity <- MaxClients

\* The table of buckets is an LRU store of clients, in which every check of a
\* client, let through or not, counts as an access.
BucketsImplementLru ==
  /\ BucketLru!LruSpec
  /\ [][\A c \in Clients : Check(c) => BucketLru!Store(c)]_limiterVars
=============================================================================
