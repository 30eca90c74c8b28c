----------------------------- MODULE AuditStats -----------------------------
(***************************************************************************)
(* ProxyStats (audit.py:18-227) and AuditLogger.record() (audit.py:262):   *)
(* counters, one bucket of counters per minute with a latency histogram,   *)
(* the window that drops old buckets, and a list of recent requests.       *)
(* Times are seconds; each call reads a wall clock that may have stepped   *)
(* back.  Character and byte sums are counted exactly like requests and    *)
(* left out; the list of recent requests is the last RecentMax records.    *)
(***************************************************************************)
EXTENDS Integers, SequencesExt

CONSTANTS
  MinuteSeconds,   \* 60
  WindowMinutes,   \* timeseries_minutes
  RecentMax,       \* recent_max
  LatencyBins,     \* LATENCY_BINS_MS, rising
  Latencies,       \* the latencies requests may have
  Times            \* what the clock may show

ASSUME AuditStatsAssumption ==
  /\ {MinuteSeconds, WindowMinutes, RecentMax} \subseteq Nat \ {0}
  /\ LatencyBins \in Seq(Nat) \ {<<>>}
  /\ \A i, j \in DOMAIN LatencyBins : i < j => LatencyBins[i] < LatencyBins[j]
  /\ Latencies \subseteq Nat
  /\ Times \subseteq Nat

VARIABLES
  requestsTotal, upstreamErrors,
  latencyCounts, \* the global histogram
  buckets,       \* minute -> [requests, errors, counts]
  recent,        \* the deque
  records,       \* history: every record, [ts, latency, error]
  dropped,       \* history: the last time at which buckets were dropped
  latest         \* history: the latest such time

statVars == <<requestsTotal, upstreamErrors, latencyCounts, buckets, recent>>
auditVars == <<statVars, records, dropped, latest>>

BinIndexes == 1..(Len(LatencyBins) + 1)

NoCounts == [i \in BinIndexes |-> 0]

StatsInit ==
  /\ requestsTotal = 0 /\ upstreamErrors = 0
  /\ latencyCounts = NoCounts
  /\ buckets = [m \in {} |-> 0]
  /\ recent = <<>> /\ records = <<>> /\ dropped = 0 /\ latest = 0

\* _bin_index(): the first bin that reaches the latency, or the one past them.
BinIndex(ms) ==
  CHOOSE i \in BinIndexes :
    /\ i <= Len(LatencyBins) => ms <= LatencyBins[i]
    /\ \A j \in 1..(i - 1) : ms > LatencyBins[j]

\* The bin past the last edge is reported as twice that edge.
Edge(i) == IF i <= Len(LatencyBins) THEN LatencyBins[i]
           ELSE 2 * LatencyBins[Len(LatencyBins)]

CumulativeCount(counts, i) == FoldFunctionOnSet(+, 0, counts, 1..i)

\* Mutant: rounding down instead of up.
QuantileDown(counts, total, percent) ==
  IF total = 0 THEN 0
  ELSE LET down == (percent * total) \div 100
           target == IF down < 1 THEN 1 ELSE down
       IN Edge(CHOOSE i \in BinIndexes :
                 /\ CumulativeCount(counts, i) >= target
                 /\ \A j \in 1..(i - 1) : CumulativeCount(counts, j) < target)

\* _quantile_from_hist(), with math.ceil(q * total).
Quantile(counts, total, percent) ==
  IF total = 0 THEN 0
  ELSE LET up == (percent * total + 99) \div 100
           target == IF up < 1 THEN 1 ELSE up
       IN Edge(CHOOSE i \in BinIndexes :
                 /\ CumulativeCount(counts, i) >= target
                 /\ \A j \in 1..(i - 1) : CumulativeCount(counts, j) < target)

\* Mutant: the time itself, not its minute.
MinuteRaw(ts) == ts

MinuteOf(ts) == ts - (ts % MinuteSeconds)

NoBucket == [requests |-> 0, errors |-> 0, counts |-> NoCounts]

\* _bucket_for()
BucketFor(m) == IF m \in DOMAIN buckets THEN buckets[m] ELSE NoBucket

Cutoff(ts) == ts - WindowMinutes * MinuteSeconds

\* Mutant: a window one minute short.
WithinShort(b, ts) ==
  [m \in {m \in DOMAIN b : m > Cutoff(ts) + MinuteSeconds} |-> b[m]]

\* _evict(): what is left of b.
Within(b, ts) == [m \in {m \in DOMAIN b : m > Cutoff(ts)} |-> b[m]]

Evicted(b, ts) ==
  /\ buckets' = Within(b, ts)
  /\ dropped' = ts
  /\ latest' = IF ts > latest THEN ts ELSE latest

\* AuditLogger.record() and ProxyStats.observe()
Observe(ts, ms, isError) ==
  LET e == IF isError THEN 1 ELSE 0
      i == BinIndex(ms)
      m == MinuteOf(ts)
      bucket == BucketFor(m)
      filled == [requests |-> bucket.requests + 1, errors |-> bucket.errors + e,
                 counts |-> [bucket.counts EXCEPT ![i] = @ + 1]]
      record == [ts |-> ts, ms |-> ms, error |-> isError]
  IN /\ requestsTotal' = requestsTotal + 1
     /\ upstreamErrors' = upstreamErrors + e
     /\ latencyCounts' = [latencyCounts EXCEPT ![i] = @ + 1]
     /\ Evicted([n \in DOMAIN buckets \cup {m} |->
                   IF n = m THEN filled ELSE buckets[n]], ts)
     /\ recent' = LET all == Append(recent, record)
                  IN IF Len(all) > RecentMax THEN Tail(all) ELSE all
     /\ records' = Append(records, record)

\* GET /stats/timeseries drops old buckets before it lists them.
Timeseries(ts) ==
  /\ Evicted(buckets, ts)
  /\ UNCHANGED <<requestsTotal, upstreamErrors, latencyCounts, recent, records>>

-----------------------------------------------------------------------------
CountRecords(P(_)) == Cardinality({n \in DOMAIN records : P(records[n])})

Minutes == {MinuteOf(records[n].ts) : n \in DOMAIN records}

\* Whatever the clock did, a minute the window has not passed yet is shown
\* with exactly its requests and errors, and no more buckets are kept than the
\* window has minutes, plus those the clock is behind its latest reading by
\* (audit.py:212-217).
SeriesExact ==
  /\ \A m \in Minutes : m > Cutoff(latest) =>
       /\ m \in DOMAIN buckets
       /\ buckets[m].requests = CountRecords(LAMBDA r : MinuteOf(r.ts) = m)
       /\ buckets[m].errors = CountRecords(LAMBDA r : MinuteOf(r.ts) = m /\ r.error)
  /\ Cardinality(DOMAIN buckets) <=
       WindowMinutes + (MinuteOf(latest) - MinuteOf(dropped)) \div MinuteSeconds

\* The nearest-rank percentile of the recorded latencies, rounded up to a bin.
NearestRank(chosen, percent) ==
  LET rank == (percent * Cardinality(chosen) + 99) \div 100
      AtMost(edge) == Cardinality({n \in chosen : BinIndex(records[n].ms) <= edge})
  IN Edge(CHOOSE i \in BinIndexes : /\ AtMost(i) >= rank
                                    /\ \A j \in BinIndexes : j < i => AtMost(j) < rank)

\* p50 and p95, read off the histogram of /stats, are the nearest-rank
\* percentiles of all the requests so far, as binned; so are those of every
\* minute the window has not passed.
PercentilesRight ==
  \A percent \in {50, 95} :
    /\ records # <<>> =>
         Quantile(latencyCounts, requestsTotal, percent) =
           NearestRank(DOMAIN records, percent)
    /\ \A m \in DOMAIN buckets : m > Cutoff(latest) =>
         Quantile(buckets[m].counts, buckets[m].requests, percent) =
           NearestRank({n \in DOMAIN records : MinuteOf(records[n].ts) = m}, percent)
=============================================================================
