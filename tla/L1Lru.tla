------------------------------- MODULE L1Lru -------------------------------
(***************************************************************************)
(* The eviction order of the L1 cache: L1Cache with the true order of      *)
(* accesses as a history variable, and its refinement of LruStore.         *)
(***************************************************************************)
EXTENDS L1Cache, SequencesExt

VARIABLE recency  \* history: the keys, in the order of their last recorded access

lruVars == <<vars, recency>>

Touched(k) == Append(RemoveFirst(recency, k), k)

HistInit == L1Init /\ recency = <<>>

HistNext ==
  \/ \E k \in Keys :
       \/ GetMiss(k) /\ UNCHANGED recency
       \/ GetHit(k) /\ recency' = Touched(k)
       \/ GetHitUncounted(k) /\ UNCHANGED recency
       \/ \E r \in Responses : PutInsert(k, r) /\ recency' = Touched(k)
  \/ (\E r \in Responses : PutNothing(r)) /\ UNCHANGED recency
  \/ (Evict \/ EvictFails \/ Purge \/ Restart) /\ UNCHANGED recency

HistSpec == HistInit /\ [][HistNext]_lruVars

AccessedBefore(j, k) ==
  \E a, b \in DOMAIN recency : a < b /\ recency[a] = j /\ recency[b] = k

\* "Oldest-access-first eviction" (l1.py:4): whatever evictions, statistics and
\* processes were lost before, no step of _evict_if_over() drops a response
\* whose last recorded access came after that of one it keeps.
EvictsOldest ==
  [][Evict => \A g \in DOMAIN rows \ DOMAIN rows' :
                 \A s \in DOMAIN rows' : AccessedBefore(g, s)]_lruVars

\* The keys in the order of last_hit_at.
ByHit ==
  CHOOSE s \in [1..Cardinality(DOMAIN rows) -> DOMAIN rows] :
    \A i, j \in DOMAIN s : i < j => rows[s[i]].hit < rows[s[j]].hit

\* The keys that eviction, now or once the lost ones are made up for, will keep.
Held == SubSeq(ByHit, 1 + (IF Excess > 0 THEN Excess ELSE 0), Len(ByHit))

Lru == INSTANCE LruStore WITH Capacity <- MaxEntries, order <- Held

\* While the clock moves forward, the table with its timestamps is an LRU
\* store, through storage errors and crashes too: rows over the bound count as
\* evicted from the moment it was exceeded, and every recorded hit or put is an
\* access, a hit on a row that eviction has not reached yet storing it anew.
ImplementsLru ==
  /\ Lru!LruSpec
  /\ [][\A k \in Keys :
          GetHit(k) \/ (\E r \in Responses : PutInsert(k, r)) => Lru!Store(k)]_lruVars
=============================================================================
