----------------------------- MODULE StoreProofs -----------------------------
(***************************************************************************)
(* The two bounded tables that every request goes through.  The L1 cache   *)
(* stays well-typed and within its bound, for any finite set of keys, any  *)
(* max_entries and any clock, faults and crashes included, and under a     *)
(* clock that moves forward its timestamps make it an LRU store.  What a   *)
(* client can get out of the rate limiter, for any number of clients, any  *)
(* cap and any rates, why refilling lazily is exact, and why the table of  *)
(* buckets is an LRU store too.                                            *)
(***************************************************************************)
EXTENDS L1Lru, RateLimiter, FiniteSetTheorems, SequenceLemmas

\* Rows is every table over some of the keys.
LEMMA RowsMember ==
  ASSUME NEW D \in SUBSET Keys, NEW f \in [D -> [resp : Storable, hit : 0..MaxClock]]
  PROVE  f \in Rows
  BY DEF Rows

\* A table of Rows is a function on a finite set of keys.
LEMMA RowsShape ==
  ASSUME NEW f \in Rows
  PROVE  /\ DOMAIN f \in SUBSET Keys
         /\ f \in [DOMAIN f -> [resp : Storable, hit : 0..MaxClock]]
         /\ IsFiniteSet(DOMAIN f)
         /\ Cardinality(DOMAIN f) \in Nat
<1>1. PICK D \in SUBSET Keys : f \in [D -> [resp : Storable, hit : 0..MaxClock]]
  BY DEF Rows
<1>2. DOMAIN f = D
  BY <1>1
<1>3. IsFiniteSet(D)
  BY <1>1, L1Assumption, FS_Subset
<1> QED
  BY <1>1, <1>2, <1>3, FS_CardinalityType

\* The invariant that is proved inductive.
L1Inv == TypeOK /\ Overshoot

LEMMA L1InitInv == L1Init => L1Inv
<1> SUFFICES ASSUME L1Init PROVE L1Inv
  OBVIOUS
<1> DEFINE none == [k \in {} |-> 0]
<1>1. none \in [{} -> [resp : Storable, hit : 0..MaxClock]]
  OBVIOUS
<1>2. rows \in Rows
  BY <1>1, RowsMember DEF L1Init
<1>3. Cardinality(DOMAIN rows) = 0
  BY FS_EmptySet DEF L1Init
<1> QED
  BY <1>2, <1>3, L1Assumption DEF L1Init, L1Inv, TypeOK, Overshoot

LEMMA L1StepInv == L1Inv /\ [L1Next]_vars => L1Inv'
<1> SUFFICES ASSUME L1Inv, [L1Next]_vars PROVE L1Inv'
  OBVIOUS
<1> USE L1Assumption
<1> DEFINE D == DOMAIN rows
<1>0. /\ rows \in Rows /\ D \in SUBSET Keys /\ IsFiniteSet(D)
      /\ Cardinality(D) \in Nat
      /\ rows \in [D -> [resp : Storable, hit : 0..MaxClock]]
  BY RowsShape DEF L1Inv, TypeOK
<1>1. CASE UNCHANGED vars
  BY <1>1 DEF vars, L1Inv, TypeOK, Overshoot
<1>2. ASSUME NEW k \in Keys, GetMiss(k) PROVE L1Inv'
  BY <1>1, <1>2 DEF GetMiss
<1>3. ASSUME NEW k \in Keys, GetHit(k) PROVE L1Inv'
  <2>1. DOMAIN rows' = D /\ rows' \in [D -> [resp : Storable, hit : 0..MaxClock]]
    BY <1>0, <1>3 DEF GetHit, HitRecorded
  <2>2. rows' \in Rows
    BY <1>0, <2>1, RowsMember
  <2> QED
    BY <1>3, <2>1, <2>2 DEF GetHit, Reads, L1Inv, TypeOK, Overshoot
<1>4. ASSUME NEW k \in Keys, GetHitUncounted(k) PROVE L1Inv'
  BY <1>4 DEF GetHitUncounted, Reads, L1Inv, TypeOK, Overshoot
<1>5. ASSUME NEW r \in Responses, PutNothing(r) PROVE L1Inv'
  BY <1>1, <1>5 DEF PutNothing
<1>6. ASSUME NEW r \in Responses, NEW k \in Keys, PutInsert(k, r) PROVE L1Inv'
  <2>1. PICK t \in 0..MaxClock :
          rows' = [x \in D \cup {k} |->
                     IF x = k THEN [resp |-> r, hit |-> t] ELSE rows[x]]
    BY <1>6 DEF PutInsert
  <2>2. /\ DOMAIN rows' = D \cup {k} /\ D \cup {k} \in SUBSET Keys
        /\ rows' \in [D \cup {k} -> [resp : Storable, hit : 0..MaxClock]]
    BY <1>0, <1>6, <2>1 DEF PutInsert, MayStore
  <2>3. rows' \in Rows
    BY <2>2, RowsMember
  <2>4. Cardinality(DOMAIN rows') <= Cardinality(D) + 1
    <3> HIDE DEF D
    <3>1. Cardinality(D \cup {k}) = IF k \in D THEN Cardinality(D) ELSE Cardinality(D) + 1
      BY <1>0, FS_AddElement
    <3> QED
      BY <1>0, <2>2, <3>1
  <2>5. Cardinality(DOMAIN rows') \in Nat
    BY <2>3, RowsShape
  <2> QED
    BY <1>0, <1>6, <2>3, <2>4, <2>5
    DEF PutInsert, Reads, L1Inv, TypeOK, Overshoot
<1>7. CASE Evict
  <2>1. CASE Excess <= 0
    BY <1>0, <1>7, <2>1 DEF Evict, Excess, L1Inv, TypeOK, Overshoot
  <2>2. CASE ~(Excess <= 0)
    <3>1. PICK gone \in SUBSET D :
            /\ Cardinality(gone) = Excess
            /\ rows' = Restrict(rows, D \ gone)
      BY <1>7, <2>2 DEF Evict, Oldest
    <3>2. /\ DOMAIN rows' = D \ gone
          /\ rows' \in [D \ gone -> [resp : Storable, hit : 0..MaxClock]]
      <4> DEFINE Row == [resp : Storable, hit : 0..MaxClock]
                 kept == D \ gone
      <4>1. rows' = [k \in kept |-> rows[k]]
        BY <3>1 DEF Restrict
      <4>2. \A k \in kept : rows[k] \in Row
        BY <1>0
      <4> HIDE DEF Row, kept
      <4>3. DOMAIN rows' = kept /\ rows' \in [kept -> Row]
        BY <4>1, <4>2, Zenon
      <4> QED
        BY <4>3 DEF Row, kept
    <3>3. rows' \in Rows
      BY <1>0, <3>2, RowsMember
    <3>4. D \cap gone = gone
      OBVIOUS
    <3>5. Cardinality(DOMAIN rows') = Cardinality(D) - Excess
      <4> HIDE DEF D
      <4>1. Cardinality(D \ gone) = Cardinality(D) - Cardinality(D \cap gone)
        BY <1>0, FS_Difference, Zenon
      <4> QED
        BY <3>1, <3>2, <3>4, <4>1
    <3>6. /\ pc = "evict" /\ pc' = "idle"
          /\ skipped' = 0 /\ clock' = clock
      BY <1>7 DEF Evict
    <3>7. TypeOK'
      BY <1>0, <3>3, <3>6 DEF L1Inv, TypeOK
    <3>8. Overshoot'
      BY <1>0, <3>5, <3>6 DEF Excess, Overshoot
    <3> QED
      BY <3>7, <3>8 DEF L1Inv
  <2> QED
    BY <2>1, <2>2
<1>8. CASE EvictFails
  BY <1>0, <1>8 DEF EvictFails, L1Inv, TypeOK, Overshoot
<1>9. CASE Purge
  <2>1. CASE rows' = [k \in {} |-> 0]
    <3>1. rows' \in [{} -> [resp : Storable, hit : 0..MaxClock]] /\ DOMAIN rows' = {}
      BY <2>1
    <3>2. rows' \in Rows /\ Cardinality(DOMAIN rows') = 0
      BY <3>1, RowsMember, FS_EmptySet
    <3> QED
      BY <1>9, <3>2 DEF Purge, L1Inv, TypeOK, Overshoot
  <2>2. CASE UNCHANGED rows
    BY <1>9, <2>2 DEF Purge, L1Inv, TypeOK, Overshoot
  <2> QED
    BY <1>9, <2>1, <2>2 DEF Purge
<1>10. CASE Restart
  <2>1. CASE Persistent
    BY <1>0, <1>10, <2>1 DEF Restart, L1Inv, TypeOK, Overshoot
  <2>2. CASE ~Persistent
    <3>1. rows' \in [{} -> [resp : Storable, hit : 0..MaxClock]] /\ DOMAIN rows' = {}
      BY <1>10, <2>2 DEF Restart
    <3>2. rows' \in Rows /\ Cardinality(DOMAIN rows') = 0
      BY <3>1, RowsMember, FS_EmptySet
    <3> QED
      BY <1>10, <3>2 DEF Restart, L1Inv, TypeOK, Overshoot
  <2> QED
    BY <2>1, <2>2
<1> QED
  BY <1>1, <1>2, <1>3, <1>4, <1>5, <1>6, <1>7, <1>8, <1>9, <1>10
  DEF L1Next

\* For every set of keys, bound and clock: whatever fails or crashes, the L1
\* table holds only storable responses and exceeds max_entries by at most the
\* evictions it still owes.
THEOREM L1WithinBound == L1Spec => [](TypeOK /\ Overshoot)
<1>1. L1Init => L1Inv
  BY L1InitInv
<1>2. L1Inv /\ [L1Next]_vars => L1Inv'
  BY L1StepInv
<1> QED
  BY <1>1, <1>2, PTL DEF L1Spec, L1Inv

-----------------------------------------------------------------------------
\* The order in which the L1 cache evicts, under a clock that moves forward.

\* The rows lie in the order of their last hits as their keys do in s.
Sorts(s) ==
  /\ s \in Seq(Keys) /\ EachOnce(s) /\ DOMAIN rows \subseteq ToSet(s)
  /\ \A k \in DOMAIN rows : rows[k].hit <= clock
  /\ \A a, b \in 1..Len(s) :
       a < b /\ s[a] \in DOMAIN rows /\ s[b] \in DOMAIN rows => rows[s[a]].hit < rows[s[b]].hit

Sorted == Sorts(recency)

HistInv == L1Inv /\ Sorted

LEMMA RowParts ==
  ASSUME L1Inv
  PROVE  /\ DOMAIN rows \subseteq Keys /\ clock \in Nat
         /\ \A k \in DOMAIN rows : rows[k].hit \in Nat
<1>1. rows \in Rows /\ clock \in 0..MaxClock
  BY DEF L1Inv, TypeOK
<1> QED
  BY <1>1, RowsShape, L1Assumption

\* A step that drops rows, or counts no access, leaves them sorted.
LEMMA SortedFewer ==
  ASSUME L1Inv, NEW s, Sorts(s), clock' \in Nat, clock' >= clock,
         DOMAIN rows' \subseteq DOMAIN rows,
         \A k \in DOMAIN rows' : rows'[k] = rows[k]
  PROVE  Sorts(s)'
<1>1. \A k \in DOMAIN rows' : rows'[k].hit <= clock'
  BY RowParts DEF Sorts
<1> QED
  BY <1>1 DEF Sorts

\* A step that writes the row of k and makes k the most recent key.
LEMMA SortedTouched ==
  ASSUME L1Inv, NEW s, Sorts(s), NEW k \in Keys, clock' = clock + 1,
         DOMAIN rows' = DOMAIN rows \cup {k}, rows'[k].hit = clock',
         \A x \in DOMAIN rows \ {k} : rows'[x].hit = rows[x].hit
  PROVE  Sorts(Append(RemoveFirst(s, k), k))'
<1> DEFINE t == Append(RemoveFirst(s, k), k)
<1>1. /\ t \in Seq(Keys) /\ EachOnce(t) /\ ToSet(t) = ToSet(s) \cup {k}
      /\ Len(t) \in Nat \ {0} /\ t[Len(t)] = k
      /\ \A i, j \in 1..(Len(t) - 1) : i < j =>
           \E a, b \in 1..Len(s) : a < b /\ s[a] = t[i] /\ s[b] = t[j]
  <2>1. s \in Seq(Keys) /\ EachOnce(s)
    BY DEF Sorts
  <2>2. TouchedLast(s, k, t, Keys)
    BY <2>1, Touching
  <2> HIDE DEF t
  <2> QED
    BY <2>2 DEF TouchedLast
<1>2. clock \in Nat /\ \A x \in DOMAIN rows : rows[x].hit \in Nat
  BY RowParts
<1>3. \A x \in DOMAIN rows' \ {k} : x \in DOMAIN rows /\ rows'[x].hit = rows[x].hit
                                    /\ rows'[x].hit < clock'
  BY <1>2 DEF Sorts
<1>4. DOMAIN rows' \subseteq ToSet(t)
  BY <1>1 DEF Sorts
<1>5. \A x \in DOMAIN rows' : rows'[x].hit <= clock'
  BY <1>2, <1>3
<1>6. ASSUME NEW i \in 1..Len(t), NEW j \in 1..Len(t), i < j,
             t[i] \in DOMAIN rows', t[j] \in DOMAIN rows'
      PROVE  rows'[t[i]].hit < rows'[t[j]].hit
  <2>1. i # Len(t) /\ t[i] # k
    BY <1>1, <1>6 DEF EachOnce
  <2>2. CASE j = Len(t)
    BY <1>1, <1>3, <1>6, <2>1, <2>2
  <2>3. CASE j # Len(t)
    <3>1. i \in 1..(Len(t) - 1) /\ j \in 1..(Len(t) - 1)
      BY <1>1, <2>1, <2>3
    <3>2. t[j] # k
      BY <1>1, <2>3 DEF EachOnce
    <3>3. PICK a \in 1..Len(s), b \in 1..Len(s) :
            a < b /\ s[a] = t[i] /\ s[b] = t[j]
      BY <1>1, <1>6, <3>1
    <3>4. rows[t[i]].hit < rows[t[j]].hit
      BY <1>3, <1>6, <2>1, <3>2, <3>3 DEF Sorts
    <3> QED
      BY <1>3, <1>6, <2>1, <3>2, <3>4
  <2> QED
    BY <2>2, <2>3
<1> QED
  BY <1>1, <1>4, <1>5, <1>6 DEF Sorts

\* A hit writes its row only.
LEMMA HitTouches ==
  ASSUME Monotonic, L1Inv, NEW k \in Keys, GetHit(k)
  PROVE  /\ clock' = clock + 1 /\ k \in DOMAIN rows /\ DOMAIN rows' = DOMAIN rows
         /\ rows'[k] = [rows[k] EXCEPT !.hit = clock'] /\ rows'[k].hit = clock'
         /\ \A x \in DOMAIN rows \ {k} : rows'[x] = rows[x]
<1>1. rows \in Rows
  BY DEF L1Inv, TypeOK
<1>2. rows \in [DOMAIN rows -> [resp : Storable, hit : 0..MaxClock]]
  BY <1>1, RowsShape
<1>3. PICK t \in 0..MaxClock : Reads(t) /\ rows' = [rows EXCEPT ![k].hit = t]
  BY DEF GetHit, HitRecorded
<1>4. clock' = t /\ t = clock + 1 /\ k \in DOMAIN rows
  BY <1>3 DEF Reads, GetHit
<1> QED
  BY <1>2, <1>3, <1>4

LEMMA PutTouches ==
  ASSUME Monotonic, NEW k \in Keys, NEW r \in Responses, PutInsert(k, r)
  PROVE  /\ clock' = clock + 1 /\ DOMAIN rows' = DOMAIN rows \cup {k}
         /\ rows'[k].hit = clock'
         /\ \A x \in DOMAIN rows \ {k} : rows'[x] = rows[x]
<1>1. PICK t \in 0..MaxClock :
        /\ Reads(t)
        /\ rows' = [x \in DOMAIN rows \cup {k} |->
                      IF x = k THEN [resp |-> r, hit |-> t] ELSE rows[x]]
  BY DEF PutInsert
<1>2. clock' = t /\ t = clock + 1
  BY <1>1 DEF Reads
<1> QED
  BY <1>1, <1>2

\* Whatever is evicted, what stays is unchanged.
LEMMA EvictKeeps ==
  ASSUME L1Inv, Evict
  PROVE  /\ DOMAIN rows' \subseteq DOMAIN rows
         /\ \A k \in DOMAIN rows' : rows'[k] = rows[k]
         /\ \A g \in DOMAIN rows \ DOMAIN rows', s \in DOMAIN rows' :
              rows[g].hit <= rows[s].hit
<1>1. CASE UNCHANGED rows
  BY <1>1
<1>2. ASSUME NEW gone \in SUBSET DOMAIN rows, Oldest(gone),
             rows' = Restrict(rows, DOMAIN rows \ gone)
      PROVE  /\ DOMAIN rows' \subseteq DOMAIN rows
             /\ \A k \in DOMAIN rows' : rows'[k] = rows[k]
             /\ \A g \in DOMAIN rows \ DOMAIN rows', s \in DOMAIN rows' :
                  rows[g].hit <= rows[s].hit
  <2>1. /\ DOMAIN rows' = DOMAIN rows \ gone
        /\ \A k \in DOMAIN rows \ gone : rows'[k] = rows[k]
    BY <1>2 DEF Restrict
  <2> QED
    BY <1>2, <2>1 DEF Oldest
<1> QED
  BY <1>1, <1>2 DEF Evict

LEMMA HistInitInv == HistInit => HistInv
<1> SUFFICES ASSUME HistInit PROVE HistInv
  OBVIOUS
<1>1. L1Inv /\ DOMAIN rows = {} /\ recency = <<>>
  BY L1InitInv DEF HistInit, L1Init
<1>2. recency \in Seq(Keys) /\ Len(recency) = 0
  BY <1>1, EmptySeq
<1> QED
  BY <1>1, <1>2 DEF HistInv, Sorted, Sorts, EachOnce

LEMMA HistStepInv ==
  ASSUME Monotonic PROVE HistInv /\ [HistNext]_lruVars => HistInv'
<1> SUFFICES ASSUME HistInv, [HistNext]_lruVars PROVE HistInv'
  OBVIOUS
<1>0. L1Inv /\ Sorted /\ clock \in Nat
  BY RowParts DEF HistInv
<1>1. L1Inv'
  <2>1. [L1Next]_vars
    BY DEF HistNext, lruVars, L1Next
  <2> QED
    BY <1>0, <2>1, L1StepInv
<1>2. ASSUME UNCHANGED <<rows, clock, recency>> PROVE HistInv'
  BY <1>0, <1>1, <1>2, SortedFewer DEF HistInv, Sorted
<1>3. CASE UNCHANGED lruVars
  BY <1>2, <1>3 DEF lruVars, vars
<1>4. ASSUME NEW k \in Keys, GetMiss(k), UNCHANGED recency PROVE HistInv'
  BY <1>2, <1>4 DEF GetMiss, vars
<1>5. ASSUME NEW k \in Keys, GetHit(k), recency' = Touched(k) PROVE HistInv'
  <2>1. /\ clock' = clock + 1 /\ DOMAIN rows' = DOMAIN rows \cup {k}
        /\ rows'[k].hit = clock' /\ \A x \in DOMAIN rows \ {k} : rows'[x].hit = rows[x].hit
    BY <1>0, <1>5, HitTouches
  <2> QED
    BY <1>0, <1>1, <1>5, <2>1, SortedTouched DEF HistInv, Sorted, Touched
<1>6. ASSUME NEW k \in Keys, GetHitUncounted(k), UNCHANGED recency PROVE HistInv'
  <2>1. clock' = clock + 1 /\ rows' = rows
    BY <1>6 DEF GetHitUncounted, Reads
  <2> QED
    BY <1>0, <1>1, <1>6, <2>1, SortedFewer DEF HistInv, Sorted
<1>7. ASSUME NEW k \in Keys, NEW r \in Responses, PutInsert(k, r), recency' = Touched(k)
      PROVE  HistInv'
  <2>1. /\ clock' = clock + 1 /\ DOMAIN rows' = DOMAIN rows \cup {k}
        /\ rows'[k].hit = clock' /\ \A x \in DOMAIN rows \ {k} : rows'[x].hit = rows[x].hit
    BY <1>7, PutTouches
  <2> QED
    BY <1>0, <1>1, <1>7, <2>1, SortedTouched DEF HistInv, Sorted, Touched
<1>8. ASSUME NEW r \in Responses, PutNothing(r), UNCHANGED recency PROVE HistInv'
  BY <1>2, <1>8 DEF PutNothing, vars
<1>9. ASSUME Evict, UNCHANGED recency PROVE HistInv'
  <2>1. clock' = clock
    BY <1>9 DEF Evict
  <2> QED
    BY <1>0, <1>1, <1>9, <2>1, EvictKeeps, SortedFewer DEF HistInv, Sorted
<1>10. ASSUME EvictFails, UNCHANGED recency PROVE HistInv'
  BY <1>2, <1>10 DEF EvictFails
<1>11. ASSUME Purge \/ Restart, UNCHANGED recency PROVE HistInv'
  <2>1. clock' = clock /\ (rows' = rows \/ rows' = [k \in {} |-> 0])
    BY <1>11 DEF Purge, Restart
  <2>2. DOMAIN rows' \subseteq DOMAIN rows /\ \A k \in DOMAIN rows' : rows'[k] = rows[k]
    BY <2>1
  <2> QED
    BY <1>0, <1>1, <1>11, <2>1, <2>2, SortedFewer DEF HistInv, Sorted
<1> QED
  BY <1>3, <1>4, <1>5, <1>6, <1>7, <1>8, <1>9, <1>10, <1>11 DEF HistNext

\* For any keys and any max_entries, under a clock that moves forward: what
\* _evict_if_over() drops was accessed before all it keeps, whatever evictions,
\* statistics and processes were lost before.
THEOREM OldestGoFirst ==
  ASSUME Monotonic PROVE HistSpec => EvictsOldest
<1>1. HistInv /\ [HistNext]_lruVars =>
        [Evict => \A g \in DOMAIN rows \ DOMAIN rows' :
                     \A s \in DOMAIN rows' : AccessedBefore(g, s)]_lruVars
  <2> SUFFICES ASSUME HistInv, Evict,
                      NEW g \in DOMAIN rows \ DOMAIN rows', NEW s \in DOMAIN rows'
               PROVE  AccessedBefore(g, s)
    OBVIOUS
  <2>1. /\ s \in DOMAIN rows /\ g # s /\ rows[g].hit <= rows[s].hit
        /\ rows[g].hit \in Nat /\ rows[s].hit \in Nat
    BY EvictKeeps, RowParts DEF HistInv
  <2>2. DOMAIN recency = 1..Len(recency) /\ Len(recency) \in Nat
    BY LenProperties DEF HistInv, Sorted, Sorts
  <2>3. PICK a \in 1..Len(recency), b \in 1..Len(recency) : recency[a] = g /\ recency[b] = s
    BY <2>1, <2>2 DEF HistInv, Sorted, Sorts, ToSet
  <2>4. ~(b < a)
    BY <2>1, <2>3 DEF HistInv, Sorted, Sorts
  <2>5. a < b
    BY <2>1, <2>2, <2>3, <2>4
  <2> QED
    BY <2>2, <2>3, <2>5 DEF AccessedBefore
<1> QED
  BY <1>1, HistInitInv, HistStepInv, PTL DEF HistSpec, EvictsOldest

-----------------------------------------------------------------------------
(* The table with its timestamps as an LRU store. *)

\* s lists the keys of the rows in the order of their last hits.
Ranks(s) == Sorts(s) /\ DOMAIN rows = ToSet(s)

RankInv == L1Inv /\ \E s : Ranks(s)

LEMMA RanksParts ==
  ASSUME L1Inv, NEW s, Ranks(s)
  PROVE  /\ s \in Seq(Keys) /\ EachOnce(s) /\ Len(s) \in Nat /\ DOMAIN s = 1..Len(s)
         /\ \A i \in 1..Len(s) : s[i] \in DOMAIN rows
         /\ \A k \in DOMAIN rows : \E i \in 1..Len(s) : s[i] = k
         /\ s \in [1..Len(s) -> DOMAIN rows]
         /\ \A i, j \in 1..Len(s) : i < j => rows[s[i]].hit < rows[s[j]].hit
<1>1. s \in Seq(Keys) /\ EachOnce(s) /\ Len(s) \in Nat /\ DOMAIN s = 1..Len(s)
  BY LenProperties DEF Ranks, Sorts
<1>2. /\ \A i \in 1..Len(s) : s[i] \in DOMAIN rows
      /\ \A k \in DOMAIN rows : \E i \in 1..Len(s) : s[i] = k
  BY <1>1 DEF Ranks, ToSet
<1>3. s \in [1..Len(s) -> DOMAIN rows]
  BY <1>1, <1>2, SeqDef
<1>4. \A i, j \in 1..Len(s) : i < j => rows[s[i]].hit < rows[s[j]].hit
  BY <1>2 DEF Ranks, Sorts
<1> QED
  BY <1>1, <1>2, <1>3, <1>4

\* There are as many places as rows.
LEMMA RanksAll ==
  ASSUME L1Inv, NEW s, Ranks(s)
  PROVE  Cardinality(DOMAIN rows) = Len(s) /\ IsFiniteSet(DOMAIN rows)
<1> DEFINE n == Len(s)
<1>1. /\ n \in Nat /\ s \in [1..n -> DOMAIN rows]
      /\ \A i, j \in 1..n : s[i] = s[j] => i = j
      /\ \A k \in DOMAIN rows : \E i \in 1..n : s[i] = k
  BY RanksParts DEF EachOnce
<1> HIDE DEF n
<1>2. s \in Bijection(1..n, DOMAIN rows)
  BY <1>1 DEF Bijection, Injection, Surjection, IsInjective
<1>3. ExistsBijection(1..n, DOMAIN rows)
  BY <1>2 DEF ExistsBijection
<1>4. IsFiniteSet(1..n) /\ Cardinality(1..n) = n
  BY <1>1, FS_Interval
<1> QED
  BY <1>3, <1>4, FS_Bijection DEF n

\* v lists members of D, n of them, each with a larger number h than the one before.
Rises(D, n, h, v) ==
  v \in [1..n -> D] /\ \A i, j \in 1..n : i < j => h[v[i]] < h[v[j]]

Covers(D, n, v) == \A k \in D : \E i \in 1..n : v[i] = k

\* There is one way to list a set in the order of distinct numbers.
LEMMA OneOrder ==
  ASSUME NEW D, NEW n \in Nat, NEW h \in [D -> Nat],
         NEW s, Rises(D, n, h, s), Covers(D, n, s),
         NEW v, Rises(D, n, h, v), Covers(D, n, v)
  PROVE  v = s
<1> USE DEF Rises, Covers
<1>1. ASSUME v # s PROVE FALSE
  <2> DEFINE T == {i \in 1..n : v[i] # s[i]}
  <2>1. T \in SUBSET Nat /\ T # {}
    <3>1. \E i \in 1..n : v[i] # s[i]
      BY <1>1
    <3>2. 1..n \subseteq Nat
      OBVIOUS
    <3> QED
      BY <3>1, <3>2
  <2>2. PICK i \in T : \A j \in T : i <= j
    <3> HIDE DEF T
    <3> QED
      BY <2>1, LeastNatural
  <2>3. i \in 1..n /\ v[i] # s[i] /\ v[i] \in D /\ s[i] \in D
    BY <2>2
  <2>4. ASSUME NEW j \in 1..n, j < i PROVE v[j] = s[j]
    BY <2>2, <2>3, <2>4
  <2>5. PICK a \in 1..n : v[a] = s[i]
    BY <2>3
  <2>6. PICK b \in 1..n : s[b] = v[i]
    BY <2>3
  <2>7. ~(a < i)
    <3>1. ASSUME a < i PROVE FALSE
      <4>1. s[a] = s[i]
        BY <2>4, <2>5, <3>1
      <4>2. h[s[a]] < h[s[i]] /\ h[s[i]] \in Nat
        BY <2>3, <3>1
      <4> QED
        BY <4>1, <4>2
    <3> QED
      BY <3>1
  <2>8. ~(b < i)
    <3>1. ASSUME b < i PROVE FALSE
      <4>1. v[b] = v[i]
        BY <2>4, <2>6, <3>1
      <4>2. h[v[b]] < h[v[i]] /\ h[v[i]] \in Nat
        BY <2>3, <3>1
      <4> QED
        BY <4>1, <4>2
    <3> QED
      BY <3>1
  <2>9. i < a /\ i < b
    <3>1. a # i /\ b # i
      BY <2>3, <2>5, <2>6
    <3> QED
      BY <2>3, <2>7, <2>8, <3>1
  <2>10. h[v[i]] < h[s[i]] /\ h[s[i]] < h[v[i]]
    BY <2>3, <2>5, <2>6, <2>9
  <2>11. h[v[i]] \in Nat /\ h[s[i]] \in Nat
    BY <2>3
  <2> QED
    BY <2>10, <2>11
<1> QED
  BY <1>1

\* As many distinct places as there are keys hold them all.
LEMMA AllListed ==
  ASSUME NEW D, IsFiniteSet(D), NEW n \in Nat, Cardinality(D) = n, NEW h \in [D -> Nat],
         NEW v, Rises(D, n, h, v)
  PROVE  Covers(D, n, v)
<1> USE DEF Rises, Covers
<1>1. IsFiniteSet(1..n) /\ Cardinality(1..n) = n
  <2>1. 1 \in Int /\ n \in Int
    OBVIOUS
  <2> QED
    BY <2>1, FS_Interval
<1>2. v \in Injection(1..n, D)
  <2>1. ASSUME NEW i \in 1..n, NEW j \in 1..n, v[i] = v[j] PROVE i = j
    <3>1. h[v[i]] \in Nat
      OBVIOUS
    <3>2. ~(i < j) /\ ~(j < i)
      BY <2>1, <3>1
    <3> QED
      BY <3>2
  <2> QED
    BY <2>1 DEF Injection, IsInjective
<1>3. v \in Surjection(1..n, D)
  BY <1>1, <1>2, FS_Injection
<1> QED
  BY <1>3 DEF Surjection

LEMMA ByHitIs ==
  ASSUME L1Inv, NEW s, Ranks(s)
  PROVE  ByHit = s /\ Len(s) = Cardinality(DOMAIN rows)
<1>1. PICK D, n, h : D = DOMAIN rows /\ n = Cardinality(DOMAIN rows)
                     /\ h = [k \in DOMAIN rows |-> rows[k].hit]
  OBVIOUS
<1>2. /\ n \in Nat /\ n = Len(s) /\ IsFiniteSet(D) /\ h \in [D -> Nat]
      /\ \A k \in D : h[k] = rows[k].hit
  BY <1>1, RanksAll, RanksParts, RowParts
<1>3. s \in [1..n -> D]
  BY <1>1, <1>2, RanksParts
<1>4. \A i, j \in 1..n : i < j => h[s[i]] < h[s[j]]
  <2>1. \A i, j \in 1..Len(s) : i < j => rows[s[i]].hit < rows[s[j]].hit
    BY RanksParts
  <2> QED
    BY <1>2, <1>3, <2>1
<1>5. \A k \in D : \E i \in 1..n : s[i] = k
  BY <1>1, <1>2, RanksParts
<1> DEFINE Up(v) == \A i, j \in DOMAIN v : i < j => rows[v[i]].hit < rows[v[j]].hit
<1>6. s \in [1..n -> D] /\ Up(s)
  <2>1. DOMAIN s = 1..n
    BY <1>3
  <2> QED
    BY <1>2, <1>3, <1>4, <2>1
<1>7. ASSUME NEW F, s \in F PROVE Up(CHOOSE v \in F : Up(v)) /\ (CHOOSE v \in F : Up(v)) \in F
  <2> HIDE DEF Up
  <2>1. \E v : v \in F /\ Up(v)
    BY <1>6, <1>7
  <2> QED
    BY <2>1, Zenon
<1>8. ByHit \in [1..n -> D] /\ Up(ByHit)
  <2> DEFINE F == [1..Cardinality(DOMAIN rows) -> DOMAIN rows]
  <2>1. ByHit = CHOOSE v \in F : Up(v)
    BY DEF ByHit
  <2>2. s \in F /\ F = [1..n -> D]
    BY <1>1, <1>6
  <2> HIDE DEF F, Up
  <2> QED
    BY <1>7, <2>1, <2>2
<1> HIDE DEF Up
<1>9. PICK v : v = ByHit
  OBVIOUS
<1>10. v \in [1..n -> D] /\ \A i, j \in 1..n : i < j => h[v[i]] < h[v[j]]
  <2>1. v \in [1..n -> D] /\ DOMAIN v = 1..n /\ Up(v)
    BY <1>8, <1>9
  <2> QED
    BY <1>2, <2>1 DEF Up
<1>11. Rises(D, n, h, s) /\ Rises(D, n, h, v) /\ Covers(D, n, s)
  BY <1>3, <1>4, <1>5, <1>10 DEF Rises, Covers
<1>12. Covers(D, n, v)
  BY <1>1, <1>2, <1>11, AllListed
<1>13. v = s
  BY <1>2, <1>11, <1>12, OneOrder
<1> QED
  BY <1>1, <1>2, <1>9, <1>13

\* The rows that eviction will keep are the last max_entries of any such list.
HeldFits == \A s : L1Inv /\ Ranks(s) => Held = LastOf(s, MaxEntries)

LEMMA HeldIs == HeldFits
<1> SUFFICES ASSUME NEW s, L1Inv, Ranks(s) PROVE Held = LastOf(s, MaxEntries)
  BY DEF HeldFits
<1>1. ByHit = s /\ Len(s) = Cardinality(DOMAIN rows) /\ Len(s) \in Nat
  BY ByHitIs, RanksParts
<1>2. 1 + (IF Excess > 0 THEN Excess ELSE 0)
        = Len(s) - (IF MaxEntries < Len(s) THEN MaxEntries ELSE Len(s)) + 1
  BY <1>1, L1Assumption DEF Excess
<1> QED
  BY <1>1, <1>2 DEF Held, LastOf

\* A list of the rows, with the key of a row just written moved to its end.
LEMMA RanksTouched ==
  ASSUME L1Inv, NEW s, Ranks(s), NEW k \in Keys, clock' = clock + 1,
         DOMAIN rows' = DOMAIN rows \cup {k}, rows'[k].hit = clock',
         \A x \in DOMAIN rows \ {k} : rows'[x].hit = rows[x].hit
  PROVE  Ranks(Append(RemoveFirst(s, k), k))'
<1> DEFINE t == Append(RemoveFirst(s, k), k)
<1>1. s \in Seq(Keys) /\ EachOnce(s) /\ Sorts(s) /\ DOMAIN rows = ToSet(s)
  BY DEF Ranks, Sorts
<1>2. Sorts(t)'
  BY <1>1, SortedTouched
<1>3. ToSet(t) = ToSet(s) \cup {k}
  <2>1. TouchedLast(s, k, t, Keys)
    BY <1>1, Touching
  <2> HIDE DEF t
  <2> QED
    BY <2>1 DEF TouchedLast
<1> HIDE DEF t
<1>4. Ranks(t)'
  BY <1>1, <1>2, <1>3 DEF Ranks
<1> QED
  BY <1>4 DEF t

\* What _evict_if_over() deletes are the first Excess keys of the list.
LEMMA FirstsGo ==
  ASSUME L1Inv, NEW s, Ranks(s), Excess > 0,
         NEW gone \in SUBSET DOMAIN rows, Oldest(gone)
  PROVE  /\ Excess = Len(s) - MaxEntries /\ Excess \in 1..Len(s)
         /\ \A i \in 1..Len(s) : s[i] \in gone <=> i <= Excess
<1>1. PICK N, e, D : N = Len(s) /\ e = Excess /\ D = DOMAIN rows
  OBVIOUS
<1>2. /\ N \in Nat /\ IsFiniteSet(D) /\ Cardinality(D) = N
      /\ s \in [1..N -> D] /\ \A i, j \in 1..N : s[i] = s[j] => i = j
  BY <1>1, RanksParts, RanksAll DEF EachOnce
<1>3. e = N - MaxEntries /\ e \in 1..N
  BY <1>1, <1>2, L1Assumption DEF Excess
<1>4. /\ \A k \in D : rows[k].hit \in Nat
      /\ \A i, j \in 1..N : i < j => rows[s[i]].hit < rows[s[j]].hit
      /\ \A k \in D : \E i \in 1..N : s[i] = k
  BY <1>1, RanksParts, RowParts
<1>5. /\ gone \subseteq D /\ Cardinality(gone) = e
      /\ \A g \in gone, x \in D \ gone : rows[g].hit <= rows[x].hit
  BY <1>1 DEF Oldest
<1>6. ASSUME NEW i \in 1..N, NEW j \in 1..N, i < j, s[j] \in gone PROVE s[i] \in gone
  <2>1. s[i] \in D /\ rows[s[i]].hit \in Nat /\ rows[s[j]].hit \in Nat
    BY <1>2, <1>4
  <2>2. rows[s[i]].hit < rows[s[j]].hit
    BY <1>4, <1>6
  <2> QED
    BY <1>5, <1>6, <2>1, <2>2
<1> DEFINE P == {s[i] : i \in 1..e}
<1>7. IsFiniteSet(P) /\ Cardinality(P) = e
  <2> DEFINE f == [i \in 1..e |-> s[i]]
  <2>1. f \in Bijection(1..e, P)
    BY <1>2, <1>3 DEF Bijection, Injection, Surjection, IsInjective
  <2>2. IsFiniteSet(1..e) /\ Cardinality(1..e) = e
    <3>1. 1 \in Int /\ e \in Int /\ e >= 1
      BY <1>3
    <3> QED
      BY <3>1, FS_Interval
  <2> HIDE DEF f, P
  <2>3. ExistsBijection(1..e, P)
    BY <2>1 DEF ExistsBijection
  <2> QED
    BY <2>2, <2>3, FS_Bijection
<1>8. IsFiniteSet(gone)
  BY <1>2, <1>5, FS_Subset
<1>9. gone \subseteq P \/ P \subseteq gone
  <2> SUFFICES ASSUME NEW g \in gone, g \notin P, NEW i \in 1..e PROVE s[i] \in gone
    OBVIOUS
  <2>1. PICK j \in 1..N : s[j] = g
    BY <1>4, <1>5
  <2>2. ~(j <= e)
    BY <1>3, <2>1
  <2>3. i \in 1..N /\ i < j
    BY <1>2, <1>3, <2>1, <2>2
  <2> QED
    BY <1>6, <2>1, <2>3
<1>10. gone = P
  <2> HIDE DEF P
  <2> QED
    BY <1>5, <1>7, <1>8, <1>9, FS_Subset
<1>11. \A i \in 1..N : s[i] \in gone <=> i <= e
  BY <1>2, <1>3, <1>10
<1> QED
  BY <1>1, <1>3, <1>11

LEMMA RanksEvicted ==
  ASSUME L1Inv, NEW s, Ranks(s), Evict
  PROVE  Ranks(LastOf(s, MaxEntries))'
<1>1. PICK t : t = LastOf(s, MaxEntries)
  OBVIOUS
<1>2. /\ s \in Seq(Keys) /\ EachOnce(s) /\ Len(s) \in Nat /\ DOMAIN s = 1..Len(s)
      /\ Sorts(s) /\ DOMAIN rows = ToSet(s)
      /\ \A i \in 1..Len(s) : s[i] \in DOMAIN rows
      /\ \A k \in DOMAIN rows : \E i \in 1..Len(s) : s[i] = k
  BY RanksParts DEF Ranks
<1>3. clock' = clock /\ clock \in Nat
  BY RowParts DEF Evict
<1>4. /\ DOMAIN rows' \subseteq DOMAIN rows
      /\ \A k \in DOMAIN rows' : rows'[k] = rows[k]
  BY EvictKeeps
<1>5. Sorts(s)'
  BY <1>2, <1>3, <1>4, SortedFewer
<1>6. Excess = Len(s) - MaxEntries /\ MaxEntries \in Nat
  BY RanksAll, L1Assumption DEF Excess
<1>7. CASE Excess <= 0
  <2>1. t = s
    BY <1>1, <1>2, <1>6, <1>7, LastOfParts
  <2>2. rows' = rows
    BY <1>7 DEF Evict
  <2> QED
    BY <1>1, <1>2, <1>5, <2>1, <2>2 DEF Ranks
<1>8. CASE ~(Excess <= 0)
  <2>1. PICK gone \in SUBSET DOMAIN rows :
          Oldest(gone) /\ rows' = Restrict(rows, DOMAIN rows \ gone)
    BY <1>8 DEF Evict
  <2>2. DOMAIN rows' = DOMAIN rows \ gone
    BY <2>1 DEF Restrict
  <2>3. PICK e : e = Excess
    OBVIOUS
  <2>4. e \in 1..Len(s) /\ \A i \in 1..Len(s) : s[i] \in gone <=> i <= e
    <3>1. Excess > 0
      BY <1>2, <1>6, <1>8
    <3> QED
      BY <2>1, <2>3, <3>1, FirstsGo
  <2>5. Lasts(Keys, s, MaxEntries, t)
    BY <1>1, <1>2, <1>6, <2>3, <2>4, LastOfMany
  <2>6. /\ t \in Seq(Keys) /\ Len(t) = MaxEntries /\ DOMAIN t = 1..MaxEntries
        /\ \A i \in 1..MaxEntries : t[i] = s[e + i] /\ e + i \in 1..Len(s)
    <3>1. t \in Seq(Keys) /\ Len(t) = MaxEntries
      BY <2>5 DEF Lasts
    <3>2. \A i \in 1..MaxEntries : e + i \in 1..Len(s) /\ Len(s) - MaxEntries + i = e + i
      BY <1>2, <1>6, <2>3, <2>4
    <3>3. \A i \in 1..MaxEntries : t[i] = s[Len(s) - MaxEntries + i]
      BY <2>5 DEF Lasts
    <3> QED
      BY <3>1, <3>2, <3>3, LenProperties
  <2>7. EachOnce(t)
    <3> SUFFICES ASSUME NEW i \in 1..MaxEntries, NEW j \in 1..MaxEntries, t[i] = t[j]
                 PROVE  i = j
      BY <2>6 DEF EachOnce
    <3>1. e + i = e + j
      BY <1>2, <2>6 DEF EachOnce
    <3> QED
      BY <1>2, <2>4, <3>1
  <2>8. DOMAIN rows' = ToSet(t)
    <3>1. ASSUME NEW k \in DOMAIN rows' PROVE k \in ToSet(t)
      <4>1. PICK j \in 1..Len(s) : s[j] = k /\ ~(j <= e)
        BY <1>2, <2>2, <2>4
      <4>2. j - e \in 1..MaxEntries /\ e + (j - e) = j
        BY <1>2, <1>6, <2>3, <2>4, <4>1
      <4>3. t[j - e] = k
        BY <2>6, <4>1, <4>2
      <4> QED
        BY <2>6, <4>2, <4>3 DEF ToSet
    <3>2. ASSUME NEW i \in 1..MaxEntries PROVE t[i] \in DOMAIN rows'
      <4>1. e + i \in 1..Len(s) /\ ~(e + i <= e)
        BY <1>2, <2>4, <2>6
      <4> QED
        BY <1>2, <2>2, <2>4, <2>6, <4>1
    <3> QED
      BY <2>6, <3>1, <3>2 DEF ToSet
  <2>9. ASSUME NEW i \in 1..Len(t), NEW j \in 1..Len(t), i < j
        PROVE  rows'[t[i]].hit < rows'[t[j]].hit
    <3>1. i \in 1..MaxEntries /\ j \in 1..MaxEntries
      BY <2>6
    <3>2. /\ e + i \in 1..Len(s) /\ e + j \in 1..Len(s)
          /\ t[i] = s[e + i] /\ t[j] = s[e + j]
      BY <2>6, <3>1
    <3>3. e + i < e + j
      BY <1>2, <2>4, <2>9, <3>1
    <3>4. t[i] \in DOMAIN rows' /\ t[j] \in DOMAIN rows'
      BY <2>6, <2>8, <3>1 DEF ToSet
    <3> QED
      BY <1>5, <3>2, <3>3, <3>4 DEF Sorts
  <2>10. \A k \in DOMAIN rows' : rows'[k].hit <= clock'
    BY <1>5 DEF Sorts
  <2>11. Ranks(t)'
    BY <2>6, <2>7, <2>8, <2>9, <2>10 DEF Ranks, Sorts
  <2> QED
    BY <1>1, <2>11
<1> QED
  BY <1>7, <1>8

\* A step that writes no row, or clears them all.
LEMMA RanksKept ==
  ASSUME L1Inv, NEW s, Ranks(s), rows' = rows, clock' \in Nat, clock' >= clock
  PROVE  Ranks(s)'
<1>1. Sorts(s) /\ DOMAIN rows = ToSet(s)
  BY DEF Ranks
<1>2. Sorts(s)'
  BY <1>1, SortedFewer
<1> QED
  BY <1>1, <1>2 DEF Ranks

LEMMA RanksCleared ==
  ASSUME rows' = [k \in {} |-> 0] PROVE Ranks(<<>>)'
<1>1. <<>> \in Seq(Keys) /\ Len(<<>>) = 0 /\ DOMAIN <<>> = {} /\ DOMAIN rows' = {}
  BY EmptySeq
<1>2. PICK e : e = <<>>
  OBVIOUS
<1>3. Ranks(e)'
  BY <1>1, <1>2 DEF Ranks, Sorts, EachOnce, ToSet
<1> QED
  BY <1>2, <1>3

LEMMA HeldIsNext == HeldFits'
  BY HeldIs, PTL

\* LruStore takes sequences apart with the same operators.
LEMMA HeldStored ==
  ASSUME NEW k, Held' = LastOf(Append(RemoveFirst(Held, k), k), MaxEntries)
  PROVE  Lru!Store(k)
<1>1. Lru!RemoveFirst(Held, k) = RemoveFirst(Held, k)
  BY DEF RemoveFirst, Lru!RemoveFirst, SelectInSeq, Lru!SelectInSeq,
         RemoveAt, Lru!RemoveAt, Min, Lru!Min
<1> QED
  BY <1>1 DEF Lru!Store, Lru!Suffix, LastOf

LEMMA NoneLast ==
  ASSUME NEW s \in Seq(Keys), Len(s) = 0 PROVE LastOf(s, MaxEntries) = s
<1>1. MaxEntries \in Nat /\ Len(s) <= MaxEntries
  BY L1Assumption
<1> QED
  BY <1>1, LastOfParts

LEMMA RankInitInv == HistInit => RankInv /\ Held = <<>>
<1> SUFFICES ASSUME HistInit PROVE RankInv /\ Held = <<>>
  OBVIOUS
<1>1. L1Inv /\ DOMAIN rows = {}
  BY L1InitInv DEF HistInit, L1Init
<1>2. PICK e : e = <<>>
  OBVIOUS
<1>3. e \in Seq(Keys) /\ Len(e) = 0 /\ DOMAIN e = {}
  BY <1>2, EmptySeq
<1>4. Ranks(e)
  BY <1>1, <1>3 DEF Ranks, Sorts, EachOnce, ToSet
<1>5. Held = LastOf(e, MaxEntries)
  BY <1>1, <1>4, HeldIs DEF HeldFits
<1>6. LastOf(e, MaxEntries) = e
  BY <1>3, NoneLast
<1> QED
  BY <1>1, <1>2, <1>4, <1>5, <1>6 DEF RankInv

LEMMA RankStep ==
  ASSUME Monotonic, RankInv, [HistNext]_lruVars
  PROVE  /\ RankInv'
         /\ [Lru!LruNext]_Held
         /\ \A k \in Keys :
              GetHit(k) \/ (\E r \in Responses : PutInsert(k, r)) => Lru!Store(k)
<1>1. PICK s : Ranks(s)
  BY DEF RankInv
<1>2. /\ L1Inv /\ clock \in Nat /\ s \in Seq(Keys) /\ EachOnce(s)
      /\ Held = LastOf(s, MaxEntries) /\ MaxEntries \in Nat
  BY <1>1, HeldIs, RowParts, L1Assumption DEF HeldFits, RankInv, Ranks, Sorts
<1>3. L1Inv'
  <2>1. [L1Next]_vars
    BY DEF HistNext, lruVars, L1Next
  <2> QED
    BY <1>2, <2>1, L1StepInv
<1>4. ASSUME NEW t, Ranks(t)' PROVE RankInv' /\ Held' = LastOf(t, MaxEntries)
  BY <1>3, <1>4, HeldIsNext DEF HeldFits, RankInv
<1>5. ASSUME NEW k \in Keys, GetHit(k) \/ \E r \in Responses : PutInsert(k, r)
      PROVE  RankInv' /\ Lru!Store(k)
  <2>1. /\ clock' = clock + 1 /\ DOMAIN rows' = DOMAIN rows \cup {k}
        /\ rows'[k].hit = clock' /\ \A x \in DOMAIN rows \ {k} : rows'[x].hit = rows[x].hit
    BY <1>2, <1>5, HitTouches, PutTouches
  <2>2. PICK t : t = Append(RemoveFirst(s, k), k)
    OBVIOUS
  <2>3. Ranks(t)'
    <3>1. Ranks(Append(RemoveFirst(s, k), k))'
      BY <1>1, <1>2, <2>1, RanksTouched
    <3> QED
      BY <2>2, <3>1
  <2>4. RankInv' /\ Held' = LastOf(t, MaxEntries)
    BY <1>4, <2>3
  <2>5. LastOf(t, MaxEntries)
          = LastOf(Append(RemoveFirst(Held, k), k), MaxEntries)
    BY <1>2, <2>2, LastOfTouched
  <2> QED
    BY <2>4, <2>5, HeldStored
<1>6. ASSUME rows' = rows, clock' = clock \/ clock' = clock + 1
      PROVE  RankInv' /\ Held' = Held
  <2>1. Ranks(s)'
    BY <1>1, <1>2, <1>6, RanksKept
  <2> QED
    BY <1>2, <1>4, <2>1
<1>7. ASSUME rows' = [k \in {} |-> 0] PROVE RankInv' /\ Held' = <<>>
  <2>1. Ranks(<<>>)'
    BY <1>7, RanksCleared
  <2>2. LastOf(<<>>, MaxEntries) = <<>>
    <3>1. PICK e : e = <<>>
      OBVIOUS
    <3>2. e \in Seq(Keys) /\ Len(e) = 0
      BY <3>1, EmptySeq
    <3>3. LastOf(e, MaxEntries) = e
      BY <3>2, NoneLast
    <3> QED
      BY <3>1, <3>3
  <2> QED
    BY <1>4, <2>1, <2>2
<1>8. ASSUME Evict PROVE RankInv' /\ Held' = Held
  <2>1. PICK t : t = LastOf(s, MaxEntries)
    OBVIOUS
  <2>2. Ranks(t)'
    <3>1. Ranks(LastOf(s, MaxEntries))'
      BY <1>1, <1>2, <1>8, RanksEvicted
    <3> QED
      BY <2>1, <3>1
  <2>3. RankInv' /\ Held' = LastOf(t, MaxEntries)
    BY <1>4, <2>2
  <2> QED
    BY <1>2, <2>1, <2>3, LastOfTwice
<1>9. \/ \E k \in Keys : GetHit(k) \/ \E r \in Responses : PutInsert(k, r)
      \/ rows' = rows /\ (clock' = clock \/ clock' = clock + 1)
      \/ rows' = [k \in {} |-> 0]
      \/ Evict
  BY DEF HistNext, lruVars, vars, GetMiss, GetHitUncounted, Reads, PutNothing,
         EvictFails, Purge, Restart
<1>10. RankInv' /\ [Lru!LruNext]_Held
  <2>1. ASSUME NEW k \in Keys, GetHit(k) \/ \E r \in Responses : PutInsert(k, r)
        PROVE  RankInv' /\ [Lru!LruNext]_Held
    BY <1>5, <2>1 DEF Lru!LruNext
  <2>2. ASSUME Held' = <<>> PROVE [Lru!LruNext]_Held
    BY <2>2 DEF Lru!LruNext, Lru!Clear
  <2> QED
    BY <1>6, <1>7, <1>8, <1>9, <2>1, <2>2
<1> QED
  BY <1>5, <1>10

\* For any keys and any max_entries, under a clock that moves forward: the
\* table with its timestamps is an LRU store of max_entries keys, through
\* storage errors and crashes too, and every recorded hit or put is an access.
THEOREM TableIsLru ==
  ASSUME Monotonic PROVE HistSpec => ImplementsLru
<1>1. HistInit => RankInv /\ Lru!LruInit
  BY RankInitInv DEF Lru!LruInit
<1>2. RankInv /\ [HistNext]_lruVars =>
        /\ RankInv'
        /\ [Lru!LruNext]_Held
        /\ [\A k \in Keys :
              GetHit(k) \/ (\E r \in Responses : PutInsert(k, r)) => Lru!Store(k)]_lruVars
  BY RankStep
<1> QED
  BY <1>1, <1>2, PTL DEF HistSpec, ImplementsLru, Lru!LruSpec

-----------------------------------------------------------------------------
\* The rate limiter.

Buckets == [tokens : 0..Capacity, last : Nat]

\* The part of the typing that the bound rests on; the LRU order is no part
\* of it, so the bound holds whichever client the cap drops.
BucketsOK ==
  /\ now \in Nat
  /\ since \in 0..now
  /\ DOMAIN buckets \subseteq Clients
  /\ buckets \in [DOMAIN buckets -> Buckets]
  /\ \A c \in DOMAIN buckets : buckets[c].last <= now
  /\ granted \in [Clients -> Nat]
  /\ evicted \in [Clients -> Nat]

\* RateBound is not inductive: what a bucket still holds must be counted as
\* already spent.
Account(c) ==
  Cost * granted[c] + Available(c)
    <= Capacity * (1 + evicted[c]) + Refill * (now - since)

LimiterInv == BucketsOK /\ \A c \in Clients : Account(c)

-----------------------------------------------------------------------------
\* A refilled bucket is a bucket, wound on to now.
LEMMA RefilledType ==
  ASSUME now \in Nat, NEW b \in Buckets, b.last <= now
  PROVE  /\ Refilled(b) \in Buckets
         /\ Refilled(b).last = now
<1>1. Refill * (now - b.last) \in Nat
  BY LimiterAssumption DEF Buckets
<1> QED
  BY <1>1, LimiterAssumption DEF Refilled, AtMost, Buckets

\* Winding a bucket on to the present is idempotent.
LEMMA RefilledNow ==
  ASSUME now \in Nat, NEW b \in Buckets, b.last = now
  PROVE  Refilled(b).tokens = b.tokens
<1>1. Refill * (now - b.last) = 0
  BY LimiterAssumption DEF Buckets
<1> QED
  BY <1>1, LimiterAssumption DEF Refilled, AtMost, Buckets

\* acquire(1) takes Cost from what the bucket holds now, or nothing.
LEMMA SpentType ==
  ASSUME now \in Nat, NEW b \in Buckets, b.last <= now
  PROVE  /\ Spent(b) \in Buckets
         /\ Spent(b).last = now
         /\ Refilled(Spent(b)).tokens =
              Refilled(b).tokens - (IF Affords(Refilled(b)) THEN Cost ELSE 0)
<1> DEFINE r == Refilled(b)
<1>1. r \in Buckets /\ r.last = now
  BY RefilledType
<1>2. /\ Spent(b) \in Buckets
      /\ Spent(b).last = now
      /\ Spent(b).tokens = r.tokens - (IF Affords(r) THEN Cost ELSE 0)
  <2> HIDE DEF r
  <2> QED
    BY <1>1, LimiterAssumption DEF Spent, Affords, Buckets, r
<1>3. Refilled(Spent(b)).tokens = Spent(b).tokens
  BY <1>2, RefilledNow
<1> QED
  BY <1>2, <1>3

\* A bucket made by check() is full, and full it stays until it is charged.
LEMMA FullBucketType ==
  ASSUME now \in Nat
  PROVE  /\ FullBucket \in Buckets
         /\ FullBucket.last = now
         /\ Refilled(FullBucket).tokens = Capacity
<1>1. FullBucket \in Buckets /\ FullBucket.last = now
  BY LimiterAssumption DEF FullBucket, Buckets
<1> QED
  BY <1>1, RefilledNow DEF FullBucket

\* One tick earns Refill, up to Capacity, whenever it is counted.
LEMMA OneTick ==
  ASSUME NEW n \in Nat, NEW t \in 0..Capacity, NEW l \in 0..n
  PROVE  AtMost(t + Refill * ((n + 1) - l), Capacity)
           = AtMost(AtMost(t + Refill * (n - l), Capacity) + Refill, Capacity)
<1>1. Refill * ((n + 1) - l) = Refill * (n - l) + Refill
  BY LimiterAssumption
<1>2. Refill * (n - l) \in Nat
  BY LimiterAssumption
<1> DEFINE e == Refill * (n - l)
<1>3. Refill * ((n + 1) - l) = e + Refill /\ e \in Nat
  BY <1>1, <1>2
<1> HIDE DEF e
<1>4. AtMost(t + (e + Refill), Capacity)
        = AtMost(AtMost(t + e, Capacity) + Refill, Capacity)
  BY <1>3, LimiterAssumption DEF AtMost
<1> QED
  BY <1>3, <1>4 DEF e

\* Multiplication distributes over addition.
LEMMA Distributes ==
  ASSUME NEW k \in Nat, NEW x \in Nat, NEW y \in Nat
  PROVE  k * (x + y) = k * x + k * y
  OBVIOUS

\* What a client may spend is at most a burst.
LEMMA AvailableType ==
  ASSUME BucketsOK, NEW c \in Clients
  PROVE  Available(c) \in 0..Capacity
<1>1. CASE c \in DOMAIN buckets
  BY <1>1, RefilledType DEF BucketsOK, Available, Buckets
<1>2. CASE c \notin DOMAIN buckets
  BY <1>2, LimiterAssumption DEF Available
<1> QED
  BY <1>1, <1>2

\* The same, of the next state.
LEMMA AvailableTypeNext ==
  ASSUME BucketsOK', NEW c \in Clients
  PROVE  Available(c)' \in 0..Capacity
<1>1. CASE c \in DOMAIN buckets'
  <2> DEFINE b == buckets'[c]
  <2>1. b.tokens \in 0..Capacity /\ now' \in Nat /\ b.last \in 0..now'
    BY <1>1 DEF BucketsOK, Buckets
  <2>2. Refill * (now' - b.last) \in Nat
    BY <2>1, LimiterAssumption
  <2>3. Available(c)' = AtMost(b.tokens + Refill * (now' - b.last), Capacity)
    BY <1>1 DEF Available, Refilled, AtMost
  <2> QED
    BY <2>1, <2>2, <2>3, LimiterAssumption DEF AtMost
<1>2. CASE c \notin DOMAIN buckets'
  BY <1>2, LimiterAssumption DEF Available
<1> QED
  BY <1>1, <1>2

-----------------------------------------------------------------------------
\* The effect of check() on its client: a grant costs exactly Cost.
Charged(c) ==
  LET ok == Available(c) >= Cost
  IN /\ granted' = [granted EXCEPT ![c] = @ + (IF ok THEN 1 ELSE 0)]
     /\ Available(c)' = Available(c) - (IF ok THEN Cost ELSE 0)

\* check() of a known client charges it and touches no other client.
LEMMA CheckKnownEffect ==
  ASSUME BucketsOK, NEW c \in Clients, CheckKnown(c)
  PROVE  /\ BucketsOK'
         /\ Charged(c)
         /\ \A x \in Clients \ {c} : Available(x)' = Available(x)
         /\ evicted' = evicted /\ now' = now /\ since' = since
<1> DEFINE b == buckets[c]
<1>1. /\ c \in DOMAIN buckets /\ b \in Buckets /\ b.last <= now
      /\ now \in Nat /\ now' = now /\ since' = since /\ evicted' = evicted
      /\ buckets' = [buckets EXCEPT ![c] = Spent(b)]
      /\ Granting(c, b)
  BY DEF CheckKnown, BucketsOK
<1>2. /\ Spent(b) \in Buckets
      /\ Spent(b).last = now
      /\ Refilled(Spent(b)).tokens =
           Refilled(b).tokens - (IF Affords(Refilled(b)) THEN Cost ELSE 0)
  BY <1>1, SpentType
<1>3. \A d : Refilled(d)' = Refilled(d)
  BY <1>1 DEF Refilled
<1>4. /\ DOMAIN buckets' = DOMAIN buckets
      /\ buckets'[c] = Spent(b)
      /\ \A x \in DOMAIN buckets \ {c} : buckets'[x] = buckets[x]
  BY <1>1
<1>5. Available(c) = Refilled(b).tokens /\ Available(c)' = Refilled(Spent(b)).tokens
  BY <1>1, <1>4 DEF Available, Refilled
<1>6. Charged(c)
  BY <1>1, <1>2, <1>5 DEF Charged, Granting, Affords
<1>7. \A x \in Clients \ {c} : Available(x)' = Available(x)
  BY <1>1, <1>4 DEF Available, Refilled
<1>8. BucketsOK'
  <2>1. granted' \in [Clients -> Nat]
    BY <1>6 DEF Charged, BucketsOK
  <2>2. buckets' \in [DOMAIN buckets' -> Buckets]
    BY <1>1, <1>2, <1>4 DEF BucketsOK
  <2>3. \A x \in DOMAIN buckets' : buckets'[x].last <= now'
    BY <1>1, <1>2, <1>4 DEF BucketsOK
  <2> QED
    BY <1>1, <1>4, <2>1, <2>2, <2>3 DEF BucketsOK
<1> QED
  BY <1>1, <1>6, <1>7, <1>8

\* check() of a new client charges a full bucket; dropping a bucket gives its
\* client at most a burst, and counts as one eviction.
LEMMA CheckNewEffect ==
  ASSUME BucketsOK, NEW c \in Clients, CheckNew(c)
  PROVE  /\ BucketsOK'
         /\ now' = now /\ since' = since
         /\ granted' = [granted EXCEPT ![c] =
                          @ + (IF Available(c) >= Cost THEN 1 ELSE 0)]
         /\ evicted'[c] = evicted[c] \/ evicted'[c] = evicted[c] + 1
         /\ evicted'[c] = evicted[c] =>
              Available(c)' = Available(c) - (IF Available(c) >= Cost THEN Cost ELSE 0)
         /\ \A x \in Clients \ {c} :
              \/ Available(x)' = Available(x) /\ evicted'[x] = evicted[x]
              \/ evicted'[x] = evicted[x] + 1
<1> DEFINE gone == IF OverCap THEN {Head(order)} ELSE {}
           b    == FullBucket
<1>1. /\ c \notin DOMAIN buckets
      /\ now \in Nat /\ now' = now /\ since' = since
      /\ buckets' = [x \in (DOMAIN buckets \cup {c}) \ gone |->
                       IF x = c THEN Spent(b) ELSE buckets[x]]
      /\ evicted' = [x \in Clients |->
                       evicted[x] + (IF x \in gone THEN 1 ELSE 0)]
      /\ Granting(c, b)
  BY DEF CheckNew, BucketsOK
<1>2. b \in Buckets /\ b.last = now /\ Refilled(b).tokens = Capacity
  BY <1>1, FullBucketType
<1>3. /\ Spent(b) \in Buckets
      /\ Spent(b).last = now
      /\ Refilled(Spent(b)).tokens =
           Capacity - (IF Affords(Refilled(b)) THEN Cost ELSE 0)
  BY <1>1, <1>2, SpentType, LimiterAssumption DEF Buckets
<1> HIDE DEF gone, b
<1>4. Available(c) = Capacity
  BY <1>1 DEF Available
<1>5. Affords(Refilled(b)) <=> Available(c) >= Cost
  BY <1>2, <1>4 DEF Affords
<1>6. granted' = [granted EXCEPT ![c] =
                    @ + (IF Available(c) >= Cost THEN 1 ELSE 0)]
  BY <1>1, <1>5 DEF Granting
<1>7. evicted'[c] = evicted[c] + (IF c \in gone THEN 1 ELSE 0)
  BY <1>1
<1>8. c \notin gone =>
        Available(c)' = Available(c) - (IF Available(c) >= Cost THEN Cost ELSE 0)
  <2> SUFFICES ASSUME c \notin gone
               PROVE  Available(c)' = Capacity - (IF Available(c) >= Cost THEN Cost ELSE 0)
    BY <1>4
  <2>1. c \in DOMAIN buckets' /\ buckets'[c] = Spent(b)
    BY <1>1
  <2>2. Available(c)' = Refilled(Spent(b)).tokens
    BY <1>1, <2>1 DEF Available, Refilled
  <2> QED
    BY <1>3, <1>5, <2>2
<1>9. ASSUME NEW x \in Clients \ {c}
      PROVE  \/ Available(x)' = Available(x) /\ evicted'[x] = evicted[x]
             \/ evicted'[x] = evicted[x] + 1
  <2>1. evicted[x] \in Nat /\ evicted'[x] = evicted[x] + (IF x \in gone THEN 1 ELSE 0)
    BY <1>1 DEF BucketsOK
  <2>2. CASE x \in gone
    BY <2>1, <2>2
  <2>3. CASE x \notin gone
    <3>1. /\ x \in DOMAIN buckets' <=> x \in DOMAIN buckets
          /\ x \in DOMAIN buckets => buckets'[x] = buckets[x]
      BY <1>1, <2>3
    <3>2. Available(x)' = Available(x)
      BY <1>1, <3>1 DEF Available, Refilled
    <3> QED
      BY <2>1, <2>3, <3>2
  <2> QED
    BY <2>2, <2>3
<1>10. BucketsOK'
  <2>1. granted' \in [Clients -> Nat] /\ evicted' \in [Clients -> Nat]
    BY <1>1, <1>6 DEF BucketsOK
  <2>2. DOMAIN buckets' \subseteq Clients /\ buckets' \in [DOMAIN buckets' -> Buckets]
    BY <1>1, <1>3 DEF BucketsOK
  <2>3. \A x \in DOMAIN buckets' : buckets'[x].last <= now'
    BY <1>1, <1>3 DEF BucketsOK
  <2> QED
    BY <1>1, <2>1, <2>2, <2>3 DEF BucketsOK
<1>11. evicted[c] \in Nat
  BY DEF BucketsOK
<1> QED
  BY <1>1, <1>6, <1>7, <1>8, <1>9, <1>10, <1>11

\* A tick earns every client Refill, up to its burst.
LEMMA TickEffect ==
  ASSUME BucketsOK, Tick
  PROVE  /\ BucketsOK'
         /\ \A c \in Clients : Available(c)' = AtMost(Available(c) + Refill, Capacity)
<1>1. now \in Nat /\ now' = now + 1 /\ buckets' = buckets
  BY DEF Tick, BucketsOK
<1>2. BucketsOK'
  <2>1. \A c \in DOMAIN buckets : buckets[c].last \in Nat /\ buckets[c].last <= now
    BY DEF BucketsOK, Buckets
  <2>2. \A c \in DOMAIN buckets' : buckets'[c].last <= now'
    BY <1>1, <2>1
  <2>3. since' \in 0..now'
    BY DEF Tick, BucketsOK
  <2> QED
    BY <1>1, <2>2, <2>3 DEF Tick, BucketsOK
<1>3. ASSUME NEW c \in Clients, c \in DOMAIN buckets
      PROVE  Available(c)' = AtMost(Available(c) + Refill, Capacity)
  <2> DEFINE b == buckets[c]
  <2>1. b.tokens \in 0..Capacity /\ b.last \in 0..now
    BY <1>3 DEF BucketsOK, Buckets
  <2>2. /\ Available(c) = AtMost(b.tokens + Refill * (now - b.last), Capacity)
        /\ Available(c)' = AtMost(b.tokens + Refill * ((now + 1) - b.last), Capacity)
    BY <1>1, <1>3 DEF Available, Refilled, AtMost
  <2> QED
    BY <1>1, <2>1, <2>2, OneTick
<1>4. ASSUME NEW c \in Clients, c \notin DOMAIN buckets
      PROVE  Available(c)' = AtMost(Available(c) + Refill, Capacity)
  BY <1>1, <1>4, LimiterAssumption DEF Available, AtMost
<1> QED
  BY <1>2, <1>3, <1>4

-----------------------------------------------------------------------------
LEMMA LimiterInitInv == LimiterInit => LimiterInv
<1> SUFFICES ASSUME LimiterInit PROVE LimiterInv
  OBVIOUS
<1>1. BucketsOK
  BY DEF LimiterInit, BucketsOK
<1>2. ASSUME NEW c \in Clients PROVE Account(c)
  BY LimiterAssumption DEF LimiterInit, Account, Available
<1> QED
  BY <1>1, <1>2 DEF LimiterInv

\* An account stays in balance when its client is charged or idle, and when
\* its bucket is dropped, which the eviction pays for.
LEMMA AccountKept ==
  ASSUME BucketsOK, NEW c \in Clients, Account(c),
         NEW ok \in {0, 1}, NEW gone \in {0, 1}, NEW a \in 0..Capacity,
         ok = 1 => Available(c) >= Cost,
         gone = 0 => a = Available(c) - Cost * ok,
         now' = now, since' = since,
         granted'[c] = granted[c] + ok,
         evicted'[c] = evicted[c] + gone,
         Available(c)' = a
  PROVE  Account(c)'
<1> DEFINE e == Refill * (now - since)
           g == Cost * granted[c]
           v == Capacity * evicted[c]
<1>1. /\ e \in Nat /\ g \in Nat /\ v \in Nat
      /\ granted[c] \in Nat /\ evicted[c] \in Nat /\ Available(c) \in 0..Capacity
  BY LimiterAssumption, AvailableType DEF BucketsOK
<1>2. g + Available(c) <= Capacity + v + e
  BY <1>1, LimiterAssumption DEF Account
<1>3. /\ Cost * (granted[c] + ok) = g + Cost * ok
      /\ Capacity * (1 + (evicted[c] + gone)) = Capacity + v + Capacity * gone
  <2>1. Capacity \in Nat /\ Cost \in Nat /\ ok \in Nat /\ gone \in Nat
    BY LimiterAssumption
  <2>2. Cost * (granted[c] + ok) = g + Cost * ok
    BY <1>1, <2>1, Distributes
  <2>3. Capacity * (evicted[c] + gone) = v + Capacity * gone
    BY <1>1, <2>1, Distributes
  <2>4. Capacity * (1 + (evicted[c] + gone)) = Capacity * 1 + Capacity * (evicted[c] + gone)
    BY <1>1, <2>1, Distributes
  <2>5. Capacity * 1 = Capacity /\ Capacity * gone \in Nat
    BY <2>1
  <2> HIDE DEF g, v
  <2> QED
    BY <1>1, <2>1, <2>2, <2>3, <2>4, <2>5
<1>4. /\ ok = 0 => Cost * ok = 0
      /\ ok = 1 => Cost * ok = Cost
      /\ gone = 0 => Capacity * gone = 0
      /\ gone = 1 => Capacity * gone = Capacity
  BY LimiterAssumption
<1>5. Account(c)' <=> Cost * (granted'[c]) + Available(c)'
                        <= Capacity * (1 + evicted'[c]) + Refill * (now' - since')
  BY DEF Account
<1> HIDE DEF e, g, v
<1>6. g + Cost * ok + a <= Capacity + v + Capacity * gone + e
  <2>1. CASE gone = 0
    BY <1>1, <1>2, <1>4, <2>1, LimiterAssumption
  <2>2. CASE gone = 1 /\ ok = 0
    BY <1>1, <1>2, <1>4, <2>2, LimiterAssumption
  <2>3. CASE gone = 1 /\ ok = 1
    BY <1>1, <1>2, <1>4, <2>3, LimiterAssumption
  <2> QED
    BY <2>1, <2>2, <2>3
<1>7. Account(c)' <=> Cost * (granted[c] + ok) + a
                        <= Capacity * (1 + (evicted[c] + gone)) + e
  BY <1>5 DEF e
<1> QED
  BY <1>1, <1>3, <1>4, <1>6, <1>7, LimiterAssumption

LEMMA LimiterStepInv == LimiterInv /\ [LimiterNext]_limiterVars => LimiterInv'
<1> SUFFICES ASSUME LimiterInv, [LimiterNext]_limiterVars PROVE LimiterInv'
  OBVIOUS
<1>0. BucketsOK /\ \A c \in Clients : Account(c)
  BY DEF LimiterInv
<1>1. CASE UNCHANGED limiterVars
  BY <1>1 DEF limiterVars, LimiterInv, BucketsOK, Account, Available, Refilled
<1>2. CASE Tick
  <2>1. BucketsOK' /\ \A c \in Clients : Available(c)' <= Available(c) + Refill
    BY <1>0, <1>2, TickEffect, AvailableType, LimiterAssumption DEF AtMost
  <2>2. ASSUME NEW c \in Clients PROVE Account(c)'
    <3> DEFINE e == Refill * (now - since)
               g == Cost * granted[c]
               v == Capacity * (1 + evicted[c])
    <3>1. /\ Available(c) \in 0..Capacity /\ Available(c)' \in 0..Capacity
          /\ e \in Nat /\ g \in Nat /\ v \in Nat
      BY <1>0, <2>1, <2>2, AvailableType, AvailableTypeNext, LimiterAssumption DEF BucketsOK
    <3>2. Refill * (now' - since') = e + Refill
      <4>1. now' - since' = (now - since) + 1 /\ now - since \in Nat
        BY <1>0, <1>2 DEF Tick, BucketsOK
      <4> QED
        BY <4>1, Distributes, LimiterAssumption
    <3>3. g + Available(c) <= v + e
      BY <1>0, <2>2 DEF Account
    <3>4. Account(c)' <=> g + Available(c)' <= v + Refill * (now' - since')
      BY <1>2 DEF Account, Tick
    <3>5. Available(c)' <= Available(c) + Refill
      BY <2>1
    <3> HIDE DEF e, g, v
    <3> QED
      BY <3>1, <3>2, <3>3, <3>4, <3>5, LimiterAssumption
  <2> QED
    BY <2>1, <2>2 DEF LimiterInv
<1>3. CASE OpenWindow
  <2>1. BucketsOK'
    BY <1>0, <1>3 DEF OpenWindow, BucketsOK
  <2>2. ASSUME NEW c \in Clients PROVE Account(c)'
    <3>1. /\ Available(c)' \in 0..Capacity /\ now' - since' = 0
          /\ granted'[c] = 0 /\ evicted'[c] = 0
      BY <1>0, <1>3, <2>1, <2>2, AvailableTypeNext DEF OpenWindow, BucketsOK
    <3>2. Cost * 0 = 0 /\ Capacity * (1 + 0) = Capacity /\ Refill * 0 = 0
      BY LimiterAssumption
    <3> QED
      BY <3>1, <3>2, LimiterAssumption DEF Account
  <2> QED
    BY <2>1, <2>2 DEF LimiterInv
<1>4. ASSUME NEW c \in Clients, CheckKnown(c) PROVE LimiterInv'
  <2>1. /\ BucketsOK' /\ Charged(c)
        /\ \A x \in Clients \ {c} : Available(x)' = Available(x)
        /\ evicted' = evicted /\ now' = now /\ since' = since
    BY <1>0, <1>4, CheckKnownEffect
  <2>2. ASSUME NEW x \in Clients PROVE Account(x)'
    <3> DEFINE ok == IF x = c /\ Available(c) >= Cost THEN 1 ELSE 0
    <3>1. granted[x] \in Nat /\ evicted[x] \in Nat /\ Available(x) \in 0..Capacity
          /\ Available(x)' \in 0..Capacity
      BY <1>0, <2>1, AvailableType, AvailableTypeNext DEF BucketsOK
    <3>2. /\ granted'[x] = granted[x] + ok
          /\ Available(x)' = Available(x) - Cost * ok
          /\ ok = 1 => Available(x) >= Cost
      BY <1>0, <2>1, <3>1, LimiterAssumption DEF Charged, BucketsOK
    <3>3. ok \in {0, 1} /\ evicted'[x] = evicted[x] + 0
      BY <2>1, <3>1
    <3> HIDE DEF ok
    <3> QED
      BY <1>0, <2>1, <3>1, <3>2, <3>3, AccountKept
  <2> QED
    BY <2>1, <2>2 DEF LimiterInv
<1>5. ASSUME NEW c \in Clients, CheckNew(c) PROVE LimiterInv'
  <2>1. BucketsOK' /\ now' = now /\ since' = since
    BY <1>0, <1>5, CheckNewEffect
  <2>2. ASSUME NEW x \in Clients PROVE Account(x)'
    <3> DEFINE ok   == IF x = c /\ Available(c) >= Cost THEN 1 ELSE 0
               gone == IF evicted'[x] = evicted[x] THEN 0 ELSE 1
    <3>1. granted[x] \in Nat /\ evicted[x] \in Nat /\ Available(x) \in 0..Capacity
          /\ Available(x)' \in 0..Capacity
      BY <1>0, <2>1, AvailableType, AvailableTypeNext DEF BucketsOK
    <3>2. /\ granted' = [granted EXCEPT ![c] =
                           @ + (IF Available(c) >= Cost THEN 1 ELSE 0)]
          /\ evicted'[c] = evicted[c] \/ evicted'[c] = evicted[c] + 1
          /\ evicted'[c] = evicted[c] =>
               Available(c)' = Available(c) - (IF Available(c) >= Cost THEN Cost ELSE 0)
          /\ \A y \in Clients \ {c} :
               \/ Available(y)' = Available(y) /\ evicted'[y] = evicted[y]
               \/ evicted'[y] = evicted[y] + 1
      BY <1>0, <1>5, CheckNewEffect
    <3>3. evicted'[x] = evicted[x] + gone
      BY <3>1, <3>2
    <3>4. granted'[x] = granted[x] + ok
      BY <1>0, <3>1, <3>2 DEF BucketsOK
    <3>5. gone = 0 => Available(x)' = Available(x) - Cost * ok
      BY <3>1, <3>2, LimiterAssumption
    <3>6. ok \in {0, 1} /\ gone \in {0, 1} /\ (ok = 1 => Available(x) >= Cost)
      OBVIOUS
    <3> HIDE DEF ok, gone
    <3> QED
      BY <1>0, <2>1, <3>1, <3>3, <3>4, <3>5, <3>6, AccountKept
  <2> QED
    BY <2>1, <2>2 DEF LimiterInv
<1> QED
  BY <1>1, <1>2, <1>3, <1>4, <1>5 DEF LimiterNext, Check

\* A balanced account is within the bound.
LEMMA LimiterInvBound == LimiterInv => RateBound
<1> SUFFICES ASSUME LimiterInv, NEW c \in Clients
             PROVE  Cost * granted[c]
                      <= Capacity * (1 + evicted[c]) + Refill * (now - since)
  BY DEF RateBound
<1>1. Available(c) \in 0..Capacity /\ Account(c)
  BY AvailableType DEF LimiterInv
<1>2. /\ Cost * granted[c] \in Nat
      /\ Capacity * (1 + evicted[c]) \in Nat
      /\ Refill * (now - since) \in Nat
  BY LimiterAssumption DEF LimiterInv, BucketsOK
<1> QED
  BY <1>1, <1>2, LimiterAssumption DEF Account

\* For any number of clients, any cap and any rates: in any window a client
\* gets at most its burst, what it earned, and one burst per dropped bucket.
THEOREM RateBounded == LimiterSpec => []RateBound
<1>1. LimiterInit => LimiterInv
  BY LimiterInitInv
<1>2. LimiterInv /\ [LimiterNext]_limiterVars => LimiterInv'
  BY LimiterStepInv
<1>3. LimiterInv => RateBound
  BY LimiterInvBound
<1> QED
  BY <1>1, <1>2, <1>3, PTL DEF LimiterSpec

-----------------------------------------------------------------------------
\* The order of the table: what the bound did not need, and what the choice of
\* the client that is dropped depends on.

TableInv == LimiterTypeOK /\ BucketsOK

LEMMA TableParts ==
  ASSUME LimiterTypeOK
  PROVE  /\ order \in Seq(Clients) /\ EachOnce(order) /\ Len(order) <= MaxClients
         /\ DOMAIN order = 1..Len(order) /\ Len(order) \in Nat
         /\ \A c \in DOMAIN buckets : \E n \in 1..Len(order) : order[n] = c
         /\ MaxClients \in Nat \ {0}
<1>1. order \in Seq(Clients) /\ Len(order) <= MaxClients /\ ToSet(order) = DOMAIN buckets
  BY DEF LimiterTypeOK
<1>2. DOMAIN order = 1..Len(order) /\ Len(order) \in Nat
  BY <1>1, LenProperties
<1> QED
  BY <1>1, <1>2, LimiterAssumption DEF LimiterTypeOK, EachOnce, ToSet

\* check() makes a client it knows the most recently used one.
LEMMA OrderKnown ==
  ASSUME LimiterTypeOK, NEW c \in Clients, CheckKnown(c)
  PROVE  /\ order' \in Seq(Clients) /\ EachOnce(order') /\ Len(order') <= MaxClients
         /\ ToSet(order') = ToSet(order)
         /\ order' = LastOf(Append(RemoveFirst(order, c), c), MaxClients)
<1>1. PICK n \in 1..Len(order) : order[n] = c
  BY TableParts DEF CheckKnown
<1>2. order' = Append(RemoveAt(order, n), order[n])
      /\ RemoveFirst(order, c) = RemoveAt(order, n)
  BY <1>1, TableParts, MovedLast DEF CheckKnown, MovedToEnd
<1>3. /\ order' \in Seq(Clients) /\ EachOnce(order') /\ Len(order') = Len(order)
      /\ ToSet(order') = ToSet(order)
  BY <1>2, TableParts, MovedLast, MovedLastKeys
<1>4. Len(order') <= MaxClients
  BY <1>3, TableParts
<1>5. LastOf(order', MaxClients) = order'
  BY <1>3, <1>4, TableParts, LastOfParts
<1> QED
  BY <1>1, <1>2, <1>3, <1>4, <1>5

\* check() puts a new client behind all others, the first of which makes room.
LEMMA OrderNew ==
  ASSUME LimiterTypeOK, NEW c \in Clients, CheckNew(c)
  PROVE  /\ order' \in Seq(Clients) /\ EachOnce(order') /\ Len(order') <= MaxClients
         /\ OverCap => Head(order) \in DOMAIN buckets
         /\ ToSet(order') =
              (ToSet(order) \cup {c}) \ (IF OverCap THEN {Head(order)} ELSE {})
         /\ order' = LastOf(Append(RemoveFirst(order, c), c), MaxClients)
<1> DEFINE t == Append(IF Len(order) >= MaxClients THEN Tail(order) ELSE order, c)
<1>1. order' = t /\ (OverCap <=> Len(order) >= MaxClients)
  BY DEF CheckNew, OverCap
<1>2. c \notin ToSet(order) /\ ToSet(order) = DOMAIN buckets
  BY DEF CheckNew, LimiterTypeOK
<1>3. /\ t = LastOf(Append(RemoveFirst(order, c), c), MaxClients)
      /\ t \in Seq(Clients) /\ Len(t) <= MaxClients /\ EachOnce(t)
      /\ Len(order) >= MaxClients => Head(order) = order[1] /\ 1 \in 1..Len(order)
      /\ ToSet(t) = (ToSet(order) \cup {c})
                       \ (IF Len(order) >= MaxClients THEN {Head(order)} ELSE {})
  BY <1>2, TableParts, StoredLast
<1> HIDE DEF t
<1>4. OverCap => Head(order) \in DOMAIN buckets
  BY <1>1, <1>2, <1>3, TableParts DEF ToSet
<1> QED
  BY <1>1, <1>3, <1>4

LEMMA TableInitInv == LimiterInit => TableInv
<1> SUFFICES ASSUME LimiterInit PROVE TableInv
  OBVIOUS
<1>1. BucketsOK
  BY LimiterInitInv DEF LimiterInv
<1>2. order = <<>> /\ order \in Seq(Clients) /\ Len(order) = 0
  BY EmptySeq DEF LimiterInit
<1>3. DOMAIN order = {} /\ ToSet(order) = {}
  <2>1. DOMAIN order = 1..0
    BY <1>2, LenProperties
  <2> QED
    BY <2>1 DEF ToSet
<1>4. LimiterTypeOK
  BY <1>2, <1>3, LimiterAssumption DEF LimiterInit, LimiterTypeOK
<1> QED
  BY <1>1, <1>4 DEF TableInv

LEMMA TableStepInv == TableInv /\ [LimiterNext]_limiterVars => TableInv'
<1> SUFFICES ASSUME TableInv, [LimiterNext]_limiterVars PROVE TableInv'
  OBVIOUS
<1>0. LimiterTypeOK /\ BucketsOK
  BY DEF TableInv
<1>1. CASE UNCHANGED limiterVars
  BY <1>0, <1>1 DEF limiterVars, TableInv, LimiterTypeOK, BucketsOK
<1>2. CASE Tick
  <2>1. BucketsOK'
    BY <1>0, <1>2, TickEffect
  <2>2. now' \in 0..MaxTime /\ since' \in 0..now' /\ now' = now + 1 /\ now \in Nat
    BY <1>0, <1>2, LimiterAssumption DEF Tick, LimiterTypeOK
  <2>3. ASSUME NEW c \in DOMAIN buckets
        PROVE  buckets[c].tokens \in 0..Capacity /\ buckets[c].last \in 0..now'
    BY <1>0, <2>2 DEF LimiterTypeOK
  <2> QED
    BY <1>0, <1>2, <2>1, <2>2, <2>3 DEF Tick, TableInv, LimiterTypeOK
<1>3. CASE OpenWindow
  <2>1. BucketsOK' /\ since' \in 0..now' /\ evicted' \in [Clients -> 0..MaxEvictions]
    BY <1>0, <1>3, LimiterAssumption DEF OpenWindow, BucketsOK
  <2> QED
    BY <1>0, <1>3, <2>1 DEF OpenWindow, TableInv, LimiterTypeOK, BucketsOK
<1>4. ASSUME NEW c \in Clients, CheckKnown(c) PROVE TableInv'
  <2>1. BucketsOK' /\ evicted' = evicted /\ now' = now /\ since' = since
    BY <1>0, <1>4, CheckKnownEffect
  <2>2. /\ order' \in Seq(Clients) /\ EachOnce(order') /\ Len(order') <= MaxClients
        /\ ToSet(order') = ToSet(order)
    BY <1>0, <1>4, OrderKnown
  <2>3. DOMAIN buckets' = DOMAIN buckets /\ created' = created
    BY <1>4 DEF CheckKnown
  <2>4. LimiterTypeOK'
    <3>1. DOMAIN order' = 1..Len(order')
      BY <2>2, LenProperties
    <3>2. \A x \in DOMAIN buckets' :
            buckets'[x].tokens \in 0..Capacity /\ buckets'[x].last \in 0..now'
      BY <2>1 DEF BucketsOK, Buckets
    <3>3. granted' \in [Clients -> Nat]
      BY <2>1 DEF BucketsOK
    <3> QED
      BY <1>0, <2>1, <2>2, <2>3, <3>1, <3>2, <3>3 DEF LimiterTypeOK, EachOnce
  <2> QED
    BY <2>1, <2>4 DEF TableInv
<1>5. ASSUME NEW c \in Clients, CheckNew(c) PROVE TableInv'
  <2> DEFINE gone == IF OverCap THEN {Head(order)} ELSE {}
  <2>1. BucketsOK' /\ now' = now /\ since' = since
    BY <1>0, <1>5, CheckNewEffect
  <2>2. /\ order' \in Seq(Clients) /\ EachOnce(order') /\ Len(order') <= MaxClients
        /\ ToSet(order') = (ToSet(order) \cup {c}) \ gone
    BY <1>0, <1>5, OrderNew
  <2>3. /\ DOMAIN buckets' = (DOMAIN buckets \cup {c}) \ gone
        /\ created' = (created \cup {c}) \ gone
        /\ \A g \in gone : evicted[g] < MaxEvictions
        /\ evicted' = [x \in Clients |-> evicted[x] + (IF x \in gone THEN 1 ELSE 0)]
    BY <1>5, Zenon DEF CheckNew
  <2> HIDE DEF gone
  <2>4. evicted' \in [Clients -> 0..MaxEvictions]
    <3>1. ASSUME NEW x \in Clients
          PROVE  evicted[x] + (IF x \in gone THEN 1 ELSE 0) \in 0..MaxEvictions
      <4>1. evicted[x] \in 0..MaxEvictions /\ (x \in gone => evicted[x] < MaxEvictions)
        BY <1>0, <2>3 DEF LimiterTypeOK
      <4> QED
        BY <4>1, LimiterAssumption
    <3> QED
      BY <2>3, <3>1
  <2>5. LimiterTypeOK'
    <3>1. DOMAIN order' = 1..Len(order')
      BY <2>2, LenProperties
    <3>2. \A x \in DOMAIN buckets' :
            buckets'[x].tokens \in 0..Capacity /\ buckets'[x].last \in 0..now'
      BY <2>1 DEF BucketsOK, Buckets
    <3>3. granted' \in [Clients -> Nat]
      BY <2>1 DEF BucketsOK
    <3>4. ToSet(order') = DOMAIN buckets' /\ created' = DOMAIN buckets'
      BY <1>0, <2>2, <2>3 DEF LimiterTypeOK
    <3> QED
      BY <1>0, <2>1, <2>2, <2>4, <3>1, <3>2, <3>3, <3>4 DEF LimiterTypeOK, EachOnce
  <2> QED
    BY <2>1, <2>5 DEF TableInv
<1> QED
  BY <1>1, <1>2, <1>3, <1>4, <1>5 DEF LimiterNext, Check

LEMMA TableStays == LimiterSpec => []TableInv
  BY TableInitInv, TableStepInv, PTL DEF LimiterSpec

\* For any number of clients, any cap and any rates: the buckets, the order of
\* the OrderedDict and _created_at name the same clients, never more than
\* max_clients of them and each once.
THEOREM LimiterTyped == LimiterSpec => []LimiterTypeOK
<1>1. TableInv => LimiterTypeOK
  BY DEF TableInv
<1> QED
  BY <1>1, TableStays, PTL

\* A new client is charged too: the client dropped for it is another one.
LEMMA CheckCharges ==
  ASSUME TableInv, NEW c \in Clients, Check(c)
  PROVE  Charged(c)
<1>0. LimiterTypeOK /\ BucketsOK
  BY DEF TableInv
<1>1. CASE CheckKnown(c)
  BY <1>0, <1>1, CheckKnownEffect
<1>2. CASE CheckNew(c)
  <2>1. c \notin (IF OverCap THEN {Head(order)} ELSE {})
    BY <1>0, <1>2, OrderNew DEF CheckNew
  <2>2. evicted'[c] = evicted[c]
    <3>1. evicted'[c] = evicted[c] + 0 /\ evicted[c] \in Nat
      BY <1>0, <1>2, <2>1 DEF CheckNew, BucketsOK
    <3> QED
      BY <3>1
  <2> QED
    BY <1>0, <1>2, <2>2, CheckNewEffect DEF Charged
<1> QED
  BY <1>1, <1>2 DEF Check

\* For any number of clients, any cap and any rates: refilling at the next
\* check decides every request as refilling at every tick would.
THEOREM LazyRefillIsExact == LimiterSpec => LazyRefillExact
<1>1. TableInv /\ [LimiterNext]_limiterVars =>
        [/\ now' = now + 1 =>
              \A c \in Clients : Available(c)' = AtMost(Available(c) + Refill, Capacity)
         /\ \A c \in Clients :
              Check(c) =>
                LET ok == Available(c) >= Cost
                IN /\ granted'[c] = granted[c] + (IF ok THEN 1 ELSE 0)
                   /\ Available(c)' = Available(c) - (IF ok THEN Cost ELSE 0)
        ]_limiterVars
  <2> SUFFICES ASSUME TableInv, [LimiterNext]_limiterVars
               PROVE  /\ now' = now + 1 =>
                           \A c \in Clients :
                             Available(c)' = AtMost(Available(c) + Refill, Capacity)
                      /\ \A c \in Clients :
                           Check(c) =>
                             LET ok == Available(c) >= Cost
                             IN /\ granted'[c] = granted[c] + (IF ok THEN 1 ELSE 0)
                                /\ Available(c)' = Available(c) - (IF ok THEN Cost ELSE 0)
    OBVIOUS
  <2>0. LimiterTypeOK /\ BucketsOK /\ now \in Nat
    BY DEF TableInv, BucketsOK
  <2>1. ASSUME now' = now + 1
        PROVE  \A c \in Clients :
                 Available(c)' = AtMost(Available(c) + Refill, Capacity)
    <3>1. now' # now
      BY <2>0, <2>1
    <3>2. Tick
      BY <3>1 DEF LimiterNext, limiterVars, OpenWindow, Check, CheckKnown, CheckNew
    <3> QED
      BY <2>0, <3>2, TickEffect
  <2>2. ASSUME NEW c \in Clients, Check(c)
        PROVE  LET ok == Available(c) >= Cost
               IN /\ granted'[c] = granted[c] + (IF ok THEN 1 ELSE 0)
                  /\ Available(c)' = Available(c) - (IF ok THEN Cost ELSE 0)
    <3>1. Charged(c) /\ granted \in [Clients -> Nat]
      BY <2>0, <2>2, CheckCharges DEF BucketsOK
    <3> QED
      BY <3>1 DEF Charged
  <2> QED
    BY <2>1, <2>2
<1> QED
  BY <1>1, TableStays, PTL DEF LimiterSpec, LazyRefillExact

\* LruStore takes sequences apart with the same operators.
LEMMA StoreIs ==
  ASSUME NEW c, order' = LastOf(Append(RemoveFirst(order, c), c), MaxClients)
  PROVE  BucketLru!Store(c)
<1>1. BucketLru!RemoveFirst(order, c) = RemoveFirst(order, c)
  BY DEF RemoveFirst, BucketLru!RemoveFirst, SelectInSeq, BucketLru!SelectInSeq,
         RemoveAt, BucketLru!RemoveAt, Min, BucketLru!Min
<1> QED
  BY <1>1 DEF BucketLru!Store, BucketLru!Suffix, LastOf

\* For any number of clients and any cap: the table of buckets is an LRU store,
\* in which each check of a client is an access.
THEOREM BucketsAreLru == LimiterSpec => BucketsImplementLru
<1>1. LimiterInit => BucketLru!LruInit
  BY DEF LimiterInit, BucketLru!LruInit
<1>2. ASSUME TableInv, NEW c \in Clients, Check(c) PROVE BucketLru!Store(c)
  <2>1. LimiterTypeOK
    BY <1>2 DEF TableInv
  <2>2. order' = LastOf(Append(RemoveFirst(order, c), c), MaxClients)
    BY <1>2, <2>1, OrderKnown, OrderNew DEF Check
  <2> QED
    BY <2>2, StoreIs
<1>3. TableInv /\ [LimiterNext]_limiterVars =>
        /\ [BucketLru!LruNext]_order
        /\ [\A c \in Clients : Check(c) => BucketLru!Store(c)]_limiterVars
  <2> SUFFICES ASSUME TableInv, [LimiterNext]_limiterVars
               PROVE  /\ [BucketLru!LruNext]_order
                      /\ \A c \in Clients : Check(c) => BucketLru!Store(c)
    OBVIOUS
  <2>1. CASE UNCHANGED limiterVars \/ Tick \/ OpenWindow
    BY <1>2, <2>1 DEF limiterVars, Tick, OpenWindow
  <2>2. ASSUME NEW c \in Clients, Check(c) PROVE BucketLru!LruNext
    BY <1>2, <2>2 DEF BucketLru!LruNext
  <2> QED
    BY <1>2, <2>1, <2>2 DEF LimiterNext
<1> QED
  BY <1>1, <1>3, TableStays, PTL DEF LimiterSpec, BucketsImplementLru, BucketLru!LruSpec
=============================================================================
