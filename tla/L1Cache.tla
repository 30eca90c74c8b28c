------------------------------ MODULE L1Cache ------------------------------
(***************************************************************************)
(* The exact-match response cache (cache/l1.py): one SQLite table on an    *)
(* autocommit connection.  put() is two transactions, an INSERT OR REPLACE *)
(* and an eviction, so a storage error or the death of the process can     *)
(* fall between them; every sqlite3.Error is swallowed.  Rows are ordered  *)
(* by last_hit_at, a reading of time.time(), which may stand still or step *)
(* back.                                                                   *)
(***************************************************************************)
EXTENDS Integers, FiniteSets, Functions

CONSTANTS
  Keys,          \* cache keys (SHA-256 of the normalized payload)
  Responses,     \* responses a caller may offer to put()
  Storable,      \* those that are 2xx and no larger than max_body_bytes
  MaxEntries,    \* max_entries
  MaxClock,      \* bound: largest reading of time.time()
  MaxSkipped,    \* bound: evictions lost in a row to errors and crashes
  Monotonic,     \* TRUE when time.time() strictly increases between calls
  StorageFaults, \* TRUE when SQLite statements may fail and the process die
  Persistent     \* TRUE for a file-backed db_path, FALSE for ":memory:"

ASSUME L1Assumption ==
  /\ IsFiniteSet(Keys)
  /\ Storable \subseteq Responses
  /\ MaxEntries \in Nat
  /\ MaxClock \in Nat
  /\ MaxSkipped \in Nat
  /\ {Monotonic, StorageFaults, Persistent} \subseteq BOOLEAN

VARIABLES
  rows,     \* the table: key -> [resp, hit], hit being last_hit_at
  clock,    \* the last reading of time.time()
  pc,       \* "evict" between the two transactions of put(), else "idle"
  skipped   \* history: puts whose eviction was lost since the last one done

vars == <<rows, clock, pc, skipped>>

Rows == UNION {[D -> [resp : Storable, hit : 0..MaxClock]] : D \in SUBSET Keys}

L1Init ==
  /\ rows = [k \in {} |-> 0]
  /\ clock = 0
  /\ pc = "idle"
  /\ skipped = 0

\* t is what time.time() returns now.
Reads(t) ==
  /\ t \in 0..MaxClock
  /\ Monotonic => t = clock + 1
  /\ clock' = t

\* put() refuses everything but 2xx responses of at most max_body_bytes.
MayStore(r) == r \in Storable

\* Mutant: a hit that does not count as an access.
HitUnrecorded(k, t) == rows

\* The UPDATE of a hit: last_hit_at = now.
HitRecorded(k, t) == [rows EXCEPT ![k].hit = t]

\* Mutant: leaves one row too many behind.
ExcessOffByOne == Cardinality(DOMAIN rows) - MaxEntries - 1

\* How many rows _evict_if_over() has to delete.
Excess == Cardinality(DOMAIN rows) - MaxEntries

\* Mutant: DESC for ASC.
Newest(gone) ==
  /\ Cardinality(gone) = Excess
  /\ \A g \in gone, s \in DOMAIN rows \ gone : rows[g].hit >= rows[s].hit

\* The rows that ORDER BY last_hit_at ASC LIMIT Excess may select.
Oldest(gone) ==
  /\ Cardinality(gone) = Excess
  /\ \A g \in gone, s \in DOMAIN rows \ gone : rows[g].hit <= rows[s].hit

-----------------------------------------------------------------------------
\* get() returning None: no such row, a failed SELECT, undecodable headers.
GetMiss(k) ==
  /\ pc = "idle"
  /\ k \notin DOMAIN rows \/ StorageFaults
  /\ UNCHANGED vars

\* get() returning a response.
GetHit(k) ==
  /\ pc = "idle"
  /\ k \in DOMAIN rows
  /\ \E t \in 0..MaxClock : Reads(t) /\ rows' = HitRecorded(k, t)
  /\ UNCHANGED <<pc, skipped>>

\* get() returning a response whose UPDATE of last_hit_at failed.
GetHitUncounted(k) ==
  /\ pc = "idle"
  /\ k \in DOMAIN rows
  /\ StorageFaults
  /\ \E t \in 0..MaxClock : Reads(t)
  /\ UNCHANGED <<rows, pc, skipped>>

\* put() that stores nothing: the response is refused, or the INSERT fails.
PutNothing(r) ==
  /\ pc = "idle"
  /\ ~MayStore(r) \/ StorageFaults
  /\ UNCHANGED vars

\* The INSERT OR REPLACE of put(), committed on its own.
PutInsert(k, r) ==
  /\ pc = "idle"
  /\ MayStore(r)
  /\ \E t \in 0..MaxClock :
       /\ Reads(t)
       /\ rows' = [x \in DOMAIN rows \cup {k} |->
                     IF x = k THEN [resp |-> r, hit |-> t] ELSE rows[x]]
  /\ pc' = "evict"
  /\ UNCHANGED skipped

\* _evict_if_over(), the second transaction of put().
Evict ==
  /\ pc = "evict"
  /\ IF Excess <= 0
       THEN UNCHANGED rows
       ELSE \E gone \in SUBSET DOMAIN rows :
              /\ Oldest(gone)
              /\ rows' = Restrict(rows, DOMAIN rows \ gone)
  /\ pc' = "idle"
  /\ skipped' = 0
  /\ UNCHANGED clock

\* The COUNT or the DELETE of _evict_if_over() fails and is swallowed.
EvictFails ==
  /\ pc = "evict"
  /\ StorageFaults
  /\ skipped < MaxSkipped
  /\ pc' = "idle"
  /\ skipped' = skipped + 1
  /\ UNCHANGED <<rows, clock>>

\* clear() and purge().
Purge ==
  /\ pc = "idle"
  /\ \/ rows' = [k \in {} |-> 0]
     \/ StorageFaults /\ UNCHANGED rows
  /\ UNCHANGED <<clock, pc, skipped>>

\* The process stops, between any two transactions, and is started again.
Restart ==
  /\ StorageFaults \/ pc = "idle"
  /\ pc = "evict" => skipped < MaxSkipped
  /\ rows' = IF Persistent THEN rows ELSE [k \in {} |-> 0]
  /\ pc' = "idle"
  /\ skipped' = IF pc = "evict" THEN skipped + 1 ELSE skipped
  /\ UNCHANGED clock

L1Next ==
  \/ \E k \in Keys : GetMiss(k) \/ GetHit(k) \/ GetHitUncounted(k)
  \/ \E r \in Responses : PutNothing(r) \/ \E k \in Keys : PutInsert(k, r)
  \/ Evict
  \/ EvictFails
  \/ Purge
  \/ Restart

L1Spec == L1Init /\ [][L1Next]_vars

-----------------------------------------------------------------------------
\* Type invariant: rows hold only responses that put() may store.
TypeOK ==
  /\ rows \in Rows
  /\ clock \in 0..MaxClock
  /\ pc \in {"idle", "evict"}
  /\ skipped \in 0..MaxSkipped

\* Every eviction lost to an error or a crash between the two transactions of
\* put() costs at most one row over max_entries, and the next eviction that
\* completes pays all of them back: the table cannot creep past its bound.
Overshoot ==
  Cardinality(DOMAIN rows)
    <= MaxEntries + skipped + (IF pc = "evict" THEN 1 ELSE 0)
=============================================================================
