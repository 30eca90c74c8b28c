------------------------------ MODULE LruStore ------------------------------
(***************************************************************************)
(* What every bounded store of the proxy promises: at most Capacity keys,  *)
(* and when room is needed the key whose last access is oldest goes first. *)
(* The L1 response cache (SQLite rows ordered by a wall-clock column) and  *)
(* the rate limiter's bucket table (an OrderedDict) are shown to implement *)
(* it; order lists the keys held, least recently accessed first.           *)
(***************************************************************************)
EXTENDS Integers, SequencesExt

CONSTANTS Keys, Capacity

VARIABLE order

LruInit == order = <<>>

Suffix(s, n) == SubSeq(s, Len(s) - (IF n < Len(s) THEN n ELSE Len(s)) + 1, Len(s))

\* An access to a key already held makes it the most recent one.
Access(k) ==
  /\ k \in ToSet(order)
  /\ order' = Append(RemoveFirst(order, k), k)

\* Storing a key makes it the most recent one; the oldest beyond Capacity go.
Store(k) == order' = Suffix(Append(RemoveFirst(order, k), k), Capacity)

Clear == order' = <<>>

LruNext == Clear \/ \E k \in Keys : Access(k) \/ Store(k)

LruSpec == LruInit /\ [][LruNext]_order
=============================================================================
