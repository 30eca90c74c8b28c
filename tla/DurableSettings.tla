--------------------------- MODULE DurableSettings ---------------------------
(***************************************************************************)
(* What the operator's settings promise across restarts: the durable copy  *)
(* is replaced whole, only by what is live at that moment, and a restart   *)
(* brings back the durable copy, or a configured start if there is         *)
(* none.  RuntimeSettings is shown to implement it.                        *)
(***************************************************************************)
CONSTANTS
  Snapshots,       \* everything that may be live
  Configurations,  \* what a process may start with when nothing was saved
  NoFile

VARIABLES live, durable, running

Init == live \in Configurations /\ durable = NoFile /\ running = TRUE

Change == running = TRUE /\ live' \in Snapshots /\ UNCHANGED <<durable, running>>

Commit == running = TRUE /\ durable' = live /\ UNCHANGED <<live, running>>

Stop == running = TRUE /\ running' = FALSE /\ UNCHANGED <<live, durable>>

Restart ==
  /\ running = FALSE /\ running' = TRUE
  /\ live' \in IF durable = NoFile THEN Configurations ELSE {durable}
  /\ UNCHANGED durable

Spec ==
  Init /\ [][Change \/ Commit \/ Stop \/ Restart]_<<live, durable, running>>
=============================================================================
