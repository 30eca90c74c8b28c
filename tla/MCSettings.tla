----------------------------- MODULE MCSettings -----------------------------
(* RuntimeSettings on two flags and two engine sections. *)
EXTENDS RuntimeSettings

AllOff == [flag |-> [f \in Flags |-> FALSE],
           section |-> [s \in Sections |-> CHOOSE v \in Values : TRUE]]
=============================================================================
