------------------------------- MODULE Service -------------------------------
(***************************************************************************)
(* What a client is promised: every request gets at most one reply, and a  *)
(* reply that comes out of a cache was once given by the upstream, with a  *)
(* 2xx status, to a request body the proxy sent.                           *)
(***************************************************************************)
CONSTANTS
  Requests,
  Forms,
  Failures  \* the kinds of replies that are none

VARIABLES answered, given

Waiting == [kind |-> "none"]

Init == answered = {} /\ given = [r \in Requests |-> Waiting]

\* The upstream answers a body with a 2xx status.
Answer == \E f \in Forms : answered' = answered \cup {f}

Reply(r, reply) == given[r] = Waiting /\ given' = [given EXCEPT ![r] = reply]

Next ==
  \/ Answer /\ UNCHANGED given
  \/ \E r \in Requests :
       \/ \E f \in Forms :
            \/ /\ \E k \in {"fresh", "stream"} : Reply(r, [kind |-> k, of |-> f])
               /\ answered' \in {answered, answered \cup {f}}
            \/ /\ \E k \in {"l1", "l2"} : Reply(r, [kind |-> k, of |-> f])
               /\ f \in answered
               /\ UNCHANGED answered
       \/ \E k \in Failures \cup {"refused"} :
            Reply(r, [kind |-> k]) /\ UNCHANGED answered
       \/ \E k \in Failures : Reply(r, [kind |-> k]) /\ Answer

Spec == Init /\ [][Next]_<<answered, given>>
=============================================================================
