------------------------------ MODULE MCGateway ------------------------------
(***************************************************************************)
(* Small worlds for Gateway.  long and terse are two wordings: lingua      *)
(* makes terse of long, and both normalize to keys of their own.  other    *)
(* names another model but embeds near terse.  sse asks for a stream, and  *)
(* list is a JSON array.                                                   *)
(***************************************************************************)
EXTENDS Gateway, TLC

CONSTANTS long, terse, other, sse, list, r1, r2, r3

Same == [f \in Forms |-> f]
LinguaMap == [f \in Forms |-> IF f = long THEN terse ELSE f]
Models == [f \in Forms |-> IF f = other THEN "m2" ELSE "m1"]
NearPairs ==
  {<<k, n>> \in Forms \X Forms : k = n \/ {k, n} = {terse, other}}

RequestSymmetry == Permutations(Requests)
=============================================================================
