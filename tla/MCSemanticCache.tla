--------------------------- MODULE MCSemanticCache ---------------------------
(* Three texts in a row, each near its neighbour, and one without shingles.  *)
EXTENDS SemanticCache

CONSTANTS ta, tb, tc, tz

MCTexts == {ta, tb, tc, tz}

MCCosine ==
  [s \in MCTexts |-> [t \in MCTexts |->
     IF tz \in {s, t} THEN 0
     ELSE IF s = t THEN 100
     ELSE IF tb \in {s, t} THEN 90
     ELSE -20]]
=============================================================================
