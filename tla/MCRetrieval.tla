---------------------------- MODULE MCRetrieval ----------------------------
(* Retrieval on a small instance: two messages at one station compete for   *)
(* its window, the third is at another one, so that the loop waits on       *)
(* behalf of one station while handlers answer for the other.               *)
EXTENDS Retrieval

CONSTANTS k1, k2, k3, c1, c2

MCAt == [k \in Keys |-> IF k = k3 THEN c2 ELSE c1]

=============================================================================
