------------------------------ MODULE MCOutbox ------------------------------
(* Outbox on small instances.  m1 goes to s1; m2 goes to s2 or, where it is  *)
(* a broadcast, to the group g.                                              *)
EXTENDS Outbox

CONSTANTS m1, m2, s1, s2, g, k1, u1

\* Every custodian may be offered every message.
MCKeepers == [m \in Msgs |-> Custodians]

MCDest == [m \in Msgs |-> IF m \in Broadcast THEN g ELSE IF m = m1 THEN s1 ELSE s2]

=============================================================================
