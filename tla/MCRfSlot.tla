------------------------------ MODULE MCRfSlot ------------------------------
(* RfSlot on small instances: d1 and d2 are coroutines of the controller, d1 *)
(* sends for message m1 and d2 replies to a station; u1 is an HTTP request   *)
(* that sends for m1 too, under the lock and with the budgets of the handler *)
(* class.                                                                    *)
EXTENDS RfSlot

CONSTANTS d1, d2, u1, m1, ui

MCLock == [s \in Senders |-> IF s = u1 THEN ui ELSE Controller]
MCMsg == [s \in Senders |-> IF s = d2 THEN Nil ELSE m1]

=============================================================================
