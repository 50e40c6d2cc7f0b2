------------------------------ MODULE MCInbox ------------------------------
(* Inbox on a small instance: two parts tell the first receipt from the     *)
(* delivery, three an older part receipt from a newer one.                  *)
EXTENDS Inbox

CONSTANT m1

=============================================================================
