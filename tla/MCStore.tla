------------------------------ MODULE MCStore -------------------------------
(* Store on a small instance: the event loop and two requests on one        *)
(* message.                                                                 *)
EXTENDS Store

CONSTANTS m1, r1, r2

=============================================================================
