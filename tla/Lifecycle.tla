------------------------------ MODULE Lifecycle ------------------------------
(****************************************************************************)
(* The durable states of an outgoing message and the moves between them     *)
(* that Database.transition_message and Database.defer_message accept       *)
(* (src/js8mail/application/lifecycle.py, src/js8mail/storage.py).  Every   *)
(* other state change of the program is an UPDATE that bypasses this table: *)
(* MailService.retry and MailService.retry_now.                             *)
(****************************************************************************)

\* MessageState
States == {"draft", "queued", "waiting_route", "waiting_approval",
           "waiting_opportunity", "in_progress", "acknowledged", "stored",
           "delivered", "failed", "expired", "cancelled"}

\* TERMINAL_STATES
Terminal == {"stored", "delivered", "failed", "expired", "cancelled"}

\* What the discovery loop still works on.
Open == {"queued", "waiting_route", "in_progress"}

\* Mutant: a waiting message has no move to expired.
AllowedUnexpiring(current) ==
  CASE current = "queued"        -> {"waiting_route", "stored", "delivered", "cancelled"}
    [] current = "waiting_route" -> {"in_progress", "stored", "delivered", "failed",
                                     "cancelled"}
    [] current = "in_progress"   -> {"waiting_route", "acknowledged", "stored",
                                     "delivered", "failed", "cancelled"}
    [] OTHER                     -> {}

\* The table "allowed" of can_transition; the states without an entry have
\* no successor there.
Allowed(current) ==
  CASE current = "draft"            -> {"queued", "cancelled"}
    [] current = "queued"           -> {"waiting_route", "stored", "delivered",
                                        "cancelled", "expired"}
    [] current = "waiting_route"    -> {"waiting_approval", "waiting_opportunity",
                                        "in_progress", "stored", "delivered",
                                        "failed", "expired", "cancelled"}
    [] current = "waiting_approval" -> {"waiting_opportunity", "in_progress",
                                        "stored", "delivered", "cancelled",
                                        "expired"}
    [] current = "waiting_opportunity" -> {"in_progress", "stored", "delivered",
                                           "failed", "expired", "cancelled"}
    [] current = "in_progress"      -> {"waiting_route", "acknowledged", "stored",
                                        "delivered", "failed", "expired",
                                        "cancelled"}
    [] current = "acknowledged"     -> {"queued", "cancelled"}
    [] OTHER                        -> {}

\* can_transition: a stored message may still be promoted to delivered, a
\* terminal one makes no other move, and a move to the same state is a no-op.
CanTransition(current, target) ==
  \/ current = "stored" /\ target = "delivered"
  \/ current \in States \ Terminal /\ (current = target \/ target \in Allowed(current))

\* Mutant: the terminal states are forgotten.
CanDeferAny(current) == current \in States

\* The guard of defer_message.
CanDefer(current) ==
  current = "waiting_route" \/ CanTransition(current, "waiting_route")

=============================================================================
