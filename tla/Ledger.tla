------------------------------- MODULE Ledger -------------------------------
(****************************************************************************)
(* The durable transmission transactions: one row per attempt to put a      *)
(* message on the air, created before JS8Call sees the text so that an ACK  *)
(* or a restart can be reconciled with the exact attempt                    *)
(* (src/js8mail/storage.py, table transmission_transactions).  Each         *)
(* operator is one UPDATE, applied to one row.                              *)
(****************************************************************************)
EXTENDS Integers

\* The statuses every "pending", "active" or "expire" query of the store
\* selects.
LiveStatus == {"queued", "tx_active", "awaiting_ack"}

TxStatus == LiveStatus \cup {"acknowledged", "unconfirmed", "timed_out"}

IsLive(row) == row.status \in LiveStatus

\* Mutant: the handoff is recorded whatever became of the row.
SubmittedAlways(row) == [row EXCEPT !.status = "awaiting_ack", !.submitted = TRUE]

\* mark_transmission_submitted
Submitted(row) ==
  IF row.status \in {"queued", "tx_active"}
  THEN [row EXCEPT !.status = "awaiting_ack", !.submitted = TRUE]
  ELSE row

\* mark_transmission_active_by_id
Activated(row) ==
  IF row.status \in {"queued", "awaiting_ack"}
  THEN [row EXCEPT !.status = "tx_active"]
  ELSE row

\* Mutant: an ACK that came before the end of the train is forgotten.
FinishedUnanswered(row) ==
  IF row.status \in LiveStatus \cup {"acknowledged"} /\ ~row.finished
  THEN [row EXCEPT !.finished = TRUE, !.status = "awaiting_ack"]
  ELSE row

\* finish_transmission: the response deadline is anchored here, once.
Finished(row) ==
  IF row.status \in LiveStatus \cup {"acknowledged"} /\ ~row.finished
  THEN [row EXCEPT !.finished = TRUE,
                   !.status = IF @ = "acknowledged" THEN @ ELSE "awaiting_ack"]
  ELSE row

\* complete_broadcast_transmission
BroadcastDone(row) ==
  IF IsLive(row)
  THEN [row EXCEPT !.status = "acknowledged", !.finished = TRUE]
  ELSE row

\* acknowledge_transmission: unconditional
Acknowledged(row) == [row EXCEPT !.status = "acknowledged"]

\* mark_transmission_unconfirmed
Unconfirmed(row) ==
  IF row.status \in LiveStatus \cup {"timed_out"}
  THEN [row EXCEPT !.status = "unconfirmed"]
  ELSE row

\* Mutant: a row whose end on the air was never seen is not taken.
ExpirableFinished(row) ==
  row.op # "group_broadcast" /\ row.status = "awaiting_ack" /\ row.finished

\* The rows expire_transmission_transactions takes once their time has come:
\* the response deadline of a finished transmission, or the half hour granted
\* to one whose end on the air was never seen.
Expirable(row) ==
  /\ row.op # "group_broadcast"
  /\ \/ row.status = "awaiting_ack" /\ row.finished
     \/ IsLive(row) /\ ~row.finished

\* expire_unfinished_broadcasts
ExpirableBroadcast(row) == row.op = "group_broadcast" /\ IsLive(row)

TimedOut(row) == [row EXCEPT !.status = "timed_out"]

=============================================================================
