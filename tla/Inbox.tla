-------------------------------- MODULE Inbox --------------------------------
(****************************************************************************)
(* A message in parts between two JS8Mail stations: the sender transmits    *)
(* what the recipient has not confirmed; the recipient stores the parts,    *)
(* shows what it has in its mailbox, and queues the receipts that its       *)
(* discovery loop sends.                                                    *)
(*                                                                          *)
(*   stored   rows of message_parts (incoming), and item, the row of        *)
(*            inbox_messages: its parts, none where there is no row         *)
(*   acc      the MultipartAccumulator of each message, and limit, what it  *)
(*            remembers of its last part receipt: both in memory            *)
(*   pending  pending_protocol_replies, in memory                           *)
(*   batch    what the discovery loop has still to send of the replies that *)
(*            were due when it took its list of them                        *)
(*   sender   what the sender knows: outgoing_part_progress and DELIVERED   *)
(*   air      frames on their way; one that is heard may be heard again     *)
(*                                                                          *)
(* A message is known by its sender and its MID.  A reply is the set of     *)
(* parts it names; DELIVERED names all.  Outbox has the sender's attempts   *)
(* and deadlines, of which nothing is said here.  A step is what the        *)
(* program does between two awaits.                                         *)
(****************************************************************************)
EXTENDS Naturals, FiniteSets

CONSTANTS
  Msgs,    \* messages in parts
  NParts,  \* parts of each
  MaxAir   \* bound: frames on their way

ASSUME InboxAssumption == NParts \in Nat \ {0} /\ MaxAir \in Nat \ {0}

VARIABLES stored, item, acc, limit, pending, batch, sender, air

memory == <<acc, limit, pending, batch>>
vars == <<stored, item, memory, sender, air>>

-----------------------------------------------------------------------------
Parts == 1..NParts
Replies == {"part_ack", "delivered"}

Frame == [kind : Replies \cup {"data"}, msg : Msgs, parts : SUBSET Parts]
Data(m, p) == [kind |-> "data", msg |-> m, parts |-> {p}]
Receipt(k, m, parts) == [kind |-> k, msg |-> m, parts |-> parts]

\* No part receipt was queued yet; no reply is queued.
NoLimit == [acked |-> {}, rested |-> TRUE]
NoReplies == [m \in Msgs |-> [k \in Replies |-> {}]]

TypeOK ==
  /\ stored \in [Msgs -> SUBSET Parts]
  /\ item \in [Msgs -> [parts : SUBSET Parts, read : BOOLEAN]]
  /\ acc \in [Msgs -> SUBSET Parts]
  /\ limit \in [Msgs -> [acked : SUBSET Parts, rested : BOOLEAN]]
  /\ pending \in [Msgs -> [Replies -> SUBSET Parts]]
  /\ batch \in [Msgs -> [Replies -> SUBSET Parts]]
  /\ sender \in [Msgs -> [confirmed : SUBSET Parts, done : BOOLEAN]]
  /\ air \subseteq Frame

Fresh ==
  /\ acc' = [m \in Msgs |-> {}]
  /\ limit' = [m \in Msgs |-> NoLimit]
  /\ pending' = NoReplies
  /\ batch' = NoReplies

Init ==
  /\ stored = [m \in Msgs |-> {}]
  /\ item = [m \in Msgs |-> [parts |-> {}, read |-> FALSE]]
  /\ acc = [m \in Msgs |-> {}]
  /\ limit = [m \in Msgs |-> NoLimit]
  /\ pending = NoReplies
  /\ batch = NoReplies
  /\ sender = [m \in Msgs |-> [confirmed |-> {}, done |-> FALSE]]
  /\ air = {}

\* A frame goes out, and may take the place of older ones.
Emit(f) ==
  \E kept \in SUBSET air : Cardinality(kept) < MaxAir /\ air' = kept \cup {f}

-----------------------------------------------------------------------------
(* The sender. *)

Missing(m) == Parts \ sender[m].confirmed

\* Mutant: the part is chosen by its index in the list.
NextPartByIndex(m) ==
  IF Missing(m) = {} THEN {NParts}
  ELSE {p + 1 : p \in {p \in Missing(m) : \A q \in Missing(m) : p <= q}}

\* The first missing part; after a full receipt, the last one once more.
NextPart(m) ==
  IF Missing(m) = {} THEN {NParts}
  ELSE {p \in Missing(m) : \A q \in Missing(m) : p <= q}

\* An attempt of the outbox.
Transmit(m) ==
  /\ ~sender[m].done
  /\ \E p \in NextPart(m) : Emit(Data(m, p))
  /\ UNCHANGED <<stored, item, memory, sender>>

\* The answer to a REQ, which this program serves and never sends.
ServeRequest(m, p) ==
  /\ Emit(Data(m, p))
  /\ UNCHANGED <<stored, item, memory, sender>>

\* merge_outgoing_part_receipt, or the transition to delivered.
Informed(row, f) ==
  IF f.kind = "delivered" THEN [row EXCEPT !.done = TRUE]
  ELSE [row EXCEPT !.confirmed = @ \cup f.parts]

HearReceipt(f) ==
  /\ f \in air /\ f.kind \in Replies
  /\ sender' = [sender EXCEPT ![f.msg] = Informed(@, f)]
  /\ UNCHANGED <<stored, item, memory, air>>

-----------------------------------------------------------------------------
(* The recipient's handler. *)

\* Mutant: the stored parts are not read back after a restart.
AccumulatorOnly(m) == acc[m]

Restored(m) == IF acc[m] = {} THEN stored[m] ELSE acc[m]

\* Mutant: the part that completes the message is only put into the item.
KeptWhilePartial(m, p) == IF Restored(m) \cup {p} = Parts THEN stored[m]
                          ELSE stored[m] \cup {p}

Kept(m, p) == stored[m] \cup {p}

\* Mutant: any copy makes the item new again.
UpsertedUnread(row, parts) == [parts |-> parts, read |-> FALSE]

\* upsert_inbox_message: an item whose content changes is unread again.
Upserted(row, parts) == [parts |-> parts, read |-> row.read /\ row.parts = parts]

\* Mutant: a part receipt is queued once for each set of parts.
AckOnce(m, parts) == parts # limit[m].acked

\* The limit of the rate is not renewed by a repeated receipt.
ShouldAck(m, parts) == parts # limit[m].acked \/ limit[m].rested

\* queue_protocol_reply: a newer bitmap replaces one that was not sent, a
\* DELIVERED stays as it is.
Queue(m, k, parts) ==
  pending' = [pending EXCEPT ![m][k] = IF k = "delivered" /\ @ # {} THEN @ ELSE parts]

Answer(m, parts) ==
  \/ /\ parts = Parts
     /\ Queue(m, "delivered", parts)
     /\ UNCHANGED limit
  \/ /\ parts # Parts /\ ShouldAck(m, parts)
     /\ Queue(m, "part_ack", parts)
     /\ limit' = IF parts = limit[m].acked THEN limit
                 ELSE [limit EXCEPT ![m] = [acked |-> parts, rested |-> FALSE]]
  \/ /\ parts # Parts /\ ~ShouldAck(m, parts)
     /\ UNCHANGED <<pending, limit>>

HearPart(m, p) ==
  LET parts == Restored(m) \cup {p}
  IN  /\ Data(m, p) \in air
      /\ acc' = [acc EXCEPT ![m] = parts]
      /\ stored' = [stored EXCEPT ![m] = Kept(m, p)]
      /\ item' = [item EXCEPT ![m] = Upserted(@, parts)]
      /\ Answer(m, parts)
      /\ UNCHANGED <<batch, sender, air>>

\* The daemon dies between the two rows, or after them.
CrashInHandler(m, p) ==
  /\ Data(m, p) \in air
  /\ stored' = [stored EXCEPT ![m] = Kept(m, p)]
  /\ \/ UNCHANGED item
     \/ item' = [item EXCEPT ![m] = Upserted(@, Restored(m) \cup {p})]
  /\ Fresh
  /\ UNCHANGED <<sender, air>>

Crash == Fresh /\ UNCHANGED <<stored, item, sender, air>>

-----------------------------------------------------------------------------
(* The recipient's replies. *)

\* The thirty seconds after the last part receipt of other parts are over.
Rest(m) ==
  /\ ~limit[m].rested
  /\ limit' = [limit EXCEPT ![m].rested = TRUE]
  /\ UNCHANGED <<stored, item, acc, pending, batch, sender, air>>

\* The loop takes its list of those that are due: what is queued later is not
\* in it.
ListReplies(due) ==
  /\ batch = NoReplies
  /\ batch' = [m \in Msgs |-> [k \in Replies |->
                 IF <<m, k>> \in due THEN pending[m][k] ELSE {}]]
  /\ UNCHANGED <<stored, item, acc, limit, pending, sender, air>>

\* send_rf has handed the text of the list to JS8Call.  The entry is removed,
\* also where another text has replaced it meanwhile.
Sent(m, k) ==
  /\ batch[m][k] # {}
  /\ Emit(Receipt(k, m, batch[m][k]))
  /\ pending' = [pending EXCEPT ![m][k] = {}]
  /\ batch' = [batch EXCEPT ![m][k] = {}]
  /\ UNCHANGED <<stored, item, acc, limit, sender>>

\* It has not: the text of the list is put back, for thirty seconds.
NotSent(m, k) ==
  /\ batch[m][k] # {}
  /\ pending' = [pending EXCEPT ![m][k] = batch[m][k]]
  /\ batch' = [batch EXCEPT ![m][k] = {}]
  /\ UNCHANGED <<stored, item, acc, limit, sender, air>>

-----------------------------------------------------------------------------
(* The operator of the recipient, and the air. *)

Read(m) ==
  /\ item[m].parts # {}
  /\ item' = [item EXCEPT ![m].read = TRUE]
  /\ UNCHANGED <<stored, memory, sender, air>>

Discard(m) ==
  /\ item[m].parts # {}
  /\ item' = [item EXCEPT ![m] = [parts |-> {}, read |-> FALSE]]
  /\ UNCHANGED <<stored, memory, sender, air>>

Lose(f) ==
  /\ f \in air
  /\ air' = air \ {f}
  /\ UNCHANGED <<stored, item, memory, sender>>

Next ==
  \/ \E m \in Msgs :
       \/ Transmit(m) \/ Rest(m) \/ Read(m) \/ Discard(m)
       \/ \E p \in Parts : ServeRequest(m, p) \/ HearPart(m, p) \/ CrashInHandler(m, p)
       \/ \E k \in Replies : Sent(m, k) \/ NotSent(m, k)
  \/ \E due \in SUBSET (Msgs \X Replies) : ListReplies(due)
  \/ \E f \in air : HearReceipt(f) \/ Lose(f)
  \/ Crash

Spec == Init /\ [][Next]_vars

\* The sender's outbox, or its operator, tries again; frames that are sent again
\* and again are heard at last; the recipient's loop runs, and a restart does
\* not come every time before it.
Persistence ==
  \A m \in Msgs :
    LET waits == pending[m] # [k \in Replies |-> {}]
    IN /\ WF_vars(Transmit(m)) /\ WF_vars(Rest(m))
       /\ SF_vars(\E p \in NextPart(m) : HearPart(m, p))
       /\ SF_vars(waits /\ ListReplies(Msgs \X Replies))
       /\ SF_vars(\E k \in Replies : Sent(m, k))
       /\ SF_vars(\E f \in air : f.msg = m /\ HearReceipt(f))

PersistentSpec == Spec /\ Persistence

-----------------------------------------------------------------------------
(* Properties. *)

\* A receipt, wherever it is, names only parts that the recipient has on disk,
\* and a message the sender holds for delivered is there in full: whatever is
\* lost, repeated or restarted, no part is confirmed and then forgotten
\* (handle, upsert_message_part, pending_protocol_replies).
ReceiptsHonest ==
  \A m \in Msgs :
    /\ \A k \in Replies :
         /\ pending[m][k] \cup batch[m][k] \subseteq stored[m]
         /\ \A f \in air : f.kind = k /\ f.msg = m => f.parts \subseteq stored[m]
    /\ sender[m].confirmed \subseteq stored[m]
    /\ sender[m].done => stored[m] = Parts

\* "If a partial message later gains new parts, it becomes unread again"
\* (docs/USER_GUIDE.md:208), and nothing else undoes the operator's reading:
\* not a repeated part, not a restart.
ReadUntilChanged ==
  [][\A m \in Msgs :
       item[m].read /\ item'[m].parts # {} =>
         (item'[m].read <=> item'[m].parts = item[m].parts)]_vars

\* The recipient keeps what Outbox expects of other stations: what it has it
\* keeps, its mailbox never falls back from what it showed to less, and its
\* receipts are true (Recipient).
told == {<<f.msg, f.parts>> : f \in {g \in air : g.kind \in Replies}}
R == INSTANCE Recipient WITH got <- stored,
                             shown <- [m \in Msgs |-> item[m].parts]
RecipientKept == R!Spec

\* A sender that persists learns that its message was delivered, whatever is
\* lost and however often either side repeats itself or restarts
\* (should_ack, queue_protocol_reply, reconcile_part_receipt).
SenderLearns == \A m \in Msgs : <>sender[m].done

==============================================================================
