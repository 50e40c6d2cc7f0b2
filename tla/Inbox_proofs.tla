---------------------------- MODULE Inbox_proofs ----------------------------
(****************************************************************************)
(* What holds of Inbox for every set of messages, every number of parts and *)
(* every capacity of the air: its type invariant, that every receipt names  *)
(* parts the recipient has on disk, that what was read stays read until it  *)
(* changes, and that Inbox implements Recipient.                            *)
(****************************************************************************)
EXTENDS Inbox, TLAPS

-----------------------------------------------------------------------------
(* The invariant. *)

\* The accumulator of a message is as yet unused, or has what is stored.
AccStored == \A m \in Msgs : acc[m] = {} \/ acc[m] = stored[m]

\* A DELIVERED names every part of its message.
Whole ==
  /\ \A m \in Msgs : /\ pending[m]["delivered"] \in {{}, Parts}
                     /\ batch[m]["delivered"] \in {{}, Parts}
  /\ \A f \in air : f.kind = "delivered" => f.parts = Parts

IInv == TypeOK /\ AccStored /\ Whole /\ ReceiptsHonest

\* The accumulator, read back where it is empty, is what is stored.
LEMMA RestoredIsStored ==
  ASSUME AccStored, NEW m \in Msgs
  PROVE  Restored(m) = stored[m]
BY DEF AccStored, Restored

\* What transmit sends is a part.
LEMMA NextPartType ==
  ASSUME NEW m \in Msgs
  PROVE  NextPart(m) \subseteq Parts
BY InboxAssumption DEF NextPart, Missing, Parts

\* What is in the air after a frame went out was there, or is the frame.
LEMMA Emitted ==
  ASSUME NEW f, Emit(f)
  PROVE  air' \subseteq air \cup {f}
BY DEF Emit

\* In the beginning nothing is known and nothing is confirmed.
LEMMA InitIInv == Init => IInv
BY DEF Init, IInv, TypeOK, AccStored, Whole, ReceiptsHonest, NoLimit, NoReplies,
       Replies

-----------------------------------------------------------------------------
(* The steps. *)

\* A data frame that goes out confirms nothing.
LEMMA DataIInv ==
  ASSUME IInv, NEW m \in Msgs, NEW p \in Parts, Emit(Data(m, p)),
         UNCHANGED <<stored, item, memory, sender>>
  PROVE  IInv'
<1>1. Data(m, p) \in Frame /\ Data(m, p).kind = "data"
  BY DEF Data, Frame
<1>2. \A f \in air' : f \in air \/ f = Data(m, p)
  BY Emitted
<1>3. TypeOK'
  BY <1>1, <1>2 DEF IInv, TypeOK, memory
<1>4. AccStored' /\ Whole'
  BY <1>1, <1>2 DEF IInv, AccStored, Whole, memory
<1>5. ReceiptsHonest'
  BY <1>1, <1>2 DEF IInv, ReceiptsHonest, memory, Replies
<1> QED BY <1>3, <1>4, <1>5 DEF IInv

\* The sender learns what a receipt names, which the recipient has.
LEMMA HearReceiptIInv ==
  ASSUME IInv, NEW f \in air, HearReceipt(f)
  PROVE  IInv'
<1>1. f \in Frame /\ f.msg \in Msgs /\ f.parts \subseteq Parts
  BY DEF IInv, TypeOK, Frame
<1>2. f.parts \subseteq stored[f.msg] /\ stored[f.msg] \subseteq Parts
  BY <1>1 DEF IInv, TypeOK, ReceiptsHonest, HearReceipt
<1>3. f.kind = "delivered" => stored[f.msg] = Parts
  BY <1>2 DEF IInv, Whole
<1> DEFINE old == sender[f.msg]
           new == Informed(old, f)
<1>8. /\ old \in [confirmed : SUBSET Parts, done : BOOLEAN]
      /\ old.confirmed \subseteq stored[f.msg]
      /\ old.done => stored[f.msg] = Parts
  BY <1>1 DEF IInv, TypeOK, ReceiptsHonest
<1>9. /\ new \in [confirmed : SUBSET Parts, done : BOOLEAN]
      /\ new.confirmed \subseteq stored[f.msg]
      /\ new.done => stored[f.msg] = Parts
  BY <1>1, <1>2, <1>3, <1>8 DEF Informed
<1>10. sender' = [sender EXCEPT ![f.msg] = new]
  BY DEF HearReceipt
<1> HIDE DEF new
<1>4. TypeOK'
  BY <1>1, <1>9, <1>10 DEF IInv, TypeOK, HearReceipt, memory
<1>5. AccStored' /\ Whole'
  BY DEF IInv, AccStored, Whole, HearReceipt, memory
<1>6. ASSUME NEW m \in Msgs
      PROVE  /\ sender'[m].confirmed \subseteq stored[m]
             /\ sender'[m].done => stored[m] = Parts
  BY <1>9, <1>10 DEF IInv, TypeOK, ReceiptsHonest
<1>7. ReceiptsHonest'
  BY <1>6 DEF IInv, ReceiptsHonest, HearReceipt, memory
<1> QED BY <1>4, <1>5, <1>7 DEF IInv

\* The answer to a part is queued and names what is stored by then.
LEMMA AnswerQueues ==
  ASSUME IInv, NEW m \in Msgs, NEW parts \in SUBSET Parts, Answer(m, parts)
  PROVE  /\ limit' \in [Msgs -> [acked : SUBSET Parts, rested : BOOLEAN]]
         /\ pending' \in [Msgs -> [Replies -> SUBSET Parts]]
         /\ \A n \in Msgs, k \in Replies :
              pending'[n][k] = pending[n][k] \/ (n = m /\ pending'[n][k] = parts)
         /\ \A n \in Msgs : pending'[n]["delivered"] \in {{}, Parts}
<1>1. limit' \in [Msgs -> [acked : SUBSET Parts, rested : BOOLEAN]]
  <2>1. [acked |-> parts, rested |-> FALSE] \in [acked : SUBSET Parts, rested : BOOLEAN]
    OBVIOUS
  <2>2. \/ limit' = limit
        \/ limit' = [limit EXCEPT ![m] = [acked |-> parts, rested |-> FALSE]]
    BY DEF Answer
  <2> QED BY <2>1, <2>2 DEF IInv, TypeOK
<1>2. CASE parts = Parts /\ Queue(m, "delivered", parts)
  BY <1>1, <1>2 DEF IInv, TypeOK, Whole, Queue, Replies
<1>3. CASE Queue(m, "part_ack", parts)
  BY <1>1, <1>3 DEF IInv, TypeOK, Whole, Queue, Replies
<1>4. CASE UNCHANGED pending
  BY <1>1, <1>4 DEF IInv, TypeOK, Whole
<1> QED BY <1>2, <1>3, <1>4 DEF Answer

\* A part is kept for good, shown, and acknowledged with all there is.
LEMMA HearPartIInv ==
  ASSUME IInv, NEW m \in Msgs, NEW p \in Parts, HearPart(m, p)
  PROVE  IInv'
<1> DEFINE parts == stored[m] \cup {p}
<1>1. parts \in SUBSET Parts /\ stored' = [stored EXCEPT ![m] = parts]
  BY DEF IInv, TypeOK, HearPart, Kept
<1>2. Answer(m, parts) /\ acc' = [acc EXCEPT ![m] = parts]
      /\ item' = [item EXCEPT ![m] = Upserted(item[m], parts)]
  BY RestoredIsStored DEF IInv, HearPart
<1>3. TypeOK'
  BY <1>1, <1>2, AnswerQueues DEF IInv, TypeOK, Upserted, HearPart
<1>4. AccStored'
  BY <1>1, <1>2 DEF IInv, TypeOK, AccStored
<1>5. Whole'
  BY <1>1, <1>2, AnswerQueues DEF IInv, Whole, HearPart
<1>6. \A n \in Msgs : stored[n] \subseteq stored'[n] /\ stored'[n] \subseteq Parts
  BY <1>1 DEF IInv, TypeOK
<1>7. ASSUME NEW n \in Msgs, NEW k \in Replies
      PROVE  pending'[n][k] \cup batch'[n][k] \subseteq stored'[n]
  <2>1. pending'[n][k] = pending[n][k] \/ (n = m /\ pending'[n][k] = parts)
    BY <1>1, <1>2, AnswerQueues
  <2>2. stored'[m] = parts
    BY <1>1 DEF IInv, TypeOK
  <2>3. batch' = batch /\ pending[n][k] \cup batch[n][k] \subseteq stored[n]
    BY DEF IInv, ReceiptsHonest, HearPart
  <2> QED BY <1>6, <2>1, <2>2, <2>3
<1>9. ASSUME NEW n \in Msgs
      PROVE  /\ sender'[n].confirmed \subseteq stored'[n]
             /\ sender'[n].done => stored'[n] = Parts
  BY <1>6 DEF IInv, ReceiptsHonest, HearPart
<1>10. ASSUME NEW n \in Msgs, NEW f \in air', f.kind \in Replies, f.msg = n
       PROVE  f.parts \subseteq stored'[n]
  BY <1>6, <1>10 DEF IInv, ReceiptsHonest, HearPart
<1>8. ReceiptsHonest'
  BY <1>7, <1>9, <1>10 DEF ReceiptsHonest
<1> QED BY <1>3, <1>4, <1>5, <1>8 DEF IInv

\* A restart forgets what is queued, and nothing that is confirmed.
LEMMA FreshIInv ==
  ASSUME IInv, Crash \/ \E m \in Msgs, p \in Parts : CrashInHandler(m, p)
  PROVE  IInv'
<1>1. /\ stored' \in [Msgs -> SUBSET Parts]
      /\ \A n \in Msgs : stored[n] \subseteq stored'[n]
      /\ item' \in [Msgs -> [parts : SUBSET Parts, read : BOOLEAN]]
  <2>1. CASE Crash
    BY <2>1 DEF IInv, TypeOK, Crash
  <2>2. ASSUME NEW m \in Msgs, NEW p \in Parts, CrashInHandler(m, p)
        PROVE  /\ stored' \in [Msgs -> SUBSET Parts]
               /\ \A n \in Msgs : stored[n] \subseteq stored'[n]
               /\ item' \in [Msgs -> [parts : SUBSET Parts, read : BOOLEAN]]
    <3>1. stored' = [stored EXCEPT ![m] = stored[m] \cup {p}]
      BY <2>2 DEF CrashInHandler, Kept
    <3>2. Upserted(item[m], Restored(m) \cup {p}) \in [parts : SUBSET Parts, read : BOOLEAN]
      BY RestoredIsStored DEF IInv, TypeOK, Upserted
    <3>3. item' \in [Msgs -> [parts : SUBSET Parts, read : BOOLEAN]]
      BY <2>2, <3>2 DEF IInv, TypeOK, CrashInHandler
    <3> QED BY <3>1, <3>3 DEF IInv, TypeOK
  <2> QED BY <2>1, <2>2
<1>3. /\ acc' = [n \in Msgs |-> {}] /\ limit' = [n \in Msgs |-> NoLimit]
      /\ pending' = NoReplies /\ batch' = NoReplies
      /\ sender' = sender /\ air' = air
  BY DEF CrashInHandler, Crash, Fresh
<1>4. TypeOK'
  BY <1>1, <1>3 DEF IInv, TypeOK, NoLimit, NoReplies
<1>5. AccStored' /\ Whole'
  BY <1>3 DEF IInv, AccStored, Whole, NoReplies, Replies
<1>6. ASSUME NEW n \in Msgs
      PROVE  /\ sender'[n].confirmed \subseteq stored'[n]
             /\ sender'[n].done => stored'[n] = Parts
             /\ \A f \in air' : f.kind \in Replies /\ f.msg = n => f.parts \subseteq stored'[n]
  <2>1. stored[n] \subseteq stored'[n] /\ stored'[n] \subseteq Parts
    BY <1>1
  <2> QED BY <1>3, <2>1 DEF IInv, ReceiptsHonest
<1>7. ReceiptsHonest'
  BY <1>3, <1>6 DEF ReceiptsHonest, NoReplies
<1> QED BY <1>4, <1>5, <1>7 DEF IInv

\* The loop's list has what was queued.
LEMMA ListIInv ==
  ASSUME IInv, NEW due, ListReplies(due)
  PROVE  IInv'
<1>1. /\ batch' \in [Msgs -> [Replies -> SUBSET Parts]]
      /\ \A m \in Msgs, k \in Replies : batch'[m][k] \in {{}, pending[m][k]}
  BY DEF IInv, TypeOK, ListReplies
<1>2. TypeOK' /\ AccStored'
  BY <1>1 DEF IInv, TypeOK, AccStored, ListReplies
<1>3. Whole'
  BY <1>1 DEF IInv, Whole, ListReplies, Replies
<1>4. ReceiptsHonest'
  BY <1>1 DEF IInv, ReceiptsHonest, ListReplies
<1> QED BY <1>2, <1>3, <1>4 DEF IInv

\* A receipt goes out as the list has it.
LEMMA SentIInv ==
  ASSUME IInv, NEW m \in Msgs, NEW k \in Replies, Sent(m, k)
  PROVE  IInv'
<1> DEFINE f == Receipt(k, m, batch[m][k])
<1>1. /\ f.kind = k /\ f.msg = m /\ f.parts = batch[m][k]
      /\ f \in Frame
  BY DEF IInv, TypeOK, Receipt, Frame
<1>2. \A g \in air' : g \in air \/ g = f
  BY Emitted DEF Sent
<1>3. TypeOK' /\ AccStored'
  BY <1>1, <1>2 DEF IInv, TypeOK, AccStored, Sent
<1>4. /\ \A n \in Msgs, j \in Replies :
           /\ pending'[n][j] \in {{}, pending[n][j]}
           /\ batch'[n][j] \in {{}, batch[n][j]}
  BY DEF IInv, TypeOK, Sent
<1>5. Whole'
  <2>1. k = "delivered" => f.parts = Parts
    BY <1>1 DEF IInv, Whole, Sent
  <2>2. \A g \in air' : g.kind = "delivered" => g.parts = Parts
    BY <1>1, <1>2, <2>1 DEF IInv, Whole
  <2>3. \A n \in Msgs : /\ pending'[n]["delivered"] \in {{}, Parts}
                        /\ batch'[n]["delivered"] \in {{}, Parts}
    BY <1>4 DEF IInv, Whole, Replies
  <2> QED BY <2>2, <2>3 DEF Whole
<1>6. f.parts \subseteq stored[m]
  BY <1>1 DEF IInv, ReceiptsHonest
<1>7. ReceiptsHonest'
  BY <1>1, <1>2, <1>4, <1>6 DEF IInv, ReceiptsHonest, Sent
<1> QED BY <1>3, <1>5, <1>7 DEF IInv

\* A reply that was not sent is queued again as the list has it.
LEMMA NotSentIInv ==
  ASSUME IInv, NEW m \in Msgs, NEW k \in Replies, NotSent(m, k)
  PROVE  IInv'
<1>1. \A n \in Msgs, j \in Replies :
           /\ pending'[n][j] \in {batch[n][j], pending[n][j]}
           /\ batch'[n][j] \in {{}, batch[n][j]}
  BY DEF IInv, TypeOK, NotSent
<1>2. TypeOK' /\ AccStored'
  BY DEF IInv, TypeOK, AccStored, NotSent
<1>3. Whole'
  BY <1>1 DEF IInv, Whole, Replies, NotSent
<1>4. ReceiptsHonest'
  BY <1>1 DEF IInv, ReceiptsHonest, NotSent
<1> QED BY <1>2, <1>3, <1>4 DEF IInv

\* The operator, time and the air confirm nothing.
LEMMA RestIInv ==
  ASSUME IInv,
         \/ \E m \in Msgs : Rest(m) \/ Read(m) \/ Discard(m)
         \/ \E f \in air : Lose(f)
         \/ UNCHANGED vars
  PROVE  IInv'
<1>1. /\ UNCHANGED <<stored, acc, pending, batch, sender>>
      /\ air' \subseteq air
  BY DEF Rest, Read, Discard, Lose, vars, memory
<1>2. /\ limit' \in [Msgs -> [acked : SUBSET Parts, rested : BOOLEAN]]
      /\ item' \in [Msgs -> [parts : SUBSET Parts, read : BOOLEAN]]
  <2>1. CASE \E m \in Msgs : Rest(m)
    BY <2>1, ZenonT(40) DEF IInv, TypeOK, Rest
  <2>2. CASE \E m \in Msgs : Read(m) \/ Discard(m)
    <3>1. PICK m \in Msgs : \/ item' = [item EXCEPT ![m].read = TRUE]
                            \/ item' = [item EXCEPT ![m] = [parts |-> {}, read |-> FALSE]]
      BY <2>2 DEF Read, Discard
    <3>2. [item[m] EXCEPT !.read = TRUE] \in [parts : SUBSET Parts, read : BOOLEAN]
      BY ZenonT(40) DEF IInv, TypeOK
    <3>3. [parts |-> {}, read |-> FALSE] \in [parts : SUBSET Parts, read : BOOLEAN]
      OBVIOUS
    <3>4. limit' = limit
      BY <2>2 DEF Read, Discard, memory
    <3> QED BY <3>1, <3>2, <3>3, <3>4, ZenonT(40) DEF IInv, TypeOK
  <2>3. CASE (\E f \in air : Lose(f)) \/ UNCHANGED vars
    BY <2>3 DEF IInv, TypeOK, Lose, vars, memory
  <2> QED BY <2>1, <2>2, <2>3
<1>3. TypeOK' /\ AccStored' /\ Whole' /\ ReceiptsHonest'
  BY <1>1, <1>2 DEF IInv, TypeOK, AccStored, Whole, ReceiptsHonest
<1> QED BY <1>3 DEF IInv

\* Every step keeps the invariant.
LEMMA NextIInv == IInv /\ [Next]_vars => IInv'
<1> SUFFICES ASSUME IInv, [Next]_vars PROVE IInv'
  OBVIOUS
<1>1. ASSUME NEW m \in Msgs, Transmit(m) \/ \E p \in Parts : ServeRequest(m, p)
      PROVE  IInv'
  BY <1>1, NextPartType, DataIInv DEF Transmit, ServeRequest
<1>2. ASSUME NEW m \in Msgs, NEW p \in Parts, HearPart(m, p) \/ CrashInHandler(m, p)
      PROVE  IInv'
  BY <1>2, HearPartIInv, FreshIInv
<1>3. ASSUME NEW m \in Msgs, NEW k \in Replies, Sent(m, k) \/ NotSent(m, k)
      PROVE  IInv'
  BY <1>3, SentIInv, NotSentIInv
<1>4. ASSUME NEW due, ListReplies(due)
      PROVE  IInv'
  BY <1>4, ListIInv
<1>5. ASSUME NEW f \in air, HearReceipt(f)
      PROVE  IInv'
  BY <1>5, HearReceiptIInv
<1>6. CASE Crash
  BY <1>6, FreshIInv
<1> QED BY <1>1, <1>2, <1>3, <1>4, <1>5, <1>6, RestIInv DEF Next

\* The invariant holds for ever.
LEMMA IInvHolds == Spec => []IInv
BY InitIInv, NextIInv, PTL DEF Spec

\* The rows, the accumulators, the queue and the frames keep their types.
THEOREM InboxTypeCorrect == Spec => []TypeOK
<1>1. IInv => TypeOK
  BY DEF IInv
<1> QED BY <1>1, IInvHolds, PTL

\* No receipt names a part that is not on the recipient's disk, in whatever
\* order frames come and replies are replaced, and whenever it restarts.
THEOREM ReceiptsAlwaysHonest == Spec => []ReceiptsHonest
<1>1. IInv => ReceiptsHonest
  BY DEF IInv
<1> QED BY <1>1, IInvHolds, PTL

-----------------------------------------------------------------------------
(* The operator's reading. *)

\* The mark of an item that was read, and that is still there.
Unspoiled(old, new) ==
  old.read /\ new.parts # {} => (new.read <=> new.parts = old.parts)

\* What a part does to an item.
LEMMA UpsertedUnspoiled ==
  ASSUME NEW row \in [parts : SUBSET Parts, read : BOOLEAN], NEW parts \in SUBSET Parts
  PROVE  Unspoiled(row, Upserted(row, parts))
BY DEF Unspoiled, Upserted

\* Each step leaves the mark of every item as it was, or the item has changed.
LEMMA MarkStands ==
  ASSUME IInv, [Next]_vars, NEW n \in Msgs
  PROVE  Unspoiled(item[n], item'[n])
<1>1. item \in [Msgs -> [parts : SUBSET Parts, read : BOOLEAN]]
  BY DEF IInv, TypeOK
<1>2. ASSUME NEW m \in Msgs, NEW p \in Parts, HearPart(m, p) \/ CrashInHandler(m, p)
      PROVE  Unspoiled(item[n], item'[n])
  <2> DEFINE parts == Restored(m) \cup {p}
  <2>1. parts \in SUBSET Parts
    BY RestoredIsStored DEF IInv, TypeOK
  <2>2. item' = item \/ item' = [item EXCEPT ![m] = Upserted(item[m], parts)]
    BY <1>2 DEF HearPart, CrashInHandler
  <2>3. Unspoiled(item[m], Upserted(item[m], parts))
    BY <1>1, <2>1, UpsertedUnspoiled
  <2>4. Unspoiled(item[n], item[n])
    BY DEF Unspoiled
  <2> HIDE DEF parts
  <2> QED BY <1>1, <2>2, <2>3, <2>4
<1>3. ASSUME NEW m \in Msgs, Read(m) \/ Discard(m)
      PROVE  Unspoiled(item[n], item'[n])
  BY <1>1, <1>3 DEF Read, Discard, Unspoiled
<1>4. CASE item' = item
  BY <1>4 DEF Unspoiled
<1>5. CASE \/ \E m \in Msgs :
                \/ Transmit(m) \/ Rest(m)
                \/ \E p \in Parts : ServeRequest(m, p)
                \/ \E k \in Replies : Sent(m, k) \/ NotSent(m, k)
           \/ \E due \in SUBSET (Msgs \X Replies) : ListReplies(due)
           \/ \E f \in air : HearReceipt(f) \/ Lose(f)
           \/ Crash \/ UNCHANGED vars
  BY <1>4, <1>5 DEF Transmit, Rest, ServeRequest, Sent, NotSent, ListReplies,
                    HearReceipt, Lose, Crash, vars
<1> QED BY <1>2, <1>3, <1>5 DEF Next

\* What the operator has read stays read while it stays the same, and is new
\* again as soon as it has gained a part, across repeated parts, restarts
\* between the two rows, and receipts in any order (upsert_inbox_message).
THEOREM ReadingIsKept == Spec => ReadUntilChanged
<1>1. IInv /\ [Next]_vars =>
        [\A m \in Msgs : item[m].read /\ item'[m].parts # {} =>
           (item'[m].read <=> item'[m].parts = item[m].parts)]_vars
  BY MarkStands DEF Unspoiled
<1> QED BY <1>1, IInvHolds, PTL DEF Spec, ReadUntilChanged

-----------------------------------------------------------------------------
(* Inbox implements Recipient. *)

shownItem == [m \in Msgs |-> item[m].parts]

\* What is on its way after a frame went out was there, or is its receipt.
LEMMA ToldEmitted ==
  ASSUME NEW f, air' \subseteq air \cup {f}
  PROVE  told' \subseteq told \cup {<<f.msg, f.parts>>}
BY DEF told

\* A data frame adds no receipt.
LEMMA ToldFades ==
  ASSUME NEW f, air' \subseteq air \cup {f}, f.kind \notin Replies
  PROVE  told' \subseteq told
BY DEF told

\* A step that stores and shows nothing new is a loss of receipts.
LEMMA LoseStep ==
  ASSUME told' \subseteq told, stored' = stored, shownItem' = shownItem
  PROVE  R!Next
BY DEF R!Next, R!Lose, shownItem

\* A part that comes, also where the daemon dies over it, is a Take.
LEMMA TakeStep ==
  ASSUME IInv, NEW m \in Msgs, NEW p \in Parts, HearPart(m, p) \/ CrashInHandler(m, p)
  PROVE  R!Next
<1>1. /\ stored' = [stored EXCEPT ![m] = @ \cup {p}]
      /\ told' = told
  BY DEF HearPart, CrashInHandler, Kept, told
<1>2. stored'[m] = stored[m] \cup {p}
  BY <1>1 DEF IInv, TypeOK
<1>3. \/ item' = item
      \/ item' = [item EXCEPT ![m] = Upserted(item[m], stored'[m])]
  BY <1>2, RestoredIsStored DEF IInv, HearPart, CrashInHandler
<1>4. \/ shownItem' = shownItem
      \/ shownItem' = [shownItem EXCEPT ![m] = stored'[m]]
  <2>1. Upserted(item[m], stored'[m]).parts = stored'[m]
    BY DEF Upserted
  <2>2. CASE item' = item
    BY <2>2 DEF shownItem
  <2>3. CASE item' = [item EXCEPT ![m] = Upserted(item[m], stored'[m])]
    <3>1. \A n \in Msgs : item'[n].parts = IF n = m THEN stored'[m] ELSE item[n].parts
      BY <2>1, <2>3 DEF IInv, TypeOK
    <3> QED BY <3>1 DEF shownItem
  <2> QED BY <1>3, <2>2, <2>3
<1>5. R!Take(m, p)
  BY <1>1, <1>4 DEF R!Take, shownItem
<1> QED BY <1>5 DEF R!Next

\* A reply that is handed over is a Tell.
LEMMA TellStep ==
  ASSUME IInv, NEW m \in Msgs, NEW k \in Replies, Sent(m, k)
  PROVE  R!Next
<1> DEFINE r == batch[m][k]
<1>1. r \subseteq stored[m] /\ r \in SUBSET Parts
  BY DEF IInv, TypeOK, ReceiptsHonest
<1>2. air' \subseteq air \cup {Receipt(k, m, r)}
  BY Emitted DEF Sent
<1>3. told' \subseteq told \cup {<<m, r>>}
  <2>1. Receipt(k, m, r).msg = m /\ Receipt(k, m, r).parts = r
    BY DEF Receipt
  <2> HIDE DEF r
  <2> QED BY <1>2, <2>1, ToldEmitted
<1>4. UNCHANGED <<stored, shownItem>>
  BY DEF Sent, shownItem
<1>5. R!Tell(m, r)
  BY <1>1, <1>3, <1>4 DEF R!Tell, shownItem
<1> QED BY <1>1, <1>5 DEF R!Next

\* The operator's removal is a Discard.
LEMMA DiscardStep ==
  ASSUME IInv, NEW m \in Msgs, Discard(m)
  PROVE  R!Next
<1>1. shownItem' = [shownItem EXCEPT ![m] = {}]
  BY DEF IInv, TypeOK, Discard, shownItem
<1>2. UNCHANGED <<stored, told>>
  BY DEF Discard, told
<1> QED BY <1>1, <1>2 DEF R!Next, R!Discard, shownItem

\* Every step of Inbox is one of Recipient, or changes nothing of it.
LEMMA RecipientStep == IInv /\ [Next]_vars => [R!Next]_(R!vars)
<1> SUFFICES ASSUME IInv, [Next]_vars PROVE R!Next
  OBVIOUS
<1>1. ASSUME NEW m \in Msgs, NEW p \in Parts, HearPart(m, p) \/ CrashInHandler(m, p)
      PROVE  R!Next
  BY <1>1, TakeStep
<1>2. ASSUME NEW m \in Msgs, NEW k \in Replies, Sent(m, k)
      PROVE  R!Next
  BY <1>2, TellStep
<1>3. ASSUME NEW m \in Msgs, Discard(m)
      PROVE  R!Next
  BY <1>3, DiscardStep
<1>4. ASSUME NEW m \in Msgs, Transmit(m) \/ \E p \in Parts : ServeRequest(m, p)
      PROVE  R!Next
  <2>1. PICK p : Emit(Data(m, p))
    BY <1>4 DEF Transmit, ServeRequest
  <2>2. told' \subseteq told
    BY <2>1, Emitted, ToldFades DEF Data, Replies
  <2>3. UNCHANGED <<stored, shownItem>>
    BY <1>4 DEF Transmit, ServeRequest, shownItem
  <2> QED BY <2>2, <2>3, LoseStep
<1>5. ASSUME NEW m \in Msgs, Read(m)
      PROVE  R!Next
  <2>1. shownItem' = shownItem
    BY <1>5 DEF IInv, TypeOK, Read, shownItem
  <2> QED BY <1>5, <2>1, LoseStep DEF Read, told
<1>6. CASE \/ \E m \in Msgs : Rest(m) \/ \E k \in Replies : NotSent(m, k)
           \/ \E due \in SUBSET (Msgs \X Replies) : ListReplies(due)
           \/ \E f \in air : HearReceipt(f) \/ Lose(f)
           \/ Crash \/ UNCHANGED vars
  <2>1. UNCHANGED <<stored, item>> /\ air' \subseteq air
    BY <1>6 DEF Rest, NotSent, ListReplies, HearReceipt, Lose, Crash, vars
  <2>2. told' \subseteq told
    BY <2>1 DEF told
  <2> QED BY <2>1, <2>2, LoseStep DEF shownItem
<1> QED BY <1>1, <1>2, <1>3, <1>4, <1>5, <1>6 DEF Next

\* A station that runs this program is the recipient that Outbox expects at
\* the other end, however its memory is lost (handle, queue_protocol_reply).
THEOREM InboxIsRecipient == Spec => RecipientKept
<1>1. Init => R!Init
  BY DEF Init, R!Init, told
<1> QED BY <1>1, RecipientStep, IInvHolds, PTL DEF Spec, RecipientKept, R!Spec

=============================================================================
