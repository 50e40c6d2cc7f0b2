---------------------------- MODULE RfSlot_proofs ----------------------------
(****************************************************************************)
(* What holds of RfSlot for every set of coroutines, locks and messages and *)
(* every limit: its type invariant, that a train which ended has its settle *)
(* task, that the coroutines of one lock never stack their texts, that the  *)
(* airtime limits hold where one object sends for a message, and that it    *)
(* implements Slot.                                                         *)
(****************************************************************************)
EXTENDS RfSlot, TLAPS

\* Whoever is past the queue is the first in the line of its lock.
LockHeld == \A s \in Senders : pc[s] \notin {"idle", "queued"} => HasLock(s)

\* Between the look at JS8Call's text and the handoff, no coroutine of the
\* same lock has a text there.
ClearIsClear ==
  \A s \in Senders : pc[s] = "clear" => \A t \in js.text : Lock[t] # Lock[s]

IInv == TypeOK /\ LockHeld /\ ClearIsClear /\ NoStacking

-----------------------------------------------------------------------------
(* What a step of a coroutine does to the queue. *)

\* Every coroutine has a lock.
LEMMA LockType == \A s \in Senders : Lock[s] \in Locks
BY DEF Locks

\* The first in line leaves: no other coroutine of that lock was past the queue.
LEMMA LeaveMoves ==
  ASSUME TypeOK, LockHeld, NEW s \in Senders, HasLock(s), Leave(s)
  PROVE  /\ pc' \in [Senders -> Awaits]
         /\ line' \in [Locks -> Seq(Senders)]
         /\ LockHeld'
<1>1. /\ pc \in [Senders -> Awaits] /\ line \in [Locks -> Seq(Senders)]
      /\ Lock[s] \in Locks
  BY LockType DEF TypeOK
<1>2. Tail(line[Lock[s]]) \in Seq(Senders)
  BY <1>1 DEF HasLock
<1>3. pc' \in [Senders -> Awaits]
  BY <1>1 DEF Leave, Awaits
<1>4. line' \in [Locks -> Seq(Senders)]
  BY <1>1, <1>2 DEF Leave
<1>5. ASSUME NEW t \in Senders, pc'[t] \notin {"idle", "queued"}
      PROVE  HasLock(t)'
  <2>1. t # s /\ pc[t] \notin {"idle", "queued"}
    BY <1>1, <1>5 DEF Leave
  <2>2. HasLock(t)
    BY <2>1 DEF LockHeld
  <2>3. Lock[t] # Lock[s]
    BY <2>1, <2>2 DEF HasLock
  <2>4. line'[Lock[t]] = line[Lock[t]]
    BY <1>1, <2>3, LockType DEF Leave
  <2> QED BY <2>2, <2>4 DEF HasLock
<1> QED BY <1>3, <1>4, <1>5 DEF LockHeld

\* The first in line goes on to another await.
Moves(s) == \E a \in Awaits : pc' = [pc EXCEPT ![s] = a] /\ line' = line

LEMMA MoveMoves ==
  ASSUME TypeOK, LockHeld, NEW s \in Senders, HasLock(s), Moves(s)
  PROVE  /\ pc' \in [Senders -> Awaits]
         /\ line' \in [Locks -> Seq(Senders)]
         /\ LockHeld'
<1>1. /\ pc \in [Senders -> Awaits] /\ line \in [Locks -> Seq(Senders)]
  BY DEF TypeOK
<1>2. PICK a \in Awaits : pc' = [pc EXCEPT ![s] = a] /\ line' = line
  BY DEF Moves
<1>3. ASSUME NEW t \in Senders, pc'[t] \notin {"idle", "queued"}
      PROVE  HasLock(t)'
  BY <1>1, <1>2, <1>3 DEF LockHeld, HasLock
<1> QED BY <1>1, <1>2, <1>3 DEF LockHeld

-----------------------------------------------------------------------------
(* The parts of TypeOK a step of a coroutine may write. *)

RestOK ==
  /\ status \in StatusType
  /\ train \in TrainType
  /\ gap \in BOOLEAN
  /\ budget \in BudgetType
  /\ stored \in StoredType
  /\ js \in JsType
  /\ handed \in [Locks -> [Msgs -> Nat]]
  /\ recent \in Nat

\* What every step of send_rf has in common: it is made by the holder of the
\* lock; the train and its mark in the status stay as they are; a coroutine is
\* "clear" only if it was, or if JS8Call holds no text; and JS8Call gets a
\* text only from one that was "clear".
Stays(s) ==
  /\ HasLock(s)
  /\ Leave(s) \/ Moves(s)
  /\ RestOK'
  /\ train' = train /\ status'.pending = status.pending
  /\ pc'[s] = "clear" => js.text = {}
  /\ \/ js' = js
     \/ /\ pc[s] = "clear" /\ pc'[s] = "idle"
        /\ js' = [js EXCEPT !.text = @ \cup {s}]

\* tx_message_id and tx_reserved_ms are written.
LEMMA OwnerType ==
  ASSUME NEW st \in StatusType, NEW o \in Msgs \cup {Nil}, NEW r \in 0..1
  PROVE  /\ [st EXCEPT !.owner = o, !.reserved = r] \in StatusType
         /\ [st EXCEPT !.owner = o, !.reserved = r].pending = st.pending
BY DEF StatusType

\* The exceptions before anything is spent.
LEMMA RefuseStays ==
  ASSUME TypeOK, NEW s \in Senders, HasLock(s), Refuse(s)
  PROVE  Stays(s)
<1>1. pc'[s] = "idle"
  BY DEF Refuse, Leave, TypeOK
<1>2. RestOK'
  BY DEF Refuse, RestOK, TypeOK
<1> QED BY <1>1, <1>2 DEF Refuse, Stays

\* Another await; "clear" after a look at an empty text.
LEMMA GotoStays ==
  ASSUME TypeOK, NEW s \in Senders, HasLock(s), NEW a \in Awaits, Goto(s, a),
         a = "clear" => js.text = {}
  PROVE  Stays(s)
<1>1. pc'[s] = a
  BY DEF Goto, TypeOK
<1>2. RestOK'
  BY DEF Goto, RestOK, TypeOK
<1>3. Moves(s)
  BY DEF Goto, Moves
<1> QED BY <1>1, <1>2, <1>3 DEF Goto, Stays

\* The reservation of the airtime.
LEMMA SpendStays ==
  ASSUME TypeOK, NEW s \in Senders, HasLock(s), Spend(s)
  PROVE  Stays(s)
<1>0. Msg[s] \in Msgs \cup {Nil} /\ Lock[s] \in Locks
  BY RfSlotAssumption, LockType
<1>1. Msg[s] # Nil => Used(s) \in Nat
  BY <1>0 DEF Used, TypeOK, BudgetType, StoredType
<1>2. budget' \in BudgetType
  <2>1. CASE Msg[s] = Nil
    BY <2>1 DEF Spend, TypeOK, BudgetType
  <2>2. CASE Msg[s] # Nil
    <3>1. [budget.own EXCEPT ![Lock[s]][Msg[s]] = Used(s) + 1] \in [Locks -> [Msgs -> Nat]]
      BY <1>0, <1>1, <2>2 DEF TypeOK, BudgetType, StoredType
    <3> QED BY <3>1, <2>2 DEF Spend, TypeOK, BudgetType
  <2> QED BY <2>1, <2>2
<1>3. stored' \in StoredType
  <2>1. CASE Msg[s] = Nil
    BY <2>1 DEF Spend, SavedSpending, TypeOK, BudgetType, StoredType
  <2>2. CASE Msg[s] # Nil
    <3>1. [stored.own EXCEPT ![Msg[s]] = Used(s) + 1] \in [Msgs -> Nat]
      BY <1>0, <1>1, <2>2 DEF TypeOK, BudgetType, StoredType
    <3> QED BY <3>1, <2>2 DEF Spend, SavedSpending, TypeOK, BudgetType, StoredType
  <2> QED BY <2>1, <2>2
<1>4. /\ status' \in StatusType
      /\ status'.pending = status.pending
  <2> DEFINE o == IF Msg[s] = Nil THEN status.owner ELSE Msg[s]
  <2>0. status \in StatusType /\ o \in Msgs \cup {Nil} /\ 0 \in 0..1 /\ 1 \in 0..1
    BY <1>0 DEF TypeOK, StatusType
  <2>1. CASE status' = Reserved(s)
    BY <2>0, <2>1, OwnerType, ZenonT(40) DEF Reserved
  <2>2. CASE status' = [status EXCEPT !.owner = Nil, !.reserved = 0, !.paused = TRUE]
    <3>1. [status EXCEPT !.owner = Nil, !.reserved = 0] \in StatusType
      BY <2>0, OwnerType
    <3>2. status' = [[status EXCEPT !.owner = Nil, !.reserved = 0] EXCEPT !.paused = TRUE]
      BY <2>0, <2>2 DEF StatusType
    <3> QED BY <2>0, <3>1, <3>2 DEF StatusType
  <2> QED BY <2>1, <2>2 DEF Spend
<1>5. RestOK'
  BY <1>2, <1>3, <1>4 DEF Spend, RestOK, TypeOK
<1>6. (Leave(s) \/ Moves(s)) /\ pc'[s] # "clear"
  BY DEF Spend, Leave, Moves, Awaits, TypeOK
<1> QED BY <1>4, <1>5, <1>6 DEF Spend, Stays

\* An exception of client.send_message.
LEMMA FailStays ==
  ASSUME TypeOK, NEW s \in Senders, HasLock(s), FailPreflight(s)
  PROVE  Stays(s)
<1>1. pc'[s] = "idle"
  BY DEF FailPreflight, Leave, TypeOK
<1>2. status \in StatusType /\ 0 \in 0..1
  BY DEF TypeOK
<1>3. status' \in StatusType /\ status'.pending = status.pending
  BY <1>2, OwnerType DEF FailPreflight
<1>4. RestOK'
  BY <1>3 DEF FailPreflight, RestOK, TypeOK
<1> QED BY <1>1, <1>3, <1>4 DEF FailPreflight, Stays

\* The second look at the slot.
LEMMA ReserveStays ==
  ASSUME TypeOK, NEW s \in Senders, HasLock(s), Reserve(s)
  PROVE  Stays(s)
BY RefuseStays, SpendStays DEF Reserve

\* After the wait for the transmitter.
LEMMA AfterTxStays ==
  ASSUME TypeOK, NEW s \in Senders, HasLock(s), AfterTx(s)
  PROVE  Stays(s)
<1>1. CASE Goto(s, "pacing")
  BY <1>1, GotoStays DEF Awaits
<1>2. CASE Reserve(s)
  BY <1>2, ReserveStays
<1> QED BY <1>1, <1>2 DEF AfterTx

\* After the wait for the train.
LEMMA AfterTrainStays ==
  ASSUME TypeOK, NEW s \in Senders, HasLock(s), AfterTrain(s)
  PROVE  Stays(s)
<1>1. CASE Refuse(s)
  BY <1>1, RefuseStays
<1>2. CASE Goto(s, "tx")
  BY <1>2, GotoStays DEF Awaits
<1>3. CASE AfterTx(s)
  BY <1>3, AfterTxStays
<1> QED BY <1>1, <1>2, <1>3 DEF AfterTrain

\* The handoff to JS8Call.
LEMMA HandStays ==
  ASSUME TypeOK, NEW s \in Senders, HasLock(s), Hand(s)
  PROVE  Stays(s)
<1>1. pc'[s] = "idle"
  BY DEF Hand, Leave, TypeOK
<1>2. js' \in JsType
  BY DEF Hand, TypeOK, JsType
<1>3. handed' \in [Locks -> [Msgs -> Nat]]
  <2>1. CASE Msg[s] = Nil
    BY <2>1 DEF Hand, TypeOK
  <2>2. CASE Msg[s] # Nil
    <3>1. Msg[s] \in Msgs /\ Lock[s] \in Locks
      BY <2>2, RfSlotAssumption, LockType
    <3>2. [handed EXCEPT ![Lock[s]][Msg[s]] = @ + 1] \in [Locks -> [Msgs -> Nat]]
      BY <3>1 DEF TypeOK
    <3> QED BY <3>2, <2>2 DEF Hand
  <2> QED BY <2>1, <2>2
<1>4. gap' \in BOOLEAN
  BY DEF Hand, TypeOK
<1>5. RestOK'
  BY <1>2, <1>3, <1>4 DEF Hand, RestOK, TypeOK
<1> QED BY <1>1, <1>5 DEF Hand, Stays

\* Every step of a coroutine.
LEMMA AdvanceStays ==
  ASSUME TypeOK, LockHeld, NEW s \in Senders, Advance(s)
  PROVE  Stays(s)
<1>1. CASE Enter(s)
  <2>1. HasLock(s)
    BY <1>1 DEF Enter
  <2>2. CASE Refuse(s)
    BY <2>1, <2>2, RefuseStays
  <2>3. CASE Goto(s, "train")
    BY <2>1, <2>3, GotoStays DEF Awaits
  <2>4. CASE AfterTrain(s)
    BY <2>1, <2>4, AfterTrainStays
  <2> QED BY <1>1, <2>2, <2>3, <2>4 DEF Enter
<1>2. CASE WakeTrain(s)
  <2>1. HasLock(s)
    BY <1>2 DEF WakeTrain, LockHeld
  <2> QED BY <1>2, <2>1, AfterTrainStays DEF WakeTrain
<1>3. CASE GiveUpTrain(s)
  <2>1. HasLock(s)
    BY <1>3 DEF GiveUpTrain, LockHeld
  <2> QED BY <1>3, <2>1, RefuseStays DEF GiveUpTrain
<1>4. CASE WakeTx(s)
  <2>1. HasLock(s)
    BY <1>4 DEF WakeTx, LockHeld
  <2> QED BY <1>4, <2>1, AfterTxStays DEF WakeTx
<1>5. CASE GiveUpTx(s)
  <2>1. HasLock(s)
    BY <1>5 DEF GiveUpTx, LockHeld
  <2> QED BY <1>5, <2>1, RefuseStays DEF GiveUpTx
<1>6. CASE WakePacing(s)
  <2>1. HasLock(s)
    BY <1>6 DEF WakePacing, LockHeld
  <2> QED BY <1>6, <2>1, ReserveStays DEF WakePacing
<1>7. CASE SeeNoText(s)
  <2>1. HasLock(s)
    BY <1>7 DEF SeeNoText, LockHeld
  <2> QED BY <1>7, <2>1, GotoStays DEF SeeNoText, Awaits
<1>8. CASE SeeText(s) \/ SeeBusy(s)
  <2>1. HasLock(s)
    BY <1>8 DEF SeeText, SeeBusy, LockHeld
  <2> QED BY <1>8, <2>1, FailStays DEF SeeText, SeeBusy
<1>9. CASE Hand(s)
  <2>1. HasLock(s)
    BY <1>9 DEF Hand, LockHeld
  <2> QED BY <1>9, <2>1, HandStays
<1> QED BY <1>1, <1>2, <1>3, <1>4, <1>5, <1>6, <1>7, <1>8, <1>9 DEF Advance

-----------------------------------------------------------------------------
(* The inductive invariant. *)

\* A status and a train of which nothing is known.
LEMMA NothingYet == NoStatus \in StatusType /\ NoTrain \in TrainType
<1>1. 0 \in 0..1
  OBVIOUS
<1> QED BY <1>1 DEF NoStatus, NoTrain, StatusType, TrainType

\* The initial state: nobody sends.
LEMMA InitIInv == Init => IInv
<1> SUFFICES ASSUME Init PROVE IInv
  OBVIOUS
<1>1. TypeOK
  <2>1. status \in StatusType /\ train \in TrainType
    BY NothingYet DEF Init
  <2>2. budget \in BudgetType /\ stored \in StoredType /\ handed \in [Locks -> [Msgs -> Nat]]
    BY DEF Init, BudgetType, StoredType, NoneUsed
  <2>3. js \in JsType
    BY DEF Init, JsType
  <2>4. pc \in [Senders -> Awaits] /\ line \in [Locks -> Seq(Senders)]
    BY DEF Init, Awaits
  <2> QED BY <2>1, <2>2, <2>3, <2>4 DEF Init, TypeOK
<1>2. LockHeld /\ ClearIsClear /\ NoStacking
  BY DEF Init, LockHeld, ClearIsClear, NoStacking
<1> QED BY <1>1, <1>2 DEF IInv

\* A coroutine's step: one that leaves the line, or goes on, keeps the lock
\* discipline; what JS8Call gets comes from one that had found it empty.
LEMMA AdvanceIInv ==
  ASSUME IInv, NEW s \in Senders, Advance(s)
  PROVE  IInv'
<1>0. TypeOK /\ LockHeld /\ ClearIsClear /\ NoStacking
  BY DEF IInv
<1>1. Stays(s)
  BY <1>0, AdvanceStays
<1>2. /\ pc' \in [Senders -> Awaits] /\ line' \in [Locks -> Seq(Senders)]
      /\ LockHeld'
  <2>1. CASE Leave(s)
    BY <1>0, <1>1, <2>1, LeaveMoves DEF Stays
  <2>2. CASE Moves(s)
    BY <1>0, <1>1, <2>2, MoveMoves DEF Stays
  <2> QED BY <1>1, <2>1, <2>2 DEF Stays
<1>3. TypeOK'
  BY <1>1, <1>2 DEF Stays, RestOK, TypeOK
<1>4. \A t \in Senders : t # s => pc'[t] = pc[t]
  BY <1>0, <1>1 DEF Stays, Leave, Moves, TypeOK
<1>5. ASSUME NEW t \in Senders, t # s, pc[t] = "clear" PROVE Lock[t] # Lock[s]
  BY <1>0, <1>1, <1>5 DEF Stays, LockHeld, HasLock
<1>6. CASE js' = js
  <2>1. ClearIsClear'
    BY <1>0, <1>1, <1>4, <1>6 DEF ClearIsClear, Stays
  <2>2. NoStacking'
    BY <1>0, <1>6 DEF NoStacking
  <2> QED BY <1>2, <1>3, <2>1, <2>2 DEF IInv
<1>7. CASE /\ pc[s] = "clear" /\ pc'[s] = "idle"
           /\ js' = [js EXCEPT !.text = @ \cup {s}]
  <2>0. js'.text = js.text \cup {s} /\ js.text \subseteq Senders
    BY <1>0, <1>7 DEF TypeOK, JsType
  <2>1. ClearIsClear'
    BY <1>0, <1>4, <1>5, <1>7, <2>0 DEF ClearIsClear
  <2>2. NoStacking'
    BY <1>0, <1>7, <2>0 DEF NoStacking, ClearIsClear
  <2> QED BY <1>2, <1>3, <2>1, <2>2 DEF IInv
<1> QED BY <1>1, <1>6, <1>7 DEF Stays

\* A coroutine joins the line of its lock.
LEMMA CallIInv ==
  ASSUME IInv, NEW s \in Senders, Call(s)
  PROVE  IInv'
<1>0. /\ TypeOK /\ LockHeld /\ ClearIsClear /\ NoStacking
      /\ Lock[s] \in Locks
      /\ pc \in [Senders -> Awaits] /\ line \in [Locks -> Seq(Senders)]
  BY LockType DEF IInv, TypeOK
<1>1. TypeOK'
  BY <1>0 DEF Call, TypeOK, Awaits
<1>2. ASSUME NEW t \in Senders, pc'[t] \notin {"idle", "queued"}
      PROVE  HasLock(t)'
  <2>1. HasLock(t)
    BY <1>0, <1>2 DEF Call, LockHeld
  <2>2. CASE Lock[t] = Lock[s]
    <3>1. line'[Lock[s]] = Append(line[Lock[s]], s)
      BY <1>0 DEF Call
    <3>2. line[Lock[s]] \in Seq(Senders) /\ line[Lock[s]] # <<>>
      BY <1>0, <2>1, <2>2 DEF HasLock
    <3>3. Append(line[Lock[s]], s) # <<>> /\ Head(Append(line[Lock[s]], s)) = Head(line[Lock[s]])
      BY <3>2
    <3> QED BY <2>1, <2>2, <3>1, <3>3 DEF HasLock
  <2>3. CASE Lock[t] # Lock[s]
    <3>1. line'[Lock[t]] = line[Lock[t]]
      BY <1>0, <2>3, LockType DEF Call
    <3> QED BY <2>1, <3>1 DEF HasLock
  <2> QED BY <2>2, <2>3
<1>3. ClearIsClear' /\ NoStacking'
  BY <1>0 DEF Call, ClearIsClear, NoStacking
<1> QED BY <1>1, <1>2, <1>3 DEF IInv, LockHeld

\* Steps that leave the line, and the texts JS8Call holds, or take texts away.
Rests ==
  /\ line' = line
  /\ \A s \in Senders : pc'[s] = pc[s] \/ (pc[s] = "pacing" /\ pc'[s] = "due")
  /\ js'.text \subseteq js.text

LEMMA RestsIInv ==
  ASSUME IInv, Rests, TypeOK'
  PROVE  IInv'
<1>1. LockHeld'
  BY DEF IInv, Rests, LockHeld, HasLock
<1>2. ClearIsClear'
  BY DEF IInv, Rests, ClearIsClear
<1>3. NoStacking'
  BY DEF IInv, Rests, NoStacking
<1> QED BY <1>1, <1>2, <1>3 DEF IInv

\* The extra airtime of a train.
LEMMA ExtraType == TypeOK => Extra \in Nat
BY DEF TypeOK, Extra, StatusType, TrainType

\* Waking the coroutines whose gap is over.
LEMMA WakeType ==
  ASSUME TypeOK,
         pc' = [s \in Senders |-> IF pc[s] = "pacing" THEN "due" ELSE pc[s]]
  PROVE  /\ pc' \in [Senders -> Awaits]
         /\ \A s \in Senders : pc'[s] = pc[s] \/ (pc[s] = "pacing" /\ pc'[s] = "due")
<1>1. pc \in [Senders -> Awaits]
  BY DEF TypeOK
<1>2. "due" \in Awaits
  BY DEF Awaits
<1> QED BY <1>1, <1>2

\* The end of a train.
LEMMA CompleteIInv ==
  ASSUME IInv, CompleteRfTrain
  PROVE  IInv'
<1>0. TypeOK /\ Controller \in Locks
  BY DEF IInv, Locks
<1> DEFINE m == status.owner
           known == m # Nil /\ budget.own[Controller][m] > 0
<1>1. Extra \in Nat
  BY <1>0, ExtraType
<1>2. budget' \in BudgetType
  <2>1. CASE known
    <3>1. m \in Msgs
      BY <1>0, <2>1 DEF TypeOK, StatusType
    <3>2. [budget.own EXCEPT ![Controller][m] = @ + Extra] \in [Locks -> [Msgs -> Nat]]
      BY <1>0, <1>1, <3>1 DEF TypeOK, BudgetType
    <3> QED BY <1>0, <1>1, <2>1, <3>2 DEF CompleteRfTrain, TypeOK, BudgetType, StoredType
  <2>2. CASE ~known
    BY <1>0, <1>1, <2>2 DEF CompleteRfTrain, TypeOK, BudgetType, StoredType
  <2> QED BY <2>1, <2>2
<1>3. stored' \in StoredType
  <2>1. CASE known
    <3>1. m \in Msgs
      BY <1>0, <2>1 DEF TypeOK, StatusType
    <3>2. budget'.own[Controller][m] \in Nat /\ budget'.window \in Nat
      BY <1>0, <1>2, <3>1 DEF BudgetType
    <3>3. [stored.own EXCEPT ![m] = budget'.own[Controller][m]] \in [Msgs -> Nat]
      BY <1>0, <3>2 DEF TypeOK, StoredType
    <3> QED BY <1>0, <2>1, <3>2, <3>3 DEF CompleteRfTrain, TypeOK, BudgetType, StoredType
  <2>2. CASE ~known
    BY <1>0, <1>2, <2>2 DEF CompleteRfTrain, TypeOK, BudgetType, StoredType
  <2> QED BY <2>1, <2>2
<1>4. pc' \in [Senders -> Awaits]
  BY <1>0, WakeType DEF CompleteRfTrain
<1>5. status' \in StatusType /\ train' \in TrainType
  <2>1. status \in StatusType /\ 0 \in 0..1
    BY <1>0 DEF TypeOK
  <2>2. [status EXCEPT !.owner = Nil, !.reserved = 0] \in StatusType
    BY <2>1, OwnerType
  <2>3. status' = [[status EXCEPT !.owner = Nil, !.reserved = 0]
                     EXCEPT !.pending = FALSE, !.rx = @ \ {"activity"}]
    BY <2>1 DEF CompleteRfTrain, StatusType
  <2>4. status' \in StatusType
    BY <2>2, <2>3 DEF StatusType
  <2> QED BY <2>4, NothingYet DEF CompleteRfTrain
<1>6. TypeOK'
  BY <1>0, <1>2, <1>3, <1>4, <1>5 DEF CompleteRfTrain, TypeOK
<1>7. Rests
  BY <1>0, WakeType DEF CompleteRfTrain, Rests
<1> QED BY <1>6, <1>7, RestsIInv

\* An event of JS8Call is handled.
LEMMA HearIInv ==
  ASSUME IInv, Hear
  PROVE  IInv'
<1>0. TypeOK
  BY DEF IInv
<1>1. js' \in JsType
  <2>1. Tail(js.news) \in Seq(Events)
    BY <1>0 DEF Hear, TypeOK, JsType
  <2> QED BY <1>0, <2>1 DEF Hear, TypeOK, JsType
<1>2. /\ status' \in StatusType
      /\ train' \in TrainType
  <2>1. CASE PttOn
    BY <1>0, <2>1 DEF PttOn, TypeOK, StatusType, TrainType
  <2>2. CASE PttOff
    <3>1. status' \in StatusType
      BY <1>0, <2>2 DEF PttOff, TypeOK, StatusType
    <3>2. train' \in TrainType
      <4>1. CASE train.saw /\ train.on
        <5>1. PICK n \in Nat : n = train.frames + 1
          BY <1>0 DEF TypeOK, TrainType
        <5>2. train' = [train EXCEPT !.on = FALSE, !.settle = TRUE, !.frames = n]
          BY <2>2, <4>1, <5>1 DEF PttOff
        <5> QED BY <1>0, <5>2 DEF TypeOK, TrainType
      <4>2. CASE train.saw /\ ~train.on
        <5>1. train' = [train EXCEPT !.on = FALSE, !.settle = TRUE, !.frames = @]
          BY <2>2, <4>2 DEF PttOff
        <5> QED BY <1>0, <5>1 DEF TypeOK, TrainType
      <4>3. CASE ~train.saw
        BY <1>0, <2>2, <4>3 DEF PttOff, TypeOK
      <4> QED BY <4>1, <4>2, <4>3
    <3> QED BY <3>1, <3>2
  <2>3. CASE TxFrame
    BY <1>0, <2>3 DEF TxFrame, TypeOK, StatusType, TrainType
  <2> QED BY <2>1, <2>2, <2>3 DEF Hear
<1>3. TypeOK'
  BY <1>0, <1>1, <1>2 DEF Hear, TypeOK
<1>4. Rests
  <2>1. js'.text = js.text
    BY <1>0 DEF Hear, TypeOK, JsType
  <2> QED BY <2>1 DEF Hear, Rests
<1> QED BY <1>3, <1>4, RestsIInv

\* Time and the operator.
LEMMA TimeIInv ==
  ASSUME IInv,
         \/ \E kind \in RxKinds : RxBegins(kind) \/ RxEnds(kind)
         \/ GapEnds \/ WindowPasses \/ PauseResume
  PROVE  IInv'
<1>0. TypeOK
  BY DEF IInv
<1>1. CASE \E kind \in RxKinds : RxBegins(kind) \/ RxEnds(kind)
  <2>1. status' \in StatusType
    <3>1. PICK kind \in RxKinds : RxBegins(kind) \/ RxEnds(kind)
      BY <1>1
    <3>2. CASE RxBegins(kind)
      BY <1>0, <3>2 DEF RxBegins, TypeOK, StatusType
    <3>3. CASE RxEnds(kind)
      BY <1>0, <3>3 DEF RxEnds, TypeOK, StatusType
    <3> QED BY <3>1, <3>2, <3>3
  <2>2. TypeOK'
    BY <1>0, <1>1, <2>1 DEF RxBegins, RxEnds, TypeOK
  <2>3. Rests
    BY <1>1 DEF RxBegins, RxEnds, Rests
  <2> QED BY <2>2, <2>3, RestsIInv
<1>2. CASE GapEnds
  <2>1. TypeOK'
    BY <1>0, <1>2, WakeType DEF GapEnds, TypeOK
  <2>2. Rests
    BY <1>0, <1>2, WakeType DEF GapEnds, Rests
  <2> QED BY <2>1, <2>2, RestsIInv
<1>3. CASE WindowPasses
  <2>1. budget' \in BudgetType /\ stored' \in StoredType
    BY <1>0, <1>3 DEF WindowPasses, TypeOK, BudgetType, StoredType
  <2>2. TypeOK'
    BY <1>0, <1>3, <2>1 DEF WindowPasses, TypeOK
  <2>3. Rests
    BY <1>3 DEF WindowPasses, Rests
  <2> QED BY <2>2, <2>3, RestsIInv
<1>4. CASE PauseResume
  <2>1. status' \in StatusType
    BY <1>0, <1>4 DEF PauseResume, TypeOK, StatusType
  <2>2. TypeOK'
    BY <1>0, <1>4, <2>1 DEF PauseResume, TypeOK
  <2>3. Rests
    BY <1>4 DEF PauseResume, Rests
  <2> QED BY <2>2, <2>3, RestsIInv
<1> QED BY <1>1, <1>2, <1>3, <1>4

\* The link.
LEMMA LinkIInv ==
  ASSUME IInv, LinkLost \/ LinkUp
  PROVE  IInv'
<1>0. TypeOK
  BY DEF IInv
<1>1. /\ js' \in JsType /\ js'.text = js.text
      /\ line' = line /\ pc' = pc
  <2>1. CASE LinkLost
    <3>1. <<>> \in Seq(Events)
      OBVIOUS
    <3> QED BY <1>0, <2>1, <3>1 DEF LinkLost, TypeOK, JsType
  <2>2. CASE LinkUp
    BY <1>0, <2>2 DEF LinkUp, daemon, TypeOK, JsType
  <2> QED BY <2>1, <2>2
<1>2. status' \in StatusType /\ train' \in TrainType
  <2>1. CASE LinkLost
    <3>1. 0 \in 0..1
      OBVIOUS
    <3>2. status' \in StatusType
      BY <1>0, <2>1, <3>1 DEF LinkLost, TypeOK, StatusType
    <3> QED BY <2>1, <3>2, NothingYet DEF LinkLost
  <2>2. CASE LinkUp
    BY <1>0, <2>2 DEF LinkUp, daemon, TypeOK
  <2> QED BY <2>1, <2>2
<1>3. TypeOK'
  BY <1>0, <1>1, <1>2 DEF LinkLost, LinkUp, daemon, TypeOK
<1>4. Rests
  BY <1>1 DEF Rests
<1> QED BY <1>3, <1>4, RestsIInv

\* A restart: everybody is idle, what JS8Call holds it keeps.
LEMMA CrashIInv ==
  ASSUME IInv, Crash
  PROVE  IInv'
<1>0. TypeOK /\ NoStacking
  BY DEF IInv
<1>1. TypeOK'
  <2>1. status' \in StatusType /\ train' \in TrainType
    BY NothingYet DEF Crash
  <2>2. budget' \in BudgetType
    BY <1>0 DEF Crash, TypeOK, BudgetType, StoredType, NoneUsed
  <2>5. handed' \in [Locks -> [Msgs -> Nat]]
    <3>1. Counted(handed) \in [Locks -> [Msgs -> Nat]]
      BY <1>0 DEF TypeOK, Counted
    <3> QED BY <3>1 DEF Crash
  <2>3. js' \in JsType
    <3>1. <<>> \in Seq(Events)
      OBVIOUS
    <3> QED BY <1>0, <3>1 DEF Crash, TypeOK, JsType
  <2>4. pc' \in [Senders -> Awaits] /\ line' \in [Locks -> Seq(Senders)]
    BY DEF Crash, Awaits
  <2> QED BY <1>0, <2>1, <2>2, <2>3, <2>4, <2>5 DEF Crash, TypeOK
<1>2. js'.text = js.text /\ \A s \in Senders : pc'[s] = "idle"
  BY <1>0 DEF Crash, TypeOK, JsType
<1>3. LockHeld' /\ ClearIsClear' /\ NoStacking'
  BY <1>0, <1>2 DEF LockHeld, ClearIsClear, NoStacking
<1> QED BY <1>1, <1>3 DEF IInv

\* JS8Call's own steps add no text.
LEMMA RadioIInv ==
  ASSUME IInv, KeyOn \/ KeyOff \/ StrayFrame
  PROVE  IInv'
<1>0. TypeOK
  BY DEF IInv
<1>1. ASSUME NEW news \in {<<"on">>, <<"frame", "on">>, <<"off">>, <<"off", "frame">>,
                           <<"frame">>}
      PROVE  Emits(news) \in Seq(Events)
  <2>1. news \in Seq(Events)
    BY <1>1 DEF Events
  <2>2. js.news \in Seq(Events)
    BY <1>0 DEF TypeOK, JsType
  <2> QED BY <2>1, <2>2 DEF Emits
<1>2. js' \in JsType /\ js'.text \subseteq js.text
  <2>1. CASE KeyOn
    <3>1. PICK news \in {<<"on">>, <<"frame", "on">>} :
            js' = [js EXCEPT !.keyed = TRUE, !.news = Emits(news)]
      BY <2>1 DEF KeyOn
    <3> QED BY <1>0, <1>1, <3>1 DEF TypeOK, JsType
  <2>2. CASE KeyOff
    <3>1. PICK news \in {<<"off">>, <<"off", "frame">>} :
            \E text \in {js.text, {}} :
              js' = [js EXCEPT !.keyed = FALSE, !.text = text, !.news = Emits(news)]
      BY <2>2 DEF KeyOff
    <3> QED BY <1>0, <1>1, <3>1 DEF TypeOK, JsType
  <2>3. CASE StrayFrame
    <3>1. js' = [js EXCEPT !.text = {}, !.news = Emits(<<"frame">>)]
      BY <2>3 DEF StrayFrame
    <3> QED BY <1>0, <1>1, <3>1 DEF TypeOK, JsType
  <2> QED BY <2>1, <2>2, <2>3
<1>3. UNCHANGED <<daemon, stored, handed, recent>>
  BY DEF KeyOn, KeyOff, StrayFrame
<1>4. TypeOK'
  BY <1>0, <1>2, <1>3 DEF daemon, TypeOK
<1>5. Rests
  BY <1>2, <1>3 DEF daemon, Rests
<1> QED BY <1>4, <1>5, RestsIInv

\* Every step keeps the invariant.
LEMMA NextIInv == IInv /\ [Next]_vars => IInv'
<1> SUFFICES ASSUME IInv, [Next]_vars PROVE IInv'
  OBVIOUS
<1>1. CASE \E s \in Senders : Call(s) \/ Advance(s)
  BY <1>1, CallIInv, AdvanceIInv
<1>2. CASE Hear \/ CompleteRfTrain
  BY <1>2, HearIInv, CompleteIInv
<1>3. CASE \/ \E kind \in RxKinds : RxBegins(kind) \/ RxEnds(kind)
           \/ GapEnds \/ WindowPasses \/ PauseResume
  BY <1>3, TimeIInv
<1>4. CASE LinkLost \/ LinkUp \/ Crash
  BY <1>4, LinkIInv, CrashIInv
<1>5. CASE KeyOn \/ KeyOff \/ StrayFrame
  BY <1>5, RadioIInv
<1>6. CASE UNCHANGED vars
  BY <1>6 DEF vars, daemon, IInv, TypeOK, LockHeld, HasLock, ClearIsClear, NoStacking
<1> QED BY <1>1, <1>2, <1>3, <1>4, <1>5, <1>6 DEF Next

\* The invariant holds for ever.
LEMMA IInvHolds == Spec => []IInv
BY InitIInv, NextIInv, PTL DEF Spec

\* The status, the budgets and their rows, the lines of the locks and what
\* JS8Call holds keep their types (send_rf, complete_rf_train, handle).
THEOREM SlotTypeCorrect == Spec => []TypeOK
<1>1. IInv => TypeOK
  BY DEF IInv
<1> QED BY <1>1, IInvHolds, PTL

\* The coroutines of one tx_lock never stack their texts in JS8Call, however
\* many there are and however the link drops and the daemon restarts
\* (_send_rf_serialized and Js8CallClient.send_message).
THEOREM TextsNeverStack == Spec => []NoStacking
<1>1. IInv => NoStacking
  BY DEF IInv
<1> QED BY <1>1, IInvHolds, PTL

-----------------------------------------------------------------------------
(* The settle task. *)

\* A train whose transmitter went off has its settle task; of a link that is
\* down no train is known.
Armed == status.pending /\ train.saw /\ ~train.on => train.settle

\* Every step keeps the settle task: the end of a train alone takes it away.
LEMMA NextArmed ==
  ASSUME TypeOK, LockHeld, Armed, [Next]_vars
  PROVE  Armed'
<1>1. ASSUME NEW s \in Senders, Call(s) \/ Advance(s)
      PROVE  Armed'
  <2>1. CASE Call(s)
    BY <2>1 DEF Call, Armed
  <2>2. CASE Advance(s)
    BY <2>2, AdvanceStays DEF Stays, Armed
  <2> QED BY <1>1, <2>1, <2>2
<1>2. CASE Hear
  <2>1. CASE PttOn
    BY <2>1 DEF PttOn, Armed, TypeOK, TrainType
  <2>2. CASE PttOff
    BY <2>2 DEF PttOff, Armed, TypeOK, TrainType
  <2>3. CASE TxFrame
    BY <2>3 DEF TxFrame, Armed, TypeOK, TrainType
  <2> QED BY <1>2, <2>1, <2>2, <2>3 DEF Hear
<1>3. CASE CompleteRfTrain
  BY <1>3 DEF CompleteRfTrain, Armed, NoTrain
<1>4. CASE \/ \E kind \in RxKinds : RxBegins(kind) \/ RxEnds(kind)
           \/ GapEnds \/ WindowPasses \/ PauseResume
  BY <1>4 DEF RxBegins, RxEnds, GapEnds, WindowPasses, PauseResume, Armed,
              TypeOK, StatusType
<1>5. CASE LinkLost \/ Crash
  BY <1>5 DEF LinkLost, Crash, NoTrain, Armed
<1>6. CASE LinkUp \/ KeyOn \/ KeyOff \/ StrayFrame
  BY <1>6 DEF LinkUp, KeyOn, KeyOff, StrayFrame, daemon, Armed
<1>7. CASE UNCHANGED vars
  BY <1>7 DEF vars, daemon, Armed
<1> QED BY <1>1, <1>2, <1>3, <1>4, <1>5, <1>6, <1>7 DEF Next

\* A train whose transmitter was heard to go off has its settle task, whatever
\* frames come late (the PTT and TX branches of handle, settle_rf_train).
THEOREM SettleAlwaysArmed == Spec => []SettleArmed
<1>1. Init => Armed
  BY DEF Init, Armed, NoTrain
<1>2. IInv /\ Armed /\ [Next]_vars => Armed'
  BY NextArmed DEF IInv
<1>3. Armed => SettleArmed
  BY DEF Armed, SettleArmed
<1> QED BY <1>1, <1>2, <1>3, IInvHolds, PTL DEF Spec

-----------------------------------------------------------------------------
(* The airtime limits. *)

\* The coroutines that have spent and may still hand their text over.
Spent(s) == pc[s] \in {"preflight", "clear"} /\ Msg[s] # Nil

\* Where one object only sends for a message, what it knows of the airtime is
\* what the row says.
AccountsAgree ==
  \A l \in Locks, m \in Msgs :
    OneAccount(m) /\ budget.own[l][m] # 0 =>
      /\ budget.own[l][m] = stored.own[m]
      /\ \E s \in Senders : Msg[s] = m /\ Lock[s] = l

\* The account that the texts of a lock are charged to.
Account(l, m) == IF OneAccount(m) THEN stored.own[m] ELSE budget.own[l][m]

\* Every text handed over has been charged to it, the one that is about to be
\* included.
Charged ==
  /\ \A l \in Locks, m \in Msgs :
       handed[l][m] <= Account(l, m) /\ handed[l][m] <= MessageLimit
  /\ \A s \in Senders : Spent(s) =>
       /\ handed[Lock[s]][Msg[s]] + 1 <= Account(Lock[s], Msg[s])
       /\ handed[Lock[s]][Msg[s]] + 1 <= MessageLimit

\* Every text of the window has been charged to it, in memory and in its row.
WindowCharged ==
  recent <= budget.window /\ recent <= stored.window /\ recent <= WindowLimit

Accounts == AccountsAgree /\ Charged /\ WindowCharged

\* Steps of a coroutine that spend nothing and hand nothing over.
Saves(s) ==
  /\ UNCHANGED <<budget, stored, js, handed, recent>>
  /\ pc'[s] \in {"preflight", "clear"} => pc[s] \in {"preflight", "clear"}

LEMMA RefuseSaves ==
  ASSUME TypeOK, NEW s \in Senders, Refuse(s) \/ FailPreflight(s)
  PROVE  Saves(s)
BY DEF Refuse, FailPreflight, Leave, Saves, TypeOK

LEMMA GotoSaves ==
  ASSUME TypeOK, NEW s \in Senders, NEW a \in Awaits, Goto(s, a),
         a \in {"preflight", "clear"} => pc[s] \in {"preflight", "clear"}
  PROVE  Saves(s)
BY DEF Goto, Saves, TypeOK

LEMMA AfterTxSaves ==
  ASSUME TypeOK, NEW s \in Senders, AfterTx(s)
  PROVE  Saves(s) \/ Spend(s)
<1>1. CASE Goto(s, "pacing")
  BY <1>1, GotoSaves DEF Awaits
<1>2. CASE Reserve(s)
  BY <1>2, RefuseSaves DEF Reserve
<1> QED BY <1>1, <1>2 DEF AfterTx

LEMMA AfterTrainSaves ==
  ASSUME TypeOK, NEW s \in Senders, AfterTrain(s)
  PROVE  Saves(s) \/ Spend(s)
<1>1. CASE Refuse(s)
  BY <1>1, RefuseSaves
<1>2. CASE Goto(s, "tx")
  BY <1>2, GotoSaves DEF Awaits
<1>3. CASE AfterTx(s)
  BY <1>3, AfterTxSaves
<1> QED BY <1>1, <1>2, <1>3 DEF AfterTrain

\* A step of a coroutine spends, hands over, or does neither.
LEMMA AdvanceSaves ==
  ASSUME TypeOK, NEW s \in Senders, Advance(s)
  PROVE  Saves(s) \/ Spend(s) \/ Hand(s)
<1>1. CASE Enter(s)
  <2>1. CASE Goto(s, "train")
    BY <2>1, GotoSaves DEF Awaits
  <2> QED BY <1>1, <2>1, RefuseSaves, AfterTrainSaves DEF Enter
<1>2. CASE WakeTrain(s) \/ GiveUpTrain(s)
  BY <1>2, RefuseSaves, AfterTrainSaves DEF WakeTrain, GiveUpTrain
<1>3. CASE WakeTx(s) \/ GiveUpTx(s)
  BY <1>3, RefuseSaves, AfterTxSaves DEF WakeTx, GiveUpTx
<1>4. CASE WakePacing(s)
  BY <1>4, RefuseSaves DEF WakePacing, Reserve
<1>5. CASE SeeNoText(s)
  BY <1>5, GotoSaves DEF SeeNoText, Awaits
<1>6. CASE SeeText(s) \/ SeeBusy(s)
  BY <1>6, RefuseSaves DEF SeeText, SeeBusy
<1> QED BY <1>1, <1>2, <1>3, <1>4, <1>5, <1>6 DEF Advance

\* Steps that leave the accounts alone, and let nobody spend.
Keeps ==
  /\ UNCHANGED <<budget, stored, handed, recent>>
  /\ \A s \in Senders : Spent(s)' => Spent(s)

LEMMA KeepsAccounts ==
  ASSUME Accounts, Keeps
  PROVE  Accounts'
BY DEF Accounts, AccountsAgree, Charged, Account, WindowCharged, Keeps

\* Two that have spent for one message do it under two locks.
LEMMA OtherSpent ==
  ASSUME LockHeld, NEW s \in Senders, NEW t \in Senders, HasLock(s), Spent(t), t # s,
         Msg[t] = Msg[s]
  PROVE  Lock[t] # Lock[s] /\ ~OneAccount(Msg[s])
<1>1. HasLock(t)
  BY DEF Spent, LockHeld
<1>2. Lock[t] # Lock[s]
  BY <1>1 DEF HasLock
<1> QED BY <1>2 DEF OneAccount

\* Spending: what the object knows agrees with the row it overwrites, and no
\* other coroutine of the lock is between its reservation and its handoff.
LEMMA SpendAccounts ==
  ASSUME TypeOK, LockHeld, Accounts, NEW s \in Senders, HasLock(s), Spend(s)
  PROVE  Accounts'
<1>0. /\ Lock[s] \in Locks /\ Msg[s] \in Msgs \cup {Nil}
      /\ pc \in [Senders -> Awaits] /\ budget \in BudgetType /\ stored \in StoredType
      /\ handed \in [Locks -> [Msgs -> Nat]] /\ recent \in Nat
      /\ WindowLimit \in Nat /\ MessageLimit \in Nat
  BY RfSlotAssumption, LockType DEF TypeOK
<1>1. WindowCharged'
  BY <1>0 DEF Accounts, WindowCharged, Spend, Affords, SavedSpending, BudgetType, StoredType
<1>2. ASSUME NEW t \in Senders, Spent(t)'
      PROVE  t = s \/ Spent(t)
  BY <1>0, <1>2 DEF Spend, Leave, Spent
<1>3. handed' = handed
  BY DEF Spend
<1>4. CASE Msg[s] = Nil
  <2>1. budget'.own = budget.own /\ stored'.own = stored.own
    BY <1>4 DEF Spend, SavedSpending
  <2>2. ASSUME NEW t \in Senders, Spent(t)' PROVE Spent(t)
    BY <1>2, <1>4, <2>2 DEF Spent
  <2>3. Charged'
    BY <1>3, <2>1, <2>2 DEF Accounts, Charged, Account
  <2>4. AccountsAgree'
    BY <2>1 DEF Accounts, AccountsAgree
  <2> QED BY <1>1, <2>3, <2>4 DEF Accounts
<1>5. CASE Msg[s] # Nil
  <2> DEFINE m == Msg[s]
             l == Lock[s]
             n0 == Used(s)
  <2>1. m \in Msgs /\ l \in Locks
    BY <1>0, <1>5
  <2>2. /\ n0 \in Nat /\ stored.own[m] \in Nat /\ budget.own[l][m] \in Nat
        /\ budget.own[l][m] <= n0
        /\ OneAccount(m) => n0 = stored.own[m]
    BY <1>0, <2>1 DEF Used, Accounts, AccountsAgree, StoredType, BudgetType
  <2>3. /\ stored'.own = [stored.own EXCEPT ![m] = n0 + 1]
        /\ budget'.own = [budget.own EXCEPT ![l][m] = n0 + 1]
        /\ n0 + 1 <= MessageLimit
    BY <1>5 DEF Spend, SavedSpending, Affords
  <2> HIDE DEF n0
  <2>4. /\ stored'.own[m] = n0 + 1
        /\ \A n \in Msgs : n # m => stored'.own[n] = stored.own[n]
        /\ budget'.own[l][m] = n0 + 1
        /\ \A k \in Locks, n \in Msgs :
             k # l \/ n # m => budget'.own[k][n] = budget.own[k][n]
    BY <1>0, <2>1, <2>2, <2>3 DEF BudgetType, StoredType
  <2>5. AccountsAgree'
    <3> SUFFICES ASSUME NEW k \in Locks, NEW n \in Msgs, OneAccount(n),
                        budget'.own[k][n] # 0
                 PROVE  /\ budget'.own[k][n] = stored'.own[n]
                        /\ \E t \in Senders : Msg[t] = n /\ Lock[t] = k
      BY DEF AccountsAgree
    <3>1. CASE n = m /\ k = l
      BY <2>4, <3>1
    <3>2. CASE n = m /\ k # l
      <4>1. budget.own[k][m] # 0
        BY <2>1, <2>4, <3>2
      <4>2. PICK t \in Senders : Msg[t] = m /\ Lock[t] = k
        BY <2>1, <3>2, <4>1 DEF Accounts, AccountsAgree
      <4>3. Lock[t] = Lock[s]
        BY <3>2, <4>2 DEF OneAccount
      <4> QED BY <3>2, <4>2, <4>3
    <3>3. CASE n # m
      BY <2>4, <3>3 DEF Accounts, AccountsAgree
    <3> QED BY <3>1, <3>2, <3>3
  <2>6. \A k \in Locks, n \in Msgs : Account(k, n) \in Nat /\ Account(k, n)' \in Nat
    BY <1>0, <2>1, <2>2, <2>4 DEF Account, BudgetType, StoredType
  <2>7. \A k \in Locks, n \in Msgs : Account(k, n) <= Account(k, n)'
    <3> SUFFICES ASSUME NEW k \in Locks, NEW n \in Msgs
                 PROVE  Account(k, n) <= Account(k, n)'
      OBVIOUS
    <3>1. CASE OneAccount(n)
      <4>1. Account(k, n) = stored.own[n] /\ Account(k, n)' = stored'.own[n]
        BY <3>1 DEF Account
      <4> QED BY <1>0, <2>1, <2>2, <2>4, <3>1, <4>1 DEF StoredType
    <3>2. CASE ~OneAccount(n)
      <4>1. Account(k, n) = budget.own[k][n] /\ Account(k, n)' = budget'.own[k][n]
        BY <3>2 DEF Account
      <4> QED BY <1>0, <2>1, <2>2, <2>4, <4>1 DEF BudgetType
    <3> QED BY <3>1, <3>2
  <2>8. handed[l][m] + 1 <= Account(l, m)' /\ handed[l][m] + 1 <= MessageLimit
    <3>1. handed[l][m] <= Account(l, m) /\ handed[l][m] \in Nat
      BY <1>0, <2>1 DEF Accounts, Charged
    <3>2. Account(l, m) <= n0 /\ Account(l, m)' = n0 + 1
      BY <2>2, <2>4 DEF Account
    <3> QED BY <1>0, <2>1, <2>2, <2>3, <2>6, <3>1, <3>2
  <2>9. Charged'
    <3>1. ASSUME NEW k \in Locks, NEW n \in Msgs
          PROVE  handed[k][n] <= Account(k, n)' /\ handed[k][n] <= MessageLimit
      <4>1. handed[k][n] <= Account(k, n) /\ handed[k][n] <= MessageLimit
            /\ handed[k][n] \in Nat
        BY <1>0, <3>1 DEF Accounts, Charged
      <4> QED BY <2>6, <2>7, <3>1, <4>1
    <3>2. ASSUME NEW t \in Senders, t # s, Spent(t)
          PROVE  /\ handed[Lock[t]][Msg[t]] + 1 <= Account(Lock[t], Msg[t])'
                 /\ handed[Lock[t]][Msg[t]] + 1 <= MessageLimit
      <4>1. Msg[t] \in Msgs /\ Lock[t] \in Locks
        BY <3>2, LockType, RfSlotAssumption DEF Spent
      <4>2. /\ handed[Lock[t]][Msg[t]] + 1 <= Account(Lock[t], Msg[t])
            /\ handed[Lock[t]][Msg[t]] + 1 <= MessageLimit
            /\ handed[Lock[t]][Msg[t]] \in Nat
        BY <1>0, <3>2, <4>1 DEF Accounts, Charged
      <4> QED BY <2>6, <2>7, <4>1, <4>2
    <3>3. ASSUME NEW t \in Senders, Spent(t)'
          PROVE  /\ handed[Lock[t]][Msg[t]] + 1 <= Account(Lock[t], Msg[t])'
                 /\ handed[Lock[t]][Msg[t]] + 1 <= MessageLimit
      BY <1>2, <2>8, <3>2, <3>3
    <3> QED BY <1>3, <3>1, <3>3 DEF Charged
  <2> QED BY <1>1, <2>5, <2>9 DEF Accounts
<1> QED BY <1>4, <1>5

\* The handoff: what it adds was charged by the reservation before it.
LEMMA HandAccounts ==
  ASSUME TypeOK, LockHeld, Accounts, NEW s \in Senders, Hand(s)
  PROVE  Accounts'
<1>0. /\ Msg[s] \in Msgs \cup {Nil} /\ Lock[s] \in Locks /\ pc \in [Senders -> Awaits]
      /\ handed \in [Locks -> [Msgs -> Nat]]
  BY RfSlotAssumption, LockType DEF TypeOK
<1>1. budget' = budget /\ stored' = stored /\ recent' = recent
  BY DEF Hand
<1>2. AccountsAgree' /\ WindowCharged'
  BY <1>1 DEF Accounts, AccountsAgree, WindowCharged
<1>3. ASSUME NEW t \in Senders, Spent(t)' PROVE t # s /\ Spent(t)
  BY <1>0, <1>3 DEF Hand, Leave, Spent
<1>6. \A k \in Locks, n \in Msgs : Account(k, n)' = Account(k, n)
  BY <1>1 DEF Account
<1>4. CASE Msg[s] = Nil
  BY <1>1, <1>2, <1>3, <1>4 DEF Hand, Accounts, Charged, Account
<1>5. CASE Msg[s] # Nil
  <2>1. HasLock(s) /\ Spent(s) /\ Msg[s] \in Msgs
    BY <1>0, <1>5 DEF Hand, LockHeld, Spent
  <2>2. /\ handed'[Lock[s]][Msg[s]] = handed[Lock[s]][Msg[s]] + 1
        /\ \A k \in Locks, n \in Msgs :
             k # Lock[s] \/ n # Msg[s] => handed'[k][n] = handed[k][n]
    BY <1>0, <1>5, <2>1 DEF Hand
  <2>3. ASSUME NEW t \in Senders, Spent(t)'
        PROVE  /\ Lock[t] # Lock[s] \/ Msg[t] # Msg[s]
               /\ Msg[t] \in Msgs /\ Lock[t] \in Locks /\ Spent(t)
    <3>1. t # s /\ Spent(t)
      BY <1>3, <2>3
    <3> QED BY <2>1, <3>1, OtherSpent, LockType, RfSlotAssumption DEF Spent
  <2>4. ASSUME NEW k \in Locks, NEW n \in Msgs
        PROVE  handed'[k][n] <= Account(k, n) /\ handed'[k][n] <= MessageLimit
    <3>1. CASE k = Lock[s] /\ n = Msg[s]
      BY <2>1, <2>2, <3>1 DEF Accounts, Charged
    <3>2. CASE k # Lock[s] \/ n # Msg[s]
      BY <2>2, <3>2 DEF Accounts, Charged
    <3> QED BY <3>1, <3>2
  <2>5. ASSUME NEW t \in Senders, Spent(t)'
        PROVE  /\ handed'[Lock[t]][Msg[t]] + 1 <= Account(Lock[t], Msg[t])
               /\ handed'[Lock[t]][Msg[t]] + 1 <= MessageLimit
    <3>1. Spent(t) /\ handed'[Lock[t]][Msg[t]] = handed[Lock[t]][Msg[t]]
      BY <2>2, <2>3, <2>5
    <3> QED BY <3>1 DEF Accounts, Charged
  <2>6. Charged'
    <3>1. ASSUME NEW t \in Senders, Spent(t)'
          PROVE  /\ handed'[Lock[t]][Msg[t]] + 1 <= Account(Lock[t], Msg[t])'
                 /\ handed'[Lock[t]][Msg[t]] + 1 <= MessageLimit
      BY <1>6, <2>3, <2>5, <3>1
    <3> QED BY <1>6, <2>4, <3>1 DEF Charged
  <2> QED BY <1>2, <2>6 DEF Accounts
<1> QED BY <1>0, <1>4, <1>5

\* The end of a train charges the controller's account and the row alike.
LEMMA CompleteAccounts ==
  ASSUME TypeOK, Accounts, CompleteRfTrain
  PROVE  Accounts'
<1> DEFINE m == status.owner
           known == m # Nil /\ budget.own[Controller][m] > 0
<1>0. /\ Controller \in Locks /\ m \in Msgs \cup {Nil}
      /\ budget \in BudgetType /\ stored \in StoredType /\ Extra \in Nat
      /\ handed \in [Locks -> [Msgs -> Nat]] /\ recent \in Nat
      /\ pc \in [Senders -> Awaits]
      /\ WindowLimit \in Nat /\ MessageLimit \in Nat
  BY ExtraType, RfSlotAssumption DEF TypeOK, StatusType, Locks
<1>1. /\ budget'.window = budget.window + Extra
      /\ stored'.window = IF Extra = 0 THEN stored.window ELSE budget.window + Extra
      /\ handed' = handed /\ recent' = recent
  BY DEF CompleteRfTrain
<1>2. WindowCharged'
  BY <1>0, <1>1 DEF Accounts, WindowCharged, BudgetType, StoredType
<1>3. ASSUME NEW t \in Senders, Spent(t)' PROVE Spent(t)
  BY <1>0, <1>3 DEF CompleteRfTrain, Spent
<1>4. CASE known
  <2>0. m \in Msgs
    BY <1>0, <1>4
  <2>1. /\ budget.own[Controller][m] \in Nat /\ stored.own[m] \in Nat
        /\ OneAccount(m) =>
             /\ budget.own[Controller][m] = stored.own[m]
             /\ \E s \in Senders : Msg[s] = m /\ Lock[s] = Controller
    BY <1>0, <1>4, <2>0 DEF Accounts, AccountsAgree, StoredType, BudgetType
  <2>2. budget'.own = [budget.own EXCEPT ![Controller][m] = @ + Extra]
    BY <1>4 DEF CompleteRfTrain
  <2>3. /\ budget'.own[Controller][m] = budget.own[Controller][m] + Extra
        /\ \A k \in Locks, n \in Msgs :
             k # Controller \/ n # m => budget'.own[k][n] = budget.own[k][n]
    BY <1>0, <2>0, <2>1, <2>2 DEF BudgetType
  <2>4. stored'.own = IF Extra = 0 THEN stored.own
                      ELSE [stored.own EXCEPT ![m] = budget'.own[Controller][m]]
    BY <1>4 DEF CompleteRfTrain
  <2>5. /\ OneAccount(m) => stored'.own[m] = stored.own[m] + Extra
        /\ stored'.own[m] \in Nat
        /\ \A n \in Msgs : n # m => stored'.own[n] = stored.own[n]
    BY <1>0, <2>0, <2>1, <2>3, <2>4 DEF StoredType
  <2>6. AccountsAgree'
    <3> SUFFICES ASSUME NEW k \in Locks, NEW n \in Msgs, OneAccount(n),
                        budget'.own[k][n] # 0
                 PROVE  /\ budget'.own[k][n] = stored'.own[n]
                        /\ \E t \in Senders : Msg[t] = n /\ Lock[t] = k
      BY DEF AccountsAgree
    <3>1. CASE n = m /\ k = Controller
      BY <2>1, <2>3, <2>5, <3>1
    <3>2. CASE n = m /\ k # Controller
      <4>1. budget.own[k][m] # 0
        BY <2>0, <2>3, <3>2
      <4>2. PICK t \in Senders : Msg[t] = m /\ Lock[t] = k
        BY <2>0, <3>2, <4>1 DEF Accounts, AccountsAgree
      <4> QED BY <2>1, <3>2, <4>2 DEF OneAccount
    <3>3. CASE n # m
      BY <2>3, <2>5, <3>3 DEF Accounts, AccountsAgree
    <3> QED BY <3>1, <3>2, <3>3
  <2>7. \A k \in Locks, n \in Msgs :
          Account(k, n) \in Nat /\ Account(k, n)' \in Nat /\ Account(k, n) <= Account(k, n)'
    <3> SUFFICES ASSUME NEW k \in Locks, NEW n \in Msgs
                 PROVE  /\ Account(k, n) \in Nat /\ Account(k, n)' \in Nat
                        /\ Account(k, n) <= Account(k, n)'
      OBVIOUS
    <3>1. CASE OneAccount(n)
      <4>1. Account(k, n) = stored.own[n] /\ Account(k, n)' = stored'.own[n]
        BY <3>1 DEF Account
      <4> QED BY <1>0, <2>0, <2>1, <2>5, <3>1, <4>1 DEF StoredType
    <3>2. CASE ~OneAccount(n)
      <4>1. Account(k, n) = budget.own[k][n] /\ Account(k, n)' = budget'.own[k][n]
        BY <3>2 DEF Account
      <4> QED BY <1>0, <2>0, <2>1, <2>3, <4>1 DEF BudgetType
    <3> QED BY <3>1, <3>2
  <2>9. Charged'
    <3>1. ASSUME NEW k \in Locks, NEW n \in Msgs
          PROVE  handed'[k][n] <= Account(k, n)' /\ handed'[k][n] <= MessageLimit
      <4>1. /\ handed[k][n] <= Account(k, n) /\ handed[k][n] <= MessageLimit
            /\ handed[k][n] \in Nat
        BY <1>0, <3>1 DEF Accounts, Charged
      <4> QED BY <1>1, <2>7, <3>1, <4>1
    <3>2. ASSUME NEW t \in Senders, Spent(t)'
          PROVE  /\ handed'[Lock[t]][Msg[t]] + 1 <= Account(Lock[t], Msg[t])'
                 /\ handed'[Lock[t]][Msg[t]] + 1 <= MessageLimit
      <4>1. Spent(t) /\ Msg[t] \in Msgs /\ Lock[t] \in Locks
        BY <1>3, <3>2, LockType, RfSlotAssumption DEF Spent
      <4>2. /\ handed[Lock[t]][Msg[t]] + 1 <= Account(Lock[t], Msg[t])
            /\ handed[Lock[t]][Msg[t]] + 1 <= MessageLimit
            /\ handed[Lock[t]][Msg[t]] \in Nat
        BY <1>0, <4>1 DEF Accounts, Charged
      <4> QED BY <1>1, <2>7, <4>1, <4>2
    <3> QED BY <3>1, <3>2 DEF Charged
  <2> QED BY <1>2, <2>6, <2>9 DEF Accounts
<1>5. CASE ~known
  <2>1. budget'.own = budget.own /\ stored'.own = stored.own
    BY <1>5 DEF CompleteRfTrain
  <2> QED BY <1>1, <1>2, <1>3, <2>1 DEF Accounts, AccountsAgree, Charged, Account
<1> QED BY <1>4, <1>5

\* Every step keeps the accounts.  A window that passes takes its texts with
\* it; a restart forgets what the objects know, and nobody is between a
\* reservation and a handoff any more.
LEMMA NextAccounts ==
  ASSUME TypeOK, LockHeld, Accounts, [Next]_vars
  PROVE  Accounts'
<1>1. ASSUME NEW s \in Senders, Call(s)
      PROVE  Accounts'
  <2>1. Keeps
    BY <1>1 DEF Call, Keeps, Spent, TypeOK
  <2> QED BY <2>1, KeepsAccounts
<1>2. ASSUME NEW s \in Senders, Advance(s)
      PROVE  Accounts'
  <2>1. HasLock(s) /\ (Leave(s) \/ Moves(s))
    BY <1>2, AdvanceStays DEF Stays
  <2>2. CASE Saves(s)
    <3>1. \A t \in Senders : t # s => pc'[t] = pc[t]
      BY <2>1 DEF Leave, Moves, TypeOK
    <3>2. Keeps
      BY <2>2, <3>1 DEF Saves, Keeps, Spent
    <3> QED BY <3>2, KeepsAccounts
  <2>3. CASE Spend(s)
    BY <2>1, <2>3, SpendAccounts
  <2>4. CASE Hand(s)
    BY <2>4, HandAccounts
  <2> QED BY <1>2, <2>2, <2>3, <2>4, AdvanceSaves
<1>3. CASE CompleteRfTrain
  BY <1>3, CompleteAccounts
<1>4. CASE GapEnds
  <2>1. Keeps
    BY <1>4 DEF GapEnds, Keeps, Spent, TypeOK
  <2> QED BY <2>1, KeepsAccounts
<1>5. CASE \/ Hear \/ LinkLost \/ LinkUp \/ PauseResume
           \/ \E kind \in RxKinds : RxBegins(kind) \/ RxEnds(kind)
           \/ KeyOn \/ KeyOff \/ StrayFrame
  <2>1. Keeps
    BY <1>5 DEF Hear, LinkLost, LinkUp, PauseResume, RxBegins, RxEnds, KeyOn, KeyOff,
                StrayFrame, daemon, Keeps, Spent
  <2> QED BY <2>1, KeepsAccounts
<1>6. CASE WindowPasses
  <2>1. /\ budget'.own = budget.own /\ stored'.own = stored.own
        /\ budget'.window = 0 /\ stored'.window = 0 /\ recent' = 0
        /\ handed' = handed /\ pc' = pc
    BY <1>6 DEF WindowPasses, TypeOK, BudgetType, StoredType
  <2> QED BY <2>1, RfSlotAssumption
          DEF Accounts, AccountsAgree, Charged, Account, WindowCharged, Spent
<1>7. CASE Crash
  <2>0. /\ stored' = stored /\ handed' = Counted(handed)
        /\ budget'.own = [k \in Locks |-> NoneUsed] /\ ~\E t \in Senders : Spent(t)'
    BY <1>7 DEF Crash, Spent
  <2>1. AccountsAgree'
    BY <2>0 DEF AccountsAgree, NoneUsed
  <2>3. ASSUME NEW k \in Locks, NEW n \in Msgs
        PROVE  handed'[k][n] <= Account(k, n)' /\ handed'[k][n] <= MessageLimit
    <3>1. CASE OneAccount(n)
      <4>1. handed'[k][n] = handed[k][n] /\ Account(k, n)' = Account(k, n)
        BY <2>0, <2>3, <3>1 DEF Counted, Account
      <4> QED BY <4>1 DEF Accounts, Charged
    <3>2. CASE ~OneAccount(n)
      <4>1. handed'[k][n] = 0 /\ Account(k, n)' = 0
        BY <2>0, <2>3, <3>2 DEF Counted, Account, NoneUsed
      <4> QED BY <4>1, RfSlotAssumption
    <3> QED BY <3>1, <3>2
  <2>4. Charged'
    BY <2>0, <2>3 DEF Charged
  <2>2. WindowCharged'
    BY <1>7 DEF Crash, Accounts, WindowCharged
  <2> QED BY <2>1, <2>2, <2>4 DEF Accounts
<1>8. CASE UNCHANGED vars
  <2>1. Keeps
    BY <1>8 DEF vars, daemon, Keeps, Spent
  <2> QED BY <2>1, KeepsAccounts
<1> QED BY <1>1, <1>2, <1>3, <1>4, <1>5, <1>6, <1>7, <1>8 DEF Next

\* The coroutines of one lock hand over no more texts for a message than its
\* lifetime airtime allows, over all restarts where nobody else sends for it and
\* since the last start elsewhere, and no window reserves more than its limit,
\* whatever trains, link losses and restarts come between the reservation and
\* the handoff (_send_rf_serialized, settle_rf_train, run).
THEOREM AirtimeLimitsHold == Spec => []LimitsHold
<1>1. Init => Accounts
  BY RfSlotAssumption
     DEF Init, Accounts, AccountsAgree, Charged, Account, WindowCharged, Spent, NoneUsed
<1>2. IInv /\ Accounts /\ [Next]_vars => Accounts'
  BY NextAccounts DEF IInv
<1>3. Accounts => LimitsHold
  BY DEF Accounts, Charged, WindowCharged, LimitsHold
<1> QED BY <1>1, <1>2, <1>3, IInvHolds, PTL DEF Spec

-----------------------------------------------------------------------------
(* Slot is implemented. *)

\* The coroutines that wait for the answer of send_rf.
Asking == {s \in Senders : pc[s] # "idle"}

\* In the beginning nobody asks and nothing is handed over.
LEMMA InitSlot == Init => S!Init
BY DEF Init, NoneUsed, S!Init

\* A coroutine's step changes its own place only: it asks, or asks no more.
LEMMA AskingMoves ==
  ASSUME TypeOK, NEW s \in Senders, Leave(s) \/ Moves(s)
  PROVE  \/ pc'[s] # "idle" /\ Asking' = Asking \cup {s}
         \/ pc'[s] = "idle" /\ Asking' = Asking \ {s}
<1>1. /\ pc \in [Senders -> Awaits]
      /\ \A t \in Senders : t # s => pc'[t] = pc[t]
  BY DEF Leave, Moves, TypeOK
<1>2. CASE pc'[s] = "idle"
  BY <1>1, <1>2 DEF Asking
<1>3. CASE pc'[s] # "idle"
  BY <1>1, <1>3 DEF Asking
<1> QED BY <1>2, <1>3

\* A step that hands nothing over is a question, a refusal, or nothing.
LEMMA AskingSlot ==
  ASSUME NEW s \in Senders, js'.text = js.text, handed' = handed,
         Asking' \in {Asking, Asking \cup {s}, Asking \ {s}}
  PROVE  S!Ask(s) \/ S!Refuse(s) \/ UNCHANGED S!vars
<1>1. CASE Asking' = Asking
  BY <1>1 DEF Asking, S!vars
<1>2. CASE Asking' = Asking \cup {s}
  BY <1>2 DEF Asking, S!Ask
<1>3. CASE Asking' = Asking \ {s} /\ s \in Asking
  BY <1>3 DEF Asking, S!Refuse
<1>4. CASE Asking' = Asking \ {s} /\ s \notin Asking
  <2>1. Asking' = Asking
    BY <1>4
  <2> QED BY <2>1 DEF Asking, S!vars
<1> QED BY <1>1, <1>2, <1>3, <1>4

\* The handoff is granted: the text is the only one of its lock, from the look
\* at JS8Call on, and its airtime was reserved before that.
LEMMA HandSlot ==
  ASSUME IInv, Accounts, NEW s \in Senders, Hand(s)
  PROVE  S!Grant(s)
<1>0. /\ TypeOK /\ pc[s] = "clear" /\ js \in JsType /\ handed \in [Locks -> [Msgs -> Nat]]
      /\ pc \in [Senders -> Awaits]
      /\ Msg[s] \in Msgs \cup {Nil} /\ Lock[s] \in Locks /\ MessageLimit \in Nat
  BY RfSlotAssumption, LockType DEF Hand, IInv, TypeOK
<1>1. s \in Asking /\ Asking' = Asking \ {s}
  <2>1. pc'[s] = "idle" /\ s \in Asking
    BY <1>0 DEF Hand, Leave, Asking
  <2> QED BY <1>0, <2>1, AskingMoves DEF Hand
<1>2. \A t \in js.text : Lock[t] # Lock[s]
  BY <1>0 DEF IInv, ClearIsClear
<1>3. js'.text = js.text \cup {s}
  BY <1>0 DEF Hand, JsType
<1>4. Msg[s] # Nil => handed[Lock[s]][Msg[s]] < MessageLimit
  BY <1>0 DEF Accounts, Charged, Spent
<1>5. handed' = IF Msg[s] = Nil THEN handed
                ELSE [handed EXCEPT ![Lock[s]][Msg[s]] = @ + 1]
  BY DEF Hand
<1> QED BY <1>1, <1>2, <1>3, <1>4, <1>5 DEF S!Grant, Asking

\* A coroutine's step.
LEMMA AdvanceSlot ==
  ASSUME IInv, Accounts, NEW s \in Senders, Advance(s)
  PROVE  S!Ask(s) \/ S!Grant(s) \/ S!Refuse(s) \/ UNCHANGED S!vars
<1>1. TypeOK /\ LockHeld
  BY DEF IInv
<1>2. CASE Hand(s)
  BY <1>2, HandSlot
<1>3. CASE Saves(s) \/ Spend(s)
  <2>1. js' = js /\ handed' = handed
    BY <1>3 DEF Saves, Spend
  <2>2. Leave(s) \/ Moves(s)
    BY <1>1, AdvanceStays DEF Stays
  <2>3. Asking' \in {Asking, Asking \cup {s}, Asking \ {s}}
    BY <1>1, <2>2, AskingMoves
  <2> QED BY <2>1, <2>3, AskingSlot
<1> QED BY <1>1, <1>2, <1>3, AdvanceSaves

\* A step of the train, of time, of the operator, of the link or of JS8Call:
\* nobody begins or stops to ask, and texts only go, all at once.
Bystands ==
  /\ Asking' = Asking
  /\ js'.text \in {js.text, {}}
  /\ handed' = handed

LEMMA BystandsSlot ==
  ASSUME Bystands
  PROVE  S!Clear \/ UNCHANGED S!vars
<1>1. CASE js'.text = js.text
  BY <1>1 DEF Bystands, Asking, S!vars
<1>2. CASE js'.text = {}
  BY <1>2 DEF Bystands, Asking, S!Clear
<1> QED BY <1>1, <1>2 DEF Bystands

\* Every step of RfSlot is one of Slot, or changes nothing of it.
LEMMA NextSlot ==
  ASSUME IInv, Accounts, [Next]_vars
  PROVE  [S!Next]_(S!vars)
<1>0. TypeOK /\ js \in JsType /\ pc \in [Senders -> Awaits]
  BY DEF IInv, TypeOK
<1>1. ASSUME NEW s \in Senders, Call(s) PROVE [S!Next]_(S!vars)
  <2>1. js' = js /\ handed' = handed
    BY <1>1 DEF Call
  <2>2. Asking' = Asking \cup {s}
    BY <1>0, <1>1 DEF Call, Asking
  <2>3. S!Ask(s) \/ S!Refuse(s) \/ UNCHANGED S!vars
    BY <2>1, <2>2, AskingSlot
  <2> QED BY <2>3 DEF S!Next
<1>2. ASSUME NEW s \in Senders, Advance(s) PROVE [S!Next]_(S!vars)
  <2>1. S!Ask(s) \/ S!Grant(s) \/ S!Refuse(s) \/ UNCHANGED S!vars
    BY <1>2, AdvanceSlot
  <2> QED BY <2>1 DEF S!Next
<1>3. ASSUME Bystands PROVE [S!Next]_(S!vars)
  BY <1>3, BystandsSlot DEF S!Next
<1>4. CASE CompleteRfTrain \/ GapEnds
  <2>1. pc' = [s \in Senders |-> IF pc[s] = "pacing" THEN "due" ELSE pc[s]]
    BY <1>4 DEF CompleteRfTrain, GapEnds
  <2>2. Asking' = Asking
    BY <1>0, <2>1 DEF Asking
  <2>3. js' = js /\ handed' = handed
    BY <1>4 DEF CompleteRfTrain, GapEnds
  <2> QED BY <1>3, <2>2, <2>3 DEF Bystands
<1>5. CASE \/ Hear \/ LinkLost \/ LinkUp
  <2>1. pc' = pc /\ handed' = handed /\ js'.text = js.text
    BY <1>0, <1>5 DEF Hear, LinkLost, LinkUp, daemon, JsType
  <2> QED BY <1>3, <2>1 DEF Bystands, Asking
<1>6. CASE \/ PauseResume \/ WindowPasses \/ UNCHANGED vars
           \/ \E kind \in RxKinds : RxBegins(kind) \/ RxEnds(kind)
  <2>1. pc' = pc /\ handed' = handed /\ js' = js
    BY <1>6 DEF PauseResume, WindowPasses, RxBegins, RxEnds, vars, daemon
  <2> QED BY <1>3, <2>1 DEF Bystands, Asking
<1>7. CASE KeyOn \/ KeyOff \/ StrayFrame
  <2>1. pc' = pc /\ handed' = handed
    BY <1>7 DEF KeyOn, KeyOff, StrayFrame, daemon
  <2>2. js'.text \in {js.text, {}}
    BY <1>0, <1>7 DEF KeyOn, KeyOff, StrayFrame, JsType
  <2> QED BY <1>3, <2>1, <2>2 DEF Bystands, Asking
<1>8. CASE Crash
  <2>1. js'.text = js.text /\ handed' = Counted(handed) /\ Asking' = {}
    BY <1>0, <1>8 DEF Crash, JsType, Asking
  <2>2. S!Restart
    BY <2>1 DEF Asking, Counted, OneAccount, S!Restart, S!OneAccount
  <2> QED BY <2>2 DEF S!Next
<1> QED BY <1>1, <1>2, <1>4, <1>5, <1>6, <1>7, <1>8 DEF Next

\* send_rf, with its lock, its waits and its checks, gives every call one
\* answer; the text it has taken is the only one of its lock and within what the
\* lifetime limit of its message leaves to the lock: for every number of
\* coroutines and messages, across lost links and restarts (_send_rf_serialized,
\* send_message, run).
THEOREM SlotIsKept == Spec => SlotKept
<1>1. Init => Accounts
  BY RfSlotAssumption
     DEF Init, Accounts, AccountsAgree, Charged, Account, WindowCharged, Spent, NoneUsed
<1>2. IInv /\ Accounts /\ [Next]_vars => Accounts'
  BY NextAccounts DEF IInv
<1>3. IInv /\ Accounts /\ [Next]_vars => [S!Next]_(S!vars)
  BY NextSlot
<1> QED BY <1>1, <1>2, <1>3, InitSlot, IInvHolds, PTL DEF Spec, SlotKept, S!Spec

=============================================================================
