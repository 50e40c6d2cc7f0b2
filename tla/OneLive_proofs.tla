----------------------------- MODULE OneLive_proofs -----------------------------
(****************************************************************************)
(* Without HTTP requests that transmit, a message the operator has not      *)
(* requeued has at most one live transaction, for every set of messages and *)
(* stations and every bound.                                                *)
(****************************************************************************)
EXTENDS Promise_proofs

Fresh(m) == mail[m].era = 0

\* A live row is the newest of its message: a part receipt, which settles the
\* newest row, settles it.
LiveNewest == \A m \in Msgs : Fresh(m) => \A t \in LiveTxs(m), u \in TxsOf(m) : u <= t

\* A message that transmit would take has no live row.
Startable == Ready \cup {"none"}
ReadyQuiet == \A m \in Msgs : Fresh(m) /\ mail[m].state \in Startable => LiveTxs(m) = {}

\* Nor has one that was ready when the pass began and is still to be handled.
SnapshotQuiet == \A e \in todo : Fresh(e.msg) /\ e.state \in Ready => LiveTxs(e.msg) = {}
SnapshotOnce == \A e, f \in todo : e.msg = f.msg => e = f

\* What the loop waits for: with a probe or a query there is no live row, in
\* transmit there is at most the one it made.
Asking == {"probe", "hop", "query"}
AwaitQuiet ==
  LET load == task[Daemon].load
  IN  /\ task[Daemon].pc \in Asking /\ Fresh(load.msg) => LiveTxs(load.msg) = {}
      /\ task[Daemon].pc \in {"begun", "send"} /\ Fresh(load.msg) =>
           LiveTxs(load.msg) \subseteq {load.id}

\* An id that is not in the table is of no message.
RowsBegun == \A t \in TxIds : tx[t].status = "none" => tx[t].msg = Nil

OneTxInv == LiveNewest /\ ReadyQuiet /\ SnapshotQuiet /\ SnapshotOnce /\ AwaitQuiet /\ RowsBegun

-----------------------------------------------------------------------------
(* What a step may do.                                                      *)

\* The live rows of a message after the step.
LiveAfter(m) == {t \in TxIds : tx'[t].msg = m /\ IsLive(tx'[t])}

\* The rows of each message, and the live ones, are among those before.
Falls == \A m \in Msgs : TxsOf(m)' \subseteq TxsOf(m) /\ LiveAfter(m) \subseteq LiveTxs(m)

\* Nobody forgets that the operator requeued a message.
Remembers == \A m \in Msgs : mail'[m].era = 0 => Fresh(m)

\* A message becomes ready only when it has no live row.
Calm == \A m \in Msgs : mail'[m].era = 0 /\ mail'[m].state \in Startable =>
          mail[m].state \in Startable \/ LiveAfter(m) = {}

\* Where the loop may wait after a step that starts no transmission.
Waits ==
  \/ task'[Daemon] = task[Daemon]
  \/ task'[Daemon].pc = "idle"
  \/ /\ task[Daemon].pc = "begun" /\ task'[Daemon].pc = "send"
     /\ task'[Daemon].load = task[Daemon].load
  \/ /\ task[Daemon].pc = "send" /\ task'[Daemon].pc = "send"
     /\ task'[Daemon].load.msg = task[Daemon].load.msg
     /\ task'[Daemon].load.id = task[Daemon].load.id
  \/ /\ task'[Daemon].pc \in Asking
     /\ mail'[task'[Daemon].load.msg].era = 0 => LiveAfter(task'[Daemon].load.msg) = {}

\* The rows that most steps leave.
LEMMA FallRows ==
  ASSUME TypeOK, RowsBegun, Ebb \/ PttOn \/ CompleteRfTrain
  PROVE  Falls /\ RowsBegun'
<1>1. Nil \notin Msgs /\ \A t \in TxIds : tx[t] \in TxRow
  BY OutboxAssumption DEF TypeOK
<1>2. ASSUME NEW t \in TxIds
      PROVE  /\ tx'[t] = NoTx \/ SameRow(tx[t], tx'[t])
             /\ IsLive(tx'[t]) => IsLive(tx[t]) /\ tx'[t].msg = tx[t].msg
  <2>1. CASE Ebb
    BY <2>1 DEF Ebb, Ebbing
  <2>2. CASE PttOn \/ CompleteRfTrain
    <3>1. tx'[t] \in {tx[t], Activated(tx[t]), Finished(tx[t]), BroadcastDone(tx[t])}
      BY <2>2, TrainRows
    <3>2. ASSUME NEW row \in TxRow
          PROVE  /\ SameRow(row, row) /\ SameRow(row, Activated(row))
                 /\ SameRow(row, Finished(row)) /\ SameRow(row, BroadcastDone(row))
      BY DEF SameRow, Activated, Finished, BroadcastDone, TxRow
    <3> QED BY <1>1, <2>2, <3>1, <3>2, TrainKeeps
  <2> QED BY <2>1, <2>2
<1>3. Falls
  BY <1>1, <1>2 DEF Falls, TxsOf, LiveTxs, LiveAfter, SameRow, NoTx
<1>4. RowsBegun'
  BY <1>2 DEF RowsBegun, SameRow, NoTx
<1> QED BY <1>3, <1>4

\* A step that starts no transmission.
LEMMA QuietParts ==
  ASSUME TypeOK, TypeOK', OneTxInv, Falls, Remembers, Calm, Waits
  PROVE  LiveNewest' /\ ReadyQuiet' /\ AwaitQuiet'
<1>0. \A m : LiveTxs(m)' = LiveAfter(m)
  BY DEF LiveTxs, TxsOf, LiveAfter
<1>1. LiveNewest'
  BY <1>0 DEF OneTxInv, LiveNewest, Falls, Remembers, Fresh
<1>2. ReadyQuiet'
  BY <1>0 DEF OneTxInv, ReadyQuiet, Falls, Remembers, Calm, Fresh
<1>3. AwaitQuiet'
  <2> DEFINE m == task'[Daemon].load.msg
             old == task[Daemon].load
  <2>1. task[Daemon].pc \in Asking \cup {"begun", "send"} => old.msg \in Msgs
    BY AwaitType DEF Asking, Tasks
  <2>2. /\ task[Daemon].pc \in Asking /\ Fresh(old.msg) => LiveTxs(old.msg) = {}
        /\ task[Daemon].pc \in {"begun", "send"} /\ Fresh(old.msg) =>
             LiveTxs(old.msg) \subseteq {old.id}
    BY DEF OneTxInv, AwaitQuiet
  <2>3. /\ task'[Daemon].pc \in Asking /\ mail'[m].era = 0 => LiveAfter(m) = {}
        /\ task'[Daemon].pc \in {"begun", "send"} /\ mail'[m].era = 0 =>
             LiveAfter(m) \subseteq {task'[Daemon].load.id}
    <3>1. CASE task'[Daemon] = task[Daemon]
      <4>1. m = old.msg /\ task'[Daemon].load.id = old.id
        BY <3>1
      <4>2. CASE task[Daemon].pc \in Asking \cup {"begun", "send"}
        <5>1. /\ LiveAfter(m) \subseteq LiveTxs(m)
              /\ mail'[m].era = 0 => Fresh(m)
          BY <2>1, <4>1, <4>2 DEF Falls, Remembers
        <5> HIDE DEF m, old
        <5> QED BY <2>2, <3>1, <4>1, <5>1
      <4> QED BY <3>1, <4>2
    <3>2. CASE task'[Daemon].pc = "idle"
      BY <3>2 DEF Asking
    <3>3. CASE /\ task[Daemon].pc \in {"begun", "send"} /\ task'[Daemon].pc = "send"
               /\ m = old.msg /\ task'[Daemon].load.id = old.id
      <4>1. m = old.msg /\ task'[Daemon].load.id = old.id
        BY <3>3
      <4>2. /\ LiveAfter(m) \subseteq LiveTxs(m)
            /\ mail'[m].era = 0 => Fresh(m)
        BY <2>1, <3>3, <4>1 DEF Falls, Remembers
      <4> HIDE DEF m, old
      <4> QED BY <2>2, <3>3, <4>1, <4>2 DEF Asking
    <3>4. CASE /\ task'[Daemon].pc \in Asking
               /\ mail'[m].era = 0 => LiveAfter(m) = {}
      BY <3>4 DEF Asking
    <3> QED BY <3>1, <3>2, <3>3, <3>4 DEF Waits
  <2> QED BY <2>3 DEF AwaitQuiet, Fresh, LiveTxs, TxsOf, LiveAfter
<1> QED BY <1>1, <1>2, <1>3

\* One that takes no new snapshot either.
LEMMA QuietStep ==
  ASSUME TypeOK, TypeOK', OneTxInv, Falls, RowsBegun', Remembers, Calm, Waits, todo' \subseteq todo
  PROVE  OneTxInv'
<1>1. \A m : LiveTxs(m)' = LiveAfter(m)
  BY DEF LiveTxs, TxsOf, LiveAfter
<1>2. SnapshotQuiet'
  <2>1. \A e \in todo : e.msg \in Msgs
    BY TodoType
  <2> QED BY <1>1, <2>1 DEF OneTxInv, SnapshotQuiet, Falls, Remembers, Fresh
<1>3. SnapshotOnce'
  BY DEF OneTxInv, SnapshotOnce
<1> QED BY <1>2, <1>3, QuietParts DEF OneTxInv


\* Messages are left alone, or settled.
Settles ==
  \A m \in Msgs : /\ mail'[m].era = mail[m].era
                  /\ mail'[m].state \in {mail[m].state, "stored", "delivered"}

\* The radio settles messages, and so do ACKs and DELIVERED.
LEMMA RadioSettles ==
  ASSUME TypeOK, Radio
  PROVE  Settles
<1>1. \A m \in Msgs : mail[m] \in MailRow
  BY DEF TypeOK
<1>2. mail' = mail \/ mail' = [mail EXCEPT ![tx[active].msg].state = "delivered"]
  BY DEF Radio, ForeignText, PttOn, PttOff, CompleteRfTrain, DropText, LinkLost, LinkUp, Crash
<1>3. CASE mail' = mail
  BY <1>3 DEF Settles
<1>4. CASE mail' = [mail EXCEPT ![tx[active].msg].state = "delivered"]
  BY <1>1, <1>4 DEF Settles, TypeOK, MailRow
<1> QED BY <1>2, <1>3, <1>4

\* One row is settled.
LEMMA SettlesOne ==
  ASSUME TypeOK, NEW x, NEW row, mail' = [mail EXCEPT ![x] = row],
         x \in Msgs => /\ row.era = mail[x].era
                       /\ row.state \in {mail[x].state, "stored", "delivered"}
  PROVE  Settles
BY DEF Settles, TypeOK

LEMMA AckSettles ==
  ASSUME TypeOK, NEW s, NEW oldest, NEW again, ReceiveAck(s, oldest, again)
  PROVE  Settles
<1>1. CASE mail' = mail
  BY <1>1 DEF Settles
<1>2. CASE mail' # mail
  <2>1. PICK t \in TxIds : \E counted :
          mail' = [mail EXCEPT ![tx[t].msg] = AckedRow(mail[tx[t].msg], t, counted)]
    BY <1>2 DEF ReceiveAck
  <2>2. PICK counted :
          mail' = [mail EXCEPT ![tx[t].msg] = AckedRow(mail[tx[t].msg], t, counted)]
    BY <2>1
  <2>3. ASSUME NEW row \in MailRow
        PROVE  /\ AckedRow(row, t, counted).era = row.era
               /\ AckedRow(row, t, counted).state \in {row.state, "stored", "delivered"}
    BY DEF AckedRow, Moved, MailRow
  <2>4. tx[t].msg \in Msgs => mail[tx[t].msg] \in MailRow
    BY DEF TypeOK
  <2> QED BY <2>2, <2>3, <2>4, SettlesOne
<1> QED BY <1>1, <1>2

LEMMA DeliveredSettles ==
  ASSUME TypeOK, NEW m \in Msgs, NEW through, ReceiveDelivered(m, through)
  PROVE  Settles
<1> DEFINE told == [mail[m] EXCEPT !.receipted = TRUE,
                      !.custody = [k \in Custodians |->
                         IF k \in through THEN "forwarded" ELSE @[k]]]
<1>1. told.era = mail[m].era /\ told.state = mail[m].state
      /\ Moved(told, "delivered").era = mail[m].era
      /\ Moved(told, "delivered").state \in {mail[m].state, "delivered"}
  <2>1. mail[m] \in MailRow
    BY DEF TypeOK
  <2> QED BY <2>1 DEF MailRow, Moved
<1>2. mail' = [mail EXCEPT ![m] = told] \/ mail' = [mail EXCEPT ![m] = Moved(told, "delivered")]
  BY DEF ReceiveDelivered
<1> HIDE DEF told
<1> QED BY <1>1, <1>2, SettlesOne

\* A part receipt writes one row, of the same era.
LEMMA PartReceiptRow ==
  ASSUME TypeOK, NEW m \in Msgs, NEW received, ReceivePartReceipt(m, received)
  PROVE  \E row : mail' = [mail EXCEPT ![m] = row] /\ row.era = mail[m].era
<1> DEFINE merged == [mail[m] EXCEPT !.confirmed = @ \cup received]
           back == Woken([merged EXCEPT !.state = "waiting_route"])
<1>1. merged.era = mail[m].era /\ back.era = mail[m].era
  <2>1. mail[m] \in MailRow
    BY DEF TypeOK
  <2> QED BY <2>1 DEF MailRow, Woken
<1>2. mail' = [mail EXCEPT ![m] = merged] \/ mail' = [mail EXCEPT ![m] = back]
  BY DEF ReceivePartReceipt
<1> HIDE DEF merged, back
<1> QED BY <1>1, <1>2

\* The era of a message only grows.
LEMMA EraStays ==
  ASSUME TypeOK, [Next]_vars
  PROVE  Remembers
<1>1. \A m \in Msgs : mail[m] \in MailRow /\ mail[m].era \in Nat
  BY DEF TypeOK, MailRow
<1>2. CASE Steady \/ Turn \/ GivesUp
  BY <1>1, <1>2 DEF Steady, Turn, GivesUp, SteadyRow, TurnRow, Remembers, Fresh
<1>3. CASE mail' = mail
  BY <1>3 DEF Remembers, Fresh
<1>4. CASE Settles
  BY <1>4 DEF Settles, Remembers, Fresh
<1>5. CASE Replies
  <2>1. ASSUME NEW m \in Msgs, NEW received, ReceivePartReceipt(m, received) PROVE Remembers
    BY <2>1, PartReceiptRow DEF Remembers, Fresh, TypeOK
  <2>2. ASSUME NEW m \in Msgs, NEW k, CustodianForwards(m, k) PROVE Remembers
    BY <1>3, <2>2 DEF CustodianForwards
  <2> QED BY <1>4, <1>5, <2>1, <2>2, AckSettles, DeliveredSettles DEF Replies
<1> QED BY <1>2, <1>3, <1>4, <1>5, RadioSettles, LoopMail, TaskMail, OperatorMail DEF Next, vars

-----------------------------------------------------------------------------
(* What handling a row of the snapshot may do: start one transmission, or   *)
(* rewrite the message and wait.                                            *)

Begins(m, rest) ==
  /\ \E t \in TxIds : /\ IsNextId(t)
                      /\ tx'[t].msg = m /\ tx'[t].status # "none"
                      /\ \A u \in TxIds \ {t} : tx'[u] = tx[u]
                      /\ task'[Daemon].pc = "begun"
                      /\ task'[Daemon].load.msg = m /\ task'[Daemon].load.id = t
  /\ mail'[m].state = "in_progress"
  /\ \A n \in Msgs \ {m} : mail'[n] = mail[n]
  /\ todo' \subseteq rest

Writes(m, rest) ==
  /\ tx' = tx
  /\ \A n \in Msgs \ {m} : mail'[n] = mail[n]
  /\ todo' \subseteq rest
  /\ \/ task' = task
     \/ task'[Daemon].pc = "idle"
     \/ task'[Daemon].pc \in Asking /\ task'[Daemon].load.msg = m

\* A transmission begins for a message without a live row.
LEMMA BeginStep ==
  ASSUME TypeOK, TypeOK', OneTxInv, Remembers, NEW m \in Msgs, NEW rest \in SUBSET todo,
         \A e \in rest : e.msg # m, Fresh(m) => LiveTxs(m) = {}, Begins(m, rest)
  PROVE  OneTxInv'
<1>1. PICK t \in TxIds : /\ IsNextId(t)
                         /\ tx'[t].msg = m /\ tx'[t].status # "none"
                         /\ \A u \in TxIds \ {t} : tx'[u] = tx[u]
                         /\ task'[Daemon].pc = "begun"
                         /\ task'[Daemon].load.msg = m /\ task'[Daemon].load.id = t
  BY DEF Begins
<1>2. \A u \in TxIds : tx[u].msg \in Msgs => u < t
  <2>1. \A u \in TxIds : u >= t => tx[u].msg = Nil
    BY <1>1 DEF IsNextId, OneTxInv, RowsBegun
  <2> QED BY <2>1, OutboxAssumption DEF TxIds
<1>3. \A n \in Msgs : LiveTxs(n)' = LiveAfter(n)
  BY DEF LiveTxs, TxsOf, LiveAfter
<1>4. \A n \in Msgs : /\ TxsOf(n)' = IF n = m THEN TxsOf(n) \cup {t} ELSE TxsOf(n)
                      /\ LiveAfter(n) \subseteq LiveTxs(n) \cup {t}
                      /\ n # m => LiveAfter(n) \subseteq LiveTxs(n)
  <2>1. \A n \in Msgs : t \notin TxsOf(n)
    BY <1>2 DEF TxsOf, TxIds
  <2> QED BY <1>1, <2>1 DEF TxsOf, LiveTxs, LiveAfter
<1>5. \A n \in Msgs \ {m} : mail'[n] = mail[n]
  BY DEF Begins
<1>6. LiveNewest'
  <2> SUFFICES ASSUME NEW n \in Msgs, mail'[n].era = 0,
                      NEW a \in LiveAfter(n), NEW u \in TxsOf(n)'
               PROVE  u <= a
    BY <1>3 DEF LiveNewest, Fresh
  <2>1. Fresh(n)
    BY DEF Remembers
  <2>2. CASE n = m
    <3>1. a = t
      BY <1>4, <2>1, <2>2
    <3>2. u = t \/ u \in TxsOf(m)
      BY <1>4, <2>2
    <3> QED BY <1>2, <3>1, <3>2 DEF TxsOf, TxIds
  <2>3. CASE n # m
    BY <1>4, <2>1, <2>3 DEF OneTxInv, LiveNewest
  <2> QED BY <2>2, <2>3
<1>7. ReadyQuiet'
  <2>1. "in_progress" \notin Startable
    BY DEF Startable, Ready
  <2> QED BY <1>3, <1>4, <1>5, <2>1 DEF Begins, OneTxInv, ReadyQuiet, Fresh
<1>8. SnapshotQuiet'
  <2>1. \A e \in todo' : e \in rest /\ e \in todo /\ e.msg \in Msgs /\ e.msg # m
    BY TodoType DEF Begins
  <2> QED BY <1>3, <1>4, <1>5, <2>1 DEF OneTxInv, SnapshotQuiet, Fresh
<1>9. SnapshotOnce'
  BY DEF Begins, OneTxInv, SnapshotOnce
<1>10. AwaitQuiet'
  <2>1. mail'[m].era = 0 => LiveAfter(m) \subseteq {t}
    BY <1>4 DEF Remembers
  <2>2. AwaitQuiet' = (/\ task'[Daemon].pc \in Asking /\ mail'[task'[Daemon].load.msg].era = 0
                            => LiveAfter(task'[Daemon].load.msg) = {}
                       /\ task'[Daemon].pc \in {"begun", "send"}
                            /\ mail'[task'[Daemon].load.msg].era = 0
                            => LiveAfter(task'[Daemon].load.msg) \subseteq {task'[Daemon].load.id})
    BY DEF AwaitQuiet, Fresh, LiveTxs, TxsOf, LiveAfter
  <2> QED BY <1>1, <2>1, <2>2 DEF Asking
<1>11. RowsBegun'
  BY <1>1 DEF OneTxInv, RowsBegun
<1> QED BY <1>6, <1>7, <1>8, <1>9, <1>10, <1>11 DEF OneTxInv

\* A message without a live row is rewritten.
LEMMA WriteStep ==
  ASSUME TypeOK, TypeOK', OneTxInv, Remembers, NEW m \in Msgs, NEW rest \in SUBSET todo,
         Fresh(m) => LiveTxs(m) = {}, Writes(m, rest)
  PROVE  OneTxInv'
<1>1. \A n \in Msgs : TxsOf(n)' = TxsOf(n) /\ LiveAfter(n) = LiveTxs(n)
  BY DEF Writes, TxsOf, LiveTxs, LiveAfter
<1>2. Falls /\ RowsBegun'
  BY <1>1 DEF Falls, OneTxInv, RowsBegun, Writes
<1>3. Calm
  BY <1>1 DEF Calm, Writes, Remembers
<1>4. Waits
  BY <1>1 DEF Waits, Writes, Remembers
<1> QED BY <1>2, <1>3, <1>4, QuietStep DEF Writes

\* transmit, up to its first await, begins one transmission.
LEMMA StartBegins ==
  ASSUME TypeOK, NEW m \in Msgs, NEW row \in MailRow, NEW via, NEW op, NEW part, NEW responder,
         NEW rest, Start(Daemon, m, row, via, op, part, responder), todo' = rest
  PROVE  Begins(m, rest)
<1>1. PICK t \in TxIds :
        /\ IsNextId(t)
        /\ tx' = TxWith(t, [msg |-> m, op |-> op, part |-> part, peer |-> responder,
                            status |-> "queued", submitted |-> FALSE,
                            finished |-> FALSE, era |-> row.era, aired |-> FALSE])
        /\ task' = [task EXCEPT ![Daemon] =
                      [pc |-> "begun", via |-> via,
                       load |-> [id |-> t, msg |-> m, op |-> op, part |-> part,
                                 peer |-> responder]]]
  BY DEF Start
<1>2. /\ tx'[t].msg = m /\ tx'[t].status # "none"
      /\ \A u \in TxIds \ {t} : tx'[u] = tx[u]
  BY <1>1 DEF TxWith, TypeOK
<1>3. /\ task'[Daemon].pc = "begun"
      /\ task'[Daemon].load.msg = m /\ task'[Daemon].load.id = t
  BY <1>1 DEF TypeOK, Tasks
<1>4. /\ \A n \in Msgs \ {m} : mail'[n] = mail[n]
      /\ mail'[m].state = "in_progress"
  BY DEF Start, TypeOK, MailRow
<1> QED BY <1>1, <1>2, <1>3, <1>4 DEF Begins

\* A deferral, or the exception instead of it, writes one row.
LEMMA DeferWrites ==
  ASSUME TypeOK, NEW m \in Msgs, NEW row, NEW n, NEW rest,
         DeferOrCrash(m, row, n, rest) \/ DeferQuietly(m, n, rest)
  PROVE  /\ \A x \in Msgs \ {m} : mail'[x] = mail[x]
         /\ todo' \in {rest, {}}
<1>1. CASE DeferOrCrash(m, row, n, rest)
  BY <1>1 DEF DeferOrCrash, TypeOK
<1>2. CASE DeferQuietly(m, n, rest)
  <2>1. mail' = mail \/ mail' = [mail EXCEPT ![m] = Deferred(mail[m], n)]
    BY <1>2 DEF DeferQuietly
  <2> QED BY <1>2, <2>1 DEF DeferQuietly, TypeOK
<1> QED BY <1>1, <1>2

LEMMA ErrorWrites ==
  ASSUME TypeOK, NEW m \in Msgs, NEW via, NEW kind, NEW rest, OnError(m, via, kind, rest)
  PROVE  /\ \A x \in Msgs \ {m} : mail'[x] = mail[x]
         /\ todo' \in {rest, {}}
BY DeferWrites DEF OnError

\* transmit of the loop, begun or refused.
LEMMA TransmitHandles ==
  ASSUME TypeOK, NEW m \in Msgs, NEW via, NEW rest, Transmit(Daemon, m, via, rest)
  PROVE  Begins(m, rest) \/ Writes(m, rest)
<1>1. CASE StartTransmit(Daemon, m, via, rest)
  <2>1. mail[m] \in MailRow
    BY DEF TypeOK
  <2>2. todo' = rest
    BY <1>1 DEF StartTransmit
  <2>3. \E op, part, responder : Start(Daemon, m, mail[m], via, op, part, responder)
    BY <1>1 DEF StartTransmit
  <2> QED BY <2>1, <2>2, <2>3, StartBegins
<1>2. CASE RefuseTransmit(Daemon, m, via, rest)
  <2>1. /\ \A x \in Msgs \ {m} : mail'[x] = mail[x]
        /\ todo' \in {rest, {}}
    BY <1>2, ErrorWrites DEF RefuseTransmit
  <2>2. tx' = tx /\ task'[Daemon].pc = "idle"
    BY <1>2 DEF RefuseTransmit, TypeOK, Tasks, Idle
  <2> QED BY <2>1, <2>2 DEF Writes
<1> QED BY <1>1, <1>2 DEF Transmit

\* A text that asks something.
LEMMA AskWaits ==
  ASSUME TypeOK, NEW m \in Msgs, NEW pc \in Asking, Ask(Daemon, pc, m)
  PROVE  tx' = tx /\ task'[Daemon].pc \in Asking /\ task'[Daemon].load.msg = m
BY DEF Ask, TypeOK, Tasks, About, Foreign

\* prepare and discovery.
LEMMA PrepareHandles ==
  ASSUME TypeOK, NEW m \in Msgs, NEW rest, Prepare(Daemon, m, rest)
  PROVE  Begins(m, rest) \/ Writes(m, rest)
<1>1. CASE mail' = mail /\ todo' = rest /\ Ask(Daemon, "probe", m)
  BY <1>1, AskWaits DEF Writes, Asking
<1> QED BY <1>1, TransmitHandles DEF Prepare

LEMMA DiscoverHandles ==
  ASSUME TypeOK, NEW e \in todo, Discover(e)
  PROVE  Begins(e.msg, todo \ {e}) \/ Writes(e.msg, todo \ {e})
<1> DEFINE m == e.msg
           rest == todo \ {e}
<1>1. m \in Msgs
  BY TodoType
<1>2. ASSUME NEW row, mail' = [mail EXCEPT ![m] = row] PROVE \A n \in Msgs \ {m} : mail'[n] = mail[n]
  BY <1>2 DEF TypeOK
<1>3. ASSUME NoSend, \/ mail' = mail /\ todo' = {}
                     \/ \E row : LeaveWaiting(m, row, rest) \/ WakeForDirect(m, row, rest)
      PROVE  Writes(m, rest)
  BY <1>2, <1>3 DEF NoSend, LeaveWaiting, WakeForDirect, Writes
<1>4. ASSUME TakeRoute(m, rest) PROVE Begins(m, rest) \/ Writes(m, rest)
  <2>1. CASE DeferOrCrash(m, mail[m], 0, rest) /\ NoSend
    BY <1>1, <2>1, DeferWrites DEF NoSend, Writes
  <2>2. CASE mail' = mail /\ todo' = rest /\ Ask(Daemon, "hop", m)
    BY <1>1, <2>2, AskWaits DEF Writes, Asking
  <2> QED BY <1>1, <1>4, <2>1, <2>2, TransmitHandles DEF TakeRoute
<1>5. ASSUME NEW row, Query(m, row, rest) PROVE Writes(m, rest)
  BY <1>1, <1>2, <1>5, AskWaits DEF Query, Writes, Asking
<1>6. ASSUME NEW row, Goes(m, row), OfferCustody(m, row, rest)
      PROVE  Begins(m, rest) \/ Writes(m, rest)
  <2>1. PICK k \in Keepers[m] : TransmitStore(m, row, k, rest)
    BY <1>6 DEF OfferCustody, Candidates
  <2>2. CASE row.state \in Ready
    <3>1. [row EXCEPT !.custody[k] = "offered"] \in MailRow
      BY <1>6, CustodyType DEF Goes, CustodyStatus
    <3>2. \E part : Start(Daemon, m, [row EXCEPT !.custody[k] = "offered"], "store", "store", part, k)
      BY <2>1, <2>2 DEF TransmitStore
    <3>3. todo' = rest
      BY <2>1, <2>2 DEF TransmitStore
    <3> QED BY <1>1, <3>1, <3>2, <3>3, StartBegins
  <2>3. CASE row.state \notin Ready
    BY <1>1, <2>1, <2>3, DeferWrites DEF TransmitStore, Writes
  <2> QED BY <2>2, <2>3
<1>7. ASSUME NEW expired \in BOOLEAN, expired => CanDefer(mail[m].state)
      PROVE  Goes(m, AfterDeadline(m, expired))
  BY <1>1, <1>7, AfterDeadlineGoes
<1>8. \/ mail' = mail /\ todo' = {} /\ NoSend
      \/ TakeRoute(m, rest)
      \/ \E expired \in BOOLEAN :
           LET row == AfterDeadline(m, expired)
           IN  /\ expired => CanDefer(mail[m].state)
               /\ \/ LeaveWaiting(m, row, rest) \/ WakeForDirect(m, row, rest)
                  \/ OfferCustody(m, row, rest) \/ Query(m, row, rest)
  BY DEF Discover
<1>9. \A row : LeaveWaiting(m, row, rest) \/ WakeForDirect(m, row, rest) => NoSend
  BY DEF LeaveWaiting, WakeForDirect
<1> HIDE DEF m, rest
<1>10. Begins(m, rest) \/ Writes(m, rest)
  BY <1>3, <1>4, <1>5, <1>6, <1>7, <1>8, <1>9
<1> QED BY <1>10 DEF m, rest

-----------------------------------------------------------------------------
(* Each step keeps the invariant.                                           *)

\* Where the transactions only fall, and no state turns ready.
LEMMA FallingStep ==
  ASSUME TypeOK, TypeOK', OneTxInv, Remembers, Ebb \/ PttOn \/ CompleteRfTrain,
         todo' \subseteq todo, Waits, Calm
  PROVE  OneTxInv'
BY FallRows, QuietStep DEF OneTxInv

LEMMA EntryStep ==
  ASSUME TypeOK, TypeOK', OneTxInv, Remembers, NEW e \in todo,
         \/ SkipRemoved(e) \/ BroadcastToGroup(e) \/ ExpireMessage(e)
         \/ PrepareQueued(e) \/ HoldMessage(e) \/ HoldCutShort(e) \/ AwaitResponse(e)
         \/ ReturnToDiscovery(e) \/ Discover(e)
  PROVE  OneTxInv'
<1> DEFINE m == e.msg
           rest == todo \ {e}
<1>1. /\ m \in Msgs /\ mail[m] \in MailRow /\ e.state \in Open
      /\ rest \in SUBSET todo /\ \A f \in rest : f.msg # m
  BY TodoType DEF OneTxInv, SnapshotOnce
<1>2. Fresh(m) /\ e.state \in Ready => LiveTxs(m) = {}
  BY DEF OneTxInv, SnapshotQuiet
<1>3. task' = task => Waits
  BY DEF Waits
<1>4. CASE BroadcastToGroup(e) \/ PrepareQueued(e) \/ Discover(e)
  <2>1. Begins(m, rest) \/ Writes(m, rest)
    BY <1>1, <1>4, TransmitHandles, PrepareHandles, DiscoverHandles
       DEF BroadcastToGroup, PrepareQueued
  <2>2. Fresh(m) => LiveTxs(m) = {}
    BY <1>2, <1>4 DEF BroadcastToGroup, GroupTurn, PrepareQueued, Discover, Discovering, Ready
  <2> HIDE DEF m, rest
  <2> QED BY <1>1, <2>1, <2>2, BeginStep, WriteStep
<1>5. CASE ReturnToDiscovery(e)
  <2>1. LiveTxs(m) = {} /\ DeferOrCrash(m, mail[m], 1, rest) /\ tx' = tx /\ task' = task
    BY <1>5 DEF ReturnToDiscovery
  <2> HIDE DEF m, rest
  <2>2. Writes(m, rest)
    BY <1>1, <2>1, DeferWrites DEF Writes
  <2> QED BY <1>1, <2>1, <2>2, WriteStep
<1>6. CASE ExpireMessage(e)
  <2>1. /\ Ebb /\ task' = task /\ todo' \subseteq todo
        /\ mail' = [mail EXCEPT ![m] = Moved(mail[m], "expired")]
    BY <1>6, EbbSame DEF ExpireMessage
  <2>2. Moved(mail[m], "expired").state \in {mail[m].state, "expired"}
    BY <1>1 DEF Moved, MailRow
  <2>3. Calm
    BY <2>1, <2>2 DEF Calm, Startable, Ready, TypeOK
  <2> QED BY <1>3, <2>1, <2>3, FallingStep
<1>7. CASE HoldMessage(e) \/ HoldCutShort(e)
  <2>1. /\ task' = task /\ todo' \subseteq todo /\ active' = active
        /\ tx' = tx \/ tx' = WithoutLive(m)
        /\ \/ mail' = mail
           \/ \E row \in {HeldFirst(mail[m]), Held(mail[m])} : mail' = [mail EXCEPT ![m] = row]
    BY <1>7 DEF HoldMessage, HoldCutShort
  <2>2. Ebb
    <3>1. ASSUME NEW t \in TxIds PROVE Ebbing(tx[t], WithoutLive(m)[t])
      BY EbbingRows DEF WithoutLive, TypeOK
    <3> QED BY <2>1, <3>1, EbbSame DEF Ebb
  <2>3. \A row \in {HeldFirst(mail[m]), Held(mail[m])} : row.state = "acknowledged"
    BY <1>1 DEF HeldFirst, Held, MailRow
  <2>4. Calm
    BY <2>1, <2>3 DEF Calm, Startable, Ready, TypeOK
  <2> QED BY <1>3, <2>1, <2>2, <2>4, FallingStep
<1>8. CASE SkipRemoved(e) \/ AwaitResponse(e)
  <2>1. mail' = mail /\ Ebb /\ task' = task /\ todo' \subseteq todo
    BY <1>8, EbbSame DEF SkipRemoved, AwaitResponse
  <2>2. Calm
    BY <2>1 DEF Calm
  <2> QED BY <1>3, <2>1, <2>2, FallingStep
<1> QED BY <1>4, <1>5, <1>6, <1>7, <1>8

\* A sweep closes the live rows it takes and defers their messages.
LEMMA SweepStep ==
  ASSUME TypeOK, TypeOK', OneTxInv, Remembers, NEW X \in SUBSET TxIds, Sweep(X)
  PROVE  OneTxInv'
<1>1. \A m \in Msgs : mail[m] \in MailRow
  BY DEF TypeOK
<1>2. Ebb /\ task' = task
  <2>1. ASSUME NEW t \in TxIds PROVE Ebbing(tx[t], SweptTx(X)[t])
    BY EbbingRows DEF SweptTx, TypeOK
  <2> QED BY <2>1 DEF Sweep, Ebb
<1>3. Falls /\ RowsBegun'
  BY <1>2, FallRows DEF OneTxInv
<1>4. \A t \in X : IsLive(tx[t]) /\ ~IsLive(tx'[t])
  <2> SUFFICES ASSUME NEW t \in X PROVE IsLive(tx[t]) /\ ~IsLive(tx'[t])
    OBVIOUS
  <2>1. tx[t] \in TxRow
    BY DEF TypeOK
  <2>2. tx'[t] \in {[tx[t] EXCEPT !.status = "unconfirmed"], TimedOut(tx[t])}
    BY DEF Sweep, SweptTx
  <2>3. \A row \in TxRow : /\ ~IsLive([row EXCEPT !.status = "unconfirmed"])
                           /\ ~IsLive(TimedOut(row))
    BY DEF TxRow, IsLive, LiveStatus, TimedOut
  <2>4. IsLive(tx[t])
    BY DEF Sweep, Expirable, ExpirableBroadcast, IsLive, LiveStatus
  <2> QED BY <2>1, <2>2, <2>3, <2>4
<1>5. ASSUME NEW m \in Msgs, Fresh(m), X \cap TxsOf(m) # {} PROVE LiveAfter(m) = {}
  <2>1. PICK t \in X \cap TxsOf(m) : TRUE
    BY <1>5
  <2>2. t \in LiveTxs(m)
    BY <1>4, <2>1 DEF LiveTxs
  <2>3. \A u \in LiveTxs(m) : u = t
    <3>1. \A u \in LiveTxs(m) : u \in TxsOf(m) /\ u <= t /\ t <= u /\ u \in Int /\ t \in Int
      BY <1>5, <2>2 DEF OneTxInv, LiveNewest, LiveTxs, TxsOf, TxIds
    <3> QED BY <3>1
  <2>4. t \notin LiveAfter(m)
    BY <1>4, <2>1 DEF LiveAfter
  <2> QED BY <1>3, <2>3, <2>4 DEF Falls
<1>6. ASSUME NEW m \in Msgs, X \cap TxsOf(m) = {} PROVE mail'[m].state = mail[m].state
  <2>1. PICK Y \in SUBSET X : mail' = [x \in Msgs |-> Swept(x, Y)]
    BY DEF Sweep
  <2>2. Y \cap TxsOf(m) = {}
    BY <1>6
  <2> QED BY <1>1, <2>1, <2>2 DEF Swept, MailRow
<1>7. Calm
  BY <1>5, <1>6 DEF Calm, Remembers
<1> DEFINE new == {[msg |-> m, state |-> mail'[m].state, retries |-> mail'[m].retries] :
                     m \in {x \in Msgs : mail'[x].state \in Open}}
<1>8. todo' \subseteq new
  BY DEF Sweep
<1>9. Waits
  BY <1>2 DEF Waits
<1>10. LiveNewest' /\ ReadyQuiet' /\ AwaitQuiet'
  BY <1>3, <1>7, <1>9, QuietParts
<1>11. SnapshotQuiet' /\ SnapshotOnce'
  <2>1. \A f \in todo' : /\ f.msg \in Msgs /\ f.state = mail'[f.msg].state
                         /\ f = [msg |-> f.msg, state |-> mail'[f.msg].state,
                                 retries |-> mail'[f.msg].retries]
    BY <1>8
  <2>2. SnapshotOnce'
    BY <2>1 DEF SnapshotOnce
  <2>3. SnapshotQuiet'
    BY <1>10, <2>1 DEF SnapshotQuiet, ReadyQuiet, Startable, Fresh
  <2> QED BY <2>2, <2>3
<1> QED BY <1>3, <1>10, <1>11 DEF OneTxInv

\* A step that leaves the states of the messages.
LEMMA CalmSame ==
  ASSUME \A m \in Msgs : mail'[m].state = mail[m].state
  PROVE  Calm
BY DEF Calm

\* The loop comes back from an await.
LEMMA AwaitStep ==
  ASSUME TypeOK, TypeOK', OneTxInv, Remembers, TaskStep(Daemon)
  PROVE  OneTxInv'
<1> DEFINE m == task[Daemon].load.msg
           id == task[Daemon].load.id
<1>1. Daemon \in Tasks /\ Ebb
  BY TaskMoves DEF Tasks
<1>2. /\ task[Daemon].pc \in Asking \cup {"begun", "send"} => m \in Msgs
      /\ task[Daemon].pc \in {"begun", "send"} => id \in TxIds
  BY <1>1, AwaitType DEF Asking
<1>3. Falls
  BY <1>1, FallRows DEF OneTxInv
<1>4. ASSUME task' = [task EXCEPT ![Daemon] = Idle] PROVE Waits
  <2>1. task'[Daemon].pc = "idle"
    BY <1>1, <1>4 DEF TypeOK, Idle
  <2> QED BY <2>1 DEF Waits
<1>5. CASE EnterSendRf(Daemon)
  <2>1. m \in Msgs
    BY <1>2, <1>5 DEF EnterSendRf
  <2>2. \A n \in Msgs : mail'[n].state = mail[n].state
    <3> DEFINE noted == [mail[m] EXCEPT !.enh = @ \/ (task[Daemon].load.part # 0
                                                    /\ task[Daemon].load.op # "store")]
    <3>1. mail' = mail \/ mail' = [mail EXCEPT ![m] = noted]
      BY <1>5 DEF EnterSendRf
    <3>2. noted.state = mail[m].state
      BY <2>1 DEF TypeOK, MailRow
    <3> HIDE DEF noted
    <3> QED BY <3>1, <3>2 DEF TypeOK
  <2>3. todo' \subseteq todo
    BY <1>5 DEF EnterSendRf, LookAndSend, Unwind
  <2>4. CASE task' = [task EXCEPT ![Daemon] = [@ EXCEPT !.pc = "send", !.load = task[Daemon].load]]
    <3>1. task[Daemon] \in Await
      BY <1>1 DEF TypeOK
    <3>2. task'[Daemon].pc = "send" /\ task'[Daemon].load = task[Daemon].load
      BY <1>1, <2>4, <3>1 DEF TypeOK, Await, Idle
    <3>3. task[Daemon].pc = "begun"
      BY <1>5 DEF EnterSendRf
    <3>4. Waits
      BY <3>2, <3>3 DEF Waits
    <3> QED BY <1>1, <2>2, <2>3, <3>4, CalmSame, FallingStep
  <2>5. CASE task' = [task EXCEPT ![Daemon] = Idle]
    BY <1>1, <1>4, <2>2, <2>3, <2>5, CalmSame, FallingStep
  <2> QED BY <1>5, <2>4, <2>5 DEF EnterSendRf, LookAndSend
<1>6. CASE Handoff(Daemon)
  <2>1. m \in Msgs
    BY <1>2, <1>6 DEF Handoff
  <2>2. \A n \in Msgs : mail'[n].state = mail[n].state
    <3>1. PICK b : mail' = [mail EXCEPT ![m] = [mail[m] EXCEPT !.direct = b]]
      BY <1>6 DEF Handoff
    <3>2. [mail[m] EXCEPT !.direct = b].state = mail[m].state
      BY <2>1 DEF TypeOK, MailRow
    <3> QED BY <3>1, <3>2 DEF TypeOK
  <2>3. todo' \subseteq todo /\ task' = [task EXCEPT ![Daemon] = Idle]
    BY <1>6 DEF Handoff, Unwind
  <2> QED BY <1>1, <1>4, <2>2, <2>3, CalmSame, FallingStep
<1>7. ASSUME NEW exhausted \in BOOLEAN, FailSend(Daemon, exhausted) PROVE OneTxInv'
  <2>1. m \in Msgs /\ id \in TxIds /\ task[Daemon].pc = "send"
    BY <1>2, <1>7 DEF FailSend
  <2>2. /\ tx' = TxWith(id, Unconfirmed(tx[id])) /\ task' = [task EXCEPT ![Daemon] = Idle]
    BY <1>7 DEF FailSend
  <2>3. todo' \subseteq todo /\ \A n \in Msgs \ {m} : mail'[n] = mail[n]
    <3> DEFINE row == [mail[m] EXCEPT !.custody =
                         IF task[Daemon].via = "store"
                         THEN [@ EXCEPT ![task[Daemon].load.peer] = "failed"] ELSE @]
    <3>1. \/ mail' = mail /\ todo' \in {todo, {}}
          \/ mail' = [mail EXCEPT ![m] = Moved(row, "failed")] /\ todo' \in {todo, {}}
          \/ DeferOrCrash(m, row, 1, todo)
          \/ OnError(m, task[Daemon].via, "runtime", todo)
      BY <1>7 DEF FailSend, Unwind
    <3> HIDE DEF row, m
    <3>2. CASE mail' = [mail EXCEPT ![m] = Moved(row, "failed")] /\ todo' \in {todo, {}}
      BY <3>2 DEF TypeOK
    <3> QED BY <2>1, <3>1, <3>2, DeferWrites, ErrorWrites
  <2>4. Fresh(m) => LiveAfter(m) = {}
    <3>1. Fresh(m) => LiveTxs(m) \subseteq {id}
      BY <2>1 DEF OneTxInv, AwaitQuiet
    <3>2. ~IsLive(Unconfirmed(tx[id]))
      <4>1. tx[id] \in TxRow
        BY <2>1 DEF TypeOK
      <4> QED BY <4>1 DEF Unconfirmed, TxRow, IsLive, LiveStatus
    <3>3. id \notin LiveAfter(m)
      BY <2>1, <2>2, <3>2 DEF TxWith, TypeOK, LiveAfter
    <3> QED BY <1>3, <2>1, <3>1, <3>3 DEF Falls
  <2>5. Calm
    BY <2>3, <2>4 DEF Calm, Remembers
  <2> QED BY <1>1, <1>4, <2>2, <2>3, <2>5, FallingStep
<1>8. ASSUME NEW sent \in BOOLEAN, AskDone(Daemon, sent) PROVE OneTxInv'
  <2>1. m \in Msgs /\ task[Daemon].pc \in Asking
    BY <1>2, <1>8 DEF AskDone, Asking
  <2>2. Fresh(m) => LiveTxs(m) = {}
    BY <2>1 DEF OneTxInv, AwaitQuiet
  <2>3. /\ tx' = tx /\ todo' \subseteq todo
        /\ mail' = mail \/ \E n : mail' = [mail EXCEPT ![m] = Deferred(mail[m], n)]
        /\ task' = [task EXCEPT ![Daemon] = Idle]
    BY <1>8 DEF AskDone, Unwind
  <2> HIDE DEF m
  <2>4. \A n \in Msgs \ {m} : mail'[n] = mail[n]
    BY <2>3 DEF TypeOK
  <2>5. task'[Daemon].pc = "idle"
    BY <1>1, <2>3 DEF TypeOK, Idle
  <2>6. Writes(m, todo)
    BY <2>3, <2>4, <2>5 DEF Writes
  <2> QED BY <2>1, <2>2, <2>6, WriteStep
<1>9. CASE HandoffPart(Daemon)
  <2> DEFINE next == [task[Daemon].load EXCEPT !.part = @ + 1]
  <2>1. /\ task[Daemon].pc = "send" /\ mail' = mail /\ LookAndSend(Daemon, next)
    BY <1>9 DEF HandoffPart
  <2>2. \A n \in Msgs : mail'[n].state = mail[n].state
    BY <2>1
  <2>3. todo' \subseteq todo
    BY <2>1 DEF LookAndSend, Unwind
  <2>4. CASE task' = [task EXCEPT ![Daemon] = [@ EXCEPT !.pc = "send", !.load = next]]
    <3>1. task[Daemon] \in Await /\ task[Daemon].load \in Frame
      BY <1>1, <2>1, AwaitType DEF TypeOK
    <3>2. next.msg = task[Daemon].load.msg /\ next.id = task[Daemon].load.id
      BY <3>1 DEF Frame
    <3> HIDE DEF next
    <3>3. task'[Daemon].pc = "send" /\ task'[Daemon].load = next
      BY <1>1, <2>4, <3>1 DEF TypeOK, Await, Idle
    <3>4. Waits
      BY <2>1, <3>2, <3>3 DEF Waits
    <3> QED BY <1>1, <2>2, <2>3, <3>4, CalmSame, FallingStep
  <2>5. CASE task' = [task EXCEPT ![Daemon] = Idle]
    BY <1>1, <1>4, <2>2, <2>3, <2>5, CalmSame, FallingStep
  <2> QED BY <2>1, <2>4, <2>5 DEF LookAndSend
<1> QED BY <1>5, <1>6, <1>7, <1>8, <1>9 DEF TaskStep

\* The operator and the clock.
LEMMA OperatorStep ==
  ASSUME TypeOK, TypeOK', OneTxInv, Remembers, UiTasks = {}, Operator \/ Clock
  PROVE  OneTxInv'
<1>1. /\ task' = task /\ todo' = todo /\ Ebb
      /\ \E m \in Msgs : \/ Compose(m) \/ Cancel(m) \/ Retry(m) \/ Delete(m)
                         \/ Lapse(m) \/ FallDue(m)
  <2>1. Ebb
    BY OperatorMoves
  <2> QED BY <2>1 DEF Operator, Clock, Compose, Cancel, Retry, Delete, Lapse, FallDue
<1>2. PICK m \in Msgs : \/ Compose(m) \/ Cancel(m) \/ Retry(m) \/ Delete(m)
                        \/ Lapse(m) \/ FallDue(m)
  BY <1>1
<1>3. mail[m] \in MailRow /\ mail[m].era \in Nat
  BY DEF TypeOK, MailRow
<1>4. /\ \A n \in Msgs \ {m} : mail'[n] = mail[n]
      /\ \/ mail[m].state = "none"
         \/ mail'[m].state \in {mail[m].state, "cancelled", "gone"}
         \/ mail'[m].era = mail[m].era + 1
  <2>1. CASE Compose(m) \/ Cancel(m)
    BY <1>3, <2>1 DEF Compose, Cancel, TypeOK, MailRow
  <2>2. CASE Retry(m)
    BY <1>3, <2>2 DEF Retry, TypeOK, MailRow
  <2>3. CASE Delete(m)
    BY <1>3, <2>3 DEF Delete, TypeOK, NewRow
  <2>4. CASE Lapse(m) \/ FallDue(m)
    BY <1>3, <2>4 DEF Lapse, FallDue, TypeOK, MailRow
  <2> QED BY <1>2, <2>1, <2>2, <2>3, <2>4
<1>5. Calm
  BY <1>3, <1>4 DEF Calm, Startable, Ready
<1> QED BY <1>1, <1>5, FallingStep DEF Waits

\* The radio.
LEMMA RadioStep ==
  ASSUME TypeOK, TypeOK', OneTxInv, Remembers, Radio
  PROVE  OneTxInv'
<1>1. Calm
  BY RadioSettles DEF Settles, Calm, Startable, Ready
<1>2. todo' \subseteq todo
  BY DEF Radio, ForeignText, PttOn, PttOff, CompleteRfTrain, DropText, LinkLost, LinkUp, Crash
<1>3. Waits
  <2>1. task' = task \/ task' = [c \in Tasks |-> Idle]
    BY DEF Radio, ForeignText, PttOn, PttOff, CompleteRfTrain, DropText, LinkLost, LinkUp, Crash
  <2> QED BY <2>1 DEF Waits, Tasks, Idle
<1> QED BY <1>1, <1>2, <1>3, RadioMoves, FallingStep

\* What comes back: a part receipt closes the newest row, so the only live one.
LEMMA RepliesStep ==
  ASSUME TypeOK, TypeOK', OneTxInv, Remembers, Replies
  PROVE  OneTxInv'
<1>1. Ebb /\ task' = task /\ todo' = todo
  BY RepliesMove DEF Replies, CustodianForwards, ReceiveAck, ReceivePartReceipt, ReceiveDelivered
<1>2. CASE Settles
  BY <1>1, <1>2, FallingStep DEF Settles, Calm, Startable, Ready, Waits
<1>3. ASSUME NEW m \in Msgs, NEW received, ReceivePartReceipt(m, received) PROVE Calm
  <2> DEFINE last == CHOOSE t \in TxsOf(m) : \A u \in TxsOf(m) : u <= t
             merged == [mail[m] EXCEPT !.confirmed = @ \cup received]
  <2>1. \A n \in Msgs \ {m} : mail'[n] = mail[n]
    BY <1>3, PartReceiptRow DEF TypeOK
  <2>2. mail[m] \in MailRow /\ merged.state = mail[m].state
    BY DEF TypeOK, MailRow
  <2>3. CASE mail' = [mail EXCEPT ![m] = merged]
    BY <2>1, <2>2, <2>3 DEF Calm, TypeOK
  <2>4. CASE tx' = IF TxsOf(m) # {} /\ IsLive(tx[last])
                   THEN TxWith(last, Acknowledged(tx[last])) ELSE tx
    <3>1. ASSUME Fresh(m) PROVE LiveAfter(m) = {}
      <4>1. Falls
        BY <1>1, FallRows DEF OneTxInv
      <4>2. ASSUME NEW t \in LiveTxs(m) PROVE t = last /\ t \notin LiveAfter(m)
        <5>1. t \in TxsOf(m) /\ \A u \in TxsOf(m) : u <= t
          BY <3>1 DEF OneTxInv, LiveNewest, LiveTxs
        <5>2. last \in TxsOf(m) /\ \A u \in TxsOf(m) : u <= last
          BY <5>1
        <5>3. t = last
          BY <5>1, <5>2 DEF TxsOf, TxIds
        <5>4. tx[last] \in TxRow /\ IsLive(tx[last])
          BY <5>2, <5>3 DEF TxsOf, LiveTxs, TypeOK
        <5>5. ~IsLive(Acknowledged(tx[last]))
          BY <5>4 DEF Acknowledged, TxRow, IsLive, LiveStatus
        <5>6. tx' = [tx EXCEPT ![last] = Acknowledged(tx[last])]
          BY <2>4, <5>1, <5>4 DEF TxWith
        <5> HIDE DEF last
        <5> QED BY <5>2, <5>3, <5>5, <5>6 DEF TypeOK, LiveAfter, TxsOf
      <4> QED BY <4>1, <4>2 DEF Falls
    <3> QED BY <2>1, <3>1 DEF Calm, Remembers
  <2> QED BY <1>3, <2>3, <2>4 DEF ReceivePartReceipt
<1>4. ASSUME NEW m \in Msgs, NEW k, CustodianForwards(m, k) PROVE Settles
  BY <1>4 DEF CustodianForwards, Settles
<1>5. CASE Calm
  BY <1>1, <1>5, FallingStep DEF Waits
<1> QED BY <1>2, <1>3, <1>4, <1>5, AckSettles, DeliveredSettles DEF Replies

LEMMA OneTxStep ==
  ASSUME TypeOK, TypeOK', OneTxInv, UiTasks = {}, [Next]_vars
  PROVE  OneTxInv'
<1>1. Remembers
  BY EraStays
<1>2. CASE UNCHANGED vars
  <2>1. /\ Ebb /\ task' = task /\ todo' = todo
        /\ \A m \in Msgs : mail'[m].state = mail[m].state
    BY <1>2, EbbSame DEF vars
  <2> QED BY <1>1, <2>1, CalmSame, FallingStep DEF Waits
<1>3. CASE LoopStep
  BY <1>1, <1>3, SweepStep, EntryStep DEF LoopStep
<1>4. ASSUME NEW c \in Tasks, TaskStep(c) PROVE OneTxInv'
  <2>1. c = Daemon
    BY DEF Tasks
  <2> QED BY <1>1, <1>4, <2>1, AwaitStep
<1> QED BY <1>1, <1>2, <1>3, <1>4, OperatorStep, RadioStep, RepliesStep DEF Next

LEMMA OneTxInit == Init => OneTxInv
<1> SUFFICES ASSUME Init PROVE OneTxInv
  OBVIOUS
<1>1. \A m \in Msgs : TxsOf(m) = {} /\ LiveTxs(m) = {}
  BY OutboxAssumption DEF Init, TxsOf, LiveTxs, NoTx
<1>2. task[Daemon].pc = "idle" /\ todo = {}
  BY DEF Init, Tasks, Idle
<1>3. RowsBegun
  BY DEF Init, RowsBegun, NoTx
<1> QED BY <1>1, <1>2, <1>3
        DEF OneTxInv, LiveNewest, ReadyQuiet, SnapshotQuiet, SnapshotOnce, AwaitQuiet, Asking

\* When no HTTP request transmits, a message the operator has not requeued has
\* at most one live transaction, in every order of passes, awaits, deadlines,
\* receipts, lost links and restarts: the loop begins one only for a row of
\* its snapshot that has none, and whatever makes a message ready again has
\* closed the one there was.
THEOREM OneLiveTransaction ==
  ASSUME UiTasks = {}
  PROVE  Spec => []OneLive
<1>1. TypeOK /\ TypeOK' /\ OneTxInv /\ [Next]_vars => OneTxInv'
  BY OneTxStep
<1>2. OneTxInv => OneLive
  <2> SUFFICES ASSUME OneTxInv, NEW m \in Msgs, Fresh(m), NEW t \in LiveTxs(m), NEW u \in LiveTxs(m)
               PROVE  t = u
    BY DEF OneLive, Fresh
  <2>1. t <= u /\ u <= t /\ t \in Int /\ u \in Int
    BY DEF OneTxInv, LiveNewest, LiveTxs, TxsOf, TxIds
  <2> QED BY <2>1
<1> QED BY <1>1, <1>2, OneTxInit, TypeCorrect, PTL DEF Spec

=============================================================================
