---------------------------- MODULE Outbox_proofs ----------------------------
(****************************************************************************)
(* What holds of Outbox for every set of messages, stations and requests    *)
(* and every value of its bounds: its type invariant, that a held message   *)
(* owns no live transaction, and that no live transaction escapes the       *)
(* sweeps.                                                                  *)
(****************************************************************************)
EXTENDS Outbox, FiniteSetTheorems, TLAPS

-----------------------------------------------------------------------------
(* The rows that the helpers of the store return. *)

\* The retry count stays within the value it is compared with.
LEMMA BumpType ==
  ASSUME NEW r \in 0..CustodyRetries, NEW n \in Nat
  PROVE  Bump(r, n) \in 0..CustodyRetries
BY OutboxAssumption DEF Bump

\* defer_message writes a row.
LEMMA DeferredType ==
  ASSUME NEW row \in MailRow, NEW n \in Nat
  PROVE  Deferred(row, n) \in MailRow
<1>1. row.retries \in 0..CustodyRetries
  BY DEF MailRow
<1>2. Bump(row.retries, n) \in 0..CustodyRetries
  BY <1>1, BumpType
<1> QED BY <1>2 DEF Deferred, MailRow, MailState, States

\* transition_message writes a row, or none.
LEMMA MovedType ==
  ASSUME NEW row \in MailRow, NEW target \in States
  PROVE  Moved(row, target) \in MailRow
BY DEF Moved, MailRow, MailState

\* wake_message_for_route writes a row, or none.
LEMMA WokenType ==
  ASSUME NEW row \in MailRow
  PROVE  Woken(row) \in MailRow
BY DEF Woken, MailRow

\* Every UPDATE of the ledger turns a row into a row.
LEMMA LedgerType ==
  ASSUME NEW row \in TxRow
  PROVE  /\ Submitted(row) \in TxRow
         /\ Activated(row) \in TxRow
         /\ Finished(row) \in TxRow
         /\ BroadcastDone(row) \in TxRow
         /\ Acknowledged(row) \in TxRow
         /\ Unconfirmed(row) \in TxRow
         /\ TimedOut(row) \in TxRow
BY ZenonT(40) DEF TxRow, TxStatus, LiveStatus, Submitted, Activated, Finished,
                BroadcastDone, Acknowledged, Unconfirmed, TimedOut

-----------------------------------------------------------------------------
(* The conjuncts of TypeOK, by variable. *)

MailOK == mail \in [Msgs -> MailRow]
TxOK == tx \in [TxIds -> TxRow]
TodoOK == todo \subseteq [msg : Msgs, state : Open, retries : 0..CustodyRetries]
TaskOK == task \in [Tasks -> Await]
ActiveOK == active \in TxIds \cup {Nil}
AirOK == /\ air \in [phase : {"idle", "queued", "keyed", "quiet"}, load : Loads]
         /\ up \in BOOLEAN
AcksOK == acks \in [Stations -> {"none", "new", "dup"}]
PeerOK == peer \in [Msgs -> [got : SUBSET Parts, kept : [Custodians -> SUBSET Parts],
                             echo : SUBSET SUBSET Parts]]

\* TypeOK is the conjunction of its parts, now and after a step.
LEMMA TypeParts ==
  /\ TypeOK <=> /\ MailOK /\ TxOK /\ TodoOK /\ TaskOK
                /\ ActiveOK /\ AirOK /\ AcksOK /\ PeerOK
  /\ TypeOK' <=> /\ MailOK' /\ TxOK' /\ TodoOK' /\ TaskOK'
                 /\ ActiveOK' /\ AirOK' /\ AcksOK' /\ PeerOK'
BY DEF TypeOK, MailOK, TxOK, TodoOK, TaskOK, ActiveOK, AirOK, AcksOK, PeerOK

\* The empty database and the idle program are of their types.
LEMMA InitTypes == Init => TypeOK
<1> SUFFICES ASSUME Init PROVE TypeOK
  OBVIOUS
<1>1. NewRow \in MailRow
  BY OutboxAssumption DEF NewRow, MailRow, MailState, States, CustodyStatus, Parts
<1>2. NoTx \in TxRow
  BY OutboxAssumption DEF NoTx, TxRow, Names, Ops, TxStatus, LiveStatus
<1>3. Foreign \in Loads
  BY DEF Loads
<1>4. Idle \in Await
  BY DEF Await
<1> QED BY <1>1, <1>2, <1>3, <1>4
        DEF Init, TypeOK, Quiet, Parts

\* What goes on the air for a transaction.
LEMMA FrameType ==
  ASSUME NEW t \in TxIds, NEW m \in Msgs, NEW op \in Ops, NEW part \in 0..NParts,
         NEW responder \in Names
  PROVE  [id |-> t, msg |-> m, op |-> op, part |-> part, peer |-> responder] \in Frame
BY DEF Frame

\* Starting a transmission keeps the tables, the awaits and the active row typed.
LEMMA StartType ==
  ASSUME TypeOK, NEW c \in Tasks, NEW m \in Msgs, NEW row \in MailRow,
         NEW via \in Via, NEW op \in Ops, NEW part \in 0..NParts,
         NEW responder \in Names, Start(c, m, row, via, op, part, responder)
  PROVE  MailOK' /\ TxOK' /\ TaskOK' /\ ActiveOK'
<1>1. PICK t \in TxIds :
        /\ tx' = TxWith(t, [msg |-> m, op |-> op, part |-> part, peer |-> responder,
                            status |-> "queued", submitted |-> FALSE,
                            finished |-> FALSE, era |-> row.era, aired |-> FALSE])
        /\ mail' = [mail EXCEPT ![m] = [row EXCEPT !.state = "in_progress"]]
        /\ active' = IF c = Daemon THEN t ELSE active
        /\ task' = [task EXCEPT ![c] =
                      [pc |-> "begun", via |-> via,
                       load |-> [id |-> t, msg |-> m, op |-> op, part |-> part,
                                 peer |-> responder]]]
  BY DEF Start
<1>2. MailOK'
  <2>1. [row EXCEPT !.state = "in_progress"] \in MailRow
    BY DEF MailRow, MailState, States
  <2> QED BY <1>1, <2>1 DEF MailOK, TypeOK
<1>3. TxOK'
  BY <1>1 DEF TxOK, TypeOK, TxWith, TxRow, MailRow, TxStatus, LiveStatus
<1>4. TaskOK'
  BY <1>1, FrameType DEF TaskOK, TypeOK, Await
<1>5. ActiveOK'
  BY <1>1 DEF ActiveOK, TypeOK
<1> QED BY <1>2, <1>3, <1>4, <1>5

\* The parts transmit may send are part numbers.
LEMMA NextPartType ==
  ASSUME NEW m \in Msgs
  PROVE  NextPart(m) \subseteq 0..NParts
BY OutboxAssumption DEF NextPart, Parts

\* A destination is a station or a group.
LEMMA DestType ==
  ASSUME NEW m \in Msgs
  PROVE  Dest[m] \in Names
BY OutboxAssumption DEF Names, Groups

\* transmit, up to its first await, keeps the types.
LEMMA StartTransmitType ==
  ASSUME TypeOK, NEW c \in Tasks, NEW m \in Msgs, NEW via \in Via, NEW rest,
         StartTransmit(c, m, via, rest)
  PROVE  MailOK' /\ TxOK' /\ TaskOK' /\ ActiveOK' /\ todo' = rest
<1>1. mail[m] \in MailRow /\ Dest[m] \in Names
  BY DestType DEF TypeOK
<1>2. 0 \in 0..NParts
  BY OutboxAssumption
<1>3. PICK op \in Ops, part \in 0..NParts : Start(c, m, mail[m], via, op, part, Dest[m])
  BY <1>2, NextPartType DEF StartTransmit, Ops
<1> QED BY <1>1, <1>3, StartType DEF StartTransmit

\* A deferral that may raise keeps the types.
LEMMA DeferOrCrashType ==
  ASSUME TypeOK, NEW m \in Msgs, NEW row \in MailRow, NEW n \in Nat,
         NEW rest \in SUBSET todo, DeferOrCrash(m, row, n, rest)
  PROVE  MailOK' /\ TodoOK'
BY DeferredType DEF TypeOK, DeferOrCrash, MailOK, TodoOK

\* A deferral whose refusal is swallowed keeps the types.
LEMMA DeferQuietlyType ==
  ASSUME TypeOK, NEW m \in Msgs, NEW n \in Nat, NEW rest \in SUBSET todo,
         DeferQuietly(m, n, rest)
  PROVE  MailOK' /\ TodoOK'
BY DeferredType DEF TypeOK, DeferQuietly, MailOK, TodoOK

\* What a caller of transmit writes after an exception keeps the types.
LEMMA OnErrorType ==
  ASSUME TypeOK, NEW m \in Msgs, NEW via, NEW kind,
         NEW rest \in SUBSET todo, OnError(m, via, kind, rest)
  PROVE  MailOK' /\ TodoOK'
<1>1. mail[m] \in MailRow
  BY DEF TypeOK
<1>2. \/ DeferOrCrash(m, mail[m], 1, rest)
      \/ DeferOrCrash(m, mail[m], 0, rest)
      \/ DeferQuietly(m, 0, rest)
      \/ mail' = mail /\ todo' = rest
  BY DEF OnError
<1>3. CASE mail' = mail /\ todo' = rest
  BY <1>3 DEF TypeOK, MailOK, TodoOK
<1> QED BY <1>1, <1>2, <1>3, DeferOrCrashType, DeferQuietlyType

\* transmit, begun or refused, keeps the types.
LEMMA TransmitType ==
  ASSUME TypeOK, NEW c \in Tasks, NEW m \in Msgs, NEW via \in Via,
         NEW rest \in SUBSET todo, Transmit(c, m, via, rest)
  PROVE  MailOK' /\ TxOK' /\ TodoOK' /\ TaskOK' /\ ActiveOK'
<1>1. CASE StartTransmit(c, m, via, rest)
  BY <1>1, StartTransmitType DEF TypeOK, TodoOK
<1>2. CASE RefuseTransmit(c, m, via, rest)
  <2>1. MailOK' /\ TodoOK'
    BY <1>2, OnErrorType DEF RefuseTransmit
  <2>2. Idle \in Await
    BY DEF Await
  <2> QED BY <1>2, <2>1, <2>2 DEF RefuseTransmit, TypeOK, TxOK, TaskOK, ActiveOK
<1> QED BY <1>1, <1>2 DEF Transmit

-----------------------------------------------------------------------------
(* Each action keeps the types. *)

\* Rewriting one row keeps the table of transactions.
LEMMA TxWithType ==
  ASSUME TypeOK, NEW t, NEW row, t \in TxIds => row \in TxRow
  PROVE  TxWith(t, row) \in [TxIds -> TxRow]
BY DEF TypeOK, TxWith

\* The idle coroutine, the foreign text and the silent train are of their types.
LEMMA IdleType ==
  /\ Idle \in Await
  /\ Foreign \in Loads
  /\ Quiet \in [phase : {"idle", "queued", "keyed", "quiet"}, load : Loads]
BY DEF Await, Quiet, Loads

\* Recording a part or an attempt writes a row.
LEMMA FlagType ==
  ASSUME NEW row \in MailRow, NEW b \in BOOLEAN
  PROVE  [row EXCEPT !.enh = b] \in MailRow /\ [row EXCEPT !.direct = b] \in MailRow
BY DEF MailRow

\* Recording the status of a custody offer writes a row.
LEMMA CustodyType ==
  ASSUME NEW row \in MailRow, NEW k, NEW status \in CustodyStatus
  PROVE  [row EXCEPT !.custody[k] = status] \in MailRow
<1>1. [row.custody EXCEPT ![k] = status] \in [Custodians -> CustodyStatus]
  BY DEF MailRow
<1> QED BY <1>1 DEF MailRow

\* What a coroutine knows of the message it is about.
LEMMA AwaitType ==
  ASSUME TypeOK, NEW c \in Tasks
  PROVE  /\ task[c].pc \in {"begun", "send"} =>
              /\ task[c].load \in Frame /\ task[c].load \in Loads
              /\ task[c].load.id \in TxIds /\ task[c].load.msg \in Msgs
              /\ [task[c] EXCEPT !.pc = "send", !.load = task[c].load] \in Await
              /\ MoreParts(task[c].load) =>
                   [task[c] EXCEPT !.pc = "send", !.load.part = @ + 1] \in Await
         /\ task[c].pc \in {"prepare", "probe", "hop", "query"} => task[c].load.msg \in Msgs
<1>1. task[c] \in Await
  BY DEF TypeOK
<1>2. CASE task[c] = Idle
  BY <1>2 DEF Idle
<1>3. CASE task[c] \in [pc : {"begun", "send"}, via : Via, load : Frame]
  <2>1. MoreParts(task[c].load) => task[c].load.part + 1 \in 0..NParts
    BY OutboxAssumption DEF MoreParts
  <2> QED BY <1>3, <2>1 DEF Await, Loads, Frame
<1>4. CASE task[c] \in [pc : {"prepare", "probe", "hop", "query"}, via : {"none"},
                        load : {About(m) : m \in Msgs}]
  <2>1. PICK m \in Msgs : task[c].load = About(m)
    BY <1>4
  <2>2. task[c].load.msg \in Msgs
    BY <2>1 DEF About, Foreign
  <2> QED BY <1>4, <2>2
<1> QED BY <1>1, <1>2, <1>3, <1>4 DEF Await

\* Sending a probe or a query keeps the types.
LEMMA AskType ==
  ASSUME TypeOK, NEW c \in Tasks, NEW pc \in {"probe", "hop", "query"}, NEW m \in Msgs, Ask(c, pc, m)
  PROVE  TaskOK' /\ TxOK' /\ ActiveOK'
<1>1. [pc |-> pc, via |-> "none", load |-> About(m)] \in Await
  BY DEF Await
<1> QED BY <1>1 DEF Ask, TypeOK, TaskOK, TxOK, ActiveOK

\* The last look at the state before a text goes into send_rf keeps the types.
LEMMA LookType ==
  ASSUME TypeOK, NEW c \in Tasks, NEW load \in Frame, LookAndSend(c, load),
         [task[c] EXCEPT !.pc = "send", !.load = load] \in Await
  PROVE  TxOK' /\ TaskOK' /\ TodoOK' /\ ActiveOK'
<1>1. \A t : t \in TxIds => Unconfirmed(tx[t]) \in TxRow
  BY LedgerType DEF TypeOK
<1>2. TxOK'
  BY <1>1, TxWithType DEF LookAndSend, TypeOK, TxOK
<1>3. TodoOK' /\ ActiveOK'
  BY DEF LookAndSend, TypeOK, TodoOK, ActiveOK, Unwind, ActiveWithout
<1>4. TaskOK'
  BY IdleType DEF LookAndSend, TypeOK, TaskOK
<1> QED BY <1>2, <1>3, <1>4

LEMMA EnterSendRfType ==
  ASSUME TypeOK, NEW c \in Tasks, EnterSendRf(c)
  PROVE  TypeOK'
<1> DEFINE load == task[c].load
<1>1. MailOK'
  <2> DEFINE b == mail[load.msg].enh \/ (load.part # 0 /\ load.op # "store")
  <2>1. b \in BOOLEAN
    OBVIOUS
  <2>2. load.msg \in Msgs => [mail[load.msg] EXCEPT !.enh = b] \in MailRow
    BY <2>1, FlagType DEF TypeOK
  <2>3. mail' = mail \/ mail' = [mail EXCEPT ![load.msg] = [mail[load.msg] EXCEPT !.enh = b]]
    BY DEF EnterSendRf
  <2> HIDE DEF b
  <2> QED BY <2>2, <2>3 DEF TypeOK, MailOK
<1>2. TxOK' /\ TaskOK' /\ TodoOK' /\ ActiveOK'
  BY AwaitType, LookType DEF EnterSendRf
<1>3. AirOK' /\ AcksOK' /\ PeerOK'
  BY DEF EnterSendRf, TypeOK, AirOK, AcksOK, PeerOK
<1> QED BY <1>1, <1>2, <1>3, TypeParts

\* The next text of an offer in parts.
LEMMA NextLoad ==
  ASSUME TypeOK, NEW c \in Tasks, task[c].pc = "send", MoreParts(task[c].load)
  PROVE  LET load == task[c].load
             next == [load EXCEPT !.part = @ + 1]
         IN  /\ load \in Frame /\ load \in Loads /\ next \in Frame
             /\ next.id = load.id /\ next.msg = load.msg /\ next.op = load.op
             /\ next.peer = load.peer /\ next.part \in 1..NParts
<1>1. task[c].load \in Frame /\ task[c].load \in Loads
  BY AwaitType
<1>2. task[c].load.part + 1 \in 0..NParts /\ task[c].load.part + 1 \in 1..NParts
  BY OutboxAssumption DEF MoreParts
<1> QED BY <1>1, <1>2 DEF Frame

\* The handoff of one text of a store offer keeps the types.
LEMMA HandoffPartType ==
  ASSUME TypeOK, NEW c \in Tasks, HandoffPart(c)
  PROVE  TypeOK'
<1> DEFINE load == task[c].load
           next == [load EXCEPT !.part = @ + 1]
<1>1. task[c].pc = "send" /\ MoreParts(load) /\ LookAndSend(c, next)
  BY DEF HandoffPart
<1>2. load \in Loads /\ next \in Frame
  BY <1>1, NextLoad
<1>3. [task[c] EXCEPT !.pc = "send", !.load = next] \in Await
  BY <1>1, AwaitType
<1>4. TxOK' /\ TaskOK' /\ TodoOK' /\ ActiveOK'
  BY <1>1, <1>2, <1>3, LookType
<1>5. MailOK' /\ AirOK' /\ AcksOK' /\ PeerOK'
  BY <1>2 DEF HandoffPart, TypeOK, MailOK, AirOK, AcksOK, PeerOK
<1> QED BY <1>4, <1>5, TypeParts

\* The handoff to JS8Call keeps the types.
LEMMA HandoffType ==
  ASSUME TypeOK, NEW c \in Tasks, Handoff(c)
  PROVE  TypeOK'
<1>1. \A t : t \in TxIds => Unconfirmed(tx[t]) \in TxRow /\ Submitted(tx[t]) \in TxRow
  BY LedgerType DEF TypeOK
<1>2. TxOK'
  BY <1>1, TxWithType DEF Handoff, TypeOK, TxOK
<1>3. MailOK'
  <2> DEFINE load == task[c].load
             held == mail[load.msg].state = "acknowledged" /\ load.op # "store"
             raised == mail[load.msg].state = "gone"
             b == mail[load.msg].direct
                    \/ (~held /\ ~raised /\ load.op \in {"direct", "multipart"})
  <2>1. b \in BOOLEAN
    OBVIOUS
  <2>2. load.msg \in Msgs => [mail[load.msg] EXCEPT !.direct = b] \in MailRow
    BY <2>1, FlagType DEF TypeOK
  <2>3. mail' = [mail EXCEPT ![load.msg] = [mail[load.msg] EXCEPT !.direct = b]]
    BY DEF Handoff
  <2> HIDE DEF b
  <2> QED BY <2>2, <2>3 DEF TypeOK, MailOK
<1>4. TodoOK' /\ ActiveOK'
  BY DEF Handoff, TypeOK, TodoOK, ActiveOK, Unwind, ActiveWithout
<1>5. TaskOK' /\ AirOK'
  BY IdleType, AwaitType DEF Handoff, TypeOK, TaskOK, AirOK
<1>6. AcksOK' /\ PeerOK'
  BY DEF Handoff, TypeOK, AcksOK, PeerOK
<1> QED BY <1>2, <1>3, <1>4, <1>5, <1>6, TypeParts

\* A send_rf that raises keeps the types.
LEMMA FailSendType ==
  ASSUME TypeOK, NEW c \in Tasks, NEW exhausted \in BOOLEAN, FailSend(c, exhausted)
  PROVE  TypeOK'
<1> DEFINE load == task[c].load
           m == load.msg
           via == task[c].via
           lost == [mail[m] EXCEPT !.custody =
                      IF via = "store" THEN [@ EXCEPT ![load.peer] = "failed"] ELSE @]
<1>1. \A t : t \in TxIds => Unconfirmed(tx[t]) \in TxRow
  BY LedgerType DEF TypeOK
<1>2. TxOK'
  BY <1>1, TxWithType DEF FailSend, TypeOK, TxOK
<1>7. m \in Msgs
  BY AwaitType DEF FailSend
<1>3. mail[m] \in MailRow /\ lost \in MailRow
  <2>1. ASSUME m \in Msgs
        PROVE  mail[m] \in MailRow /\ [mail[m] EXCEPT !.custody[load.peer] = "failed"] \in MailRow
    BY <2>1, CustodyType DEF TypeOK, CustodyStatus
  <2>2. ASSUME m \in Msgs, via # "store" PROVE lost = mail[m]
    BY <2>2 DEF TypeOK, MailRow
  <2>3. ASSUME m \in Msgs, via = "store"
        PROVE  lost = [mail[m] EXCEPT !.custody[load.peer] = "failed"]
    BY <2>3
  <2> QED BY <1>7, <2>1, <2>2, <2>3
<1>4. MailOK' /\ TodoOK'
  <2>1. CASE mail' = mail /\ todo' = Unwind(c, TRUE, todo)
    BY <2>1 DEF TypeOK, MailOK, TodoOK, Unwind
  <2>2. CASE /\ mail' = [mail EXCEPT ![m] = Moved(lost, "failed")]
             /\ todo' = Unwind(c, ~CanTransition(mail[m].state, "failed"), todo)
    <3>1. Moved(lost, "failed") \in MailRow
      BY <1>3, MovedType DEF States
    <3> QED BY <2>2, <3>1 DEF TypeOK, MailOK, TodoOK, Unwind
  <2>3. CASE DeferOrCrash(m, lost, 1, todo)
    BY <2>3, <1>3, <1>7, DeferOrCrashType
  <2>4. CASE OnError(m, via, "runtime", todo)
    BY <2>4, <1>7, OnErrorType
  <2> QED BY <2>1, <2>2, <2>3, <2>4 DEF FailSend
<1>5. TaskOK' /\ ActiveOK'
  BY IdleType DEF FailSend, TypeOK, TaskOK, ActiveOK, ActiveWithout
<1>6. AirOK' /\ AcksOK' /\ PeerOK'
  BY DEF FailSend, TypeOK, AirOK, AcksOK, PeerOK
<1> QED BY <1>2, <1>4, <1>5, <1>6, TypeParts

\* prepare, up to its first await, keeps the types.
LEMMA PrepareType ==
  ASSUME TypeOK, NEW c \in Tasks, NEW m \in Msgs, NEW rest \in SUBSET todo,
         Prepare(c, m, rest)
  PROVE  MailOK' /\ TxOK' /\ TodoOK' /\ TaskOK' /\ ActiveOK'
<1>1. CASE Transmit(c, m, "prepare", rest)
  BY <1>1, TransmitType DEF Via
<1>2. CASE mail' = mail /\ todo' = rest /\ Ask(c, "probe", m)
  BY <1>2, AskType DEF TypeOK, MailOK, TodoOK
<1> QED BY <1>1, <1>2 DEF Prepare

\* The end of a probe or a query keeps the types.
LEMMA AskDoneType ==
  ASSUME TypeOK, NEW c \in Tasks, NEW sent \in BOOLEAN, AskDone(c, sent)
  PROVE  TypeOK'
<1> DEFINE m == task[c].load.msg
<1>1. MailOK'
  <2>1. m \in Msgs => Deferred(mail[m], 0) \in MailRow /\ Deferred(mail[m], 1) \in MailRow
    BY DeferredType DEF TypeOK
  <2> QED BY <2>1 DEF AskDone, TypeOK, MailOK
<1>2. TodoOK'
  BY DEF AskDone, TypeOK, TodoOK, Unwind
<1>3. TaskOK' /\ AirOK'
  BY IdleType DEF AskDone, TypeOK, TaskOK, AirOK
<1>4. TxOK' /\ ActiveOK' /\ AcksOK' /\ PeerOK'
  BY DEF AskDone, TypeOK, TxOK, ActiveOK, AcksOK, PeerOK
<1> QED BY <1>1, <1>2, <1>3, <1>4, TypeParts

\* A sweep writes a row for each message.
LEMMA SweptType ==
  ASSUME TypeOK, NEW m \in Msgs, NEW X \in SUBSET TxIds
  PROVE  Swept(m, X) \in MailRow
<1> DEFINE row == mail[m]
           mine == X \cap TxsOf(m)
           stores == {t \in mine : tx[t].op = "store"}
           lost == {tx[t].peer : t \in stores}
           given == [row EXCEPT !.custody = [k \in Custodians |->
                       IF k \in lost THEN "failed" ELSE @[k]]]
<1>1. row \in MailRow
  BY DEF TypeOK
<1>2. Cardinality(mine \ stores) \in Nat
  <2>1. IsFiniteSet(TxIds)
    BY OutboxAssumption, FS_Interval DEF TxIds
  <2>2. IsFiniteSet(mine \ stores)
    BY <2>1, FS_Subset
  <2> QED BY <2>2, FS_CardinalityType
<1>3. given \in MailRow
  <2>1. [k \in Custodians |-> IF k \in lost THEN "failed" ELSE row.custody[k]]
          \in [Custodians -> CustodyStatus]
    BY <1>1 DEF MailRow, CustodyStatus
  <2> HIDE DEF lost
  <2> QED BY <1>1, <2>1 DEF MailRow
<1>4. [row EXCEPT !.state = "failed"] \in MailRow
  BY <1>1 DEF MailRow, MailState, States
<1>5. Swept(m, X) \in {row, given, [row EXCEPT !.state = "failed"],
                       Deferred(given, Cardinality(mine \ stores))}
  BY DEF Swept
<1> QED BY <1>1, <1>2, <1>3, <1>4, <1>5, DeferredType

\* A sweep keeps the types.
LEMMA SweepType ==
  ASSUME TypeOK, NEW X \in SUBSET TxIds, Sweep(X)
  PROVE  TypeOK'
<1>1. MailOK'
  <2>1. PICK Y \in SUBSET X : mail' = [m \in Msgs |-> Swept(m, Y)]
    BY DEF Sweep
  <2>2. Y \in SUBSET TxIds
    OBVIOUS
  <2> QED BY <2>1, <2>2, SweptType DEF MailOK
<1>2. TxOK'
  <2>1. \A t \in TxIds : /\ TimedOut(tx[t]) \in TxRow
                         /\ [tx[t] EXCEPT !.status = "unconfirmed"] \in TxRow
    <3> SUFFICES ASSUME NEW t \in TxIds
                 PROVE  /\ TimedOut(tx[t]) \in TxRow
                        /\ [tx[t] EXCEPT !.status = "unconfirmed"] \in TxRow
      OBVIOUS
    <3>1. tx[t] \in TxRow
      BY DEF TypeOK
    <3> QED BY <3>1, LedgerType DEF TxRow, TxStatus
  <2> QED BY <2>1 DEF Sweep, SweptTx, TypeOK, TxOK
<1>3. TodoOK'
  <2>1. \A m \in Msgs : mail'[m].retries \in 0..CustodyRetries
    BY <1>1 DEF MailOK, MailRow
  <2> QED BY <2>1 DEF Sweep, TodoOK
<1>4. TaskOK' /\ ActiveOK' /\ AirOK' /\ AcksOK' /\ PeerOK'
  BY DEF Sweep, TypeOK, TaskOK, ActiveOK, AirOK, AcksOK, PeerOK
<1> QED BY <1>1, <1>2, <1>3, <1>4, TypeParts

\* A row of the snapshot is about a message.
LEMMA TodoType ==
  ASSUME TypeOK, NEW e \in todo
  PROVE  /\ e.msg \in Msgs /\ e.state \in Open
         /\ mail[e.msg] \in MailRow
         /\ todo \ {e} \in SUBSET todo
BY DEF TypeOK

\* transmit_store, up to its first await, keeps the types.
LEMMA TransmitStoreType ==
  ASSUME TypeOK, NEW m \in Msgs, NEW row \in MailRow, NEW k \in Custodians,
         NEW rest \in SUBSET todo, TransmitStore(m, row, k, rest)
  PROVE  MailOK' /\ TxOK' /\ TodoOK' /\ TaskOK' /\ ActiveOK'
<1>1. CASE row.state \in Ready
  <2>1. [row EXCEPT !.custody[k] = "offered"] \in MailRow
    BY CustodyType DEF CustodyStatus
  <2>2. Daemon \in Tasks /\ k \in Names /\ "store" \in Ops /\ "store" \in Via
    BY OutboxAssumption DEF Tasks, Names, Ops, Via
  <2>3. PICK part \in 0..NParts :
          Start(Daemon, m, [row EXCEPT !.custody[k] = "offered"], "store", "store", part, k)
    BY <1>1, OutboxAssumption DEF TransmitStore
  <2> QED BY <1>1, <2>1, <2>2, <2>3, StartType DEF TransmitStore, TypeOK, TodoOK
<1>2. CASE row.state \notin Ready
  BY <1>2, DeferOrCrashType DEF TransmitStore, TypeOK, TxOK, TaskOK, ActiveOK
<1> QED BY <1>1, <1>2

\* Every branch of discovery keeps the types.
LEMMA DiscoverType ==
  ASSUME TypeOK, NEW e \in todo, Discover(e)
  PROVE  TypeOK'
<1> DEFINE m == e.msg
           rest == todo \ {e}
<1>1. m \in Msgs /\ mail[m] \in MailRow /\ rest \in SUBSET todo /\ Daemon \in Tasks
  BY TodoType DEF Tasks
<1>2. MailOK' /\ TxOK' /\ TodoOK' /\ TaskOK' /\ ActiveOK'
  <2>1. CASE mail' = mail /\ todo' = {} /\ NoSend
    BY <2>1 DEF NoSend, TypeOK, MailOK, TxOK, TodoOK, TaskOK, ActiveOK
  <2>2. ASSUME NEW expired \in BOOLEAN,
               \/ LeaveWaiting(m, AfterDeadline(m, expired), rest)
               \/ WakeForDirect(m, AfterDeadline(m, expired), rest)
               \/ TakeRoute(m, rest)
               \/ OfferCustody(m, AfterDeadline(m, expired), rest)
               \/ Query(m, AfterDeadline(m, expired), rest)
        PROVE  MailOK' /\ TxOK' /\ TodoOK' /\ TaskOK' /\ ActiveOK'
    <3> DEFINE row == AfterDeadline(m, expired)
    <3>1. row \in MailRow
      BY <1>1 DEF AfterDeadline, MailRow, MailState, States
    <3>2. Woken(row) \in MailRow
      BY <3>1, WokenType
    <3> HIDE DEF row, rest, m
    <3>3. CASE LeaveWaiting(m, row, rest) \/ WakeForDirect(m, row, rest)
      BY <1>1, <3>1, <3>2, <3>3
         DEF LeaveWaiting, WakeForDirect, NoSend, TypeOK, MailOK, TxOK, TodoOK, TaskOK, ActiveOK
    <3>4. CASE TakeRoute(m, rest)
      <4>1. CASE Transmit(Daemon, m, "route", rest)
        BY <1>1, <4>1, TransmitType DEF Via
      <4>2. CASE DeferOrCrash(m, mail[m], 0, rest) /\ NoSend
        BY <1>1, <4>2, DeferOrCrashType DEF NoSend, TypeOK, TxOK, TaskOK, ActiveOK
      <4>3. CASE mail' = mail /\ todo' = rest /\ Ask(Daemon, "hop", m)
        BY <1>1, <4>3, AskType DEF TypeOK, MailOK, TodoOK
      <4> QED BY <3>4, <4>1, <4>2, <4>3 DEF TakeRoute
    <3>5. CASE OfferCustody(m, row, rest)
      <4>1. PICK k \in Custodians : TransmitStore(m, row, k, rest)
        BY <1>1, <3>5, OutboxAssumption DEF OfferCustody, Candidates
      <4> QED BY <1>1, <3>1, <4>1, TransmitStoreType
    <3>6. CASE Query(m, row, rest)
      BY <1>1, <3>1, <3>6, AskType DEF Query, TypeOK, MailOK, TodoOK
    <3> QED BY <2>2, <3>3, <3>4, <3>5, <3>6 DEF row
  <2> QED BY <2>1, <2>2 DEF Discover
<1>3. AirOK' /\ AcksOK' /\ PeerOK'
  BY DEF Discover, TypeOK, AirOK, AcksOK, PeerOK
<1> QED BY <1>2, <1>3, TypeParts

\* Every branch of the loop keeps the types.
LEMMA LoopStepType ==
  ASSUME TypeOK, LoopStep
  PROVE  TypeOK'
<1>1. CASE \E X \in SUBSET TxIds : Sweep(X)
  BY <1>1, SweepType
<1>2. ASSUME NEW e \in todo, Discover(e) PROVE TypeOK'
  BY <1>2, DiscoverType
<1>3. ASSUME NEW e \in todo,
             SkipRemoved(e) \/ BroadcastToGroup(e) \/ ExpireMessage(e) \/ PrepareQueued(e)
               \/ HoldMessage(e) \/ HoldCutShort(e) \/ AwaitResponse(e)
               \/ ReturnToDiscovery(e)
      PROVE  TypeOK'
  <2> DEFINE m == e.msg
  <2>1. m \in Msgs /\ mail[m] \in MailRow /\ todo \ {e} \in SUBSET todo /\ Daemon \in Tasks
    BY TodoType DEF Tasks
  <2>2. MailOK' /\ TxOK' /\ TodoOK' /\ TaskOK' /\ ActiveOK'
    <3>1. CASE SkipRemoved(e) \/ AwaitResponse(e)
      BY <3>1 DEF SkipRemoved, AwaitResponse, TypeOK, MailOK, TxOK, TodoOK, TaskOK, ActiveOK
    <3>2. CASE BroadcastToGroup(e)
      BY <2>1, <3>2, TransmitType DEF BroadcastToGroup, Via
    <3>3. CASE ExpireMessage(e)
      <4>1. Moved(mail[m], "expired") \in MailRow
        BY <2>1, MovedType DEF States
      <4> QED BY <3>3, <4>1
              DEF ExpireMessage, TypeOK, MailOK, TxOK, TodoOK, TaskOK, ActiveOK
    <3>4. CASE PrepareQueued(e)
      BY <2>1, <3>4, PrepareType DEF PrepareQueued
    <3>5. CASE HoldMessage(e)
      <4>1. Held(mail[m]) \in MailRow
        BY <2>1 DEF Held, MailRow, MailState, States
      <4>2. WithoutLive(m) \in [TxIds -> TxRow]
        <5>1. ASSUME NEW row \in TxRow PROVE [row EXCEPT !.status = "unconfirmed"] \in TxRow
          BY DEF TxRow, TxStatus
        <5> QED BY <5>1 DEF WithoutLive, TypeOK
      <4> QED BY <3>5, <4>1, <4>2
              DEF HoldMessage, TypeOK, MailOK, TxOK, TodoOK, TaskOK, ActiveOK
    <3>7. CASE HoldCutShort(e)
      <4>1. HeldFirst(mail[m]) \in MailRow
        BY <2>1 DEF HeldFirst, MailRow, MailState, States
      <4> QED BY <3>7, <4>1
              DEF HoldCutShort, TypeOK, MailOK, TxOK, TodoOK, TaskOK, ActiveOK
    <3>6. CASE ReturnToDiscovery(e)
      BY <2>1, <3>6, DeferOrCrashType DEF ReturnToDiscovery, TypeOK, TxOK, TaskOK, ActiveOK
    <3> QED BY <1>3, <3>1, <3>2, <3>3, <3>4, <3>5, <3>6, <3>7
  <2>3. AirOK' /\ AcksOK' /\ PeerOK'
    BY <1>3 DEF SkipRemoved, BroadcastToGroup, ExpireMessage, PrepareQueued, HoldMessage,
                HoldCutShort, AwaitResponse, ReturnToDiscovery, TypeOK, AirOK, AcksOK, PeerOK
  <2> QED BY <2>2, <2>3, TypeParts
<1> QED BY <1>1, <1>2, <1>3 DEF LoopStep

\* A message the operator queues again, in a new era.
LEMMA RequeuedType ==
  ASSUME TypeOK, NEW m \in Msgs, mail[m].era < MaxEra
  PROVE  /\ [mail[m] EXCEPT !.state = "queued", !.era = mail[m].era + 1,
                             !.cut = FALSE] \in MailRow
         /\ [mail[m] EXCEPT !.state = "queued", !.due = TRUE, !.era = mail[m].era + 1,
                             !.cut = FALSE] \in MailRow
<1>1. mail[m] \in MailRow
  BY DEF TypeOK
<1>2. mail[m].era + 1 \in 0..MaxEra
  BY <1>1, OutboxAssumption DEF MailRow
<1> QED BY <1>1, <1>2 DEF MailRow, MailState, States

\* Removing a message keeps the types.
LEMMA DeleteType ==
  ASSUME TypeOK, NEW m \in Msgs, Delete(m)
  PROVE  TypeOK'
<1>1. NewRow \in MailRow /\ NoTx \in TxRow
  <2>1. NewRow \in MailRow
    BY OutboxAssumption DEF NewRow, MailRow, MailState, States, CustodyStatus, Parts
  <2>2. NoTx \in TxRow
    BY OutboxAssumption DEF NoTx, TxRow, Names, Ops, TxStatus, LiveStatus
  <2> QED BY <2>1, <2>2
<1>2. MailOK'
  <2>1. mail[m] \in MailRow
    BY DEF TypeOK
  <2>2. [NewRow EXCEPT !.state = "gone", !.era = mail[m].era,
                       !.lapsed = mail[m].lapsed] \in MailRow
    BY <1>1, <2>1 DEF MailRow, MailState
  <2> QED BY <2>2 DEF Delete, TypeOK, MailOK
<1>3. TxOK'
  BY <1>1 DEF Delete, TypeOK, TxOK
<1>4. TodoOK' /\ TaskOK' /\ ActiveOK' /\ AirOK' /\ AcksOK' /\ PeerOK'
  BY DEF Delete, TypeOK, TodoOK, TaskOK, ActiveOK, AirOK, AcksOK, PeerOK
<1> QED BY <1>2, <1>3, <1>4, TypeParts

\* The operator's writes and the deadlines that pass keep the types.
LEMMA RequestType ==
  ASSUME TypeOK, NEW m \in Msgs,
         Compose(m) \/ Cancel(m) \/ Retry(m) \/ Lapse(m) \/ FallDue(m)
  PROVE  TypeOK'
<1>1. MailOK'
  <2>1. mail[m] \in MailRow
    BY DEF TypeOK
  <2>2. CASE Retry(m)
    BY <2>2, RequeuedType DEF Retry, TypeOK, MailOK
  <2>3. CASE Compose(m) \/ Cancel(m)
    <3>1. /\ [mail[m] EXCEPT !.state = "queued"] \in MailRow
          /\ [mail[m] EXCEPT !.state = "cancelled"] \in MailRow
      BY <2>1 DEF MailRow, MailState, States
    <3> QED BY <2>3, <3>1 DEF Compose, Cancel, TypeOK, MailOK
  <2>4. CASE Lapse(m) \/ FallDue(m)
    <3>1. [mail[m] EXCEPT !.lapsed = TRUE] \in MailRow /\ [mail[m] EXCEPT !.due = TRUE] \in MailRow
      BY <2>1 DEF MailRow
    <3> QED BY <2>4, <3>1 DEF Lapse, FallDue, TypeOK, MailOK
  <2> QED BY <2>2, <2>3, <2>4
<1>2. TxOK' /\ TodoOK' /\ TaskOK' /\ ActiveOK' /\ AirOK' /\ AcksOK' /\ PeerOK'
  BY DEF Compose, Cancel, Retry, Lapse, FallDue, TypeOK, TxOK, TodoOK, TaskOK,
         ActiveOK, AirOK, AcksOK, PeerOK
<1> QED BY <1>1, <1>2, TypeParts

\* The requests that transmit keep the types.
LEMMA UiType ==
  ASSUME TypeOK, NEW c \in UiTasks,
         PrepareNow(c) \/ \E m \in Msgs : RetryNow(c, m) \/ SendNow(c, m)
  PROVE  TypeOK'
<1>1. c \in Tasks /\ todo \in SUBSET todo
  BY DEF Tasks
<1>2. CASE PrepareNow(c)
  <2>1. task[c].load.msg \in Msgs
    BY <1>1, <1>2, AwaitType DEF PrepareNow
  <2>2. MailOK' /\ TxOK' /\ TodoOK' /\ TaskOK' /\ ActiveOK'
    BY <1>1, <1>2, <2>1, PrepareType DEF PrepareNow
  <2>3. AirOK' /\ AcksOK' /\ PeerOK'
    BY <1>2 DEF PrepareNow, TypeOK, AirOK, AcksOK, PeerOK
  <2> QED BY <2>2, <2>3, TypeParts
<1>3. ASSUME NEW m \in Msgs, RetryNow(c, m) PROVE TypeOK'
  <2>1. MailOK'
    BY <1>3, RequeuedType DEF RetryNow, TypeOK, MailOK
  <2>2. TaskOK'
    <3>1. [pc |-> "prepare", via |-> "none", load |-> About(m)] \in Await
      BY DEF Await
    <3> QED BY <1>3, <3>1 DEF RetryNow, TypeOK, TaskOK
  <2>3. TxOK' /\ TodoOK' /\ ActiveOK' /\ AirOK' /\ AcksOK' /\ PeerOK'
    BY <1>3 DEF RetryNow, TypeOK, TxOK, TodoOK, ActiveOK, AirOK, AcksOK, PeerOK
  <2> QED BY <2>1, <2>2, <2>3, TypeParts
<1>4. ASSUME NEW m \in Msgs, SendNow(c, m) PROVE TypeOK'
  <2>1. MailOK' /\ TxOK' /\ TaskOK' /\ ActiveOK' /\ todo' = todo
    BY <1>1, <1>4, StartTransmitType DEF SendNow, Via
  <2>2. TodoOK' /\ AirOK' /\ AcksOK' /\ PeerOK'
    BY <1>4, <2>1 DEF SendNow, TypeOK, TodoOK, AirOK, AcksOK, PeerOK
  <2> QED BY <2>1, <2>2, TypeParts
<1> QED BY <1>2, <1>3, <1>4

\* What another station does with a frame keeps the types.
LEMMA ReceiveType ==
  ASSUME TypeOK, NEW load \in Loads, Receive(load)
  PROVE  PeerOK' /\ AcksOK'
<1>1. CASE load.op \in {"direct", "multipart", "relay"}
  <2>1. load \in Frame
    BY <1>1 DEF Loads, Foreign, About
  <2> DEFINE m == load.msg
             had == IF load.part = 0 THEN Parts ELSE {load.part}
             had2 == peer[m].got \cup had
             echo2 == IF load.part = 0 THEN peer[m].echo ELSE peer[m].echo \cup {had2}
  <2>2. m \in Msgs /\ had \subseteq Parts
    BY <2>1, OutboxAssumption DEF Frame, Parts
  <2>3. peer[m] \in [got : SUBSET Parts, kept : [Custodians -> SUBSET Parts],
             echo : SUBSET SUBSET Parts]
    BY <2>2 DEF TypeOK
  <2>4. had2 \in SUBSET Parts
    BY <2>2, <2>3
  <2>5. echo2 \in SUBSET SUBSET Parts
    BY <2>3, <2>4
  <2>6. /\ peer' = [peer EXCEPT ![m] = [peer[m] EXCEPT !.got = had2, !.echo = echo2]]
        /\ acks' = [acks EXCEPT ![load.peer] = "new"]
    BY <1>1 DEF Receive
  <2> HIDE DEF had2, echo2, had, m
  <2> QED BY <2>2, <2>3, <2>4, <2>5, <2>6 DEF TypeOK, PeerOK, AcksOK
<1>2. CASE load.op = "store"
  <2>1. load \in Frame
    BY <1>2 DEF Loads, Foreign, About
  <2>2. load.msg \in Msgs
    BY <2>1 DEF Frame
  <2>3. peer[load.msg] \in [got : SUBSET Parts, kept : [Custodians -> SUBSET Parts],
             echo : SUBSET SUBSET Parts]
    BY <2>2 DEF TypeOK
  <2> DEFINE had == IF load.part = 0 THEN Parts ELSE {load.part}
             kept2 == [peer[load.msg].kept EXCEPT ![load.peer] = @ \cup had]
  <2>4. had \subseteq Parts
    BY <2>1, OutboxAssumption DEF Frame, Parts
  <2>5. kept2 \in [Custodians -> SUBSET Parts]
    BY <2>3, <2>4
  <2>6. /\ peer' = [peer EXCEPT ![load.msg] = [peer[load.msg] EXCEPT !.kept = kept2]]
        /\ acks' = [acks EXCEPT ![load.peer] = "new"]
    BY <1>2 DEF Receive
  <2> HIDE DEF had, kept2
  <2>7. [peer[load.msg] EXCEPT !.kept = kept2]
          \in [got : SUBSET Parts, kept : [Custodians -> SUBSET Parts],
              echo : SUBSET SUBSET Parts]
    BY <2>3, <2>5
  <2>8. PeerOK'
    BY <2>2, <2>6, <2>7 DEF TypeOK, PeerOK
  <2> QED BY <2>6, <2>8 DEF TypeOK, AcksOK
<1>3. CASE load.op \notin {"direct", "multipart", "relay", "store"}
  BY <1>3 DEF Receive, TypeOK, PeerOK, AcksOK
<1> QED BY <1>1, <1>2, <1>3

\* A text on the air keeps the types.
LEMMA OnAirType ==
  ASSUME TypeOK, NEW load \in Loads, NEW heard \in BOOLEAN, OnAir(load, heard)
  PROVE  TxOK' /\ PeerOK' /\ AcksOK'
<1>1. PeerOK' /\ AcksOK'
  BY ReceiveType DEF OnAir, TypeOK, PeerOK, AcksOK
<1>2. TxOK'
  <2>1. ASSUME NEW t \in TxIds PROVE [tx[t] EXCEPT !.aired = TRUE] \in TxRow
    <3>1. tx[t] \in TxRow
      BY DEF TypeOK
    <3> QED BY <3>1 DEF TxRow
  <2>2. tx' = tx \/ tx' = [tx EXCEPT ![load.id] = [tx[load.id] EXCEPT !.aired = TRUE]]
    BY DEF OnAir
  <2> QED BY <2>1, <2>2 DEF TypeOK, TxOK
<1> QED BY <1>1, <1>2

\* The rest of a train nobody watches keeps the types.
LEMMA UnwatchedType ==
  ASSUME TypeOK, NEW heard \in BOOLEAN, Unwatched(heard), up' \in BOOLEAN
  PROVE  TxOK' /\ AirOK' /\ PeerOK' /\ AcksOK'
<1>1. air.load \in Loads
  BY DEF TypeOK
<1> QED BY <1>1, OnAirType, IdleType
        DEF Unwatched, TypeOK, TxOK, AirOK, PeerOK, AcksOK

\* complete_rf_train keeps the types.
LEMMA CompleteRfTrainType ==
  ASSUME TypeOK, CompleteRfTrain
  PROVE  TypeOK'
<1>1. MailOK'
  <2>1. ASSUME NEW m \in Msgs PROVE [mail[m] EXCEPT !.state = "delivered"] \in MailRow
    <3>1. mail[m] \in MailRow
      BY DEF TypeOK
    <3>2. "delivered" \in MailState
      BY DEF MailState, States
    <3> QED BY <3>1, <3>2 DEF MailRow
  <2> QED BY <2>1 DEF CompleteRfTrain, TypeOK, MailOK
<1>2. TxOK'
  <2>1. \A t : t \in TxIds => BroadcastDone(tx[t]) \in TxRow /\ Finished(tx[t]) \in TxRow
    BY LedgerType DEF TypeOK
  <2> QED BY <2>1, TxWithType DEF CompleteRfTrain, TypeOK, TxOK
<1>3. ActiveOK' /\ AirOK'
  BY IdleType DEF CompleteRfTrain, TypeOK, ActiveOK, AirOK
<1>4. TodoOK' /\ TaskOK' /\ AcksOK' /\ PeerOK'
  BY DEF CompleteRfTrain, TypeOK, TodoOK, TaskOK, AcksOK, PeerOK
<1> QED BY <1>1, <1>2, <1>3, <1>4, TypeParts

\* Every step of the train and the link keeps the types.
LEMMA RadioType ==
  ASSUME TypeOK, Radio
  PROVE  TypeOK'
<1>1. CASE ForeignText
  <2>1. AirOK'
    BY <1>1, IdleType DEF ForeignText, TypeOK, AirOK
  <2> QED BY <1>1, <2>1, TypeParts
          DEF ForeignText, TypeOK, MailOK, TxOK, TodoOK, TaskOK, ActiveOK, AcksOK, PeerOK
<1>2. CASE PttOn
  <2>1. TxOK'
    <3>1. \A t : t \in TxIds => Activated(tx[t]) \in TxRow
      BY LedgerType DEF TypeOK
    <3> QED BY <1>2, <3>1, TxWithType DEF PttOn, TypeOK, TxOK
  <2>2. MailOK' /\ TodoOK' /\ TaskOK' /\ ActiveOK' /\ AirOK' /\ AcksOK' /\ PeerOK'
    BY <1>2 DEF PttOn, TypeOK, MailOK, TodoOK, TaskOK, ActiveOK, AirOK, AcksOK, PeerOK
  <2> QED BY <2>1, <2>2, TypeParts
<1>3. CASE CompleteRfTrain
  BY <1>3, CompleteRfTrainType
<1>4. CASE DropText
  BY <1>4, IdleType, TypeParts
     DEF DropText, TypeOK, MailOK, TxOK, TodoOK, TaskOK, ActiveOK, AirOK, AcksOK, PeerOK
<1>5. ASSUME NEW heard \in BOOLEAN, PttOff(heard) PROVE TypeOK'
  <2>1. TxOK' /\ PeerOK' /\ AcksOK'
    BY <1>5, OnAirType DEF PttOff, TypeOK
  <2>2. AirOK'
    BY <1>5, IdleType DEF PttOff, TypeOK, AirOK
  <2>3. MailOK' /\ TodoOK' /\ TaskOK' /\ ActiveOK'
    BY <1>5 DEF PttOff, TypeOK, MailOK, TodoOK, TaskOK, ActiveOK
  <2> QED BY <2>1, <2>2, <2>3, TypeParts
<1>6. ASSUME NEW heard \in BOOLEAN, LinkLost(heard) \/ Crash(heard) PROVE TypeOK'
  <2>1. TxOK' /\ AirOK' /\ PeerOK' /\ AcksOK'
    BY <1>6, UnwatchedType DEF LinkLost, Crash
  <2>2. TaskOK'
    BY <1>6, IdleType DEF LinkLost, Crash, TypeOK, TaskOK
  <2>3. MailOK' /\ TodoOK' /\ ActiveOK'
    BY <1>6 DEF LinkLost, Crash, TypeOK, MailOK, TodoOK, ActiveOK
  <2> QED BY <2>1, <2>2, <2>3, TypeParts
<1>7. CASE LinkUp
  BY <1>7, TypeParts DEF LinkUp, TypeOK, MailOK, TxOK, TodoOK, TaskOK, ActiveOK, AirOK,
                         AcksOK, PeerOK
<1> QED BY <1>1, <1>2, <1>3, <1>4, <1>5, <1>6, <1>7 DEF Radio

\* An ACK writes a row.
LEMMA AckedRowType ==
  ASSUME TypeOK, NEW row \in MailRow, NEW t \in TxIds, NEW counted
  PROVE  AckedRow(row, t, counted) \in MailRow
<1>1. CASE tx[t].op = "store"
  <2> DEFINE kept == [row EXCEPT !.custody[tx[t].peer] = "accepted"]
  <2>1. kept \in MailRow
    BY CustodyType DEF CustodyStatus
  <2>2. Moved(kept, "stored") \in MailRow
    BY <2>1, MovedType DEF States
  <2> QED BY <1>1, <2>1, <2>2 DEF AckedRow
<1>2. CASE tx[t].op # "store"
  <2> DEFINE n == IF counted /\ row.acks < AckLimit THEN row.acks + 1 ELSE row.acks
             told == [row EXCEPT !.acks = n]
  <2>1. n \in 0..AckLimit
    BY OutboxAssumption DEF MailRow
  <2>2. told \in MailRow
    BY <2>1 DEF MailRow
  <2>3. Moved(told, "delivered") \in MailRow
    BY <2>2, MovedType DEF States
  <2>4. AckedRow(row, t, counted) \in {told, Moved(told, "delivered")}
    BY <1>2 DEF AckedRow
  <2> QED BY <2>2, <2>3, <2>4
<1> QED BY <1>1, <1>2

\* Handling an ACK keeps the types.
LEMMA ReceiveAckType ==
  ASSUME TypeOK, NEW s \in Stations, NEW oldest, NEW again \in BOOLEAN,
         ReceiveAck(s, oldest, again)
  PROVE  TypeOK'
<1>1. MailOK' /\ TxOK'
  <2>1. CASE mail' = mail /\ tx' = tx
    BY <2>1 DEF TypeOK, MailOK, TxOK
  <2>2. ASSUME NEW t \in TxIds, NEW counted,
               tx' = TxWith(t, Acknowledged(tx[t])),
               mail' = [mail EXCEPT ![tx[t].msg] = AckedRow(@, t, counted)]
        PROVE  MailOK' /\ TxOK'
    <3>1. Acknowledged(tx[t]) \in TxRow
      BY LedgerType DEF TypeOK
    <3>2. tx[t].msg \in Msgs => AckedRow(mail[tx[t].msg], t, counted) \in MailRow
      BY AckedRowType DEF TypeOK
    <3>3. TxOK'
      BY <2>2, <3>1, TxWithType DEF TxOK
    <3>4. MailOK'
      BY <2>2, <3>2 DEF TypeOK, MailOK
    <3> QED BY <3>3, <3>4
  <2> QED BY <2>1, <2>2 DEF ReceiveAck
<1>2. AcksOK'
  BY DEF ReceiveAck, TypeOK, AcksOK
<1>3. TodoOK' /\ TaskOK' /\ ActiveOK' /\ AirOK' /\ PeerOK'
  BY DEF ReceiveAck, TypeOK, TodoOK, TaskOK, ActiveOK, AirOK, PeerOK
<1> QED BY <1>1, <1>2, <1>3, TypeParts

\* Handling a part receipt keeps the types.
LEMMA ReceivePartReceiptType ==
  ASSUME TypeOK, NEW m \in Msgs, NEW received, ReceivePartReceipt(m, received)
  PROVE  TypeOK'
<1> DEFINE merged == [mail[m] EXCEPT !.confirmed = @ \cup received]
           again == [merged EXCEPT !.state = "waiting_route"]
           last == CHOOSE t \in TxsOf(m) : \A u \in TxsOf(m) : u <= t
<1>1. mail[m] \in MailRow /\ received \in SUBSET Parts
  BY DEF TypeOK, ReceivePartReceipt
<1>2. merged \in MailRow
  BY <1>1 DEF MailRow
<1>3. again \in MailRow
  BY <1>2 DEF MailRow, MailState, States
<1>4. Woken(again) \in MailRow
  BY <1>3, WokenType
<1>5. MailOK'
  <2>1. mail' = [mail EXCEPT ![m] = merged] \/ mail' = [mail EXCEPT ![m] = Woken(again)]
    BY DEF ReceivePartReceipt
  <2> HIDE DEF merged, again
  <2> QED BY <1>2, <1>4, <2>1 DEF TypeOK, MailOK
<1>6. TxOK'
  <2>1. \A t : t \in TxIds => Acknowledged(tx[t]) \in TxRow
    BY LedgerType DEF TypeOK
  <2>2. tx' = tx \/ tx' = TxWith(last, Acknowledged(tx[last]))
    BY DEF ReceivePartReceipt
  <2> HIDE DEF last
  <2> QED BY <2>1, <2>2, TxWithType DEF TypeOK, TxOK
<1>7. TodoOK' /\ TaskOK' /\ ActiveOK' /\ AirOK' /\ AcksOK' /\ PeerOK'
  BY DEF ReceivePartReceipt, TypeOK, TodoOK, TaskOK, ActiveOK, AirOK, AcksOK, PeerOK
<1> QED BY <1>5, <1>6, <1>7, TypeParts

\* Handling an end-to-end receipt keeps the types.
LEMMA ReceiveDeliveredType ==
  ASSUME TypeOK, NEW m \in Msgs, NEW through, ReceiveDelivered(m, through)
  PROVE  TypeOK'
<1> DEFINE row == mail[m]
           handed == [k \in Custodians |->
                        IF k \in through THEN "forwarded" ELSE row.custody[k]]
           told == [row EXCEPT !.receipted = TRUE, !.custody = handed]
<1>1. row \in MailRow
  BY DEF TypeOK
<1>2. handed \in [Custodians -> CustodyStatus]
  BY <1>1 DEF MailRow, CustodyStatus
<1>3. told \in MailRow
  BY <1>1, <1>2 DEF MailRow
<1>4. Moved(told, "delivered") \in MailRow
  BY <1>3, MovedType DEF States
<1>5. MailOK'
  <2>1. mail' = [mail EXCEPT ![m] = told] \/ mail' = [mail EXCEPT ![m] = Moved(told, "delivered")]
    BY DEF ReceiveDelivered
  <2> HIDE DEF told
  <2> QED BY <1>3, <1>4, <2>1 DEF TypeOK, MailOK
<1>6. TxOK' /\ TodoOK' /\ TaskOK' /\ ActiveOK' /\ AirOK' /\ AcksOK' /\ PeerOK'
  BY DEF ReceiveDelivered, TypeOK, TxOK, TodoOK, TaskOK, ActiveOK, AirOK, AcksOK, PeerOK
<1> QED BY <1>5, <1>6, TypeParts

\* Everything received keeps the types.
LEMMA RepliesType ==
  ASSUME TypeOK, Replies
  PROVE  TypeOK'
<1>1. ASSUME NEW m \in Msgs, NEW k \in Custodians, CustodianForwards(m, k) PROVE TypeOK'
  <2> DEFINE P == [got : SUBSET Parts, kept : [Custodians -> SUBSET Parts],
                   echo : SUBSET SUBSET Parts]
             has == peer[m].got \cup peer[m].kept[k]
  <2>1. peer[m] \in P
    BY DEF TypeOK
  <2>2. has \in SUBSET Parts
    BY <2>1
  <2>3. peer' = [peer EXCEPT ![m] = [peer[m] EXCEPT !.got = has, !.echo = @ \cup {has}]]
    BY <1>1 DEF CustodianForwards
  <2> HIDE DEF has
  <2>4. [peer[m] EXCEPT !.got = has, !.echo = @ \cup {has}] \in P
    BY <2>1, <2>2
  <2>5. PeerOK'
    BY <2>3, <2>4 DEF TypeOK, PeerOK
  <2> QED BY <1>1, <2>5, TypeParts
          DEF CustodianForwards, TypeOK, MailOK, TxOK, TodoOK, TaskOK, ActiveOK, AirOK, AcksOK
<1> QED BY <1>1, ReceiveAckType, ReceivePartReceiptType, ReceiveDeliveredType DEF Replies

\* TypeOK is inductive.
LEMMA NextType ==
  ASSUME TypeOK, [Next]_vars
  PROVE  TypeOK'
<1>1. ASSUME NEW c \in Tasks, TaskStep(c) PROVE TypeOK'
  BY <1>1, EnterSendRfType, HandoffPartType, HandoffType, FailSendType, AskDoneType DEF TaskStep
<1>2. CASE Operator \/ Clock
  BY <1>2, RequestType, DeleteType, UiType DEF Operator, Clock
<1>3. CASE UNCHANGED vars
  BY <1>3 DEF vars, TypeOK
<1> QED BY <1>1, <1>2, <1>3, LoopStepType, RadioType, RepliesType DEF Next

\* Type correctness: the rows, the awaits and the train keep their types in
\* every behaviour of the daemon.
THEOREM TypeCorrect == Spec => []TypeOK
<1>1. TypeOK /\ [Next]_vars => TypeOK'
  BY NextType
<1> QED BY InitTypes, <1>1, PTL DEF Spec

-----------------------------------------------------------------------------
(* What a step may do to the transactions.  Most steps only bring them      *)
(* closer to their end; rows begin in Start, and the train alone activates  *)
(* and finishes them.                                                       *)

\* Nobody rewrites whose row it is, what it is for, or who is to answer, or
\* unmakes it.
SameRow(old, new) ==
  /\ new.msg = old.msg /\ new.op = old.op /\ new.part = old.part /\ new.peer = old.peer
  /\ new.status = "none" => old.status = "none"

\* From an old row to a new one: it stays live or dies, goes back to waiting
\* for its ACK at most, and is not finished.
Ebbing(old, new) ==
  /\ new = NoTx \/ SameRow(old, new)
  /\ IsLive(new) => /\ IsLive(old)
                    /\ new.msg = old.msg /\ new.op = old.op
                    /\ new.status \in {old.status, "awaiting_ack"}
  /\ new.finished => old.finished

Ebb ==
  /\ \A t \in TxIds : Ebbing(tx[t], tx'[t])
  /\ active' \in {active, Nil}

\* A transaction, or its text, says what it is for and who is to answer: a
\* custodian of the message what is to be stored, in parts where it takes them,
\* the destination everything else.
Addressed(x) ==
  /\ x.msg \in Msgs
  /\ \/ /\ x.op = "store" /\ x.peer \in Keepers[x.msg]
        /\ x.part # 0 => x.peer \in Splitting
     \/ x.op = "group_broadcast" /\ x.msg \in Broadcast /\ x.peer = Dest[x.msg]
     \/ /\ x.op \in {"direct", "multipart", "relay"} /\ x.msg \notin Broadcast
        /\ x.peer = Dest[x.msg]

\* The row learns nothing of the stations: no part, no receipt, no custody.
NoNews(old, new) ==
  /\ new.confirmed = old.confirmed /\ new.receipted = old.receipted
  /\ \A k \in Custodians : new.custody[k] \in {old.custody[k], "offered", "failed"}

\* A new transaction of message m, which is open; the row that is written is
\* the one that was read, but for its state and custody.
Grow(m) ==
  \E c \in Tasks, row \in MailRow, via \in Via, op \in Ops, part \in 0..NParts,
     responder \in Names :
    /\ Start(c, m, row, via, op, part, responder)
    /\ Addressed([msg |-> m, op |-> op, part |-> part, peer |-> responder])
    /\ mail[m].state \in Open /\ row.era = mail[m].era /\ row.enh = mail[m].enh
    /\ NoNews(mail[m], row)

\* The UPDATEs that only bring a row closer to its end.
LEMMA EbbingRows ==
  ASSUME NEW row \in TxRow
  PROVE  /\ Ebbing(row, row)
         /\ Ebbing(row, Submitted(row))
         /\ Ebbing(row, Acknowledged(row))
         /\ Ebbing(row, Unconfirmed(row))
         /\ Ebbing(row, TimedOut(row))
         /\ Ebbing(row, [row EXCEPT !.status = "unconfirmed"])
         /\ Ebbing(row, [row EXCEPT !.aired = TRUE])
         /\ Ebbing(row, NoTx)
<1>1. Ebbing(row, row) /\ Ebbing(row, NoTx)
  BY DEF Ebbing, SameRow, NoTx, IsLive, LiveStatus
<1>2. Ebbing(row, Submitted(row)) /\ Ebbing(row, Unconfirmed(row))
  BY DEF Ebbing, SameRow, Submitted, Unconfirmed, IsLive, LiveStatus, TxRow
<1>3. Ebbing(row, Acknowledged(row)) /\ Ebbing(row, TimedOut(row))
  BY DEF Ebbing, SameRow, Acknowledged, TimedOut, IsLive, LiveStatus, TxRow
<1>4. Ebbing(row, [row EXCEPT !.status = "unconfirmed"]) /\ Ebbing(row, [row EXCEPT !.aired = TRUE])
  BY DEF Ebbing, SameRow, IsLive, LiveStatus, TxRow
<1> QED BY <1>1, <1>2, <1>3, <1>4

\* A step that leaves the transactions alone.
LEMMA EbbSame ==
  ASSUME TypeOK, tx' = tx, active' \in {active, Nil}
  PROVE  Ebb
BY EbbingRows DEF Ebb, TypeOK

\* A step that rewrites one row.
LEMMA EbbOne ==
  ASSUME TypeOK, NEW t, NEW row, t \in TxIds => Ebbing(tx[t], row),
         tx' = TxWith(t, row), active' \in {active, Nil}
  PROVE  Ebb
<1> SUFFICES ASSUME NEW u \in TxIds PROVE Ebbing(tx[u], tx'[u])
  BY DEF Ebb
<1>1. Ebbing(tx[u], tx[u])
  BY EbbingRows DEF TypeOK
<1> QED BY <1>1 DEF TypeOK, TxWith

\* A new transaction: one row changes, and its message is in progress.
LEMMA GrowShape ==
  ASSUME TypeOK, NEW m \in Msgs, Grow(m)
  PROVE  \E u \in TxIds, row \in MailRow :
           /\ tx[u].status = "none" /\ tx'[u].msg = m /\ ~tx'[u].finished
           /\ \A t \in TxIds \ {u} : tx'[t] = tx[t]
           /\ mail' = [mail EXCEPT ![m] = [row EXCEPT !.state = "in_progress"]]
           /\ active' \in {u, active}
<1>1. PICK c \in Tasks, row \in MailRow, via \in Via, op \in Ops, part \in 0..NParts,
           responder \in Names : Start(c, m, row, via, op, part, responder)
  BY DEF Grow
<1>2. PICK u \in TxIds :
        /\ IsNextId(u)
        /\ tx' = TxWith(u, [msg |-> m, op |-> op, part |-> part, peer |-> responder,
                            status |-> "queued", submitted |-> FALSE,
                            finished |-> FALSE, era |-> row.era, aired |-> FALSE])
        /\ mail' = [mail EXCEPT ![m] = [row EXCEPT !.state = "in_progress"]]
        /\ active' = IF c = Daemon THEN u ELSE active
  BY <1>1 DEF Start
<1>3. /\ tx'[u].msg = m /\ ~tx'[u].finished
      /\ \A t \in TxIds \ {u} : tx'[t] = tx[t]
  BY <1>2 DEF TypeOK, TxWith
<1>4. tx[u].status = "none"
  BY <1>2 DEF IsNextId, TxIds
<1> QED BY <1>2, <1>3, <1>4

\* transmit, up to its first await, makes one new transaction.
LEMMA StartGrows ==
  ASSUME TypeOK, NEW c \in Tasks, NEW m \in Msgs, NEW via \in Via, NEW rest,
         StartTransmit(c, m, via, rest)
  PROVE  Grow(m)
<1>1. mail[m] \in MailRow /\ Dest[m] \in Names
  BY DestType DEF TypeOK
<1>2. 0 \in 0..NParts /\ Broadcast \cap (Multi \cup Routed) = {}
  BY OutboxAssumption
<1>3. PICK op \in Ops, part \in 0..NParts :
        /\ Start(c, m, mail[m], via, op, part, Dest[m])
        /\ \/ op = "group_broadcast" /\ m \in Broadcast
           \/ op \in {"direct", "multipart", "relay"} /\ m \notin Broadcast
  BY <1>2, NextPartType DEF StartTransmit, Ops
<1>4. Addressed([msg |-> m, op |-> op, part |-> part, peer |-> Dest[m]])
  BY <1>3 DEF Addressed
<1>5. mail[m].state \in Open
  BY DEF StartTransmit, Ready, Open
<1> QED BY <1>1, <1>3, <1>4, <1>5 DEF Grow, NoNews

\* transmit makes one new transaction, or none.
LEMMA TransmitGrows ==
  ASSUME TypeOK, NEW c \in Tasks, NEW m \in Msgs, NEW via \in Via, NEW rest,
         Transmit(c, m, via, rest)
  PROVE  Grow(m) \/ Ebb
BY StartGrows, EbbSame DEF Transmit, RefuseTransmit

\* prepare makes one new transaction, or none.
LEMMA PrepareGrows ==
  ASSUME TypeOK, NEW c \in Tasks, NEW m \in Msgs, NEW rest, Prepare(c, m, rest)
  PROVE  Grow(m) \/ Ebb
<1>1. CASE Transmit(c, m, "prepare", rest)
  BY <1>1, TransmitGrows DEF Via
<1>2. CASE Ask(c, "probe", m)
  BY <1>2, EbbSame DEF Ask
<1> QED BY <1>1, <1>2 DEF Prepare

\* The row discovery goes on with: the one that is there, or, after the
\* receipt deadline of an open message, a waiting one.
Goes(m, row) ==
  /\ row \in MailRow /\ row.era = mail[m].era /\ row.enh = mail[m].enh
  /\ NoNews(mail[m], row)
  /\ \/ row.state = mail[m].state /\ row.cut = mail[m].cut
     \/ row.state = "waiting_route" /\ mail[m].state \in Open

\* What AfterDeadline returns is such a row.
LEMMA AfterDeadlineGoes ==
  ASSUME TypeOK, NEW m \in Msgs, NEW expired \in BOOLEAN,
         expired => CanDefer(mail[m].state)
  PROVE  Goes(m, AfterDeadline(m, expired))
<1>1. mail[m] \in MailRow
  BY DEF TypeOK
<1>2. CanDefer(mail[m].state) => mail[m].state \in Open
  BY DEF CanDefer, CanTransition, Allowed, States, Terminal, Open
<1>3. NoNews(mail[m], AfterDeadline(m, expired))
  BY <1>1 DEF AfterDeadline, NoNews, MailRow
<1> QED BY <1>1, <1>2, <1>3 DEF AfterDeadline, Goes, MailRow, MailState, States

\* transmit_store of a ready row makes one new transaction.
LEMMA OfferGrows ==
  ASSUME TypeOK, NEW m \in Msgs, NEW row, Goes(m, row), NEW k \in Keepers[m], NEW rest,
         TransmitStore(m, row, k, rest), row.state \in Ready
  PROVE  Grow(m)
<1> DEFINE offered == [row EXCEPT !.custody[k] = "offered"]
<1>7. k \in Custodians
  BY OutboxAssumption
<1>1. row \in MailRow /\ mail[m].state \in Open
  BY DEF Goes, Ready, Open
<1>2. offered \in MailRow /\ offered.era = mail[m].era /\ offered.enh = mail[m].enh
  BY <1>1, <1>7, CustodyType DEF CustodyStatus, Goes, MailRow
<1>6. NoNews(mail[m], offered)
  BY <1>1 DEF Goes, NoNews, MailRow
<1>3. /\ 0 \in 0..NParts /\ 1 \in 0..NParts /\ k \in Names /\ "store" \in Ops
      /\ "store" \in Via /\ Daemon \in Tasks
  BY <1>7, OutboxAssumption DEF Names, Ops, Via, Tasks
<1>5. PICK part \in 0..NParts : /\ part # 0 => k \in Splitting
                               /\ Start(Daemon, m, offered, "store", "store", part, k)
  BY <1>3 DEF TransmitStore
<1>4. Addressed([msg |-> m, op |-> "store", part |-> part, peer |-> k])
  BY <1>5 DEF Addressed
<1> HIDE DEF offered
<1> QED BY <1>1, <1>2, <1>3, <1>4, <1>5, <1>6 DEF Grow

\* Discovery makes one new transaction of its message, or none.
LEMMA DiscoverGrows ==
  ASSUME TypeOK, NEW e \in todo, Discover(e)
  PROVE  Grow(e.msg) \/ Ebb
<1> DEFINE m == e.msg
           rest == todo \ {e}
<1>1. m \in Msgs /\ mail[m] \in MailRow /\ Daemon \in Tasks
  BY TodoType DEF Tasks
<1>2. CASE NoSend
  BY <1>2, EbbSame DEF NoSend
<1>3. CASE Ask(Daemon, "hop", m) \/ Ask(Daemon, "query", m)
  BY <1>3, EbbSame DEF Ask
<1>4. CASE Transmit(Daemon, m, "route", rest)
  BY <1>1, <1>4, TransmitGrows DEF Via
<1>5. ASSUME NEW row, Goes(m, row), OfferCustody(m, row, rest) PROVE Grow(m) \/ Ebb
  <2>1. PICK k \in Keepers[m] : TransmitStore(m, row, k, rest)
    BY <1>5 DEF OfferCustody, Candidates
  <2>2. CASE row.state \in Ready
    BY <1>1, <1>5, <2>1, <2>2, OfferGrows
  <2>3. CASE row.state \notin Ready
    BY <2>1, <2>3, EbbSame DEF TransmitStore
  <2> QED BY <2>2, <2>3
<1>6. ASSUME NEW expired \in BOOLEAN, expired => CanDefer(mail[m].state)
      PROVE  Goes(m, AfterDeadline(m, expired))
  BY <1>1, <1>6, AfterDeadlineGoes
<1>7. \/ NoSend
      \/ \E expired \in BOOLEAN :
           /\ expired => CanDefer(mail[m].state)
           /\ \/ TakeRoute(m, rest)
              \/ OfferCustody(m, AfterDeadline(m, expired), rest)
              \/ Query(m, AfterDeadline(m, expired), rest)
  BY DEF Discover, LeaveWaiting, WakeForDirect
<1>8. ASSUME TakeRoute(m, rest) PROVE Grow(m) \/ Ebb
  BY <1>2, <1>3, <1>4, <1>8 DEF TakeRoute
<1>9. ASSUME NEW row, Query(m, row, rest) PROVE Grow(m) \/ Ebb
  BY <1>3, <1>9 DEF Query
<1> QED BY <1>2, <1>5, <1>6, <1>7, <1>8, <1>9

\* The rows the train rewrites.
LEMMA TrainRows ==
  ASSUME TypeOK, NEW t \in TxIds
  PROVE  /\ PttOn => tx'[t] \in {tx[t], Activated(tx[t])}
         /\ CompleteRfTrain => tx'[t] \in {tx[t], Finished(tx[t]), BroadcastDone(tx[t])}
<1>1. ASSUME PttOn PROVE tx'[t] \in {tx[t], Activated(tx[t])}
  <2>1. tx' = tx \/ tx' = [tx EXCEPT ![active] = Activated(tx[active])]
    BY <1>1 DEF PttOn, TxWith
  <2> QED BY <2>1 DEF TypeOK
<1>2. ASSUME CompleteRfTrain PROVE tx'[t] \in {tx[t], Finished(tx[t]), BroadcastDone(tx[t])}
  <2>1. \/ tx' = tx
        \/ tx' = [tx EXCEPT ![active] = Finished(tx[active])]
        \/ tx' = [tx EXCEPT ![active] = BroadcastDone(tx[active])]
    BY <1>2 DEF CompleteRfTrain, TxWith
  <2> QED BY <2>1 DEF TypeOK
<1> QED BY <1>1, <1>2

\* The train brings no row to life and queues none.
LEMMA TrainKeeps ==
  ASSUME TypeOK, NEW t \in TxIds, PttOn \/ CompleteRfTrain
  PROVE  /\ IsLive(tx'[t]) => IsLive(tx[t]) /\ tx'[t].msg = tx[t].msg
         /\ tx'[t].status = "queued" => tx[t].status = "queued"
<1>1. tx[t] \in TxRow
  BY DEF TypeOK
<1>2. tx'[t] \in {tx[t], Activated(tx[t]), Finished(tx[t]), BroadcastDone(tx[t])}
  BY TrainRows
<1>3. ASSUME NEW row \in TxRow, NEW new \in {row, Activated(row), Finished(row), BroadcastDone(row)}
      PROVE  /\ IsLive(new) => IsLive(row) /\ new.msg = row.msg
             /\ new.status = "queued" => row.status = "queued"
  BY DEF Activated, Finished, BroadcastDone, IsLive, LiveStatus, TxRow
<1> QED BY <1>1, <1>2, <1>3

\* The loop starts a transmission only of a broadcast, or of a message whose
\* three days are not over.
InTime(m) == m \in Broadcast \/ ~mail[m].lapsed

\* What a step of the loop does to the transactions.
LEMMA LoopMoves ==
  ASSUME TypeOK, LoopStep
  PROVE  Ebb \/ \E m \in Msgs : Grow(m) /\ InTime(m)
<1>1. ASSUME NEW X \in SUBSET TxIds, Sweep(X) PROVE Ebb
  <2>1. ASSUME NEW t \in TxIds PROVE Ebbing(tx[t], SweptTx(X)[t])
    BY EbbingRows DEF SweptTx, TypeOK
  <2> QED BY <1>1, <2>1 DEF Sweep, Ebb
<1>2. ASSUME NEW e \in todo, Discover(e) PROVE Ebb \/ \E m \in Msgs : Grow(m) /\ InTime(m)
  <2>1. e.msg \in Msgs /\ InTime(e.msg)
    BY <1>2, TodoType DEF Discover, Discovering, InTime
  <2> QED BY <1>2, <2>1, DiscoverGrows
<1>3. ASSUME NEW e \in todo, BroadcastToGroup(e) \/ PrepareQueued(e)
      PROVE  Ebb \/ \E m \in Msgs : Grow(m) /\ InTime(m)
  <2>1. e.msg \in Msgs /\ Daemon \in Tasks
    BY TodoType DEF Tasks
  <2>2. InTime(e.msg)
    BY <1>3 DEF BroadcastToGroup, GroupTurn, PrepareQueued, InTime
  <2>3. Grow(e.msg) \/ Ebb
    BY <1>3, <2>1, TransmitGrows, PrepareGrows DEF BroadcastToGroup, PrepareQueued, Via
  <2> QED BY <2>1, <2>2, <2>3
<1>4. ASSUME NEW e \in todo, HoldMessage(e) PROVE Ebb
  <2>1. ASSUME NEW t \in TxIds PROVE Ebbing(tx[t], WithoutLive(e.msg)[t])
    BY EbbingRows DEF WithoutLive, TypeOK
  <2> QED BY <1>4, <2>1, EbbSame DEF HoldMessage, Ebb
<1>5. ASSUME NEW e \in todo,
             \/ SkipRemoved(e) \/ ExpireMessage(e) \/ HoldCutShort(e)
             \/ AwaitResponse(e) \/ ReturnToDiscovery(e)
      PROVE  Ebb
  BY <1>5, EbbSame
     DEF SkipRemoved, ExpireMessage, HoldCutShort, AwaitResponse, ReturnToDiscovery
<1> QED BY <1>1, <1>2, <1>3, <1>4, <1>5 DEF LoopStep

\* No coroutine that ends its await makes a transaction.
LEMMA TaskMoves ==
  ASSUME TypeOK, NEW c \in Tasks, TaskStep(c)
  PROVE  Ebb
<1> DEFINE t == task[c].load.id
<1>1. t \in TxIds => /\ Ebbing(tx[t], Unconfirmed(tx[t]))
                     /\ Ebbing(tx[t], Submitted(tx[t]))
  BY EbbingRows DEF TypeOK
<1>2. ActiveWithout(c, t) \in {active, Nil}
  BY DEF ActiveWithout
<1>3. CASE EnterSendRf(c)
  BY <1>1, <1>2, <1>3, EbbSame, EbbOne DEF EnterSendRf, LookAndSend
<1>7. CASE HandoffPart(c)
  <2> DEFINE next == [task[c].load EXCEPT !.part = @ + 1]
  <2>1. MoreParts(task[c].load) /\ LookAndSend(c, next)
    BY <1>7 DEF HandoffPart
  <2>2. next.id = t
    BY <1>7, NextLoad DEF HandoffPart
  <2> HIDE DEF next
  <2> QED BY <1>1, <1>2, <2>1, <2>2, EbbSame, EbbOne DEF LookAndSend
<1>4. CASE Handoff(c)
  BY <1>1, <1>2, <1>4, EbbOne DEF Handoff
<1>5. CASE \E b \in BOOLEAN : FailSend(c, b)
  BY <1>1, <1>2, <1>5, EbbOne DEF FailSend
<1>6. CASE \E b \in BOOLEAN : AskDone(c, b)
  BY <1>6, EbbSame DEF AskDone
<1> QED BY <1>3, <1>4, <1>5, <1>6, <1>7 DEF TaskStep

\* A request that starts a transmission is not the loop.
LEMMA RequestsOnly ==
  ASSUME TypeOK, NEW c \in UiTasks, NEW await, task' = [task EXCEPT ![c] = await]
  PROVE  task'[Daemon] = task[Daemon]
BY OutboxAssumption DEF TypeOK, Tasks

\* Only the requests that transmit make a transaction, and not in the name of
\* the loop.
LEMMA OperatorMoves ==
  ASSUME TypeOK, Operator \/ Clock
  PROVE  Ebb \/ (UiTasks # {} /\ task'[Daemon] = task[Daemon] /\ \E m \in Msgs : Grow(m))
<1>1. ASSUME NEW m \in Msgs, Delete(m) PROVE Ebb
  <2>1. ASSUME NEW t \in TxIds PROVE Ebbing(tx[t], tx'[t])
    BY <1>1, EbbingRows DEF Delete, TypeOK
  <2> QED BY <1>1, <2>1 DEF Delete, Ebb
<1>2. ASSUME NEW m \in Msgs,
             Compose(m) \/ Cancel(m) \/ Retry(m) \/ Lapse(m) \/ FallDue(m)
      PROVE  Ebb
  BY <1>2, EbbSame DEF Compose, Cancel, Retry, Lapse, FallDue
<1>3. ASSUME NEW c \in UiTasks, NEW m \in Msgs, RetryNow(c, m) PROVE Ebb
  BY <1>3, EbbSame DEF RetryNow
<1>4. ASSUME NEW c \in UiTasks, NEW m \in Msgs, SendNow(c, m)
      PROVE  Grow(m) /\ task'[Daemon] = task[Daemon]
  <2>1. Grow(m)
    BY <1>4, StartGrows DEF SendNow, Via, Tasks
  <2>2. task'[Daemon] = task[Daemon]
    BY <1>4, RequestsOnly DEF SendNow, StartTransmit, Start
  <2> QED BY <2>1, <2>2
<1>5. ASSUME NEW c \in UiTasks, PrepareNow(c)
      PROVE  Ebb \/ (task'[Daemon] = task[Daemon] /\ \E m \in Msgs : Grow(m))
  <2>1. c \in Tasks /\ task[c].load.msg \in Msgs
    BY <1>5, AwaitType DEF PrepareNow, Tasks
  <2>2. task'[Daemon] = task[Daemon]
    BY <1>5, RequestsOnly
       DEF PrepareNow, Prepare, Transmit, StartTransmit, Start, RefuseTransmit, Ask
  <2> QED BY <1>5, <2>1, <2>2, PrepareGrows DEF PrepareNow
<1> QED BY <1>1, <1>2, <1>3, <1>4, <1>5 DEF Operator, Clock

\* The radio makes no transaction.
LEMMA RadioMoves ==
  ASSUME TypeOK, Radio
  PROVE  Ebb \/ PttOn \/ CompleteRfTrain
<1>1. ASSUME NEW load, NEW heard \in BOOLEAN, OnAir(load, heard), active' \in {active, Nil}
      PROVE  Ebb
  <2>1. ASSUME NEW t \in TxIds PROVE Ebbing(tx[t], tx'[t])
    BY <1>1, EbbingRows DEF OnAir, TypeOK
  <2> QED BY <1>1, <2>1 DEF Ebb
<1>2. CASE \E heard \in BOOLEAN : PttOff(heard)
  BY <1>1, <1>2 DEF PttOff
<1>3. CASE \E heard \in BOOLEAN : LinkLost(heard) \/ Crash(heard)
  BY <1>1, <1>3, EbbSame DEF LinkLost, Crash, Unwatched
<1>4. CASE ForeignText \/ DropText \/ LinkUp
  BY <1>4, EbbSame DEF ForeignText, DropText, LinkUp
<1> QED BY <1>2, <1>3, <1>4 DEF Radio

\* Nothing received makes a transaction, or revives one.
LEMMA RepliesMove ==
  ASSUME TypeOK, Replies
  PROVE  Ebb
<1>1. \A t : t \in TxIds => Ebbing(tx[t], Acknowledged(tx[t]))
  BY EbbingRows DEF TypeOK
<1>2. ASSUME NEW s, NEW oldest, NEW again, ReceiveAck(s, oldest, again) PROVE Ebb
  BY <1>1, <1>2, EbbSame, EbbOne DEF ReceiveAck
<1>3. ASSUME NEW m, NEW received, ReceivePartReceipt(m, received) PROVE Ebb
  BY <1>1, <1>3, EbbSame, EbbOne DEF ReceivePartReceipt
<1>4. ASSUME NEW m, \/ \E k : CustodianForwards(m, k)
                    \/ \E through : ReceiveDelivered(m, through)
      PROVE  Ebb
  BY <1>4, EbbSame DEF CustodianForwards, ReceiveDelivered
<1> QED BY <1>2, <1>3, <1>4 DEF Replies

\* The four things a step may do to the transactions.
LEMMA Moves ==
  ASSUME TypeOK, [Next]_vars
  PROVE  \/ Ebb
         \/ \E m \in Msgs :
              Grow(m) /\ (InTime(m) \/ (UiTasks # {} /\ task'[Daemon] = task[Daemon]))
         \/ PttOn
         \/ CompleteRfTrain
<1>1. CASE UNCHANGED vars
  BY <1>1, EbbSame DEF vars
<1> QED BY <1>1, LoopMoves, TaskMoves, OperatorMoves, RadioMoves, RepliesMove DEF Next

-----------------------------------------------------------------------------
(* Which steps hold a message. *)

\* A row that is held, by a hold that was not cut short.
IsHeld(row) == row.state = "acknowledged" /\ ~row.cut

NoHold == \A m \in Msgs : IsHeld(mail'[m]) => IsHeld(mail[m])

\* A step that rewrites one message.
LEMMA NoHoldOne ==
  ASSUME TypeOK, NEW m, NEW row,
         m \in Msgs => (IsHeld(row) => IsHeld(mail[m])), mail' = [mail EXCEPT ![m] = row]
  PROVE  NoHold
BY DEF TypeOK, NoHold

\* A step that writes no message holds none.
LEMMA NoHoldSame ==
  ASSUME mail' = mail
  PROVE  NoHold
BY DEF NoHold

\* Neither a deferral, nor a wake, nor a move to another state holds.
LEMMA NoHoldRows ==
  ASSUME NEW row \in MailRow
  PROVE  /\ \A n : Deferred(row, n).state # "acknowledged"
         /\ \A target : target # "acknowledged" /\ IsHeld(Moved(row, target)) => IsHeld(row)
         /\ Woken(row).state = row.state /\ (IsHeld(Woken(row)) => IsHeld(row))
<1>1. ASSUME NEW n PROVE Deferred(row, n).state = "waiting_route"
  BY DEF Deferred, MailRow
<1>2. ASSUME NEW target, target # "acknowledged", IsHeld(Moved(row, target))
      PROVE  IsHeld(row)
  BY <1>2 DEF Moved, MailRow, IsHeld
<1>3. Woken(row).state = row.state /\ (IsHeld(Woken(row)) => IsHeld(row))
  BY DEF Woken, MailRow, IsHeld
<1> QED BY <1>1, <1>2, <1>3

\* Starting a transmission holds no message.
LEMMA NoHoldStart ==
  ASSUME TypeOK, NEW m \in Msgs, Grow(m)
  PROVE  NoHold
<1>1. PICK c \in Tasks, row \in MailRow, via \in Via, op \in Ops, part \in 0..NParts,
           responder \in Names : Start(c, m, row, via, op, part, responder)
  BY Zenon DEF Grow
<1>2. mail' = [mail EXCEPT ![m] = [row EXCEPT !.state = "in_progress"]]
  BY <1>1, Zenon DEF Start
<1>3. [row EXCEPT !.state = "in_progress"].state = "in_progress"
  BY SMTT(30) DEF MailRow
<1> QED BY <1>2, <1>3, NoHoldOne DEF IsHeld

\* A deferral holds no message.
LEMMA NoHoldDefer ==
  ASSUME TypeOK, NEW m \in Msgs, NEW row \in MailRow, NEW n \in Nat, NEW rest,
         IsHeld(row) => IsHeld(mail[m]),
         DeferOrCrash(m, row, n, rest) \/ DeferQuietly(m, n, rest)
  PROVE  NoHold
<1>1. mail[m] \in MailRow
  BY DEF TypeOK
<1>2. CASE mail' = mail
  BY <1>2, NoHoldSame
<1>3. CASE \/ mail' = [mail EXCEPT ![m] = Deferred(row, n)]
           \/ mail' = [mail EXCEPT ![m] = Deferred(mail[m], n)]
  BY <1>1, <1>3, NoHoldOne, NoHoldRows DEF IsHeld
<1>4. CASE mail' = [mail EXCEPT ![m] = row]
  BY <1>4, NoHoldOne
<1> QED BY <1>2, <1>3, <1>4 DEF DeferOrCrash, DeferQuietly

\* Handling an exception of transmit holds no message.
LEMMA NoHoldError ==
  ASSUME TypeOK, NEW m \in Msgs, NEW via, NEW kind, NEW rest, OnError(m, via, kind, rest)
  PROVE  NoHold
<1>1. mail[m] \in MailRow
  BY DEF TypeOK
<1> QED BY <1>1, NoHoldDefer, NoHoldSame DEF OnError

\* transmit holds no message.
LEMMA NoHoldTransmit ==
  ASSUME TypeOK, NEW c \in Tasks, NEW m \in Msgs, NEW via \in Via, NEW rest,
         Transmit(c, m, via, rest)
  PROVE  NoHold
BY StartGrows, NoHoldStart, NoHoldError DEF Transmit, RefuseTransmit

\* prepare holds no message.
LEMMA NoHoldPrepare ==
  ASSUME TypeOK, NEW c \in Tasks, NEW m \in Msgs, NEW rest, Prepare(c, m, rest)
  PROVE  NoHold
BY NoHoldTransmit, NoHoldSame DEF Prepare, Via

\* Discovery holds no message.
LEMMA NoHoldDiscover ==
  ASSUME TypeOK, NEW e \in todo, Discover(e)
  PROVE  NoHold
<1> DEFINE m == e.msg
           rest == todo \ {e}
<1>1. m \in Msgs /\ mail[m] \in MailRow /\ Daemon \in Tasks
  BY TodoType DEF Tasks
<1>2. CASE mail' = mail
  BY <1>2, NoHoldSame
<1>3. ASSUME NEW expired \in BOOLEAN, expired => CanDefer(mail[m].state)
      PROVE  Goes(m, AfterDeadline(m, expired))
  BY <1>1, <1>3, AfterDeadlineGoes
<1>4. ASSUME NEW row, Goes(m, row),
             LeaveWaiting(m, row, rest) \/ WakeForDirect(m, row, rest) \/ Query(m, row, rest)
      PROVE  NoHold
  <2>1. IsHeld(Woken(row)) => IsHeld(row)
    BY <1>4, NoHoldRows DEF Goes
  <2>2. mail' = [mail EXCEPT ![m] = row] \/ mail' = [mail EXCEPT ![m] = Woken(row)]
    BY <1>4 DEF LeaveWaiting, WakeForDirect, Query
  <2>3. IsHeld(row) => IsHeld(mail[m])
    BY <1>4 DEF Goes, IsHeld
  <2> QED BY <2>1, <2>2, <2>3, NoHoldOne
<1>5. ASSUME TakeRoute(m, rest) PROVE NoHold
  BY <1>1, <1>5, NoHoldTransmit, NoHoldDefer, NoHoldSame DEF TakeRoute, Via
<1>6. ASSUME NEW row, Goes(m, row), OfferCustody(m, row, rest)
      PROVE  NoHold
  <2>1. PICK k \in Keepers[m] : TransmitStore(m, row, k, rest)
    BY <1>6 DEF OfferCustody, Candidates
  <2>2. CASE row.state \in Ready
    BY <1>1, <1>6, <2>1, <2>2, OfferGrows, NoHoldStart
  <2>3. CASE row.state \notin Ready
    <3>1. row \in MailRow /\ (IsHeld(row) => IsHeld(mail[m]))
      BY <1>6 DEF Goes, IsHeld
    <3> QED BY <1>1, <2>1, <2>3, <3>1, NoHoldDefer DEF TransmitStore
  <2> QED BY <2>2, <2>3
<1>7. \/ mail' = mail
      \/ TakeRoute(m, rest)
      \/ \E expired \in BOOLEAN :
           LET row == AfterDeadline(m, expired)
           IN  /\ expired => CanDefer(mail[m].state)
               /\ \/ LeaveWaiting(m, row, rest) \/ WakeForDirect(m, row, rest)
                  \/ OfferCustody(m, row, rest) \/ Query(m, row, rest)
  BY DEF Discover
<1> HIDE DEF m, rest
<1> QED BY <1>2, <1>3, <1>4, <1>5, <1>6, <1>7

\* Only HoldMessage makes a message acknowledged.
LEMMA HoldMoves ==
  ASSUME TypeOK, [Next]_vars
  PROVE  NoHold \/ \E e \in todo : HoldMessage(e)
<1>1. ASSUME NEW X \in SUBSET TxIds, Sweep(X) PROVE NoHold
  <2>1. ASSUME NEW Y, NEW m \in Msgs, IsHeld(Swept(m, Y)) PROVE IsHeld(mail[m])
    <3> DEFINE mine == Y \cap TxsOf(m)
               stores == {t \in mine : tx[t].op = "store"}
               lost == {tx[t].peer : t \in stores}
               given == [mail[m] EXCEPT !.custody = [k \in Custodians |->
                           IF k \in lost THEN "failed" ELSE @[k]]]
    <3>1. mail[m] \in MailRow
      BY DEF TypeOK
    <3>2. [mail[m] EXCEPT !.state = "failed"].state = "failed"
      BY <3>1 DEF MailRow
    <3>3. Deferred(given, Cardinality(mine \ stores)).state = "waiting_route"
      BY <3>1 DEF Deferred, MailRow
    <3>5. given.state = mail[m].state /\ given.cut = mail[m].cut
      BY <3>1 DEF MailRow
    <3>4. Swept(m, Y) \in {mail[m], [mail[m] EXCEPT !.state = "failed"], given,
                           Deferred(given, Cardinality(mine \ stores))}
      BY DEF Swept
    <3> HIDE DEF given
    <3> QED BY <2>1, <3>2, <3>3, <3>4, <3>5 DEF IsHeld
  <2>2. PICK Y : mail' = [m \in Msgs |-> Swept(m, Y)]
    BY <1>1 DEF Sweep
  <2> QED BY <2>1, <2>2 DEF NoHold
<1>2. ASSUME NEW e \in todo, ~HoldMessage(e),
             \/ SkipRemoved(e) \/ BroadcastToGroup(e) \/ ExpireMessage(e)
             \/ PrepareQueued(e) \/ HoldCutShort(e) \/ AwaitResponse(e)
             \/ ReturnToDiscovery(e) \/ Discover(e)
      PROVE  NoHold
  <2>1. e.msg \in Msgs /\ mail[e.msg] \in MailRow /\ Daemon \in Tasks
    BY TodoType DEF Tasks
  <2>2. CASE SkipRemoved(e) \/ AwaitResponse(e)
    BY <2>2, NoHoldSame DEF SkipRemoved, AwaitResponse
  <2>3. CASE BroadcastToGroup(e) \/ PrepareQueued(e)
    BY <2>1, <2>3, NoHoldTransmit, NoHoldPrepare DEF BroadcastToGroup, PrepareQueued, Via
  <2>4. CASE ExpireMessage(e)
    BY <2>1, <2>4, NoHoldRows, NoHoldOne DEF ExpireMessage
  <2>5. CASE ReturnToDiscovery(e)
    BY <2>1, <2>5, NoHoldDefer DEF ReturnToDiscovery
  <2>6. CASE HoldCutShort(e)
    <3>1. HeldFirst(mail[e.msg]).cut
      BY <2>1 DEF HeldFirst, MailRow
    <3> QED BY <2>1, <2>6, <3>1, NoHoldOne DEF HoldCutShort, IsHeld
  <2> QED BY <1>2, <2>2, <2>3, <2>4, <2>5, <2>6, NoHoldDiscover
<1>3. ASSUME NEW c \in Tasks, TaskStep(c) PROVE NoHold
  <2> DEFINE m == task[c].load.msg
  <2>1. CASE EnterSendRf(c)
    <3>1. \A b : m \in Msgs => (IsHeld([mail[m] EXCEPT !.enh = b]) => IsHeld(mail[m]))
      BY DEF TypeOK, MailRow, IsHeld
    <3>2. mail' = mail \/ \E b : mail' = [mail EXCEPT ![m] = [mail[m] EXCEPT !.enh = b]]
      BY <2>1 DEF EnterSendRf
    <3> QED BY <3>1, <3>2, NoHoldOne, NoHoldSame
  <2>2. CASE Handoff(c)
    <3>1. \A b : m \in Msgs => (IsHeld([mail[m] EXCEPT !.direct = b]) => IsHeld(mail[m]))
      BY DEF TypeOK, MailRow, IsHeld
    <3>2. \E b : mail' = [mail EXCEPT ![m] = [mail[m] EXCEPT !.direct = b]]
      BY <2>2 DEF Handoff
    <3> QED BY <3>1, <3>2, NoHoldOne
  <2>5. CASE HandoffPart(c)
    BY <2>5, NoHoldSame DEF HandoffPart
  <2>3. ASSUME NEW exhausted \in BOOLEAN, FailSend(c, exhausted) PROVE NoHold
    <3> DEFINE lost == [mail[m] EXCEPT !.custody =
                          IF task[c].via = "store" THEN [@ EXCEPT ![task[c].load.peer] = "failed"] ELSE @]
    <3>1. m \in Msgs
      BY <2>3, AwaitType DEF FailSend
    <3>2. lost \in MailRow /\ lost.state = mail[m].state /\ lost.cut = mail[m].cut
      <4>1. mail[m] \in MailRow
        BY <3>1 DEF TypeOK
      <4>2. [mail[m].custody EXCEPT ![task[c].load.peer] = "failed"] \in [Custodians -> CustodyStatus]
        BY <4>1 DEF MailRow, CustodyStatus
      <4> QED BY <4>1, <4>2 DEF MailRow
    <3>3. \/ mail' = mail
          \/ mail' = [mail EXCEPT ![m] = Moved(lost, "failed")]
          \/ DeferOrCrash(m, lost, 1, todo)
          \/ OnError(m, task[c].via, "runtime", todo)
      BY <2>3 DEF FailSend
    <3>5. IsHeld(lost) => IsHeld(mail[m])
      BY <3>2 DEF IsHeld
    <3>4. IsHeld(Moved(lost, "failed")) => IsHeld(mail[m])
      BY <3>2, <3>5, NoHoldRows
    <3> HIDE DEF lost, m
    <3> QED BY <3>1, <3>2, <3>3, <3>4, <3>5, NoHoldSame, NoHoldOne, NoHoldDefer, NoHoldError
  <2>4. ASSUME NEW sent \in BOOLEAN, AskDone(c, sent) PROVE NoHold
    <3>1. \A n : m \in Msgs => Deferred(mail[m], n).state # "acknowledged"
      BY NoHoldRows DEF TypeOK
    <3>2. mail' = mail \/ \E n : mail' = [mail EXCEPT ![m] = Deferred(mail[m], n)]
      BY <2>4 DEF AskDone
    <3> QED BY <3>1, <3>2, NoHoldSame, NoHoldOne DEF IsHeld
  <2> QED BY <1>3, <2>1, <2>2, <2>3, <2>4, <2>5 DEF TaskStep
<1>4. CASE Operator \/ Clock
  <2>1. ASSUME NEW m \in Msgs,
               Compose(m) \/ Cancel(m) \/ Retry(m) \/ Delete(m) \/ Lapse(m) \/ FallDue(m)
        PROVE  NoHold
    <3>1. mail[m] \in MailRow
      BY DEF TypeOK
    <3>2. CASE Compose(m) \/ Cancel(m)
      <4>1. /\ [mail[m] EXCEPT !.state = "queued"].state = "queued"
            /\ [mail[m] EXCEPT !.state = "cancelled"].state = "cancelled"
        BY <3>1 DEF MailRow
      <4> QED BY <3>2, <4>1, NoHoldOne DEF Compose, Cancel, IsHeld
    <3>3. CASE Retry(m)
      <4>1. [mail[m] EXCEPT !.state = "queued", !.era = mail[m].era + 1,
                            !.cut = FALSE].state = "queued"
        BY <3>1 DEF MailRow
      <4>2. mail' = [mail EXCEPT ![m] = [mail[m] EXCEPT !.state = "queued",
                                                        !.era = mail[m].era + 1,
                                                        !.cut = FALSE]]
        BY <3>3 DEF Retry
      <4> QED BY <4>1, <4>2, NoHoldOne DEF IsHeld
    <3>4. CASE Delete(m)
      <4>1. [NewRow EXCEPT !.state = "gone", !.era = mail[m].era,
                           !.lapsed = mail[m].lapsed].state = "gone"
        BY DEF NewRow
      <4> QED BY <3>4, <4>1, NoHoldOne DEF Delete, IsHeld
    <3>5. CASE Lapse(m) \/ FallDue(m)
      <4>1. /\ IsHeld([mail[m] EXCEPT !.lapsed = TRUE]) => IsHeld(mail[m])
            /\ IsHeld([mail[m] EXCEPT !.due = TRUE]) => IsHeld(mail[m])
        BY <3>1 DEF MailRow, IsHeld
      <4> QED BY <3>5, <4>1, NoHoldOne DEF Lapse, FallDue
    <3> QED BY <2>1, <3>2, <3>3, <3>4, <3>5
  <2>2. ASSUME NEW c \in UiTasks, NEW m \in Msgs, RetryNow(c, m) PROVE NoHold
    BY <2>2 DEF RetryNow, NoHold, TypeOK, MailRow, IsHeld
  <2>3. ASSUME NEW c \in UiTasks, NEW m \in Msgs, SendNow(c, m) PROVE NoHold
    BY <2>3, StartGrows, NoHoldStart DEF SendNow, Via, Tasks
  <2>4. ASSUME NEW c \in UiTasks, PrepareNow(c) PROVE NoHold
    <3>1. c \in Tasks /\ task[c].load.msg \in Msgs
      BY <2>4, AwaitType DEF PrepareNow, Tasks
    <3> QED BY <2>4, <3>1, NoHoldPrepare DEF PrepareNow
  <2> QED BY <1>4, <2>1, <2>2, <2>3, <2>4 DEF Operator, Clock
<1>5. CASE Radio
  <2>1. CASE CompleteRfTrain
    BY <2>1 DEF CompleteRfTrain, NoHold, TypeOK, MailRow, IsHeld
  <2>2. CASE mail' = mail
    BY <2>2, NoHoldSame
  <2> QED BY <1>5, <2>1, <2>2
          DEF Radio, ForeignText, PttOn, DropText, PttOff, LinkLost, LinkUp, Crash
<1>6. CASE Replies
  <2>1. ASSUME NEW t \in TxIds, NEW m \in Msgs, NEW counted,
               IsHeld(AckedRow(mail[m], t, counted))
        PROVE  IsHeld(mail[m])
    <3> DEFINE kept == [mail[m] EXCEPT !.custody[tx[t].peer] = "accepted"]
               told == [mail[m] EXCEPT !.acks = IF counted /\ @ < AckLimit THEN @ + 1 ELSE @]
    <3>1. mail[m] \in MailRow
      BY DEF TypeOK
    <3>2. kept \in MailRow /\ (IsHeld(kept) => IsHeld(mail[m]))
      BY <3>1, CustodyType DEF CustodyStatus, MailRow, IsHeld
    <3>3. told \in MailRow /\ (IsHeld(told) => IsHeld(mail[m]))
      <4> DEFINE n == IF counted /\ mail[m].acks < AckLimit THEN mail[m].acks + 1 ELSE mail[m].acks
      <4>1. n \in 0..AckLimit
        BY <3>1, OutboxAssumption DEF MailRow
      <4>2. told = [mail[m] EXCEPT !.acks = n]
        OBVIOUS
      <4> HIDE DEF n, told
      <4> QED BY <3>1, <4>1, <4>2 DEF MailRow, IsHeld
    <3>4. AckedRow(mail[m], t, counted)
            \in {kept, Moved(kept, "stored"), told, Moved(told, "delivered")}
      BY DEF AckedRow
    <3> HIDE DEF kept, told
    <3> QED BY <2>1, <3>2, <3>3, <3>4, NoHoldRows
  <2>2. ASSUME NEW s, NEW oldest, NEW again, ReceiveAck(s, oldest, again) PROVE NoHold
    <3>1. CASE mail' = mail
      BY <3>1, NoHoldSame
    <3>2. ASSUME NEW t \in TxIds, NEW counted,
                 mail' = [mail EXCEPT ![tx[t].msg] = AckedRow(@, t, counted)]
          PROVE  NoHold
      BY <2>1, <3>2, NoHoldOne
    <3> QED BY <2>2, <3>1, <3>2 DEF ReceiveAck
  <2>3. ASSUME NEW m \in Msgs, NEW received, ReceivePartReceipt(m, received) PROVE NoHold
    <3> DEFINE merged == [mail[m] EXCEPT !.confirmed = @ \cup received]
               again == [merged EXCEPT !.state = "waiting_route"]
    <3>1. mail[m] \in MailRow
      BY DEF TypeOK
    <3>2. (IsHeld(merged) => IsHeld(mail[m])) /\ again.state = "waiting_route"
      BY <3>1 DEF MailRow, IsHeld
    <3>3. Woken(again).state = "waiting_route"
      BY <3>2 DEF Woken, MailRow
    <3>4. mail' = [mail EXCEPT ![m] = merged] \/ mail' = [mail EXCEPT ![m] = Woken(again)]
      BY <2>3 DEF ReceivePartReceipt
    <3> HIDE DEF merged, again
    <3> QED BY <3>2, <3>3, <3>4, NoHoldOne DEF IsHeld
  <2>4. ASSUME NEW m \in Msgs, NEW through, ReceiveDelivered(m, through) PROVE NoHold
    <3> DEFINE told == [mail[m] EXCEPT !.receipted = TRUE,
                          !.custody = [k \in Custodians |->
                             IF k \in through THEN "forwarded" ELSE @[k]]]
    <3>1. IsHeld(told) => IsHeld(mail[m])
      BY DEF TypeOK, MailRow, IsHeld
    <3>2. IsHeld(Moved(told, "delivered")) => IsHeld(mail[m])
      BY DEF Moved, TypeOK, MailRow, IsHeld
    <3>3. mail' = [mail EXCEPT ![m] = told] \/ mail' = [mail EXCEPT ![m] = Moved(told, "delivered")]
      BY <2>4 DEF ReceiveDelivered
    <3> HIDE DEF told
    <3> QED BY <3>1, <3>2, <3>3, NoHoldOne
  <2>5. ASSUME NEW m \in Msgs, NEW k, CustodianForwards(m, k) PROVE NoHold
    BY <2>5, NoHoldSame DEF CustodianForwards
  <2> QED BY <1>6, <2>2, <2>3, <2>4, <2>5 DEF Replies
<1>7. CASE UNCHANGED vars
  BY <1>7, NoHoldSame DEF vars
<1> QED BY <1>1, <1>2, <1>3, <1>4, <1>5, <1>6, <1>7 DEF Next, LoopStep

-----------------------------------------------------------------------------
(* The invariants. *)

\* HeldQuiescent is inductive relative to TypeOK.
LEMMA HeldStep ==
  ASSUME TypeOK, HeldQuiescent, [Next]_vars
  PROVE  HeldQuiescent'
<1> SUFFICES ASSUME NEW m \in Msgs, IsHeld(mail'[m]),
                    NEW t \in TxIds, tx'[t].msg = m, IsLive(tx'[t])
             PROVE  FALSE
  BY DEF HeldQuiescent, LiveTxs, TxsOf, IsHeld
<1>1. CASE \E e \in todo : HoldMessage(e)
  <2>1. PICK e \in todo : HoldMessage(e)
    BY <1>1
  <2>2. CASE CanTransition(mail[e.msg].state, "acknowledged")
    <3>1. tx' = WithoutLive(e.msg) /\ mail' = [mail EXCEPT ![e.msg] = Held(@)]
      BY <2>1, <2>2 DEF HoldMessage
    <3>2. tx'[t] = IF t \in LiveTxs(e.msg) THEN [tx[t] EXCEPT !.status = "unconfirmed"] ELSE tx[t]
      BY <3>1 DEF WithoutLive
    <3>3. t \notin LiveTxs(e.msg)
      BY <3>2 DEF IsLive, LiveStatus, TypeOK, TxRow
    <3>4. t \in LiveTxs(m) /\ m # e.msg
      BY <3>2, <3>3 DEF LiveTxs, TxsOf
    <3>5. IsHeld(mail[m])
      BY <3>1, <3>4 DEF TypeOK
    <3> QED BY <3>4, <3>5 DEF HeldQuiescent, IsHeld
  <2>3. CASE ~CanTransition(mail[e.msg].state, "acknowledged")
    <3>1. tx' = tx /\ mail' = mail
      BY <2>1, <2>3 DEF HoldMessage
    <3> QED BY <3>1 DEF HeldQuiescent, LiveTxs, TxsOf, IsHeld
  <2> QED BY <2>2, <2>3
<1>2. CASE NoHold
  <2>1. IsHeld(mail[m])
    BY <1>2 DEF NoHold
  <2>2. t \notin LiveTxs(m)
    BY <2>1 DEF HeldQuiescent, IsHeld
  <2>3. ~(tx[t].msg = m /\ IsLive(tx[t]))
    BY <2>2 DEF LiveTxs, TxsOf
  <2>4. CASE Ebb
    BY <2>3, <2>4 DEF Ebb, Ebbing
  <2>5. CASE \E x \in Msgs : Grow(x)
    <3>1. PICK x \in Msgs : Grow(x)
      BY <2>5
    <3>2. PICK u \in TxIds, row \in MailRow :
            /\ tx'[u].msg = x
            /\ \A r \in TxIds \ {u} : tx'[r] = tx[r]
            /\ mail' = [mail EXCEPT ![x] = [row EXCEPT !.state = "in_progress"]]
      BY <3>1, GrowShape
    <3>3. t = u
      BY <2>3, <3>2
    <3>4. x = m
      BY <3>2, <3>3
    <3>5. [row EXCEPT !.state = "in_progress"].state = "in_progress"
      BY DEF MailRow
    <3>6. mail'[m].state = "in_progress"
      BY <3>2, <3>4, <3>5 DEF TypeOK
    <3> QED BY <3>6 DEF IsHeld
  <2>6. CASE PttOn \/ CompleteRfTrain
    BY <2>3, <2>6, TrainKeeps
  <2> QED BY <2>4, <2>5, <2>6, Moves
<1> QED BY <1>1, <1>2, HoldMoves

\* A message held after repeated ACKs owns no live transaction, whatever the
\* radio, the operator and a restart do, unless its last hold was cut short
\* between the two commits of hold_after_js8call_ack: the second one closes the
\* message's transactions, a transmission begins only by putting its message in
\* progress, and no statement of the ledger revives a transaction that has ended.
THEOREM HeldStaysQuiescent == Spec => []HeldQuiescent
<1>1. Init => HeldQuiescent
  <2> SUFFICES ASSUME Init, NEW m \in Msgs PROVE mail[m].state # "acknowledged"
    BY DEF HeldQuiescent
  <2> QED BY DEF Init, NewRow
<1>2. TypeOK /\ HeldQuiescent /\ [Next]_vars => HeldQuiescent'
  BY HeldStep
<1> QED BY <1>1, <1>2, TypeCorrect, PTL DEF Spec

\* The strengthening that makes DeadlineCovers inductive: the transaction the
\* train belongs to has not been finished.
ActiveUnfinished == active \in TxIds => ~tx[active].finished

DeadlineInv == DeadlineCovers /\ ActiveUnfinished

\* What DeadlineCovers says of one row.
LEMMA CoveredRow ==
  ASSUME NEW row
  PROVE  (IsLive(row) => Expirable(row) \/ ExpirableBroadcast(row))
           <=> (IsLive(row) /\ row.op # "group_broadcast" /\ row.finished
                  => row.status = "awaiting_ack")
BY DEF Expirable, ExpirableBroadcast, IsLive, LiveStatus

\* DeadlineInv is inductive relative to TypeOK.
LEMMA DeadlineStep ==
  ASSUME TypeOK, DeadlineInv, [Next]_vars
  PROVE  DeadlineInv'
<1> DEFINE Covered(row) == IsLive(row) /\ row.op # "group_broadcast" /\ row.finished
                             => row.status = "awaiting_ack"
<1>1. \A t \in TxIds : Covered(tx[t])
  BY CoveredRow DEF DeadlineInv, DeadlineCovers
<1>2. SUFFICES (\A t \in TxIds : Covered(tx'[t])) /\ ActiveUnfinished'
  BY CoveredRow DEF DeadlineInv, DeadlineCovers
<1>3. CASE Ebb
  <2>1. \A t \in TxIds : Covered(tx'[t])
    BY <1>1, <1>3 DEF Ebb, Ebbing
  <2>2. Nil \notin TxIds
    BY OutboxAssumption DEF TxIds
  <2>3. ActiveUnfinished'
    BY <1>3, <2>2 DEF Ebb, Ebbing, DeadlineInv, ActiveUnfinished
  <2> QED BY <2>1, <2>3
<1>4. CASE \E m \in Msgs : Grow(m)
  <2>1. PICK u \in TxIds : /\ ~tx'[u].finished
                           /\ \A t \in TxIds \ {u} : tx'[t] = tx[t]
                           /\ active' \in {u, active}
    BY <1>4, GrowShape
  <2> QED BY <1>1, <2>1 DEF DeadlineInv, ActiveUnfinished
<1>5. CASE PttOn
  <2>1. CASE active = Nil
    BY <1>1, <1>5, <2>1 DEF PttOn, DeadlineInv, ActiveUnfinished
  <2>2. CASE active # Nil
    <3>1. active \in TxIds /\ ~tx[active].finished /\ tx[active] \in TxRow
      BY <2>2 DEF TypeOK, DeadlineInv, ActiveUnfinished
    <3>2. ~Activated(tx[active]).finished
      BY <3>1 DEF Activated, TxRow
    <3>3. \A t \in TxIds : tx'[t] = IF t = active THEN Activated(tx[active]) ELSE tx[t]
      BY <1>5, <2>2, <3>1 DEF PttOn, TypeOK, TxWith
    <3>4. active' = active
      BY <1>5 DEF PttOn
    <3> QED BY <1>1, <3>1, <3>2, <3>3, <3>4 DEF ActiveUnfinished
  <2> QED BY <2>1, <2>2
<1>6. CASE CompleteRfTrain
  <2>1. ActiveUnfinished'
    BY <1>6, OutboxAssumption DEF CompleteRfTrain, ActiveUnfinished, TxIds
  <2>2. ASSUME NEW row \in TxRow PROVE Covered(Finished(row)) \/ Finished(row) = row
    BY DEF Finished, TxRow, IsLive, LiveStatus
  <2>3. ASSUME NEW row \in TxRow PROVE Covered(BroadcastDone(row))
    BY DEF BroadcastDone, TxRow, IsLive, LiveStatus
  <2>4. ASSUME NEW t \in TxIds PROVE Covered(tx'[t])
    <3>1. tx'[t] \in {tx[t], Finished(tx[t]), BroadcastDone(tx[t])}
      BY <1>6, TrainRows
    <3>2. tx[t] \in TxRow
      BY DEF TypeOK
    <3> HIDE DEF Covered
    <3> QED BY <1>1, <2>2, <2>3, <3>1, <3>2
  <2> QED BY <2>1, <2>4
<1> QED BY <1>3, <1>4, <1>5, <1>6, Moves

\* No live transaction escapes the sweeps: in whatever order the handoff, the
\* PTT events, the end of the train, a lost link and a restart come, its
\* finish time is set only on a row that waits for its ACK, so one of the two
\* conditions of expire_transmission_transactions selects it.
THEOREM DeadlineAlwaysCovers == Spec => []DeadlineCovers
<1>1. Init => DeadlineInv
  BY OutboxAssumption
     DEF Init, DeadlineInv, DeadlineCovers, ActiveUnfinished, NoTx, IsLive, LiveStatus, TxIds
<1>2. TypeOK /\ DeadlineInv /\ [Next]_vars => DeadlineInv'
  BY DeadlineStep
<1>3. DeadlineInv => DeadlineCovers
  BY DEF DeadlineInv
<1> QED BY <1>1, <1>2, <1>3, TypeCorrect, PTL DEF Spec

\* The loop makes no transaction for a message whose three days are over, except
\* a broadcast, whatever the requests, the clock and its own snapshot did:
\* every branch of the loop that begins one has looked at the row's expiry in
\* the same step.
THEOREM ExpiryPreventsWork == Spec => NoWorkAfterExpiry
<1> DEFINE A == \A t \in TxIds :
                  /\ tx[t].status = "none" /\ tx'[t].status = "queued"
                  /\ task'[Daemon] # task[Daemon]
                  => tx'[t].msg \in Broadcast \/ ~mail[tx'[t].msg].lapsed
<1>1. ASSUME TypeOK, [Next]_vars PROVE A
  <2> SUFFICES ASSUME NEW t \in TxIds, tx'[t].status = "queued", tx[t].status = "none",
                      task'[Daemon] # task[Daemon]
               PROVE  tx'[t].msg \in Broadcast \/ ~mail[tx'[t].msg].lapsed
    OBVIOUS
  <2>1. ~Ebb
    BY DEF Ebb, Ebbing, IsLive, LiveStatus
  <2>2. ~(PttOn \/ CompleteRfTrain)
    BY <1>1, TrainKeeps
  <2>3. PICK m \in Msgs : Grow(m) /\ InTime(m)
    BY <1>1, <2>1, <2>2, Moves
  <2>4. PICK u \in TxIds : tx'[u].msg = m /\ \A r \in TxIds \ {u} : tx'[r] = tx[r]
    BY <1>1, <2>3, GrowShape
  <2>5. t = u
    BY <2>4
  <2> QED BY <2>3, <2>4, <2>5 DEF InTime
<1>2. TypeOK /\ [Next]_vars => [A]_vars
  BY <1>1
<1> QED BY <1>2, TypeCorrect, PTL DEF Spec, NoWorkAfterExpiry

\* No step brings a closed attempt back to life: whatever ACK, deadline, PTT
\* event, lost link or restart came first, the UPDATE that comes after it only
\* takes a live row, and a new attempt takes an id of its own.
THEOREM ClosedStaysClosed == Spec => ClosedForGood
<1> DEFINE A == \A t \in TxIds : tx[t].status # "none" /\ ~IsLive(tx[t]) => ~IsLive(tx'[t])
<1>1. ASSUME TypeOK, [Next]_vars PROVE A
  <2>1. CASE Ebb
    BY <2>1 DEF Ebb, Ebbing
  <2>2. CASE PttOn \/ CompleteRfTrain
    BY <1>1, <2>2, TrainKeeps
  <2>3. ASSUME NEW m \in Msgs, Grow(m) PROVE A
    BY <1>1, <2>3, GrowShape
  <2> QED BY <1>1, <2>1, <2>2, <2>3, Moves
<1>2. TypeOK /\ [Next]_vars => [A]_vars
  BY <1>1
<1> QED BY <1>2, TypeCorrect, PTL DEF Spec, ClosedForGood

=============================================================================
