---------------------------- MODULE Promise_proofs ----------------------------
(****************************************************************************)
(* Outbox keeps what MailPromise says, for every set of messages, stations  *)
(* and requests and every bound: what is reported delivered or stored is    *)
(* where the report says, and every step moves the status of the messages   *)
(* as MailPromise allows, or not at all.  An ACK names no message, so this  *)
(* is shown of the messages that share no station with another one (Sole).  *)
(****************************************************************************)
EXTENDS Outbox_proofs

\* A message that shares no station is a message.
LEMMA SoleMessage ==
  ASSUME NEW m \in Sole
  PROVE  /\ m \in Msgs /\ Keepers[m] \subseteq Custodians /\ Keepers[m] \subseteq Stations
         /\ m \notin Broadcast => Dest[m] \in Stations
BY OutboxAssumption DEF Sole

\* The stations that answer about a message answer about no other one, when it is
\* alone with them, and each in one role.
LEMMA SoleStations ==
  ASSUME NEW m \in Sole, NEW n \in Msgs
  PROVE  /\ m \in Msgs /\ Keepers[m] \subseteq Custodians /\ Keepers[n] \subseteq Custodians
         /\ m \notin Broadcast => Dest[m] \in Stations
         /\ m \notin Broadcast => Dest[m] \notin Keepers[n]
         /\ m \notin Broadcast /\ n \notin Broadcast /\ Dest[m] = Dest[n] => m = n
         /\ n \notin Broadcast => Dest[n] \notin Keepers[m]
         /\ \A k \in Keepers[m] : k \in Keepers[n] => m = n
<1>1. m \in Msgs /\ Keepers[m] \subseteq Custodians /\ Keepers[n] \subseteq Custodians
  BY OutboxAssumption DEF Sole
<1>2. \A x \in Msgs : x \notin Broadcast => Dest[x] \in Partners(x)
  BY OutboxAssumption DEF Partners
<1>3. \A x \in Msgs : Keepers[x] \subseteq Partners(x)
  BY DEF Partners
<1>4. Dest[m] \notin Keepers[m] /\ (n # m => Partners(m) \cap Partners(n) = {})
  BY DEF Sole
<1> QED BY <1>1, <1>2, <1>3, <1>4, OutboxAssumption

-----------------------------------------------------------------------------
(* The invariant: what the tables, the coroutines, the train and the ACKs   *)
(* on their way say about the stations.                                     *)

Blank(x) == x.op = "none" /\ x.peer = Nil

RowsAddressed == \A t \in TxIds : Blank(tx[t]) \/ Addressed(tx[t])

\* message_parts has the part: an ACK of this text alone proves nothing.
Noted(load) ==
  load.part # 0 /\ load.op # "store" => mail[load.msg].enh \/ mail[load.msg].state = "gone"

LoadsAddressed ==
  /\ \A c \in Tasks : task[c].pc \in {"begun", "send"} => Addressed(task[c].load)
  /\ \A c \in Tasks : task[c].pc = "send" => Noted(task[c].load)
  /\ air.load.op # "none" => Addressed(air.load) /\ Noted(air.load)

\* An ACK on its way comes from a destination that has the message, or was
\* sent a part of it, or from a custodian that took it.
AcksMean ==
  \A m \in Sole :
    /\ m \notin Broadcast /\ acks[Dest[m]] # "none" =>
         peer[m].got = Parts \/ mail[m].enh \/ mail[m].state = "gone"
    /\ \A k \in Keepers[m] : acks[k] # "none" => Took(peer[m], k)

\* A receipt names parts that the destination has.
EchoMeans == \A m \in Msgs : \A r \in peer[m].echo : r \subseteq peer[m].got

Evidence == RowsAddressed /\ LoadsAddressed /\ AcksMean /\ EchoMeans

-----------------------------------------------------------------------------
(* What a step may do to a message row.                                     *)

\* What the row goes on from is what it had, or what the stations have: the parts
\* confirmed, the receipt, and the custodians that accepted.
Recorded(m, old, new) ==
  /\ new.confirmed \subseteq old.confirmed \cup peer[m].got
  /\ new.receipted => old.receipted \/ peer[m].got = Parts
  /\ m \in Sole => \A k \in Custodians : new.custody[k] \in {"accepted", "forwarded"} =>
                    old.custody[k] \in {"accepted", "forwarded"} \/ Took(peer[m], k)

\* The status shown stays, the operator asked for nothing, and a message of
\* which a part is on record keeps the record until it is removed.
SteadyRow(m, old, new) ==
  /\ Recorded(m, old, new)
  /\ StatusShown(new.state) = StatusShown(old.state)
  /\ new.era = old.era
  /\ old.enh \/ old.state = "gone" => new.enh \/ new.state = "gone"

\* What a report of delivered, or stored, rests on.
IsThere(m) == m \in Sole => m \in Broadcast \/ peer[m].got = Parts
IsKept(m) == m \in Sole => \E k \in Custodians : Took(peer[m], k)

\* Message m turns, as the stations allow.
TurnRow(m, old, new) ==
  LET a == StatusShown(old.state)
      b == StatusShown(new.state)
  IN  /\ Recorded(m, old, new)
      /\ old.enh \/ old.state = "gone" => new.enh \/ new.state = "gone"
      /\ \/ /\ new.era = old.era
            /\ \/ a = "absent" /\ b = "open"
               \/ a = "open" /\ b \in {"held", "expired", "cancelled", "failed"}
               \/ /\ a \in {"held", "stored", "complete", "failed", "expired", "cancelled"}
                  /\ b = "removed"
               \/ a = "open" /\ b = "stored" /\ IsKept(m)
               \/ a \in {"open", "stored"} /\ b = "complete" /\ IsThere(m)
         \/ /\ new.era = old.era + 1
            /\ a \in {"open", "held", "failed", "cancelled"} /\ new.state = "queued"

Steady == \A m \in Msgs : SteadyRow(m, mail[m], mail'[m])

Turn ==
  /\ peer' = peer
  /\ \E m \in Msgs : /\ TurnRow(m, mail[m], mail'[m])
                     /\ \A n \in Msgs \ {m} : mail'[n] = mail[n]

\* A sweep fails the broadcasts it gives up.
GivesUp ==
  /\ peer' = peer
  /\ \A m \in Msgs : \/ SteadyRow(m, mail[m], mail'[m])
                     \/ /\ TurnRow(m, mail[m], mail'[m]) /\ mail'[m].era = mail[m].era
                        /\ StatusShown(mail[m].state) = "open"
                        /\ StatusShown(mail'[m].state) = "failed"

\* A row that learns nothing, and what two writes in one step record.
LEMMA RecordedRows ==
  ASSUME NEW m
  PROVE  /\ \A old, new : NoNews(old, new) => Recorded(m, old, new)
         /\ \A old, mid, new : Recorded(m, old, mid) /\ Recorded(m, mid, new)
                                => Recorded(m, old, new)
BY DEF NoNews, Recorded

LEMMA RecordedSame ==
  ASSUME NEW m, NEW old, NEW new, new.confirmed = old.confirmed,
         new.receipted = old.receipted, new.custody = old.custody
  PROVE  Recorded(m, old, new)
BY DEF Recorded

\* What is shown of the states.
LEMMA ShownStates ==
  /\ \A s \in {"draft", "queued", "waiting_route", "waiting_approval",
               "waiting_opportunity", "in_progress"} : StatusShown(s) = "open"
  /\ StatusShown("none") = "absent" /\ StatusShown("gone") = "removed"
  /\ StatusShown("acknowledged") = "held" /\ StatusShown("delivered") = "complete"
  /\ \A s \in {"stored", "failed", "expired", "cancelled"} : StatusShown(s) = s
BY DEF StatusShown

\* A state that can be deferred, or moved to another one, is shown as open;
\* only a stored message moves on otherwise.
LEMMA MovableOpen ==
  ASSUME NEW s \in MailState
  PROVE  /\ CanDefer(s) => StatusShown(s) = "open"
         /\ s \in Open \cup Ready => StatusShown(s) = "open"
         /\ CanTransition(s, "failed") => StatusShown(s) = "open"
         /\ CanTransition(s, "expired") => StatusShown(s) = "open"
         /\ CanTransition(s, "stored") => StatusShown(s) = "open"
         /\ CanTransition(s, "delivered") => StatusShown(s) \in {"open", "stored"}
         /\ CanTransition(s, "acknowledged") => s = "acknowledged" \/ StatusShown(s) = "open"
<1>1. CASE s \in {"draft", "queued", "waiting_route", "waiting_approval",
                  "waiting_opportunity", "in_progress"}
  BY <1>1, ShownStates
<1>2. CASE s \in {"none", "gone", "acknowledged", "delivered", "failed", "expired",
                  "cancelled", "stored"}
  BY <1>2, ShownStates
     DEF CanDefer, CanTransition, Allowed, States, Terminal, Open, Ready
<1> QED BY <1>1, <1>2 DEF MailState, States

\* One row is rewritten, and steadily.
LEMMA SteadyOne ==
  ASSUME TypeOK, NEW m, NEW row, m \in Msgs => SteadyRow(m, mail[m], row),
         mail' = [mail EXCEPT ![m] = row]
  PROVE  Steady
BY DEF TypeOK, Steady, SteadyRow, Recorded

\* No row is rewritten.
LEMMA SteadySame ==
  ASSUME mail' = mail
  PROVE  Steady
BY DEF Steady, SteadyRow, Recorded

\* A deferral, a wake and a new custody status are steady.
LEMMA SteadyRows ==
  ASSUME NEW m, NEW row \in MailRow
  PROVE  /\ \A n : CanDefer(row.state) => SteadyRow(m, row, Deferred(row, n))
         /\ SteadyRow(m, row, row)
         /\ SteadyRow(m, row, Woken(row))
<1>1. ASSUME NEW n, CanDefer(row.state) PROVE SteadyRow(m, row, Deferred(row, n))
  <2>1. StatusShown(row.state) = "open" /\ StatusShown("waiting_route") = "open"
    BY <1>1, MovableOpen, ShownStates DEF MailRow
  <2>2. /\ Deferred(row, n).state = "waiting_route" /\ Deferred(row, n).era = row.era
        /\ Deferred(row, n).enh = row.enh /\ Recorded(m, row, Deferred(row, n))
    BY DEF Deferred, Recorded, MailRow
  <2>3. row.state # "gone"
    BY <1>1 DEF CanDefer, CanTransition, States
  <2> QED BY <2>1, <2>2, <2>3 DEF SteadyRow
<1>2. SteadyRow(m, row, row) /\ SteadyRow(m, row, Woken(row))
  BY DEF SteadyRow, Recorded, Woken, MailRow
<1> QED BY <1>1, <1>2

\* Two steady writes in one step.
LEMMA SteadyTwice ==
  ASSUME NEW m, NEW old, NEW mid, NEW new, SteadyRow(m, old, mid), SteadyRow(m, mid, new)
  PROVE  SteadyRow(m, old, new)
BY RecordedRows DEF SteadyRow

\* The row discovery goes on with is shown as the one that is there.
LEMMA SteadyGoes ==
  ASSUME TypeOK, NEW m \in Msgs, NEW row, Goes(m, row)
  PROVE  SteadyRow(m, mail[m], row)
<1>1. mail[m] \in MailRow
  BY DEF TypeOK
<1>2. mail[m].state \in Open =>
        StatusShown(mail[m].state) = "open" /\ mail[m].state # "gone"
  BY <1>1, MovableOpen DEF MailRow, Open
<1>3. StatusShown("waiting_route") = "open"
  BY ShownStates
<1> QED BY <1>2, <1>3, RecordedRows DEF Goes, SteadyRow

\* Starting a transmission is steady.
LEMMA SteadyStart ==
  ASSUME TypeOK, NEW m \in Msgs, Grow(m)
  PROVE  Steady
<1>0. PICK c \in Tasks, row \in MailRow, via \in Via, op \in Ops, part \in 0..NParts,
           responder \in Names :
        /\ Start(c, m, row, via, op, part, responder)
        /\ mail[m].state \in Open /\ row.era = mail[m].era /\ row.enh = mail[m].enh
        /\ NoNews(mail[m], row)
  BY DEF Grow
<1>1. /\ mail' = [mail EXCEPT ![m] = [row EXCEPT !.state = "in_progress"]]
      /\ mail[m].state \in Open /\ row.era = mail[m].era /\ row.enh = mail[m].enh
      /\ NoNews(mail[m], row)
  BY <1>0 DEF Start
<1> DEFINE new == [row EXCEPT !.state = "in_progress"]
<1>2. /\ new.state = "in_progress" /\ new.era = mail[m].era /\ new.enh = mail[m].enh
      /\ NoNews(mail[m], new)
  BY <1>1 DEF MailRow, NoNews
<1>3. mail[m].state \in MailState /\ mail[m].state # "gone"
  BY <1>1 DEF TypeOK, MailRow, Open
<1>4. StatusShown(mail[m].state) = "open" /\ StatusShown("in_progress") = "open"
  BY <1>1, <1>3, MovableOpen, ShownStates
<1>5. SteadyRow(m, mail[m], new)
  BY <1>2, <1>3, <1>4, RecordedRows DEF SteadyRow
<1>6. mail' = [mail EXCEPT ![m] = new]
  BY <1>1
<1> HIDE DEF new
<1> QED BY <1>5, <1>6, SteadyOne

\* A deferral, or the exception instead of it, is steady.
LEMMA SteadyDefer ==
  ASSUME TypeOK, NEW m \in Msgs, NEW row \in MailRow, SteadyRow(m, mail[m], row),
         NEW n, NEW rest, DeferOrCrash(m, row, n, rest) \/ DeferQuietly(m, n, rest)
  PROVE  Steady
<1>1. mail[m] \in MailRow
  BY DEF TypeOK
<1>2. CASE mail' = mail
  BY <1>2, SteadySame
<1>3. CASE mail' = [mail EXCEPT ![m] = row]
  BY <1>3, SteadyOne
<1>4. CASE CanDefer(mail[m].state) /\ mail' = [mail EXCEPT ![m] = Deferred(mail[m], n)]
  BY <1>1, <1>4, SteadyOne, SteadyRows
<1>5. CASE CanDefer(row.state) /\ mail' = [mail EXCEPT ![m] = Deferred(row, n)]
  <2>1. SteadyRow(m, row, Deferred(row, n))
    BY <1>5, SteadyRows
  <2>2. SteadyRow(m, mail[m], Deferred(row, n))
    BY <2>1, SteadyTwice
  <2> QED BY <1>5, <2>2, SteadyOne
<1> QED BY <1>2, <1>3, <1>4, <1>5 DEF DeferOrCrash, DeferQuietly

\* What a caller of transmit writes after an exception is steady.
LEMMA SteadyError ==
  ASSUME TypeOK, NEW m \in Msgs, NEW via, NEW kind, NEW rest, OnError(m, via, kind, rest)
  PROVE  Steady
<1>1. mail[m] \in MailRow /\ SteadyRow(m, mail[m], mail[m])
  BY SteadyRows DEF TypeOK
<1> QED BY <1>1, SteadyDefer, SteadySame DEF OnError

\* transmit, begun or refused, is steady.
LEMMA SteadyTransmit ==
  ASSUME TypeOK, NEW c \in Tasks, NEW m \in Msgs, NEW via \in Via, NEW rest,
         Transmit(c, m, via, rest)
  PROVE  Steady
BY StartGrows, SteadyStart, SteadyError DEF Transmit, RefuseTransmit

\* prepare is steady.
LEMMA SteadyPrepare ==
  ASSUME TypeOK, NEW c \in Tasks, NEW m \in Msgs, NEW rest, Prepare(c, m, rest)
  PROVE  Steady
BY SteadyTransmit, SteadySame DEF Prepare, Via

\* Discovery is steady.
LEMMA SteadyDiscover ==
  ASSUME TypeOK, NEW e \in todo, Discover(e)
  PROVE  Steady
<1> DEFINE m == e.msg
           rest == todo \ {e}
<1>1. m \in Msgs /\ mail[m] \in MailRow /\ Daemon \in Tasks
  BY TodoType DEF Tasks
<1>2. CASE mail' = mail
  BY <1>2, SteadySame
<1>3. ASSUME NEW expired \in BOOLEAN, expired => CanDefer(mail[m].state)
      PROVE  Goes(m, AfterDeadline(m, expired))
  BY <1>1, <1>3, AfterDeadlineGoes
<1>4. ASSUME NEW row, Goes(m, row),
             LeaveWaiting(m, row, rest) \/ WakeForDirect(m, row, rest) \/ Query(m, row, rest)
      PROVE  Steady
  <2>1. SteadyRow(m, mail[m], row)
    BY <1>1, <1>4, SteadyGoes
  <2>2. SteadyRow(m, row, Woken(row))
    BY <1>4, SteadyRows DEF Goes
  <2>3. SteadyRow(m, mail[m], Woken(row))
    BY <2>1, <2>2, SteadyTwice
  <2>4. mail' = [mail EXCEPT ![m] = row] \/ mail' = [mail EXCEPT ![m] = Woken(row)]
    BY <1>4 DEF LeaveWaiting, WakeForDirect, Query
  <2> QED BY <2>1, <2>3, <2>4, SteadyOne
<1>5. ASSUME TakeRoute(m, rest) PROVE Steady
  <2>1. SteadyRow(m, mail[m], mail[m])
    BY <1>1, SteadyRows
  <2> QED BY <1>1, <1>5, <2>1, SteadyTransmit, SteadyDefer, SteadySame DEF TakeRoute, Via
<1>6. ASSUME NEW row, Goes(m, row), OfferCustody(m, row, rest) PROVE Steady
  <2>1. PICK k \in Keepers[m] : TransmitStore(m, row, k, rest)
    BY <1>6 DEF OfferCustody, Candidates
  <2>2. CASE row.state \in Ready
    BY <1>1, <1>6, <2>1, <2>2, OfferGrows, SteadyStart
  <2>3. CASE row.state \notin Ready
    <3>1. row \in MailRow /\ SteadyRow(m, mail[m], row)
      BY <1>1, <1>6, SteadyGoes DEF Goes
    <3> QED BY <1>1, <2>1, <2>3, <3>1, SteadyDefer DEF TransmitStore
  <2> QED BY <2>2, <2>3
<1>7. \/ mail' = mail
      \/ TakeRoute(m, rest)
      \/ \E expired \in BOOLEAN :
           LET row == AfterDeadline(m, expired)
           IN  /\ expired => CanDefer(mail[m].state)
               /\ \/ LeaveWaiting(m, row, rest) \/ WakeForDirect(m, row, rest)
                  \/ OfferCustody(m, row, rest) \/ Query(m, row, rest)
  BY DEF Discover
<1> HIDE DEF m, rest
<1> QED BY <1>2, <1>3, <1>4, <1>5, <1>6, <1>7

\* One row is rewritten by a turn.
LEMMA TurnOne ==
  ASSUME TypeOK, NEW m \in Msgs, NEW row, TurnRow(m, mail[m], row),
         mail' = [mail EXCEPT ![m] = row], peer' = peer
  PROVE  Turn
<1>1. mail'[m] = row /\ \A n \in Msgs \ {m} : mail'[n] = mail[n]
  BY DEF TypeOK
<1> QED BY <1>1 DEF Turn

\* A turn, or a refused one, of a row that is shown as the one that is there.
LEMMA MovedTurns ==
  ASSUME TypeOK, NEW m \in Msgs, NEW row \in MailRow, SteadyRow(m, mail[m], row),
         NEW target \in {"failed", "expired", "stored", "delivered"},
         target = "stored" => IsKept(m),
         target = "delivered" => IsThere(m) \/ ~CanTransition(row.state, "delivered"),
         mail' = [mail EXCEPT ![m] = Moved(row, target)], peer' = peer
  PROVE  Steady \/ Turn
<1>1. CASE ~CanTransition(row.state, target)
  BY <1>1, SteadyOne DEF Moved
<1>2. CASE CanTransition(row.state, target)
  <2> DEFINE new == [row EXCEPT !.state = target]
  <2>1. /\ new.state = target /\ new.era = row.era /\ new.enh = row.enh
        /\ Recorded(m, row, new)
    BY RecordedSame DEF MailRow
  <2>2. row.state # "gone" /\ row.state \in MailState
    BY <1>2 DEF CanTransition, States, MailRow
  <2>3. StatusShown(row.state) = "open"
          \/ (target = "delivered" /\ StatusShown(row.state) = "stored")
    BY <1>2, <2>2, MovableOpen
  <2>4. StatusShown(target) = IF target = "delivered" THEN "complete" ELSE target
    BY ShownStates
  <2>5. TurnRow(m, mail[m], new)
    BY <1>2, <2>1, <2>2, <2>3, <2>4, RecordedRows DEF TurnRow, SteadyRow
  <2>6. mail' = [mail EXCEPT ![m] = new]
    BY <1>2 DEF Moved
  <2> HIDE DEF new
  <2> QED BY <2>5, <2>6, TurnOne
<1> QED BY <1>1, <1>2

-----------------------------------------------------------------------------
(* Each step, by what it does to the messages.                              *)

\* A sweep defers the messages of the rows it takes, or fails a broadcast.
LEMMA SweepMail ==
  ASSUME TypeOK, NEW X \in SUBSET TxIds, Sweep(X)
  PROVE  GivesUp
<1>0. PICK Y : mail' = [m \in Msgs |-> Swept(m, Y)] /\ peer' = peer
  BY DEF Sweep
<1> SUFFICES ASSUME NEW m \in Msgs
             PROVE  \/ SteadyRow(m, mail[m], Swept(m, Y))
                    \/ /\ TurnRow(m, mail[m], Swept(m, Y))
                       /\ Swept(m, Y).era = mail[m].era
                       /\ StatusShown(mail[m].state) = "open"
                       /\ StatusShown(Swept(m, Y).state) = "failed"
  BY <1>0 DEF GivesUp
<1> DEFINE mine == Y \cap TxsOf(m)
           stores == {t \in mine : tx[t].op = "store"}
           lost == {tx[t].peer : t \in stores}
           given == [mail[m] EXCEPT !.custody = [k \in Custodians |->
                       IF k \in lost THEN "failed" ELSE @[k]]]
           failed == [mail[m] EXCEPT !.state = "failed"]
<1>1. mail[m] \in MailRow
  BY DEF TypeOK
<1>2. \/ Swept(m, Y) = mail[m] \/ Swept(m, Y) = given
      \/ mail[m].state = "in_progress" /\ Swept(m, Y) = failed
      \/ /\ CanDefer(mail[m].state)
         /\ Swept(m, Y) = Deferred(given, Cardinality(mine \ stores))
  BY DEF Swept
<1>3. CASE Swept(m, Y) = mail[m]
  BY <1>1, <1>3, SteadyRows
<1>4. CASE mail[m].state = "in_progress" /\ Swept(m, Y) = failed
  <2>1. /\ failed.state = "failed" /\ failed.era = mail[m].era /\ failed.enh = mail[m].enh
        /\ Recorded(m, mail[m], failed)
    BY <1>1, RecordedSame DEF MailRow
  <2>2. StatusShown("in_progress") = "open" /\ StatusShown("failed") = "failed"
    BY ShownStates
  <2> HIDE DEF failed
  <2> QED BY <1>4, <2>1, <2>2 DEF TurnRow
<1>5. given \in MailRow /\ given.state = mail[m].state /\ SteadyRow(m, mail[m], given)
  <2> DEFINE told == [k \in Custodians |-> IF k \in lost THEN "failed" ELSE mail[m].custody[k]]
  <2>1. told \in [Custodians -> CustodyStatus]
    BY <1>1 DEF MailRow, CustodyStatus
  <2>2. \A k \in Custodians : told[k] \in {mail[m].custody[k], "failed"}
    OBVIOUS
  <2>3. given = [mail[m] EXCEPT !.custody = told]
    OBVIOUS
  <2> HIDE DEF told, given
  <2>4. /\ given \in MailRow /\ given.state = mail[m].state /\ given.custody = told
        /\ given.era = mail[m].era /\ given.enh = mail[m].enh
        /\ given.confirmed = mail[m].confirmed /\ given.receipted = mail[m].receipted
    BY <1>1, <2>1, <2>3 DEF MailRow
  <2>5. Recorded(m, mail[m], given)
    BY <2>2, <2>4 DEF Recorded
  <2> QED BY <2>4, <2>5 DEF SteadyRow
<1> HIDE DEF given, failed
<1>6. CASE /\ CanDefer(mail[m].state)
           /\ Swept(m, Y) = Deferred(given, Cardinality(mine \ stores))
  <2>1. SteadyRow(m, given, Swept(m, Y))
    BY <1>5, <1>6, SteadyRows
  <2> QED BY <1>5, <2>1, SteadyTwice
<1> QED BY <1>2, <1>3, <1>4, <1>5, <1>6

\* The loop turns a message only to expired, held or failed.
LEMMA LoopMail ==
  ASSUME TypeOK, LoopStep
  PROVE  (Steady /\ peer' = peer) \/ Turn \/ GivesUp
<1>1. ASSUME NEW X \in SUBSET TxIds, Sweep(X) PROVE GivesUp
  BY <1>1, SweepMail
<1>2. ASSUME NEW e \in todo,
             \/ SkipRemoved(e) \/ BroadcastToGroup(e) \/ ExpireMessage(e)
             \/ PrepareQueued(e) \/ HoldMessage(e) \/ HoldCutShort(e)
             \/ AwaitResponse(e) \/ ReturnToDiscovery(e) \/ Discover(e)
      PROVE  (Steady /\ peer' = peer) \/ Turn
  <2>1. e.msg \in Msgs /\ mail[e.msg] \in MailRow /\ Daemon \in Tasks
    BY TodoType DEF Tasks
  <2>2. SteadyRow(e.msg, mail[e.msg], mail[e.msg])
    BY <2>1, SteadyRows
  <2>3. CASE SkipRemoved(e) \/ AwaitResponse(e)
    BY <2>3, SteadySame DEF SkipRemoved, AwaitResponse
  <2>4. CASE BroadcastToGroup(e) \/ PrepareQueued(e)
    BY <2>1, <2>4, SteadyTransmit, SteadyPrepare DEF BroadcastToGroup, PrepareQueued, Via
  <2>5. CASE ExpireMessage(e)
    <3>1. mail' = [mail EXCEPT ![e.msg] = Moved(mail[e.msg], "expired")] /\ peer' = peer
      BY <2>5 DEF ExpireMessage
    <3>2. Steady \/ Turn
      BY <2>1, <2>2, <3>1, MovedTurns
    <3> QED BY <3>1, <3>2
  <2>6. CASE ReturnToDiscovery(e)
    BY <2>1, <2>2, <2>6, SteadyDefer DEF ReturnToDiscovery
  <2>7. CASE Discover(e)
    BY <2>7, SteadyDiscover DEF Discover
  <2>8. CASE HoldMessage(e) \/ HoldCutShort(e)
    <3>1. CASE mail' = mail
      BY <2>8, <3>1, SteadySame DEF HoldMessage, HoldCutShort
    <3>2. CASE mail' # mail
      <4>1. PICK new \in {Held(mail[e.msg]), HeldFirst(mail[e.msg])} :
              mail' = [mail EXCEPT ![e.msg] = new]
        BY <2>8, <3>2 DEF HoldMessage, HoldCutShort
      <4>2. peer' = peer /\ CanTransition(mail[e.msg].state, "acknowledged")
        BY <2>8, <3>2 DEF HoldMessage, HoldCutShort
      <4>6. /\ new.state = "acknowledged" /\ new.era = mail[e.msg].era
            /\ new.enh = mail[e.msg].enh /\ Recorded(e.msg, mail[e.msg], new)
        BY <2>1, RecordedSame DEF Held, HeldFirst, MailRow
      <4>3. /\ StatusShown("acknowledged") = "held"
            /\ mail[e.msg].state = "acknowledged" \/ StatusShown(mail[e.msg].state) = "open"
            /\ mail[e.msg].state # "gone"
        BY <2>1, <4>2, ShownStates, MovableOpen DEF MailRow, CanTransition, States
      <4>4. CASE mail[e.msg].state = "acknowledged"
        BY <2>1, <4>1, <4>2, <4>4, <4>6, SteadyOne DEF SteadyRow
      <4>5. CASE StatusShown(mail[e.msg].state) = "open"
        <5>1. TurnRow(e.msg, mail[e.msg], new)
          BY <4>3, <4>5, <4>6 DEF TurnRow
        <5> QED BY <2>1, <4>1, <4>2, <5>1, TurnOne
      <4> QED BY <4>3, <4>4, <4>5
    <3> QED BY <3>1, <3>2
  <2> QED BY <1>2, <2>3, <2>4, <2>5, <2>6, <2>7, <2>8
          DEF BroadcastToGroup, PrepareQueued, ReturnToDiscovery, SkipRemoved, AwaitResponse
<1> QED BY <1>1, <1>2 DEF LoopStep

\* A coroutine turns a message only to failed.
LEMMA TaskMail ==
  ASSUME TypeOK, NEW c \in Tasks, TaskStep(c)
  PROVE  (Steady \/ Turn) /\ peer' = peer
<1> DEFINE m == task[c].load.msg
<1>0. peer' = peer
  BY DEF TaskStep, EnterSendRf, HandoffPart, Handoff, FailSend, AskDone
<1>1. CASE EnterSendRf(c)
  <2>1. m \in Msgs
    BY <1>1, AwaitType DEF EnterSendRf
  <2>2. mail[m] \in MailRow
    BY <2>1 DEF TypeOK
  <2> DEFINE noted == task[c].load.part # 0 /\ task[c].load.op # "store"
  <2>3. mail' = mail \/ mail' = [mail EXCEPT ![m] = [mail[m] EXCEPT !.enh = @ \/ noted]]
    BY <1>1 DEF EnterSendRf
  <2> HIDE DEF noted
  <2>4. SteadyRow(m, mail[m], [mail[m] EXCEPT !.enh = @ \/ noted])
    BY <2>2 DEF SteadyRow, Recorded, MailRow
  <2> QED BY <1>0, <2>3, <2>4, SteadySame, SteadyOne
<1>5. CASE HandoffPart(c)
  BY <1>5, SteadySame DEF HandoffPart
<1>2. CASE Handoff(c)
  <2>1. m \in Msgs
    BY <1>2, AwaitType DEF Handoff
  <2>2. mail[m] \in MailRow
    BY <2>1 DEF TypeOK
  <2>3. \E b : mail' = [mail EXCEPT ![m] = [mail[m] EXCEPT !.direct = b]]
    BY <1>2 DEF Handoff
  <2>4. \A b : SteadyRow(m, mail[m], [mail[m] EXCEPT !.direct = b])
    BY <2>2 DEF SteadyRow, Recorded, MailRow
  <2> QED BY <1>0, <2>3, <2>4, SteadyOne
<1>3. ASSUME NEW exhausted \in BOOLEAN, FailSend(c, exhausted) PROVE Steady \/ Turn
  <2> DEFINE lost == [mail[m] EXCEPT !.custody =
                        IF task[c].via = "store" THEN [@ EXCEPT ![task[c].load.peer] = "failed"] ELSE @]
  <2>1. m \in Msgs
    BY <1>3, AwaitType DEF FailSend
  <2>2. mail[m] \in MailRow
    BY <2>1 DEF TypeOK
  <2>3. [mail[m].custody EXCEPT ![task[c].load.peer] = "failed"] \in [Custodians -> CustodyStatus]
    BY <2>2 DEF MailRow, CustodyStatus
  <2>4. lost \in MailRow /\ SteadyRow(m, mail[m], lost)
    BY <2>2, <2>3 DEF MailRow, SteadyRow, Recorded
  <2>5. \/ mail' = mail
        \/ mail' = [mail EXCEPT ![m] = Moved(lost, "failed")]
        \/ DeferOrCrash(m, lost, 1, todo)
        \/ OnError(m, task[c].via, "runtime", todo)
    BY <1>3 DEF FailSend
  <2> HIDE DEF lost, m
  <2>6. CASE mail' = [mail EXCEPT ![m] = Moved(lost, "failed")]
    BY <1>0, <2>1, <2>4, <2>6, MovedTurns
  <2> QED BY <2>1, <2>4, <2>5, <2>6, SteadySame, SteadyDefer, SteadyError
<1>4. ASSUME NEW sent \in BOOLEAN, AskDone(c, sent) PROVE Steady
  <2>1. m \in Msgs
    BY <1>4, AwaitType DEF AskDone
  <2>2. mail[m] \in MailRow
    BY <2>1 DEF TypeOK
  <2>3. \/ mail' = mail
        \/ /\ CanDefer(mail[m].state)
           /\ \E n : mail' = [mail EXCEPT ![m] = Deferred(mail[m], n)]
    BY <1>4 DEF AskDone
  <2> HIDE DEF m
  <2> QED BY <2>2, <2>3, SteadySame, SteadyOne, SteadyRows
<1> QED BY <1>0, <1>1, <1>2, <1>3, <1>4, <1>5 DEF TaskStep

\* The operator's requests, and the clock.
LEMMA OperatorMail ==
  ASSUME TypeOK, Operator \/ Clock
  PROVE  (Steady \/ Turn) /\ peer' = peer
<1>0. peer' = peer
  BY DEF Operator, Clock, Compose, Cancel, Retry, Delete, PrepareNow, RetryNow, SendNow,
         Lapse, FallDue
<1>1. ASSUME NEW m \in Msgs,
             Compose(m) \/ Cancel(m) \/ Retry(m) \/ Delete(m) \/ Lapse(m) \/ FallDue(m)
      PROVE  Steady \/ Turn
  <2>1. mail[m] \in MailRow /\ mail[m].era \in Nat
    BY DEF TypeOK, MailRow
  <2>2. CASE Compose(m)
    <3> DEFINE new == [mail[m] EXCEPT !.state = "queued"]
    <3>1. /\ new.state = "queued" /\ new.era = mail[m].era /\ new.enh = mail[m].enh
          /\ Recorded(m, mail[m], new)
      BY <2>1, RecordedSame DEF MailRow
    <3>2. mail[m].state = "none" /\ mail' = [mail EXCEPT ![m] = new]
      BY <2>2 DEF Compose
    <3> HIDE DEF new
    <3>3. TurnRow(m, mail[m], new)
      BY <3>1, <3>2, ShownStates DEF TurnRow
    <3> QED BY <1>0, <3>2, <3>3, TurnOne
  <2>3. CASE Cancel(m)
    <3> DEFINE new == [mail[m] EXCEPT !.state = "cancelled"]
    <3>1. /\ new.state = "cancelled" /\ new.era = mail[m].era /\ new.enh = mail[m].enh
          /\ Recorded(m, mail[m], new)
      BY <2>1, RecordedSame DEF MailRow
    <3>2. mail[m].state \in Open /\ mail' = [mail EXCEPT ![m] = new]
      BY <2>3 DEF Cancel
    <3>3. StatusShown(mail[m].state) = "open" /\ mail[m].state # "gone"
      BY <2>1, <3>2, MovableOpen DEF MailRow, Open
    <3> HIDE DEF new
    <3>4. TurnRow(m, mail[m], new)
      BY <3>1, <3>3, ShownStates DEF TurnRow
    <3> QED BY <1>0, <3>2, <3>4, TurnOne
  <2>4. CASE Retry(m)
    <3> DEFINE new == [mail[m] EXCEPT !.state = "queued", !.era = mail[m].era + 1,
                                      !.cut = FALSE]
    <3>1. /\ new.state = "queued" /\ new.era = mail[m].era + 1 /\ new.enh = mail[m].enh
          /\ Recorded(m, mail[m], new)
      BY <2>1, RecordedSame DEF MailRow
    <3>2. /\ mail[m].state \in {"acknowledged", "failed", "cancelled"}
          /\ mail' = [mail EXCEPT ![m] = new]
      BY <2>4 DEF Retry
    <3> HIDE DEF new
    <3>3. TurnRow(m, mail[m], new)
      BY <3>1, <3>2, ShownStates DEF TurnRow
    <3> QED BY <1>0, <3>2, <3>3, TurnOne
  <2>5. CASE Delete(m)
    <3> DEFINE new == [NewRow EXCEPT !.state = "gone", !.era = mail[m].era,
                                     !.lapsed = mail[m].lapsed]
    <3>1. new.state = "gone" /\ new.era = mail[m].era /\ Recorded(m, mail[m], new)
      BY DEF NewRow, Recorded
    <3>2. /\ mail[m].state \in Terminal \cup {"acknowledged"}
          /\ mail' = [mail EXCEPT ![m] = new]
      BY <2>5 DEF Delete
    <3> HIDE DEF new
    <3>3. TurnRow(m, mail[m], new)
      BY <3>1, <3>2, ShownStates DEF TurnRow, Terminal
    <3> QED BY <1>0, <3>2, <3>3, TurnOne
  <2>6. CASE Lapse(m) \/ FallDue(m)
    <3>1. /\ SteadyRow(m, mail[m], [mail[m] EXCEPT !.lapsed = TRUE])
          /\ SteadyRow(m, mail[m], [mail[m] EXCEPT !.due = TRUE])
      BY <2>1 DEF SteadyRow, Recorded, MailRow
    <3> QED BY <2>6, <3>1, SteadyOne DEF Lapse, FallDue
  <2> QED BY <1>1, <2>2, <2>3, <2>4, <2>5, <2>6
<1>2. ASSUME NEW c \in UiTasks, NEW m \in Msgs, RetryNow(c, m) PROVE Turn
  <2> DEFINE new == [mail[m] EXCEPT !.state = "queued", !.due = TRUE, !.era = mail[m].era + 1,
                                    !.cut = FALSE]
  <2>1. mail[m] \in MailRow /\ mail[m].era \in Nat
    BY DEF TypeOK, MailRow
  <2>2. /\ new.state = "queued" /\ new.era = mail[m].era + 1 /\ new.enh = mail[m].enh
        /\ Recorded(m, mail[m], new)
    BY <2>1, RecordedSame DEF MailRow
  <2>3. /\ mail[m].state \in {"acknowledged", "queued", "waiting_route"}
        /\ mail' = [mail EXCEPT ![m] = new]
    BY <1>2 DEF RetryNow
  <2> HIDE DEF new
  <2>4. TurnRow(m, mail[m], new)
    BY <2>2, <2>3, ShownStates DEF TurnRow
  <2> QED BY <1>0, <2>3, <2>4, TurnOne
<1>3. ASSUME NEW c \in UiTasks, NEW m \in Msgs, SendNow(c, m) PROVE Steady
  BY <1>3, StartGrows, SteadyStart DEF SendNow, Via, Tasks
<1>4. ASSUME NEW c \in UiTasks, PrepareNow(c) PROVE Steady
  <2>1. c \in Tasks /\ task[c].load.msg \in Msgs
    BY <1>4, AwaitType DEF PrepareNow, Tasks
  <2> QED BY <1>4, <2>1, SteadyPrepare DEF PrepareNow
<1> QED BY <1>0, <1>1, <1>2, <1>3, <1>4 DEF Operator, Clock

\* The end of a train completes a broadcast; the rest of the radio touches no
\* message.
LEMMA RadioMail ==
  ASSUME TypeOK, Evidence, Radio
  PROVE  mail' = mail \/ Turn
<1>1. CASE CompleteRfTrain /\ mail' # mail
  <2> DEFINE m == tx[active].msg
             new == [mail[m] EXCEPT !.state = "delivered"]
  <2>1. /\ active # Nil /\ tx[active].op = "group_broadcast" /\ peer' = peer
        /\ mail[m].state = "in_progress" /\ mail' = [mail EXCEPT ![m] = new]
    BY <1>1 DEF CompleteRfTrain
  <2>2. active \in TxIds
    BY <2>1 DEF TypeOK
  <2>3. m \in Broadcast /\ m \in Msgs
    BY <2>1, <2>2 DEF Evidence, RowsAddressed, Addressed, Blank
  <2>4. mail[m] \in MailRow
    BY <2>3 DEF TypeOK
  <2>5. /\ new.state = "delivered" /\ new.era = mail[m].era /\ new.enh = mail[m].enh
        /\ Recorded(m, mail[m], new)
    BY <2>4, RecordedSame DEF MailRow
  <2> HIDE DEF new, m
  <2>6. TurnRow(m, mail[m], new)
    BY <2>1, <2>3, <2>5, ShownStates DEF TurnRow, IsThere
  <2> QED BY <2>1, <2>3, <2>6, TurnOne
<1>2. CASE ~CompleteRfTrain
  BY <1>2 DEF Radio, ForeignText, PttOn, DropText, PttOff, LinkLost, LinkUp, Crash
<1> QED BY <1>1, <1>2

\* An ACK that is taken for a transaction comes from its custodian, which
\* took the message, or from its destination.
LEMMA AckMatches ==
  ASSUME TypeOK, Evidence, NEW s \in Stations, NEW oldest, NEW t \in TxIds,
         acks[s] # "none", MatchesAck(s, oldest, t)
  PROVE  /\ tx[t].msg \in Msgs
         /\ tx[t].op = "store" =>
              /\ tx[t].peer \in Custodians
              /\ tx[t].msg \in Sole => Took(peer[tx[t].msg], tx[t].peer)
         /\ tx[t].op # "store" => \/ IsThere(tx[t].msg) \/ mail[tx[t].msg].enh
                                  \/ mail[tx[t].msg].state = "gone"
<1>1. tx[t].peer = s /\ s # Nil
  BY OutboxAssumption DEF MatchesAck, PendingForAck
<1>2. Addressed(tx[t])
  BY <1>1 DEF Evidence, RowsAddressed, Blank
<1>3. CASE tx[t].op = "store"
  BY <1>1, <1>2, <1>3, OutboxAssumption DEF Addressed, Evidence, AcksMean
<1>4. CASE tx[t].op # "store"
  BY <1>1, <1>2, <1>4 DEF Addressed, Evidence, AcksMean, IsThere
<1> QED BY <1>2, <1>3, <1>4 DEF Addressed

\* Receipts turn a message to stored or delivered where the station has it.
LEMMA RepliesMail ==
  ASSUME TypeOK, Evidence, Replies
  PROVE  mail' = mail \/ ((Steady \/ Turn) /\ peer' = peer)
<1>1. ASSUME NEW s \in Stations, NEW oldest, NEW again, ReceiveAck(s, oldest, again)
      PROVE  mail' = mail \/ ((Steady \/ Turn) /\ peer' = peer)
  <2>0. CASE mail' = mail
    BY <2>0
  <2>1. CASE mail' # mail
    <3>1. PICK t \in TxIds : /\ MatchesAck(s, oldest, t)
                             /\ \E counted : mail' = [mail EXCEPT ![tx[t].msg] =
                                                       AckedRow(mail[tx[t].msg], t, counted)]
      BY <1>1, <2>1 DEF ReceiveAck
    <3>2. PICK counted : mail' = [mail EXCEPT ![tx[t].msg] = AckedRow(mail[tx[t].msg], t, counted)]
      BY <3>1
    <3>3. acks[s] # "none" /\ peer' = peer
      BY <1>1 DEF ReceiveAck
    <3> DEFINE m == tx[t].msg
               kept == [mail[m] EXCEPT !.custody[tx[t].peer] = "accepted"]
               told == [mail[m] EXCEPT !.acks = IF counted /\ @ < AckLimit THEN @ + 1 ELSE @]
    <3>4. m \in Msgs /\ mail[m] \in MailRow
      BY <3>1, <3>3, AckMatches DEF TypeOK
    <3>5. CASE tx[t].op = "store"
      <4>1. tx[t].peer \in Custodians /\ (m \in Sole => Took(peer[m], tx[t].peer))
        BY <3>1, <3>3, <3>5, AckMatches
      <4>5. IsKept(m)
        BY <4>1 DEF IsKept
      <4>2. kept \in MailRow /\ SteadyRow(m, mail[m], kept)
        <5>1. [mail[m].custody EXCEPT ![tx[t].peer] = "accepted"] \in [Custodians -> CustodyStatus]
          BY <3>4 DEF MailRow, CustodyStatus
        <5>2. \A k \in Custodians : k # tx[t].peer => kept.custody[k] = mail[m].custody[k]
          BY <3>4 DEF MailRow
        <5> QED BY <3>4, <4>1, <5>1, <5>2 DEF SteadyRow, Recorded, MailRow
      <4>3. AckedRow(mail[m], t, counted) \in {kept, Moved(kept, "stored")}
        BY <3>5 DEF AckedRow
      <4> HIDE DEF kept, m
      <4>4. mail' = [mail EXCEPT ![m] = kept] \/ mail' = [mail EXCEPT ![m] = Moved(kept, "stored")]
        BY <3>2, <4>3 DEF m
      <4> QED BY <3>3, <3>4, <4>2, <4>4, <4>5, SteadyOne, MovedTurns
    <3>6. CASE tx[t].op # "store"
      <4>1. IsThere(m) \/ mail[m].enh \/ mail[m].state = "gone"
        BY <3>1, <3>3, <3>6, AckMatches
      <4>2. told \in MailRow /\ SteadyRow(m, mail[m], told) /\ told.state = mail[m].state
        <5> DEFINE n == IF counted /\ mail[m].acks < AckLimit THEN mail[m].acks + 1 ELSE mail[m].acks
        <5>1. n \in 0..AckLimit
          BY <3>4, OutboxAssumption DEF MailRow
        <5>2. told = [mail[m] EXCEPT !.acks = n]
          OBVIOUS
        <5> HIDE DEF n, told
        <5> QED BY <3>4, <5>1, <5>2 DEF SteadyRow, Recorded, MailRow
      <4>3. /\ AckedRow(mail[m], t, counted) \in {told, Moved(told, "delivered")}
            /\ mail[m].enh => AckedRow(mail[m], t, counted) = told
        BY <3>6 DEF AckedRow
      <4>4. mail[m].state = "gone" => ~CanTransition(told.state, "delivered")
        BY <4>2 DEF CanTransition, States
      <4> HIDE DEF told, m
      <4>5. \/ mail' = [mail EXCEPT ![m] = told]
            \/ ~mail[m].enh /\ mail' = [mail EXCEPT ![m] = Moved(told, "delivered")]
        BY <3>2, <4>3 DEF m
      <4> QED BY <3>3, <3>4, <4>1, <4>2, <4>4, <4>5, SteadyOne, MovedTurns
    <3> QED BY <3>5, <3>6
  <2> QED BY <2>0, <2>1
<1>2. ASSUME NEW m \in Msgs, NEW received, ReceivePartReceipt(m, received)
      PROVE  Steady /\ peer' = peer
  <2> DEFINE merged == [mail[m] EXCEPT !.confirmed = @ \cup received]
             back == [merged EXCEPT !.state = "waiting_route"]
  <2>1. mail[m] \in MailRow
    BY DEF TypeOK
  <2>6. received \subseteq peer[m].got
    BY <1>2 DEF ReceivePartReceipt, Evidence, EchoMeans
  <2>2. SteadyRow(m, mail[m], merged)
    BY <2>1, <2>6 DEF SteadyRow, Recorded, MailRow
  <2>3. mail[m].state \in {"in_progress", "waiting_route"} => SteadyRow(m, mail[m], Woken(back))
    BY <2>1, <2>6, ShownStates DEF SteadyRow, Recorded, MailRow, Woken
  <2>4. \/ mail' = [mail EXCEPT ![m] = merged]
        \/ /\ mail[m].state \in {"in_progress", "waiting_route"}
           /\ mail' = [mail EXCEPT ![m] = Woken(back)]
    BY <1>2 DEF ReceivePartReceipt
  <2>5. peer' = peer
    BY <1>2 DEF ReceivePartReceipt
  <2> HIDE DEF merged, back
  <2> QED BY <2>2, <2>3, <2>4, <2>5, SteadyOne
<1>3. ASSUME NEW m \in Msgs, NEW through, ReceiveDelivered(m, through)
      PROVE  (Steady \/ Turn) /\ peer' = peer
  <2> DEFINE told == [mail[m] EXCEPT !.receipted = TRUE,
                        !.custody = [k \in Custodians |->
                           IF k \in through THEN "forwarded" ELSE @[k]]]
  <2>1. mail[m] \in MailRow
    BY DEF TypeOK
  <2>3. peer[m].got = Parts /\ peer' = peer
    <3>1. peer[m].got \subseteq Parts
      BY DEF TypeOK
    <3> QED BY <1>3, <3>1 DEF ReceiveDelivered, Evidence, EchoMeans
  <2>2. told \in MailRow /\ SteadyRow(m, mail[m], told)
    <3>1. [k \in Custodians |-> IF k \in through THEN "forwarded" ELSE mail[m].custody[k]]
            \in [Custodians -> CustodyStatus]
      BY <2>1 DEF MailRow, CustodyStatus
    <3>2. \A k \in through : mail[m].custody[k] \in {"accepted", "forwarded"}
      BY <1>3 DEF ReceiveDelivered
    <3> QED BY <2>1, <2>3, <3>1, <3>2 DEF SteadyRow, Recorded, MailRow
  <2>4. mail' = [mail EXCEPT ![m] = told] \/ mail' = [mail EXCEPT ![m] = Moved(told, "delivered")]
    BY <1>3 DEF ReceiveDelivered
  <2>5. IsThere(m)
    BY <2>3 DEF IsThere
  <2> HIDE DEF told
  <2> QED BY <2>2, <2>3, <2>4, <2>5, SteadyOne, MovedTurns
<1>4. ASSUME NEW m \in Msgs, NEW k, CustodianForwards(m, k) PROVE mail' = mail
  BY <1>4 DEF CustodianForwards
<1> QED BY <1>1, <1>2, <1>3, <1>4 DEF Replies

\* Every step, by what it does to the messages.
LEMMA MailMoves ==
  ASSUME TypeOK, Evidence, [Next]_vars
  PROVE  mail' = mail \/ (Steady /\ peer' = peer) \/ Turn \/ GivesUp
<1>1. CASE UNCHANGED vars
  BY <1>1 DEF vars
<1> QED BY <1>1, LoopMail, TaskMail, OperatorMail, RadioMail, RepliesMail DEF Next

-----------------------------------------------------------------------------
(* The evidence: rows, coroutines, the train, ACKs and receipts.            *)

\* Parts on record stay on record until the message is removed.
LEMMA RecordKeeps ==
  ASSUME TypeOK, Evidence, [Next]_vars, NEW m \in Msgs,
         mail[m].enh \/ mail[m].state = "gone"
  PROVE  mail'[m].enh \/ mail'[m].state = "gone"
<1>1. CASE mail' = mail
  BY <1>1
<1>2. CASE Steady \/ Turn \/ GivesUp
  BY <1>2 DEF Steady, Turn, GivesUp, SteadyRow, TurnRow
<1> QED BY <1>1, <1>2, MailMoves

\* A new row is addressed, the others stay so.
LEMMA RowsStep ==
  ASSUME TypeOK, Evidence, [Next]_vars
  PROVE  RowsAddressed'
<1>0. RowsAddressed
  BY DEF Evidence
<1>1. ASSUME NEW t \in TxIds, tx'[t] = NoTx \/ SameRow(tx[t], tx'[t])
      PROVE  Blank(tx'[t]) \/ Addressed(tx'[t])
  BY <1>0, <1>1 DEF RowsAddressed, SameRow, Blank, Addressed, NoTx
<1>2. CASE Ebb
  BY <1>1, <1>2 DEF Ebb, Ebbing, RowsAddressed
<1>3. ASSUME NEW x \in Msgs, Grow(x) PROVE RowsAddressed'
  <2>1. PICK c \in Tasks, row \in MailRow, via \in Via, op \in Ops, part \in 0..NParts,
             responder \in Names :
          /\ Start(c, x, row, via, op, part, responder)
          /\ Addressed([msg |-> x, op |-> op, part |-> part, peer |-> responder])
    BY <1>3 DEF Grow
  <2>2. PICK u \in TxIds :
          tx' = TxWith(u, [msg |-> x, op |-> op, part |-> part, peer |-> responder,
                           status |-> "queued", submitted |-> FALSE,
                           finished |-> FALSE, era |-> row.era, aired |-> FALSE])
    BY <2>1 DEF Start
  <2>3. ASSUME NEW t \in TxIds PROVE Blank(tx'[t]) \/ Addressed(tx'[t])
    <3>1. CASE t = u
      BY <2>1, <2>2, <3>1 DEF TxWith, TypeOK, Addressed
    <3>2. CASE t # u
      <4>1. tx'[t] = tx[t]
        BY <2>2, <3>2 DEF TxWith, TypeOK
      <4> QED BY <1>1, <4>1 DEF SameRow
    <3> QED BY <3>1, <3>2
  <2> QED BY <2>3 DEF RowsAddressed
<1>4. CASE PttOn \/ CompleteRfTrain
  <2>1. ASSUME NEW t \in TxIds PROVE SameRow(tx[t], tx'[t])
    <3>1. tx'[t] \in {tx[t], Activated(tx[t]), Finished(tx[t]), BroadcastDone(tx[t])}
      BY <1>4, TrainRows
    <3>2. tx[t] \in TxRow
      BY DEF TypeOK
    <3>3. ASSUME NEW row \in TxRow
          PROVE  /\ SameRow(row, row) /\ SameRow(row, Activated(row))
                 /\ SameRow(row, Finished(row)) /\ SameRow(row, BroadcastDone(row))
      BY DEF SameRow, Activated, Finished, BroadcastDone, TxRow
    <3> QED BY <3>1, <3>2, <3>3
  <2> QED BY <1>1, <2>1 DEF RowsAddressed
<1> QED BY <1>2, <1>3, <1>4, Moves

\* Where a coroutine may be after a step: where it was; not in transmit; at
\* the beginning of it, with an address; or in send_rf, its part on record,
\* or with the next part of an offer.
Paces(c) ==
  \/ task'[c] = task[c]
  \/ task'[c].pc \notin {"begun", "send"}
  \/ task'[c].pc = "begun" /\ Addressed(task'[c].load)
  \/ /\ task[c].pc = "begun" /\ task'[c].pc = "send" /\ task'[c].load = task[c].load
     /\ task[c].load.part # 0 /\ task[c].load.op # "store" => mail'[task[c].load.msg].enh
  \/ /\ task[c].pc = "send" /\ task'[c].pc = "send" /\ task'[c].load.op = "store"
     /\ Addressed(task[c].load) => Addressed(task'[c].load)

\* One coroutine moves.
LEMMA PacesOne ==
  ASSUME TypeOK, NEW c \in Tasks, NEW a, task' = [task EXCEPT ![c] = a],
         a.pc \notin {"begun", "send"} \/ (a.pc = "begun" /\ Addressed(a.load))
  PROVE  \A d \in Tasks : Paces(d)
<1>1. task'[c] = a /\ \A d \in Tasks : d # c => task'[d] = task[d]
  BY DEF TypeOK
<1> QED BY <1>1 DEF Paces

\* Becoming idle, and asking.
LEMMA PacesAway ==
  /\ Idle.pc \notin {"begun", "send"}
  /\ \A v, l : \A pc \in {"probe", "hop", "query", "prepare"} :
       [pc |-> pc, via |-> v, load |-> l].pc \notin {"begun", "send"}
BY DEF Idle

\* A transmission begins with an address.
LEMMA PacesGrow ==
  ASSUME TypeOK, NEW m \in Msgs, Grow(m)
  PROVE  \A d \in Tasks : Paces(d)
<1>1. PICK c \in Tasks, row \in MailRow, via \in Via, op \in Ops, part \in 0..NParts,
           responder \in Names :
        /\ Start(c, m, row, via, op, part, responder)
        /\ Addressed([msg |-> m, op |-> op, part |-> part, peer |-> responder])
  BY DEF Grow
<1>2. PICK t \in TxIds :
        task' = [task EXCEPT ![c] =
                   [pc |-> "begun", via |-> via,
                    load |-> [id |-> t, msg |-> m, op |-> op, part |-> part,
                              peer |-> responder]]]
  BY <1>1 DEF Start
<1> DEFINE load == [id |-> t, msg |-> m, op |-> op, part |-> part, peer |-> responder]
           a == [pc |-> "begun", via |-> via, load |-> load]
<1>3. Addressed(load)
  BY <1>1 DEF Addressed
<1>4. a.pc = "begun" /\ a.load = load /\ task' = [task EXCEPT ![c] = a]
  BY <1>2
<1> HIDE DEF a, load
<1> QED BY <1>3, <1>4, PacesOne

\* transmit, prepare and discovery.
LEMMA PacesTransmit ==
  ASSUME TypeOK, NEW c \in Tasks, NEW m \in Msgs, NEW via \in Via, NEW rest,
         Transmit(c, m, via, rest)
  PROVE  \A d \in Tasks : Paces(d)
<1>1. CASE StartTransmit(c, m, via, rest)
  BY <1>1, StartGrows, PacesGrow
<1>2. CASE RefuseTransmit(c, m, via, rest)
  BY <1>2, PacesOne, PacesAway DEF RefuseTransmit
<1> QED BY <1>1, <1>2 DEF Transmit

LEMMA PacesAsk ==
  ASSUME TypeOK, NEW c \in Tasks, NEW m, NEW pc \in {"probe", "hop", "query"}, Ask(c, pc, m)
  PROVE  \A d \in Tasks : Paces(d)
BY PacesOne, PacesAway DEF Ask

LEMMA PacesPrepare ==
  ASSUME TypeOK, NEW c \in Tasks, NEW m \in Msgs, NEW rest, Prepare(c, m, rest)
  PROVE  \A d \in Tasks : Paces(d)
BY PacesTransmit, PacesAsk DEF Prepare, Via

LEMMA PacesDiscover ==
  ASSUME TypeOK, NEW e \in todo, Discover(e)
  PROVE  \A d \in Tasks : Paces(d)
<1> DEFINE m == e.msg
           rest == todo \ {e}
<1>1. m \in Msgs /\ Daemon \in Tasks
  BY TodoType DEF Tasks
<1>2. CASE task' = task
  BY <1>2 DEF Paces
<1>3. ASSUME TakeRoute(m, rest) PROVE \A d \in Tasks : Paces(d)
  BY <1>1, <1>2, <1>3, PacesTransmit, PacesAsk DEF TakeRoute, NoSend, Via
<1>4. ASSUME NEW row, Goes(m, row), OfferCustody(m, row, rest)
      PROVE  \A d \in Tasks : Paces(d)
  <2>1. PICK k \in Keepers[m] : TransmitStore(m, row, k, rest)
    BY <1>4 DEF OfferCustody, Candidates
  <2>2. CASE row.state \in Ready
    BY <1>1, <1>4, <2>1, <2>2, OfferGrows, PacesGrow
  <2>3. CASE row.state \notin Ready
    BY <1>2, <2>1, <2>3 DEF TransmitStore
  <2> QED BY <2>2, <2>3
<1>5. ASSUME NEW row, Query(m, row, rest) PROVE \A d \in Tasks : Paces(d)
  BY <1>1, <1>5, PacesAsk DEF Query
<1>6. ASSUME NEW expired \in BOOLEAN, expired => CanDefer(mail[m].state)
      PROVE  Goes(m, AfterDeadline(m, expired))
  BY <1>1, <1>6, AfterDeadlineGoes
<1>7. \/ task' = task
      \/ TakeRoute(m, rest)
      \/ \E expired \in BOOLEAN :
           LET row == AfterDeadline(m, expired)
           IN  /\ expired => CanDefer(mail[m].state)
               /\ OfferCustody(m, row, rest) \/ Query(m, row, rest)
  BY DEF Discover, LeaveWaiting, WakeForDirect, NoSend
<1> HIDE DEF m, rest
<1> QED BY <1>2, <1>3, <1>4, <1>5, <1>6, <1>7

\* Every step of every coroutine.
LEMMA EveryPaces ==
  ASSUME TypeOK, [Next]_vars
  PROVE  \A d \in Tasks : Paces(d)
<1>0. CASE task' = task
  BY <1>0 DEF Paces
<1>1. CASE LoopStep
  <2>1. ASSUME NEW e \in todo, BroadcastToGroup(e) \/ PrepareQueued(e) \/ Discover(e)
        PROVE  \A d \in Tasks : Paces(d)
    <3>1. e.msg \in Msgs /\ Daemon \in Tasks
      BY TodoType DEF Tasks
    <3> QED BY <2>1, <3>1, PacesTransmit, PacesPrepare, PacesDiscover
            DEF BroadcastToGroup, PrepareQueued, Via
  <2> QED BY <1>0, <1>1, <2>1
          DEF LoopStep, Sweep, SkipRemoved, ExpireMessage, HoldMessage, HoldCutShort,
              AwaitResponse, ReturnToDiscovery
<1>2. ASSUME NEW c \in Tasks, TaskStep(c) PROVE \A d \in Tasks : Paces(d)
  <2>1. CASE task' = [task EXCEPT ![c] = Idle]
    BY <2>1, PacesOne, PacesAway
  <2>4. CASE HandoffPart(c) /\ task'[c].pc = "send"
    <3> DEFINE next == [task[c].load EXCEPT !.part = @ + 1]
    <3>1. /\ task[c].pc = "send" /\ MoreParts(task[c].load)
          /\ LookAndSend(c, next)
      BY <2>4 DEF HandoffPart
    <3>2. /\ next.msg = task[c].load.msg /\ next.op = "store"
          /\ next.peer = task[c].load.peer /\ task[c].load.op = "store"
          /\ task[c].load.part # 0
      BY <3>1, NextLoad DEF MoreParts
    <3>3. Addressed(task[c].load) => Addressed(next)
      BY <3>2 DEF Addressed
    <3>4. \/ task' = [task EXCEPT ![c] = Idle]
          \/ task' = [task EXCEPT ![c] = [task[c] EXCEPT !.pc = "send", !.load = next]]
      BY <3>1 DEF LookAndSend
    <3>5. CASE task' = [task EXCEPT ![c] = [task[c] EXCEPT !.pc = "send", !.load = next]]
      <4>1. [task[c] EXCEPT !.pc = "send", !.load = next].load = next
        <5>1. task[c] \in Await
          BY DEF TypeOK
        <5> HIDE DEF next
        <5> QED BY <5>1 DEF Await, Idle
      <4>2. task'[c].load = next /\ \A d \in Tasks : d # c => task'[d] = task[d]
        BY <3>5, <4>1 DEF TypeOK
      <4> HIDE DEF next
      <4> QED BY <2>4, <3>1, <3>2, <3>3, <4>2 DEF Paces
    <3> QED BY <2>1, <3>4, <3>5
  <2>2. CASE EnterSendRf(c) /\ task' # [task EXCEPT ![c] = Idle]
    <3>0. task[c] \in Await /\ task[c].pc = "begun"
      BY <2>2 DEF EnterSendRf, TypeOK
    <3>1. task[c] \in [pc : {"begun", "send"}, via : Via, load : Frame]
      <4>1. task[c] # Idle
        BY <3>0 DEF Idle
      <4>2. task[c] \notin [pc : {"prepare", "probe", "hop", "query"}, via : {"none"},
                            load : {About(m) : m \in Msgs}]
        BY <3>0
      <4> QED BY <3>0, <4>1, <4>2 DEF Await
    <3>4. task' = [task EXCEPT ![c] = [task[c] EXCEPT !.pc = "send", !.load = task[c].load]]
      BY <2>2 DEF EnterSendRf, LookAndSend
    <3>2. /\ task'[c].pc = "send" /\ task'[c].load = task[c].load
          /\ \A d \in Tasks : d # c => task'[d] = task[d]
      BY <3>1, <3>4 DEF TypeOK
    <3>3. task[c].load.part # 0 /\ task[c].load.op # "store" => mail'[task[c].load.msg].enh
      <4> DEFINE m == task[c].load.msg
                 b == mail[m].enh \/ (task[c].load.part # 0 /\ task[c].load.op # "store")
      <4>1. m \in Msgs
        BY <3>1 DEF Frame
      <4>2. mail[m] \in MailRow
        BY <4>1 DEF TypeOK
      <4>3. Idle.pc # "send"
        BY DEF Idle
      <4>4. mail[m].state # "gone"
        BY <2>2 DEF EnterSendRf, LookAndSend
      <4>5. mail' = [mail EXCEPT ![m].enh = b]
        BY <2>2, <4>4 DEF EnterSendRf
      <4>6. mail'[m].enh = b
        <5> HIDE DEF b
        <5> QED BY <4>1, <4>2, <4>5 DEF TypeOK, MailRow
      <4> QED BY <4>6
    <3> QED BY <3>0, <3>2, <3>3 DEF Paces
  <2>5. HandoffPart(c) => task' = [task EXCEPT ![c] = Idle] \/ task'[c].pc = "send"
    <3> SUFFICES ASSUME HandoffPart(c), task' # [task EXCEPT ![c] = Idle]
                 PROVE  task'[c].pc = "send"
      OBVIOUS
    <3>1. task' = [task EXCEPT ![c] = [task[c] EXCEPT !.pc = "send",
                                         !.load = [task[c].load EXCEPT !.part = @ + 1]]]
      BY DEF HandoffPart, LookAndSend
    <3>2. task[c].pc = "send" /\ task[c] \in Await
      BY DEF HandoffPart, TypeOK
    <3>3. \A l : [task[c] EXCEPT !.pc = "send", !.load = l].pc = "send"
      BY <3>2 DEF Await, Idle
    <3> QED BY <3>1, <3>3 DEF TypeOK
  <2>6. CASE Handoff(c) \/ \E b \in BOOLEAN : FailSend(c, b) \/ AskDone(c, b)
    BY <2>1, <2>6 DEF Handoff, FailSend, AskDone
  <2> QED BY <1>2, <2>1, <2>2, <2>4, <2>5, <2>6 DEF TaskStep
<1>3. CASE Operator \/ Clock
  <2>1. ASSUME NEW c \in UiTasks, NEW m \in Msgs, RetryNow(c, m) \/ SendNow(c, m)
        PROVE  \A d \in Tasks : Paces(d)
    <3>1. c \in Tasks
      BY DEF Tasks
    <3>2. CASE RetryNow(c, m)
      BY <3>1, <3>2, PacesOne, PacesAway DEF RetryNow
    <3>3. CASE SendNow(c, m)
      BY <3>1, <3>3, StartGrows, PacesGrow DEF SendNow, Via
    <3> QED BY <2>1, <3>2, <3>3
  <2>2. ASSUME NEW c \in UiTasks, PrepareNow(c) PROVE \A d \in Tasks : Paces(d)
    <3>1. c \in Tasks /\ task[c].load.msg \in Msgs
      BY <2>2, AwaitType DEF PrepareNow, Tasks
    <3> QED BY <2>2, <3>1, PacesPrepare DEF PrepareNow
  <2> QED BY <1>0, <1>3, <2>1, <2>2
          DEF Operator, Clock, Compose, Cancel, Retry, Delete, Lapse, FallDue
<1>4. CASE Radio
  <2>1. ASSUME NEW heard, Crash(heard) PROVE \A d \in Tasks : Paces(d)
    BY <2>1, PacesAway DEF Crash, Paces
  <2> QED BY <1>0, <1>4, <2>1
          DEF Radio, ForeignText, PttOn, PttOff, CompleteRfTrain, DropText, LinkLost, LinkUp
<1>5. CASE Replies
  BY <1>0, <1>5 DEF Replies, CustodianForwards, ReceiveAck, ReceivePartReceipt,
                    ReceiveDelivered
<1>6. CASE UNCHANGED vars
  BY <1>0, <1>6 DEF vars
<1> QED BY <1>1, <1>2, <1>3, <1>4, <1>5, <1>6 DEF Next

-----------------------------------------------------------------------------
(* The train, the ACKs and the stations.                                    *)

\* The loop, the requests and the clock leave the radio and the stations
\* alone.
LEMMA Apart ==
  ASSUME LoopStep \/ Operator \/ Clock
  PROVE  air' = air /\ acks' = acks /\ peer' = peer
BY DEF LoopStep, Sweep, SkipRemoved, BroadcastToGroup, ExpireMessage, PrepareQueued,
       HoldMessage, HoldCutShort, AwaitResponse, ReturnToDiscovery, Discover, Operator,
       Compose, Cancel, Retry, Delete, PrepareNow, RetryNow, SendNow, Clock, Lapse, FallDue

\* What the train holds is what it held, or nothing of ours, or the text of a
\* coroutine in send_rf.
LEMMA AirMoves ==
  ASSUME TypeOK, [Next]_vars
  PROVE  \/ air'.load = air.load
         \/ air'.load = Foreign
         \/ \E c \in Tasks : task[c].pc = "send" /\ air'.load = task[c].load
<1>1. ASSUME NEW c \in Tasks, TaskStep(c)
      PROVE  \/ air'.load = air.load
             \/ air'.load = Foreign
             \/ task[c].pc = "send" /\ air'.load = task[c].load
  <2>1. CASE EnterSendRf(c)
    BY <2>1 DEF EnterSendRf
  <2>2. CASE HandoffPart(c) \/ Handoff(c)
    <3>1. task[c].pc = "send" /\ air' = [phase |-> "queued", load |-> task[c].load]
      BY <2>2 DEF HandoffPart, Handoff
    <3> QED BY <3>1
  <2>3. ASSUME NEW b, FailSend(c, b) PROVE air' = air
    BY <2>3 DEF FailSend
  <2>4. ASSUME NEW b, AskDone(c, b) PROVE air' = air \/ air'.load = Foreign
    <3>1. air' = air \/ air' = [phase |-> "queued", load |-> Foreign]
      BY <2>4 DEF AskDone
    <3> QED BY <3>1
  <2> QED BY <1>1, <2>1, <2>2, <2>3, <2>4 DEF TaskStep
<1>2. CASE Radio
  <2>1. CASE PttOn
    <3>1. air' = [air EXCEPT !.phase = "keyed"]
      BY <2>1 DEF PttOn
    <3> QED BY <3>1 DEF TypeOK
  <2>2. CASE ForeignText \/ CompleteRfTrain \/ DropText
    <3>1. air' = [phase |-> "queued", load |-> Foreign] \/ air' = Quiet
      BY <2>2 DEF ForeignText, CompleteRfTrain, DropText
    <3> QED BY <3>1 DEF Quiet
  <2>3. ASSUME NEW heard, PttOff(heard) \/ LinkLost(heard) \/ Crash(heard)
        PROVE  air'.load = Foreign
    <3>1. air' = [phase |-> "quiet", load |-> Foreign] \/ air' = Quiet
      BY <2>3 DEF PttOff, LinkLost, Crash, Unwatched
    <3> QED BY <3>1 DEF Quiet
  <2> QED BY <1>2, <2>1, <2>2, <2>3 DEF Radio, LinkUp
<1>3. CASE Replies
  BY <1>3 DEF Replies, CustodianForwards, ReceiveAck, ReceivePartReceipt, ReceiveDelivered
<1> QED BY <1>1, <1>2, <1>3, Apart DEF Next, vars

\* What the coroutines and the train hold stays addressed, and noted.
LEMMA LoadsStep ==
  ASSUME TypeOK, Evidence, [Next]_vars
  PROVE  LoadsAddressed'
<1> DEFINE NotedNext(load) ==
             load.part # 0 /\ load.op # "store" =>
               mail'[load.msg].enh \/ mail'[load.msg].state = "gone"
<1>0. LoadsAddressed
  BY DEF Evidence
<1>1. ASSUME NEW load, Addressed(load), Noted(load)
      PROVE  NotedNext(load)
  <2>1. load.msg \in Msgs
    BY <1>1 DEF Addressed
  <2> QED BY <1>1, <2>1, RecordKeeps DEF Noted
<1>2. ASSUME NEW c \in Tasks
      PROVE  /\ task'[c].pc \in {"begun", "send"} => Addressed(task'[c].load)
             /\ task'[c].pc = "send" => NotedNext(task'[c].load)
  <2>1. Paces(c)
    BY EveryPaces
  <2>2. CASE task'[c] = task[c]
    <3> HIDE DEF NotedNext
    <3> QED BY <1>0, <1>1, <2>2 DEF LoadsAddressed
  <2>3. CASE /\ task[c].pc = "begun" /\ task'[c].pc = "send" /\ task'[c].load = task[c].load
             /\ task[c].load.part # 0 /\ task[c].load.op # "store" =>
                  mail'[task[c].load.msg].enh
    BY <1>0, <2>3 DEF LoadsAddressed
  <2>4. CASE /\ task[c].pc = "send" /\ task'[c].pc = "send" /\ task'[c].load.op = "store"
             /\ Addressed(task[c].load) => Addressed(task'[c].load)
    BY <1>0, <2>4 DEF LoadsAddressed
  <2> HIDE DEF NotedNext
  <2> QED BY <2>1, <2>2, <2>3, <2>4 DEF Paces
<1>3. air'.load.op # "none" => Addressed(air'.load) /\ NotedNext(air'.load)
  <2>1. Foreign.op = "none"
    BY DEF Foreign
  <2> HIDE DEF NotedNext
  <2> QED BY <1>0, <1>1, <2>1, AirMoves DEF LoadsAddressed
<1> QED BY <1>2, <1>3 DEF LoadsAddressed, Noted

\* What a step does to the ACKs and to the stations.
LEMMA StationsMove ==
  ASSUME TypeOK, [Next]_vars
  PROVE  \/ acks' = acks /\ peer' = peer
         \/ Receive(air.load) /\ mail' = mail
         \/ \E m \in Msgs, k \in Custodians : CustodianForwards(m, k)
         \/ /\ peer' = peer
            /\ \E s \in Stations : /\ acks[s] # "none"
                                  /\ \E a : acks' = [acks EXCEPT ![s] = a]
<1>1. ASSUME NEW c \in Tasks, TaskStep(c) PROVE acks' = acks /\ peer' = peer
  BY <1>1 DEF TaskStep, EnterSendRf, HandoffPart, Handoff, FailSend, AskDone
<1>2. CASE Radio
  <2>1. CASE ForeignText \/ PttOn \/ CompleteRfTrain \/ DropText \/ LinkUp
    BY <2>1 DEF ForeignText, PttOn, CompleteRfTrain, DropText, LinkUp
  <2>2. ASSUME NEW heard, PttOff(heard) \/ LinkLost(heard) \/ Crash(heard)
        PROVE  (acks' = acks /\ peer' = peer) \/ (Receive(air.load) /\ mail' = mail)
    BY <2>2 DEF PttOff, LinkLost, Crash, Unwatched, OnAir
  <2> QED BY <1>2, <2>1, <2>2 DEF Radio
<1>3. CASE Replies
  <2>1. ASSUME NEW s \in Stations, NEW oldest, NEW again, ReceiveAck(s, oldest, again)
        PROVE  /\ peer' = peer /\ acks[s] # "none"
               /\ \E a : acks' = [acks EXCEPT ![s] = a]
    BY <2>1 DEF ReceiveAck
  <2>2. ASSUME NEW m \in Msgs, NEW x, ReceivePartReceipt(m, x) \/ ReceiveDelivered(m, x)
        PROVE  acks' = acks /\ peer' = peer
    BY <2>2 DEF ReceivePartReceipt, ReceiveDelivered
  <2> QED BY <1>3, <2>1, <2>2 DEF Replies
<1> QED BY <1>1, <1>2, <1>3, Apart DEF Next, vars

\* What a station may gain: parts, and receipts that say what it has.
Gains(old, new) ==
  /\ old.got \subseteq new.got /\ new.got \subseteq Parts
  /\ \A k \in Custodians : /\ old.kept[k] \subseteq new.kept[k]
                           /\ new.kept[k] \subseteq Parts
  /\ \A r \in new.echo : r \in old.echo \/ r \subseteq new.got

\* A station that is left alone, and one that has every part.
LEMMA GainsSame ==
  ASSUME TypeOK, NEW m \in Msgs
  PROVE  /\ Gains(peer[m], peer[m])
         /\ \A new : Gains(peer[m], new) /\ peer[m].got = Parts => new.got = Parts
<1>1. peer[m] \in [got : SUBSET Parts, kept : [Custodians -> SUBSET Parts],
                   echo : SUBSET SUBSET Parts]
  BY DEF TypeOK
<1>2. peer[m].got \subseteq Parts /\ \A k \in Custodians : peer[m].kept[k] \subseteq Parts
  BY <1>1
<1> QED BY <1>2 DEF Gains

\* A custodian that took an offer has taken it for good.
LEMMA TookStays ==
  ASSUME NEW m \in Msgs, NEW k \in Custodians, Gains(peer[m], peer'[m]), Took(peer[m], k)
  PROVE  Took(peer'[m], k)
<1> DEFINE a == peer[m].kept[k]
           b == peer'[m].kept[k]
<1>1. a \subseteq b /\ b \subseteq Parts
  BY DEF Gains
<1>2. (k \in Splitting => a # {}) /\ (k \notin Splitting => a = Parts)
  BY DEF Took
<1> HIDE DEF a, b
<1>3. (k \in Splitting => b # {}) /\ (k \notin Splitting => b = Parts)
  BY <1>1, <1>2
<1> QED BY <1>3 DEF Took, b

\* A text that is decoded is the whole message, or a part on record, or an offer,
\* and what its station then answers for.
LEMMA ReceiveMeans ==
  ASSUME TypeOK, Evidence, Receive(air.load)
  PROVE  /\ \A m \in Msgs : Gains(peer[m], peer'[m])
         /\ \A m \in Sole \ Broadcast : acks'[Dest[m]] # "none" =>
              \/ acks[Dest[m]] # "none"
              \/ peer'[m].got = Parts \/ mail[m].enh \/ mail[m].state = "gone"
         /\ \A m \in Sole : \A k \in Keepers[m] : acks'[k] # "none" =>
              acks[k] # "none" \/ Took(peer'[m], k)
<1> DEFINE load == air.load
           x == load.msg
           had == IF load.part = 0 THEN Parts ELSE {load.part}
<1>0. /\ DOMAIN acks = Stations /\ DOMAIN peer = Msgs
      /\ \A m \in Msgs : peer[m] \in [got : SUBSET Parts,
                                      kept : [Custodians -> SUBSET Parts],
                                      echo : SUBSET SUBSET Parts]
      /\ load \in Loads
  BY DEF TypeOK
<1>1. CASE load.op \notin {"direct", "multipart", "relay", "store"}
  <2>1. peer' = peer /\ acks' = acks
    BY <1>1 DEF Receive
  <2>2. Sole \subseteq Msgs
    BY DEF Sole
  <2> QED BY <2>1, <2>2, GainsSame
<1>2. ASSUME load.op # "none" PROVE had \subseteq Parts
  <2>1. load # Foreign /\ \A m \in Msgs : load # About(m)
    BY <1>2 DEF Foreign, About
  <2>2. load.part \in 0..NParts
    BY <1>0, <2>1 DEF Loads, Frame
  <2> QED BY <2>2, OutboxAssumption DEF Parts
<1>3. CASE load.op \in {"direct", "multipart", "relay"}
  <2>1. /\ x \in Msgs \ Broadcast /\ load.peer = Dest[x]
        /\ load.part # 0 => mail[x].enh \/ mail[x].state = "gone"
    BY <1>3 DEF Evidence, LoadsAddressed, Addressed, Noted
  <2>2. had \subseteq Parts
    BY <1>2, <1>3
  <2> DEFINE e == IF load.part = 0 THEN peer[x].echo ELSE peer[x].echo \cup {peer[x].got \cup had}
             p == [peer[x] EXCEPT !.got = @ \cup had, !.echo = e]
  <2>3. /\ peer' = [peer EXCEPT ![x] = p]
        /\ acks' = [acks EXCEPT ![Dest[x]] = "new"]
    BY <1>3, <2>1 DEF Receive
  <2>4. p.got = peer[x].got \cup had /\ p.kept = peer[x].kept /\ p.echo = e
    BY <1>0, <2>1
  <2>5. Gains(peer[x], p)
    <3>1. /\ peer[x].got \subseteq Parts
          /\ \A k \in Custodians : peer[x].kept[k] \subseteq Parts
      BY <1>0, <2>1
    <3> HIDE DEF p, had
    <3>2. \A r \in e : r \in peer[x].echo \/ r \subseteq p.got
      BY <2>4
    <3> HIDE DEF e
    <3> QED BY <2>2, <2>4, <3>1, <3>2 DEF Gains
  <2>6. p.got = Parts \/ mail[x].enh \/ mail[x].state = "gone"
    <3>1. CASE load.part = 0
      BY <1>0, <2>1, <2>4, <3>1
    <3> QED BY <2>1, <3>1
  <2> HIDE DEF p, load, had, e, x
  <2>7. \A m \in Msgs : peer'[m] = IF m = x THEN p ELSE peer[m]
    BY <1>0, <2>1, <2>3
  <2>8. \A s \in Stations : s # Dest[x] => acks'[s] = acks[s]
    BY <1>0, <2>3
  <2>9. \A m \in Sole \ Broadcast : Dest[m] \in Stations /\ (Dest[m] = Dest[x] => m = x)
    BY <2>1, SoleStations
  <2>10. \A m \in Sole : m \in Msgs /\ \A k \in Keepers[m] : k \in Stations /\ k # Dest[x]
    BY <2>1, SoleStations, OutboxAssumption
  <2>11. \A m \in Msgs : Gains(peer[m], peer'[m])
    BY <2>5, <2>7, GainsSame
  <2> QED BY <2>6, <2>7, <2>8, <2>9, <2>10, <2>11
<1>4. CASE load.op = "store"
  <2> DEFINE j == load.peer
             p == [peer[x] EXCEPT !.kept[j] = @ \cup had]
  <2>1. /\ x \in Msgs /\ j \in Keepers[x] /\ j \in Custodians
        /\ load.part # 0 => j \in Splitting
    BY <1>4, OutboxAssumption DEF Evidence, LoadsAddressed, Addressed
  <2>2. had \subseteq Parts /\ had # {}
    BY <1>2, <1>4, OutboxAssumption DEF Parts
  <2>3. peer' = [peer EXCEPT ![x] = p] /\ acks' = [acks EXCEPT ![j] = "new"]
    BY <1>4, <2>1 DEF Receive
  <2>4. /\ peer[x].got \subseteq Parts
        /\ DOMAIN peer[x].kept = Custodians
        /\ \A k \in Custodians : peer[x].kept[k] \subseteq Parts
    BY <1>0, <2>1
  <2>5. /\ p.got = peer[x].got /\ p.echo = peer[x].echo
        /\ \A k \in Custodians :
             p.kept[k] = IF k = j THEN peer[x].kept[k] \cup had ELSE peer[x].kept[k]
    BY <1>0, <2>1, <2>4
  <2>6. peer'[x] = p /\ \A m \in Msgs \ {x} : peer'[m] = peer[m]
    BY <1>0, <2>1, <2>3
  <2>7. IF j \in Splitting THEN p.kept[j] # {} ELSE p.kept[j] = Parts
    <3>1. j \notin Splitting => had = Parts
      BY <2>1
    <3> HIDE DEF p, had, j
    <3> QED BY <2>1, <2>2, <2>4, <2>5, <3>1
  <2> HIDE DEF p, load, had, x, j
  <2>8. Gains(peer[x], p)
    BY <2>2, <2>4, <2>5 DEF Gains
  <2>9. \A m \in Msgs : Gains(peer[m], peer'[m])
    BY <2>6, <2>8, GainsSame
  <2>10. \A m \in Sole \ Broadcast : Dest[m] \in Stations /\ Dest[m] # j
    BY <2>1, SoleStations
  <2>11. \A m \in Sole \ Broadcast : acks'[Dest[m]] = acks[Dest[m]]
    BY <1>0, <2>3, <2>10
  <2>12. Took(peer'[x], j)
    BY <2>6, <2>7 DEF Took
  <2>13. \A m \in Sole : \A k \in Keepers[m] : k \in Stations /\ (k = j => m = x)
    BY <2>1, SoleStations, OutboxAssumption
  <2>14. \A m \in Sole : \A k \in Keepers[m] : k # j => acks'[k] = acks[k]
    BY <1>0, <2>3, <2>13
  <2> QED BY <2>9, <2>11, <2>12, <2>13, <2>14
<1> QED BY <1>1, <1>3, <1>4

\* What the stations have, and the ACKs and receipts on their way.
LEMMA StationsGain ==
  ASSUME TypeOK, Evidence, [Next]_vars
  PROVE  AcksMean' /\ EchoMeans' /\ \A m \in Msgs : Gains(peer[m], peer'[m])
<1>1. /\ \A m \in Msgs : Gains(peer[m], peer'[m])
      /\ \A m \in Sole \ Broadcast : acks'[Dest[m]] # "none" =>
           \/ acks[Dest[m]] # "none"
           \/ peer'[m].got = Parts \/ mail[m].enh \/ mail[m].state = "gone"
      /\ \A m \in Sole : \A k \in Keepers[m] : acks'[k] # "none" =>
           acks[k] # "none" \/ Took(peer'[m], k)
  <2>1. CASE acks' = acks /\ peer' = peer
    BY <2>1, GainsSame
  <2>2. CASE Receive(air.load)
    BY <2>2, ReceiveMeans
  <2>3. ASSUME NEW x \in Msgs, NEW k \in Custodians, CustodianForwards(x, k)
        PROVE  acks' = acks /\ \A m \in Msgs : Gains(peer[m], peer'[m])
    <3> DEFINE had == peer[x].kept[k]
               p == [peer[x] EXCEPT !.got = @ \cup had, !.echo = @ \cup {peer[x].got \cup had}]
    <3>1. peer' = [peer EXCEPT ![x] = p] /\ acks' = acks
      BY <2>3 DEF CustodianForwards
    <3>2. /\ peer[x].got \subseteq Parts
          /\ \A c \in Custodians : peer[x].kept[c] \subseteq Parts
          /\ p.got = peer[x].got \cup had /\ p.kept = peer[x].kept
          /\ p.echo = peer[x].echo \cup {peer[x].got \cup had}
      BY DEF TypeOK
    <3>3. had \subseteq Parts
      BY <3>2
    <3> HIDE DEF p, had
    <3>4. \A m \in Msgs : peer'[m] = IF m = x THEN p ELSE peer[m]
      BY <3>1 DEF TypeOK
    <3>5. Gains(peer[x], p)
      BY <3>2, <3>3 DEF Gains
    <3> QED BY <3>1, <3>4, <3>5, GainsSame
  <2>4. ASSUME peer' = peer, NEW s \in Stations, NEW a, acks[s] # "none",
               acks' = [acks EXCEPT ![s] = a]
        PROVE  /\ \A m \in Msgs : Gains(peer[m], peer'[m])
               /\ \A q \in Stations : acks'[q] # "none" => acks[q] # "none"
    BY <2>4, GainsSame DEF TypeOK
  <2>5. /\ \A m \in Sole \ Broadcast : Dest[m] \in Stations
        /\ \A m \in Sole : \A k \in Keepers[m] : k \in Stations
    BY SoleMessage
  <2> QED BY <2>1, <2>2, <2>3, <2>4, <2>5, StationsMove
<1>2. AcksMean /\ EchoMeans
  BY DEF Evidence
<1>3. \A m \in Msgs : mail[m].enh \/ mail[m].state = "gone" =>
                        mail'[m].enh \/ mail'[m].state = "gone"
  BY RecordKeeps
<1>4. AcksMean'
  <2> SUFFICES ASSUME NEW m \in Sole
               PROVE  /\ m \notin Broadcast /\ acks'[Dest[m]] # "none" =>
                           peer'[m].got = Parts \/ mail'[m].enh \/ mail'[m].state = "gone"
                      /\ \A k \in Keepers[m] : acks'[k] # "none" => Took(peer'[m], k)
    BY DEF AcksMean
  <2>1. m \in Msgs /\ Keepers[m] \subseteq Custodians /\ Gains(peer[m], peer'[m])
    BY <1>1, SoleMessage
  <2>2. peer[m].got = Parts => peer'[m].got = Parts
    BY <2>1, GainsSame
  <2>3. \A k \in Keepers[m] : Took(peer[m], k) => Took(peer'[m], k)
    BY <2>1, TookStays
  <2> QED BY <1>1, <1>2, <1>3, <2>1, <2>2, <2>3 DEF AcksMean
<1>5. EchoMeans'
  BY <1>1, <1>2 DEF EchoMeans, Gains
<1> QED BY <1>1, <1>4, <1>5

\* The invariant is inductive.
LEMMA EvidenceStep ==
  ASSUME TypeOK, Evidence, [Next]_vars
  PROVE  Evidence'
BY RowsStep, LoadsStep, StationsGain DEF Evidence

LEMMA EvidenceInit == Init => Evidence
<1> SUFFICES ASSUME Init PROVE Evidence
  OBVIOUS
<1>1. RowsAddressed
  BY DEF Init, RowsAddressed, Blank, NoTx
<1>2. LoadsAddressed
  BY DEF Init, LoadsAddressed, Idle, Quiet, Foreign
<1>3. AcksMean
  <2>1. \A m \in Sole : /\ m \notin Broadcast => Dest[m] \in Stations
                        /\ Keepers[m] \subseteq Stations
    BY SoleMessage
  <2> QED BY <2>1 DEF Init, AcksMean
<1>4. EchoMeans
  BY DEF Init, EchoMeans
<1> QED BY <1>1, <1>2, <1>3, <1>4 DEF Evidence

-----------------------------------------------------------------------------
(* Delivered and stored mean what they say.                                 *)

\* Only a delivered message is shown as complete, only a stored one as stored.
LEMMA ShownBack ==
  ASSUME NEW s \in MailState
  PROVE  /\ StatusShown(s) = "complete" <=> s = "delivered"
         /\ StatusShown(s) = "stored" <=> s = "stored"
BY DEF StatusShown, MailState, States

LEMMA EvidenceSoundStep ==
  ASSUME TypeOK, TypeOK', Evidence, EvidenceSound, [Next]_vars
  PROVE  EvidenceSound'
<1> DEFINE Accepted(row, k) == row.custody[k] \in {"accepted", "forwarded"}
<1> SUFFICES ASSUME NEW m \in Sole \ Broadcast
             PROVE  /\ mail'[m].state = "delivered" => peer'[m].got = Parts
                    /\ mail'[m].state = "stored" => \E k \in Custodians : Took(peer'[m], k)
                    /\ mail'[m].confirmed \subseteq peer'[m].got
                    /\ mail'[m].receipted => peer'[m].got = Parts
                    /\ \A k \in Custodians : Accepted(mail'[m], k) => Took(peer'[m], k)
  BY DEF EvidenceSound
<1>0. m \in Msgs
  BY SoleMessage
<1>1. mail[m].state \in MailState /\ mail'[m].state \in MailState
  BY <1>0 DEF TypeOK, MailRow
<1>2. Gains(peer[m], peer'[m])
  BY <1>0, StationsGain
<1>3. \A k \in Custodians : Took(peer[m], k) => Took(peer'[m], k)
  BY <1>0, <1>2, TookStays
<1>4. /\ peer[m].got = Parts => peer'[m].got = Parts
      /\ peer[m].got \subseteq peer'[m].got
  BY <1>0, <1>2, GainsSame DEF Gains
<1>5. /\ mail[m].state = "delivered" => peer[m].got = Parts
      /\ mail[m].state = "stored" => \E k \in Custodians : Took(peer[m], k)
      /\ mail[m].confirmed \subseteq peer[m].got
      /\ mail[m].receipted => peer[m].got = Parts
      /\ \A k \in Custodians : Accepted(mail[m], k) => Took(peer[m], k)
  BY DEF EvidenceSound
<1>6. CASE mail'[m] = mail[m]
  <2> HIDE DEF Accepted
  <2> QED BY <1>3, <1>4, <1>5, <1>6
<1>7. ASSUME Recorded(m, mail[m], mail'[m])
      PROVE  /\ mail'[m].confirmed \subseteq peer'[m].got
             /\ mail'[m].receipted => peer'[m].got = Parts
             /\ \A k \in Custodians : Accepted(mail'[m], k) => Took(peer'[m], k)
  BY <1>3, <1>4, <1>5, <1>7 DEF Recorded
<1>8. CASE SteadyRow(m, mail[m], mail'[m])
  <2>1. /\ mail'[m].state = "delivered" => mail[m].state = "delivered"
        /\ mail'[m].state = "stored" => mail[m].state = "stored"
    BY <1>1, <1>8, ShownBack DEF SteadyRow
  <2>2. Recorded(m, mail[m], mail'[m])
    BY <1>8 DEF SteadyRow
  <2> HIDE DEF Accepted
  <2> QED BY <1>3, <1>4, <1>5, <1>7, <2>1, <2>2
<1>9. CASE TurnRow(m, mail[m], mail'[m])
  <2>1. StatusShown(mail'[m].state) = "complete" => peer[m].got = Parts
    BY <1>9, ShownStates DEF TurnRow, IsThere
  <2>2. StatusShown(mail'[m].state) = "stored" => \E k \in Custodians : Took(peer[m], k)
    BY <1>9, ShownStates DEF TurnRow, IsKept
  <2>3. Recorded(m, mail[m], mail'[m])
    BY <1>9 DEF TurnRow
  <2> HIDE DEF Accepted
  <2> QED BY <1>1, <1>3, <1>4, <1>7, <2>1, <2>2, <2>3, ShownBack
<1> QED BY <1>0, <1>6, <1>8, <1>9, MailMoves DEF Steady, Turn, GivesUp

\* Of a message that shares no station with another one: reported delivered, it
\* is at its destination with every part, and reported stored, a custodian took
\* the offer, or at least a part of one that was made in parts, whatever is lost,
\* late, decoded twice, deleted or restarted in between: an ACK is taken only for
\* the row that asked this station, the parts are on record before the first of
\* them is on the air, and a receipt names what the station has.
THEOREM EvidenceIsSound == Spec => []EvidenceSound
<1>1. Init => Evidence /\ EvidenceSound
  <2>1. Sole \subseteq Msgs
    BY DEF Sole
  <2>2. Init => EvidenceSound
    BY <2>1 DEF Init, EvidenceSound, NewRow
  <2> QED BY <2>2, EvidenceInit
<1>2. TypeOK /\ TypeOK' /\ Evidence /\ EvidenceSound /\ [Next]_vars
        => Evidence' /\ EvidenceSound'
  BY EvidenceStep, EvidenceSoundStep
<1> QED BY <1>1, <1>2, TypeCorrect, PTL DEF Spec

-----------------------------------------------------------------------------
(* Settled messages, whatever the stations have.                            *)

\* A settled row stays, is removed, is promoted from stored to delivered, or is
\* requeued by the operator.
SettledRow(old, new) ==
  old.state \in Terminal =>
    \/ new.state \in {old.state, "gone"}
    \/ old.state = "stored" /\ new.state = "delivered"
    \/ old.state \in {"failed", "cancelled"} /\ new.state = "queued" /\ new.era = old.era + 1

\* A row that is shown as it was, and one that turns.
LEMMA ShownSettled ==
  ASSUME NEW m, NEW old, NEW new, old.state \in MailState, new.state \in MailState
  PROVE  /\ StatusShown(new.state) = StatusShown(old.state) => SettledRow(old, new)
         /\ TurnRow(m, old, new) => SettledRow(old, new)
<1>1. /\ StatusShown(new.state) = StatusShown(old.state) /\ old.state \in Terminal
           => new.state = old.state
      /\ StatusShown(new.state) = "removed" => new.state = "gone"
      /\ StatusShown(new.state) = "complete" => new.state = "delivered"
  BY DEF StatusShown, MailState, States, Terminal
<1>2. old.state \in Terminal =>
        /\ StatusShown(old.state) \notin {"absent", "open", "held"}
        /\ StatusShown(old.state) \in {"stored", "failed", "cancelled"}
             => old.state = StatusShown(old.state)
  BY ShownStates DEF Terminal
<1> QED BY <1>1, <1>2 DEF TurnRow, SettledRow

\* What the radio brings moves a settled message from stored to delivered only.
LEMMA ReceiptSettled ==
  ASSUME TypeOK, Radio \/ Replies, NEW m \in Msgs
  PROVE  SettledRow(mail[m], mail'[m])
<1> SUFFICES ASSUME mail[m].state \in Terminal
             PROVE  \/ mail'[m].state = mail[m].state
                    \/ mail[m].state = "stored" /\ mail'[m].state = "delivered"
  BY DEF SettledRow
<1>0. mail[m] \in MailRow /\ DOMAIN mail = Msgs
  BY DEF TypeOK
<1>1. CASE Radio
  <2>1. CASE CompleteRfTrain /\ mail' # mail
    <3>1. PICK x : mail[x].state = "in_progress" /\ mail' = [mail EXCEPT ![x].state = "delivered"]
      BY <2>1 DEF CompleteRfTrain
    <3>2. m # x
      BY <3>1 DEF Terminal
    <3> QED BY <1>0, <3>1, <3>2
  <2>2. CASE ~CompleteRfTrain \/ mail' = mail
    BY <1>1, <2>2 DEF Radio, ForeignText, PttOn, DropText, PttOff, LinkLost, LinkUp, Crash
  <2> QED BY <2>1, <2>2
<1>2. ASSUME NEW s, NEW oldest, NEW again, ReceiveAck(s, oldest, again)
      PROVE  mail'[m].state = mail[m].state
  <2>1. CASE mail' = mail
    BY <2>1
  <2>2. ASSUME NEW t \in TxIds, NEW counted,
               mail' = [mail EXCEPT ![tx[t].msg] = AckedRow(mail[tx[t].msg], t, counted)]
        PROVE  mail'[m].state = mail[m].state
    <3>1. AckedRow(mail[m], t, counted).state = mail[m].state
      BY <1>0 DEF AckedRow, MailRow
    <3> QED BY <1>0, <2>2, <3>1
  <2>3. \/ mail' = mail
        \/ \E t \in TxIds, counted \in BOOLEAN :
             mail' = [mail EXCEPT ![tx[t].msg] = AckedRow(mail[tx[t].msg], t, counted)]
    BY <1>2 DEF ReceiveAck
  <2> QED BY <2>1, <2>2, <2>3
<1>3. ASSUME NEW x, NEW received, ReceivePartReceipt(x, received)
      PROVE  mail'[m].state = mail[m].state
  <2> DEFINE merged == [mail[x] EXCEPT !.confirmed = @ \cup received]
  <2>1. \/ mail' = [mail EXCEPT ![x] = merged]
        \/ /\ mail[x].state \in {"in_progress", "waiting_route"}
           /\ \E row : mail' = [mail EXCEPT ![x] = row]
    BY <1>3 DEF ReceivePartReceipt
  <2>2. x = m => merged.state = mail[m].state
    BY <1>0 DEF MailRow
  <2>3. mail[m].state \notin {"in_progress", "waiting_route"}
    BY DEF Terminal
  <2> HIDE DEF merged
  <2> QED BY <1>0, <2>1, <2>2, <2>3
<1>4. ASSUME NEW x, NEW through, ReceiveDelivered(x, through)
      PROVE  \/ mail'[m].state = mail[m].state
             \/ mail[m].state = "stored" /\ mail'[m].state = "delivered"
  <2> DEFINE told == [mail[x] EXCEPT !.receipted = TRUE,
                        !.custody = [k \in Custodians |->
                           IF k \in through THEN "forwarded" ELSE @[k]]]
  <2>1. mail' = [mail EXCEPT ![x] = told] \/ mail' = [mail EXCEPT ![x] = Moved(told, "delivered")]
    BY <1>4 DEF ReceiveDelivered
  <2>2. x = m => /\ told.state = mail[m].state
                 /\ [told EXCEPT !.state = "delivered"].state = "delivered"
    BY <1>0 DEF MailRow
  <2>3. mail[m].state # "stored" => ~CanTransition(mail[m].state, "delivered")
    BY DEF CanTransition
  <2> HIDE DEF told
  <2> QED BY <1>0, <2>1, <2>2, <2>3 DEF Moved
<1>5. ASSUME NEW x, NEW k, CustodianForwards(x, k) PROVE mail' = mail
  BY <1>5 DEF CustodianForwards
<1> QED BY <1>1, <1>2, <1>3, <1>4, <1>5 DEF Replies

\* A settled message is taken up again by the operator alone, with a requeue that
\* is counted, and a stored one may still be found delivered: whatever a sweep,
\* a coroutine after its await, a late ACK or receipt, or a restart writes, and
\* with any number of requests under way.  (No station needs to be told from
\* another here.)
THEOREM SettledStays == Spec => SettledForGood
<1> DEFINE A == \A m \in Msgs :
                 mail[m].state \in Terminal =>
                   \/ mail'[m].state \in {mail[m].state, "gone"}
                   \/ mail[m].state = "stored" /\ mail'[m].state = "delivered"
                   \/ mail[m].state \in {"failed", "cancelled"} /\ mail'[m].state = "queued"
                      /\ mail'[m].era = mail[m].era + 1
<1>1. ASSUME TypeOK, TypeOK', [Next]_vars PROVE A
  <2> SUFFICES ASSUME NEW m \in Msgs PROVE SettledRow(mail[m], mail'[m])
    BY DEF SettledRow
  <2>1. mail[m].state \in MailState /\ mail'[m].state \in MailState
    BY <1>1 DEF TypeOK, MailRow
  <2>2. CASE mail'[m] = mail[m]
    BY <2>2 DEF SettledRow
  <2>3. CASE Steady \/ Turn \/ GivesUp
    <3>1. \/ StatusShown(mail'[m].state) = StatusShown(mail[m].state)
          \/ TurnRow(m, mail[m], mail'[m])
      BY <2>3 DEF Steady, Turn, GivesUp, SteadyRow
    <3> QED BY <2>1, <3>1, ShownSettled
  <2>4. CASE Radio \/ Replies
    BY <1>1, <2>4, ReceiptSettled
  <2> QED BY <1>1, <2>2, <2>3, <2>4, LoopMail, TaskMail, OperatorMail DEF Next, vars
<1>2. TypeOK /\ TypeOK' /\ [Next]_vars => [A]_vars
  BY <1>1
<1> QED BY <1>2, TypeCorrect, PTL DEF Spec, SettledForGood

-----------------------------------------------------------------------------
(* Outbox implements MailPromise.                                           *)

\* One station gains at a time, parts or custody.
LEMMA OneStation ==
  ASSUME TypeOK, Receive(air.load) \/ \E m \in Msgs, k \in Custodians : CustodianForwards(m, k)
  PROVE  \/ peer' = peer
         \/ \E x \in Msgs :
              /\ \A m \in Msgs \ {x} : peer'[m] = peer[m]
              /\ peer'[x].kept = peer[x].kept \/ peer'[x].got = peer[x].got
<1>1. peer \in [Msgs -> [got : SUBSET Parts, kept : [Custodians -> SUBSET Parts],
                         echo : SUBSET SUBSET Parts]]
  BY DEF TypeOK
<1>2. ASSUME NEW m \in Msgs, NEW k \in Custodians, CustodianForwards(m, k)
      PROVE  /\ \A n \in Msgs \ {m} : peer'[n] = peer[n]
             /\ peer'[m].kept = peer[m].kept
  BY <1>1, <1>2 DEF CustodianForwards
<1>3. CASE Receive(air.load) /\ peer' # peer
  <2> DEFINE m == air.load.msg
  <2>1. air.load.op \in {"direct", "multipart", "relay", "store"}
    BY <1>3 DEF Receive
  <2>2. m \in Msgs
    <3>1. air.load # Foreign /\ \A n \in Msgs : air.load # About(n)
      BY <2>1 DEF Foreign, About
    <3> QED BY <3>1 DEF TypeOK, Loads, Frame
  <2>3. CASE air.load.op = "store"
    <3>1. PICK had : peer' = [peer EXCEPT ![m].kept[air.load.peer] = @ \cup had]
      BY <1>3, <2>3 DEF Receive
    <3>2. /\ \A n \in Msgs \ {m} : peer'[n] = peer[n]
          /\ peer'[m].got = peer[m].got
      BY <1>1, <2>2, <3>1
    <3> QED BY <2>2, <3>2
  <2>4. CASE air.load.op # "store"
    <3>1. /\ \A n \in Msgs \ {m} : peer'[n] = peer[n]
          /\ peer'[m].kept = peer[m].kept
      BY <1>1, <1>3, <2>1, <2>2, <2>4 DEF Receive
    <3> QED BY <2>2, <3>1
  <2> QED BY <2>3, <2>4
<1> QED BY <1>2, <1>3

\* The status shown, and the requeues, of each message that shares no station;
\* who has it.
Shown == [m \in Sole |-> StatusShown(mail[m].state)]
Asked == [m \in Sole |-> mail[m].era]
Arrived == {m \in Sole : peer[m].got = Parts}
Kept == {m \in Sole : \E k \in Custodians : Took(peer[m], k)}

\* What does not move one of them, and where no station gains, is a stutter.
LEMMA NothingShown ==
  ASSUME peer' = peer,
         \A m \in Sole : /\ StatusShown(mail'[m].state) = StatusShown(mail[m].state)
                         /\ mail'[m].era = mail[m].era
  PROVE  UNCHANGED Promise!vars
<1>1. Shown' = Shown /\ Asked' = Asked
  BY DEF Shown, Asked
<1>2. Arrived' = Arrived
  BY DEF Arrived
<1>3. Kept' = Kept
  BY DEF Kept, Took
<1> QED BY <1>1, <1>2, <1>3 DEF Promise!vars, Shown, Arrived, Kept, Asked

\* A turn of one of them is a step of MailPromise.
LEMMA TurnIsPromised ==
  ASSUME TypeOK, Turn
  PROVE  [Promise!Next]_(Promise!vars)
<1>1. PICK m \in Msgs : /\ TurnRow(m, mail[m], mail'[m])
                        /\ \A n \in Msgs \ {m} : mail'[n] = mail[n]
  BY DEF Turn
<1>2. Sole \subseteq Msgs /\ peer' = peer
  BY DEF Sole, Turn
<1>3. CASE m \notin Sole
  BY <1>1, <1>2, <1>3, NothingShown
<1>4. CASE m \in Sole
  <2> DEFINE a == StatusShown(mail[m].state)
             b == StatusShown(mail'[m].state)
  <2>1. /\ Shown[m] = a /\ Shown' = [Shown EXCEPT ![m] = b]
    BY <1>1, <1>2, <1>4 DEF Shown
  <2>2. Arrived' = Arrived /\ Kept' = Kept
    BY <1>2 DEF Arrived, Kept, Took
  <2>3. \/ mail'[m].era = mail[m].era /\ Asked' = Asked
        \/ mail'[m].era = mail[m].era + 1 /\ Asked' = [Asked EXCEPT ![m] = @ + 1]
    BY <1>1, <1>2, <1>4 DEF Asked, TurnRow
  <2>4. mail[m].era + 1 # mail[m].era
    BY DEF TypeOK, MailRow
  <2>5. /\ m \in Kept <=> IsKept(m)
        /\ m \in Arrived \cup Broadcast <=> IsThere(m)
    BY <1>4 DEF Kept, Arrived, IsKept, IsThere
  <2> DEFINE Turns(from, to) == /\ Shown[m] \in from /\ Shown' = [Shown EXCEPT ![m] = to]
                                /\ Arrived' = Arrived /\ Kept' = Kept /\ Asked' = Asked
  <2>6. \/ Turns({"absent"}, "open") \/ Turns({"open"}, "held") \/ Turns({"open"}, "expired")
        \/ Turns({"open"}, "cancelled") \/ Turns({"open"}, "failed")
        \/ Turns({"held", "stored", "complete", "failed", "expired", "cancelled"}, "removed")
        \/ m \in Kept /\ Turns({"open"}, "stored")
        \/ m \in Arrived \cup Broadcast /\ Turns({"open", "stored"}, "complete")
        \/ /\ Shown[m] \in {"open", "held", "failed", "cancelled"}
           /\ Shown' = [Shown EXCEPT ![m] = "open"]
           /\ Asked' = [Asked EXCEPT ![m] = @ + 1]
    <3>1. mail'[m].state = "queued" => b = "open"
      BY ShownStates
    <3> QED BY <1>1, <2>1, <2>2, <2>3, <2>4, <2>5, <3>1 DEF TurnRow
  <2>7. \A from, to : Turns(from, to) => Promise!Turn(m, from, to)
    BY DEF Promise!Turn, Promise!Move, Shown, Arrived, Kept, Asked
  <2>8. ASSUME Turns({"open"}, "failed") PROVE Promise!Next
    <3>1. \A n \in {m} : Shown[n] = "open"
      BY <2>8
    <3>2. Shown' = [n \in Sole |-> IF n \in {m} THEN "failed" ELSE Shown[n]]
      BY <2>8 DEF Shown
    <3>3. Promise!Fail({m})
      BY <2>8, <3>1, <3>2 DEF Promise!Fail, Shown, Arrived, Kept, Asked
    <3>4. {m} \in SUBSET Sole
      BY <1>4
    <3> QED BY <3>3, <3>4 DEF Promise!Next
  <2>9. ASSUME /\ Shown[m] \in {"open", "held", "failed", "cancelled"}
               /\ Shown' = [Shown EXCEPT ![m] = "open"]
               /\ Asked' = [Asked EXCEPT ![m] = @ + 1]
        PROVE  Promise!Requeue(m)
    BY <2>2, <2>9 DEF Promise!Requeue, Promise!Move, Shown, Arrived, Kept, Asked
  <2>10. ASSUME m \in Kept, Turns({"open"}, "stored") PROVE Promise!Store(m)
    BY <2>7, <2>10 DEF Promise!Store, Kept
  <2>11. ASSUME m \in Arrived \cup Broadcast, Turns({"open", "stored"}, "complete")
         PROVE  Promise!Complete(m)
    BY <2>7, <2>11 DEF Promise!Complete, Arrived
  <2> HIDE DEF Turns
  <2> QED BY <1>4, <2>6, <2>7, <2>8, <2>9, <2>10, <2>11
          DEF Promise!Next, Promise!Submit, Promise!Hold, Promise!Expire, Promise!Cancel,
              Promise!Remove
<1> QED BY <1>3, <1>4

\* So is a sweep.
LEMMA SweepIsPromised ==
  ASSUME TypeOK, GivesUp
  PROVE  Promise!Next
<1> DEFINE S == {m \in Sole : /\ StatusShown(mail[m].state) = "open"
                              /\ StatusShown(mail'[m].state) = "failed"}
<1>0. Sole \subseteq Msgs
  BY DEF Sole
<1>1. \A m \in S : Shown[m] = "open"
  BY DEF Shown
<1>2. Shown' = [m \in Sole |-> IF m \in S THEN "failed" ELSE Shown[m]]
  BY <1>0 DEF Shown, GivesUp, SteadyRow
<1>3. Arrived' = Arrived /\ Kept' = Kept
  BY DEF GivesUp, Arrived, Kept, Took
<1>4. Asked' = Asked
  BY <1>0 DEF GivesUp, SteadyRow, Asked
<1>5. Promise!Fail(S)
  BY <1>1, <1>2, <1>3, <1>4 DEF Promise!Fail, Shown, Arrived, Kept, Asked
<1> QED BY <1>5 DEF Promise!Next

\* Every step is one of MailPromise, or changes nothing it speaks of.
LEMMA PromiseStep ==
  ASSUME TypeOK, Evidence, [Next]_vars
  PROVE  [Promise!Next]_(Promise!vars)
<1>0. Sole \subseteq Msgs
  BY DEF Sole
<1>1. CASE peer' = peer
  <2>1. CASE mail' = mail \/ Steady
    BY <1>0, <1>1, <2>1, NothingShown DEF Steady, SteadyRow
  <2> QED BY <2>1, MailMoves, TurnIsPromised, SweepIsPromised
<1>2. CASE peer' # peer
  <2>1. /\ Receive(air.load) \/ \E m \in Msgs, k \in Custodians : CustodianForwards(m, k)
        /\ mail' = mail
    BY <1>2, StationsMove DEF CustodianForwards
  <2>2. PICK x \in Msgs : /\ \A m \in Msgs \ {x} : peer'[m] = peer[m]
                          /\ peer'[x].kept = peer[x].kept \/ peer'[x].got = peer[x].got
    BY <1>2, <2>1, OneStation
  <2>3. Gains(peer[x], peer'[x])
    BY StationsGain
  <2>4. Shown' = Shown /\ Asked' = Asked
    BY <2>1 DEF Shown, Asked
  <2>5. \A m \in Sole \ {x} : m \in Kept' <=> m \in Kept
    BY <1>0, <2>2 DEF Kept, Took
  <2>6. \A m \in Sole \ {x} : m \in Arrived' <=> m \in Arrived
    BY <1>0, <2>2 DEF Arrived
  <2>7. Kept \subseteq Sole /\ Kept' \subseteq Sole /\ Arrived \subseteq Sole /\ Arrived' \subseteq Sole
    BY DEF Kept, Arrived
  <2>8. CASE peer'[x].kept = peer[x].kept
    <3>1. x \in Arrived => x \in Arrived'
      BY <2>3, GainsSame DEF Arrived
    <3>2. x \in Kept' <=> x \in Kept
      BY <2>8 DEF Kept, Took
    <3>3. Kept' = Kept /\ Arrived' \in {Arrived, Arrived \cup {x}}
      BY <2>5, <2>6, <2>7, <3>1, <3>2
    <3>4. Arrived' = Arrived \cup {x} => Promise!Arrive(x) /\ x \in Sole
      BY <2>4, <2>7, <3>3 DEF Promise!Arrive, Shown, Arrived, Kept, Asked
    <3>5. Arrived' = Arrived => UNCHANGED Promise!vars
      BY <2>4, <3>3 DEF Promise!vars, Shown, Arrived, Kept, Asked
    <3> QED BY <3>3, <3>4, <3>5 DEF Promise!Next
  <2>9. CASE peer'[x].got = peer[x].got
    <3>1. x \in Kept => x \in Kept'
      BY <2>3, TookStays DEF Kept
    <3>2. x \in Arrived' <=> x \in Arrived
      BY <2>9 DEF Arrived
    <3>3. Arrived' = Arrived /\ Kept' \in {Kept, Kept \cup {x}}
      BY <2>5, <2>6, <2>7, <3>1, <3>2
    <3>4. Kept' = Kept \cup {x} => Promise!Keep(x) /\ x \in Sole
      BY <2>4, <2>7, <3>3 DEF Promise!Keep, Shown, Arrived, Kept, Asked
    <3>5. Kept' = Kept => UNCHANGED Promise!vars
      BY <2>4, <3>3 DEF Promise!vars, Shown, Arrived, Kept, Asked
    <3> QED BY <3>3, <3>4, <3>5 DEF Promise!Next
  <2> QED BY <2>2, <2>8, <2>9
<1> QED BY <1>1, <1>2

LEMMA PromiseInit == Init => Promise!Init
<1> SUFFICES ASSUME Init PROVE Promise!Init
  OBVIOUS
<1>0. Sole \subseteq Msgs
  BY DEF Sole
<1>1. Shown = [m \in Sole |-> "absent"] /\ Asked = [m \in Sole |-> 0]
  BY <1>0 DEF Init, Shown, Asked, NewRow, StatusShown
<1>2. Parts # {}
  BY OutboxAssumption DEF Parts
<1>3. Arrived = {}
  BY <1>0, <1>2 DEF Init, Arrived
<1>4. \A m \in Msgs, k \in Custodians : ~Took(peer[m], k)
  BY <1>2 DEF Init, Took
<1>5. Kept = {}
  BY <1>0, <1>4 DEF Kept
<1> QED BY <1>1, <1>3, <1>5 DEF Promise!Init, Shown, Arrived, Kept, Asked

\* Outbox implements MailPromise for every set of messages, stations and requests
\* and every bound, as far as it speaks of messages that share no station with
\* another one: whatever the loop, the requests, the link, the clock and the radio
\* do, in any order, the status of such a message only goes where MailPromise lets
\* it go, it is taken up again after it was settled by the operator alone, and it
\* is not reported complete unless it arrived, nor stored unless a custodian took
\* the offer, or a part of it.
THEOREM PromiseIsKept == Spec => PromiseKept
<1>1. TypeOK /\ Evidence /\ [Next]_vars => [Promise!Next]_(Promise!vars)
  BY PromiseStep
<1>2. TypeOK /\ Evidence /\ [Next]_vars => Evidence'
  BY EvidenceStep
<1> QED BY <1>1, <1>2, EvidenceInit, PromiseInit, TypeCorrect, PTL
        DEF Spec, PromiseKept, Promise!Spec

=============================================================================
