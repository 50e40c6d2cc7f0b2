------------------------------- MODULE Outbox -------------------------------
(****************************************************************************)
(* The life of an outgoing message in one JS8Mail daemon: the operator's    *)
(* HTTP actions, the discovery loop (one asyncio coroutine working through  *)
(* a snapshot of the open messages), the transmissions it and the HTTP      *)
(* requests start, the JS8Call transmit train they share, and the receipts  *)
(* that come back over the radio, late, twice or never.                     *)
(*                                                                          *)
(*   mail    the messages table, with what the attempts, custody and part   *)
(*           tables say of each message                                     *)
(*   tx      the transmission_transactions table, by row id                 *)
(*   todo    the rows of list_messages() the loop has not handled yet, as   *)
(*           they were when the pass began                                  *)
(*   task    for each coroutine that may transmit, the await it waits in    *)
(*   active  controller.active_transaction_id                               *)
(*   air     what JS8Call holds or transmits, from the handoff to the end   *)
(*           of the quiet period after the last PTT-off                     *)
(*   acks    JS8Call ACKs on their way back, by the station that sent them  *)
(*   peer    what the other stations have, and the receipts they have sent  *)
(*   up      whether the daemon is connected to JS8Call                     *)
(*                                                                          *)
(* A step is what the program does between two awaits.  An exception that   *)
(* leaves the loop body ends the pass (Crashed): the supervisor starts the  *)
(* loop again.  Clock deadlines are choices: a deadline that the code       *)
(* compares with the current time may pass at any moment.                   *)
(****************************************************************************)
EXTENDS Lifecycle, Ledger, FiniteSets

CONSTANTS
  Msgs,            \* messages the operator may compose
  Broadcast,       \* those addressed to a group
  Multi,           \* those whose destination may be known as a multipart peer
  Routed,          \* those a relay path may be found for
  Stations,        \* call signs that answer
  Custodians,      \* stations that store messages for others
  Keepers,         \* those each message may be offered to
  Splitting,       \* custodians that may be known to take a message in parts
  Dest,            \* the destination of each message
  NParts,          \* parts of a multipart message
  MaxTx,           \* bound: rows of the transactions table
  MaxEra,          \* bound: times the operator requeues a message
  CustodyRetries,  \* retries before custody is offered: 3 in the code
  AckLimit,        \* ENHANCED_ACK_RETRY_LIMIT: 2 in the code
  Expiring,        \* bound: those whose three days may run out
  OldRows,         \* bound: rows that may be fifteen minutes old at an ACK
  Twice,           \* bound: stations whose ACK may be decoded a second time
  UiTasks,         \* HTTP requests that may be transmitting at a time
  Daemon,          \* the discovery loop
  Nil

Groups == {Dest[m] : m \in Broadcast}

ASSUME OutboxAssumption ==
  /\ Broadcast \subseteq Msgs /\ Multi \subseteq Msgs /\ Routed \subseteq Msgs
  /\ Expiring \subseteq Msgs /\ OldRows \subseteq 1..MaxTx
  /\ Broadcast \cap (Multi \cup Routed) = {}
  /\ Custodians \subseteq Stations /\ Splitting \subseteq Custodians
  /\ Keepers \in [Msgs -> SUBSET Custodians]
  /\ \A m \in Msgs \ Broadcast : Dest[m] \in Stations
  /\ Groups \cap Stations = {}
  /\ NParts \in Nat \ {0} /\ MaxTx \in Nat /\ MaxEra \in Nat
  /\ CustodyRetries \in Nat /\ AckLimit \in Nat \ {0}
  /\ Daemon \notin UiTasks
  /\ Nil \notin Msgs \cup Stations \cup Groups \cup 0..MaxTx

VARIABLES mail, tx, todo, task, active, air, acks, peer, up

vars == <<mail, tx, todo, task, active, air, acks, peer, up>>

-----------------------------------------------------------------------------
(* The tables and the values in flight. *)

Parts == 1..NParts
TxIds == 1..MaxTx
Tasks == UiTasks \cup {Daemon}
Ops == {"direct", "multipart", "relay", "store", "group_broadcast"}

\* "none" and "gone": no row yet, and no row any more.
MailState == States \cup {"none", "gone"}

CustodyStatus == {"none", "offered", "accepted", "forwarded", "failed"}

\* A message row and what its dependent rows say: acks and direct and
\* receipted come from message_attempts, enh from message_parts, confirmed
\* from outgoing_part_progress.  lapsed says that expires_at_ms has passed,
\* due that next_attempt_at_ms has.  retries and acks stop at the value the
\* code compares them with.  era counts the operator's requeues, and cut says
\* that the last hold of the message was cut short: they are history, no action
\* reads them except to bound itself.
MailRow == [state : MailState, due : BOOLEAN, retries : 0..CustodyRetries,
            acks : 0..AckLimit, direct : BOOLEAN, receipted : BOOLEAN,
            enh : BOOLEAN, confirmed : SUBSET Parts, lapsed : BOOLEAN,
            custody : [Custodians -> CustodyStatus], era : 0..MaxEra,
            cut : BOOLEAN]

NewRow == [state |-> "none", due |-> TRUE, retries |-> 0, acks |-> 0,
           direct |-> FALSE, receipted |-> FALSE, enh |-> FALSE,
           confirmed |-> {}, lapsed |-> FALSE,
           custody |-> [k \in Custodians |-> "none"], era |-> 0, cut |-> FALSE]

\* What is sent: the wire text of one transaction.  Part 0 is the whole body.
\* Foreign is a text that belongs to no transaction: a probe, a query, a
\* protocol reply or the operator's own typing.
Names == Stations \cup Groups \cup {Nil}
Frame == [id : TxIds, msg : Msgs, op : Ops, part : 0..NParts, peer : Names]
Foreign == [id |-> 0, msg |-> Nil, op |-> "none", part |-> 0, peer |-> Nil]

\* A transaction row.  era and aired are history: the message's era when the
\* row was made, and whether the text of a broadcast has been on the air.
TxRow == [msg : Msgs \cup {Nil}, op : Ops \cup {"none"}, part : 0..NParts,
          peer : Names, status : TxStatus \cup {"none"}, submitted : BOOLEAN,
          finished : BOOLEAN, era : 0..MaxEra, aired : BOOLEAN]

NoTx == [msg |-> Nil, op |-> "none", part |-> 0, peer |-> Nil,
         status |-> "none", submitted |-> FALSE, finished |-> FALSE,
         era |-> 0, aired |-> FALSE]

\* The await a coroutine is in: before or inside send_rf for a transaction
\* (begun, send), or inside send_rf for a probe or a query (probe, hop,
\* query), or between service.retry_now and prepare (prepare).
Via == {"none", "route", "group", "prepare", "store", "manual"}
About(m) == [Foreign EXCEPT !.msg = m]
Loads == Frame \cup {Foreign} \cup {About(m) : m \in Msgs}
Idle == [pc |-> "idle", via |-> "none", load |-> Foreign]
Await == {Idle}
         \cup [pc : {"begun", "send"}, via : Via, load : Frame]
         \cup [pc : {"prepare", "probe", "hop", "query"}, via : {"none"},
               load : {About(m) : m \in Msgs}]
Quiet == [phase |-> "idle", load |-> Foreign]

TypeOK ==
  /\ mail \in [Msgs -> MailRow]
  /\ tx \in [TxIds -> TxRow]
  /\ todo \subseteq [msg : Msgs, state : Open, retries : 0..CustodyRetries]
  /\ task \in [Tasks -> Await]
  /\ active \in TxIds \cup {Nil}
  /\ air \in [phase : {"idle", "queued", "keyed", "quiet"}, load : Loads]
  /\ acks \in [Stations -> {"none", "new", "dup"}]
  /\ peer \in [Msgs -> [got : SUBSET Parts, kept : [Custodians -> SUBSET Parts],
                        echo : SUBSET SUBSET Parts]]
  /\ up \in BOOLEAN

Init ==
  /\ mail = [m \in Msgs |-> NewRow]
  /\ tx = [t \in TxIds |-> NoTx]
  /\ todo = {}
  /\ task = [c \in Tasks |-> Idle]
  /\ active = Nil
  /\ air = Quiet
  /\ acks = [s \in Stations |-> "none"]
  /\ peer = [m \in Msgs |-> [got |-> {}, kept |-> [k \in Custodians |-> {}],
                          echo |-> {}]]
  /\ up = TRUE

-----------------------------------------------------------------------------
(* Reading and writing the tables. *)

TxsOf(m) == {t \in TxIds : tx[t].msg = m}
LiveTxs(m) == {t \in TxsOf(m) : IsLive(tx[t])}

\* SQLite gives a new row the id after the largest one in the table.
IsNextId(t) ==
  /\ \A u \in TxIds : u >= t => tx[u].status = "none"
  /\ t - 1 \in TxIds => tx[t - 1].status # "none"

Bump(retries, n) ==
  IF retries + n < CustodyRetries THEN retries + n ELSE CustodyRetries

\* defer_message, and the transition to WAITING_ROUTE that precedes it in
\* most places; n is 0 for increment_retry=False.
Deferred(row, n) ==
  [row EXCEPT !.state = "waiting_route", !.due = FALSE,
              !.retries = Bump(@, n)]

\* Mutant: the state is written without can_transition.
MovedAlways(row, target) == [row EXCEPT !.state = target]

\* transition_message, by a caller that has checked or handles its refusal.
Moved(row, target) ==
  IF CanTransition(row.state, target) THEN [row EXCEPT !.state = target] ELSE row

\* wake_message_for_route
Woken(row) == IF row.state = "waiting_route" THEN [row EXCEPT !.due = TRUE] ELSE row

\* The two commits of hold_after_js8call_ack: the state of the message; then
\* its retry time and its transactions.
HeldFirst(row) == [row EXCEPT !.state = "acknowledged", !.cut = TRUE]
Held(row) == [row EXCEPT !.state = "acknowledged", !.due = TRUE, !.cut = FALSE]

\* Mutant: what waits for its ACK is forgotten.
WithoutUnsent(m) ==
  [t \in TxIds |-> IF t \in LiveTxs(m) /\ ~tx[t].submitted
                   THEN [tx[t] EXCEPT !.status = "unconfirmed"] ELSE tx[t]]

\* The second commit closes the live transactions.
WithoutLive(m) ==
  [t \in TxIds |-> IF t \in LiveTxs(m) THEN [tx[t] EXCEPT !.status = "unconfirmed"]
                   ELSE tx[t]]

\* A table with one row rewritten; an id whose row was deleted rewrites nothing.
TxWith(t, row) == [tx EXCEPT ![t] = row]

\* "if self.active_transaction_id == transaction_id: ... = None", where self
\* is the controller for the loop and another object for an HTTP request.
ActiveWithout(c, t) == IF c = Daemon /\ active = t THEN Nil ELSE active

\* An exception left the loop body: the rest of the snapshot is lost.  In an
\* HTTP request it only ends the request.
Unwind(c, raised, rest) == IF raised /\ c = Daemon THEN {} ELSE rest

\* Write a deferral, or raise out of the loop when the message is in a state
\* that cannot be deferred.
DeferOrCrash(m, row, n, rest) ==
  IF CanDefer(row.state)
  THEN mail' = [mail EXCEPT ![m] = Deferred(row, n)] /\ todo' = rest
  ELSE mail' = [mail EXCEPT ![m] = row] /\ todo' = {}

\* Mutant: the deferral does not look at the state.
DeferAnyway(m, n, rest) ==
  /\ todo' = rest
  /\ mail' = [mail EXCEPT ![m] = Deferred(@, n)]

\* The same where the caller swallows the refusal.
DeferQuietly(m, n, rest) ==
  /\ todo' = rest
  /\ mail' = IF CanDefer(mail[m].state)
             THEN [mail EXCEPT ![m] = Deferred(@, n)] ELSE mail

-----------------------------------------------------------------------------
(* transmit: from the state check to the row of the new transaction, which  *)
(* is one step, then the wait for the slot and what follows the handoff.    *)

Ready == {"queued", "waiting_route"}

\* Mutant: the last missing number is taken for an index.
NextPartByIndex(m) ==
  LET missing == Parts \ mail[m].confirmed
  IN  IF missing = {} THEN {NParts}
      ELSE {p + 1 : p \in {q \in missing : \A r \in missing : r <= q}}

\* missing[0], or the last part again once all are confirmed.
NextPart(m) ==
  LET missing == Parts \ mail[m].confirmed
  IN  IF missing = {} THEN {NParts} ELSE {p \in missing : \A q \in missing : p <= q}

\* A transaction and its task; the message is in_progress from here on.
Start(c, m, row, via, op, part, responder) ==
  \E t \in TxIds :
    /\ IsNextId(t)
    /\ tx' = TxWith(t, [msg |-> m, op |-> op, part |-> part, peer |-> responder,
                        status |-> "queued", submitted |-> FALSE,
                        finished |-> FALSE, era |-> row.era, aired |-> FALSE])
    /\ mail' = [mail EXCEPT ![m] = [row EXCEPT !.state = "in_progress"]]
    /\ active' = IF c = Daemon THEN t ELSE active
    /\ task' = [task EXCEPT ![c] =
                  [pc |-> "begun", via |-> via,
                   load |-> [id |-> t, msg |-> m, op |-> op, part |-> part,
                             peer |-> responder]]]

\* The body of transmit up to its first await.  A relay path comes with the
\* plan of the loop, or is planned after a first delivery attempt.
StartTransmit(c, m, via, rest) ==
  /\ mail[m].state \in Ready
  /\ todo' = rest
  /\ \/ /\ m \in Broadcast
        /\ Start(c, m, mail[m], via, "group_broadcast", 0, Dest[m])
     \/ /\ m \in Multi
        /\ \E part \in NextPart(m) : Start(c, m, mail[m], via, "multipart", part, Dest[m])
     \/ /\ m \notin Broadcast
        /\ Start(c, m, mail[m], via, "direct", 0, Dest[m])
     \/ /\ m \in Routed
        /\ via = "route" \/ TxsOf(m) # {}
        /\ \E part \in {0} \cup IF m \in Multi THEN NextPart(m) ELSE {} :
             Start(c, m, mail[m], via, "relay", part, Dest[m])

\* How each caller of transmit handles an exception it raised: kind "value"
\* is ValueError, "runtime" the connection and budget errors.
OnError(m, via, kind, rest) ==
  CASE via \in {"route", "store"} -> DeferOrCrash(m, mail[m], 1, rest)
    [] via = "group"              -> DeferOrCrash(m, mail[m], 0, rest)
    [] via = "prepare" /\ kind = "runtime" /\ m \notin Broadcast
                                  -> DeferQuietly(m, 0, rest)
    [] OTHER                      -> mail' = mail /\ todo' = rest

\* transmit raises before it creates a transaction: the message is not ready,
\* or no usable route remains.  (Automation is never paused in the model.)
RefuseTransmit(c, m, via, rest) ==
  /\ IF mail[m].state \in Ready THEN OnError(m, via, "runtime", rest)
                                ELSE OnError(m, via, "value", rest)
  /\ task' = [task EXCEPT ![c] = Idle]
  /\ UNCHANGED <<tx, active>>

Transmit(c, m, via, rest) ==
  StartTransmit(c, m, via, rest) \/ RefuseTransmit(c, m, via, rest)

\* The last look at the state of the message before a text goes into send_rf:
\* the transaction of one that was settled or removed meanwhile is given up.
LookAndSend(c, load) ==
  LET state == mail[load.msg].state
  IN  IF state \in {"gone", "cancelled", "failed", "expired"}
      THEN /\ tx' = TxWith(load.id, Unconfirmed(tx[load.id]))
           /\ active' = ActiveWithout(c, load.id)
           /\ task' = [task EXCEPT ![c] = Idle]
           /\ todo' = Unwind(c, state = "gone", todo)
      ELSE /\ task' = [task EXCEPT ![c] = [@ EXCEPT !.pc = "send", !.load = load]]
           /\ UNCHANGED <<tx, active, todo>>

\* The await of _maybe_adapt_speed is over; the parts of a direct message are
\* recorded.
EnterSendRf(c) ==
  LET load == task[c].load
      m == load.msg
  IN  /\ task[c].pc = "begun"
      /\ mail' = IF mail[m].state = "gone" THEN mail
                 ELSE [mail EXCEPT ![m].enh = @ \/ (load.part # 0 /\ load.op # "store")]
      /\ LookAndSend(c, load)
      /\ UNCHANGED <<air, acks, peer, up>>

\* A store offer in parts is one transaction and several texts.
MoreParts(load) == load.op = "store" /\ load.part \in 1..(NParts - 1)

\* JS8Call takes one of them, and the state is looked at before the next one.
HandoffPart(c) ==
  LET load == task[c].load
  IN  /\ task[c].pc = "send" /\ air.phase = "idle" /\ up
      /\ MoreParts(load)
      /\ air' = [phase |-> "queued", load |-> load]
      /\ LookAndSend(c, [load EXCEPT !.part = @ + 1])
      /\ UNCHANGED <<mail, acks, peer, up>>

\* JS8Call takes the last text; a message held meanwhile gives the transaction up.
\* The attempt row of a deleted message cannot be written.
Handoff(c) ==
  LET load == task[c].load
      m == load.msg
      held == mail[m].state = "acknowledged" /\ load.op # "store"
      raised == mail[m].state = "gone"
  IN  /\ task[c].pc = "send" /\ air.phase = "idle" /\ up
      /\ ~MoreParts(load)
      /\ air' = [phase |-> "queued", load |-> load]
      /\ tx' = TxWith(load.id, IF held THEN Unconfirmed(tx[load.id])
                               ELSE Submitted(tx[load.id]))
      /\ active' = IF held THEN ActiveWithout(c, load.id) ELSE active
      /\ mail' = [mail EXCEPT ![m].direct =
                    @ \/ (~held /\ ~raised /\ load.op \in {"direct", "multipart"})]
      /\ task' = [task EXCEPT ![c] = Idle]
      /\ todo' = Unwind(c, raised, todo)
      /\ UNCHANGED <<acks, peer, up>>

\* send_rf raises: the slot, the budget, the radio or the link refused.  The
\* per-message-total budget fails the message where the loop handles it.
FailSend(c, exhausted) ==
  LET load == task[c].load
      m == load.msg
      via == task[c].via
      lost == [mail[m] EXCEPT !.custody =
                 IF via = "store" THEN [@ EXCEPT ![load.peer] = "failed"] ELSE @]
  IN  /\ task[c].pc = "send"
      /\ tx' = TxWith(load.id, Unconfirmed(tx[load.id]))
      /\ active' = ActiveWithout(c, load.id)
      /\ task' = [task EXCEPT ![c] = Idle]
      /\ CASE mail[m].state = "gone" -> mail' = mail /\ todo' = Unwind(c, TRUE, todo)
           [] mail[m].state # "gone" /\ exhausted ->
                /\ via \in {"route", "group", "store"}
                /\ mail' = [mail EXCEPT ![m] = Moved(lost, "failed")]
                /\ todo' = Unwind(c, ~CanTransition(mail[m].state, "failed"), todo)
           [] mail[m].state # "gone" /\ ~exhausted ->
                IF via = "store" THEN DeferOrCrash(m, lost, 1, todo)
                ELSE OnError(m, via, "runtime", todo)
      /\ UNCHANGED <<air, acks, peer, up>>

-----------------------------------------------------------------------------
(* prepare, ensure_route_first_hop_reachable and the discovery queries: a   *)
(* short text goes out, and only then the message is put back to wait.      *)

Ask(c, pc, m) ==
  /\ task' = [task EXCEPT ![c] = [pc |-> pc, via |-> "none", load |-> About(m)]]
  /\ UNCHANGED <<tx, active>>

\* prepare, up to its first await: a group is transmitted to, and so is a
\* station heard a moment ago; any other one is probed first.
Prepare(c, m, rest) ==
  \/ Transmit(c, m, "prepare", rest)
  \/ /\ m \notin Broadcast /\ mail[m].state # "gone"
     /\ mail' = mail /\ todo' = rest
     /\ Ask(c, "probe", m)

\* The await is over, with the text handed to JS8Call or refused.  A probe's
\* or a query's deferral is written whatever happened to the message during
\* the wait; prepare's refusal is caught, the others' are not.
AskDone(c, sent) ==
  LET pc == task[c].pc
      m == task[c].load.msg
      n == IF pc = "query" \/ (pc = "probe" /\ sent) THEN 1 ELSE 0
      quiet == pc = "probe" /\ mail[m].state # "gone"
  IN  /\ pc \in {"probe", "hop", "query"}
      /\ IF sent THEN up /\ air.phase = "idle" /\ air' = [phase |-> "queued", load |-> Foreign]
                 ELSE air' = air
      /\ IF CanDefer(mail[m].state)
         THEN mail' = [mail EXCEPT ![m] = Deferred(@, n)] /\ todo' = todo
         ELSE mail' = mail /\ todo' = Unwind(c, ~quiet, todo)
      /\ task' = [task EXCEPT ![c] = Idle]
      /\ UNCHANGED <<tx, active, acks, peer, up>>

-----------------------------------------------------------------------------
(* The discovery loop: first the sweeps and a new snapshot, then one row    *)
(* after another.  The order of the rows is not modelled.                   *)

LoopIdle == task[Daemon] = Idle

\* Mutant: the transactions of a held message are passed over.
SweptUnlessHeld(X) ==
  [t \in TxIds |-> IF t \notin X \/ mail[tx[t].msg].state = "acknowledged" THEN tx[t]
                   ELSE TimedOut(tx[t])]

\* X: the rows whose deadline has passed.
SweptTx(X) ==
  [t \in TxIds |->
     IF t \notin X THEN tx[t]
     ELSE IF ExpirableBroadcast(tx[t]) THEN [tx[t] EXCEPT !.status = "unconfirmed"]
     ELSE TimedOut(tx[t])]

\* Mutant: the message of an unseen broadcast fails in whatever state it is.
SweptBlindly(m, X) ==
  LET row == mail[m]
      mine == X \cap TxsOf(m)
  IN  IF \E t \in mine : tx[t].op = "group_broadcast"
      THEN [row EXCEPT !.state = "failed"]
      ELSE IF mine # {} /\ CanDefer(row.state)
      THEN Deferred(row, Cardinality(mine))
      ELSE row

\* A broadcast never seen on the air fails; any other message is deferred
\* once for each of its rows, unless it is settled.  What is held cannot be.
Swept(m, X) ==
  LET row == mail[m]
      mine == X \cap TxsOf(m)
      stores == {t \in mine : tx[t].op = "store"}
      lost == {tx[t].peer : t \in stores}
      given == [row EXCEPT !.custody = [k \in Custodians |->
                  IF k \in lost THEN "failed" ELSE @[k]]]
  IN  IF \E t \in mine : tx[t].op = "group_broadcast"
      THEN IF row.state = "in_progress" THEN [row EXCEPT !.state = "failed"] ELSE row
      ELSE IF mine # {} /\ CanDefer(row.state)
      THEN Deferred(given, Cardinality(mine \ stores))
      ELSE IF row.state = "acknowledged" THEN given ELSE row

\* The rows of X whose messages are held, so that their deferral raises.
Stuck(X) ==
  {t \in X : tx[t].op # "group_broadcast" /\ mail[tx[t].msg].state = "acknowledged"}

\* The sweeps, then the snapshot of a pass; the loop does so only while it is
\* connected.  Every row is closed before the messages are dealt with one by
\* one, the broadcasts first; the deferral of a held one raises, and leaves the
\* rest, with no snapshot taken.  That takes a hold that was cut short
\* (HeldQuiescent), and happens once, for the row is closed.
Sweep(X) ==
  /\ LoopIdle /\ todo = {} /\ up
  /\ X \subseteq {t \in TxIds : Expirable(tx[t]) \/ ExpirableBroadcast(tx[t])}
  /\ tx' = SweptTx(X)
  /\ \E Y \in SUBSET X :
       /\ mail' = [m \in Msgs |-> Swept(m, Y)]
       /\ {t \in X : tx[t].op = "group_broadcast"} \subseteq Y
       /\ IF Stuck(X) = {} THEN Y = X ELSE Cardinality(Stuck(Y)) = 1
  /\ todo' = IF Stuck(X) # {} THEN {}
             ELSE {[msg |-> m, state |-> mail'[m].state, retries |-> mail'[m].retries] :
                     m \in {x \in Msgs : mail'[x].state \in Open}}
  /\ UNCHANGED <<task, active, air, acks, peer, up>>

\* Handling a row e of the snapshot.
Handling(e) == LoopIdle /\ e \in todo

GroupTurn(e) ==
  e.msg \in Broadcast /\ e.state \in Ready /\ mail[e.msg].due /\ mail[e.msg].state # "gone"

Current(e) == Handling(e) /\ ~GroupTurn(e) /\ mail[e.msg].state # "gone"

\* The operator removed the message during the pass: a waiting one may be
\* passed over as "not due", any other raises at the first write.
SkipRemoved(e) ==
  /\ Handling(e) /\ mail[e.msg].state = "gone"
  /\ \/ todo' = {}
     \/ e.state = "waiting_route" /\ ~mail[e.msg].lapsed /\ todo' = todo \ {e}
  /\ UNCHANGED <<mail, tx, task, active, air, acks, peer, up>>

BroadcastToGroup(e) ==
  /\ Handling(e) /\ GroupTurn(e)
  /\ Transmit(Daemon, e.msg, "group", todo \ {e})
  /\ UNCHANGED <<air, acks, peer, up>>

ExpireMessage(e) ==
  /\ Current(e) /\ mail[e.msg].lapsed
  /\ mail' = [mail EXCEPT ![e.msg] = Moved(@, "expired")]
  /\ todo' = IF CanTransition(mail[e.msg].state, "expired") THEN todo \ {e} ELSE {}
  /\ UNCHANGED <<tx, task, active, air, acks, peer, up>>

\* Mutant: expiry is looked at for waiting messages only.
PrepareQueuedLate(e) ==
  /\ Current(e) /\ e.state = "queued"
  /\ Prepare(Daemon, e.msg, todo \ {e})
  /\ UNCHANGED <<air, acks, peer, up>>

PrepareQueued(e) ==
  /\ Current(e) /\ ~mail[e.msg].lapsed /\ e.state = "queued"
  /\ Prepare(Daemon, e.msg, todo \ {e})
  /\ UNCHANGED <<air, acks, peer, up>>

\* The branches for a message that was in_progress in the snapshot.
InProgress(e) == Current(e) /\ ~mail[e.msg].lapsed /\ e.state = "in_progress"

HoldDue(m) == mail[m].enh /\ mail[m].direct /\ mail[m].acks = AckLimit

HoldMessage(e) ==
  LET m == e.msg
      allowed == CanTransition(mail[m].state, "acknowledged")
  IN  /\ InProgress(e) /\ HoldDue(m)
      /\ mail' = IF allowed THEN [mail EXCEPT ![m] = Held(@)] ELSE mail
      /\ tx' = IF allowed THEN WithoutLive(m) ELSE tx
      /\ todo' = IF allowed THEN todo \ {e} ELSE {}
      /\ UNCHANGED <<task, active, air, acks, peer, up>>

\* The second commit never comes: the database stays locked for its thirty
\* seconds and the exception leaves the loop, or the daemon stops (Crash).
HoldCutShort(e) ==
  LET m == e.msg
  IN  /\ InProgress(e) /\ HoldDue(m)
      /\ CanTransition(mail[m].state, "acknowledged")
      /\ mail' = [mail EXCEPT ![m] = HeldFirst(@)]
      /\ todo' = {}
      /\ UNCHANGED <<tx, task, active, air, acks, peer, up>>

AwaitResponse(e) ==
  /\ InProgress(e) /\ ~HoldDue(e.msg) /\ LiveTxs(e.msg) # {}
  /\ todo' = todo \ {e}
  /\ UNCHANGED <<mail, tx, task, active, air, acks, peer, up>>

Acked(m) == \E t \in TxsOf(m) : tx[t].status = "acknowledged"

\* Mutant: the wait for a response is skipped.
ReturnAtOnce(e) ==
  /\ InProgress(e) /\ ~HoldDue(e.msg) /\ ~Acked(e.msg)
  /\ DeferOrCrash(e.msg, mail[e.msg], 1, todo \ {e})
  /\ UNCHANGED <<tx, task, active, air, acks, peer, up>>

ReturnToDiscovery(e) ==
  /\ InProgress(e) /\ ~HoldDue(e.msg) /\ LiveTxs(e.msg) = {} /\ ~Acked(e.msg)
  /\ DeferOrCrash(e.msg, mail[e.msg], 1, todo \ {e})
  /\ UNCHANGED <<tx, task, active, air, acks, peer, up>>

\* What is left goes to discovery: a waiting message, or one whose last
\* transmission was acknowledged without settling it.
Discovering(e) ==
  /\ Current(e) /\ ~mail[e.msg].lapsed
  /\ \/ e.state = "waiting_route"
     \/ e.state = "in_progress" /\ ~HoldDue(e.msg) /\ LiveTxs(e.msg) = {} /\ Acked(e.msg)

\* direct_expired: the receipt's own deadline, counted from the end of the
\* last direct transmission, when nothing answered it.
DirectCanExpire(e) ==
  LET m == e.msg
  IN  /\ e.state = "in_progress" /\ mail[m].direct
      /\ ~mail[m].receipted /\ ~(mail[m].acks > 0 /\ ~mail[m].enh)
      /\ \E t \in TxsOf(m) : tx[t].op \in {"direct", "multipart"} /\ tx[t].finished

\* The message row the branches of discovery go on with; "message" itself
\* stays the row of the snapshot.
AfterDeadline(m, expired) ==
  IF expired THEN [mail[m] EXCEPT !.state = "waiting_route"] ELSE mail[m]

\* A custodian the message may be offered to: it has no offer under way, and
\* fewer than three were tried.  The offer policy (cooldown, limit, failures)
\* may exclude any of them.
Candidates(m) ==
  {k \in Keepers[m] : /\ k # Dest[m]
                      /\ mail[m].custody[k] \notin {"offered", "accepted", "forwarded"}
                      /\ Cardinality({j \in Custodians : mail[m].custody[j] # "none"}) < 3}

\* transmit_store, up to its first await: the offer is one text, or one for
\* each part.
TransmitStore(m, row, k, rest) ==
  IF row.state \in Ready
  THEN /\ \E part \in {0} \cup IF k \in Splitting THEN {1} ELSE {} :
            Start(Daemon, m, [row EXCEPT !.custody[k] = "offered"], "store", "store", part, k)
       /\ todo' = rest
  ELSE DeferOrCrash(m, row, 1, rest) /\ UNCHANGED <<tx, task, active>>

\* The branches of discovery for message m, whose row the receipt deadline
\* left as "row".  Which evidence, route, custodian or query there is, is not
\* modelled: any branch open to the row may be the one.
NoSend == UNCHANGED <<tx, task, active>>

\* Replies are still being collected, or the message is not due.
LeaveWaiting(m, row, rest) ==
  mail' = [mail EXCEPT ![m] = row] /\ todo' = rest /\ NoSend

\* A direct answer is on record.
WakeForDirect(m, row, rest) ==
  mail' = [mail EXCEPT ![m] = Woken(row)] /\ todo' = rest /\ NoSend

\* The destination was heard, or a route is known: the message is sent, or
\* the first hop was asked a moment ago, or is asked now.
TakeRoute(m, rest) ==
  \/ Transmit(Daemon, m, "route", rest)
  \/ DeferOrCrash(m, mail[m], 0, rest) /\ NoSend
  \/ mail' = mail /\ todo' = rest /\ Ask(Daemon, "hop", m)

OfferCustody(m, row, rest) ==
  \E k \in Candidates(m) : TransmitStore(m, row, k, rest)

\* A query goes out, or up to three of them (all but the last are
\* ForeignText); where the cooldown forbids it there is the deferral alone.
Query(m, row, rest) ==
  mail' = [mail EXCEPT ![m] = row] /\ todo' = rest /\ Ask(Daemon, "query", m)

Discover(e) ==
  LET m == e.msg
      rest == todo \ {e}
      waiting == e.state = "waiting_route"
  IN  /\ Discovering(e)
      /\ \/ /\ DirectCanExpire(e) /\ ~CanDefer(mail[m].state)
            /\ mail' = mail /\ todo' = {} /\ NoSend
         \/ \E expired \in BOOLEAN :
              LET row == AfterDeadline(m, expired)
              IN  /\ expired => DirectCanExpire(e) /\ CanDefer(mail[m].state)
                  /\ \/ LeaveWaiting(m, row, rest)
                     \/ (waiting => row.due) /\ WakeForDirect(m, row, rest)
                     \/ waiting /\ row.due /\ TakeRoute(m, rest)
                     \/ /\ e.retries = CustodyRetries /\ row.due
                        /\ OfferCustody(m, row, rest)
                     \/ (waiting => row.due) /\ Query(m, row, rest)
      /\ UNCHANGED <<air, acks, peer, up>>

-----------------------------------------------------------------------------
(* The operator's HTTP requests, and the passing of time. *)

Compose(m) ==
  /\ mail[m].state = "none"
  /\ mail' = [mail EXCEPT ![m].state = "queued"]
  /\ UNCHANGED <<tx, todo, task, active, air, acks, peer, up>>

Cancel(m) ==
  /\ mail[m].state \in Open
  /\ mail' = [mail EXCEPT ![m].state = "cancelled"]
  /\ UNCHANGED <<tx, todo, task, active, air, acks, peer, up>>

\* MailService.retry leaves next_attempt_at_ms as it is.
Retry(m) ==
  /\ mail[m].state \in {"acknowledged", "failed", "cancelled"} /\ mail[m].era < MaxEra
  /\ mail' = [mail EXCEPT ![m].state = "queued", ![m].era = @ + 1,
                         ![m].cut = FALSE]
  /\ UNCHANGED <<tx, todo, task, active, air, acks, peer, up>>

\* MailService.retry_now, which then schedules prepare on the event loop.
RetryNow(c, m) ==
  /\ task[c] = Idle /\ mail[m].era < MaxEra
  /\ mail[m].state \in {"acknowledged", "queued", "waiting_route"}
  /\ mail' = [mail EXCEPT ![m].state = "queued", ![m].due = TRUE, ![m].era = @ + 1,
                         ![m].cut = FALSE]
  /\ task' = [task EXCEPT ![c] = [pc |-> "prepare", via |-> "none", load |-> About(m)]]
  /\ UNCHANGED <<tx, todo, active, air, acks, peer, up>>

PrepareNow(c) ==
  /\ task[c].pc = "prepare"
  /\ Prepare(c, task[c].load.msg, todo)
  /\ UNCHANGED <<air, acks, peer, up>>

\* The "send" request.
SendNow(c, m) ==
  /\ task[c] = Idle
  /\ StartTransmit(c, m, "manual", todo)
  /\ UNCHANGED <<air, acks, peer, up>>

\* delete_message: the row and everything that depends on it.
Delete(m) ==
  /\ mail[m].state \in Terminal \cup {"acknowledged"}
  /\ mail' = [mail EXCEPT ![m] = [NewRow EXCEPT !.state = "gone", !.era = mail[m].era,
                                                !.lapsed = mail[m].lapsed]]
  /\ tx' = [t \in TxIds |-> IF t \in TxsOf(m) THEN NoTx ELSE tx[t]]
  /\ UNCHANGED <<todo, task, active, air, acks, peer, up>>

\* expires_at_ms, and next_attempt_at_ms, are in the past from now on.
Lapse(m) ==
  /\ m \in Expiring
  /\ mail[m].state \notin {"none", "gone"} /\ ~mail[m].lapsed
  /\ mail' = [mail EXCEPT ![m].lapsed = TRUE]
  /\ UNCHANGED <<tx, todo, task, active, air, acks, peer, up>>

\* The deferral has run out, or an answer to a probe was received (the
\* SNR/YES branch of handle() calls wake_message_for_route).
FallDue(m) ==
  /\ mail[m].state \in Open /\ ~mail[m].due
  /\ mail' = [mail EXCEPT ![m].due = TRUE]
  /\ UNCHANGED <<tx, todo, task, active, air, acks, peer, up>>

-----------------------------------------------------------------------------
(* JS8Call's transmit train and the link to it. *)

\* A text of somebody else's: a protocol reply, the operator at the JS8Call
\* window.
ForeignText ==
  /\ air.phase = "idle" /\ up
  /\ air' = [phase |-> "queued", load |-> Foreign]
  /\ UNCHANGED <<mail, tx, todo, task, active, acks, peer, up>>

\* RIG.PTT on: whatever keyed the radio, the active transaction is marked.
PttOn ==
  /\ air.phase = "queued"
  /\ air' = [air EXCEPT !.phase = "keyed"]
  /\ tx' = IF active = Nil THEN tx ELSE TxWith(active, Activated(tx[active]))
  /\ UNCHANGED <<mail, todo, task, active, acks, peer, up>>

\* What the destination, or the custodian, does with a frame it decodes: it
\* keeps the part, JS8Call answers with an ACK, and a multipart peer answers
\* with the parts it has so far (PA, or DELIVERED once it has them all).
Receive(load) ==
  LET m == load.msg
      had == IF load.part = 0 THEN Parts ELSE {load.part}
  IN  CASE load.op \in {"direct", "multipart", "relay"} ->
             /\ peer' = [peer EXCEPT ![m].got = @ \cup had,
                                     ![m].echo = IF load.part = 0 THEN @
                                                 ELSE @ \cup {peer[m].got \cup had}]
             /\ acks' = [acks EXCEPT ![load.peer] = "new"]
        [] load.op = "store" ->
             /\ peer' = [peer EXCEPT ![m].kept[load.peer] = @ \cup had]
             /\ acks' = [acks EXCEPT ![load.peer] = "new"]
        [] OTHER -> UNCHANGED <<peer, acks>>

\* The text has been on the air; nobody, or the one it is for, decoded it.
OnAir(load, heard) ==
  /\ IF heard THEN Receive(load) ELSE UNCHANGED <<peer, acks>>
  /\ tx' = IF load.op = "group_broadcast" /\ tx[load.id].msg = load.msg
           THEN [tx EXCEPT ![load.id].aired = TRUE] ELSE tx

\* The last PTT-off of the train.
PttOff(heard) ==
  /\ air.phase = "keyed"
  /\ air' = [phase |-> "quiet", load |-> Foreign]
  /\ OnAir(air.load, heard)
  /\ UNCHANGED <<mail, todo, task, active, up>>

\* Mutant: active_transaction_id is not reset.
CompleteRfTrainActive ==
  LET m == tx[active].msg
  IN  /\ air.phase = "quiet"
      /\ air' = Quiet
      /\ active' = active
      /\ IF active = Nil THEN UNCHANGED <<mail, tx>>
         ELSE IF tx[active].op = "group_broadcast"
         THEN /\ tx' = TxWith(active, BroadcastDone(tx[active]))
              /\ mail' = IF mail[m].state = "in_progress"
                         THEN [mail EXCEPT ![m].state = "delivered"] ELSE mail
         ELSE tx' = TxWith(active, Finished(tx[active])) /\ mail' = mail
      /\ UNCHANGED <<todo, task, acks, peer, up>>

\* complete_rf_train, after the quiet period: the active transaction is
\* finished; a broadcast is complete.
CompleteRfTrain ==
  LET m == tx[active].msg
  IN  /\ air.phase = "quiet"
      /\ air' = Quiet
      /\ active' = Nil
      /\ IF active = Nil THEN UNCHANGED <<mail, tx>>
         ELSE IF tx[active].op = "group_broadcast"
         THEN /\ tx' = TxWith(active, BroadcastDone(tx[active]))
              /\ mail' = IF mail[m].state = "in_progress"
                         THEN [mail EXCEPT ![m].state = "delivered"] ELSE mail
         ELSE tx' = TxWith(active, Finished(tx[active])) /\ mail' = mail
      /\ UNCHANGED <<todo, task, acks, peer, up>>

\* JS8Call drops the text it was given before it keys the radio.
DropText ==
  /\ air.phase = "queued"
  /\ air' = Quiet
  /\ UNCHANGED <<mail, tx, todo, task, active, acks, peer, up>>

\* The rest of a train nobody watches: it is heard, or it is not.
Unwatched(heard) ==
  /\ air' = Quiet
  /\ IF air.phase \in {"queued", "keyed"} /\ heard
     THEN OnAir(air.load, TRUE)
     ELSE UNCHANGED <<tx, acks, peer, up>>

\* The finally block of the connection: the train is forgotten.  Where the link
\* goes between the loop's look at it and the sweep that follows, it is as if it
\* went right after.
LinkLost(heard) ==
  /\ up /\ up' = FALSE
  /\ Unwatched(heard)
  /\ active' = Nil
  /\ UNCHANGED <<mail, todo, task>>

LinkUp ==
  /\ ~up /\ up' = TRUE
  /\ UNCHANGED <<mail, tx, todo, task, active, air, acks, peer>>

\* The daemon stops and is started again on the same database.
Crash(heard) ==
  /\ Unwatched(heard)
  /\ active' = Nil
  /\ todo' = {}
  /\ task' = [c \in Tasks |-> Idle]
  /\ mail' = mail
  /\ up' = FALSE

-----------------------------------------------------------------------------
(* What the other stations send back. *)

\* A custodian hands over what it has of a message; a JS8Mail destination sends
\* a receipt.
CustodianForwards(m, k) ==
  /\ peer[m].kept[k] # {}
  /\ peer' = [peer EXCEPT ![m].got = @ \cup peer[m].kept[k],
                          ![m].echo = @ \cup {peer[m].got \cup peer[m].kept[k]}]
  /\ UNCHANGED <<mail, tx, todo, task, active, air, acks, up>>

\* pending_transmission_for_ack, no further back than row "oldest" (created
\* within the last fifteen minutes).
PendingForAck(s, oldest) ==
  {t \in TxIds : /\ t >= oldest /\ tx[t].peer = s /\ tx[t].submitted
                 /\ IsLive(tx[t]) \/ tx[t].status = "timed_out"}

\* _recent_outbound_transaction: the live one, or none if there are several,
\* or else the newest that timed out.
MatchesAck(s, oldest, t) ==
  LET pending == PendingForAck(s, oldest)
      live == {u \in pending : IsLive(tx[u])}
  IN  \/ live = {t}
      \/ live = {} /\ t \in pending /\ \A u \in pending : u <= t

\* An ACK of a store transaction is custody, any other one is the
\* destination's own; it delivers a message unless parts of it were sent.
\* A second decode of one ACK is not counted again.
\* Mutant: every ACK is taken for the destination's own.
AckedRowAnyStation(row, t, counted) ==
  LET told == [row EXCEPT !.acks = IF counted /\ @ < AckLimit THEN @ + 1 ELSE @]
  IN  IF row.state \in Terminal \/ row.enh THEN told ELSE Moved(told, "delivered")

\* Mutant: the ACK of a part delivers the whole message.
AckedRowAnyPart(row, t, counted) ==
  LET told == [row EXCEPT !.acks = IF counted /\ @ < AckLimit THEN @ + 1 ELSE @]
  IN  IF row.state \in Terminal THEN told ELSE Moved(told, "delivered")

AckedRow(row, t, counted) ==
  IF tx[t].op = "store"
  THEN LET k == tx[t].peer
       IN  IF row.state \in Terminal
           THEN [row EXCEPT !.custody[k] = "accepted"]
           ELSE Moved([row EXCEPT !.custody[k] = "accepted"], "stored")
  ELSE LET told == [row EXCEPT !.acks = IF counted /\ @ < AckLimit THEN @ + 1 ELSE @]
       IN  IF row.state \in Terminal \/ row.enh THEN told ELSE Moved(told, "delivered")

ReceiveAck(s, oldest, again) ==
  LET counted(m) == acks[s] = "new" \/ mail[m].acks = 0
  IN  /\ acks[s] # "none" /\ up /\ (again => s \in Twice)
      /\ acks' = [acks EXCEPT ![s] = IF again /\ @ = "new" THEN "dup" ELSE "none"]
      /\ IF \E t \in TxIds : MatchesAck(s, oldest, t)
         THEN \E t \in TxIds :
                /\ MatchesAck(s, oldest, t)
                /\ tx' = TxWith(t, Acknowledged(tx[t]))
                /\ mail' = [mail EXCEPT ![tx[t].msg] =
                              AckedRow(@, t, counted(tx[t].msg))]
         ELSE UNCHANGED <<mail, tx>>
      /\ UNCHANGED <<todo, task, active, air, peer, up>>

\* A cumulative PA: reconcile_part_receipt.
ReceivePartReceipt(m, received) ==
  LET row == mail[m]
      changed == ~(received \subseteq row.confirmed)
      merged == [row EXCEPT !.confirmed = @ \cup received]
      last == CHOOSE t \in TxsOf(m) : \A u \in TxsOf(m) : u <= t
  IN  /\ up /\ received \in peer[m].echo /\ received # Parts
      /\ row.state \notin {"none", "gone"}
      /\ IF changed /\ row.state \in {"in_progress", "waiting_route"}
         THEN /\ mail' = [mail EXCEPT ![m] =
                            Woken([merged EXCEPT !.state = "waiting_route"])]
              /\ tx' = IF TxsOf(m) # {} /\ IsLive(tx[last])
                       THEN TxWith(last, Acknowledged(tx[last])) ELSE tx
         ELSE mail' = [mail EXCEPT ![m] = merged] /\ tx' = tx
      /\ UNCHANGED <<todo, task, active, air, acks, peer, up>>

\* DELIVERED, from the destination or along a path through custodians that
\* accepted the message.  The attempt is recorded whatever the state; the
\* transition of a held message raises.
ReceiveDelivered(m, through) ==
  LET row == mail[m]
      told == [row EXCEPT !.receipted = TRUE,
                          !.custody = [k \in Custodians |->
                             IF k \in through THEN "forwarded" ELSE @[k]]]
  IN  /\ up /\ Parts \in peer[m].echo
      /\ row.state \notin {"none", "gone"}
      /\ through \subseteq {k \in Custodians : /\ k # Dest[m]
                              /\ row.custody[k] \in {"accepted", "forwarded"}}
      /\ mail' = [mail EXCEPT ![m] =
                    IF row.state \in {"failed", "expired", "cancelled"} THEN told
                    ELSE Moved(told, "delivered")]
      /\ UNCHANGED <<tx, todo, task, active, air, acks, peer, up>>

-----------------------------------------------------------------------------

LoopStep ==
  \/ \E X \in SUBSET TxIds : Sweep(X)
  \/ \E e \in todo : \/ SkipRemoved(e) \/ BroadcastToGroup(e) \/ ExpireMessage(e)
                     \/ PrepareQueued(e) \/ HoldMessage(e) \/ HoldCutShort(e)
                     \/ AwaitResponse(e) \/ ReturnToDiscovery(e) \/ Discover(e)

TaskStep(c) ==
  \/ EnterSendRf(c) \/ HandoffPart(c) \/ Handoff(c)
  \/ \E b \in BOOLEAN : FailSend(c, b) \/ AskDone(c, b)

Operator ==
  \/ \E m \in Msgs : Compose(m) \/ Cancel(m) \/ Retry(m) \/ Delete(m)
  \/ \E c \in UiTasks : \/ PrepareNow(c)
                        \/ \E m \in Msgs : RetryNow(c, m) \/ SendNow(c, m)

Clock == \E m \in Msgs : Lapse(m) \/ FallDue(m)

Radio ==
  \/ ForeignText \/ PttOn \/ CompleteRfTrain \/ DropText \/ LinkUp
  \/ \E heard \in BOOLEAN : PttOff(heard) \/ LinkLost(heard) \/ Crash(heard)

Replies ==
  \/ \E m \in Msgs, k \in Custodians : CustodianForwards(m, k)
  \/ \E s \in Stations, oldest \in {1} \cup OldRows, again \in BOOLEAN : ReceiveAck(s, oldest, again)
  \/ \E m \in Msgs : \/ \E received \in peer[m].echo : ReceivePartReceipt(m, received)
                     \/ \E through \in SUBSET Custodians : ReceiveDelivered(m, through)

Next ==
  \/ LoopStep \/ (\E c \in Tasks : TaskStep(c))
  \/ Operator \/ Clock \/ Radio \/ Replies

Spec == Init /\ [][Next]_vars

-----------------------------------------------------------------------------
(* What the loop and the radio get round to.  send_rf is bounded: ten       *)
(* minutes for a train, three for PTT, then pacing, and it raises.  The     *)
(* loop looks every five seconds, and sweeps when it finds the link up: no  *)
(* link is promised, and the properties are about one that comes up again   *)
(* and again, for long enough that a look falls into it.  A deadline passes *)
(* and neither restarts nor fresh evidence about one destination go on for  *)
(* ever.                                                                    *)

\* The row of m is taken to discovery, and not left as it is.
DiscoverOn(m) ==
  \E e \in todo : /\ e.msg = m
                  /\ Discover(e)
                  /\ task' # task \/ mail'[m].state = "waiting_route"

Handle(m) ==
  \E e \in todo : /\ e.msg = m
                  /\ \/ SkipRemoved(e) \/ BroadcastToGroup(e) \/ ExpireMessage(e)
                     \/ PrepareQueued(e) \/ HoldMessage(e) \/ HoldCutShort(e)
                     \/ AwaitResponse(e) \/ ReturnToDiscovery(e) \/ Discover(e)

Fairness ==
  /\ \A c \in Tasks : WF_vars(TaskStep(c))
  /\ SF_vars(\E X \in SUBSET TxIds : Sweep(X))
  /\ \A t \in TxIds : SF_vars(\E X \in SUBSET TxIds : t \in X /\ Sweep(X))
  /\ \A m \in Msgs : SF_vars(Handle(m)) /\ SF_vars(DiscoverOn(m))

FairSpec == Spec /\ Fairness

-----------------------------------------------------------------------------
(* Safety. *)

\* A message held after repeated ACKs owns no live transaction, unless the hold
\* was cut short between its two commits: hold_after_js8call_ack closes them, a
\* transmission that was waiting for the slot closes its own, and nothing opens
\* one again.  The sweep of the loop would try to defer a held message, raise,
\* and give the pass up before its snapshot.
HeldQuiescent ==
  \A m \in Msgs : mail[m].state = "acknowledged" /\ ~mail[m].cut => LiveTxs(m) = {}

\* "A new message or a discovery tick must never fill a receive window
\* belonging to this transaction" (app.py, the in_progress branch): a message
\* the operator has not requeued has at most one live transaction.
OneLive ==
  \A m \in Msgs : mail[m].era = 0 => \A t, u \in LiveTxs(m) : t = u

\* No live transaction can fall between the two conditions under which the
\* sweeps close it: whichever order submission, PTT, the end of the train, a
\* lost link or a restart came in, its finish time is only ever set on a row
\* that waits for its ACK.
DeadlineCovers ==
  \A t \in TxIds : IsLive(tx[t]) => Expirable(tx[t]) \/ ExpirableBroadcast(tx[t])

\* The stations that answer about a message, and the messages that share none
\* of theirs with another message, nor use one both ways: an ACK names no message.
Partners(m) == ({Dest[m]} \cap Stations) \cup Keepers[m]
Sole == {m \in Msgs : /\ Dest[m] \notin Keepers[m]
                     /\ \A n \in Msgs \ {m} : Partners(m) \cap Partners(n) = {}}

\* The custodian has what its ACK is taken for: the message, or, where it was
\* offered in parts, one of them at least (an ACK names no part).
Took(station, k) ==
  IF k \in Splitting THEN station.kept[k] # {} ELSE station.kept[k] = Parts

\* Delivered and stored mean what they say (USER_GUIDE, "What a status
\* proves"): the destination has the whole message, or a custodian took the
\* offer.  The rows the daemon goes on from mean what they say as well: parts
\* that are confirmed, and so not sent again, are there, a receipt on record is
\* for the whole message, and a custodian that accepted took the offer.
EvidenceSound ==
  \A m \in Sole \ Broadcast :
    /\ mail[m].state = "delivered" => peer[m].got = Parts
    /\ mail[m].state = "stored" => \E k \in Custodians : Took(peer[m], k)
    /\ mail[m].confirmed \subseteq peer[m].got
    /\ mail[m].receipted => peer[m].got = Parts
    /\ \A k \in Custodians : mail[m].custody[k] \in {"accepted", "forwarded"} => Took(peer[m], k)

\* Expiry prevents new RF work: the loop makes no transaction for a message
\* whose three days are over, whatever its snapshot, the requests and the clock
\* did.  (The send and retry-now requests look at no expiry; and the loop
\* handles the broadcasts before it looks.)
NoWorkAfterExpiry ==
  [][\A t \in TxIds :
       /\ tx[t].status = "none" /\ tx'[t].status = "queued"
       /\ task'[Daemon] # task[Daemon]
       => tx'[t].msg \in Broadcast \/ ~mail[tx'[t].msg].lapsed]_vars

\* An attempt that was closed is never opened again: not by a handoff that comes
\* after the message was held, a PTT or an end of train after the deadline, a
\* second ACK or a restart.  Its row may be removed with its message.
ClosedForGood ==
  [][\A t \in TxIds : tx[t].status # "none" /\ ~IsLive(tx[t]) => ~IsLive(tx'[t])]_vars

\* "Terminal message states are monotonic except an explicit operator-created
\* retry" (docs/IMPLEMENTATION_PLAN.md:375), and but for stored -> delivered and
\* the removal: whatever is written after an await, by a sweep, or by evidence
\* that comes late.
SettledForGood ==
  [][\A m \in Msgs :
       mail[m].state \in Terminal =>
         \/ mail'[m].state \in {mail[m].state, "gone"}
         \/ mail[m].state = "stored" /\ mail'[m].state = "delivered"
         \/ mail[m].state \in {"failed", "cancelled"} /\ mail'[m].state = "queued"
            /\ mail'[m].era = mail[m].era + 1]_vars

\* A broadcast is reported complete after its own RF (the comment of
\* complete_broadcast_transmission: "sent after RF completion").
BroadcastSound ==
  \A m \in Broadcast : mail[m].state = "delivered" => \E t \in TxsOf(m) : tx[t].aired

-----------------------------------------------------------------------------
(* What the operator is promised (MailPromise). *)

StatusShown(state) ==
  CASE state = "none"         -> "absent"
    [] state = "gone"         -> "removed"
    [] state = "acknowledged" -> "held"
    [] state = "delivered"    -> "complete"
    [] state \in {"stored", "failed", "expired", "cancelled"} -> state
    [] OTHER                  -> "open"

Promise == INSTANCE MailPromise WITH
             Msgs    <- Sole,
             status  <- [m \in Sole |-> StatusShown(mail[m].state)],
             arrived <- {m \in Sole : peer[m].got = Parts},
             kept    <- {m \in Sole : \E k \in Custodians : Took(peer[m], k)},
             asked   <- [m \in Sole |-> mail[m].era]

\* The daemon keeps its promise of every message that shares no station with
\* another one: every step of the loop, the requests, the link and the radio
\* moves its status as MailPromise allows, or not at all.
PromiseKept == Promise!Spec

-----------------------------------------------------------------------------
(* Liveness, under FairSpec. *)

\* A transmission is not waited for without end, if the link comes up again and
\* again: neither a lost PTT event, link or ACK nor a restart leaves a message in
\* progress for good.
ProgressEnds ==
  []<>up =>
    \A m \in Msgs : mail[m].state = "in_progress" ~> mail[m].state # "in_progress"

\* A live attempt is closed at last, if the link comes up again and again: also
\* that of a hold that was cut short, on which a sweep raises, and that of a
\* message that was cancelled or sent in an earlier life of the daemon.
AttemptsEnd == []<>up => \A t \in TxIds : IsLive(tx[t]) ~> ~IsLive(tx[t])

\* A message whose three days are over leaves the loop's work, if the link comes
\* up again and again.
ExpiredLeaves ==
  []<>up => \A m \in Msgs : mail[m].lapsed ~> mail[m].state \notin Open

=============================================================================
