# JS8Mail in TLA+

JS8Mail is a daemon that puts store-and-forward mail on top of JS8Call, a
keyboard mode of amateur radio.  It writes every message to an SQLite database,
decides when, over which path and to whom to transmit, hands texts to JS8Call
over a socket, and learns what became of them from PTT events, from JS8Call's
own ACKs, which name no message, and from receipts of other JS8Mail stations.
Everything may be late, doubled or lost, transmissions take minutes, and the
operator works on the same messages over HTTP meanwhile.

This directory holds a model of the part of the daemon where that is hard, the
model-checking runs, and theorems proved with TLAPS.  Line numbers are those of
the sources below `src/js8mail` at this commit.

## 1. Inventory

| component (source) | state | operations | talks to | what makes it correct |
|---|---|---|---|---|
| Message lifecycle (`application/lifecycle.py`) | `MessageState` of each message | `can_transition` | store, service | terminal states are monotonic unless the operator asks; only evidence completes a message |
| Message store (`storage.py`) | tables `messages`, `message_attempts`, `message_parts`, `outgoing_part_progress`, `custody`, inbox, groups, topology | enqueue, transition, defer, wake, hold, delete, records of attempts and parts | everything; one SQLite connection per thread: the event loop's, and one per HTTP request | a held message has no live transaction; nothing is deferred out of a settled state; no row of a table that references messages outlives its message; the write lock comes back |
| Transmission transactions (`storage.py`, `transmission_transactions`) | one row per attempt: status, submitted, finished, deadlines | begin, mark submitted / active, finish, acknowledge, unconfirmed, expire, complete broadcast | transmit, RF train, ACK matching, sweeps | a message has at most one live attempt; every live attempt ends |
| Discovery loop (`tools/app.py`, `discovery_loop`) | the snapshot of `list_messages()` it works through | sweeps, expiry, group turn, prepare, hold, wait, discovery, custody offer, queries | transmit, store, RF slot | expiry stops work; a waiting message is always taken up again |
| `transmit`, `transmit_store`, `prepare`, first-hop probe (`tools/app.py`, `Handler`) | locals of a coroutine across its awaits; `active_transaction_id` | begin an attempt, wait for the slot, hand over, fail | store, RF slot, JS8Call | what is written after an await must still be true |
| Operator requests (`Handler.do_POST`, `application/service.py`) | – | compose, cancel, retry, retry-now, send, delete; groups, settings, inbox | store; `prepare` and `transmit` on the event loop | work beside the loop on the same message |
| RF slot (`Handler.send_rf`, `radio_policy.py`, `Js8CallClient.send_message`) | two locks, pacing clocks, airtime budgets | wait for the train, the receive window and the pacing; spend; hand over | JS8Call, budgets | one handoff at a time, budgets never exceeded |
| RF train (`rf_timing.py`, PTT branch of `handle`, `complete_rf_train`) | `TxTrain`, `tx_train_pending`, `active_transaction_id` | PTT on / off, quiet period, completion, loss of the link | transactions | the end of a train is credited to the right attempt |
| Receipts and ACKs (`handle`, `reconcile_part_receipt`, `_recent_outbound_transaction`) | – | match an ACK, a cumulative part receipt, an end-to-end receipt | store, transactions | evidence is credited to the message it is about |
| Receiving parts (`protocol.py`, `handle`, `upsert_inbox_message`) | `MultipartAccumulator` of each message, rows of parts and of the inbox | restore, accept a part, store, answer | protocol replies | a confirmed part is never forgotten; the mailbox never falls back |
| Protocol replies (`queue_protocol_reply`, the pump of `discovery_loop`) | `pending_protocol_replies`, in memory | replace, list, send, put back | RF slot | receipts are true, and a sender that persists gets one |
| Activity fragments (`reassembly.py`, `handle`, `find_partial_inbox`) | the open streams, in memory and per connection; partial items | open, join, doubt, expire; find the item of a text, show, complete | inbox | nothing is completed with a fragment of another message; what was heard whole arrives |
| Retrieval of stored messages (`queue_message_retrieval`, `service_pending_retrievals`, `restore_pending_retrievals`) | `pending_retrievals`, `completed_retrievals`, `retrieval_in_flight`, audit events | announce, ask, time out, answer, give up, restore | RF slot, `handle`, inbox | an announced message survives restarts, few queries, one window per custodian |
| Routing, custody choice, query scheduler, confidence, speed policy | tables of observations | pure choices | discovery loop | loops, cooldowns, limits |
| JS8Call client, wire formats, route hints, launchers | sockets, text | I/O, parsing | – | – |

### The behaviours that are hard

* **Awaits.** `send_rf` waits for up to ten minutes for a train, three for PTT and
  then for pacing.  In that time the operator, an ACK or a receipt may settle,
  hold, delete or requeue the message, and the coroutine writes afterwards.
* **A snapshot.** The loop goes through the rows of `list_messages()` as they were
  at the beginning of a pass that may last an hour.
* **Two actors.** HTTP requests run `prepare` and `transmit` on the same event loop,
  on an object of their own: `active_transaction_id` names only the loop's attempt.
* **Anonymous evidence.** An ACK names its sender only; PTT events name nobody.
* **Exceptions.** `transition_message` and `defer_message` raise when the table of
  moves refuses; in most branches of the loop that ends the pass, and the
  supervisor starts over.
* **Restarts and lost links** between the transaction row, the handoff, the PTT and
  the ACK.
* **Threads.** HTTP requests write to the database in threads of their own; a method
  that reads in one statement and writes in the next can be overtaken between them,
  and one that raises before its commit keeps the write lock.
* **Frames without names.** What JS8Call shows frame by frame carries no sender after
  the first frame and no number; an answer to a query for a stored message does not
  say which one it is.

Every hazard of this code, with its line and the properties about it, is in
`PROJECT.json`.

## 2. Modules

| module | what it models |
|---|---|
| `Lifecycle` | `MessageState`, the table of `can_transition`, and the guard of `defer_message` |
| `Ledger` | each `UPDATE` of `transmission_transactions` as an operator on one row |
| `Outbox` | the life of outgoing messages in the daemon: operator, loop, transmissions, train, link, restarts, receipts |
| `MailPromise` | the abstract specification: what the status shown to the operator promises |
| `MCOutbox` | values of the constants for TLC: every message to a station of its own |
| `RfSlot` | `send_rf`: the locks, the waits, the budgets, the handoff, and the PTT and TX events that end a train |
| `Slot` | the abstract specification of `send_rf`: what its caller may rely on |
| `MCRfSlot` | values for TLC: which coroutine sends what, under which lock |
| `Inbox` | a message in parts at its recipient: rows, accumulator, mailbox item, replies, and what the sender learns |
| `Recipient` | the abstract specification of a recipient |
| `MCInbox` | values for TLC |
| `Retrieval` | collecting the mail that other stations hold: queue, windows, attempts, handlers, restart |
| `Store` | the database under its threads: statements, transactions, the write lock, connections |
| `Activity` | messages shown frame by frame: the assembler's streams and the partial items of the inbox |
| `MCRetrieval`, `MCStore`, `MCActivity` | values for TLC |
| `Outbox_proofs`, `Promise_proofs`, `OneLive_proofs`, `RfSlot_proofs`, `Inbox_proofs`, `Retrieval_proofs`, `Store_proofs`, `Activity_proofs` | theorems about these modules, proved for all values of their constants |

`Outbox` uses what the others model in an abstract form: `send_rf` is one step
that hands over or refuses (which `RfSlot` implements, as `Slot`), another station takes parts and sends true
receipts (`Inbox`), and a call of the store is one step (`Store` says when it is
not).  `Retrieval` takes `send_rf` as a line in which everybody waits, and `Store` takes
its moves from `Lifecycle`.

### 2.1 Outbox: the state

* `mail[m]`: a row of `messages`, with what the other tables say of the message:
  `state`; `due` (`next_attempt_at_ms` has passed) and `lapsed` (`expires_at_ms`
  has); `retries` (`retry_count`, up to the value it is compared with); `acks`,
  `direct`, `receipted` (from `message_attempts`), `enh` (it has rows in
  `message_parts`), `confirmed` (`outgoing_part_progress`), `custody`
  (`custody`); and `era`, the number of requeues by the operator, and `cut`, that its
  last hold got no further than its first commit, which are history.  `"none"` is a message not composed yet, `"gone"` one removed.
* `tx[t]`: a row of `transmission_transactions`; ids are reused as SQLite does
  without `AUTOINCREMENT`.  `era` and `aired` are history.
* `todo`: what is left of the snapshot, with the two fields the code reads from it.
* `task[c]`: the await a coroutine is in, for the loop (`Daemon`) and for each HTTP
  request that may transmit.  The loop is one coroutine: it waits while `task[Daemon]`
  is not `Idle`.
* `active`: `controller.active_transaction_id`.
* `air`: what JS8Call holds (`queued`), transmits (`keyed`) or has just transmitted
  (`quiet`: the fifteen seconds before `complete_rf_train`).
* `acks`, `peer`: the other stations: ACKs on their way, the parts a destination has,
  the parts each custodian has, the receipts sent.
* `up`: whether the daemon is connected to JS8Call.

`Keepers` are the custodians a message may be offered to, `Splitting` those that may
be known to take a message in parts.

### 2.2 Outbox: the actions

A step is what the program does between two awaits.

| action | code |
|---|---|
| `Sweep` | the look at the link, the two `expire_...` calls and the new snapshot, app.py 2694–2843; a held message with a live row makes it raise |
| `BroadcastToGroup`, `ExpireMessage`, `PrepareQueued`, `HoldMessage`, `HoldCutShort`, `AwaitResponse`, `ReturnToDiscovery`, `Discover`, `SkipRemoved` | the branches of one row of the pass, in the order of the code, 2844–3523 |
| `StartTransmit`, `RefuseTransmit` | `transmit` up to its first await, 963–1250 |
| `EnterSendRf`, `HandoffPart`, `Handoff`, `FailSend` | `transmit` and `transmit_store` between `_maybe_adapt_speed`, `send_rf` and its end, and the handling of its exceptions in each caller |
| `TransmitStore` | `transmit_store` up to its first await, 1345–1476; the offer is one text, or one for each part, handed over in turn by `HandoffPart` with a look at the state before each, 1477–1495 |
| `HoldMessage`, `HoldCutShort` | `hold_after_js8call_ack` (storage.py 1082–1095) with both of its commits, or with the first one only: the database stays locked, or the process stops |
| `Prepare`, `AskDone` | `prepare`, the first-hop probe and the queries before and after their `send_rf` |
| `Compose`, `Cancel`, `Retry`, `RetryNow` + `PrepareNow`, `SendNow`, `Delete` | the HTTP requests and `MailService` |
| `Lapse`, `FallDue` | deadlines that pass |
| `PttOn`, `PttOff`, `CompleteRfTrain`, `LinkLost`, `LinkUp`, `Crash` | the event reader, `complete_rf_train`, the `finally` block of the connection, a reconnect, a restart on the same database |
| `ForeignText`, `DropText` | JS8Call transmits other texts too, and may drop one |
| `ReceiveAck`, `ReceivePartReceipt`, `ReceiveDelivered` | `handle()` |
| `CustodianForwards`, `Receive`, `OnAir` | external: the other stations |

An exception that leaves the loop body empties `todo`: the supervisor
(3525–3537) starts the loop again and the pass begins with a new sweep.

### 2.3 MailPromise

`MailPromise` says what the states of a message promise, without attempts,
routes, receipts or time: complete means that the destination has every part,
stored that a custodian took the offer of it; nothing leaves a settled state but the operator's
requeue, a removal, or stored → complete; only open messages are held, expired,
failed or cancelled.  `Outbox!PromiseKept` is that specification under the mapping
`status ← StatusShown(state)`, `arrived ← peer.got`, `kept ← Took`, `asked ← era`, over
`Sole`, the messages that share no station with another one; it is checked as a property
of three runs.  `Took` is what an ACK of a store offer can mean: the custodian has the
message, or, if it may be offered in parts, one of them at least (section 6).

### 2.4 RfSlot

State: `pc[s]`, the await of each coroutine; `line[l]`, the waiters of each
`tx_lock`, the head holding it; `status`, the shared status dictionary
(`radio_activity`, `tx_train_pending`, `tx_message_id`, `tx_reserved_ms`, the two
receive guards, the pause); `train`, the `TxTrain` with its settle task; `gap`, the
controller's `next_tx_not_before`; `budget` and `stored`, the airtime accounts in
memory and in the database; `js`, JS8Call with the link and the events on their way.
`handed` and `recent` are history.

| action | code |
|---|---|
| `Call`, `Enter`, `WakeTrain`, `GiveUpTrain`, `WakeTx`, `GiveUpTx`, `WakePacing` | `send_rf` and `_send_rf_serialized` up to the reservation, app.py 1705–1762 |
| `Reserve`, `Spend`, `Refuse` | the second look at the slot and the budgets, 1755–1846 |
| `SeeNoText`, `SeeText`, `SeeBusy`, `Hand` | `Js8CallClient.send_message` and what follows it, 1846–1860 |
| `PttOn`, `PttOff`, `TxFrame` (in `Hear`), `RxBegins` | the event reader, 3566–3795 |
| `CompleteRfTrain` | `settle_rf_train`, `complete_rf_train` |
| `WindowPasses`, `GapEnds`, `RxEnds`, `PauseResume` | deadlines and the operator |
| `LinkLost`, `LinkUp`, `Crash` | the connection's `finally`, a reconnect, `run` on the old database |
| `KeyOn`, `KeyOff`, `StrayFrame` | external: JS8Call |

`Slot` says what remains of all this for a caller: a call is answered at most once, with a
grant or a refusal; a granted text is the only one of its lock in JS8Call; and the
coroutines of a lock are granted no more than a message's lifetime limit, counted since
the last start if another lock sends for the message too.  `RfSlot!SlotKept` is that specification under
`asking ← {s : pc[s] # "idle"}`, `text ← js.text` and `handed`; it is checked and proved.
That every call is answered is liveness: `EverySendEnds`.

### 2.5 Inbox and Recipient

State: `stored[m]`, the rows of `message_parts`, and `item[m]`, the row of
`inbox_messages`; `acc` and `limit`, the accumulator with what it remembers of its
last part receipt; `pending`, the queue of replies, and `batch`, what the loop has
still to send of the list it took; `sender`, what the other end knows; `air`, a lossy,
duplicating, reordering channel.

| action | code |
|---|---|
| `HearPart`, `CrashInHandler` | the part branch of `handle`: restore, accept, two rows, answer; the process may die between the rows |
| `ListReplies`, `Sent`, `NotSent` | the pump of replies, its list and the outcome of each `send_rf` |
| `Rest` | the thirty seconds of `should_ack` |
| `Read`, `Discard` | the requests on the inbox |
| `Transmit`, `HearReceipt`, `ServeRequest` | the sender: next missing part, `merge_outgoing_part_receipt`, an answered REQ |
| `Crash`, `Lose` | a restart; a frame that is never heard |

`Recipient` says what a station promises a sender: a part it has is kept, a receipt
names parts it has, its mailbox shows all of them or, for a moment, what it showed
before.  `Inbox!RecipientKept` is that specification under `got ← stored`,
`shown ← item.parts`, `told ←` the receipts in the air; it is checked and proved.

### 2.6 Retrieval

State: `book`, the three dictionaries of `run` (`pending_retrievals`,
`completed_retrievals`, `retrieval_in_flight`) with `log`, the audit events as far as a
restart reads them: the last event of a key, its attempt, and whether a submission came
after the last announcement.  A pending row and the window of its query share one
deadline in the code, and one flag (`due`) in the model.  `loop` is the pass of
`service_pending_retrievals` with the rows of its snapshot still to come; `calls` are
handlers that wait for their CAP; `line` is who waits for `send_rf`.  `asked` and
`restarts` are history.  `fresh` has the events that the next one may share its millisecond
with, and `startup` whether the log has two events of one type in one millisecond, which
`sorted` in the next start would compare by their payloads.

| action | code |
|---|---|
| `Pass`, `AskSent`, `AskFailed` | `service_pending_retrievals` from one await to the next, app.py 2406–2490: windows that ran out, rows given up, the query and what is written after it |
| `HearAnnouncement` | a YES MSG ID and `queue_message_retrieval`, 3976–4007, 2363–2393 |
| `HearMessage`, `Return` | a directed message, 4100–4306, with the await of `return_capability_for_collected_message`, 2131–2213 |
| `FallDue` | a deadline passes |
| `Restart`, `RestartRaises` | `restore_pending_retrievals`, 2008–2072, on the old audit events; the `TypeError` of 2027, after which no start succeeds for a week |

### 2.7 Store

State: `db`, what is committed (the state of each message, and `rows`, which messages have rows
in the tables that `REFERENCE` them, and `loose`, which have rows in `message_parts` and
`custody`, which reference nothing); `writer` and `work`, the thread with SQLite's one
write lock and what it would commit; `pc`, the call each thread is in, by its next
statement, with the state its `SELECT` found; `over`, the requests whose `finish()` is
due.

| action | code |
|---|---|
| `Start` | `do_POST` of an HTTP thread, app.py 926–958, or a call of the event loop |
| `Read` | the look of `MailService` (service.py 66–115) and the `SELECT` of the method (storage.py 1059–1070, 1780–1789, 1823–1836) |
| `Write` | the first `INSERT`, `UPDATE` or `DELETE` of a transaction; it waits for the lock, and keeps it when the statement, or the check after it, raises |
| `Commit` | `commit()`; `hold_after_js8call_ack`, `defer_message` and `retry_now` have a second transaction |
| `GiveUp` | the thirty seconds of `sqlite3.connect(timeout=30)` |
| `Close` | `Handler.finish`, `close_thread_connection`: what was not committed is rolled back |
| `Crash` | the process stops and starts |

### 2.8 Activity

State: `sent`, how far each transmission is; `streams`, the open streams of the
assembler, each named for the message that opened it; `showing`, those a doubtful frame
left to be shown once more; `inbox`, the rows of `inbox_messages`, whose id is a hash of
sender and text.  `shown`, `strays` and `pure` are history: what came as RX.DIRECTED, what
was under way without a stream, what was heard whole with nothing near it.

| action | code |
|---|---|
| `HearStart`, `OverhearStart` | `ActivityAssembler.feed` on a first frame, reassembly.py 157–229, and the loop of `handle` over what it returns, app.py 3674–3758 |
| `HearNext` with `Join` or `Doubt` | a later frame: no stream, exactly one, or several that match, 228–268 |
| `Ignore` | a later frame that looks like a callsign prefix ("TIME: 12"), which is dropped, 230–231 |
| `ShowAgain` | the same loop, one row at a time |
| `HearDirected` | the whole message in an RX.DIRECTED event, app.py 4100–4221, with the search for a partial item of the sender and then of anybody |
| `Expire`, `Restart` | fifteen minutes; a new connection, which has a new assembler |
| `Miss` | external: a frame that is not heard |

## 3. Runs

All runs: `tlc -workers 2 -config <cfg> <module>`.

| run | bounds | properties | what it shows |
|---|---|---|---|
| `parts` | one two-part message to a multipart peer, two transactions, one requeue, expiry, one ACK to hold | `TypeOK`, `HeldQuiescent`, `OneLive`, `EvidenceSound`, `NoWorkAfterExpiry` | in every order of handoff, PTT, ACK, receipt, hold (in one commit or two), cancel, retry, delete, lost link and restart: types hold, a held message has no live transaction unless its hold was cut short, a message nobody requeued never has two, the loop starts nothing for an expired message, a part that is not sent again is there |
| `custody` | one message with a relay path and a custodian that may be offered it whole or in two parts, two transactions, one retry before custody | `EvidenceSound`, `PromiseKept` | delivered is reported only when all of it is there, stored only when the custodian took the offer; every step implements `MailPromise` |
| `operator` | one message, an HTTP request that transmits beside the loop, one requeue | `DeadlineCovers`, `PromiseKept`, `SettledForGood`, `ClosedForGood` | requests and loop together never move a message against `MailPromise`; a settled message is only taken up again by the operator, a closed attempt never; every live transaction stays selectable by the sweeps |
| `group` | a broadcast and a direct message | `PromiseKept` | two messages that share loop, train and table do not disturb each other |
| `live` | one message to a multipart peer, one ACK to hold, expiry | `ProgressEnds`, `AttemptsEnd`, `ExpiredLeaves` | if the link comes up again and again: no message stays in progress for good, every live transaction is closed, also that of a hold cut short, and an expired message leaves the loop's work |
| `rf_slot` | the loop and an HTTP request that send for one message, each under its own lock and with its own budget of it; window of 1 unit, message of 2; frames ≤ 2, events under way ≤ 2; restarts | `TypeOK`, `LimitsHold`, `SlotKept` | each lock keeps to the limit of the message and both to the window, over restarts; every step of `send_rf` is one of `Slot`, where texts of one lock never stack, or a stutter |
| `rf_live` | a coroutine for a message and one for a reply, one lock; window and message of 1; one frame, events under way ≤ 2; link loss, restart, stray frames | `NoStacking`, `LimitsHold`, `SettleArmed`, `EverySendEnds` | two texts of the lock are never in JS8Call together, the lifetime limit outlasts restarts, a train that went off is always about to be settled, and every caller gets the lock and an answer, whatever JS8Call and the link do |
| `inbox` | one message of three parts, two frames in the air, restarts anywhere | `TypeOK`, `ReceiptsHonest`, `ReadUntilChanged`, `RecipientKept`, `SenderLearns` | no part is confirmed and then forgotten, the mailbox only becomes unread when its content changes, a persistent sender learns of the delivery |
| `retrieval` | two messages at one custodian, two attempts, two handlers at a time, two restarts | `TypeOK`, `AskingBounded`, `GivenUpLate`, `RestartKeepsPending`, `OneWindow`, `RetrievalEnds` | a restart that comes up loses no announced message; an announcement costs at most the allowed queries, one more per restart, and is not given up before they were made; two numbers never share a window; each retrieval is answered or given up, unless the daemon no longer starts |
| `store` | one message, the event loop and two HTTP requests, no bound on steps | `TypeOK`, `NoOrphans`, `SettledStands`, `LockReturned` | no row without its message in the tables with foreign keys; a settled message is only undone by the operator or by a call that was already under way; the write lock comes back |
| `activity` | two messages of one sender with the same first frame and overlapping passbands, one to somebody else near them, two far away, one of them with a frame that looks like a callsign prefix; one to three frames | `TypeOK`, `Unmixed`, `WholeArrives` | a complete item is one message, unless one without a stream was near it; a message heard whole with nothing near it, and no such frame, is complete at its last frame |
| `find_broadcast` | one broadcast and a foreign train | `BroadcastSound` | a disagreement of the code with its documentation, section 6 |

**The bounds.** `MaxTx = 2`: every property relates a message to at most two of its
attempts (the one that ended or timed out and the one after it), and deletion with
reuse of an id needs two.  `NParts = 2` tells the first from the last part; all
parts beyond them are handled alike.  `CustodyRetries` is 3 in the code, 0 or 1 in
the runs, and `AckLimit` 2 in the code, 1 or 2 in the runs: they only delay the branch
they guard.  `Twice` are the stations whose ACK may be decoded a second time.  `MaxEra = 1` gives one requeue, with an old and a new attempt.
`OldRows` are the rows that may have passed the fifteen minutes of ACK matching.
One HTTP request at a time is enough for the interleaving of two coroutines on one
message.  In `RfSlot` one unit of window makes the two coroutines compete for it.  With a limit of two
units for a message under two locks each budget may be the one that is behind the row, and
both together reach three units; with one unit under one lock a text after a
restart shows whether the row was read.  A train of two frames is longer than its
reservation, so the end of the train charges the difference.  In `Inbox` three parts
give a first, a middle and a last one, so a part can be heard out of order and a
bitmap can have a hole; two frames in the air are enough for a stale and a new
receipt, or a part and its copy.  In `Retrieval` two numbers of one custodian compete for
its window, which is what the code serializes; `max_retrieval_attempts` is 4, two of them
give a first and a last; two handlers can wait for two different windows, or for the
complete and the partial answer to one.  In `Store` a call touches one message, so one is
enough; three threads give a writer, one that waits for it and one that reads.  In
`Activity` m1 and m2 may be taken for each other, n1 for m1 only, which is the chain that
"exactly one stream" is about; f1 and f2 show what is done to others.  `live` has messages
of one part: a process that dies before each handoff, again and again, never gets on to
the next part, and no fairness of its own keeps it from dying.  No symmetry is used: the
instances are too small to gain from it.  `CHECK_DEADLOCK FALSE` only in the
configurations of `Outbox` and `Activity`, where everything may be settled, or sent, and all
bounds used up, and of `Retrieval`, where a daemon whose startup raises has stopped.

**Fairness** (`FairSpec`, run `live`).  `WF` for each transmission (`send_rf` is
bounded by its deadlines, so it hands over or raises).  `SF` for the sweep: the loop looks
every five seconds, but does nothing while it is not connected (app.py 2701), so it gets to
a sweep only while the link is up.  The properties are therefore conditional: they promise
their end if the link comes up again and again (`[]<>up`), and `SF` reads that as links which
last for a look of the loop.  With the link down for good nothing is promised, and a message
stays as it is.  `SF` for each row that stays expirable to be swept in
some sweep, and for each message of a snapshot to be handled and sent on in
discovery: deadlines do pass and are not reset, while a pass may be cut short by an
exception about another message or by a restart again and again, but not for ever.
Nothing else is assumed of the link, and nothing of the radio, the other stations or the
operator: they may lose everything.  The other two conditions of app.py 2701, `tx_mode` and
the pause, are left out: the mode is automatic and the daemon is not paused.

`RfSlot!Fairness` is `WF` of each coroutine's next step (asyncio runs what is ready,
and each wait has a deadline), of the end of a sleep, of reading an event and of the
settle task; nothing of JS8Call.  `Inbox!Persistence`: the sender keeps
transmitting, a frame sent again and again is heard at last (`SF`), and the loop lists
and sends its replies again and again (`SF`: a restart, which empties the queue, does
not come before it every time).  Without the assumption about the air nothing could be
promised to a sender.

`Retrieval!Fairness`: `WF` of the pass (the loop runs every five seconds), of the handlers
at the head of the line and of deadlines; `SF` of coming to a due row of each number; and
of infinitely many tries of a query infinitely many are handed over.  The pass also needs the
link (app.py 2701), which `Retrieval` does not have: it is about a daemon that is connected.  The
last is an assumption about JS8Call and the airtime budget: failed handoffs are not counted as
attempts (app.py 2467), so without it a row may be tried for ever.  The `SF` holds because
rows are taken in the order of the dictionary and an open window ends in four minutes.
`Store!Fairness`: each thread's next step; and the event loop, which writes an observation
or an audit event every few seconds, starts such a write again and again (`SF`).  It is
this next write that commits what an `IntegrityError` left behind on the loop's
connection; HTTP connections are closed by `finish()` instead.

## 4. Proofs

`Outbox_proofs` proves for all values of the constants that satisfy
`OutboxAssumption` (which states the roles of the constants only: a custodian is a
station, a broadcast goes to a group, bounds are natural numbers):

* `TypeCorrect == Spec => []TypeOK`.  One lemma per action, on one lemma per helper
  (`Deferred`, `Moved`, `Woken`, the rows of the ledger, `AckedRow`, `Swept`, …).
* `HeldStaysQuiescent == Spec => []HeldQuiescent`, of messages whose hold was not cut
  short between its commits.  Inductive together with
  `TypeOK`: `HoldMoves` says that only `HoldMessage` makes a message
  held in this sense, `Moves` that no step revives a row (`Ebbing`) except a `Start`,
  which puts its message in progress.
* `DeadlineAlwaysCovers == Spec => []DeadlineCovers`.  Not inductive as it stands:
  `Activated` would take a finished row out of `awaiting_ack`.  The strengthening
  is `ActiveUnfinished`: the row the train belongs to has not been finished;
  `complete_rf_train` forgets it in the step that finishes it.
* `ExpiryPreventsWork == Spec => NoWorkAfterExpiry`, with requests that transmit too.
  A step of the loop that begins a transaction has looked at the expiry of the row in the
  same step; the lemma `RequestsOnly` separates the steps of the requests, which look at
  none and leave `task[Daemon]` alone.
* `ClosedStaysClosed == Spec => ClosedForGood`.  By the lemmas on the ledger every
  `UPDATE` leaves a closed row closed (`Ebbing`), and a `Start` takes a row that is none.

`Promise_proofs` needs no further assumption.  `EvidenceSound` and `MailPromise` speak of the
messages in `Sole`: those that share no station with another one, as a destination or as a
custodian.  The others are in the model and do what they like; nothing is promised of
them, since an ACK names no message and the daemon credits it by station (the remark on
app.py 343–368 in section 6).

* `EvidenceIsSound == Spec => []EvidenceSound`.  What the daemon believes goes through
  four places before it is a state of the message, so `Evidence` has a part for each: the
  rows of the ledger and the texts in a coroutine's await or in the train are addressed
  to a station of their message (`RowsAddressed`, `LoadsAddressed`), an ACK on its way
  means that its station took what the attempt carried (`AcksMean`; of an offer in parts, one
  of them: `Took`), and so do the receipts that were sent (`EchoMeans`).  The rows the daemon goes on from (confirmed parts, the
  receipt on record, the custodian's acceptance) get only what the stations have (`Recorded`).
* `PromiseIsKept == Spec => PromiseKept`, the refinement of `MailPromise`.  `MailMoves`
  sorts the daemon's steps by what they do to the messages: no status changes (`Steady`),
  one message takes a turn (`Turn`), or a sweep fails the broadcasts it gives up
  (`GivesUp`); a lemma for each says which step of `MailPromise` it is.  `Evidence`
  gives the steps to stored and delivered their reason.
* `SettledStays == Spec => SettledForGood`, of every message, not only those in `Sole`: which one
  an ACK is credited to does not matter to it, what the table of moves allows does.

`OneLive_proofs` proves `OneLiveTransaction`: if no HTTP request transmits (`UiTasks = {}`),
`Spec => []OneLive`.  `OneTxInv` relates a message that may be started to the
rows it does not have: none that is live while it is ready (`ReadyQuiet`), while it waits
in the snapshot (`SnapshotQuiet`, `SnapshotOnce`) and while a coroutine asks for a route
or the slot (`AwaitQuiet`); the live row is the newest one (`LiveNewest`), so a part receipt,
which settles the newest, settles it.

`RfSlot_proofs`, from `RfSlotAssumption` (limits and bounds are natural numbers, each
coroutine sends for a message or for none), for any number of coroutines and locks:

* `SlotTypeCorrect == Spec => []TypeOK`.
* `TextsNeverStack == Spec => []NoStacking`.  The invariant needs two more parts:
  `LockHeld`, a coroutine past the lock is the head of its line, and `ClearIsClear`, while a coroutine stands between its empty
  `TX.GET_TEXT` and the handoff no coroutine of the same lock has a text in JS8Call.
* `SettleAlwaysArmed == Spec => []SettleArmed`, from `Armed`, the same without
  the condition on the link: losing it forgets the train too.
* `AirtimeLimitsHold == Spec => []LimitsHold`, of the texts that the coroutines of each lock
  hand over: the controller and the handler class count in memories of their own (section
  6).  `OneAccount(m)` says that one lock sends for m; then the count goes on over restarts,
  from the row, else it begins again with the memory.  The invariant adds that the
  memories agree with the row where they should (`AccountsAgree`) and that what a coroutine in its preflight was charged
  is in the account (`Charged`, `WindowCharged`), so a look at the limit is still true at the handoff.
* `SlotIsKept == Spec => SlotKept`, the refinement of `Slot`.  The handoff
  is its only step that needs the invariants: `ClearIsClear` for the text that is alone, `Charged`
  for the message's limit.

`Inbox_proofs`, from `InboxAssumption` (there is at least one part):

* `InboxTypeCorrect == Spec => []TypeOK`.
* `ReceiptsAlwaysHonest == Spec => []ReceiptsHonest`.  Strengthened by `AccStored`, an
  accumulator is empty or equal to the rows (so what is restored is what was stored),
  and `Whole`, a DELIVERED names every part.
* `InboxIsRecipient == Spec => RecipientKept`: every step of `Inbox` is a step of
  `Recipient` or a stutter, with the same invariant.
* `ReadingIsKept == Spec => ReadUntilChanged`: a read item stays read exactly while its parts
  stay the same (`Unspoiled`), for each step, with what the handler restored from the rows.

`Retrieval_proofs`, from `RetrievalAssumption` (at least one attempt):

* `RetrievalTypeCorrect == Spec => []TypeOK`.
* `AskingAlwaysBounded == Spec => []AskingBounded`.  The queries of a number are counted in
  three places: its pending row, the row of the snapshot the loop holds across its await,
  and the audit event a restart starts from.  The strengthening says how each of them
  is related to `asked`, while answers, timeouts and announcements change one without the
  others.
* `GivenUpNotEarly == Spec => []GivenUpLate` needs the other bound as well (`CInv`): no place
  counts more tries than were made since the announcement (`Counted`, `RowsCounted`).  The
  difficult case is the loop's write after its await, with the tries of a row it read before: if the
  number had been announced anew meanwhile, its count would begin again and the old row
  would end it early.  `Sheltered` says that this does not happen, since a number in the
  snapshot stays pending or completed, and neither is announced again.
* `WindowNeverShared == Spec => OneWindow`, from the same invariant: the number of an open
  window has a pending row, and the row the loop asks for is free of windows.
* `RestartLosesNothing == Spec => RestartKeepsPending`, of the restarts that come up, from the agreement of the pending
  rows with the events: a pending number's last event is never an end.

`Store_proofs`, for any number of threads and messages: `StoreTypeCorrect`;
`RowsHaveTheirMessage == Spec => []NoOrphans`, of the tables with foreign keys, with the same of what the holder of the lock
has not committed and the fact that only it can be about to commit; `SettledAlwaysStands ==
Spec => SettledStands`, from an invariant that ties each pending commit to the state its
`SELECT` found and the work it will commit.

`Activity_proofs`, for any number of messages, senders, offsets and lengths:
`ActivityTypeCorrect`; `MessagesNeverMix == Spec => []Unmixed`, where the induction is over
the frames of each stream and of each item: while every message near a stream's opener
that is under way has a stream of its own, a frame that matches exactly one stream is the
opener's; and `HeardWholeArrives == Spec => WholeArrives`, where a pure message's stream
holds exactly the frames sent so far and is not ambiguous (a message of which a frame was
dropped is not pure any more).

Every safety property of a passing run is stated by a theorem.  Model-checked only: liveness
under fairness (out of the prover's reach: `ProgressEnds`,
`AttemptsEnd`, `ExpiredLeaves`, `EverySendEnds`, `SenderLearns`, `RetrievalEnds`, `LockReturned`).

## 5. Abstractions

* Time: a deadline that the code compares with the clock may pass at any moment.
* Choice: which observation, route, custodian or query there is, is not modelled;
  every branch of discovery that is open to the row may be taken.
* Order: rows of a snapshot are handled in any order.
* In `Outbox` a call of the store is one step, also where it has two statements or two
  commits; `Store` has the statements, with the state of a message and whether it has rows
  in other tables as data.  The hold is the exception: it may stop after its first commit.
* In `Retrieval` the answer of a custodian is any directed message of it; failures that
  cancel a query after it was written, the seven days after which a restart forgets, and
  the CAP's limit of one an hour, which decides whether the handler awaits at all, are
  choices.
* In `Activity` time is left out but for late frames and the fifteen minutes; the
  context of a frame is its offset (dial, band and speed exclude more); texts are the
  frames themselves; frames without `TYPE` bits, capability trains, the hint of a gap and
  the removal of items are left out.  Partial items are found by their whole text, where the
  code hashes the first 96 characters.
* Texts are records of what they are about; parsing and wording are left out.
* In `Outbox` automation is never paused, and the capability negotiation of the `required` mode
  (app.py 1043–1088, 1143–1225) is left out: the mode is `opportunistic` or
  `standard`.
* The other stations are external: what they do is taken from how the code reacts.
* Airtime: a text is estimated at one unit and may keep the transmitter on for more
  frames than that.  The ten-minute burst limit of a message may refuse at any moment.
* The receive guards "directed" and "activity" begin and end at any moment.
* A protocol reply is due at any moment after it was queued, and the replies of a list
  are sent in any order.  A message in parts is known by its sender and its MID.
* REQ is answered by this program and never sent by it.

## 6. Where the code and its words differ

`find_broadcast` is a run that TLC must find violated, and a finding in `PROJECT.json`: any
train that ends completes the active broadcast, also one keyed before the broadcast was
handed over.  The sentence it contradicts is in a plan that is not implemented yet
(`docs/AIRTIME_RECONCILIATION_PLAN.md:119`) and lists the defect itself; the run adds a
schedule that reaches it.

Seen while modelling, without a run of its own.  About the outbox:

* `prepare` writes `WAITING_ROUTE` and defers after its probe whatever happened to the
  message during the wait (app.py 1608): a send request that began meanwhile is in
  progress, becomes eligible again, and the message has two live transactions without a
  requeue.  `OneLive` is checked without HTTP requests that transmit for that reason.
* With two messages to one station, a late ACK of the attempt that timed out is credited
  to the other message's live attempt (app.py 343–368); the configurations give each
  message a station of its own.
* A train that ends while the active attempt still waits for its handoff starts
  that attempt's ACK deadline before its text was sent (`complete_rf_train` and
  storage.py 797–806).
* A part receipt acknowledges the message's newest attempt, also when that one has
  not been on the air yet (app.py 479), where `docs/IMPLEMENTATION_PLAN.md:378`
  says that a receipt must not "advance an unrelated attempt".
* The state is looked at before the wait for the slot (app.py 1262), not before the
  handoff: a message cancelled in the wait is still handed over; the plan's
  preflight list (`docs/IMPLEMENTATION_PLAN.md:657-671`) wants "intent is not
  expired/cancelled/superseded" and the volatile checks repeated immediately before.
* After a cancel and a retry, the deadline of the old attempt defers the message
  while the new attempt is live (app.py 2832), and a second live attempt follows.
* The group's turn comes before the look at the expiry (app.py 2849, where
  `docs/IMPLEMENTATION_PLAN.md:379` wants expiry to stop all work); `NoWorkAfterExpiry`
  speaks of direct messages for that reason.
* ACKs of different parts add up to the hold (app.py 2951), and so hold a message that
  makes progress; the end-to-end DELIVERED of a held message is recorded but the
  transition raises (4650).

* A message that is cancelled and removed while its coroutine waits in `send_rf` frees its
  transaction id (storage.py 417, 735, 1852, no `AUTOINCREMENT`).  If the loop or another
  request begins an attempt of another message meanwhile, that attempt may get the id, and the
  coroutine, back from its wait, marks it submitted or unconfirmed (app.py 1283, 1323).  The theorems hold over
  these steps.
* An offer to a custodian known to take parts is several texts under one transaction (app.py
  1426–1441, 1477–1495), and an ACK names no part: when one part is acknowledged and another
  one was never decoded, the message is stored all the same, and what the destination
  collects has a hole.  `docs/USER_GUIDE.md:681` shows this as `Stored · ACK`, and
  `docs/PROTOCOL_V1.md:215-217` says that such an ACK proves only that JS8Call accepted "the
  store operation"; neither speaks of offers in parts.  `EvidenceSound` promises a part for
  such a custodian, and the whole message for any other one.
* The transaction of such an offer is marked submitted after its last text only (app.py 1523,
  storage.py 758–765), and only while it is queued or active.  A train that ends between two of the
  texts has made it `awaiting_ack` before, so `submitted_at_ms` stays empty and no ACK of it
  is ever matched (storage.py 842–854): the custodian has the message, and the daemon offers it
  elsewhere.  The same can happen to any message after a foreign train.
* The hold is two commits (storage.py 1084, 1094).  After a stop, or a database that stays
  locked, between them the message is held with a live transaction; the next sweep that finds it
  expired closes it, then raises on the message (app.py 2832) and takes no snapshot; the
  pass after that is undisturbed.  `HeldQuiescent` excepts such messages (`cut`), `AttemptsEnd`
  says that their transactions are closed in the end.

About the slot:

* A link lost during a transmission leaves `radio_activity` at "TX": neither the `finally`
  block of the connection (4808) nor a reconnect resets it, and so every later send
  waits its three minutes and raises until some PTT event comes, where the comment at
  app.py 1732 says that a stale status "cannot deadlock the daemon forever".  Each send
  does end (`EverySendEnds`).
* A failed preflight keeps the airtime it was charged, in the budgets and in their rows:
  the `except` block takes the reservation off the status only.
* The controller and the handler class have a lock, a pacing clock and message budgets
  each, so a send request of the operator is not in line with the loop's sends
  (`docs/USER_GUIDE.md:530` speaks of one serialized transmit path); `NoStacking` and
  `LimitsHold` are about the coroutines of one lock.
* Each of the two reads the lifetime airtime of a message from its row only while its own budget
  of it is empty (app.py 1797).  Where both send for one message each keeps to the limit, and
  the two together may pass it, up to twice the limit; the row has what was written last.  In
  the bounds of `rf_slot` three units are handed over for a message whose limit is two.
* The limit is compared with estimates, before the handoff.  What a train takes beyond its
  estimate is charged afterwards (`complete_rf_train`), so an account may be past its limit;
  the next text is refused then.
* A coroutine in pacing sleeps until the gap it saw ends, and does not look at a gap
  that a train which completed meanwhile began.
* A pause during the preflight does not stop the handoff.
* A TX.FRAME that no PTT follows leaves `tx_train_pending` set until the next train or
  link loss: senders wait their ten minutes and raise.
* After a lost link `tx_message_id` stays, and the next train that takes longer than its
  reservation is charged to that message.

About the receiving side:

* A repeated part receipt does not renew `_last_receipt_ms` (protocol.py 226–235), so
  every copy after the first thirty seconds is answered.
* The pump sends the text of the list it took: on success it removes a newer bitmap that
  replaced it, on failure it puts the old text over it, where the comment at app.py 2121
  says that a newer bitmap supersedes an older one.  `ReceiptsHonest` holds all the same
  and the sender learns the rest when it repeats a part.
* A discarded item comes back when the sender repeats a part because its DELIVERED was
  lost (`docs/PROTOCOL_V1.md:125-127`: no other item for retries).
* A read request marks what the item is at that moment, which may be more than the
  operator was shown.

About retrievals:

* Any directed message of the custodian inside the window completes the number that is
  asked for (app.py 4144, 4271), also one that has nothing to do with it;
  `docs/USER_GUIDE.md:38-46` says that a normal directed message "does not complete
  unrelated pending IDs", which holds of the others.
* After its await the loop writes the pending row and the window unconditionally
  (2467, 2480): when an answer to an earlier query completed the number meanwhile, it is
  completed and pending, and asked for once more.
* A number that was given up and announced again can be completed by a handler of the
  first time that still waits for its CAP.
* The restart sorts audit events by time, type and then their payload (app.py 2013–2027); two events
  of one type in one millisecond make it compare dictionaries, which raises: two numbers
  given up, or two windows that ran out, in one pass are enough.  The daemon does not start then until
  the events are a week old.  `RestartKeepsPending` and `RetrievalEnds` are about the
  daemons that start.

About the store:

* A call that read before a commit and writes after it undoes it: the loop's defer overwrites a
  cancel, retry-now (service.py 101–115) requeues a message that was delivered meanwhile.
  `docs/IMPLEMENTATION_PLAN.md:375` says "Terminal message states are monotonic except an
  explicit operator-created retry"; `SettledStands` has the exception in its words, the
  model shows that there is no other.
* A removal may take away a message that another request requeued after the look of the
  removal (storage.py 1823–1850).
* `message_parts` (storage.py 144) and `custody` (175) do not reference `messages`.  The parts
  of an outgoing message are inserted after an await (app.py 1251–1260), so a message that was
  cancelled and removed meanwhile leaves rows that nothing removes; `NoOrphans` is about the
  tables with foreign keys.
* A statement that raises `IntegrityError` leaves the event loop's connection with the write
  lock until its next commit; requests wait for it, and one that waits thirty seconds gets
  `sqlite3.OperationalError`, which `do_POST` does not catch (app.py 960).

About activity:

* A complete item can become partial again: when RX.DIRECTED completed it while its stream
  is still open, the next frame writes the preview over it, and so does a later message of
  the same sender that begins with the same frame, whose preview has the same id (app.py
  3694–3702).  `docs/USER_GUIDE.md:839-842` calls the complete copy authoritative.
* Frames lost in the middle go unnoticed: a complete item may have a hole.
* A continuation that looks like a callsign prefix ("TIME: 12") is dropped (reassembly.py
  230): the message has a hole though every frame was heard, or no end if it was the last
  one.
* A continuation of a message whose first frame was lost is joined to a stream that lost
  its last one; `Unmixed` excludes just that.
* When the activity copy and RX.DIRECTED differ in a lost frame the mailbox has two items of
  one message, where `docs/USER_GUIDE.md:699-702` speaks of one.
* A complete copy is credited to the sender of any partial item that begins alike, if its own
  sender has none (app.py 4186–4190).

## 7. Not modelled

* Routing, custody choice, the query scheduler, confidence and the choice of the speed are
  decisions over tables of observations, with floating-point scores and cooldowns, without
  state of their own that more than one actor changes.  Where they matter to the outbox,
  every answer is possible, so what is shown there holds whatever they choose.
* Wire formats, the pages of the user interface, settings and groups, topology and route
  hints, launchers and probes: parsing, formatting and I/O.
* The `required` capability negotiation and a paused daemon in `Outbox`; capability
  advertisements; the second assembler, for capability trains.
* `tx_arbiter.py`, which nothing but its test uses.

## 8. Plan

1. `Lifecycle`, `Ledger`, `Outbox`, `MailPromise`, `RfSlot`, `Inbox`, `Recipient`,
   `Retrieval`, `Store`, `Activity`, their runs and proofs – done.
2. The inductive invariants of `LimitsHold`, `OneLive`, `EvidenceSound`, `GivenUpLate`, the action
   properties `SettledForGood`, `ClosedForGood`, `ReadUntilChanged`, and the refinements of
   `MailPromise`, `Recipient` and `Slot` – done (section 4).
3. The transactions of a message in `Store`; the peers of
   `Outbox` as instances of `Recipient`; the `required` mode and pausing in `Outbox`.
4. `RoutePolicy`, `QueryScheduler`: the pure choices against reference definitions.
