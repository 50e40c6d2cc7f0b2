------------------------------- MODULE RfSlot -------------------------------
(****************************************************************************)
(* The one transmit path of the daemon, Handler.send_rf: the coroutines     *)
(* that want to send, the lock they queue for, the waits and checks before  *)
(* a text is handed to JS8Call, the airtime it is charged, and the PTT and  *)
(* TX events from which the daemon infers that a transmit train has ended.  *)
(*                                                                          *)
(*   pc      the await each coroutine stands at                             *)
(*   line    the waiters of each tx_lock, in order; the first one holds it  *)
(*   status  the shared status dictionary, as send_rf and the events use it *)
(*   train   the TxTrain, and whether a settle task is scheduled            *)
(*   gap     the controller's next_tx_not_before lies in the future         *)
(*   budget  the airtime used, in memory; stored: its rows in the database  *)
(*   js      JS8Call and the link to it: the texts it holds, the PTT, the   *)
(*           events on their way                                            *)
(*   handed  the texts JS8Call was handed for each message by the           *)
(*           coroutines of each lock, and recent, the ones reserved in the  *)
(*           current airtime window: history variables                      *)
(*                                                                          *)
(* Outbox sees this path as one step that accepts or refuses.  A text is    *)
(* estimated at one unit of airtime and may keep the transmitter on for     *)
(* more.  A step is what happens between two awaits.                        *)
(****************************************************************************)
EXTENDS Naturals, Sequences, FiniteSets

CONSTANTS
  Senders,       \* coroutines that may be in send_rf at a time
  Controller,    \* the tx_lock of the controller object
  Lock,          \* the tx_lock each of them takes
  Msgs,          \* messages
  Msg,           \* the message each sends for, or Nil: a reply, a capability
  WindowLimit,   \* airtime of a rolling window, in units
  MessageLimit,  \* airtime of a message in its life, in units
  RxKinds,       \* bound: the receive holds, of "directed" and "activity"
  MaxFrames,     \* bound: frames of a train
  MaxNews,       \* bound: events on their way
  Faults,        \* bound: of "crash", "link", "stray"
  Nil

Locks == {Lock[s] : s \in Senders} \cup {Controller}

ASSUME RfSlotAssumption ==
  /\ WindowLimit \in Nat /\ MessageLimit \in Nat
  /\ MaxFrames \in Nat /\ MaxNews \in Nat
  /\ RxKinds \subseteq {"directed", "activity"}
  /\ Nil \notin Msgs
  /\ \A s \in Senders : Msg[s] \in Msgs \cup {Nil}

\* The coroutines that send for m do it under one lock, so that one dictionary
\* of message budgets, the controller's or the handler class's, knows of it.
OneAccount(m) == \A s, t \in Senders : Msg[s] = m /\ Msg[t] = m => Lock[s] = Lock[t]

VARIABLES pc, line, status, train, gap, budget, stored, js, handed, recent

daemon == <<pc, line, status, train, gap, budget>>
vars == <<daemon, stored, js, handed, recent>>

-----------------------------------------------------------------------------
Events == {"on", "off", "frame"}

\* A coroutine in "pacing" sleeps until the gap it saw ends; in "due" its
\* sleep is over; in "preflight" and "clear" it is in client.send_message.
Awaits == {"idle", "queued", "train", "tx", "pacing", "due", "preflight", "clear"}

NoTrain == [on |-> FALSE, saw |-> FALSE, frames |-> 0, settle |-> FALSE]
NoStatus == [radio |-> "RX", pending |-> FALSE, owner |-> Nil, reserved |-> 0,
             rx |-> {}, paused |-> FALSE]
NoneUsed == [m \in Msgs |-> 0]

StatusType == [radio : {"RX", "TX"}, pending : BOOLEAN, owner : Msgs \cup {Nil},
               reserved : 0..1, rx : SUBSET RxKinds, paused : BOOLEAN]
TrainType == [on : BOOLEAN, saw : BOOLEAN, frames : Nat, settle : BOOLEAN]
BudgetType == [window : Nat, own : [Locks -> [Msgs -> Nat]]]
StoredType == [window : Nat, own : [Msgs -> Nat]]
JsType == [link : BOOLEAN, keyed : BOOLEAN, text : SUBSET Senders, news : Seq(Events)]

TypeOK ==
  /\ pc \in [Senders -> Awaits]
  /\ line \in [Locks -> Seq(Senders)]
  /\ status \in StatusType
  /\ train \in TrainType
  /\ gap \in BOOLEAN
  /\ budget \in BudgetType
  /\ stored \in StoredType
  /\ js \in JsType
  /\ handed \in [Locks -> [Msgs -> Nat]]
  /\ recent \in Nat

Init ==
  /\ pc = [s \in Senders |-> "idle"]
  /\ line = [l \in Locks |-> <<>>]
  /\ status = NoStatus
  /\ train = NoTrain
  /\ gap = FALSE
  /\ budget = [window |-> 0, own |-> [l \in Locks |-> NoneUsed]]
  /\ stored = [window |-> 0, own |-> NoneUsed]
  /\ js = [link |-> TRUE, keyed |-> FALSE, text |-> {}, news |-> <<>>]
  /\ handed = [l \in Locks |-> NoneUsed]
  /\ recent = 0

-----------------------------------------------------------------------------
(* The way of a coroutine through send_rf. *)

\* Mutant: the lock is forgotten.
AnyInLine(s) == pc[s] # "idle"

HasLock(s) == line[Lock[s]] # <<>> /\ Head(line[Lock[s]]) = s

\* Leaving "async with self.tx_lock", by the end or by an exception.
Leave(s) ==
  /\ pc' = [pc EXCEPT ![s] = "idle"]
  /\ line' = [line EXCEPT ![Lock[s]] = Tail(@)]

\* The exceptions before anything is spent: paused, receiving, transmitting,
\* no airtime left.
Refuse(s) ==
  /\ Leave(s)
  /\ UNCHANGED <<status, train, gap, budget, stored, js, handed, recent>>

Goto(s, await) ==
  /\ pc' = [pc EXCEPT ![s] = await]
  /\ UNCHANGED <<line, status, train, gap, budget, stored, js, handed, recent>>

Call(s) ==
  /\ pc[s] = "idle"
  /\ pc' = [pc EXCEPT ![s] = "queued"]
  /\ line' = [line EXCEPT ![Lock[s]] = Append(@, s)]
  /\ UNCHANGED <<status, train, gap, budget, stored, js, handed, recent>>

Occupied == status.pending \/ status.rx # {}

\* The lifetime airtime of a message as this object's budget has it: restored
\* from the database while the object knows of none.
Used(s) ==
  LET own == budget.own[Lock[s]][Msg[s]]
  IN  IF own = 0 THEN stored.own[Msg[s]] ELSE own

\* Mutant: the lifetime limit of the message is not looked at.
AffordsWindow(s) == budget.window + 1 <= WindowLimit

Affords(s) ==
  /\ budget.window + 1 <= WindowLimit
  /\ Msg[s] # Nil => Used(s) + 1 <= MessageLimit

\* Mutant: the message's row is written once the text is on the air.
SavedWindowOnly(s) == [stored EXCEPT !.window = budget.window + 1]

\* save_message_airtime and save_airtime_state, before the handoff.
SavedSpending(s) ==
  [window |-> budget.window + 1,
   own |-> IF Msg[s] = Nil THEN stored.own
           ELSE [stored.own EXCEPT ![Msg[s]] = Used(s) + 1]]

\* Mutant: the reservations of a train add up.
ReservedMore(s) ==
  [status EXCEPT !.owner = IF Msg[s] = Nil THEN @ ELSE Msg[s], !.reserved = @ + 1]

\* tx_message_id and tx_reserved_ms, for the train that is expected.
Reserved(s) ==
  [status EXCEPT !.owner = IF Msg[s] = Nil THEN @ ELSE Msg[s], !.reserved = 1]

\* Reserving the airtime, and on to the first await of send_message.
Spend(s) ==
  /\ Affords(s)
  /\ budget' = [window |-> budget.window + 1,
                own |-> IF Msg[s] = Nil THEN budget.own
                        ELSE [budget.own EXCEPT ![Lock[s]][Msg[s]] = Used(s) + 1]]
  /\ stored' = SavedSpending(s)
  /\ recent' = recent + 1
  /\ \/ /\ pc' = [pc EXCEPT ![s] = "preflight"]
        /\ status' = Reserved(s)
        /\ UNCHANGED line
     \* "radio slot changed before API handoff": the operator paused, in the
     \* thread of another HTTP request.
     \/ /\ Leave(s)
        /\ status' = [status EXCEPT !.owner = Nil, !.reserved = 0, !.paused = TRUE]
  /\ UNCHANGED <<train, gap, js, handed>>

\* The second look at the slot, then the budgets.  The message's ten-minute
\* burst may be used up as well: it refuses as it likes.
Reserve(s) ==
  \/ /\ status.paused \/ Occupied \/ ~Affords(s) \/ Msg[s] # Nil
     /\ Refuse(s)
  \/ /\ ~status.paused /\ ~Occupied
     /\ Spend(s)

AfterTx(s) ==
  \/ gap /\ Lock[s] = Controller /\ Goto(s, "pacing")
  \/ ~(gap /\ Lock[s] = Controller) /\ Reserve(s)

AfterTrain(s) ==
  \/ status.rx # {} /\ Refuse(s)
  \/ status.rx = {} /\ status.radio = "TX" /\ Goto(s, "tx")
  \/ status.rx = {} /\ status.radio # "TX" /\ AfterTx(s)

Enter(s) ==
  /\ pc[s] = "queued" /\ HasLock(s)
  /\ \/ status.paused /\ Refuse(s)
     \/ ~status.paused /\ status.pending /\ Goto(s, "train")
     \/ ~status.paused /\ ~status.pending /\ AfterTrain(s)

\* Mutant: the wait for the train to settle has no deadline.
NeverGiveUpTrain(s) == FALSE /\ Refuse(s)

\* "previous JS8Call RF train did not settle": ten minutes.
GiveUpTrain(s) == pc[s] = "train" /\ status.pending /\ Refuse(s)

WakeTrain(s) == pc[s] = "train" /\ ~status.pending /\ AfterTrain(s)

\* "JS8Call is still transmitting": three minutes.
GiveUpTx(s) == pc[s] = "tx" /\ status.radio = "TX" /\ Refuse(s)

WakeTx(s) == pc[s] = "tx" /\ status.radio # "TX" /\ AfterTx(s)

WakePacing(s) == pc[s] = "due" /\ Reserve(s)

\* An exception of send_message: the reservation is taken off the status, the
\* budgets and their rows stay as they are.
FailPreflight(s) ==
  /\ Leave(s)
  /\ status' = [status EXCEPT !.owner = Nil, !.reserved = 0]
  /\ UNCHANGED <<train, gap, budget, stored, js, handed, recent>>

\* Mutant: the text JS8Call holds is not looked at.
SeeNothing(s) ==
  /\ pc[s] = "preflight" /\ js.link
  /\ Goto(s, "clear")

\* TX.GET_TEXT: the answer may not come, or show a text of the operator's.
SeeNoText(s) ==
  /\ pc[s] = "preflight" /\ js.link /\ js.text = {}
  /\ Goto(s, "clear")

SeeText(s) == pc[s] = "preflight" /\ FailPreflight(s)

\* RIG.GET_PTT and TX.GET_QUEUE_DEPTH, where the build answers them.
SeeBusy(s) ==
  /\ pc[s] = "clear"
  /\ ~js.link \/ js.keyed \/ js.text # {}
  /\ FailPreflight(s)

\* TX.SEND_MESSAGE, and the pacing that follows it.  The HTTP server makes a
\* handler object for every request: what that object knows of pacing is lost.
Hand(s) ==
  /\ pc[s] = "clear" /\ js.link
  /\ Leave(s)
  /\ js' = [js EXCEPT !.text = @ \cup {s}]
  /\ gap' = (gap \/ Lock[s] = Controller)
  /\ handed' = IF Msg[s] = Nil THEN handed
             ELSE [handed EXCEPT ![Lock[s]][Msg[s]] = @ + 1]
  /\ UNCHANGED <<status, train, budget, stored, recent>>

Advance(s) ==
  \/ Enter(s) \/ WakeTrain(s) \/ GiveUpTrain(s) \/ WakeTx(s) \/ GiveUpTx(s)
  \/ WakePacing(s) \/ SeeNoText(s) \/ SeeText(s) \/ SeeBusy(s) \/ Hand(s)

-----------------------------------------------------------------------------
(* The events of JS8Call, in the order they are sent. *)

PttOn ==
  /\ status' = [status EXCEPT !.radio = "TX", !.pending = TRUE, !.rx = @ \ {"activity"}]
  /\ train' = [train EXCEPT !.on = TRUE, !.saw = TRUE, !.settle = FALSE]

PttOff ==
  /\ status' = [status EXCEPT !.radio = "RX"]
  /\ train' = IF train.saw
              THEN [train EXCEPT !.on = FALSE, !.settle = TRUE,
                                 !.frames = IF train.on THEN @ + 1 ELSE @]
              ELSE train

\* Mutant: a late frame cancels the settle task and leaves it at that.
TxFrameDisarms ==
  /\ status' = [status EXCEPT !.radio = IF train.on \/ ~train.saw THEN "TX" ELSE @,
                              !.pending = TRUE]
  /\ train' = [train EXCEPT !.settle = FALSE]

TxFrame ==
  /\ status' = [status EXCEPT !.radio = IF train.on \/ ~train.saw THEN "TX" ELSE @,
                              !.pending = TRUE]
  /\ train' = [train EXCEPT !.settle = train.saw /\ ~train.on]

Hear ==
  /\ js.link /\ js.news # <<>>
  /\ js' = [js EXCEPT !.news = Tail(@)]
  /\ LET e == Head(js.news)
     IN  \/ e = "on" /\ PttOn
         \/ e = "off" /\ PttOff
         \/ e = "frame" /\ TxFrame
  /\ UNCHANGED <<pc, line, gap, budget, stored, handed, recent>>

\* What the train took beyond its reservation, where it has an owner.
Extra == IF status.owner # Nil /\ train.frames > status.reserved
         THEN train.frames - status.reserved ELSE 0

\* settle_rf_train and complete_rf_train: only the controller's budget of the
\* message is charged, if it has one.
CompleteRfTrain ==
  LET m == status.owner
      known == m # Nil /\ budget.own[Controller][m] > 0
  IN  /\ train.settle /\ train.saw /\ ~train.on
      /\ budget' = [window |-> budget.window + Extra,
                    own |-> IF known THEN [budget.own EXCEPT ![Controller][m] = @ + Extra]
                            ELSE budget.own]
      /\ stored' = IF Extra = 0 THEN stored
                   ELSE [window |-> budget'.window,
                         own |-> IF known
                                 THEN [stored.own EXCEPT ![m] = budget'.own[Controller][m]]
                                 ELSE stored.own]
      /\ status' = [status EXCEPT !.owner = Nil, !.reserved = 0, !.pending = FALSE,
                                  !.rx = @ \ {"activity"}]
      /\ train' = NoTrain
      /\ gap' = TRUE
      /\ pc' = [s \in Senders |-> IF pc[s] = "pacing" THEN "due" ELSE pc[s]]
      /\ UNCHANGED <<line, js, handed, recent>>

RxBegins(kind) ==
  /\ js.link /\ kind \notin status.rx
  /\ status' = [status EXCEPT !.rx = @ \cup {kind}]
  /\ UNCHANGED <<pc, line, train, gap, budget, stored, js, handed, recent>>

-----------------------------------------------------------------------------
(* Time, the operator, the link, the process. *)

RxEnds(kind) ==
  /\ kind \in status.rx
  /\ status' = [status EXCEPT !.rx = @ \ {kind}]
  /\ UNCHANGED <<pc, line, train, gap, budget, stored, js, handed, recent>>

\* A coroutine sleeps until the gap it saw: a train that completes meanwhile
\* begins another gap, which it does not look at again.
GapEnds ==
  /\ gap
  /\ gap' = FALSE
  /\ pc' = [s \in Senders |-> IF pc[s] = "pacing" THEN "due" ELSE pc[s]]
  /\ UNCHANGED <<line, status, train, budget, stored, js, handed, recent>>

\* rollover, by whoever looks at the budget next; a row of the database whose
\* window is over is rolled over when it is read back.
WindowPasses ==
  /\ budget.window > 0
  /\ budget' = [budget EXCEPT !.window = 0]
  /\ stored' = [stored EXCEPT !.window = 0]
  /\ recent' = 0
  /\ UNCHANGED <<pc, line, status, train, gap, js, handed>>

PauseResume ==
  /\ status' = [status EXCEPT !.paused = ~@]
  /\ UNCHANGED <<pc, line, train, gap, budget, stored, js, handed, recent>>

\* The reader ends and the finally clause runs; events on their way are lost.
LinkLost ==
  /\ "link" \in Faults /\ js.link
  /\ js' = [js EXCEPT !.link = FALSE, !.news = <<>>]
  /\ train' = NoTrain
  /\ status' = [status EXCEPT !.pending = FALSE, !.reserved = 0]
  /\ UNCHANGED <<pc, line, gap, budget, stored, handed, recent>>

LinkUp ==
  /\ ~js.link
  /\ js' = [js EXCEPT !.link = TRUE]
  /\ UNCHANGED <<daemon, stored, handed, recent>>

\* The texts that the limit of a message goes on to bound after a restart: where
\* two dictionaries knew of it, the row has what was written last.
Counted(h) == [l \in Locks |-> [m \in Msgs |-> IF OneAccount(m) THEN h[l][m] ELSE 0]]

\* The daemon dies and is started again; JS8Call goes on.
Crash ==
  /\ "crash" \in Faults
  /\ pc' = [s \in Senders |-> "idle"]
  /\ line' = [l \in Locks |-> <<>>]
  /\ status' = NoStatus
  /\ train' = NoTrain
  /\ gap' = FALSE
  /\ budget' = [window |-> stored.window, own |-> [l \in Locks |-> NoneUsed]]
  /\ js' = [js EXCEPT !.link = FALSE, !.news = <<>>]
  /\ handed' = Counted(handed)
  /\ UNCHANGED <<stored, recent>>

-----------------------------------------------------------------------------
(* JS8Call: it keys the transmitter for a text it was handed, or because its *)
(* operator has it transmit, once for each frame; events that find no link   *)
(* are lost.                                                                 *)

Emits(news) == IF js.link THEN js.news \o news ELSE js.news
Room(n) == Len(js.news) + n <= MaxNews

FramesAhead == train.frames + Cardinality({i \in DOMAIN js.news : js.news[i] = "on"})

KeyOn ==
  /\ ~js.keyed /\ FramesAhead < MaxFrames
  /\ \E news \in {<<"on">>, <<"frame", "on">>} :
       /\ Room(Len(news))
       /\ js' = [js EXCEPT !.keyed = TRUE, !.news = Emits(news)]
  /\ UNCHANGED <<daemon, stored, handed, recent>>

\* The end of a frame, perhaps of the last one.
KeyOff ==
  /\ js.keyed
  /\ \E news \in {<<"off">>, <<"off", "frame">>}, text \in {js.text, {}} :
       /\ Room(Len(news))
       /\ js' = [js EXCEPT !.keyed = FALSE, !.text = text, !.news = Emits(news)]
  /\ UNCHANGED <<daemon, stored, handed, recent>>

\* A frame is prepared and the operator halts it, or the rig refuses.
StrayFrame ==
  /\ "stray" \in Faults /\ js.text # {} /\ ~js.keyed /\ Room(1)
  /\ js' = [js EXCEPT !.text = {}, !.news = Emits(<<"frame">>)]
  /\ UNCHANGED <<daemon, stored, handed, recent>>

Next ==
  \/ \E s \in Senders : Call(s) \/ Advance(s)
  \/ Hear \/ CompleteRfTrain
  \/ \E kind \in RxKinds : RxBegins(kind) \/ RxEnds(kind)
  \/ GapEnds \/ WindowPasses \/ PauseResume
  \/ LinkLost \/ LinkUp \/ Crash
  \/ KeyOn \/ KeyOff \/ StrayFrame

\* asyncio runs every ready coroutine; sleeps end; a read event is handled.
Fairness ==
  /\ \A s \in Senders : WF_vars(Advance(s))
  /\ WF_vars(GapEnds)
  /\ WF_vars(Hear)
  /\ WF_vars(CompleteRfTrain)

Spec == Init /\ [][Next]_vars /\ Fairness

-----------------------------------------------------------------------------
(* Properties. *)

\* "does not stack several automatic requests into the same JS8Call
\* opportunity" (docs/USER_GUIDE.md:648), for the coroutines of one lock:
\* however links drop, the process restarts and the waits end, a text is not
\* handed over while JS8Call still holds the text of another of them.
NoStacking == \A s, t \in js.text : Lock[s] = Lock[t] => s = t

\* The coroutines of one lock hand JS8Call no more texts for a message than its
\* lifetime limit: over all restarts of the daemon where nobody else sends for
\* it, since the last start where a coroutine of the other lock does (each object
\* has an account of its own and reads the row only while it has none, app.py
\* 1788-1800).  No window has more texts reserved than its limit.  Counted are
\* texts as they are estimated when they are handed over; what a train takes
\* beyond that is charged to the accounts afterwards, and may pass the limits.
LimitsHold ==
  /\ \A l \in Locks, m \in Msgs : handed[l][m] <= MessageLimit
  /\ recent <= WindowLimit

\* While the link is up, a train whose transmitter was heard to go off has a
\* settle task: without one nothing ends the train, and every send waits its
\* ten minutes for nothing (the PTT and TX branches of handle).
SettleArmed ==
  js.link /\ status.pending /\ train.saw /\ ~train.on => train.settle

\* Whoever calls send_rf gets one answer, and what JS8Call takes is alone there
\* and within the limit of its message for the lock, whatever the waits, the events, the
\* link and the operator do meanwhile (Slot): the view Outbox has of send_rf.
S == INSTANCE Slot WITH asking <- {s \in Senders : pc[s] # "idle"}, text <- js.text
SlotKept == S!Spec

\* "waiting here cannot deadlock it" (app.py:1717): whoever calls send_rf gets
\* the lock, and an answer, whatever JS8Call and the link do.
EverySendEnds == \A s \in Senders : pc[s] # "idle" ~> pc[s] = "idle"

=============================================================================
