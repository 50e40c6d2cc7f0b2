-------------------------------- MODULE Slot --------------------------------
(****************************************************************************)
(* What a coroutine that calls send_rf may rely on: it gets one answer, a   *)
(* text that is taken is the only one of its tx_lock in JS8Call, and the    *)
(* coroutines of a lock have no more texts for a message taken than its     *)
(* lifetime limit.                                                          *)
(*                                                                          *)
(*   asking  the coroutines that wait for the answer                        *)
(*   text    those whose text JS8Call holds                                 *)
(*   handed  the texts JS8Call was given for each message under each lock,  *)
(*           since the last start if another lock sends for it too          *)
(*                                                                          *)
(* Nothing is said here of trains, events, pacing or budgets.  RfSlot       *)
(* implements this specification; Outbox takes it for granted when it has   *)
(* send_rf hand over or refuse in one step.                                 *)
(****************************************************************************)
EXTENDS Naturals

CONSTANTS Senders, Locks, Lock, Msgs, Msg, MessageLimit, Nil

VARIABLES asking, text, handed

vars == <<asking, text, handed>>

Init == /\ asking = {}
        /\ text = {}
        /\ handed = [l \in Locks |-> [m \in Msgs |-> 0]]

Ask(s) == asking' = asking \cup {s} /\ UNCHANGED <<text, handed>>

Grant(s) ==
  /\ s \in asking
  /\ \A t \in text : Lock[t] # Lock[s]
  /\ asking' = asking \ {s}
  /\ text' = text \cup {s}
  /\ IF Msg[s] = Nil THEN handed' = handed
     ELSE /\ handed[Lock[s]][Msg[s]] < MessageLimit
          /\ handed' = [handed EXCEPT ![Lock[s]][Msg[s]] = @ + 1]

Refuse(s) ==
  /\ s \in asking
  /\ asking' = asking \ {s}
  /\ UNCHANGED <<text, handed>>

\* JS8Call has transmitted what it held, or has dropped it.
Clear == text' = {} /\ UNCHANGED <<asking, handed>>

OneAccount(m) == \A s, t \in Senders : Msg[s] = m /\ Msg[t] = m => Lock[s] = Lock[t]

\* The daemon is started again: nobody asks any more, and a message that two
\* locks send for is counted from here.
Restart ==
  /\ asking' = {}
  /\ handed' = [l \in Locks |-> [m \in Msgs |-> IF OneAccount(m) THEN handed[l][m] ELSE 0]]
  /\ UNCHANGED text

Next ==
  \/ \E s \in Senders : Ask(s) \/ Grant(s) \/ Refuse(s)
  \/ Clear \/ Restart

Spec == Init /\ [][Next]_vars

=============================================================================
