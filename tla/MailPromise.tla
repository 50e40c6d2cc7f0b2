----------------------------- MODULE MailPromise -----------------------------
(****************************************************************************)
(* What JS8Mail promises the operator about a message, as the states of     *)
(* MessageState read (src/js8mail/application/lifecycle.py): where a        *)
(* message may go from each state, that a message reported complete is at   *)
(* its destination and one reported stored was taken by a custodian, and    *)
(* that only the operator takes a settled message up again.                 *)
(*                                                                          *)
(*   status   what the operator sees of each message                        *)
(*   arrived  the messages whose destination has every part                 *)
(*   kept     the messages some custodian took, or a part of which it took  *)
(*            where they were offered in parts                              *)
(*   asked    how often the operator has asked for each message again       *)
(*                                                                          *)
(* Nothing is said here of attempts, routes, receipts or time: Outbox       *)
(* implements this specification.                                           *)
(****************************************************************************)
EXTENDS Naturals

CONSTANTS Msgs,      \* messages the operator may compose
          Broadcast  \* those addressed to a group, which nobody acknowledges

VARIABLES status, arrived, kept, asked

vars == <<status, arrived, kept, asked>>

Status == {"absent", "open", "held", "stored", "complete", "failed",
           "expired", "cancelled", "removed"}

TypeOK == /\ status \in [Msgs -> Status]
          /\ arrived \subseteq Msgs
          /\ kept \subseteq Msgs
          /\ asked \in [Msgs -> Nat]

Init == /\ status = [m \in Msgs |-> "absent"]
        /\ arrived = {}
        /\ kept = {}
        /\ asked = [m \in Msgs |-> 0]

Move(m, from, to) == /\ status[m] \in from
                     /\ status' = [status EXCEPT ![m] = to]

Turn(m, from, to) == Move(m, from, to) /\ UNCHANGED <<arrived, kept, asked>>

Submit(m)  == Turn(m, {"absent"}, "open")
Hold(m)    == Turn(m, {"open"}, "held")
Expire(m)  == Turn(m, {"open"}, "expired")
Cancel(m)  == Turn(m, {"open"}, "cancelled")
Remove(m)  == Turn(m, {"held", "stored", "complete", "failed", "expired",
                       "cancelled"}, "removed")

\* Only the operator takes up again what was held or given up, and may ask
\* for more haste with what was not.
Requeue(m) == /\ Move(m, {"open", "held", "failed", "cancelled"}, "open")
              /\ asked' = [asked EXCEPT ![m] = @ + 1]
              /\ UNCHANGED <<arrived, kept>>

\* A custodian's word is good only if it took what it was offered.
Store(m) == m \in kept /\ Turn(m, {"open"}, "stored")

\* A message that is stored may still arrive.  A broadcast has no receipt.
Complete(m) == m \in arrived \cup Broadcast /\ Turn(m, {"open", "stored"}, "complete")

\* One sweep of the deadlines may give up several messages.
Fail(S) ==
  /\ \A m \in S : status[m] = "open"
  /\ status' = [m \in Msgs |-> IF m \in S THEN "failed" ELSE status[m]]
  /\ UNCHANGED <<arrived, kept, asked>>

\* The other stations.
Arrive(m) == arrived' = arrived \cup {m} /\ UNCHANGED <<status, kept, asked>>
Keep(m)   == kept' = kept \cup {m} /\ UNCHANGED <<status, arrived, asked>>

Next ==
  \/ \E m \in Msgs : \/ Submit(m) \/ Hold(m) \/ Expire(m) \/ Cancel(m)
                     \/ Requeue(m) \/ Remove(m) \/ Store(m) \/ Complete(m)
                     \/ Arrive(m) \/ Keep(m)
  \/ \E S \in SUBSET Msgs : Fail(S)

Spec == Init /\ [][Next]_vars

=============================================================================
