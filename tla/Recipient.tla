------------------------------ MODULE Recipient ------------------------------
(****************************************************************************)
(* What a JS8Mail station promises whoever sends it a message in parts: a   *)
(* part it has is its own for good, a receipt names parts it has, and its   *)
(* mailbox shows all it has or, for a moment, what it had before.           *)
(*                                                                          *)
(*   got    the parts the station has                                       *)
(*   shown  the parts of the item in its mailbox, none where there is none  *)
(*   told   the receipts on their way: a message, and the parts it names    *)
(*                                                                          *)
(* Nothing is said here of memory, restarts, queues or time.  Inbox         *)
(* implements this specification; Outbox takes it for granted of others.    *)
(****************************************************************************)
CONSTANTS Msgs, Parts

VARIABLES got, shown, told

vars == <<got, shown, told>>

Init == /\ got = [m \in Msgs |-> {}]
        /\ shown = [m \in Msgs |-> {}]
        /\ told = {}

\* A part comes, perhaps again.
Take(m, p) ==
  /\ got' = [got EXCEPT ![m] = @ \cup {p}]
  /\ shown' = shown \/ shown' = [shown EXCEPT ![m] = got'[m]]
  /\ UNCHANGED told

\* A receipt goes out; older ones may be lost by then.
Tell(m, r) ==
  /\ r \subseteq got[m]
  /\ told' \in SUBSET (told \cup {<<m, r>>})
  /\ UNCHANGED <<got, shown>>

Lose == told' \in SUBSET told /\ UNCHANGED <<got, shown>>

\* The operator removes the item.
Discard(m) == shown' = [shown EXCEPT ![m] = {}] /\ UNCHANGED <<got, told>>

Next ==
  \/ \E m \in Msgs :
       \/ \E p \in Parts : Take(m, p)
       \/ \E r \in SUBSET Parts : Tell(m, r)
       \/ Discard(m)
  \/ Lose

Spec == Init /\ [][Next]_vars

==============================================================================
