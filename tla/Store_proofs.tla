---------------------------- MODULE Store_proofs -----------------------------
(****************************************************************************)
(* Theorems about Store, for any number of messages and of requests.  The   *)
(* key is that the lock makes a transaction atomic: what its holder will    *)
(* commit is what its statements make of the database as it still is.  What *)
(* the lock does not cover is the SELECT before it; of that only the        *)
(* conclusion is kept.                                                      *)
(****************************************************************************)
EXTENDS Store, TLAPS

\* The lock and the uncommitted copy.
Locked ==
  /\ writer = Nil <=> work = Nil
  /\ \A p \in Threads : At(p, {"commit"}) =>
       /\ writer = p
       /\ work = Written(db, pc[p]) /\ ~Dangling(db, pc[p])
  /\ writer # Nil /\ ~At(writer, {"commit"}) => work = db

\* What is known of a call at each point: a method that writes a state has
\* read one that allows it.
CallOK(call) ==
  /\ call \in Call
  /\ call.to \in To(call.op)
  /\ call.at \in {"look", "read"} => call.first /\ call.seen = Nil
  /\ call.at \in {"write", "commit"} /\ call.seen # Nil => Accepts(call, call.seen)
  /\ call.at \in {"write", "commit"} /\ call.first
     /\ call.op \notin {"insert", "part", "keep", "inbox"} => call.seen # Nil
  /\ call.at = "again" => ~call.first
  /\ ~call.first => call.seen = Nil /\ call.op \in {"retry_now", "defer", "hold"}

Calls ==
  /\ \A p \in Threads : pc[p] # Nil => CallOK(pc[p]) /\ (p = Loop => pc[p].op \in LoopOps)
  /\ \A r \in over : pc[r] = Nil

IInv == TypeOK /\ Calls /\ Locked /\ NoOrphans

-----------------------------------------------------------------------------
(* Helpers. *)

LEMMA NilFacts == /\ Nil \notin Threads /\ Nil \notin States /\ Nil \notin Db /\ Nil \notin Call
                  /\ Loop \notin Requests
  BY StoreAssumption

\* A transaction keeps the database well formed and leaves no orphan.
LEMMA WrittenOK ==
  ASSUME NEW b \in Db, NEW call, CallOK(call), ~Dangling(b, call),
         \A m \in b.rows : b.state[m] # "gone"
  PROVE  /\ Written(b, call) \in Db
         /\ \A m \in Written(b, call).rows : Written(b, call).state[m] # "gone"
<1>1. call.msg \in Messages /\ (call.to # Nil => call.to \in States)
  BY DEF CallOK, Call
<1>2. "gone" \notin States
  BY DEF States
<1>3. CASE call.first /\ call.to # Nil
  <2>1. Written(b, call) = Put(b, call.msg, call.to)
    BY <1>3 DEF Written
  <2>2. CASE b.state[call.msg] = "gone"
    BY <2>1, <2>2 DEF Put
  <2>3. CASE b.state[call.msg] # "gone"
    <3> DEFINE b2 == [b EXCEPT !.state[call.msg] = call.to]
    <3>1. Put(b, call.msg, call.to) = b2
      BY <2>3 DEF Put
    <3>2. call.to \in States /\ call.to # "gone"
      BY <1>1, <1>2, <1>3
    <3>3. /\ b2 \in Db /\ b2.rows = b.rows
          /\ \A m \in Messages :
               b2.state[m] = IF m = call.msg THEN call.to ELSE b.state[m]
      BY <1>1, <3>2 DEF Db
    <3>4. \A m \in b2.rows : b2.state[m] # "gone"
      BY <3>2, <3>3 DEF Db
    <3> QED BY <2>1, <3>1, <3>3, <3>4, Zenon
  <2> QED BY <2>2, <2>3
<1>4. CASE ~(call.first /\ call.to # Nil) /\ call.op = "delete"
  BY <1>1, <1>4 DEF Written, Db
<1>5. CASE ~(call.first /\ call.to # Nil) /\ call.op \in {"insert", "retry_now", "defer"}
  <2>1. b.state[call.msg] # "gone"
    BY <1>5, NilFacts DEF Dangling, CallOK, To, States
  <2> QED BY <1>1, <1>5, <2>1 DEF Written, Db
<1>6. CASE ~(call.first /\ call.to # Nil) /\ call.op \in {"inbox", "keep", "hold"}
  BY <1>6 DEF Written
<1>7. call.op \in RequestOps \cup LoopOps
  BY DEF CallOK, Call
<1>9. CASE ~(call.first /\ call.to # Nil) /\ call.op = "part"
  BY <1>1, <1>9 DEF Written, Db
<1>8. call.op \in {"cancel", "retry", "move"} => call.first /\ call.to # Nil
  BY NilFacts DEF CallOK, To, States
<1> QED BY <1>3, <1>4, <1>5, <1>6, <1>7, <1>8, <1>9 DEF RequestOps, LoopOps

-----------------------------------------------------------------------------
(* The steps. *)

\* A thread that holds no lock, or has just raised, sees the committed state.
LEMMA ViewIsDb ==
  ASSUME IInv, NEW p \in Threads, ~At(p, {"commit"})
  PROVE  View(p) = db
BY NilFacts DEF IInv, Locked, View

\* Steps that move one thread and leave database and lock alone.
LEMMA OneMoves ==
  ASSUME IInv, NEW p \in Threads, NEW call, call = Nil \/ CallOK(call),
         call # Nil => call.at # "commit" /\ (p = Loop => call.op \in LoopOps),
         ~At(p, {"commit"}),
         pc' = [pc EXCEPT ![p] = call], over' \in SUBSET Requests,
         \/ over' = over /\ p \notin over
         \/ call = Nil /\ over' \subseteq over \cup {p},
         UNCHANGED <<db, writer, work>>
  PROVE  IInv'
<1>1. TypeOK'
  BY DEF IInv, TypeOK, CallOK
<1>2. pc'[p] = call /\ \A q \in Threads : q # p => pc'[q] = pc[q]
  BY DEF IInv, TypeOK
<1>3. Calls'
  BY <1>2 DEF IInv, Calls
<1>4. Locked'
  BY <1>2, NilFacts DEF IInv, Locked, At, TypeOK
<1> QED BY <1>1, <1>3, <1>4 DEF IInv, NoOrphans

LEMMA StartIInv ==
  ASSUME IInv, NEW p \in Threads, NEW op \in RequestOps \cup LoopOps, NEW m \in Messages,
         NEW to \in To(op), Start(p, op, m, to)
  PROVE  IInv'
<1> DEFINE call == [op |-> op, msg |-> m, to |-> to, at |-> FirstPoint(op),
                    first |-> TRUE, seen |-> Nil]
<1>1. to \in States \cup {Nil}
  BY DEF To, States
<1>2. /\ FirstPoint(op) \in {"look", "read", "write"}
      /\ FirstPoint(op) = "write" => op \in {"insert", "part", "keep", "inbox"}
  BY DEF FirstPoint, RequestOps, LoopOps
<1>3. CallOK(call)
  BY <1>1, <1>2 DEF CallOK, Call, Points
<1>4. call # Nil /\ call.at # "commit"
  BY <1>2, <1>3, NilFacts DEF CallOK
<1> QED BY <1>3, <1>4, OneMoves DEF Start, At, IInv, TypeOK

\* The call of p is over.
LEMMA EndsIInv ==
  ASSUME IInv, NEW p \in Threads, ~At(p, {"commit"}), Ends(p), UNCHANGED <<db, writer, work>>
  PROVE  IInv'
<1>1. over' \in SUBSET Requests
  BY DEF Ends, Threads, IInv, TypeOK
<1> QED BY <1>1, OneMoves DEF Ends

LEMMA ReadIInv ==
  ASSUME IInv, NEW p \in Threads, Read(p)
  PROVE  IInv'
<1> DEFINE call == pc[p]
           s == View(p).state[call.msg]
<1>1. /\ CallOK(call) /\ call.at \in {"look", "read"} /\ ~At(p, {"commit"})
      /\ p = Loop => call.op \in LoopOps
  BY DEF Read, At, IInv, Calls
<1>2. s \in States \cup {"gone"}
  BY <1>1, ViewIsDb DEF IInv, TypeOK, Db, CallOK, Call
<1>3. CASE s = "gone" \/ ~Accepts(call, s)
  BY <1>1, <1>3, EndsIInv DEF Read
<1>5. p \notin over /\ over \in SUBSET Requests
  BY NilFacts DEF Read, At, IInv, Calls, TypeOK
<1>4. CASE s # "gone" /\ Accepts(call, s)
  <2>1. s \in States /\ s # Nil
    BY <1>2, <1>4, NilFacts
  <2>2. CASE call.at = "look" /\ call.op = "cancel"
    <3> DEFINE next == [call EXCEPT !.at = "read"]
    <3>1. CallOK(next) /\ next.at = "read" /\ next.op = call.op
      BY <1>1, <2>2 DEF CallOK, Call, Points
    <3>2. next # Nil
      BY <3>1, NilFacts DEF CallOK
    <3> QED BY <1>1, <1>4, <1>5, <2>2, <3>1, <3>2, OneMoves DEF Read, Goes
  <2>3. CASE ~(call.at = "look" /\ call.op = "cancel")
    <3> DEFINE next == [call EXCEPT !.at = "write", !.seen = s]
    <3>1. /\ next \in Call /\ next.at = "write" /\ next.seen = s /\ next.op = call.op
          /\ next.to = call.to /\ next.first = call.first
      BY <1>1, <2>1 DEF CallOK, Call, Points
    <3>2. Accepts(next, s)
      BY <1>4, <2>3, <3>1 DEF Accepts
    <3>3. CallOK(next)
      BY <1>1, <2>1, <3>1, <3>2 DEF CallOK
    <3>4. next # Nil
      BY <3>1, NilFacts
    <3> HIDE DEF next
    <3>5. pc' = [pc EXCEPT ![p] = next] /\ over' = over
      BY <1>4, <2>3 DEF Read, Goes, next
    <3> QED BY <1>1, <1>5, <3>1, <3>3, <3>4, <3>5, OneMoves DEF Read
  <2> QED BY <2>2, <2>3
<1> QED BY <1>3, <1>4

LEMMA WriteIInv ==
  ASSUME IInv, NEW p \in Threads, Write(p)
  PROVE  IInv'
<1> DEFINE call == pc[p]
<1>1. /\ CallOK(call) /\ call.at \in {"write", "again"} /\ ~At(p, {"commit"}) /\ call # Nil
      /\ p = Loop => call.op \in LoopOps
  BY DEF Write, At, IInv, Calls
<1>2. View(p) = db /\ db \in Db /\ p # Nil /\ db # Nil
  BY <1>1, ViewIsDb, NilFacts DEF IInv, TypeOK
<1>3. writer' = p /\ db' = db /\ writer \in {Nil, p}
  BY DEF Write
<1>4. \A q \in Threads : q # p => ~At(q, {"commit"})
  BY <1>3, NilFacts DEF IInv, Locked
<1>7. p \notin over
  BY <1>1 DEF IInv, Calls
<1>5. CASE work' = db /\ Ends(p)
  <2>1. /\ pc'[p] = Nil /\ \A q \in Threads : q # p => pc'[q] = pc[q]
        /\ pc' \in [Threads -> Call \cup {Nil}]
    BY <1>5 DEF Ends, IInv, TypeOK
  <2>2. over' \in SUBSET Requests
    BY <1>5 DEF Ends, Threads, IInv, TypeOK
  <2>3. TypeOK'
    BY <1>2, <1>3, <1>5, <2>1, <2>2 DEF TypeOK
  <2>4. Calls'
    <3>1. over' \subseteq over \cup {p}
      BY <1>5 DEF Ends
    <3>2. over \subseteq Threads
      BY DEF IInv, TypeOK, Threads
    <3> QED BY <2>1, <3>1, <3>2 DEF IInv, Calls
  <2>5. Locked'
    BY <1>2, <1>3, <1>4, <1>5, <2>1 DEF Locked, At
  <2> QED BY <1>3, <2>3, <2>4, <2>5 DEF IInv, NoOrphans
<1>6. CASE /\ ~Dangling(db, call) /\ work' = Written(db, call)
           /\ Goes(p, [call EXCEPT !.at = "commit"])
  <2> DEFINE next == [call EXCEPT !.at = "commit"]
  <2>1. /\ next \in Call /\ next.at = "commit" /\ next.seen = call.seen
        /\ next.op = call.op /\ next.to = call.to /\ next.first = call.first
        /\ next.msg = call.msg
    BY <1>1 DEF CallOK, Call, Points
  <2>2. call.seen # Nil => call.at = "write" /\ Accepts(call, call.seen)
    BY <1>1 DEF CallOK
  <2>3. call.seen # Nil => Accepts(next, call.seen)
    BY <2>1, <2>2 DEF Accepts
  <2>4. CallOK(next)
    BY <1>1, <2>1, <2>3 DEF CallOK
  <2>5. Written(db, next) = Written(db, call) /\ Dangling(db, next) = Dangling(db, call)
    BY <2>1 DEF Written, Dangling
  <2>6. work' \in Db
    BY <1>1, <1>2, <1>6, WrittenOK DEF IInv, NoOrphans
  <2> HIDE DEF next
  <2>7. /\ pc'[p] = next /\ \A q \in Threads : q # p => pc'[q] = pc[q]
        /\ pc' \in [Threads -> Call \cup {Nil}] /\ over' = over
    BY <1>6, <2>1 DEF Goes, IInv, TypeOK, next
  <2>8. TypeOK'
    BY <1>2, <1>3, <2>6, <2>7 DEF TypeOK, IInv
  <2>9. Calls'
    <3>1. over \subseteq Threads
      BY DEF IInv, TypeOK, Threads
    <3> QED BY <1>1, <1>7, <2>1, <2>4, <2>7, <3>1 DEF IInv, Calls
  <2>10. Locked'
    <3>1. writer' # Nil /\ work' # Nil
      BY <1>2, <1>3, <2>6, NilFacts
    <3>2. ASSUME NEW q \in Threads, At(q, {"commit"})'
          PROVE  q = p
      BY <1>4, <2>7, <3>2 DEF At
    <3>3. work' = Written(db', pc'[p]) /\ ~Dangling(db', pc'[p])
      BY <1>3, <1>6, <2>5, <2>7
    <3>4. At(p, {"commit"})'
      BY <2>1, <2>7, NilFacts DEF At
    <3> QED BY <1>3, <3>1, <3>2, <3>3, <3>4 DEF Locked
  <2> QED BY <1>3, <2>8, <2>9, <2>10 DEF IInv, NoOrphans
<1> QED BY <1>2, <1>5, <1>6 DEF Write

LEMMA CommitIInv ==
  ASSUME IInv, NEW p \in Threads, Commit(p)
  PROVE  IInv'
<1> DEFINE call == pc[p]
<1>1. /\ CallOK(call) /\ call.at = "commit" /\ At(p, {"commit"})
      /\ p = Loop => call.op \in LoopOps
  BY DEF Commit, At, IInv, Calls
<1>2. /\ writer = p /\ work = Written(db, call) /\ ~Dangling(db, call) /\ db \in Db
      /\ \A q \in Threads : q # p => ~At(q, {"commit"})
  BY <1>1 DEF IInv, Locked, TypeOK
<1>3. db' \in Db /\ NoOrphans'
  BY <1>1, <1>2, WrittenOK DEF Commit, IInv, NoOrphans
<1>4. writer' = Nil /\ work' = Nil
  BY DEF Commit
<1>5. PICK next : /\ pc' = [pc EXCEPT ![p] = next] /\ over' \in SUBSET Requests
                  /\ \/ over' = over /\ p \notin over
                     \/ next = Nil /\ over' \subseteq over \cup {p}
                  /\ next = Nil \/ CallOK(next)
                  /\ next # Nil => next.at # "commit" /\ (p = Loop => next.op \in LoopOps)
  <2>1. CASE Ends(p)
    BY <2>1 DEF Ends, Threads, IInv, TypeOK
  <2>2. CASE /\ call.op \in {"retry_now", "defer", "hold"}
             /\ Goes(p, [call EXCEPT !.at = "again", !.first = FALSE, !.seen = Nil])
    <3> DEFINE again == [call EXCEPT !.at = "again", !.first = FALSE, !.seen = Nil]
    <3>1. CallOK(again) /\ again.at # "commit" /\ again.op = call.op
      BY <1>1, <2>2 DEF CallOK, Call, Points
    <3>2. p \notin over /\ over \in SUBSET Requests
      BY <1>1 DEF At, IInv, Calls, TypeOK
    <3> QED BY <1>1, <2>2, <3>1, <3>2 DEF Goes
  <2> QED BY <2>1, <2>2 DEF Commit
<1>6. /\ pc'[p] = next /\ \A q \in Threads : q # p => pc'[q] = pc[q]
      /\ pc' \in [Threads -> Call \cup {Nil}]
  BY <1>5 DEF IInv, TypeOK, CallOK
<1>7. TypeOK'
  BY <1>3, <1>4, <1>5, <1>6 DEF TypeOK
<1>8. Calls'
  <2>1. over \subseteq Threads
    BY DEF IInv, TypeOK, Threads
  <2> QED BY <1>5, <1>6, <2>1 DEF IInv, Calls
<1>9. Locked'
  BY <1>2, <1>4, <1>5, <1>6 DEF Locked, At
<1> QED BY <1>3, <1>7, <1>8, <1>9 DEF IInv

LEMMA CloseIInv ==
  ASSUME IInv, NEW p \in Threads, Close(p)
  PROVE  IInv'
<1>1. CASE writer # p
  BY <1>1 DEF Close, IInv, TypeOK, Calls, Locked, NoOrphans, At
<1>2. CASE writer = p /\ pc[p] = Nil
  BY <1>2, NilFacts DEF Close, IInv, TypeOK, Calls, Locked, NoOrphans, At
<1>3. pc[p] = Nil
  BY DEF Close, IInv, Calls
<1> QED BY <1>1, <1>2, <1>3

LEMMA CrashIInv ==
  ASSUME IInv, Crash
  PROVE  IInv'
BY DEF Crash, IInv, TypeOK, Calls, Locked, NoOrphans, At

LEMMA StepIInv ==
  ASSUME IInv, [Next]_vars
  PROVE  IInv'
<1>1. CASE UNCHANGED vars
  BY <1>1 DEF vars, IInv, TypeOK, Calls, Locked, NoOrphans, At
<1>2. ASSUME NEW p \in Threads, GiveUp(p) PROVE IInv'
  BY <1>2, EndsIInv DEF GiveUp, At
<1> QED BY <1>1, <1>2, StartIInv, ReadIInv, WriteIInv, CommitIInv, CloseIInv, CrashIInv
        DEF Next, Step

LEMMA InitIInv == Init => IInv
BY DEF Init, IInv, TypeOK, Calls, Locked, NoOrphans, At, Db, States

LEMMA Inductive == Spec => []IInv
BY InitIInv, StepIInv, PTL DEF Spec

-----------------------------------------------------------------------------
(* The theorems. *)

\* Type correctness.
THEOREM StoreTypeCorrect == Spec => []TypeOK
<1>1. IInv => TypeOK
  BY DEF IInv
<1> QED BY <1>1, Inductive, PTL

\* In the tables that REFERENCE messages a removal leaves no row behind and no
\* later insert brings one back, in whatever order the event loop and the requests
\* reach the database.
THEOREM RowsHaveTheirMessage == Spec => []NoOrphans
<1>1. IInv => NoOrphans
  BY DEF IInv
<1> QED BY <1>1, Inductive, PTL

\* What a call concluded from a terminal state leaves it alone, unless it is
\* the operator's.
LEMMA FirmAccepts ==
  ASSUME NEW call, CallOK(call), call.at = "commit", call.first, call.to # Nil,
         call.seen \in Terminal, call.op # "retry"
  PROVE  call.seen = "stored" /\ call.to = "delivered"
<1>1. call.op \notin {"insert", "part", "keep", "inbox"}
  BY NilFacts DEF CallOK, To
<1>2. call.seen # Nil /\ Accepts(call, call.seen)
  BY <1>1 DEF CallOK
<1>3. call.op \in {"cancel", "retry_now", "defer", "hold", "move"}
  BY <1>1, NilFacts DEF CallOK, Call, RequestOps, LoopOps, To
<1>4. CASE call.op = "retry_now"
  BY <1>2, <1>4 DEF Accepts, Terminal
<1>5. CASE call.op = "defer"
  BY <1>2, <1>5 DEF Accepts, Terminal, CanDefer, CanTransition
<1>6. CASE call.op \in {"cancel", "hold", "move"}
  BY <1>2, <1>6 DEF Accepts, Terminal, CanTransition
<1> QED BY <1>3, <1>4, <1>5, <1>6

\* A settled message that no call under way has seen otherwise stays settled,
\* although methods look and write in two statements.
THEOREM SettledAlwaysStands == Spec => SettledStands
<1>1. ASSUME IInv, NEW m \in Messages, Firm(m), NEW p \in Threads, Commit(p)
      PROVE  \/ db'.state[m] = db.state[m]
             \/ db.state[m] = "stored" /\ db'.state[m] = "delivered"
             \/ \E r \in Requests :
                  /\ pc[r] # Nil /\ pc[r].at = "commit"
                  /\ pc[r].op \in {"retry", "delete"} /\ pc[r].msg = m
  <2> DEFINE call == pc[p]
  <2>1. /\ call # Nil /\ CallOK(call) /\ call.at = "commit" /\ db \in Db
        /\ p \in Requests \/ call.op \in LoopOps
        /\ db' = Written(db, call) /\ db.state[m] \in Terminal
    BY <1>1 DEF Commit, At, IInv, Calls, Locked, TypeOK, Firm, Threads
  <2>2. CASE call.first /\ call.to # Nil
    <3>1. db' = Put(db, call.msg, call.to)
      BY <2>1, <2>2 DEF Written
    <3>2. CASE call.msg # m \/ db.state[m] = "gone"
      BY <2>1, <3>1, <3>2 DEF Put, Db
    <3>3. CASE call.msg = m /\ db.state[m] # "gone"
      <4>1. call.seen # Nil
        BY <2>1, <2>2, NilFacts DEF CallOK, To
      <4>2. call.seen = db.state[m]
        BY <1>1, <2>1, <3>3, <4>1 DEF Firm
      <4>3. CASE call.op = "retry"
        <5>1. p \in Requests
          BY <2>1, <4>3 DEF LoopOps
        <5> QED BY <2>1, <3>3, <4>3, <5>1
      <4>4. CASE call.op # "retry"
        <5>1. db.state[m] = "stored" /\ call.to = "delivered"
          BY <2>1, <2>2, <4>2, <4>4, FirmAccepts
        <5>2. db'.state[m] = call.to
          BY <2>1, <3>1, <3>3 DEF Put, Db
        <5> QED BY <5>1, <5>2
      <4> QED BY <4>3, <4>4
    <3> QED BY <3>2, <3>3
  <2>3. CASE ~(call.first /\ call.to # Nil) /\ call.op = "delete"
    <3>1. CASE call.msg # m
      BY <2>1, <2>3, <3>1 DEF Written, Db
    <3>2. CASE call.msg = m
      BY <2>1, <2>3, <3>2 DEF LoopOps
    <3> QED BY <3>1, <3>2
  <2>4. CASE ~(call.first /\ call.to # Nil) /\ call.op # "delete"
    BY <2>1, <2>4 DEF Written, Db
  <2> QED BY <2>2, <2>3, <2>4
<1>2. ASSUME IInv, [Next]_vars, ~(\E p \in Threads : Commit(p))
      PROVE  db' = db
  BY <1>2 DEF Next, Step, vars, Start, Read, Write, Close, GiveUp, Crash
<1>3. IInv /\ [Next]_vars =>
        [\A m \in Messages :
           Firm(m) =>
             \/ db'.state[m] = db.state[m]
             \/ db.state[m] = "stored" /\ db'.state[m] = "delivered"
             \/ \E r \in Requests :
                  /\ pc[r] # Nil /\ pc[r].at = "commit"
                  /\ pc[r].op \in {"retry", "delete"} /\ pc[r].msg = m]_vars
  BY <1>1, <1>2
<1> QED BY <1>3, Inductive, PTL DEF Spec, SettledStands

=============================================================================
