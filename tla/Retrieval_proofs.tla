-------------------------- MODULE Retrieval_proofs --------------------------
(****************************************************************************)
(* What holds of Retrieval for every set of announced messages, custodians  *)
(* and budgets: its type invariant, that a window is never given to another *)
(* message, that a restart loses no announced message, how many queries one *)
(* announcement can cause, and how many a message gets before it is given   *)
(* up.                                                                      *)
(****************************************************************************)
EXTENDS Retrieval, SequenceTheorems, TLAPS

-----------------------------------------------------------------------------
(* The invariant, as a property of a book where the steps change one. *)

\* A window belongs to a pending message of its custodian.
Owned(b) ==
  \A c \in Custodians :
    b.flight[c] # Nil => At[b.flight[c]] = c /\ b.pending[b.flight[c]] # Nil

\* What is pending is so in the log too.
Open == {"pending", "submitted", "failed", "partial", "timeout", "rearmed"}
Logged(b) == \A k \in Keys : b.pending[k] # Nil => b.log[k].last \in Open

BookOK(b) == b \in Book /\ Owned(b) /\ Logged(b)

\* The message the loop asks for has tries left, and its custodian no window.
RowOK(b, r) ==
  r # Nil => r \in Due /\ r.tries < MaxTries /\ b.flight[At[r.key]] = Nil

\* The rows the pass works with are of different messages.
Distinct(lp) ==
  /\ \A q, r \in lp.todo : q.key = r.key => q = r
  /\ lp.row # Nil => \A q \in lp.todo : q.key # lp.row.key

LoopOK(b, lp) == lp \in Loop /\ RowOK(b, lp.row) /\ Distinct(lp)

IInv == TypeOK /\ BookOK(book) /\ LoopOK(book, loop)

\* No step but a handoff opens a window.
Closes(b, b2) == \A c \in Custodians : b2.flight[c] \in {b.flight[c], Nil}

\* The times of the events.
StampsType == fresh \subseteq Events \X Keys /\ startup \in {"works", "raises", "raised"}

LEMMA StampedType ==
  ASSUME StampsType, book' \in Book, NEW before, NEW also, Stamped(before, also),
         before \in {fresh, {}},
         \A e \in also : e[1] \in Repeats => e \in Events \X Keys
  PROVE  StampsType'
<1> DEFINE logged == {k \in Keys : book'.log[k] # book.log[k]}
           now == before \cup also \cup {<<book'.log[k].last, k>> : k \in logged}
<1>1. ASSUME NEW k \in Keys PROVE <<book'.log[k].last, k>> \in Events \X Keys
  BY <1>1 DEF Book, Note
<1>2. {e \in now : e[1] \in Repeats} \subseteq Events \X Keys
  BY <1>1 DEF StampsType
<1>3. /\ fresh' = {} \/ fresh' = {e \in now : e[1] \in Repeats}
      /\ startup' \in {startup, "raises"}
  BY DEF Stamped
<1> HIDE DEF now
<1> QED BY <1>2, <1>3 DEF StampsType

\* In the beginning nothing is announced.
LEMMA InitIInv == Init => IInv
<1> SUFFICES ASSUME Init PROVE IInv
  OBVIOUS
<1>1. [last |-> "none", tries |-> 0, sent |-> FALSE] \in Note
  BY RetrievalAssumption DEF Note, Events
<1>2. book \in Book
  BY <1>1 DEF Init, Book
<1>3. Owned(book) /\ Logged(book)
  BY DEF Init, Owned, Logged
<1>4. LoopOK(book, loop) /\ loop = LoopIdle
  BY DEF Init, LoopOK, Loop, LoopIdle, RowOK, Distinct
<1>5. TypeOK
  BY <1>2, <1>4, RetrievalAssumption DEF Init, TypeOK, LoopOK
<1> QED BY <1>2, <1>3, <1>4, <1>5 DEF IInv, BookOK

-----------------------------------------------------------------------------
(* The operations on a book. *)

\* An event that is noted changes the log of its message only.
LEMMA NotedKeeps ==
  ASSUME NEW b \in Book, NEW k \in Keys, NEW event \in Events, NEW tries \in 0..MaxTries
  PROVE  /\ Noted(b, k, event, tries) \in Book
         /\ Noted(b, k, event, tries).pending = b.pending
         /\ Noted(b, k, event, tries).flight = b.flight
         /\ Noted(b, k, event, tries).completed = b.completed
         /\ \A j \in Keys : j # k => Noted(b, k, event, tries).log[j] = b.log[j]
         /\ Noted(b, k, event, tries).log[k].last = event
         /\ Noted(b, k, event, tries).log[k].tries = tries
         /\ event = "submitted" => Noted(b, k, event, tries).log[k].sent
         /\ event \notin {"pending", "rearmed", "submitted"} =>
              Noted(b, k, event, tries).log[k].sent = b.log[k].sent
<1> DEFINE s == CASE event \in {"pending", "rearmed"} -> FALSE
                  [] event = "submitted" -> TRUE
                  [] OTHER -> b.log[k].sent
           n == [last |-> event, tries |-> tries, sent |-> s]
<1>1. Noted(b, k, event, tries) = [b EXCEPT !.log = [b.log EXCEPT ![k] = n]]
  BY DEF Noted, Book
<1>2. /\ s \in BOOLEAN
      /\ event = "submitted" => s
      /\ event \notin {"pending", "rearmed", "submitted"} => s = b.log[k].sent
  BY DEF Book, Note
<1> HIDE DEF s
<1>3. n \in Note /\ n.last = event /\ n.tries = tries /\ n.sent = s
  BY <1>2 DEF Note
<1> HIDE DEF n
<1>4. [b.log EXCEPT ![k] = n] \in [Keys -> Note]
  BY <1>3 DEF Book
<1>5. Noted(b, k, event, tries) \in Book
  BY <1>1, <1>4 DEF Book
<1>6. Noted(b, k, event, tries).log = [b.log EXCEPT ![k] = n]
  BY <1>1 DEF Book
<1>7. b.log \in [Keys -> Note]
  BY DEF Book
<1>8. /\ \A j \in Keys : j # k => Noted(b, k, event, tries).log[j] = b.log[j]
      /\ Noted(b, k, event, tries).log[k] = n
  BY <1>6, <1>7
<1>9. /\ Noted(b, k, event, tries).pending = b.pending
      /\ Noted(b, k, event, tries).flight = b.flight
      /\ Noted(b, k, event, tries).completed = b.completed
  BY <1>1 DEF Book
<1> QED BY <1>2, <1>3, <1>5, <1>8, <1>9

\* An announcement opens nothing and is logged.
LEMMA AnnouncedOK ==
  ASSUME NEW b, BookOK(b), NEW k \in Keys
  PROVE  BookOK(Announced(b, k)) /\ Closes(b, Announced(b, k))
<1> DEFINE row == [tries |-> 0, due |-> TRUE]
           b1 == [b EXCEPT !.pending[k] = row]
<1>1. row \in Row
  BY RetrievalAssumption DEF Row
<1>2. /\ b1 \in Book /\ b1.log = b.log /\ b1.flight = b.flight
      /\ \A j \in Keys : b1.pending[j] = IF j = k THEN row ELSE b.pending[j]
  BY <1>1 DEF BookOK, Book
<1>3. CASE k \in b.completed \/ b.pending[k] # Nil
  BY <1>3 DEF Announced, BookOK, Book, Closes
<1>4. CASE ~(k \in b.completed \/ b.pending[k] # Nil)
  <2> DEFINE b2 == Noted(b1, k, "pending", 0)
  <2>1. Announced(b, k) = b2
    BY <1>4 DEF Announced
  <2> HIDE DEF b1, row
  <2>5. b1 \in Book /\ 0 \in 0..MaxTries /\ "pending" \in Events
    BY <1>2, RetrievalAssumption DEF Events
  <2>6. /\ b2 \in Book /\ b2.pending = b1.pending /\ b2.flight = b1.flight
        /\ \A j \in Keys : j # k => b2.log[j] = b1.log[j]
        /\ b2.log[k].last = "pending"
    BY <2>5, NotedKeeps
  <2> HIDE DEF b2
  <2>2. /\ b2 \in Book /\ b2.pending = b1.pending /\ b2.flight = b.flight
        /\ \A j \in Keys : j # k => b2.log[j] = b.log[j]
        /\ b2.log[k].last = "pending"
    BY <1>2, <2>6
  <2>3. Owned(b2)
    BY <1>1, <1>2, <2>2, NilAssumption DEF Owned, BookOK, Book
  <2>4. Logged(b2)
    BY <1>2, <2>2 DEF Logged, BookOK, Open
  <2> QED BY <2>1, <2>2, <2>3, <2>4 DEF BookOK, Closes
<1> QED BY <1>3, <1>4

\* A book with another row for k.
Put(b, k, row) == [b EXCEPT !.pending[k] = row]

\* A row set to something else, with an event, is the general case of the rest.
LEMMA RowSet ==
  ASSUME NEW b, BookOK(b), NEW k \in Keys, NEW row \in Row,
         NEW event \in Open, NEW tries \in 0..MaxTries
  PROVE  /\ BookOK(Noted(Put(b, k, row), k, event, tries))
         /\ Noted(Put(b, k, row), k, event, tries).flight = b.flight
<1> DEFINE b1 == Put(b, k, row)
           b2 == Noted(b1, k, event, tries)
<1>1. /\ b1 \in Book /\ b1.log = b.log /\ b1.flight = b.flight
      /\ b1.pending = [b.pending EXCEPT ![k] = row]
  BY DEF BookOK, Book, Put
<1>2. event \in Events
  BY DEF Open, Events
<1> HIDE DEF b1
<1>3. /\ b2 \in Book /\ b2.pending = b1.pending /\ b2.flight = b1.flight
      /\ \A j \in Keys : j # k => b2.log[j] = b1.log[j]
      /\ b2.log[k].last = event
  BY <1>1, <1>2, NotedKeeps
<1> HIDE DEF b2
<1>4. b.pending \in [Keys -> Row \cup {Nil}] /\ b.flight \in [Custodians -> Keys \cup {Nil}]
  BY DEF BookOK, Book
<1>5. Owned(b2)
  BY <1>1, <1>3, <1>4, NilAssumption DEF Owned, BookOK
<1>6. Logged(b2)
  BY <1>1, <1>3, <1>4 DEF Logged, BookOK
<1>7. BookOK(b2) /\ b2.flight = b.flight
  BY <1>1, <1>3, <1>5, <1>6 DEF BookOK
<1> QED BY <1>7 DEF b1, b2

\* Windows that run out are closed, and their messages stay pending.
LEMMA TimedOutOK ==
  ASSUME NEW b, BookOK(b)
  PROVE  BookOK(TimedOut(b)) /\ Closes(b, TimedOut(b)) /\ TimedOut(b).pending = b.pending
<1> DEFINE late == {b.flight[c] : c \in Late(b)}
           flight2 == [c \in Custodians |-> IF c \in Late(b) THEN Nil ELSE b.flight[c]]
           log2 == [k \in Keys |->
                      IF k \in late THEN [b.log[k] EXCEPT !.last = "timeout",
                                                         !.tries = b.pending[k].tries]
                      ELSE b.log[k]]
           b2 == [b EXCEPT !.flight = flight2, !.log = log2]
<1>1. TimedOut(b) = b2
  BY DEF TimedOut, BookOK, Book
<1>2. /\ b.pending \in [Keys -> Row \cup {Nil}] /\ b.log \in [Keys -> Note]
      /\ b.flight \in [Custodians -> Keys \cup {Nil}]
  BY DEF BookOK, Book
<1>3. \A k \in late : k \in Keys => b.pending[k] \in Row
  BY <1>2 DEF Late, BookOK, Owned
<1>4. flight2 \in [Custodians -> Keys \cup {Nil}]
  BY <1>2
<1>5. ASSUME NEW k \in Keys
      PROVE  log2[k] \in Note /\ (log2[k].last = b.log[k].last \/ log2[k].last = "timeout")
  BY <1>2, <1>3, <1>5 DEF Note, Row, Events
<1>6. log2 \in [Keys -> Note]
  BY <1>5
<1> HIDE DEF flight2, log2
<1>7. b2 \in Book /\ b2.flight = flight2 /\ b2.log = log2 /\ b2.pending = b.pending
  BY <1>4, <1>6 DEF BookOK, Book
<1> HIDE DEF b2
<1>8. Owned(b2)
  BY <1>7 DEF flight2, BookOK, Owned
<1>9. Logged(b2)
  BY <1>5, <1>7 DEF BookOK, Logged, Open
<1>10. Closes(b, b2)
  BY <1>7 DEF flight2, Closes
<1> QED BY <1>1, <1>7, <1>8, <1>9, <1>10 DEF BookOK

\* Giving up messages without a window closes none.
LEMMA ExhaustedOK ==
  ASSUME NEW b, BookOK(b), NEW keys \in SUBSET Keys,
         \A k \in keys : b.flight[At[k]] = Nil
  PROVE  /\ BookOK(Exhausted(b, keys)) /\ Exhausted(b, keys).flight = b.flight
         /\ Exhausted(b, keys).pending = [k \in Keys |-> IF k \in keys THEN Nil ELSE b.pending[k]]
<1> DEFINE pending2 == [k \in Keys |-> IF k \in keys THEN Nil ELSE b.pending[k]]
           log2 == [k \in Keys |->
                      IF k \in keys THEN [b.log[k] EXCEPT !.last = "exhausted", !.tries = MaxTries]
                      ELSE b.log[k]]
           b2 == [b EXCEPT !.pending = pending2, !.log = log2]
<1>1. Exhausted(b, keys) = b2
  BY DEF Exhausted, BookOK, Book
<1>2. /\ b.pending \in [Keys -> Row \cup {Nil}] /\ b.log \in [Keys -> Note]
      /\ b.flight \in [Custodians -> Keys \cup {Nil}]
  BY DEF BookOK, Book
<1>3. pending2 \in [Keys -> Row \cup {Nil}]
  BY <1>2
<1>4. ASSUME NEW k \in Keys
      PROVE  log2[k] \in Note /\ (k \notin keys => log2[k] = b.log[k])
  <2>1. MaxTries \in 0..MaxTries /\ "exhausted" \in Events
    BY RetrievalAssumption DEF Events
  <2>2. b.log[k] \in Note
    BY <1>2
  <2>3. [b.log[k] EXCEPT !.last = "exhausted", !.tries = MaxTries] \in Note
    BY <2>1, <2>2 DEF Note
  <2> QED BY <2>2, <2>3
<1>5. log2 \in [Keys -> Note]
  BY <1>4
<1> HIDE DEF log2
<1>6. b2 \in Book /\ b2.flight = b.flight /\ b2.log = log2 /\ b2.pending = pending2
  BY <1>3, <1>5 DEF BookOK, Book
<1> HIDE DEF b2
<1>7. Owned(b2)
  BY <1>2, <1>6 DEF BookOK, Owned
<1>8. Logged(b2)
  BY <1>2, <1>4, <1>6 DEF BookOK, Logged
<1> QED BY <1>1, <1>6, <1>7, <1>8 DEF BookOK

\* The handoff opens the window of the message that was asked for.
LEMMA SubmittedOK ==
  ASSUME NEW b, BookOK(b), NEW r \in Due, RowOK(b, r)
  PROVE  LET b2 == Submitted(b, r)
         IN  /\ BookOK(b2) /\ r.key \in Keys
             /\ \A c \in Custodians : c # At[r.key] => b2.flight[c] = b.flight[c]
<1> DEFINE row == [tries |-> r.tries + 1, due |-> FALSE]
           b1 == [b EXCEPT !.pending[r.key] = row, !.flight[At[r.key]] = r.key]
           b2 == Noted(b1, r.key, "submitted", r.tries + 1)
<1>1. /\ r # Nil /\ r.key \in Keys /\ r.tries \in 0..MaxTries /\ r.tries < MaxTries
      /\ At[r.key] \in Custodians
  BY NilAssumption, RetrievalAssumption DEF RowOK, Due
<1>2. r.tries + 1 \in 0..MaxTries /\ "submitted" \in Events
  BY <1>1, RetrievalAssumption DEF Events
<1>10. row \in Row
  BY <1>2 DEF Row
<1> HIDE DEF row
<1>3. row \in Row /\ row # Nil
  BY <1>10, NilAssumption
<1>4. /\ b.pending \in [Keys -> Row \cup {Nil}]
      /\ b.flight \in [Custodians -> Keys \cup {Nil}]
  BY DEF BookOK, Book
<1>5. /\ b1 \in Book /\ b1.log = b.log
      /\ b1.flight = [b.flight EXCEPT ![At[r.key]] = r.key]
      /\ b1.pending = [b.pending EXCEPT ![r.key] = row]
  BY <1>1, <1>3 DEF BookOK, Book
<1> HIDE DEF b1
<1>6. /\ b2 \in Book /\ b2.pending = b1.pending /\ b2.flight = b1.flight
      /\ \A j \in Keys : j # r.key => b2.log[j] = b1.log[j]
      /\ b2.log[r.key].last = "submitted"
  BY <1>1, <1>2, <1>5, NotedKeeps
<1>7. Submitted(b, r) = b2
  BY DEF Submitted, b1, row
<1> HIDE DEF b2
<1>8. Owned(b2)
  BY <1>1, <1>3, <1>4, <1>5, <1>6 DEF BookOK, Owned
<1>9. Logged(b2)
  BY <1>1, <1>4, <1>5, <1>6 DEF BookOK, Logged, Open
<1> QED BY <1>1, <1>4, <1>5, <1>6, <1>7, <1>8, <1>9 DEF BookOK

\* A query that failed is pending, as it was.
LEMMA FailedOK ==
  ASSUME NEW b, BookOK(b), NEW r \in Due
  PROVE  BookOK(Failed(b, r)) /\ Failed(b, r).flight = b.flight
<1>1. r.key \in Keys /\ r.tries \in 0..MaxTries
  BY DEF Due
<1> DEFINE row == [tries |-> r.tries, due |-> FALSE]
<1>2. row \in Row /\ "failed" \in Open
  BY <1>1 DEF Row, Open
<1>3. Failed(b, r) = Noted(Put(b, r.key, row), r.key, "failed", r.tries)
  BY DEF Failed, Put
<1> HIDE DEF row
<1> QED BY <1>1, <1>2, <1>3, RowSet

\* An answer closes the window and settles the message, or leaves it pending.
LEMMA AnsweredOK ==
  ASSUME NEW b, BookOK(b), NEW call \in Call
  PROVE  BookOK(Answered(b, call)) /\ Closes(b, Answered(b, call))
<1> DEFINE k == call.key
           row == b.pending[k]
           b2 == [b EXCEPT !.flight[At[k]] = Nil]
<1>1. k \in Keys /\ call.partial \in BOOLEAN /\ At[k] \in Custodians
  BY RetrievalAssumption DEF Call
<1>2. /\ b.pending \in [Keys -> Row \cup {Nil}]
      /\ b.flight \in [Custodians -> Keys \cup {Nil}]
  BY DEF BookOK, Book
<1>3. /\ b2 \in Book /\ b2.log = b.log /\ b2.pending = b.pending
      /\ b2.completed = b.completed
      /\ b2.flight = [b.flight EXCEPT ![At[k]] = Nil]
  BY <1>1 DEF BookOK, Book
<1> HIDE DEF b2
<1>4. BookOK(b2) /\ Closes(b, b2)
  BY <1>1, <1>2, <1>3 DEF BookOK, Owned, Logged, Closes
<1>5. CASE row = Nil
  BY <1>5, <1>2 DEF Answered, Closes
<1>6. CASE row # Nil /\ call.partial /\ row.due /\ row.tries < MaxTries
  <2> DEFINE row2 == [row EXCEPT !.due = FALSE]
             b3 == Noted(Put(b2, k, row2), k, "partial", row.tries)
  <2>1. row \in Row /\ row.tries \in 0..MaxTries /\ row2 \in Row /\ "partial" \in Open
    BY <1>1, <1>2, <1>6 DEF Row, Open
  <2>3. Answered(b, call) = b3
    BY <1>3, <1>6 DEF Answered, b2, Put
  <2> HIDE DEF row2
  <2>2. BookOK(b3) /\ b3.flight = b2.flight
    BY <1>1, <1>4, <2>1, RowSet
  <2> QED BY <1>4, <2>2, <2>3 DEF Closes
<1>7. CASE row # Nil /\ call.partial /\ ~(row.due /\ row.tries < MaxTries)
  BY <1>4, <1>7 DEF Answered, b2
<1>8. CASE row # Nil /\ ~call.partial
  <2> DEFINE b3 == [b2 EXCEPT !.pending[k] = Nil, !.completed = @ \cup {k}]
             b4 == Noted(b3, k, "completed", row.tries)
  <2>1. row \in Row /\ row.tries \in 0..MaxTries /\ "completed" \in Events
    BY <1>1, <1>2, <1>8 DEF Row, Events
  <2>2. /\ b3 \in Book /\ b3.log = b.log /\ b3.flight = b2.flight
        /\ b3.pending = [b.pending EXCEPT ![k] = Nil]
    BY <1>1, <1>3 DEF Book
  <2> HIDE DEF b3
  <2>3. /\ b4 \in Book /\ b4.pending = b3.pending /\ b4.flight = b3.flight
        /\ \A j \in Keys : j # k => b4.log[j] = b3.log[j]
    BY <1>1, <2>1, <2>2, NotedKeeps
  <2>4. Answered(b, call) = b4
    BY <1>8 DEF Answered, b2, b3
  <2> HIDE DEF b4
  <2>5. Owned(b4)
    BY <1>1, <1>2, <1>3, <1>4, <2>2, <2>3 DEF Owned, BookOK
  <2>6. Logged(b4)
    BY <1>1, <1>2, <2>2, <2>3 DEF Logged, BookOK
  <2> QED BY <1>4, <2>2, <2>3, <2>4, <2>5, <2>6 DEF BookOK, Closes
<1> QED BY <1>1, <1>5, <1>6, <1>7, <1>8

\* What a restart reads back is in order, has no window, and has every message
\* that was pending.
LEMMA RestoredOK ==
  ASSUME NEW b, BookOK(b)
  PROVE  /\ BookOK(Restored(b))
         /\ \A c \in Custodians : Restored(b).flight[c] = Nil
         /\ \A k \in Keys : b.pending[k] # Nil => Restored(b).pending[k] # Nil
<1> DEFINE anew == [tries |-> 0, due |-> TRUE]
           again(k) == [tries |-> Least(b.log[k].tries, MaxTries - 1), due |-> TRUE]
           rearm == [last |-> "rearmed", tries |-> 0, sent |-> FALSE]
           b2 == Restored(b)
<1>1. b.pending \in [Keys -> Row \cup {Nil}] /\ b.log \in [Keys -> Note]
  BY DEF BookOK, Book
<1>2. ASSUME NEW k \in Keys
      PROVE  /\ b.log[k] \in Note /\ b.log[k].tries \in 0..MaxTries
             /\ b.log[k].last \in Events
  BY <1>1 DEF Note
<1>3. anew \in Row /\ rearm \in Note
  BY RetrievalAssumption DEF Row, Note, Events
<1>4. ASSUME NEW k \in Keys
      PROVE  again(k) \in Row
  <2>1. Least(b.log[k].tries, MaxTries - 1) \in 0..MaxTries
    BY <1>2, RetrievalAssumption DEF Least
  <2> QED BY <2>1 DEF Row
<1> HIDE DEF anew, again, rearm
<1>5. ASSUME NEW k \in Keys
      PROVE  /\ b2.pending[k] = CASE b.log[k].last \in {"none", "exhausted"} -> Nil
                                 [] b.log[k].last = "completed" ->
                                      IF Rearms(b, k) THEN anew ELSE Nil
                                 [] OTHER -> again(k)
             /\ b2.log[k] = IF Rearms(b, k) THEN rearm ELSE b.log[k]
  BY DEF Restored, anew, again, rearm
<1>6. ASSUME NEW k \in Keys
      PROVE  /\ b2.pending[k] \in Row \cup {Nil} /\ b2.log[k] \in Note
             /\ b2.pending[k] # Nil => b2.log[k].last \in Open
             /\ b.log[k].last \in Open => b2.pending[k] = again(k)
  <2>1. CASE b.log[k].last \in {"none", "exhausted"}
    <3>1. b2.pending[k] = Nil /\ b2.log[k] = b.log[k] /\ b.log[k].last \notin Open
      BY <1>5, <2>1 DEF Rearms, Open
    <3> QED BY <1>2, <3>1
  <2>2. CASE b.log[k].last = "completed"
    <3>1. /\ b2.pending[k] = (IF Rearms(b, k) THEN anew ELSE Nil)
          /\ b2.log[k] = (IF Rearms(b, k) THEN rearm ELSE b.log[k])
          /\ b.log[k].last \notin Open
      BY <1>5, <2>2 DEF Open
    <3>2. rearm.last \in Open
      BY DEF rearm, Open
    <3> QED BY <1>2, <1>3, <3>1, <3>2
  <2>3. CASE b.log[k].last \notin {"none", "exhausted", "completed"}
    <3>1. /\ b2.pending[k] = again(k)
          /\ b2.log[k] = b.log[k] /\ b.log[k].last \in Open
      BY <1>2, <1>5, <2>3 DEF Rearms, Open, Events
    <3> QED BY <1>2, <1>4, <3>1
  <2> QED BY <2>1, <2>2, <2>3
<1>7. /\ b2 \in [pending : {b2.pending}, completed : SUBSET Keys,
                 flight : [Custodians -> Keys \cup {Nil}], log : {b2.log}]
      /\ b2.pending = [k \in Keys |-> b2.pending[k]] /\ b2.log = [k \in Keys |-> b2.log[k]]
      /\ \A c \in Custodians : b2.flight[c] = Nil
  BY DEF Restored
<1> HIDE DEF b2
<1>8. b2.pending \in [Keys -> Row \cup {Nil}] /\ b2.log \in [Keys -> Note]
  BY <1>6, <1>7
<1>9. b2 \in Book
  BY <1>7, <1>8 DEF Book
<1>10. Owned(b2) /\ Logged(b2)
  BY <1>6, <1>7 DEF Owned, Logged
<1>11. \A k \in Keys : b.pending[k] # Nil => b2.pending[k] # Nil
  BY <1>4, <1>6, NilAssumption DEF BookOK, Logged
<1> QED BY <1>7, <1>9, <1>10, <1>11 DEF BookOK, b2

\* The time of a row closes no window by itself.
LEMMA FallDueOK ==
  ASSUME BookOK(book), NEW k \in Keys, FallDue(k)
  PROVE  BookOK(book') /\ book'.flight = book.flight
<1> DEFINE row == [book.pending[k] EXCEPT !.due = TRUE]
           pending2 == [book.pending EXCEPT ![k] = row]
<1>1. /\ book.pending \in [Keys -> Row \cup {Nil}]
      /\ book.flight \in [Custodians -> Keys \cup {Nil}]
  BY DEF BookOK, Book
<1>2. row \in Row
  BY <1>1 DEF FallDue, Row
<1>3. book' = [book EXCEPT !.pending = pending2]
  BY DEF FallDue, BookOK, Book
<1> HIDE DEF row
<1>4. /\ book' \in Book /\ book'.flight = book.flight /\ book'.log = book.log
      /\ book'.pending = pending2
  BY <1>1, <1>2, <1>3 DEF BookOK, Book
<1>5. Owned(book')
  BY <1>1, <1>2, <1>4, NilAssumption DEF BookOK, Owned
<1>6. Logged(book')
  BY <1>1, <1>4 DEF BookOK, Logged, FallDue
<1> QED BY <1>4, <1>5, <1>6 DEF BookOK

-----------------------------------------------------------------------------
(* The steps of the loop. *)

\* The rows that are due are rows, one of each message.
LEMMA DueRowsOK ==
  ASSUME NEW b, BookOK(b)
  PROVE  /\ DueRows(b) \subseteq Due
         /\ \A q, r \in DueRows(b) : q.key = r.key => q = r
<1>1. b.pending \in [Keys -> Row \cup {Nil}]
  BY DEF BookOK, Book
<1>2. \A k \in Keys : b.pending[k] # Nil => b.pending[k].tries \in 0..MaxTries
  BY <1>1 DEF Row
<1> QED BY <1>2 DEF DueRows, Due

\* On through the rows: what was given up had no window, and what is asked for
\* has none.
LEMMA ProceedOK ==
  ASSUME NEW b, BookOK(b), NEW rows \in SUBSET Due,
         \A q, r \in rows : q.key = r.key => q = r,
         NEW rest \in Seq(Call \cup {Nil}), Proceed(b, rows, rest)
  PROVE  /\ BookOK(book') /\ book'.flight = b.flight
         /\ LoopOK(book', loop')
         /\ line' \in Seq(Call \cup {Nil})
<1>1. ASSUME NEW done \in SUBSET Spent(b, rows)
      PROVE  /\ {q.key : q \in done} \in SUBSET Keys
             /\ \A k \in {q.key : q \in done} : b.flight[At[k]] = Nil
  BY DEF Spent, Free, Due
<1>2. CASE \E done \in SUBSET Spent(b, rows), r \in Askable(b, rows) :
             /\ book' = Exhausted(b, {q.key : q \in done})
             /\ loop' = [todo |-> rows \ (done \cup {r}), row |-> r]
             /\ line' = Append(rest, Nil)
  <2>1. PICK done \in SUBSET Spent(b, rows), r \in Askable(b, rows) :
             /\ book' = Exhausted(b, {q.key : q \in done})
             /\ loop' = [todo |-> rows \ (done \cup {r}), row |-> r]
             /\ line' = Append(rest, Nil)
    BY <1>2
  <2>2. BookOK(book') /\ book'.flight = b.flight
    BY <1>1, <2>1, ExhaustedOK
  <2>3. r \in rows /\ r \in Due /\ r.tries < MaxTries /\ b.flight[At[r.key]] = Nil
    BY DEF Askable, Free
  <2>4. LoopOK(book', loop')
    <3>1. loop' \in Loop
      BY <2>1, <2>3 DEF Loop
    <3>2. RowOK(book', loop'.row)
      BY <2>1, <2>2, <2>3 DEF RowOK
    <3>3. Distinct(loop')
      BY <2>1, <2>3 DEF Distinct
    <3> QED BY <3>1, <3>2, <3>3 DEF LoopOK
  <2>5. line' \in Seq(Call \cup {Nil})
    BY <2>1, AppendProperties
  <2> QED BY <2>2, <2>4, <2>5
<1>3. CASE /\ Askable(b, rows) = {}
           /\ book' = Exhausted(b, {q.key : q \in Spent(b, rows)})
           /\ loop' = LoopIdle
           /\ line' = rest
  <2>1. BookOK(book') /\ book'.flight = b.flight
    BY <1>1, <1>3, ExhaustedOK
  <2>2. LoopOK(book', loop')
    BY <1>3 DEF LoopOK, LoopIdle, Loop, RowOK, Distinct
  <2> QED BY <1>3, <2>1, <2>2
<1> QED BY <1>2, <1>3 DEF Proceed

\* A pass begins with the windows that ran out.
LEMMA PassIInv ==
  ASSUME IInv, Pass
  PROVE  IInv' /\ Closes(book, book')
<1>1. BookOK(TimedOut(book)) /\ Closes(book, TimedOut(book))
  BY TimedOutOK DEF IInv
<1>2. /\ DueRows(TimedOut(book)) \in SUBSET Due
      /\ \A q, r \in DueRows(TimedOut(book)) : q.key = r.key => q = r
  BY <1>1, DueRowsOK
<1>3. Proceed(TimedOut(book), DueRows(TimedOut(book)), line) /\ line \in Seq(Call \cup {Nil})
  BY DEF Pass, IInv, TypeOK
<1>4. /\ BookOK(book') /\ book'.flight = TimedOut(book).flight
      /\ LoopOK(book', loop') /\ line' \in Seq(Call \cup {Nil})
  BY <1>1, <1>2, <1>3, ProceedOK
<1>6. StampsType'
  <2>1. Stamped({}, {<<"timeout", book.flight[c]>> : c \in Late(book)})
    BY DEF Pass
  <2>2. "timeout" \notin Repeats
    BY DEF Repeats
  <2> QED BY <1>4, <2>1, <2>2, StampedType DEF IInv, TypeOK, StampsType, BookOK
<1>5. TypeOK'
  BY <1>4, <1>6 DEF IInv, TypeOK, BookOK, LoopOK, Pass, StampsType
<1> QED BY <1>1, <1>4, <1>5 DEF IInv, Closes

\* What the loop has still to look at after its await.
LEMMA TodoOK ==
  ASSUME IInv, loop.row # Nil
  PROVE  /\ loop.todo \in SUBSET Due /\ loop.row \in Due
         /\ \A q, r \in loop.todo : q.key = r.key => q = r
         /\ RowOK(book, loop.row) /\ loop.row.key \in Keys
BY DEF IInv, LoopOK, Loop, Distinct, RowOK, Due

\* A handoff opens the window of a custodian that had none.
LEMMA AskSentIInv ==
  ASSUME IInv, AskSent
  PROVE  /\ IInv'
         /\ \A c \in Custodians :
              book.flight[c] # Nil => book'.flight[c] = book.flight[c]
<1> DEFINE b2 == Submitted(book, loop.row)
<1>0. loop.row # Nil
  BY DEF AskSent
<1>1. /\ BookOK(b2)
      /\ \A c \in Custodians : c # At[loop.row.key] => b2.flight[c] = book.flight[c]
  BY <1>0, TodoOK, SubmittedOK DEF IInv
<1>2. Proceed(b2, loop.todo, Tail(line))
  BY DEF AskSent
<1>3. Tail(line) \in Seq(Call \cup {Nil})
  BY HeadTailProperties DEF AskSent, IInv, TypeOK
<1> HIDE DEF b2
<1>4. /\ BookOK(book') /\ book'.flight = b2.flight
      /\ LoopOK(book', loop') /\ line' \in Seq(Call \cup {Nil})
  BY <1>0, <1>1, <1>2, <1>3, TodoOK, ProceedOK
<1>5. asked' \in [Keys -> Nat]
  BY <1>0, TodoOK DEF AskSent, IInv, TypeOK
<1>8. StampsType'
  BY <1>4, StampedType DEF AskSent, StampedLater, IInv, TypeOK, StampsType, BookOK
<1>6. TypeOK'
  BY <1>4, <1>5, <1>8 DEF AskSent, IInv, TypeOK, BookOK, LoopOK, StampsType
<1>7. book.flight[At[loop.row.key]] = Nil
  BY <1>0, TodoOK DEF RowOK
<1> QED BY <1>1, <1>4, <1>6, <1>7 DEF IInv

\* A query that failed closes and opens nothing.
LEMMA AskFailedIInv ==
  ASSUME IInv, AskFailed
  PROVE  IInv' /\ book'.flight = book.flight
<1> DEFINE b2 == Failed(book, loop.row)
<1>0. loop.row # Nil
  BY DEF AskFailed
<1>1. BookOK(b2) /\ b2.flight = book.flight
  BY <1>0, TodoOK, FailedOK DEF IInv
<1>2. PICK i \in 1..Len(line) : Proceed(b2, loop.todo, RemoveAt(line, i))
  BY DEF AskFailed
<1>3. RemoveAt(line, i) \in Seq(Call \cup {Nil})
  <2>1. line \in Seq(Call \cup {Nil}) /\ Len(line) \in Nat
    BY LenProperties DEF IInv, TypeOK
  <2>2. SubSeq(line, 1, i - 1) \in Seq(Call \cup {Nil})
    BY <2>1, SubSeqProperties
  <2>3. SubSeq(line, i + 1, Len(line)) \in Seq(Call \cup {Nil})
    BY <2>1, SubSeqProperties
  <2> QED BY <2>2, <2>3, ConcatProperties DEF RemoveAt
<1> HIDE DEF b2
<1>4. /\ BookOK(book') /\ book'.flight = b2.flight
      /\ LoopOK(book', loop') /\ line' \in Seq(Call \cup {Nil})
  BY <1>0, <1>1, <1>2, <1>3, TodoOK, ProceedOK
<1>6. StampsType'
  <2>1. <<"failed", loop.row.key>> \in Events \X Keys
    BY <1>0, TodoOK DEF Events
  <2>2. Stamped(fresh, {<<"failed", loop.row.key>>})
    BY DEF AskFailed
  <2> QED BY <1>4, <2>1, <2>2, StampedType DEF IInv, TypeOK, StampsType, BookOK
<1>5. TypeOK'
  BY <1>4, <1>6 DEF AskFailed, IInv, TypeOK, BookOK, LoopOK, StampsType
<1> QED BY <1>1, <1>4, <1>5 DEF IInv

-----------------------------------------------------------------------------
(* The other steps leave the loop alone, and open no window. *)

\* The loop's row is as good as it was when no window was opened.
LEMMA LoopStays ==
  ASSUME IInv, BookOK(book'), Closes(book, book'), loop' = loop
  PROVE  LoopOK(book', loop')
<1>1. RowOK(book', loop.row)
  <2> SUFFICES ASSUME loop.row # Nil PROVE RowOK(book', loop.row)
    BY DEF RowOK
  <2>1. At[loop.row.key] \in Custodians
    BY TodoOK, RetrievalAssumption
  <2> QED BY <2>1, TodoOK DEF RowOK, Closes
<1> QED BY <1>1 DEF IInv, LoopOK

\* An announcement.
LEMMA HearAnnouncementIInv ==
  ASSUME IInv, NEW k \in Keys, HearAnnouncement(k)
  PROVE  IInv' /\ Closes(book, book')
<1>1. BookOK(book') /\ Closes(book, book')
  BY AnnouncedOK DEF HearAnnouncement, IInv
<1>2. LoopOK(book', loop')
  BY <1>1, LoopStays DEF HearAnnouncement
<1>3. asked' \in [Keys -> Nat]
  BY DEF HearAnnouncement, IInv, TypeOK
<1>5. StampsType'
  BY <1>1, StampedType DEF HearAnnouncement, IInv, TypeOK, StampsType, BookOK
<1>4. TypeOK'
  BY <1>1, <1>3, <1>5 DEF HearAnnouncement, IInv, TypeOK, BookOK, StampsType
<1> QED BY <1>1, <1>2, <1>4 DEF IInv

\* A message of a custodian, with or without a CAP to wait for.
LEMMA HearMessageIInv ==
  ASSUME IInv, NEW c \in Custodians, NEW partial \in BOOLEAN,
         HearMessage(c, partial)
  PROVE  IInv' /\ Closes(book, book')
<1> DEFINE call == [key |-> Active(book, c), partial |-> partial]
<1>0. book' \in Book => StampsType'
  BY StampedType DEF HearMessage, IInv, TypeOK, StampsType
<1>1. CASE book' = book /\ UNCHANGED <<calls, line>>
  <2>1. BookOK(book') /\ Closes(book, book')
    BY <1>1 DEF IInv, Closes
  <2>2. TypeOK'
    BY <1>0, <1>1 DEF HearMessage, IInv, TypeOK, StampsType
  <2> QED BY <2>1, <2>2, LoopStays DEF IInv, HearMessage
<1>2. CASE Active(book, c) # Nil
  <2>1. call \in Call
    BY <1>2 DEF Active, IInv, BookOK, Book, Call
  <2> HIDE DEF call
  <2>2. CASE book' = Answered(book, call) /\ UNCHANGED <<calls, line>>
    <3>1. BookOK(book') /\ Closes(book, book')
      BY <2>1, <2>2, AnsweredOK DEF IInv
    <3>2. TypeOK'
      BY <1>0, <2>2, <3>1 DEF HearMessage, IInv, TypeOK, BookOK, StampsType
    <3> QED BY <3>1, <3>2, LoopStays DEF IInv, HearMessage
  <2>3. CASE calls' = calls \cup {call} /\ line' = Append(line, call) /\ book' = book
    <3>1. line' \in Seq(Call \cup {Nil})
      BY <2>1, <2>3, AppendProperties DEF IInv, TypeOK
    <3>2. BookOK(book') /\ Closes(book, book')
      BY <2>3 DEF IInv, Closes
    <3>3. TypeOK'
      BY <1>0, <2>1, <2>3, <3>1 DEF HearMessage, IInv, TypeOK, StampsType
    <3> QED BY <3>2, <3>3, LoopStays DEF IInv, HearMessage
  <2> QED BY <1>2, <2>2, <2>3 DEF HearMessage, call
<1> QED BY <1>1, <1>2 DEF HearMessage

\* A handler that goes on.
LEMMA ReturnIInv ==
  ASSUME IInv, NEW call \in calls, Return(call)
  PROVE  IInv' /\ Closes(book, book')
<1>1. call \in Call
  BY DEF IInv, TypeOK
<1>2. BookOK(book') /\ Closes(book, book')
  BY <1>1, AnsweredOK DEF Return, IInv
<1>3. line' \in Seq(Call \cup {Nil})
  BY HeadTailProperties DEF Return, IInv, TypeOK
<1>5. StampsType'
  BY <1>2, StampedType DEF Return, IInv, TypeOK, StampsType, BookOK
<1>4. TypeOK'
  BY <1>2, <1>3, <1>5 DEF Return, IInv, TypeOK, BookOK, StampsType
<1> QED BY <1>2, <1>4, LoopStays DEF IInv, Return

\* Time.
LEMMA FallDueIInv ==
  ASSUME IInv, NEW k \in Keys, FallDue(k)
  PROVE  IInv' /\ Closes(book, book')
<1>1. BookOK(book') /\ Closes(book, book')
  BY FallDueOK DEF IInv, Closes
<1>3. StampsType'
  BY <1>1, StampedType DEF FallDue, StampedLater, IInv, TypeOK, StampsType, BookOK
<1>2. TypeOK'
  BY <1>1, <1>3 DEF FallDue, IInv, TypeOK, BookOK, StampsType
<1> QED BY <1>1, <1>2, LoopStays DEF IInv, FallDue

\* A restart, whether it comes up or not.
LEMMA RestartIInv ==
  ASSUME IInv, Restart \/ RestartRaises
  PROVE  IInv' /\ Closes(book, book')
<1>1. /\ BookOK(book') /\ Closes(book, book')
  BY RestoredOK DEF IInv, Restart, RestartRaises, Closes
<1>0. Stops
  BY DEF Restart, RestartRaises
<1>2. LoopOK(book', loop')
  BY <1>0 DEF Stops, LoopOK, LoopIdle, Loop, RowOK, Distinct
<1>3. restarts' \in 0..MaxRestarts
  BY <1>0, RetrievalAssumption DEF Stops, IInv, TypeOK
<1>4. line' \in Seq(Call \cup {Nil}) /\ calls' \in SUBSET Call
  BY <1>0 DEF Stops
<1>6. StampsType'
  BY <1>1, StampedType
     DEF Restart, RestartRaises, StampedLater, IInv, TypeOK, StampsType, BookOK
<1>5. TypeOK'
  BY <1>0, <1>1, <1>2, <1>3, <1>4, <1>6 DEF Stops, IInv, TypeOK, BookOK, LoopOK, StampsType
<1> QED BY <1>1, <1>2, <1>5 DEF IInv

\* No step breaks the invariant, and none gives an open window to another message.
LEMMA NextIInv ==
  ASSUME IInv, [Next]_vars
  PROVE  /\ IInv'
         /\ \A c \in Custodians :
              book.flight[c] # Nil => book'.flight[c] \in {book.flight[c], Nil}
<1>1. CASE AskSent
  BY <1>1, AskSentIInv
<1>2. CASE AskFailed
  BY <1>2, AskFailedIInv
<1>3. CASE UNCHANGED vars
  <2>1. IInv'
    BY <1>3 DEF vars, IInv, TypeOK, BookOK, Owned, Logged, LoopOK, RowOK, Distinct
  <2> QED BY <1>3, <2>1 DEF vars
<1>4. ASSUME ~AskSent, ~AskFailed, Next
      PROVE  IInv' /\ Closes(book, book')
  BY <1>4, PassIInv, HearAnnouncementIInv, FallDueIInv, HearMessageIInv, ReturnIInv, RestartIInv
     DEF Next
<1> QED BY <1>1, <1>2, <1>3, <1>4 DEF Closes

-----------------------------------------------------------------------------
(* Counting.  What a row, an event that a restart would read, or a row of the *)
(* loop's snapshot says of the tries is never more than what was asked, and   *)
(* never less, but for the restarts.                                          *)

Within(tries, n, rs) == tries <= n /\ n <= tries + rs

CountedAt(b, a, rs, k) ==
  /\ b.pending[k] # Nil => Within(b.pending[k].tries, a[k], rs)
  /\ b.log[k].last \in Open => Within(b.log[k].tries, a[k], rs)
  /\ b.log[k].last = "exhausted" => MaxTries <= a[k]
  /\ ~b.log[k].sent => a[k] <= rs
  /\ a[k] <= MaxTries + rs

Counted(b, a, rs) == \A k \in Keys : CountedAt(b, a, rs, k)

RowsCounted(rows, a, rs) == \A r \in rows : Within(r.tries, a[r.key], rs)

\* A message that an announcement does not queue, and start to count, anew.
Settled(b, k) == b.pending[k] # Nil \/ k \in b.completed

\* The rows of the snapshot that were not looked at yet, and the one that is
\* being asked for.
Rows(lp) == lp.todo \cup (IF lp.row = Nil THEN {} ELSE {lp.row})

\* No message of the snapshot is announced anew under the loop's eyes.
Sheltered(b, lp) == \A r \in Rows(lp) : Settled(b, r.key)

CInv ==
  /\ IInv
  /\ Counted(book, asked, restarts)
  /\ RowsCounted(Rows(loop), asked, restarts)
  /\ Sheltered(book, loop)

\* What is the same in two books is counted in both.
LEMMA SameCounted ==
  ASSUME NEW b, NEW b2, NEW a, NEW a2, NEW rs, NEW k, CountedAt(b, a, rs, k),
         b2.pending[k] = b.pending[k], b2.log[k] = b.log[k], a2[k] = a[k]
  PROVE  CountedAt(b2, a2, rs, k)
BY DEF CountedAt

\* An event about k with the tries of its row.
LEMMA NotedCounted ==
  ASSUME NEW b, NEW b1 \in Book, NEW a, NEW rs \in Nat, Counted(b, a, rs),
         a \in [Keys -> Nat], NEW k \in Keys, NEW event \in Events,
         NEW tries \in 0..MaxTries,
         event \notin {"pending", "rearmed", "exhausted"},
         b1.log = b.log, \A j \in Keys : j # k => b1.pending[j] = b.pending[j],
         b1.pending[k] # Nil => Within(b1.pending[k].tries, a[k], rs),
         event \in Open => Within(tries, a[k], rs)
  PROVE  Counted(Noted(b1, k, event, tries), a, rs)
<1> DEFINE b2 == Noted(b1, k, event, tries)
<1>1. /\ b2.pending = b1.pending
      /\ \A j \in Keys : j # k => b2.log[j] = b1.log[j]
      /\ b2.log[k].last = event /\ b2.log[k].tries = tries
      /\ event = "submitted" => b2.log[k].sent
      /\ event # "submitted" => b2.log[k].sent = b1.log[k].sent
  BY NotedKeeps
<1> HIDE DEF b2
<1>2. \A j \in Keys : j # k => CountedAt(b2, a, rs, j)
  BY <1>1, SameCounted DEF Counted
<1>3. CountedAt(b2, a, rs, k)
  BY <1>1 DEF Counted, CountedAt
<1>4. Counted(b2, a, rs)
  BY <1>2, <1>3 DEF Counted
<1> QED BY <1>4 DEF b2

\* A timeout is noted with the tries of its row.
LEMMA TimedOutCounted ==
  ASSUME NEW b, BookOK(b), NEW a, NEW rs \in Nat, Counted(b, a, rs)
  PROVE  Counted(TimedOut(b), a, rs)
<1> DEFINE late == {b.flight[c] : c \in Late(b)}
           b2 == TimedOut(b)
<1>1. /\ b.log \in [Keys -> Note] /\ b2.pending = b.pending
  BY TimedOutOK DEF BookOK, Book
<1>2. \A k \in Keys : k \in late => b.pending[k] # Nil
  BY DEF Late, BookOK, Owned
<1>3. \A k \in Keys : b2.log[k] = IF k \in late
                                 THEN [b.log[k] EXCEPT !.last = "timeout",
                                                       !.tries = b.pending[k].tries]
                                 ELSE b.log[k]
  BY DEF TimedOut, BookOK, Book
<1> HIDE DEF b2
<1>4. ASSUME NEW k \in Keys PROVE CountedAt(b2, a, rs, k)
  <2>1. CASE k \in late
    <3>1. /\ b2.log[k].last = "timeout" /\ b2.log[k].tries = b.pending[k].tries
          /\ b2.log[k].sent = b.log[k].sent
      BY <1>1, <1>3, <2>1 DEF Note
    <3> QED BY <1>1, <1>2, <2>1, <3>1 DEF Counted, CountedAt
  <2>2. CASE k \notin late
    BY <1>1, <1>3, <2>2, SameCounted DEF Counted
  <2> QED BY <2>1, <2>2
<1> QED BY <1>4 DEF Counted, b2

\* What was given up counts no more.
LEMMA ExhaustedCounted ==
  ASSUME NEW b, BookOK(b), NEW a, NEW rs \in Nat, Counted(b, a, rs),
         NEW keys \in SUBSET Keys,
         \A k \in keys : b.flight[At[k]] = Nil /\ MaxTries <= a[k]
  PROVE  Counted(Exhausted(b, keys), a, rs)
<1> DEFINE b2 == Exhausted(b, keys)
<1>4. b2.pending = [k \in Keys |-> IF k \in keys THEN Nil ELSE b.pending[k]]
  BY ExhaustedOK
<1>1. /\ b.log \in [Keys -> Note]
      /\ \A k \in Keys : b2.pending[k] = IF k \in keys THEN Nil ELSE b.pending[k]
  BY <1>4 DEF BookOK, Book
<1>2. \A k \in Keys : b2.log[k] = IF k \in keys
                                 THEN [b.log[k] EXCEPT !.last = "exhausted", !.tries = MaxTries]
                                 ELSE b.log[k]
  BY DEF Exhausted, BookOK, Book
<1> HIDE DEF b2
<1>3. ASSUME NEW k \in Keys PROVE CountedAt(b2, a, rs, k)
  <2>1. CASE k \in keys
    <3>1. b2.log[k].last = "exhausted" /\ b2.log[k].sent = b.log[k].sent
      BY <1>1, <1>2, <2>1 DEF Note
    <3> QED BY <1>1, <2>1, <3>1 DEF Counted, CountedAt, Open
  <2>2. CASE k \notin keys
    BY <1>1, <1>2, <2>2, SameCounted DEF Counted
  <2> QED BY <2>1, <2>2
<1> QED BY <1>3 DEF Counted, b2

\* On through the rows: only a row with all its tries is given up.
LEMMA ProceedCounted ==
  ASSUME NEW b, BookOK(b), NEW rows \in SUBSET Due,
         \A q, r \in rows : q.key = r.key => q = r,
         NEW rest, Proceed(b, rows, rest),
         NEW a \in [Keys -> Nat], NEW rs \in Nat, Counted(b, a, rs), RowsCounted(rows, a, rs),
         \A r \in rows : Settled(b, r.key)
  PROVE  /\ Counted(book', a, rs) /\ RowsCounted(Rows(loop'), a, rs)
         /\ Sheltered(book', loop')
<1>1. ASSUME NEW done \in SUBSET Spent(b, rows)
      PROVE  /\ Counted(Exhausted(b, {q.key : q \in done}), a, rs)
             /\ \A r \in rows \ done : Settled(Exhausted(b, {q.key : q \in done}), r.key)
  <2> DEFINE keys == {q.key : q \in done}
  <2>1. /\ keys \in SUBSET Keys
        /\ \A k \in keys : b.flight[At[k]] = Nil
    BY DEF Spent, Free, Due
  <2>2. \A q \in done : q \in rows /\ q.tries >= MaxTries /\ q.tries \in Nat /\ q.key \in Keys
    BY DEF Spent, Due
  <2>3. \A k \in keys : MaxTries <= a[k]
    BY <2>2, RetrievalAssumption DEF RowsCounted, Within
  <2>4. \A r \in rows \ done : r.key \in Keys /\ r.key \notin keys
    BY <2>2 DEF Due
  <2>5. /\ Exhausted(b, keys).pending = [k \in Keys |-> IF k \in keys THEN Nil ELSE b.pending[k]]
        /\ Exhausted(b, keys).completed = b.completed
    BY <2>1, ExhaustedOK DEF Exhausted, BookOK, Book
  <2>6. Counted(Exhausted(b, keys), a, rs)
    BY <2>1, <2>3, ExhaustedCounted
  <2> HIDE DEF keys
  <2>7. \A r \in rows \ done : Settled(Exhausted(b, keys), r.key)
    BY <2>4, <2>5 DEF Settled
  <2> QED BY <2>6, <2>7 DEF keys
<1>2. CASE \E done \in SUBSET Spent(b, rows), r \in Askable(b, rows) :
             /\ book' = Exhausted(b, {q.key : q \in done})
             /\ loop' = [todo |-> rows \ (done \cup {r}), row |-> r]
  <2>1. PICK done \in SUBSET Spent(b, rows), r \in Askable(b, rows) :
             /\ book' = Exhausted(b, {q.key : q \in done})
             /\ loop' = [todo |-> rows \ (done \cup {r}), row |-> r]
    BY <1>2
  <2>2. r \in rows /\ r \notin done
    <3>1. r.tries \in Nat /\ MaxTries \in Nat
      BY RetrievalAssumption DEF Askable, Due
    <3> QED BY <3>1 DEF Askable, Spent
  <2>3. Rows(loop') \subseteq rows \ done
    BY <2>1, <2>2 DEF Rows
  <2> QED BY <1>1, <2>1, <2>3 DEF RowsCounted, Sheltered
<1>3. CASE /\ book' = Exhausted(b, {q.key : q \in Spent(b, rows)})
           /\ loop' = LoopIdle
  <2>1. Rows(loop') = {}
    BY <1>3 DEF Rows, LoopIdle
  <2> QED BY <1>1, <1>3, <2>1 DEF RowsCounted, Sheltered
<1> QED BY <1>2, <1>3 DEF Proceed

\* The event of a handoff.
LEMMA SubmissionKeeps ==
  ASSUME NEW b \in Book, NEW k \in Keys, NEW tries \in 0..MaxTries
  PROVE  /\ Noted(b, k, "submitted", tries).pending = b.pending
         /\ \A j \in Keys : j # k => Noted(b, k, "submitted", tries).log[j] = b.log[j]
         /\ Noted(b, k, "submitted", tries).log[k].last = "submitted"
         /\ Noted(b, k, "submitted", tries).log[k].tries = tries
         /\ Noted(b, k, "submitted", tries).log[k].sent
<1>1. "submitted" \in Events
  BY DEF Events
<1> QED BY <1>1, NotedKeeps

\* A handoff is counted in the row and in the log.
LEMMA SubmittedCounted ==
  ASSUME NEW b, BookOK(b), NEW a \in [Keys -> Nat], NEW rs \in Nat, Counted(b, a, rs),
         NEW r \in Due, RowOK(b, r), r # Nil, Within(r.tries, a[r.key], rs)
  PROVE  Counted(Submitted(b, r), [a EXCEPT ![r.key] = @ + 1], rs)
<1> DEFINE k == r.key
           a2 == [a EXCEPT ![k] = @ + 1]
           row == [tries |-> r.tries + 1, due |-> FALSE]
           b1 == [b EXCEPT !.pending[k] = row, !.flight[At[k]] = k]
           b2 == Noted(b1, k, "submitted", r.tries + 1)
<1>1. /\ k \in Keys /\ r.tries \in 0..MaxTries /\ r.tries < MaxTries
      /\ At[k] \in Custodians /\ a[k] \in Nat
  BY RetrievalAssumption DEF RowOK, Due
<1>2. r.tries + 1 \in 0..MaxTries /\ "submitted" \in Events /\ MaxTries \in Nat
  BY <1>1, RetrievalAssumption DEF Events
<1>3. row \in Row /\ row.tries = r.tries + 1
  BY <1>2 DEF Row
<1> HIDE DEF row
<1>4. b.pending \in [Keys -> Row \cup {Nil}]
  BY DEF BookOK, Book
<1>5. /\ b1 \in Book /\ b1.log = b.log
      /\ b1.pending = [b.pending EXCEPT ![k] = row]
  BY <1>1, <1>3 DEF BookOK, Book
<1>6. Submitted(b, r) = b2
  BY DEF Submitted, row
<1> DEFINE t == r.tries + 1
<1>11. t \in 0..MaxTries /\ b2 = Noted(b1, k, "submitted", t)
  BY <1>2
<1> HIDE DEF b1, b2, k, t
<1>13. /\ Noted(b1, k, "submitted", t).pending = b1.pending
       /\ \A j \in Keys : j # k => Noted(b1, k, "submitted", t).log[j] = b1.log[j]
       /\ Noted(b1, k, "submitted", t).log[k].last = "submitted"
       /\ Noted(b1, k, "submitted", t).log[k].tries = t
       /\ Noted(b1, k, "submitted", t).log[k].sent
  BY <1>1, <1>5, <1>11, SubmissionKeeps
<1>7. /\ b2.pending = b1.pending
      /\ \A j \in Keys : j # k => b2.log[j] = b1.log[j]
      /\ b2.log[k].last = "submitted" /\ b2.log[k].tries = t /\ b2.log[k].sent
  BY <1>11, <1>13
<1>8. \A j \in Keys : a2[j] = IF j = k THEN a[k] + 1 ELSE a[j]
  BY <1>1
<1> HIDE DEF a2
<1>9. ASSUME NEW j \in Keys, j # k PROVE CountedAt(b2, a2, rs, j)
  <2>1. b2.pending[j] = b.pending[j] /\ b2.log[j] = b.log[j] /\ a2[j] = a[j]
    BY <1>4, <1>5, <1>7, <1>8, <1>9
  <2> QED BY <2>1, SameCounted DEF Counted
<1>10. CountedAt(b2, a2, rs, k)
  <2>1. r.tries <= a[k] /\ a[k] <= r.tries + rs
    BY DEF k, Within
  <2>2. b2.pending[k] = row
    BY <1>1, <1>4, <1>5, <1>7
  <2> QED BY <1>1, <1>2, <1>3, <1>7, <1>8, <2>1, <2>2 DEF CountedAt, Within, Counted, t
<1>12. Counted(b2, a2, rs)
  BY <1>9, <1>10 DEF Counted
<1> QED BY <1>6, <1>12 DEF a2, b2, k

\* A failure is not counted.
LEMMA FailedCounted ==
  ASSUME NEW b, BookOK(b), NEW a \in [Keys -> Nat], NEW rs \in Nat, Counted(b, a, rs),
         NEW r \in Due, Within(r.tries, a[r.key], rs)
  PROVE  Counted(Failed(b, r), a, rs)
<1> DEFINE row == [tries |-> r.tries, due |-> FALSE]
           b1 == Put(b, r.key, row)
<1>1. r.key \in Keys /\ r.tries \in 0..MaxTries /\ "failed" \in Events
  BY DEF Due, Events
<1>2. row \in Row /\ row.tries = r.tries
  BY <1>1 DEF Row
<1>3. Failed(b, r) = Noted(b1, r.key, "failed", r.tries)
  BY DEF Failed, Put
<1> HIDE DEF row
<1>4. b.pending \in [Keys -> Row \cup {Nil}]
  BY DEF BookOK, Book
<1>5. /\ b1 \in Book /\ b1.log = b.log
      /\ \A j \in Keys : b1.pending[j] = IF j = r.key THEN row ELSE b.pending[j]
  BY <1>1, <1>2, <1>4 DEF BookOK, Book, Put
<1> HIDE DEF b1
<1>6. /\ \A j \in Keys : j # r.key => b1.pending[j] = b.pending[j]
      /\ b1.pending[r.key] # Nil => Within(b1.pending[r.key].tries, a[r.key], rs)
  BY <1>1, <1>2, <1>5
<1>7. "failed" \notin {"pending", "rearmed", "exhausted"}
  OBVIOUS
<1>8. Counted(Noted(b1, r.key, "failed", r.tries), a, rs)
  BY <1>1, <1>5, <1>6, <1>7, NotedCounted
<1> QED BY <1>3, <1>8

\* An answer takes the tries of the row over into its event.
LEMMA AnsweredCounted ==
  ASSUME NEW b, BookOK(b), NEW a \in [Keys -> Nat], NEW rs \in Nat, Counted(b, a, rs),
         NEW call \in Call
  PROVE  Counted(Answered(b, call), a, rs)
<1> DEFINE k == call.key
           row == b.pending[k]
           b2 == [b EXCEPT !.flight[At[k]] = Nil]
<1>1. k \in Keys /\ call.partial \in BOOLEAN /\ At[k] \in Custodians
  BY RetrievalAssumption DEF Call
<1>2. b.pending \in [Keys -> Row \cup {Nil}]
  BY DEF BookOK, Book
<1>3. /\ b2 \in Book /\ b2.log = b.log /\ b2.pending = b.pending
  BY <1>1 DEF BookOK, Book
<1>4. Counted(b2, a, rs)
  BY <1>3, SameCounted DEF Counted
<1>5. CASE row = Nil
  BY <1>5 DEF Answered
<1>6. CASE row # Nil /\ call.partial /\ row.due /\ row.tries < MaxTries
  <2> DEFINE row2 == [row EXCEPT !.due = FALSE]
             b3 == Put(b2, k, row2)
  <2>1. /\ row \in Row /\ row.tries \in 0..MaxTries /\ row2 \in Row /\ "partial" \in Events
        /\ row2.tries = row.tries
    BY <1>1, <1>2, <1>6 DEF Row, Events
  <2>3. Answered(b, call) = Noted(b3, k, "partial", row.tries)
    BY <1>3, <1>6 DEF Answered, Put
  <2> HIDE DEF row2, b2
  <2>4. /\ b3 \in Book /\ b3.log = b.log
        /\ \A j \in Keys : b3.pending[j] = IF j = k THEN row2 ELSE b.pending[j]
    BY <1>1, <1>2, <1>3, <2>1 DEF Book, Put
  <2> HIDE DEF b3
  <2>5. Within(row.tries, a[k], rs)
    BY <1>1, <1>6 DEF Counted, CountedAt
  <2> HIDE DEF row, k
  <2> QED BY <1>1, <2>1, <2>3, <2>4, <2>5, NotedCounted
<1>7. CASE row # Nil /\ call.partial /\ ~(row.due /\ row.tries < MaxTries)
  BY <1>4, <1>7 DEF Answered
<1>8. CASE row # Nil /\ ~call.partial
  <2> DEFINE b3 == [b2 EXCEPT !.pending[k] = Nil, !.completed = @ \cup {k}]
  <2>1. row.tries \in 0..MaxTries /\ "completed" \in Events /\ "completed" \notin Open
    BY <1>1, <1>2, <1>8 DEF Row, Events, Open
  <2>3. Answered(b, call) = Noted(b3, k, "completed", row.tries)
    BY <1>8 DEF Answered
  <2> HIDE DEF b2
  <2>2. /\ b3 \in Book /\ b3.log = b.log
        /\ \A j \in Keys : b3.pending[j] = IF j = k THEN Nil ELSE b.pending[j]
    BY <1>1, <1>2, <1>3 DEF Book
  <2> HIDE DEF b3, row, k
  <2> QED BY <1>1, <2>1, <2>2, <2>3, NotedCounted
<1> QED BY <1>1, <1>5, <1>6, <1>7, <1>8

\* The row of an announcement begins at none, and so does the count.
LEMMA HearAnnouncementCounted ==
  ASSUME CInv, NEW k \in Keys, HearAnnouncement(k)
  PROVE  /\ Counted(book', asked', restarts)
         /\ \A r \in Rows(loop) : asked'[r.key] = asked[r.key]
<1> DEFINE row == [tries |-> 0, due |-> TRUE]
           b1 == Put(book, k, row)
           b2 == Noted(b1, k, "pending", 0)
<1>1. /\ book \in Book /\ asked \in [Keys -> Nat] /\ restarts \in Nat
      /\ Counted(book, asked, restarts)
  BY RetrievalAssumption DEF CInv, IInv, TypeOK
<1>2. CASE k \in book.completed \/ book.pending[k] # Nil
  <2>1. book' = book /\ asked' = asked
    BY <1>2 DEF HearAnnouncement, Announced
  <2> QED BY <1>1, <2>1
<1>3. CASE ~(k \in book.completed \/ book.pending[k] # Nil)
  <2>1. row \in Row /\ row.tries = 0 /\ 0 \in 0..MaxTries /\ "pending" \in Events /\ MaxTries \in Nat
    BY RetrievalAssumption DEF Row, Events
  <2>2. book' = b2
    BY <1>3 DEF HearAnnouncement, Announced, Put
  <2> HIDE DEF row
  <2>3. row # Nil
    BY <2>1, NilAssumption
  <2>4. /\ b1 \in Book /\ b1.log = book.log
        /\ \A j \in Keys : b1.pending[j] = IF j = k THEN row ELSE book.pending[j]
    BY <1>1, <2>1 DEF Book, Put
  <2> HIDE DEF b1
  <2>5. /\ b2.pending = b1.pending
        /\ \A j \in Keys : j # k => b2.log[j] = b1.log[j]
        /\ b2.log[k].tries = 0 /\ b2.log[k].last = "pending"
    BY <2>1, <2>4, NotedKeeps
  <2> HIDE DEF b2
  <2>6. \A j \in Keys : asked'[j] = IF j = k THEN 0 ELSE asked[j]
    BY <1>1, <1>3, <2>2, <2>3, <2>4, <2>5 DEF HearAnnouncement
  <2>9. \A r \in Rows(loop) : r.key \in Keys /\ r.key # k
    <3>1. Rows(loop) \subseteq Due
      BY DEF CInv, IInv, LoopOK, Loop, Rows
    <3> QED BY <1>3, <3>1 DEF CInv, Sheltered, Settled, Due
  <2>7. ASSUME NEW j \in Keys, j # k PROVE CountedAt(book', asked', restarts, j)
    <3>1. book'.pending[j] = book.pending[j] /\ book'.log[j] = book.log[j] /\ asked'[j] = asked[j]
      BY <2>2, <2>4, <2>5, <2>6, <2>7
    <3> QED BY <1>1, <3>1, SameCounted DEF Counted
  <2>8. CountedAt(book', asked', restarts, k)
    BY <1>1, <2>1, <2>2, <2>4, <2>5, <2>6 DEF CountedAt, Within
  <2> QED BY <1>1, <2>6, <2>7, <2>8, <2>9 DEF Counted
<1> QED BY <1>2, <1>3

\* A restart costs one more query at most.
LEMMA RestoredCounted ==
  ASSUME NEW b, BookOK(b), NEW a \in [Keys -> Nat], NEW rs \in Nat, Counted(b, a, rs)
  PROVE  Counted(Restored(b), a, rs + 1)
<1> DEFINE anew == [tries |-> 0, due |-> TRUE]
           again(k) == [tries |-> Least(b.log[k].tries, MaxTries - 1), due |-> TRUE]
           rearm == [last |-> "rearmed", tries |-> 0, sent |-> FALSE]
           b2 == Restored(b)
<1>1. MaxTries \in Nat /\ MaxTries # 0
  BY RetrievalAssumption
<1>2. ASSUME NEW k \in Keys
      PROVE  /\ b.log[k].tries \in 0..MaxTries /\ b.log[k].last \in Events /\ a[k] \in Nat
  BY DEF BookOK, Book, Note
<1>3. anew.tries = 0 /\ rearm.tries = 0 /\ rearm.last = "rearmed" /\ ~rearm.sent
  OBVIOUS
<1>4. \A k \in Keys : again(k).tries = Least(b.log[k].tries, MaxTries - 1)
  OBVIOUS
<1> HIDE DEF anew, again, rearm
<1>5. ASSUME NEW k \in Keys
      PROVE  /\ b2.pending[k] = CASE b.log[k].last \in {"none", "exhausted"} -> Nil
                                 [] b.log[k].last = "completed" ->
                                      IF Rearms(b, k) THEN anew ELSE Nil
                                 [] OTHER -> again(k)
             /\ b2.log[k] = IF Rearms(b, k) THEN rearm ELSE b.log[k]
  BY DEF Restored, anew, again, rearm
<1> HIDE DEF b2
<1>6. ASSUME NEW k \in Keys PROVE CountedAt(b2, a, rs + 1, k)
  <2>0. CountedAt(b, a, rs, k) /\ a[k] \in Nat /\ b.log[k].tries \in Nat
    BY <1>2 DEF Counted
  <2>1. CASE b.log[k].last \in {"none", "exhausted"}
    <3>1. b2.pending[k] = Nil /\ b2.log[k] = b.log[k]
      BY <1>5, <2>1 DEF Rearms
    <3> QED BY <1>1, <2>0, <2>1, <3>1 DEF CountedAt, Open
  <2>2. CASE Rearms(b, k)
    <3>1. b2.pending[k] = anew /\ b2.log[k] = rearm
      BY <1>5, <2>2 DEF Rearms
    <3>2. a[k] <= rs
      BY <2>0, <2>2 DEF CountedAt, Rearms
    <3> QED BY <1>1, <1>3, <2>0, <3>1, <3>2 DEF CountedAt, Within
  <2>3. CASE b.log[k].last = "completed" /\ ~Rearms(b, k)
    <3>1. b2.pending[k] = Nil /\ b2.log[k] = b.log[k]
      BY <1>5, <2>3
    <3> QED BY <1>1, <2>0, <2>3, <3>1 DEF CountedAt, Open
  <2>4. CASE b.log[k].last \notin {"none", "exhausted", "completed"}
    <3>1. b2.pending[k] = again(k) /\ b2.log[k] = b.log[k] /\ b.log[k].last \in Open
      BY <1>2, <1>5, <2>4 DEF Rearms, Open, Events
    <3>2. /\ Least(b.log[k].tries, MaxTries - 1) <= a[k]
          /\ a[k] <= Least(b.log[k].tries, MaxTries - 1) + rs + 1
      BY <1>1, <2>0, <3>1 DEF CountedAt, Within, Least
    <3>3. b2.pending[k].tries = Least(b.log[k].tries, MaxTries - 1)
      BY <1>4, <3>1
    <3> HIDE DEF Least
    <3>4. b2.pending[k] # Nil => Within(b2.pending[k].tries, a[k], rs + 1)
      <4>1. Least(b.log[k].tries, MaxTries - 1) \in Int
        BY <1>1, <2>0 DEF Least
      <4> QED BY <2>0, <3>2, <3>3, <4>1 DEF Within
    <3>5. /\ b2.log[k].last \in Open => Within(b2.log[k].tries, a[k], rs + 1)
          /\ b2.log[k].last # "exhausted"
          /\ ~b2.log[k].sent => a[k] <= rs + 1
          /\ a[k] <= MaxTries + (rs + 1)
      BY <1>1, <2>0, <2>4, <3>1 DEF CountedAt, Within
    <3> QED BY <3>4, <3>5 DEF CountedAt
  <2> QED BY <2>1, <2>2, <2>3, <2>4 DEF Rearms
<1> QED BY <1>6 DEF Counted, b2

\* The time of a row is not counted.
LEMMA FallDueCounted ==
  ASSUME IInv, NEW a, NEW rs \in Nat, Counted(book, a, rs), NEW k \in Keys, FallDue(k)
  PROVE  Counted(book', a, rs)
<1>1. book.pending \in [Keys -> Row \cup {Nil}]
  BY DEF IInv, BookOK, Book
<1>2. /\ book'.log = book.log
      /\ \A j \in Keys : j # k => book'.pending[j] = book.pending[j]
      /\ book'.pending[k] = [book.pending[k] EXCEPT !.due = TRUE]
  BY <1>1 DEF FallDue, IInv, BookOK, Book
<1>3. book'.pending[k].tries = book.pending[k].tries /\ book.pending[k] # Nil
  BY <1>1, <1>2 DEF FallDue, Row
<1>4. CountedAt(book', a, rs, k)
  BY <1>2, <1>3 DEF Counted, CountedAt
<1> QED BY <1>2, <1>4, SameCounted DEF Counted

\* In the beginning nothing was asked.
LEMMA InitCInv == Init => CInv
<1> SUFFICES ASSUME Init PROVE CInv
  OBVIOUS
<1>1. IInv
  BY InitIInv
<1>2. Counted(book, asked, restarts)
  BY RetrievalAssumption DEF Init, Counted, CountedAt, Open
<1>3. Rows(loop) = {}
  BY DEF Init, LoopIdle, Rows
<1> QED BY <1>1, <1>2, <1>3 DEF CInv, RowsCounted, Sheltered

\* But for what is given up and for a restart, what is settled stays so.
LEMMA SettledKept ==
  ASSUME NEW b \in Book, NEW k \in Keys, Settled(b, k)
  PROVE  /\ Settled(TimedOut(b), k)
         /\ \A j \in Keys : Settled(Announced(b, j), k)
         /\ \A r \in Due : r.tries < MaxTries => Settled(Submitted(b, r), k)
         /\ \A r \in Due : Settled(Failed(b, r), k)
         /\ \A call \in Call : Settled(Answered(b, call), k)
<1>0. b.pending \in [Keys -> Row \cup {Nil}]
  BY DEF Book
<1>1. Settled(TimedOut(b), k)
  BY DEF TimedOut, Settled, Book
<1>2. ASSUME NEW b2, b2.completed = b.completed, NEW j \in Keys,
             \A q \in Keys : q # j => b2.pending[q] = b.pending[q],
             b2.pending[j] # Nil
      PROVE  Settled(b2, k)
  BY <1>2 DEF Settled
<1>3. ASSUME NEW j \in Keys, NEW row \in Row, NEW c, NEW f, NEW event, NEW tries
      PROVE  /\ Settled(Noted([b EXCEPT !.pending[j] = row], j, event, tries), k)
             /\ Settled(Noted([b EXCEPT !.pending[j] = row, !.flight[c] = f], j, event, tries), k)
             /\ Settled(Noted([b EXCEPT !.flight[c] = f, !.pending[j] = row], j, event, tries), k)
  <2> DEFINE p == [b.pending EXCEPT ![j] = row]
  <2>1. /\ \A q \in Keys : q # j => p[q] = b.pending[q]
        /\ p[j] # Nil
    BY <1>0, NilAssumption
  <2>2. /\ Noted([b EXCEPT !.pending[j] = row], j, event, tries).pending = p
        /\ Noted([b EXCEPT !.pending[j] = row], j, event, tries).completed = b.completed
    BY DEF Noted, Book
  <2>3. LET b2 == [b EXCEPT !.pending[j] = row, !.flight[c] = f]
        IN  Noted(b2, j, event, tries).pending = p /\ Noted(b2, j, event, tries).completed = b.completed
    BY DEF Noted, Book
  <2>4. LET b2 == [b EXCEPT !.flight[c] = f, !.pending[j] = row]
        IN  Noted(b2, j, event, tries).pending = p /\ Noted(b2, j, event, tries).completed = b.completed
    BY DEF Noted, Book
  <2> HIDE DEF p
  <2> QED BY <1>2, <2>1, <2>2, <2>3, <2>4
<1>4. ASSUME NEW j \in Keys PROVE Settled(Announced(b, j), k)
  <2>1. [tries |-> 0, due |-> TRUE] \in Row
    BY RetrievalAssumption DEF Row
  <2> QED BY <1>3, <2>1 DEF Announced
<1>5. ASSUME NEW r \in Due, r.tries < MaxTries PROVE Settled(Submitted(b, r), k)
  <2>1. r.key \in Keys /\ [tries |-> r.tries + 1, due |-> FALSE] \in Row
    BY <1>5, RetrievalAssumption DEF Due, Row
  <2> QED BY <1>3, <2>1 DEF Submitted
<1>6. ASSUME NEW r \in Due PROVE Settled(Failed(b, r), k)
  <2>1. r.key \in Keys /\ [tries |-> r.tries, due |-> FALSE] \in Row
    BY DEF Due, Row
  <2> QED BY <1>3, <2>1 DEF Failed
<1>7. ASSUME NEW call \in Call PROVE Settled(Answered(b, call), k)
  <2> DEFINE j == call.key
             row == b.pending[j]
             b2 == [b EXCEPT !.flight[At[j]] = Nil]
  <2>1. j \in Keys /\ call.partial \in BOOLEAN
    BY DEF Call
  <2>2. b2.pending = b.pending /\ b2.completed = b.completed
    BY DEF Book
  <2>3. CASE row = Nil
    BY <2>3 DEF Answered
  <2>4. CASE row # Nil /\ call.partial /\ row.due /\ row.tries < MaxTries
    <3> DEFINE b3 == Noted([b2 EXCEPT !.pending[j].due = FALSE], j, "partial", row.tries)
    <3>1. Answered(b, call) = b3
      BY <2>4 DEF Answered
    <3>2. [row EXCEPT !.due = FALSE] \in Row
      BY <1>0, <2>1, <2>4 DEF Row
    <3>3. b3.pending = [b.pending EXCEPT ![j] = [row EXCEPT !.due = FALSE]] /\ b3.completed = b.completed
      BY DEF Noted, Book
    <3> HIDE DEF b3
    <3>4. \A q \in Keys : b3.pending[q] = IF q = j THEN [row EXCEPT !.due = FALSE] ELSE b.pending[q]
      BY <1>0, <2>1, <3>3
    <3> HIDE DEF row, j
    <3>5. b3.pending[j] # Nil
      BY <2>1, <3>2, <3>4, NilAssumption
    <3> QED BY <1>2, <2>1, <3>1, <3>3, <3>4, <3>5
  <2>5. CASE row # Nil /\ call.partial /\ ~(row.due /\ row.tries < MaxTries)
    <3>1. Answered(b, call) = b2
      BY <2>5 DEF Answered
    <3> QED BY <2>2, <3>1 DEF Settled
  <2>6. CASE row # Nil /\ ~call.partial
    <3> DEFINE b3 == Noted([b2 EXCEPT !.pending[j] = Nil, !.completed = @ \cup {j}],
                           j, "completed", row.tries)
    <3>1. Answered(b, call) = b3
      BY <2>6 DEF Answered
    <3>2. b3.pending = [b.pending EXCEPT ![j] = Nil] /\ b3.completed = b.completed \cup {j}
      BY DEF Noted, Book
    <3> HIDE DEF b3
    <3> QED BY <1>0, <2>1, <3>1, <3>2 DEF Settled
  <2> QED BY <2>1, <2>3, <2>4, <2>5, <2>6
<1> QED BY <1>1, <1>4, <1>5, <1>6, <1>7

\* No step lets a count and its tries part.
LEMMA NextCInv ==
  ASSUME CInv, [Next]_vars
  PROVE  CInv'
<1>0. /\ IInv /\ IInv' /\ BookOK(book) /\ book \in Book
      /\ restarts \in Nat /\ asked \in [Keys -> Nat]
      /\ Counted(book, asked, restarts) /\ RowsCounted(Rows(loop), asked, restarts)
      /\ Sheltered(book, loop)
      /\ loop.todo \in SUBSET Due
      /\ \A q, r \in loop.todo : q.key = r.key => q = r
  BY NextIInv, RetrievalAssumption DEF CInv, IInv, TypeOK, BookOK, LoopOK, Loop, Distinct
<1>14. loop.todo \subseteq Rows(loop) /\ Rows(loop) \subseteq Due
  BY <1>0 DEF Rows, IInv, LoopOK, Loop
<1>15. \A r \in Rows(loop) : r.key \in Keys
  BY <1>14 DEF Due
<1>1. CASE Pass
  <2> DEFINE b == TimedOut(book)
  <2>1. BookOK(b) /\ Counted(b, asked, restarts)
    BY <1>0, TimedOutOK, TimedOutCounted
  <2>4. Proceed(b, DueRows(b), line)
    BY <1>1 DEF Pass
  <2>6. asked' = asked /\ restarts' = restarts
    BY <1>1 DEF Pass
  <2> HIDE DEF b
  <2>2. /\ DueRows(b) \in SUBSET Due
        /\ \A q, r \in DueRows(b) : q.key = r.key => q = r
    BY <2>1, DueRowsOK
  <2>3. /\ RowsCounted(DueRows(b), asked, restarts)
        /\ \A r \in DueRows(b) : Settled(b, r.key)
    BY <2>1 DEF DueRows, RowsCounted, Counted, CountedAt, Settled
  <2>5. /\ Counted(book', asked, restarts) /\ RowsCounted(Rows(loop'), asked, restarts)
        /\ Sheltered(book', loop')
    BY <1>0, <2>1, <2>2, <2>3, <2>4, ProceedCounted
  <2> QED BY <1>0, <2>5, <2>6 DEF CInv, Rows, Sheltered
<1>16. ASSUME loop.row # Nil
       PROVE  /\ loop.row \in Due /\ loop.row \in Rows(loop) /\ RowOK(book, loop.row)
              /\ Within(loop.row.tries, asked[loop.row.key], restarts)
              /\ loop.row.key \in Keys /\ loop.row.tries < MaxTries
  <2>1. loop.row \in Rows(loop)
    BY <1>16 DEF Rows
  <2> QED BY <1>0, <1>15, <1>16, <2>1 DEF IInv, LoopOK, RowOK, RowsCounted
<1>2. CASE AskSent
  <2> DEFINE r == loop.row
             a2 == [asked EXCEPT ![r.key] = @ + 1]
             b2 == Submitted(book, r)
  <2>1. /\ r # Nil /\ r \in Due /\ RowOK(book, r) /\ r.key \in Keys /\ r.tries < MaxTries
        /\ Within(r.tries, asked[r.key], restarts)
    BY <1>2, <1>16 DEF AskSent
  <2>2. BookOK(b2) /\ Counted(b2, a2, restarts)
    BY <1>0, <2>1, SubmittedOK, SubmittedCounted
  <2>3. RowsCounted(loop.todo, a2, restarts)
    <3>1. \A q \in loop.todo : q.key \in Keys /\ q.key # r.key
      BY <1>0, <2>1 DEF IInv, LoopOK, Distinct, Due
    <3>2. \A q \in loop.todo : a2[q.key] = asked[q.key]
      BY <1>0, <3>1
    <3> QED BY <1>0, <1>14, <3>2 DEF RowsCounted
  <2>7. \A q \in loop.todo : Settled(b2, q.key)
    BY <1>0, <1>14, <1>15, <2>1, SettledKept DEF Sheltered
  <2>4. Proceed(b2, loop.todo, Tail(line))
    BY <1>2 DEF AskSent
  <2>6. asked' = a2 /\ restarts' = restarts
    BY <1>2 DEF AskSent
  <2>8. a2 \in [Keys -> Nat]
    BY <1>0, <2>1
  <2> HIDE DEF b2, a2
  <2>5. /\ Counted(book', a2, restarts) /\ RowsCounted(Rows(loop'), a2, restarts)
        /\ Sheltered(book', loop')
    BY <1>0, <2>2, <2>3, <2>4, <2>7, <2>8, ProceedCounted
  <2> QED BY <1>0, <2>5, <2>6 DEF CInv, Rows, Sheltered
<1>3. CASE AskFailed
  <2> DEFINE b2 == Failed(book, loop.row)
  <2>1. /\ loop.row # Nil /\ loop.row \in Due
        /\ Within(loop.row.tries, asked[loop.row.key], restarts)
    BY <1>3, <1>16 DEF AskFailed
  <2>2. BookOK(b2) /\ Counted(b2, asked, restarts)
    BY <1>0, <2>1, FailedOK, FailedCounted
  <2>3. PICK i \in 1..Len(line) : Proceed(b2, loop.todo, RemoveAt(line, i))
    BY <1>3 DEF AskFailed
  <2>4. /\ RowsCounted(loop.todo, asked, restarts)
        /\ \A q \in loop.todo : Settled(b2, q.key)
    BY <1>0, <1>14, <1>15, <2>1, SettledKept DEF Sheltered, RowsCounted
  <2>6. asked' = asked /\ restarts' = restarts
    BY <1>3 DEF AskFailed
  <2> HIDE DEF b2
  <2>5. /\ Counted(book', asked, restarts) /\ RowsCounted(Rows(loop'), asked, restarts)
        /\ Sheltered(book', loop')
    BY <1>0, <2>2, <2>3, <2>4, ProceedCounted
  <2> QED BY <1>0, <2>5, <2>6 DEF CInv, Rows, Sheltered
<1>4. ASSUME loop' = loop, restarts' = restarts, Counted(book', asked', restarts),
             \A r \in Rows(loop) : asked'[r.key] = asked[r.key],
             \A k \in Keys : Settled(book, k) => Settled(book', k)
      PROVE  CInv'
  <2>1. RowsCounted(Rows(loop), asked', restarts)
    BY <1>0, <1>4 DEF RowsCounted
  <2>2. \A r \in Rows(loop) : Settled(book', r.key)
    BY <1>0, <1>4, <1>15 DEF Sheltered
  <2> QED BY <1>0, <1>4, <2>1, <2>2 DEF CInv, Rows, Sheltered
<1>6. ASSUME NEW k \in Keys, HearAnnouncement(k) PROVE CInv'
  <2>1. \A q \in Keys : Settled(book, q) => Settled(book', q)
    BY <1>0, <1>6, SettledKept DEF HearAnnouncement
  <2>2. /\ Counted(book', asked', restarts)
        /\ \A r \in Rows(loop) : asked'[r.key] = asked[r.key]
    BY <1>6, HearAnnouncementCounted
  <2> QED BY <1>4, <1>6, <2>1, <2>2 DEF HearAnnouncement
<1>7. ASSUME NEW k \in Keys, FallDue(k) PROVE CInv'
  <2>1. \A q \in Keys : Settled(book, q) => Settled(book', q)
    <3>1. book.pending \in [Keys -> Row \cup {Nil}]
      BY <1>0 DEF Book
    <3>2. [book.pending[k] EXCEPT !.due = TRUE] \in Row
      BY <1>7, <3>1 DEF FallDue, Row
    <3>3. /\ book'.pending = [book.pending EXCEPT ![k] = [book.pending[k] EXCEPT !.due = TRUE]]
          /\ book'.completed = book.completed
      BY <1>0, <1>7 DEF FallDue, Book
    <3> QED BY <3>1, <3>2, <3>3, NilAssumption DEF Settled
  <2> QED BY <1>0, <1>4, <1>7, <2>1, FallDueCounted DEF FallDue
<1>8. ASSUME NEW call \in Call, book' = Answered(book, call), UNCHANGED <<loop, asked, restarts>>
      PROVE  CInv'
  <2>1. \A q \in Keys : Settled(book, q) => Settled(book', q)
    BY <1>0, <1>8, SettledKept
  <2> QED BY <1>0, <1>4, <1>8, <2>1, AnsweredCounted
<1>9. ASSUME UNCHANGED <<book, loop, asked, restarts>> PROVE CInv'
  BY <1>0, <1>4, <1>9
<1>10. ASSUME NEW c \in Custodians, NEW partial \in BOOLEAN,
              HearMessage(c, partial)
       PROVE  CInv'
  <2>1. Active(book, c) # Nil => [key |-> Active(book, c), partial |-> partial] \in Call
    BY <1>0 DEF Active, Book, Call
  <2> QED BY <1>8, <1>9, <1>10, <2>1 DEF HearMessage
<1>11. ASSUME NEW call \in calls, Return(call) PROVE CInv'
  BY <1>0, <1>8, <1>11 DEF Return, IInv, TypeOK
<1>17. CASE RestartRaises
  <2>1. /\ book' = book /\ restarts' = restarts + 1 /\ asked' = asked
        /\ Rows(loop') = {}
    BY <1>17 DEF RestartRaises, Stops, LoopIdle, Rows
  <2>2. Counted(book', asked', restarts')
    <3> SUFFICES ASSUME NEW k \in Keys PROVE CountedAt(book, asked, restarts + 1, k)
      BY <2>1 DEF Counted
    <3>1. CountedAt(book, asked, restarts, k) /\ asked[k] \in Nat
      BY <1>0 DEF Counted
    <3>2. /\ book.log[k].tries \in Nat
          /\ book.pending[k] # Nil => book.pending[k].tries \in Nat
      BY <1>0, RetrievalAssumption DEF IInv, TypeOK, Book, Note, Row
    <3> QED BY <3>1, <3>2, <1>0, RetrievalAssumption DEF CountedAt, Within
  <2> QED BY <1>0, <2>1, <2>2 DEF CInv, RowsCounted, Sheltered, Rows
<1>12. CASE Restart
  <2>1. /\ book' = Restored(book) /\ restarts' = restarts + 1 /\ asked' = asked
        /\ Rows(loop') = {}
    BY <1>12 DEF Restart, Stops, LoopIdle, Rows
  <2>2. Counted(book', asked', restarts')
    BY <1>0, <2>1, RestoredCounted
  <2> QED BY <1>0, <2>1, <2>2 DEF CInv, RowsCounted, Sheltered, Rows
<1>13. CASE UNCHANGED vars
  BY <1>9, <1>13 DEF vars
<1> QED BY <1>1, <1>2, <1>3, <1>6, <1>7, <1>10, <1>11, <1>12, <1>13, <1>17
   DEF Next

-----------------------------------------------------------------------------
(* The theorems. *)

\* What the specification keeps in every step.
LEMMA Invariance == Spec => []CInv
<1>1. CInv /\ [Next]_vars => CInv'
  BY NextCInv
<1> QED BY InitCInv, <1>1, PTL DEF Spec

\* Every variable keeps its type, whatever is heard and in whatever order: the
\* number of tries never leaves its budget and no window is without its message.
THEOREM RetrievalTypeCorrect == Spec => []TypeOK
<1>1. CInv => TypeOK
  BY DEF CInv, IInv
<1> QED BY <1>1, Invariance, PTL

\* One announcement makes us ask MaxTries times at most, and once more for each
\* restart: the budget of app.py 1994 and 2437, over stale rows of the snapshot,
\* late handlers, and the restore from the log.
THEOREM AskingAlwaysBounded == Spec => []AskingBounded
<1>1. CInv => AskingBounded
  BY DEF CInv, Counted, CountedAt, AskingBounded
<1> QED BY <1>1, Invariance, PTL

\* What the log calls exhausted was asked for MaxTries times since its last
\* announcement: a failed query does not count (app.py 2467), and neither a
\* restart, a timeout, a cut answer nor a late handler uses up an attempt.
THEOREM GivenUpNotEarly == Spec => []GivenUpLate
<1>1. CInv => GivenUpLate
  BY RetrievalAssumption DEF CInv, IInv, TypeOK, Counted, CountedAt, GivenUpLate
<1> QED BY <1>1, Invariance, PTL

\* The window of a custodian never passes from one message to another, so that
\* no answer can be credited to two (app.py 1991, 2434).
THEOREM WindowNeverShared == Spec => OneWindow
<1>1. CInv /\ [Next]_vars => [\A c \in Custodians :
         Active(book, c) # Nil => book'.flight[c] \in {book.flight[c], Nil}]_vars
  BY NextIInv DEF CInv, Active
<1> QED BY <1>1, Invariance, PTL DEF Spec, OneWindow

\* Every announced message that is pending when the daemon goes down is pending
\* when it has come up again (app.py 2008-2072); it does not come up when the log
\* holds two events of one type with the same time (app.py 2027).
THEOREM RestartLosesNothing == Spec => RestartKeepsPending
<1>1. ASSUME CInv, [Next]_vars
      PROVE  restarts' # restarts /\ startup' # "raised" =>
               \A k \in Keys : book.pending[k] # Nil => book'.pending[k] # Nil
  <2>1. restarts' # restarts /\ startup' # "raised" => Restart
    BY <1>1 DEF Next, vars, Pass, AskSent, AskFailed, HearAnnouncement, HearMessage, Return,
                FallDue, RestartRaises
  <2>2. Restart => \A k \in Keys : book.pending[k] # Nil => book'.pending[k] # Nil
    BY <1>1, RestoredOK DEF Restart, CInv, IInv
  <2> QED BY <2>1, <2>2
<1>2. CInv /\ [Next]_vars =>
        [restarts' # restarts /\ startup' # "raised" =>
           \A k \in Keys : book.pending[k] # Nil => book'.pending[k] # Nil]_vars
  BY <1>1
<1> QED BY <1>2, Invariance, PTL DEF Spec, RestartKeepsPending

=============================================================================
