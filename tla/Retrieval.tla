------------------------------ MODULE Retrieval ------------------------------
(****************************************************************************)
(* Collecting the mail that other stations hold for us.  A custodian        *)
(* announces the number of a stored message; the discovery loop asks for    *)
(* it, one number per custodian at a time; whatever directed message comes  *)
(* from that custodian within four minutes is taken for the answer.         *)
(*                                                                          *)
(*   book   what the daemon knows of the announced messages:                *)
(*          pending    pending_retrievals: submitted how often, and whether *)
(*                     the time of the row has come                         *)
(*          completed  completed_retrievals                                 *)
(*          flight     retrieval_in_flight; the deadline of its window is   *)
(*                     the time of the pending row, so the window is open   *)
(*                     as long as that time has not come                    *)
(*          log        the audit events, as far as a restart reads them     *)
(*   loop   the rows the pass of the loop has still to look at, and the one *)
(*          it asks for                                                     *)
(*   calls  handlers that wait for their CAP to be sent                     *)
(*   line   who stands in line for send_rf; the first holds the lock        *)
(*   fresh  the audit events, by type and message, that may bear the same   *)
(*          millisecond as the next one                                     *)
(*   startup  "raises" when the log has two events of one type and one      *)
(*          millisecond: restore_pending_retrievals sorts tuples that end   *)
(*          with the payload, a dict, and dicts do not compare; "raised"    *)
(*          when a daemon has stopped at that                               *)
(*   asked  queries since the announcement, and restarts: history           *)
(*                                                                          *)
(* A step is what happens between two awaits.                               *)
(****************************************************************************)
EXTENDS Naturals, SequencesExt

CONSTANTS
  Keys,         \* messages stored for us: a custodian and a number each
  Custodians,
  At,           \* the custodian of each
  MaxTries,     \* max_retrieval_attempts: 4 in the code
  MaxCalls,     \* bound: handlers waiting at a time
  MaxRestarts,  \* bound
  Nil

ASSUME RetrievalAssumption ==
  /\ At \in [Keys -> Custodians]
  /\ MaxTries \in Nat \ {0} /\ MaxCalls \in Nat /\ MaxRestarts \in Nat

VARIABLES book, loop, calls, line, fresh, startup, asked, restarts

vars == <<book, loop, calls, line, fresh, startup, asked, restarts>>

-----------------------------------------------------------------------------
Events == {"none", "pending", "submitted", "failed", "partial", "timeout",
           "rearmed", "completed", "exhausted"}

Row == [tries : 0..MaxTries, due : BOOLEAN]
Note == [last : Events, tries : 0..MaxTries, sent : BOOLEAN]
Book == [pending : [Keys -> Row \cup {Nil}], completed : SUBSET Keys,
         flight : [Custodians -> Keys \cup {Nil}], log : [Keys -> Note]]

\* A handler by what it holds across its await: the retrieval it answers and
\* whether what came was cut short.
Call == [key : Keys, partial : BOOLEAN]

\* A row of the snapshot the loop works through.
Due == [key : Keys, tries : 0..MaxTries]
Loop == [todo : SUBSET Due, row : Due \cup {Nil}]

ASSUME NilAssumption == Nil \notin Keys \cup Row \cup Due \cup Call

LoopIdle == [todo |-> {}, row |-> Nil]

TypeOK ==
  /\ book \in Book
  /\ loop \in Loop
  /\ calls \in SUBSET Call
  /\ line \in Seq(Call \cup {Nil})
  /\ fresh \subseteq Events \X Keys
  /\ startup \in {"works", "raises", "raised"}
  /\ asked \in [Keys -> Nat]
  /\ restarts \in 0..MaxRestarts

Init ==
  /\ book = [pending |-> [k \in Keys |-> Nil], completed |-> {},
             flight |-> [c \in Custodians |-> Nil],
             log |-> [k \in Keys |-> [last |-> "none", tries |-> 0, sent |-> FALSE]]]
  /\ loop = LoopIdle
  /\ calls = {}
  /\ line = <<>>
  /\ fresh = {} /\ startup = "works"
  /\ asked = [k \in Keys |-> 0]
  /\ restarts = 0

-----------------------------------------------------------------------------
(* What the code does to the book.  An audit event is folded into what a     *)
(* restart reads from all of them: the last event, its "attempt", and        *)
(* whether a submission came after the last announcement.                    *)

Noted(b, k, event, tries) ==
  [b EXCEPT !.log[k] =
     [last |-> event, tries |-> tries,
      sent |-> CASE event \in {"pending", "rearmed"} -> FALSE
                 [] event = "submitted" -> TRUE
                 [] OTHER -> @.sent]]

\* Mutant: the announcement leaves no event.
AnnouncedSilently(b, k) ==
  IF k \in b.completed \/ b.pending[k] # Nil THEN b
  ELSE [b EXCEPT !.pending[k] = [tries |-> 0, due |-> TRUE]]

\* queue_message_retrieval
Announced(b, k) ==
  IF k \in b.completed \/ b.pending[k] # Nil THEN b
  ELSE Noted([b EXCEPT !.pending[k] = [tries |-> 0, due |-> TRUE]], k, "pending", 0)

\* active_retrieval_for
Active(b, c) ==
  IF b.flight[c] # Nil /\ ~b.pending[b.flight[c]].due THEN b.flight[c] ELSE Nil

\* The windows that have run out, at the head of service_pending_retrievals.
Late(b) == {c \in Custodians : b.flight[c] # Nil /\ Active(b, c) = Nil}

\* Mutant: the window that ran out is not taken away.
TimedOutButKept(b) ==
  [b EXCEPT !.log = [k \in Keys |-> IF k \in {b.flight[c] : c \in Late(b)}
                                    THEN [@[k] EXCEPT !.last = "timeout"] ELSE @[k]]]

TimedOut(b) ==
  LET late == {b.flight[c] : c \in Late(b)}
  IN  [b EXCEPT
         !.flight = [c \in Custodians |-> IF c \in Late(b) THEN Nil ELSE @[c]],
         !.log = [k \in Keys |->
                    IF k \in late THEN [@[k] EXCEPT !.last = "timeout",
                                                    !.tries = b.pending[k].tries]
                    ELSE @[k]]]

Exhausted(b, keys) ==
  [b EXCEPT
     !.pending = [k \in Keys |-> IF k \in keys THEN Nil ELSE @[k]],
     !.log = [k \in Keys |-> IF k \in keys
                             THEN [@[k] EXCEPT !.last = "exhausted", !.tries = MaxTries]
                             ELSE @[k]]]

\* After the await: the query was handed over, or was not.
Submitted(b, r) ==
  Noted([b EXCEPT !.pending[r.key] = [tries |-> r.tries + 1, due |-> FALSE],
                  !.flight[At[r.key]] = r.key],
        r.key, "submitted", r.tries + 1)

\* Mutant: a query that failed uses an attempt up.
FailedButCounted(b, r) ==
  Noted([b EXCEPT !.pending[r.key] = [tries |-> r.tries + 1, due |-> FALSE]],
        r.key, "failed", r.tries + 1)

Failed(b, r) ==
  Noted([b EXCEPT !.pending[r.key] = [tries |-> r.tries, due |-> FALSE]],
        r.key, "failed", r.tries)

\* The end of the handler: the answer completes the retrieval, or has it
\* asked for once more.
Answered(b, call) ==
  LET k == call.key
      row == b.pending[k]
      b2 == [b EXCEPT !.flight[At[k]] = Nil]
  IN  CASE row = Nil -> b
        [] row # Nil /\ call.partial /\ row.due /\ row.tries < MaxTries ->
             Noted([b2 EXCEPT !.pending[k].due = FALSE], k, "partial", row.tries)
        [] row # Nil /\ call.partial /\ ~(row.due /\ row.tries < MaxTries) -> b2
        [] row # Nil /\ ~call.partial ->
             Noted([b2 EXCEPT !.pending[k] = Nil, !.completed = @ \cup {k}],
                   k, "completed", row.tries)

\* restore_pending_retrievals.  A completion without a submission after the
\* announcement is taken back.
Rearms(b, k) == b.log[k].last = "completed" /\ ~b.log[k].sent

Least(a, b) == IF a <= b THEN a ELSE b

\* Mutant: the submissions before the restart are forgotten.
RestoredAfresh(b) ==
  [b EXCEPT !.pending = [k \in Keys |->
                           IF b.log[k].last \in {"none", "exhausted", "completed"} THEN Nil
                           ELSE [tries |-> 0, due |-> TRUE]],
            !.flight = [c \in Custodians |-> Nil]]

Restored(b) ==
  [pending |-> [k \in Keys |->
     CASE b.log[k].last \in {"none", "exhausted"} -> Nil
       [] b.log[k].last = "completed" ->
            IF Rearms(b, k) THEN [tries |-> 0, due |-> TRUE] ELSE Nil
       [] OTHER -> [tries |-> Least(b.log[k].tries, MaxTries - 1), due |-> TRUE]],
   completed |-> {k \in Keys : b.log[k].last = "completed" /\ b.log[k].sent},
   flight |-> [c \in Custodians |-> Nil],
   log |-> [k \in Keys |->
     IF Rearms(b, k) THEN [last |-> "rearmed", tries |-> 0, sent |-> FALSE]
     ELSE b.log[k]]]

-----------------------------------------------------------------------------
(* The times of the audit events. *)

\* Of one type, about two messages: the payloads differ.
Ties(events) == \E e, f \in events : e[1] = f[1] /\ e[2] # f[2]

\* What may be noted once more before time passes; a submission takes its send_rf,
\* the other events come once in a pass or at a start.
Repeats == {"pending", "failed", "partial", "completed", "exhausted"}

\* The events of this step come after those of before, and may share their
\* millisecond; also is what the log of a message does not show as its last.
Stamped(before, also) ==
  LET logged == {k \in Keys : book'.log[k] # book.log[k]}
      now == before \cup also \cup {<<book'.log[k].last, k>> : k \in logged}
  IN  IF startup = "raises" \/ Ties(now)
      THEN fresh' = {} /\ startup' \in {startup, "raises"}
      ELSE fresh' = {e \in now : e[1] \in Repeats} /\ UNCHANGED startup

\* Time passes with this step.
StampedLater == Stamped({}, {})

-----------------------------------------------------------------------------
(* The loop: service_pending_retrievals. *)

DueRows(b) ==
  {[key |-> k, tries |-> b.pending[k].tries] :
     k \in {q \in Keys : b.pending[q] # Nil /\ b.pending[q].due}}

\* A row is passed over while its custodian owes the answer to another one.
\* Mutant: it is not.
FreeAlways(b, r) == TRUE
Free(b, r) == b.flight[At[r.key]] = Nil

Spent(b, rows) == {r \in rows : Free(b, r) /\ r.tries >= MaxTries}

\* Mutant: one attempt too many.
AskableOnceMore(b, rows) == {r \in rows : Free(b, r) /\ r.tries <= MaxTries}
Askable(b, rows) == {r \in rows : Free(b, r) /\ r.tries < MaxTries}

\* On through the rows, in any order, to the next await or to the end.
Proceed(b, rows, rest) ==
  \/ \E done \in SUBSET Spent(b, rows), r \in Askable(b, rows) :
       /\ book' = Exhausted(b, {q.key : q \in done})
       /\ loop' = [todo |-> rows \ (done \cup {r}), row |-> r]
       /\ line' = Append(rest, Nil)
  \/ /\ Askable(b, rows) = {}
     /\ book' = Exhausted(b, {q.key : q \in Spent(b, rows)})
     /\ loop' = LoopIdle
     /\ line' = rest

Pass ==
  /\ loop = LoopIdle
  /\ LET b == TimedOut(book) IN Proceed(b, DueRows(b), line)
  /\ Stamped({}, {<<"timeout", book.flight[c]>> : c \in Late(book)})
  /\ UNCHANGED <<calls, asked, restarts>>

\* send_rf came to an end for the loop, which held the lock.
AskSent ==
  /\ loop.row # Nil /\ line # <<>> /\ Head(line) = Nil
  /\ Proceed(Submitted(book, loop.row), loop.todo, Tail(line))
  /\ asked' = [asked EXCEPT ![loop.row.key] = @ + 1]
  /\ StampedLater
  /\ UNCHANGED <<calls, restarts>>

\* An exception of send_rf, or the thirty seconds of wait_for, which end the
\* wait wherever in the line it stands.
AskFailed ==
  /\ loop.row # Nil
  /\ \E i \in 1..Len(line) :
       /\ line[i] = Nil
       /\ Proceed(Failed(book, loop.row), loop.todo, RemoveAt(line, i))
  /\ Stamped(fresh, {<<"failed", loop.row.key>>})
  /\ UNCHANGED <<calls, asked, restarts>>

-----------------------------------------------------------------------------
(* The handlers. *)

\* YES MSG ID k
HearAnnouncement(k) ==
  /\ book' = Announced(book, k)
  /\ asked' = IF book'.pending[k] # book.pending[k] THEN [asked EXCEPT ![k] = 0] ELSE asked
  /\ Stamped(fresh, {})
  /\ UNCHANGED <<loop, calls, line, restarts>>

\* A directed message of the custodian: the message asked for now, one asked for
\* earlier, or any other; the code does not tell them apart.  An answer may also
\* never come.  The item is in the inbox before the CAP goes to its first
\* sender, which is limited to one in an hour.
HearMessage(c, partial) ==
  /\ IF Active(book, c) = Nil
     THEN UNCHANGED <<book, calls, line>>
     ELSE LET call == [key |-> Active(book, c), partial |-> partial]
          IN  \/ book' = Answered(book, call) /\ UNCHANGED <<calls, line>>
              \/ /\ Cardinality(calls) < MaxCalls /\ call \notin calls
                 /\ calls' = calls \cup {call}
                 /\ line' = Append(line, call)
                 /\ UNCHANGED book
  /\ Stamped(fresh, {})
  /\ UNCHANGED <<loop, asked, restarts>>

\* The CAP was sent, or was not: the handler goes on.
Return(call) ==
  /\ call \in calls /\ line # <<>> /\ Head(line) = call
  /\ calls' = calls \ {call}
  /\ line' = Tail(line)
  /\ book' = Answered(book, call)
  /\ Stamped(fresh, {})
  /\ UNCHANGED <<loop, asked, restarts>>

-----------------------------------------------------------------------------
(* Time, the radio, the process. *)

\* The time of a row comes, and with it the end of its window.
FallDue(k) ==
  /\ book.pending[k] # Nil /\ ~book.pending[k].due
  /\ book' = [book EXCEPT !.pending[k].due = TRUE]
  /\ StampedLater
  /\ UNCHANGED <<loop, calls, line, asked, restarts>>

Stops ==
  /\ restarts < MaxRestarts
  /\ restarts' = restarts + 1
  /\ loop' = LoopIdle
  /\ calls' = {} /\ line' = <<>>
  /\ UNCHANGED asked

Restart ==
  /\ Stops
  /\ startup = "works"
  /\ book' = Restored(book)
  /\ StampedLater

\* The TypeError of sorted ends the startup, and every later one as long as the
\* two events are less than a week old.
RestartRaises ==
  /\ Stops
  /\ startup = "raises"
  /\ startup' = "raised" /\ fresh' = {}
  /\ UNCHANGED book

Next ==
  /\ startup # "raised"
  /\ \/ Pass \/ AskSent \/ AskFailed
     \/ \E k \in Keys : HearAnnouncement(k) \/ FallDue(k)
     \/ \E c \in Custodians, partial \in BOOLEAN : HearMessage(c, partial)
     \/ \E call \in calls : Return(call)
     \/ Restart \/ RestartRaises

Spec == Init /\ [][Next]_vars

\* The loop comes to the row of k, to ask for it or to give it up.
Serves(k) ==
  /\ Pass \/ AskSent \/ AskFailed
  /\ \/ loop'.row # Nil /\ loop'.row.key = k
     \/ book.pending[k] # Nil /\ book'.pending[k] = Nil

\* Time passes, the loop runs every five seconds, send_rf ends for everybody who
\* is first in line, and of the queries for k that are tried again and again one
\* is handed over at last.  No row starves: a row whose turn is over because its window
\* is open cannot be asked more than MaxTries times before it leaves the
\* dictionary, and comes back at the end of it.
Fairness ==
  /\ WF_vars(Pass)
  /\ WF_vars(\E call \in calls : Return(call))
  /\ \A k \in Keys :
       /\ WF_vars(FallDue(k))
       /\ SF_vars(Serves(k))
       /\ []<>(loop.row # Nil /\ loop.row.key = k)
          => []<><<AskSent /\ loop.row.key = k>>_vars

FairSpec == Spec /\ Fairness

-----------------------------------------------------------------------------
(* Properties. *)

\* A restart that comes up loses no announced message (the comment at app.py 1985
\* and docs/USER_GUIDE.md:32): whatever was pending is pending again, from the
\* audit events of announcements, failures, partial answers and late handlers.
\* One does not come up when two events of one type share their millisecond.
RestartKeepsPending ==
  [][restarts' # restarts /\ startup' # "raised" =>
       \A k \in Keys : book.pending[k] # Nil => book'.pending[k] # Nil]_vars

\* The budget of the radio: one announcement makes us ask at most MaxTries
\* times, and once more for each restart, however answers, timeouts, handlers
\* that were waiting and passes of the loop interleave.
AskingBounded == \A k \in Keys : asked[k] <= MaxTries + restarts

\* "exhausted" is not said too early: a number that was given up has been asked
\* for MaxTries times since it was announced.  A query that was not handed over
\* does not count (app.py 2467), nor does a restart, a timeout or an answer cut
\* short use an attempt up.
GivenUpLate ==
  \A k \in Keys : book.log[k].last = "exhausted" => asked[k] >= MaxTries

\* As long as an answer may be credited to one number, the custodian is not
\* asked for another one, so that two numbers never share a window.
OneWindow ==
  [][\A c \in Custodians :
       Active(book, c) # Nil => book'.flight[c] \in {book.flight[c], Nil}]_vars

\* No retrieval stays pending for ever: it is answered or given up, unless the
\* daemon is down because its startup raises.
RetrievalEnds ==
  \A k \in Keys : book.pending[k] # Nil ~> book.pending[k] = Nil \/ startup = "raised"

=============================================================================
