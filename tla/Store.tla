------------------------------- MODULE Store --------------------------------
(****************************************************************************)
(* The database under its threads.  Every thread has a connection of its    *)
(* own: the event loop keeps one, each HTTP request has one until its       *)
(* finish() closes it.  A SELECT sees what is committed, a thread's first   *)
(* INSERT, UPDATE or DELETE takes the one write lock and keeps it until the *)
(* thread commits, also when the statement or what follows it raises.  So   *)
(* methods that look and then write can have other threads between the two. *)
(*                                                                          *)
(*   db      what is committed: the state of each message, which have rows  *)
(*           in the tables that REFERENCE messages (attempts, paths,        *)
(*           airtime, transactions, progress of parts), and which have rows *)
(*           in the two that name a message without it (parts, custody)     *)
(*   writer  the thread with the write lock, and work, what it would commit *)
(*   pc      the call each thread is in, by its next statement: the look of *)
(*           MailService, the SELECT of the method, its first transaction   *)
(*           ("write", "commit") and its second ("again", "commit"); seen   *)
(*           is the state the SELECT found                                  *)
(*   over    the requests that have returned or raised: finish() is due     *)
(****************************************************************************)
EXTENDS Lifecycle

CONSTANTS
  Messages,
  Requests,   \* HTTP requests at a time, each a thread
  Loop,       \* the thread of the event loop
  Nil

Threads == Requests \cup {Loop}

VARIABLES db, writer, work, pc, over

vars == <<db, writer, work, pc, over>>

-----------------------------------------------------------------------------
Db == [state : [Messages -> States \cup {"gone"}], rows : SUBSET Messages,
       loose : SUBSET Messages]

\* "inbox": mark_inbox_read and delete_inbox_message.
RequestOps == {"cancel", "retry", "retry_now", "delete", "inbox"}

\* "move": transition_message; "hold": hold_after_js8call_ack; "insert":
\* any insert of a row that refers to a message, as in
\* begin_transmission_transaction; "part": upsert_message_part, upsert_custody;
\* "keep": any other write.
LoopOps == {"move", "defer", "hold", "insert", "part", "keep"}

\* The state a call writes; the event loop's transition_message has several.
To(op) ==
  CASE op = "cancel" -> {"cancelled"}
    [] op \in {"retry", "retry_now"} -> {"queued"}
    [] op = "defer" -> {"waiting_route"}
    [] op = "hold" -> {"acknowledged"}
    [] op = "move" -> {"waiting_route", "in_progress", "stored", "delivered", "failed",
                       "expired"}
    [] OTHER -> {Nil}

Points == {"look", "read", "write", "commit", "again"}

Call == [op : RequestOps \cup LoopOps, msg : Messages, to : States \cup {Nil},
         at : Points, first : BOOLEAN, seen : States \cup {Nil}]

ASSUME StoreAssumption ==
  /\ Loop \notin Requests
  /\ Nil \notin Threads \cup States \cup Db \cup Call

TypeOK ==
  /\ db \in Db
  /\ writer \in Threads \cup {Nil}
  /\ work \in Db \cup {Nil}
  /\ pc \in [Threads -> Call \cup {Nil}]
  /\ over \in SUBSET Requests

Init ==
  /\ db = [state |-> [m \in Messages |-> "queued"], rows |-> {}, loose |-> {}]
  /\ writer = Nil /\ work = Nil
  /\ pc = [p \in Threads |-> Nil]
  /\ over = {}

-----------------------------------------------------------------------------
(* One call. *)

View(p) == IF writer = p THEN work ELSE db

FirstPoint(op) ==
  CASE op \in {"cancel", "retry", "retry_now"} -> "look"
    [] op \in {"delete", "move", "defer", "hold"} -> "read"
    [] OTHER -> "write"

\* What the method, or the service before it, asks of the state it has read.
Accepts(call, s) ==
  CASE call.at = "look" /\ call.op = "cancel" -> s \notin Terminal \cup {"acknowledged"}
    [] call.op = "retry"     -> s \in {"acknowledged", "failed", "cancelled"}
    [] call.op = "retry_now" -> s \in {"acknowledged", "queued", "waiting_route"}
    [] call.op = "delete"    -> s \in Terminal \cup {"acknowledged"}
    [] call.op = "defer"     -> CanDefer(s)
    [] OTHER                 -> CanTransition(s, call.to)

\* UPDATE messages ... WHERE id = ?
Put(b, m, s) ==
  IF b.state[m] = "gone" THEN b ELSE [b EXCEPT !.state[m] = s]

\* What the statements of one transaction do; the second one of hold changes
\* columns only.
Written(b, call) ==
  LET m == call.msg
  IN  IF call.first /\ call.to # Nil THEN Put(b, m, call.to)
      ELSE CASE call.op = "delete" -> [b EXCEPT !.state[m] = "gone", !.rows = @ \ {m},
                                              !.loose = @ \ {m}]
             [] call.op = "part" -> [b EXCEPT !.loose = @ \cup {m}]
             [] call.op \in {"insert", "retry_now", "defer"} -> [b EXCEPT !.rows = @ \cup {m}]
             [] OTHER -> b

\* Mutant: PRAGMA foreign_keys is off.
DanglingNever(b, call) == FALSE

\* The statement inserts a row that refers to a message that is not there:
\* IntegrityError.  Parts and custody refer to none: their rows go in.
Dangling(b, call) ==
  /\ \/ call.op = "insert"
     \/ call.op \in {"retry_now", "defer"} /\ ~call.first
  /\ b.state[call.msg] = "gone"

-----------------------------------------------------------------------------
Start(p, op, m, to) ==
  /\ pc[p] = Nil /\ p \notin over
  /\ op \in IF p = Loop THEN LoopOps ELSE RequestOps
  /\ pc' = [pc EXCEPT ![p] = [op |-> op, msg |-> m, to |-> to, at |-> FirstPoint(op),
                              first |-> TRUE, seen |-> Nil]]
  /\ UNCHANGED <<db, writer, work, over>>

At(p, points) == pc[p] # Nil /\ pc[p].at \in points

\* Mutant: the loop's connection is closed after a call as well.
EndsAlike(p) ==
  /\ pc' = [pc EXCEPT ![p] = Nil]
  /\ over' = over \cup {p}

\* The call of p returns or raises.
Ends(p) ==
  /\ pc' = [pc EXCEPT ![p] = Nil]
  /\ over' = IF p = Loop THEN over ELSE over \cup {p}

Goes(p, call) == pc' = [pc EXCEPT ![p] = call] /\ UNCHANGED over

\* cancel looks twice: in MailService, and in transition_message.
Read(p) ==
  /\ At(p, {"look", "read"})
  /\ LET call == pc[p]
         s == View(p).state[call.msg]
     IN  \/ /\ s = "gone" \/ ~Accepts(call, s)
           /\ Ends(p)
        \/ /\ s # "gone" /\ Accepts(call, s)
           /\ IF call.at = "look" /\ call.op = "cancel"
              THEN Goes(p, [call EXCEPT !.at = "read"])
              ELSE Goes(p, [call EXCEPT !.at = "write", !.seen = s])
  /\ UNCHANGED <<db, writer, work>>

\* The first statement of a transaction waits for the lock; what raises keeps
\* it.  The item of the inbox may be one that another request removed: the
\* method raises when the statement has met no row.
Write(p) ==
  /\ At(p, {"write", "again"})
  /\ writer \in {Nil, p}
  /\ writer' = p
  /\ \/ /\ Dangling(View(p), pc[p]) \/ pc[p].op = "inbox"
        /\ work' = View(p)
        /\ Ends(p)
     \/ /\ ~Dangling(View(p), pc[p])
        /\ work' = Written(View(p), pc[p])
        /\ Goes(p, [pc[p] EXCEPT !.at = "commit"])
  /\ UNCHANGED db

Commit(p) ==
  /\ At(p, {"commit"})
  /\ db' = work
  /\ writer' = Nil /\ work' = Nil
  /\ IF pc[p].first /\ pc[p].op \in {"retry_now", "defer", "hold"}
     THEN Goes(p, [pc[p] EXCEPT !.at = "again", !.first = FALSE, !.seen = Nil])
     ELSE Ends(p)

\* The thirty seconds of the connection's timeout: "database is locked".
GiveUp(p) ==
  /\ At(p, {"write", "again"})
  /\ writer \notin {Nil, p}
  /\ Ends(p)
  /\ UNCHANGED <<db, writer, work>>

\* Mutant: the thread ends and its connection stays.
CloseForgotten(p) ==
  /\ p \in over
  /\ over' = over \ {p}
  /\ UNCHANGED <<db, writer, work, pc>>

\* finish: the connection is closed, what it has not committed is rolled back.
Close(p) ==
  /\ p \in over
  /\ over' = over \ {p}
  /\ IF writer = p THEN writer' = Nil /\ work' = Nil ELSE UNCHANGED <<writer, work>>
  /\ UNCHANGED <<db, pc>>

\* The process dies and starts again.
Crash ==
  /\ pc' = [p \in Threads |-> Nil]
  /\ over' = {}
  /\ writer' = Nil /\ work' = Nil
  /\ UNCHANGED db

Step(p) == Read(p) \/ Write(p) \/ Commit(p) \/ Close(p)

Next ==
  \/ \E p \in Threads : \/ Step(p) \/ GiveUp(p)
                        \/ \E op \in RequestOps \cup LoopOps, m \in Messages :
                             \E to \in To(op) : Start(p, op, m, to)
  \/ Crash

Spec == Init /\ [][Next]_vars

\* Threads run, and the loop writes an observation or an audit event again and
\* again.
Fairness ==
  /\ \A p \in Threads : WF_vars(Step(p))
  /\ SF_vars(\E m \in Messages, to \in States \cup {Nil} : Start(Loop, "keep", m, to))

FairSpec == Spec /\ Fairness

-----------------------------------------------------------------------------
(* Properties. *)

\* No row of a table that REFERENCES messages belongs to one that is not there: a
\* removal and the loop's inserts for the same message come in any order, and the
\* foreign keys stand between them.  The other two tables, parts and custody,
\* have no such promise: db.loose may name a message that is gone.
NoOrphans == \A m \in db.rows : db.state[m] # "gone"

\* m is settled and no call that has looked at it is about to write what it
\* concluded from another state.
Firm(m) ==
  /\ db.state[m] \in Terminal
  /\ \A p \in Threads :
       pc[p] # Nil /\ pc[p].msg = m /\ pc[p].seen # Nil => pc[p].seen = db.state[m]

\* Terminal states stand, but for the operator's requests and for stored ->
\* delivered: only a call that was already under way when the message settled
\* can undo it (docs/IMPLEMENTATION_PLAN.md:375 makes no such exception).
SettledStands ==
  [][\A m \in Messages :
       Firm(m) =>
         \/ db'.state[m] = db.state[m]
         \/ db.state[m] = "stored" /\ db'.state[m] = "delivered"
         \/ \E r \in Requests :
              /\ pc[r] # Nil /\ pc[r].at = "commit"
              /\ pc[r].op \in {"retry", "delete"} /\ pc[r].msg = m]_vars

\* The one write lock comes back, whatever raised between a write and its
\* commit: no thread locks the others out.
LockReturned == writer # Nil ~> writer = Nil

=============================================================================
