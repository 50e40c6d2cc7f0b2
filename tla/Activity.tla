------------------------------ MODULE Activity ------------------------------
(****************************************************************************)
(* Plain mail that JS8Call shows frame by frame.  RX.ACTIVITY events carry  *)
(* the frames of all stations, without a number, and without a sender after *)
(* the first frame; ActivityAssembler collects them by their RF context, and*)
(* what it has goes to the inbox: a partial item until the last frame comes.*)
(* JS8Call may show the whole message in an RX.DIRECTED event as well.      *)
(*                                                                          *)
(*   sent      frames of each message that were on the air, heard or not    *)
(*   shown     messages that came in an RX.DIRECTED event of their own      *)
(*   streams   the open streams of the assembler, by the message that       *)
(*             opened them: the frames collected, and the ambiguous flag    *)
(*   showing   those that a doubtful frame left to be shown once more       *)
(*   inbox     rows of inbox_messages; an id is a hash of a sender and text *)
(*   strays    messages with frames to come while this run of the daemon    *)
(*             had no stream for them (history)                             *)
(*   pure      messages heard from the first frame on, every frame taken    *)
(*             for one, with nothing else near them (history)               *)
(****************************************************************************)
EXTENDS Naturals, Sequences, FiniteSets

CONSTANTS
  Messages,   \* transmissions of messages
  Local,      \* those that are a MSG to this station
  From,       \* the sender of each
  Offset,     \* its place in the passband
  Width,      \* how far apart two places may be and still match: 12 Hz
  Length,     \* how many frames it has
  Opening,    \* the text of its first frame, which two may share
  Prefixed,   \* frames whose text looks like a callsign prefix: "TIME: 12"
  Nil

ASSUME ActivityAssumption ==
  /\ Local \subseteq Messages
  /\ Offset \in [Messages -> Nat] /\ Width \in Nat
  /\ Length \in [Messages -> Nat \ {0}]
  /\ Prefixed \subseteq Messages \X Nat

VARIABLES sent, shown, streams, showing, inbox, strays, pure

vars == <<sent, shown, streams, showing, inbox, strays, pure>>

-----------------------------------------------------------------------------
(* Frames and what they say. *)

Frame == Messages \X (Nat \ {0})

Whole(m) == [i \in 1..Length[m] |-> <<m, i>>]

\* Two messages may open with the same text and differ from there.
Says(f) == IF f[2] = 1 THEN <<Opening[f[1]], 1>> ELSE f
Text(body) == [i \in DOMAIN body |-> Says(body[i])]

StartsWith(a, b) == Len(b) <= Len(a) /\ \A i \in 1..Len(b) : Says(a[i]) = Says(b[i])

Stream == [parts : Seq(Frame), ambiguous : BOOLEAN]

ASSUME NilAssumption == Nil \notin Stream

\* Streams belong to messages for this station, begin with their first frame,
\* and no message is ahead of its last one.
TypeOK ==
  /\ sent \in [Messages -> Nat] /\ \A m \in Messages : sent[m] <= Length[m]
  /\ shown \in SUBSET Local
  /\ streams \in [Messages -> Stream \cup {Nil}]
  /\ \A s \in Messages :
       streams[s] # Nil => s \in Local /\ sent[s] > 0 /\ streams[s].parts # << >>
                           /\ streams[s].parts[1] = <<s, 1>>
  /\ showing \in SUBSET {s \in Messages : streams[s] # Nil}
  /\ \A r \in inbox : r.body \in Seq(Frame) /\ r.body # << >> /\ r.complete \in BOOLEAN
  /\ strays \in SUBSET Messages
  /\ pure \in SUBSET Local

Init ==
  /\ sent = [m \in Messages |-> 0]
  /\ shown = {}
  /\ streams = [m \in Messages |-> Nil]
  /\ showing = {}
  /\ inbox = {}
  /\ strays = {}
  /\ pure = {}

-----------------------------------------------------------------------------
(* The inbox. *)

\* upsert_inbox_message
Upsert(box, sender, id, body, complete) ==
  {r \in box : r.sender # sender \/ r.id # id}
  \cup {[sender |-> sender, id |-> id, body |-> body, complete |-> complete]}

\* The incomplete rows that begin like body, or body like them; of several, the
\* code takes the one written last.
Alike(box, body) ==
  {r \in box : ~r.complete /\ (StartsWith(body, r.body) \/ StartsWith(r.body, body))}

AlikeOf(box, sender, body) == {r \in Alike(box, body) : r.sender = sender}

\* What the inbox may be after a partial assembly.
Previews(box, sender, body) ==
  {Upsert(box, sender, r.id, body, FALSE) : r \in AlikeOf(box, sender, body)}
  \cup (IF AlikeOf(box, sender, body) = {}
        THEN {Upsert(box, sender, <<"partial", Text(body)>>, body, FALSE)} ELSE {})

\* After a complete one: a row of the sender, else of anybody, else a new one.
Completions(box, sender, body) ==
  {Upsert(box, r.sender, r.id, body, TRUE) :
     r \in IF AlikeOf(box, sender, body) # {} THEN AlikeOf(box, sender, body)
                                             ELSE Alike(box, body)}
  \cup (IF Alike(box, body) = {}
        THEN {Upsert(box, sender, <<"whole", Text(body)>>, body, TRUE)} ELSE {})

-----------------------------------------------------------------------------
(* The assembler. *)

\* On the air, what may be taken for one transmission.
Near(m, n) == Offset[m] <= Offset[n] + Width /\ Offset[n] <= Offset[m] + Width

\* Mutant: offset, speed, dial and band are not compared.
MatchesAnything(s, m) == TRUE

\* _context_matches: the stream keeps the place of its first frame.
Matches(s, m) == Near(s, m)

Open == {s \in Messages : streams[s] # Nil}

\* The streams that a later frame of m may belong to.
Candidates(m) == {s \in Open : Matches(s, m)}

\* On the air, with frames to come.
OnAir(m) == 0 < sent[m] /\ sent[m] < Length[m]

Others(m) == {n \in Messages \ {m} : Near(n, m)}

Goes(m) == sent[m] < Length[m] /\ sent' = [sent EXCEPT ![m] = @ + 1]

Stray == strays' = strays \cup {m \in Messages : OnAir(m)' /\ streams'[m] = Nil}

\* Mutant: a start clears what was pending.
OpenedAlone(m, parts) ==
  streams' = [s \in Messages |-> IF s = m THEN [parts |-> parts, ambiguous |-> FALSE] ELSE Nil]

Opened(m, parts) == streams' = [streams EXCEPT ![m] = [parts |-> parts, ambiguous |-> FALSE]]

\* Mutant: a start without a destination of ours opens a stream as well.
LocalOrNot(m) == TRUE

ForUs(m) == m \in Local

\* The first frame of a message to this station.
HearStart(m) ==
  LET parts == << <<m, 1>> >> IN
  /\ sent[m] = 0 /\ ForUs(m)
  /\ Goes(m)
  /\ \/ Length[m] = 1 /\ inbox' \in Completions(inbox, From[m], parts) /\ UNCHANGED streams
     \/ Length[m] > 1 /\ inbox' \in Previews(inbox, From[m], parts) /\ Opened(m, parts)
  /\ pure' = (pure \ Others(m)) \cup (IF Open \cap Others(m) = {} THEN {m} ELSE {})
  /\ UNCHANGED <<shown, showing>>

\* The first frame of a message to somebody else.
OverhearStart(m) ==
  /\ sent[m] = 0 /\ ~ForUs(m)
  /\ Goes(m)
  /\ pure' = pure \ Others(m)
  /\ UNCHANGED <<shown, streams, showing, inbox>>

\* A frame that this station or this daemon does not hear.
Miss(m) ==
  /\ Goes(m)
  /\ pure' = pure \ {m}
  /\ UNCHANGED <<shown, streams, showing, inbox>>

\* A later frame of m that one stream may take; late when its time is before
\* that of the frame taken last.
Join(m, s, late) ==
  LET last == sent[m] + 1 = Length[m]
      parts == Append(streams[s].parts, <<m, sent[m] + 1>>)
      ambiguous == streams[s].ambiguous \/ late
  IN  /\ streams' = [streams EXCEPT ![s] =
                       IF last THEN Nil ELSE [parts |-> parts, ambiguous |-> ambiguous]]
      /\ inbox' \in IF last /\ ~ambiguous THEN Completions(inbox, From[s], parts)
                                          ELSE Previews(inbox, From[s], parts)
      /\ UNCHANGED showing

\* One that several may take is in none of them; each is ambiguous from here on
\* and is shown once more.
Doubt(all) ==
  /\ streams' = [s \in Messages |-> IF s \in all THEN [streams[s] EXCEPT !.ambiguous = TRUE]
                                    ELSE streams[s]]
  /\ showing' = all
  /\ UNCHANGED inbox

\* _CALLSIGN_PREFIX_RE of the next frame: it may be the start of another one's.
LooksLikeStart(m) == <<m, sent[m] + 1>> \in Prefixed

HearNext(m, late) ==
  /\ sent[m] > 0 /\ ~LooksLikeStart(m)
  /\ Goes(m)
  /\ \/ Candidates(m) = {} /\ UNCHANGED <<streams, showing, inbox>>
     \/ \E s \in Candidates(m) : Candidates(m) = {s} /\ Join(m, s, late)
     \/ (\E s, t \in Candidates(m) : s # t) /\ Doubt(Candidates(m))
  /\ pure' = pure \ (Others(m) \cup (IF late THEN {m} ELSE {}))
  /\ UNCHANGED shown

\* A continuation that looks like a callsign prefix is dropped: no stream takes it
\* and none becomes doubtful, so the message goes on with a hole or without an end.
Ignore(m) ==
  /\ sent[m] > 0 /\ LooksLikeStart(m)
  /\ Goes(m)
  /\ pure' = pure \ {m}
  /\ UNCHANGED <<shown, streams, showing, inbox>>

\* The loop of handle over what feed returned; each row has its own commit.
ShowAgain(s) ==
  /\ s \in showing
  /\ showing' = showing \ {s}
  /\ inbox' \in Previews(inbox, From[s], streams[s].parts)
  /\ UNCHANGED <<sent, shown, streams, pure>>

\* JS8Call has the whole message and shows it in one event.
HearDirected(m) ==
  /\ m \in Local \ shown /\ sent[m] = Length[m]
  /\ shown' = shown \cup {m}
  /\ inbox' \in Completions(inbox, From[m], Whole(m))
  /\ UNCHANGED <<sent, streams, showing, pure>>

\* Fifteen minutes without a frame.
Expire(s) ==
  /\ s \in Open
  /\ streams' = [streams EXCEPT ![s] = Nil]
  /\ pure' = pure \ {s}
  /\ UNCHANGED <<sent, shown, showing, inbox>>

\* The streams are in memory only.
Restart ==
  /\ streams' = [s \in Messages |-> Nil]
  /\ showing' = {}
  /\ pure' = {}
  /\ UNCHANGED <<sent, shown, inbox>>

Event ==
  \/ \E m \in Messages :
       \/ HearStart(m) \/ OverhearStart(m)
       \/ Miss(m) \/ Ignore(m)
       \/ HearDirected(m) \/ Expire(m)
  \/ \E m \in Messages, late \in BOOLEAN : HearNext(m, late)

\* Nothing is handled while the loop over the last frame goes on, but the
\* process may end at any commit.
Next ==
  /\ \/ showing = {} /\ Event
     \/ \E s \in Messages : ShowAgain(s)
     \/ Restart
  /\ Stray

Spec == Init /\ [][Next]_vars

-----------------------------------------------------------------------------
(* Properties. *)

\* Frames of one message only, in their order, with its first and its last.
OneMessage(body) ==
  LET m == body[1][1] IN
  /\ \A i \in 1..Len(body) : body[i][1] = m
  /\ \A i, j \in 1..Len(body) : i < j => body[i][2] < body[j][2]
  /\ body[1][2] = 1 /\ body[Len(body)][2] = Length[m]

\* A complete item holds one message and no word of another one, unless a
\* message that the daemon had no stream for was near it: continuations carry no
\* sender, so only the match of exactly one stream keeps transmissions apart
\* (ActivityAssembler.feed).  Frames lost in the middle go unnoticed.
Unmixed ==
  \A r \in inbox :
    r.complete /\ (\A n \in strays : ~Near(n, r.body[1][1])) => OneMessage(r.body)

\* A message heard whole, with nothing near it and no frame but the first that
\* looks like a callsign prefix (those are dropped), is in the inbox, complete,
\* with its last frame, whatever starts, continues or is lost elsewhere in between
\* ("does not clear an existing stream", docs/USER_GUIDE.md).
WholeArrives ==
  [][\A m \in pure' :
       sent[m] < Length[m] /\ sent'[m] = Length[m]
       => \E r \in inbox' : r.complete /\ r.body = Whole(m)]_vars

=============================================================================
