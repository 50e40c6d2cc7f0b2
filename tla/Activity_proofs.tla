--------------------------- MODULE Activity_proofs ---------------------------
(****************************************************************************)
(* Theorems about Activity, for any number of messages anywhere in the      *)
(* passband.  What keeps transmissions apart is not a mark on the frames:   *)
(* a message on the air that is no stray has a stream open, and that stream *)
(* is a second candidate for its frames whenever they could join another.   *)
(****************************************************************************)
EXTENDS Activity, TLAPS

\* Who is on the air has a stream, or is a stray.
Tracked == \A m \in Messages : OnAir(m) => m \in Open \/ m \in strays

\* Its own frames so far, in order, some of them lost.
OwnSoFar(s, parts) ==
  /\ \A i \in 1..Len(parts) : parts[i][1] = s /\ parts[i][2] <= sent[s]
  /\ \A i, j \in 1..Len(parts) : i < j => parts[i][2] < parts[j][2]

Apart(s) == \A n \in strays : ~Near(n, s)

StreamsOwn == \A s \in Open : Apart(s) => OwnSoFar(s, streams[s].parts)

\* Its own frames so far, none lost, and nothing else near it is open.
PureSoFar ==
  \A m \in pure : sent[m] > 0 /\ (OnAir(m) =>
    /\ streams[m] = [parts |-> [i \in 1..sent[m] |-> <<m, i>>], ambiguous |-> FALSE]
    /\ Open \cap Others(m) = {})

IInv == TypeOK /\ Tracked /\ StreamsOwn /\ PureSoFar /\ Unmixed

-----------------------------------------------------------------------------
(* Helpers. *)

\* A partial assembly writes one incomplete row and keeps or replaces others.
LEMMA PreviewRows ==
  ASSUME NEW box, NEW sender, NEW body, NEW after \in Previews(box, sender, body)
  PROVE  \A r \in after : r \in box \/ (r.body = body /\ r.complete = FALSE)
  BY DEF Previews, Upsert

\* A complete one writes one complete row.
LEMMA CompletionRows ==
  ASSUME NEW box, NEW sender, NEW body, NEW after \in Completions(box, sender, body)
  PROVE  \A r \in after : r \in box \/ (r.body = body /\ r.complete = TRUE)
<1>1. \E x, y : after = Upsert(box, x, y, body, TRUE)
  BY DEF Completions
<1> QED
  BY <1>1 DEF Upsert

LEMMA CompletedRow ==
  ASSUME NEW m, NEW sender, inbox' \in Completions(inbox, sender, Whole(m))
  PROVE  \E r \in inbox' : r.complete /\ r.body = Whole(m)
<1>1. \E x, y : inbox' = Upsert(inbox, x, y, Whole(m), TRUE)
  BY DEF Completions
<1>2. PICK x, y : inbox' = Upsert(inbox, x, y, Whole(m), TRUE)
  BY <1>1
<1> DEFINE row == [sender |-> x, id |-> y, body |-> Whole(m), complete |-> TRUE]
<1>3. row \in inbox'
  BY <1>2 DEF Upsert
<1>4. row.complete /\ row.body = Whole(m)
  OBVIOUS
<1> QED
  BY <1>3, <1>4

LEMMA NearSymmetric ==
  ASSUME NEW m \in Messages, NEW n \in Messages
  PROVE  Near(m, m) /\ (Near(m, n) <=> Near(n, m))
  BY ActivityAssumption DEF Near

\* A sequence of one frame more.
LEMMA OneMore ==
  ASSUME NEW parts \in Seq(Frame), NEW f \in Frame
  PROVE  /\ Append(parts, f) \in Seq(Frame) /\ Append(parts, f) # << >>
         /\ Len(Append(parts, f)) = Len(parts) + 1 /\ Len(parts) \in Nat
         /\ \A i \in 1..Len(parts) : Append(parts, f)[i] = parts[i]
         /\ Append(parts, f)[Len(parts) + 1] = f
  OBVIOUS

LEMMA OrderExtends ==
  ASSUME NEW n \in Nat, NEW body,
         \A i, j \in 1..n : i < j => body[i][2] < body[j][2],
         \A i \in 1..n : body[i][2] < body[n + 1][2]
  PROVE  \A i, j \in 1..(n + 1) : i < j => body[i][2] < body[j][2]
<1> SUFFICES ASSUME NEW i \in 1..(n + 1), NEW j \in 1..(n + 1), i < j
             PROVE  body[i][2] < body[j][2]
  OBVIOUS
<1>1. i \in 1..n /\ (j = n + 1 \/ j \in 1..n)
  OBVIOUS
<1> QED
  BY <1>1

LEMMA StreamOf ==
  ASSUME TypeOK, NEW s \in Open
  PROVE  /\ streams[s] \in Stream /\ s \in Local /\ s \in Messages
         /\ streams[s].parts \in Seq(Frame) /\ streams[s].parts # << >>
         /\ streams[s].parts[1] = <<s, 1>>
         /\ Len(streams[s].parts) \in Nat \ {0} /\ streams[s].ambiguous \in BOOLEAN
         /\ sent[s] > 0
<1>1. s \in Messages /\ streams[s] # Nil
  BY DEF Open
<1>2. streams[s] \in Stream
  BY <1>1 DEF TypeOK
<1>3. /\ s \in Local /\ sent[s] > 0 /\ streams[s].parts # << >>
      /\ streams[s].parts[1] = <<s, 1>>
  BY <1>1 DEF TypeOK
<1>4. streams[s].parts \in Seq(Frame) /\ streams[s].ambiguous \in BOOLEAN
  BY <1>2 DEF Stream
<1>5. Len(streams[s].parts) \in Nat \ {0}
  BY <1>3, <1>4
<1> QED
  BY <1>1, <1>2, <1>3, <1>4, <1>5

LEMMA FrameOf ==
  ASSUME TypeOK, NEW m \in Messages
  PROVE  /\ <<m, sent[m] + 1>> \in Frame /\ <<m, 1>> \in Frame
         /\ sent[m] \in Nat /\ Length[m] \in Nat \ {0}
  BY ActivityAssumption DEF TypeOK, Frame

LEMMA WholeIsOne ==
  ASSUME NEW m \in Messages
  PROVE  /\ Whole(m) \in Seq(Frame) /\ Whole(m) # << >> /\ Whole(m)[1] = <<m, 1>>
         /\ OneMessage(Whole(m)) /\ Len(Whole(m)) = Length[m]
<1>1. Length[m] \in Nat \ {0}
  BY ActivityAssumption
<1>2. Whole(m) \in [1..Length[m] -> Frame]
  BY <1>1 DEF Whole, Frame
<1>3. Whole(m) \in Seq(Frame) /\ Len(Whole(m)) = Length[m]
  BY <1>1, <1>2
<1>4. \A i \in 1..Length[m] : Whole(m)[i] = <<m, i>>
  BY DEF Whole
<1> QED
  BY <1>1, <1>3, <1>4 DEF OneMessage

\* The one stream that may take a frame of m is its own, or near a stray.
LEMMA JoinsOwn ==
  ASSUME TypeOK, Tracked, NEW m \in Messages, OnAir(m),
         NEW s \in Open, Candidates(m) = {s}, Apart(s)
  PROVE  m = s
<1>1. s \in Messages /\ Near(s, m) /\ Near(m, s)
  BY NearSymmetric DEF Candidates, Matches, Open
<1>2. m \in Open
  BY <1>1 DEF Tracked, Apart
<1>3. m \in Candidates(m)
  BY <1>2, NearSymmetric DEF Candidates, Matches
<1> QED
  BY <1>3

LEMMA StraysStay ==
  ASSUME Next, NEW s \in Messages, Apart(s)'
  PROVE  Apart(s)
  BY DEF Next, Stray, Apart

-----------------------------------------------------------------------------
(* Types. *)

InboxType == \A r \in inbox : r.body \in Seq(Frame) /\ r.body # << >> /\ r.complete \in BOOLEAN

LEMMA TypeOfInbox == TypeOK /\ Next => InboxType'
<1> SUFFICES ASSUME TypeOK, Next PROVE InboxType'
  OBVIOUS
<1>0. InboxType
  BY DEF TypeOK, InboxType
<1>a. ASSUME NEW sender, NEW body \in Seq(Frame), body # << >>,
             inbox' \in Previews(inbox, sender, body)
             \/ inbox' \in Completions(inbox, sender, body)
      PROVE  InboxType'
  <2>1. CASE inbox' \in Previews(inbox, sender, body)
    <3>1. \A r \in inbox' : r \in inbox \/ (r.body = body /\ r.complete = FALSE)
      BY <2>1, PreviewRows
    <3> QED
      BY <3>1, <1>0, <1>a DEF InboxType
  <2>2. CASE inbox' \in Completions(inbox, sender, body)
    <3>1. \A r \in inbox' : r \in inbox \/ (r.body = body /\ r.complete = TRUE)
      BY <2>2, CompletionRows
    <3> QED
      BY <3>1, <1>0, <1>a DEF InboxType
  <2> QED
    BY <1>a, <2>1, <2>2
<1>b. inbox' = inbox => InboxType'
  BY <1>0 DEF InboxType
<1>1. ASSUME NEW m \in Messages, HearStart(m) PROVE InboxType'
  <2>0. <<m, 1>> \in Frame
    BY FrameOf
  <2>1. << <<m, 1>> >> \in Seq(Frame) /\ << <<m, 1>> >> # << >>
    BY <2>0
  <2> QED
    BY <1>1, <2>1, <1>a DEF HearStart
<1>2. ASSUME NEW m \in Messages, NEW late \in BOOLEAN, HearNext(m, late) PROVE InboxType'
  <2>1. CASE Candidates(m) = {} /\ UNCHANGED <<streams, showing, inbox>>
    BY <2>1, <1>b
  <2>2. ASSUME NEW s \in Candidates(m), Join(m, s, late) PROVE InboxType'
    <3>1. s \in Open
      BY DEF Candidates
    <3>2. /\ Append(streams[s].parts, <<m, sent[m] + 1>>) \in Seq(Frame)
          /\ Append(streams[s].parts, <<m, sent[m] + 1>>) # << >>
      BY <3>1, StreamOf, FrameOf, OneMore
    <3> QED
      BY <2>2, <3>2, <1>a DEF Join
  <2>3. CASE Doubt(Candidates(m))
    BY <2>3, <1>b DEF Doubt
  <2> QED
    BY <1>2, <2>1, <2>2, <2>3 DEF HearNext
<1>3. ASSUME NEW m \in Messages, HearDirected(m) PROVE InboxType'
  BY <1>3, <1>a, WholeIsOne DEF HearDirected
<1>4. ASSUME NEW s \in Messages, ShowAgain(s) PROVE InboxType'
  <2>1. s \in Open
    BY <1>4 DEF ShowAgain, TypeOK, Open
  <2> QED
    BY <1>4, <2>1, StreamOf, <1>a DEF ShowAgain
<1>5. ASSUME NEW m \in Messages, OverhearStart(m) \/ Miss(m) \/ Ignore(m) \/ Expire(m)
      PROVE  InboxType'
  BY <1>5, <1>b DEF OverhearStart, Miss, Ignore, Expire
<1>6. Restart => InboxType'
  BY <1>b DEF Restart
<1> QED
  BY <1>1, <1>2, <1>3, <1>4, <1>5, <1>6 DEF Next, Event

LEMMA TypePreserved == TypeOK /\ Next => TypeOK'
<1> SUFFICES ASSUME TypeOK, Next PROVE TypeOK'
  OBVIOUS
<1> DEFINE StreamsType ==
      /\ streams \in [Messages -> Stream \cup {Nil}]
      /\ \A s \in Messages :
           streams[s] # Nil => s \in Local /\ sent[s] > 0 /\ streams[s].parts # << >>
                               /\ streams[s].parts[1] = <<s, 1>>
      /\ showing \in SUBSET {s \in Messages : streams[s] # Nil}
    SentType ==
      sent \in [Messages -> Nat] /\ \A m \in Messages : sent[m] <= Length[m]
<1>0. StreamsType /\ SentType
  BY DEF TypeOK
<1>1. strays' \in SUBSET Messages
  BY DEF TypeOK, Next, Stray
<1>g. ASSUME NEW m \in Messages, Goes(m)
      PROVE  SentType' /\ sent'[m] = sent[m] + 1
             /\ \A s \in Messages : sent'[s] >= sent[s]
  <2>1. sent[m] \in Nat /\ Length[m] \in Nat /\ sent[m] < Length[m]
    BY <1>g, FrameOf DEF Goes
  <2>2. sent' = [sent EXCEPT ![m] = sent[m] + 1]
    BY <1>g DEF Goes
  <2>3. \A s \in Messages : sent'[s] = IF s = m THEN sent[s] + 1 ELSE sent[s]
    BY <2>2, <1>0
  <2>4. sent' \in [Messages -> Nat]
    BY <2>1, <2>2, <1>0
  <2>5. \A s \in Messages : sent'[s] <= Length[s] /\ sent'[s] >= sent[s]
    BY <2>1, <2>3, <1>0
  <2> QED
    BY <2>3, <2>4, <2>5
<1>k. ASSUME UNCHANGED <<streams, showing>>, \A s \in Messages : sent'[s] >= sent[s], SentType'
      PROVE  StreamsType'
  BY <1>0, <1>k
<1>2. ASSUME NEW m \in Messages, HearStart(m) PROVE TypeOK'
  <2>1. SentType' /\ sent'[m] = sent[m] + 1 /\ \A s \in Messages : sent'[s] >= sent[s]
    BY <1>2, <1>g DEF HearStart
  <2>2. StreamsType'
    <3>1. CASE UNCHANGED streams
      BY <3>1, <2>1, <1>k, <1>2 DEF HearStart
    <3>2. CASE Opened(m, << <<m, 1>> >>)
      <4>0. <<m, 1>> \in Frame /\ sent[m] \in Nat
        BY FrameOf
      <4> DEFINE new == [parts |-> << <<m, 1>> >>, ambiguous |-> FALSE]
      <4>1. /\ new \in Stream /\ new.parts # << >> /\ new.parts[1] = <<m, 1>>
            /\ new # Nil
        <5>1. << <<m, 1>> >> \in Seq(Frame) /\ << <<m, 1>> >> # << >>
          BY <4>0
        <5>2. new \in Stream
          BY <5>1 DEF Stream
        <5> QED
          BY <5>1, <5>2, NilAssumption
      <4>2. streams' = [streams EXCEPT ![m] = new] /\ m \in Local /\ showing' = showing
        BY <3>2, <1>2 DEF Opened, HearStart, ForUs
      <4> HIDE DEF new
      <4> QED
        BY <4>0, <4>1, <4>2, <2>1, <1>0
    <3> QED
      BY <3>1, <3>2, <1>2 DEF HearStart
  <2>3. pure' \in SUBSET Local /\ shown' \in SUBSET Local
    BY <1>2 DEF HearStart, ForUs, TypeOK
  <2> QED
    BY <1>1, <2>1, <2>2, <2>3, TypeOfInbox DEF TypeOK, InboxType
<1>3. ASSUME NEW m \in Messages, NEW late \in BOOLEAN, showing = {}, HearNext(m, late)
      PROVE  TypeOK'
  <2>1. SentType' /\ sent'[m] = sent[m] + 1 /\ \A s \in Messages : sent'[s] >= sent[s]
    BY <1>3, <1>g DEF HearNext
  <2>2. CASE Candidates(m) = {} /\ UNCHANGED <<streams, showing, inbox>>
    <3>1. StreamsType'
      BY <2>2, <2>1, <1>k
    <3>2. pure' \in SUBSET Local /\ shown' \in SUBSET Local
      BY <1>3 DEF HearNext, TypeOK
    <3> QED
      BY <1>1, <2>1, <3>1, <3>2, TypeOfInbox DEF TypeOK, InboxType
  <2>3. ASSUME NEW s \in Candidates(m), Join(m, s, late) PROVE TypeOK'
    <3>1. s \in Open /\ s \in Messages
      BY DEF Candidates, Open
    <3> DEFINE parts == Append(streams[s].parts, <<m, sent[m] + 1>>)
               next == [parts |-> parts, ambiguous |-> streams[s].ambiguous \/ late]
    <3>2. parts \in Seq(Frame) /\ parts # << >> /\ parts[1] = <<s, 1>>
      <4>1. streams[s].parts \in Seq(Frame) /\ 1 \in 1..Len(streams[s].parts)
            /\ streams[s].parts[1] = <<s, 1>>
        BY <3>1, StreamOf
      <4>2. <<m, sent[m] + 1>> \in Frame
        BY FrameOf
      <4> QED
        BY <4>1, <4>2, OneMore
    <3>3. next \in Stream
      BY <3>2 DEF Stream
    <3>4. next.parts # << >> /\ next.parts[1] = <<s, 1>> /\ next # Nil
      BY <3>2, <3>3, NilAssumption
    <3>5. streams' = [streams EXCEPT ![s] = IF sent[m] + 1 = Length[m] THEN Nil ELSE next]
          /\ showing' = {}
      BY <2>3, <1>3 DEF Join
    <3> HIDE DEF next
    <3>6. StreamsType'
      <4>1. s \in Local /\ sent'[s] > 0
        <5>1. s \in Local /\ sent[s] > 0 /\ sent[s] \in Nat
          BY <3>1, StreamOf, FrameOf
        <5>2. sent'[s] >= sent[s] /\ sent'[s] \in Nat
          BY <3>1, <2>1
        <5> QED
          BY <5>1, <5>2
      <4> QED
        BY <3>1, <3>3, <3>4, <3>5, <4>1, <2>1, <1>0
    <3>7. pure' \in SUBSET Local /\ shown' \in SUBSET Local
      BY <1>3 DEF HearNext, TypeOK
    <3> QED
      BY <1>1, <2>1, <3>6, <3>7, TypeOfInbox DEF TypeOK, InboxType
  <2>4. CASE Doubt(Candidates(m))
    <3>1. \A s \in Messages : s \in Candidates(m) =>
            /\ [streams[s] EXCEPT !.ambiguous = TRUE] \in Stream
            /\ [streams[s] EXCEPT !.ambiguous = TRUE].parts = streams[s].parts
            /\ s \in Open
      <4> SUFFICES ASSUME NEW s \in Messages, s \in Candidates(m)
                   PROVE  /\ [streams[s] EXCEPT !.ambiguous = TRUE] \in Stream
                          /\ [streams[s] EXCEPT !.ambiguous = TRUE].parts = streams[s].parts
                          /\ s \in Open
        OBVIOUS
      <4>1. s \in Open /\ streams[s] \in Stream
        BY StreamOf DEF Candidates
      <4> QED
        BY <4>1 DEF Stream
    <3>2. Nil \notin Stream
      BY NilAssumption
    <3>3. streams' = [s \in Messages |-> IF s \in Candidates(m)
                       THEN [streams[s] EXCEPT !.ambiguous = TRUE] ELSE streams[s]]
          /\ showing' = Candidates(m)
      BY <2>4 DEF Doubt
    <3>4. /\ \A s \in Messages : streams'[s] # Nil => s \in Open
          /\ \A s \in Open : streams'[s].parts = streams[s].parts /\ s \in Messages
          /\ streams' \in [Messages -> Stream \cup {Nil}]
      BY <3>1, <3>2, <3>3, <1>0 DEF Open
    <3>5. \A s \in Candidates(m) : s \in Messages /\ streams'[s] # Nil
      BY <3>1, <3>2, <3>3 DEF Candidates, Open
    <3>6. StreamsType'
      <4>1. \A s \in Open : /\ s \in Local /\ sent'[s] > 0 /\ streams[s].parts # << >>
                            /\ streams[s].parts[1] = <<s, 1>>
        <5> SUFFICES ASSUME NEW s \in Open
                     PROVE  /\ s \in Local /\ sent'[s] > 0 /\ streams[s].parts # << >>
                            /\ streams[s].parts[1] = <<s, 1>>
          OBVIOUS
        <5>1. /\ s \in Local /\ sent[s] > 0 /\ s \in Messages
              /\ streams[s].parts # << >> /\ streams[s].parts[1] = <<s, 1>>
          BY StreamOf
        <5>2. sent'[s] >= sent[s] /\ sent'[s] \in Nat /\ sent[s] \in Nat
          BY <5>1, <2>1, FrameOf
        <5> QED
          BY <5>1, <5>2
      <4> QED
        BY <3>3, <3>4, <3>5, <4>1
    <3>7. pure' \in SUBSET Local /\ shown' \in SUBSET Local
      BY <1>3 DEF HearNext, TypeOK
    <3> QED
      BY <1>1, <2>1, <3>6, <3>7, TypeOfInbox DEF TypeOK, InboxType
  <2> QED
    BY <1>3, <2>2, <2>3, <2>4 DEF HearNext
<1>4. ASSUME NEW m \in Messages, OverhearStart(m) \/ Miss(m) \/ Ignore(m) PROVE TypeOK'
  <2>1. SentType' /\ sent'[m] = sent[m] + 1 /\ \A s \in Messages : sent'[s] >= sent[s]
    BY <1>4, <1>g DEF OverhearStart, Miss, Ignore
  <2>2. StreamsType'
    BY <1>4, <2>1, <1>k DEF OverhearStart, Miss, Ignore
  <2>3. pure' \in SUBSET Local /\ shown' \in SUBSET Local
    BY <1>4 DEF OverhearStart, Miss, Ignore, TypeOK
  <2> QED
    BY <1>1, <2>1, <2>2, <2>3, TypeOfInbox DEF TypeOK, InboxType
<1>5. ASSUME NEW m \in Messages, HearDirected(m) PROVE TypeOK'
  <2>1. StreamsType' /\ SentType' /\ pure' \in SUBSET Local /\ shown' \in SUBSET Local
    BY <1>5, <1>0 DEF HearDirected, TypeOK
  <2> QED
    BY <1>1, <2>1, TypeOfInbox DEF TypeOK, InboxType
<1>6. ASSUME NEW s \in Messages, showing = {}, Expire(s) PROVE TypeOK'
  <2>1. StreamsType' /\ SentType' /\ pure' \in SUBSET Local /\ shown' \in SUBSET Local
    BY <1>6, <1>0 DEF Expire, TypeOK
  <2> QED
    BY <1>1, <2>1, TypeOfInbox DEF TypeOK, InboxType
<1>7. ASSUME NEW s \in Messages, ShowAgain(s) PROVE TypeOK'
  <2>1. StreamsType' /\ SentType' /\ pure' \in SUBSET Local /\ shown' \in SUBSET Local
    BY <1>7, <1>0 DEF ShowAgain, TypeOK
  <2> QED
    BY <1>1, <2>1, TypeOfInbox DEF TypeOK, InboxType
<1>8. Restart => TypeOK'
  <2> SUFFICES ASSUME Restart PROVE TypeOK'
    OBVIOUS
  <2>1. StreamsType' /\ SentType' /\ pure' \in SUBSET Local /\ shown' \in SUBSET Local
    BY <1>0 DEF Restart, TypeOK
  <2> QED
    BY <1>1, <2>1, TypeOfInbox DEF TypeOK, InboxType
<1> QED
  BY <1>2, <1>3, <1>4, <1>5, <1>6, <1>7, <1>8 DEF Next, Event

-----------------------------------------------------------------------------
(* One message for each complete item. *)

\* By the history alone: who has no stream and frames to come is a stray.
LEMMA TrackedKept == TypeOK' /\ Next => Tracked'
<1> SUFFICES ASSUME TypeOK', Next, NEW m \in Messages, OnAir(m)', m \notin strays'
             PROVE  streams'[m] # Nil
  BY DEF Tracked, Open
<1> QED
  BY DEF Next, Stray

\* Every step but a continuation keeps the frames of a stream, or begins one.
LEMMA StreamsOwnKept == TypeOK /\ Tracked /\ StreamsOwn /\ Next /\ TypeOK' => StreamsOwn'
<1> SUFFICES ASSUME TypeOK, Tracked, StreamsOwn, Next, TypeOK',
                    NEW s \in Open', Apart(s)'
             PROVE  OwnSoFar(s, streams[s].parts)'
  BY DEF StreamsOwn
<1>0. s \in Messages /\ Apart(s) /\ sent[s] \in Nat /\ sent'[s] \in Nat
  BY StraysStay DEF Open, TypeOK
<1>a. ASSUME s \in Open, streams'[s].parts = streams[s].parts, sent'[s] >= sent[s]
      PROVE  OwnSoFar(s, streams[s].parts)'
  <2>1. OwnSoFar(s, streams[s].parts)
    BY <1>a, <1>0 DEF StreamsOwn
  <2>2. streams[s].parts \in Seq(Frame)
    BY <1>a, StreamOf
  <2> DEFINE parts == streams[s].parts
  <2>3. \A i \in 1..Len(parts) : parts[i][2] \in Nat
    BY <2>2 DEF Frame
  <2>4. \A i \in 1..Len(parts) : parts[i][1] = s /\ parts[i][2] <= sent'[s]
    BY <2>1, <2>3, <1>0, <1>a DEF OwnSoFar
  <2>5. \A i, j \in 1..Len(parts) : i < j => parts[i][2] < parts[j][2]
    BY <2>1 DEF OwnSoFar
  <2>6. streams'[s].parts = parts
    BY <1>a
  <2> HIDE DEF parts
  <2> QED
    BY <2>4, <2>5, <2>6 DEF OwnSoFar
<1>g. ASSUME NEW m \in Messages, Goes(m) PROVE sent'[s] >= sent[s]
  BY <1>g, <1>0, FrameOf DEF Goes, TypeOK
<1>1. ASSUME NEW m \in Messages, HearStart(m) PROVE OwnSoFar(s, streams[s].parts)'
  <2>0. sent'[s] >= sent[s]
    BY <1>1, <1>g DEF HearStart
  <2>1. CASE UNCHANGED streams
    BY <2>0, <2>1, <1>a DEF Open
  <2>2. CASE Opened(m, << <<m, 1>> >>)
    <3>1. streams' = [streams EXCEPT ![m] = [parts |-> << <<m, 1>> >>, ambiguous |-> FALSE]]
      BY <2>2 DEF Opened
    <3>2. CASE s = m
      <4>1. streams'[s].parts = << <<m, 1>> >>
        BY <3>1, <3>2 DEF TypeOK
      <4>2. sent'[s] = 1
        BY <1>1, <3>2 DEF HearStart, Goes, TypeOK
      <4> QED
        BY <4>1, <4>2, <3>2 DEF OwnSoFar
    <3>3. CASE s # m
      <4>1. streams'[s] = streams[s] /\ s \in Open
        BY <3>1, <3>3, <1>0 DEF TypeOK, Open
      <4> QED
        BY <4>1, <2>0, <1>a
    <3> QED
      BY <3>2, <3>3
  <2> QED
    BY <1>1, <2>1, <2>2 DEF HearStart
<1>2. ASSUME NEW m \in Messages, NEW late \in BOOLEAN, HearNext(m, late)
      PROVE  OwnSoFar(s, streams[s].parts)'
  <2>0. sent'[s] >= sent[s] /\ OnAir(m) /\ sent' = [sent EXCEPT ![m] = @ + 1]
    BY <1>2, <1>g DEF HearNext, Goes, OnAir
  <2>1. CASE UNCHANGED streams
    BY <2>0, <2>1, <1>a DEF Open
  <2>2. ASSUME NEW t \in Candidates(m), Candidates(m) = {t}, Join(m, t, late), t # s
        PROVE  OwnSoFar(s, streams[s].parts)'
    <3>1. streams'[s] = streams[s] /\ s \in Open
      BY <2>2, <1>0 DEF Join, TypeOK, Open
    <3> QED
      BY <3>1, <2>0, <1>a
  <2>3. ASSUME s \in Candidates(m), Candidates(m) = {s}, Join(m, s, late)
        PROVE  OwnSoFar(s, streams[s].parts)'
    <3>1. s \in Open
      BY <2>3 DEF Candidates
    <3>2. m = s
      BY <2>0, <2>3, <3>1, <1>0, JoinsOwn
    <3> DEFINE old == streams[s].parts
               f == <<s, sent[s] + 1>>
    <3>3. old \in Seq(Frame) /\ f \in Frame /\ Len(old) \in Nat
      BY <3>1, <1>0, StreamOf, FrameOf
    <3>4. streams'[s].parts = Append(old, f)
      <4>1. streams'[s] = IF sent[m] + 1 = Length[m] THEN Nil
              ELSE [parts |-> Append(old, f), ambiguous |-> streams[s].ambiguous \/ late]
        BY <2>3, <3>2, <1>0 DEF Join, TypeOK
      <4>2. streams'[s] # Nil
        BY DEF Open
      <4> QED
        BY <4>1, <4>2
    <3>5. OwnSoFar(s, old)
      BY <3>1, <1>0 DEF StreamsOwn
    <3>6. sent'[s] = sent[s] + 1
      BY <2>0, <3>2, <1>0 DEF TypeOK
    <3>7. \A i \in 1..Len(old) : old[i][2] \in Nat /\ old[i][2] < f[2]
      BY <3>3, <3>5, <1>0 DEF OwnSoFar, Frame
    <3>8. /\ Len(Append(old, f)) = Len(old) + 1 /\ Append(old, f)[Len(old) + 1] = f
          /\ \A i \in 1..Len(old) : Append(old, f)[i] = old[i]
      BY <3>3, OneMore
    <3> DEFINE new == Append(old, f)
    <3> HIDE DEF new
    <3>9. \A i \in 1..Len(new) : new[i][1] = s /\ new[i][2] <= sent'[s]
      <4> SUFFICES ASSUME NEW i \in 1..Len(new) PROVE new[i][1] = s /\ new[i][2] <= sent'[s]
        OBVIOUS
      <4>1. Len(new) = Len(old) + 1 /\ new[Len(old) + 1] = f
            /\ \A k \in 1..Len(old) : new[k] = old[k]
        BY <3>8 DEF new
      <4>2. i \in 1..Len(old) \/ i = Len(old) + 1
        BY <4>1, <3>3
      <4>3. f[1] = s /\ f[2] = sent[s] + 1
        OBVIOUS
      <4>4. CASE i \in 1..Len(old)
        <5>1. new[i] = old[i] /\ old[i][1] = s /\ old[i][2] \in Nat /\ old[i][2] < f[2]
          BY <4>1, <4>4, <3>5, <3>7 DEF OwnSoFar
        <5> QED
          BY <5>1, <4>3, <3>6, <1>0
      <4>5. CASE i = Len(old) + 1
        BY <4>1, <4>3, <4>5, <3>6, <1>0
      <4> QED
        BY <4>2, <4>4, <4>5
    <3>10. \A i, j \in 1..Len(new) : i < j => new[i][2] < new[j][2]
      <4>1. Len(new) = Len(old) + 1 /\ new[Len(old) + 1] = f
            /\ \A k \in 1..Len(old) : new[k] = old[k]
        BY <3>8 DEF new
      <4>2. \A i, j \in 1..Len(old) : i < j => new[i][2] < new[j][2]
        BY <4>1, <3>5 DEF OwnSoFar
      <4>3. \A i \in 1..Len(old) : new[i][2] < new[Len(old) + 1][2]
        BY <4>1, <3>7
      <4>4. \A i, j \in 1..(Len(old) + 1) : i < j => new[i][2] < new[j][2]
        BY <4>2, <4>3, <3>3, OrderExtends
      <4> QED
        BY <4>1, <4>4
    <3> QED
      BY <3>4, <3>9, <3>10 DEF OwnSoFar, new
  <2>4. CASE Doubt(Candidates(m))
    <3>1. streams'[s] = IF s \in Candidates(m) THEN [streams[s] EXCEPT !.ambiguous = TRUE]
                        ELSE streams[s]
      BY <2>4, <1>0 DEF Doubt
    <3>2. s \in Open
      BY <3>1 DEF Open, Candidates
    <3>3. streams[s] \in Stream
      BY <3>2, StreamOf
    <3>4. streams'[s].parts = streams[s].parts
      BY <3>1, <3>3 DEF Stream
    <3> QED
      BY <3>2, <3>4, <2>0, <1>a
  <2> QED
    BY <1>2, <2>1, <2>2, <2>3, <2>4 DEF HearNext
<1>3. ASSUME NEW m \in Messages, OverhearStart(m) \/ Miss(m) \/ Ignore(m)
      PROVE  OwnSoFar(s, streams[s].parts)'
  <2>1. streams' = streams /\ sent'[s] >= sent[s]
    BY <1>3, <1>g DEF OverhearStart, Miss, Ignore
  <2> QED
    BY <2>1, <1>a DEF Open
<1>4. ASSUME NEW m \in Messages, HearDirected(m) \/ ShowAgain(m)
      PROVE  OwnSoFar(s, streams[s].parts)'
  <2>1. streams' = streams /\ sent' = sent
    BY <1>4 DEF HearDirected, ShowAgain
  <2> QED
    BY <2>1, <1>a, <1>0 DEF Open
<1>5. ASSUME NEW t \in Messages, Expire(t) PROVE OwnSoFar(s, streams[s].parts)'
  <2>1. streams'[s] = streams[s] /\ s \in Open /\ sent' = sent
    BY <1>5, <1>0 DEF Expire, TypeOK, Open
  <2> QED
    BY <2>1, <1>a, <1>0
<1>6. ~Restart
  BY <1>0 DEF Restart, Open
<1> QED
  BY <1>1, <1>2, <1>3, <1>4, <1>5, <1>6 DEF Next, Event

\* Frames of one message in order, and then its last one.
LEMMA LastMakesOne ==
  ASSUME TypeOK, NEW s \in Open, OwnSoFar(s, streams[s].parts), sent[s] + 1 = Length[s]
  PROVE  OneMessage(Append(streams[s].parts, <<s, Length[s]>>))
<1> DEFINE old == streams[s].parts
           f == <<s, Length[s]>>
           new == Append(old, f)
<1>1. old \in Seq(Frame) /\ Len(old) \in Nat \ {0} /\ old[1] = <<s, 1>> /\ s \in Messages
  BY StreamOf
<1>2. f \in Frame /\ sent[s] \in Nat
  BY <1>1, FrameOf
<1>3. Len(new) = Len(old) + 1 /\ new[Len(old) + 1] = f /\ \A i \in 1..Len(old) : new[i] = old[i]
  BY <1>1, <1>2, OneMore
<1>4. \A i \in 1..Len(old) : old[i][2] \in Nat /\ old[i][1] = s /\ old[i][2] < f[2]
  <2>1. \A i \in 1..Len(old) : old[i] \in Frame
    BY <1>1
  <2> QED
    BY <2>1, <1>2 DEF OwnSoFar, Frame
<1>5. \A i, j \in 1..Len(old) : i < j => old[i][2] < old[j][2]
  BY DEF OwnSoFar
<1>6. new[1] = <<s, 1>> /\ f[1] = s /\ f[2] = Length[s]
  BY <1>1, <1>3
<1> HIDE DEF old, f, new
<1>7. \A i \in 1..Len(new) : new[i][1] = s
  BY <1>1, <1>3, <1>4, <1>6
<1>8. \A i, j \in 1..Len(new) : i < j => new[i][2] < new[j][2]
  <2>1. \A i, j \in 1..Len(old) : i < j => new[i][2] < new[j][2]
    BY <1>3, <1>5
  <2>2. \A i \in 1..Len(old) : new[i][2] < new[Len(old) + 1][2]
    BY <1>3, <1>4
  <2>3. \A i, j \in 1..(Len(old) + 1) : i < j => new[i][2] < new[j][2]
    BY <2>1, <2>2, <1>1, OrderExtends
  <2> QED
    BY <2>3, <1>3
<1>9. new[1][1] = s /\ new[1][2] = 1 /\ new[Len(new)][2] = Length[s]
  BY <1>1, <1>3, <1>6
<1>10. OneMessage(new)
  BY <1>7, <1>8, <1>9 DEF OneMessage
<1> QED
  BY <1>10 DEF new, f, old

LEMMA UnmixedKept == TypeOK /\ Tracked /\ StreamsOwn /\ Unmixed /\ Next => Unmixed'
<1> SUFFICES ASSUME TypeOK, Tracked, StreamsOwn, Unmixed, Next PROVE Unmixed'
  OBVIOUS
<1>0. strays \subseteq strays'
  BY DEF Next, Stray
<1>a. ASSUME NEW sender, NEW body, inbox' \in Previews(inbox, sender, body)
      PROVE  Unmixed'
  <2>1. \A r \in inbox' : r \in inbox \/ (r.body = body /\ r.complete = FALSE)
    BY <1>a, PreviewRows
  <2> QED
    BY <2>1, <1>0 DEF Unmixed
<1>b. ASSUME NEW sender, NEW body, inbox' \in Completions(inbox, sender, body),
             (\A n \in strays' : ~Near(n, body[1][1])) => OneMessage(body)
      PROVE  Unmixed'
  <2>1. \A r \in inbox' : r \in inbox \/ (r.body = body /\ r.complete = TRUE)
    BY <1>b, CompletionRows
  <2> QED
    BY <2>1, <1>0, <1>b DEF Unmixed
<1>c. inbox' = inbox => Unmixed'
  BY <1>0 DEF Unmixed
<1>1. ASSUME NEW m \in Messages, HearStart(m) PROVE Unmixed'
  <2>1. CASE inbox' \in Previews(inbox, From[m], << <<m, 1>> >>)
    BY <2>1, <1>a
  <2>2. CASE Length[m] = 1 /\ inbox' \in Completions(inbox, From[m], << <<m, 1>> >>)
    <3>1. OneMessage(<< <<m, 1>> >>)
      BY <2>2 DEF OneMessage
    <3> QED
      BY <2>2, <3>1, <1>b
  <2> QED
    BY <1>1, <2>1, <2>2 DEF HearStart
<1>2. ASSUME NEW m \in Messages, NEW late \in BOOLEAN, HearNext(m, late) PROVE Unmixed'
  <2>1. ASSUME NEW s \in Candidates(m), Candidates(m) = {s}, Join(m, s, late) PROVE Unmixed'
    <3>0. s \in Open /\ s \in Messages /\ OnAir(m)
      BY <1>2 DEF Candidates, Open, HearNext, Goes, OnAir
    <3> DEFINE body == Append(streams[s].parts, <<m, sent[m] + 1>>)
    <3>1. CASE inbox' \in Previews(inbox, From[s], body)
      BY <3>1, <1>a
    <3>2. CASE sent[m] + 1 = Length[m] /\ inbox' \in Completions(inbox, From[s], body)
      <4>1. body[1][1] = s
        <5>1. streams[s].parts \in Seq(Frame) /\ 1 \in 1..Len(streams[s].parts)
              /\ streams[s].parts[1] = <<s, 1>>
          BY <3>0, StreamOf
        <5>2. <<m, sent[m] + 1>> \in Frame
          BY FrameOf
        <5> QED
          BY <5>1, <5>2, OneMore
      <4>2. ASSUME \A n \in strays' : ~Near(n, body[1][1]) PROVE OneMessage(body)
        <5>1. Apart(s)
          BY <4>1, <4>2, <1>0 DEF Apart
        <5>2. m = s
          BY <5>1, <2>1, <3>0, JoinsOwn
        <5>3. OwnSoFar(s, streams[s].parts)
          BY <5>1, <3>0 DEF StreamsOwn
        <5> QED
          BY <5>2, <5>3, <3>2, <3>0, LastMakesOne
      <4> QED
        BY <3>2, <4>2, <1>b
    <3> QED
      BY <2>1, <3>1, <3>2 DEF Join
  <2> QED
    BY <1>2, <2>1, <1>c DEF HearNext, Doubt
<1>3. ASSUME NEW m \in Messages, HearDirected(m) PROVE Unmixed'
  BY <1>3, <1>b, WholeIsOne DEF HearDirected
<1>4. ASSUME NEW s \in Messages, ShowAgain(s) PROVE Unmixed'
  BY <1>4, <1>a DEF ShowAgain
<1>5. ASSUME NEW m \in Messages, OverhearStart(m) \/ Miss(m) \/ Ignore(m) \/ Expire(m)
      PROVE  Unmixed'
  BY <1>5, <1>c DEF OverhearStart, Miss, Ignore, Expire
<1>6. Restart => Unmixed'
  BY <1>c DEF Restart
<1> QED
  BY <1>1, <1>2, <1>3, <1>4, <1>5, <1>6 DEF Next, Event

-----------------------------------------------------------------------------
(* What is heard whole arrives whole. *)

LEMMA OthersSymmetric ==
  ASSUME NEW m \in Messages, NEW n \in Messages, m # n
  PROVE  /\ m \in Others(n) <=> n \in Others(m)
         /\ m \in Others(n) <=> Near(m, n)
  BY NearSymmetric DEF Others

\* The frames of a pure message find its own stream and no other.
LEMMA OwnCandidate ==
  ASSUME TypeOK, PureSoFar, NEW m \in pure, OnAir(m)
  PROVE  m \in Messages /\ m \in Open /\ Candidates(m) = {m}
<1>1. m \in Messages /\ m \in Open
  <2>1. m \in Messages /\ sent[m] \in Nat
    BY ActivityAssumption DEF TypeOK
  <2>2. streams[m] = [parts |-> [i \in 1..sent[m] |-> <<m, i>>], ambiguous |-> FALSE]
    BY DEF PureSoFar
  <2>3. [i \in 1..sent[m] |-> <<m, i>>] \in [1..sent[m] -> Frame]
    BY <2>1 DEF Frame
  <2>4. [i \in 1..sent[m] |-> <<m, i>>] \in Seq(Frame)
    BY <2>1, <2>3
  <2>5. streams[m] \in Stream
    BY <2>2, <2>4 DEF Stream
  <2> QED
    BY <2>1, <2>5, NilAssumption DEF Open
<1>2. m \in Candidates(m)
  BY <1>1, NearSymmetric DEF Candidates, Matches
<1>3. \A s \in Candidates(m) : s = m
  BY <1>1 DEF PureSoFar, Candidates, Matches, Others, Open
<1> QED
  BY <1>1, <1>2, <1>3

\* A whole prefix and the next frame are the next whole prefix.
LEMMA PrefixGrows ==
  ASSUME NEW m \in Messages, NEW n \in Nat
  PROVE  Append([i \in 1..n |-> <<m, i>>], <<m, n + 1>>) = [i \in 1..(n + 1) |-> <<m, i>>]
<1> DEFINE old == [i \in 1..n |-> <<m, i>>]
           f == <<m, n + 1>>
           new == [i \in 1..(n + 1) |-> <<m, i>>]
<1>1. old \in [1..n -> Frame] /\ f \in Frame /\ new \in [1..(n + 1) -> Frame]
  BY DEF Frame
<1>2. old \in Seq(Frame) /\ Len(old) = n /\ new \in Seq(Frame) /\ Len(new) = n + 1
  BY <1>1
<1>3. \A i \in 1..n : old[i] = <<m, i>>
  OBVIOUS
<1>4. \A i \in 1..(n + 1) : new[i] = <<m, i>>
  OBVIOUS
<1> HIDE DEF old, new
<1>5. /\ Append(old, f) \in Seq(Frame) /\ Len(Append(old, f)) = n + 1
      /\ \A i \in 1..n : Append(old, f)[i] = old[i]
      /\ Append(old, f)[n + 1] = f
  BY <1>1, <1>2, OneMore
<1>6. \A i \in 1..(n + 1) : Append(old, f)[i] = new[i]
  <2> SUFFICES ASSUME NEW i \in 1..(n + 1) PROVE Append(old, f)[i] = new[i]
    OBVIOUS
  <2>1. i \in 1..n \/ i = n + 1
    OBVIOUS
  <2> QED
    BY <2>1, <1>3, <1>4, <1>5
<1>7. Append(old, f) = new
  BY <1>2, <1>5, <1>6
<1> QED
  BY <1>7 DEF old, new

\* The step that takes the next frame of a pure message, in time.
LEMMA PureJoins ==
  ASSUME TypeOK, PureSoFar, NEW m \in pure, NEW late \in BOOLEAN, HearNext(m, late),
         m \in pure'
  PROVE  /\ m \in Messages /\ late = FALSE /\ OnAir(m) /\ sent[m] \in Nat
         /\ sent'[m] = sent[m] + 1
         /\ \A s \in Messages : s # m => streams'[s] = streams[s]
         /\ sent[m] + 1 # Length[m] =>
              streams'[m] = [parts |-> [i \in 1..(sent[m] + 1) |-> <<m, i>>],
                             ambiguous |-> FALSE]
         /\ sent[m] + 1 = Length[m] => inbox' \in Completions(inbox, From[m], Whole(m))
<1>1. m \in Messages /\ late = FALSE
  BY ActivityAssumption DEF HearNext, TypeOK
<1>2. sent[m] \in Nat /\ OnAir(m) /\ sent'[m] = sent[m] + 1
  BY <1>1 DEF HearNext, Goes, OnAir, TypeOK
<1>3. Candidates(m) = {m} /\ m \in Open
  BY <1>2, OwnCandidate
<1>4. Join(m, m, late)
  BY <1>3 DEF HearNext
<1> DEFINE parts == Append(streams[m].parts, <<m, sent[m] + 1>>)
<1>5. streams[m] = [parts |-> [i \in 1..sent[m] |-> <<m, i>>], ambiguous |-> FALSE]
  BY <1>2 DEF PureSoFar
<1>6. parts = [i \in 1..(sent[m] + 1) |-> <<m, i>>] /\ streams[m].ambiguous = FALSE
  BY <1>1, <1>2, <1>5, PrefixGrows
<1>7. \A s \in Messages : s # m => streams'[s] = streams[s]
  BY <1>4 DEF Join, TypeOK
<1>8. sent[m] + 1 # Length[m] =>
        streams'[m] = [parts |-> parts, ambiguous |-> FALSE]
  BY <1>1, <1>4, <1>6 DEF Join, TypeOK
<1>9. sent[m] + 1 = Length[m] => inbox' \in Completions(inbox, From[m], parts)
  BY <1>1, <1>4, <1>6 DEF Join
<1>10. sent[m] + 1 = Length[m] => parts = Whole(m)
  BY <1>6 DEF Whole
<1> HIDE DEF parts
<1> QED
  BY <1>1, <1>2, <1>6, <1>7, <1>8, <1>9, <1>10

\* A pure message has begun.
LEMMA PureBegun ==
  ASSUME TypeOK, PureSoFar, Next, TypeOK', NEW m \in pure'
  PROVE  m \in Messages /\ sent'[m] > 0 /\ sent'[m] \in Nat
<1>1. m \in Messages /\ sent[m] \in Nat /\ sent'[m] \in Nat
  <2>1. m \in Messages
    BY ActivityAssumption DEF TypeOK
  <2> QED
    BY <2>1 DEF TypeOK
<1>2. \A n \in Messages : Goes(n) => sent'[m] = IF n = m THEN sent[m] + 1 ELSE sent[m]
  BY <1>1 DEF Goes, TypeOK
<1>3. m \in pure \/ \E n \in Messages : n = m /\ Goes(n)
  BY DEF Next, Event, HearStart, OverhearStart, Miss, Ignore, HearNext, HearDirected, Expire,
         ShowAgain, Restart
<1>4. sent' = sent \/ \E n \in Messages : Goes(n)
  BY DEF Next, Event, HearStart, OverhearStart, Miss, Ignore, HearNext, HearDirected, Expire,
         ShowAgain, Restart
<1>5. m \in pure => sent[m] > 0
  BY DEF PureSoFar
<1>6. CASE m \in pure
  BY <1>1, <1>2, <1>4, <1>5, <1>6
<1>7. CASE \E n \in Messages : n = m /\ Goes(n)
  BY <1>1, <1>2, <1>7
<1> QED
  BY <1>1, <1>3, <1>6, <1>7

LEMMA PureKept == TypeOK /\ PureSoFar /\ Next /\ TypeOK' => PureSoFar'
<1> SUFFICES ASSUME TypeOK, PureSoFar, Next, TypeOK', NEW m \in pure', OnAir(m)'
             PROVE  /\ streams'[m] = [parts |-> [i \in 1..sent'[m] |-> <<m, i>>],
                                      ambiguous |-> FALSE]
                    /\ Open' \cap Others(m) = {}
  BY PureBegun DEF PureSoFar, Others, Near
<1>0. m \in Messages /\ sent[m] \in Nat
  BY ActivityAssumption DEF TypeOK
<1>a. ASSUME m \in pure, OnAir(m), sent'[m] = sent[m], streams'[m] = streams[m],
             \A s \in Messages : s \in Others(m) /\ streams[s] = Nil => streams'[s] = Nil
      PROVE  /\ streams'[m] = [parts |-> [i \in 1..sent'[m] |-> <<m, i>>],
                               ambiguous |-> FALSE]
             /\ Open' \cap Others(m) = {}
  BY <1>a DEF PureSoFar, Open
<1>1. ASSUME NEW n \in Messages, HearStart(n)
      PROVE  /\ streams'[m] = [parts |-> [i \in 1..sent'[m] |-> <<m, i>>],
                               ambiguous |-> FALSE]
             /\ Open' \cap Others(m) = {}
  <2>1. CASE n = m
    <3>1. sent'[m] = 1 /\ Length[m] # 1
      BY <1>1, <2>1 DEF HearStart, Goes, OnAir, TypeOK
    <3>2. Opened(m, << <<m, 1>> >>)
      BY <1>1, <2>1, <3>1 DEF HearStart
    <3>3. streams' = [streams EXCEPT ![m] = [parts |-> << <<m, 1>> >>, ambiguous |-> FALSE]]
      BY <3>2 DEF Opened
    <3>4. << <<m, 1>> >> = [i \in 1..1 |-> <<m, i>>]
      OBVIOUS
    <3>5. Open \cap Others(m) = {}
      <4>1. m \notin pure => Open \cap Others(m) = {}
        BY <1>1, <2>1 DEF HearStart, Others
      <4>2. m \notin pure
        <5>1. sent[m] = 0
          BY <1>1, <2>1 DEF HearStart
        <5>2. m \in pure => sent[m] > 0
          BY DEF PureSoFar
        <5> QED
          BY <5>1, <5>2
      <4> QED
        BY <4>1, <4>2
    <3>6. Open' \subseteq Open \cup {m} /\ m \notin Others(m)
      BY <3>3 DEF Open, Others, TypeOK
    <3> QED
      BY <3>1, <3>3, <3>4, <3>5, <3>6, <1>0 DEF TypeOK
  <2>2. CASE n # m
    <3>1. m \in pure /\ m \notin Others(n)
      BY <1>1, <2>2 DEF HearStart
    <3>2. n \notin Others(m)
      BY <3>1, <2>2, <1>0, OthersSymmetric
    <3>3. sent'[m] = sent[m] /\ \A s \in Messages \ {n} : streams'[s] = streams[s]
      BY <1>1, <2>2, <1>0 DEF HearStart, Goes, Opened, TypeOK
    <3> QED
      BY <3>1, <3>2, <3>3, <2>2, <1>0, <1>a DEF OnAir
  <2> QED
    BY <2>1, <2>2
<1>2. ASSUME NEW n \in Messages, NEW late \in BOOLEAN, HearNext(n, late)
      PROVE  /\ streams'[m] = [parts |-> [i \in 1..sent'[m] |-> <<m, i>>],
                               ambiguous |-> FALSE]
             /\ Open' \cap Others(m) = {}
  <2>0. m \in pure
    BY <1>2 DEF HearNext
  <2>1. CASE n = m
    <3>1. /\ OnAir(m) /\ sent'[m] = sent[m] + 1
          /\ \A s \in Messages : s # m => streams'[s] = streams[s]
          /\ sent[m] + 1 # Length[m] =>
               streams'[m] = [parts |-> [i \in 1..(sent[m] + 1) |-> <<m, i>>],
                              ambiguous |-> FALSE]
      BY <1>2, <2>0, <2>1, PureJoins
    <3>2. sent[m] + 1 # Length[m]
      BY <3>1, <1>0, ActivityAssumption DEF OnAir
    <3>3. Open \cap Others(m) = {}
      BY <2>0, <3>1 DEF PureSoFar
    <3>4. Open' \cap Others(m) = {}
      BY <3>1, <3>3 DEF Open, Others
    <3> QED
      BY <3>1, <3>2, <3>4
  <2>2. CASE n # m
    <3>1. m \notin Others(n) /\ n \notin Others(m) /\ m \notin Candidates(n)
      BY <1>2, <2>2, <1>0, OthersSymmetric DEF HearNext, Candidates, Matches
    <3>2. sent'[m] = sent[m]
      BY <1>2, <2>2, <1>0 DEF HearNext, Goes, TypeOK
    <3>3. streams'[m] = streams[m] /\ \A s \in Messages : streams[s] = Nil => streams'[s] = Nil
      <4>1. CASE UNCHANGED streams
        BY <4>1
      <4>2. ASSUME NEW s \in Candidates(n), Join(n, s, late)
            PROVE  streams'[m] = streams[m]
                   /\ \A t \in Messages : streams[t] = Nil => streams'[t] = Nil
        BY <4>2, <3>1, <1>0 DEF Join, Candidates, Open, TypeOK
      <4>3. CASE Doubt(Candidates(n))
        BY <4>3, <3>1, <1>0 DEF Doubt, Candidates, Open
      <4> QED
        BY <1>2, <4>1, <4>2, <4>3 DEF HearNext
    <3> QED
      BY <2>0, <3>2, <3>3, <1>a, <1>0 DEF OnAir
  <2> QED
    BY <2>1, <2>2
<1>3. ASSUME NEW n \in Messages, OverhearStart(n) \/ Miss(n) \/ Ignore(n)
      PROVE  /\ streams'[m] = [parts |-> [i \in 1..sent'[m] |-> <<m, i>>],
                               ambiguous |-> FALSE]
             /\ Open' \cap Others(m) = {}
  <2>1. m \in pure /\ n # m
    BY <1>3 DEF OverhearStart, Miss, Ignore, ForUs, TypeOK
  <2>2. streams' = streams /\ sent'[m] = sent[m]
    BY <1>3, <2>1, <1>0 DEF OverhearStart, Miss, Ignore, Goes, TypeOK
  <2> QED
    BY <2>1, <2>2, <1>a DEF OnAir
<1>4. ASSUME NEW n \in Messages, HearDirected(n) \/ ShowAgain(n)
      PROVE  /\ streams'[m] = [parts |-> [i \in 1..sent'[m] |-> <<m, i>>],
                               ambiguous |-> FALSE]
             /\ Open' \cap Others(m) = {}
  <2>1. m \in pure /\ streams' = streams /\ sent' = sent
    BY <1>4 DEF HearDirected, ShowAgain
  <2> QED
    BY <2>1, <1>a DEF OnAir
<1>5. ASSUME NEW s \in Messages, Expire(s)
      PROVE  /\ streams'[m] = [parts |-> [i \in 1..sent'[m] |-> <<m, i>>],
                               ambiguous |-> FALSE]
             /\ Open' \cap Others(m) = {}
  <2>1. m \in pure /\ m # s /\ sent' = sent
    BY <1>5 DEF Expire
  <2>2. streams'[m] = streams[m] /\ \A t \in Messages : streams[t] = Nil => streams'[t] = Nil
    BY <1>5, <2>1, <1>0 DEF Expire, TypeOK
  <2> QED
    BY <2>1, <2>2, <1>a DEF OnAir
<1>6. ~Restart
  BY DEF Restart
<1> QED
  BY <1>1, <1>2, <1>3, <1>4, <1>5, <1>6 DEF Next, Event

LEMMA WholeStep ==
  ASSUME TypeOK, PureSoFar, Next, NEW m \in pure',
         sent[m] < Length[m], sent'[m] = Length[m]
  PROVE  \E r \in inbox' : r.complete /\ r.body = Whole(m)
<1>0. /\ m \in Messages /\ sent[m] \in Nat /\ Length[m] \in Nat \ {0}
      /\ sent'[m] # sent[m]
  <2>1. pure' \subseteq Local
    BY DEF TypeOK, Next, Event, HearStart, OverhearStart, Miss, Ignore, HearNext, HearDirected,
           Expire, ShowAgain, Restart, ForUs
  <2> QED
    <3>1. m \in Messages
      BY <2>1, ActivityAssumption
    <3>2. sent[m] \in Nat /\ Length[m] \in Nat \ {0}
      BY <3>1, FrameOf
    <3> QED
      BY <3>1, <3>2
<1>1. ASSUME NEW n \in Messages, Goes(n) PROVE n = m
  BY <1>1, <1>0 DEF Goes, TypeOK
<1>2. ASSUME NEW n \in Messages, HearStart(n)
      PROVE  \E r \in inbox' : r.complete /\ r.body = Whole(m)
  <2>1. n = m /\ sent[m] = 0
    BY <1>1, <1>2 DEF HearStart
  <2>2. Length[m] = 1
    BY <1>2, <2>1, <1>0 DEF HearStart, Goes, TypeOK
  <2>3. inbox' \in Completions(inbox, From[m], << <<m, 1>> >>)
    BY <1>2, <2>1, <2>2 DEF HearStart
  <2>4. << <<m, 1>> >> = Whole(m)
    BY <2>2 DEF Whole
  <2>5. inbox' \in Completions(inbox, From[m], Whole(m))
    BY <2>3, <2>4
  <2> QED
    BY <2>5, CompletedRow
<1>3. ASSUME NEW n \in Messages, NEW late \in BOOLEAN, HearNext(n, late)
      PROVE  \E r \in inbox' : r.complete /\ r.body = Whole(m)
  <2>1. n = m /\ m \in pure
    BY <1>1, <1>3 DEF HearNext
  <2>2. sent'[m] = sent[m] + 1
        /\ (sent[m] + 1 = Length[m] => inbox' \in Completions(inbox, From[m], Whole(m)))
    BY <1>3, <2>1, PureJoins
  <2>3. inbox' \in Completions(inbox, From[m], Whole(m))
    BY <2>2, <1>0
  <2> QED
    BY <2>3, CompletedRow
<1>4. ASSUME NEW n \in Messages, OverhearStart(n) \/ Miss(n) \/ Ignore(n) PROVE FALSE
  <2>1. n = m
    BY <1>1, <1>4 DEF OverhearStart, Miss, Ignore
  <2> QED
    BY <1>4, <2>1 DEF OverhearStart, Miss, Ignore, ForUs, TypeOK
<1>5. (\E n \in Messages : HearDirected(n) \/ ShowAgain(n) \/ Expire(n)) \/ Restart => FALSE
  BY <1>0 DEF HearDirected, ShowAgain, Expire, Restart
<1> QED
  BY <1>2, <1>3, <1>4, <1>5 DEF Next, Event

-----------------------------------------------------------------------------
(* Theorems. *)

LEMMA InitInv == Init => IInv
<1> SUFFICES ASSUME Init PROVE IInv
  OBVIOUS
<1>1. TypeOK
  BY ActivityAssumption DEF Init, TypeOK
<1>2. Tracked /\ StreamsOwn /\ PureSoFar /\ Unmixed
  BY DEF Init, Tracked, StreamsOwn, PureSoFar, Unmixed, OnAir, Open
<1> QED
  BY <1>1, <1>2 DEF IInv

LEMMA StepInv == IInv /\ [Next]_vars => IInv'
<1> SUFFICES ASSUME IInv, [Next]_vars PROVE IInv'
  OBVIOUS
<1>1. CASE Next
  <2>1. TypeOK'
    BY <1>1, TypePreserved DEF IInv
  <2> QED
    BY <1>1, <2>1, TrackedKept, StreamsOwnKept, UnmixedKept, PureKept DEF IInv
<1>2. CASE UNCHANGED vars
  <2>1. TypeOK'
    BY <1>2 DEF IInv, TypeOK, vars
  <2>2. Tracked' /\ PureSoFar' /\ Unmixed'
    BY <1>2 DEF IInv, Tracked, PureSoFar, Unmixed, OnAir, Open, Others, OneMessage, Near, vars
  <2>3. StreamsOwn'
    BY <1>2 DEF IInv, StreamsOwn, Open, Apart, OwnSoFar, Near, vars
  <2> QED
    BY <2>1, <2>2, <2>3 DEF IInv
<1> QED
  BY <1>1, <1>2

\* Whatever the activity stream brings, the tables keep their types, and a
\* stream begins with the first frame of a message to this station.
THEOREM ActivityTypeCorrect == Spec => []TypeOK
<1>1. IInv => TypeOK
  BY DEF IInv
<1> QED
  BY <1>1, InitInv, StepInv, PTL DEF Spec

\* A complete item holds one message and no word of another one, for any number
\* of transmissions, lost frames, expiries and restarts, as long as nobody whose
\* start the daemon did not take is near (ActivityAssembler.feed).
THEOREM MessagesNeverMix == Spec => []Unmixed
<1>1. IInv => Unmixed
  BY DEF IInv
<1> QED
  BY <1>1, InitInv, StepInv, PTL DEF Spec

\* A message heard whole with nothing near it is complete in the inbox with its
\* last frame, whatever happens on the rest of the passband.
THEOREM HeardWholeArrives == Spec => WholeArrives
<1>1. IInv /\ [Next]_vars =>
        [\A m \in pure' : sent[m] < Length[m] /\ sent'[m] = Length[m]
           => \E r \in inbox' : r.complete /\ r.body = Whole(m)]_vars
  BY WholeStep DEF IInv
<1> QED
  BY <1>1, InitInv, StepInv, PTL DEF Spec, WholeArrives

=============================================================================
