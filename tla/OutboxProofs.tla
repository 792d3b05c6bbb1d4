----------------------------- MODULE OutboxProofs -----------------------------
(***************************************************************************)
(* Theorems about Outbox, for any events, logs of any length and any       *)
(* number of crashes, lost acknowledgements and expiries of the stream's   *)
(* duplicate window: nothing skipped, nothing invented, copies bounded,    *)
(* and consumers see the commit log in its order.                          *)
(***************************************************************************)
EXTENDS Outbox, FiniteSetTheorems, SequencesExt, SequenceTheorems, WellFoundedInduction, TLAPS

-----------------------------------------------------------------------------
(* Numbers *)

\* Every set of naturals that is not empty has a least element.
LEMMA LeastNatural ==
    ASSUME NEW T, T \subseteq Nat, T # {}
    PROVE  \E x \in T : \A y \in T : x <= y
<1> DEFINE R == {ss \in Nat \X Nat : ss[1] < ss[2]}
<1>1. IsWellFoundedOn(R, Nat)  BY NatLessThanWellFounded, Zenon DEF OpToRel
<1>2. \A x, y \in T : y < x => <<y, x>> \in R
  OBVIOUS
<1> HIDE DEF R
<1>3. PICK x \in T : \A y \in T : ~ (<<y, x>> \in R)
  BY <1>1, WFMin
<1>4. x \in Nat /\ \A y \in T : y \in Nat /\ ~(y < x)
  <2> SUFFICES ASSUME NEW y \in T  PROVE ~(y < x)
    OBVIOUS
  <2>1. ~ (<<y, x>> \in R)  BY <1>3
  <2> QED  BY <1>2, <2>1
<1> QED  BY <1>4

-----------------------------------------------------------------------------
(* The inductive invariant *)

\* The seq of a record is its position, and the log holds what was answered.
LogInv ==
    /\ \A i \in 1..Len(log) : log[i].seq = i /\ answer[log[i].event] = "committed"
    /\ \A i, j \in 1..Len(log) : log[i].event = log[j].event => i = j
    /\ pc # "down" => committed_seq = Len(log)

\* The drain works on the end of the log, from the record after the last one
\* published; while a record is marked it is still the first to do.
DrainInv ==
    /\ watermark <= Len(log) /\ published <= Len(log)
    /\ pc \in {"publish", "ack"} => todo = (published + 1)..Len(log)
    /\ pc = "mark" => todo = published..Len(log)

\* Messages and recognised ids are records of the log; what the drain has passed
\* or waits to be acknowledged is in the stream.
StreamInv ==
    /\ \A i \in 1..Len(log) :
           i <= watermark \/ i <= published \/ (pc = "ack" /\ i = published + 1)
               => log[i].event \in Delivered
    /\ \A k \in 1..Len(stream) :
           stream[k].id \in 1..Len(log) /\ stream[k].event = log[stream[k].id].event
    /\ \A id \in window : id \in 1..Len(log) /\ log[id].event \in Delivered

\* The stream has a copy of a record for every expiry, and one more only while it
\* recognises the id.
CopiesInv ==
    \A i \in 1..Len(log) :
        Cardinality(Copies(stream, log[i].event)) <= expiries + (IF i \in window THEN 1 ELSE 0)

\* What the stream holds is a prefix of the log, and the events stand there for
\* the first time in the order of the log.
FeedInv ==
    /\ Cardinality(Firsts) <= Len(log)
    /\ Delivered = {log[n].event : n \in 1..Cardinality(Firsts)}
    /\ \A i \in Firsts :
           Rank(i) \in 1..Cardinality(Firsts) /\ stream[i].event = log[Rank(i)].event

OutboxInv == TypeOK /\ LogInv /\ DrainInv /\ StreamInv /\ CopiesInv /\ FeedInv

-----------------------------------------------------------------------------
(* What the operators of the model compute *)

\* A start finds the counter at the length of the log.
LEMMA HighWaterIsLength ==
    ASSUME TypeOK, LogInv
    PROVE  HighWater = Len(log)
<1>1. Len(log) \in Nat  BY DEF TypeOK
<1>2. \A i \in 1..Len(log) : log[i].seq = i  BY DEF LogInv
<1> DEFINE S == {0} \cup {log[i].seq : i \in 1..Len(log)}
<1>3. S = 0..Len(log)
  <2>1. \A n \in S : n \in 0..Len(log)  BY <1>1, <1>2
  <2>2. \A n \in 0..Len(log) : n \in S
    <3> SUFFICES ASSUME NEW n \in 0..Len(log), n # 0  PROVE n \in S
      OBVIOUS
    <3>1. n \in 1..Len(log)  BY <1>1
    <3> QED  BY <1>2, <3>1
  <2> QED  BY <2>1, <2>2
<1>4. \E n \in S : \A i \in 1..Len(log) : log[i].seq <= n
  <2>1. Len(log) \in S  BY <1>1, <1>3
  <2> QED  BY <1>1, <1>2, <2>1
<1>5. HighWater = CHOOSE n \in S : \A i \in 1..Len(log) : log[i].seq <= n
  BY DEF HighWater
<1> HIDE DEF S
<1>6. HighWater \in S /\ \A i \in 1..Len(log) : log[i].seq <= HighWater
  BY <1>4, <1>5
<1>7. HighWater \in 0..Len(log)  BY <1>3, <1>6
<1>8. CASE Len(log) = 0  BY <1>7, <1>8
<1>9. CASE Len(log) # 0
  <2>1. Len(log) \in 1..Len(log)  BY <1>1, <1>9
  <2> QED  BY <1>1, <1>2, <1>6, <1>7, <2>1
<1> QED  BY <1>8, <1>9

\* The tail past the last seq published.
LEMMA UnpublishedIsTail ==
    ASSUME TypeOK, LogInv
    PROVE  Unpublished = (published + 1)..Len(log)
<1>1. Len(log) \in Nat /\ published \in Nat  BY DEF TypeOK
<1>2. \A i \in 1..Len(log) : log[i].seq = i  BY DEF LogInv
<1>3. \A i \in Unpublished : i \in (published + 1)..Len(log)
  BY <1>1, <1>2 DEF Unpublished
<1>4. \A i \in (published + 1)..Len(log) : i \in Unpublished
  BY <1>1, <1>2 DEF Unpublished
<1> QED  BY <1>3, <1>4

\* The first of what is to do.
LEMMA DueIsFirst ==
    ASSUME NEW a \in Nat, NEW b \in Nat, todo = a..b, todo # {}
    PROVE  Due = a /\ a <= b
<1>1. a <= b  BY SMT
<1>2. a \in todo /\ \A j \in todo : a <= j  BY <1>1
<1>3. Due \in todo /\ \A j \in todo : Due <= j  BY <1>2 DEF Due
<1>4. Due \in Int  BY <1>3
<1> QED  BY <1>1, <1>2, <1>3, <1>4

\* The record a publish and its acknowledgement are about.
LEMMA DueInDrain ==
    ASSUME TypeOK, DrainInv, pc \in {"publish", "ack"}
    PROVE  Due = published + 1 /\ Due \in 1..Len(log) /\ published \in Nat /\ Len(log) \in Nat
<1>1. /\ todo = (published + 1)..Len(log) /\ todo # {}
      /\ published + 1 \in Nat /\ published \in Nat /\ Len(log) \in Nat
  BY DEF TypeOK, DrainInv
<1>2. Due = published + 1 /\ published + 1 <= Len(log)  BY <1>1, DueIsFirst
<1> QED  BY <1>1, <1>2

\* And the one that has just been acknowledged.
LEMMA DueInMark ==
    ASSUME TypeOK, DrainInv, pc = "mark"
    PROVE  /\ Due = published /\ published \in Nat /\ Len(log) \in Nat /\ published >= 1
           /\ published <= Len(log)
           /\ todo \ {Due} = (published + 1)..Len(log)
<1>1. /\ todo = published..Len(log) /\ todo # {} /\ todo \subseteq 1..Len(log)
      /\ published \in Nat /\ Len(log) \in Nat
  BY DEF TypeOK, DrainInv
<1>2. Due = published /\ published <= Len(log)  BY <1>1, DueIsFirst
<1>3. published \in 1..Len(log)  BY <1>1, <1>2
<1> QED  BY <1>1, <1>2, <1>3

\* A message is stored if its id is not recognised; the id is from then on.
LEMMA PublishShape ==
    ASSUME TypeOK, LogInv, DrainInv, Publish
    PROVE  LET n == published + 1
               m == [id |-> n, event |-> log[n].event]
           IN  /\ n \in 1..Len(log) /\ n \in Nat /\ m \in Message /\ log[n].event \notin ExtEvent
               /\ window' = window \cup {n}
               /\ \/ n \in window /\ stream' = stream
                  \/ n \notin window /\ stream' = Append(stream, m)
<1>1. Due = published + 1 /\ Due \in 1..Len(log) /\ published \in Nat /\ Len(log) \in Nat
  BY DueInDrain DEF Publish
<1>2. log[Due] \in Record /\ log[Due].seq = Due
  BY <1>1 DEF TypeOK, LogInv
<1>3. [id |-> Due, event |-> log[Due].event] \in Message
  BY <1>1, <1>2 DEF Record, Message
<1> QED  BY <1>1, <1>2, <1>3 DEF Publish, stable_event_id

-----------------------------------------------------------------------------
(* Types *)

LEMMA TypeInit == Init => TypeOK
BY OutboxAssumption DEF Init, TypeOK, Phase, Record, Message

\* Every step keeps the types.
LEMMA TypeStep ==
    ASSUME OutboxInv, [Next]_vars
    PROVE  TypeOK'
<1> USE DEF OutboxInv
<1>1. CASE Start
  <2>1. HighWater \in Nat  BY HighWaterIsLength DEF TypeOK
  <2>2. published' \in Nat /\ misreads' \in 0..MaxMisreads
    BY <1>1, OutboxAssumption DEF Start, TypeOK
  <2> QED  BY <1>1, <2>1, <2>2 DEF Start, TypeOK, Phase, broker
<1>2. CASE Stop
  BY <1>2 DEF Stop, TypeOK, Phase, marks, broker
<1>3. ASSUME NEW e \in Event, Commit(e)  PROVE TypeOK'
  <2>1. [seq |-> committed_seq + 1, event |-> e] \in Record  BY DEF TypeOK, Record
  <2>2. log' \in Seq(Record)  BY <1>3, <2>1, AppendProperties DEF Commit, TypeOK
  <2>3. answer' \in [Event -> {"none", "committed", "lost"}]  BY <1>3 DEF Commit, TypeOK
  <2>4. todo' = {}  BY <1>3 DEF Commit, TypeOK
  <2> QED  BY <1>3, <2>2, <2>3, <2>4 DEF Commit, TypeOK, Phase, marks, broker
<1>4. ASSUME NEW e \in Event, CommitFails(e)  PROVE TypeOK'
  <2>1. answer' \in [Event -> {"none", "committed", "lost"}]  BY <1>4 DEF CommitFails, TypeOK
  <2> QED  BY <1>4, <2>1 DEF CommitFails, TypeOK, Phase, marks, broker
<1>5. CASE OtherRequest
  BY <1>5 DEF OtherRequest, TypeOK, Phase, store, marks, broker
<1>6. CASE ReadTail
  <2>1. todo' \subseteq 1..Len(log)  BY <1>6 DEF ReadTail, Unpublished
  <2> QED  BY <1>6, <2>1 DEF ReadTail, TypeOK, Phase, store, marks, broker
<1>7. CASE Publish
  <2>1. stream' \in Seq(Message) /\ window' \subseteq Nat
    <3> DEFINE n == published + 1
               m == [id |-> n, event |-> log[n].event]
    <3>1. /\ n \in Nat /\ m \in Message /\ window' = window \cup {n}
          /\ stream' = stream \/ stream' = Append(stream, m)
      BY <1>7, PublishShape
    <3> HIDE DEF n, m
    <3>2. stream \in Seq(Message) /\ window \subseteq Nat  BY DEF TypeOK
    <3> QED  BY <3>1, <3>2, AppendProperties
  <2>2. todo # {}  BY <1>7 DEF Publish, TypeOK
  <2> QED  BY <1>7, <2>1, <2>2 DEF Publish, TypeOK, Phase, store, marks
<1>8. CASE GiveUp
  BY <1>8 DEF GiveUp, TypeOK, Phase, store, marks, broker
<1>9. CASE Acked
  <2>1. published' = published + 1 /\ published \in Nat
    <3>1. Due = published + 1 /\ Due \in 1..Len(log) /\ published \in Nat
      BY <1>9, DueInDrain DEF Acked
    <3>2. log[Due].seq = Due  BY <3>1 DEF LogInv
    <3> QED  BY <1>9, <3>1, <3>2 DEF Acked
  <2> QED  BY <1>9, <2>1 DEF Acked, TypeOK, Phase, store, marks, broker
<1>10. CASE NextDue /\ watermark' \in {watermark, published}
  BY <1>10 DEF NextDue, TypeOK, Phase, store, marks, broker
<1>11. CASE Expire
  BY <1>11, OutboxAssumption DEF Expire, TypeOK, Phase, store, relay, marks
<1>12. CASE UNCHANGED vars
  BY <1>12 DEF TypeOK, vars, store, relay, marks, broker
<1> QED
  BY <1>1, <1>2, <1>3, <1>4, <1>5, <1>6, <1>7, <1>8, <1>9, <1>10, <1>11, <1>12
     DEF Next, Request, MarkWritten, MarkFails

-----------------------------------------------------------------------------
(* The log and the drain *)

\* The log after a commit.
LEMMA CommitShape ==
    ASSUME TypeOK, LogInv, NEW e \in Event, Commit(e)
    PROVE  /\ Len(log) \in Nat /\ Len(log') = Len(log) + 1
           /\ 1..Len(log') = 1..Len(log) \cup {Len(log) + 1}
           /\ Len(log) + 1 \notin 1..Len(log)
           /\ \A i \in 1..Len(log) : log'[i] = log[i] /\ log[i].event # e
           /\ log'[Len(log) + 1] = [seq |-> Len(log) + 1, event |-> e]
<1>1. /\ log \in Seq(Record) /\ committed_seq = Len(log) /\ pc = "idle" /\ answer[e] = "none"
      /\ log' = Append(log, [seq |-> committed_seq + 1, event |-> e])
  BY DEF TypeOK, LogInv, Commit
<1>2. [seq |-> committed_seq + 1, event |-> e] \in Record  BY DEF TypeOK, Record
<1>3. /\ Len(log) \in Nat /\ Len(log') = Len(log) + 1
      /\ \A i \in 1..Len(log) : log'[i] = log[i]
      /\ log'[Len(log) + 1] = [seq |-> Len(log) + 1, event |-> e]
  BY <1>1, <1>2, AppendProperties
<1>4. \A i \in 1..Len(log) : log[i].event # e
  BY <1>1 DEF LogInv
<1>5. 1..Len(log') = 1..Len(log) \cup {Len(log) + 1} /\ Len(log) + 1 \notin 1..Len(log)
  BY <1>3
<1> QED  BY <1>3, <1>4, <1>5

\* The empty log is numbered and answered.
LEMMA LogInit == Init => LogInv
BY DEF Init, LogInv

\* Every step keeps the log numbered by position and as it was answered.
LEMMA LogStep ==
    ASSUME OutboxInv, [Next]_vars
    PROVE  LogInv'
<1> USE DEF OutboxInv
<1>1. CASE Start
  BY <1>1, HighWaterIsLength DEF Start, LogInv
<1>2. CASE Stop
  BY <1>2 DEF Stop, LogInv
<1>3. ASSUME NEW e \in Event, Commit(e)  PROVE LogInv'
  <2> DEFINE n == Len(log) + 1
  <2>1. /\ Len(log') = n /\ 1..Len(log') = 1..Len(log) \cup {n}
        /\ n \notin 1..Len(log)
        /\ \A i \in 1..Len(log) : log'[i] = log[i] /\ log[i].event # e
        /\ log'[n] = [seq |-> n, event |-> e]
    BY <1>3, CommitShape
  <2>2. answer' = [answer EXCEPT ![e] = "committed"] /\ committed_seq' = committed_seq + 1
        /\ committed_seq = Len(log) /\ answer \in [Event -> {"none", "committed", "lost"}]
    BY <1>3 DEF Commit, LogInv, TypeOK
  <2> HIDE DEF n
  <2>3. \A i \in 1..Len(log) : log[i] \in Record  BY DEF TypeOK
  <2>4. ASSUME NEW i \in 1..Len(log')
        PROVE  log'[i].seq = i /\ answer'[log'[i].event] = "committed"
    <3>1. CASE i = n  BY <2>1, <2>2, <3>1
    <3>2. CASE i \in 1..Len(log)
      BY <2>1, <2>2, <2>3, <3>2 DEF LogInv, Record
    <3> QED  BY <2>1, <3>1, <3>2
  <2>5. ASSUME NEW i \in 1..Len(log'), NEW j \in 1..Len(log'), log'[i].event = log'[j].event
        PROVE  i = j
    <3>1. CASE i = n /\ j = n  BY <3>1
    <3>2. CASE i = n /\ j \in 1..Len(log)  BY <2>1, <2>5, <3>2
    <3>3. CASE j = n /\ i \in 1..Len(log)  BY <2>1, <2>5, <3>3
    <3>4. CASE i \in 1..Len(log) /\ j \in 1..Len(log)
      <4>1. log[i].event = log[j].event  BY <2>1, <2>5, <3>4
      <4> QED  BY <3>4, <4>1 DEF LogInv
    <3> QED  BY <2>1, <3>1, <3>2, <3>3, <3>4
  <2>6. committed_seq' = Len(log')  BY <2>1, <2>2 DEF n
  <2> QED  BY <2>4, <2>5, <2>6 DEF LogInv
<1>4. ASSUME NEW e \in Event, CommitFails(e)  PROVE LogInv'
  <2>1. /\ log' = log /\ committed_seq' = committed_seq /\ pc = "idle" /\ answer[e] = "none"
        /\ answer' = [answer EXCEPT ![e] = "lost"]
        /\ answer \in [Event -> {"none", "committed", "lost"}]
    BY <1>4 DEF CommitFails, TypeOK
  <2>2. \A i \in 1..Len(log) : log[i].event \in Event /\ log[i].event # e
    <3>1. \A i \in 1..Len(log) : log[i] \in Record  BY DEF TypeOK
    <3> QED  BY <2>1, <3>1 DEF LogInv, Record
  <2> QED  BY <2>1, <2>2 DEF LogInv
<1>5. CASE OtherRequest
  BY <1>5 DEF OtherRequest, LogInv, store
<1>6. CASE ReadTail
  BY <1>6 DEF ReadTail, LogInv, store
<1>7. CASE Publish
  BY <1>7 DEF Publish, LogInv, store
<1>8. CASE GiveUp
  BY <1>8 DEF GiveUp, LogInv, store
<1>9. CASE Acked
  BY <1>9 DEF Acked, LogInv, store
<1>10. CASE NextDue /\ watermark' \in {watermark, published}
  BY <1>10 DEF NextDue, LogInv, store, TypeOK
<1>11. CASE Expire
  BY <1>11 DEF Expire, LogInv, store, relay
<1>12. CASE UNCHANGED vars
  BY <1>12 DEF LogInv, vars, store, relay
<1> QED
  BY <1>1, <1>2, <1>3, <1>4, <1>5, <1>6, <1>7, <1>8, <1>9, <1>10, <1>11, <1>12
     DEF Next, Request, MarkWritten, MarkFails, TypeOK

\* Nothing is published and nothing to do.
LEMMA DrainInit == Init => DrainInv
BY DEF Init, DrainInv

\* Every step keeps the drain at the end of the log.
LEMMA DrainStep ==
    ASSUME OutboxInv, [Next]_vars
    PROVE  DrainInv'
<1> USE DEF OutboxInv
<1>t. /\ Len(log) \in Nat /\ watermark \in Nat /\ published \in Nat
      /\ watermark <= Len(log) /\ published <= Len(log)
  BY DEF TypeOK, DrainInv
<1>1. CASE Start
  BY <1>1, <1>t DEF Start, DrainInv
<1>2. CASE Stop
  BY <1>2, <1>t DEF Stop, DrainInv, marks
<1>3. ASSUME NEW e \in Event, Commit(e)  PROVE DrainInv'
  <2>1. Len(log') = Len(log) + 1  BY <1>3, CommitShape
  <2> QED  BY <1>3, <1>t, <2>1 DEF Commit, DrainInv, marks
<1>4. ASSUME NEW e \in Event, CommitFails(e)  PROVE DrainInv'
  BY <1>4, <1>t DEF CommitFails, DrainInv, marks
<1>5. CASE OtherRequest
  BY <1>5, <1>t DEF OtherRequest, DrainInv, store, marks
<1>6. CASE ReadTail
  <2>1. todo' = (published + 1)..Len(log)  BY <1>6, UnpublishedIsTail DEF ReadTail
  <2> QED  BY <1>6, <1>t, <2>1 DEF ReadTail, DrainInv, store, marks
<1>7. CASE Publish
  BY <1>7, <1>t DEF Publish, DrainInv, store, marks
<1>8. CASE GiveUp
  BY <1>8, <1>t DEF GiveUp, DrainInv, store, marks
<1>9. CASE Acked
  <2>1. Due = published + 1 /\ Due \in 1..Len(log)  BY <1>9, DueInDrain DEF Acked
  <2>2. log[Due].seq = Due  BY <2>1 DEF LogInv
  <2>3. /\ published' = published + 1 /\ pc' = "mark" /\ todo' = todo /\ log' = log
        /\ watermark' = watermark /\ todo = (published + 1)..Len(log)
    BY <1>9, <2>1, <2>2 DEF Acked, store, DrainInv, marks
  <2> QED  BY <1>t, <2>1, <2>3 DEF DrainInv
<1>10. CASE NextDue /\ watermark' \in {watermark, published}
  <2>1. todo \ {Due} = (published + 1)..Len(log)  BY <1>10, DueInMark DEF NextDue
  <2>2. /\ todo' = (published + 1)..Len(log) /\ log' = log /\ published' = published
        /\ pc' \in {"idle", "publish"} /\ watermark' <= Len(log)
    BY <1>10, <1>t, <2>1 DEF NextDue, store
  <2> QED  BY <1>t, <2>2 DEF DrainInv
<1>11. CASE Expire
  BY <1>11, <1>t DEF Expire, DrainInv, store, relay, marks
<1>12. CASE UNCHANGED vars
  BY <1>12, <1>t DEF DrainInv, vars, store, relay, marks
<1> QED
  BY <1>1, <1>2, <1>3, <1>4, <1>5, <1>6, <1>7, <1>8, <1>9, <1>10, <1>11, <1>12
     DEF Next, Request, MarkWritten, MarkFails

-----------------------------------------------------------------------------
(* The stream *)

\* What a stored message does to the stream and to what is read off it.
LEMMA StreamGrown ==
    ASSUME TypeOK, NEW m \in Message, stream' = Append(stream, m)
    PROVE  /\ Len(stream) \in Nat /\ Len(stream') = Len(stream) + 1
           /\ 1..Len(stream') = 1..Len(stream) \cup {Len(stream) + 1}
           /\ \A k \in 1..Len(stream) : stream'[k] = stream[k]
           /\ stream'[Len(stream) + 1] = m
           /\ Delivered' = Delivered \cup {m.event}
           /\ Firsts' = Firsts \cup (IF m.event \in Delivered THEN {} ELSE {Len(stream) + 1})
           /\ \A e : Copies(stream', e) = Copies(stream, e) \cup (IF e = m.event THEN {Len(stream) + 1} ELSE {})
<1> DEFINE L == Len(stream) + 1
<1>1. /\ Len(stream) \in Nat /\ Len(stream') = L /\ stream'[L] = m
      /\ \A k \in 1..Len(stream) : stream'[k] = stream[k]
  BY AppendProperties DEF TypeOK
<1>2. 1..Len(stream') = 1..Len(stream) \cup {L}  BY <1>1
<1>3. L \in Nat /\ L \notin 1..Len(stream) /\ \A k \in 1..Len(stream) : k < L
  BY <1>1
<1>3a. 1..(L - 1) = 1..Len(stream)  BY <1>1
<1> HIDE DEF L
<1>4. Delivered' = Delivered \cup {m.event}
  <2>1. \A k \in 1..Len(stream') : stream'[k].event \in Delivered \cup {m.event}
    BY <1>1, <1>2 DEF Delivered
  <2>2. \A k \in 1..Len(stream) : stream[k].event \in Delivered'
    BY <1>1, <1>2 DEF Delivered
  <2>3. m.event \in Delivered'  BY <1>1, <1>2 DEF Delivered
  <2>4. Delivered' \subseteq Delivered \cup {m.event}  BY <2>1 DEF Delivered
  <2>5. Delivered \subseteq Delivered'  BY <2>2 DEF Delivered
  <2> QED  BY <2>3, <2>4, <2>5
<1>5. Firsts' = Firsts \cup (IF m.event \in Delivered THEN {} ELSE {L})
  <2>1. \A i \in 1..Len(stream) : i \in Firsts' <=> i \in Firsts
    <3> SUFFICES ASSUME NEW i \in 1..Len(stream)  PROVE i \in Firsts' <=> i \in Firsts
      OBVIOUS
    <3>1. \A j \in 1..(i - 1) : j \in 1..Len(stream)  BY <1>1
    <3>2. i \in 1..Len(stream')  BY <1>2
    <3>3. i \in Firsts' <=> \A j \in 1..(i - 1) : stream'[j].event # stream'[i].event
      BY <3>2 DEF Firsts
    <3>4. i \in Firsts <=> \A j \in 1..(i - 1) : stream[j].event # stream[i].event
      BY DEF Firsts
    <3> QED  BY <1>1, <3>1, <3>3, <3>4
  <2>2. L \in Firsts' <=> m.event \notin Delivered
    <3>1. L \in Firsts' <=> \A j \in 1..(L - 1) : stream'[j].event # m.event
      BY <1>1, <1>2 DEF Firsts
    <3>2. L \in Firsts' <=> \A j \in 1..Len(stream) : stream[j].event # m.event
      BY <1>1, <1>3a, <3>1
    <3> QED  BY <3>2 DEF Delivered
  <2>3. Firsts \subseteq 1..Len(stream) /\ Firsts' \subseteq 1..Len(stream')  BY DEF Firsts
  <2> QED  BY <1>2, <1>3, <2>1, <2>2, <2>3
<1>6. ASSUME NEW e
      PROVE  Copies(stream', e) = Copies(stream, e) \cup (IF e = m.event THEN {L} ELSE {})
  BY <1>1, <1>2, <1>3 DEF Copies
<1> QED  BY <1>1, <1>2, <1>4, <1>5, <1>6 DEF L

\* The two sets of places are finite.
LEMMA PlacesFinite ==
    ASSUME TypeOK
    PROVE  /\ IsFiniteSet(Firsts) /\ Firsts \subseteq 1..Len(stream)
           /\ \A e : IsFiniteSet(Copies(stream, e)) /\ Copies(stream, e) \subseteq 1..Len(stream)
<1>1. Len(stream) \in Nat  BY DEF TypeOK
<1>2. IsFiniteSet(1..Len(stream))  BY <1>1, FS_Interval
<1>3. Firsts \subseteq 1..Len(stream)  BY DEF Firsts
<1>4. \A e : Copies(stream, e) \subseteq 1..Len(stream)  BY DEF Copies
<1> QED  BY <1>2, <1>3, <1>4, FS_Subset

\* The empty stream is honest.
LEMMA StreamInit == Init => StreamInv
BY DEF Init, StreamInv

\* Every step keeps the stream to the log, and the drain to the stream.
LEMMA StreamStep ==
    ASSUME OutboxInv, [Next]_vars
    PROVE  StreamInv'
<1> USE DEF OutboxInv
<1>t. /\ Len(log) \in Nat /\ watermark \in Nat /\ published \in Nat
      /\ watermark <= Len(log) /\ published <= Len(log)
  BY DEF TypeOK, DrainInv
<1>a. ASSUME UNCHANGED <<log, stream, window>>,
             \A i \in 1..Len(log) :
                 i <= watermark' \/ i <= published' \/ (pc' = "ack" /\ i = published' + 1)
                 => i <= watermark \/ i <= published \/ (pc = "ack" /\ i = published + 1)
      PROVE  StreamInv'
  <2>1. Delivered' = Delivered  BY <1>a DEF Delivered
  <2> QED  BY <1>a, <2>1 DEF StreamInv
<1>1. CASE Start
  BY <1>1, <1>a, <1>t DEF Start, marks, broker
<1>2. CASE Stop
  <2>1. \A i \in 1..Len(log) : ~(i <= published')  BY <1>2, <1>t DEF Stop
  <2> QED  BY <1>2, <1>a, <1>t, <2>1 DEF Stop, marks, broker
<1>3. ASSUME NEW e \in Event, Commit(e)  PROVE StreamInv'
  <2> DEFINE n == Len(log) + 1
  <2>1. /\ 1..Len(log') = 1..Len(log) \cup {n} /\ n \notin 1..Len(log)
        /\ \A i \in 1..Len(log) : log'[i] = log[i]
    BY <1>3, CommitShape
  <2>2. /\ watermark' = watermark /\ published' = published /\ stream' = stream
        /\ window' = window /\ pc' = "read"
    BY <1>3 DEF Commit, marks, broker
  <2>3. Delivered' = Delivered  BY <2>2 DEF Delivered
  <2>4. ~(n <= watermark) /\ ~(n <= published)  BY <1>t
  <2> HIDE DEF n
  <2> QED  BY <2>1, <2>2, <2>3, <2>4 DEF StreamInv
<1>4. ASSUME NEW e \in Event, CommitFails(e)  PROVE StreamInv'
  BY <1>4, <1>a DEF CommitFails, marks, broker
<1>5. CASE OtherRequest
  BY <1>5, <1>a DEF OtherRequest, store, marks, broker
<1>6. CASE ReadTail
  BY <1>6, <1>a DEF ReadTail, store, marks, broker
<1>7. CASE Publish
  <2> DEFINE n == published + 1
             m == [id |-> n, event |-> log[n].event]
  <2>1. /\ n \in 1..Len(log) /\ m \in Message
        /\ window' = window \cup {n}
        /\ \/ n \in window /\ stream' = stream
           \/ n \notin window /\ stream' = Append(stream, m)
    BY <1>7, PublishShape
  <2>2. /\ m.id = n /\ m.event = log[n].event
        /\ log' = log /\ watermark' = watermark /\ published' = published /\ pc' = "ack"
    BY <1>7 DEF Publish, store, marks
  <2>2a. \A i \in 1..Len(log) : (i = published + 1) <=> (i = n)  OBVIOUS
  <2> HIDE DEF n, m
  <2>3. /\ Delivered \subseteq Delivered' /\ log[n].event \in Delivered'
        /\ \A k \in 1..Len(stream') :
               stream'[k].id \in 1..Len(log) /\ stream'[k].event = log[stream'[k].id].event
    <3>1. CASE n \in window /\ stream' = stream
      <4>1. Delivered' = Delivered  BY <3>1 DEF Delivered
      <4> QED  BY <3>1, <4>1 DEF StreamInv
    <3>2. CASE stream' = Append(stream, m)
      <4>1. /\ 1..Len(stream') = 1..Len(stream) \cup {Len(stream) + 1}
            /\ \A k \in 1..Len(stream) : stream'[k] = stream[k]
            /\ stream'[Len(stream) + 1] = m
            /\ Delivered' = Delivered \cup {m.event}
        BY <2>1, <3>2, StreamGrown
      <4> QED  BY <2>1, <2>2, <4>1 DEF StreamInv
    <3> QED  BY <2>1, <3>1, <3>2
  <2>4. \A i \in 1..Len(log') :
            i <= watermark' \/ i <= published' \/ (pc' = "ack" /\ i = published' + 1)
                => log'[i].event \in Delivered'
    BY <2>2, <2>2a, <2>3 DEF StreamInv
  <2>5. \A id \in window' : id \in 1..Len(log') /\ log'[id].event \in Delivered'
    BY <2>1, <2>2, <2>3 DEF StreamInv
  <2> QED  BY <2>2, <2>3, <2>4, <2>5 DEF StreamInv
<1>8. CASE GiveUp
  BY <1>8, <1>a DEF GiveUp, store, marks, broker
<1>9. CASE Acked
  <2>1. Due = published + 1 /\ Due \in 1..Len(log)  BY <1>9, DueInDrain DEF Acked
  <2>2. log[Due].seq = Due  BY <2>1 DEF LogInv
  <2>3. /\ published' = published + 1 /\ pc' = "mark" /\ pc = "ack" /\ watermark' = watermark
        /\ UNCHANGED <<log, stream, window>>
    BY <1>9, <2>1, <2>2 DEF Acked, store, marks, broker
  <2>4. \A i \in 1..Len(log) : i <= published + 1 => i <= published \/ i = published + 1
    BY <1>t
  <2> QED  BY <1>a, <2>3, <2>4
<1>10. CASE NextDue /\ watermark' \in {watermark, published}
  BY <1>10, <1>a DEF NextDue, store, marks, broker
<1>11. CASE Expire
  <2>1. Delivered' = Delivered  BY <1>11 DEF Expire, Delivered
  <2> QED  BY <1>11, <2>1 DEF Expire, StreamInv, store, relay, marks
<1>12. CASE UNCHANGED vars
  BY <1>12, <1>a DEF vars, store, relay, marks, broker
<1> QED
  BY <1>1, <1>2, <1>3, <1>4, <1>5, <1>6, <1>7, <1>8, <1>9, <1>10, <1>11, <1>12
     DEF Next, Request, MarkWritten, MarkFails

-----------------------------------------------------------------------------
(* Copies *)

LEMMA CopiesInit == Init => CopiesInv
BY DEF Init, CopiesInv

\* Every step keeps the copies within the expiries.
LEMMA CopiesStep ==
    ASSUME OutboxInv, [Next]_vars
    PROVE  CopiesInv'
<1> USE DEF OutboxInv
<1>t. Len(log) \in Nat /\ expiries \in Nat
  BY DEF TypeOK
<1>f. \A e : IsFiniteSet(Copies(stream, e)) /\ Copies(stream, e) \subseteq 1..Len(stream) /\ Cardinality(Copies(stream, e)) \in Nat
  BY PlacesFinite, FS_CardinalityType
<1>a. ASSUME UNCHANGED <<log, stream, window, expiries>>
      PROVE  CopiesInv'
  <2>1. \A e : Copies(stream', e) = Copies(stream, e)  BY <1>a DEF Copies
  <2> QED  BY <1>a, <2>1 DEF CopiesInv
<1>1. CASE Start
  BY <1>1, <1>a DEF Start, marks, broker
<1>2. CASE Stop
  BY <1>2, <1>a DEF Stop, marks, broker
<1>3. ASSUME NEW e \in Event, Commit(e)  PROVE CopiesInv'
  <2> DEFINE n == Len(log) + 1
  <2>1. /\ 1..Len(log') = 1..Len(log) \cup {n} /\ n \notin 1..Len(log)
        /\ \A i \in 1..Len(log) : log'[i] = log[i] /\ log[i].event # e
        /\ log'[n] = [seq |-> n, event |-> e]
    BY <1>3, CommitShape
  <2>2. stream' = stream /\ window' = window /\ expiries' = expiries
    BY <1>3 DEF Commit, marks, broker
  <2>3. \A x : Copies(stream', x) = Copies(stream, x)  BY <2>2 DEF Copies
  <2>4. Copies(stream, e) = {}
    <3>1. \A k \in 1..Len(stream) : stream[k].event # e  BY <2>1 DEF StreamInv
    <3> QED  BY <3>1 DEF Copies
  <2>5. Cardinality({}) = 0  BY FS_EmptySet
  <2> HIDE DEF n
  <2> SUFFICES ASSUME NEW i \in 1..Len(log')
               PROVE  Cardinality(Copies(stream', log'[i].event))
                          <= expiries' + (IF i \in window' THEN 1 ELSE 0)
    BY DEF CopiesInv
  <2>6. CASE i = n
    <3>1. log'[i].event = e  BY <2>1, <2>6
    <3>2. Cardinality(Copies(stream', log'[i].event)) = 0  BY <2>3, <2>4, <2>5, <3>1
    <3> QED  BY <1>t, <2>2, <3>2
  <2>7. CASE i \in 1..Len(log)  BY <2>1, <2>2, <2>3, <2>7 DEF CopiesInv
  <2> QED  BY <2>1, <2>6, <2>7
<1>4. ASSUME NEW e \in Event, CommitFails(e)  PROVE CopiesInv'
  BY <1>4, <1>a DEF CommitFails, marks, broker
<1>5. CASE OtherRequest
  BY <1>5, <1>a DEF OtherRequest, store, marks, broker
<1>6. CASE ReadTail
  BY <1>6, <1>a DEF ReadTail, store, marks, broker
<1>7. CASE Publish
  <2> DEFINE n == published + 1
             m == [id |-> n, event |-> log[n].event]
             L == Len(stream) + 1
  <2>1. /\ n \in 1..Len(log) /\ m \in Message
        /\ window' = window \cup {n}
        /\ \/ n \in window /\ stream' = stream
           \/ n \notin window /\ stream' = Append(stream, m)
    BY <1>7, PublishShape
  <2>2. m.event = log[n].event /\ log' = log /\ expiries' = expiries
    BY <1>7 DEF Publish, store
  <2> HIDE DEF n, m
  <2>3. CASE n \in window /\ stream' = stream
    <3>1. window' = window  BY <2>1, <2>3
    <3> QED  BY <1>a, <2>2, <2>3, <3>1
  <2>4. CASE n \notin window /\ stream' = Append(stream, m)
    <3>1. /\ \A e : Copies(stream', e) = Copies(stream, e) \cup (IF e = m.event THEN {L} ELSE {})
          /\ Len(stream) \in Nat
      BY <2>1, <2>4, StreamGrown
    <3>2. \A e : L \notin Copies(stream, e)  BY <1>f, <3>1
    <3> HIDE DEF L
    <3> SUFFICES ASSUME NEW i \in 1..Len(log)
                 PROVE  Cardinality(Copies(stream', log[i].event))
                            <= expiries + (IF i \in window' THEN 1 ELSE 0)
      BY <2>2 DEF CopiesInv
    <3>3. Cardinality(Copies(stream, log[i].event)) <= expiries + (IF i \in window THEN 1 ELSE 0)
      BY DEF CopiesInv
    <3>4. CASE i = n
      <4>1. Copies(stream', log[i].event) = Copies(stream, log[i].event) \cup {L}  BY <2>2, <3>1, <3>4
      <4>2. Cardinality(Copies(stream', log[i].event)) = Cardinality(Copies(stream, log[i].event)) + 1
        BY <1>f, <3>2, <4>1, FS_AddElement
      <4>3. i \in window' /\ i \notin window  BY <2>1, <2>4, <3>4
      <4>4. Cardinality(Copies(stream, log[i].event)) \in Nat  BY <1>f
      <4> QED  BY <1>t, <3>3, <4>2, <4>3, <4>4
    <3>5. CASE i # n
      <4>1. log[i].event # m.event  BY <2>1, <2>2, <3>5 DEF LogInv
      <4>2. Copies(stream', log[i].event) = Copies(stream, log[i].event)  BY <3>1, <4>1
      <4>3. i \in window' <=> i \in window  BY <2>1, <3>5
      <4> QED  BY <3>3, <4>2, <4>3
    <3> QED  BY <3>4, <3>5
  <2> QED  BY <2>1, <2>3, <2>4
<1>8. CASE GiveUp
  BY <1>8, <1>a DEF GiveUp, store, marks, broker
<1>9. CASE Acked
  BY <1>9, <1>a DEF Acked, store, marks, broker
<1>10. CASE NextDue
  BY <1>10, <1>a DEF NextDue, store, marks, broker
<1>11. CASE Expire
  <2>1. stream' = stream /\ log' = log /\ window' = {} /\ expiries' = expiries + 1
    BY <1>11 DEF Expire, store
  <2>2. \A e : Copies(stream', e) = Copies(stream, e)  BY <2>1 DEF Copies
  <2> SUFFICES ASSUME NEW i \in 1..Len(log)
               PROVE  Cardinality(Copies(stream, log[i].event)) <= expiries + 1
    BY <1>t, <2>1, <2>2 DEF CopiesInv
  <2>3. Cardinality(Copies(stream, log[i].event)) <= expiries + (IF i \in window THEN 1 ELSE 0)
    BY DEF CopiesInv
  <2>4. Cardinality(Copies(stream, log[i].event)) \in Nat  BY <1>f
  <2> QED  BY <1>t, <2>3, <2>4
<1>12. CASE UNCHANGED vars
  BY <1>12, <1>a DEF vars, store, relay, marks, broker
<1> QED
  BY <1>1, <1>2, <1>3, <1>4, <1>5, <1>6, <1>7, <1>8, <1>9, <1>10, <1>11, <1>12
     DEF Next, Request, MarkWritten, MarkFails

-----------------------------------------------------------------------------
(* The order of the feed *)

LEMMA FeedInit == Init => FeedInv
<1> SUFFICES ASSUME Init  PROVE FeedInv
  OBVIOUS
<1>1. stream = <<>> /\ log = <<>>  BY DEF Init
<1>2. Firsts = {} /\ Delivered = {}  BY <1>1 DEF Firsts, Delivered
<1>3. Cardinality(Firsts) = 0  BY <1>2, FS_EmptySet
<1> QED  BY <1>1, <1>2, <1>3 DEF FeedInv

\* How far the stream has got, and where the drain stands.
LEMMA FeedLength ==
    ASSUME OutboxInv
    PROVE  /\ Cardinality(Firsts) \in Nat /\ Len(log) \in Nat /\ Cardinality(Firsts) <= Len(log)
           /\ published \in Nat /\ published <= Cardinality(Firsts)
<1> DEFINE d == Cardinality(Firsts)
<1>1. d \in Nat  BY PlacesFinite, FS_CardinalityType DEF OutboxInv
<1>2. Len(log) \in Nat /\ d <= Len(log) /\ published \in Nat /\ published <= Len(log)
  BY DEF OutboxInv, TypeOK, FeedInv, DrainInv
<1>3. CASE published = 0  BY <1>1, <1>2, <1>3
<1>4. CASE published # 0
  <2>1. published \in 1..Len(log)  BY <1>2, <1>4
  <2>2. log[published].event \in Delivered  BY <1>2, <2>1 DEF OutboxInv, StreamInv
  <2>3. PICK n \in 1..d : log[published].event = log[n].event
    BY <2>2 DEF OutboxInv, FeedInv
  <2>4. n \in 1..Len(log)  BY <1>1, <1>2, <2>3
  <2>5. n = published  BY <2>1, <2>3, <2>4 DEF OutboxInv, LogInv
  <2> QED  BY <1>1, <1>2, <2>5
<1> QED  BY <1>1, <1>2, <1>3, <1>4

\* A publish stores a message the stream has had, or the next one of the log.
LEMMA PublishDelivers ==
    ASSUME OutboxInv, Publish
    PROVE  LET d == Cardinality(Firsts)
           IN  \/ Firsts' = Firsts /\ Delivered' = Delivered
                  /\ \A i \in Firsts : stream'[i] = stream[i]
               \/ LET L == Len(stream) + 1
                  IN  /\ d + 1 <= Len(log) /\ L \in Nat
                      /\ Firsts' = Firsts \cup {L} /\ Cardinality(Firsts') = d + 1
                      /\ \A i \in Firsts : stream'[i] = stream[i] /\ i < L
                      /\ stream'[L].event = log[d + 1].event
                      /\ Delivered' = Delivered \cup {log[d + 1].event}
<1> DEFINE d == Cardinality(Firsts)
           n == published + 1
           m == [id |-> n, event |-> log[n].event]
           L == Len(stream) + 1
<1>1. /\ n \in 1..Len(log) /\ m \in Message
      /\ \/ n \in window /\ stream' = stream
         \/ n \notin window /\ stream' = Append(stream, m)
  BY PublishShape DEF OutboxInv
<1>2. m.event = log[n].event  OBVIOUS
<1>3. /\ d \in Nat /\ Len(log) \in Nat /\ d <= Len(log) /\ published \in Nat /\ published <= d
  BY FeedLength
<1>4. /\ IsFiniteSet(Firsts) /\ Firsts \subseteq 1..Len(stream) /\ Len(stream) \in Nat
      /\ Delivered = {log[k].event : k \in 1..d}
  BY PlacesFinite DEF OutboxInv, FeedInv, TypeOK
<1>5. log[n].event \in Delivered \/ n = d + 1
  <2>1. CASE n <= d
    <3>1. n \in 1..d  BY <1>1, <1>3, <2>1
    <3> QED  BY <1>4, <3>1
  <2>2. CASE ~(n <= d)  BY <1>3, <2>2
  <2> QED  BY <2>1, <2>2
<1>6. n = d + 1 => log[n].event \notin Delivered
  <2> SUFFICES ASSUME n = d + 1, log[n].event \in Delivered  PROVE FALSE
    OBVIOUS
  <2>1. PICK k \in 1..d : log[n].event = log[k].event  BY <1>4
  <2>2. k \in 1..Len(log)  BY <1>3, <2>1
  <2>3. k = n  BY <1>1, <2>1, <2>2 DEF OutboxInv, LogInv
  <2> QED  BY <1>3, <2>1, <2>3
<1>7. CASE n \in window /\ stream' = stream
  BY <1>7 DEF Firsts, Delivered
<1>8. CASE n \notin window /\ stream' = Append(stream, m)
  <2> HIDE DEF m, n
  <2>1. /\ \A k \in 1..Len(stream) : stream'[k] = stream[k]
        /\ stream'[L] = m
        /\ Delivered' = Delivered \cup {m.event}
        /\ Firsts' = Firsts \cup (IF m.event \in Delivered THEN {} ELSE {L})
    BY <1>1, <1>8, StreamGrown DEF OutboxInv
  <2>2. CASE log[n].event \in Delivered
    BY <1>2, <1>4, <2>1, <2>2
  <2>3. CASE log[n].event \notin Delivered
    <3>1. n = d + 1 /\ d + 1 <= Len(log)  BY <1>1, <1>3, <1>5, <2>3
    <3>2. Firsts' = Firsts \cup {L} /\ L \notin Firsts  BY <1>2, <1>4, <2>1, <2>3
    <3>3. Cardinality(Firsts') = d + 1  BY <1>4, <3>2, FS_AddElement
    <3>4. \A i \in Firsts : stream'[i] = stream[i] /\ i < L  BY <1>4, <2>1
    <3>5. L \in Nat  BY <1>4
    <3> HIDE DEF d, L
    <3>6. stream'[L].event = log[d + 1].event /\ Delivered' = Delivered \cup {log[d + 1].event}
      BY <1>2, <2>1, <3>1
    <3> QED  BY <3>1, <3>2, <3>3, <3>4, <3>5, <3>6 DEF d, L
  <2> QED  BY <2>2, <2>3
<1> QED  BY <1>1, <1>7, <1>8

\* Every step keeps the stream a prefix of the log, in its order.
LEMMA FeedStep ==
    ASSUME OutboxInv, [Next]_vars
    PROVE  FeedInv'
<1> DEFINE d == Cardinality(Firsts)
<1>d. /\ d \in Nat /\ Len(log) \in Nat /\ d <= Len(log)
      /\ Delivered = {log[n].event : n \in 1..d}
      /\ \A i \in Firsts : Rank(i) \in 1..d /\ stream[i].event = log[Rank(i)].event
      /\ IsFiniteSet(Firsts) /\ Firsts \subseteq Nat
  <2>1. Firsts \subseteq Nat  BY DEF Firsts
  <2> QED  BY <2>1, FeedLength, PlacesFinite DEF OutboxInv, FeedInv
<1>r. ASSUME stream' = stream
      PROVE  Firsts' = Firsts /\ Delivered' = Delivered /\ \A i : Rank(i)' = Rank(i)
  BY <1>r DEF Firsts, Delivered, Rank
<1>a. ASSUME UNCHANGED <<log, stream>>
      PROVE  FeedInv'
  BY <1>a, <1>r DEF OutboxInv, FeedInv
<1>1. CASE Start
  BY <1>1, <1>a DEF Start, marks, broker
<1>2. CASE Stop
  BY <1>2, <1>a DEF Stop, marks, broker
<1>3. ASSUME NEW e \in Event, Commit(e)  PROVE FeedInv'
  <2>1. Len(log') = Len(log) + 1 /\ \A i \in 1..Len(log) : log'[i] = log[i]
    BY <1>3, CommitShape DEF OutboxInv
  <2>2. stream' = stream  BY <1>3 DEF Commit, marks, broker
  <2>3. Firsts' = Firsts /\ Delivered' = Delivered /\ \A i : Rank(i)' = Rank(i)
    BY <1>r, <2>2
  <2> DEFINE c == Cardinality(Firsts)
  <2>4. Cardinality(Firsts') = d  BY <2>3
  <2> HIDE DEF d
  <2>5. \A n \in 1..d : n \in 1..Len(log)  BY <1>d
  <2>6. \A n \in 1..d : log'[n] = log[n]  BY <2>1, <2>5
  <2>7. {log'[n].event : n \in 1..d} = {log[n].event : n \in 1..d}  BY <2>6
  <2>8. d <= Len(log')  BY <1>d, <2>1
  <2>9. \A i \in Firsts' :
            Rank(i)' \in 1..d /\ stream'[i].event = log'[Rank(i)'].event
    BY <1>d, <2>2, <2>3, <2>6
  <2> QED  BY <1>d, <2>3, <2>4, <2>7, <2>8, <2>9 DEF FeedInv
<1>4. ASSUME NEW e \in Event, CommitFails(e)  PROVE FeedInv'
  BY <1>4, <1>a DEF CommitFails, marks, broker
<1>5. CASE OtherRequest
  BY <1>5, <1>a DEF OtherRequest, store, marks, broker
<1>6. CASE ReadTail
  BY <1>6, <1>a DEF ReadTail, store, marks, broker
<1>7. CASE Publish
  <2>0. log' = log  BY <1>7 DEF Publish, store
  <2>1. CASE Firsts' = Firsts /\ Delivered' = Delivered
               /\ \A i \in Firsts : stream'[i] = stream[i]
    <3>1. \A i : Rank(i)' = Rank(i)  BY <2>1 DEF Rank
    <3> QED  BY <1>d, <2>0, <2>1, <3>1 DEF FeedInv
  <2>2. ASSUME NEW L \in Nat,
               d + 1 <= Len(log), Firsts' = Firsts \cup {L}, Cardinality(Firsts') = d + 1,
               \A i \in Firsts : stream'[i] = stream[i] /\ i < L,
               stream'[L].event = log[d + 1].event,
               Delivered' = Delivered \cup {log[d + 1].event}
        PROVE  FeedInv'
    <3>1. ASSUME NEW i \in Firsts  PROVE Rank(i)' = Rank(i)
      <4>1. i \in Nat /\ i < L  BY <1>d, <2>2
      <4>2. {j \in Firsts' : j <= i} = {j \in Firsts : j <= i}  BY <2>2, <4>1
      <4> QED  BY <4>2 DEF Rank
    <3>2. Rank(L)' = d + 1
      <4>0. \A j \in Firsts' : j <= L
        <5> SUFFICES ASSUME NEW j \in Firsts'  PROVE j <= L
          OBVIOUS
        <5>1. CASE j = L  BY <2>2, <5>1
        <5>2. CASE j \in Firsts
          <6>1. j \in Nat /\ j < L  BY <1>d, <2>2, <5>2
          <6> QED  BY <6>1
        <5> QED  BY <2>2, <5>1, <5>2
      <4>1. {j \in Firsts' : j <= L} = Firsts'  BY <4>0
      <4> QED  BY <2>2, <4>1 DEF Rank
    <3> HIDE DEF d
    <3>3. \A i \in Firsts' :
              Rank(i)' \in 1..(d + 1) /\ stream'[i].event = log[Rank(i)'].event
      <4> SUFFICES ASSUME NEW i \in Firsts'
                   PROVE  Rank(i)' \in 1..(d + 1) /\ stream'[i].event = log[Rank(i)'].event
        OBVIOUS
      <4>1. CASE i = L  BY <1>d, <2>2, <3>2, <4>1
      <4>2. CASE i \in Firsts
        <5>1. Rank(i)' = Rank(i) /\ stream'[i] = stream[i]  BY <2>2, <3>1, <4>2
        <5>2. Rank(i) \in 1..d /\ stream[i].event = log[Rank(i)].event  BY <1>d, <4>2
        <5>3. Rank(i) \in 1..(d + 1)  BY <1>d, <5>2
        <5> QED  BY <5>1, <5>2, <5>3
      <4> QED  BY <2>2, <4>1, <4>2
    <3>4. 1..(d + 1) = 1..d \cup {d + 1}  BY <1>d
    <3>5. Delivered' = {log[n].event : n \in 1..(d + 1)}  BY <1>d, <2>2, <3>4
    <3> QED  BY <2>0, <2>2, <3>3, <3>5 DEF FeedInv
  <2> HIDE DEF d
  <2>3. \/ Firsts' = Firsts /\ Delivered' = Delivered
             /\ \A i \in Firsts : stream'[i] = stream[i]
        \/ \E L \in Nat :
             /\ d + 1 <= Len(log)
             /\ Firsts' = Firsts \cup {L} /\ Cardinality(Firsts') = d + 1
             /\ \A i \in Firsts : stream'[i] = stream[i] /\ i < L
             /\ stream'[L].event = log[d + 1].event
             /\ Delivered' = Delivered \cup {log[d + 1].event}
    BY <1>7, PublishDelivers DEF d
  <2> QED  BY <2>1, <2>2, <2>3
<1>8. CASE GiveUp
  BY <1>8, <1>a DEF GiveUp, store, marks, broker
<1>9. CASE Acked
  BY <1>9, <1>a DEF Acked, store, marks, broker
<1>10. CASE NextDue
  BY <1>10, <1>a DEF NextDue, store, marks, broker
<1>11. CASE Expire
  BY <1>11, <1>a DEF Expire, store
<1>12. CASE UNCHANGED vars
  BY <1>12, <1>a DEF vars, store, relay, marks, broker
<1> QED
  BY <1>1, <1>2, <1>3, <1>4, <1>5, <1>6, <1>7, <1>8, <1>9, <1>10, <1>11, <1>12
     DEF Next, Request, MarkWritten, MarkFails

-----------------------------------------------------------------------------
(* Invariants *)

LEMMA OutboxInvariant == Spec => []OutboxInv
<1>1. Init => OutboxInv
  BY TypeInit, LogInit, DrainInit, StreamInit, CopiesInit, FeedInit DEF OutboxInv
<1>2. OutboxInv /\ [Next]_vars => OutboxInv'
  BY TypeStep, LogStep, DrainStep, StreamStep, CopiesStep, FeedStep DEF OutboxInv
<1> QED  BY <1>1, <1>2, PTL DEF Spec

\* What the watermark covers is in the stream, so the drain that starts after it
\* skips nothing; and no consumer hears of a command whose client was told that it
\* failed.  For any crash between the stream's acknowledgement, the drain's own
\* copy of the seq and the watermark file (drain_outbox).
THEOREM StreamTellsTheLog == Spec => []StreamHonest
<1>1. OutboxInv => StreamHonest
  <2> SUFFICES ASSUME OutboxInv  PROVE StreamHonest
    OBVIOUS
  <2>1. NothingSkipped
    BY DEF OutboxInv, NothingSkipped, StreamInv, LogInv
  <2>2. NoEventForLost
    <3> SUFFICES ASSUME NEW e \in Delivered  PROVE answer[e] # "lost"
      BY DEF NoEventForLost
    <3>1. PICK k \in 1..Len(stream) : e = stream[k].event  BY DEF Delivered
    <3>2. stream[k].id \in 1..Len(log) /\ e = log[stream[k].id].event
      BY <3>1 DEF OutboxInv, StreamInv
    <3>3. answer[e] = "committed"  BY <3>2 DEF OutboxInv, LogInv
    <3> QED  BY <3>3
  <2> QED  BY <2>1, <2>2 DEF StreamHonest, OutboxInv
<1> QED  BY <1>1, OutboxInvariant, PTL

\* However often the drain repeats a publish whose acknowledgement or watermark
\* was lost, the stream has one copy of an event more than it forgot ids.
THEOREM RepeatsAreBounded == Spec => []CopiesBounded
<1>1. OutboxInv => CopiesBounded
  <2> SUFFICES ASSUME OutboxInv, NEW e \in Event
               PROVE  Cardinality(Copies(stream, e)) <= 1 + expiries
    BY DEF CopiesBounded
  <2>1. expiries \in Nat  BY DEF OutboxInv, TypeOK
  <2>2. CASE Copies(stream, e) = {}
    <3>1. Cardinality(Copies(stream, e)) = 0  BY <2>2, FS_EmptySet
    <3> QED  BY <2>1, <3>1
  <2>3. CASE Copies(stream, e) # {}
    <3>1. PICK k \in 1..Len(stream) : stream[k].event = e  BY <2>3 DEF Copies
    <3>2. PICK i \in 1..Len(log) : e = log[i].event
      BY <3>1 DEF OutboxInv, StreamInv
    <3>3. Cardinality(Copies(stream, e)) <= expiries + (IF i \in window THEN 1 ELSE 0)
      BY <3>2 DEF OutboxInv, CopiesInv
    <3>4. Cardinality(Copies(stream, e)) \in Nat
      BY PlacesFinite, FS_CardinalityType DEF OutboxInv
    <3> QED  BY <2>1, <3>3, <3>4
  <2> QED  BY <2>2, <2>3
<1> QED  BY <1>1, OutboxInvariant, PTL

-----------------------------------------------------------------------------
(* The refinement of EventFeed: the stream without second copies is a prefix   *)
(* of the log, so a commit is a Commit, a publish that stores an event for the *)
(* first time is a Deliver, and every other step a stutter.                    *)

\* The n-th place holds the n-th event of the log.
FeedIsPrefix == FirstCopies = [n \in 1..Cardinality(Firsts) |-> log[n].event]

\* What consumers saw, the first copies in their order, is a prefix of the log.
LEMMA FirstCopiesAre == OutboxInv => FeedIsPrefix
<1> SUFFICES ASSUME OutboxInv  PROVE FeedIsPrefix
  OBVIOUS
<1> DEFINE d == Cardinality(Firsts)
<1>1. /\ d \in Nat /\ Len(log) \in Nat /\ d <= Len(log)
      /\ Delivered = {log[n].event : n \in 1..d}
      /\ \A i \in Firsts : Rank(i) \in 1..d /\ stream[i].event = log[Rank(i)].event
  BY FeedLength DEF OutboxInv, FeedInv
<1>2. ASSUME NEW n \in 1..d
      PROVE  stream[Nth(n)].event = log[n].event
  <2>1. log[n].event \in Delivered  BY <1>1
  <2> DEFINE T == {k \in 1..Len(stream) : stream[k].event = log[n].event}
  <2>2. T \subseteq Nat /\ T # {}  BY <2>1 DEF Delivered
  <2>3. PICK i \in T : \A j \in T : i <= j  BY <2>2, LeastNatural
  <2>4. Len(stream) \in Nat  BY DEF OutboxInv, TypeOK
  <2>5. i \in Firsts
    <3> SUFFICES ASSUME NEW j \in 1..(i - 1)  PROVE stream[j].event # stream[i].event
      BY DEF Firsts
    <3>1. j \in 1..Len(stream) /\ ~(i <= j)  BY <2>3, <2>4
    <3> QED  BY <2>3, <3>1
  <2>6. Rank(i) \in 1..d /\ log[Rank(i)].event = log[n].event  BY <1>1, <2>3, <2>5
  <2>7. Rank(i) \in 1..Len(log) /\ n \in 1..Len(log)  BY <1>1, <2>6
  <2>8. Rank(i) = n  BY <2>6, <2>7 DEF OutboxInv, LogInv
  <2>9. Nth(n) \in Firsts /\ Rank(Nth(n)) = n  BY <2>5, <2>8 DEF Nth
  <2> QED  BY <1>1, <2>9
<1> HIDE DEF d
<1>3. [n \in 1..d |-> stream[Nth(n)].event] = [n \in 1..d |-> log[n].event]
  BY <1>2
<1> QED  BY <1>3 DEF FirstCopies, FeedIsPrefix, d

\* The events of the log, as the abstract specification sees it.
LogEvents == [i \in 1..Len(log) |-> log[i].event]

\* The initial states map to those of the feed.
LEMMA FeedInitRefines == Init => Feed!Init
<1> SUFFICES ASSUME Init  PROVE Feed!Init
  OBVIOUS
<1>1. log = <<>> /\ stream = <<>>  BY DEF Init
<1>2. Firsts = {}  BY <1>1 DEF Firsts
<1>3. Cardinality(Firsts) = 0  BY <1>2, FS_EmptySet
<1>4. 1..0 = {} /\ Len(log) = 0  BY <1>1
<1>5. FirstCopies = <<>>  BY <1>3, <1>4 DEF FirstCopies
<1>6. [i \in 1..Len(log) |-> log[i].event] = <<>>  BY <1>4
<1> QED  BY <1>5, <1>6 DEF Feed!Init

\* Appending to a sequence given by its elements.
LEMMA AppendByElements ==
    ASSUME NEW S, NEW k \in Nat, NEW f, \A n \in 1..(k + 1) : f[n] \in S
    PROVE  [n \in 1..(k + 1) |-> f[n]] = Append([n \in 1..k |-> f[n]], f[k + 1])
<1> DEFINE s == [n \in 1..k |-> f[n]]
           t == [n \in 1..(k + 1) |-> f[n]]
<1>1. s \in Seq(S) /\ t \in Seq(S) /\ Len(s) = k /\ Len(t) = k + 1
  <2>1. \A n \in 1..k : f[n] \in S  OBVIOUS
  <2> QED  BY <2>1, IsASeq
<1>2. f[k + 1] \in S  OBVIOUS
<1> DEFINE u == Append(s, f[k + 1])
<1>3. /\ u \in Seq(S) /\ Len(u) = k + 1 /\ u[k + 1] = f[k + 1]
      /\ \A n \in 1..k : u[n] = s[n]
  BY <1>1, <1>2, AppendProperties
<1>4. \A n \in 1..(k + 1) : t[n] = u[n]
  <2> SUFFICES ASSUME NEW n \in 1..(k + 1)  PROVE t[n] = u[n]
    OBVIOUS
  <2>1. CASE n = k + 1  BY <1>3, <2>1
  <2>2. CASE n # k + 1
    <3>1. n \in 1..k  BY <2>2
    <3> QED  BY <1>3, <3>1
  <2> QED  BY <2>1, <2>2
<1> HIDE DEF s, t, u
<1>5. t = u  BY <1>1, <1>3, <1>4, SeqEqual
<1> QED  BY <1>5 DEF s, t, u

\* A commit appends to the abstract log.
LEMMA CommitRefines ==
    ASSUME OutboxInv, OutboxInv', NEW e \in Event, Commit(e)
    PROVE  Feed!Commit(e)
<1> DEFINE n == Len(log) + 1
<1>1. /\ Len(log) \in Nat /\ Len(log') = n
      /\ \A i \in 1..Len(log) : log'[i] = log[i] /\ log[i].event # e
      /\ log'[n] = [seq |-> n, event |-> e]
  BY CommitShape DEF OutboxInv
<1>2. stream' = stream  BY DEF Commit, marks, broker
<1>3. FirstCopies' = FirstCopies  BY <1>2 DEF FirstCopies, Nth, Rank, Firsts
<1>4. \A i \in 1..Len(log) : [j \in 1..Len(log) |-> log[j].event][i] # e
  BY <1>1
<1>5. Len([j \in 1..Len(log) |-> log[j].event]) = Len(log)  BY <1>1
<1>6. [i \in 1..Len(log') |-> log'[i].event] = Append([i \in 1..Len(log) |-> log[i].event], e)
  <2> DEFINE f == [i \in 1..n |-> log'[i].event]
  <2>1. \A i \in 1..n : f[i] \in Event
    <3>1. \A i \in 1..Len(log') : log'[i] \in Record  BY DEF OutboxInv, TypeOK
    <3> QED  BY <1>1, <3>1 DEF Record
  <2>2. f[n] = e  BY <1>1
  <2>3. \A i \in 1..Len(log) : f[i] = log[i].event  BY <1>1
  <2> HIDE DEF f
  <2>4. [i \in 1..n |-> f[i]] = Append([i \in 1..Len(log) |-> f[i]], f[n])
    BY <1>1, <2>1, AppendByElements
  <2>5. [i \in 1..Len(log) |-> f[i]] = [i \in 1..Len(log) |-> log[i].event]  BY <2>3
  <2>6. [i \in 1..n |-> f[i]] = [i \in 1..Len(log') |-> log'[i].event]  BY <1>1 DEF f
  <2> QED  BY <2>2, <2>4, <2>5, <2>6
<1> QED  BY <1>3, <1>4, <1>5, <1>6 DEF Feed!Commit

\* A publish delivers the next event of the log, or one that was delivered.
LEMMA PublishRefines ==
    ASSUME OutboxInv, OutboxInv', Publish
    PROVE  Feed!Deliver \/ UNCHANGED Feed!feedVars
<1> DEFINE d == Cardinality(Firsts)
<1>1. log' = log  BY DEF Publish, store
<1>2. [i \in 1..Len(log') |-> log'[i].event] = [i \in 1..Len(log) |-> log[i].event]
  BY <1>1
<1>3. /\ FirstCopies = [n \in 1..d |-> log[n].event]
      /\ FirstCopies' = [n \in 1..Cardinality(Firsts') |-> log[n].event]
  <2>1. FeedIsPrefix  BY FirstCopiesAre
  <2>2. FeedIsPrefix'
    <3>1. OutboxInv'  OBVIOUS
    <3> QED  BY <3>1, FirstCopiesAre, PTL
  <2> QED  BY <1>1, <2>1, <2>2 DEF FeedIsPrefix
<1>4. d \in Nat /\ Len(log) \in Nat  BY FeedLength
<1>5. CASE Firsts' = Firsts
  BY <1>2, <1>3, <1>5 DEF Feed!feedVars
<1>6. CASE d + 1 <= Len(log) /\ Cardinality(Firsts') = d + 1
  <2> DEFINE f == [n \in 1..Len(log) |-> log[n].event]
  <2>1. FirstCopies = [n \in 1..d |-> f[n]] /\ FirstCopies' = [n \in 1..(d + 1) |-> f[n]]
    BY <1>3, <1>4, <1>6
  <2>2. \A n \in 1..(d + 1) : f[n] \in Event
    <3>1. \A i \in 1..Len(log) : log[i] \in Record  BY DEF OutboxInv, TypeOK
    <3> QED  BY <1>4, <1>6, <3>1 DEF Record
  <2>3. Len(f) = Len(log)  BY <1>4
  <2>4. f = [i \in 1..Len(log) |-> log[i].event]  OBVIOUS
  <2> HIDE DEF f, d
  <2>5. FirstCopies' = Append(FirstCopies, f[d + 1]) /\ Len(FirstCopies) = d
    BY <1>4, <2>1, <2>2, AppendByElements
  <2>6. Len(FirstCopies) < Len(f)  BY <1>4, <1>6, <2>3, <2>5
  <2> QED  BY <1>2, <2>4, <2>5, <2>6 DEF Feed!Deliver
<1>7. Firsts' = Firsts \/ (d + 1 <= Len(log) /\ Cardinality(Firsts') = d + 1)
  BY PublishDelivers
<1> QED  BY <1>5, <1>6, <1>7

\* Every step of the outbox is a step of the feed or a stutter.
LEMMA FeedStepRefines ==
    ASSUME OutboxInv, OutboxInv', [Next]_vars
    PROVE  [Feed!Next]_Feed!feedVars
<1>1. ASSUME NEW e \in Event, Commit(e)  PROVE Feed!Next
  BY <1>1, CommitRefines DEF Feed!Next
<1>2. CASE Publish
  BY <1>2, PublishRefines DEF Feed!Next
<1>3. ASSUME UNCHANGED <<log, stream>>  PROVE UNCHANGED Feed!feedVars
  BY <1>3 DEF Feed!feedVars, FirstCopies, Nth, Rank, Firsts
<1>4. ASSUME NEW e \in Event, CommitFails(e)  PROVE UNCHANGED <<log, stream>>
  BY <1>4 DEF CommitFails, marks, broker
<1>5. ASSUME Start \/ Stop \/ OtherRequest \/ ReadTail \/ GiveUp \/ Acked \/ MarkWritten
             \/ MarkFails \/ Expire \/ UNCHANGED vars
      PROVE  UNCHANGED <<log, stream>>
  BY <1>5 DEF Start, Stop, OtherRequest, ReadTail, GiveUp, Acked, MarkWritten, MarkFails,
     NextDue, Expire, vars, store, relay, marks, broker
<1> QED  BY <1>1, <1>2, <1>3, <1>4, <1>5 DEF Next, Request

\* Whatever crashes, lost acknowledgements and errors interrupt the drain,
\* consumers see the commit log: every event in its order for the first time, none
\* skipped and none invented (drain_outbox against EventFeed).
THEOREM OutboxImplementsFeed == Spec => FeedFollowsLog
<1>1. Init => Feed!Init  BY FeedInitRefines
<1>2. OutboxInv /\ OutboxInv' /\ [Next]_vars => [Feed!Next]_Feed!feedVars
  BY FeedStepRefines
<1> QED  BY <1>1, <1>2, OutboxInvariant, PTL DEF Spec, FeedFollowsLog, Feed!Spec
=============================================================================
