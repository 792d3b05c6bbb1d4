-------------------------------- MODULE Outbox --------------------------------
(***************************************************************************)
(* The transactional outbox of the kanban server: drain_outbox, the        *)
(* published watermark and the request loop of server/src/main.rs, over    *)
(* the commit log of server/src/storage.rs and the JetStream stream        *)
(* KANBAN_EVENTS, which is outside the repository.                         *)
(*                                                                         *)
(* The request loop is one task: it dispatches a request, answers, drains  *)
(* the log to the end or to the first error, and only then takes the next  *)
(* request.  The log is therefore still while a drain is under way.        *)
(* Commits are one step here (DurableStore has their inside).              *)
(***************************************************************************)
EXTENDS Integers, Sequences, FiniteSets

CONSTANTS
    Event,          \* the mutation events that may be committed, each once
    ExtEvent,       \* those published under kanban.ext.event, which no stream takes
    MaxExpiries,    \* bound: how often the stream may forget its message ids
    MaxMisreads     \* bound: how many starts cannot read the watermark

ASSUME OutboxAssumption ==
    /\ ExtEvent \subseteq Event
    /\ MaxExpiries \in Nat /\ MaxMisreads \in Nat

VARIABLES
    log,            \* the records of _events.log
    committed_seq,  \* the backend's counter
    answer,         \* what the client of each event's command was told
    watermark,      \* the seq in _published.seq
    misreads,       \* how many starts could not read it
    published,      \* the drain's own copy of it
    pc,             \* what the request loop is doing
    todo,           \* the positions in the log the drain has yet to publish
    stream,         \* the messages JetStream stored
    window,         \* the message ids JetStream still recognises
    expiries        \* how often it has forgotten them

store  == <<log, committed_seq, answer>>
marks  == <<watermark, misreads>>
relay  == <<published, pc, todo>>
broker == <<stream, window, expiries>>
vars   == <<store, marks, relay, broker>>

-----------------------------------------------------------------------------
Record == [seq: Nat, event: Event]
Message == [id: Nat, event: Event]
Phase == {"down", "read", "publish", "ack", "mark", "idle"}

\* A bug: an id of its own for every attempt.
stable_event_id_PerAttempt(r) == r.seq + Len(log) * Len(stream)

\* The Nats-Msg-Id of a record.
stable_event_id(r) == r.seq

HighWater ==
    CHOOSE n \in {0} \cup {log[i].seq : i \in 1..Len(log)} :
        \A i \in 1..Len(log) : log[i].seq <= n

\* A bug: the tail starts one event too late.
Unpublished_OffByOne == {i \in 1..Len(log) : log[i].seq > published + 1}

\* read_events_since(published).  The seqs of the file never decrease, so the
\* sort by seq leaves the file order.
Unpublished == {i \in 1..Len(log) : log[i].seq > published}

\* A bug: the newest record goes first.
Due_Newest == CHOOSE i \in todo : \A j \in todo : j <= i

\* The record the drain publishes next.
Due == CHOOSE i \in todo : \A j \in todo : i <= j

Init ==
    /\ log = <<>> /\ committed_seq = 0 /\ answer = [e \in Event |-> "none"]
    /\ watermark = 0 /\ misreads = 0
    /\ published = 0 /\ pc = "down" /\ todo = {}
    /\ stream = <<>> /\ window = {} /\ expiries = 0

-----------------------------------------------------------------------------
(* The server process *)

\* Load, read the watermark and begin the startup drain.  One that is absent or
\* cannot be read passes for 0.
Start ==
    /\ pc = "down"
    /\ committed_seq' = HighWater
    /\ \/ published' = watermark /\ UNCHANGED misreads
       \/ misreads < MaxMisreads /\ published' = 0 /\ misreads' = misreads + 1
    /\ pc' = "read"
    /\ UNCHANGED <<log, answer, watermark, todo, broker>>

\* The process ends, by a crash anywhere or at ctrl-c between two requests.
Stop ==
    /\ pc # "down"
    /\ pc' = "down" /\ todo' = {} /\ published' = 0 /\ committed_seq' = 0
    /\ UNCHANGED <<log, answer, marks, broker>>

\* A mutating request commits and is answered; then the drain.
Commit(e) ==
    /\ pc = "idle" /\ answer[e] = "none"
    /\ log' = Append(log, [seq |-> committed_seq + 1, event |-> e])
    /\ committed_seq' = committed_seq + 1
    /\ answer' = [answer EXCEPT ![e] = "committed"]
    /\ pc' = "read"
    /\ UNCHANGED <<marks, published, todo, broker>>

\* The commit fails and is rolled back.  (DurableStore has the truncate that
\* fails as well and leaves the record in the log.)
CommitFails(e) ==
    /\ pc = "idle" /\ answer[e] = "none"
    /\ answer' = [answer EXCEPT ![e] = "lost"]
    /\ pc' = "read"
    /\ UNCHANGED <<log, committed_seq, marks, published, todo, broker>>

\* A read, or a mutation that is refused: nothing is committed, but the loop
\* drains all the same.
OtherRequest ==
    /\ pc = "idle"
    /\ pc' = "read"
    /\ UNCHANGED <<store, marks, published, todo, broker>>

-----------------------------------------------------------------------------
(* drain_outbox *)

ReadTail ==
    /\ pc = "read"
    /\ todo' = Unpublished
    /\ pc' = IF todo' = {} THEN "idle" ELSE "publish"
    /\ UNCHANGED <<store, marks, published, broker>>

\* JetStream stores the message, or recognises its id and stores nothing; it
\* acknowledges in both cases.
Publish ==
    /\ pc = "publish"
    /\ log[Due].event \notin ExtEvent
    /\ LET id == stable_event_id(log[Due])
       IN  /\ stream' = IF id \in window THEN stream
                        ELSE Append(stream, [id |-> id, event |-> log[Due].event])
           /\ window' = window \cup {id}
    /\ pc' = "ack"
    /\ UNCHANGED <<store, marks, published, todo, expiries>>

\* A bug: an event that could not be published is passed over.
GiveUp_Continue ==
    /\ pc \in {"publish", "ack"}
    /\ pc' = IF todo = {Due} THEN "idle" ELSE "publish"
    /\ todo' = todo \ {Due}
    /\ UNCHANGED <<store, marks, published, broker>>

\* The log cannot be read, the publish fails, or the acknowledgement does not
\* arrive: the drain ends, and the tail waits for the next one.
GiveUp ==
    /\ pc \in {"read", "publish", "ack"}
    /\ pc' = "idle" /\ todo' = {}
    /\ UNCHANGED <<store, marks, published, broker>>

Acked ==
    /\ pc = "ack"
    /\ published' = log[Due].seq
    /\ pc' = "mark"
    /\ UNCHANGED <<store, marks, todo, broker>>

NextDue ==
    /\ pc = "mark"
    /\ todo' = todo \ {Due}
    /\ pc' = IF todo' = {} THEN "idle" ELSE "publish"
    /\ UNCHANGED <<store, misreads, published, broker>>

\* write_published_watermark.
MarkWritten == NextDue /\ watermark' = published

\* Its errors are ignored.
MarkFails == NextDue /\ UNCHANGED watermark

-----------------------------------------------------------------------------
\* Outside the repository: the duplicate window of the stream passes.
Expire ==
    /\ expiries < MaxExpiries /\ window # {}
    /\ window' = {} /\ expiries' = expiries + 1
    /\ UNCHANGED <<store, marks, relay, stream>>

Request == OtherRequest \/ \E e \in Event : Commit(e) \/ CommitFails(e)

Next ==
    \/ Start \/ Stop \/ Request
    \/ ReadTail \/ Publish \/ GiveUp \/ Acked \/ MarkWritten \/ MarkFails
    \/ Expire

Spec == Init /\ [][Next]_vars

\* The server is started again after it stopped and its loop goes on; requests
\* keep coming; a log, broker or disk that is asked again and again answers at
\* some time, however often the process dies in between.
Fairness ==
    /\ WF_vars(Start) /\ WF_vars(Request)
    /\ SF_vars(ReadTail) /\ SF_vars(Publish) /\ SF_vars(Acked) /\ SF_vars(MarkWritten)

FairSpec == Spec /\ Fairness
-----------------------------------------------------------------------------
(* Properties *)

TypeOK ==
    /\ log \in Seq(Record) /\ committed_seq \in Nat
    /\ answer \in [Event -> {"none", "committed", "lost"}]
    /\ watermark \in Nat /\ misreads \in 0..MaxMisreads /\ published \in Nat /\ pc \in Phase
    /\ todo \subseteq 1..Len(log)
    /\ pc \in {"publish", "ack", "mark"} <=> todo # {}
    /\ stream \in Seq(Message) /\ window \subseteq Nat
    /\ expiries \in 0..MaxExpiries

Delivered == {stream[i].event : i \in 1..Len(stream)}

\* "the watermark advances only once the event is durably in the stream": what
\* the watermark covers is never published again, so it must be there.
NothingSkipped ==
    \A i \in 1..Len(log) :
        log[i].seq <= watermark \/ log[i].seq <= published
            => log[i].event \in Delivered

\* "No event for a write that did not land": no consumer hears of a command
\* whose client was told it failed.
NoEventForLost == \A e \in Delivered : answer[e] # "lost"

Copies(s, e) == {i \in 1..Len(s) : s[i].event = e}

\* A crash between the stream's acknowledgement and the watermark, or a lost
\* acknowledgement, costs a second copy only if the stream forgot the first.
CopiesBounded == \A e \in Event : Cardinality(Copies(stream, e)) <= 1 + expiries

\* The messages of the stream without the second copies: where each event stands
\* for the first time, and the n-th of these places.
Firsts ==
    {i \in 1..Len(stream) : \A j \in 1..(i - 1) : stream[j].event # stream[i].event}
Rank(i) == Cardinality({j \in Firsts : j <= i})
Nth(n) == CHOOSE i \in Firsts : Rank(i) = n
FirstCopies == [n \in 1..Cardinality(Firsts) |-> stream[Nth(n)].event]

Feed == INSTANCE EventFeed
    WITH committed <- [i \in 1..Len(log) |-> log[i].event], feed <- FirstCopies

\* Whatever crashes and errors interrupt the drain, consumers see the commit
\* log: no event skipped, none before its predecessor.
FeedFollowsLog == Feed!Spec

\* In the log with no extension event before it.
Unblocked(e) ==
    \E i \in 1..Len(log) :
        log[i].event = e /\ \A j \in 1..i : log[j].event \notin ExtEvent

\* "Publish every committed-but-unpublished event": under fair scheduling every
\* committed event reaches the stream, however often the process dies and the
\* broker fails on the way, unless an extension event stands before it.
EveryCommitPublished == \A e \in Event : Unblocked(e) ~> e \in Delivered

\* The stream and the watermark tell the truth of the log.
StreamHonest == TypeOK /\ NothingSkipped /\ NoEventForLost
=============================================================================
