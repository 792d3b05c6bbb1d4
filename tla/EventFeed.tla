------------------------------ MODULE EventFeed ------------------------------
(***************************************************************************)
(* What the outbox promises the consumers of KANBAN_EVENTS (the comment of *)
(* drain_outbox in server/src/main.rs): the events of the commit log, each *)
(* for the first time in commit order, none skipped and none invented.     *)
(* A second copy of an event already delivered changes nothing here.       *)
(***************************************************************************)
EXTENDS Integers, Sequences

CONSTANT Event

VARIABLES
    committed,  \* the events of the log, in commit order
    feed        \* the events delivered, in the order of their first delivery

feedVars == <<committed, feed>>

Init == committed = <<>> /\ feed = <<>>

Commit(e) ==
    /\ \A i \in 1..Len(committed) : committed[i] # e
    /\ committed' = Append(committed, e)
    /\ UNCHANGED feed

Deliver ==
    /\ Len(feed) < Len(committed)
    /\ feed' = Append(feed, committed[Len(feed) + 1])
    /\ UNCHANGED committed

Next == Deliver \/ \E e \in Event : Commit(e)

Spec == Init /\ [][Next]_feedVars
=============================================================================
