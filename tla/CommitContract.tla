--------------------------- MODULE CommitContract ---------------------------
(***************************************************************************)
(* What StorageBackend::commit promises its callers (the trait comment in  *)
(* server/src/storage.rs), with no file, table or phase in sight: a write  *)
(* enters the committed history at one instant, at the end and for good;   *)
(* an answer "committed" is given only for a write that is in it and an    *)
(* answer "not durable" only for one that is not and never will be; a      *)
(* crash may leave the one write under way in or out, unanswered.          *)
(***************************************************************************)
EXTENDS Integers, Sequences

CONSTANT Write

VARIABLES
    history,    \* the committed writes, in seq order
    outcome     \* what each write's client was told

contractVars == <<history, outcome>>

InHistory(w) == \E i \in 1..Len(history) : history[i] = w

Init ==
    /\ history = <<>>
    /\ outcome = [w \in Write |-> "unsent"]

\* A write is handed to the engine; one at a time.
Submit(w) ==
    /\ outcome[w] = "unsent"
    /\ \A v \in Write : outcome[v] # "pending"
    /\ outcome' = [outcome EXCEPT ![w] = "pending"]
    /\ UNCHANGED history

\* Turned away before it is applied.
TurnAway(w) ==
    /\ outcome[w] = "unsent"
    /\ outcome' = [outcome EXCEPT ![w] = "refused"]
    /\ UNCHANGED history

Commit(w) ==
    /\ outcome[w] = "pending" /\ ~InHistory(w)
    /\ history' = Append(history, w)
    /\ UNCHANGED outcome

Acknowledge(w) ==
    /\ outcome[w] = "pending" /\ InHistory(w)
    /\ outcome' = [outcome EXCEPT ![w] = "acked"]
    /\ UNCHANGED history

ReportLost(w) ==
    /\ outcome[w] = "pending" /\ ~InHistory(w)
    /\ outcome' = [outcome EXCEPT ![w] = "lost"]
    /\ UNCHANGED history

\* A crash leaves the write unanswered, committed or not.
Abandon(w) ==
    /\ outcome[w] = "pending"
    /\ outcome' = [outcome EXCEPT ![w] = "unknown"]
    /\ \/ UNCHANGED history
       \/ ~InHistory(w) /\ history' = Append(history, w)

Next ==
    \E w \in Write :
        \/ Submit(w) \/ TurnAway(w) \/ Commit(w)
        \/ Acknowledge(w) \/ ReportLost(w) \/ Abandon(w)

Spec == Init /\ [][Next]_contractVars
=============================================================================
