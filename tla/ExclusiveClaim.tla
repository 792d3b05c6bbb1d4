---------------------------- MODULE ExclusiveClaim ----------------------------
(***************************************************************************)
(* What the board promises the agents that claim its items (the comments   *)
(* of check_exclusive_claim and handle_claim_typed in                      *)
(* server/src/handlers/core.rs), with no table, request or column in       *)
(* sight: an item under way that one agent was told is its own goes to     *)
(* another only after the first was relieved of it.                        *)
(***************************************************************************)
CONSTANTS Work, Agent, Nobody

VARIABLES
    holder,     \* per item: the agent that was told it is its own, or Nobody
    underway    \* per item: whether it is in progress

claimVars == <<holder, underway>>

Init ==
    /\ holder = [i \in Work |-> Nobody]
    /\ underway = [i \in Work |-> FALSE]

\* An agent is told the item is its own, and works on it.
Take(i, a) ==
    /\ holder[i] \in {Nobody, a} \/ ~underway[i]
    /\ holder' = [holder EXCEPT ![i] = a]
    /\ underway' = [underway EXCEPT ![i] = TRUE]

\* The item is taken from its holder: bounced, requeued, reassigned or deleted.
Relieve(i) ==
    /\ holder' = [holder EXCEPT ![i] = Nobody]
    /\ \E u \in BOOLEAN : underway' = [underway EXCEPT ![i] = u]

\* Items change their status, and keep their holders.
Progress ==
    /\ underway' \in [Work -> BOOLEAN]
    /\ UNCHANGED holder

Next ==
    \/ \E i \in Work : Relieve(i) \/ \E a \in Agent : Take(i, a)
    \/ Progress

Spec == Init /\ [][Next]_claimVars
=============================================================================
