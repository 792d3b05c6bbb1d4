------------------------------- MODULE MCBoard -------------------------------
\* The requests of a small board: item 1 is worked on by two agents; item 2, when
\* there is one, is ratified, ranked, commented and deleted.
EXTENDS Board, TLC

MCMove(to, a, force, res, by) ==
    [verb |-> "move", id |-> 1, to |-> to, assignee |-> a, force |-> force,
     reason |-> None, resolution |-> res, closed_by |-> by]

MCCreate(type, tags) ==
    [verb |-> "create", type |-> type, assignee |-> NoAgent,
     body |-> CHOOSE b \in Body : TRUE, tags |-> tags]

MCMoves ==
    {MCMove(to, NoAgent, FALSE, None, None) :
        to \in {"backlog", "in_progress", "complete", "running", "typo"}}
    \cup {MCMove("in_progress", a, FALSE, None, None) : a \in Agent}
    \cup {MCMove("done", NoAgent, FALSE, "completed", "PROP"),
          MCMove("backlog", NoAgent, TRUE, "completed", None)}
    \cup {MCMove("in_progress", a, TRUE, None, None) : a \in Agent}

MCUpdate(assignee, tags, body) ==
    [verb |-> "update", id |-> 1, assignee |-> assignee, tags |-> tags, body |-> body]

MCRequest ==
    {MCCreate("voyage", {PHASE, PENDING}), MCCreate("experiment", {})}
    \cup MCMoves
    \cup [verb : {"claim"}, id : {1}, agent : Agent]
    \cup [verb : {"bounce"}, id : {1}]
    \cup [verb : {"requeue"}, id : {1}, cap : {2}]
    \cup {MCUpdate(Same, Same, b) : b \in Body}
    \cup {MCUpdate(a, Same, Same) : a \in Agent}
    \cup {MCUpdate(Same, {PHASE, PENDING}, Same)}
    \cup [verb : {"delete"}, id : Id]
    \cup [verb : {"comment"}, id : {2}]
    \cup [verb : {"rank"}, id : {2}, rank : {"first"}]
    \cup {[verb |-> "ratify"]}

MCSymmetry == Permutations(Agent)
=============================================================================
