------------------------------ MODULE Lifecycle ------------------------------
(***************************************************************************)
(* Which status may follow which.  The development board's transitions are *)
(* the kb:LifecycleState declarations of ontology/kanban.ttl, queried by   *)
(* src/state_model.rs; the research types have ordered lists of states in  *)
(* the configuration, judged by src/state_machine.rs.  Both leave a status *)
(* they do not know alone: such a move is never refused.                   *)
(***************************************************************************)
EXTENDS Naturals, Sequences

TERMINAL_STATES == {"done", "complete", "abandoned", "retired"}

\* Every status a move may name without --force: the union over all boards.
VALID_STATUSES ==
    {"backlog", "in_progress", "review", "done", "blocked", "draft", "active",
     "retired", "complete", "abandoned", "planned", "running", "outline",
     "writing", "captured", "formalized", "planning", "ready", "stale", "refining"}

\* The transition model of the development board.
TransitionsTo ==
    [backlog     |-> {"planning", "ready", "in_progress", "done", "stale"},
     planning    |-> {"ready", "backlog", "done"},
     ready       |-> {"in_progress", "planning", "done"},
     in_progress |-> {"review", "backlog", "planning", "done"},
     review      |-> {"done", "in_progress", "backlog", "planning"},
     done        |-> {"backlog", "in_progress"},
     stale       |-> {"backlog"}]

\* is_legal_transition answers Illegal: both states are known, the edge is not.
IllegalTransition(from, to) ==
    /\ from # to
    /\ {from, to} \subseteq DOMAIN TransitionsTo
    /\ to \notin TransitionsTo[from]

\* The lifecycles of the research types, in order, the terminal states last.
TypeStates ==
    [hypothesis |-> <<"draft", "active", "retired">>,
     measure    |-> <<"draft", "active", "retired">>,
     paper      |-> <<"draft", "outline", "writing", "review", "complete", "abandoned">>,
     experiment |-> <<"planned", "running", "complete", "abandoned">>,
     literature |-> <<"draft", "active", "complete">>,
     idea       |-> <<"captured", "formalized", "abandoned">>]

\* type_transition_verdict answers Illegal: within a type's own lifecycle, a
\* step back from a terminal state.  Any other step within it is legal, and a
\* step that touches a state outside it is not judged.
IllegalForType(type, from, to) ==
    /\ type \in DOMAIN TypeStates
    /\ from \in TERMINAL_STATES
    /\ \E i, j \in DOMAIN TypeStates[type] :
           /\ TypeStates[type][i] = to /\ TypeStates[type][j] = from
           /\ i < j

\* validate_resolution for a resolution that is one of the known values.
ResolutionAllowed(to) == to \in TERMINAL_STATES
=============================================================================
