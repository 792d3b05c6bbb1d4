---------------------------- MODULE MCRelations -----------------------------
\* An expedition that depends on a voyage, a hypothesis that tests
\* a paper, and a proposal that closes the expedition.
EXTENDS Relations

MCId == {"EX", "VY", "H", "PAPER", "PROP"}
MCTypeOf == [EX |-> "expedition", VY |-> "voyage", H |-> NoType, PAPER |-> "paper",
             PROP |-> "proposal"]
MCEmbedded == [names |-> FALLBACK_PREDICATES \cup {"closes"}, entities |-> {"proposal"}]
MCTtl ==
    {MCEmbedded,
     [names |-> FALLBACK_PREDICATES, entities |-> {}],
     [names |-> {"related", "implements", "tests", "closes"}, entities |-> {"proposal"}]}

MCUpdate(id, relate, unrelate, list) ==
    [verb |-> "update", id |-> id, relate |-> relate, unrelate |-> unrelate,
     depends_on |-> list]

MCRequest ==
    {[verb |-> "create", id |-> "EX", relate |-> <<"depends_on", "VY">>, depends_on |-> {}],
     [verb |-> "create", id |-> "EX", relate |-> None, depends_on |-> {"VY"}],
     [verb |-> "create", id |-> "PAPER", relate |-> None, depends_on |-> {}],
     [verb |-> "hdd", id |-> "H", paper |-> "PAPER"],
     [verb |-> "delete", id |-> "EX"]}
    \cup {MCUpdate("EX", <<p, "VY">>, None, Same) : p \in {"dependsOn", "depends_on"}}
    \cup {MCUpdate("EX", None, <<p, "VY">>, Same) : p \in {"dependsOn", "depends_on"}}
    \cup {MCUpdate("EX", None, None, list) : list \in {{}, {"VY"}}}
    \cup {MCUpdate("EX", <<"related", "VY">>, <<"dependsOn", "VY">>, Same),
          MCUpdate("EX", <<"dependsOn", "VY">>, <<"dependsOn", "VY">>, Same),
          MCUpdate("PROP", <<"closes", "EX">>, None, Same),
          MCUpdate("PROP", None, <<"closes", "EX">>, Same),
          MCUpdate("EX", <<"implements", "PAPER">>, None, Same),
          MCUpdate("H", <<"tests", "PAPER">>, None, Same)}
    \cup [verb : {"add", "remove"}, id : {"EX"}, predicate : {"dependsOn", "depends_on"},
          target : {"VY"}]
    \cup [verb : {"remove"}, id : {"H"}, predicate : {"tests"}, target : {"PAPER"}]
=============================================================================
