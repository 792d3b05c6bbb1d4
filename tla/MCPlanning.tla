----------------------------- MODULE MCPlanning -----------------------------
\* Every graph of three items, the statuses and views of smaller ones, diamonds
\* of four, voyages with their typed memberships, and worklists.
EXTENDS Planning

MCItem(type, status, deps) ==
    [type |-> type, status |-> status, assignee |-> "-", depends_on |-> deps,
     related |-> <<>>, implements |-> {}, spawns |-> {}, rank |-> None,
     priority |-> 99, needs |-> {}]

\* The dependency lists of a row among n: none, one, or two, a duplicate or the
\* missing id 0 included.
MCDeps(n) == {<<>>} \cup {<<d>> : d \in 0..n} \cup {<<d, e>> : d, e \in 1..n}

MCGraphs ==
    [1..3 -> {MCItem("chore", "backlog", deps) : deps \in MCDeps(3)}]

MCStatuses ==
    [1..3 -> {MCItem("chore", s, deps) :
        s \in {"backlog", "done", "retired", "abandoned"}, deps \in {<<>>, <<0>>, <<1>>, <<2>>}}]

\* Four rows, each waiting on any of the rows after it, or each on any before it.
MCDiamonds ==
    {t \in [1..4 -> {MCItem("chore", "backlog", SetToSortSeq(S, <)) : S \in SUBSET (1..4)}] :
        \/ \A i \in 1..4 : \A d \in ToSet(t[i].depends_on) : d > i
        \/ \A i \in 1..4 : \A d \in ToSet(t[i].depends_on) : d < i}

MCWork ==
    [1..2 -> {[MCItem("chore", s, deps) EXCEPT !.assignee = a, !.rank = r, !.needs = c] :
        s \in {"backlog", "in_progress"}, deps \in {<<>>, <<1>>}, a \in {"-", "ann", "bob"},
        r \in {None, 1}, c \in {{}, {"gpu"}}}]

\* A voyage, a child of it or not, and an expedition linked by any of its edges.
MCVoyages ==
    {<<[MCItem("voyage", sv, <<>>) EXCEPT !.spawns = sp],
       [MCItem(t, s2, <<>>) EXCEPT !.related = r2],
       [MCItem("expedition", s3, <<2>>) EXCEPT !.related = r3, !.implements = imp]>> :
        sv \in {"in_progress", "complete", "retired"}, sp \in {{}, {3}},
        t \in {"chore", "voyage"}, s2 \in {"backlog", "done"}, r2 \in {<<>>, <<1>>},
        s3 \in {"backlog", "complete", "abandoned"}, r3 \in {<<>>, <<1>>, <<2, 1>>},
        imp \in SUBSET {1, 2}}

MCTables == MCGraphs \cup MCStatuses \cup MCDiamonds \cup MCWork \cup MCVoyages

MCAsks ==
    {[agents |-> a, provides |-> p, depth |-> d] :
        a \in {{}, {"ann", "bob"}}, d \in {0, 1, 2, 4},
        p \in {<<>>, [x \in {"ann"} |-> {"gpu"}]}}
=============================================================================
