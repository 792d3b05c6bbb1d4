---------------------------- MODULE CriticalPath ----------------------------
(***************************************************************************)
(* src/critical_path.rs: the schedule computed from the items table.  The  *)
(* sort of compute_critical_path is Kahn's algorithm over hash maps, so    *)
(* the roots enter its queue in any order; trace_longest_path then walks   *)
(* back from a deepest item.  What is derived from the sort's result is    *)
(* written as operators.                                                   *)
(*                                                                         *)
(* An item is its row in the table; 0 is the id of no live row.  The rank, *)
(* the priority (its priority_rank) and the capabilities its tags require  *)
(* are the fields the orderings and the routing read.                      *)
(***************************************************************************)
EXTENDS Integers, FiniteSetsExt, SequencesExt, Lifecycle

CONSTANTS
    Tables,      \* the live rows a schedule may be asked of
    None         \* no manual rank

VARIABLES
    items,       \* the table: a sequence of rows
    in_degree,   \* unmet dependencies left, per active item
    queue,       \* items whose dependencies are all ordered
    ordered,     \* the topological order so far
    depth,       \* the depths found so far
    path,        \* the longest path, grown from its end
    pc

vars == <<items, in_degree, queue, ordered, depth, path, pc>>

Rows == DOMAIN items

\* A dependency on a finished item is met.  (abandoned is not among these.)
FINISHED == {"done", "complete", "retired"}
Done(i) == items[i].status \in FINISHED
Active == {i \in Rows : ~Done(i)}

\* The entries of depends_on that name an active item, with their duplicates.
ActiveDeps(i) == SelectSeq(items[i].depends_on, LAMBDA d : d \in Active)

\* adj: the items that wait on node, and how often each of them names it.
Dependents(node) == {i \in Active : Contains(ActiveDeps(i), node)}
Copies(i, node) == Len(SelectSeq(ActiveDeps(i), LAMBDA d : d = node))

\* The assignee extract_items gives an item that nobody is assigned.
NoAgent == "-"

\* Items in the order of the table.
InTableOrder(S) == SetToSortSeq(S, <)
-----------------------------------------------------------------------------
Init ==
    /\ items \in Tables
    /\ in_degree = [i \in Active |-> Len(ActiveDeps(i))]
    /\ queue \in SetToSeqs({i \in Active : in_degree[i] = 0})
    /\ ordered = <<>>
    /\ depth = [i \in ToSet(queue) |-> 0]
    /\ path = <<>>
    /\ pc = "sort"

\* A bug: a dependent keeps the depth it was first given.
Deeper_FirstWins(old, new) == IF old = 0 THEN new ELSE old
\* The depth a dependent keeps when one more of its dependencies is ordered.
Deeper(old, new) == IF new > old THEN new ELSE old

\* The dependency just ordered was the item's last.
Freed(i, left) == left = 0

\* One turn of the loop: the dependents of the head lose a dependency each time
\* they name it, and those that lose their last join the queue.
Pop ==
    /\ pc = "sort" /\ queue # <<>>
    /\ LET node == Head(queue)
           Left(i) == in_degree[i] - Copies(i, node)
           At(i) == IF i \in DOMAIN depth THEN depth[i] ELSE 0
       IN  /\ ordered' = Append(ordered, node)
           /\ depth' = [i \in DOMAIN depth \cup Dependents(node) |->
                            IF i \in Dependents(node)
                            THEN Deeper(At(i), depth[node] + 1) ELSE depth[i]]
           /\ in_degree' = [i \in Active |-> Left(i)]
           /\ queue' = Tail(queue) \o
                       InTableOrder({i \in Dependents(node) : Freed(i, Left(i))})
    /\ UNCHANGED <<items, path, pc>>

\* Some active items never became free.
Stuck == Len(ordered) < Cardinality(Active)

\* The items the error names.
InCycle == Active \ ToSet(ordered)

\* The analysis fails: "Dependency cycle detected among".
ReportCycle ==
    /\ pc = "sort" /\ queue = <<>> /\ Stuck
    /\ pc' = "cycle"
    /\ UNCHANGED <<items, in_degree, queue, ordered, depth, path>>

MaxDepth == Max({0} \cup {depth[i] : i \in DOMAIN depth})

\* trace_longest_path starts at the first deepest item of the order.
StartTrace ==
    /\ pc = "sort" /\ queue = <<>> /\ ~Stuck
    /\ IF MaxDepth = 0
       THEN pc' = "done" /\ path' = <<>>
       ELSE /\ pc' = "trace"
            /\ path' = <<SelectSeq(ordered, LAMBDA i : depth[i] = MaxDepth)[1]>>
    /\ UNCHANGED <<items, in_degree, queue, ordered, depth>>

\* max_by_key: the deepest of the dependencies, the last listed of equals.
Deepest(deps) ==
    Last(SelectSeq(deps, LAMBDA d : \A e \in ToSet(deps) : depth[e] <= depth[d]))

Trace ==
    /\ pc = "trace"
    /\ LET deps == ActiveDeps(Head(path))
       IN  IF deps = <<>>
           THEN pc' = "done" /\ path' = path
           ELSE pc' = pc /\ path' = <<Deepest(deps)>> \o path
    /\ UNCHANGED <<items, in_degree, queue, ordered, depth>>

Finished == pc \in {"cycle", "done"} /\ UNCHANGED vars

Next == Pop \/ ReportCycle \/ StartTrace \/ Trace \/ Finished

Spec == Init /\ [][Next]_vars
-----------------------------------------------------------------------------
\* sort_key: ranked items first, by rank; then the priority.
SortKey(i) ==
    IF items[i].rank = None THEN <<1, 0, items[i].priority>>
    ELSE <<0, items[i].rank, items[i].priority>>

LexLess(k, l) ==
    \E n \in DOMAIN k : k[n] < l[n] /\ \A m \in 1..(n - 1) : k[m] = l[m]

\* A stable sort of rows by a key.
SortedBy(S, Key(_)) ==
    SetToSortSeq(S, LAMBDA i, j : \/ LexLess(Key(i), Key(j))
                                  \/ Key(i) = Key(j) /\ i < j)

\* downstream_count: the sets reachable from each item, built from the end of
\* the order, each from the finished sets of its dependents.
Downstream ==
    LET Extend(i, set) ==
            [set EXCEPT ![i] = UNION {{d} \cup set[d] : d \in Dependents(i)}]
        sets == FoldRight(Extend, ordered, [i \in Active |-> {}])
    IN  [i \in Active |-> Cardinality(sets[i])]

\* An active dependency is unmet; one that is not in the table is not.
HasUnmet(i) == \E d \in ToSet(items[i].depends_on) : d \in Active
Ready == SortedBy({i \in Active : ~HasUnmet(i)}, SortKey)
Blocked == InTableOrder({i \in Active : HasUnmet(i)})
-----------------------------------------------------------------------------
\* The items on a dependency cycle or behind one, by definition: those that can
\* never be the next of an order.  Waits(i, j): i waits on j through any chain.
RECURSIVE WaitsIn(_, _, _)
WaitsIn(n, i, j) ==
    \/ Contains(ActiveDeps(i), j)
    \/ n > 0 /\ \E k \in ToSet(ActiveDeps(i)) : WaitsIn(n - 1, k, j)
Waits(i, j) == WaitsIn(Len(items), i, j)
OnCycle == {i \in Active : Waits(i, i)}

\* The chains of active items that end at i, each waiting on the one before it.
IsChain(c) == \A k \in 1..(Len(c) - 1) : Contains(ActiveDeps(c[k + 1]), c[k])
ChainsTo(i) ==
    {c \in UNION {[1..n -> Active] : n \in 1..Len(items)} : Last(c) = i /\ IsChain(c)}
LongestTo(i) == Max({Len(c) - 1 : c \in ChainsTo(i)})
-----------------------------------------------------------------------------
\* The loop stays within the active items.
TypeOK ==
    /\ pc \in {"sort", "trace", "cycle", "done"}
    /\ ToSet(queue) \cup ToSet(ordered) \cup ToSet(path) \subseteq Active
    /\ in_degree \in [Active -> 0..MapThenSumSet(LAMBDA i : Len(items[i].depends_on), Rows)]
    /\ DOMAIN depth \subseteq Active
    /\ IsInjective(ordered \o queue)

\* An item is ordered after everything it waits on, whatever order the roots
\* came in and however often a dependency is listed.
DependenciesFirst ==
    \A k \in DOMAIN ordered :
        ToSet(ActiveDeps(ordered[k])) \subseteq {ordered[m] : m \in 1..(k - 1)}

\* The depth of an item is final once the item is ordered: it is the length of
\* the longest chain of unmet dependencies behind it.
DepthIsLongestChain == \A i \in ToSet(ordered) : depth[i] = LongestTo(i)

\* The analysis fails exactly when some active items wait on themselves, and the
\* error names those and the items that wait on them.
CycleVerdict ==
    /\ pc = "cycle" => /\ OnCycle # {}
                       /\ InCycle = {i \in Active : \E c \in OnCycle : i = c \/ Waits(i, c)}
    /\ pc \in {"trace", "done"} => OnCycle = {}

\* The critical path is a chain from an item that can start now to a deepest one.
PathIsCritical ==
    /\ path # <<>> => IsChain(path) /\ depth[Last(path)] = MaxDepth
    /\ pc = "done" => Len(path) = IF MaxDepth = 0 THEN 0 ELSE MaxDepth + 1

\* The bottleneck figure counts every item that waits, once.
DownstreamExact ==
    pc = "done" =>
        \A i \in Active : Downstream[i] = Cardinality({j \in Active : Waits(j, i)})
=============================================================================
