------------------------------ MODULE Planning ------------------------------
(***************************************************************************)
(* The views built on a finished schedule: the roadmap's voyages and the   *)
(* campaign's progress, the worklist offered to agents, and the blocked    *)
(* listings of the server and of the local command line, which judge a     *)
(* dependency by rules of their own.                                       *)
(***************************************************************************)
EXTENDS CriticalPath

CONSTANT Asks     \* worklist requests: [agents, provides, depth]

Voyages == {v \in Rows : items[v].type = "voyage"}

\* The voyages an item's typed edges name, in either direction of the inverse pair.
TypedVoyages(i) == {v \in Voyages : v \in items[i].implements \/ i \in items[v].spawns}

\* fold_typed_voyage_memberships: what `related` holds once the edges are folded in.
Related(i) == items[i].related \o SetToSeq(TypedVoyages(i) \ ToSet(items[i].related))

\* The children of a voyage, as often as they name it.
Children(v) ==
    LET Entries(i) == SelectSeq(Related(i), LAMBDA r : r = v)
    IN  FlattenSeq([i \in Rows |->
            IF i \in Voyages THEN <<>> ELSE [n \in DOMAIN Entries(i) |-> i]])

DoneCount(v) == Len(SelectSeq(Children(v), LAMBDA i : Done(i)))

\* group_by_voyage leaves out a finished voyage with no active child.
Hidden(v) ==
    /\ items[v].status \in {"done", "complete"}
    /\ DoneCount(v) = Len(Children(v))

Groups == {v \in Voyages : ~Hidden(v)}
Orphans == {i \in Active \ Voyages : ToSet(Related(i)) \cap Voyages = {}}

\* A bug: the campaign is summed over the groups the roadmap shows.
Members_Shown(members) == members \cap Groups
\* The member voyages that exist as items, finished ones included.
Members(members) == members \cap Voyages

\* campaign_aggregate: the expeditions of the member voyages, and those done.
Expeditions(members) ==
    {i \in Rows : /\ items[i].type = "expedition"
                  /\ ToSet(Related(i)) \cap Members(members) # {}}
-----------------------------------------------------------------------------
\* agent_can_take: no policy at all routes everything to everyone.
AgentCanTake(i, agent, provides) ==
    \/ DOMAIN provides = {}
    \/ items[i].needs = {}
    \/ agent \in DOMAIN provides /\ items[i].needs \subseteq provides[agent]

\* agents_from_items, for a request that names no agent.  It leaves out an assignee
\* named "unassigned", but not the NoAgent of the rows that have none.
Roster == {items[i].assignee : i \in Rows} \ {"unassigned"}
AgentsOf(ask) == IF ask.agents = {} THEN Roster ELSE ask.agents

\* The one in-progress item a worklist shows an agent: of several, the last row.
Current(agent) ==
    LET own == {i \in Rows : /\ items[i].status = "in_progress"
                             /\ items[i].assignee = agent /\ agent # NoAgent}
    IN  IF own = {} THEN <<>> ELSE <<Max(own)>>

\* The filter both the ready and the blocked items go through.
Suits(i, agent, provides) ==
    /\ items[i].status = "backlog"
    /\ items[i].assignee \in {NoAgent, agent}
    /\ AgentCanTake(i, agent, provides)

\* The ready items an agent may be offered: its own first, then by sort_key,
\* then those that hold up most, then in the order of the ready list.
Available(agent, provides) ==
    LET downstream == Downstream
        Key(i) == <<IF items[i].assignee = agent THEN 0 ELSE 1>>
                      \o SortKey(i) \o <<-downstream[i]>>
    IN  SortedBy({i \in Active : ~HasUnmet(i) /\ Suits(i, agent, provides)}, Key)

\* What is left of the depth after a list is filled with up to that many entries.
Take(list, room) == SubSeq(list, 1, IF room > Len(list) THEN Len(list) ELSE room)

Room(ask, shown) == IF Len(shown) >= ask.depth THEN 0 ELSE ask.depth - Len(shown)

\* generate_worklist for one agent: current work, ready items, then blocked ones.
Worklist(ask, agent) ==
    LET List(ids, blocked) == [n \in DOMAIN ids |-> [id |-> ids[n], blocked |-> blocked]]
        current == List(Current(agent), FALSE)
        ready == current
                 \o List(Take(Available(agent, ask.provides), Room(ask, current)), FALSE)
        waiting == SelectSeq(Blocked, LAMBDA i : Suits(i, agent, ask.provides))
    IN  ready \o List(Take(waiting, Room(ask, ready)), TRUE)
-----------------------------------------------------------------------------
\* A bug: only done satisfies a dependency.
Satisfies_Done(d) == d \in Rows /\ items[d].status = "done"
\* handle_blocked: a dependency is satisfied by a live item in any terminal state.
\* (An empty dependency is one to nobody, here, in `--ready` and on the local
\* command line: the items of this module have none.)
Satisfies(d) == d \in Rows /\ items[d].status \in TERMINAL_STATES

BlockedView ==
    {i \in Rows : /\ items[i].status \notin TERMINAL_STATES
                  /\ \E d \in ToSet(items[i].depends_on) : ~Satisfies(d)}

\* find_blocked_items of the local command line: any dependency of the chain,
\* finished items' included, that is not `done`.  (Chains of more than 100, where
\* the code stops, are beyond this module.)
ReachesFrom(i) ==
    LET Grow(seen, n) ==
            seen \cup UNION {ToSet(items[k].depends_on) : k \in (seen \cup {i}) \cap Rows}
    IN  FoldLeft(Grow, {}, [n \in 1..(Len(items) + 1) |-> n]) \ {i}

LocalUnmet(d) == d \notin Rows \/ items[d].status # "done"

LocalBlockedView ==
    {i \in Rows : items[i].status # "done" /\ \E d \in ReachesFrom(i) : LocalUnmet(d)}
-----------------------------------------------------------------------------
\* Every active item is on the roadmap, under a voyage it shows or ungrouped.
RoadmapComplete ==
    pc = "done" => \A i \in Active \ Voyages :
        (\E v \in Groups : Contains(Children(v), i)) # (i \in Orphans)

\* A membership linked both by the flat column and by a typed edge, or by both
\* directions of the edge, is counted once.
ChildrenCountedOnce ==
    pc = "done" =>
        \A v \in Voyages :
            (\A i \in Rows : IsInjective(items[i].related)) => IsInjective(Children(v))

\* A member voyage that finishes takes nothing out of its campaign's figures: all
\* expeditions linked to a member are counted, those of hidden voyages included.
CampaignKeepsFinished ==
    pc = "done" =>
        \A v \in Voyages, i \in Rows :
            (items[i].type = "expedition" /\ (v \in ToSet(items[i].related) \cup
                items[i].implements \/ i \in items[v].spawns))
            => i \in Expeditions({v})

\* A worklist lists an item once, within the depth (its current work apart), and
\* nothing assigned to someone else or waiting on unfinished work unmarked.
WorklistHonest ==
    pc = "done" =>
        \A ask \in Asks : \A agent \in AgentsOf(ask) :
            LET list == Worklist(ask, agent)
            IN  /\ Len(list) <= Max({ask.depth, 1})
                /\ \A m, n \in DOMAIN list : list[m].id = list[n].id => m = n
                /\ \A n \in DOMAIN list :
                       /\ items[list[n].id].assignee \in {NoAgent, agent}
                       /\ ~list[n].blocked =>
                              \/ items[list[n].id].status = "in_progress"
                              \/ \A d \in ToSet(items[list[n].id].depends_on) :
                                     d \notin Active

\* With room enough, an item that is ready and unassigned is offered to someone:
\* unless policy was declared and no agent asked for provides what it requires.
NothingStarves ==
    pc = "done" =>
        \A ask \in Asks : \A i \in Active :
            /\ items[i].status = "backlog" /\ items[i].assignee = NoAgent
            /\ ~HasUnmet(i) /\ ask.depth > Len(items)
            /\ DOMAIN ask.provides = {} \/ \E a \in DOMAIN ask.provides \cap AgentsOf(ask) :
                                               items[i].needs \subseteq ask.provides[a]
            => \E a \in AgentsOf(ask) : \E n \in DOMAIN Worklist(ask, a) :
                   Worklist(ask, a)[n].id = i

\* The server's two answers agree: an unfinished item is either ready or blocked.
\* They part only over a dependency that is deleted (ready and blocked at once)
\* or abandoned (neither).
ViewsAgree ==
    pc = "done" =>
        \A i \in Active :
            \/ items[i].status = "abandoned"
            \/ \E d \in ToSet(items[i].depends_on) :
                   d \notin Rows \/ items[d].status = "abandoned"
            \/ (i \in BlockedView) # ~HasUnmet(i)

\* What the server lists as blocked, the local command line lists too.
LocalListsMore == pc = "done" => BlockedView \subseteq LocalBlockedView

\* What the sort over the graph promises: order, depths, cycles, the critical
\* path and the number of items each one holds up (compute_critical_path).
ScheduleExact ==
    /\ TypeOK
    /\ DependenciesFirst /\ DepthIsLongestChain /\ CycleVerdict
    /\ PathIsCritical /\ DownstreamExact

\* What the roadmap shows of voyages and campaigns is complete and counted once.
RoadmapHonest == RoadmapComplete /\ ChildrenCountedOnce /\ CampaignKeepsFinished

\* What agents are told to do next, ready or blocked, by worklist and by query:
\* the answers agree with the graph and with each other.
AnswersAgree == WorklistHonest /\ NothingStarves /\ ViewsAgree /\ LocalListsMore
=============================================================================
