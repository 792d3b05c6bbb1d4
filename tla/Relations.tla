----------------------------- MODULE Relations ------------------------------
(***************************************************************************)
(* An edge between items has two halves: a row of the relations table, and, *)
(* for related and dependsOn, an entry in a flat list of the source's row,  *)
(* which is what roadmap, critical-path and worklist read.  The handlers    *)
(* (server/src/handlers/core.rs, handlers/relations.rs, src/hdd.rs) write   *)
(* both, the vocabulary (src/relation_vocab.rs) says which edges may be     *)
(* written and which have a flat half, and replay (server/src/events.rs)    *)
(* writes both again after a crash between the saves of the two tables.     *)
(***************************************************************************)
EXTENDS Naturals, FiniteSets, Bags

CONSTANTS
    Id,         \* items and other entities an edge may name
    TypeOf,     \* type_from_id: the type the prefix of an id gives away
    NoType,     \* a prefix no class declares, as that of H131.1
    None,       \* no edge in this field of a request
    Same,       \* a list an update leaves alone
    Request,    \* the requests clients send
    Ttl,        \* the vocabularies an operator may send
    Embedded,   \* the vocabulary compiled into the server
    RELOAD_BUDGET, \* effective reloads one process allows
    MaxCopies   \* bound: rows of one edge

\* Edges may be named by an alias; only relation.add keeps the alias.
Canonical ==
    [related |-> "related", dependsOn |-> "dependsOn", depends_on |-> "dependsOn",
     implements |-> "implements", tests |-> "tests", closes |-> "closes", typo |-> "typo"]
Spelling == DOMAIN Canonical

FALLBACK_PREDICATES == {"related", "dependsOn", "implements", "tests"}
Projecting == {"related", "dependsOn"}

Vocabulary == [names : SUBSET {Canonical[p] : p \in Spelling}, entities : SUBSET {"proposal"}]

ASSUME RelationsAssumption ==
    /\ TypeOf \in [Id -> {"expedition", "voyage", "paper", "proposal", NoType}]
    /\ Ttl \subseteq Vocabulary /\ Embedded \in Ttl
    /\ FALLBACK_PREDICATES \subseteq Embedded.names
    /\ RELOAD_BUDGET \in Nat /\ MaxCopies \in Nat

\* What the request types can hold.  No create makes a proposal: it is an entity
\* class and not an ItemType.
ASSUME RequestAssumption ==
    /\ None \notin Spelling \X Id
    /\ \A r \in Request :
        /\ r.verb \in {"create", "hdd", "update", "add", "remove", "delete"} /\ r.id \in Id
        /\ r.verb \in {"create", "hdd"} => TypeOf[r.id] # "proposal"
        /\ r.verb = "create" =>
            r.relate \in (Spelling \X Id) \cup {None} /\ r.depends_on \in SUBSET Id
        /\ r.verb = "hdd" => r.paper \in Id
        /\ r.verb = "update" =>
            /\ {r.relate, r.unrelate} \subseteq (Spelling \X Id) \cup {None}
            /\ r.depends_on = Same \/ r.depends_on \subseteq Id
        /\ r.verb \in {"add", "remove"} => r.predicate \in Spelling /\ r.target \in Id

VARIABLES
    tables,     \* per id its row's status and flat lists; the bag of live edge rows
    vocab,      \* the vocabulary of the running process
    reloads,    \* effective reloads of this process
    reported,   \* history: edges a client was told are there, no removal named since
    projected,  \* history: those told by a verb that writes the flat half, still listed
    listed,     \* history: flat entries that a list of a request put there, not an edge
    cut         \* history: those of the edge of a create that a crash cut in two

vars == <<tables, vocab, reloads, reported, projected, listed, cut>>

Edge == Id \X Spelling \X Id
Flat == Projecting \X Id

Live(t, id) == t.status[id] = "live"
HasRelation(t, e) == BagIn(e, t.edges)
Copies(t, e) == IF HasRelation(t, e) THEN t.edges[e] ELSE 0
AddRelation(t, e) == [t EXCEPT !.edges = @ (+) SetToBag({e})]
RemoveRelation(t, e) == [t EXCEPT !.edges = @ (-) SetToBag({e})]

-----------------------------------------------------------------------------
(* The vocabulary *)

\* The predicate a spelling stands for, if the vocabulary has it.
Lookup(v, p) == {Canonical[p]} \cap v.names

\* flat_column_for: the flat list a predicate has an entry in, if any.
FlatColumn(v, p) == Lookup(v, p) \cap Projecting

\* The types a predicate may start from and point at; any, for the others.
DomainOf == [implements |-> {"expedition"}, tests |-> {"hypothesis"}, closes |-> {"proposal"}]
RangeOf == [implements |-> {"voyage"}, tests |-> {"paper"}]

\* validate_edge: a target whose type is not known is let through, a source is not.
ValidEdge(v, type, p, target) ==
    /\ Lookup(v, p) # {}
    /\ Canonical[p] \in DOMAIN DomainOf => type \in DomainOf[Canonical[p]]
    /\ (Canonical[p] \in DOMAIN RangeOf /\ TypeOf[target] # NoType) =>
           TypeOf[target] \in RangeOf[Canonical[p]]

\* A subject without a row that the ontology declares as an entity class.
Entity(v, id) == TypeOf[id] \in v.entities

BelowFloor(ttl) == ~(FALLBACK_PREDICATES \subseteq ttl.names)

Exhausted(n) == n >= RELOAD_BUDGET

-----------------------------------------------------------------------------
(* The two halves of an edge *)

\* The entries a typed edge has in the flat lists.
FlatOf(v, p, target) == FlatColumn(v, p) \X {target}

\* A bug: an edge added by an edit is not projected.
AddFlat_Never(t, v, id, p, target) == t

AddFlat(t, v, id, p, target) ==
    IF Live(t, id) THEN [t EXCEPT !.flat[id] = @ \cup FlatOf(v, p, target)] ELSE t

DropFlat(t, v, id, p, target) ==
    IF Live(t, id) THEN [t EXCEPT !.flat[id] = @ \ FlatOf(v, p, target)] ELSE t

NewRow(t, id, flat) ==
    [status |-> [t.status EXCEPT ![id] = "live"], edges |-> t.edges,
     flat |-> [t.flat EXCEPT ![id] = flat]]

\* --depends-on and --related of an update replace the list.
ListOf(col, targets) == {col} \X targets
Replaced(t, id, targets) ==
    IF targets = Same THEN t
    ELSE [t EXCEPT !.flat[id] = {f \in @ : f[1] # "dependsOn"} \cup ListOf("dependsOn", targets)]

-----------------------------------------------------------------------------
(* The handlers *)

CreateRefused(t, v, r) ==
    \/ t.status[r.id] # "none"
    \/ r.relate # None /\ ~ValidEdge(v, TypeOf[r.id], r.relate[1], r.relate[2])

Created(t, v, r) ==
    IF r.relate = None THEN NewRow(t, r.id, ListOf("dependsOn", r.depends_on))
    ELSE AddRelation(NewRow(t, r.id, ListOf("dependsOn", r.depends_on)
                                     \cup FlatOf(v, r.relate[1], r.relate[2])),
                     <<r.id, Canonical[r.relate[1]], r.relate[2]>>)

\* create_hypothesis: the paper must be there; the new row lists it as related
\* and a tests edge leads to it.
HddRefused(t, r) == t.status[r.id] # "none" \/ ~Live(t, r.paper)
HddCreated(t, r) ==
    AddRelation(NewRow(t, r.id, ListOf("related", {r.paper})), <<r.id, "tests", r.paper>>)

UpdateRefused(t, v, r) ==
    \/ ~Live(t, r.id) /\ (~Entity(v, r.id) \/ r.depends_on # Same)
    \/ \E spec \in {r.relate, r.unrelate} \ {None} :
           spec[2] = r.id \/ ~ValidEdge(v, TypeOf[r.id], spec[1], spec[2])

\* The list, then the edge to add, then the edge to remove; the halves of the
\* latter are removed independently of each other.
Updated(t, v, r) ==
    LET a == Replaced(t, r.id, r.depends_on)
        b == IF r.relate = None THEN a
             ELSE AddFlat(AddRelation(a, <<r.id, Canonical[r.relate[1]], r.relate[2]>>),
                          v, r.id, r.relate[1], r.relate[2])
    IN  IF r.unrelate = None THEN b
        ELSE DropFlat(RemoveRelation(b, <<r.id, Canonical[r.unrelate[1]], r.unrelate[2]>>),
                      v, r.id, r.unrelate[1], r.unrelate[2])

\* relation.add writes the row as it is given, and the row only.
Triple(r) == <<r.id, r.predicate, r.target>>
Added(t, r) == AddRelation(t, Triple(r))

\* relation.remove takes the row and the projection.
Removed(t, v, r) == DropFlat(RemoveRelation(t, Triple(r)), v, r.id, r.predicate, r.target)

Deleted(t, r) == [t EXCEPT !.status[r.id] = "deleted"]

Refused(t, v, r) ==
    \/ r.verb = "create" /\ CreateRefused(t, v, r)
    \/ r.verb = "hdd" /\ HddRefused(t, r)
    \/ r.verb = "update" /\ UpdateRefused(t, v, r)
    \/ r.verb = "remove" /\ ~HasRelation(t, Triple(r))
    \/ r.verb = "delete" /\ ~Live(t, r.id)

Handled(t, v, r) ==
    CASE r.verb = "create" -> Created(t, v, r)
      [] r.verb = "hdd"    -> HddCreated(t, r)
      [] r.verb = "update" -> Updated(t, v, r)
      [] r.verb = "add"    -> Added(t, r)
      [] r.verb = "remove" -> Removed(t, v, r)
      [] r.verb = "delete" -> Deleted(t, r)

-----------------------------------------------------------------------------
(* Replay: the event of a create has the edge it recorded, that of an update  *)
(* the specs as they were spelled, that of an hdd create no edge at all.      *)

AddOnce(t, e) == IF HasRelation(t, e) THEN t ELSE AddRelation(t, e)

\* A bug: replay deletes the row and leaves the projection.
ReplayRemove_RowOnly(t, v, r) == RemoveRelation(t, Triple(r))

\* The projection is taken away whether or not the row is still there.
ReplayRemove(t, v, r) == Removed(t, v, r)

ReplayUpdate(t, v, r) ==
    LET a == IF Live(t, r.id) THEN Replaced(t, r.id, r.depends_on) ELSE t
        b == IF r.relate = None THEN a
             ELSE AddFlat(AddOnce(a, <<r.id, r.relate[1], r.relate[2]>>),
                          v, r.id, r.relate[1], r.relate[2])
    IN  IF r.unrelate = None THEN b
        ELSE DropFlat(RemoveRelation(b, <<r.id, r.unrelate[1], r.unrelate[2]>>),
                      v, r.id, r.unrelate[1], r.unrelate[2])

Replay(t, v, r) ==
    CASE r.verb = "create" -> IF Live(t, r.id) THEN t ELSE Created(t, v, r)
      [] r.verb = "hdd"    -> IF Live(t, r.id) THEN t ELSE NewRow(t, r.id, {})
      [] r.verb = "update" -> ReplayUpdate(t, v, r)
      [] r.verb = "add"    -> AddOnce(t, Triple(r))
      [] r.verb = "remove" -> ReplayRemove(t, v, r)
      [] r.verb = "delete" -> IF Live(t, r.id) THEN Deleted(t, r) ELSE t

\* save_all: the rows of the items are renamed first, the relations last.
Torn(old, new) == {old, [new EXCEPT !.edges = old.edges], new}

-----------------------------------------------------------------------------
(* The server *)

NoTables ==
    [status |-> [i \in Id |-> "none"], edges |-> EmptyBag, flat |-> [i \in Id |-> {}]]

Init ==
    /\ tables = NoTables
    /\ vocab = Embedded /\ reloads = 0
    /\ reported = {} /\ projected = {} /\ listed = {} /\ cut = {}

Accepted(r) ==
    /\ ~Refused(tables, vocab, r)
    /\ \A e \in BagToSet(Handled(tables, vocab, r).edges) :
           Copies(Handled(tables, vocab, r), e) <= MaxCopies

\* The rows a request removes.
Removes(r) ==
    CASE r.verb = "remove" -> {Triple(r)}
      [] r.verb = "update" /\ r.unrelate # None ->
             {<<r.id, Canonical[r.unrelate[1]], r.unrelate[2]>>}
      [] OTHER -> {}

\* The edges a request writes in both halves, and those its reply tells of:
\* relation.add reports the row it wrote, under the name it was given.
Projects(r) ==
    CASE r.verb = "hdd" -> {<<r.id, "tests", r.paper>>}
      [] r.verb \in {"create", "update"} /\ r.relate # None ->
             {<<r.id, Canonical[r.relate[1]], r.relate[2]>>}
      [] OTHER -> {}
Says(r) == IF r.verb = "add" THEN {Triple(r)} ELSE Projects(r)

\* The edges a request names to be removed, under any of their names, and the
\* flat entries it takes from edges: theirs, and those a list leaves out.
Unsays(r) ==
    {e \in Edge : /\ e[1] = r.id
                  /\ \/ r.verb = "remove" /\ Canonical[e[2]] = Canonical[r.predicate]
                                          /\ e[3] = r.target
                     \/ /\ r.verb = "update" /\ r.unrelate # None
                        /\ Canonical[e[2]] = Canonical[r.unrelate[1]] /\ e[3] = r.unrelate[2]}
Unprojects(r) ==
    Unsays(r) \cup
    {e \in Edge : /\ r.verb = "update" /\ r.depends_on # Same
                  /\ e[1] = r.id /\ e[2] = "dependsOn" /\ e[3] \notin r.depends_on}
Lists(r) ==
    CASE r.verb = "create" -> {r.id} \X ListOf("dependsOn", r.depends_on)
      [] r.verb = "hdd"    -> {r.id} \X ListOf("related", {r.paper})
      [] r.verb = "update" /\ r.depends_on # Same -> {r.id} \X ListOf("dependsOn", r.depends_on)
      [] OTHER -> {}

\* Entries are remembered for as long as they are in the flat list.
StillThere(entries) == {l \in entries : l[2] \in tables'.flat[l[1]]}

Serve ==
    \E r \in Request :
        /\ Accepted(r)
        /\ tables' = Handled(tables, vocab, r)
        /\ reported' = (reported \ Unsays(r)) \cup (Says(r) \ Removes(r))
        /\ projected' = (projected \ Unprojects(r)) \cup (Projects(r) \ Removes(r))
        /\ listed' = StillThere(listed \cup Lists(r))
        /\ cut' = StillThere(cut)
        /\ UNCHANGED <<vocab, reloads>>

\* The entries the edge of a create has in the flat lists.
EntriesOf(r) ==
    IF r.verb = "create" /\ r.relate # None
    THEN {r.id} \X FlatOf(vocab, r.relate[1], r.relate[2])
    ELSE {}

\* The process dies somewhere in the save of a request nobody is told of; the
\* next one has the compiled vocabulary and replays the event.
Crash ==
    \E r \in Request :
        /\ Accepted(r)
        /\ \E t \in Torn(tables, Handled(tables, vocab, r)) : tables' = Replay(t, Embedded, r)
        /\ reported' = reported \ Unsays(r)
        /\ projected' = projected \ Unprojects(r)
        /\ listed' = StillThere(listed \cup Lists(r))
        /\ cut' = StillThere(cut \cup {e \in EntriesOf(r) :
                                ~HasRelation(tables', <<r.id, e[2][1], e[2][2]>>)})
        /\ vocab' = Embedded /\ reloads' = 0

\* reload_from_ttl: nothing below the compiled predicates; a vocabulary with the
\* same names counts as no change, whatever its classes; a bounded number of others.
Reload ==
    \E ttl \in Ttl :
        /\ ~BelowFloor(ttl)
        /\ ttl.names # vocab.names /\ ~Exhausted(reloads)
        /\ vocab' = ttl /\ reloads' = reloads + 1
        /\ UNCHANGED <<tables, reported, projected, listed, cut>>

Next == Serve \/ Crash \/ Reload
Spec == Init /\ [][Next]_vars

-----------------------------------------------------------------------------
(* Properties *)

\* The variables have their types, and the running vocabulary is never below
\* the compiled one.
TypeOK ==
    /\ tables.status \in [Id -> {"none", "live", "deleted"}]
    /\ IsABag(tables.edges) /\ BagToSet(tables.edges) \subseteq Edge
    /\ tables.flat \in [Id -> SUBSET Flat]
    /\ vocab \in Vocabulary /\ reloads \in 0..RELOAD_BUDGET
    /\ reported \cup projected \subseteq Edge /\ listed \cup cut \subseteq Id \X Flat

\* A flat entry with an edge behind it, under one of the names of its predicate.
Backed(id, f) ==
    \E p \in Spelling : Canonical[p] = f[1] /\ HasRelation(tables, <<id, p, f[2]>>)

\* No phantom: an entry of a flat list that a list of a request did not put there
\* since it was last taken out, and no create cut in two left, has its edge in the
\* relations table.  A removed
\* edge whose entry stayed would keep its item off the ready frontier for good
\* (handle_relation_remove_typed, replay of relation.remove, reload_from_ttl).
NoPhantom ==
    \A id \in Id : Live(tables, id) =>
        \A f \in tables.flat[id] : <<id, f>> \in listed \cup cut \/ Backed(id, f)

\* An edge a client was told is there, by whatever verb, has its row until a
\* removal names it; and one that was told by create, hdd or update has its flat
\* entry until a removal or a list takes it: across edits, removals of other edges,
\* reloads of the vocabulary and crashes between the saves of the two tables.
\* relation.add reports an edge and writes no flat entry (EveryEdgeProjected).
BothHalves ==
    /\ \A e \in reported : HasRelation(tables, e)
    /\ \A e \in projected :
        Live(tables, e[1]) => {e[2]} \cap Projecting \subseteq
            {f[1] : f \in {g \in tables.flat[e[1]] : g[2] = e[3]}}

\* The requests whose event says all there is to say: an alias is replayed as it
\* was spelled, the edge of a create only together with its row, that of an hdd
\* create not at all, and a removal replayed over its own result takes the next
\* row of the edge, if relate or relation.add has written several.  An update that
\* adds and removes one edge leaves a row of it that was there; its replay does not.
Complete(r) ==
    /\ \A e \in Removes(r) : Copies(tables, e) <= 1
    /\ r.verb # "hdd"
    /\ r.verb = "create" => r.relate = None
    /\ r.verb = "update" => /\ \A spec \in {r.relate, r.unrelate} \ {None} :
                                   Canonical[spec[1]] = spec[1]
                            /\ r.relate # None => r.relate # r.unrelate

SameContent(t, new) ==
    /\ t.status = new.status /\ t.flat = new.flat
    /\ BagToSet(t.edges) = BagToSet(new.edges)

\* Wherever the save of the next request is cut, its replay by a server with the
\* compiled vocabulary finds the rows, the flat lists and the edges that the
\* handler made under the vocabulary of its time (replay_into).
ReplayConverges ==
    \A r \in {q \in Request : Accepted(q) /\ Complete(q)} :
        LET new == Handled(tables, vocab, r)
        IN  \A t \in Torn(tables, new) : SameContent(Replay(t, Embedded, r), new)

\* The flat columns and the typed edges are two halves of one fact, for the verbs
\* that write both: no entry without its edge, no reported edge without its row,
\* none reported by create, hdd or update without its entry.
HalvesAgree == TypeOK /\ NoPhantom /\ BothHalves

-----------------------------------------------------------------------------
(* What a comment of the repository says, and the code does not keep: no run   *)
(* checks it, README, section 6, tells how to see it fail                      *)

\* "The flat columns are a projection of those edges, written in the same
\* operation -- never independently" (src/relation_vocab.rs): every edge a client
\* was told of, and whose entry nothing took, has its entry.
EveryEdgeProjected ==
    \A e \in reported :
        Live(tables, e[1]) => FlatOf(Embedded, e[2], e[3]) \subseteq tables.flat[e[1]]
=============================================================================
