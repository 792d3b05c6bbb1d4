-------------------------------- MODULE Board --------------------------------
(***************************************************************************)
(* What the item commands do to the tables: the handlers of                *)
(* server/src/handlers/core.rs over the store of src/crud.rs, and what     *)
(* MutationEvent::replay_into (server/src/events.rs) makes of the event    *)
(* each of them commits.  A handler is a pair of operators over the        *)
(* tables: when it refuses, and the tables it leaves.  Every refusal comes *)
(* before the first write, so a refused request changes nothing.  How the  *)
(* tables become durable is the subject of DurableStore; relations and the *)
(* flat lists are the subject of Relations.                                *)
(***************************************************************************)
EXTENDS Lifecycle, FiniteSets, FiniteSetsExt

CONSTANTS
    Agent,      \* the agents that work on the board
    NoAgent,    \* an empty assignee column
    Body,       \* the bodies (and so the body hashes) an item can have
    None,       \* no resolution, no closure, no bounce, no rank
    Same,       \* a field an update leaves out
    Request,    \* the requests clients send
    MaxItems,   \* bound: items ever created
    MaxAttempts \* bound: failed attempts counted on one item

ASSUME BoardAssumption ==
    /\ NoAgent \notin Agent /\ None \notin Body /\ Same \notin Body \cup Agent
    /\ MaxItems \in Nat /\ MaxAttempts \in Nat

VARIABLES
    tables,     \* the items, runs and item_comments tables
    claimants,  \* per item: the agents a claim, or an unforced move to in_progress
                \* that names them, has told "it is yours", until the item is
                \* bounced, requeued, reassigned or deleted
    refusedBody \* per item: the body the last bounce refused

vars == <<tables, claimants, refusedBody>>

-----------------------------------------------------------------------------
(* Tables *)

Id == 1..MaxItems
PHASE == "phase"                    \* the tag of the phase being ratified
PENDING == "pending-ratification"
DEAD == "dead-letter"
Tag == {PHASE, PENDING, DEAD}

\* The item types: two of the development board, one of the research board.
BoardOf ==
    [expedition |-> "development", voyage |-> "development", experiment |-> "research"]

Status == VALID_STATUSES \cup {"typo"}  \* "typo": a status only --force accepts

Row == [id : Id, type : DOMAIN BoardOf, status : Status,
        assignee : Agent \cup {NoAgent}, body : Body, tags : SUBSET Tag,
        attempts : 0..MaxAttempts, resolution : {None, "completed"},
        closed_by : {None, "PROP"}, rank : {None, "first"}, deleted : BOOLEAN]

\* What the protocol lets a request of each verb carry; an id may be any.
ASSUME RequestAssumption ==
    \A r \in Request :
        /\ r.verb \in {"create", "move", "claim", "bounce", "requeue", "ratify", "update",
                       "comment", "rank", "delete"}
        /\ r.verb = "create" =>
            /\ r.type \in DOMAIN BoardOf /\ r.assignee \in Agent \cup {NoAgent}
            /\ r.body \in Body /\ r.tags \subseteq Tag
        /\ r.verb = "move" =>
            /\ r.to \in Status /\ r.assignee \in Agent \cup {NoAgent} /\ r.force \in BOOLEAN
            /\ r.reason \in Body \cup {None}
            /\ r.resolution \in {None, "completed"} /\ r.closed_by \in {None, "PROP"}
        /\ r.verb = "claim" => r.agent \in Agent
        /\ r.verb = "update" =>
            /\ r.assignee \in Agent \cup {NoAgent, Same} /\ r.body \in Body \cup {Same}
            /\ r.tags = Same \/ r.tags \subseteq Tag
        /\ r.verb = "rank" => r.rank \in {None, "first"}

\* Of the run rows that landed an item on backlog: the reason of the newest
\* one, and of the newest that parses as a bounce.  A bounce's reason is the
\* body hash it stamped.
Landings == [newest : Body \cup {None}, bounce : Body \cup {None}]

\* Comments by what they say: an ordinary text, or the notice of a bounce.
Comment == {"text", "bounce notice"}

NoTables ==
    [items    |-> <<>>,
     runs     |-> [i \in Id |-> [newest |-> None, bounce |-> None]],
     comments |-> [i \in Id |-> {}]]

\* find_item_mut and get_item: the first row with the id that is not deleted.
LiveAt(t, id) == {n \in DOMAIN t.items : t.items[n].id = id /\ ~t.items[n].deleted}
Live(t, id) == LiveAt(t, id) # {}
Pos(t, id) == Min(LiveAt(t, id))
Item(t, id) == t.items[Pos(t, id)]
SetItem(t, id, row) == [t EXCEPT !.items[Pos(t, id)] = row]

\* A bug: deleted rows are not counted.
NextId_LiveOnly(t) ==
    1 + Max({0} \cup {t.items[n].id : n \in {m \in DOMAIN t.items : ~t.items[m].deleted}})

\* allocate_id: one past the largest number of any row, deleted rows included.
NextId(t) == 1 + Max({0} \cup {t.items[n].id : n \in DOMAIN t.items})

\* record_run, as far as run_reasons_landing(id, "backlog") tells rows apart.
RecordRun(t, id, to, reason) ==
    IF to # "backlog" THEN t
    ELSE [t EXCEPT !.runs[id] =
             [newest |-> reason, bounce |-> IF reason = None THEN @.bounce ELSE reason]]

\* update_status: a status that is not terminal takes the closure fields away.
UpdateStatus(t, id, to, reason) ==
    LET closed == to \in TERMINAL_STATES
        row == [Item(t, id) EXCEPT !.status = to,
                                   !.resolution = IF closed THEN @ ELSE None,
                                   !.closed_by = IF closed THEN @ ELSE None]
    IN  RecordRun(SetItem(t, id, row), id, to, reason)

UpdateAssignee(t, id, a) == SetItem(t, id, [Item(t, id) EXCEPT !.assignee = a])
AddTag(t, id, tag) == SetItem(t, id, [Item(t, id) EXCEPT !.tags = @ \cup {tag}])
AddComment(t, id, c) == [t EXCEPT !.comments[id] = @ \cup {c}]

-----------------------------------------------------------------------------
(* create, move, claim, bounce *)

\* create_item_with_id: a fresh backlog row and its first run.
CreateWithId(t, id, r) ==
    LET row == [id |-> id, type |-> r.type, status |-> "backlog",
                assignee |-> r.assignee, body |-> r.body, tags |-> r.tags,
                attempts |-> 0, resolution |-> None, closed_by |-> None,
                rank |-> None, deleted |-> FALSE]
    IN  RecordRun([t EXCEPT !.items = Append(@, row)], id, "backlog", None)

Created(t, r) == CreateWithId(t, NextId(t), r)

\* A bug: a move into progress does not ask who holds the item.
ClaimConflict_Never(t, id, a) == FALSE

\* check_exclusive_claim for a request without --force.
ClaimConflict(t, id, a) ==
    /\ Item(t, id).status = "in_progress"
    /\ Item(t, id).assignee \notin {NoAgent, a}

\* handle_move_typed refuses: a resolution on a target that is not terminal, an
\* unknown item or status, a transition the lifecycle forbids, a second agent.
MoveRefused(t, r) ==
    \/ r.resolution # None /\ ~ResolutionAllowed(r.to)
    \/ ~Live(t, r.id)
    \/ LET item == Item(t, r.id)
       IN  /\ ~r.force
           /\ \/ r.to \notin VALID_STATUSES
              \/ /\ BoardOf[item.type] = "development"
                 /\ IllegalTransition(item.status, r.to)
              \/ /\ BoardOf[item.type] = "research"
                 /\ IllegalForType(item.type, item.status, r.to)
              \/ /\ r.to = "in_progress" /\ r.assignee # NoAgent
                 /\ ClaimConflict(t, r.id, r.assignee)

\* Status and run first, then the fields the request names.
Moved(t, r) ==
    LET s == UpdateStatus(t, r.id, r.to, r.reason)
        row == [Item(s, r.id) EXCEPT
                   !.assignee = IF r.assignee = NoAgent THEN @ ELSE r.assignee,
                   !.resolution = IF r.resolution = None THEN @ ELSE r.resolution,
                   !.closed_by = IF r.closed_by = None THEN @ ELSE r.closed_by]
    IN  SetItem(s, r.id, row)

MoveOf(id, to, a, reason) ==
    [id |-> id, to |-> to, assignee |-> a, force |-> FALSE, reason |-> reason,
     resolution |-> None, closed_by |-> None]
ClaimMove(r) == MoveOf(r.id, "in_progress", r.agent, None)
BounceMove(t, r) == MoveOf(r.id, "backlog", NoAgent, Item(t, r.id).body)

\* A bug: only an item in progress counts as held, as in the guard of a move.
HeldByAnother_InProgress(t, id, a) == ClaimConflict(t, id, a)

\* The compare-and-set of the claim verb, whatever the status.
HeldByAnother(t, id, a) == Item(t, id).assignee \notin {NoAgent, a}

\* A bug: the newest landing on backlog decides, bounce or not.
Unrepaired_NewestLanding(t, id) ==
    /\ t.runs[id].newest # None
    /\ t.runs[id].newest = Item(t, id).body

\* The newest landing that parses as a bounce stamped the body there still is.
Unrepaired(t, id) ==
    /\ t.runs[id].bounce # None
    /\ t.runs[id].bounce = Item(t, id).body

ClaimRefused(t, r) ==
    \/ ~Live(t, r.id)
    \/ HeldByAnother(t, r.id, r.agent)
    \/ Unrepaired(t, r.id)
    \/ MoveRefused(t, ClaimMove(r))
Claimed(t, r) == Moved(t, ClaimMove(r))

BounceRefused(t, r) == ~Live(t, r.id) \/ MoveRefused(t, BounceMove(t, r))

\* The move with the stamp, the explicit unassign, the notice.
Bounced(t, r) ==
    AddComment(UpdateAssignee(Moved(t, BounceMove(t, r)), r.id, NoAgent),
               r.id, "bounce notice")

-----------------------------------------------------------------------------
(* requeue, ratify, update, comment, rank, delete *)

RequeueRefused(t, r) == ~Live(t, r.id) \/ Item(t, r.id).status # "in_progress"

Attempts(t, r) == Item(t, r.id).attempts + 1
DeadLettered(t, r) == Attempts(t, r) >= r.cap
RequeueStatus(t, r) == IF DeadLettered(t, r) THEN "blocked" ELSE "backlog"

\* requeue_item: the claim is released, the attempt counted, and at the cap the
\* item is parked and tagged.
Requeued(t, r) ==
    LET s == UpdateAssignee(UpdateStatus(t, r.id, RequeueStatus(t, r), None), r.id, NoAgent)
        n == SetItem(s, r.id, [Item(s, r.id) EXCEPT !.attempts = Attempts(t, r)])
    IN  IF DeadLettered(t, r) THEN AddTag(n, r.id, DEAD) ELSE n

\* tags_of fails on the first row whose item is deleted, and with it the verb.
RatifyRefused(t) == \E n \in DOMAIN t.items : ~Live(t, t.items[n].id)

\* A bug: the voyage is started past update_status.
RatifiedRow_Shortcut(row) ==
    LET start == row.type = "voyage" /\ row.status # "in_progress"
    IN  IF ~({PHASE, PENDING} \subseteq row.tags) THEN row
        ELSE [row EXCEPT !.tags = @ \ {PENDING},
                         !.status = IF start THEN "in_progress" ELSE @]

\* ratify_phase: every pending item of the phase loses the tag; its voyages are
\* moved to in_progress by update_status, past every lifecycle check.
RatifiedRow(row) ==
    LET start == row.type = "voyage" /\ row.status # "in_progress"
    IN  IF ~({PHASE, PENDING} \subseteq row.tags) THEN row
        ELSE [row EXCEPT !.tags = @ \ {PENDING},
                         !.status = IF start THEN "in_progress" ELSE @,
                         !.resolution = IF start THEN None ELSE @,
                         !.closed_by = IF start THEN None ELSE @]

Ratified(t) == [t EXCEPT !.items = [n \in DOMAIN @ |-> RatifiedRow(@[n])]]

\* The fields a request leaves out keep their value.
Given(value, old) == IF value = Same THEN old ELSE value
Updated(t, r) ==
    SetItem(t, r.id, [Item(t, r.id) EXCEPT !.assignee = Given(r.assignee, @),
                                           !.tags = Given(r.tags, @),
                                           !.body = Given(r.body, @)])

Commented(t, r) == AddComment(t, r.id, "text")
Ranked(t, r) == SetItem(t, r.id, [Item(t, r.id) EXCEPT !.rank = r.rank])
Deleted(t, r) == SetItem(t, r.id, [Item(t, r.id) EXCEPT !.deleted = TRUE])

-----------------------------------------------------------------------------
(* One command: dispatch, the event it commits, the replay of that event *)

Refused(t, r) ==
    \/ r.verb = "move" /\ MoveRefused(t, r)
    \/ r.verb = "claim" /\ ClaimRefused(t, r)
    \/ r.verb = "bounce" /\ BounceRefused(t, r)
    \/ r.verb = "requeue" /\ RequeueRefused(t, r)
    \/ r.verb = "ratify" /\ RatifyRefused(t)
    \/ r.verb \in {"update", "comment", "rank", "delete"} /\ ~Live(t, r.id)

Handled(t, r) ==
    CASE r.verb = "create"  -> Created(t, r)
      [] r.verb = "move"    -> Moved(t, r)
      [] r.verb = "claim"   -> Claimed(t, r)
      [] r.verb = "bounce"  -> Bounced(t, r)
      [] r.verb = "requeue" -> Requeued(t, r)
      [] r.verb = "ratify"  -> Ratified(t)
      [] r.verb = "update"  -> Updated(t, r)
      [] r.verb = "comment" -> Commented(t, r)
      [] r.verb = "rank"    -> Ranked(t, r)
      [] r.verb = "delete"  -> Deleted(t, r)

\* mutation_event: a claim and a bounce are recorded as moves, the bounce with
\* its stamp as the reason and the assignee to clear; a requeue records its
\* result.  Every other event is the request, a create with the id it got.
EventOf(t, r) ==
    CASE r.verb = "move"    -> [kind |-> "Moved", req |-> r, unassign |-> FALSE]
      [] r.verb = "claim"   -> [kind |-> "Moved", req |-> ClaimMove(r), unassign |-> FALSE]
      [] r.verb = "bounce"  -> [kind |-> "Moved", req |-> BounceMove(t, r), unassign |-> TRUE]
      [] r.verb = "requeue" -> [kind |-> "Requeued", req |-> r, status |-> RequeueStatus(t, r),
                                attempts |-> Attempts(t, r), tag |-> DeadLettered(t, r)]
      [] r.verb = "create"  -> [kind |-> "Created", req |-> r, id |-> NextId(t)]
      [] OTHER              -> [kind |-> r.verb, req |-> r]

\* An error of replay_into: the load fails and the server does not start.
ReplayRefused(t, e) ==
    \/ e.kind \in {"Moved", "Requeued", "rank"} /\ ~Live(t, e.req.id)
    \/ e.kind = "comment" /\ ~Live(t, e.req.id) /\ "text" \notin t.comments[e.req.id]
    \/ e.kind = "ratify" /\ RatifyRefused(t)

ReplayMoved(t, e) ==
    IF e.unassign THEN UpdateAssignee(Moved(t, e.req), e.req.id, NoAgent)
    ELSE Moved(t, e.req)

\* A bug: the verb itself is replayed, and counts the attempt again.
ReplayRequeued_Again(t, e) == Requeued(t, e.req)

\* Every write sets what the event recorded.
ReplayRequeued(t, e) ==
    LET s == UpdateAssignee(UpdateStatus(t, e.req.id, e.status, None), e.req.id, NoAgent)
        n == SetItem(s, e.req.id, [Item(s, e.req.id) EXCEPT !.attempts = e.attempts])
    IN  IF e.tag THEN AddTag(n, e.req.id, DEAD) ELSE n

\* What is already there, or already gone, is skipped; an update of an item that
\* is gone ignores its errors.
Replay(t, e) ==
    CASE e.kind = "Created"  -> IF Live(t, e.id) THEN t ELSE CreateWithId(t, e.id, e.req)
      [] e.kind = "Moved"    -> ReplayMoved(t, e)
      [] e.kind = "Requeued" -> ReplayRequeued(t, e)
      [] e.kind = "delete"   -> IF Live(t, e.req.id) THEN Deleted(t, e.req) ELSE t
      [] e.kind = "ratify"   -> Ratified(t)
      [] e.kind = "update"   -> IF Live(t, e.req.id) THEN Updated(t, e.req) ELSE t
      [] e.kind = "comment"  -> IF "text" \in t.comments[e.req.id] THEN t
                                ELSE Commented(t, e.req)
      [] e.kind = "rank"     -> Ranked(t, e.req)

\* The checkpoints a crash in save_store can leave: items, then runs, then the
\* comments are renamed.
Torn(old, new) ==
    {[items    |-> IF k > 0 THEN new.items ELSE old.items,
      runs     |-> IF k > 1 THEN new.runs ELSE old.runs,
      comments |-> IF k > 2 THEN new.comments ELSE old.comments] : k \in 0..3}

-----------------------------------------------------------------------------
(* The server *)

Init ==
    /\ tables = NoTables
    /\ claimants = [i \in Id |-> {}]
    /\ refusedBody = [i \in Id |-> None]

WithinBounds(t, r) ==
    /\ r.verb = "create" => Len(t.items) < MaxItems
    /\ r.verb = "requeue" => Attempts(t, r) <= MaxAttempts

Serve(r) ==
    /\ ~Refused(tables, r) /\ WithinBounds(tables, r)
    /\ tables' = Handled(tables, r)

Create ==
    \E r \in Request :
        /\ r.verb = "create" /\ Serve(r)
        /\ UNCHANGED <<claimants, refusedBody>>

\* An unforced move to in_progress that names an agent is a claim; any other
\* move that names one hands the item over.
Move ==
    \E r \in Request :
        /\ r.verb = "move" /\ Serve(r)
        /\ claimants' = [claimants EXCEPT ![r.id] =
               IF r.assignee = NoAgent THEN @
               ELSE IF r.force \/ r.to # "in_progress" THEN {}
               ELSE IF Item(tables, r.id).status = "in_progress" THEN @ \cup {r.assignee}
               ELSE {r.assignee}]
        /\ UNCHANGED refusedBody

Claim ==
    \E r \in Request :
        /\ r.verb = "claim" /\ Serve(r)
        /\ claimants' = [claimants EXCEPT ![r.id] = @ \cup {r.agent}]
        /\ UNCHANGED refusedBody

Bounce ==
    \E r \in Request :
        /\ r.verb = "bounce" /\ Serve(r)
        /\ claimants' = [claimants EXCEPT ![r.id] = {}]
        /\ refusedBody' = [refusedBody EXCEPT ![r.id] = Item(tables, r.id).body]

Requeue ==
    \E r \in Request :
        /\ r.verb = "requeue" /\ Serve(r)
        /\ claimants' = [claimants EXCEPT ![r.id] = {}]
        /\ UNCHANGED refusedBody

Update ==
    \E r \in Request :
        /\ r.verb = "update" /\ Serve(r)
        /\ claimants' = [claimants EXCEPT ![r.id] = IF r.assignee = Same THEN @ ELSE {}]
        /\ UNCHANGED refusedBody

Ratify ==
    /\ \E r \in Request : r.verb = "ratify" /\ Serve(r)
    /\ UNCHANGED <<claimants, refusedBody>>

Annotate ==
    /\ \E r \in Request : r.verb \in {"comment", "rank"} /\ Serve(r)
    /\ UNCHANGED <<claimants, refusedBody>>

Delete ==
    \E r \in Request :
        /\ r.verb = "delete" /\ Serve(r)
        /\ claimants' = [claimants EXCEPT ![r.id] = {}]
        /\ UNCHANGED refusedBody

\* The client is told why, and nothing has changed.
Refuse == {r \in Request : Refused(tables, r)} # {} /\ UNCHANGED vars

Next ==
    \/ Create \/ Move \/ Claim \/ Bounce \/ Requeue
    \/ Update \/ Ratify \/ Annotate \/ Delete \/ Refuse

Spec == Init /\ [][Next]_vars

-----------------------------------------------------------------------------
(* Properties *)

\* The variables have their types.
TypeOK ==
    /\ tables.items \in Seq(Row) /\ Len(tables.items) <= MaxItems
    /\ tables.runs \in [Id -> Landings]
    /\ tables.comments \in [Id -> SUBSET Comment]
    /\ claimants \in [Id -> SUBSET Agent]
    /\ refusedBody \in [Id -> Body \cup {None}]

\* Two agents are never both told that an item is theirs, whatever moves,
\* forced moves, edits, ratifications and parkings come between the two claims:
\* the agent that was told is the one the assignee column names
\* (check_exclusive_claim and the compare-and-set of handle_claim_typed).
OneClaimant ==
    \A id \in Id : claimants[id] # {} =>
        /\ Live(tables, id)
        /\ claimants[id] = {Item(tables, id).assignee}

\* An item that was bounced is claimed again only once its body is another than
\* the one the last bounce refused, however often it was moved to backlog,
\* requeued or edited back since (handle_claim_typed, run_reasons_landing).
RepairedBeforeClaim ==
    [][\A id \in Id :
        (claimants[id] = {} /\ claimants'[id] # {} /\ Claim) =>
            refusedBody[id] # Item(tables, id).body]_vars

\* An open item has no resolution: neither a forced move, a requeue, a
\* ratification nor a bounce reopens an item and leaves it
\* (update_status, "closure fields do not survive a reopen").
ClosureOnlyWhenClosed ==
    \A n \in DOMAIN tables.items :
        tables.items[n].resolution # None => tables.items[n].status \in TERMINAL_STATES

\* No two rows ever share an id, whatever was deleted in between (allocate_id).
IdsUnique ==
    \A m, n \in DOMAIN tables.items : m # n => tables.items[m].id # tables.items[n].id

\* The tables of two stores say the same; the notice a bounce leaves is not in
\* its event, and the first may lack it.
SameContent(t, new) ==
    /\ t.items = new.items /\ t.runs = new.runs
    /\ \A id \in Id : /\ t.comments[id] \subseteq new.comments[id]
                      /\ new.comments[id] \ t.comments[id] \subseteq {"bounce notice"}

\* Whatever command is served next and wherever the save of its checkpoint is
\* cut, the replay of its event succeeds and rebuilds what the handler did:
\* the handlers and replay_into agree, on tables of any age.
ReplayConverges ==
    \A r \in {q \in Request : ~Refused(tables, q) /\ WithinBounds(tables, q)} :
        LET new == Handled(tables, r)
            e == EventOf(tables, r)
        IN  \A t \in Torn(tables, new) :
                ~ReplayRefused(t, e) /\ SameContent(Replay(t, e), new)

\* The rows are what every handler takes them for: typed, and one for an id.
RowsSound == TypeOK /\ IdsUnique

-----------------------------------------------------------------------------
(* The contract: the agent that was told is read off the assignee column       *)

Holder ==
    [i \in Id |-> IF claimants[i] = {} THEN NoAgent ELSE Item(tables, i).assignee]
Underway == [i \in Id |-> Live(tables, i) /\ Item(tables, i).status = "in_progress"]

Claims == INSTANCE ExclusiveClaim
          WITH Work <- Id, Nobody <- NoAgent, holder <- Holder, underway <- Underway

\* The board keeps its promise to the agents, whatever requests it serves.
KeepsClaims == Claims!Spec
=============================================================================
