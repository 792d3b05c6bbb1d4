------------------------------ MODULE BoardProofs ------------------------------
(***************************************************************************)
(* Theorems about Board, for every set of agents, of bodies and of         *)
(* requests, and every number of items.  A row is found by its id because  *)
(* the ids are handed out in the order of the rows, so that the handlers   *)
(* can be described by the one row each of them changes.  The last theorem *)
(* is the refinement of ExclusiveClaim.                                    *)
(***************************************************************************)
EXTENDS Board, SequenceTheorems, TLAPS

-----------------------------------------------------------------------------
(* Tables and rows *)

TableSet == [items : Seq(Row), runs : [Id -> Landings], comments : [Id -> SUBSET Comment]]

\* Row number n has the id n: allocate_id never skips and never reuses one.
TablesOK(t) ==
    /\ t \in TableSet
    /\ Len(t.items) <= MaxItems
    /\ \A n \in DOMAIN t.items : t.items[n].id = n

\* The row of a live id.
LEMMA RowOfId ==
    ASSUME NEW t, TablesOK(t), NEW id, Live(t, id)
    PROVE  /\ id \in Id /\ id \in DOMAIN t.items /\ id \in 1..Len(t.items)
           /\ Pos(t, id) = id /\ Item(t, id) = t.items[id]
           /\ t.items[id] \in Row /\ t.items[id].id = id /\ ~t.items[id].deleted
<1>1. t.items \in Seq(Row) /\ Len(t.items) \in Nat /\ Len(t.items) <= MaxItems
      /\ DOMAIN t.items = 1..Len(t.items)
  BY DEF TablesOK, TableSet
<1>2. PICK n \in DOMAIN t.items : t.items[n].id = id /\ ~t.items[n].deleted
  BY DEF Live, LiveAt
<1>3. n = id  BY <1>2 DEF TablesOK
<1>4. LiveAt(t, id) = {id}  BY <1>2, <1>3 DEF LiveAt, TablesOK
<1>5. id \in 1..Len(t.items) /\ id \in Id  BY <1>1, <1>2, <1>3, BoardAssumption DEF Id
<1>6. Pos(t, id) = id  BY <1>4, <1>5 DEF Pos, Min
<1> QED  BY <1>1, <1>2, <1>3, <1>5, <1>6 DEF Item

\* When an id is live.
LEMMA LiveIff ==
    ASSUME NEW t, TablesOK(t), NEW id
    PROVE  Live(t, id) <=> id \in DOMAIN t.items /\ ~t.items[id].deleted
BY DEF Live, LiveAt, TablesOK

\* Tables with other items.
LEMMA WithItems ==
    ASSUME NEW t, TablesOK(t), NEW x
    PROVE  [t EXCEPT !.items = x] = [items |-> x, runs |-> t.runs, comments |-> t.comments]
<1> DEFINE i == t.items
           u == t.runs
           c == t.comments
<1>1. t = [items |-> i, runs |-> u, comments |-> c]  BY DEF TablesOK, TableSet
<1> HIDE DEF i, u, c
<1>2. [t EXCEPT !.items = x] = [items |-> x, runs |-> u, comments |-> c]  BY ONLY <1>1
<1> QED  BY <1>2 DEF u, c

\* A row written in the place of the one the id names.
LEMMA RowSet ==
    ASSUME NEW t, TablesOK(t), NEW id, Live(t, id), NEW row \in Row, row.id = id
    PROVE  LET u == SetItem(t, id, row)
           IN  /\ TablesOK(u) /\ (Live(u, id) <=> ~row.deleted)
               /\ u.items = [t.items EXCEPT ![id] = row]
               /\ u.runs = t.runs /\ u.comments = t.comments
<1> DEFINE u == SetItem(t, id, row)
<1>1. /\ t.items \in Seq(Row) /\ id \in 1..Len(t.items) /\ DOMAIN t.items = 1..Len(t.items)
      /\ Pos(t, id) = id
  BY RowOfId DEF TablesOK, TableSet
<1>2. /\ [t.items EXCEPT ![id] = row] \in Seq(Row)
      /\ Len([t.items EXCEPT ![id] = row]) = Len(t.items)
  BY <1>1, ExceptSeq
<1>3. u = [items |-> [t.items EXCEPT ![id] = row], runs |-> t.runs, comments |-> t.comments]
  <2> DEFINE x == [t.items EXCEPT ![id] = row]
  <2>1. u = [t EXCEPT !.items = x]  BY <1>1 DEF SetItem
  <2> HIDE DEF x, u
  <2>2. u = [items |-> x, runs |-> t.runs, comments |-> t.comments]
    BY <2>1, WithItems
  <2> QED  BY <2>2 DEF x
<1>4. u.items = [t.items EXCEPT ![id] = row] /\ u.runs = t.runs /\ u.comments = t.comments
  BY <1>3
<1>5. u \in TableSet  BY <1>2, <1>3 DEF TablesOK, TableSet
<1>6. Len(u.items) <= MaxItems  BY <1>2, <1>4 DEF TablesOK
<1>7. \A n \in DOMAIN u.items : u.items[n].id = n  BY <1>4, <1>1 DEF TablesOK
<1> HIDE DEF u
<1>8. TablesOK(u)  BY <1>5, <1>6, <1>7 DEF TablesOK
<1>9. id \in DOMAIN u.items /\ u.items[id] = row  BY <1>1, <1>4
<1>10. Live(u, id) <=> ~row.deleted
  <2>1. Live(u, id) <=> ~u.items[id].deleted  BY <1>8, <1>9, LiveIff
  <2> QED  BY <1>9, <2>1
<1> QED  BY <1>4, <1>8, <1>10 DEF u

-----------------------------------------------------------------------------
(* What each handler does to the row, and to the runs of its item *)

StatusRow(row, to) ==
    [row EXCEPT !.status = to,
                !.resolution = IF to \in TERMINAL_STATES THEN @ ELSE None,
                !.closed_by = IF to \in TERMINAL_STATES THEN @ ELSE None]

MovedRow(row, r) ==
    [StatusRow(row, r.to) EXCEPT
        !.assignee = IF r.assignee = NoAgent THEN @ ELSE r.assignee,
        !.resolution = IF r.resolution = None THEN @ ELSE r.resolution,
        !.closed_by = IF r.closed_by = None THEN @ ELSE r.closed_by]

\* What a move is given, from a client or from the claim and the bounce verbs.
MoveTyped(r) ==
    /\ r.to \in Status /\ r.assignee \in Agent \cup {NoAgent}
    /\ r.reason \in Body \cup {None}
    /\ r.resolution \in {None, "completed"} /\ r.closed_by \in {None, "PROP"}

\* What a status leaves of a row.
LEMMA StatusRowFields ==
    ASSUME NEW row \in Row, NEW to \in Status
    PROVE  LET x == StatusRow(row, to)
           IN  /\ x \in Row /\ x.status = to
               /\ x.id = row.id /\ x.type = row.type /\ x.assignee = row.assignee
               /\ x.body = row.body /\ x.tags = row.tags /\ x.attempts = row.attempts
               /\ x.rank = row.rank /\ x.deleted = row.deleted
               /\ x.resolution = (IF to \in TERMINAL_STATES THEN row.resolution ELSE None)
               /\ x.closed_by = (IF to \in TERMINAL_STATES THEN row.closed_by ELSE None)
<1> DEFINE res == IF to \in TERMINAL_STATES THEN row.resolution ELSE None
           by == IF to \in TERMINAL_STATES THEN row.closed_by ELSE None
           x == [row EXCEPT !.status = to, !.resolution = res, !.closed_by = by]
<1>1. res \in {None, "completed"} /\ by \in {None, "PROP"}  BY DEF Row
<1>2. x = StatusRow(row, to)  BY DEF StatusRow
<1> HIDE DEF res, by
<1>3. /\ x \in Row /\ x.status = to
      /\ x.id = row.id /\ x.type = row.type /\ x.assignee = row.assignee
      /\ x.body = row.body /\ x.tags = row.tags /\ x.attempts = row.attempts
      /\ x.rank = row.rank /\ x.deleted = row.deleted
      /\ x.resolution = res /\ x.closed_by = by
  BY <1>1 DEF Row
<1> HIDE DEF x
<1> QED  BY <1>2, <1>3 DEF res, by

\* What a move leaves of a row.
LEMMA MovedRowFields ==
    ASSUME NEW row \in Row, NEW r, MoveTyped(r)
    PROVE  LET x == MovedRow(row, r)
           IN  /\ x \in Row /\ x.status = r.to
               /\ x.id = row.id /\ x.type = row.type
               /\ x.body = row.body /\ x.tags = row.tags /\ x.attempts = row.attempts
               /\ x.rank = row.rank /\ x.deleted = row.deleted
               /\ x.assignee = (IF r.assignee = NoAgent THEN row.assignee ELSE r.assignee)
               /\ x.resolution =
                     (IF r.resolution # None THEN r.resolution
                      ELSE IF r.to \in TERMINAL_STATES THEN row.resolution ELSE None)
               /\ x.closed_by =
                     (IF r.closed_by # None THEN r.closed_by
                      ELSE IF r.to \in TERMINAL_STATES THEN row.closed_by ELSE None)
<1> DEFINE s == StatusRow(row, r.to)
           a == IF r.assignee = NoAgent THEN s.assignee ELSE r.assignee
           res == IF r.resolution = None THEN s.resolution ELSE r.resolution
           by == IF r.closed_by = None THEN s.closed_by ELSE r.closed_by
           x == [s EXCEPT !.assignee = a, !.resolution = res, !.closed_by = by]
<1>1. /\ s \in Row /\ s.status = r.to
      /\ s.id = row.id /\ s.type = row.type /\ s.assignee = row.assignee
      /\ s.body = row.body /\ s.tags = row.tags /\ s.attempts = row.attempts
      /\ s.rank = row.rank /\ s.deleted = row.deleted
      /\ s.resolution = (IF r.to \in TERMINAL_STATES THEN row.resolution ELSE None)
      /\ s.closed_by = (IF r.to \in TERMINAL_STATES THEN row.closed_by ELSE None)
  BY StatusRowFields DEF MoveTyped
<1>2. x = MovedRow(row, r)  BY DEF MovedRow
<1> HIDE DEF s
<1>3. a \in Agent \cup {NoAgent} /\ res \in {None, "completed"} /\ by \in {None, "PROP"}
  BY <1>1 DEF MoveTyped, Row
<1> HIDE DEF a, res, by
<1>4. /\ x \in Row /\ x.status = s.status
      /\ x.id = s.id /\ x.type = s.type /\ x.assignee = a
      /\ x.body = s.body /\ x.tags = s.tags /\ x.attempts = s.attempts
      /\ x.rank = s.rank /\ x.deleted = s.deleted
      /\ x.resolution = res /\ x.closed_by = by
  BY <1>1, <1>3 DEF Row
<1> HIDE DEF x
<1> QED  BY <1>1, <1>2, <1>4 DEF a, res, by

\* Rows with the same fields are the same row.
LEMMA SameRow ==
    ASSUME NEW a \in Row, NEW b \in Row,
           a.id = b.id, a.type = b.type, a.status = b.status, a.assignee = b.assignee,
           a.body = b.body, a.tags = b.tags, a.attempts = b.attempts,
           a.resolution = b.resolution, a.closed_by = b.closed_by, a.rank = b.rank,
           a.deleted = b.deleted
    PROVE  a = b
BY DEF Row

RunsAfter(runs, id, to, reason) ==
    IF to # "backlog" THEN runs
    ELSE [runs EXCEPT ![id] =
            [newest |-> reason, bounce |-> IF reason = None THEN @.bounce ELSE reason]]

\* A run recorded.
LEMMA RunRecorded ==
    ASSUME NEW t, TablesOK(t), NEW id \in Id, NEW to, NEW reason \in Body \cup {None}
    PROVE  LET u == RecordRun(t, id, to, reason)
           IN  /\ TablesOK(u)
               /\ u.items = t.items /\ u.comments = t.comments
               /\ u.runs = RunsAfter(t.runs, id, to, reason)
<1> DEFINE rs == RunsAfter(t.runs, id, to, reason)
<1>1. rs \in [Id -> Landings]
  <2>1. t.runs \in [Id -> Landings]  BY DEF TablesOK, TableSet
  <2>2. t.runs[id] \in Landings  BY <2>1
  <2>3. [newest |-> reason, bounce |-> IF reason = None THEN t.runs[id].bounce ELSE reason]
          \in Landings
    BY <2>2 DEF Landings
  <2> QED  BY <2>1, <2>3 DEF RunsAfter
<1>2. t = [items |-> t.items, runs |-> t.runs, comments |-> t.comments]
  BY DEF TablesOK, TableSet
<1>3. RecordRun(t, id, to, reason) = [items |-> t.items, runs |-> rs, comments |-> t.comments]
  BY <1>2 DEF RecordRun, RunsAfter, TablesOK, TableSet
<1> HIDE DEF rs
<1>4. TablesOK([items |-> t.items, runs |-> rs, comments |-> t.comments])
  BY <1>1 DEF TablesOK, TableSet
<1> QED  BY <1>3, <1>4 DEF rs

\* A status written and its run recorded.
LEMMA StatusUpdated ==
    ASSUME NEW t, TablesOK(t), NEW id, Live(t, id), NEW to \in Status,
           NEW reason \in Body \cup {None}
    PROVE  LET u == UpdateStatus(t, id, to, reason)
           IN  /\ TablesOK(u) /\ Live(u, id)
               /\ u.items = [t.items EXCEPT ![id] = StatusRow(t.items[id], to)]
               /\ u.runs = RunsAfter(t.runs, id, to, reason)
               /\ u.comments = t.comments
<1> DEFINE row == StatusRow(t.items[id], to)
           v == SetItem(t, id, row)
           u == UpdateStatus(t, id, to, reason)
<1>1. /\ id \in Id /\ id \in DOMAIN t.items /\ Item(t, id) = t.items[id]
      /\ t.items[id] \in Row /\ t.items[id].id = id /\ ~t.items[id].deleted
  BY RowOfId
<1>2. row \in Row /\ row.id = id /\ ~row.deleted
  BY <1>1, StatusRowFields
<1>3. u = RecordRun(v, id, to, reason)
  BY <1>1 DEF UpdateStatus, StatusRow
<1> HIDE DEF row
<1>4. /\ TablesOK(v) /\ v.items = [t.items EXCEPT ![id] = row]
      /\ v.runs = t.runs /\ v.comments = t.comments
  BY <1>1, <1>2, RowSet
<1> HIDE DEF v
<1>5. LET x == RecordRun(v, id, to, reason)
      IN  /\ TablesOK(x) /\ x.items = v.items /\ x.comments = v.comments
          /\ x.runs = RunsAfter(v.runs, id, to, reason)
  BY <1>1, <1>4, RunRecorded
<1> HIDE DEF u
<1>6. /\ TablesOK(u) /\ u.items = [t.items EXCEPT ![id] = row]
      /\ u.runs = RunsAfter(t.runs, id, to, reason) /\ u.comments = t.comments
  BY <1>3, <1>4, <1>5
<1>7. Live(u, id)
  <2>1. id \in DOMAIN u.items /\ u.items[id] = row  BY <1>1, <1>6
  <2>2. Live(u, id) <=> ~u.items[id].deleted  BY <1>6, <2>1, LiveIff
  <2> QED  BY <1>2, <2>1, <2>2
<1> QED  BY <1>6, <1>7 DEF u, row

\* A move writes one row and one landing, and nothing else.
LEMMA MovedShape ==
    ASSUME NEW t, NEW r, TablesOK(t), Live(t, r.id), MoveTyped(r)
    PROVE  LET u == Moved(t, r)
           IN  /\ TablesOK(u) /\ Live(u, r.id)
               /\ u.items = [t.items EXCEPT ![r.id] = MovedRow(t.items[r.id], r)]
               /\ u.runs = RunsAfter(t.runs, r.id, r.to, r.reason)
               /\ u.comments = t.comments
<1> DEFINE id == r.id
           s == UpdateStatus(t, id, r.to, r.reason)
           row == MovedRow(t.items[id], r)
           u == Moved(t, r)
<1>1. /\ id \in Id /\ id \in DOMAIN t.items /\ t.items \in Seq(Row)
      /\ t.items[id] \in Row /\ t.items[id].id = id /\ ~t.items[id].deleted
  BY RowOfId DEF TablesOK, TableSet
<1>2. /\ TablesOK(s) /\ Live(s, id)
      /\ s.items = [t.items EXCEPT ![id] = StatusRow(t.items[id], r.to)]
      /\ s.runs = RunsAfter(t.runs, id, r.to, r.reason) /\ s.comments = t.comments
  BY StatusUpdated DEF MoveTyped
<1>3. row \in Row /\ row.id = id /\ ~row.deleted
  BY <1>1, MovedRowFields
<1> HIDE DEF s
<1>4. Item(s, id) = StatusRow(t.items[id], r.to)
  BY <1>1, <1>2, RowOfId
<1>5. u = SetItem(s, id, row)
  BY <1>4 DEF Moved, MovedRow, s
<1> HIDE DEF row, u
<1>6. /\ TablesOK(u) /\ Live(u, id) /\ u.items = [s.items EXCEPT ![id] = row]
      /\ u.runs = s.runs /\ u.comments = s.comments
  BY <1>2, <1>3, <1>5, RowSet
<1>7. [s.items EXCEPT ![id] = row] = [t.items EXCEPT ![id] = row]  BY <1>2
<1> QED  BY <1>2, <1>6, <1>7 DEF u, row

\* The assignee column written.
LEMMA AssigneeSet ==
    ASSUME NEW t, TablesOK(t), NEW id, Live(t, id), NEW a \in Agent \cup {NoAgent}
    PROVE  LET u == UpdateAssignee(t, id, a)
           IN  /\ TablesOK(u) /\ Live(u, id)
               /\ u.items = [t.items EXCEPT ![id] = [t.items[id] EXCEPT !.assignee = a]]
               /\ u.runs = t.runs /\ u.comments = t.comments
<1> DEFINE row == [t.items[id] EXCEPT !.assignee = a]
<1>1. row \in Row /\ row.id = id /\ ~row.deleted  BY RowOfId DEF Row
<1>2. UpdateAssignee(t, id, a) = SetItem(t, id, row)  BY RowOfId DEF UpdateAssignee
<1> HIDE DEF row
<1>3. LET u == SetItem(t, id, row)
      IN  /\ TablesOK(u) /\ (Live(u, id) <=> ~row.deleted)
          /\ u.items = [t.items EXCEPT ![id] = row]
          /\ u.runs = t.runs /\ u.comments = t.comments
  BY <1>1, RowSet
<1> QED  BY <1>1, <1>2, <1>3 DEF row

\* A comment added.
LEMMA CommentAdded ==
    ASSUME NEW t, TablesOK(t), NEW id \in Id, NEW c \in Comment
    PROVE  LET u == AddComment(t, id, c)
           IN  /\ TablesOK(u)
               /\ u.items = t.items /\ u.runs = t.runs
               /\ u.comments = [t.comments EXCEPT ![id] = @ \cup {c}]
<1>1. AddComment(t, id, c) = [items |-> t.items, runs |-> t.runs,
                              comments |-> [t.comments EXCEPT ![id] = @ \cup {c}]]
  <2> DEFINE x == t.comments[id] \cup {c}
  <2>1. AddComment(t, id, c) = [t EXCEPT !.comments[id] = x]  BY DEF AddComment
  <2> HIDE DEF x
  <2>2. [t EXCEPT !.comments[id] = x] =
          [items |-> t.items, runs |-> t.runs, comments |-> [t.comments EXCEPT ![id] = x]]
    BY DEF TablesOK, TableSet
  <2> QED  BY <2>1, <2>2 DEF x
<1>2. [t.comments EXCEPT ![id] = @ \cup {c}] \in [Id -> SUBSET Comment]
  BY DEF TablesOK, TableSet
<1> QED  BY <1>1, <1>2 DEF TablesOK, TableSet

\* A bounce: the move to backlog with its stamp, the unassign, the notice.
BouncedRow(row) == [StatusRow(row, "backlog") EXCEPT !.assignee = NoAgent]

\* A bounce writes one row, a landing that carries the refused body, and the notice.
LEMMA BouncedShape ==
    ASSUME NEW t, NEW r, TablesOK(t), Live(t, r.id)
    PROVE  LET u == Bounced(t, r)
           IN  /\ TablesOK(u) /\ Live(u, r.id)
               /\ u.items = [t.items EXCEPT ![r.id] = BouncedRow(t.items[r.id])]
               /\ u.runs = RunsAfter(t.runs, r.id, "backlog", t.items[r.id].body)
               /\ u.comments = [t.comments EXCEPT ![r.id] = @ \cup {"bounce notice"}]
<1> DEFINE id == r.id
           m == BounceMove(t, r)
           s == Moved(t, m)
           a == UpdateAssignee(s, id, NoAgent)
           u == Bounced(t, r)
<1>1. /\ id \in Id /\ id \in DOMAIN t.items /\ Item(t, id) = t.items[id]
      /\ t.items[id] \in Row /\ t.items[id].id = id
  BY RowOfId
<1>2. /\ m.id = id /\ m.to = "backlog" /\ m.assignee = NoAgent /\ m.reason = t.items[id].body
      /\ m.resolution = None /\ m.closed_by = None
  BY <1>1 DEF BounceMove, MoveOf
<1>3. MoveTyped(m)  BY <1>1, <1>2 DEF MoveTyped, Status, VALID_STATUSES, Row
<1> HIDE DEF m
<1>4. /\ TablesOK(s) /\ Live(s, id)
      /\ s.items = [t.items EXCEPT ![id] = MovedRow(t.items[id], m)]
      /\ s.runs = RunsAfter(t.runs, id, "backlog", t.items[id].body)
      /\ s.comments = t.comments
  BY <1>2, <1>3, MovedShape
<1> HIDE DEF s
<1>5. /\ TablesOK(a) /\ Live(a, id)
      /\ a.items = [s.items EXCEPT ![id] = [s.items[id] EXCEPT !.assignee = NoAgent]]
      /\ a.runs = s.runs /\ a.comments = s.comments
  BY <1>4, AssigneeSet
<1>6. [s.items[id] EXCEPT !.assignee = NoAgent] = BouncedRow(t.items[id])
  <2> DEFINE x == StatusRow(t.items[id], "backlog")
  <2>1. s.items[id] = MovedRow(t.items[id], m)  BY <1>1, <1>4
  <2>0. "backlog" \in Status  BY DEF Status, VALID_STATUSES
  <2>2. x \in Row  BY <1>1, <2>0, StatusRowFields
  <2>3. MovedRow(t.items[id], m) = [x EXCEPT !.assignee = @, !.resolution = @, !.closed_by = @]
    BY <1>2 DEF MovedRow
  <2> HIDE DEF x
  <2>4. [x EXCEPT !.assignee = @, !.resolution = @, !.closed_by = @] = x  BY <2>2 DEF Row
  <2> QED  BY <2>1, <2>3, <2>4 DEF BouncedRow, x
<1>7. a.items = [t.items EXCEPT ![id] = BouncedRow(t.items[id])]  BY <1>4, <1>5, <1>6
<1>8. u = AddComment(a, id, "bounce notice")  BY DEF Bounced, s, m
<1> HIDE DEF a
<1>9. LET x == AddComment(a, id, "bounce notice")
      IN  /\ TablesOK(x) /\ x.items = a.items /\ x.runs = a.runs
          /\ x.comments = [a.comments EXCEPT ![id] = @ \cup {"bounce notice"}]
  BY <1>1, <1>5, CommentAdded DEF Comment
<1> HIDE DEF u
<1>10. /\ TablesOK(u) /\ u.items = a.items /\ u.runs = a.runs
       /\ u.comments = [a.comments EXCEPT ![id] = @ \cup {"bounce notice"}]
  BY <1>8, <1>9
<1>11. Live(u, id)  BY <1>5, <1>10, LiveIff
<1> QED  BY <1>4, <1>5, <1>7, <1>10, <1>11 DEF u

\* A requeue, served or replayed: the status, the assignee, the count, the tag.
RequeuedRow(row, to, n, dead) ==
    [StatusRow(row, to) EXCEPT !.assignee = NoAgent, !.attempts = n,
                               !.tags = IF dead THEN @ \cup {DEAD} ELSE @]

RequeueWrites(t, id, to, n, dead) ==
    LET s == UpdateAssignee(UpdateStatus(t, id, to, None), id, NoAgent)
        c == SetItem(s, id, [Item(s, id) EXCEPT !.attempts = n])
    IN  IF dead THEN AddTag(c, id, DEAD) ELSE c

\* A requeue writes one row and one landing without a stamp.
LEMMA RequeueShape ==
    ASSUME NEW t, TablesOK(t), NEW id, Live(t, id), NEW to \in Status,
           NEW n \in 0..MaxAttempts, NEW dead \in BOOLEAN
    PROVE  LET u == RequeueWrites(t, id, to, n, dead)
           IN  /\ TablesOK(u) /\ Live(u, id)
               /\ u.items = [t.items EXCEPT ![id] = RequeuedRow(t.items[id], to, n, dead)]
               /\ u.runs = RunsAfter(t.runs, id, to, None)
               /\ u.comments = t.comments
<1> DEFINE p == UpdateStatus(t, id, to, None)
           s == UpdateAssignee(p, id, NoAgent)
           crow == [s.items[id] EXCEPT !.attempts = n]
           c == SetItem(s, id, crow)
           drow == [crow EXCEPT !.tags = @ \cup {DEAD}]
           d == SetItem(c, id, drow)
           u == RequeueWrites(t, id, to, n, dead)
<1>1. /\ id \in Id /\ id \in DOMAIN t.items /\ t.items[id] \in Row /\ t.items[id].id = id
      /\ ~t.items[id].deleted
  BY RowOfId
<1>2. /\ TablesOK(p) /\ Live(p, id)
      /\ p.items = [t.items EXCEPT ![id] = StatusRow(t.items[id], to)]
      /\ p.runs = RunsAfter(t.runs, id, to, None) /\ p.comments = t.comments
  BY StatusUpdated
<1> HIDE DEF p
<1>3. /\ TablesOK(s) /\ Live(s, id)
      /\ s.items = [p.items EXCEPT ![id] = [p.items[id] EXCEPT !.assignee = NoAgent]]
      /\ s.runs = p.runs /\ s.comments = p.comments
  BY <1>2, AssigneeSet
<1> HIDE DEF s
<1>4. /\ Item(s, id) = s.items[id] /\ s.items[id] \in Row /\ s.items[id].id = id
      /\ ~s.items[id].deleted
  BY <1>3, RowOfId
<1>5. crow \in Row /\ crow.id = id /\ ~crow.deleted  BY <1>4 DEF Row
<1>6. drow \in Row /\ drow.id = id /\ ~drow.deleted  BY <1>5 DEF Row, Tag
<1>7. u = IF dead THEN AddTag(c, id, DEAD) ELSE c
  BY <1>4 DEF RequeueWrites, s, p
<1> HIDE DEF crow
<1>8. /\ TablesOK(c) /\ Live(c, id) /\ c.items = [s.items EXCEPT ![id] = crow]
      /\ c.runs = s.runs /\ c.comments = s.comments
  BY <1>3, <1>5, RowSet
<1> HIDE DEF c
<1>9. Item(c, id) = crow
  <2>1. id \in DOMAIN s.items /\ Item(c, id) = c.items[id]  BY <1>3, <1>8, RowOfId
  <2> QED  BY <1>8, <2>1
<1>10. AddTag(c, id, DEAD) = d  BY <1>9 DEF AddTag
<1> HIDE DEF drow
<1>11. /\ TablesOK(d) /\ Live(d, id) /\ d.items = [c.items EXCEPT ![id] = drow]
       /\ d.runs = c.runs /\ d.comments = c.comments
  BY <1>6, <1>8, RowSet
<1> HIDE DEF d
<1>12. s.items[id] = [StatusRow(t.items[id], to) EXCEPT !.assignee = NoAgent]
  <2>1. p.items[id] = StatusRow(t.items[id], to) /\ id \in DOMAIN p.items  BY <1>1, <1>2
  <2> QED  BY <1>3, <2>1
<1>13. c.items = [t.items EXCEPT ![id] = crow] /\ d.items = [t.items EXCEPT ![id] = drow]
  BY <1>2, <1>3, <1>8, <1>11
<1>14. CASE dead
  <2>1. drow = RequeuedRow(t.items[id], to, n, dead)
    <3> DEFINE v == StatusRow(t.items[id], to)
    <3>1. v \in Row  BY <1>1, StatusRowFields
    <3>2. s.items[id] = [v EXCEPT !.assignee = NoAgent]  BY <1>12
    <3> HIDE DEF v
    <3>3. drow = [v EXCEPT !.assignee = NoAgent, !.attempts = n, !.tags = @ \cup {DEAD}]
      BY <3>1, <3>2 DEF drow, crow, Row
    <3> QED  BY <1>14, <3>3 DEF RequeuedRow, v
  <2> QED  BY <1>2, <1>3, <1>7, <1>8, <1>10, <1>11, <1>13, <1>14, <2>1
<1>15. CASE ~dead
  <2>1. crow = RequeuedRow(t.items[id], to, n, dead)
    <3> DEFINE v == StatusRow(t.items[id], to)
    <3>1. v \in Row  BY <1>1, StatusRowFields
    <3>2. s.items[id] = [v EXCEPT !.assignee = NoAgent]  BY <1>12
    <3> HIDE DEF v
    <3>3. crow = [v EXCEPT !.assignee = NoAgent, !.attempts = n, !.tags = @]
      BY <3>1, <3>2 DEF crow, Row
    <3> QED  BY <1>15, <3>3 DEF RequeuedRow, v
  <2> QED  BY <1>2, <1>3, <1>7, <1>8, <1>13, <1>15, <2>1
<1> QED  BY <1>14, <1>15

\* A ratification.
LEMMA RatifiedRowTyped ==
    ASSUME NEW row \in Row
    PROVE  /\ RatifiedRow(row) \in Row
           /\ RatifiedRow(row).id = row.id /\ RatifiedRow(row).deleted = row.deleted
           /\ RatifiedRow(row).assignee = row.assignee /\ RatifiedRow(row).body = row.body
<1>1. "in_progress" \in Status  BY DEF Status, VALID_STATUSES
<1> QED  BY <1>1 DEF RatifiedRow, Row

\* A ratification writes rows only.
LEMMA RatifiedShape ==
    ASSUME NEW t, TablesOK(t)
    PROVE  /\ TablesOK(Ratified(t))
           /\ Ratified(t).items = [n \in DOMAIN t.items |-> RatifiedRow(t.items[n])]
           /\ Ratified(t).runs = t.runs /\ Ratified(t).comments = t.comments
<1> DEFINE rows == [n \in DOMAIN t.items |-> RatifiedRow(t.items[n])]
<1>1. t.items \in Seq(Row) /\ DOMAIN t.items = 1..Len(t.items) /\ Len(t.items) \in Nat
  BY DEF TablesOK, TableSet
<1>2. \A n \in DOMAIN t.items : t.items[n] \in Row  BY <1>1
<1>3. rows \in Seq(Row) /\ Len(rows) = Len(t.items)
  <2>1. rows \in [1..Len(t.items) -> Row]  BY <1>1, <1>2, RatifiedRowTyped
  <2> QED  BY <1>1, <2>1
<1>4. Ratified(t) = [items |-> rows, runs |-> t.runs, comments |-> t.comments]
  BY DEF Ratified, TablesOK, TableSet
<1>5. \A n \in DOMAIN rows : rows[n].id = n
  BY <1>2, RatifiedRowTyped DEF TablesOK
<1> HIDE DEF rows
<1>6. TablesOK(Ratified(t))  BY <1>3, <1>4, <1>5 DEF TablesOK, TableSet
<1> QED  BY <1>4, <1>6 DEF rows

\* A create: the next id is one past the number of rows.
LEMMA NextIdIsNext ==
    ASSUME NEW t, TablesOK(t)
    PROVE  NextId(t) = Len(t.items) + 1
<1> DEFINE S == {0} \cup {t.items[n].id : n \in DOMAIN t.items}
<1>1. DOMAIN t.items = 1..Len(t.items) /\ Len(t.items) \in Nat
  BY DEF TablesOK, TableSet
<1>2. \A x : x \in S <=> x \in 0..Len(t.items)
  BY <1>1 DEF TablesOK
<1>3. S = 0..Len(t.items)  BY <1>2
<1> HIDE DEF S
<1>4. Max(S) = Len(t.items)  BY <1>1, <1>3 DEF Max
<1> QED  BY <1>4 DEF NextId, S

NewRow(id, r) ==
    [id |-> id, type |-> r.type, status |-> "backlog", assignee |-> r.assignee,
     body |-> r.body, tags |-> r.tags, attempts |-> 0, resolution |-> None,
     closed_by |-> None, rank |-> None, deleted |-> FALSE]

\* A create appends a row whose id is the new length, and its first landing.
LEMMA CreatedShape ==
    ASSUME NEW t, NEW r, TablesOK(t), Len(t.items) < MaxItems,
           r.type \in DOMAIN BoardOf, r.assignee \in Agent \cup {NoAgent},
           r.body \in Body, r.tags \subseteq Tag,
           NEW id, id = Len(t.items) + 1
    PROVE  LET u == CreateWithId(t, id, r)
           IN  /\ TablesOK(u) /\ id \in Id /\ NewRow(id, r) \in Row
               /\ u.items = Append(t.items, NewRow(id, r))
               /\ u.runs = RunsAfter(t.runs, id, "backlog", None)
               /\ u.comments = t.comments
<1> DEFINE row == NewRow(id, r)
           v == [t EXCEPT !.items = Append(@, row)]
           u == CreateWithId(t, id, r)
<1>1. t.items \in Seq(Row) /\ Len(t.items) \in Nat /\ DOMAIN t.items = 1..Len(t.items)
  BY DEF TablesOK, TableSet
<1>2. id \in Id  BY <1>1, BoardAssumption DEF Id
<1>3. row \in Row /\ row.id = id
  BY <1>2, BoardAssumption DEF NewRow, Row, Status, VALID_STATUSES
<1>4. u = RecordRun(v, id, "backlog", None)  BY DEF CreateWithId, NewRow
<1> HIDE DEF row, u
<1>5. /\ Append(t.items, row) \in Seq(Row) /\ Len(Append(t.items, row)) = Len(t.items) + 1
      /\ \A n \in 1..Len(t.items) : Append(t.items, row)[n] = t.items[n]
      /\ Append(t.items, row)[id] = row
  BY <1>1, <1>3, AppendProperties
<1>6. v = [items |-> Append(t.items, row), runs |-> t.runs, comments |-> t.comments]
  <2> DEFINE x == Append(t.items, row)
  <2>1. v = [t EXCEPT !.items = x]  OBVIOUS
  <2> HIDE DEF x, v
  <2>2. v = [items |-> x, runs |-> t.runs, comments |-> t.comments]
    BY <2>1, WithItems
  <2> QED  BY <2>2 DEF x
<1>7. \A n \in DOMAIN Append(t.items, row) : Append(t.items, row)[n].id = n
  <2>1. DOMAIN Append(t.items, row) = 1..(Len(t.items) + 1)  BY <1>5
  <2>2. \A n \in 1..(Len(t.items) + 1) : n \in 1..Len(t.items) \/ n = id  BY <1>1
  <2> QED  BY <1>1, <1>3, <1>5, <2>1, <2>2 DEF TablesOK
<1>8. TablesOK(v) /\ v.items = Append(t.items, row) /\ v.runs = t.runs /\ v.comments = t.comments
  <2>1. v.items = Append(t.items, row) /\ v.runs = t.runs /\ v.comments = t.comments
    BY <1>6
  <2>2. v \in TableSet  BY <1>5, <1>6 DEF TablesOK, TableSet
  <2>3. Len(v.items) <= MaxItems  BY <1>1, <1>5, <2>1, BoardAssumption
  <2>4. \A n \in DOMAIN v.items : v.items[n].id = n  BY <1>7, <2>1
  <2> HIDE DEF v
  <2> QED  BY <2>1, <2>2, <2>3, <2>4 DEF TablesOK
<1> HIDE DEF v
<1>9. LET x == RecordRun(v, id, "backlog", None)
      IN  /\ TablesOK(x) /\ x.items = v.items /\ x.comments = v.comments
          /\ x.runs = RunsAfter(v.runs, id, "backlog", None)
  BY <1>2, <1>8, RunRecorded
<1> QED  BY <1>2, <1>3, <1>4, <1>8, <1>9 DEF u, row

-----------------------------------------------------------------------------
(* The invariant: typed tables whose ids follow the rows, the agent that was   *)
(* told named by a live row, and no open row with a resolution.                *)

BoardTyped ==
    /\ TablesOK(tables)
    /\ claimants \in [Id -> SUBSET Agent]
    /\ refusedBody \in [Id -> Body \cup {None}]

OwnerNamed ==
    \A id \in Id : claimants[id] # {} =>
        /\ id \in DOMAIN tables.items /\ ~tables.items[id].deleted
        /\ claimants[id] = {tables.items[id].assignee}

ClosureKept(row) == row.resolution # None => row.status \in TERMINAL_STATES

BoardInv ==
    /\ BoardTyped /\ OwnerNamed
    /\ \A n \in DOMAIN tables.items : ClosureKept(tables.items[n])

\* The empty board has the invariant.
LEMMA BoardInit == Init => BoardInv
<1> SUFFICES ASSUME Init  PROVE BoardInv
  OBVIOUS
<1>1. NoTables \in TableSet  BY DEF NoTables, TableSet, Landings
<1>2. tables.items = <<>> /\ DOMAIN tables.items = {}  BY DEF Init, NoTables
<1>3. TablesOK(tables)  BY <1>1, <1>2, BoardAssumption DEF Init, TablesOK
<1> QED  BY <1>2, <1>3 DEF Init, BoardInv, BoardTyped, OwnerNamed

\* A step that writes one live row and leaves the claims of the others alone.
LEMMA OneRowStep ==
    ASSUME BoardInv, NEW id, Live(tables, id), NEW row \in Row, row.id = id,
           TablesOK(tables'), tables'.items = [tables.items EXCEPT ![id] = row],
           ClosureKept(row),
           claimants' \in [Id -> SUBSET Agent], refusedBody' \in [Id -> Body \cup {None}],
           \A j \in Id : j # id => claimants'[j] = claimants[j],
           claimants'[id] # {} => ~row.deleted /\ claimants'[id] = {row.assignee}
    PROVE  BoardInv'
<1>1. id \in Id /\ id \in DOMAIN tables.items  BY RowOfId DEF BoardInv, BoardTyped
<1>2. /\ DOMAIN tables'.items = DOMAIN tables.items /\ tables'.items[id] = row
      /\ \A n \in DOMAIN tables.items : n # id => tables'.items[n] = tables.items[n]
  BY <1>1
<1>3. BoardTyped'  BY DEF BoardTyped
<1>4. OwnerNamed'
  <2> SUFFICES ASSUME NEW j \in Id, claimants'[j] # {}
               PROVE  /\ j \in DOMAIN tables'.items /\ ~tables'.items[j].deleted
                      /\ claimants'[j] = {tables'.items[j].assignee}
    BY DEF OwnerNamed
  <2>1. CASE j = id  BY <1>1, <1>2, <2>1
  <2>2. CASE j # id  BY <1>2, <2>2 DEF BoardInv, OwnerNamed
  <2> QED  BY <2>1, <2>2
<1>5. \A n \in DOMAIN tables'.items : ClosureKept(tables'.items[n])
  BY <1>2 DEF BoardInv
<1> QED  BY <1>3, <1>4, <1>5 DEF BoardInv

\* A create keeps the invariant: nobody was told the new item yet.
LEMMA CreateStep ==
    ASSUME BoardInv, Create
    PROVE  BoardInv'
<1>1. PICK r \in Request : r.verb = "create" /\ Serve(r) /\ UNCHANGED <<claimants, refusedBody>>
  BY DEF Create
<1> DEFINE id == Len(tables.items) + 1
           row == NewRow(id, r)
<1>2. TablesOK(tables)  BY DEF BoardInv, BoardTyped
<1>3. tables' = CreateWithId(tables, id, r) /\ Len(tables.items) < MaxItems
  BY <1>1, <1>2, NextIdIsNext DEF Serve, Handled, Created, WithinBounds
<1>4. /\ r.type \in DOMAIN BoardOf /\ r.assignee \in Agent \cup {NoAgent}
      /\ r.body \in Body /\ r.tags \subseteq Tag
  BY <1>1, RequestAssumption
<1>5. /\ TablesOK(tables') /\ row \in Row
      /\ tables'.items = Append(tables.items, row)
  BY <1>2, <1>3, <1>4, CreatedShape
<1>6. tables.items \in Seq(Row) /\ DOMAIN tables.items = 1..Len(tables.items)
      /\ Len(tables.items) \in Nat
  BY <1>2 DEF TablesOK, TableSet
<1>7. ClosureKept(row)  BY DEF ClosureKept, NewRow
<1> HIDE DEF row
<1>8. /\ DOMAIN tables'.items = 1..id
      /\ \A n \in 1..Len(tables.items) : tables'.items[n] = tables.items[n]
      /\ tables'.items[id] = row
  BY <1>5, <1>6, AppendProperties
<1>9. \A n \in 1..id : n \in 1..Len(tables.items) \/ n = id  BY <1>6
<1>10. BoardTyped'  BY <1>1, <1>5 DEF BoardInv, BoardTyped
<1>11. OwnerNamed'
  <2> SUFFICES ASSUME NEW j \in Id, claimants[j] # {}
               PROVE  /\ j \in DOMAIN tables'.items /\ ~tables'.items[j].deleted
                      /\ claimants[j] = {tables'.items[j].assignee}
    BY <1>1 DEF OwnerNamed
  <2>1. j \in 1..Len(tables.items)  BY <1>6 DEF BoardInv, OwnerNamed
  <2> QED  BY <1>6, <1>8, <2>1 DEF BoardInv, OwnerNamed
<1>12. \A n \in DOMAIN tables'.items : ClosureKept(tables'.items[n])
  BY <1>6, <1>7, <1>8, <1>9 DEF BoardInv
<1> QED  BY <1>10, <1>11, <1>12 DEF BoardInv

\* A move keeps the invariant: it passes the claim on, leaves it, or drops it.
LEMMA MoveStep ==
    ASSUME BoardInv, Move
    PROVE  BoardInv'
<1>1. PICK r \in Request :
        /\ r.verb = "move" /\ Serve(r)
        /\ claimants' = [claimants EXCEPT ![r.id] =
               IF r.assignee = NoAgent THEN @
               ELSE IF r.force \/ r.to # "in_progress" THEN {}
               ELSE IF Item(tables, r.id).status = "in_progress" THEN @ \cup {r.assignee}
               ELSE {r.assignee}]
        /\ UNCHANGED refusedBody
  BY DEF Move
<1> DEFINE id == r.id
           old == tables.items[id]
           row == MovedRow(old, r)
<1>2. TablesOK(tables)  BY DEF BoardInv, BoardTyped
<1>3. ~MoveRefused(tables, r) /\ tables' = Moved(tables, r)
  BY <1>1 DEF Serve, Refused, Handled
<1>4. Live(tables, id)  BY <1>3 DEF MoveRefused
<1>5. /\ id \in Id /\ id \in DOMAIN tables.items /\ Item(tables, id) = old
      /\ old \in Row /\ old.id = id /\ ~old.deleted
  BY <1>2, <1>4, RowOfId
<1>6. MoveTyped(r) /\ r.force \in BOOLEAN  BY <1>1, RequestAssumption DEF MoveTyped
<1>7. TablesOK(tables') /\ tables'.items = [tables.items EXCEPT ![id] = row]
  BY <1>2, <1>3, <1>4, <1>6, MovedShape
<1>8. row \in Row /\ row.id = id /\ ~row.deleted
      /\ row.assignee = (IF r.assignee = NoAgent THEN old.assignee ELSE r.assignee)
  BY <1>5, <1>6, MovedRowFields
<1>9. ClosureKept(row)
  <2>1. r.resolution # None => r.to \in TERMINAL_STATES
    BY <1>3 DEF MoveRefused, ResolutionAllowed
  <2>2. row.status = r.to
        /\ (row.resolution # None => r.resolution # None \/ r.to \in TERMINAL_STATES)
    BY <1>5, <1>6, MovedRowFields
  <2> QED  BY <2>1, <2>2 DEF ClosureKept
<1>10. claimants[id] # {} => claimants[id] = {old.assignee} /\ old.assignee \in Agent
  BY <1>5 DEF BoardInv, BoardTyped, OwnerNamed
<1>11. claimants' \in [Id -> SUBSET Agent] /\ \A j \in Id : j # id => claimants'[j] = claimants[j]
  <2>1. claimants \in [Id -> SUBSET Agent]  BY DEF BoardInv, BoardTyped
  <2>2. r.assignee # NoAgent => r.assignee \in Agent  BY <1>6 DEF MoveTyped
  <2> QED  BY <1>1, <1>5, <2>1, <2>2
<1>12. claimants'[id] # {} => claimants'[id] = {row.assignee}
  <2>0. claimants \in [Id -> SUBSET Agent]  BY DEF BoardInv, BoardTyped
  <2>1. claimants'[id] =
          IF r.assignee = NoAgent THEN claimants[id]
          ELSE IF r.force \/ r.to # "in_progress" THEN {}
          ELSE IF old.status = "in_progress" THEN claimants[id] \cup {r.assignee}
          ELSE {r.assignee}
    BY <1>1, <1>5, <2>0
  <2>2. CASE r.assignee = NoAgent  BY <1>8, <1>10, <2>1, <2>2
  <2>3. CASE r.assignee # NoAgent /\ (r.force \/ r.to # "in_progress")  BY <2>1, <2>3
  <2>4. CASE r.assignee # NoAgent /\ ~r.force /\ r.to = "in_progress"
    <3>1. row.assignee = r.assignee  BY <1>8, <2>4
    <3>2. CASE old.status = "in_progress"
      <4>1. old.assignee \in {NoAgent, r.assignee}
        BY <1>3, <1>5, <2>4, <3>2 DEF MoveRefused, ClaimConflict
      <4>2. claimants[id] \cup {r.assignee} = {r.assignee}
        BY <1>10, <4>1, BoardAssumption
      <4> QED  BY <2>1, <2>4, <3>1, <3>2, <4>2
    <3>3. CASE old.status # "in_progress"  BY <2>1, <2>4, <3>1, <3>3
    <3> QED  BY <3>2, <3>3
  <2> QED  BY <1>6, <2>2, <2>3, <2>4
<1>13. refusedBody' \in [Id -> Body \cup {None}]  BY <1>1 DEF BoardInv, BoardTyped
<1> HIDE DEF row
<1> QED  BY <1>4, <1>7, <1>8, <1>9, <1>11, <1>12, <1>13, OneRowStep

\* What a claim that is not refused finds, and what it writes.
LEMMA ClaimShape ==
    ASSUME BoardInv, NEW r \in Request, r.verb = "claim", Serve(r)
    PROVE  /\ Live(tables, r.id) /\ r.agent \in Agent
           /\ tables.items[r.id].assignee \in {NoAgent, r.agent}
           /\ ~Unrepaired(tables, r.id)
           /\ TablesOK(tables')
           /\ tables'.items =
                [tables.items EXCEPT ![r.id] = MovedRow(tables.items[r.id], ClaimMove(r))]
           /\ tables'.runs = tables.runs
<1>1. TablesOK(tables)  BY DEF BoardInv, BoardTyped
<1>2. ~ClaimRefused(tables, r) /\ tables' = Moved(tables, ClaimMove(r))
  BY DEF Serve, Refused, Handled, Claimed
<1>3. Live(tables, r.id) /\ ~HeldByAnother(tables, r.id, r.agent) /\ ~Unrepaired(tables, r.id)
  BY <1>2 DEF ClaimRefused
<1>4. r.agent \in Agent  BY RequestAssumption
<1>5. Item(tables, r.id) = tables.items[r.id]  BY <1>1, <1>3, RowOfId
<1>6. ClaimMove(r).id = r.id /\ ClaimMove(r).to = "in_progress" /\ MoveTyped(ClaimMove(r))
  BY <1>4 DEF ClaimMove, MoveOf, MoveTyped, Status, VALID_STATUSES
<1>7. LET u == Moved(tables, ClaimMove(r))
      IN  /\ TablesOK(u)
          /\ u.items = [tables.items EXCEPT ![r.id] = MovedRow(tables.items[r.id], ClaimMove(r))]
          /\ u.runs = RunsAfter(tables.runs, r.id, "in_progress", ClaimMove(r).reason)
  BY <1>1, <1>3, <1>6, MovedShape
<1>8. RunsAfter(tables.runs, r.id, "in_progress", ClaimMove(r).reason) = tables.runs
  BY DEF RunsAfter
<1> QED  BY <1>2, <1>3, <1>4, <1>5, <1>7, <1>8 DEF HeldByAnother

\* A claim keeps the invariant: what it answers is what it writes.
LEMMA ClaimStep ==
    ASSUME BoardInv, Claim
    PROVE  BoardInv'
<1>1. PICK r \in Request :
        /\ r.verb = "claim" /\ Serve(r)
        /\ claimants' = [claimants EXCEPT ![r.id] = @ \cup {r.agent}]
        /\ UNCHANGED refusedBody
  BY DEF Claim
<1> DEFINE id == r.id
           old == tables.items[id]
           row == MovedRow(old, ClaimMove(r))
<1>2. /\ TablesOK(tables) /\ claimants \in [Id -> SUBSET Agent]
      /\ refusedBody \in [Id -> Body \cup {None}]
  BY DEF BoardInv, BoardTyped
<1>3. /\ Live(tables, id) /\ r.agent \in Agent /\ old.assignee \in {NoAgent, r.agent}
      /\ TablesOK(tables') /\ tables'.items = [tables.items EXCEPT ![id] = row]
  BY <1>1, ClaimShape
<1>4. /\ id \in Id /\ id \in DOMAIN tables.items
      /\ old \in Row /\ old.id = id /\ ~old.deleted
  BY <1>2, <1>3, RowOfId
<1>5. row \in Row /\ row.id = id /\ ~row.deleted /\ row.assignee = r.agent
  <2>1. r.agent # NoAgent  BY <1>3, BoardAssumption
  <2>2. /\ ClaimMove(r).to = "in_progress" /\ ClaimMove(r).assignee = r.agent
        /\ ClaimMove(r).resolution = None /\ ClaimMove(r).closed_by = None
    BY DEF ClaimMove, MoveOf
  <2>0. "in_progress" \in Status  BY DEF Status, VALID_STATUSES
  <2>3. StatusRow(old, "in_progress") \in Row
    BY <1>4, <2>0, StatusRowFields
  <2>4. row = [StatusRow(old, "in_progress") EXCEPT !.assignee = r.agent, !.resolution = @,
                                                    !.closed_by = @]
    BY <2>1, <2>2 DEF MovedRow
  <2>5. StatusRow(old, "in_progress").id = id /\ ~StatusRow(old, "in_progress").deleted
    BY <1>4, <2>0, StatusRowFields
  <2> QED  BY <1>3, <2>3, <2>4, <2>5 DEF Row
<1>6. ClosureKept(row)
  BY <1>4 DEF ClosureKept, MovedRow, StatusRow, ClaimMove, MoveOf, Row, TERMINAL_STATES
<1>7. claimants[id] # {} => claimants[id] = {old.assignee} /\ old.assignee \in Agent
  BY <1>2, <1>4 DEF BoardInv, OwnerNamed
<1>8. claimants'[id] = {r.agent}
  BY <1>1, <1>2, <1>3, <1>4, <1>7, BoardAssumption
<1>9. claimants' \in [Id -> SUBSET Agent] /\ \A j \in Id : j # id => claimants'[j] = claimants[j]
  BY <1>1, <1>2, <1>3, <1>4
<1> HIDE DEF row
<1> QED  BY <1>1, <1>2, <1>3, <1>5, <1>6, <1>8, <1>9, OneRowStep

\* A bounce keeps the invariant: it takes the item from whoever had it.
LEMMA BounceStep ==
    ASSUME BoardInv, Bounce
    PROVE  BoardInv'
<1>1. PICK r \in Request :
        /\ r.verb = "bounce" /\ Serve(r)
        /\ claimants' = [claimants EXCEPT ![r.id] = {}]
        /\ refusedBody' = [refusedBody EXCEPT ![r.id] = Item(tables, r.id).body]
  BY DEF Bounce
<1> DEFINE id == r.id
           old == tables.items[id]
           row == BouncedRow(old)
<1>2. /\ TablesOK(tables) /\ claimants \in [Id -> SUBSET Agent]
      /\ refusedBody \in [Id -> Body \cup {None}]
  BY DEF BoardInv, BoardTyped
<1>3. Live(tables, id) /\ tables' = Bounced(tables, r)
  BY <1>1 DEF Serve, Refused, Handled, BounceRefused
<1>4. /\ id \in Id /\ id \in DOMAIN tables.items /\ Item(tables, id) = old
      /\ old \in Row /\ old.id = id /\ ~old.deleted
  BY <1>2, <1>3, RowOfId
<1>5. TablesOK(tables') /\ tables'.items = [tables.items EXCEPT ![id] = row]
  BY <1>2, <1>3, BouncedShape
<1>6. row \in Row /\ row.id = id /\ ~row.deleted
  <2> DEFINE v == StatusRow(old, "backlog")
  <2>0. "backlog" \in Status  BY DEF Status, VALID_STATUSES
  <2>1. v \in Row /\ v.id = id /\ ~v.deleted  BY <1>4, <2>0, StatusRowFields
  <2>2. row = [v EXCEPT !.assignee = NoAgent]  BY DEF BouncedRow
  <2> HIDE DEF v, row
  <2> QED  BY <2>1, <2>2 DEF Row
<1>7. ClosureKept(row)
  BY <1>4 DEF ClosureKept, BouncedRow, StatusRow, Row, TERMINAL_STATES
<1>8. claimants'[id] = {} /\ claimants' \in [Id -> SUBSET Agent]
      /\ \A j \in Id : j # id => claimants'[j] = claimants[j]
  BY <1>1, <1>2, <1>4
<1>9. refusedBody' \in [Id -> Body \cup {None}]
  <2>1. old.body \in Body  BY <1>4 DEF Row
  <2> QED  BY <1>1, <1>2, <1>4, <2>1
<1> HIDE DEF row
<1> QED  BY <1>2, <1>3, <1>5, <1>6, <1>7, <1>8, <1>9, OneRowStep

\* A requeue that is not refused.
LEMMA RequeuedShape ==
    ASSUME NEW t, NEW r, TablesOK(t), ~RequeueRefused(t, r), Attempts(t, r) <= MaxAttempts
    PROVE  LET to == RequeueStatus(t, r)
               n == Attempts(t, r)
               dead == DeadLettered(t, r)
               u == Requeued(t, r)
           IN  /\ Live(t, r.id) /\ to \in Status /\ to \notin TERMINAL_STATES
               /\ n \in 0..MaxAttempts /\ dead \in BOOLEAN
               /\ TablesOK(u) /\ Live(u, r.id)
               /\ u.items = [t.items EXCEPT ![r.id] = RequeuedRow(t.items[r.id], to, n, dead)]
               /\ u.runs = RunsAfter(t.runs, r.id, to, None)
               /\ u.comments = t.comments
<1> DEFINE to == RequeueStatus(t, r)
           n == Attempts(t, r)
           dead == DeadLettered(t, r)
<1>1. Live(t, r.id)  BY DEF RequeueRefused
<1>2. t.items[r.id] \in Row /\ Item(t, r.id) = t.items[r.id]  BY <1>1, RowOfId
<1>3. n \in 0..MaxAttempts  BY <1>2, BoardAssumption DEF Attempts, Row
<1>4. dead \in BOOLEAN  BY DEF DeadLettered
<1>5. to \in Status /\ to \notin TERMINAL_STATES
  BY DEF RequeueStatus, Status, VALID_STATUSES, TERMINAL_STATES
<1>6. Requeued(t, r) = RequeueWrites(t, r.id, to, n, dead)
  BY DEF Requeued, RequeueWrites
<1> HIDE DEF to, n, dead
<1>7. LET u == RequeueWrites(t, r.id, to, n, dead)
      IN  /\ TablesOK(u) /\ Live(u, r.id)
          /\ u.items = [t.items EXCEPT ![r.id] = RequeuedRow(t.items[r.id], to, n, dead)]
          /\ u.runs = RunsAfter(t.runs, r.id, to, None)
          /\ u.comments = t.comments
  BY <1>1, <1>3, <1>4, <1>5, RequeueShape
<1> QED  BY <1>1, <1>3, <1>4, <1>5, <1>6, <1>7 DEF to, n, dead

\* A requeue, or a dead letter, keeps the invariant.
LEMMA RequeueStep ==
    ASSUME BoardInv, Requeue
    PROVE  BoardInv'
<1>1. PICK r \in Request :
        /\ r.verb = "requeue" /\ Serve(r)
        /\ claimants' = [claimants EXCEPT ![r.id] = {}]
        /\ UNCHANGED refusedBody
  BY DEF Requeue
<1> DEFINE id == r.id
           old == tables.items[id]
           to == RequeueStatus(tables, r)
           n == Attempts(tables, r)
           dead == DeadLettered(tables, r)
           row == RequeuedRow(old, to, n, dead)
<1>2. /\ TablesOK(tables) /\ claimants \in [Id -> SUBSET Agent]
      /\ refusedBody \in [Id -> Body \cup {None}]
  BY DEF BoardInv, BoardTyped
<1>3. ~RequeueRefused(tables, r) /\ n <= MaxAttempts /\ tables' = Requeued(tables, r)
  BY <1>1 DEF Serve, Refused, Handled, WithinBounds
<1>4. /\ Live(tables, id) /\ to \in Status /\ to \notin TERMINAL_STATES
      /\ n \in 0..MaxAttempts /\ dead \in BOOLEAN
      /\ TablesOK(tables') /\ tables'.items = [tables.items EXCEPT ![id] = row]
  BY <1>2, <1>3, RequeuedShape
<1>5. /\ id \in Id /\ id \in DOMAIN tables.items
      /\ old \in Row /\ old.id = id /\ ~old.deleted
  BY <1>2, <1>4, RowOfId
<1> HIDE DEF to, n, dead
<1>6. row \in Row /\ row.id = id /\ ~row.deleted
  BY <1>4, <1>5 DEF RequeuedRow, StatusRow, Row, Tag
<1>7. ClosureKept(row)
  BY <1>4, <1>5 DEF ClosureKept, RequeuedRow, StatusRow, Row
<1>8. claimants'[id] = {} /\ claimants' \in [Id -> SUBSET Agent]
      /\ \A j \in Id : j # id => claimants'[j] = claimants[j]
  BY <1>1, <1>2, <1>5
<1> HIDE DEF row
<1> QED  BY <1>1, <1>2, <1>4, <1>6, <1>7, <1>8, OneRowStep

\* The row an update makes of one.
UpdatedRow(row, r) ==
    [row EXCEPT !.assignee = Given(r.assignee, @), !.tags = Given(r.tags, @),
                !.body = Given(r.body, @)]

\* An update, a rank and a delete, the writes of one field or three.
LEMMA UpdatedShape ==
    ASSUME NEW t, NEW r \in Request, r.verb = "update", TablesOK(t), Live(t, r.id)
    PROVE  LET old == t.items[r.id]
               row == UpdatedRow(old, r)
               u == Updated(t, r)
           IN  /\ row \in Row /\ row.id = r.id /\ ~row.deleted
               /\ TablesOK(u) /\ Live(u, r.id)
               /\ u.items = [t.items EXCEPT ![r.id] = row]
               /\ u.runs = t.runs /\ u.comments = t.comments
<1> DEFINE old == t.items[r.id]
           row == UpdatedRow(old, r)
<1>1. /\ Item(t, r.id) = old /\ old \in Row /\ old.id = r.id /\ ~old.deleted
  BY RowOfId
<1>2. /\ Given(r.assignee, old.assignee) \in Agent \cup {NoAgent}
      /\ Given(r.tags, old.tags) \subseteq Tag /\ Given(r.body, old.body) \in Body
  BY <1>1, RequestAssumption DEF Given, Row
<1>3. row \in Row /\ row.id = r.id /\ ~row.deleted  BY <1>1, <1>2 DEF UpdatedRow, Row
<1>4. Updated(t, r) = SetItem(t, r.id, row)  BY <1>1 DEF Updated, UpdatedRow
<1> HIDE DEF row
<1>5. LET u == SetItem(t, r.id, row)
      IN  /\ TablesOK(u) /\ (Live(u, r.id) <=> ~row.deleted)
          /\ u.items = [t.items EXCEPT ![r.id] = row]
          /\ u.runs = t.runs /\ u.comments = t.comments
  BY <1>3, RowSet
<1> QED  BY <1>3, <1>4, <1>5 DEF row

\* A rank writes the rank of one row.
LEMMA RankedShape ==
    ASSUME NEW t, NEW r \in Request, r.verb = "rank", TablesOK(t), Live(t, r.id)
    PROVE  LET row == [t.items[r.id] EXCEPT !.rank = r.rank]
               u == Ranked(t, r)
           IN  /\ row \in Row /\ row.id = r.id /\ ~row.deleted
               /\ TablesOK(u) /\ Live(u, r.id)
               /\ u.items = [t.items EXCEPT ![r.id] = row]
               /\ u.runs = t.runs /\ u.comments = t.comments
<1> DEFINE row == [t.items[r.id] EXCEPT !.rank = r.rank]
<1>1. Item(t, r.id) = t.items[r.id]  BY RowOfId
<1>2. row \in Row /\ row.id = r.id /\ ~row.deleted
  BY RowOfId, RequestAssumption DEF Row
<1>3. Ranked(t, r) = SetItem(t, r.id, row)  BY <1>1 DEF Ranked
<1> HIDE DEF row
<1>4. LET u == SetItem(t, r.id, row)
      IN  /\ TablesOK(u) /\ (Live(u, r.id) <=> ~row.deleted)
          /\ u.items = [t.items EXCEPT ![r.id] = row]
          /\ u.runs = t.runs /\ u.comments = t.comments
  BY <1>2, RowSet
<1> QED  BY <1>2, <1>3, <1>4 DEF row

\* A delete marks one row and keeps it.
LEMMA DeletedShape ==
    ASSUME NEW t, NEW r, TablesOK(t), Live(t, r.id)
    PROVE  LET row == [t.items[r.id] EXCEPT !.deleted = TRUE]
               u == Deleted(t, r)
           IN  /\ row \in Row /\ row.id = r.id /\ row.deleted
               /\ TablesOK(u) /\ ~Live(u, r.id)
               /\ u.items = [t.items EXCEPT ![r.id] = row]
               /\ u.runs = t.runs /\ u.comments = t.comments
<1> DEFINE row == [t.items[r.id] EXCEPT !.deleted = TRUE]
<1>1. Item(t, r.id) = t.items[r.id]  BY RowOfId
<1>2. row \in Row /\ row.id = r.id /\ row.deleted = TRUE
  <2>1. t.items[r.id] \in Row /\ t.items[r.id].id = r.id  BY RowOfId
  <2> QED  BY <2>1 DEF Row
<1>3. Deleted(t, r) = SetItem(t, r.id, row)  BY <1>1 DEF Deleted
<1> HIDE DEF row
<1>4. LET u == SetItem(t, r.id, row)
      IN  /\ TablesOK(u) /\ (Live(u, r.id) <=> ~row.deleted)
          /\ u.items = [t.items EXCEPT ![r.id] = row]
          /\ u.runs = t.runs /\ u.comments = t.comments
  BY <1>2, RowSet
<1> QED  BY <1>2, <1>3, <1>4 DEF row

\* An update keeps the invariant, one that reassigns the item included.
LEMMA UpdateStep ==
    ASSUME BoardInv, Update
    PROVE  BoardInv'
<1>1. PICK r \in Request :
        /\ r.verb = "update" /\ Serve(r)
        /\ claimants' = [claimants EXCEPT ![r.id] = IF r.assignee = Same THEN @ ELSE {}]
        /\ UNCHANGED refusedBody
  BY DEF Update
<1> DEFINE id == r.id
           old == tables.items[id]
           row == UpdatedRow(old, r)
<1>2. /\ TablesOK(tables) /\ claimants \in [Id -> SUBSET Agent]
      /\ refusedBody \in [Id -> Body \cup {None}]
  BY DEF BoardInv, BoardTyped
<1>3. Live(tables, id) /\ tables' = Updated(tables, r)
  BY <1>1 DEF Serve, Refused, Handled
<1>4. /\ id \in Id /\ id \in DOMAIN tables.items
      /\ old \in Row /\ old.id = id /\ ~old.deleted
  BY <1>2, <1>3, RowOfId
<1>5. /\ row \in Row /\ row.id = id /\ ~row.deleted
      /\ TablesOK(tables') /\ tables'.items = [tables.items EXCEPT ![id] = row]
  BY <1>1, <1>2, <1>3, UpdatedShape
<1>6. row.resolution = old.resolution /\ row.status = old.status
      /\ row.assignee = Given(r.assignee, old.assignee)
  BY <1>4 DEF UpdatedRow, Row
<1>7. ClosureKept(row)  BY <1>4, <1>6 DEF ClosureKept, BoardInv
<1>8. claimants'[id] # {} => claimants'[id] = {row.assignee}
  BY <1>1, <1>2, <1>4, <1>6 DEF BoardInv, OwnerNamed, Given
<1>9. claimants' \in [Id -> SUBSET Agent] /\ \A j \in Id : j # id => claimants'[j] = claimants[j]
  BY <1>1, <1>2, <1>4
<1> HIDE DEF row
<1> QED  BY <1>1, <1>2, <1>3, <1>5, <1>7, <1>8, <1>9, OneRowStep

\* A ratification keeps the invariant: no assignee changes and no row gets a resolution.
LEMMA RatifyStep ==
    ASSUME BoardInv, Ratify
    PROVE  BoardInv'
<1>1. tables' = Ratified(tables) /\ UNCHANGED <<claimants, refusedBody>>
  BY DEF Ratify, Serve, Handled
<1>2. TablesOK(tables)  BY DEF BoardInv, BoardTyped
<1>3. /\ TablesOK(tables')
      /\ tables'.items = [n \in DOMAIN tables.items |-> RatifiedRow(tables.items[n])]
  BY <1>1, <1>2, RatifiedShape
<1>4. \A n \in DOMAIN tables.items : tables.items[n] \in Row
  BY <1>2 DEF TablesOK, TableSet
<1>5. BoardTyped'  BY <1>1, <1>3 DEF BoardInv, BoardTyped
<1>6. OwnerNamed'
  BY <1>1, <1>3, <1>4, RatifiedRowTyped DEF BoardInv, OwnerNamed
<1>7. ASSUME NEW n \in DOMAIN tables.items  PROVE ClosureKept(RatifiedRow(tables.items[n]))
  <2>1. tables.items[n] \in Row /\ ClosureKept(tables.items[n])
    BY <1>4 DEF BoardInv
  <2> QED  BY <2>1 DEF ClosureKept, RatifiedRow, Row
<1>8. \A n \in DOMAIN tables'.items : ClosureKept(tables'.items[n])
  BY <1>3, <1>7
<1> QED  BY <1>5, <1>6, <1>8 DEF BoardInv

\* A rank and a comment keep the invariant.
LEMMA AnnotateStep ==
    ASSUME BoardInv, Annotate
    PROVE  BoardInv'
<1>1. PICK r \in Request : r.verb \in {"comment", "rank"} /\ Serve(r)
  BY DEF Annotate
<1>2. /\ TablesOK(tables) /\ UNCHANGED <<claimants, refusedBody>>
      /\ claimants \in [Id -> SUBSET Agent] /\ refusedBody \in [Id -> Body \cup {None}]
  BY DEF BoardInv, BoardTyped, Annotate
<1>3. Live(tables, r.id)  BY <1>1 DEF Serve, Refused
<1>4. /\ r.id \in Id /\ r.id \in DOMAIN tables.items
      /\ tables.items[r.id] \in Row /\ ~tables.items[r.id].deleted
  BY <1>2, <1>3, RowOfId
<1>5. CASE r.verb = "comment"
  <2>1. tables' = AddComment(tables, r.id, "text")
    BY <1>1, <1>5 DEF Serve, Handled, Commented
  <2>2. TablesOK(tables') /\ tables'.items = tables.items
    BY <1>2, <1>4, <2>1, CommentAdded DEF Comment
  <2> QED  BY <1>2, <2>2 DEF BoardInv, BoardTyped, OwnerNamed
<1>6. CASE r.verb = "rank"
  <2> DEFINE row == [tables.items[r.id] EXCEPT !.rank = r.rank]
  <2>1. tables' = Ranked(tables, r)  BY <1>1, <1>6 DEF Serve, Handled
  <2>2. /\ row \in Row /\ row.id = r.id /\ ~row.deleted
        /\ TablesOK(tables') /\ tables'.items = [tables.items EXCEPT ![r.id] = row]
    BY <1>2, <1>3, <1>6, <2>1, RankedShape
  <2>3. /\ row.resolution = tables.items[r.id].resolution
        /\ row.status = tables.items[r.id].status /\ row.assignee = tables.items[r.id].assignee
    BY <1>4 DEF Row
  <2>4. ClosureKept(row)  BY <1>4, <2>3 DEF BoardInv, ClosureKept
  <2>5. claimants'[r.id] # {} => claimants'[r.id] = {row.assignee}
    BY <1>2, <1>4, <2>3 DEF BoardInv, OwnerNamed
  <2> HIDE DEF row
  <2> QED  BY <1>2, <1>3, <2>2, <2>4, <2>5, OneRowStep
<1> QED  BY <1>1, <1>5, <1>6

\* A delete keeps the invariant: nobody holds the item any more.
LEMMA DeleteStep ==
    ASSUME BoardInv, Delete
    PROVE  BoardInv'
<1>1. PICK r \in Request :
        /\ r.verb = "delete" /\ Serve(r)
        /\ claimants' = [claimants EXCEPT ![r.id] = {}]
        /\ UNCHANGED refusedBody
  BY DEF Delete
<1> DEFINE id == r.id
           row == [tables.items[id] EXCEPT !.deleted = TRUE]
<1>2. /\ TablesOK(tables) /\ claimants \in [Id -> SUBSET Agent]
      /\ refusedBody \in [Id -> Body \cup {None}]
  BY DEF BoardInv, BoardTyped
<1>3. Live(tables, id) /\ tables' = Deleted(tables, r)
  BY <1>1 DEF Serve, Refused, Handled
<1>4. id \in Id /\ id \in DOMAIN tables.items /\ tables.items[id] \in Row
  BY <1>2, <1>3, RowOfId
<1>5. /\ row \in Row /\ row.id = id
      /\ TablesOK(tables') /\ tables'.items = [tables.items EXCEPT ![id] = row]
  BY <1>2, <1>3, DeletedShape
<1>6. ClosureKept(row)  BY <1>4 DEF ClosureKept, BoardInv, Row
<1>7. claimants'[id] = {} /\ claimants' \in [Id -> SUBSET Agent]
      /\ \A j \in Id : j # id => claimants'[j] = claimants[j]
  BY <1>1, <1>2, <1>4
<1> HIDE DEF row
<1> QED  BY <1>1, <1>2, <1>3, <1>5, <1>6, <1>7, OneRowStep

\* Every step of the board keeps the invariant.
LEMMA BoardStep == BoardInv /\ [Next]_vars => BoardInv'
<1>1. ASSUME BoardInv, Refuse \/ UNCHANGED vars  PROVE BoardInv'
  <2>1. UNCHANGED <<tables, claimants, refusedBody>>  BY <1>1 DEF Refuse, vars
  <2> QED  BY <1>1, <2>1 DEF BoardInv, BoardTyped, OwnerNamed
<1> QED
  BY <1>1, CreateStep, MoveStep, ClaimStep, BounceStep, RequeueStep, UpdateStep, RatifyStep,
     AnnotateStep, DeleteStep DEF Next

\* The invariant holds throughout.
LEMMA BoardAlways == Spec => []BoardInv
BY BoardInit, BoardStep, PTL DEF Spec

\* On every board the rows have their types, and no two share an id, whatever was
\* deleted between two creates.
THEOREM RowsAreSound == Spec => []RowsSound
<1>1. BoardInv => RowsSound
  BY DEF BoardInv, BoardTyped, TablesOK, TableSet, RowsSound, TypeOK, IdsUnique
<1> QED  BY <1>1, BoardAlways, PTL

\* However many agents there are and whatever the requests, two of them are never
\* both told that an item is theirs.
THEOREM OneAgentIsTold == Spec => []OneClaimant
<1>1. BoardInv => OneClaimant
  <2> SUFFICES ASSUME BoardInv, NEW id \in Id, claimants[id] # {}
               PROVE  Live(tables, id) /\ claimants[id] = {Item(tables, id).assignee}
    BY DEF OneClaimant
  <2>1. TablesOK(tables)  BY DEF BoardInv, BoardTyped
  <2>2. Live(tables, id) /\ claimants[id] = {tables.items[id].assignee}
    BY <2>1, LiveIff DEF BoardInv, OwnerNamed
  <2> QED  BY <2>1, <2>2, RowOfId
<1> QED  BY <1>1, BoardAlways, PTL

\* No request leaves an open item with a resolution.
THEOREM OpenHasNoResolution == Spec => []ClosureOnlyWhenClosed
<1>1. BoardInv => ClosureOnlyWhenClosed
  BY DEF BoardInv, ClosureKept, ClosureOnlyWhenClosed
<1> QED  BY <1>1, BoardAlways, PTL

-----------------------------------------------------------------------------
(* The stamp of the last bounce stays in the runs until the next bounce, as    *)
(* long as no client writes such a stamp as the reason of a move of its own.   *)

NoForgedStamp == \A r \in Request : r.verb = "move" => r.reason = None

Stamped ==
    \A id \in Id : refusedBody[id] # None => tables.runs[id].bounce = refusedBody[id]

\* A landing that is no bounce leaves every stamp as it is.
LEMMA StampsKept ==
    ASSUME NEW runs \in [Id -> Landings], NEW id \in Id, NEW to, NEW j \in Id
    PROVE  RunsAfter(runs, id, to, None)[j].bounce = runs[j].bounce
BY DEF RunsAfter, Landings

\* The runs keep the stamp of the last bounce: the other landings carry none.
LEMMA StampStep ==
    ASSUME NoForgedStamp
    PROVE  BoardInv /\ Stamped /\ [Next]_vars => Stamped'
<1> SUFFICES ASSUME BoardInv, Stamped, [Next]_vars  PROVE Stamped'
  OBVIOUS
<1>1. /\ TablesOK(tables) /\ tables.runs \in [Id -> Landings]
      /\ refusedBody \in [Id -> Body \cup {None}]
  BY DEF BoardInv, BoardTyped, TablesOK, TableSet
<1>2. ASSUME UNCHANGED refusedBody, \A j \in Id : tables'.runs[j].bounce = tables.runs[j].bounce
      PROVE  Stamped'
  BY <1>2 DEF Stamped
<1>3. ASSUME UNCHANGED refusedBody, tables'.runs = tables.runs  PROVE Stamped'
  BY <1>2, <1>3
<1>4. CASE UNCHANGED vars \/ Refuse  BY <1>3, <1>4 DEF vars, Refuse
<1>5. CASE Create
  <2>1. PICK r \in Request : r.verb = "create" /\ Serve(r) /\ UNCHANGED refusedBody
    BY <1>5 DEF Create
  <2>2. tables' = CreateWithId(tables, Len(tables.items) + 1, r) /\ Len(tables.items) < MaxItems
    BY <1>1, <2>1, NextIdIsNext DEF Serve, Handled, Created, WithinBounds
  <2>3. /\ r.type \in DOMAIN BoardOf /\ r.assignee \in Agent \cup {NoAgent}
        /\ r.body \in Body /\ r.tags \subseteq Tag
    BY <2>1, RequestAssumption
  <2>4. Len(tables.items) + 1 \in Id
        /\ tables'.runs = RunsAfter(tables.runs, Len(tables.items) + 1, "backlog", None)
    BY <1>1, <2>2, <2>3, CreatedShape
  <2> QED  BY <1>1, <1>2, <2>1, <2>4, StampsKept
<1>6. CASE Move
  <2>1. PICK r \in Request : r.verb = "move" /\ Serve(r) /\ UNCHANGED refusedBody
    BY <1>6 DEF Move
  <2>2. Live(tables, r.id) /\ tables' = Moved(tables, r)
    BY <2>1 DEF Serve, Refused, Handled, MoveRefused
  <2>3. MoveTyped(r) /\ r.reason = None  BY <2>1, RequestAssumption DEF MoveTyped, NoForgedStamp
  <2>4. r.id \in Id /\ tables'.runs = RunsAfter(tables.runs, r.id, r.to, None)
    BY <1>1, <2>2, <2>3, MovedShape, RowOfId
  <2> QED  BY <1>1, <1>2, <2>1, <2>4, StampsKept
<1>7. CASE Claim
  <2>1. PICK r \in Request : r.verb = "claim" /\ Serve(r) /\ UNCHANGED refusedBody
    BY <1>7 DEF Claim
  <2> QED  BY <1>3, <2>1, ClaimShape
<1>8. CASE Bounce
  <2>1. PICK r \in Request :
          /\ r.verb = "bounce" /\ Serve(r)
          /\ refusedBody' = [refusedBody EXCEPT ![r.id] = Item(tables, r.id).body]
    BY <1>8 DEF Bounce
  <2>2. Live(tables, r.id) /\ tables' = Bounced(tables, r)
    BY <2>1 DEF Serve, Refused, Handled, BounceRefused
  <2> DEFINE b == tables.items[r.id].body
  <2>3. r.id \in Id /\ b \in Body /\ Item(tables, r.id).body = b
    BY <1>1, <2>2, RowOfId DEF Row
  <2>4. tables'.runs = RunsAfter(tables.runs, r.id, "backlog", b)
    BY <1>1, <2>2, BouncedShape
  <2> HIDE DEF b
  <2>5. tables'.runs = [tables.runs EXCEPT ![r.id] = [newest |-> b, bounce |-> b]]
    BY <2>3, <2>4, BoardAssumption DEF RunsAfter
  <2> QED  BY <1>1, <2>1, <2>3, <2>5 DEF Stamped
<1>9. CASE Requeue
  <2>1. PICK r \in Request : r.verb = "requeue" /\ Serve(r) /\ UNCHANGED refusedBody
    BY <1>9 DEF Requeue
  <2>2. /\ ~RequeueRefused(tables, r) /\ Attempts(tables, r) <= MaxAttempts
        /\ tables' = Requeued(tables, r)
    BY <2>1 DEF Serve, Refused, Handled, WithinBounds
  <2>3. Live(tables, r.id)
        /\ tables'.runs = RunsAfter(tables.runs, r.id, RequeueStatus(tables, r), None)
    BY <1>1, <2>2, RequeuedShape
  <2>4. r.id \in Id  BY <1>1, <2>3, RowOfId
  <2> QED  BY <1>1, <1>2, <2>1, <2>3, <2>4, StampsKept
<1>10. CASE Update
  <2>1. PICK r \in Request : r.verb = "update" /\ Serve(r) /\ UNCHANGED refusedBody
    BY <1>10 DEF Update
  <2>2. Live(tables, r.id) /\ tables' = Updated(tables, r)
    BY <2>1 DEF Serve, Refused, Handled
  <2> QED  BY <1>1, <1>3, <2>1, <2>2, UpdatedShape
<1>11. CASE Ratify
  BY <1>1, <1>3, <1>11, RatifiedShape DEF Ratify, Serve, Handled
<1>12. CASE Annotate
  <2>1. PICK r \in Request : r.verb \in {"comment", "rank"} /\ Serve(r)
    BY <1>12 DEF Annotate
  <2>2. UNCHANGED refusedBody /\ Live(tables, r.id)
    BY <1>12, <2>1 DEF Annotate, Serve, Refused
  <2>3. CASE r.verb = "comment"
    <3>1. tables' = AddComment(tables, r.id, "text") /\ r.id \in Id
      BY <1>1, <2>1, <2>2, <2>3, RowOfId DEF Serve, Handled, Commented
    <3>2. tables'.runs = tables.runs  BY <1>1, <3>1, CommentAdded DEF Comment
    <3> QED  BY <1>3, <2>2, <3>2
  <2>4. CASE r.verb = "rank"
    <3>1. tables' = Ranked(tables, r)  BY <2>1, <2>4 DEF Serve, Handled
    <3> QED  BY <1>1, <1>3, <2>2, <2>4, <3>1, RankedShape
  <2> QED  BY <2>1, <2>3, <2>4
<1>13. CASE Delete
  <2>1. PICK r \in Request : r.verb = "delete" /\ Serve(r) /\ UNCHANGED refusedBody
    BY <1>13 DEF Delete
  <2>2. Live(tables, r.id) /\ tables' = Deleted(tables, r)
    BY <2>1 DEF Serve, Refused, Handled
  <2> QED  BY <1>1, <1>3, <2>1, <2>2, DeletedShape
<1> QED
  BY <1>4, <1>5, <1>6, <1>7, <1>8, <1>9, <1>10, <1>11, <1>12, <1>13 DEF Next

\* As long as no client forges a stamp, an item that was bounced is claimed again
\* only with another body than the one the last bounce refused.
THEOREM BouncedIsRepaired ==
    ASSUME NoForgedStamp
    PROVE  Spec => RepairedBeforeClaim
<1>1. Init => Stamped  BY DEF Init, Stamped
<1>2. BoardInv /\ Stamped /\ [Next]_vars => Stamped'  BY StampStep
<1>3. BoardInv /\ Stamped /\ [Next]_vars =>
        [\A id \in Id :
            (claimants[id] = {} /\ claimants'[id] # {} /\ Claim) =>
                refusedBody[id] # Item(tables, id).body]_vars
  <2> SUFFICES ASSUME BoardInv, Stamped, NEW id \in Id,
                      claimants[id] = {}, claimants'[id] # {}, Claim
               PROVE  refusedBody[id] # Item(tables, id).body
    OBVIOUS
  <2>1. PICK r \in Request :
          /\ r.verb = "claim" /\ Serve(r)
          /\ claimants' = [claimants EXCEPT ![r.id] = @ \cup {r.agent}]
    BY DEF Claim
  <2>2. r.id = id  BY <2>1 DEF BoardInv, BoardTyped
  <2>3. TablesOK(tables)  BY DEF BoardInv, BoardTyped
  <2>4. Live(tables, id) /\ ~Unrepaired(tables, id)  BY <2>1, <2>2, ClaimShape
  <2>5. Item(tables, id).body \in Body  BY <2>3, <2>4, RowOfId DEF Row
  <2>6. CASE refusedBody[id] = None  BY <2>5, <2>6, BoardAssumption
  <2>7. CASE refusedBody[id] # None
    BY <2>4, <2>7 DEF Stamped, Unrepaired
  <2> QED  BY <2>6, <2>7
<1> QED  BY BoardAlways, <1>1, <1>2, <1>3, PTL DEF Spec, RepairedBeforeClaim

-----------------------------------------------------------------------------
(* Replay.  A create that was cut after the items has left no run; the replay  *)
(* then skips it, and that is right because the runs of an id not yet used say *)
(* what the first run of an item says.                                         *)

FreshRuns ==
    \A id \in Id : id \notin DOMAIN tables.items =>
        tables.runs[id] = [newest |-> None, bounce |-> None]

\* An id that is not used yet has no landing.
LEMMA FreshStep == BoardInv /\ FreshRuns /\ [Next]_vars => FreshRuns'
<1> SUFFICES ASSUME BoardInv, FreshRuns, [Next]_vars  PROVE FreshRuns'
  OBVIOUS
<1>1. /\ TablesOK(tables) /\ tables.runs \in [Id -> Landings]
      /\ tables.items \in Seq(Row) /\ Len(tables.items) \in Nat
      /\ DOMAIN tables.items = 1..Len(tables.items)
  BY DEF BoardInv, BoardTyped, TablesOK, TableSet
<1>2. ASSUME DOMAIN tables'.items = DOMAIN tables.items, tables'.runs = tables.runs
      PROVE  FreshRuns'
  BY <1>2 DEF FreshRuns
<1>3. ASSUME NEW id \in DOMAIN tables.items, NEW row, NEW to, NEW reason,
             tables'.items = [tables.items EXCEPT ![id] = row],
             tables'.runs = RunsAfter(tables.runs, id, to, reason)
      PROVE  FreshRuns'
  BY <1>1, <1>3 DEF FreshRuns, RunsAfter
<1>4. CASE UNCHANGED vars \/ Refuse  BY <1>2, <1>4 DEF vars, Refuse
<1>5. CASE Create
  <2>1. PICK r \in Request : r.verb = "create" /\ Serve(r)
    BY <1>5 DEF Create
  <2> DEFINE id == Len(tables.items) + 1
  <2>2. tables' = CreateWithId(tables, id, r) /\ Len(tables.items) < MaxItems
    BY <1>1, <2>1, NextIdIsNext DEF Serve, Handled, Created, WithinBounds
  <2>3. /\ r.type \in DOMAIN BoardOf /\ r.assignee \in Agent \cup {NoAgent}
        /\ r.body \in Body /\ r.tags \subseteq Tag
    BY <2>1, RequestAssumption
  <2>4. /\ id \in Id /\ tables'.items = Append(tables.items, NewRow(id, r))
        /\ tables'.runs = RunsAfter(tables.runs, id, "backlog", None)
    BY <1>1, <2>2, <2>3, CreatedShape
  <2>5. DOMAIN tables'.items = 1..id  BY <1>1, <2>4
  <2>6. \A j \in Id : j # id => tables'.runs[j] = tables.runs[j]
    BY <1>1, <2>4 DEF RunsAfter
  <2> QED  BY <1>1, <2>4, <2>5, <2>6 DEF FreshRuns
<1>6. CASE Move
  <2>1. PICK r \in Request : r.verb = "move" /\ Serve(r)
    BY <1>6 DEF Move
  <2>2. Live(tables, r.id) /\ tables' = Moved(tables, r)
    BY <2>1 DEF Serve, Refused, Handled, MoveRefused
  <2>3. MoveTyped(r)  BY <2>1, RequestAssumption DEF MoveTyped
  <2>4. /\ r.id \in DOMAIN tables.items
        /\ tables'.items = [tables.items EXCEPT ![r.id] = MovedRow(tables.items[r.id], r)]
        /\ tables'.runs = RunsAfter(tables.runs, r.id, r.to, r.reason)
    BY <1>1, <2>2, <2>3, MovedShape, RowOfId
  <2> QED  BY <1>3, <2>4
<1>7. CASE Claim
  <2>1. PICK r \in Request : r.verb = "claim" /\ Serve(r)
    BY <1>7 DEF Claim
  <2> QED  BY <1>2, <2>1, ClaimShape
<1>8. CASE Bounce
  <2>1. PICK r \in Request : r.verb = "bounce" /\ Serve(r)
    BY <1>8 DEF Bounce
  <2>2. Live(tables, r.id) /\ tables' = Bounced(tables, r)
    BY <2>1 DEF Serve, Refused, Handled, BounceRefused
  <2>3. /\ r.id \in DOMAIN tables.items
        /\ tables'.items = [tables.items EXCEPT ![r.id] = BouncedRow(tables.items[r.id])]
        /\ tables'.runs = RunsAfter(tables.runs, r.id, "backlog", tables.items[r.id].body)
    BY <1>1, <2>2, BouncedShape, RowOfId
  <2> QED  BY <1>3, <2>3
<1>9. CASE Requeue
  <2>1. PICK r \in Request : r.verb = "requeue" /\ Serve(r)
    BY <1>9 DEF Requeue
  <2>2. /\ ~RequeueRefused(tables, r) /\ Attempts(tables, r) <= MaxAttempts
        /\ tables' = Requeued(tables, r)
    BY <2>1 DEF Serve, Refused, Handled, WithinBounds
  <2> DEFINE row == RequeuedRow(tables.items[r.id], RequeueStatus(tables, r),
                                Attempts(tables, r), DeadLettered(tables, r))
  <2>3. /\ Live(tables, r.id) /\ tables'.items = [tables.items EXCEPT ![r.id] = row]
        /\ tables'.runs = RunsAfter(tables.runs, r.id, RequeueStatus(tables, r), None)
    BY <1>1, <2>2, RequeuedShape
  <2>4. r.id \in DOMAIN tables.items  BY <1>1, <2>3, RowOfId
  <2> HIDE DEF row
  <2> QED  BY <1>3, <2>3, <2>4
<1>10. CASE Update
  <2>1. PICK r \in Request : r.verb = "update" /\ Serve(r)
    BY <1>10 DEF Update
  <2>2. Live(tables, r.id) /\ tables' = Updated(tables, r)
    BY <2>1 DEF Serve, Refused, Handled
  <2> DEFINE row == UpdatedRow(tables.items[r.id], r)
  <2>3. tables'.items = [tables.items EXCEPT ![r.id] = row] /\ tables'.runs = tables.runs
    BY <1>1, <2>1, <2>2, UpdatedShape
  <2> HIDE DEF row
  <2> QED  BY <1>2, <2>3
<1>11. CASE Ratify
  <2>1. /\ tables'.items = [n \in DOMAIN tables.items |-> RatifiedRow(tables.items[n])]
        /\ tables'.runs = tables.runs
    BY <1>1, <1>11, RatifiedShape DEF Ratify, Serve, Handled
  <2> QED  BY <1>2, <2>1
<1>12. CASE Annotate
  <2>1. PICK r \in Request : r.verb \in {"comment", "rank"} /\ Serve(r)
    BY <1>12 DEF Annotate
  <2>2. Live(tables, r.id)  BY <2>1 DEF Serve, Refused
  <2>3. CASE r.verb = "comment"
    <3>1. tables' = AddComment(tables, r.id, "text") /\ r.id \in Id
      BY <1>1, <2>1, <2>2, <2>3, RowOfId DEF Serve, Handled, Commented
    <3>2. tables'.items = tables.items /\ tables'.runs = tables.runs
      BY <1>1, <3>1, CommentAdded DEF Comment
    <3> QED  BY <1>2, <3>2
  <2>4. CASE r.verb = "rank"
    <3>1. tables' = Ranked(tables, r)  BY <2>1, <2>4 DEF Serve, Handled
    <3> DEFINE row == [tables.items[r.id] EXCEPT !.rank = r.rank]
    <3>2. tables'.items = [tables.items EXCEPT ![r.id] = row] /\ tables'.runs = tables.runs
      BY <1>1, <2>2, <2>4, <3>1, RankedShape
    <3> HIDE DEF row
    <3> QED  BY <1>2, <3>2
  <2> QED  BY <2>1, <2>3, <2>4
<1>13. CASE Delete
  <2>1. PICK r \in Request : r.verb = "delete" /\ Serve(r)
    BY <1>13 DEF Delete
  <2>2. Live(tables, r.id) /\ tables' = Deleted(tables, r)
    BY <2>1 DEF Serve, Refused, Handled
  <2> DEFINE row == [tables.items[r.id] EXCEPT !.deleted = TRUE]
  <2>3. tables'.items = [tables.items EXCEPT ![r.id] = row] /\ tables'.runs = tables.runs
    BY <1>1, <2>2, DeletedShape
  <2> HIDE DEF row
  <2> QED  BY <1>2, <2>3
<1> QED
  BY <1>4, <1>5, <1>6, <1>7, <1>8, <1>9, <1>10, <1>11, <1>12, <1>13 DEF Next

\* A checkpoint that a crash tore holds whole tables, some of them old.
LEMMA TornShape ==
    ASSUME NEW o, NEW n, TablesOK(o), TablesOK(n), NEW t \in Torn(o, n)
    PROVE  /\ TablesOK(t)
           /\ t.items \in {o.items, n.items} /\ t.runs \in {o.runs, n.runs}
           /\ t.comments \in {o.comments, n.comments}
           /\ \A id : Live(o, id) /\ Live(n, id) => Live(t, id)
<1>1. /\ t \in TableSet
      /\ t.items \in {o.items, n.items} /\ t.runs \in {o.runs, n.runs}
      /\ t.comments \in {o.comments, n.comments}
  BY DEF Torn, TablesOK, TableSet
<1>2. TablesOK(t)  BY <1>1 DEF TablesOK
<1>3. \A id : Live(o, id) /\ Live(n, id) => Live(t, id)
  BY <1>1 DEF Live, LiveAt
<1> QED  BY <1>1, <1>2, <1>3

\* What is written twice is written once.
LEMMA RunsTwice ==
    ASSUME NEW runs \in [Id -> Landings], NEW id \in Id, NEW to, NEW reason \in Body \cup {None},
           NEW again \in {runs, RunsAfter(runs, id, to, reason)}
    PROVE  RunsAfter(again, id, to, reason) = RunsAfter(runs, id, to, reason)
<1>1. CASE to # "backlog"  BY <1>1 DEF RunsAfter
<1>2. CASE to = "backlog" /\ again = runs  BY <1>2
<1>3. CASE to = "backlog" /\ again = RunsAfter(runs, id, to, reason)
  <2> DEFINE x == [newest |-> reason, bounce |-> IF reason = None THEN runs[id].bounce ELSE reason]
  <2>1. again = [runs EXCEPT ![id] = x] /\ again[id] = x  BY <1>3 DEF RunsAfter
  <2>2. RunsAfter(again, id, to, reason) = [again EXCEPT ![id] = x]
    BY <1>3, <2>1 DEF RunsAfter
  <2> HIDE DEF x
  <2>3. [again EXCEPT ![id] = x] = again  BY <2>1
  <2> QED  BY <1>3, <2>2, <2>3
<1> QED  BY <1>1, <1>2, <1>3

\* A move written over its own row changes nothing.
LEMMA MovedTwice ==
    ASSUME NEW row \in Row, NEW r, MoveTyped(r)
    PROVE  MovedRow(MovedRow(row, r), r) = MovedRow(row, r)
<1>1. MovedRow(row, r) \in Row  BY MovedRowFields
<1> DEFINE x == MovedRow(row, r)
<1>2. /\ x.status = r.to
      /\ r.assignee # NoAgent => x.assignee = r.assignee
      /\ r.resolution # None => x.resolution = r.resolution
      /\ r.closed_by # None => x.closed_by = r.closed_by
      /\ r.resolution = None /\ r.to \notin TERMINAL_STATES => x.resolution = None
      /\ r.closed_by = None /\ r.to \notin TERMINAL_STATES => x.closed_by = None
  BY MovedRowFields
<1> HIDE DEF x
<1>3. x \in Row  BY <1>1 DEF x
<1>4. MovedRow(x, r) = x
  <2> DEFINE y == MovedRow(x, r)
  <2>1. /\ y \in Row /\ y.status = x.status
        /\ y.id = x.id /\ y.type = x.type
        /\ y.body = x.body /\ y.tags = x.tags /\ y.attempts = x.attempts
        /\ y.rank = x.rank /\ y.deleted = x.deleted
        /\ y.assignee = x.assignee /\ y.resolution = x.resolution /\ y.closed_by = x.closed_by
    BY <1>2, <1>3, MovedRowFields
  <2> HIDE DEF y
  <2>2. y = x  BY <1>3, <2>1, SameRow
  <2> QED  BY <2>2 DEF y
<1> QED  BY <1>4 DEF x

\* Comments that differ at most by the notice of a bounce.
CommentsAgree(c, d) ==
    \A j \in Id : c[j] \subseteq d[j] /\ d[j] \ c[j] \subseteq {"bounce notice"}

RowWritten(rows, id, row, rows2) == rows2 = [rows EXCEPT ![id] = row]

\* A replay that writes one row: the row comes out the same from the old row and
\* from the new one.
LEMMA OneRowReplay ==
    ASSUME NEW o, NEW n, TablesOK(o), TablesOK(n), NEW t \in Torn(o, n),
           NEW id \in DOMAIN o.items, NEW x, RowWritten(o.items, id, x, n.items),
           NEW u, NEW y, RowWritten(t.items, id, y, u.items), u.runs = n.runs,
           t.items[id] = o.items[id] => y = x, t.items[id] = x => y = x,
           CommentsAgree(u.comments, n.comments)
    PROVE  SameContent(u, n)
<1>1. t.items \in {o.items, n.items}  BY TornShape
<1>2. n.items[id] = x  BY DEF RowWritten
<1>3. y = x  BY <1>1, <1>2
<1>4. u.items = n.items
  <2>1. CASE t.items = o.items  BY <1>3, <2>1 DEF RowWritten
  <2>2. CASE t.items = n.items  BY <1>2, <1>3, <2>2 DEF RowWritten
  <2> QED  BY <1>1, <2>1, <2>2
<1> QED  BY <1>4 DEF SameContent, CommentsAgree

\* The replay of a move gives what the move gave, over every torn save.
LEMMA MovedReplay ==
    ASSUME NEW o, NEW m, TablesOK(o), Live(o, m.id), MoveTyped(m),
           NEW t \in Torn(o, Moved(o, m))
    PROVE  Live(t, m.id) /\ SameContent(Moved(t, m), Moved(o, m))
<1> DEFINE id == m.id
           n == Moved(o, m)
           u == Moved(t, m)
           x == MovedRow(o.items[id], m)
           y == MovedRow(t.items[id], m)
<1>1. /\ id \in Id /\ id \in DOMAIN o.items /\ o.items[id] \in Row
      /\ o.runs \in [Id -> Landings]
  BY RowOfId DEF TablesOK, TableSet
<1>2. /\ TablesOK(n) /\ Live(n, id) /\ n.items = [o.items EXCEPT ![id] = x]
      /\ n.runs = RunsAfter(o.runs, id, m.to, m.reason) /\ n.comments = o.comments
  BY MovedShape
<1> HIDE DEF n
<1>3. /\ TablesOK(t) /\ Live(t, id) /\ t.runs \in {o.runs, n.runs}
      /\ t.comments = o.comments
  BY <1>2, TornShape DEF n
<1>4. /\ u.items = [t.items EXCEPT ![id] = y]
      /\ u.runs = RunsAfter(t.runs, id, m.to, m.reason) /\ u.comments = t.comments
  BY <1>3, MovedShape
<1> HIDE DEF u
<1>5. u.runs = n.runs  BY <1>1, <1>2, <1>3, <1>4, RunsTwice DEF MoveTyped
<1>6. (t.items[id] = o.items[id] => y = x) /\ (t.items[id] = x => y = x)
  BY <1>1, MovedTwice
<1>7. CommentsAgree(u.comments, n.comments)  BY <1>2, <1>3, <1>4 DEF CommentsAgree
<1>8. t \in Torn(o, n)  BY DEF n
<1> HIDE DEF x, y
<1>9. RowWritten(o.items, id, x, n.items) /\ RowWritten(t.items, id, y, u.items)
  BY <1>2, <1>4 DEF RowWritten
<1>10. SameContent(u, n)
  <2>1. TablesOK(n) /\ id \in DOMAIN o.items  BY <1>1, <1>2
  <2> HIDE DEF id
  <2> QED  BY <2>1, <1>5, <1>6, <1>7, <1>8, <1>9, OneRowReplay
<1> QED  BY <1>3, <1>10 DEF u, n

\* Writing into a row what it holds.
LEMMA RowAsIs ==
    ASSUME NEW x \in Row
    PROVE  /\ [x EXCEPT !.assignee = x.assignee, !.tags = x.tags, !.body = x.body] = x
           /\ [x EXCEPT !.status = x.status, !.resolution = x.resolution,
                        !.closed_by = x.closed_by] = x
           /\ [x EXCEPT !.assignee = x.assignee, !.resolution = x.resolution,
                        !.closed_by = x.closed_by] = x
           /\ [x EXCEPT !.assignee = x.assignee, !.attempts = x.attempts, !.tags = x.tags] = x
           /\ [x EXCEPT !.assignee = x.assignee] = x
BY DEF Row

\* The replay of a bounce, which is a move and an unassignment, gives what it gave.
LEMMA BounceReplay ==
    ASSUME NEW o, NEW r, TablesOK(o), Live(o, r.id),
           NEW t \in Torn(o, Bounced(o, r))
    PROVE  LET m == BounceMove(o, r)
           IN  /\ Live(t, r.id)
               /\ SameContent(UpdateAssignee(Moved(t, m), r.id, NoAgent), Bounced(o, r))
<1> DEFINE id == r.id
           n == Bounced(o, r)
           m == BounceMove(o, r)
           s == Moved(t, m)
           u == UpdateAssignee(s, id, NoAgent)
           x == BouncedRow(o.items[id])
           y == [s.items[id] EXCEPT !.assignee = NoAgent]
           b == o.items[id].body
<1>1. /\ id \in Id /\ id \in DOMAIN o.items /\ o.items[id] \in Row
      /\ o.runs \in [Id -> Landings] /\ Item(o, id) = o.items[id] /\ b \in Body
      /\ o.comments \in [Id -> SUBSET Comment]
  <2>1. /\ id \in Id /\ id \in DOMAIN o.items /\ o.items[id] \in Row
        /\ Item(o, id) = o.items[id]
    BY RowOfId
  <2>2. o.runs \in [Id -> Landings] /\ o.comments \in [Id -> SUBSET Comment]
    BY DEF TablesOK, TableSet
  <2> QED  BY <2>1, <2>2 DEF Row
<1>2. /\ TablesOK(n) /\ Live(n, id) /\ n.items = [o.items EXCEPT ![id] = x]
      /\ n.runs = RunsAfter(o.runs, id, "backlog", b)
      /\ n.comments = [o.comments EXCEPT ![id] = @ \cup {"bounce notice"}]
  BY BouncedShape
<1>3. /\ m.id = id /\ m.to = "backlog" /\ m.assignee = NoAgent /\ m.reason = b
      /\ m.resolution = None /\ m.closed_by = None
  BY <1>1 DEF BounceMove, MoveOf
<1>4. MoveTyped(m)  BY <1>1, <1>3 DEF MoveTyped, Status, VALID_STATUSES
<1> HIDE DEF n, m
<1>5. /\ TablesOK(t) /\ Live(t, id) /\ t.runs \in {o.runs, n.runs}
      /\ t.comments \in {o.comments, n.comments} /\ t \in Torn(o, n)
  BY <1>2, TornShape DEF n
<1>6. /\ TablesOK(s) /\ Live(s, id)
      /\ s.items = [t.items EXCEPT ![id] = MovedRow(t.items[id], m)]
      /\ s.runs = RunsAfter(t.runs, id, "backlog", b) /\ s.comments = t.comments
  BY <1>3, <1>4, <1>5, MovedShape
<1> HIDE DEF s
<1>7. /\ u.items = [s.items EXCEPT ![id] = y]
      /\ u.runs = s.runs /\ u.comments = s.comments
  BY <1>6, AssigneeSet
<1> HIDE DEF u
<1>8. u.runs = n.runs
  <2>1. RunsAfter(t.runs, id, "backlog", b) = RunsAfter(o.runs, id, "backlog", b)
    <3>1. t.runs \in {o.runs, RunsAfter(o.runs, id, "backlog", b)}  BY <1>2, <1>5
    <3> HIDE DEF b
    <3>2. id \in Id /\ o.runs \in [Id -> Landings] /\ b \in Body \cup {None}  BY <1>1
    <3> QED  BY <3>1, <3>2, RunsTwice
  <2> QED  BY <1>2, <1>6, <1>7, <2>1
<1>9. id \in DOMAIN t.items /\ s.items[id] = MovedRow(t.items[id], m)
  BY <1>5, <1>6, RowOfId
<1>10. x \in Row /\ MovedRow(o.items[id], m) \in Row
  <2> DEFINE v == StatusRow(o.items[id], "backlog")
  <2>0. "backlog" \in Status  BY DEF Status, VALID_STATUSES
  <2>1. v \in Row  BY <1>1, <2>0, StatusRowFields
  <2>2. MovedRow(o.items[id], m) = [v EXCEPT !.assignee = v.assignee, !.resolution = v.resolution,
                                             !.closed_by = v.closed_by]
    BY <1>3 DEF MovedRow
  <2>3. x = [v EXCEPT !.assignee = NoAgent]  BY DEF BouncedRow
  <2> HIDE DEF v, x
  <2>4. MovedRow(o.items[id], m) = v  BY <2>1, <2>2, RowAsIs
  <2> QED  BY <2>1, <2>3, <2>4 DEF Row
<1>11. t.items[id] = o.items[id] => y = x
  <2> SUFFICES ASSUME t.items[id] = o.items[id]  PROVE y = x
    OBVIOUS
  <2>1. y = [MovedRow(o.items[id], m) EXCEPT !.assignee = NoAgent]  BY <1>9
  <2> DEFINE v == StatusRow(o.items[id], "backlog")
  <2>0. "backlog" \in Status  BY DEF Status, VALID_STATUSES
  <2>2. v \in Row  BY <1>1, <2>0, StatusRowFields
  <2>3. MovedRow(o.items[id], m) = [v EXCEPT !.assignee = @, !.resolution = @, !.closed_by = @]
    BY <1>3 DEF MovedRow
  <2> HIDE DEF v
  <2>4. [v EXCEPT !.assignee = @, !.resolution = @, !.closed_by = @] = v  BY <2>2 DEF Row
  <2> QED  BY <2>1, <2>3, <2>4 DEF BouncedRow, v
<1>12. t.items[id] = x => y = x
  <2> SUFFICES ASSUME t.items[id] = x  PROVE y = x
    OBVIOUS
  <2>1. y = [MovedRow(x, m) EXCEPT !.assignee = NoAgent]  BY <1>9
  <2>2. x.status = "backlog" /\ x.assignee = NoAgent
        /\ x.resolution = None /\ x.closed_by = None
    BY <1>1 DEF BouncedRow, StatusRow, Row, TERMINAL_STATES
  <2> HIDE DEF x
  <2>3. StatusRow(x, "backlog") =
          [x EXCEPT !.status = x.status, !.resolution = x.resolution, !.closed_by = x.closed_by]
    BY <2>2 DEF StatusRow, TERMINAL_STATES
  <2>4. StatusRow(x, "backlog") = x  BY <1>10, <2>3, RowAsIs
  <2>5. MovedRow(x, m) =
          [x EXCEPT !.assignee = x.assignee, !.resolution = x.resolution,
                    !.closed_by = x.closed_by]
    BY <1>3, <2>4 DEF MovedRow
  <2>6. MovedRow(x, m) = x  BY <1>10, <2>5, RowAsIs
  <2>7. y = [x EXCEPT !.assignee = x.assignee]  BY <2>1, <2>2, <2>6
  <2> QED  BY <1>10, <2>7, RowAsIs
<1>13. CommentsAgree(u.comments, n.comments)
  <2>1. \A j \in Id : n.comments[j] = IF j = id THEN o.comments[id] \cup {"bounce notice"}
                                      ELSE o.comments[j]
    BY <1>1, <1>2
  <2>2. u.comments = o.comments \/ u.comments = n.comments  BY <1>5, <1>6, <1>7
  <2> QED  BY <2>1, <2>2 DEF CommentsAgree
<1>14. u.items = [t.items EXCEPT ![id] = y]  BY <1>6, <1>7
<1> HIDE DEF x, y
<1>15. RowWritten(o.items, id, x, n.items) /\ RowWritten(t.items, id, y, u.items)
  BY <1>2, <1>14 DEF RowWritten
<1>16. SameContent(u, n)
  <2>1. TablesOK(n) /\ id \in DOMAIN o.items /\ t \in Torn(o, n)  BY <1>1, <1>2, <1>5
  <2> HIDE DEF id
  <2> QED  BY <2>1, <1>8, <1>11, <1>12, <1>13, <1>15, OneRowReplay
<1> QED  BY <1>5, <1>16 DEF u, s, n, m

\* The replay of a requeue, which writes the result and counts nothing, gives it.
LEMMA RequeueReplay ==
    ASSUME NEW o, NEW r, TablesOK(o), ~RequeueRefused(o, r), Attempts(o, r) <= MaxAttempts,
           NEW t \in Torn(o, Requeued(o, r))
    PROVE  LET u == RequeueWrites(t, r.id, RequeueStatus(o, r), Attempts(o, r), DeadLettered(o, r))
           IN  Live(t, r.id) /\ SameContent(u, Requeued(o, r))
<1> DEFINE id == r.id
           to == RequeueStatus(o, r)
           k == Attempts(o, r)
           dead == DeadLettered(o, r)
           n == Requeued(o, r)
           u == RequeueWrites(t, id, to, k, dead)
           x == RequeuedRow(o.items[id], to, k, dead)
           y == RequeuedRow(t.items[id], to, k, dead)
<1>1. /\ Live(o, id) /\ to \in Status /\ to \notin TERMINAL_STATES
      /\ k \in 0..MaxAttempts /\ dead \in BOOLEAN
      /\ TablesOK(n) /\ Live(n, id) /\ n.items = [o.items EXCEPT ![id] = x]
      /\ n.runs = RunsAfter(o.runs, id, to, None) /\ n.comments = o.comments
  BY RequeuedShape
<1> HIDE DEF n, to, k, dead
<1>2. /\ id \in Id /\ id \in DOMAIN o.items /\ o.items[id] \in Row
      /\ o.runs \in [Id -> Landings]
  BY <1>1, RowOfId DEF TablesOK, TableSet
<1>3. /\ TablesOK(t) /\ Live(t, id) /\ t.runs \in {o.runs, n.runs}
      /\ t.comments = o.comments /\ t \in Torn(o, n)
  BY <1>1, TornShape DEF n
<1>4. /\ u.items = [t.items EXCEPT ![id] = y]
      /\ u.runs = RunsAfter(t.runs, id, to, None) /\ u.comments = t.comments
  BY <1>1, <1>3, RequeueShape
<1> HIDE DEF u
<1>5. u.runs = n.runs  BY <1>1, <1>2, <1>3, <1>4, RunsTwice
<1>6. x \in Row /\ x.status = to /\ x.assignee = NoAgent /\ x.attempts = k
      /\ x.resolution = None /\ x.closed_by = None /\ (dead => DEAD \in x.tags)
  BY <1>1, <1>2 DEF RequeuedRow, StatusRow, Row, Tag
<1>7. t.items[id] = x => y = x
  <2> SUFFICES ASSUME t.items[id] = x  PROVE y = x
    OBVIOUS
  <2>1. dead => x.tags \cup {DEAD} = x.tags  BY <1>6
  <2>2. y = RequeuedRow(x, to, k, dead)  OBVIOUS
  <2> HIDE DEF x, y
  <2>3. StatusRow(x, to) =
          [x EXCEPT !.status = x.status, !.resolution = x.resolution, !.closed_by = x.closed_by]
    BY <1>1, <1>6 DEF StatusRow
  <2>4. StatusRow(x, to) = x  BY <1>6, <2>3, RowAsIs
  <2>5. y = [x EXCEPT !.assignee = x.assignee, !.attempts = x.attempts, !.tags = x.tags]
    BY <1>6, <2>1, <2>2, <2>4 DEF RequeuedRow
  <2> QED  BY <1>6, <2>5, RowAsIs
<1>8. t.items[id] = o.items[id] => y = x  OBVIOUS
<1>9. CommentsAgree(u.comments, n.comments)  BY <1>1, <1>3, <1>4 DEF CommentsAgree
<1> HIDE DEF x, y
<1>10. RowWritten(o.items, id, x, n.items) /\ RowWritten(t.items, id, y, u.items)
  BY <1>1, <1>4 DEF RowWritten
<1>11. SameContent(u, n)
  <2>1. TablesOK(n) /\ id \in DOMAIN o.items /\ t \in Torn(o, n)  BY <1>1, <1>2, <1>3
  <2> HIDE DEF id
  <2> QED  BY <2>1, <1>5, <1>7, <1>8, <1>9, <1>10, OneRowReplay
<1> QED  BY <1>3, <1>11 DEF u, n, to, k, dead

\* The replay of an update gives what the update gave.
LEMMA UpdateReplay ==
    ASSUME NEW o, NEW r \in Request, r.verb = "update", TablesOK(o), Live(o, r.id),
           NEW t \in Torn(o, Updated(o, r))
    PROVE  Live(t, r.id) /\ SameContent(Updated(t, r), Updated(o, r))
<1> DEFINE id == r.id
           n == Updated(o, r)
           u == Updated(t, r)
           x == UpdatedRow(o.items[id], r)
           y == UpdatedRow(t.items[id], r)
<1>1. id \in DOMAIN o.items  BY RowOfId
<1>2. /\ x \in Row /\ TablesOK(n) /\ Live(n, id) /\ n.items = [o.items EXCEPT ![id] = x]
      /\ n.runs = o.runs /\ n.comments = o.comments
  BY UpdatedShape
<1>0. o.items[id] \in Row  BY RowOfId
<1> HIDE DEF n
<1>3. /\ TablesOK(t) /\ Live(t, id) /\ t.runs = o.runs /\ t.comments = o.comments
      /\ t \in Torn(o, n)
  BY <1>2, TornShape DEF n
<1>4. u.items = [t.items EXCEPT ![id] = y] /\ u.runs = t.runs /\ u.comments = t.comments
  BY <1>3, UpdatedShape
<1> HIDE DEF u
<1>5. t.items[id] = x => y = x
  <2> SUFFICES ASSUME t.items[id] = x  PROVE y = x
    OBVIOUS
  <2>1. /\ Given(r.assignee, x.assignee) = x.assignee
        /\ Given(r.tags, x.tags) = x.tags /\ Given(r.body, x.body) = x.body
    BY <1>0 DEF UpdatedRow, Given, Row
  <2>2. y = UpdatedRow(x, r)  OBVIOUS
  <2> HIDE DEF x, y
  <2>3. y = [x EXCEPT !.assignee = x.assignee, !.tags = x.tags, !.body = x.body]
    BY <2>1, <2>2 DEF UpdatedRow
  <2> QED  BY <1>2, <2>3, RowAsIs
<1>6. t.items[id] = o.items[id] => y = x  OBVIOUS
<1>7. CommentsAgree(u.comments, n.comments)  BY <1>2, <1>3, <1>4 DEF CommentsAgree
<1> HIDE DEF x, y
<1>8. RowWritten(o.items, id, x, n.items) /\ RowWritten(t.items, id, y, u.items)
  BY <1>2, <1>4 DEF RowWritten
<1>9. SameContent(u, n)
  <2>1. TablesOK(n) /\ u.runs = n.runs /\ t \in Torn(o, n)  BY <1>2, <1>3, <1>4
  <2> HIDE DEF id
  <2> QED  BY <1>1, <2>1, <1>5, <1>6, <1>7, <1>8, OneRowReplay
<1> QED  BY <1>3, <1>9 DEF u, n

\* The replay of a rank gives what the rank gave.
LEMMA RankReplay ==
    ASSUME NEW o, NEW r \in Request, r.verb = "rank", TablesOK(o), Live(o, r.id),
           NEW t \in Torn(o, Ranked(o, r))
    PROVE  Live(t, r.id) /\ SameContent(Ranked(t, r), Ranked(o, r))
<1> DEFINE id == r.id
           n == Ranked(o, r)
           u == Ranked(t, r)
           x == [o.items[id] EXCEPT !.rank = r.rank]
           y == [t.items[id] EXCEPT !.rank = r.rank]
<1>1. id \in DOMAIN o.items /\ o.items[id] \in Row  BY RowOfId
<1>2. /\ x \in Row /\ TablesOK(n) /\ Live(n, id) /\ n.items = [o.items EXCEPT ![id] = x]
      /\ n.runs = o.runs /\ n.comments = o.comments
  BY RankedShape
<1> HIDE DEF n
<1>3. /\ TablesOK(t) /\ Live(t, id) /\ t.runs = o.runs /\ t.comments = o.comments
      /\ t \in Torn(o, n)
  BY <1>2, TornShape DEF n
<1>4. u.items = [t.items EXCEPT ![id] = y] /\ u.runs = t.runs /\ u.comments = t.comments
  BY <1>3, RankedShape
<1> HIDE DEF u
<1>5. (t.items[id] = o.items[id] => y = x) /\ (t.items[id] = x => y = x)  BY <1>1
<1>6. CommentsAgree(u.comments, n.comments)  BY <1>2, <1>3, <1>4 DEF CommentsAgree
<1> HIDE DEF x, y
<1>7. RowWritten(o.items, id, x, n.items) /\ RowWritten(t.items, id, y, u.items)
  BY <1>2, <1>4 DEF RowWritten
<1>8. SameContent(u, n)
  <2>1. TablesOK(n) /\ u.runs = n.runs /\ t \in Torn(o, n)  BY <1>2, <1>3, <1>4
  <2> HIDE DEF id
  <2> QED  BY <1>1, <2>1, <1>5, <1>6, <1>7, OneRowReplay
<1> QED  BY <1>3, <1>8 DEF u, n

\* The replay of a delete skips a row that is deleted, and gives what it gave.
LEMMA DeleteReplay ==
    ASSUME NEW o, NEW r, TablesOK(o), Live(o, r.id), NEW t \in Torn(o, Deleted(o, r))
    PROVE  SameContent(IF Live(t, r.id) THEN Deleted(t, r) ELSE t, Deleted(o, r))
<1> DEFINE n == Deleted(o, r)
           x == [o.items[r.id] EXCEPT !.deleted = TRUE]
<1>1. /\ TablesOK(n) /\ ~Live(n, r.id) /\ n.items = [o.items EXCEPT ![r.id] = x]
      /\ n.runs = o.runs /\ n.comments = o.comments
  BY DeletedShape
<1> HIDE DEF n, x
<1>2. /\ TablesOK(t) /\ t.items \in {o.items, n.items} /\ t.runs = n.runs
      /\ t.comments = n.comments
  BY <1>1, TornShape DEF n
<1>3. CASE Live(t, r.id)
  <2>1. t.items = o.items  BY <1>1, <1>2, <1>3 DEF Live, LiveAt
  <2>2. /\ Deleted(t, r).items = [t.items EXCEPT ![r.id] = [t.items[r.id] EXCEPT !.deleted = TRUE]]
        /\ Deleted(t, r).runs = t.runs /\ Deleted(t, r).comments = t.comments
    BY <1>2, <1>3, DeletedShape
  <2>3. Deleted(t, r).items = n.items  BY <1>1, <2>1, <2>2 DEF x
  <2> QED  BY <1>2, <1>3, <2>2, <2>3 DEF SameContent, n
<1>4. CASE ~Live(t, r.id)
  <2>1. t.items = n.items  BY <1>2, <1>4 DEF Live, LiveAt
  <2> QED  BY <1>2, <1>4, <2>1 DEF SameContent, n
<1> QED  BY <1>3, <1>4

\* The replay of a comment adds it once.
LEMMA CommentReplay ==
    ASSUME NEW o, NEW r, TablesOK(o), Live(o, r.id), NEW t \in Torn(o, Commented(o, r))
    PROVE  /\ Live(t, r.id)
           /\ SameContent(IF "text" \in t.comments[r.id] THEN t ELSE Commented(t, r),
                          Commented(o, r))
<1> DEFINE n == Commented(o, r)
           c == [o.comments EXCEPT ![r.id] = @ \cup {"text"}]
<1>1. r.id \in Id /\ o.comments \in [Id -> SUBSET Comment]
  BY RowOfId DEF TablesOK, TableSet
<1>2. TablesOK(n) /\ n.items = o.items /\ n.runs = o.runs /\ n.comments = c
  <2>1. "text" \in Comment  BY DEF Comment
  <2>2. n = AddComment(o, r.id, "text")  BY DEF Commented
  <2> QED  BY <1>1, <2>1, <2>2, CommentAdded
<1> HIDE DEF n
<1>3. Live(n, r.id)  BY <1>2 DEF Live, LiveAt
<1>4. /\ TablesOK(t) /\ t.items = n.items /\ t.runs = n.runs
      /\ t.comments \in {o.comments, c} /\ Live(t, r.id)
  BY <1>2, <1>3, TornShape DEF n
<1>5. CASE "text" \in t.comments[r.id]
  <2>1. o.comments[r.id] \cup {"text"} = o.comments[r.id] \/ t.comments = c
    BY <1>4, <1>5
  <2>2. t.comments = c  BY <1>1, <1>4, <2>1
  <2> QED  BY <1>2, <1>4, <1>5, <2>2 DEF SameContent, n
<1>6. CASE "text" \notin t.comments[r.id]
  <2>1. c[r.id] = o.comments[r.id] \cup {"text"}  BY <1>1
  <2>2. t.comments = o.comments  BY <1>4, <1>6, <2>1
  <2>3. /\ Commented(t, r).items = t.items /\ Commented(t, r).runs = t.runs
        /\ Commented(t, r).comments = c
    <3>1. /\ Commented(t, r).items = t.items /\ Commented(t, r).runs = t.runs
          /\ Commented(t, r).comments = [t.comments EXCEPT ![r.id] = @ \cup {"text"}]
      <4>1. Commented(t, r) = AddComment(t, r.id, "text") /\ "text" \in Comment
        BY DEF Commented, Comment
      <4>2. TablesOK(t) /\ r.id \in Id  BY <1>1, <1>4
      <4> QED  BY <4>1, <4>2, CommentAdded
    <3> QED  BY <2>2, <3>1
  <2> QED  BY <1>2, <1>4, <1>6, <2>3 DEF SameContent, n
<1> QED  BY <1>4, <1>5, <1>6 DEF n

\* A phase may be ratified again where a torn save ratified it, with the same rows.
LEMMA RatifyReplay ==
    ASSUME NEW o, TablesOK(o), ~RatifyRefused(o), NEW t \in Torn(o, Ratified(o))
    PROVE  ~RatifyRefused(t) /\ SameContent(Ratified(t), Ratified(o))
<1> DEFINE n == Ratified(o)
<1>1. /\ TablesOK(n) /\ n.items = [k \in DOMAIN o.items |-> RatifiedRow(o.items[k])]
      /\ n.runs = o.runs /\ n.comments = o.comments
  BY RatifiedShape
<1>2. \A k \in DOMAIN o.items : o.items[k] \in Row
  BY DEF TablesOK, TableSet
<1> HIDE DEF n
<1>3. /\ TablesOK(t) /\ t.items \in {o.items, n.items} /\ t.runs = n.runs
      /\ t.comments = n.comments
  BY <1>1, TornShape DEF n
<1>4. /\ Ratified(t).items = [k \in DOMAIN t.items |-> RatifiedRow(t.items[k])]
      /\ Ratified(t).runs = t.runs /\ Ratified(t).comments = t.comments
  BY <1>3, RatifiedShape
<1>5. DOMAIN t.items = DOMAIN o.items  BY <1>1, <1>3
<1>6. \A k \in DOMAIN o.items : RatifiedRow(t.items[k]) = RatifiedRow(o.items[k])
  <2> SUFFICES ASSUME NEW k \in DOMAIN o.items
               PROVE  RatifiedRow(t.items[k]) = RatifiedRow(o.items[k])
    OBVIOUS
  <2> DEFINE x == RatifiedRow(o.items[k])
  <2>1. t.items[k] = o.items[k] \/ t.items[k] = x  BY <1>1, <1>3
  <2>2. ~({PHASE, PENDING} \subseteq x.tags)
    BY <1>2 DEF RatifiedRow, Row
  <2>3. RatifiedRow(x) = x
    <3> HIDE DEF x
    <3> QED  BY <2>2 DEF RatifiedRow
  <2> QED  BY <2>1, <2>3
<1>7. Ratified(t).items = n.items
  BY <1>1, <1>4, <1>5, <1>6
<1>8. \A k \in DOMAIN t.items : t.items[k].id = k /\ t.items[k].deleted = o.items[k].deleted
  BY <1>1, <1>2, <1>3, RatifiedRowTyped DEF TablesOK
<1>9. ~RatifyRefused(t)
  <2> SUFFICES ASSUME NEW k \in DOMAIN t.items  PROVE Live(t, t.items[k].id)
    BY DEF RatifyRefused
  <2>1. Live(o, o.items[k].id) /\ o.items[k].id = k /\ t.items[k].id = k
    BY <1>5, <1>8 DEF RatifyRefused, TablesOK
  <2>2. ~o.items[k].deleted  BY <2>1, LiveIff
  <2>3. ~t.items[k].deleted  BY <1>8, <2>2
  <2> QED  BY <1>3, <2>1, <2>3, LiveIff
<1> QED  BY <1>3, <1>4, <1>7, <1>9 DEF SameContent, n

\* The replay of a create skips an item that is there, whose landing says what a fresh
\* one would.
LEMMA CreateReplay ==
    ASSUME BoardInv, FreshRuns, NEW r \in Request, r.verb = "create",
           Len(tables.items) < MaxItems, NEW id, id = Len(tables.items) + 1,
           NEW t \in Torn(tables, CreateWithId(tables, id, r))
    PROVE  SameContent(IF Live(t, id) THEN t ELSE CreateWithId(t, id, r),
                       CreateWithId(tables, id, r))
<1> DEFINE n == CreateWithId(tables, id, r)
           row == NewRow(id, r)
<1>1. TablesOK(tables)  BY DEF BoardInv, BoardTyped
<1>2. /\ r.type \in DOMAIN BoardOf /\ r.assignee \in Agent \cup {NoAgent}
      /\ r.body \in Body /\ r.tags \subseteq Tag
  BY RequestAssumption
<1>3. /\ TablesOK(n) /\ id \in Id /\ row \in Row
      /\ n.items = Append(tables.items, row)
      /\ n.runs = RunsAfter(tables.runs, id, "backlog", None)
      /\ n.comments = tables.comments
  BY <1>1, <1>2, CreatedShape
<1>4. /\ tables.items \in Seq(Row) /\ Len(tables.items) \in Nat
      /\ DOMAIN tables.items = 1..Len(tables.items) /\ tables.runs \in [Id -> Landings]
  BY <1>1 DEF TablesOK, TableSet
<1>5. n.runs = tables.runs
  <2>1. id \notin DOMAIN tables.items  BY <1>4
  <2>2. tables.runs[id] = [newest |-> None, bounce |-> None]
    BY <1>3, <2>1 DEF FreshRuns
  <2>3. RunsAfter(tables.runs, id, "backlog", None) =
          [tables.runs EXCEPT ![id] = [newest |-> None, bounce |-> None]]
    BY <2>2 DEF RunsAfter
  <2> QED  BY <1>3, <1>4, <2>2, <2>3
<1>6. n.items[id] = row /\ id \in DOMAIN n.items /\ ~row.deleted
  <2>1. ~row.deleted  BY DEF NewRow
  <2> HIDE DEF row
  <2> QED  BY <1>3, <1>4, <2>1, AppendProperties
<1> HIDE DEF n
<1>7. /\ TablesOK(t) /\ t.items \in {tables.items, n.items} /\ t.runs = n.runs
      /\ t.comments = n.comments
  BY <1>1, <1>3, <1>5, TornShape DEF n
<1>8. CASE t.items = n.items
  <2>1. Live(t, id)  BY <1>6, <1>7, <1>8, LiveIff
  <2> QED  BY <1>7, <1>8, <2>1 DEF SameContent, n
<1>9. CASE t.items = tables.items
  <2>1. ~Live(t, id)  BY <1>4, <1>7, <1>9, LiveIff
  <2>2. Len(t.items) < MaxItems /\ id = Len(t.items) + 1  BY <1>9
  <2>3. /\ CreateWithId(t, id, r).items = Append(t.items, row)
        /\ CreateWithId(t, id, r).runs = RunsAfter(t.runs, id, "backlog", None)
        /\ CreateWithId(t, id, r).comments = t.comments
    BY <1>2, <1>7, <2>2, CreatedShape
  <2>4. CreateWithId(t, id, r).runs = n.runs  BY <1>3, <1>5, <1>7, <2>3
  <2> QED  BY <1>3, <1>7, <1>9, <2>1, <2>3, <2>4 DEF SameContent, n
<1> QED  BY <1>7, <1>8, <1>9

\* The replay of whatever event the next command commits.
LEMMA ReplayOfNext ==
    ASSUME BoardInv, FreshRuns, NEW r \in Request, ~Refused(tables, r), WithinBounds(tables, r),
           NEW t \in Torn(tables, Handled(tables, r))
    PROVE  /\ ~ReplayRefused(t, EventOf(tables, r))
           /\ SameContent(Replay(t, EventOf(tables, r)), Handled(tables, r))
<1> DEFINE e == EventOf(tables, r)
<1>1. TablesOK(tables)  BY DEF BoardInv, BoardTyped
<1>2. CASE r.verb = "create"
  <2> DEFINE id == Len(tables.items) + 1
  <2>1. Handled(tables, r) = CreateWithId(tables, id, r) /\ Len(tables.items) < MaxItems
    BY <1>1, <1>2, NextIdIsNext DEF Handled, Created, WithinBounds
  <2>2. e = [kind |-> "Created", req |-> r, id |-> id]
    BY <1>1, <1>2, NextIdIsNext DEF EventOf
  <2> HIDE DEF e
  <2>3. Replay(t, e) = IF Live(t, id) THEN t ELSE CreateWithId(t, id, r)
    BY <2>2 DEF Replay
  <2>4. ~ReplayRefused(t, e)  BY <2>2 DEF ReplayRefused
  <2> HIDE DEF id
  <2>5. SameContent(IF Live(t, id) THEN t ELSE CreateWithId(t, id, r),
                    CreateWithId(tables, id, r))
    BY <1>2, <2>1, CreateReplay DEF id
  <2> QED  BY <2>1, <2>3, <2>4, <2>5 DEF e
<1>3. ASSUME NEW m, e = [kind |-> "Moved", req |-> m, unassign |-> FALSE],
             Handled(tables, r) = Moved(tables, m), Live(tables, m.id), MoveTyped(m)
      PROVE  ~ReplayRefused(t, e) /\ SameContent(Replay(t, e), Handled(tables, r))
  <2> HIDE DEF e
  <2>1. Live(t, m.id) /\ SameContent(Moved(t, m), Moved(tables, m))
    BY <1>1, <1>3, MovedReplay
  <2>2. Replay(t, e) = Moved(t, m)  BY <1>3 DEF Replay, ReplayMoved
  <2>3. ~ReplayRefused(t, e)  BY <1>3, <2>1 DEF ReplayRefused
  <2> QED  BY <1>3, <2>1, <2>2, <2>3
<1>4. CASE r.verb = "move"
  <2>1. e = [kind |-> "Moved", req |-> r, unassign |-> FALSE]  BY <1>4 DEF EventOf
  <2>2. Handled(tables, r) = Moved(tables, r) /\ Live(tables, r.id)
    BY <1>4 DEF Handled, Refused, MoveRefused
  <2>3. MoveTyped(r)  BY <1>4, RequestAssumption DEF MoveTyped
  <2> QED  BY <1>3, <2>1, <2>2, <2>3
<1>5. CASE r.verb = "claim"
  <2> DEFINE m == ClaimMove(r)
  <2>1. e = [kind |-> "Moved", req |-> m, unassign |-> FALSE]  BY <1>5 DEF EventOf
  <2>2. Handled(tables, r) = Moved(tables, m)  BY <1>5 DEF Handled, Claimed
  <2>3. m.id = r.id /\ Live(tables, r.id)
    BY <1>5 DEF Refused, ClaimRefused, ClaimMove, MoveOf
  <2>4. MoveTyped(m)
    BY <1>5, RequestAssumption DEF MoveTyped, ClaimMove, MoveOf, Status, VALID_STATUSES
  <2> HIDE DEF m
  <2> QED  BY <1>3, <2>1, <2>2, <2>3, <2>4
<1>6. CASE r.verb = "bounce"
  <2> DEFINE m == BounceMove(tables, r)
  <2>1. e = [kind |-> "Moved", req |-> m, unassign |-> TRUE]  BY <1>6 DEF EventOf
  <2>2. Handled(tables, r) = Bounced(tables, r) /\ Live(tables, r.id)
    BY <1>6 DEF Handled, Refused, BounceRefused
  <2>3. Live(t, r.id) /\ SameContent(UpdateAssignee(Moved(t, m), r.id, NoAgent), Bounced(tables, r))
    BY <1>1, <2>2, BounceReplay
  <2>4. m.id = r.id  BY DEF BounceMove, MoveOf
  <2> HIDE DEF m, e
  <2>5. Replay(t, e) = UpdateAssignee(Moved(t, m), r.id, NoAgent)
    BY <2>1, <2>4 DEF Replay, ReplayMoved
  <2>6. ~ReplayRefused(t, e)  BY <2>1, <2>3, <2>4 DEF ReplayRefused
  <2> QED  BY <2>2, <2>3, <2>5, <2>6 DEF e
<1>7. CASE r.verb = "requeue"
  <2>1. /\ e.kind = "Requeued" /\ e.req = r /\ e.status = RequeueStatus(tables, r)
        /\ e.attempts = Attempts(tables, r) /\ e.tag = DeadLettered(tables, r)
    BY <1>7 DEF EventOf
  <2>2. /\ Handled(tables, r) = Requeued(tables, r) /\ ~RequeueRefused(tables, r)
        /\ Attempts(tables, r) <= MaxAttempts
    BY <1>7 DEF Handled, Refused, WithinBounds
  <2> DEFINE u == RequeueWrites(t, r.id, RequeueStatus(tables, r), Attempts(tables, r),
                                DeadLettered(tables, r))
  <2>3. Live(t, r.id) /\ SameContent(u, Requeued(tables, r))
    BY <1>1, <2>2, RequeueReplay
  <2> HIDE DEF e
  <2>4. Replay(t, e) = u
    <3>1. Replay(t, e) = ReplayRequeued(t, e)  BY <2>1 DEF Replay
    <3> QED  BY <2>1, <3>1 DEF ReplayRequeued, RequeueWrites
  <2>5. ~ReplayRefused(t, e)  BY <2>1, <2>3 DEF ReplayRefused
  <2> HIDE DEF u
  <2> QED  BY <2>2, <2>3, <2>4, <2>5 DEF e
<1>8. CASE r.verb \in {"ratify", "update", "comment", "rank", "delete"}
  <2>1. e = [kind |-> r.verb, req |-> r]  BY <1>8 DEF EventOf
  <2> HIDE DEF e
  <2>2. CASE r.verb = "ratify"
    <3>1. Handled(tables, r) = Ratified(tables) /\ ~RatifyRefused(tables)
      BY <2>2 DEF Handled, Refused
    <3>2. ~RatifyRefused(t) /\ SameContent(Ratified(t), Ratified(tables))
      BY <1>1, <3>1, RatifyReplay
    <3> QED  BY <2>1, <2>2, <3>1, <3>2 DEF Replay, ReplayRefused, e
  <2>3. CASE r.verb = "update"
    <3>1. Handled(tables, r) = Updated(tables, r) /\ Live(tables, r.id)
      BY <2>3 DEF Handled, Refused
    <3>2. Live(t, r.id) /\ SameContent(Updated(t, r), Updated(tables, r))
      BY <1>1, <2>3, <3>1, UpdateReplay
    <3> QED  BY <2>1, <2>3, <3>1, <3>2 DEF Replay, ReplayRefused, e
  <2>4. CASE r.verb = "comment"
    <3>1. Handled(tables, r) = Commented(tables, r) /\ Live(tables, r.id)
      BY <2>4 DEF Handled, Refused
    <3>2. /\ Live(t, r.id)
          /\ SameContent(IF "text" \in t.comments[r.id] THEN t ELSE Commented(t, r),
                         Commented(tables, r))
      BY <1>1, <3>1, CommentReplay
    <3> QED  BY <2>1, <2>4, <3>1, <3>2 DEF Replay, ReplayRefused, e
  <2>5. CASE r.verb = "rank"
    <3>1. Handled(tables, r) = Ranked(tables, r) /\ Live(tables, r.id)
      BY <2>5 DEF Handled, Refused
    <3>2. Live(t, r.id) /\ SameContent(Ranked(t, r), Ranked(tables, r))
      BY <1>1, <2>5, <3>1, RankReplay
    <3> QED  BY <2>1, <2>5, <3>1, <3>2 DEF Replay, ReplayRefused, e
  <2>6. CASE r.verb = "delete"
    <3>1. Handled(tables, r) = Deleted(tables, r) /\ Live(tables, r.id)
      BY <2>6 DEF Handled, Refused
    <3>2. SameContent(IF Live(t, r.id) THEN Deleted(t, r) ELSE t, Deleted(tables, r))
      BY <1>1, <3>1, DeleteReplay
    <3> QED  BY <2>1, <2>6, <3>1, <3>2 DEF Replay, ReplayRefused, e
  <2> QED  BY <1>8, <2>2, <2>3, <2>4, <2>5, <2>6
<1>9. r.verb \in {"create", "move", "claim", "bounce", "requeue", "ratify", "update", "comment",
                  "rank", "delete"}
  BY RequestAssumption
<1> QED  BY <1>2, <1>4, <1>5, <1>6, <1>7, <1>8, <1>9

\* On tables of any age, wherever the save of the checkpoint is cut, the replay of
\* the event of whatever command comes next succeeds and rebuilds its tables.
THEOREM ReplayRebuilds == Spec => []ReplayConverges
<1>1. Init => FreshRuns  BY DEF Init, NoTables, FreshRuns
<1>2. BoardInv /\ FreshRuns /\ [Next]_vars => FreshRuns'  BY FreshStep
<1>3. BoardInv /\ FreshRuns => ReplayConverges  BY ReplayOfNext DEF ReplayConverges
<1> QED  BY BoardAlways, <1>1, <1>2, <1>3, PTL DEF Spec

-----------------------------------------------------------------------------
(* The contract with the agents.  Who holds an item can be read off claimants *)
(* before and after a step, so only the status of the written row is followed. *)

\* What the contract's variables are on tables with the invariant.
HolderRead ==
    /\ Holder \in [Id -> Agent \cup {NoAgent}] /\ Underway \in [Id -> BOOLEAN]
    /\ \A id \in Id :
           /\ claimants[id] = {} => Holder[id] = NoAgent
           /\ claimants[id] # {} => claimants[id] = {Holder[id]}
           /\ Underway[id] = (/\ id \in DOMAIN tables.items
                              /\ ~tables.items[id].deleted
                              /\ tables.items[id].status = "in_progress")

\* They are so in every state with the invariant.
LEMMA HolderIsTold == BoardInv => HolderRead
<1> SUFFICES ASSUME BoardInv  PROVE HolderRead
  OBVIOUS
<1> BoardTyped /\ OwnerNamed /\ TablesOK(tables)  BY DEF BoardInv, BoardTyped
<1>1. ASSUME NEW id \in Id, claimants[id] # {}
      PROVE  /\ claimants[id] = {tables.items[id].assignee}
             /\ Item(tables, id) = tables.items[id] /\ tables.items[id].assignee \in Agent
  <2>1. Live(tables, id)  BY <1>1, LiveIff DEF OwnerNamed
  <2>2. Item(tables, id) = tables.items[id]  BY <2>1, RowOfId
  <2> QED  BY <1>1, <2>2 DEF OwnerNamed, BoardTyped
<1>2. ASSUME NEW id \in Id
      PROVE  Underway[id] = (/\ id \in DOMAIN tables.items /\ ~tables.items[id].deleted
                             /\ tables.items[id].status = "in_progress")
  <2>1. Live(tables, id) = (id \in DOMAIN tables.items /\ ~tables.items[id].deleted)
    BY LiveIff DEF Live
  <2>2. Live(tables, id) => Item(tables, id) = tables.items[id]  BY RowOfId
  <2> QED  BY <2>1, <2>2 DEF Underway
<1>3. Underway \in [Id -> BOOLEAN]
  <2>1. \A id \in Id : (Live(tables, id) /\ Item(tables, id).status = "in_progress") \in BOOLEAN
    OBVIOUS
  <2> QED  BY <2>1 DEF Underway
<1>4. Holder \in [Id -> Agent \cup {NoAgent}]  BY <1>1 DEF Holder
<1>5. \A id \in Id : claimants[id] = {} => Holder[id] = NoAgent  BY DEF Holder
<1>6. \A id \in Id : claimants[id] # {} => claimants[id] = {Holder[id]}
  BY <1>1 DEF Holder
<1> QED  BY <1>2, <1>3, <1>4, <1>5, <1>6 DEF HolderRead

\* A step that writes one row: what it makes of the contract's variables.
LEMMA OneRowClaim ==
    ASSUME BoardInv, BoardInv', NEW id, Live(tables, id), NEW row,
           tables'.items = [tables.items EXCEPT ![id] = row],
           \A j \in Id : j # id => claimants'[j] = claimants[j]
    PROVE  /\ id \in Id /\ Underway'[id] \in BOOLEAN
           /\ Underway' = [Underway EXCEPT ![id] = Underway'[id]]
           /\ Holder' = [Holder EXCEPT ![id] = Holder'[id]]
           /\ Underway'[id] = (~row.deleted /\ row.status = "in_progress")
<1>1. HolderRead /\ HolderRead'
  <2>1. BoardInv' => HolderRead'  BY HolderIsTold, PTL
  <2> QED  BY <2>1, HolderIsTold
<1>3. id \in Id /\ id \in DOMAIN tables.items  BY RowOfId DEF BoardInv, BoardTyped
<1>4. /\ DOMAIN tables'.items = DOMAIN tables.items /\ tables'.items[id] = row
      /\ \A j \in DOMAIN tables.items : j # id => tables'.items[j] = tables.items[j]
  BY <1>3
<1>5. ASSUME NEW j \in Id, j # id  PROVE Underway'[j] = Underway[j]
  <2>1. Underway[j] = (/\ j \in DOMAIN tables.items /\ ~tables.items[j].deleted
                       /\ tables.items[j].status = "in_progress")
    BY <1>1 DEF HolderRead
  <2>2. Underway'[j] = (/\ j \in DOMAIN tables'.items /\ ~tables'.items[j].deleted
                        /\ tables'.items[j].status = "in_progress")
    BY <1>1 DEF HolderRead
  <2>3. /\ j \in DOMAIN tables'.items <=> j \in DOMAIN tables.items
        /\ j \in DOMAIN tables.items => tables'.items[j] = tables.items[j]
    BY <1>4, <1>5
  <2> QED  BY <2>1, <2>2, <2>3
<1>6. ASSUME NEW j \in Id, j # id  PROVE Holder'[j] = Holder[j]
  <2>1. CASE claimants[j] = {}  BY <1>1, <1>6, <2>1 DEF HolderRead
  <2>2. CASE claimants[j] # {}
    <3>1. {Holder'[j]} = {Holder[j]}  BY <1>1, <1>6, <2>2 DEF HolderRead
    <3> QED  BY <3>1
  <2> QED  BY <2>1, <2>2
<1>7. Underway'[id] = (~row.deleted /\ row.status = "in_progress")
  BY <1>1, <1>3, <1>4 DEF HolderRead
<1>8. Underway' = [Underway EXCEPT ![id] = Underway'[id]]  BY <1>1, <1>5 DEF HolderRead
<1>9. Holder' = [Holder EXCEPT ![id] = Holder'[id]]  BY <1>1, <1>6 DEF HolderRead
<1>10. Underway'[id] \in BOOLEAN  BY <1>1, <1>3 DEF HolderRead
<1> QED  BY <1>3, <1>7, <1>8, <1>9, <1>10

\* A step that leaves nobody told about the item of the row it writes relieves its
\* holder.
LEMMA RelievedStep ==
    ASSUME BoardInv, BoardInv', NEW id, Live(tables, id), NEW row,
           tables'.items = [tables.items EXCEPT ![id] = row],
           claimants' = [claimants EXCEPT ![id] = {}]
    PROVE  \E i \in Id : Claims!Relieve(i)
<1>1. id \in Id /\ claimants \in [Id -> SUBSET Agent]
  BY RowOfId DEF BoardInv, BoardTyped
<1>2. claimants'[id] = {} /\ \A j \in Id : j # id => claimants'[j] = claimants[j]
  BY <1>1
<1>3. HolderRead'
  <2>1. BoardInv' => HolderRead'  BY HolderIsTold, PTL
  <2> QED  BY <2>1
<1>4. Holder'[id] = NoAgent  BY <1>1, <1>2, <1>3 DEF HolderRead
<1>5. /\ Holder' = [Holder EXCEPT ![id] = Holder'[id]]
      /\ Underway' = [Underway EXCEPT ![id] = Underway'[id]] /\ Underway'[id] \in BOOLEAN
  BY <1>2, OneRowClaim
<1>6. Claims!Relieve(id)  BY <1>4, <1>5 DEF Claims!Relieve
<1> QED  BY <1>1, <1>6

\* A step that tells nobody anything is progress at most.
LEMMA UntoldStep ==
    ASSUME BoardInv, BoardInv', claimants' = claimants
    PROVE  Claims!Progress
<1>1. HolderRead /\ HolderRead'
  <2>1. BoardInv' => HolderRead'  BY HolderIsTold, PTL
  <2> QED  BY <2>1, HolderIsTold
<1>2. ASSUME NEW j \in Id  PROVE Holder'[j] = Holder[j]
  <2>1. CASE claimants[j] = {}  BY <1>1, <2>1 DEF HolderRead
  <2>2. CASE claimants[j] # {}
    <3>1. {Holder'[j]} = {Holder[j]}  BY <1>1, <2>2 DEF HolderRead
    <3> QED  BY <3>1
  <2> QED  BY <2>1, <2>2
<1>3. Holder' = Holder  BY <1>1, <1>2 DEF HolderRead
<1> QED  BY <1>1, <1>3 DEF Claims!Progress, HolderRead

\* A step that tells an agent the item of the row it writes, which it puts in
\* progress, is a claim the contract allows.
LEMMA ToldStep ==
    ASSUME BoardInv, BoardInv', NEW id, Live(tables, id), NEW row,
           tables'.items = [tables.items EXCEPT ![id] = row],
           NEW a \in Agent, claimants'[id] = {a},
           \A j \in Id : j # id => claimants'[j] = claimants[j],
           ~row.deleted, row.status = "in_progress",
           tables.items[id].status = "in_progress" => tables.items[id].assignee \in {NoAgent, a}
    PROVE  \E i \in Id, b \in Agent : Claims!Take(i, b)
<1>1. id \in Id /\ id \in DOMAIN tables.items  BY RowOfId DEF BoardInv, BoardTyped
<1>2. HolderRead /\ HolderRead'
  <2>1. BoardInv' => HolderRead'  BY HolderIsTold, PTL
  <2> QED  BY <2>1, HolderIsTold
<1>3. Holder'[id] = a
  <2>1. {Holder'[id]} = {a}  BY <1>1, <1>2 DEF HolderRead
  <2> QED  BY <2>1
<1>4. /\ Holder' = [Holder EXCEPT ![id] = a]
      /\ Underway' = [Underway EXCEPT ![id] = TRUE]
  <2>1. /\ Holder' = [Holder EXCEPT ![id] = Holder'[id]]
        /\ Underway' = [Underway EXCEPT ![id] = Underway'[id]]
        /\ Underway'[id] = (~row.deleted /\ row.status = "in_progress")
    BY OneRowClaim
  <2>2. Underway'[id] = TRUE  BY <2>1
  <2> QED  BY <1>3, <2>1, <2>2
<1>5. Holder[id] \in {NoAgent, a} \/ ~Underway[id]
  <2>1. CASE tables.items[id].status # "in_progress"  BY <1>1, <1>2, <2>1 DEF HolderRead
  <2>2. CASE tables.items[id].status = "in_progress" /\ claimants[id] = {}
    BY <1>1, <1>2, <2>2 DEF HolderRead
  <2>3. CASE tables.items[id].status = "in_progress" /\ claimants[id] # {}
    <3>1. {Holder[id]} = {tables.items[id].assignee}
      BY <1>1, <1>2, <2>3 DEF HolderRead, BoardInv, OwnerNamed
    <3>2. Holder[id] = tables.items[id].assignee  BY <3>1
    <3> QED  BY <2>3, <3>2
  <2> QED  BY <2>1, <2>2, <2>3
<1>6. Claims!Take(id, a)  BY <1>4, <1>5 DEF Claims!Take
<1> QED  BY <1>1, <1>6

\* A move passes the item on, relieves its holder, or tells nobody anything.
LEMMA MoveClaims ==
    ASSUME BoardInv, BoardInv', Move
    PROVE  \/ \E i \in Id : Claims!Relieve(i)
           \/ \E i \in Id, a \in Agent : Claims!Take(i, a)
           \/ Claims!Progress
<1>1. PICK r \in Request :
        /\ r.verb = "move" /\ Serve(r)
        /\ claimants' = [claimants EXCEPT ![r.id] =
               IF r.assignee = NoAgent THEN @
               ELSE IF r.force \/ r.to # "in_progress" THEN {}
               ELSE IF Item(tables, r.id).status = "in_progress" THEN @ \cup {r.assignee}
               ELSE {r.assignee}]
        /\ UNCHANGED refusedBody
  BY DEF Move
<1> DEFINE id == r.id
           old == tables.items[id]
           row == MovedRow(old, r)
<1>2. TablesOK(tables) /\ claimants \in [Id -> SUBSET Agent]  BY DEF BoardInv, BoardTyped
<1>3. ~MoveRefused(tables, r) /\ tables' = Moved(tables, r)
  BY <1>1 DEF Serve, Refused, Handled
<1>4. Live(tables, id)  BY <1>3 DEF MoveRefused
<1>5. id \in Id /\ Item(tables, id) = old /\ old \in Row /\ ~old.deleted
  BY <1>2, <1>4, RowOfId
<1>6. MoveTyped(r) /\ r.force \in BOOLEAN  BY <1>1, RequestAssumption DEF MoveTyped
<1>7. tables'.items = [tables.items EXCEPT ![id] = row]
  BY <1>2, <1>3, <1>4, <1>6, MovedShape
<1>8. ~row.deleted /\ row.status = r.to  BY <1>5, <1>6, MovedRowFields
<1>9. CASE r.assignee = NoAgent
  <2>1. claimants' = claimants  BY <1>1, <1>2, <1>5, <1>9
  <2> QED  BY <2>1, UntoldStep
<1>10. CASE r.assignee # NoAgent /\ (r.force \/ r.to # "in_progress")
  <2>1. claimants' = [claimants EXCEPT ![id] = {}]  BY <1>1, <1>10
  <2> QED  BY <1>4, <1>7, <2>1, RelievedStep
<1>11. CASE r.assignee # NoAgent /\ ~r.force /\ r.to = "in_progress"
  <2> DEFINE a == r.assignee
  <2>1. a \in Agent  BY <1>6, <1>11 DEF MoveTyped
  <2>2. /\ a \in claimants'[id]
        /\ \A j \in Id : j # id => claimants'[j] = claimants[j]
    BY <1>1, <1>2, <1>5, <1>11
  <2>3. claimants'[id] = {a}
    <3>1. claimants'[id] = {tables'.items[id].assignee}  BY <1>5, <2>2 DEF BoardInv, OwnerNamed
    <3> QED  BY <2>2, <3>1
  <2>4. old.status = "in_progress" => old.assignee \in {NoAgent, a}
    BY <1>3, <1>5, <1>11 DEF MoveRefused, ClaimConflict
  <2> HIDE DEF row
  <2> QED  BY <1>4, <1>7, <1>8, <1>11, <2>1, <2>2, <2>3, <2>4, ToldStep
<1> QED  BY <1>6, <1>9, <1>10, <1>11

\* A claim takes an item that is free, the agent's own already, or not under way.
LEMMA ClaimClaims ==
    ASSUME BoardInv, BoardInv', Claim
    PROVE  \E i \in Id, a \in Agent : Claims!Take(i, a)
<1>1. PICK r \in Request :
        /\ r.verb = "claim" /\ Serve(r)
        /\ claimants' = [claimants EXCEPT ![r.id] = @ \cup {r.agent}]
        /\ UNCHANGED refusedBody
  BY DEF Claim
<1> DEFINE id == r.id
           old == tables.items[id]
           row == MovedRow(old, ClaimMove(r))
<1>2. TablesOK(tables) /\ claimants \in [Id -> SUBSET Agent]  BY DEF BoardInv, BoardTyped
<1>3. /\ Live(tables, id) /\ r.agent \in Agent /\ old.assignee \in {NoAgent, r.agent}
      /\ tables'.items = [tables.items EXCEPT ![id] = row]
  BY <1>1, ClaimShape
<1>4. id \in Id /\ old \in Row /\ ~old.deleted  BY <1>2, <1>3, RowOfId
<1>5. ~row.deleted /\ row.status = "in_progress"
  <2>1. MoveTyped(ClaimMove(r)) /\ ClaimMove(r).to = "in_progress"
    BY <1>3 DEF ClaimMove, MoveOf, MoveTyped, Status, VALID_STATUSES
  <2> QED  BY <1>4, <2>1, MovedRowFields
<1>6. /\ r.agent \in claimants'[id]
      /\ \A j \in Id : j # id => claimants'[j] = claimants[j]
  BY <1>1, <1>2, <1>4
<1>7. claimants'[id] = {r.agent}
  <2>1. claimants'[id] = {tables'.items[id].assignee}  BY <1>4, <1>6 DEF BoardInv, OwnerNamed
  <2> QED  BY <1>6, <2>1
<1> HIDE DEF row
<1> QED  BY <1>3, <1>5, <1>6, <1>7, ToldStep

\* A bounce, a requeue and a delete relieve the holder, and an update that names an
\* assignee does.
LEMMA RelievingClaims ==
    ASSUME BoardInv, BoardInv', Bounce \/ Requeue \/ Update \/ Delete
    PROVE  Claims!Progress \/ \E i \in Id : Claims!Relieve(i)
<1>1. TablesOK(tables) /\ claimants \in [Id -> SUBSET Agent]  BY DEF BoardInv, BoardTyped
<1>2. CASE Bounce
  <2>1. PICK r \in Request :
          r.verb = "bounce" /\ Serve(r) /\ claimants' = [claimants EXCEPT ![r.id] = {}]
    BY <1>2 DEF Bounce
  <2>2. Live(tables, r.id) /\ tables' = Bounced(tables, r)
    BY <2>1 DEF Serve, Refused, Handled, BounceRefused
  <2>3. tables'.items = [tables.items EXCEPT ![r.id] = BouncedRow(tables.items[r.id])]
    BY <1>1, <2>2, BouncedShape
  <2> QED  BY <2>1, <2>2, <2>3, RelievedStep
<1>3. CASE Requeue
  <2>1. PICK r \in Request :
          r.verb = "requeue" /\ Serve(r) /\ claimants' = [claimants EXCEPT ![r.id] = {}]
    BY <1>3 DEF Requeue
  <2>2. /\ ~RequeueRefused(tables, r) /\ Attempts(tables, r) <= MaxAttempts
        /\ tables' = Requeued(tables, r)
    BY <2>1 DEF Serve, Refused, Handled, WithinBounds
  <2>3. /\ Live(tables, r.id)
        /\ tables'.items = [tables.items EXCEPT ![r.id] =
               RequeuedRow(tables.items[r.id], RequeueStatus(tables, r),
                           Attempts(tables, r), DeadLettered(tables, r))]
    BY <1>1, <2>2, RequeuedShape
  <2> QED  BY <2>1, <2>3, RelievedStep
<1>4. CASE Update
  <2>1. PICK r \in Request :
          /\ r.verb = "update" /\ Serve(r)
          /\ claimants' = [claimants EXCEPT ![r.id] = IF r.assignee = Same THEN @ ELSE {}]
    BY <1>4 DEF Update
  <2>2. Live(tables, r.id) /\ tables' = Updated(tables, r)
    BY <2>1 DEF Serve, Refused, Handled
  <2>3. tables'.items = [tables.items EXCEPT ![r.id] = UpdatedRow(tables.items[r.id], r)]
    BY <1>1, <2>1, <2>2, UpdatedShape
  <2>4. CASE r.assignee = Same
    <3>1. claimants' = claimants  BY <1>1, <2>1, <2>4
    <3> QED  BY <3>1, UntoldStep
  <2>5. CASE r.assignee # Same
    <3>1. claimants' = [claimants EXCEPT ![r.id] = {}]  BY <2>1, <2>5
    <3> QED  BY <2>2, <2>3, <3>1, RelievedStep
  <2> QED  BY <2>4, <2>5
<1>5. CASE Delete
  <2>1. PICK r \in Request :
          r.verb = "delete" /\ Serve(r) /\ claimants' = [claimants EXCEPT ![r.id] = {}]
    BY <1>5 DEF Delete
  <2>2. Live(tables, r.id) /\ tables' = Deleted(tables, r)
    BY <2>1 DEF Serve, Refused, Handled
  <2>3. tables'.items = [tables.items EXCEPT ![r.id] =
                            [tables.items[r.id] EXCEPT !.deleted = TRUE]]
    BY <1>1, <2>2, DeletedShape
  <2> QED  BY <2>1, <2>2, <2>3, RelievedStep
<1> QED  BY <1>2, <1>3, <1>4, <1>5

\* The board implements the contract: whatever agents, items and requests there are,
\* an item in progress that an agent was told is its own goes to another only after
\* a bounce, a requeue, a reassignment, a forced move or a delete relieved it
\* (check_exclusive_claim, handle_claim_typed).
THEOREM BoardImplementsClaims == Spec => KeepsClaims
<1>1. ASSUME BoardInv, Init  PROVE Claims!Init
  <2>1. tables.items = <<>> /\ DOMAIN tables.items = {}  BY <1>1 DEF Init, NoTables
  <2>2. \A id \in Id : claimants[id] = {}  BY <1>1 DEF Init
  <2>3. HolderRead  BY <1>1, HolderIsTold
  <2>4. \A id \in Id : Holder[id] = NoAgent  BY <2>2, <2>3 DEF HolderRead
  <2>5. \A id \in Id : Underway[id] = FALSE  BY <2>1, <2>3 DEF HolderRead
  <2> QED  BY <2>3, <2>4, <2>5 DEF Claims!Init, HolderRead
<1>2. ASSUME BoardInv, BoardInv', [Next]_vars
      PROVE  [Claims!Next]_(Claims!claimVars)
  <2> SUFFICES Claims!Next  OBVIOUS
  <2>1. CASE Create \/ Ratify \/ Annotate \/ Refuse \/ UNCHANGED vars
    <3>1. claimants' = claimants
      BY <2>1 DEF Create, Ratify, Annotate, Refuse, vars
    <3> QED  BY <1>2, <3>1, UntoldStep DEF Claims!Next
  <2>2. CASE Move  BY <1>2, <2>2, MoveClaims DEF Claims!Next
  <2>3. CASE Claim  BY <1>2, <2>3, ClaimClaims DEF Claims!Next
  <2>4. CASE Bounce \/ Requeue \/ Update \/ Delete
    BY <1>2, <2>4, RelievingClaims DEF Claims!Next
  <2> QED  BY <1>2, <2>1, <2>2, <2>3, <2>4 DEF Next
<1>3. Init => BoardInv  BY BoardInit
<1>4. Init => Claims!Init  BY <1>1, <1>3
<1>5. BoardInv /\ BoardInv' /\ [Next]_vars => [Claims!Next]_(Claims!claimVars)  BY <1>2
<1> QED  BY BoardAlways, <1>4, <1>5, PTL DEF Spec, KeepsClaims, Claims!Spec
=============================================================================
