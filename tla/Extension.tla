------------------------------ MODULE Extension ------------------------------
(***************************************************************************)
(* A command extension beside the core tables: KanbanEngine::apply and     *)
(* restore_extension (server/src/engine.rs) around an EngineExtension      *)
(* (server/src/extension.rs) as the repository's own battery writes one    *)
(* (server/tests/extension_persistence_acceptance.rs): a table of rows     *)
(* under ids the extension mints, saved after each commit to a table file  *)
(* and a sidecar that names the seq the file reflects, and rebuilt at the  *)
(* next start from both and from the tail of the event log.                *)
(*                                                                         *)
(* The commit itself is the subject of DurableStore; here it is the append *)
(* and the save that completes it, each of which may fail.                 *)
(***************************************************************************)
EXTENDS Integers, SequencesExt

CONSTANTS
    Proposal,   \* the extension's mutations, each sent at most once
    Core,       \* any mutation of the core tables
    NoCommand,  \* "no command is running"
    TruncateMayFail, \* may the truncate that takes a record back fail?
    MaxLog      \* bound: a core command starts only while the log is shorter

ASSUME ExtensionAssumption ==
    /\ Core \notin Proposal /\ NoCommand \notin Proposal \cup {Core}
    /\ TruncateMayFail \in BOOLEAN /\ MaxLog \in Nat

VARIABLES
    log,            \* _events.log, whole records
    table,          \* the extension's table file
    sidecar,        \* the seq in the sidecar file, 0 when there is none
    pc,             \* what the server process is doing
    cur,            \* the command being served, with the id it was given
    rows, next_id,  \* the extension's table in memory, and its counter
    tail,           \* the positions of the log a start has still to replay
    committed_seq, health,
    snapshot,       \* the seq and the extension's rows in the AggregateSnapshot
    outcome,        \* what the client of each proposal was told
    told            \* the id in the reply to each proposal

disk    == <<log, table, sidecar>>
engine  == <<rows, next_id, committed_seq, health>>
clients == <<outcome, told>>
vars    == <<disk, pc, cur, tail, engine, snapshot, clients>>

DemoRow == [id : Nat, by : Proposal]
Record == [seq : Nat, cmd : Proposal \cup {Core}, id : Nat]
Idle == [cmd |-> NoCommand, id |-> 0]

Ids(rs) == {rs[n].id : n \in DOMAIN rs}

\* The counter a restore starts with, past every id of the table file.
NextAfter(rs) == 1 + Max({0} \cup Ids(rs))

\* scan_high_water
HighWater == Max({0} \cup {log[n].seq : n \in DOMAIN log})

\* read_events_since: positions, as its sort by seq leaves the file order (the
\* seqs of the file never decrease, and records with one seq stay as they are).
EventsSince(after) == {n \in DOMAIN log : log[n].seq > after}

Init ==
    /\ log = <<>> /\ table = <<>> /\ sidecar = 0
    /\ pc = "down" /\ cur = Idle /\ tail = {}
    /\ rows = <<>> /\ next_id = 1 /\ committed_seq = 0 /\ health = "healthy"
    /\ snapshot = [seq |-> 0, rows |-> <<>>]
    /\ outcome = [p \in Proposal |-> "unsent"]
    /\ told = [p \in Proposal |-> 0]
-----------------------------------------------------------------------------
(* Start: restore the checkpoint, replay the tail, serve *)

\* restore: the table file, and the sidecar's seq, or 0 when it cannot be read.
Start ==
    /\ pc = "down"
    /\ rows' = table /\ next_id' = NextAfter(table)
    /\ committed_seq' = HighWater
    /\ health' \in {"healthy", "degraded"}
    /\ \E ext_seq \in {sidecar, 0} : tail' = EventsSince(ext_seq)
    /\ pc' = "restoring"
    /\ UNCHANGED <<disk, cur, snapshot, clients>>

\* A bug: a row that is there already is added again.
Replay_NoDedup(e) ==
    IF e.cmd = Core THEN UNCHANGED <<rows, next_id>>
    ELSE /\ rows' = Append(rows, [id |-> e.id, by |-> e.cmd])
         /\ next_id' = Max({next_id, e.id + 1})

\* A bug: the counter is left where the table file put it.
Replay_StaleCounter(e) ==
    IF e.cmd = Core \/ e.id \in Ids(rows) THEN UNCHANGED <<rows, next_id>>
    ELSE /\ rows' = Append(rows, [id |-> e.id, by |-> e.cmd])
         /\ UNCHANGED next_id

\* replay: core events are skipped, and a row whose id is there already.
Replay(e) ==
    IF e.cmd = Core \/ e.id \in Ids(rows) THEN UNCHANGED <<rows, next_id>>
    ELSE /\ rows' = Append(rows, [id |-> e.id, by |-> e.cmd])
         /\ next_id' = Max({next_id, e.id + 1})

ReplayEvent ==
    /\ pc = "restoring" /\ tail # {}
    /\ Replay(log[Min(tail)])
    /\ tail' = tail \ {Min(tail)}
    /\ UNCHANGED <<disk, pc, cur, committed_seq, health, snapshot, clients>>

\* The owning task is spawned and seeds the snapshot.
Serve ==
    /\ pc = "restoring" /\ tail = {}
    /\ snapshot' = [seq |-> committed_seq, rows |-> rows]
    /\ pc' = "idle"
    /\ UNCHANGED <<disk, cur, tail, engine, clients>>
-----------------------------------------------------------------------------
(* One mutation through KanbanEngine::apply *)

\* Admission by a healthy gate, or a degraded one whose probe succeeds; then the
\* verb itself.  What a lost proposal put into the table stays there.
Propose(p) ==
    /\ pc = "idle" /\ outcome[p] = "unsent"
    /\ rows' = Append(rows, [id |-> next_id, by |-> p])
    /\ next_id' = next_id + 1
    /\ cur' = [cmd |-> p, id |-> next_id]
    /\ outcome' = [outcome EXCEPT ![p] = "pending"]
    /\ health' = "healthy" /\ pc' = "append"
    /\ UNCHANGED <<disk, tail, committed_seq, snapshot, told>>

CoreCommand ==
    /\ pc = "idle" /\ Len(log) < MaxLog
    /\ cur' = [cmd |-> Core, id |-> 0]
    /\ health' = "healthy" /\ pc' = "append"
    /\ UNCHANGED <<disk, tail, rows, next_id, committed_seq, snapshot, clients>>

\* STORE_DEGRADED: the probe is not due, or fails.
Refuse(p) ==
    /\ pc = "idle" /\ outcome[p] = "unsent" /\ health = "degraded"
    /\ outcome' = [outcome EXCEPT ![p] = "refused"]
    /\ UNCHANGED <<disk, pc, cur, tail, engine, snapshot, told>>

CurRecord == [seq |-> committed_seq + 1, cmd |-> cur.cmd, id |-> cur.id]

AppendRecord ==
    /\ pc = "append"
    /\ log' = Append(log, CurRecord)
    /\ pc' = "save"
    /\ UNCHANGED <<table, sidecar, cur, tail, engine, snapshot, clients>>

SaveTables ==
    /\ pc = "save"
    /\ committed_seq' = committed_seq + 1
    /\ pc' = "checkpoint"
    /\ UNCHANGED <<disk, cur, tail, rows, next_id, health, snapshot, clients>>

\* The append or the save fails: the record is taken off the log again, or its
\* truncate fails too and it stays.  The client is told that the write is lost.
CommitFails ==
    /\ pc \in {"append", "save"}
    /\ LET before == IF pc = "save" THEN Front(log) ELSE log
       IN  log' \in {before} \cup
                    (IF TruncateMayFail THEN {Append(before, CurRecord)} ELSE {})
    /\ outcome' = [p \in Proposal |-> IF p = cur.cmd THEN "lost" ELSE outcome[p]]
    /\ health' = "degraded" /\ pc' = "idle" /\ cur' = Idle
    /\ UNCHANGED <<table, sidecar, tail, rows, next_id, committed_seq, snapshot, told>>

\* checkpoint, first file: the table as memory has it.
CheckpointTable ==
    /\ pc = "checkpoint"
    /\ table' = rows
    /\ pc' = "sidecar"
    /\ UNCHANGED <<log, sidecar, cur, tail, engine, snapshot, clients>>

\* checkpoint, second file.
CheckpointSidecar ==
    /\ pc = "sidecar"
    /\ sidecar' = committed_seq
    /\ pc' = "reply"
    /\ UNCHANGED <<log, table, cur, tail, engine, snapshot, clients>>

\* A bug: the table cannot be written, and the sidecar is written all the same.
CheckpointFails_GoesOn ==
    /\ pc \in {"checkpoint", "sidecar"}
    /\ pc' = IF pc = "checkpoint" THEN "sidecar" ELSE "reply"
    /\ UNCHANGED <<disk, cur, tail, engine, snapshot, clients>>

\* Either file cannot be written: the checkpoint trails, the commit stands.
CheckpointFails ==
    /\ pc \in {"checkpoint", "sidecar"}
    /\ pc' = "reply"
    /\ UNCHANGED <<disk, cur, tail, engine, snapshot, clients>>

\* The seq advanced, so a snapshot is installed; then the answer leaves.
Reply ==
    /\ pc = "reply"
    /\ snapshot' = [seq |-> committed_seq, rows |-> rows]
    /\ outcome' = [p \in Proposal |-> IF p = cur.cmd THEN "acked" ELSE outcome[p]]
    /\ told' = [p \in Proposal |-> IF p = cur.cmd THEN cur.id ELSE told[p]]
    /\ pc' = "idle" /\ cur' = Idle
    /\ UNCHANGED <<disk, tail, engine>>

\* The process dies between two calls; a proposal it was serving has no answer.
Crash ==
    /\ pc # "down"
    /\ pc' = "down" /\ cur' = Idle /\ tail' = {}
    /\ rows' = <<>> /\ next_id' = 1 /\ committed_seq' = 0 /\ health' = "healthy"
    /\ snapshot' = [seq |-> 0, rows |-> <<>>]
    /\ outcome' = [p \in Proposal |-> IF p = cur.cmd THEN "unknown" ELSE outcome[p]]
    /\ UNCHANGED <<disk, told>>

Next ==
    \/ Start \/ ReplayEvent \/ Serve
    \/ \E p \in Proposal : Propose(p) \/ Refuse(p)
    \/ CoreCommand \/ AppendRecord \/ SaveTables \/ CommitFails
    \/ CheckpointTable \/ CheckpointSidecar \/ CheckpointFails
    \/ Reply \/ Crash

Spec == Init /\ [][Next]_vars
-----------------------------------------------------------------------------
(* Properties *)

Serving == pc \notin {"down", "restoring"}
Outcome == {"unsent", "pending", "acked", "lost", "refused", "unknown"}

\* The variables have their types.
TypeOK ==
    /\ log \in Seq(Record) /\ table \in Seq(DemoRow) /\ sidecar \in Nat
    /\ pc \in {"down", "restoring", "idle", "append", "save", "checkpoint",
               "sidecar", "reply"}
    /\ cur \in [cmd : Proposal \cup {Core, NoCommand}, id : Nat]
    /\ rows \in Seq(DemoRow) /\ next_id \in Nat \ {0} /\ tail \subseteq DOMAIN log
    /\ committed_seq \in Nat /\ health \in {"healthy", "degraded"}
    /\ snapshot \in [seq : Nat, rows : Seq(DemoRow)]
    /\ outcome \in [Proposal -> Outcome] /\ told \in [Proposal -> Nat]

\* The ids the table minted name one row each, whatever was lost, replayed over a
\* checkpoint that trails, or minted by a process before this one
\* (extension.rs: "a torn checkpoint ... cannot double a row").
IdsNameOneRow == Serving => IsInjective([n \in DOMAIN rows |-> rows[n].id])

\* An acknowledged proposal is found under the id its reply named, by every
\* server that runs after it, from the checkpoint or from the log, in the table
\* and in what readers see (restore_extension: "durable across a restart,
\* checkpoint-or-log").
AckedKeepsItsId ==
    Serving => \A p \in Proposal : outcome[p] = "acked" =>
        LET row == [id |-> told[p], by |-> p]
        IN  row \in ToSet(rows) /\ row \in ToSet(snapshot.rows)

\* The sidecar never speaks for more than the table file holds: a proposal the
\* log has at or below its seq is in the file, so leaving it out of the replay
\* loses nothing.
SidecarCovers ==
    \A n \in DOMAIN log : (log[n].cmd # Core /\ log[n].seq <= sidecar) =>
        [id |-> log[n].id, by |-> log[n].cmd] \in ToSet(table)

\* A snapshot that claims a seq has every proposal committed up to it: the
\* first one of a server as well as those installed after a commit.
SnapshotCoversSeq ==
    Serving => \A n \in DOMAIN log : (log[n].cmd # Core /\ log[n].seq <= snapshot.seq) =>
        [id |-> log[n].id, by |-> log[n].cmd] \in ToSet(snapshot.rows)

\* Nothing speaks for more than it holds: neither the sidecar for the table file
\* nor a snapshot for its rows.
SeqsCovered == TypeOK /\ SidecarCovers /\ SnapshotCoversSeq
=============================================================================
