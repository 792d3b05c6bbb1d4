---------------------------- MODULE DurableStore ----------------------------
(***************************************************************************)
(* The write path of the kanban server: KanbanEngine::apply                *)
(* (server/src/engine.rs), ParquetBackend::commit and ::load               *)
(* (server/src/storage.rs), the four-table save of persist.rs and          *)
(* parquet_store.rs, the health gate (server/src/health.rs), the snapshot  *)
(* the engine-owning task installs (server/src/actor.rs) and the startup   *)
(* and shutdown of server/src/main.rs.                                     *)
(*                                                                         *)
(* One server process owns the data directory: the writer lease and a      *)
(* second process are the subject of WriterFence.  A write stands for one  *)
(* mutating command.  Each touches an item of its own that exists when the *)
(* event is replayed, so replay_into never reports an error here.          *)
(***************************************************************************)
EXTENDS Integers, Sequences, FiniteSets

CONSTANTS
    Write,      \* the mutating commands clients may send, each at most once
    KindOf,     \* the kind of each write, which decides the tables it touches
    NoWrite,    \* "no commit is running"
    Faults      \* what may go wrong, besides a crash between two I/O calls

Kind == {"create", "move", "comment", "relate"}

\* "append", "save", "manifest", "truncate": that I/O call may report an error.
\* "torn": a crash may fall inside an append, not only between two calls.
FaultKind == {"append", "save", "manifest", "truncate", "torn"}

ASSUME StoreAssumption ==
    /\ KindOf \in [Write -> Kind]
    /\ NoWrite \notin Write
    /\ Faults \subseteq FaultKind

VARIABLES
    log,            \* the decodable records of _events.log, in file order
    tail,           \* the bytes after the last whole line of _events.log
    parquet,        \* the four table files, as rows per table and write
    manifest,       \* the seq in _checkpoint.manifest
    pc,             \* what the server process is doing
    cur,            \* the write being committed
    at,             \* position in the loop of the current phase
    rollback,       \* the log as `commit` measured it before the append
    mem,            \* the engine's in-memory tables
    committed_seq,  \* ParquetBackend.committed_seq
    health,         \* HealthGate.health
    snapshot,       \* the AggregateSnapshot readers clone
    outcome         \* what the client of each write was told

disk    == <<log, tail, parquet, manifest>>
process == <<pc, cur, at, rollback, mem, committed_seq, health, snapshot>>
vars    == <<disk, process, outcome>>

-----------------------------------------------------------------------------
(* Tables and rows *)

\* The order in which save_all renames the table files into place.
SaveOrder == <<"items", "runs", "item_comments", "relations">>
Table == {"items", "runs", "item_comments", "relations"}

\* How many rows of a table a write accounts for; 2 stands for "two or more".
RowCount == 0..2
Tables == [Table -> [Write -> RowCount]]
NoRows == [t \in Table |-> [w \in Write |-> 0]]

\* The tables a write of each kind changes.  A create carries relationship
\* specs, so it adds typed edges as well as the item and its first run row.
Affects ==
    {<<"create", "items">>, <<"create", "runs">>, <<"create", "relations">>,
     <<"move", "items">>, <<"move", "runs">>,
     <<"comment", "item_comments">>,
     <<"relate", "relations">>}

Touches(w) == {t \in Table : <<KindOf[w], t>> \in Affects}

\* The table whose row replay_into looks at to see whether the write is there.
Primary(w) ==
    IF KindOf[w] = "comment" THEN "item_comments"
    ELSE IF KindOf[w] = "relate" THEN "relations" ELSE "items"

OneMore(n) == IF n = 2 THEN 2 ELSE n + 1

\* The effect of the handler: appended rows add up, the item row is one row
\* whose columns are overwritten.
ApplyWrite(m, w) ==
    [t \in Table |->
        IF t \notin Touches(w) THEN m[t]
        ELSE [m[t] EXCEPT ![w] = IF t = "items" THEN 1 ELSE OneMore(@)]]

\* A bug: replay without the guards on what the tables already hold.
ReplayInto_NoGuard(m, w) ==
    [t \in Table |->
        IF t \notin Touches(w) THEN m[t] ELSE [m[t] EXCEPT ![w] = OneMore(@)]]

\* MutationEvent::replay_into.  A create, a comment and an added relation are
\* skipped when their own row is present; a move is always applied again.
ReplayInto(m, w) ==
    IF KindOf[w] # "move" /\ m[Primary(w)][w] > 0 THEN m ELSE ApplyWrite(m, w)

-----------------------------------------------------------------------------
(* The event log *)

Record == [seq: Nat, write: Write]

\* clean:   the file ends after a whole line
\* unended: the last record lacks its newline; a reader accepts it
\* half:    a prefix of a record follows the last line
\* garbled: some line holds bytes of two records
LineEnd == {"clean", "unended", "half", "garbled"}

\* read_lines / from_str: one line that does not decode refuses the whole file.
Readable == tail \in {"clean", "unended"}

LoggedWrites == {log[i].write : i \in 1..Len(log)}

\* A bug: the seqs of a new process go on from the checkpoint, not from the log.
HighWater_FromManifest == manifest

\* scan_high_water: the largest seq in the log, 0 when it is empty.
HighWater ==
    CHOOSE n \in {0} \cup {log[i].seq : i \in 1..Len(log)} :
        \A i \in 1..Len(log) : log[i].seq <= n

\* Further bytes after the last whole line, and after anything else.
EndLine(t) == IF t = "unended" THEN "clean" ELSE t

-----------------------------------------------------------------------------
(* Process life cycle *)

Phase == {"down", "loading", "idle", "append", "newline", "save", "truncate",
          "publish", "reply", "flush", "dead"}
Running == Phase \ {"down", "dead"}

NoRollback == [len |-> 0, tail |-> "clean"]
NoSnapshot == [seq |-> 0, tables |-> NoRows]

Init ==
    /\ log = <<>> /\ tail = "clean" /\ parquet = NoRows /\ manifest = 0
    /\ pc = "down" /\ cur = NoWrite /\ at = 0 /\ rollback = NoRollback
    /\ mem = NoRows /\ committed_seq = 0 /\ health = "healthy"
    /\ snapshot = NoSnapshot
    /\ outcome = [w \in Write |-> "unsent"]

\* The process ends: everything it held in memory is gone.
Vanish(phase) ==
    /\ pc' = phase
    /\ cur' = NoWrite /\ at' = 0 /\ rollback' = NoRollback
    /\ mem' = NoRows /\ committed_seq' = 0 /\ health' = "healthy"
    /\ snapshot' = NoSnapshot

\* load_state: open the backend and load the four tables.  The replay of the
\* tail follows one event at a time.
Load ==
    /\ pc = "down" /\ Readable
    /\ mem' = parquet
    /\ committed_seq' = HighWater
    /\ pc' = "loading" /\ at' = 1
    /\ UNCHANGED <<disk, cur, rollback, health, snapshot, outcome>>

\* A line that does not decode: load_state reports it and exits.
RefuseToLoad ==
    /\ pc = "down" /\ ~Readable
    /\ Vanish("dead")
    /\ UNCHANGED <<disk, outcome>>

\* ParquetBackend::load replays the events past the manifest's seq.
ReplayEvent ==
    /\ pc = "loading" /\ at <= Len(log)
    /\ mem' = IF log[at].seq > manifest THEN ReplayInto(mem, log[at].write) ELSE mem
    /\ at' = at + 1
    /\ UNCHANGED <<disk, pc, cur, rollback, committed_seq, health, snapshot, outcome>>

\* The tail is replayed, the probe decides the health the server starts with,
\* and the owning task seeds the snapshot cell.
FinishLoad ==
    /\ pc = "loading" /\ at > Len(log)
    /\ health' \in {"healthy", "degraded"}
    /\ snapshot' = [seq |-> committed_seq, tables |-> mem]
    /\ pc' = "idle" /\ at' = 0
    /\ UNCHANGED <<disk, cur, rollback, mem, committed_seq, outcome>>

\* The process dies.  A write it was committing gets no answer.  Only with
\* "torn" may it die between the bytes of one line; a rollback that failed
\* leaves such bytes behind as well.
Crash ==
    /\ pc \in Running
    /\ tail # "clean" => Faults \cap {"torn", "truncate"} # {}
    /\ Vanish("down")
    /\ outcome' = [w \in Write |-> IF w = cur THEN "unknown" ELSE outcome[w]]
    /\ UNCHANGED disk

\* The process dies with part of a record written.
CrashMidRecord ==
    /\ "torn" \in Faults
    /\ pc = "append"
    /\ tail' = IF tail = "clean" THEN "half" ELSE "garbled"
    /\ Vanish("down")
    /\ outcome' = [outcome EXCEPT ![cur] = "unknown"]
    /\ UNCHANGED <<log, parquet, manifest>>

-----------------------------------------------------------------------------
(* KanbanEngine::apply and ParquetBackend::commit *)

\* Admission and the handler.  A degraded gate lets the write through only when
\* its probe is due and succeeds, which also makes it healthy again.
Admit(w) ==
    /\ pc = "idle" /\ outcome[w] = "unsent"
    /\ health' = "healthy"
    /\ mem' = ApplyWrite(mem, w)
    /\ cur' = w
    /\ rollback' = [len |-> Len(log), tail |-> tail]
    /\ pc' = "append"
    /\ outcome' = [outcome EXCEPT ![w] = "pending"]
    /\ UNCHANGED <<disk, at, committed_seq, snapshot>>

\* A bug: the handler runs before the gate is asked.
Refuse_AfterRoute(w) ==
    /\ pc = "idle" /\ outcome[w] = "unsent" /\ health = "degraded"
    /\ outcome' = [outcome EXCEPT ![w] = "refused"]
    /\ mem' = ApplyWrite(mem, w)
    /\ UNCHANGED <<disk, pc, cur, at, rollback, committed_seq, health, snapshot>>

\* STORE_DEGRADED: the probe is not due, or it failed.
Refuse(w) ==
    /\ pc = "idle" /\ outcome[w] = "unsent" /\ health = "degraded"
    /\ outcome' = [outcome EXCEPT ![w] = "refused"]
    /\ UNCHANGED <<disk, process>>

\* The record itself.  After unfinished bytes it is part of a broken line.
WriteRecord ==
    /\ pc = "append"
    /\ IF tail = "clean"
       THEN /\ log' = Append(log, [seq |-> committed_seq + 1, write |-> cur])
            /\ tail' = "unended"
       ELSE /\ tail' = "garbled"
            /\ UNCHANGED log
    /\ pc' = "newline"
    /\ UNCHANGED <<parquet, manifest, cur, at, rollback, mem, committed_seq, health,
                   snapshot, outcome>>

\* The newline and the two fsyncs: the commit barrier.
SyncLog ==
    /\ pc = "newline"
    /\ tail' = EndLine(tail)
    /\ pc' = "save" /\ at' = 1
    /\ UNCHANGED <<log, parquet, manifest, cur, rollback, mem, committed_seq, health,
                   snapshot, outcome>>

\* append_and_fsync reports an error after writing none, some or all of a line.
AppendFails ==
    /\ "append" \in Faults
    /\ \/ /\ pc = "append"
          /\ tail' \in {tail, IF tail = "clean" THEN "half" ELSE "garbled"}
       \/ /\ pc = "newline"
          /\ tail' \in {tail, EndLine(tail)}
    /\ pc' = "truncate"
    /\ UNCHANGED <<log, parquet, manifest, cur, at, rollback, mem, committed_seq, health,
                   snapshot, outcome>>

\* A bug: save_all leaves out the last table.
SaveTable_ForgetsRelations ==
    /\ pc = "save"
    /\ parquet' = [parquet EXCEPT ![SaveOrder[at]] = mem[SaveOrder[at]]]
    /\ at' = at + 1
    /\ pc' = IF at = 3 THEN "publish" ELSE "save"
    /\ UNCHANGED <<log, tail, manifest, cur, rollback, mem, committed_seq, health,
                   snapshot, outcome>>

\* save_all: one table file is written aside and renamed into place.
SaveTable ==
    /\ pc = "save"
    /\ parquet' = [parquet EXCEPT ![SaveOrder[at]] = mem[SaveOrder[at]]]
    /\ at' = at + 1
    /\ pc' = IF at = Len(SaveOrder) THEN "publish" ELSE "save"
    /\ UNCHANGED <<log, tail, manifest, cur, rollback, mem, committed_seq, health,
                   snapshot, outcome>>

\* A table cannot be written; the tables already renamed stay.
SaveFails ==
    /\ "save" \in Faults
    /\ pc = "save"
    /\ pc' = "truncate"
    /\ UNCHANGED <<disk, cur, at, rollback, mem, committed_seq, health, snapshot, outcome>>

\* A bug: the error return without the rollback.
RollBack_NoTruncate ==
    /\ pc = "truncate"
    /\ health' = "degraded"
    /\ outcome' = [outcome EXCEPT ![cur] = "lost"]
    /\ pc' = "idle" /\ cur' = NoWrite /\ at' = 0 /\ rollback' = NoRollback
    /\ UNCHANGED <<disk, mem, committed_seq, snapshot>>

\* truncate_log, the error return and the STORE_NOT_DURABLE answer.  The write
\* stays in memory.  set_len's own error is ignored.
RollBack ==
    /\ pc = "truncate"
    /\ \/ /\ log' = SubSeq(log, 1, rollback.len)
          /\ tail' = rollback.tail
       \/ /\ "truncate" \in Faults
          /\ UNCHANGED <<log, tail>>
    /\ health' = "degraded"
    /\ outcome' = [outcome EXCEPT ![cur] = "lost"]
    /\ pc' = "idle" /\ cur' = NoWrite /\ at' = 0 /\ rollback' = NoRollback
    /\ UNCHANGED <<parquet, manifest, mem, committed_seq, snapshot>>

\* A bug: the manifest names a seq computed from the wrong counter.
Publish_Underflow ==
    /\ pc = "publish"
    /\ committed_seq' = committed_seq + 1
    /\ manifest' = committed_seq - 1
    /\ pc' = "reply"
    /\ UNCHANGED <<log, tail, parquet, cur, at, rollback, mem, health, snapshot, outcome>>

\* The high-water advances, then the manifest is replaced (best effort).
Publish ==
    /\ pc = "publish"
    /\ committed_seq' = committed_seq + 1
    /\ \/ manifest' = committed_seq + 1
       \/ "manifest" \in Faults /\ UNCHANGED manifest
    /\ pc' = "reply"
    /\ UNCHANGED <<log, tail, parquet, cur, at, rollback, mem, health, snapshot, outcome>>

\* A bug: the snapshot is refreshed after the reply, not before it.
Reply_StaleSnapshot ==
    /\ pc = "reply"
    /\ health' = "healthy"
    /\ outcome' = [outcome EXCEPT ![cur] = "acked"]
    /\ pc' = "idle" /\ cur' = NoWrite /\ at' = 0 /\ rollback' = NoRollback
    /\ UNCHANGED <<disk, mem, committed_seq, snapshot>>

\* record_persist_success, the new snapshot, and only then the reply.
Reply ==
    /\ pc = "reply"
    /\ health' = "healthy"
    /\ snapshot' = [seq |-> committed_seq, tables |-> mem]
    /\ outcome' = [outcome EXCEPT ![cur] = "acked"]
    /\ pc' = "idle" /\ cur' = NoWrite /\ at' = 0 /\ rollback' = NoRollback
    /\ UNCHANGED <<disk, mem, committed_seq>>

-----------------------------------------------------------------------------
(* Shutdown: persist_state saves the in-memory tables, not the manifest *)

Shutdown ==
    /\ pc = "idle"
    /\ pc' = "flush" /\ at' = 1
    /\ UNCHANGED <<disk, cur, rollback, mem, committed_seq, health, snapshot, outcome>>

FlushTable ==
    /\ pc = "flush"
    /\ parquet' = [parquet EXCEPT ![SaveOrder[at]] = mem[SaveOrder[at]]]
    /\ IF at = Len(SaveOrder)
       THEN Vanish("down")
       ELSE /\ at' = at + 1
            /\ UNCHANGED <<pc, cur, rollback, mem, committed_seq, health, snapshot>>
    /\ UNCHANGED <<log, tail, manifest, outcome>>

\* save_store stops at the table that fails; save_relations is still tried.
FlushFails ==
    /\ "save" \in Faults
    /\ pc = "flush"
    /\ IF at = Len(SaveOrder)
       THEN Vanish("down")
       ELSE /\ at' = Len(SaveOrder)
            /\ UNCHANGED <<pc, cur, rollback, mem, committed_seq, health, snapshot>>
    /\ UNCHANGED <<disk, outcome>>

-----------------------------------------------------------------------------
Next ==
    \/ Load \/ RefuseToLoad \/ ReplayEvent \/ FinishLoad
    \/ Crash \/ CrashMidRecord
    \/ \E w \in Write : Admit(w) \/ Refuse(w)
    \/ WriteRecord \/ SyncLog \/ AppendFails
    \/ SaveTable \/ SaveFails \/ RollBack
    \/ Publish \/ Reply
    \/ Shutdown \/ FlushTable \/ FlushFails

Spec == Init /\ [][Next]_vars
-----------------------------------------------------------------------------
(* Properties *)

Outcome == {"unsent", "pending", "acked", "lost", "refused", "unknown"}

TypeOK ==
    /\ log \in Seq(Record) /\ tail \in LineEnd
    /\ parquet \in Tables /\ manifest \in Nat
    /\ pc \in Phase /\ cur \in Write \cup {NoWrite} /\ at \in Nat
    /\ rollback \in [len : Nat, tail : LineEnd]
    /\ mem \in Tables /\ committed_seq \in Nat
    /\ health \in {"healthy", "degraded"}
    /\ snapshot \in [seq : Nat, tables : Tables]
    /\ outcome \in [Write -> Outcome]

Holds(m, w) == \A t \in Touches(w) : m[t][w] > 0
Serving == Running \ {"loading"}

\* An acknowledged write is whole, for good: whatever fails or crashes later,
\* each table file holds its rows, and so does a running engine's memory.
AckedWhole ==
    \A w \in Write : outcome[w] = "acked" =>
        /\ Holds(parquet, w)
        /\ pc \in Running => Holds(mem, w)

\* An acknowledgement means the snapshot readers clone already shows the write
\* (actor.rs installs it before the reply), and every later one does.
AckReadable ==
    pc \in Serving =>
        \A w \in Write : outcome[w] = "acked" => Holds(snapshot.tables, w)

\* "Your change was NOT applied" (STORE_DEGRADED): no table, no snapshot and no
\* log record ever shows a write the gate turned away.
RefusedLeavesNoTrace ==
    \A w \in Write : outcome[w] = "refused" =>
        /\ w \notin LoggedWrites
        /\ \A t \in Table : /\ mem[t][w] = 0 /\ parquet[t][w] = 0
                            /\ snapshot.tables[t][w] = 0

\* The log agrees with every answer given: a write reported committed is in it
\* (through all later rollbacks), one reported lost or refused is not.
LogKeepsItsWord ==
    \A w \in Write :
        /\ outcome[w] = "acked" => w \in LoggedWrites
        /\ outcome[w] \in {"lost", "refused", "unsent"} => w \notin LoggedWrites

\* The seqs on disk are 1, 2, 3, ... without gap or repetition, and between
\* commits the counter the next seq comes from is the length of the log.
CounterMatchesLog ==
    /\ \A i \in 1..Len(log) : log[i].seq = i
    /\ pc = "idle" => tail = "clean" /\ committed_seq = Len(log)

\* All the rows a write accounts for; of a create whose client a crash left without
\* an answer only the item's row, by which the replay takes it for complete.
Shown(m, w) ==
    IF KindOf[w] = "create" /\ outcome[w] = "unknown" THEN m["items"][w] > 0
    ELSE Holds(m, w)

\* "it never over-claims": the table files show every event at or below the
\* manifest's seq, so skipping it on load loses nothing.
ManifestCovers ==
    \A i \in 1..Len(log) : log[i].seq <= manifest => Shown(parquet, log[i].write)

\* Whatever was interrupted before, a serving engine shows every event of the
\* log: those of earlier lives by checkpoint or replay, its own from memory.
CommittedServed ==
    pc \in Serving => \A w \in LoggedWrites : Shown(mem, w)

\* The rows a replay may add again: a move's run row, with no guard, and the edges of
\* a create whose item a failing shutdown did not save with them.
AddedAgain == {<<"move", "runs">>, <<"create", "relations">>}

\* Replay over a checkpoint that already holds an event adds no other row of it twice.
ReplayAddsOnce ==
    \A t \in Table, w \in Write : <<KindOf[w], t>> \notin AddedAgain =>
        mem[t][w] <= 1 /\ parquet[t][w] <= 1

\* The log, the answers given and the counter agree.
LogAgrees == LogKeepsItsWord /\ CounterMatchesLog

\* A start from any mixture of tables, manifest and log makes up for what was
\* interrupted: with every row, but for the run row and edges of a create that nobody
\* was told of, and each row once, but for the two kinds above.
ReplayRepairs == ManifestCovers /\ CommittedServed /\ ReplayAddsOnce

\* The history of CommitContract: what the counter covers while a process runs
\* and the whole log once it is gone.
CommittedHistory ==
    LET n == IF pc \in Running THEN committed_seq ELSE Len(log)
    IN  [i \in 1..n |-> log[i].write]

Contract == INSTANCE CommitContract WITH history <- CommittedHistory

\* commit, load, crash and restart together keep the promise of the trait.
KeepsContract == Contract!Spec

-----------------------------------------------------------------------------
(* What comments and tests of the repository say, and the code does not keep: *)
(* no run checks these, README, section 6, tells how to see them fail        *)

\* "A torn checkpoint is recovered by replaying the log tail": once loaded, every
\* event of the log has all the rows its handler wrote.
TornCheckpointRecovered ==
    pc = "idle" => \A w \in LoggedWrites : Holds(mem, w)

\* A server that acknowledged a write can be started again.
AckedStoreLoads ==
    pc = "dead" => \A w \in Write : outcome[w] # "acked"
=============================================================================
