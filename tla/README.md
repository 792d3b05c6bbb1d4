# A TLA+ model of arrow-kanban

arrow-kanban is a kanban engine whose state lives in Arrow tables. One server
process owns a data directory, takes commands over NATS, logs every mutation,
checkpoints its tables as Parquet files and relays its log to a JetStream
stream; other processes read the same directory as replicas, and a local
command line, a backup and a restore change it without asking the server. The
modules here model the parts in which order, failure and concurrency decide
whether the board is right: the commit boundary, the outbox, the writer lease
and the read replica; what the item and relation commands do to the tables and
what their replay makes of it; an extension's own checkpoint; the data directory
among programs that share it; and the schedule computed from the dependency
graph. `PROJECT.json` maps every definition to its source lines and lists the
runs, the mutants, the hazards and the theorems.

Source paths are relative to the repository; `server/src/...` is the server
crate, `src/...` the board library.

## 1. Inventory

| Component | State | Operations | Interacts with |
|---|---|---|---|
| Commit boundary `server/src/storage.rs`, `src/persist.rs`, `src/parquet_store.rs` | `_events.log` (JSON lines), four Parquet tables, `_checkpoint.manifest`, the counter `committed_seq` | `commit` (append, fsync, save four tables, roll back, manifest), `load` (tables, log tail, replay), `events_since` | called by the engine task; read by outbox and replicas |
| Write admission `server/src/health.rs`, `engine.rs` | healthy or degraded, the time of the last probe | refuse, probe, recover, record failure or success | in front of every mutation |
| Engine task, snapshots `actor.rs`, `snapshot.rs` | one engine, a channel of commands, the snapshot readers clone | run a command, install a snapshot, reply, save at shutdown | request loop, readers |
| Mutation events, replay `events.rs` | none (data in the log) | `replay_into` for each of the event kinds | `load`, replica |
| Request loop `main.rs` | the state it loaded, its NATS subscriptions | start, request, ctrl-c | engine task, outbox, lease |
| Outbox `main.rs` | `_published.seq`; the stream KANBAN_EVENTS outside | `drain_outbox` | reads the log, publishes to JetStream |
| Writer lease `lease.rs` | `_writer.owner`, the epoch a process holds | acquire, `is_current` | start of the server, every mutation |
| Read replica `replica.rs` | its own tables, position, epoch, snapshot, state | open, `poll`, `read`, re-bootstrap, seed an extension | reads the writer's files |
| Item lifecycle `src/crud.rs`, `server/src/handlers/core.rs` | items, runs, comments | create, move, claim, bounce, requeue, ratify, update, rank, delete | produces mutation events |
| Status state machine `src/state_machine.rs`, `state_model.rs` | none | is a transition allowed, and under which conditions | create, move, claim |
| Relations `src/relations.rs`, `handlers/relations.rs` | typed edges, and flat list fields of the items | add, remove, relate, unrelate | create, update, replay |
| Ids `src/id_alloc.rs` | none: scans the table | next id of a type, deleted rows included | create |
| Critical path `src/critical_path.rs` | none | longest chain and cycles of the dependency graph | blocked, roadmap |
| Persistence engine `src/persistence.rs` | dirty tables, a write-ahead log | flush, recover, quarantine | command line |
| Local command line `src/main.rs` | none: loads, changes and saves the same files | create, move, update, rank, hdd, migrate, run | beside the server, without a lock |
| Backup `src/backup.rs` | copies of the store directory | create, list, restore, prune | reads and replaces the store's files |
| Extension `server/src/extension.rs` | tables and a checkpoint of its own | apply, replay, checkpoint, restore | engine, replica |
| Experiment runs, comments, HDD, research handlers | rows of the tables above | compositions of the operations above | item lifecycle |
| Queries, statistics, display, export, CLI, MCP, client, migration, validation, hooks, embeddings | none that other parts read | pure functions, formatting, argument parsing | |

What is hard in it:

- **Partial failure and crashes.** A commit is an append, an fsync, four
  renames and a manifest. Any of them may fail, and the process may die between
  any two; what is left has to be put right by `load`. The failed write itself
  stays in memory.
- **Order.** Snapshot before reply; watermark after acknowledgement; no event
  published past one that failed; no tail applied over a hole.
- **Interleaving.** Two servers over one directory while one takes over from
  the other; a replica that reads four kinds of file while a commit changes
  them.
- **Delivery.** A lost acknowledgement, a watermark that was not written, a
  stream that forgets message ids.
- **Time.** A replica's bound passes at any moment of a poll.
- **Liveness.** The drain runs only at start and after a request; a replica
  catches up only if gaps, failed re-bootstraps and refusals do not feed each
  other.

What makes each component correct: an acknowledged write is whole and visible,
now and after every later failure; a refused one leaves nothing behind; the log
agrees with every answer given, its positions are 1, 2, 3, ...; consumers of the
stream see that log in order; an epoch names one writer, and an overtaken one
commits at most the command it was in; a replica serves a prefix of the log and
does not pass for current when it is not. An item has one claimant, a bounced
item is repaired before it is claimed again, an open item has no resolution, an
id is never used twice; the typed edge and the flat entry of a relation agree;
replay gives the tables the handlers gave; an acknowledged proposal of an
extension keeps its id; what a command reported done stays in the files when
nothing ran beside it; and what agents are told to do next follows from the
graph.

## 2. Modules

### DurableStore, and what it promises: CommitContract

One server over one directory, at the grain of one I/O call. A write is one
mutating command; its kind decides which of the four tables it touches, and a
table is the number of rows each write accounts for (0, 1, "two or more").

| Model | Code |
|---|---|
| `log`, `tail` | `_events.log`: its whole records, and what follows the last line |
| `parquet`, `manifest` | the table files, `_checkpoint.manifest` |
| `mem`, `committed_seq`, `health`, `snapshot` | engine tables, backend counter, health gate, published snapshot |
| `Load`, `ReplayEvent`, `FinishLoad`, `RefuseToLoad` | `ParquetBackend::load`, `load_state` |
| `Admit`, `Refuse` | `KanbanEngine::apply` up to the commit, `HealthGate::admit_mutation` |
| `WriteRecord`, `SyncLog`, `AppendFails` | `append_and_fsync` |
| `SaveTable`, `SaveFails`, `RollBack` | `save_all`, table after table; `truncate_log` |
| `Publish`, `Reply` | counter and manifest; snapshot, then the answer |
| `Shutdown`, `FlushTable`, `FlushFails` | `persist_state` at ctrl-c |
| `Crash`, `CrashMidRecord` | the process dies between two calls, or inside an append |

`Refuse` and recovery: the probe of a degraded gate may be due and may succeed
at any command; its clock and size are left out. `CommitContract` is the comment
of the trait `StorageBackend` as a specification: one write at a time, a history
that only grows, an acknowledged write in it, one reported lost not in it.

### Outbox, and what it promises: EventFeed

`drain_outbox`, the watermark and the request loop. The loop is one task, so
commits are one step here. A record that is published is stored by the stream
unless the stream still knows its id (`stable_event_id` is the seq); the stream
may forget its ids (`Expire`), which the repository does not configure.
`GiveUp` is every way a drain ends early, `MarkFails` the watermark write whose
error is ignored, `Stop` a crash at any step; a `Start` that cannot read the
watermark takes it for 0 and drains the whole log. Extension events go to a subject
no stream takes: their publish is never acknowledged, and what is committed
after one waits. `EventFeed` says what consumers get: the commit log, in order,
none skipped and none invented; a second copy is not an event.

### WriterFence

Several processes over one directory, interleaved between two file operations:
`load_state` reads tables, then log, then the owner file, then writes it;
`KanbanEngine::apply` asks `is_current` before the handler and never again;
`commit` measures, appends, saves or rolls back, publishes; ctrl-c saves what is
in memory. The rollback cuts the file to a measured length, so it may cut
another process's record, or fall inside one (`decodes`). An acquisition that
the owner file did not take (`durable` is FALSE) goes on under the epoch of the
owner before; one that the file took may have written over an epoch it never read,
as nothing locks the file and an unreadable one passes for none: `unseen`, a history
variable, counts these starts, and OneHolderPerEpoch and StaleAppendsOnce say what
one of them may cost. The constant `Allowed` names what may happen beside one server
at a time that crashes, so that each run states its assumption.

### Replica

The catch-up step as the code has it: probe, fetch, gap guard, epoch guard,
apply, publish, and the re-bootstrap that reads tables, manifest, high-water and
tail one after the other while the writer commits, fails, rolls back or dies.

| Model | Code |
|---|---|
| `ProbeLevel`, `ProbeRewound`, `ProbeBehind` | steps 1 to 3 of `poll` |
| `FetchGap`, `FetchSplit`, `FetchApplies`, `FetchReplayFails` | `detect_gap`, `apply_tail` |
| `Open`, `BootTables`, `BootManifest`, `BootScan`, `BootTail`, `Seed` | `bootstrap_state` over `LocalReplicaSource::bootstrap`, `seed_extension` |
| `Unreachable`, `BootFails`, `SeedFails`, `BootSchema` | `on_unreachable`, the error arms of `resync` |
| `Confirm`, `EnterStale`, `publish`, `Served` | `mark_confirmed`, `enter_stale`, `publish`, `read` |
| `Tick`, `expired` | the clock, as one bit: has the bound passed since the last confirmation |

A position is the place of a record in the log; seqs used twice (see 6) are left
to DurableStore. `Faults` is what the source may do: lose events of a tail,
regress an epoch, fall silent, be of another schema, hold an event that cannot
be replayed. `dirty` and `base` are history variables that only the properties
read. `dirty` marks a replica built from files that changed during
its bootstrap, or holding a record that was taken back: nothing in the code
notices either (see 6), and SnapshotIsPrefix claims nothing for it.

### Board, over Lifecycle, and what it promises: ExclusiveClaim

What the item commands do to the tables: every guard and every write of the
handlers, the event each commits, and what `replay_into` makes of it. A handler
is a pair of operators, when it refuses and the tables it leaves, because every
refusal comes before the first write.

| Model | Code |
|---|---|
| `tables` | items, runs, item_comments; of a run only what `run_reasons_landing` tells apart |
| `MoveRefused`, `Moved` | `handle_move_typed`, `check_exclusive_claim`, `update_status` |
| `ClaimRefused`, `HeldByAnother`, `Unrepaired` | `handle_claim_typed`, its compare-and-set and its bounce gate |
| `Bounced`, `Requeued`, `Ratified`, `Updated` ... | the handlers of the same name, `ratify_phase`, `requeue_item` |
| `EventOf`, `Replay`, `ReplayRefused` | `mutation_event`, `replay_into` |
| `Torn` | the checkpoints a crash in `save_store` can leave |
| `Lifecycle` | `ontology/kanban.ttl`'s transitions, `src/state_model.rs`, `src/state_machine.rs` |

`claimants` and `refusedBody` are history: who was told "it is yours", and the
body the last bounce refused. Clients' requests are a constant; `RequestAssumption`
says what the protocol's types let a request carry. Titles, projects
and embeddings are left out.

`ExclusiveClaim` is the promise in the comments of `check_exclusive_claim` and
`handle_claim_typed`, without tables or requests: an item under way that one agent
was told is its own goes to another only after the first was relieved of it. Its
`holder` is the assignee column of an item somebody was told, its `underway` a live
row in_progress. A claim is stricter than the contract (any other holder refuses it,
whatever the status), a move is not.

### Relations

The two halves of an edge, under every verb that writes one: create with an
edge, hdd create, update with lists, relate and unrelate, relation.add and
relation.remove, delete, each with its replay; and the vocabulary that says
which edges are legal and which have a flat half, which an operator may reload.
A spelling is a name or an alias; only relation.add stores the alias. Four history
variables say what the halves owe each other: `reported` holds the edges a client
was told of, by relation.add too, until a removal names them; `projected` those
among them that a create, an hdd create or an update made, which also write the flat
entry; `listed` the flat entries a list put there and `cut` those of a create
cut in two (see 6), each until it is taken out. What relation.add does not write is
EveryEdgeProjected (see 6). `RequestAssumption` says what
the request types can hold; among it that no create makes a "proposal", which is a
class of the ontology and not an `ItemType`.

### CriticalPath, Planning

`compute_critical_path` step by step, as its roots leave a hash map in any order:
Kahn's sort, the depths, the verdict on cycles, the walk back from a deepest
item, the downstream counts. The properties compare them with definitions over
all chains of the graph. `Planning` adds the views built on a schedule: the
roadmap with its voyages and the campaign's figures, the worklist with
capability routing and a shared depth, and the `blocked` and `ready` answers of
the server and of the command line, each with the rule it really uses. A dependency
is the id of an item or of none: the empty strings that both views skip, and chains
past the command line's depth of 100, do not occur in it. The
reference definitions are RECURSIVE, so no theorem is stated here.

### LocalStore

Three files that several programs load, change and save one by one: a command
line, a server, a backup that copies them one by one, a restore that copies them
back in place, and the quarantine of `.tmp` files at a server's start. A file
holds facts, each written by one command about one item or run.

| Model | Code |
|---|---|
| `CreateRelated`, `LoadEdges`, `CreateHdd`, `EditItem`, `Migrate` | `src/main.rs`: which files a command loads and in which order it saves them |
| `RunStep` | `start_run`, `complete_run`, the run file of either program |
| `ServerCommit`, `StartServer`, `StopServer` | the server as a writer of the same files |
| `Open`, `Rename`, `Killed` | `write_parquet_atomic` and a process killed inside it |
| `StartBackup`, `Copy`, `EndBackup`, `BackupDies`, `Pruned` | `create_snapshot`, `prune_old_snapshots` |
| `Restore`, `Cut`, `Fill` | `restore_snapshot`, forced: a copy in place |
| `SetAside`, `Suspects` | `recover_wal` |

`kept` is history: the facts of commands that began and ended with nobody
beside them. Nothing protects the others (see 6). `interrupted` is history too: what
a kill cut short while a process alone was filling the `.tmp` of a file. A migration
may be forced, and may then empty a board. Copying a file back in place makes it
newer than its `.tmp` from the first byte (`InPlace`): an interrupted save is then no
longer recognised, and `interrupted` forgets it. A snapshot must bring back what
was kept when its backup began and at every file it copied (`held`): a restore or
a migration that runs between two copies takes the rest away. The replay of the log after a
restore is left to DurableStore.

### Extension

`KanbanEngine::apply` and `restore_extension` around an `EngineExtension`: the
verb puts a row into memory and mints its id, the commit may fail and be taken
off the log again, the checkpoint is a table file and a sidecar that names the
seq it reflects, either of which may fail to be written; a start restores both
and replays the tail, then seeds the snapshot. The extension is the one of
`server/tests/extension_persistence_acceptance.rs`: the server program installs
none itself.

`tail` holds the positions of the log that a start has still to replay.

### The proofs

`DurableStoreProofs`, `WriterFenceProofs`, `OutboxProofs`, `ReplicaProofs`,
`BoardProofs`, `RelationsProofs`, `LocalStoreProofs` and `ExtensionProofs` extend
the module they are named for; section 5 says what they prove. Each can be read by
itself, with the lemmas it needs of naturals and sequences in front: a bounded set
of naturals has a largest element and `Max` is it, what an append and a cut do to
the elements of a sequence.

## 3. Runs

| Run | Shows |
|---|---|
| store_faults | under failing append, save, manifest and truncate calls and crashes anywhere, a write that was acknowledged is whole in files and memory and visible to readers, and one refused leaves no trace |
| store_reliable | while the log can be put back (no torn line, no failing truncate) log, counter, manifest and memory agree, replay makes up for what was interrupted (but for the run row and edges of a create that nobody was told of) and doubles no row (but for a move's run rows and a create's edges), and the store implements CommitContract |
| outbox | the stream is the commit log in order under every interruption, copies are bounded by what the stream forgets, no event of a failed command gets out, and events ahead of an extension event always get there |
| one_server | servers that run one after another hand over a complete history without gaps, also when the owner file cannot be written or read; its epochs fall back at most once for each start that could not read the file |
| takeover | with servers starting at any moment, an owner file that may be unreadable or unwritable included, an epoch has one durable holder and an overtaken one appends at most once more, but for one more of each for every start that wrote over an epoch it had not read; a fenced command leaves nothing |
| replica_safe | a replica serves a prefix of the log, never goes back in time, and applies no split tail |
| replica_live | a replica with an extension serves every committed position in the end, unless a replay or a seeding failed half-way (LiveIsPublished, section 6) |
| board | two agents never both hold an item, a bounced one is not claimed unrepaired, no reopening leaves a resolution behind, ids are never shared, the commands implement ExclusiveClaim, and the replay of any next command over any torn checkpoint gives what its handler gave |
| relations | no flat entry outlives its edge, an edge a client was told of keeps its row, and its flat entry if a verb that writes both told it, through edits, removals, reloads of the vocabulary and crashes; replay gives what the handler gave |
| schedule | over every small graph and every order of its roots: a topological order with exact depths, verdicts, path and counts; roadmap, campaign, worklists, blocked and ready agree with the graph and with each other |
| local_store | what a command reported done, alone, stays or comes back with the snapshot; numbers are unique; `latest` is never pruned; what a kill cut short of a save lies where the next start finds it, or was set aside and reported, until the file is saved again or restored |
| extension | an acknowledged proposal is served under its id by every later server, no id names two rows, neither sidecar nor snapshot claims more than it holds, with every commit and checkpoint failure |

Related properties are conjoined under one name (LogAgrees, ReplayRepairs,
StreamHonest, RowsSound, HalvesAgree, ScheduleExact, AnswersAgree, ...); the type
invariant of a module is the first conjunct of one of them, or a property of its
own.

### Bounds

- Store: three or four writes, one of each kind, each sent once and each on an
  item of its own. Two commits in a row already meet every state the first can
  leave behind; the others let a failure fall between two successes. There is no
  bound on crashes and restarts. Rows are counted to "two or more", which is as
  far as a doubled row has to be told from a single one.
- Outbox: three events, one of them an extension's, in any order; the stream forgets
  twice, one start cannot read the watermark. A third event puts one behind a failure in
  the middle of a tail.
- WriterFence: `MaxEpoch` 3 allows three acquisitions, `MaxBlind` one start that
  cannot read the owner file. Two servers and two writes where servers overlap:
  a process that is gone may start again, so there is always one to take over, and
  both are interchangeable, a symmetry the run uses. `MaxUnseen` 2 lets a
  blind start and one that is too late, or two that are too late, follow one another. Two
  servers and three writes where they do not overlap; there only a blind start
  writes over an epoch it has not read.
- Replica: three commits and two epochs for safety, one position of lag allowed.
  Three positions are the least with a hole in the middle of a tail. `MaxLost`
  counts the commits that are rolled back. The core commits are interchangeable,
  and replica_safe uses that symmetry; it checks no liveness. replica_live has
  one core commit, one of an extension, one epoch and no rollback.
- Board: two agents, two items, two bodies, two counted attempts with a cap of
  two. One item is what agents compete for; the second is there for a delete
  between two creates, for ratify's scan of all rows and for replays that meet a
  row that is gone. Histories are of any length. The agents are interchangeable,
  and the run uses that symmetry; it checks no liveness.
- Relations: five ids of the types the predicates tell apart, one alias, three
  vocabularies, one effective reload per process (the code allows more, and
  after the second one the same reloads only come again), two rows of one edge.
- Schedule: every graph of three items with none, one or two dependencies each,
  duplicates, self-loops and missing ones included; three items in every
  combination of statuses, with at most one dependency each; the acyclic graphs of
  four items, their ids along or against the order, where diamonds are;
  a voyage, a child and an expedition with every combination of edges; two items
  with assignees, ranks and required capabilities, asked with depth 0, 1, 2, 4.
- LocalStore: one command line beside a server and a backup, three commands,
  shutdowns and snapshots begun in all, one snapshot kept. With `RETENTION` 0,
  which every caller of the code passes, nothing is pruned: 1 makes the pruning
  happen.
- Extension: three interchangeable proposals, core commands while the log is
  shorter than 3; any number of crashes, failed commits and failed checkpoints.

### Fairness

- Outbox: the server is started again after it stopped and its loop goes on; it
  cannot read the watermark only finitely often
  (weak fairness of `Start` and `Request`; the drain runs only after a request,
  so without requests nothing is promised). Log, broker and disk answer at some
  time when they are asked again and again (strong fairness of `ReadTail`,
  `Publish`, `Acked`, `MarkWritten`), as crashes may interrupt each attempt.
- Replica: the embedding process calls `poll` on a timer, as the comment of
  `poll` asks, and a source that is asked again and again answers at some time
  (strong fairness of the successful steps; weak fairness of `Open`). Nothing is
  assumed of the writer.

### Where the system may stop

Deadlock is checked except in the runs where the code really stops: a store
whose log cannot be decoded makes every start exit (store_faults), in WriterFence
no server starts once the log does not decode or the bound on epochs is reached,
and in LocalStore nothing is left to do once the bound on commands is reached, or
a garbled file makes every program refuse to load. A finished schedule stutters
on purpose (`Finished`): the code returns.

## 4. Mutants

Every property of a passing run has a mutant next to the definition it changes
(`X_Something`, marked "A bug"): a replay without its guard, a counter resumed
from the manifest, a watermark that passes over a failed publish, an epoch that
is not bumped, a gap check that looks at the first event only, an id taken from
the live rows, a requeue replayed as a verb, an edge that is not projected, a
sidecar written although the table was not. Each makes its property fail in the
run that checks it.

## 5. Proofs

Every theorem is about the specification a run checks, for every value of its
constants: any number of writes, servers, events, items or requests, with no bound
on the length of a log or a history. Each rests on the ASSUME of its module, which
types the constants and which TLC evaluates in the runs. Where a theorem assumes
more, the assumption has a name, stands in the theorem, and is what the
configuration of the run sets.

| Module | Theorem | Property | Assumes |
|---|---|---|---|
| DurableStoreProofs | TypeCorrect, AckedIsWhole, AckedIsReadable, RefusedIsAbsent | TypeOK, AckedWhole, AckReadable, RefusedLeavesNoTrace | any faults |
| | NothingTwice | ReplayAddsOnce, a conjunct of ReplayRepairs: all tables, two exceptions (`AddedAgain`) | any faults |
| | LogIsHonest, StartRepairs, StoreImplementsContract | LogAgrees, ReplayRepairs, KeepsContract | LinesStayWhole |
| OutboxProofs | StreamTellsTheLog, RepeatsAreBounded, OutboxImplementsFeed | StreamHonest, CopiesBounded, FeedFollowsLog | |
| WriterFenceProofs | TypeCorrect, FencedIsAbsent | TypeOK, FencedLeavesNoTrace | any interleaving |
| | OvertakenAppendsOnce, EpochNamesOneServer | StaleAppendsOnce, OneHolderPerEpoch | any interleaving |
| | CommittedSurvives, LogIsSound, FallsAreBlind | AckedSurvives, LogSound, EpochsFallBlindOnly | OneServer |
| ReplicaProofs | TypeCorrect, ServedIsPrefix, GenerationsStayApart, SnapshotAdvances | TypeOK, SnapshotIsPrefix, TailNeverSplit, SnapshotNeverBack | any faults |
| BoardProofs | RowsAreSound, OneAgentIsTold, OpenHasNoResolution, ReplayRebuilds | RowsSound, OneClaimant, ClosureOnlyWhenClosed, ReplayConverges | any requests |
| | BouncedIsRepaired | RepairedBeforeClaim | NoForgedStamp |
| | BoardImplementsClaims | KeepsClaims | any requests |
| RelationsProofs | HalvesStayTogether, ReplayRebuilds | HalvesAgree, ReplayConverges | any requests, vocabularies |
| LocalStoreProofs | ReportedIsKept, LocalNumbersUnique, LocalFilesSound, LocalInterruptionReported | AloneKept, NumbersUnique, CopiesSound, InterruptionReported | any command lines and retention |
| ExtensionProofs | OneRowForAnId, AnswersStand, ClaimsAreCovered, LogInOrder | IdsNameOneRow, AckedKeepsItsId, SeqsCovered, SeqsOrdered | |

### DurableStore

`LinesStayWhole` says that no crash falls inside a line ("torn") and no rollback
fails ("truncate"), as StoreReliable.cfg does. Without it the theorems are false:
a half line stops every start, and a record that was not taken back is counted
again (section 6).

- Types need `LogShape` (the rollback point is a length the log has, seqs never
  decrease, none is above the counter's next) and `OneCommit` (exactly the phases of
  a commit have a write under way). Without the first, the truncate after a failed
  save could leave the log's type, and the scan of a load need not find a largest
  seq.
- AckedWhole is not inductive: a save writes memory over the files, and a load
  reads the files into memory. `WholeInv` follows a write through its commit: which
  tables a save in progress has written already (`SaveProgress`), that memory holds
  what the files hold, and that at `publish` and `reply` every file holds the write.
- `TraceInv` says of every write not yet sent what RefusedLeavesNoTrace says of a
  refused one: only the write under way, or one answered otherwise, is in memory, a
  file, the snapshot or the log.
- LogAgrees needs `LogInOrder` (the seq of a record is its position) and
  `CommitPoint`, which says in each phase whether the record of the write under way
  is the last one, and that the rollback point is just before it.
- ReplayRepairs needs to know why the manifest never runs ahead of the files
  (`CoverInv`): a save copies a memory that shows every event, and memory shows every
  event because a start loads the files and replays what is past the manifest. Of a
  create this goes for its item row only (`Rows`), as its replay stops there. Its
  other rows come from elsewhere: whoever was told of it found it whole in all files
  (`WholeInv`), and one whose answer is still to come is the commit under way
  (`LoggedIsShown`).
- ReplayAddsOnce needs, for the run row of a create, that no run row is anywhere
  before its item (`ItemsLead`), since the replay of a create looks at the item
  only. The two exceptions are real: a move's run row has no guard, and a shutdown
  whose save fails at items but writes relations leaves edges that the replay adds
  again with the item.
- The refinement: the history of the contract is the first `committed_seq` records
  of the log while a process runs, and all of them while none does. So the
  step that commits is `Publish`, or the crash that leaves a whole record behind; in
  that case the same step leaves the client without an answer, which the contract
  allows. `ContractStep` maps each action to a step of the
  contract or a stutter.

### Outbox

OutboxInv is about positions. The drain's work is the end of the log, from the
record after the last one it published (`DrainInv`); whatever the watermark, the
drain or a pending acknowledgement has passed is in the stream (`StreamInv`); the
stream has a copy of a record per expiry, and one more only while it knows the id
(`CopiesInv`). For the refinement of EventFeed, `FeedInv` says that the stream holds
a prefix of the log and that the events stand there for the first time in the
order of the log: a retry starts at the watermark, below what is there already, so
all it adds are copies, until it meets the record after the last one.

### WriterFence

- `TraceInv` again: a fenced command never got as far as the log.
- `HoldersPaid` counts, for every epoch, the processes whose acquisition the owner
  file took at it: one and at most `unseen` more, and at most `unseen` for an
  epoch above the one in the file, since a start mints the epoch after the one it
  read. A start that writes over the epoch it read mints one nobody holds unpaid;
  any other adds one to `unseen`, which pays for the holder it adds. `AppendsPaid`
  does the same with the records an overtaken process appends: it is past
  `is_current` once, and again only when the file fell back to its epoch. A server
  whose acquisition was not written shares the epoch of the one before, as the code
  means it to (lease.rs:220), and is not counted among the holders.
- `OneServer`: one process after the other, with crashes, failed saves, stops at
  ctrl-c and any faults of the lease (OneServer.cfg). `LogOfOne` ties the counter, the
  log and the measured length together, so that the rollback takes back the
  process's own record and nothing else; `CommittedKept` that the memory that the next
  save writes holds what was committed. `BlindBudget` charges each fall of the epochs
  in the log to a start that could not read the owner file.

### Replica

`FilesInv` is about the writer's files (a write is in the log or lost, the tables have
no others, the manifest covers no more than they hold), `BootInv` about what a
bootstrap has read when no commit disturbed it. From both follows `StoreInv`: the rows
of the replica are those of the first `seq` events, and no two generations are mixed
since its base. The theorems on rows and generations exempt a replica marked dirty,
as the properties do: files changed under its bootstrap, or it read a record that was
taken back (section 6). SnapshotNeverBack is an action property: `BootInv` gives that
a re-bootstrap finds a high-water that is not below the replica's position.

### Board

`BoardInv`: the id of a row is its position and rows are typed; whoever was told an
item is the agent that its row, which is live, names; a row with a resolution is
terminal. Each handler has a lemma that says which rows, landings and comments it
writes (`MovedShape`, `BouncedShape`, ...), and both the invariant and the replay are
proved from these. `ReplayRebuilds` goes over the event kinds and, for each, over the
checkpoints that its save can leave; a create needs `FreshRuns` (an id not yet used has
no landing), since its replay skips an item that is there, and with it the run.
`NoForgedStamp`: no client gives as the reason of a move a text of the form a bounce
stamps, with an item's own body hash. Nothing in the code forbids it, and such a
move passes for the last bounce; the requests of the run give no such reason.

`BoardImplementsClaims`: nobody but one agent is told at a time, before and after a
step, so the holder can be read off the row, and a lemma per kind of step
(`ToldStep`, `RelievedStep`, `UntoldStep`) needs only the row that was written. A
claim or an unforced move to in_progress is `Take`: what lets it pass (the item free,
the agent's own, or not in progress) is what lets the abstract one pass. A forced
move, a bounce, a requeue, an update of the assignee and a delete are `Relieve`;
everything else is `Progress`.

### Relations

`RelInv`: the vocabulary in use has the compiled predicates; no flat entry without its
edge but those a list or a cut create put there and that are still there; every
reported edge has its row; every projected one has both halves, its canonical name,
and a subject that is, or was, a row. The subject matters: a create for an id that
has projected edges and no row would give it an empty list. An entry that was taken
out excuses nothing any more (`FewerExcuses`).
The argument has one idea: an update, a removal, and the replay of either have one
shape (`Outline`: what the flat list becomes, which rows are added and taken; `Exact`: no
others), whatever spelling and whatever part of the save survived, and an edit made
again over any cut of itself is that edit (`EditAgain`, `ExactAgain`). ReplayConverges
is claimed for the requests whose event is complete (`Complete`; the others are in
section 6).

### LocalStore

`LocalInv` says where a later step may take a file from, and that what is kept is
in each of these places:

- AloneKept alone breaks at the next `Rename`, which puts a file there that was
  loaded long ago. `Keeping` says of every process that saves, of every `.tmp` that
  a dead process left to one that will rename it, and of a running server that
  they hold what is kept of the files they are to replace. This is why nothing is
  kept of a command that did not run alone: one that loaded before it would save
  over it. A restore takes the history back to nothing when it begins, since it may
  die at any file.
- `Turns` says who may be busy beside whom: a process that began alone and still
  is has nobody beside it, so no other `.tmp` and no other save can hold less than
  it makes, and while a restore copies nothing is kept.
- InterruptionReported needs that nothing is writing a file whose save was cut short
  (`InterruptInv`): then only a start moves its `.tmp`, and reports it because it is
  newer; a save that opens it anew or a restore that writes the live file ends the
  claim. Facts of the killed process are its own, so this rests on `LocalInv`.
- `Making` follows what such a process makes into the files it has saved and what
  it still is to save; `open` after `edges` matters, as the relations are read
  between the two.
- A restore alone brings a snapshot's `held` back, all files of it: `Copying` says
  that a snapshot, finished or not, holds it. An unfinished one must bring back
  nothing, so a restore of it, whose other files stay as they are, breaks nothing.
- `Numbers`: a kept fact that gave out a number is the only one in its file with that
  number, and a kept edge's item is kept too (`Edged`), since an edge has its item's
  number, which is taken above those of the items only. NextId is above every number
  a command loaded (`NextIdAbove`), and one that is alone loads all that is kept.
- The snapshot just finished has the largest name, so pruning with any retention but
  0 keeps it, and 0 prunes nothing (`PrunedKeepsNewest`).

The proof attempt found a flaw of the model: `held` was what is kept when a backup
begins and when it ends, which two restores between its copies can make more than the
snapshot has. The bound of the run was too small for them.

### Extension

`NumbersInv` (seqs never decrease, though a truncate that fails lets one be used twice;
the sidecar is not past the counter), `CommandInv` (the command being served has its row in memory
and no answer), `RowsInv` (an id stands for one row in memory, table file and log
together, and the counter of ids is past them) and `AckedInv` (an answered row is in
the log for good). IdsNameOneRow alone is not inductive: a restart builds memory from
the table file and the log, so these have to agree about an id before it.

### Only model-checked

- EveryCommitPublished and CatchesUp: liveness. The prover reasons neither about
  ENABLED nor about fairness here.
- ScheduleExact, RoadmapHonest and AnswersAgree: the chains of a graph are defined by
  recursion, and what a recursive definition computes for every graph would need
  induction over data.

## 6. Where code and comments disagree

No run checks these, as the code does not keep them; seven are stated in the
modules, named in brackets with the configuration to add each to, and TLC then
finds the counterexample within seconds (PastBoundRefuses is an action property, the
others are invariants; ReplicaLive.cfg with `SPECIFICATION Spec`):

- **A torn checkpoint is not fully repaired** [TornCheckpointRecovered,
  StoreReliable.cfg]. `replay_into` skips a create when its item row is there, so a
  crash between the renames of `items.parquet` and the later tables loses its run row
  and typed edges, although storage.rs says the replayed tail repairs a torn checkpoint.
- **A half line stops every start** [AckedStoreLoads, StoreFaults.cfg]. A crash inside
  an append leaves a half line, and every later start exits on it; the guard against
  half lines covers reported errors only.
- **A take-over erases** [AckedSurvives, Takeover.cfg]. The state is loaded before the
  lease is acquired; what the old writer commits in between is not in the new one's
  memory, and the new one's first save erases it.
- **A bootstrap is not complete** [BootstrapIsComplete, ReplicaSafe.cfg].
  `LocalReplicaSource::bootstrap` reads tables of before a commit and the manifest of
  after it; the event is in neither the tables nor the replayed tail, and the replica is
  Live at a position that covers it.
- **Live is not published** [LiveIsPublished, ReplicaLive.cfg]. `bootstrap_state` moves
  `seq` before `seed_extension` may fail and publishes after it; the next poll is level
  with the source and marks the replica Live with the old snapshot. A replay error in
  the middle of `apply_tail` does the same.
- **Past the bound and still Live** [PastBoundRefuses, ReplicaLive.cfg]. A poll whose
  replay fails returns with an error before it looks at the bound, and the replica stays
  Live however long ago it was confirmed, against "it refuses reads once it cannot
  confirm currency within a declared bound" (replica.rs:29).
- **An edge without its projection** [EveryEdgeProjected, Relations.cfg]. relation.add
  reports an edge of which it writes the typed half only, against "written in the same
  operation -- never independently" (relation_vocab.rs:22) and "the flat column the ADD
  path writes in the same operation" (handlers/relations.rs:68, whose `relation.remove`
  takes both); a list of an update that leaves an edge's entry out leaves the edge.

Met while modelling the store, the outbox, the lease and the replica:

- A write reported lost because `save_all` failed half-way stays in the renamed
  files and in memory, and the next save writes the rest of it
  (write_durability_acceptance.rs: "no unacked write outlives the process").
- A failed truncate leaves a record whose seq the next commit uses again. The
  outbox then publishes only one of the two, against "never dropped" in the
  comment of `drain_outbox`.
- A replayed move appends a second run row. If the save at shutdown fails at items
  and still writes relations, as it goes on with the next table, the replay of a create
  adds the edges again with the item (events.rs:817). Both against "a recovered write
  rather than a lost or doubled one" (storage.rs).
- A fenced server that is stopped with ctrl-c saves its stale tables over those
  of the new writer (`Shutdown` asks for no lease, as `persist_state` does not).
- An owner file that cannot be read or decoded passes for no owner, so the next
  epoch is 1, below those in the log: "strictly higher epoch than any prior
  owner" (`acquire`) fails, and a replica takes the log for a split one.
- Two servers started at the same time mint the same epoch, and so may one that
  could not read the owner file: nothing locks it. `unseen` counts these starts.
- `read` of a Live replica does not look at the clock: the bound takes effect
  only at a poll. A fetch that fails asks for the time only, not for the lag; and
  the error arm of a re-bootstrap whose seeding failed measures the lag with the seq
  that bootstrap already moved.
- A replica that was refused (a rewind, a split) and then meets a gap it cannot
  heal is Resyncing again, and serves its old snapshot within the bound.

Board and replay. Board's ReplayConverges replays one event; these need two, or a
client that does what nothing forbids:

- A tail [Moved X, Deleted X] over tables that hold both is an error ("replay move
  X: not found"), the load fails and the server exits, against "replayed
  idempotently on load" (storage.rs). It takes a manifest that trails.
- A tail [Created, Deleted] over tables that hold both inserts the row again.
  [Ratified, Created Y with the phase's tags] ratifies Y, which nobody asked for.
- The comment a bounce leaves is not in its event: a replay or a replica lacks it.
- `closed_by` may be set by a move to a status that is not terminal.
- A dead-lettered item (`blocked`) can be claimed and moved without --force, as
  the transition model does not know that status.
- `ratify` is refused for good once any row was deleted (crud.rs, `tags_of`), and
  moves its voyages past the lifecycle.
- `move in_progress --assign` does not ask the bounce gate, and from any other
  status it overwrites another agent's assignment; so does `update`.
- A research item in a terminal state can be reopened in two steps, over a state
  outside its own lifecycle.

Relations:

- A create cut between the renames of items and relations is skipped on replay
  because its row is there (events.rs:777): the flat entry stays without its
  edge, against storage.rs ("a recovered write rather than a lost or doubled
  one"). `cut` in Relations is that entry.
- An update that relates and unrelates one edge adds its row and takes one: over an
  edge that was there the handler leaves a row. Replay looks first whether the
  row is there, adds none, and takes the one it finds.
- relate twice writes two rows; one unrelate takes one row and the flat entry, and
  reports the edge removed. A removal replayed over its own result takes the next.
- The event of an update has the spelling of the request: with an alias, replay
  adds a row under the alias, and does not find the row to remove.
- relation.add neither validates nor canonicalises. The event of an hdd create has
  neither the edge nor the flat entry.
- A hypothesis id (H131.1) has a prefix `type_from_id` does not know.
- A reload with the same predicates but other classes or domains is answered as
  loaded, and ignored.

Planning:

- `generate_worklist` has the comment "Skip if already assigned to another agent
  in this worklist" (critical_path.rs:788) and no such check.
- `agents_from_items` leaves out an assignee "unassigned"; the rows without one
  have "-", so an agent "-" gets a worklist.
- Depth 0 still shows the current item.
- `handle_blocked` says that an item both blocked and ready cannot be (core.rs).
  An item whose dependency is deleted is both; one whose dependency is abandoned
  is neither. AnswersAgree is about all others. The command line's `blocked`
  looks at the whole chain and counts only `done`.
- The cycle error names items that merely wait on a cycle.

The data directory:

- Nothing locks it. A command line and a server, or two command lines, lose each
  other's updates, give out the same id, share one `.tmp`. The server's next save
  overwrites what a command line wrote. AloneKept and NumbersUnique are about
  commands that ran alone, and hold of no others.
- `create` with an edge saves relations before items. A crash in between leaves
  an edge of an item that does not exist, and the next item gets that number
  ("a half-related item is worse than a refused one", main.rs). The hdd commands
  save in the other order.
- An experiment_runs file that cannot be read is taken for an empty one, and the
  next `start_run` erases it (numbers start at 1 again; the model's histories are
  emptied there). The server saves that
  file outside of the log.
- A restore copies in place, leaves log and manifest as they are, takes an
  unfinished snapshot for one, and never returns `ServerStillRunning`. Its copy
  is newer than an interrupted `.tmp`, which is then not reported.
- A backup leaves out log and manifest. Its metadata reads `_commits.json` in the
  working directory and the key "id" where the file has "commit_id":
  `last_commit_id` is always empty.
- A server's start quarantines the `.tmp` a running command line is writing.

Extensions:

- A proposal whose commit failed stays in the extension's memory, and a later
  commit's checkpoint writes it: it may survive the restart of which
  STORE_NOT_DURABLE says "this write is gone (redo it)".
- The client gives up after 30 s (client.rs:63) and the server goes on: the
  outcome "unknown" of the model is that client's, too. Nothing sends again.

## 7. Not modelled

- A power cut that loses renamed but unsynced files: the crash here is that of a
  process. The tables and the manifest are renamed without an fsync.
- Display, export, templates, themes, argument parsing, the NATS connection, the
  MCP server and the client, which forward requests: formatting and I/O.
- One-shot migration from markdown and SHACL-like validation: sequential and
  covered by unit tests. (That a migration replaces the files is in LocalStore.)
- Hooks, embeddings, ontology data: pure evaluation, numerics, data.
- `reacquire` of the lease and the dirty flag, periodic save and git backup of
  `PersistenceEngine`: no program calls them.
- `create --push`: two clones give out the same number, a rejected push is retried
  after a `pull --rebase` whose result nobody reads. What the rebase leaves in
  the work tree is git's behaviour.
- Two snapshots begun in the same second (they share a directory), and
  `is_backup_due`.
- materialize-item: its depth-limited search marks an item visited at the depth
  where it meets it first, and so can miss items within `--depth`.
- Queries and statistics are pure functions of one state. Reading them showed:
  WIP limits are configured and printed but refuse nothing (README of the
  repository, line 368, says so; `check_wip_limit` asks for the categories
  "underway" and "approaching", the configuration has in_progress and review, and
  counts across boards); the burndown counts a move out of backlog as a creation,
  so a started item is subtracted twice, and ignores reopenings; velocity counts
  transitions, so a reopened item counts again though its comment says "Number
  of items completed"; history lists reopened items as completed; aging starts
  anew when an item is moved to the status it has; `status_series` ends before
  the last move if the span is not a multiple of the bucket.

## 8. Plan

Done: the modules of section 2, and the proofs of section 5.

Left, in this order:

1. A composition of DurableStore, Outbox and Replica over one log.
2. A page cache under DurableStore, for the power cut.
