------------------------------- MODULE Replica -------------------------------
(***************************************************************************)
(* The read replica of server/src/replica.rs over the files of one writer: *)
(* open, the catch-up step `poll` with its gap, epoch and staleness        *)
(* guards, and the re-bootstrap, through LocalReplicaSource, which reads   *)
(* the data directory while the writer commits.                            *)
(*                                                                         *)
(* Every read of a file is a step of its own, and so is every step of a    *)
(* commit that changes one (the four tables are one set of writes here;    *)
(* DurableStore has the inside of a save).  The clock is one bit: whether  *)
(* the time since the last confirmation exceeds the declared bound.        *)
(***************************************************************************)
EXTENDS Integers, Sequences, FiniteSets, SequencesExt

CONSTANTS
    Write,      \* the mutating commands, each committed at most once
    ExtWrite,   \* those of an extension, whose tables the replica seeds itself
    NoWrite,    \* "no commit is running"
    Epochs,     \* the epochs the writers may hold
    MaxLag,     \* StalenessBound.max_lag_seqs
    MaxLost,    \* bound: how many commits fail
    Faults      \* what may go wrong on the way to the source

\* "gap":         a source that delivers a tail with events missing
\* "split":       a source whose epochs regress
\* "schema":      a bootstrap snapshot of another table contract
\* "replay":      an event that cannot be replayed
\* "unreachable": a source that does not answer
FaultKind == {"gap", "split", "schema", "replay", "unreachable"}

ASSUME ReplicaAssumption ==
    /\ ExtWrite \subseteq Write /\ NoWrite \notin Write
    /\ Epochs \subseteq Nat /\ MaxLag \in Nat /\ MaxLost \in Nat
    /\ Faults \subseteq FaultKind

VARIABLES
    log,        \* the records of _events.log; the seq of a record is its position
    tables,     \* the writes whose rows the table files hold
    manifest,   \* the seq in _checkpoint.manifest
    cur,        \* the write the writer is committing
    saved,      \* its rows are in the table files
    lost,       \* the writes whose commit failed, still in the writer's memory
    state,      \* ReplicaState, or "Closed" before `open` has returned
    store,      \* the writes the replica's own tables hold
    seq,        \* the high-water it has applied
    last_epoch, \* the epoch of the last event applied
    snapshot,   \* the snapshot readers clone, with `dirty` as it was then
    expired,    \* currency was not confirmed for longer than max_staleness
    pc,         \* what poll or bootstrap does next
    canonical,  \* what the probe returned
    boot,       \* what the bootstrap under way has read
    base,       \* history: the seq of the last bootstrap
    dirty       \* history: the store was built from files in the middle of a commit

files   == <<log, tables, manifest, cur, saved, lost>>
applied == <<store, seq, last_epoch>>
served  == <<state, snapshot, expired>>
at      == <<pc, canonical, boot>>
history == <<base, dirty>>
vars    == <<files, applied, served, at, history>>

-----------------------------------------------------------------------------
Record == [epoch: Epochs, write: Write]
State == {"Closed", "Live", "Resyncing", "StaleRefused"}
Reading == {"tables", "manifest", "scan", "tail"}
Booting == Reading \cup {"seed"}
Phase == {"closed", "idle", "fetch"} \cup Booting

Writes(s) == {log[i].write : i \in s}
Past(n) == {i \in 1..Len(log) : i > n}

NoSnapshot == [seq |-> 0, store |-> {}, dirty |-> FALSE]
NoBoot == [tables |-> {}, manifest |-> 0, high |-> 0, dirty |-> FALSE]

Init ==
    /\ log = <<>> /\ tables = {} /\ manifest = 0
    /\ cur = NoWrite /\ saved = FALSE /\ lost = {}
    /\ state = "Closed" /\ store = {} /\ seq = 0 /\ last_epoch = 0
    /\ snapshot = NoSnapshot /\ expired = FALSE
    /\ pc = "closed" /\ canonical = 0 /\ boot = NoBoot
    /\ base = 0 /\ dirty = FALSE

-----------------------------------------------------------------------------
(* The writer: ParquetBackend::commit *)

\* A file changes: a bootstrap under way sees some files before, some after.
Disturb == boot' = [boot EXCEPT !.dirty = @ \/ pc \in Reading]

\* The record, with the epoch of the writer that holds the lease.
AppendRecord(w, e) ==
    /\ cur = NoWrite /\ w \notin lost /\ w \notin Writes(Past(0))
    /\ \/ "split" \in Faults
       \/ \A i \in 1..Len(log) : log[i].epoch <= e
    /\ log' = Append(log, [epoch |-> e, write |-> w])
    /\ cur' = w /\ saved' = FALSE
    /\ Disturb
    /\ UNCHANGED <<tables, manifest, lost, applied, served, pc, canonical, history>>

\* save_all writes what is in memory: the log, and what failed to be logged (of
\* which a writer started since has only what the table files had).
SaveTables ==
    \E kept \in {lost, lost \cap tables} : tables' = Writes(Past(0)) \cup kept

Save ==
    /\ cur # NoWrite /\ ~saved
    /\ SaveTables
    /\ saved' = TRUE
    /\ Disturb
    /\ UNCHANGED <<log, manifest, cur, lost, applied, served, pc, canonical, history>>

\* save_all fails, having renamed its files or not, and the record is taken
\* back.  A replica that has read it keeps it.
RollBack ==
    /\ cur # NoWrite /\ ~saved /\ Cardinality(lost) < MaxLost
    /\ UNCHANGED tables \/ SaveTables
    /\ log' = Front(log)
    /\ lost' = lost \cup {cur}
    /\ cur' = NoWrite
    /\ Disturb
    /\ dirty' = (dirty \/ seq >= Len(log))
    /\ snapshot' = [snapshot EXCEPT !.dirty = @ \/ snapshot.seq >= Len(log)]
    /\ UNCHANGED <<manifest, saved, applied, state, expired, pc, canonical, base>>

\* The manifest, unless it cannot be written.
Publish ==
    /\ cur # NoWrite /\ saved
    /\ manifest' \in {manifest, Len(log)}
    /\ cur' = NoWrite /\ saved' = FALSE
    /\ Disturb
    /\ UNCHANGED <<log, tables, lost, applied, served, pc, canonical, history>>

\* The writer dies in the middle of a commit; the next one loads the log.
WriterCrash ==
    /\ cur # NoWrite
    /\ cur' = NoWrite /\ saved' = FALSE
    /\ Disturb
    /\ UNCHANGED <<log, tables, manifest, lost, applied, served, pc, canonical, history>>

\* max_staleness passes since the last confirmation.
Tick ==
    /\ state # "Closed" /\ ~expired
    /\ expired' = TRUE
    /\ UNCHANGED <<files, applied, state, snapshot, at, history>>

-----------------------------------------------------------------------------
(* How a poll ends *)

\* What is applied becomes what readers clone.
publish == snapshot' = [seq |-> seq', store |-> store', dirty |-> dirty']

\* mark_confirmed.
Confirm ==
    /\ state' = "Live" /\ expired' = FALSE
    /\ pc' = "idle" /\ canonical' = 0 /\ boot' = NoBoot

\* enter_stale.
EnterStale ==
    /\ state' = "StaleRefused"
    /\ pc' = "idle" /\ canonical' = 0 /\ boot' = NoBoot
    /\ UNCHANGED <<snapshot, expired>>

\* The poll returns and the state is what it was.
Return ==
    /\ pc' = "idle" /\ canonical' = 0 /\ boot' = NoBoot
    /\ UNCHANGED <<state, snapshot, expired>>

\* on_unreachable: the last snapshot is good for as long as the bound says.
on_unreachable == IF expired THEN EnterStale ELSE Return

\* beyond_bounds, with the seq a failed bootstrap may already have moved.
beyond_bounds(n) == expired \/ canonical - n > MaxLag

-----------------------------------------------------------------------------
(* poll *)

\* Level with the source.
ProbeLevel ==
    /\ pc = "idle" /\ Len(log) = seq
    /\ Confirm
    /\ UNCHANGED <<files, applied, snapshot, base, dirty>>

\* The source has less than the replica applied: a rewind.
ProbeRewound ==
    /\ pc = "idle" /\ Len(log) < seq
    /\ EnterStale
    /\ UNCHANGED <<files, applied, base, dirty>>

\* A bug: a source that is level is asked for its tail as well.
ProbeBehind_OrLevel ==
    /\ pc = "idle" /\ Len(log) >= seq
    /\ pc' = "fetch" /\ canonical' = Len(log)
    /\ UNCHANGED <<files, applied, served, boot, history>>

ProbeBehind ==
    /\ pc = "idle" /\ Len(log) > seq
    /\ pc' = "fetch" /\ canonical' = Len(log)
    /\ UNCHANGED <<files, applied, served, boot, history>>

\* The probe or the fetch does not get an answer.
Unreachable ==
    /\ "unreachable" \in Faults
    /\ pc \in {"idle", "fetch"}
    /\ on_unreachable
    /\ UNCHANGED <<files, applied, base, dirty>>

\* What events_since may return: the positions past `seq`, and with "gap" only
\* some of them.
Tails == IF "gap" \in Faults THEN SUBSET Past(seq) ELSE {Past(seq)}

\* A bug: only the first event is looked at.
detect_gap_FirstOnly(t) == t = {} \/ seq + 1 \notin t

\* detect_gap: the tail is not seq + 1, seq + 2, ... without a hole.
detect_gap(t) == t = {} \/ t # (seq + 1)..(seq + Cardinality(t))

\* The epochs of a tail never decrease, from that of the last event applied on.
Monotone(t) ==
    /\ \A i \in t : log[i].epoch >= last_epoch
    /\ \A i, j \in t : i < j => log[i].epoch <= log[j].epoch

\* A bug: the epoch of the tail is not remembered.
Apply_ForgetsEpoch(t) ==
    /\ store' = store \cup Writes(t)
    /\ seq' = Max(t)
    /\ UNCHANGED last_epoch

Apply(t) ==
    /\ store' = store \cup Writes(t)
    /\ seq' = Max(t)
    /\ last_epoch' = log[Max(t)].epoch

\* A contiguous tail of one writer generation after another.
FetchApplies ==
    /\ pc = "fetch"
    /\ \E t \in Tails :
        /\ ~detect_gap(t) /\ Monotone(t)
        /\ Apply(t)
    /\ UNCHANGED <<files, base, dirty>>
    /\ publish
    /\ Confirm

\* An event of the tail cannot be replayed.  Those before it stay applied, and
\* nothing is published; the state does not change.
FetchReplayFails ==
    /\ pc = "fetch" /\ "replay" \in Faults
    /\ \E t \in Tails :
        /\ ~detect_gap(t) /\ Monotone(t)
        /\ \E n \in t :
            LET done == {i \in t : i < n}
            IN  IF done = {} THEN UNCHANGED applied ELSE Apply(done)
    /\ Return
    /\ UNCHANGED <<files, history>>

\* Two writer generations interleaved: nothing of the tail is applied.
FetchSplit ==
    /\ pc = "fetch"
    /\ \E t \in Tails : ~detect_gap(t) /\ ~Monotone(t)
    /\ EnterStale
    /\ UNCHANGED <<files, applied, base, dirty>>

\* A bug: a tail with a gap is left for the next poll.
FetchGap_Waits ==
    /\ pc = "fetch"
    /\ \E t \in Tails : detect_gap(t)
    /\ Return
    /\ UNCHANGED <<files, applied, history>>

\* resync begins.
FetchGap ==
    /\ pc = "fetch"
    /\ \E t \in Tails : detect_gap(t)
    /\ state' = "Resyncing"
    /\ pc' = "tables"
    /\ UNCHANGED <<files, applied, snapshot, expired, canonical, boot, history>>

-----------------------------------------------------------------------------
(* bootstrap_state over LocalReplicaSource::bootstrap *)

Open ==
    /\ pc = "closed"
    /\ pc' = "tables"
    /\ UNCHANGED <<files, applied, served, canonical, boot, history>>

\* load_all.
BootTables ==
    /\ pc = "tables"
    /\ boot' = [boot EXCEPT !.tables = tables]
    /\ pc' = "manifest"
    /\ UNCHANGED <<files, applied, served, canonical, history>>

\* read_checkpoint_high_water.
BootManifest ==
    /\ pc = "manifest"
    /\ boot' = [boot EXCEPT !.manifest = manifest]
    /\ pc' = "scan"
    /\ UNCHANGED <<files, applied, served, canonical, history>>

\* scan_high_water.
BootScan ==
    /\ pc = "scan"
    /\ boot' = [boot EXCEPT !.high = Len(log)]
    /\ pc' = "tail"
    /\ UNCHANGED <<files, applied, served, canonical, history>>

\* A bug: the position is that of the checkpoint, not of the log.
Adopt_Checkpoint ==
    /\ seq' = boot.manifest
    /\ last_epoch' = 0
    /\ store' = (store \cap ExtWrite) \cup
                ((boot.tables \cup Writes(Past(boot.manifest))) \ ExtWrite)

\* The tables and the events past the checkpoint become the replica's own; an
\* extension keeps its tables.
Adopt ==
    /\ seq' = boot.high
    /\ last_epoch' = 0
    /\ store' = (store \cap ExtWrite) \cup
                ((boot.tables \cup IF boot.high > boot.manifest
                                   THEN Writes(Past(boot.manifest)) ELSE {}) \ ExtWrite)

BootTail ==
    /\ pc = "tail"
    /\ Adopt
    /\ base' = seq'
    /\ dirty' = boot.dirty
    /\ IF ExtWrite = {}
       THEN publish /\ Confirm
       ELSE /\ pc' = "seed" /\ boot' = NoBoot
            /\ UNCHANGED <<served, canonical>>
    /\ UNCHANGED files

\* seed_extension: the extension replays what the log holds of its own.
Seed ==
    /\ pc = "seed"
    /\ store' = store \cup (Writes(Past(0)) \cap ExtWrite)
    /\ UNCHANGED <<files, seq, last_epoch, base, dirty>>
    /\ publish
    /\ Confirm

\* The source does not answer: `open` fails, and resync gives up beyond the
\* bounds and tolerates it within them.
BootFails ==
    /\ "unreachable" \in Faults
    /\ pc \in Booting
    /\ IF state = "Closed"
       THEN /\ pc' = "closed" /\ canonical' = 0 /\ boot' = NoBoot
            /\ store' = {} /\ seq' = 0 /\ last_epoch' = 0
            /\ UNCHANGED served
       ELSE /\ IF beyond_bounds(seq) THEN EnterStale ELSE Return
            /\ UNCHANGED applied
    /\ UNCHANGED <<files, base, dirty>>

\* The extension cannot replay an event, and keeps those before it; resync
\* leaves the state as it is.
SeedFails ==
    /\ "replay" \in Faults
    /\ pc = "seed" /\ state # "Closed"
    /\ \E n \in 0..Len(log) :
        store' = store \cup (Writes(1..n) \cap ExtWrite)
    /\ Return
    /\ UNCHANGED <<files, seq, last_epoch, history>>

\* A snapshot of another table contract is refused before anything is adopted.
BootSchema ==
    /\ "schema" \in Faults
    /\ pc = "tail" /\ state # "Closed"
    /\ EnterStale
    /\ UNCHANGED <<files, applied, base, dirty>>

-----------------------------------------------------------------------------
Poll ==
    \/ ProbeLevel \/ ProbeRewound \/ ProbeBehind \/ Unreachable
    \/ FetchApplies \/ FetchReplayFails \/ FetchSplit \/ FetchGap

Bootstrap ==
    \/ Open \/ BootTables \/ BootManifest \/ BootScan \/ BootTail \/ Seed
    \/ BootFails \/ SeedFails \/ BootSchema

Writer ==
    \/ \E w \in Write, e \in Epochs : AppendRecord(w, e)
    \/ Save \/ RollBack \/ Publish \/ WriterCrash

Next == Writer \/ Tick \/ Poll \/ Bootstrap

Spec == Init /\ [][Next]_vars

\* The embedding process opens the replica and polls it on a timer, and a source
\* that is asked again and again answers at some time.
Fairness ==
    /\ WF_vars(Open)
    /\ SF_vars(ProbeLevel \/ ProbeBehind)
    /\ SF_vars(FetchApplies \/ FetchGap)
    /\ SF_vars(BootTables) /\ SF_vars(BootManifest) /\ SF_vars(BootScan) /\ SF_vars(BootTail)
    /\ SF_vars(Seed)

FairSpec == Spec /\ Fairness
-----------------------------------------------------------------------------
(* Properties *)

TypeOK ==
    /\ log \in Seq(Record) /\ tables \subseteq Write /\ manifest \in Nat
    /\ cur \in Write \cup {NoWrite} /\ saved \in BOOLEAN /\ lost \subseteq Write
    /\ state \in State /\ store \subseteq Write /\ seq \in Nat /\ last_epoch \in Nat
    /\ snapshot \in [seq: Nat, store: SUBSET Write, dirty: BOOLEAN] /\ expired \in BOOLEAN
    /\ pc \in Phase /\ canonical \in Nat
    /\ boot \in [tables: SUBSET Write, manifest: Nat, high: Nat, dirty: BOOLEAN]
    /\ base \in Nat /\ dirty \in BOOLEAN
    /\ pc = "fetch" => canonical > seq

\* Replica::read hands the snapshot out.
Served == state = "Live" \/ (state = "Resyncing" /\ ~expired)

\* The core tables of a snapshot are those of the first `seq` events of the log,
\* through gaps, splits, re-bootstraps and failures, as long as the replica did
\* not read the files in the middle of a commit or an event taken back later.
SnapshotIsPrefix ==
    Served /\ ~snapshot.dirty =>
        snapshot.store \ (lost \cup ExtWrite)
            = Writes({i \in 1..Len(log) : i <= snapshot.seq}) \ ExtWrite

\* "an epoch that REGRESSES across the tail is two writer generations
\* interleaved": between two bootstraps no such tail is ever applied, not even
\* in portions over several polls.
TailNeverSplit ==
    ~dirty => \A i, j \in (base + 1)..seq : i < j => log[i].epoch <= log[j].epoch

\* A reader never sees the board go back in time.
SnapshotNeverBack == [][snapshot'.seq >= snapshot.seq]_vars

\* A poll or a re-bootstrap that failed half-way has applied what it could not
\* publish (LiveIsPublished).
Unpublished == pc = "idle" /\ snapshot.seq < seq

\* Every committed position is served at some time, though tails have gaps,
\* bootstraps fail and the bound passes, unless an event cannot be replayed or an
\* extension not be seeded on the way.
CatchesUp ==
    \A n \in 1..Cardinality(Write) :
        (cur = NoWrite /\ Len(log) >= n) ~> (snapshot.seq >= n \/ Unpublished)

-----------------------------------------------------------------------------
(* What comments of the repository say, and the code does not keep: no run *)
(* checks these, README, section 6, tells how to see them fail             *)

\* "bootstrap: A fresh, complete snapshot at the source high-water": a replica
\* opened over any data directory misses no event its position covers.
BootstrapIsComplete ==
    state = "Live" =>
        Writes({i \in 1..Len(log) : i <= snapshot.seq}) \ ExtWrite \subseteq snapshot.store

\* "Live: Current ... the published snapshot reflects the source high-water the
\* replica has applied".
LiveIsPublished == state = "Live" /\ pc = "idle" => snapshot.seq = seq

\* "It refuses reads once it cannot confirm currency within a declared bound" (the
\* module comment of replica.rs): no poll returns with the bound exceeded and the
\* replica still taken for current, whatever it met on the way.
PastBoundRefuses == [][pc # "idle" /\ pc' = "idle" /\ expired' => state' # "Live"]_vars
=============================================================================
