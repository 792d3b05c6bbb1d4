----------------------------- MODULE WriterFence -----------------------------
(***************************************************************************)
(* Several server processes over one data directory: LocalWriterLease      *)
(* (server/src/lease.rs), the fence KanbanEngine::apply puts before every  *)
(* mutation (server/src/engine.rs), and the start and stop of              *)
(* server/src/main.rs, where the state is loaded before the lease is taken *)
(* and saved at ctrl-c without a look at the lease.                        *)
(*                                                                         *)
(* Between two file operations of one process another may run.  The four   *)
(* table files are one set of writes here and are renamed in one step, and *)
(* appends are whole: DurableStore has the inside of both.                 *)
(***************************************************************************)
EXTENDS Integers, Sequences, FiniteSets

CONSTANTS
    Proc,       \* the server processes
    Write,      \* the mutating commands, each sent to one server, once
    NoWrite,    \* "no commit is running"
    Allowed,    \* what may happen besides one server at a time that crashes
    MaxEpoch,   \* bound: the highest epoch a start may find
    MaxBlind,   \* bound: how many starts cannot read the owner file
    MaxUnseen   \* bound: how many starts write the owner file over an epoch
                \* they have not read

\* "run":    a server is started while another one runs
\* "start":  two servers are started at the same time
\* "ctrl_c": a server is stopped and saves its state
\* "save":   the table files cannot be written
\* "lease":  the owner file cannot be written, or the fence cannot read it
Option == {"run", "start", "ctrl_c", "save", "lease"}

ASSUME FenceAssumption ==
    /\ IsFiniteSet(Proc) /\ NoWrite \notin Write
    /\ Allowed \subseteq Option
    /\ MaxEpoch \in Nat /\ MaxBlind \in Nat /\ MaxUnseen \in Nat

VARIABLES
    owner,          \* the epoch in _writer.owner, 0 if there is no file
    log,            \* the records of _events.log
    decodes,        \* every line of _events.log decodes
    tables,         \* the writes whose rows the table files hold
    manifest,       \* the seq in _checkpoint.manifest
    pc,             \* what each process is doing
    mem,            \* the writes in each engine's memory
    committed_seq,  \* each backend's counter
    held,           \* the epoch each process holds
    durable,        \* the owner file took it: the acquisition is not NonDurable
    cur,            \* the write each process is committing
    rollback,       \* the log when its commit measured the length
    answer,         \* what the client of each write was told
    late,           \* history: records appended by each process once overtaken
    blind,          \* history: how many starts could not read the owner file
    unseen          \* history: how many starts wrote it over an epoch that they
                    \* had not read, being blind or too late

files   == <<owner, log, decodes, tables, manifest>>
engines == <<mem, committed_seq, held, durable, cur, rollback>>
past    == <<late, blind, unseen>>
vars    == <<files, pc, engines, answer, past>>

-----------------------------------------------------------------------------
Record == [seq: Nat, epoch: Nat, write: Write]
Phase == {"down", "loading", "loaded", "taking", "idle", "measured", "appended", "saved"}
Answer == {"none", "pending", "committed", "lost", "fenced", "unknown"}

Live == {p \in Proc : pc[p] # "down"}
Starting == {p \in Proc : pc[p] \in {"loading", "loaded", "taking"}}

\* A bug: the counter is resumed from the checkpoint.
HighWater_FromManifest == manifest

HighWater ==
    CHOOSE n \in {0} \cup {log[i].seq : i \in 1..Len(log)} :
        \A i \in 1..Len(log) : log[i].seq <= n

\* The events past the manifest; `load` replays them over the tables.
LogTail == {log[i].write : i \in {j \in 1..Len(log) : log[j].seq > manifest}}

\* A bug: a larger epoch in the file does not fence.
is_current_AtLeast(p) == owner >= held[p]

is_current(p) == owner = held[p]

Init ==
    /\ owner = 0 /\ log = <<>> /\ decodes = TRUE /\ tables = {} /\ manifest = 0
    /\ pc = [p \in Proc |-> "down"]
    /\ mem = [p \in Proc |-> {}]
    /\ committed_seq = [p \in Proc |-> 0]
    /\ held = [p \in Proc |-> 0] /\ durable = [p \in Proc |-> FALSE]
    /\ cur = [p \in Proc |-> NoWrite]
    /\ rollback = [p \in Proc |-> <<>>]
    /\ answer = [w \in Write |-> "none"]
    /\ late = [p \in Proc |-> 0] /\ blind = 0 /\ unseen = 0

-----------------------------------------------------------------------------
(* Start and stop *)

\* load_state reads the state first and takes the lease later.  The tables ...
LoadTables(p) ==
    /\ pc[p] = "down" /\ decodes /\ owner < MaxEpoch
    /\ Live # {} => "run" \in Allowed
    /\ Starting # {} => "start" \in Allowed
    /\ mem' = [mem EXCEPT ![p] = tables]
    /\ pc' = [pc EXCEPT ![p] = "loading"]
    /\ late' = [late EXCEPT ![p] = 0]
    /\ UNCHANGED <<files, committed_seq, held, durable, cur, rollback, answer, blind, unseen>>

\* ... and then the manifest and the events past it.
LoadTail(p) ==
    /\ pc[p] = "loading" /\ decodes
    /\ mem' = [mem EXCEPT ![p] = @ \cup LogTail]
    /\ committed_seq' = [committed_seq EXCEPT ![p] = HighWater]
    /\ pc' = [pc EXCEPT ![p] = "loaded"]
    /\ UNCHANGED <<files, held, durable, cur, rollback, answer, past>>

\* LocalWriterLease::acquire reads the prior owner; `held` keeps its epoch.  A
\* file that cannot be read or decoded passes for no owner.
ReadOwner(p) ==
    /\ pc[p] = "loaded"
    /\ \/ held' = [held EXCEPT ![p] = owner] /\ UNCHANGED blind
       \/ blind < MaxBlind /\ blind' = blind + 1 /\ UNCHANGED held
    /\ pc' = [pc EXCEPT ![p] = "taking"]
    /\ UNCHANGED <<files, mem, committed_seq, durable, cur, rollback, answer, late, unseen>>

\* A bug: the new owner keeps the prior epoch.
WriteOwner_NoBump(p) ==
    /\ pc[p] = "taking"
    /\ owner' = held[p]
    /\ durable' = [durable EXCEPT ![p] = TRUE]
    /\ pc' = [pc EXCEPT ![p] = "idle"]
    /\ UNCHANGED <<log, decodes, tables, manifest, held, mem, committed_seq, cur, rollback,
                   answer, past>>

\* It mints the next epoch and writes itself as the owner, over whatever the
\* file holds by now.  If that fails it goes on with the prior epoch
\* (NonDurable).
WriteOwner(p) ==
    /\ pc[p] = "taking"
    /\ \/ /\ owner' = held[p] + 1
          /\ held' = [held EXCEPT ![p] = @ + 1]
          /\ durable' = [durable EXCEPT ![p] = TRUE]
          /\ \/ owner = held[p] /\ UNCHANGED unseen
             \/ owner # held[p] /\ unseen < MaxUnseen /\ unseen' = unseen + 1
       \/ /\ "lease" \in Allowed
          /\ UNCHANGED <<owner, held, durable, unseen>>
    /\ pc' = [pc EXCEPT ![p] = "idle"]
    /\ UNCHANGED <<log, decodes, tables, manifest, mem, committed_seq, cur, rollback, answer,
                   late, blind>>

\* The process is gone, with what it held in memory.
Vanish(p) ==
    /\ pc' = [pc EXCEPT ![p] = "down"]
    /\ mem' = [mem EXCEPT ![p] = {}]
    /\ committed_seq' = [committed_seq EXCEPT ![p] = 0]
    /\ held' = [held EXCEPT ![p] = 0]
    /\ durable' = [durable EXCEPT ![p] = FALSE]
    /\ cur' = [cur EXCEPT ![p] = NoWrite]
    /\ rollback' = [rollback EXCEPT ![p] = <<>>]

Crash(p) ==
    /\ pc[p] # "down"
    /\ Vanish(p)
    /\ answer' = [w \in Write |-> IF w = cur[p] THEN "unknown" ELSE answer[w]]
    /\ UNCHANGED <<files, past>>

\* A bug: a clean stop removes the owner file.
Shutdown_Releases(p) ==
    /\ "ctrl_c" \in Allowed
    /\ pc[p] = "idle"
    /\ tables' = mem[p]
    /\ owner' = 0
    /\ Vanish(p)
    /\ UNCHANGED <<log, decodes, manifest, answer, past>>

\* ctrl_c: persist_state saves what this process has in memory.
Shutdown(p) ==
    /\ "ctrl_c" \in Allowed
    /\ pc[p] = "idle"
    /\ tables' = mem[p]
    /\ Vanish(p)
    /\ UNCHANGED <<owner, log, decodes, manifest, answer, past>>

-----------------------------------------------------------------------------
(* A mutating command *)

\* The fence lets it through; the handler puts it in memory and `commit`
\* measures the log.
Admit(p, w) ==
    /\ pc[p] = "idle" /\ answer[w] = "none"
    /\ is_current(p)
    /\ mem' = [mem EXCEPT ![p] = @ \cup {w}]
    /\ cur' = [cur EXCEPT ![p] = w]
    /\ rollback' = [rollback EXCEPT ![p] = log]
    /\ answer' = [answer EXCEPT ![w] = "pending"]
    /\ pc' = [pc EXCEPT ![p] = "measured"]
    /\ UNCHANGED <<files, committed_seq, held, durable, past>>

\* A bug: the handler runs before the fence is asked.
Fence_AfterRoute(p, w) ==
    /\ pc[p] = "idle" /\ answer[w] = "none"
    /\ ~is_current(p)
    /\ mem' = [mem EXCEPT ![p] = @ \cup {w}]
    /\ answer' = [answer EXCEPT ![w] = "fenced"]
    /\ UNCHANGED <<files, pc, committed_seq, held, durable, cur, rollback, past>>

\* WRITER_FENCED: the epoch moved on, or the owner file cannot be read.
Fence(p, w) ==
    /\ pc[p] = "idle" /\ answer[w] = "none"
    /\ ~is_current(p) \/ "lease" \in Allowed
    /\ answer' = [answer EXCEPT ![w] = "fenced"]
    /\ UNCHANGED <<files, pc, engines, past>>

\* The barrier.  Nobody looks at the lease again.
AppendRecord(p) ==
    /\ pc[p] = "measured"
    /\ log' = Append(log, [seq |-> committed_seq[p] + 1, epoch |-> held[p],
                           write |-> cur[p]])
    /\ late' = [late EXCEPT ![p] = IF held[p] < owner THEN @ + 1 ELSE @]
    /\ pc' = [pc EXCEPT ![p] = "appended"]
    /\ UNCHANGED <<owner, decodes, tables, manifest, engines, answer, blind, unseen>>

Save(p) ==
    /\ pc[p] = "appended"
    /\ tables' = mem[p]
    /\ pc' = [pc EXCEPT ![p] = "saved"]
    /\ UNCHANGED <<owner, log, decodes, manifest, engines, answer, past>>

\* set_len puts the file back to the length measured.  If it still begins with
\* what was measured, that cuts the records written since, whoever wrote them.
\* If another process cut it meanwhile, the length falls inside a record or past
\* the end, unless the records happen to be equally long.
SaveFails(p) ==
    /\ "save" \in Allowed
    /\ pc[p] = "appended"
    /\ LET n == Len(rollback[p])
           whole == n <= Len(log) /\ rollback[p] = SubSeq(log, 1, n)
       IN  \/ /\ n <= Len(log)
              /\ log' = SubSeq(log, 1, n)
              /\ UNCHANGED decodes
           \/ /\ ~whole
              /\ decodes' = FALSE
              /\ UNCHANGED log
    /\ answer' = [answer EXCEPT ![cur[p]] = "lost"]
    /\ cur' = [cur EXCEPT ![p] = NoWrite]
    /\ rollback' = [rollback EXCEPT ![p] = <<>>]
    /\ pc' = [pc EXCEPT ![p] = "idle"]
    /\ UNCHANGED <<owner, tables, manifest, mem, committed_seq, held, durable, past>>

\* A bug: the answer and the manifest do not wait for the tables.
Publish_BeforeSave(p) ==
    /\ pc[p] \in {"appended", "saved"}
    /\ committed_seq' = [committed_seq EXCEPT ![p] = @ + 1]
    /\ manifest' = committed_seq[p] + 1
    /\ answer' = [answer EXCEPT ![cur[p]] = "committed"]
    /\ cur' = [cur EXCEPT ![p] = NoWrite]
    /\ rollback' = [rollback EXCEPT ![p] = <<>>]
    /\ pc' = [pc EXCEPT ![p] = "idle"]
    /\ UNCHANGED <<owner, log, decodes, tables, mem, held, durable, past>>

\* The counter, the manifest, which may fail to be written, and the answer.
Publish(p) ==
    /\ pc[p] = "saved"
    /\ committed_seq' = [committed_seq EXCEPT ![p] = @ + 1]
    /\ manifest' \in {manifest, committed_seq[p] + 1}
    /\ answer' = [answer EXCEPT ![cur[p]] = "committed"]
    /\ cur' = [cur EXCEPT ![p] = NoWrite]
    /\ rollback' = [rollback EXCEPT ![p] = <<>>]
    /\ pc' = [pc EXCEPT ![p] = "idle"]
    /\ UNCHANGED <<owner, log, decodes, tables, mem, held, durable, past>>

Next ==
    \E p \in Proc :
        \/ LoadTables(p) \/ LoadTail(p) \/ ReadOwner(p) \/ WriteOwner(p) \/ Crash(p) \/ Shutdown(p)
        \/ \E w \in Write : Admit(p, w) \/ Fence(p, w)
        \/ AppendRecord(p) \/ Save(p) \/ SaveFails(p) \/ Publish(p)

Spec == Init /\ [][Next]_vars
-----------------------------------------------------------------------------
(* Properties *)

TypeOK ==
    /\ owner \in Nat /\ log \in Seq(Record) /\ decodes \in BOOLEAN
    /\ tables \subseteq Write /\ manifest \in Nat
    /\ pc \in [Proc -> Phase]
    /\ mem \in [Proc -> SUBSET Write]
    /\ committed_seq \in [Proc -> Nat] /\ held \in [Proc -> Nat]
    /\ durable \in [Proc -> BOOLEAN]
    /\ cur \in [Proc -> Write \cup {NoWrite}] /\ rollback \in [Proc -> Seq(Record)]
    /\ answer \in [Write -> Answer] /\ late \in [Proc -> Nat] /\ blind \in 0..MaxBlind
    /\ unseen \in 0..MaxUnseen
    /\ \A p \in Proc : cur[p] # NoWrite <=> pc[p] \in {"measured", "appended", "saved"}

\* The processes whose acquisition the owner file took at epoch e; each serves
\* under it until it is gone.
Holders(e) == {p \in Proc : durable[p] /\ held[p] = e}

\* An epoch that the owner file took names one server.  Nothing locks the file
\* between the read and the write of a start, and an unreadable file passes for
\* none: each start that wrote over an epoch it had not read may add a server
\* to an epoch, and nothing else does.  (A NonDurable server shares the epoch
\* of the one before it and is not counted.)
OneHolderPerEpoch ==
    \A p \in Proc : Cardinality(Holders(held[p])) <= 1 + unseen

\* A writer that has been overtaken finishes the command it was in the middle
\* of, and commits another one only if the epoch came back to it: at most one
\* more for each start that wrote over an epoch it had not read.
StaleAppendsOnce == \A p \in Proc : late[p] <= 1 + unseen

\* "Your change was NOT applied and is NOT durable" (WRITER_FENCED): no engine,
\* table file or log record shows a write the fence turned away.
FencedLeavesNoTrace ==
    \A w \in Write : answer[w] = "fenced" =>
        /\ w \notin tables /\ \A p \in Proc : w \notin mem[p]
        /\ \A i \in 1..Len(log) : log[i].write # w

\* A committed write is in what the next start would load.
AckedSurvives == \A w \in Write : answer[w] = "committed" => w \in tables \cup LogTail

\* The order of the log is the order of the writer generations: its epochs fall
\* back only where a start took an unreadable owner file for none, at most once
\* for each such start (a replica takes every fall for a split brain).
EpochsFallBlindOnly ==
    Cardinality({i \in 2..Len(log) : log[i].epoch < log[i - 1].epoch}) <= blind

\* The seqs of the log are 1, 2, 3, ... whoever wrote them.
SeqsGapFree == \A i \in 1..Len(log) : log[i].seq = i

\* The log is one whatever process wrote it: its records numbered 1, 2, 3, ...,
\* and every process in a phase that its variables fit.
LogSound == TypeOK /\ SeqsGapFree
=============================================================================
