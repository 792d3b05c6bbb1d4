----------------------------- MODULE LocalStore -----------------------------
(***************************************************************************)
(* The data directory as the programs that share it find it: the local     *)
(* command line (src/main.rs), which loads the files it needs, changes     *)
(* them in memory and saves them one by one without a lock; a server,      *)
(* which saves what it holds in memory; the backup (src/backup.rs), which  *)
(* copies the files one by one while the others go on; the restore, which  *)
(* copies them back in place; and the quarantine of an interrupted save    *)
(* (src/persistence.rs) when a server starts.                              *)
(*                                                                         *)
(* A file holds facts, each written by one command about one item or run.  *)
(* items stands for the three tables saved together, experiments for       *)
(* experiment_runs.parquet.  A command that fails is left out: it saves    *)
(* nothing.                                                                *)
(***************************************************************************)
EXTENDS Integers, FiniteSetsExt, SequencesExt

CONSTANTS
    Cli,         \* command lines that may run at once
    Server,      \* the server process
    RETENTION,   \* snapshots kept; 0 keeps all
    Absent,      \* no such file, or nobody
    MaxBegun     \* bound on the commands, shutdowns and snapshots begun, together

\* Only the server's process may be missing from the command lines; a snapshot's
\* number of copies kept and the bound of the model are naturals.
ASSUME LocalStoreAssumption ==
    /\ Server \notin Cli
    /\ RETENTION \in Nat /\ MaxBegun \in Nat

File == {"items", "relations", "experiments"}
Writer == Cli \cup {Server}

VARIABLES
    live,        \* the parquet files: [data, is], where is tells a file that can be read
    tmp,         \* the .tmp beside each: [by, data, newer], or Absent
    quarantine,  \* the data of the files set aside under _recovery
    proc,        \* what each writer is doing
    server,      \* what a running server holds in memory, or Absent
    suspect,     \* files that a start reported as older than their .tmp, and whose
                 \* save was not cut short since
    snapshots,   \* stamp -> [files, held]: what was copied, and what it must bring back
    latest,      \* the snapshot `latest` links to, or Absent
    backup,      \* [todo, held]: what is left to copy, and to hold; or Absent
    stamp,       \* the clock of the snapshots' names
    ops,         \* commands begun
    kept,        \* history: the facts of commands that ran alone and succeeded
    fresh,       \* history: the item and run numbers those commands created
    interrupted  \* history: what a kill cut short while it was saved to each file
                 \* that nothing else was writing or wrote since; or Absent

vars == <<live, tmp, quarantine, proc, server, suspect, snapshots, latest,
          backup, stamp, ops, kept, fresh, interrupted>>

disk == <<live, tmp>>
noted == <<suspect, interrupted>>
archive == <<snapshots, latest, backup, stamp>>
history == <<kept, fresh>>

Fact == [op : 0..MaxBegun, id : 1..MaxBegun + 1, new : BOOLEAN]
\* Nobody's file is told from one that somebody writes.
ASSUME AbsentAssumption ==
    Absent \notin [by : SUBSET Writer, data : SUBSET Fact, newer : BOOLEAN]

NoFacts == [f \in File |-> {}]
Idle == [pc |-> "idle", op |-> 0, alone |-> FALSE, mem |-> NoFacts, todo |-> <<>>,
         made |-> NoFacts, bad |-> {}]

\* allocate_id and next_run_number.
NextId(data) == Max({0} \cup {e.id : e \in data}) + 1

\* A parquet file is whole, cut by a copy that has not filled it, or garbled.
Content == {"whole", "cut", "garbled"}
Loads(f) == live[f].is = "whole"
-----------------------------------------------------------------------------
\* The first item, its edge and the first run, where there are any.
First == [op |-> 0, id |-> 1, new |-> TRUE]

\* An empty board, or one in use.
Init ==
    /\ kept \in {NoFacts, [f \in File |-> {First}]}
    /\ live = [f \in File |-> [data |-> kept[f], is |-> "whole"]]
    /\ tmp = [f \in File |-> Absent]
    /\ quarantine = {}
    /\ proc = [p \in Writer |-> Idle]
    /\ server = Absent
    /\ suspect = {}
    /\ snapshots = <<>>
    /\ latest = Absent
    /\ backup = Absent
    /\ stamp = 0
    /\ ops = 0
    /\ fresh = {[file |-> f, op |-> 0, id |-> 1] : f \in {g \in File : kept[g] # {}}}
    /\ interrupted = [f \in File |-> Absent]

Busy == {p \in Writer : proc[p].pc # "idle"}

\* A command that begins spoils the solitude of those that run.
Join(p, state) ==
    [q \in Writer |-> IF q = p THEN state ELSE [proc[q] EXCEPT !.alone = FALSE]]

Started(p, mem, made, todo) ==
    [pc |-> "open", op |-> ops + 1, alone |-> Busy = {} /\ (p = Server \/ server = Absent),
     mem |-> mem, todo |-> todo, made |-> made, bad |-> {}]

Begin(p, state) ==
    /\ proc[p].pc = "idle" /\ ops + stamp < MaxBegun
    /\ ops' = ops + 1
    /\ proc' = Join(p, state)

New(id) == [op |-> ops + 1, id |-> id, new |-> TRUE]
Edit(id) == [op |-> ops + 1, id |-> id, new |-> FALSE]
Made(f, e) == [NoFacts EXCEPT ![f] = {e}]

\* load_store: what the command starts from; it fails on a file it cannot read.
LoadedItems == live["items"].data

\* Commands::Create with an edge, and update --relate: the relations are read
\* only after the item was made in memory, and saved before the store.
CreateRelated(c) ==
    /\ Loads("items")
    /\ LET e == New(NextId(LoadedItems))
       IN  /\ Begin(c, [Started(c, NoFacts, [Made("items", e) EXCEPT !["relations"] = {e}],
                                <<"relations", "items">>)
                        EXCEPT !.pc = "edges", !.mem["items"] = LoadedItems \cup {e}])
    /\ UNCHANGED <<disk, quarantine, server, noted, archive, history>>

LoadEdges(c) ==
    /\ proc[c].pc = "edges"
    /\ IF Loads("relations")
       THEN proc' = [proc EXCEPT ![c].pc = "open",
                 ![c].mem["relations"] = live["relations"].data \cup proc[c].made["relations"]]
       ELSE proc' = [proc EXCEPT ![c] = Idle]
    /\ UNCHANGED <<disk, quarantine, server, noted, archive, ops, history>>

\* The hdd commands load both files first and save the store first.
CreateHdd(c) ==
    /\ Loads("items") /\ Loads("relations")
    /\ LET e == New(NextId(LoadedItems))
           made == [Made("items", e) EXCEPT !["relations"] = {e}]
       IN  Begin(c, Started(c, [f \in File |-> (IF f = "items" THEN LoadedItems
                                                ELSE live[f].data) \cup made[f]],
                            made, <<"items", "relations">>))
    /\ UNCHANGED <<disk, quarantine, server, noted, archive, history>>

\* Move, ratify, update, comment and rank of the local command line: load the
\* store, change the item, save the store.
EditItem(c) ==
    /\ Loads("items")
    /\ \E id \in {e.id : e \in LoadedItems} :
           Begin(c, Started(c, [NoFacts EXCEPT !["items"] = LoadedItems \cup {Edit(id)}],
                            Made("items", Edit(id)), <<"items">>))
    /\ UNCHANGED <<disk, quarantine, server, noted, archive, history>>

\* migrate_would_destroy: nothing to migrate onto a board that holds items.
WouldDestroy(existing, migrated) == existing # {} /\ migrated = {}

\* migrate replaces both files with what was read from markdown; --force empties a
\* board that way.
Migrate(c) ==
    /\ Loads("items")
    /\ \E migrated \in {{}, {New(1)}}, force \in BOOLEAN :
           /\ force \/ ~WouldDestroy(LoadedItems, migrated)
           /\ Begin(c, Started(c, [NoFacts EXCEPT !["items"] = migrated],
                               [NoFacts EXCEPT !["items"] = migrated],
                               <<"items", "relations">>))
           /\ IF migrated = {} /\ LoadedItems = {}
              THEN UNCHANGED history
              ELSE /\ kept' = [kept EXCEPT !["items"] = {}, !["relations"] = {}]
                   /\ fresh' = {n \in fresh : n.file = "experiments"}
    /\ UNCHANGED <<disk, quarantine, server, noted, archive>>

\* load_experiment_runs: a file that cannot be read is an empty store, and the
\* save that follows replaces it.
LoadedRuns == IF Loads("experiments") THEN live["experiments"].data ELSE {}

\* The runs complete_run accepts: AlreadyComplete refuses the others.
Running(data) == {e.id : e \in data} \ {e.id : e \in {d \in data : ~d.new}}

\* A bug: the number after the highest running run.
NextRun_Running(data) == Max({0} \cup Running(data)) + 1
NextRun(data) == NextId(data)

\* hdd run and hdd complete, by either program.
RunStep(p) ==
    /\ p = Server => server # Absent
    /\ LET begun == New(NextRun(LoadedRuns))
           saves(e) == Started(p, [NoFacts EXCEPT !["experiments"] = LoadedRuns \cup {e}],
                               Made("experiments", e), <<"experiments">>)
       IN  \E e \in {begun} \cup {Edit(id) : id \in Running(LoadedRuns)} : Begin(p, saves(e))
    /\ kept' = IF Loads("experiments") THEN kept ELSE [kept EXCEPT !["experiments"] = {}]
    /\ fresh' = IF Loads("experiments") THEN fresh
                ELSE {n \in fresh : n.file # "experiments"}
    /\ UNCHANGED <<disk, quarantine, server, noted, archive>>

\* A server's commit saves the tables it holds, whatever the files hold by now.
ServerCommit ==
    /\ server # Absent
    /\ LET e == New(NextId(server["items"]))
           made == [Made("items", e) EXCEPT !["relations"] = {e}]
       IN  Begin(Server, Started(Server, [f \in File |-> server[f] \cup made[f]], made,
                                 <<"items", "relations">>))
    /\ UNCHANGED <<disk, quarantine, server, noted, archive, history>>
-----------------------------------------------------------------------------
\* write_parquet_atomic creates the .tmp, cutting one that another writer is
\* still filling.
Open(p) ==
    /\ proc[p].pc = "open"
    /\ LET f == Head(proc[p].todo)
           others == IF tmp[f] = Absent THEN {} ELSE tmp[f].by
       IN  /\ tmp' = [tmp EXCEPT ![f] = [by |-> others \cup {p}, data |-> {}, newer |-> TRUE]]
           /\ interrupted' = [interrupted EXCEPT ![f] = Absent]
    /\ proc' = [proc EXCEPT ![p].pc = "write"]
    /\ UNCHANGED <<live, quarantine, server, suspect, archive, ops, history>>

\* The save of a server that shuts down has no command's number.
Stopping(p) == p = Server /\ proc[p].op = 0

\* The command reports success: its facts are saved.
Succeed(p) ==
    /\ proc' = [proc EXCEPT ![p] = Idle]
    /\ server' = IF Stopping(p) THEN Absent
                 ELSE IF p = Server THEN [f \in File |-> server[f] \cup
                        (IF f = "experiments" THEN {} ELSE proc[p].made[f])] ELSE server
    /\ kept' = IF proc[p].alone THEN [f \in File |-> kept[f] \cup proc[p].made[f]] ELSE kept
    /\ fresh' = IF proc[p].alone
                THEN fresh \cup UNION {{[file |-> f, op |-> e.op, id |-> e.id] :
                                           e \in {d \in proc[p].made[f] : d.new}} : f \in File}
                ELSE fresh

\* A command that cannot save a file ends; a server that shuts down goes on to
\* the relations.
Fail(p) ==
    IF Stopping(p) /\ Len(proc[p].todo) = 2
    THEN /\ proc' = [proc EXCEPT ![p].pc = "open", ![p].todo = Tail(@)]
         /\ UNCHANGED server
    ELSE /\ proc' = [proc EXCEPT ![p] = Idle]
         /\ server' = IF Stopping(p) THEN Absent ELSE server

\* A .tmp that several were filling holds the bytes of one of them, or a mixture.
Filled(f) == IF tmp[f].by = {} THEN {tmp[f].data} ELSE {proc[q].mem[f] : q \in tmp[f].by}

\* The write ends and the .tmp is renamed, whoever filled it.  The rename fails
\* when the .tmp is gone: renamed by another writer, or quarantined.
Rename(p) ==
    /\ proc[p].pc = "write"
    /\ LET f == Head(proc[p].todo)
       IN  IF tmp[f] = Absent
           THEN Fail(p) /\ UNCHANGED <<disk, history>>
           ELSE /\ \E is \in {"whole"} \cup IF tmp[f].by = {p} THEN {} ELSE {"garbled"} :
                   \E data \in Filled(f) :
                       live' = [live EXCEPT ![f] = [data |-> data, is |-> is]]
                /\ tmp' = [tmp EXCEPT ![f] = Absent]
                /\ IF Len(proc[p].todo) = 1
                   THEN Succeed(p)
                   ELSE /\ proc' = [proc EXCEPT ![p].pc = "open", ![p].todo = Tail(@)]
                        /\ UNCHANGED <<server, history>>
    /\ UNCHANGED <<quarantine, noted, archive, ops>>

\* The files whose .tmp the process is filling, and those it fills alone, the
\* live file being older.
Filling(p) == {f \in File : /\ proc[p].pc = "write" /\ f = Head(proc[p].todo)
                            /\ tmp[f] # Absent /\ p \in tmp[f].by}
FillingAlone(p) ==
    {f \in Filling(p) : /\ tmp[f].newer
                        /\ \A q \in Writer \ {p} :
                               ~(proc[q].pc = "write" /\ Head(proc[q].todo) = f)}

\* A process is killed: the .tmp it was filling stays, cut or complete.
Killed(p) ==
    /\ proc[p].pc # "idle" \/ (p = Server /\ server # Absent)
    /\ proc' = [proc EXCEPT ![p] = Idle]
    /\ server' = IF p = Server THEN Absent ELSE server
    /\ tmp' = [f \in File |->
                   IF f \in Filling(p)
                   THEN [tmp[f] EXCEPT !.by = @ \ {p}, !.data = proc[p].mem[f]] ELSE tmp[f]]
    /\ interrupted' = [f \in File |-> IF f \in FillingAlone(p) THEN proc[p].mem[f]
                                      ELSE interrupted[f]]
    /\ suspect' = suspect \ Filling(p)
    /\ UNCHANGED <<live, quarantine, archive, ops, history>>
-----------------------------------------------------------------------------
\* A bug: the interrupted files are deleted.
SetAside_Delete(orphans) == {}
\* recover_wal moves every .tmp away, whoever may be writing it.
SetAside(orphans) == {tmp[f].data : f \in orphans} \ {{}}

\* The .tmp files newer than the file they were to replace.
Suspects(orphans) == {f \in orphans : tmp[f].newer}

\* load_state: quarantine, then load what the files hold.
StartServer ==
    /\ server = Absent /\ proc[Server].pc = "idle"
    /\ LET orphans == {f \in File : tmp[f] # Absent}
       IN  /\ quarantine' = quarantine \cup SetAside(orphans)
           /\ suspect' = suspect \cup Suspects(orphans)
           /\ tmp' = [f \in File |-> Absent]
    /\ server' = IF Loads("items") /\ Loads("relations")
                 THEN [f \in File |-> live[f].data] ELSE Absent
    /\ proc' = [q \in Writer |-> [proc[q] EXCEPT !.alone = FALSE]]
    /\ UNCHANGED <<live, archive, ops, history, interrupted>>

\* persist_state at shutdown: the store, then the relations, as they are in memory.
StopServer ==
    /\ server # Absent
    /\ Begin(Server, [Idle EXCEPT !.pc = "open", !.mem = server,
                                  !.todo = <<"items", "relations">>])
    /\ UNCHANGED <<disk, quarantine, server, noted, archive, history>>
-----------------------------------------------------------------------------
\* SNAPSHOT_FILES, in the order they are copied.
COPIED == <<"items", "relations", "experiments">>

\* create_snapshot makes a directory named by the time and copies into it.
StartBackup ==
    /\ backup = Absent /\ ops + stamp < MaxBegun
    /\ stamp' = stamp + 1
    /\ backup' = [todo |-> COPIED, held |-> kept]
    /\ snapshots' = [s \in DOMAIN snapshots \cup {stamp + 1} |->
                        IF s = stamp + 1 THEN [files |-> <<>>, held |-> NoFacts]
                        ELSE snapshots[s]]
    /\ UNCHANGED <<disk, quarantine, proc, server, noted, latest, ops, history>>

WithCopy(files, f) ==
    [g \in DOMAIN files \cup {f} |-> IF g = f THEN live[f] ELSE files[g]]

\* An open file stays what it was when another is renamed over it, so the copy of
\* one file is one step; the steps of others come between the files.  What a
\* restore or a migration takes away in between the snapshot need not hold.
Copy ==
    /\ backup # Absent /\ backup.todo # <<>>
    /\ snapshots' = [snapshots EXCEPT ![stamp].files = WithCopy(@, Head(backup.todo))]
    /\ backup' = [todo |-> Tail(backup.todo),
                  held |-> [f \in File |-> backup.held[f] \cap kept[f]]]
    /\ UNCHANGED <<disk, quarantine, proc, server, noted, latest, stamp, ops, history>>

\* A bug: the oldest snapshots are kept.
Pruned_Newest(taken) ==
    IF RETENTION = 0 THEN taken
    ELSE {s \in taken : Cardinality({t \in taken : t < s}) < RETENTION}
\* prune_old_snapshots keeps the newest by name, unfinished ones included.
Pruned(taken) ==
    IF RETENTION = 0 THEN taken
    ELSE {s \in taken : Cardinality({t \in taken : t > s}) < RETENTION}

\* The snapshot must bring back what was kept when it began and at every copy.
EndBackup ==
    /\ backup # Absent /\ backup.todo = <<>>
    /\ latest' = stamp
    /\ snapshots' = [s \in Pruned(DOMAIN snapshots) |->
           IF s = stamp THEN [snapshots[s] EXCEPT !.held = backup.held]
           ELSE snapshots[s]]
    /\ backup' = Absent
    /\ UNCHANGED <<disk, quarantine, proc, server, noted, stamp, ops, history>>

BackupDies ==
    /\ backup # Absent
    /\ backup' = Absent
    /\ UNCHANGED <<disk, quarantine, proc, server, noted, snapshots, latest, stamp, ops,
                   history>>

\* A bug: the restore brings back the tables of items only.
RestoredFiles_Items(s) == {"items"}
\* The files restore_snapshot copies, in the backup's order: those the snapshot
\* has, the first ones of that order.
RestoredFiles(s) == DOMAIN snapshots[s].files

\* restore_snapshot, forced: any snapshot directory with an items file will do,
\* finished or not, and no running server is looked for.  One restore at a time.
Restore(c) ==
    /\ \A p \in Cli : proc[p].pc \notin {"cut", "fill"}
    /\ \E s \in DOMAIN snapshots :
           /\ "items" \in DOMAIN snapshots[s].files
           /\ Begin(c, [Started(c, [f \in File |-> IF f \in RestoredFiles(s)
                                                   THEN snapshots[s].files[f].data ELSE {}],
                                snapshots[s].held,
                                SubSeq(COPIED, 1, Cardinality(RestoredFiles(s))))
                        EXCEPT !.pc = "cut",
                               !.bad = {f \in RestoredFiles(s) :
                                            snapshots[s].files[f].is # "whole"}])
    /\ kept' = NoFacts
    /\ fresh' = {}
    /\ UNCHANGED <<disk, quarantine, server, noted, archive>>

\* Writing a live file in place makes it newer than its .tmp, unless a writer of
\* that one goes on.
InPlace(f) ==
    /\ interrupted' = [interrupted EXCEPT ![f] = Absent]
    /\ IF tmp[f] = Absent THEN UNCHANGED tmp
       ELSE \E later \in {FALSE, tmp[f].by # {}} : tmp' = [tmp EXCEPT ![f].newer = later]

\* fs::copy cuts the live file and fills it, unless it was renamed away meanwhile.
Cut(c) ==
    /\ proc[c].pc = "cut"
    /\ live' = [live EXCEPT ![Head(proc[c].todo)] = [data |-> {}, is |-> "cut"]]
    /\ InPlace(Head(proc[c].todo))
    /\ proc' = [proc EXCEPT ![c].pc = "fill"]
    /\ UNCHANGED <<quarantine, server, suspect, archive, ops, history>>

Fill(c) ==
    /\ proc[c].pc = "fill"
    /\ LET f == Head(proc[c].todo)
       IN  IF live[f].is = "cut"
           THEN /\ live' = [live EXCEPT ![f] =
                               [data |-> proc[c].mem[f],
                                is |-> IF f \in proc[c].bad THEN "garbled" ELSE "whole"]]
                /\ InPlace(f)
           ELSE UNCHANGED <<disk, interrupted>>
    /\ IF Len(proc[c].todo) = 1
       THEN Succeed(c)
       ELSE /\ proc' = [proc EXCEPT ![c].pc = "cut", ![c].todo = Tail(@)]
            /\ UNCHANGED <<server, history>>
    /\ UNCHANGED <<quarantine, suspect, archive, ops>>
-----------------------------------------------------------------------------
Next ==
    \/ \E c \in Cli :
           \/ CreateRelated(c) \/ LoadEdges(c) \/ CreateHdd(c) \/ EditItem(c)
           \/ Migrate(c) \/ Restore(c) \/ Cut(c) \/ Fill(c)
    \/ \E p \in Writer : RunStep(p) \/ Open(p) \/ Rename(p) \/ Killed(p)
    \/ ServerCommit \/ StartServer \/ StopServer
    \/ StartBackup \/ Copy \/ EndBackup \/ BackupDies

Spec == Init /\ [][Next]_vars
-----------------------------------------------------------------------------
TypeOK ==
    /\ \A f \in File : live[f].data \subseteq Fact /\ live[f].is \in Content
    /\ \A f \in File : tmp[f] # Absent => tmp[f].by \subseteq Writer
    /\ \A p \in Writer : (proc[p].pc = "idle") = (proc[p].todo = <<>>)
    /\ server # Absent => \A f \in File : server[f] \subseteq Fact
    /\ quarantine \subseteq SUBSET Fact
    /\ suspect \subseteq File
    /\ \A f \in File : interrupted[f] # Absent => interrupted[f] \subseteq Fact
    /\ DOMAIN snapshots \subseteq 1..stamp

\* What a command that ran alone reported done stays in the files, whatever runs
\* at once, is killed or is restored later: until a migration or a restore
\* replaces the board, and then what the snapshot held through its copies is back.
\* (A file two overlapping saves garbled is readable by nobody.)
AloneKept ==
    \A f \in File :
        Loads(f) /\ (\A c \in Cli : proc[c].pc \notin {"cut", "fill"})
            => kept[f] \subseteq live[f].data

\* No two commands that each ran alone gave out the same item id or run number.
NumbersUnique == \A m, n \in fresh : m.file = n.file /\ m.id = n.id => m.op = n.op

\* `latest` links to a snapshot that is there.
LatestKept == latest # Absent => latest \in DOMAIN snapshots

\* What a kill cut short is not lost: it lies in a .tmp that the next start will
\* recognise, or a start has set it aside and reported the file.  Until the next
\* save of that file takes its .tmp, or a restore writes over the live file.
InterruptionReported ==
    \A f \in File : interrupted[f] # Absent =>
        \/ /\ tmp[f] # Absent /\ tmp[f].by = {} /\ tmp[f].newer
           /\ tmp[f].data = interrupted[f]
        \/ /\ f \in suspect
           /\ interrupted[f] \in quarantine \cup {{}}

\* The files and the copies of them are what restore and list take them for.
CopiesSound == TypeOK /\ LatestKept
=============================================================================
