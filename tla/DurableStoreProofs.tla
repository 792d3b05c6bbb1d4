------------------------- MODULE DurableStoreProofs -------------------------
(***************************************************************************)
(* Theorems about DurableStore, for every set of writes, every assignment  *)
(* of kinds and (where nothing else is said) every set of faults; and,     *)
(* where the lines of the log stay whole, that the store implements        *)
(* CommitContract.                                                         *)
(***************************************************************************)
EXTENDS DurableStore, SequenceTheorems, TLAPS

\* The phases in which a write is under way.
Committing == {"append", "newline", "save", "truncate", "publish", "reply"}

\* The part of the type invariant that concerns the log and its rollback point.
LogShape ==
    /\ rollback.len <= Len(log)
    /\ \A i, j \in 1..Len(log) : i <= j => log[i].seq <= log[j].seq
    /\ pc \in Running => \A i \in 1..Len(log) : log[i].seq <= committed_seq + 1

\* Exactly the phases of a commit have a write under way, still unanswered.
OneCommit ==
    /\ pc \in Committing <=> cur \in Write
    /\ \A w \in Write : outcome[w] = "pending" <=> w = cur
    /\ pc \in {"save", "flush"} => at \in 1..4
    /\ pc = "loading" => at >= 1

TypeInv == TypeOK /\ LogShape /\ OneCommit

-----------------------------------------------------------------------------
(* The helper operators *)

\* A write touches some of the four tables, its primary one among them.
LEMMA TouchesTables ==
    ASSUME NEW w \in Write
    PROVE  Touches(w) \subseteq Table /\ Primary(w) \in Touches(w)
BY StoreAssumption DEF Kind, Touches, Primary, Table, Affects

\* A handler keeps the shape of the tables, fills every table its write
\* touches, empties no cell, and leaves the rows of other writes alone.
LEMMA ApplyWriteEffect ==
    ASSUME NEW m \in Tables, NEW w \in Write
    PROVE  /\ ApplyWrite(m, w) \in Tables
           /\ Holds(ApplyWrite(m, w), w)
           /\ \A t \in Table, v \in Write : m[t][v] > 0 => ApplyWrite(m, w)[t][v] > 0
           /\ \A t \in Table, v \in Write : v # w => ApplyWrite(m, w)[t][v] = m[t][v]
<1>1. \A n \in RowCount : OneMore(n) \in RowCount /\ OneMore(n) > 0
  BY DEF OneMore, RowCount
<1>2. \A t \in Table : m[t] \in [Write -> RowCount]
  BY DEF Tables
<1>3. \A t \in Table : ApplyWrite(m, w)[t] \in [Write -> RowCount]
  BY <1>1, <1>2 DEF ApplyWrite, RowCount
<1>4. ApplyWrite(m, w) \in Tables
  BY <1>3 DEF Tables, ApplyWrite
<1>5. \A t \in Touches(w) : ApplyWrite(m, w)[t][w] > 0
  BY <1>1, <1>2, TouchesTables DEF ApplyWrite
<1>6. \A t \in Table, v \in Write : v # w => ApplyWrite(m, w)[t][v] = m[t][v]
  BY <1>2 DEF ApplyWrite
<1>7. \A t \in Table : m[t][w] > 0 => ApplyWrite(m, w)[t][w] > 0
  BY <1>1, <1>2 DEF ApplyWrite
<1> QED  BY <1>4, <1>5, <1>6, <1>7 DEF Holds

\* Replay only adds rows, and only of the replayed write.
LEMMA ReplayIntoEffect ==
    ASSUME NEW m \in Tables, NEW w \in Write
    PROVE  /\ ReplayInto(m, w) \in Tables
           /\ \A t \in Table, v \in Write : m[t][v] > 0 => ReplayInto(m, w)[t][v] > 0
           /\ \A t \in Table, v \in Write : v # w => ReplayInto(m, w)[t][v] = m[t][v]
BY ApplyWriteEffect DEF ReplayInto

\* On a log whose seqs never decrease the scan finds the last one.
LEMMA HighWaterOfSorted ==
    ASSUME TypeOK, LogShape
    PROVE  HighWater \in Nat /\ \A i \in 1..Len(log) : log[i].seq <= HighWater
<1> DEFINE S == {0} \cup {log[i].seq : i \in 1..Len(log)}
<1>1. Len(log) \in Nat /\ \A i \in 1..Len(log) : log[i] \in Record
  BY DEF TypeOK
<1>2. S \subseteq Nat
  BY <1>1 DEF Record
<1>3. \E n \in S : \A i \in 1..Len(log) : log[i].seq <= n
  <2>1. CASE Len(log) = 0  BY <2>1, <1>1
  <2>2. CASE Len(log) > 0
    <3>1. Len(log) \in 1..Len(log)  BY <2>2, <1>1
    <3>2. \A i \in 1..Len(log) : log[i].seq <= log[Len(log)].seq
      BY <3>1, <1>1 DEF LogShape
    <3> QED  BY <3>1, <3>2
  <2> QED  BY <2>1, <2>2, <1>1
<1> QED  BY <1>2, <1>3 DEF HighWater

-----------------------------------------------------------------------------
(* Type correctness.  The rollback needs LogShape (it cuts the log to a length *)
(* it has), the load needs it too (the scan finds a largest seq).              *)

LEMMA TypeInit == Init => TypeInv
BY StoreAssumption
   DEF Init, TypeInv, TypeOK, LogShape, OneCommit, Tables, NoRows, RowCount, LineEnd,
       Phase, Running, Committing, NoRollback, NoSnapshot, Outcome

\* What a process that is gone leaves in its variables.
LEMMA VanishShape ==
    ASSUME NEW p \in {"down", "dead"}, Vanish(p)
    PROVE  /\ pc' = p /\ cur' = NoWrite /\ at' = 0 /\ rollback' = NoRollback
           /\ NoRollback \in [len : Nat, tail : LineEnd]
           /\ mem' \in Tables /\ mem' = NoRows /\ committed_seq' = 0
           /\ health' = "healthy"
           /\ snapshot' \in [seq : Nat, tables : Tables] /\ snapshot' = NoSnapshot
BY DEF Vanish, NoRollback, LineEnd, NoRows, Tables, RowCount, NoSnapshot

\* Saving one table out of well-typed memory keeps the files well-typed.
LEMMA SaveOne ==
    ASSUME TypeOK, at \in 1..4
    PROVE  [parquet EXCEPT ![SaveOrder[at]] = mem[SaveOrder[at]]] \in Tables
BY DEF TypeOK, SaveOrder, Tables, Table

\* A record appended with a seq no smaller than any before it.
LEMMA AppendShape ==
    ASSUME TypeOK, LogShape, OneCommit, pc = "append",
           log' = Append(log, [seq |-> committed_seq + 1, write |-> cur])
    PROVE  /\ log' \in Seq(Record) /\ Len(log') = Len(log) + 1
           /\ \A i \in 1..Len(log) : log'[i] = log[i]
           /\ log'[Len(log) + 1] = [seq |-> committed_seq + 1, write |-> cur]
           /\ \A i \in 1..Len(log') : \/ i \in 1..Len(log) /\ log'[i] = log[i]
                                     \/ log'[i].write = cur
<1>1. cur \in Write  BY DEF OneCommit, Committing
<1>2. [seq |-> committed_seq + 1, write |-> cur] \in Record
  BY <1>1 DEF TypeOK, Record
<1>3. log \in Seq(Record)  BY DEF TypeOK
<1> QED  BY <1>2, <1>3

\* The rollback cuts the log at a length it has.
LEMMA CutShape ==
    ASSUME TypeOK, LogShape, log' = SubSeq(log, 1, rollback.len)
    PROVE  /\ log' \in Seq(Record) /\ Len(log') = rollback.len
           /\ \A i \in 1..Len(log') : i \in 1..Len(log) /\ log'[i] = log[i]
<1>1. log \in Seq(Record) /\ rollback.len \in Nat /\ Len(log) \in Nat
  BY DEF TypeOK
<1>2. rollback.len <= Len(log)  BY DEF LogShape
<1>3. \A i \in 1..rollback.len : i \in 1..Len(log)  BY <1>1, <1>2
<1> QED  BY <1>1, <1>2, <1>3, SubSeqProperties

\* Every step keeps the types, the shape of the log and the one commit.
LEMMA TypeStep == TypeInv /\ [Next]_vars => TypeInv'
<1> SUFFICES ASSUME TypeOK, LogShape, OneCommit, [Next]_vars  PROVE TypeInv'
  BY DEF TypeInv
<1> USE StoreAssumption
<1>1. Len(log) \in Nat /\ \A i \in 1..Len(log) : log[i] \in Record
  BY DEF TypeOK
<1>2. CASE Load
  <2>1. HighWater \in Nat /\ \A i \in 1..Len(log) : log[i].seq <= HighWater
    BY HighWaterOfSorted
  <2>2. TypeOK'  BY <1>2, <2>1 DEF Load, TypeOK, disk, Phase
  <2>3. LogShape'  BY <1>1, <1>2, <2>1 DEF Load, LogShape, disk, Record
  <2>4. OneCommit'  BY <1>2 DEF Load, OneCommit, Committing
  <2> QED  BY <2>2, <2>3, <2>4 DEF TypeInv
<1>3. CASE RefuseToLoad
  <2>0. Vanish("dead") /\ pc = "down" /\ UNCHANGED <<disk, outcome>>
    BY <1>3 DEF RefuseToLoad
  <2>1. TypeOK'  BY <2>0, VanishShape DEF TypeOK, disk, Phase
  <2>2. LogShape'  BY <1>1, <2>0, VanishShape DEF LogShape, disk, Running, NoRollback
  <2>3. OneCommit'  BY <2>0, VanishShape DEF OneCommit, Committing
  <2> QED  BY <2>1, <2>2, <2>3 DEF TypeInv
<1>4. CASE ReplayEvent
  <2>0. at \in 1..Len(log)  BY <1>1, <1>4 DEF ReplayEvent, OneCommit, TypeOK
  <2>1. log[at].write \in Write /\ log[at].seq \in Nat  BY <1>1, <2>0 DEF Record
  <2>2. mem' \in Tables  BY <1>4, <2>1, ReplayIntoEffect DEF ReplayEvent, TypeOK
  <2>3. TypeOK'  BY <1>4, <2>2 DEF ReplayEvent, TypeOK, disk
  <2>4. LogShape'  BY <1>4 DEF ReplayEvent, LogShape, disk
  <2>5. OneCommit'  BY <1>4, <2>0 DEF ReplayEvent, OneCommit, Committing
  <2> QED  BY <2>3, <2>4, <2>5 DEF TypeInv
<1>5. CASE FinishLoad
  <2>1. TypeOK'  BY <1>5 DEF FinishLoad, TypeOK, disk, Phase
  <2>2. LogShape'  BY <1>5 DEF FinishLoad, LogShape, disk, Running, Phase
  <2>3. OneCommit'  BY <1>5 DEF FinishLoad, OneCommit, Committing
  <2> QED  BY <2>1, <2>2, <2>3 DEF TypeInv
<1>6. CASE Crash
  <2>0. Vanish("down") /\ UNCHANGED disk
    BY <1>6 DEF Crash
  <2>1. outcome' \in [Write -> Outcome]  BY <1>6 DEF Crash, TypeOK, Outcome
  <2>2. TypeOK'  BY <2>0, <2>1, VanishShape DEF TypeOK, disk, Phase
  <2>3. LogShape'  BY <1>1, <2>0, VanishShape DEF LogShape, disk, Running, NoRollback
  <2>4. OneCommit'  BY <1>6, <2>0, VanishShape DEF Crash, OneCommit, Committing
  <2> QED  BY <2>2, <2>3, <2>4 DEF TypeInv
<1>7. CASE CrashMidRecord
  <2>0. Vanish("down") /\ UNCHANGED <<log, parquet, manifest>> /\ tail' \in LineEnd
    BY <1>7 DEF CrashMidRecord, LineEnd
  <2>1. outcome' \in [Write -> Outcome]  BY <1>7 DEF CrashMidRecord, TypeOK, Outcome
  <2>2. TypeOK'  BY <2>0, <2>1, VanishShape DEF TypeOK, Phase
  <2>3. LogShape'  BY <1>1, <2>0, VanishShape DEF LogShape, Running, NoRollback
  <2>4. OneCommit'
    BY <1>7, <2>0, VanishShape DEF CrashMidRecord, OneCommit, Committing, TypeOK
  <2> QED  BY <2>2, <2>3, <2>4 DEF TypeInv
<1>8. ASSUME NEW w \in Write, Admit(w)  PROVE TypeInv'
  <2>1. mem' \in Tables  BY <1>8, ApplyWriteEffect DEF Admit, TypeOK
  <2>2. rollback' \in [len : Nat, tail : LineEnd] /\ rollback'.len = Len(log)
    BY <1>1, <1>8 DEF Admit, TypeOK
  <2>3. outcome' \in [Write -> Outcome]  BY <1>8 DEF Admit, TypeOK, Outcome
  <2>4. TypeOK'  BY <1>8, <2>1, <2>2, <2>3 DEF Admit, TypeOK, disk, Phase
  <2>5. LogShape'  BY <1>8, <1>1, <2>2 DEF Admit, LogShape, disk, Running, Phase
  <2>6. OneCommit'  BY <1>8 DEF Admit, OneCommit, Committing, TypeOK
  <2> QED  BY <2>4, <2>5, <2>6 DEF TypeInv
<1>9. ASSUME NEW w \in Write, Refuse(w)  PROVE TypeInv'
  <2>1. outcome' \in [Write -> Outcome]  BY <1>9 DEF Refuse, TypeOK, Outcome
  <2>2. TypeOK'  BY <1>9, <2>1 DEF Refuse, TypeOK, disk, process
  <2>3. LogShape'  BY <1>9 DEF Refuse, LogShape, disk, process
  <2>4. OneCommit'
    BY <1>9 DEF Refuse, OneCommit, Committing, process, TypeOK
  <2> QED  BY <2>2, <2>3, <2>4 DEF TypeInv
<1>10. CASE WriteRecord
  <2>1. CASE tail = "clean"
    <3>1. log' = Append(log, [seq |-> committed_seq + 1, write |-> cur])
      BY <1>10, <2>1 DEF WriteRecord
    <3>2. TypeOK'
      BY <1>10, <2>1, <3>1, AppendShape DEF WriteRecord, TypeOK, LineEnd, Phase
    <3>3. pc \in Running /\ committed_seq \in Nat /\ committed_seq' = committed_seq
          /\ rollback' = rollback /\ rollback.len \in Nat
      BY <1>10 DEF WriteRecord, Running, Phase, TypeOK
    <3>4. Len(log') = Len(log) + 1 /\ log'[Len(log) + 1].seq = committed_seq + 1
          /\ \A i \in 1..Len(log) : log'[i] = log[i]
      BY <1>10, <3>1, AppendShape DEF WriteRecord
    <3>5. \A i \in 1..Len(log) : log[i].seq <= committed_seq + 1 /\ log[i].seq \in Nat
      BY <1>1, <3>3 DEF LogShape, Record
    <3>6. \A i \in 1..Len(log') : log'[i].seq <= committed_seq + 1
      BY <1>1, <3>3, <3>4, <3>5
    <3>7. \A i, j \in 1..Len(log') : i <= j => log'[i].seq <= log'[j].seq
      <4> SUFFICES ASSUME NEW i \in 1..Len(log'), NEW j \in 1..Len(log'), i <= j
                   PROVE  log'[i].seq <= log'[j].seq
        OBVIOUS
      <4>1. CASE j = Len(log) + 1  BY <4>1, <3>4, <3>6
      <4>2. CASE j # Len(log) + 1
        <5>1. i \in 1..Len(log) /\ j \in 1..Len(log)  BY <1>1, <3>4, <4>2
        <5> QED  BY <5>1, <3>4 DEF LogShape
      <4> QED  BY <4>1, <4>2
    <3>8. LogShape'  BY <1>1, <3>3, <3>4, <3>6, <3>7 DEF LogShape
    <3>9. OneCommit'  BY <1>10 DEF WriteRecord, OneCommit, Committing
    <3> QED  BY <3>2, <3>8, <3>9 DEF TypeInv
  <2>2. CASE tail # "clean"
    <3>1. TypeOK'  BY <1>10, <2>2 DEF WriteRecord, TypeOK, LineEnd, Phase
    <3>2. LogShape'  BY <1>10, <2>2 DEF WriteRecord, LogShape, Running, Phase
    <3>3. OneCommit'  BY <1>10 DEF WriteRecord, OneCommit, Committing
    <3> QED  BY <3>1, <3>2, <3>3 DEF TypeInv
  <2> QED  BY <2>1, <2>2
<1>11. CASE SyncLog
  <2>1. TypeOK'  BY <1>11 DEF SyncLog, EndLine, TypeOK, LineEnd, Phase
  <2>2. LogShape'  BY <1>11 DEF SyncLog, LogShape, Running, Phase
  <2>3. OneCommit'  BY <1>11 DEF SyncLog, OneCommit, Committing
  <2> QED  BY <2>1, <2>2, <2>3 DEF TypeInv
<1>12. CASE AppendFails
  <2>1. tail' \in LineEnd  BY <1>12 DEF AppendFails, EndLine, TypeOK, LineEnd
  <2>2. TypeOK'  BY <1>12, <2>1 DEF AppendFails, TypeOK, Phase
  <2>3. LogShape'  BY <1>12 DEF AppendFails, LogShape, Running, Phase
  <2>4. OneCommit'  BY <1>12 DEF AppendFails, OneCommit, Committing
  <2> QED  BY <2>2, <2>3, <2>4 DEF TypeInv
<1>13. CASE SaveTable
  <2>0. at \in 1..4  BY <1>13 DEF SaveTable, OneCommit
  <2>1. parquet' \in Tables  BY <1>13, <2>0, SaveOne DEF SaveTable
  <2>2. TypeOK'  BY <1>13, <2>1 DEF SaveTable, TypeOK, Phase
  <2>3. LogShape'  BY <1>13 DEF SaveTable, LogShape, Running, Phase
  <2>4. OneCommit'  BY <1>13, <2>0 DEF SaveTable, OneCommit, Committing, SaveOrder
  <2> QED  BY <2>2, <2>3, <2>4 DEF TypeInv
<1>14. CASE SaveFails
  <2>1. TypeOK'  BY <1>14 DEF SaveFails, TypeOK, disk, Phase
  <2>2. LogShape'  BY <1>14 DEF SaveFails, LogShape, disk, Running, Phase
  <2>3. OneCommit'  BY <1>14 DEF SaveFails, OneCommit, Committing
  <2> QED  BY <2>1, <2>2, <2>3 DEF TypeInv
<1>15. CASE RollBack
  <2>0. NoRollback \in [len : Nat, tail : LineEnd] /\ NoRollback.len = 0
    BY DEF NoRollback, LineEnd
  <2>1. /\ pc = "truncate" /\ pc' = "idle" /\ cur' = NoWrite /\ at' = 0
        /\ rollback' = NoRollback /\ health' = "degraded"
        /\ outcome' = [outcome EXCEPT ![cur] = "lost"]
        /\ UNCHANGED <<parquet, manifest, mem, committed_seq, snapshot>>
    BY <1>15 DEF RollBack
  <2>2. /\ log' \in Seq(Record) /\ tail' \in LineEnd
        /\ \A i \in 1..Len(log') : i \in 1..Len(log) /\ log'[i] = log[i]
    <3>1. CASE log' = SubSeq(log, 1, rollback.len) /\ tail' = rollback.tail
      BY <3>1, CutShape DEF TypeOK
    <3>2. CASE UNCHANGED <<log, tail>>
      BY <3>2 DEF TypeOK
    <3> QED  BY <1>15, <3>1, <3>2 DEF RollBack
  <2>3. outcome' \in [Write -> Outcome]  BY <2>1 DEF TypeOK, Outcome
  <2>4. TypeOK'  BY <2>0, <2>1, <2>2, <2>3 DEF TypeOK, Phase
  <2>5. Len(log') \in Nat  BY <2>2
  <2>6. LogShape'  BY <2>0, <2>1, <2>2, <2>5 DEF LogShape, Running, Phase
  <2>7. OneCommit'  BY <2>1 DEF OneCommit, Committing, TypeOK
  <2> QED  BY <2>4, <2>6, <2>7 DEF TypeInv
<1>16. CASE Publish
  <2>1. TypeOK'  BY <1>16 DEF Publish, TypeOK, Phase
  <2>2. LogShape'
    <3>1. \A i \in 1..Len(log) : log[i].seq <= committed_seq + 1 /\ log[i].seq \in Nat
      BY <1>1, <1>16 DEF Publish, LogShape, Running, Phase, Record
    <3> QED  BY <1>16, <3>1 DEF Publish, LogShape, TypeOK
  <2>3. OneCommit'  BY <1>16 DEF Publish, OneCommit, Committing
  <2> QED  BY <2>1, <2>2, <2>3 DEF TypeInv
<1>17. CASE Reply
  <2>0. NoRollback \in [len : Nat, tail : LineEnd] /\ NoRollback.len = 0
    BY DEF NoRollback, LineEnd
  <2>1. outcome' \in [Write -> Outcome]  BY <1>17 DEF Reply, TypeOK, Outcome
  <2>2. TypeOK'  BY <1>17, <2>0, <2>1 DEF Reply, TypeOK, disk, Phase
  <2>3. LogShape'  BY <1>1, <1>17, <2>0 DEF Reply, LogShape, disk, Running, Phase
  <2>4. OneCommit'  BY <1>17 DEF Reply, OneCommit, Committing, TypeOK
  <2> QED  BY <2>2, <2>3, <2>4 DEF TypeInv
<1>18. CASE Shutdown
  <2>1. TypeOK'  BY <1>18 DEF Shutdown, TypeOK, disk, Phase
  <2>2. LogShape'  BY <1>18 DEF Shutdown, LogShape, disk, Running, Phase
  <2>3. OneCommit'  BY <1>18 DEF Shutdown, OneCommit, Committing
  <2> QED  BY <2>1, <2>2, <2>3 DEF TypeInv
<1>19. CASE FlushTable
  <2>0. at \in 1..4  BY <1>19 DEF FlushTable, OneCommit
  <2>1. parquet' \in Tables  BY <1>19, <2>0, SaveOne DEF FlushTable
  <2>2. CASE Vanish("down")
    <3>1. TypeOK'  BY <1>19, <2>1, <2>2, VanishShape DEF FlushTable, TypeOK, Phase
    <3>2. LogShape'
      BY <1>1, <1>19, <2>2, VanishShape DEF FlushTable, LogShape, Running, NoRollback
    <3>3. OneCommit'
      BY <1>19, <2>2, VanishShape DEF FlushTable, OneCommit, Committing
    <3> QED  BY <3>1, <3>2, <3>3 DEF TypeInv
  <2>3. CASE /\ at # 4 /\ at' = at + 1
             /\ UNCHANGED <<pc, cur, rollback, mem, committed_seq, health, snapshot>>
    <3>1. TypeOK'  BY <1>19, <2>1, <2>3 DEF FlushTable, TypeOK
    <3>2. LogShape'  BY <1>19, <2>3 DEF FlushTable, LogShape
    <3>3. OneCommit'  BY <1>19, <2>0, <2>3 DEF FlushTable, OneCommit, Committing
    <3> QED  BY <3>1, <3>2, <3>3 DEF TypeInv
  <2> QED  BY <1>19, <2>2, <2>3 DEF FlushTable, SaveOrder
<1>20. CASE FlushFails
  <2>1. CASE Vanish("down")
    <3>1. TypeOK'  BY <1>20, <2>1, VanishShape DEF FlushFails, TypeOK, disk, Phase
    <3>2. LogShape'
      BY <1>1, <1>20, <2>1, VanishShape DEF FlushFails, LogShape, disk, Running, NoRollback
    <3>3. OneCommit'
      BY <1>20, <2>1, VanishShape DEF FlushFails, OneCommit, Committing
    <3> QED  BY <3>1, <3>2, <3>3 DEF TypeInv
  <2>2. CASE /\ at' = 4
             /\ UNCHANGED <<pc, cur, rollback, mem, committed_seq, health, snapshot>>
    <3>1. TypeOK'  BY <1>20, <2>2 DEF FlushFails, TypeOK, disk
    <3>2. LogShape'  BY <1>20, <2>2 DEF FlushFails, LogShape, disk
    <3>3. OneCommit'  BY <1>20, <2>2 DEF FlushFails, OneCommit, Committing
    <3> QED  BY <3>1, <3>2, <3>3 DEF TypeInv
  <2> QED  BY <1>20, <2>1, <2>2 DEF FlushFails, SaveOrder
<1>21. CASE UNCHANGED vars
  BY <1>21 DEF vars, disk, process, TypeInv, TypeOK, LogShape, OneCommit
<1> QED
  BY <1>2, <1>3, <1>4, <1>5, <1>6, <1>7, <1>8, <1>9, <1>10, <1>11, <1>12, <1>13, <1>14,
     <1>15, <1>16, <1>17, <1>18, <1>19, <1>20, <1>21 DEF Next

\* Type correctness: whatever fails and wherever the process dies, every
\* variable keeps its shape; in particular the rollback point is a length the
\* log has and the seqs on disk never decrease.
THEOREM TypeCorrect == Spec => [](TypeOK /\ LogShape /\ OneCommit)
<1>1. Init => TypeInv  BY TypeInit
<1>2. TypeInv /\ [Next]_vars => TypeInv'  BY TypeStep
<1>3. Spec => []TypeInv  BY <1>1, <1>2, PTL DEF Spec
<1> QED  BY <1>3, PTL DEF TypeInv

-----------------------------------------------------------------------------
(* An acknowledged write is whole and readable.  AckedWhole alone is not       *)
(* inductive: the acknowledgement is given at the end of the save, so the save *)
(* must be known to have written, table by table, what the handler put in      *)
(* memory (SaveProgress), and memory must not lose it meanwhile.               *)

SaveProgress ==
    /\ pc \in Committing => Holds(mem, cur)
    /\ pc = "save" =>
         \A j \in 1..(at - 1) : SaveOrder[j] \in Touches(cur) =>
            parquet[SaveOrder[j]][cur] > 0
    /\ pc \in {"publish", "reply"} => Holds(parquet, cur)

WholeInv == AckedWhole /\ AckReadable /\ SaveProgress

\* Renaming a newer table into place keeps a write whole that memory holds.
LEMMA SaveKeepsWhole ==
    ASSUME TypeOK, at \in 1..4, NEW w \in Write, Holds(mem, w), Holds(parquet, w)
    PROVE  Holds([parquet EXCEPT ![SaveOrder[at]] = mem[SaveOrder[at]]], w)
BY TouchesTables DEF TypeOK, Holds, Tables, Table, SaveOrder

\* A step that leaves the tables, the memory and the snapshot alone, gives no
\* acknowledgement and enters no later phase of a save keeps WholeInv.
LEMMA QuietStep ==
    ASSUME WholeInv, UNCHANGED <<parquet, mem, snapshot>>,
           \A w \in Write : outcome'[w] = "acked" => outcome[w] = "acked",
           pc \in Running,
           pc' \in Serving => pc \in Serving,
           pc' \in Committing => pc \in Committing /\ cur' = cur,
           pc' = "save" => at' = 1,
           pc' \in {"publish", "reply"} => pc = "publish"
    PROVE  WholeInv'
<1>1. AckedWhole'  BY DEF WholeInv, AckedWhole, Holds
<1>2. AckReadable'  BY DEF WholeInv, AckReadable, Holds
<1>3. SaveProgress'  BY DEF WholeInv, SaveProgress, Holds, Committing
<1> QED  BY <1>1, <1>2, <1>3 DEF WholeInv

\* A step after which no process runs keeps WholeInv if no table row goes away.
LEMMA GoneStep ==
    ASSUME WholeInv, pc' \in {"down", "dead"},
           \A w \in Write : outcome'[w] = "acked" => outcome[w] = "acked",
           \A w \in Write : outcome[w] = "acked" => Holds(parquet', w)
    PROVE  WholeInv'
<1>1. pc' \notin Running /\ pc' \notin Serving /\ pc' \notin Committing
      /\ pc' \notin {"save", "publish", "reply"}
  BY DEF Running, Serving, Committing
<1>2. AckedWhole'  BY <1>1 DEF AckedWhole, Holds
<1>3. AckReadable' /\ SaveProgress'  BY <1>1 DEF AckReadable, SaveProgress
<1> QED  BY <1>2, <1>3 DEF WholeInv

\* Every step keeps an acknowledged write whole.
LEMMA WholeStep == TypeInv /\ WholeInv /\ [Next]_vars => WholeInv'
<1> SUFFICES ASSUME TypeOK, LogShape, OneCommit, WholeInv, [Next]_vars  PROVE WholeInv'
  BY DEF TypeInv
<1> USE StoreAssumption
<1>1. AckedWhole /\ AckReadable /\ SaveProgress  BY DEF WholeInv
<1>2. CASE Load
  <2>1. AckedWhole'  BY <1>1, <1>2 DEF Load, AckedWhole, Holds, disk
  <2>2. AckReadable' /\ SaveProgress'
    BY <1>2 DEF Load, AckReadable, SaveProgress, Serving, Committing
  <2> QED  BY <2>1, <2>2 DEF WholeInv
<1>3. CASE RefuseToLoad
  BY <1>1, <1>3, GoneStep, VanishShape DEF RefuseToLoad, disk, AckedWhole
<1>4. CASE ReplayEvent
  <2>0. at \in 1..Len(log) /\ pc \in Running
    BY <1>4 DEF ReplayEvent, OneCommit, TypeOK, Running, Phase
  <2>1. log[at] \in Record /\ log[at].write \in Write
    <3>1. log \in Seq(Record)  BY DEF TypeOK
    <3>2. log[at] \in Record  BY <2>0, <3>1
    <3> QED  BY <3>2 DEF Record
  <2>2. \A t \in Table, v \in Write : mem[t][v] > 0 => mem'[t][v] > 0
    BY <1>4, <2>1, ReplayIntoEffect DEF ReplayEvent, TypeOK
  <2>3. AckedWhole'
    BY <1>1, <1>4, <2>0, <2>2, TouchesTables DEF ReplayEvent, AckedWhole, Holds, disk
  <2>4. AckReadable' /\ SaveProgress'
    BY <1>4 DEF ReplayEvent, AckReadable, SaveProgress, Serving, Committing
  <2> QED  BY <2>3, <2>4 DEF WholeInv
<1>5. CASE FinishLoad
  <2>0. pc \in Running  BY <1>5 DEF FinishLoad, Running, Phase
  <2>1. AckedWhole'  BY <1>1, <1>5, <2>0 DEF FinishLoad, AckedWhole, Holds, disk
  <2>2. AckReadable'  BY <1>1, <1>5, <2>0 DEF FinishLoad, AckReadable, AckedWhole, Holds
  <2>3. SaveProgress'  BY <1>5 DEF FinishLoad, SaveProgress, Committing
  <2> QED  BY <2>1, <2>2, <2>3 DEF WholeInv
<1>6. CASE Crash
  BY <1>1, <1>6, GoneStep, VanishShape DEF Crash, disk, AckedWhole, TypeOK
<1>7. CASE CrashMidRecord
  <2>1. \A w \in Write : outcome'[w] = "acked" => outcome[w] = "acked"
    BY <1>7 DEF CrashMidRecord, TypeOK
  <2> QED  BY <1>1, <1>7, <2>1, GoneStep, VanishShape DEF CrashMidRecord, AckedWhole
<1>8. ASSUME NEW w \in Write, Admit(w)  PROVE WholeInv'
  <2>0. pc \in Running /\ pc \in Serving  BY <1>8 DEF Admit, Running, Serving, Phase
  <2>1. Holds(mem', w) /\ \A t \in Table, v \in Write : mem[t][v] > 0 => mem'[t][v] > 0
    BY <1>8, ApplyWriteEffect DEF Admit, TypeOK
  <2>2. \A v \in Write : outcome'[v] = "acked" => outcome[v] = "acked"
    BY <1>8 DEF Admit, TypeOK
  <2>3. AckedWhole'
    BY <1>1, <1>8, <2>0, <2>1, <2>2, TouchesTables DEF Admit, AckedWhole, Holds, disk
  <2>4. AckReadable'  BY <1>1, <1>8, <2>0, <2>2 DEF Admit, AckReadable, Holds
  <2>5. SaveProgress'  BY <1>8, <2>1 DEF Admit, SaveProgress
  <2> QED  BY <2>3, <2>4, <2>5 DEF WholeInv
<1>9. ASSUME NEW w \in Write, Refuse(w)  PROVE WholeInv'
  <2>1. \A v \in Write : outcome'[v] = "acked" => outcome[v] = "acked"
    BY <1>9 DEF Refuse, TypeOK
  <2> QED
    BY <1>9, <2>1, QuietStep
       DEF Refuse, disk, process, Running, Phase, Committing
<1>10. CASE WriteRecord
  BY <1>10, QuietStep DEF WriteRecord, Running, Serving, Phase, Committing
<1>11. CASE SyncLog
  BY <1>11, QuietStep DEF SyncLog, Running, Serving, Phase, Committing
<1>12. CASE AppendFails
  BY <1>12, QuietStep DEF AppendFails, Running, Serving, Phase, Committing
<1>13. CASE SaveTable
  <2>0. at \in 1..4 /\ cur \in Write /\ pc \in Running /\ pc \in Serving
        /\ Holds(mem, cur)
    BY <1>1, <1>13
       DEF SaveTable, OneCommit, Committing, Running, Serving, Phase, SaveProgress
  <2>1. parquet' = [parquet EXCEPT ![SaveOrder[at]] = mem[SaveOrder[at]]]
        /\ at' = at + 1 /\ cur' = cur /\ mem' = mem
        /\ pc' = IF at = 4 THEN "publish" ELSE "save"
    BY <1>13 DEF SaveTable, SaveOrder
  <2>2. \A w \in Write : outcome[w] = "acked" => Holds(parquet', w)
    BY <1>1, <2>0, <2>1, SaveKeepsWhole DEF AckedWhole
  <2>3. AckedWhole'  BY <1>1, <1>13, <2>0, <2>2 DEF SaveTable, AckedWhole, Holds
  <2>4. AckReadable'  BY <1>1, <1>13, <2>0 DEF SaveTable, AckReadable, Holds
  <2>5. \A j \in 1..at : SaveOrder[j] \in Touches(cur) => parquet'[SaveOrder[j]][cur] > 0
    <3>1. parquet \in Tables /\ mem \in Tables  BY DEF TypeOK
    <3>2. \A j \in 1..(at - 1) :
             SaveOrder[j] # SaveOrder[at] /\ SaveOrder[j] \in Table
      BY <2>0 DEF SaveOrder, Table
    <3>3. SaveOrder[at] \in Table  BY <2>0 DEF SaveOrder, Table
    <3>4. \A j \in 1..(at - 1) : SaveOrder[j] \in Touches(cur) =>
             parquet'[SaveOrder[j]][cur] > 0
      BY <1>1, <1>13, <2>1, <3>1, <3>2 DEF SaveTable, SaveProgress, Tables
    <3>5. SaveOrder[at] \in Touches(cur) => parquet'[SaveOrder[at]][cur] > 0
      BY <2>0, <2>1, <3>1, <3>3 DEF Holds, Tables
    <3> QED  BY <2>0, <3>4, <3>5
  <2>6. at = 4 => Holds(parquet', cur)
    <3>1. \A t \in Touches(cur) : \E j \in 1..4 : t = SaveOrder[j]
      BY <2>0, TouchesTables DEF SaveOrder, Table
    <3> QED  BY <2>5, <3>1 DEF Holds
  <2>7. SaveProgress'
    BY <2>0, <2>1, <2>5, <2>6 DEF SaveProgress, Holds, Committing
  <2> QED  BY <2>3, <2>4, <2>7 DEF WholeInv
<1>14. CASE SaveFails
  BY <1>14, QuietStep DEF SaveFails, disk, Running, Serving, Phase, Committing
<1>15. CASE RollBack
  <2>1. \A v \in Write : outcome'[v] = "acked" => outcome[v] = "acked"
    BY <1>15 DEF RollBack, TypeOK
  <2> QED
    BY <1>15, <2>1, QuietStep DEF RollBack, Running, Serving, Phase, Committing
<1>16. CASE Publish
  BY <1>16, QuietStep DEF Publish, Running, Serving, Phase, Committing
<1>17. CASE Reply
  <2>0. cur \in Write /\ pc \in Running /\ Holds(mem, cur) /\ Holds(parquet, cur)
    BY <1>1, <1>17 DEF Reply, OneCommit, Committing, Running, Phase, SaveProgress
  <2>1. \A w \in Write : outcome'[w] = "acked" => w = cur \/ outcome[w] = "acked"
    BY <1>17 DEF Reply, TypeOK
  <2>2. \A w \in Write : outcome'[w] = "acked" => Holds(mem, w) /\ Holds(parquet, w)
    BY <1>1, <2>0, <2>1 DEF AckedWhole
  <2>3. AckedWhole'  BY <1>17, <2>2 DEF Reply, AckedWhole, Holds, disk
  <2>4. AckReadable'  BY <1>17, <2>2 DEF Reply, AckReadable, Holds
  <2>5. SaveProgress'  BY <1>17 DEF Reply, SaveProgress, Committing
  <2> QED  BY <2>3, <2>4, <2>5 DEF WholeInv
<1>18. CASE Shutdown
  BY <1>18, QuietStep DEF Shutdown, disk, Running, Serving, Phase, Committing
<1>19. CASE FlushTable
  <2>0. at \in 1..4 /\ pc \in Running /\ pc \in Serving
    BY <1>19 DEF FlushTable, OneCommit, Running, Serving, Phase
  <2>1. \A w \in Write : outcome[w] = "acked" => Holds(parquet', w)
    BY <1>1, <1>19, <2>0, SaveKeepsWhole DEF FlushTable, AckedWhole
  <2>2. CASE Vanish("down")
    BY <1>19, <2>1, <2>2, GoneStep, VanishShape DEF FlushTable
  <2>3. CASE UNCHANGED <<pc, cur, rollback, mem, committed_seq, health, snapshot>>
    <3>1. AckedWhole'  BY <1>1, <1>19, <2>0, <2>1, <2>3 DEF FlushTable, AckedWhole, Holds
    <3>2. AckReadable'  BY <1>1, <1>19, <2>0, <2>3 DEF FlushTable, AckReadable, Holds
    <3>3. SaveProgress'  BY <1>19, <2>3 DEF FlushTable, SaveProgress, Committing
    <3> QED  BY <3>1, <3>2, <3>3 DEF WholeInv
  <2> QED  BY <1>19, <2>2, <2>3 DEF FlushTable
<1>20. CASE FlushFails
  <2>1. CASE Vanish("down")
    BY <1>1, <1>20, <2>1, GoneStep, VanishShape DEF FlushFails, disk, AckedWhole
  <2>2. CASE UNCHANGED <<pc, cur, rollback, mem, committed_seq, health, snapshot>>
    BY <1>20, <2>2, QuietStep DEF FlushFails, disk, Running, Serving, Phase, Committing
  <2> QED  BY <1>20, <2>1, <2>2 DEF FlushFails
<1>21. CASE UNCHANGED vars
  BY <1>21 DEF vars, disk, process, WholeInv, AckedWhole, AckReadable, SaveProgress, Holds
<1> QED
  BY <1>2, <1>3, <1>4, <1>5, <1>6, <1>7, <1>8, <1>9, <1>10, <1>11, <1>12, <1>13, <1>14,
     <1>15, <1>16, <1>17, <1>18, <1>19, <1>20, <1>21 DEF Next

\* Nothing is acknowledged at first.
LEMMA WholeInit == Init => WholeInv
BY DEF Init, WholeInv, AckedWhole, AckReadable, SaveProgress, Running, Serving, Committing

\* The strengthened invariant holds throughout.
LEMMA WholeAlways == Spec => [](TypeInv /\ WholeInv)
<1>1. Init => TypeInv /\ WholeInv  BY TypeInit, WholeInit
<1>2. TypeInv /\ WholeInv /\ [Next]_vars => TypeInv' /\ WholeInv'
  BY TypeStep, WholeStep
<1> QED  BY <1>1, <1>2, PTL DEF Spec

\* Under every combination of the five faults and crashes anywhere, a write the
\* client was told is committed is in every table file it concerns and in a
\* running engine's memory.
THEOREM AckedIsWhole == Spec => []AckedWhole
<1>1. TypeInv /\ WholeInv => AckedWhole  BY DEF WholeInv
<1> QED  BY <1>1, WholeAlways, PTL

\* Under every combination of faults, readers are given a snapshot that shows
\* every write acknowledged before, those of earlier processes included.
THEOREM AckedIsReadable == Spec => []AckReadable
<1>1. TypeInv /\ WholeInv => AckReadable  BY DEF WholeInv
<1> QED  BY <1>1, WholeAlways, PTL

-----------------------------------------------------------------------------
(* A refused write leaves no trace.  The invariant must also cover the writes  *)
(* not yet sent: they are the ones the gate may still turn away.               *)

NoTrace(w) ==
    /\ w \notin LoggedWrites
    /\ \A t \in Table : mem[t][w] = 0 /\ parquet[t][w] = 0 /\ snapshot.tables[t][w] = 0

Unhandled(w) == outcome[w] \in {"refused", "unsent"}

TraceInv == \A w \in Write : Unhandled(w) => NoTrace(w)

\* A step that only moves rows between memory, files and snapshot, or forgets
\* them, and keeps the log or shortens it, shows no write it did not show.
LEMMA MovingRows ==
    ASSUME TypeOK, TraceInv, NEW w \in Write, Unhandled(w),
           LoggedWrites' \subseteq LoggedWrites,
           \A t \in Table : mem'[t][w] = mem[t][w] \/ mem'[t][w] = parquet[t][w]
                                                 \/ mem'[t][w] = 0,
           \A t \in Table : parquet'[t][w] = parquet[t][w] \/ parquet'[t][w] = mem[t][w],
           \A t \in Table : snapshot'.tables[t][w] = snapshot.tables[t][w]
                          \/ snapshot'.tables[t][w] = mem[t][w]
                          \/ snapshot'.tables[t][w] = 0
    PROVE  NoTrace(w)'
BY DEF TraceInv, NoTrace

\* What one table of a save does to the rows of a write.
LEMMA SaveMovesRows ==
    ASSUME TypeOK, at \in 1..4, NEW w \in Write, NEW t \in Table,
           parquet' = [parquet EXCEPT ![SaveOrder[at]] = mem[SaveOrder[at]]]
    PROVE  parquet'[t][w] = parquet[t][w] \/ parquet'[t][w] = mem[t][w]
BY DEF TypeOK, Tables, SaveOrder

\* A process that is gone holds no row.
LEMMA VanishNoRows ==
    ASSUME NEW p \in {"down", "dead"}, Vanish(p), NEW w \in Write, NEW t \in Table
    PROVE  mem'[t][w] = 0 /\ snapshot'.tables[t][w] = 0
BY DEF Vanish, NoRows, NoSnapshot

\* No step leaves a trace of a write that is not the one under way.
LEMMA TraceStep == TypeInv /\ TraceInv /\ [Next]_vars => TraceInv'
<1> SUFFICES ASSUME TypeOK, LogShape, OneCommit, TraceInv, [Next]_vars,
                    NEW w \in Write, Unhandled(w)'
             PROVE  NoTrace(w)'
  BY DEF TypeInv, TraceInv
<1> USE StoreAssumption
<1>0. UNCHANGED log => LoggedWrites' \subseteq LoggedWrites
  BY DEF LoggedWrites
<1>1. CASE Load
  BY <1>0, <1>1, MovingRows DEF Load, disk, Unhandled
<1>2. CASE RefuseToLoad
  BY <1>0, <1>2, MovingRows, VanishNoRows DEF RefuseToLoad, disk, Unhandled
<1>3. CASE ReplayEvent
  <2>1. at \in 1..Len(log)  BY <1>3 DEF ReplayEvent, OneCommit, TypeOK
  <2>2. log \in Seq(Record)  BY DEF TypeOK
  <2>3. log[at] \in Record  BY <2>1, <2>2
  <2>4. log[at].write \in Write /\ log[at].write \in LoggedWrites
    BY <2>1, <2>3 DEF Record, LoggedWrites
  <2>5. Unhandled(w) /\ w # log[at].write
    BY <1>3, <2>4 DEF ReplayEvent, Unhandled, TraceInv, NoTrace
  <2>6. \A t \in Table : mem'[t][w] = mem[t][w]
    BY <1>3, <2>4, <2>5, ReplayIntoEffect DEF ReplayEvent, TypeOK
  <2> QED  BY <1>0, <1>3, <2>5, <2>6, MovingRows DEF ReplayEvent, disk
<1>4. CASE FinishLoad
  BY <1>0, <1>4, MovingRows DEF FinishLoad, disk, Unhandled
<1>5. CASE Crash
  <2>1. Unhandled(w)  BY <1>5 DEF Crash, Unhandled, TypeOK
  <2> QED  BY <1>0, <1>5, <2>1, MovingRows, VanishNoRows DEF Crash, disk
<1>6. CASE CrashMidRecord
  <2>1. Unhandled(w)  BY <1>6 DEF CrashMidRecord, Unhandled, TypeOK
  <2> QED  BY <1>0, <1>6, <2>1, MovingRows, VanishNoRows DEF CrashMidRecord
<1>7. ASSUME NEW v \in Write, Admit(v)  PROVE NoTrace(w)'
  <2>1. Unhandled(w) /\ w # v  BY <1>7 DEF Admit, Unhandled, TypeOK
  <2>2. \A t \in Table : mem'[t][w] = mem[t][w]
    BY <1>7, <2>1, ApplyWriteEffect DEF Admit, TypeOK
  <2> QED  BY <1>0, <1>7, <2>1, <2>2, MovingRows DEF Admit, disk
<1>8. ASSUME NEW v \in Write, Refuse(v)  PROVE NoTrace(w)'
  <2>1. Unhandled(w)  BY <1>8 DEF Refuse, Unhandled, TypeOK
  <2> QED  BY <1>0, <1>8, <2>1, MovingRows DEF Refuse, disk, process
<1>9. CASE WriteRecord
  <2>1. Unhandled(w) /\ w # cur
    BY <1>9 DEF WriteRecord, Unhandled, OneCommit
  <2>2. LoggedWrites' \subseteq LoggedWrites \cup {cur}
    <3>1. CASE log' = Append(log, [seq |-> committed_seq + 1, write |-> cur])
      <4>1. \A i \in 1..Len(log') : \/ i \in 1..Len(log) /\ log'[i] = log[i]
                                    \/ log'[i].write = cur
        BY <1>9, <3>1, AppendShape DEF WriteRecord
      <4> QED  BY <4>1 DEF LoggedWrites
    <3>2. CASE UNCHANGED log  BY <3>2 DEF LoggedWrites
    <3> QED  BY <1>9, <3>1, <3>2 DEF WriteRecord
  <2>3. NoTrace(w)  BY <2>1 DEF TraceInv
  <2> QED  BY <1>9, <2>1, <2>2, <2>3 DEF WriteRecord, NoTrace
<1>10. CASE SyncLog
  BY <1>0, <1>10, MovingRows DEF SyncLog, Unhandled
<1>11. CASE AppendFails
  BY <1>0, <1>11, MovingRows DEF AppendFails, Unhandled
<1>12. CASE SaveTable
  <2>1. at \in 1..4  BY <1>12 DEF SaveTable, OneCommit
  <2> QED  BY <1>0, <1>12, <2>1, SaveMovesRows, MovingRows DEF SaveTable, Unhandled
<1>13. CASE SaveFails
  BY <1>0, <1>13, MovingRows DEF SaveFails, disk, Unhandled
<1>14. CASE RollBack
  <2>1. Unhandled(w)  BY <1>14 DEF RollBack, Unhandled, TypeOK
  <2>2. LoggedWrites' \subseteq LoggedWrites
    <3>1. CASE log' = SubSeq(log, 1, rollback.len)
      BY <3>1, CutShape DEF LoggedWrites
    <3> QED  BY <1>0, <1>14, <3>1 DEF RollBack
  <2> QED  BY <1>14, <2>1, <2>2, MovingRows DEF RollBack
<1>15. CASE Publish
  BY <1>0, <1>15, MovingRows DEF Publish, Unhandled
<1>16. CASE Reply
  <2>1. Unhandled(w)  BY <1>16 DEF Reply, Unhandled, TypeOK
  <2> QED  BY <1>0, <1>16, <2>1, MovingRows DEF Reply, disk
<1>17. CASE Shutdown
  BY <1>0, <1>17, MovingRows DEF Shutdown, disk, Unhandled
<1>18. CASE FlushTable
  <2>1. at \in 1..4 /\ Unhandled(w)  BY <1>18 DEF FlushTable, OneCommit, Unhandled
  <2>2. \A t \in Table : parquet'[t][w] = parquet[t][w] \/ parquet'[t][w] = mem[t][w]
    BY <1>18, <2>1, SaveMovesRows DEF FlushTable
  <2>3. \A t \in Table : /\ mem'[t][w] = mem[t][w] \/ mem'[t][w] = 0
                        /\ \/ snapshot'.tables[t][w] = snapshot.tables[t][w]
                           \/ snapshot'.tables[t][w] = 0
    BY <1>18, VanishNoRows DEF FlushTable
  <2> QED  BY <1>0, <1>18, <2>1, <2>2, <2>3, MovingRows DEF FlushTable
<1>19. CASE FlushFails
  <2>1. \A t \in Table : /\ mem'[t][w] = mem[t][w] \/ mem'[t][w] = 0
                        /\ \/ snapshot'.tables[t][w] = snapshot.tables[t][w]
                           \/ snapshot'.tables[t][w] = 0
    BY <1>19, VanishNoRows DEF FlushFails
  <2> QED  BY <1>0, <1>19, <2>1, MovingRows DEF FlushFails, disk, Unhandled
<1>20. CASE UNCHANGED vars
  BY <1>0, <1>20, MovingRows DEF vars, disk, process, Unhandled
<1> QED
  BY <1>1, <1>2, <1>3, <1>4, <1>5, <1>6, <1>7, <1>8, <1>9, <1>10, <1>11, <1>12, <1>13,
     <1>14, <1>15, <1>16, <1>17, <1>18, <1>19, <1>20 DEF Next

\* There is no trace of any write at first.
LEMMA TraceInit == Init => TraceInv
BY DEF Init, TraceInv, NoTrace, LoggedWrites, NoRows, NoSnapshot

\* "Your change was NOT applied" is true for ever: no later save, replay, crash
\* or rollback makes a write the health gate turned away appear anywhere.
THEOREM RefusedIsAbsent == Spec => []RefusedLeavesNoTrace
<1>1. Init => TypeInv /\ TraceInv  BY TypeInit, TraceInit
<1>2. TypeInv /\ TraceInv /\ [Next]_vars => TypeInv' /\ TraceInv'
  BY TypeStep, TraceStep
<1>3. TypeInv /\ TraceInv => RefusedLeavesNoTrace
  BY DEF TraceInv, Unhandled, NoTrace, RefusedLeavesNoTrace
<1> QED  BY <1>1, <1>2, <1>3, PTL DEF Spec

-----------------------------------------------------------------------------
(* The store where lines stay whole: no crash falls inside a line of the log *)
(* and the rollback of a failed commit is carried out.  The log agrees with  *)
(* the answers, a start repairs what was interrupted, and the store          *)
(* implements CommitContract.                                                *)

\* The faults under which the log stays decodable.  Appends, saves and the
\* manifest may still fail, and the process may die between any two calls.
LinesStayWhole == Faults \cap {"torn", "truncate"} = {}

\* The phases of a commit before its seq is published.
Undecided == Committing \ {"reply"}

\* The record of the write under way, at the end of the log.
OwnRecordLast == Len(log) = committed_seq + 1 /\ log[Len(log)].write = cur

\* Seqs count the records, and only an append or a failed append is half done.
LogInOrder ==
    /\ \A i \in 1..Len(log) : log[i].seq = i
    /\ pc \notin {"newline", "truncate"} => tail = "clean"
    /\ pc = "newline" => tail = "unended"

\* Where the counter, the log and the rollback point stand in each phase.
CommitPoint ==
    /\ pc \in Running \ Undecided => committed_seq = Len(log)
    /\ pc = "append" => committed_seq = Len(log)
    /\ pc \in {"newline", "save", "publish"} => OwnRecordLast
    /\ pc = "truncate" => committed_seq = Len(log) \/ OwnRecordLast
    /\ pc = "reply" => cur \in LoggedWrites
    /\ pc \in Undecided =>
         /\ rollback = [len |-> committed_seq, tail |-> "clean"]
         /\ \A i \in 1..committed_seq : log[i].write # cur

LogInv == LogInOrder /\ CommitPoint /\ LogKeepsItsWord

-----------------------------------------------------------------------------
\* Where the seqs are 1, 2, 3, ... the scan finds the length of the log.
LEMMA HighWaterIsLength ==
    ASSUME TypeOK, LogInOrder
    PROVE  HighWater = Len(log)
<1> DEFINE S == {0} \cup {log[i].seq : i \in 1..Len(log)}
<1>1. Len(log) \in Nat  BY DEF TypeOK
<1>2. Len(log) \in S /\ \A i \in 1..Len(log) : log[i].seq <= Len(log)
  BY <1>1 DEF LogInOrder
<1>3. \A n \in S : (\A i \in 1..Len(log) : log[i].seq <= n) => n = Len(log)
  <2> SUFFICES ASSUME NEW n \in S, \A i \in 1..Len(log) : log[i].seq <= n
               PROVE  n = Len(log)
    OBVIOUS
  <2>1. n \in Nat /\ n <= Len(log)  BY <1>1 DEF LogInOrder
  <2>2. CASE Len(log) = 0  BY <2>1, <2>2
  <2>3. CASE Len(log) > 0
    <3>1. Len(log) \in 1..Len(log)  BY <1>1, <2>3
    <3> QED  BY <1>1, <2>1, <3>1 DEF LogInOrder
  <2> QED  BY <1>1, <2>2, <2>3
<1> QED  BY <1>2, <1>3 DEF HighWater

\* The empty log agrees with the answers.
LEMMA LogInit == Init => LogInv
BY StoreAssumption DEF Init, LogInv, LogInOrder, CommitPoint, LogKeepsItsWord, LoggedWrites,
       OwnRecordLast, Undecided, Committing, Running, Phase

\* A step outside the commit that leaves the log alone and tells nobody that a
\* write is committed, lost or refused.
LEMMA LogUntouched ==
    ASSUME LogInv, UNCHANGED <<log, tail, outcome>>, 
           pc \notin Committing, pc' \notin Committing,
           pc' \in Running => committed_seq' = Len(log)
    PROVE  LogInv'
<1>1. LogInOrder'  BY DEF LogInv, LogInOrder, Committing
<1>2. CommitPoint'  BY DEF CommitPoint, Committing, Undecided
<1>3. LogKeepsItsWord'  BY DEF LogInv, LogKeepsItsWord, LoggedWrites
<1> QED  BY <1>1, <1>2, <1>3 DEF LogInv

\* Where lines stay whole every step keeps the log in agreement with the answers.
LEMMA LogStep ==
    ASSUME LinesStayWhole
    PROVE  TypeInv /\ LogInv /\ [Next]_vars => LogInv'
<1> SUFFICES ASSUME TypeOK, LogShape, OneCommit, LogInOrder, CommitPoint, LogKeepsItsWord,
                    [Next]_vars
             PROVE  LogInv'
  BY DEF TypeInv, LogInv
<1> USE StoreAssumption
<1>0. LogInv  BY DEF LogInv
<1>1. /\ log \in Seq(Record) /\ Len(log) \in Nat /\ committed_seq \in Nat
      /\ \A i \in 1..Len(log) : log[i] \in Record /\ log[i].write \in Write
  <2>1. log \in Seq(Record) /\ committed_seq \in Nat  BY DEF TypeOK
  <2>2. \A i \in 1..Len(log) : log[i] \in Record  BY <2>1
  <2> QED  BY <2>1, <2>2 DEF Record
<1>2. CASE Load
  <2>1. HighWater = Len(log)  BY HighWaterIsLength
  <2> QED  BY <1>0, <1>2, <2>1, LogUntouched DEF Load, disk, Committing
<1>3. CASE RefuseToLoad
  BY <1>0, <1>3, LogUntouched DEF RefuseToLoad, Vanish, disk, Committing, Running
<1>4. CASE ReplayEvent
  <2>1. committed_seq = Len(log)
    BY <1>4 DEF ReplayEvent, CommitPoint, Running, Phase, Undecided, Committing
  <2> QED  BY <1>0, <1>4, <2>1, LogUntouched DEF ReplayEvent, disk, Committing
<1>5. CASE FinishLoad
  <2>1. committed_seq = Len(log)
    BY <1>5 DEF FinishLoad, CommitPoint, Running, Phase, Undecided, Committing
  <2> QED  BY <1>0, <1>5, <2>1, LogUntouched DEF FinishLoad, disk, Committing
<1>6. CASE Crash
  <2>1. tail = "clean" /\ UNCHANGED disk /\ pc' = "down"
    BY <1>6 DEF Crash, Vanish, LinesStayWhole
  <2>2. LogInOrder'  BY <2>1 DEF LogInOrder, disk
  <2>3. CommitPoint'  BY <2>1 DEF CommitPoint, Running, Undecided, Committing
  <2>4. \A w \in Write : outcome'[w] = outcome[w] \/ outcome'[w] = "unknown"
    BY <1>6 DEF Crash
  <2>5. LogKeepsItsWord'  BY <2>1, <2>4 DEF LogKeepsItsWord, LoggedWrites, disk
  <2> QED  BY <2>2, <2>3, <2>5 DEF LogInv
<1>7. CASE CrashMidRecord
  BY <1>7 DEF CrashMidRecord, LinesStayWhole
<1>8. ASSUME NEW w \in Write, Admit(w)  PROVE LogInv'
  <2>1. tail = "clean" /\ committed_seq = Len(log) /\ w \notin LoggedWrites
    BY <1>8 DEF Admit, LogInOrder, CommitPoint, LogKeepsItsWord, Running, Phase, Undecided,
                Committing
  <2>2. LogInOrder'  BY <1>8, <2>1 DEF Admit, LogInOrder, disk
  <2>3. CommitPoint'
    BY <1>1, <1>8, <2>1 DEF Admit, CommitPoint, LoggedWrites, disk, Undecided, Committing
  <2>4. LogKeepsItsWord'
    BY <1>8, <2>1 DEF Admit, LogKeepsItsWord, LoggedWrites, disk, TypeOK
  <2> QED  BY <2>2, <2>3, <2>4 DEF LogInv
<1>9. ASSUME NEW w \in Write, Refuse(w)  PROVE LogInv'
  <2>1. UNCHANGED <<log, tail, pc, cur, committed_seq, rollback>>
    BY <1>9 DEF Refuse, disk, process
  <2>2. LogInOrder' /\ CommitPoint'
    BY <2>1 DEF LogInOrder, CommitPoint, OwnRecordLast, LoggedWrites
  <2>3. LogKeepsItsWord'
    BY <1>9, <2>1 DEF Refuse, LogKeepsItsWord, LoggedWrites, TypeOK
  <2> QED  BY <2>2, <2>3 DEF LogInv
<1>10. CASE WriteRecord
  <2>1. tail = "clean" /\ committed_seq = Len(log) /\ pc = "append" /\ cur \in Write
        /\ outcome[cur] = "pending"
    BY <1>10 DEF WriteRecord, LogInOrder, CommitPoint, OneCommit, Committing
  <2>2. log' = Append(log, [seq |-> committed_seq + 1, write |-> cur])
        /\ UNCHANGED <<cur, committed_seq, rollback, outcome>>
        /\ tail' = "unended" /\ pc' = "newline"
    BY <1>10, <2>1 DEF WriteRecord
  <2>3. /\ Len(log') = Len(log) + 1
        /\ \A i \in 1..Len(log) : log'[i] = log[i]
        /\ log'[Len(log) + 1] = [seq |-> committed_seq + 1, write |-> cur]
        /\ \A i \in 1..Len(log') : i \in 1..Len(log) \/ i = Len(log) + 1
    <3>1. /\ Len(log') = Len(log) + 1
          /\ \A i \in 1..Len(log) : log'[i] = log[i]
          /\ log'[Len(log) + 1] = [seq |-> committed_seq + 1, write |-> cur]
      BY <2>1, <2>2, AppendShape
    <3> QED  BY <1>1, <3>1
  <2>4. LogInOrder'
    BY <1>1, <2>1, <2>2, <2>3 DEF LogInOrder
  <2>5. CommitPoint'
    BY <1>1, <2>1, <2>2, <2>3 DEF CommitPoint, OwnRecordLast, Undecided, Committing
  <2>6. LoggedWrites' = LoggedWrites \cup {cur}
    <3>1. \A w \in LoggedWrites' : w \in LoggedWrites \cup {cur}
      BY <2>3 DEF LoggedWrites
    <3>2. \A w \in LoggedWrites : w \in LoggedWrites'
      <4>1. \A i \in 1..Len(log) : i \in 1..Len(log') BY <1>1, <2>3
      <4> QED  BY <2>3, <4>1 DEF LoggedWrites
    <3>3. cur \in LoggedWrites'
      <4>1. Len(log) + 1 \in 1..Len(log')  BY <1>1, <2>3
      <4> QED  BY <2>3, <4>1 DEF LoggedWrites
    <3> QED  BY <3>1, <3>2, <3>3
  <2>7. LogKeepsItsWord'  BY <2>1, <2>2, <2>6 DEF LogKeepsItsWord
  <2> QED  BY <2>4, <2>5, <2>7 DEF LogInv
<1>11. CASE SyncLog
  <2>1. tail' = "clean" /\ pc = "newline" /\ pc' = "save"
        /\ UNCHANGED <<log, cur, committed_seq, rollback, outcome>>
    BY <1>11 DEF SyncLog, EndLine, LogInOrder
  <2>2. LogInOrder'  BY <2>1 DEF LogInOrder
  <2>3. CommitPoint'  BY <2>1 DEF CommitPoint, OwnRecordLast, Undecided, Committing, Running
  <2>4. LogKeepsItsWord'  BY <2>1 DEF LogKeepsItsWord, LoggedWrites
  <2> QED  BY <2>2, <2>3, <2>4 DEF LogInv
<1>12. CASE AppendFails \/ SaveFails
  <2>1. pc \in {"append", "newline", "save"} /\ pc' = "truncate"
        /\ UNCHANGED <<log, cur, committed_seq, rollback, outcome>>
    BY <1>12 DEF AppendFails, SaveFails, disk
  <2>2. LogInOrder'  BY <2>1 DEF LogInOrder
  <2>3. CommitPoint'  BY <2>1 DEF CommitPoint, OwnRecordLast, Undecided, Committing, Running
  <2>4. LogKeepsItsWord'  BY <2>1 DEF LogKeepsItsWord, LoggedWrites
  <2> QED  BY <2>2, <2>3, <2>4 DEF LogInv
<1>13. CASE SaveTable
  <2>1. pc = "save" /\ pc' \in {"save", "publish"} 
        /\ UNCHANGED <<log, tail, cur, committed_seq, rollback, outcome>>
    BY <1>13 DEF SaveTable
  <2>2. LogInOrder'  BY <2>1 DEF LogInOrder
  <2>3. CommitPoint'  BY <2>1 DEF CommitPoint, OwnRecordLast, Undecided, Committing, Running
  <2>4. LogKeepsItsWord'  BY <2>1 DEF LogKeepsItsWord, LoggedWrites
  <2> QED  BY <2>2, <2>3, <2>4 DEF LogInv
<1>14. CASE RollBack
  <2>1. /\ pc = "truncate" /\ cur \in Write /\ outcome[cur] = "pending"
        /\ rollback.len = committed_seq /\ rollback.tail = "clean"
        /\ \A i \in 1..committed_seq : log[i].write # cur
    BY <1>14 DEF RollBack, OneCommit, CommitPoint, Undecided, Committing
  <2>2. /\ log' = SubSeq(log, 1, rollback.len) /\ tail' = rollback.tail /\ pc' = "idle"
        /\ outcome' = [outcome EXCEPT ![cur] = "lost"] /\ committed_seq' = committed_seq
    BY <1>14 DEF RollBack, LinesStayWhole
  <2>3. Len(log') = committed_seq
        /\ \A i \in 1..committed_seq : i \in 1..Len(log) /\ log'[i] = log[i]
    BY <2>1, <2>2, CutShape
  <2>4. LogInOrder'  BY <2>1, <2>2, <2>3 DEF LogInOrder
  <2>5. CommitPoint'
    BY <2>2, <2>3 DEF CommitPoint, Undecided, Committing
  <2>6. LoggedWrites' \subseteq LoggedWrites /\ cur \notin LoggedWrites'
    BY <2>1, <2>3 DEF LoggedWrites
  <2>7. \A w \in LoggedWrites : w # cur => w \in LoggedWrites'
    <3> SUFFICES ASSUME NEW i \in 1..Len(log), log[i].write # cur
                 PROVE  log[i].write \in LoggedWrites'
      BY DEF LoggedWrites
    <3>1. i \in 1..committed_seq
      BY <1>1, <2>1 DEF CommitPoint, OwnRecordLast
    <3> QED  BY <2>3, <3>1 DEF LoggedWrites
  <2>8. LogKeepsItsWord'
    BY <2>1, <2>2, <2>6, <2>7 DEF LogKeepsItsWord, TypeOK
  <2> QED  BY <2>4, <2>5, <2>8 DEF LogInv
<1>15. CASE Publish
  <2>1. /\ pc = "publish" /\ pc' = "reply" /\ committed_seq' = committed_seq + 1
        /\ UNCHANGED <<log, tail, cur, outcome>> /\ OwnRecordLast
    BY <1>15 DEF Publish, CommitPoint
  <2>2. LogInOrder'  BY <2>1 DEF LogInOrder
  <2>3. cur \in LoggedWrites
    BY <1>1, <2>1 DEF OwnRecordLast, LoggedWrites
  <2>4. CommitPoint'
    BY <2>1, <2>3 DEF CommitPoint, OwnRecordLast, LoggedWrites, Undecided, Committing
  <2>5. LogKeepsItsWord'  BY <2>1 DEF LogKeepsItsWord, LoggedWrites
  <2> QED  BY <2>2, <2>4, <2>5 DEF LogInv
<1>16. CASE Reply
  <2>1. /\ pc = "reply" /\ pc' = "idle" /\ committed_seq' = committed_seq
        /\ committed_seq = Len(log) /\ UNCHANGED <<log, tail>> /\ cur \in LoggedWrites
        /\ outcome' = [outcome EXCEPT ![cur] = "acked"]
    BY <1>16 DEF Reply, CommitPoint, Running, Phase, Undecided, Committing, disk
  <2>2. LogInOrder'  BY <2>1 DEF LogInOrder
  <2>3. CommitPoint'  BY <2>1 DEF CommitPoint, Undecided, Committing
  <2>4. LogKeepsItsWord'  BY <2>1 DEF LogKeepsItsWord, LoggedWrites, TypeOK
  <2> QED  BY <2>2, <2>3, <2>4 DEF LogInv
<1>17. CASE Shutdown \/ FlushTable \/ FlushFails
  <2>1. pc \in {"idle", "flush"}
    BY <1>17 DEF Shutdown, FlushTable, FlushFails
  <2>2. committed_seq = Len(log)
    BY <2>1 DEF CommitPoint, Running, Phase, Undecided, Committing
  <2>3. /\ pc' \in {"flush", "down"} /\ UNCHANGED <<log, tail, outcome>>
        /\ pc' \in Running => committed_seq' = committed_seq
    BY <1>17 DEF Shutdown, FlushTable, FlushFails, Vanish, disk, Running
  <2> QED  BY <1>0, <2>1, <2>2, <2>3, LogUntouched DEF Committing
<1>18. CASE UNCHANGED vars
  BY <1>18 DEF vars, disk, process, LogInv, LogInOrder, CommitPoint, LogKeepsItsWord,
               LoggedWrites, OwnRecordLast
<1> QED
  BY <1>2, <1>3, <1>4, <1>5, <1>6, <1>7, <1>8, <1>9, <1>10, <1>11, <1>12, <1>13, <1>14,
     <1>15, <1>16, <1>17, <1>18 DEF Next

\* Every answer given agrees with the log, for good, and the seqs on disk are
\* 1, 2, 3, ...: through failed appends and saves, rollbacks and crashes.
THEOREM LogIsHonest ==
    ASSUME LinesStayWhole
    PROVE  Spec => []LogAgrees
<1>1. Init => TypeInv /\ LogInv  BY TypeInit, LogInit
<1>2. TypeInv /\ LogInv /\ [Next]_vars => TypeInv' /\ LogInv'
  BY TypeStep, LogStep
<1>3. LogInv => LogAgrees
  BY DEF LogInv, LogAgrees, CounterMatchesLog, LogInOrder, CommitPoint, Running, Phase,
         Undecided, Committing
<1> QED  BY <1>1, <1>2, <1>3, PTL DEF Spec

-----------------------------------------------------------------------------
(* A start repairs what was interrupted.  That the manifest covers the files   *)
(* is kept because a save copies, table by table, a memory that shows every    *)
(* event (SaveCopies), and memory shows every event because a start loads the  *)
(* files and replays past the manifest (ReplayProgress).                       *)

\* The rows a start sees to whoever was told of the write: of a create the item's only.
Rows(w) == IF KindOf[w] = "create" THEN {"items"} ELSE Touches(w)
Full(m, w) == \A t \in Rows(w) : m[t][w] > 0

RowsCovered == \A i \in 1..Len(log) : log[i].seq <= manifest => Full(parquet, log[i].write)
RowsServed == pc \in Serving => \A w \in LoggedWrites : Full(mem, w)

ManifestBehind ==
    /\ manifest <= Len(log)
    /\ pc \in Running => manifest <= committed_seq

ReplayProgress ==
    pc = "loading" =>
        /\ \A i \in 1..Len(log) : i < at => Full(mem, log[i].write)
        /\ \A t \in Table, w \in Write : parquet[t][w] > 0 => mem[t][w] > 0

SaveCopies ==
    /\ pc = "save" => \A j \in 1..(at - 1) : parquet[SaveOrder[j]] = mem[SaveOrder[j]]
    /\ pc = "publish" => parquet = mem

CoverInv ==
    /\ ManifestBehind /\ RowsCovered /\ RowsServed
    /\ ReplayProgress /\ SaveCopies

\* They are rows of tables the write touches.
LEMMA RowsOfTables ==
    ASSUME NEW w \in Write
    PROVE  Rows(w) \subseteq Touches(w) /\ Rows(w) \subseteq Table
<1>1. KindOf[w] = "create" => "items" \in Touches(w)
  BY DEF Touches, Table, Affects
<1> QED  BY <1>1, TouchesTables DEF Rows

\* A replay that skips an event but a move looks at the only row it sees to.
LEMMA RowsAreGuarded ==
    ASSUME NEW w \in Write, KindOf[w] # "move"
    PROVE  Rows(w) = {Primary(w)}
<1>1. KindOf[w] \in Kind  BY StoreAssumption
<1>2. CASE KindOf[w] = "create"  BY <1>2 DEF Rows, Primary
<1>3. CASE KindOf[w] = "comment"  BY <1>3 DEF Rows, Primary, Touches, Affects, Table
<1>4. CASE KindOf[w] = "relate"  BY <1>4 DEF Rows, Primary, Touches, Affects, Table
<1> QED  BY <1>1, <1>2, <1>3, <1>4 DEF Kind

\* After the replay of an event its rows are there.
LEMMA ReplayFills ==
    ASSUME NEW m \in Tables, NEW w \in Write
    PROVE  Full(ReplayInto(m, w), w)
<1>1. Full(ApplyWrite(m, w), w)
  BY RowsOfTables, ApplyWriteEffect DEF Holds, Full
<1>2. KindOf[w] # "move" /\ m[Primary(w)][w] > 0 => Full(m, w)
  BY RowsAreGuarded DEF Full
<1> QED  BY <1>1, <1>2 DEF ReplayInto

\* A step that loses no row in the files or in memory keeps CoverInv, if it
\* leaves the log, the manifest and the counter alone and enters neither the
\* load nor a save.
LEMMA CoverKept ==
    ASSUME CoverInv, UNCHANGED <<log, manifest>>,
           pc' \in Running => pc \in Running /\ committed_seq' = committed_seq,
           pc' \in Serving => pc \in Serving,
           pc' \notin {"loading", "save", "publish"},
           \A w \in LoggedWrites :
                Full(mem, w) /\ pc' \in Serving => Full(mem', w),
           \A i \in 1..Len(log) : Full(parquet, log[i].write) =>
                Full(parquet', log[i].write)
    PROVE  CoverInv'
<1>1. ManifestBehind'  BY DEF CoverInv, ManifestBehind
<1>2. RowsCovered'  BY DEF CoverInv, RowsCovered
<1>3. RowsServed'  BY DEF CoverInv, RowsServed, LoggedWrites
<1>4. ReplayProgress' /\ SaveCopies'  BY DEF ReplayProgress, SaveCopies
<1> QED  BY <1>1, <1>2, <1>3, <1>4 DEF CoverInv

\* Where lines stay whole every step keeps the files, the memory and the manifest in
\* the order in which a start can repair them.
LEMMA CoverStep ==
    ASSUME LinesStayWhole
    PROVE  TypeInv /\ WholeInv /\ LogInv /\ CoverInv /\ [Next]_vars => CoverInv'
<1> SUFFICES ASSUME TypeOK, LogShape, OneCommit, SaveProgress, LogInv, LogInOrder, CommitPoint,
                    CoverInv, [Next]_vars
             PROVE  CoverInv'
  BY DEF TypeInv, LogInv, WholeInv
<1> USE StoreAssumption
<1>0. ManifestBehind /\ RowsCovered /\ RowsServed /\ ReplayProgress /\ SaveCopies
  BY DEF CoverInv
<1>1. /\ log \in Seq(Record) /\ Len(log) \in Nat /\ committed_seq \in Nat /\ manifest \in Nat
      /\ mem \in Tables /\ parquet \in Tables
      /\ \A i \in 1..Len(log) : log[i] \in Record /\ log[i].write \in Write
  <2>1. log \in Seq(Record) /\ committed_seq \in Nat /\ manifest \in Nat
        /\ mem \in Tables /\ parquet \in Tables
    BY DEF TypeOK
  <2>2. \A i \in 1..Len(log) : log[i] \in Record  BY <2>1
  <2> QED  BY <2>1, <2>2 DEF Record
<1>2. \A i \in 1..Len(log) : Rows(log[i].write) \subseteq Table
  BY <1>1, RowsOfTables
<1>3. pc \in Serving => \A i \in 1..Len(log) : Full(mem, log[i].write)
  BY <1>0 DEF RowsServed, LoggedWrites
<1>4. CASE Load
  <2>1. HighWater = Len(log)  BY HighWaterIsLength DEF LogInv
  <2>2. ManifestBehind'  BY <1>0, <1>4, <2>1 DEF Load, ManifestBehind, disk
  <2>3. RowsCovered'  BY <1>0, <1>4 DEF Load, RowsCovered, disk
  <2>4. ReplayProgress'  BY <1>1, <1>4 DEF Load, ReplayProgress, disk
  <2>5. RowsServed' /\ SaveCopies'
    BY <1>4 DEF Load, RowsServed, SaveCopies, Serving
  <2> QED  BY <2>2, <2>3, <2>4, <2>5 DEF CoverInv
<1>5. CASE RefuseToLoad
  BY <1>5, CoverKept DEF RefuseToLoad, Vanish, disk, Running, Serving
<1>6. CASE ReplayEvent
  <2>0. at \in 1..Len(log)  BY <1>1, <1>6 DEF ReplayEvent, OneCommit, TypeOK
  <2>1. log[at].write \in Write /\ log[at].seq = at
    BY <1>1, <2>0 DEF LogInv, LogInOrder
  <2>2. \A t \in Table, v \in Write : mem[t][v] > 0 => mem'[t][v] > 0
    BY <1>1, <1>6, <2>1, ReplayIntoEffect DEF ReplayEvent
  <2>3. Full(mem', log[at].write)
    <3>1. CASE at > manifest
      BY <1>1, <1>6, <2>1, <3>1, ReplayFills DEF ReplayEvent
    <3>2. CASE ~(at > manifest)
      <4>1. at <= manifest  BY <1>1, <2>0, <3>2
      <4>2. Full(parquet, log[at].write)
        BY <1>0, <2>0, <2>1, <4>1 DEF RowsCovered
      <4>3. Full(mem, log[at].write)
        BY <1>0, <1>2, <1>6, <2>0, <2>1, <4>2 DEF ReplayEvent, ReplayProgress, Full
      <4> QED  BY <1>2, <2>0, <2>1, <2>2, <4>3 DEF Full
    <3> QED  BY <3>1, <3>2
  <2>4. /\ UNCHANGED <<log, parquet, manifest, committed_seq, pc>> /\ pc = "loading"
        /\ at' = at + 1
    BY <1>6 DEF ReplayEvent, disk
  <2>5. \A i \in 1..Len(log) : i < at + 1 => Full(mem', log[i].write)
    <3>1. \A i \in 1..Len(log) : i < at => Full(mem', log[i].write)
      <4> SUFFICES ASSUME NEW i \in 1..Len(log), i < at, NEW t \in Rows(log[i].write)
                   PROVE  mem'[t][log[i].write] > 0
        BY DEF Full
      <4>1. mem[t][log[i].write] > 0  BY <1>0, <2>4 DEF ReplayProgress, Full
      <4>2. t \in Table /\ log[i].write \in Write  BY <1>1, <1>2
      <4> QED  BY <2>2, <4>1, <4>2
    <3>2. \A i \in 1..Len(log) : i < at + 1 => i < at \/ i = at
      BY <1>1, <2>0
    <3> QED  BY <2>3, <3>1, <3>2
  <2>6. ReplayProgress'  BY <1>0, <2>2, <2>4, <2>5 DEF ReplayProgress
  <2>7. ManifestBehind' /\ RowsCovered'
    BY <1>0, <2>4 DEF ManifestBehind, RowsCovered
  <2>8. RowsServed' /\ SaveCopies'
    BY <2>4 DEF RowsServed, SaveCopies, Serving
  <2> QED  BY <2>6, <2>7, <2>8 DEF CoverInv
<1>7. CASE FinishLoad
  <2>1. /\ UNCHANGED <<log, parquet, manifest, committed_seq, mem>> /\ pc = "loading"
        /\ pc' = "idle" /\ at > Len(log) /\ at \in Nat
    BY <1>7 DEF FinishLoad, disk, TypeOK
  <2>2. \A i \in 1..Len(log) : Full(mem, log[i].write)
    BY <1>0, <1>1, <2>1 DEF ReplayProgress
  <2>3. RowsServed'  BY <2>1, <2>2 DEF RowsServed, LoggedWrites
  <2>4. ManifestBehind' /\ RowsCovered'
    BY <1>0, <2>1 DEF ManifestBehind, RowsCovered, Running, Phase
  <2>5. ReplayProgress' /\ SaveCopies'  BY <2>1 DEF ReplayProgress, SaveCopies
  <2> QED  BY <2>3, <2>4, <2>5 DEF CoverInv
<1>8. CASE Crash \/ CrashMidRecord
  BY <1>8, CoverKept DEF Crash, CrashMidRecord, Vanish, disk, Running, Serving
<1>9. ASSUME NEW w \in Write, Admit(w)  PROVE CoverInv'
  <2>1. \A t \in Table, v \in Write : mem[t][v] > 0 => mem'[t][v] > 0
    BY <1>1, <1>9, ApplyWriteEffect DEF Admit
  <2>2. \A v \in LoggedWrites : v \in Write /\ Rows(v) \subseteq Table
    BY <1>1, <1>2 DEF LoggedWrites
  <2> QED
    BY <1>9, <2>1, <2>2, CoverKept DEF Admit, disk, Running, Serving, Phase, Full
<1>10. ASSUME NEW w \in Write, Refuse(w)  PROVE CoverInv'
  BY <1>10, CoverKept DEF Refuse, disk, process, Running, Serving, Phase
<1>11. CASE WriteRecord
  <2>1. tail = "clean" /\ pc = "append" /\ cur \in Write /\ Holds(mem, cur)
    BY <1>11 DEF WriteRecord, LogInv, LogInOrder, OneCommit, Committing, SaveProgress
  <2>2. /\ log' = Append(log, [seq |-> committed_seq + 1, write |-> cur])
        /\ committed_seq = Len(log)
        /\ UNCHANGED <<parquet, manifest, committed_seq, mem>> /\ pc' = "newline"
    BY <1>11, <2>1 DEF WriteRecord, CommitPoint
  <2>3. /\ Len(log') = Len(log) + 1
        /\ \A i \in 1..Len(log) : log'[i] = log[i]
        /\ log'[Len(log) + 1] = [seq |-> Len(log) + 1, write |-> cur]
    BY <2>1, <2>2, AppendShape
  <2>4. ManifestBehind'  BY <1>0, <1>1, <2>1, <2>2, <2>3 DEF ManifestBehind, Running, Phase
  <2>5. RowsCovered'
    <3> SUFFICES ASSUME NEW i \in 1..Len(log'), log'[i].seq <= manifest'
                 PROVE  Full(parquet', log'[i].write)
      BY DEF RowsCovered
    <3>1. manifest <= Len(log)  BY <1>0 DEF ManifestBehind
    <3>2. i # Len(log) + 1  BY <1>1, <2>2, <2>3, <3>1
    <3>3. i \in 1..Len(log)  BY <1>1, <2>3, <3>2
    <3> QED  BY <1>0, <2>2, <2>3, <3>3 DEF RowsCovered
  <2>6. RowsServed'
    <3>1. Full(mem, cur)  BY <2>1, RowsOfTables DEF Holds, Full
    <3>2. \A w \in LoggedWrites' : w = cur \/ w \in LoggedWrites
      <4>1. \A i \in 1..Len(log') : i \in 1..Len(log) \/ i = Len(log) + 1
        BY <1>1, <2>3
      <4> QED  BY <2>3, <4>1 DEF LoggedWrites
    <3>3. pc \in Serving  BY <2>1 DEF Serving, Running, Phase
    <3> QED  BY <1>0, <2>2, <3>1, <3>2, <3>3 DEF RowsServed
  <2>7. ReplayProgress' /\ SaveCopies'  BY <2>2 DEF ReplayProgress, SaveCopies
  <2> QED  BY <2>4, <2>5, <2>6, <2>7 DEF CoverInv
<1>12. CASE SyncLog
  <2>1. /\ UNCHANGED <<log, parquet, manifest, committed_seq, mem>> /\ pc = "newline"
        /\ pc' = "save" /\ at' = 1
    BY <1>12 DEF SyncLog
  <2>2. ManifestBehind' /\ RowsCovered' /\ RowsServed'
    BY <1>0, <2>1
       DEF ManifestBehind, RowsCovered, RowsServed, LoggedWrites, Running, Phase, Serving
  <2>3. ReplayProgress' /\ SaveCopies'  BY <2>1 DEF ReplayProgress, SaveCopies
  <2> QED  BY <2>2, <2>3 DEF CoverInv
<1>13. CASE AppendFails \/ SaveFails
  BY <1>13, CoverKept DEF AppendFails, SaveFails, disk, Running, Serving, Phase
<1>14. CASE SaveTable
  <2>1. /\ UNCHANGED <<log, manifest, committed_seq, mem>> /\ pc = "save" /\ at \in 1..4
        /\ parquet' = [parquet EXCEPT ![SaveOrder[at]] = mem[SaveOrder[at]]]
        /\ at' = at + 1 /\ pc' = IF at = 4 THEN "publish" ELSE "save"
    BY <1>14 DEF SaveTable, OneCommit, SaveOrder
  <2>2. \A t \in Table : parquet'[t] = parquet[t] \/ parquet'[t] = mem[t]
    BY <1>1, <2>1 DEF Tables
  <2>3. ManifestBehind' /\ RowsServed' /\ ReplayProgress'
    BY <1>0, <2>1
       DEF ManifestBehind, RowsServed, ReplayProgress, LoggedWrites, Running, Phase, Serving
  <2>4. RowsCovered'
    <3>1. \A i \in 1..Len(log) : Full(mem, log[i].write)
      BY <1>3, <2>1 DEF Serving, Running, Phase
    <3> QED  BY <1>0, <1>2, <2>1, <2>2, <3>1 DEF RowsCovered, Full
  <2>5. \A j \in 1..at : parquet'[SaveOrder[j]] = mem[SaveOrder[j]]
    <3>1. SaveOrder[at] \in Table /\ parquet'[SaveOrder[at]] = mem[SaveOrder[at]]
      BY <1>1, <2>1 DEF Tables, SaveOrder, Table
    <3>2. \A j \in 1..(at - 1) : SaveOrder[j] \in Table /\ SaveOrder[j] # SaveOrder[at]
      BY <2>1 DEF SaveOrder, Table
    <3>3. \A j \in 1..(at - 1) : parquet'[SaveOrder[j]] = mem[SaveOrder[j]]
      BY <1>0, <1>1, <2>1, <3>2 DEF SaveCopies, Tables
    <3> QED  BY <2>1, <3>1, <3>3
  <2>6. at = 4 => parquet' = mem
    <3>1. \A t \in Table : \E j \in 1..4 : t = SaveOrder[j]
      BY DEF SaveOrder, Table
    <3>2. parquet' \in Tables  BY <2>1, SaveOne
    <3> SUFFICES ASSUME at = 4  PROVE parquet' = mem
      OBVIOUS
    <3>3. \A t \in Table : parquet'[t] = mem[t]  BY <2>5, <3>1
    <3> QED  BY <1>1, <3>2, <3>3 DEF Tables
  <2>7. SaveCopies'  BY <2>1, <2>5, <2>6 DEF SaveCopies
  <2> QED  BY <2>3, <2>4, <2>7 DEF CoverInv
<1>15. CASE RollBack
  <2>1. /\ log' = SubSeq(log, 1, rollback.len) /\ pc = "truncate" /\ pc' = "idle"
        /\ rollback.len = committed_seq
        /\ UNCHANGED <<parquet, manifest, mem, committed_seq>>
    BY <1>15 DEF RollBack, LinesStayWhole, CommitPoint, Undecided, Committing
  <2>2. Len(log') = committed_seq
        /\ \A i \in 1..committed_seq : i \in 1..Len(log) /\ log'[i] = log[i]
    BY <2>1, CutShape
  <2>3. ManifestBehind'  BY <1>0, <2>1, <2>2 DEF ManifestBehind, Running, Phase
  <2>4. RowsCovered'  BY <1>0, <2>1, <2>2 DEF RowsCovered
  <2>5. RowsServed'
    <3>1. \A w \in LoggedWrites' : w \in LoggedWrites  BY <2>2 DEF LoggedWrites
    <3>2. pc \in Serving  BY <2>1 DEF Serving, Running, Phase
    <3> QED  BY <1>0, <2>1, <3>1, <3>2 DEF RowsServed
  <2>6. ReplayProgress' /\ SaveCopies'  BY <2>1 DEF ReplayProgress, SaveCopies
  <2> QED  BY <2>3, <2>4, <2>5, <2>6 DEF CoverInv
<1>16. CASE Publish
  <2>1. /\ UNCHANGED <<log, parquet, mem>> /\ pc = "publish" /\ pc' = "reply"
        /\ committed_seq' = committed_seq + 1 /\ Len(log) = committed_seq + 1
        /\ manifest' \in {manifest, committed_seq + 1}
    BY <1>16 DEF Publish, CommitPoint, OwnRecordLast
  <2>2. ManifestBehind'  BY <1>0, <1>1, <2>1 DEF ManifestBehind, Running, Phase
  <2>3. RowsCovered'
    BY <1>0, <1>3, <2>1 DEF RowsCovered, SaveCopies, Serving, Running, Phase
  <2>4. RowsServed'
    BY <1>0, <2>1 DEF RowsServed, LoggedWrites, Serving, Running, Phase
  <2>5. ReplayProgress' /\ SaveCopies'  BY <2>1 DEF ReplayProgress, SaveCopies
  <2> QED  BY <2>2, <2>3, <2>4, <2>5 DEF CoverInv
<1>17. CASE Reply \/ Shutdown
  BY <1>17, CoverKept DEF Reply, Shutdown, disk, Running, Serving, Phase
<1>18. CASE FlushTable
  <2>1. /\ UNCHANGED <<log, manifest>> /\ pc = "flush" /\ at \in 1..4
        /\ parquet' = [parquet EXCEPT ![SaveOrder[at]] = mem[SaveOrder[at]]]
        /\ \/ pc' = "down"
           \/ UNCHANGED <<pc, mem, committed_seq>>
    BY <1>18 DEF FlushTable, OneCommit, Vanish
  <2>2. \A t \in Table : parquet'[t] = parquet[t] \/ parquet'[t] = mem[t]
    BY <1>1, <2>1 DEF Tables
  <2>3. \A i \in 1..Len(log) : Full(mem, log[i].write)
    BY <1>3, <2>1 DEF Serving, Running, Phase
  <2>4. \A i \in 1..Len(log) : Full(parquet, log[i].write) =>
            Full(parquet', log[i].write)
    BY <1>2, <2>2, <2>3 DEF Full
  <2> QED  BY <2>1, <2>4, CoverKept DEF Running, Serving, Phase
<1>19. CASE FlushFails
  BY <1>19, CoverKept DEF FlushFails, Vanish, disk, Running, Serving, Phase
<1>20. CASE UNCHANGED vars
  BY <1>0, <1>20
     DEF vars, disk, process, CoverInv, ManifestBehind, RowsCovered, RowsServed,
         LoggedWrites, ReplayProgress, SaveCopies
<1> QED
  BY <1>4, <1>5, <1>6, <1>7, <1>8, <1>9, <1>10, <1>11, <1>12, <1>13, <1>14,
     <1>15, <1>16, <1>17, <1>18, <1>19, <1>20 DEF Next

\* The empty store is covered.
LEMMA CoverInit == Init => CoverInv
BY DEF Init, CoverInv, ManifestBehind, RowsCovered, RowsServed, ReplayProgress,
       SaveCopies, Running, Serving

-----------------------------------------------------------------------------
(* No row twice.  Replay adds a create's rows only where its item is missing, so *)
(* its run row must never be anywhere without the item: a save, and a flush,      *)
(* writes the items first, from a memory that has every item the files have.      *)

ItemsFirst(m) ==
    \A w \in Write : KindOf[w] = "create" /\ m["runs"][w] > 0 => m["items"][w] > 0

ItemsLead ==
    /\ ItemsFirst(mem) /\ ItemsFirst(parquet)
    /\ pc \in Running => \A w \in Write : parquet["items"][w] > 0 => mem["items"][w] > 0
    /\ pc \in {"save", "flush"} /\ at = 2 => parquet["items"] = mem["items"]

OnceInv == ReplayAddsOnce /\ ItemsLead

\* A write leaves the rows of others, and a run row it adds has its item.
LEMMA ApplyItemsFirst ==
    ASSUME NEW m \in Tables, NEW w \in Write, ItemsFirst(m)
    PROVE  ItemsFirst(ApplyWrite(m, w)) /\ ItemsFirst(ReplayInto(m, w))
<1>1. ASSUME NEW v \in Write, KindOf[v] = "create", ApplyWrite(m, w)["runs"][v] > 0
      PROVE  ApplyWrite(m, w)["items"][v] > 0
  <2>1. CASE v = w
    <3>1. "items" \in Touches(w)  BY <1>1, <2>1 DEF Touches, Affects, Table
    <3> QED  BY <2>1, <3>1, ApplyWriteEffect DEF Holds
  <2>2. CASE v # w
    BY <1>1, <2>2, ApplyWriteEffect DEF ItemsFirst, Table
  <2> QED  BY <2>1, <2>2
<1>2. ItemsFirst(ApplyWrite(m, w))  BY <1>1 DEF ItemsFirst
<1> QED  BY <1>2 DEF ReplayInto

\* A write adds one row of its own to a table that has none, and the row of an
\* item stays one row whatever is applied to it.
LEMMA ApplyWriteOnce ==
    ASSUME NEW m \in Tables, NEW w \in Write, NEW v \in Write,
           NEW t \in Table, m[t][v] <= 1,
           v = w /\ t # "items" => m[t][v] = 0 \/ t \notin Touches(w)
    PROVE  ApplyWrite(m, w)[t][v] <= 1
<1>1. m[t] \in [Write -> RowCount]  BY DEF Tables
<1>2. CASE t \notin Touches(w)  BY <1>1, <1>2 DEF ApplyWrite
<1>3. CASE t \in Touches(w)
  <2>1. ApplyWrite(m, w)[t] = [m[t] EXCEPT ![w] = IF t = "items" THEN 1 ELSE OneMore(@)]
    BY <1>1, <1>3 DEF ApplyWrite
  <2> QED  BY <1>1, <1>3, <2>1 DEF OneMore
<1> QED  BY <1>2, <1>3

\* Replay adds a row only where it is missing, but for the two kinds of rows.
LEMMA ReplayIntoOnce ==
    ASSUME NEW m \in Tables, NEW w \in Write, NEW v \in Write, ItemsFirst(m),
           NEW t \in Table, <<KindOf[v], t>> \notin AddedAgain, m[t][v] <= 1
    PROVE  ReplayInto(m, w)[t][v] <= 1
<1>1. CASE ReplayInto(m, w) = m  BY <1>1
<1>2. CASE ReplayInto(m, w) # m
  <2>1. KindOf[w] = "move" \/ ~(m[Primary(w)][w] > 0)  BY <1>2 DEF ReplayInto
  <2>2. ReplayInto(m, w) = ApplyWrite(m, w)  BY <1>2 DEF ReplayInto
  <2>3. m[t][w] \in RowCount /\ m[Primary(w)][w] \in RowCount
    BY TouchesTables DEF Tables
  <2>4. v = w /\ t # "items" => m[t][v] = 0 \/ t \notin Touches(w)
    <3> SUFFICES ASSUME v = w, t # "items", t \in Touches(w)  PROVE m[t][w] = 0
      OBVIOUS
    <3>1. KindOf[w] \in Kind  BY StoreAssumption
    <3>2. <<KindOf[w], t>> \in Affects  BY DEF Touches
    <3>3. CASE KindOf[w] = "move"  BY <3>2, <3>3 DEF Affects, AddedAgain
    <3>4. CASE KindOf[w] \in {"comment", "relate"}
      <4>1. t = Primary(w)  BY <3>2, <3>4 DEF Affects, Primary
      <4> QED  BY <2>1, <2>3, <3>4, <4>1 DEF RowCount
    <3>5. CASE KindOf[w] = "create"
      <4>1. t = "runs" /\ Primary(w) = "items"
        BY <3>2, <3>5 DEF Affects, AddedAgain, Primary
      <4> QED  BY <2>1, <2>3, <3>5, <4>1 DEF ItemsFirst, RowCount
    <3> QED  BY <3>1, <3>3, <3>4, <3>5 DEF Kind
  <2> QED  BY <2>2, <2>4, ApplyWriteOnce
<1> QED  BY <1>1, <1>2

\* What a save copies from memory to the files, in the order of the tables.
LEMMA SaveItemsLead ==
    ASSUME TypeOK, ItemsLead, pc \in {"save", "flush"}, at \in 1..4,
           parquet' = [parquet EXCEPT ![SaveOrder[at]] = mem[SaveOrder[at]]]
    PROVE  /\ ItemsFirst(parquet') /\ (at = 1 => parquet'["items"] = mem["items"])
           /\ \A w \in Write : parquet'["items"][w] > 0 => mem["items"][w] > 0
<1>1. /\ ItemsFirst(mem) /\ ItemsFirst(parquet)
      /\ \A w \in Write : parquet["items"][w] > 0 => mem["items"][w] > 0
      /\ at = 2 => parquet["items"] = mem["items"]
  BY DEF ItemsLead, Running, Phase
<1>2. parquet \in Tables /\ mem \in Tables  BY DEF TypeOK
<1>3. CASE at = 1
  <2>1. SaveOrder[at] = "items"  BY <1>3 DEF SaveOrder
  <2>2. parquet'["items"] = mem["items"] /\ parquet'["runs"] = parquet["runs"]
    BY <1>2, <2>1 DEF Tables, Table
  <2> QED  BY <1>1, <2>2 DEF ItemsFirst
<1>4. CASE at = 2
  <2>1. SaveOrder[at] = "runs"  BY <1>4 DEF SaveOrder
  <2>2. parquet'["items"] = parquet["items"] /\ parquet'["runs"] = mem["runs"]
    BY <1>2, <2>1 DEF Tables, Table
  <2> QED  BY <1>1, <1>4, <2>2 DEF ItemsFirst
<1>5. CASE at \in {3, 4}
  <2>1. SaveOrder[at] \in {"item_comments", "relations"}  BY <1>5 DEF SaveOrder
  <2>2. parquet'["items"] = parquet["items"] /\ parquet'["runs"] = parquet["runs"]
    BY <1>2, <2>1 DEF Tables, Table
  <2> QED  BY <1>1, <1>5, <2>2 DEF ItemsFirst
<1> QED  BY <1>3, <1>4, <1>5

\* No row is anywhere before its item: neither a fault nor a torn line changes that.
LEMMA LeadStep == TypeInv /\ ItemsLead /\ [Next]_vars => ItemsLead'
<1> SUFFICES ASSUME TypeOK, OneCommit, ItemsLead, [Next]_vars  PROVE ItemsLead'
  BY DEF TypeInv
<1> USE StoreAssumption
<1>0. /\ mem \in Tables /\ parquet \in Tables /\ ItemsFirst(NoRows)
      /\ ItemsFirst(mem) /\ ItemsFirst(parquet)
      /\ pc \in Running => \A w \in Write : parquet["items"][w] > 0 => mem["items"][w] > 0
  BY DEF TypeOK, ItemsLead, ItemsFirst, NoRows, Table
<1>1. CASE Load
  BY <1>0, <1>1 DEF Load, disk, ItemsLead
<1>2. CASE RefuseToLoad \/ Crash \/ CrashMidRecord
  BY <1>0, <1>2
     DEF RefuseToLoad, Crash, CrashMidRecord, Vanish, disk, ItemsLead, Running
<1>3. CASE ReplayEvent
  <2>1. at \in 1..Len(log)  BY <1>3 DEF ReplayEvent, OneCommit, TypeOK
  <2>2. log \in Seq(Record)  BY DEF TypeOK
  <2>3. log[at] \in Record  BY <2>1, <2>2
  <2>4. log[at].write \in Write  BY <2>3 DEF Record
  <2>5. ItemsFirst(mem') /\ \A w \in Write : mem["items"][w] > 0 => mem'["items"][w] > 0
    BY <1>0, <1>3, <2>4, ApplyItemsFirst, ReplayIntoEffect DEF ReplayEvent, Table
  <2>6. parquet' = parquet /\ pc' = pc /\ pc = "loading"
    BY <1>3 DEF ReplayEvent, disk
  <2> QED  BY <1>0, <2>5, <2>6 DEF ItemsLead, Running, Phase
<1>4. ASSUME NEW w \in Write, Admit(w)  PROVE ItemsLead'
  <2>1. ItemsFirst(mem') /\ \A v \in Write : mem["items"][v] > 0 => mem'["items"][v] > 0
    BY <1>0, <1>4, ApplyItemsFirst, ApplyWriteEffect DEF Admit, Table
  <2>2. parquet' = parquet /\ pc = "idle" /\ pc' = "append"  BY <1>4 DEF Admit, disk
  <2> QED  BY <1>0, <2>1, <2>2 DEF ItemsLead, Running, Phase
<1>5. CASE SaveTable
  <2>1. /\ at \in 1..4 /\ pc = "save" /\ mem' = mem /\ at' = at + 1
        /\ parquet' = [parquet EXCEPT ![SaveOrder[at]] = mem[SaveOrder[at]]]
    BY <1>5 DEF SaveTable, OneCommit
  <2>2. at' = 2 => at = 1  BY <2>1
  <2> QED  BY <1>0, <2>1, <2>2, SaveItemsLead DEF ItemsLead
<1>6. CASE FlushTable
  <2>1. /\ at \in 1..4 /\ pc = "flush"
        /\ parquet' = [parquet EXCEPT ![SaveOrder[at]] = mem[SaveOrder[at]]]
    BY <1>6 DEF FlushTable, OneCommit
  <2>2. CASE Vanish("down")  BY <1>0, <2>1, <2>2, SaveItemsLead DEF Vanish, ItemsLead, Running
  <2>3. CASE at' = at + 1 /\ mem' = mem
    <3>1. at' = 2 => at = 1  BY <2>1, <2>3
    <3> QED  BY <1>0, <2>1, <2>3, <3>1, SaveItemsLead DEF ItemsLead
  <2> QED  BY <1>6, <2>2, <2>3 DEF FlushTable
<1>7. CASE FlushFails
  <2>1. parquet' = parquet /\ pc = "flush"  BY <1>7 DEF FlushFails, disk
  <2>2. CASE Vanish("down")  BY <1>0, <2>1, <2>2 DEF Vanish, ItemsLead, Running
  <2>3. CASE at' = Len(SaveOrder) /\ mem' = mem /\ pc' = pc
    <3>1. at' # 2  BY <2>3 DEF SaveOrder
    <3> QED  BY <1>0, <2>1, <2>3, <3>1 DEF ItemsLead
  <2> QED  BY <1>7, <2>2, <2>3 DEF FlushFails
<1>8. CASE SyncLog \/ Shutdown
  BY <1>0, <1>8 DEF SyncLog, Shutdown, disk, ItemsLead, Running, Phase
<1>9. CASE FinishLoad \/ WriteRecord \/ AppendFails \/ SaveFails \/ RollBack \/ Publish \/ Reply
  BY <1>0, <1>9 DEF FinishLoad, WriteRecord, AppendFails, SaveFails, RollBack, Publish, Reply,
                    disk, ItemsLead, Running, Phase
<1>10. ASSUME NEW w \in Write, Refuse(w)  PROVE ItemsLead'
  BY <1>0, <1>10 DEF Refuse, disk, process, ItemsLead
<1>11. CASE UNCHANGED vars  BY <1>11 DEF vars, disk, process, ItemsLead, ItemsFirst
<1> QED
  BY <1>1, <1>2, <1>3, <1>4, <1>5, <1>6, <1>7, <1>8, <1>9, <1>10, <1>11 DEF Next

\* Here nothing is assumed of the faults: no write is applied in memory twice,
\* because the handler sees only writes that left no trace.
LEMMA OnceStep == TypeInv /\ TraceInv /\ OnceInv /\ [Next]_vars => OnceInv'
<1> SUFFICES ASSUME TypeOK, OneCommit, TraceInv, ReplayAddsOnce, ItemsLead, [Next]_vars,
                    NEW t \in Table, NEW v \in Write, <<KindOf[v], t>> \notin AddedAgain
             PROVE  mem'[t][v] <= 1 /\ parquet'[t][v] <= 1
  BY LeadStep DEF TypeInv, ReplayAddsOnce, OnceInv
<1> USE StoreAssumption
<1>0. mem \in Tables /\ parquet \in Tables
      /\ mem[t][v] <= 1 /\ parquet[t][v] <= 1 /\ NoRows[t][v] <= 1
  BY DEF TypeOK, ReplayAddsOnce, NoRows
<1>1. CASE ReplayEvent
  <2>1. at \in 1..Len(log)  BY <1>1 DEF ReplayEvent, OneCommit, TypeOK
  <2>2. log \in Seq(Record)  BY DEF TypeOK
  <2>3. log[at] \in Record  BY <2>1, <2>2
  <2>4. log[at].write \in Write  BY <2>3 DEF Record
  <2> QED  BY <1>0, <1>1, <2>4, ReplayIntoOnce DEF ReplayEvent, disk, ItemsLead
<1>2. ASSUME NEW w \in Write, Admit(w)  PROVE mem'[t][v] <= 1 /\ parquet'[t][v] <= 1
  <2>1. mem[t][w] = 0
    BY <1>0, <1>2 DEF Admit, TraceInv, Unhandled, NoTrace
  <2> QED  BY <1>0, <1>2, <2>1, ApplyWriteOnce DEF Admit, disk
<1>3. CASE SaveTable
  <2>1. at \in 1..4  BY <1>3 DEF SaveTable, OneCommit
  <2>2. parquet'[t][v] = parquet[t][v] \/ parquet'[t][v] = mem[t][v]
    BY <1>0, <1>3, <2>1, SaveMovesRows DEF SaveTable
  <2> QED  BY <1>0, <1>3, <2>2 DEF SaveTable
<1>4. CASE FlushTable
  <2>1. at \in 1..4  BY <1>4 DEF FlushTable, OneCommit
  <2>2. parquet'[t][v] = parquet[t][v] \/ parquet'[t][v] = mem[t][v]
    BY <1>0, <1>4, <2>1, SaveMovesRows DEF FlushTable
  <2> QED  BY <1>0, <1>4, <2>2 DEF FlushTable, Vanish
<1>5. CASE Load  BY <1>0, <1>5 DEF Load, disk
<1>6. CASE RefuseToLoad \/ Crash \/ CrashMidRecord \/ FlushFails
  BY <1>0, <1>6 DEF RefuseToLoad, Crash, CrashMidRecord, FlushFails, Vanish, disk
<1>7. CASE FinishLoad \/ WriteRecord \/ SyncLog \/ AppendFails \/ SaveFails \/ RollBack
  BY <1>0, <1>7 DEF FinishLoad, WriteRecord, SyncLog, AppendFails, SaveFails, RollBack, disk
<1>8. CASE Publish \/ Reply \/ Shutdown
  BY <1>0, <1>8 DEF Publish, Reply, Shutdown, disk
<1>9. ASSUME NEW w \in Write, Refuse(w)  PROVE mem'[t][v] <= 1 /\ parquet'[t][v] <= 1
  BY <1>0, <1>9 DEF Refuse, disk, process
<1>10. CASE UNCHANGED vars  BY <1>0, <1>10 DEF vars, disk, process
<1> QED
  BY <1>1, <1>2, <1>3, <1>4, <1>5, <1>6, <1>7, <1>8, <1>9, <1>10 DEF Next

\* The empty tables double nothing.
LEMMA OnceInit == Init => OnceInv
BY DEF Init, OnceInv, ItemsLead, ItemsFirst, ReplayAddsOnce, NoRows, Table, Running

\* Whatever fails, torn lines and lost rollbacks included, no row of a create's item and
\* first run, of a moved item, of a comment or of an added edge is ever doubled (replay_into
\* skips what the loaded tables hold); a moved item's run rows and a create's edges are not
\* in this claim.
THEOREM NothingTwice == Spec => []ReplayAddsOnce
<1>1. Init => TypeInv /\ TraceInv /\ OnceInv
  BY TypeInit, TraceInit, OnceInit
<1>2. TypeInv /\ TraceInv /\ OnceInv /\ [Next]_vars => TypeInv' /\ TraceInv' /\ OnceInv'
  BY TypeStep, TraceStep, OnceStep
<1>3. OnceInv => ReplayAddsOnce  BY DEF OnceInv
<1> QED  BY <1>1, <1>2, <1>3, PTL DEF Spec

\* Everything the theorems below rest on, for a log whose lines stay whole.
StoreInv == TypeInv /\ WholeInv /\ TraceInv /\ LogInv /\ CoverInv /\ OnceInv

\* The conjunction of the invariants holds at first.
LEMMA StoreInvInit == Init => StoreInv
BY TypeInit, WholeInit, TraceInit, LogInit, CoverInit, OnceInit DEF StoreInv

\* Every step keeps the conjunction of the invariants.
LEMMA StoreInvStep ==
    ASSUME LinesStayWhole
    PROVE  StoreInv /\ [Next]_vars => StoreInv'
BY TypeStep, WholeStep, TraceStep, LogStep, CoverStep, OnceStep DEF StoreInv

\* A logged create is whole unless nobody was told of it: it is acknowledged, or the
\* commit under way.
LEMMA LoggedIsShown ==
    ASSUME StoreInv, NEW i \in 1..Len(log)
    PROVE  LET w == log[i].write
           IN  /\ pc \in Serving => Shown(mem, w)
               /\ log[i].seq <= manifest => Shown(parquet, w)
<1> DEFINE w == log[i].write
<1>1. TypeOK /\ OneCommit /\ AckedWhole /\ SaveProgress /\ CommitPoint /\ LogInOrder
      /\ LogKeepsItsWord /\ ManifestBehind /\ RowsCovered /\ RowsServed
  BY DEF StoreInv, TypeInv, WholeInv, LogInv, CoverInv
<1>2. w \in Write /\ w \in LoggedWrites /\ log[i].seq = i
  <2>1. log \in Seq(Record)  BY <1>1 DEF TypeOK
  <2>2. log[i] \in Record  BY <2>1
  <2> QED  BY <1>1, <2>2 DEF Record, LoggedWrites, LogInOrder
<1>3. /\ pc \in Serving => Full(mem, w)
      /\ log[i].seq <= manifest => Full(parquet, w)
  BY <1>1, <1>2 DEF RowsServed, RowsCovered
<1>4. CASE KindOf[w] # "create"
  BY <1>3, <1>4 DEF Shown, Full, Rows, Holds
<1>5. CASE KindOf[w] = "create" /\ outcome[w] = "unknown"
  BY <1>3, <1>5 DEF Shown, Full, Rows
<1>6. CASE outcome[w] = "acked"
  BY <1>1, <1>2, <1>6 DEF AckedWhole, Shown, Serving, Running, Phase, Holds
<1>7. CASE outcome[w] = "pending"
  <2>1. w = cur /\ pc \in Committing /\ Holds(mem, cur)
    BY <1>1, <1>2, <1>7 DEF OneCommit, SaveProgress
  <2>2. ASSUME log[i].seq <= manifest  PROVE pc = "reply"
    <3>1. manifest <= committed_seq /\ manifest \in Nat /\ committed_seq \in Nat
      BY <1>1, <2>1 DEF ManifestBehind, TypeOK, Committing, Running, Phase
    <3>2. i \in 1..committed_seq  BY <1>2, <2>2, <3>1
    <3> QED  BY <1>1, <2>1, <3>2 DEF CommitPoint, Undecided
  <2> QED  BY <1>1, <1>7, <2>1, <2>2 DEF Shown, SaveProgress
<1>8. outcome[w] \in {"acked", "pending", "unknown"}
  BY <1>1, <1>2 DEF LogKeepsItsWord, TypeOK, Outcome
<1> QED  BY <1>4, <1>5, <1>6, <1>7, <1>8

\* Whatever mixture of tables, manifest and log a crash or a failed save left (load), a
\* serving engine shows every event of the log and the manifest claims only what the table
\* files show: with all its rows, but for the run row and edges of a create whose client got
\* no answer, and each row once, but for a move's run rows and a create's edges.
THEOREM StartRepairs ==
    ASSUME LinesStayWhole
    PROVE  Spec => []ReplayRepairs
<1>1. Init => StoreInv  BY StoreInvInit
<1>2. StoreInv /\ [Next]_vars => StoreInv'  BY StoreInvStep
<1>3. StoreInv => ReplayRepairs
  <2>1. StoreInv => ManifestCovers  BY LoggedIsShown DEF ManifestCovers
  <2>2. StoreInv => CommittedServed  BY LoggedIsShown DEF CommittedServed, LoggedWrites
  <2>3. StoreInv => ReplayAddsOnce  BY DEF StoreInv, OnceInv
  <2> QED  BY <2>1, <2>2, <2>3 DEF ReplayRepairs
<1> QED  BY <1>1, <1>2, <1>3, PTL DEF Spec

-----------------------------------------------------------------------------
(* The refinement of CommitContract, step by step.  A commit is the step that  *)
(* publishes its seq; a crash after the record was written commits as well, in *)
(* the same step that leaves the client without an answer.                     *)

\* How much of the log the contract's history covers.
CommittedLen == IF pc \in Running THEN committed_seq ELSE Len(log)

\* The history of the contract is the committed part of the log, write by write.
LEMMA HistoryShape ==
    ASSUME TypeOK, LogInv
    PROVE  /\ CommittedHistory = [i \in 1..CommittedLen |-> log[i].write]
           /\ CommittedHistory \in Seq(Write) /\ Len(CommittedHistory) = CommittedLen
           /\ CommittedLen \in Nat /\ CommittedLen <= Len(log)
<1>1. log \in Seq(Record) /\ Len(log) \in Nat /\ committed_seq \in Nat  BY DEF TypeOK
<1>2. pc \in Running => committed_seq <= Len(log)
  BY <1>1 DEF LogInv, CommitPoint, OwnRecordLast, Undecided, Committing, Running, Phase
<1>3. CommittedLen \in Nat /\ CommittedLen <= Len(log)
  BY <1>1, <1>2 DEF CommittedLen
<1>4. CommittedHistory = [i \in 1..CommittedLen |-> log[i].write]
  BY DEF CommittedHistory, CommittedLen
<1>5. \A i \in 1..CommittedLen : log[i].write \in Write
  <2> SUFFICES ASSUME NEW i \in 1..CommittedLen  PROVE log[i].write \in Write
    OBVIOUS
  <2>1. i \in 1..Len(log)  BY <1>1, <1>3
  <2>2. log[i] \in Record  BY <1>1, <2>1
  <2> QED  BY <2>2 DEF Record
<1>6. CommittedHistory \in Seq(Write) /\ Len(CommittedHistory) = CommittedLen
  BY <1>3, <1>4, <1>5
<1> QED  BY <1>3, <1>4, <1>6

\* The same records and the same cut make the same history.
LEMMA HistorySame ==
    ASSUME CommittedLen' = CommittedLen, \A i \in 1..CommittedLen : log'[i] = log[i]
    PROVE  CommittedHistory' = CommittedHistory
<1>1. CommittedHistory = [i \in 1..CommittedLen |-> log[i].write]
  BY DEF CommittedHistory, CommittedLen
<1>2. CommittedHistory' = [i \in 1..CommittedLen' |-> log'[i].write]
  BY DEF CommittedHistory, CommittedLen
<1> QED  BY <1>1, <1>2

\* A cut one record later appends that record's write.
LEMMA HistoryGrows ==
    ASSUME TypeOK, LogInv, NEW w \in Write, CommittedLen' = CommittedLen + 1,
           \A i \in 1..CommittedLen : log'[i] = log[i],
           log'[CommittedLen + 1].write = w
    PROVE  CommittedHistory' = Append(CommittedHistory, w)
<1> DEFINE n == CommittedLen
<1>1. /\ n \in Nat /\ CommittedHistory \in Seq(Write) /\ Len(CommittedHistory) = n
      /\ CommittedHistory = [i \in 1..n |-> log[i].write]
  BY HistoryShape
<1>2. CommittedHistory' = [i \in 1..(n + 1) |-> log'[i].write]
  BY DEF CommittedHistory, CommittedLen
<1>3. /\ Append(CommittedHistory, w) \in Seq(Write)
      /\ Len(Append(CommittedHistory, w)) = n + 1
      /\ \A i \in 1..n : Append(CommittedHistory, w)[i] = CommittedHistory[i]
      /\ Append(CommittedHistory, w)[n + 1] = w
  BY <1>1, AppendProperties
<1>4. \A i \in 1..(n + 1) : i \in 1..n \/ i = n + 1
  BY <1>1
<1>5. \A i \in 1..(n + 1) : log'[i].write = Append(CommittedHistory, w)[i]
  BY <1>1, <1>3, <1>4
<1>6. \A i \in 1..(n + 1) : log'[i].write \in Write
  BY <1>1, <1>3, <1>4, <1>5
<1>7. CommittedHistory' \in Seq(Write) /\ Len(CommittedHistory') = n + 1
  BY <1>1, <1>2, <1>6
<1> QED  BY <1>2, <1>3, <1>5, <1>7, SeqEqual

\* The initial states map to those of the contract.
LEMMA ContractInit == Init => Contract!Init
<1> SUFFICES ASSUME Init PROVE CommittedHistory = <<>> /\ outcome = [w \in Write |-> "unsent"]
  BY DEF Contract!Init
<1>1. CommittedHistory = [i \in 1..0 |-> log[i].write]
  BY DEF Init, CommittedHistory, Running
<1> QED  BY <1>1 DEF Init

\* The write under way is in the contract's history exactly from its publication on.
LEMMA OwnWriteCommitted ==
    ASSUME TypeOK, LogInv, OneCommit, pc \in Committing
    PROVE  Contract!InHistory(cur) <=> pc = "reply"
<1>1. CommittedHistory = [i \in 1..CommittedLen |-> log[i].write]
      /\ Len(CommittedHistory) = CommittedLen
  BY HistoryShape
<1>2. CommittedLen = committed_seq
  BY DEF CommittedLen, Committing, Running, Phase
<1>3. CASE pc # "reply"
  <2>1. \A i \in 1..committed_seq : log[i].write # cur
    BY <1>3 DEF LogInv, CommitPoint, Undecided
  <2> QED  BY <1>1, <1>2, <1>3, <2>1 DEF Contract!InHistory
<1>4. CASE pc = "reply"
  <2>1. committed_seq = Len(log) /\ cur \in LoggedWrites
    BY <1>4 DEF LogInv, CommitPoint, Undecided, Running, Phase
  <2> QED  BY <1>1, <1>2, <1>4, <2>1 DEF Contract!InHistory, LoggedWrites
<1> QED  BY <1>3, <1>4

\* Every step of the store is a step of the contract or leaves its variables alone.
LEMMA ContractStep ==
    ASSUME LinesStayWhole
    PROVE  TypeInv /\ LogInv /\ [Next]_vars => [Contract!Next]_(Contract!contractVars)
<1> SUFFICES ASSUME TypeOK, LogShape, OneCommit, LogInv, LogInOrder, CommitPoint, [Next]_vars
             PROVE  \/ \E w \in Write : \/ Contract!Submit(w) \/ Contract!TurnAway(w)
                                       \/ Contract!Commit(w) \/ Contract!Acknowledge(w)
                                       \/ Contract!ReportLost(w) \/ Contract!Abandon(w)
                    \/ UNCHANGED <<CommittedHistory, outcome>>
  BY DEF Contract!Next, Contract!contractVars, TypeInv, LogInv
<1> USE StoreAssumption
<1>1. log \in Seq(Record) /\ Len(log) \in Nat /\ committed_seq \in Nat
  BY DEF TypeOK
<1>2. CASE Load
  <2>1. HighWater = Len(log)  BY HighWaterIsLength
  <2>2. CommittedLen' = CommittedLen
    BY <1>2, <2>1 DEF Load, CommittedLen, Running, Phase, disk
  <2> QED  BY <1>2, <2>2, HistorySame DEF Load, disk
<1>3. CASE RefuseToLoad
  <2>1. CommittedLen' = CommittedLen
    BY <1>3 DEF RefuseToLoad, Vanish, CommittedLen, Running, Phase, disk
  <2> QED  BY <1>3, <2>1, HistorySame DEF RefuseToLoad, disk
<1>4. CASE ReplayEvent \/ FinishLoad
  <2>1. CommittedLen' = CommittedLen
    BY <1>4 DEF ReplayEvent, FinishLoad, CommittedLen, Running, Phase, disk
  <2> QED  BY <1>4, <2>1, HistorySame DEF ReplayEvent, FinishLoad, disk
<1>5. CASE Crash
  <2>1. /\ pc \in Running /\ pc' = "down" /\ log' = log
        /\ outcome' = [w \in Write |-> IF w = cur THEN "unknown" ELSE outcome[w]]
    BY <1>5 DEF Crash, Vanish, disk
  <2>2. CommittedLen = committed_seq /\ CommittedLen' = Len(log)
    BY <2>1 DEF CommittedLen, Running
  <2>3. CASE pc \notin Committing
    <3>1. \A w \in Write : w # cur  BY <2>3 DEF OneCommit
    <3>2. UNCHANGED outcome  BY <2>1, <3>1 DEF TypeOK
    <3>3. committed_seq = Len(log)
      BY <2>1, <2>3 DEF CommitPoint, Undecided
    <3> QED  BY <2>1, <2>2, <3>2, <3>3, HistorySame
  <2>4. CASE pc \in Committing
    <3>1. cur \in Write /\ outcome[cur] = "pending"  BY <2>4 DEF OneCommit
    <3>2. outcome' = [outcome EXCEPT ![cur] = "unknown"]  BY <2>1 DEF TypeOK
    <3>3. CASE committed_seq = Len(log)
      <4>1. UNCHANGED CommittedHistory  BY <2>1, <2>2, <3>3, HistorySame
      <4> QED  BY <3>1, <3>2, <4>1 DEF Contract!Abandon
    <3>4. CASE committed_seq # Len(log)
      <4>1. OwnRecordLast /\ pc # "reply"
        BY <2>4, <3>4 DEF CommitPoint, Undecided, Committing, Running, Phase
      <4>2. CommittedHistory' = Append(CommittedHistory, cur)
        BY <1>1, <2>1, <2>2, <3>1, <4>1, HistoryGrows DEF OwnRecordLast
      <4>3. ~Contract!InHistory(cur)  BY <2>4, <4>1, OwnWriteCommitted
      <4> QED  BY <3>1, <3>2, <4>2, <4>3 DEF Contract!Abandon
    <3> QED  BY <3>3, <3>4
  <2> QED  BY <2>3, <2>4
<1>6. CASE CrashMidRecord
  BY <1>6 DEF CrashMidRecord, LinesStayWhole
<1>7. ASSUME NEW w \in Write, Admit(w)  PROVE Contract!Submit(w)
  <2>1. \A v \in Write : outcome[v] # "pending"
    BY <1>7 DEF Admit, OneCommit, Committing
  <2>2. CommittedLen' = CommittedLen
    BY <1>7 DEF Admit, CommittedLen, Running, Phase
  <2>3. UNCHANGED CommittedHistory  BY <1>7, <2>2, HistorySame DEF Admit, disk
  <2> QED  BY <1>7, <2>1, <2>3 DEF Admit, Contract!Submit
<1>8. ASSUME NEW w \in Write, Refuse(w)  PROVE Contract!TurnAway(w)
  <2>1. CommittedLen' = CommittedLen
    BY <1>8 DEF Refuse, CommittedLen, process, disk
  <2>2. UNCHANGED CommittedHistory  BY <1>8, <2>1, HistorySame DEF Refuse, disk
  <2> QED  BY <1>8, <2>2 DEF Refuse, Contract!TurnAway
<1>9. CASE WriteRecord
  <2>1. CommittedLen = Len(log) /\ CommittedLen' = Len(log)
    BY <1>9 DEF WriteRecord, CommittedLen, CommitPoint, Running, Phase
  <2>2. \A i \in 1..Len(log) : log'[i] = log[i]
    BY <1>9, AppendShape DEF WriteRecord
  <2> QED  BY <1>9, <2>1, <2>2, HistorySame DEF WriteRecord
<1>10. CASE SyncLog \/ AppendFails \/ SaveTable \/ SaveFails
  <2>1. /\ UNCHANGED <<log, committed_seq, outcome>>
        /\ pc \in Running /\ pc' \in Running
    BY <1>10 DEF SyncLog, AppendFails, SaveTable, SaveFails, disk, Running, Phase
  <2>2. CommittedLen' = CommittedLen  BY <2>1 DEF CommittedLen
  <2> QED  BY <2>1, <2>2, HistorySame
<1>11. CASE RollBack
  <2>1. /\ pc = "truncate" /\ pc' = "idle" /\ committed_seq' = committed_seq
        /\ log' = SubSeq(log, 1, rollback.len) /\ rollback.len = committed_seq
        /\ outcome' = [outcome EXCEPT ![cur] = "lost"]
        /\ cur \in Write /\ outcome[cur] = "pending"
    BY <1>11 DEF RollBack, LinesStayWhole, CommitPoint, OneCommit, Undecided, Committing
  <2>2. \A i \in 1..committed_seq : log'[i] = log[i]  BY <2>1, CutShape
  <2>3. CommittedLen = committed_seq /\ CommittedLen' = committed_seq
    BY <2>1 DEF CommittedLen, Running, Phase
  <2>4. UNCHANGED CommittedHistory  BY <2>2, <2>3, HistorySame
  <2>5. ~Contract!InHistory(cur)  BY <2>1, OwnWriteCommitted DEF Committing
  <2> QED  BY <2>1, <2>4, <2>5 DEF Contract!ReportLost
<1>12. CASE Publish
  <2>1. /\ pc = "publish" /\ pc' = "reply" /\ committed_seq' = committed_seq + 1
        /\ UNCHANGED <<log, outcome>> /\ OwnRecordLast
        /\ cur \in Write /\ outcome[cur] = "pending"
    BY <1>12 DEF Publish, CommitPoint, OneCommit, Committing
  <2>2. CommittedLen = committed_seq /\ CommittedLen' = committed_seq + 1
    BY <2>1 DEF CommittedLen, Running, Phase
  <2>3. CommittedHistory' = Append(CommittedHistory, cur)
    BY <2>1, <2>2, HistoryGrows DEF OwnRecordLast
  <2>4. ~Contract!InHistory(cur)  BY <2>1, OwnWriteCommitted DEF Committing
  <2> QED  BY <2>1, <2>3, <2>4 DEF Contract!Commit
<1>13. CASE Reply
  <2>1. /\ pc = "reply" /\ pc' = "idle" /\ UNCHANGED <<log, committed_seq>>
        /\ outcome' = [outcome EXCEPT ![cur] = "acked"]
        /\ cur \in Write /\ outcome[cur] = "pending"
    BY <1>13 DEF Reply, OneCommit, Committing, disk
  <2>2. CommittedLen' = CommittedLen  BY <2>1 DEF CommittedLen, Running, Phase
  <2>3. UNCHANGED CommittedHistory  BY <2>1, <2>2, HistorySame
  <2>4. Contract!InHistory(cur)  BY <2>1, OwnWriteCommitted DEF Committing
  <2> QED  BY <2>1, <2>3, <2>4 DEF Contract!Acknowledge
<1>14. CASE Shutdown \/ FlushTable \/ FlushFails
  <2>1. /\ UNCHANGED <<log, outcome>> /\ pc \in {"idle", "flush"}
        /\ pc' \in {"flush", "down"}
        /\ pc' = "flush" => committed_seq' = committed_seq
    BY <1>14 DEF Shutdown, FlushTable, FlushFails, Vanish, disk
  <2>2. committed_seq = Len(log)
    BY <2>1 DEF CommitPoint, Running, Phase, Undecided, Committing
  <2>3. CommittedLen' = CommittedLen
    BY <2>1, <2>2 DEF CommittedLen, Running, Phase
  <2> QED  BY <2>1, <2>3, HistorySame
<1>15. CASE UNCHANGED vars
  <2>1. UNCHANGED <<log, pc, committed_seq, outcome>>
    BY <1>15 DEF vars, disk, process
  <2> QED  BY <2>1, HistorySame DEF CommittedLen
<1> QED
  BY <1>2, <1>3, <1>4, <1>5, <1>6, <1>7, <1>8, <1>9, <1>10, <1>11, <1>12, <1>13, <1>14,
     <1>15 DEF Next

\* The store implements the contract of the trait: a committed write enters the
\* history at one instant and for good, an answer "committed" or "not durable"
\* is given only when it is true and stays true, through every later crash,
\* restart, failed save and rollback.
THEOREM StoreImplementsContract ==
    ASSUME LinesStayWhole
    PROVE  Spec => KeepsContract
<1>1. Init => TypeInv /\ LogInv  BY TypeInit, LogInit
<1>2. TypeInv /\ LogInv /\ [Next]_vars => TypeInv' /\ LogInv'
  BY TypeStep, LogStep
<1>3. Init => Contract!Init  BY ContractInit
<1>4. TypeInv /\ LogInv /\ [Next]_vars => [Contract!Next]_(Contract!contractVars)
  BY ContractStep
<1> QED  BY <1>1, <1>2, <1>3, <1>4, PTL DEF Spec, KeepsContract, Contract!Spec
=============================================================================
