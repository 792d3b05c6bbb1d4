-------------------------- MODULE WriterFenceProofs --------------------------
(***************************************************************************)
(* Theorems about WriterFence, for every set of servers, of writes, and    *)
(* every bound on epochs and blind starts.  Those about the types, fenced  *)
(* writes and the hand-over hold whatever servers do to one another; those *)
(* about the log assume one server at a time.                              *)
(***************************************************************************)
EXTENDS WriterFence, FiniteSetTheorems, SequenceTheorems, WellFoundedInduction, TLAPS

\* The phases in which a commit is under way.
Committing == {"measured", "appended", "saved"}

-----------------------------------------------------------------------------
(* Numbers *)

\* Every set of naturals that is not empty has a least element.
LEMMA LeastNatural ==
    ASSUME NEW T, T \subseteq Nat, T # {}
    PROVE  \E x \in T : \A y \in T : x <= y
<1> DEFINE R == {ss \in Nat \X Nat : ss[1] < ss[2]}
<1>1. IsWellFoundedOn(R, Nat)  BY NatLessThanWellFounded, Zenon DEF OpToRel
<1>2. \A x, y \in T : y < x => <<y, x>> \in R
  OBVIOUS
<1> HIDE DEF R
<1>3. PICK x \in T : \A y \in T : ~ (<<y, x>> \in R)
  BY <1>1, WFMin
<1>4. x \in Nat /\ \A y \in T : y \in Nat /\ ~(y < x)
  <2> SUFFICES ASSUME NEW y \in T  PROVE ~(y < x)
    OBVIOUS
  <2>1. ~ (<<y, x>> \in R)  BY <1>3
  <2> QED  BY <1>2, <2>1
<1> QED  BY <1>4

\* A bounded set of naturals that is not empty has a largest element.
LEMMA LargestNatural ==
    ASSUME NEW T, T \subseteq Nat, T # {}, NEW b \in Nat, \A x \in T : x <= b
    PROVE  \E x \in T : \A y \in T : y <= x
<1> DEFINE U == {n \in Nat : \A x \in T : x <= n}
<1>1. U \subseteq Nat /\ b \in U  OBVIOUS
<1>2. PICK u \in U : \A v \in U : u <= v  BY <1>1, LeastNatural
<1>3. u \in T
  <2> SUFFICES ASSUME u \notin T  PROVE FALSE
    OBVIOUS
  <2>1. \A x \in T : x <= u - 1  BY <1>2
  <2>2. u - 1 \in Nat
    <3>1. PICK t \in T : TRUE  OBVIOUS
    <3> QED  BY <1>2, <2>1, <3>1
  <2>3. u - 1 \in U  BY <2>1, <2>2
  <2> QED  BY <1>2, <2>3
<1> QED  BY <1>2, <1>3

-----------------------------------------------------------------------------
(* Types.  The scan of the log finds a largest seq because the seqs, in any    *)
(* order several writers left them, are bounded.                               *)

SeqsBounded == \E n \in Nat : \A i \in 1..Len(log) : log[i].seq <= n

TypeInv == TypeOK /\ SeqsBounded

\* The scan of a start finds a seq that no record exceeds.
LEMMA HighWaterFound ==
    ASSUME TypeInv
    PROVE  HighWater \in Nat /\ \A i \in 1..Len(log) : log[i].seq <= HighWater
<1> DEFINE S == {0} \cup {log[i].seq : i \in 1..Len(log)}
<1>1. \A i \in 1..Len(log) : log[i] \in Record
  <2>1. log \in Seq(Record)  BY DEF TypeInv, TypeOK
  <2> QED  BY <2>1
<1>2. S \subseteq Nat /\ S # {}  BY <1>1 DEF Record
<1>3. PICK b \in Nat : \A i \in 1..Len(log) : log[i].seq <= b
  BY DEF TypeInv, SeqsBounded
<1>4. \A x \in S : x <= b  BY <1>3
<1> HIDE DEF S
<1>5. PICK m \in S : \A x \in S : x <= m  BY <1>2, <1>4, LargestNatural
<1>6. \E m_1 \in S : \A i \in 1..Len(log) : log[i].seq <= m_1
  BY <1>5 DEF S
<1> QED  BY <1>2, <1>6 DEF HighWater, S

\* The tail a start replays are writes.
LEMMA LogTailWrites ==
    ASSUME TypeOK
    PROVE  LogTail \subseteq Write
<1>1. log \in Seq(Record)  BY DEF TypeOK
<1>2. \A i \in 1..Len(log) : log[i] \in Record  BY <1>1
<1> QED  BY <1>2 DEF LogTail, Record

\* The types hold at first.
LEMMA TypeInit == Init => TypeInv
BY FenceAssumption DEF Init, TypeInv, TypeOK, SeqsBounded, Phase, Answer

\* A record appended by a process in the middle of a command.
LEMMA OwnRecordAppended ==
    ASSUME TypeOK, NEW p \in Proc, AppendRecord(p)
    PROVE  /\ cur[p] \in Write /\ log' \in Seq(Record) /\ Len(log') = Len(log) + 1
           /\ Len(log) \in Nat
           /\ \A i \in 1..Len(log) : log'[i] = log[i]
           /\ log'[Len(log) + 1] =
                [seq |-> committed_seq[p] + 1, epoch |-> held[p], write |-> cur[p]]
           /\ \A i \in 1..Len(log') : i \in 1..Len(log) \/ i = Len(log) + 1
<1>1. cur[p] \in Write /\ log \in Seq(Record) /\ Len(log) \in Nat
  BY DEF AppendRecord, TypeOK, Phase
<1>2. [seq |-> committed_seq[p] + 1, epoch |-> held[p], write |-> cur[p]] \in Record
  BY <1>1 DEF TypeOK, Record
<1>3. log' = Append(log, [seq |-> committed_seq[p] + 1, epoch |-> held[p], write |-> cur[p]])
  BY DEF AppendRecord
<1>4. /\ log' \in Seq(Record) /\ Len(log') = Len(log) + 1
      /\ \A i \in 1..Len(log) : log'[i] = log[i]
      /\ log'[Len(log) + 1] =
           [seq |-> committed_seq[p] + 1, epoch |-> held[p], write |-> cur[p]]
  BY <1>1, <1>2, <1>3
<1>5. \A i \in 1..Len(log') : i \in 1..Len(log) \/ i = Len(log) + 1
  BY <1>1, <1>4
<1> QED  BY <1>1, <1>4, <1>5

\* Whatever a failed save cuts off, what stays is a prefix.
LEMMA CutShape ==
    ASSUME TypeOK, NEW p \in Proc, SaveFails(p)
    PROVE  /\ log' \in Seq(Record)
           /\ \A i \in 1..Len(log') : i \in 1..Len(log) /\ log'[i] = log[i]
<1>1. log \in Seq(Record) /\ Len(log) \in Nat /\ Len(rollback[p]) \in Nat  BY DEF TypeOK
<1>2. CASE log' = log  BY <1>1, <1>2
<1>3. CASE Len(rollback[p]) <= Len(log) /\ log' = SubSeq(log, 1, Len(rollback[p]))
  <2> DEFINE n == Len(rollback[p])
  <2>1. n \in Nat /\ n <= Len(log)  BY <1>1, <1>3
  <2>2. SubSeq(log, 1, n) \in Seq(Record) /\ Len(SubSeq(log, 1, n)) = n
        /\ \A i \in 1..n : SubSeq(log, 1, n)[i] = log[i]
    BY <1>1, <2>1, SubSeqProperties
  <2>3. \A i \in 1..n : i \in 1..Len(log)  BY <1>1, <2>1
  <2> QED  BY <1>3, <2>2, <2>3
<1> QED  BY <1>2, <1>3 DEF SaveFails

\* What a process that is gone leaves in its variables.
LEMMA VanishShape ==
    ASSUME TypeOK, NEW p \in Proc, Vanish(p)
    PROVE  /\ pc' \in [Proc -> Phase] /\ mem' \in [Proc -> SUBSET Write]
           /\ committed_seq' \in [Proc -> Nat] /\ held' \in [Proc -> Nat] /\ durable' \in [Proc -> BOOLEAN]
           /\ cur' \in [Proc -> Write \cup {NoWrite}] /\ rollback' \in [Proc -> Seq(Record)]
           /\ \A q \in Proc : cur'[q] # NoWrite <=> pc'[q] \in {"measured", "appended", "saved"}
<1>1. pc' \in [Proc -> Phase]  BY DEF Vanish, TypeOK, Phase
<1>2. mem' \in [Proc -> SUBSET Write] /\ committed_seq' \in [Proc -> Nat]
      /\ held' \in [Proc -> Nat] /\ durable' \in [Proc -> BOOLEAN]
      /\ cur' \in [Proc -> Write \cup {NoWrite}]
  BY DEF Vanish, TypeOK
<1>3. rollback' \in [Proc -> Seq(Record)]  BY DEF Vanish, TypeOK
<1>4. \A q \in Proc : cur'[q] # NoWrite <=> pc'[q] \in {"measured", "appended", "saved"}
  BY DEF Vanish, TypeOK
<1> QED  BY <1>1, <1>2, <1>3, <1>4

\* Every step keeps the types.
LEMMA TypeStep == TypeInv /\ [Next]_vars => TypeInv'
<1> SUFFICES ASSUME TypeInv, TypeOK, SeqsBounded, [Next]_vars  PROVE TypeInv'
  BY DEF TypeInv
<1> USE FenceAssumption
<1>0. ASSUME UNCHANGED log, TypeOK'  PROVE TypeInv'
  BY <1>0 DEF TypeInv, SeqsBounded
<1>1. CASE UNCHANGED vars
  BY <1>0, <1>1 DEF vars, files, engines, past, TypeOK
<1>2. ASSUME NEW p \in Proc, LoadTables(p)  PROVE TypeInv'
  <2>1. TypeOK'  BY <1>2 DEF LoadTables, files, TypeOK, Phase
  <2> QED  BY <1>0, <1>2, <2>1 DEF LoadTables, files
<1>3. ASSUME NEW p \in Proc, LoadTail(p)  PROVE TypeInv'
  <2>1. HighWater \in Nat /\ LogTail \subseteq Write  BY HighWaterFound, LogTailWrites
  <2>2. TypeOK'  BY <1>3, <2>1 DEF LoadTail, files, past, TypeOK, Phase
  <2> QED  BY <1>0, <1>3, <2>2 DEF LoadTail, files
<1>4. ASSUME NEW p \in Proc, ReadOwner(p)  PROVE TypeInv'
  <2>0. held' \in [Proc -> Nat]  BY <1>4 DEF ReadOwner, TypeOK
  <2>1. blind' \in 0..MaxBlind  BY <1>4 DEF ReadOwner, TypeOK
  <2>2. TypeOK'  BY <1>4, <2>0, <2>1 DEF ReadOwner, files, TypeOK, Phase
  <2> QED  BY <1>0, <1>4, <2>2 DEF ReadOwner, files
<1>5. ASSUME NEW p \in Proc, WriteOwner(p)  PROVE TypeInv'
  <2>0. held' \in [Proc -> Nat] /\ owner' \in Nat
    <3>1. held \in [Proc -> Nat] /\ owner \in Nat  BY DEF TypeOK
    <3>2. \/ UNCHANGED <<held, owner>>
          \/ owner' = held[p] + 1 /\ held' = [held EXCEPT ![p] = @ + 1]
      BY <1>5 DEF WriteOwner
    <3> QED  BY ONLY <3>1, <3>2
  <2>1. durable' \in [Proc -> BOOLEAN]  BY <1>5 DEF WriteOwner, TypeOK
  <2>u. unseen' \in 0..MaxUnseen  BY <1>5 DEF WriteOwner, TypeOK
  <2>2. TypeOK'  BY <1>5, <2>0, <2>1, <2>u DEF WriteOwner, TypeOK, Phase
  <2> QED  BY <1>0, <1>5, <2>2 DEF WriteOwner
<1>6. ASSUME NEW p \in Proc, Crash(p)  PROVE TypeInv'
  <2>1. answer' \in [Write -> Answer]  BY <1>6 DEF Crash, TypeOK, Answer
  <2>2. TypeOK'  BY <1>6, <2>1, VanishShape DEF Crash, files, past, TypeOK
  <2> QED  BY <1>0, <1>6, <2>2 DEF Crash, files
<1>7. ASSUME NEW p \in Proc, Shutdown(p)  PROVE TypeInv'
  <2>1. tables' \subseteq Write  BY <1>7 DEF Shutdown, TypeOK
  <2>2. TypeOK'  BY <1>7, <2>1, VanishShape DEF Shutdown, past, TypeOK
  <2> QED  BY <1>0, <1>7, <2>2 DEF Shutdown
<1>8. ASSUME NEW p \in Proc, NEW w \in Write, Admit(p, w)  PROVE TypeInv'
  <2>1. TypeOK'  BY <1>8 DEF Admit, files, past, TypeOK, Phase, Answer
  <2> QED  BY <1>0, <1>8, <2>1 DEF Admit, files
<1>9. ASSUME NEW p \in Proc, NEW w \in Write, Fence(p, w)  PROVE TypeInv'
  <2>1. TypeOK'  BY <1>9 DEF Fence, files, engines, past, TypeOK, Answer
  <2> QED  BY <1>0, <1>9, <2>1 DEF Fence, files
<1>10. ASSUME NEW p \in Proc, AppendRecord(p)  PROVE TypeInv'
  <2>0. /\ log' \in Seq(Record)
        /\ \A i \in 1..Len(log) : log'[i] = log[i]
        /\ log'[Len(log) + 1] =
             [seq |-> committed_seq[p] + 1, epoch |-> held[p], write |-> cur[p]]
        /\ \A i \in 1..Len(log') : i \in 1..Len(log) \/ i = Len(log) + 1
    BY <1>10, OwnRecordAppended
  <2>1. /\ log' \in Seq(Record)
        /\ \A i \in 1..Len(log') : log'[i].seq = committed_seq[p] + 1
                                  \/ (i \in 1..Len(log) /\ log'[i].seq = log[i].seq)
    BY <2>0
  <2>2. TypeOK'
    <3>1. /\ pc' \in [Proc -> Phase] /\ late' \in [Proc -> Nat]
          /\ \A q \in Proc : cur[q] # NoWrite <=> pc'[q] \in {"measured", "appended", "saved"}
      BY <1>10 DEF AppendRecord, TypeOK, Phase
    <3>2. UNCHANGED <<owner, decodes, tables, manifest, answer, blind, unseen, mem, committed_seq, held,
                      durable, cur, rollback>>
      BY <1>10 DEF AppendRecord, engines
    <3> QED  BY ONLY <2>1, <3>1, <3>2, TypeOK DEF TypeOK
  <2>3. SeqsBounded'
    <3>1. PICK n \in Nat : \A i \in 1..Len(log) : log[i].seq <= n  BY DEF SeqsBounded
    <3>2. log \in Seq(Record) /\ committed_seq[p] \in Nat  BY DEF TypeOK
    <3>3. \A i \in 1..Len(log) : log[i].seq \in Nat
      <4>1. \A i \in 1..Len(log) : log[i] \in Record  BY <3>2
      <4> QED  BY <4>1 DEF Record
    <3> DEFINE c == committed_seq[p]
    <3> HIDE DEF c
    <3>4. ASSUME NEW i \in 1..Len(log')  PROVE log'[i].seq <= n + c + 1
      <4>0. n \in Nat /\ c \in Nat  BY <3>1, <3>2 DEF c
      <4>1. CASE log'[i].seq = c + 1  BY ONLY <4>0, <4>1
      <4>2. CASE i \in 1..Len(log) /\ log'[i].seq = log[i].seq
        <5>1. log[i].seq \in Nat /\ log[i].seq <= n  BY <4>2, <3>1, <3>3
        <5> QED  BY ONLY <4>0, <4>2, <5>1
      <4> QED  BY <2>1, <4>1, <4>2 DEF c
    <3>5. n + c + 1 \in Nat  BY <3>2 DEF c
    <3> QED  BY <3>4, <3>5 DEF SeqsBounded
  <2> QED  BY <2>2, <2>3 DEF TypeInv
<1>11. ASSUME NEW p \in Proc, Save(p)  PROVE TypeInv'
  <2>1. TypeOK'  BY <1>11 DEF Save, engines, past, TypeOK, Phase
  <2> QED  BY <1>0, <1>11, <2>1 DEF Save
<1>12. ASSUME NEW p \in Proc, SaveFails(p)  PROVE TypeInv'
  <2>1. log' \in Seq(Record) /\ \A i \in 1..Len(log') : i \in 1..Len(log) /\ log'[i] = log[i]
    BY <1>12, CutShape
  <2>2. decodes' \in BOOLEAN  BY <1>12 DEF SaveFails, TypeOK
  <2>3. TypeOK'  BY <1>12, <2>1, <2>2 DEF SaveFails, past, TypeOK, Phase, Answer
  <2>4. SeqsBounded'  BY <2>1 DEF SeqsBounded
  <2> QED  BY <2>3, <2>4 DEF TypeInv
<1>13. ASSUME NEW p \in Proc, Publish(p)  PROVE TypeInv'
  <2>1. /\ committed_seq' \in [Proc -> Nat] /\ manifest' \in Nat
        /\ answer' \in [Write -> Answer] /\ rollback' \in [Proc -> Seq(Record)]
    BY <1>13 DEF Publish, TypeOK, Answer
  <2>2. TypeOK'  BY <1>13, <2>1 DEF Publish, past, TypeOK, Phase
  <2> QED  BY <1>0, <1>13, <2>2 DEF Publish
<1> QED
  BY <1>1, <1>2, <1>3, <1>4, <1>5, <1>6, <1>7, <1>8, <1>9, <1>10, <1>11, <1>12, <1>13
     DEF Next

\* Type correctness, however many servers run or start at the same time: in
\* particular a start always finds a largest seq in the log it loads.
THEOREM TypeCorrect == Spec => []TypeOK
<1>1. TypeInv /\ [Next]_vars => TypeInv'  BY TypeStep
<1>2. TypeInv => TypeOK  BY DEF TypeInv
<1> QED  BY TypeInit, <1>1, <1>2, PTL DEF Spec

-----------------------------------------------------------------------------
(* A fenced write leaves no trace.  The invariant covers the writes not yet    *)
(* sent as well, and says that no process is committing one.                   *)

Untouched(w) == answer[w] \in {"none", "fenced"}

NoTrace(w) ==
    /\ w \notin tables
    /\ \A p \in Proc : w \notin mem[p] /\ cur[p] # w
    /\ \A i \in 1..Len(log) : log[i].write # w

TraceInv == \A w \in Write : Untouched(w) => NoTrace(w)

\* There is no trace of any write at first.
LEMMA TraceInit == Init => TraceInv
BY FenceAssumption DEF Init, TraceInv, NoTrace

\* No step leaves a trace of a write that is not under way or answered otherwise.
LEMMA TraceStep == TypeInv /\ TraceInv /\ [Next]_vars => TraceInv'
<1> SUFFICES ASSUME TypeOK, TraceInv, [Next]_vars, NEW w \in Write, Untouched(w)'
             PROVE  NoTrace(w)'
  BY DEF TypeInv, TraceInv
<1> USE FenceAssumption
<1>0. Untouched(w) => NoTrace(w)  BY DEF TraceInv
<1>1. CASE UNCHANGED vars
  BY <1>0, <1>1 DEF vars, files, engines, Untouched, NoTrace
<1>2. ASSUME NEW p \in Proc, LoadTables(p)  PROVE NoTrace(w)'
  BY <1>0, <1>2 DEF LoadTables, files, TypeOK, Untouched, NoTrace
<1>3. ASSUME NEW p \in Proc, LoadTail(p)  PROVE NoTrace(w)'
  <2>1. Untouched(w)  BY <1>3 DEF LoadTail, Untouched
  <2>2. w \notin LogTail  BY <1>0, <2>1 DEF NoTrace, LogTail
  <2> QED  BY <1>0, <1>3, <2>1, <2>2 DEF LoadTail, files, TypeOK, NoTrace
<1>4. ASSUME NEW p \in Proc, ReadOwner(p) \/ WriteOwner(p)  PROVE NoTrace(w)'
  BY <1>0, <1>4 DEF ReadOwner, WriteOwner, files, Untouched, NoTrace
<1>5. ASSUME NEW p \in Proc, Crash(p)  PROVE NoTrace(w)'
  <2>1. Untouched(w)  BY <1>5 DEF Crash, Untouched
  <2> QED  BY <1>0, <1>5, <2>1 DEF Crash, Vanish, files, TypeOK, NoTrace
<1>6. ASSUME NEW p \in Proc, Shutdown(p)  PROVE NoTrace(w)'
  BY <1>0, <1>6 DEF Shutdown, Vanish, TypeOK, Untouched, NoTrace
<1>7. ASSUME NEW p \in Proc, NEW v \in Write, Admit(p, v)  PROVE NoTrace(w)'
  <2>1. Untouched(w) /\ w # v  BY <1>7 DEF Admit, Untouched, TypeOK
  <2> QED  BY <1>0, <1>7, <2>1 DEF Admit, files, TypeOK, NoTrace
<1>8. ASSUME NEW p \in Proc, NEW v \in Write, Fence(p, v)  PROVE NoTrace(w)'
  <2>1. Untouched(w)  BY <1>8 DEF Fence, Untouched, TypeOK
  <2> QED  BY <1>0, <1>8, <2>1 DEF Fence, files, engines, NoTrace
<1>9. ASSUME NEW p \in Proc, AppendRecord(p)  PROVE NoTrace(w)'
  <2>1. Untouched(w)  BY <1>9 DEF AppendRecord, Untouched
  <2>2. cur[p] # w /\ \A i \in 1..Len(log) : log[i].write # w
    BY <1>0, <2>1 DEF NoTrace
  <2>3. /\ \A i \in 1..Len(log) : log'[i] = log[i]
        /\ log'[Len(log) + 1] =
             [seq |-> committed_seq[p] + 1, epoch |-> held[p], write |-> cur[p]]
        /\ \A i \in 1..Len(log') : i \in 1..Len(log) \/ i = Len(log) + 1
    BY <1>9, OwnRecordAppended
  <2>4. \A i \in 1..Len(log') : log'[i].write # w
    BY <2>2, <2>3
  <2> QED  BY <1>0, <1>9, <2>1, <2>4 DEF AppendRecord, engines, NoTrace
<1>10. ASSUME NEW p \in Proc, Save(p)  PROVE NoTrace(w)'
  BY <1>0, <1>10 DEF Save, engines, Untouched, NoTrace
<1>11. ASSUME NEW p \in Proc, SaveFails(p)  PROVE NoTrace(w)'
  <2>1. Untouched(w)  BY <1>11 DEF SaveFails, Untouched, TypeOK
  <2>2. \A i \in 1..Len(log') : log'[i].write # w
    BY <1>0, <1>11, <2>1, CutShape DEF NoTrace
  <2> QED  BY <1>0, <1>11, <2>1, <2>2 DEF SaveFails, TypeOK, NoTrace
<1>12. ASSUME NEW p \in Proc, Publish(p)  PROVE NoTrace(w)'
  <2>1. Untouched(w)  BY <1>12 DEF Publish, Untouched, TypeOK
  <2> QED  BY <1>0, <1>12, <2>1 DEF Publish, TypeOK, NoTrace
<1> QED
  BY <1>1, <1>2, <1>3, <1>4, <1>5, <1>6, <1>7, <1>8, <1>9, <1>10, <1>11, <1>12 DEF Next

\* Whatever servers do to one another, a write that was turned away for the
\* fence is in no engine, no table file and no log record, then and later.
THEOREM FencedIsAbsent == Spec => []FencedLeavesNoTrace
<1>1. Init => TypeInv /\ TraceInv  BY TypeInit, TraceInit
<1>2. TypeInv /\ TraceInv /\ [Next]_vars => TypeInv' /\ TraceInv'
  BY TypeStep, TraceStep
<1>3. TraceInv => FencedLeavesNoTrace
  BY DEF TraceInv, Untouched, NoTrace, FencedLeavesNoTrace
<1> QED  BY <1>1, <1>2, <1>3, PTL DEF Spec

-----------------------------------------------------------------------------
(* The hand-over.  Servers may overlap, start at the same time, and take an    *)
(* unreadable owner file for none.  Whatever they do, the epoch in the file    *)
(* falls, or is written twice, only where a start writes over an epoch that it *)
(* had not read; `unseen` pays for what such a start may bring about: one more *)
(* holder of an epoch, one more append of a writer whose epoch came back.      *)

HoldersPaid ==
    /\ \A p \in Proc : pc[p] \in {"down", "loading", "loaded", "taking"} => ~durable[p]
    /\ \A e \in Nat :
        /\ Cardinality(Holders(e)) <= 1 + unseen
        /\ e > owner => Cardinality(Holders(e)) <= unseen

AppendsPaid ==
    \A p \in Proc :
        /\ late[p] <= 1 + unseen
        /\ pc[p] = "measured" \/ (pc[p] # "down" /\ held[p] >= owner) => late[p] <= unseen
        /\ pc[p] \in {"loading", "loaded", "taking"} => late[p] = 0

\* The holders of an epoch are finitely many.
LEMMA HoldersFinite ==
    ASSUME NEW e
    PROVE  IsFiniteSet(Holders(e)) /\ Cardinality(Holders(e)) \in Nat
<1>1. Holders(e) \subseteq Proc  BY DEF Holders
<1> QED  BY <1>1, FenceAssumption, FS_Subset, FS_CardinalityType

\* Nobody holds an epoch at first, and nobody is overtaken.
LEMMA TakeoverInit == Init => HoldersPaid /\ AppendsPaid
<1> SUFFICES ASSUME Init  PROVE HoldersPaid /\ AppendsPaid
  OBVIOUS
<1>1. \A e \in Nat : Holders(e) = {}  BY DEF Init, Holders
<1>2. \A e \in Nat : Cardinality(Holders(e)) = 0  BY <1>1, FS_EmptySet
<1> QED  BY <1>2 DEF Init, HoldersPaid, AppendsPaid

\* A step that adds no holder keeps them paid for.
LEMMA FewerHolders ==
    ASSUME TypeOK, TypeOK', HoldersPaid, UNCHANGED <<owner, unseen>>,
           \A p \in Proc : durable'[p] => durable[p] /\ held'[p] = held[p],
           \A p \in Proc : pc'[p] \in {"down", "loading", "loaded", "taking"} => ~durable'[p]
    PROVE  HoldersPaid'
<1>1. \A e \in Nat : Holders(e)' \subseteq Holders(e)  BY DEF Holders
<1>2. \A e \in Nat : Cardinality(Holders(e)') <= Cardinality(Holders(e))
                     /\ Cardinality(Holders(e)') \in Nat /\ Cardinality(Holders(e)) \in Nat
  <2> TAKE e \in Nat
  <2>1. IsFiniteSet(Holders(e)) /\ Cardinality(Holders(e)) \in Nat  BY HoldersFinite
  <2>2. IsFiniteSet(Holders(e)') /\ Cardinality(Holders(e)') <= Cardinality(Holders(e))
    BY <1>1, <2>1, FS_Subset
  <2> QED  BY <2>1, <2>2, FS_CardinalityType
<1>3. owner \in Nat /\ unseen \in Nat  BY FenceAssumption DEF TypeOK
<1> QED  BY <1>2, <1>3 DEF HoldersPaid

\* The step that writes the owner file adds one holder, of the epoch it writes.
LEMMA OneMoreHolder ==
    ASSUME TypeOK, TypeOK', HoldersPaid, NEW p \in Proc, WriteOwner(p)
    PROVE  HoldersPaid'
<1>0. /\ owner \in Nat /\ owner' \in Nat /\ unseen \in Nat /\ unseen' \in Nat
      /\ held \in [Proc -> Nat] /\ durable \in [Proc -> BOOLEAN] /\ pc \in [Proc -> Phase]
      /\ pc[p] = "taking" /\ pc' = [pc EXCEPT ![p] = "idle"]
  BY FenceAssumption DEF TypeOK, WriteOwner
<1>1. CASE UNCHANGED <<owner, held, durable, unseen>>
  BY <1>0, <1>1, FewerHolders DEF HoldersPaid
<1>2. CASE /\ owner' = held[p] + 1 /\ held' = [held EXCEPT ![p] = @ + 1]
           /\ durable' = [durable EXCEPT ![p] = TRUE]
           /\ \/ owner = held[p] /\ UNCHANGED unseen
              \/ owner # held[p] /\ unseen' = unseen + 1
  <2>1. \A q \in Proc : pc'[q] \in {"down", "loading", "loaded", "taking"} => ~durable'[q]
    BY <1>0, <1>2 DEF HoldersPaid
  <2>2. ASSUME NEW e \in Nat
        PROVE  /\ Cardinality(Holders(e)') <= 1 + unseen'
               /\ e > owner' => Cardinality(Holders(e)') <= unseen'
    <3> DEFINE H == Holders(e)
               k == Cardinality(Holders(e))
    <3>1. IsFiniteSet(H) /\ k \in Nat /\ k <= 1 + unseen /\ (e > owner => k <= unseen)
      BY HoldersFinite DEF HoldersPaid
    <3>2. CASE e # owner'
      <4>1. Holders(e)' = H
        BY <1>0, <1>2, <3>2 DEF Holders, HoldersPaid
      <4>2. CASE unseen' = unseen + 1  BY <1>0, <3>1, <4>1, <4>2
      <4>3. CASE owner = held[p] /\ unseen' = unseen
        BY <1>0, <1>2, <3>1, <4>1, <4>3
      <4> QED  BY <1>2, <4>2, <4>3
    <3>3. CASE e = owner'
      <4>1. Holders(e)' = H \cup {p}
        <5>1. \A q \in Proc : q \in Holders(e)' <=> q \in H \/ q = p
          BY <1>0, <1>2, <3>3 DEF Holders
        <5>2. Holders(e)' \subseteq Proc /\ H \subseteq Proc  BY DEF Holders
        <5> QED  BY <5>1, <5>2
      <4>2. Cardinality(Holders(e)') <= k + 1 /\ Cardinality(Holders(e)') \in Nat
        <5> HIDE DEF H
        <5>1. Cardinality(H \cup {p}) = (IF p \in H THEN Cardinality(H) ELSE Cardinality(H) + 1)
          BY ONLY <3>1, FS_AddElement
        <5> QED  BY <3>1, <4>1, <5>1 DEF H
      <4>3. CASE unseen' = unseen + 1  BY <1>0, <3>1, <3>3, <4>2, <4>3
      <4>4. CASE owner = held[p] /\ unseen' = unseen
        <5>1. e > owner  BY <1>0, <1>2, <3>3, <4>4
        <5> QED  BY <1>0, <3>1, <3>3, <4>2, <4>4, <5>1
      <4> QED  BY <1>2, <4>3, <4>4
    <3> QED  BY <3>2, <3>3
  <2> QED  BY <2>1, <2>2 DEF HoldersPaid
<1> QED  BY <1>1, <1>2 DEF WriteOwner

\* Every step keeps the holders of an epoch paid for.
LEMMA HolderStep == TypeInv /\ HoldersPaid /\ [Next]_vars => HoldersPaid'
<1> SUFFICES ASSUME TypeOK, TypeOK', HoldersPaid, [Next]_vars  PROVE HoldersPaid'
  BY TypeStep DEF TypeInv
<1> DEFINE Idle == {"down", "loading", "loaded", "taking"}
<1>0. /\ pc \in [Proc -> Phase] /\ held \in [Proc -> Nat] /\ durable \in [Proc -> BOOLEAN]
      /\ \A q \in Proc : pc[q] \in Idle => ~durable[q]
  BY DEF TypeOK, HoldersPaid
<1>1. ASSUME UNCHANGED <<owner, held, durable, unseen>>,
             \A q \in Proc : pc'[q] \in Idle => pc[q] \in Idle
      PROVE  HoldersPaid'
  BY <1>0, <1>1, FewerHolders
<1>2. CASE UNCHANGED vars
  BY <1>1, <1>2 DEF vars, files, engines, past
<1>3. ASSUME NEW p \in Proc, LoadTables(p) \/ LoadTail(p)  PROVE HoldersPaid'
  BY <1>0, <1>1, <1>3 DEF LoadTables, LoadTail, files, past
<1>4. ASSUME NEW p \in Proc, ReadOwner(p)  PROVE HoldersPaid'
  <2>1. /\ pc[p] = "loaded" /\ pc' = [pc EXCEPT ![p] = "taking"]
        /\ UNCHANGED <<owner, durable, unseen>>
        /\ \A q \in Proc : q # p => held'[q] = held[q]
    BY <1>0, <1>4 DEF ReadOwner, files
  <2> QED  BY <1>0, <2>1, FewerHolders
<1>5. ASSUME NEW p \in Proc, WriteOwner(p)  PROVE HoldersPaid'
  BY <1>5, OneMoreHolder
<1>6. ASSUME NEW p \in Proc, Crash(p) \/ Shutdown(p)  PROVE HoldersPaid'
  <2>1. /\ pc' = [pc EXCEPT ![p] = "down"] /\ held' = [held EXCEPT ![p] = 0]
        /\ durable' = [durable EXCEPT ![p] = FALSE] /\ UNCHANGED <<owner, unseen>>
    BY <1>6 DEF Crash, Shutdown, Vanish, files, past
  <2> QED  BY <1>0, <2>1, FewerHolders
<1>7. ASSUME NEW p \in Proc, NEW w \in Write, Admit(p, w)  PROVE HoldersPaid'
  BY <1>0, <1>1, <1>7 DEF Admit, files, past
<1>8. ASSUME NEW p \in Proc, NEW w \in Write, Fence(p, w)  PROVE HoldersPaid'
  BY <1>1, <1>8 DEF Fence, files, engines, past
<1>9. ASSUME NEW p \in Proc, AppendRecord(p) \/ Save(p) \/ SaveFails(p) \/ Publish(p)
      PROVE  HoldersPaid'
  <2>1. /\ UNCHANGED <<owner, held, durable, unseen>>
        /\ pc' \in {[pc EXCEPT ![p] = "appended"], [pc EXCEPT ![p] = "saved"],
                    [pc EXCEPT ![p] = "idle"]}
    BY <1>9 DEF AppendRecord, Save, SaveFails, Publish, engines, past
  <2> QED  BY <1>0, <1>1, <2>1
<1> QED
  BY <1>2, <1>3, <1>4, <1>5, <1>6, <1>7, <1>8, <1>9 DEF Next

\* Every step keeps the appends of an overtaken writer paid for.
LEMMA AppendsStep == TypeInv /\ AppendsPaid /\ [Next]_vars => AppendsPaid'
<1> SUFFICES ASSUME TypeOK, AppendsPaid, [Next]_vars  PROVE AppendsPaid'
  BY DEF TypeInv
<1> USE FenceAssumption
<1>0. /\ pc \in [Proc -> Phase] /\ held \in [Proc -> Nat] /\ late \in [Proc -> Nat]
      /\ owner \in Nat /\ unseen \in Nat
  BY DEF TypeOK
<1>1. CASE UNCHANGED vars
  BY <1>1 DEF vars, files, engines, past, AppendsPaid
<1>2. ASSUME NEW p \in Proc, LoadTables(p)  PROVE AppendsPaid'
  BY <1>0, <1>2 DEF LoadTables, files, AppendsPaid
<1>3. ASSUME NEW p \in Proc, LoadTail(p)  PROVE AppendsPaid'
  BY <1>0, <1>3 DEF LoadTail, files, past, AppendsPaid
<1>4. ASSUME NEW p \in Proc, ReadOwner(p)  PROVE AppendsPaid'
  <2>1. /\ late[p] = 0 /\ pc' = [pc EXCEPT ![p] = "taking"] /\ UNCHANGED <<owner, unseen, late>>
        /\ \A q \in Proc : q # p => held'[q] = held[q]
    BY <1>0, <1>4 DEF ReadOwner, files, AppendsPaid
  <2> QED  BY <1>0, <2>1 DEF AppendsPaid
<1>5. ASSUME NEW p \in Proc, WriteOwner(p)  PROVE AppendsPaid'
  <2>1. /\ late[p] = 0 /\ late' = late /\ pc' = [pc EXCEPT ![p] = "idle"]
        /\ \A q \in Proc : q # p => held'[q] = held[q] /\ pc'[q] = pc[q]
    BY <1>0, <1>5 DEF WriteOwner, AppendsPaid
  <2>2. CASE UNCHANGED <<owner, unseen>>  BY <1>0, <2>1, <2>2 DEF AppendsPaid
  <2>3. CASE owner' = owner + 1 /\ unseen' = unseen
    BY <1>0, <2>1, <2>3 DEF AppendsPaid
  <2>4. CASE unseen' = unseen + 1
    <3> SUFFICES ASSUME NEW q \in Proc
                 PROVE  /\ late[q] <= unseen + 1
                        /\ pc'[q] \in {"loading", "loaded", "taking"} => late[q] = 0
      BY <1>0, <2>1, <2>4 DEF AppendsPaid
    <3> QED  BY <1>0, <2>1 DEF AppendsPaid
  <2> QED  BY <1>5, <2>2, <2>3, <2>4 DEF WriteOwner
<1>6. ASSUME NEW p \in Proc, Crash(p) \/ Shutdown(p)  PROVE AppendsPaid'
  <2>1. /\ pc' = [pc EXCEPT ![p] = "down"] /\ held' = [held EXCEPT ![p] = 0]
        /\ UNCHANGED <<owner, late, unseen>>
    BY <1>6 DEF Crash, Shutdown, Vanish, files, past
  <2> QED  BY <1>0, <2>1 DEF AppendsPaid
<1>7. ASSUME NEW p \in Proc, NEW w \in Write, Admit(p, w)  PROVE AppendsPaid'
  <2>1. late[p] <= unseen  BY <1>0, <1>7 DEF Admit, is_current, AppendsPaid
  <2> QED  BY <1>0, <1>7, <2>1 DEF Admit, files, past, AppendsPaid
<1>8. ASSUME NEW p \in Proc, NEW w \in Write, Fence(p, w)  PROVE AppendsPaid'
  BY <1>8 DEF Fence, files, engines, past, AppendsPaid
<1>9. ASSUME NEW p \in Proc, AppendRecord(p)  PROVE AppendsPaid'
  <2>1. late[p] <= unseen /\ pc' = [pc EXCEPT ![p] = "appended"]
        /\ UNCHANGED <<owner, held, unseen>>
        /\ late' = [late EXCEPT ![p] = IF held[p] < owner THEN @ + 1 ELSE @]
    BY <1>0, <1>9 DEF AppendRecord, engines, AppendsPaid
  <2>2. held[p] >= owner => late'[p] = late[p]  BY <1>0, <2>1
  <2>3. late'[p] <= unseen + 1  BY <1>0, <2>1
  <2> QED  BY <1>0, <2>1, <2>2, <2>3 DEF AppendsPaid
<1>10. ASSUME NEW p \in Proc, Save(p) \/ SaveFails(p) \/ Publish(p)  PROVE AppendsPaid'
  <2>1. /\ pc' \in {[pc EXCEPT ![p] = "saved"], [pc EXCEPT ![p] = "idle"]}
        /\ pc[p] \in {"appended", "saved"}
        /\ UNCHANGED <<owner, held, late, unseen>>
    BY <1>10 DEF Save, SaveFails, Publish, engines, past
  <2> QED  BY <1>0, <2>1 DEF AppendsPaid
<1> QED
  BY <1>1, <1>2, <1>3, <1>4, <1>5, <1>6, <1>7, <1>8, <1>9, <1>10 DEF Next

\* However many servers overlap or start at the same time, a writer that has been
\* overtaken finishes the command it was in the middle of, and appends again only
\* as often as a start wrote over an epoch it had not read.
THEOREM OvertakenAppendsOnce == Spec => []StaleAppendsOnce
<1>1. Init => TypeInv /\ AppendsPaid  BY TypeInit, TakeoverInit
<1>2. TypeInv /\ AppendsPaid /\ [Next]_vars => TypeInv' /\ AppendsPaid'
  BY TypeStep, AppendsStep
<1>3. AppendsPaid => StaleAppendsOnce  BY DEF AppendsPaid, StaleAppendsOnce
<1> QED  BY <1>1, <1>2, <1>3, PTL DEF Spec

\* However many servers overlap or start at the same time, an epoch that the owner
\* file took is held by one of them, and by one more for each start that wrote
\* over an epoch it had not read.
THEOREM EpochNamesOneServer == Spec => []OneHolderPerEpoch
<1>1. Init => TypeInv /\ HoldersPaid  BY TypeInit, TakeoverInit
<1>2. TypeInv /\ HoldersPaid /\ [Next]_vars => TypeInv' /\ HoldersPaid'
  BY TypeStep, HolderStep
<1>3. TypeInv /\ HoldersPaid => OneHolderPerEpoch
  BY DEF TypeInv, TypeOK, HoldersPaid, OneHolderPerEpoch
<1> QED  BY <1>1, <1>2, <1>3, PTL DEF Spec

-----------------------------------------------------------------------------
(* One server at a time.  Then the log is written by one process after the     *)
(* other, each of which counts on from what it loaded.                         *)

OneServer == "run" \notin Allowed

Alone == \A p, q \in Live : p = q

\* The log, the counter of the process that runs, and the length its commit
\* measured fit together in each phase.
LogOfOne ==
    /\ decodes /\ SeqsGapFree
    /\ \A p \in Proc :
        /\ pc[p] \in {"loaded", "taking", "idle", "measured"} => committed_seq[p] = Len(log)
        /\ pc[p] = "measured" => rollback[p] = log
        /\ pc[p] \in {"appended", "saved"} =>
            /\ Len(log) = committed_seq[p] + 1
            /\ rollback[p] = SubSeq(log, 1, committed_seq[p])

\* A committed write is in the tables and in the memory of the server that runs,
\* which the next save will put in the place of the tables.
CommittedKept ==
    /\ \A p \in Proc : cur[p] # NoWrite => cur[p] \in mem[p]
    /\ \A p \in Proc : pc[p] = "saved" => tables = mem[p]
    /\ \A w \in Write : answer[w] = "committed" =>
        w \in tables /\ \A p \in Live : w \in mem[p]

OneServerInv == Alone /\ LogOfOne /\ CommittedKept

\* No server runs at first.
LEMMA OneServerInit == Init => OneServerInv
BY FenceAssumption DEF Init, OneServerInv, Alone, Live, LogOfOne, SeqsGapFree, CommittedKept

\* In a log numbered 1, 2, 3, ... the scan finds the length.
LEMMA HighWaterIsLength ==
    ASSUME TypeInv, SeqsGapFree
    PROVE  HighWater = Len(log)
<1>1. Len(log) \in Nat  BY DEF TypeInv, TypeOK
<1>2. /\ HighWater \in {0} \cup {log[i].seq : i \in 1..Len(log)}
      /\ HighWater \in Nat /\ \A i \in 1..Len(log) : log[i].seq <= HighWater
  <2>1. Len(log) \in {0} \cup {log[i].seq : i \in 1..Len(log)}
        /\ \A i \in 1..Len(log) : log[i].seq <= Len(log)
    BY <1>1 DEF SeqsGapFree
  <2> QED  BY <2>1, HighWaterFound DEF HighWater
<1>3. HighWater <= Len(log)  BY <1>1, <1>2 DEF SeqsGapFree
<1>4. HighWater >= Len(log)
  <2>1. CASE Len(log) = 0  BY <1>2, <2>1
  <2>2. CASE Len(log) # 0
    <3>1. Len(log) \in 1..Len(log)  BY <1>1, <2>2
    <3> QED  BY <1>1, <1>2, <3>1 DEF SeqsGapFree
  <2> QED  BY <2>1, <2>2
<1> QED  BY <1>1, <1>2, <1>3, <1>4

\* No step starts a second server.
LEMMA AloneStep ==
    ASSUME OneServer
    PROVE  TypeInv /\ Alone /\ [Next]_vars => Alone'
<1> SUFFICES ASSUME TypeOK, Alone, [Next]_vars  PROVE Alone'
  BY DEF TypeInv
<1>0. pc \in [Proc -> Phase]  BY DEF TypeOK
<1>1. CASE UNCHANGED vars  BY <1>1 DEF vars, Alone, Live
<1>2. ASSUME NEW p \in Proc, LoadTables(p)  PROVE Alone'
  <2>1. Live = {}  BY <1>2 DEF LoadTables, OneServer
  <2>2. pc' = [pc EXCEPT ![p] = "loading"]  BY <1>2 DEF LoadTables
  <2>3. Live' \subseteq {p}  BY <1>0, <2>1, <2>2 DEF Live
  <2> QED  BY <2>3 DEF Alone
<1>3. ASSUME NEW p \in Proc, NEW x \in Phase, pc' = [pc EXCEPT ![p] = x],
             pc[p] # "down" \/ x = "down"
      PROVE  Alone'
  <2>1. Live' \subseteq Live  BY <1>0, <1>3 DEF Live
  <2> QED  BY <2>1 DEF Alone
<1>4. ASSUME NEW p \in Proc, LoadTail(p) \/ ReadOwner(p) \/ WriteOwner(p)  PROVE Alone'
  BY <1>3, <1>4 DEF LoadTail, ReadOwner, WriteOwner, Phase
<1>5. ASSUME NEW p \in Proc, Crash(p) \/ Shutdown(p)  PROVE Alone'
  BY <1>3, <1>5 DEF Crash, Shutdown, Vanish, Phase
<1>6. ASSUME NEW p \in Proc, NEW w \in Write, Admit(p, w)  PROVE Alone'
  BY <1>3, <1>6 DEF Admit, Phase
<1>7. ASSUME NEW p \in Proc, NEW w \in Write, Fence(p, w)  PROVE Alone'
  BY <1>7 DEF Fence, Alone, Live
<1>8. ASSUME NEW p \in Proc, AppendRecord(p) \/ Save(p) \/ SaveFails(p) \/ Publish(p)
      PROVE  Alone'
  BY <1>3, <1>8 DEF AppendRecord, Save, SaveFails, Publish, Phase
<1> QED
  BY <1>1, <1>2, <1>4, <1>5, <1>6, <1>7, <1>8 DEF Next

\* Every step keeps counter, log and rollback point of the one server together.
LEMMA LogOfOneStep ==
    TypeInv /\ Alone /\ LogOfOne /\ [Next]_vars => LogOfOne'
<1> SUFFICES ASSUME TypeInv, TypeOK, Alone, LogOfOne, [Next]_vars  PROVE LogOfOne'
  BY DEF TypeInv
<1>0. /\ pc \in [Proc -> Phase] /\ committed_seq \in [Proc -> Nat]
      /\ rollback \in [Proc -> Seq(Record)] /\ log \in Seq(Record) /\ Len(log) \in Nat
  BY DEF TypeOK
<1>1. CASE UNCHANGED vars
  BY <1>1 DEF vars, files, engines, LogOfOne, SeqsGapFree
<1>2. ASSUME NEW p \in Proc, LoadTables(p)  PROVE LogOfOne'
  BY <1>0, <1>2 DEF LoadTables, files, LogOfOne, SeqsGapFree
<1>3. ASSUME NEW p \in Proc, LoadTail(p)  PROVE LogOfOne'
  <2>1. HighWater = Len(log)  BY HighWaterIsLength DEF LogOfOne
  <2> QED  BY <1>0, <1>3, <2>1 DEF LoadTail, files, LogOfOne, SeqsGapFree
<1>4. ASSUME NEW p \in Proc, ReadOwner(p) \/ WriteOwner(p)  PROVE LogOfOne'
  BY <1>0, <1>4 DEF ReadOwner, WriteOwner, files, LogOfOne, SeqsGapFree
<1>5. ASSUME NEW p \in Proc, Crash(p) \/ Shutdown(p)  PROVE LogOfOne'
  <2>1. /\ UNCHANGED <<log, decodes>> /\ pc' = [pc EXCEPT ![p] = "down"]
        /\ committed_seq' = [committed_seq EXCEPT ![p] = 0]
        /\ rollback' = [rollback EXCEPT ![p] = <<>>]
    BY <1>5 DEF Crash, Shutdown, Vanish, files
  <2> QED  BY <1>0, <2>1 DEF LogOfOne, SeqsGapFree
<1>6. ASSUME NEW p \in Proc, NEW w \in Write, Admit(p, w)  PROVE LogOfOne'
  BY <1>0, <1>6 DEF Admit, files, LogOfOne, SeqsGapFree
<1>7. ASSUME NEW p \in Proc, NEW w \in Write, Fence(p, w)  PROVE LogOfOne'
  BY <1>7 DEF Fence, files, engines, LogOfOne, SeqsGapFree
<1>8. ASSUME NEW p \in Proc, AppendRecord(p)  PROVE LogOfOne'
  <2>1. /\ Len(log') = Len(log) + 1
        /\ \A i \in 1..Len(log) : log'[i] = log[i]
        /\ log'[Len(log) + 1] =
             [seq |-> committed_seq[p] + 1, epoch |-> held[p], write |-> cur[p]]
        /\ \A i \in 1..Len(log') : i \in 1..Len(log) \/ i = Len(log) + 1
        /\ log' \in Seq(Record)
    BY <1>8, OwnRecordAppended
  <2>2. /\ pc[p] = "measured" /\ pc' = [pc EXCEPT ![p] = "appended"]
        /\ UNCHANGED <<decodes, committed_seq, rollback>>
    BY <1>8 DEF AppendRecord, engines
  <2>3. committed_seq[p] = Len(log) /\ rollback[p] = log
    BY <2>2 DEF LogOfOne
  <2>4. SeqsGapFree'
    BY <1>0, <2>1, <2>3 DEF LogOfOne, SeqsGapFree
  <2>5. SubSeq(log', 1, committed_seq[p]) = log
    <3>1. /\ SubSeq(log', 1, Len(log)) \in Seq(Record)
          /\ Len(SubSeq(log', 1, Len(log))) = Len(log)
          /\ \A i \in 1..Len(log) : SubSeq(log', 1, Len(log))[i] = log'[i]
      BY <1>0, <2>1, SubSeqProperties
    <3> QED  BY <1>0, <2>1, <2>3, <3>1, SeqEqual
  <2>6. \A q \in Proc : q # p => pc[q] = "down" /\ pc'[q] = "down"
    BY <1>0, <2>2 DEF Alone, Live
  <2> QED  BY <1>0, <2>1, <2>2, <2>3, <2>4, <2>5, <2>6 DEF LogOfOne
<1>9. ASSUME NEW p \in Proc, Save(p)  PROVE LogOfOne'
  BY <1>0, <1>9 DEF Save, engines, LogOfOne, SeqsGapFree
<1>10. ASSUME NEW p \in Proc, SaveFails(p)  PROVE LogOfOne'
  <2> DEFINE n == committed_seq[p]
  <2>1. pc[p] = "appended"  BY <1>10 DEF SaveFails
  <2>2. n \in Nat /\ Len(log) = n + 1 /\ rollback[p] = SubSeq(log, 1, n)
    BY <1>0, <2>1 DEF LogOfOne
  <2>3. /\ SubSeq(log, 1, n) \in Seq(Record) /\ Len(SubSeq(log, 1, n)) = n
        /\ \A i \in 1..n : SubSeq(log, 1, n)[i] = log[i]
    BY <1>0, <2>2, SubSeqProperties
  <2>4. n <= Len(log) /\ Len(rollback[p]) = n  BY <2>2, <2>3
  <2>5. log' = SubSeq(log, 1, n) /\ decodes' = decodes
    BY <1>10, <2>2, <2>3, <2>4 DEF SaveFails
  <2>6. /\ pc' = [pc EXCEPT ![p] = "idle"] /\ committed_seq' = committed_seq
        /\ rollback' = [rollback EXCEPT ![p] = <<>>]
    BY <1>10 DEF SaveFails
  <2>7. SeqsGapFree'  BY <2>2, <2>3, <2>5 DEF LogOfOne, SeqsGapFree
  <2>8. \A q \in Proc : q # p => pc[q] = "down" /\ pc'[q] = "down"
    BY <1>0, <2>1, <2>6 DEF Alone, Live
  <2> QED  BY <1>0, <2>3, <2>5, <2>6, <2>7, <2>8 DEF LogOfOne
<1>11. ASSUME NEW p \in Proc, Publish(p)  PROVE LogOfOne'
  <2>1. /\ pc[p] = "saved" /\ pc' = [pc EXCEPT ![p] = "idle"]
        /\ committed_seq' = [committed_seq EXCEPT ![p] = @ + 1]
        /\ UNCHANGED <<log, decodes>>
    BY <1>11 DEF Publish
  <2>2. Len(log) = committed_seq[p] + 1  BY <2>1 DEF LogOfOne
  <2>3. \A q \in Proc : q # p => pc[q] = "down" /\ pc'[q] = "down"
    BY <1>0, <2>1 DEF Alone, Live
  <2> QED  BY <1>0, <2>1, <2>2, <2>3 DEF LogOfOne, SeqsGapFree
<1> QED
  BY <1>1, <1>2, <1>3, <1>4, <1>5, <1>6, <1>7, <1>8, <1>9, <1>10, <1>11 DEF Next

\* Every step keeps a committed write in the tables and in memory.
LEMMA CommittedStep ==
    ASSUME OneServer
    PROVE  TypeInv /\ Alone /\ CommittedKept /\ [Next]_vars => CommittedKept'
<1> SUFFICES ASSUME TypeOK, Alone, CommittedKept, [Next]_vars  PROVE CommittedKept'
  BY DEF TypeInv
<1> USE FenceAssumption
<1>0. /\ pc \in [Proc -> Phase] /\ mem \in [Proc -> SUBSET Write]
      /\ cur \in [Proc -> Write \cup {NoWrite}] /\ answer \in [Write -> Answer]
      /\ \A p \in Proc : cur[p] # NoWrite <=> pc[p] \in {"measured", "appended", "saved"}
  BY DEF TypeOK
<1>1. CASE UNCHANGED vars
  BY <1>1 DEF vars, files, engines, CommittedKept, Live
<1>2. ASSUME NEW p \in Proc, LoadTables(p)  PROVE CommittedKept'
  <2>1. Live = {} /\ pc' = [pc EXCEPT ![p] = "loading"]
        /\ mem' = [mem EXCEPT ![p] = tables] /\ UNCHANGED <<tables, cur, answer>>
    BY <1>2 DEF LoadTables, OneServer, files
  <2>2. \A q \in Proc : pc[q] = "down"  BY <2>1 DEF Live
  <2>3. \A q \in Live' : q = p  BY <1>0, <2>1, <2>2 DEF Live
  <2> QED  BY <1>0, <2>1, <2>2, <2>3 DEF CommittedKept
<1>3. ASSUME NEW p \in Proc, LoadTail(p)  PROVE CommittedKept'
  <2>1. Live' = Live  BY <1>0, <1>3 DEF LoadTail, Live
  <2> QED  BY <1>0, <1>3, <2>1 DEF LoadTail, files, CommittedKept
<1>4. ASSUME NEW p \in Proc, ReadOwner(p) \/ WriteOwner(p)  PROVE CommittedKept'
  <2>1. Live' = Live  BY <1>0, <1>4 DEF ReadOwner, WriteOwner, Live
  <2> QED  BY <1>0, <1>4, <2>1 DEF ReadOwner, WriteOwner, files, CommittedKept
<1>5. ASSUME NEW p \in Proc, Crash(p) \/ Shutdown(p)  PROVE CommittedKept'
  <2>1. /\ pc' = [pc EXCEPT ![p] = "down"] /\ mem' = [mem EXCEPT ![p] = {}]
        /\ cur' = [cur EXCEPT ![p] = NoWrite] /\ p \in Live
    BY <1>5 DEF Crash, Shutdown, Vanish, Live
  <2>2. \A q \in Proc : pc'[q] = "down" /\ (q # p => pc[q] = "down")
    BY <1>0, <2>1 DEF Alone, Live
  <2>3. tables' = tables \/ tables' = mem[p]
    BY <1>5 DEF Crash, Shutdown, files
  <2>4. \A w \in Write : answer'[w] = "committed" => answer[w] = "committed"
    BY <1>5 DEF Crash, Shutdown
  <2>5. \A w \in Write : answer'[w] = "committed" => w \in tables'
    BY <2>1, <2>3, <2>4 DEF CommittedKept
  <2>6. Live' = {}  BY <2>2 DEF Live
  <2> QED  BY <1>0, <2>1, <2>2, <2>5, <2>6 DEF CommittedKept
<1>6. ASSUME NEW p \in Proc, NEW w \in Write, Admit(p, w)  PROVE CommittedKept'
  <2>1. Live' = Live  BY <1>0, <1>6 DEF Admit, Live
  <2>2. \A v \in Write : answer'[v] = "committed" => answer[v] = "committed"
    BY <1>0, <1>6 DEF Admit
  <2> QED  BY <1>0, <1>6, <2>1, <2>2 DEF Admit, files, CommittedKept
<1>7. ASSUME NEW p \in Proc, NEW w \in Write, Fence(p, w)  PROVE CommittedKept'
  <2>1. \A v \in Write : answer'[v] = "committed" => answer[v] = "committed"
    BY <1>0, <1>7 DEF Fence
  <2> QED  BY <1>7, <2>1 DEF Fence, files, engines, CommittedKept, Live
<1>8. ASSUME NEW p \in Proc, AppendRecord(p)  PROVE CommittedKept'
  <2>1. Live' = Live  BY <1>0, <1>8 DEF AppendRecord, Live
  <2> QED  BY <1>0, <1>8, <2>1 DEF AppendRecord, engines, CommittedKept
<1>9. ASSUME NEW p \in Proc, Save(p)  PROVE CommittedKept'
  <2>1. /\ Live' = Live /\ tables' = mem[p] /\ UNCHANGED <<mem, cur, answer>> /\ p \in Live
        /\ pc' = [pc EXCEPT ![p] = "saved"]
    BY <1>0, <1>9 DEF Save, engines, Live
  <2>2. \A q \in Proc : pc'[q] = "saved" => q = p
    BY <1>0, <2>1 DEF Alone, Live
  <2> QED  BY <1>0, <2>1, <2>2 DEF CommittedKept
<1>10. ASSUME NEW p \in Proc, SaveFails(p)  PROVE CommittedKept'
  <2>1. Live' = Live  BY <1>0, <1>10 DEF SaveFails, Live
  <2>2. cur[p] \in Write  BY <1>0, <1>10 DEF SaveFails
  <2>3. \A v \in Write : answer'[v] = "committed" => answer[v] = "committed"
    BY <1>0, <1>10, <2>2 DEF SaveFails
  <2> QED  BY <1>0, <1>10, <2>1, <2>3 DEF SaveFails, CommittedKept
<1>11. ASSUME NEW p \in Proc, Publish(p)  PROVE CommittedKept'
  <2>1. Live' = Live /\ p \in Live  BY <1>0, <1>11 DEF Publish, Live
  <2>2. cur[p] \in Write /\ cur[p] \in mem[p] /\ tables = mem[p]
    BY <1>0, <1>11 DEF Publish, CommittedKept
  <2>3. \A v \in Write : answer'[v] = "committed" => answer[v] = "committed" \/ v = cur[p]
    BY <1>0, <1>11, <2>2 DEF Publish
  <2>4. \A q \in Live : q = p  BY <2>1 DEF Alone
  <2> QED  BY <1>0, <1>11, <2>1, <2>2, <2>3, <2>4 DEF Publish, CommittedKept
<1> QED
  BY <1>1, <1>2, <1>3, <1>4, <1>5, <1>6, <1>7, <1>8, <1>9, <1>10, <1>11 DEF Next

\* The invariant of one server holds throughout.
LEMMA OneServerAlways ==
    ASSUME OneServer
    PROVE  Spec => [](TypeInv /\ OneServerInv)
<1>1. Init => TypeInv /\ OneServerInv  BY TypeInit, OneServerInit
<1>2. TypeInv /\ OneServerInv /\ [Next]_vars => TypeInv' /\ OneServerInv'
  BY TypeStep, AloneStep, LogOfOneStep, CommittedStep DEF OneServerInv
<1> QED  BY <1>1, <1>2, PTL DEF Spec

\* One server after the other, crashed or stopped, some of whose saves fail and
\* whose owner file may be unreadable or unwritable: what a client was told is
\* committed is in what the next start loads.
THEOREM CommittedSurvives ==
    ASSUME OneServer
    PROVE  Spec => []AckedSurvives
<1>1. TypeInv /\ OneServerInv => AckedSurvives
  BY DEF OneServerInv, CommittedKept, AckedSurvives
<1> QED  BY <1>1, OneServerAlways, PTL

\* Whatever server wrote them, the records are numbered 1, 2, 3, ...
THEOREM LogIsSound ==
    ASSUME OneServer
    PROVE  Spec => []LogSound
<1>1. TypeInv /\ OneServerInv => LogSound
  BY DEF TypeInv, OneServerInv, LogOfOne, LogSound
<1> QED  BY <1>1, OneServerAlways, PTL

-----------------------------------------------------------------------------
(* The epochs of the log.  With one server at a time a commit runs under the   *)
(* epoch in the owner file, so the epochs of the log can only fall when that   *)
(* epoch does: when a start that could not read the file mints 1 again.  Such  *)
(* a start pays for one fall, the one the next record may be.                  *)

FallsIn(l) == {i \in 2..Len(l) : l[i].epoch < l[i - 1].epoch}

\* How many falls a record of epoch e would add at the end of l.
FallNext(l, e) == IF Len(l) > 0 /\ e < l[Len(l)].epoch THEN 1 ELSE 0

BlindBudget ==
    /\ Cardinality(FallsIn(log)) + FallNext(log, owner) <= blind
    /\ \A p \in Proc :
        /\ pc[p] = "taking" =>
            held[p] = owner \/ (held[p] = 0 /\ Cardinality(FallsIn(log)) + 1 <= blind)
        /\ pc[p] \in Committing => held[p] = owner
        /\ pc[p] \in {"down", "loading", "loaded"} => held[p] = 0
        /\ pc[p] \in {"appended", "saved"} => Len(log) > 0 /\ log[Len(log)].epoch = owner

\* The falls of a log are finitely many.
LEMMA FallsFinite ==
    ASSUME NEW l \in Seq(Record)
    PROVE  IsFiniteSet(FallsIn(l)) /\ Cardinality(FallsIn(l)) \in Nat
<1>1. IsFiniteSet(2..Len(l))  BY FS_Interval
<1>2. FallsIn(l) \subseteq 2..Len(l)  BY DEF FallsIn
<1> QED  BY <1>1, <1>2, FS_Subset, FS_CardinalityType

\* One more record adds the fall it is, if it is one.
LEMMA FallsGrow ==
    ASSUME NEW l \in Seq(Record), NEW m \in Seq(Record),
           Len(m) = Len(l) + 1, \A i \in 1..Len(l) : m[i] = l[i]
    PROVE  Cardinality(FallsIn(m)) = Cardinality(FallsIn(l)) + FallNext(l, m[Len(m)].epoch)
<1> DEFINE n == Len(l)
<1>1. n \in Nat /\ Len(m) = n + 1  OBVIOUS
<1>2. IsFiniteSet(FallsIn(l)) /\ Cardinality(FallsIn(l)) \in Nat  BY FallsFinite
<1>3. n + 1 \notin FallsIn(l)  BY <1>1 DEF FallsIn
<1>4. \A i \in 2..n : m[i] = l[i] /\ m[i - 1] = l[i - 1]  BY <1>1
<1>5. CASE n > 0 /\ m[n + 1].epoch < l[n].epoch
  <2>1. n + 1 \in FallsIn(m)
    <3>1. n + 1 \in 2..Len(m) /\ m[(n + 1) - 1] = l[n]  BY <1>1, <1>5
    <3> QED  BY <1>5, <3>1 DEF FallsIn
  <2>2. \A i : i \in FallsIn(m) <=> i \in FallsIn(l) \cup {n + 1}
    <3> TAKE i
    <3>1. i \in 2..Len(m) <=> i \in 2..n \/ i = n + 1  BY <1>1, <1>5
    <3> QED  BY <1>4, <2>1, <3>1 DEF FallsIn
  <2>3. FallsIn(m) = FallsIn(l) \cup {n + 1}  BY <2>2
  <2>4. Cardinality(FallsIn(m)) = Cardinality(FallsIn(l)) + 1
    <3> DEFINE F == FallsIn(l)
    <3>1. IsFiniteSet(F) /\ n + 1 \notin F  BY <1>2, <1>3
    <3> HIDE DEF F
    <3>2. Cardinality(F \cup {n + 1}) = Cardinality(F) + 1  BY ONLY <3>1, FS_AddElement
    <3> QED  BY <2>3, <3>2 DEF F
  <2>5. FallNext(l, m[Len(m)].epoch) = 1  BY <1>1, <1>5 DEF FallNext
  <2> QED  BY <2>4, <2>5
<1>6. CASE ~(n > 0 /\ m[n + 1].epoch < l[n].epoch)
  <2>1. \A i : i \in FallsIn(m) <=> i \in FallsIn(l)
    <3> TAKE i
    <3>1. i \in 2..Len(m) <=> i \in 2..n \/ (n > 0 /\ i = n + 1)  BY <1>1
    <3>2. n > 0 => m[(n + 1) - 1] = l[n]  BY <1>1
    <3> QED  BY <1>1, <1>4, <1>6, <3>1, <3>2 DEF FallsIn
  <2>2. FallsIn(m) = FallsIn(l)  BY <2>1
  <2>3. FallNext(l, m[Len(m)].epoch) = 0  BY <1>1, <1>6 DEF FallNext
  <2> QED  BY <1>2, <2>2, <2>3
<1> QED  BY <1>5, <1>6

\* The empty log has no fall.
LEMMA BlindInit == Init => BlindBudget
<1> SUFFICES ASSUME Init  PROVE BlindBudget
  OBVIOUS
<1>1. log = <<>> /\ blind = 0 /\ \A p \in Proc : pc[p] = "down" /\ held[p] = 0
  BY DEF Init
<1>2. FallsIn(log) = {} /\ FallNext(log, owner) = 0  BY <1>1 DEF FallsIn, FallNext
<1>3. Cardinality(FallsIn(log)) = 0  BY <1>2, FS_EmptySet
<1> QED  BY <1>1, <1>2, <1>3 DEF BlindBudget, Committing

\* Every step keeps the falls within the blind starts that paid for them.
LEMMA BlindStep ==
    TypeInv /\ Alone /\ LogOfOne /\ BlindBudget /\ [Next]_vars => BlindBudget'
<1> SUFFICES ASSUME TypeInv, TypeOK, Alone, LogOfOne, BlindBudget, [Next]_vars
             PROVE  BlindBudget'
  BY DEF TypeInv
<1> DEFINE c == Cardinality(FallsIn(log))
           f == FallNext(log, owner)
<1>0. /\ pc \in [Proc -> Phase] /\ held \in [Proc -> Nat] /\ owner \in Nat /\ blind \in Nat
      /\ log \in Seq(Record) /\ Len(log) \in Nat
      /\ \A i \in 1..Len(log) : log[i] \in Record /\ log[i].epoch \in Nat
  <2>1. log \in Seq(Record) /\ blind \in 0..MaxBlind  BY DEF TypeOK
  <2>2. \A i \in 1..Len(log) : log[i] \in Record  BY <2>1
  <2> QED  BY <2>1, <2>2, FenceAssumption DEF TypeOK, Record
<1>a. c \in Nat /\ f \in {0, 1} /\ c + f <= blind
  BY <1>0, FallsFinite DEF BlindBudget, FallNext
<1>1. ASSUME UNCHANGED <<log, owner, blind>>, NEW p \in Proc,
             \A q \in Proc : q # p => pc'[q] = pc[q] /\ held'[q] = held[q],
             pc'[p] = "idle" \/ (pc'[p] = "down" /\ held'[p] = 0)
                \/ (held'[p] = held[p] /\ pc'[p] = pc[p])
                \/ (pc'[p] \in {"loading", "loaded"} /\ held'[p] = 0)
                \/ (pc'[p] = "measured" /\ held'[p] = owner)
                \/ (pc[p] = "appended" /\ pc'[p] = "saved" /\ held'[p] = held[p])
      PROVE  BlindBudget'
  <2>1. c' = c /\ f' = f  BY <1>1
  <2>2. \A q \in Proc :
          /\ pc'[q] = "taking" =>
               held'[q] = owner' \/ (held'[q] = 0 /\ c' + 1 <= blind')
          /\ pc'[q] \in Committing => held'[q] = owner'
          /\ pc'[q] \in {"down", "loading", "loaded"} => held'[q] = 0
          /\ pc'[q] \in {"appended", "saved"} => Len(log') > 0 /\ log'[Len(log')].epoch = owner'
    <3> SUFFICES ASSUME NEW q \in Proc
                 PROVE  /\ pc'[q] = "taking" =>
                             held'[q] = owner \/ (held'[q] = 0 /\ c + 1 <= blind)
                        /\ pc'[q] \in Committing => held'[q] = owner
                        /\ pc'[q] \in {"down", "loading", "loaded"} => held'[q] = 0
                        /\ pc'[q] \in {"appended", "saved"} =>
                             Len(log) > 0 /\ log[Len(log)].epoch = owner
      BY <1>1, <2>1
    <3>1. CASE pc'[q] = pc[q] /\ held'[q] = held[q]  BY <3>1 DEF BlindBudget, Committing
    <3>2. CASE q = p  BY <1>1, <3>2 DEF BlindBudget, Committing
    <3> QED  BY <1>1, <3>1, <3>2
  <2> QED  BY <1>1, <1>a, <2>1, <2>2 DEF BlindBudget
<1>2. CASE UNCHANGED vars
  BY <1>2 DEF vars, files, engines, past, BlindBudget
<1>3. ASSUME NEW p \in Proc, LoadTables(p)  PROVE BlindBudget'
  <2>1. held[p] = 0  BY <1>3 DEF LoadTables, BlindBudget
  <2> QED  BY <1>0, <1>1, <1>3, <2>1 DEF LoadTables, files
<1>4. ASSUME NEW p \in Proc, LoadTail(p)  PROVE BlindBudget'
  <2>1. held[p] = 0  BY <1>4 DEF LoadTail, BlindBudget
  <2> QED  BY <1>0, <1>1, <1>4, <2>1 DEF LoadTail, files, past
<1>5. ASSUME NEW p \in Proc, ReadOwner(p)  PROVE BlindBudget'
  <2>1. /\ pc[p] = "loaded" /\ pc' = [pc EXCEPT ![p] = "taking"]
        /\ UNCHANGED <<log, owner>> /\ held[p] = 0
        /\ \A q \in Proc : q # p => held'[q] = held[q]
    BY <1>0, <1>5 DEF ReadOwner, files, BlindBudget
  <2>2. \A q \in Proc : q # p => pc[q] = "down" /\ pc'[q] = "down"
    BY <1>0, <2>1 DEF Alone, Live
  <2>3. blind' >= blind /\ blind' \in Nat
        /\ (held'[p] = owner \/ (held'[p] = 0 /\ c + 1 <= blind'))
    BY <1>0, <1>5, <1>a, <2>1 DEF ReadOwner
  <2>4. c' = c /\ f' = f  BY <2>1
  <2> QED  BY <1>0, <1>a, <2>1, <2>2, <2>3, <2>4 DEF BlindBudget, Committing
<1>6. ASSUME NEW p \in Proc, WriteOwner(p)  PROVE BlindBudget'
  <2>1. /\ pc[p] = "taking" /\ pc' = [pc EXCEPT ![p] = "idle"]
        /\ UNCHANGED <<log, blind>>
    BY <1>6 DEF WriteOwner
  <2>2. \A q \in Proc : pc'[q] = "idle" \/ (pc'[q] = "down" /\ held'[q] = 0)
    BY <1>0, <1>6, <2>1 DEF WriteOwner, Alone, Live, BlindBudget
  <2>3. held[p] = owner \/ (held[p] = 0 /\ c + 1 <= blind)
    BY <2>1 DEF BlindBudget
  <2>4. owner' \in Nat /\ (owner' >= owner \/ c + 1 <= blind)
    BY <1>0, <1>6, <2>3 DEF WriteOwner
  <2>5. c' = c /\ f' \in {0, 1} /\ (owner' >= owner => f' <= f)
    BY <1>0, <2>1, <2>4 DEF FallNext
  <2>6. c' + f' <= blind'  BY <1>0, <1>a, <2>1, <2>4, <2>5
  <2> QED  BY <2>2, <2>6 DEF BlindBudget, Committing
<1>7. ASSUME NEW p \in Proc, Crash(p) \/ Shutdown(p)  PROVE BlindBudget'
  <2>1. /\ UNCHANGED <<log, owner, blind>> /\ pc' = [pc EXCEPT ![p] = "down"]
        /\ held' = [held EXCEPT ![p] = 0]
    BY <1>7 DEF Crash, Shutdown, Vanish, files, past
  <2> QED  BY <1>0, <1>1, <2>1
<1>8. ASSUME NEW p \in Proc, NEW w \in Write, Admit(p, w)  PROVE BlindBudget'
  <2>1. held[p] = owner  BY <1>8 DEF Admit, is_current
  <2> QED  BY <1>0, <1>1, <1>8, <2>1 DEF Admit, files, past
<1>9. ASSUME NEW p \in Proc, NEW w \in Write, Fence(p, w)  PROVE BlindBudget'
  BY <1>9, <1>1 DEF Fence, files, engines, past
<1>10. ASSUME NEW p \in Proc, AppendRecord(p)  PROVE BlindBudget'
  <2>1. /\ pc[p] = "measured" /\ pc' = [pc EXCEPT ![p] = "appended"]
        /\ UNCHANGED <<owner, held, blind>>
    BY <1>10 DEF AppendRecord, engines
  <2>2. held[p] = owner  BY <2>1 DEF BlindBudget, Committing
  <2>3. /\ log' \in Seq(Record) /\ Len(log') = Len(log) + 1
        /\ \A i \in 1..Len(log) : log'[i] = log[i]
        /\ log'[Len(log) + 1] =
             [seq |-> committed_seq[p] + 1, epoch |-> held[p], write |-> cur[p]]
    BY <1>10, OwnRecordAppended
  <2>4. log'[Len(log')].epoch = owner  BY <2>2, <2>3
  <2>5. c' = c + f  BY <1>0, <2>3, <2>4, FallsGrow
  <2>6. f' = 0  BY <1>0, <2>1, <2>4 DEF FallNext
  <2>7. \A q \in Proc : q # p => pc[q] = "down" /\ pc'[q] = "down"
    BY <1>0, <2>1 DEF Alone, Live
  <2> QED  BY <1>0, <1>a, <2>1, <2>2, <2>3, <2>4, <2>5, <2>6, <2>7 DEF BlindBudget, Committing
<1>11. ASSUME NEW p \in Proc, Save(p)  PROVE BlindBudget'
  BY <1>0, <1>1, <1>11 DEF Save, engines, past
<1>12. ASSUME NEW p \in Proc, SaveFails(p)  PROVE BlindBudget'
  <2> DEFINE n == committed_seq[p]
  <2>1. pc[p] = "appended" /\ pc' = [pc EXCEPT ![p] = "idle"] /\ UNCHANGED <<owner, blind>>
    BY <1>12 DEF SaveFails, past
  <2>2. /\ n \in Nat /\ Len(log) = n + 1 /\ rollback[p] = SubSeq(log, 1, n)
        /\ log[Len(log)].epoch = owner
    BY <2>1 DEF LogOfOne, BlindBudget, TypeOK
  <2>3. /\ SubSeq(log, 1, n) \in Seq(Record) /\ Len(SubSeq(log, 1, n)) = n
        /\ \A i \in 1..n : SubSeq(log, 1, n)[i] = log[i]
    BY <1>0, <2>2, SubSeqProperties
  <2>4. n <= Len(log) /\ Len(rollback[p]) = n  BY <2>2, <2>3
  <2>5. log' = SubSeq(log, 1, n)
    BY <1>12, <2>2, <2>3, <2>4 DEF SaveFails
  <2>6. c = c' + f'
    BY <1>0, <2>1, <2>2, <2>3, <2>5, FallsGrow
  <2>7. \A q \in Proc : pc'[q] = "idle" \/ (pc'[q] = "down" /\ held'[q] = 0)
    BY <1>0, <1>12, <2>1 DEF SaveFails, Alone, Live, BlindBudget
  <2> QED  BY <1>0, <1>a, <2>1, <2>6, <2>7 DEF BlindBudget, Committing
<1>13. ASSUME NEW p \in Proc, Publish(p)  PROVE BlindBudget'
  BY <1>0, <1>1, <1>13 DEF Publish, past
<1> QED
  BY <1>2, <1>3, <1>4, <1>5, <1>6, <1>7, <1>8, <1>9, <1>10, <1>11, <1>12, <1>13 DEF Next

\* One server after the other, some of which could not read the owner file: the
\* epochs of the log fall back at most once for each of those.
THEOREM FallsAreBlind ==
    ASSUME OneServer
    PROVE  Spec => []EpochsFallBlindOnly
<1>1. TypeInv /\ OneServerInv /\ BlindBudget /\ [Next]_vars => BlindBudget'
  BY BlindStep DEF OneServerInv
<1>2. TypeInv /\ BlindBudget => EpochsFallBlindOnly
  <2> SUFFICES ASSUME TypeOK, BlindBudget  PROVE EpochsFallBlindOnly
    BY DEF TypeInv
  <2>1. Cardinality(FallsIn(log)) \in Nat /\ blind \in Nat
    BY FallsFinite, FenceAssumption DEF TypeOK
  <2>2. FallNext(log, owner) \in {0, 1}  BY DEF FallNext
  <2>3. Cardinality(FallsIn(log)) <= blind  BY <2>1, <2>2 DEF BlindBudget
  <2> QED  BY <2>3 DEF EpochsFallBlindOnly, FallsIn
<1>3. Spec => [](TypeInv /\ OneServerInv)  BY OneServerAlways
<1> QED  BY BlindInit, <1>1, <1>2, <1>3, PTL DEF Spec
=============================================================================
