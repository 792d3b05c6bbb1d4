--------------------------- MODULE ExtensionProofs ---------------------------
(***************************************************************************)
(* Theorems about Extension, for any number of proposals, a log of any     *)
(* length, and truncates that fail or not: one row for an id, every        *)
(* acknowledged proposal under its id after any restart, and neither the   *)
(* sidecar nor a snapshot speaking for more than it holds.                 *)
(***************************************************************************)
EXTENDS Extension, SequenceTheorems, WellFoundedInduction, TLAPS

-----------------------------------------------------------------------------
(* Numbers and sequences *)

\* Every set of naturals that is not empty has a least element.
LEMMA LeastNatural ==
    ASSUME NEW T, T \subseteq Nat, T # {}
    PROVE  \E x \in T : \A y \in T : x <= y
<1> DEFINE R == {ss \in Nat \X Nat : ss[1] < ss[2]}
<1>1. IsWellFoundedOn(R, Nat)  BY NatLessThanWellFounded, Zenon DEF OpToRel
<1>2. \A x, y \in T : y < x => <<y, x>> \in R
  OBVIOUS
<1> HIDE DEF R
<1>3. PICK x \in T : \A y \in T : ~ (<<y, x>> \in R)
  BY <1>1, WFMin
<1>4. x \in Nat /\ \A y \in T : y \in Nat /\ ~(y < x)
  <2> SUFFICES ASSUME NEW y \in T  PROVE ~(y < x)
    OBVIOUS
  <2>1. ~ (<<y, x>> \in R)  BY <1>3
  <2> QED  BY <1>2, <2>1
<1> QED  BY <1>4

\* A bounded set of naturals that is not empty has a largest element.
LEMMA LargestNatural ==
    ASSUME NEW T, T \subseteq Nat, T # {}, NEW b \in Nat, \A x \in T : x <= b
    PROVE  \E x \in T : \A y \in T : y <= x
<1> DEFINE U == {n \in Nat : \A x \in T : x <= n}
<1>1. U \subseteq Nat /\ b \in U  OBVIOUS
<1>2. PICK u \in U : \A v \in U : u <= v  BY <1>1, LeastNatural
<1>3. u \in T
  <2> SUFFICES ASSUME u \notin T  PROVE FALSE
    OBVIOUS
  <2>1. \A x \in T : x <= u - 1  BY <1>2
  <2>2. u - 1 \in Nat
    <3>1. PICK t \in T : TRUE  OBVIOUS
    <3> QED  BY <1>2, <2>1, <3>1
  <2>3. u - 1 \in U  BY <2>1, <2>2
  <2> QED  BY <1>2, <2>3
<1> QED  BY <1>2, <1>3

\* Min of a set of naturals is its least element.
LEMMA MinOfNaturals ==
    ASSUME NEW T, T \subseteq Nat, T # {}
    PROVE  Min(T) \in T /\ \A x \in T : Min(T) <= x
<1>1. PICK m \in T : \A x \in T : m <= x  BY LeastNatural
<1> QED  BY <1>1 DEF Min

\* Max of a bounded set of naturals is its largest element.
LEMMA MaxOfNaturals ==
    ASSUME NEW T, T \subseteq Nat, T # {}, NEW b \in Nat, \A x \in T : x <= b
    PROVE  Max(T) \in T /\ \A x \in T : x <= Max(T)
<1>1. PICK m \in T : \A x \in T : x <= m  BY LargestNatural
<1>2. \A x \in T : m >= x  BY <1>1
<1> QED  BY <1>2 DEF Max

\* Max of two naturals is one of them and not below either.
LEMMA MaxOfTwo ==
    ASSUME NEW x \in Nat, NEW y \in Nat
    PROVE  Max({x, y}) \in Nat /\ x <= Max({x, y}) /\ y <= Max({x, y})
<1>1. \A z \in {x, y} : z <= x + y  OBVIOUS
<1>2. {x, y} \subseteq Nat /\ {x, y} # {} /\ x + y \in Nat  OBVIOUS
<1>3. Max({x, y}) \in {x, y} /\ \A z \in {x, y} : z <= Max({x, y})
  BY <1>1, <1>2, MaxOfNaturals
<1> QED  BY <1>2, <1>3

\* The elements of a sequence are where they should be.
LEMMA Elements ==
    ASSUME NEW S, NEW s \in Seq(S)
    PROVE  DOMAIN s = 1..Len(s) /\ Len(s) \in Nat /\ \A n \in DOMAIN s : s[n] \in S
BY ElementOfSeq, LenProperties

\* What an append does to the elements.
LEMMA AppendShape ==
    ASSUME NEW S, NEW s \in Seq(S), NEW e \in S
    PROVE  /\ Append(s, e) \in Seq(S) /\ Len(s) \in Nat /\ DOMAIN s = 1..Len(s)
           /\ Len(Append(s, e)) = Len(s) + 1
           /\ DOMAIN Append(s, e) = 1..(Len(s) + 1)
           /\ \A n \in DOMAIN s : Append(s, e)[n] = s[n]
           /\ Append(s, e)[Len(s) + 1] = e
           /\ ToSet(Append(s, e)) = ToSet(s) \cup {e}
<1>1. /\ Append(s, e) \in Seq(S) /\ Len(s) \in Nat /\ DOMAIN s = 1..Len(s)
      /\ Len(Append(s, e)) = Len(s) + 1
      /\ DOMAIN Append(s, e) = 1..(Len(s) + 1)
      /\ \A n \in DOMAIN s : Append(s, e)[n] = s[n]
      /\ Append(s, e)[Len(s) + 1] = e
  BY AppendProperties, LenProperties
<1>2. ToSet(Append(s, e)) \subseteq ToSet(s) \cup {e}
  <2> SUFFICES ASSUME NEW n \in 1..(Len(s) + 1)  PROVE Append(s, e)[n] \in ToSet(s) \cup {e}
    BY <1>1 DEF ToSet
  <2>1. CASE n = Len(s) + 1  BY <1>1, <2>1
  <2>2. CASE n # Len(s) + 1
    <3>1. n \in DOMAIN s  BY <1>1, <2>2
    <3> QED  BY <1>1, <3>1 DEF ToSet
  <2> QED  BY <2>1, <2>2
<1>3. ToSet(s) \cup {e} \subseteq ToSet(Append(s, e))
  <2>1. e \in ToSet(Append(s, e))
    <3>1. Len(s) + 1 \in DOMAIN Append(s, e)  BY <1>1
    <3> QED  BY <1>1, <3>1 DEF ToSet
  <2>2. ASSUME NEW n \in DOMAIN s  PROVE s[n] \in ToSet(Append(s, e))
    <3>1. n \in DOMAIN Append(s, e)  BY <1>1
    <3> QED  BY <1>1, <3>1 DEF ToSet
  <2> QED  BY <2>1, <2>2 DEF ToSet
<1> QED  BY <1>1, <1>2, <1>3

\* What taking the last element off does.
LEMMA FrontShape ==
    ASSUME NEW S, NEW s \in Seq(S), s # <<>>
    PROVE  /\ Front(s) \in Seq(S) /\ Len(s) \in Nat \ {0} /\ DOMAIN s = 1..Len(s)
           /\ Len(Front(s)) = Len(s) - 1
           /\ DOMAIN Front(s) = 1..(Len(s) - 1)
           /\ \A n \in DOMAIN Front(s) : Front(s)[n] = s[n]
           /\ Append(Front(s), s[Len(s)]) = s
<1>1. Len(s) \in Nat \ {0} /\ DOMAIN s = 1..Len(s) /\ s[Len(s)] \in S
  BY EmptySeq, LenProperties, ElementOfSeq
<1>2. /\ Front(s) \in Seq(S) /\ Len(Front(s)) = Len(s) - 1
      /\ \A n \in 1..(Len(s) - 1) : Front(s)[n] = s[n]
  BY <1>1, SubSeqProperties DEF Front
<1>3. DOMAIN Front(s) = 1..(Len(s) - 1)  BY <1>2, LenProperties
<1> DEFINE t == Append(Front(s), s[Len(s)])
<1>4. /\ t \in Seq(S) /\ Len(t) = Len(s)
      /\ \A n \in 1..(Len(s) - 1) : t[n] = Front(s)[n]
      /\ t[Len(s)] = s[Len(s)]
  <2>1. Len(Front(s)) + 1 = Len(s)  BY <1>1, <1>2
  <2>2. /\ t \in Seq(S) /\ Len(t) = Len(Front(s)) + 1
        /\ \A n \in DOMAIN Front(s) : t[n] = Front(s)[n]
        /\ t[Len(Front(s)) + 1] = s[Len(s)]
    <3> DEFINE f == Front(s)
               e == s[Len(s)]
    <3>1. f \in Seq(S) /\ e \in S  BY <1>1, <1>2
    <3> HIDE DEF f, e
    <3>2. /\ Append(f, e) \in Seq(S) /\ Len(Append(f, e)) = Len(f) + 1
          /\ \A n \in DOMAIN f : Append(f, e)[n] = f[n]
          /\ Append(f, e)[Len(f) + 1] = e
      BY <3>1, AppendShape
    <3> QED  BY <3>2 DEF f, e
  <2> QED  BY <1>1, <1>3, <2>1, <2>2
<1>5. \A n \in 1..Len(t) : t[n] = s[n]  BY <1>1, <1>2, <1>4
<1> HIDE DEF t
<1>6. t = s  BY <1>4, <1>5, SeqEqual
<1> QED  BY <1>1, <1>2, <1>3, <1>6 DEF t

-----------------------------------------------------------------------------
(* The inductive invariant *)

\* The row a record of the log stands for, and that of the command being served.
RowOf(e) == [id |-> e.id, by |-> e.cmd]

\* The positions of the log that an extension replays.
Proposed == {n \in DOMAIN log : log[n].cmd # Core}
RowsIn(l) == {RowOf(l[n]) : n \in {m \in DOMAIN l : l[m].cmd # Core}}
LogRows == RowsIn(log)

Committing == {"append", "save", "checkpoint", "sidecar", "reply"}
Logged == {"checkpoint", "sidecar", "reply"}

OneRowEach(rs) == \A m, n \in DOMAIN rs : rs[m].id = rs[n].id => m = n

\* What the seqs on disk and the counter have to do with each other.
SeqsBounded == \E b \in Nat : \A n \in DOMAIN log : log[n].seq <= b
SeqsOrdered == \A m, n \in DOMAIN log : m <= n => log[m].seq <= log[n].seq
Reached(s) == s = 0 \/ \E n \in DOMAIN log : log[n].seq >= s
Taken(s) == s = 0 \/ \E n \in DOMAIN log : log[n].seq = s

NumbersInv ==
    /\ SeqsBounded /\ SeqsOrdered /\ Reached(sidecar)
    /\ pc # "down" =>
        /\ Taken(committed_seq) /\ sidecar <= committed_seq
        /\ \A n \in DOMAIN log : log[n].seq <= committed_seq + 1
    /\ pc = "save" => log # <<>> /\ log[Len(log)] = CurRecord
    /\ Serving => snapshot.seq <= committed_seq

\* The command being served has its row in memory, and its client no answer.
CommandInv ==
    /\ pc \notin Committing => cur = Idle
    /\ pc \in Committing => cur.cmd \in Proposal \cup {Core}
    /\ cur.cmd \in Proposal => outcome[cur.cmd] = "pending" /\ RowOf(cur) \in ToSet(rows)
    /\ (pc \in Logged /\ cur.cmd \in Proposal) => RowOf(cur) \in LogRows
    /\ pc # "restoring" => tail = {}

\* Memory holds the table file and what of the log has been replayed, one row for
\* an id, and the counter is past all of them; an id stands for one row in memory,
\* in the table file and in the log together.
RowsInv ==
    /\ OneRowEach(rows) /\ OneRowEach(table)
    /\ \E b \in Nat : \A n \in DOMAIN table : table[n].id <= b
    /\ \A r, s \in ToSet(table) \cup ToSet(rows) \cup LogRows : r.id = s.id => r = s
    /\ pc # "down" =>
        /\ \A n \in DOMAIN rows : rows[n].id < next_id
        /\ ToSet(table) \subseteq ToSet(rows)
        /\ \A n \in Proposed : n \notin tail => RowOf(log[n]) \in ToSet(rows)
    /\ pc = "sidecar" => table = rows

\* What a client was told is in the log for good, and in the snapshot.
AckedInv ==
    \A p \in Proposal : outcome[p] = "acked" =>
        /\ [id |-> told[p], by |-> p] \in LogRows
        /\ Serving => [id |-> told[p], by |-> p] \in ToSet(snapshot.rows)

ExtensionInv ==
    /\ TypeOK /\ NumbersInv /\ CommandInv /\ RowsInv /\ AckedInv
    /\ SidecarCovers /\ SnapshotCoversSeq

-----------------------------------------------------------------------------
(* The rows of a log *)

\* The rows of a log that grew by a record.
LEMMA RowsInAppend ==
    ASSUME NEW l \in Seq(Record), NEW e \in Record
    PROVE  /\ RowsIn(l) \subseteq RowsIn(Append(l, e))
           /\ RowsIn(Append(l, e)) \subseteq RowsIn(l) \cup {RowOf(e)}
           /\ e.cmd = Core => RowsIn(Append(l, e)) = RowsIn(l)
           /\ e.cmd # Core => RowOf(e) \in RowsIn(Append(l, e))
<1> DEFINE k == Append(l, e)
<1>1. /\ Len(l) \in Nat /\ DOMAIN l = 1..Len(l) /\ DOMAIN k = 1..(Len(l) + 1)
      /\ \A n \in DOMAIN l : k[n] = l[n]
      /\ k[Len(l) + 1] = e
  BY AppendShape
<1>1a. DOMAIN k = DOMAIN l \cup {Len(l) + 1}  BY <1>1
<1> HIDE DEF k
<1>2. ASSUME NEW n \in DOMAIN l, l[n].cmd # Core
      PROVE  RowOf(l[n]) \in RowsIn(k)
  BY <1>1, <1>1a, <1>2 DEF RowsIn
<1>3. ASSUME NEW n \in DOMAIN k, k[n].cmd # Core
      PROVE  RowOf(k[n]) \in RowsIn(l) \/ (RowOf(k[n]) = RowOf(e) /\ e.cmd # Core)
  BY <1>1, <1>1a, <1>3 DEF RowsIn
<1>4. RowsIn(l) \subseteq RowsIn(k)  BY <1>2 DEF RowsIn
<1>5. \A r \in RowsIn(k) : r \in RowsIn(l) \/ (r = RowOf(e) /\ e.cmd # Core)
  BY <1>3 DEF RowsIn
<1>6. e.cmd # Core => RowOf(e) \in RowsIn(k)
  BY <1>1, <1>1a DEF RowsIn
<1> QED  BY <1>4, <1>5, <1>6 DEF k

-----------------------------------------------------------------------------
(* Types *)

\* The scan of the log finds its largest seq.
LEMMA HighWaterFound ==
    ASSUME TypeOK, SeqsBounded
    PROVE  HighWater \in Nat /\ Taken(HighWater) /\ \A n \in DOMAIN log : log[n].seq <= HighWater
<1> DEFINE S == {0} \cup {log[n].seq : n \in DOMAIN log}
<1>1. \A n \in DOMAIN log : log[n].seq \in Nat
  <2>1. log \in Seq(Record)  BY DEF TypeOK
  <2>2. \A n \in DOMAIN log : log[n] \in Record  BY <2>1, Elements
  <2> QED  BY <2>2 DEF Record
<1>2. PICK b \in Nat : \A n \in DOMAIN log : log[n].seq <= b  BY DEF SeqsBounded
<1>3. S \subseteq Nat /\ S # {} /\ \A x \in S : x <= b  BY <1>1, <1>2
<1>4. 0 \in S /\ \A n \in DOMAIN log : log[n].seq \in S  OBVIOUS
<1>5. \A x \in S : x = 0 \/ \E n \in DOMAIN log : log[n].seq = x  OBVIOUS
<1> HIDE DEF S
<1>6. Max(S) \in S /\ \A x \in S : x <= Max(S)  BY <1>3, MaxOfNaturals
<1>7. HighWater = Max(S)  BY DEF HighWater, S
<1> QED  BY <1>3, <1>4, <1>5, <1>6, <1>7 DEF Taken

\* The counter a restore starts with is past every id of the file.
LEMMA NextAfterFound ==
    ASSUME NEW rs \in Seq(DemoRow), NEW b \in Nat, \A n \in DOMAIN rs : rs[n].id <= b
    PROVE  NextAfter(rs) \in Nat \ {0} /\ \A n \in DOMAIN rs : rs[n].id < NextAfter(rs)
<1> DEFINE S == {0} \cup Ids(rs)
<1>1. \A n \in DOMAIN rs : rs[n].id \in Nat
  <2>1. \A n \in DOMAIN rs : rs[n] \in DemoRow  BY Elements
  <2> QED  BY <2>1 DEF DemoRow
<1>2. S \subseteq Nat /\ S # {} /\ \A x \in S : x <= b  BY <1>1 DEF Ids
<1>3. \A n \in DOMAIN rs : rs[n].id \in S  BY DEF Ids
<1> HIDE DEF S
<1>4. Max(S) \in S /\ \A x \in S : x <= Max(S)  BY <1>2, MaxOfNaturals
<1>5. NextAfter(rs) = 1 + Max(S)  BY DEF NextAfter, S
<1>6. Max(S) \in Nat  BY <1>2, <1>4
<1>7. \A n \in DOMAIN rs : rs[n].id <= Max(S)  BY <1>3, <1>4
<1> HIDE DEF S
<1> QED  BY <1>1, <1>5, <1>6, <1>7

\* What a replayed record does to the table: it is there afterwards, and nothing else.
LEMMA ReplayShape ==
    ASSUME TypeOK, NEW e \in Record, Replay(e)
    PROVE  /\ rows' \in Seq(DemoRow) /\ next_id' \in Nat \ {0} /\ next_id <= next_id'
           /\ \/ rows' = rows /\ (e.cmd # Core => e.id \in Ids(rows))
              \/ /\ e.cmd # Core /\ e.id \notin Ids(rows) /\ RowOf(e) \in DemoRow
                 /\ rows' = Append(rows, RowOf(e)) /\ e.id < next_id'
<1>1. CASE e.cmd = Core \/ e.id \in Ids(rows)
  BY <1>1 DEF Replay, TypeOK
<1>2. CASE ~(e.cmd = Core \/ e.id \in Ids(rows))
  <2>1. RowOf(e) \in DemoRow  BY <1>2 DEF RowOf, Record, DemoRow
  <2>2. rows' = Append(rows, RowOf(e)) /\ next_id' = Max({next_id, e.id + 1})
    BY <1>2 DEF Replay, RowOf
  <2>3. next_id \in Nat /\ next_id # 0 /\ e.id + 1 \in Nat /\ e.id \in Nat
    BY DEF TypeOK, Record
  <2>4. next_id' \in Nat /\ next_id <= next_id' /\ e.id + 1 <= next_id'
    BY <2>2, <2>3, MaxOfTwo
  <2>5. rows' \in Seq(DemoRow)
    BY <2>1, <2>2, AppendShape DEF TypeOK
  <2> QED  BY <1>2, <2>1, <2>2, <2>3, <2>4, <2>5
<1> QED  BY <1>1, <1>2

\* The record of the command being served is one.
LEMMA CurRecordIsOne ==
    ASSUME TypeOK, CommandInv, pc \in Committing
    PROVE  /\ CurRecord \in Record /\ RowOf(CurRecord) = RowOf(cur)
           /\ CurRecord.cmd = cur.cmd /\ CurRecord.seq = committed_seq + 1
           /\ committed_seq \in Nat /\ cur.cmd \in Proposal \cup {Core}
BY DEF TypeOK, CommandInv, CurRecord, Record, RowOf

\* What a failed commit leaves of the log: all of it, or all but the record that
\* the append had written, or the record although the append failed.
LEMMA LogAfterFailure ==
    ASSUME TypeOK, NumbersInv, CommitFails
    PROVE  \/ log' = log
           \/ pc = "append" /\ log' = Append(log, CurRecord)
           \/ pc = "save" /\ log' = Front(log)
<1>1. pc \in {"append", "save"}  BY DEF CommitFails
<1>2. CASE pc = "append"  BY <1>2 DEF CommitFails
<1>3. CASE pc = "save"
  <2>1. log \in Seq(Record) /\ log # <<>> /\ log[Len(log)] = CurRecord
    BY <1>3 DEF TypeOK, NumbersInv
  <2>2. Append(Front(log), CurRecord) = log
    BY <2>1, FrontShape
  <2> QED  BY <1>3, <2>2 DEF CommitFails
<1> QED  BY <1>1, <1>2, <1>3

\* The types hold at first.
LEMMA TypeInit == Init => TypeOK
BY DEF Init, TypeOK, Record, DemoRow, Idle, Outcome, ExtensionAssumption

\* Every step keeps the types.
LEMMA TypeStep ==
    ASSUME ExtensionInv, [Next]_vars
    PROVE  TypeOK'
<1> USE DEF ExtensionInv
<1>1. CASE Start
  <2>1. log \in Seq(Record) /\ table \in Seq(DemoRow)  BY DEF TypeOK
  <2>2. PICK b \in Nat : \A n \in DOMAIN table : table[n].id <= b  BY DEF RowsInv
  <2>3. NextAfter(table) \in Nat \ {0}  BY <2>1, <2>2, NextAfterFound
  <2>4. HighWater \in Nat  BY HighWaterFound DEF NumbersInv
  <2>5. tail' \subseteq DOMAIN log  BY <1>1 DEF Start, EventsSince
  <2> QED  BY <1>1, <2>3, <2>4, <2>5 DEF Start, TypeOK, disk, clients
<1>2. CASE ReplayEvent
  <2>1. DOMAIN log \subseteq Nat  BY LenProperties DEF TypeOK
  <2>2. Min(tail) \in tail
    BY <1>2, <2>1, MinOfNaturals DEF ReplayEvent, TypeOK
  <2>3. log[Min(tail)] \in Record  BY <2>2, ElementOfSeq, LenProperties DEF TypeOK
  <2>4. rows' \in Seq(DemoRow) /\ next_id' \in Nat \ {0}
    BY <1>2, <2>3, ReplayShape DEF ReplayEvent
  <2> QED  BY <1>2, <2>4 DEF ReplayEvent, TypeOK, disk, clients
<1>3. CASE Serve
  BY <1>3 DEF Serve, TypeOK, disk, engine, clients
<1>4. ASSUME NEW p \in Proposal, Propose(p)  PROVE TypeOK'
  <2>1. [id |-> next_id, by |-> p] \in DemoRow  BY DEF TypeOK, DemoRow
  <2>2. rows' \in Seq(DemoRow)  BY <1>4, <2>1, AppendShape DEF Propose, TypeOK
  <2>3. cur' \in [cmd : Proposal \cup {Core, NoCommand}, id : Nat] /\ next_id' \in Nat \ {0}
    BY <1>4 DEF Propose, TypeOK
  <2>4. outcome' \in [Proposal -> Outcome]  BY <1>4 DEF Propose, TypeOK, Outcome
  <2> QED  BY <1>4, <2>2, <2>3, <2>4 DEF Propose, TypeOK, disk
<1>5. ASSUME NEW p \in Proposal, Refuse(p)  PROVE TypeOK'
  <2>1. outcome' \in [Proposal -> Outcome]  BY <1>5 DEF Refuse, TypeOK, Outcome
  <2> QED  BY <1>5, <2>1 DEF Refuse, TypeOK, disk, engine
<1>6. CASE CoreCommand
  <2>1. cur' \in [cmd : Proposal \cup {Core, NoCommand}, id : Nat]
    BY <1>6 DEF CoreCommand
  <2> QED  BY <1>6, <2>1 DEF CoreCommand, TypeOK, disk, clients
<1>7. CASE AppendRecord
  <2>1. CurRecord \in Record
    BY <1>7, CurRecordIsOne DEF AppendRecord, Committing
  <2>2. log' \in Seq(Record) /\ tail = {}
    BY <1>7, <2>1, AppendShape DEF AppendRecord, TypeOK, CommandInv
  <2> QED  BY <1>7, <2>2 DEF AppendRecord, TypeOK, engine, clients
<1>8. CASE SaveTables
  BY <1>8 DEF SaveTables, TypeOK, disk, clients
<1>9. CASE CommitFails
  <2>1. CurRecord \in Record
    BY <1>9, CurRecordIsOne DEF CommitFails, Committing
  <2>2. log \in Seq(Record) /\ (pc = "save" => log # <<>>)
    BY DEF TypeOK, NumbersInv
  <2>3. log' \in Seq(Record)
    BY <1>9, <2>1, <2>2, LogAfterFailure, AppendShape, FrontShape
  <2>4. tail = {}  BY <1>9 DEF CommitFails, CommandInv
  <2>5. outcome' \in [Proposal -> Outcome]  BY <1>9 DEF CommitFails, TypeOK, Outcome
  <2>6. cur' \in [cmd : Proposal \cup {Core, NoCommand}, id : Nat]
    BY <1>9 DEF CommitFails, Idle
  <2> QED  BY <1>9, <2>3, <2>4, <2>5, <2>6 DEF CommitFails, TypeOK
<1>10. CASE CheckpointTable
  BY <1>10 DEF CheckpointTable, TypeOK, engine, clients
<1>11. CASE CheckpointSidecar
  BY <1>11 DEF CheckpointSidecar, TypeOK, engine, clients
<1>12. CASE CheckpointFails
  BY <1>12 DEF CheckpointFails, TypeOK, disk, engine, clients
<1>13. CASE Reply
  <2>1. outcome' \in [Proposal -> Outcome] /\ told' \in [Proposal -> Nat]
    BY <1>13 DEF Reply, TypeOK, Outcome
  <2>2. cur' \in [cmd : Proposal \cup {Core, NoCommand}, id : Nat]
    BY <1>13 DEF Reply, Idle
  <2>3. snapshot' \in [seq : Nat, rows : Seq(DemoRow)]  BY <1>13 DEF Reply, TypeOK
  <2> QED  BY <1>13, <2>1, <2>2, <2>3 DEF Reply, TypeOK, disk, engine
<1>14. CASE Crash
  <2>1. outcome' \in [Proposal -> Outcome]  BY <1>14 DEF Crash, TypeOK, Outcome
  <2>2. cur' \in [cmd : Proposal \cup {Core, NoCommand}, id : Nat]
    BY <1>14 DEF Crash, Idle
  <2>3. <<>> \in Seq(DemoRow)  OBVIOUS
  <2> QED  BY <1>14, <2>1, <2>2, <2>3 DEF Crash, TypeOK, disk
<1>15. CASE UNCHANGED vars
  BY <1>15 DEF TypeOK, vars, disk, engine, clients
<1> QED
  BY <1>1, <1>2, <1>3, <1>4, <1>5, <1>6, <1>7, <1>8, <1>9, <1>10, <1>11, <1>12,
     <1>13, <1>14, <1>15 DEF Next

-----------------------------------------------------------------------------
(* Seqs: the log is in order, and the counter is a seq it has *)

\* A log that grew by the record of the command being served.
LEMMA NumbersAppend ==
    ASSUME TypeOK, NumbersInv, CommandInv, pc \in Committing, log' = Append(log, CurRecord),
           sidecar' = sidecar, committed_seq' = committed_seq
    PROVE  /\ SeqsBounded' /\ SeqsOrdered' /\ Reached(sidecar)' /\ Taken(committed_seq)'
           /\ \A n \in DOMAIN log' : log'[n].seq <= committed_seq + 1
           /\ log' # <<>> /\ log'[Len(log')] = CurRecord
<1>1. log \in Seq(Record) /\ CurRecord \in Record /\ CurRecord.seq = committed_seq + 1
      /\ committed_seq \in Nat /\ sidecar \in Nat
  BY CurRecordIsOne DEF TypeOK
<1>2. /\ Len(log) \in Nat /\ DOMAIN log = 1..Len(log) /\ Len(log') = Len(log) + 1
      /\ DOMAIN log' = 1..(Len(log) + 1)
      /\ \A n \in DOMAIN log : log'[n] = log[n]
      /\ log'[Len(log) + 1] = CurRecord
  BY <1>1, AppendShape
<1>3. /\ DOMAIN log' = DOMAIN log \cup {Len(log) + 1}
      /\ \A n \in DOMAIN log : n <= Len(log) /\ n \in Nat
  BY <1>2
<1>4. /\ SeqsOrdered /\ Reached(sidecar) /\ Taken(committed_seq)
      /\ \A n \in DOMAIN log : log[n].seq <= committed_seq + 1
  BY DEF NumbersInv, Committing
<1>5. \A n \in DOMAIN log' : log'[n].seq <= committed_seq + 1
  BY <1>1, <1>2, <1>3, <1>4
<1>6. SeqsBounded'
  <2>1. committed_seq + 1 \in Nat  BY <1>1
  <2> QED  BY <1>5, <2>1 DEF SeqsBounded
<1>7. SeqsOrdered'
  <2> SUFFICES ASSUME NEW m \in DOMAIN log', NEW n \in DOMAIN log', m <= n
               PROVE  log'[m].seq <= log'[n].seq
    BY DEF SeqsOrdered
  <2>1. CASE n = Len(log) + 1  BY <1>1, <1>2, <1>5, <2>1
  <2>2. CASE n \in DOMAIN log
    <3>1. m \in DOMAIN log  BY <1>2, <1>3, <2>2
    <3> QED  BY <1>2, <1>4, <2>2, <3>1 DEF SeqsOrdered
  <2> QED  BY <1>3, <2>1, <2>2
<1>8. Reached(sidecar)'  BY <1>2, <1>3, <1>4 DEF Reached
<1>9. Taken(committed_seq)'  BY <1>2, <1>3, <1>4 DEF Taken
<1>10. log' # <<>>  BY <1>2
<1> QED  BY <1>2, <1>5, <1>6, <1>7, <1>8, <1>9, <1>10

\* A log that lost the record of the command being served.
LEMMA NumbersFront ==
    ASSUME TypeOK, NumbersInv, CommandInv, pc = "save", log' = Front(log),
           sidecar' = sidecar, committed_seq' = committed_seq
    PROVE  /\ SeqsBounded' /\ SeqsOrdered' /\ Reached(sidecar)' /\ Taken(committed_seq)'
           /\ \A n \in DOMAIN log' : log'[n].seq <= committed_seq + 1
<1>1. log \in Seq(Record) /\ log # <<>> /\ log[Len(log)].seq = committed_seq + 1
      /\ committed_seq \in Nat /\ sidecar \in Nat /\ sidecar <= committed_seq
  BY DEF TypeOK, NumbersInv, CurRecord
<1>2. /\ Len(log) \in Nat \ {0} /\ DOMAIN log = 1..Len(log)
      /\ DOMAIN log' = 1..(Len(log) - 1)
      /\ \A n \in DOMAIN log' : log'[n] = log[n]
  BY <1>1, FrontShape
<1>3. DOMAIN log' = DOMAIN log \ {Len(log)}  BY <1>2
<1>4. /\ SeqsBounded /\ SeqsOrdered /\ Taken(committed_seq)
      /\ \A n \in DOMAIN log : log[n].seq <= committed_seq + 1
  BY DEF NumbersInv
<1>5. \A n \in DOMAIN log' : log'[n].seq <= committed_seq + 1
  BY <1>2, <1>3, <1>4
<1>6. SeqsBounded'  BY <1>2, <1>3, <1>4 DEF SeqsBounded
<1>7. SeqsOrdered'  BY <1>2, <1>3, <1>4 DEF SeqsOrdered
<1>8. Taken(committed_seq)'
  <2>1. CASE committed_seq = 0  BY <2>1 DEF Taken
  <2>2. CASE committed_seq # 0
    <3>1. PICK n \in DOMAIN log : log[n].seq = committed_seq  BY <1>4, <2>2 DEF Taken
    <3>2. n # Len(log)  BY <1>1, <3>1
    <3> QED  BY <1>2, <1>3, <3>1, <3>2 DEF Taken
  <2> QED  BY <2>1, <2>2
<1>9. Reached(sidecar)'  BY <1>1, <1>8 DEF Taken, Reached
<1> QED  BY <1>5, <1>6, <1>7, <1>8, <1>9

\* An empty log has no seqs to disagree about.
LEMMA NumbersInit == Init => NumbersInv
BY DEF Init, NumbersInv, SeqsBounded, SeqsOrdered, Reached, Taken, Serving

\* Every step keeps them.
LEMMA NumbersStep ==
    ASSUME ExtensionInv, [Next]_vars
    PROVE  NumbersInv'
<1> USE DEF ExtensionInv
<1>a. ASSUME UNCHANGED <<log, sidecar, committed_seq>>
      PROVE  /\ SeqsBounded' /\ SeqsOrdered' /\ Reached(sidecar)'
             /\ pc # "down" => /\ Taken(committed_seq)' /\ sidecar' <= committed_seq'
                               /\ \A n \in DOMAIN log' : log'[n].seq <= committed_seq' + 1
  BY <1>a DEF NumbersInv, SeqsBounded, SeqsOrdered, Reached, Taken
<1>1. CASE Start
  <2>1. HighWater \in Nat /\ Taken(HighWater) /\ \A n \in DOMAIN log : log[n].seq <= HighWater
    BY HighWaterFound DEF NumbersInv
  <2>2. committed_seq' = HighWater /\ log' = log /\ sidecar' = sidecar /\ pc' = "restoring"
    BY <1>1 DEF Start, disk
  <2>3. SeqsBounded' /\ SeqsOrdered' /\ Reached(sidecar)'
    BY <2>2 DEF NumbersInv, SeqsBounded, SeqsOrdered, Reached
  <2>4. Taken(committed_seq)'  BY <2>1, <2>2 DEF Taken
  <2>5. \A n \in DOMAIN log : log[n].seq \in Nat
    <3>1. log \in Seq(Record)  BY DEF TypeOK
    <3>2. \A n \in DOMAIN log : log[n] \in Record  BY <3>1, Elements
    <3> QED  BY <3>2 DEF Record
  <2>6. sidecar <= HighWater
    <3>1. sidecar = 0 \/ \E n \in DOMAIN log : log[n].seq >= sidecar
      BY DEF NumbersInv, Reached
    <3> QED  BY <2>1, <2>5, <3>1 DEF TypeOK
  <2>7. \A n \in DOMAIN log : log[n].seq <= HighWater + 1  BY <2>1, <2>5
  <2> QED  BY <2>2, <2>3, <2>4, <2>6, <2>7 DEF NumbersInv, Serving
<1>2. CASE ReplayEvent
  BY <1>2, <1>a DEF ReplayEvent, NumbersInv, Serving, disk, engine
<1>3. CASE Serve
  <2>1. snapshot'.seq = committed_seq'  BY <1>3 DEF Serve, engine
  <2>2. committed_seq' \in Nat  BY <1>3 DEF Serve, engine, TypeOK
  <2> QED  BY <1>3, <1>a, <2>1, <2>2 DEF Serve, NumbersInv, Serving, disk, engine
<1>4. ASSUME NEW p \in Proposal, Propose(p)  PROVE NumbersInv'
  BY <1>4, <1>a DEF Propose, NumbersInv, Serving, disk
<1>5. ASSUME NEW p \in Proposal, Refuse(p)  PROVE NumbersInv'
  BY <1>5, <1>a DEF Refuse, NumbersInv, Serving, disk, engine
<1>6. CASE CoreCommand
  BY <1>6, <1>a DEF CoreCommand, NumbersInv, Serving, disk
<1>7. CASE AppendRecord
  <2>1. /\ pc = "append" /\ pc' = "save" /\ log' = Append(log, CurRecord) /\ sidecar' = sidecar
        /\ committed_seq' = committed_seq /\ snapshot' = snapshot /\ cur' = cur
    BY <1>7 DEF AppendRecord, engine
  <2>2. /\ SeqsBounded' /\ SeqsOrdered' /\ Reached(sidecar)' /\ Taken(committed_seq)'
        /\ \A n \in DOMAIN log' : log'[n].seq <= committed_seq + 1
        /\ log' # <<>> /\ log'[Len(log')] = CurRecord
    BY <2>1, NumbersAppend DEF Committing
  <2>3. CurRecord' = CurRecord  BY <2>1 DEF CurRecord
  <2> QED  BY <2>1, <2>2, <2>3 DEF NumbersInv, Serving
<1>8. CASE SaveTables
  <2>1. /\ pc = "save" /\ pc' = "checkpoint" /\ log' = log /\ sidecar' = sidecar
        /\ committed_seq' = committed_seq + 1 /\ snapshot' = snapshot
    BY <1>8 DEF SaveTables, disk
  <2>2. /\ committed_seq \in Nat /\ sidecar \in Nat /\ snapshot.seq \in Nat
        /\ log \in Seq(Record)
    BY DEF TypeOK
  <2>3. /\ log # <<>> /\ log[Len(log)].seq = committed_seq + 1
        /\ sidecar <= committed_seq /\ snapshot.seq <= committed_seq
        /\ \A n \in DOMAIN log : log[n].seq <= committed_seq + 1
        /\ SeqsBounded /\ SeqsOrdered /\ Reached(sidecar)
    BY <2>1 DEF NumbersInv, CurRecord, Serving
  <2>4. Len(log) \in DOMAIN log  BY <2>2, <2>3, FrontShape
  <2>5. Taken(committed_seq)'  BY <2>1, <2>3, <2>4 DEF Taken
  <2>6. \A n \in DOMAIN log : log[n] \in Record  BY <2>2, Elements
  <2>7. \A n \in DOMAIN log : log[n].seq <= (committed_seq + 1) + 1
    BY <2>2, <2>3, <2>6 DEF Record
  <2>8. SeqsBounded' /\ SeqsOrdered' /\ Reached(sidecar)'
    BY <2>1, <2>3 DEF SeqsBounded, SeqsOrdered, Reached
  <2> QED  BY <2>1, <2>2, <2>3, <2>5, <2>7, <2>8 DEF NumbersInv
<1>9. CASE CommitFails
  <2>1. /\ pc \in {"append", "save"} /\ pc' = "idle" /\ sidecar' = sidecar
        /\ committed_seq' = committed_seq /\ snapshot' = snapshot
    BY <1>9 DEF CommitFails
  <2>2. /\ SeqsBounded' /\ SeqsOrdered' /\ Reached(sidecar)' /\ Taken(committed_seq)'
        /\ \A n \in DOMAIN log' : log'[n].seq <= committed_seq + 1
    <3>1. CASE log' = log  BY <2>1, <3>1, <1>a
    <3>2. CASE pc = "append" /\ log' = Append(log, CurRecord)
      BY <2>1, <3>2, NumbersAppend DEF Committing
    <3>3. CASE pc = "save" /\ log' = Front(log)  BY <2>1, <3>3, NumbersFront
    <3> QED  BY <1>9, <3>1, <3>2, <3>3, LogAfterFailure
  <2>3. sidecar <= committed_seq /\ snapshot.seq <= committed_seq
    BY <2>1 DEF NumbersInv, Serving
  <2> QED  BY <2>1, <2>2, <2>3 DEF NumbersInv
<1>10. CASE CheckpointTable
  BY <1>10, <1>a DEF CheckpointTable, NumbersInv, Serving, engine
<1>11. CASE CheckpointSidecar
  <2>1. /\ pc = "sidecar" /\ pc' = "reply" /\ log' = log /\ sidecar' = committed_seq
        /\ committed_seq' = committed_seq /\ snapshot' = snapshot /\ committed_seq \in Nat
    BY <1>11 DEF CheckpointSidecar, engine, TypeOK
  <2>2. /\ SeqsBounded' /\ SeqsOrdered' /\ Taken(committed_seq)'
        /\ \A n \in DOMAIN log' : log'[n].seq <= committed_seq' + 1
    BY <2>1 DEF NumbersInv, SeqsBounded, SeqsOrdered, Taken
  <2>3. Reached(sidecar)'  BY <2>1, <2>2 DEF Taken, Reached
  <2> QED  BY <2>1, <2>2, <2>3 DEF NumbersInv, Serving
<1>12. CASE CheckpointFails
  BY <1>12, <1>a DEF CheckpointFails, NumbersInv, Serving, disk, engine
<1>13. CASE Reply
  <2>1. snapshot'.seq = committed_seq'  BY <1>13 DEF Reply, engine
  <2>2. committed_seq' \in Nat  BY <1>13 DEF Reply, engine, TypeOK
  <2> QED  BY <1>13, <1>a, <2>1, <2>2 DEF Reply, NumbersInv, Serving, disk, engine
<1>14. CASE Crash
  BY <1>14 DEF Crash, NumbersInv, Serving, disk, SeqsBounded, SeqsOrdered, Reached
<1>15. CASE UNCHANGED vars
  BY <1>15, <1>a DEF NumbersInv, CurRecord, vars, disk, engine, clients, Serving
<1> QED
  BY <1>1, <1>2, <1>3, <1>4, <1>5, <1>6, <1>7, <1>8, <1>9, <1>10, <1>11, <1>12,
     <1>13, <1>14, <1>15 DEF Next

-----------------------------------------------------------------------------
(* The command being served *)

LEMMA CommandInit == Init => CommandInv
BY ExtensionAssumption DEF Init, CommandInv, Committing, Logged, Idle

\* Every step keeps what is known of the command being served.
LEMMA CommandStep ==
    ASSUME ExtensionInv, [Next]_vars
    PROVE  CommandInv'
<1> USE DEF ExtensionInv
<1>i. Idle.cmd \notin Proposal  BY ExtensionAssumption DEF Idle
<1>1. CASE Start
  BY <1>1, <1>i DEF Start, CommandInv, Committing, Logged, disk, clients
<1>2. CASE ReplayEvent
  BY <1>2, <1>i DEF ReplayEvent, CommandInv, Committing, Logged, disk, clients
<1>3. CASE Serve
  BY <1>3, <1>i DEF Serve, CommandInv, Committing, Logged, disk, engine, clients
<1>4. ASSUME NEW p \in Proposal, Propose(p)  PROVE CommandInv'
  <2>1. /\ pc = "idle" /\ pc' = "append" /\ tail' = tail
        /\ cur' = [cmd |-> p, id |-> next_id]
        /\ rows' = Append(rows, [id |-> next_id, by |-> p])
        /\ outcome' = [outcome EXCEPT ![p] = "pending"]
    BY <1>4 DEF Propose
  <2>2. [id |-> next_id, by |-> p] \in DemoRow /\ rows \in Seq(DemoRow)
    BY DEF TypeOK, DemoRow
  <2>3. [id |-> next_id, by |-> p] \in ToSet(rows')  BY <2>1, <2>2, AppendShape
  <2>4. RowOf(cur') = [id |-> next_id, by |-> p] /\ cur'.cmd = p
    BY <2>1 DEF RowOf
  <2>5. outcome'[p] = "pending" /\ tail = {}
    BY <2>1 DEF TypeOK, CommandInv
  <2> QED  BY <2>1, <2>3, <2>4, <2>5 DEF CommandInv, Committing, Logged
<1>5. ASSUME NEW p \in Proposal, Refuse(p)  PROVE CommandInv'
  BY <1>5, <1>i DEF Refuse, CommandInv, Committing, Logged, disk, engine
<1>6. CASE CoreCommand
  BY <1>6, <1>i, ExtensionAssumption DEF CoreCommand, CommandInv, Committing, Logged, disk, clients
<1>7. CASE AppendRecord
  BY <1>7 DEF AppendRecord, CommandInv, Committing, Logged, engine, clients
<1>8. CASE SaveTables
  <2>1. /\ pc = "save" /\ pc' = "checkpoint" /\ tail' = tail /\ cur' = cur /\ log' = log
        /\ rows' = rows /\ outcome' = outcome
    BY <1>8 DEF SaveTables, disk, clients
  <2>2. log \in Seq(Record) /\ log # <<>> /\ log[Len(log)] = CurRecord
    BY <2>1 DEF TypeOK, NumbersInv
  <2>3. Len(log) \in DOMAIN log /\ log[Len(log)].cmd = cur.cmd /\ RowOf(log[Len(log)]) = RowOf(cur)
    BY <2>2, FrontShape DEF CurRecord, RowOf
  <2>4. cur.cmd \in Proposal => RowOf(cur) \in LogRows
    BY <2>3, ExtensionAssumption DEF LogRows, RowsIn
  <2>5. LogRows' = LogRows  BY <2>1 DEF LogRows
  <2> QED  BY <2>1, <2>4, <2>5 DEF CommandInv, Committing, Logged
<1>9. CASE CommitFails
  BY <1>9, <1>i DEF CommitFails, CommandInv, Committing, Logged
<1>10. CASE CheckpointTable
  <2>1. LogRows' = LogRows  BY <1>10 DEF CheckpointTable, LogRows
  <2> QED  BY <1>10, <2>1 DEF CheckpointTable, CommandInv, Committing, Logged, engine, clients
<1>11. CASE CheckpointSidecar
  <2>1. LogRows' = LogRows  BY <1>11 DEF CheckpointSidecar, LogRows
  <2> QED  BY <1>11, <2>1 DEF CheckpointSidecar, CommandInv, Committing, Logged, engine, clients
<1>12. CASE CheckpointFails
  <2>1. LogRows' = LogRows  BY <1>12 DEF CheckpointFails, LogRows, disk
  <2> QED  BY <1>12, <2>1 DEF CheckpointFails, CommandInv, Committing, Logged, disk, engine, clients
<1>13. CASE Reply
  BY <1>13, <1>i DEF Reply, CommandInv, Committing, Logged, disk, engine
<1>14. CASE Crash
  BY <1>14, <1>i DEF Crash, CommandInv, Committing, Logged, disk
<1>15. CASE UNCHANGED vars
  BY <1>15 DEF CommandInv, vars, disk, engine, clients, LogRows
<1> QED
  BY <1>1, <1>2, <1>3, <1>4, <1>5, <1>6, <1>7, <1>8, <1>9, <1>10, <1>11, <1>12,
     <1>13, <1>14, <1>15 DEF Next

-----------------------------------------------------------------------------
(* Rows *)

\* A table that grew by a row under an id it did not have.
LEMMA RowAdded ==
    ASSUME NEW rs \in Seq(DemoRow), NEW r \in DemoRow, OneRowEach(rs),
           \A n \in DOMAIN rs : rs[n].id # r.id
    PROVE  OneRowEach(Append(rs, r))
<1>1. /\ DOMAIN rs = 1..Len(rs) /\ Len(rs) \in Nat /\ DOMAIN Append(rs, r) = 1..(Len(rs) + 1)
      /\ \A n \in DOMAIN rs : Append(rs, r)[n] = rs[n]
      /\ Append(rs, r)[Len(rs) + 1] = r
  BY AppendShape
<1>2. DOMAIN Append(rs, r) = DOMAIN rs \cup {Len(rs) + 1}  BY <1>1
<1> QED  BY <1>1, <1>2 DEF OneRowEach

\* While a command is served nothing is left to replay: all the log is in memory.
LEMMA AllReplayed ==
    ASSUME CommandInv, RowsInv, Serving
    PROVE  LogRows \subseteq ToSet(rows)
<1>1. tail = {}  BY DEF CommandInv, Serving
<1>2. \A n \in Proposed : RowOf(log[n]) \in ToSet(rows)
  BY <1>1 DEF RowsInv, Serving
<1> QED  BY <1>2 DEF LogRows, RowsIn, Proposed

\* The rows of a log are those at its proposed positions.
LEMMA LogRowsAre ==
    /\ \A n \in Proposed : RowOf(log[n]) \in LogRows
    /\ \A r \in LogRows : \E n \in Proposed : r = RowOf(log[n])
BY DEF Proposed, LogRows, RowsIn

\* An append and a rollback change the log's rows by that of the command being
\* served, which memory has.
LEMMA RowsOfNewLog ==
    ASSUME TypeOK, NumbersInv, CommandInv, pc \in {"append", "save"},
           \/ log' = log
           \/ pc = "append" /\ log' = Append(log, CurRecord)
           \/ pc = "save" /\ log' = Front(log)
    PROVE  /\ LogRows' \subseteq LogRows \cup {RowOf(cur)}
           /\ \A r \in LogRows' : r \in LogRows \/ (r = RowOf(cur) /\ r \in ToSet(rows))
           /\ \A r \in LogRows : r \in LogRows' \/ (r = RowOf(cur) /\ cur.cmd \in Proposal)
<1>c. /\ CurRecord \in Record /\ RowOf(CurRecord) = RowOf(cur) /\ CurRecord.cmd = cur.cmd
      /\ cur.cmd \in Proposal \cup {Core} /\ log \in Seq(Record)
  BY CurRecordIsOne DEF Committing, TypeOK
<1>d. cur.cmd # Core => cur.cmd \in Proposal /\ RowOf(cur) \in ToSet(rows)
  BY <1>c DEF CommandInv
<1>1. CASE log' = log
  BY <1>1 DEF LogRows
<1>2. CASE pc = "append" /\ log' = Append(log, CurRecord)
  <2>1. LogRows' = RowsIn(Append(log, CurRecord))  BY <1>2 DEF LogRows
  <2> QED  BY <1>c, <1>d, <2>1, RowsInAppend DEF LogRows
<1>3. CASE pc = "save" /\ log' = Front(log)
  <2>1. log # <<>> /\ log[Len(log)] = CurRecord  BY <1>3 DEF NumbersInv
  <2>2. Front(log) \in Seq(Record) /\ Append(Front(log), CurRecord) = log
    BY <1>c, <2>1, FrontShape
  <2>3. LogRows' = RowsIn(Front(log)) /\ LogRows = RowsIn(Append(Front(log), CurRecord))
    BY <1>3, <2>2 DEF LogRows
  <2>4. /\ RowsIn(Front(log)) \subseteq RowsIn(Append(Front(log), CurRecord))
        /\ RowsIn(Append(Front(log), CurRecord)) \subseteq RowsIn(Front(log)) \cup {RowOf(CurRecord)}
        /\ CurRecord.cmd = Core =>
               RowsIn(Append(Front(log), CurRecord)) = RowsIn(Front(log))
    BY <1>c, <2>2, RowsInAppend
  <2> QED  BY <1>c, <1>d, <2>3, <2>4
<1> QED  BY <1>1, <1>2, <1>3

\* A new row under the counter is new to memory, to the table file and to the log.
LEMMA CounterIsNew ==
    ASSUME TypeOK, CommandInv, RowsInv, Serving
    PROVE  \A r \in ToSet(table) \cup ToSet(rows) \cup LogRows : r.id # next_id
<1>1. ToSet(table) \subseteq ToSet(rows) /\ LogRows \subseteq ToSet(rows)
  BY AllReplayed DEF RowsInv, Serving
<1>2. \A n \in DOMAIN rows : rows[n].id < next_id  BY DEF RowsInv, Serving
<1>3. rows \in Seq(DemoRow) /\ next_id \in Nat  BY DEF TypeOK
<1>4. \A n \in DOMAIN rows : rows[n] \in DemoRow  BY <1>3, Elements
<1>5. \A r \in ToSet(rows) : r.id # next_id  BY <1>2, <1>3, <1>4 DEF ToSet, DemoRow
<1> QED  BY <1>1, <1>5

\* Empty tables share no id.
LEMMA RowsInit == Init => RowsInv
<1> SUFFICES ASSUME Init  PROVE RowsInv
  OBVIOUS
<1>1. table = <<>> /\ rows = <<>> /\ log = <<>> /\ pc = "down"  BY DEF Init
<1>2. ToSet(table) = {} /\ ToSet(rows) = {} /\ LogRows = {}
  BY <1>1 DEF ToSet, LogRows, RowsIn
<1>3. 0 \in Nat /\ \A n \in DOMAIN table : table[n].id <= 0  BY <1>1
<1>4. OneRowEach(rows) /\ OneRowEach(table)  BY <1>1 DEF OneRowEach
<1> QED  BY <1>1, <1>2, <1>3, <1>4 DEF RowsInv

\* Every step keeps one row for an id.
LEMMA RowsStep ==
    ASSUME ExtensionInv, [Next]_vars
    PROVE  RowsInv'
<1> USE DEF ExtensionInv
<1>a. ASSUME UNCHANGED <<log, table, rows, next_id, tail>>, pc' = "down" \/ pc # "down",
             pc' = "sidecar" => table = rows
      PROVE  RowsInv'
  BY <1>a DEF RowsInv, LogRows, Proposed
<1>t. /\ rows \in Seq(DemoRow) /\ table \in Seq(DemoRow) /\ log \in Seq(Record)
      /\ next_id \in Nat \ {0} /\ tail \subseteq DOMAIN log /\ sidecar \in Nat
  BY DEF TypeOK
<1>1. CASE Start
  <2>1. PICK ext_seq \in {sidecar, 0} : tail' = EventsSince(ext_seq)  BY <1>1 DEF Start
  <2>2. /\ log' = log /\ table' = table /\ rows' = table /\ next_id' = NextAfter(table)
        /\ pc' = "restoring"
    BY <1>1 DEF Start, disk
  <2>3. PICK b \in Nat : \A n \in DOMAIN table : table[n].id <= b  BY DEF RowsInv
  <2>4. \A n \in DOMAIN table : table[n].id < NextAfter(table)
    BY <1>t, <2>3, NextAfterFound
  <2>5. LogRows' = LogRows /\ Proposed' = Proposed  BY <2>2 DEF LogRows, Proposed
  <2>6. ASSUME NEW n \in Proposed, n \notin tail'
        PROVE  RowOf(log[n]) \in ToSet(table)
    <3>1. n \in DOMAIN log /\ log[n].cmd # Core  BY DEF Proposed
    <3>2. log[n] \in Record  BY <1>t, <3>1, Elements
    <3>3. log[n].seq <= sidecar
      <4>1. ~(log[n].seq > ext_seq)  BY <2>1, <2>6, <3>1 DEF EventsSince
      <4>2. log[n].seq \in Nat  BY <3>2 DEF Record
      <4> QED  BY <1>t, <4>1, <4>2
    <3> QED  BY <3>1, <3>3 DEF SidecarCovers, RowOf
  <2>7. OneRowEach(rows') /\ OneRowEach(table')  BY <2>2 DEF RowsInv
  <2>8. \A r, s \in ToSet(table) \cup LogRows : r.id = s.id => r = s
    BY DEF RowsInv
  <2>9. \E c \in Nat : \A n \in DOMAIN table' : table'[n].id <= c  BY <2>2, <2>3
  <2> QED  BY <2>2, <2>4, <2>5, <2>6, <2>7, <2>8, <2>9 DEF RowsInv
<1>2. CASE ReplayEvent
  <2> DEFINE k == Min(tail)
             e == log[k]
  <2>1. DOMAIN log \subseteq Nat  BY <1>t, Elements
  <2>2. k \in tail /\ k \in DOMAIN log
    BY <1>2, <1>t, <2>1, MinOfNaturals DEF ReplayEvent
  <2>3. e \in Record  BY <1>t, <2>2, Elements
  <2>4. /\ Replay(e) /\ tail' = tail \ {k} /\ log' = log /\ table' = table
        /\ pc = "restoring" /\ pc' = "restoring"
    BY <1>2 DEF ReplayEvent, disk
  <2> HIDE DEF k
  <2>5. LogRows' = LogRows /\ Proposed' = Proposed  BY <2>4 DEF LogRows, Proposed
  <2>6. /\ \A r, s \in ToSet(table) \cup ToSet(rows) \cup LogRows : r.id = s.id => r = s
        /\ OneRowEach(rows) /\ OneRowEach(table)
        /\ \E b \in Nat : \A n \in DOMAIN table : table[n].id <= b
        /\ \A n \in DOMAIN rows : rows[n].id < next_id
        /\ ToSet(table) \subseteq ToSet(rows)
        /\ \A n \in Proposed : n \notin tail => RowOf(log[n]) \in ToSet(rows)
    BY <2>4 DEF RowsInv
  <2>7. e.cmd # Core => k \in Proposed /\ RowOf(e) \in LogRows
    BY <2>2, LogRowsAre DEF Proposed
  <2> HIDE DEF e
  <2>8. /\ next_id <= next_id' /\ next_id' \in Nat
        /\ \/ rows' = rows /\ (e.cmd # Core => e.id \in Ids(rows))
           \/ /\ e.cmd # Core /\ e.id \notin Ids(rows) /\ RowOf(e) \in DemoRow
              /\ rows' = Append(rows, RowOf(e)) /\ e.id < next_id'
    BY <2>3, <2>4, ReplayShape
  <2>9. \A n \in DOMAIN rows : rows[n] \in DemoRow  BY <1>t, Elements
  <2>10. CASE rows' = rows /\ (e.cmd # Core => e.id \in Ids(rows))
    <3>1. e.cmd # Core => RowOf(e) \in ToSet(rows)
      <4> SUFFICES ASSUME e.cmd # Core  PROVE RowOf(e) \in ToSet(rows)
        OBVIOUS
      <4>1. PICK n \in DOMAIN rows : rows[n].id = e.id  BY <2>10 DEF Ids
      <4>2. rows[n] \in ToSet(rows)  BY DEF ToSet
      <4>3. RowOf(e).id = e.id  BY DEF RowOf
      <4> QED  BY <2>6, <2>7, <4>1, <4>2, <4>3
    <3>2. \A n \in Proposed : n \notin tail' => RowOf(log[n]) \in ToSet(rows)
      <4> SUFFICES ASSUME NEW n \in Proposed, n \notin tail'
                   PROVE  RowOf(log[n]) \in ToSet(rows)
        OBVIOUS
      <4>1. CASE n = k  BY <3>1, <4>1 DEF Proposed, e
      <4>2. CASE n # k  BY <2>4, <2>6, <4>2
      <4> QED  BY <4>1, <4>2
    <3>3. \A n \in DOMAIN rows : rows[n].id < next_id'
      BY <1>t, <2>6, <2>8, <2>9 DEF DemoRow
    <3> QED  BY <2>4, <2>5, <2>6, <2>10, <3>2, <3>3 DEF RowsInv
  <2>11. CASE /\ e.cmd # Core /\ e.id \notin Ids(rows) /\ RowOf(e) \in DemoRow
              /\ rows' = Append(rows, RowOf(e)) /\ e.id < next_id'
    <3> DEFINE r == RowOf(e)
    <3>1. r.id = e.id /\ r \in DemoRow /\ r \in LogRows  BY <2>7, <2>11 DEF RowOf
    <3> HIDE DEF r
    <3>2. rows' = Append(rows, r)  BY <2>11 DEF r
    <3>3. /\ DOMAIN rows' = 1..(Len(rows) + 1) /\ Len(rows) \in Nat /\ DOMAIN rows = 1..Len(rows)
          /\ \A n \in DOMAIN rows : rows'[n] = rows[n]
          /\ rows'[Len(rows) + 1] = r
          /\ ToSet(rows') = ToSet(rows) \cup {r}
      BY <1>t, <3>1, <3>2, AppendShape
    <3>4. OneRowEach(rows')
      BY <1>t, <2>6, <2>11, <3>1, <3>2, RowAdded DEF Ids
    <3>5. \A n \in DOMAIN rows' : rows'[n].id < next_id'
      <4> SUFFICES ASSUME NEW n \in DOMAIN rows'  PROVE rows'[n].id < next_id'
        OBVIOUS
      <4>1. CASE n = Len(rows) + 1  BY <2>11, <3>1, <3>3, <4>1
      <4>2. CASE n \in DOMAIN rows
        BY <1>t, <2>6, <2>8, <2>9, <3>3, <4>2 DEF DemoRow
      <4> QED  BY <3>3, <4>1, <4>2
    <3>6. \A n \in Proposed : n \notin tail' => RowOf(log[n]) \in ToSet(rows')
      <4> SUFFICES ASSUME NEW n \in Proposed, n \notin tail'
                   PROVE  RowOf(log[n]) \in ToSet(rows')
        OBVIOUS
      <4>1. CASE n = k  BY <3>3, <4>1 DEF e, r
      <4>2. CASE n # k  BY <2>4, <2>6, <3>3, <4>2
      <4> QED  BY <4>1, <4>2
    <3>7. \A x, y \in ToSet(table) \cup ToSet(rows') \cup LogRows : x.id = y.id => x = y
      BY <2>6, <3>1, <3>3
    <3> QED  BY <2>4, <2>5, <2>6, <3>3, <3>4, <3>5, <3>6, <3>7 DEF RowsInv
  <2> QED  BY <2>8, <2>10, <2>11
<1>3. CASE Serve
  BY <1>3, <1>a DEF Serve, disk, engine
<1>4. ASSUME NEW p \in Proposal, Propose(p)  PROVE RowsInv'
  <2> DEFINE r == [id |-> next_id, by |-> p]
  <2>1. /\ pc = "idle" /\ pc' = "append" /\ tail' = tail /\ log' = log /\ table' = table
        /\ rows' = Append(rows, r) /\ next_id' = next_id + 1
    BY <1>4 DEF Propose, disk
  <2>2. r.id = next_id /\ r \in DemoRow  BY <1>t DEF DemoRow
  <2> HIDE DEF r
  <2>3. /\ DOMAIN rows' = 1..(Len(rows) + 1) /\ Len(rows) \in Nat /\ DOMAIN rows = 1..Len(rows)
        /\ \A n \in DOMAIN rows : rows'[n] = rows[n]
        /\ rows'[Len(rows) + 1] = r
        /\ ToSet(rows') = ToSet(rows) \cup {r}
    BY <1>t, <2>1, <2>2, AppendShape
  <2>4. LogRows' = LogRows /\ Proposed' = Proposed  BY <2>1 DEF LogRows, Proposed
  <2>5. \A x \in ToSet(table) \cup ToSet(rows) \cup LogRows : x.id # next_id
    BY <2>1, CounterIsNew DEF Serving
  <2>6. /\ \A x, y \in ToSet(table) \cup ToSet(rows) \cup LogRows : x.id = y.id => x = y
        /\ OneRowEach(rows) /\ OneRowEach(table)
        /\ \E b \in Nat : \A n \in DOMAIN table : table[n].id <= b
        /\ \A n \in DOMAIN rows : rows[n].id < next_id
        /\ ToSet(table) \subseteq ToSet(rows)
        /\ \A n \in Proposed : n \notin tail => RowOf(log[n]) \in ToSet(rows)
    BY <2>1 DEF RowsInv
  <2>7. \A x, y \in ToSet(table) \cup ToSet(rows') \cup LogRows : x.id = y.id => x = y
    BY <2>2, <2>3, <2>5, <2>6
  <2>8. \A n \in DOMAIN rows : rows[n].id # r.id
    <3>1. \A n \in DOMAIN rows : rows[n] \in ToSet(rows)  BY DEF ToSet
    <3> QED  BY <2>2, <2>5, <3>1
  <2>9. OneRowEach(rows')  BY <1>t, <2>1, <2>2, <2>6, <2>8, RowAdded
  <2>10. \A n \in DOMAIN rows' : rows'[n].id < next_id'
    <3>1. \A n \in DOMAIN rows : rows[n] \in DemoRow  BY <1>t, Elements
    <3> SUFFICES ASSUME NEW n \in DOMAIN rows'  PROVE rows'[n].id < next_id'
      OBVIOUS
    <3>2. CASE n = Len(rows) + 1  BY <1>t, <2>1, <2>2, <2>3, <3>2
    <3>3. CASE n \in DOMAIN rows
      BY <1>t, <2>1, <2>3, <2>6, <3>1, <3>3 DEF DemoRow
    <3> QED  BY <2>3, <3>2, <3>3
  <2> QED  BY <2>1, <2>3, <2>4, <2>6, <2>7, <2>9, <2>10 DEF RowsInv
<1>5. ASSUME NEW p \in Proposal, Refuse(p)  PROVE RowsInv'
  BY <1>5, <1>a DEF Refuse, disk, engine
<1>6. CASE CoreCommand
  BY <1>6, <1>a DEF CoreCommand, disk
<1>7. ASSUME /\ pc \in {"append", "save"} /\ pc' # "down" /\ pc' # "sidecar"
             /\ UNCHANGED <<table, rows, next_id, tail>>
             /\ \/ log' = log
                \/ pc = "append" /\ log' = Append(log, CurRecord)
                \/ pc = "save" /\ log' = Front(log)
      PROVE  RowsInv'
  <2>1. \A r \in LogRows' : r \in LogRows \/ (r = RowOf(cur) /\ r \in ToSet(rows))
    BY <1>7, RowsOfNewLog
  <2>2. LogRows \subseteq ToSet(rows)  BY <1>7, AllReplayed DEF Serving
  <2>3. LogRows' \subseteq ToSet(rows)  BY <2>1, <2>2
  <2>4. \A n \in Proposed' : RowOf(log'[n]) \in ToSet(rows)
    BY <2>3 DEF LogRows, RowsIn, Proposed
  <2>5. /\ \A x, y \in ToSet(table) \cup ToSet(rows) \cup LogRows : x.id = y.id => x = y
        /\ OneRowEach(rows) /\ OneRowEach(table)
        /\ \E b \in Nat : \A n \in DOMAIN table : table[n].id <= b
        /\ \A n \in DOMAIN rows : rows[n].id < next_id
        /\ ToSet(table) \subseteq ToSet(rows)
    BY <1>7 DEF RowsInv
  <2>6. \A x, y \in ToSet(table) \cup ToSet(rows) \cup LogRows' : x.id = y.id => x = y
    BY <2>3, <2>5
  <2> QED  BY <1>7, <2>4, <2>5, <2>6 DEF RowsInv
<1>8. CASE AppendRecord
  BY <1>7, <1>8 DEF AppendRecord, engine
<1>9. CASE SaveTables
  BY <1>9, <1>a DEF SaveTables, disk
<1>10. CASE CommitFails
  <2>1. /\ pc \in {"append", "save"} /\ pc' = "idle" /\ UNCHANGED <<table, rows, next_id, tail>>
    BY <1>10 DEF CommitFails
  <2> QED  BY <1>7, <1>10, <2>1, LogAfterFailure
<1>11. CASE CheckpointTable
  <2>1. /\ pc = "checkpoint" /\ pc' = "sidecar" /\ log' = log /\ table' = rows /\ rows' = rows
        /\ next_id' = next_id /\ tail' = tail
    BY <1>11 DEF CheckpointTable, engine
  <2>2. LogRows' = LogRows /\ Proposed' = Proposed  BY <2>1 DEF LogRows, Proposed
  <2>3. /\ \A x, y \in ToSet(rows) \cup LogRows : x.id = y.id => x = y
        /\ OneRowEach(rows)
        /\ \A n \in DOMAIN rows : rows[n].id < next_id
        /\ \A n \in Proposed : n \notin tail => RowOf(log[n]) \in ToSet(rows)
    BY <2>1 DEF RowsInv
  <2>4. \E b \in Nat : \A n \in DOMAIN rows : rows[n].id <= b
    <3>1. \A n \in DOMAIN rows : rows[n] \in DemoRow  BY <1>t, Elements
    <3>2. \A n \in DOMAIN rows : rows[n].id <= next_id  BY <1>t, <2>3, <3>1 DEF DemoRow
    <3> QED  BY <1>t, <3>2
  <2> QED  BY <2>1, <2>2, <2>3, <2>4 DEF RowsInv
<1>12. CASE CheckpointSidecar
  BY <1>12, <1>a DEF CheckpointSidecar, engine
<1>13. CASE CheckpointFails
  BY <1>13, <1>a DEF CheckpointFails, disk, engine
<1>14. CASE Reply
  BY <1>14, <1>a DEF Reply, disk, engine
<1>15. CASE Crash
  <2>1. rows' = <<>> /\ log' = log /\ table' = table /\ pc' = "down"
    BY <1>15 DEF Crash, disk
  <2>2. ToSet(rows') = {} /\ OneRowEach(rows')  BY <2>1 DEF ToSet, OneRowEach
  <2>3. LogRows' = LogRows  BY <2>1 DEF LogRows
  <2> QED  BY <2>1, <2>2, <2>3 DEF RowsInv
<1>16. CASE UNCHANGED vars
  BY <1>16 DEF RowsInv, LogRows, Proposed, vars, disk, engine, clients
<1> QED
  BY <1>1, <1>2, <1>3, <1>4, <1>5, <1>6, <1>8, <1>9, <1>10, <1>11, <1>12,
     <1>13, <1>14, <1>15, <1>16 DEF Next

-----------------------------------------------------------------------------
(* What the clients were told *)

LEMMA AckedInit == Init => AckedInv
BY DEF Init, AckedInv

\* Every step keeps it: a record leaves the log only with its command unanswered.
LEMMA AckedStep ==
    ASSUME ExtensionInv, [Next]_vars
    PROVE  AckedInv'
<1> USE DEF ExtensionInv
<1>a. ASSUME UNCHANGED <<log, snapshot>>, pc \notin {"down", "restoring"} \/ ~Serving',
             \A p \in Proposal : outcome'[p] = "acked" =>
                 outcome[p] = "acked" /\ told'[p] = told[p]
      PROVE  AckedInv'
  BY <1>a DEF AckedInv, Serving, LogRows
<1>t. outcome \in [Proposal -> Outcome] /\ told \in [Proposal -> Nat]
  BY DEF TypeOK
<1>1. CASE Start
  BY <1>1, <1>a DEF Start, Serving, disk, clients
<1>2. CASE ReplayEvent
  BY <1>2, <1>a DEF ReplayEvent, Serving, disk, clients
<1>3. CASE Serve
  <2>1. /\ pc = "restoring" /\ tail = {} /\ pc' = "idle" /\ log' = log /\ snapshot'.rows = rows
        /\ outcome' = outcome /\ told' = told
    BY <1>3 DEF Serve, disk, clients
  <2>2. LogRows \subseteq ToSet(rows)
    BY <2>1 DEF RowsInv, LogRows, RowsIn, Proposed
  <2>3. LogRows' = LogRows  BY <2>1 DEF LogRows
  <2> QED  BY <2>1, <2>2, <2>3 DEF AckedInv
<1>4. ASSUME NEW p \in Proposal, Propose(p)  PROVE AckedInv'
  <2>1. \A q \in Proposal : outcome'[q] = "acked" => outcome[q] = "acked"
    BY <1>4, <1>t DEF Propose
  <2> QED  BY <1>4, <1>a, <2>1 DEF Propose, disk
<1>5. ASSUME NEW p \in Proposal, Refuse(p)  PROVE AckedInv'
  <2>1. \A q \in Proposal : outcome'[q] = "acked" => outcome[q] = "acked"
    BY <1>5, <1>t DEF Refuse
  <2> QED  BY <1>5, <1>a, <2>1 DEF Refuse, disk
<1>6. CASE CoreCommand
  BY <1>6, <1>a DEF CoreCommand, disk, clients
<1>7. ASSUME /\ pc \in {"append", "save"} /\ UNCHANGED <<told, snapshot>>
             /\ \A p \in Proposal : outcome'[p] = "acked" => outcome[p] = "acked"
             /\ \/ log' = log
                \/ pc = "append" /\ log' = Append(log, CurRecord)
                \/ pc = "save" /\ log' = Front(log)
      PROVE  AckedInv'
  <2>1. \A r \in LogRows : r \in LogRows' \/ (r = RowOf(cur) /\ cur.cmd \in Proposal)
    BY <1>7, RowsOfNewLog
  <2>2. cur.cmd \in Proposal => outcome[cur.cmd] = "pending"  BY DEF CommandInv
  <2> SUFFICES ASSUME NEW p \in Proposal, outcome'[p] = "acked"
               PROVE  /\ [id |-> told[p], by |-> p] \in LogRows'
                      /\ [id |-> told[p], by |-> p] \in ToSet(snapshot.rows)
    BY <1>7 DEF AckedInv
  <2> DEFINE r == [id |-> told[p], by |-> p]
  <2>3. r \in LogRows /\ r \in ToSet(snapshot.rows) /\ outcome[p] = "acked"
    BY <1>7 DEF AckedInv, Serving
  <2>4. r # RowOf(cur) \/ cur.cmd = p  BY DEF RowOf
  <2>5. cur.cmd # p  BY <2>2, <2>3
  <2> HIDE DEF r
  <2>6. r \in LogRows'  BY <2>1, <2>3, <2>4, <2>5
  <2> QED  BY <2>3, <2>6 DEF r
<1>8. CASE AppendRecord
  BY <1>7, <1>8 DEF AppendRecord, clients
<1>9. CASE SaveTables
  BY <1>9, <1>a DEF SaveTables, disk, clients
<1>10. CASE CommitFails
  <2>1. /\ pc \in {"append", "save"} /\ UNCHANGED <<told, snapshot>>
        /\ \A p \in Proposal : outcome'[p] = "acked" => outcome[p] = "acked"
    BY <1>10 DEF CommitFails
  <2> QED  BY <1>7, <1>10, <2>1, LogAfterFailure
<1>11. CASE CheckpointTable
  BY <1>11, <1>a DEF CheckpointTable, clients
<1>12. CASE CheckpointSidecar
  BY <1>12, <1>a DEF CheckpointSidecar, clients
<1>13. CASE CheckpointFails
  BY <1>13, <1>a DEF CheckpointFails, disk, clients
<1>14. CASE Reply
  <2>1. /\ pc = "reply" /\ log' = log /\ snapshot'.rows = rows
        /\ outcome' = [p \in Proposal |-> IF p = cur.cmd THEN "acked" ELSE outcome[p]]
        /\ told' = [p \in Proposal |-> IF p = cur.cmd THEN cur.id ELSE told[p]]
    BY <1>14 DEF Reply, disk
  <2>2. LogRows \subseteq ToSet(rows)  BY <2>1, AllReplayed DEF Serving
  <2>3. LogRows' = LogRows  BY <2>1 DEF LogRows
  <2>4. cur.cmd \in Proposal => RowOf(cur) \in LogRows
    BY <2>1 DEF CommandInv, Logged
  <2>5. ASSUME NEW p \in Proposal, outcome'[p] = "acked"
        PROVE  [id |-> told'[p], by |-> p] \in LogRows
    <3>1. CASE p = cur.cmd  BY <2>1, <2>4, <3>1 DEF RowOf
    <3>2. CASE p # cur.cmd  BY <2>1, <2>5, <3>2 DEF AckedInv
    <3> QED  BY <3>1, <3>2
  <2> QED  BY <2>1, <2>2, <2>3, <2>5 DEF AckedInv
<1>15. CASE Crash
  <2>1. \A q \in Proposal : outcome'[q] = "acked" => outcome[q] = "acked"
    BY <1>15 DEF Crash
  <2>2. log' = log /\ told' = told /\ ~Serving'  BY <1>15 DEF Crash, disk, Serving
  <2>3. LogRows' = LogRows  BY <2>2 DEF LogRows
  <2> QED  BY <2>1, <2>2, <2>3 DEF AckedInv
<1>16. CASE UNCHANGED vars
  BY <1>16 DEF AckedInv, LogRows, Serving, vars, disk, engine, clients
<1> QED
  BY <1>1, <1>2, <1>3, <1>4, <1>5, <1>6, <1>8, <1>9, <1>10, <1>11, <1>12,
     <1>13, <1>14, <1>15, <1>16 DEF Next

-----------------------------------------------------------------------------
(* What the sidecar and the snapshot speak for *)

LEMMA CoverInit == Init => SidecarCovers /\ SnapshotCoversSeq
BY DEF Init, SidecarCovers, SnapshotCoversSeq

\* A record that an append or a failed commit leaves at the end of the log is
\* above the sidecar and above the snapshot.
LEMMA NewRecordIsAbove ==
    ASSUME TypeOK, NumbersInv, CommandInv, pc \in {"append", "save"},
           \/ log' = log
           \/ pc = "append" /\ log' = Append(log, CurRecord)
           \/ pc = "save" /\ log' = Front(log)
    PROVE  /\ committed_seq \in Nat /\ sidecar \in Nat /\ snapshot.seq \in Nat
           /\ sidecar <= committed_seq /\ snapshot.seq <= committed_seq
           /\ \A n \in DOMAIN log' :
                  (n \in DOMAIN log /\ log'[n] = log[n]) \/ log'[n].seq = committed_seq + 1
<1>1. /\ committed_seq \in Nat /\ sidecar \in Nat /\ snapshot.seq \in Nat
      /\ sidecar <= committed_seq /\ snapshot.seq <= committed_seq
  BY DEF TypeOK, NumbersInv, Serving
<1>2. CurRecord \in Record /\ CurRecord.seq = committed_seq + 1 /\ log \in Seq(Record)
  BY CurRecordIsOne DEF Committing, TypeOK
<1>3. CASE log' = log  BY <1>1, <1>3
<1>4. CASE pc = "append" /\ log' = Append(log, CurRecord)
  <2>1. /\ DOMAIN log = 1..Len(log) /\ Len(log) \in Nat /\ DOMAIN log' = 1..(Len(log) + 1)
        /\ \A n \in DOMAIN log : log'[n] = log[n]
        /\ log'[Len(log) + 1] = CurRecord
    BY <1>2, <1>4, AppendShape
  <2>2. DOMAIN log' = DOMAIN log \cup {Len(log) + 1}  BY <2>1
  <2> QED  BY <1>1, <1>2, <2>1, <2>2
<1>5. CASE pc = "save" /\ log' = Front(log)
  <2>1. log # <<>>  BY <1>5 DEF NumbersInv
  <2>2. /\ DOMAIN log = 1..Len(log) /\ Len(log) \in Nat \ {0}
        /\ DOMAIN log' = 1..(Len(log) - 1)
        /\ \A n \in DOMAIN log' : log'[n] = log[n]
    BY <1>2, <1>5, <2>1, FrontShape
  <2>3. ASSUME NEW k \in Nat, NEW n \in 1..(k - 1)  PROVE n \in 1..k
    OBVIOUS
  <2>4. \A n \in DOMAIN log' : n \in DOMAIN log  BY <2>2, <2>3
  <2> QED  BY <1>1, <2>2, <2>4
<1> QED  BY <1>3, <1>4, <1>5

\* Every step keeps what they speak for.
LEMMA CoverStep ==
    ASSUME ExtensionInv, [Next]_vars
    PROVE  SidecarCovers' /\ SnapshotCoversSeq'
<1> USE DEF ExtensionInv
<1>a. ASSUME UNCHANGED <<log, table, sidecar, snapshot>>,
             pc \notin {"down", "restoring"} \/ ~Serving'
      PROVE  SidecarCovers' /\ SnapshotCoversSeq'
  BY <1>a DEF SidecarCovers, SnapshotCoversSeq, Serving
<1>b. ASSUME tail = {}, pc # "down"
      PROVE  \A n \in DOMAIN log : log[n].cmd # Core =>
                 [id |-> log[n].id, by |-> log[n].cmd] \in ToSet(rows)
  BY <1>b DEF RowsInv, Proposed, RowOf
<1>1. CASE Start
  BY <1>1, <1>a DEF Start, Serving, disk, clients
<1>2. CASE ReplayEvent
  BY <1>2, <1>a DEF ReplayEvent, Serving, disk, clients
<1>3. CASE Serve
  <2>1. /\ tail = {} /\ pc # "down" /\ log' = log /\ table' = table /\ sidecar' = sidecar
        /\ snapshot'.rows = rows
    BY <1>3 DEF Serve, disk
  <2> QED  BY <1>b, <2>1 DEF SidecarCovers, SnapshotCoversSeq
<1>4. ASSUME NEW p \in Proposal, Propose(p)
      PROVE  SidecarCovers' /\ SnapshotCoversSeq'
  BY <1>4, <1>a DEF Propose, disk
<1>5. ASSUME NEW p \in Proposal, Refuse(p)
      PROVE  SidecarCovers' /\ SnapshotCoversSeq'
  BY <1>5, <1>a DEF Refuse, disk
<1>6. CASE CoreCommand
  BY <1>6, <1>a DEF CoreCommand, disk, clients
<1>7. ASSUME /\ pc \in {"append", "save"} /\ UNCHANGED <<table, sidecar, snapshot>>
             /\ \/ log' = log
                \/ pc = "append" /\ log' = Append(log, CurRecord)
                \/ pc = "save" /\ log' = Front(log)
      PROVE  SidecarCovers' /\ SnapshotCoversSeq'
  <2>1. /\ committed_seq \in Nat /\ sidecar \in Nat /\ snapshot.seq \in Nat
        /\ sidecar <= committed_seq /\ snapshot.seq <= committed_seq
        /\ \A n \in DOMAIN log' :
               (n \in DOMAIN log /\ log'[n] = log[n]) \/ log'[n].seq = committed_seq + 1
    BY <1>7, NewRecordIsAbove
  <2>2. \A n \in DOMAIN log' : log'[n].seq <= sidecar \/ log'[n].seq <= snapshot.seq =>
            n \in DOMAIN log /\ log'[n] = log[n]
    BY <2>1
  <2>3. SidecarCovers'  BY <1>7, <2>2 DEF SidecarCovers
  <2>4. SnapshotCoversSeq'  BY <1>7, <2>2 DEF SnapshotCoversSeq, Serving
  <2> QED  BY <2>3, <2>4
<1>8. CASE AppendRecord
  BY <1>7, <1>8 DEF AppendRecord, clients
<1>9. CASE SaveTables
  BY <1>9, <1>a DEF SaveTables, disk, clients
<1>10. CASE CommitFails
  <2>1. pc \in {"append", "save"} /\ UNCHANGED <<table, sidecar, snapshot>>
    BY <1>10 DEF CommitFails
  <2> QED  BY <1>7, <1>10, <2>1, LogAfterFailure
<1>11. CASE CheckpointTable
  <2>1. /\ tail = {} /\ pc = "checkpoint" /\ log' = log /\ table' = rows /\ sidecar' = sidecar
        /\ snapshot' = snapshot
    BY <1>11 DEF CheckpointTable, CommandInv
  <2>2. SidecarCovers'  BY <1>b, <2>1 DEF SidecarCovers
  <2>3. SnapshotCoversSeq'  BY <2>1 DEF SnapshotCoversSeq, Serving
  <2> QED  BY <2>2, <2>3
<1>12. CASE CheckpointSidecar
  <2>1. /\ tail = {} /\ pc = "sidecar" /\ log' = log /\ table' = table /\ table = rows
        /\ snapshot' = snapshot
    BY <1>12 DEF CheckpointSidecar, CommandInv, RowsInv
  <2>2. SidecarCovers'  BY <1>b, <2>1 DEF SidecarCovers
  <2>3. SnapshotCoversSeq'  BY <2>1 DEF SnapshotCoversSeq, Serving
  <2> QED  BY <2>2, <2>3
<1>13. CASE CheckpointFails
  BY <1>13, <1>a DEF CheckpointFails, disk, clients
<1>14. CASE Reply
  <2>1. /\ tail = {} /\ pc # "down" /\ log' = log /\ table' = table /\ sidecar' = sidecar
        /\ snapshot'.rows = rows
    BY <1>14 DEF Reply, disk, CommandInv
  <2> QED  BY <1>b, <2>1 DEF SidecarCovers, SnapshotCoversSeq
<1>15. CASE Crash
  <2>1. ~Serving' /\ UNCHANGED <<log, table, sidecar>>  BY <1>15 DEF Crash, disk, Serving
  <2> QED  BY <2>1 DEF SidecarCovers, SnapshotCoversSeq
<1>16. CASE UNCHANGED vars
  BY <1>16 DEF SidecarCovers, SnapshotCoversSeq, Serving, vars, disk, engine, clients
<1> QED
  BY <1>1, <1>2, <1>3, <1>4, <1>5, <1>6, <1>8, <1>9, <1>10, <1>11, <1>12,
     <1>13, <1>14, <1>15, <1>16 DEF Next

-----------------------------------------------------------------------------
(* Theorems *)

LEMMA ExtensionInvariant == Spec => []ExtensionInv
<1>1. Init => ExtensionInv
  BY TypeInit, NumbersInit, CommandInit, RowsInit, AckedInit, CoverInit DEF ExtensionInv
<1>2. ExtensionInv /\ [Next]_vars => ExtensionInv'
  BY TypeStep, NumbersStep, CommandStep, RowsStep, AckedStep, CoverStep DEF ExtensionInv
<1> QED  BY <1>1, <1>2, PTL DEF Spec

\* No two rows of a serving server share an id, whatever was lost, replayed over a
\* checkpoint that trails or minted by a process before this one (restore,
\* NextAfter and the replay that skips an id it has).
THEOREM OneRowForAnId == Spec => []IdsNameOneRow
<1>1. ExtensionInv => IdsNameOneRow
  <2> SUFFICES ASSUME ExtensionInv  PROVE IdsNameOneRow
    OBVIOUS
  <2>1. OneRowEach(rows)  BY DEF ExtensionInv, RowsInv
  <2> QED  BY <2>1 DEF IdsNameOneRow, IsInjective, OneRowEach
<1> QED  BY <1>1, ExtensionInvariant, PTL

\* An acknowledged proposal is under the id its reply named in the table of every
\* server that serves from then on, and in what its readers see: the record is in
\* the log for good, and a start takes it from the checkpoint or from the log.
THEOREM AnswersStand == Spec => []AckedKeepsItsId
<1>1. ExtensionInv => AckedKeepsItsId
  <2> SUFFICES ASSUME ExtensionInv, Serving, NEW p \in Proposal, outcome[p] = "acked"
               PROVE  /\ [id |-> told[p], by |-> p] \in ToSet(rows)
                      /\ [id |-> told[p], by |-> p] \in ToSet(snapshot.rows)
    BY DEF AckedKeepsItsId
  <2> DEFINE r == [id |-> told[p], by |-> p]
  <2>1. r \in LogRows /\ r \in ToSet(snapshot.rows)  BY DEF ExtensionInv, AckedInv
  <2>2. LogRows \subseteq ToSet(rows)  BY AllReplayed DEF ExtensionInv
  <2> QED  BY <2>1, <2>2
<1> QED  BY <1>1, ExtensionInvariant, PTL

\* Neither the sidecar nor a snapshot claims a seq that its rows do not cover, so
\* leaving out of the replay what the sidecar covers loses nothing.
THEOREM ClaimsAreCovered == Spec => []SeqsCovered
<1>1. ExtensionInv => SeqsCovered  BY DEF ExtensionInv, SeqsCovered
<1> QED  BY <1>1, ExtensionInvariant, PTL

\* The seqs of the log never decrease, although a record whose truncate failed may
\* share its seq with the next: what lets read_events_since sort by seq and keep
\* the order of the file.
THEOREM LogInOrder == Spec => []SeqsOrdered
<1>1. ExtensionInv => SeqsOrdered
  BY DEF ExtensionInv, NumbersInv
<1> QED  BY <1>1, ExtensionInvariant, PTL
=============================================================================
