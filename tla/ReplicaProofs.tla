----------------------------- MODULE ReplicaProofs -----------------------------
(***************************************************************************)
(* Theorems about Replica, for any number of writes, any epochs and any    *)
(* faults of the source: the types, the rows a snapshot may have, the      *)
(* epochs of what was applied, what readers see over time, and when reads  *)
(* stop.                                                                   *)
(***************************************************************************)
EXTENDS Replica, FiniteSetTheorems, SequenceTheorems, WellFoundedInduction, TLAPS

-----------------------------------------------------------------------------
(* Numbers and sequences *)

\* Every set of naturals that is not empty has a least element.
LEMMA LeastNatural ==
    ASSUME NEW T, T \subseteq Nat, T # {}
    PROVE  \E x \in T : \A y \in T : x <= y
<1> DEFINE R == {ss \in Nat \X Nat : ss[1] < ss[2]}
<1>1. IsWellFoundedOn(R, Nat)  BY NatLessThanWellFounded, Zenon DEF OpToRel
<1>2. \A x, y \in T : y < x => <<y, x>> \in R
  OBVIOUS
<1> HIDE DEF R
<1>3. PICK x \in T : \A y \in T : ~ (<<y, x>> \in R)
  BY <1>1, WFMin
<1>4. x \in Nat /\ \A y \in T : y \in Nat /\ ~(y < x)
  <2> SUFFICES ASSUME NEW y \in T  PROVE ~(y < x)
    OBVIOUS
  <2>1. ~ (<<y, x>> \in R)  BY <1>3
  <2> QED  BY <1>2, <2>1
<1> QED  BY <1>4

\* A bounded set of naturals that is not empty has a largest element.
LEMMA LargestNatural ==
    ASSUME NEW T, T \subseteq Nat, T # {}, NEW b \in Nat, \A x \in T : x <= b
    PROVE  \E x \in T : \A y \in T : y <= x
<1> DEFINE U == {n \in Nat : \A x \in T : x <= n}
<1>1. U \subseteq Nat /\ b \in U  OBVIOUS
<1>2. PICK u \in U : \A v \in U : u <= v  BY <1>1, LeastNatural
<1>3. u \in T
  <2> SUFFICES ASSUME u \notin T  PROVE FALSE
    OBVIOUS
  <2>1. \A x \in T : x <= u - 1  BY <1>2
  <2>2. u - 1 \in Nat
    <3>1. PICK t \in T : TRUE  OBVIOUS
    <3> QED  BY <1>2, <2>1, <3>1
  <2>3. u - 1 \in U  BY <2>1, <2>2
  <2> QED  BY <1>2, <2>3
<1> QED  BY <1>2, <1>3

\* Max of a bounded set of naturals is its largest element.
LEMMA MaxOfNaturals ==
    ASSUME NEW T, T \subseteq Nat, T # {}, NEW b \in Nat, \A x \in T : x <= b
    PROVE  Max(T) \in T /\ \A x \in T : x <= Max(T)
<1>1. PICK m \in T : \A x \in T : x <= m  BY LargestNatural
<1>2. \A x \in T : m >= x  BY <1>1
<1> QED  BY <1>2 DEF Max

\* What an append does to the elements.
LEMMA AppendShape ==
    ASSUME NEW S, NEW s \in Seq(S), NEW e \in S
    PROVE  /\ Append(s, e) \in Seq(S) /\ Len(s) \in Nat /\ DOMAIN s = 1..Len(s)
           /\ Len(Append(s, e)) = Len(s) + 1
           /\ DOMAIN Append(s, e) = 1..(Len(s) + 1)
           /\ \A n \in DOMAIN s : Append(s, e)[n] = s[n]
           /\ Append(s, e)[Len(s) + 1] = e
           /\ ToSet(Append(s, e)) = ToSet(s) \cup {e}
<1>1. /\ Append(s, e) \in Seq(S) /\ Len(s) \in Nat /\ DOMAIN s = 1..Len(s)
      /\ Len(Append(s, e)) = Len(s) + 1
      /\ DOMAIN Append(s, e) = 1..(Len(s) + 1)
      /\ \A n \in DOMAIN s : Append(s, e)[n] = s[n]
      /\ Append(s, e)[Len(s) + 1] = e
  BY AppendProperties, LenProperties
<1>2. ToSet(Append(s, e)) \subseteq ToSet(s) \cup {e}
  <2> SUFFICES ASSUME NEW n \in 1..(Len(s) + 1)  PROVE Append(s, e)[n] \in ToSet(s) \cup {e}
    BY <1>1 DEF ToSet
  <2>1. CASE n = Len(s) + 1  BY <1>1, <2>1
  <2>2. CASE n # Len(s) + 1
    <3>1. n \in DOMAIN s  BY <1>1, <2>2
    <3> QED  BY <1>1, <3>1 DEF ToSet
  <2> QED  BY <2>1, <2>2
<1>3. ToSet(s) \cup {e} \subseteq ToSet(Append(s, e))
  <2>1. e \in ToSet(Append(s, e))
    <3>1. Len(s) + 1 \in DOMAIN Append(s, e)  BY <1>1
    <3> QED  BY <1>1, <3>1 DEF ToSet
  <2>2. ASSUME NEW n \in DOMAIN s  PROVE s[n] \in ToSet(Append(s, e))
    <3>1. n \in DOMAIN Append(s, e)  BY <1>1
    <3> QED  BY <1>1, <3>1 DEF ToSet
  <2> QED  BY <2>1, <2>2 DEF ToSet
<1> QED  BY <1>1, <1>2, <1>3

\* What taking the last element off does.
LEMMA FrontShape ==
    ASSUME NEW S, NEW s \in Seq(S), s # <<>>
    PROVE  /\ Front(s) \in Seq(S) /\ Len(s) \in Nat \ {0} /\ DOMAIN s = 1..Len(s)
           /\ Len(Front(s)) = Len(s) - 1
           /\ DOMAIN Front(s) = 1..(Len(s) - 1)
           /\ \A n \in DOMAIN Front(s) : Front(s)[n] = s[n]
           /\ Append(Front(s), s[Len(s)]) = s
<1>1. Len(s) \in Nat \ {0} /\ DOMAIN s = 1..Len(s) /\ s[Len(s)] \in S
  BY EmptySeq, LenProperties, ElementOfSeq
<1>2. /\ Front(s) \in Seq(S) /\ Len(Front(s)) = Len(s) - 1
      /\ \A n \in 1..(Len(s) - 1) : Front(s)[n] = s[n]
  BY <1>1, SubSeqProperties DEF Front
<1>3. DOMAIN Front(s) = 1..(Len(s) - 1)  BY <1>2, LenProperties
<1> DEFINE t == Append(Front(s), s[Len(s)])
<1>4. /\ t \in Seq(S) /\ Len(t) = Len(s)
      /\ \A n \in 1..(Len(s) - 1) : t[n] = Front(s)[n]
      /\ t[Len(s)] = s[Len(s)]
  <2>1. Len(Front(s)) + 1 = Len(s)  BY <1>1, <1>2
  <2>2. /\ t \in Seq(S) /\ Len(t) = Len(Front(s)) + 1
        /\ \A n \in DOMAIN Front(s) : t[n] = Front(s)[n]
        /\ t[Len(Front(s)) + 1] = s[Len(s)]
    <3> DEFINE f == Front(s)
               e == s[Len(s)]
    <3>1. f \in Seq(S) /\ e \in S  BY <1>1, <1>2
    <3> HIDE DEF f, e
    <3>2. /\ Append(f, e) \in Seq(S) /\ Len(Append(f, e)) = Len(f) + 1
          /\ \A n \in DOMAIN f : Append(f, e)[n] = f[n]
          /\ Append(f, e)[Len(f) + 1] = e
      BY <3>1, AppendShape
    <3> QED  BY <3>2 DEF f, e
  <2> QED  BY <1>1, <1>3, <2>1, <2>2
<1>5. \A n \in 1..Len(t) : t[n] = s[n]  BY <1>1, <1>2, <1>4
<1> HIDE DEF t
<1>6. t = s  BY <1>4, <1>5, SeqEqual
<1> QED  BY <1>1, <1>2, <1>3, <1>6 DEF t

-----------------------------------------------------------------------------
(* The inductive invariant *)

\* How long the log stays whatever becomes of the commit under way.
Done == IF cur = NoWrite THEN Len(log) ELSE Len(log) - 1

\* The writer's files.  A write is in the log or lost, never both; the tables have
\* no others, and all that the manifest covers.
FilesInv ==
    /\ cur # NoWrite => log # <<>> /\ log[Len(log)].write = cur
    /\ \A i, j \in 1..Len(log) : log[i].write = log[j].write => i = j
    /\ \A i \in 1..Len(log) : log[i].write \notin lost
    /\ manifest <= Done
    /\ \A i \in 1..Len(log) : i <= manifest => log[i].write \in tables
    /\ tables \subseteq Writes(1..Len(log)) \cup lost
    /\ cur # NoWrite /\ saved => Writes(1..Len(log)) \subseteq tables

\* What a bootstrap that no commit disturbed has read, and what a poll that saw the
\* source ahead knows for good.
BootInv ==
    /\ pc \in {"manifest", "scan", "tail"} /\ ~boot.dirty => boot.tables = tables
    /\ pc \in {"scan", "tail"} /\ ~boot.dirty => boot.manifest = manifest
    /\ pc = "tail" /\ ~boot.dirty => boot.high = Len(log)
    /\ pc = "closed" => state = "Closed"
    /\ state = "Closed" => snapshot.seq = 0 /\ pc \in {"closed"} \cup Booting
    /\ state # "Closed" /\ pc \in {"fetch"} \cup Reading => seq <= Done
    /\ state # "Closed" /\ pc = "tail" => seq <= boot.high
    /\ snapshot.seq <= seq

\* Rows that are those of the first n events.
AgreesWithLog(s, n) ==
    n <= Len(log) /\ s \ (lost \cup ExtWrite) = Writes(1..n) \ ExtWrite

\* What the replica applied since its last bootstrap.
StoreInv ==
    ~dirty => /\ AgreesWithLog(store, seq)
              /\ TailNeverSplit
              /\ base < seq => last_epoch = log[seq].epoch

\* What it published.
PublishedInv == ~snapshot.dirty => AgreesWithLog(snapshot.store, snapshot.seq)

\* A replica that is open is not behind the bootstrap it started from.
BaseInv == state # "Closed" \/ pc = "seed" => base <= seq

ReplicaInv == TypeOK /\ FilesInv /\ BootInv /\ StoreInv /\ PublishedInv /\ BaseInv
-----------------------------------------------------------------------------
(* The operators *)

\* What the types say of the log.
LEMMA LogShape ==
    ASSUME TypeOK
    PROVE  /\ Len(log) \in Nat /\ DOMAIN log = 1..Len(log) /\ Past(0) = 1..Len(log)
           /\ \A i \in 1..Len(log) :
                  log[i] \in Record /\ log[i].write \in Write /\ log[i].epoch \in Nat
<1>1. log \in Seq(Record)  BY DEF TypeOK
<1>2. DOMAIN log = 1..Len(log) /\ Len(log) \in Nat /\ \A i \in DOMAIN log : log[i] \in Record
  BY <1>1, ElementOfSeq, LenProperties
<1>3. Past(0) = 1..Len(log)  BY <1>2 DEF Past
<1>4. Epochs \subseteq Nat  BY ReplicaAssumption
<1>5. ASSUME NEW i \in 1..Len(log)
      PROVE  log[i] \in Record /\ log[i].write \in Write /\ log[i].epoch \in Nat
  <2>1. log[i] \in Record  BY <1>2
  <2> QED  BY <2>1, <1>4 DEF Record
<1> QED  BY <1>2, <1>3, <1>5

\* The writes at positions of the log are writes.
LEMMA WritesType ==
    ASSUME TypeOK, NEW S, S \subseteq 1..Len(log)
    PROVE  Writes(S) \subseteq Write
BY LogShape DEF Writes

\* A tail without a gap is what follows the replica's position, up to some m.
LEMMA TailShape ==
    ASSUME TypeOK, NEW t \in Tails, ~detect_gap(t)
    PROVE  \E m \in Nat : m > seq /\ m <= Len(log) /\ t = (seq + 1)..m /\ Max(t) = m
<1>1. Len(log) \in Nat /\ seq \in Nat  BY LogShape DEF TypeOK
<1>2. t \subseteq 1..Len(log) /\ \A i \in t : i > seq  BY DEF Tails, Past
<1>3. IsFiniteSet(1..Len(log))  BY <1>1, FS_Interval
<1>4. Cardinality(t) \in Nat
  <2>1. IsFiniteSet(t)  BY <1>2, <1>3, FS_Subset
  <2> QED  BY <2>1, FS_CardinalityType
<1> DEFINE m == seq + Cardinality(t)
<1>5. t # {} /\ t = (seq + 1)..m /\ m \in Nat  BY <1>1, <1>4 DEF detect_gap
<1> HIDE DEF m
<1>6. m > seq /\ m \in t  BY <1>1, <1>5
<1>7. m <= Len(log)  BY <1>1, <1>2, <1>6
<1>8. Max(t) = m
  <2>1. t \subseteq Nat /\ \A i \in t : i <= m  BY <1>5, <1>1
  <2>2. Max(t) \in t /\ \A i \in t : i <= Max(t)  BY <2>1, <1>5, MaxOfNaturals
  <2> QED  BY <2>1, <2>2, <1>5, <1>6
<1> QED  BY <1>5, <1>6, <1>7, <1>8

\* The replica applies the events up to m, epochs in order.
Advances(m) ==
    /\ m > seq /\ m <= Len(log) /\ Monotone((seq + 1)..m)
    /\ store' = store \cup Writes((seq + 1)..m)
    /\ seq' = m /\ last_epoch' = log[m].epoch

\* A poll that applies a tail, or the part of it that can be replayed, advances
\* over a prefix of it.
LEMMA FetchAdvances ==
    ASSUME TypeOK, FetchApplies
    PROVE  \E m \in Nat : Advances(m)
<1>1. PICK t \in Tails : ~detect_gap(t) /\ Monotone(t) /\ Apply(t)  BY DEF FetchApplies
<1>2. PICK m \in Nat : m > seq /\ m <= Len(log) /\ t = (seq + 1)..m /\ Max(t) = m
  BY <1>1, TailShape
<1> QED  BY <1>1, <1>2 DEF Apply, Advances

\* A replay that fails half-way has applied a part of the tail, or nothing.
LEMMA ReplayFailsAdvances ==
    ASSUME TypeOK, FetchReplayFails
    PROVE  UNCHANGED applied \/ \E m \in Nat : Advances(m)
<1>1. PICK t \in Tails :
        /\ ~detect_gap(t) /\ Monotone(t)
        /\ \E n \in t :
            LET done == {i \in t : i < n}
            IN  IF done = {} THEN UNCHANGED applied ELSE Apply(done)
  BY DEF FetchReplayFails
<1>2. PICK n \in t :
            LET done == {i \in t : i < n}
            IN  IF done = {} THEN UNCHANGED applied ELSE Apply(done)
  BY <1>1
<1> DEFINE done == {i \in t : i < n}
<1>3. IF done = {} THEN UNCHANGED applied ELSE Apply(done)  BY <1>2
<1>4. PICK m \in Nat : m > seq /\ m <= Len(log) /\ t = (seq + 1)..m /\ Max(t) = m
  BY <1>1, TailShape
<1>5. seq \in Nat /\ Len(log) \in Nat  BY LogShape DEF TypeOK
<1>6. CASE done = {}  BY <1>3, <1>6
<1>7. CASE done # {}
  <2>1. done = (seq + 1)..(n - 1) /\ n - 1 \in Nat /\ n - 1 > seq /\ n - 1 <= m
    BY <1>4, <1>5, <1>7
  <2>2. Max(done) = n - 1
    <3>1. done \subseteq Nat /\ \A i \in done : i <= n - 1  BY <2>1, <1>5
    <3>2. n - 1 \in done  BY <2>1, <1>5
    <3> HIDE DEF done
    <3>3. Max(done) \in done /\ \A i \in done : i <= Max(done)
      BY <2>1, <3>1, <1>7, MaxOfNaturals
    <3> QED  BY <2>1, <3>1, <3>2, <3>3
  <2>3. Monotone(done)
    <3>1. done \subseteq t  OBVIOUS
    <3> HIDE DEF done
    <3> QED  BY <3>1, <1>1 DEF Monotone
  <2>4. Apply(done)  BY <1>3, <1>7
  <2> HIDE DEF done
  <2>5. Advances(n - 1)
    <3>1. n - 1 <= Len(log)  BY <2>1, <1>4, <1>5
    <3> QED  BY <2>1, <2>2, <2>3, <2>4, <3>1 DEF Apply, Advances
  <2> QED  BY <2>1, <2>5
<1> QED  BY <1>6, <1>7

\* What an advance does to the position.
LEMMA AdvanceTypes ==
    ASSUME TypeOK, NEW m \in Nat, Advances(m)
    PROVE  /\ store' \subseteq Write /\ seq' \in Nat /\ last_epoch' \in Nat /\ seq' > seq
           /\ seq' <= Len(log)
<1>1. seq \in Nat /\ store \subseteq Write  BY DEF TypeOK
<1>2. m > seq /\ m <= Len(log) /\ seq' = m /\ last_epoch' = log[m].epoch
      /\ store' = store \cup Writes((seq + 1)..m)
  BY DEF Advances
<1>3. (seq + 1)..m \subseteq 1..Len(log) /\ m \in 1..Len(log)  BY <1>1, <1>2, LogShape
<1>4. Writes((seq + 1)..m) \subseteq Write  BY <1>3, WritesType
<1>5. log[m].epoch \in Nat  BY <1>3, LogShape
<1> QED  BY <1>1, <1>2, <1>4, <1>5

-----------------------------------------------------------------------------
(* Types *)

\* The types of what the replica is told and keeps to itself.
Kept ==
    /\ state' \in State /\ expired' \in BOOLEAN /\ pc' \in Phase /\ canonical' \in Nat
    /\ boot' \in [tables: SUBSET Write, manifest: Nat, high: Nat, dirty: BOOLEAN]

\* A confirmation keeps the types.
LEMMA ConfirmType ==
    ASSUME Confirm
    PROVE  Kept /\ pc' = "idle"
BY DEF Confirm, Kept, State, Phase, NoBoot

\* Turning stale keeps the types.
LEMMA StaleType ==
    ASSUME TypeOK, EnterStale
    PROVE  Kept /\ pc' = "idle" /\ UNCHANGED snapshot
BY DEF EnterStale, Kept, State, Phase, NoBoot, TypeOK

\* The end of a poll keeps the types.
LEMMA ReturnType ==
    ASSUME TypeOK, Return
    PROVE  Kept /\ pc' = "idle" /\ UNCHANGED snapshot
BY DEF Return, Kept, Phase, NoBoot, TypeOK

\* Whatever the writer does under a bootstrap, what was read keeps its types.
LEMMA DisturbType ==
    ASSUME TypeOK, Disturb
    PROVE  boot' \in [tables: SUBSET Write, manifest: Nat, high: Nat, dirty: BOOLEAN]
BY DEF Disturb, TypeOK

\* The types hold at first.
LEMMA TypeInit == Init => TypeOK
<1> SUFFICES ASSUME Init  PROVE TypeOK
  OBVIOUS
<1>1. log \in Seq(Record)  BY EmptySeq DEF Init
<1>2. snapshot \in [seq: Nat, store: SUBSET Write, dirty: BOOLEAN]  BY DEF Init, NoSnapshot
<1>3. boot \in [tables: SUBSET Write, manifest: Nat, high: Nat, dirty: BOOLEAN]
  BY DEF Init, NoBoot
<1>4. state \in State /\ pc \in Phase /\ pc # "fetch"  BY DEF Init, State, Phase
<1> QED  BY <1>1, <1>2, <1>3, <1>4 DEF Init, TypeOK

\* A save writes rows of the log and of failed commits.
LEMMA SaveType ==
    ASSUME TypeOK, SaveTables
    PROVE  tables' \subseteq Write
<1>1. Writes(Past(0)) \subseteq Write  BY LogShape, WritesType
<1> QED  BY <1>1 DEF SaveTables, TypeOK

\* Every step keeps the types.
LEMMA TypeStep ==
    ASSUME TypeOK, [Next]_vars
    PROVE  TypeOK'
<1>0. /\ log \in Seq(Record) /\ Len(log) \in Nat /\ seq \in Nat
      /\ store \subseteq Write /\ lost \subseteq Write /\ tables \subseteq Write
  BY LogShape DEF TypeOK
<1>1. ASSUME NEW w \in Write, NEW e \in Epochs, AppendRecord(w, e)  PROVE TypeOK'
  <2> DEFINE r == [epoch |-> e, write |-> w]
  <2>1. r \in Record  BY DEF Record
  <2>2. log' = Append(log, r)  BY <1>1 DEF AppendRecord
  <2> HIDE DEF r
  <2>3. log' \in Seq(Record)  BY <2>1, <2>2, <1>0, AppendShape
  <2>4. boot' \in [tables: SUBSET Write, manifest: Nat, high: Nat, dirty: BOOLEAN]
    BY <1>1, DisturbType DEF AppendRecord
  <2> QED  BY <1>1, <2>3, <2>4 DEF AppendRecord, TypeOK, applied, served, history
<1>2. CASE Save
  <2>1. boot' \in [tables: SUBSET Write, manifest: Nat, high: Nat, dirty: BOOLEAN]
    BY <1>2, DisturbType DEF Save
  <2>2. tables' \subseteq Write  BY <1>2, SaveType DEF Save
  <2> QED  BY <1>2, <2>1, <2>2 DEF Save, TypeOK, applied, served, history
<1>3. CASE RollBack
  <2>1. boot' \in [tables: SUBSET Write, manifest: Nat, high: Nat, dirty: BOOLEAN]
    BY <1>3, DisturbType DEF RollBack
  <2>2. tables' \subseteq Write  BY <1>3, <1>0, SaveType DEF RollBack
  <2>3. log' \in Seq(Record)
    <3>1. CASE log = <<>>
      <4>1. log' = Front(log)  BY <1>3 DEF RollBack
      <4> QED  BY <4>1, <3>1, <1>0, SubSeqProperties, EmptySeq DEF Front
    <3>2. CASE log # <<>>
      <4>1. log' = Front(log)  BY <1>3 DEF RollBack
      <4> QED  BY <4>1, <3>2, <1>0, FrontShape
    <3> QED  BY <3>1, <3>2
  <2>4. snapshot' \in [seq: Nat, store: SUBSET Write, dirty: BOOLEAN]
    BY <1>3 DEF RollBack, TypeOK
  <2>5. lost' \subseteq Write /\ cur' = NoWrite /\ dirty' \in BOOLEAN
    BY <1>3 DEF RollBack, TypeOK
  <2> QED  BY <1>3, <2>1, <2>2, <2>3, <2>4, <2>5 DEF RollBack, TypeOK, applied
<1>4. CASE Publish
  <2>1. boot' \in [tables: SUBSET Write, manifest: Nat, high: Nat, dirty: BOOLEAN]
    BY <1>4, DisturbType DEF Publish
  <2> QED  BY <1>4, <2>1, <1>0 DEF Publish, TypeOK, applied, served, history
<1>5. CASE WriterCrash
  <2>1. boot' \in [tables: SUBSET Write, manifest: Nat, high: Nat, dirty: BOOLEAN]
    BY <1>5, DisturbType DEF WriterCrash
  <2> QED  BY <1>5, <2>1 DEF WriterCrash, TypeOK, applied, served, history
<1>6. CASE Tick
  BY <1>6 DEF Tick, TypeOK, files, applied, at, history
<1>7. CASE ProbeLevel
  <2>1. Kept /\ pc' = "idle"  BY <1>7, ConfirmType DEF ProbeLevel
  <2> QED  BY <1>7, <2>1 DEF ProbeLevel, Kept, TypeOK, files, applied
<1>8. CASE ProbeRewound
  <2>1. Kept /\ pc' = "idle" /\ UNCHANGED snapshot  BY <1>8, StaleType DEF ProbeRewound
  <2> QED  BY <1>8, <2>1 DEF ProbeRewound, Kept, TypeOK, files, applied
<1>9. CASE ProbeBehind
  BY <1>9, <1>0 DEF ProbeBehind, TypeOK, files, applied, served, history, Phase
<1>10. CASE Unreachable
  <2>1. Kept /\ pc' = "idle" /\ UNCHANGED snapshot
    BY <1>10, StaleType, ReturnType DEF Unreachable, on_unreachable, TypeOK
  <2> QED  BY <1>10, <2>1 DEF Unreachable, Kept, TypeOK, files, applied
<1>11. CASE FetchApplies
  <2>1. Kept /\ pc' = "idle"  BY <1>11, ConfirmType DEF FetchApplies
  <2>2. store' \subseteq Write /\ seq' \in Nat /\ last_epoch' \in Nat
    <3>1. PICK m \in Nat : Advances(m)  BY <1>11, FetchAdvances
    <3> QED  BY <3>1, AdvanceTypes
  <2>3. snapshot' \in [seq: Nat, store: SUBSET Write, dirty: BOOLEAN] /\ dirty' \in BOOLEAN
    BY <1>11, <2>2 DEF FetchApplies, publish, TypeOK
  <2> QED  BY <1>11, <2>1, <2>2, <2>3 DEF FetchApplies, Kept, TypeOK, files
<1>12. CASE FetchReplayFails
  <2>1. Kept /\ pc' = "idle" /\ UNCHANGED snapshot
    BY <1>12, ReturnType DEF FetchReplayFails, TypeOK, history
  <2>2. store' \subseteq Write /\ seq' \in Nat /\ last_epoch' \in Nat
    BY <1>12, ReplayFailsAdvances, AdvanceTypes DEF applied, TypeOK
  <2> QED  BY <1>12, <2>1, <2>2 DEF FetchReplayFails, Kept, TypeOK, files, history
<1>13. CASE FetchSplit
  <2>1. Kept /\ pc' = "idle" /\ UNCHANGED snapshot  BY <1>13, StaleType DEF FetchSplit
  <2> QED  BY <1>13, <2>1 DEF FetchSplit, Kept, TypeOK, files, applied
<1>14. CASE FetchGap
  BY <1>14 DEF FetchGap, TypeOK, files, applied, history, State, Phase, Booting, Reading
<1>15. CASE Open
  BY <1>15 DEF Open, TypeOK, files, applied, served, history, Phase, Booting, Reading
<1>16. CASE BootTables
  BY <1>16 DEF BootTables, TypeOK, files, applied, served, history, Phase, Booting, Reading
<1>17. CASE BootManifest
  BY <1>17 DEF BootManifest, TypeOK, files, applied, served, history, Phase, Booting, Reading
<1>18. CASE BootScan
  BY <1>18, <1>0 DEF BootScan, TypeOK, files, applied, served, history, Phase, Booting, Reading
<1>19. CASE BootTail
  <2>1. Writes(Past(boot.manifest)) \subseteq Write
    BY <1>0, WritesType DEF Past
  <2>2. seq' \in Nat /\ last_epoch' = 0 /\ store' \subseteq Write /\ dirty' \in BOOLEAN
    BY <1>19, <2>1 DEF BootTail, Adopt, TypeOK
  <2>3. Kept /\ pc' \in {"idle", "seed"}
    <3>1. CASE ExtWrite = {}
      BY <1>19, <3>1, ConfirmType DEF BootTail
    <3>2. CASE ExtWrite # {}
      <4>1. pc' = "seed" /\ boot' = NoBoot /\ UNCHANGED <<state, expired, canonical>>
        BY <1>19, <3>2 DEF BootTail, served
      <4>2. boot' \in [tables: SUBSET Write, manifest: Nat, high: Nat, dirty: BOOLEAN]
        BY <4>1 DEF NoBoot
      <4> QED  BY <4>1, <4>2 DEF Kept, TypeOK, Phase, Booting
    <3> QED  BY <3>1, <3>2
  <2>4. snapshot' \in [seq: Nat, store: SUBSET Write, dirty: BOOLEAN]
    BY <1>19, <2>2 DEF BootTail, publish, TypeOK, served
  <2>5. UNCHANGED files /\ base' = seq'  BY <1>19 DEF BootTail
  <2> QED  BY <2>2, <2>3, <2>4, <2>5 DEF Kept, TypeOK, files
<1>20. CASE Seed
  <2>1. Kept /\ pc' = "idle"  BY <1>20, ConfirmType DEF Seed
  <2>2. store' \subseteq Write
    <3>1. Writes(Past(0)) \subseteq Write  BY LogShape, WritesType
    <3> QED  BY <1>20, <1>0, <3>1 DEF Seed
  <2>3. snapshot' \in [seq: Nat, store: SUBSET Write, dirty: BOOLEAN]
    BY <1>20, <2>2 DEF Seed, publish, TypeOK
  <2> QED  BY <1>20, <2>1, <2>2, <2>3 DEF Seed, Kept, TypeOK, files
<1>21. CASE BootFails
  <2>1. /\ UNCHANGED <<files, base, dirty>> /\ UNCHANGED snapshot
        /\ store' \subseteq Write /\ seq' \in Nat /\ last_epoch' \in Nat
        /\ Kept /\ pc' \in {"idle", "closed"}
    <3>1. CASE state = "Closed"
      <4>1. /\ pc' = "closed" /\ canonical' = 0 /\ boot' = NoBoot
            /\ store' = {} /\ seq' = 0 /\ last_epoch' = 0
            /\ UNCHANGED <<state, snapshot, expired>>
            /\ UNCHANGED <<files, base, dirty>>
        BY <1>21, <3>1 DEF BootFails, served
      <4>2. boot' \in [tables: SUBSET Write, manifest: Nat, high: Nat, dirty: BOOLEAN]
        BY <4>1 DEF NoBoot
      <4> QED  BY <4>1, <4>2 DEF Kept, TypeOK, Phase
    <3>2. CASE state # "Closed"
      BY <1>21, <3>2, StaleType, ReturnType DEF BootFails, TypeOK, applied
    <3> QED  BY <3>1, <3>2
  <2> QED  BY <2>1 DEF Kept, TypeOK, files
<1>22. CASE SeedFails
  <2>1. Kept /\ pc' = "idle" /\ UNCHANGED snapshot
    BY <1>22, ReturnType DEF SeedFails, TypeOK, history
  <2>2. store' \subseteq Write
    <3>1. PICK n \in 0..Len(log) : store' = store \cup (Writes(1..n) \cap ExtWrite)
      BY <1>22 DEF SeedFails
    <3>2. 1..n \subseteq 1..Len(log)  BY <1>0
    <3>3. Writes(1..n) \subseteq Write  BY <3>2, WritesType
    <3> QED  BY <3>1, <3>3, <1>0
  <2> QED  BY <1>22, <2>1, <2>2 DEF SeedFails, Kept, TypeOK, files, history
<1>23. CASE BootSchema
  <2>1. Kept /\ pc' = "idle" /\ UNCHANGED snapshot  BY <1>23, StaleType DEF BootSchema
  <2> QED  BY <1>23, <2>1 DEF BootSchema, Kept, TypeOK, files, applied
<1>24. CASE UNCHANGED vars
  BY <1>24 DEF TypeOK, vars, files, applied, served, at, history
<1> QED
  BY <1>1, <1>2, <1>3, <1>4, <1>5, <1>6, <1>7, <1>8, <1>9, <1>10, <1>11, <1>12, <1>13, <1>14,
     <1>15, <1>16, <1>17, <1>18, <1>19, <1>20, <1>21, <1>22, <1>23, <1>24
  DEF Next, Writer, Poll, Bootstrap

\* TypeOK is an invariant of the replica, of its writer and of every source.
THEOREM TypeCorrect == Spec => []TypeOK
<1>1. Init => TypeOK  BY TypeInit
<1>2. TypeOK /\ [Next]_vars => TypeOK'  BY TypeStep
<1> QED  BY <1>1, <1>2, PTL DEF Spec
-----------------------------------------------------------------------------
(* The files *)

\* Only the writer changes a file.
LEMMA WriterOnly ==
    ASSUME [Next]_vars
    PROVE  Writer \/ UNCHANGED files
BY DEF Next, Writer, Poll, Bootstrap, vars, Tick, ProbeLevel, ProbeRewound, ProbeBehind,
       Unreachable, FetchApplies, FetchReplayFails, FetchSplit, FetchGap, Open, BootTables,
       BootManifest, BootScan, BootTail, Seed, BootFails, SeedFails, BootSchema

\* What a commit appends.
LEMMA AppendFacts ==
    ASSUME TypeOK, NEW w \in Write, NEW e \in Epochs, AppendRecord(w, e)
    PROVE  /\ Len(log') = Len(log) + 1 /\ Len(log) \in Nat
           /\ \A i \in 1..Len(log) : log'[i] = log[i]
           /\ log'[Len(log) + 1].write = w
           /\ \A i \in 1..Len(log) : log[i].write # w
           /\ cur = NoWrite /\ cur' = w /\ w # NoWrite /\ w \notin lost
<1> DEFINE r == [epoch |-> e, write |-> w]
<1>1. r \in Record /\ r.write = w  BY DEF Record
<1>2. log' = Append(log, r)  BY DEF AppendRecord
<1> HIDE DEF r
<1>3. log \in Seq(Record)  BY DEF TypeOK
<1>4. /\ Len(Append(log, r)) = Len(log) + 1 /\ Len(log) \in Nat /\ DOMAIN log = 1..Len(log)
      /\ \A n \in DOMAIN log : Append(log, r)[n] = log[n]
      /\ Append(log, r)[Len(log) + 1] = r
  BY <1>1, <1>3, AppendShape
<1>5. \A i \in 1..Len(log) : log[i].write # w
  <2>1. w \notin Writes(1..Len(log))  BY LogShape DEF AppendRecord
  <2> QED  BY <2>1 DEF Writes
<1>6. cur = NoWrite /\ cur' = w /\ w # NoWrite /\ w \notin lost
  BY ReplicaAssumption DEF AppendRecord
<1> QED  BY <1>1, <1>2, <1>4, <1>5, <1>6

\* What a rollback takes back.
LEMMA RollBackFacts ==
    ASSUME TypeOK, FilesInv, RollBack
    PROVE  /\ Len(log) \in Nat \ {0} /\ Len(log') = Len(log) - 1
           /\ \A i \in 1..(Len(log) - 1) : log'[i] = log[i]
           /\ cur # NoWrite /\ cur' = NoWrite /\ lost' = lost \cup {cur}
           /\ log[Len(log)].write = cur
           /\ \A i \in 1..(Len(log) - 1) : log[i].write # cur
<1>1. log \in Seq(Record) /\ log # <<>>  BY DEF TypeOK, FilesInv, RollBack
<1>2. log' = Front(log)  BY DEF RollBack
<1>3. /\ Len(log) \in Nat \ {0} /\ Len(Front(log)) = Len(log) - 1
      /\ DOMAIN Front(log) = 1..(Len(log) - 1)
      /\ \A n \in DOMAIN Front(log) : Front(log)[n] = log[n]
  BY <1>1, FrontShape
<1>4. cur # NoWrite /\ cur' = NoWrite /\ lost' = lost \cup {cur}  BY DEF RollBack
<1>5. log[Len(log)].write = cur  BY <1>4 DEF FilesInv
<1>6. \A i \in 1..(Len(log) - 1) : log[i].write # cur
  <2> SUFFICES ASSUME NEW i \in 1..(Len(log) - 1), log[i].write = cur  PROVE FALSE
    OBVIOUS
  <2>1. i \in 1..Len(log) /\ Len(log) \in 1..Len(log) /\ i # Len(log)  BY <1>3
  <2> QED  BY <2>1, <1>5 DEF FilesInv
<1> QED  BY <1>2, <1>3, <1>4, <1>5, <1>6

\* The empty files agree.
LEMMA FilesInit == Init => FilesInv
<1> SUFFICES ASSUME Init  PROVE FilesInv
  OBVIOUS
<1>1. Len(log) = 0  BY EmptySeq DEF Init
<1> QED  BY <1>1 DEF Init, FilesInv, Done, Writes

\* Every step keeps the files of the writer in agreement.
LEMMA FilesStep ==
    ASSUME TypeOK, FilesInv, [Next]_vars
    PROVE  FilesInv'
<1>0. Len(log) \in Nat /\ manifest \in Nat /\ Past(0) = 1..Len(log)  BY LogShape DEF TypeOK
<1>1. ASSUME NEW w \in Write, NEW e \in Epochs, AppendRecord(w, e)  PROVE FilesInv'
  <2> DEFINE L == Len(log)
  <2>1. /\ Len(log') = L + 1 /\ L \in Nat
        /\ \A i \in 1..L : log'[i] = log[i]
        /\ log'[L + 1].write = w
        /\ \A i \in 1..L : log[i].write # w
        /\ cur = NoWrite /\ cur' = w /\ w # NoWrite /\ w \notin lost
    BY <1>1, AppendFacts
  <2>2. UNCHANGED <<tables, manifest, lost>> /\ saved' = FALSE  BY <1>1 DEF AppendRecord
  <2>3. /\ \A i, j \in 1..L : log[i].write = log[j].write => i = j
        /\ \A i \in 1..L : log[i].write \notin lost
        /\ manifest <= L
        /\ \A i \in 1..L : i <= manifest => log[i].write \in tables
        /\ tables \subseteq Writes(1..L) \cup lost
    BY <2>1 DEF FilesInv, Done
  <2>4. log' # <<>> /\ log'[Len(log')].write = cur'
    BY <2>1, EmptySeq
  <2> HIDE DEF L
  <2>5. ASSUME NEW i \in 1..(L + 1)  PROVE i \in 1..L \/ i = L + 1
    BY <2>1
  <2>6. \A i, j \in 1..(L + 1) : log'[i].write = log'[j].write => i = j
    BY <2>1, <2>3, <2>5
  <2>7. \A i \in 1..(L + 1) : log'[i].write \notin lost
    BY <2>1, <2>3, <2>5
  <2>8. manifest <= Done'  BY <2>1, <2>3 DEF Done
  <2>9. \A i \in 1..(L + 1) : i <= manifest => log'[i].write \in tables
    <3> SUFFICES ASSUME NEW i \in 1..(L + 1), i <= manifest  PROVE log'[i].write \in tables
      OBVIOUS
    <3>1. i \in 1..L  BY <2>1, <2>3, <1>0
    <3> QED  BY <3>1, <2>1, <2>3
  <2>10. tables \subseteq {log'[i].write : i \in 1..(L + 1)} \cup lost
    <3> SUFFICES ASSUME NEW x \in tables, x \notin lost
                 PROVE  \E i \in 1..(L + 1) : x = log'[i].write
      OBVIOUS
    <3>1. PICK i \in 1..L : x = log[i].write  BY <2>3 DEF Writes
    <3>2. i \in 1..(L + 1)  BY <2>1
    <3> QED  BY <3>1, <3>2, <2>1
  <2> QED  BY <2>1, <2>2, <2>4, <2>6, <2>7, <2>8, <2>9, <2>10 DEF FilesInv, Writes
<1>2. CASE Save
  <2>1. UNCHANGED <<log, manifest, cur, lost>> /\ saved' = TRUE /\ cur # NoWrite
    BY <1>2 DEF Save
  <2>2. PICK kept \in {lost, lost \cap tables} : tables' = Writes(1..Len(log)) \cup kept
    BY <1>2, <1>0 DEF Save, SaveTables
  <2>3. Done' = Done  BY <2>1 DEF Done
  <2>4. \A i \in 1..Len(log) : log[i].write \in tables'  BY <2>2 DEF Writes
  <2>5. tables' \subseteq Writes(1..Len(log)) \cup lost  BY <2>2
  <2>6. Writes(1..Len(log)) \subseteq tables'  BY <2>2
  <2> QED  BY <2>1, <2>3, <2>4, <2>5, <2>6 DEF FilesInv, Writes
<1>3. CASE RollBack
  <2> DEFINE L == Len(log)
  <2>1. /\ L \in Nat \ {0} /\ Len(log') = L - 1
        /\ \A i \in 1..(L - 1) : log'[i] = log[i]
        /\ cur # NoWrite /\ cur' = NoWrite /\ lost' = lost \cup {cur}
        /\ log[L].write = cur
        /\ \A i \in 1..(L - 1) : log[i].write # cur
    BY <1>3, RollBackFacts
  <2>2. UNCHANGED manifest  BY <1>3 DEF RollBack
  <2>3. /\ \A i, j \in 1..L : log[i].write = log[j].write => i = j
        /\ \A i \in 1..L : log[i].write \notin lost
        /\ manifest <= L - 1
        /\ \A i \in 1..L : i <= manifest => log[i].write \in tables
        /\ tables \subseteq Writes(1..L) \cup lost
    BY <2>1 DEF FilesInv, Done
  <2>4. /\ tables' \subseteq Writes(1..L) \cup lost
        /\ \A i \in 1..L : i <= manifest => log[i].write \in tables'
    <3>1. CASE UNCHANGED tables  BY <3>1, <2>3
    <3>2. CASE SaveTables
      <4>1. PICK kept \in {lost, lost \cap tables} : tables' = Writes(1..L) \cup kept
        BY <3>2, <1>0 DEF SaveTables
      <4> QED  BY <4>1 DEF Writes
    <3> QED  BY <1>3, <3>1, <3>2 DEF RollBack
  <2> HIDE DEF L
  <2>5. ASSUME NEW i \in 1..(L - 1)  PROVE i \in 1..L
    BY <2>1
  <2>6. \A i, j \in 1..(L - 1) : log'[i].write = log'[j].write => i = j
    BY <2>1, <2>3, <2>5
  <2>7. \A i \in 1..(L - 1) : log'[i].write \notin lost'
    BY <2>1, <2>3, <2>5
  <2>8. manifest <= Done'  BY <2>1, <2>3 DEF Done
  <2>9. \A i \in 1..(L - 1) : i <= manifest => log'[i].write \in tables'
    BY <2>1, <2>4, <2>5
  <2>10. tables' \subseteq {log'[i].write : i \in 1..(L - 1)} \cup lost'
    <3> SUFFICES ASSUME NEW x \in tables', x \notin lost'
                 PROVE  \E i \in 1..(L - 1) : x = log'[i].write
      OBVIOUS
    <3>1. PICK i \in 1..L : x = log[i].write  BY <2>1, <2>4 DEF Writes
    <3>2. i \in 1..(L - 1)  BY <3>1, <2>1
    <3> QED  BY <3>1, <3>2, <2>1
  <2> QED  BY <2>1, <2>2, <2>6, <2>7, <2>8, <2>9, <2>10 DEF FilesInv, Writes
<1>4. CASE Publish
  <2>1. UNCHANGED <<log, tables, lost>> /\ cur' = NoWrite /\ cur # NoWrite /\ saved
        /\ manifest' \in {manifest, Len(log)}
    BY <1>4 DEF Publish
  <2>2. manifest' <= Done'  BY <2>1, <1>0 DEF FilesInv, Done
  <2>3. \A i \in 1..Len(log) : i <= manifest' => log[i].write \in tables
    BY <2>1 DEF FilesInv, Writes
  <2> QED  BY <2>1, <2>2, <2>3 DEF FilesInv, Writes
<1>5. CASE WriterCrash
  <2>1. UNCHANGED <<log, tables, manifest, lost>> /\ cur' = NoWrite /\ cur # NoWrite
    BY <1>5 DEF WriterCrash
  <2>2. manifest <= Done'  BY <2>1, <1>0 DEF FilesInv, Done
  <2> QED  BY <2>1, <2>2 DEF FilesInv, Writes
<1>6. CASE UNCHANGED files
  BY <1>6 DEF FilesInv, Writes, Done, files
<1> QED  BY <1>1, <1>2, <1>3, <1>4, <1>5, <1>6, WriterOnly DEF Writer

-----------------------------------------------------------------------------
(* What a poll and a bootstrap have read *)

LEMMA BootInit == Init => BootInv
BY DEF Init, BootInv, NoSnapshot

\* A step of the writer disturbs the bootstrap it falls into, and what is committed
\* stays.
LEMMA WriterSteps ==
    ASSUME TypeOK, FilesInv, Writer
    PROVE  /\ Disturb /\ Done' >= Done /\ Done \in Int /\ Done' <= Len(log')
           /\ UNCHANGED <<store, seq, last_epoch, state, expired, pc, canonical, base>>
           /\ snapshot'.seq = snapshot.seq /\ snapshot'.store = snapshot.store
<1>0. Len(log) \in Nat  BY LogShape
<1>1. ASSUME NEW w \in Write, NEW e \in Epochs, AppendRecord(w, e)
      PROVE  /\ Disturb /\ Done' >= Done /\ Done' <= Len(log') /\ UNCHANGED snapshot
             /\ UNCHANGED <<store, seq, last_epoch, state, expired, pc, canonical, base>>
  <2>1. Done' >= Done /\ Done' <= Len(log')  BY <1>1, AppendFacts DEF Done
  <2> QED  BY <1>1, <2>1 DEF AppendRecord, applied, served, history
<1>2. CASE Save
  BY <1>0, <1>2 DEF Save, applied, served, history, Done
<1>3. CASE RollBack
  <2>1. Done' >= Done /\ Done' <= Len(log')  BY <1>3, RollBackFacts DEF Done
  <2>2. snapshot'.seq = snapshot.seq /\ snapshot'.store = snapshot.store
    BY <1>3 DEF RollBack, TypeOK
  <2> QED  BY <1>0, <1>3, <2>1, <2>2 DEF RollBack, applied, Done
<1>4. CASE Publish
  BY <1>0, <1>4 DEF Publish, applied, served, history, Done
<1>5. CASE WriterCrash
  BY <1>0, <1>5 DEF WriterCrash, applied, served, history, Done
<1>6. Done \in Int  BY <1>0 DEF Done
<1> QED  BY <1>1, <1>2, <1>3, <1>4, <1>5, <1>6 DEF Writer

\* A poll or a bootstrap that is over has read nothing that could be stale.
LEMMA IdleBoot ==
    ASSUME pc' = "idle", state' # "Closed", snapshot'.seq <= seq'
    PROVE  BootInv'
BY DEF BootInv, Reading, Booting

\* Every step keeps what a bootstrap without a disturbance has read.
LEMMA BootStep ==
    ASSUME TypeOK, TypeOK', FilesInv, BootInv, [Next]_vars
    PROVE  BootInv'
<1>0. /\ Len(log) \in Nat /\ seq \in Nat /\ Done \in Int /\ Done <= Len(log)
      /\ snapshot.seq \in Nat /\ snapshot.seq <= seq
  <2>1. Len(log) \in Nat  BY LogShape
  <2>2. seq \in Nat /\ snapshot.seq \in Nat  BY DEF TypeOK
  <2>3. snapshot.seq <= seq  BY DEF BootInv
  <2> QED  BY <2>1, <2>2, <2>3 DEF Done
<1>1. CASE Writer
  <2>1. /\ Disturb /\ Done' >= Done /\ Done' \in Int
        /\ UNCHANGED <<seq, state, pc>> /\ snapshot'.seq = snapshot.seq
    BY <1>1, WriterSteps DEF Done
  <2>2. boot'.high = boot.high /\ (pc \in Reading => boot'.dirty)
    BY <2>1 DEF Disturb, TypeOK
  <2>3. seq <= Done => seq <= Done'  BY <1>0, <2>1
  <2> QED  BY <2>1, <2>2, <2>3 DEF BootInv, Reading
<1>2. CASE Tick
  BY <1>2 DEF Tick, BootInv, files, applied, at, history, Done
<1>3. CASE ProbeLevel
  BY <1>0, <1>3, IdleBoot DEF ProbeLevel, Confirm, applied
<1>4. ASSUME EnterStale, UNCHANGED applied  PROVE BootInv'
  BY <1>0, <1>4, IdleBoot DEF EnterStale, applied
<1>5. ASSUME Return, UNCHANGED seq, state # "Closed"  PROVE BootInv'
  BY <1>0, <1>5, IdleBoot DEF Return
<1>6. CASE ProbeRewound
  BY <1>4, <1>6 DEF ProbeRewound
<1>7. CASE ProbeBehind
  <2>1. seq <= Done  BY <1>0, <1>7 DEF ProbeBehind, Done
  <2>2. state # "Closed"  BY <1>7 DEF ProbeBehind, BootInv, Booting, Reading
  <2> QED  BY <1>0, <1>7, <2>1, <2>2 DEF ProbeBehind, BootInv, files, applied, served, Done
<1>8. CASE Unreachable
  <2>1. state # "Closed"  BY <1>8 DEF Unreachable, BootInv, Booting, Reading
  <2> QED  BY <1>4, <1>5, <1>8, <2>1 DEF Unreachable, on_unreachable, applied
<1>9. CASE FetchApplies
  <2>1. snapshot'.seq = seq' /\ pc' = "idle" /\ state' = "Live"
    BY <1>9 DEF FetchApplies, publish, Confirm
  <2> QED  BY <2>1, IdleBoot DEF TypeOK
<1>10. CASE FetchReplayFails
  <2>1. seq' >= seq
    BY <1>0, <1>10, ReplayFailsAdvances, AdvanceTypes DEF applied
  <2>2. state # "Closed"  BY <1>10 DEF FetchReplayFails, BootInv, Booting, Reading
  <2>3. pc' = "idle" /\ UNCHANGED <<state, snapshot>>  BY <1>10 DEF FetchReplayFails, Return
  <2>4. seq' \in Nat  BY DEF TypeOK
  <2>5. snapshot'.seq <= seq'  BY <1>0, <2>1, <2>3, <2>4
  <2> QED  BY <2>2, <2>3, <2>5, IdleBoot
<1>11. CASE FetchSplit
  BY <1>4, <1>11 DEF FetchSplit
<1>12. CASE FetchGap
  BY <1>0, <1>12 DEF FetchGap, BootInv, files, applied, Done, Booting, Reading
<1>13. CASE Open
  BY <1>0, <1>13 DEF Open, BootInv, files, applied, served, Done, Booting, Reading
<1>14. CASE BootTables
  <2>1. boot'.tables = tables  BY <1>14 DEF BootTables, TypeOK
  <2> QED
    BY <1>0, <1>14, <2>1 DEF BootTables, BootInv, files, applied, served, Done, Booting, Reading
<1>15. CASE BootManifest
  <2>1. boot'.manifest = manifest /\ boot'.tables = boot.tables /\ boot'.dirty = boot.dirty
    BY <1>15 DEF BootManifest, TypeOK
  <2> QED
    BY <1>0, <1>15, <2>1
    DEF BootManifest, BootInv, files, applied, served, Done, Booting, Reading
<1>16. CASE BootScan
  <2>1. /\ boot'.high = Len(log) /\ boot'.manifest = boot.manifest
        /\ boot'.tables = boot.tables /\ boot'.dirty = boot.dirty
    BY <1>16 DEF BootScan, TypeOK
  <2> QED
    BY <1>0, <1>16, <2>1 DEF BootScan, BootInv, files, applied, served, Done, Booting, Reading
<1>17. CASE BootTail
  <2>1. seq' = boot.high /\ boot.high \in Nat  BY <1>17 DEF BootTail, Adopt, TypeOK
  <2>2. CASE ExtWrite = {}
    <3>1. snapshot'.seq = seq' /\ pc' = "idle" /\ state' = "Live"
      BY <1>17, <2>2 DEF BootTail, publish, Confirm
    <3> QED  BY <3>1, IdleBoot DEF TypeOK
  <2>3. CASE ExtWrite # {}
    <3>1. pc' = "seed" /\ UNCHANGED <<state, snapshot>>
      BY <1>17, <2>3 DEF BootTail, served
    <3>2. snapshot.seq <= boot.high
      <4>1. CASE state = "Closed"  BY <4>1, <2>1 DEF BootInv
      <4>2. CASE state # "Closed"
        <5>1. seq <= boot.high  BY <1>17, <4>2 DEF BootInv, BootTail
        <5> QED  BY <1>0, <2>1, <5>1
      <4> QED  BY <4>1, <4>2
    <3> QED  BY <2>1, <3>1, <3>2 DEF BootInv, Booting, Reading
  <2> QED  BY <2>2, <2>3
<1>18. CASE Seed
  <2>1. snapshot'.seq = seq' /\ pc' = "idle" /\ state' = "Live"
    BY <1>18 DEF Seed, publish, Confirm
  <2> QED  BY <2>1, IdleBoot DEF TypeOK
<1>19. CASE BootFails
  <2>1. CASE state = "Closed"
    BY <1>19, <2>1 DEF BootFails, BootInv, served, Booting, Reading
  <2>2. CASE state # "Closed"
    BY <1>4, <1>5, <1>19, <2>2 DEF BootFails, applied
  <2> QED  BY <2>1, <2>2
<1>20. CASE SeedFails
  BY <1>5, <1>20 DEF SeedFails
<1>21. CASE BootSchema
  BY <1>4, <1>21 DEF BootSchema
<1>22. CASE UNCHANGED vars
  BY <1>22 DEF BootInv, vars, files, applied, served, at, history, Done
<1> QED
  BY <1>1, <1>2, <1>3, <1>6, <1>7, <1>8, <1>9, <1>10, <1>11, <1>12, <1>13, <1>14,
     <1>15, <1>16, <1>17, <1>18, <1>19, <1>20, <1>21, <1>22
  DEF Next, Poll, Bootstrap

-----------------------------------------------------------------------------
(* What is applied and what is published *)

\* A commit, and a rollback of a record the replica has not read, leave the events
\* that some rows agree with where they are.
LEMMA WriterKeepsPrefix ==
    ASSUME TypeOK, FilesInv, Writer, NEW s, NEW n \in Nat, AgreesWithLog(s, n),
           RollBack => n < Len(log)
    PROVE  /\ n <= Len(log')
           /\ \A i \in 1..n : log'[i] = log[i]
           /\ s \ (lost' \cup ExtWrite) = {log'[i].write : i \in 1..n} \ ExtWrite
<1> DEFINE L == Len(log)
<1>1. L \in Nat  BY LogShape
<1>2. n <= L /\ s \ (lost \cup ExtWrite) = Writes(1..n) \ ExtWrite  BY DEF AgreesWithLog
<1>3. ASSUME UNCHANGED <<log, lost>>
      PROVE  /\ n <= Len(log')
             /\ \A i \in 1..n : log'[i] = log[i]
             /\ s \ (lost' \cup ExtWrite) = {log'[i].write : i \in 1..n} \ ExtWrite
  BY <1>2, <1>3 DEF Writes
<1>4. ASSUME NEW w \in Write, NEW e \in Epochs, AppendRecord(w, e)
      PROVE  /\ n <= Len(log')
             /\ \A i \in 1..n : log'[i] = log[i]
             /\ s \ (lost' \cup ExtWrite) = {log'[i].write : i \in 1..n} \ ExtWrite
  <2>1. Len(log') = L + 1 /\ \A i \in 1..L : log'[i] = log[i]  BY <1>4, AppendFacts
  <2>2. lost' = lost  BY <1>4 DEF AppendRecord
  <2> HIDE DEF L
  <2>3. n <= Len(log') /\ \A i \in 1..n : log'[i] = log[i]  BY <1>1, <1>2, <2>1
  <2>4. Writes(1..n) = {log'[i].write : i \in 1..n}  BY <2>3 DEF Writes
  <2> QED  BY <1>2, <2>2, <2>3, <2>4
<1>5. CASE RollBack
  <2>1. /\ Len(log') = L - 1 /\ lost' = lost \cup {cur}
        /\ \A i \in 1..(L - 1) : log'[i] = log[i] /\ log[i].write # cur
    BY <1>5, RollBackFacts
  <2>2. n < L  BY <1>5
  <2> HIDE DEF L
  <2>3. n <= Len(log') /\ \A i \in 1..n : log'[i] = log[i] /\ log[i].write # cur
    BY <1>1, <2>1, <2>2
  <2>4. Writes(1..n) = {log'[i].write : i \in 1..n} /\ cur \notin Writes(1..n)
    BY <2>3 DEF Writes
  <2> QED  BY <1>2, <2>1, <2>3, <2>4
<1>6. CASE Save  BY <1>3, <1>6 DEF Save
<1>7. CASE Publish  BY <1>3, <1>7 DEF Publish
<1>8. CASE WriterCrash  BY <1>3, <1>8 DEF WriterCrash
<1> QED  BY <1>4, <1>5, <1>6, <1>7, <1>8 DEF Writer

\* What a rollback marks.
LEMMA WriterMarks ==
    ASSUME TypeOK, Writer
    PROVE  /\ ~dirty' => ~dirty /\ (RollBack => seq < Len(log))
           /\ ~snapshot'.dirty => ~snapshot.dirty /\ (RollBack => snapshot.seq < Len(log))
<1>1. Len(log) \in Nat /\ seq \in Nat /\ snapshot.seq \in Nat  BY LogShape DEF TypeOK
<1>2. CASE RollBack
  <2>1. dirty' = (dirty \/ seq >= Len(log))  BY <1>2 DEF RollBack
  <2>2. snapshot'.dirty = (snapshot.dirty \/ snapshot.seq >= Len(log))
    BY <1>2 DEF RollBack, TypeOK
  <2>3. ~dirty' => ~dirty /\ ~(seq >= Len(log))  BY <2>1, Zenon
  <2>4. ~snapshot'.dirty => ~snapshot.dirty /\ ~(snapshot.seq >= Len(log))  BY <2>2, Zenon
  <2> QED  BY <1>1, <1>2, <2>3, <2>4
<1>3. CASE ~RollBack
  <2>1. UNCHANGED <<dirty, snapshot>>
    BY <1>3 DEF Writer, AppendRecord, Save, Publish, WriterCrash, served, history
  <2> QED  BY <1>3, <2>1
<1> QED  BY <1>2, <1>3

\* What agrees with the log still does after a step that leaves the files alone and
\* what was applied as well.
LEMMA QuietStore ==
    ASSUME StoreInv, UNCHANGED <<files, applied, base, dirty>>
    PROVE  StoreInv'
BY DEF StoreInv, AgreesWithLog, TailNeverSplit, Writes, files, applied

\* An advance applies the next events, in the order of their epochs.
LEMMA AdvanceKeeps ==
    ASSUME TypeOK, FilesInv, StoreInv, BaseInv, state # "Closed", NEW m \in Nat, Advances(m),
           UNCHANGED <<files, base, dirty>>
    PROVE  StoreInv'
<1> SUFFICES ASSUME ~dirty
             PROVE  /\ AgreesWithLog(store, seq)' /\ TailNeverSplit'
                    /\ base' < seq' => last_epoch' = log'[seq'].epoch
  BY DEF StoreInv
<1>1. /\ Len(log) \in Nat /\ seq \in Nat /\ base \in Nat /\ base <= seq
      /\ \A i \in 1..Len(log) : log[i].epoch \in Nat
  BY LogShape DEF TypeOK, BaseInv
<1>2. UNCHANGED <<log, lost, base>>  BY DEF files
<1>3. /\ m > seq /\ m <= Len(log) /\ Monotone((seq + 1)..m)
      /\ store' = store \cup Writes((seq + 1)..m)
      /\ seq' = m /\ last_epoch' = log[m].epoch
  BY DEF Advances
<1>4. AgreesWithLog(store, seq) /\ TailNeverSplit
      /\ (base < seq => last_epoch = log[seq].epoch)
  BY DEF StoreInv
<1>5. Writes(1..m) = Writes(1..seq) \cup Writes((seq + 1)..m)
  <2>1. 1..m = (1..seq) \cup ((seq + 1)..m)  BY <1>1, <1>3
  <2> QED  BY <2>1 DEF Writes
<1>6. Writes((seq + 1)..m) \cap lost = {}
  <2>1. (seq + 1)..m \subseteq 1..Len(log)  BY <1>1, <1>3
  <2> QED  BY <2>1 DEF Writes, FilesInv
<1>7. store' \ (lost \cup ExtWrite) = Writes(1..m) \ ExtWrite
  BY <1>3, <1>4, <1>5, <1>6 DEF AgreesWithLog
<1>8. AgreesWithLog(store, seq)'
  BY <1>2, <1>3, <1>7 DEF AgreesWithLog, Writes
<1>9. ASSUME NEW i \in (base + 1)..m, NEW j \in (base + 1)..m, i < j
      PROVE  log[i].epoch <= log[j].epoch
  <2>1. CASE j <= seq
    <3>1. i \in (base + 1)..seq /\ j \in (base + 1)..seq  BY <1>1, <1>9, <2>1
    <3> QED  BY <1>4, <1>9, <3>1 DEF TailNeverSplit
  <2>2. CASE i <= seq /\ j > seq
    <3>1. log[j].epoch >= last_epoch
      <4>1. j \in (seq + 1)..m  BY <1>1, <2>2
      <4> QED  BY <1>3, <4>1 DEF Monotone
    <3>2. log[i].epoch <= last_epoch
      <4>1. base < seq /\ last_epoch = log[seq].epoch  BY <1>1, <1>4, <2>2
      <4>2. i \in (base + 1)..seq /\ seq \in (base + 1)..seq  BY <1>1, <2>2, <4>1
      <4>3. i < seq => log[i].epoch <= log[seq].epoch  BY <1>4, <4>2 DEF TailNeverSplit
      <4>4. log[i].epoch \in Nat
        <5>1. i \in 1..Len(log)  BY <1>1, <1>3, <2>2
        <5> QED  BY <1>1, <5>1
      <4> QED  BY <1>1, <2>2, <4>1, <4>3, <4>4
    <3>3. log[i].epoch \in Nat /\ log[j].epoch \in Nat /\ last_epoch \in Nat
      <4>1. i \in 1..Len(log) /\ j \in 1..Len(log)  BY <1>1, <1>3
      <4> QED  BY <1>1, <4>1 DEF TypeOK
    <3> QED  BY <3>1, <3>2, <3>3
  <2>3. CASE i > seq
    <3>1. i \in (seq + 1)..m /\ j \in (seq + 1)..m  BY <1>1, <1>9, <2>3
    <3> QED  BY <1>3, <1>9, <3>1 DEF Monotone
  <2> QED  BY <1>1, <2>1, <2>2, <2>3
<1>10. TailNeverSplit'
  <2>1. UNCHANGED dirty  OBVIOUS
  <2> QED  BY <1>2, <1>3, <1>9 DEF TailNeverSplit
<1> QED  BY <1>2, <1>3, <1>8, <1>10

\* A bootstrap that nothing disturbed has the rows of the log, and of failed commits.
LEMMA AdoptAgrees ==
    ASSUME TypeOK, FilesInv, BootInv, BootTail
    PROVE  StoreInv'
<1> SUFFICES ASSUME ~boot.dirty
             PROVE  /\ AgreesWithLog(store, seq)' /\ TailNeverSplit' /\ ~(base' < seq')
  BY DEF StoreInv, BootTail
<1> DEFINE L == Len(log)
<1>1. L \in Nat /\ manifest \in Nat  BY LogShape DEF TypeOK
<1>2. boot.tables = tables /\ boot.manifest = manifest /\ boot.high = L
  BY DEF BootInv, BootTail
<1>3. UNCHANGED <<log, lost>>  BY DEF BootTail, files
<1>4. seq' = L /\ base' = L  BY <1>2 DEF BootTail, Adopt
<1> DEFINE X == IF L > manifest THEN Writes(Past(manifest)) ELSE {}
<1>5. store' = (store \cap ExtWrite) \cup ((tables \cup X) \ ExtWrite)
  BY <1>2 DEF BootTail, Adopt
<1>6. X \subseteq Writes(1..L)  BY DEF Writes, Past
<1>7. Writes(1..L) \subseteq tables \cup X
  <2> SUFFICES ASSUME NEW i \in 1..L  PROVE log[i].write \in tables \cup X
    BY DEF Writes
  <2>1. CASE i <= manifest  BY <2>1 DEF FilesInv
  <2>2. CASE i > manifest
    <3>1. L > manifest /\ i \in Past(manifest)  BY <1>1, <2>2 DEF Past
    <3> QED  BY <3>1 DEF Writes
  <2> QED  BY <1>1, <2>1, <2>2
<1>8. tables \subseteq Writes(1..L) \cup lost /\ Writes(1..L) \cap lost = {}
  BY DEF FilesInv, Writes
<1> HIDE DEF X, L
<1>9. store' \ (lost \cup ExtWrite) = Writes(1..L) \ ExtWrite
  BY <1>5, <1>6, <1>7, <1>8
<1>10. AgreesWithLog(store, seq)'
  BY <1>1, <1>3, <1>4, <1>9 DEF AgreesWithLog, Writes, L
<1>11. TailNeverSplit'
  BY <1>1, <1>4 DEF TailNeverSplit
<1> QED  BY <1>1, <1>4, <1>10, <1>11

\* The empty replica agrees with the log.
LEMMA StoreInit == Init => StoreInv /\ PublishedInv /\ BaseInv
<1> SUFFICES ASSUME Init  PROVE StoreInv /\ PublishedInv /\ BaseInv
  OBVIOUS
<1>1. Len(log) = 0  BY EmptySeq DEF Init
<1>2. AgreesWithLog({}, 0)  BY <1>1 DEF AgreesWithLog, Writes
<1>3. TailNeverSplit  BY DEF Init, TailNeverSplit
<1> QED  BY <1>2, <1>3 DEF Init, StoreInv, PublishedInv, BaseInv, NoSnapshot

\* Every step keeps the rows of a replica that is not dirty those of the log.
LEMMA StoreStep ==
    ASSUME TypeOK, FilesInv, BootInv, StoreInv, BaseInv, [Next]_vars
    PROVE  StoreInv'
<1>0. Len(log) \in Nat /\ seq \in Nat /\ base \in Nat /\ store \subseteq Write
  BY LogShape DEF TypeOK
<1>1. CASE Writer
  <2> SUFFICES ASSUME ~dirty'
               PROVE  /\ AgreesWithLog(store, seq)' /\ TailNeverSplit'
                      /\ base' < seq' => last_epoch' = log'[seq'].epoch
    BY DEF StoreInv
  <2>1. ~dirty /\ (RollBack => seq < Len(log))  BY <1>1, WriterMarks
  <2>2. /\ AgreesWithLog(store, seq) /\ TailNeverSplit
        /\ base < seq => last_epoch = log[seq].epoch
    BY <2>1 DEF StoreInv
  <2>3. UNCHANGED <<store, seq, last_epoch, base>>  BY <1>1, WriterSteps
  <2>4. /\ seq <= Len(log') /\ \A i \in 1..seq : log'[i] = log[i]
        /\ store \ (lost' \cup ExtWrite) = {log'[i].write : i \in 1..seq} \ ExtWrite
    BY <1>0, <1>1, <2>1, <2>2, WriterKeepsPrefix
  <2>5. AgreesWithLog(store, seq)'  BY <2>3, <2>4 DEF AgreesWithLog, Writes
  <2>6. (base + 1)..seq \subseteq 1..seq /\ (base < seq => seq \in 1..seq)  BY <1>0
  <2>7. \A i, j \in (base + 1)..seq : i < j => log'[i].epoch <= log'[j].epoch
    BY <2>1, <2>2, <2>4, <2>6 DEF TailNeverSplit
  <2>8. TailNeverSplit'  BY <2>3, <2>7 DEF TailNeverSplit
  <2> QED  BY <2>2, <2>3, <2>4, <2>5, <2>6, <2>8
<1>2. ASSUME UNCHANGED <<files, applied, base, dirty>>  PROVE StoreInv'
  BY <1>2, QuietStore
<1>3. CASE Tick
  BY <1>2, <1>3 DEF Tick, history
<1>4. CASE ProbeLevel \/ ProbeRewound \/ ProbeBehind \/ Unreachable \/ FetchSplit \/ FetchGap
  BY <1>2, <1>4 DEF ProbeLevel, ProbeRewound, ProbeBehind, Unreachable, FetchSplit, FetchGap,
     history
<1>5. CASE FetchApplies
  <2>1. PICK m \in Nat : Advances(m)  BY <1>5, FetchAdvances
  <2>2. state # "Closed"  BY <1>5 DEF FetchApplies, BootInv, Booting, Reading
  <2>3. UNCHANGED <<files, base, dirty>>  BY <1>5 DEF FetchApplies
  <2> QED  BY <2>1, <2>2, <2>3, AdvanceKeeps
<1>6. CASE FetchReplayFails
  <2>1. UNCHANGED <<files, base, dirty>>  BY <1>6 DEF FetchReplayFails, history
  <2>2. state # "Closed"  BY <1>6 DEF FetchReplayFails, BootInv, Booting, Reading
  <2>3. CASE UNCHANGED applied  BY <1>2, <2>1, <2>3
  <2>4. ASSUME NEW m \in Nat, Advances(m)  PROVE StoreInv'
    BY <2>1, <2>2, <2>4, AdvanceKeeps
  <2> QED  BY <1>6, <2>3, <2>4, ReplayFailsAdvances
<1>7. CASE Open \/ BootTables \/ BootManifest \/ BootScan \/ BootSchema
  BY <1>2, <1>7 DEF Open, BootTables, BootManifest, BootScan, BootSchema, history
<1>8. CASE BootTail
  BY <1>8, AdoptAgrees
<1>9. CASE Seed \/ SeedFails
  <2>1. UNCHANGED <<files, seq, last_epoch, base, dirty>>
    BY <1>9 DEF Seed, SeedFails, history
  <2>2. \E x \in SUBSET ExtWrite : store' = store \cup x
    BY <1>9 DEF Seed, SeedFails
  <2>3. store' \ (lost \cup ExtWrite) = store \ (lost \cup ExtWrite)  BY <2>2
  <2> QED  BY <2>1, <2>3 DEF StoreInv, AgreesWithLog, TailNeverSplit, Writes, files
<1>10. CASE BootFails
  <2>1. CASE state = "Closed"
    <3>1. store' = {} /\ seq' = 0 /\ UNCHANGED <<files, base, dirty>>
      BY <1>10, <2>1 DEF BootFails
    <3>2. AgreesWithLog(store, seq)'
      BY <1>0, <3>1 DEF AgreesWithLog, Writes, files
    <3>3. TailNeverSplit'  BY <1>0, <3>1 DEF TailNeverSplit
    <3> QED  BY <1>0, <3>1, <3>2, <3>3 DEF StoreInv
  <2>2. CASE state # "Closed"  BY <1>2, <1>10, <2>2 DEF BootFails
  <2> QED  BY <2>1, <2>2
<1>11. CASE UNCHANGED vars
  BY <1>2, <1>11 DEF vars, history
<1> QED
  BY <1>1, <1>3, <1>4, <1>5, <1>6, <1>7, <1>8, <1>9, <1>10, <1>11 DEF Next, Poll, Bootstrap

\* A step that is not the writer's publishes what is applied, or nothing.
LEMMA PublishOrNot ==
    ASSUME [Next]_vars
    PROVE  Writer \/ (UNCHANGED files /\ (publish \/ UNCHANGED snapshot))
<1>1. EnterStale \/ Return => UNCHANGED snapshot  BY DEF EnterStale, Return
<1> QED
  BY <1>1 DEF Next, Poll, Bootstrap, vars, Tick, ProbeLevel, ProbeRewound, ProbeBehind,
       Unreachable, FetchApplies, FetchReplayFails, FetchSplit, FetchGap, Open, BootTables,
       BootManifest, BootScan, BootTail, Seed, BootFails, SeedFails, BootSchema,
       on_unreachable, served

\* What is published was the store, which agreed.
LEMMA PublishedStep ==
    ASSUME TypeOK, FilesInv, PublishedInv, StoreInv', [Next]_vars
    PROVE  PublishedInv'
<1>1. CASE Writer
  <2> SUFFICES ASSUME ~snapshot'.dirty  PROVE AgreesWithLog(snapshot.store, snapshot.seq)'
    BY DEF PublishedInv
  <2>1. ~snapshot.dirty /\ (RollBack => snapshot.seq < Len(log))  BY <1>1, WriterMarks
  <2>2. snapshot'.seq = snapshot.seq /\ snapshot'.store = snapshot.store
    BY <1>1, WriterSteps
  <2> DEFINE n == snapshot.seq
             s == snapshot.store
  <2>3. AgreesWithLog(s, n) /\ n \in Nat  BY <2>1 DEF PublishedInv, TypeOK
  <2> HIDE DEF n, s
  <2>4. RollBack => n < Len(log)  BY <2>1 DEF n
  <2>5. n <= Len(log') /\ s \ (lost' \cup ExtWrite) = {log'[i].write : i \in 1..n} \ ExtWrite
    BY <1>1, <2>3, <2>4, WriterKeepsPrefix
  <2> QED  BY <2>2, <2>5 DEF AgreesWithLog, Writes, n, s
<1>2. CASE UNCHANGED files /\ publish
  <2>1. snapshot'.seq = seq' /\ snapshot'.store = store' /\ snapshot'.dirty = dirty'
    BY <1>2 DEF publish
  <2> QED  BY <2>1 DEF PublishedInv, StoreInv, AgreesWithLog, Writes
<1>3. CASE UNCHANGED files /\ UNCHANGED snapshot
  BY <1>3 DEF PublishedInv, AgreesWithLog, Writes, files
<1> QED  BY <1>1, <1>2, <1>3, PublishOrNot

\* No step leaves an open replica behind its bootstrap.
LEMMA BaseStep ==
    ASSUME TypeOK, FilesInv, BootInv, BaseInv, [Next]_vars
    PROVE  BaseInv'
<1>0. seq \in Nat /\ base \in Nat /\ boot.high \in Nat  BY DEF TypeOK
<1>1. CASE Writer  BY <1>1, WriterSteps DEF BaseInv
<1>2. CASE Tick  BY <1>2 DEF Tick, BaseInv, applied, at, history
<1>3. CASE Poll
  <2>1. state # "Closed" /\ UNCHANGED base
    BY <1>3 DEF Poll, BootInv, Booting, Reading, ProbeLevel, ProbeRewound, ProbeBehind,
       Unreachable, FetchApplies, FetchReplayFails, FetchSplit, FetchGap, history
  <2>2. seq' >= seq /\ seq' \in Nat
    <3>1. CASE FetchApplies  BY <1>0, <3>1, FetchAdvances, AdvanceTypes
    <3>2. CASE FetchReplayFails
      BY <1>0, <3>2, ReplayFailsAdvances, AdvanceTypes DEF applied
    <3>3. CASE UNCHANGED seq  BY <1>0, <3>3
    <3> QED
      BY <1>3, <3>1, <3>2, <3>3 DEF Poll, ProbeLevel, ProbeRewound, ProbeBehind, Unreachable,
         FetchSplit, FetchGap, applied
  <2> QED  BY <1>0, <2>1, <2>2 DEF BaseInv
<1>4. CASE BootTail
  BY <1>0, <1>4 DEF BootTail, Adopt, BaseInv
<1>5. CASE Seed
  BY <1>5 DEF Seed, BaseInv
<1>6. CASE BootFails
  BY <1>6 DEF BootFails, BaseInv, served, applied, EnterStale, Return
<1>7. CASE SeedFails
  BY <1>7 DEF SeedFails, BaseInv, Return, history
<1>8. CASE Open \/ BootTables \/ BootManifest \/ BootScan
  BY <1>8 DEF Open, BootTables, BootManifest, BootScan, BaseInv, applied, served, history
<1>9. CASE BootSchema
  BY <1>9 DEF BootSchema, BaseInv, applied
<1>10. CASE UNCHANGED vars
  BY <1>10 DEF vars, BaseInv, applied, served, at, history
<1> QED
  BY <1>1, <1>2, <1>3, <1>4, <1>5, <1>6, <1>7, <1>8, <1>9, <1>10 DEF Next, Bootstrap

-----------------------------------------------------------------------------
(* The theorems *)

LEMMA ReplicaInit == Init => ReplicaInv
BY TypeInit, FilesInit, BootInit, StoreInit DEF ReplicaInv

\* Every step keeps the invariant.
LEMMA ReplicaStep == ReplicaInv /\ [Next]_vars => ReplicaInv'
<1> SUFFICES ASSUME ReplicaInv, [Next]_vars  PROVE ReplicaInv'
  OBVIOUS
<1>1. /\ TypeOK /\ FilesInv /\ BootInv /\ StoreInv /\ PublishedInv /\ BaseInv
  BY DEF ReplicaInv
<1>2. TypeOK'  BY <1>1, TypeStep
<1>3. FilesInv' /\ BootInv' /\ StoreInv' /\ BaseInv'
  BY <1>1, <1>2, FilesStep, BootStep, StoreStep, BaseStep
<1>4. PublishedInv'  BY <1>1, <1>3, PublishedStep
<1> QED  BY <1>2, <1>3, <1>4 DEF ReplicaInv

\* The invariant holds throughout.
LEMMA ReplicaAlways == Spec => []ReplicaInv
<1>1. Init => ReplicaInv  BY ReplicaInit
<1>2. ReplicaInv /\ [Next]_vars => ReplicaInv'  BY ReplicaStep
<1> QED  BY <1>1, <1>2, PTL DEF Spec

\* What a replica serves are the rows of the first events of the log, up to its
\* position, whatever the writer and the source do, unless it was built from files that
\* changed during its bootstrap or holds a record that was taken back (snapshot.dirty).
THEOREM ServedIsPrefix == Spec => []SnapshotIsPrefix
<1>1. ReplicaInv => SnapshotIsPrefix
  <2> SUFFICES ASSUME ReplicaInv, ~snapshot.dirty
               PROVE  snapshot.store \ (lost \cup ExtWrite)
                        = Writes({i \in 1..Len(log) : i <= snapshot.seq}) \ ExtWrite
    BY DEF SnapshotIsPrefix
  <2> DEFINE n == snapshot.seq
  <2>1. n \in Nat /\ Len(log) \in Nat  BY LogShape DEF ReplicaInv, TypeOK
  <2>2. AgreesWithLog(snapshot.store, n)  BY DEF ReplicaInv, PublishedInv
  <2> HIDE DEF n
  <2>3. {i \in 1..Len(log) : i <= n} = 1..n  BY <2>1, <2>2 DEF AgreesWithLog
  <2> QED  BY <2>2, <2>3 DEF AgreesWithLog, n
<1> QED  BY <1>1, ReplicaAlways, PTL

\* Two interleaved writer generations are never applied between two bootstraps.
THEOREM GenerationsStayApart == Spec => []TailNeverSplit
<1>1. ReplicaInv => TailNeverSplit
  BY DEF ReplicaInv, StoreInv, TailNeverSplit
<1> QED  BY <1>1, ReplicaAlways, PTL

\* The position readers see never decreases.
THEOREM SnapshotAdvances == Spec => SnapshotNeverBack
<1>1. ReplicaInv /\ ReplicaInv' /\ [Next]_vars => [snapshot'.seq >= snapshot.seq]_vars
  <2> SUFFICES ASSUME ReplicaInv, ReplicaInv', [Next]_vars
               PROVE  snapshot'.seq >= snapshot.seq
    OBVIOUS
  <2>1. TypeOK /\ FilesInv /\ BootInv  BY DEF ReplicaInv
  <2>2. snapshot.seq \in Nat /\ seq \in Nat /\ snapshot.seq <= seq  BY <2>1 DEF TypeOK, BootInv
  <2>3. CASE Writer  BY <2>1, <2>2, <2>3, WriterSteps
  <2>4. CASE UNCHANGED snapshot  BY <2>2, <2>4
  <2>5. CASE publish /\ ~Writer
    <3>1. snapshot'.seq = seq'  BY <2>5 DEF publish
    <3>2. CASE FetchApplies
      BY <2>1, <2>2, <3>1, <3>2, FetchAdvances, AdvanceTypes
    <3>3. CASE BootTail
      <4>1. seq' = boot.high /\ boot.high \in Nat  BY <2>1, <3>3 DEF BootTail, Adopt, TypeOK
      <4>2. CASE state = "Closed"  BY <2>1, <2>2, <3>1, <4>1, <4>2 DEF BootInv
      <4>3. CASE state # "Closed"
        <5>1. seq <= boot.high  BY <2>1, <3>3, <4>3 DEF BootInv, BootTail
        <5> QED  BY <2>2, <3>1, <4>1, <5>1
      <4> QED  BY <4>2, <4>3
    <3>4. CASE Seed  BY <2>2, <3>1, <3>4 DEF Seed
    <3>5. CASE ~FetchApplies /\ ~BootTail /\ ~Seed
      <4>1. EnterStale \/ Return => UNCHANGED snapshot  BY DEF EnterStale, Return
      <4>2. UNCHANGED snapshot
        BY <2>5, <3>5, <4>1 DEF Next, Poll, Bootstrap, vars, Tick, ProbeLevel, ProbeRewound,
           ProbeBehind, Unreachable, FetchReplayFails, FetchSplit, FetchGap, Open, BootTables,
           BootManifest, BootScan, BootFails, SeedFails, BootSchema, on_unreachable, served
      <4> QED  BY <2>2, <4>2
    <3> QED  BY <3>2, <3>3, <3>4, <3>5
  <2> QED  BY <2>3, <2>4, <2>5, PublishOrNot
<1> QED  BY <1>1, ReplicaAlways, PTL DEF Spec, SnapshotNeverBack
=============================================================================
