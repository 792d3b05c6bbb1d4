-------------------------- MODULE LocalStoreProofs --------------------------
(***************************************************************************)
(* Theorems about the shared data directory, for every set of command      *)
(* lines, every retention and every bound: what a command that ran alone   *)
(* saved is kept, the numbers such commands gave out are unique, the       *)
(* snapshot `latest` links to is there, and a start reports and keeps an   *)
(* interrupted save.  They rest on one invariant, LocalInv, of what the    *)
(* processes, their .tmp files, the server and the snapshots hold.         *)
(***************************************************************************)
EXTENDS LocalStore, FiniteSetTheorems, SequenceTheorems, WellFoundedInduction, TLAPS

-----------------------------------------------------------------------------
(* The invariant *)

\* What is left of a save, a copy or a restore, as a set.
Left(todo) == {todo[i] : i \in DOMAIN todo}

\* The orders in which files are saved, copied or restored, and what is left of them.
Orders == {<<>>, <<"items">>, <<"relations">>, <<"experiments">>,
           <<"items", "relations">>, <<"relations", "items">>,
           <<"relations", "experiments">>, <<"items", "relations", "experiments">>}

\* What commands up to the n-th may have written: a number is at most one above
\* the commands there were.
Facts(n) == [op : 0..n, id : 1..(n + 1), new : BOOLEAN]
Tables(n) == [File -> SUBSET Facts(n)]
Saved(n) == [data : SUBSET Facts(n), is : Content]
Temp(n) == [by : SUBSET Writer, data : SUBSET Facts(n), newer : BOOLEAN]

PC == {"idle", "edges", "open", "write", "cut", "fill"}
Process(n) == [pc : PC, op : 0..n, alone : BOOLEAN, mem : Tables(n), todo : Orders,
               made : Tables(n), bad : SUBSET File]

\* A backup copies the files in one order, so a snapshot has the first ones.
Copies(n) == [{} -> Saved(n)] \cup [{"items"} -> Saved(n)]
             \cup [{"items", "relations"} -> Saved(n)] \cup [File -> Saved(n)]
Snapshot(n) == [files : Copies(n), held : Tables(n)]

TypeInv ==
    /\ ops \in Nat /\ stamp \in Nat /\ ops + stamp <= MaxBegun
    /\ live \in [File -> Saved(ops)]
    /\ DOMAIN tmp = File /\ \A f \in File : tmp[f] # Absent => tmp[f] \in Temp(ops)
    /\ proc \in [Writer -> Process(ops)]
    /\ \A p \in Writer : (proc[p].pc = "idle") = (proc[p].todo = <<>>)
    /\ server # Absent => server \in Tables(ops)
    /\ quarantine \subseteq SUBSET Facts(ops)
    /\ suspect \subseteq File
    /\ snapshots \in [DOMAIN snapshots -> Snapshot(ops)]
    /\ DOMAIN snapshots \subseteq 1..stamp
    /\ latest # Absent => latest \in DOMAIN snapshots
    /\ backup # Absent =>
           /\ stamp \in DOMAIN snapshots
           /\ backup \in [todo : Orders, held : Tables(ops)]
           /\ Left(backup.todo) = File \ DOMAIN snapshots[stamp].files
           /\ backup.todo \in {COPIED, <<"relations", "experiments">>, <<"experiments">>, <<>>}
    /\ kept \in Tables(ops)

\* Who may be busy beside whom, and which .tmp is whose.
Restoring(p) == proc[p].pc \in {"cut", "fill"}

Turns ==
    /\ proc[Server].pc # "idle" => server # Absent
    /\ \A p \in Writer :
           /\ proc[p].alone =>
                  /\ proc[p].pc # "idle" /\ \A q \in Writer \ {p} : proc[q].pc = "idle"
                  /\ p # Server => server = Absent
                  /\ proc[p].op # 0
           /\ Restoring(p) => kept = NoFacts
           /\ ~Restoring(p) => proc[p].bad = {}
    /\ \A f \in File : tmp[f] # Absent =>
           \A q \in tmp[f].by : proc[q].pc = "write" /\ f = Head(proc[q].todo)

\* What a process is still to save: not the relations it has yet to read.
Holding(r) == IF r.pc = "edges" THEN Left(r.todo) \ {"relations"} ELSE Left(r.todo)

\* What is kept is wherever a later step may take a file from.
Keeping ==
    /\ \A f \in File : Loads(f) => kept[f] \subseteq live[f].data
    /\ \A p \in Writer : ~Restoring(p) =>
           \A f \in Holding(proc[p]) : kept[f] \subseteq proc[p].mem[f]
    /\ \A p \in Writer :
           LET f == Head(proc[p].todo)
           IN  proc[p].pc = "write" /\ tmp[f] # Absent /\ tmp[f].by = {}
                   => kept[f] \subseteq tmp[f].data
    /\ server # Absent => \A f \in {"items", "relations"} : kept[f] \subseteq server[f]

\* What a process that is alone has made is saved, or will be.
Making ==
    \A p \in Writer : proc[p].alone =>
        /\ \A f \in File \ Left(proc[p].todo) :
               Loads(f) => proc[p].made[f] \subseteq live[f].data
        /\ \A f \in Holding(proc[p]) \ proc[p].bad : proc[p].made[f] \subseteq proc[p].mem[f]
        /\ proc[p].pc = "write" =>
               LET f == Head(proc[p].todo) IN tmp[f] # Absent => tmp[f].by = {p}
        /\ proc[p].pc = "fill" => live[Head(proc[p].todo)].is = "cut"

\* A file holds one fact that gave out a number.
OneEach(facts) == \A d, e \in facts : d.new /\ e.new /\ d.id = e.id => d.op = e.op
Numbered(tables) == \A f \in File : OneEach(tables[f])

\* An edge is of an item that is there.
Edged(tables) == tables["relations"] \subseteq tables["items"]

Numbers ==
    /\ \A n \in fresh :
           /\ n.file \in File
           /\ [op |-> n.op, id |-> n.id, new |-> TRUE] \in kept[n.file]
    /\ Numbered(kept) /\ Edged(kept)
    /\ \A p \in Writer : proc[p].alone =>
           /\ Edged(proc[p].made)
           /\ Numbered([f \in File |-> kept[f] \cup proc[p].made[f]])
    /\ \A s \in DOMAIN snapshots : Numbered(snapshots[s].held) /\ Edged(snapshots[s].held)
    /\ backup # Absent => Numbered(backup.held) /\ Edged(backup.held)

\* A snapshot holds what it must bring back.
Brings(files, held) ==
    \A f \in DOMAIN files : files[f].is = "whole" => held[f] \subseteq files[f].data

Copying ==
    /\ \A s \in DOMAIN snapshots :
           /\ Brings(snapshots[s].files, snapshots[s].held)
           /\ \A f \in File \ DOMAIN snapshots[s].files : snapshots[s].held[f] = {}
    /\ backup # Absent => Brings(snapshots[stamp].files, backup.held)

LocalInv == TypeInv /\ Turns /\ Keeping /\ Making /\ Numbers /\ Copying
-----------------------------------------------------------------------------
(* Numbers and orders *)

\* Every set of naturals that is not empty has a least element.
LEMMA LeastNatural ==
    ASSUME NEW T, T \subseteq Nat, T # {}
    PROVE  \E x \in T : \A y \in T : x <= y
<1> DEFINE R == {ss \in Nat \X Nat : ss[1] < ss[2]}
<1>1. IsWellFoundedOn(R, Nat)  BY NatLessThanWellFounded, Zenon DEF OpToRel
<1>2. \A x, y \in T : y < x => <<y, x>> \in R
  OBVIOUS
<1> HIDE DEF R
<1>3. PICK x \in T : \A y \in T : ~ (<<y, x>> \in R)
  BY <1>1, WFMin
<1>4. x \in Nat /\ \A y \in T : y \in Nat /\ ~(y < x)
  <2> SUFFICES ASSUME NEW y \in T  PROVE ~(y < x)
    OBVIOUS
  <2>1. ~ (<<y, x>> \in R)  BY <1>3
  <2> QED  BY <1>2, <2>1
<1> QED  BY <1>4

\* Max of a bounded set of naturals is its largest element.
LEMMA MaxOfNaturals ==
    ASSUME NEW T, T \subseteq Nat, T # {}, NEW b \in Nat, \A x \in T : x <= b
    PROVE  Max(T) \in T /\ \A x \in T : x <= Max(T)
<1> DEFINE U == {n \in Nat : \A x \in T : x <= n}
<1>1. U \subseteq Nat /\ b \in U  OBVIOUS
<1>2. PICK u \in U : \A v \in U : u <= v  BY <1>1, LeastNatural
<1>3. u \in T
  <2> SUFFICES ASSUME u \notin T  PROVE FALSE
    OBVIOUS
  <2>1. \A x \in T : x <= u - 1  BY <1>2
  <2>2. u - 1 \in Nat
    <3>1. PICK t \in T : TRUE  OBVIOUS
    <3> QED  BY <1>2, <2>1, <3>1
  <2>3. u - 1 \in U  BY <2>1, <2>2
  <2> QED  BY <1>2, <2>3
<1>4. \A x \in T : u >= x  BY <1>2
<1> QED  BY <1>3, <1>4 DEF Max

\* The next number is above every number in the data, and at most one above what
\* the commands so far may have given out.
LEMMA NextIdAbove ==
    ASSUME NEW n \in Nat, NEW data, data \subseteq Facts(n)
    PROVE  NextId(data) \in 1..(n + 2) /\ \A e \in data : e.id < NextId(data)
<1> DEFINE T == {0} \cup {e.id : e \in data}
<1>1. \A e \in data : e.id \in 1..(n + 1)  BY DEF Facts
<1>2. T \subseteq Nat /\ T # {} /\ n + 1 \in Nat /\ \A x \in T : x <= n + 1  BY <1>1
<1>3. \A e \in data : e.id \in T  OBVIOUS
<1>4. NextId(data) = Max(T) + 1  BY DEF NextId
<1> HIDE DEF T
<1>5. Max(T) \in T /\ \A x \in T : x <= Max(T)  BY <1>2, MaxOfNaturals
<1>6. Max(T) \in 0..(n + 1)
  <2>1. Max(T) \in Nat /\ Max(T) <= n + 1  BY <1>2, <1>5
  <2> QED  BY <2>1
<1>7. \A e \in data : e.id <= Max(T) /\ e.id \in Nat  BY <1>1, <1>3, <1>5
<1> QED  BY <1>4, <1>6, <1>7

\* What a later command may have written includes what an earlier one may have.
LEMMA Later ==
    ASSUME NEW m \in Nat, NEW n \in Nat, m <= n
    PROVE  /\ Facts(m) \subseteq Facts(n) /\ Tables(m) \subseteq Tables(n)
           /\ Saved(m) \subseteq Saved(n) /\ Temp(m) \subseteq Temp(n)
           /\ Process(m) \subseteq Process(n) /\ Copies(m) \subseteq Copies(n)
           /\ Snapshot(m) \subseteq Snapshot(n)
<1>1. Facts(m) \subseteq Facts(n)  BY DEF Facts
<1>2. Tables(m) \subseteq Tables(n)  BY <1>1 DEF Tables
<1>3. Saved(m) \subseteq Saved(n) /\ Temp(m) \subseteq Temp(n)  BY <1>1 DEF Saved, Temp
<1>4. 0..m \subseteq 0..n  OBVIOUS
<1>5. Process(m) \subseteq Process(n)
  BY <1>2, <1>4 DEF Process
<1>6. Copies(m) \subseteq Copies(n)  BY <1>3 DEF Copies
<1>7. Snapshot(m) \subseteq Snapshot(n)  BY <1>2, <1>6 DEF Snapshot
<1> QED  BY <1>1, <1>2, <1>3, <1>5, <1>6, <1>7

\* What each order starts with, and what is then left of it.
LEMMA OrderShape ==
    /\ Left(<<>>) = {} /\ <<>> \in Orders
    /\ \A t \in Orders \ {<<>>} :
           /\ Head(t) \in File /\ Tail(t) \in Orders /\ Head(t) \in Left(t)
           /\ Left(Tail(t)) = Left(t) \ {Head(t)} /\ Left(t) \subseteq File
           /\ (Len(t) = 1) = (Tail(t) = <<>>)
<1>1. Left(<<>>) = {}  BY DEF Left
<1>2. \A a \in File : LET t == <<a>>
                      IN  Head(t) = a /\ Tail(t) = <<>> /\ Left(t) = {a} /\ Len(t) = 1
  BY DEF Left
<1>3. \A a, b \in File : LET t == <<a, b>>
                         IN  Head(t) = a /\ Tail(t) = <<b>> /\ Left(t) = {a, b} /\ Len(t) = 2
  BY DEF Left
<1>4. \A a, b, c \in File :
          LET t == <<a, b, c>>
          IN  Head(t) = a /\ Tail(t) = <<b, c>> /\ Left(t) = {a, b, c} /\ Len(t) = 3
  BY DEF Left
<1>5. <<>> \in Orders  BY DEF Orders
<1>6. \A a, b \in File : <<a>> # <<>> /\ <<a, b>> # <<>>  OBVIOUS
<1>7. ASSUME NEW t \in Orders \ {<<>>}
      PROVE  /\ Head(t) \in File /\ Tail(t) \in Orders /\ Head(t) \in Left(t)
             /\ Left(Tail(t)) = Left(t) \ {Head(t)} /\ Left(t) \subseteq File
             /\ (Len(t) = 1) = (Tail(t) = <<>>)
  <2>1. "items" \in File /\ "relations" \in File /\ "experiments" \in File  BY DEF File
  <2>2. CASE t \in {<<"items">>, <<"relations">>, <<"experiments">>}
    <3>1. PICK a \in File : t = <<a>>  BY <2>1, <2>2
    <3>2. Head(t) = a /\ Tail(t) = <<>> /\ Left(t) = {a} /\ Len(t) = 1  BY <1>2, <3>1
    <3> QED  BY <1>1, <1>5, <3>1, <3>2
  <2>3. CASE t = <<"items", "relations">>
    BY <1>2, <1>3, <1>6, <2>1, <2>3 DEF Orders
  <2>4. CASE t = <<"relations", "items">>
    BY <1>2, <1>3, <1>6, <2>1, <2>4 DEF Orders
  <2>5. CASE t = <<"relations", "experiments">>
    BY <1>2, <1>3, <1>6, <2>1, <2>5 DEF Orders
  <2>6. CASE t = <<"items", "relations", "experiments">>
    <3> DEFINE u == <<"relations", "experiments">>
    <3>1. Head(t) = "items" /\ Tail(t) = u /\ Left(t) = File /\ Len(t) = 3
      BY <1>4, <2>1, <2>6 DEF File
    <3>2. Left(u) = {"relations", "experiments"} /\ u # <<>> /\ u \in Orders
      BY <1>3, <1>6, <2>1 DEF Orders
    <3>3. {"relations", "experiments"} = File \ {"items"}  BY DEF File
    <3>4. t # <<>> /\ "items" \in File  BY <2>1
    <3> HIDE DEF u
    <3>5. (Len(t) = 1) = (Tail(t) = <<>>)
      <4>1. Len(t) # 1  BY ONLY <3>1
      <4>2. Tail(t) # <<>>  BY ONLY <3>1, <3>2
      <4> QED  BY ONLY <4>1, <4>2
    <3>6. Left(Tail(t)) = Left(t) \ {Head(t)}
      <4>1. Left(Tail(t)) = {"relations", "experiments"}  BY <3>1, <3>2
      <4>2. Left(t) \ {Head(t)} = File \ {"items"}  BY <3>1
      <4> QED  BY <3>3, <4>1, <4>2
    <3> QED  BY ONLY <3>1, <3>2, <3>4, <3>5, <3>6
  <2> QED  BY <2>2, <2>3, <2>4, <2>5, <2>6 DEF Orders
<1> QED  BY <1>1, <1>5, <1>7
-----------------------------------------------------------------------------
(* Commands that begin *)

\* What a command, a save or a restore that begins must have: the files it will save
\* hold what is kept, and if it is alone, what it made.
Ready(p, state) ==
    /\ state \in Process(ops + 1)
    /\ state.pc \in {"edges", "open", "cut"} /\ state.todo # <<>>
    /\ p = Server => server # Absent
    /\ state.alone => Busy = {} /\ (p # Server => server = Absent) /\ state.op # 0
    /\ state.pc = "cut" => kept' = NoFacts
    /\ state.pc # "cut" =>
           state.bad = {} /\ \A f \in Holding(state) : kept'[f] \subseteq state.mem[f]
    /\ state.alone =>
           /\ \A f \in File \ Left(state.todo) :
                  Loads(f) => state.made[f] \subseteq live[f].data
           /\ \A f \in Holding(state) \ state.bad : state.made[f] \subseteq state.mem[f]
           /\ Edged(state.made)
           /\ Numbered([f \in File |-> kept'[f] \cup state.made[f]])

\* A command that begins may take files out of what is kept, never put some in.
Forgets ==
    /\ kept' \in Tables(ops) /\ Edged(kept')
    /\ \A f \in File : kept'[f] \subseteq kept[f]
    /\ fresh' \subseteq fresh /\ \A n \in fresh' : kept'[n.file] = kept[n.file]

\* One process per writer, with the fields of a process.
LEMMA ProcessFields ==
    ASSUME TypeInv, NEW p \in Writer
    PROVE  /\ proc[p] \in Process(ops) /\ proc[p].pc \in PC /\ proc[p].op \in 0..ops
           /\ proc[p].alone \in BOOLEAN /\ proc[p].mem \in Tables(ops)
           /\ proc[p].made \in Tables(ops) /\ proc[p].bad \subseteq File
           /\ proc[p].todo \in Orders /\ (proc[p].pc = "idle") = (proc[p].todo = <<>>)
BY DEF TypeInv, Process

\* The others go on, no longer alone.
LEMMA BeginFacts ==
    ASSUME TypeInv, NEW p \in Writer, NEW state, Begin(p, state), state \in Process(ops + 1)
    PROVE  /\ ops' = ops + 1 /\ ops + stamp < MaxBegun /\ proc[p].pc = "idle"
           /\ proc' \in [Writer -> Process(ops + 1)] /\ proc'[p] = state
           /\ \A q \in Writer \ {p} :
                  /\ proc'[q].pc = proc[q].pc /\ proc'[q].op = proc[q].op
                  /\ proc'[q].alone = FALSE /\ proc'[q].mem = proc[q].mem
                  /\ proc'[q].todo = proc[q].todo /\ proc'[q].made = proc[q].made
                  /\ proc'[q].bad = proc[q].bad
<1>1. ops' = ops + 1 /\ ops + stamp < MaxBegun /\ proc[p].pc = "idle"
      /\ proc' = Join(p, state)
  BY DEF Begin
<1>2. Process(ops) \subseteq Process(ops + 1)
  BY Later DEF TypeInv
<1>3. ASSUME NEW q \in Writer \ {p}
      PROVE  /\ proc'[q] \in Process(ops + 1)
             /\ proc'[q].pc = proc[q].pc /\ proc'[q].op = proc[q].op
             /\ proc'[q].alone = FALSE /\ proc'[q].mem = proc[q].mem
             /\ proc'[q].todo = proc[q].todo /\ proc'[q].made = proc[q].made
             /\ proc'[q].bad = proc[q].bad
  <2>1. proc[q] \in Process(ops + 1)  BY <1>2, ProcessFields
  <2>2. proc'[q] = [proc[q] EXCEPT !.alone = FALSE]  BY <1>1 DEF Join
  <2> QED  BY <2>1, <2>2 DEF Process
<1>4. proc' \in [Writer -> Process(ops + 1)] /\ proc'[p] = state
  <2>1. \A q \in Writer : Join(p, state)[q] \in Process(ops + 1)
    BY <1>1, <1>3 DEF Join
  <2> QED  BY <1>1, <2>1 DEF Join
<1> QED  BY <1>1, <1>3, <1>4

\* The types of what a beginning leaves alone.
LEMMA BeginType ==
    ASSUME TypeInv, NEW p \in Writer, NEW state, Begin(p, state), Ready(p, state), Forgets,
           UNCHANGED <<disk, quarantine, server, suspect, archive>>
    PROVE  TypeInv'
<1> state \in Process(ops + 1) /\ state.pc # "idle" /\ state.todo # <<>>
  BY DEF Ready
<1>1. /\ ops' = ops + 1 /\ ops + stamp < MaxBegun
      /\ proc' \in [Writer -> Process(ops + 1)] /\ proc'[p] = state
      /\ \A q \in Writer \ {p} : proc'[q].pc = proc[q].pc /\ proc'[q].todo = proc[q].todo
  BY BeginFacts
<1>2. ops \in Nat /\ stamp \in Nat /\ MaxBegun \in Nat
  BY LocalStoreAssumption DEF TypeInv
<1>3. /\ Facts(ops) \subseteq Facts(ops') /\ Tables(ops) \subseteq Tables(ops')
      /\ Saved(ops) \subseteq Saved(ops') /\ Temp(ops) \subseteq Temp(ops')
      /\ Snapshot(ops) \subseteq Snapshot(ops')
  BY <1>1, <1>2, Later
<1>4. /\ live' = live /\ tmp' = tmp /\ quarantine' = quarantine /\ server' = server
      /\ suspect' = suspect /\ snapshots' = snapshots /\ latest' = latest
      /\ backup' = backup /\ stamp' = stamp
  BY DEF disk, archive
<1>5. ops' \in Nat /\ ops' + stamp <= MaxBegun  BY <1>1, <1>2
<1>6. live \in [File -> Saved(ops')]  BY <1>3 DEF TypeInv
<1>7. \A f \in File : tmp[f] # Absent => tmp[f] \in Temp(ops')  BY <1>3 DEF TypeInv
<1>8. \A q \in Writer : (proc'[q].pc = "idle") = (proc'[q].todo = <<>>)
  <2> TAKE q \in Writer
  <2>1. CASE q = p  BY <1>1, <2>1
  <2>2. CASE q # p  BY <1>1, <2>2, ProcessFields
  <2> QED  BY <2>1, <2>2
<1>9. (server # Absent => server \in Tables(ops')) /\ quarantine \subseteq SUBSET Facts(ops')
  BY <1>3 DEF TypeInv
<1>10. snapshots \in [DOMAIN snapshots -> Snapshot(ops')]  BY <1>3 DEF TypeInv
<1>11. backup # Absent => backup \in [todo : Orders, held : Tables(ops')]
  BY <1>3 DEF TypeInv
<1>12. kept' \in Tables(ops')  BY <1>3 DEF Forgets
<1> QED
  BY <1>1, <1>2, <1>4, <1>5, <1>6, <1>7, <1>8, <1>9, <1>10, <1>11, <1>12 DEF TypeInv
\* Nothing is kept that was not, and the others hold what they held.
LEMMA BeginInv ==
    ASSUME LocalInv, NEW p \in Writer, NEW state, Begin(p, state), Ready(p, state), Forgets,
           UNCHANGED <<disk, quarantine, server, suspect, archive>>
    PROVE  LocalInv'
<1> TypeInv /\ Turns /\ Keeping /\ Making /\ Numbers /\ Copying  BY DEF LocalInv
<1>1. TypeInv'  BY BeginType
<1> state \in Process(ops + 1) /\ state.pc \in {"edges", "open", "cut"}  BY DEF Ready
<1>2. /\ proc[p].pc = "idle" /\ proc'[p] = state
      /\ \A q \in Writer \ {p} :
             /\ proc'[q].pc = proc[q].pc /\ proc'[q].op = proc[q].op
             /\ proc'[q].alone = FALSE /\ proc'[q].mem = proc[q].mem
             /\ proc'[q].todo = proc[q].todo /\ proc'[q].made = proc[q].made
             /\ proc'[q].bad = proc[q].bad
  BY BeginFacts
<1>3. /\ live' = live /\ tmp' = tmp /\ server' = server
      /\ snapshots' = snapshots /\ backup' = backup /\ stamp' = stamp
  BY DEF disk, archive
<1>4. \A f \in File : kept'[f] \subseteq kept[f]  BY DEF Forgets
<1>5. kept' \in Tables(ops)  BY DEF Forgets
<1>6. Turns'
  <2>1. proc'[Server].pc # "idle" => server # Absent
    BY <1>2 DEF Turns, Ready, Writer
  <2>2. ASSUME NEW q \in Writer, proc'[q].alone
        PROVE  /\ proc'[q].pc # "idle" /\ \A r \in Writer \ {q} : proc'[r].pc = "idle"
               /\ q # Server => server = Absent
               /\ proc'[q].op # 0
    <3>1. q = p  BY <1>2, <2>2
    <3>2. Busy = {} /\ (p # Server => server = Absent) /\ state.op # 0
      BY <1>2, <2>2, <3>1 DEF Ready
    <3> QED  BY <1>2, <3>1, <3>2 DEF Busy
  <2>3. ASSUME NEW q \in Writer, Restoring(q)'  PROVE kept' = NoFacts
    <3>1. CASE q = p  BY <1>2, <2>3, <3>1 DEF Restoring, Ready
    <3>2. CASE q # p
      <4>1. kept = NoFacts  BY <1>2, <2>3, <3>2 DEF Restoring, Turns
      <4> QED  BY <1>4, <1>5, <4>1 DEF NoFacts, Tables
    <3> QED  BY <3>1, <3>2
  <2>4. ASSUME NEW q \in Writer, ~Restoring(q)'  PROVE proc'[q].bad = {}
    <3>1. CASE q = p  BY <1>2, <2>4, <3>1 DEF Restoring, Ready
    <3>2. CASE q # p  BY <1>2, <2>4, <3>2 DEF Restoring, Turns
    <3> QED  BY <3>1, <3>2
  <2>5. ASSUME NEW f \in File, tmp[f] # Absent, NEW q \in tmp[f].by
        PROVE  proc'[q].pc = "write" /\ f = Head(proc'[q].todo)
    <3>1. proc[q].pc = "write" /\ f = Head(proc[q].todo) /\ q \in Writer
      BY <2>5 DEF Turns, TypeInv, Temp
    <3> QED  BY <1>2, <3>1
  <2> QED  BY <1>3, <2>1, <2>2, <2>3, <2>4, <2>5 DEF Turns
<1>7. Keeping'
  <2>1. \A f \in File : Loads(f)' => kept'[f] \subseteq live'[f].data
    BY <1>3, <1>4 DEF Keeping, Loads
  <2>2. ASSUME NEW q \in Writer, ~Restoring(q)', NEW f \in Holding(proc'[q])
        PROVE  kept'[f] \subseteq proc'[q].mem[f]
    <3>1. CASE q = p  BY <1>2, <2>2, <3>1 DEF Restoring, Ready
    <3>2. CASE q # p
      <4>1. ~Restoring(q) /\ f \in Holding(proc[q]) /\ f \in File
        <5>1. Left(proc[q].todo) \subseteq File  BY OrderShape, ProcessFields
        <5> QED  BY <1>2, <2>2, <3>2, <5>1 DEF Restoring, Holding
      <4> QED  BY <1>2, <1>4, <3>2, <4>1 DEF Keeping
    <3> QED  BY <3>1, <3>2
  <2>3. ASSUME NEW q \in Writer, proc'[q].pc = "write",
               tmp[Head(proc'[q].todo)] # Absent, tmp[Head(proc'[q].todo)].by = {}
        PROVE  kept'[Head(proc'[q].todo)] \subseteq tmp[Head(proc'[q].todo)].data
    <3>1. q # p /\ proc[q].pc = "write" /\ proc'[q].todo = proc[q].todo  BY <1>2, <2>3
    <3>2. Head(proc[q].todo) \in File  BY <3>1, OrderShape, ProcessFields
    <3> QED  BY <1>4, <2>3, <3>1, <3>2 DEF Keeping
  <2>4. server # Absent => \A f \in {"items", "relations"} : kept'[f] \subseteq server[f]
    BY <1>4 DEF Keeping, File
  <2> QED  BY <1>3, <2>1, <2>2, <2>3, <2>4 DEF Keeping
<1>8. Making'
  <2> SUFFICES ASSUME NEW q \in Writer, proc'[q].alone
               PROVE  /\ \A f \in File \ Left(proc'[q].todo) :
                             Loads(f)' => proc'[q].made[f] \subseteq live'[f].data
                      /\ \A f \in Holding(proc'[q]) \ proc'[q].bad :
                             proc'[q].made[f] \subseteq proc'[q].mem[f]
                      /\ proc'[q].pc # "write" /\ proc'[q].pc # "fill"
    BY DEF Making
  <2>1. q = p  BY <1>2
  <2> QED  BY <1>2, <1>3, <2>1 DEF Ready, Loads
<1>9. Numbers'
  <2>1. ASSUME NEW n \in fresh'
        PROVE  n.file \in File /\ [op |-> n.op, id |-> n.id, new |-> TRUE] \in kept'[n.file]
    BY DEF Numbers, Forgets
  <2>2. Numbered(kept') /\ Edged(kept')
    <3>1. Numbered(kept) /\ Edged(kept')  BY DEF Numbers, Forgets
    <3> QED  BY <1>4, <3>1 DEF Numbered, OneEach
  <2>3. ASSUME NEW q \in Writer, proc'[q].alone
        PROVE  /\ Edged(proc'[q].made)
               /\ Numbered([f \in File |-> kept'[f] \cup proc'[q].made[f]])
    <3>1. q = p  BY <1>2, <2>3
    <3> QED  BY <1>2, <2>3, <3>1 DEF Ready
  <2> QED  BY <1>3, <2>1, <2>2, <2>3 DEF Numbers, Numbered, OneEach, Edged
<1>10. Copying'  BY <1>3 DEF Copying, Brings
<1> QED  BY <1>1, <1>6, <1>7, <1>8, <1>9, <1>10 DEF LocalInv
-----------------------------------------------------------------------------
(* The commands *)

\* What a command starts with.
LEMMA StartedFields ==
    ASSUME TypeInv, NEW p \in Writer, NEW mem \in Tables(ops + 1),
           NEW made \in Tables(ops + 1), NEW todo \in Orders
    PROVE  LET s == Started(p, mem, made, todo)
           IN  /\ s \in Process(ops + 1) /\ s.pc = "open" /\ s.mem = mem /\ s.made = made
               /\ s.todo = todo /\ s.bad = {} /\ s.op = ops + 1
               /\ s.alone => Busy = {} /\ (p # Server => server = Absent) /\ s.op # 0
<1>1. ops + 1 \in 0..(ops + 1)  BY DEF TypeInv
<1>2. (Busy = {} /\ (p = Server \/ server = Absent)) \in BOOLEAN  OBVIOUS
<1>3. ops + 1 # 0  BY DEF TypeInv
<1> QED  BY <1>1, <1>2, <1>3 DEF Started, Process, PC

\* A fact of the command that begins.
LEMMA MadeFact ==
    ASSUME TypeInv
    PROVE  /\ \A id \in 1..(ops + 2) : New(id) \in Facts(ops + 1) /\ Edit(id) \in Facts(ops + 1)
           /\ \A data \in SUBSET Facts(ops) :
                  /\ data \subseteq Facts(ops + 1)
                  /\ New(NextId(data)) \in Facts(ops + 1)
                  /\ \A e \in data : e.id \in 1..(ops + 2) /\ e.id # New(NextId(data)).id
<1>1. ops \in Nat  BY DEF TypeInv
<1>2. \A id \in 1..(ops + 2) : New(id) \in Facts(ops + 1) /\ Edit(id) \in Facts(ops + 1)
  BY <1>1 DEF New, Edit, Facts
<1>3. ASSUME NEW data \in SUBSET Facts(ops)
      PROVE  /\ data \subseteq Facts(ops + 1)
             /\ New(NextId(data)) \in Facts(ops + 1)
             /\ \A e \in data : e.id \in 1..(ops + 2) /\ e.id # New(NextId(data)).id
  <2>1. Facts(ops) \subseteq Facts(ops + 1)  BY <1>1, Later
  <2>2. NextId(data) \in 1..(ops + 2) /\ \A e \in data : e.id < NextId(data)
    BY <1>1, NextIdAbove
  <2>3. \A e \in data : e.id \in 1..(ops + 2)  BY <1>1 DEF Facts
  <2>4. \A e \in data : e.id # NextId(data)  BY <2>2, <2>3
  <2>5. New(NextId(data)).id = NextId(data)  BY DEF New
  <2> QED  BY <1>2, <2>1, <2>2, <2>3, <2>4, <2>5
<1> QED  BY <1>2, <1>3

\* A fact with a number of its own, or that gives out none, may be added.
LEMMA OneMore ==
    ASSUME NEW facts, OneEach(facts), NEW e, e.new => \A d \in facts : d.id # e.id
    PROVE  OneEach(facts \cup {e})
BY DEF OneEach

\* The tables of a command that writes one fact, or an item and its edge.
LEMMA MadeTables ==
    ASSUME NEW n, NEW e \in Facts(n)
    PROVE  /\ NoFacts \in Tables(n) /\ Edged(NoFacts)
           /\ \A f \in File : NoFacts[f] = {}
           /\ \A g \in File :
                  /\ Made(g, e) \in Tables(n)
                  /\ \A f \in File : Made(g, e)[f] = IF f = g THEN {e} ELSE {}
           /\ LET both == [Made("items", e) EXCEPT !["relations"] = {e}]
              IN  /\ both \in Tables(n) /\ Edged(both)
                  /\ \A f \in File : both[f] = IF f = "experiments" THEN {} ELSE {e}
BY DEF NoFacts, Tables, Made, Edged, File

\* The files are three.
LEMMA Files == "items" \in File /\ "relations" \in File /\ "experiments" \in File
BY DEF File

\* What the orders of the commands leave to save.
LEMMA CommandOrders ==
    /\ <<"relations", "items">> \in Orders \ {<<>>}
    /\ <<"items", "relations">> \in Orders \ {<<>>}
    /\ <<"items">> \in Orders \ {<<>>} /\ <<"experiments">> \in Orders \ {<<>>}
    /\ Left(<<"relations", "items">>) = {"items", "relations"}
    /\ Left(<<"items", "relations">>) = {"items", "relations"}
    /\ Left(<<"items">>) = {"items"} /\ Left(<<"experiments">>) = {"experiments"}
<1>1. \A a, b : Left(<<a, b>>) = {a, b} /\ <<a, b>> # <<>>  BY DEF Left
<1>2. \A a : Left(<<a>>) = {a} /\ <<a>> # <<>>  BY DEF Left
<1>3. {"relations", "items"} = {"items", "relations"}  OBVIOUS
<1> QED  BY <1>1, <1>2, <1>3 DEF Orders

\* Nothing is forgotten when the history stays as it is.
LEMMA NothingForgotten ==
    ASSUME LocalInv, UNCHANGED history
    PROVE  Forgets
BY DEF LocalInv, TypeInv, Numbers, Forgets, history

\* A created item's number is above those of the items kept.
LEMMA CreateRelatedStep ==
    ASSUME LocalInv, NEW c \in Cli, CreateRelated(c)
    PROVE  LocalInv'
<1> TypeInv /\ Keeping /\ Numbers  BY DEF LocalInv
<1> DEFINE e == New(NextId(LoadedItems))
           made == [Made("items", e) EXCEPT !["relations"] = {e}]
           start == Started(c, NoFacts, made, <<"relations", "items">>)
           state == [start EXCEPT !.pc = "edges", !.mem["items"] = LoadedItems \cup {e}]
<1>1. /\ Begin(c, state) /\ Loads("items")
      /\ UNCHANGED <<disk, quarantine, server, suspect, archive>> /\ UNCHANGED history
  BY DEF CreateRelated, noted
<1>2. LoadedItems \in SUBSET Facts(ops)
  BY Files DEF TypeInv, Saved, LoadedItems
<1>3. /\ e \in Facts(ops + 1) /\ LoadedItems \subseteq Facts(ops + 1)
      /\ \A d \in LoadedItems : d.id # e.id
  BY <1>2, MadeFact
<1>4. kept["items"] \subseteq LoadedItems /\ kept["relations"] \subseteq kept["items"]
  BY <1>1, Files DEF Keeping, Numbers, Edged, LoadedItems
<1>5. c \in Writer /\ c # Server  BY LocalStoreAssumption DEF Writer
<1> HIDE DEF e
<1>6. /\ made \in Tables(ops + 1) /\ Edged(made) /\ NoFacts \in Tables(ops + 1)
      /\ \A f \in File : made[f] = IF f = "experiments" THEN {} ELSE {e}
  BY <1>3, MadeTables
<1> HIDE DEF made
<1>7. /\ start \in Process(ops + 1) /\ start.mem = NoFacts /\ start.made = made
      /\ start.todo = <<"relations", "items">> /\ start.bad = {}
      /\ start.alone => Busy = {} /\ (c # Server => server = Absent) /\ start.op # 0
  BY <1>5, <1>6, CommandOrders, StartedFields
<1> HIDE DEF start
<1>8. /\ state \in Process(ops + 1) /\ state.pc = "edges" /\ state.made = made
      /\ state.mem["items"] = LoadedItems \cup {e}
      /\ state.todo = <<"relations", "items">> /\ state.bad = {}
      /\ state.alone = start.alone /\ state.op = start.op
  BY <1>3, <1>7, Files DEF Process, PC, Tables
<1> HIDE DEF state
<1>9. Left(state.todo) = {"items", "relations"} /\ Holding(state) = {"items"}
  BY <1>8, CommandOrders DEF Holding
<1>10. kept' = kept  BY <1>1 DEF history
<1>11. Numbered([f \in File |-> kept[f] \cup made[f]])
  <2> SUFFICES ASSUME NEW f \in File  PROVE OneEach(kept[f] \cup made[f])
    BY DEF Numbered
  <2>1. OneEach(kept[f])  BY DEF Numbers, Numbered
  <2>2. CASE f = "experiments"
    <3>1. kept[f] \cup made[f] = kept[f]  BY <1>6, <2>2
    <3> QED  BY <2>1, <3>1
  <2>3. CASE f # "experiments"
    <3>1. kept[f] \subseteq LoadedItems  BY <1>4, <2>3 DEF File
    <3>2. OneEach(kept[f] \cup {e})  BY <1>3, <2>1, <3>1, OneMore
    <3> QED  BY <1>6, <2>3, <3>2
  <2> QED  BY <2>2, <2>3
<1>12. Ready(c, state)
  <2>1. \A f \in File \ Left(state.todo) : state.made[f] = {}
    BY <1>6, <1>8, <1>9 DEF File
  <2>2. kept["items"] \subseteq state.mem["items"] /\ state.made["items"] \subseteq state.mem["items"]
    BY <1>4, <1>6, <1>8, Files
  <2>3. state.todo # <<>>  BY <1>8, CommandOrders
  <2> QED  BY <1>5, <1>6, <1>7, <1>8, <1>9, <1>10, <1>11, <2>1, <2>2, <2>3 DEF Ready
<1> QED  BY <1>1, <1>5, <1>12, BeginInv, NothingForgotten

\* A command of the hdd group starts with both files.
LEMMA CreateHddStep ==
    ASSUME LocalInv, NEW c \in Cli, CreateHdd(c)
    PROVE  LocalInv'
<1> TypeInv /\ Keeping /\ Numbers  BY DEF LocalInv
<1> DEFINE e == New(NextId(LoadedItems))
           made == [Made("items", e) EXCEPT !["relations"] = {e}]
           mem == [f \in File |-> (IF f = "items" THEN LoadedItems ELSE live[f].data)
                                  \cup made[f]]
           state == Started(c, mem, made, <<"items", "relations">>)
<1>1. /\ Begin(c, state) /\ Loads("items") /\ Loads("relations")
      /\ UNCHANGED <<disk, quarantine, server, suspect, archive>> /\ UNCHANGED history
  BY DEF CreateHdd, noted
<1>2. \A f \in File : live[f].data \in SUBSET Facts(ops)
  BY DEF TypeInv, Saved
<1>3. LoadedItems = live["items"].data /\ LoadedItems \in SUBSET Facts(ops)
  BY <1>2, Files DEF LoadedItems
<1>4. /\ e \in Facts(ops + 1) /\ \A f \in File : live[f].data \subseteq Facts(ops + 1)
      /\ \A d \in LoadedItems : d.id # e.id
  BY <1>2, <1>3, MadeFact
<1>5. /\ kept["items"] \subseteq LoadedItems /\ kept["relations"] \subseteq kept["items"]
      /\ kept["relations"] \subseteq live["relations"].data
  BY <1>1, <1>3, Files DEF Keeping, Numbers, Edged
<1>6. c \in Writer /\ c # Server  BY LocalStoreAssumption DEF Writer
<1> HIDE DEF e
<1>7. /\ made \in Tables(ops + 1) /\ Edged(made)
      /\ \A f \in File : made[f] = IF f = "experiments" THEN {} ELSE {e}
  BY <1>4, MadeTables
<1> HIDE DEF made
<1>8. mem \in Tables(ops + 1) /\ \A f \in File : mem[f] = live[f].data \cup made[f]
  BY <1>3, <1>4, <1>7 DEF Tables
<1> HIDE DEF mem
<1>9. /\ state \in Process(ops + 1) /\ state.pc = "open" /\ state.mem = mem
      /\ state.made = made /\ state.todo = <<"items", "relations">> /\ state.bad = {}
      /\ state.alone => Busy = {} /\ (c # Server => server = Absent) /\ state.op # 0
  BY <1>6, <1>7, <1>8, CommandOrders, StartedFields
<1> HIDE DEF state
<1>10. Left(state.todo) = {"items", "relations"} /\ Holding(state) = {"items", "relations"}
  BY <1>9, CommandOrders DEF Holding
<1>11. kept' = kept  BY <1>1 DEF history
<1>12. Numbered([f \in File |-> kept[f] \cup made[f]])
  <2> SUFFICES ASSUME NEW f \in File  PROVE OneEach(kept[f] \cup made[f])
    BY DEF Numbered
  <2>1. OneEach(kept[f])  BY DEF Numbers, Numbered
  <2>2. CASE f = "experiments"
    <3>1. kept[f] \cup made[f] = kept[f]  BY <1>7, <2>2
    <3> QED  BY <2>1, <3>1
  <2>3. CASE f # "experiments"
    <3>1. kept[f] \subseteq LoadedItems  BY <1>5, <2>3 DEF File
    <3>2. OneEach(kept[f] \cup {e})  BY <1>4, <2>1, <3>1, OneMore
    <3> QED  BY <1>7, <2>3, <3>2
  <2> QED  BY <2>2, <2>3
<1>13. Ready(c, state)
  <2>1. \A f \in File \ Left(state.todo) : state.made[f] = {}
    BY <1>7, <1>9, <1>10 DEF File
  <2>2. \A f \in Holding(state) : kept[f] \subseteq state.mem[f] /\ made[f] \subseteq state.mem[f]
    BY <1>3, <1>5, <1>8, <1>9, <1>10, Files
  <2>3. state.todo # <<>>  BY <1>9, CommandOrders
  <2> QED  BY <1>6, <1>7, <1>9, <1>11, <1>12, <2>1, <2>2, <2>3 DEF Ready
<1> QED  BY <1>1, <1>6, <1>13, BeginInv, NothingForgotten

\* An edit gives out no number.
LEMMA EditItemStep ==
    ASSUME LocalInv, NEW c \in Cli, EditItem(c)
    PROVE  LocalInv'
<1> TypeInv /\ Keeping /\ Numbers  BY DEF LocalInv
<1>1. PICK d \in LoadedItems :
          Begin(c, Started(c, [NoFacts EXCEPT !["items"] = LoadedItems \cup {Edit(d.id)}],
                           Made("items", Edit(d.id)), <<"items">>))
  BY DEF EditItem
<1>2. /\ Loads("items") /\ UNCHANGED <<disk, quarantine, server, suspect, archive>>
      /\ UNCHANGED history
  BY DEF EditItem, noted
<1> DEFINE e == Edit(d.id)
           made == Made("items", e)
           mem == [NoFacts EXCEPT !["items"] = LoadedItems \cup {e}]
           state == Started(c, mem, made, <<"items">>)
<1>3. LoadedItems \in SUBSET Facts(ops) /\ LoadedItems = live["items"].data
  BY Files DEF TypeInv, Saved, LoadedItems
<1>4. e \in Facts(ops + 1) /\ LoadedItems \subseteq Facts(ops + 1) /\ ~e.new
  <2>1. d.id \in 1..(ops + 2) /\ LoadedItems \subseteq Facts(ops + 1)  BY <1>3, MadeFact
  <2> QED  BY <2>1, MadeFact DEF Edit
<1>5. kept["items"] \subseteq LoadedItems  BY <1>2, <1>3, Files DEF Keeping
<1>6. c \in Writer /\ c # Server  BY LocalStoreAssumption DEF Writer
<1>7. Begin(c, state)  BY <1>1
<1> HIDE DEF e
<1>8. /\ made \in Tables(ops + 1) /\ NoFacts \in Tables(ops + 1)
      /\ \A f \in File : made[f] = IF f = "items" THEN {e} ELSE {}
  BY <1>4, MadeTables, Files
<1> HIDE DEF made
<1>9. mem \in Tables(ops + 1) /\ mem["items"] = LoadedItems \cup {e}
  BY <1>4, <1>8, Files DEF Tables
<1> HIDE DEF mem
<1>10. /\ state \in Process(ops + 1) /\ state.pc = "open" /\ state.mem = mem
       /\ state.made = made /\ state.todo = <<"items">> /\ state.bad = {}
       /\ state.alone => Busy = {} /\ (c # Server => server = Absent) /\ state.op # 0
  BY <1>6, <1>8, <1>9, CommandOrders, StartedFields
<1> HIDE DEF state
<1>11. Left(state.todo) = {"items"} /\ Holding(state) = {"items"}
  BY <1>10, CommandOrders DEF Holding
<1>12. kept' = kept  BY <1>2 DEF history
<1>13. Numbered([f \in File |-> kept[f] \cup made[f]])
  <2> SUFFICES ASSUME NEW f \in File  PROVE OneEach(kept[f] \cup made[f])
    BY DEF Numbered
  <2>1. OneEach(kept[f])  BY DEF Numbers, Numbered
  <2>2. CASE f # "items"
    <3>1. kept[f] \cup made[f] = kept[f]  BY <1>8, <2>2
    <3> QED  BY <2>1, <3>1
  <2>3. CASE f = "items"
    <3>1. OneEach(kept[f] \cup {e})  BY <1>4, <2>1, OneMore
    <3> QED  BY <1>8, <2>3, <3>1
  <2> QED  BY <2>2, <2>3
<1>14. Edged(made)  BY <1>8, Files DEF Edged
<1>15. Ready(c, state)
  <2>1. \A f \in File \ Left(state.todo) : state.made[f] = {}
    BY <1>8, <1>10, <1>11
  <2>2. \A f \in Holding(state) : kept[f] \subseteq state.mem[f] /\ made[f] \subseteq state.mem[f]
    BY <1>5, <1>8, <1>9, <1>10, <1>11, Files
  <2>3. state.todo # <<>>  BY <1>10, CommandOrders
  <2> QED  BY <1>6, <1>10, <1>12, <1>13, <1>14, <2>1, <2>2, <2>3 DEF Ready
<1> QED  BY <1>2, <1>6, <1>7, <1>15, BeginInv, NothingForgotten

\* A migration replaces the board: nothing of it is kept.
LEMMA MigrateStep ==
    ASSUME LocalInv, NEW c \in Cli, Migrate(c)
    PROVE  LocalInv'
<1> TypeInv /\ Keeping /\ Numbers  BY DEF LocalInv
<1>1. PICK migrated \in {{}, {New(1)}} :
          /\ Begin(c, Started(c, [NoFacts EXCEPT !["items"] = migrated],
                              [NoFacts EXCEPT !["items"] = migrated],
                              <<"items", "relations">>))
          /\ IF migrated = {} /\ LoadedItems = {}
             THEN UNCHANGED history
             ELSE /\ kept' = [kept EXCEPT !["items"] = {}, !["relations"] = {}]
                  /\ fresh' = {n \in fresh : n.file = "experiments"}
  BY DEF Migrate
<1>2. Loads("items") /\ UNCHANGED <<disk, quarantine, server, suspect, archive>>
  BY DEF Migrate, noted
<1> DEFINE made == [NoFacts EXCEPT !["items"] = migrated]
           state == Started(c, made, made, <<"items", "relations">>)
<1>3. Begin(c, state)  BY <1>1
<1>4. migrated \subseteq Facts(ops + 1)
  <2>1. 1 \in 1..(ops + 2)  BY DEF TypeInv
  <2> QED  BY <2>1, <1>1, MadeFact
<1>5. c \in Writer /\ c # Server  BY LocalStoreAssumption DEF Writer
<1>6. kept'["items"] = {} /\ kept'["relations"] = {} /\ kept' \in Tables(ops)
      /\ kept'["experiments"] = kept["experiments"]
  <2>1. kept \in Tables(ops)  BY DEF TypeInv
  <2>2. CASE migrated = {} /\ LoadedItems = {}
    <3>1. kept["items"] = {}  BY <1>2, <2>2, Files DEF Keeping, LoadedItems
    <3>2. kept["relations"] = {}  BY <3>1 DEF Numbers, Edged
    <3>3. kept' = kept  BY <1>1, <2>2 DEF history
    <3> QED  BY <2>1, <3>1, <3>2, <3>3
  <2>3. CASE ~(migrated = {} /\ LoadedItems = {})  BY <1>1, <2>1, <2>3 DEF Tables, File
  <2> QED  BY <2>2, <2>3
<1>7. Forgets
  <2>1. \A f \in File : kept'[f] \subseteq kept[f]  BY <1>6 DEF File
  <2>2. fresh' \subseteq fresh /\ \A n \in fresh' : kept'[n.file] = kept[n.file]
    BY <1>1, <1>6 DEF history
  <2> QED  BY <1>6, <2>1, <2>2 DEF Forgets, Edged
<1>8. /\ made \in Tables(ops + 1) /\ Edged(made)
      /\ \A f \in File : made[f] = IF f = "items" THEN migrated ELSE {}
  BY <1>4 DEF Tables, NoFacts, Edged, File
<1> HIDE DEF made
<1>9. /\ state \in Process(ops + 1) /\ state.pc = "open" /\ state.mem = made
      /\ state.made = made /\ state.todo = <<"items", "relations">> /\ state.bad = {}
      /\ state.alone => Busy = {} /\ (c # Server => server = Absent) /\ state.op # 0
  BY <1>5, <1>8, CommandOrders, StartedFields
<1> HIDE DEF state
<1>10. Left(state.todo) = {"items", "relations"} /\ Holding(state) = {"items", "relations"}
  BY <1>9, CommandOrders DEF Holding
<1>11. Numbered([f \in File |-> kept'[f] \cup made[f]])
  <2> SUFFICES ASSUME NEW f \in File  PROVE OneEach(kept'[f] \cup made[f])
    BY DEF Numbered
  <2>1. OneEach(kept[f])  BY DEF Numbers, Numbered
  <2>2. OneEach(migrated)  BY <1>1 DEF OneEach
  <2>3. CASE f = "items"
    <3>1. kept'[f] \cup made[f] = migrated  BY <1>6, <1>8, <2>3
    <3> QED  BY <2>2, <3>1
  <2>4. CASE f # "items"
    <3>1. kept'[f] \cup made[f] = kept'[f] /\ kept'[f] \subseteq kept[f]
      BY <1>6, <1>8, <2>4 DEF File
    <3> QED  BY <2>1, <3>1 DEF OneEach
  <2> QED  BY <2>3, <2>4
<1>12. Ready(c, state)
  <2>1. \A f \in File \ Left(state.todo) : state.made[f] = {}
    BY <1>8, <1>9, <1>10
  <2>2. \A f \in Holding(state) : kept'[f] \subseteq state.mem[f]
    BY <1>6, <1>10
  <2>3. state.todo # <<>>  BY <1>9, CommandOrders
  <2> QED  BY <1>5, <1>8, <1>9, <1>11, <2>1, <2>2, <2>3 DEF Ready
<1> QED  BY <1>2, <1>3, <1>5, <1>7, <1>12, BeginInv

\* A run's number is above those of the runs kept, or nothing is kept of runs.
LEMMA RunStepStep ==
    ASSUME LocalInv, NEW p \in Writer, RunStep(p)
    PROVE  LocalInv'
<1> TypeInv /\ Keeping /\ Numbers  BY DEF LocalInv
<1>1. PICK e \in {New(NextRun(LoadedRuns))} \cup {Edit(id) : id \in Running(LoadedRuns)} :
          Begin(p, Started(p, [NoFacts EXCEPT !["experiments"] = LoadedRuns \cup {e}],
                           Made("experiments", e), <<"experiments">>))
  BY DEF RunStep
<1>2. /\ p = Server => server # Absent
      /\ kept' = IF Loads("experiments") THEN kept ELSE [kept EXCEPT !["experiments"] = {}]
      /\ fresh' = IF Loads("experiments") THEN fresh
                  ELSE {n \in fresh : n.file # "experiments"}
      /\ UNCHANGED <<disk, quarantine, server, suspect, archive>>
  BY DEF RunStep, noted
<1> DEFINE made == Made("experiments", e)
           mem == [NoFacts EXCEPT !["experiments"] = LoadedRuns \cup {e}]
           state == Started(p, mem, made, <<"experiments">>)
<1>3. LoadedRuns \in SUBSET Facts(ops)
  BY Files DEF TypeInv, Saved, LoadedRuns
<1>4. e \in Facts(ops + 1) /\ LoadedRuns \subseteq Facts(ops + 1)
      /\ (e.new => \A d \in LoadedRuns : d.id # e.id)
  <2>1. CASE e = New(NextRun(LoadedRuns))  BY <1>3, <2>1, MadeFact DEF NextRun
  <2>2. CASE e # New(NextRun(LoadedRuns))
    <3>1. PICK id \in Running(LoadedRuns) : e = Edit(id)  BY <1>1, <2>2
    <3>2. PICK d \in LoadedRuns : id = d.id  BY <3>1 DEF Running
    <3>3. id \in 1..(ops + 2) /\ LoadedRuns \subseteq Facts(ops + 1)  BY <1>3, <3>2, MadeFact
    <3> QED  BY <3>1, <3>3, MadeFact DEF Edit
  <2> QED  BY <2>1, <2>2
<1>5. /\ kept'["experiments"] \subseteq LoadedRuns /\ kept' \in Tables(ops)
      /\ kept'["items"] = kept["items"] /\ kept'["relations"] = kept["relations"]
      /\ kept'["experiments"] \subseteq kept["experiments"]
  <2>1. kept \in Tables(ops)  BY DEF TypeInv
  <2>2. CASE Loads("experiments")  BY <1>2, <2>1, <2>2, Files DEF Keeping, LoadedRuns
  <2>3. CASE ~Loads("experiments")  BY <1>2, <2>1, <2>3, Files DEF Tables
  <2> QED  BY <2>2, <2>3
<1>6. Forgets
  <2>1. \A f \in File : kept'[f] \subseteq kept[f]  BY <1>5 DEF File
  <2>2. fresh' \subseteq fresh  BY <1>2
  <2>3. ASSUME NEW n \in fresh'  PROVE kept'[n.file] = kept[n.file]
    <3>1. n.file \in File  BY <2>2 DEF Numbers
    <3> QED  BY <1>2, <1>5, <3>1 DEF File
  <2>4. Edged(kept')  BY <1>5 DEF Numbers, Edged
  <2> QED  BY <1>5, <2>1, <2>2, <2>3, <2>4 DEF Forgets
<1>7. Begin(p, state)  BY <1>1
<1>8. /\ made \in Tables(ops + 1) /\ NoFacts \in Tables(ops + 1)
      /\ \A f \in File : made[f] = IF f = "experiments" THEN {e} ELSE {}
  BY <1>4, MadeTables, Files
<1> HIDE DEF made
<1>9. mem \in Tables(ops + 1) /\ mem["experiments"] = LoadedRuns \cup {e}
  BY <1>4, <1>8, Files DEF Tables
<1> HIDE DEF mem
<1>10. /\ state \in Process(ops + 1) /\ state.pc = "open" /\ state.mem = mem
       /\ state.made = made /\ state.todo = <<"experiments">> /\ state.bad = {}
       /\ state.alone => Busy = {} /\ (p # Server => server = Absent) /\ state.op # 0
  BY <1>8, <1>9, CommandOrders, StartedFields
<1> HIDE DEF state
<1>11. Left(state.todo) = {"experiments"} /\ Holding(state) = {"experiments"}
  BY <1>10, CommandOrders DEF Holding
<1>12. Numbered([f \in File |-> kept'[f] \cup made[f]])
  <2> SUFFICES ASSUME NEW f \in File  PROVE OneEach(kept'[f] \cup made[f])
    BY DEF Numbered
  <2>1. OneEach(kept'[f])
    <3>1. OneEach(kept[f])  BY DEF Numbers, Numbered
    <3> QED  BY <1>6, <3>1 DEF OneEach, Forgets
  <2>2. CASE f # "experiments"
    <3>1. kept'[f] \cup made[f] = kept'[f]  BY <1>8, <2>2
    <3> QED  BY <2>1, <3>1
  <2>3. CASE f = "experiments"
    <3>1. OneEach(kept'[f] \cup {e})  BY <1>4, <1>5, <2>1, <2>3, OneMore
    <3> QED  BY <1>8, <2>3, <3>1
  <2> QED  BY <2>2, <2>3
<1>13. Edged(made)  BY <1>8, Files DEF Edged
<1>14. Ready(p, state)
  <2>1. \A f \in File \ Left(state.todo) : state.made[f] = {}
    BY <1>8, <1>10, <1>11
  <2>2. \A f \in Holding(state) : kept'[f] \subseteq state.mem[f] /\ made[f] \subseteq state.mem[f]
    BY <1>5, <1>8, <1>9, <1>10, <1>11, Files
  <2>3. state.todo # <<>>  BY <1>10, CommandOrders
  <2> QED  BY <1>2, <1>10, <1>12, <1>13, <2>1, <2>2, <2>3 DEF Ready
<1> QED  BY <1>2, <1>6, <1>7, <1>14, BeginInv

\* A server's commit starts with what it holds, which has what is kept.
LEMMA ServerCommitStep ==
    ASSUME LocalInv, ServerCommit
    PROVE  LocalInv'
<1> TypeInv /\ Keeping /\ Numbers  BY DEF LocalInv
<1> DEFINE e == New(NextId(server["items"]))
           made == [Made("items", e) EXCEPT !["relations"] = {e}]
           mem == [f \in File |-> server[f] \cup made[f]]
           state == Started(Server, mem, made, <<"items", "relations">>)
<1>1. /\ Begin(Server, state) /\ server # Absent
      /\ UNCHANGED <<disk, quarantine, server, suspect, archive>> /\ UNCHANGED history
  BY DEF ServerCommit, noted
<1>2. \A f \in File : server[f] \in SUBSET Facts(ops)  BY <1>1 DEF TypeInv, Tables
<1>3. /\ e \in Facts(ops + 1) /\ \A f \in File : server[f] \subseteq Facts(ops + 1)
      /\ \A d \in server["items"] : d.id # e.id
  BY <1>2, Files, MadeFact
<1>4. /\ kept["items"] \subseteq server["items"] /\ kept["relations"] \subseteq server["relations"]
      /\ kept["relations"] \subseteq kept["items"]
  BY <1>1 DEF Keeping, Numbers, Edged
<1>5. Server \in Writer  BY DEF Writer
<1> HIDE DEF e
<1>6. /\ made \in Tables(ops + 1) /\ Edged(made)
      /\ \A f \in File : made[f] = IF f = "experiments" THEN {} ELSE {e}
  BY <1>3, MadeTables
<1> HIDE DEF made
<1>7. mem \in Tables(ops + 1) /\ \A f \in File : mem[f] = server[f] \cup made[f]
  BY <1>3, <1>6 DEF Tables
<1> HIDE DEF mem
<1>8. /\ state \in Process(ops + 1) /\ state.pc = "open" /\ state.mem = mem
      /\ state.made = made /\ state.todo = <<"items", "relations">> /\ state.bad = {}
      /\ state.alone => Busy = {} /\ state.op # 0
  BY <1>5, <1>6, <1>7, CommandOrders, StartedFields
<1> HIDE DEF state
<1>9. Left(state.todo) = {"items", "relations"} /\ Holding(state) = {"items", "relations"}
  BY <1>8, CommandOrders DEF Holding
<1>10. kept' = kept  BY <1>1 DEF history
<1>11. Numbered([f \in File |-> kept[f] \cup made[f]])
  <2> SUFFICES ASSUME NEW f \in File  PROVE OneEach(kept[f] \cup made[f])
    BY DEF Numbered
  <2>1. OneEach(kept[f])  BY DEF Numbers, Numbered
  <2>2. CASE f = "experiments"
    <3>1. kept[f] \cup made[f] = kept[f]  BY <1>6, <2>2
    <3> QED  BY <2>1, <3>1
  <2>3. CASE f # "experiments"
    <3>1. kept[f] \subseteq server["items"]  BY <1>4, <2>3 DEF File
    <3>2. OneEach(kept[f] \cup {e})  BY <1>3, <2>1, <3>1, OneMore
    <3> QED  BY <1>6, <2>3, <3>2
  <2> QED  BY <2>2, <2>3
<1>12. Ready(Server, state)
  <2>1. \A f \in File \ Left(state.todo) : state.made[f] = {}
    BY <1>6, <1>8, <1>9 DEF File
  <2>2. \A f \in Holding(state) : kept[f] \subseteq state.mem[f] /\ made[f] \subseteq state.mem[f]
    BY <1>4, <1>7, <1>8, <1>9, Files
  <2>3. state.todo # <<>>  BY <1>8, CommandOrders
  <2> QED  BY <1>1, <1>6, <1>8, <1>10, <1>11, <2>1, <2>2, <2>3 DEF Ready
<1> QED  BY <1>1, <1>5, <1>12, BeginInv, NothingForgotten

\* So does the save of a server that shuts down.
LEMMA StopServerStep ==
    ASSUME LocalInv, StopServer
    PROVE  LocalInv'
<1> TypeInv /\ Keeping  BY DEF LocalInv
<1> DEFINE state == [Idle EXCEPT !.pc = "open", !.mem = server,
                                 !.todo = <<"items", "relations">>]
<1>1. /\ Begin(Server, state) /\ server # Absent
      /\ UNCHANGED <<disk, quarantine, server, suspect, archive>> /\ UNCHANGED history
  BY DEF StopServer, noted
<1>2. ops \in Nat  BY DEF TypeInv
<1>3. server \in Tables(ops + 1)
  <2>1. server \in Tables(ops)  BY <1>1 DEF TypeInv
  <2> QED  BY <1>2, <2>1, Later
<1>4. NoFacts \in Tables(ops + 1)  BY DEF NoFacts, Tables
<1>5. /\ state \in Process(ops + 1) /\ state.pc = "open" /\ state.mem = server
      /\ state.todo = <<"items", "relations">> /\ state.bad = {} /\ ~state.alone
  <2>1. Idle \in Process(ops + 1) /\ Idle.bad = {} /\ Idle.alone = FALSE
    <3>1. 0 \in 0..(ops + 1)  BY <1>2
    <3> QED  BY <1>4, <3>1, OrderShape DEF Idle, Process, PC
  <2> DEFINE t == <<"items", "relations">>
  <2>2. t \in Orders  BY CommandOrders
  <2> HIDE DEF t
  <2> DEFINE r == [Idle EXCEPT !.pc = "open", !.mem = server, !.todo = t]
  <2>3. /\ r \in Process(ops + 1) /\ r.pc = "open" /\ r.mem = server /\ r.todo = t
        /\ r.bad = {} /\ ~r.alone
    BY <1>3, <2>1, <2>2 DEF Process, PC
  <2> QED  BY <2>3 DEF t
<1> HIDE DEF state
<1>6. Holding(state) = {"items", "relations"}  BY <1>5, CommandOrders DEF Holding
<1>7. kept' = kept  BY <1>1 DEF history
<1>8. Ready(Server, state)
  <2>1. \A f \in Holding(state) : kept[f] \subseteq state.mem[f]
    BY <1>1, <1>5, <1>6 DEF Keeping
  <2>2. state.todo # <<>>  BY <1>5, CommandOrders
  <2> QED  BY <1>1, <1>5, <1>7, <2>1, <2>2 DEF Ready
<1> QED  BY <1>1, <1>8, BeginInv, NothingForgotten DEF Writer

\* A snapshot that can be restored holds the first files, and the restore copies
\* them in that order.
LEMMA RestoreOrder ==
    ASSUME NEW D, D \in {{"items"}, {"items", "relations"}, File}
    PROVE  LET todo == SubSeq(COPIED, 1, Cardinality(D))
           IN  todo \in Orders \ {<<>>} /\ Left(todo) = D
<1>1. /\ COPIED \in Seq(File) /\ Len(COPIED) = 3
      /\ COPIED[1] = "items" /\ COPIED[2] = "relations" /\ COPIED[3] = "experiments"
  BY DEF COPIED, File
<1>2. Cardinality({"items"}) = 1  BY FS_Singleton
<1>3. Cardinality({"items", "relations"}) = 2
  <2>1. {"items", "relations"} = {"items"} \cup {"relations"}  OBVIOUS
  <2>2. IsFiniteSet({"items"}) /\ "relations" \notin {"items"}  BY FS_Singleton
  <2> QED  BY <1>2, <2>1, <2>2, FS_AddElement
<1>4. Cardinality(File) = 3
  <2>1. File = {"items", "relations"} \cup {"experiments"}  BY DEF File
  <2>2. {"items", "relations"} = {"items"} \cup {"relations"}  OBVIOUS
  <2>3. IsFiniteSet({"items"}) /\ "relations" \notin {"items"}  BY FS_Singleton
  <2>4. IsFiniteSet({"items", "relations"})  BY <2>2, <2>3, FS_AddElement
  <2>5. "experiments" \notin {"items", "relations"}  OBVIOUS
  <2> QED  BY <1>3, <2>1, <2>4, <2>5, FS_AddElement
<1>5. ASSUME NEW n \in 1..3
      PROVE  LET s == SubSeq(COPIED, 1, n)
             IN  s \in Seq(File) /\ Len(s) = n /\ \A i \in 1..n : s[i] = COPIED[i]
  <2> DEFINE s == SubSeq(COPIED, 1, n)
  <2>1. \A i \in 1..n : COPIED[i] \in File  BY <1>1, Files
  <2>2. s \in Seq(File) /\ Len(s) = (IF 1 <= n THEN n - 1 + 1 ELSE 0)
        /\ \A i \in 1..(n - 1 + 1) : s[i] = COPIED[1 + i - 1]
    BY <1>1, <2>1, SubSeqProperties
  <2> HIDE DEF s
  <2>3. s \in Seq(File) /\ Len(s) = n  BY <2>2
  <2>4. \A i \in 1..n : s[i] = COPIED[i]
    <3> TAKE i \in 1..n
    <3>1. i \in 1..(n - 1 + 1) /\ 1 + i - 1 = i  OBVIOUS
    <3> QED  BY <2>2, <3>1
  <2> QED  BY <2>3, <2>4 DEF s
<1>6. CASE D = {"items"}
  <2>1. SubSeq(COPIED, 1, 1) = <<"items">>
    <3> DEFINE s == SubSeq(COPIED, 1, 1)
               t == <<"items">>
    <3>1. s \in Seq(File) /\ Len(s) = 1 /\ s[1] = "items"  BY <1>1, <1>5
    <3>2. t \in Seq(File) /\ Len(t) = 1 /\ t[1] = "items"  BY DEF File
    <3> HIDE DEF s, t
    <3>3. \A i \in 1..Len(s) : s[i] = t[i]  BY <3>1, <3>2
    <3>4. s = t  BY <3>1, <3>2, <3>3, SeqEqual
    <3> QED  BY <3>4 DEF s, t
  <2> QED  BY <1>2, <1>6, <2>1, CommandOrders
<1>7. CASE D = {"items", "relations"}
  <2>1. SubSeq(COPIED, 1, 2) = <<"items", "relations">>
    <3> DEFINE s == SubSeq(COPIED, 1, 2)
               t == <<"items", "relations">>
    <3>1. s \in Seq(File) /\ Len(s) = 2 /\ s[1] = "items" /\ s[2] = "relations"
      BY <1>1, <1>5
    <3>2. t \in Seq(File) /\ Len(t) = 2 /\ t[1] = "items" /\ t[2] = "relations"
      BY DEF File
    <3> HIDE DEF s, t
    <3>3. \A i \in 1..Len(s) : s[i] = t[i]  BY <3>1, <3>2
    <3>4. s = t  BY <3>1, <3>2, <3>3, SeqEqual
    <3> QED  BY <3>4 DEF s, t
  <2> QED  BY <1>3, <1>7, <2>1, CommandOrders
<1>8. CASE D = File
  <2>1. SubSeq(COPIED, 1, 3) = COPIED
    <3> DEFINE s == SubSeq(COPIED, 1, 3)
    <3>1. s \in Seq(File) /\ Len(s) = 3 /\ \A i \in 1..3 : s[i] = COPIED[i]  BY <1>5
    <3> HIDE DEF s
    <3>2. s = COPIED  BY <1>1, <3>1, SeqEqual
    <3> QED  BY <3>2 DEF s
  <2>2. COPIED \in Orders /\ COPIED # <<>>  BY DEF COPIED, Orders
  <2>3. Left(COPIED) = File  BY DEF COPIED, Left, File
  <2> QED  BY <1>4, <1>8, <2>1, <2>2, <2>3
<1> QED  BY <1>6, <1>7, <1>8

\* What a snapshot is.
LEMMA SnapshotFields ==
    ASSUME TypeInv, NEW s \in DOMAIN snapshots
    PROVE  /\ snapshots[s] \in Snapshot(ops) /\ snapshots[s].held \in Tables(ops)
           /\ snapshots[s].files \in Copies(ops)
           /\ DOMAIN snapshots[s].files \in {{}, {"items"}, {"items", "relations"}, File}
           /\ \A f \in DOMAIN snapshots[s].files :
                  f \in File /\ snapshots[s].files[f] \in Saved(ops)
<1>1. snapshots[s] \in Snapshot(ops)  BY DEF TypeInv
<1>2. snapshots[s].held \in Tables(ops) /\ snapshots[s].files \in Copies(ops)
  BY <1>1 DEF Snapshot
<1>3. PICK D \in {{}, {"items"}, {"items", "relations"}, File} :
          snapshots[s].files \in [D -> Saved(ops)]
  BY <1>2 DEF Copies
<1>4. D \subseteq File  BY Files
<1> QED  BY <1>1, <1>2, <1>3, <1>4

\* A restore that begins has what the snapshot must bring back.
LEMMA RestoreStep ==
    ASSUME LocalInv, NEW c \in Cli, Restore(c)
    PROVE  LocalInv'
<1> TypeInv /\ Numbers /\ Copying  BY DEF LocalInv
<1>1. PICK s \in DOMAIN snapshots :
          /\ "items" \in DOMAIN snapshots[s].files
          /\ Begin(c, [Started(c, [f \in File |-> IF f \in RestoredFiles(s)
                                                  THEN snapshots[s].files[f].data ELSE {}],
                               snapshots[s].held,
                               SubSeq(COPIED, 1, Cardinality(RestoredFiles(s))))
                       EXCEPT !.pc = "cut",
                              !.bad = {f \in RestoredFiles(s) :
                                           snapshots[s].files[f].is # "whole"}])
  BY DEF Restore
<1>2. /\ kept' = NoFacts /\ fresh' = {}
      /\ UNCHANGED <<disk, quarantine, server, suspect, archive>>
  BY DEF Restore, noted
<1> DEFINE D == RestoredFiles(s)
           made == snapshots[s].held
           mem == [f \in File |-> IF f \in D THEN snapshots[s].files[f].data ELSE {}]
           todo == SubSeq(COPIED, 1, Cardinality(D))
           bad == {f \in D : snapshots[s].files[f].is # "whole"}
           start == Started(c, mem, made, todo)
           state == [start EXCEPT !.pc = "cut", !.bad = bad]
<1>3. Begin(c, state)  BY <1>1
<1>4. ops \in Nat /\ Tables(ops) \subseteq Tables(ops + 1) /\ Facts(ops) \subseteq Facts(ops + 1)
  BY Later DEF TypeInv
<1>5. c \in Writer /\ c # Server  BY LocalStoreAssumption DEF Writer
<1>6. /\ D = DOMAIN snapshots[s].files /\ D \in {{"items"}, {"items", "relations"}, File}
      /\ \A f \in D : f \in File /\ snapshots[s].files[f] \in Saved(ops)
  BY <1>1, SnapshotFields DEF RestoredFiles
<1>7. made \in Tables(ops) /\ made \in Tables(ops + 1)  BY <1>4, SnapshotFields
<1>8. \A f \in D : f \notin bad => made[f] \subseteq mem[f]
  BY <1>6 DEF Copying, Brings
<1>9. \A f \in File \ D : made[f] = {}  BY <1>6 DEF Copying
<1>10. Edged(made) /\ Numbered(made)  BY DEF Numbers
<1>11. todo \in Orders /\ todo # <<>> /\ Left(todo) = D  BY <1>6, RestoreOrder
<1>12. mem \in Tables(ops + 1)  BY <1>4, <1>6 DEF Tables, Saved
<1>13. bad \subseteq File  BY <1>6
<1> HIDE DEF D, made, mem, todo, bad
<1>14. /\ start \in Process(ops + 1) /\ start.mem = mem /\ start.made = made
       /\ start.todo = todo
       /\ start.alone => Busy = {} /\ (c # Server => server = Absent) /\ start.op # 0
  BY <1>5, <1>7, <1>11, <1>12, StartedFields
<1> HIDE DEF start
<1>15. /\ state \in Process(ops + 1) /\ state.pc = "cut" /\ state.mem = mem
       /\ state.made = made /\ state.todo = todo /\ state.bad = bad
       /\ state.alone = start.alone /\ state.op = start.op
  BY <1>13, <1>14 DEF Process, PC
<1> HIDE DEF state
<1>16. Holding(state) = D /\ Left(state.todo) = D  BY <1>11, <1>15 DEF Holding
<1>17. Forgets
  <2>1. kept' \in Tables(ops) /\ Edged(kept') /\ \A f \in File : kept'[f] = {}
    BY <1>2, Files DEF NoFacts, Tables, Edged
  <2> QED  BY <1>2, <2>1 DEF Forgets
<1>18. Numbered([f \in File |-> kept'[f] \cup made[f]])
  <2> SUFFICES ASSUME NEW f \in File  PROVE OneEach(kept'[f] \cup made[f])
    BY DEF Numbered
  <2>1. kept'[f] \cup made[f] = made[f]  BY <1>2 DEF NoFacts
  <2> QED  BY <1>10, <2>1 DEF Numbered
<1>19. Ready(c, state)
  BY <1>2, <1>5, <1>8, <1>9, <1>10, <1>11, <1>14, <1>15, <1>16, <1>18 DEF Ready
<1> QED  BY <1>2, <1>3, <1>5, <1>17, <1>19, BeginInv
-----------------------------------------------------------------------------
(* The saves *)

\* A process whose command goes on has what it had.
LEMMA Updated ==
    ASSUME TypeInv, NEW p \in Writer, NEW state \in Process(ops),
           proc' = [proc EXCEPT ![p] = state]
    PROVE  /\ proc' \in [Writer -> Process(ops)] /\ proc'[p] = state
           /\ \A q \in Writer \ {p} : proc'[q] = proc[q]
BY DEF TypeInv

\* An idle process.
LEMMA IdleFields ==
    ASSUME TypeInv
    PROVE  /\ Idle \in Process(ops) /\ Idle.pc = "idle" /\ Idle.todo = <<>>
           /\ Idle.bad = {} /\ ~Idle.alone
<1>1. NoFacts \in Tables(ops) /\ 0 \in 0..ops  BY DEF NoFacts, Tables, TypeInv
<1> QED  BY <1>1, OrderShape DEF Idle, Process, PC

\* A .tmp that a process which ended was filling has what the process was writing.
LeftBehind(p) ==
    /\ DOMAIN tmp' = File
    /\ \A f \in File : tmp'[f] # Absent =>
           /\ tmp[f] # Absent /\ tmp'[f] \in Temp(ops)
           /\ tmp'[f].by = tmp[f].by \ {p}
           /\ \/ p \notin tmp[f].by /\ tmp'[f].data = tmp[f].data
              \/ /\ proc[p].pc = "write" /\ f = Head(proc[p].todo)
                 /\ tmp'[f].data = proc[p].mem[f]

\* A process that ends takes nothing with it.
LEMMA EndedInv ==
    ASSUME LocalInv, NEW p \in Writer, proc' = [proc EXCEPT ![p] = Idle], LeftBehind(p),
           server' = server \/ (p = Server /\ server' = Absent), suspect' \subseteq File,
           UNCHANGED <<live, quarantine, archive, ops, history>>
    PROVE  LocalInv'
<1> TypeInv /\ Turns /\ Keeping /\ Making /\ Numbers /\ Copying  BY DEF LocalInv
<1>1. /\ proc' \in [Writer -> Process(ops)] /\ proc'[p] = Idle
      /\ \A q \in Writer \ {p} : proc'[q] = proc[q]
  BY IdleFields, Updated
<1>2. /\ live' = live /\ quarantine' = quarantine /\ snapshots' = snapshots
      /\ latest' = latest /\ backup' = backup /\ stamp' = stamp /\ ops' = ops
      /\ kept' = kept /\ fresh' = fresh
  BY DEF archive, history
<1>3. TypeInv'
  <2>1. \A q \in Writer : (proc'[q].pc = "idle") = (proc'[q].todo = <<>>)
    <3> TAKE q \in Writer
    <3>1. CASE q = p  BY <1>1, <3>1, IdleFields
    <3>2. CASE q # p  BY <1>1, <3>2, ProcessFields
    <3> QED  BY <3>1, <3>2
  <2>2. DOMAIN tmp' = File /\ \A f \in File : tmp'[f] # Absent => tmp'[f] \in Temp(ops)
    BY DEF LeftBehind
  <2>3. server' # Absent => server' \in Tables(ops)  BY DEF TypeInv
  <2> QED  BY <1>1, <1>2, <2>1, <2>2, <2>3 DEF TypeInv
<1>4. Turns'
  <2>1. proc'[Server].pc # "idle" => server' # Absent
    <3>1. Server \in Writer  BY DEF Writer
    <3>2. CASE p = Server  BY <1>1, <3>2, IdleFields
    <3>3. CASE p # Server  BY <1>1, <3>1, <3>3 DEF Turns
    <3> QED  BY <3>2, <3>3
  <2>2. ASSUME NEW q \in Writer, proc'[q].alone
        PROVE  /\ proc'[q].pc # "idle" /\ \A r \in Writer \ {q} : proc'[r].pc = "idle"
               /\ q # Server => server' = Absent
               /\ proc'[q].op # 0
    <3>1. q # p  BY <1>1, <2>2, IdleFields
    <3>2. /\ proc[q].alone /\ proc[q].pc # "idle" /\ proc[q].op # 0
          /\ \A r \in Writer \ {q} : proc[r].pc = "idle"
          /\ q # Server => server = Absent
      BY <1>1, <2>2, <3>1 DEF Turns
    <3>3. \A r \in Writer \ {q} : proc'[r].pc = "idle"
      BY <1>1, <3>2, IdleFields
    <3> QED  BY <1>1, <3>1, <3>2, <3>3
  <2>3. \A q \in Writer : Restoring(q)' => kept' = NoFacts
    BY <1>1, <1>2, IdleFields DEF Turns, Restoring
  <2>4. \A q \in Writer : ~Restoring(q)' => proc'[q].bad = {}
    BY <1>1, IdleFields DEF Turns, Restoring
  <2>5. ASSUME NEW f \in File, tmp'[f] # Absent, NEW q \in tmp'[f].by
        PROVE  proc'[q].pc = "write" /\ f = Head(proc'[q].todo)
    <3>1. tmp[f] # Absent /\ q \in tmp[f].by \ {p}  BY <2>5 DEF LeftBehind
    <3>2. q \in Writer  BY <3>1 DEF TypeInv, Temp
    <3> QED  BY <1>1, <3>1, <3>2 DEF Turns
  <2> QED  BY <2>1, <2>2, <2>3, <2>4, <2>5 DEF Turns
<1>5. Keeping'
  <2>1. \A f \in File : Loads(f)' => kept'[f] \subseteq live'[f].data
    BY <1>2 DEF Keeping, Loads
  <2>2. ASSUME NEW q \in Writer, ~Restoring(q)', NEW f \in Holding(proc'[q])
        PROVE  kept'[f] \subseteq proc'[q].mem[f]
    <3>1. q # p  BY <1>1, <2>2, IdleFields, OrderShape DEF Holding
    <3> QED  BY <1>1, <1>2, <2>2, <3>1 DEF Keeping, Restoring
  <2>3. ASSUME NEW q \in Writer, proc'[q].pc = "write",
               tmp'[Head(proc'[q].todo)] # Absent, tmp'[Head(proc'[q].todo)].by = {}
        PROVE  kept'[Head(proc'[q].todo)] \subseteq tmp'[Head(proc'[q].todo)].data
    <3>1. q # p  BY <1>1, <2>3, IdleFields
    <3>2. proc'[q] = proc[q] /\ proc[q].pc = "write"  BY <1>1, <2>3, <3>1
    <3> DEFINE f == Head(proc[q].todo)
    <3>3. f \in File  BY <3>2, OrderShape, ProcessFields
    <3>4. tmp'[f] # Absent /\ tmp'[f].by = {}  BY <2>3, <3>2
    <3> SUFFICES kept[f] \subseteq tmp'[f].data  BY <1>2, <3>2
    <3> HIDE DEF f
    <3>5. CASE p \notin tmp[f].by /\ tmp'[f].data = tmp[f].data
      <4>1. tmp[f] # Absent /\ tmp[f].by = {}  BY <3>3, <3>4, <3>5 DEF LeftBehind
      <4> QED  BY <3>2, <3>5, <4>1 DEF Keeping, f
    <3>6. CASE /\ proc[p].pc = "write" /\ f = Head(proc[p].todo)
               /\ tmp'[f].data = proc[p].mem[f]
      <4>1. f \in Holding(proc[p]) /\ ~Restoring(p)
        BY <3>6, OrderShape, ProcessFields DEF Holding, Restoring
      <4> QED  BY <3>6, <4>1 DEF Keeping
    <3> QED  BY <3>3, <3>4, <3>5, <3>6 DEF LeftBehind
  <2>4. server' # Absent => \A f \in {"items", "relations"} : kept'[f] \subseteq server'[f]
    BY <1>2 DEF Keeping
  <2> QED  BY <2>1, <2>2, <2>3, <2>4 DEF Keeping
<1>6. Making'
  <2> SUFFICES ASSUME NEW q \in Writer, proc'[q].alone
               PROVE  /\ \A f \in File \ Left(proc'[q].todo) :
                             Loads(f)' => proc'[q].made[f] \subseteq live'[f].data
                      /\ \A f \in Holding(proc'[q]) \ proc'[q].bad :
                             proc'[q].made[f] \subseteq proc'[q].mem[f]
                      /\ proc'[q].pc = "write" =>
                             LET f == Head(proc'[q].todo) IN tmp'[f] # Absent => tmp'[f].by = {q}
                      /\ proc'[q].pc = "fill" => live'[Head(proc'[q].todo)].is = "cut"
    BY DEF Making
  <2>1. q # p /\ proc'[q] = proc[q]  BY <1>1, IdleFields
  <2>2. ASSUME proc[q].pc = "write", tmp'[Head(proc[q].todo)] # Absent
        PROVE  tmp'[Head(proc[q].todo)].by = {q}
    <3> DEFINE f == Head(proc[q].todo)
    <3>1. f \in File  BY <2>2, OrderShape, ProcessFields
    <3>2. tmp[f] # Absent => tmp[f].by = {q}  BY <2>1, <2>2 DEF Making
    <3> HIDE DEF f
    <3>3. tmp[f] # Absent /\ tmp'[f].by = tmp[f].by \ {p}  BY <2>2, <3>1 DEF LeftBehind, f
    <3> QED  BY <2>1, <3>2, <3>3 DEF f
  <2> QED  BY <1>2, <2>1, <2>2 DEF Making, Loads
<1>7. Numbers'
  <2>1. \A q \in Writer : proc'[q].alone => proc[q].alone /\ proc'[q] = proc[q]
    BY <1>1, IdleFields
  <2> QED  BY <1>2, <2>1 DEF Numbers
<1>8. Copying'  BY <1>2 DEF Copying, Brings
<1> QED  BY <1>3, <1>4, <1>5, <1>6, <1>7, <1>8 DEF LocalInv

\* A step of a save or of a restore: the .tmp files of the others stay theirs, and what
\* is kept stays in the files.
Sound(p) ==
    /\ live' \in [File -> Saved(ops)]
    /\ \A f \in File : Loads(f)' => kept[f] \subseteq live'[f].data
    /\ DOMAIN tmp' = File
    /\ \A f \in File : tmp'[f] # Absent =>
           /\ tmp'[f] \in Temp(ops)
           /\ tmp'[f].by \subseteq {p} \/ (tmp[f] # Absent /\ tmp'[f].by \subseteq tmp[f].by \cup {p})
           /\ tmp'[f].by = {} =>
                  tmp[f] # Absent /\ tmp[f].by = {} /\ tmp'[f].data = tmp[f].data

\* What a process that goes on must have.
GoesOn(p, state) ==
    /\ state \in Process(ops) /\ state.pc # "idle" /\ state.todo # <<>>
    /\ state.alone = proc[p].alone /\ state.op = proc[p].op /\ state.made = proc[p].made
    /\ IF state.pc \in {"cut", "fill"} THEN Restoring(p)
       ELSE state.bad = {} /\ \A f \in Holding(state) : kept[f] \subseteq state.mem[f]
    /\ \A f \in File : tmp'[f] # Absent /\ p \in tmp'[f].by
                           => state.pc = "write" /\ f = Head(state.todo)
    /\ state.pc = "write" =>
           LET f == Head(state.todo)
           IN  tmp'[f] # Absent /\ tmp'[f].by = {} => kept[f] \subseteq tmp'[f].data
    /\ state.alone =>
           /\ \A f \in File \ Left(state.todo) :
                  Loads(f)' => state.made[f] \subseteq live'[f].data
           /\ \A f \in Holding(state) \ state.bad : state.made[f] \subseteq state.mem[f]
           /\ state.pc = "write" =>
                  LET f == Head(state.todo) IN tmp'[f] # Absent => tmp'[f].by = {p}
           /\ state.pc = "fill" => live'[Head(state.todo)].is = "cut"

\* One step of one process keeps the invariant.
LEMMA StepInv ==
    ASSUME LocalInv, NEW p \in Writer, proc[p].pc # "idle", NEW state, GoesOn(p, state),
           proc' = [proc EXCEPT ![p] = state], Sound(p),
           UNCHANGED <<quarantine, server, suspect, archive, ops, history>>
    PROVE  LocalInv'
<1> TypeInv /\ Turns /\ Keeping /\ Making /\ Numbers /\ Copying  BY DEF LocalInv
<1> state \in Process(ops)  BY DEF GoesOn
<1>1. /\ proc' \in [Writer -> Process(ops)] /\ proc'[p] = state
      /\ \A q \in Writer \ {p} : proc'[q] = proc[q]
  BY Updated
<1>2. /\ quarantine' = quarantine /\ snapshots' = snapshots /\ server' = server
      /\ suspect' = suspect
      /\ latest' = latest /\ backup' = backup /\ stamp' = stamp /\ ops' = ops
      /\ kept' = kept /\ fresh' = fresh
  BY DEF archive, history
<1>3. \A q \in Writer \ {p} : ~proc[q].alone  BY DEF Turns
<1>4. TypeInv'
  <2>1. \A q \in Writer : (proc'[q].pc = "idle") = (proc'[q].todo = <<>>)
    <3> TAKE q \in Writer
    <3>1. CASE q = p  BY <1>1, <3>1 DEF GoesOn
    <3>2. CASE q # p  BY <1>1, <3>2, ProcessFields
    <3> QED  BY <3>1, <3>2
  <2>2. /\ live' \in [File -> Saved(ops)] /\ DOMAIN tmp' = File
        /\ \A f \in File : tmp'[f] # Absent => tmp'[f] \in Temp(ops)
    BY DEF Sound
  <2> QED  BY <1>1, <1>2, <2>1, <2>2 DEF TypeInv
<1>5. Turns'
  <2>1. proc'[Server].pc # "idle" => server' # Absent
    BY <1>1, <1>2 DEF Turns, Writer
  <2>2. ASSUME NEW q \in Writer, proc'[q].alone
        PROVE  /\ proc'[q].pc # "idle" /\ \A r \in Writer \ {q} : proc'[r].pc = "idle"
               /\ q # Server => server' = Absent
               /\ proc'[q].op # 0
    <3>1. q = p  BY <1>1, <1>3, <2>2
    <3>2. /\ proc[p].alone /\ state.pc # "idle" /\ state.op = proc[p].op
      BY <1>1, <2>2, <3>1 DEF GoesOn
    <3> QED  BY <1>1, <1>2, <3>1, <3>2 DEF Turns
  <2>3. ASSUME NEW q \in Writer, Restoring(q)'  PROVE kept' = NoFacts
    <3>1. CASE q = p
      <4>1. Restoring(p)  BY <1>1, <2>3, <3>1 DEF Restoring, GoesOn
      <4> QED  BY <1>2, <4>1 DEF Turns
    <3>2. CASE q # p  BY <1>1, <1>2, <2>3, <3>2 DEF Turns, Restoring
    <3> QED  BY <3>1, <3>2
  <2>4. ASSUME NEW q \in Writer, ~Restoring(q)'  PROVE proc'[q].bad = {}
    <3>1. CASE q = p  BY <1>1, <2>4, <3>1 DEF Restoring, GoesOn
    <3>2. CASE q # p  BY <1>1, <2>4, <3>2 DEF Turns, Restoring
    <3> QED  BY <3>1, <3>2
  <2>5. ASSUME NEW f \in File, tmp'[f] # Absent, NEW q \in tmp'[f].by
        PROVE  proc'[q].pc = "write" /\ f = Head(proc'[q].todo)
    <3>1. CASE q = p  BY <1>1, <2>5, <3>1 DEF GoesOn
    <3>2. CASE q # p
      <4>1. tmp[f] # Absent /\ q \in tmp[f].by  BY <2>5, <3>2 DEF Sound
      <4>2. q \in Writer  BY <4>1 DEF TypeInv, Temp
      <4> QED  BY <1>1, <3>2, <4>1, <4>2 DEF Turns
    <3> QED  BY <3>1, <3>2
  <2> QED  BY <2>1, <2>2, <2>3, <2>4, <2>5 DEF Turns
<1>6. Keeping'
  <2>1. \A f \in File : Loads(f)' => kept'[f] \subseteq live'[f].data
    BY <1>2 DEF Sound
  <2>2. ASSUME NEW q \in Writer, ~Restoring(q)', NEW f \in Holding(proc'[q])
        PROVE  kept'[f] \subseteq proc'[q].mem[f]
    <3>1. CASE q = p  BY <1>1, <1>2, <2>2, <3>1 DEF Restoring, GoesOn
    <3>2. CASE q # p  BY <1>1, <1>2, <2>2, <3>2 DEF Keeping, Restoring
    <3> QED  BY <3>1, <3>2
  <2>3. ASSUME NEW q \in Writer, proc'[q].pc = "write",
               tmp'[Head(proc'[q].todo)] # Absent, tmp'[Head(proc'[q].todo)].by = {}
        PROVE  kept'[Head(proc'[q].todo)] \subseteq tmp'[Head(proc'[q].todo)].data
    <3>1. CASE q = p  BY <1>1, <1>2, <2>3, <3>1 DEF GoesOn
    <3>2. CASE q # p
      <4>1. proc'[q] = proc[q] /\ proc[q].pc = "write"  BY <1>1, <2>3, <3>2
      <4> DEFINE f == Head(proc[q].todo)
      <4>2. f \in File  BY <4>1, OrderShape, ProcessFields
      <4>3. tmp'[f] # Absent /\ tmp'[f].by = {}  BY <2>3, <4>1
      <4>4. tmp[f] # Absent /\ tmp[f].by = {} /\ tmp'[f].data = tmp[f].data
        <5> HIDE DEF f
        <5> QED  BY <4>2, <4>3 DEF Sound
      <4>5. kept[f] \subseteq tmp[f].data  BY <4>1, <4>4 DEF Keeping
      <4> QED  BY <1>2, <4>1, <4>4, <4>5
    <3> QED  BY <3>1, <3>2
  <2>4. server' # Absent => \A f \in {"items", "relations"} : kept'[f] \subseteq server'[f]
    BY <1>2 DEF Keeping
  <2> QED  BY <2>1, <2>2, <2>3, <2>4 DEF Keeping
<1>7. Making'
  <2>1. \A q \in Writer : proc'[q].alone => q = p  BY <1>1, <1>3
  <2> SUFFICES ASSUME state.alone
               PROVE  /\ \A f \in File \ Left(state.todo) :
                             Loads(f)' => state.made[f] \subseteq live'[f].data
                      /\ \A f \in Holding(state) \ state.bad :
                             state.made[f] \subseteq state.mem[f]
                      /\ state.pc = "write" =>
                             LET f == Head(state.todo) IN tmp'[f] # Absent => tmp'[f].by = {p}
                      /\ state.pc = "fill" => live'[Head(state.todo)].is = "cut"
    BY <1>1, <2>1 DEF Making
  <2> QED  BY DEF GoesOn
<1>8. Numbers'
  <2>1. ASSUME NEW q \in Writer, proc'[q].alone
        PROVE  proc[q].alone /\ proc'[q].made = proc[q].made
    <3>1. q = p  BY <1>1, <1>3, <2>1
    <3> QED  BY <1>1, <2>1, <3>1 DEF GoesOn
  <2>2. ASSUME NEW q \in Writer, proc'[q].alone
        PROVE  /\ Edged(proc'[q].made)
               /\ Numbered([f \in File |-> kept'[f] \cup proc'[q].made[f]])
    BY <1>2, <2>1, <2>2 DEF Numbers
  <2>3. /\ \A n \in fresh' :
               n.file \in File /\ [op |-> n.op, id |-> n.id, new |-> TRUE] \in kept'[n.file]
        /\ Numbered(kept') /\ Edged(kept')
    BY <1>2 DEF Numbers
  <2>4. /\ \A s \in DOMAIN snapshots' : Numbered(snapshots'[s].held) /\ Edged(snapshots'[s].held)
        /\ backup' # Absent => Numbered(backup'.held) /\ Edged(backup'.held)
    BY <1>2 DEF Numbers
  <2> QED  BY <2>2, <2>3, <2>4 DEF Numbers
<1>9. Copying'  BY <1>2 DEF Copying, Brings
<1> QED  BY <1>4, <1>5, <1>6, <1>7, <1>8, <1>9 DEF LocalInv

\* The last step of a save or of a restore: what a command that was alone made is
\* in the files, and is kept from now on.
LEMMA SucceedInv ==
    ASSUME LocalInv, NEW p \in Writer, proc[p].pc # "idle", Succeed(p), Sound(p),
           \A f \in File : tmp'[f] # Absent => p \notin tmp'[f].by,
           proc[p].alone =>
               \A f \in File : Loads(f)' => proc[p].made[f] \subseteq live'[f].data,
           UNCHANGED <<quarantine, suspect, archive, ops>>
    PROVE  LocalInv'
<1> TypeInv /\ Turns /\ Keeping /\ Making /\ Numbers /\ Copying  BY DEF LocalInv
<1> DEFINE made == proc[p].made
<1>1. /\ proc' \in [Writer -> Process(ops)] /\ proc'[p] = Idle
      /\ \A q \in Writer \ {p} : proc'[q] = proc[q]
  BY IdleFields, Updated DEF Succeed
<1>2. /\ quarantine' = quarantine /\ snapshots' = snapshots /\ suspect' = suspect
      /\ latest' = latest /\ backup' = backup /\ stamp' = stamp /\ ops' = ops
  BY DEF archive
<1>3. \A q \in Writer : proc'[q].pc # "idle" => q # p /\ proc'[q] = proc[q]
  BY <1>1, IdleFields
<1>4. \A q \in Writer : ~proc'[q].alone
  BY <1>1, IdleFields DEF Turns
<1>5. made \in Tables(ops) /\ kept \in Tables(ops)  BY ProcessFields DEF TypeInv
<1>6. kept' \in Tables(ops) /\ \A f \in File : kept'[f] = kept[f] \cup
                                    (IF proc[p].alone THEN made[f] ELSE {})
  BY <1>5 DEF Succeed, Tables
<1>7. proc[p].alone => \A q \in Writer : proc'[q].pc = "idle"
  BY <1>1, IdleFields DEF Turns
<1>8. (\E q \in Writer : proc'[q].pc # "idle") => kept' = kept
  BY <1>7 DEF Succeed
<1>9. server' # Absent => server # Absent /\ server' \in Tables(ops)
                          /\ \A f \in File : server[f] \subseteq server'[f]
  <2>1. p = Server => server # Absent  BY DEF Turns
  <2>2. server # Absent => server \in Tables(ops)  BY DEF TypeInv
  <2>3. CASE Stopping(p)  BY <2>3 DEF Succeed
  <2>4. CASE ~Stopping(p) /\ p = Server
    <3> DEFINE more == [f \in File |-> server[f] \cup
                                       (IF f = "experiments" THEN {} ELSE made[f])]
    <3>1. server' = more  BY <2>4 DEF Succeed
    <3>2. more \in Tables(ops) /\ \A f \in File : server[f] \subseteq more[f]
      BY <1>5, <2>1, <2>2, <2>4 DEF Tables
    <3> HIDE DEF more
    <3> QED  BY <2>1, <2>4, <3>1, <3>2
  <2>5. CASE p # Server
    <3>1. server' = server  BY <2>5 DEF Succeed, Stopping
    <3> QED  BY <2>2, <3>1
  <2> QED  BY <2>3, <2>4, <2>5
<1>10. TypeInv'
  <2>1. \A q \in Writer : (proc'[q].pc = "idle") = (proc'[q].todo = <<>>)
    <3> TAKE q \in Writer
    <3>1. CASE q = p  BY <1>1, <3>1, IdleFields
    <3>2. CASE q # p  BY <1>1, <3>2, ProcessFields
    <3> QED  BY <3>1, <3>2
  <2>2. /\ live' \in [File -> Saved(ops)] /\ DOMAIN tmp' = File
        /\ \A f \in File : tmp'[f] # Absent => tmp'[f] \in Temp(ops)
    BY DEF Sound
  <2> QED  BY <1>1, <1>2, <1>6, <1>9, <2>1, <2>2 DEF TypeInv
<1>11. Turns'
  <2>1. proc'[Server].pc # "idle" => server' # Absent
    <3> SUFFICES ASSUME proc'[Server].pc # "idle"  PROVE server' # Absent
      OBVIOUS
    <3>1. p # Server /\ proc[Server].pc # "idle"  BY <1>3 DEF Writer
    <3> QED  BY <3>1 DEF Turns, Succeed, Stopping
  <2>2. ASSUME NEW q \in Writer, Restoring(q)'  PROVE kept' = NoFacts
    <3>1. proc'[q].pc # "idle" /\ proc'[q] = proc[q]  BY <1>3, <2>2 DEF Restoring
    <3> QED  BY <1>8, <2>2, <3>1 DEF Restoring, Turns
  <2>3. ASSUME NEW q \in Writer, ~Restoring(q)'  PROVE proc'[q].bad = {}
    BY <1>1, <2>3, IdleFields DEF Turns, Restoring
  <2>4. ASSUME NEW f \in File, tmp'[f] # Absent, NEW q \in tmp'[f].by
        PROVE  proc'[q].pc = "write" /\ f = Head(proc'[q].todo)
    <3>1. q # p /\ tmp[f] # Absent /\ q \in tmp[f].by  BY <2>4 DEF Sound
    <3>2. q \in Writer  BY <3>1 DEF TypeInv, Temp
    <3> QED  BY <1>1, <3>1, <3>2 DEF Turns
  <2> QED  BY <1>4, <2>1, <2>2, <2>3, <2>4 DEF Turns
<1>12. Keeping'
  <2>1. \A f \in File : Loads(f)' => kept'[f] \subseteq live'[f].data
    BY <1>6 DEF Sound
  <2>2. ASSUME NEW q \in Writer, ~Restoring(q)', NEW f \in Holding(proc'[q])
        PROVE  kept'[f] \subseteq proc'[q].mem[f]
    <3>1. proc'[q].pc # "idle"
      <4>1. Left(Idle.todo) = {}  BY IdleFields, OrderShape
      <4>2. Holding(Idle) = {}  BY <4>1 DEF Holding
      <4>3. q # p  BY <1>1, <2>2, <4>2
      <4>4. proc'[q] = proc[q]  BY <1>1, <4>3
      <4> QED  BY <2>2, <4>4, OrderShape, ProcessFields DEF Holding
    <3> QED  BY <1>3, <1>8, <2>2, <3>1 DEF Keeping, Restoring
  <2>3. ASSUME NEW q \in Writer, proc'[q].pc = "write",
               tmp'[Head(proc'[q].todo)] # Absent, tmp'[Head(proc'[q].todo)].by = {}
        PROVE  kept'[Head(proc'[q].todo)] \subseteq tmp'[Head(proc'[q].todo)].data
    <3>1. proc'[q] = proc[q] /\ proc[q].pc = "write"  BY <1>3, <2>3
    <3> DEFINE f == Head(proc[q].todo)
    <3>2. f \in File  BY <3>1, OrderShape, ProcessFields
    <3>3. tmp'[f] # Absent /\ tmp'[f].by = {}  BY <2>3, <3>1
    <3>4. tmp[f] # Absent /\ tmp[f].by = {} /\ tmp'[f].data = tmp[f].data
      <4> HIDE DEF f
      <4> QED  BY <3>2, <3>3 DEF Sound
    <3>5. kept[f] \subseteq tmp[f].data  BY <3>1, <3>4 DEF Keeping
    <3> QED  BY <1>8, <2>3, <3>1, <3>4, <3>5
  <2>4. ASSUME server' # Absent, NEW f \in {"items", "relations"}
        PROVE  kept'[f] \subseteq server'[f]
    <3>1. f \in File /\ f # "experiments"  BY Files
    <3>2. server # Absent /\ kept[f] \subseteq server[f] /\ server[f] \subseteq server'[f]
      BY <1>9, <2>4, <3>1 DEF Keeping
    <3>3. CASE ~proc[p].alone  BY <1>6, <3>1, <3>2, <3>3
    <3>4. CASE proc[p].alone
      <4>1. p = Server /\ ~Stopping(p)  BY <3>2, <3>4 DEF Turns, Stopping
      <4>2. made[f] \subseteq server'[f]  BY <3>1, <4>1 DEF Succeed
      <4> QED  BY <1>6, <3>1, <3>2, <4>2
    <3> QED  BY <3>3, <3>4
  <2> QED  BY <2>1, <2>2, <2>3, <2>4 DEF Keeping
<1>13. Making'  BY <1>4 DEF Making
<1>14. Numbers'
  <2>1. ASSUME NEW n \in fresh'
        PROVE  n.file \in File /\ [op |-> n.op, id |-> n.id, new |-> TRUE] \in kept'[n.file]
    <3>1. CASE n \in fresh  BY <1>6, <3>1 DEF Numbers
    <3>2. CASE n \notin fresh
      <4>1. proc[p].alone
            /\ n \in UNION {{[file |-> f, op |-> e.op, id |-> e.id] :
                                e \in {d \in made[f] : d.new}} : f \in File}
        BY <3>2 DEF Succeed
      <4> PICK f \in File : \E e \in made[f] :
                 e.new /\ n = [file |-> f, op |-> e.op, id |-> e.id]
        BY <4>1
      <4>2. PICK e \in made[f] : e.new /\ n = [file |-> f, op |-> e.op, id |-> e.id]
        OBVIOUS
      <4>3. e \in Facts(ops)  BY <1>5, <4>2 DEF Tables
      <4>4. e = [op |-> n.op, id |-> n.id, new |-> TRUE]  BY <4>2, <4>3 DEF Facts
      <4>5. n.file = f  BY <4>2
      <4>6. e \in kept'[f]  BY <1>6, <4>1, <4>2
      <4> QED  BY ONLY <4>4, <4>5, <4>6, f \in File
    <3> QED  BY <3>1, <3>2
  <2>2. Numbered(kept')
    <3>1. CASE proc[p].alone
      <4>1. Numbered([f \in File |-> kept[f] \cup made[f]])  BY <3>1 DEF Numbers
      <4> QED  BY <1>6, <3>1, <4>1 DEF Numbered
    <3>2. CASE ~proc[p].alone  BY <3>2 DEF Succeed, Numbers
    <3> QED  BY <3>1, <3>2
  <2>3. Edged(kept')
    <3>1. proc[p].alone => Edged(made)  BY DEF Numbers
    <3> QED  BY <1>6, <3>1, Files DEF Numbers, Edged
  <2>4. /\ \A s \in DOMAIN snapshots' : Numbered(snapshots'[s].held) /\ Edged(snapshots'[s].held)
        /\ backup' # Absent => Numbered(backup'.held) /\ Edged(backup'.held)
    BY <1>2 DEF Numbers
  <2> QED  BY <1>4, <2>1, <2>2, <2>3, <2>4 DEF Numbers
<1>15. Copying'  BY <1>2 DEF Copying, Brings
<1> QED  BY <1>10, <1>11, <1>12, <1>13, <1>14, <1>15 DEF LocalInv

\* What is left of a save after its next file, and what of it is already there.
LEMMA NextFile ==
    ASSUME TypeInv, NEW p \in Writer, proc[p].pc # "idle"
    PROVE  LET todo == proc[p].todo
               f == Head(todo)
           IN  /\ todo \in Orders \ {<<>>} /\ f \in File /\ f \in Left(todo)
               /\ Tail(todo) \in Orders /\ Left(Tail(todo)) = Left(todo) \ {f}
               /\ (Len(todo) = 1) = (Tail(todo) = <<>>)
BY OrderShape, ProcessFields

\* A command that cannot read the relations ends; one that can adds its edge to them.
LEMMA LoadEdgesStep ==
    ASSUME LocalInv, NEW c \in Cli, LoadEdges(c)
    PROVE  LocalInv'
<1> TypeInv /\ Turns /\ Keeping /\ Making  BY DEF LocalInv
<1>1. /\ proc[c].pc = "edges"
      /\ UNCHANGED <<disk, quarantine, server, suspect, archive, ops, history>>
  BY DEF LoadEdges, noted
<1>2. c \in Writer  BY DEF Writer
<1>3. live' = live /\ tmp' = tmp /\ suspect' = suspect /\ suspect \subseteq File
  BY <1>1 DEF disk, TypeInv
<1>4. CASE ~Loads("relations")
  <2>1. proc' = [proc EXCEPT ![c] = Idle]  BY <1>4 DEF LoadEdges
  <2>2. LeftBehind(c)
    <3>1. DOMAIN tmp = File /\ \A f \in File : tmp[f] # Absent => tmp[f] \in Temp(ops)
      BY DEF TypeInv
    <3>2. \A f \in File : tmp[f] # Absent => c \notin tmp[f].by  BY <1>1 DEF Turns
    <3> QED  BY <1>3, <3>1, <3>2 DEF LeftBehind
  <2> QED  BY <1>1, <1>2, <1>3, <2>1, <2>2, EndedInv DEF disk
<1>5. CASE Loads("relations")
  <2> DEFINE r == proc[c]
             edges == live["relations"].data \cup r.made["relations"]
             state == [r EXCEPT !.pc = "open", !.mem["relations"] = edges]
  <2>1. proc' = [proc EXCEPT ![c] = state]  BY <1>5 DEF LoadEdges
  <2>2. r \in Process(ops)  BY <1>2, ProcessFields
  <2>3. edges \in SUBSET Facts(ops)
    BY <1>2, Files, ProcessFields DEF TypeInv, Saved, Tables
  <2> HIDE DEF r, edges
  <2>4. /\ state \in Process(ops) /\ state.pc = "open" /\ state.mem["relations"] = edges
        /\ \A f \in File \ {"relations"} : state.mem[f] = r.mem[f]
        /\ state.todo = r.todo /\ state.alone = r.alone /\ state.op = r.op
        /\ state.made = r.made /\ state.bad = r.bad
    BY <2>2, <2>3, Files DEF Process, PC, Tables
  <2> HIDE DEF state
  <2>5. r.todo # <<>> /\ r.bad = {} /\ Left(r.todo) \subseteq File
    BY <1>1, <1>2, OrderShape, ProcessFields DEF Turns, Restoring, r
  <2>6. Holding(state) = Left(r.todo) /\ Holding(r) = Left(r.todo) \ {"relations"}
    BY <1>1, <2>4 DEF Holding, r
  <2>7. \A f \in Holding(state) : kept[f] \subseteq state.mem[f]
    <3> TAKE f \in Holding(state)
    <3>1. CASE f = "relations"
      BY <1>5, <2>4, <3>1, Files DEF Keeping, edges
    <3>2. CASE f # "relations"
      <4>1. kept[f] \subseteq r.mem[f]
        BY <1>1, <1>2, <2>6, <3>2 DEF Keeping, Restoring, r
      <4> QED  BY <2>4, <2>5, <2>6, <3>2, <4>1
    <3> QED  BY <3>1, <3>2
  <2>8. r.alone => \A f \in Holding(state) : r.made[f] \subseteq state.mem[f]
    <3> SUFFICES ASSUME r.alone, NEW f \in Holding(state)
                 PROVE  r.made[f] \subseteq state.mem[f]
      OBVIOUS
    <3>1. CASE f = "relations"  BY <2>4, <3>1 DEF edges
    <3>2. CASE f # "relations"
      <4>1. r.made[f] \subseteq r.mem[f]  BY <1>2, <2>5, <2>6, <3>2 DEF Making, r
      <4> QED  BY <2>4, <2>5, <2>6, <3>2, <4>1
    <3> QED  BY <3>1, <3>2
  <2>9. Sound(c)
    <3>1. \A f \in File : Loads(f)' => kept[f] \subseteq live'[f].data
      BY <1>3 DEF Keeping, Loads
    <3> QED  BY <1>3, <3>1 DEF Sound, TypeInv
  <2>10. GoesOn(c, state)
    <3>1. \A f \in File : tmp[f] # Absent => c \notin tmp[f].by  BY <1>1 DEF Turns
    <3>2. r.alone => \A f \in File \ Left(state.todo) :
                         Loads(f)' => state.made[f] \subseteq live'[f].data
      BY <1>2, <1>3, <2>4 DEF Making, Loads, r
    <3>3. state.alone = proc[c].alone /\ state.op = proc[c].op /\ state.made = proc[c].made
      BY <2>4 DEF r
    <3> QED  BY <1>3, <2>4, <2>5, <2>7, <2>8, <3>1, <3>2, <3>3 DEF GoesOn
  <2> QED  BY <1>1, <1>2, <2>1, <2>9, <2>10, StepInv
<1> QED  BY <1>4, <1>5

\* A killed process leaves what it was writing.
LEMMA KilledStep ==
    ASSUME LocalInv, NEW p \in Writer, Killed(p)
    PROVE  LocalInv'
<1> TypeInv /\ Turns  BY DEF LocalInv
<1>1. LeftBehind(p)
  <2> DEFINE mine(f) == f \in Filling(p)
  <2>1. DOMAIN tmp' = File  BY DEF Killed
  <2>2. ASSUME NEW f \in File, tmp'[f] # Absent
        PROVE  /\ tmp[f] # Absent /\ tmp'[f] \in Temp(ops)
               /\ tmp'[f].by = tmp[f].by \ {p}
               /\ \/ p \notin tmp[f].by /\ tmp'[f].data = tmp[f].data
                  \/ /\ proc[p].pc = "write" /\ f = Head(proc[p].todo)
                     /\ tmp'[f].data = proc[p].mem[f]
    <3>1. CASE mine(f)
      <4>1. tmp'[f] = [tmp[f] EXCEPT !.by = tmp[f].by \ {p}, !.data = proc[p].mem[f]]
        BY <3>1 DEF Killed
      <4>2. proc[p].pc = "write" /\ f = Head(proc[p].todo) /\ tmp[f] # Absent
        BY <3>1 DEF Filling
      <4>3. tmp[f] \in Temp(ops) /\ proc[p].mem[f] \in SUBSET Facts(ops)
        BY <4>2, ProcessFields DEF TypeInv, Tables
      <4>4. /\ tmp'[f] \in Temp(ops) /\ tmp'[f].by = tmp[f].by \ {p}
            /\ tmp'[f].data = proc[p].mem[f]
        BY <4>1, <4>3 DEF Temp
      <4> QED  BY <4>2, <4>4
    <3>2. CASE ~mine(f)
      <4>1. tmp'[f] = tmp[f]  BY <3>2 DEF Killed
      <4>2. tmp[f] # Absent /\ tmp[f] \in Temp(ops)  BY <2>2, <4>1 DEF TypeInv
      <4>3. p \notin tmp[f].by  BY <3>2, <4>2 DEF Turns, Filling
      <4> QED  BY <4>1, <4>2, <4>3
    <3> QED  BY <3>1, <3>2
  <2> QED  BY <2>1, <2>2 DEF LeftBehind
<1>2. /\ proc' = [proc EXCEPT ![p] = Idle] /\ suspect' \subseteq File
      /\ server' = server \/ (p = Server /\ server' = Absent)
      /\ UNCHANGED <<live, quarantine, archive, ops, history>>
  BY DEF Killed, TypeInv
<1> QED  BY <1>1, <1>2, EndedInv

\* A .tmp that is opened belongs to those that still write it and to the process.
LEMMA OpenStep ==
    ASSUME LocalInv, NEW p \in Writer, Open(p)
    PROVE  LocalInv'
<1> TypeInv /\ Turns /\ Keeping /\ Making  BY DEF LocalInv
<1> DEFINE r == proc[p]
           f == Head(r.todo)
           others == IF tmp[f] = Absent THEN {} ELSE tmp[f].by
           opened == [by |-> others \cup {p}, data |-> {}, newer |-> TRUE]
           state == [r EXCEPT !.pc = "write"]
<1>1. /\ r.pc = "open" /\ tmp' = [tmp EXCEPT ![f] = opened]
      /\ proc' = [proc EXCEPT ![p] = state] /\ live' = live
      /\ UNCHANGED <<quarantine, server, suspect, archive, ops, history>>
  BY DEF Open
<1>2. r \in Process(ops) /\ r.pc # "idle"  BY <1>1, ProcessFields
<1>3. r.todo # <<>> /\ f \in File /\ f \in Left(r.todo)  BY <1>2, NextFile
<1>4. r.bad = {}  BY <1>1 DEF Turns, Restoring
<1>5. /\ state \in Process(ops) /\ state.pc = "write" /\ state.todo = r.todo
      /\ state.mem = r.mem /\ state.made = r.made /\ state.alone = r.alone
      /\ state.op = r.op /\ state.bad = r.bad
  BY <1>2 DEF Process, PC
<1>6. DOMAIN tmp = File /\ \A g \in File : tmp[g] # Absent => tmp[g] \in Temp(ops)
  BY DEF TypeInv
<1>7. \A g \in File : tmp[g] # Absent => p \notin tmp[g].by  BY <1>1 DEF Turns
<1>8. others \subseteq Writer /\ opened \in Temp(ops) /\ p \in opened.by
      /\ opened.by = others \cup {p}
  BY <1>3, <1>6 DEF Temp
<1>9. r.alone => others = {}
  <2> SUFFICES ASSUME r.alone, tmp[f] # Absent, NEW q \in tmp[f].by  PROVE FALSE
    OBVIOUS
  <2>1. q \in Writer /\ proc[q].pc = "write"  BY <1>3, <1>6 DEF Turns, Temp
  <2> QED  BY <1>1, <2>1 DEF Turns
<1>10. /\ DOMAIN tmp' = File /\ tmp'[f] = opened /\ \A g \in File \ {f} : tmp'[g] = tmp[g]
  BY <1>1, <1>3, <1>6
<1>11. tmp[f] = Absent => others = {}  OBVIOUS
<1>12. tmp[f] # Absent => others = tmp[f].by  OBVIOUS
<1>13. Holding(state) = Left(r.todo) /\ Holding(r) = Left(r.todo)
  BY <1>1, <1>5 DEF Holding
<1>14. f = Head(state.todo)  BY <1>5
<1> HIDE DEF f, others, opened, state
<1>15. Sound(p)
  <2>1. live' \in [File -> Saved(ops)]
        /\ \A g \in File : Loads(g)' => kept[g] \subseteq live'[g].data
    BY <1>1 DEF TypeInv, Keeping, Loads
  <2>2. ASSUME NEW g \in File, tmp'[g] # Absent
        PROVE  /\ tmp'[g] \in Temp(ops)
               /\ tmp'[g].by \subseteq {p}
                  \/ (tmp[g] # Absent /\ tmp'[g].by \subseteq tmp[g].by \cup {p})
               /\ tmp'[g].by = {} =>
                      tmp[g] # Absent /\ tmp[g].by = {} /\ tmp'[g].data = tmp[g].data
    <3>1. CASE g = f  BY <1>8, <1>10, <1>11, <1>12, <3>1
    <3>2. CASE g # f  BY <1>6, <1>10, <2>2, <3>2
    <3> QED  BY <3>1, <3>2
  <2> QED  BY <1>10, <2>1, <2>2 DEF Sound
<1>16. GoesOn(p, state)
  <2>1. \A g \in Holding(state) : kept[g] \subseteq state.mem[g]
    BY <1>1, <1>5, <1>13 DEF Keeping, Restoring
  <2>2. \A g \in File : tmp'[g] # Absent /\ p \in tmp'[g].by => g = f
    BY <1>7, <1>10
  <2>3. r.alone => /\ \A g \in File \ Left(state.todo) :
                          Loads(g)' => state.made[g] \subseteq live'[g].data
                   /\ \A g \in Holding(state) \ state.bad : state.made[g] \subseteq state.mem[g]
    BY <1>1, <1>5, <1>13 DEF Making, Loads
  <2>4. r.alone => tmp'[f].by = {p}  BY <1>8, <1>9, <1>10
  <2>5. tmp'[f].by # {}  BY <1>8, <1>10
  <2> HIDE DEF r
  <2>6. state.alone = proc[p].alone /\ state.op = proc[p].op /\ state.made = proc[p].made
    BY <1>5 DEF r
  <2> QED  BY <1>3, <1>4, <1>5, <1>14, <2>1, <2>2, <2>3, <2>4, <2>5, <2>6 DEF GoesOn
<1> QED  BY <1>1, <1>2, <1>15, <1>16, StepInv

\* A process that goes on to its next file.
LEMMA NextFields ==
    ASSUME TypeInv, NEW p \in Writer, proc[p].pc # "idle", Len(proc[p].todo) # 1,
           NEW pc \in {"open", "cut"}
    PROVE  LET r == proc[p]
               state == [r EXCEPT !.pc = pc, !.todo = Tail(r.todo)]
           IN  /\ state \in Process(ops) /\ state.pc = pc /\ state.todo = Tail(r.todo)
               /\ state.todo # <<>> /\ state.mem = r.mem /\ state.made = r.made
               /\ state.alone = r.alone /\ state.op = r.op /\ state.bad = r.bad
               /\ Holding(state) = Left(r.todo) \ {Head(r.todo)}
               /\ Left(state.todo) = Left(r.todo) \ {Head(r.todo)}
<1> DEFINE r == proc[p]
           state == [r EXCEPT !.pc = pc, !.todo = Tail(r.todo)]
<1>1. r \in Process(ops)  BY ProcessFields
<1>2. /\ Tail(r.todo) \in Orders /\ Left(Tail(r.todo)) = Left(r.todo) \ {Head(r.todo)}
      /\ Tail(r.todo) # <<>>
  BY NextFile
<1> HIDE DEF r
<1>3. /\ state \in Process(ops) /\ state.pc = pc /\ state.todo = Tail(r.todo)
      /\ state.mem = r.mem /\ state.made = r.made
      /\ state.alone = r.alone /\ state.op = r.op /\ state.bad = r.bad
  BY <1>1, <1>2 DEF Process, PC
<1> HIDE DEF state
<1>4. Holding(state) = Left(state.todo)  BY <1>3 DEF Holding
<1> QED  BY <1>2, <1>3, <1>4 DEF r, state

\* What a save that goes on has for the files it still has to save.
LEMMA NextSave ==
    ASSUME LocalInv, NEW p \in Writer, proc[p].pc = "write", Len(proc[p].todo) # 1,
           NEW f, f = Head(proc[p].todo), \A g \in File \ {f} : live'[g] = live[g],
           proc[p].alone => (Loads(f)' => proc[p].made[f] \subseteq live'[f].data),
           \A g \in File : tmp'[g] # Absent => p \notin tmp'[g].by
    PROVE  GoesOn(p, [proc[p] EXCEPT !.pc = "open", !.todo = Tail(proc[p].todo)])
<1> TypeInv /\ Turns /\ Keeping /\ Making  BY DEF LocalInv
<1> DEFINE r == proc[p]
           state == [r EXCEPT !.pc = "open", !.todo = Tail(r.todo)]
<1>1. /\ state \in Process(ops) /\ state.pc = "open" /\ state.todo = Tail(r.todo)
      /\ state.todo # <<>> /\ state.mem = r.mem /\ state.made = r.made
      /\ state.alone = r.alone /\ state.op = r.op /\ state.bad = r.bad
      /\ Holding(state) = Left(r.todo) \ {f}
      /\ Left(state.todo) = Left(r.todo) \ {f}
  BY NextFields
<1>2. r.bad = {} /\ Holding(r) = Left(r.todo) /\ f \in File
  BY NextFile DEF Turns, Restoring, Holding
<1>3. \A g \in Left(r.todo) : kept[g] \subseteq r.mem[g]
  BY <1>2 DEF Keeping, Restoring
<1>4. r.alone => \A g \in Left(r.todo) : r.made[g] \subseteq r.mem[g]
  BY <1>2 DEF Making
<1>5. r.alone => \A g \in File \ Left(r.todo) : Loads(g) => r.made[g] \subseteq live[g].data
  BY DEF Making
<1>6. r.alone => \A g \in File \ Left(state.todo) : Loads(g)' => r.made[g] \subseteq live'[g].data
  <2> SUFFICES ASSUME r.alone, NEW g \in File \ Left(state.todo), Loads(g)'
               PROVE  r.made[g] \subseteq live'[g].data
    OBVIOUS
  <2>1. CASE g = f  BY <2>1
  <2>2. CASE g # f
    <3>1. g \notin Left(r.todo) /\ live'[g] = live[g]  BY <1>1, <2>2
    <3> QED  BY <1>5, <3>1 DEF Loads
  <2> QED  BY <2>1, <2>2
<1> HIDE DEF state
<1>7. state.alone = proc[p].alone /\ state.op = proc[p].op /\ state.made = proc[p].made
  BY <1>1
<1>8. GoesOn(p, state)
  <2> HIDE DEF r
  <2> QED  BY <1>1, <1>2, <1>3, <1>4, <1>6, <1>7 DEF GoesOn
<1> QED  BY <1>8 DEF state

\* A save that fails ends, or goes on to the relations when the server stops.
LEMMA FailStep ==
    ASSUME LocalInv, NEW p \in Writer, proc[p].pc = "write",
           tmp[Head(proc[p].todo)] = Absent, Fail(p),
           UNCHANGED <<disk, history, quarantine, suspect, archive, ops>>
    PROVE  LocalInv'
<1> TypeInv /\ Turns /\ Keeping  BY DEF LocalInv
<1>1. live' = live /\ tmp' = tmp /\ suspect' = suspect /\ suspect \subseteq File
  BY DEF disk, TypeInv
<1>2. \A g \in File : tmp[g] # Absent => p \notin tmp[g].by  BY DEF Turns
<1>3. DOMAIN tmp = File /\ \A g \in File : tmp[g] # Absent => tmp[g] \in Temp(ops)
  BY DEF TypeInv
<1>4. CASE Stopping(p) /\ Len(proc[p].todo) = 2
  <2>1. /\ proc' = [proc EXCEPT ![p] = [proc[p] EXCEPT !.pc = "open",
                                                        !.todo = Tail(proc[p].todo)]]
        /\ server' = server
    BY <1>4 DEF Fail
  <2>2. ~proc[p].alone /\ Len(proc[p].todo) # 1  BY <1>4 DEF Turns, Stopping
  <2>3. Sound(p)
    <3>1. live \in [File -> Saved(ops)]  BY DEF TypeInv
    <3>2. \A f \in File : Loads(f)' => kept[f] \subseteq live'[f].data
      BY <1>1 DEF Keeping, Loads
    <3> QED  BY <1>1, <1>3, <3>1, <3>2 DEF Sound
  <2>4. GoesOn(p, [proc[p] EXCEPT !.pc = "open", !.todo = Tail(proc[p].todo)])
    <3>1. PICK f : f = Head(proc[p].todo)  OBVIOUS
    <3> QED  BY <1>1, <1>2, <2>2, <3>1, NextSave
  <2> QED  BY <2>1, <2>3, <2>4, StepInv
<1>5. CASE ~(Stopping(p) /\ Len(proc[p].todo) = 2)
  <2>1. /\ proc' = [proc EXCEPT ![p] = Idle]
        /\ server' = server \/ (p = Server /\ server' = Absent)
    BY <1>5 DEF Fail, Stopping
  <2>2. LeftBehind(p)  BY <1>1, <1>2, <1>3 DEF LeftBehind
  <2> QED  BY <1>1, <2>1, <2>2, EndedInv
<1> QED  BY <1>4, <1>5

\* What a rename leaves holds what is kept, and what a process that is alone made.
LEMMA RenamedFile ==
    ASSUME LocalInv, NEW p \in Writer, proc[p].pc = "write",
           NEW f, f = Head(proc[p].todo), tmp[f] # Absent,
           NEW data \in Filled(f)
    PROVE  /\ f \in File /\ data \in SUBSET Facts(ops) /\ kept[f] \subseteq data
           /\ proc[p].alone => proc[p].made[f] \subseteq data
<1> TypeInv /\ Turns /\ Keeping /\ Making  BY DEF LocalInv
<1>1. f \in File  BY NextFile
<1>2. tmp[f] \in Temp(ops)  BY <1>1 DEF TypeInv
<1>3. ASSUME NEW q \in tmp[f].by
      PROVE  /\ q \in Writer /\ proc[q].pc = "write" /\ f \in Holding(proc[q])
             /\ kept[f] \subseteq proc[q].mem[f] /\ proc[q].mem[f] \in SUBSET Facts(ops)
  <2>1. q \in Writer  BY <1>2 DEF Temp
  <2>2. proc[q].pc = "write" /\ f = Head(proc[q].todo)  BY <1>1 DEF Turns
  <2>3. f \in Holding(proc[q])  BY <2>1, <2>2, NextFile DEF Holding
  <2>4. kept[f] \subseteq proc[q].mem[f]  BY <2>1, <2>2, <2>3 DEF Keeping, Restoring
  <2>5. proc[q].mem[f] \in SUBSET Facts(ops)  BY <1>1, <2>1, ProcessFields DEF Tables
  <2> QED  BY <2>1, <2>2, <2>3, <2>4, <2>5
<1>4. CASE tmp[f].by = {}
  <2>1. data = tmp[f].data  BY <1>4 DEF Filled
  <2>2. kept[f] \subseteq data  BY <1>4, <2>1 DEF Keeping
  <2>3. ~proc[p].alone  BY <1>4 DEF Making
  <2> QED  BY <1>1, <1>2, <2>1, <2>2, <2>3 DEF Temp
<1>5. CASE tmp[f].by # {}
  <2>1. PICK q \in tmp[f].by : data = proc[q].mem[f]  BY <1>5 DEF Filled
  <2>2. proc[p].alone => q = p  BY DEF Making
  <2>3. proc[p].alone => proc[p].made[f] \subseteq proc[p].mem[f]
    BY <1>3, <2>2 DEF Making, Turns, Restoring
  <2> QED  BY <1>1, <1>3, <2>1, <2>2, <2>3
<1> QED  BY <1>4, <1>5

\* The rename of a .tmp, whoever wrote it.
LEMMA RenameStep ==
    ASSUME LocalInv, NEW p \in Writer, Rename(p)
    PROVE  LocalInv'
<1> TypeInv /\ Turns /\ Keeping /\ Making  BY DEF LocalInv
<1> DEFINE r == proc[p]
<1> PICK f : f = Head(r.todo)  OBVIOUS
<1>1. r.pc = "write" /\ UNCHANGED <<quarantine, suspect, archive, ops>>  BY DEF Rename, noted
<1>2. CASE tmp[f] = Absent
  BY <1>1, <1>2, FailStep DEF Rename
<1>3. CASE tmp[f] # Absent
  <2>1. \E is \in Content : \E data \in Filled(f) :
            live' = [live EXCEPT ![f] = [data |-> data, is |-> is]]
    BY <1>3 DEF Rename, Content
  <2>2. PICK is \in Content, data \in Filled(f) :
            live' = [live EXCEPT ![f] = [data |-> data, is |-> is]]
    BY <2>1
  <2>3. tmp' = [tmp EXCEPT ![f] = Absent]  BY <1>3 DEF Rename
  <2>4. /\ f \in File /\ data \in SUBSET Facts(ops) /\ kept[f] \subseteq data
        /\ r.alone => r.made[f] \subseteq data
    BY <1>1, <1>3, RenamedFile
  <2>5. /\ live' \in [File -> Saved(ops)] /\ live'[f].data = data
        /\ \A g \in File \ {f} : live'[g] = live[g]
    BY <2>2, <2>4 DEF TypeInv, Saved, Content
  <2>6. DOMAIN tmp' = File /\ tmp'[f] = Absent /\ \A g \in File \ {f} : tmp'[g] = tmp[g]
    BY <2>3, <2>4 DEF TypeInv
  <2>7. \A g \in File : tmp'[g] # Absent => p \notin tmp'[g].by  BY <2>6 DEF Turns
  <2>8. Sound(p)
    <3>1. \A g \in File : Loads(g)' => kept[g] \subseteq live'[g].data
      BY <2>4, <2>5 DEF Keeping, Loads
    <3>2. \A g \in File : tmp'[g] # Absent => tmp[g] # Absent /\ tmp'[g] = tmp[g]
                                              /\ tmp[g] \in Temp(ops)
      BY <2>6 DEF TypeInv
    <3> QED  BY <2>5, <2>6, <3>1, <3>2 DEF Sound
  <2>9. r.alone => (Loads(f)' => r.made[f] \subseteq live'[f].data)  BY <2>4, <2>5
  <2>10. CASE Len(r.todo) = 1
    <3>1. Succeed(p)  BY <1>3, <2>10 DEF Rename
    <3>2. r.alone => \A g \in File : Loads(g)' => r.made[g] \subseteq live'[g].data
      <4> SUFFICES ASSUME r.alone, NEW g \in File, Loads(g)', g # f
                   PROVE  r.made[g] \subseteq live'[g].data
        BY <2>9
      <4>1. Left(Tail(r.todo)) = Left(r.todo) \ {f} /\ Tail(r.todo) = <<>>
        BY <1>1, <2>10, NextFile
      <4>2. g \notin Left(r.todo)  BY <4>1, OrderShape
      <4> QED  BY <2>5, <4>2 DEF Making, Loads
    <3> QED  BY <1>1, <2>7, <2>8, <3>1, <3>2, SucceedInv
  <2>11. CASE Len(r.todo) # 1
    <3>1. /\ proc' = [proc EXCEPT ![p] = [proc[p] EXCEPT !.pc = "open",
                                                         !.todo = Tail(proc[p].todo)]]
          /\ UNCHANGED <<server, history>>
      BY <1>3, <2>11 DEF Rename
    <3>2. GoesOn(p, [proc[p] EXCEPT !.pc = "open", !.todo = Tail(proc[p].todo)])
      BY <1>1, <2>5, <2>7, <2>9, <2>11, NextSave
    <3> QED  BY <1>1, <2>8, <3>1, <3>2, StepInv
  <2> QED  BY <2>10, <2>11
<1> QED  BY <1>2, <1>3

\* Writing a live file in place leaves its .tmp to those that fill it.
LEMMA InPlaceTmp ==
    ASSUME TypeInv, NEW f \in File, InPlace(f)
    PROVE  /\ DOMAIN tmp' = File
           /\ \A g \in File : tmp'[g] # Absent =>
                  /\ tmp[g] # Absent /\ tmp'[g] \in Temp(ops)
                  /\ tmp'[g].by = tmp[g].by /\ tmp'[g].data = tmp[g].data
<1>1. DOMAIN tmp = File /\ \A g \in File : tmp[g] # Absent => tmp[g] \in Temp(ops)
  BY DEF TypeInv
<1>2. CASE tmp[f] = Absent  BY <1>1, <1>2 DEF InPlace
<1>3. CASE tmp[f] # Absent
  <2>1. PICK later \in BOOLEAN : tmp' = [tmp EXCEPT ![f].newer = later]
    BY <1>3 DEF InPlace
  <2>2. /\ DOMAIN tmp' = File /\ tmp'[f] = [tmp[f] EXCEPT !.newer = later]
        /\ \A g \in File \ {f} : tmp'[g] = tmp[g]
    BY <1>1, <2>1
  <2>3. tmp'[f] \in Temp(ops) /\ tmp'[f].by = tmp[f].by /\ tmp'[f].data = tmp[f].data
    BY <1>1, <1>3, <2>2 DEF Temp
  <2> QED  BY <1>1, <1>3, <2>2, <2>3
<1> QED  BY <1>2, <1>3

\* A restore cuts a file of which nothing is kept meanwhile.
LEMMA CutStep ==
    ASSUME LocalInv, NEW c \in Cli, Cut(c)
    PROVE  LocalInv'
<1> TypeInv /\ Turns /\ Keeping /\ Making  BY DEF LocalInv
<1> DEFINE r == proc[c]
           state == [r EXCEPT !.pc = "fill"]
<1> PICK f : f = Head(r.todo)  OBVIOUS
<1>1. /\ r.pc = "cut" /\ live' = [live EXCEPT ![f] = [data |-> {}, is |-> "cut"]]
      /\ proc' = [proc EXCEPT ![c] = state] /\ InPlace(f)
      /\ UNCHANGED <<quarantine, server, suspect, archive, ops, history>>
  BY DEF Cut
<1>2. c \in Writer  BY DEF Writer
<1>3. r \in Process(ops) /\ r.todo # <<>> /\ f \in File /\ f \in Left(r.todo) /\ r.pc # "idle"
  BY <1>1, <1>2, NextFile, ProcessFields
<1>4. /\ state \in Process(ops) /\ state.pc = "fill" /\ state.todo = r.todo
      /\ state.mem = r.mem /\ state.made = r.made /\ state.alone = r.alone
      /\ state.op = r.op /\ state.bad = r.bad
  BY <1>3 DEF Process, PC
<1>5. live' \in [File -> Saved(ops)] /\ live'[f].is = "cut"
      /\ \A g \in File \ {f} : live'[g] = live[g]
  BY <1>1, <1>3 DEF TypeInv, Saved, Content
<1>6. Holding(state) = Left(r.todo) /\ Holding(r) = Left(r.todo)
  BY <1>1, <1>4 DEF Holding
<1> HIDE DEF state
<1>7. Sound(c)
  <2>1. \A g \in File : kept[g] = {}  BY <1>1, <1>2 DEF Turns, Restoring, NoFacts
  <2> QED  BY <1>1, <1>3, <1>5, <2>1, InPlaceTmp DEF Sound
<1>8. GoesOn(c, state)
  <2>1. \A g \in File : tmp'[g] # Absent => c \notin tmp'[g].by
    BY <1>1, <1>3, InPlaceTmp DEF Turns
  <2>2. r.alone => \A g \in Holding(state) \ state.bad : state.made[g] \subseteq state.mem[g]
    BY <1>2, <1>4, <1>6 DEF Making
  <2>3. r.alone => \A g \in File \ Left(state.todo) :
                       Loads(g)' => state.made[g] \subseteq live'[g].data
    <3> SUFFICES ASSUME r.alone, NEW g \in File \ Left(r.todo), Loads(g)'
                 PROVE  r.made[g] \subseteq live'[g].data
      BY <1>4
    <3>1. live'[g] = live[g]  BY <1>3, <1>5
    <3> QED  BY <1>2, <3>1 DEF Making, Loads
  <2>4. state.alone = proc[c].alone /\ state.op = proc[c].op /\ state.made = proc[c].made
    BY <1>4
  <2>5. Restoring(c)  BY <1>1 DEF Restoring
  <2>6. f = Head(state.todo)  BY <1>4
  <2> HIDE DEF r
  <2> QED  BY <1>1, <1>3, <1>4, <1>5, <2>1, <2>2, <2>3, <2>4, <2>5, <2>6 DEF GoesOn
<1> QED  BY <1>1, <1>2, <1>3, <1>7, <1>8, StepInv

\* What a restore puts in a file has what the snapshot must bring back.
LEMMA FillStep ==
    ASSUME LocalInv, NEW c \in Cli, Fill(c)
    PROVE  LocalInv'
<1> TypeInv /\ Turns /\ Keeping /\ Making  BY DEF LocalInv
<1> DEFINE r == proc[c]
<1> PICK f : f = Head(r.todo)  OBVIOUS
<1> DEFINE filled == [data |-> r.mem[f], is |-> IF f \in r.bad THEN "garbled" ELSE "whole"]
<1>1. /\ r.pc = "fill" /\ UNCHANGED <<quarantine, suspect, archive, ops>>
      /\ live' = IF live[f].is # "cut" THEN live ELSE [live EXCEPT ![f] = filled]
      /\ IF live[f].is # "cut" THEN tmp' = tmp ELSE InPlace(f)
  BY DEF Fill, disk
<1>2. c \in Writer  BY DEF Writer
<1>3. r.pc # "idle" /\ f \in File /\ f \in Left(r.todo)  BY <1>1, <1>2, NextFile
<1>4. filled \in Saved(ops) /\ filled.data = r.mem[f] /\ (filled.is = "whole" => f \notin r.bad)
  <2>1. r.mem[f] \in SUBSET Facts(ops)  BY <1>2, <1>3, ProcessFields DEF Tables
  <2> QED  BY <2>1 DEF Saved, Content
<1> HIDE DEF filled
<1>5. /\ live' \in [File -> Saved(ops)] /\ \A g \in File \ {f} : live'[g] = live[g]
      /\ live'[f] = IF live[f].is # "cut" THEN live[f] ELSE filled
  BY <1>1, <1>3, <1>4 DEF TypeInv
<1>6. /\ DOMAIN tmp' = File
      /\ \A g \in File : tmp'[g] # Absent =>
             /\ tmp[g] # Absent /\ tmp'[g] \in Temp(ops)
             /\ tmp'[g].by = tmp[g].by /\ tmp'[g].data = tmp[g].data
  <2>1. CASE live[f].is = "cut"  BY <1>1, <1>3, <2>1, InPlaceTmp
  <2>2. CASE live[f].is # "cut"  BY <1>1, <2>2 DEF TypeInv
  <2> QED  BY <2>1, <2>2
<1>8. \A g \in File : tmp'[g] # Absent => c \notin tmp'[g].by  BY <1>1, <1>6 DEF Turns
<1>9. Sound(c)
  <2>1. \A g \in File : kept[g] = {}  BY <1>1, <1>2 DEF Turns, Restoring, NoFacts
  <2> QED  BY <1>5, <1>6, <2>1 DEF Sound
<1>10. r.alone => /\ Loads(f)' => r.made[f] \subseteq live'[f].data
                  /\ \A g \in File \ Left(r.todo) : Loads(g)' => r.made[g] \subseteq live'[g].data
  <2> SUFFICES ASSUME r.alone
               PROVE  /\ Loads(f)' => r.made[f] \subseteq live'[f].data
                      /\ \A g \in File \ Left(r.todo) :
                             Loads(g)' => r.made[g] \subseteq live'[g].data
    OBVIOUS
  <2>1. live'[f] = filled  BY <1>1, <1>2, <1>5 DEF Making
  <2>2. f \in Holding(r)  BY <1>1, <1>3 DEF Holding
  <2>3. f \notin r.bad => r.made[f] \subseteq r.mem[f]  BY <1>2, <2>2 DEF Making
  <2>4. Loads(f)' => r.made[f] \subseteq live'[f].data
    BY <1>4, <2>1, <2>3 DEF Loads
  <2>5. ASSUME NEW g \in File \ Left(r.todo), Loads(g)'
        PROVE  r.made[g] \subseteq live'[g].data
    <3>1. live'[g] = live[g]  BY <1>3, <1>5
    <3> QED  BY <1>2, <2>5, <3>1 DEF Making, Loads
  <2> QED  BY <2>4, <2>5
<1>11. Left(Tail(r.todo)) = Left(r.todo) \ {f} /\ ((Len(r.todo) = 1) = (Tail(r.todo) = <<>>))
  BY <1>2, <1>3, NextFile
<1>12. CASE Len(r.todo) = 1
  <2>1. Succeed(c)  BY <1>12 DEF Fill
  <2>2. r.alone => \A g \in File : Loads(g)' => r.made[g] \subseteq live'[g].data
    <3>1. \A g \in File : g # f => g \notin Left(r.todo)  BY <1>11, <1>12, OrderShape
    <3> QED  BY <1>10, <3>1
  <2> QED  BY <1>1, <1>2, <1>3, <1>8, <1>9, <2>1, <2>2, SucceedInv
<1>13. CASE Len(r.todo) # 1
  <2> DEFINE state == [r EXCEPT !.pc = "cut", !.todo = Tail(r.todo)]
  <2>1. proc' = [proc EXCEPT ![c] = state] /\ UNCHANGED <<server, history>>
    BY <1>13 DEF Fill
  <2>2. /\ state \in Process(ops) /\ state.pc = "cut" /\ state.todo = Tail(r.todo)
        /\ state.todo # <<>> /\ state.mem = r.mem /\ state.made = r.made
        /\ state.alone = r.alone /\ state.op = r.op /\ state.bad = r.bad
        /\ Holding(state) = Left(r.todo) \ {f}
        /\ Left(state.todo) = Left(r.todo) \ {f}
    BY <1>2, <1>3, <1>13, NextFields
  <2> HIDE DEF state
  <2>3. GoesOn(c, state)
    <3>1. r.alone => \A g \in File \ Left(state.todo) :
                         Loads(g)' => state.made[g] \subseteq live'[g].data
      BY <1>10, <2>2
    <3>2. r.alone => \A g \in Holding(state) \ state.bad : state.made[g] \subseteq state.mem[g]
      <4>1. Holding(r) = Left(r.todo)  BY <1>1 DEF Holding
      <4> QED  BY <1>2, <2>2, <4>1 DEF Making
    <3>3. state.alone = proc[c].alone /\ state.op = proc[c].op /\ state.made = proc[c].made
      BY <2>2
    <3>4. Restoring(c)  BY <1>1 DEF Restoring
    <3> HIDE DEF r
    <3> QED  BY <1>8, <2>2, <3>1, <3>2, <3>3, <3>4 DEF GoesOn
  <2> QED  BY <1>1, <1>2, <1>3, <1>9, <2>1, <2>3, StepInv
<1> QED  BY <1>12, <1>13

\* A server that starts holds what the files hold, and no .tmp is left.
LEMMA StartServerStep ==
    ASSUME LocalInv, StartServer
    PROVE  LocalInv'
<1> TypeInv /\ Turns /\ Keeping /\ Making /\ Numbers /\ Copying  BY DEF LocalInv
<1>1. /\ server = Absent /\ proc[Server].pc = "idle"
      /\ tmp' = [f \in File |-> Absent]
      /\ server' = IF Loads("items") /\ Loads("relations")
                   THEN [f \in File |-> live[f].data] ELSE Absent
      /\ proc' = [q \in Writer |-> [proc[q] EXCEPT !.alone = FALSE]]
      /\ live' = live /\ ops' = ops /\ kept' = kept /\ fresh' = fresh
      /\ snapshots' = snapshots /\ latest' = latest /\ backup' = backup /\ stamp' = stamp
  BY DEF StartServer, archive, history
<1>2. ASSUME NEW q \in Writer
      PROVE  /\ proc'[q] \in Process(ops) /\ proc'[q].alone = FALSE
             /\ proc'[q].pc = proc[q].pc /\ proc'[q].todo = proc[q].todo
             /\ proc'[q].mem = proc[q].mem /\ proc'[q].bad = proc[q].bad
  <2>1. proc[q] \in Process(ops)  BY ProcessFields
  <2>2. proc'[q] = [proc[q] EXCEPT !.alone = FALSE]  BY <1>1
  <2> QED  BY <2>1, <2>2 DEF Process
<1>3. quarantine' \subseteq SUBSET Facts(ops) /\ suspect' \subseteq File
  <2>1. \A f \in File : tmp[f] # Absent => tmp[f].data \in SUBSET Facts(ops)
    BY DEF TypeInv, Temp
  <2> QED  BY <2>1 DEF StartServer, SetAside, Suspects, TypeInv
<1>4. server' # Absent => /\ server' \in Tables(ops)
                          /\ \A f \in {"items", "relations"} : kept[f] \subseteq server'[f]
  <2> SUFFICES ASSUME server' # Absent
               PROVE  /\ server' \in Tables(ops)
                      /\ \A f \in {"items", "relations"} : kept[f] \subseteq server'[f]
    OBVIOUS
  <2>1. Loads("items") /\ Loads("relations") /\ server' = [f \in File |-> live[f].data]
    BY <1>1
  <2> QED  BY <2>1, Files DEF TypeInv, Saved, Tables, Keeping
<1>5. TypeInv'
  <2>1. proc' \in [Writer -> Process(ops)]  BY <1>1, <1>2
  <2>2. \A q \in Writer : (proc'[q].pc = "idle") = (proc'[q].todo = <<>>)
    BY <1>2, ProcessFields
  <2> QED  BY <1>1, <1>3, <1>4, <2>1, <2>2 DEF TypeInv
<1>6. Turns'
  <2>1. \A q \in Writer : Restoring(q)' = Restoring(q)  BY <1>2 DEF Restoring
  <2>2. proc'[Server].pc = "idle"  BY <1>1, <1>2 DEF Writer
  <2>3. ASSUME NEW q \in Writer
        PROVE  (Restoring(q)' => kept' = NoFacts) /\ (~Restoring(q)' => proc'[q].bad = {})
    <3>1. (Restoring(q) => kept = NoFacts) /\ (~Restoring(q) => proc[q].bad = {})
      BY DEF Turns
    <3>2. Restoring(q)' = Restoring(q) /\ kept' = kept /\ proc'[q].bad = proc[q].bad
      BY <1>1, <1>2, <2>1
    <3> QED  BY ONLY <3>1, <3>2
  <2>4. \A q \in Writer : ~proc'[q].alone  BY <1>2
  <2>5. \A f \in File : tmp'[f] = Absent  BY <1>1
  <2> QED  BY <2>2, <2>3, <2>4, <2>5 DEF Turns
<1>7. Keeping'
  <2>1. \A q \in Writer : Restoring(q)' = Restoring(q) /\ Holding(proc'[q]) = Holding(proc[q])
    BY <1>2 DEF Restoring, Holding
  <2>2. \A f \in File : Loads(f)' => kept'[f] \subseteq live'[f].data
    BY <1>1 DEF Keeping, Loads
  <2>3. \A q \in Writer : ~Restoring(q)' =>
            \A f \in Holding(proc'[q]) : kept'[f] \subseteq proc'[q].mem[f]
    BY <1>1, <1>2, <2>1 DEF Keeping
  <2>4. \A q \in Writer : proc'[q].pc = "write" => tmp'[Head(proc'[q].todo)] = Absent
    BY <1>1, <1>2, NextFile
  <2> QED  BY <1>1, <1>4, <2>2, <2>3, <2>4 DEF Keeping
<1>8. Making'  BY <1>2 DEF Making
<1>9. Numbers'  BY <1>1, <1>2 DEF Numbers
<1>10. Copying'  BY <1>1 DEF Copying, Brings
<1> QED  BY <1>5, <1>6, <1>7, <1>8, <1>9, <1>10 DEF LocalInv
-----------------------------------------------------------------------------
(* The backups *)

\* A backup's step leaves the processes and the files alone.
BackupOnly == UNCHANGED <<live, tmp, quarantine, proc, server, suspect, ops, kept, fresh>>

\* What such a step must keep.
LEMMA BackupInv ==
    ASSUME LocalInv, BackupOnly, stamp' \in Nat, ops + stamp' <= MaxBegun,
           snapshots' \in [DOMAIN snapshots' -> Snapshot(ops)],
           DOMAIN snapshots' \subseteq 1..stamp',
           latest' # Absent => latest' \in DOMAIN snapshots',
           backup' # Absent =>
               /\ stamp' \in DOMAIN snapshots'
               /\ backup' \in [todo : Orders, held : Tables(ops)]
               /\ Left(backup'.todo) = File \ DOMAIN snapshots'[stamp'].files
               /\ backup'.todo \in {COPIED, <<"relations", "experiments">>, <<"experiments">>, <<>>}
               /\ Numbered(backup'.held) /\ Edged(backup'.held)
               /\ Brings(snapshots'[stamp'].files, backup'.held),
           \A s \in DOMAIN snapshots' :
               /\ Numbered(snapshots'[s].held) /\ Edged(snapshots'[s].held)
               /\ Brings(snapshots'[s].files, snapshots'[s].held)
               /\ \A f \in File \ DOMAIN snapshots'[s].files : snapshots'[s].held[f] = {}
    PROVE  LocalInv'
<1> TypeInv /\ Turns /\ Keeping /\ Making /\ Numbers /\ Copying  BY DEF LocalInv
<1>1. /\ live' = live /\ tmp' = tmp /\ quarantine' = quarantine /\ proc' = proc
      /\ server' = server /\ suspect' = suspect /\ ops' = ops /\ kept' = kept /\ fresh' = fresh
  BY DEF BackupOnly
<1>2. TypeInv'  BY <1>1 DEF TypeInv
<1>3. Turns'  BY <1>1 DEF Turns, Restoring
<1>4. Keeping'
  <2>1. \A q \in Writer : Restoring(q)' = Restoring(q) /\ Holding(proc'[q]) = Holding(proc[q])
    BY <1>1 DEF Restoring, Holding
  <2>2. \A f \in File : Loads(f)' => kept'[f] \subseteq live'[f].data
    BY <1>1 DEF Keeping, Loads
  <2> QED  BY <1>1, <2>1, <2>2 DEF Keeping
<1>5. Making'
  <2>1. \A f \in File : Loads(f)' = Loads(f)  BY <1>1 DEF Loads
  <2> QED  BY <1>1, <2>1 DEF Making, Holding
<1>6. Numbers'  BY <1>1 DEF Numbers, Numbered, Edged, OneEach
<1>7. Copying'  BY DEF Copying, Brings
<1> QED  BY <1>2, <1>3, <1>4, <1>5, <1>6, <1>7 DEF LocalInv

\* Nothing must be brought back by what holds nothing.
LEMMA NothingHeld ==
    ASSUME NEW n
    PROVE  /\ NoFacts \in Tables(n) /\ Numbered(NoFacts) /\ Edged(NoFacts)
           /\ \A f \in File : NoFacts[f] = {}
BY Files DEF NoFacts, Tables, Numbered, Edged, OneEach

\* A snapshot that begins is empty.
LEMMA StartBackupStep ==
    ASSUME LocalInv, StartBackup
    PROVE  LocalInv'
<1> TypeInv /\ Keeping /\ Numbers /\ Copying  BY DEF LocalInv
<1> DEFINE empty == [files |-> <<>>, held |-> NoFacts]
<1>1. /\ ops + stamp < MaxBegun /\ stamp' = stamp + 1 /\ latest' = latest
      /\ backup' = [todo |-> COPIED, held |-> kept]
      /\ snapshots' = [s \in DOMAIN snapshots \cup {stamp + 1} |->
                          IF s = stamp + 1 THEN empty ELSE snapshots[s]]
      /\ BackupOnly
  BY DEF StartBackup, BackupOnly, disk, history, noted
<1>2. /\ ops \in Nat /\ stamp \in Nat /\ MaxBegun \in Nat /\ kept \in Tables(ops)
      /\ DOMAIN snapshots \subseteq 1..stamp
  BY LocalStoreAssumption DEF TypeInv
<1>3. stamp' \in Nat /\ ops + stamp' <= MaxBegun /\ 1..(stamp + 1) = (1..stamp) \cup {stamp + 1}
  BY <1>1, <1>2
<1>4. <<>> \in [{} -> Saved(ops)] /\ DOMAIN <<>> = {}
  <2>1. <<>> \in Seq(Saved(ops)) /\ Len(<<>>) = 0  OBVIOUS
  <2>2. DOMAIN <<>> = {}  OBVIOUS
  <2> QED  BY <2>1, <2>2
<1>5. empty \in Snapshot(ops) /\ empty.held = NoFacts /\ DOMAIN empty.files = {}
  BY <1>4, NothingHeld DEF Snapshot, Copies
<1> HIDE DEF empty
<1>6. /\ DOMAIN snapshots' = DOMAIN snapshots \cup {stamp + 1} /\ snapshots'[stamp + 1] = empty
      /\ \A s \in DOMAIN snapshots : snapshots'[s] = snapshots[s]
  BY <1>1, <1>2
<1>7. snapshots' \in [DOMAIN snapshots' -> Snapshot(ops)]
  BY <1>1, <1>5, <1>6 DEF TypeInv
<1>8. DOMAIN snapshots' \subseteq 1..stamp'  BY <1>1, <1>2, <1>3, <1>6
<1>9. latest' # Absent => latest' \in DOMAIN snapshots'  BY <1>1, <1>6 DEF TypeInv
<1>10. backup'.held = kept /\ backup'.todo = COPIED  BY <1>1
<1>11. /\ backup' \in [todo : Orders, held : Tables(ops)]
       /\ Left(COPIED) = File
  BY <1>1, <1>2 DEF COPIED, Orders, Left, File
<1>12. Brings(snapshots'[stamp'].files, kept)  BY <1>1, <1>5, <1>6 DEF Brings
<1>13. Numbered(kept) /\ Edged(kept)  BY DEF Numbers
<1>14. \A s \in DOMAIN snapshots' :
           /\ Numbered(snapshots'[s].held) /\ Edged(snapshots'[s].held)
           /\ Brings(snapshots'[s].files, snapshots'[s].held)
           /\ \A f \in File \ DOMAIN snapshots'[s].files : snapshots'[s].held[f] = {}
  <2> TAKE s \in DOMAIN snapshots'
  <2>1. CASE s = stamp + 1  BY <1>5, <1>6, <2>1, NothingHeld DEF Brings
  <2>2. CASE s \in DOMAIN snapshots  BY <1>6, <2>2 DEF Numbers, Copying
  <2> QED  BY <1>6, <2>1, <2>2
<1>15. stamp' \in DOMAIN snapshots' /\ DOMAIN snapshots'[stamp'].files = {}
  BY <1>1, <1>5, <1>6
<1> QED
  BY <1>1, <1>3, <1>7, <1>8, <1>9, <1>10, <1>11, <1>12, <1>13, <1>14, <1>15, BackupInv

\* A file that is copied holds what was kept then.
LEMMA CopyStep ==
    ASSUME LocalInv, Copy
    PROVE  LocalInv'
<1> TypeInv /\ Keeping /\ Numbers /\ Copying  BY DEF LocalInv
<1> DEFINE f == Head(backup.todo)
           old == snapshots[stamp]
           files == WithCopy(old.files, f)
           still == [g \in File |-> backup.held[g] \cap kept[g]]
<1>1. /\ backup # Absent /\ backup.todo # <<>>
      /\ backup' = [todo |-> Tail(backup.todo), held |-> still]
      /\ latest' = latest /\ stamp' = stamp /\ BackupOnly
  BY DEF Copy, BackupOnly, disk, history, noted
<1>2. snapshots' = [snapshots EXCEPT ![stamp] = [old EXCEPT !.files = files]]
  BY DEF Copy
<1>3. /\ stamp \in DOMAIN snapshots /\ stamp \in Nat /\ ops + stamp <= MaxBegun
      /\ backup.held \in Tables(ops) /\ backup.todo \in Orders
      /\ Left(backup.todo) = File \ DOMAIN old.files
      /\ backup.todo \in {COPIED, <<"relations", "experiments">>, <<"experiments">>, <<>>}
  BY <1>1 DEF TypeInv
<1>4. /\ f \in File /\ f \in Left(backup.todo) /\ Tail(backup.todo) \in Orders
      /\ Left(Tail(backup.todo)) = Left(backup.todo) \ {f}
  BY <1>1, <1>3, OrderShape
<1>5. Tail(backup.todo) \in {COPIED, <<"relations", "experiments">>, <<"experiments">>, <<>>}
  <2>1. Tail(COPIED) = <<"relations", "experiments">>  BY DEF COPIED
  <2>2. Tail(<<"relations", "experiments">>) = <<"experiments">>  OBVIOUS
  <2>3. Tail(<<"experiments">>) = <<>>  OBVIOUS
  <2> QED  BY <1>1, <1>3, <2>1, <2>2, <2>3
<1>6. /\ old \in Snapshot(ops) /\ old.held \in Tables(ops) /\ old.files \in Copies(ops)
      /\ DOMAIN old.files \in {{}, {"items"}, {"items", "relations"}, File}
      /\ \A g \in DOMAIN old.files : g \in File /\ old.files[g] \in Saved(ops)
  BY <1>3, SnapshotFields
<1>7. /\ DOMAIN files = DOMAIN old.files \cup {f} /\ files[f] = live[f]
      /\ \A g \in DOMAIN old.files : g # f => files[g] = old.files[g]
  BY DEF WithCopy
<1>8. DOMAIN old.files \cup {f} \in {{"items"}, {"items", "relations"}, File}
  <2>1. \A D \in SUBSET File : D = File \ (File \ D)  OBVIOUS
  <2>2. DOMAIN old.files = File \ Left(backup.todo)  BY <1>3, <1>6, <2>1
  <2>3. CASE backup.todo = COPIED
    <3>1. f = "items" /\ Left(backup.todo) = File  BY <2>3 DEF COPIED, Left, File
    <3> QED  BY <2>2, <3>1
  <2>4. CASE backup.todo = <<"relations", "experiments">>
    <3>1. f = "relations" /\ Left(backup.todo) = {"relations", "experiments"}
      BY <2>4 DEF Left
    <3> QED  BY <2>2, <3>1 DEF File
  <2>5. CASE backup.todo = <<"experiments">>
    <3>1. f = "experiments" /\ Left(backup.todo) = {"experiments"}  BY <2>5 DEF Left
    <3> QED  BY <2>2, <3>1 DEF File
  <2> QED  BY <1>1, <1>3, <2>3, <2>4, <2>5
<1>9. files \in Copies(ops)
  <2>1. \A g \in DOMAIN files : files[g] \in Saved(ops)
    BY <1>4, <1>6, <1>7 DEF TypeInv
  <2>2. files \in [DOMAIN files -> Saved(ops)]  BY <2>1 DEF WithCopy
  <2> QED  BY <1>7, <1>8, <2>2 DEF Copies
<1>10. still \in Tables(ops) /\ \A g \in File : still[g] \subseteq backup.held[g]
                                               /\ still[g] = backup.held[g] \cap kept[g]
  BY <1>3 DEF Tables
<1>11. Numbered(still) /\ Edged(still)
  BY <1>1, <1>10, Files DEF Numbers, Numbered, OneEach, Edged
<1>12. Brings(files, still)
  <2> SUFFICES ASSUME NEW g \in DOMAIN files, files[g].is = "whole"
               PROVE  still[g] \subseteq files[g].data
    BY DEF Brings
  <2>1. g \in File  BY <1>4, <1>6, <1>7
  <2>2. CASE g = f
    <3>1. kept[f] \subseteq live[f].data  BY <1>4, <1>7, <2>2 DEF Keeping, Loads
    <3> QED  BY <1>7, <1>10, <2>1, <2>2, <3>1
  <2>3. CASE g # f
    <3>1. g \in DOMAIN old.files /\ files[g] = old.files[g]  BY <1>7, <2>3
    <3>2. backup.held[g] \subseteq old.files[g].data  BY <1>1, <3>1 DEF Copying, Brings
    <3> QED  BY <1>10, <2>1, <3>1, <3>2
  <2> QED  BY <2>2, <2>3
<1>13. Brings(files, old.held) /\ \A g \in File \ DOMAIN files : old.held[g] = {}
  <2>1. Brings(old.files, old.held) /\ \A g \in File \ DOMAIN old.files : old.held[g] = {}
    BY <1>3 DEF Copying
  <2>2. old.held[f] = {}  BY <1>3, <1>4, <2>1
  <2> QED  BY <1>7, <2>1, <2>2 DEF Brings
<1> HIDE DEF files, still, f
<1> DEFINE new == [old EXCEPT !.files = files]
<1>14. new \in Snapshot(ops) /\ new.files = files /\ new.held = old.held
  BY <1>6, <1>9 DEF Snapshot
<1> HIDE DEF new
<1>15. /\ DOMAIN snapshots' = DOMAIN snapshots /\ snapshots'[stamp] = new
       /\ \A s \in DOMAIN snapshots : s # stamp => snapshots'[s] = snapshots[s]
       /\ snapshots' \in [DOMAIN snapshots' -> Snapshot(ops)]
  <2>1. snapshots' = [snapshots EXCEPT ![stamp] = new]  BY <1>2 DEF new
  <2>2. snapshots \in [DOMAIN snapshots -> Snapshot(ops)]  BY DEF TypeInv
  <2> QED  BY <1>3, <1>14, <2>1, <2>2
<1>16. \A s \in DOMAIN snapshots' :
           /\ Numbered(snapshots'[s].held) /\ Edged(snapshots'[s].held)
           /\ Brings(snapshots'[s].files, snapshots'[s].held)
           /\ \A g \in File \ DOMAIN snapshots'[s].files : snapshots'[s].held[g] = {}
  <2> TAKE s \in DOMAIN snapshots'
  <2>1. CASE s = stamp  BY <1>3, <1>13, <1>14, <1>15, <2>1 DEF Numbers
  <2>2. CASE s # stamp  BY <1>15, <2>2 DEF Numbers, Copying
  <2> QED  BY <2>1, <2>2
<1>17. /\ DOMAIN snapshots' \subseteq 1..stamp'
       /\ latest' # Absent => latest' \in DOMAIN snapshots'
  BY <1>1, <1>15 DEF TypeInv
<1>18. /\ backup'.held = still /\ backup'.todo = Tail(backup.todo)
       /\ backup' \in [todo : Orders, held : Tables(ops)]
  BY <1>1, <1>4, <1>10
<1>19. Left(backup'.todo) = File \ DOMAIN snapshots'[stamp'].files
  <2>1. Left(backup'.todo) = (File \ DOMAIN old.files) \ {f}  BY <1>3, <1>4, <1>18
  <2>2. DOMAIN snapshots'[stamp'].files = DOMAIN old.files \cup {f}
    BY <1>1, <1>7, <1>14, <1>15
  <2> QED  BY <2>1, <2>2
<1>20. stamp' \in DOMAIN snapshots' /\ snapshots'[stamp'].files = files
  BY <1>1, <1>3, <1>14, <1>15
<1> QED
  BY <1>1, <1>3, <1>5, <1>11, <1>12, <1>15, <1>16, <1>17, <1>18, <1>19, <1>20, BackupInv

\* The newest snapshot is not pruned, whatever the retention.
LEMMA PrunedKeepsNewest ==
    ASSUME NEW taken, NEW s \in taken, \A t \in taken : t \in Nat /\ t <= s
    PROVE  Pruned(taken) \subseteq taken /\ s \in Pruned(taken)
<1>1. {t \in taken : t > s} = {}  OBVIOUS
<1>2. RETENTION # 0 => 0 < RETENTION  BY LocalStoreAssumption
<1>3. Cardinality({}) = 0  BY FS_EmptySet
<1>4. RETENTION # 0 => Cardinality({t \in taken : t > s}) < RETENTION
  BY <1>1, <1>2, <1>3
<1> QED  BY <1>4 DEF Pruned

\* A snapshot that is done holds every file, and so what was kept throughout.
LEMMA EndBackupStep ==
    ASSUME LocalInv, EndBackup
    PROVE  LocalInv'
<1> TypeInv /\ Keeping /\ Numbers /\ Copying  BY DEF LocalInv
<1> DEFINE old == snapshots[stamp]
           done == [old EXCEPT !.held = backup.held]
           left == Pruned(DOMAIN snapshots)
<1>1. /\ backup # Absent /\ backup.todo = <<>> /\ backup' = Absent
      /\ latest' = stamp /\ stamp' = stamp /\ BackupOnly
      /\ snapshots' = [s \in left |-> IF s = stamp THEN done ELSE snapshots[s]]
  BY DEF EndBackup, BackupOnly, disk, history, noted
<1>2. /\ stamp \in DOMAIN snapshots /\ stamp \in Nat /\ ops + stamp <= MaxBegun
      /\ DOMAIN snapshots \subseteq 1..stamp
      /\ backup.held \in Tables(ops) /\ Left(backup.todo) = File \ DOMAIN old.files
  BY <1>1 DEF TypeInv
<1>3. left \subseteq DOMAIN snapshots /\ stamp \in left
  <2>1. \A t \in DOMAIN snapshots : t \in Nat /\ t <= stamp  BY <1>2
  <2> QED  BY <1>2, <2>1, PrunedKeepsNewest
<1>4. File \subseteq DOMAIN old.files  BY <1>1, <1>2, OrderShape
<1>5. old \in Snapshot(ops)  BY <1>2 DEF TypeInv
<1>6. done \in Snapshot(ops) /\ done.held = backup.held /\ done.files = old.files
  BY <1>2, <1>5 DEF Snapshot
<1>7. /\ Numbered(done.held) /\ Edged(done.held) /\ Brings(done.files, done.held)
      /\ \A f \in File \ DOMAIN done.files : done.held[f] = {}
  BY <1>1, <1>4, <1>6 DEF Numbers, Copying
<1> HIDE DEF left, done
<1>8. /\ DOMAIN snapshots' = left /\ snapshots'[stamp] = done
      /\ \A s \in left : s # stamp => snapshots'[s] = snapshots[s]
  BY <1>1, <1>3
<1>9. snapshots' \in [DOMAIN snapshots' -> Snapshot(ops)]
  <2>1. \A s \in left : snapshots'[s] \in Snapshot(ops)
    BY <1>3, <1>6, <1>8 DEF TypeInv
  <2> QED  BY <1>1, <1>8, <2>1
<1>10. \A s \in DOMAIN snapshots' :
           /\ Numbered(snapshots'[s].held) /\ Edged(snapshots'[s].held)
           /\ Brings(snapshots'[s].files, snapshots'[s].held)
           /\ \A f \in File \ DOMAIN snapshots'[s].files : snapshots'[s].held[f] = {}
  <2> TAKE s \in DOMAIN snapshots'
  <2>1. CASE s = stamp  BY <1>7, <1>8, <2>1
  <2>2. CASE s # stamp  BY <1>3, <1>8, <2>2 DEF Numbers, Copying
  <2> QED  BY <2>1, <2>2
<1> QED  BY <1>1, <1>2, <1>3, <1>8, <1>9, <1>10, BackupInv

\* A backup that dies leaves its snapshot as it is, and nothing it must bring back.
LEMMA BackupDiesStep ==
    ASSUME LocalInv, BackupDies
    PROVE  LocalInv'
<1> TypeInv /\ Numbers /\ Copying  BY DEF LocalInv
<1>1. /\ backup' = Absent /\ snapshots' = snapshots /\ latest' = latest /\ stamp' = stamp
      /\ BackupOnly
  BY DEF BackupDies, BackupOnly, disk, history, noted
<1>2. /\ stamp' \in Nat /\ ops + stamp' <= MaxBegun
      /\ snapshots' \in [DOMAIN snapshots' -> Snapshot(ops)]
      /\ DOMAIN snapshots' \subseteq 1..stamp'
      /\ latest' # Absent => latest' \in DOMAIN snapshots'
  BY <1>1 DEF TypeInv
<1>3. \A s \in DOMAIN snapshots' :
          /\ Numbered(snapshots'[s].held) /\ Edged(snapshots'[s].held)
          /\ Brings(snapshots'[s].files, snapshots'[s].held)
          /\ \A f \in File \ DOMAIN snapshots'[s].files : snapshots'[s].held[f] = {}
  BY <1>1 DEF Numbers, Copying
<1> QED  BY <1>1, <1>2, <1>3, BackupInv
-----------------------------------------------------------------------------
(* The theorems *)

\* The programs find an empty board, or one whose first facts are kept.
LEMMA InitInv == Init => LocalInv
<1> SUFFICES ASSUME Init  PROVE LocalInv
  OBVIOUS
<1> DEFINE used == [f \in File |-> {First}]
<1>1. /\ live = [f \in File |-> [data |-> kept[f], is |-> "whole"]]
      /\ tmp = [f \in File |-> Absent] /\ quarantine = {}
      /\ proc = [p \in Writer |-> Idle] /\ server = Absent /\ suspect = {}
      /\ snapshots = <<>> /\ latest = Absent /\ backup = Absent /\ stamp = 0 /\ ops = 0
      /\ fresh = {[file |-> f, op |-> 0, id |-> 1] : f \in {g \in File : kept[g] # {}}}
  BY DEF Init
<1>2. First \in Facts(0)  BY DEF First, Facts
<1>3. used \in Tables(0) /\ \A f \in File : used[f] = {First}  BY <1>2 DEF Tables
<1> HIDE DEF used
<1>4. kept \in {NoFacts, used}  BY DEF Init, used
<1>5. /\ kept \in Tables(0) /\ Numbered(kept) /\ Edged(kept)
      /\ \A f \in File : kept[f] # {} => kept[f] = {First}
  <2>1. CASE kept = NoFacts  BY <2>1, NothingHeld
  <2>2. CASE kept = used
    BY <1>3, <2>2, Files DEF Numbered, Edged, OneEach
  <2> QED  BY <1>4, <2>1, <2>2
<1>6. \A p \in Writer :
          /\ proc[p] = Idle /\ proc[p].pc = "idle" /\ proc[p].todo = <<>> /\ proc[p].bad = {}
          /\ proc[p].alone = FALSE /\ proc[p] \in Process(0) /\ Holding(proc[p]) = {}
  <2>1. Idle \in Process(0)  BY Files, OrderShape, NothingHeld DEF Idle, Process, PC
  <2>2. Idle.pc = "idle" /\ Idle.todo = <<>> /\ Idle.bad = {} /\ Idle.alone = FALSE
    BY DEF Idle
  <2>3. Holding(Idle) = {}  BY <2>2, OrderShape DEF Holding
  <2> QED  BY <1>1, <2>1, <2>2, <2>3
<1>7. DOMAIN snapshots = {}
  <2>1. DOMAIN <<>> = {}  OBVIOUS
  <2> QED  BY <1>1, <2>1
<1>8. \A f \in File : live[f].data = kept[f] /\ live[f].is = "whole" /\ tmp[f] = Absent
  BY <1>1
<1>9. TypeInv
  <2>1. live \in [File -> Saved(0)]
    <3>1. \A f \in File : [data |-> kept[f], is |-> "whole"] \in Saved(0)
      BY <1>5 DEF Tables, Saved, Content
    <3> QED  BY <1>1, <3>1
  <2>2. proc \in [Writer -> Process(0)]  BY <1>1, <1>6
  <2>3. snapshots \in [DOMAIN snapshots -> Snapshot(0)]  BY <1>1, <1>7
  <2>4. 0 + 0 <= MaxBegun  BY LocalStoreAssumption
  <2> QED  BY <1>1, <1>5, <1>6, <1>7, <1>8, <2>1, <2>2, <2>3, <2>4 DEF TypeInv
<1>10. Turns  BY <1>6, <1>8 DEF Turns, Restoring, Writer
<1>11. Keeping  BY <1>1, <1>6, <1>8 DEF Keeping
<1>12. Making  BY <1>6 DEF Making
<1>13. Numbers
  <2>1. ASSUME NEW n \in fresh
        PROVE  n.file \in File /\ [op |-> n.op, id |-> n.id, new |-> TRUE] \in kept[n.file]
    <3>1. PICK f \in {g \in File : kept[g] # {}} : n = [file |-> f, op |-> 0, id |-> 1]
      BY <1>1
    <3>2. kept[f] = {First} /\ f \in File  BY <1>5, <3>1
    <3>3. n.file = f /\ [op |-> n.op, id |-> n.id, new |-> TRUE] = First  BY <3>1 DEF First
    <3> QED  BY <3>2, <3>3
  <2> QED  BY <1>1, <1>5, <1>6, <1>7, <2>1 DEF Numbers
<1>14. Copying  BY <1>1, <1>7 DEF Copying
<1> QED  BY <1>9, <1>10, <1>11, <1>12, <1>13, <1>14 DEF LocalInv

\* Each step of a program keeps the invariant.
LEMMA NextInv == LocalInv /\ [Next]_vars => LocalInv'
<1> SUFFICES ASSUME LocalInv, [Next]_vars  PROVE LocalInv'
  OBVIOUS
<1>1. CASE UNCHANGED vars
  <2>1. /\ live' = live /\ tmp' = tmp /\ quarantine' = quarantine /\ proc' = proc
        /\ server' = server /\ suspect' = suspect /\ snapshots' = snapshots
        /\ latest' = latest /\ backup' = backup /\ stamp' = stamp /\ ops' = ops
        /\ kept' = kept /\ fresh' = fresh
    BY <1>1 DEF vars
  <2>2. TypeInv /\ Numbers /\ Copying  BY DEF LocalInv
  <2>3. /\ stamp' \in Nat /\ ops + stamp' <= MaxBegun
        /\ snapshots' \in [DOMAIN snapshots' -> Snapshot(ops)]
        /\ DOMAIN snapshots' \subseteq 1..stamp'
        /\ latest' # Absent => latest' \in DOMAIN snapshots'
    BY <2>1, <2>2 DEF TypeInv
  <2>4. backup' # Absent =>
            /\ stamp' \in DOMAIN snapshots'
            /\ backup' \in [todo : Orders, held : Tables(ops)]
            /\ Left(backup'.todo) = File \ DOMAIN snapshots'[stamp'].files
            /\ backup'.todo \in {COPIED, <<"relations", "experiments">>, <<"experiments">>, <<>>}
            /\ Numbered(backup'.held) /\ Edged(backup'.held)
            /\ Brings(snapshots'[stamp'].files, backup'.held)
    BY <2>1, <2>2 DEF TypeInv, Numbers, Copying
  <2>5. \A s \in DOMAIN snapshots' :
            /\ Numbered(snapshots'[s].held) /\ Edged(snapshots'[s].held)
            /\ Brings(snapshots'[s].files, snapshots'[s].held)
            /\ \A f \in File \ DOMAIN snapshots'[s].files : snapshots'[s].held[f] = {}
    BY <2>1, <2>2 DEF Numbers, Copying
  <2>6. BackupOnly  BY <2>1 DEF BackupOnly
  <2> QED  BY <2>3, <2>4, <2>5, <2>6, BackupInv
<1>2. ASSUME NEW c \in Cli,
             \/ CreateRelated(c) \/ LoadEdges(c) \/ CreateHdd(c) \/ EditItem(c)
             \/ Migrate(c) \/ Restore(c) \/ Cut(c) \/ Fill(c)
      PROVE  LocalInv'
  BY <1>2, CreateRelatedStep, LoadEdgesStep, CreateHddStep, EditItemStep, MigrateStep,
     RestoreStep, CutStep, FillStep
<1>3. ASSUME NEW p \in Writer, RunStep(p) \/ Open(p) \/ Rename(p) \/ Killed(p)
      PROVE  LocalInv'
  BY <1>3, RunStepStep, OpenStep, RenameStep, KilledStep
<1>4. CASE ServerCommit \/ StartServer \/ StopServer
  BY <1>4, ServerCommitStep, StartServerStep, StopServerStep
<1>5. CASE StartBackup \/ Copy \/ EndBackup \/ BackupDies
  BY <1>5, StartBackupStep, CopyStep, EndBackupStep, BackupDiesStep
<1> QED  BY <1>1, <1>2, <1>3, <1>4, <1>5 DEF Next

\* What the processes, the .tmp files, the server and the snapshots hold agrees with
\* what is kept, whatever the programs that share the directory do.
THEOREM LocalStoreInvariant == Spec => []LocalInv
<1> QED  BY InitInv, NextInv, PTL DEF Spec

-----------------------------------------------------------------------------
(* What a kill cut short *)

\* What was cut short is of a file that nothing is writing, and lies where a start finds it
\* or put it.
InterruptInv ==
    /\ DOMAIN interrupted = File
    /\ \A f \in File : interrupted[f] # Absent =>
           /\ interrupted[f] \in SUBSET Facts(ops)
           /\ \A p \in Writer : proc[p].pc = "write" => f # Head(proc[p].todo)
    /\ InterruptionReported

\* What a step must do for it: nobody begins to fill a .tmp, and where something was cut
\* short both the .tmp and the report of it stay.
Undisturbed ==
    /\ ops' \in Nat /\ ops <= ops'
    /\ \A p \in Writer : proc'[p].pc = "write" =>
           proc[p].pc = "write" /\ proc'[p].todo = proc[p].todo
    /\ interrupted' = interrupted
    /\ \A f \in File : interrupted[f] # Absent => tmp'[f] = tmp[f]
    /\ suspect \subseteq suspect' /\ quarantine \subseteq quarantine'

LEMMA UndisturbedInv ==
    ASSUME LocalInv, InterruptInv, Undisturbed
    PROVE  InterruptInv'
<1>1. ops \in Nat  BY DEF LocalInv, TypeInv
<1>2. Facts(ops) \subseteq Facts(ops')  BY <1>1, Later DEF Undisturbed
<1>3. ASSUME NEW f \in File, interrupted'[f] # Absent
      PROVE  /\ interrupted'[f] \in SUBSET Facts(ops')
             /\ \A p \in Writer : proc'[p].pc = "write" => f # Head(proc'[p].todo)
             /\ \/ /\ tmp'[f] # Absent /\ tmp'[f].by = {} /\ tmp'[f].newer
                   /\ tmp'[f].data = interrupted'[f]
                \/ f \in suspect' /\ interrupted'[f] \in quarantine' \cup {{}}
  <2>1. interrupted[f] # Absent /\ interrupted' = interrupted /\ tmp'[f] = tmp[f]
    BY <1>3 DEF Undisturbed
  <2>2. \A p \in Writer : proc'[p].pc = "write" => f # Head(proc'[p].todo)
    BY <2>1 DEF Undisturbed, InterruptInv
  <2>3. interrupted'[f] \in SUBSET Facts(ops')  BY <1>2, <2>1 DEF InterruptInv
  <2>4. \/ /\ tmp[f] # Absent /\ tmp[f].by = {} /\ tmp[f].newer /\ tmp[f].data = interrupted[f]
        \/ f \in suspect /\ interrupted[f] \in quarantine \cup {{}}
    BY <2>1 DEF InterruptInv, InterruptionReported
  <2> QED  BY <2>1, <2>2, <2>3, <2>4 DEF Undisturbed
<1> QED  BY <1>3 DEF InterruptInv, InterruptionReported, Undisturbed

\* A command that begins opens or reads a file first.
LEMMA BeginUndisturbed ==
    ASSUME TypeInv, NEW p \in Writer, NEW state, Begin(p, state), state.pc # "write",
           UNCHANGED <<disk, quarantine, noted>>
    PROVE  Undisturbed
<1>1. ops' = ops + 1 /\ proc' = Join(p, state) /\ ops \in Nat  BY DEF Begin, TypeInv
<1>2. ASSUME NEW q \in Writer, proc'[q].pc = "write"
      PROVE  proc[q].pc = "write" /\ proc'[q].todo = proc[q].todo
  <2>1. q # p  BY <1>1, <1>2 DEF Join
  <2>2. proc'[q] = [proc[q] EXCEPT !.alone = FALSE]  BY <1>1, <2>1 DEF Join
  <2>3. proc[q] \in Process(ops)  BY ProcessFields
  <2> QED  BY <1>2, <2>2, <2>3 DEF Process
<1> QED  BY <1>1, <1>2 DEF Undisturbed, disk, noted

\* The commands that begin.
LEMMA BegunInterrupts ==
    ASSUME LocalInv, InterruptInv, NEW p \in Writer,
           \/ p \in Cli /\ (CreateRelated(p) \/ CreateHdd(p) \/ EditItem(p) \/ Migrate(p)
                            \/ Restore(p))
           \/ RunStep(p)
           \/ p = Server /\ (ServerCommit \/ StopServer)
    PROVE  InterruptInv'
<1> TypeInv  BY DEF LocalInv
<1>1. \A mem, made, todo : Started(p, mem, made, todo).pc = "open"  BY DEF Started
<1>2. \E state : /\ Begin(p, state) /\ state.pc # "write"
                 /\ UNCHANGED <<disk, quarantine, noted>>
  <2>1. CASE p \in Cli /\ CreateRelated(p)
    BY <2>1 DEF CreateRelated, Started
  <2>2. CASE p \in Cli /\ CreateHdd(p)  BY <1>1, <2>2 DEF CreateHdd
  <2>3. CASE p \in Cli /\ EditItem(p)  BY <1>1, <2>3 DEF EditItem
  <2>4. CASE p \in Cli /\ Migrate(p)  BY <1>1, <2>4 DEF Migrate
  <2>5. CASE p \in Cli /\ Restore(p)  BY <2>5 DEF Restore, Started
  <2>6. CASE RunStep(p)  BY <1>1, <2>6 DEF RunStep
  <2>7. CASE p = Server /\ ServerCommit  BY <1>1, <2>7 DEF ServerCommit
  <2>8. CASE p = Server /\ StopServer
    <3>1. [Idle EXCEPT !.pc = "open", !.mem = server, !.todo = <<"items", "relations">>].pc
              # "write"
      BY DEF Idle
    <3> QED  BY <2>8, <3>1 DEF StopServer
  <2> QED  BY <2>1, <2>2, <2>3, <2>4, <2>5, <2>6, <2>7, <2>8
<1> QED  BY <1>2, BeginUndisturbed, UndisturbedInv

\* A process that goes on or ends: it and the file it was at are the only ones that change.
LEMMA MovesOnInterrupts ==
    ASSUME LocalInv, InterruptInv, NEW p \in Writer, NEW state,
           proc' = [proc EXCEPT ![p] = state], state.pc # "write",
           \A f \in File : interrupted'[f] # Absent =>
               interrupted[f] = interrupted'[f] /\ tmp'[f] = tmp[f],
           DOMAIN interrupted' = File,
           UNCHANGED <<suspect, quarantine, ops>>
    PROVE  InterruptInv'
<1>1. proc \in [Writer -> Process(ops)]  BY DEF LocalInv, TypeInv
<1>2. ASSUME NEW f \in File, interrupted'[f] # Absent
      PROVE  /\ interrupted'[f] \in SUBSET Facts(ops')
             /\ \A q \in Writer : proc'[q].pc = "write" => f # Head(proc'[q].todo)
             /\ \/ /\ tmp'[f] # Absent /\ tmp'[f].by = {} /\ tmp'[f].newer
                   /\ tmp'[f].data = interrupted'[f]
                \/ f \in suspect' /\ interrupted'[f] \in quarantine' \cup {{}}
  <2>1. interrupted[f] # Absent /\ interrupted'[f] = interrupted[f] /\ tmp'[f] = tmp[f]
    BY <1>2
  <2>2. \/ /\ tmp[f] # Absent /\ tmp[f].by = {} /\ tmp[f].newer /\ tmp[f].data = interrupted[f]
        \/ f \in suspect /\ interrupted[f] \in quarantine \cup {{}}
    BY <2>1 DEF InterruptInv, InterruptionReported
  <2>3. interrupted'[f] \in SUBSET Facts(ops')  BY <2>1 DEF InterruptInv
  <2>4. ASSUME NEW q \in Writer, proc'[q].pc = "write"  PROVE f # Head(proc'[q].todo)
    <3>1. q # p /\ proc'[q] = proc[q]  BY <1>1, <2>4
    <3> QED  BY <2>1, <2>4, <3>1 DEF InterruptInv
  <2> QED  BY <2>1, <2>2, <2>3, <2>4
<1> QED  BY <1>2 DEF InterruptInv, InterruptionReported
LEMMA OpenInterrupts ==
    ASSUME LocalInv, InterruptInv, NEW p \in Writer, Open(p)
    PROVE  InterruptInv'
<1> TypeInv  BY DEF LocalInv
<1> DEFINE f == Head(proc[p].todo)
<1>1. /\ proc[p].pc = "open" /\ proc' = [proc EXCEPT ![p].pc = "write"]
      /\ interrupted' = [interrupted EXCEPT ![f] = Absent]
      /\ suspect' = suspect /\ quarantine' = quarantine /\ ops' = ops
      /\ \A g \in File \ {f} : tmp'[g] = tmp[g]
  BY DEF Open, TypeInv
<1>2. proc[p].todo # <<>> /\ f \in File  BY <1>1, NextFile
<1>3. DOMAIN interrupted' = File /\ interrupted'[f] = Absent
      /\ \A g \in File \ {f} : interrupted'[g] = interrupted[g]
  BY <1>1, <1>2 DEF InterruptInv
<1>4. \A q \in Writer \ {p} : proc'[q] = proc[q]  BY <1>1 DEF TypeInv
<1>5. proc'[p].todo = proc[p].todo
  <2>1. proc[p] \in Process(ops) /\ proc'[p] = [proc[p] EXCEPT !.pc = "write"]
    BY <1>1, ProcessFields DEF TypeInv
  <2> QED  BY <2>1 DEF Process
<1>6. ASSUME NEW g \in File, interrupted'[g] # Absent
      PROVE  /\ interrupted'[g] \in SUBSET Facts(ops')
             /\ \A q \in Writer : proc'[q].pc = "write" => g # Head(proc'[q].todo)
             /\ \/ /\ tmp'[g] # Absent /\ tmp'[g].by = {} /\ tmp'[g].newer
                   /\ tmp'[g].data = interrupted'[g]
                \/ g \in suspect' /\ interrupted'[g] \in quarantine' \cup {{}}
  <2>1. g # f /\ interrupted'[g] = interrupted[g] /\ tmp'[g] = tmp[g]
    BY <1>1, <1>3, <1>6
  <2>2. \/ /\ tmp[g] # Absent /\ tmp[g].by = {} /\ tmp[g].newer /\ tmp[g].data = interrupted[g]
        \/ g \in suspect /\ interrupted[g] \in quarantine \cup {{}}
    BY <1>6, <2>1 DEF InterruptInv, InterruptionReported
  <2>3. interrupted'[g] \in SUBSET Facts(ops')  BY <1>1, <1>6, <2>1 DEF InterruptInv
  <2>4. \A q \in Writer : proc'[q].pc = "write" => g # Head(proc'[q].todo)
    BY <1>4, <1>5, <1>6, <2>1 DEF InterruptInv
  <2> QED  BY <1>1, <2>1, <2>2, <2>3, <2>4
<1> QED  BY <1>3, <1>6 DEF InterruptInv, InterruptionReported

\* What a process is writing was not cut short before.
LEMMA WrittenIsWhole ==
    ASSUME LocalInv, InterruptInv, NEW p \in Writer, proc[p].pc = "write"
    PROVE  /\ Head(proc[p].todo) \in File /\ interrupted[Head(proc[p].todo)] = Absent
           /\ \A g \in File : interrupted[g] # Absent => g # Head(proc[p].todo)
<1>1. Head(proc[p].todo) \in File  BY NextFile DEF LocalInv
<1> QED  BY <1>1 DEF InterruptInv

LEMMA RenameInterrupts ==
    ASSUME LocalInv, InterruptInv, NEW p \in Writer, Rename(p)
    PROVE  InterruptInv'
<1> TypeInv  BY DEF LocalInv
<1> DEFINE f == Head(proc[p].todo)
<1>1. proc[p].pc = "write" /\ UNCHANGED <<suspect, quarantine, ops>>
      /\ interrupted' = interrupted
  BY DEF Rename, noted
<1>2. \E state : state.pc # "write" /\ proc' = [proc EXCEPT ![p] = state]
  <2> DEFINE next == [proc[p] EXCEPT !.pc = "open", !.todo = Tail(@)]
  <2>1. next.pc # "write"  BY <1>1, ProcessFields DEF Process
  <2>2. Idle.pc # "write"  BY DEF Idle
  <2>3. Fail(p) => proc' \in {[proc EXCEPT ![p] = Idle], [proc EXCEPT ![p] = next]}
    BY DEF Fail
  <2>4. Succeed(p) => proc' = [proc EXCEPT ![p] = Idle]  BY DEF Succeed
  <2>5. \/ Fail(p) \/ Succeed(p) \/ proc' = [proc EXCEPT ![p] = next]
    BY DEF Rename
  <2> HIDE DEF next
  <2> QED  BY <2>1, <2>2, <2>3, <2>4, <2>5
<1>3. \A g \in File \ {f} : tmp'[g] = tmp[g]  BY DEF Rename, disk, TypeInv
<1>4. \A g \in File : interrupted[g] # Absent => g # f  BY <1>1, WrittenIsWhole
<1>5. \A g \in File : interrupted'[g] # Absent =>
          interrupted[g] = interrupted'[g] /\ tmp'[g] = tmp[g]
  BY <1>1, <1>3, <1>4
<1>6. DOMAIN interrupted' = File  BY <1>1 DEF InterruptInv
<1> QED  BY <1>1, <1>2, <1>5, <1>6, MovesOnInterrupts

\* A restore writes a live file: what was cut short of it counts no more.
LEMMA InPlaceInterrupts ==
    ASSUME LocalInv, InterruptInv, NEW f \in File, InPlace(f)
    PROVE  /\ DOMAIN interrupted' = File
           /\ \A g \in File : interrupted'[g] # Absent =>
                  interrupted[g] = interrupted'[g] /\ tmp'[g] = tmp[g]
<1> TypeInv  BY DEF LocalInv
<1>1. interrupted' = [interrupted EXCEPT ![f] = Absent] /\ DOMAIN interrupted = File
  BY DEF InPlace, InterruptInv
<1>2. \A g \in File \ {f} : tmp'[g] = tmp[g]  BY DEF InPlace, TypeInv
<1> QED  BY <1>1, <1>2

LEMMA RestoringInterrupts ==
    ASSUME LocalInv, InterruptInv, NEW c \in Cli, Cut(c) \/ Fill(c)
    PROVE  InterruptInv'
<1> TypeInv  BY DEF LocalInv
<1> DEFINE f == Head(proc[c].todo)
<1>1. c \in Writer  BY DEF Writer
<1>2. f \in File  BY <1>1, NextFile DEF Cut, Fill
<1>3. UNCHANGED <<suspect, quarantine, ops>>  BY DEF Cut, Fill
<1>4. InPlace(f) \/ UNCHANGED <<disk, interrupted>>  BY DEF Cut, Fill
<1>5. /\ DOMAIN interrupted' = File
      /\ \A g \in File : interrupted'[g] # Absent =>
             interrupted[g] = interrupted'[g] /\ tmp'[g] = tmp[g]
  BY <1>2, <1>4, InPlaceInterrupts DEF disk, InterruptInv
<1>6. \E state : state.pc # "write" /\ proc' = [proc EXCEPT ![c] = state]
  <2>1. CASE Cut(c)
    <3>1. [proc[c] EXCEPT !.pc = "fill"].pc # "write"  BY <1>1, ProcessFields DEF Process
    <3> QED  BY <2>1, <3>1 DEF Cut
  <2>2. CASE Fill(c) /\ Len(proc[c].todo) = 1
    <3>1. Idle.pc # "write"  BY DEF Idle
    <3> QED  BY <2>2, <3>1 DEF Fill, Succeed
  <2>3. CASE Fill(c) /\ Len(proc[c].todo) # 1
    <3>1. [proc[c] EXCEPT !.pc = "cut", !.todo = Tail(@)].pc # "write"
      BY <1>1, ProcessFields DEF Process
    <3> QED  BY <2>3, <3>1 DEF Fill
  <2> QED  BY <2>1, <2>2, <2>3
<1> QED  BY <1>1, <1>3, <1>5, <1>6, MovesOnInterrupts

\* A kill leaves the .tmp of a file that no other was writing to nobody.
LEMMA KilledInterrupts ==
    ASSUME LocalInv, InterruptInv, NEW p \in Writer, Killed(p)
    PROVE  InterruptInv'
<1> TypeInv  BY DEF LocalInv
<1>1. /\ proc' = [proc EXCEPT ![p] = Idle] /\ quarantine' = quarantine /\ ops' = ops
      /\ tmp' = [f \in File |->
                     IF f \in Filling(p)
                     THEN [tmp[f] EXCEPT !.by = @ \ {p}, !.data = proc[p].mem[f]] ELSE tmp[f]]
      /\ interrupted' = [f \in File |-> IF f \in FillingAlone(p) THEN proc[p].mem[f]
                                        ELSE interrupted[f]]
      /\ suspect' = suspect \ Filling(p)
  BY DEF Killed
<1>2. /\ \A q \in Writer \ {p} : proc'[q] = proc[q]
      /\ proc'[p].pc # "write"
  BY <1>1 DEF TypeInv, Idle
<1>3. ASSUME NEW f \in File, interrupted'[f] # Absent
      PROVE  /\ interrupted'[f] \in SUBSET Facts(ops')
             /\ \A q \in Writer : proc'[q].pc = "write" => f # Head(proc'[q].todo)
             /\ \/ /\ tmp'[f] # Absent /\ tmp'[f].by = {} /\ tmp'[f].newer
                   /\ tmp'[f].data = interrupted'[f]
                \/ f \in suspect' /\ interrupted'[f] \in quarantine' \cup {{}}
  <2>1. CASE f \in FillingAlone(p)
    <3>1. /\ f \in Filling(p) /\ tmp[f].newer
          /\ \A q \in Writer \ {p} : ~(proc[q].pc = "write" /\ Head(proc[q].todo) = f)
      BY <2>1 DEF FillingAlone
    <3>2. tmp[f] \in Temp(ops) /\ p \in tmp[f].by  BY <3>1 DEF Filling, TypeInv
    <3>3. tmp[f].by = {p}
      BY <3>1, <3>2 DEF LocalInv, Turns, Filling, Temp
    <3>4. tmp'[f] = [tmp[f] EXCEPT !.by = tmp[f].by \ {p}, !.data = proc[p].mem[f]]
      BY <1>1, <3>1
    <3>5. proc[p].mem[f] \in SUBSET Facts(ops)  BY ProcessFields DEF Tables
    <3>6. tmp'[f] \in Temp(ops) /\ tmp'[f].by = {} /\ tmp'[f].data = proc[p].mem[f]
          /\ tmp'[f].newer = tmp[f].newer
      BY <3>2, <3>3, <3>4, <3>5 DEF Temp
    <3>7. tmp'[f] # Absent
      <4>1. ops \in 0..MaxBegun  BY LocalStoreAssumption DEF TypeInv
      <4>2. Facts(ops) \subseteq Fact  BY <4>1, LocalStoreAssumption DEF Facts, Fact
      <4> QED  BY <3>6, <4>2, AbsentAssumption DEF Temp
    <3>8. interrupted'[f] = proc[p].mem[f]  BY <1>1, <2>1
    <3> QED  BY <1>1, <1>2, <3>1, <3>5, <3>6, <3>7, <3>8
  <2>2. CASE f \notin FillingAlone(p)
    <3>1. interrupted'[f] = interrupted[f] /\ interrupted[f] # Absent  BY <1>1, <1>3, <2>2
    <3>2. f \notin Filling(p)  BY <3>1 DEF Filling, InterruptInv
    <3>3. tmp'[f] = tmp[f]  BY <1>1, <3>2
    <3>4. \/ /\ tmp[f] # Absent /\ tmp[f].by = {} /\ tmp[f].newer
             /\ tmp[f].data = interrupted[f]
          \/ f \in suspect /\ interrupted[f] \in quarantine \cup {{}}
      BY <3>1 DEF InterruptInv, InterruptionReported
    <3>5. interrupted[f] \in SUBSET Facts(ops)
          /\ \A q \in Writer : proc'[q].pc = "write" => f # Head(proc'[q].todo)
      BY <1>2, <3>1 DEF InterruptInv
    <3> QED  BY <1>1, <3>1, <3>2, <3>3, <3>4, <3>5
  <2> QED  BY <2>1, <2>2
<1> QED  BY <1>1, <1>3 DEF InterruptInv, InterruptionReported

\* A start reports each file whose .tmp is newer, and keeps what that holds.
LEMMA StartServerInterrupts ==
    ASSUME LocalInv, InterruptInv, StartServer
    PROVE  InterruptInv'
<1> TypeInv  BY DEF LocalInv
<1> DEFINE orphans == {f \in File : tmp[f] # Absent}
<1>1. /\ quarantine' = quarantine \cup SetAside(orphans)
      /\ suspect' = suspect \cup Suspects(orphans)
      /\ proc' = [q \in Writer |-> [proc[q] EXCEPT !.alone = FALSE]]
      /\ ops' = ops /\ interrupted' = interrupted
  BY DEF StartServer
<1>2. \A q \in Writer : proc'[q].pc = proc[q].pc /\ proc'[q].todo = proc[q].todo
  <2> TAKE q \in Writer
  <2>1. proc[q] \in Process(ops) /\ proc'[q] = [proc[q] EXCEPT !.alone = FALSE]
    BY <1>1, ProcessFields
  <2> QED  BY <2>1 DEF Process
<1>3. ASSUME NEW f \in File, interrupted[f] # Absent
      PROVE  f \in suspect' /\ interrupted[f] \in quarantine' \cup {{}}
  <2>1. CASE tmp[f] # Absent /\ tmp[f].newer /\ tmp[f].data = interrupted[f]
    <3>1. f \in orphans  BY <2>1
    <3>2. f \in Suspects(orphans) /\ tmp[f].data \in SetAside(orphans) \cup {{}}
      BY <2>1, <3>1 DEF Suspects, SetAside
    <3> QED  BY <1>1, <2>1, <3>2
  <2>2. CASE f \in suspect /\ interrupted[f] \in quarantine \cup {{}}
    BY <1>1, <2>2
  <2> QED  BY <1>3, <2>1, <2>2 DEF InterruptInv, InterruptionReported
<1> QED  BY <1>1, <1>2, <1>3 DEF InterruptInv, InterruptionReported

LEMMA NextInterrupts == LocalInv /\ InterruptInv /\ [Next]_vars => InterruptInv'
<1> SUFFICES ASSUME LocalInv, InterruptInv, [Next]_vars  PROVE InterruptInv'
  OBVIOUS
<1> TypeInv  BY DEF LocalInv
<1>1. CASE UNCHANGED vars
  <2>1. Undisturbed  BY <1>1 DEF Undisturbed, vars, TypeInv
  <2> QED  BY <2>1, UndisturbedInv
<1>2. ASSUME NEW c \in Cli, CreateRelated(c) \/ CreateHdd(c) \/ EditItem(c) \/ Migrate(c)
                            \/ Restore(c)
      PROVE  InterruptInv'
  BY <1>2, BegunInterrupts DEF Writer
<1>3. ASSUME NEW c \in Cli, LoadEdges(c)  PROVE InterruptInv'
  <2>1. c \in Writer  BY DEF Writer
  <2>2. proc[c].pc = "edges" /\ UNCHANGED <<suspect, quarantine, ops, interrupted, tmp>>
    BY <1>3 DEF LoadEdges, noted, disk
  <2>3. \E state : state.pc # "write" /\ proc' = [proc EXCEPT ![c] = state]
    <3> DEFINE state == [proc[c] EXCEPT !.pc = "open",
              !.mem["relations"] = live["relations"].data \cup proc[c].made["relations"]]
    <3>1. state.pc # "write"  BY <2>1, <2>2, ProcessFields DEF Process
    <3>2. Idle.pc # "write"  BY DEF Idle
    <3>3. proc' \in {[proc EXCEPT ![c] = state], [proc EXCEPT ![c] = Idle]}
      BY <1>3 DEF LoadEdges
    <3> HIDE DEF state
    <3> QED  BY <3>1, <3>2, <3>3
  <2> QED  BY <2>1, <2>2, <2>3, MovesOnInterrupts DEF InterruptInv
<1>4. ASSUME NEW p \in Writer, RunStep(p)  PROVE InterruptInv'
  BY <1>4, BegunInterrupts
<1>5. CASE ServerCommit \/ StopServer  BY <1>5, BegunInterrupts DEF Writer
<1>6. CASE StartBackup \/ Copy \/ EndBackup \/ BackupDies
  <2>1. Undisturbed
    BY <1>6 DEF Undisturbed, StartBackup, Copy, EndBackup, BackupDies, disk, noted, TypeInv
  <2> QED  BY <2>1, UndisturbedInv
<1> QED
  BY <1>1, <1>2, <1>3, <1>4, <1>5, <1>6, RestoringInterrupts, OpenInterrupts,
     RenameInterrupts, KilledInterrupts, StartServerInterrupts DEF Next

LEMMA InterruptInvariant == Spec => []InterruptInv
<1>1. Init => InterruptInv
  BY DEF Init, InterruptInv, InterruptionReported
<1> QED  BY <1>1, NextInterrupts, LocalStoreInvariant, PTL DEF Spec

\* What a kill cut short of a save is never lost and unreported: it lies in a .tmp newer
\* than the file, which the next start (recover_wal) will set aside and report, or one has;
\* until that file's next save opens the .tmp anew or a restore writes the file in place.
THEOREM LocalInterruptionReported == Spec => []InterruptionReported
<1>1. InterruptInv => InterruptionReported  BY DEF InterruptInv
<1> QED  BY <1>1, InterruptInvariant, PTL
-----------------------------------------------------------------------------
(* The tables, the numbers and the copies *)

\* What a command that ran alone reported done (a save of crud.rs, or of the server)
\* stays in every file that can be read, until a migration or a restore replaces it.
THEOREM ReportedIsKept == Spec => []AloneKept
<1>1. LocalInv => AloneKept  BY DEF LocalInv, Keeping, AloneKept
<1> QED  BY <1>1, LocalStoreInvariant, PTL

\* Two commands that each ran alone never gave out one item id or run number
\* (allocate_id, next_run_number), whatever was killed or restored in between.
THEOREM LocalNumbersUnique == Spec => []NumbersUnique
<1>1. ASSUME LocalInv, NEW m \in fresh, NEW n \in fresh, m.file = n.file, m.id = n.id
      PROVE  m.op = n.op
  <2> Numbers  BY <1>1 DEF LocalInv
  <2> DEFINE d == [op |-> m.op, id |-> m.id, new |-> TRUE]
             e == [op |-> n.op, id |-> n.id, new |-> TRUE]
  <2>1. m.file \in File /\ d \in kept[m.file] /\ e \in kept[m.file]  BY <1>1 DEF Numbers
  <2>2. OneEach(kept[m.file])  BY <2>1 DEF Numbers, Numbered
  <2>3. d.new /\ e.new /\ d.id = e.id  BY <1>1
  <2>4. d.op = m.op /\ e.op = n.op  OBVIOUS
  <2> HIDE DEF d, e
  <2> QED  BY <2>1, <2>2, <2>3, <2>4 DEF OneEach
<1>2. LocalInv => NumbersUnique  BY <1>1 DEF NumbersUnique
<1> QED  BY <1>2, LocalStoreInvariant, PTL

\* The tables, the .tmp files and the snapshots have the shapes the programs take them
\* for, and `latest` (update_latest_symlink) links to a snapshot that is there.
THEOREM LocalFilesSound == Spec => []CopiesSound
<1>1. ASSUME LocalInv, InterruptInv  PROVE CopiesSound
  <2> TypeInv  BY <1>1 DEF LocalInv
  <2>1. ops \in Nat /\ MaxBegun \in Nat /\ ops <= MaxBegun
    BY LocalStoreAssumption DEF TypeInv
  <2>2. Facts(ops) \subseteq Fact  BY <2>1 DEF Facts, Fact
  <2>3. \A f \in File : live[f].data \subseteq Fact /\ live[f].is \in Content
    BY <2>2 DEF TypeInv, Saved
  <2>4. \A f \in File : tmp[f] # Absent => tmp[f].by \subseteq Writer
    BY DEF TypeInv, Temp
  <2>5. server # Absent => \A f \in File : server[f] \subseteq Fact
    BY <2>2 DEF TypeInv, Tables
  <2>6. quarantine \subseteq SUBSET Fact  BY <2>2 DEF TypeInv
  <2>7. \A f \in File : interrupted[f] # Absent => interrupted[f] \subseteq Fact
    BY <1>1, <2>2 DEF InterruptInv
  <2>8. TypeOK  BY <2>3, <2>4, <2>5, <2>6, <2>7 DEF TypeOK, TypeInv
  <2> QED  BY <2>8 DEF CopiesSound, LatestKept, TypeInv
<1> QED  BY <1>1, LocalStoreInvariant, InterruptInvariant, PTL

=============================================================================
