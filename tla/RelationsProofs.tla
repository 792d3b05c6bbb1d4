-------------------------- MODULE RelationsProofs ---------------------------
(***************************************************************************)
(* The two halves of an edge agree, and replay rebuilds what the handlers   *)
(* made, for every vocabulary, every set of requests and every crash.  An   *)
(* edit is described once (Outline): what it leaves in the flat list of its *)
(* subject, and which rows it adds and takes away.  A handler and its       *)
(* replay both have that shape, whatever the save kept of the handler's     *)
(* result, and the shape keeps both halves together.                        *)
(***************************************************************************)
EXTENDS Relations, Integers, TLAPS

USE RelationsAssumption

Rows(t) == BagToSet(t.edges)

TableOK(t) ==
    /\ t = [status |-> t.status, edges |-> t.edges, flat |-> t.flat]
    /\ t.status \in [Id -> {"none", "live", "deleted"}]
    /\ IsABag(t.edges) /\ Rows(t) \subseteq Edge
    /\ t.flat \in [Id -> SUBSET Flat]

\* A vocabulary that has the compiled predicates.
Complying(v) == FALLBACK_PREDICATES \subseteq v.names

-----------------------------------------------------------------------------
(* Bags of rows *)

\* The copies of an element in a bag.
CountIn(b, x) == IF x \in BagToSet(b) THEN b[x] ELSE 0

\* One row more: the bag stays a bag, has that row, and as many of the others.
LEMMA RowAdded ==
    ASSUME NEW b, NEW e, IsABag(b)
    PROVE  /\ IsABag(b (+) SetToBag({e}))
           /\ BagToSet(b (+) SetToBag({e})) = BagToSet(b) \cup {e}
           /\ \A x : x # e => CountIn(b (+) SetToBag({e}), x) = CountIn(b, x)
<1> DEFINE c == b (+) SetToBag({e})
<1>1. DOMAIN SetToBag({e}) = {e} /\ SetToBag({e})[e] = 1
  BY DEF SetToBag
<1>2. DOMAIN c = DOMAIN b \cup {e}
  BY <1>1 DEF (+)
<1>3. \A x \in DOMAIN c : c[x] = (IF x \in DOMAIN b THEN b[x] ELSE 0)
                                   + (IF x \in {e} THEN SetToBag({e})[x] ELSE 0)
  BY <1>1 DEF (+)
<1>4. \A x \in DOMAIN b : b[x] \in Nat /\ b[x] > 0
  BY DEF IsABag
<1>5. c = [x \in DOMAIN c |-> c[x]]
  BY DEF (+)
<1>6. \A x \in DOMAIN c : c[x] \in {n \in Nat : n > 0}
  BY <1>1, <1>2, <1>3, <1>4
<1>7. c \in [DOMAIN c -> {n \in Nat : n > 0}]
  BY <1>5, <1>6
<1>8. ASSUME NEW x, x # e
      PROVE  CountIn(c, x) = CountIn(b, x)
  BY <1>2, <1>3, <1>4, <1>8 DEF CountIn, BagToSet
<1>9. QED
  BY <1>2, <1>7, <1>8 DEF IsABag, BagToSet

\* One row less: no other row is lost, and the row is gone if there was one of it.
LEMMA RowDropped ==
    ASSUME NEW b, NEW e, IsABag(b)
    PROVE  /\ IsABag(b (-) SetToBag({e}))
           /\ BagToSet(b (-) SetToBag({e})) \subseteq BagToSet(b)
           /\ BagToSet(b) \ {e} \subseteq BagToSet(b (-) SetToBag({e}))
           /\ CountIn(b, e) <= 1 => e \notin BagToSet(b (-) SetToBag({e}))
<1> DEFINE m == [x \in DOMAIN b |-> IF x \in {e} THEN b[x] - SetToBag({e})[x] ELSE b[x]]
           c == b (-) SetToBag({e})
<1>1. DOMAIN SetToBag({e}) = {e} /\ SetToBag({e})[e] = 1
  BY DEF SetToBag
<1>2. c = [x \in {d \in DOMAIN m : m[d] > 0} |-> m[x]]
  BY <1>1 DEF (-)
<1>3. \A x \in DOMAIN b : b[x] \in Nat /\ b[x] > 0
  BY DEF IsABag
<1>4. \A x \in DOMAIN m : m[x] \in Int
  BY <1>1, <1>3
<1>5. DOMAIN c = {d \in DOMAIN m : m[d] > 0} /\ DOMAIN m = DOMAIN b
  BY <1>2
<1>6. \A x \in DOMAIN b \ {e} : m[x] = b[x]
  OBVIOUS
<1> HIDE DEF m, c
<1>7. \A x \in DOMAIN c : c[x] = m[x] /\ c[x] \in {n \in Nat : n > 0}
  <2>1. \A x \in DOMAIN c : c[x] = m[x]
    BY <1>2
  <2>2. \A x \in DOMAIN c : m[x] \in Int /\ m[x] > 0
    BY <1>4, <1>5
  <2>3. QED
    BY <2>1, <2>2
<1>8. c = [x \in DOMAIN c |-> c[x]]
  BY <1>2
<1>9. c \in [DOMAIN c -> {n \in Nat : n > 0}]
  BY <1>7, <1>8
<1>10. ASSUME CountIn(b, e) <= 1, e \in DOMAIN b
       PROVE  e \notin DOMAIN c
  <2>1. b[e] <= 1
    BY <1>10 DEF CountIn, BagToSet
  <2>2. m[e] = b[e] - 1
    BY <1>1, <1>10 DEF m
  <2>3. ~(m[e] > 0)
    BY <1>3, <1>10, <2>1, <2>2
  <2>4. QED
    BY <1>5, <2>3
<1>11. QED
  BY <1>3, <1>5, <1>6, <1>9, <1>10 DEF c, IsABag, BagToSet

-----------------------------------------------------------------------------
(* Steps on one table *)

\* An edge added is one row more, and one more of that edge only.
LEMMA EdgeAdded ==
    ASSUME NEW t, TableOK(t), NEW e \in Edge,
           NEW u, u = AddRelation(t, e) \/ u = AddOnce(t, e)
    PROVE  /\ TableOK(u) /\ u.status = t.status /\ u.flat = t.flat
           /\ Rows(u) = Rows(t) \cup {e}
           /\ \A x : x # e => Copies(u, x) = Copies(t, x)
<1>1. CASE u = AddRelation(t, e)
  <2> DEFINE b == t.edges (+) SetToBag({e})
  <2>1. u = [status |-> t.status, edges |-> b, flat |-> t.flat]
    BY <1>1 DEF AddRelation, TableOK
  <2>2. IsABag(t.edges)
    BY DEF TableOK
  <2>3. /\ IsABag(b) /\ BagToSet(b) = BagToSet(t.edges) \cup {e}
        /\ \A x : x # e => CountIn(b, x) = CountIn(t.edges, x)
    BY <2>2, RowAdded
  <2> HIDE DEF b
  <2>4. QED
    BY <2>1, <2>3 DEF TableOK, Rows, Copies, CountIn, HasRelation, BagIn
<1>2. CASE u = AddOnce(t, e) /\ HasRelation(t, e)
  BY <1>2 DEF AddOnce, HasRelation, BagIn, Rows
<1>3. CASE u = AddOnce(t, e) /\ ~HasRelation(t, e)
  BY <1>1, <1>3 DEF AddOnce
<1>4. QED
  BY <1>1, <1>2, <1>3

\* An edge removed is at most one row less, of that edge only.
LEMMA EdgeDropped ==
    ASSUME NEW t, TableOK(t), NEW e, NEW u, u = RemoveRelation(t, e)
    PROVE  /\ TableOK(u) /\ u.status = t.status /\ u.flat = t.flat
           /\ Rows(u) \subseteq Rows(t) /\ Rows(t) \ {e} \subseteq Rows(u)
           /\ Copies(t, e) <= 1 => e \notin Rows(u)
<1> DEFINE b == t.edges (-) SetToBag({e})
<1>1. u = [status |-> t.status, edges |-> b, flat |-> t.flat]
  BY DEF RemoveRelation, TableOK
<1>2. IsABag(t.edges)
  BY DEF TableOK
<1>3. /\ IsABag(b) /\ BagToSet(b) \subseteq BagToSet(t.edges)
      /\ BagToSet(t.edges) \ {e} \subseteq BagToSet(b)
      /\ CountIn(t.edges, e) <= 1 => e \notin BagToSet(b)
  BY <1>2, RowDropped
<1> HIDE DEF b
<1>4. QED
  BY <1>1, <1>3 DEF TableOK, Rows, Copies, CountIn, HasRelation, BagIn

\* The flat entries of an edge under a complying vocabulary: those the compiled
\* predicates give it, whatever else the vocabulary has.
Entries(p, x) == ({Canonical[p]} \cap Projecting) \X {x}

\* Every complying vocabulary projects the same edges.
LEMMA SameEntries ==
    ASSUME NEW v, Complying(v), NEW p \in Spelling, NEW x
    PROVE  FlatOf(v, p, x) = Entries(p, x)
BY DEF Complying, FlatOf, FlatColumn, Lookup, Entries, Projecting, FALLBACK_PREDICATES

\* Entries are entries of a flat list.
LEMMA EntriesFlat ==
    ASSUME NEW p \in Spelling, NEW x \in Id
    PROVE  Entries(p, x) \subseteq Flat
BY DEF Entries, Flat

\* A table with another flat list for one id.
WithFlat(t, id, F) == [t EXCEPT !.flat[id] = F]

\* A change of one flat list changes nothing else.
LEMMA FlatChanged ==
    ASSUME NEW t, TableOK(t), NEW id \in Id, NEW F, F \subseteq Flat,
           NEW u, u = WithFlat(t, id, F)
    PROVE  /\ TableOK(u) /\ u.status = t.status /\ u.edges = t.edges
           /\ u.flat = [t.flat EXCEPT ![id] = F]
<1>1. u = [status |-> t.status, edges |-> t.edges, flat |-> [t.flat EXCEPT ![id] = F]]
  BY DEF TableOK, WithFlat
<1>2. [t.flat EXCEPT ![id] = F] \in [Id -> SUBSET Flat]
  BY DEF TableOK
<1>3. QED
  BY <1>1, <1>2 DEF TableOK, Rows

\* A row made: its status and its lists, nothing else.
LEMMA RowMade ==
    ASSUME NEW t, TableOK(t), NEW id \in Id, NEW F, F \subseteq Flat,
           NEW u, u = NewRow(t, id, F)
    PROVE  /\ TableOK(u) /\ u.edges = t.edges
           /\ u.status = [t.status EXCEPT ![id] = "live"]
           /\ u.flat = [t.flat EXCEPT ![id] = F]
<1>1. u = [status |-> [t.status EXCEPT ![id] = "live"], edges |-> t.edges,
           flat |-> [t.flat EXCEPT ![id] = F]]
  BY DEF NewRow
<1>2. /\ [t.flat EXCEPT ![id] = F] \in [Id -> SUBSET Flat]
      /\ [t.status EXCEPT ![id] = "live"] \in [Id -> {"none", "live", "deleted"}]
  BY DEF TableOK
<1>3. QED
  BY <1>1, <1>2 DEF TableOK, Rows

-----------------------------------------------------------------------------
(* The shape of an edit                                                     *)
(* An edit c replaces a list (depends_on), relates, and unrelates: a request *)
(* to update, or one to remove an edge.                                      *)

EditOK(c) ==
    /\ c.id \in Id
    /\ {c.relate, c.unrelate} \subseteq (Spelling \X Id) \cup {None}
    /\ c.depends_on = Same \/ c.depends_on \subseteq Id

\* The edit a relation.remove is.
RemovalOf(r) ==
    [id |-> r.id, depends_on |-> Same, relate |-> None, unrelate |-> <<r.predicate, r.target>>]

\* The flat entries an edge of an edit has, if there is one.
EntriesIn(spec) == IF spec = None THEN {} ELSE Entries(spec[1], spec[2])

Kept(F, c) ==
    IF c.depends_on = Same THEN F
    ELSE {f \in F : f[1] # "dependsOn"} \cup ListOf("dependsOn", c.depends_on)

\* What the edit makes of the flat lists of its subject.
ListAfter(F, c) == (Kept(F, c) \cup EntriesIn(c.relate)) \ EntriesIn(c.unrelate)

\* u has what the edit c leaves of t, rows outside minus included, and the rows of
\* plus outside minus.
Outline(t, u, c, plus, minus) ==
    /\ TableOK(u) /\ u.status = t.status
    /\ \A j \in Id : u.flat[j] = IF j = c.id /\ Live(t, j) THEN ListAfter(t.flat[j], c)
                                                        ELSE t.flat[j]
    /\ (Rows(t) \cup plus) \ minus \subseteq Rows(u)

\* No row comes from elsewhere, and the single rows of minus are gone.
Exact(t, u, plus, minus) ==
    /\ Rows(u) \subseteq Rows(t) \cup plus
    /\ (\A e \in minus : e \notin plus /\ Copies(t, e) <= 1) => Rows(u) \cap minus = {}

\* The rows of an edge of an edit, if there is one.
RowIn(spec, e) == IF spec = None THEN {} ELSE {e}

\* The list, then the edge to add, then the edge to remove, whichever way the two
\* edges are spelled and added: the shape of the edit.
LEMMA EditShape ==
    ASSUME NEW t, TableOK(t), NEW v, Complying(v), NEW c, EditOK(c),
           NEW e1, c.relate # None => e1 \in Edge, NEW e2, NEW a, NEW b, NEW u,
           a = IF Live(t, c.id) THEN Replaced(t, c.id, c.depends_on) ELSE t,
           c.relate = None => b = a,
           c.relate # None =>
               \/ b = AddFlat(AddRelation(a, e1), v, c.id, c.relate[1], c.relate[2])
               \/ b = AddFlat(AddOnce(a, e1), v, c.id, c.relate[1], c.relate[2]),
           c.unrelate = None => u = b,
           c.unrelate # None =>
               u = DropFlat(RemoveRelation(b, e2), v, c.id, c.unrelate[1], c.unrelate[2])
    PROVE  /\ Outline(t, u, c, RowIn(c.relate, e1), RowIn(c.unrelate, e2))
           /\ Exact(t, u, RowIn(c.relate, e1), RowIn(c.unrelate, e2))
<1> DEFINE id == c.id
           F0 == t.flat[id]
           F1 == Kept(F0, c)
           F2 == F1 \cup EntriesIn(c.relate)
           F3 == F2 \ EntriesIn(c.unrelate)
<1>1. id \in Id /\ F0 \subseteq Flat
  BY DEF EditOK, TableOK
<1>2. c.relate # None => c.relate[1] \in Spelling /\ c.relate[2] \in Id
  BY DEF EditOK
<1>3. c.unrelate # None => c.unrelate[1] \in Spelling /\ c.unrelate[2] \in Id
  BY DEF EditOK
<1>4. F1 \subseteq Flat /\ F2 \subseteq Flat /\ F3 \subseteq Flat
  <2>1. F1 \subseteq Flat
    BY <1>1 DEF Kept, ListOf, EditOK, Flat, Projecting
  <2>2. EntriesIn(c.relate) \subseteq Flat
    BY <1>2, EntriesFlat DEF EntriesIn
  <2>3. QED
    BY <2>1, <2>2
<1>5. /\ TableOK(a) /\ a.status = t.status /\ a.edges = t.edges
      /\ a.flat = IF Live(t, id) THEN [t.flat EXCEPT ![id] = F1] ELSE t.flat
  <2>1. CASE ~Live(t, id)
    BY <2>1
  <2>2. CASE Live(t, id) /\ c.depends_on = Same
    <3>1. a = t /\ F1 = F0
      BY <2>2 DEF Replaced, Kept
    <3>2. t.flat = [t.flat EXCEPT ![id] = F0]
      BY <1>1 DEF TableOK
    <3>3. QED
      BY <2>2, <3>1, <3>2
  <2>3. CASE Live(t, id) /\ c.depends_on # Same
    <3>1. a = WithFlat(t, id, F1)
      BY <2>3 DEF Replaced, Kept, WithFlat
    <3> HIDE DEF F1
    <3>2. QED
      BY <1>1, <1>4, <2>3, <3>1, FlatChanged
  <2>4. QED
    BY <2>1, <2>2, <2>3
<1> HIDE DEF F0, F1, F2, F3
<1>6. /\ TableOK(b) /\ b.status = t.status
      /\ b.flat = IF Live(t, id) THEN [t.flat EXCEPT ![id] = F2] ELSE t.flat
      /\ Rows(b) = Rows(t) \cup RowIn(c.relate, e1)
      /\ \A x : x \notin RowIn(c.relate, e1) => Copies(b, x) = Copies(t, x)
  <2>1. CASE c.relate = None
    <3>1. b = a /\ F2 = F1 /\ RowIn(c.relate, e1) = {}
      BY <2>1 DEF F2, EntriesIn, RowIn
    <3>2. QED
      BY <1>5, <3>1 DEF Rows, Copies, HasRelation
  <2>2. CASE c.relate # None
    <3> DEFINE p == c.relate[1]
               x == c.relate[2]
    <3>1. PICK d : /\ d = AddRelation(a, e1) \/ d = AddOnce(a, e1)
                   /\ b = AddFlat(d, v, id, p, x)
      BY <2>2
    <3>2. /\ TableOK(d) /\ d.status = a.status /\ d.flat = a.flat
          /\ Rows(d) = Rows(a) \cup {e1}
          /\ \A y : y # e1 => Copies(d, y) = Copies(a, y)
      <4>1. e1 \in Edge
        BY <2>2
      <4>2. QED
        BY <1>5, <3>1, <4>1, EdgeAdded
    <3>3. Rows(a) = Rows(t) /\ \A y : Copies(a, y) = Copies(t, y)
      BY <1>5 DEF Rows, Copies, HasRelation
    <3>4. RowIn(c.relate, e1) = {e1} /\ EntriesIn(c.relate) = Entries(p, x)
      BY <2>2 DEF RowIn, EntriesIn
    <3>5. FlatOf(v, p, x) = Entries(p, x)
      BY <1>2, <2>2, SameEntries
    <3>6. CASE ~Live(t, id)
      <4>1. b = d
        BY <1>5, <3>1, <3>2, <3>6 DEF AddFlat, Live
      <4>2. QED
        BY <1>5, <3>2, <3>3, <3>4, <3>6, <4>1
    <3>7. CASE Live(t, id)
      <4>1. b = [d EXCEPT !.flat[id] = d.flat[id] \cup Entries(p, x)]
        BY <1>5, <3>1, <3>2, <3>5, <3>7 DEF AddFlat, Live
      <4>2. d.flat = [t.flat EXCEPT ![id] = F1]
        BY <1>5, <3>2, <3>7
      <4>3. DOMAIN t.flat = Id
        BY DEF TableOK
      <4>4. d.flat[id] \cup Entries(p, x) = F2
        BY <1>1, <3>4, <4>2, <4>3 DEF F2
      <4>5. b = WithFlat(d, id, F2)
        BY <4>1, <4>4 DEF WithFlat
      <4>6. /\ TableOK(b) /\ b.status = d.status /\ b.edges = d.edges
            /\ b.flat = [d.flat EXCEPT ![id] = F2]
        BY <1>1, <1>4, <3>2, <4>5, FlatChanged
      <4>7. b.flat = [t.flat EXCEPT ![id] = F2]
        BY <4>2, <4>6
      <4>8. Rows(b) = Rows(d) /\ \A y : Copies(b, y) = Copies(d, y)
        BY <4>6 DEF Rows, Copies, HasRelation
      <4>9. QED
        BY <1>5, <3>2, <3>3, <3>4, <3>7, <4>6, <4>7, <4>8
    <3>8. QED
      BY <3>6, <3>7
  <2>3. QED
    BY <2>1, <2>2
<1>7. /\ TableOK(u) /\ u.status = t.status
      /\ u.flat = IF Live(t, id) THEN [t.flat EXCEPT ![id] = F3] ELSE t.flat
      /\ Rows(u) \subseteq Rows(b) /\ Rows(b) \ RowIn(c.unrelate, e2) \subseteq Rows(u)
      /\ (\A x \in RowIn(c.unrelate, e2) : Copies(b, x) <= 1)
             => Rows(u) \cap RowIn(c.unrelate, e2) = {}
  <2>1. CASE c.unrelate = None
    <3>1. u = b /\ F3 = F2 /\ RowIn(c.unrelate, e2) = {}
      BY <2>1 DEF F3, EntriesIn, RowIn
    <3>2. QED
      BY <1>6, <3>1
  <2>2. CASE c.unrelate # None
    <3> DEFINE p == c.unrelate[1]
               x == c.unrelate[2]
               d == RemoveRelation(b, e2)
    <3>1. u = DropFlat(d, v, id, p, x)
      BY <2>2
    <3> HIDE DEF d
    <3>2. /\ TableOK(d) /\ d.status = b.status /\ d.flat = b.flat
          /\ Rows(d) \subseteq Rows(b) /\ Rows(b) \ {e2} \subseteq Rows(d)
          /\ Copies(b, e2) <= 1 => e2 \notin Rows(d)
      BY <1>6, EdgeDropped DEF d
    <3>3. RowIn(c.unrelate, e2) = {e2} /\ EntriesIn(c.unrelate) = Entries(p, x)
      BY <2>2 DEF RowIn, EntriesIn
    <3>4. FlatOf(v, p, x) = Entries(p, x)
      BY <1>3, <2>2, SameEntries
    <3>5. CASE ~Live(t, id)
      <4>1. u = d
        BY <1>6, <3>1, <3>2, <3>5 DEF DropFlat, Live
      <4>2. QED
        BY <1>6, <3>2, <3>3, <3>5, <4>1
    <3>6. CASE Live(t, id)
      <4>1. u = [d EXCEPT !.flat[id] = d.flat[id] \ Entries(p, x)]
        BY <1>6, <3>1, <3>2, <3>4, <3>6 DEF DropFlat, Live
      <4>2. d.flat = [t.flat EXCEPT ![id] = F2]
        BY <1>6, <3>2, <3>6
      <4>3. DOMAIN t.flat = Id
        BY DEF TableOK
      <4>4. d.flat[id] \ Entries(p, x) = F3
        BY <1>1, <3>3, <4>2, <4>3 DEF F3
      <4>5. u = WithFlat(d, id, F3)
        BY <4>1, <4>4 DEF WithFlat
      <4>6. /\ TableOK(u) /\ u.status = d.status /\ u.edges = d.edges
            /\ u.flat = [d.flat EXCEPT ![id] = F3]
        BY <1>1, <1>4, <3>2, <4>5, FlatChanged
      <4>7. u.flat = [t.flat EXCEPT ![id] = F3]
        BY <4>2, <4>6
      <4>8. Rows(u) = Rows(d)
        BY <4>6 DEF Rows
      <4>9. QED
        BY <1>6, <3>2, <3>3, <3>6, <4>6, <4>7, <4>8
    <3>7. QED
      BY <3>5, <3>6
  <2>3. QED
    BY <2>1, <2>2
<1>8. F3 = ListAfter(t.flat[id], c)
  BY DEF F0, F1, F2, F3, ListAfter
<1>9. \A j \in Id : u.flat[j] = IF j = id /\ Live(t, j) THEN F3 ELSE t.flat[j]
  <2>1. DOMAIN t.flat = Id
    BY DEF TableOK
  <2>2. QED
    BY <1>7, <2>1
<1>10. Outline(t, u, c, RowIn(c.relate, e1), RowIn(c.unrelate, e2))
  BY <1>6, <1>7, <1>8, <1>9 DEF Outline
<1>11. Exact(t, u, RowIn(c.relate, e1), RowIn(c.unrelate, e2))
  BY <1>6, <1>7 DEF Exact
<1>12. QED
  BY <1>10, <1>11

-----------------------------------------------------------------------------
(* What an edit keeps *)

\* NoPhantom of any table, the entries in L being excused.
NoPhantomOf(t, L) ==
    \A id \in Id : Live(t, id) =>
        \A f \in t.flat[id] :
            <<id, f>> \in L \/ \E p \in Spelling : Canonical[p] = f[1] /\ <<id, p, f[2]>> \in Rows(t)

\* Both halves of one edge are there.
Both(t, e) ==
    /\ e \in Rows(t)
    /\ Live(t, e[1]) /\ e[2] \in Projecting => <<e[2], e[3]>> \in t.flat[e[1]]

\* The row e is one of the edge spec of id, however it is spelled.
Names(e, id, spec) ==
    spec # None /\ e[1] = id /\ Canonical[e[2]] = Canonical[spec[1]] /\ e[3] = spec[2]

\* plus has a row of the edge c relates, minus only rows of the one it unrelates.
Spelled(c, plus, minus) ==
    /\ plus \cup minus \subseteq Edge
    /\ c.relate # None => \E e \in plus : Names(e, c.id, c.relate)
    /\ \A e \in minus : Names(e, c.id, c.unrelate)

\* An edge is a triple, a flat entry a pair.
LEMMA Shapes ==
    /\ \A e \in Edge : e = <<e[1], e[2], e[3]>> /\ e[1] \in Id /\ e[2] \in Spelling /\ e[3] \in Id
    /\ \A f \in Flat : f = <<f[1], f[2]>> /\ f[1] \in Projecting /\ f[2] \in Id
BY DEF Edge, Flat

\* The entries of an edge of an edit: at most the one of its predicate and target.
LEMMA EntryOf ==
    ASSUME NEW spec, spec \in (Spelling \X Id) \cup {None}, None \notin Spelling \X Id, NEW f \in Flat
    PROVE  f \in EntriesIn(spec) <=> spec # None /\ f[1] = Canonical[spec[1]] /\ f[2] = spec[2]
<1>1. f = <<f[1], f[2]>> /\ f[1] \in Projecting
  BY Shapes
<1>2. CASE spec = None
  BY <1>2 DEF EntriesIn
<1>3. CASE spec # None
  <2>1. EntriesIn(spec) = ({Canonical[spec[1]]} \cap Projecting) \X {spec[2]}
    BY <1>3 DEF EntriesIn, Entries
  <2>2. QED
    BY <1>1, <1>3, <2>1
<1>4. QED
  BY <1>2, <1>3

\* An edit leaves no entry without its edge.
LEMMA EditLeavesNoPhantom ==
    ASSUME NEW t, TableOK(t), NEW u, NEW c, EditOK(c), None \notin Spelling \X Id,
           NEW plus, NEW minus, Outline(t, u, c, plus, minus), Spelled(c, plus, minus),
           NEW L, NoPhantomOf(t, L),
           c.depends_on # Same => {c.id} \X ListOf("dependsOn", c.depends_on) \subseteq L
    PROVE  NoPhantomOf(u, L)
<1> SUFFICES ASSUME NEW id \in Id, Live(u, id), NEW f \in u.flat[id], <<id, f>> \notin L
             PROVE  \E p \in Spelling : Canonical[p] = f[1] /\ <<id, p, f[2]>> \in Rows(u)
  BY DEF NoPhantomOf
<1>1. Live(t, id) /\ TableOK(u)
  BY DEF Outline, Live
<1>2. f \in Flat
  BY <1>1 DEF TableOK
<1>3. CASE id # c.id
  <2>1. f \in t.flat[id]
    BY <1>3 DEF Outline
  <2>2. PICK p \in Spelling : Canonical[p] = f[1] /\ <<id, p, f[2]>> \in Rows(t)
    BY <1>1, <2>1 DEF NoPhantomOf
  <2>3. <<id, p, f[2]>> \notin minus
    BY <1>3 DEF Spelled, Names
  <2>4. QED
    BY <2>2, <2>3 DEF Outline
<1>4. CASE id = c.id
  <2>1. f \in ListAfter(t.flat[id], c)
    BY <1>1, <1>4 DEF Outline
  <2>2. ASSUME NEW p \in Spelling, Canonical[p] = f[1]
        PROVE  <<id, p, f[2]>> \notin minus
    <3> SUFFICES ASSUME <<id, p, f[2]>> \in minus
                 PROVE  FALSE
      OBVIOUS
    <3>1. Names(<<id, p, f[2]>>, c.id, c.unrelate)
      BY DEF Spelled
    <3>2. c.unrelate # None /\ f[1] = Canonical[c.unrelate[1]] /\ f[2] = c.unrelate[2]
      BY <2>2, <3>1 DEF Names
    <3>3. f \in EntriesIn(c.unrelate)
      BY <1>2, <3>2, EntryOf DEF EditOK
    <3>4. QED
      BY <2>1, <3>3 DEF ListAfter
  <2>3. CASE f \in EntriesIn(c.relate)
    <3>1. c.relate # None /\ f[1] = Canonical[c.relate[1]] /\ f[2] = c.relate[2]
      BY <1>2, <2>3, EntryOf DEF EditOK
    <3>2. PICK e \in plus : Names(e, c.id, c.relate)
      BY <3>1 DEF Spelled
    <3>3. e = <<id, e[2], f[2]>> /\ e[2] \in Spelling /\ Canonical[e[2]] = f[1]
      BY <1>4, <3>1, <3>2, Shapes DEF Spelled, Names
    <3>4. e \in Rows(u)
      BY <2>2, <3>3 DEF Outline
    <3>5. QED
      BY <3>3, <3>4
  <2>4. CASE f \notin EntriesIn(c.relate)
    <3>1. f \in t.flat[id]
      BY <1>4, <2>1, <2>4 DEF ListAfter, Kept
    <3>2. PICK p \in Spelling : Canonical[p] = f[1] /\ <<id, p, f[2]>> \in Rows(t)
      BY <1>1, <3>1 DEF NoPhantomOf
    <3>3. QED
      BY <2>2, <3>2 DEF Outline
  <2>5. QED
    BY <2>3, <2>4
<1>5. QED
  BY <1>3, <1>4

\* An edge an edit takes away, or leaves out of the list it replaces.
TakenBy(c, e) ==
    /\ e[1] = c.id
    /\ \/ c.unrelate # None /\ e[2] = Canonical[c.unrelate[1]] /\ e[3] = c.unrelate[2]
       \/ c.depends_on # Same /\ e[2] = "dependsOn" /\ e[3] \notin c.depends_on

\* An edit keeps both halves of every edge it does not take.
LEMMA EditKeepsBoth ==
    ASSUME NEW t, TableOK(t), NEW u, NEW c, EditOK(c), None \notin Spelling \X Id,
           NEW plus, NEW minus, Outline(t, u, c, plus, minus), Spelled(c, plus, minus),
           NEW e \in Edge, Canonical[e[2]] = e[2], Both(t, e), ~TakenBy(c, e)
    PROVE  Both(u, e)
<1>1. e \notin minus
  BY DEF Spelled, Names, TakenBy
<1>2. e \in Rows(u)
  BY <1>1 DEF Outline, Both
<1>3. ASSUME Live(u, e[1]), e[2] \in Projecting
      PROVE  <<e[2], e[3]>> \in u.flat[e[1]]
  <2> DEFINE f == <<e[2], e[3]>>
  <2>1. Live(t, e[1]) /\ e[1] \in Id /\ e[3] \in Id
    BY <1>3, Shapes DEF Outline, Live
  <2>2. f \in t.flat[e[1]] /\ f \in Flat
    BY <1>3, <2>1 DEF Both, Flat
  <2>3. CASE e[1] # c.id
    BY <2>1, <2>2, <2>3 DEF Outline
  <2>4. CASE e[1] = c.id
    <3>1. f \notin EntriesIn(c.unrelate)
      BY <2>2, <2>4, EntryOf DEF EditOK, TakenBy
    <3>2. f \in Kept(t.flat[e[1]], c)
      BY <2>2, <2>4 DEF Kept, ListOf, TakenBy
    <3>3. f \in ListAfter(t.flat[e[1]], c)
      BY <3>1, <3>2 DEF ListAfter
    <3>4. QED
      BY <2>1, <2>4, <3>3 DEF Outline
  <2>5. QED
    BY <2>3, <2>4
<1>4. QED
  BY <1>2, <1>3 DEF Both

\* The edge an edit adds, unless it takes it too, has both halves.
LEMMA EditAddsBoth ==
    ASSUME NEW t, TableOK(t), NEW u, NEW c, EditOK(c), None \notin Spelling \X Id,
           NEW plus, NEW minus, Outline(t, u, c, plus, minus), Spelled(c, plus, minus),
           NEW e \in plus, Canonical[e[2]] = e[2], Names(e, c.id, c.relate), e \notin minus,
           \A d : Names(d, c.id, c.unrelate) /\ Canonical[d[2]] = d[2] /\ d \in Edge => d \in minus
    PROVE  Both(u, e)
<1>1. e \in Edge /\ e \in Rows(u)
  BY DEF Spelled, Outline
<1>2. ASSUME Live(u, e[1]), e[2] \in Projecting
      PROVE  <<e[2], e[3]>> \in u.flat[e[1]]
  <2> DEFINE f == <<e[2], e[3]>>
  <2>1. Live(t, e[1]) /\ e[1] \in Id /\ e[3] \in Id /\ e[1] = c.id
    BY <1>1, <1>2, Shapes DEF Outline, Live, Names
  <2>2. f \in Flat
    BY <1>2, <2>1 DEF Flat
  <2>3. f \in EntriesIn(c.relate)
    BY <2>2, EntryOf DEF EditOK, Names
  <2>4. ~Names(e, c.id, c.unrelate)
    BY <1>1
  <2>5. f \notin EntriesIn(c.unrelate)
    BY <2>1, <2>2, <2>4, EntryOf DEF EditOK, Names
  <2>6. f \in ListAfter(t.flat[e[1]], c)
    BY <2>3, <2>5 DEF ListAfter
  <2>7. QED
    BY <2>1, <2>6 DEF Outline
<1>3. QED
  BY <1>1, <1>2 DEF Both

-----------------------------------------------------------------------------
(* Handlers and replay as edits *)

\* The row of an edge of an edit, as a handler writes it and as it was spelled.
Written(id, spec) == RowIn(spec, <<id, Canonical[spec[1]], spec[2]>>)
Spelt(id, spec) == RowIn(spec, <<id, spec[1], spec[2]>>)

\* Both are rows of that edge.
LEMMA RowsNamed ==
    ASSUME NEW c, EditOK(c), NEW spec \in {c.relate, c.unrelate}, NEW S,
           S = Written(c.id, spec) \/ S = Spelt(c.id, spec)
    PROVE  /\ S \subseteq Edge
           /\ \A e \in S : Names(e, c.id, spec)
           /\ spec # None => \E e \in S : Names(e, c.id, spec)
<1>1. CASE spec = None
  BY <1>1 DEF Written, Spelt, RowIn
<1>2. CASE spec # None
  <2>1. spec[1] \in Spelling /\ spec[2] \in Id /\ c.id \in Id
    BY <1>2 DEF EditOK
  <2>2. Canonical[spec[1]] \in Spelling /\ Canonical[Canonical[spec[1]]] = Canonical[spec[1]]
    BY <2>1 DEF Spelling, Canonical
  <2>3. S = {<<c.id, Canonical[spec[1]], spec[2]>>} \/ S = {<<c.id, spec[1], spec[2]>>}
    BY <1>2 DEF Written, Spelt, RowIn
  <2>4. PICK p \in Spelling : Canonical[p] = Canonical[spec[1]] /\ S = {<<c.id, p, spec[2]>>}
    BY <2>1, <2>2, <2>3
  <2>5. <<c.id, p, spec[2]>> \in Edge /\ Names(<<c.id, p, spec[2]>>, c.id, spec)
    BY <1>2, <2>1, <2>4 DEF Edge, Names
  <2>6. QED
    BY <2>4, <2>5
<1>3. QED
  BY <1>1, <1>2

\* The rows an edit writes or takes are spelled as its request or canonically.
LEMMA EditRowsSpelled ==
    ASSUME NEW c, EditOK(c),
           NEW plus, plus = Written(c.id, c.relate) \/ plus = Spelt(c.id, c.relate),
           NEW minus, minus = Written(c.id, c.unrelate) \/ minus = Spelt(c.id, c.unrelate)
    PROVE  Spelled(c, plus, minus)
BY RowsNamed DEF Spelled

\* A request to update is an edit.
LEMMA UpdateIsEdit ==
    ASSUME NEW r \in Request, r.verb = "update"
    PROVE  EditOK(r)
BY RequestAssumption DEF EditOK

\* What the handler of an update makes of the tables.
LEMMA UpdatedShape ==
    ASSUME NEW r \in Request, r.verb = "update", NEW t, TableOK(t), NEW v, Complying(v),
           ~UpdateRefused(t, v, r)
    PROVE  LET plus == Written(r.id, r.relate)
               minus == Written(r.id, r.unrelate)
           IN  Outline(t, Updated(t, v, r), r, plus, minus) /\ Exact(t, Updated(t, v, r), plus, minus)
<1> DEFINE e1 == <<r.id, Canonical[r.relate[1]], r.relate[2]>>
           e2 == <<r.id, Canonical[r.unrelate[1]], r.unrelate[2]>>
           a == Replaced(t, r.id, r.depends_on)
           b == IF r.relate = None THEN a
                ELSE AddFlat(AddRelation(a, e1), v, r.id, r.relate[1], r.relate[2])
           u == Updated(t, v, r)
<1>1. EditOK(r)
  BY UpdateIsEdit
<1>2. a = IF Live(t, r.id) THEN Replaced(t, r.id, r.depends_on) ELSE t
  BY DEF UpdateRefused, Replaced
<1>3. u = IF r.unrelate = None THEN b
          ELSE DropFlat(RemoveRelation(b, e2), v, r.id, r.unrelate[1], r.unrelate[2])
  BY DEF Updated
<1>4. r.relate # None => e1 \in Edge
  BY <1>1, RowsNamed DEF Written, RowIn
<1> HIDE DEF e1, e2, a, u
<1>5. /\ Outline(t, u, r, RowIn(r.relate, e1), RowIn(r.unrelate, e2))
      /\ Exact(t, u, RowIn(r.relate, e1), RowIn(r.unrelate, e2))
  <2>1. /\ r.relate = None => b = a
        /\ r.relate # None =>
               b = AddFlat(AddRelation(a, e1), v, r.id, r.relate[1], r.relate[2])
    OBVIOUS
  <2> HIDE DEF b
  <2>2. QED
    BY <1>1, <1>2, <1>3, <1>4, <2>1, EditShape
<1>6. QED
  BY <1>5 DEF e1, e2, u, Written

\* What the replay of an update makes of the tables.
LEMMA ReplayUpdateShape ==
    ASSUME NEW r \in Request, r.verb = "update", NEW t, TableOK(t), NEW v, Complying(v)
    PROVE  LET plus == Spelt(r.id, r.relate)
               minus == Spelt(r.id, r.unrelate)
           IN  /\ Outline(t, ReplayUpdate(t, v, r), r, plus, minus)
               /\ Exact(t, ReplayUpdate(t, v, r), plus, minus)
<1> DEFINE e1 == <<r.id, r.relate[1], r.relate[2]>>
           e2 == <<r.id, r.unrelate[1], r.unrelate[2]>>
           a == IF Live(t, r.id) THEN Replaced(t, r.id, r.depends_on) ELSE t
           b == IF r.relate = None THEN a
                ELSE AddFlat(AddOnce(a, e1), v, r.id, r.relate[1], r.relate[2])
           u == ReplayUpdate(t, v, r)
<1>1. EditOK(r)
  BY UpdateIsEdit
<1>2. u = IF r.unrelate = None THEN b
          ELSE DropFlat(RemoveRelation(b, e2), v, r.id, r.unrelate[1], r.unrelate[2])
  BY DEF ReplayUpdate
<1>3. r.relate # None => e1 \in Edge
  BY <1>1, RowsNamed DEF Spelt, RowIn
<1> HIDE DEF e1, e2, u
<1>4. /\ Outline(t, u, r, RowIn(r.relate, e1), RowIn(r.unrelate, e2))
      /\ Exact(t, u, RowIn(r.relate, e1), RowIn(r.unrelate, e2))
  <2>1. /\ a = IF Live(t, r.id) THEN Replaced(t, r.id, r.depends_on) ELSE t
        /\ r.relate = None => b = a
        /\ r.relate # None => b = AddFlat(AddOnce(a, e1), v, r.id, r.relate[1], r.relate[2])
    OBVIOUS
  <2> HIDE DEF a, b
  <2>2. QED
    BY <1>1, <1>2, <1>3, <2>1, EditShape
<1>5. QED
  BY <1>4 DEF e1, e2, u, Spelt

\* What relation.remove, and its replay, make of the tables.
LEMMA RemovedShape ==
    ASSUME NEW r \in Request, r.verb = "remove", NEW t, TableOK(t), NEW v, Complying(v)
    PROVE  /\ EditOK(RemovalOf(r)) /\ Spelled(RemovalOf(r), {}, {Triple(r)})
           /\ Outline(t, Removed(t, v, r), RemovalOf(r), {}, {Triple(r)})
           /\ Exact(t, Removed(t, v, r), {}, {Triple(r)})
<1> DEFINE c == RemovalOf(r)
           u == Removed(t, v, r)
           b == IF Live(t, c.id) THEN Replaced(t, c.id, c.depends_on) ELSE t
<1>1. /\ c.id = r.id /\ c.depends_on = Same /\ c.relate = None
      /\ c.unrelate = <<r.predicate, r.target>>
      /\ r.id \in Id /\ r.predicate \in Spelling /\ r.target \in Id
      /\ None \notin Spelling \X Id
  BY RequestAssumption DEF RemovalOf
<1>2. EditOK(c) /\ c.unrelate # None
  BY <1>1 DEF EditOK
<1>3. Triple(r) = <<c.id, c.unrelate[1], c.unrelate[2]>>
  BY <1>1 DEF Triple
<1>4. RowIn(c.relate, Triple(r)) = {} /\ RowIn(c.unrelate, Triple(r)) = {Triple(r)}
  BY <1>1, <1>2 DEF RowIn
<1>5. Spelt(c.id, c.unrelate) = {Triple(r)} /\ Spelt(c.id, c.relate) = {}
  BY <1>1, <1>2, <1>3 DEF Spelt, RowIn
<1>6. Spelled(c, {}, {Triple(r)})
  BY <1>2, <1>5, EditRowsSpelled
<1>7. b = t
  BY <1>1 DEF Replaced
<1>8. u = DropFlat(RemoveRelation(t, Triple(r)), v, c.id, c.unrelate[1], c.unrelate[2])
  BY <1>1 DEF Removed
<1> HIDE DEF c, u
<1>9. /\ Outline(t, u, c, RowIn(c.relate, Triple(r)), RowIn(c.unrelate, Triple(r)))
      /\ Exact(t, u, RowIn(c.relate, Triple(r)), RowIn(c.unrelate, Triple(r)))
  <2>1. t = IF Live(t, c.id) THEN Replaced(t, c.id, c.depends_on) ELSE t
    BY <1>7
  <2>2. QED
    BY <1>1, <1>2, <1>8, <2>1, EditShape
<1>10. QED
  BY <1>2, <1>4, <1>6, <1>9 DEF c, u

\* An edit made twice leaves the list it leaves made once.
LEMMA ListOnce ==
    ASSUME NEW F, NEW c
    PROVE  ListAfter(ListAfter(F, c), c) = ListAfter(F, c)
BY DEF ListAfter, Kept, ListOf

\* What a save can leave of a result are tables.
LEMMA TornOK ==
    ASSUME NEW t, TableOK(t), NEW new, TableOK(new), NEW s \in Torn(t, new)
    PROVE  TableOK(s)
<1> DEFINE mid == [new EXCEPT !.edges = t.edges]
<1>1. mid = [status |-> new.status, edges |-> t.edges, flat |-> new.flat]
  BY DEF TableOK
<1>2. TableOK(mid)
  BY <1>1 DEF TableOK, Rows
<1>3. QED
  BY <1>2 DEF Torn

\* The table a save was cut at has the rows of one of the two.
LEMMA TornCases ==
    ASSUME NEW t, TableOK(t), NEW new, TableOK(new), NEW s \in Torn(t, new)
    PROVE  \/ s = t \/ s = new
           \/ /\ s.status = new.status /\ s.flat = new.flat /\ s.edges = t.edges
<1>1. [new EXCEPT !.edges = t.edges]
          = [status |-> new.status, edges |-> t.edges, flat |-> new.flat]
  BY DEF TableOK
<1>2. QED
  BY <1>1 DEF Torn

\* Wherever the save of an edit is cut, the edit made again on what is left is an
\* edit of the tables before.
LEMMA EditAgain ==
    ASSUME NEW t, TableOK(t), NEW c, EditOK(c), NEW new, NEW p1, NEW m1, Outline(t, new, c, p1, m1),
           NEW s \in Torn(t, new), NEW u, NEW p2, NEW m2, Outline(s, u, c, p2, m2)
    PROVE  Outline(t, u, c, p2, m1 \cup m2)
<1>1. TableOK(new) /\ TableOK(u)
  BY DEF Outline
<1>2. \/ s = t \/ s = new
      \/ /\ s.status = new.status /\ s.flat = new.flat /\ s.edges = t.edges
  BY <1>1, TornCases
<1>3. s.status = t.status
  BY <1>2 DEF Outline
<1>4. u.status = t.status
  BY <1>3 DEF Outline
<1>5. Rows(t) \ m1 \subseteq Rows(s)
  BY <1>2 DEF Outline, Rows
<1>6. (Rows(t) \cup p2) \ (m1 \cup m2) \subseteq Rows(u)
  BY <1>5 DEF Outline
<1>7. ASSUME NEW j \in Id
      PROVE  u.flat[j] = IF j = c.id /\ Live(t, j) THEN ListAfter(t.flat[j], c) ELSE t.flat[j]
  <2>1. Live(s, j) <=> Live(t, j)
    BY <1>3 DEF Live
  <2>2. u.flat[j] = IF j = c.id /\ Live(t, j) THEN ListAfter(s.flat[j], c) ELSE s.flat[j]
    BY <2>1 DEF Outline
  <2>3. new.flat[j] = IF j = c.id /\ Live(t, j) THEN ListAfter(t.flat[j], c) ELSE t.flat[j]
    BY DEF Outline
  <2>4. s.flat[j] = t.flat[j] \/ s.flat[j] = new.flat[j]
    BY <1>2
  <2>5. QED
    BY <2>2, <2>3, <2>4, ListOnce
<1>8. QED
  BY <1>1, <1>4, <1>6, <1>7 DEF Outline

-----------------------------------------------------------------------------
(* The invariant *)

\* In the table t, no entry outside L lacks its edge, and each edge of R has both its
\* halves, and a subject that no create can make from nothing: its row is there, or
\* was, or it is of a class that has none.
Holds(t, L, R) ==
    /\ TableOK(t) /\ NoPhantomOf(t, L) /\ R \subseteq Edge
    /\ \A e \in R : /\ Canonical[e[2]] = e[2]
                    /\ t.status[e[1]] # "none" \/ TypeOf[e[1]] = "proposal"
                    /\ Both(t, e)

RelInv ==
    /\ TypeOK /\ Complying(vocab)
    /\ Holds(tables, listed \cup cut, projected)
    /\ reported \subseteq Rows(tables)

\* An excuse for an entry that is in no list is not needed.
LEMMA FewerExcuses ==
    ASSUME NEW t, NEW L, NEW R, Holds(t, L, R)
    PROVE  Holds(t, {l \in L : l[2] \in t.flat[l[1]]}, R)
<1> DEFINE K == {l \in L : l[2] \in t.flat[l[1]]}
<1>1. NoPhantomOf(t, K)
  <2> SUFFICES ASSUME NEW j \in Id, Live(t, j), NEW f \in t.flat[j], <<j, f>> \notin K
               PROVE  \E p \in Spelling : Canonical[p] = f[1] /\ <<j, p, f[2]>> \in Rows(t)
    BY DEF NoPhantomOf
  <2>1. <<j, f>> \notin L
    OBVIOUS
  <2> QED  BY <2>1 DEF Holds, NoPhantomOf
<1> QED  BY <1>1 DEF Holds

\* An edit keeps what holds of the edges it does not take.
LEMMA EditHolds ==
    ASSUME NEW t, NEW L, NEW R, Holds(t, L, R),
           NEW u, NEW c, EditOK(c), None \notin Spelling \X Id,
           NEW plus, NEW minus, Outline(t, u, c, plus, minus), Spelled(c, plus, minus),
           NEW M, L \subseteq M,
           c.depends_on # Same => {c.id} \X ListOf("dependsOn", c.depends_on) \subseteq M,
           NEW S, S \subseteq R, \A e \in S : ~TakenBy(c, e)
    PROVE  Holds(u, M, S)
<1>1. TableOK(t) /\ NoPhantomOf(t, M)
  BY DEF Holds, NoPhantomOf
<1>2. NoPhantomOf(u, M)
  BY <1>1, EditLeavesNoPhantom
<1>3. ASSUME NEW e \in S
      PROVE  /\ Canonical[e[2]] = e[2]
             /\ u.status[e[1]] # "none" \/ TypeOf[e[1]] = "proposal"
             /\ Both(u, e)
  <2>1. /\ e \in Edge /\ Canonical[e[2]] = e[2] /\ Both(t, e) /\ ~TakenBy(c, e)
        /\ t.status[e[1]] # "none" \/ TypeOf[e[1]] = "proposal"
    BY <1>3 DEF Holds
  <2>2. Both(u, e)
    BY <1>1, <2>1, EditKeepsBoth
  <2>3. QED
    BY <2>1, <2>2 DEF Outline
<1>4. QED
  BY <1>2, <1>3 DEF Holds, Outline

\* u is t with the row of id made, and perhaps more rows of edges.
Opened(t, u, id, F) ==
    /\ TableOK(u)
    /\ u.status = [t.status EXCEPT ![id] = "live"] /\ u.flat = [t.flat EXCEPT ![id] = F]
    /\ Rows(t) \subseteq Rows(u)

\* Making a row that was not there keeps what holds, if its entries are excused or have
\* their edges.
LEMMA OpeningHolds ==
    ASSUME NEW t, NEW L, NEW R, Holds(t, L, R), NEW id \in Id, t.status[id] = "none",
           TypeOf[id] # "proposal", NEW u, NEW F, Opened(t, u, id, F), NEW M, L \subseteq M,
           \A f \in F : \/ <<id, f>> \in M
                       \/ \E p \in Spelling : Canonical[p] = f[1] /\ <<id, p, f[2]>> \in Rows(u)
    PROVE  Holds(u, M, R)
<1>1. DOMAIN t.status = Id /\ DOMAIN t.flat = Id
  BY DEF Holds, TableOK
<1>2. \A j \in Id : j # id => u.status[j] = t.status[j] /\ u.flat[j] = t.flat[j]
  BY <1>1 DEF Opened
<1>3. u.flat[id] = F /\ u.status[id] = "live"
  BY <1>1 DEF Opened
<1>4. NoPhantomOf(u, M)
  <2> SUFFICES ASSUME NEW j \in Id, Live(u, j), NEW f \in u.flat[j], <<j, f>> \notin M
               PROVE  \E p \in Spelling : Canonical[p] = f[1] /\ <<j, p, f[2]>> \in Rows(u)
    BY DEF NoPhantomOf
  <2>1. CASE j = id
    BY <1>3, <2>1
  <2>2. CASE j # id
    <3>1. Live(t, j) /\ f \in t.flat[j]
      BY <1>2, <2>2 DEF Live
    <3>2. PICK p \in Spelling : Canonical[p] = f[1] /\ <<j, p, f[2]>> \in Rows(t)
      BY <3>1 DEF Holds, NoPhantomOf
    <3>3. QED
      BY <3>2 DEF Opened
  <2>3. QED
    BY <2>1, <2>2
<1>5. ASSUME NEW e \in R
      PROVE  /\ Canonical[e[2]] = e[2]
             /\ u.status[e[1]] # "none" \/ TypeOf[e[1]] = "proposal"
             /\ Both(u, e)
  <2>1. /\ e \in Edge /\ Canonical[e[2]] = e[2] /\ Both(t, e)
        /\ t.status[e[1]] # "none" \/ TypeOf[e[1]] = "proposal"
    BY DEF Holds
  <2>2. e[1] \in Id /\ e[1] # id
    BY <2>1, Shapes
  <2>3. Both(u, e)
    BY <1>2, <2>1, <2>2 DEF Both, Live, Opened
  <2>4. QED
    BY <1>2, <2>1, <2>2, <2>3
<1>6. QED
  BY <1>4, <1>5 DEF Holds, Opened

\* u has the rows of t and perhaps more, the same lists, and no new live row.
Quieter(t, u) ==
    /\ TableOK(u) /\ u.flat = t.flat /\ Rows(t) \subseteq Rows(u)
    /\ \A j \in Id : /\ Live(u, j) => Live(t, j)
                     /\ t.status[j] # "none" => u.status[j] # "none"

\* A step that keeps the lists and every edge row, and revives nothing, keeps what holds.
LEMMA QuieterHolds ==
    ASSUME NEW t, NEW L, NEW R, Holds(t, L, R), NEW u, Quieter(t, u),
           NEW M, L \subseteq M, NEW S, S \subseteq R
    PROVE  Holds(u, M, S)
<1>1. NoPhantomOf(u, M)
  BY DEF Holds, NoPhantomOf, Quieter
<1>2. ASSUME NEW e \in S
      PROVE  /\ Canonical[e[2]] = e[2]
             /\ u.status[e[1]] # "none" \/ TypeOf[e[1]] = "proposal"
             /\ Both(u, e)
  <2>1. /\ e \in Edge /\ Canonical[e[2]] = e[2] /\ Both(t, e)
        /\ t.status[e[1]] # "none" \/ TypeOf[e[1]] = "proposal"
    BY DEF Holds
  <2>2. e[1] \in Id
    BY <2>1, Shapes
  <2>3. QED
    BY <2>1, <2>2 DEF Both, Quieter
<1>3. QED
  BY <1>1, <1>2 DEF Holds, Quieter

\* More edges of which the same holds.
LEMMA HoldsForMore ==
    ASSUME NEW u, NEW L, NEW R, Holds(u, L, R), NEW S, S \subseteq Edge,
           \A e \in S : /\ Canonical[e[2]] = e[2]
                        /\ u.status[e[1]] # "none" \/ TypeOf[e[1]] = "proposal"
                        /\ Both(u, e)
    PROVE  Holds(u, L, R \cup S)
<1>1. ASSUME NEW e \in R \cup S
      PROVE  /\ Canonical[e[2]] = e[2]
             /\ u.status[e[1]] # "none" \/ TypeOf[e[1]] = "proposal"
             /\ Both(u, e)
  <2>1. CASE e \in R
    BY <2>1 DEF Holds
  <2>2. CASE e \in S
    BY <2>2
  <2>3. QED
    BY <2>1, <2>2
<1>2. TableOK(u) /\ NoPhantomOf(u, L) /\ R \cup S \subseteq Edge
  BY DEF Holds
<1>3. QED
  BY <1>1, <1>2 DEF Holds

-----------------------------------------------------------------------------
(* Creations, additions and deletions *)

\* What the handler of a create makes, under any complying vocabulary.
LEMMA CreatedShape ==
    ASSUME NEW r \in Request, r.verb = "create", NEW t, TableOK(t), NEW v, Complying(v)
    PROVE  LET F == ListOf("dependsOn", r.depends_on) \cup EntriesIn(r.relate)
           IN  /\ F \subseteq Flat /\ Opened(t, Created(t, v, r), r.id, F)
               /\ Rows(Created(t, v, r)) = Rows(t) \cup Written(r.id, r.relate)
<1> DEFINE F == ListOf("dependsOn", r.depends_on) \cup EntriesIn(r.relate)
           n == NewRow(t, r.id, F)
           u == Created(t, v, r)
<1>1. /\ r.id \in Id /\ r.depends_on \subseteq Id
      /\ r.relate \in (Spelling \X Id) \cup {None}
  BY RequestAssumption
<1>2. F \subseteq Flat
  <2>1. ListOf("dependsOn", r.depends_on) \subseteq Flat
    BY <1>1 DEF ListOf, Flat, Projecting
  <2>2. EntriesIn(r.relate) \subseteq Flat
    BY <1>1, EntriesFlat DEF EntriesIn
  <2>3. QED
    BY <2>1, <2>2
<1>3. /\ TableOK(n) /\ n.edges = t.edges
      /\ n.status = [t.status EXCEPT ![r.id] = "live"]
      /\ n.flat = [t.flat EXCEPT ![r.id] = F]
  <2> HIDE DEF F
  <2>1. n = NewRow(t, r.id, F)
    BY DEF n
  <2> HIDE DEF n
  <2>2. QED
    BY <1>1, <1>2, <2>1, RowMade
<1>4. CASE r.relate = None
  <2>1. F = ListOf("dependsOn", r.depends_on) /\ Written(r.id, r.relate) = {}
    BY <1>4 DEF EntriesIn, Written, RowIn
  <2>2. u = n
    BY <1>4, <2>1 DEF Created
  <2> HIDE DEF F, n, u
  <2>3. Opened(t, u, r.id, F) /\ Rows(u) = Rows(t) \cup Written(r.id, r.relate)
    BY <1>3, <2>1, <2>2 DEF Opened, Rows
  <2>4. QED
    BY <1>2, <2>3 DEF F, u
<1>5. CASE r.relate # None
  <2> DEFINE e == <<r.id, Canonical[r.relate[1]], r.relate[2]>>
  <2>1. FlatOf(v, r.relate[1], r.relate[2]) = EntriesIn(r.relate)
    BY <1>1, <1>5, SameEntries DEF EntriesIn
  <2>2. u = AddRelation(n, e)
    BY <1>5, <2>1 DEF Created
  <2>3. Written(r.id, r.relate) = {e}
    BY <1>5 DEF Written, RowIn
  <2>4. e \in Edge
    BY <1>1, <1>5 DEF Edge, Spelling, Canonical
  <2> HIDE DEF F, n, u, e
  <2>5. /\ TableOK(u) /\ u.status = n.status /\ u.flat = n.flat
        /\ Rows(u) = Rows(n) \cup {e}
    BY <1>3, <2>2, <2>4, EdgeAdded
  <2>6. Opened(t, u, r.id, F) /\ Rows(u) = Rows(t) \cup Written(r.id, r.relate)
    BY <1>3, <2>3, <2>5 DEF Opened, Rows
  <2>7. QED
    BY <1>2, <2>6 DEF F, u
<1>6. QED
  BY <1>4, <1>5

\* What the handler of an hdd create makes, and what its replay makes from nothing.
LEMMA HddShape ==
    ASSUME NEW r \in Request, r.verb = "hdd", NEW t, TableOK(t)
    PROVE  LET F == ListOf("related", {r.paper})
           IN  /\ <<r.id, "tests", r.paper>> \in Edge /\ F \subseteq Flat
               /\ Opened(t, HddCreated(t, r), r.id, F)
               /\ Rows(HddCreated(t, r)) = Rows(t) \cup {<<r.id, "tests", r.paper>>}
               /\ Opened(t, NewRow(t, r.id, {}), r.id, {})
<1> DEFINE F == ListOf("related", {r.paper})
           n == NewRow(t, r.id, F)
           m == NewRow(t, r.id, {})
           e == <<r.id, "tests", r.paper>>
           u == HddCreated(t, r)
<1>1. r.id \in Id /\ r.paper \in Id
  BY RequestAssumption
<1>2. F \subseteq Flat /\ {} \subseteq Flat
  BY <1>1 DEF ListOf, Flat, Projecting
<1>3. e \in Edge
  BY <1>1 DEF Edge, Spelling, Canonical
<1>4. u = AddRelation(n, e)
  BY DEF HddCreated
<1>5. /\ TableOK(n) /\ n.edges = t.edges
      /\ n.status = [t.status EXCEPT ![r.id] = "live"]
      /\ n.flat = [t.flat EXCEPT ![r.id] = F]
  <2> HIDE DEF F
  <2>1. n = NewRow(t, r.id, F)
    BY DEF n
  <2> HIDE DEF n
  <2>2. QED
    BY <1>1, <1>2, <2>1, RowMade
<1>6. /\ TableOK(m) /\ m.edges = t.edges
      /\ m.status = [t.status EXCEPT ![r.id] = "live"]
      /\ m.flat = [t.flat EXCEPT ![r.id] = {}]
  <2> DEFINE E == {}
  <2>1. m = NewRow(t, r.id, E) /\ E \subseteq Flat
    BY DEF m
  <2> HIDE DEF m, E
  <2>2. QED
    <3>1. /\ TableOK(m) /\ m.edges = t.edges
          /\ m.status = [t.status EXCEPT ![r.id] = "live"]
          /\ m.flat = [t.flat EXCEPT ![r.id] = E]
      BY <1>1, <2>1, RowMade
    <3>2. QED
      BY <3>1 DEF E
<1> HIDE DEF F, n, m, e, u
<1>7. /\ TableOK(u) /\ u.status = n.status /\ u.flat = n.flat
      /\ Rows(u) = Rows(n) \cup {e}
  BY <1>3, <1>4, <1>5, EdgeAdded
<1>8. /\ Opened(t, u, r.id, F) /\ Rows(u) = Rows(t) \cup {e}
      /\ Opened(t, m, r.id, {})
  BY <1>5, <1>6, <1>7 DEF Opened, Rows
<1>9. QED
  BY <1>2, <1>3, <1>8 DEF F, m, e, u

\* What relation.add makes, and its replay, and a delete.
LEMMA AddedShape ==
    ASSUME NEW r \in Request, r.verb = "add", NEW t, TableOK(t),
           NEW u, u = Added(t, r) \/ u = AddOnce(t, Triple(r))
    PROVE  Triple(r) \in Edge /\ Quieter(t, u) /\ Rows(u) = Rows(t) \cup {Triple(r)}
           /\ u.status = t.status
<1>1. Triple(r) \in Edge
  BY RequestAssumption DEF Triple, Edge
<1>2. u = AddRelation(t, Triple(r)) \/ u = AddOnce(t, Triple(r))
  BY DEF Added
<1>3. /\ TableOK(u) /\ u.status = t.status /\ u.flat = t.flat
      /\ Rows(u) = Rows(t) \cup {Triple(r)}
  BY <1>1, <1>2, EdgeAdded
<1>4. QED
  BY <1>1, <1>3 DEF Quieter, Live

\* A delete changes one status.
LEMMA DeletedShape ==
    ASSUME NEW r \in Request, r.verb = "delete", NEW t, TableOK(t), Live(t, r.id)
    PROVE  LET u == Deleted(t, r)
           IN  /\ Quieter(t, u) /\ u.status = [t.status EXCEPT ![r.id] = "deleted"]
               /\ u.edges = t.edges /\ u.flat = t.flat
<1> DEFINE u == Deleted(t, r)
<1>1. r.id \in Id
  BY RequestAssumption
<1>2. u = [status |-> [t.status EXCEPT ![r.id] = "deleted"], edges |-> t.edges, flat |-> t.flat]
  BY DEF Deleted, TableOK
<1>3. [t.status EXCEPT ![r.id] = "deleted"] \in [Id -> {"none", "live", "deleted"}]
  BY DEF TableOK
<1> HIDE DEF u
<1>4. TableOK(u)
  BY <1>2, <1>3 DEF TableOK, Rows
<1>5. Quieter(t, u) /\ u.status = [t.status EXCEPT ![r.id] = "deleted"]
      /\ u.edges = t.edges /\ u.flat = t.flat
  BY <1>1, <1>2, <1>4 DEF Quieter, Live, TableOK, Rows
<1>6. QED
  BY <1>5 DEF u

-----------------------------------------------------------------------------
(* Every request served keeps the invariant *)

\* What the running and the compiled vocabulary allow.
LEMMA BothComply == RelInv => Complying(vocab) /\ Complying(Embedded) /\ vocab.entities \subseteq {"proposal"}
BY DEF RelInv, Complying, TypeOK, Vocabulary

\* A predicate's canonical name is its own.
LEMMA CanonicalTwice == \A p \in Spelling : Canonical[p] \in Spelling /\ Canonical[Canonical[p]] = Canonical[p]
BY DEF Spelling, Canonical

\* The projected edges an update does not take from, stay.
LEMMA UntouchedByUpdate ==
    ASSUME NEW r \in Request, r.verb = "update", projected \subseteq Edge
    PROVE  \A e \in projected \ Unprojects(r) : ~TakenBy(r, e)
<1> SUFFICES ASSUME NEW e \in projected, TakenBy(r, e)
             PROVE  e \in Unprojects(r)
  OBVIOUS
<1>1. r.unrelate # None => Canonical[Canonical[r.unrelate[1]]] = Canonical[r.unrelate[1]]
  BY RequestAssumption, CanonicalTwice
<1> QED  BY <1>1 DEF Unprojects, Unsays, TakenBy

\* The same for a removal.
LEMMA UntouchedByRemove ==
    ASSUME NEW r \in Request, r.verb = "remove", projected \subseteq Edge
    PROVE  \A e \in projected \ Unprojects(r) : ~TakenBy(RemovalOf(r), e)
<1> SUFFICES ASSUME NEW e \in projected, TakenBy(RemovalOf(r), e)
             PROVE  e \in Unprojects(r)
  OBVIOUS
<1>1. Canonical[Canonical[r.predicate]] = Canonical[r.predicate]
  BY RequestAssumption, CanonicalTwice
<1> QED  BY <1>1 DEF Unprojects, Unsays, TakenBy, RemovalOf

\* The rows an edit takes are of an edge its request names.
LEMMA TakenIsNamed ==
    ASSUME NEW r \in Request, NEW c,
           \/ r.verb = "update" /\ c = r
           \/ r.verb = "remove" /\ c = RemovalOf(r)
    PROVE  \A e \in Edge : Names(e, c.id, c.unrelate) => e \in Unsays(r)
BY DEF Names, Unsays, RemovalOf

\* An edit keeps the reported rows that its request does not name.
LEMMA EditKeepsRows ==
    ASSUME RelInv, NEW r, NEW c, NEW u, NEW plus, NEW minus,
           \A e \in Edge : Names(e, c.id, c.unrelate) => e \in Unsays(r),
           Outline(tables, u, c, plus, minus), Spelled(c, plus, minus)
    PROVE  reported \ Unsays(r) \subseteq Rows(u)
<1> SUFFICES ASSUME NEW e \in reported, e \notin Unsays(r)
             PROVE  e \in Rows(u)
  OBVIOUS
<1>1. e \in Rows(tables) /\ e \in Edge
  BY DEF RelInv, Holds, TableOK
<1>2. ~Names(e, c.id, c.unrelate)
  BY <1>1
<1>3. e \notin minus
  BY <1>2 DEF Spelled
<1> QED  BY <1>1, <1>3 DEF Outline

\* Served, an update keeps what holds.
LEMMA ServeUpdate ==
    ASSUME RelInv, NEW r \in Request, r.verb = "update", ~Refused(tables, vocab, r)
    PROVE  /\ Holds(Handled(tables, vocab, r), (listed \cup Lists(r)) \cup cut,
                    (projected \ Unprojects(r)) \cup (Projects(r) \ Removes(r)))
           /\ (reported \ Unsays(r)) \cup (Says(r) \ Removes(r))
                  \subseteq Rows(Handled(tables, vocab, r))
<1> DEFINE t == tables
           u == Updated(tables, vocab, r)
           plus == Written(r.id, r.relate)
           minus == Written(r.id, r.unrelate)
           M == (listed \cup Lists(r)) \cup cut
<1>1. /\ Holds(t, listed \cup cut, projected) /\ TableOK(t) /\ Complying(vocab)
      /\ None \notin Spelling \X Id /\ EditOK(r) /\ ~UpdateRefused(t, vocab, r)
      /\ projected \subseteq Edge
  BY UpdateIsEdit, RequestAssumption DEF RelInv, Holds, Refused
<1>2. Handled(tables, vocab, r) = u
  BY DEF Handled
<1>3. Projects(r) = plus /\ Says(r) = plus /\ Removes(r) = minus
  BY DEF Projects, Says, Removes, Written, RowIn
<1>4. Outline(t, u, r, plus, minus)
  BY <1>1, UpdatedShape
<1>5. Spelled(r, plus, minus)
  BY <1>1, EditRowsSpelled
<1>6. listed \cup cut \subseteq M
  OBVIOUS
<1>7. r.depends_on # Same => {r.id} \X ListOf("dependsOn", r.depends_on) \subseteq M
  BY DEF Lists
<1>8. \A e \in projected \ Unprojects(r) : ~TakenBy(r, e)
  BY <1>1, UntouchedByUpdate
<1>9. \A d : Names(d, r.id, r.unrelate) /\ Canonical[d[2]] = d[2] /\ d \in Edge => d \in minus
  BY Shapes DEF Names, Written, RowIn
<1> HIDE DEF t, u, plus, minus, M
<1>10. Holds(u, M, projected \ Unprojects(r))
  BY <1>1, <1>4, <1>5, <1>6, <1>7, <1>8, EditHolds
<1>11. ASSUME NEW e \in plus \ minus
       PROVE  /\ e \in Edge /\ Canonical[e[2]] = e[2]
              /\ u.status[e[1]] # "none" \/ TypeOf[e[1]] = "proposal"
              /\ Both(u, e)
  <2>1. r.relate # None /\ e = <<r.id, Canonical[r.relate[1]], r.relate[2]>>
    BY DEF plus, Written, RowIn
  <2>2. e \in Edge /\ Names(e, r.id, r.relate)
    BY <1>1, <2>1, RowsNamed DEF plus
  <2>3. r.relate[1] \in Spelling
    BY <1>1, <2>1 DEF EditOK
  <2>4. Canonical[e[2]] = e[2]
    BY <2>1, <2>3 DEF Spelling, Canonical
  <2>5. Both(u, e)
    BY <1>1, <1>4, <1>5, <1>9, <2>2, <2>4, EditAddsBoth
  <2>6. Live(t, r.id) \/ TypeOf[r.id] = "proposal"
    BY <1>1, BothComply DEF UpdateRefused, Entity
  <2>7. u.status[e[1]] # "none" \/ TypeOf[e[1]] = "proposal"
    BY <1>4, <2>1, <2>6 DEF Outline, Live
  <2>8. QED
    BY <2>2, <2>4, <2>5, <2>7
<1>12. Holds(u, M, (projected \ Unprojects(r)) \cup (plus \ minus))
  <2> DEFINE S == plus \ minus
  <2>1. S \subseteq Edge
    BY <1>11
  <2>2. \A e \in S : /\ Canonical[e[2]] = e[2]
                     /\ u.status[e[1]] # "none" \/ TypeOf[e[1]] = "proposal"
                     /\ Both(u, e)
    BY <1>11
  <2> HIDE DEF S
  <2>3. Holds(u, M, (projected \ Unprojects(r)) \cup S)
    BY <1>10, <2>1, <2>2, HoldsForMore
  <2>4. QED
    BY <2>3 DEF S
<1>13. reported \ Unsays(r) \subseteq Rows(u)
  <2>1. \A e \in Edge : Names(e, r.id, r.unrelate) => e \in Unsays(r)
    BY TakenIsNamed
  <2>2. Outline(tables, u, r, plus, minus)
    BY <1>4 DEF t
  <2>3. QED
    BY <1>5, <2>1, <2>2, EditKeepsRows
<1>14. plus \ minus \subseteq Rows(u)
  BY <1>4 DEF Outline
<1>15. QED
  BY <1>2, <1>3, <1>12, <1>13, <1>14 DEF u, plus, minus, M

\* Served, a removal keeps what holds.
LEMMA ServeRemove ==
    ASSUME RelInv, NEW r \in Request, r.verb = "remove"
    PROVE  /\ Holds(Handled(tables, vocab, r), (listed \cup Lists(r)) \cup cut,
                    (projected \ Unprojects(r)) \cup (Projects(r) \ Removes(r)))
           /\ (reported \ Unsays(r)) \cup (Says(r) \ Removes(r))
                  \subseteq Rows(Handled(tables, vocab, r))
<1> DEFINE c == RemovalOf(r)
           u == Removed(tables, vocab, r)
           M == (listed \cup Lists(r)) \cup cut
<1>1. /\ Holds(tables, listed \cup cut, projected) /\ TableOK(tables) /\ Complying(vocab)
      /\ None \notin Spelling \X Id /\ projected \subseteq Edge
  BY RequestAssumption DEF RelInv, Holds
<1>2. Handled(tables, vocab, r) = u /\ Projects(r) = {} /\ Says(r) = {}
  BY DEF Handled, Projects, Says
<1>3. /\ EditOK(c) /\ Spelled(c, {}, {Triple(r)})
      /\ Outline(tables, u, c, {}, {Triple(r)})
  BY <1>1, RemovedShape
<1>4. c.depends_on = Same
  BY DEF RemovalOf
<1>5. \A e \in projected \ Unprojects(r) : ~TakenBy(c, e)
  BY <1>1, UntouchedByRemove
<1>6. listed \cup cut \subseteq M
  OBVIOUS
<1>7. reported \ Unsays(r) \subseteq Rows(u)
  <2> DEFINE plus == {}
             minus == {Triple(r)}
  <2>1. Spelled(c, plus, minus) /\ Outline(tables, u, c, plus, minus)
    BY <1>3
  <2>2. \A e \in Edge : Names(e, c.id, c.unrelate) => e \in Unsays(r)
    BY TakenIsNamed
  <2> HIDE DEF plus, minus, c, u
  <2>3. QED
    BY <2>1, <2>2, EditKeepsRows
<1> HIDE DEF c, u, M
<1>8. Holds(u, M, projected \ Unprojects(r))
  <2> DEFINE plus == {}
             minus == {Triple(r)}
  <2>1. Spelled(c, plus, minus) /\ Outline(tables, u, c, plus, minus)
    BY <1>3
  <2> HIDE DEF plus, minus
  <2>2. QED
    BY <1>1, <1>3, <1>4, <1>5, <1>6, <2>1, EditHolds
<1>9. QED
  BY <1>2, <1>8, <1>7 DEF u, M

\* Served, a create keeps what holds.
LEMMA ServeCreate ==
    ASSUME RelInv, NEW r \in Request, r.verb = "create", ~Refused(tables, vocab, r)
    PROVE  /\ Holds(Handled(tables, vocab, r), (listed \cup Lists(r)) \cup cut,
                    (projected \ Unprojects(r)) \cup (Projects(r) \ Removes(r)))
           /\ (reported \ Unsays(r)) \cup (Says(r) \ Removes(r))
                  \subseteq Rows(Handled(tables, vocab, r))
<1> DEFINE u == Created(tables, vocab, r)
           M == (listed \cup Lists(r)) \cup cut
           F == ListOf("dependsOn", r.depends_on) \cup EntriesIn(r.relate)
           S == Written(r.id, r.relate)
<1>1. /\ Holds(tables, listed \cup cut, projected) /\ TableOK(tables) /\ Complying(vocab)
      /\ tables.status[r.id] = "none" /\ r.id \in Id /\ TypeOf[r.id] # "proposal"
      /\ r.relate \in (Spelling \X Id) \cup {None} /\ None \notin Spelling \X Id
  BY RequestAssumption DEF RelInv, Holds, Refused, CreateRefused
<1>2. /\ Handled(tables, vocab, r) = u /\ Unprojects(r) = {} /\ Projects(r) = S
      /\ Says(r) = S /\ Removes(r) = {}
  BY DEF Handled, Unprojects, Unsays, Projects, Says, Removes, Written, RowIn
<1>3. F \subseteq Flat /\ Opened(tables, u, r.id, F) /\ Rows(u) = Rows(tables) \cup S
  BY <1>1, CreatedShape
<1>4. listed \cup cut \subseteq M /\ {r.id} \X ListOf("dependsOn", r.depends_on) \subseteq M
  BY DEF Lists
<1>5. ASSUME NEW f \in EntriesIn(r.relate)
      PROVE  \E p \in Spelling : Canonical[p] = f[1] /\ <<r.id, p, f[2]>> \in Rows(u)
  <2>1. f \in Flat
    BY <1>3
  <2>2. r.relate # None /\ f[1] = Canonical[r.relate[1]] /\ f[2] = r.relate[2]
    BY <1>1, <2>1, EntryOf
  <2>3. <<r.id, f[1], f[2]>> \in Rows(u)
    BY <1>3, <2>2 DEF Written, RowIn
  <2>4. f[1] \in Spelling /\ Canonical[f[1]] = f[1]
    BY <1>1, <2>2 DEF Spelling, Canonical
  <2>5. QED
    BY <2>3, <2>4
<1>6. \A f \in F : \/ <<r.id, f>> \in M
                  \/ \E p \in Spelling : Canonical[p] = f[1] /\ <<r.id, p, f[2]>> \in Rows(u)
  BY <1>4, <1>5
<1>7. ASSUME NEW e \in S
      PROVE  /\ e \in Edge /\ Canonical[e[2]] = e[2]
             /\ u.status[e[1]] # "none" \/ TypeOf[e[1]] = "proposal"
             /\ Both(u, e)
  <2>1. r.relate # None /\ e = <<r.id, Canonical[r.relate[1]], r.relate[2]>>
    BY DEF Written, RowIn
  <2>2. r.relate[1] \in Spelling /\ r.relate[2] \in Id
    BY <1>1, <2>1
  <2>3. e \in Edge /\ Canonical[e[2]] = e[2]
    BY <1>1, <2>1, <2>2 DEF Spelling, Canonical, Edge
  <2>4. DOMAIN tables.status = Id /\ DOMAIN tables.flat = Id
    BY <1>1 DEF TableOK
  <2>5. u.status[e[1]] = "live" /\ u.flat[e[1]] = F
    BY <1>1, <1>3, <2>1, <2>4 DEF Opened
  <2>6. e[2] \in Projecting => <<e[2], e[3]>> \in F
    BY <2>1, <2>2, <2>3 DEF EntriesIn, Entries
  <2>7. QED
    BY <1>3, <2>3, <2>5, <2>6 DEF Both
<1> HIDE DEF u, M, F, S
<1>8. Holds(u, M, projected)
  BY <1>1, <1>3, <1>4, <1>6, OpeningHolds
<1>9. Holds(u, M, projected \cup S)
  <2>1. S \subseteq Edge
    BY <1>7
  <2>2. QED
    BY <1>7, <1>8, <2>1, HoldsForMore
<1>10. (projected \ Unprojects(r)) \cup (Projects(r) \ Removes(r)) = projected \cup S
  BY <1>2
<1>11. reported \cup S \subseteq Rows(u)
  BY <1>3 DEF RelInv
<1>12. QED
  BY <1>2, <1>9, <1>10, <1>11 DEF u, M

\* Served, an hdd create keeps what holds.
LEMMA ServeHdd ==
    ASSUME RelInv, NEW r \in Request, r.verb = "hdd", ~Refused(tables, vocab, r)
    PROVE  /\ Holds(Handled(tables, vocab, r), (listed \cup Lists(r)) \cup cut,
                    (projected \ Unprojects(r)) \cup (Projects(r) \ Removes(r)))
           /\ (reported \ Unsays(r)) \cup (Says(r) \ Removes(r))
                  \subseteq Rows(Handled(tables, vocab, r))
<1> DEFINE u == HddCreated(tables, r)
           M == (listed \cup Lists(r)) \cup cut
           F == ListOf("related", {r.paper})
           e == <<r.id, "tests", r.paper>>
<1>1. /\ Holds(tables, listed \cup cut, projected) /\ TableOK(tables)
      /\ tables.status[r.id] = "none" /\ r.id \in Id /\ TypeOf[r.id] # "proposal"
  BY RequestAssumption DEF RelInv, Holds, Refused, HddRefused
<1>2. /\ Handled(tables, vocab, r) = u /\ Unprojects(r) = {} /\ Projects(r) = {e}
      /\ Says(r) = {e} /\ Removes(r) = {}
  BY DEF Handled, Unprojects, Unsays, Projects, Says, Removes
<1>3. /\ e \in Edge /\ F \subseteq Flat /\ Opened(tables, u, r.id, F)
      /\ Rows(u) = Rows(tables) \cup {e}
  BY <1>1, HddShape
<1>4. listed \cup cut \subseteq M /\ {r.id} \X F \subseteq M
  BY DEF Lists
<1>5. DOMAIN tables.status = Id
  BY <1>1 DEF TableOK
<1>6. /\ Canonical[e[2]] = e[2]
      /\ u.status[e[1]] # "none" \/ TypeOf[e[1]] = "proposal"
      /\ Both(u, e)
  BY <1>1, <1>3, <1>5 DEF Canonical, Opened, Both, Projecting
<1> HIDE DEF u, M, F, e
<1>7. Holds(u, M, projected)
  BY <1>1, <1>3, <1>4, OpeningHolds
<1>8. Holds(u, M, projected \cup {e})
  BY <1>3, <1>6, <1>7, HoldsForMore
<1>9. (projected \ Unprojects(r)) \cup (Projects(r) \ Removes(r)) = projected \cup {e}
  BY <1>2
<1>10. reported \cup {e} \subseteq Rows(u)
  BY <1>3 DEF RelInv
<1>11. QED
  BY <1>2, <1>8, <1>9, <1>10 DEF u, M

\* Served, relation.add and a delete keep what holds.
LEMMA ServeRest ==
    ASSUME RelInv, NEW r \in Request, r.verb \in {"add", "delete"}, ~Refused(tables, vocab, r)
    PROVE  /\ Holds(Handled(tables, vocab, r), (listed \cup Lists(r)) \cup cut,
                    (projected \ Unprojects(r)) \cup (Projects(r) \ Removes(r)))
           /\ (reported \ Unsays(r)) \cup (Says(r) \ Removes(r))
                  \subseteq Rows(Handled(tables, vocab, r))
<1> DEFINE u == Handled(tables, vocab, r)
           M == (listed \cup Lists(r)) \cup cut
<1>1. Holds(tables, listed \cup cut, projected) /\ TableOK(tables)
  BY DEF RelInv, Holds
<1>2. Unprojects(r) = {} /\ Projects(r) = {} /\ Removes(r) = {}
  BY DEF Unprojects, Unsays, Projects, Removes
<1>3. listed \cup cut \subseteq M /\ projected \subseteq projected
  OBVIOUS
<1>4. Quieter(tables, u) /\ Says(r) \subseteq Rows(u)
  <2>1. CASE r.verb = "add"
    <3>1. u = Added(tables, r) /\ Says(r) = {Triple(r)}
      BY <2>1 DEF Handled, Says
    <3> HIDE DEF u
    <3>2. QED
      BY <1>1, <2>1, <3>1, AddedShape
  <2>2. CASE r.verb = "delete"
    <3>1. u = Deleted(tables, r) /\ Live(tables, r.id) /\ Says(r) = {}
      BY <2>2 DEF Handled, Refused, Says, Projects
    <3> HIDE DEF u
    <3>2. QED
      BY <1>1, <2>2, <3>1, DeletedShape
  <2>3. QED
    BY <2>1, <2>2
<1> HIDE DEF u, M
<1>5. Holds(u, M, projected)
  BY <1>1, <1>3, <1>4, QuieterHolds
<1>6. (projected \ Unprojects(r)) \cup (Projects(r) \ Removes(r)) = projected
  BY <1>2
<1>7. (reported \ Unsays(r)) \cup (Says(r) \ Removes(r)) \subseteq Rows(u)
  BY <1>4 DEF RelInv, Quieter
<1>8. QED
  BY <1>5, <1>6, <1>7 DEF u, M

-----------------------------------------------------------------------------
(* Every crash keeps the invariant *)

\* The entries a crash leaves without their edge.
CutBy(u, r) == {e \in EntriesOf(r) : ~HasRelation(u, <<r.id, e[2][1], e[2][2]>>)}

\* An update cut anywhere in its save and replayed keeps what holds.
LEMMA CrashUpdate ==
    ASSUME RelInv, NEW r \in Request, r.verb = "update", ~Refused(tables, vocab, r),
           NEW s \in Torn(tables, Handled(tables, vocab, r)), NEW N
    PROVE  /\ Holds(Replay(s, Embedded, r), (listed \cup Lists(r)) \cup (cut \cup N),
                    projected \ Unprojects(r))
           /\ reported \ Unsays(r) \subseteq Rows(Replay(s, Embedded, r))
<1> DEFINE new == Updated(tables, vocab, r)
           u == ReplayUpdate(s, Embedded, r)
           p1 == Written(r.id, r.relate)
           m1 == Written(r.id, r.unrelate)
           p2 == Spelt(r.id, r.relate)
           m2 == Spelt(r.id, r.unrelate)
           m == m1 \cup m2
           M == (listed \cup Lists(r)) \cup (cut \cup N)
<1>1. /\ Holds(tables, listed \cup cut, projected) /\ TableOK(tables)
      /\ Complying(vocab) /\ Complying(Embedded)
      /\ None \notin Spelling \X Id /\ EditOK(r) /\ ~UpdateRefused(tables, vocab, r)
      /\ projected \subseteq Edge
  BY UpdateIsEdit, RequestAssumption, BothComply DEF RelInv, Holds, Refused
<1>2. Handled(tables, vocab, r) = new /\ Replay(s, Embedded, r) = u
  BY DEF Handled, Replay
<1>3. Outline(tables, new, r, p1, m1)
  BY <1>1, UpdatedShape
<1>4. TableOK(s)
  BY <1>1, <1>2, <1>3, TornOK DEF Outline
<1>5. Outline(s, u, r, p2, m2)
  BY <1>1, <1>4, ReplayUpdateShape
<1>6. Spelled(r, p2, m1) /\ Spelled(r, p2, m2)
  BY <1>1, EditRowsSpelled
<1>7. Spelled(r, p2, m)
  BY <1>6 DEF Spelled
<1>8. listed \cup cut \subseteq M
  OBVIOUS
<1>9. r.depends_on # Same => {r.id} \X ListOf("dependsOn", r.depends_on) \subseteq M
  BY DEF Lists
<1>10. \A e \in projected \ Unprojects(r) : ~TakenBy(r, e)
  BY <1>1, UntouchedByUpdate
<1>11. s \in Torn(tables, new)
  BY <1>2
<1> HIDE DEF new, u, p1, m1, p2, m2, M
<1>12. Outline(tables, u, r, p2, m)
  BY <1>1, <1>3, <1>5, <1>11, EditAgain
<1> HIDE DEF m
<1>13. Holds(u, M, projected \ Unprojects(r))
  BY <1>1, <1>7, <1>8, <1>9, <1>10, <1>12, EditHolds
<1>14. reported \ Unsays(r) \subseteq Rows(u)
  <2>1. \A e \in Edge : Names(e, r.id, r.unrelate) => e \in Unsays(r)
    BY TakenIsNamed
  <2>2. QED
    BY <1>7, <1>12, <2>1, EditKeepsRows
<1>15. QED
  BY <1>2, <1>13, <1>14 DEF M

\* A removal cut anywhere in its save and replayed keeps what holds.
LEMMA CrashRemove ==
    ASSUME RelInv, NEW r \in Request, r.verb = "remove",
           NEW s \in Torn(tables, Handled(tables, vocab, r)), NEW N
    PROVE  /\ Holds(Replay(s, Embedded, r), (listed \cup Lists(r)) \cup (cut \cup N),
                    projected \ Unprojects(r))
           /\ reported \ Unsays(r) \subseteq Rows(Replay(s, Embedded, r))
<1> DEFINE c == RemovalOf(r)
           new == Removed(tables, vocab, r)
           u == Removed(s, Embedded, r)
           plus == {}
           minus == {Triple(r)}
           M == (listed \cup Lists(r)) \cup (cut \cup N)
<1>1. /\ Holds(tables, listed \cup cut, projected) /\ TableOK(tables)
      /\ Complying(vocab) /\ Complying(Embedded)
      /\ None \notin Spelling \X Id /\ projected \subseteq Edge
  BY RequestAssumption, BothComply DEF RelInv, Holds
<1>2. Handled(tables, vocab, r) = new /\ Replay(s, Embedded, r) = u
  BY DEF Handled, Replay, ReplayRemove
<1>3. EditOK(c) /\ Spelled(c, plus, minus) /\ Outline(tables, new, c, plus, minus)
  BY <1>1, RemovedShape
<1>4. TableOK(s)
  BY <1>1, <1>2, <1>3, TornOK DEF Outline
<1>5. Outline(s, u, c, plus, minus)
  BY <1>1, <1>4, RemovedShape
<1>6. c.depends_on = Same
  BY DEF RemovalOf
<1>7. \A e \in projected \ Unprojects(r) : ~TakenBy(c, e)
  BY <1>1, UntouchedByRemove
<1>8. /\ listed \cup cut \subseteq M /\ s \in Torn(tables, new) /\ minus \cup minus = minus
      /\ \A e \in Edge : Names(e, c.id, c.unrelate) => e \in Unsays(r)
  BY <1>2, TakenIsNamed
<1> HIDE DEF c, new, u, plus, minus, M
<1>9. Outline(tables, u, c, plus, minus)
  BY <1>1, <1>3, <1>5, <1>8, EditAgain
<1>10. Holds(u, M, projected \ Unprojects(r))
  BY <1>1, <1>3, <1>6, <1>7, <1>8, <1>9, EditHolds
<1>11. reported \ Unsays(r) \subseteq Rows(u)
  BY <1>3, <1>8, <1>9, EditKeepsRows
<1>12. QED
  BY <1>2, <1>10, <1>11 DEF M

\* A create cut in two is there with its row, its lists, and the edge or the excuse.
LEMMA CrashCreate ==
    ASSUME RelInv, NEW r \in Request, r.verb = "create", ~Refused(tables, vocab, r),
           NEW s \in Torn(tables, Handled(tables, vocab, r)),
           NEW N, CutBy(Replay(s, Embedded, r), r) \subseteq N
    PROVE  /\ Holds(Replay(s, Embedded, r), (listed \cup Lists(r)) \cup (cut \cup N),
                    projected \ Unprojects(r))
           /\ reported \ Unsays(r) \subseteq Rows(Replay(s, Embedded, r))
<1> DEFINE new == Created(tables, vocab, r)
           u == Replay(s, Embedded, r)
           F == ListOf("dependsOn", r.depends_on) \cup EntriesIn(r.relate)
           M == (listed \cup Lists(r)) \cup (cut \cup N)
<1>1. /\ Holds(tables, listed \cup cut, projected) /\ TableOK(tables)
      /\ Complying(vocab) /\ Complying(Embedded)
      /\ tables.status[r.id] = "none" /\ r.id \in Id /\ TypeOf[r.id] # "proposal"
      /\ r.relate \in (Spelling \X Id) \cup {None} /\ None \notin Spelling \X Id
  BY RequestAssumption, BothComply DEF RelInv, Holds, Refused, CreateRefused
<1>2. Handled(tables, vocab, r) = new /\ Unprojects(r) = {}
  BY DEF Handled, Unprojects, Unsays
<1>3. F \subseteq Flat /\ Opened(tables, new, r.id, F)
  BY <1>1, CreatedShape
<1>4. Opened(tables, Created(tables, Embedded, r), r.id, F)
  BY <1>1, CreatedShape
<1>5. listed \cup cut \subseteq M /\ {r.id} \X ListOf("dependsOn", r.depends_on) \subseteq M
  BY DEF Lists
<1>6. u = IF Live(s, r.id) THEN s ELSE Created(s, Embedded, r)
  BY DEF Replay
<1>7. DOMAIN tables.status = Id
  BY <1>1 DEF TableOK
<1>8. s \in Torn(tables, new) /\ TableOK(new)
  BY <1>2, <1>3 DEF Opened
<1>9. TableOK(s)
  BY <1>1, <1>8, TornOK
<1>10. \/ s = tables \/ s = new
       \/ /\ s.status = new.status /\ s.flat = new.flat /\ s.edges = tables.edges
  BY <1>1, <1>8, TornCases
<1>11. new.status[r.id] = "live"
  BY <1>1, <1>3, <1>7 DEF Opened
<1>12. CutBy(u, r) \subseteq N
  OBVIOUS
<1>13. EntriesOf(r) = {r.id} \X EntriesIn(r.relate)
  <2>1. CASE r.relate = None
    BY <2>1 DEF EntriesOf, EntriesIn
  <2>2. CASE r.relate # None
    <3>1. FlatOf(vocab, r.relate[1], r.relate[2]) = Entries(r.relate[1], r.relate[2])
      BY <1>1, <2>2, SameEntries
    <3>2. QED
      BY <2>2, <3>1 DEF EntriesOf, EntriesIn
  <2>3. QED
    BY <2>1, <2>2
<1> HIDE DEF new, u, F, M
<1>14. Opened(tables, u, r.id, F)
  <2>1. CASE s = tables
    <3>1. u = Created(tables, Embedded, r)
      BY <1>1, <1>6, <2>1 DEF Live
    <3>2. QED
      BY <1>4, <3>1
  <2>2. CASE s = new
    BY <1>3, <1>6, <1>11, <2>2 DEF Live
  <2>3. CASE s.status = new.status /\ s.flat = new.flat /\ s.edges = tables.edges
    <3>1. u = s
      BY <1>6, <1>11, <2>3 DEF Live
    <3>2. QED
      BY <1>3, <1>9, <2>3, <3>1 DEF Opened, Rows
  <2>4. QED
    BY <1>10, <2>1, <2>2, <2>3
<1>15. ASSUME NEW f \in EntriesIn(r.relate), <<r.id, f>> \notin M
       PROVE  \E p \in Spelling : Canonical[p] = f[1] /\ <<r.id, p, f[2]>> \in Rows(u)
  <2>1. f \in Flat
    BY <1>3 DEF F
  <2>2. r.relate # None /\ f[1] = Canonical[r.relate[1]] /\ f[2] = r.relate[2]
    BY <1>1, <2>1, EntryOf
  <2>3. f[1] \in Spelling /\ Canonical[f[1]] = f[1]
    BY <1>1, <2>2 DEF Spelling, Canonical
  <2>4. <<r.id, f>> \notin CutBy(u, r)
    BY <1>12, <1>15 DEF M
  <2>5. <<r.id, f>> \in EntriesOf(r)
    BY <1>13
  <2>6. HasRelation(u, <<r.id, f[1], f[2]>>)
    BY <2>4, <2>5 DEF CutBy
  <2>7. QED
    BY <2>3, <2>6 DEF HasRelation, BagIn, Rows
<1>16. \A f \in F : \/ <<r.id, f>> \in M
                   \/ \E p \in Spelling : Canonical[p] = f[1] /\ <<r.id, p, f[2]>> \in Rows(u)
  BY <1>5, <1>15 DEF F
<1>17. Holds(u, M, projected)
  BY <1>1, <1>5, <1>14, <1>16, OpeningHolds
<1>18. reported \subseteq Rows(u)
  BY <1>14 DEF RelInv, Opened
<1>19. QED
  BY <1>2, <1>17, <1>18 DEF u, M

\* A hypothesis cut in two is there with its row; its lists are all listed.
LEMMA CrashHdd ==
    ASSUME RelInv, NEW r \in Request, r.verb = "hdd", ~Refused(tables, vocab, r),
           NEW s \in Torn(tables, Handled(tables, vocab, r)), NEW N
    PROVE  /\ Holds(Replay(s, Embedded, r), (listed \cup Lists(r)) \cup (cut \cup N),
                    projected \ Unprojects(r))
           /\ reported \ Unsays(r) \subseteq Rows(Replay(s, Embedded, r))
<1> DEFINE new == HddCreated(tables, r)
           u == Replay(s, Embedded, r)
           F == ListOf("related", {r.paper})
           M == (listed \cup Lists(r)) \cup (cut \cup N)
<1>1. /\ Holds(tables, listed \cup cut, projected) /\ TableOK(tables)
      /\ tables.status[r.id] = "none" /\ r.id \in Id /\ TypeOf[r.id] # "proposal"
  BY RequestAssumption DEF RelInv, Holds, Refused, HddRefused
<1>2. Handled(tables, vocab, r) = new /\ Unprojects(r) = {}
  BY DEF Handled, Unprojects, Unsays
<1>3. F \subseteq Flat /\ Opened(tables, new, r.id, F)
      /\ Opened(tables, NewRow(tables, r.id, {}), r.id, {})
  BY <1>1, HddShape
<1>4. listed \cup cut \subseteq M /\ {r.id} \X F \subseteq M
  BY DEF Lists
<1>5. u = IF Live(s, r.id) THEN s ELSE NewRow(s, r.id, {})
  BY DEF Replay
<1>6. DOMAIN tables.status = Id
  BY <1>1 DEF TableOK
<1>7. s \in Torn(tables, new) /\ TableOK(new)
  BY <1>2, <1>3 DEF Opened
<1>8. TableOK(s)
  BY <1>1, <1>7, TornOK
<1>9. \/ s = tables \/ s = new
      \/ /\ s.status = new.status /\ s.flat = new.flat /\ s.edges = tables.edges
  BY <1>1, <1>7, TornCases
<1>10. new.status[r.id] = "live"
  BY <1>1, <1>3, <1>6 DEF Opened
<1> HIDE DEF new, u, F, M
<1>11. Opened(tables, u, r.id, F) \/ Opened(tables, u, r.id, {})
  <2>1. CASE s = tables
    <3>1. u = NewRow(tables, r.id, {})
      BY <1>1, <1>5, <2>1 DEF Live
    <3>2. QED
      BY <1>3, <3>1
  <2>2. CASE s = new
    BY <1>3, <1>5, <1>10, <2>2 DEF Live
  <2>3. CASE s.status = new.status /\ s.flat = new.flat /\ s.edges = tables.edges
    <3>1. u = s
      BY <1>5, <1>10, <2>3 DEF Live
    <3>2. QED
      BY <1>3, <1>8, <2>3, <3>1 DEF Opened, Rows
  <2>4. QED
    BY <1>9, <2>1, <2>2, <2>3
<1>12. PICK G : (G = F \/ G = {}) /\ Opened(tables, u, r.id, G)
  BY <1>11
<1>13. \A f \in G : <<r.id, f>> \in M
  BY <1>4, <1>12
<1>14. Holds(u, M, projected)
  BY <1>1, <1>4, <1>12, <1>13, OpeningHolds
<1>15. reported \subseteq Rows(u)
  BY <1>11 DEF RelInv, Opened
<1>16. QED
  BY <1>2, <1>14, <1>15 DEF u, M

\* relation.add and a delete, cut anywhere and replayed, keep what holds.
LEMMA CrashRest ==
    ASSUME RelInv, NEW r \in Request, r.verb \in {"add", "delete"}, ~Refused(tables, vocab, r),
           NEW s \in Torn(tables, Handled(tables, vocab, r)), NEW N
    PROVE  /\ Holds(Replay(s, Embedded, r), (listed \cup Lists(r)) \cup (cut \cup N),
                    projected \ Unprojects(r))
           /\ reported \ Unsays(r) \subseteq Rows(Replay(s, Embedded, r))
<1> DEFINE new == Handled(tables, vocab, r)
           u == Replay(s, Embedded, r)
           M == (listed \cup Lists(r)) \cup (cut \cup N)
<1>1. Holds(tables, listed \cup cut, projected) /\ TableOK(tables)
  BY DEF RelInv, Holds
<1>2. listed \cup cut \subseteq M /\ projected \ Unprojects(r) \subseteq projected
  OBVIOUS
<1>3. Quieter(tables, u)
  <2>1. CASE r.verb = "add"
    <3>1. new = Added(tables, r) /\ u = AddOnce(s, Triple(r))
      BY <2>1 DEF Handled, Replay
    <3>2. s \in Torn(tables, new)
      OBVIOUS
    <3> HIDE DEF new, u
    <3>3. Quieter(tables, new) /\ new.status = tables.status
      BY <1>1, <2>1, <3>1, AddedShape
    <3>4. TableOK(s)
      BY <1>1, <3>2, <3>3, TornOK DEF Quieter
    <3>5. s = tables \/ s = new
          \/ (s.status = new.status /\ s.flat = new.flat /\ s.edges = tables.edges)
      BY <1>1, <3>2, <3>3, TornCases DEF Quieter
    <3>6. Quieter(s, u)
      BY <2>1, <3>1, <3>4, AddedShape
    <3>7. Quieter(tables, s)
      BY <1>1, <3>3, <3>4, <3>5 DEF Quieter, Rows, Live
    <3>8. QED
      BY <3>6, <3>7 DEF Quieter
  <2>2. CASE r.verb = "delete"
    <3>1. new = Deleted(tables, r) /\ Live(tables, r.id)
          /\ u = IF Live(s, r.id) THEN Deleted(s, r) ELSE s
      BY <2>2 DEF Handled, Refused, Replay
    <3>2. s \in Torn(tables, new)
      OBVIOUS
    <3> HIDE DEF new, u
    <3>3. Quieter(tables, new)
      BY <1>1, <2>2, <3>1, DeletedShape
    <3>4. TableOK(s)
      BY <1>1, <3>2, <3>3, TornOK DEF Quieter
    <3>5. s = tables \/ s = new
          \/ (s.status = new.status /\ s.flat = new.flat /\ s.edges = tables.edges)
      BY <1>1, <3>2, <3>3, TornCases DEF Quieter
    <3>6. Quieter(s, u)
      <4>1. CASE Live(s, r.id)
        BY <2>2, <3>1, <3>4, <4>1, DeletedShape
      <4>2. CASE ~Live(s, r.id)
        BY <3>1, <3>4, <4>2 DEF Quieter
      <4>3. QED
        BY <4>1, <4>2
    <3>7. Quieter(tables, s)
      BY <1>1, <3>3, <3>4, <3>5 DEF Quieter, Rows, Live
    <3>8. QED
      BY <3>6, <3>7 DEF Quieter
  <2>3. QED
    BY <2>1, <2>2
<1> HIDE DEF u, M
<1>4. Holds(u, M, projected \ Unprojects(r))
  BY <1>1, <1>2, <1>3, QuieterHolds
<1>5. reported \subseteq Rows(u)
  BY <1>3 DEF RelInv, Quieter
<1>6. QED
  BY <1>4, <1>5 DEF u, M

-----------------------------------------------------------------------------
(* The two halves agree *)

\* What requests list and leave cut are flat entries.
LEMMA ListsTyped ==
    ASSUME RelInv, NEW r \in Request
    PROVE  Lists(r) \cup EntriesOf(r) \subseteq Id \X Flat
<1>1. Lists(r) \subseteq Id \X Flat
  <2>1. /\ r.id \in Id
        /\ r.verb = "create" => r.depends_on \subseteq Id
        /\ r.verb = "hdd" => r.paper \in Id
        /\ r.verb = "update" => r.depends_on = Same \/ r.depends_on \subseteq Id
    BY RequestAssumption
  <2>2. \A S : S \subseteq Id => /\ ListOf("dependsOn", S) \subseteq Flat
                                /\ ListOf("related", S) \subseteq Flat
    BY DEF ListOf, Flat, Projecting
  <2>3. CASE r.verb = "create"
    BY <2>1, <2>2, <2>3 DEF Lists
  <2>4. CASE r.verb = "hdd"
    <3>1. {r.paper} \subseteq Id
      BY <2>1, <2>4
    <3>2. QED
      BY <2>1, <2>2, <2>4, <3>1 DEF Lists
  <2>5. CASE r.verb = "update" /\ r.depends_on # Same
    BY <2>1, <2>2, <2>5 DEF Lists
  <2>6. CASE ~(r.verb = "create" \/ r.verb = "hdd" \/ (r.verb = "update" /\ r.depends_on # Same))
    BY <2>6 DEF Lists
  <2>7. QED
    BY <2>3, <2>4, <2>5, <2>6
<1>2. EntriesOf(r) \subseteq Id \X Flat
  <2>1. CASE r.verb = "create" /\ r.relate # None
    <3>1. r.id \in Id /\ r.relate[1] \in Spelling /\ r.relate[2] \in Id
      BY <2>1, RequestAssumption
    <3>2. FlatOf(vocab, r.relate[1], r.relate[2]) \subseteq Flat
      BY <3>1, BothComply, SameEntries, EntriesFlat
    <3>3. QED
      BY <2>1, <3>1, <3>2 DEF EntriesOf
  <2>2. CASE ~(r.verb = "create" /\ r.relate # None)
    BY <2>2 DEF EntriesOf
  <2>3. QED
    BY <2>1, <2>2
<1>3. QED
  BY <1>1, <1>2

\* The empty tables have the invariant.
LEMMA RelInvInit == Init => RelInv
<1> SUFFICES ASSUME Init
             PROVE  RelInv
  OBVIOUS
<1>1. IsABag(EmptyBag) /\ BagToSet(EmptyBag) = {}
  BY DEF IsABag, EmptyBag, SetToBag, BagToSet
<1>2. TableOK(tables)
  BY <1>1 DEF Init, NoTables, TableOK, Rows
<1>3. \A j \in Id : ~Live(tables, j)
  BY DEF Init, NoTables, Live
<1>4. Holds(tables, listed \cup cut, projected) /\ reported \subseteq Rows(tables)
  BY <1>2, <1>3 DEF Init, Holds, NoPhantomOf
<1>5. vocab \in Vocabulary /\ Complying(vocab)
  BY DEF Init, Complying
<1>6. QED
  BY <1>2, <1>4, <1>5 DEF Init, RelInv, TypeOK, TableOK, Rows

\* The entries remembered are all that excuses anything.
Seen(u, L) == {l \in L : l[2] \in u.flat[l[1]]}

\* A request that is served keeps the invariant.
LEMMA ServeKeeps == RelInv /\ Serve => RelInv'
<1> SUFFICES ASSUME RelInv, Serve
             PROVE  RelInv'
  OBVIOUS
<1>1. PICK r \in Request :
          /\ ~Refused(tables, vocab, r)
          /\ tables' = Handled(tables, vocab, r)
          /\ reported' = (reported \ Unsays(r)) \cup (Says(r) \ Removes(r))
          /\ projected' = (projected \ Unprojects(r)) \cup (Projects(r) \ Removes(r))
          /\ listed' = Seen(tables', listed \cup Lists(r)) /\ cut' = Seen(tables', cut)
          /\ UNCHANGED <<vocab, reloads>>
  BY DEF Serve, Accepted, StillThere, Seen
<1>2. r.verb \in {"create", "hdd", "update", "add", "remove", "delete"}
  BY RequestAssumption
<1> DEFINE M == (listed \cup Lists(r)) \cup cut
<1>3. /\ Holds(Handled(tables, vocab, r), M,
               (projected \ Unprojects(r)) \cup (Projects(r) \ Removes(r)))
      /\ (reported \ Unsays(r)) \cup (Says(r) \ Removes(r))
             \subseteq Rows(Handled(tables, vocab, r))
  BY <1>1, <1>2, ServeUpdate, ServeRemove, ServeCreate, ServeHdd, ServeRest
<1>4. Holds(tables', M, projected') /\ reported' \subseteq Rows(tables')
  BY <1>1, <1>3
<1>5. Seen(tables', M) = (listed \cup cut)'
  BY <1>1 DEF Seen
<1>6. M \subseteq Id \X Flat
  BY <1>1, ListsTyped DEF RelInv, TypeOK
<1> HIDE DEF M
<1>7. Holds(tables', (listed \cup cut)', projected')
  BY <1>4, <1>5, FewerExcuses DEF Seen
<1>8. TableOK(tables') /\ projected' \subseteq Edge /\ reported' \subseteq Edge
  BY <1>4 DEF Holds, TableOK
<1>9. (listed \cup cut)' \subseteq Id \X Flat
  BY <1>5, <1>6 DEF Seen
<1>10. TypeOK'
  BY <1>1, <1>8, <1>9 DEF TypeOK, RelInv, TableOK, Rows
<1>11. Complying(vocab)'
  BY <1>1 DEF RelInv
<1>12. QED
  BY <1>4, <1>7, <1>10, <1>11 DEF RelInv

\* A crash inside a save, with the start after it, keeps the invariant.
LEMMA CrashKeeps == RelInv /\ Crash => RelInv'
<1> SUFFICES ASSUME RelInv, Crash
             PROVE  RelInv'
  OBVIOUS
<1>1. PICK r \in Request :
          /\ ~Refused(tables, vocab, r)
          /\ \E t \in Torn(tables, Handled(tables, vocab, r)) : tables' = Replay(t, Embedded, r)
          /\ reported' = reported \ Unsays(r)
          /\ projected' = projected \ Unprojects(r)
          /\ listed' = Seen(tables', listed \cup Lists(r))
          /\ cut' = Seen(tables', cut \cup CutBy(tables', r))
          /\ vocab' = Embedded /\ reloads' = 0
  BY DEF Crash, Accepted, CutBy, StillThere, Seen
<1>2. PICK t \in Torn(tables, Handled(tables, vocab, r)) : tables' = Replay(t, Embedded, r)
  BY <1>1
<1>3. r.verb \in {"create", "hdd", "update", "add", "remove", "delete"}
  BY RequestAssumption
<1> DEFINE N == CutBy(Replay(t, Embedded, r), r)
           M == (listed \cup Lists(r)) \cup (cut \cup N)
<1>4. /\ Holds(Replay(t, Embedded, r), M, projected \ Unprojects(r))
      /\ reported \ Unsays(r) \subseteq Rows(Replay(t, Embedded, r))
  BY <1>1, <1>3, CrashUpdate, CrashRemove, CrashCreate, CrashHdd, CrashRest
<1>5. Holds(tables', M, projected') /\ reported' \subseteq Rows(tables')
  BY <1>1, <1>2, <1>4
<1>6. Seen(tables', M) = (listed \cup cut)'
  BY <1>1, <1>2 DEF Seen
<1>7. M \subseteq Id \X Flat
  BY ListsTyped DEF RelInv, TypeOK, CutBy
<1> HIDE DEF M
<1>8. Holds(tables', (listed \cup cut)', projected')
  BY <1>5, <1>6, FewerExcuses DEF Seen
<1>9. TableOK(tables') /\ projected' \subseteq Edge /\ reported' \subseteq Edge
  BY <1>5 DEF Holds, TableOK
<1>10. (listed \cup cut)' \subseteq Id \X Flat
  BY <1>6, <1>7 DEF Seen
<1>11. vocab' \in Vocabulary /\ Complying(vocab')
  BY <1>1 DEF Complying
<1>12. TypeOK'
  <2>1. /\ tables'.status \in [Id -> {"none", "live", "deleted"}]
        /\ IsABag(tables'.edges) /\ BagToSet(tables'.edges) \subseteq Edge
        /\ tables'.flat \in [Id -> SUBSET Flat]
    BY <1>9 DEF TableOK, Rows
  <2>2. reloads' \in 0..RELOAD_BUDGET
    BY <1>1
  <2>3. QED
    BY <1>9, <1>10, <1>11, <2>1, <2>2 DEF TypeOK
<1>13. QED
  BY <1>5, <1>8, <1>11, <1>12 DEF RelInv

\* A reload that is accepted keeps the invariant: the vocabulary goes on complying.
LEMMA ReloadKeeps == RelInv /\ Reload => RelInv'
<1> SUFFICES ASSUME RelInv, Reload
             PROVE  RelInv'
  OBVIOUS
<1>1. vocab' \in Vocabulary /\ Complying(vocab')
  BY DEF Reload, BelowFloor, Complying
<1>2. reloads' \in 0..RELOAD_BUDGET
  BY DEF Reload, Exhausted, RelInv, TypeOK
<1>3. UNCHANGED <<tables, reported, projected, listed, cut>>
  BY DEF Reload
<1>4. Holds(tables, listed \cup cut, projected)' /\ (reported \subseteq Rows(tables))'
  BY <1>3 DEF RelInv
<1>5. TypeOK'
  BY <1>1, <1>2, <1>3 DEF RelInv, TypeOK
<1>6. QED
  BY <1>1, <1>4, <1>5 DEF RelInv

\* Every step keeps the invariant.
LEMMA RelInvStep == RelInv /\ [Next]_vars => RelInv'
<1>1. RelInv /\ UNCHANGED vars => RelInv'
  BY DEF vars, RelInv, TypeOK
<1>2. QED
  BY <1>1, ServeKeeps, CrashKeeps, ReloadKeeps DEF Next

\* The invariant holds throughout.
LEMMA Invariance == Spec => []RelInv
BY RelInvInit, RelInvStep, PTL DEF Spec

\* The invariant says that the halves agree.
LEMMA InvAgrees == RelInv => HalvesAgree
<1> SUFFICES ASSUME RelInv
             PROVE  HalvesAgree
  OBVIOUS
<1>1. NoPhantom
  BY DEF RelInv, Holds, NoPhantomOf, NoPhantom, Backed, HasRelation, BagIn, Rows
<1>2. BothHalves
  <2>1. \A e \in reported : HasRelation(tables, e)
    BY DEF RelInv, HasRelation, BagIn, Rows
  <2> SUFFICES ASSUME NEW e \in projected
               PROVE  Live(tables, e[1]) => {e[2]} \cap Projecting \subseteq
                          {f[1] : f \in {g \in tables.flat[e[1]] : g[2] = e[3]}}
    BY <2>1 DEF BothHalves
  <2>2. Both(tables, e)
    BY DEF RelInv, Holds
  <2>3. ASSUME Live(tables, e[1]), e[2] \in Projecting
        PROVE  e[2] \in {f[1] : f \in {g \in tables.flat[e[1]] : g[2] = e[3]}}
    <3> DEFINE f == <<e[2], e[3]>>
    <3>1. f \in tables.flat[e[1]] /\ f[2] = e[3] /\ f[1] = e[2]
      BY <2>2, <2>3 DEF Both
    <3> HIDE DEF f
    <3>2. QED
      BY <3>1
  <2>4. QED
    BY <2>3
<1>3. QED
  BY <1>1, <1>2 DEF RelInv, HalvesAgree

\* For all vocabularies that keep the compiled predicates and all requests, across
\* removals, reloads and crashes between the saves of the two tables: no entry of a
\* flat column is left of an edge that is gone, every reported edge has its row, that
\* of relation.add included, and one that create, hdd or update reported its entry.
THEOREM HalvesStayTogether == Spec => []HalvesAgree
BY Invariance, InvAgrees, PTL

-----------------------------------------------------------------------------
(* Replay makes what the handler made *)

\* An edit that takes single rows it did not add, made again after any cut of its
\* save, gives what it gave.
LEMMA ExactAgain ==
    ASSUME NEW t, TableOK(t), NEW c, EditOK(c), NEW p, NEW m, NEW new, NEW u,
           Outline(t, new, c, p, m), Exact(t, new, p, m),
           NEW s \in Torn(t, new), Outline(s, u, c, p, m), Exact(s, u, p, m),
           \A e \in m : e \notin p /\ Copies(t, e) <= 1
    PROVE  SameContent(u, new)
<1>1. TableOK(new) /\ TableOK(u)
  BY DEF Outline
<1>2. \/ s = t \/ s = new
      \/ /\ s.status = new.status /\ s.flat = new.flat /\ s.edges = t.edges
  BY <1>1, TornCases
<1>3. Outline(t, u, c, p, m)
  <2> DEFINE k == m \cup m
  <2>1. k = m
    OBVIOUS
  <2> HIDE DEF k
  <2>2. Outline(t, u, c, p, k)
    BY EditAgain, Zenon DEF k
  <2>3. QED
    BY <2>1, <2>2
<1>4. u.status = new.status
  BY <1>3 DEF Outline
<1>5. u.flat = new.flat
  <2>1. u.flat \in [Id -> SUBSET Flat] /\ new.flat \in [Id -> SUBSET Flat]
    BY <1>1 DEF TableOK
  <2>2. \A j \in Id : u.flat[j] = new.flat[j]
    BY <1>3 DEF Outline
  <2>3. QED
    BY <2>1, <2>2
<1>6. Rows(new) = (Rows(t) \cup p) \ m
  BY DEF Outline, Exact
<1>7. \A e \in m : Copies(s, e) <= 1
  <2>1. \A e \in m : Copies(new, e) = 0
    BY <1>6 DEF Copies, HasRelation, BagIn, Rows
  <2>2. s.edges = t.edges => \A e \in m : Copies(s, e) <= 1
    BY DEF Copies, HasRelation
  <2>3. QED
    BY <1>2, <2>1, <2>2
<1>8. Rows(u) = (Rows(s) \cup p) \ m
  BY <1>7 DEF Outline, Exact
<1>9. Rows(s) = Rows(t) \/ Rows(s) = Rows(new)
  BY <1>2 DEF Rows
<1>10. Rows(u) = Rows(new)
  BY <1>6, <1>8, <1>9
<1>11. QED
  BY <1>4, <1>5, <1>10 DEF SameContent, Rows

\* The replay of a complete update gives what the handler gave.
LEMMA ReplayOfUpdate ==
    ASSUME RelInv, NEW r \in Request, r.verb = "update", ~Refused(tables, vocab, r), Complete(r),
           NEW s \in Torn(tables, Handled(tables, vocab, r))
    PROVE  SameContent(Replay(s, Embedded, r), Handled(tables, vocab, r))
<1> DEFINE new == Updated(tables, vocab, r)
           u == ReplayUpdate(s, Embedded, r)
           p == Written(r.id, r.relate)
           m == Written(r.id, r.unrelate)
<1>1. /\ TableOK(tables) /\ Complying(vocab) /\ Complying(Embedded)
      /\ EditOK(r) /\ ~UpdateRefused(tables, vocab, r)
  BY UpdateIsEdit, BothComply DEF RelInv, Holds, Refused
<1>2. Handled(tables, vocab, r) = new /\ Replay(s, Embedded, r) = u
  BY DEF Handled, Replay
<1>3. /\ r.relate # None => Canonical[r.relate[1]] = r.relate[1]
      /\ r.unrelate # None => Canonical[r.unrelate[1]] = r.unrelate[1]
      /\ r.relate # None => r.relate # r.unrelate
      /\ \A e \in Removes(r) : Copies(tables, e) <= 1
  BY DEF Complete
<1>4. Spelt(r.id, r.relate) = p /\ Spelt(r.id, r.unrelate) = m
  BY <1>3 DEF Written, Spelt, RowIn
<1>5. Outline(tables, new, r, p, m) /\ Exact(tables, new, p, m)
  BY <1>1, UpdatedShape
<1>6. TableOK(s)
  BY <1>1, <1>2, <1>5, TornOK DEF Outline
<1>7. Outline(s, u, r, p, m) /\ Exact(s, u, p, m)
  BY <1>1, <1>4, <1>6, ReplayUpdateShape
<1>8. ASSUME NEW e \in m
      PROVE  e \notin p /\ Copies(tables, e) <= 1
  <2>1. r.unrelate # None /\ e = <<r.id, r.unrelate[1], r.unrelate[2]>>
    BY <1>3 DEF Written, RowIn
  <2>2. e \in Removes(r)
    BY <1>3, <2>1 DEF Removes
  <2>3. r.unrelate = <<r.unrelate[1], r.unrelate[2]>>
    BY <1>1, <2>1 DEF EditOK
  <2>4. ASSUME e \in p
        PROVE  FALSE
    <3>1. r.relate # None /\ e = <<r.id, r.relate[1], r.relate[2]>>
      BY <1>3, <2>4 DEF Written, RowIn
    <3>2. r.relate = <<r.relate[1], r.relate[2]>>
      BY <1>1, <3>1 DEF EditOK
    <3>3. r.relate = r.unrelate
      BY <2>1, <2>3, <3>1, <3>2
    <3>4. QED
      BY <1>3, <3>1, <3>3
  <2>5. QED
    BY <1>3, <2>2, <2>4
<1>9. s \in Torn(tables, new)
  BY <1>2
<1> HIDE DEF new, u, p, m
<1>10. SameContent(u, new)
  BY <1>1, <1>5, <1>7, <1>8, <1>9, ExactAgain
<1>11. QED
  BY <1>2, <1>10

\* The replay of a removal of one row gives what the handler gave.
LEMMA ReplayOfRemove ==
    ASSUME RelInv, NEW r \in Request, r.verb = "remove", Complete(r),
           NEW s \in Torn(tables, Handled(tables, vocab, r))
    PROVE  SameContent(Replay(s, Embedded, r), Handled(tables, vocab, r))
<1> DEFINE c == RemovalOf(r)
           new == Removed(tables, vocab, r)
           u == Removed(s, Embedded, r)
           p == {}
           m == {Triple(r)}
<1>1. TableOK(tables) /\ Complying(vocab) /\ Complying(Embedded)
  BY BothComply DEF RelInv, Holds
<1>2. Handled(tables, vocab, r) = new /\ Replay(s, Embedded, r) = u
  BY DEF Handled, Replay, ReplayRemove
<1>3. EditOK(c) /\ Outline(tables, new, c, p, m) /\ Exact(tables, new, p, m)
  BY <1>1, RemovedShape
<1>4. TableOK(s)
  BY <1>1, <1>2, <1>3, TornOK DEF Outline
<1>5. Outline(s, u, c, p, m) /\ Exact(s, u, p, m)
  BY <1>1, <1>4, RemovedShape
<1>6. \A e \in m : e \notin p /\ Copies(tables, e) <= 1
  BY DEF Complete, Removes
<1>7. s \in Torn(tables, new)
  BY <1>2
<1> HIDE DEF c, new, u, p, m
<1>8. SameContent(u, new)
  BY <1>1, <1>3, <1>5, <1>6, <1>7, ExactAgain
<1>9. QED
  BY <1>2, <1>8

\* A create without an edge, an addition, a delete: the row or the edge is there after
\* any cut, or is made.
LEMMA ReplayOfRest ==
    ASSUME RelInv, NEW r \in Request, r.verb \in {"create", "add", "delete"},
           ~Refused(tables, vocab, r), Complete(r),
           NEW s \in Torn(tables, Handled(tables, vocab, r))
    PROVE  SameContent(Replay(s, Embedded, r), Handled(tables, vocab, r))
<1> DEFINE new == Handled(tables, vocab, r)
           u == Replay(s, Embedded, r)
<1>1. TableOK(tables) /\ Complying(vocab) /\ Complying(Embedded) /\ r.id \in Id
  BY BothComply, RequestAssumption DEF RelInv, Holds
<1>2. DOMAIN tables.status = Id
  BY <1>1 DEF TableOK
<1>3. s \in Torn(tables, new)
  OBVIOUS
<1>4. CASE r.verb = "create"
  <2>1. r.relate = None /\ tables.status[r.id] = "none"
    BY <1>4 DEF Complete, Refused, CreateRefused
  <2>2. new = Created(tables, vocab, r) /\ Created(tables, Embedded, r) = new
    BY <1>4, <2>1 DEF Handled, Created
  <2>3. u = IF Live(s, r.id) THEN s ELSE Created(s, Embedded, r)
    BY <1>4 DEF Replay
  <2>4. Written(r.id, r.relate) = {}
    BY <2>1 DEF Written, RowIn
  <2> DEFINE F == ListOf("dependsOn", r.depends_on) \cup EntriesIn(r.relate)
  <2>5. Opened(tables, new, r.id, F) /\ Rows(new) = Rows(tables)
    <3>1. /\ Opened(tables, Created(tables, vocab, r), r.id, F)
          /\ Rows(Created(tables, vocab, r)) = Rows(tables) \cup Written(r.id, r.relate)
      BY <1>1, <1>4, CreatedShape
    <3>2. QED
      BY ONLY <2>2, <2>4, <3>1
  <2> HIDE DEF new, u
  <2>6. new.status[r.id] = "live" /\ TableOK(new)
    BY <1>1, <1>2, <2>5 DEF Opened
  <2>7. CASE s = tables
    <3>1. u = new
      BY <2>1, <2>2, <2>3, <2>7 DEF Live
    <3>2. QED
      BY <3>1 DEF SameContent, new, u
  <2>8. CASE s # tables
    <3>1. s.status = new.status /\ s.flat = new.flat /\ Rows(s) = Rows(new)
      BY <1>1, <1>3, <2>5, <2>6, <2>8, TornCases DEF Rows
    <3>2. u = s
      BY <2>3, <2>6, <3>1 DEF Live
    <3>3. QED
      BY <3>1, <3>2 DEF SameContent, Rows, new, u
  <2>9. QED
    BY <2>7, <2>8 DEF new, u
<1>5. CASE r.verb = "add"
  <2>1. new = Added(tables, r) /\ u = AddOnce(s, Triple(r))
    BY <1>5 DEF Handled, Replay
  <2> HIDE DEF new, u
  <2>2. /\ Quieter(tables, new) /\ Rows(new) = Rows(tables) \cup {Triple(r)}
        /\ new.status = tables.status
    BY <1>1, <1>5, <2>1, AddedShape
  <2>3. TableOK(new) /\ TableOK(s)
    BY <1>1, <1>3, <2>2, TornOK DEF Quieter
  <2>4. /\ Quieter(s, u) /\ Rows(u) = Rows(s) \cup {Triple(r)}
        /\ u.status = s.status
    BY <1>5, <2>1, <2>3, AddedShape
  <2>5. /\ s.status = new.status /\ s.flat = new.flat
        /\ Rows(s) = Rows(tables) \/ Rows(s) = Rows(new)
    BY <1>1, <1>3, <2>2, <2>3, TornCases DEF Quieter, Rows
  <2>6. u.status = new.status /\ u.flat = new.flat /\ Rows(u) = Rows(new)
    BY <2>2, <2>4, <2>5 DEF Quieter
  <2>7. QED
    BY <2>6 DEF SameContent, Rows, new, u
<1>6. CASE r.verb = "delete"
  <2>1. /\ new = Deleted(tables, r) /\ Live(tables, r.id)
        /\ u = IF Live(s, r.id) THEN Deleted(s, r) ELSE s
    BY <1>6 DEF Handled, Refused, Replay
  <2> HIDE DEF new, u
  <2>2. /\ TableOK(new) /\ new.status = [tables.status EXCEPT ![r.id] = "deleted"]
        /\ new.edges = tables.edges /\ new.flat = tables.flat
    BY <1>1, <1>6, <2>1, DeletedShape DEF Quieter
  <2>3. CASE s = tables
    BY <2>1, <2>3 DEF SameContent, new, u
  <2>4. CASE s # tables
    <3>1. s.status = new.status /\ s.flat = new.flat /\ s.edges = new.edges
      BY <1>1, <1>3, <2>2, <2>4, TornCases
    <3>2. ~Live(s, r.id)
      BY <1>1, <1>2, <2>2, <3>1 DEF Live
    <3>3. QED
      BY <2>1, <3>1, <3>2 DEF SameContent, new, u
  <2>5. QED
    BY <2>3, <2>4
<1>7. QED
  BY <1>4, <1>5, <1>6

\* Wherever the save of a request whose event is complete is cut, replay by a server
\* with the compiled vocabulary rebuilds what the handler made under its own.
THEOREM ReplayRebuilds == Spec => []ReplayConverges
<1>1. ASSUME RelInv, NEW r \in Request, Accepted(r), Complete(r),
             NEW s \in Torn(tables, Handled(tables, vocab, r))
      PROVE  SameContent(Replay(s, Embedded, r), Handled(tables, vocab, r))
  <2>1. ~Refused(tables, vocab, r)
    BY <1>1 DEF Accepted
  <2>2. r.verb \in {"create", "update", "add", "remove", "delete"}
    BY <1>1, RequestAssumption DEF Complete
  <2>3. QED
    BY <1>1, <2>1, <2>2, ReplayOfUpdate, ReplayOfRemove, ReplayOfRest
<1>2. RelInv => ReplayConverges
  BY <1>1 DEF ReplayConverges
<1>3. QED
  BY <1>2, Invariance, PTL
=============================================================================
