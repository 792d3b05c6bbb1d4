--------------------------- MODULE MCDurableStore ---------------------------
(* A write of each kind, each of an item of its own; Three leaves out the     *)
(* added relation, which behaves as the comment does.                         *)
EXTENDS DurableStore, TLC

CONSTANTS c1, m1, k1, r1

Three == {c1, m1, k1}
Four == Three \cup {r1}

ThreeKinds == c1 :> "create" @@ m1 :> "move" @@ k1 :> "comment"
FourKinds == ThreeKinds @@ r1 :> "relate"
=============================================================================
