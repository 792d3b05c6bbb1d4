------------------------------ MODULE MCReplica ------------------------------
(* Commits of one or two writer generations; x1 is an extension's.             *)
EXTENDS Replica

CONSTANTS w1, w2, w3, x1

ThreeCore == {w1, w2, w3}
CoreAndExt == {w1, x1}
OneExt == {x1}

\* The core commits are interchangeable in the run that checks no liveness.
Symmetric == Permutations(ThreeCore)
=============================================================================
