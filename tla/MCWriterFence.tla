---------------------------- MODULE MCWriterFence ----------------------------
(* Two servers that share a data directory.                                   *)
EXTENDS WriterFence, TLC

CONSTANTS p1, p2, w1, w2, w3

TwoServers == {p1, p2}
TwoWrites == {w1, w2}
ThreeWrites == {w1, w2, w3}

\* The servers are alike, and so are the commands.
Alike == Permutations(TwoServers) \cup Permutations(TwoWrites)
=============================================================================
