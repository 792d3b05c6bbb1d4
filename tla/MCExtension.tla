---------------------------- MODULE MCExtension ----------------------------
\* Three proposals beside core commands, over one data directory.
EXTENDS Extension, TLC

MCSymmetry == Permutations(Proposal)
=============================================================================
