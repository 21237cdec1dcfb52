----------------------------- MODULE MCPresence -----------------------------
EXTENDS Presence, TLC

Symmetry == Permutations(Node \ Watched)
=============================================================================
