--------------------------- MODULE MCRendezvousNet --------------------------
EXTENDS RendezvousNet, TLC
Symmetry == Permutations(Node) \cup Permutations(Record)
=============================================================================
