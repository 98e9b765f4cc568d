---------------------------- MODULE MCBootstrap -----------------------------
EXTENDS Bootstrap, TLC
Symmetry == Permutations(User) \cup Permutations(Group) \cup Permutations(Resetter)
=============================================================================
