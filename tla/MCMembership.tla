---------------------------- MODULE MCMembership ----------------------------
EXTENDS Membership, TLC
UserSymmetry == Permutations(User)
=============================================================================
