---------------------------- MODULE MCCreateJob -----------------------------
EXTENDS CreateJob, TLC

Symmetry == Permutations(Requests)
=============================================================================
