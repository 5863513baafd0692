---------------------------- MODULE MCPackFanout ----------------------------
EXTENDS PackFanout, TLC

Symmetry == Permutations(Workers)
=============================================================================
