--------------------------- MODULE MCGenerationJob ---------------------------
EXTENDS GenerationJob, TLC

Symmetry == Permutations(Workers)
=============================================================================
