---------------------------- MODULE MCAssetSlots ----------------------------
EXTENDS AssetSlots, TLC

Symmetry == Permutations(Forced) \cup Permutations(Plain) \cup Permutations(Previews)
=============================================================================
