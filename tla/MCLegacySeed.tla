---------------------------- MODULE MCLegacySeed ----------------------------
EXTENDS LegacySeed, TLC
CONSTANTS alice, bob

Everyone == {alice, bob}
Symmetry == Permutations(Everyone)
=============================================================================
