------------------------------ MODULE MCUpgrade ------------------------------
\* Two persons, two accounts, for the model checker.
EXTENDS Upgrade, TLC
CONSTANTS alice, bob

Everyone == {alice, bob}
Symmetry == Permutations(Everyone) \cup Permutations(Accounts)
=============================================================================
