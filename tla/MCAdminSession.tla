---------------------------- MODULE MCAdminSession ----------------------------
\* Two tabs, two passwords and one restart or more, for the model checker.
EXTENDS AdminSession, TLC

Symmetry == Permutations(Tabs) \cup Permutations(Passwords)
=============================================================================
