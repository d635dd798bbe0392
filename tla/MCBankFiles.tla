----------------------------- MODULE MCBankFiles -----------------------------
\* Two processes that write, one page that lists, for the model checker.
EXTENDS BankFiles, TLC

CONSTANTS legacy, b1

\* The name of the legacy bank changes once, that of the other bank twice.
Turns == legacy :> 1 @@ b1 :> 2

Symmetry == Permutations(Temps) \cup Permutations(Contents) \cup Permutations(Processes)
=============================================================================
