---------------------------- MODULE MCUtxoCache ----------------------------
EXTENDS UtxoCache

LOCAL INSTANCE TLC

\* Callers, and accounts, differ in nothing but their name.
Symmetry == Permutations(Callers) \cup Permutations(Accounts)
=============================================================================
