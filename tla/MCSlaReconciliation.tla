------------------------- MODULE MCSlaReconciliation -------------------------
EXTENDS SlaReconciliation, TLC

Symmetric == Permutations(Refreshes)
=============================================================================
