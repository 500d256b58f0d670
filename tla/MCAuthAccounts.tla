---------------------------- MODULE MCAuthAccounts ----------------------------
EXTENDS AuthAccounts, TLC

CONSTANTS q1, q2, google, other

MCSymmetry == Permutations(Requests) \cup Permutations(Providers)

=============================================================================
