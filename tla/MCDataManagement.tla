--------------------------- MODULE MCDataManagement ---------------------------
(* Data Management for model checking. *)
EXTENDS DataManagement, TLC

Symmetric == Permutations(Engagements) \cup Permutations(Archives) \cup Permutations(Requests)
=============================================================================
