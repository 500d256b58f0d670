---------------------------- MODULE MCFindingsPull ----------------------------
(* Pulls for model checking: one finding of each of two engagements. *)
EXTENDS FindingsPull, TLC

MCHome == 1 :> "e1" @@ 2 :> "e2"
Symmetric == Permutations(Pulls)
=============================================================================
