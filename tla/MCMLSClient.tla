----------------------------- MODULE MCMLSClient -----------------------------
(* MLSClient for TLC: Commits and group ids are interchangeable. *)
EXTENDS MLSClient, TLC

Symmetry == Permutations(Commits) \cup Permutations(Groups)
=============================================================================
