--------------------------- MODULE MCMLSCommitStore ---------------------------
EXTENDS MLSCommitStore, TLC

\* Requests, resets and group ids are interchangeable in every property checked.
Symmetry == Permutations(Requests) \cup Permutations(Resets) \cup Permutations(Groups)
=============================================================================
