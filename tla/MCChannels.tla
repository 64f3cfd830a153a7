----------------------------- MODULE MCChannels -----------------------------
EXTENDS Channels, TLC

\* Requests are interchangeable.
Symmetry == Permutations(Procs)
=============================================================================
