--------------------------- MODULE MCConversations ---------------------------
EXTENDS Conversations, TLC

CONSTANTS h1, h2, ann, bob, rea

HomeOf == ann :> h1 @@ bob :> h1 @@ rea :> h2
\* A late report of an old message, and a read of the newest.
ReportsMade == {<<1, 0>>, <<0, 2>>}

Symmetry == Permutations(Procs)
=============================================================================
