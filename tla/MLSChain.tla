------------------------------- MODULE MLSChain -------------------------------
(***************************************************************************)
(* The ordering chain over a group's Commits.  A link is SHA-256 over the  *)
(* link before it and the Commit's own fields; it is modelled by the       *)
(* sequence of everything it digests, so two links are equal exactly when  *)
(* every Commit up to them is.  << >> is the nil hash a chain starts from. *)
(***************************************************************************)
EXTENDS Sequences

\* mlschain.Link: the hash of a Commit, over the hash of the one before it.
Link(prev, e, g, c) == Append(prev, [epoch |-> e, group |-> g, commit |-> c])
=============================================================================
