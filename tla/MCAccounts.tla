------------------------------ MODULE MCAccounts ------------------------------
(***************************************************************************)
(* Accounts, for TLC in one run: how one comes to be (SignUp) and how the  *)
(* sessions of one end (Sessions).  They share no variable: a behaviour    *)
(* exercises one and leaves the other at rest.                             *)
(***************************************************************************)
EXTENDS SignUp, Sessions, TLC

VARIABLE focus

\* What the theorems about sessions assume, on this instance.
ASSUME SessionsHold == SessionsAssumption

AccountsInit == focus \in {"signup", "sessions"} /\ Init /\ SessionsInit

AccountsNext ==
    \/ focus = "signup" /\ Next /\ UNCHANGED <<focus, sessionVars>>
    \/ focus = "sessions" /\ SessionsNext /\ UNCHANGED <<focus, vars>>

AccountsSpec == AccountsInit /\ [][AccountsNext]_<<focus, vars, sessionVars>>

\* Addresses, accounts, invitations, requests and session ids are interchangeable.  Session
\* ids are given the model values of accounts and handlers those of requests, so that one
\* permutation serves both parts.
Symmetry == Permutations(Emails) \cup Permutations(UserIDs) \cup Permutations(Invites)
            \cup Permutations(Procs)
=============================================================================
