------------------------------ MODULE MCDelivery ------------------------------
(***************************************************************************)
(* What a caller who was answered can rely on, for TLC in one run:         *)
(* conversations between a hub and its mirrors, and channel posts on their *)
(* way through the work queue.  They share no variable: a behaviour        *)
(* exercises one and leaves the other at rest.                             *)
(***************************************************************************)
EXTENDS ConvFederation, ChannelPosts

VARIABLE focus

\* What the theorems about the posts assume, on this instance.
ASSUME PostsAssumption == ChannelPostsAssumption

DeliveryInit == focus \in {"conversation", "channel"} /\ Init /\ PostsInit

DeliveryNext ==
    \/ focus = "conversation" /\ Next /\ UNCHANGED <<focus, postVars>>
    \/ focus = "channel" /\ PostsNext /\ UNCHANGED <<focus, vars>>

\* A queue at rest has nothing enabled that is fair.
DeliverySpec ==
    DeliveryInit /\ [][DeliveryNext]_<<focus, vars, postVars>> /\ PostsFairness
=============================================================================
