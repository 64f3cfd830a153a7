------------------------------ MODULE MLSGroupLog ------------------------------
(***************************************************************************)
(* What the store promises about the MLS group of ONE conversation: the    *)
(* Store interface's CommitMLSGroup and ResetMLSGroup, as the in-memory    *)
(* store performs them -- one step each, under one lock.                   *)
(*                                                                         *)
(* A conversation records which group it is (group), how many Commits that *)
(* group has had (epoch), the head of the ordering chain over them         *)
(* (chain), the groups it retired (prior) and the control messages its     *)
(* members read (log).                                                     *)
(*                                                                         *)
(* A Commit's ciphertext is opaque to the server; it is a member of        *)
(* Commits, and no two requests carry the same one.                        *)
(***************************************************************************)
EXTENDS Integers, Sequences, MLSChain

CONSTANTS Commits,          \* the Commits clients may offer
          Groups,           \* MLS group ids
          NoGroup,          \* the empty group id: nothing established
          MaxPriorGroups    \* how many retired groups a conversation remembers


VARIABLES group,    \* mlsGroupId
          epoch,    \* mlsEpoch
          chain,    \* mlsChainHash; << >> is the nil hash
          prior,    \* mlsPriorGroupIds, newest first
          log       \* the Welcome and Commit messages stored, in any order

logVars == <<group, epoch, chain, prior, log>>

-----------------------------------------------------------------------------

\* stampChainHash writes the hash on the Commit and on nothing else.
WelcomeMsg(c, g, e) ==
    [kind |-> "welcome", commit |-> c, group |-> g, epoch |-> e, hash |-> << >>]
CommitMsg(c, g, e, h) ==
    [kind |-> "commit", commit |-> c, group |-> g, epoch |-> e, hash |-> h]

\* The messages of an accepted Commit; one that adds nobody has no Welcome.
Batch(c, g, e, w, h) ==
    {CommitMsg(c, g, e, h)} \cup (IF w THEN {WelcomeMsg(c, g, e)} ELSE {})

\* The retired group goes to the front and the oldest one falls off the end.
Remembering(p, g) ==
    LET all == <<g>> \o p
    IN  IF Len(all) > MaxPriorGroups THEN SubSeq(all, 1, MaxPriorGroups) ELSE all

-----------------------------------------------------------------------------

LogInit ==
    /\ group = NoGroup
    /\ epoch = 0
    /\ chain = << >>
    /\ prior = << >>
    /\ log = {}

\* The guard of CommitMLSGroup: the state the caller built its Commit on is
\* the state the conversation is in.
Matches(g, b) ==
    \/ b = 0 /\ group = NoGroup         \* establishing
    \/ group = g /\ epoch = b           \* advancing

\* An accepted CommitMLSGroup; a refused one changes nothing.
Commit(c, g, b, w) ==
    /\ \A m \in log : m.commit # c
    /\ Matches(g, b)
    /\ group' = g
    /\ epoch' = b + 1
    /\ chain' = Link(chain, b + 1, g, c)
    /\ log' = log \cup Batch(c, g, b + 1, w, chain')
    /\ UNCHANGED prior

\* ResetMLSGroup of an established group: retired and remembered, not deleted.
Reset ==
    /\ group # NoGroup
    /\ group' = NoGroup
    /\ epoch' = 0
    /\ chain' = << >>
    /\ prior' = Remembering(prior, group)
    /\ UNCHANGED log

\* Matches leaves no other base epoch a chance.
LogNext ==
    \/ \E c \in Commits, g \in Groups, b \in {0, epoch}, w \in BOOLEAN : Commit(c, g, b, w)
    \/ Reset

LogSpec == LogInit /\ [][LogNext]_logVars
=============================================================================
