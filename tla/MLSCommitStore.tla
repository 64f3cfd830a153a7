---------------------------- MODULE MLSCommitStore ----------------------------
(***************************************************************************)
(* CommitMLSGroup and ResetMLSGroup of the MongoDB store, one action per   *)
(* database call, for one conversation.                                    *)
(*                                                                         *)
(* Every request runs in its own goroutine (and, behind the load balancer, *)
(* in its own process), so between any two of its database calls any other *)
(* request may run any of its own.  A CommitMLSGroup call                  *)
(*                                                                         *)
(*    head     reads the chain head              (not when establishing)   *)
(*    cas      moves (group, epoch, chain) if they are what it expects     *)
(*    welcome  inserts the Welcome               (when it carries one)     *)
(*    commit   inserts the Commit                                          *)
(*    rollback puts the epoch back               (when an insert failed)   *)
(*                                                                         *)
(* and ends accepted, in conflict, or failed.  Failures names what may go  *)
(* wrong on the way: "read" -- the read of the head errs; "insert" -- an   *)
(* insert errs and nothing was written; "answer" -- a write was applied    *)
(* and its answer was lost, which the code cannot tell from an error;      *)
(* "cancel" -- the request's context ends (its client hung up, or the      *)
(* process died), after which none of its remaining calls, the rollback    *)
(* included, reaches the database.                                         *)
(***************************************************************************)
EXTENDS Integers, Sequences

CONSTANTS Requests,         \* calls of CommitMLSGroup, each with its own Commit
          Resets,           \* calls of ResetMLSGroup
          Groups, NoGroup, MaxPriorGroups,
          Failures,         \* a subset of {"read", "insert", "answer", "cancel"}
          IsMirror          \* whether this host follows another's conversation

ASSUME StoreAssumption ==
    /\ NoGroup \notin Groups
    /\ MaxPriorGroups \in Nat \ {0}
    /\ Failures \subseteq {"read", "insert", "answer", "cancel"}
    /\ IsMirror \in BOOLEAN

VARIABLES group, epoch, chain, prior, log,
          pc,        \* where each request is
          req,       \* what each request asks for
          prev,      \* prevHash, as each request read it
          minted,    \* the group ids clients have created
          rpc,       \* where each reset is
          noticed,   \* the group a reset's caller found beyond use
          target     \* the group a reset read from the conversation

storeVars == <<group, epoch, chain, prior, log>>
reqVars == <<pc, req, prev, minted>>
resetVars == <<rpc, noticed, target>>
vars == <<group, epoch, chain, prior, log, pc, req, prev, minted, rpc, noticed, target>>

\* The promise this module is measured against, over its own view of the log.
L == INSTANCE MLSGroupLog WITH Commits <- Requests

Unsent == [group |-> NoGroup, base |-> 0, welcome |-> FALSE]

\* A request whose compare-and-set landed and whose messages are not all in.
InFlight == {r \in Requests : pc[r] \in {"welcome", "commit", "rollback"}}
\* Mutant: the link is built on nothing.
UnlinkedHash(r) == L!Link(<< >>, req[r].base + 1, req[r].group, r)
NewHash(r) == L!Link(prev[r], req[r].base + 1, req[r].group, r)

-----------------------------------------------------------------------------
(***************************************************************************)
(* The callers.  A client that establishes mints a group id nobody has     *)
(* used (crypto.randomUUID); any other client is in the group at the epoch *)
(* it names, so it has read the Commit that made that epoch.  A mirror     *)
(* also applies the Commits its hub relays, and checks those against the   *)
(* recorded head, not against the log (applyRelayedCommit).                *)
(***************************************************************************)
Establish(r, g, w) ==
    /\ pc[r] = "idle"
    /\ g \notin minted
    /\ minted' = minted \cup {g}
    /\ req' = [req EXCEPT ![r] = [group |-> g, base |-> 0, welcome |-> w]]
    /\ pc' = [pc EXCEPT ![r] = "cas"]
    /\ UNCHANGED <<storeVars, prev, resetVars>>

Advance(r, m, w) ==
    /\ pc[r] = "idle"
    /\ m.kind = "commit"
    /\ req' = [req EXCEPT ![r] = [group |-> m.group, base |-> m.epoch, welcome |-> w]]
    /\ pc' = [pc EXCEPT ![r] = "head"]
    /\ UNCHANGED <<storeVars, prev, minted, resetVars>>

Follow(r, w) ==
    /\ IsMirror
    /\ pc[r] = "idle"
    /\ group # NoGroup
    /\ req' = [req EXCEPT ![r] = [group |-> group, base |-> epoch, welcome |-> w]]
    /\ pc' = [pc EXCEPT ![r] = "head"]
    /\ UNCHANGED <<storeVars, prev, minted, resetVars>>

-----------------------------------------------------------------------------
(***************************************************************************)
(* CommitMLSGroup.                                                         *)
(***************************************************************************)
ReadHead(r) ==
    /\ pc[r] = "head"
    /\ prev' = [prev EXCEPT ![r] = chain]
    /\ pc' = [pc EXCEPT ![r] = "cas"]
    /\ UNCHANGED <<storeVars, req, minted, resetVars>>

\* The error of the read is dropped and the link is built on the nil hash.
ReadHeadFails(r) ==
    /\ "read" \in Failures
    /\ pc[r] = "head"
    /\ pc' = [pc EXCEPT ![r] = "cas"]
    /\ UNCHANGED <<storeVars, req, prev, minted, resetVars>>

\* Mutant: the filter does not pin the epoch.
GroupOnlyFilter(r) ==
    IF req[r].base = 0 THEN group = NoGroup ELSE group = req[r].group

\* The filter of FindOneAndUpdate.
Filter(r) ==
    IF req[r].base = 0 THEN group = NoGroup
                       ELSE group = req[r].group /\ epoch = req[r].base

CompareAndSet(r) ==
    /\ pc[r] = "cas"
    /\ Filter(r)
    /\ group' = req[r].group
    /\ epoch' = req[r].base + 1
    /\ chain' = NewHash(r)
    /\ pc' = [pc EXCEPT ![r] = IF req[r].welcome THEN "welcome" ELSE "commit"]
    /\ UNCHANGED <<prior, log, req, prev, minted, resetVars>>

\* The update was applied, and the error that came back for it ends the call: nothing
\* is inserted and nothing is rolled back.
CompareAndSetUnanswered(r) ==
    /\ "answer" \in Failures
    /\ pc[r] = "cas"
    /\ Filter(r)
    /\ group' = req[r].group
    /\ epoch' = req[r].base + 1
    /\ chain' = NewHash(r)
    /\ pc' = [pc EXCEPT ![r] = "failed"]
    /\ UNCHANGED <<prior, log, req, prev, minted, resetVars>>

\* Mutant: the Welcome was appended before the decision.
ConflictAfterAppending(r) ==
    /\ pc[r] = "cas"
    /\ ~Filter(r)
    /\ log' = log \cup {L!WelcomeMsg(r, req[r].group, req[r].base + 1)}
    /\ pc' = [pc EXCEPT ![r] = "conflict"]
    /\ UNCHANGED <<group, epoch, chain, prior, req, prev, minted, resetVars>>

Conflict(r) ==
    /\ pc[r] = "cas"
    /\ ~Filter(r)
    /\ pc' = [pc EXCEPT ![r] = "conflict"]
    /\ UNCHANGED <<storeVars, req, prev, minted, resetVars>>

InsertWelcome(r) ==
    /\ pc[r] = "welcome"
    /\ log' = log \cup {L!WelcomeMsg(r, req[r].group, req[r].base + 1)}
    /\ pc' = [pc EXCEPT ![r] = "commit"]
    /\ UNCHANGED <<group, epoch, chain, prior, req, prev, minted, resetVars>>

InsertCommit(r) ==
    /\ pc[r] = "commit"
    /\ log' = log \cup {L!CommitMsg(r, req[r].group, req[r].base + 1, NewHash(r))}
    /\ pc' = [pc EXCEPT ![r] = "accepted"]
    /\ UNCHANGED <<group, epoch, chain, prior, req, prev, minted, resetVars>>

InsertFails(r) ==
    /\ "insert" \in Failures
    /\ pc[r] \in {"welcome", "commit"}
    /\ pc' = [pc EXCEPT ![r] = "rollback"]
    /\ UNCHANGED <<storeVars, req, prev, minted, resetVars>>

\* The message is in the log, and the call takes the error for a message that is not.
InsertUnanswered(r) ==
    /\ "answer" \in Failures
    /\ pc[r] \in {"welcome", "commit"}
    /\ log' = log \cup {IF pc[r] = "welcome"
                           THEN L!WelcomeMsg(r, req[r].group, req[r].base + 1)
                           ELSE L!CommitMsg(r, req[r].group, req[r].base + 1, NewHash(r))}
    /\ pc' = [pc EXCEPT ![r] = "rollback"]
    /\ UNCHANGED <<group, epoch, chain, prior, req, prev, minted, resetVars>>

\* Mutant: the rollback is not conditional.
BlindRollback(r) ==
    /\ pc[r] = "rollback"
    /\ group' = IF req[r].base = 0 THEN NoGroup ELSE req[r].group
    /\ epoch' = req[r].base
    /\ chain' = prev[r]
    /\ pc' = [pc EXCEPT ![r] = "failed"]
    /\ UNCHANGED <<prior, log, req, prev, minted, resetVars>>

\* rollbackMLSGroup: conditional on the very state the request wrote.
Rollback(r) ==
    /\ pc[r] = "rollback"
    /\ IF group = req[r].group /\ epoch = req[r].base + 1
         THEN /\ group' = IF req[r].base = 0 THEN NoGroup ELSE req[r].group
              /\ epoch' = req[r].base
              /\ chain' = prev[r]
         ELSE UNCHANGED <<group, epoch, chain>>
    /\ pc' = [pc EXCEPT ![r] = "failed"]
    /\ UNCHANGED <<prior, log, req, prev, minted, resetVars>>

Cancel(r) ==
    /\ "cancel" \in Failures
    /\ pc[r] \in {"head", "cas", "welcome", "commit", "rollback"}
    /\ pc' = [pc EXCEPT ![r] = "failed"]
    /\ UNCHANGED <<storeVars, req, prev, minted, resetVars>>

-----------------------------------------------------------------------------
(***************************************************************************)
(* ResetMLSGroup.  The caller decided that one group is beyond use; the    *)
(* request does not say which.                                             *)
(***************************************************************************)
Notice(q) ==
    /\ rpc[q] = "idle"
    /\ group # NoGroup
    /\ noticed' = [noticed EXCEPT ![q] = group]
    /\ rpc' = [rpc EXCEPT ![q] = "read"]
    /\ UNCHANGED <<storeVars, reqVars, target>>

ReadGroup(q) ==
    /\ rpc[q] = "read"
    /\ target' = [target EXCEPT ![q] = group]
    /\ rpc' = [rpc EXCEPT ![q] = IF group = NoGroup THEN "done" ELSE "update"]
    /\ UNCHANGED <<storeVars, reqVars, noticed>>

\* mlsChainHash is not in the update: it keeps the retired group's head.
Retire(q) ==
    /\ rpc[q] = "update"
    /\ IF group = target[q]
         THEN /\ group' = NoGroup
              /\ epoch' = 0
              /\ prior' = L!Remembering(prior, group)
         ELSE UNCHANGED <<group, epoch, prior>>
    /\ rpc' = [rpc EXCEPT ![q] = "done"]
    /\ UNCHANGED <<chain, log, reqVars, noticed, target>>

-----------------------------------------------------------------------------

Init ==
    /\ L!LogInit
    /\ pc = [r \in Requests |-> "idle"]
    /\ req = [r \in Requests |-> Unsent]
    /\ prev = [r \in Requests |-> << >>]
    /\ minted = {}
    /\ rpc = [q \in Resets |-> "idle"]
    /\ noticed = [q \in Resets |-> NoGroup]
    /\ target = [q \in Resets |-> NoGroup]

Request(r) ==
    \/ \E g \in Groups, w \in BOOLEAN : Establish(r, g, w)
    \/ \E m \in log, w \in BOOLEAN : Advance(r, m, w)
    \/ \E w \in BOOLEAN : Follow(r, w)
    \/ ReadHead(r)
    \/ ReadHeadFails(r)
    \/ CompareAndSet(r)
    \/ CompareAndSetUnanswered(r)
    \/ Conflict(r)
    \/ InsertWelcome(r)
    \/ InsertCommit(r)
    \/ InsertFails(r)
    \/ InsertUnanswered(r)
    \/ Rollback(r)
    \/ Cancel(r)

ResetStep(q) == Notice(q) \/ ReadGroup(q) \/ Retire(q)

Next == (\E r \in Requests : Request(r)) \/ (\E q \in Resets : ResetStep(q))

Spec == Init /\ [][Next]_vars

-----------------------------------------------------------------------------
(***************************************************************************)
(* What must hold.                                                         *)
(***************************************************************************)
Logged(g, e) == {m \in log : m.kind = "commit" /\ m.group = g /\ m.epoch = e}

Links == [epoch : Nat, group : Groups, commit : Requests]

StoreType ==
    /\ group \in Groups \cup {NoGroup}
    /\ epoch \in Nat
    /\ (group = NoGroup) <=> (epoch = 0)
    /\ chain \in Seq(Links)

RequestType ==
    /\ pc \in [Requests -> {"idle", "head", "cas", "welcome", "commit", "rollback",
                            "accepted", "conflict", "failed"}]
    /\ req \in [Requests -> [group : Groups \cup {NoGroup}, base : Nat, welcome : BOOLEAN]]
    /\ prev \in [Requests -> Seq(Links)]
    /\ minted \subseteq Groups

ResetType ==
    /\ rpc \in [Resets -> {"idle", "read", "update", "done"}]
    /\ noticed \in [Resets -> Groups \cup {NoGroup}]
    /\ target \in [Resets -> Groups \cup {NoGroup}]
    /\ \A q \in Resets : rpc[q] = "update" => target[q] # NoGroup

LogType ==
    \A m \in log : /\ m.kind \in {"welcome", "commit"}
                   /\ m.group \in minted
                   /\ m.epoch \in Nat \ {0}
                   /\ m.commit \in Requests

\* Every variable has the shape the code gives it, and a conversation is at
\* epoch 0 exactly when it has no group.
TypeOK == StoreType /\ RequestType /\ ResetType /\ LogType

\* The Commits whose senders were told that they made their epoch.
Confirmed == {m \in log : m.kind = "commit" /\ pc[m.commit] = "accepted"}

\* An MLS group has one history: however many requests race, and whichever of
\* them fail, lose an answer or roll back, no two senders are told that their
\* Commits made the same epoch of the same group (CommitMLSGroup).
OneCommitPerEpoch ==
    \A m, n \in Confirmed : m.group = n.group /\ m.epoch = n.epoch => m = n

\* A rollback never undoes a Commit that its sender was told is in: the epoch of
\* the current group is at least that of every such Commit
\* (rollbackMLSGroup: "it cannot undo somebody else's later Commit").
AcceptedNeverUndone ==
    \A m \in Confirmed : m.group = group => m.epoch <= epoch

\* Every member follows one history: the log its members read holds at most one
\* Commit for an epoch of a group (CommitMLSGroup: "keeps every member on one
\* group history").  Violated once a rollback takes an insert whose answer was
\* lost for one that "never reached anyone".
OneReadableHistory ==
    \A m, n \in log :
        /\ m.kind = "commit" /\ n.kind = "commit"
        /\ m.group = n.group /\ m.epoch = n.epoch
        => m = n

\* Nobody is stranded: each epoch the group has reached has its Commit in the
\* log, or a request still about to insert it or to take the epoch back.
EpochBacked ==
    group # NoGroup =>
        \A e \in 1..epoch :
            \/ Logged(group, e) # {}
            \/ \E r \in InFlight : req[r].group = group /\ req[r].base + 1 = e

\* The ordering chain is the log's: each Commit is stamped with a link on the
\* stamp of the Commit of the epoch before it, and the first with a link on
\* nothing.  It is what a mirror recomputes before it accepts a Commit.
ChainLinks ==
    \A m \in log : m.kind = "commit" =>
        IF m.epoch = 1
          THEN m.hash = L!Link(<< >>, 1, m.group, m.commit)
          ELSE \E n \in Logged(m.group, m.epoch - 1) :
                   m.hash = L!Link(n.hash, m.epoch, m.group, m.commit)

\* Nobody can join from the Welcome of a Commit the group never had: a Welcome
\* in the log goes with a Commit in the log or with one about to be inserted.
NoGhostWelcome ==
    \A m \in log : m.kind = "welcome" =>
        \/ pc[m.commit] = "commit"
        \/ \E n \in log : n.kind = "commit" /\ n.commit = m.commit

\* A conversation that moved on never moves back: a group it retired is not its
\* group again, whatever late Commit, rollback or reset still lands.
RetiredStaysRetired ==
    [][group' # group => \A i \in DOMAIN prior : group' # prior[i]]_vars

\* A reset retires the group its caller found beyond use and no other
\* (ResetMLSGroup: two clients "cannot retire two groups between them").
ResetsRetireWhatWasNoticed ==
    [][\A q \in Resets :
          rpc[q] = "update" /\ rpc'[q] = "done" /\ group' # group
          => group = noticed[q]]_vars

\* The conversation as its callers may think of it: an accepted Commit took
\* effect, Welcome and all, in the instant of its compare-and-set.
Promised == log \cup UNION {L!Batch(r, req[r].group, req[r].base + 1, req[r].welcome, NewHash(r))
                            : r \in InFlight}
Abs == INSTANCE MLSGroupLog WITH
           Commits <- Requests,
           chain <- IF group = NoGroup THEN << >> ELSE chain,
           log <- Promised

\* While no call fails, the sequence of database calls is indistinguishable from
\* the one locked step of the in-memory store.
ImplementsGroupLog == Abs!LogSpec
=============================================================================
