---------------------------- MODULE ConvFederation ----------------------------
(***************************************************************************)
(* One encrypted conversation shared by several hosts (chat.ConvFederation *)
(* and the handlers that call it).  The hub orders: every Commit and every *)
(* message is appended there and relayed from there.  A mirror forwards    *)
(* what its own devices post and applies what the hub relays, each Commit  *)
(* only if its signed ordering link is the one the mirror computes from    *)
(* its own head.                                                           *)
(*                                                                         *)
(* A post goes through                                                     *)
(*                                                                         *)
(*    sent      at, or on its way to, the hub                              *)
(*    stored    in the hub's log, not yet relayed                          *)
(*    answered  the hub's answer is on its way to the mirror               *)
(*    checked   the mirror has verified the link the hub returned          *)
(*    ok, conflict, error     what the device was told                     *)
(*                                                                         *)
(* Each host's store is the one of MLSGroupLog: CommitMLSGroup is atomic.  *)
(* A Commit's Welcome travels in its batch and shares its fate, so a batch *)
(* is its Commit.  The relays of two posts are two HTTP calls of two       *)
(* handlers, so they arrive in any order; none is ever repeated.  With     *)
(* "loss" among the Failures, a call between hosts may fail: the call      *)
(* itself, or only its answer.                                             *)
(***************************************************************************)
EXTENDS Integers, MLSChain

CONSTANTS Hub, Mirrors,     \* the hosts
          Founding,         \* the mirrors made with the conversation itself
          Commits,          \* Commits devices may post
          Messages,         \* messages devices may post
          Groups, NoGroup,
          MayReset,         \* the hosts where a member may give the group up
          Failures          \* a subset of {"loss"}

ASSUME FederationAssumption ==
    /\ Hub \notin Mirrors
    /\ Founding \subseteq Mirrors
    /\ Commits \cap Messages = {}
    /\ Mirrors \cap (Commits \cup Messages) = {}
    /\ NoGroup \notin Groups
    /\ MayReset \subseteq {Hub} \cup Mirrors
    /\ Failures \subseteq {"loss"}

Hosts == {Hub} \cup Mirrors
Items == Commits \cup Messages

VARIABLES conv,      \* each host's copy: does it exist, its group, its log
          roster,    \* the mirrors whose members the hub's copy lists
          adding,    \* where AddRemoteMember for each mirror is
          spec,      \* the group state AddRemoteMember carries to each mirror
          post,      \* where each post is
          net,       \* relays on their way
          checked    \* relayed Commits verified and not yet applied

vars == <<conv, roster, adding, spec, post, net, checked>>

\* A copy with nothing in it yet.
Fresh(e) == [exists |-> e, group |-> NoGroup, epoch |-> 0, chain |-> << >>,
             seq |-> 0, log |-> {}]
Unsent == [at |-> Hub, phase |-> "idle", group |-> NoGroup, base |-> 0, hash |-> << >>]

\* The group ids devices have created.
Minted == {post[c].group : c \in Commits} \ {NoGroup}

-----------------------------------------------------------------------------
(***************************************************************************)
(* The store of one host.                                                  *)
(***************************************************************************)
CommitRow(c, g, e, h, n) ==
    [id |-> c, kind |-> "commit", group |-> g, epoch |-> e, hash |-> h, seq |-> n]
PlainRow(x, k, n) ==
    [id |-> x, kind |-> k, group |-> NoGroup, epoch |-> 0, hash |-> << >>, seq |-> n]

\* CommitMLSGroup accepts a Commit built on the state the conversation is in.
Matches(s, g, b) == IF b = 0 THEN s.group = NoGroup ELSE s.group = g /\ s.epoch = b

\* The head CommitMLSGroup links to: establishing starts a chain.
PrevHash(s, b) == IF b = 0 THEN << >> ELSE s.chain

\* The copy after CommitMLSGroup accepted; n = 0 asks for a sequence number.
Committed(s, c, g, b, n) ==
    LET h == Link(PrevHash(s, b), b + 1, g, c)
        k == IF n = 0 THEN s.seq + 1 ELSE n
    IN  [s EXCEPT !.group = g, !.epoch = b + 1, !.chain = h,
                  !.seq = IF n = 0 THEN k ELSE @,
                  !.log = @ \cup {CommitRow(c, g, b + 1, h, k)}]

\* AppendChatMessage: a message that already carries its number keeps it.
Appended(s, x, k, n) ==
    IF n = 0 THEN [s EXCEPT !.seq = @ + 1, !.log = @ \cup {PlainRow(x, k, s.seq + 1)}]
             ELSE [s EXCEPT !.log = @ \cup {PlainRow(x, k, n)}]

-----------------------------------------------------------------------------
(***************************************************************************)
(* Devices.  A device builds a Commit on the group its own host shows it,  *)
(* or establishes one, under an id nobody has used, if there is none.      *)
(***************************************************************************)
Propose(c, h, g) ==
    /\ post[c].phase = "idle"
    /\ conv[h].exists
    /\ IF conv[h].group = NoGroup THEN g \notin Minted ELSE g = conv[h].group
    /\ post' = [post EXCEPT ![c] = [at |-> h, phase |-> "sent", group |-> g,
                                    base |-> conv[h].epoch, hash |-> << >>]]
    /\ UNCHANGED <<conv, roster, adding, spec, net, checked>>

Send(x, h) ==
    /\ post[x].phase = "idle"
    /\ conv[h].exists
    /\ post' = [post EXCEPT ![x].at = h, ![x].phase = "sent"]
    /\ UNCHANGED <<conv, roster, adding, spec, net, checked>>

\* ResetMLSGroup, on the member's own host and on no other; it keeps the head.
Reset(h) ==
    /\ h \in MayReset
    /\ conv[h].exists
    /\ conv[h].group # NoGroup
    /\ conv' = [conv EXCEPT ![h].group = NoGroup, ![h].epoch = 0]
    /\ UNCHANGED <<roster, adding, spec, post, net, checked>>

-----------------------------------------------------------------------------
(***************************************************************************)
(* The hub: postMLSCommit and postMessage for its own devices,             *)
(* SubmitCommit and SubmitMessage for a mirror's.                          *)
(***************************************************************************)
Accept(c) ==
    /\ post[c].phase = "sent"
    /\ Matches(conv[Hub], post[c].group, post[c].base)
    /\ conv' = [conv EXCEPT ![Hub] = Committed(@, c, post[c].group, post[c].base, 0)]
    /\ post' = [post EXCEPT ![c].phase = "stored", ![c].hash = conv'[Hub].chain]
    /\ UNCHANGED <<roster, adding, spec, net, checked>>

Refuse(c) ==
    /\ post[c].phase = "sent"
    /\ ~Matches(conv[Hub], post[c].group, post[c].base)
    /\ post' = [post EXCEPT ![c].phase = IF post[c].at = Hub THEN "conflict" ELSE "answered"]
    /\ UNCHANGED <<conv, roster, adding, spec, net, checked>>

AppendMessage(x) ==
    /\ post[x].phase = "sent"
    /\ conv' = [conv EXCEPT ![Hub] = Appended(@, x, "message", 0)]
    /\ post' = [post EXCEPT ![x].phase = "stored"]
    /\ UNCHANGED <<roster, adding, spec, net, checked>>

\* Mutant: the submitter is relayed its own Commit as well.
RelayToAll(x) ==
    /\ post[x].phase = "stored"
    /\ net' = net \cup [to : roster, row : {m \in conv[Hub].log : m.id = x}]
    /\ post' = [post EXCEPT ![x].phase = IF post[x].at = Hub THEN "ok" ELSE "answered"]
    /\ UNCHANGED <<conv, roster, adding, spec, checked>>

\* RelayAppended, relayExcept: one call to each host with a member, except the
\* one that will have it from the answer.
Relay(x) ==
    /\ post[x].phase = "stored"
    /\ net' = net \cup [to : roster \ {post[x].at}, row : {m \in conv[Hub].log : m.id = x}]
    /\ post' = [post EXCEPT ![x].phase = IF post[x].at = Hub THEN "ok" ELSE "answered"]
    /\ UNCHANGED <<conv, roster, adding, spec, checked>>

-----------------------------------------------------------------------------
(***************************************************************************)
(* A mirror, hearing from the hub: DeliverRelayed, applyRelayedCommit.     *)
(***************************************************************************)
DeliverMessage(r) ==
    /\ r.row.kind # "commit"
    /\ net' = net \ {r}
    /\ conv' = IF conv[r.to].exists
                 THEN [conv EXCEPT ![r.to] = Appended(@, r.row.id, r.row.kind, r.row.seq)]
                 ELSE conv
    /\ UNCHANGED <<roster, adding, spec, post, checked>>

Expected(s, row) == Link(s.chain, row.epoch, row.group, row.id)

CheckCommit(r) ==
    /\ r.row.kind = "commit"
    /\ conv[r.to].exists
    /\ r.row.hash = Expected(conv[r.to], r.row)
    /\ net' = net \ {r}
    /\ checked' = checked \cup {r}
    /\ UNCHANGED <<conv, roster, adding, spec, post>>

\* errNoMirror, errChainMismatch: logged on both hosts, and that is all.
DropCommit(r) ==
    /\ r.row.kind = "commit"
    /\ ~(conv[r.to].exists /\ r.row.hash = Expected(conv[r.to], r.row))
    /\ net' = net \ {r}
    /\ UNCHANGED <<conv, roster, adding, spec, post, checked>>

\* CommitMLSGroup on the mirror; ErrEpochConflict is not an error here.
ApplyCommit(r) ==
    /\ checked' = checked \ {r}
    /\ conv' = IF Matches(conv[r.to], r.row.group, r.row.epoch - 1)
                 THEN [conv EXCEPT ![r.to] = Committed(@, r.row.id, r.row.group,
                                                       r.row.epoch - 1, r.row.seq)]
                 ELSE conv
    /\ UNCHANGED <<roster, adding, spec, post, net>>

-----------------------------------------------------------------------------
(***************************************************************************)
(* A mirror, hearing the answer to what it forwarded: ForwardMessage,      *)
(* ForwardCommit.                                                          *)
(***************************************************************************)
EchoMessage(x) ==
    /\ post[x].phase = "answered"
    /\ \E row \in conv[Hub].log :
         /\ row.id = x
         /\ conv' = [conv EXCEPT ![post[x].at] = Appended(@, x, "message", row.seq)]
    /\ post' = [post EXCEPT ![x].phase = "ok"]
    /\ UNCHANGED <<roster, adding, spec, net, checked>>

AnswerConflict(c) ==
    /\ post[c].phase = "answered"
    /\ post[c].hash = << >>
    /\ post' = [post EXCEPT ![c].phase = "conflict"]
    /\ UNCHANGED <<conv, roster, adding, spec, net, checked>>

Divergent(c) ==
    post[c].hash # Link(conv[post[c].at].chain, post[c].base + 1, post[c].group, c)

\* Mutant: the mirror logs the divergence and leaves its device waiting.
SwallowDivergent(c) ==
    /\ post[c].phase = "answered"
    /\ post[c].hash # << >>
    /\ Divergent(c)
    /\ UNCHANGED vars

\* The hub accepted the Commit, and the device is told it could not be reached.
AnswerDivergent(c) ==
    /\ post[c].phase = "answered"
    /\ post[c].hash # << >>
    /\ Divergent(c)
    /\ post' = [post EXCEPT ![c].phase = "error"]
    /\ UNCHANGED <<conv, roster, adding, spec, net, checked>>

\* Mutant: the mirror leaves it to the relay it is never sent.
AcceptedUnapplied(c) ==
    /\ post[c].phase = "answered"
    /\ post[c].hash # << >>
    /\ ~Divergent(c)
    /\ post' = [post EXCEPT ![c].phase = "ok"]
    /\ UNCHANGED <<conv, roster, adding, spec, net, checked>>

AnswerAccepted(c) ==
    /\ post[c].phase = "answered"
    /\ post[c].hash # << >>
    /\ ~Divergent(c)
    /\ post' = [post EXCEPT ![c].phase = "checked"]
    /\ UNCHANGED <<conv, roster, adding, spec, net, checked>>

\* Mutant: the mirror applies what it forwarded before the hub has answered.
ApplyBeforeAnswer(c) ==
    /\ post[c].phase \in {"sent", "checked"}
    /\ post[c].at # Hub
    /\ LET p == post[c] IN
         conv' = IF Matches(conv[p.at], p.group, p.base)
                   THEN [conv EXCEPT ![p.at] = Committed(@, c, p.group, p.base, 0)]
                   ELSE conv
    /\ post' = [post EXCEPT ![c].phase = IF @ = "checked" THEN "ok" ELSE @]
    /\ UNCHANGED <<roster, adding, spec, net, checked>>

\* The mirror builds the rows itself, so their sequence number is its own; an
\* error of its store is logged and the device is told of success.
ApplyAnswer(c) ==
    /\ post[c].phase = "checked"
    /\ LET p == post[c] IN
         conv' = IF Matches(conv[p.at], p.group, p.base)
                   THEN [conv EXCEPT ![p.at] = Committed(@, c, p.group, p.base, 0)]
                   ELSE conv
    /\ post' = [post EXCEPT ![c].phase = "ok"]
    /\ UNCHANGED <<roster, adding, spec, net, checked>>

-----------------------------------------------------------------------------
(***************************************************************************)
(* addMember of somebody on another host: AddRemoteMember, ProvisionMirror.*)
(***************************************************************************)
GroupState(s) == [group |-> s.group, epoch |-> s.epoch, chain |-> s.chain]

ReadConversation(m) ==
    /\ adding[m] \in {"idle", "failed"}
    /\ adding' = [adding EXCEPT ![m] = "read"]
    /\ spec' = [spec EXCEPT ![m] = GroupState(conv[Hub])]
    /\ UNCHANGED <<conv, roster, post, net, checked>>

AddMemberRow(m) ==
    /\ adding[m] = "read"
    /\ adding' = [adding EXCEPT ![m] = "added"]
    /\ roster' = roster \cup {m}
    /\ UNCHANGED <<conv, spec, post, net, checked>>

\* The group state travels only if the hub had a group; a mirror that exists
\* is left as it is.
ProvisionMirror(m) ==
    /\ adding[m] = "added"
    /\ adding' = [adding EXCEPT ![m] = "provisioned"]
    /\ conv' = CASE conv[m].exists -> conv
                 [] ~conv[m].exists /\ spec[m].group = NoGroup ->
                      [conv EXCEPT ![m].exists = TRUE]
                 [] OTHER ->
                      [conv EXCEPT ![m].exists = TRUE, ![m].group = spec[m].group,
                                   ![m].epoch = spec[m].epoch, ![m].chain = spec[m].chain]
    /\ UNCHANGED <<roster, spec, post, net, checked>>

\* The membership line is appended on the hub and not relayed.
RecordMembership(m) ==
    /\ adding[m] = "provisioned"
    /\ adding' = [adding EXCEPT ![m] = "done"]
    /\ conv' = [conv EXCEPT ![Hub] = Appended(@, m, "membership", 0)]
    /\ UNCHANGED <<roster, spec, post, net, checked>>

-----------------------------------------------------------------------------
(***************************************************************************)
(* Calls between hosts that fail.  Nobody repeats them.                    *)
(***************************************************************************)
LoseRelay(r) ==
    /\ "loss" \in Failures
    /\ net' = net \ {r}
    /\ UNCHANGED <<conv, roster, adding, spec, post, checked>>

\* The request never arrived, or its answer did not.
LosePost(x) ==
    /\ "loss" \in Failures
    /\ post[x].at # Hub
    /\ post[x].phase \in {"sent", "answered"}
    /\ post' = [post EXCEPT ![x].phase = "error"]
    /\ UNCHANGED <<conv, roster, adding, spec, net, checked>>

\* The member's row stays; the admin may try again.
LoseProvision(m) ==
    /\ "loss" \in Failures
    /\ adding[m] = "added"
    /\ adding' = [adding EXCEPT ![m] = "failed"]
    /\ UNCHANGED <<conv, roster, spec, post, net, checked>>

-----------------------------------------------------------------------------

Init ==
    /\ conv = [h \in Hosts |-> Fresh(h \in {Hub} \cup Founding)]
    /\ roster = Founding
    /\ adding = [m \in Mirrors |-> IF m \in Founding THEN "done" ELSE "idle"]
    /\ spec = [m \in Mirrors |-> GroupState(Fresh(FALSE))]
    /\ post = [x \in Items |-> Unsent]
    /\ net = {}
    /\ checked = {}

\* What somebody decides to do.
Decide ==
    \/ \E c \in Commits, h \in Hosts, g \in Groups : Propose(c, h, g)
    \/ \E x \in Messages, h \in Hosts : Send(x, h)
    \/ \E h \in Hosts : Reset(h)
    \/ \E m \in Mirrors : ReadConversation(m)

Lose ==
    \/ \E r \in net : LoseRelay(r)
    \/ \E x \in Items : LosePost(x)
    \/ \E m \in Mirrors : LoseProvision(m)

\* What a handler does next.
OfCommit(c) ==
    \/ Accept(c)
    \/ Refuse(c)
    \/ AnswerConflict(c)
    \/ AnswerDivergent(c)
    \/ AnswerAccepted(c)
    \/ ApplyAnswer(c)

OfMessage(x) == AppendMessage(x) \/ EchoMessage(x)

OfRelay(r) == DeliverMessage(r) \/ CheckCommit(r) \/ DropCommit(r)

OfAddMember(m) == AddMemberRow(m) \/ ProvisionMirror(m) \/ RecordMembership(m)

Handle ==
    \/ \E c \in Commits : OfCommit(c)
    \/ \E x \in Messages : OfMessage(x)
    \/ \E x \in Items : Relay(x)
    \/ \E r \in net : OfRelay(r)
    \/ \E r \in checked : ApplyCommit(r)
    \/ \E m \in Mirrors : OfAddMember(m)

Next == Decide \/ Lose \/ Handle

Spec == Init /\ [][Next]_vars

\* Each handler that was started runs on, whatever the others do; nobody has to
\* decide anything, and no call has to fail.
Fairness ==
    /\ \A c \in Commits : WF_vars(OfCommit(c))
    /\ \A x \in Messages : WF_vars(OfMessage(x))
    /\ \A x \in Items : WF_vars(Relay(x))
    /\ \A m \in Mirrors : WF_vars(OfAddMember(m))
    /\ WF_vars(\E r \in net : OfRelay(r))
    /\ WF_vars(\E r \in checked : ApplyCommit(r))

FairSpec == Spec /\ Fairness

-----------------------------------------------------------------------------
(***************************************************************************)
(* What must hold.                                                         *)
(***************************************************************************)
Links == [epoch : Nat, group : Groups, commit : Commits]
Rows == [id : Items \cup Mirrors, kind : {"commit", "message", "membership"},
         group : Groups \cup {NoGroup}, epoch : Nat, hash : Seq(Links), seq : Nat]

Copies == [exists : BOOLEAN, group : Groups \cup {NoGroup}, epoch : Nat,
           chain : Seq(Links), seq : Nat, log : SUBSET Rows]

ConvType ==
    /\ conv \in [Hosts -> Copies]
    /\ \A h \in Hosts : (conv[h].group = NoGroup) <=> (conv[h].epoch = 0)
    /\ conv[Hub].exists

Phases == {"idle", "sent", "stored", "answered", "checked", "ok", "conflict", "error"}
Posts == [at : Hosts, phase : Phases, group : Groups \cup {NoGroup}, base : Nat,
          hash : Seq(Links)]

PostType ==
    /\ post \in [Items -> Posts]
    /\ \A x \in Items : post[x].phase \in {"answered", "checked"} => post[x].at # Hub

AddType ==
    /\ roster \subseteq Mirrors
    /\ adding \in [Mirrors -> {"idle", "read", "added", "provisioned", "done", "failed"}]
    /\ \A m \in Mirrors : adding[m] \notin {"idle", "read"} => m \in roster
    /\ spec \in [Mirrors -> [group : Groups \cup {NoGroup}, epoch : Nat, chain : Seq(Links)]]

NetType ==
    /\ net \subseteq [to : Mirrors, row : Rows]
    /\ checked \subseteq [to : Mirrors, row : Rows]

\* Every variable has the shape the code gives it; a copy is at epoch 0 exactly
\* when it has no group, and a mirror that exists has its members listed.
TypeOK ==
    /\ ConvType /\ PostType /\ AddType /\ NetType
    /\ \A m \in Mirrors : conv[m].exists => m \in roster

Ordered(c) == {row \in conv[Hub].log : row.id = c}

\* Two rows of one Commit, whatever sequence numbers they were given.
SameCommit(r, t) ==
    /\ r.id = t.id /\ r.kind = t.kind /\ r.group = t.group
    /\ r.epoch = t.epoch /\ r.hash = t.hash

\* No mirror ever forks: each Commit in a mirror's log, and the head the mirror
\* verifies the next one against, is the one the hub's log has for that group
\* and epoch -- although the mirror checks a link and applies its Commit in two
\* steps, two paths apply Commits, and either host may retire its group between
\* any two of them (applyRelayedCommit, ForwardCommit).
MirrorFollowsHub ==
    \A m \in Mirrors :
        /\ \A row \in conv[m].log :
             row.kind = "commit" =>
                 \E top \in conv[Hub].log : SameCommit(row, top)
        /\ conv[m].group # NoGroup =>
             \E top \in conv[Hub].log :
                 /\ top.kind = "commit" /\ top.group = conv[m].group
                 /\ top.epoch = conv[m].epoch /\ top.hash = conv[m].chain

\* A message is the same message everywhere: a mirror's copy has the id and the
\* sequence number the hub gave it, whichever way it came (fromRelayed).
MessagesVerbatim ==
    \A m \in Mirrors : \A row \in conv[m].log :
        row.kind = "message" => row \in conv[Hub].log

\* A device that is told its Commit failed may forget it: the hub does not have
\* it (Session.commit: "this Commit is not the group's history").
RefusedIsNotHistory ==
    \A c \in Commits : post[c].phase \in {"conflict", "error"} => Ordered(c) = {}

\* A device that is told its Commit was accepted finds it in its own host's log,
\* where the other devices of that host look for it (ForwardCommit: "the
\* follower's group state advances in lockstep with the hub").
AcceptedIsApplied ==
    \A c \in Commits : post[c].phase = "ok" =>
        \E row \in conv[post[c].at].log : row.id = c

\* Nobody's post is left unanswered, whatever the hub, the mirror's own head or
\* the network made of it.
EveryPostAnswered ==
    \A x \in Items : post[x].phase = "sent" ~> post[x].phase \in {"ok", "conflict", "error"}

\* Every mirror ends up where the hub is: devices post a bounded number of
\* Commits here, so the hub comes to rest, and if it has a group then, each host
\* with a member in it has the same one, at the same epoch.
MirrorsConverge ==
    \A m \in Mirrors :
        <>[](m \in roster /\ conv[Hub].group # NoGroup
             => GroupState(conv[m]) = GroupState(conv[Hub]))
=============================================================================
